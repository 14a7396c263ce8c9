------------------------------ MODULE SpDisable ------------------------------
(* How disable_function is evaluated: should_disable walks the list of the *)
(* function rule by rule before the call, should_drop_on_ret after it. A   *)
(* rule in simulation is logged, which may run the script's error handler, *)
(* and through it other calls and other walks, before the walk goes on.    *)
EXTENDS SpRules

VARIABLES rules,    \* the rules of the configuration, in the order of its files
          client,   \* the address of the client
          stack,    \* the call stack; each frame has its call
          dropped,  \* the rule that ended the request, 0 if none has
          crashed   \* the code read the description of a parameter that is not there

vars == <<rules, client, stack, dropped, crashed>>

Top     == Len(stack)
F       == stack[Top]
Trace   == [k \in 1..Top |-> stack[k].call]
List    == RuleList(rules, F.call.fn, F.stage = "ret")
Walking == stack # <<>> /\ F.stage # "run"
AtRule  == Walking /\ ~F.allowed /\ F.at <= Len(List)
Done    == Walking /\ (F.allowed \/ F.at > Len(List))
Rule    == rules[List[F.at]]
Says    == IF F.stage = "ret" THEN RetMatches(Rule, Trace, F.ret)
                              ELSE CallMatches(Rule, Trace, client)
Crashes == F.stage = "call" /\ ReadsNoArgInfo(Rule, Trace, client)
MayCrash == F.stage = "call" /\ ReadsBehind(Rule, Trace, client)

ASSUME FramesAreBounded == MaxFrames \in Nat \ {0}
ASSUME CallsNameFunctions == \A c \in Calls : "fn" \in DOMAIN c /\ c.fn \in Native \cup User \cup Construct
\* What the parser takes: a chain is the name of a function, which excludes a
\* regular expression for it.
ASSUME RulesAreParsed ==
  \A r \in Configs :
    /\ Len(r) \in Nat
    /\ \A i \in 1..Len(r) : r[i].chain # <<>> => Len(r[i].chain) \in Nat \ {0} /\ r[i].r_function = {}

\* A frame: whether PHP made the call on its own (Mid), and the walk over its
\* rules: the next one, whether one has allowed, those logged, and whether the
\* log is running the error handler.
Frame(c, stage, mid) == [call |-> c, stage |-> stage, ret |-> None, mid |-> mid,
                         at |-> 1, allowed |-> FALSE, seen |-> {}, logging |-> FALSE]

Init == /\ rules \in Configs /\ client \in Clients
        /\ stack = <<>> /\ dropped = 0 /\ crashed = FALSE

BeginRequest(file) ==
  /\ stack = <<>>
  /\ stack' = <<Frame(MainCall(file), "run", FALSE)>>
  /\ client' \in Clients /\ dropped' = 0 /\ crashed' = FALSE /\ UNCHANGED rules

\* A script calls when it runs, a native function calls back, and PHP calls
\* the error handler when a rule is being logged. Only code has constructs.
Call(c) ==
  /\ stack # <<>> /\ Top < MaxFrames
  /\ F.stage = "run" \/ (Walking /\ F.logging)
  /\ c.fn \in Construct => F.stage = "run" /\ F.call.file # None
  /\ \E mid \in Mid(F) :
       stack' = Append(stack, Frame(c, IF Walks(rules, c, mid) THEN "call" ELSE "run", mid))
  /\ UNCHANGED <<rules, client, dropped, crashed>>

\* The walk goes on with the changes ch to the frame.
WalkOn(ch) == stack' = [stack EXCEPT ![Top] = ch] /\ UNCHANGED <<rules, client, dropped, crashed>>

NextRule == /\ AtRule /\ ~Crashes /\ ~Says
            /\ WalkOn([F EXCEPT !.at = @ + 1, !.logging = FALSE])

\* Slip: a rule that allows does not end the walk.
AllowGoesOn == /\ AtRule /\ ~Crashes /\ Says /\ Rule.allow
               /\ WalkOn([F EXCEPT !.at = @ + 1, !.logging = FALSE])
\* The rule matches and allows: the walk ends, for a rule in simulation too.
Allow == /\ AtRule /\ ~Crashes /\ Says /\ Rule.allow
         /\ WalkOn([F EXCEPT !.allowed = TRUE, !.logging = FALSE])

\* sp_log_disable in simulation: one line in the log, and on to the next rule.
Simulate == /\ AtRule /\ ~Crashes /\ Says /\ ~Rule.allow /\ Rule.simulation
            /\ WalkOn([F EXCEPT !.at = @ + 1, !.logging = TRUE,
                                !.seen = IF F.stage = "call" THEN @ \cup {List[F.at]} ELSE @])

EndRequest == stack # <<>> /\ stack' = <<>> /\ UNCHANGED <<rules, client>>

\* sp_log_disable and sp_log_disable_ret end the request by zend_bailout.
Drop == AtRule /\ ~Crashes /\ Says /\ ~Rule.allow /\ ~Rule.simulation
        /\ EndRequest /\ dropped' = List[F.at] /\ UNCHANGED crashed

Crash == AtRule /\ (Crashes \/ MayCrash) /\ EndRequest /\ crashed' = TRUE /\ UNCHANGED dropped

Pass == /\ Done /\ F.stage = "call"
        /\ WalkOn([F EXCEPT !.stage = "run", !.call = Made(@), !.logging = FALSE])

Return(v) == /\ Top > 1 /\ F.stage = "run"
             /\ WalkOn([F EXCEPT !.stage = "ret", !.ret = v, !.at = 1, !.allowed = FALSE])

Leave == /\ Done /\ F.stage = "ret" /\ stack' = SubSeq(stack, 1, Top - 1)
         /\ UNCHANGED <<rules, client, dropped, crashed>>

\* The script ends, or a fatal error of its own ends it.
End == EndRequest /\ UNCHANGED <<dropped, crashed>>

Next == \/ \E file \in DOMAIN Sha : BeginRequest(file)
        \/ \E c \in Calls : Call(c)
        \/ \E v \in Rets : Return(v)
        \/ NextRule \/ Allow \/ Simulate \/ Drop \/ Crash \/ Pass \/ Leave \/ End

Spec == Init /\ [][Next]_vars

-----------------------------------------------------------------------------
(* Properties *)

CallsMade == Calls \cup {Made(c) : c \in Calls} \cup {MainCall(file) : file \in DOMAIN Sha}
Frames == [call : CallsMade, stage : {"call", "run", "ret"}, ret : Rets \cup {None}, mid : BOOLEAN,
           at : Nat \ {0}, allowed : BOOLEAN, seen : SUBSET (1..Len(rules)), logging : BOOLEAN]

\* One type invariant: the walk of a frame stays within its list.
TypeOK ==
  /\ rules \in Configs /\ client \in Clients /\ crashed \in BOOLEAN
  /\ dropped \in 0..Len(rules) /\ stack \in Seq(Frames) /\ Len(stack) <= MaxFrames
  /\ \A i \in 1..Len(stack) :
       /\ IF i = 1 THEN stack[i].stage = "run"
                   ELSE stack[i].call.fn \in Native \cup User \cup Construct
       /\ stack[i].stage = "call" => stack[i].call \in Calls
       /\ stack[i].stage # "run" =>
            stack[i].at <= Len(RuleList(rules, stack[i].call.fn, stack[i].stage = "ret")) + 1

\* What a walk is worth to its caller: the rules logged become visible when it
\* ends.
Shown(f) == [call |-> f.call, stage |-> f.stage, ret |-> f.ret, mid |-> f.mid,
             logged |-> IF f.stage = "call" THEN {} ELSE f.seen]
Promised == [i \in 1..Len(stack) |-> Shown(stack[i])]
Verdict == INSTANCE SpVerdict WITH
  Files <- DOMAIN Sha, CallSays <- CallMatches, RetSays <- RetMatches, stack <- Promised

\* The walk of should_disable and should_drop_on_ret, whatever calls an error
\* handler makes between its steps, does what one decision by the first
\* decisive rule of the list does, for every call that sp_execute_handler or
\* a hook holds against the rules and for every return.
FirstRuleDecides == Verdict!Spec

-----------------------------------------------------------------------------
(* The same seen from the configuration file, on a call about to be judged *)

Judging == stack # <<>> /\ F.stage = "call" /\ F.call.fn \notin Construct

\* Rule i is about the function called, by its name, and its filters accept.
Applies(i) ==
  LET r == rules[i] IN
  /\ ~IsRet(r) /\ CallMatches(r, Trace, client)
  /\ IF r.r_function # {} THEN F.call.fn \in r.r_function
     ELSE F.call.fn = IF r.chain # <<>> THEN r.chain[1] ELSE r.function

InFile    == {i \in 1..Len(rules) : Applies(i) /\ (rules[i].allow \/ ~rules[i].simulation)}

\* As long as no rule by regular expression competes with one by name, the
\* rules of a function are consulted in the order of the file, and none that
\* applies is missed: neither a chained rule, indexed by its last function,
\* nor one behind it (sp_list_insert, add_df_to_hashtable).
OneKindInFileOrder ==
  Judging /\ (\/ \A i \in InFile : rules[i].r_function = {}
              \/ Named(rules, F.call.fn, FALSE) = <<>>)
    => \A i, j \in InFile : \E k \in 1..Len(List) :
         List[k] = i /\ (i < j => \E l \in k..Len(List) : List[l] = j)

\* A chained rule matches a call of its last function just where it is made
\* inside of the ones before it, outermost first, with no file that was
\* included between them (is_functions_list_matching).
ChainMetInside ==
  Judging => \A i \in 1..Len(rules) :
    LET chain == rules[i].chain IN
    chain # <<>> /\ chain[1] = F.call.fn =>
      (FunctionMatches(rules[i], Trace) <=>
         \E at \in [1..Len(chain) -> 2..Top] :
           /\ at[1] = Top
           /\ \A j \in DOMAIN at : HasName(stack[at[j]].call) /\ stack[at[j]].call.fn = chain[j]
           /\ \A j, k \in DOMAIN at : j < k => at[k] < at[j]
           /\ \A k \in at[Len(chain)]..Top : HasName(stack[k].call) \/ NoFrame(stack[k].call))
=============================================================================
