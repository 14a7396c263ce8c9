------------------------------ MODULE SpVerdict ------------------------------
(* What disable_function promises: a call that is held against the rules,  *)
(* and every return, is decided in one step by the first rule of its list  *)
(* that matches and is not in simulation. A call that PHP makes on its own *)
(* in the middle of an instruction is held against them only if its        *)
(* function is hooked. SpDisable is shown to implement this specification. *)
EXTENDS Integers, Sequences

CONSTANTS Configs,          \* the configurations: sequences of rules
          Clients, Files, Calls, Rets,
          MaxFrames,        \* bound on the depth of calls
          None,
          MainCall(_),      \* the call that runs a file
          Made(_),          \* a call as it runs
          Mid(_),           \* whether code in the middle of an instruction may be below a call
          Walks(_, _, _),   \* whether a call is then held against the rules
          RuleList(_, _, _),\* the rules of a function: their places in the configuration
          CallSays(_, _, _),\* a rule says yes to a call: the calls on the stack, the client
          RetSays(_, _, _)  \* and to a return: the calls on the stack, the value

VARIABLES rules,    \* the rules of the configuration, in the order of its files
          client,   \* the address of the client
          stack,    \* the calls, and what was logged at each
          dropped   \* the rule that ended the request, 0 if none has

vars == <<rules, client, stack, dropped>>

Top   == Len(stack)
Trace == [k \in 1..Top |-> stack[k].call]
List  == RuleList(rules, stack[Top].call.fn, stack[Top].stage = "ret")

\* Rule k of the list of the frame at the top says yes to its call or return.
Says(k) == IF stack[Top].stage = "ret" THEN RetSays(rules[List[k]], Trace, stack[Top].ret)
                                       ELSE CallSays(rules[List[k]], Trace, client)

\* A rule in simulation decides nothing, unless it is one that allows.
Decides(k)  == Says(k) /\ (rules[List[k]].allow \/ ~rules[List[k]].simulation)
Undecided(k) == \A j \in 1..k - 1 : ~Decides(j)
Refused     == {k \in 1..Len(List) : Decides(k) /\ Undecided(k) /\ ~rules[List[k]].allow}
Logged      == {List[k] : k \in {i \in 1..Len(List) : Says(i) /\ Undecided(i + 1)}}

Entered(c, stage, mid) == [call |-> c, stage |-> stage, logged |-> {}, ret |-> None, mid |-> mid]
MainFrame(file) == Entered(MainCall(file), "run", FALSE)

Init == /\ rules \in Configs /\ client \in Clients
        /\ stack = <<>> /\ dropped = 0

BeginRequest(file) ==
  /\ stack = <<>>
  /\ stack' = <<MainFrame(file)>> /\ client' \in Clients /\ dropped' = 0
  /\ UNCHANGED rules

\* Code runs at the top, or the error handler does for a rule in simulation.
Call(c) ==
  /\ stack # <<>> /\ Top < MaxFrames
  /\ \E mid \in Mid(stack[Top]) :
       stack' = Append(stack, Entered(c, IF Walks(rules, c, mid) THEN "call" ELSE "run", mid))
  /\ UNCHANGED <<rules, client, dropped>>

Pass ==
  /\ stack # <<>> /\ stack[Top].stage = "call" /\ Refused = {}
  /\ stack' = [stack EXCEPT ![Top] =
                 [call |-> Made(@.call), stage |-> "run", ret |-> @.ret, logged |-> Logged, mid |-> @.mid]]
  /\ UNCHANGED <<rules, client, dropped>>

Return(v) ==
  /\ Top > 1 /\ stack[Top].stage = "run"
  /\ stack' = [stack EXCEPT ![Top] =
                 [call |-> @.call, stage |-> "ret", ret |-> v, logged |-> @.logged, mid |-> @.mid]]
  /\ UNCHANGED <<rules, client, dropped>>

Leave ==
  /\ Top > 1 /\ stack[Top].stage = "ret" /\ Refused = {}
  /\ stack' = SubSeq(stack, 1, Top - 1) /\ UNCHANGED <<rules, client, dropped>>

Drop ==
  /\ stack # <<>> /\ stack[Top].stage # "run"
  /\ \E k \in Refused : dropped' = List[k]
  /\ stack' = <<>> /\ UNCHANGED <<rules, client>>

\* The script ends, or a fatal error of its own ends it.
End == stack # <<>> /\ stack' = <<>> /\ UNCHANGED <<rules, client, dropped>>

Next == \/ \E file \in Files : BeginRequest(file)
        \/ \E c \in Calls : Call(c)
        \/ \E v \in Rets : Return(v)
        \/ Pass \/ Leave \/ Drop \/ End

Spec == Init /\ [][Next]_vars
=============================================================================
