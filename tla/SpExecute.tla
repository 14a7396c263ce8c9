------------------------------ MODULE SpExecute ------------------------------
(***************************************************************************)
(* The execution hooks of Snuffleupagus and the filter on eval.            *)
(*                                                                         *)
(* sp_execute_ex and sp_zend_execute_internal see every call of a request. *)
(* They keep two counters, in_eval and execution_depth, incremented before *)
(* the code they run and decremented after it; sp_compile_string keeps the *)
(* source of the last string handed to the compiler.  The eval whitelist,  *)
(* the eval blacklist and the limit on recursion read nothing else.        *)
(*                                                                         *)
(* The counters stand for the C stack, which the code never looks at.      *)
(* Three things separate them: a drop or a fatal error leaves the frames   *)
(* with a longjmp and the counters behind, and shutdown functions run      *)
(* after it in the same request; a suspended fiber takes its frames off    *)
(* the stack and leaves its share in the counters; an error handler called *)
(* by the compiler runs code between the two halves of an eval.  The model *)
(* keeps the real frames, fiber by fiber, beside the counters.             *)
(***************************************************************************)
EXTENDS Naturals, Sequences, FiniteSets

CONSTANTS
  UserFunction,      \* functions and methods of the script
  InternalFunction,  \* functions and methods of PHP and its extensions
  Method,            \* those of them that are methods
  Reentrant,         \* internal functions that call back into the script
  Start, Resume, Suspend,  \* Fiber::start, Fiber::resume, Fiber::suspend
  Fiber,             \* fibers of a request
  Main,              \* what runs outside of every fiber
  Source,            \* strings given to eval
  Configs,           \* the configurations a request may run under
  None,              \* no function name, no source, nothing refused
  LastStage,         \* bound: the script, then the parts of its shutdown
  MaxFrames          \* bound: frames of a thread

Name == UserFunction \cup InternalFunction
Thread == Fiber \cup {Main}

\* What sp.eval_whitelist, sp.eval_blacklist and sp.global.max_execution_depth
\* give; an absent list is empty, an absent limit 0.
ConfigRecord ==
  [whitelist: SUBSET Name, whitelist_sim: BOOLEAN,
   blacklist: SUBSET Name, blacklist_sim: BOOLEAN, max_execution_depth: Nat]

\* What drops a call.
Rule == {"execute", "eval_whitelist", "eval_blacklist"}

ASSUME NamesAssumption ==
  /\ UserFunction \cap InternalFunction = {}
  /\ Reentrant \cup Method \subseteq InternalFunction
  /\ {Start, Resume, Suspend} \subseteq Method \ Reentrant
  /\ Cardinality({Start, Resume, Suspend}) = 3
  /\ Main \notin Fiber
  /\ IsFiniteSet(Fiber)
  /\ None \notin Name \cup Source \cup Rule
  /\ Configs \subseteq ConfigRecord

ASSUME BoundsAssumption ==
  /\ LastStage \in Nat \ {0}
  /\ MaxFrames \in Nat \ {0}

VARIABLES
  stage,             \* 0 between requests, 1 the script, 2.. its shutdown
  cfg,               \* the configuration in force
  in_eval,           \* SPG(in_eval)
  execution_depth,   \* SPG(execution_depth)
  eval_source,       \* SPG(eval_source_string)
  stack,             \* the frames of every thread, outermost first
  chain,             \* Main, the fiber it resumed, ... down to the running one
  refused            \* the rule being logged by sp_log_drop, or None

vars == <<stage, cfg, in_eval, execution_depth, eval_source, stack, chain, refused>>

Kind  == {"file", "user", "internal", "compile", "eval"}

\* A frame is the execution of a file, a function or an eval, or the
\* compilation of one.  Of an eval, src is its source and seen the source its
\* rules were given.  inside is history: an eval was running when it began.
Frame == [kind: Kind, name: Name \cup {None}, src: Source \cup {None},
          seen: Source \cup {None}, inside: BOOLEAN]

-----------------------------------------------------------------------------
(* The threads and their frames.                                           *)

Cur == chain[Len(chain)]
Top == stack[Cur][Len(stack[Cur])]
OnChain(t) == \E k \in DOMAIN chain : chain[k] = t
Suspended(t) == ~OnChain(t) /\ stack[t] # <<>>

\* The places of the frames whose kind is in K.
FramesIn(s, K) ==
  {p \in Thread \X (1..MaxFrames) :
     p[2] \in DOMAIN s[p[1]] /\ s[p[1]][p[2]].kind \in K}

Counted == {"file", "user", "eval"}   \* the kinds that sp_orig_execute runs
Evals    == FramesIn(stack, {"eval"})
Executed == FramesIn(stack, Counted)

InsideEval == \E p \in Evals : OnChain(p[1])

FrameFor(kind, name, src, seen) ==
  [kind |-> kind, name |-> name, src |-> src, seen |-> seen, inside |-> InsideEval]

Push(frame) == stack' = [stack EXCEPT ![Cur] = Append(@, frame)]
Pop(s, t)   == [s EXCEPT ![t] = SubSeq(@, 1, Len(@) - 1)]

Running == stage > 0 /\ refused = None
HasRoom == Len(stack[Cur]) < MaxFrames

TopIs(K) == stack[Cur] # <<>> /\ Top.kind \in K

\* Script code, which may include files and call eval.
InScript == TopIs(Counted)

\* What may call a function: script code, native code with a callback, the
\* compiler reporting to an error handler, and PHP itself (shutdown functions,
\* the function of a fiber).
CanCall ==
  \/ stack[Cur] = <<>>
  \/ InScript
  \/ TopIs({"compile"})
  \/ TopIs({"internal"}) /\ Top.name \in Reentrant

-----------------------------------------------------------------------------
(* The checks.                                                             *)

\* parse_eval_filter_conf: both directives set one flag.
Simulation == cfg.whitelist_sim \/ cfg.blacklist_sim

\* check_is_in_eval_whitelist
IsWhitelisted(n) == n \in cfg.whitelist

\* is_in_eval_and_whitelisted: without a whitelist everything passes.
WhitelistRefuses(n) ==
  in_eval > 0 /\ cfg.whitelist # {} /\ ~IsWhitelisted(n) /\ ~Simulation

\* eval_blacklist_callback, which wraps the internal functions of the list. A
\* method is not in PHP's table of functions, where hook_function looks.
Wrapped == cfg.blacklist \ Method
BlacklistRefuses(f) ==
  f \in Wrapped /\ ~IsWhitelisted(f) /\ in_eval > 0 /\ ~Simulation

DepthRefuses(depth) ==
  cfg.max_execution_depth > 0 /\ depth > cfg.max_execution_depth

-----------------------------------------------------------------------------
(* A request.                                                              *)

\* Slip: RINIT forgets in_eval.
BeginRequestKeepsInEval(c) ==
  /\ stage = 0
  /\ stage' = 1
  /\ cfg' = c
  /\ execution_depth' = 0
  /\ UNCHANGED <<in_eval, eval_source, stack, chain, refused>>

\* RINIT, after whatever configuration was loaded since the last request.
BeginRequest(c) ==
  /\ stage = 0
  /\ stage' = 1
  /\ cfg' = c
  /\ in_eval' = 0
  /\ execution_depth' = 0
  /\ UNCHANGED <<eval_source, stack, chain, refused>>

\* The script, its shutdown functions, its destructors are done.
EndStage ==
  /\ Running
  /\ stage < LastStage
  /\ chain = <<Main>> /\ stack[Main] = <<>>
  /\ stage' = stage + 1
  /\ UNCHANGED <<cfg, in_eval, execution_depth, eval_source, stack, chain, refused>>

\* The request is freed, suspended fibers and all.
EndRequest ==
  /\ Running
  /\ stage = LastStage
  /\ chain = <<Main>> /\ stack[Main] = <<>>
  /\ stage' = 0
  /\ stack' = [t \in Thread |-> <<>>]
  /\ UNCHANGED <<cfg, in_eval, execution_depth, eval_source, chain, refused>>

\* zend_bailout: a refused call, a rule on a function, a writable file, memory.
\* The longjmp leaves every running thread; no frame undoes its counting.
Bailout ==
  /\ stage > 0
  /\ refused # None \/ stack[Cur] # <<>>
  /\ stack' = [t \in Thread |-> IF OnChain(t) \/ stage = LastStage THEN <<>> ELSE stack[t]]
  /\ chain' = <<Main>>
  /\ refused' = None
  /\ stage' = IF stage = LastStage THEN 0 ELSE stage + 1
  /\ UNCHANGED <<cfg, in_eval, execution_depth, eval_source>>

-----------------------------------------------------------------------------
(* Calls.                                                                  *)

\* sp_log_drop, before its zend_bailout.
Refuse(rule) ==
  /\ refused' = rule
  /\ UNCHANGED <<stage, cfg, in_eval, execution_depth, eval_source, stack, chain>>

\* Slip: the limit is tested before the frame is counted.
SpOrigExecuteLate(frame) ==
  /\ execution_depth' = execution_depth + 1
  /\ refused' = IF DepthRefuses(execution_depth) THEN "execute" ELSE None
  /\ Push(frame)

\* sp_orig_execute: the frame is counted, then the limit tested, then it runs.
SpOrigExecute(frame) ==
  /\ execution_depth' = execution_depth + 1
  /\ refused' = IF DepthRefuses(execution_depth + 1) THEN "execute" ELSE None
  /\ Push(frame)

\* Files, from include or as the script itself, have no function name and pass
\* the whitelist.
ExecuteFile ==
  /\ Running /\ HasRoom
  /\ InScript \/ (Cur = Main /\ stack[Main] = <<>> /\ stage = 1)
  /\ SpOrigExecute(FrameFor("file", None, None, None))
  /\ UNCHANGED <<stage, cfg, in_eval, eval_source, chain>>

\* Slip: user functions skip the whitelist.
ExecuteUserUnchecked(f) ==
  /\ Running /\ HasRoom /\ CanCall
  /\ SpOrigExecute(FrameFor("user", f, None, None))
  /\ UNCHANGED <<stage, cfg, in_eval, eval_source, chain>>

ExecuteUser(f) ==
  /\ Running /\ HasRoom /\ CanCall
  /\ IF WhitelistRefuses(f)
     THEN Refuse("eval_whitelist")
     ELSE /\ SpOrigExecute(FrameFor("user", f, None, None))
          /\ UNCHANGED <<stage, cfg, in_eval, eval_source, chain>>

\* sp_zend_execute_internal, and under it the wrapper of a blacklisted function.
\* The function of a fiber is one of the script.
ExecuteInternal(f) ==
  /\ Running /\ HasRoom /\ CanCall
  /\ Cur = Main \/ stack[Cur] # <<>>
  /\ CASE WhitelistRefuses(f) -> Refuse("eval_whitelist")
       [] BlacklistRefuses(f) /\ ~WhitelistRefuses(f) -> Refuse("eval_blacklist")
       [] OTHER ->
            /\ Push(FrameFor("internal", f, None, None))
            /\ UNCHANGED <<stage, cfg, in_eval, execution_depth, eval_source, chain, refused>>

\* eval(s), first half: sp_compile_string.
CompileString(s) ==
  /\ Running /\ HasRoom /\ InScript
  /\ eval_source' = s
  /\ Push(FrameFor("compile", None, s, None))
  /\ UNCHANGED <<stage, cfg, in_eval, execution_depth, chain, refused>>

\* The source does not parse: eval throws.
CompileFails ==
  /\ Running /\ TopIs({"compile"})
  /\ stack' = Pop(stack, Cur)
  /\ UNCHANGED <<stage, cfg, in_eval, execution_depth, eval_source, chain, refused>>

\* The frame of the compiled eval, which replaces that of its compilation.
EvalFrame == [Top EXCEPT !.kind = "eval", !.seen = eval_source]

\* Slip: forgets to count the eval.
ExecuteEvalUncounted ==
  /\ Running /\ TopIs({"compile"})
  /\ execution_depth' = execution_depth + 1
  /\ refused' = IF DepthRefuses(execution_depth + 1) THEN "execute" ELSE None
  /\ stack' = [stack EXCEPT ![Cur][Len(stack[Cur])] = EvalFrame]
  /\ UNCHANGED <<stage, cfg, in_eval, eval_source, chain>>

\* eval(s), second half: sp_execute_handler on ZEND_EVAL_CODE.
ExecuteEval ==
  /\ Running /\ TopIs({"compile"})
  /\ in_eval' = in_eval + 1
  /\ execution_depth' = execution_depth + 1
  /\ refused' = IF DepthRefuses(execution_depth + 1) THEN "execute" ELSE None
  /\ stack' = [stack EXCEPT ![Cur][Len(stack[Cur])] = EvalFrame]
  /\ UNCHANGED <<stage, cfg, eval_source, chain>>

\* Control comes back from the running fiber to the one that resumed it, whose
\* Fiber::start or Fiber::resume returns.
SwitchBack(s) ==
  /\ chain' = SubSeq(chain, 1, Len(chain) - 1)
  /\ stack' = Pop(s, chain[Len(chain) - 1])

\* Slip: an eval gives the depth back, and not in_eval.
UncountDepthOnly ==
  /\ execution_depth' =
       execution_depth - (IF Top.kind \in Counted THEN 1 ELSE 0)
  /\ UNCHANGED in_eval

Uncount ==
  /\ in_eval' = in_eval - (IF Top.kind = "eval" THEN 1 ELSE 0)
  /\ execution_depth' =
       execution_depth - (IF Top.kind \in Counted THEN 1 ELSE 0)

\* The top frame returns, or an exception leaves it; with the last frame of a
\* fiber the fiber is over.
Return ==
  /\ Running /\ TopIs({"file", "user", "internal", "eval"})
  /\ Uncount
  /\ IF Cur # Main /\ Len(stack[Cur]) = 1
     THEN SwitchBack(Pop(stack, Cur))
     ELSE stack' = Pop(stack, Cur) /\ UNCHANGED chain
  /\ UNCHANGED <<stage, cfg, eval_source, refused>>

-----------------------------------------------------------------------------
(* Fibers: the C stack is switched, the counters are not.                  *)

InCallOf(f) == Running /\ TopIs({"internal"}) /\ Top.name = f

FiberStart(b) ==
  /\ InCallOf(Start)
  /\ stack[b] = <<>>
  /\ ~OnChain(b)
  /\ chain' = Append(chain, b)
  /\ UNCHANGED <<stage, cfg, in_eval, execution_depth, eval_source, stack, refused>>

FiberSuspend ==
  /\ InCallOf(Suspend)
  /\ Cur # Main
  /\ SwitchBack(stack)
  /\ UNCHANGED <<stage, cfg, in_eval, execution_depth, eval_source, refused>>

\* The call of Fiber::suspend in b returns.
FiberResume(b) ==
  /\ InCallOf(Resume)
  /\ Suspended(b)
  /\ chain' = Append(chain, b)
  /\ stack' = Pop(stack, b)
  /\ UNCHANGED <<stage, cfg, in_eval, execution_depth, eval_source, refused>>

\* The last reference to a suspended fiber goes: PHP unwinds its frames, each of
\* which returns to the hooks.
FiberDestroy(b) ==
  /\ Running /\ CanCall
  /\ Suspended(b)
  /\ in_eval' = in_eval - Cardinality({p \in Evals : p[1] = b})
  /\ execution_depth' = execution_depth - Cardinality({p \in Executed : p[1] = b})
  /\ stack' = [stack EXCEPT ![b] = <<>>]
  /\ UNCHANGED <<stage, cfg, eval_source, chain, refused>>

-----------------------------------------------------------------------------

Init ==
  /\ stage = 0
  /\ cfg \in Configs
  /\ in_eval = 0
  /\ execution_depth = 0
  /\ eval_source = None
  /\ stack = [t \in Thread |-> <<>>]
  /\ chain = <<Main>>
  /\ refused = None

Next ==
  \/ \E c \in Configs : BeginRequest(c)
  \/ EndStage
  \/ EndRequest
  \/ Bailout
  \/ ExecuteFile
  \/ \E f \in UserFunction : ExecuteUser(f)
  \/ \E f \in InternalFunction : ExecuteInternal(f)
  \/ \E s \in Source : CompileString(s)
  \/ CompileFails
  \/ ExecuteEval
  \/ Return
  \/ \E b \in Fiber : FiberStart(b) \/ FiberResume(b) \/ FiberDestroy(b)
  \/ FiberSuspend

Spec == Init /\ [][Next]_vars

-----------------------------------------------------------------------------
(* Properties.                                                             *)

(* The type invariant; the counters are unsigned, and never wrap below 0.  *)
TypeOK ==
  /\ stage \in 0..LastStage
  /\ cfg \in Configs
  /\ in_eval \in Nat
  /\ execution_depth \in Nat
  /\ eval_source \in Source \cup {None}
  /\ stack \in [Thread -> Seq(Frame)]
  /\ \A t \in Thread : Len(stack[t]) <= MaxFrames
  /\ chain \in Seq(Thread) /\ chain # <<>>
  /\ refused \in Rule \cup {None}

(* While the script runs, in_eval and execution_depth count the evals and  *)
(* the frames in progress, over all fibers; after a bailout they are never *)
(* too small.                                                              *)
CountersFollowStack ==
  /\ in_eval >= Cardinality(Evals)
  /\ execution_depth >= Cardinality(Executed)
  /\ stage = 1 => /\ in_eval = Cardinality(Evals)
                  /\ execution_depth = Cardinality(Executed)

\* What the lists allow inside an eval.
Permitted(frame) ==
  \/ frame.kind \notin {"user", "internal"}
  \/ IsWhitelisted(frame.name)
  \/ cfg.whitelist = {} /\ (frame.kind = "user" \/ frame.name \notin Wrapped)

(* Every call made while an eval is running, by the evaluated code or by   *)
(* anything it calls, in any fiber and after any bailout, is one that      *)
(* is_in_eval_and_whitelisted and eval_blacklist_callback allow.           *)
EvalFilterEnforced ==
  \A t \in Thread : \A i \in DOMAIN stack[t] :
    stack[t][i].inside /\ ~Simulation => Permitted(stack[t][i])

(* No more frames are in progress than sp.global.max_execution_depth, but  *)
(* for the one that sp_orig_execute is refusing.                           *)
DepthLimited ==
  cfg.max_execution_depth > 0 =>
    Cardinality(Executed) <=
      cfg.max_execution_depth + (IF refused = "execute" THEN 1 ELSE 0)

(* A script without suspended fibers is dropped by the eval lists only     *)
(* inside an eval, and by the recursion limit only above it, whatever      *)
(* earlier requests left in the counters.                                  *)
RefusalsJustified ==
  stage = 1 /\ (\A t \in Thread : ~Suspended(t)) =>
    /\ refused \in {"eval_whitelist", "eval_blacklist"} => InsideEval
    /\ refused = "execute" => Cardinality(Executed) > cfg.max_execution_depth

(* Between requests nothing runs.                                          *)
IdleInv ==
  stage = 0 =>
    /\ \A t \in Thread : stack[t] = <<>>
    /\ chain = <<Main>>
    /\ refused = None

(* The chain starts at Main and visits no thread twice; a thread that is   *)
(* not running is inside a native function, if it has begun at all.        *)
ChainInv ==
  /\ chain[1] = Main
  /\ \A k, l \in DOMAIN chain : chain[k] = chain[l] => k = l
  /\ \A k \in 1..(Len(chain) - 1) : stack[chain[k]] # <<>>
  /\ \A t \in Thread \ {Cur} :
       stack[t] # <<>> => stack[t][Len(stack[t])].kind = "internal"

(* The limit refuses the frame that was just counted.                      *)
RefusedFrame == refused = "execute" => TopIs(Counted)

(* What was refused was refused on what the counters say.                  *)
RefusalInv ==
  /\ refused \in {"eval_whitelist", "eval_blacklist"} => in_eval > 0
  /\ refused = "execute" => execution_depth > cfg.max_execution_depth

(* The inductive invariant: the parts above keep each other true.          *)
ExecInv ==
  /\ TypeOK
  /\ IdleInv
  /\ ChainInv
  /\ RefusedFrame
  /\ CountersFollowStack
  /\ EvalFilterEnforced
  /\ DepthLimited

(* The argument on which rules on eval are matched is the source that the  *)
(* eval runs.                                                              *)
EvalRuleSeesItsSource ==
  \A t \in Thread : \A i \in DOMAIN stack[t] :
    stack[t][i].kind = "eval" => stack[t][i].seen = stack[t][i].src
=============================================================================
