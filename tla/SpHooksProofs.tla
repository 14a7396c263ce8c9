---------------------------- MODULE SpHooksProofs ----------------------------
(***************************************************************************)
(* Proofs about SpHooks: the hook tables, the handlers and the rule lists  *)
(* follow the configuration in force, whatever the functions, the          *)
(* configurations and the depth of calls are.                              *)
(***************************************************************************)
EXTENDS SpHooks, SequenceTheorems, TLAPS

-----------------------------------------------------------------------------
(* Lemmas about the hook tables.                                           *)

(* The tables of a parsed configuration wrap internal functions only.      *)
LEMMA HookSetsAreFunctions ==
  ASSUME NEW c \in Configs
  PROVE  /\ InternalHooks(c) \subseteq Function
         /\ DisabledHooks(c) \subseteq Function
         /\ EvalHooks(c) \subseteq Function
BY NamesAssumption, ConfigsAssumption
   DEF InternalHooks, DisabledHooks, EvalHooks, Hookable, ConfigRecord

\* The handlers and the tables, as the hooking code is handed them.
HooksType == [handler: [Function -> Handler],
              saved: [Table -> [Function -> Handler \cup {NULL}]]]

(* What hook_function on a set of functions leaves in the function table   *)
(* and in the hook table it is given.                                      *)
LEMMA HookAllEffect ==
  ASSUME NEW h \in HooksType, NEW t \in Table, NEW F, NEW new \in Handler
  PROVE  /\ HookAll(h, t, F, new) \in HooksType
         /\ \A f \in Function :
              /\ HookAll(h, t, F, new).handler[f] = IF f \in F THEN new ELSE h.handler[f]
              /\ HookAll(h, t, F, new).saved[t][f] =
                   IF f \in F /\ h.handler[f] # new THEN h.handler[f] ELSE h.saved[t][f]
         /\ \A u \in Table : u # t => HookAll(h, t, F, new).saved[u] = h.saved[u]
BY DEF HookAll, HooksType

(* What unhook_functions leaves: the handlers its table saved are back, the *)
(* tables are as they were.                                                *)
LEMMA UnhookEffect ==
  ASSUME NEW h \in HooksType, NEW t \in Table
  PROVE  /\ Unhook(h, t) \in HooksType
         /\ Unhook(h, t).saved = h.saved
         /\ \A f \in Function :
              Unhook(h, t).handler[f] =
                IF h.saved[t][f] # NULL THEN h.saved[t][f] ELSE h.handler[f]
<1>1. /\ h.handler \in [Function -> Handler]
      /\ h.saved \in [Table -> [Function -> Handler \cup {NULL}]]
  BY DEF HooksType
<1>2. \A f \in Function : h.saved[t][f] \in Handler \cup {NULL}
  BY <1>1
<1> QED
  BY <1>1, <1>2 DEF Unhook, HooksType

(* The handlers that are left when every table is undone: PHP's own, or    *)
(* the sp wrapper that array_handler put back after a load.                *)
Base(h) == \A f \in Function : h.handler[f] = "php" \/ (f \in stray /\ h.handler[f] = "sp")

(* Reloading: whatever handlers the calls in progress left behind, undoing *)
(* the three tables in reverse order gives every function its own handler, *)
(* or that of array_handler where it is astray.                            *)
LEMMA RemoveHooksRestores ==
  ASSUME TypeOK, PhaseInv, phase # "down", SavedFollowsConfig,
         HandlerFollowsConfig, SloppyHandlerInChain, SloppyTables
  PROVE  /\ RemoveHooks(Hooks) \in HooksType
         /\ RemoveHooks(Hooks).saved = NoSaved
         /\ Base(RemoveHooks(Hooks))
<1>0. /\ Hooks \in HooksType
      /\ Hooks.handler = handler
      /\ Hooks.saved = saved
      /\ {"internal", "disabled", "eval"} \subseteq Table
      /\ NoSaved \in [Table -> [Function -> Handler \cup {NULL}]]
  BY DEF TypeOK, Hooks, HooksType, Table, NoSaved, NoHooks
<1>1. CASE status = "none"
  <2>1. cfg = NoConfig
    BY <1>1 DEF PhaseInv
  <2>2. ASSUME NEW f \in Function
        PROVE  /\ handler[f] = "php" \/ (f \in stray /\ handler[f] = "sp")
               /\ \A t \in Table : saved[t][f] = NULL
    <3>1. CASE f \in Sloppy
      BY <3>1, <2>1, <1>0 DEF SloppyTables, Takeable, Layers, InternalSaves, Table,
         SloppyHandlerInChain, Outermost
    <3>2. CASE f \notin Sloppy
      BY <3>2, <2>1 DEF TypeOK, SavedFollowsConfig, HandlerFollowsConfig,
         InternalSaves, DisabledSaves, EvalSaves, Outermost, Table
    <3> QED
      BY <3>1, <3>2
  <2>3. saved = NoSaved
    BY <2>2 DEF TypeOK, NoSaved, NoHooks
  <2> QED
    BY <1>0, <1>1, <2>2, <2>3 DEF RemoveHooks, Base
<1>2. CASE status # "none"
  <2> DEFINE g1 == Unhook(Hooks, "eval")
             g2 == Unhook(g1, "disabled")
             g3 == Unhook(g2, "internal")
  <2>1. /\ g1 \in HooksType
        /\ g1.saved = saved
        /\ \A f \in Function :
             g1.handler[f] = IF saved["eval"][f] # NULL THEN saved["eval"][f]
                                                        ELSE handler[f]
    BY <1>0, UnhookEffect
  <2> HIDE DEF g1
  <2>2. /\ g2 \in HooksType
        /\ g2.saved = saved
        /\ \A f \in Function :
             g2.handler[f] = IF saved["disabled"][f] # NULL THEN saved["disabled"][f]
                                                            ELSE g1.handler[f]
    BY <1>0, <2>1, UnhookEffect, SMTT(20)
  <2> HIDE DEF g2
  <2>3. /\ g3 \in HooksType
        /\ \A f \in Function :
             g3.handler[f] = IF saved["internal"][f] # NULL THEN saved["internal"][f]
                                                            ELSE g2.handler[f]
    BY <1>0, <2>2, UnhookEffect, SMTT(20)
  <2> HIDE DEF g3
  <2>4. ASSUME NEW f \in Function \ stray
        PROVE  g3.handler[f] = "php"
    <3>1. CASE cfg = NoConfig
      BY <3>1, <2>1, <2>2, <2>3 DEF SavedFollowsConfig, HandlerFollowsConfig,
         SloppyHandlerInChain, InternalSaves, DisabledSaves, EvalSaves, Outermost
    <3>2. CASE cfg # NoConfig
      BY <3>2, <2>1, <2>2, <2>3, OtherAssumption
         DEF SavedFollowsConfig, HandlerFollowsConfig, SloppyHandlerInChain,
             InternalSaves, DisabledSaves, EvalSaves, Outermost, BelowEval,
             BelowDisabled, Handler, Wrapper
    <3> QED
      BY <3>1, <3>2
  <2>5. ASSUME NEW f \in stray
        PROVE  f \in Function /\ g3.handler[f] \in {"sp", "php"}
    <3>1. /\ f \in Function /\ f \in Sloppy
          /\ Takeable(Hooks, cfg, f)
      BY <2>5, NamesAssumption DEF TypeOK, SloppyTables
    <3>2. g2.handler[f] \in {"sp", "php"}
      <4>1. CASE "check_disabled_function" \in Layers(cfg, f)
        BY <4>1, <3>1, <2>2, <1>0, OtherAssumption DEF Takeable, Handler, Wrapper
      <4>2. CASE "check_disabled_function" \notin Layers(cfg, f)
        <5>1. g2.handler[f] = g1.handler[f]
          BY <4>2, <3>1, <2>2, <1>0 DEF Takeable
        <5>2. CASE "eval_blacklist_callback" \in Layers(cfg, f)
          BY <5>1, <5>2, <4>2, <3>1, <2>1, <1>0, OtherAssumption
             DEF Takeable, Handler, Wrapper
        <5>3. CASE "eval_blacklist_callback" \notin Layers(cfg, f)
          <6>1. Layers(cfg, f) \subseteq {"sp"}
            BY <5>3, <4>2 DEF Layers, Wrapper
          <6> QED
            BY <6>1, <5>1, <5>3, <3>1, <2>1, <1>0 DEF Takeable
        <5> QED
          BY <5>2, <5>3
      <4> QED
        BY <4>1, <4>2
    <3>3. saved["internal"][f] \in {"php", NULL}
      BY <3>1, <1>0 DEF Takeable, InternalSaves
    <3> QED
      BY <3>1, <3>2, <3>3, <2>3
  <2>6. RemoveHooks(Hooks) = [handler |-> g3.handler, saved |-> NoSaved]
    BY <1>2 DEF RemoveHooks, g1, g2, g3
  <2>7. g3.handler \in [Function -> Handler]
    BY <2>3 DEF HooksType
  <2> QED
    BY <1>0, <2>4, <2>5, <2>6, <2>7 DEF Base, HooksType
<1> QED
  BY <1>1, <1>2

(* Installing the hooks of c on a clean function table builds, for every   *)
(* function, exactly the chain that c calls for; on the wrapper of         *)
(* array_handler it builds one that the next load can take back.           *)
LEMMA InstallHooksBuilds ==
  ASSUME NEW c \in Configs, NEW h0 \in HooksType, h0.saved = NoSaved
  PROVE  LET h == InstallHooks(h0, c)
         IN /\ h \in HooksType
            /\ \A f \in Function :
                 h0.handler[f] = "php" =>
                   /\ h.handler[f] = Outermost(c, f)
                   /\ h.saved["internal"][f] = InternalSaves(c, f)
                   /\ h.saved["disabled"][f] = DisabledSaves(c, f)
                   /\ h.saved["eval"][f] = EvalSaves(c, f)
            /\ \A f \in Function :
                 h0.handler[f] \in {"sp", "php"} => Takeable(h, c, f)
<1> DEFINE h1 == HookAll(h0, "internal", InternalHooks(c), "sp")
           h2 == HookAll(h1, "disabled", DisabledHooks(c), "check_disabled_function")
           h3 == HookAll(h2, "eval", EvalHooks(c), "eval_blacklist_callback")
<1>0. /\ c # NoConfig
      /\ {"internal", "disabled", "eval"} \subseteq Table
      /\ {"php", "sp", "check_disabled_function", "eval_blacklist_callback"}
           \subseteq Handler
  BY ConfigsAssumption DEF Table, Handler, Wrapper
<1>1. /\ h0 \in HooksType
      /\ \A t \in Table, f \in Function : h0.saved[t][f] = NULL
  BY DEF NoSaved, NoHooks
<1>2. /\ h1 \in HooksType
      /\ \A f \in Function :
           /\ h1.handler[f] = IF f \in InternalHooks(c) THEN "sp" ELSE h0.handler[f]
           /\ h1.saved["internal"][f] =
                IF f \in InternalHooks(c) /\ h0.handler[f] # "sp" THEN h0.handler[f]
                                                                ELSE NULL
      /\ \A u \in Table : u # "internal" => h1.saved[u] = h0.saved[u]
  BY <1>0, <1>1, HookAllEffect
<1> HIDE DEF h1
<1>3. /\ h2 \in HooksType
      /\ \A f \in Function : h0.handler[f] \in {"sp", "php"} =>
           /\ h2.handler[f] = IF f \in DisabledHooks(c) THEN "check_disabled_function"
                                                        ELSE h1.handler[f]
           /\ h2.saved["disabled"][f] = IF f \in DisabledHooks(c) THEN h1.handler[f]
                                                                  ELSE NULL
      /\ \A u \in Table : u # "disabled" => h2.saved[u] = h1.saved[u]
  <2>1. \A f \in Function : h0.handler[f] \in {"sp", "php"} =>
                             h1.handler[f] # "check_disabled_function"
    BY <1>2
  <2>2. \A f \in Function : h1.saved["disabled"][f] = NULL
    <3>1. h1.saved["disabled"] = h0.saved["disabled"]
      BY <1>0, <1>2
    <3> QED
      BY <1>0, <1>1, <3>1
  <2> QED
    BY <1>0, <1>2, <2>1, <2>2, HookAllEffect
<1> HIDE DEF h2
<1>4. /\ h3 \in HooksType
      /\ \A f \in Function : h0.handler[f] \in {"sp", "php"} =>
           /\ h3.handler[f] = IF f \in EvalHooks(c) THEN "eval_blacklist_callback"
                                                    ELSE h2.handler[f]
           /\ h3.saved["eval"][f] = IF f \in EvalHooks(c) THEN h2.handler[f] ELSE NULL
      /\ \A u \in Table : u # "eval" => h3.saved[u] = h2.saved[u]
  <2>1. \A f \in Function : h0.handler[f] \in {"sp", "php"} =>
                             h2.handler[f] # "eval_blacklist_callback"
    BY <1>2, <1>3
  <2>2. h2.saved["eval"] = h0.saved["eval"]
    BY <1>0, <1>2, <1>3
  <2>3. \A f \in Function : h2.saved["eval"][f] = NULL
    BY <1>0, <1>1, <2>2
  <2> QED
    BY <1>0, <1>3, <2>1, <2>3, HookAllEffect
<1> HIDE DEF h3
<1>5. h3.saved["disabled"] = h2.saved["disabled"] /\ h3.saved["internal"] = h1.saved["internal"]
  BY <1>0, <1>3, <1>4
<1>6. ASSUME NEW f \in Function, h0.handler[f] = "php"
      PROVE  /\ h3.handler[f] = Outermost(c, f)
             /\ h3.saved["internal"][f] = InternalSaves(c, f)
             /\ h3.saved["disabled"][f] = DisabledSaves(c, f)
             /\ h3.saved["eval"][f] = EvalSaves(c, f)
  BY <1>0, <1>2, <1>3, <1>4, <1>5, <1>6 DEF Outermost, BelowEval, BelowDisabled,
     InternalSaves, DisabledSaves, EvalSaves
<1>7. ASSUME NEW f \in Function, h0.handler[f] \in {"sp", "php"}
      PROVE  Takeable(h3, c, f)
  <2>1. h1.handler[f] \in {"sp", "php"}
    BY <1>2, <1>7
  <2>2. h3.saved["internal"][f] \in {InternalSaves(c, f), NULL}
    BY <1>0, <1>2, <1>5, <1>7 DEF InternalSaves
  <2>3. /\ "check_disabled_function" \in Layers(c, f) <=> f \in DisabledHooks(c)
        /\ "eval_blacklist_callback" \in Layers(c, f) <=> f \in EvalHooks(c)
    BY <1>0 DEF Layers, Wrapper
  <2> QED
    BY <1>3, <1>4, <1>5, <1>7, <2>1, <2>2, <2>3 DEF Takeable
<1> QED
  BY <1>4, <1>6, <1>7 DEF InstallHooks, h1, h2, h3

-----------------------------------------------------------------------------
(* Lemmas about the stack of calls.                                        *)

(* A call is pushed.                                                       *)
LEMMA PushCall ==
  ASSUME NEW S, NEW s \in Seq(S), NEW e \in S
  PROVE  /\ Append(s, e) \in Seq(S)
         /\ Append(s, e) # <<>>
         /\ Len(Append(s, e)) = Len(s) + 1
         /\ \A i \in 1 .. Len(s) : Append(s, e)[i] = s[i]
         /\ Append(s, e)[Len(s) + 1] = e
OBVIOUS

(* The innermost call moves.                                               *)
LEMMA ReplaceTop ==
  ASSUME NEW S, NEW s \in Seq(S), s # <<>>, NEW e \in S
  PROVE  LET r == [s EXCEPT ![Len(s)] = e]
         IN /\ r \in Seq(S)
            /\ r # <<>>
            /\ Len(r) = Len(s)
            /\ \A i \in 1 .. Len(s) : i # Len(s) => r[i] = s[i]
            /\ r[Len(s)] = e
<1>1. Len(s) \in 1 .. Len(s)
  OBVIOUS
<1> QED
  BY <1>1

(* The innermost call is popped.                                           *)
LEMMA PopCall ==
  ASSUME NEW S, NEW s \in Seq(S), s # <<>>
  PROVE  LET r == SubSeq(s, 1, Len(s) - 1)
         IN /\ r \in Seq(S)
            /\ Len(r) = Len(s) - 1
            /\ \A i \in 1 .. Len(r) : r[i] = s[i]
<1>1. Len(s) \in Nat \ {0}
  OBVIOUS
<1>2. \A i \in 1 .. Len(s) - 1 : s[i] \in S
  OBVIOUS
<1>3. /\ SubSeq(s, 1, Len(s) - 1) \in Seq(S)
      /\ Len(SubSeq(s, 1, Len(s) - 1)) =
           IF 1 <= Len(s) - 1 THEN Len(s) - 1 - 1 + 1 ELSE 0
      /\ \A i \in 1 .. Len(s) - 1 - 1 + 1 :
           SubSeq(s, 1, Len(s) - 1)[i] = s[1 + i - 1]
  BY <1>1, <1>2, SubSeqProperties
<1>4. Len(SubSeq(s, 1, Len(s) - 1)) = Len(s) - 1
  <2> DEFINE n == Len(s)
             m == Len(SubSeq(s, 1, Len(s) - 1))
  <2>1. n \in Nat \ {0} /\ m = IF 1 <= n - 1 THEN n - 1 - 1 + 1 ELSE 0
    BY <1>1, <1>3
  <2> HIDE DEF n, m
  <2>2. m = n - 1
    BY <2>1
  <2> QED
    BY <2>2 DEF n, m
<1>5. ASSUME NEW i \in 1 .. Len(s) - 1
      PROVE  SubSeq(s, 1, Len(s) - 1)[i] = s[i]
  <2>1. i \in 1 .. Len(s) - 1 - 1 + 1 /\ 1 + i - 1 = i
    BY <1>1, <1>5
  <2> QED
    BY <1>3, <2>1
<1> QED
  BY <1>3, <1>4, <1>5

-----------------------------------------------------------------------------
(* The inductive invariant, frame by frame.                                *)

\* What NoNullHandler, FramesInv and LayersCounted say of one call in progress.
GoodFrame(fr, c, astray) ==
  /\ fr.at = NULL =>
       fr.fn \in astray \/ (fr.passed \cap fr.gone) \ Layers(c, fr.fn) # {}
  /\ fr.at = Inner => fr.fn \in Sloppy
  /\ fr.at \in Wrapper =>
       /\ fr.need \subseteq Layers(c, fr.fn) \cup fr.gone
       /\ fr.at \in Layers(c, fr.fn) \cup fr.gone \/ fr.fn \in astray
  /\ fr.fn \notin Sloppy /\ fr.at # NULL =>
       fr.need \ fr.gone \subseteq fr.passed \cup Within(fr.at)

CallsInv ==
  /\ \A i \in DOMAIN stack : GoodFrame(stack[i], cfg, stray)
  /\ \A i \in DOMAIN stack : i # Len(stack) => stack[i].at # NULL

(* The three invariants on calls, taken apart by frames.                   *)
LEMMA CallsByFrame ==
  /\ NoNullHandler /\ FramesInv /\ LayersCounted <=> CallsInv
  /\ (NoNullHandler /\ FramesInv /\ LayersCounted)' <=> CallsInv'
<1>1. NoNullHandler /\ FramesInv /\ LayersCounted <=> CallsInv
  BY DEF NoNullHandler, FramesInv, LayersCounted, CallsInv, GoodFrame
<1>2. (NoNullHandler /\ FramesInv /\ LayersCounted)' <=> CallsInv'
  BY DEF NoNullHandler, FramesInv, LayersCounted, CallsInv, GoodFrame
<1> QED
  BY <1>1, <1>2

(* What is good stays good when more functions have gone astray.           *)
LEMMA GoodFrameGrows ==
  ASSUME NEW fr, NEW c, NEW A, NEW B, A \subseteq B, GoodFrame(fr, c, A)
  PROVE  GoodFrame(fr, c, B)
BY DEF GoodFrame

(* The parts of the type invariant that concern the calls.                 *)
LEMMA StackType ==
  ASSUME HooksInv
  PROVE  /\ stack \in Seq(Frame) /\ Len(stack) \in Nat /\ Len(stack) <= MaxDepth
         /\ DOMAIN stack = 1 .. Len(stack) /\ CallsInv
         /\ stack # <<>> =>
              /\ Len(stack) \in 1 .. Len(stack) /\ Top \in Frame
              /\ GoodFrame(Top, cfg, stray) /\ phase = "request"
<1>1. stack \in Seq(Frame) /\ Len(stack) <= MaxDepth /\ CallsInv
      /\ (stack # <<>> => phase = "request")
  BY CallsByFrame DEF HooksInv, TypeOK, PhaseInv
<1>2. stack # <<>> => Len(stack) \in 1 .. Len(stack)
  BY <1>1
<1> QED
  BY <1>1, <1>2 DEF CallsInv, Top

(* It holds when the extension is started.                                 *)
LEMMA InitEstablishesHooksInv == Init => HooksInv
<1> SUFFICES ASSUME Init PROVE HooksInv
  OBVIOUS
<1>1. TypeOK
  <2>1. handler \in [Function -> Handler]
    BY DEF Init, Handler
  <2>2. saved \in [Table -> [Function -> Handler \cup {NULL}]]
    BY DEF Init, NoSaved, NoHooks
  <2>3. rules \in [df: SUBSET Name, df_hooked: SUBSET Name,
                   ret: SUBSET Name, ret_hooked: SUBSET Name]
    BY DEF Init, NoRules
  <2>4. stack \in Seq(Frame) /\ Len(stack) <= MaxDepth
    BY OtherAssumption DEF Init
  <2>5. hook_execute \in BOOLEAN /\ echo_hooked \in BOOLEAN
    BY DEF Init
  <2> QED
    BY <2>1, <2>2, <2>3, <2>4, <2>5 DEF Init, TypeOK
<1>2. SavedFollowsConfig /\ HandlerFollowsConfig /\ SloppyHandlerInChain
  BY NamesAssumption DEF Init, SavedFollowsConfig, HandlerFollowsConfig,
     SloppyHandlerInChain, InternalSaves, DisabledSaves, EvalSaves, Outermost,
     NoSaved, NoHooks, Table
<1>3. SloppyTables
  BY NamesAssumption DEF Init, SloppyTables, Takeable, Layers, Hooks, NoSaved,
     NoHooks, Table
<1>4. CallsInv
  BY DEF Init, CallsInv
<1> QED
  BY <1>1, <1>2, <1>3, <1>4, CallsByFrame DEF Init, HooksInv, PhaseInv, RulesInv

(* A load happens outside any call, or under a native one; the calls that  *)
(* are at a wrapper further out keep what they need or note that it went.  *)
LEMMA LoadKeepsCalls ==
  ASSUME HooksInv, LoadPoint, NEW c, cfg' = c, Reloaded(c), phase' = AfterLoad
  PROVE  /\ phase # "down"
         /\ stack' \in Seq(Frame) /\ Len(stack') <= MaxDepth
         /\ touched' = {} /\ stray' = stray
         /\ NoNullHandler' /\ FramesInv' /\ LayersCounted'
         /\ stack' # <<>> => phase' = "request"
<1>0. /\ stack \in Seq(Frame) /\ Len(stack) \in Nat /\ Len(stack) <= MaxDepth
      /\ DOMAIN stack = 1 .. Len(stack) /\ CallsInv
      /\ stack # <<>> => phase = "request"
  BY StackType
<1>1. stack # <<>> => Top.at = "php"
  BY <1>0 DEF LoadPoint
<1>2. \A i \in DOMAIN stack : stack[i].at # NULL
  BY <1>0, <1>1, OtherAssumption DEF CallsInv, Top, Handler
<1> DEFINE e(i) == [stack[i] EXCEPT !.gone = @ \cup Taken(stack[i], c)]
<1>3. ASSUME NEW i \in DOMAIN stack
      PROVE  /\ stack[i] \in Frame
             /\ e(i) = [fn |-> stack[i].fn, at |-> stack[i].at, need |-> stack[i].need,
                        gone |-> stack[i].gone \cup Taken(stack[i], c),
                        passed |-> stack[i].passed]
             /\ e(i) \in Frame
  <2>1. stack[i] \in Frame
    BY <1>0, <1>3
  <2>2. Taken(stack[i], c) \subseteq Wrapper
    BY DEF Taken, Layers
  <2> QED
    BY <2>1, <2>2 DEF Frame
<1>4. stack' = [i \in 1 .. Len(stack) |-> e(i)]
  BY <1>0 DEF Reloaded
<1>5. /\ stack' \in Seq(Frame) /\ Len(stack') = Len(stack)
      /\ DOMAIN stack' = DOMAIN stack
      /\ \A i \in DOMAIN stack : stack'[i] = e(i)
  <2> HIDE DEF e
  <2> QED
    BY <1>0, <1>3, <1>4
<1>6. stray' = stray /\ touched' = {}
  BY DEF Reloaded
<1>7. ASSUME NEW i \in DOMAIN stack
      PROVE  GoodFrame(e(i), c, stray)
  <2> DEFINE fr == stack[i]
  <2>1. GoodFrame(fr, cfg, stray) /\ fr.at # NULL
    BY <1>0, <1>2, <1>7 DEF CallsInv
  <2>2. /\ e(i).fn = fr.fn /\ e(i).at = fr.at /\ e(i).need = fr.need
        /\ e(i).passed = fr.passed
        /\ e(i).gone = fr.gone \cup Taken(fr, c)
    BY <1>3, <1>7
  <2>3. fr.at \in Wrapper => Taken(fr, c) = Layers(cfg, fr.fn) \ Layers(c, fr.fn)
    BY DEF Taken
  <2> HIDE DEF e, fr
  <2> QED
    BY <2>1, <2>2, <2>3 DEF GoodFrame
<1>8. CallsInv'
  <2> HIDE DEF e
  <2>1. ASSUME NEW i \in DOMAIN stack'
        PROVE  GoodFrame(stack'[i], cfg', stray') /\ stack'[i].at # NULL
    <3>1. GoodFrame(stack'[i], cfg', stray') /\ i \in DOMAIN stack
      BY <1>5, <1>6, <1>7, <2>1
    <3>2. stack'[i].at = stack[i].at
      BY <1>3, <1>5, <3>1
    <3> QED
      BY <1>2, <3>1, <3>2
  <2> QED
    BY <2>1 DEF CallsInv
<1>9. phase # "down" /\ (stack' # <<>> => phase' = "request")
  <2>1. phase # "down"
    BY DEF LoadPoint
  <2>2. stack' # <<>> => stack # <<>>
    BY <1>0, <1>5
  <2> QED
    BY <1>0, <2>1, <2>2 DEF AfterLoad
<1> QED
  BY <1>0, <1>5, <1>6, <1>8, <1>9, CallsByFrame

(* sp_load_config, when every file parses: the old hooks are undone and    *)
(* the chains of the new configuration are built.                          *)
LEMMA LoadConfigKeepsHooksInv ==
  ASSUME HooksInv, NEW c \in Configs, LoadConfig(c)
  PROVE  HooksInv'
<1> DEFINE h0 == RemoveHooks(Hooks)
           h  == InstallHooks(h0, c)
<1>0. /\ LoadPoint /\ cfg' = c /\ phase' = AfterLoad /\ Reloaded(c)
  BY DEF LoadConfig
<1>a. /\ phase # "down"
      /\ stack' \in Seq(Frame) /\ Len(stack') <= MaxDepth
      /\ touched' = {} /\ stray' = stray
      /\ NoNullHandler' /\ FramesInv' /\ LayersCounted'
      /\ stack' # <<>> => phase' = "request"
  BY <1>0, LoadKeepsCalls
<1>1. h0 \in HooksType /\ h0.saved = NoSaved /\ Base(h0)
  BY <1>a, RemoveHooksRestores DEF HooksInv
<1>b. handler' = h.handler /\ saved' = h.saved
  BY DEF LoadConfig
<1> HIDE DEF h0
<1>2. /\ h \in HooksType
      /\ \A f \in Function :
           h0.handler[f] = "php" =>
             /\ h.handler[f] = Outermost(c, f)
             /\ h.saved["internal"][f] = InternalSaves(c, f)
             /\ h.saved["disabled"][f] = DisabledSaves(c, f)
             /\ h.saved["eval"][f] = EvalSaves(c, f)
      /\ \A f \in Function :
           h0.handler[f] \in {"sp", "php"} => Takeable(h, c, f)
  BY <1>1, InstallHooksBuilds
<1> HIDE DEF h
<1>3. /\ rules' = SortRules(c) /\ hook_execute' = NeedsExecuteHook(c, SortRules(c))
      /\ status' = "valid"
  BY DEF LoadConfig
<1>c. stray \subseteq Sloppy /\ Sloppy \subseteq Function
  BY NamesAssumption DEF HooksInv, TypeOK
<1>4. SavedFollowsConfig' /\ HandlerFollowsConfig' /\ SloppyHandlerInChain'
  <2>1. \A f \in Function \ stray : h0.handler[f] = "php"
    BY <1>1 DEF Base
  <2> QED
    BY <2>1, <1>0, <1>a, <1>b, <1>c, <1>2
       DEF SavedFollowsConfig, HandlerFollowsConfig, SloppyHandlerInChain
<1>d. SloppyTables'
  <2>1. \A f \in Sloppy : Takeable(h, c, f)
    BY <1>1, <1>2, <1>c DEF Base
  <2>2. \A f \in Sloppy : Takeable(Hooks', c, f)
    BY <2>1, <1>b DEF Takeable, Hooks
  <2> QED
    BY <2>2, <1>0 DEF SloppyTables
<1>5. RulesInv'
  BY <1>0, <1>3, ConfigsAssumption DEF LoadConfig, RulesInv
<1>6. SortRules(c) \in [df: SUBSET Name, df_hooked: SUBSET Name,
                        ret: SUBSET Name, ret_hooked: SUBSET Name]
  BY ConfigsAssumption DEF SortRules, Hooked, ConfigRecord
<1>7. hook_execute' \in BOOLEAN
  BY <1>3, ConfigsAssumption DEF NeedsExecuteHook, ConfigRecord
<1>8. phase' \in {"startup", "idle", "request", "down"}
  BY <1>0 DEF AfterLoad, HooksInv, TypeOK
<1>9. echo_hooked' \in BOOLEAN
  BY DEF LoadConfig, HooksInv, TypeOK
<1>10. TypeOK'
  BY <1>0, <1>a, <1>b, <1>c, <1>2, <1>3, <1>6, <1>7, <1>8, <1>9
     DEF TypeOK, HooksType
<1> QED
  BY <1>0, <1>a, <1>3, <1>4, <1>5, <1>d, <1>10 DEF HooksInv, PhaseInv

(* sp_load_config, when it gives up through sp_config_failed: the function *)
(* table is as PHP made it, but for what went astray, and no rule is left. *)
LEMMA LoadBrokenKeepsHooksInv ==
  ASSUME HooksInv, LoadBroken
  PROVE  HooksInv'
<1> DEFINE h == RemoveHooks(Hooks)
<1>0. /\ LoadPoint /\ cfg' = NoConfig /\ phase' = AfterLoad /\ Reloaded(NoConfig)
      /\ handler' = h.handler /\ saved' = h.saved
      /\ rules' = NoRules /\ hook_execute' = FALSE /\ status' = "invalid"
      /\ UNCHANGED echo_hooked
  BY DEF LoadBroken
<1>1. /\ phase # "down"
      /\ stack' \in Seq(Frame) /\ Len(stack') <= MaxDepth
      /\ touched' = {} /\ stray' = stray
      /\ NoNullHandler' /\ FramesInv' /\ LayersCounted'
      /\ stack' # <<>> => phase' = "request"
  BY <1>0, LoadKeepsCalls
<1>2. h \in HooksType /\ h.saved = NoSaved /\ Base(h)
  BY <1>1, RemoveHooksRestores DEF HooksInv
<1> HIDE DEF h
<1>3. stray \subseteq Sloppy /\ Sloppy \subseteq Function
  BY NamesAssumption DEF HooksInv, TypeOK
<1>4. \A t \in Table, f \in Function : saved'[t][f] = NULL
  BY <1>0, <1>2 DEF NoSaved, NoHooks
<1>5. SavedFollowsConfig' /\ HandlerFollowsConfig' /\ SloppyHandlerInChain'
  BY <1>0, <1>1, <1>2, <1>3, <1>4
     DEF SavedFollowsConfig, HandlerFollowsConfig, SloppyHandlerInChain, Outermost,
         InternalSaves, DisabledSaves, EvalSaves, Base, Table
<1>6. SloppyTables'
  <2>1. ASSUME NEW f \in Sloppy PROVE Takeable(Hooks', NoConfig, f)
    BY <1>0, <1>2, <1>3, <1>4 DEF Takeable, Layers, Hooks, Base, Table
  <2> QED
    BY <2>1, <1>0 DEF SloppyTables
<1>7. TypeOK'
  BY <1>0, <1>1, <1>2 DEF TypeOK, HooksInv, NoRules, HooksType, AfterLoad
<1> QED
  BY <1>0, <1>1, <1>5, <1>6, <1>7 DEF HooksInv, PhaseInv, RulesInv

(* Steps that leave the configuration, the tables and the handlers alone.  *)
LEMMA ConfigUntouched ==
  ASSUME HooksInv, UNCHANGED <<config_vars, handler, sloppy_vars>>,
         phase' \in {"startup", "idle", "request"}, phase # "down"
  PROVE  /\ SavedFollowsConfig' /\ HandlerFollowsConfig' /\ SloppyHandlerInChain'
         /\ SloppyTables' /\ RulesInv'
<1>1. /\ UNCHANGED <<status, cfg, saved, rules, hook_execute, echo_hooked>>
      /\ UNCHANGED <<handler, touched, stray>>
  BY DEF config_vars, sloppy_vars
<1>2. SloppyTables'
  BY <1>1 DEF HooksInv, SloppyTables, Takeable, Hooks
<1> QED
  BY <1>1, <1>2 DEF HooksInv, SavedFollowsConfig, HandlerFollowsConfig,
     SloppyHandlerInChain, RulesInv

(* Steps outside of calls: the next three.                                 *)
LEMMA NoCalls ==
  ASSUME stack' = <<>>
  PROVE  NoNullHandler' /\ FramesInv' /\ LayersCounted'
BY DEF NoNullHandler, FramesInv, LayersCounted

(* OnUpdateConfiguration with an empty value.                              *)
LEMMA LoadEmptyKeepsHooksInv ==
  ASSUME HooksInv, LoadEmpty
  PROVE  HooksInv'
<1>1. stack = <<>>
  BY DEF LoadEmpty, HooksInv, PhaseInv
<1>2. TypeOK' /\ PhaseInv'
  BY <1>1 DEF LoadEmpty, HooksInv, TypeOK, PhaseInv, config_vars, sloppy_vars
<1> QED
  BY <1>1, <1>2, NoCalls, ConfigUntouched DEF LoadEmpty, HooksInv

(* MSHUTDOWN: no call is in progress, and the handlers stay well typed.     *)
LEMMA ShutdownKeepsHooksInv ==
  ASSUME HooksInv, Shutdown
  PROVE  HooksInv'
<1>1. stack = <<>> /\ phase' = "down" /\ UNCHANGED <<config_vars, stack, sloppy_vars>>
  BY DEF Shutdown, HooksInv, PhaseInv
<1> DEFINE g1 == Unhook(Hooks, "internal")
           g2 == Unhook(g1, "disabled")
           g3 == Unhook(g2, "eval")
<1>2. g3 \in HooksType
  <2>1. Hooks \in HooksType /\ {"internal", "disabled", "eval"} \subseteq Table
    BY DEF HooksInv, TypeOK, Hooks, HooksType, Table
  <2>2. g1 \in HooksType
    BY <2>1, UnhookEffect
  <2>3. g2 \in HooksType
    BY <2>1, <2>2, UnhookEffect
  <2> QED
    BY <2>1, <2>3, UnhookEffect
<1>3. handler' \in [Function -> Handler]
  BY <1>2 DEF Shutdown, HooksType
<1>4. TypeOK'
  BY <1>1, <1>3 DEF HooksInv, TypeOK, config_vars, sloppy_vars
<1>5. SavedFollowsConfig' /\ HandlerFollowsConfig' /\ SloppyHandlerInChain'
      /\ SloppyTables'
  BY <1>1 DEF SavedFollowsConfig, HandlerFollowsConfig, SloppyHandlerInChain, SloppyTables
<1>6. RulesInv' /\ PhaseInv'
  BY <1>1 DEF HooksInv, RulesInv, PhaseInv, config_vars
<1> QED
  BY <1>1, <1>4, <1>5, <1>6, NoCalls DEF HooksInv

(* RINIT and RSHUTDOWN leave the hooks alone.                              *)
LEMMA RequestBoundaryKeepsHooksInv ==
  ASSUME HooksInv, BeginRequest \/ EndRequest
  PROVE  HooksInv'
<1>1. /\ stack = <<>> /\ UNCHANGED <<config_vars, handler, stack, sloppy_vars>>
      /\ phase # "down" /\ phase' \in {"idle", "request"}
  BY DEF BeginRequest, EndRequest, HooksInv, PhaseInv
<1>2. TypeOK' /\ PhaseInv'
  BY <1>1 DEF HooksInv, TypeOK, PhaseInv, config_vars, sloppy_vars
<1> QED
  BY <1>1, <1>2, NoCalls, ConfigUntouched DEF HooksInv

(* A call enters the outermost wrapper of its function.                    *)
LEMMA CallKeepsHooksInv ==
  ASSUME HooksInv, NEW f \in Function, Call(f)
  PROVE  HooksInv'
<1> DEFINE e == [fn |-> f, at |-> handler[f], need |-> Layers(cfg, f),
                 gone |-> {}, passed |-> {}]
<1>1. /\ stack' = Append(stack, e) /\ Len(stack) < MaxDepth
      /\ UNCHANGED <<config_vars, handler, phase, sloppy_vars>> /\ phase = "request"
      /\ stack # <<>> => Top.at # NULL
      /\ stack \in Seq(Frame) /\ Len(stack) \in Nat
      /\ CallsInv /\ UNCHANGED <<cfg, stray>>
  BY StackType DEF Call, RunsUserCode, config_vars, sloppy_vars
<1>2. handler[f] \in Handler /\ handler[f] # NULL
  BY OtherAssumption DEF HooksInv, TypeOK
<1>3. e \in Frame
  BY <1>2 DEF Frame, Layer, Layers, Handler
<1>4. /\ e.fn = f /\ e.at = handler[f] /\ e.need = Layers(cfg, f)
      /\ e.gone = {} /\ e.passed = {}
  OBVIOUS
<1> HIDE DEF e
<1>5. /\ stack' \in Seq(Frame) /\ stack' # <<>> /\ Len(stack') = Len(stack) + 1
      /\ \A i \in 1 .. Len(stack) : stack'[i] = stack[i]
      /\ stack'[Len(stack')] = e
      /\ DOMAIN stack' = 1 .. Len(stack) + 1
      /\ DOMAIN stack = 1 .. Len(stack)
  BY <1>1, <1>3, PushCall
<1>6. TypeOK'
  <2>1. Len(stack') <= MaxDepth
    BY <1>1, <1>5, OtherAssumption
  <2> QED
    BY <1>1, <1>5, <2>1 DEF HooksInv, TypeOK, config_vars, sloppy_vars
<1>7. handler[f] \in Wrapper => handler[f] \in Layers(cfg, f) \/ f \in stray
  BY <1>1 DEF HooksInv, HandlerFollowsConfig, SloppyHandlerInChain, Layers,
     Outermost, BelowEval, BelowDisabled, Wrapper
<1>8. f \notin Sloppy => Layers(cfg, f) \subseteq Within(handler[f])
  BY <1>1 DEF HooksInv, HandlerFollowsConfig, Layers, Within, Outermost,
     BelowEval, BelowDisabled, Wrapper
<1>9. GoodFrame(e, cfg, stray)
  <2>1. handler[f] # Inner
    BY <1>2 DEF Handler, Wrapper, Inner
  <2> QED
    BY <2>1, <1>2, <1>4, <1>7, <1>8 DEF GoodFrame
<1>10. CallsInv'
  <2>1. ASSUME NEW i \in DOMAIN stack', i # Len(stack')
        PROVE  GoodFrame(stack'[i], cfg, stray) /\ stack'[i].at # NULL
    <3>1. i \in DOMAIN stack /\ stack'[i] = stack[i]
      BY <1>1, <1>5, <2>1
    <3>2. stack[i].at # NULL
      BY <1>1, <3>1 DEF CallsInv, Top
    <3> QED
      BY <1>1, <3>1, <3>2 DEF CallsInv
  <2>2. ASSUME NEW i \in DOMAIN stack'
        PROVE  /\ GoodFrame(stack'[i], cfg', stray')
               /\ i # Len(stack') => stack'[i].at # NULL
    BY <1>1, <1>5, <1>9, <2>1
  <2> QED
    BY <2>2 DEF CallsInv
<1> QED
  BY <1>1, <1>6, <1>10, CallsByFrame, ConfigUntouched DEF HooksInv, PhaseInv, config_vars

(* Popping the innermost call leaves the others as they are.               *)
LEMMA PopKeepsCalls ==
  ASSUME HooksInv, stack # <<>>, stack' = SubSeq(stack, 1, Len(stack) - 1),
         UNCHANGED cfg, stray \subseteq stray'
  PROVE  /\ stack' \in Seq(Frame) /\ Len(stack') <= MaxDepth
         /\ NoNullHandler' /\ FramesInv' /\ LayersCounted'
<1>1. /\ stack \in Seq(Frame) /\ Len(stack) \in Nat \ {0} /\ Len(stack) <= MaxDepth
      /\ CallsInv
  BY StackType
<1>2. /\ stack' \in Seq(Frame) /\ Len(stack') = Len(stack) - 1
      /\ \A i \in 1 .. Len(stack') : stack'[i] = stack[i]
      /\ DOMAIN stack' = 1 .. Len(stack') /\ DOMAIN stack = 1 .. Len(stack)
  BY <1>1, PopCall
<1>3. \A i \in DOMAIN stack' : /\ i \in DOMAIN stack /\ stack'[i] = stack[i]
                               /\ i # Len(stack)
  BY <1>1, <1>2
<1>4. ASSUME NEW i \in DOMAIN stack'
      PROVE  GoodFrame(stack'[i], cfg', stray') /\ stack'[i].at # NULL
  <2>1. GoodFrame(stack'[i], cfg, stray) /\ stack'[i].at # NULL
    BY <1>1, <1>3 DEF CallsInv
  <2> QED
    BY <2>1, GoodFrameGrows
<1>5. CallsInv'
  BY <1>4 DEF CallsInv
<1>6. Len(stack') <= MaxDepth
  BY <1>1, <1>2, OtherAssumption
<1> QED
  BY <1>2, <1>5, <1>6, CallsByFrame

(* The native function returns through its wrappers.                       *)
LEMMA ReturnKeepsHooksInv ==
  ASSUME HooksInv, Return
  PROVE  HooksInv'
<1>1. /\ stack # <<>> /\ stack' = SubSeq(stack, 1, Len(stack) - 1)
      /\ phase = "request" /\ UNCHANGED <<config_vars, handler, phase, sloppy_vars>>
      /\ UNCHANGED <<cfg, stray>>
  BY DEF Return, HooksInv, PhaseInv, config_vars, sloppy_vars
<1>2. TypeOK' /\ PhaseInv'
  BY <1>1, PopKeepsCalls DEF HooksInv, TypeOK, PhaseInv, config_vars, sloppy_vars
<1> QED
  BY <1>1, <1>2, PopKeepsCalls, ConfigUntouched DEF HooksInv

(* A zend_bailout abandons every call, with the handlers as they are.      *)
LEMMA BailoutKeepsHooksInv ==
  ASSUME HooksInv, Bailout
  PROVE  HooksInv'
<1>1. /\ stack' = <<>> /\ phase = "request"
      /\ UNCHANGED <<config_vars, handler, phase, sloppy_vars>>
  BY DEF Bailout, HooksInv, PhaseInv
<1>2. TypeOK' /\ PhaseInv'
  BY <1>1, OtherAssumption DEF HooksInv, TypeOK, PhaseInv, config_vars, sloppy_vars
<1> QED
  BY <1>1, <1>2, NoCalls, ConfigUntouched DEF HooksInv

(* Only the handler of a function array_handler rewrites changes: the rest *)
(* of the function table still follows the configuration, and that one     *)
(* still can be taken back by a load.                                      *)
LEMMA SloppyRewriteKeepsHandlers ==
  ASSUME HooksInv, phase = "request", NEW f \in Sloppy, NEW v \in {"sp", "php"},
         handler' = [handler EXCEPT ![f] = v], UNCHANGED <<config_vars, phase>>,
         \/ /\ saved["internal"][f] # NULL
            /\ touched' = touched \cup {f} /\ stray' = stray
         \/ touched' = touched /\ stray' = stray \cup {f}
  PROVE  /\ handler' \in [Function -> Handler]
         /\ touched' \subseteq Sloppy /\ stray \subseteq stray' /\ stray' \subseteq Sloppy
         /\ SavedFollowsConfig' /\ HandlerFollowsConfig' /\ SloppyHandlerInChain'
         /\ SloppyTables' /\ RulesInv'
<1>0. UNCHANGED <<status, cfg, saved, rules, hook_execute, echo_hooked>>
  BY DEF config_vars
<1>1. /\ handler' \in [Function -> Handler]
      /\ \A g \in Function : handler'[g] = IF g = f THEN v ELSE handler[g]
  BY DEF HooksInv, TypeOK, Handler, Wrapper
<1>2. /\ touched' \subseteq Sloppy /\ stray \subseteq stray' /\ stray' \subseteq Sloppy
      /\ \A g \in Sloppy : g # f => (g \in touched' <=> g \in touched)
  BY DEF HooksInv, TypeOK
<1>3. saved["internal"][f] # NULL => cfg # NoConfig /\ f \in InternalHooks(cfg)
  BY DEF HooksInv, SloppyTables, Takeable, Hooks, InternalSaves
<1>4. SloppyHandlerInChain'
  <2>1. ASSUME NEW g \in Sloppy \ stray'
        PROVE  IF g \in touched'
               THEN /\ cfg # NoConfig /\ g \in InternalHooks(cfg)
                    /\ handler'[g] \in {"sp", "php"}
               ELSE handler'[g] = Outermost(cfg, g)
    <3>1. CASE g = f
      BY <3>1, <2>1, <1>1, <1>3, NamesAssumption
    <3>2. CASE g # f
      BY <3>2, <2>1, <1>1, <1>2, NamesAssumption DEF HooksInv, SloppyHandlerInChain
    <3> QED
      BY <3>1, <3>2
  <2> QED
    BY <2>1, <1>0 DEF SloppyHandlerInChain
<1>5. SloppyTables'
  <2>1. ASSUME NEW g \in Sloppy PROVE Takeable(Hooks', cfg, g)
    <3>1. Takeable(Hooks, cfg, g)
      BY DEF HooksInv, SloppyTables
    <3>2. g \in Function /\ Hooks'.saved = saved /\ Hooks'.handler = handler'
          /\ Hooks.saved = saved /\ Hooks.handler = handler
      BY <1>0, NamesAssumption DEF Hooks
    <3> QED
      BY <3>1, <3>2, <1>1 DEF Takeable
  <2> QED
    BY <2>1, <1>0 DEF SloppyTables
<1>6. HandlerFollowsConfig'
  BY <1>0, <1>1 DEF HooksInv, HandlerFollowsConfig
<1>7. SavedFollowsConfig' /\ RulesInv'
  BY <1>0, <1>2 DEF HooksInv, SavedFollowsConfig, RulesInv
<1> QED
  BY <1>1, <1>2, <1>4, <1>5, <1>6, <1>7

(* array_handler puts sp_in_array and its like back after the native call. *)
LEMMA ArrayHandlerReturnsKeepsHooksInv ==
  ASSUME HooksInv, ArrayHandlerReturns
  PROVE  HooksInv'
<1>1. /\ stack # <<>> /\ stack' = SubSeq(stack, 1, Len(stack) - 1)
      /\ phase = "request" /\ UNCHANGED <<config_vars, phase>> /\ UNCHANGED cfg
      /\ handler' = [handler EXCEPT ![Top.fn] = "sp"] /\ Top.at = Inner
      /\ \/ /\ saved["internal"][Top.fn] # NULL
            /\ touched' = touched \cup {Top.fn} /\ stray' = stray
         \/ touched' = touched /\ stray' = stray \cup {Top.fn}
  BY DEF ArrayHandlerReturns, HooksInv, PhaseInv, config_vars
<1>2. Top.fn \in Sloppy
  BY <1>1, StackType DEF GoodFrame
<1>3. /\ handler' \in [Function -> Handler]
      /\ touched' \subseteq Sloppy /\ stray \subseteq stray' /\ stray' \subseteq Sloppy
      /\ SavedFollowsConfig' /\ HandlerFollowsConfig' /\ SloppyHandlerInChain'
      /\ SloppyTables' /\ RulesInv'
  BY <1>1, <1>2, SloppyRewriteKeepsHandlers
<1>4. TypeOK' /\ PhaseInv'
  BY <1>1, <1>3, PopKeepsCalls DEF HooksInv, TypeOK, PhaseInv, config_vars
<1> QED
  BY <1>1, <1>3, <1>4, PopKeepsCalls DEF HooksInv

(* The innermost call moves from the wrapper it is at to the handler n.    *)
LEMMA ContinueKeepsCalls ==
  ASSUME HooksInv, stack # <<>>, Top.at \in Wrapper, UNCHANGED <<cfg, stray>>,
         NEW n \in Layer \cup {NULL}, Continue(n),
         n = NULL => Top.at \notin Layers(cfg, Top.fn) \/ Top.fn \in stray,
         n \in Wrapper => n \in Layers(cfg, Top.fn) \/ Top.fn \in stray,
         n = Inner => Top.fn \in Sloppy,
         n # NULL /\ Top.fn \notin Sloppy =>
           Within(Top.at) \cap Layers(cfg, Top.fn) \subseteq {Top.at} \cup Within(n)
  PROVE  /\ stack' \in Seq(Frame) /\ stack' # <<>> /\ Len(stack') <= MaxDepth
         /\ NoNullHandler' /\ FramesInv' /\ LayersCounted'
<1> DEFINE k == Len(stack)
           e == [fn |-> Top.fn, at |-> n, need |-> Top.need, gone |-> Top.gone,
                 passed |-> Top.passed \cup {Top.at}]
<1>1. /\ stack \in Seq(Frame) /\ k \in 1 .. k /\ k \in Nat /\ k <= MaxDepth
      /\ stack[k] \in Frame /\ DOMAIN stack = 1 .. k /\ Top = stack[k]
      /\ CallsInv /\ GoodFrame(Top, cfg, stray) /\ Top \in Frame
  BY StackType DEF Top
<1>2. /\ Top.fn \in Function /\ Top.need \subseteq Wrapper /\ Top.gone \subseteq Wrapper
      /\ Top.passed \subseteq Layer
  BY <1>1 DEF Frame
<1>3. e \in Frame
  BY <1>2 DEF Frame, Layer
<1>4. /\ e.fn = Top.fn /\ e.at = n /\ e.need = Top.need /\ e.gone = Top.gone
      /\ e.passed = Top.passed \cup {Top.at}
  OBVIOUS
<1>5. stack' = [stack EXCEPT ![k] = e]
  BY DEF Continue
<1> HIDE DEF e
<1>6. /\ stack' \in Seq(Frame) /\ stack' # <<>> /\ Len(stack') = k
      /\ \A i \in 1 .. k : i # k => stack'[i] = stack[i]
      /\ stack'[k] = e
      /\ DOMAIN stack' = 1 .. k
  BY <1>1, <1>3, <1>5, ReplaceTop
<1> HIDE DEF k
<1>7. GoodFrame(e, cfg, stray)
  <2>0. /\ Top.at # NULL
        /\ Top.need \subseteq Layers(cfg, Top.fn) \cup Top.gone
        /\ Top.at \in Layers(cfg, Top.fn) \cup Top.gone \/ Top.fn \in stray
        /\ Top.fn \notin Sloppy =>
             Top.need \ Top.gone \subseteq Top.passed \cup Within(Top.at)
    BY <1>1, OtherAssumption DEF GoodFrame, Handler
  <2>1. n = NULL =>
          e.fn \in stray \/ (e.passed \cap e.gone) \ Layers(cfg, e.fn) # {}
    BY <1>4, <2>0
  <2>2. n \in Wrapper =>
          /\ e.need \subseteq Layers(cfg, e.fn) \cup e.gone
          /\ e.at \in Layers(cfg, e.fn) \cup e.gone \/ e.fn \in stray
    BY <1>4, <2>0
  <2>3. e.fn \notin Sloppy /\ n # NULL =>
          e.need \ e.gone \subseteq e.passed \cup Within(e.at)
    BY <1>4, <2>0
  <2> QED
    BY <1>4, <2>1, <2>2, <2>3 DEF GoodFrame
<1>8. CallsInv'
  <2>1. ASSUME NEW i \in DOMAIN stack'
        PROVE  /\ GoodFrame(stack'[i], cfg', stray')
               /\ i # Len(stack') => stack'[i].at # NULL
    <3>1. CASE i = k
      BY <3>1, <1>6, <1>7
    <3>2. CASE i # k
      BY <3>2, <2>1, <1>1, <1>6 DEF CallsInv, k
    <3> QED
      BY <3>1, <3>2
  <2> QED
    BY <2>1 DEF CallsInv
<1> QED
  BY <1>1, <1>6, <1>8, CallsByFrame

(* A wrapper that accepts a call goes on to the next handler of the chain  *)
(* in force, or to nothing when it is in none any more.                    *)
LEMMA WrapperPassesKeepsHooksInv ==
  ASSUME HooksInv,
         \/ WrapperPasses("sp", "internal")
         \/ WrapperPasses("check_disabled_function", "disabled")
         \/ WrapperPasses("eval_blacklist_callback", "eval")
  PROVE  HooksInv'
<1> DEFINE f == Top.fn
<1>1. /\ stack # <<>> /\ phase = "request" /\ Top.at \in Wrapper
      /\ UNCHANGED <<config_vars, handler, phase, sloppy_vars>>
      /\ UNCHANGED <<cfg, stray>>
  BY DEF WrapperPasses, HooksInv, PhaseInv, Wrapper, config_vars, sloppy_vars
<1>2. f \in Function
  BY <1>1, StackType DEF Frame
<1>3. SavedFollowsConfig /\ SloppyTables /\ phase # "down" /\ NULL \notin Handler \cup {Inner}
  BY <1>1, OtherAssumption DEF HooksInv
<1>4. PICK n \in Layer \cup {NULL} :
        /\ Continue(n)
        /\ n = NULL => Top.at \notin Layers(cfg, f) \/ f \in stray
        /\ n \in Wrapper => n \in Layers(cfg, f) \/ f \in stray
        /\ n # Inner
        /\ n # NULL /\ f \notin Sloppy =>
             Within(Top.at) \cap Layers(cfg, f) \subseteq {Top.at} \cup Within(n)
  <2>1. CASE WrapperPasses("sp", "internal")
    <3>0. Continue(saved["internal"][f]) /\ Top.at = "sp"
      BY <2>1 DEF WrapperPasses
    <3>1. CASE f \notin stray
      <4>1. saved["internal"][f] = InternalSaves(cfg, f)
        BY <3>1, <1>2, <1>3 DEF SavedFollowsConfig
      <4>2. CASE "sp" \in Layers(cfg, f)
        <5>1. InternalSaves(cfg, f) = "php"
          BY <4>2 DEF InternalSaves, Layers
        <5>2. cfg # NoConfig
          BY <4>2 DEF Layers
        <5> QED
          BY <1>3, <3>0, <4>1, <4>2, <5>1, <5>2
             DEF Layer, Layers, Wrapper, Inner, Within, Handler
      <4>3. CASE "sp" \notin Layers(cfg, f)
        <5>1. InternalSaves(cfg, f) = NULL
          BY <4>3 DEF InternalSaves, Layers, Wrapper
        <5> QED
          BY <1>3, <3>0, <4>1, <4>3, <5>1 DEF Wrapper, Handler, Inner
      <4> QED
        BY <4>2, <4>3
    <3>2. CASE f \in stray
      <4>1. saved["internal"][f] \in Handler \cup {NULL} /\ f \in Sloppy
        BY <3>2, <1>2 DEF HooksInv, TypeOK, Table
      <4>2. saved["internal"][f] \in Layer \cup {NULL} /\ saved["internal"][f] # Inner
        BY <1>3, <4>1 DEF Layer, Handler, Wrapper, Inner
      <4> QED
        BY <3>0, <3>2, <4>1, <4>2
    <3> QED
      BY <3>1, <3>2
  <2>2. CASE WrapperPasses("check_disabled_function", "disabled")
    <3>0. Continue(saved["disabled"][f]) /\ Top.at = "check_disabled_function"
      BY <2>2 DEF WrapperPasses
    <3>1. CASE f \notin stray
      <4>1. saved["disabled"][f] = DisabledSaves(cfg, f)
        BY <3>1, <1>2, <1>3 DEF SavedFollowsConfig
      <4>2. CASE "check_disabled_function" \in Layers(cfg, f)
        <5>1. DisabledSaves(cfg, f) = BelowDisabled(cfg, f)
          BY <4>2 DEF DisabledSaves, Layers
        <5>2. cfg # NoConfig
          BY <4>2 DEF Layers
        <5> QED
          BY <1>3, <3>0, <4>1, <4>2, <5>1, <5>2
             DEF BelowDisabled, Layer, Layers, Wrapper, Inner, Within, Handler
      <4>3. CASE "check_disabled_function" \notin Layers(cfg, f)
        <5>1. DisabledSaves(cfg, f) = NULL
          BY <4>3 DEF DisabledSaves, Layers, Wrapper
        <5> QED
          BY <1>3, <3>0, <4>1, <4>3, <5>1 DEF Wrapper, Handler, Inner
      <4> QED
        BY <4>2, <4>3
    <3>2. CASE f \in stray
      <4>1. saved["disabled"][f] \in Handler \cup {NULL} /\ f \in Sloppy
        BY <3>2, <1>2 DEF HooksInv, TypeOK, Table
      <4>2. saved["disabled"][f] \in Layer \cup {NULL} /\ saved["disabled"][f] # Inner
        BY <1>3, <4>1 DEF Layer, Handler, Wrapper, Inner
      <4> QED
        BY <3>0, <3>2, <4>1, <4>2
    <3> QED
      BY <3>1, <3>2
  <2>3. CASE WrapperPasses("eval_blacklist_callback", "eval")
    <3>0. Continue(saved["eval"][f]) /\ Top.at = "eval_blacklist_callback"
      BY <2>3 DEF WrapperPasses
    <3>1. CASE f \notin stray
      <4>1. saved["eval"][f] = EvalSaves(cfg, f)
        BY <3>1, <1>2, <1>3 DEF SavedFollowsConfig
      <4>2. CASE "eval_blacklist_callback" \in Layers(cfg, f)
        <5>1. EvalSaves(cfg, f) = BelowEval(cfg, f)
          BY <4>2 DEF EvalSaves, Layers
        <5>2. cfg # NoConfig
          BY <4>2 DEF Layers
        <5> QED
          BY <1>3, <3>0, <4>1, <4>2, <5>1, <5>2
             DEF BelowEval, BelowDisabled, Layer, Layers, Wrapper, Inner, Within, Handler
      <4>3. CASE "eval_blacklist_callback" \notin Layers(cfg, f)
        <5>1. EvalSaves(cfg, f) = NULL
          BY <4>3 DEF EvalSaves, Layers, Wrapper
        <5> QED
          BY <1>3, <3>0, <4>1, <4>3, <5>1 DEF Wrapper, Handler, Inner
      <4> QED
        BY <4>2, <4>3
    <3>2. CASE f \in stray
      <4>1. saved["eval"][f] \in Handler \cup {NULL} /\ f \in Sloppy
        BY <3>2, <1>2 DEF HooksInv, TypeOK, Table
      <4>2. saved["eval"][f] \in Layer \cup {NULL} /\ saved["eval"][f] # Inner
        BY <1>3, <4>1 DEF Layer, Handler, Wrapper, Inner
      <4> QED
        BY <3>0, <3>2, <4>1, <4>2
    <3> QED
      BY <3>1, <3>2
  <2> QED
    BY <2>1, <2>2, <2>3
<1>5. /\ stack' \in Seq(Frame) /\ Len(stack') <= MaxDepth
      /\ NoNullHandler' /\ FramesInv' /\ LayersCounted'
  BY <1>1, <1>4, ContinueKeepsCalls DEF config_vars
<1>6. TypeOK' /\ PhaseInv'
  BY <1>1, <1>5 DEF HooksInv, TypeOK, PhaseInv, config_vars, sloppy_vars
<1> QED
  BY <1>1, <1>5, <1>6, ConfigUntouched DEF HooksInv

(* array_handler puts the native handler into the function table and calls *)
(* the function by name, or calls nothing when its wrapper is gone.        *)
LEMMA ArrayHandlerCallsKeepsHooksInv ==
  ASSUME HooksInv, ArrayHandlerCalls
  PROVE  HooksInv'
<1> DEFINE f == Top.fn
<1>1. /\ stack # <<>> /\ phase = "request" /\ Top.at = "sp" /\ f \in Sloppy
      /\ UNCHANGED <<config_vars, phase, stray>> /\ UNCHANGED cfg
  BY DEF ArrayHandlerCalls, HooksInv, PhaseInv, config_vars
<1>2. /\ saved["internal"][f] \in {InternalSaves(cfg, f), NULL}
      /\ f \notin stray => saved["internal"][f] = InternalSaves(cfg, f)
  BY <1>1, NamesAssumption DEF HooksInv, SloppyTables, SavedFollowsConfig, Takeable, Hooks
<1>3. /\ Inner \in Layer /\ Inner \notin Wrapper /\ Top.at \in Wrapper
      /\ NULL \notin Handler \cup {Inner} /\ NULL \notin Wrapper
  BY <1>1, OtherAssumption DEF Layer, Inner, Wrapper, Handler
<1>4. CASE saved["internal"][f] = NULL
  <2>1. /\ Continue(NULL) /\ UNCHANGED <<handler, touched>>
        /\ UNCHANGED <<config_vars, handler, phase, sloppy_vars>>
    BY <1>1, <1>4 DEF ArrayHandlerCalls, sloppy_vars
  <2>2. "sp" \notin Layers(cfg, f) \/ f \in stray
    BY <1>2, <1>3, <1>4 DEF InternalSaves, Layers, Handler, Wrapper
  <2>3. /\ stack' \in Seq(Frame) /\ Len(stack') <= MaxDepth
        /\ NoNullHandler' /\ FramesInv' /\ LayersCounted'
    BY <1>1, <1>3, <2>1, <2>2, ContinueKeepsCalls
  <2>4. TypeOK' /\ PhaseInv'
    BY <1>1, <2>1, <2>3 DEF HooksInv, TypeOK, PhaseInv, config_vars, sloppy_vars
  <2> QED
    BY <1>1, <2>1, <2>3, <2>4, ConfigUntouched DEF HooksInv
<1>5. CASE saved["internal"][f] # NULL
  <2>1. saved["internal"][f] = "php"
    BY <1>2, <1>5 DEF InternalSaves
  <2>2. /\ handler' = [handler EXCEPT ![f] = "php"] /\ Continue(Inner)
        /\ touched' = touched \cup {f} /\ stray' = stray
    BY <1>1, <1>5, <2>1 DEF ArrayHandlerCalls
  <2>3. /\ handler' \in [Function -> Handler]
        /\ touched' \subseteq Sloppy /\ stray' \subseteq Sloppy
        /\ SavedFollowsConfig' /\ HandlerFollowsConfig' /\ SloppyHandlerInChain'
        /\ SloppyTables' /\ RulesInv'
    BY <1>1, <1>5, <2>2, SloppyRewriteKeepsHandlers
  <2>4. /\ stack' \in Seq(Frame) /\ Len(stack') <= MaxDepth
        /\ NoNullHandler' /\ FramesInv' /\ LayersCounted'
    BY <1>1, <1>3, <2>2, ContinueKeepsCalls
  <2>5. TypeOK' /\ PhaseInv'
    BY <1>1, <2>3, <2>4 DEF HooksInv, TypeOK, PhaseInv, config_vars
  <2> QED
    BY <2>3, <2>4, <2>5 DEF HooksInv
<1> QED
  BY <1>4, <1>5

(* Nothing happens.                                                        *)
LEMMA StutterKeepsHooksInv ==
  ASSUME HooksInv, UNCHANGED vars
  PROVE  HooksInv'
<1>1. TypeOK' /\ PhaseInv' /\ SavedFollowsConfig' /\ HandlerFollowsConfig'
      /\ SloppyHandlerInChain' /\ RulesInv'
  BY DEF HooksInv, vars, TypeOK, PhaseInv, SavedFollowsConfig,
         HandlerFollowsConfig, SloppyHandlerInChain, RulesInv
<1>2. SloppyTables'
  BY DEF HooksInv, vars, SloppyTables, Takeable, Hooks
<1>3. NoNullHandler' /\ FramesInv' /\ LayersCounted'
  BY DEF HooksInv, vars, NoNullHandler, FramesInv, LayersCounted
<1> QED
  BY <1>1, <1>2, <1>3 DEF HooksInv

(* Every step of the extension preserves the invariant.                    *)
LEMMA NextKeepsHooksInv == HooksInv /\ [Next]_vars => HooksInv'
<1> SUFFICES ASSUME HooksInv, [Next]_vars
             PROVE  HooksInv'
  OBVIOUS
<1>1. ASSUME NEW c \in Configs, LoadConfig(c) PROVE HooksInv'
  BY <1>1, LoadConfigKeepsHooksInv
<1>2. CASE LoadBroken
  BY <1>2, LoadBrokenKeepsHooksInv
<1>3. CASE LoadEmpty
  BY <1>3, LoadEmptyKeepsHooksInv
<1>4. CASE Shutdown
  BY <1>4, ShutdownKeepsHooksInv
<1>5. CASE BeginRequest \/ EndRequest
  BY <1>5, RequestBoundaryKeepsHooksInv
<1>6. ASSUME NEW f \in Function, Call(f) PROVE HooksInv'
  BY <1>6, CallKeepsHooksInv
<1>7. CASE \/ WrapperPasses("sp", "internal")
           \/ WrapperPasses("check_disabled_function", "disabled")
           \/ WrapperPasses("eval_blacklist_callback", "eval")
  BY <1>7, WrapperPassesKeepsHooksInv
<1>8. CASE ArrayHandlerCalls
  BY <1>8, ArrayHandlerCallsKeepsHooksInv
<1>9. CASE ArrayHandlerReturns
  BY <1>9, ArrayHandlerReturnsKeepsHooksInv
<1>10. CASE Return
  BY <1>10, ReturnKeepsHooksInv
<1>11. CASE Bailout
  BY <1>11, BailoutKeepsHooksInv
<1>12. CASE UNCHANGED vars
  BY <1>12, StutterKeepsHooksInv
<1> QED
  BY <1>1, <1>2, <1>3, <1>4, <1>5, <1>6, <1>7, <1>8, <1>9, <1>10, <1>11, <1>12
     DEF Next

-----------------------------------------------------------------------------
(* The theorems.                                                           *)

(* In every state the process reaches, the tables, the handlers and the    *)
(* rule lists are those of the configuration in force, and every call in   *)
(* progress is at a point of its chain.                                    *)
THEOREM HooksInvariant == Spec => []HooksInv
<1>1. Init => HooksInv
  BY InitEstablishesHooksInv
<1>2. HooksInv /\ [Next]_vars => HooksInv'
  BY NextKeepsHooksInv
<1> QED
  BY <1>1, <1>2, PTL DEF Spec

(* The type invariant: in particular no function ever has a handler that   *)
(* is not PHP's own or one of the three wrappers.                          *)
THEOREM TypeCorrect == Spec => []TypeOK
<1>1. HooksInv => TypeOK
  BY DEF HooksInv
<1> QED
  BY <1>1, HooksInvariant, PTL

(* Loading is idempotent: the hook tables hold the chains of the           *)
(* configuration in force and nothing of an earlier one, but for functions *)
(* around which array_handler put a wrapper that a load had taken away.    *)
THEOREM TablesFollowConfig == Spec => []SavedFollowsConfig
<1>1. HooksInv => SavedFollowsConfig
  BY DEF HooksInv
<1> QED
  BY <1>1, HooksInvariant, PTL

(* The function table holds the outermost wrapper of every function that   *)
(* array_handler does not rewrite.                                         *)
THEOREM HandlersFollowConfig == Spec => []HandlerFollowsConfig
<1>1. HooksInv => HandlerFollowsConfig
  BY DEF HooksInv
<1> QED
  BY <1>1, HooksInvariant, PTL

(* What array_handler does to the function table lasts until the next load *)
(* at most, and happens only under a configuration that wraps its function.*)
THEOREM SloppyStaysInChain == Spec => []SloppyHandlerInChain
<1>1. HooksInv => SloppyHandlerInChain
  BY DEF HooksInv
<1> QED
  BY <1>1, HooksInvariant, PTL

(* A wrapper finds its handler as long as it is in force, though scripts   *)
(* run and subrequests reload the configuration in the middle of a call,   *)
(* inside of the wrappers too.                                             *)
THEOREM NeverNull == Spec => []NoNullHandler
<1>1. HooksInv => NoNullHandler
  BY DEF HooksInv
<1> QED
  BY <1>1, HooksInvariant, PTL

(* Complete mediation: native code is reached only through every wrapper   *)
(* that is around the function from the call on.                           *)
THEOREM Mediation == Spec => []Enforced
<1>1. HooksInv => Enforced
  <2> SUFFICES ASSUME HooksInv, NEW i \in DOMAIN stack,
                      stack[i].at = "php", stack[i].fn \notin Sloppy
               PROVE  stack[i].need \ stack[i].gone \subseteq stack[i].passed
    BY DEF Enforced
  <2>1. stack[i].need \ stack[i].gone \subseteq stack[i].passed \cup Within("php")
    BY OtherAssumption DEF HooksInv, LayersCounted, Handler
  <2> QED
    BY <2>1 DEF Within
<1> QED
  BY <1>1, HooksInvariant, PTL

(* Every rule by name is in the one table that the code consulted at its   *)
(* calls reads.                                                            *)
THEOREM RulesConsulted == Spec => []EveryRuleIsConsulted
<1>1. HooksInv => EveryRuleIsConsulted
  <2> SUFFICES ASSUME HooksInv, cfg # NoConfig, phase # "down"
               PROVE  EveryRuleIsConsulted
    BY DEF HooksInv, RulesInv, EveryRuleIsConsulted
  <2>1. /\ cfg \in Configs /\ cfg \in ConfigRecord
        /\ rules = SortRules(cfg) /\ hook_execute = NeedsExecuteHook(cfg, rules)
        /\ Echo \in rules.df_hooked \cup rules.ret_hooked => echo_hooked
    BY ConfigsAssumption DEF HooksInv, TypeOK, RulesInv
  <2>2. /\ rules.df = cfg.named \ Hooked(cfg.named)
        /\ rules.df_hooked = Hooked(cfg.named)
        /\ rules.ret = cfg.named_ret \ Hooked(cfg.named_ret)
        /\ rules.ret_hooked = Hooked(cfg.named_ret)
    BY <2>1 DEF SortRules
  <2>3. ASSUME NEW n \in Function,
               n \in cfg.named \cup cfg.named_ret \cup cfg.regex \cup cfg.regex_ret
        PROVE  saved["disabled"][n] # NULL
    <3>1. n \in DisabledHooks(cfg)
      BY <2>3 DEF DisabledHooks, Hookable
    <3>2. CASE n \notin stray
      <4>1. saved["disabled"][n] = BelowDisabled(cfg, n)
        BY <3>1, <3>2, <2>3 DEF HooksInv, SavedFollowsConfig, DisabledSaves
      <4> QED
        BY <4>1, OtherAssumption DEF BelowDisabled, Handler, Wrapper
    <3>3. CASE n \in stray
      <4>1. n \in Sloppy /\ "check_disabled_function" \in Layers(cfg, n)
        BY <3>1, <3>3 DEF HooksInv, TypeOK, Layers, Wrapper
      <4> QED
        BY <4>1, OtherAssumption
           DEF HooksInv, SloppyTables, Takeable, Hooks, Handler, Wrapper
    <3> QED
      BY <3>2, <3>3
  <2>4. ASSUME NEW n \in cfg.named
        PROVE  IF n \in Builtin THEN ConstructHasReader(n)
                                ELSE HasReader(n, rules.df, rules.df_hooked)
    BY <2>1, <2>2, <2>3 DEF ConstructHasReader, HasReader, Hooked, NeedsExecuteHook
  <2>5. ASSUME NEW n \in cfg.named_ret \ Builtin
        PROVE  HasReader(n, rules.ret, rules.ret_hooked)
    BY <2>1, <2>2, <2>3 DEF HasReader, Hooked, NeedsExecuteHook
  <2>6. ASSUME NEW n \in cfg.regex \cup cfg.regex_ret
        PROVE  RegexHasReader(n)
    BY <2>1, <2>3 DEF RegexHasReader, NeedsExecuteHook
  <2> QED
    BY <2>4, <2>5, <2>6 DEF EveryRuleIsConsulted
<1> QED
  BY <1>1, HooksInvariant, PTL
=============================================================================
