------------------------------- MODULE SpHooks -------------------------------
(***************************************************************************)
(* Function hooking in Snuffleupagus.                                      *)
(*                                                                         *)
(* Snuffleupagus protects an internal PHP function by replacing the        *)
(* handler of its entry in CG(function_table).  The replaced handler is    *)
(* saved in one of three hash tables, from which the wrapper fetches it    *)
(* when the function is called, and from which a reload of the             *)
(* configuration restores it.  One function may be wrapped by all three    *)
(* tables: the saved handlers then form a chain, innermost first           *)
(*                                                                         *)
(*   php  <-  internal: the sp wrapper of the function                     *)
(*        <-  disabled: check_disabled_function                            *)
(*        <-  eval: eval_blacklist_callback                                *)
(*                                                                         *)
(* The module models the process from MINIT to MSHUTDOWN: loading a        *)
(* configuration (at startup, between two requests, or inside a request,   *)
(* when Apache applies the directive again for a subrequest), the calls of *)
(* a request through the wrappers, and the fatal errors that unwind the C  *)
(* stack with a longjmp.  Which calls a wrapper refuses is left open       *)
(* (a wrapper may refuse any call): the module is about whether the        *)
(* wrapper is consulted at all.                                            *)
(*                                                                         *)
(* A wrapper may run code of the script before it looks its handler up:    *)
(* what it logs, in simulation for one, goes to the error handler of the   *)
(* script, which may call anything, a function that reloads the            *)
(* configuration included.                                                 *)
(***************************************************************************)
EXTENDS Naturals, Sequences

CONSTANTS
  Function,      \* internal functions: keys of CG(function_table) at MINIT
  UserName,      \* other names a rule may carry: user functions, methods, constructs
  Builtin,       \* the language constructs of check_is_builtin_name
  Echo,          \* the construct hooked through zend_write
  Sloppy,        \* in_array, array_search, array_keys
  Internal,      \* functions with another sp wrapper (rand, serialize, ...)
  Setcookie,     \* the one function every configuration wraps
  Virtual,       \* functions whose native code issues a subrequest (virtual)
  Twin,          \* Twin[n]: the mb_ variant hook_function also tries, or n itself
  Configs,       \* the parsed configurations a load may produce
  NoConfig,      \* nothing is configured: no load yet, or the last load failed
  NULL,          \* zend_hash_str_find_ptr found nothing
  AllowBroken,   \* sp.allow_broken_configuration
  MaxDepth       \* bound on the nesting of calls

Name == Function \cup UserName

(* What the hooking code reads of a parsed configuration.  The regexp rule *)
(* lists are given by the names their regexps match.                       *)
ConfigRecord ==
  [sloppy: BOOLEAN, internal: SUBSET Internal,
   named: SUBSET Name, named_ret: SUBSET Name,
   regex: SUBSET Name, regex_ret: SUBSET Name,
   blacklist: SUBSET Name, depth_limit: BOOLEAN]

\* The functions that hook_function(n, ...) finds in CG(function_table).
Hookable(n) == {n, Twin[n]} \cap Function

ASSUME NamesAssumption ==
  /\ Function \cap UserName = {}
  /\ Builtin \subseteq UserName
  /\ Echo \in Builtin
  /\ Sloppy \subseteq Function
  /\ Internal \subseteq Function
  /\ Setcookie \in Internal
  /\ Virtual \subseteq Function
  /\ Sloppy \cap Internal = {}
  /\ Twin \in [Name -> Name]
  /\ \A n \in Sloppy \cup Internal : Hookable(n) = {n}

ASSUME ConfigsAssumption ==
  /\ Configs \subseteq ConfigRecord
  /\ NoConfig \notin Configs

Table   == {"internal", "disabled", "eval"}
Wrapper == {"sp", "check_disabled_function", "eval_blacklist_callback"}
Handler == Wrapper \cup {"php"}
Inner   == "inner"   \* array_handler, between its two writes

ASSUME OtherAssumption ==
  /\ NULL \notin Handler \cup {Inner}
  /\ AllowBroken \in BOOLEAN
  /\ MaxDepth \in Nat \ {0}

VARIABLES
  phase,         \* "startup", "idle" (between requests), "request", "down"
  status,        \* SPG(is_config_valid)
  cfg,           \* the configuration in force, SPCFG(...)
  handler,       \* the handler of every internal function
  saved,         \* the three hook tables
  rules,         \* names in the four by-name rule tables
  hook_execute,  \* SPG(hook_execute): sp_execute_handler looks at the rules
  echo_hooked,   \* zend_write = hook_echo
  stack,         \* the internal function calls in progress
  touched,       \* history: array_handler has rewritten them since the last load
  stray          \* history: array_handler has put its wrapper back around them
                 \*   after a load had taken it away

vars == <<phase, status, cfg, handler, saved, rules, hook_execute,
          echo_hooked, stack, touched, stray>>

config_vars == <<status, cfg, saved, rules, hook_execute, echo_hooked>>
sloppy_vars == <<touched, stray>>

-----------------------------------------------------------------------------
(* Hook tables.  h is a record of the handlers and the three tables.       *)

NoHooks == [f \in Function |-> NULL]
NoSaved == [t \in Table |-> NoHooks]
NoRules == [df |-> {}, df_hooked |-> {}, ret |-> {}, ret_hooked |-> {}]

\* _hook_function for every function of F: a function that already has the
\* new handler is left alone, the handler of another is saved and replaced.
HookAll(h, t, F, new) ==
  LET fresh == {f \in F : h.handler[f] # new}
  IN [handler |-> [f \in Function |-> IF f \in fresh THEN new ELSE h.handler[f]],
      saved   |-> [h.saved EXCEPT ![t] =
                     [f \in Function |-> IF f \in fresh THEN h.handler[f] ELSE @[f]]]]

\* Slip: forgets to test that the saved pointer is set.
UnhookUnchecked(h, t) ==
  [handler |-> [f \in Function |-> h.saved[t][f]], saved |-> h.saved]

\* unhook_functions: put back every handler table t saved.
Unhook(h, t) ==
  [handler |-> [f \in Function |-> IF h.saved[t][f] # NULL THEN h.saved[t][f]
                                                          ELSE h.handler[f]],
   saved   |-> h.saved]

\* The functions each table wraps under configuration c.
InternalHooks(c) ==
  c.internal \cup {Setcookie} \cup (IF c.sloppy THEN Sloppy ELSE {})
DisabledHooks(c) ==
  UNION {Hookable(n) : n \in c.named \cup c.named_ret
                             \cup ((c.regex \cup c.regex_ret) \cap Function)}
EvalHooks(c) == UNION {Hookable(n) : n \in c.blacklist}

\* The hooks of sp_load_config, in the order it installs them.
InstallHooks(h, c) ==
  LET h1 == HookAll(h, "internal", InternalHooks(c), "sp")
      h2 == HookAll(h1, "disabled", DisabledHooks(c), "check_disabled_function")
  IN HookAll(h2, "eval", EvalHooks(c), "eval_blacklist_callback")

\* Slips: unhook in hooking order; keep the old entries; leave the eval table
\* out; leave the internal table out.
RemoveHooksForward(h) ==
  [handler |-> Unhook(Unhook(Unhook(h, "internal"), "disabled"), "eval").handler,
   saved   |-> NoSaved]
RemoveHooksNoClean(h) ==
  Unhook(Unhook(Unhook(h, "eval"), "disabled"), "internal")
RemoveHooksNoEval(h) ==
  [handler |-> Unhook(Unhook(h, "disabled"), "internal").handler, saved |-> NoSaved]
RemoveHooksNoInternal(h) ==
  [handler |-> Unhook(Unhook(h, "eval"), "disabled").handler, saved |-> NoSaved]

\* The start of sp_load_config: unhook in reverse order, empty the tables.
\* Nothing is hooked before the first load.
RemoveHooks(h) ==
  IF status = "none" THEN h
  ELSE [handler |-> Unhook(Unhook(Unhook(h, "eval"), "disabled"), "internal").handler,
        saved   |-> NoSaved]

\* hook_functions: the rules of a function that could be hooked, and those of
\* a language construct, move to the table its hook reads.
HookedFunctionsOnly(names) == names \cap Function   \* slip: forgets the constructs
Hooked(names) == {n \in names : n \in Function \/ n \in Builtin}
SortRules(c) ==
  [df  |-> c.named \ Hooked(c.named),         df_hooked  |-> Hooked(c.named),
   ret |-> c.named_ret \ Hooked(c.named_ret), ret_hooked |-> Hooked(c.named_ret)]

\* SPG(hook_execute), computed once the rules are sorted.
NeedsExecuteHook(c, r) ==
  c.depth_limit \/ c.regex # {} \/ c.regex_ret # {} \/ r.df # {} \/ r.ret # {}

Hooks == [handler |-> handler, saved |-> saved]

-----------------------------------------------------------------------------
(* Loading a configuration.                                                *)

Top == stack[Len(stack)]

\* Code of the script runs: at the top level of a request, as a callback of
\* native code, or as the error handler that a wrapper calls when it logs, when
\* its arguments are read or when the nested call of array_handler is logged.
\* After a null pointer was called nothing runs.
RunsUserCode ==
  /\ phase = "request"
  /\ stack # <<>> => Top.at # NULL

\* sp.configuration_file takes a value: at MINIT, between two requests, or for
\* a subrequest issued by native code.
LoadPoint ==
  \/ phase \in {"startup", "idle"}
  \/ phase = "request" /\ stack # <<>> /\ Top.at = "php" /\ Top.fn \in Virtual
AfterLoad == IF phase = "startup" THEN "idle" ELSE phase

\* The wrappers configuration c puts around f.
Layers(c, f) ==
  IF c = NoConfig THEN {}
  ELSE {w \in Wrapper :
          \/ w = "sp" /\ f \in InternalHooks(c)
          \/ w = "check_disabled_function" /\ f \in DisabledHooks(c)
          \/ w = "eval_blacklist_callback" /\ f \in EvalHooks(c)}

\* The wrappers that a load of c takes from around a call that is in one.
Taken(fr, c) ==
  IF fr.at \in Wrapper THEN Layers(cfg, fr.fn) \ Layers(c, fr.fn) ELSE {}

\* What the history notes of a load: the wrappers it takes from around the
\* calls in progress, and that no function was rewritten since.
Reloaded(c) ==
  /\ stack' = [i \in DOMAIN stack |->
                  [stack[i] EXCEPT !.gone = @ \cup Taken(stack[i], c)]]
  /\ touched' = {}
  /\ UNCHANGED stray

LoadConfig(c) ==
  /\ LoadPoint
  /\ LET h == InstallHooks(RemoveHooks(Hooks), c)
         r == SortRules(c)
     IN /\ handler' = h.handler
        /\ saved' = h.saved
        /\ rules' = r
        /\ hook_execute' = NeedsExecuteHook(c, r)
        /\ echo_hooked' = (echo_hooked \/ Echo \in r.df_hooked \cup r.ret_hooked)
  /\ status' = "valid"
  /\ cfg' = c
  /\ phase' = AfterLoad
  /\ Reloaded(c)

\* A file is missing or does not parse: sp_config_failed drops everything.
LoadBroken ==
  /\ LoadPoint
  /\ LET h == RemoveHooks(Hooks)
     IN handler' = h.handler /\ saved' = h.saved
  /\ rules' = NoRules
  /\ hook_execute' = FALSE
  /\ status' = "invalid"
  /\ cfg' = NoConfig
  /\ phase' = AfterLoad
  /\ Reloaded(NoConfig)
  /\ UNCHANGED echo_hooked

\* MINIT with an empty sp.configuration_file: OnUpdateConfiguration does nothing.
LoadEmpty ==
  /\ phase = "startup"
  /\ phase' = "idle"
  /\ UNCHANGED <<config_vars, handler, stack, sloppy_vars>>

\* MSHUTDOWN unhooks the three tables, and empties none.
Shutdown ==
  /\ phase = "idle"
  /\ handler' = Unhook(Unhook(Unhook(Hooks, "internal"), "disabled"), "eval").handler
  /\ phase' = "down"
  /\ UNCHANGED <<config_vars, stack, sloppy_vars>>

-----------------------------------------------------------------------------
(* Requests and calls.                                                     *)

\* RINIT rejects the request when the configuration is broken.
BeginRequest ==
  /\ phase = "idle"
  /\ status = "invalid" => AllowBroken
  /\ phase' = "request"
  /\ UNCHANGED <<config_vars, handler, stack, sloppy_vars>>

EndRequest ==
  /\ phase = "request"
  /\ stack = <<>>
  /\ phase' = "idle"
  /\ UNCHANGED <<config_vars, handler, stack, sloppy_vars>>

\* User code, or array_handler, calls f.  need, gone and passed are history:
\* the wrappers around f when the call starts, those that loads take away while it
\* is in its wrappers, and the handlers it went through.
Call(f) ==
  /\ RunsUserCode
  /\ Len(stack) < MaxDepth
  /\ stack' = Append(stack, [fn |-> f, at |-> handler[f],
                             need |-> Layers(cfg, f), gone |-> {}, passed |-> {}])
  /\ UNCHANGED <<config_vars, handler, phase, sloppy_vars>>

\* The call at the top of the stack goes on to the handler h.
Continue(h) ==
  stack' = [stack EXCEPT ![Len(stack)] =
              [fn |-> Top.fn, at |-> h, need |-> Top.need, gone |-> Top.gone,
               passed |-> Top.passed \cup {Top.at}]]

\* Slip: a wrapper looks its function up in the internal table.
WrapperPassesInternal(w, t) ==
  /\ stack # <<>>
  /\ Top.at = w
  /\ w = "sp" => Top.fn \notin Sloppy
  /\ Continue(IF saved["internal"][Top.fn] # NULL THEN saved["internal"][Top.fn]
                                                  ELSE saved[t][Top.fn])
  /\ UNCHANGED <<config_vars, handler, phase, sloppy_vars>>

\* A wrapper accepts the call and runs the handler its table saved.
WrapperPasses(w, t) ==
  /\ stack # <<>>
  /\ Top.at = w
  /\ w = "sp" => Top.fn \notin Sloppy
  /\ Continue(saved[t][Top.fn])
  /\ UNCHANGED <<config_vars, handler, phase, sloppy_vars>>

\* array_handler, before call_user_function: it puts the saved handler into the
\* function table, so that the nested call, a Call under Inner, reaches it.
\* Nothing is saved when a load took the wrapper away meanwhile: the nested call
\* is then one of a null pointer.
ArrayHandlerCalls ==
  /\ stack # <<>>
  /\ Top.at = "sp"
  /\ Top.fn \in Sloppy
  /\ IF saved["internal"][Top.fn] = NULL
     THEN Continue(NULL) /\ UNCHANGED <<handler, touched>>
     ELSE /\ Continue(Inner)
          /\ handler' = [handler EXCEPT ![Top.fn] = saved["internal"][Top.fn]]
          /\ touched' = touched \cup {Top.fn}
  /\ UNCHANGED <<config_vars, phase, stray>>

\* array_handler, after call_user_function: it puts its own wrapper back, also
\* when a load has taken it away or put others around it.
ArrayHandlerReturns ==
  /\ stack # <<>>
  /\ Top.at = Inner
  /\ handler' = [handler EXCEPT ![Top.fn] = "sp"]
  /\ stack' = SubSeq(stack, 1, Len(stack) - 1)
  /\ IF saved["internal"][Top.fn] = NULL
     THEN stray' = stray \cup {Top.fn} /\ UNCHANGED touched
     ELSE touched' = touched \cup {Top.fn} /\ UNCHANGED stray
  /\ UNCHANGED <<config_vars, phase>>

\* The native function returns through its wrappers.
Return ==
  /\ stack # <<>>
  /\ Top.at = "php"
  /\ stack' = SubSeq(stack, 1, Len(stack) - 1)
  /\ UNCHANGED <<config_vars, handler, phase, sloppy_vars>>

\* zend_bailout unwinds every C frame of the request: a wrapper refuses the call
\* (before it, or on its return value), or native code hits a fatal error.
\* Shutdown functions may still run in the request.
Bailout ==
  /\ stack # <<>>
  /\ Top.at # NULL
  /\ stack' = <<>>
  /\ UNCHANGED <<config_vars, handler, phase, sloppy_vars>>

-----------------------------------------------------------------------------

Init ==
  /\ phase = "startup"
  /\ status = "none"
  /\ cfg = NoConfig
  /\ handler = [f \in Function |-> "php"]
  /\ saved = NoSaved
  /\ rules = NoRules
  /\ hook_execute = FALSE
  /\ echo_hooked = FALSE
  /\ stack = <<>>
  /\ touched = {}
  /\ stray = {}

Next ==
  \/ \E c \in Configs : LoadConfig(c)
  \/ LoadBroken
  \/ LoadEmpty
  \/ Shutdown
  \/ BeginRequest
  \/ EndRequest
  \/ \E f \in Function : Call(f)
  \/ WrapperPasses("sp", "internal")
  \/ WrapperPasses("check_disabled_function", "disabled")
  \/ WrapperPasses("eval_blacklist_callback", "eval")
  \/ ArrayHandlerCalls
  \/ ArrayHandlerReturns
  \/ Return
  \/ Bailout

Spec == Init /\ [][Next]_vars

-----------------------------------------------------------------------------
(* Properties.                                                             *)

Layer == Wrapper \cup {"php", Inner}

Frame == [fn: Function, at: Layer \cup {NULL},
          need: SUBSET Wrapper, gone: SUBSET Wrapper, passed: SUBSET Layer]

(* The type invariant.                                                     *)
TypeOK ==
  /\ phase \in {"startup", "idle", "request", "down"}
  /\ status \in {"none", "invalid", "valid"}
  /\ cfg \in Configs \cup {NoConfig}
  /\ handler \in [Function -> Handler]
  /\ saved \in [Table -> [Function -> Handler \cup {NULL}]]
  /\ rules \in [df: SUBSET Name, df_hooked: SUBSET Name,
                ret: SUBSET Name, ret_hooked: SUBSET Name]
  /\ hook_execute \in BOOLEAN
  /\ echo_hooked \in BOOLEAN
  /\ stack \in Seq(Frame)
  /\ Len(stack) <= MaxDepth
  /\ touched \subseteq Sloppy
  /\ stray \subseteq Sloppy

\* The chain of handlers of f that configuration c calls for, innermost first.
BelowDisabled(c, f) == IF f \in InternalHooks(c) THEN "sp" ELSE "php"
BelowEval(c, f) ==
  IF f \in DisabledHooks(c) THEN "check_disabled_function" ELSE BelowDisabled(c, f)
Outermost(c, f) ==
  IF c = NoConfig THEN "php"
  ELSE IF f \in EvalHooks(c) THEN "eval_blacklist_callback" ELSE BelowEval(c, f)

\* What each table saves for f under configuration c.
InternalSaves(c, f) ==
  IF c # NoConfig /\ f \in InternalHooks(c) THEN "php" ELSE NULL
DisabledSaves(c, f) ==
  IF c # NoConfig /\ f \in DisabledHooks(c) THEN BelowDisabled(c, f) ELSE NULL
EvalSaves(c, f) ==
  IF c # NoConfig /\ f \in EvalHooks(c) THEN BelowEval(c, f) ELSE NULL

(* Whatever sequence of loads, failed loads and fatal errors the process   *)
(* went through, the hook tables hold the chain that the configuration in  *)
(* force calls for and nothing of an earlier one: sp_load_config is        *)
(* idempotent for the function table.  Only a function around which        *)
(* array_handler put its wrapper after a load had taken it away may be     *)
(* short of the entry that goes with it.                                   *)
SavedFollowsConfig ==
  phase # "down" =>
    \A f \in Function \ stray :
      /\ saved["internal"][f] = InternalSaves(cfg, f)
      /\ saved["disabled"][f] = DisabledSaves(cfg, f)
      /\ saved["eval"][f] = EvalSaves(cfg, f)

(* A function whose wrapper does not touch the function table has the      *)
(* outermost wrapper of its chain installed, at all times, also while      *)
(* calls are in progress; under no configuration it has its own handler.   *)
HandlerFollowsConfig ==
  phase # "down" => \A f \in Function \ Sloppy : handler[f] = Outermost(cfg, f)

(* What array_handler does to the function table ends with the next load:  *)
(* from a load on, and until it is called again, the functions it rewrites *)
(* have the outermost wrapper of their chain, whatever fatal errors left   *)
(* before; after it was called they have its wrapper or, after a fatal     *)
(* error in the nested call, none, under a configuration that wraps them.  *)
SloppyHandlerInChain ==
  phase # "down" =>
    \A f \in Sloppy \ stray :
      IF f \in touched
      THEN cfg # NoConfig /\ f \in InternalHooks(cfg) /\ handler[f] \in {"sp", "php"}
      ELSE handler[f] = Outermost(cfg, f)

(* A wrapper finds the handler it looks up as long as it is in force: a    *)
(* null pointer is called only at the end of a wrapper that a load, in the *)
(* middle of the call, took from around its function, or in a function     *)
(* where array_handler put its wrapper back after such a load.             *)
NoNullHandler ==
  \A i \in DOMAIN stack :
    stack[i].at = NULL =>
      \/ stack[i].fn \in stray
      \/ (stack[i].passed \cap stack[i].gone) \ Layers(cfg, stack[i].fn) # {}

(* Native code is reached only through every wrapper that was around the   *)
(* function from the call on, whatever was loaded on the way (those        *)
(* array_handler rewrites excepted, which lose the wrapper around theirs). *)
Enforced ==
  \A i \in DOMAIN stack :
    stack[i].at = "php" /\ stack[i].fn \notin Sloppy =>
      stack[i].need \ stack[i].gone \subseteq stack[i].passed

\* The rules on n in the pair of tables (plain, hooked) have a reader: the
\* wrapper of the function, or sp_execute_handler.
HasReader(n, plain, hooked) ==
  IF n \in Function THEN n \in hooked \ plain /\ saved["disabled"][n] # NULL
                    ELSE n \in plain \ hooked /\ hook_execute

\* Those on a construct: hook_echo or sp_stream_open_checks.  Neither reads the
\* rules on return values.
ConstructHasReader(n) == n \in rules.df_hooked /\ (n = Echo => echo_hooked)

\* Those a regexp attaches to n.
RegexHasReader(n) ==
  IF n \in Function THEN saved["disabled"][n] # NULL ELSE hook_execute

(* Every rule of the configuration in force is where the code consulted at *)
(* its calls reads it: in exactly one table, with its hook in place.  A    *)
(* process without configuration holds no rule.                            *)
EveryRuleIsConsulted ==
  /\ cfg = NoConfig => rules = NoRules
  /\ cfg # NoConfig /\ phase # "down" =>
       /\ \A n \in cfg.named :
            IF n \in Builtin THEN ConstructHasReader(n)
                            ELSE HasReader(n, rules.df, rules.df_hooked)
       /\ \A n \in cfg.named_ret \ Builtin :
            HasReader(n, rules.ret, rules.ret_hooked)
       /\ \A n \in (cfg.regex \cup cfg.regex_ret) \ Builtin : RegexHasReader(n)

-----------------------------------------------------------------------------
(* The inductive invariant.                                                *)

\* The wrappers at or inside w in a chain.
Within(w) ==
  CASE w = "eval_blacklist_callback" -> Wrapper
    [] w = "check_disabled_function" -> {"check_disabled_function", "sp"}
    [] w = "sp" -> {"sp"}
    [] OTHER -> {}

\* The functions array_handler rewrites, stray or not: what is saved for f is
\* what a load can take back, down to PHP's handler or the sp wrapper.
Takeable(h, c, f) ==
  /\ h.saved["internal"][f] \in {InternalSaves(c, f), NULL}
  /\ IF "check_disabled_function" \in Layers(c, f)
     THEN h.saved["disabled"][f] \in {"sp", "php"}
     ELSE h.saved["disabled"][f] = NULL
  /\ IF "eval_blacklist_callback" \in Layers(c, f)
     THEN h.saved["eval"][f] \in IF "check_disabled_function" \in Layers(c, f)
                                 THEN {"check_disabled_function"} ELSE {"sp", "php"}
     ELSE h.saved["eval"][f] = NULL
  /\ Layers(c, f) \subseteq {"sp"} => h.handler[f] \in {"sp", "php"}

SloppyTables == phase # "down" => \A f \in Sloppy : Takeable(Hooks, cfg, f)

\* The calls in progress: only the innermost may have met a null pointer, only
\* array_handler makes nested calls, and what a call needs, and the wrapper it is
\* in, is in force or was taken away meanwhile.
FramesInv ==
  \A i \in DOMAIN stack :
    /\ i # Len(stack) => stack[i].at # NULL
    /\ stack[i].at = Inner => stack[i].fn \in Sloppy
    /\ stack[i].at \in Wrapper =>
         /\ stack[i].need \subseteq Layers(cfg, stack[i].fn) \cup stack[i].gone
         /\ \/ stack[i].at \in Layers(cfg, stack[i].fn) \cup stack[i].gone
            \/ stack[i].fn \in stray

\* A call that has reached a handler went through all it needs around it.
LayersCounted ==
  \A i \in DOMAIN stack :
    stack[i].fn \notin Sloppy /\ stack[i].at # NULL =>
      stack[i].need \ stack[i].gone \subseteq stack[i].passed \cup Within(stack[i].at)

PhaseInv ==
  /\ stack # <<>> => phase = "request"
  /\ status = "none" => cfg = NoConfig

RulesInv ==
  /\ cfg = NoConfig => rules = NoRules
  /\ cfg # NoConfig =>
       /\ rules = SortRules(cfg)
       /\ hook_execute = NeedsExecuteHook(cfg, rules)
       /\ Echo \in rules.df_hooked \cup rules.ret_hooked => echo_hooked

(* The conjunction that every step of the specification preserves: the     *)
(* tables, the handlers and the rule lists are those of the configuration  *)
(* in force, and every call in progress is at a point of its chain.        *)
HooksInv ==
  /\ TypeOK
  /\ PhaseInv
  /\ SavedFollowsConfig
  /\ HandlerFollowsConfig
  /\ SloppyHandlerInChain
  /\ SloppyTables
  /\ RulesInv
  /\ NoNullHandler
  /\ FramesInv
  /\ LayersCounted
=============================================================================
