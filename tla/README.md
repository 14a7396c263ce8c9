# A TLA+ verification of Snuffleupagus

Snuffleupagus is a PHP extension that hardens the interpreter from inside: it
replaces the handlers of internal functions, hooks the executor, the compiler,
the INI machinery, the stream wrappers, the session handlers and the upload
callback, and applies the rules of its configuration file to what passes there.
This directory models the parts of it that keep state across calls, requests
and reloads of the configuration, model-checks them with TLC, and proves the
most important properties with TLAPS. Source paths are relative to the root of
the repository; the extension's own code is in `src/src/`.

## 1. Inventory

One PHP process (a php-fpm worker, an Apache child, a command line) loads the
extension, reads the configuration, serves requests one after the other, and
ends. There is one thread. What makes the code hard is not parallelism but
re-entrance: a configuration is loaded again between two requests or in the
middle of one (Apache applies `sp.configuration_file` again for subrequests);
wrappers are nested in each other and in user code; and a fatal error or a
`drop` leaves any number of C frames at once with a `longjmp`
(`zend_bailout`), skipping everything they had still to undo.

| Component | Code | State | Operations |
|---|---|---|---|
| Lifecycle and loading | `snuffleupagus.c` | `is_config_valid`, `config_nonfatal`, the parsed configuration, `hook_execute`, `zend_write` | GINIT, MINIT, `OnUpdateConfiguration`, `sp_load_config`, `sp_config_failed`, `sp_free_config`, RINIT, MSHUTDOWN |
| Function hooking | `sp_utils.c`, `sp_disabled_functions.c`, `sp_sloppy.c` and the `hook_*` functions | three hook tables, the function table of PHP | `hook_function`, `hook_regexp`, `unhook_functions`, the wrappers |
| Rule evaluation | `sp_disabled_functions.c`, `sp_utils.c` | four rule tables by name, two rule lists by regexp | `should_disable_ht`, `should_drop_on_ret_ht`, logging and dropping |
| Execution hooks | `sp_execute.c` | `in_eval`, `execution_depth`, `eval_source_string` | `sp_execute_handler`, `sp_stream_open_checks`, `sp_compile_string`, `terminate_if_writable` |
| Eval whitelist and blacklist | `sp_execute.c`, `sp_disabled_functions.c` | two lists | `is_in_eval_and_whitelisted`, `eval_blacklist_callback` |
| Configuration parser | `sp_config*.c`, `sp_config_scanner.re` | the configuration under construction, `config_filename`, `config_lineno` | scanner with conditions, keywords |
| INI protection | `sp_ini.c` | `on_modify` of INI entries, their values | `sp_hook_ini`, `sp_unhook_ini`, `sp_ini_onmodify` |
| Stream wrappers | `sp_wrapper.c` | PHP's wrapper table, `num_wrapper` | `sp_disable_wrapper`, `sp_stream_wrapper_register`, `..._restore` |
| Sessions | `sp_session.c` | a hooked copy of the save handler module | `sp_hook_session_module`, `sp_OnUpdateSaveHandler`, read, write |
| Cookies, encryption | `sp_cookie_encryption.c`, `sp_crypt.c` | none of their own | `sp_setcookie`, `decrypt_cookie`, `encrypt_zval`, `decrypt_zval` |
| Unserialize | `sp_unserialize.c` | none of its own | `sp_serialize`, `sp_unserialize` |
| Uploads | `sp_upload_validation.c` | the chained callback | `sp_rfc1867_callback` |
| Variables, lists, networks | `sp_var_*.c`, `sp_tree.c`, `sp_list.c`, `sp_network_utils.c` | none | parsing and lookup of variables, CIDR matching |
| Random, XXE, server filters | `sp_harden_rand.c`, `sp_disable_xxe.c`, `sp_ifilter.c` | none of their own | wrappers of internal functions, an input filter |
| Logging | `sp_utils.c` | none | `sp_log_msgf`, request dumps |

How they meet:

* `sp_load_config` calls every `hook_*` function in a fixed order, after it has
  undone what the previous load had hooked. All hooks share PHP's function
  table; several of them may wrap the same function, each with its own table of
  saved handlers.
* The wrappers and the execution hooks read the configuration (`SPCFG(...)`)
  and the hook tables at every call; a reload under a running call changes them
  below it.
* Every component reports through `sp_log_msgf`, which ends a `drop` with
  `zend_bailout`, and lowers the level of an error to a warning while a
  configuration is loaded after startup. With the default medium a message goes
  through PHP's errors, and so to the error handler of the script, which runs in
  the middle of whatever logged.
* RINIT refuses the request if the configuration is broken, filters the stream
  wrappers and decrypts the cookies.

What correct means, component by component:

* **Lifecycle, hooking**: after any history of loads the hooks are those of the
  configuration in force and of no other; without one there are none; no
  request is served under a broken one; a call goes through every wrapper in
  force; a wrapper finds its handler as long as it is in force.
* **Rule evaluation**: a call, and its return, is decided by the first rule of
  its list that matches and is not in simulation, whatever runs in between; a
  list has the order of the file; a chained rule matches inside of its
  functions and nowhere else.
* **Execution hooks**: the counters equal the evals and calls in progress at
  every point where they are read; the source given to a rule on `eval` is the
  source that runs.
* **Parser**: what is in force after a load is made of the text of this load
  alone, of all its rules in force or of none; nothing is encrypted without a
  usable key.
* **INI**: the check is before exactly the settings the configuration in force
  has rules on, over any history of loads; what is read-only stays; PHP and the
  owner of a setting agree on its value.
* **Stream wrappers**: scripts reach wrappers of the whitelist only, and kinds
  of `php://` streams it names only.
* **Sessions**: PHP keeps the hooked copy of the module the setting names, the
  copy never calls itself, an encrypted session is read as it was written or
  not at all, and none that a script changed is stored unsealed.
* **Cookies, unserialize**: a script sees of an encrypted cookie what a script
  gave it under the key of the request, and nothing else; only signed values are
  unserialized, and those always.
* **Uploads**: every file is judged before the script runs, and a request is
  answered.
* **Algorithms**: conditions, variables and networks mean what their syntax says.

The hazards behind these, with their lines, are in `PROJECT.json`.

## 2. Modules

| Module | Role |
|---|---|
| `SpHooks`, `MCSpHooks`, `SpHooksProofs` | function hooking and the configuration lifecycle |
| `SpExecute`, `MCSpExecute`, `SpExecuteProofs` | the execution hooks and the filter on eval: counters, calls, bailouts, fibers |
| `SpRules` | what one rule of `disable_function` says of one call: lists and filters, as operators |
| `SpDisable`, `MCSpDisable` | the walks over the lists, with calls and walks nested in native callbacks and error handlers |
| `SpVerdict` | what `disable_function` promises; the abstract specification of `SpDisable` |
| `SpDisableProofs` | the walk's invariant, that `SpDisable` implements `SpVerdict`, and what the lists and chains are |
| `SpKeywords` | the tables of keywords and the parse functions of the directives, as operators |
| `SpCond` | the evaluation of `@condition`, token by token |
| `SpConfig`, `MCSpConfig`, `SpConfigProofs` | loading: several files, variables, conditions, rules, failures; uses `SpKeywords` and `SpCond` |
| `SpIni`, `MCSpIni` | INI protection |
| `SpWrapper`, `MCSpWrapper` | the whitelist of stream wrappers |
| `SpCrypt` | encryption, symbolic: used by the next two |
| `SpSession`, `MCSpSession`, `SpSessionProofs` | session protection |
| `SpClient`, `MCSpClient`, `SpClientProofs` | cookies and serialized values, which leave the server and come back |
| `SpUpload`, `MCSpUpload` | upload validation: processes, failures, the chain of callbacks |
| `SpTablesProofs` | the proofs about `SpIni`, `SpWrapper` and `SpUpload`, which change a table or a chain of PHP when a configuration is applied |
| `SpCidr` | the networks of rules |
| `SpReading`, `SpReadingProofs` | what conditions and networks mean by definitions of their own, and that `SpCond` and `SpCidr` compute it |
| `SpVar` | the parser of variables |
| `MCSpAlgorithms` | `SpReading`, and `SpVar` held against the text it reads |

An MC module gives the constants of its component small values, which its
`.cfg` assigns; it defines nothing else, except for `MCSpAlgorithms`, which has
the reference definition for `SpVar` too (it is RECURSIVE, so that no proof can
be about it). "Slip" marks a definition that is a plausible
mistake in the code it stands next to. No specification uses one: replacing the
right definition by it must break the property the two are about, and
`PROJECT.json` lists which does.

How the models meet: `SpHooks` shows that wrappers are on the functions and are
gone through; `SpExecute` (for `eval_blacklist_callback`) and `SpDisable` (for
`check_disabled_function`) what they then decide. `SpConfig` shows which
configurations a load can bring into force; that a rule that encrypts needs a
key is its property `EncryptionHasSecrets` and the assumption
`EncryptionHasAKey` of `SpClient`. In the other modules a load is one step that
puts any configuration of a set in force, because what they do with it does not
depend on how it was read.

### The runs

| Run | Shows | States |
|---|---|---|
| `hooks` | reloading is idempotent, a null handler is met only where a load took away the wrapper a call is in, every wrapper in force is gone through, every rule is in a table its hook reads | 27 385 |
| `execute` | the counters are right while the script runs and never too small, so that no call escapes the lists inside an eval or the limit on recursion, and refusals are justified | 1 551 275 |
| `execute_source` | a violation: a rule on `eval` is given the source of another eval | |
| `disable` | `SpDisable` implements `SpVerdict`; lists in the order of the file; chains inside of their functions, and there always | 628 165 |
| `config` | the configuration is the fold of the rules of this load that are in force; keys before encryption; cookie rules add up | 73 501 |
| `ini` | the check follows the rules over loads; read-only stays; owners know | 4 842 |
| `wrapper` | scripts stay within the whitelist, though RINIT compares numbers only | 5 809 |
| `session` | the copy is in place and not behind itself; what is stored and read under encryption | 41 328 |
| `client` | encrypted cookies are seen by those they were given to; signatures decide | 820 320 |
| `client_legacy` | a violation: in simulation a value from before the feature is cut | |
| `upload` | no file slips through; one program at a time; the chain ends; requests are answered | 1 838 |
| `algorithms` | conditions, variables and networks against reference definitions | 390 154 |

`TypeOK` is checked by the runs `hooks` and `execute`; in `SpDisable`, `SpIni`,
`SpWrapper`, `SpSession`, `SpClient` and `SpUpload` it is proved, for every
instance (`TypeCorrect` in each proof module; `IniTypeCorrect` and
`UploadTypeCorrect` beside it in `SpTablesProofs`), and the runs are spent on the
other properties. `SpConfig` needs none: a configuration of the wrong shape is
not the fold `OnlyTheTextCounts` compares it with.

Deadlock is checked except where the system may stop: MSHUTDOWN ends the process
in `SpHooks`, and the bounds on the inputs end the behaviours of
`MCSpAlgorithms`.

### SpHooks

State, and what it stands for:

| Variable | Code |
|---|---|
| `phase` | where the process is: before MINIT's first load, between requests, in a request, after MSHUTDOWN |
| `status` | `SPG(is_config_valid)`: `SP_CONFIG_NONE`, `_INVALID`, `_VALID` |
| `cfg` | `SPCFG(...)`, reduced to what the hooking code reads |
| `handler` | `internal_function.handler` of every internal function |
| `saved` | `sp_internal_functions_hook`, `disabled_functions_hook`, `sp_eval_blacklist_functions_hook` |
| `rules` | the keys of `config_disabled_functions`, `..._hooked`, `..._ret`, `..._ret_hooked` |
| `hook_execute`, `echo_hooked` | `SPG(hook_execute)`, `zend_write == hook_echo` |
| `stack` | the calls of internal functions in progress, each at one handler of its chain |
| `touched`, `stray` | history: the functions `array_handler` rewrote since the last load, and those around which it put its wrapper after a load had taken it away |

Actions: `LoadConfig` and `LoadBroken` are `sp_load_config` as a whole (undo,
reset, parse, hook, compute `hook_execute`), with its two outcomes; `LoadEmpty`
is the early return of `OnUpdateConfiguration`; `BeginRequest` is RINIT with its
rejection; `Call` enters the handler found in the function table;
`WrapperPasses` is a wrapper that accepts the call and runs the handler its
table holds; `ArrayHandlerCalls` and `ArrayHandlerReturns` are the two halves of
`array_handler` around its `call_user_function`; `Return` is the return of the
native function through its wrappers; `Bailout` is a `longjmp` out of all of
them; `Shutdown` is MSHUTDOWN.

User code runs at any point of a request (`RunsUserCode`): at the top level,
under native code that calls back, and inside a wrapper, because what a wrapper
logs before it looks its handler up goes to the error handler of the script
(`should_disable_ht` and `eval_blacklist_callback` log before
`zend_hash_str_find_ptr`). `WrapperPasses` is therefore the lookup alone, and any
number of calls may come between the entry of a wrapper and it. A load inside a
request is the subrequest of a native function of `Virtual` (`LoadPoint`), which
any of this user code may call.

Abstractions:

* Which calls a wrapper refuses is left open: every wrapper may let a call pass
  or end the request. The model is about whether it is consulted.
* The regexp lists are the sets of names their regexps match. The functions of
  CG(function_table) are those present at MINIT; other names (user functions,
  methods, constructs) have no entry in it.
* `sp_setcookie`, and `sp_unserialize` since PHP 8.3, run the native code by
  name and not through their table; under the name they are wrapped by the two
  are the same.
* A reload frees the rules of the configuration before it, also those a wrapper
  is walking when its error handler reloads. The walk goes on over freed memory;
  the model has it end, by a lookup in the new tables or a bailout.
* `SP_DUMP_CONFIG`, with which a command line prints the configuration and hooks
  nothing, is not modelled.
* `need`, `gone` and `passed` of a call, `touched` and `stray` are history, read by
  no guard: the wrappers around the function when the call starts, those a load
  takes away while the call is in its wrappers, and those it went through.

The instance has `array_keys` (rewritten by `array_handler`), `setcookie`
(always wrapped), `virtual` (starts subrequests), `mb_substr` and `substr`
(twins for `hook_function`), a user function and `echo`. Seven configurations
put each table alone, two and three tables on one function, a twin in one table
and its base in another, rules by regexp, and rules that no function table entry
has. `MaxDepth = 2` puts a call that reloads above one that is in a wrapper, in the
nested call of `array_handler`, or in native code: a call depends on the frames
around it only through the configuration and the function table, and any number
of loads may come one after the other from the upper one. (With three calls,
`HooksInv` was checked over 2.07 million states.) Three tables suffice for the
chains because there are three.

Properties:

* `SavedFollowsConfig` and `HandlerFollowsConfig`: reloading is idempotent, over
  failed loads, fatal errors and reloads under calls.
* `SloppyHandlerInChain`: what `array_handler` does to the function table ends with
  the next load. Between its call and a load its function may have lost a wrapper
  of another table, or all of them after a fatal error (see Divergences), and
  nothing but `array_handler` does that: all others have the outermost wrapper
  of their chain.
* `NoNullHandler`: a null pointer is called in one case, when the wrapper that
  looks its handler up is one that a load took away from around the function while
  the call was in it. That the code does call it then is under Divergences; the
  property says that no other order of loads, broken loads, calls and fatal
  errors leads there, in particular no reload under native code and none that
  keeps the wrapper, whatever other wrappers it puts around it.
* `Enforced`: complete mediation. Native code is reached only through the wrappers
  that were around the function when it was called, less those a load took away on
  the way.
* `EveryRuleIsConsulted`: each rule is in the one table its hook reads, and the
  hook is there.

Proofs. `SpHooksProofs` proves, for any functions, configurations, functions
that start subrequests and depth of calls, `Spec => []HooksInv`
(`HooksInvariant`) and from it every property of the passing run. They rest on
the assumptions named in `SpHooks`: the sets of names relate as their comments
say, and every name wrapped by `sp_internal_functions_hook` has no twin in the
function table.

`HandlerFollowsConfig` is not inductive by itself. A reload restores what the
tables hold, so the tables must be known: `SavedFollowsConfig`, and for the
functions `array_handler` rewrites, whose entries may be short of their handler,
`SloppyTables`, that what is saved can be taken back down to PHP's handler or the
sp wrapper (`Takeable`). `RemoveHooksRestores` is the lemma that the reverse
order then gives every function its own handler back, or leaves the sp wrapper
on one that is stray. For `NoNullHandler` and `Enforced` it must be known of
every call in progress where it is: `FramesInv` says that the wrapper a call is
in, and all it needs, is in force, taken away meanwhile or stray, and
`LayersCounted` that it went through what it needs around its wrapper
(`Within`). Loads keep both because they note what they take away
(`LoadKeepsCalls`).

### SpExecute

| Variable | Code |
|---|---|
| `stage` | where the request is: 0 between requests, 1 in the script, 2 and on in the parts of `php_request_shutdown` (shutdown functions, destructors, ...), each of which catches a bailout of its own |
| `cfg` | `SPCFG(eval)` and `SPCFG(max_execution_depth)` |
| `in_eval`, `execution_depth`, `eval_source` | `SPG(in_eval)`, `SPG(execution_depth)`, `SPG(eval_source_string)` |
| `stack` | the C frames of the hooks, for the main thread and for every fiber: what the counters are meant to count, and the code never looks at |
| `chain` | the main thread, the fiber it resumed, the fiber that one resumed, ... |
| `refused` | the rule whose drop `sp_log_msgf` is logging, just before `zend_bailout` |

Actions: `BeginRequest` is the part of RINIT that resets the counters;
`ExecuteFile`, `ExecuteUser` and `ExecuteInternal` are a call as
`sp_execute_handler` sees it, check on the whitelist first, `sp_orig_execute`
with its limit last; under an internal function the wrapper of a blacklisted
one is part of the same action. An eval is in two halves, `CompileString` and
`ExecuteEval`, because PHP's compiler calls the script's error handler between
them; `CompileFails` is a parse error. `Return` is a return or an exception,
`Bailout` a longjmp for any reason: the frames go, the counters stay.
`FiberStart`, `FiberSuspend`, `FiberResume` and `FiberDestroy` switch stacks
and touch no counter, except that destroying a suspended fiber unwinds its
frames through the hooks.

The blacklist wraps what `hook_function` finds in PHP's table of functions
(`Wrapped`): a method on it (those of `Method`) is not wrapped, and only the
whitelist concerns it.

Abstractions:

* A configuration is loaded between requests only; what a reload below a
  running call does to the hooks is the subject of `SpHooks`.
* The rules of `disable_function` and the checks of `readonly_exec` either let
  a call pass or drop it; a drop is a `Bailout`. What the rules decide is the
  subject of `SpDisable`. `seen` of an eval is the source its rules are given.
* The log of a simulation may run an error handler; it is one more call of a
  user function at the same place and needs no action. So is the resumption of
  a generator, which enters the executor, and the hooks, like a call.
* The function a fiber runs is one of the script.
* `src`, `seen` and `inside` of a frame are history, read by no guard.

Runs. `LastStage = 3` gives the script and two parts of the shutdown, so that
what one bailout leaves meets the next one; `MaxFrames = 4` per thread lets an
eval contain a call, an eval and a call of a native function, or a fiber method
below an eval, and exceeds both limits on recursion used (2 and 3). One fiber
and the main thread show every order of suspending, resuming and destroying:
a second fiber would add to the counters what the first does. The
configurations have each list alone and both with a simulation, a function on
both lists, and each limit.

`CountersFollowStack` says how far the counters are right: exact while the
script runs, over all fibers, never too small afterwards. That is what the
checks need to be safe, and the two properties that say so are
`EvalFilterEnforced` (no call escapes the lists inside an eval, whoever makes
it) and `DepthLimited`. `RefusalsJustified` is the other direction, no call is
dropped without reason, and holds only in the script itself and without
suspended fibers; what happens outside of these conditions is under Divergences. It spans requests: without the reset in RINIT it fails.

`SpExecuteProofs` proves `Spec => []ExecInv` (`ExecInvariant`) and from it
every property of the passing run, for any functions, fibers, configurations
and numbers of frames and stages. `CountersFollowStack` needs the shape of the
fibers (`ChainInv`: the chain visits no thread twice, and a thread that is not
running is inside a native function, so that a switch of stacks takes away only
frames that are not counted) and `RefusedFrame` (what the limit drops is the
frame just counted, so that the bailout brings the depth back within it). The
lemmas `PushCount`, `PopCount`, `ReplaceCount`, `ClearCount` and `DestroyCount`
say how each kind of step changes the cardinality of the sets of frames.
`Refusals` adds `RefusalInv`, that a refusal follows from the counters, which
only a bailout ends. The assumptions are those of the module: distinct names,
three distinct fiber methods that are no callback functions, finitely many
fibers.

### SpRules, SpDisable, SpVerdict

A rule is a record of its filters, each the set of what it accepts ({} for no
filter), so that an exact value and a regular expression differ in the set only.
`SpRules` has the lists as the parser builds them (`Key`: a chained rule is kept
under its last function; `Named`, `Regexps`; `RuleList`, the choice of
`should_disable_ht`) and the filters in the order `should_disable` and
`should_drop_on_ret` test them, over the trace of the calls on the stack.

| Variable of `SpDisable` | Code |
|---|---|
| `rules`, `client` | the rules of the configuration; what `get_ipaddr` gives |
| `stack` | the frames of the engine, each with its call and, while its rules are walked, the next rule, whether one allowed, those logged, whether the log is running the error handler |
| `dropped`, `crashed` | the rule that ended the request; the read of a description that does not exist |

`NextRule`, `Allow`, `Simulate`, `Drop` and `Crash` are the outcomes of one
turn of the loops in `should_disable` and `should_drop_on_ret`; `Pass` is the
call going through, `Return` its return value reaching the second walk, `Leave`
the end of that. `Call` is made by running code, by a native function that calls
back, or by an error handler the log of a rule in simulation calls in the middle
of a walk: `sp_log_disable` runs arbitrary code, and the walk goes on after it.

Not every call is held against the rules before it is made. `sp_execute_handler`
looks at the instruction its caller stands at, and walks only if that is a
call, or if the caller has no instructions (`sp_execute.c:215-236`). `Call` has
the choice: `mid` is whether PHP makes the call on its own while code of the
script stands at some other instruction (a magic method, an autoloader, a
destructor, an error handler), `Mid` says where that can be so, and `Walks` which
calls are walked: all but those, and of those the functions that are hooked and
the constructs, which ask for the walk themselves. What is not walked goes
straight to "run"; its return is walked in any case. Some versions of PHP put a
frame without code between the script and such a call, and there the code does
walk: hence both values of `mid` wherever the engine may make a call. `SpVerdict`
has the same choice, since it is what the code promises; `FirstRuleDecides` is
about the calls that are walked, and the others are under Divergences.

`Native` are the functions of CG(function_table); methods of internal classes,
which no table wraps, are left out. `Behind` is what a regular expression for a parameter finds
where the code reads names of more parameters than there are, as it does when a
call has more arguments (`ReadsBehind`, `MayCrash`): some name, or a crash.

`SpVerdict` is the promise: `Pass`, `Leave` and `Drop` decide a call or a return
in one step, by the first rule of the list that says yes and is not in
simulation. `FirstRuleDecides` is `Verdict!Spec` with the walk hidden
(`Promised` shows what a walk logged once it has ended): `SpDisable` implements
`SpVerdict`. `OneKindInFileOrder` says the lists have the order of the file and
miss nothing, as far as that is so (see Divergences); `ChainMetInside` that a
chained rule matches exactly where the call runs inside of its functions,
outermost first, and no included file lies between them. Both hold of
the lists and of the stack rather than of a step, and are about the file and the
frames, not about the operators the walk uses.

Instance: a native function, three of the script (one without parameters, one
variadic), `echo` and an include, and six configurations that bring each filter
and each kind of list into play. `MaxFrames = 4` puts a function, a call in it,
an error handler and its call on the stack of the main script.

`SpDisableProofs`: the inductive invariant `DisableInv` says of every walk on
the stack that it has passed only rules that decide nothing, has logged exactly
those that said yes, and stands at a rule that allows if one ended it. What is
said of a frame depends on the calls up to it (`SaysLocally`), which a handler's
calls above it leave alone; hence `WalkLocally`, on which every step's lemma
rests. `EndedWalk` is the heart of the refinement: where a walk has ended,
nothing refused and what it logged is what `SpVerdict` logs. `Implements` then
maps each action to the action of the same name, and the steps along a list to
stutters. `OneKindInFileOrder`
(`FileOrder`) and `ChainMetInside` (`ChainInside`) are about two recursive
functions, `Indices` and the walk of `ChainMatches` down the stack. Each is first
shown to exist and to be what its definition says (`IndicesCount`,
`ChainWalks`), by induction over the numbers from the principle that a set of
them has a least one (`LeastNumber`, `Induction`). Then `Indices` is the strictly
increasing enumeration of its set, which is the order of the file; a walk
that matches leaves behind the frames `WalkFinds` collects into `at`, and frames
that hold the chain keep the walk from ending (`ChainIsMet`). The
assumptions are `FramesAreBounded`, `CallsNameFunctions`, `NamesAreDistinct` (of
`SpRules`) and `RulesAreParsed`: a rule with a chain has no regular expression
for its function, which `parse_disabled_functions` refuses. That `RuleList`
gives places of rules is a lemma, not an assumption.

### SpConfig, SpKeywords, SpCond

`SpKeywords` translates the tables of `sp_config_keywords.c` (`Table`: which
keyword is parsed how into which setting), `sp_process_rule` (`Take`, `Read`)
and the `parse_*` functions: what each refuses (`Accepts`) and changes
(`Parse`). Of keywords that are parsed and used alike one stands for all.
`SpCond` is the shunting yard of the scanner.

`SpConfig` reads: its text is not fixed beforehand, but each next statement is
any of `Statements`, so that all texts up to `MaxText` are read, over
`MaxFiles` files and any number of loads. `Load` is `sp_free_config` and the
default, `Rule`, `Skip`, `Set`, `Condition`, `EndCondition` and `Refuse` are the
statements, `Unreadable` a file that is not there, `EndOfFile` a file that ends,
`RunOff` a text that ends inside of its last rule. `Break` is
`sp_config_failed`.

The properties do not look at the steps but at the text as a whole (`Force`: a
statement is in force outside of a condition or inside of one that holds, with
the variables set in force before it in its file). `OnlyTheTextCounts`: the
configuration is the fold of `Parse` over the rules in force, so nothing of an
earlier load, file, condition or variable is left in it.
`EncryptionHasSecrets` and `CookieRulesAddUp` are about what rules do together.
`Statements` has one for each thing the parser does; three of them in two files
give every order of two interacting ones under a condition, a variable, or both
before a third.

`SpConfigProofs` proves the three for any files, statements, variables and
limits. The text is recursive in two ways: `Read`, `InForceRules` and `Parsed` go
along a sequence, `Force` recurs on the condition that decides, whose value is
computed from the variables in force before it. As in `SpDisableProofs`, each is
shown to exist by induction before anything is said of it (`ReadIs`, `ForceIs`,
`RulesAre`, `ParsedIs`).

* `TextInv` relates what the scanner carries along to the text read as a whole:
  `vars_` and `cond` are what the text so far says (`VarsIn`, `CondIn`), and the
  configuration is `Parsed(InForceRules)`. The last alone is not inductive: without
  the first two nothing says that the scanner and `Force` agree on the next
  statement. `MetInv` is the step of one statement: what was in force stays so
  (`ForceGrows`), variables and condition grow by it (`VarsGrow`, `CondGrows`), and
  a rule is one more call of `Parse` (`RulesGrow`, `ParsedAppend`).
* `SecretsInv` says of each cookie and of the session that what is to be encrypted
  has its secrets. That no later rule takes a secret away rests on the tables: no
  keyword of a directive but `global` fills them (`PlacesElsewhere`), and `global`
  fills each once (`ReadKeeps`).
* `CookiesInv` adds `CookieInv`, by which every name that a rule in force is about
  has one cookie, that adds up. `CookieSays` says what a rule that was accepted has
  read; `CookiesAddUp` is the step of one rule, over `MergeKeeps`.

Assumptions: `OnIsSet` (a flag that is given is not one that is missing),
`RulesAreWritten` and `VariablesAreWritten` (a rule is a directive with a sequence
of keywords, and what is written, there or as the value of a variable, is not the
mark for nothing). They say what statements are and nothing of what they say.

### SpIni

| Variable | Code |
|---|---|
| `valid`, `inicfg` | `is_config_valid`, `SPCFG(ini)` |
| `on`, `saved` | `on_modify` of each entry of PHP, `orig_onmodify` of each entry of the configuration |
| `value`, `orig`, `changed` | `value`, `orig_value` and `modified` of PHP's entries |
| `module`, `untold` | what the owner of the setting works with, and the settings it was not told of |
| `last` | the last verdict of the check |

`Apply` is a load: `sp_unhook_ini` of the old configuration, `sp_hook_ini` of
the new, which also puts the `set` values. `Break` is a load that fails.
`IniSet`, `IniRestore` and `EndRequest` are PHP's three ways to call `on_modify`; the
last does not heed a refusal. Three settings (with a handler of its own, without,
unknown to PHP), three values and five configurations (checks, read-only, policy
with drop, simulation, disabled) reach every branch of `sp_ini_check`; entries
do not influence each other, so that two of PHP's are enough.

`IniInv` strengthens `CheckFollowsRules` and `ModuleFollowsValue` by
`ValuesFit` (the values PHP holds and goes back to are ones the handler takes:
otherwise a restoration would be refused by the owner and not by the check) and
by `NoneBefore` (nothing is to be unhooked before the first load). `ReadOnlyKept`
is an action property and follows from the same. Assumptions: `ConstantsFit`,
that is `Shapes` (the settings PHP has start with values their handlers take),
`RulesSetValues` (a rule sets a value) and `NothingIsOther`. The proofs are in
`SpTablesProofs`, together with those of `SpWrapper`; so that one module can extend
both, the names of `SpIni` are its own (`IniSpec`, `inicfg`, `stage`, ...).

### SpWrapper

`table` is PHP's hash of the process, `own` the clone a request works with once
a script changed it, `num` is `num_wrapper`. `Load` re-registers `php` under a
list of kinds and resets `num`; `Begin` is RINIT with `sp_disable_wrapper`, if
the count differs; `Register` and `Restore` are hooked, `Unregister` is PHP's.
`Extension` is a wrapper that another extension registers at the start, after
the configuration was applied: the reason RINIT filters at all. A load may
happen in a request; what is claimed is claimed of requests that run under the
configuration they began with (`since`).

`CountIsEnough` is the one worth having: RINIT compares numbers of wrappers, not
names, and that is enough, because a script never changes the table of the
process but for `php`. `WrapperInv` needs with it which wrapper `php` is, in the
table and in the clone. Assumptions: `PhpIsBuiltin`, `NamesAreFinite`,
`ConfigsAreSwitched`.

### SpCrypt

A text is a sequence; `encrypt` puts the key before it and `decrypt` takes that
key off again. A key is the hash of user agent, variable and secret one behind
the other, sequences of characters without anything between them: different
parts may give one key, and in the instances of both users of the module some
do. What does not open is kept in simulation, ends the request if the whole of
it is shorter than a nonce, and is removed otherwise, as in `decrypt_zval`.

### SpSession

| Variable | Code |
|---|---|
| `mod`, `handler`, `default` | `SESSION_G(mod)`, the setting, `SESSION_G(default_mod)` |
| `orig`, `reads`, `hooked` | `s_original_mod`, the module of `old_s_read` and `old_s_write`, whether the setting's handler is replaced |
| `store`, `last` | what each module stores; what was written to it last, with the key |
| `agent`, `env`, `sid`, `data` | of the request: what makes the key, the length of the open session's ID, its data |
| `before` | `session_vars` of PHP: what the session held when it was opened |

`Load` is `hook_session`, `Begin` is `sp_hook_session_RINIT`, `Switch` is
`sp_OnUpdateSaveHandler` around PHP's own, which may refuse; `Start` and `Close`
are read and write with the check of the ID's length; `End` puts the setting
back. `Begin` runs PHP's RINIT first, which under `session.auto_start` opens a
session (`Open`) with the module as it is, before the line that hooks it.

`Touch` is PHP's other way to close a session. Under `session.lazy_write`, its
default, an unchanged session goes to `s_update_timestamp`, which the copy leaves
as it was. It is given the text the script saw, not the sealed one; the module of
scripts hands that to their `write` when they have no function for it, and the
one of files writes it when it cannot set the time. Whether the setting is on,
and what the function does, is left open.

Two modules, two clients, two keys and a variable that scripts change
(`PutEnv`) show every mismatch between the key of a write and of a read, and
two requests of different clients with the same key.

`OwnOrNothing` is about sessions opened through the copy (`Hooked`), which one
that PHP starts on its own in the first request of a process is not.
`SealedAtRest` says of every step that what gets into a store is empty, sealed
under the key of the request, or the data of a session that is as it was opened.
The last is what `Touch` leaves, and says that nothing a script has changed goes
that way.

`SessionInv`: PHP's module is the copy and the copy is of the module in the
setting (`HookInv`); no session leaves data behind (`OpenInv`); what a module stores
is what was written last, sealed if it was sealed (`StoreInv`). Assumptions: the
copy has a name of its own, IDs have a length, no value is a key.

### SpClient

Cookies and serialized values share a model because both leave the server and
come back changed: `jar` is the browser, which may put anything of its own into
a cookie (`Foreign`), even values with signatures it has seen; `text` is what a
script holds, from a cookie (`Take`) or from `Serialize`. `given` and `signed`
are history: what scripts gave under which key. `php83` is the build.
`Setcookie` and `Begin` (with its decryption) use the first rule that matches a
name; `Unserialize` has the three outcomes of `sp_unserialize`.

One cookie suffices because cookies are treated one by one, except that one of
them may end the request; two clients, two keys and five configurations give
each mismatch of key, rule, simulation and build, and one client whose key under
one configuration is that of the other under another: `SeesWhatWasGiven` compares
keys, as the code does, and not clients. `ClientInv` adds to the types
that every cookie is either the text a script gave, sealed under the key it was
given with, or one nobody gave (`JarInv`). The action properties follow from it,
and from `SealOpens`: the key comes off a text again, and nothing else does.
Assumptions: values, keys and signatures are different things; a rule that
encrypts comes with a key.

### SpUpload

`BeginUpload` calls the chain of callbacks; for each file the callback forks
(`Fork`, or `NoFork`), the child becomes the program, exits or is killed, and
`Wait` reads its status as the code does: eight bits of an exit code, 0 for a
process that was killed. A fork that fails is logged as an error: with syslog or a
file as the medium the loop goes on, with the default one the error ends the
request, and `NoFork` may do either. `NoStatus` is a wait that fails and leaves the
status unwritten: either value. `LoadUpload` and `Other` hook callbacks between requests.

`NoFileSlipsThrough` is about the loop and the reasons files got through;
`ChainEnds` about hooking again after another extension, as long as there was a
callback when `hook_upload` first ran: without one the chain does loop (see
Divergences), a process that crashes in `BeginUpload`. `UploadInv` is both with
the state of the loop (`LoopInv`) and the five shapes of the chain (`ChainInv`).

Liveness. `Answered`: a request with files ends in the script or is dropped. It
is checked under `UploadFairSpec`: weak fairness of the parent's fork (or its failure)
and of its wait, because nothing but the process itself keeps it from running
on; and weak fairness of each child, because the program that validates uploads
is the administrator's and is expected to end; without that, `waitpid` in the
code waits forever, and so does the model. `NoStatus` gets no fairness: nothing
makes `waitpid` fail. Two files show the loop; no other component waits for
anything, so that no liveness is claimed of the others: every step there is
taken by the script, the browser or the web server.

### SpReading, SpCond, SpCidr, SpVar

States are inputs, grown by one token (`Condense`, until the scanner gives up;
`Lengthen`) or given a mask (`Network`).

`ConditionAgrees` compares the shunting yard with `Meaning`, which knows nothing
of stacks: a text is split at the weakest of its operators that are in no
parentheses, at the last one if several are as weak, and means nothing where
that leads nowhere. `MeaningOf` says what a part of a text means by what shorter
parts do; `Meaning` is the table of all parts. An accepted condition has its
meaning as the only result left; a rejected one means nothing, or holds more
numbers or more operators and open parentheses than a stack has places
(`MAX_CONDITIONS`); "not enough input" and "invalid condition" never happen.

`NetworkAgrees` compares `cidr_match` with the bits of the two addresses. A word
is a function from the positions of its bits, counted from the first one of the
address, so that `htonl` is in the representation; `Width` and `Words` are 32 and
4 in the code.

`NothingIsLost` prints the tree of a variable again and compares.

Bounds of the run: words of 2 bits, addresses of 1 and 3 words, with the same
boundaries at whole words as the code; seven tokens hold two operators in
parentheses under a negation or three operators of different precedence in a
row, and three places make stacks that are too small for some of them; six
delimiters or words hold an index in quotes and a property behind it.

`SpReadingProofs` proves the first two for every value of the constants.

* `Networks`: a word masked by `Mask(bits)` agrees if the first `bits` bits do
  (`AgreeIs`); words compared whole and the incomplete one together are the first
  bits of the address (`cidr6_is`, by division with rest); reading the digits gives
  a number that is no more than the address has bits (`NumberIs`).
* `Conditions` is an induction over the tokens (`AllScanned`) with the invariant
  `Scanned`, which has four parts.
  *The stacks are a reading of the text* (`AtOperand`, `AtOperator`). Operator j
  of the stack is token p[j]; below a binary one lies, as result h[j], what the
  text between it and the operator before it means, and only operators in it that
  bind as tightly (`Expression`, `Placed`). Applying the top (`ApplyTopKeeps`)
  is then the split `MeaningOf` makes: the top is the weakest operator of what
  lies behind the one before it, and the last of those (`OperatorMeans`).
  A binary operator is never pushed on one that binds as tightly (`Under`), which is
  what the loop of `Operator` establishes (`ReduceKeeps`).
  *Every operator on the stack has its operands*, so that `SY_APPLY_OP_FROM_STACK`
  is never short of any: part of the same reading.
  *An error has a reason* (`Refused`). A text that means something starts with an
  operand, ends behind one, closes what it opens and nothing else, and has next to
  each other only what may follow (`WellFormed`, by induction over the length of
  parts: `Meaningful`), so a syntax error is in a text that means nothing.
  *The stacks hold no more than was read* (`Before` counts the tokens of a kind):
  a full stack is the text's fault, not one of results or operators that were
  forgotten there.

### What is proved and what is model-checked

Proved for every value of the constants: type correctness of the components
with a proof module (of `SpConfig` and `SpReading`, as far as their invariants need
it), all invariants and all action properties of the runs `hooks`, `execute`,
`disable`, `config`, `ini`, `wrapper`, `session` and `client`, the invariants of
`upload`, conditions and networks in `algorithms`, and the refinement of
`disable`. Every proof rests on the named assumptions of its module and on nothing
else; TLC evaluates them.

Only model-checked: `NothingIsLost`, because the parser of variables and the
definition it is held against are RECURSIVE over trees, which no proof can use;
and `Answered`, which is liveness.

The proofs about `SpConfig` take what a condition yields as it is, some function
of the tokens and the variables; `Conditions` says which one.

Recursion in the modules that are proved about is by recursive functions over
an interval of numbers; the library's induction theorems take an operator and
cannot be used, so the induction is over sets (`Induction`).

## 3. Divergences

Met while modelling; the models do what the code does.

Kept as runs: `execute_source` (`sp_execute.c:371`) and `client_legacy`
(`sp_unserialize.c:172`), see `PROJECT.json`.

Hooks and loading:

* MSHUTDOWN undoes the three hook tables in the order they were hooked
  (`snuffleupagus.c:165`), where a reload uses the reverse order and says why
  (line 644): the last table restores a wrapper. It matters to the end of the
  process only.
* A wrapper logs before it looks its handler up, and the log may run the error
  handler of the script (`sp_disabled_functions.c:499`, `558-566`). If that reloads
  the configuration, by `virtual()` under Apache, and the new one does not wrap the
  function, the lookup finds nothing and the wrapper calls a null pointer.
  `NoNullHandler` allows exactly this. `array_handler` is exposed to it, too: it puts
  the missing handler into the function table and calls it (`sp_sloppy.c:46`).
* `array_handler` ends with `func->handler = orig_handler`, the `sp_` wrapper
  (`sp_sloppy.c:54`): a wrapper another table had put around it is gone until
  the next reload, and after a reload in the nested call that took the wrapper
  away it is back without an entry in the table (`stray`), so that the next call
  of the function calls a null pointer. A fatal error in between leaves the
  native function until the next load.
* A configuration that breaks when it is loaded for a subrequest takes all rules
  from the request that is running (`snuffleupagus.c:668`); only RINIT refuses.
* `zend_write = hook_echo` is never taken back (`snuffleupagus.c:757`).
* After a fatal error in an eval, shutdown functions are held against the lists
  of eval (`sp_execute.c:194`), as is all code outside of a fiber that waits
  inside an eval; the limit on recursion counts what a bailout left behind.
* `sp.eval_whitelist` and `sp.eval_blacklist` share one flag of simulation
  (`sp_config_keywords.c:187`).

Rules of `disable_function`:

* A function with a rule by name is never held against the rules by regular
  expression (`sp_disabled_functions.c:275`), also when the named rule is in
  simulation; `doc/source/config.rst:66` promises the order of the file.
* `is_functions_list_matching` stops at a frame without a function name, which
  an include has (line 45); a chained rule that ends in a construct never
  matches.
* A call that PHP makes on its own in the middle of an instruction of the script is
  not held against the rules of functions that are not hooked
  (`sp_execute.c:221-237`, `Walks`): a destructor, an autoloader, a magic method,
  where PHP puts no frame of its own between. Rules on its return are applied.
* The filter on the file name is met by the file of the caller, too (line 217);
  the documentation says the file of the definition.
* A rule on an argument of a function without parameters reads a description
  that is not there (line 355), and one that names a parameter by a regular
  expression those behind the last one, if the call has more arguments (line 162):
  `Crash`.
* A rule with `ret` ignores `cidr`, `pos`, `param_type` and `key`.

INI, wrappers, sessions, uploads:

* `policy_readonly` concerns settings that have an `sp.ini` rule only, and a
  later rule of `ini_protection` without it takes it back. A read-only violation
  under `policy_silent_ro` is not logged and does not drop.
* What `.set()` put is not taken back when a reload drops the rule, and a check
  may refuse the restoration of PHP's own value, of which the owner is then not
  told.
* Wrappers that were filtered never come back in a process (`FilteredForGood`).
* The copy of a session module replaces read and write only (`sp_session.c:97-104`).
  An unchanged session that PHP closes by `s_update_timestamp` may be stored in
  plain text (`Touch`); the next read takes it for a sealed one, and ends the
  request. A session that `session.auto_start` opens in the first request of a
  process, before line 131 hooks the module, is read as it is stored; a sealed
  one does not decode and is destroyed.
* Keys are hashes of user agent, variable and secret one behind the other, without
  separators (`sp_crypt.c:16-32`): other parts may give the same key.
* A cookie that cannot be decrypted is dropped only when it is shorter than a
  nonce; otherwise it is removed with a warning, where `doc/source/cookies.rst`
  says that the request is dropped.
* `unserialize_hmac` without a key is not hooked, unless `noclass` is on, in
  which case nothing checks signatures and `sp_serialize` reads a missing key.
* A validation program that was killed counts as one that said yes, so does a
  code that is a multiple of 256, and a fork that fails lets its file through,
  unless messages go through PHP's errors. With no callback before it, `hook_upload` takes the one in front for its
  original when it is applied again.

Parser:

* `log_media` ends the reading of its rule: keywords behind it are ignored.
* A text that ends inside of its last rule is read on behind its end.
* In a variable, an index that is refused is dropped in silence and its rule
  never matches (the test `broken_conf_local_var_15` expects a refusal, which
  happens at top level); of text before a quote the first character is skipped.

## 4. Not modelled

* `readonly_exec` (`terminate_if_writable`): it looks at the file system and
  drops, which in `SpExecute` is a fatal error at that place. The code computes
  the path behind `file://` (`sp_execute.c:283`) and then checks only paths
  without a scheme.
* The lookup of a variable in a running script (`sp_var_value.c`): it reads the
  engine's data and changes nothing. `SpRules` takes its result.
* `samesite` and `partitioned` of cookies, which only go through to PHP;
  `sp_server_strip` and the filters on `$_SERVER`, one rewriting of a string.
* The escapes in strings and the line numbers of the scanner; the generated
  scanner is the translation of `sp_config_scanner.re` that `SpConfig` models.
* The bodies of `sp_rand` and of the XXE hooks (a number, a no-op); the opcodes
  sloppy comparison rewrites at compilation, a map without state.
* SHA-256, TweetNaCl, PCRE, `SP_DUMP_CONFIG`, the formatting of logs and request
  dumps, MINFO, memory management, and builds for PHP 7.

Left of the plan: `readonly_exec` as a module of pure decisions, with the
extended checks; the refinement of the lifecycle in `SpHooks` by `SpConfig`; and
fibers in `SpDisable`, whose walks have one stack.
