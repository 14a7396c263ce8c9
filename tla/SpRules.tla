------------------------------- MODULE SpRules -------------------------------
(* What one rule of disable_function says of one call: the lists the rules *)
(* are kept in, and the filters of a rule, as should_disable and           *)
(* should_drop_on_ret test them. SpDisable walks the lists.                *)
(*                                                                          *)
(* A trace is the calls on the stack, outermost first; the last one is the *)
(* call judged. rules are the rules of a configuration, in the order of    *)
(* its files, and client is the address of the client.                     *)
(*                                                                          *)
(* A filter is the set of what it accepts, {} when the rule has none: an   *)
(* exact name and a regular expression differ only in the set.             *)
EXTENDS Integers, Sequences, FiniteSets, SequencesExt

CONSTANTS Native,      \* internal functions
          User,        \* functions of the script
          Construct,   \* echo and the includes, hooked without a frame of their own
          Include,     \* the includes among them
          Declared,    \* the parameters a function declares, a sequence
          Behind,      \* what lies behind them in memory, read as the name of one
          DefinedIn,   \* the file a function of the script is in
          Variadic,    \* functions whose first parameter is variadic
          Sha,         \* the hash of a file, as two halves
          Calls,       \* the calls a script may make
          Rets,        \* what functions may return
          Clients,     \* addresses a client may have; without one it is 0.0.0.0
          Configs,     \* the configurations: sequences of rules
          MaxFrames,   \* bound on the depth of calls
          None

ASSUME NamesAreDistinct ==
  /\ Native \cap User = {} /\ (Native \cup User) \cap Construct = {}
  /\ None \notin Native \cup User \cup Construct /\ Include \subseteq Construct
  /\ DOMAIN Declared = Native \cup User /\ DOMAIN DefinedIn = User
  /\ DOMAIN Behind = DOMAIN Declared

MainCall(file) == [fn |-> None, file |-> file]

\* The call as it runs: an include opens its file.
Made(c) == IF c.fn \in Include THEN [c EXCEPT !.file = c.opens] ELSE c

-----------------------------------------------------------------------------
(* The lists. A chain is kept innermost function first, and indexed by it. *)

IsRet(r)  == r.ret # {} \/ r.ret_type # {}
\* Slip: a chain indexed by its first function, the outermost.
KeyOuter(r) == IF r.chain # <<>> THEN Last(r.chain) ELSE r.function
Key(r)    == IF r.chain # <<>> THEN r.chain[1] ELSE r.function

\* The rules of a list: each goes behind the ones before it (sp_list_insert).
Indices(S, n) ==
  LET Upto[i \in 0..n] ==
        IF i = 0 THEN <<>> ELSE IF i \in S THEN Append(Upto[i - 1], i) ELSE Upto[i - 1]
  IN  Upto[n]

Named(rules, f, onRet) ==
  Indices({i \in 1..Len(rules) : /\ rules[i].r_function = {} /\ Key(rules[i]) = f
                                 /\ IsRet(rules[i]) = onRet}, Len(rules))
Regexps(rules, onRet) ==
  Indices({i \in 1..Len(rules) : rules[i].r_function # {} /\ IsRet(rules[i]) = onRet}, Len(rules))

\* A function with a named rule is held against its named rules only, and so
\* is an include. A construct returns nothing to test.
RuleList(rules, f, onRet) ==
  CASE onRet /\ f \in Construct -> <<>>
    [] Named(rules, f, onRet) = <<>> /\ f \notin Include -> Regexps(rules, onRet)
    [] OTHER -> Named(rules, f, onRet)

\* Functions that are hooked call the walk themselves (check_disabled_function);
\* for the others sp_execute_handler does.
Hooked(rules, f) ==
  /\ f \in Native
  /\ \/ \E onRet \in BOOLEAN : Named(rules, f, onRet) # <<>>
     \/ \E i \in 1..Len(rules) : f \in rules[i].r_function

\* Whether a call made now finds code of the script below it that stands at an
\* instruction other than a call: PHP makes it on its own, for a magic method,
\* a class to load, an object to destroy or an error to handle. Versions of PHP
\* that put an empty frame between the two hide it. At the return of a function
\* its caller is the code below again.
Mid(frame) ==
  CASE frame.call.fn \in Native -> {FALSE}
    [] frame.stage = "ret" -> {frame.mid}
    [] OTHER -> BOOLEAN

\* The switch of sp_execute_handler on the opcode of the caller: such a call
\* is not held against the rules unless the function is hooked; its return is.
Walks(rules, c, mid) == c.fn \in Construct \/ Hooked(rules, c.fn) \/ ~mid

-----------------------------------------------------------------------------
(* The filters. A construct is tested from the frame below. Files have     *)
(* frames without a name, a construct that opens none has no frame.        *)

HasName(c) == c.fn \in Native \cup User
NoFrame(c) == c.fn \in Construct /\ c.file = None

\* Slip: the list is taken for exhausted one function too early.
ChainMatchesShort(chain, trace) ==
  LET Rest[k \in 0..Len(trace)] ==
        IF k = 0 THEN {}
        ELSE LET c == trace[k] IN
             {j \in 1..Len(chain) + 1 :
                \/ j >= Len(chain)
                \/ /\ j <= Len(chain) /\ HasName(c)
                   /\ (IF c.fn = chain[j] THEN j + 1 ELSE j) \in Rest[k - 1]
                \/ NoFrame(c) /\ j \in Rest[k - 1]}
  IN  1 \in Rest[Len(trace)]

\* A chain matches when its functions are met in this order on the way down
\* the stack; the way ends at the first frame without a function name. Rest[k]
\* is where in the chain the walk may be at frame k for the functions from
\* there on to be met.
ChainMatches(chain, trace) ==
  LET Rest[k \in 0..Len(trace)] ==
        IF k = 0 THEN {}
        ELSE LET c == trace[k] IN
             {j \in 1..Len(chain) + 1 :
                \/ j > Len(chain)
                \/ /\ j <= Len(chain) /\ HasName(c)
                   /\ (IF c.fn = chain[j] THEN j + 1 ELSE j) \in Rest[k - 1]
                \/ NoFrame(c) /\ j \in Rest[k - 1]}
  IN  1 \in Rest[Len(trace)]

Judged(trace) == trace[Len(trace)]

FunctionMatches(r, trace) ==
  IF r.chain # <<>> THEN ChainMatches(r.chain, trace)
  ELSE r.r_function = {} \/ Judged(trace).fn \in r.r_function

UserFrames(trace)  == {k \in 1..Len(trace) : trace[k].file # None}
Innermost(S)       == CHOOSE k \in S : \A j \in S : j <= k
CurrentFile(trace) == trace[Innermost(UserFrames(trace))].file

\* The file being executed, or the one the frame of the call was called from.
FileMatches(r, trace) ==
  LET below  == IF Judged(trace).fn \in Construct THEN 2 ELSE 1
      caller == SubSeq(trace, 1, Len(trace) - below) IN
  \/ r.files = {} \/ CurrentFile(trace) \in r.files
  \/ UserFrames(caller) # {} /\ CurrentFile(caller) \in r.files

ClientMatches(r, client) == r.cidr = {} \/ client \in r.cidr

\* The line being executed: the first one of a function of the script, and
\* the line of the caller for what has no code.
LineMatches(r, c) == r.line = 0 \/ r.line = c.line

ValueMatches(r, v) == r.values = {} \/ v \in r.values

\* sp_match_array_key, sp_match_array_value, sp_match_value. The values of
\* nested arrays are all leaves of the outer one.
ArgMatches(r, a) ==
  CASE a.type = "array" /\ r.keys # {} -> a.keys \cap r.keys # {}
    [] a.type = "array" /\ r.keys = {} -> \E v \in a.leaves : ValueMatches(r, v)
    [] OTHER -> ValueMatches(r, a.text)

\* The argument a rule is about: by position, by name, or the last one whose
\* name the regular expression accepts; that loop runs over the arguments
\* given, and reads names behind the ones declared.
ArgOf(r, c) ==
  LET given    == 1..Len(c.args)
      declared == given \cap (1..Len(Declared[c.fn]))
      name(i)  == IF i \in declared THEN Declared[c.fn][i] ELSE Behind[c.fn]
      accepted == {i \in given : name(i) \in r.r_param}
  IN  CASE r.pos > -1 -> {r.pos + 1} \cap given
        [] r.pos = -1 /\ r.param # None -> {i \in declared : name(i) = r.param}
        [] OTHER -> {i \in accepted : \A j \in accepted : j <= i}

FiltersArgs(r) == r.pos # -1 \/ r.param # None \/ r.r_param # {} \/ (r.values # {} /\ r.var = {})

ParamMatches(r, c) ==
  IF c.fn \in Construct THEN ValueMatches(r, c.operand)
  ELSE /\ r.pos <= Len(Declared[c.fn])
       /\ \E i \in ArgOf(r, c) :
            LET a == c.args[i] IN
            /\ r.type # None => r.type = a.type
            /\ r.type = None \/ r.keys \cup r.values # {} => ArgMatches(r, a)

\* A variadic function is only warned about: the rule counts as matching.
ArgsMatch(r, c) == ~FiltersArgs(r) \/ c.fn \in Variadic \/ ParamMatches(r, c)

\* is_local_var_matching, on the variable the filter .var() finds.
VarMatches(r, c) == r.var = {} \/ c.vars \cap r.var # {}

\* strncmp over the first SHA256_SIZE of the 64 digits: half of the hash.
HashMatches(r, file) == r.hash = {} \/ \E h \in r.hash : Sha[file][1] = h[1]

\* should_disable: the filters it tests before it looks at the arguments.
Concerns(r, trace, client) ==
  /\ FunctionMatches(r, trace) /\ LineMatches(r, Judged(trace)) /\ FileMatches(r, trace)
  /\ ClientMatches(r, client) /\ VarMatches(r, Judged(trace)) /\ HashMatches(r, CurrentFile(trace))

CallMatches(r, trace, client) == Concerns(r, trace, client) /\ ArgsMatch(r, Judged(trace))

\* should_drop_on_ret: no filter on the line, the client or the variables. The
\* function has left: the file being executed is the one that called it.
RetMatches(r, trace, ret) ==
  LET file == CurrentFile(Front(trace)) IN
  /\ FunctionMatches(r, trace) /\ HashMatches(r, file)
  /\ r.files = {} \/ file \in r.files
  /\ ret.type \in r.ret_type \/ ret.text \in r.ret

\* should_disable reads the description of the first parameter to see whether
\* the function is variadic: a user function without parameters has none.
ReadsNoArgInfo(r, trace, client) ==
  LET f == Judged(trace).fn IN
  /\ Concerns(r, trace, client) /\ FiltersArgs(r)
  /\ f \in User /\ Declared[f] = <<>> /\ f \notin Variadic

\* is_param_matching reads the names of more parameters than are declared.
ReadsBehind(r, trace, client) ==
  LET c == Judged(trace) IN
  /\ c.fn \notin Construct \cup Variadic /\ Concerns(r, trace, client)
  /\ r.pos = -1 /\ r.param = None /\ r.r_param # {} /\ Len(c.args) > Len(Declared[c.fn])
=============================================================================
