---------------------------- MODULE SpTablesProofs ----------------------------
(* Proofs about the three components that put something of theirs into a   *)
(* table or a chain of PHP whenever a configuration is applied.            *)
(* SpWrapper: in every request the table scripts work with is within the   *)
(* whitelist and its "php" the one that filters, for any number of         *)
(* wrappers, configurations and requests, though RINIT compares counts.    *)
(* SpIni: the check is before the handlers the rules in force ask for, and *)
(* no other, over any number of configurations, and what is read-only      *)
(* keeps its value, for any settings, values and rules.                    *)
(* SpUpload: no file slips through, one program runs at a time and the     *)
(* chain of callbacks ends, for any number of files, any exit codes and    *)
(* any configurations.                                                     *)
EXTENDS SpWrapper, SpIni, SpUpload, FiniteSetTheorems, TLAPS

Entries == {"native", "sp", "user"}

(* What the domain of a table is enough for.                               *)
LEMMA TablesAre ==
  ASSUME NEW t
  PROVE  t \in Tables <=> \E S \in SUBSET Names : t \in [S -> Entries]
BY DEF Tables, Entries

LEMMA TableSize ==
  ASSUME NEW t \in Tables
  PROVE  /\ DOMAIN t \subseteq Names /\ t \in [DOMAIN t -> Entries]
         /\ Cardinality(DOMAIN t) \in 0..Cardinality(Names)
         /\ Cardinality(DOMAIN t) = 0 => DOMAIN t = {}
<1>1. DOMAIN t \subseteq Names /\ t \in [DOMAIN t -> Entries]  BY DEF Tables, Entries
<1>2. /\ IsFiniteSet(DOMAIN t)
      /\ Cardinality(DOMAIN t) <= Cardinality(Names)  BY <1>1, NamesAreFinite, FS_Subset
<1>3. Cardinality(DOMAIN t) \in Nat /\ Cardinality(Names) \in Nat
  BY <1>2, NamesAreFinite, FS_CardinalityType
<1>4. Cardinality(DOMAIN t) = 0 => DOMAIN t = {}  BY <1>2, FS_EmptySet
<1> QED  BY <1>1, <1>2, <1>3, <1>4

LEMMA NoneIsACount == 0 \in 0..Cardinality(Names)
BY NamesAreFinite, FS_CardinalityType

(* What the actions do to a table.                                         *)
LEMMA KeepTable ==
  ASSUME NEW t \in Tables, NEW S
  PROVE  /\ Keep(t, S) \in Tables /\ DOMAIN Keep(t, S) = DOMAIN t \cap S
         /\ \A w \in DOMAIN t \cap S : Keep(t, S)[w] = t[w]
<1>1. DOMAIN t \subseteq Names /\ t \in [DOMAIN t -> Entries]  BY TableSize
<1>2. Keep(t, S) \in [DOMAIN t \cap S -> Entries]  BY <1>1 DEF Keep
<1> QED  BY <1>1, <1>2, TablesAre DEF Keep

LEMMA AddTable ==
  ASSUME NEW t \in Tables, NEW w \in Names, NEW v \in Entries
  PROVE  /\ With(t, w, v) \in Tables /\ DOMAIN With(t, w, v) = DOMAIN t \cup {w}
         /\ With(t, w, v)[w] = v
         /\ \A x \in DOMAIN t : x # w => With(t, w, v)[x] = t[x]
<1>1. DOMAIN t \subseteq Names /\ t \in [DOMAIN t -> Entries]  BY TableSize
<1>2. With(t, w, v) \in [DOMAIN t \cup {w} -> Entries]  BY <1>1 DEF With
<1> QED  BY <1>1, <1>2, TablesAre DEF With

LEMMA RegisterTable ==
  ASSUME NEW t \in Tables, NEW c
  PROVE  /\ Reregistered(c, t) \in Tables /\ DOMAIN Reregistered(c, t) = DOMAIN t
         /\ Filtered(c) /\ php \in DOMAIN t => Reregistered(c, t)[php] = "sp"
         /\ t # Reregistered(c, t) => Reregistered(c, t)[php] = "sp"
         /\ \A w \in DOMAIN t : Reregistered(c, t)[w] \in {t[w], "sp"}
<1>1. DOMAIN t \subseteq Names /\ t \in [DOMAIN t -> Entries]  BY TableSize
<1>2. Reregistered(c, t) \in [DOMAIN t -> Entries]  BY <1>1 DEF Reregistered, Entries
<1> QED  BY <1>1, <1>2, TablesAre DEF Reregistered, Filtered
-----------------------------------------------------------------------------
(* The inductive invariant. Counts are enough because 0, which a load      *)
(* leaves, is the count of an empty table only, and because from the first *)
(* request on nothing is added to the table of the process.                *)

FollowsConfig == /\ hooked = cfg.enabled /\ cfg.enabled \in BOOLEAN
                 /\ phase = "start" => num = 0 /\ Builtin \subseteq DOMAIN table
PhpInTable  == cfg.enabled /\ Filtered(cfg) /\ php \in DOMAIN table => table[php] = "sp"
TableListed == Enforced => DOMAIN table \subseteq cfg.list
WrapperInv  == /\ TypeOK /\ FollowsConfig /\ CountIsEnough
               /\ PhpInTable /\ TableListed /\ OnlyWhitelisted /\ PhpIsFiltered

LEMMA Types ==
  ASSUME TypeOK
  PROVE  /\ table \in Tables /\ Current \in Tables
         /\ phase # "request" => own = None /\ opened = None
BY DEF TypeOK, Current

LEMMA InitInv == Init => WrapperInv
<1> SUFFICES ASSUME Init PROVE WrapperInv  OBVIOUS
<1>1. table \in Tables  BY TablesAre DEF Init, Names, Entries
<1>2. 0 \in 0..Cardinality(Names)  BY NoneIsACount
<1>3. TypeOK  BY <1>1, <1>2 DEF Init, TypeOK
<1>4. FollowsConfig  BY DEF Init, FollowsConfig, NoConfig
<1> QED  BY <1>3, <1>4 DEF Init, WrapperInv, CountIsEnough, PhpInTable, TableListed, OnlyWhitelisted,
            PhpIsFiltered, Enforced, NoConfig

(* A load: a table of the same wrappers, and a count that fits none.       *)
LEMMA LoadInv ==
  ASSUME WrapperInv, NEW c \in Configs, Load(c)
  PROVE  WrapperInv'
<1>1. /\ table \in Tables /\ TypeOK /\ FollowsConfig  BY Types DEF WrapperInv
<1>2. table' \in Tables /\ DOMAIN table' = DOMAIN table
  BY <1>1, RegisterTable DEF Load
<1>3. num' = 0 /\ 0 \in 0..Cardinality(Names)  BY NoneIsACount DEF Load
<1>4. TypeOK'  BY <1>1, <1>2, <1>3, ConfigsAreSwitched DEF TypeOK, Load
<1>5. FollowsConfig'  BY <1>1, <1>2, ConfigsAreSwitched DEF FollowsConfig, Load
<1>6. CountIsEnough'  BY <1>2, <1>3, TableSize DEF CountIsEnough
<1>7. PhpInTable'  BY <1>1, <1>2, RegisterTable DEF PhpInTable, Load, Filtered
<1>8. ~Enforced'  BY DEF Enforced, Load
<1> QED  BY <1>4, <1>5, <1>6, <1>7, <1>8 DEF WrapperInv, TableListed, OnlyWhitelisted, PhpIsFiltered

LEMMA ExtensionInv ==
  ASSUME WrapperInv, NEW w \in Late, Extension(w)
  PROVE  WrapperInv'
<1>1. /\ table \in Tables /\ TypeOK /\ FollowsConfig /\ PhpInTable  BY Types DEF WrapperInv
<1>2. /\ table' \in Tables /\ DOMAIN table' = DOMAIN table \cup {w}
      /\ \A x \in DOMAIN table : x # w => table'[x] = table[x]
  <2>1. w \in Names /\ "native" \in Entries  BY DEF Names, Entries
  <2>2. table' = With(table, w, "native")  BY DEF Extension
  <2> QED  BY <1>1, <2>1, <2>2, AddTable
<1>3. TypeOK'  BY <1>1, <1>2 DEF TypeOK, Extension
<1>4. FollowsConfig'  BY <1>1, <1>2 DEF FollowsConfig, Extension
<1>5. PhpInTable'
  BY <1>1, <1>2, PhpIsBuiltin DEF PhpInTable, Extension, Filtered, FollowsConfig
<1>6. ~Enforced' /\ CountIsEnough'  BY DEF Enforced, CountIsEnough, Extension
<1> QED  BY <1>3, <1>4, <1>5, <1>6 DEF WrapperInv, TableListed, OnlyWhitelisted, PhpIsFiltered

LEMMA StartedInv == ASSUME WrapperInv, Started PROVE WrapperInv'
<1>1. /\ table \in Tables /\ TypeOK /\ FollowsConfig /\ PhpInTable  BY Types DEF WrapperInv
<1>2. CountIsEnough'  BY <1>1, TableSize DEF CountIsEnough, Started, FollowsConfig
<1> QED
  BY <1>1, <1>2 DEF WrapperInv, TypeOK, FollowsConfig, PhpInTable, Filtered, TableListed, OnlyWhitelisted,
     PhpIsFiltered, Enforced, Started

(* RINIT: either it filters, or the count it left says that it has.        *)
LEMMA BeginInv == ASSUME WrapperInv, Begin PROVE WrapperInv'
<1>1. /\ table \in Tables /\ TypeOK /\ FollowsConfig /\ PhpInTable /\ CountIsEnough
      /\ own = None /\ opened = None
  BY Types DEF WrapperInv, Begin
<1> DEFINE kept == Keep(table, cfg.list)
<1>2. /\ kept \in Tables /\ DOMAIN kept = DOMAIN table \cap cfg.list
      /\ \A w \in DOMAIN table \cap cfg.list : kept[w] = table[w]
  BY <1>1, KeepTable
<1>3. \/ table' = kept
      \/ /\ table' = table
         /\ cfg.enabled => num = Cardinality(DOMAIN table)
  BY DEF Begin
<1>4. /\ table' \in Tables
      /\ DOMAIN table' \subseteq DOMAIN table
      /\ \A w \in DOMAIN table' : table'[w] = table[w]
  <2> HIDE DEF kept
  <2> QED  BY <1>1, <1>2, <1>3
<1>5. cfg.enabled => DOMAIN table' \subseteq cfg.list
  <2>1. cfg.enabled /\ num = Cardinality(DOMAIN table) => DOMAIN table \subseteq cfg.list
    BY <1>1 DEF CountIsEnough, Begin
  <2> HIDE DEF kept
  <2> QED  BY <1>2, <1>3, <2>1
<1>6. num' \in 0..Cardinality(Names)  BY <1>1, <1>4, TableSize DEF Begin, TypeOK
<1>7. TypeOK'  BY <1>1, <1>4, <1>6 DEF TypeOK, Begin
<1>8. FollowsConfig' /\ PhpInTable'
  BY <1>1, <1>4 DEF FollowsConfig, PhpInTable, Filtered, Begin
<1>9. CountIsEnough' /\ TableListed'  BY <1>5 DEF CountIsEnough, TableListed, Enforced, Begin
<1>10. Current' = table' /\ opened' = None  BY <1>1 DEF Current, Begin
<1> QED
  BY <1>5, <1>7, <1>8, <1>9, <1>10
  DEF WrapperInv, OnlyWhitelisted, PhpIsFiltered, Enforced, PhpInTable, Filtered, Begin

LEMMA EndInv == ASSUME WrapperInv, End PROVE WrapperInv'
BY DEF WrapperInv, End, TypeOK, FollowsConfig, CountIsEnough, PhpInTable, Filtered, TableListed,
   OnlyWhitelisted, PhpIsFiltered, Enforced

(* What a script does to the wrappers: the table it sees gets an entry     *)
(* from the whitelist, or loses one.                                       *)
LEMMA ScriptInv ==
  ASSUME WrapperInv, phase = "request", UNCHANGED <<cfg, num, hooked, phase, since, opened>>,
         table' \in Tables, DOMAIN table' = DOMAIN table, own' \in Tables \cup {None}, PhpInTable',
         Enforced => /\ DOMAIN Current' \subseteq cfg.list
                     /\ Filtered(cfg) /\ php \in DOMAIN Current' => Current'[php] = "sp"
  PROVE  WrapperInv'
<1>1. TypeOK'  BY DEF TypeOK, WrapperInv
<1>2. FollowsConfig' /\ CountIsEnough' /\ TableListed'
  BY DEF WrapperInv, FollowsConfig, CountIsEnough, TableListed, Enforced
<1>3. OnlyWhitelisted' /\ PhpIsFiltered'
  BY DEF WrapperInv, OnlyWhitelisted, PhpIsFiltered, Enforced, Filtered
<1> QED  BY <1>1, <1>2, <1>3 DEF WrapperInv

LEMMA RegisterInv ==
  ASSUME WrapperInv, NEW w \in Names, Register(w)
  PROVE  WrapperInv'
<1>1. /\ Current \in Tables /\ table \in Tables /\ FollowsConfig /\ OnlyWhitelisted
      /\ PhpIsFiltered /\ TypeOK /\ PhpInTable
  BY Types DEF WrapperInv
<1>2. /\ own' \in Tables /\ DOMAIN own' = DOMAIN Current \cup {w}
      /\ \A x \in DOMAIN Current : x # w => own'[x] = Current[x]
  <2>1. "user" \in Entries  BY DEF Entries
  <2>2. own' = With(Current, w, "user")  BY DEF Register
  <2> QED  BY <1>1, <2>1, <2>2, AddTable
<1>3. own' # None \/ Current' = table  BY DEF Current, Register
<1>4. Enforced => w \in cfg.list /\ ~(w = php /\ Filtered(cfg))
  BY <1>1 DEF Enforced, Register, Passes, FollowsConfig
<1>5. Enforced => /\ DOMAIN Current' \subseteq cfg.list
                  /\ Filtered(cfg) /\ php \in DOMAIN Current' => Current'[php] = "sp"
  <2> SUFFICES ASSUME Enforced
               PROVE  /\ DOMAIN Current' \subseteq cfg.list
                      /\ Filtered(cfg) /\ php \in DOMAIN Current' => Current'[php] = "sp"  OBVIOUS
  <2>1. CASE own' = None
    BY <2>1, <1>1, <1>2 DEF Current, Register, PhpInTable, WrapperInv, TableListed, Enforced
  <2>2. CASE own' # None
    <3>1. Current' = own'  BY <2>2 DEF Current
    <3>2. DOMAIN Current \subseteq cfg.list  BY <1>1 DEF OnlyWhitelisted
    <3>3. Filtered(cfg) /\ php \in DOMAIN Current => Current[php] = "sp"  BY <1>1 DEF PhpIsFiltered
    <3> QED  BY <3>1, <3>2, <3>3, <1>2, <1>4
  <2> QED  BY <2>1, <2>2
<1>6. table' = table /\ PhpInTable'  BY <1>1 DEF Register, Running, PhpInTable, Filtered
<1> QED  BY <1>1, <1>2, <1>5, <1>6, ScriptInv DEF Register, Running

LEMMA UnregisterInv ==
  ASSUME WrapperInv, NEW w \in Names, Unregister(w)
  PROVE  WrapperInv'
<1>1. /\ Current \in Tables /\ table \in Tables /\ OnlyWhitelisted /\ PhpIsFiltered /\ PhpInTable
  BY Types DEF WrapperInv
<1>2. /\ own' \in Tables /\ DOMAIN own' \subseteq DOMAIN Current
      /\ \A x \in DOMAIN own' : own'[x] = Current[x]
  <2> DEFINE t == Current
  <2>1. t \in Tables /\ own' = Keep(t, Names \ {w})  BY <1>1 DEF Unregister
  <2> HIDE DEF t
  <2> DEFINE S == Names \ {w}
  <2>2. own' = Keep(t, S)  BY <2>1
  <2> HIDE DEF S
  <2>3. /\ Keep(t, S) \in Tables /\ DOMAIN Keep(t, S) = DOMAIN t \cap S
        /\ \A x \in DOMAIN t \cap S : Keep(t, S)[x] = t[x]
    BY <2>1, KeepTable
  <2> QED  BY <2>2, <2>3 DEF t
<1>3. Enforced => /\ DOMAIN Current' \subseteq cfg.list
                  /\ Filtered(cfg) /\ php \in DOMAIN Current' => Current'[php] = "sp"
  <2> SUFFICES ASSUME Enforced
               PROVE  /\ DOMAIN Current' \subseteq cfg.list
                      /\ Filtered(cfg) /\ php \in DOMAIN Current' => Current'[php] = "sp"  OBVIOUS
  <2>1. CASE own' = None
    BY <2>1, <1>1 DEF Current, Unregister, PhpInTable, WrapperInv, TableListed, Enforced
  <2>2. CASE own' # None
    <3>1. Current' = own'  BY <2>2 DEF Current
    <3>2. DOMAIN Current \subseteq cfg.list  BY <1>1 DEF OnlyWhitelisted
    <3>3. Filtered(cfg) /\ php \in DOMAIN Current => Current[php] = "sp"  BY <1>1 DEF PhpIsFiltered
    <3> QED  BY <3>1, <3>2, <3>3, <1>2
  <2> QED  BY <2>1, <2>2
<1>4. table' = table /\ PhpInTable'  BY <1>1 DEF Unregister, Running, PhpInTable, Filtered
<1> QED  BY <1>1, <1>2, <1>3, <1>4, ScriptInv DEF Unregister, Running

(* What is restored comes from the table of the process, which is listed,  *)
(* and whose "php" filters.                                                *)
LEMMA RestoreInv ==
  ASSUME WrapperInv, NEW w \in Names, Restore(w)
  PROVE  WrapperInv'
<1>1. /\ Current \in Tables /\ table \in Tables /\ OnlyWhitelisted /\ PhpIsFiltered /\ PhpInTable
      /\ TableListed /\ TypeOK
  BY Types DEF WrapperInv
<1>2. /\ table' \in Tables /\ DOMAIN table' = DOMAIN table
      /\ \A x \in DOMAIN table : table'[x] \in {table[x], "sp"}
  BY <1>1, RegisterTable DEF Restore
<1>3. PhpInTable'  BY <1>1, <1>2 DEF PhpInTable, Restore, Running, Filtered
<1>4. own' = own \/ (w \in DOMAIN table /\ own' = With(Current, w, table[w]))  BY DEF Restore
<1>5. w \in DOMAIN table =>
        /\ With(Current, w, table[w]) \in Tables
        /\ DOMAIN With(Current, w, table[w]) = DOMAIN Current \cup {w}
        /\ With(Current, w, table[w])[w] = table[w]
        /\ \A x \in DOMAIN Current : x # w => With(Current, w, table[w])[x] = Current[x]
  <2> SUFFICES ASSUME w \in DOMAIN table
               PROVE  /\ With(Current, w, table[w]) \in Tables
                      /\ DOMAIN With(Current, w, table[w]) = DOMAIN Current \cup {w}
                      /\ With(Current, w, table[w])[w] = table[w]
                      /\ \A x \in DOMAIN Current : x # w => With(Current, w, table[w])[x] = Current[x]
    OBVIOUS
  <2>1. table[w] \in Entries  BY <1>1, TableSize
  <2> QED  BY <1>1, <2>1, AddTable
<1>6. own' \in Tables \cup {None}  BY <1>1, <1>4, <1>5 DEF TypeOK
<1>7. Enforced => /\ DOMAIN Current' \subseteq cfg.list
                  /\ Filtered(cfg) /\ php \in DOMAIN Current' => Current'[php] = "sp"
  <2> SUFFICES ASSUME Enforced
               PROVE  /\ DOMAIN Current' \subseteq cfg.list
                      /\ Filtered(cfg) /\ php \in DOMAIN Current' => Current'[php] = "sp"  OBVIOUS
  <2>1. DOMAIN table \subseteq cfg.list  BY <1>1 DEF TableListed
  <2>2. DOMAIN Current \subseteq cfg.list  BY <1>1 DEF OnlyWhitelisted
  <2>3. Filtered(cfg) /\ php \in DOMAIN Current => Current[php] = "sp"  BY <1>1 DEF PhpIsFiltered
  <2>4. Filtered(cfg) /\ php \in DOMAIN table => table[php] = "sp"  BY <1>1 DEF PhpInTable, Enforced
  <2>5. CASE own' = None
    <3>1. Current' = table'  BY <2>5 DEF Current
    <3> QED  BY <3>1, <1>2, <2>1, <2>4
  <2>6. CASE own' # None /\ own' = own
    BY <2>6, <2>2, <2>3 DEF Current
  <2>7. CASE own' # None /\ w \in DOMAIN table /\ own' = With(Current, w, table[w])
    <3>1. Current' = own'  BY <2>7 DEF Current
    <3> QED  BY <3>1, <2>7, <1>5, <2>1, <2>2, <2>3, <2>4
  <2> QED  BY <1>4, <2>5, <2>6, <2>7
<1> QED  BY <1>2, <1>3, <1>6, <1>7, ScriptInv DEF Restore, Running

LEMMA OpenInv ==
  ASSUME WrapperInv, NEW k \in Kinds, Open(k)
  PROVE  WrapperInv'
<1>1. TypeOK'  BY DEF WrapperInv, TypeOK, Open, Tables
<1>2. PhpIsFiltered'  BY DEF WrapperInv, PhpIsFiltered, Open, Allows, Enforced, Filtered, Current
<1> QED
  BY <1>1, <1>2 DEF WrapperInv, Open, FollowsConfig, CountIsEnough, PhpInTable, Filtered, TableListed,
     OnlyWhitelisted, Enforced, Current

LEMMA NextInv == WrapperInv /\ [Next]_vars => WrapperInv'
<1> SUFFICES ASSUME WrapperInv, [Next]_vars PROVE WrapperInv'  OBVIOUS
<1>1. ASSUME UNCHANGED vars PROVE WrapperInv'
  BY <1>1 DEF vars, WrapperInv, TypeOK, FollowsConfig, CountIsEnough, PhpInTable, Filtered, TableListed,
     OnlyWhitelisted, PhpIsFiltered, Enforced, Current
<1> QED
  BY <1>1, LoadInv, ExtensionInv, StartedInv, BeginInv, EndInv, RegisterInv, UnregisterInv, RestoreInv,
     OpenInv DEF Next

\* What holds of every state of SpWrapper, and makes the properties below
\* inductive: hooking follows the configuration (hook_stream_wrappers), and
\* the table of the process is listed once a request has begun.
THEOREM WrapperInvariant == Spec => []WrapperInv
<1> QED  BY InitInv, NextInv, PTL DEF Spec

\* The variables have the values their comments give them.
THEOREM TypeCorrect == Spec => []TypeOK
<1>1. WrapperInv => TypeOK  BY DEF WrapperInv
<1> QED  BY <1>1, WrapperInvariant, PTL

\* A script reaches wrappers of the whitelist only (sp_disable_wrapper,
\* sp_stream_wrapper_register, sp_stream_wrapper_restore).
THEOREM Whitelisted == Spec => []OnlyWhitelisted
<1>1. WrapperInv => OnlyWhitelisted  BY DEF WrapperInv
<1> QED  BY <1>1, WrapperInvariant, PTL

\* A script opens only the kinds of php streams that are listed, and "php" is
\* the wrapper that knows them (sp_reregister_php_wrapper).
THEOREM PhpFiltered == Spec => []PhpIsFiltered
<1>1. WrapperInv => PhpIsFiltered  BY DEF WrapperInv
<1> QED  BY <1>1, WrapperInvariant, PTL

\* The number of wrappers RINIT compares is enough to know that the table was
\* filtered under the configuration in force (PHP_RINIT_FUNCTION).
THEOREM CountSuffices == Spec => []CountIsEnough
<1>1. WrapperInv => CountIsEnough  BY DEF WrapperInv
<1> QED  BY <1>1, WrapperInvariant, PTL

\* No wrapper comes into the table of the process once it has started.
THEOREM NeverBack == Spec => FilteredForGood
<1>1. WrapperInv /\ [Next]_vars => [phase # "start" => DOMAIN table' \subseteq DOMAIN table]_vars
  <2> SUFFICES ASSUME WrapperInv, Next, phase # "start"
               PROVE  DOMAIN table' \subseteq DOMAIN table  BY DEF vars
  <2>1. table \in Tables  BY Types DEF WrapperInv
  <2>2. ASSUME NEW c \in Configs, Load(c) PROVE DOMAIN table' \subseteq DOMAIN table
    BY <2>1, <2>2, RegisterTable DEF Load
  <2>3. ASSUME Begin PROVE DOMAIN table' \subseteq DOMAIN table
    <3>1. DOMAIN Keep(table, cfg.list) \subseteq DOMAIN table  BY DEF Keep
    <3> QED  BY <2>3, <3>1 DEF Begin
  <2>4. ASSUME NEW w \in Names, Restore(w) PROVE DOMAIN table' \subseteq DOMAIN table
    BY <2>1, <2>4, RegisterTable DEF Restore
  <2> QED  BY <2>2, <2>3, <2>4 DEF Next, Extension, Started, End, Register, Unregister, Open
<1> QED  BY <1>1, WrapperInvariant, PTL DEF Spec, FilteredForGood

-----------------------------------------------------------------------------
(* SpIni. The inductive invariant: nothing is hooked before the first      *)
(* load, and the value PHP goes back to is one the handler of the setting  *)
(* takes.                                                                  *)
ValuesTaken(f) == \A s \in Present : Takes(Handler(s), s, f[s])
NoneBefore     == valid = "none" => ~inicfg.enable
ValuesFit      == ValuesTaken(value) /\ ValuesTaken(orig)
IniInv         == /\ IniTypeOK /\ CheckFollowsRules /\ NoneBefore /\ ValuesFit /\ ModuleFollowsValue

(* The handler of a setting, as sp_unhook_ini leaves it.                   *)
OwnHandlers == [s \in Present |-> Handler(s)]

LEMMA HandlerIsOther ==
  ASSUME NEW s
  PROVE  Handler(s) \in {"native", Nothing} /\ Handler(s) # "sp"
BY ConstantsFit DEF NothingIsOther, Handler

LEMMA UnhookedIsOwn == ASSUME IniInv PROVE Unhooked = OwnHandlers
<1>1. ASSUME NEW s \in Present, inicfg.enable
      PROVE  (IF s \in DOMAIN inicfg.entries /\ on[s] = "sp" THEN saved[s] ELSE on[s]) = Handler(s)
  <2>1. CASE s \in Hooks(inicfg)  BY <2>1, <1>1 DEF IniInv, CheckFollowsRules, Hooks
  <2>2. CASE s \notin Hooks(inicfg)
    BY <2>2, <1>1, HandlerIsOther DEF IniInv, CheckFollowsRules
  <2> QED  BY <2>1, <2>2
<1>2. CASE valid # "none" /\ inicfg.enable  BY <1>1, <1>2 DEF Unhooked, OwnHandlers
<1>3. CASE ~(valid # "none" /\ inicfg.enable)
  <2>1. ~inicfg.enable  BY <1>3 DEF IniInv, NoneBefore
  <2>2. \A s \in Present : on[s] = Handler(s)  BY <2>1 DEF IniInv, CheckFollowsRules
  <2>3. on \in [Present -> {"native", "sp", Nothing}]  BY DEF IniInv, IniTypeOK
  <2> QED  BY <1>3, <2>2, <2>3 DEF Unhooked, OwnHandlers
<1> QED  BY <1>2, <1>3

(* Whatever is before it, the handler behind is the setting's own.         *)
LEMMA BehindIsHandler == ASSUME IniInv, NEW s \in Present PROVE Behind(s) = Handler(s)
BY HandlerIsOther DEF Behind, IniInv, CheckFollowsRules

LEMMA IniInitInv == IniInit => IniInv
<1> SUFFICES ASSUME IniInit PROVE IniInv  OBVIOUS
<1>1. \A s \in Present : Handler(s) \in {"native", Nothing}  BY HandlerIsOther
<1>2. IniTypeOK  BY <1>1, ConstantsFit DEF Shapes, IniInit, IniTypeOK, Unprotected
<1>3. CheckFollowsRules /\ NoneBefore  BY DEF IniInit, CheckFollowsRules, NoneBefore, Unprotected
<1>4. \A s \in Present : Takes(Handler(s), s, PhpIni[s])
  BY ConstantsFit DEF Shapes, NothingIsOther, Takes, Handler
<1>5. ValuesFit /\ ModuleFollowsValue  BY <1>4 DEF IniInit, ValuesFit, ValuesTaken, ModuleFollowsValue
<1> QED  BY <1>2, <1>3, <1>5 DEF IniInv

(* A load, from what unhooking has left: Own.                              *)
LEMMA IniApplyInv == ASSUME IniInv, NEW c \in IniConfigs, Apply(c) PROVE IniInv'
<1> DEFINE put == Put(c, Unhooked)
           New(f) == [s \in Present |-> IF s \in put THEN c.entries[s].set ELSE f[s]]
<1>1. Unhooked = OwnHandlers  BY UnhookedIsOwn
<1>2. \A s \in put : /\ s \in Present /\ Takes(Handler(s), s, c.entries[s].set)
                     /\ c.entries[s].set \in Values
  BY <1>1, ConstantsFit DEF RulesSetValues, Put, Sets, OwnHandlers
<1>3. /\ value' = New(value)
      /\ module' = [s \in Present |-> IF s \in put THEN c.entries[s].set ELSE module[s]]
      /\ untold' = untold \ put
      /\ orig' = [s \in Present |-> IF s \in changed THEN orig[s] ELSE New(value)[s]]
      /\ valid' = "valid" /\ UNCHANGED <<changed, stage, last>>
  <2>1. {s \in put : Takes(Unhooked[s], s, c.entries[s].set)} = put  BY <1>1, <1>2 DEF OwnHandlers
  <2> QED  BY <2>1 DEF Apply
<1>4. Install(c, OwnHandlers)  BY <1>1 DEF Apply
<1>5. IniTypeOK /\ ValuesFit /\ ModuleFollowsValue  BY DEF IniInv
<1> HIDE DEF put
<1>6. \A s \in Present : /\ value'[s] \in Values /\ orig'[s] \in Values /\ module'[s] \in Values
                         /\ Takes(Handler(s), s, value'[s]) /\ Takes(Handler(s), s, orig'[s])
  BY <1>2, <1>3, <1>5 DEF IniTypeOK, ValuesFit, ValuesTaken
<1>7. /\ on' \in [Present -> {"native", "sp", Nothing}] /\ DOMAIN saved' = DOMAIN inicfg'.entries
      /\ \A s \in Present : on'[s] = IF c.enable /\ s \in Hooks(c) THEN "sp" ELSE Handler(s)
      /\ \A s \in DOMAIN c.entries : s \in Present /\ c.enable /\ s \in Hooks(c) => saved'[s] = Handler(s)
  BY <1>4, HandlerIsOther DEF Install, OwnHandlers
<1>8. CheckFollowsRules'  BY <1>4, <1>7 DEF CheckFollowsRules, Install, Hooks
<1>9. IniTypeOK'  BY <1>3, <1>5, <1>6, <1>7 DEF IniTypeOK
<1>10. ValuesFit' /\ NoneBefore'  BY <1>3, <1>6 DEF ValuesFit, ValuesTaken, NoneBefore
<1>11. ModuleFollowsValue'  BY <1>3, <1>5 DEF ModuleFollowsValue
<1> QED  BY <1>8, <1>9, <1>10, <1>11 DEF IniInv

LEMMA IniBreakInv == ASSUME IniInv, Break PROVE IniInv'
<1>1. on' = OwnHandlers /\ saved' = <<>> /\ inicfg' = Unprotected /\ valid' = "invalid"
      /\ UNCHANGED <<settings, stage, last>>
  BY UnhookedIsOwn DEF Break
<1>2. on' \in [Present -> {"native", "sp", Nothing}]  BY <1>1, HandlerIsOther DEF OwnHandlers
<1>3. IniTypeOK'  BY <1>1, <1>2 DEF IniInv, IniTypeOK, Unprotected, settings
<1>4. CheckFollowsRules' /\ NoneBefore'
  BY <1>1 DEF OwnHandlers, CheckFollowsRules, NoneBefore, Unprotected
<1>5. ValuesFit' /\ ModuleFollowsValue'
  BY <1>1 DEF IniInv, ValuesFit, ValuesTaken, ModuleFollowsValue, settings
<1> QED  BY <1>3, <1>4, <1>5 DEF IniInv

(* A change, by a script or back to the value before: the check is where   *)
(* it was, and a setting gets only values its handler takes.               *)
LEMMA TableUnchanged ==
  ASSUME IniInv, UNCHANGED <<valid, inicfg, handlers>>
  PROVE  CheckFollowsRules' /\ NoneBefore'
BY DEF IniInv, CheckFollowsRules, NoneBefore, handlers, Hooks

LEMMA IniBecomesInv ==
  ASSUME IniInv, NEW s \in Present, NEW v \in Values, Modifies(s, v), Becomes(s, v),
         UNCHANGED <<valid, inicfg, handlers, stage>>, changed' \subseteq Present
  PROVE  IniInv'
<1>1. Takes(Handler(s), s, v)  BY BehindIsHandler DEF Modifies
<1>2. /\ value' = [value EXCEPT ![s] = v] /\ module' = [module EXCEPT ![s] = v]
      /\ untold' = untold \ {s} /\ orig' = orig
  BY DEF Becomes
<1>3. IniTypeOK /\ ValuesFit /\ ModuleFollowsValue  BY DEF IniInv
<1>4. IniTypeOK'  BY <1>2, <1>3 DEF IniTypeOK, handlers
<1>5. ValuesFit'  BY <1>1, <1>2, <1>3 DEF ValuesFit, ValuesTaken, IniTypeOK
<1>6. ModuleFollowsValue'  BY <1>2, <1>3 DEF ModuleFollowsValue, IniTypeOK
<1> QED  BY <1>4, <1>5, <1>6, TableUnchanged DEF IniInv

LEMMA IniKeptInv ==
  ASSUME IniInv, changed' \subseteq Present,
         UNCHANGED <<valid, inicfg, handlers, value, orig, module, untold, stage>>
  PROVE  IniInv'
<1>1. IniTypeOK'  BY DEF IniInv, IniTypeOK, handlers
<1>2. ValuesFit' /\ ModuleFollowsValue'  BY DEF IniInv, ValuesFit, ValuesTaken, ModuleFollowsValue
<1> QED  BY <1>1, <1>2, TableUnchanged DEF IniInv

LEMMA IniSetInv ==
  ASSUME IniInv, NEW s \in Present, NEW v \in Values, IniSet(s, v)
  PROVE  IniInv'
<1>1. changed' \subseteq Present  BY DEF IniInv, IniTypeOK, IniSet
<1>2. CASE Modifies(s, v) /\ Becomes(s, v)  BY <1>1, <1>2, IniBecomesInv DEF IniSet
<1>3. CASE UNCHANGED <<value, orig, module, untold>>  BY <1>1, <1>3, IniKeptInv DEF IniSet
<1> QED  BY <1>2, <1>3 DEF IniSet

LEMMA IniRestoreInv ==
  ASSUME IniInv, NEW s \in Present, IniRestore(s)
  PROVE  IniInv'
<1>1. changed' \subseteq Present /\ orig[s] \in Values  BY DEF IniInv, IniTypeOK, IniRestore, settings
<1>2. CASE Modifies(s, orig[s]) /\ Becomes(s, orig[s])
  BY <1>1, <1>2, IniBecomesInv DEF IniRestore
<1>3. CASE UNCHANGED settings  BY <1>1, <1>3, IniKeptInv DEF IniRestore, settings
<1> QED  BY <1>2, <1>3 DEF IniRestore

(* PHP puts the values back: those a check refused are known as untold.    *)
LEMMA IniEndInv == ASSUME IniInv, EndRequest PROVE IniInv'
<1> DEFINE refused == {s \in changed : Refused(s, orig[s])}
           heard   == {s \in changed : Modifies(s, orig[s])}
<1>1. /\ stage' = "idle" /\ changed' = {} /\ UNCHANGED <<valid, inicfg, handlers, orig>>
      /\ value' = [s \in Present |-> IF s \in changed THEN orig[s] ELSE value[s]]
      /\ module' = [s \in Present |-> IF s \in heard THEN orig[s] ELSE module[s]]
      /\ untold' = (untold \cup refused) \ heard
  BY DEF EndRequest
<1>2. IniTypeOK /\ ValuesFit /\ ModuleFollowsValue  BY DEF IniInv
<1>3. changed = refused \cup heard /\ refused \cap heard = {}
  <2>1. \A s \in changed : Takes(Behind(s), s, orig[s])
    BY <1>2, BehindIsHandler DEF IniTypeOK, ValuesFit, ValuesTaken
  <2> QED  BY <2>1 DEF Modifies
<1> HIDE DEF refused, heard
<1>4. IniTypeOK'  BY <1>1, <1>2, <1>3 DEF IniTypeOK, handlers
<1>5. ValuesFit'  BY <1>1, <1>2 DEF ValuesFit, ValuesTaken
<1>6. ModuleFollowsValue'  BY <1>1, <1>2, <1>3 DEF ModuleFollowsValue
<1> QED  BY <1>4, <1>5, <1>6, <1>1, TableUnchanged DEF IniInv

LEMMA IniNextInv == IniInv /\ [IniNext]_ini_vars => IniInv'
<1> SUFFICES ASSUME IniInv, [IniNext]_ini_vars PROVE IniInv'  OBVIOUS
<1>1. ASSUME BeginRequest PROVE IniInv'
  <2>1. IniTypeOK'  BY <1>1 DEF BeginRequest, IniInv, IniTypeOK, handlers, settings
  <2>2. ValuesFit' /\ ModuleFollowsValue'
    BY <1>1 DEF BeginRequest, IniInv, ValuesFit, ValuesTaken, ModuleFollowsValue, settings
  <2> QED  BY <1>1, <2>1, <2>2, TableUnchanged DEF IniInv, BeginRequest
<1>2. ASSUME UNCHANGED ini_vars PROVE IniInv'
  <2>1. changed' \subseteq Present  BY <1>2 DEF ini_vars, IniInv, IniTypeOK
  <2> QED  BY <1>2, <2>1, IniKeptInv DEF ini_vars, handlers
<1> QED  BY <1>1, <1>2, IniApplyInv, IniBreakInv, IniEndInv, IniSetInv, IniRestoreInv DEF IniNext

\* What holds in every state of SpIni. That values fit the handlers is what
\* makes PHP's restoration at the end of a request succeed unless a check
\* refuses it.
THEOREM IniInvariant == IniSpec => []IniInv
<1> QED  BY IniInitInv, IniNextInv, PTL DEF IniSpec

\* The variables have the values their comments give them.
THEOREM IniTypeCorrect == IniSpec => []IniTypeOK
<1>1. IniInv => IniTypeOK  BY DEF IniInv
<1> QED  BY <1>1, IniInvariant, PTL

\* The check is hooked where the rules in force ask for it, and the handler
\* behind it is the setting's own (sp_hook_ini, sp_unhook_ini).
THEOREM Hooked == IniSpec => []CheckFollowsRules
<1>1. IniInv => CheckFollowsRules  BY DEF IniInv
<1> QED  BY <1>1, IniInvariant, PTL

\* The owner of a setting knows its value, unless a check kept it from being
\* told (sp_ini_onmodify, zend_ini_deactivate).
THEOREM OwnerKnows == IniSpec => []ModuleFollowsValue
<1>1. IniInv => ModuleFollowsValue  BY DEF IniInv
<1> QED  BY <1>1, IniInvariant, PTL

LEMMA SealedRefuses ==
  ASSUME IniInv, NEW s \in Present, Sealed(s), NEW v
  PROVE  Refused(s, v) /\ ~Modifies(s, v)
<1>1. s \in Hooks(inicfg)  BY DEF Sealed, Hooks
<1>2. on[s] = "sp"  BY <1>1 DEF Sealed, IniInv, CheckFollowsRules
<1>3. Objection(inicfg, inicfg.entries[s], v) = "read-only"  BY DEF Sealed, Objection
<1> QED  BY <1>2, <1>3, ConstantsFit DEF NothingIsOther, Sealed, Refused, Objects, Modifies

\* What a rule in force makes read-only keeps its value in PHP and for its
\* owner until a configuration is applied (SP_INI_ACCESS_READONLY_COND).
THEOREM ReadOnlyKept == IniSpec => ReadOnlyStays
<1>1. IniInv /\ [IniNext]_ini_vars =>
        [\A s \in Present : Sealed(s) =>
           \/ /\ module'[s] = module[s]
              /\ value'[s] = value[s] \/ (s \in changed /\ stage' = "idle")
           \/ \E c \in IniConfigs : Apply(c)]_ini_vars
  <2> SUFFICES ASSUME IniInv, IniNext, NEW s \in Present, Sealed(s),
                      ~ \E c \in IniConfigs : Apply(c)
               PROVE  /\ module'[s] = module[s]
                      /\ value'[s] = value[s] \/ (s \in changed /\ stage' = "idle")
    OBVIOUS
  <2>1. IniTypeOK  BY DEF IniInv
  <2>2. \A v : ~Modifies(s, v)  BY SealedRefuses
  <2>3. ASSUME NEW t \in Present, NEW v \in Values, IniSet(t, v)
        PROVE  module'[s] = module[s] /\ value'[s] = value[s]
    BY <2>1, <2>2, <2>3 DEF IniSet, Becomes, IniTypeOK
  <2>4. ASSUME NEW t \in Present, IniRestore(t)
        PROVE  module'[s] = module[s] /\ value'[s] = value[s]
    BY <2>1, <2>2, <2>4 DEF IniRestore, Becomes, IniTypeOK, settings
  <2>5. ASSUME EndRequest
        PROVE  /\ module'[s] = module[s]
               /\ value'[s] = value[s] \/ (s \in changed /\ stage' = "idle")
    BY <2>1, <2>2, <2>5 DEF EndRequest, IniTypeOK
  <2> QED  BY <2>3, <2>4, <2>5 DEF IniNext, BeginRequest, Break, settings
<1> QED  BY <1>1, IniInvariant, PTL DEF IniSpec, ReadOnlyStays
-----------------------------------------------------------------------------
(* The uploads                                                             *)

ChildState == {"none", "forked", "runs", "killed", "0", "1"}
Reason      == {"no", "status", "simulation", "no fork", "no status"}

(* A file that is through, rightly.                                        *)
Good(f) == /\ passed[f] # "no"
           /\ passed[f] = "simulation" => uploadcfg.simulation
           /\ passed[f] = "status" => child[f] \in {"0", "killed"}

(* The files before the one that is validated are through, the ones after  *)
(* it are as they were at the start.                                       *)
LoopInv ==
  progress \in {"files", "wait"} =>
    /\ \A f \in Files : f < file => Good(f)
    /\ \A f \in Files : f >= file => passed[f] = "no"
    /\ \A f \in Files : f > file \/ (f = file /\ progress = "files") => child[f] = "none"
IdleInv == progress = "idle" => \A f \in Files : child[f] = "none" /\ passed[f] = "no"

(* The callbacks, when there was one before: what is hooked, and in which  *)
(* order. The one that was there first is the last.                        *)
Chain(cb, s, o) == callback = cb /\ next["sp"] = s /\ next["other"] = o
ChainInv ==
  before = "first" =>
    /\ next["first"] = "none"
    /\ \/ Chain("first", "none", "none") /\ ~uploadcfg.enable
       \/ Chain("other", "none", "first") /\ ~uploadcfg.enable
       \/ Chain("sp", "first", "none")
       \/ Chain("sp", "other", "first")
       \/ Chain("other", "first", "sp")

UploadInv == UploadTypeOK /\ LoopInv /\ IdleInv /\ NoFileSlipsThrough /\ OneAtATime /\ ChainInv

callbacks == <<uploadcfg, before, callback, next>>

LEMMA ChainUnchanged == ASSUME ChainInv, UNCHANGED callbacks PROVE ChainInv'
BY DEF callbacks, ChainInv, Chain

LEMMA CalledUnchanged == ASSUME UNCHANGED callbacks PROVE Called' = Called
BY DEF callbacks, Called

(* Where the loop is, in numbers.                                          *)
LEMMA Numbers ==
  ASSUME UploadTypeOK
  PROVE  /\ MaxFiles \in Nat /\ MaxFiles >= 1
         /\ files \in Nat /\ files <= MaxFiles /\ file \in Nat /\ file <= MaxFiles + 1
         /\ progress \in {"files", "wait"} => file >= 1 /\ file <= files
<1>1. MaxFiles \in Nat /\ MaxFiles >= 1  BY FilesAndCodes
<1>2. files \in 0..MaxFiles /\ file \in 0..MaxFiles + 1  BY DEF UploadTypeOK
<1>3. progress \in {"files", "wait"} => file \in 1..files  BY DEF UploadTypeOK
<1> QED  BY <1>1, <1>2, <1>3

LEMMA FilesAre == \A f : f \in Files <=> f \in Nat /\ f >= 1 /\ f <= MaxFiles
BY FilesAndCodes DEF Files

(* The step from one file to the next.                                     *)
LEMMA NextFile ==
  ASSUME NEW a \in Nat, NEW b \in Nat, NEW m \in Nat, a >= 1, a <= b, b <= m
  PROVE  /\ a + 1 \in 0..m + 1
         /\ a # b => a + 1 \in 1..b
         /\ \A f \in 1..a : f \in Nat /\ f >= 1 /\ f <= m /\ (f < a \/ f = a)
OBVIOUS

LEMMA Order ==
  ASSUME NEW a \in Nat
  PROVE  \A f \in Files : /\ f < a + 1 <=> f < a \/ f = a
                          /\ f >= a + 1 <=> f > a
                          /\ f > a => f # a /\ f >= a
                          /\ f < a => f # a
                          /\ f > a + 1 \/ f = a + 1 => f > a
BY FilesAndCodes DEF Files

LEMMA Between == \A a, b, m \in Nat : a <= b /\ b <= m => a <= m
OBVIOUS

LEMMA UploadInitInv == UploadInit => UploadInv
<1> SUFFICES ASSUME UploadInit PROVE UploadInv  OBVIOUS
<1>1. UploadTypeOK  BY FilesAndCodes DEF UploadInit, UploadTypeOK, Callbacks
<1>2. LoopInv /\ IdleInv /\ NoFileSlipsThrough /\ OneAtATime
  BY DEF UploadInit, LoopInv, IdleInv, NoFileSlipsThrough, Validated, OneAtATime
<1>3. ChainInv  BY DEF UploadInit, ChainInv, Chain, NoValidation
<1> QED  BY <1>1, <1>2, <1>3 DEF UploadInv

(* hook_upload: whatever is in front, a callback that was hooked once is   *)
(* not hooked again.                                                       *)
LEMMA LoadUploadInv == ASSUME UploadInv, NEW c \in UploadConfigs, LoadUpload(c) PROVE UploadInv'
<1>1. /\ progress = "idle" /\ uploadcfg' = c /\ UNCHANGED <<before, progress, files, file, child, passed>>
      /\ IF c.enable THEN Hook ELSE UNCHANGED <<callback, next>>
  BY DEF LoadUpload
<1>2. callback \in Callbacks /\ next \in [{"first", "sp", "other"} -> Callbacks]
  BY DEF UploadInv, UploadTypeOK
<1>3. callback' \in Callbacks /\ next' \in [{"first", "sp", "other"} -> Callbacks]
  BY <1>1, <1>2 DEF Hook, Callbacks
<1>4. UploadTypeOK'  BY <1>1, <1>3 DEF UploadInv, UploadTypeOK
<1>5. LoopInv' /\ NoFileSlipsThrough'
  BY <1>1 DEF LoopInv, NoFileSlipsThrough, Validated
<1>6. IdleInv' /\ OneAtATime'  BY <1>1 DEF UploadInv, IdleInv, OneAtATime
<1>7. ChainInv'  BY <1>1, <1>2 DEF UploadInv, ChainInv, Chain, Hook
<1> QED  BY <1>4, <1>5, <1>6, <1>7 DEF UploadInv

LEMMA OtherInv == ASSUME UploadInv, Other PROVE UploadInv'
<1>1. /\ progress = "idle" /\ callback # "other" /\ next["other"] = "none" /\ callback # "none"
      /\ next' = [next EXCEPT !["other"] = callback] /\ callback' = "other"
      /\ UNCHANGED <<uploadcfg, before, progress, files, file, child, passed>>
  BY DEF Other
<1>2. callback \in Callbacks /\ next \in [{"first", "sp", "other"} -> Callbacks]
  BY DEF UploadInv, UploadTypeOK
<1>3. UploadTypeOK'  BY <1>1, <1>2 DEF UploadInv, UploadTypeOK, Callbacks
<1>4. LoopInv' /\ NoFileSlipsThrough'
  BY <1>1 DEF LoopInv, NoFileSlipsThrough, Validated
<1>5. IdleInv' /\ OneAtATime'  BY <1>1 DEF UploadInv, IdleInv, OneAtATime
<1>6. ChainInv'  BY <1>1, <1>2 DEF UploadInv, ChainInv, Chain
<1> QED  BY <1>3, <1>4, <1>5, <1>6 DEF UploadInv

LEMMA BeginUploadInv == ASSUME UploadInv, NEW n \in Files, BeginUpload(n) PROVE UploadInv'
<1>1. /\ progress = "idle" /\ files' = n /\ file' = 1
      /\ progress' \in {"crashed", "files", "script"}
      /\ progress' = "script" => ~("sp" \in Called /\ uploadcfg.enable)
      /\ UNCHANGED <<child, passed>> /\ UNCHANGED callbacks
  BY DEF BeginUpload, callbacks
<1>2. \A f \in Files : child[f] = "none" /\ passed[f] = "no"  BY <1>1 DEF UploadInv, IdleInv
<1>3. UploadTypeOK'
  <2>1. n \in Nat /\ n >= 1 /\ n <= MaxFiles /\ MaxFiles \in Nat  BY FilesAre, FilesAndCodes
  <2>2. n \in 0..MaxFiles /\ 1 \in 0..MaxFiles + 1 /\ 1 \in 1..n  BY <2>1
  <2> QED  BY <1>1, <2>2 DEF UploadInv, UploadTypeOK, callbacks
<1>4. LoopInv'
  <2>1. \A f \in Files : ~(f < 1)  BY FilesAre
  <2> QED  BY <1>1, <1>2, <2>1 DEF LoopInv
<1>5. NoFileSlipsThrough'  BY <1>1, CalledUnchanged DEF NoFileSlipsThrough, Validated, callbacks
<1>6. OneAtATime' /\ IdleInv'  BY <1>1, <1>2 DEF OneAtATime, IdleInv
<1>7. ChainInv'  BY <1>1, ChainUnchanged DEF UploadInv
<1> QED  BY <1>3, <1>4, <1>5, <1>6, <1>7 DEF UploadInv

LEMMA ForkInv == ASSUME UploadInv, Fork PROVE UploadInv'
<1>1. /\ progress = "files" /\ progress' = "wait" /\ child' = [child EXCEPT ![file] = "forked"]
      /\ UNCHANGED <<files, file, passed>> /\ UNCHANGED callbacks
  BY DEF Fork, callbacks
<1>2. UploadTypeOK /\ LoopInv /\ OneAtATime  BY DEF UploadInv
<1>3. UploadTypeOK'  BY <1>1, <1>2 DEF UploadTypeOK, callbacks
<1>4. LoopInv'
  <2>1. file \in Nat /\ \A f \in Files : f \in Nat  BY <1>2, Numbers, FilesAre
  <2>2. \A f \in Files : f # file => child'[f] = child[f]  BY <1>1, <1>2 DEF UploadTypeOK
  <2>3. \A f \in Files : f < file \/ f > file => f # file  BY <2>1
  <2>4. \A f \in Files : f < file => Good(f)'
    BY <1>1, <1>2, <2>2, <2>3 DEF LoopInv, Good, callbacks
  <2>5. \A f \in Files : f > file => child'[f] = "none"
    BY <1>1, <1>2, <2>2, <2>3 DEF LoopInv
  <2> QED  BY <1>1, <1>2, <2>4, <2>5 DEF LoopInv
<1>5. OneAtATime'  BY <1>1, <1>2 DEF OneAtATime, UploadTypeOK
<1>6. IdleInv' /\ NoFileSlipsThrough'  BY <1>1 DEF IdleInv, NoFileSlipsThrough, Validated
<1>7. ChainInv'  BY <1>1, ChainUnchanged DEF UploadInv
<1> QED  BY <1>3, <1>4, <1>5, <1>6, <1>7 DEF UploadInv

(* The loop goes on: the file that is through is so for a good reason, and *)
(* no process of it runs that could be waited for.                         *)
LEMMA PassInv ==
  ASSUME UploadInv, progress \in {"files", "wait"}, NEW why \in Reason \ {"no"}, Pass(why),
         why = "simulation" => uploadcfg.simulation,
         why = "status" => child[file] \in {"0", "killed"},
         why = "no status" \/ child[file] \notin {"forked", "runs"},
         UNCHANGED <<files, child>>, UNCHANGED callbacks
  PROVE  UploadInv'
<1>1. UploadTypeOK /\ LoopInv /\ OneAtATime  BY DEF UploadInv
<1>2. /\ passed' = [passed EXCEPT ![file] = why] /\ file' = file + 1
      /\ progress' \in {"files", "script"} /\ (progress' = "script" <=> file = files)
  BY DEF Pass
<1>3. /\ file \in Nat /\ files \in Nat /\ MaxFiles \in Nat
      /\ file >= 1 /\ file <= files /\ files <= MaxFiles /\ file \in Files
  <2>1. /\ file \in Nat /\ files \in Nat /\ MaxFiles \in Nat
        /\ file >= 1 /\ file <= files /\ files <= MaxFiles
    BY <1>1, Numbers
  <2>2. file <= MaxFiles  BY <2>1, Between
  <2> QED  BY <2>1, <2>2, FilesAre
<1>4. /\ passed'[file] = why
      /\ \A f \in Files : f # file => passed'[f] = passed[f]
      /\ passed' \in [Files -> Reason]
  BY <1>1, <1>2, <1>3 DEF UploadTypeOK, Reason
<1>5. UploadTypeOK'
  <2>1. file + 1 \in 0..MaxFiles + 1 /\ (file # files => file + 1 \in 1..files)  BY <1>3, NextFile
  <2> QED  BY <1>1, <1>2, <1>4, <2>1 DEF UploadTypeOK, callbacks, Reason
<1>6. \A f \in Files : /\ f < file' <=> f < file \/ f = file
                       /\ f >= file' <=> f > file
                       /\ f > file => f # file /\ f >= file
                       /\ f < file => f # file
                       /\ f > file' \/ f = file' => f > file
  <2>1. file' = file + 1 /\ file \in Nat  BY <1>2, <1>3
  <2> QED  BY <2>1, Order
<1>7. \A f \in Files : f < file \/ f = file => Good(f)'
  <2> SUFFICES ASSUME NEW f \in Files, f < file \/ f = file PROVE Good(f)'  OBVIOUS
  <2>1. CASE f = file  BY <2>1, <1>4 DEF Good, callbacks
  <2>2. CASE f # file  BY <2>2, <1>1, <1>4 DEF Good, LoopInv, callbacks
  <2> QED  BY <2>1, <2>2
<1>8. LoopInv'
  <2>1. \A f \in Files : f < file' => Good(f)'  BY <1>6, <1>7
  <2>2. \A f \in Files : f > file => passed'[f] = "no" /\ child'[f] = "none"
    BY <1>1, <1>4, <1>6 DEF LoopInv
  <2> QED  BY <1>6, <2>1, <2>2 DEF LoopInv
<1>9. NoFileSlipsThrough'
  <2> SUFFICES ASSUME progress' = "script", NEW f \in 1..files' PROVE Good(f)'
    BY DEF NoFileSlipsThrough, Validated, Good
  <2>1. f \in 1..file  BY <1>2
  <2>2. f \in Nat /\ f >= 1 /\ f <= MaxFiles /\ (f < file \/ f = file)  BY <1>3, <2>1, NextFile
  <2> QED  BY <1>7, <2>2, FilesAre
<1>10. OneAtATime'
  <2> SUFFICES ASSUME NEW f \in Files, child[f] \in {"forked", "runs"} PROVE passed'[f] = "no status"
    BY DEF OneAtATime
  <2>1. CASE f = file  BY <2>1, <1>4
  <2>2. CASE f # file  BY <2>2, <1>1, <1>4 DEF OneAtATime
  <2> QED  BY <2>1, <2>2
<1>11. IdleInv'  BY <1>2 DEF IdleInv
<1>12. ChainInv'  BY ChainUnchanged DEF UploadInv
<1> QED  BY <1>5, <1>8, <1>9, <1>10, <1>11, <1>12 DEF UploadInv

LEMMA DroppedInv ==
  ASSUME UploadInv, progress \in {"files", "wait"}, progress' = "dropped",
         UNCHANGED <<files, file, child, passed>>, UNCHANGED callbacks
  PROVE  UploadInv'
<1>1. UploadTypeOK /\ OneAtATime  BY DEF UploadInv
<1>2. UploadTypeOK'  BY <1>1 DEF UploadTypeOK, callbacks
<1>3. OneAtATime'  BY <1>1 DEF OneAtATime
<1>4. LoopInv' /\ IdleInv' /\ NoFileSlipsThrough'  BY DEF LoopInv, IdleInv, NoFileSlipsThrough, Validated
<1>5. ChainInv'  BY ChainUnchanged DEF UploadInv
<1> QED  BY <1>2, <1>3, <1>4, <1>5 DEF UploadInv

LEMMA NoForkInv == ASSUME UploadInv, NoFork PROVE UploadInv'
<1>1. /\ progress = "files" /\ UNCHANGED <<files, child>> /\ UNCHANGED callbacks
      /\ Pass("no fork") \/ (progress' = "dropped" /\ UNCHANGED <<passed, file>>)
  BY DEF NoFork, callbacks
<1>2. file \in Files
  <2>1. file \in Nat /\ files \in Nat /\ MaxFiles \in Nat /\ file >= 1 /\ file <= files /\ files <= MaxFiles
    BY <1>1, Numbers DEF UploadInv
  <2> QED  BY <2>1, Between, FilesAre
<1>3. child[file] = "none"  BY <1>1, <1>2 DEF UploadInv, LoopInv
<1>4. CASE Pass("no fork")  BY <1>1, <1>3, <1>4, PassInv DEF Reason
<1>5. CASE progress' = "dropped" /\ UNCHANGED <<passed, file>>  BY <1>1, <1>5, DroppedInv
<1> QED  BY <1>1, <1>4, <1>5

LEMMA WaitInv == ASSUME UploadInv, Wait PROVE UploadInv'
<1>1. /\ progress = "wait" /\ child[file] \in {"0", "1", "killed"} /\ Judge(child[file], "status")
      /\ UNCHANGED <<files, child>> /\ UNCHANGED callbacks
  BY DEF Wait, Ended, callbacks
<1>2. CASE child[file] # "1" /\ Pass("status")  BY <1>1, <1>2, PassInv DEF Reason
<1>3. CASE child[file] = "1" /\ uploadcfg.simulation /\ Pass("simulation")
  BY <1>1, <1>3, PassInv DEF Reason
<1>4. CASE progress' = "dropped" /\ UNCHANGED <<passed, file>>  BY <1>1, <1>4, DroppedInv
<1> QED  BY <1>1, <1>2, <1>3, <1>4 DEF Judge, Rejects

LEMMA NoStatusInv == ASSUME UploadInv, NoStatus PROVE UploadInv'
<1>1. /\ progress = "wait" /\ UNCHANGED <<files, child>> /\ UNCHANGED callbacks
      /\ \E junk \in {"0", "1"} : Judge(junk, "no status")
  BY DEF NoStatus, callbacks
<1>2. CASE Pass("no status")  BY <1>1, <1>2, PassInv DEF Reason
<1>3. CASE progress' = "dropped" /\ UNCHANGED <<passed, file>>  BY <1>1, <1>3, DroppedInv
<1> QED  BY <1>1, <1>2, <1>3 DEF Judge

(* A process moves on. What it says once it has ended stays.               *)
LEMMA ChildInv == ASSUME UploadInv, NEW g \in Files, Child(g) PROVE UploadInv'
<1>1. /\ child[g] \in {"forked", "runs"}
      /\ \E s \in {"runs", "killed", "0", "1"} : child' = [child EXCEPT ![g] = s]
      /\ UNCHANGED <<progress, files, file, passed>> /\ UNCHANGED callbacks
  BY DEF Child, Exec, NoExec, Killed, Exit, Status, callbacks
<1>2. UploadTypeOK /\ LoopInv /\ OneAtATime /\ IdleInv /\ NoFileSlipsThrough  BY DEF UploadInv
<1>3. /\ child' \in [Files -> ChildState]
      /\ \A f \in Files : f # g => child'[f] = child[f]
  BY <1>1, <1>2 DEF UploadTypeOK, ChildState
<1>4. UploadTypeOK'  BY <1>1, <1>2, <1>3 DEF UploadTypeOK, callbacks, ChildState
<1>5. \A f \in Files : Good(f) => Good(f)'
  BY <1>1, <1>3 DEF Good, callbacks
<1>6. LoopInv'  BY <1>1, <1>2, <1>3, <1>5 DEF LoopInv
<1>7. OneAtATime'  BY <1>1, <1>2, <1>3 DEF OneAtATime
<1>8. IdleInv'  BY <1>1, <1>2 DEF IdleInv
<1>9. NoFileSlipsThrough'
  <2> SUFFICES ASSUME Validated', NEW f \in 1..files' PROVE Good(f)'
    BY DEF NoFileSlipsThrough, Good
  <2>1. Validated /\ f \in 1..files  BY <1>1, CalledUnchanged DEF Validated, callbacks
  <2>2. f \in Files  BY <2>1, <1>2, Numbers, FilesAre
  <2> QED  BY <1>2, <1>5, <2>1, <2>2 DEF NoFileSlipsThrough, Good
<1>10. ChainInv'  BY <1>1, ChainUnchanged DEF UploadInv
<1> QED  BY <1>4, <1>6, <1>7, <1>8, <1>9, <1>10 DEF UploadInv

LEMMA EndUploadInv == ASSUME UploadInv, EndUpload PROVE UploadInv'
<1>1. /\ progress' = "idle" /\ files' = 0 /\ file' = 0 /\ UNCHANGED callbacks
      /\ child' = [f \in Files |-> "none"] /\ passed' = [f \in Files |-> "no"]
  BY DEF EndUpload, callbacks
<1>2. UploadTypeOK'
  <2>1. 0 \in 0..MaxFiles /\ 0 \in 0..MaxFiles + 1  BY FilesAndCodes
  <2> QED  BY <1>1, <2>1 DEF UploadInv, UploadTypeOK, callbacks
<1>3. LoopInv' /\ IdleInv' /\ NoFileSlipsThrough' /\ OneAtATime'
  BY <1>1 DEF LoopInv, IdleInv, NoFileSlipsThrough, Validated, OneAtATime
<1>4. ChainInv'  BY <1>1, ChainUnchanged DEF UploadInv
<1> QED  BY <1>2, <1>3, <1>4 DEF UploadInv

LEMMA UploadNextInv == UploadInv /\ [UploadNext]_upload_vars => UploadInv'
<1> SUFFICES ASSUME UploadInv, [UploadNext]_upload_vars PROVE UploadInv'  OBVIOUS
<1>1. ASSUME UNCHANGED upload_vars PROVE UploadInv'
  <2>1. UNCHANGED <<progress, files, file, child, passed>> /\ UNCHANGED callbacks
    BY <1>1 DEF upload_vars, callbacks
  <2>2. UploadTypeOK' /\ IdleInv' /\ OneAtATime'
    BY <2>1 DEF UploadInv, UploadTypeOK, IdleInv, OneAtATime, callbacks
  <2>3. LoopInv'  BY <2>1 DEF UploadInv, LoopInv, Good, callbacks
  <2>4. NoFileSlipsThrough'
    BY <2>1, CalledUnchanged DEF UploadInv, NoFileSlipsThrough, Validated, callbacks
  <2> QED  BY <2>1, <2>2, <2>3, <2>4, ChainUnchanged DEF UploadInv
<1> QED
  BY <1>1, LoadUploadInv, OtherInv, BeginUploadInv, ForkInv, NoForkInv, WaitInv, NoStatusInv, ChildInv, EndUploadInv
  DEF UploadNext, Parent

\* What holds in every state of SpUpload: a file behind the loop is through
\* for a good reason, one ahead of it is untouched.
THEOREM UploadInvariant == UploadSpec => []UploadInv
<1> QED  BY UploadInitInv, UploadNextInv, PTL DEF UploadSpec

\* The variables have the values their comments give them.
THEOREM UploadTypeCorrect == UploadSpec => []UploadTypeOK
<1>1. UploadInv => UploadTypeOK  BY DEF UploadInv
<1> QED  BY <1>1, UploadInvariant, PTL

\* The script starts after every file was judged, and a program's no ends the
\* request outside of simulation (sp_rfc1867_callback).
THEOREM NothingSlipsThrough == UploadSpec => []NoFileSlipsThrough
<1>1. UploadInv => NoFileSlipsThrough  BY DEF UploadInv
<1> QED  BY <1>1, UploadInvariant, PTL

\* One program runs at a time (fork and waitpid in sp_rfc1867_callback).
THEOREM OneProgram == UploadSpec => []OneAtATime
<1>1. UploadInv => OneAtATime  BY DEF UploadInv
<1> QED  BY <1>1, UploadInvariant, PTL

\* The chain of callbacks ends with the one that was there first
\* (hook_upload).
THEOREM ChainIsFinite == UploadSpec => []ChainEnds
<1>1. UploadInv => ChainEnds
  <2> SUFFICES ASSUME ChainInv, before = "first"
               PROVE  ~Loops /\ "first" \in Called /\ (uploadcfg.enable => "sp" \in Called)
    BY DEF UploadInv, ChainEnds
  <2>1. "first" \in Called /\ (uploadcfg.enable => "sp" \in Called)  BY DEF ChainInv, Chain, Called
  <2>2. next["first"] = "none"  BY DEF ChainInv
  <2> QED  BY <2>1, <2>2 DEF Loops
<1> QED  BY <1>1, UploadInvariant, PTL
=============================================================================
