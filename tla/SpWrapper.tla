------------------------------- MODULE SpWrapper -------------------------------
(* The whitelist of stream wrappers: RINIT filters the table of the        *)
(* process, "php" is replaced by a wrapper that knows the kinds of streams *)
(* allowed, and stream_wrapper_register and _restore are hooked. Scripts   *)
(* change a table of the request, cloned from the one of the process.      *)
EXTENDS Integers, FiniteSets

CONSTANTS Builtin,    \* the wrappers there when the configuration is first applied
          Late,       \* those of extensions loaded after it
          Users,      \* names scripts give to wrappers of theirs
          php,        \* the name of the one that is filtered
          Kinds,      \* the kinds of streams it opens
          Configs, None

ASSUME PhpIsBuiltin == php \in Builtin

NoConfig == [enabled |-> FALSE, list |-> {}, php_list |-> {}]
Names    == Builtin \cup Late \cup Users

ASSUME NamesAreFinite == IsFiniteSet(Names)
ASSUME ConfigsAreSwitched == \A c \in Configs : c.enabled \in BOOLEAN

VARIABLES
  cfg,      \* the configuration in force
  num,      \* num_wrapper
  table,    \* the wrappers of the process: "native", or "sp" for the filtering one
  own,      \* those of the request once the script has changed one, or None
  hooked,   \* stream_wrapper_register and _restore are hooked
  phase,    \* "start", "idle" or "request"
  since,    \* the configuration in force is the one the request began with
  opened    \* the kind of php stream the script opened last

vars == <<cfg, num, table, own, hooked, phase, since, opened>>

Init == /\ cfg = NoConfig /\ num = 0 /\ table = [w \in Builtin |-> "native"] /\ own = None
        /\ hooked = FALSE /\ phase = "start" /\ since = FALSE /\ opened = None

Keep(f, S)  == [w \in DOMAIN f \cap S |-> f[w]]
With(f, v, e) == [w \in DOMAIN f \cup {v} |-> IF w = v THEN e ELSE f[w]]
Current     == IF own = None THEN table ELSE own
Filtered(c) == c.php_list # {}

\* Slip: the wrapper is registered though there was none to unregister.
RegisteredAnyway(c, t) == IF Filtered(c) THEN With(t, php, "sp") ELSE t
\* sp_reregister_php_wrapper, which gives up when there is none to unregister.
Reregistered(c, t) == IF Filtered(c) /\ php \in DOMAIN t THEN [t EXCEPT ![php] = "sp"] ELSE t

\* Slip: the count of the last configuration is kept.
LoadKeepsNum(c) == /\ cfg' = c /\ hooked' = c.enabled /\ since' = FALSE
                   /\ table' = IF c.enabled THEN Reregistered(c, table) ELSE table
                   /\ UNCHANGED <<num, own, phase, opened>>
\* A configuration is applied, in a request or between two. What an earlier one
\* did to the table stays.
Load(c) == /\ cfg' = c /\ num' = 0 /\ hooked' = c.enabled /\ since' = FALSE
           /\ table' = IF c.enabled THEN Reregistered(c, table) ELSE table
           /\ UNCHANGED <<own, phase, opened>>

Extension(w) == /\ phase = "start" /\ w \notin DOMAIN table /\ table' = With(table, w, "native")
                /\ UNCHANGED <<cfg, num, own, hooked, phase, since, opened>>
Started == /\ phase = "start" /\ phase' = "idle"
           /\ UNCHANGED <<cfg, num, table, own, hooked, since, opened>>

\* Slip: filters with the first request under a configuration only.
BeginOnce == /\ phase = "idle" /\ phase' = "request" /\ since' = TRUE
             /\ IF cfg.enabled /\ num = 0
                THEN num' = Cardinality(DOMAIN table) /\ UNCHANGED table
                ELSE UNCHANGED <<table, num>>
             /\ UNCHANGED <<cfg, own, hooked, opened>>
\* RINIT, with sp_disable_wrapper when the count is not the one it left.
Begin == /\ phase = "idle" /\ phase' = "request" /\ since' = TRUE
         /\ IF cfg.enabled /\ Cardinality(DOMAIN table) # num
            THEN table' = Keep(table, cfg.list) /\ num' = Cardinality(DOMAIN table')
            ELSE UNCHANGED <<table, num>>
         /\ UNCHANGED <<cfg, own, hooked, opened>>

End == /\ phase = "request" /\ phase' = "idle" /\ own' = None /\ opened' = None
       /\ UNCHANGED <<cfg, num, table, hooked, since>>

Running(w) == phase = "request" /\ UNCHANGED <<cfg, num, hooked, phase, since, opened>>

\* Slip: a script may load "php" by hand.
PassesList(w) == hooked => w \in cfg.list
Passes(w) == hooked => w \in cfg.list /\ ~(w = php /\ Filtered(cfg))

\* sp_stream_wrapper_register, before the function of PHP.
Register(w) == /\ Running(w) /\ Passes(w) /\ w \notin DOMAIN Current
               /\ own' = With(Current, w, "user") /\ UNCHANGED table

\* stream_wrapper_unregister is not hooked.
Unregister(w) == /\ Running(w) /\ w \in DOMAIN Current
                 /\ own' = Keep(Current, Names \ {w}) /\ UNCHANGED table

\* sp_stream_wrapper_restore, after the function of PHP, which takes the
\* wrapper of the process.
Restore(w) == /\ Running(w)
              /\ own' = IF w \in DOMAIN table THEN With(Current, w, table[w]) ELSE own
              /\ table' = IF hooked /\ w = php THEN Reregistered(cfg, table) ELSE table

\* sp_php_stream_url_wrap_php. Under a configuration without a list of kinds
\* the wrapper that was registered by another lets everything pass.
Allows(k) == Filtered(cfg) => k \in cfg.php_list
Open(k) == /\ phase = "request" /\ php \in DOMAIN Current
           /\ \/ Current[php] = "native"
              \/ Current[php] = "sp" /\ Allows(k)
           /\ opened' = k /\ UNCHANGED <<cfg, num, table, own, hooked, phase, since>>

Next == \/ \E c \in Configs : Load(c)
        \/ \E w \in Late : Extension(w)
        \/ \E w \in Names : Register(w) \/ Unregister(w) \/ Restore(w)
        \/ \E k \in Kinds : Open(k)
        \/ Started \/ Begin \/ End

Spec == Init /\ [][Next]_vars

-----------------------------------------------------------------------------
(* Properties *)

Tables == UNION {[S -> {"native", "sp", "user"}] : S \in SUBSET Names}
TypeOK == /\ cfg \in Configs \cup {NoConfig} /\ num \in 0..Cardinality(Names)
          /\ table \in Tables /\ own \in Tables \cup {None}
          /\ hooked \in BOOLEAN /\ since \in BOOLEAN /\ phase \in {"start", "idle", "request"}
          /\ opened \in Kinds \cup {None}
          /\ phase # "request" => own = None /\ opened = None

Enforced == phase = "request" /\ since /\ cfg.enabled

\* In a request a script reaches wrappers of the whitelist only, whatever was
\* loaded before and whatever it registers, unregisters and restores.
OnlyWhitelisted == Enforced => DOMAIN Current \subseteq cfg.list

\* As long as kinds are listed, "php" is the wrapper that knows them, and the
\* script opens no stream of another kind, by whichever way it got at one.
PhpIsFiltered ==
  Enforced /\ Filtered(cfg) =>
    /\ php \in DOMAIN Current => Current[php] = "sp"
    /\ opened # None => opened \in cfg.php_list

\* RINIT compares the number of wrappers only. That is enough: when it is the
\* one the last filtering left, there is nothing to filter.
CountIsEnough ==
  cfg.enabled /\ phase # "start" /\ num = Cardinality(DOMAIN table) => DOMAIN table \subseteq cfg.list

\* What was filtered out never comes back, whatever is loaded afterwards: a
\* longer whitelist needs a new process (sp_disable_wrapper).
FilteredForGood == [][phase # "start" => DOMAIN table' \subseteq DOMAIN table]_vars
=============================================================================
