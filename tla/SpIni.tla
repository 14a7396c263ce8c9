--------------------------------- MODULE SpIni ---------------------------------
(* INI protection: sp_hook_ini puts sp_ini_onmodify before the handler of  *)
(* a setting of PHP, sp_unhook_ini takes it away when the configuration is *)
(* applied again, and every change a script makes, and every restoration   *)
(* by PHP, goes through the check while it is there.                       *)
EXTENDS Integers, FiniteSets, TLC

CONSTANTS Settings,    \* names rules may have
          Present,     \* those PHP knows: not a typo, and their extension is loaded
          Values,      \* what a setting may hold
          Empty,       \* NULL or the empty string
          PhpIni,      \* the value each setting starts with
          Native,      \* the values the handler of a setting takes, if it has one
          IniConfigs,  \* configurations; see Unprotected
          Nothing

Shapes == /\ Present \subseteq Settings /\ Empty \in Values
          /\ PhpIni \in [Present -> Values] /\ DOMAIN Native \subseteq Present
          /\ \A s \in DOMAIN Native : PhpIni[s] \in Native[s]
RulesSetValues == \A c \in IniConfigs : \A s \in DOMAIN c.entries : c.entries[s].set \in Values \cup {Nothing}
NothingIsOther == Nothing \notin {"native", "sp", "read-only"}
ASSUME ConstantsFit == Shapes /\ RulesSetValues /\ NothingIsOther

\* A rule of sp.ini: the values min, max and regexp accept, Nothing without them.
Rule(checks, access) == [checks |-> checks, access |-> access, allow_null |-> FALSE,
                         sim |-> FALSE, drop |-> FALSE, set |-> Nothing]
Unprotected == [enable |-> FALSE, simulation |-> FALSE, policy_readonly |-> FALSE, policy_silent_ro |-> FALSE,
                policy_silent_fail |-> FALSE, policy_drop |-> FALSE, entries |-> <<>>]

VARIABLES
  valid,     \* is_config_valid: "none", "valid" or "invalid"
  inicfg,    \* the configuration in force
  saved,     \* orig_onmodify of its entries
  on,        \* on_modify of each setting: "native", Nothing or "sp"
  value,     \* the value PHP has for each setting
  orig,      \* and the one it goes back to, for a setting that was changed
  changed,   \* the settings this request changed, or tried to
  module,    \* the value the owner of the setting works with
  untold,    \* the settings whose owner was not told of the value put back
  stage,     \* "idle" or "request"
  last       \* the last verdict

ini_vars == <<valid, inicfg, saved, on, value, orig, changed, module, untold, stage, last>>
handlers == <<saved, on>>
settings == <<value, orig, changed, module, untold>>

Handler(s) == IF s \in DOMAIN Native THEN "native" ELSE Nothing
Takes(h, s, v) == h = "native" => v \in Native[s]

IniInit == /\ valid = "none" /\ inicfg = Unprotected /\ saved = <<>> /\ on = [s \in Present |-> Handler(s)]
           /\ value = PhpIni /\ orig = PhpIni /\ module = PhpIni /\ changed = {} /\ untold = {}
           /\ stage = "idle" /\ last = Nothing

-----------------------------------------------------------------------------
(* sp_ini_check                                                             *)

ReadOnly(c, r)    == r.access = "ro" \/ (r.access = Nothing /\ c.policy_readonly)
HasChecks(r)      == r.checks # Nothing
Simulated(c, r)   == c.simulation \/ r.sim

\* Slip: the empty value is looked at before the access.
EmptyFirst(c, r, v) ==
  CASE v = Empty -> IF ~r.allow_null /\ HasChecks(r) THEN "empty" ELSE Nothing
    [] v # Empty /\ ReadOnly(c, r) -> "read-only"
    [] OTHER -> IF HasChecks(r) /\ v \notin r.checks THEN "value" ELSE Nothing
\* What the rule holds against a value: Nothing, "read-only", "empty" or "value".
Objection(c, r, v) ==
  CASE ReadOnly(c, r) -> "read-only"
    [] ~ReadOnly(c, r) /\ v = Empty -> IF ~r.allow_null /\ HasChecks(r) THEN "empty" ELSE Nothing
    [] OTHER -> IF HasChecks(r) /\ v \notin r.checks THEN "value" ELSE Nothing

\* sp_log_ini_check_violation, which ends the request when it drops. A silent
\* read-only violation is not logged, whatever the mode.
Drops(c, r, o) == /\ o # Nothing /\ ~Simulated(c, r) /\ (c.policy_drop \/ r.drop)
                  /\ ~(o = "read-only" /\ c.policy_silent_ro)

\* sp_ini_onmodify, and the handler it passes the value to.
Objects(s, v) == on[s] = "sp" /\ s \in DOMAIN inicfg.entries /\ Objection(inicfg, inicfg.entries[s], v) # Nothing
Refused(s, v) == Objects(s, v) /\ ~Simulated(inicfg, inicfg.entries[s])
Behind(s)     == IF on[s] = "sp" THEN saved[s] ELSE on[s]
Modifies(s, v) == ~Refused(s, v) /\ Takes(Behind(s), s, v)
Verdict(s, v, by) ==
  [s |-> s, v |-> v, by |-> by, refused |-> Refused(s, v),
   dropped |-> Objects(s, v) /\ Drops(inicfg, inicfg.entries[s], Objection(inicfg, inicfg.entries[s], v))]

-----------------------------------------------------------------------------
(* sp_hook_ini and sp_unhook_ini, when the configuration is applied.        *)

Hooks(c) == {s \in DOMAIN c.entries \cap Present : HasChecks(c.entries[s]) \/ ReadOnly(c, c.entries[s])}
Sets(c)  == {s \in DOMAIN c.entries \cap Present : c.entries[s].set # Nothing}

Unhooked == IF valid # "none" /\ inicfg.enable
            THEN [s \in Present |-> IF s \in DOMAIN inicfg.entries /\ on[s] = "sp" THEN saved[s] ELSE on[s]]
            ELSE on

\* Slip: the value is put whatever the handler says.
PutAnyway(c, was) == {s \in Sets(c) : c.enable}
Put(c, was)       == {s \in Sets(c) : c.enable /\ Takes(was[s], s, c.entries[s].set)}

\* Slip: the rules in force are not unhooked before the new ones are hooked.
InstallOver(c, was) ==
  /\ inicfg' = c
  /\ saved' = [s \in DOMAIN c.entries |-> IF c.enable /\ s \in Hooks(c) THEN on[s] ELSE Nothing]
  /\ on' = [s \in Present |-> IF c.enable /\ s \in Hooks(c) THEN "sp" ELSE on[s]]
Install(c, was) ==
  /\ inicfg' = c
  /\ saved' = [s \in DOMAIN c.entries |-> IF c.enable /\ s \in Hooks(c) THEN was[s] ELSE Nothing]
  /\ on' = [s \in Present |-> IF c.enable /\ s \in Hooks(c) THEN "sp" ELSE was[s]]

\* The value of a rule goes to the handler that was there, not to the check,
\* and is the value of the setting if that takes it.
Apply(c) ==
  LET put    == Put(c, Unhooked)
      New(f) == [s \in Present |-> IF s \in put THEN c.entries[s].set ELSE f[s]]
      heard  == {s \in put : Takes(Unhooked[s], s, c.entries[s].set)}
  IN  /\ valid' = "valid" /\ Install(c, Unhooked)
      /\ value' = New(value)
      /\ module' = [s \in Present |-> IF s \in heard THEN c.entries[s].set ELSE module[s]]
      /\ untold' = untold \ heard
      /\ orig' = [s \in Present |-> IF s \in changed THEN orig[s] ELSE New(value)[s]]
      /\ UNCHANGED <<changed, stage, last>>

\* A configuration that does not parse.
Break == /\ valid' = "invalid" /\ inicfg' = Unprotected /\ saved' = <<>> /\ on' = Unhooked
         /\ UNCHANGED <<settings, stage, last>>

-----------------------------------------------------------------------------
(* PHP: requests, ini_set, ini_restore                                      *)

BeginRequest == /\ stage = "idle" /\ stage' = "request" /\ last' = Nothing
                /\ UNCHANGED <<valid, inicfg, handlers, settings>>

\* A drop ends the script, but not when PHP calls the handler to restore.
ScriptRuns == stage = "request" /\ (last # Nothing => ~(last.by = "ini_set" /\ last.dropped))

\* The setting has value v, and its owner knows.
Becomes(s, v) == /\ value' = [value EXCEPT ![s] = v] /\ module' = [module EXCEPT ![s] = v]
                 /\ untold' = untold \ {s} /\ UNCHANGED orig

\* PHP notes the old value before it asks the handler, which may refuse.
IniSet(s, v) ==
  /\ ScriptRuns /\ last' = Verdict(s, v, "ini_set")
  /\ changed' = changed \cup {s}
  /\ \/ Modifies(s, v) /\ Becomes(s, v)
     \/ ~Modifies(s, v) /\ UNCHANGED <<value, orig, module, untold>>
  /\ UNCHANGED <<valid, inicfg, handlers, stage>>

IniRestore(s) ==
  /\ ScriptRuns /\ s \in changed /\ last' = Verdict(s, orig[s], "restore")
  /\ \/ Modifies(s, orig[s]) /\ Becomes(s, orig[s]) /\ changed' = changed \ {s}
     \/ ~Modifies(s, orig[s]) /\ UNCHANGED settings
  /\ UNCHANGED <<valid, inicfg, handlers, stage>>

\* At the end of the request PHP puts back what was changed. A handler that
\* refuses is not heeded: the value is put back, and the owner not told.
EndRequest ==
  LET refused == {s \in changed : Refused(s, orig[s])}
      heard   == {s \in changed : Modifies(s, orig[s])}
  IN  /\ stage = "request" /\ stage' = "idle" /\ changed' = {}
      /\ value' = [s \in Present |-> IF s \in changed THEN orig[s] ELSE value[s]]
      /\ module' = [s \in Present |-> IF s \in heard THEN orig[s] ELSE module[s]]
      /\ untold' = (untold \cup refused) \ heard
      /\ last' = Nothing /\ UNCHANGED <<valid, inicfg, handlers, orig>>

IniNext == \/ BeginRequest \/ EndRequest \/ Break \/ \E c \in IniConfigs : Apply(c)
           \/ \E s \in Present : IniRestore(s) \/ \E v \in Values : IniSet(s, v)

IniSpec == IniInit /\ [][IniNext]_ini_vars

-----------------------------------------------------------------------------
(* Properties *)

IniTypeOK == /\ valid \in {"none", "valid", "invalid"} /\ stage \in {"idle", "request"}
             /\ on \in [Present -> {"native", "sp", Nothing}] /\ DOMAIN saved = DOMAIN inicfg.entries
             /\ value \in [Present -> Values] /\ orig \in [Present -> Values] /\ module \in [Present -> Values]
             /\ changed \subseteq Present

\* However configurations follow one another, and fail, the check is before
\* the handler of the settings the one in force has something to check of,
\* and of no other, and what is behind it is the setting's own handler: were it
\* the check itself, a change would never return (sp_hook_ini, sp_unhook_ini).
CheckFollowsRules ==
  \A s \in Present :
    IF inicfg.enable /\ s \in Hooks(inicfg) THEN on[s] = "sp" /\ saved[s] = Handler(s)
    ELSE on[s] = Handler(s)

\* A setting a rule in force makes read-only keeps its value, for PHP and for
\* its owner, until a configuration is applied; only what was changed before
\* that is put back at the end of the request (SP_INI_ACCESS_READONLY_COND).
Sealed(s) == /\ inicfg.enable /\ s \in DOMAIN inicfg.entries
             /\ ReadOnly(inicfg, inicfg.entries[s]) /\ ~Simulated(inicfg, inicfg.entries[s])
ReadOnlyStays ==
  [][\A s \in Present : Sealed(s) =>
       \/ /\ module'[s] = module[s]
          /\ value'[s] = value[s] \/ (s \in changed /\ stage' = "idle")
       \/ \E c \in IniConfigs : Apply(c)]_ini_vars

\* The owner of a setting works with the value PHP shows, whatever was loaded,
\* set and refused, unless a check refused to let PHP restore it.
ModuleFollowsValue == \A s \in Present : module[s] # value[s] => s \in untold
=============================================================================
