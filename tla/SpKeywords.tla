------------------------------ MODULE SpKeywords ------------------------------
(* What one rule of the configuration does: the parse functions of the     *)
(* directives, from the settings so far and the keywords of the rule to    *)
(* the settings after it. SpConfig reads the files.                        *)
(*                                                                          *)
(* A rule is [t |-> "rule", d |-> directive, kws |-> <<[k, form, v], ...>>] *)
(* where form says how the keyword's argument is written: "none", without  *)
(* parentheses, "empty" or "text". Aliases of a keyword are one keyword,   *)
(* and of keywords that are parsed and used in the same way one stands for *)
(* all: min for max, harden_random for sloppy_comparison, and so on. The   *)
(* two settings of the server filters and samesite's values are left out.  *)
EXTENDS Integers, Sequences, FiniteSets, SequencesExt

CONSTANTS Malformed,     \* texts that are no number, type, mask or expression
          WeakKeys,      \* keys that are too short or left as shipped
          Missing,       \* scripts that do not exist
          Relative,      \* file names that are not absolute
          Unset

On == "on"

ASSUME OnIsSet == On # Unset

-----------------------------------------------------------------------------
(* The tables: how a keyword is parsed and the setting it is parsed into. A *)
(* setting that is not in Globals lives as long as the rule.                *)

\* f, and g where f is not defined.
Besides(f, g) == [x \in DOMAIN f \cup DOMAIN g |-> IF x \in DOMAIN f THEN f[x] ELSE g[x]]

EnableTable == [enable |-> <<"parse_empty", "enable">>, disable |-> <<"parse_empty", "disable">>]
Flag(s) == <<"parse_empty", s>>
Str(s)  == <<"parse_str", s>>

Table == [
  harden_random |-> EnableTable,
  xxe_protection |-> EnableTable,
  unserialize_noclass |-> EnableTable,
  unserialize_hmac |-> Besides(EnableTable, [simulation |-> Flag("hmac.sim"), dump |-> Str("hmac.dump")]),
  readonly_exec |-> Besides(EnableTable, [simulation |-> Flag("roexec.sim"), dump |-> Str("roexec.dump"),
                                    xchecks |-> Flag("xchecks"), noxchecks |-> Flag("noxchecks")]),
  upload_validation |-> Besides(EnableTable, [simulation |-> Flag("upload.sim"), script |-> Str("upload.script")]),
  session |-> [encrypt |-> Flag("session.encrypt"), simulation |-> Flag("session.sim"),
               sid_min_length |-> <<"parse_ulong", "session.min">>],
  global |-> [secret_key |-> Str("key"), cookie_env_var |-> Str("env"),
              log_media |-> <<"parse_log_media", "media">>,
              max_execution_depth |-> <<"parse_uint", "depth">>],
  eval_blacklist |-> [list |-> <<"parse_list", "eval.black">>, simulation |-> Flag("eval.sim"),
                      dump |-> Str("eval.dump")],
  eval_whitelist |-> [list |-> <<"parse_list", "eval.white">>, simulation |-> Flag("eval.sim"),
                      dump |-> Str("eval.dump")],
  wrappers_whitelist |-> [list |-> <<"parse_list", "wrapper.list">>, php_list |-> <<"parse_list", "wrapper.php">>],
  ini_protection |-> Besides(EnableTable, [simulation |-> Flag("ini.sim"), policy_readonly |-> Flag("ro"),
                      policy_readwrite |-> Flag("rw"), policy_silent_fail |-> Flag("ini.silent"),
                      policy_drop |-> Flag("ini.drop")]),
  ini |-> [simulation |-> Flag("sim"), key |-> Str("name"), min |-> Str("min"), set |-> Str("set"),
           regexp |-> <<"parse_regexp", "regexp">>, readonly |-> Flag("ro"), readwrite |-> Flag("rw")],
  cookie |-> [name |-> Str("name"), name_r |-> <<"parse_regexp", "name_r">>, samesite |-> Str("samesite"),
              encrypt |-> Flag("encrypt"), simulation |-> Flag("sim")],
  disable_function |-> Besides(EnableTable, [
    function |-> Str("function"), function_r |-> <<"parse_regexp", "function_r">>, filename |-> Str("filename"),
    param |-> Str("param"), param_type |-> <<"parse_php_type", "param_type">>, pos |-> <<"parse_int", "pos">>,
    value |-> Str("value"), value_r |-> <<"parse_regexp", "value_r">>, key |-> Str("argkey"), ret |-> Str("ret"),
    var |-> Str("var"), cidr |-> <<"parse_cidr", "cidr">>, simulation |-> Flag("sim"),
    allow |-> Flag("allow"), drop |-> Flag("drop")]) ]

\* The setting that enable and disable are about.
Enables == [harden_random |-> "random", xxe_protection |-> "xxe", unserialize_noclass |-> "noclass",
            unserialize_hmac |-> "hmac", readonly_exec |-> "roexec", upload_validation |-> "upload",
            ini_protection |-> "ini"]

Globals == {Enables[d] : d \in DOMAIN Enables} \cup
  {"hmac.sim", "hmac.dump", "roexec.sim", "roexec.dump", "roexec.xchecks", "upload.sim", "upload.script",
   "session.encrypt", "session.sim", "session.min", "key", "env", "media", "depth", "eval.black", "eval.white",
   "eval.sim", "eval.dump", "wrapper.list", "wrapper.php", "wrapper", "ini.sim", "ini.ro", "ini.silent", "ini.drop"}
Settings == UNION {{Table[d][k][2] : k \in DOMAIN Table[d]} : d \in DOMAIN Table}
Locals   == Settings \ Globals

\* What sp_free_config leaves, and the default sp_load_config sets.
Blank    == [set |-> [g \in Globals |-> Unset], cookies |-> <<>>, entries |-> <<>>, rules |-> <<>>]
Defaults == [Blank EXCEPT !.set["roexec.xchecks"] = On]

-----------------------------------------------------------------------------
(* sp_process_rule: the keywords of a rule, from left to right.             *)

Once  == {"parse_str", "parse_list", "parse_regexp", "parse_cidr"}
Plain == {"parse_str", "parse_list"}

\* A keyword is refused when it is not one of the directive, its argument is
\* not of the form expected, or it fills a place that is taken.
Expected(tab, set, kw) ==
  /\ kw.k \in DOMAIN tab
  /\ LET parser == tab[kw.k][1] IN
     IF parser = "parse_empty" THEN kw.form = "empty"
     ELSE /\ kw.form # "none"
          /\ parser \in Once => set[tab[kw.k][2]] = Unset
          /\ parser \in Plain \/ kw.v \notin Malformed

\* log_media ends the reading of its rule: the keywords after it are never
\* looked at.
Take(tab, acc, kw) ==
  IF ~acc.ok \/ acc.stop THEN acc
  ELSE IF ~Expected(tab, acc.set, kw) THEN [acc EXCEPT !.ok = FALSE]
  ELSE LET parser == tab[kw.k][1] IN
       [acc EXCEPT !.set[tab[kw.k][2]] = IF parser = "parse_empty" THEN On ELSE kw.v,
                   !.stop = parser = "parse_log_media"]

Read(cfg, s) ==
  LET Upto[i \in 0..Len(s.kws)] ==
        IF i = 0 THEN [ok |-> TRUE, stop |-> FALSE, set |-> Besides(cfg.set, [l \in Locals |-> Unset])]
        ELSE Take(Table[s.d], Upto[i - 1], s.kws[i])
  IN  Upto[Len(s.kws)]

-----------------------------------------------------------------------------
(* What each parse function asks of the rule as a whole. v[x] is the value  *)
(* of setting x once the keywords are read.                                 *)

Has(v, x)    == v[x] # Unset
HasSome(v, X) == \E x \in X : Has(v, x)
HasSecrets(v) == Has(v, "env") /\ Has(v, "key")

\* Slip: only the variable is asked for.
SessionAsksEnv(v) == Has(v, "session.encrypt") => Has(v, "env")
parse_session(v)  == Has(v, "session.encrypt") => HasSecrets(v)
parse_global(v)   == v["key"] \notin WeakKeys
parse_upload_validation(v) == Has(v, "upload.script") /\ v["upload.script"] \notin Missing
parse_ini_protection(v) ==
  ~(Has(v, "ro") /\ Has(v, "rw")) /\ ~(Has(v, "ini.silent") /\ Has(v, "ini.drop"))

EntryNames(cfg) == {cfg.entries[i].name : i \in DOMAIN cfg.entries}
parse_ini_entry(cfg, v) ==
  Has(v, "name") /\ v["name"] \notin EntryNames(cfg) /\ ~(Has(v, "ro") /\ Has(v, "rw"))

parse_cookie(v) ==
  /\ IF Has(v, "encrypt") THEN HasSecrets(v) ELSE Has(v, "samesite")
  /\ Has(v, "name") # Has(v, "name_r") /\ v["name"] # ""
  /\ v["samesite"] \in {Unset, "lax", "strict"}

\* MUTUALLY_EXCLUSIVE, the file name, and what the variable parser refuses.
Exclusive == {<<{"value"}, {"value_r"}>>, <<{"function_r"}, {"function"}>>, <<{"pos"}, {"param"}>>,
              <<{"argkey"}, {"value", "value_r"}>>, <<{"ret"}, {"param"}>>, <<{"ret"}, {"var"}>>,
              <<{"ret"}, {"value", "value_r"}>>}
parse_disabled_functions(v) ==
  Has(v, "disable") \/
  /\ \A p \in Exclusive : ~(HasSome(v, p[1]) /\ HasSome(v, p[2]))
  /\ HasSome(v, {"function", "function_r"})
  /\ v["filename"] \notin Relative
  /\ Has(v, "allow") # Has(v, "drop")
  /\ v["param"] \notin Malformed /\ v["var"] \notin Malformed \cup {""}

Accepts(cfg, d, v) ==
  /\ d \in DOMAIN Enables \cup {"disable_function"} => ~(Has(v, "enable") /\ Has(v, "disable"))
  /\ d = "session" => parse_session(v)
  /\ d = "global" => parse_global(v)
  /\ d = "upload_validation" => parse_upload_validation(v)
  /\ d = "ini_protection" => parse_ini_protection(v)
  /\ d = "ini" => parse_ini_entry(cfg, v)
  /\ d = "cookie" => parse_cookie(v)
  /\ d = "disable_function" => parse_disabled_functions(v)

Accepted(cfg, s) == s.d \in DOMAIN Table /\ LET r == Read(cfg, s) IN r.ok /\ Accepts(cfg, s.d, r.set)

-----------------------------------------------------------------------------
(* What an accepted rule changes.                                           *)

Switched(v, x) == CASE Has(v, "enable") -> On [] Has(v, "disable") -> Unset [] OTHER -> v[x]
XChecks(v) == CASE Has(v, "xchecks") -> On [] ~Has(v, "xchecks") /\ Has(v, "noxchecks") -> Unset
                [] OTHER -> v["roexec.xchecks"]

SettingAfter(d, v, g) ==
  CASE d \in DOMAIN Enables /\ g = Enables[d]             -> Switched(v, g)
    [] d = "readonly_exec" /\ g = "roexec.xchecks"        -> XChecks(v)
    [] d = "wrappers_whitelist" /\ g = "wrapper"          -> On
    [] d = "ini_protection" /\ g = "ini.ro"               -> v["ro"]
    [] OTHER                                              -> v[g]

Or(x, y) == IF x # Unset THEN x ELSE y
CookieOf(v) == [name |-> v["name"], name_r |-> v["name_r"], encrypt |-> v["encrypt"],
                samesite |-> v["samesite"], sim |-> v["sim"]]
SameCookie(c, e) == c.name = e.name /\ c.name_r = e.name_r

\* Slip: a second rule about a cookie replaces the first.
LastCookieWins(cookies, c) == Append(SelectSeq(cookies, LAMBDA e : ~SameCookie(c, e)), c)
\* A second rule about a cookie adds to the first, or goes behind the others.
MergeCookie(cookies, c) ==
  IF \E i \in DOMAIN cookies : SameCookie(c, cookies[i])
  THEN [i \in DOMAIN cookies |->
         IF ~SameCookie(c, cookies[i]) THEN cookies[i]
         ELSE [cookies[i] EXCEPT !.samesite = Or(c.samesite, @), !.encrypt = Or(c.encrypt, @),
                                 !.sim = Or(c.sim, @)]]
  ELSE Append(cookies, c)

EntryOf(v) == [name |-> v["name"], min |-> v["min"], set |-> v["set"], regexp |-> v["regexp"], sim |-> v["sim"],
               access |-> CASE Has(v, "ro") -> "ro" [] Has(v, "rw") -> "rw" [] OTHER -> Unset]

\* print is a construct like echo, and kept under its name.
FunctionOf(v) == IF v["function"] = "print" THEN "echo" ELSE v["function"]
RuleOf(v) == [x \in {y \in Locals : Has(v, y)} |-> IF x = "function" THEN FunctionOf(v) ELSE v[x]]

Parse(cfg, s) ==
  LET v == Read(cfg, s).set IN
  [set     |-> [g \in Globals |-> SettingAfter(s.d, v, g)],
   cookies |-> IF s.d = "cookie" THEN MergeCookie(cfg.cookies, CookieOf(v)) ELSE cfg.cookies,
   entries |-> IF s.d = "ini" THEN Append(cfg.entries, EntryOf(v)) ELSE cfg.entries,
   rules   |-> IF s.d = "disable_function" /\ ~Has(v, "disable") THEN Append(cfg.rules, RuleOf(v)) ELSE cfg.rules]
=============================================================================
