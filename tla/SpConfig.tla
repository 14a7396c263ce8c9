------------------------------- MODULE SpConfig -------------------------------
(* sp_load_config, sp_parse_config and the scanner: the files of a         *)
(* configuration are read one after the other, statement by statement,     *)
(* and the rules in force applied. The text of the files is not known      *)
(* beforehand: the next statement is any of Statements.                    *)
EXTENDS SpKeywords

CONSTANTS Statements, MAX_KEYWORDS, MAX_CONDITIONS,
          Predefined,     \* the variables every file starts with
          Atoi,           \* the number a text starts with
          MaxText,        \* bound on the statements of a load
          MaxFiles        \* bound on its files

\* A rule is a directive with its keywords, and what is written, in a keyword
\* or as the value of a variable, is there.
ASSUME RulesAreWritten ==
  \A s \in Statements : s.t = "rule" =>
    /\ s = [t |-> "rule", d |-> s.d, kws |-> s.kws] /\ s.kws \in Seq(Range(s.kws))
    /\ \A i \in DOMAIN s.kws : s.kws[i].v # Unset
ASSUME VariablesAreWritten ==
  /\ Predefined \in [DOMAIN Predefined -> Range(Predefined)] /\ Unset \notin Range(Predefined)
  /\ \A s \in Statements : s.t = "set" => s.v # Unset

Yard == INSTANCE SpCond

VARIABLES phase,   \* "none", "reading", "loaded" or "broken"
          cfg,     \* the configuration in force, or being read
          file,    \* the file being read
          cond,    \* whether a condition is open, and the value in cond_res[0]
          vars_,   \* the variables of the file
          text     \* the statements met in this load, with their file

vars == <<phase, cfg, file, cond, vars_, text>>

Met(s)  == text' = Append(text, [file |-> file, s |-> s])
NewFile == cond' = [open |-> FALSE, value |-> 1] /\ vars_' = Predefined

Init == /\ phase = "none" /\ cfg = Blank /\ file = 0 /\ text = <<>>
        /\ cond = [open |-> FALSE, value |-> 1] /\ vars_ = Predefined

\* Slip: sp_free_config forgets one of the settings.
LoadOver == /\ phase # "reading" /\ phase' = "reading" /\ file' = 1 /\ text' = <<>> /\ NewFile
            /\ cfg' = [Defaults EXCEPT !.set["env"] = cfg.set["env"]]
\* The directive is applied, for the first time or again.
Load == /\ phase # "reading" /\ phase' = "reading" /\ file' = 1 /\ text' = <<>> /\ NewFile
        /\ cfg' = Defaults

Reading == phase = "reading" /\ Len(text) < MaxText
InForce == cond.value # 0

\* sp_config_failed: nothing that was read stays.
Break == phase' = "broken" /\ cfg' = Blank /\ UNCHANGED <<file, cond, vars_>>

\* The argument of a keyword may be the name of a variable.
Known(kw, V)     == kw.form = "var" => kw.v \in DOMAIN V
Written(kw, V)   == IF kw.form = "var" THEN [k |-> kw.k, form |-> "text", v |-> V[kw.v]] ELSE kw
Resolved(s, V)   == [s EXCEPT !.kws = [i \in DOMAIN s.kws |-> Written(s.kws[i], V)]]
Readable(s, V)   == 1 + Len(s.kws) <= MAX_KEYWORDS /\ \A i \in DOMAIN s.kws : Known(s.kws[i], V)

RuleIsFine(s) == Readable(s, vars_) /\ Accepted(cfg, Resolved(s, vars_))

Rule(s) == /\ Reading /\ s.t = "rule" /\ InForce /\ RuleIsFine(s)
           /\ cfg' = Parse(cfg, Resolved(s, vars_))
           /\ Met(s) /\ UNCHANGED <<phase, file, cond, vars_>>

\* A statement that is not in force is read and forgotten, whatever it says.
Skip(s) == /\ Reading /\ s.t \in {"rule", "set", "error"} /\ ~InForce
           /\ Met(s) /\ UNCHANGED <<phase, cfg, file, cond, vars_>>

Set(s) == /\ Reading /\ s.t = "set" /\ InForce
          /\ vars_' = Besides([x \in {s.var} |-> s.v], vars_)
          /\ Met(s) /\ UNCHANGED <<phase, cfg, file, cond>>

\* A token of a condition is a number, an operator, or the name of a variable.
Number(t, V)   == IF t[1] = "var" THEN <<"num", Atoi[V[t[2]]]>> ELSE t
Yields(s, V)   == Yard!Condition([i \in DOMAIN s.tokens |-> Number(s.tokens[i], V)])
Decidable(s, V) == /\ \A i \in DOMAIN s.tokens : s.tokens[i][1] = "var" => s.tokens[i][2] \in DOMAIN V
                   /\ Yields(s, V).at = "done"

Condition(s) == /\ Reading /\ s.t = "condition" /\ ~cond.open /\ Decidable(s, vars_)
                /\ cond' = [open |-> TRUE, value |-> Yields(s, vars_).res[1]]
                /\ Met(s) /\ UNCHANGED <<phase, cfg, file, vars_>>

\* Slip: cond_res[0] is left as it is.
EndKeepsValue(s) == /\ Reading /\ s.t = "end_condition" /\ cond' = [cond EXCEPT !.open = FALSE]
                    /\ Met(s) /\ UNCHANGED <<phase, cfg, file, vars_>>
EndCondition(s) == /\ Reading /\ s.t = "end_condition"
                   /\ cond' = [open |-> FALSE, value |-> 1]
                   /\ Met(s) /\ UNCHANGED <<phase, cfg, file, vars_>>

Refuse(s) == /\ Reading
             /\ \/ s.t = "rule" /\ InForce /\ ~RuleIsFine(s)
                \/ s.t = "error" /\ InForce
                \/ s.t = "condition" /\ cond.open
                \/ s.t = "condition" /\ ~cond.open /\ ~Decidable(s, vars_)
             /\ Met(s) /\ Break

AtStart == \A i \in DOMAIN text : text[i].file < file

\* fopen fails, or the pattern cannot be expanded.
Unreadable == phase = "reading" /\ AtStart /\ Break /\ UNCHANGED text

\* The text ends inside of its last rule: the rule is processed, and the
\* scanner, which has read the end as part of it, goes on behind the text.
\* What it finds there may be an error, or an end (EndOfFile).
RunOff == phase = "reading" /\ ~AtStart /\ Last(text).s.t = "rule" /\ Break /\ UNCHANGED text

\* A condition that is still open ends with its file.
EndOfFile == /\ phase = "reading"
             /\ \/ file < MaxFiles /\ file' = file + 1 /\ UNCHANGED phase
                \/ phase' = "loaded" /\ UNCHANGED file
             /\ NewFile /\ UNCHANGED <<cfg, text>>

Next == \/ \E s \in Statements : Rule(s) \/ Skip(s) \/ Set(s) \/ Condition(s) \/ EndCondition(s) \/ Refuse(s)
        \/ Load \/ Unreadable \/ RunOff \/ EndOfFile

Spec == Init /\ [][Next]_vars

-----------------------------------------------------------------------------
(* The text read as a whole: which of its statements are in force, and with *)
(* which variables.                                                         *)

Latest(S) == CHOOSE i \in S : \A j \in S : j <= i
Earlier(i, T) == {j \in 1..i - 1 : text[j].file = text[i].file /\ text[j].s.t \in T}

\* The variables at statement i, when Applies says of the ones before whether
\* they are in force.
VarsBy(Applies(_), i) ==
  LET sets(x) == {j \in Earlier(i, {"set"}) : Applies(j) /\ text[j].s.var = x}
      names   == {text[j].s.var : j \in Earlier(i, {"set"})}
  IN  Besides([x \in {y \in names : sets(y) # {}} |-> text[Latest(sets(x))].s.v], Predefined)

\* Outside of a condition, or inside of one that holds.
Applies[i \in 1..Len(text)] ==
  LET marks == Earlier(i, {"condition", "end_condition"})
      c     == Latest(marks)
  IN  \/ marks = {}
      \/ text[c].s.t = "end_condition"
      \/ text[c].s.t = "condition" /\ Yields(text[c].s, VarsBy(LAMBDA j : Applies[j], c)).res[1] # 0

VarsAt(i) == VarsBy(LAMBDA j : Applies[j], i)
\* The rules in force, in their order, and what they make of the defaults.
InForceRules ==
  LET Upto[i \in 0..Len(text)] ==
        IF i = 0 THEN <<>>
        ELSE IF text[i].s.t = "rule" /\ Applies[i] THEN Append(Upto[i - 1], Resolved(text[i].s, VarsAt(i)))
        ELSE Upto[i - 1]
  IN  Upto[Len(text)]
Parsed(rules) ==
  LET Upto[i \in 0..Len(rules)] == IF i = 0 THEN Defaults ELSE Parse(Upto[i - 1], rules[i])
  IN  Upto[Len(rules)]

InUse  == phase \in {"reading", "loaded"}
KeywordsOf(r) == {r.kws[i].k : i \in DOMAIN r.kws}
TextOf(r, k)  == (CHOOSE i \in DOMAIN r.kws : r.kws[i].k = k)

\* The rules about a cookie, those of them that have a keyword, and its argument.
About(r, name)        == r.d = "cookie" /\ \E i \in DOMAIN r.kws : r.kws[i].k = "name" /\ r.kws[i].v = name
Giving(rules, name, k) == {x \in DOMAIN rules : About(rules[x], name) /\ k \in KeywordsOf(rules[x])}
Says(r, k)            == r.kws[TextOf(r, k)].v

-----------------------------------------------------------------------------
(* Properties *)

\* The configuration is made from the defaults by the rules of this load that
\* are in force, in their order, and by nothing else: neither by what an
\* earlier load left, nor by a condition or a variable of another file
\* (sp_free_config, the variables and the condition of sp_config_scan).
OnlyTheTextCounts ==
  InUse => cfg = Parsed(InForceRules)

\* However the rules are ordered and conditioned, nothing is to be encrypted
\* without a usable key and the variable that goes with it (parse_session,
\* parse_cookie, parse_global).
EncryptionHasSecrets ==
  cfg.set["session.encrypt"] = On \/ (\E i \in DOMAIN cfg.cookies : cfg.cookies[i].encrypt = On)
    => /\ cfg.set["env"] # Unset /\ cfg.set["key"] # Unset
       /\ cfg.set["key"] \notin WeakKeys

\* The rules about one cookie are one: it is encrypted if any of them says so,
\* and the last one that gives a samesite gives the samesite (parse_cookie).
CookieRulesAddUp ==
  InUse => \A i \in DOMAIN cfg.cookies :
    LET c         == cfg.cookies[i]
        encrypts  == Giving(InForceRules, c.name, "encrypt")
        samesites == Giving(InForceRules, c.name, "samesite")
    IN  c.name_r = Unset =>
          /\ (c.encrypt = On) <=> encrypts # {}
          /\ samesites = {} => c.samesite = Unset
          /\ samesites # {} => c.samesite = Says(InForceRules[Latest(samesites)], "samesite")
          /\ \A j \in DOMAIN cfg.cookies : SameCookie(c, cfg.cookies[j]) => j = i

=============================================================================
