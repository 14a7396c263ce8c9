-------------------------------- MODULE SpClient --------------------------------
(* Values that leave the server and come back: cookies, encrypted by       *)
(* sp_setcookie and decrypted at the start of a request, and serialized    *)
(* values, signed by sp_serialize and checked by sp_unserialize. A script  *)
(* holds one text; a browser keeps the cookies, and may change them.       *)
(* <<v>> is the serialized value v, and <<v, s>> the same with a signature.*)
EXTENDS SpCrypt, Integers

CONSTANTS Names,      \* of cookies
          Agents, Env,
          Values,     \* what is serialized
          Junk,       \* a tail of 64 bytes that is no signature
          Configs

NoConfig == [key |-> None, cookies |-> <<>>, secure |-> FALSE,
             hmac |-> FALSE, simulation |-> FALSE, noclass |-> FALSE]

\* What stands in a text besides values: the key it is sealed under, a signature.
Signature(v, k) == [of |-> v, by |-> k]
Keys  == {Key(a, Env, c.key) : a \in Agents, c \in Configs}
Signs == {Signature(v, c.key) : v \in Values, c \in Configs}

\* No value looks like one of these, nor do they look like each other.
ASSUME KindsDiffer == /\ Values \cap (Keys \cup Signs \cup {None}) = {}
                      /\ Junk \notin Signs /\ None \notin Keys
                      /\ \A v \in Values, k \in Keys, c \in Configs : v # Signature(k, c.key)

VARIABLES
  cfg,        \* the configuration in force
  php83,      \* the module is built for PHP 8.3 or later
  jar,        \* the cookies of the browser: what it has of each name, or None
  given,      \* what scripts gave it: the key and the text of each cookie
  phase,      \* "idle", "request", "over" or "crashed"
  agent, https,
  seen,       \* the cookies the script sees
  text,       \* the text the script holds
  got,        \* the value it unserialized last, or None
  signed      \* the values that were signed, with the keys

vars == <<cfg, php83, jar, given, phase, agent, https, seen, text, got, signed>>

Array    == <<None>>       \* what PHP makes of a cookie named like name[]
Nothing  == [key |-> None, text |-> <<>>]
NoCookie == [text |-> <<>>, secure |-> FALSE, httponly |-> FALSE]
Empty    == [n \in Names |-> <<>>]

Init == /\ cfg = NoConfig /\ php83 \in BOOLEAN /\ jar = [n \in Names |-> NoCookie]
        /\ given = [n \in Names |-> Nothing] /\ phase = "idle" /\ agent \in Agents /\ https = FALSE
        /\ seen = Empty /\ text = <<>> /\ got = None /\ signed = {}

Load(c) == phase = "idle" /\ cfg' = c
           /\ UNCHANGED <<php83, jar, given, phase, agent, https, seen, text, got, signed>>

-----------------------------------------------------------------------------
(* Cookies *)

Secret == Key(agent, Env, cfg.key)

\* sp_lookup_cookie_config: the first rule whose name or expression matches.
Rule(c, n) == LET I == {i \in DOMAIN c.cookies : n \in c.cookies[i].names}
              IN IF I = {} THEN None ELSE c.cookies[CHOOSE i \in I : \A j \in I : i <= j]
\* The parser refuses a rule that encrypts when there is no key (SpConfig).
ASSUME EncryptionHasAKey ==
  \A c \in Configs, n \in Names : Rule(c, n) # None /\ Rule(c, n).encrypt => c.key # None
Encrypts(n) == Rule(cfg, n) # None /\ Rule(cfg, n).encrypt

\* decrypt_cookie
Decrypted(n, k) == IF cfg.key # None /\ Encrypts(n) /\ jar[n].text \notin {<<>>, Array}
                   THEN decrypt(jar[n].text, k, Rule(cfg, n).simulation)
                   ELSE Outcome("keep", jar[n].text)

\* RINIT decrypts the cookies, and one of them may end the request. A cookie
\* that is removed is one the script does not see.
Begin(a, s) ==
  /\ phase = "idle" /\ agent' = a /\ https' = s /\ text' = <<>> /\ got' = None
  /\ LET new == [n \in Names |-> Decrypted(n, Key(a, Env, cfg.key))]
     IN IF \E n \in Names : new[n].ret = "drop" THEN phase' = "over" /\ seen' = Empty
        ELSE /\ phase' = "request"
             /\ seen' = [n \in Names |-> IF new[n].ret = "keep" THEN new[n].text ELSE <<>>]
  /\ UNCHANGED <<cfg, php83, jar, given, signed>>

End == /\ phase \in {"request", "over", "crashed"} /\ phase' = "idle" /\ seen' = Empty /\ text' = <<>> /\ got' = None
       /\ UNCHANGED <<cfg, php83, jar, given, agent, https, signed>>

Cookie(n, value, secure) ==
  [text |-> IF Encrypts(n) THEN encrypt(value, Secret) ELSE value, secure |-> secure,
   httponly |-> Encrypts(n)]

\* sp_setcookie, with the parameters it gets one by one or in an array. PHP takes
\* a cookie without a text away. A script does not pass on what came back sealed.
Setcookie(n, value, secure) ==
  /\ phase = "request" /\ (value # <<>> => Head(value) \in Values)
  /\ LET new == Cookie(n, value, secure \/ (cfg.secure /\ https))
     IN jar' = [jar EXCEPT ![n] = IF new.text = <<>> THEN NoCookie ELSE new]
  /\ given' = [given EXCEPT ![n] = IF Encrypts(n) THEN [key |-> Secret, text |-> value] ELSE Nothing]
  /\ UNCHANGED <<cfg, php83, phase, agent, https, seen, text, got, signed>>

\* setcookie without a value takes the cookie away.
Removecookie(n) == /\ phase = "request" /\ jar' = [jar EXCEPT ![n] = NoCookie]
                   /\ given' = [given EXCEPT ![n] = Nothing]
                   /\ UNCHANGED <<cfg, php83, phase, agent, https, seen, text, got, signed>>

\* The browser has a cookie of its own making: from before, from another page.
Foreign(n, t) == /\ phase = "idle" /\ jar' = [jar EXCEPT ![n] = [NoCookie EXCEPT !.text = t]]
                 /\ given' = [given EXCEPT ![n] = Nothing]
                 /\ UNCHANGED <<cfg, php83, phase, agent, https, seen, text, got, signed>>

\* The script takes the value of a cookie.
Take(n) == /\ phase = "request" /\ seen[n] # Array /\ text' = seen[n]
           /\ UNCHANGED <<cfg, php83, jar, given, phase, agent, https, seen, got, signed>>

-----------------------------------------------------------------------------
(* Serialized values *)

Checks(c) == c.hmac /\ (c.key # None \/ c.noclass)   \* the functions are hooked, and look at signatures

\* sp_serialize reads the key without looking whether there is one.
Serialize(v) ==
  /\ phase = "request"
  /\ IF Checks(cfg) /\ cfg.key = None THEN phase' = "crashed" /\ UNCHANGED <<text, signed>>
     ELSE /\ text' = (IF Checks(cfg) THEN <<v, Signature(v, cfg.key)>> ELSE <<v>>)
          /\ signed' = (IF Checks(cfg) THEN signed \cup {Signature(v, cfg.key)} ELSE signed)
          /\ UNCHANGED phase
  /\ UNCHANGED <<cfg, php83, jar, given, agent, https, seen, got>>

\* What PHP makes of a text: it does not mind what follows the value. FALSE is
\* what it makes of anything else.
Value(t) == IF t # <<>> /\ Head(t) \in Values THEN Head(t) ELSE "false"

\* Slip: the length of the value counts, not the one of the text.
TooShortValue(t) == IF t = <<>> THEN TRUE ELSE Head(t) \in Short
TooShort(t) == IF t = <<>> THEN TRUE ELSE Len(t) = 1 /\ Head(t) \in Short
\* What is left without the last 64 bytes, which break a value that has no tail.
Body(t)     == IF Len(t) = 1 THEN <<>> ELSE SubSeq(t, 1, Len(t) - 1)
\* Slip: the signature is looked at, but not what it is of.
ValidAnywhere(t, k) == Len(t) = 2 /\ \E v \in Values : t[2] = Signature(v, k)
Valid(t, k) == Len(t) = 2 /\ t[2] = Signature(t[1], k)

Checked(t) == IF php83 THEN Body(t) ELSE t

\* sp_unserialize
Unserialize ==
  /\ phase = "request"
  /\ \/ /\ cfg.noclass \/ ~Checks(cfg) \/ (TooShort(text) /\ cfg.simulation)
        /\ got' = Value(text) /\ UNCHANGED phase
     \/ /\ Checks(cfg) /\ ~cfg.noclass /\ ~TooShort(text) /\ (Valid(text, cfg.key) \/ cfg.simulation)
        /\ got' = Value(Checked(text)) /\ UNCHANGED phase
     \/ /\ Checks(cfg) /\ ~cfg.noclass /\ ~cfg.simulation /\ (TooShort(text) \/ ~Valid(text, cfg.key))
        /\ phase' = "over" /\ UNCHANGED got
  /\ UNCHANGED <<cfg, php83, jar, given, agent, https, seen, text, signed>>

Next == \/ \E c \in Configs : Load(c)
        \/ \E a \in Agents, s \in BOOLEAN : Begin(a, s)
        \/ \E n \in Names, s \in BOOLEAN : Setcookie(n, text, s)
        \/ \E n \in Names : Removecookie(n) \/ Take(n)
        \/ \E n \in Names : Foreign(n, Array)
        \/ \E n \in Names, v \in Values, tail \in signed \cup {Junk} : Foreign(n, <<v>>) \/ Foreign(n, <<v, tail>>)
        \/ \E v \in Values : Serialize(v)
        \/ Unserialize \/ End

Spec == Init /\ [][Next]_vars

-----------------------------------------------------------------------------
(* Properties *)

\* Texts: what scripts put together, what a browser sends as an array, what is
\* sealed.
Plain == {<<>>} \cup {<<v>> : v \in Values} \cup {<<v, s>> : v \in Values, s \in signed \cup {Junk}}
Texts == Plain \cup {Array} \cup {encrypt(t, k) : t \in Plain, k \in Keys}
TypeOK == /\ cfg \in Configs \cup {NoConfig} /\ phase \in {"idle", "request", "over", "crashed"}
          /\ agent \in Agents /\ https \in BOOLEAN /\ php83 \in BOOLEAN
          /\ jar \in [Names -> [text : Texts, secure : BOOLEAN, httponly : BOOLEAN]]
          /\ given \in [Names -> [key : Keys \cup {None}, text : Plain]]
          /\ seen \in [Names -> Texts] /\ text \in Texts
          /\ got \in Values \cup {"false", None} /\ signed \subseteq Signs

\* Of a cookie that is encrypted a script sees what a script gave under the key
\* that this client and its secret make, and it does see that. A value from
\* elsewhere or from before is not seen (decrypt_cookie, sp_setcookie: both find
\* the same rule).
SeesWhatWasGiven ==
  [][\A n \in Names :
       phase = "idle" /\ phase' = "request" /\ Encrypts(n) /\ ~Rule(cfg, n).simulation /\ jar[n].text # Array =>
         LET mine == given[n].key = Key(agent', Env, cfg.key)
         IN /\ mine => seen'[n] = given[n].text
            /\ ~mine => seen'[n] = <<>>]_vars

\* Outside of simulation only values that a script signed under this key are
\* unserialized, however the client mixes values and signatures.
OnlySignedValues ==
  [][got' # got /\ got' # None /\ Checks(cfg) /\ ~cfg.noclass /\ ~cfg.simulation =>
       Signature(got', cfg.key) \in signed]_vars

\* A value that was signed under the key is unserialized as it was, also once
\* signatures are not checked any more.
SignedValuesAreRead ==
  [][\A v \in Values, c \in Configs :
       /\ phase = "request" /\ text = <<v, Signature(v, c.key)>>
       /\ c.key = cfg.key \/ ~Checks(cfg)
       => phase' # "over" /\ got' \in {got, v, None}]_vars

\* doc/source/features.rst:161, which the code does not do: in simulation a
\* value from before there were signatures is still unserialized as it was.
LegacyValuesAreRead ==
  [][got' # got /\ got' # None /\ cfg.simulation /\ Len(text) = 1 /\ Head(text) \in Values => got' = Head(text)]_vars
=============================================================================
