----------------------------- MODULE SpConfigProofs -----------------------------
(* Proofs about SpConfig: for any files and any statements in them, the    *)
(* configuration is what the rules in force make of the defaults, nothing  *)
(* is to be encrypted without its secrets, and the rules about a cookie    *)
(* add up. The recursive functions of SpConfig are shown to exist, and to  *)
(* be what their definitions say, by induction over the natural numbers.   *)
EXTENDS SpConfig, SequenceTheorems, WellFoundedInduction, TLAPS


(* Induction over the natural numbers, for sets of them.                   *)

\* A set of natural numbers has a least one.
LEMMA LeastNumber ==
  ASSUME NEW T \in SUBSET Nat, T # {}
  PROVE  \E n \in T : \A m \in T : n <= m
<1> DEFINE R == OpToRel(<, Nat)
<1>1. IsWellFoundedOn(R, Nat)  BY NatLessThanWellFounded
<1>2. \A x, y \in Nat : <<y, x>> \in R <=> y < x  BY DEF OpToRel
<1> HIDE DEF R
<1>3. \E x \in T : \A y \in T : ~(<<y, x>> \in R)  BY <1>1, WFMin
<1>4. \A x, y \in T : ~(<<y, x>> \in R) => x <= y  BY <1>2
<1> QED  BY <1>3, <1>4

\* A set that has 0, and with each number the next, has them all.
LEMMA Induction ==
  ASSUME NEW T, 0 \in T, \A n \in Nat : n \in T => n + 1 \in T
  PROVE  Nat \subseteq T
<1> DEFINE U == {n \in Nat : n \notin T}
<1> SUFFICES ASSUME U # {} PROVE FALSE  OBVIOUS
<1>1. PICK n \in U : \A m \in U : n <= m  BY LeastNumber
<1>2. n # 0 /\ n \in Nat /\ n - 1 \in Nat  OBVIOUS
<1>3. n - 1 \notin U  BY <1>1, <1>2
<1> QED  BY <1>2, <1>3

-----------------------------------------------------------------------------
(* sp_process_rule                                                         *)

\* What Read begins with: the settings, and its local variables unset.
Start(c) == [ok |-> TRUE, stop |-> FALSE, set |-> Besides(c.set, [l \in Locals |-> Unset])]

\* f is the function Read computes, as far as n.
Reads(f, c, s, n) ==
  f = [i \in 0..n |-> IF i = 0 THEN Start(c) ELSE Take(Table[s.d], f[i - 1], s.kws[i])]

\* There is such a function: it is made one keyword at a time.
LEMMA ReadsExist == ASSUME NEW c, NEW s, NEW n \in Nat PROVE \E f : Reads(f, c, s, n)
<1> DEFINE T == {m \in Nat : \E f : Reads(f, c, s, m)}
<1>1. Reads([i \in 0..0 |-> Start(c)], c, s, 0)  BY DEF Reads
<1>2. ASSUME NEW m \in Nat, m \in T PROVE m + 1 \in T
  <2>1. PICK f : Reads(f, c, s, m)  BY <1>2
  <2> DEFINE g   == [i \in 0..m + 1 |-> IF i <= m THEN f[i] ELSE Take(Table[s.d], f[m], s.kws[m + 1])]
             rhs == [i \in 0..m + 1 |-> IF i = 0 THEN Start(c) ELSE Take(Table[s.d], g[i - 1], s.kws[i])]
  <2>2. ASSUME NEW i \in 0..m + 1 PROVE g[i] = rhs[i]
    <3>1. CASE i = m + 1  BY <3>1
    <3>2. CASE i # m + 1
      <4>1. i \in 0..m /\ g[i] = f[i]  BY <3>2
      <4>2. i > 0 => g[i - 1] = f[i - 1]  BY <4>1
      <4>3. f[i] = IF i = 0 THEN Start(c) ELSE Take(Table[s.d], f[i - 1], s.kws[i])
        BY <2>1, <4>1 DEF Reads
      <4> QED  BY <4>1, <4>2, <4>3
    <3> QED  BY <3>1, <3>2
  <2>3. g = rhs  BY <2>2
  <2>4. Reads(g, c, s, m + 1)  BY <2>3 DEF Reads
  <2> QED  BY <2>4
<1>3. n \in T  BY <1>1, <1>2, Induction
<1> QED  BY <1>3

\* Read is where that function ends.
LEMMA ReadIs ==
  ASSUME NEW c, NEW s, Len(s.kws) \in Nat
  PROVE  \E f : Reads(f, c, s, Len(s.kws)) /\ Read(c, s) = f[Len(s.kws)]
<1> DEFINE Upto[i \in 0..Len(s.kws)] ==
        IF i = 0 THEN [ok |-> TRUE, stop |-> FALSE, set |-> Besides(c.set, [l \in Locals |-> Unset])]
        ELSE Take(Table[s.d], Upto[i - 1], s.kws[i])
<1>0. \E f : Reads(f, c, s, Len(s.kws))  BY ReadsExist
<1>1. Reads(Upto, c, s, Len(s.kws))  BY <1>0 DEF Reads, Start
<1>2. Read(c, s) = Upto[Len(s.kws)]  BY DEF Read
<1> HIDE DEF Upto
<1> QED  BY <1>1, <1>2

-----------------------------------------------------------------------------
(* Where the secrets are                                                   *)

\* sp_func in sp_process_rule
Directives == {"harden_random", "xxe_protection", "unserialize_noclass", "unserialize_hmac", "readonly_exec",
  "upload_validation", "session", "global", "eval_blacklist", "eval_whitelist", "wrappers_whitelist",
  "ini_protection", "ini", "cookie", "disable_function"}

\* The table has a row for each directive.
LEMMA TableOf == DOMAIN Table = Directives
BY DEF Table, Directives

\* The place of a keyword of a directive that is neither global nor session.
Reserved == {"key", "env", "session.encrypt"}
Aside(row) == \A k \in DOMAIN row : row[k][2] \notin Reserved

\* No directive but global and session has a keyword that fills a secret.
LEMMA PlacesElsewhere == \A d \in DOMAIN Table \ {"global", "session"} : Aside(Table[d])
<1> USE DEF Table, Aside, Str, Flag, Reserved
<1>1. Aside(EnableTable)  BY DEF EnableTable
<1>2. \A f, g : Aside(f) /\ Aside(g) => Aside(Besides(f, g))  BY DEF Besides
<1>3. Aside(Table["harden_random"]) /\ Aside(Table["xxe_protection"]) /\ Aside(Table["unserialize_noclass"])
  BY <1>1
<1>4. Aside(Table["unserialize_hmac"])  BY <1>1, <1>2
<1>5. Aside(Table["readonly_exec"])  BY DEF Besides, EnableTable
<1>6. Aside(Table["upload_validation"])  BY DEF Besides, EnableTable
<1>7. Aside(Table["ini_protection"])  BY DEF Besides, EnableTable
<1>8. Aside(Table["eval_blacklist"]) /\ Aside(Table["eval_whitelist"])  OBVIOUS
<1>9. Aside(Table["wrappers_whitelist"])  OBVIOUS
<1>10. Aside(Table["ini"])  OBVIOUS
<1>11. Aside(Table["cookie"])  OBVIOUS
<1>12. Aside(Table["disable_function"])  BY DEF Besides, EnableTable
<1> HIDE DEF Table, Aside
<1> QED  BY <1>3, <1>4, <1>5, <1>6, <1>7, <1>8, <1>9, <1>10, <1>11, <1>12, TableOf DEF Directives

\* A place only keywords of the row that are given once fill, and that is
\* filled already, or that none fills, keeps its value.
Kept(row, start, x) == \A k \in DOMAIN row : row[k][2] = x => row[k][1] \in Once /\ start[x] # Unset

\* One keyword leaves such a place as it is.
LEMMA TakeKeeps ==
  ASSUME NEW row, NEW a, NEW kw, NEW x \in DOMAIN a.set, Kept(row, a.set, x),
         DOMAIN a = {"ok", "stop", "set"}
  PROVE  /\ DOMAIN Take(row, a, kw).set = DOMAIN a.set
         /\ Take(row, a, kw).set[x] = a.set[x]
         /\ DOMAIN Take(row, a, kw) = {"ok", "stop", "set"}
<1>1. Take(row, a, kw) = a \/ Take(row, a, kw) = [a EXCEPT !.ok = FALSE] \/ (kw.k \in DOMAIN row /\ Expected(row, a.set, kw))
  BY DEF Take, Expected
<1>2. CASE kw.k \in DOMAIN row /\ Expected(row, a.set, kw)
  <2>1. row[kw.k][2] # x  BY <1>2 DEF Kept, Expected, Once
  <2> QED  BY <1>1, <1>2, <2>1 DEF Take
<1> QED  BY <1>1, <1>2

\* So do all the keywords of a rule.
LEMMA ReadKeeps ==
  ASSUME NEW c, NEW s, Len(s.kws) \in Nat, NEW x \in DOMAIN Start(c).set, Kept(Table[s.d], Start(c).set, x)
  PROVE  Read(c, s).set[x] = Start(c).set[x]
<1>1. PICK f : Reads(f, c, s, Len(s.kws)) /\ Read(c, s) = f[Len(s.kws)]  BY ReadIs
<1> DEFINE Q(a) == /\ DOMAIN a.set = DOMAIN Start(c).set /\ a.set[x] = Start(c).set[x]
                   /\ DOMAIN a = {"ok", "stop", "set"}
           T == {m \in Nat : m <= Len(s.kws) => Q(f[m])}
<1>2. 0 \in T
  <2>1. f[0] = Start(c)  BY <1>1 DEF Reads
  <2>2. DOMAIN Start(c) = {"ok", "stop", "set"}  BY DEF Start
  <2> QED  BY <2>1, <2>2
<1>3. ASSUME NEW m \in Nat, m \in T PROVE m + 1 \in T
  <2> SUFFICES ASSUME m + 1 <= Len(s.kws) PROVE Q(f[m + 1])  OBVIOUS
  <2>1. Q(f[m])  BY <1>3
  <2>2. f[m + 1] = Take(Table[s.d], f[m], s.kws[m + 1])
    <3>1. m + 1 \in 0..Len(s.kws) /\ m + 1 # 0 /\ (m + 1) - 1 = m  OBVIOUS
    <3> QED  BY <1>1, <3>1 DEF Reads
  <2>3. Kept(Table[s.d], f[m].set, x) /\ x \in DOMAIN f[m].set /\ DOMAIN f[m] = {"ok", "stop", "set"}
    BY <2>1 DEF Kept
  <2> DEFINE a == f[m]
             kw == s.kws[m + 1]
             row == Table[s.d]
  <2>4. a = f[m] /\ row = Table[s.d] /\ f[m + 1] = Take(row, a, kw)  BY <2>2
  <2> HIDE DEF a, kw, row
  <2>5. Kept(row, a.set, x) /\ x \in DOMAIN a.set /\ DOMAIN a = {"ok", "stop", "set"}  BY <2>3, <2>4
  <2>6. /\ DOMAIN Take(row, a, kw).set = DOMAIN a.set /\ Take(row, a, kw).set[x] = a.set[x]
        /\ DOMAIN Take(row, a, kw) = {"ok", "stop", "set"}
    BY <2>5, TakeKeeps
  <2> QED  BY <2>1, <2>4, <2>6
<1>4. Nat \subseteq T
  <2> HIDE DEF T
  <2> QED  BY <1>2, <1>3, Induction
<1>5. Q(f[Len(s.kws)])  BY <1>4
<1> QED  BY <1>1, <1>5

-----------------------------------------------------------------------------
(* Secrets                                                                 *)

\* The fields of a cookie, what a list of them is, and what holds of a
\* configuration that is in force or being read: whatever is to be encrypted
\* has its secrets, and the key is not a weak one.
CookieFields == {"name", "name_r", "encrypt", "samesite", "sim"}
IsSeq(q) == \E S : q \in Seq(S)
CookiesOk(c) == IsSeq(c.cookies) /\ \A i \in 1..Len(c.cookies) : DOMAIN c.cookies[i] = CookieFields
SecretsHeld(c) ==
  /\ DOMAIN c.set = Globals
  /\ Has(c.set, "key") => c.set["key"] \notin WeakKeys
  /\ c.set["session.encrypt"] = On => HasSecrets(c.set)
  /\ \A i \in 1..Len(c.cookies) : c.cookies[i].encrypt = On => HasSecrets(c.set)

\* What Append does to a list.
LEMMA AppendIs ==
  ASSUME NEW q, IsSeq(q), NEW e
  PROVE  /\ IsSeq(Append(q, e)) /\ Len(q) \in Nat /\ Len(Append(q, e)) = Len(q) + 1
         /\ \A i \in 1..Len(q) : Append(q, e)[i] = q[i]
         /\ Append(q, e)[Len(q) + 1] = e
<1>1. PICK S : q \in Seq(S)  BY DEF IsSeq
<1>2. q \in Seq(S \cup {e})
  <2>1. Len(q) \in Nat /\ q \in [1..Len(q) -> S \cup {e}]  BY <1>1, LenProperties
  <2> QED  BY <2>1, SeqDef
<1>3. Append(q, e) \in Seq(S \cup {e})  BY <1>2, AppendProperties
<1> QED  BY <1>2, <1>3, AppendProperties, LenProperties DEF IsSeq

\* The key and the variable are given at most once, by global; the flag of the
\* session is set by session.
LEMMA RowsOfSecrets ==
  /\ \A k \in DOMAIN Table["global"] : Table["global"][k][2] \in {"key", "env"} => Table["global"][k][1] \in Once
  /\ \A k \in DOMAIN Table["global"] : Table["global"][k][2] # "session.encrypt"
  /\ \A k \in DOMAIN Table["session"] : Table["session"][k][2] \notin {"key", "env"}
BY DEF Table, Str, Flag, Once

\* A rule takes no secret away and gives none but by global, and encrypts the
\* session by session only.
LEMMA ReadSecrets ==
  ASSUME NEW c, DOMAIN c.set = Globals, NEW s, s.d \in DOMAIN Table, Len(s.kws) \in Nat
  PROVE  /\ \A x \in {"key", "env"} : Has(c.set, x) \/ s.d # "global" => Read(c, s).set[x] = c.set[x]
         /\ s.d # "session" => Read(c, s).set["session.encrypt"] = c.set["session.encrypt"]
<1>1. Reserved \subseteq Globals  BY DEF Reserved, Globals
<1>2. \A x \in Reserved : x \in DOMAIN Start(c).set /\ Start(c).set[x] = c.set[x]
  BY <1>1 DEF Start, Besides
<1>3. s.d \notin {"global", "session"} => Aside(Table[s.d])  BY PlacesElsewhere
<1>4. ASSUME NEW x \in {"key", "env"}, Has(c.set, x) \/ s.d # "global" PROVE Read(c, s).set[x] = c.set[x]
  <2>1. x \in Reserved  BY DEF Reserved
  <2>2. Kept(Table[s.d], Start(c).set, x)
    BY <1>2, <1>3, <1>4, <2>1, RowsOfSecrets DEF Kept, Aside, Has
  <2> QED  BY <1>2, <2>1, <2>2, ReadKeeps
<1>5. ASSUME s.d # "session" PROVE Read(c, s).set["session.encrypt"] = c.set["session.encrypt"]
  <2>1. "session.encrypt" \in Reserved  BY DEF Reserved
  <2>2. Kept(Table[s.d], Start(c).set, "session.encrypt")
    BY <1>2, <1>3, <1>5, <2>1, RowsOfSecrets DEF Kept, Aside
  <2> QED  BY <1>2, <2>1, <2>2, ReadKeeps
<1> QED  BY <1>4, <1>5

\* The secrets are no setting that a directive handles in its own way.
LEMMA ReservedAfter == ASSUME NEW d, NEW v, NEW g \in Reserved PROVE SettingAfter(d, v, g) = v[g]
<1>1. g \notin {"roexec.xchecks", "wrapper", "ini.ro"} /\ \A e \in DOMAIN Enables : Enables[e] # g
  BY DEF Reserved, Enables
<1> QED  BY <1>1 DEF SettingAfter

\* A cookie keeps its place and its name; only the one the rule is about
\* changes, and there is one in the end.
LEMMA MergeKeeps ==
  ASSUME NEW q, IsSeq(q), NEW e, DOMAIN e = CookieFields,
         \A i \in 1..Len(q) : DOMAIN q[i] = CookieFields
  PROVE  /\ IsSeq(MergeCookie(q, e)) /\ Len(MergeCookie(q, e)) \in Nat /\ Len(q) \in Nat
         /\ 1..Len(q) \subseteq 1..Len(MergeCookie(q, e))
         /\ \E i \in 1..Len(MergeCookie(q, e)) : SameCookie(e, MergeCookie(q, e)[i])
         /\ \A i \in 1..Len(MergeCookie(q, e)) :
              /\ DOMAIN MergeCookie(q, e)[i] = CookieFields
              /\ \/ /\ i = Len(q) + 1 /\ MergeCookie(q, e)[i] = e
                    /\ \A j \in 1..Len(q) : ~SameCookie(e, q[j])
                 \/ i \in 1..Len(q) /\ ~SameCookie(e, q[i]) /\ MergeCookie(q, e)[i] = q[i]
                 \/ /\ i \in 1..Len(q) /\ SameCookie(e, q[i]) /\ SameCookie(e, MergeCookie(q, e)[i])
                    /\ MergeCookie(q, e)[i].encrypt = Or(e.encrypt, q[i].encrypt)
                    /\ MergeCookie(q, e)[i].samesite = Or(e.samesite, q[i].samesite)
<1>1. PICK S : q \in Seq(S)  BY DEF IsSeq
<1>2. Len(q) \in Nat /\ DOMAIN q = 1..Len(q)  BY <1>1
<1>3. CASE \E i \in DOMAIN q : SameCookie(e, q[i])
  <2> DEFINE New(i) == IF ~SameCookie(e, q[i]) THEN q[i]
         ELSE [q[i] EXCEPT !.samesite = Or(e.samesite, @), !.encrypt = Or(e.encrypt, @), !.sim = Or(e.sim, @)]
             m == [i \in 1..Len(q) |-> New(i)]
             R == {New(i) : i \in 1..Len(q)}
  <2>1. MergeCookie(q, e) = m  BY <1>2, <1>3 DEF MergeCookie
  <2>2. m \in Seq(R)
    <3>1. \A i \in 1..Len(q) : New(i) \in R  OBVIOUS
    <3> HIDE DEF New, R
    <3>2. m \in [1..Len(q) -> R]  BY <3>1
    <3> HIDE DEF m
    <3> QED  BY <1>2, <3>2, SeqDef
  <2>3. Len(m) = Len(q)  BY <1>2
  <2>4. ASSUME NEW i \in 1..Len(q), SameCookie(e, q[i])
        PROVE  /\ DOMAIN New(i) = CookieFields /\ SameCookie(e, New(i))
               /\ New(i).encrypt = Or(e.encrypt, q[i].encrypt)
               /\ New(i).samesite = Or(e.samesite, q[i].samesite)
    BY <2>4 DEF SameCookie, CookieFields
  <2>5. \A i \in 1..Len(q) : m[i] = New(i) /\ (SameCookie(e, q[i]) \/ New(i) = q[i])  OBVIOUS
  <2> HIDE DEF m, New, R
  <2>6. IsSeq(m)  BY <2>2 DEF IsSeq
  <2>7. \E i \in 1..Len(m) : SameCookie(e, m[i])  BY <1>2, <1>3, <2>3, <2>4, <2>5
  <2> QED  BY <1>2, <2>1, <2>3, <2>4, <2>5, <2>6, <2>7
<1>4. CASE ~ \E i \in DOMAIN q : SameCookie(e, q[i])
  <2>1. MergeCookie(q, e) = Append(q, e)  BY <1>4 DEF MergeCookie
  <2>2. SameCookie(e, e)  BY DEF SameCookie
  <2> QED  BY <1>2, <1>4, <2>1, <2>2, AppendIs
<1> QED  BY <1>3, <1>4

\* A rule that is accepted keeps what holds of the configuration.
LEMMA ParseKeepsSecrets ==
  ASSUME NEW c, SecretsHeld(c), CookiesOk(c), NEW s, Len(s.kws) \in Nat, Accepted(c, s)
  PROVE  SecretsHeld(Parse(c, s)) /\ CookiesOk(Parse(c, s))
<1> DEFINE v == Read(c, s).set
           p == Parse(c, s)
           e == CookieOf(v)
<1>1. s.d \in DOMAIN Table /\ Accepts(c, s.d, v)  BY DEF Accepted
<1>2. /\ DOMAIN p.set = Globals /\ \A g \in Globals : p.set[g] = SettingAfter(s.d, v, g)
      /\ p.cookies = IF s.d = "cookie" THEN MergeCookie(c.cookies, e) ELSE c.cookies
  BY DEF Parse
<1>3. DOMAIN c.set = Globals  BY DEF SecretsHeld
<1>4. \A x \in {"key", "env"} : Has(c.set, x) \/ s.d # "global" => v[x] = c.set[x]
  BY <1>1, <1>3, ReadSecrets
<1>5. s.d # "session" => v["session.encrypt"] = c.set["session.encrypt"]
  BY <1>1, <1>3, ReadSecrets
<1> SUFFICES SecretsHeld(p) /\ CookiesOk(p)  OBVIOUS
<1> HIDE DEF v, p
<1>6. /\ p.set["key"] = v["key"] /\ p.set["env"] = v["env"]
      /\ p.set["session.encrypt"] = v["session.encrypt"]
  <2>1. Reserved \subseteq Globals  BY DEF Reserved, Globals
  <2> QED  BY <1>2, <2>1, ReservedAfter DEF Reserved
<1>7. HasSecrets(c.set) => HasSecrets(p.set)  BY <1>4, <1>6 DEF HasSecrets, Has
<1>8. Has(p.set, "key") => p.set["key"] \notin WeakKeys
  <2>1. CASE s.d = "global"  BY <1>1, <1>6, <2>1 DEF Accepts, parse_global
  <2>2. CASE s.d # "global"  BY <1>4, <1>6, <2>2 DEF SecretsHeld, Has
  <2> QED  BY <2>1, <2>2
<1>9. p.set["session.encrypt"] = On => HasSecrets(p.set)
  <2>1. CASE s.d = "session"
    BY <1>1, <1>6, <2>1, OnIsSet DEF Accepts, parse_session, HasSecrets, Has
  <2>2. CASE s.d # "session"  BY <1>5, <1>6, <1>7, <2>2 DEF SecretsHeld
  <2> QED  BY <2>1, <2>2
<1>10. IsSeq(c.cookies) /\ \A i \in 1..Len(c.cookies) : DOMAIN c.cookies[i] = CookieFields
  BY DEF CookiesOk
<1>11. DOMAIN e = CookieFields  BY DEF CookieOf, CookieFields
<1>12. CASE s.d = "cookie"
  <2>1. e.encrypt = On => HasSecrets(p.set)
    BY <1>1, <1>6, <1>12, OnIsSet DEF Accepts, parse_cookie, HasSecrets, Has, CookieOf
  <2> HIDE DEF e
  <2>2. p.cookies = MergeCookie(c.cookies, e)  BY <1>2, <1>12
  <2>3. CookiesOk(p)  BY <1>10, <1>11, <2>2, MergeKeeps DEF CookiesOk
  <2>4. \A i \in 1..Len(p.cookies) : p.cookies[i].encrypt = On => HasSecrets(p.set)
    <3> DEFINE m == MergeCookie(c.cookies, e)
    <3>1. p.cookies = m  BY <2>2
    <3>2. \A i \in 1..Len(c.cookies) : c.cookies[i].encrypt = On => HasSecrets(c.set)  BY DEF SecretsHeld
    <3>3. \A i \in 1..Len(m) :
             \/ m[i] = e
             \/ i \in 1..Len(c.cookies) /\ m[i] = c.cookies[i]
             \/ i \in 1..Len(c.cookies) /\ m[i].encrypt = Or(e.encrypt, c.cookies[i].encrypt)
      BY <1>10, <1>11, MergeKeeps
    <3> HIDE DEF m
    <3> SUFFICES ASSUME NEW i \in 1..Len(m), m[i].encrypt = On PROVE HasSecrets(p.set)  BY <3>1
    <3>4. \/ e.encrypt = On
          \/ i \in 1..Len(c.cookies) /\ c.cookies[i].encrypt = On
      BY <3>3 DEF Or
    <3> QED  BY <1>7, <2>1, <3>2, <3>4
  <2> QED  BY <1>2, <1>8, <1>9, <2>3, <2>4 DEF SecretsHeld
<1>13. CASE s.d # "cookie"
  <2>1. p.cookies = c.cookies  BY <1>2, <1>13
  <2> QED  BY <1>2, <1>7, <1>8, <1>9, <1>10, <2>1 DEF SecretsHeld, CookiesOk
<1> QED  BY <1>12, <1>13

\* Naming its variables changes neither the directive nor the keywords of a rule.
LEMMA ResolvedIs ==
  ASSUME NEW s \in Statements, s.t = "rule", NEW V
  PROVE  /\ Resolved(s, V).d = s.d
         /\ Len(Resolved(s, V).kws) = Len(s.kws) /\ Len(s.kws) \in Nat
         /\ DOMAIN Resolved(s, V).kws = 1..Len(Resolved(s, V).kws)
         /\ \A i \in 1..Len(s.kws) : Resolved(s, V).kws[i] = Written(s.kws[i], V)
<1>1. s = [t |-> "rule", d |-> s.d, kws |-> s.kws] /\ s.kws \in Seq(Range(s.kws))  BY RulesAreWritten
<1> DEFINE n == Len(s.kws)
           New(i) == Written(s.kws[i], V)
           q == [i \in 1..n |-> New(i)]
           R == {New(i) : i \in 1..n}
<1>2. n \in Nat /\ DOMAIN s.kws = 1..n  BY <1>1
<1>3. Resolved(s, V).kws = q /\ Resolved(s, V).d = s.d
  <2>1. Resolved(s, V) = [s EXCEPT !.kws = q]  BY <1>2 DEF Resolved
  <2>2. "d" \in DOMAIN s /\ "kws" \in DOMAIN s  BY <1>1
  <2> HIDE DEF q
  <2> QED  BY <2>1, <2>2
<1>4. \A i \in 1..n : New(i) \in R /\ q[i] = New(i)  OBVIOUS
<1>5. q \in [1..n -> R]  BY <1>4
<1>6. Len(q) = n
  <2> HIDE DEF q, R
  <2>1. q \in Seq(R)  BY <1>2, <1>5, SeqDef
  <2> QED  BY <1>2, <1>5, <2>1
<1> QED  BY <1>2, <1>3, <1>4, <1>6

\* The inductive invariant for the secrets.
SecretsInv == SecretsHeld(cfg) /\ CookiesOk(cfg)

\* It holds of a configuration without rules.
LEMMA BlankInv ==
  /\ SecretsHeld(Blank) /\ CookiesOk(Blank)
  /\ SecretsHeld(Defaults) /\ CookiesOk(Defaults)
<1>1. IsSeq(<<>>) /\ Len(<<>>) = 0
  <2>1. <<>> \in Seq({})  BY EmptySeq
  <2> QED  BY <2>1, EmptySeq DEF IsSeq
<1>2. Reserved \subseteq Globals /\ "roexec.xchecks" \notin Reserved  BY DEF Reserved, Globals
<1>3. /\ DOMAIN Blank.set = Globals /\ DOMAIN Defaults.set = Globals
      /\ \A x \in Reserved : Blank.set[x] = Unset /\ Defaults.set[x] = Unset
      /\ Blank.cookies = <<>> /\ Defaults.cookies = <<>>
  BY <1>2 DEF Blank, Defaults
<1> QED  BY <1>1, <1>3, OnIsSet DEF SecretsHeld, CookiesOk, Reserved, Has

\* Every step keeps it: a rule by ParseKeepsSecrets, the other statements leave
\* the configuration alone, a load and a failure begin again.
LEMMA SecretsNext == SecretsInv /\ [Next]_vars => SecretsInv'
<1> SUFFICES ASSUME SecretsInv, [Next]_vars PROVE SecretsInv'  OBVIOUS
<1>1. cfg' \in {cfg, Blank, Defaults} => SecretsInv'  BY BlankInv DEF SecretsInv
<1>2. ASSUME NEW s \in Statements, Rule(s) PROVE SecretsInv'
  <2>1. Accepted(cfg, Resolved(s, vars_)) /\ cfg' = Parse(cfg, Resolved(s, vars_))
    BY <1>2 DEF Rule, RuleIsFine
  <2>2. Len(Resolved(s, vars_).kws) \in Nat  BY <1>2, ResolvedIs DEF Rule
  <2> QED  BY <2>1, <2>2, ParseKeepsSecrets DEF SecretsInv
<1> QED  BY <1>1, <1>2 DEF Next, vars, Skip, Set, Condition, EndCondition, Refuse, Load, Unreadable, RunOff, EndOfFile, Break

\* What holds of the configuration in every state of SpConfig.
THEOREM SecretsInvariant == Spec => []SecretsInv
<1>1. Init => SecretsInv  BY BlankInv DEF Init, SecretsInv
<1> QED  BY <1>1, SecretsNext, PTL DEF Spec

\* Nothing is encrypted without a usable key and the variable that goes with
\* it, in whatever order the rules come (parse_session, parse_cookie,
\* parse_global).
THEOREM Secrets == Spec => []EncryptionHasSecrets
<1>1. SecretsInv => EncryptionHasSecrets
  <2> SUFFICES ASSUME SecretsInv PROVE EncryptionHasSecrets  OBVIOUS
  <2>1. DOMAIN cfg.cookies = 1..Len(cfg.cookies)
    BY DEF SecretsInv, CookiesOk, IsSeq
  <2> QED  BY <2>1 DEF SecretsInv, SecretsHeld, EncryptionHasSecrets, HasSecrets, Has
<1> QED  BY <1>1, SecretsInvariant, PTL

-----------------------------------------------------------------------------
(* The variables, and the condition that decides                           *)

\* The latest of some statements is one of them, and none is later.
LEMMA LatestIs ==
  ASSUME NEW n \in Nat, NEW S \in SUBSET (1..n), S # {}
  PROVE  Latest(S) \in S /\ \A j \in S : j <= Latest(S)
<1> DEFINE T == {n - j : j \in S}
<1>1. T \in SUBSET Nat /\ T # {}
  <2>1. \A j \in S : j \in 1..n /\ n - j \in Nat  OBVIOUS
  <2>2. \A t \in T : t \in Nat  BY <2>1
  <2>3. \E j \in S : n - j \in T  OBVIOUS
  <2> QED  BY <2>2, <2>3
<1>2. PICK t \in T : \A u \in T : t <= u  BY <1>1, LeastNumber
<1>3. PICK i \in S : t = n - i  OBVIOUS
<1>4. \A j \in S : j <= i
  <2> SUFFICES ASSUME NEW j \in S PROVE j <= i  OBVIOUS
  <2>1. t <= n - j  BY <1>2
  <2> QED  BY <1>3, <2>1
<1> QED  BY <1>4 DEF Latest

\* The definitions of SpConfig about the text, with what they depend on as
\* parameters: F says which statements of txt are in force, f is a file, and n
\* how many statements are read. That a statement is in force is decided by the
\* last condition before it, which depends on F for statements before that only.
Before(txt, f, n, T)  == {j \in 1..n : txt[j].file = f /\ txt[j].s.t \in T}
SetsIn(F, txt, f, n, x) == {j \in Before(txt, f, n, {"set"}) : F[j] /\ txt[j].s.var = x}
NamesIn(txt, f, n)    == {txt[j].s.var : j \in Before(txt, f, n, {"set"})}
VarsIn(F, txt, f, n) ==
  Besides([x \in {y \in NamesIn(txt, f, n) : SetsIn(F, txt, f, n, y) # {}} |->
             txt[Latest(SetsIn(F, txt, f, n, x))].s.v], Predefined)
Marks == {"condition", "end_condition"}
Holds(F, txt, f, n) ==
  LET marks == Before(txt, f, n, Marks)
      c     == Latest(marks)
  IN  \/ marks = {}
      \/ txt[c].s.t = "end_condition"
      \/ txt[c].s.t = "condition" /\ Yields(txt[c].s, VarsIn(F, txt, txt[c].file, c - 1)).res[1] # 0

\* Two texts, and what is in force of them, agree as far as n.
Agree(F, G, txt, uxt, n) == \A j \in 1..n : F[j] = G[j] /\ txt[j] = uxt[j]

\* Then the variables agree.
LEMMA VarsAgree ==
  ASSUME NEW F, NEW G, NEW txt, NEW uxt, NEW n \in Nat, Agree(F, G, txt, uxt, n), NEW f
  PROVE  VarsIn(F, txt, f, n) = VarsIn(G, uxt, f, n)
<1>1. Before(txt, f, n, {"set"}) = Before(uxt, f, n, {"set"})  BY DEF Before, Agree
<1>2. Before(txt, f, n, {"set"}) \subseteq 1..n  BY DEF Before
<1>3. NamesIn(txt, f, n) = NamesIn(uxt, f, n)  BY <1>1, <1>2 DEF NamesIn, Agree
<1>4. \A x : SetsIn(F, txt, f, n, x) = SetsIn(G, uxt, f, n, x)  BY <1>1, <1>2 DEF SetsIn, Agree
<1>5. ASSUME NEW x, SetsIn(F, txt, f, n, x) # {}
      PROVE  txt[Latest(SetsIn(F, txt, f, n, x))].s.v = uxt[Latest(SetsIn(G, uxt, f, n, x))].s.v
  <2>1. SetsIn(F, txt, f, n, x) \in SUBSET (1..n)  BY <1>2 DEF SetsIn
  <2>2. Latest(SetsIn(F, txt, f, n, x)) \in 1..n  BY <1>5, <2>1, LatestIs
  <2> QED  BY <1>4, <2>2 DEF Agree
<1> DEFINE D == {y \in NamesIn(txt, f, n) : SetsIn(F, txt, f, n, y) # {}}
           E == {y \in NamesIn(uxt, f, n) : SetsIn(G, uxt, f, n, y) # {}}
<1>6. D = E  BY <1>3, <1>4
<1>7. [x \in D |-> txt[Latest(SetsIn(F, txt, f, n, x))].s.v] = [x \in E |-> uxt[Latest(SetsIn(G, uxt, f, n, x))].s.v]
  BY <1>5, <1>6
<1> QED  BY <1>7 DEF VarsIn

\* And whether a statement is in force.
LEMMA HoldsAgree ==
  ASSUME NEW F, NEW G, NEW txt, NEW uxt, NEW n \in Nat, Agree(F, G, txt, uxt, n), NEW f
  PROVE  Holds(F, txt, f, n) = Holds(G, uxt, f, n)
<1> DEFINE marks == Before(txt, f, n, Marks)
           c == Latest(marks)
<1>1. marks = Before(uxt, f, n, Marks)  BY DEF Before, Agree
<1>2. CASE marks = {}  BY <1>1, <1>2 DEF Holds
<1>3. CASE marks # {}
  <2>1. c \in 1..n
    <3>1. marks \in SUBSET (1..n)  BY DEF Before
    <3> HIDE DEF marks
    <3> QED  BY <1>3, <3>1, LatestIs
  <2>2. txt[c] = uxt[c]  BY <2>1 DEF Agree
  <2>3. Agree(F, G, txt, uxt, c - 1) /\ c - 1 \in Nat  BY <2>1 DEF Agree
  <2>4. VarsIn(F, txt, txt[c].file, c - 1) = VarsIn(G, uxt, uxt[c].file, c - 1)  BY <2>2, <2>3, VarsAgree
  <2>5. c = Latest(Before(uxt, f, n, Marks))  BY <1>1
  <2> QED  BY <1>1, <1>3, <2>2, <2>4, <2>5 DEF Holds
<1> QED  BY <1>2, <1>3

-----------------------------------------------------------------------------
(* Which statements are in force                                           *)

\* F is the function Applies computes, as far as n.
Applying(F, txt, n) == F = [i \in 1..n |-> Holds(F, txt, txt[i].file, i - 1)]

\* There is such a function: Applies is defined, though it recurs on an earlier
\* statement that is not the one before.
LEMMA ApplyingExists == ASSUME NEW txt, NEW n \in Nat PROVE \E F : Applying(F, txt, n)
<1> DEFINE T == {m \in Nat : \E F : Applying(F, txt, m)}
<1>1. 0 \in T
  <2> DEFINE none == [i \in 1..0 |-> TRUE]
  <2>1. none = [i \in 1..0 |-> Holds(none, txt, txt[i].file, i - 1)]  OBVIOUS
  <2> HIDE DEF none
  <2>2. Applying(none, txt, 0)  BY <2>1 DEF Applying
  <2> QED  BY <2>2
<1>2. ASSUME NEW m \in Nat, m \in T PROVE m + 1 \in T
  <2>1. PICK F : Applying(F, txt, m)  BY <1>2
  <2> DEFINE last == Holds(F, txt, txt[m + 1].file, m)
             G == [i \in 1..m + 1 |-> IF i <= m THEN F[i] ELSE last]
             rhs == [i \in 1..m + 1 |-> Holds(G, txt, txt[i].file, i - 1)]
  <2>2. Agree(F, G, txt, txt, m)  BY DEF Agree
  <2>3. ASSUME NEW i \in 1..m + 1 PROVE G[i] = Holds(G, txt, txt[i].file, i - 1)
    <3>1. Agree(F, G, txt, txt, i - 1) /\ i - 1 \in Nat  BY <2>2 DEF Agree
    <3>2. Holds(F, txt, txt[i].file, i - 1) = Holds(G, txt, txt[i].file, i - 1)
      <4> HIDE DEF G
      <4> QED  BY <3>1, HoldsAgree
    <3>3. CASE i = m + 1  BY <3>2, <3>3
    <3>4. CASE i # m + 1
      <4>1. i \in 1..m /\ G[i] = F[i]  BY <3>4
      <4>2. F[i] = Holds(F, txt, txt[i].file, i - 1)  BY <2>1, <4>1 DEF Applying
      <4> QED  BY <3>2, <4>1, <4>2
    <3> QED  BY <3>3, <3>4
  <2>4. G = rhs
    <3>1. DOMAIN G = 1..m + 1 /\ DOMAIN rhs = 1..m + 1 /\ \A i \in 1..m + 1 : G[i] = rhs[i]
      BY <2>3
    <3> QED BY <2>3
  <2>5. Applying(G, txt, m + 1)
    <3> HIDE DEF G
    <3> QED  BY <2>4 DEF Applying
  <2> QED  BY <2>5
<1>3. n \in T
  <2> HIDE DEF T
  <2> QED  BY <1>1, <1>2, Induction
<1> QED  BY <1>3

\* There is only one, and it depends on the statements up to n only.
LEMMA ApplyingAgrees ==
  ASSUME NEW txt, NEW uxt, NEW n \in Nat, NEW m \in Nat, n <= m, NEW F, NEW G, Applying(F, txt, n), Applying(G, uxt, m),
         \A j \in 1..n : txt[j] = uxt[j]
  PROVE  Agree(F, G, txt, uxt, n)
<1> DEFINE T == {k \in Nat : k <= n => Agree(F, G, txt, uxt, k)}
<1>1. 0 \in T  BY DEF Agree
<1>2. ASSUME NEW k \in Nat, k \in T PROVE k + 1 \in T
  <2> SUFFICES ASSUME k + 1 <= n PROVE Agree(F, G, txt, uxt, k + 1)  OBVIOUS
  <2>1. Agree(F, G, txt, uxt, k)  BY <1>2
  <2>2. k + 1 \in 1..n /\ k + 1 \in 1..m /\ (k + 1) - 1 = k  OBVIOUS
  <2>3. F[k + 1] = Holds(F, txt, txt[k + 1].file, k)  BY <2>2 DEF Applying
  <2>4. G[k + 1] = Holds(G, uxt, uxt[k + 1].file, k)  BY <2>2 DEF Applying
  <2>5. txt[k + 1] = uxt[k + 1]  BY <2>2
  <2>6. F[k + 1] = G[k + 1]  BY <2>1, <2>3, <2>4, <2>5, HoldsAgree
  <2> QED  BY <2>1, <2>5, <2>6 DEF Agree
<1>3. n \in T
  <2> HIDE DEF T
  <2> QED  BY <1>1, <1>2, Induction
<1> QED  BY <1>3

\* The variables of SpConfig are these.
LEMMA VarsAre == ASSUME NEW i PROVE VarsBy(LAMBDA j : Applies[j], i) = VarsIn(Applies, text, text[i].file, i - 1)
BY DEF VarsBy, VarsIn, Earlier, Before, SetsIn, NamesIn

\* Applies is that function, in a state and in the next one.
LEMMA AppliesIs == ASSUME Len(text) \in Nat PROVE Applying(Applies, text, Len(text))
<1>1. \E F : Applying(F, text, Len(text))  BY ApplyingExists
<1> QED  BY <1>1 DEF Applying, Applies, Holds, VarsBy, VarsIn, Earlier, Before, SetsIn, NamesIn, Marks

LEMMA AppliesIsNext == ASSUME Len(text') \in Nat PROVE Applying(Applies', text', Len(text'))
<1>1. \E F : Applying(F, text', Len(text'))  BY ApplyingExists
<1> QED  BY <1>1 DEF Applying, Applies, Holds, VarsBy, VarsIn, Earlier, Before, SetsIn, NamesIn, Marks

-----------------------------------------------------------------------------
(* The rules in force                                                      *)

\* What statement i adds to the rules in force; f is the function InForceRules
\* computes, as far as n.
NextRules(q, F, txt, i) ==
  IF txt[i].s.t = "rule" /\ F[i]
  THEN Append(q, Resolved(txt[i].s, VarsIn(F, txt, txt[i].file, i - 1))) ELSE q
Lists(f, F, txt, n) == f = [i \in 0..n |-> IF i = 0 THEN <<>> ELSE NextRules(f[i - 1], F, txt, i)]

\* There is such a function.
LEMMA ListsExist == ASSUME NEW F, NEW txt, NEW n \in Nat PROVE \E f : Lists(f, F, txt, n)
<1> DEFINE T == {m \in Nat : \E f : Lists(f, F, txt, m)}
<1>1. Lists([i \in 0..0 |-> <<>>], F, txt, 0)  BY DEF Lists
<1>2. ASSUME NEW m \in Nat, m \in T PROVE m + 1 \in T
  <2>1. PICK f : Lists(f, F, txt, m)  BY <1>2
  <2> DEFINE g   == [i \in 0..m + 1 |-> IF i <= m THEN f[i] ELSE NextRules(f[m], F, txt, m + 1)]
             rhs == [i \in 0..m + 1 |-> IF i = 0 THEN <<>> ELSE NextRules(g[i - 1], F, txt, i)]
  <2>2. ASSUME NEW i \in 0..m + 1 PROVE g[i] = rhs[i]
    <3>1. CASE i = m + 1  BY <3>1
    <3>2. CASE i # m + 1
      <4>1. i \in 0..m /\ g[i] = f[i]  BY <3>2
      <4>2. i > 0 => g[i - 1] = f[i - 1]  BY <4>1
      <4>3. f[i] = IF i = 0 THEN <<>> ELSE NextRules(f[i - 1], F, txt, i)  BY <2>1, <4>1 DEF Lists
      <4> QED  BY <4>1, <4>2, <4>3
    <3> QED  BY <3>1, <3>2
  <2>3. g = rhs  BY <2>2
  <2>4. Lists(g, F, txt, m + 1)  BY <2>3 DEF Lists
  <2> QED  BY <2>4
<1>3. n \in T  BY <1>1, <1>2, Induction
<1> QED  BY <1>3

\* InForceRules is where it ends.
LEMMA RulesAre ==
  ASSUME Len(text) \in Nat
  PROVE  \E f : Lists(f, Applies, text, Len(text)) /\ InForceRules = f[Len(text)]
<1> DEFINE Upto[i \in 0..Len(text)] ==
        IF i = 0 THEN <<>>
        ELSE IF text[i].s.t = "rule" /\ Applies[i] THEN Append(Upto[i - 1], Resolved(text[i].s, VarsAt(i)))
        ELSE Upto[i - 1]
<1>0. \E f : Lists(f, Applies, text, Len(text))  BY ListsExist
<1>1. Lists(Upto, Applies, text, Len(text))
  <2>1. \A i : VarsAt(i) = VarsIn(Applies, text, text[i].file, i - 1)  BY VarsAre DEF VarsAt
  <2> QED  BY <1>0, <2>1 DEF Lists, NextRules
<1>2. InForceRules = Upto[Len(text)]  BY DEF InForceRules
<1> HIDE DEF Upto
<1> QED  BY <1>1, <1>2

\* The same for the next state.
LEMMA VarsAreNext == ASSUME NEW i PROVE VarsAt(i)' = VarsIn(Applies', text', text'[i].file, i - 1)
BY DEF VarsAt, VarsBy, VarsIn, Earlier, Before, SetsIn, NamesIn

LEMMA RulesAreNext ==
  ASSUME Len(text') \in Nat
  PROVE  \E f : Lists(f, Applies', text', Len(text')) /\ InForceRules' = f[Len(text')]
<1> DEFINE Upto[i \in 0..Len(text')] ==
        IF i = 0 THEN <<>>
        ELSE IF text'[i].s.t = "rule" /\ Applies'[i] THEN Append(Upto[i - 1], Resolved(text'[i].s, VarsAt(i)'))
        ELSE Upto[i - 1]
<1>0. \E f : Lists(f, Applies', text', Len(text'))  BY ListsExist
<1>1. Lists(Upto, Applies', text', Len(text'))
  <2>1. \A i : VarsAt(i)' = VarsIn(Applies', text', text'[i].file, i - 1)  BY VarsAreNext
  <2> QED  BY <1>0, <2>1 DEF Lists, NextRules
<1>2. InForceRules' = Upto[Len(text')]  BY DEF InForceRules
<1> HIDE DEF Upto
<1> QED  BY <1>1, <1>2

\* The rules in force up to n depend on the statements up to n only.
LEMMA ListsAgree ==
  ASSUME NEW F, NEW G, NEW txt, NEW uxt, NEW n \in Nat, NEW m \in Nat, n <= m, Agree(F, G, txt, uxt, n),
         NEW f, NEW g, Lists(f, F, txt, n), Lists(g, G, uxt, m)
  PROVE  f[n] = g[n]
<1> DEFINE T == {k \in Nat : k <= n => f[k] = g[k]}
<1>1. 0 \in T  BY DEF Lists
<1>2. ASSUME NEW k \in Nat, k \in T PROVE k + 1 \in T
  <2> SUFFICES ASSUME k + 1 <= n PROVE f[k + 1] = g[k + 1]  OBVIOUS
  <2>1. k + 1 \in 0..n /\ k + 1 \in 0..m /\ k + 1 # 0 /\ (k + 1) - 1 = k  OBVIOUS
  <2>2. f[k + 1] = NextRules(f[k], F, txt, k + 1)  BY <2>1 DEF Lists
  <2>3. g[k + 1] = NextRules(g[k], G, uxt, k + 1)  BY <2>1 DEF Lists
  <2>4. F[k + 1] = G[k + 1] /\ txt[k + 1] = uxt[k + 1] /\ Agree(F, G, txt, uxt, k)  BY DEF Agree
  <2>5. VarsIn(F, txt, txt[k + 1].file, k) = VarsIn(G, uxt, txt[k + 1].file, k)  BY <2>4, VarsAgree
  <2> QED  BY <1>2, <2>1, <2>2, <2>3, <2>4, <2>5 DEF NextRules
<1>3. n \in T
  <2> HIDE DEF T
  <2> QED  BY <1>1, <1>2, Induction
<1> QED  BY <1>3

\* They are a list.
LEMMA RulesAreSeq == ASSUME Len(text) \in Nat PROVE IsSeq(InForceRules)
<1>1. PICK f : Lists(f, Applies, text, Len(text)) /\ InForceRules = f[Len(text)]  BY RulesAre
<1> DEFINE n == Len(text)
           T == {k \in Nat : k <= n => IsSeq(f[k])}
<1>2. 0 \in T
  <2>1. f[0] = <<>> /\ <<>> \in Seq({})  BY <1>1, EmptySeq DEF Lists
  <2> QED  BY <2>1 DEF IsSeq
<1>3. ASSUME NEW k \in Nat, k \in T PROVE k + 1 \in T
  <2> SUFFICES ASSUME k + 1 <= n PROVE IsSeq(f[k + 1])  OBVIOUS
  <2>1. k + 1 \in 0..n /\ k + 1 # 0 /\ (k + 1) - 1 = k  OBVIOUS
  <2>2. f[k + 1] = NextRules(f[k], Applies, text, k + 1)  BY <1>1, <2>1 DEF Lists
  <2> QED  BY <1>3, <2>2, AppendIs DEF NextRules
<1>4. n \in T
  <2> HIDE DEF T
  <2> QED  BY <1>2, <1>3, Induction
<1> QED  BY <1>1, <1>4

-----------------------------------------------------------------------------
(* What rules make of the defaults                                         *)

\* f is the function Parsed computes, as far as n.
Parses(f, q, n) == f = [i \in 0..n |-> IF i = 0 THEN Defaults ELSE Parse(f[i - 1], q[i])]

\* There is such a function.
LEMMA ParsesExist == ASSUME NEW q, NEW n \in Nat PROVE \E f : Parses(f, q, n)
<1> DEFINE T == {m \in Nat : \E f : Parses(f, q, m)}
<1>1. Parses([i \in 0..0 |-> Defaults], q, 0)  BY DEF Parses
<1>2. ASSUME NEW m \in Nat, m \in T PROVE m + 1 \in T
  <2>1. PICK f : Parses(f, q, m)  BY <1>2
  <2> DEFINE g   == [i \in 0..m + 1 |-> IF i <= m THEN f[i] ELSE Parse(f[m], q[m + 1])]
             rhs == [i \in 0..m + 1 |-> IF i = 0 THEN Defaults ELSE Parse(g[i - 1], q[i])]
  <2>2. ASSUME NEW i \in 0..m + 1 PROVE g[i] = rhs[i]
    <3>1. CASE i = m + 1  BY <3>1
    <3>2. CASE i # m + 1
      <4>1. i \in 0..m /\ g[i] = f[i]  BY <3>2
      <4>2. i > 0 => g[i - 1] = f[i - 1]  BY <4>1
      <4>3. f[i] = IF i = 0 THEN Defaults ELSE Parse(f[i - 1], q[i])  BY <2>1, <4>1 DEF Parses
      <4> QED  BY <4>1, <4>2, <4>3
    <3> QED  BY <3>1, <3>2
  <2>3. g = rhs  BY <2>2
  <2>4. Parses(g, q, m + 1)  BY <2>3 DEF Parses
  <2> QED  BY <2>4
<1>3. n \in T  BY <1>1, <1>2, Induction
<1> QED  BY <1>3

\* Parsed is where it ends.
LEMMA ParsedIs == ASSUME NEW q, Len(q) \in Nat PROVE \E f : Parses(f, q, Len(q)) /\ Parsed(q) = f[Len(q)]
<1> DEFINE Upto[i \in 0..Len(q)] == IF i = 0 THEN Defaults ELSE Parse(Upto[i - 1], q[i])
<1>0. \E f : Parses(f, q, Len(q))  BY ParsesExist
<1>1. Parses(Upto, q, Len(q))  BY <1>0 DEF Parses
<1>2. Parsed(q) = Upto[Len(q)]  BY DEF Parsed
<1> HIDE DEF Upto
<1> QED  BY <1>1, <1>2

\* No rules make the defaults.
LEMMA ParsedEmpty == Parsed(<<>>) = Defaults
<1>1. Len(<<>>) = 0  BY EmptySeq
<1>2. PICK f : Parses(f, <<>>, 0) /\ Parsed(<<>>) = f[0]  BY <1>1, ParsedIs
<1> QED  BY <1>2 DEF Parses

\* One more rule is one more call of its handler.
LEMMA ParsedAppend == ASSUME NEW q, IsSeq(q), NEW r PROVE Parsed(Append(q, r)) = Parse(Parsed(q), r)
<1> DEFINE u == Append(q, r)
           n == Len(q)
<1>1. n \in Nat /\ Len(u) = n + 1 /\ (\A i \in 1..n : u[i] = q[i]) /\ u[n + 1] = r  BY AppendIs
<1>2. PICK f : Parses(f, q, n) /\ Parsed(q) = f[n]  BY <1>1, ParsedIs
<1> HIDE DEF u
<1>3. PICK g : Parses(g, u, n + 1) /\ Parsed(u) = g[n + 1]
  <2>1. Len(u) \in Nat  BY <1>1
  <2> QED  BY <1>1, <2>1, ParsedIs
<1> HIDE DEF n
<1> DEFINE T == {k \in Nat : k <= n => f[k] = g[k]}
<1>4. 0 \in T  BY <1>1, <1>2, <1>3 DEF Parses
<1>5. ASSUME NEW k \in Nat, k \in T PROVE k + 1 \in T
  <2> SUFFICES ASSUME k + 1 <= n PROVE f[k + 1] = g[k + 1]  OBVIOUS
  <2>1. k + 1 \in 1..n /\ k + 1 \in 0..n /\ k + 1 \in 0..n + 1 /\ k + 1 # 0 /\ (k + 1) - 1 = k  BY <1>1
  <2>2. f[k + 1] = Parse(f[k], q[k + 1])  BY <1>2, <2>1 DEF Parses
  <2>3. g[k + 1] = Parse(g[k], u[k + 1])  BY <1>3, <2>1 DEF Parses
  <2> QED  BY <1>1, <1>5, <2>1, <2>2, <2>3
<1>6. n \in T
  <2> HIDE DEF T
  <2> QED  BY <1>1, <1>4, <1>5, Induction
<1>7. g[n + 1] = Parse(g[n], u[n + 1])
  <2>1. n + 1 \in 0..n + 1 /\ n + 1 # 0 /\ (n + 1) - 1 = n  BY <1>1
  <2> QED  BY <1>3, <2>1 DEF Parses
<1> QED  BY <1>1, <1>2, <1>3, <1>6, <1>7 DEF u

-----------------------------------------------------------------------------
(* The text grows by a statement                                           *)

\* What was in force stays so, and the new statement is by what is before it.
LEMMA AppliesGrows ==
  ASSUME IsSeq(text), NEW item, text' = Append(text, item)
  PROVE  /\ Len(text) \in Nat /\ Len(text') = Len(text) + 1 /\ text'[Len(text) + 1] = item
         /\ Agree(Applies, Applies', text, text', Len(text))
         /\ Applies'[Len(text) + 1] = Holds(Applies, text, item.file, Len(text))
         /\ IsSeq(text')
<1> DEFINE n == Len(text)
<1>1. /\ n \in Nat /\ Len(text') = n + 1 /\ \A i \in 1..n : text'[i] = text[i]
      /\ text'[n + 1] = item /\ IsSeq(text')
  BY AppendIs
<1>2. Applying(Applies, text, n)  BY <1>1, AppliesIs
<1>3. Applying(Applies', text', n + 1)
  <2>1. Len(text') \in Nat  BY <1>1
  <2> QED  BY <1>1, <2>1, AppliesIsNext
<1>4. Agree(Applies, Applies', text, text', n)
  <2>1. n <= n + 1 /\ n + 1 \in Nat /\ \A j \in 1..n : text[j] = text'[j]  BY <1>1
  <2> HIDE DEF n
  <2> QED  BY <1>1, <1>2, <1>3, <2>1, ApplyingAgrees
<1>5. Applies'[n + 1] = Holds(Applies', text', item.file, n)
  <2>1. n + 1 \in 1..n + 1 /\ (n + 1) - 1 = n  BY <1>1
  <2> QED  BY <1>1, <1>3, <2>1 DEF Applying
<1>6. Holds(Applies', text', item.file, n) = Holds(Applies, text, item.file, n)  BY <1>1, <1>4, HoldsAgree
<1> QED  BY <1>1, <1>4, <1>5, <1>6

\* The new statement is the next rule if it is one and in force.
LEMMA RulesGrow ==
  ASSUME IsSeq(text), NEW item, text' = Append(text, item)
  PROVE  InForceRules' = IF item.s.t = "rule" /\ Holds(Applies, text, item.file, Len(text))
                         THEN Append(InForceRules, Resolved(item.s, VarsIn(Applies, text, item.file, Len(text))))
                         ELSE InForceRules
<1> DEFINE n == Len(text)
<1>1. /\ n \in Nat /\ Len(text') = n + 1 /\ text'[n + 1] = item
      /\ Agree(Applies, Applies', text, text', n) /\ Applies'[n + 1] = Holds(Applies, text, item.file, n)
  BY AppliesGrows
<1>2. PICK f : Lists(f, Applies, text, n) /\ InForceRules = f[n]  BY <1>1, RulesAre
<1>3. PICK g : Lists(g, Applies', text', n + 1) /\ InForceRules' = g[n + 1]
  <2>1. Len(text') \in Nat  BY <1>1
  <2> QED  BY <1>1, <2>1, RulesAreNext
<1> HIDE DEF n
<1>4. f[n] = g[n]  BY <1>1, <1>2, <1>3, ListsAgree
<1>5. g[n + 1] = NextRules(g[n], Applies', text', n + 1)
  <2>1. n + 1 \in 0..n + 1 /\ n + 1 # 0 /\ (n + 1) - 1 = n  BY <1>1
  <2> QED  BY <1>3, <2>1 DEF Lists
<1>6. VarsIn(Applies', text', item.file, n) = VarsIn(Applies, text, item.file, n)  BY <1>1, VarsAgree
<1>7. (n + 1) - 1 = n  BY <1>1
<1> QED  BY <1>1, <1>2, <1>3, <1>4, <1>5, <1>6, <1>7 DEF NextRules, n

\* cond_res[0] and whether a condition is open, after n statements.
CondIn(F, txt, f, n) ==
  LET marks == Before(txt, f, n, Marks)
      c     == Latest(marks)
  IN  IF marks = {} \/ txt[c].s.t = "end_condition" THEN [open |-> FALSE, value |-> 1]
      ELSE [open |-> TRUE, value |-> Yields(txt[c].s, VarsIn(F, txt, txt[c].file, c - 1)).res[1]]

\* The value says whether the next statement is in force.
LEMMA CondHolds ==
  ASSUME NEW F, NEW txt, NEW f, NEW n \in Nat
  PROVE  Holds(F, txt, f, n) <=> CondIn(F, txt, f, n).value # 0
<1> DEFINE marks == Before(txt, f, n, Marks)
           c == Latest(marks)
<1>1. CASE marks = {}  BY <1>1 DEF Holds, CondIn
<1>2. CASE marks # {}
  <2>1. c \in marks
    <3>1. marks \in SUBSET (1..n)  BY DEF Before
    <3> HIDE DEF marks
    <3> QED  BY <1>2, <3>1, LatestIs
  <2>2. txt[c].s.t \in {"condition", "end_condition"}  BY <2>1 DEF Before, Marks
  <2> QED  BY <1>2, <2>2 DEF Holds, CondIn
<1> QED  BY <1>1, <1>2

\* A new statement is the latest.
LEMMA LatestGrows ==
  ASSUME NEW n \in Nat, NEW S \in SUBSET (1..n)
  PROVE  Latest(S \cup {n + 1}) = n + 1
<1> DEFINE U == S \cup {n + 1}
           l == Latest(U)
<1>1. U \in SUBSET (1..n + 1) /\ n + 1 \in U /\ n + 1 \in Nat  OBVIOUS
<1> HIDE DEF U
<1>2. l \in U /\ \A j \in U : j <= l  BY <1>1, LatestIs
<1> HIDE DEF l
<1>3. l \in 1..n + 1 /\ n + 1 <= l  BY <1>1, <1>2
<1>4. l = n + 1  BY <1>3
<1> QED  BY <1>4 DEF l, U

\* One more statement in a set of those before.
LEMMA BeforeGrows ==
  ASSUME NEW F, NEW G, NEW txt, NEW uxt, NEW n \in Nat, Agree(F, G, txt, uxt, n), NEW f, NEW T,
         uxt[n + 1].file = f
  PROVE  /\ Before(uxt, f, n + 1, T) = Before(txt, f, n, T) \cup (IF uxt[n + 1].s.t \in T THEN {n + 1} ELSE {})
         /\ Before(txt, f, n, T) \in SUBSET (1..n)
<1>1. \A j \in 1..n + 1 : j \in 1..n \/ j = n + 1  OBVIOUS
<1>2. \A j \in 1..n : txt[j] = uxt[j] /\ j \in 1..n + 1  BY DEF Agree
<1> QED  BY <1>1, <1>2 DEF Before

\* A condition and its end set the value, the others leave it.
LEMMA CondGrows ==
  ASSUME NEW F, NEW G, NEW txt, NEW uxt, NEW n \in Nat, Agree(F, G, txt, uxt, n), NEW f,
         uxt[n + 1].file = f, NEW s, uxt[n + 1].s = s
  PROVE  CondIn(G, uxt, f, n + 1) =
           CASE s.t = "condition" -> [open |-> TRUE, value |-> Yields(s, VarsIn(F, txt, f, n)).res[1]]
             [] s.t = "end_condition" -> [open |-> FALSE, value |-> 1]
             [] OTHER -> CondIn(F, txt, f, n)
<1> DEFINE new == Before(uxt, f, n + 1, Marks)
           old == Before(txt, f, n, Marks)
           c == Latest(old)
<1>1. new = old \cup (IF s.t \in Marks THEN {n + 1} ELSE {}) /\ old \in SUBSET (1..n)  BY BeforeGrows
<1>2. CASE s.t \in Marks
  <2>1. Latest(new) = n + 1 /\ new # {}
    <3> HIDE DEF new, old
    <3> QED  BY <1>1, <1>2, LatestGrows
  <2>2. VarsIn(G, uxt, f, n) = VarsIn(F, txt, f, n)  BY VarsAgree
  <2>3. (n + 1) - 1 = n  OBVIOUS
  <2>4. CondIn(G, uxt, f, n + 1) = IF s.t = "end_condition" THEN [open |-> FALSE, value |-> 1]
          ELSE [open |-> TRUE, value |-> Yields(s, VarsIn(F, txt, f, n)).res[1]]
    BY <2>1, <2>2, <2>3 DEF CondIn
  <2> QED  BY <1>2, <2>4 DEF Marks
<1>3. CASE s.t \notin Marks
  <2>1. new = old  BY <1>1, <1>3
  <2>2. CondIn(G, uxt, f, n + 1) = CondIn(F, txt, f, n)
    <3>1. CASE old = {}  BY <2>1, <3>1 DEF CondIn
    <3>2. CASE old # {}
      <4>1. c \in 1..n
        <5> HIDE DEF old
        <5> QED  BY <1>1, <3>2, LatestIs
      <4>2. txt[c] = uxt[c] /\ Agree(F, G, txt, uxt, c - 1) /\ c - 1 \in Nat  BY <4>1 DEF Agree
      <4>3. VarsIn(F, txt, txt[c].file, c - 1) = VarsIn(G, uxt, uxt[c].file, c - 1)  BY <4>2, VarsAgree
      <4>4. c = Latest(new)  BY <2>1
      <4> QED  BY <2>1, <3>2, <4>2, <4>3, <4>4 DEF CondIn
    <3> QED  BY <3>1, <3>2
  <2> QED  BY <1>3, <2>2 DEF Marks
<1> QED  BY <1>2, <1>3

\* The value of a variable is the last one set in force, or the predefined one.
LEMMA VarsInIs ==
  ASSUME NEW F, NEW txt, NEW f, NEW n
  PROVE  /\ VarsIn(F, txt, f, n) = [x \in DOMAIN VarsIn(F, txt, f, n) |-> VarsIn(F, txt, f, n)[x]]
         /\ \A x : x \in DOMAIN VarsIn(F, txt, f, n) <=> SetsIn(F, txt, f, n, x) # {} \/ x \in DOMAIN Predefined
         /\ \A x \in DOMAIN VarsIn(F, txt, f, n) : VarsIn(F, txt, f, n)[x] =
              IF SetsIn(F, txt, f, n, x) # {} THEN txt[Latest(SetsIn(F, txt, f, n, x))].s.v ELSE Predefined[x]
<1>1. \A x : SetsIn(F, txt, f, n, x) # {} => x \in NamesIn(txt, f, n)  BY DEF SetsIn, NamesIn
<1> HIDE DEF SetsIn, NamesIn
<1>2. DOMAIN VarsIn(F, txt, f, n)
        = {y \in NamesIn(txt, f, n) : SetsIn(F, txt, f, n, y) # {}} \cup DOMAIN Predefined
  BY DEF VarsIn, Besides
<1>3. \A x : x \in DOMAIN VarsIn(F, txt, f, n) <=> SetsIn(F, txt, f, n, x) # {} \/ x \in DOMAIN Predefined
  BY <1>1, <1>2
<1>4. VarsIn(F, txt, f, n) = [x \in DOMAIN VarsIn(F, txt, f, n) |-> VarsIn(F, txt, f, n)[x]]
  BY DEF VarsIn, Besides
<1>5. \A x \in DOMAIN VarsIn(F, txt, f, n) : VarsIn(F, txt, f, n)[x] =
        IF SetsIn(F, txt, f, n, x) # {} THEN txt[Latest(SetsIn(F, txt, f, n, x))].s.v ELSE Predefined[x]
  BY <1>1 DEF VarsIn, Besides
<1> QED  BY <1>3, <1>4, <1>5

\* A variable that is set is added, or its value is replaced.
LEMMA VarsGrow ==
  ASSUME NEW F, NEW G, NEW txt, NEW uxt, NEW n \in Nat, Agree(F, G, txt, uxt, n), NEW f,
         uxt[n + 1].file = f, NEW s, uxt[n + 1].s = s
  PROVE  /\ s.t = "set" /\ G[n + 1] =>
              VarsIn(G, uxt, f, n + 1) = Besides([x \in {s.var} |-> s.v], VarsIn(F, txt, f, n))
         /\ ~(s.t = "set" /\ G[n + 1]) => VarsIn(G, uxt, f, n + 1) = VarsIn(F, txt, f, n)
<1> DEFINE new(x) == SetsIn(G, uxt, f, n + 1, x)
           old(x) == SetsIn(F, txt, f, n, x)
           lhs == VarsIn(G, uxt, f, n + 1)
           was == VarsIn(F, txt, f, n)
           more == s.t = "set" /\ G[n + 1]
           rhs == IF more THEN Besides([x \in {s.var} |-> s.v], was) ELSE was
<1>1. /\ Before(uxt, f, n + 1, {"set"}) = Before(txt, f, n, {"set"}) \cup (IF s.t = "set" THEN {n + 1} ELSE {})
      /\ Before(txt, f, n, {"set"}) \in SUBSET (1..n)
  BY BeforeGrows
<1>2. \A x : /\ new(x) = old(x) \cup (IF more /\ s.var = x THEN {n + 1} ELSE {})
             /\ old(x) \in SUBSET (1..n)
  BY <1>1 DEF SetsIn, Agree
<1>3. \A x : new(x) # {} <=> old(x) # {} \/ (more /\ s.var = x)  BY <1>2
<1>4. \A x : more /\ s.var = x => Latest(new(x)) = n + 1
  <2> SUFFICES ASSUME more, NEW x, s.var = x PROVE Latest(new(x)) = n + 1  OBVIOUS
  <2>1. new(x) = old(x) \cup {n + 1} /\ old(x) \in SUBSET (1..n)  BY <1>2
  <2> HIDE DEF new, old
  <2> QED  BY <2>1, LatestGrows
<1>5. \A x : ~(more /\ s.var = x) /\ old(x) # {} =>
               new(x) = old(x) /\ uxt[Latest(new(x))].s.v = txt[Latest(old(x))].s.v
  <2> SUFFICES ASSUME NEW x, ~(more /\ s.var = x), old(x) # {}
               PROVE new(x) = old(x) /\ uxt[Latest(new(x))].s.v = txt[Latest(old(x))].s.v
    OBVIOUS
  <2>1. new(x) = old(x) /\ old(x) \in SUBSET (1..n)  BY <1>2
  <2>2. Latest(old(x)) \in 1..n
    <3> HIDE DEF new, old
    <3> QED  BY <2>1, LatestIs
  <2> QED  BY <2>1, <2>2 DEF Agree
<1>6. /\ lhs = [x \in DOMAIN lhs |-> lhs[x]]
      /\ \A x : x \in DOMAIN lhs <=> new(x) # {} \/ x \in DOMAIN Predefined
      /\ \A x \in DOMAIN lhs : lhs[x] = IF new(x) # {} THEN uxt[Latest(new(x))].s.v ELSE Predefined[x]
  BY VarsInIs
<1>7. /\ was = [x \in DOMAIN was |-> was[x]]
      /\ \A x : x \in DOMAIN was <=> old(x) # {} \/ x \in DOMAIN Predefined
      /\ \A x \in DOMAIN was : was[x] = IF old(x) # {} THEN txt[Latest(old(x))].s.v ELSE Predefined[x]
  BY VarsInIs
<1>8. uxt[n + 1].s.v = s.v  OBVIOUS
<1> HIDE DEF new, old, lhs, was
<1>9. CASE more
  <2>1. /\ rhs = [x \in {s.var} \cup DOMAIN was |-> IF x = s.var THEN s.v ELSE was[x]]
    BY <1>9 DEF Besides
  <2>2. DOMAIN lhs = {s.var} \cup DOMAIN was  BY <1>3, <1>6, <1>7, <1>9
  <2>3. \A x \in DOMAIN lhs : lhs[x] = IF x = s.var THEN s.v ELSE was[x]
    BY <1>3, <1>4, <1>5, <1>6, <1>7, <1>8, <1>9, <2>2
  <2>4. [x \in DOMAIN lhs |-> lhs[x]] = [x \in {s.var} \cup DOMAIN was |-> IF x = s.var THEN s.v ELSE was[x]]
    BY <2>2, <2>3
  <2>5. lhs = rhs  BY <1>6, <2>1, <2>4
  <2> QED  BY <2>5 DEF lhs, was
<1>10. CASE ~more
  <2>1. DOMAIN lhs = DOMAIN was  BY <1>3, <1>6, <1>7, <1>10
  <2>2. \A x \in DOMAIN lhs : lhs[x] = was[x]  BY <1>3, <1>5, <1>6, <1>7, <1>10, <2>1
  <2>3. [x \in DOMAIN lhs |-> lhs[x]] = [x \in DOMAIN was |-> was[x]]  BY <2>1, <2>2
  <2>4. lhs = was  BY <1>6, <1>7, <2>3
  <2> QED  BY <1>10, <2>4 DEF lhs, was
<1> QED  BY <1>9, <1>10

\* The inductive invariant for the text: while a file is read, the variables
\* and the condition the scanner carries along are those the text says. Without
\* it nothing relates what the scanner decides to the text read as a whole.
ReadingInv ==
  phase = "reading" =>
    /\ vars_ = VarsIn(Applies, text, file, Len(text))
    /\ cond = CondIn(Applies, text, file, Len(text))
    /\ file \in Nat /\ \A j \in 1..Len(text) : text[j].file <= file /\ text[j].file \in Nat
TextInv == IsSeq(text) /\ ReadingInv /\ OnlyTheTextCounts

\* Nothing of a file has been read.
LEMMA Fresh ==
  ASSUME NEW F, NEW txt, NEW f, NEW n \in Nat, \A j \in 1..n : txt[j].file # f
  PROVE  VarsIn(F, txt, f, n) = Predefined /\ CondIn(F, txt, f, n) = [open |-> FALSE, value |-> 1]
<1>1. \A T : Before(txt, f, n, T) = {}  BY DEF Before
<1>2. CondIn(F, txt, f, n) = [open |-> FALSE, value |-> 1]  BY <1>1 DEF CondIn
<1>3. \A x : SetsIn(F, txt, f, n, x) = {}  BY <1>1 DEF SetsIn
<1>4. Predefined = [x \in DOMAIN Predefined |-> Predefined[x]]  BY VariablesAreWritten
<1> DEFINE V == VarsIn(F, txt, f, n)
<1>5. /\ V = [x \in DOMAIN V |-> V[x]] /\ (\A x : x \in DOMAIN V <=> x \in DOMAIN Predefined)
      /\ \A x \in DOMAIN V : V[x] = Predefined[x]
  BY <1>3, VarsInIs
<1> HIDE DEF V
<1>6. DOMAIN V = DOMAIN Predefined  BY <1>5
<1>7. [x \in DOMAIN V |-> V[x]] = [x \in DOMAIN Predefined |-> Predefined[x]]  BY <1>5, <1>6
<1>8. V = Predefined  BY <1>4, <1>5, <1>7
<1> QED  BY <1>2, <1>8 DEF V

\* A statement that is read leaves the file and the phase.
LEMMA MetInv ==
  ASSUME TextInv, Reading, NEW s \in Statements, Met(s), UNCHANGED <<phase, file>>,
         vars_' = IF s.t = "set" /\ InForce THEN Besides([x \in {s.var} |-> s.v], vars_) ELSE vars_,
         cond' = CASE s.t = "condition" -> [open |-> TRUE, value |-> Yields(s, vars_).res[1]]
                   [] s.t = "end_condition" -> [open |-> FALSE, value |-> 1]
                   [] OTHER -> cond,
         cfg' = IF s.t = "rule" /\ InForce THEN Parse(cfg, Resolved(s, vars_)) ELSE cfg
  PROVE  TextInv'
<1> DEFINE n == Len(text)
           item == [file |-> file, s |-> s]
<1>1. /\ IsSeq(text) /\ text' = Append(text, item) /\ phase = "reading" /\ phase' = "reading"
      /\ item.file = file /\ item.s = s
  BY DEF TextInv, Reading, Met
<1>2. /\ vars_ = VarsIn(Applies, text, file, n) /\ cond = CondIn(Applies, text, file, n)
      /\ file \in Nat /\ \A j \in 1..n : text[j].file <= file /\ text[j].file \in Nat
      /\ cfg = Parsed(InForceRules)
  BY <1>1 DEF TextInv, ReadingInv, OnlyTheTextCounts, InUse
<1> HIDE DEF item
<1>3. /\ n \in Nat /\ Len(text') = n + 1 /\ text'[n + 1] = item
      /\ Agree(Applies, Applies', text, text', n) /\ Applies'[n + 1] = Holds(Applies, text, file, n)
      /\ IsSeq(text')
  BY <1>1, AppliesGrows
<1>4. InForce <=> Holds(Applies, text, file, n)
  <2>1. Holds(Applies, text, file, n) <=> CondIn(Applies, text, file, n).value # 0  BY <1>3, CondHolds
  <2> QED  BY <1>2, <2>1 DEF InForce
<1>g. text'[n + 1].file = file /\ text'[n + 1].s = s  BY <1>1, <1>3
<1>5. vars_' = VarsIn(Applies', text', file, n + 1)
  <2> HIDE DEF n
  <2>1. /\ s.t = "set" /\ Applies'[n + 1] =>
              VarsIn(Applies', text', file, n + 1) = Besides([x \in {s.var} |-> s.v], VarsIn(Applies, text, file, n))
        /\ ~(s.t = "set" /\ Applies'[n + 1]) =>
              VarsIn(Applies', text', file, n + 1) = VarsIn(Applies, text, file, n)
    <3> DEFINE G == Applies'
               uxt == text'
    <3>1. Agree(Applies, G, text, uxt, n) /\ uxt[n + 1].file = file /\ uxt[n + 1].s = s /\ n \in Nat  BY <1>3, <1>g
    <3> HIDE DEF G, uxt
    <3>2. /\ s.t = "set" /\ G[n + 1] =>
               VarsIn(G, uxt, file, n + 1) = Besides([x \in {s.var} |-> s.v], VarsIn(Applies, text, file, n))
          /\ ~(s.t = "set" /\ G[n + 1]) => VarsIn(G, uxt, file, n + 1) = VarsIn(Applies, text, file, n)
      BY <3>1, VarsGrow
    <3> QED  BY <3>2 DEF G, uxt
  <2>2. Applies'[n + 1] <=> InForce  BY <1>3, <1>4
  <2> QED  BY <1>2, <2>1, <2>2
<1>6. cond' = CondIn(Applies', text', file, n + 1)
  <2> HIDE DEF n
  <2>1. CondIn(Applies', text', file, n + 1) =
           CASE s.t = "condition" -> [open |-> TRUE, value |-> Yields(s, VarsIn(Applies, text, file, n)).res[1]]
             [] s.t = "end_condition" -> [open |-> FALSE, value |-> 1]
             [] OTHER -> CondIn(Applies, text, file, n)
    BY <1>3, <1>g, CondGrows
  <2> QED  BY <1>2, <2>1
<1>7. \A j \in 1..n + 1 : text'[j].file <= file /\ text'[j].file \in Nat
  <2>1. \A j \in 1..n + 1 : j \in 1..n \/ j = n + 1  BY <1>3
  <2>2. \A j \in 1..n : text'[j] = text[j]  BY <1>3 DEF Agree
  <2> QED  BY <1>1, <1>2, <1>3, <2>1, <2>2
<1>8. ReadingInv'  BY <1>2, <1>3, <1>5, <1>6, <1>7 DEF ReadingInv
<1>9. cfg' = Parsed(InForceRules')
  <2>1. InForceRules' = IF s.t = "rule" /\ InForce THEN Append(InForceRules, Resolved(s, vars_)) ELSE InForceRules
    BY <1>1, <1>2, <1>4, RulesGrow
  <2>2. IsSeq(InForceRules)  BY <1>3, RulesAreSeq
  <2> QED  BY <1>2, <2>1, <2>2, ParsedAppend
<1> QED  BY <1>3, <1>8, <1>9 DEF TextInv, OnlyTheTextCounts

\* What is in force depends on the text only.
LEMMA SameText ==
  ASSUME IsSeq(text), text' = text
  PROVE  Applies' = Applies /\ InForceRules' = InForceRules
<1> DEFINE n == Len(text)
<1>1. n \in Nat /\ Len(text') = n
  <2>1. PICK S : text \in Seq(S)  BY DEF IsSeq
  <2> QED  BY <2>1
<1>2. Applying(Applies, text, n) /\ Applying(Applies', text', n)  BY <1>1, AppliesIs, AppliesIsNext
<1>3. PICK f : Lists(f, Applies, text, n) /\ InForceRules = f[n]  BY <1>1, RulesAre
<1>4. PICK g : Lists(g, Applies', text', n) /\ InForceRules' = g[n]
  <2>1. Len(text') \in Nat  BY <1>1
  <2> QED  BY <1>1, <2>1, RulesAreNext
<1> HIDE DEF n
<1> DEFINE F == Applies
           G == Applies'
           uxt == text'
<1>5. Applying(F, text, n) /\ Applying(G, uxt, n) /\ Lists(f, F, text, n) /\ Lists(g, G, uxt, n)
      /\ \A j \in 1..n : text[j] = uxt[j]
  BY <1>2, <1>3, <1>4
<1> HIDE DEF F, G, uxt
<1>6. Agree(F, G, text, uxt, n)  BY <1>1, <1>5, ApplyingAgrees
<1>7. F = [i \in 1..n |-> F[i]] /\ G = [i \in 1..n |-> G[i]]  BY <1>5 DEF Applying
<1>8. [i \in 1..n |-> F[i]] = [i \in 1..n |-> G[i]]  BY <1>6 DEF Agree
<1>9. F = G  BY <1>7, <1>8
<1>10. f[n] = g[n]  BY <1>1, <1>5, <1>6, ListsAgree
<1> QED  BY <1>3, <1>4, <1>9, <1>10 DEF F, G

\* A load begins with no statement and no rule.
LEMMA EmptyText == ASSUME text' = <<>> PROVE InForceRules' = <<>> /\ IsSeq(text') /\ Len(text') = 0
<1>1. Len(text') = 0 /\ text' \in Seq({})  BY EmptySeq
<1>2. PICK f : Lists(f, Applies', text', 0) /\ InForceRules' = f[0]
  <2>1. Len(text') \in Nat  BY <1>1
  <2> QED  BY <1>1, <2>1, RulesAreNext
<1> QED  BY <1>1, <1>2 DEF Lists, IsSeq

\* Every step keeps the invariant.
LEMMA TextNext == TextInv /\ [Next]_vars => TextInv'
<1> SUFFICES ASSUME TextInv, [Next]_vars PROVE TextInv'  OBVIOUS
<1>1. IsSeq(text) /\ OnlyTheTextCounts  BY DEF TextInv
<1>2. ASSUME UNCHANGED vars PROVE TextInv'
  <2>1. Applies' = Applies /\ InForceRules' = InForceRules  BY <1>1, <1>2, SameText DEF vars
  <2> QED  BY <1>2, <2>1 DEF vars, TextInv, ReadingInv, OnlyTheTextCounts, InUse
<1>3. ASSUME NEW s \in Statements, Rule(s) \/ Skip(s) \/ Set(s) \/ Condition(s) \/ EndCondition(s) PROVE TextInv'
  <2>1. Reading /\ Met(s) /\ UNCHANGED <<phase, file>>
    BY <1>3 DEF Rule, Skip, Set, Condition, EndCondition
  <2>2. vars_' = IF s.t = "set" /\ InForce THEN Besides([x \in {s.var} |-> s.v], vars_) ELSE vars_
    BY <1>3 DEF Rule, Skip, Set, Condition, EndCondition
  <2>3. cond' = CASE s.t = "condition" -> [open |-> TRUE, value |-> Yields(s, vars_).res[1]]
                  [] s.t = "end_condition" -> [open |-> FALSE, value |-> 1]
                  [] OTHER -> cond
    BY <1>3 DEF Rule, Skip, Set, Condition, EndCondition
  <2>4. cfg' = IF s.t = "rule" /\ InForce THEN Parse(cfg, Resolved(s, vars_)) ELSE cfg
    BY <1>3 DEF Rule, Skip, Set, Condition, EndCondition
  <2> QED  BY <2>1, <2>2, <2>3, <2>4, MetInv
<1>4. ASSUME Break, IsSeq(text') PROVE TextInv'
  BY <1>4 DEF Break, TextInv, ReadingInv, OnlyTheTextCounts, InUse
<1>5. ASSUME NEW s \in Statements, Refuse(s) PROVE TextInv'
  <2>1. IsSeq(text')  BY <1>1, <1>5, AppendIs DEF Refuse, Met
  <2> QED  BY <1>4, <1>5, <2>1 DEF Refuse
<1>6. ASSUME Unreadable \/ RunOff PROVE TextInv'  BY <1>1, <1>4, <1>6 DEF Unreadable, RunOff
<1>7. ASSUME Load PROVE TextInv'
  <2>1. text' = <<>> /\ file' = 1 /\ NewFile /\ cfg' = Defaults  BY <1>7 DEF Load
  <2>2. InForceRules' = <<>> /\ IsSeq(text') /\ Len(text') = 0  BY <2>1, EmptyText
  <2>3. /\ VarsIn(Applies', text', file', 0) = Predefined
        /\ CondIn(Applies', text', file', 0) = [open |-> FALSE, value |-> 1]
    BY Fresh
  <2>4. ReadingInv'  BY <2>1, <2>2, <2>3 DEF ReadingInv, NewFile
  <2>5. OnlyTheTextCounts'  BY <2>1, <2>2, ParsedEmpty DEF OnlyTheTextCounts
  <2> QED  BY <2>2, <2>4, <2>5 DEF TextInv
<1>8. ASSUME EndOfFile PROVE TextInv'
  <2>1. Applies' = Applies /\ InForceRules' = InForceRules /\ text' = text /\ cfg' = cfg /\ phase = "reading"
    BY <1>1, <1>8, SameText DEF EndOfFile
  <2>2. OnlyTheTextCounts'  BY <1>1, <2>1 DEF OnlyTheTextCounts, InUse
  <2>3. Len(text) \in Nat
    <3>1. PICK S : text \in Seq(S)  BY <1>1 DEF IsSeq
    <3> QED  BY <3>1
  <2>4. /\ file \in Nat /\ \A j \in 1..Len(text) : text[j].file <= file /\ text[j].file \in Nat
    BY <2>1 DEF TextInv, ReadingInv
  <2>5. ASSUME phase' = "reading" PROVE ReadingInv'
    <3>1. file' = file + 1 /\ NewFile  BY <1>8, <2>5 DEF EndOfFile
    <3>2. \A j \in 1..Len(text) : text[j].file # file' /\ text[j].file <= file'  BY <2>4, <3>1
    <3>3. /\ VarsIn(Applies, text, file', Len(text)) = Predefined
          /\ CondIn(Applies, text, file', Len(text)) = [open |-> FALSE, value |-> 1]
      BY <2>3, <3>2, Fresh
    <3> QED  BY <2>1, <2>4, <3>1, <3>2, <3>3 DEF ReadingInv, NewFile
  <2>6. phase' # "reading" => ReadingInv'  BY DEF ReadingInv
  <2> QED  BY <1>1, <2>1, <2>2, <2>5, <2>6 DEF TextInv
<1> QED  BY <1>2, <1>3, <1>5, <1>6, <1>7, <1>8 DEF Next

\* What holds of the text and the scanner in every state of SpConfig.
THEOREM TextInvariant == Spec => []TextInv
<1>1. Init => TextInv
  <2>1. <<>> \in Seq({})  BY EmptySeq
  <2> QED  BY <2>1 DEF Init, TextInv, IsSeq, ReadingInv, OnlyTheTextCounts, InUse
<1> QED  BY <1>1, TextNext, PTL DEF Spec

\* The configuration is what the rules of this load that are in force make of
\* the defaults, in their order (sp_free_config, sp_config_scan).
THEOREM TextAlone == Spec => []OnlyTheTextCounts
<1>1. TextInv => OnlyTheTextCounts  BY DEF TextInv
<1> QED  BY <1>1, TextInvariant, PTL

-----------------------------------------------------------------------------
(* The keywords of a cookie                                                *)

\* The row of cookie in the table.
CookieRow == Table["cookie"]

\* Its keywords, with their parsers and places.
LEMMA CookieRowIs ==
  /\ DOMAIN CookieRow = {"name", "name_r", "samesite", "encrypt", "simulation"}
  /\ CookieRow["name"] = <<"parse_str", "name">> /\ CookieRow["name_r"] = <<"parse_regexp", "name_r">>
  /\ CookieRow["samesite"] = <<"parse_str", "samesite">> /\ CookieRow["encrypt"] = <<"parse_empty", "encrypt">>
  /\ CookieRow["simulation"] = <<"parse_empty", "sim">>
BY DEF CookieRow, Table, Str, Flag

\* Each keyword has a place of its own, and is given once or is a flag.
LEMMA CookieParsers ==
  /\ \A k, l \in DOMAIN CookieRow : k # l => CookieRow[k][2] # CookieRow[l][2]
  /\ \A k \in DOMAIN CookieRow : /\ CookieRow[k][1] \in Once \/ CookieRow[k][1] = "parse_empty"
                                 /\ CookieRow[k][1] # "parse_log_media"
                                 /\ CookieRow[k][2] \in CookieFields
BY CookieRowIs DEF Once, CookieFields

\* The fields are local to the handler, and unset before it reads.
LEMMA FieldsAreLocal == CookieFields \subseteq Locals
<1>1. "cookie" \in DOMAIN Table  BY TableOf DEF Directives
<1>2. \A k \in DOMAIN CookieRow : CookieRow[k][2] \in Settings  BY <1>1 DEF Settings, CookieRow
<1>3. CookieFields \subseteq Settings  BY <1>2, CookieRowIs DEF CookieFields
<1>4. \A x \in CookieFields : x \notin Globals  BY DEF CookieFields, Globals, Enables
<1> QED  BY <1>3, <1>4 DEF Locals

\* What a keyword puts at its place.
Given(kw) == IF CookieRow[kw.k][1] = "parse_empty" THEN On ELSE kw.v

\* What the first m keywords of a cookie have filled.
Filled(a, r, m) ==
  /\ DOMAIN a = {"ok", "stop", "set"} /\ CookieFields \subseteq DOMAIN a.set /\ a.stop = FALSE /\ a.ok \in BOOLEAN
  /\ a.ok => \A k \in DOMAIN CookieRow :
               /\ (\A j \in 1..m : r.kws[j].k # k) => a.set[CookieRow[k][2]] = Unset
               /\ \A j \in 1..m : r.kws[j].k = k => a.set[CookieRow[k][2]] = Given(r.kws[j])

\* One more keyword, one more place.
LEMMA FillsOne ==
  ASSUME NEW a, NEW r, NEW m \in Nat, Filled(a, r, m), \A j \in 1..m : r.kws[j].v # Unset
  PROVE  Filled(Take(CookieRow, a, r.kws[m + 1]), r, m + 1)
<1> DEFINE kw == r.kws[m + 1]
           b == Take(CookieRow, a, kw)
<1>0. \A j \in 1..m + 1 : j \in 1..m \/ j = m + 1  OBVIOUS
<1>1. CASE ~a.ok  BY <1>1 DEF Take, Filled
<1>2. CASE a.ok /\ ~Expected(CookieRow, a.set, kw)  BY <1>2 DEF Take, Filled
<1>3. CASE a.ok /\ Expected(CookieRow, a.set, kw)
  <2>1. kw.k \in DOMAIN CookieRow  BY <1>3 DEF Expected
  <2> DEFINE place == CookieRow[kw.k][2]
  <2>2. /\ place \in CookieFields /\ CookieRow[kw.k][1] # "parse_log_media"
        /\ CookieRow[kw.k][1] \in Once \/ CookieRow[kw.k][1] = "parse_empty"
    BY <2>1, CookieParsers
  <2>3. b = [a EXCEPT !.set[place] = Given(kw), !.stop = FALSE]
    BY <1>3, <2>2 DEF Take, Given, Filled
  <2>4. /\ DOMAIN b = {"ok", "stop", "set"} /\ DOMAIN b.set = DOMAIN a.set /\ b.stop = FALSE /\ b.ok = TRUE
        /\ \A x \in DOMAIN a.set : b.set[x] = IF x = place THEN Given(kw) ELSE a.set[x]
    BY <1>3, <2>3 DEF Filled
  <2>5. ASSUME NEW k \in DOMAIN CookieRow, k # kw.k
        PROVE  b.set[CookieRow[k][2]] = a.set[CookieRow[k][2]]
    <3>1. CookieRow[k][2] # place /\ CookieRow[k][2] \in DOMAIN a.set
      BY <2>1, <2>5, CookieParsers DEF Filled
    <3> QED  BY <2>4, <3>1
  <2>6. b.set[place] = Given(kw)  BY <2>2, <2>4 DEF Filled
  <2>7. ASSUME NEW j \in 1..m, r.kws[j].k = kw.k PROVE Given(r.kws[j]) = Given(kw)
    <3>1. CASE CookieRow[kw.k][1] = "parse_empty"  BY <2>7, <3>1 DEF Given
    <3>2. CASE CookieRow[kw.k][1] # "parse_empty"
      <4>1. a.set[place] = Unset  BY <1>3, <2>2, <3>2 DEF Expected, Once
      <4>2. a.set[place] = Given(r.kws[j])  BY <1>3, <2>1, <2>7 DEF Filled
      <4>3. Given(r.kws[j]) = r.kws[j].v  BY <2>7, <3>2 DEF Given
      <4> QED  BY <4>1, <4>2, <4>3
    <3> QED  BY <3>1, <3>2
  <2> HIDE DEF kw, b, place
  <2>8. ASSUME NEW k \in DOMAIN CookieRow
        PROVE  /\ (\A j \in 1..m + 1 : r.kws[j].k # k) => b.set[CookieRow[k][2]] = Unset
               /\ \A j \in 1..m + 1 : r.kws[j].k = k => b.set[CookieRow[k][2]] = Given(r.kws[j])
    <3>1. CASE k = kw.k
      <4>1. m + 1 \in 1..m + 1 /\ r.kws[m + 1].k = k  BY <3>1 DEF kw
      <4>2. \A j \in 1..m + 1 : r.kws[j].k = k => Given(r.kws[j]) = Given(kw)
        BY <1>0, <2>7, <3>1 DEF kw
      <4> QED  BY <2>6, <3>1, <4>1, <4>2 DEF place
    <3>2. CASE k # kw.k
      <4>1. b.set[CookieRow[k][2]] = a.set[CookieRow[k][2]]  BY <2>5, <3>2
      <4>2. \A j \in 1..m + 1 : r.kws[j].k = k => j \in 1..m  BY <1>0, <3>2 DEF kw
      <4> QED  BY <1>3, <4>1, <4>2 DEF Filled
    <3> QED  BY <3>1, <3>2
  <2>9. CookieFields \subseteq DOMAIN b.set  BY <2>4 DEF Filled
  <2> QED  BY <2>4, <2>8, <2>9 DEF Filled, b, kw
<1> QED  BY <1>1, <1>2, <1>3 DEF Filled

\* All of the keywords of a rule about cookies.
LEMMA CookieRead ==
  ASSUME NEW c, DOMAIN c.set = Globals, NEW r, r.d = "cookie", Len(r.kws) \in Nat,
         \A j \in 1..Len(r.kws) : r.kws[j].v # Unset
  PROVE  Filled(Read(c, r), r, Len(r.kws))
<1> DEFINE n == Len(r.kws)
<1>1. PICK f : Reads(f, c, r, n) /\ Read(c, r) = f[n]  BY ReadIs
<1> DEFINE T == {m \in Nat : m <= n => Filled(f[m], r, m)}
<1>2. 0 \in T
  <2>1. f[0] = Start(c)  BY <1>1 DEF Reads
  <2>2. /\ DOMAIN Start(c) = {"ok", "stop", "set"} /\ Start(c).stop = FALSE /\ Start(c).ok = TRUE
        /\ Start(c).set = Besides(c.set, [l \in Locals |-> Unset])
    BY DEF Start
  <2>3. \A l \in CookieFields : l \in DOMAIN Start(c).set /\ Start(c).set[l] = Unset
    BY <2>2, FieldsAreLocal DEF Besides, Locals
  <2>4. \A k \in DOMAIN CookieRow : Start(c).set[CookieRow[k][2]] = Unset  BY <2>3, CookieParsers
  <2>5. \A j : j \notin 1..0  OBVIOUS
  <2>6. Filled(Start(c), r, 0)  BY <2>2, <2>3, <2>4, <2>5 DEF Filled
  <2> QED  BY <2>1, <2>6
<1>3. ASSUME NEW m \in Nat, m \in T PROVE m + 1 \in T
  <2> SUFFICES ASSUME m + 1 <= n PROVE Filled(f[m + 1], r, m + 1)  OBVIOUS
  <2>1. m + 1 \in 0..n /\ m + 1 # 0 /\ (m + 1) - 1 = m  OBVIOUS
  <2>2. f[m + 1] = Take(CookieRow, f[m], r.kws[m + 1])  BY <1>1, <2>1 DEF Reads, CookieRow
  <2>3. Filled(f[m], r, m) /\ \A j \in 1..m : r.kws[j].v # Unset  BY <1>3
  <2> QED  BY <2>2, <2>3, FillsOne
<1>4. n \in T
  <2> HIDE DEF T
  <2> QED  BY <1>2, <1>3, Induction
<1> QED  BY <1>1, <1>4

\* A rule about a cookie that is read says what its keywords say.
LEMMA CookieSays ==
  ASSUME NEW c, DOMAIN c.set = Globals, NEW r, r.d = "cookie", Len(r.kws) \in Nat,
         DOMAIN r.kws = 1..Len(r.kws),
         \A j \in 1..Len(r.kws) : r.kws[j].v # Unset, Read(c, r).ok
  PROVE  LET v == Read(c, r).set IN
         /\ \A j \in DOMAIN r.kws : r.kws[j].k = "name" => v["name"] = r.kws[j].v
         /\ v["name"] # Unset => "name" \in KeywordsOf(r)
         /\ \A j \in DOMAIN r.kws : r.kws[j].k = "samesite" => v["samesite"] = r.kws[j].v
         /\ v["samesite"] # Unset <=> "samesite" \in KeywordsOf(r)
         /\ v["encrypt"] = IF "encrypt" \in KeywordsOf(r) THEN On ELSE Unset
<1>1. Filled(Read(c, r), r, Len(r.kws))  BY CookieRead
<1> DEFINE v == Read(c, r).set
<1>2. \A k \in DOMAIN CookieRow :
               /\ k \notin KeywordsOf(r) => v[CookieRow[k][2]] = Unset
               /\ \A j \in DOMAIN r.kws : r.kws[j].k = k => v[CookieRow[k][2]] = Given(r.kws[j])
  BY <1>1 DEF Filled, KeywordsOf
<1> HIDE DEF v
<1>3. /\ \A j \in DOMAIN r.kws : r.kws[j].k \in {"name", "samesite"} => Given(r.kws[j]) = r.kws[j].v
      /\ \A j \in DOMAIN r.kws : r.kws[j].k = "encrypt" => Given(r.kws[j]) = On
  BY CookieRowIs DEF Given
<1>4. \A k \in KeywordsOf(r) : \E j \in DOMAIN r.kws : r.kws[j].k = k  BY DEF KeywordsOf
<1>5. /\ \A j \in DOMAIN r.kws : r.kws[j].k = "name" => v["name"] = r.kws[j].v
      /\ v["name"] # Unset => "name" \in KeywordsOf(r)
  BY <1>2, <1>3, CookieRowIs
<1>6. /\ \A j \in DOMAIN r.kws : r.kws[j].k = "samesite" => v["samesite"] = r.kws[j].v
      /\ v["samesite"] # Unset <=> "samesite" \in KeywordsOf(r)
  BY <1>2, <1>3, <1>4, CookieRowIs
<1>7. v["encrypt"] = IF "encrypt" \in KeywordsOf(r) THEN On ELSE Unset
  BY <1>2, <1>3, <1>4, CookieRowIs
<1> QED  BY <1>5, <1>6, <1>7 DEF v

-----------------------------------------------------------------------------
(* The rules about a cookie                                                *)

\* The inductive invariant for the cookies: a cookie given by its name is what
\* the rules about it add up to, there is one of a name, and there is one for
\* every name rules were about. Those given by an expression are left out.
AddsUp(ck, q) ==
  /\ (ck.encrypt = On) <=> Giving(q, ck.name, "encrypt") # {}
  /\ Giving(q, ck.name, "samesite") = {} => ck.samesite = Unset
  /\ Giving(q, ck.name, "samesite") # {} => ck.samesite = Says(q[Latest(Giving(q, ck.name, "samesite"))], "samesite")
Plainly(c) == {i \in 1..Len(c.cookies) : c.cookies[i].name_r = Unset}
CookieInv(c, q) ==
  /\ \A i \in Plainly(c) : AddsUp(c.cookies[i], q)
  /\ \A i, j \in Plainly(c) : c.cookies[i].name = c.cookies[j].name => i = j
  /\ \A i \in Plainly(c) : c.cookies[i].name # Unset
  /\ \A n : (\E x \in DOMAIN q : About(q[x], n)) => \E i \in Plainly(c) : c.cookies[i].name = n

\* One more rule in the rules about a cookie.
LEMMA HaveGrows ==
  ASSUME NEW q, IsSeq(q), NEW r, NEW n, NEW k
  PROVE  LET u == Append(q, r) IN
         /\ Len(q) \in Nat /\ DOMAIN q = 1..Len(q) /\ DOMAIN u = 1..Len(q) + 1
         /\ u[Len(q) + 1] = r /\ \A x \in 1..Len(q) : u[x] = q[x]
         /\ Giving(q, n, k) \in SUBSET (1..Len(q))
         /\ Giving(u, n, k) = Giving(q, n, k) \cup (IF About(r, n) /\ k \in KeywordsOf(r) THEN {Len(q) + 1} ELSE {})
<1> DEFINE u == Append(q, r)
<1>1. PICK S : q \in Seq(S)  BY DEF IsSeq
<1>2. Len(q) \in Nat /\ DOMAIN q = 1..Len(q)  BY <1>1
<1>3. IsSeq(u) /\ Len(u) = Len(q) + 1 /\ u[Len(q) + 1] = r /\ \A x \in 1..Len(q) : u[x] = q[x]  BY AppendIs
<1> HIDE DEF u
<1>4. DOMAIN u = 1..Len(q) + 1
  <2>1. PICK S2 : u \in Seq(S2)  BY <1>3 DEF IsSeq
  <2> QED  BY <1>2, <1>3, <2>1
<1>5. \A x \in 1..Len(q) + 1 : x \in 1..Len(q) \/ x = Len(q) + 1  BY <1>2
<1>6. Giving(q, n, k) \in SUBSET (1..Len(q))  BY <1>2 DEF Giving
<1>7. Giving(u, n, k) = Giving(q, n, k) \cup (IF About(r, n) /\ k \in KeywordsOf(r) THEN {Len(q) + 1} ELSE {})
  <2> HIDE DEF About, KeywordsOf
  <2> QED  BY <1>2, <1>3, <1>4, <1>5 DEF Giving
<1> QED  BY <1>2, <1>3, <1>4, <1>6, <1>7 DEF u

\* A cookie the rule is not about adds up as before.
LEMMA OtherAddsUp ==
  ASSUME NEW q, IsSeq(q), NEW r, NEW ck, AddsUp(ck, q), ~About(r, ck.name)
  PROVE  AddsUp(ck, Append(q, r))
<1> DEFINE u == Append(q, r)
<1>1. \A k : Giving(u, ck.name, k) = Giving(q, ck.name, k)  BY HaveGrows
<1>2. Giving(q, ck.name, "samesite") \in SUBSET (1..Len(q)) /\ Len(q) \in Nat
      /\ \A x \in 1..Len(q) : u[x] = q[x]
  BY HaveGrows
<1> HIDE DEF u
<1>3. Giving(q, ck.name, "samesite") # {} => Latest(Giving(q, ck.name, "samesite")) \in 1..Len(q)
  BY <1>2, LatestIs
<1> QED  BY <1>1, <1>2, <1>3 DEF AddsUp, u

\* A rule about the cookie adds what it says.
LEMMA RuleAddsUp ==
  ASSUME NEW q, IsSeq(q), NEW r, NEW old, NEW ck, NEW e, About(r, ck.name),
         (old.encrypt = On) <=> Giving(q, ck.name, "encrypt") # {},
         Giving(q, ck.name, "samesite") = {} => old.samesite = Unset,
         Giving(q, ck.name, "samesite") # {} =>
           old.samesite = Says(q[Latest(Giving(q, ck.name, "samesite"))], "samesite"),
         ck.encrypt = Or(e.encrypt, old.encrypt), ck.samesite = Or(e.samesite, old.samesite),
         e.encrypt = IF "encrypt" \in KeywordsOf(r) THEN On ELSE Unset,
         e.samesite # Unset <=> "samesite" \in KeywordsOf(r),
         e.samesite # Unset => e.samesite = Says(r, "samesite")
  PROVE  AddsUp(ck, Append(q, r))
<1> DEFINE u == Append(q, r)
           H == Giving(q, ck.name, "samesite")
<1>1. /\ Len(q) \in Nat /\ u[Len(q) + 1] = r /\ (\A x \in 1..Len(q) : u[x] = q[x])
      /\ H \in SUBSET (1..Len(q))
      /\ Giving(u, ck.name, "samesite") = H \cup (IF "samesite" \in KeywordsOf(r) THEN {Len(q) + 1} ELSE {})
  BY HaveGrows
<1>2. Giving(u, ck.name, "encrypt")
        = Giving(q, ck.name, "encrypt") \cup (IF "encrypt" \in KeywordsOf(r) THEN {Len(q) + 1} ELSE {})
  BY HaveGrows
<1> HIDE DEF u
<1>3. (ck.encrypt = On) <=> Giving(u, ck.name, "encrypt") # {}
  BY <1>2, OnIsSet DEF Or
<1>4. CASE "samesite" \in KeywordsOf(r)
  <2>1. Giving(u, ck.name, "samesite") = H \cup {Len(q) + 1}  BY <1>1, <1>4
  <2>2. Latest(Giving(u, ck.name, "samesite")) = Len(q) + 1
    <3> HIDE DEF H
    <3> QED  BY <1>1, <2>1, LatestGrows
  <2>3. ck.samesite = Says(r, "samesite")  BY <1>4 DEF Or
  <2> QED  BY <1>1, <1>3, <2>1, <2>2, <2>3 DEF AddsUp, u
<1>5. CASE "samesite" \notin KeywordsOf(r)
  <2>1. Giving(u, ck.name, "samesite") = H /\ ck.samesite = old.samesite  BY <1>1, <1>5 DEF Or
  <2>2. H # {} => Latest(H) \in 1..Len(q)
    <3> HIDE DEF H
    <3> QED  BY <1>1, LatestIs
  <2> QED  BY <1>1, <1>3, <2>1, <2>2 DEF AddsUp, u
<1> QED  BY <1>4, <1>5

\* What a rule that is accepted is about, and what it says of the cookie.
LEMMA RuleAbout ==
  ASSUME NEW c, DOMAIN c.set = Globals, NEW r, r.d = "cookie", Len(r.kws) \in Nat,
         DOMAIN r.kws = 1..Len(r.kws),
         \A j \in 1..Len(r.kws) : r.kws[j].v # Unset, Accepted(c, r),
         NEW e, e = CookieOf(Read(c, r).set)
  PROVE  /\ \A n : About(r, n) <=> e.name # Unset /\ n = e.name
         /\ e.name # Unset <=> e.name_r = Unset
         /\ e.encrypt = IF "encrypt" \in KeywordsOf(r) THEN On ELSE Unset
         /\ e.samesite # Unset <=> "samesite" \in KeywordsOf(r)
         /\ e.samesite # Unset => e.samesite = Says(r, "samesite")
         /\ DOMAIN e = CookieFields
<1> DEFINE v == Read(c, r).set
<1>1. Read(c, r).ok /\ Accepts(c, "cookie", v)  BY DEF Accepted
<1>2. /\ \A j \in DOMAIN r.kws : r.kws[j].k = "name" => v["name"] = r.kws[j].v
      /\ v["name"] # Unset => "name" \in KeywordsOf(r)
      /\ \A j \in DOMAIN r.kws : r.kws[j].k = "samesite" => v["samesite"] = r.kws[j].v
      /\ v["samesite"] # Unset <=> "samesite" \in KeywordsOf(r)
      /\ v["encrypt"] = IF "encrypt" \in KeywordsOf(r) THEN On ELSE Unset
  BY <1>1, CookieSays
<1> HIDE DEF v
<1>3. /\ e.name = v["name"] /\ e.name_r = v["name_r"] /\ e.encrypt = v["encrypt"]
      /\ e.samesite = v["samesite"] /\ DOMAIN e = CookieFields
  BY DEF CookieOf, CookieFields, v
<1>4. e.name # Unset <=> e.name_r = Unset  BY <1>1, <1>3 DEF Accepts, parse_cookie, Has
<1>5. \A k : k \in KeywordsOf(r) <=> \E j \in DOMAIN r.kws : r.kws[j].k = k  BY DEF KeywordsOf
<1>6. \A n : About(r, n) <=> e.name # Unset /\ n = e.name
  BY <1>2, <1>3, <1>5 DEF About
<1>7. ASSUME "samesite" \in KeywordsOf(r) PROVE e.samesite = Says(r, "samesite")
  <2>1. \E i \in DOMAIN r.kws : r.kws[i].k = "samesite"  BY <1>5, <1>7
  <2>2. TextOf(r, "samesite") \in DOMAIN r.kws /\ r.kws[TextOf(r, "samesite")].k = "samesite"
    BY <2>1 DEF TextOf
  <2> QED  BY <1>2, <1>3, <2>2 DEF Says
<1> QED  BY <1>2, <1>3, <1>4, <1>6, <1>7

\* A rule that is accepted keeps the invariant: it changes the cookie of its
\* name, or adds one, and leaves the others alone (sp_parse_cookie).
LEMMA CookiesAddUp ==
  ASSUME NEW c, CookiesOk(c), DOMAIN c.set = Globals, NEW q, IsSeq(q), CookieInv(c, q),
         NEW r, Len(r.kws) \in Nat, DOMAIN r.kws = 1..Len(r.kws),
         \A j \in 1..Len(r.kws) : r.kws[j].v # Unset, Accepted(c, r)
  PROVE  CookieInv(Parse(c, r), Append(q, r))
<1> DEFINE p == Parse(c, r)
           e == CookieOf(Read(c, r).set)
           u == Append(q, r)
           o == c.cookies
           L == Len(o)
           N == Len(q)
<1>1. p.cookies = IF r.d = "cookie" THEN MergeCookie(o, e) ELSE o  BY DEF Parse
<1>2. N \in Nat /\ DOMAIN q = 1..N /\ DOMAIN u = 1..N + 1 /\ u[N + 1] = r /\ \A x \in 1..N : u[x] = q[x]
  BY HaveGrows
<1>3. \A x \in DOMAIN u : x \in DOMAIN q \/ x = N + 1  BY <1>2
<1>4. CASE r.d # "cookie"
  <2>1. p.cookies = o /\ \A n : ~About(r, n)  BY <1>1, <1>4 DEF About
  <2>2. \A i \in Plainly(c) : AddsUp(o[i], u)  BY <2>1, OtherAddsUp DEF CookieInv
  <2>3. Plainly(p) = Plainly(c)  BY <2>1 DEF Plainly
  <2> HIDE DEF p, u
  <2>4. \A n : (\E x \in DOMAIN u : About(u[x], n)) => \E x \in DOMAIN q : About(q[x], n)
    BY <1>2, <1>3, <2>1
  <2>5. CookieInv(p, u)  BY <2>1, <2>2, <2>3, <2>4 DEF CookieInv
  <2> QED  BY <2>5 DEF p, u
<1>5. CASE r.d = "cookie"
  <2>1. /\ \A n : About(r, n) <=> e.name # Unset /\ n = e.name
        /\ e.name # Unset <=> e.name_r = Unset
        /\ e.encrypt = IF "encrypt" \in KeywordsOf(r) THEN On ELSE Unset
        /\ e.samesite # Unset <=> "samesite" \in KeywordsOf(r)
        /\ e.samesite # Unset => e.samesite = Says(r, "samesite")
        /\ DOMAIN e = CookieFields
    BY <1>5, RuleAbout
  <2> DEFINE m == MergeCookie(o, e)
  <2>2. p.cookies = m  BY <1>1, <1>5
  <2> HIDE DEF e
  <2>3. /\ L \in Nat /\ 1..L \subseteq 1..Len(m) /\ \E i \in 1..Len(m) : SameCookie(e, m[i])
        /\ \A i \in 1..Len(m) :
             \/ i = L + 1 /\ m[i] = e /\ \A j \in 1..L : ~SameCookie(e, o[j])
             \/ i \in 1..L /\ ~SameCookie(e, o[i]) /\ m[i] = o[i]
             \/ /\ i \in 1..L /\ SameCookie(e, o[i]) /\ SameCookie(e, m[i])
                /\ m[i].encrypt = Or(e.encrypt, o[i].encrypt)
                /\ m[i].samesite = Or(e.samesite, o[i].samesite)
    <3>1. IsSeq(o) /\ \A i \in 1..Len(o) : DOMAIN o[i] = CookieFields  BY DEF CookiesOk
    <3>2. DOMAIN e = CookieFields  BY <2>1
    <3> HIDE DEF o
    <3> QED  BY <3>1, <3>2, MergeKeeps
  <2>4. Plainly(p) = {i \in 1..Len(m) : m[i].name_r = Unset}  BY <2>2 DEF Plainly
  <2> HIDE DEF m, o, L, p, u
  <2>5. Plainly(c) = {i \in 1..L : o[i].name_r = Unset}  BY DEF Plainly, o, L
  <2>6. /\ \A i \in Plainly(c) : AddsUp(o[i], q) /\ o[i].name # Unset
        /\ \A i, j \in Plainly(c) : o[i].name = o[j].name => i = j
        /\ \A n : (\E x \in DOMAIN q : About(q[x], n)) => \E i \in Plainly(c) : o[i].name = n
    BY DEF CookieInv, o
  <2>7. \A i \in 1..L : m[i].name = o[i].name /\ m[i].name_r = o[i].name_r
    BY <2>3 DEF SameCookie
  <2>8. ASSUME NEW i \in Plainly(p) PROVE AddsUp(m[i], u) /\ m[i].name # Unset
    <3>1. i \in 1..Len(m) /\ m[i].name_r = Unset  BY <2>4
    <3>2. CASE i = L + 1 /\ m[i] = e /\ \A j \in 1..L : ~SameCookie(e, o[j])
      <4>1. e.name # Unset /\ About(r, e.name)  BY <2>1, <3>1, <3>2
      <4>2. ~ \E j \in Plainly(c) : o[j].name = e.name  BY <2>5, <3>1, <3>2 DEF SameCookie
      <4>3. \A k : Giving(q, e.name, k) = {}  BY <2>6, <4>2 DEF Giving
      <4> DEFINE old == [encrypt |-> Unset, samesite |-> Unset]
      <4>4. old.encrypt = Unset /\ old.samesite = Unset  OBVIOUS
      <4> HIDE DEF old
      <4>5. e.encrypt = Or(e.encrypt, old.encrypt) /\ e.samesite = Or(e.samesite, old.samesite)
        BY <4>4 DEF Or
      <4>6. AddsUp(e, u)  BY <2>1, <4>1, <4>3, <4>4, <4>5, OnIsSet, RuleAddsUp DEF u
      <4> QED  BY <3>2, <4>1, <4>6
    <3>3. CASE i \in 1..L /\ ~SameCookie(e, o[i]) /\ m[i] = o[i]
      <4>1. i \in Plainly(c)  BY <2>5, <3>1, <3>3
      <4>2. ~About(r, o[i].name)  BY <2>1, <3>1, <3>3 DEF SameCookie
      <4>3. AddsUp(o[i], u)  BY <2>6, <4>1, <4>2, OtherAddsUp DEF u
      <4> QED  BY <2>6, <3>3, <4>1, <4>3
    <3>4. CASE /\ i \in 1..L /\ SameCookie(e, o[i]) /\ SameCookie(e, m[i])
               /\ m[i].encrypt = Or(e.encrypt, o[i].encrypt)
               /\ m[i].samesite = Or(e.samesite, o[i].samesite)
      <4>1. i \in Plainly(c) /\ m[i].name = o[i].name  BY <2>5, <2>7, <3>1, <3>4
      <4>2. About(r, m[i].name)  BY <2>1, <3>1, <3>4 DEF SameCookie
      <4>3. AddsUp(o[i], q)  BY <2>6, <4>1
      <4> DEFINE ck  == m[i]
                 old == o[i]
      <4>4. /\ (old.encrypt = On) <=> Giving(q, old.name, "encrypt") # {}
            /\ Giving(q, old.name, "samesite") = {} => old.samesite = Unset
            /\ Giving(q, old.name, "samesite") # {} =>
                 old.samesite = Says(q[Latest(Giving(q, old.name, "samesite"))], "samesite")
        BY <4>3 DEF AddsUp
      <4>5. /\ ck.name = old.name /\ About(r, ck.name)
            /\ ck.encrypt = Or(e.encrypt, old.encrypt) /\ ck.samesite = Or(e.samesite, old.samesite)
        BY <3>4, <4>1, <4>2
      <4> HIDE DEF ck, old
      <4>6. /\ (old.encrypt = On) <=> Giving(q, ck.name, "encrypt") # {}
            /\ Giving(q, ck.name, "samesite") = {} => old.samesite = Unset
            /\ Giving(q, ck.name, "samesite") # {} =>
                 old.samesite = Says(q[Latest(Giving(q, ck.name, "samesite"))], "samesite")
        BY <4>4, <4>5
      <4>7. AddsUp(ck, Append(q, r))  BY <2>1, <4>5, <4>6, RuleAddsUp
      <4> QED  BY <2>6, <4>1, <4>7 DEF ck, u
    <3> QED  BY <2>3, <3>1, <3>2, <3>3, <3>4
  <2>9. ASSUME NEW i \in Plainly(p), NEW j \in Plainly(p), m[i].name = m[j].name PROVE i = j
    <3>1. i \in 1..Len(m) /\ j \in 1..Len(m) /\ m[i].name_r = Unset /\ m[j].name_r = Unset  BY <2>4
    <3>2. \A k \in {i, j} : k \in 1..L \/ (k = L + 1 /\ m[k] = e /\ \A l \in 1..L : ~SameCookie(e, o[l]))
      BY <2>3, <3>1
    <3>3. CASE i \in 1..L /\ j \in 1..L
      <4>1. i \in Plainly(c) /\ j \in Plainly(c) /\ o[i].name = o[j].name  BY <2>5, <2>7, <2>9, <3>1, <3>3
      <4> QED  BY <2>6, <4>1
    <3>4. CASE i \in 1..L /\ j = L + 1
      <4>1. SameCookie(e, o[i])  BY <2>3, <2>7, <2>9, <3>1, <3>2, <3>4 DEF SameCookie
      <4> QED  BY <2>3, <3>1, <3>2, <3>4, <4>1
    <3>5. CASE j \in 1..L /\ i = L + 1
      <4>1. SameCookie(e, o[j])  BY <2>3, <2>7, <2>9, <3>1, <3>2, <3>5 DEF SameCookie
      <4> QED  BY <2>3, <3>1, <3>2, <3>5, <4>1
    <3> QED  BY <3>2, <3>3, <3>4, <3>5
  <2>10. ASSUME NEW n, NEW x \in DOMAIN u, About(u[x], n) PROVE \E i \in Plainly(p) : m[i].name = n
    <3>1. CASE x \in DOMAIN q
      <4>1. \E i \in Plainly(c) : o[i].name = n  BY <1>2, <2>6, <2>10, <3>1 DEF u
      <4> QED  BY <2>3, <2>4, <2>5, <2>7, <4>1
    <3>2. CASE x = N + 1
      <4>1. e.name = n /\ e.name_r = Unset  BY <1>2, <2>1, <2>10, <3>2 DEF u
      <4> QED  BY <2>3, <2>4, <4>1 DEF SameCookie
    <3> QED  BY <1>3, <3>1, <3>2 DEF u
  <2>11. CookieInv(p, u)  BY <2>2, <2>8, <2>9, <2>10 DEF CookieInv
  <2> QED  BY <2>11 DEF p, u
<1> QED  BY <1>4, <1>5

-----------------------------------------------------------------------------
(* All of it                                                               *)

\* The inductive invariant, which needs the two before, and that the value of a
\* variable is a text: a keyword given by a variable is given.
TextsAreSet == \A x \in DOMAIN vars_ : vars_[x] # Unset
RulesInv    == InUse => CookieInv(cfg, InForceRules)
CookiesInv  == SecretsInv /\ TextInv /\ TextsAreSet /\ RulesInv

\* Where the values of Besides come from.
LEMMA BesidesIs ==
  ASSUME NEW f, NEW g
  PROVE  \A x \in DOMAIN Besides(f, g) : (x \in DOMAIN f /\ Besides(f, g)[x] = f[x]) \/ (x \in DOMAIN g /\ Besides(f, g)[x] = g[x])
BY DEF Besides

\* Variables have values.
LEMMA TextsNext == TextsAreSet /\ [Next]_vars => TextsAreSet'
<1> SUFFICES ASSUME TextsAreSet, [Next]_vars PROVE TextsAreSet'  OBVIOUS
<1>1. ASSUME vars_' = Predefined PROVE TextsAreSet'
  <2>1. \A x \in DOMAIN Predefined : Predefined[x] \in Range(Predefined)  BY DEF Range
  <2> QED  BY <1>1, <2>1, VariablesAreWritten DEF TextsAreSet
<1>2. ASSUME vars_' = vars_ PROVE TextsAreSet'  BY <1>2 DEF TextsAreSet
<1>3. ASSUME NEW s \in Statements, Set(s) PROVE TextsAreSet'
  <2> DEFINE f == [x \in {s.var} |-> s.v]
  <2>1. s.v # Unset /\ vars_' = Besides(f, vars_)  BY <1>3, VariablesAreWritten DEF Set
  <2>2. \A x \in DOMAIN f : f[x] # Unset  BY <2>1
  <2> HIDE DEF f
  <2> QED  BY <2>1, <2>2, BesidesIs DEF TextsAreSet
<1> QED  BY <1>1, <1>2, <1>3 DEF Next, vars, Rule, Skip, Condition, EndCondition, Refuse, Break, Load,
            Unreadable, RunOff, EndOfFile, NewFile

\* The rule the handler gets, with its variables replaced, is a list of
\* keywords that have arguments.
LEMMA RuleIsWritten ==
  ASSUME NEW s \in Statements, s.t = "rule", TextsAreSet, Readable(s, vars_), NEW r, r = Resolved(s, vars_)
  PROVE  Len(r.kws) \in Nat /\ DOMAIN r.kws = 1..Len(r.kws) /\ \A j \in 1..Len(r.kws) : r.kws[j].v # Unset
<1>1. /\ Len(r.kws) = Len(s.kws) /\ Len(s.kws) \in Nat
      /\ \A i \in 1..Len(s.kws) : r.kws[i] = Written(s.kws[i], vars_)
      /\ DOMAIN r.kws = 1..Len(r.kws)
  BY ResolvedIs
<1>2. DOMAIN s.kws = 1..Len(s.kws)  BY RulesAreWritten
<1>3. ASSUME NEW i \in 1..Len(s.kws) PROVE Written(s.kws[i], vars_).v # Unset
  <2> DEFINE kw == s.kws[i]
  <2>1. kw.v # Unset  BY <1>2, RulesAreWritten
  <2>2. Known(kw, vars_)  BY <1>2 DEF Readable
  <2> HIDE DEF kw
  <2>3. Written(kw, vars_).v # Unset  BY <2>1, <2>2 DEF Written, Known, TextsAreSet
  <2> QED  BY <2>3 DEF kw
<1> QED  BY <1>1, <1>3

\* A statement that is read adds to the rules in force if it is a rule in force.
LEMMA RulesGrowOn ==
  ASSUME TextInv, Reading, NEW s, Met(s)
  PROVE  /\ IsSeq(InForceRules)
         /\ InForceRules' = IF s.t = "rule" /\ InForce THEN Append(InForceRules, Resolved(s, vars_)) ELSE InForceRules
<1> DEFINE n == Len(text)
           item == [file |-> file, s |-> s]
<1>1. /\ IsSeq(text) /\ text' = Append(text, item) /\ phase = "reading"
      /\ item.file = file /\ item.s = s
  BY DEF TextInv, Reading, Met
<1>2. vars_ = VarsIn(Applies, text, file, n) /\ cond = CondIn(Applies, text, file, n)
  BY <1>1 DEF TextInv, ReadingInv
<1> HIDE DEF item
<1>3. n \in Nat  BY <1>1, AppliesGrows
<1>4. InForce <=> Holds(Applies, text, file, n)
  <2>1. Holds(Applies, text, file, n) <=> CondIn(Applies, text, file, n).value # 0  BY <1>3, CondHolds
  <2> QED  BY <1>2, <2>1 DEF InForce
<1>5. InForceRules' = IF s.t = "rule" /\ InForce THEN Append(InForceRules, Resolved(s, vars_)) ELSE InForceRules
  BY <1>1, <1>2, <1>4, RulesGrow
<1>6. IsSeq(InForceRules)  BY <1>3, RulesAreSeq
<1> QED  BY <1>5, <1>6

\* The defaults have no cookie.
LEMMA NoCookies == CookieInv(Defaults, <<>>)
<1>1. Defaults.cookies = <<>>  BY DEF Defaults, Blank
<1>2. Len(<<>>) = 0 /\ DOMAIN <<>> = {}  BY EmptySeq
<1>3. Plainly(Defaults) = {}  BY <1>1, <1>2 DEF Plainly
<1> QED  BY <1>2, <1>3 DEF CookieInv

\* Every step keeps the part about the cookies.
LEMMA RulesNext == CookiesInv /\ [Next]_vars => RulesInv'
<1> SUFFICES ASSUME CookiesInv, [Next]_vars PROVE RulesInv'  OBVIOUS
<1>1. /\ SecretsInv /\ TextInv /\ TextsAreSet /\ RulesInv /\ IsSeq(text) /\ CookiesOk(cfg)
      /\ DOMAIN cfg.set = Globals
  BY DEF CookiesInv, TextInv, SecretsInv, SecretsHeld
<1>2. ASSUME text' = text, cfg' = cfg, InUse' => InUse PROVE RulesInv'
  <2>1. InForceRules' = InForceRules  BY <1>1, <1>2, SameText
  <2> QED  BY <1>1, <1>2, <2>1 DEF RulesInv
<1>3. ASSUME NEW s \in Statements, Rule(s) PROVE RulesInv'
  <2> DEFINE r == Resolved(s, vars_)
             q == InForceRules
  <2>1. /\ Reading /\ Met(s) /\ s.t = "rule" /\ InForce /\ Readable(s, vars_) /\ Accepted(cfg, r)
        /\ cfg' = Parse(cfg, r)
    BY <1>3 DEF Rule, RuleIsFine
  <2>2. IsSeq(q) /\ InForceRules' = Append(q, r)  BY <1>1, <2>1, RulesGrowOn
  <2>3. CookieInv(cfg, q)  BY <1>1, <2>1 DEF RulesInv, InUse, Reading
  <2>4. Len(r.kws) \in Nat /\ DOMAIN r.kws = 1..Len(r.kws) /\ \A j \in 1..Len(r.kws) : r.kws[j].v # Unset
    BY <1>1, <2>1, RuleIsWritten
  <2> HIDE DEF r, q
  <2>5. CookieInv(Parse(cfg, r), Append(q, r))  BY <1>1, <2>1, <2>2, <2>3, <2>4, CookiesAddUp
  <2> QED  BY <2>1, <2>2, <2>5 DEF RulesInv
<1>4. ASSUME NEW s \in Statements, Skip(s) \/ Set(s) \/ Condition(s) \/ EndCondition(s) PROVE RulesInv'
  <2>1. Reading /\ Met(s) /\ ~(s.t = "rule" /\ InForce) /\ cfg' = cfg
    BY <1>4 DEF Skip, Set, Condition, EndCondition
  <2>2. InForceRules' = InForceRules  BY <1>1, <2>1, RulesGrowOn
  <2> QED  BY <1>1, <2>1, <2>2 DEF RulesInv, InUse, Reading
<1>5. ASSUME Load PROVE RulesInv'
  <2>1. cfg' = Defaults /\ text' = <<>>  BY <1>5 DEF Load
  <2>2. InForceRules' = <<>>  BY <2>1, EmptyText
  <2> QED  BY <2>1, <2>2, NoCookies DEF RulesInv
<1>6. ASSUME EndOfFile PROVE RulesInv'  BY <1>2, <1>6 DEF EndOfFile, InUse
<1>7. ASSUME UNCHANGED vars PROVE RulesInv'  BY <1>2, <1>7 DEF vars, InUse
<1>8. ASSUME Break PROVE RulesInv'  BY <1>8 DEF Break, RulesInv, InUse
<1> QED  BY <1>3, <1>4, <1>5, <1>6, <1>7, <1>8 DEF Next, Refuse, Unreadable, RunOff

\* What holds in every state of SpConfig.
THEOREM CookiesInvariant == Spec => []CookiesInv
<1>1. Init => CookiesInv
  <2> SUFFICES ASSUME Init PROVE CookiesInv  OBVIOUS
  <2>1. SecretsInv  BY BlankInv DEF Init, SecretsInv
  <2>2. <<>> \in Seq({})  BY EmptySeq
  <2>3. TextInv  BY <2>2 DEF Init, TextInv, IsSeq, ReadingInv, OnlyTheTextCounts, InUse
  <2>4. \A x \in DOMAIN Predefined : Predefined[x] \in Range(Predefined)  BY DEF Range
  <2>5. TextsAreSet  BY <2>4, VariablesAreWritten DEF Init, TextsAreSet
  <2> QED  BY <2>1, <2>3, <2>5 DEF CookiesInv, RulesInv, InUse, Init
<1>2. CookiesInv /\ [Next]_vars => CookiesInv'
  <2> SUFFICES ASSUME CookiesInv, [Next]_vars PROVE CookiesInv'  OBVIOUS
  <2>1. SecretsInv /\ TextInv /\ TextsAreSet  BY DEF CookiesInv
  <2>2. SecretsInv'  BY <2>1, SecretsNext
  <2>3. TextInv'  BY <2>1, TextNext
  <2>4. TextsAreSet'  BY <2>1, TextsNext
  <2>5. RulesInv'  BY RulesNext
  <2> QED  BY <2>2, <2>3, <2>4, <2>5 DEF CookiesInv
<1> QED  BY <1>1, <1>2, PTL DEF Spec

\* A cookie rules name is encrypted if any of them says so, has the samesite of
\* the last of them that gives one, and is there once (sp_parse_cookie).
THEOREM CookiesSettled == Spec => []CookieRulesAddUp
<1>1. CookiesInv => CookieRulesAddUp
  <2> SUFFICES ASSUME CookiesInv, InUse, NEW i \in DOMAIN cfg.cookies, cfg.cookies[i].name_r = Unset
               PROVE  LET ck == cfg.cookies[i] IN
                      /\ AddsUp(ck, InForceRules)
                      /\ \A j \in DOMAIN cfg.cookies : SameCookie(ck, cfg.cookies[j]) => j = i
    BY DEF CookieRulesAddUp, AddsUp
  <2> DEFINE ck == cfg.cookies[i]
             q  == InForceRules
  <2>1. CookieInv(cfg, q) /\ DOMAIN cfg.cookies = 1..Len(cfg.cookies)
    BY DEF CookiesInv, RulesInv, SecretsInv, CookiesOk, IsSeq
  <2>2. i \in Plainly(cfg)  BY <2>1 DEF Plainly
  <2>3. AddsUp(ck, q) /\ ck.name # Unset  BY <2>1, <2>2 DEF CookieInv
  <2>4. ASSUME NEW j \in DOMAIN cfg.cookies, SameCookie(ck, cfg.cookies[j]) PROVE j = i
    <3>1. cfg.cookies[j].name = ck.name /\ j \in Plainly(cfg)  BY <2>1, <2>4 DEF SameCookie, Plainly
    <3> QED  BY <2>1, <2>2, <3>1 DEF CookieInv
  <2> QED  BY <2>3, <2>4
<1> QED  BY <1>1, CookiesInvariant, PTL
=================================================================================
