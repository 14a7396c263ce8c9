---------------------------- MODULE SpClientProofs ----------------------------
(* Proofs about SpClient: what a script sees of an encrypted cookie is what *)
(* a script gave under the key of the request, and outside of simulation    *)
(* only signed values are unserialized, for any cookies, clients, keys,     *)
(* values and configurations.                                               *)
EXTENDS SpClient, SequenceTheorems, TLAPS

-----------------------------------------------------------------------------
(* Texts                                                                   *)

\* A text behind a key: the key comes off again, and nothing else.
LEMMA SealOpens ==
  ASSUME NEW S, NEW k \in S, NEW t \in Seq(S)
  PROVE  /\ encrypt(t, k) # <<>> /\ Len(encrypt(t, k)) = Len(t) + 1
         /\ Head(encrypt(t, k)) = k /\ Tail(encrypt(t, k)) = t
<1> DEFINE s == <<k>> \o t
           q == Tail(s)
<1>1. <<k>> \in Seq(S) /\ Len(<<k>>) = 1 /\ Len(t) \in Nat  OBVIOUS
<1>2. /\ s \in Seq(S) /\ Len(s) = Len(t) + 1 /\ s[1] = k
      /\ \A i \in 1..Len(t) : s[i + 1] = t[i]
  BY <1>1, ConcatProperties
<1> HIDE DEF s
<1>3. s # <<>>  BY <1>1, <1>2
<1>4. q \in Seq(S) /\ Len(q) = Len(s) - 1 /\ \A i \in 1..Len(q) : q[i] = s[i + 1]
  BY <1>2, <1>3, HeadTailProperties
<1> HIDE DEF q
<1>5. Len(q) = Len(t) /\ \A i \in 1..Len(q) : q[i] = t[i]  BY <1>1, <1>2, <1>4
<1>6. q = t  BY <1>4, <1>5, SeqEqual
<1>7. Head(s) = k  BY <1>2, <1>3
<1> QED  BY <1>2, <1>3, <1>6, <1>7 DEF encrypt, s, q

LEMMA PlainAre ==
  ASSUME NEW t \in Plain
  PROVE  \/ t = <<>>
         \/ \E v \in Values : t = <<v>>
         \/ \E v \in Values, s \in signed \cup {Junk} : t = <<v, s>>
BY DEF Plain

LEMMA SingleIs ==
  ASSUME NEW v
  PROVE  <<v>> # <<>> /\ Head(<<v>>) = v /\ Len(<<v>>) = 1 /\ <<v>>[1] = v
OBVIOUS

LEMMA PairIs ==
  ASSUME NEW v, NEW s
  PROVE  <<v, s>> # <<>> /\ Head(<<v, s>>) = v /\ Len(<<v, s>>) = 2 /\ <<v, s>>[1] = v /\ <<v, s>>[2] = s
OBVIOUS

\* Without its tail a signed text is its value.
LEMMA PairBody ==
  ASSUME NEW v, NEW s
  PROVE  Body(<<v, s>>) = <<v>>
<1> DEFINE t == <<v, s>>
           q == SubSeq(t, 1, 1)
           S == {v, s}
<1>1. t \in Seq(S) /\ Len(t) = 2 /\ t[1] = v /\ v \in S /\ <<v>> \in Seq(S) /\ Len(<<v>>) = 1  OBVIOUS
<1> HIDE DEF t, S
<1>2. q \in Seq(S) /\ Len(q) = 1 /\ q[1] = t[1]  BY <1>1, SubSeqProperties
<1> HIDE DEF q
<1>3. \A i \in 1..Len(q) : q[i] = <<v>>[i]  BY <1>1, <1>2
<1>4. q = <<v>>  BY <1>1, <1>2, <1>3, SeqEqual
<1>5. Body(t) = q  BY <1>1 DEF Body, q
<1> QED  BY <1>4, <1>5 DEF t

LEMMA PlainText ==
  ASSUME NEW t \in Plain
  PROVE  \E S : t \in Seq(S)
<1>1. CASE t = <<>>  
  <2>1. t \in Seq({})  BY <1>1
  <2> QED  BY <2>1
<1>2. ASSUME NEW v \in Values, t = <<v>> PROVE \E S : t \in Seq(S)
  <2>1. t \in Seq({v})  BY <1>2
  <2> QED  BY <2>1
<1>3. ASSUME NEW v \in Values, NEW s \in signed \cup {Junk}, t = <<v, s>> PROVE \E S : t \in Seq(S)
  <2>1. t \in Seq({v, s})  BY <1>3
  <2> QED  BY <2>1
<1> QED  BY <1>1, <1>2, <1>3, PlainAre

LEMMA SealedAre ==
  ASSUME NEW t \in Plain, NEW k
  PROVE  /\ encrypt(t, k) # <<>> /\ Len(encrypt(t, k)) = Len(t) + 1
         /\ Head(encrypt(t, k)) = k /\ Tail(encrypt(t, k)) = t
<1>1. PICK S : t \in Seq(S)  BY PlainText
<1> DEFINE U == S \cup {k}
<1>2. t \in Seq(U) /\ k \in U  BY <1>1
<1> HIDE DEF U
<1> QED  BY <1>2, SealOpens

LEMMA NoKindTwice ==
  /\ \A v \in Values : v \notin Keys /\ v \notin Signs /\ v # None
  /\ \A k \in Keys : k # None
BY KindsDiffer

\* What begins with a value is plain.
LEMMA BeginsWithValue ==
  ASSUME NEW t \in Texts, t # <<>> => Head(t) \in Values
  PROVE  t \in Plain
<1>1. CASE t = Array
  <2>1. Head(t) = None /\ t # <<>>  BY <1>1 DEF Array
  <2> QED  BY <2>1, NoKindTwice
<1>2. ASSUME NEW p \in Plain, NEW k \in Keys, t = encrypt(p, k) PROVE FALSE
  BY <1>2, SealedAre, NoKindTwice
<1> QED  BY <1>1, <1>2 DEF Texts

-----------------------------------------------------------------------------
(* The inductive invariant: a cookie is what a script gave, sealed and      *)
(* hidden from the page, or nobody gave it and it is not sealed.            *)

Given(n)  == /\ given[n].key \in Keys /\ jar[n].text = encrypt(given[n].text, given[n].key)
             /\ jar[n].httponly
Own(n)    == given[n] = Nothing /\ jar[n].text \in Plain \cup {Array}
JarInv    == \A n \in Names : Given(n) \/ Own(n)
ClientInv == TypeOK /\ JarInv

LEMMA SecretIsAKey ==
  ASSUME NEW a \in Agents, NEW c \in Configs
  PROVE  Key(a, Env, c.key) \in Keys
BY DEF Keys

LEMMA EncryptsUnderKey ==
  ASSUME TypeOK, NEW n \in Names, Encrypts(n)
  PROVE  cfg \in Configs /\ cfg.key # None /\ Secret \in Keys
<1>1. Rule(NoConfig, n) = None  BY DEF Rule, NoConfig
<1>2. cfg # NoConfig  BY <1>1 DEF Encrypts
<1>3. cfg \in Configs  BY <1>2 DEF TypeOK
<1>4. cfg.key # None  BY <1>3, EncryptionHasAKey DEF Encrypts
<1> QED  BY <1>3, <1>4, SecretIsAKey DEF Secret, TypeOK

LEMMA SomeTexts ==
  /\ <<>> \in Plain /\ Plain \subseteq Texts /\ Array \in Texts
  /\ \A v \in Values : <<v>> \in Plain
  /\ \A v \in Values, s \in signed \cup {Junk} : <<v, s>> \in Plain
  /\ \A t \in Plain, k \in Keys : encrypt(t, k) \in Texts
BY DEF Plain, Texts

LEMMA InitInv == Init => ClientInv
<1> SUFFICES ASSUME Init PROVE ClientInv  OBVIOUS
<1>1. NoCookie \in [text : Texts, secure : BOOLEAN, httponly : BOOLEAN]  BY SomeTexts DEF NoCookie
<1>2. Nothing \in [key : Keys \cup {None}, text : Plain]  BY SomeTexts DEF Nothing
<1>3. Empty \in [Names -> Texts]  BY SomeTexts DEF Empty
<1>4. TypeOK  BY <1>1, <1>2, <1>3, SomeTexts DEF Init, TypeOK
<1>5. JarInv  BY SomeTexts DEF Init, JarInv, Own, NoCookie
<1> QED  BY <1>4, <1>5 DEF ClientInv

-----------------------------------------------------------------------------
(* Every step keeps it. More is signed as time goes by: texts remain texts. *)

LEMMA TextsRemain ==
  ASSUME signed \subseteq signed'
  PROVE  Plain \subseteq Plain' /\ Texts \subseteq Texts'
<1>1. Plain \subseteq Plain'
  <2> SUFFICES ASSUME NEW t \in Plain PROVE t \in Plain'  OBVIOUS
  <2>1. signed \cup {Junk} \subseteq signed' \cup {Junk}  OBVIOUS
  <2> QED  BY <2>1, PlainAre DEF Plain
<1>2. Texts \subseteq Texts'  BY <1>1 DEF Texts
<1> QED  BY <1>1, <1>2

\* A step that changes neither the cookies nor what was given.
LEMMA JarsRemain ==
  ASSUME ClientInv, UNCHANGED <<jar, given>>, signed \subseteq signed', TypeOK'
  PROVE  ClientInv'
<1>1. Plain \subseteq Plain'  BY TextsRemain
<1>2. JarInv'  BY <1>1 DEF ClientInv, JarInv, Given, Own
<1> QED  BY <1>2 DEF ClientInv

LEMMA TextsSame == ASSUME UNCHANGED signed PROVE Plain' = Plain /\ Texts' = Texts
BY DEF Plain, Texts

LEMMA LoadInv == ASSUME ClientInv, NEW c \in Configs, Load(c) PROVE ClientInv'
<1>1. /\ TypeOK /\ cfg' = c
      /\ UNCHANGED <<php83, jar, given, phase, agent, https, seen, text, got, signed>>
  BY DEF Load, ClientInv
<1>2. Plain' = Plain /\ Texts' = Texts  BY <1>1, TextsSame
<1>3. TypeOK'  BY <1>1, <1>2 DEF TypeOK
<1> QED  BY <1>1, <1>3, JarsRemain

\* What decrypt_cookie makes of a cookie that a script gave, and of any other:
\* d, under the key k.
Fits(n, k, d) ==
  /\ d.ret = "keep" => d.text \in Texts
  /\ Encrypts(n) /\ ~Rule(cfg, n).simulation /\ jar[n].text # Array =>
       IF given[n].key = k THEN d.ret = "keep" /\ d.text = given[n].text
                           ELSE d.ret = "keep" => d.text = <<>>

LEMMA DecryptedIs ==
  ASSUME ClientInv, NEW n \in Names, NEW a \in Agents
  PROVE  Fits(n, Key(a, Env, cfg.key), Decrypted(n, Key(a, Env, cfg.key)))
<1> DEFINE k == Key(a, Env, cfg.key)
           d == Decrypted(n, k)
           t == jar[n].text
<1>1. t \in Texts /\ given[n].text \in Plain /\ given[n].key \in Keys \cup {None} /\ TypeOK
  BY DEF ClientInv, TypeOK
<1>2. CASE ~(cfg.key # None /\ Encrypts(n) /\ t \notin {<<>>, Array})
  <2>1. d.ret = "keep" /\ d.text = t  BY <1>2 DEF Decrypted, Outcome
  <2>2. ASSUME Encrypts(n), t # Array PROVE t = <<>>
    BY <1>1, <1>2, <2>2, EncryptsUnderKey
  <2>3. ASSUME Encrypts(n), t # Array PROVE given[n].key # k
    <3>1. t = <<>> /\ Own(n)  BY <2>2, <2>3, <1>1, SealedAre DEF ClientInv, JarInv, Given
    <3>2. k \in Keys  BY <2>3, <1>1, EncryptsUnderKey, SecretIsAKey
    <3> QED  BY <3>1, <3>2, NoKindTwice DEF Own, Nothing
  <2> HIDE DEF d, k
  <2>4. Fits(n, k, d)  BY <1>1, <2>1, <2>2, <2>3 DEF Fits
  <2> QED  BY <2>4 DEF d, k
<1>3. CASE cfg.key # None /\ Encrypts(n) /\ t \notin {<<>>, Array}
  <2>1. d = decrypt(t, k, Rule(cfg, n).simulation)  BY <1>3 DEF Decrypted
  <2>2. k \in Keys  BY <1>3, <1>1, EncryptsUnderKey, SecretIsAKey
  <2>3. /\ Head(t) = k => d.ret = "keep" /\ d.text = Tail(t)
        /\ Head(t) # k => (d.ret = "keep" /\ d.text = t) \/ d.ret # "keep"
        /\ Head(t) # k /\ ~Rule(cfg, n).simulation => d.ret # "keep"
    BY <2>1 DEF decrypt, Outcome
  <2>4. CASE Given(n)
    <3>1. Head(t) = given[n].key /\ Tail(t) = given[n].text  BY <1>1, <2>4, SealedAre DEF Given
    <3>2. given[n].text \in Texts  BY <1>1, SomeTexts
    <3> HIDE DEF d, k
    <3>3. Fits(n, k, d)  BY <1>1, <2>3, <3>1, <3>2 DEF Fits
    <3> QED  BY <3>3 DEF d, k
  <2>5. CASE Own(n)
    <3>1. t \in Plain /\ given[n].key = None  BY <1>3, <2>5 DEF Own, Nothing
    <3>2. Head(t) \in Values  BY <1>3, <3>1, PlainAre, SingleIs, PairIs
    <3>3. Head(t) # k /\ given[n].key # k  BY <2>2, <3>1, <3>2, NoKindTwice
    <3> HIDE DEF d, k
    <3>4. Fits(n, k, d)  BY <1>1, <2>3, <3>3 DEF Fits
    <3> QED  BY <3>4 DEF d, k
  <2> QED  BY <2>4, <2>5 DEF ClientInv, JarInv
<1> QED  BY <1>2, <1>3

LEMMA BeginInv == ASSUME ClientInv, NEW a \in Agents, NEW s \in BOOLEAN, Begin(a, s) PROVE ClientInv'
<1> DEFINE d(n) == Decrypted(n, Key(a, Env, cfg.key))
<1>1. /\ TypeOK /\ agent' = a /\ https' = s /\ text' = <<>> /\ got' = None
      /\ UNCHANGED <<cfg, php83, jar, given, signed>> /\ phase' \in {"over", "request"}
      /\ \/ seen' = Empty
         \/ seen' = [n \in Names |-> IF d(n).ret = "keep" THEN d(n).text ELSE <<>>]
  BY DEF Begin, ClientInv
<1>2. \A n \in Names : d(n).ret = "keep" => d(n).text \in Texts  BY DecryptedIs DEF Fits
<1> HIDE DEF d
<1>3. seen' \in [Names -> Texts]  BY <1>1, <1>2, SomeTexts DEF Empty
<1>4. Plain' = Plain /\ Texts' = Texts  BY <1>1, TextsSame
<1>5. TypeOK'  BY <1>1, <1>3, <1>4, SomeTexts DEF TypeOK
<1> QED  BY <1>1, <1>5, JarsRemain

LEMMA EndInv == ASSUME ClientInv, End PROVE ClientInv'
<1>1. /\ TypeOK /\ phase' = "idle" /\ seen' = Empty /\ text' = <<>> /\ got' = None
      /\ UNCHANGED <<cfg, php83, jar, given, agent, https, signed>>
  BY DEF End, ClientInv
<1>2. Plain' = Plain /\ Texts' = Texts  BY <1>1, TextsSame
<1>3. seen' \in [Names -> Texts]  BY <1>1, SomeTexts DEF Empty
<1>4. TypeOK'  BY <1>1, <1>2, <1>3, SomeTexts DEF TypeOK
<1> QED  BY <1>1, <1>4, JarsRemain

LEMMA TakeInv == ASSUME ClientInv, NEW n \in Names, Take(n) PROVE ClientInv'
<1>1. /\ TypeOK /\ text' = seen[n]
      /\ UNCHANGED <<cfg, php83, jar, given, phase, agent, https, seen, got, signed>>
  BY DEF Take, ClientInv
<1>2. Plain' = Plain /\ Texts' = Texts  BY <1>1, TextsSame
<1>3. TypeOK'  BY <1>1, <1>2 DEF TypeOK
<1> QED  BY <1>1, <1>3, JarsRemain

\* A step that changes one cookie, and says of it what it should.
LEMMA OneJar ==
  ASSUME ClientInv, NEW n \in Names, NEW j \in [text : Texts, secure : BOOLEAN, httponly : BOOLEAN],
         NEW g \in [key : Keys \cup {None}, text : Plain],
         jar' = [jar EXCEPT ![n] = j], given' = [given EXCEPT ![n] = g],
         \/ g.key \in Keys /\ j.text = encrypt(g.text, g.key) /\ j.httponly
         \/ g = Nothing /\ j.text \in Plain \cup {Array},
         UNCHANGED <<cfg, php83, phase, agent, https, seen, text, got, signed>>
  PROVE  ClientInv'
<1>1. Plain' = Plain /\ Texts' = Texts /\ TypeOK /\ JarInv  BY TextsSame DEF ClientInv
<1>2. TypeOK'  BY <1>1 DEF TypeOK
<1>3. ASSUME NEW m \in Names PROVE Given(m)' \/ Own(m)'
  <2>1. CASE m = n
    <3>1. jar'[m] = j /\ given'[m] = g  BY <1>1, <2>1 DEF TypeOK
    <3> QED  BY <1>1, <3>1 DEF Given, Own
  <2>2. CASE m # n
    <3>1. jar'[m] = jar[m] /\ given'[m] = given[m]  BY <1>1, <2>2 DEF TypeOK
    <3> QED  BY <1>1, <3>1 DEF Given, Own, JarInv
  <2> QED  BY <2>1, <2>2
<1> QED  BY <1>2, <1>3 DEF ClientInv, JarInv

LEMMA SomeJars ==
  /\ NoCookie \in [text : Texts, secure : BOOLEAN, httponly : BOOLEAN] /\ NoCookie.text \in Plain
  /\ Nothing \in [key : Keys \cup {None}, text : Plain]
BY SomeTexts DEF NoCookie, Nothing

LEMMA RemoveInv == ASSUME ClientInv, NEW n \in Names, Removecookie(n) PROVE ClientInv'
<1>1. /\ jar' = [jar EXCEPT ![n] = NoCookie] /\ given' = [given EXCEPT ![n] = Nothing]
      /\ UNCHANGED <<cfg, php83, phase, agent, https, seen, text, got, signed>>
  BY DEF Removecookie
<1> QED  BY <1>1, SomeJars, OneJar

LEMMA ForeignInv ==
  ASSUME ClientInv, NEW n \in Names, NEW t \in Plain \cup {Array}, Foreign(n, t)
  PROVE  ClientInv'
<1> DEFINE j == [NoCookie EXCEPT !.text = t]
<1>1. /\ jar' = [jar EXCEPT ![n] = j] /\ given' = [given EXCEPT ![n] = Nothing]
      /\ UNCHANGED <<cfg, php83, phase, agent, https, seen, text, got, signed>>
  BY DEF Foreign
<1>2. j \in [text : Texts, secure : BOOLEAN, httponly : BOOLEAN] /\ j.text \in Plain \cup {Array}
  BY SomeTexts DEF NoCookie
<1> HIDE DEF j
<1> QED  BY <1>1, <1>2, SomeJars, OneJar

LEMMA SetcookieInv == ASSUME ClientInv, NEW n \in Names, NEW s \in BOOLEAN, Setcookie(n, text, s) PROVE ClientInv'
<1> DEFINE e == Encrypts(n)
           w == IF e THEN encrypt(text, Secret) ELSE text
           new == Cookie(n, text, s \/ (cfg.secure /\ https))
           j == IF w = <<>> THEN NoCookie ELSE new
           g == IF e THEN [key |-> Secret, text |-> text] ELSE Nothing
<1>1. TypeOK /\ (text # <<>> => Head(text) \in Values)  BY DEF ClientInv, Setcookie
<1>2. text \in Plain  BY <1>1, BeginsWithValue DEF TypeOK
<1>3. new.text = w /\ new \in [text : {w}, secure : BOOLEAN, httponly : BOOLEAN] /\ new.httponly = e
  BY DEF Cookie, Encrypts
<1>4. /\ jar' = [jar EXCEPT ![n] = j] /\ given' = [given EXCEPT ![n] = g]
      /\ UNCHANGED <<cfg, php83, phase, agent, https, seen, text, got, signed>>
  <2>1. jar' = [jar EXCEPT ![n] = IF new.text = <<>> THEN NoCookie ELSE new]  BY DEF Setcookie
  <2> HIDE DEF new
  <2> QED  BY <2>1, <1>3 DEF Setcookie
<1> HIDE DEF new
<1>5. CASE e
  <2>1. Secret \in Keys  BY <1>1, <1>5, EncryptsUnderKey
  <2>2. w = encrypt(text, Secret) /\ w # <<>> /\ w \in Texts  BY <1>2, <1>5, <2>1, SealedAre, SomeTexts
  <2>3. j = new /\ g = [key |-> Secret, text |-> text]  BY <1>5, <2>2
  <2>4. j \in [text : Texts, secure : BOOLEAN, httponly : BOOLEAN] /\ j.text = w /\ j.httponly
    BY <1>3, <1>5, <2>2, <2>3
  <2>5. g \in [key : Keys \cup {None}, text : Plain] /\ g.key = Secret /\ g.text = text  BY <1>2, <2>1, <2>3
  <2> HIDE DEF j, g, w
  <2> QED  BY <1>4, <2>1, <2>2, <2>4, <2>5, OneJar
<1>6. CASE ~e
  <2>1. w = text /\ g = Nothing  BY <1>6
  <2>2. j \in [text : Texts, secure : BOOLEAN, httponly : BOOLEAN] /\ j.text \in Plain
    <3>1. CASE w = <<>>  BY <3>1, SomeJars
    <3>2. CASE w # <<>>  
      <4>1. j = new /\ w \in Plain /\ w \in Texts  BY <1>2, <2>1, <3>2, SomeTexts
      <4> HIDE DEF j, w
      <4> QED  BY <1>3, <4>1
    <3> QED  BY <3>1, <3>2
  <2> HIDE DEF j, g, w
  <2> QED  BY <1>4, <2>1, <2>2, SomeJars, OneJar
<1> QED  BY <1>5, <1>6

LEMMA SerializeInv == ASSUME ClientInv, NEW v \in Values, Serialize(v) PROVE ClientInv'
<1> DEFINE s == Signature(v, cfg.key)
<1>1. /\ TypeOK /\ UNCHANGED <<cfg, php83, jar, given, agent, https, seen, got>>
      /\ phase' \in {phase, "crashed"}
      /\ \/ UNCHANGED <<text, signed>>
         \/ Checks(cfg) /\ text' = <<v, s>> /\ signed' = signed \cup {s}
         \/ text' = <<v>> /\ signed' = signed
  BY DEF Serialize, ClientInv
<1>2. Checks(cfg) => s \in Signs
  <2>1. Checks(cfg) => cfg \in Configs  BY <1>1 DEF TypeOK, Checks, NoConfig
  <2> QED  BY <2>1 DEF Signs
<1> HIDE DEF s
<1>3. signed \subseteq signed' /\ signed' \subseteq Signs  BY <1>1, <1>2 DEF TypeOK
<1>4. Plain \subseteq Plain' /\ Texts \subseteq Texts'  BY <1>3, TextsRemain
<1>5. text' \in Texts'
  <2>1. CASE text' = text  BY <2>1, <1>1, <1>4 DEF TypeOK
  <2>2. CASE text' = <<v>>  BY <2>2, <1>4, SomeTexts
  <2>3. CASE text' = <<v, s>> /\ signed' = signed \cup {s}
    <3>1. text' \in Plain'  BY <2>3 DEF Plain
    <3> QED  BY <3>1 DEF Texts
  <2> QED  BY <1>1, <2>1, <2>2, <2>3
<1>6. /\ jar \in [Names -> [text : Texts', secure : BOOLEAN, httponly : BOOLEAN]]
      /\ given \in [Names -> [key : Keys \cup {None}, text : Plain']]
      /\ seen \in [Names -> Texts']
  BY <1>1, <1>4 DEF TypeOK
<1>7. TypeOK'  BY <1>1, <1>3, <1>5, <1>6 DEF TypeOK
<1> QED  BY <1>1, <1>3, <1>7, JarsRemain

LEMMA UnserializeInv == ASSUME ClientInv, Unserialize PROVE ClientInv'
<1>1. \A t : Value(t) \in Values \cup {"false"}  BY DEF Value
<1>2. /\ TypeOK /\ UNCHANGED <<cfg, php83, jar, given, agent, https, seen, text, signed>>
      /\ phase' \in {phase, "over"} /\ got' \in Values \cup {"false", got}
  BY <1>1 DEF Unserialize, ClientInv
<1>3. Plain' = Plain /\ Texts' = Texts  BY <1>2, TextsSame
<1>4. TypeOK'  BY <1>2, <1>3 DEF TypeOK
<1> QED  BY <1>2, <1>4, JarsRemain

LEMMA NextInv == ClientInv /\ [Next]_vars => ClientInv'
<1> SUFFICES ASSUME ClientInv, [Next]_vars PROVE ClientInv'  OBVIOUS
<1>1. ASSUME UNCHANGED vars PROVE ClientInv'
  <2>1. Plain' = Plain /\ Texts' = Texts  BY <1>1, TextsSame DEF vars
  <2>2. TypeOK'  BY <1>1, <2>1 DEF TypeOK, vars, ClientInv
  <2> QED  BY <1>1, <2>2, JarsRemain DEF vars
<1>2. ASSUME NEW c \in Configs, Load(c) PROVE ClientInv'  BY <1>2, LoadInv
<1>3. ASSUME NEW a \in Agents, NEW s \in BOOLEAN, Begin(a, s) PROVE ClientInv'  BY <1>3, BeginInv
<1>4. ASSUME NEW n \in Names, NEW s \in BOOLEAN, Setcookie(n, text, s) PROVE ClientInv'  BY <1>4, SetcookieInv
<1>5. ASSUME NEW n \in Names, Removecookie(n) PROVE ClientInv'  BY <1>5, RemoveInv
<1>6. ASSUME NEW n \in Names, Take(n) PROVE ClientInv'  BY <1>6, TakeInv
<1>7. ASSUME NEW n \in Names, Foreign(n, Array) PROVE ClientInv'  BY <1>7, ForeignInv
<1>8. ASSUME NEW n \in Names, NEW v \in Values, Foreign(n, <<v>>) PROVE ClientInv'
  <2>1. <<v>> \in Plain \cup {Array}  BY SomeTexts
  <2> QED  BY <1>8, <2>1, ForeignInv
<1>9. ASSUME NEW n \in Names, NEW v \in Values, NEW tail \in signed \cup {Junk}, Foreign(n, <<v, tail>>) PROVE ClientInv'
  <2>1. <<v, tail>> \in Plain \cup {Array}  BY SomeTexts
  <2> QED  BY <1>9, <2>1, ForeignInv
<1>10. ASSUME NEW v \in Values, Serialize(v) PROVE ClientInv'  BY <1>10, SerializeInv
<1> QED  BY <1>1, <1>2, <1>3, <1>4, <1>5, <1>6, <1>7, <1>8, <1>9, <1>10, UnserializeInv, EndInv DEF Next

-----------------------------------------------------------------------------
(* What follows.                                                           *)

\* The invariant holds in every state of every behaviour of cookies and signed
\* values: a cookie is one that a script gave, sealed, or one that nobody gave.
THEOREM ClientInvariant == Spec => []ClientInv
<1> QED  BY InitInv, NextInv, PTL DEF Spec

\* Every text a script, a browser or the server holds is one of those the model
\* knows: type correctness.
THEOREM TypeCorrect == Spec => []TypeOK
<1>1. ClientInv => TypeOK  BY DEF ClientInv
<1> QED  BY <1>1, ClientInvariant, PTL

\* Of a cookie that is encrypted the script of the next request sees what was given
\* under the key that request makes, and nothing else (decrypt_cookie).
THEOREM SeenAsGiven == Spec => SeesWhatWasGiven
<1> DEFINE A == \A n \in Names :
       phase = "idle" /\ phase' = "request" /\ Encrypts(n) /\ ~Rule(cfg, n).simulation /\ jar[n].text # Array =>
         LET mine == given[n].key = Key(agent', Env, cfg.key)
         IN /\ mine => seen'[n] = given[n].text
            /\ ~mine => seen'[n] = <<>>
<1>1. ClientInv /\ [Next]_vars => [A]_vars
  <2> SUFFICES ASSUME ClientInv, Next, NEW n \in Names,
                      phase = "idle", phase' = "request", Encrypts(n), ~Rule(cfg, n).simulation, jar[n].text # Array
               PROVE  IF given[n].key = Key(agent', Env, cfg.key) THEN seen'[n] = given[n].text ELSE seen'[n] = <<>>
    BY DEF A
  <2>1. PICK a \in Agents, s \in BOOLEAN : Begin(a, s)
    BY DEF Next, Load, Setcookie, Removecookie, Take, Foreign, Serialize, Unserialize, End
  <2> DEFINE k == Key(a, Env, cfg.key)
             d(m) == Decrypted(m, Key(a, Env, cfg.key))
  <2>2. agent' = a /\ seen' = [m \in Names |-> IF d(m).ret = "keep" THEN d(m).text ELSE <<>>]
    BY <2>1 DEF Begin
  <2>3. Fits(n, k, d(n))  BY DecryptedIs
  <2>4. k = Key(agent', Env, cfg.key)  BY <2>2
  <2> HIDE DEF k, d
  <2>5. IF given[n].key = k THEN seen'[n] = given[n].text ELSE seen'[n] = <<>>
    BY <2>2, <2>3 DEF Fits
  <2> QED  BY <2>4, <2>5
<1> QED  BY <1>1, ClientInvariant, PTL DEF Spec, SeesWhatWasGiven

\* A text whose signature is valid is a value and its signature, which was made.
LEMMA ValidIs ==
  ASSUME TypeOK, NEW t \in Texts, NEW k, Valid(t, k), NEW c \in Configs, k = c.key
  PROVE  \E v \in Values : t = <<v, Signature(v, k)>> /\ Signature(v, k) \in signed
<1>1. Len(t) = 2 /\ t[2] = Signature(t[1], k)  BY DEF Valid
<1>2. ASSUME NEW v \in Values, NEW s \in signed \cup {Junk}, t = <<v, s>>
      PROVE  t = <<v, Signature(v, k)>> /\ Signature(v, k) \in signed
  <2>1. s = Signature(v, k)  BY <1>1, <1>2, PairIs
  <2>2. Signature(v, k) \in Signs  BY DEF Signs
  <2> QED  BY <1>2, <2>1, <2>2, KindsDiffer
<1>3. ASSUME NEW p \in Plain, NEW l \in Keys, t = encrypt(p, l) PROVE FALSE
  <2>1. Len(t) = Len(p) + 1  BY <1>3, SealedAre
  <2>2. p # <<>> /\ \A v \in Values, s \in signed \cup {Junk} : p # <<v, s>>
    <3>1. p = <<>> => Len(p) = 0  OBVIOUS
    <3>2. \A v, s : p = <<v, s>> => Len(p) = 2  BY PairIs
    <3> QED  BY <1>1, <2>1, <3>1, <3>2
  <2>3. PICK v \in Values : p = <<v>>  BY <2>2, PlainAre
  <2>4. t[2] = v /\ t[1] = l
    <3> DEFINE S == {l, v}
    <3>1. <<l>> \in Seq(S) /\ <<v>> \in Seq(S) /\ Len(<<l>>) = 1 /\ Len(<<v>>) = 1  OBVIOUS
    <3>2. (<<l>> \o <<v>>)[1] = l /\ (<<l>> \o <<v>>)[2] = v  BY <3>1, ConcatProperties
    <3> QED  BY <1>3, <2>3, <3>2 DEF encrypt
  <2>5. v = Signature(l, k)  BY <1>1, <2>4
  <2> QED  BY <2>5, KindsDiffer
<1>4. CASE t \in Plain \/ t = Array
  <2>1. t # <<>>
    <3>1. t = <<>> => Len(t) = 0  OBVIOUS
    <3> QED  BY <1>1, <3>1
  <2>2. \A v : t # <<v>>  BY <1>1, SingleIs
  <2> QED  BY <1>2, <1>4, <2>1, <2>2, PlainAre DEF Array
<1> QED  BY <1>3, <1>4 DEF Texts

\* Outside of simulation sp_unserialize gives a script only values that a script
\* signed under this key, however a client puts values and signatures together.
THEOREM OnlySigned == Spec => OnlySignedValues
<1> DEFINE A == got' # got /\ got' # None /\ Checks(cfg) /\ ~cfg.noclass /\ ~cfg.simulation =>
                  Signature(got', cfg.key) \in signed
<1>1. ClientInv /\ [Next]_vars => [A]_vars
  <2> SUFFICES ASSUME ClientInv, Next, got' # got, got' # None, Checks(cfg), ~cfg.noclass, ~cfg.simulation
               PROVE  Signature(got', cfg.key) \in signed
    BY DEF A
  <2>1. Unserialize
    BY DEF Next, Load, Begin, Setcookie, Removecookie, Take, Foreign, Serialize, End
  <2>2. Valid(text, cfg.key) /\ got' = Value(Checked(text))  BY <2>1 DEF Unserialize
  <2>3. TypeOK /\ text \in Texts  BY DEF ClientInv, TypeOK
  <2>4. cfg \in Configs  BY <2>3 DEF TypeOK, Checks, NoConfig
  <2>5. PICK v \in Values : text = <<v, Signature(v, cfg.key)>> /\ Signature(v, cfg.key) \in signed
    BY <2>2, <2>3, <2>4, ValidIs
  <2>6. Head(Checked(text)) = v /\ Checked(text) # <<>>
    BY <2>5, PairIs, PairBody, SingleIs DEF Checked
  <2>7. got' = v  BY <2>2, <2>6 DEF Value
  <2> QED  BY <2>5, <2>7
<1> QED  BY <1>1, ClientInvariant, PTL DEF Spec, OnlySignedValues

\* A value signed under the key in force is unserialized as it was, and so it is
\* when signatures are no longer checked (sp_unserialize).
THEOREM SignedAreRead == Spec => SignedValuesAreRead
<1> DEFINE A == \A v \in Values, c \in Configs :
                  /\ phase = "request" /\ text = <<v, Signature(v, c.key)>>
                  /\ c.key = cfg.key \/ ~Checks(cfg)
                  => phase' # "over" /\ got' \in {got, v, None}
<1>1. [Next]_vars => [A]_vars
  <2> SUFFICES ASSUME Next, NEW v \in Values, NEW c \in Configs,
                      phase = "request", text = <<v, Signature(v, c.key)>>, c.key = cfg.key \/ ~Checks(cfg)
               PROVE  phase' # "over" /\ got' \in {got, v, None}
    BY DEF A
  <2>1. Head(text) = v /\ text # <<>> /\ Len(text) = 2 /\ ~TooShort(text)  BY PairIs DEF TooShort
  <2>2. CASE Unserialize
    <3>1. Value(text) = v  BY <2>1 DEF Value
    <3>2. Value(Checked(text)) = v  BY <2>1, PairBody, SingleIs DEF Checked, Value
    <3>3. Checks(cfg) => Valid(text, cfg.key)  BY PairIs DEF Valid
    <3> QED  BY <2>1, <2>2, <3>1, <3>2, <3>3 DEF Unserialize
  <2>3. CASE ~Unserialize
    BY <2>3 DEF Next, Load, Begin, Setcookie, Removecookie, Take, Foreign, Serialize, End
  <2> QED  BY <2>2, <2>3
<1> QED  BY <1>1, PTL DEF Spec, SignedValuesAreRead
=============================================================================
