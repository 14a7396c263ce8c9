--------------------------- MODULE SpSessionProofs ---------------------------
(* Proofs about SpSession: PHP keeps the copy of the module the setting    *)
(* names, which never ends up behind itself, and a session is read under   *)
(* the key it was written with or not at all, for any modules, clients,    *)
(* keys and configurations.                                                *)
EXTENDS SpSession, SequenceTheorems, TLAPS

-----------------------------------------------------------------------------
(* Texts: empty, one value, or one value sealed.                           *)

LEMMA TextsAre == ASSUME NEW t \in Texts PROVE t = <<>> \/ \E v \in Values : t = <<v>>
BY DEF Texts

LEMMA OneLong ==
  ASSUME NEW S, NEW q \in Seq(S), Len(q) = 1, NEW v \in S, q[1] = v
  PROVE  q = <<v>>
<1>1. <<v>> \in Seq(S) /\ Len(<<v>>) = Len(q)  OBVIOUS
<1>2. \A i \in 1 .. Len(q) : q[i] = <<v>>[i]  OBVIOUS
<1> QED  BY <1>1, <1>2, SeqEqual

LEMMA SealedText ==
  ASSUME NEW v, NEW k
  PROVE  /\ encrypt(<<v>>, k) # <<>> /\ encrypt(<<v>>, k) # <<v>>
         /\ Len(encrypt(<<v>>, k)) = 2
         /\ Head(encrypt(<<v>>, k)) = k /\ Tail(encrypt(<<v>>, k)) = <<v>>
<1> DEFINE S == {k, v}
           s == <<k>> \o <<v>>
<1>1. <<k>> \in Seq(S) /\ <<v>> \in Seq(S) /\ Len(<<k>>) = 1 /\ Len(<<v>>) = 1 /\ Len(<<>>) = 0  OBVIOUS
<1>2. s \in Seq(S) /\ Len(s) = 2  BY <1>1, ConcatProperties
<1>3. s[1] = k /\ s[2] = v  BY <1>1, ConcatProperties
<1> HIDE DEF s
<1>4. s # <<>> /\ s # <<v>>  BY <1>1, <1>2
<1>5. Tail(s) \in Seq(S) /\ Len(Tail(s)) = 1 /\ \A i \in 1..1 : Tail(s)[i] = s[i + 1]
  BY <1>2, <1>4, HeadTailProperties, SMTT(20)
<1>6. Tail(s)[1] = v  BY <1>3, <1>5
<1>7. Tail(s) = <<v>>
  <2> DEFINE q == Tail(s)
  <2>1. q \in Seq(S) /\ Len(q) = 1 /\ v \in S /\ q[1] = v  BY <1>5, <1>6
  <2> HIDE DEF q, S
  <2>2. q = <<v>>  BY <2>1, OneLong
  <2> QED  BY <2>2 DEF q
<1>8. Head(s) = k  BY <1>2, <1>3, <1>4
<1> QED  BY <1>2, <1>4, <1>7, <1>8 DEF encrypt, s

LEMMA PlainText ==
  ASSUME NEW v
  PROVE  <<v>> # <<>> /\ Head(<<v>>) = v /\ Tail(<<v>>) = <<>> /\ Len(<<v>>) = 1 /\ Len(<<>>) = 0
OBVIOUS

LEMMA SealedAre ==
  ASSUME NEW t \in Texts \ {<<>>}, NEW k \in Keys
  PROVE  /\ encrypt(t, k) \in Sealed /\ encrypt(t, k) # t /\ Len(encrypt(t, k)) = 2
         /\ encrypt(t, k) # <<>>
         /\ Head(encrypt(t, k)) = k /\ Tail(encrypt(t, k)) = t
<1>1. PICK v \in Values : t = <<v>>  BY TextsAre
<1>2. encrypt(t, k) \in Sealed  BY DEF Sealed
<1> QED  BY <1>1, <1>2, SealedText

-----------------------------------------------------------------------------
(* The inductive invariant. What a module stores is what was written to it *)
(* last, sealed if it was sealed; a module is there while a request runs.  *)

HookInv == /\ HandlerIsHooked
           /\ orig \in Handlers \cup {None} /\ reads \in Handlers \cup {None}
           /\ default \in Handlers \cup {None}
           /\ ~hooked => mod \in {None, handler}
           /\ phase # "idle" => mod # None
OpenInv == sid = 0 => data = <<>> /\ before = <<>>
Kept(h) == \/ last[h].key = None /\ last[h].text \in Texts /\ store[h] = last[h].text
           \/ /\ last[h].key \in Keys /\ last[h].text \in Texts \ {<<>>}
              /\ store[h] = encrypt(last[h].text, last[h].key)
StoreInv   == \A h \in Handlers : Kept(h)
SessionInv == TypeOK /\ HookInv /\ OpenInv /\ StoreInv

LEMMA SecretIsAKey == ASSUME TypeOK PROVE Secret \in Keys
BY DEF TypeOK, Secret, Keys

LEMMA ValuesAreNot == ASSUME NEW v \in Values, NEW k \in Keys PROVE v # k
BY ValuesAreNoKeys DEF Keys

LEMMA StorageIs ==
  ASSUME SessionInv, phase # "idle"
  PROVE  /\ Storage = handler /\ Storage \in Handlers
         /\ hooked => Hooked
         /\ Hooked => hooked /\ mod = Copy
<1>1. mod # None /\ handler \in Handlers  BY DEF SessionInv, HookInv, TypeOK
<1>2. CASE hooked
  BY <1>1, <1>2 DEF SessionInv, HookInv, HandlerIsHooked, Storage, Hooked
<1>3. CASE ~hooked
  BY <1>1, <1>3, ModulesDiffer DEF SessionInv, HookInv, Storage, Hooked
<1> QED  BY <1>2, <1>3

\* What is stored: nothing, a value, or a sealed one that was written sealed.
LEMMA StoreIs ==
  ASSUME SessionInv, NEW h \in Handlers
  PROVE  \/ store[h] \in Texts
         \/ /\ store[h] \in Sealed /\ Len(store[h]) = 2
            /\ last[h].key = Head(store[h]) /\ last[h].text = Tail(store[h]) /\ last[h].text \in Texts
<1>1. Kept(h)  BY DEF SessionInv, StoreInv
<1>2. CASE store[h] = last[h].text /\ last[h].text \in Texts  BY <1>2
<1>3. CASE /\ last[h].key \in Keys /\ last[h].text \in Texts \ {<<>>}
           /\ store[h] = encrypt(last[h].text, last[h].key)
  BY <1>3, SealedAre
<1> QED  BY <1>1, <1>2, <1>3 DEF Kept

LEMMA InitInv == Init => SessionInv
<1> SUFFICES ASSUME Init PROVE SessionInv  OBVIOUS
<1>1. <<>> \in Texts  BY DEF Texts
<1>2. Nothing \in [key : Keys \cup {None}, text : Texts]  BY <1>1 DEF Nothing
<1>3. TypeOK  BY <1>1, <1>2 DEF Init, TypeOK
<1>4. HookInv  BY DEF Init, HookInv, HandlerIsHooked
<1>5. OpenInv /\ StoreInv  BY <1>1 DEF Init, OpenInv, StoreInv, Kept, Nothing
<1> QED  BY <1>3, <1>4, <1>5 DEF SessionInv

-----------------------------------------------------------------------------
(* The module                                                              *)

\* What a change of the hooks leaves alone.
Rest == <<cfg, store, agent, env, sid, data, before, last>>

LEMMA HooksChange ==
  ASSUME SessionInv, UNCHANGED Rest, HookInv', hooked' \in BOOLEAN, handler' \in Handlers,
         mod' \in Handlers \cup {Copy, None}, phase' \in {"idle", "request", "over"},
         phase' = "idle" => sid = 0
  PROVE  SessionInv'
<1>1. TypeOK /\ OpenInv /\ StoreInv  BY DEF SessionInv
<1>2. UNCHANGED <<cfg, store, agent, env, sid, data, before, last>>  BY DEF Rest
<1>3. OpenInv' /\ StoreInv'  BY <1>1, <1>2 DEF OpenInv, StoreInv, Kept
<1>4. {orig', reads', default'} \subseteq Handlers \cup {None, Copy}  BY DEF HookInv
<1>5. TypeOK'  BY <1>1, <1>2, <1>3, <1>4 DEF TypeOK, OpenInv
<1> QED  BY <1>3, <1>5 DEF SessionInv

\* sp_hook_session_module makes a copy of the module the setting names.
LEMMA HookedModule ==
  ASSUME HookModule(handler'), handler' \in Handlers, hooked', default' \in Handlers \cup {None}
  PROVE  HookInv' /\ mod' = Copy
<1>1. handler' \notin {None, Copy}  BY ModulesDiffer
<1>2. mod' = Copy /\ orig' = handler' /\ reads' = handler'  BY <1>1 DEF HookModule
<1> QED  BY <1>2, ModulesDiffer DEF HookInv, HandlerIsHooked

LEMMA LoadInv == ASSUME SessionInv, NEW c \in Configs, Load(c) PROVE SessionInv'
<1>1. TypeOK /\ HookInv /\ OpenInv /\ StoreInv  BY DEF SessionInv
<1>2. UNCHANGED <<default, handler, store, phase, agent, env, sid, data, before, last>> /\ cfg' = c
  BY DEF Load, request
<1>3. HookInv' /\ hooked' \in BOOLEAN /\ mod' \in Handlers \cup {Copy, None}
  <2>1. CASE Hooks(c) /\ ~hooked /\ mod = None
    BY <1>1, <1>2, <2>1 DEF Load, HookModule, HookInv, HandlerIsHooked, TypeOK
  <2>2. CASE Hooks(c) /\ ~hooked /\ mod # None
    <3>1. mod = handler' /\ hooked' /\ HookModule(handler')
      BY <1>1, <1>2, <2>2 DEF Load, HookInv
    <3>2. hooked' = TRUE  BY <2>2 DEF Load
    <3> QED  BY <1>1, <1>2, <3>1, <3>2, HookedModule DEF TypeOK, HookInv
  <2>3. CASE ~(Hooks(c) /\ ~hooked)
    BY <1>1, <1>2, <2>3 DEF Load, HookInv, HandlerIsHooked, TypeOK
  <2> QED  BY <2>1, <2>2, <2>3
<1>4. OpenInv' /\ StoreInv'  BY <1>1, <1>2 DEF OpenInv, StoreInv, Kept
<1>5. TypeOK'  BY <1>1, <1>2, <1>3 DEF TypeOK, HookInv
<1> QED  BY <1>3, <1>4, <1>5 DEF SessionInv

\* sp_OnUpdateSaveHandler puts the module back before PHP switches: now is the
\* module of the setting.
LEMMA NowIsHandler ==
  ASSUME SessionInv, phase # "idle"
  PROVE  (IF hooked THEN orig ELSE mod) = handler
BY DEF SessionInv, HookInv, HandlerIsHooked

LEMMA SwitchInv == ASSUME SessionInv, NEW h \in Handlers, NEW done \in BOOLEAN, Switch(h, done) PROVE SessionInv'
<1>1. TypeOK /\ HookInv  BY DEF SessionInv
<1>2. (IF hooked THEN orig ELSE mod) = handler  BY NowIsHandler DEF Switch
<1>3. /\ default' = (IF done THEN handler ELSE default) /\ handler' = (IF done THEN h ELSE handler)
      /\ IF hooked THEN HookModule(handler') ELSE mod' = handler' /\ UNCHANGED <<orig, reads>>
      /\ UNCHANGED Rest /\ phase = "request" /\ UNCHANGED <<hooked, phase>>
  BY <1>2 DEF Switch, request, Rest
<1>4. handler' \in Handlers /\ default' \in Handlers \cup {None} /\ hooked' \in BOOLEAN
  BY <1>1, <1>3 DEF TypeOK, HookInv
<1>5. HookInv' /\ mod' \in Handlers \cup {Copy, None}
  <2>1. CASE hooked  BY <2>1, <1>3, <1>4, HookedModule
  <2>2. CASE ~hooked  BY <2>2, <1>1, <1>3, <1>4, ModulesDiffer DEF HookInv, HandlerIsHooked
  <2> QED  BY <2>1, <2>2
<1> QED  BY <1>3, <1>4, <1>5, HooksChange

LEMMA EndInv == ASSUME SessionInv, NEW h \in Handlers, End(h) PROVE SessionInv'
<1>1. TypeOK /\ HookInv  BY DEF SessionInv
<1>2. (IF hooked THEN orig ELSE mod) = handler  BY NowIsHandler DEF End
<1>3. phase # "idle" /\ phase' = "idle" /\ sid = 0 /\ UNCHANGED Rest  BY DEF End, Rest
<1>4. CASE h = handler
  <2>1. UNCHANGED <<mod, orig, reads, hooked, default, handler>>  BY <1>4 DEF End, hooks
  <2>2. HookInv'  BY <1>1, <1>3, <2>1 DEF HookInv, HandlerIsHooked
  <2> QED  BY <1>1, <1>3, <2>1, <2>2, HooksChange DEF TypeOK
<1>5. CASE h # handler
  <2>1. /\ default' = handler /\ handler' = h /\ hooked' = hooked
        /\ IF hooked THEN HookModule(h) ELSE mod' = h /\ UNCHANGED <<orig, reads>>
    BY <1>2, <1>5 DEF End
  <2>2. HookInv' /\ mod' \in Handlers \cup {Copy, None}
    <3>1. CASE hooked  BY <1>1, <2>1, <3>1, HookedModule DEF TypeOK
    <3>2. CASE ~hooked
      BY <1>1, <1>3, <2>1, <3>2 DEF HookInv, HandlerIsHooked, TypeOK
    <3> QED  BY <3>1, <3>2
  <2> QED  BY <1>1, <1>3, <2>1, <2>2, HooksChange DEF TypeOK
<1> QED  BY <1>4, <1>5

-----------------------------------------------------------------------------
(* The session                                                             *)

LEMMA HooksUnchanged ==
  ASSUME HookInv, UNCHANGED hooks, phase # "idle", phase' # "idle"
  PROVE  HookInv'
BY DEF HookInv, HandlerIsHooked, hooks

LEMMA PutEnvInv == ASSUME SessionInv, NEW e \in Envs, PutEnv(e) PROVE SessionInv'
<1>1. HookInv'  BY HooksUnchanged DEF SessionInv, PutEnv
<1>2. TypeOK'  BY DEF SessionInv, TypeOK, PutEnv, hooks
<1>3. OpenInv' /\ StoreInv'  BY DEF SessionInv, OpenInv, StoreInv, Kept, PutEnv
<1> QED  BY <1>1, <1>2, <1>3 DEF SessionInv

LEMMA AssignInv == ASSUME SessionInv, NEW t \in Texts, Assign(t) PROVE SessionInv'
<1>1. HookInv'  BY HooksUnchanged DEF SessionInv, Assign
<1>2. TypeOK'  BY DEF SessionInv, TypeOK, Assign, hooks
<1>3. OpenInv' /\ StoreInv'  BY DEF SessionInv, OpenInv, StoreInv, Kept, Assign
<1> QED  BY <1>1, <1>2, <1>3 DEF SessionInv

\* What the read of a module gives PHP, if it gives it anything and PHP can
\* decode it: a text of a script.
LEMMA ReadIs ==
  ASSUME SessionInv, NEW h \in Handlers, NEW m, NEW k \in Keys,
         Read(m, store[h], k).ret = "keep", Decodes(Read(m, store[h], k).text)
  PROVE  /\ Read(m, store[h], k).text \in Texts
         /\ m = Copy /\ cfg.encrypt /\ ~cfg.simulation /\ Read(m, store[h], k).text # <<>>
              => last[h].key = k /\ last[h].text = Read(m, store[h], k).text
<1> DEFINE t == store[h]
           hides == m = Copy /\ cfg.encrypt
<1>2. CASE ~(hides /\ t # <<>>)
  <2>1. Read(m, t, k).text = t  BY <1>2 DEF Read, Outcome
  <2>2. t \in Texts  BY <2>1, StoreIs DEF Decodes
  <2>3. <<>> \in Texts  BY DEF Texts
  <2> QED  BY <1>2, <2>1, <2>2
<1>3. CASE hides /\ t # <<>> /\ t \in Texts
  <2>1. PICK v \in Values : t = <<v>>  BY <1>3, TextsAre
  <2>2. Head(t) # k  BY <2>1, PlainText, ValuesAreNot
  <2>3. cfg.simulation /\ Read(m, t, k).text = t
    BY <1>3, <2>2 DEF Read, decrypt, Outcome
  <2> QED  BY <1>3, <2>3
<1>4. CASE hides /\ t # <<>> /\ t \notin Texts
  <2>1. Len(t) = 2 /\ last[h].key = Head(t) /\ last[h].text = Tail(t) /\ last[h].text \in Texts
    BY <1>4, StoreIs
  <2>2. CASE Head(t) = k
    <3>1. Read(m, t, k).text = Tail(t)  BY <1>4, <2>2 DEF Read, decrypt, Outcome
    <3> QED  BY <2>1, <2>2, <3>1
  <2>3. CASE Head(t) # k
    <3>1. Read(m, t, k).text = t  BY <1>4, <2>3 DEF Read, decrypt, Outcome
    <3> QED  BY <2>1, <3>1 DEF Decodes
  <2> QED  BY <2>2, <2>3
<1> QED  BY <1>2, <1>3, <1>4

\* PHP opens a session, with a module it has: what is stored remains what was
\* written, and the session is one of a script.
LEMMA OpenKeeps ==
  ASSUME SessionInv, sid = 0, NEW n \in Lengths, NEW m, NEW k \in Keys,
         (IF m = Copy THEN reads ELSE m) \in Handlers, Open(n, m, k)
  PROVE  /\ phase' \in {"request", "over"} /\ sid' \in Lengths \cup {0}
         /\ {data', before'} \subseteq Texts /\ OpenInv'
         /\ store' \in [Handlers -> Texts \cup Sealed]
         /\ last' \in [Handlers -> [key : Keys \cup {None}, text : Texts]]
         /\ StoreInv'
<1>1. TypeOK /\ OpenInv /\ StoreInv  BY DEF SessionInv
<1>2. <<>> \in Texts  BY DEF Texts
<1> DEFINE from == IF m = Copy THEN reads ELSE m
           got  == Read(m, store[from], k)
           ends == (m = Copy /\ Refuses(cfg, n)) \/ got.ret # "keep"
<1> HIDE DEF from
<1>0. from \in Handlers  BY DEF from
<1>3. CASE phase' = "over" /\ Over({0, n}) /\ UNCHANGED <<store, last>>
  BY <1>1, <1>2, <1>3 DEF Over, OpenInv, StoreInv, Kept, TypeOK
<1>4. CASE /\ ~ends /\ Decodes(got.text) /\ phase' = "request"
           /\ sid' = n /\ data' = got.text /\ before' = got.text /\ UNCHANGED <<store, last>>
  <2>1. data' \in Texts  BY <1>0, <1>4, ReadIs
  <2> QED  BY <1>1, <1>4, <2>1, IdsAreNotEmpty DEF OpenInv, StoreInv, Kept, TypeOK
<1>5. CASE /\ phase' = "request" /\ Over({0})
           /\ store' = [store EXCEPT ![from] = <<>>] /\ last' = [last EXCEPT ![from] = Nothing]
  <2>1. Nothing \in [key : Keys \cup {None}, text : Texts]  BY <1>2 DEF Nothing
  <2>2. StoreInv'
    <3> SUFFICES ASSUME NEW h \in Handlers PROVE Kept(h)'  BY DEF StoreInv
    <3>1. CASE h = from  BY <3>1, <1>0, <1>1, <1>2, <1>5 DEF TypeOK, Kept, Nothing
    <3>2. CASE h # from  BY <3>2, <1>0, <1>1, <1>5 DEF TypeOK, StoreInv, Kept
    <3> QED  BY <3>1, <3>2
  <2>3. store' \in [Handlers -> Texts \cup Sealed]  BY <1>1, <1>2, <1>5 DEF TypeOK
  <2>4. last' \in [Handlers -> [key : Keys \cup {None}, text : Texts]]  BY <1>1, <1>5, <2>1 DEF TypeOK
  <2>5. sid' = 0 /\ data' = <<>> /\ before' = <<>>  BY <1>5 DEF Over
  <2> QED  BY <1>2, <1>5, <2>2, <2>3, <2>4, <2>5 DEF OpenInv
<1>6. \/ ends /\ phase' = "over" /\ Over({0, n}) /\ UNCHANGED <<store, last>>
      \/ /\ ~ends /\ Decodes(got.text) /\ phase' = "request"
         /\ sid' = n /\ data' = got.text /\ before' = got.text /\ UNCHANGED <<store, last>>
      \/ /\ ~ends /\ ~Decodes(got.text) /\ phase' = "request" /\ Over({0})
         /\ store' = [store EXCEPT ![from] = <<>>] /\ last' = [last EXCEPT ![from] = Nothing]
  BY DEF Open, from
<1> HIDE DEF got, ends
<1> QED  BY <1>3, <1>4, <1>5, <1>6

LEMMA StartInv == ASSUME SessionInv, NEW n \in Lengths, Start(n) PROVE SessionInv'
<1>1. TypeOK /\ HookInv /\ phase = "request" /\ sid = 0 /\ Open(n, mod, Secret)
      /\ UNCHANGED <<cfg, agent, env>> /\ UNCHANGED hooks
  BY DEF SessionInv, Start
<1>2. Storage = (IF mod = Copy THEN reads ELSE mod) /\ Storage \in Handlers /\ Secret \in Keys
  BY <1>1, StorageIs, SecretIsAKey DEF Storage, Hooked
<1>3. /\ phase' \in {"request", "over"} /\ sid' \in Lengths \cup {0}
      /\ {data', before'} \subseteq Texts /\ OpenInv'
      /\ store' \in [Handlers -> Texts \cup Sealed]
      /\ last' \in [Handlers -> [key : Keys \cup {None}, text : Texts]]
      /\ StoreInv'
  BY <1>1, <1>2, OpenKeeps
<1>4. HookInv'  BY <1>1, <1>3, HooksUnchanged
<1>5. TypeOK'  BY <1>1, <1>3 DEF TypeOK, hooks
<1> QED  BY <1>3, <1>4, <1>5 DEF SessionInv

\* A request begins, and with session.auto_start a session of the module PHP
\* has before sp_hook_session_RINIT goes on.
LEMMA BeginInv == ASSUME SessionInv, NEW a \in Agents, NEW n \in Lengths \cup {0}, Begin(a, n) PROVE SessionInv'
<1> DEFINE m == IF mod = None THEN handler ELSE mod
<1>1. TypeOK /\ HookInv /\ OpenInv /\ StoreInv  BY DEF SessionInv
<1>2. /\ phase = "idle" /\ sid = 0 /\ agent' = a
      /\ UNCHANGED <<cfg, hooked, default, handler, env>>
      /\ IF hooked THEN HookModule(m) ELSE mod' = m /\ UNCHANGED <<orig, reads>>
      /\ IF n # 0 THEN Open(n, m, Key(a, env, cfg.key))
         ELSE phase' = "request" /\ UNCHANGED <<sid, data, before, store, last>>
  BY <1>1 DEF Begin, TypeOK
<1>3. (IF m = Copy THEN reads ELSE m) \in Handlers
  BY <1>1, ModulesDiffer DEF TypeOK, HookInv, HandlerIsHooked
<1>4. Key(a, env, cfg.key) \in Keys  BY <1>1 DEF TypeOK, Keys
<1>5. /\ phase' \in {"request", "over"} /\ sid' \in Lengths \cup {0}
      /\ {data', before'} \subseteq Texts /\ OpenInv'
      /\ store' \in [Handlers -> Texts \cup Sealed]
      /\ last' \in [Handlers -> [key : Keys \cup {None}, text : Texts]]
      /\ StoreInv'
  <2>1. CASE n # 0
    <3> DEFINE k == Key(a, env, cfg.key)
    <3>1. n \in Lengths /\ k \in Keys /\ Open(n, m, k)  BY <1>2, <1>4, <2>1
    <3> HIDE DEF m, k
    <3> QED  BY <1>2, <1>3, <3>1, OpenKeeps
  <2>2. CASE n = 0
    <3>1. phase' = "request" /\ UNCHANGED <<sid, data, before, store, last>>  BY <1>2, <2>2
    <3> QED  BY <1>1, <3>1 DEF TypeOK, OpenInv, StoreInv, Kept
  <2> QED  BY <2>1, <2>2
<1>6. HookInv' /\ mod' \in Handlers \cup {Copy, None}
  <2>1. CASE hooked /\ mod = None
    <3>1. HookModule(handler')  BY <1>2, <2>1
    <3> QED  BY <1>1, <1>2, <2>1, <3>1, HookedModule DEF TypeOK, HookInv
  <2>2. CASE hooked /\ mod # None
    <3>1. mod = Copy  BY <1>1, <2>2 DEF HookInv, HandlerIsHooked
    <3>2. UNCHANGED <<mod, orig, reads>>  BY <1>2, <2>2, <3>1 DEF HookModule
    <3> QED  BY <1>1, <1>2, <2>2, <3>1, <3>2 DEF HookInv, HandlerIsHooked
  <2>3. CASE ~hooked
    <3>1. mod' = handler /\ UNCHANGED <<orig, reads>>  BY <1>1, <1>2, <2>3 DEF HookInv
    <3> QED  BY <1>1, <1>2, <2>3, <3>1, ModulesDiffer DEF HookInv, HandlerIsHooked, TypeOK
  <2> QED  BY <2>1, <2>2, <2>3
<1>7. TypeOK'
  <2>1. {orig', reads', default'} \subseteq Handlers \cup {None, Copy}  BY <1>6 DEF HookInv
  <2> HIDE DEF m
  <2> QED  BY <1>1, <1>2, <1>5, <1>6, <2>1 DEF TypeOK
<1> QED  BY <1>5, <1>6, <1>7 DEF SessionInv

\* The session is over, with nothing stored.
LEMMA OverInv ==
  ASSUME SessionInv, Over({0}), phase # "idle", phase' \in {phase, "over"},
         UNCHANGED <<cfg, store, agent, env, last>>, UNCHANGED hooks
  PROVE  SessionInv'
<1>1. <<>> \in Texts  BY DEF Texts
<1>2. sid' = 0 /\ data' = <<>> /\ before' = <<>>  BY DEF Over
<1>3. HookInv'  BY HooksUnchanged DEF SessionInv
<1>4. TypeOK'  BY <1>1, <1>2 DEF SessionInv, TypeOK, hooks
<1>5. OpenInv' /\ StoreInv'  BY <1>2 DEF SessionInv, OpenInv, StoreInv, Kept
<1> QED  BY <1>3, <1>4, <1>5 DEF SessionInv

\* What sp_hook_s_write stores, and what is known of it.
LEMMA WrittenIs ==
  ASSUME SessionInv
  PROVE  \/ Written(data) = data
         \/ /\ data # <<>> /\ Written(data) = encrypt(data, Secret) /\ Written(data) # data
            /\ Written(data) \in Sealed
<1>1. data \in Texts /\ Secret \in Keys  BY SecretIsAKey DEF SessionInv, TypeOK
<1> QED  BY <1>1, SealedAre DEF Written

LEMMA StoreKeeps ==
  ASSUME SessionInv, NEW t, t = data \/ t = Written(data), Store(t), phase # "idle"
  PROVE  SessionInv'
<1>1. TypeOK /\ HookInv /\ OpenInv /\ StoreInv  BY DEF SessionInv
<1>2. Storage \in Handlers  BY StorageIs
<1> DEFINE now == [key |-> IF t # data THEN Secret ELSE None, text |-> data]
<1>3. /\ store' = [store EXCEPT ![Storage] = t]
      /\ last' = [last EXCEPT ![Storage] = now] /\ sid' = 0 /\ data' = <<>> /\ before' = <<>>
      /\ UNCHANGED <<cfg, phase, agent, env>> /\ UNCHANGED hooks
  BY DEF Store, Over
<1>4. <<>> \in Texts /\ data \in Texts /\ Secret \in Keys  BY <1>1, SecretIsAKey DEF Texts, TypeOK
<1>5. \/ t = data
      \/ data # <<>> /\ t = encrypt(data, Secret) /\ t # data /\ t \in Sealed
  BY WrittenIs
<1>6. now \in [key : Keys \cup {None}, text : Texts]  BY <1>4
<1>7. now.text = data /\ now.key = IF t # data THEN Secret ELSE None  OBVIOUS
<1> HIDE DEF now
<1>8. TypeOK'  BY <1>1, <1>2, <1>3, <1>4, <1>5, <1>6 DEF TypeOK, hooks
<1>9. HookInv'  BY <1>1, <1>3, HooksUnchanged
<1>10. StoreInv'
  <2> SUFFICES ASSUME NEW h \in Handlers PROVE Kept(h)'  BY DEF StoreInv
  <2>1. CASE h = Storage
    <3>1. store'[h] = t /\ last'[h] = now  BY <2>1, <1>1, <1>3 DEF TypeOK
    <3> QED  BY <3>1, <1>4, <1>5, <1>7 DEF Kept
  <2>2. CASE h # Storage  BY <2>2, <1>1, <1>3 DEF TypeOK, StoreInv, Kept
  <2> QED  BY <2>1, <2>2
<1>11. OpenInv'  BY <1>3 DEF OpenInv
<1> QED  BY <1>8, <1>9, <1>10, <1>11 DEF SessionInv

LEMMA CloseInv == ASSUME SessionInv, Close PROVE SessionInv'
<1>1. CASE Over({0}) /\ phase' = "over" /\ UNCHANGED <<cfg, hooks, store, agent, env, last>>
  BY <1>1, OverInv DEF Close
<1>2. CASE Store(Written(data))  BY <1>2, StoreKeeps DEF Close
<1> QED  BY <1>1, <1>2 DEF Close

LEMMA TouchInv == ASSUME SessionInv, Touch PROVE SessionInv'
<1>1. CASE Over({0}) /\ UNCHANGED <<cfg, hooks, phase, agent, env, store, last>>
  BY <1>1, OverInv DEF Touch
<1>2. CASE Store(data)  BY <1>2, StoreKeeps DEF Touch
<1> QED  BY <1>1, <1>2 DEF Touch

LEMMA NextInv == SessionInv /\ [Next]_vars => SessionInv'
<1> SUFFICES ASSUME SessionInv, [Next]_vars PROVE SessionInv'  OBVIOUS
<1>1. ASSUME UNCHANGED vars PROVE SessionInv'
  <2>1. UNCHANGED Rest /\ UNCHANGED <<mod, orig, reads, hooked, default, handler, phase>>
    BY <1>1 DEF vars, Rest, hooks, request
  <2>2. HookInv'  BY <2>1 DEF SessionInv, HookInv, HandlerIsHooked
  <2> QED  BY <2>1, <2>2, HooksChange DEF SessionInv, TypeOK
<1>2. <<>> \in Texts /\ \A v \in Values : <<v>> \in Texts  BY DEF Texts
<1> QED
  BY <1>1, <1>2, LoadInv, SwitchInv, EndInv, BeginInv, PutEnvInv, StartInv, AssignInv, CloseInv, TouchInv
  DEF Next

-----------------------------------------------------------------------------
(* Theorems                                                                *)

\* What holds in every state of SpSession: the copy is in place, and what is
\* stored is what was written, under the key it was written with.
THEOREM SessionInvariant == Spec => []SessionInv
<1> QED  BY InitInv, NextInv, PTL DEF Spec

\* The variables have the values their comments give them.
THEOREM TypeCorrect == Spec => []TypeOK
<1>1. SessionInv => TypeOK  BY DEF SessionInv
<1> QED  BY <1>1, SessionInvariant, PTL

\* PHP has the copy of the module session.save_handler names
\* (sp_OnUpdateSaveHandler, sp_hook_session_RINIT).
THEOREM CopyInPlace == Spec => []HandlerIsHooked
<1>1. SessionInv => HandlerIsHooked  BY DEF SessionInv, HookInv
<1> QED  BY <1>1, SessionInvariant, PTL

\* The copy is never behind itself (sp_hook_session_module).
THEOREM NeverBehindItself == Spec => []NoLoop
<1>1. SessionInv => NoLoop  BY ModulesDiffer DEF SessionInv, HookInv, NoLoop
<1> QED  BY <1>1, SessionInvariant, PTL

\* A script gets a session as it was written under the key of its request, or
\* none, once the copy is in place (sp_hook_s_read).
THEOREM ReadAsWritten == Spec => OwnOrNothing
<1>1. SessionInv /\ [Next]_vars =>
        [cfg.encrypt /\ ~cfg.simulation /\ Hooked /\ sid = 0 /\ sid' # 0 /\ data' # <<>> =>
           last[handler] = [key |-> Key(agent', env, cfg.key), text |-> data']]_vars
  <2> SUFFICES ASSUME SessionInv, Next, cfg.encrypt, ~cfg.simulation, Hooked, sid = 0, sid' # 0, data' # <<>>
               PROVE  last[handler] = [key |-> Key(agent', env, cfg.key), text |-> data']
    OBVIOUS
  <2>1. TypeOK /\ HookInv  BY DEF SessionInv
  <2>2. mod = Copy /\ mod # None /\ reads = handler /\ handler \in Handlers
    BY <2>1, ModulesDiffer DEF TypeOK, HookInv, HandlerIsHooked, Hooked
  <2> DEFINE k == Key(agent', env, cfg.key)
  <2>3. k \in Keys /\ \E n : Open(n, Copy, k)
    <3>1. ASSUME NEW n \in Lengths, Start(n) PROVE k \in Keys /\ Open(n, Copy, k)
      BY <3>1, <2>1, <2>2, SecretIsAKey DEF Start, Secret
    <3>2. ASSUME NEW a \in Agents, NEW n \in Lengths \cup {0}, Begin(a, n) PROVE k \in Keys /\ Open(n, Copy, k)
      <4>1. n # 0  BY <3>2 DEF Begin
      <4>2. agent' = a /\ Open(n, Copy, Key(a, env, cfg.key))  BY <2>2, <3>2, <4>1 DEF Begin
      <4> QED  BY <2>1, <4>2 DEF TypeOK, Keys
    <3>3. CASE Close \/ Touch  BY <3>3 DEF Close, Touch
    <3> QED  BY <3>1, <3>2, <3>3 DEF Next, Load, Switch, PutEnv, Assign, End, request
  <2> HIDE DEF k
  <2>4. Read(Copy, store[handler], k).ret = "keep" /\ Decodes(Read(Copy, store[handler], k).text)
        /\ data' = Read(Copy, store[handler], k).text
    BY <2>2, <2>3 DEF Open, Over
  <2> DEFINE got == Read(Copy, store[handler], k)
  <2>5. got.ret = "keep" /\ Decodes(got.text) /\ got.text = data'  BY <2>4
  <2>6. cfg.encrypt /\ ~cfg.simulation /\ got.text # <<>> =>
          last[handler].key = k /\ last[handler].text = got.text
    BY <2>2, <2>3, <2>5, ReadIs
  <2> HIDE DEF got
  <2>7. last[handler].key = k /\ last[handler].text = data'  BY <2>5, <2>6
  <2>8. last[handler] \in [key : Keys \cup {None}, text : Texts]  BY <2>1, <2>2 DEF TypeOK
  <2> QED  BY <2>7, <2>8 DEF k
<1> QED  BY <1>1, SessionInvariant, PTL DEF Spec, OwnOrNothing

\* What a script put into a session is stored in plain text under encryption only
\* when the session is closed as it was opened (sp_hook_s_write; the function
\* sp_hook_session_module leaves to PHP).
THEOREM StoredSealed == Spec => SealedAtRest
<1> DEFINE A == cfg.encrypt /\ hooked =>
                  \A h \in Handlers : \/ store'[h] \in {store[h], <<>>, encrypt(data, Secret)}
                                      \/ (store'[h] = data /\ data = before)
<1>1. SessionInv /\ [Next]_vars => [A]_vars
  <2> SUFFICES ASSUME SessionInv, Next, cfg.encrypt, hooked, NEW h \in Handlers
               PROVE  \/ store'[h] \in {store[h], <<>>, encrypt(data, Secret)}
                      \/ (store'[h] = data /\ data = before)
    BY DEF A
  <2>1. store \in [Handlers -> Texts \cup Sealed]  BY DEF SessionInv, TypeOK
  <2>2. ASSUME NEW n, NEW m, NEW k, Open(n, m, k) PROVE store'[h] \in {store[h], <<>>}
    BY <2>1, <2>2 DEF Open
  <2>3. ASSUME NEW t, Store(t) PROVE store'[h] \in {store[h], t}
    BY <2>1, <2>3 DEF Store
  <2>4. ASSUME Close PROVE store'[h] \in {store[h], <<>>, encrypt(data, Secret)}
    <3>1. Hooked  BY <2>4, StorageIs DEF Close
    <3>2. Written(data) \in {<<>>, encrypt(data, Secret)}  BY <3>1 DEF Written
    <3> QED  BY <2>3, <2>4, <3>2 DEF Close
  <2>5. ASSUME Touch PROVE store'[h] = store[h] \/ (store'[h] = data /\ data = before)
    BY <2>3, <2>5 DEF Touch
  <2>6. ASSUME NEW a, NEW n, Begin(a, n) PROVE store'[h] \in {store[h], <<>>}
    BY <2>2, <2>6 DEF Begin
  <2>7. ASSUME NEW n, Start(n) PROVE store'[h] \in {store[h], <<>>}  BY <2>2, <2>7 DEF Start
  <2> QED  BY <2>4, <2>5, <2>6, <2>7 DEF Next, Load, Switch, PutEnv, Assign, End
<1> QED  BY <1>1, SessionInvariant, PTL DEF Spec, SealedAtRest
=============================================================================
