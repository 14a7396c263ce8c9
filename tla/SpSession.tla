------------------------------- MODULE SpSession -------------------------------
(* Session protection (sp_session.c): the module PHP uses for sessions is  *)
(* replaced by a copy whose read decrypts and whose write encrypts, and is *)
(* replaced anew whenever session.save_handler changes. One session is     *)
(* followed, over requests, changes of the handler and of the              *)
(* configuration.                                                          *)
EXTENDS SpCrypt, Integers, TLC

CONSTANTS Handlers,   \* the session modules of PHP
          Agents,     \* user agents
          Envs,       \* what the environment variable of the key may hold
          Values,     \* what scripts put into the session
          Lengths,    \* of session IDs
          Configs

NoConfig == [encrypt |-> FALSE, simulation |-> FALSE, min |-> 0, max |-> 0, key |-> None]
Nothing  == [key |-> None, text |-> <<>>]
Copy     == "sp"      \* s_module

ASSUME ModulesDiffer == Copy \notin Handlers /\ None \notin Handlers \cup {Copy}
ASSUME IdsAreNotEmpty == 0 \notin Lengths
\* No text of a script looks like one that is sealed.
ASSUME ValuesAreNoKeys ==
  \A v \in Values, a \in Agents, e \in Envs, c \in Configs \cup {NoConfig} : v # Key(a, e, c.key)

VARIABLES
  cfg,        \* the configuration in force
  mod,        \* SESSION_G(mod): a module, Copy or None
  orig,       \* s_original_mod
  reads,      \* the module whose functions old_s_read and old_s_write are
  hooked,     \* old_OnUpdateSaveHandler is set
  default,    \* the module PHP remembers as the one before the current one
  handler,    \* session.save_handler
  store,      \* what each module has stored
  phase,      \* "idle", "request", or "over" once something ended the script
  agent, env, \* of the request
  sid,        \* the length of the ID of the session that is open, or 0
  data,       \* what the script sees of it
  before,     \* what it saw first: session_vars of PHP
  last        \* what was written last to each module, and the key that sealed it, or None

hooks   == <<mod, orig, reads, hooked, default, handler>>
request == <<phase, agent, env, sid, data, before>>
vars    == <<cfg, hooks, store, request, last>>

Init == /\ cfg = NoConfig /\ orig = None /\ reads = None /\ hooked = FALSE /\ default = None
        /\ handler \in Handlers /\ mod \in {None, handler}
        /\ store = [h \in Handlers |-> <<>>] /\ last = [h \in Handlers |-> Nothing]
        /\ phase = "idle" /\ agent \in Agents /\ env \in Envs /\ sid = 0
        /\ data = <<>> /\ before = <<>>

-----------------------------------------------------------------------------
(* The module *)

\* sp_hook_session_module, when PHP has m.
HookModule(m) == IF m \in {None, Copy} THEN mod' = m /\ UNCHANGED <<orig, reads>>
                 ELSE mod' = Copy /\ orig' = m /\ reads' = m

Hooks(c) == c.encrypt \/ c.min # 0 \/ c.max # 0

\* A configuration is applied: hook_session, which does its work once.
Load(c) == /\ cfg' = c
           /\ IF Hooks(c) /\ ~hooked THEN hooked' = TRUE /\ HookModule(mod)
              ELSE UNCHANGED <<mod, orig, reads, hooked>>
           /\ UNCHANGED <<default, handler, store, request, last>>

\* Slip: the function of PHP is called with the copy in place.
SwitchCopy(h, done) ==
  /\ phase = "request" /\ (done => sid = 0)
  /\ default' = (IF done THEN mod ELSE default)
  /\ handler' = (IF done THEN h ELSE handler)
  /\ LET next == IF done THEN h ELSE mod
     IN IF hooked THEN HookModule(next) ELSE mod' = next /\ UNCHANGED <<orig, reads>>
  /\ UNCHANGED <<cfg, hooked, store, request, last>>

\* Slip: a module that PHP refused is not hooked again.
SwitchBack(h, done) ==
  /\ phase = "request" /\ (done => sid = 0)
  /\ LET now == IF hooked THEN orig ELSE mod
     IN /\ default' = (IF done THEN now ELSE default)
        /\ handler' = (IF done THEN h ELSE handler)
        /\ IF done /\ hooked THEN HookModule(h)
           ELSE mod' = (IF done THEN h ELSE now) /\ UNCHANGED <<orig, reads>>
  /\ UNCHANGED <<cfg, hooked, store, request, last>>

\* sp_OnUpdateSaveHandler and the function of PHP it calls, which refuses (not
\* done) while a session is open, or for any reason of its own.
Switch(h, done) ==
  /\ phase = "request" /\ (done => sid = 0)
  /\ LET now  == IF hooked THEN orig ELSE mod
         next == IF done THEN h ELSE now
     IN /\ default' = (IF done THEN now ELSE default)
        /\ handler' = (IF done THEN h ELSE handler)
        /\ IF hooked THEN HookModule(next) ELSE mod' = next /\ UNCHANGED <<orig, reads>>
  /\ UNCHANGED <<cfg, hooked, store, request, last>>

\* The script may change the variable the key is made with.
PutEnv(e) == /\ phase = "request" /\ env' = e
             /\ UNCHANGED <<cfg, hooks, store, phase, agent, sid, data, before, last>>

-----------------------------------------------------------------------------
(* The session *)

Hooked  == mod = Copy
Storage == IF Hooked THEN reads ELSE mod
Secret  == Key(agent, env, cfg.key)

\* check_sid_length, when it ends the request.
Refuses(c, n) == ~c.simulation /\ (n < c.min \/ (c.max # 0 /\ n > c.max))

\* What the read of module m gives PHP, sp_hook_s_read if it is the copy, of a
\* text it stores, or an end of the request; k is the key of the request.
Read(m, text, k) == IF m = Copy /\ cfg.encrypt /\ text # <<>> THEN decrypt(text, k, cfg.simulation)
                    ELSE Outcome("keep", text)

\* The session is over, as far as scripts are concerned. After an end of the
\* request PHP may still close it: left is its ID.
Over(left) == sid' \in left /\ data' = <<>> /\ before' = <<>>

\* PHP opens the session with module m. It destroys one it cannot decode, such
\* as one that is still sealed.
Decodes(text) == Len(text) <= 1
Open(n, m, k) ==
  LET from == IF m = Copy THEN reads ELSE m
      got  == Read(m, store[from], k)
      ends == (m = Copy /\ Refuses(cfg, n)) \/ got.ret # "keep"
  IN \/ ends /\ phase' = "over" /\ Over({0, n}) /\ UNCHANGED <<store, last>>
     \/ /\ ~ends /\ Decodes(got.text) /\ phase' = "request"
        /\ sid' = n /\ data' = got.text /\ before' = got.text /\ UNCHANGED <<store, last>>
     \/ /\ ~ends /\ ~Decodes(got.text) /\ phase' = "request" /\ Over({0})
        /\ store' = [store EXCEPT ![from] = <<>>] /\ last' = [last EXCEPT ![from] = Nothing]

Start(n) == /\ phase = "request" /\ sid = 0 /\ Open(n, mod, Secret)
            /\ UNCHANGED <<cfg, hooks, agent, env>>

\* sp_hook_session_RINIT, after the function of PHP, which looks the module up
\* when there is none, and with session.auto_start opens a session with it.
Begin(a, auto) ==
  /\ phase = "idle" /\ agent' = a
  /\ LET m == IF mod = None THEN handler ELSE mod
     IN /\ IF auto # 0 THEN Open(auto, m, Key(a, env, cfg.key))
           ELSE phase' = "request" /\ UNCHANGED <<sid, data, before, store, last>>
        /\ IF hooked THEN HookModule(m) ELSE mod' = m /\ UNCHANGED <<orig, reads>>
  /\ UNCHANGED <<cfg, hooked, default, handler, env>>

Assign(text) == /\ phase = "request" /\ sid # 0 /\ data' = text
                /\ UNCHANGED <<cfg, hooks, store, phase, agent, env, sid, before, last>>

\* Slip: simulation encrypts nothing.
WrittenInEarnest(text) ==
  IF Hooked /\ cfg.encrypt /\ ~cfg.simulation /\ text # <<>> THEN encrypt(text, Secret) ELSE text

Written(text) == IF Hooked /\ cfg.encrypt /\ text # <<>> THEN encrypt(text, Secret) ELSE text

\* The session is closed, with text stored.
Store(text) ==
  /\ store' = [store EXCEPT ![Storage] = text]
  /\ last' = [last EXCEPT ![Storage] = [key |-> IF text # data THEN Secret ELSE None, text |-> data]]
  /\ Over({0}) /\ UNCHANGED <<cfg, hooks, phase, agent, env>>

\* sp_hook_s_write. The request ends when the ID is not allowed.
Close == /\ phase # "idle" /\ sid # 0
         /\ IF Hooked /\ Refuses(cfg, sid)
            THEN phase' = "over" /\ Over({0}) /\ UNCHANGED <<cfg, hooks, store, agent, env, last>>
            ELSE Store(Written(data))

\* Under session.lazy_write PHP has an unchanged session go to the function of
\* the module that sets the time of its text, which is not hooked. It is given
\* the text and may write it: the one of scripts does, unless they have a
\* function for it, and the one of files does when it cannot set the time.
Touch == /\ phase # "idle" /\ sid # 0 /\ data = before
         /\ \/ Store(data)
            \/ Over({0}) /\ UNCHANGED <<cfg, hooks, phase, agent, env, store, last>>

\* PHP has closed the session, and puts the setting back to what it was.
End(h) == /\ phase # "idle" /\ sid = 0 /\ phase' = "idle"
          /\ LET now == IF hooked THEN orig ELSE mod
             IN IF h = handler THEN UNCHANGED hooks
                ELSE /\ default' = now /\ handler' = h /\ UNCHANGED hooked
                     /\ IF hooked THEN HookModule(h) ELSE mod' = h /\ UNCHANGED <<orig, reads>>
          /\ UNCHANGED <<cfg, store, agent, env, sid, data, before, last>>

Next == \/ \E c \in Configs : Load(c)
        \/ \E h \in Handlers, done \in BOOLEAN : Switch(h, done)
        \/ \E h \in Handlers : End(h)
        \/ \E a \in Agents, n \in Lengths \cup {0} : Begin(a, n)
        \/ \E e \in Envs : PutEnv(e)
        \/ \E n \in Lengths : Start(n)
        \/ \E v \in Values : Assign(<<v>>)
        \/ Assign(<<>>) \/ Close \/ Touch

Spec == Init /\ [][Next]_vars

-----------------------------------------------------------------------------
(* Properties *)

Keys   == {Key(a, e, c.key) : a \in Agents, e \in Envs, c \in Configs \cup {NoConfig}}
Texts  == {<<>>} \cup {<<x>> : x \in Values}
Sealed == {encrypt(t, k) : t \in Texts \ {<<>>}, k \in Keys}
TypeOK == /\ cfg \in Configs \cup {NoConfig} /\ mod \in Handlers \cup {Copy, None}
          /\ {orig, reads, default} \subseteq Handlers \cup {None, Copy} /\ hooked \in BOOLEAN
          /\ handler \in Handlers /\ phase \in {"idle", "request", "over"} /\ agent \in Agents
          /\ env \in Envs /\ sid \in Lengths \cup {0} /\ {data, before} \subseteq Texts
          /\ store \in [Handlers -> Texts \cup Sealed]
          /\ last \in [Handlers -> [key : Keys \cup {None}, text : Texts]]
          /\ phase = "idle" => sid = 0 /\ data = <<>> /\ before = <<>>

\* Once sessions are hooked PHP has the copy, and it is a copy of the module the
\* setting names, whatever was switched, refused and put back
\* (sp_OnUpdateSaveHandler, sp_hook_session_RINIT).
HandlerIsHooked == hooked /\ mod # None => mod = Copy /\ orig = handler /\ reads = handler

\* PHP never takes the copy for a module of its own: neither as the one it was
\* made of, nor as the one a handler of the script falls back on, which would
\* make the read call itself.
NoLoop == Copy \notin {orig, reads, default}

\* Under encryption a script gets a session only as it was written, under the
\* key the request makes, or gets none. Data of an earlier configuration, of
\* a client with another key, or from before a change of the environment is not
\* read, once the copy is in place (sp_hook_s_read, check_sid_length).
OwnOrNothing ==
  [][cfg.encrypt /\ ~cfg.simulation /\ Hooked /\ sid = 0 /\ sid' # 0 /\ data' # <<>> =>
       last[handler] = [key |-> Key(agent', env, cfg.key), text |-> data']]_vars

\* Under encryption nothing that a script put into a session is stored in plain
\* text, by whichever module (sp_hook_s_write). What is: an empty session, and
\* under session.lazy_write one that is closed as it was opened.
SealedAtRest ==
  [][cfg.encrypt /\ hooked =>
       \A h \in Handlers : \/ store'[h] \in {store[h], <<>>, encrypt(data, Secret)}
                           \/ store'[h] = data /\ data = before]_vars
=============================================================================
