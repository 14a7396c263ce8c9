------------------------------ MODULE MCSpSession ------------------------------
(* Instances of SpSession: two modules, two clients, a change of the key   *)
(* and an environment that scripts change. The second client makes the     *)
(* first one's key when the variable is gone.                              *)
EXTENDS SpSession

CONSTANTS files, user, a, b, x, y, v

MCHandlers == {files, user}
MCAgents   == {<<a>>, <<a, b>>}
MCEnvs     == {<<b>>, <<>>}
k1 == <<x>>
k2 == <<y>>
MCValues   == {v}
MCShort    == {v}
MCLengths  == {1, 3}

Session(e, s, lo, hi, k) == [encrypt |-> e, simulation |-> s, min |-> lo, max |-> hi, key |-> k]
MCConfigs == {NoConfig, Session(TRUE, FALSE, 0, 0, k1), Session(TRUE, FALSE, 2, 0, k2),
              Session(TRUE, TRUE, 0, 2, k1), Session(FALSE, FALSE, 0, 2, None)}
=============================================================================
