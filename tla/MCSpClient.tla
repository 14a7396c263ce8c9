------------------------------- MODULE MCSpClient -------------------------------
(* Instances of SpClient: a cookie, two clients, two keys, rules that       *)
(* overlap, and a value shorter than a signature beside one that is not.    *)
(* One client under one key makes the key of the other under the other.     *)
EXTENDS SpClient

CONSTANTS c1, a, b, x, short, long

MCNames  == {c1}
MCAgents == {<<a>>, <<a, b>>}
MCEnv    == <<b>>
k1 == <<x>>
k2 == <<b, x>>
MCValues == {short, long}
MCShort  == {short}

On(S, e, s) == [names |-> S, encrypt |-> e, simulation |-> s]
Conf(k, cs, sec, h, s, n) == [key |-> k, cookies |-> cs, secure |-> sec, hmac |-> h, simulation |-> s, noclass |-> n]
MCConfigs == {Conf(k1, <<On({c1}, TRUE, FALSE), On({c1}, FALSE, FALSE)>>, TRUE, TRUE, FALSE, FALSE),
              Conf(k2, <<On({c1}, TRUE, FALSE)>>, FALSE, TRUE, FALSE, FALSE),
              Conf(k1, <<On({c1}, TRUE, TRUE)>>, FALSE, TRUE, TRUE, FALSE),
              Conf(k1, <<>>, FALSE, FALSE, FALSE, FALSE),
              Conf(None, <<>>, FALSE, TRUE, FALSE, TRUE)}
=============================================================================
