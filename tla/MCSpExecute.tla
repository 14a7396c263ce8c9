----------------------------- MODULE MCSpExecute -----------------------------
(* An instance of SpExecute for TLC: a function of the script, a native    *)
(* function on the blacklist, one with a callback, and the fiber methods.  *)
EXTENDS SpExecute

CONSTANTS user, system, array_map, b1, s1, s2

MCUserFunction     == {user}
MCInternalFunction == {system, array_map, Start, Resume, Suspend}
MCMethod           == {Start, Resume, Suspend}
MCReentrant        == {array_map}
MCNoFiber          == {}
MCOneFiber         == {b1}
MCOneSource        == {s1}
MCTwoSources       == {s1, s2}

Open == [whitelist |-> {}, whitelist_sim |-> FALSE,
         blacklist |-> {}, blacklist_sim |-> FALSE, max_execution_depth |-> 0]

\* Each list alone, both with a simulation, and limits within reach.
MCConfigs ==
  { [Open EXCEPT !.whitelist = {Start, Suspend, Resume, array_map},
                 !.blacklist = {array_map}],
    [Open EXCEPT !.blacklist = {system, Resume}, !.max_execution_depth = 2],
    [Open EXCEPT !.whitelist = {user}, !.whitelist_sim = TRUE,
                 !.blacklist = {system}, !.max_execution_depth = 3] }
=============================================================================
