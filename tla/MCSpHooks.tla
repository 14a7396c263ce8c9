------------------------------ MODULE MCSpHooks ------------------------------
(***************************************************************************)
(* A small instance of SpHooks.  Five internal functions: array_keys       *)
(* (rewritten by array_handler), setcookie (always wrapped), virtual       *)
(* (starts subrequests), mb_substr and substr (twins for hook_function);   *)
(* one user function, one method-like name and echo.                       *)
(***************************************************************************)
EXTENDS SpHooks

CONSTANTS array_keys, setcookie, virtual, mb_substr, substr, user, echo

MCFunction  == {array_keys, setcookie, virtual, mb_substr, substr}
MCUserName  == {user, echo}
MCBuiltin   == {echo}
MCSloppy    == {array_keys}
MCInternal  == {setcookie}
MCVirtual   == {virtual}
MCTwin      == [n \in MCFunction \cup MCUserName |->
                  IF n = mb_substr THEN substr ELSE n]

Plain == [sloppy |-> FALSE, internal |-> {}, named |-> {}, named_ret |-> {},
          regex |-> {}, regex_ret |-> {}, blacklist |-> {}, depth_limit |-> FALSE]

\* Every table alone, the same function in two and in three of them, a twin in
\* one table and its base in another, rules that no function table entry has.
MCConfigs ==
  { Plain,
    [Plain EXCEPT !.sloppy = TRUE],
    [Plain EXCEPT !.sloppy = TRUE, !.named = {array_keys, virtual, echo},
                  !.blacklist = {array_keys, virtual}],
    [Plain EXCEPT !.internal = {setcookie}, !.named = {setcookie, user},
                  !.named_ret = {setcookie, user}, !.blacklist = {setcookie}],
    [Plain EXCEPT !.named = {mb_substr}, !.blacklist = {substr, virtual}],
    [Plain EXCEPT !.regex = {virtual, substr, echo}, !.named_ret = {echo},
                  !.blacklist = {mb_substr}],
    [Plain EXCEPT !.regex_ret = {user}, !.named_ret = {virtual, mb_substr}] }
=============================================================================
