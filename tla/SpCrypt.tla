-------------------------------- MODULE SpCrypt --------------------------------
(* Encryption of values (sp_crypt.c). A text is a sequence: <<v>> is the   *)
(* plain text v, <<>> the empty one, and sealing a text puts the key it is *)
(* sealed with in front of it. Only that key opens it again: base64 and    *)
(* the secret box are what they promise, and every nonce is a new one.     *)
EXTENDS Sequences

CONSTANTS Short,     \* the plain texts that are shorter than a nonce
          None

\* generate_key: the hash of the three parts, one behind the other. Nothing
\* stands between them, so that different parts may give one key; a part is a
\* sequence of characters, and one that is not set adds nothing.
Key(agent, env, key) == [sha256 |-> agent \o env \o IF key = None THEN <<>> ELSE key]

encrypt(text, k) == <<k>> \o text

Outcome(ret, text) == [ret |-> ret, text |-> text]

\* Slip: what does not open is kept as is.
decryptKeeps(text, k, simulation) ==
  Outcome("keep", IF Head(text) = k THEN Tail(text) ELSE text)

\* decrypt_zval, of a text that is not empty: the value is kept, removed, or
\* sp_log_drop ends the request. A short text with a tail is long enough.
decrypt(text, k, simulation) ==
  IF Head(text) = k THEN Outcome("keep", Tail(text))
  ELSE IF simulation THEN Outcome("keep", text)
  ELSE Outcome(IF Len(text) = 1 /\ Head(text) \in Short THEN "drop" ELSE "remove", text)
=============================================================================
