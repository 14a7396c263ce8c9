--------------------------------- MODULE SpCidr ---------------------------------
(* Networks in rules (sp_network_utils.c): an address is in a network if   *)
(* they agree on the bits of the mask. An IPv4 address is one word, an     *)
(* IPv6 one a few; the code has words of 32 bits and four of them. The     *)
(* bits of a word count from the first one of the address.                 *)
EXTENDS Integers, Sequences

CONSTANTS Width,   \* bits of a word
          Words    \* words of an IPv6 address
ASSUME WordsHaveBits == Width \in Nat \ {0} /\ Words \in Nat \ {0}

Word    == [1..Width -> 0..1]
Ones    == [i \in 1..Width |-> 1]
Address == [version : {4}, ip : [1..1 -> Word]] \cup [version : {6}, ip : [1..Words -> Word]]

Bits(version) == IF version = 4 THEN Width ELSE Width * Words

\* w << n, a ^ b, a & b; a word is false if all of its bits are 0.
Shift(w, n) == [i \in 1..Width |-> IF i + n <= Width THEN w[i + n] ELSE 0]
Xor(a, b)   == [i \in 1..Width |-> IF a[i] = b[i] THEN 0 ELSE 1]
And(a, b)   == [i \in 1..Width |-> a[i] * b[i]]
IsFalse(w)  == \A i \in 1..Width : w[i] = 0

\* The word with its first bits set: a shift by less than Width.
Mask(bits)  == Shift(Ones, Width - bits)
Agree(a, n, bits) == IsFalse(And(Xor(a, n), Mask(bits)))

cidr4_match(a, n, bits) == bits = 0 \/ Agree(a[1], n[1], bits)

\* Slip: the words that are compared whole are forgotten.
cidr6_match_last(a, n, bits) ==
  LET whole == bits \div Width
  IN  bits % Width # 0 => Agree(a[whole + 1], n[whole + 1], bits % Width)
cidr6_match(a, n, bits) ==
  LET whole      == bits \div Width
      incomplete == bits % Width
  IN  /\ \A i \in 1..whole : a[i] = n[i]
      /\ incomplete # 0 => Agree(a[whole + 1], n[whole + 1], incomplete)

cidr_match(addr, cidr) ==
  /\ addr.version = cidr.version
  /\ IF cidr.version = 4 THEN cidr4_match(addr.ip, cidr.ip, cidr.mask)
     ELSE cidr6_match(addr.ip, cidr.ip, cidr.mask)

\* What follows the "/" of a rule: characters, of which 0..9 are digits.
Number(text) == LET Value[i \in 0..Len(text)] == IF i = 0 THEN 0 ELSE 10 * Value[i - 1] + text[i]
                IN  Value[Len(text)]
\* The network of a rule, or nothing when the mask is refused.
get_ip_and_cidr(version, ip, text) ==
  IF /\ Len(text) \in 1..3 /\ \A i \in 1..Len(text) : text[i] \in 0..9
     /\ Number(text) <= Bits(version)
  THEN <<[version |-> version, ip |-> ip, mask |-> Number(text)]>> ELSE <<>>
=============================================================================
