-------------------------------- MODULE SpReading --------------------------------
(* The texts the configuration is read from, and what conditions (SpCond)  *)
(* and networks (SpCidr) mean, by definitions that are not those of the    *)
(* code. A state is a text; the next one is longer by one token.           *)
EXTENDS SpCond, SpCidr, FiniteSets

CONSTANTS MaxTokens,   \* bound on the length of a condition
          MaxLine,     \* and of a variable
          Operands,    \* values of the functions and numbers of a condition
          Operators,   \* the binary operators in it
          Lexemes,     \* what variables are written with; see SpVar
          Masks        \* what may follow the "/" of a network

ASSUME OperandsAreNumbers  == Operands \subseteq Int
ASSUME OperatorsAreBinary  == Operators \subseteq Binary
ASSUME MasksAreTexts       == Masks \subseteq Seq(Int)

VARIABLES kind, input
vars == <<kind, input>>

Numbers   == {<<"num", n>> : n \in Operands}
CondToken == Numbers \cup {<<o>> : o \in Operators} \cup {<<"!">>, <<"(">>, <<")">>}

Init == \/ kind \in {"condition", "variable"} /\ input = <<>>
        \/ kind = "network" /\ \E a \in Address : input = [version |-> a.version, ip |-> a.ip, text |-> <<>>]

\* The scanner stops at the first error.
Condense == /\ kind = "condition" /\ Len(input) < MaxTokens /\ Going(Scan(input))
            /\ \E t \in CondToken : input' = Append(input, t)
            /\ UNCHANGED kind
Lengthen == /\ kind = "variable" /\ Len(input) < MaxLine
            /\ \E l \in Lexemes : /\ (l = "v" /\ input # <<>>) => input[Len(input)] # "v"
                                  /\ input' = Append(input, l)
            /\ UNCHANGED kind
Network == /\ kind = "network" /\ input.text = <<>>
           /\ \E m \in Masks : input' = [input EXCEPT !.text = m]
           /\ UNCHANGED kind

Next == Condense \/ Lengthen \/ Network
Spec == Init /\ [][Next]_vars

-----------------------------------------------------------------------------
(* What a condition means: the operator that binds least, and of several   *)
(* that bind as tightly the last one, is applied last. {} if it is none.   *)

\* How deep a token goes into parentheses.
Deeper(t) == IF t[1] = "(" THEN 1 ELSE IF t[1] = ")" THEN -1 ELSE 0
Level(s)  == LET Upto[i \in 0..Len(s)] == IF i = 0 THEN 0 ELSE Upto[i - 1] + Deeper(s[i])
             IN  Upto

Binds(s, i)        == sy_op_precedence(s[i][1])
\* The operators of the part of s from lo to hi that are in no parentheses.
Splits(s, lo, hi)  == {i \in lo..hi : s[i][1] \in Binary /\ Level(s)[i] = Level(s)[lo - 1]}
Weakest(s, S)      == {i \in S : \A j \in S : Binds(s, i) <= Binds(s, j)}
SplitsAt(s, S)     == CHOOSE i \in Weakest(s, S) : \A j \in Weakest(s, S) : j <= i

\* What M says of the part from lo to hi, by its length and its beginning, and
\* what the part means if M is right about shorter ones.
Of(M, lo, hi) == IF lo <= hi THEN M[hi - lo + 1][lo] ELSE {}
MeaningOf(s, M, lo, hi) ==
  LET S  == Splits(s, lo, hi)
      at == SplitsAt(s, S)
  IN  IF S # {}
      THEN {sy_apply_op(s[at][1], v[1], v[2]) : v \in Of(M, at + 1, hi) \X Of(M, lo, at - 1)}
      ELSE IF s[lo][1] = "num" /\ lo = hi THEN {s[lo][2]}
      ELSE IF s[lo][1] = "!" THEN {Truth(v = 0) : v \in Of(M, lo + 1, hi)}
      ELSE IF s[lo][1] = "(" /\ s[hi][1] = ")" /\ Level(s)[hi] = Level(s)[lo - 1] THEN Of(M, lo + 1, hi - 1)
      ELSE {}
Meaning(s) ==
  LET M[k \in 1..Len(s)] == [lo \in 1..Len(s) + 1 - k |-> MeaningOf(s, M, lo, lo + k - 1)]
  IN  IF s = <<>> THEN {} ELSE M[Len(s)][1]

Count(s, T) == Cardinality({i \in 1..Len(s) : s[i][1] \in T})

\* A condition that the scanner takes has its value, one that it does not take
\* means nothing, or needs more than one of the two stacks holds. It never
\* runs out of operands, and never has some left (SY_APPLY_OP_FROM_STACK).
ConditionAgrees ==
  kind = "condition" =>
    LET y == Condition(input)
    IN  CASE y.at = "done" -> Meaning(input) = {y.res[1]} /\ Len(y.res) = 1
          [] y.at = "too complex" -> \/ Count(input, {"num"}) > MAX_CONDITIONS
                                     \/ Count(input, Binary \cup {"!", "("}) > MAX_CONDITIONS
          [] OTHER -> Meaning(input) = {} /\ y.at \in {"syntax", "unbalanced"}

-----------------------------------------------------------------------------
(* Bit k of an address. *)
Bit(a, k) == a[((k - 1) \div Width) + 1][((k - 1) % Width) + 1]

\* An address is in the network of a rule if it is of the same version and has
\* the same first bits, none for /0 and all of them for the longest mask.
NetworkAgrees ==
  kind = "network" =>
    LET read == get_ip_and_cidr(input.version, input.ip, input.text)
    IN  read # <<>> => \A a \in Address :
          cidr_match(a, read[1]) <=> /\ a.version = input.version
                                     /\ \A k \in 1..read[1].mask : Bit(a.ip, k) = Bit(input.ip, k)
=============================================================================
