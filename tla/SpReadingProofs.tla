---------------------------- MODULE SpReadingProofs ----------------------------
(* Proofs about SpReading.                                                 *)
(* Networks: cidr_match compares the bits of the mask and no others, for   *)
(* words of any width and any number of them.                              *)
(* Conditions: the shunting yard of the scanner computes what a condition  *)
(* means, and rejects a condition only if it means nothing or a stack is   *)
(* too small, for conditions of any length and stacks of any size. After i *)
(* tokens the two stacks are a reading of the first i (Scanned); a text    *)
(* that means something never makes an operand or an operator unexpected   *)
(* (WellFormed); and a stack that is full holds as many tokens as came     *)
(* (Before).                                                               *)
EXTENDS SpReading, SequenceTheorems, WellFoundedInduction, FiniteSetTheorems, TLAPS

\* A set of natural numbers has a least one.
LEMMA LeastNumber ==
  ASSUME NEW T \in SUBSET Nat, T # {}
  PROVE  \E n \in T : \A m \in T : n <= m
<1> DEFINE R == OpToRel(<, Nat)
<1>1. IsWellFoundedOn(R, Nat)  BY NatLessThanWellFounded
<1>2. \A x, y \in Nat : <<y, x>> \in R <=> y < x  BY DEF OpToRel
<1> HIDE DEF R
<1>3. \E x \in T : \A y \in T : ~(<<y, x>> \in R)  BY <1>1, WFMin
<1>4. \A x, y \in T : ~(<<y, x>> \in R) => x <= y  BY <1>2
<1> QED  BY <1>3, <1>4

\* A set that has 0, and with each number the next, has them all.
LEMMA Induction ==
  ASSUME NEW T, 0 \in T, \A n \in Nat : n \in T => n + 1 \in T
  PROVE  Nat \subseteq T
<1> DEFINE U == {n \in Nat : n \notin T}
<1> SUFFICES ASSUME U # {} PROVE FALSE  OBVIOUS
<1>1. PICK n \in U : \A m \in U : n <= m  BY LeastNumber
<1>2. n # 0 /\ n \in Nat /\ n - 1 \in Nat  OBVIOUS
<1>3. n - 1 \notin U  BY <1>1, <1>2
<1> QED  BY <1>2, <1>3

\* f is what is computed from 0 to n, each value by g from the one before.
Computes(f, S, base, n, g) == f \in [0..n -> S] /\ f[0] = base /\ \A i \in 1..n : f[i] = g[<<f[i - 1], i>>]

\* There is such a function.
LEMMA Recursion ==
  ASSUME NEW S, NEW base \in S, NEW n \in Nat, NEW g \in [S \X (1..n) -> S]
  PROVE  \E f : Computes(f, S, base, n, g)
<1> USE DEF Computes
<1> DEFINE T == {m \in Nat : m <= n => \E f : Computes(f, S, base, m, g)}
<1>1. 0 \in T
  <2>1. Computes([i \in 0..0 |-> base], S, base, 0, g)  OBVIOUS
  <2> QED  BY <2>1
<1>2. ASSUME NEW m \in Nat, m \in T PROVE m + 1 \in T
  <2> SUFFICES ASSUME m + 1 <= n PROVE \E f : Computes(f, S, base, m + 1, g)  OBVIOUS
  <2>1. PICK f : Computes(f, S, base, m, g)  BY <1>2
  <2> DEFINE h == [i \in 0..m + 1 |-> IF i <= m THEN f[i] ELSE g[<<f[m], m + 1>>]]
  <2>2. f[m] \in S /\ m + 1 \in 1..n /\ g[<<f[m], m + 1>>] \in S  BY <2>1
  <2>3. h \in [0..m + 1 -> S] /\ h[0] = base  BY <2>1, <2>2
  <2>4. \A i \in 1..m + 1 : h[i] = g[<<h[i - 1], i>>]
    <3> TAKE i \in 1..m + 1
    <3>1. i - 1 \in 0..m /\ h[i - 1] = f[i - 1]  OBVIOUS
    <3>2. CASE i = m + 1  BY <3>1, <3>2
    <3>3. CASE i # m + 1  BY <2>1, <3>1, <3>3
    <3> QED  BY <3>2, <3>3
  <2> HIDE DEF h
  <2> QED  BY <2>3, <2>4
<1>3. n \in T
  <2> HIDE DEF T
  <2> QED  BY <1>1, <1>2, Induction
<1> QED  BY <1>3
-----------------------------------------------------------------------------
(* Networks                                                                *)

\* Division by the width of a word, and that it has one quotient and rest.
LEMMA Division ==
  ASSUME NEW k \in Nat
  PROVE  /\ k \div Width \in Nat /\ k % Width \in 0..Width - 1
         /\ k = Width * (k \div Width) + (k % Width)
BY WordsHaveBits

LEMMA DivisionUnique ==
  ASSUME NEW q \in Nat, NEW r \in 0..Width - 1
  PROVE  (Width * q + r) \div Width = q /\ (Width * q + r) % Width = r
<1> DEFINE k == Width * q + r
<1>1. k \in Nat /\ Width * q \in Nat  BY WordsHaveBits
<1>2. k = Width * (k \div Width) + (k % Width) /\ k \div Width \in Nat /\ k % Width \in 0..Width - 1
  BY <1>1, Division
<1> DEFINE p == k \div Width  s == k % Width
<1>3. Width * (q - p) = s - r  BY <1>1, <1>2, WordsHaveBits
<1>4. ~(q - p >= 1) /\ ~(p - q >= 1)
  BY <1>1, <1>2, WordsHaveBits
<1> QED  BY <1>2, <1>4, WordsHaveBits

\* Two words agree on a mask if they have the same first bits.
LEMMA AgreeIs ==
  ASSUME NEW a \in Word, NEW n \in Word, NEW bits \in 0..Width
  PROVE  Agree(a, n, bits) <=> \A b \in 1..bits : a[b] = n[b]
<1>1. \A i \in 1..Width : Mask(bits)[i] = IF i <= bits THEN 1 ELSE 0
  BY WordsHaveBits DEF Mask, Shift, Ones
<1>2. \A i \in 1..Width : And(Xor(a, n), Mask(bits))[i] = IF i <= bits /\ a[i] # n[i] THEN 1 ELSE 0
  BY <1>1 DEF And, Xor
<1> QED  BY <1>2, WordsHaveBits DEF Agree, IsFalse
\* An IPv4 address has one word, which the mask /0 does not look at.
LEMMA cidr4_is ==
  ASSUME NEW a \in [1..1 -> Word], NEW n \in [1..1 -> Word], NEW bits \in 0..Width
  PROVE  cidr4_match(a, n, bits) <=> \A k \in 1..bits : Bit(a, k) = Bit(n, k)
<1>1. \A k \in 1..Width : (k - 1) \div Width = 0 /\ (k - 1) % Width = k - 1
  <2> TAKE k \in 1..Width
  <2>1. k - 1 \in 0..Width - 1 /\ Width * 0 + (k - 1) = k - 1  BY WordsHaveBits
  <2> QED  BY <2>1, DivisionUnique
<1>2. \A k \in 1..bits : Bit(a, k) = a[1][k] /\ Bit(n, k) = n[1][k]
  BY <1>1, WordsHaveBits DEF Bit
<1>3. Agree(a[1], n[1], bits) <=> \A k \in 1..bits : a[1][k] = n[1][k]  BY AgreeIs
<1> QED  BY <1>2, <1>3 DEF cidr4_match

\* Words that are compared whole and the bits of the next one are the first
\* bits of an IPv6 address.
LEMMA cidr6_is ==
  ASSUME NEW a \in [1..Words -> Word], NEW n \in [1..Words -> Word], NEW bits \in 0..Width * Words
  PROVE  cidr6_match(a, n, bits) <=> \A k \in 1..bits : Bit(a, k) = Bit(n, k)
<1> DEFINE whole == bits \div Width
           rest  == bits % Width
<1>0. bits \in Nat  BY WordsHaveBits
<1>1. whole \in Nat /\ rest \in 0..Width - 1 /\ bits = Width * whole + rest
  BY <1>0, Division
<1> HIDE DEF whole, rest
<1>2. whole <= Words /\ (rest # 0 => whole + 1 <= Words)
  <2>1. Width * whole <= Width * Words  BY <1>1, WordsHaveBits
  <2>2. ~(whole >= Words + 1)  BY <1>1, <2>1, WordsHaveBits
  <2>3. ~(rest # 0 /\ whole = Words)  BY <1>1, WordsHaveBits
  <2> QED  BY <1>1, <2>2, <2>3, WordsHaveBits
<1>3. cidr6_match(a, n, bits) <=> /\ \A i \in 1..whole : a[i] = n[i]
                                  /\ \A b \in 1..rest : a[whole + 1][b] = n[whole + 1][b]
  <2>1. rest = 0 => \A b \in 1..rest : a[whole + 1][b] = n[whole + 1][b]  OBVIOUS
  <2>2. rest # 0 => (Agree(a[whole + 1], n[whole + 1], rest) <=> \A b \in 1..rest : a[whole + 1][b] = n[whole + 1][b])
    <3> SUFFICES ASSUME rest # 0
                 PROVE Agree(a[whole + 1], n[whole + 1], rest) <=> \A b \in 1..rest : a[whole + 1][b] = n[whole + 1][b]
      OBVIOUS
    <3>1. whole + 1 \in 1..Words /\ rest \in 0..Width  BY <1>1, <1>2, WordsHaveBits
    <3>2. a[whole + 1] \in Word /\ n[whole + 1] \in Word  BY <3>1
    <3> QED  BY <3>1, <3>2, AgreeIs
  <2> QED  BY <2>1, <2>2 DEF cidr6_match, whole, rest
<1>4. ASSUME cidr6_match(a, n, bits), NEW k \in 1..bits PROVE Bit(a, k) = Bit(n, k)
  <2> DEFINE q == (k - 1) \div Width
             r == (k - 1) % Width
  <2>0. k - 1 \in Nat  OBVIOUS
  <2>1. q \in Nat /\ r \in 0..Width - 1 /\ k - 1 = Width * q + r  BY <2>0, Division
  <2> HIDE DEF q, r
  <2>2. q <= whole
    <3>1. ~(q >= whole + 1)  BY <1>1, <2>1, WordsHaveBits
    <3> QED  BY <3>1, <1>1, <2>1
  <2>3. CASE q < whole  BY <1>3, <1>4, <2>1, <2>3, <1>1 DEF Bit, q, r
  <2>4. CASE q = whole
    <3>1. r + 1 \in 1..rest  BY <1>1, <2>1, <2>4, WordsHaveBits
    <3> QED  BY <1>3, <1>4, <2>4, <3>1 DEF Bit, q, r
  <2> QED  BY <2>1, <2>2, <2>3, <2>4, <1>1
<1>5. ASSUME \A k \in 1..bits : Bit(a, k) = Bit(n, k) PROVE cidr6_match(a, n, bits)
  <2>1. ASSUME NEW i \in Nat, NEW b \in 1..Width, Width * i + b <= bits PROVE a[i + 1][b] = n[i + 1][b]
    <3> DEFINE k == Width * i + b
    <3>1. k \in 1..bits /\ k - 1 = Width * i + (b - 1) /\ b - 1 \in 0..Width - 1
      BY <2>1, WordsHaveBits
    <3>2. (k - 1) \div Width = i /\ (k - 1) % Width = b - 1  BY <3>1, DivisionUnique
    <3>3. Bit(a, k) = a[i + 1][b] /\ Bit(n, k) = n[i + 1][b]  BY <3>1, <3>2 DEF Bit
    <3> QED  BY <3>1, <3>3, <1>5
  <2>2. ASSUME NEW i \in 1..whole PROVE a[i] = n[i]
    <3>1. i \in 1..Words /\ i - 1 \in Nat /\ i - 1 < whole  BY <1>1, <1>2, WordsHaveBits
    <3>2. \A b \in 1..Width : a[i][b] = n[i][b]
      <4> TAKE b \in 1..Width
      <4>1. Width * (i - 1) + b <= bits  BY <1>1, <3>1, WordsHaveBits
      <4>2. a[(i - 1) + 1][b] = n[(i - 1) + 1][b]  BY <2>1, <3>1, <4>1
      <4> QED  BY <4>2
    <3>3. a[i] \in [1..Width -> 0..1] /\ n[i] \in [1..Width -> 0..1]  BY <3>1 DEF Word
    <3>4. a[i] = [b \in 1..Width |-> a[i][b]] /\ n[i] = [b \in 1..Width |-> n[i][b]]  BY <3>3
    <3> QED  BY <3>2, <3>4
  <2>3. \A b \in 1..rest : a[whole + 1][b] = n[whole + 1][b]
    <3> TAKE b \in 1..rest
    <3>1. b \in 1..Width /\ Width * whole + b <= bits  BY <1>1, WordsHaveBits
    <3> QED  BY <1>1, <2>1, <3>1
  <2> QED  BY <1>3, <2>2, <2>3
<1> QED  BY <1>4, <1>5


\* What is read of a rule.
LEMMA NumberIs ==
  ASSUME NEW text \in Seq(Int), \A i \in 1..Len(text) : text[i] \in 0..9
  PROVE  Number(text) \in Nat
<1> DEFINE n == Len(text)
           g == [x \in Nat \X (1..n) |-> 10 * x[1] + text[x[2]]]
<1>0. n \in Nat  OBVIOUS
<1>01. \A x \in Nat \X (1..n) : 10 * x[1] + text[x[2]] \in Nat
  <2> TAKE x \in Nat \X (1..n)
  <2>1. x[1] \in Nat /\ text[x[2]] \in 0..9  OBVIOUS
  <2> QED  BY <2>1
<1>02. g \in [Nat \X (1..n) -> Nat]  BY <1>01
<1>2. \A x \in Nat, i \in 1..n : g[<<x, i>>] = 10 * x + text[i]  OBVIOUS
<1> HIDE DEF g
<1>3. PICK f : Computes(f, Nat, 0, n, g)
  <2> HIDE DEF n
  <2> QED  BY <1>0, <1>02, Recursion
<1>4. f = [i \in 0..n |-> IF i = 0 THEN 0 ELSE 10 * f[i - 1] + text[i]]
  <2>1. \A i \in 0..n : f[i] = IF i = 0 THEN 0 ELSE 10 * f[i - 1] + text[i]
    <3> TAKE i \in 0..n
    <3>1. i # 0 => i \in 1..n /\ i - 1 \in 0..n  OBVIOUS
    <3>2. i # 0 => f[i - 1] \in Nat  BY <3>1, <1>3 DEF Computes
    <3> QED  BY <3>1, <3>2, <1>2, <1>3 DEF Computes
  <2>2. f = [i \in 0..n |-> f[i]]  BY <1>3 DEF Computes
  <2> QED  BY <2>1, <2>2
<1> DEFINE Value[i \in 0..n] == IF i = 0 THEN 0 ELSE 10 * Value[i - 1] + text[i]
<1>1. Number(text) = Value[n]  BY DEF Number
<1>5. Value = [i \in 0..n |-> IF i = 0 THEN 0 ELSE 10 * Value[i - 1] + text[i]]  BY <1>4
<1> HIDE DEF Value
<1>6. \A i \in 0..n : i \in {j \in Nat : j <= n => Value[j] \in Nat}
  <2> DEFINE T == {j \in Nat : j <= n => Value[j] \in Nat}
  <2>1. 0 \in T  BY <1>5
  <2>2. ASSUME NEW j \in Nat, j \in T PROVE j + 1 \in T
    <3> SUFFICES ASSUME j + 1 <= n PROVE Value[j + 1] \in Nat  OBVIOUS
    <3>1. j + 1 \in 0..n /\ j + 1 # 0 /\ j + 1 - 1 = j  BY <1>0
    <3>3. Value[j + 1] = 10 * Value[j] + text[j + 1]  BY <1>5, <3>1
    <3>4. Value[j] \in Nat  BY <2>2, <3>1
    <3>2. text[j + 1] \in Nat  OBVIOUS
    <3> HIDE DEF n
    <3> QED  BY <3>2, <3>3, <3>4
  <2> HIDE DEF T
  <2>3. Nat \subseteq T  BY <2>1, <2>2, Induction
  <2> QED  BY <2>3 DEF T
<1> QED  BY <1>0, <1>1, <1>6

\* What a network of a rule is, and the texts there are.
Texts ==
  /\ kind \in {"condition", "variable", "network"}
  /\ kind = "condition" => input \in Seq(CondToken)
  /\ kind = "network" => \E a \in Address, text \in Masks \cup {<<>>} :
       input = [version |-> a.version, ip |-> a.ip, text |-> text]

LEMMA TextsAre == Spec => []Texts
<1>1. Init => Texts
  <2> SUFFICES ASSUME Init PROVE Texts  OBVIOUS
  <2>1. CASE kind \in {"condition", "variable"} /\ input = <<>>  BY <2>1 DEF Texts
  <2>2. CASE kind = "network"  BY <2>2 DEF Init, Texts
  <2> QED  BY <2>1, <2>2 DEF Init
<1>2. Texts /\ [Next]_vars => Texts'
  <2> SUFFICES ASSUME Texts, [Next]_vars PROVE Texts'  OBVIOUS
  <2>1. CASE Condense  BY <2>1 DEF Condense, Texts
  <2>2. CASE Lengthen  BY <2>2 DEF Lengthen, Texts
  <2>3. CASE Network
    <3>1. PICK m \in Masks : input' = [input EXCEPT !.text = m] /\ kind' = kind /\ kind = "network"
      BY <2>3 DEF Network
    <3>2. PICK a \in Address, text \in Masks \cup {<<>>} : input = [version |-> a.version, ip |-> a.ip, text |-> text]
      BY <3>1 DEF Texts
    <3>3. input' = [version |-> a.version, ip |-> a.ip, text |-> m]  BY <3>1, <3>2
    <3> QED  BY <3>1, <3>3 DEF Texts
  <2>4. CASE UNCHANGED vars  BY <2>4 DEF vars, Texts
  <2> QED  BY <2>1, <2>2, <2>3, <2>4 DEF Next
<1> QED  BY <1>1, <1>2, PTL DEF Spec

\* What is read of a network is compared bit by bit.
LEMMA NetworksAgree == Texts => NetworkAgrees
<1> SUFFICES ASSUME Texts, kind = "network",
                    NEW a \in Address, get_ip_and_cidr(input.version, input.ip, input.text) # <<>>
             PROVE  LET read == get_ip_and_cidr(input.version, input.ip, input.text)
                    IN  cidr_match(a, read[1]) <=> /\ a.version = input.version
                                     /\ \A k \in 1..read[1].mask : Bit(a.ip, k) = Bit(input.ip, k)
  BY DEF NetworkAgrees
<1>1. PICK b \in Address, text \in Masks \cup {<<>>} : input = [version |-> b.version, ip |-> b.ip, text |-> text]
  BY DEF Texts
<1> DEFINE mask == Number(text)
           cidr == [version |-> b.version, ip |-> b.ip, mask |-> mask]
<1>2. input.version = b.version /\ input.ip = b.ip /\ input.text = text  BY <1>1
<1>3. get_ip_and_cidr(input.version, input.ip, input.text) = <<cidr>> /\ mask <= Bits(b.version)
      /\ \A i \in 1..Len(text) : text[i] \in 0..9
  BY <1>2 DEF get_ip_and_cidr
<1>4. text \in Seq(Int)
  <2>1. <<>> \in Seq(Int)  OBVIOUS
  <2> QED  BY <2>1, MasksAreTexts
<1>5. mask \in Nat  BY <1>3, <1>4, NumberIs
<1> HIDE DEF mask
<1>6. cidr_match(a, cidr) <=> a.version = b.version /\ \A k \in 1..mask : Bit(a.ip, k) = Bit(b.ip, k)
  <2>1. CASE b.version = 4 /\ a.version = 4
    <3>1. a.ip \in [1..1 -> Word] /\ b.ip \in [1..1 -> Word]  BY <2>1 DEF Address
    <3>2. mask \in 0..Width  BY <1>3, <1>5, <2>1, WordsHaveBits DEF Bits
    <3>3. cidr_match(a, cidr) <=> cidr4_match(a.ip, b.ip, mask)  BY <2>1 DEF cidr_match
    <3> QED  BY <2>1, <3>1, <3>2, <3>3, cidr4_is
  <2>2. CASE b.version = 6 /\ a.version = 6
    <3>1. a.ip \in [1..Words -> Word] /\ b.ip \in [1..Words -> Word]  BY <2>2 DEF Address
    <3>2. mask \in 0..Width * Words  BY <1>3, <1>5, <2>2, WordsHaveBits DEF Bits
    <3>3. cidr_match(a, cidr) <=> cidr6_match(a.ip, b.ip, mask)  BY <2>2 DEF cidr_match
    <3> QED  BY <2>2, <3>1, <3>2, <3>3, cidr6_is
  <2>3. CASE a.version # b.version  BY <2>3 DEF cidr_match
  <2>4. a.version \in {4, 6} /\ b.version \in {4, 6}  BY DEF Address
  <2> QED  BY <2>1, <2>2, <2>3, <2>4
<1> QED  BY <1>2, <1>3, <1>6

\* An address is in the network of a rule exactly if it is of its version and has
\* the first bits of its address, as many as the mask says: what get_ip_and_cidr
\* reads of a rule and cidr_match compares, for words of any width.
THEOREM Networks == Spec => []NetworkAgrees
BY TextsAre, NetworksAgree, PTL

-----------------------------------------------------------------------------
(* Operators, tokens and yards                                             *)

(* What operators there are, and how they bind.                            *)
Pushed == Applied \cup {"("}
\* What binds more tightly than what.
LEMMA PrecedenceIs ==
  /\ sy_op_precedence("!") = 120
  /\ \A o \in {"<", ">", "<=", ">="} : sy_op_precedence(o) = 90
  /\ sy_op_precedence("&&") = 70
  /\ sy_op_precedence("||") = 60
  /\ sy_op_precedence("==") = 20
BY DEF sy_op_precedence

LEMMA Precedences ==
  /\ \A o \in Applied : sy_op_precedence(o) \in 0..120
  /\ \A o \in Binary : sy_op_precedence(o) < 120
  /\ sy_op_precedence("!") = 120
BY PrecedenceIs DEF Applied, Binary

\* Every operator gives a number, and a negation looks at one operand.
LEMMA ValuesAreInt == ASSUME NEW op \in Applied, NEW a, NEW b PROVE sy_apply_op(op, a, b) \in Int
<1>1. \A x : Truth(x) \in Int  BY DEF Truth
<1> QED  BY <1>1 DEF sy_apply_op, Applied, Binary

LEMMA NotIs == ASSUME NEW a, NEW b PROVE sy_apply_op("!", a, b) = Truth(a = 0)
BY DEF sy_apply_op

\* How a yard can be, and what a token is.
Ends  == {"operand", "operator", "too complex", "not enough input", "syntax", "unbalanced", "invalid", "done"}
Yards == [res : Seq(Int), ops : Seq(Pushed), at : Ends]
IsToken(t) == /\ t[1] \in {"num", "!", "(", ")"} \cup Binary
              /\ t[1] = "num" => t[2] \in Int

\* Tokens have a first part that says what they are.
LEMMA TokensAre == \A t \in CondToken : IsToken(t)
<1>1. ASSUME NEW n \in Operands PROVE IsToken(<<"num", n>>)  BY OperandsAreNumbers DEF IsToken
<1>2. ASSUME NEW o \in Binary \cup {"!", "(", ")"} PROVE IsToken(<<o>>)
  <2>1. <<o>>[1] = o /\ o # "num"  BY DEF Binary
  <2> QED  BY <2>1 DEF IsToken
<1>3. \A t \in CondToken : (\E n \in Operands : t = <<"num", n>>) \/ (\E o \in Binary \cup {"!", "(", ")"} : t = <<o>>)
  BY OperatorsAreBinary DEF CondToken, Numbers
<1> QED  BY <1>1, <1>2, <1>3

\* So do those of a text.
LEMMA TokenIs == ASSUME NEW s \in Seq(CondToken), NEW i \in 1..Len(s) PROVE IsToken(s[i])
BY TokensAre

\* The depth of a text, by its recurrence.
LEMMA LevelIs ==
  ASSUME NEW s \in Seq(CondToken)
  PROVE  /\ Level(s)[0] = 0
         /\ \A i \in 0..Len(s) : Level(s)[i] \in Int
         /\ \A i \in 1..Len(s) : Level(s)[i] = Level(s)[i - 1] + Deeper(s[i])
<1> DEFINE n == Len(s)
           g == [x \in Int \X (1..n) |-> x[1] + Deeper(s[x[2]])]
<1>0. n \in Nat /\ 0 \in Int  OBVIOUS
<1>1. g \in [Int \X (1..n) -> Int]
  <2>1. \A t : Deeper(t) \in Int  BY DEF Deeper
  <2> QED  BY <2>1
<1>2. \A x \in Int, i \in 1..n : g[<<x, i>>] = x + Deeper(s[i])  OBVIOUS
<1> HIDE DEF g
<1>3. PICK f : Computes(f, Int, 0, n, g)
  <2> HIDE DEF n
  <2> QED  BY <1>0, <1>1, Recursion
<1>4. \A i \in 1..n : f[i - 1] \in Int /\ f[i] = f[i - 1] + Deeper(s[i])
  <2> TAKE i \in 1..n
  <2>1. i - 1 \in 0..n  OBVIOUS
  <2> QED  BY <2>1, <1>2, <1>3 DEF Computes
<1>5. f = [i \in 0..n |-> IF i = 0 THEN 0 ELSE f[i - 1] + Deeper(s[i])]
  <2>1. \A i \in 0..n : f[i] = IF i = 0 THEN 0 ELSE f[i - 1] + Deeper(s[i])
    BY <1>3, <1>4 DEF Computes
  <2>2. f = [i \in 0..n |-> f[i]]  BY <1>3 DEF Computes
  <2> QED  BY <2>1, <2>2
<1> DEFINE Upto[i \in 0..n] == IF i = 0 THEN 0 ELSE Upto[i - 1] + Deeper(s[i])
<1>6. Upto = [i \in 0..n |-> IF i = 0 THEN 0 ELSE Upto[i - 1] + Deeper(s[i])]  BY <1>5
<1>7. Level(s) = Upto  BY DEF Level
<1> HIDE DEF Upto
<1>8. \A t : Deeper(t) \in Int  BY DEF Deeper
<1>9. Upto[0] = 0 /\ \A i \in 1..n : Upto[i] = Upto[i - 1] + Deeper(s[i])  BY <1>6
<1>10. \A i \in 0..n : Upto[i] \in Int
  <2> DEFINE T == {j \in Nat : j <= n => Upto[j] \in Int}
  <2>1. 0 \in T  BY <1>9
  <2>2. ASSUME NEW j \in Nat, j \in T PROVE j + 1 \in T  BY <2>2, <1>8, <1>9
  <2> HIDE DEF T
  <2>3. Nat \subseteq T  BY <2>1, <2>2, Induction
  <2> QED  BY <2>3 DEF T
<1> QED  BY <1>7, <1>9, <1>10

-----------------------------------------------------------------------------
(* The weakest operator                                                    *)

\* Of some operators there is a last one of the weakest.
LEMMA SplitsAtIs ==
  ASSUME NEW s, NEW n \in Nat, NEW S \in SUBSET (1..n), S # {}, \A i \in S : s[i][1] \in Binary
  PROVE  /\ SplitsAt(s, S) \in S
         /\ \A j \in S : \/ Binds(s, SplitsAt(s, S)) < Binds(s, j)
                         \/ Binds(s, SplitsAt(s, S)) = Binds(s, j) /\ j <= SplitsAt(s, S)
<1>1. \A i \in S : Binds(s, i) \in 0..120  BY Precedences DEF Binds, Applied
<1>2. PICK w \in S : \A j \in S : Binds(s, w) <= Binds(s, j)
  <2> DEFINE T == {Binds(s, i) : i \in S}
  <2>1. T \in SUBSET Nat /\ T # {}
    <3>1. \A x \in 0..120 : x \in Nat  OBVIOUS
    <3>2. \A i \in S : Binds(s, i) \in Nat  BY <1>1, <3>1
    <3> QED  BY <3>2
  <2>2. PICK b \in T : \A c \in T : b <= c  BY <2>1, LeastNumber
  <2> QED  BY <2>2
<1>3. w \in Weakest(s, S)  BY <1>2 DEF Weakest
<1>4. PICK i \in Weakest(s, S) : \A j \in Weakest(s, S) : j <= i
  <2> DEFINE T == {n - i : i \in Weakest(s, S)}
  <2>0. Weakest(s, S) \subseteq S  BY DEF Weakest
  <2>1. T \in SUBSET Nat /\ T # {}  BY <1>3, <2>0
  <2>2. PICK b \in T : \A c \in T : b <= c  BY <2>1, LeastNumber
  <2>3. PICK i \in Weakest(s, S) : b = n - i  BY <2>2
  <2>4. \A j \in Weakest(s, S) : n - i <= n - j  BY <2>2, <2>3
  <2>5. \A j \in Weakest(s, S) : j \in 1..n  BY <2>0
  <2>6. \A j \in Weakest(s, S) : j <= i  BY <2>3, <2>4, <2>5
  <2> QED  BY <2>3, <2>6
<1>5. SplitsAt(s, S) \in Weakest(s, S) /\ \A j \in Weakest(s, S) : j <= SplitsAt(s, S)
  BY <1>4 DEF SplitsAt
<1> DEFINE at == SplitsAt(s, S)
<1>6. at \in S /\ \A j \in S : Binds(s, at) <= Binds(s, j)  BY <1>5 DEF Weakest
<1>7. ASSUME NEW j \in S, Binds(s, at) = Binds(s, j) PROVE j <= at
  <2>1. j \in Weakest(s, S)  BY <1>6, <1>7 DEF Weakest
  <2> QED  BY <1>5, <2>1
<1>8. \A j \in S : \/ Binds(s, at) < Binds(s, j)
                   \/ Binds(s, at) = Binds(s, j) /\ j <= at
  <2> HIDE DEF at
  <2> TAKE j \in S
  <2>1. Binds(s, j) \in 0..120 /\ Binds(s, at) \in 0..120  BY <1>1, <1>6
  <2>2. Binds(s, at) <= Binds(s, j)  BY <1>6
  <2>3. Binds(s, at) = Binds(s, j) => j <= at  BY <1>7
  <2> QED  BY <2>1, <2>2, <2>3
<1> QED  BY <1>6, <1>8

-----------------------------------------------------------------------------
(* The table of meanings                                                   *)

\* The table says what it should.
Says(s, M) == \A lo, hi \in 1..Len(s) : lo <= hi => Of(M, lo, hi) = MeaningOf(s, M, lo, hi)

\* What a part means depends on shorter parts only.
LEMMA ShorterParts ==
  ASSUME NEW s \in Seq(CondToken), NEW f, NEW g, NEW lo \in 1..Len(s), NEW hi \in lo..Len(s),
         \A k \in 1..hi - lo : f[k] = g[k]
  PROVE  MeaningOf(s, f, lo, hi) = MeaningOf(s, g, lo, hi)
<1> DEFINE S  == Splits(s, lo, hi)
           at == SplitsAt(s, S)
<1>1. \A a, b \in Int : lo <= a /\ b <= hi /\ b - a < hi - lo => Of(f, a, b) = Of(g, a, b)
  <2> SUFFICES ASSUME NEW a \in Int, NEW b \in Int, lo <= a, b <= hi, b - a < hi - lo, a <= b
               PROVE f[b - a + 1] = g[b - a + 1]
    BY DEF Of
  <2>1. b - a + 1 \in 1..hi - lo  OBVIOUS
  <2> QED  BY <2>1
<1>2. S # {} => at \in lo..hi
  <2>1. S \in SUBSET (1..Len(s)) /\ S \subseteq lo..hi /\ \A i \in S : s[i][1] \in Binary  BY DEF Splits
  <2>2. Len(s) \in Nat  OBVIOUS
  <2> HIDE DEF S
  <2> QED  BY <2>1, <2>2, SplitsAtIs
<1>3. S # {} => Of(f, at + 1, hi) = Of(g, at + 1, hi) /\ Of(f, lo, at - 1) = Of(g, lo, at - 1)
  <2> HIDE DEF at, S
  <2>1. hi \in Int /\ lo \in Int  OBVIOUS
  <2> QED  BY <1>1, <1>2, <2>1
<1>4. Of(f, lo + 1, hi) = Of(g, lo + 1, hi)  BY <1>1
<1>5. Of(f, lo + 1, hi - 1) = Of(g, lo + 1, hi - 1)  BY <1>1
<1> QED  BY <1>3, <1>4, <1>5, Zenon DEF MeaningOf

\* The table as far as length m.
Fills(s, f, m) ==
  f = [k \in 1..m |-> [lo \in 1..Len(s) + 1 - k |-> MeaningOf(s, f, lo, lo + k - 1)]]

LEMMA TableExists == ASSUME NEW s \in Seq(CondToken) PROVE \E f : Fills(s, f, Len(s))
<1> DEFINE n == Len(s)
           T == {m \in Nat : m <= n => \E f : Fills(s, f, m)}
<1>0. n \in Nat  OBVIOUS
<1>1. 0 \in T
  <2> DEFINE f == [k \in 1..0 |-> k]
  <2>1. Fills(s, f, 0)  BY DEF Fills
  <2> QED  BY <2>1
<1>2. ASSUME NEW m \in Nat, m \in T PROVE m + 1 \in T
  <2> SUFFICES ASSUME m + 1 <= n PROVE \E f : Fills(s, f, m + 1)  OBVIOUS
  <2>1. PICK f : Fills(s, f, m)  BY <1>2
  <2> DEFINE Row(h, k) == [lo \in 1..Len(s) + 1 - k |-> MeaningOf(s, h, lo, lo + k - 1)]
             g == [k \in 1..m + 1 |-> IF k <= m THEN f[k] ELSE Row(f, k)]
  <2>2. \A k \in 1..m : g[k] = f[k]  OBVIOUS
  <2>3. \A k \in 1..m + 1 : Row(f, k) = Row(g, k)
    <3> TAKE k \in 1..m + 1
    <3>1. ASSUME NEW lo \in 1..Len(s) + 1 - k PROVE MeaningOf(s, f, lo, lo + k - 1) = MeaningOf(s, g, lo, lo + k - 1)
      <4> DEFINE hi == lo + k - 1
      <4>1. lo \in 1..Len(s) /\ hi \in lo..Len(s) /\ hi - lo <= m /\ hi - lo \in Nat  BY <1>0
      <4> HIDE DEF hi, g
      <4>2. \A j \in 1..hi - lo : f[j] = g[j]  BY <4>1, <2>2
      <4>3. MeaningOf(s, f, lo, hi) = MeaningOf(s, g, lo, hi)  BY <4>1, <4>2, ShorterParts
      <4> QED  BY <4>3 DEF hi
    <3> HIDE DEF g
    <3> QED  BY <3>1
  <2>4. \A k \in 1..m : f[k] = Row(f, k)
    <3> HIDE DEF g
    <3> QED  BY <2>1 DEF Fills
  <2>5. \A k \in 1..m + 1 : g[k] = Row(g, k)
    <3> TAKE k \in 1..m + 1
    <3>1. g[k] = IF k <= m THEN f[k] ELSE Row(f, k)  OBVIOUS
    <3> HIDE DEF g, Row
    <3>2. CASE k <= m  BY <3>1, <3>2, <2>3, <2>4
    <3>3. CASE ~(k <= m)  BY <3>1, <3>3, <2>3
    <3> QED  BY <3>2, <3>3
  <2>6. g = [k \in 1..m + 1 |-> g[k]]  OBVIOUS
  <2>7. g = [k \in 1..m + 1 |-> Row(g, k)]
    <3> HIDE DEF g, Row
    <3> QED  BY <2>5, <2>6
  <2>8. Fills(s, g, m + 1)
    <3> HIDE DEF g
    <3> QED  BY <2>7 DEF Fills
  <2> QED  BY <2>8
<1>3. n \in T
  <2> HIDE DEF T
  <2> QED  BY <1>0, <1>1, <1>2, Induction
<1> QED  BY <1>0, <1>3

\* What a condition means is what the table says of the whole of it.
LEMMA MeaningIs ==
  ASSUME NEW s \in Seq(CondToken)
  PROVE  \E M : Says(s, M) /\ Meaning(s) = Of(M, 1, Len(s))
<1> DEFINE n == Len(s)
           M[k \in 1..n] == [lo \in 1..n + 1 - k |-> MeaningOf(s, M, lo, lo + k - 1)]
<1>0. n \in Nat  OBVIOUS
<1>1. Meaning(s) = IF s = <<>> THEN {} ELSE M[n][1]  BY Zenon DEF Meaning
<1>2. Fills(s, M, n)
  <2>1. \E f : Fills(s, f, Len(s))  BY TableExists
  <2> QED  BY <2>1, Zenon DEF Fills
<1> HIDE DEF M
<1>3. Says(s, M)
  <2> SUFFICES ASSUME NEW lo \in 1..n, NEW hi \in 1..n, lo <= hi PROVE Of(M, lo, hi) = MeaningOf(s, M, lo, hi)
    BY DEF Says
  <2> DEFINE k == hi - lo + 1
  <2>1. k \in 1..n /\ lo \in 1..n + 1 - k /\ lo + k - 1 = hi  BY <1>0
  <2> HIDE DEF k
  <2>2. M[k] = [l \in 1..n + 1 - k |-> MeaningOf(s, M, l, l + k - 1)]  BY <1>2, <2>1 DEF Fills
  <2>3. M[k][lo] = MeaningOf(s, M, lo, lo + k - 1)  BY <2>1, <2>2
  <2>4. Of(M, lo, hi) = M[k][lo]  BY DEF Of, k
  <2> QED  BY <2>1, <2>3, <2>4
<1>4. Meaning(s) = Of(M, 1, n)
  <2>1. CASE s = <<>>
    <3>1. n = 0  BY <2>1
    <3> QED  BY <1>1, <2>1, <3>1 DEF Of
  <2>2. CASE s # <<>>
    <3>1. n >= 1 /\ n - 1 + 1 = n  BY <2>2
    <3> HIDE DEF n
    <3> QED  BY <1>1, <2>2, <3>1 DEF Of
  <2> QED  BY <2>1, <2>2
<1> QED  BY <1>3, <1>4

-----------------------------------------------------------------------------
(* What each kind of expression means                                      *)

\* The part from lo to hi is an expression of its own, and means v.
Expression(s, M, lo, hi, v) ==
  /\ lo \in 1..Len(s) /\ hi \in lo..Len(s)
  /\ \A k \in lo..hi : Level(s)[k] >= Level(s)[lo - 1]
  /\ Level(s)[hi] = Level(s)[lo - 1]
  /\ Of(M, lo, hi) = {v}

\* A binary operator is no other token.
LEMMA BinariesAreOther == ASSUME NEW b \in Binary PROVE b \notin {"num", "!", "(", ")"}
BY DEF Binary

\* A number.
LEMMA NumberMeans ==
  ASSUME NEW s \in Seq(CondToken), NEW M, Says(s, M), NEW i \in 1..Len(s), s[i][1] = "num"
  PROVE  Expression(s, M, i, i, s[i][2]) /\ Splits(s, i, i) = {}
<1>1. Level(s)[i] = Level(s)[i - 1] /\ Level(s)[i - 1] \in Int
  <2>1. i - 1 \in 0..Len(s)  OBVIOUS
  <2>2. Level(s)[i] = Level(s)[i - 1] + Deeper(s[i]) /\ Level(s)[i - 1] \in Int  BY <2>1, LevelIs
  <2>3. Deeper(s[i]) = 0  BY DEF Deeper
  <2> QED  BY <2>2, <2>3
<1>2. Splits(s, i, i) = {}  BY BinariesAreOther DEF Splits
<1>3. Of(M, i, i) = {s[i][2]}
  <2>1. Of(M, i, i) = MeaningOf(s, M, i, i)  BY DEF Says
  <2> QED  BY <2>1, <1>2 DEF MeaningOf
<1>4. i \in 1..Len(s) /\ i \in i..Len(s)  OBVIOUS
<1>5. \A k \in i..i : k = i  OBVIOUS
<1> QED  BY <1>1, <1>2, <1>3, <1>4, <1>5 DEF Expression

\* A negation.
LEMMA NotMeans ==
  ASSUME NEW s \in Seq(CondToken), NEW M, Says(s, M), NEW lo \in 1..Len(s), NEW hi, NEW v,
         s[lo][1] = "!", Expression(s, M, lo + 1, hi, v), Splits(s, lo + 1, hi) = {}
  PROVE  Expression(s, M, lo, hi, Truth(v = 0)) /\ Splits(s, lo, hi) = {}
<1>0. hi \in lo + 1..Len(s) /\ lo - 1 \in 0..Len(s) /\ lo + 1 - 1 = lo  BY DEF Expression
<1>1. Level(s)[lo] = Level(s)[lo - 1] /\ Level(s)[lo - 1] \in Int
  <2>2. Level(s)[lo] = Level(s)[lo - 1] + Deeper(s[lo]) /\ Level(s)[lo - 1] \in Int  BY <1>0, LevelIs
  <2>3. Deeper(s[lo]) = 0  BY DEF Deeper
  <2> QED  BY <2>2, <2>3
<1>2. Splits(s, lo, hi) = {}
  <2> SUFFICES ASSUME NEW k \in lo..hi, s[k][1] \in Binary, Level(s)[k] = Level(s)[lo - 1] PROVE FALSE
    BY DEF Splits
  <2>1. k # lo  BY BinariesAreOther
  <2>2. k \in lo + 1..hi  BY <2>1, <1>0
  <2> QED  BY <1>0, <1>1, <2>2 DEF Splits
<1>3. Of(M, lo, hi) = {Truth(v = 0)}
  <2>1. Of(M, lo, hi) = MeaningOf(s, M, lo, hi)
    <3>1. hi \in 1..Len(s) /\ lo <= hi  BY <1>0
    <3> QED  BY <3>1 DEF Says
  <2>2. MeaningOf(s, M, lo, hi) = {Truth(w = 0) : w \in Of(M, lo + 1, hi)}  BY <1>2 DEF MeaningOf
  <2> QED  BY <2>1, <2>2 DEF Expression
<1>4. \A k \in lo..hi : Level(s)[k] >= Level(s)[lo - 1]
  <2> TAKE k \in lo..hi
  <2>1. k = lo \/ k \in lo + 1..hi  BY <1>0
  <2> QED  BY <1>0, <1>1, <2>1 DEF Expression
<1>5. Level(s)[hi] = Level(s)[lo - 1]  BY <1>0, <1>1 DEF Expression
<1>6. hi \in lo..Len(s)  BY <1>0
<1> QED  BY <1>2, <1>3, <1>4, <1>5, <1>6 DEF Expression

\* What is in parentheses.
LEMMA ParenthesesMean ==
  ASSUME NEW s \in Seq(CondToken), NEW M, Says(s, M), NEW lo \in 1..Len(s), NEW hi \in 1..Len(s) - 1, NEW v,
         s[lo][1] = "(", s[hi + 1][1] = ")", Expression(s, M, lo + 1, hi, v)
  PROVE  Expression(s, M, lo, hi + 1, v) /\ Splits(s, lo, hi + 1) = {}
<1>0. hi \in lo + 1..Len(s) /\ lo - 1 \in 0..Len(s) /\ lo + 1 - 1 = lo /\ hi + 1 \in lo..Len(s) /\ hi + 1 - 1 = hi
      /\ hi + 1 \in 1..Len(s)
  BY DEF Expression
<1>1. Level(s)[lo] = Level(s)[lo - 1] + 1 /\ Level(s)[lo - 1] \in Int
  <2>2. Level(s)[lo] = Level(s)[lo - 1] + Deeper(s[lo]) /\ Level(s)[lo - 1] \in Int  BY <1>0, LevelIs
  <2>3. Deeper(s[lo]) = 1  BY DEF Deeper
  <2> QED  BY <2>2, <2>3
<1>2. Level(s)[hi + 1] = Level(s)[lo - 1]
  <2>2. Level(s)[hi + 1] = Level(s)[hi] + Deeper(s[hi + 1])  BY <1>0, LevelIs
  <2>3. Deeper(s[hi + 1]) = -1  BY DEF Deeper
  <2>4. Level(s)[hi] = Level(s)[lo]  BY <1>0 DEF Expression
  <2> QED  BY <1>1, <2>2, <2>3, <2>4
<1>3. \A k \in lo + 1..hi : Level(s)[k] \in Int /\ Level(s)[k] > Level(s)[lo - 1]
  <2> TAKE k \in lo + 1..hi
  <2>1. k \in 0..Len(s)  BY <1>0
  <2>2. Level(s)[k] \in Int  BY <2>1, LevelIs
  <2>3. Level(s)[k] >= Level(s)[lo]  BY <1>0 DEF Expression
  <2> QED  BY <1>1, <2>2, <2>3
<1>4. Splits(s, lo, hi + 1) = {}
  <2> SUFFICES ASSUME NEW k \in lo..hi + 1, s[k][1] \in Binary, Level(s)[k] = Level(s)[lo - 1] PROVE FALSE
    BY DEF Splits
  <2>1. k # lo /\ k # hi + 1  BY BinariesAreOther
  <2>2. k \in lo + 1..hi  BY <2>1, <1>0
  <2> QED  BY <1>1, <1>3, <2>2
<1>5. Of(M, lo, hi + 1) = {v}
  <2>1. Of(M, lo, hi + 1) = MeaningOf(s, M, lo, hi + 1)
    <3>1. hi + 1 \in 1..Len(s) /\ lo <= hi + 1  BY <1>0
    <3> QED  BY <3>1 DEF Says
  <2>2. MeaningOf(s, M, lo, hi + 1) = Of(M, lo + 1, hi + 1 - 1)  BY <1>2, <1>4 DEF MeaningOf
  <2> QED  BY <2>1, <2>2, <1>0 DEF Expression
<1>6. \A k \in lo..hi + 1 : Level(s)[k] >= Level(s)[lo - 1]
  <2> TAKE k \in lo..hi + 1
  <2>1. k = lo \/ k \in lo + 1..hi \/ k = hi + 1  BY <1>0
  <2>2. CASE k = lo  BY <1>1, <2>2
  <2>3. CASE k \in lo + 1..hi  BY <1>1, <1>3, <2>3
  <2>4. CASE k = hi + 1  BY <1>1, <1>2, <2>4
  <2> QED  BY <2>1, <2>2, <2>3, <2>4
<1> QED  BY <1>0, <1>2, <1>4, <1>5, <1>6 DEF Expression

\* Two expressions and the operator between them, if those in the left one bind
\* as tightly and those in the right one more tightly.
LEMMA OperatorMeans ==
  ASSUME NEW s \in Seq(CondToken), NEW M, Says(s, M), NEW lo, NEW a \in 1..Len(s), NEW hi, NEW v, NEW w,
         s[a][1] \in Binary, Expression(s, M, lo, a - 1, v), Expression(s, M, a + 1, hi, w),
         \A k \in Splits(s, lo, a - 1) : Binds(s, k) >= Binds(s, a),
         \A k \in Splits(s, a + 1, hi) : Binds(s, k) > Binds(s, a)
  PROVE  /\ Expression(s, M, lo, hi, sy_apply_op(s[a][1], w, v))
         /\ \A k \in Splits(s, lo, hi) : k \in Splits(s, lo, a - 1) \/ k = a \/ k \in Splits(s, a + 1, hi)
<1>0. /\ lo \in 1..Len(s) /\ a - 1 \in lo..Len(s) /\ hi \in a + 1..Len(s) /\ hi \in lo..Len(s)
      /\ a + 1 - 1 = a /\ lo - 1 \in 0..Len(s)
  BY DEF Expression
<1>1. Level(s)[a] = Level(s)[lo - 1] /\ Level(s)[lo - 1] \in Int
  <2>1. a - 1 \in 0..Len(s)  BY <1>0
  <2>2. Level(s)[a] = Level(s)[a - 1] + Deeper(s[a]) /\ Level(s)[a - 1] \in Int  BY <2>1, LevelIs
  <2>3. Deeper(s[a]) = 0  BY BinariesAreOther DEF Deeper
  <2>4. Level(s)[a - 1] = Level(s)[lo - 1]  BY DEF Expression
  <2> QED  BY <2>2, <2>3, <2>4
<1> DEFINE S == Splits(s, lo, hi)
<1>2. \A k \in S : k \in Splits(s, lo, a - 1) \/ k = a \/ k \in Splits(s, a + 1, hi)
  <2> TAKE k \in S
  <2>1. k \in lo..hi /\ s[k][1] \in Binary /\ Level(s)[k] = Level(s)[lo - 1]  BY DEF Splits
  <2>2. k \in lo..a - 1 \/ k = a \/ k \in a + 1..hi  BY <1>0, <2>1
  <2> QED  BY <1>0, <1>1, <2>1, <2>2 DEF Splits
<1>3. a \in S  BY <1>0, <1>1 DEF Splits
<1>4. SplitsAt(s, S) = a
  <2> DEFINE at == SplitsAt(s, S)
  <2>1. S \in SUBSET (1..Len(s)) /\ \A i \in S : s[i][1] \in Binary
    <3>1. S \subseteq lo..hi /\ \A i \in S : s[i][1] \in Binary  BY DEF Splits
    <3>2. lo..hi \subseteq 1..Len(s)  BY <1>0
    <3> QED  BY <3>1, <3>2
  <2>2. Len(s) \in Nat  OBVIOUS
  <2>3. /\ at \in S
        /\ \A j \in S : Binds(s, at) < Binds(s, j) \/ (Binds(s, at) = Binds(s, j) /\ j <= at)
    <3> HIDE DEF S
    <3> QED  BY <1>3, <2>1, <2>2, SplitsAtIs
  <2>4. \A i \in S : Binds(s, i) \in Int
    <3>1. \A o \in Binary : sy_op_precedence(o) \in Int
      <4>1. \A o \in Binary : sy_op_precedence(o) \in 0..120  BY Precedences DEF Applied
      <4>2. \A x \in 0..120 : x \in Int  OBVIOUS
      <4> QED  BY <4>1, <4>2
    <3> QED  BY <2>1, <3>1 DEF Binds
  <2>5. at \notin Splits(s, a + 1, hi)
    <3> SUFFICES ASSUME at \in Splits(s, a + 1, hi) PROVE FALSE  OBVIOUS
    <3>1. Binds(s, at) > Binds(s, a)  OBVIOUS
    <3> HIDE DEF at, S
    <3>2. Binds(s, at) <= Binds(s, a)  BY <1>3, <2>3, <2>4
    <3> QED  BY <1>3, <2>3, <2>4, <3>1, <3>2
  <2>6. at \notin Splits(s, lo, a - 1)
    <3> SUFFICES ASSUME at \in Splits(s, lo, a - 1) PROVE FALSE  OBVIOUS
    <3>1. Binds(s, at) >= Binds(s, a)  OBVIOUS
    <3>2. at \in lo..a - 1  BY DEF Splits
    <3>3. at < a  BY <1>0, <3>2
    <3> HIDE DEF at, S
    <3> QED  BY <1>0, <1>3, <2>3, <2>4, <3>1, <3>2, <3>3
  <2> HIDE DEF at, S
  <2>7. at = a  BY <1>2, <2>3, <2>5, <2>6
  <2> QED  BY <2>7 DEF at
<1>5. Of(M, lo, hi) = {sy_apply_op(s[a][1], w, v)}
  <2>1. Of(M, lo, hi) = MeaningOf(s, M, lo, hi)
    <3>1. hi \in 1..Len(s) /\ lo <= hi  BY <1>0
    <3> QED  BY <3>1, <1>0 DEF Says
  <2>2. MeaningOf(s, M, lo, hi)
          = {sy_apply_op(s[a][1], x[1], x[2]) : x \in Of(M, a + 1, hi) \X Of(M, lo, a - 1)}
    <3>1. Splits(s, lo, hi) # {} /\ SplitsAt(s, Splits(s, lo, hi)) = a  BY <1>3, <1>4
    <3> QED  BY <3>1, Zenon DEF MeaningOf
  <2>3. Of(M, a + 1, hi) = {w} /\ Of(M, lo, a - 1) = {v}  BY DEF Expression
  <2>4. {w} \X {v} = {<<w, v>>} /\ <<w, v>>[1] = w /\ <<w, v>>[2] = v  OBVIOUS
  <2>5. {sy_apply_op(s[a][1], x[1], x[2]) : x \in {<<w, v>>}} = {sy_apply_op(s[a][1], w, v)}
    <3>1. \A x \in {<<w, v>>} : sy_apply_op(s[a][1], x[1], x[2]) = sy_apply_op(s[a][1], w, v)
      BY <2>4, Zenon
    <3> QED  BY <3>1
  <2> QED  BY <2>1, <2>2, <2>3, <2>4, <2>5, Zenon
<1>6. \A k \in lo..hi : Level(s)[k] >= Level(s)[lo - 1]
  <2> TAKE k \in lo..hi
  <2>1. k \in lo..a - 1 \/ k = a \/ k \in a + 1..hi  BY <1>0
  <2>2. CASE k \in lo..a - 1  BY <2>2 DEF Expression
  <2>3. CASE k = a  BY <1>1, <2>3
  <2>4. CASE k \in a + 1..hi  BY <1>0, <1>1, <2>4 DEF Expression
  <2> QED  BY <2>1, <2>2, <2>3, <2>4
<1>7. Level(s)[hi] = Level(s)[lo - 1]  BY <1>0, <1>1 DEF Expression
<1> QED  BY <1>0, <1>2, <1>5, <1>6, <1>7 DEF Expression

-----------------------------------------------------------------------------
(* Stacks that are a reading of the text                                   *)

\* Place j of the operators holds nothing that binds as tightly as q, up to the
\* innermost open parenthesis.
Under(y, j, q) == j = 0 \/ y.ops[j] = "(" \/ sy_op_precedence(y.ops[j]) < q

\* Operator j of the stack is token p[j] of s. Below a binary one lies, h[j]-th
\* of the results, what the expression since the operator before it means.
Placed(s, M, y, p, h, j) ==
  /\ p[j] \in 1..Len(s) /\ p[j - 1] < p[j] /\ s[p[j]][1] = y.ops[j]
  /\ IF y.ops[j] \in Binary
     THEN /\ h[j] = h[j - 1] + 1
          /\ Expression(s, M, p[j - 1] + 1, p[j] - 1, y.res[h[j]])
          /\ \A k \in Splits(s, p[j - 1] + 1, p[j] - 1) : Binds(s, k) >= Binds(s, p[j])
          /\ Under(y, j - 1, Binds(s, p[j]))
     ELSE h[j] = h[j - 1] /\ p[j] = p[j - 1] + 1

Stacked(s, M, y, p, h) ==
  /\ y \in Yards /\ p \in [Nat -> Nat] /\ h \in [Nat -> Nat] /\ p[0] = 0 /\ h[0] = 0
  /\ \A j \in 1..Len(y.ops) : Placed(s, M, y, p, h, j)
  /\ \A j, k \in 0..Len(y.ops) : j <= k => h[j] <= h[k]

\* Token i is the last one read, and an operand is next: all of the results are
\* below some operator.
AtOperand(s, M, y, p, h, i) ==
  /\ Stacked(s, M, y, p, h) /\ y.at = "operand"
  /\ Len(y.res) = h[Len(y.ops)] /\ p[Len(y.ops)] = i

\* An operator is next: the last result is what the expression since the last
\* operator on the stack means, and its operators are not weaker than q.
AtOperator(s, M, y, p, h, i, q) ==
  /\ Stacked(s, M, y, p, h) /\ y.at = "operator"
  /\ Len(y.res) = h[Len(y.ops)] + 1
  /\ Expression(s, M, p[Len(y.ops)] + 1, i, y.res[Len(y.res)])
  /\ \A k \in Splits(s, p[Len(y.ops)] + 1, i) : Binds(s, k) >= q /\ Under(y, Len(y.ops), Binds(s, k))

\* Where an operator is placed depends on the stacks up to it.
LEMMA PlacedStays ==
  ASSUME NEW s, NEW M, NEW y, NEW z, NEW p, NEW h, NEW p2, NEW h2, NEW j \in Nat \ {0},
         Placed(s, M, y, p, h, j),
         z.ops[j] = y.ops[j], j > 1 => z.ops[j - 1] = y.ops[j - 1],
         p2[j] = p[j], p2[j - 1] = p[j - 1], h2[j] = h[j], h2[j - 1] = h[j - 1],
         y.ops[j] \in Binary => z.res[h[j]] = y.res[h[j]]
  PROVE  Placed(s, M, z, p2, h2, j)
<1>1. \A q : Under(y, j - 1, q) <=> Under(z, j - 1, q)
  <2>1. j - 1 = 0 \/ j > 1  OBVIOUS
  <2> QED  BY <2>1 DEF Under
<1>2. CASE y.ops[j] \in Binary  BY <1>1, <1>2, Zenon DEF Placed
<1>3. CASE y.ops[j] \notin Binary  BY <1>3, Zenon DEF Placed
<1> QED  BY <1>2, <1>3

\* The parts of a yard.
LEMMA YardIs ==
  ASSUME NEW y \in Yards
  PROVE  /\ y.res \in Seq(Int) /\ Len(y.res) \in Nat /\ \A j \in 1..Len(y.res) : y.res[j] \in Int
         /\ y.ops \in Seq(Pushed) /\ Len(y.ops) \in Nat /\ \A j \in 1..Len(y.ops) : y.ops[j] \in Pushed
         /\ y = [res |-> y.res, ops |-> y.ops, at |-> y.at] /\ y.at \in Ends
BY DEF Yards

\* Appending to a stack, and its first places.
LEMMA AppendIs ==
  ASSUME NEW S, NEW t \in Seq(S), NEW e \in S
  PROVE  /\ Append(t, e) \in Seq(S) /\ Len(Append(t, e)) = Len(t) + 1
         /\ \A j \in 1..Len(t) : Append(t, e)[j] = t[j]
         /\ Append(t, e)[Len(t) + 1] = e
OBVIOUS

LEMMA BeginningIs ==
  ASSUME NEW S, NEW t \in Seq(S), NEW k \in 0..Len(t)
  PROVE  /\ SubSeq(t, 1, k) \in Seq(S) /\ Len(SubSeq(t, 1, k)) = k
         /\ \A j \in 1..k : SubSeq(t, 1, k)[j] = t[j]
OBVIOUS

\* What is left of the stacks is as it was.
LEMMA StackedStays ==
  ASSUME NEW s, NEW M, NEW y, NEW z \in Yards, NEW p, NEW h,
         Stacked(s, M, y, p, h), Len(z.ops) <= Len(y.ops),
         \A j \in 1..Len(z.ops) : z.ops[j] = y.ops[j],
         \A j \in 1..h[Len(z.ops)] : z.res[j] = y.res[j]
  PROVE  Stacked(s, M, z, p, h)
<1> DEFINE m == Len(z.ops)
<1> DEFINE n == Len(y.ops)
<1>0. m \in Nat /\ n \in Nat /\ m <= n
  <2>1. y \in Yards  BY DEF Stacked
  <2> QED  BY <2>1, YardIs
<1>00. p \in [Nat -> Nat] /\ h \in [Nat -> Nat] /\ (\A j, k \in 0..n : j <= k => h[j] <= h[k])
       /\ \A j \in 1..n : Placed(s, M, y, p, h, j)
  BY DEF Stacked
<1> HIDE DEF m, n
<1>1. ASSUME NEW j \in 1..m PROVE Placed(s, M, z, p, h, j)
  <2>0. j \in 1..n /\ j \in Nat \ {0}  BY <1>0
  <2>1. j \in 1..n /\ j \in Nat \ {0} /\ Placed(s, M, y, p, h, j)  BY <1>00, <2>0
  <2>2. z.ops[j] = y.ops[j] /\ (j > 1 => z.ops[j - 1] = y.ops[j - 1])  BY <1>0 DEF m
  <2>3. y.ops[j] \in Binary => z.res[h[j]] = y.res[h[j]]
    <3> SUFFICES ASSUME y.ops[j] \in Binary PROVE h[j] \in 1..h[m]  BY DEF m
    <3>1. h[j] = h[j - 1] + 1  BY <2>1 DEF Placed
    <3>2. h[j - 1] \in Nat /\ h[j] \in Nat /\ h[m] \in Nat
      <4>1. j - 1 \in Nat /\ j \in Nat  OBVIOUS
      <4> QED  BY <1>0, <1>00, <4>1
    <3>3. h[j] <= h[m]
      <4>1. j \in 0..n /\ m \in 0..n /\ j <= m  BY <1>0
      <4> QED  BY <1>00, <4>1
    <3> QED  BY <3>1, <3>2, <3>3
  <2> QED  BY <2>1, <2>2, <2>3, PlacedStays
<1>2. \A j, k \in 0..m : j <= k => h[j] <= h[k]
  <2> TAKE j, k \in 0..m
  <2>1. j \in 0..n /\ k \in 0..n  BY <1>0
  <2> QED  BY <2>1, <1>00
<1> QED  BY <1>1, <1>2 DEF Stacked, m

\* z is y with the last operator applied to k operands.
AppliedIn(y, z, k) ==
  LET m == Len(y.ops)
      n == Len(y.res)
  IN  /\ z \in Yards /\ z.at = y.at
      /\ Len(z.ops) = m - 1 /\ \A j \in 1..m - 1 : z.ops[j] = y.ops[j]
      /\ Len(z.res) = n - k + 1 /\ \A j \in 1..n - k : z.res[j] = y.res[j]
      /\ z.res[n - k + 1] = sy_apply_op(y.ops[m], y.res[n], IF k = 1 THEN 0 ELSE y.res[n - 1])

\* ApplyTop, when there are operands enough.
LEMMA ApplyTopIs ==
  ASSUME NEW y \in Yards, Len(y.ops) > 0, y.ops[Len(y.ops)] \in Applied,
         NEW k, k = IF y.ops[Len(y.ops)] = "!" THEN 1 ELSE 2, Len(y.res) >= k
  PROVE  AppliedIn(y, ApplyTop(y), k)
<1> DEFINE z == ApplyTop(y)
           m == Len(y.ops)
           n == Len(y.res)
           v == sy_apply_op(y.ops[m], y.res[n], IF k = 1 THEN 0 ELSE y.res[n - 1])
<1>0. m \in Nat /\ n \in Nat /\ m >= 1 /\ k \in {1, 2} /\ n >= k /\ y.ops \in Seq(Pushed) /\ y.res \in Seq(Int)
  BY YardIs
<1>1. v \in Int  BY ValuesAreInt
<1> DEFINE r == SubSeq(y.res, 1, n - k)
<1>2. z = [y EXCEPT !.ops = SubSeq(y.ops, 1, m - 1), !.res = Append(r, v)]
  <2>1. Last(y.ops) = y.ops[m] /\ Front(y.ops) = SubSeq(y.ops, 1, m - 1)  BY DEF Last, Front
  <2>2. CASE y.ops[m] = "!"
    <3>1. k = 1 /\ ~(n < 1)  BY <1>0, <2>2
    <3> QED  BY <2>1, <2>2, <3>1 DEF ApplyTop
  <2>3. CASE y.ops[m] # "!"
    <3>1. k = 2 /\ ~(n < 2)  BY <1>0, <2>3
    <3> QED  BY <2>1, <2>3, <3>1 DEF ApplyTop
  <2> QED  BY <2>2, <2>3
<1> HIDE DEF v
<1>3. SubSeq(y.ops, 1, m - 1) \in Seq(Pushed) /\ Len(SubSeq(y.ops, 1, m - 1)) = m - 1
      /\ \A j \in 1..m - 1 : SubSeq(y.ops, 1, m - 1)[j] = y.ops[j]
  <2>1. m - 1 \in 0..Len(y.ops)  BY <1>0
  <2> QED  BY <1>0, <2>1, BeginningIs
<1>4. r \in Seq(Int) /\ Len(r) = n - k /\ \A j \in 1..n - k : r[j] = y.res[j]
  <2>1. n - k \in 0..n
    <3> HIDE DEF n
    <3> QED  BY <1>0
  <2> QED  BY <1>0, <2>1, BeginningIs
<1>5. /\ Append(r, v) \in Seq(Int) /\ Len(Append(r, v)) = n - k + 1
      /\ \A j \in 1..n - k : Append(r, v)[j] = y.res[j]
      /\ Append(r, v)[n - k + 1] = v
  <2> HIDE DEF r, n
  <2>1. /\ Append(r, v) \in Seq(Int) /\ Len(Append(r, v)) = Len(r) + 1
        /\ \A j \in 1..Len(r) : Append(r, v)[j] = r[j]
        /\ Append(r, v)[Len(r) + 1] = v
    BY <1>1, <1>4, AppendIs
  <2> QED  BY <1>4, <2>1
<1>6. z.ops = SubSeq(y.ops, 1, m - 1) /\ z.res = Append(r, v) /\ z.at = y.at /\ z \in Yards
  <2> HIDE DEF z
  <2> QED  BY <1>2, <1>3, <1>5 DEF Yards
<1> HIDE DEF z, r
<1> QED  BY <1>3, <1>5, <1>6 DEF z, v, AppliedIn

\* Precedences are compared as numbers.
LEMMA PrecedenceInt == \A o \in Applied : sy_op_precedence(o) \in Int
<1>1. \A x \in 0..120 : x \in Int  OBVIOUS
<1> QED  BY <1>1, Precedences

\* What is weaker than an operator is weaker than one that binds more tightly.
LEMMA UnderMore ==
  ASSUME NEW y \in Yards, NEW j \in 0..Len(y.ops), NEW q \in Int, NEW r \in Int, q <= r, Under(y, j, q)
  PROVE  Under(y, j, r)
<1> SUFFICES ASSUME j # 0, y.ops[j] # "(" PROVE sy_op_precedence(y.ops[j]) < r  BY DEF Under
<1>1. y.ops[j] \in Applied
  <2>1. y.ops[j] \in Pushed
    <3>1. j \in 1..Len(y.ops)  BY YardIs
    <3> QED  BY <3>1, YardIs
  <2> QED  BY <2>1 DEF Pushed
<1>2. sy_op_precedence(y.ops[j]) \in Int  BY <1>1, PrecedenceInt
<1>3. sy_op_precedence(y.ops[j]) < q  BY DEF Under
<1> QED  BY <1>2, <1>3

\* An operator that is applied takes its operands, and leaves an expression.
LEMMA ApplyTopKeeps ==
  ASSUME NEW s \in Seq(CondToken), NEW M, Says(s, M), NEW y, NEW p, NEW h, NEW i \in Nat, NEW q \in Int,
         AtOperator(s, M, y, p, h, i, q), Len(y.ops) > 0,
         y.ops[Len(y.ops)] \in Applied, sy_op_precedence(y.ops[Len(y.ops)]) >= q
  PROVE  /\ AtOperator(s, M, ApplyTop(y), p, h, i, q)
         /\ Len(ApplyTop(y).ops) = Len(y.ops) - 1 /\ Len(ApplyTop(y).res) <= Len(y.res)
<1> DEFINE m  == Len(y.ops)
           n  == Len(y.res)
           op == y.ops[m]
           k  == IF op = "!" THEN 1 ELSE 2
           z  == ApplyTop(y)
           a  == p[m]
           lo == p[m - 1] + 1
<1>1. y \in Yards /\ p \in [Nat -> Nat] /\ h \in [Nat -> Nat] /\ Stacked(s, M, y, p, h) /\ y.at = "operator"
  BY DEF AtOperator, Stacked
<1>2. m \in Nat /\ m >= 1 /\ m - 1 \in Nat /\ m \in 1..m /\ n \in Nat  BY <1>1, YardIs
<1>3. Placed(s, M, y, p, h, m)  BY <1>1, <1>2 DEF Stacked
<1>4. a \in 1..Len(s) /\ s[a][1] = op /\ h[m] \in Nat /\ h[m - 1] \in Nat /\ p[m - 1] \in Nat
  BY <1>1, <1>2, <1>3 DEF Placed
<1>5. n = h[m] + 1 /\ Expression(s, M, a + 1, i, y.res[n])
      /\ \A j \in Splits(s, a + 1, i) : Binds(s, j) >= q /\ Under(y, m, Binds(s, j))
  BY DEF AtOperator
<1>6. n >= k /\ k \in {1, 2} /\ h[m - 1] = n - k
  <2>1. CASE op = "!"
    <3>1. op \notin Binary  BY <2>1, BinariesAreOther
    <3>2. h[m] = h[m - 1]  BY <1>3, <3>1 DEF Placed
    <3>3. n = h[m] + 1  BY <1>5
    <3>4. k = 1  BY <2>1
    <3> HIDE DEF k, n, m
    <3> QED  BY <1>4, <3>2, <3>3, <3>4
  <2>2. CASE op # "!"
    <3>1. op \in Binary  BY <2>2 DEF Applied
    <3>2. h[m] = h[m - 1] + 1  BY <1>3, <3>1 DEF Placed
    <3>3. n = h[m] + 1  BY <1>5
    <3>4. k = 2  BY <2>2
    <3>5. n = h[m - 1] + 2 /\ h[m - 1] \in Nat
      <4> HIDE DEF n, m
      <4> QED  BY <1>4, <3>2, <3>3
    <3> HIDE DEF k, n, m
    <3> QED  BY <3>4, <3>5
  <2> QED  BY <2>1, <2>2
<1>7. /\ z \in Yards /\ z.at = y.at
      /\ Len(z.ops) = m - 1 /\ \A j \in 1..m - 1 : z.ops[j] = y.ops[j]
      /\ Len(z.res) = n - k + 1 /\ \A j \in 1..n - k : z.res[j] = y.res[j]
      /\ z.res[n - k + 1] = sy_apply_op(y.ops[m], y.res[n], IF k = 1 THEN 0 ELSE y.res[n - 1])
  <2>1. k = IF y.ops[Len(y.ops)] = "!" THEN 1 ELSE 2  OBVIOUS
  <2>2. Len(y.res) >= k  BY <1>6
  <2>3. AppliedIn(y, z, k)
    <3> HIDE DEF k
    <3> QED  BY <1>1, <2>1, <2>2, ApplyTopIs
  <2> HIDE DEF k, z
  <2> QED  BY <2>3 DEF AppliedIn
<1> HIDE DEF m, n, z, k
<1>8. Stacked(s, M, z, p, h)
  <2>1. Len(z.ops) <= Len(y.ops)  BY <1>2, <1>7 DEF m
  <2>2. \A j \in 1..Len(z.ops) : z.ops[j] = y.ops[j]  BY <1>7
  <2>3. \A j \in 1..h[Len(z.ops)] : z.res[j] = y.res[j]  BY <1>6, <1>7
  <2> QED  BY <1>1, <1>7, <2>1, <2>2, <2>3, StackedStays
<1>9. Binds(s, a) = sy_op_precedence(op) /\ Binds(s, a) \in Int /\ Binds(s, a) >= q
  BY <1>4, PrecedenceInt DEF Binds, m
<1>10. \A j \in Splits(s, a + 1, i) : Binds(s, a) < Binds(s, j) /\ Binds(s, j) \in Int
  <2> TAKE j \in Splits(s, a + 1, i)
  <2>1. op # "("  BY BinariesAreOther DEF Applied, m
  <2>2. m # 0  BY <1>2
  <2>3. Under(y, m, Binds(s, j))  BY <1>5
  <2>4. sy_op_precedence(op) < Binds(s, j)  BY <2>1, <2>2, <2>3 DEF Under
  <2>5. s[j][1] \in Applied  BY DEF Splits, Applied
  <2> QED  BY <1>9, <2>4, <2>5, PrecedenceInt DEF Binds
<1>11. \A x : Under(z, m - 1, x) <=> Under(y, m - 1, x)
  <2>1. m - 1 = 0 \/ m - 1 \in 1..m - 1  BY <1>2
  <2> QED  BY <1>7, <2>1 DEF Under
<1>12. /\ Expression(s, M, lo, i, z.res[n - k + 1])
       /\ \A j \in Splits(s, lo, i) : Binds(s, j) >= q /\ Under(y, m - 1, Binds(s, j))
  <2>1. CASE op = "!"
    <3>1. op \notin Binary  BY <2>1, BinariesAreOther
    <3>2. lo = a  BY <1>3, <3>1 DEF Placed, m
    <3>3. Splits(s, a + 1, i) = {}
      <4> SUFFICES ASSUME NEW j \in Splits(s, a + 1, i) PROVE FALSE  OBVIOUS
      <4>1. s[j][1] \in Binary  BY DEF Splits
      <4>2. Binds(s, j) < 120 /\ Binds(s, a) = 120  BY <1>9, <2>1, <4>1, Precedences DEF Binds
      <4> QED  BY <1>10, <4>2
    <3>4. Expression(s, M, a, i, Truth(y.res[n] = 0)) /\ Splits(s, a, i) = {}
      <4> HIDE DEF a
      <4>1. s[a][1] = "!" /\ a \in 1..Len(s) /\ Expression(s, M, a + 1, i, y.res[n])  BY <1>4, <1>5, <2>1
      <4> HIDE DEF op
      <4> QED  BY <3>3, <4>1, NotMeans
    <3>5. z.res[n - k + 1] = Truth(y.res[n] = 0)
      <4>1. sy_apply_op(op, y.res[n], IF k = 1 THEN 0 ELSE y.res[n - 1]) = Truth(y.res[n] = 0)  BY <2>1, NotIs
      <4> QED  BY <1>7, <4>1 DEF m
    <3> QED  BY <3>2, <3>4, <3>5
  <2>2. CASE op # "!"
    <3>1. op \in Binary  BY <2>2 DEF Applied, m
    <3>2. /\ Expression(s, M, lo, a - 1, y.res[h[m]])
          /\ \A j \in Splits(s, lo, a - 1) : Binds(s, j) >= Binds(s, a)
          /\ Under(y, m - 1, Binds(s, a))
      BY <1>3, <3>1 DEF Placed, m
    <3>3. k = 2 /\ h[m] = n - 1
      <4>1. k = 2  BY <2>2 DEF k
      <4> HIDE DEF op
      <4> QED  BY <4>1, <1>2, <1>4, <1>5
    <3>4. z.res[n - k + 1] = sy_apply_op(s[a][1], y.res[n], y.res[h[m]])  BY <1>4, <1>7, <3>3 DEF m
    <3>5. /\ Expression(s, M, lo, i, sy_apply_op(s[a][1], y.res[n], y.res[h[m]]))
          /\ \A j \in Splits(s, lo, i) : j \in Splits(s, lo, a - 1) \/ j = a \/ j \in Splits(s, a + 1, i)
      <4>1. \A j \in Splits(s, a + 1, i) : Binds(s, j) > Binds(s, a)
        <5> TAKE j \in Splits(s, a + 1, i)
        <5> QED  BY <1>9, <1>10
      <4>2. s[a][1] \in Binary /\ a \in 1..Len(s)  BY <1>4, <3>1
      <4>3. Expression(s, M, a + 1, i, y.res[n])  BY <1>5
      <4> HIDE DEF lo, a, op
      <4> QED  BY <3>2, <4>1, <4>2, <4>3, OperatorMeans
    <3>6. ASSUME NEW j \in Splits(s, lo, i) PROVE Binds(s, j) >= q /\ Under(y, m - 1, Binds(s, j))
      <4>1. Binds(s, j) >= Binds(s, a) /\ Binds(s, j) \in Int
        <5>1. s[j][1] \in Applied  BY DEF Splits, Applied
        <5>2. Binds(s, j) \in Int  BY <5>1, PrecedenceInt DEF Binds
        <5>3. CASE j \in Splits(s, lo, a - 1)  BY <3>2, <5>2, <5>3
        <5>4. CASE j = a  BY <1>9, <5>4
        <5>5. CASE j \in Splits(s, a + 1, i)
          <6> HIDE DEF a, op
          <6>1. Binds(s, a) < Binds(s, j)  BY <1>10, <5>5
          <6> QED  BY <1>9, <5>2, <6>1
        <5> QED  BY <3>5, <5>3, <5>4, <5>5
      <4>2. Binds(s, j) >= q  BY <1>9, <4>1
      <4>3. m - 1 \in 0..Len(y.ops)  BY <1>2 DEF m
      <4>4. Under(y, m - 1, Binds(s, j))
        <5> HIDE DEF a, op
        <5> QED  BY <1>1, <1>9, <3>2, <4>1, <4>3, UnderMore
      <4> QED  BY <4>2, <4>4
    <3> QED  BY <3>4, <3>5, <3>6
  <2> QED  BY <2>1, <2>2
<1>13. Len(z.res) = h[m - 1] + 1 /\ Len(z.res) <= n /\ n - k + 1 = Len(z.res)
  BY <1>2, <1>6, <1>7
<1>14. AtOperator(s, M, z, p, h, i, q)
  <2> HIDE DEF lo, a, op
  <2>1. Expression(s, M, p[Len(z.ops)] + 1, i, z.res[Len(z.res)])  BY <1>7, <1>12, <1>13 DEF lo
  <2>2. \A j \in Splits(s, p[Len(z.ops)] + 1, i) : Binds(s, j) >= q /\ Under(z, Len(z.ops), Binds(s, j))
    BY <1>7, <1>11, <1>12 DEF lo
  <2>3. Len(z.res) = h[Len(z.ops)] + 1  BY <1>7, <1>13
  <2> QED  BY <1>1, <1>7, <1>8, <2>1, <2>2, <2>3 DEF AtOperator
<1> QED  BY <1>7, <1>13, <1>14 DEF z, m, n

\* The top of a stack.
LEMMA LastIs == ASSUME NEW S, NEW t \in Seq(S), t # <<>> PROVE Len(t) > 0 /\ Len(t) \in 1..Len(t) /\ Last(t) = t[Len(t)] /\ Last(t) \in S
BY DEF Last

\* No step leaves the yards there are.
LEMMA ErrorIs == ASSUME NEW y \in Yards, NEW what \in Ends PROVE Error(y, what) \in Yards /\ Error(y, what).at = what
BY DEF Error, Yards

LEMMA ApplyTopInYards ==
  ASSUME NEW y \in Yards, y.ops # <<>>, Last(y.ops) \in Applied
  PROVE  ApplyTop(y) \in Yards
<1> DEFINE k == IF y.ops[Len(y.ops)] = "!" THEN 1 ELSE 2
<1>1. Len(y.ops) > 0 /\ Last(y.ops) = y.ops[Len(y.ops)] /\ Len(y.res) \in Nat  BY YardIs, LastIs
<1>2. k \in Int /\ k = IF y.ops[Len(y.ops)] = "!" THEN 1 ELSE 2  OBVIOUS
<1>3. CASE Len(y.res) >= k
  <2>1. AppliedIn(y, ApplyTop(y), k)
    <3> HIDE DEF k
    <3> QED  BY <1>1, <1>2, <1>3, ApplyTopIs
  <2> QED  BY <2>1 DEF AppliedIn
<1>4. CASE ~(Len(y.res) >= k)
  <2>1. Len(y.res) < k  BY <1>1, <1>2, <1>4
  <2>2. ApplyTop(y) = Error(y, "not enough input")
    <3>1. k = IF Last(y.ops) = "!" THEN 1 ELSE 2  BY <1>1
    <3> QED  BY <2>1, <3>1, Zenon DEF ApplyTop
  <2>3. "not enough input" \in Ends  BY DEF Ends
  <2> QED  BY <2>2, <2>3, ErrorIs
<1> QED  BY <1>3, <1>4

\* Once around the loop.
Lower(z, those) == IF Going(z) /\ z.ops # <<>> /\ Last(z.ops) \in those THEN ApplyTop(z) ELSE z

\* What Reduce makes of a yard, turn by turn.
LEMMA ReduceIs ==
  ASSUME NEW y \in Yards, NEW those \in SUBSET Applied
  PROVE  \E f \in [0..Len(y.ops) -> Yards] :
           /\ f[0] = y /\ \A i \in 1..Len(y.ops) : f[i] = Lower(f[i - 1], those)
           /\ Reduce(y, those) = f[Len(y.ops)]
<1> DEFINE n == Len(y.ops)
           g == [x \in Yards \X (1..n) |-> Lower(x[1], those)]
           Down[i \in 0..n] == IF i = 0 THEN y
                               ELSE LET z == Down[i - 1] IN
                                    IF Going(z) /\ z.ops # <<>> /\ Last(z.ops) \in those THEN ApplyTop(z) ELSE z
<1>0. n \in Nat  BY YardIs
<1>1. \A z \in Yards : Lower(z, those) \in Yards  BY ApplyTopInYards DEF Lower
<1>2. g \in [Yards \X (1..n) -> Yards]  BY <1>1
<1>3. \A z \in Yards, i \in 1..n : g[<<z, i>>] = Lower(z, those)  OBVIOUS
<1>4. Reduce(y, those) = Down[n]  BY Zenon DEF Reduce
<1> HIDE DEF g, Down
<1>5. PICK f : Computes(f, Yards, y, n, g)
  <2> HIDE DEF n
  <2> QED  BY <1>0, <1>2, Recursion
<1>6. f = [i \in 0..n |-> IF i = 0 THEN y ELSE Lower(f[i - 1], those)]
  <2>1. \A i \in 0..n : f[i] = IF i = 0 THEN y ELSE Lower(f[i - 1], those)
    <3> TAKE i \in 0..n
    <3>1. i # 0 => i \in 1..n /\ i - 1 \in 0..n  BY <1>0
    <3>2. i # 0 => f[i] = g[<<f[i - 1], i>>] /\ f[i - 1] \in Yards  BY <3>1, <1>5 DEF Computes
    <3> QED  BY <3>1, <3>2, <1>3, <1>5 DEF Computes
  <2>2. f = [i \in 0..n |-> f[i]]  BY <1>5 DEF Computes
  <2> QED  BY <2>1, <2>2, Zenon
<1>7. Down = [i \in 0..n |-> IF i = 0 THEN y ELSE Lower(Down[i - 1], those)]
  BY <1>6, Zenon DEF Down, Lower
<1>8. Down[0] = y /\ \A i \in 1..n : Down[i] = Lower(Down[i - 1], those)
  <2>1. \A i \in 0..n : Down[i] = IF i = 0 THEN y ELSE Lower(Down[i - 1], those)  BY <1>7
  <2>2. 0 \in 0..n /\ \A i \in 1..n : i \in 0..n /\ i # 0  BY <1>0
  <2> QED  BY <2>1, <2>2
<1>9. \A i \in 0..n : Down[i] \in Yards
  <2> DEFINE T == {j \in Nat : j <= n => Down[j] \in Yards}
  <2>1. 0 \in T  BY <1>8
  <2>2. ASSUME NEW j \in Nat, j \in T PROVE j + 1 \in T
    <3> SUFFICES ASSUME j + 1 <= n PROVE Down[j + 1] \in Yards  OBVIOUS
    <3>1. j + 1 \in 1..n /\ j + 1 - 1 = j /\ j <= n  BY <1>0
    <3>2. Down[j + 1] = Lower(Down[j], those) /\ Down[j] \in Yards  BY <3>1, <2>2, <1>8
    <3> QED  BY <3>2, <1>1
  <2> HIDE DEF T
  <2>3. Nat \subseteq T  BY <2>1, <2>2, Induction
  <2> QED  BY <2>3, <1>0 DEF T
<1>10. Down \in [0..n -> Yards]  BY <1>7, <1>9
<1> QED  BY <1>4, <1>8, <1>10

\* The operators that bind as tightly as q are applied, those that remain do not.
LEMMA ReduceKeeps ==
  ASSUME NEW s \in Seq(CondToken), NEW M, Says(s, M), NEW y, NEW p, NEW h, NEW i \in Nat, NEW q \in Int,
         AtOperator(s, M, y, p, h, i, q),
         NEW those, \A o : o \in those <=> o \in Applied /\ sy_op_precedence(o) >= q
  PROVE  /\ AtOperator(s, M, Reduce(y, those), p, h, i, q)
         /\ Len(Reduce(y, those).ops) <= Len(y.ops) /\ Len(Reduce(y, those).res) <= Len(y.res)
         /\ Reduce(y, those).ops = <<>> \/ Last(Reduce(y, those).ops) \notin those
<1> DEFINE n == Len(y.ops)
           Stops(z) == z.ops = <<>> \/ Last(z.ops) \notin those
<1>1. y \in Yards /\ those \in SUBSET Applied  BY DEF AtOperator, Stacked
<1>2. n \in Nat /\ Len(y.res) \in Nat  BY <1>1, YardIs
<1>3. PICK f \in [0..n -> Yards] :
           /\ f[0] = y /\ \A j \in 1..n : f[j] = Lower(f[j - 1], those)
           /\ Reduce(y, those) = f[n]
  BY <1>1, ReduceIs
<1> DEFINE Q(z, j) == /\ AtOperator(s, M, z, p, h, i, q)
                      /\ Len(z.res) <= Len(y.res)
                      /\ Len(z.ops) <= n - j \/ (Len(z.ops) <= n /\ Stops(z))
           T == {j \in Nat : j <= n => Q(f[j], j)}
<1>4. 0 \in T
  <2>1. Q(f[0], 0)  BY <1>2, <1>3
  <2> QED  BY <2>1
<1>5. ASSUME NEW j \in Nat, j \in T PROVE j + 1 \in T
  <2> SUFFICES ASSUME j + 1 <= n PROVE Q(f[j + 1], j + 1)  OBVIOUS
  <2> DEFINE z == f[j]
  <2>1. j \in 0..n /\ j + 1 \in 1..n /\ j + 1 - 1 = j  BY <1>2
  <2>2. f[j + 1] = Lower(z, those) /\ z \in Yards /\ Q(z, j)
    <3>1. f[j + 1] = Lower(f[j + 1 - 1], those)  BY <2>1, <1>3
    <3>2. j <= n  BY <2>1
    <3>3. Q(f[j], j)
      <4> HIDE DEF Q, n
      <4> QED  BY <3>2, <1>5
    <3> QED  BY <3>1, <3>3, <2>1, <1>3
  <2> HIDE DEF z
  <2>3. Going(z)  BY <2>2 DEF AtOperator, Going
  <2>4. Len(z.ops) \in Nat /\ Len(z.res) \in Nat /\ z.ops \in Seq(Pushed)  BY <2>2, YardIs
  <2>5. CASE Stops(z)
    <3>1. f[j + 1] = z  BY <2>2, <2>5 DEF Lower
    <3>2. Len(z.ops) <= n
      <4> HIDE DEF n, Stops
      <4> QED  BY <2>2, <2>4, <2>1, <1>2
    <3> QED  BY <3>1, <3>2, <2>2, <2>5
  <2>6. CASE ~Stops(z)
    <3>1. f[j + 1] = ApplyTop(z)  BY <2>2, <2>3, <2>6 DEF Lower
    <3>2. Len(z.ops) > 0 /\ z.ops[Len(z.ops)] \in Applied /\ sy_op_precedence(z.ops[Len(z.ops)]) >= q
      <4>1. z.ops # <<>> /\ Last(z.ops) \in those  BY <2>6
      <4> QED  BY <4>1, <2>4, LastIs
    <3>3. /\ AtOperator(s, M, ApplyTop(z), p, h, i, q)
          /\ Len(ApplyTop(z).ops) = Len(z.ops) - 1 /\ Len(ApplyTop(z).res) <= Len(z.res)
      BY <2>2, <3>2, ApplyTopKeeps
    <3>4. Len(ApplyTop(z).res) \in Nat
      <4>1. ApplyTop(z) \in Yards  BY <3>3 DEF AtOperator, Stacked
      <4> QED  BY <4>1, YardIs
    <3>5. Len(ApplyTop(z).ops) <= n - (j + 1) /\ Len(ApplyTop(z).res) <= Len(y.res)
      <4>1. Len(z.ops) <= n - j /\ Len(z.res) <= Len(y.res)  BY <2>2, <2>6
      <4> HIDE DEF n
      <4> QED  BY <4>1, <3>3, <3>4, <2>4, <2>1, <1>2
    <3> QED  BY <3>1, <3>3, <3>5
  <2> QED  BY <2>5, <2>6
<1>6. Q(f[n], n)
  <2> HIDE DEF T, Q
  <2>1. Nat \subseteq T  BY <1>4, <1>5, Induction
  <2> QED  BY <2>1, <1>2 DEF T
<1> DEFINE z == f[n]
<1>7. Len(z.ops) \in Nat /\ z.ops \in Seq(Pushed)
  <2>1. z \in Yards  BY <1>2, <1>3
  <2> QED  BY <2>1, YardIs
<1>8. Len(z.ops) <= n /\ Stops(z)
  <2> HIDE DEF z, n
  <2>1. CASE Len(z.ops) <= n - n
    <3>1. Len(z.ops) = 0  BY <2>1, <1>2, <1>7
    <3>2. z.ops = <<>>  BY <3>1, <1>7
    <3> QED  BY <3>1, <3>2, <1>2
  <2> QED  BY <2>1, <1>6 DEF z
<1> QED  BY <1>3, <1>6, <1>8

-----------------------------------------------------------------------------
(* The cases of the code                                                   *)

\* The cases of a token.
LEMMA TokenCases ==
  ASSUME NEW y, NEW t
  PROVE  /\ ~Going(y) => Token(y, t) = y
         /\ y.at = "operand" /\ t[1] = "num" => Token(y, t) = PushRes(y, t[2])
         /\ y.at = "operand" /\ t[1] \in {"!", "("} => Token(y, t) = PushOp(y, t[1])
         /\ y.at = "operator" /\ t[1] \in Binary => Token(y, t) = Operator(y, t[1])
         /\ y.at = "operator" /\ t[1] = ")" => Token(y, t) = Close(y)
         /\ y.at = "operand" /\ t[1] \notin {"num", "!", "("} => Token(y, t) = Error(y, "syntax")
         /\ y.at = "operator" /\ t[1] \notin Binary \cup {")"} => Token(y, t) = Error(y, "syntax")
<1>1. (y.at = "operand" => Going(y) /\ y.at # "operator") /\ (y.at = "operator" => Going(y) /\ y.at # "operand")
  BY DEF Going
<1>2. "num" # "!" /\ "num" # "(" /\ ")" \notin Binary  BY DEF Binary
<1>3. ~Going(y) => Token(y, t) = y  BY <1>1, Zenon DEF Token
<1>4. y.at = "operand" /\ t[1] = "num" => Token(y, t) = PushRes(y, t[2])  BY <1>1, <1>2, Zenon DEF Token
<1>5. y.at = "operand" /\ t[1] \in {"!", "("} => Token(y, t) = PushOp(y, t[1])  BY <1>1, <1>2, Zenon DEF Token
<1>6. y.at = "operator" /\ t[1] \in Binary => Token(y, t) = Operator(y, t[1])  BY <1>1, <1>2, Zenon DEF Token
<1>7. y.at = "operator" /\ t[1] = ")" => Token(y, t) = Close(y)  BY <1>1, <1>2, Zenon DEF Token
<1>8. y.at = "operand" /\ t[1] \notin {"num", "!", "("} => Token(y, t) = Error(y, "syntax")
  BY <1>1, <1>2, Zenon DEF Token
<1>9. y.at = "operator" /\ t[1] \notin Binary \cup {")"} => Token(y, t) = Error(y, "syntax")
  BY <1>1, <1>2, Zenon DEF Token
<1> QED  BY <1>3, <1>4, <1>5, <1>6, <1>7, <1>8, <1>9

LEMMA CloseCases ==
  ASSUME NEW y
  PROVE  LET z == Reduce(y, Applied)
         IN  /\ ~Going(z) => Close(y) = z
             /\ Going(z) /\ z.ops = <<>> => Close(y) = Error(z, "unbalanced")
             /\ Going(z) /\ z.ops # <<>> => Close(y) = [z EXCEPT !.ops = Front(z.ops)]
<1> DEFINE z == Reduce(y, Applied)
<1>1. Close(y) = CASE ~Going(z) -> z
                  [] Going(z) /\ z.ops = <<>> -> Error(z, "unbalanced")
                  [] OTHER -> [z EXCEPT !.ops = Front(z.ops)]
  BY DEF Close
<1> HIDE DEF z
<1>2. ~Going(z) => Close(y) = z  BY <1>1, Zenon
<1>3. Going(z) /\ z.ops = <<>> => Close(y) = Error(z, "unbalanced")  BY <1>1, Zenon
<1>4. Going(z) /\ z.ops # <<>> => Close(y) = [z EXCEPT !.ops = Front(z.ops)]  BY <1>1, Zenon
<1> QED  BY <1>2, <1>3, <1>4 DEF z

LEMMA FinishCases ==
  ASSUME NEW y
  PROVE  LET z == Reduce(y, Applied)
         IN  /\ ~Going(y) => Finish(y) = y
             /\ y.at = "operand" => Finish(y) = Error(y, "syntax")
             /\ y.at = "operator" /\ ~Going(z) => Finish(y) = z
             /\ y.at = "operator" /\ Going(z) /\ z.ops # <<>> => Finish(y) = Error(z, "unbalanced")
             /\ y.at = "operator" /\ Going(z) /\ z.ops = <<>>
                 => Finish(y) = Error(z, IF Len(z.res) > 1 THEN "invalid" ELSE "done")
<1> DEFINE z == Reduce(y, Applied)
           last == CASE ~Going(z) -> z
                     [] Going(z) /\ z.ops # <<>> -> Error(z, "unbalanced")
                     [] OTHER -> Error(z, IF Len(z.res) > 1 THEN "invalid" ELSE "done")
<1>0. (y.at = "operand" => Going(y) /\ y.at # "operator") /\ (y.at = "operator" => Going(y) /\ y.at # "operand")
  BY DEF Going
<1>1. Finish(y) = CASE ~Going(y) -> y
                    [] y.at = "operand" -> Error(y, "syntax")
                    [] y.at = "operator" -> last
  BY Zenon DEF Finish
<1>2. /\ ~Going(z) => last = z
      /\ Going(z) /\ z.ops # <<>> => last = Error(z, "unbalanced")
      /\ Going(z) /\ z.ops = <<>> => last = Error(z, IF Len(z.res) > 1 THEN "invalid" ELSE "done")
  <2> HIDE DEF z
  <2>1. ~Going(z) => last = z  BY Zenon
  <2>2. Going(z) /\ z.ops # <<>> => last = Error(z, "unbalanced")  BY Zenon
  <2>3. Going(z) /\ z.ops = <<>> => last = Error(z, IF Len(z.res) > 1 THEN "invalid" ELSE "done")  BY Zenon
  <2> QED  BY <2>1, <2>2, <2>3, Zenon
<1> HIDE DEF z, last
<1>3. ~Going(y) => Finish(y) = y  BY <1>0, <1>1, Zenon
<1>4. y.at = "operand" => Finish(y) = Error(y, "syntax")  BY <1>0, <1>1, Zenon
<1>5. y.at = "operator" => Finish(y) = last  BY <1>0, <1>1, Zenon
<1> QED  BY <1>2, <1>3, <1>4, <1>5, Zenon DEF z

\* The steps of the scanner lead from yards to yards.
LEMMA ReduceInYards == ASSUME NEW y \in Yards, NEW those \in SUBSET Applied PROVE Reduce(y, those) \in Yards
<1>1. Len(y.ops) \in Nat  BY YardIs
<1>2. Len(y.ops) \in 0..Len(y.ops)  BY <1>1
<1> QED  BY <1>2, ReduceIs

LEMMA PushResIs ==
  ASSUME NEW y \in Yards, NEW v \in Int
  PROVE  /\ PushRes(y, v) \in Yards
         /\ IF Len(y.res) >= MAX_CONDITIONS
            THEN PushRes(y, v) = Error(y, "too complex")
            ELSE LET z == PushRes(y, v)
                 IN  z.res = Append(y.res, v) /\ z.ops = y.ops /\ z.at = "operator"
<1>1. Append(y.res, v) \in Seq(Int)  BY YardIs, AppendIs
<1>2. Error(y, "too complex") \in Yards  BY ErrorIs DEF Ends
<1>3. CASE Len(y.res) >= MAX_CONDITIONS  BY <1>2, <1>3 DEF PushRes
<1>4. CASE ~(Len(y.res) >= MAX_CONDITIONS)  BY <1>1, <1>4 DEF PushRes, Yards, Ends
<1> QED  BY <1>3, <1>4

LEMMA PushOpIs ==
  ASSUME NEW y \in Yards, NEW op \in Pushed
  PROVE  /\ PushOp(y, op) \in Yards
         /\ IF Len(y.ops) >= MAX_CONDITIONS
            THEN PushOp(y, op) = Error(y, "too complex")
            ELSE LET z == PushOp(y, op)
                 IN  z.ops = Append(y.ops, op) /\ z.res = y.res /\ z.at = "operand"
<1>1. Append(y.ops, op) \in Seq(Pushed)  BY YardIs, AppendIs
<1>2. Error(y, "too complex") \in Yards  BY ErrorIs DEF Ends
<1>3. CASE Len(y.ops) >= MAX_CONDITIONS  BY <1>2, <1>3 DEF PushOp
<1>4. CASE ~(Len(y.ops) >= MAX_CONDITIONS)  BY <1>1, <1>4 DEF PushOp, Yards, Ends
<1> QED  BY <1>3, <1>4

LEMMA TokenInYards == ASSUME NEW y \in Yards, NEW t, IsToken(t) PROVE Token(y, t) \in Yards
<1>1. y.at \in {"operand", "operator"} \/ ~Going(y)  BY DEF Going
<1>2. Error(y, "syntax") \in Yards  BY ErrorIs DEF Ends
<1>3. CASE ~Going(y)  BY <1>3, TokenCases
<1>4. CASE y.at = "operand" /\ t[1] = "num"
  <2>1. t[2] \in Int  BY <1>4 DEF IsToken
  <2>2. Token(y, t) = PushRes(y, t[2])  BY <1>4, TokenCases, Zenon
  <2>3. PushRes(y, t[2]) \in Yards  BY <2>1, PushResIs
  <2> QED  BY <2>2, <2>3
<1>5. CASE y.at = "operand" /\ t[1] \in {"!", "("}
  <2>1. t[1] \in Pushed  BY <1>5 DEF Pushed, Applied
  <2>2. Token(y, t) = PushOp(y, t[1])  BY <1>5, TokenCases, Zenon
  <2>3. PushOp(y, t[1]) \in Yards  BY <2>1, PushOpIs
  <2> QED  BY <2>2, <2>3
<1>6. CASE y.at = "operator" /\ t[1] \in Binary
  <2> DEFINE those == {o \in Applied : sy_op_precedence(o) >= sy_op_precedence(t[1])}
             z == Reduce(y, those)
  <2>1. z \in Yards  BY ReduceInYards
  <2>2. Operator(y, t[1]) = IF Going(z) THEN PushOp(z, t[1]) ELSE z  BY DEF Operator
  <2> HIDE DEF z
  <2>3. t[1] \in Pushed  BY <1>6 DEF Pushed, Applied
  <2>4. PushOp(z, t[1]) \in Yards  BY <2>1, <2>3, PushOpIs
  <2> QED  BY <1>6, <2>1, <2>2, <2>4, TokenCases
<1>7. CASE y.at = "operator" /\ t[1] = ")"
  <2> DEFINE z == Reduce(y, Applied)
  <2>1. z \in Yards  BY ReduceInYards
  <2>2. Token(y, t) \in {z, Error(z, "unbalanced")} \/ (z.ops # <<>> /\ Token(y, t) = [z EXCEPT !.ops = Front(z.ops)])
    BY <1>7, TokenCases, CloseCases
  <2> HIDE DEF z
  <2>3. Error(z, "unbalanced") \in Yards  BY <2>1, ErrorIs DEF Ends
  <2>4. z.ops # <<>> => Front(z.ops) \in Seq(Pushed)
    <3> SUFFICES ASSUME z.ops # <<>> PROVE Front(z.ops) \in Seq(Pushed)  OBVIOUS
    <3>1. z.ops \in Seq(Pushed) /\ Len(z.ops) > 0 /\ Len(z.ops) \in Nat  BY <2>1, YardIs, LastIs
    <3>2. Len(z.ops) - 1 \in 0..Len(z.ops)  BY <3>1
    <3> QED  BY <3>1, <3>2, BeginningIs DEF Front
  <2>5. z.ops # <<>> => [z EXCEPT !.ops = Front(z.ops)] \in Yards  BY <2>1, <2>4 DEF Yards
  <2> QED  BY <2>1, <2>2, <2>3, <2>5
<1>8. CASE y.at = "operand" /\ t[1] \notin {"num", "!", "("}  BY <1>2, <1>8, TokenCases
<1>9. CASE y.at = "operator" /\ t[1] \notin Binary \cup {")"}  BY <1>2, <1>9, TokenCases
<1> QED  BY <1>1, <1>3, <1>4, <1>5, <1>6, <1>7, <1>8, <1>9

\* The yard after each token.
Scans(s, f) == /\ f \in [0..Len(s) -> Yards] /\ f[0] = Empty
               /\ \A i \in 1..Len(s) : f[i] = Token(f[i - 1], s[i])

\* The scanner starts with empty stacks.
LEMMA EmptyIs == Empty \in Yards /\ Empty.res = <<>> /\ Empty.ops = <<>> /\ Empty.at = "operand"
BY DEF Empty, Yards, Ends

\* Scan, by its recurrence.
LEMMA ScanIs ==
  ASSUME NEW s \in Seq(CondToken)
  PROVE  \E f : Scans(s, f) /\ Scan(s) = f[Len(s)]
<1> DEFINE n == Len(s)
           g == [x \in Yards \X (1..n) |-> Token(x[1], s[x[2]])]
           Upto[i \in 0..n] == IF i = 0 THEN Empty ELSE Token(Upto[i - 1], s[i])
<1>0. n \in Nat /\ Empty \in Yards  BY EmptyIs
<1>1. \A z \in Yards, i \in 1..n : Token(z, s[i]) \in Yards  BY TokenInYards, TokenIs
<1>2. g \in [Yards \X (1..n) -> Yards]  BY <1>1
<1>3. \A z \in Yards, i \in 1..n : g[<<z, i>>] = Token(z, s[i])  OBVIOUS
<1>4. Scan(s) = Upto[n]  BY Zenon DEF Scan
<1> HIDE DEF g, Upto
<1>5. PICK f : Computes(f, Yards, Empty, n, g)
  <2> HIDE DEF n
  <2> QED  BY <1>0, <1>2, Recursion
<1>6. f = [i \in 0..n |-> IF i = 0 THEN Empty ELSE Token(f[i - 1], s[i])]
  <2>1. \A i \in 0..n : f[i] = IF i = 0 THEN Empty ELSE Token(f[i - 1], s[i])
    <3> TAKE i \in 0..n
    <3>1. i # 0 => i \in 1..n /\ i - 1 \in 0..n  BY <1>0
    <3>2. i # 0 => f[i] = g[<<f[i - 1], i>>] /\ f[i - 1] \in Yards  BY <3>1, <1>5 DEF Computes
    <3> QED  BY <3>1, <3>2, <1>3, <1>5 DEF Computes
  <2>2. f = [i \in 0..n |-> f[i]]  BY <1>5 DEF Computes
  <2> QED  BY <2>1, <2>2, Zenon
<1>7. Upto = [i \in 0..n |-> IF i = 0 THEN Empty ELSE Token(Upto[i - 1], s[i])]
  BY <1>6, Zenon DEF Upto
<1>8. Upto[0] = Empty /\ \A i \in 1..n : Upto[i] = Token(Upto[i - 1], s[i])
  <2>1. \A i \in 0..n : Upto[i] = IF i = 0 THEN Empty ELSE Token(Upto[i - 1], s[i])  BY <1>7
  <2>2. 0 \in 0..n /\ \A i \in 1..n : i \in 0..n /\ i # 0  BY <1>0
  <2> QED  BY <2>1, <2>2
<1>9. \A i \in 0..n : Upto[i] \in Yards
  <2> DEFINE T == {j \in Nat : j <= n => Upto[j] \in Yards}
  <2>1. 0 \in T  BY <1>0, <1>8
  <2>2. ASSUME NEW j \in Nat, j \in T PROVE j + 1 \in T
    <3> SUFFICES ASSUME j + 1 <= n PROVE Upto[j + 1] \in Yards  OBVIOUS
    <3>1. j + 1 \in 1..n /\ j + 1 - 1 = j /\ j <= n  BY <1>0
    <3>2. Upto[j + 1] = Token(Upto[j], s[j + 1]) /\ Upto[j] \in Yards  BY <3>1, <2>2, <1>8
    <3> QED  BY <3>1, <3>2, <1>1
  <2> HIDE DEF T
  <2>3. Nat \subseteq T  BY <2>1, <2>2, Induction
  <2> QED  BY <2>3, <1>0 DEF T
<1>10. Upto \in [0..n -> Yards]  BY <1>7, <1>9
<1> QED  BY <1>4, <1>8, <1>10 DEF Scans

-----------------------------------------------------------------------------
(* What only a text that means something is like                           *)

\* u may stand behind t.
Follows(t, u) == IF t[1] \in {"num", ")"} THEN u[1] \in Binary \cup {")"} ELSE u[1] \in {"num", "!", "("}

\* Parentheses close what was opened, and each token may stand where it does.
WellFormed(s, lo, hi) ==
  /\ \A k \in lo..hi : Level(s)[k] >= Level(s)[lo - 1]
  /\ Level(s)[hi] = Level(s)[lo - 1]
  /\ s[lo][1] \in {"num", "!", "("} /\ s[hi][1] \in {"num", ")"}
  /\ \A k \in lo..hi - 1 : Follows(s[k], s[k + 1])

\* How the depth changes at each token.
LEMMA LevelStep ==
  ASSUME NEW s \in Seq(CondToken), NEW k \in 1..Len(s)
  PROVE  /\ Level(s)[k] \in Int /\ Level(s)[k - 1] \in Int
         /\ s[k][1] = "(" => Level(s)[k] = Level(s)[k - 1] + 1
         /\ s[k][1] = ")" => Level(s)[k] = Level(s)[k - 1] - 1
         /\ s[k][1] \notin {"(", ")"} => Level(s)[k] = Level(s)[k - 1]
<1>1. k - 1 \in 0..Len(s) /\ k \in 0..Len(s)  OBVIOUS
<1>2. Level(s)[k] \in Int /\ Level(s)[k - 1] \in Int /\ Level(s)[k] = Level(s)[k - 1] + Deeper(s[k])
  BY <1>1, LevelIs
<1>3. CASE s[k][1] = "("  BY <1>2, <1>3 DEF Deeper
<1>4. CASE s[k][1] = ")"  BY <1>2, <1>4 DEF Deeper
<1>5. CASE s[k][1] \notin {"(", ")"}  BY <1>2, <1>5 DEF Deeper
<1> QED  BY <1>2, <1>3, <1>4, <1>5

\* If shorter parts that mean something are well formed, this one is.
LEMMA WellFormedStep ==
  ASSUME NEW s \in Seq(CondToken), NEW M, Says(s, M), NEW lo \in 1..Len(s), NEW hi \in 1..Len(s), lo <= hi,
         Of(M, lo, hi) # {},
         \A a, b \in 1..Len(s) : a <= b /\ b - a < hi - lo /\ Of(M, a, b) # {} => WellFormed(s, a, b)
  PROVE  WellFormed(s, lo, hi)
<1> DEFINE S  == Splits(s, lo, hi)
           at == SplitsAt(s, S)
<1>1. MeaningOf(s, M, lo, hi) # {}  BY DEF Says
<1>2. CASE S # {}
  <2>1. at \in lo..hi /\ s[at][1] \in Binary /\ Level(s)[at] = Level(s)[lo - 1]
    <3>1. S \in SUBSET (1..Len(s)) /\ \A i \in S : s[i][1] \in Binary
      <4>1. lo..hi \subseteq 1..Len(s)  OBVIOUS
      <4> QED  BY <4>1 DEF Splits
    <3>2. Len(s) \in Nat  OBVIOUS
    <3>3. at \in S
      <4> HIDE DEF S
      <4> QED  BY <1>2, <3>1, <3>2, SplitsAtIs
    <3> HIDE DEF at
    <3> QED  BY <3>3 DEF Splits
  <2>2. MeaningOf(s, M, lo, hi)
          = {sy_apply_op(s[at][1], v[1], v[2]) : v \in Of(M, at + 1, hi) \X Of(M, lo, at - 1)}
    BY <1>2, Zenon DEF MeaningOf
  <2> HIDE DEF at, S
  <2>3. Of(M, at + 1, hi) # {} /\ Of(M, lo, at - 1) # {}
    <3>1. PICK v : v \in Of(M, at + 1, hi) \X Of(M, lo, at - 1)  BY <1>1, <2>2
    <3> QED  BY <3>1
  <2>4. at + 1 <= hi /\ lo <= at - 1  BY <2>3 DEF Of
  <2>5. WellFormed(s, lo, at - 1)
    <3>1. at - 1 \in 1..Len(s) /\ lo <= at - 1 /\ (at - 1) - lo < hi - lo  BY <2>1, <2>4
    <3> QED  BY <2>3, <3>1
  <2>6. WellFormed(s, at + 1, hi)
    <3>1. at + 1 \in 1..Len(s) /\ at + 1 <= hi /\ hi - (at + 1) < hi - lo  BY <2>1, <2>4
    <3> QED  BY <2>3, <3>1
  <2>7. at + 1 - 1 = at /\ at - 1 + 1 = at  BY <2>1
  <2>8. \A k \in lo..hi : Level(s)[k] >= Level(s)[lo - 1]
    <3> TAKE k \in lo..hi
    <3>1. k \in lo..at - 1 \/ k = at \/ k \in at + 1..hi  BY <2>1
    <3>2. CASE k \in lo..at - 1  BY <3>2, <2>5 DEF WellFormed
    <3>3. CASE k = at
      <4>1. Level(s)[lo - 1] \in Int  BY LevelStep
      <4> QED  BY <3>3, <4>1, <2>1
    <3>4. CASE k \in at + 1..hi  BY <3>4, <2>1, <2>6, <2>7 DEF WellFormed
    <3> QED  BY <3>1, <3>2, <3>3, <3>4
  <2>9. \A k \in lo..hi - 1 : Follows(s[k], s[k + 1])
    <3> TAKE k \in lo..hi - 1
    <3>1. k \in lo..(at - 1) - 1 \/ k = at - 1 \/ k = at \/ k \in at + 1..hi - 1  BY <2>1
    <3>2. CASE k \in lo..(at - 1) - 1  BY <3>2, <2>5 DEF WellFormed
    <3>3. CASE k = at - 1
      <4>1. s[at - 1][1] \in {"num", ")"}  BY <2>5 DEF WellFormed
      <4> QED  BY <3>3, <4>1, <2>1, <2>7 DEF Follows
    <3>4. CASE k = at
      <4>1. s[at + 1][1] \in {"num", "!", "("}  BY <2>6 DEF WellFormed
      <4>2. s[at][1] \notin {"num", ")"}  BY <2>1, BinariesAreOther
      <4> QED  BY <3>4, <4>1, <4>2 DEF Follows
    <3>5. CASE k \in at + 1..hi - 1  BY <3>5, <2>6 DEF WellFormed
    <3> QED  BY <3>1, <3>2, <3>3, <3>4, <3>5
  <2>10. Level(s)[hi] = Level(s)[lo - 1]  BY <2>1, <2>6, <2>7 DEF WellFormed
  <2>11. s[lo][1] \in {"num", "!", "("} /\ s[hi][1] \in {"num", ")"}  BY <2>5, <2>6 DEF WellFormed
  <2> QED  BY <2>8, <2>9, <2>10, <2>11 DEF WellFormed
<1>3. CASE S = {} /\ s[lo][1] = "num" /\ lo = hi
  <2>1. Level(s)[lo] = Level(s)[lo - 1] /\ Level(s)[lo] \in Int  BY <1>3, LevelStep
  <2>2. \A k \in lo..hi : k = lo  BY <1>3
  <2> QED  BY <1>3, <2>1, <2>2 DEF WellFormed
<1>4. CASE S = {} /\ s[lo][1] = "!"
  <2>1. Of(M, lo + 1, hi) # {}
    <3>1. MeaningOf(s, M, lo, hi) = {Truth(v = 0) : v \in Of(M, lo + 1, hi)}  BY <1>4 DEF MeaningOf
    <3> QED  BY <1>1, <3>1
  <2>2. lo + 1 <= hi  BY <2>1 DEF Of
  <2>3. WellFormed(s, lo + 1, hi)
    <3>1. lo + 1 \in 1..Len(s) /\ hi - (lo + 1) < hi - lo  BY <2>2
    <3> QED  BY <2>1, <2>2, <3>1
  <2>4. Level(s)[lo] = Level(s)[lo - 1] /\ Level(s)[lo] \in Int  BY <1>4, LevelStep
  <2>5. lo + 1 - 1 = lo  OBVIOUS
  <2>6. \A k \in lo..hi : Level(s)[k] >= Level(s)[lo - 1]
    <3> TAKE k \in lo..hi
    <3>1. k = lo \/ k \in lo + 1..hi  OBVIOUS
    <3> QED  BY <3>1, <2>3, <2>4, <2>5 DEF WellFormed
  <2>7. \A k \in lo..hi - 1 : Follows(s[k], s[k + 1])
    <3> TAKE k \in lo..hi - 1
    <3>1. k = lo \/ k \in lo + 1..hi - 1  OBVIOUS
    <3>2. Follows(s[lo], s[lo + 1])  BY <1>4, <2>3 DEF WellFormed, Follows
    <3> QED  BY <3>1, <3>2, <2>3 DEF WellFormed
  <2> QED  BY <1>4, <2>3, <2>4, <2>5, <2>6, <2>7 DEF WellFormed
<1>5. CASE S = {} /\ s[lo][1] = "(" /\ s[hi][1] = ")" /\ Level(s)[hi] = Level(s)[lo - 1]
  <2>1. Of(M, lo + 1, hi - 1) # {}
    <3>1. MeaningOf(s, M, lo, hi) = Of(M, lo + 1, hi - 1)  BY <1>5 DEF MeaningOf
    <3> QED  BY <1>1, <3>1
  <2>2. lo + 1 <= hi - 1  BY <2>1 DEF Of
  <2>3. WellFormed(s, lo + 1, hi - 1)
    <3>1. lo + 1 \in 1..Len(s) /\ hi - 1 \in 1..Len(s) /\ (hi - 1) - (lo + 1) < hi - lo  BY <2>2
    <3> QED  BY <2>1, <2>2, <3>1
  <2>4. Level(s)[lo] = Level(s)[lo - 1] + 1 /\ Level(s)[lo - 1] \in Int  BY <1>5, LevelStep
  <2>5. lo + 1 - 1 = lo /\ hi - 1 + 1 = hi  OBVIOUS
  <2>6. \A k \in lo..hi : Level(s)[k] >= Level(s)[lo - 1]
    <3> TAKE k \in lo..hi
    <3>1. k = lo \/ k \in lo + 1..hi - 1 \/ k = hi  OBVIOUS
    <3>2. CASE k = lo  BY <2>4, <3>2
    <3>3. CASE k \in lo + 1..hi - 1
      <4>1. Level(s)[k] >= Level(s)[lo]  BY <2>3, <2>5, <3>3 DEF WellFormed
      <4>2. Level(s)[k] \in Int
        <5>1. k \in 1..Len(s)  OBVIOUS
        <5> QED  BY <5>1, LevelStep
      <4> QED  BY <2>4, <4>1, <4>2
    <3>4. CASE k = hi  BY <1>5, <2>4, <3>4
    <3> QED  BY <3>1, <3>2, <3>3, <3>4
  <2>7. \A k \in lo..hi - 1 : Follows(s[k], s[k + 1])
    <3> TAKE k \in lo..hi - 1
    <3>1. k = lo \/ k \in lo + 1..(hi - 1) - 1 \/ k = hi - 1  OBVIOUS
    <3>2. Follows(s[lo], s[lo + 1])  BY <1>5, <2>3 DEF WellFormed, Follows
    <3>3. Follows(s[hi - 1], s[hi])  BY <1>5, <2>3 DEF WellFormed, Follows
    <3> QED  BY <3>1, <3>2, <3>3, <2>3, <2>5 DEF WellFormed
  <2> QED  BY <1>5, <2>6, <2>7 DEF WellFormed
<1>6. CASE ~(S # {}) /\ ~(s[lo][1] = "num" /\ lo = hi) /\ s[lo][1] # "!"
           /\ ~(s[lo][1] = "(" /\ s[hi][1] = ")" /\ Level(s)[hi] = Level(s)[lo - 1])
  <2>1. MeaningOf(s, M, lo, hi) = {}  BY <1>6, Zenon DEF MeaningOf
  <2> QED  BY <1>1, <2>1
<1> HIDE DEF S
<1> QED  BY <1>2, <1>3, <1>4, <1>5, <1>6, Zenon

\* Every part that means something is well formed.
LEMMA Meaningful ==
  ASSUME NEW s \in Seq(CondToken), NEW M, Says(s, M), NEW lo \in 1..Len(s), NEW hi \in 1..Len(s), lo <= hi,
         Of(M, lo, hi) # {}
  PROVE  WellFormed(s, lo, hi)
<1> DEFINE n == Len(s)
           T == {d \in Nat : \A a, b \in 1..n : a <= b /\ b - a < d /\ Of(M, a, b) # {} => WellFormed(s, a, b)}
<1>1. 0 \in T  OBVIOUS
<1>2. ASSUME NEW d \in Nat, d \in T PROVE d + 1 \in T
  <2> SUFFICES ASSUME NEW a \in 1..n, NEW b \in 1..n, a <= b, b - a < d + 1, Of(M, a, b) # {}
               PROVE WellFormed(s, a, b)
    OBVIOUS
  <2>1. \A x, y \in 1..n : x <= y /\ y - x < b - a /\ Of(M, x, y) # {} => WellFormed(s, x, y)
    <3> TAKE x, y \in 1..n
    <3>1. y - x < b - a => y - x < d  OBVIOUS
    <3> QED  BY <3>1, <1>2
  <2> QED  BY <2>1, WellFormedStep
<1>3. hi - lo + 1 \in T
  <2> HIDE DEF T
  <2>1. Nat \subseteq T  BY <1>1, <1>2, Induction
  <2>2. hi - lo + 1 \in Nat  OBVIOUS
  <2> QED  BY <2>1, <2>2
<1>4. hi - lo < hi - lo + 1  OBVIOUS
<1> QED  BY <1>3, <1>4

-----------------------------------------------------------------------------
(* How many tokens there are of a kind                                     *)

Among(s, T, i)  == {k \in 1..i : s[k][1] \in T}
Before(s, T, i) == Cardinality(Among(s, T, i))

\* Counting token by token, up to all that a text has.
LEMMA BeforeIs ==
  ASSUME NEW s, NEW T, NEW i \in Nat
  PROVE  /\ IsFiniteSet(Among(s, T, i)) /\ Before(s, T, i) \in Nat
         /\ Before(s, T, 0) = 0
         /\ Before(s, T, i + 1) = Before(s, T, i) + IF s[i + 1][1] \in T THEN 1 ELSE 0
<1>1. \A j \in Nat : IsFiniteSet(Among(s, T, j)) /\ Before(s, T, j) \in Nat
  <2> TAKE j \in Nat
  <2>1. IsFiniteSet(1..j)  BY FS_Interval
  <2>2. Among(s, T, j) \subseteq 1..j  BY DEF Among
  <2>3. IsFiniteSet(Among(s, T, j))  BY <2>1, <2>2, FS_Subset
  <2> QED  BY <2>3, FS_CardinalityType DEF Before
<1>2. Before(s, T, 0) = 0
  <2>1. Among(s, T, 0) = {}  BY DEF Among
  <2> QED  BY <2>1, FS_EmptySet DEF Before
<1>3. CASE s[i + 1][1] \in T
  <2>1. Among(s, T, i + 1) = Among(s, T, i) \cup {i + 1} /\ i + 1 \notin Among(s, T, i)
    <3>1. \A k \in 1..i + 1 : k \in 1..i \/ k = i + 1  OBVIOUS
    <3>2. i + 1 \in 1..i + 1 /\ i + 1 \notin 1..i /\ 1..i \subseteq 1..i + 1  OBVIOUS
    <3> QED  BY <1>3, <3>1, <3>2 DEF Among
  <2>2. Cardinality(Among(s, T, i) \cup {i + 1}) = Cardinality(Among(s, T, i)) + 1
    BY <1>1, <2>1, FS_AddElement
  <2> QED  BY <1>1, <1>2, <1>3, <2>1, <2>2 DEF Before
<1>4. CASE s[i + 1][1] \notin T
  <2>1. Among(s, T, i + 1) = Among(s, T, i)
    <3>1. \A k \in 1..i + 1 : k \in 1..i \/ k = i + 1  OBVIOUS
    <3>2. 1..i \subseteq 1..i + 1  OBVIOUS
    <3> QED  BY <1>4, <3>1, <3>2 DEF Among
  <2> QED  BY <1>1, <1>2, <1>4, <2>1 DEF Before
<1> QED  BY <1>1, <1>2, <1>3, <1>4

LEMMA BeforeCount ==
  ASSUME NEW s, Len(s) \in Nat, NEW T, NEW i \in 0..Len(s)
  PROVE  Before(s, T, i) <= Count(s, T)
<1>1. Count(s, T) = Cardinality(Among(s, T, Len(s)))  BY DEF Count, Among
<1>2. Among(s, T, i) \subseteq Among(s, T, Len(s))
  <2>1. 1..i \subseteq 1..Len(s)  OBVIOUS
  <2> QED  BY <2>1 DEF Among
<1>3. IsFiniteSet(Among(s, T, Len(s)))  BY BeforeIs
<1> QED  BY <1>1, <1>2, <1>3, FS_Subset DEF Before

\* A stack that is full before token i, which is to go there, holds less than s
\* asks for.
LEMMA TooMany ==
  ASSUME NEW s, Len(s) \in Nat, NEW T, NEW i \in Nat, i + 1 <= Len(s), s[i + 1][1] \in T,
         NEW l \in Nat, l <= Before(s, T, i), l >= MAX_CONDITIONS
  PROVE  Count(s, T) > MAX_CONDITIONS
<1>1. Before(s, T, i + 1) = Before(s, T, i) + 1 /\ Before(s, T, i) \in Nat /\ Before(s, T, i + 1) \in Nat
  <2>1. i + 1 \in Nat  OBVIOUS
  <2>2. Before(s, T, i + 1) \in Nat  BY <2>1, BeforeIs
  <2>3. Before(s, T, i + 1) = Before(s, T, i) + 1 /\ Before(s, T, i) \in Nat  BY BeforeIs
  <2> QED  BY <2>2, <2>3
<1>2. Before(s, T, i + 1) <= Count(s, T)
  <2>1. i + 1 \in 0..Len(s)  OBVIOUS
  <2> QED  BY <2>1, BeforeCount
<1>3. Count(s, T) \in Nat
  <2>1. Count(s, T) = Before(s, T, Len(s))  BY DEF Count, Before, Among
  <2> QED  BY <2>1, BeforeIs
<1> QED  BY <1>1, <1>2, <1>3, StacksHavePlaces

-----------------------------------------------------------------------------
(* The yard, token after token                                             *)

\* The names of what goes on the second stack.
Names == Binary \cup {"!", "("}
LEMMA NamesArePushed == Names = Pushed
BY DEF Names, Pushed, Applied

\* An error is for a reason: a stack is too small, or the text means nothing.
Refused(s, M, y) ==
  \/ y.at = "too complex" /\ (Count(s, {"num"}) > MAX_CONDITIONS \/ Count(s, Names) > MAX_CONDITIONS)
  \/ y.at \in {"syntax", "unbalanced"} /\ Of(M, 1, Len(s)) = {}

\* No operator binds as tightly as this.
Tightest == 121

\* What holds of the yard y when i tokens have been read.
Scanned(s, M, i, y) ==
  /\ y \in Yards
  /\ Going(y) =>
       /\ \A k \in 0..i : Level(s)[k] >= 0
       /\ Len(y.res) <= Before(s, {"num"}, i) /\ Len(y.ops) <= Before(s, Names, i)
       /\ y.at = "operand" => /\ i > 0 => s[i][1] \notin {"num", ")"}
                              /\ \E p, h : AtOperand(s, M, y, p, h, i)
       /\ y.at = "operator" => /\ i > 0 /\ s[i][1] \in {"num", ")"}
                               /\ \E p, h : AtOperator(s, M, y, p, h, i, Tightest)
  /\ ~Going(y) => Refused(s, M, y)

\* A text that means something starts with an operand, has no two tokens next
\* to each other that do not follow, and closes what it opens.
LEMMA MeansNothing ==
  ASSUME NEW s \in Seq(CondToken), NEW M, Says(s, M),
         \/ Len(s) = 0
         \/ Len(s) > 0 /\ s[1][1] \notin {"num", "!", "("}
         \/ \E k \in 1..Len(s) - 1 : ~Follows(s[k], s[k + 1])
         \/ Len(s) > 0 /\ s[Len(s)][1] \notin {"num", ")"}
         \/ \E k \in 1..Len(s) : ~(Level(s)[k] >= 0)
         \/ Level(s)[Len(s)] # 0
  PROVE  Of(M, 1, Len(s)) = {}
<1> SUFFICES ASSUME Of(M, 1, Len(s)) # {} PROVE FALSE  OBVIOUS
<1>1. 1 <= Len(s)  BY DEF Of
<1>2. 1 \in 1..Len(s) /\ Len(s) \in 1..Len(s)  BY <1>1
<1>3. WellFormed(s, 1, Len(s))  BY <1>1, <1>2, Meaningful
<1>4. Level(s)[1 - 1] = 0  BY LevelIs
<1>5. Level(s)[Len(s)] = 0  BY <1>3, <1>4 DEF WellFormed
<1>6. \A k \in 1..Len(s) : Level(s)[k] >= 0  BY <1>3, <1>4 DEF WellFormed
<1>7. \A k \in 1..Len(s) - 1 : Follows(s[k], s[k + 1])  BY <1>3 DEF WellFormed
<1>8. s[1][1] \in {"num", "!", "("} /\ s[Len(s)][1] \in {"num", ")"}  BY <1>3 DEF WellFormed
<1> QED  BY <1>1, <1>5, <1>6, <1>7, <1>8

\* Before the first token.
LEMMA EmptyScanned ==
  ASSUME NEW s \in Seq(CondToken), NEW M PROVE Scanned(s, M, 0, Empty)
<1> DEFINE p == [k \in Nat |-> 0]
<1>1. Stacked(s, M, Empty, p, p)
  <2>1. Len(Empty.ops) = 0  BY EmptyIs
  <2> QED  BY <2>1, EmptyIs DEF Stacked
<1>2. AtOperand(s, M, Empty, p, p, 0)
  <2>1. Len(Empty.ops) = 0 /\ Len(Empty.res) = 0  BY EmptyIs
  <2> QED  BY <1>1, <2>1, EmptyIs DEF AtOperand
<1>3. \A k \in 0..0 : Level(s)[k] >= 0
  <2>1. \A k \in 0..0 : k = 0  OBVIOUS
  <2> QED  BY <2>1, LevelIs
<1>4. Len(Empty.res) <= Before(s, {"num"}, 0) /\ Len(Empty.ops) <= Before(s, Names, 0)
  <2>1. Before(s, {"num"}, 0) = 0 /\ Before(s, Names, 0) = 0  BY BeforeIs
  <2>2. Len(Empty.ops) = 0 /\ Len(Empty.res) = 0  BY EmptyIs
  <2> QED  BY <2>1, <2>2
<1>5. Going(Empty) /\ Empty.at # "operator"  BY EmptyIs DEF Going
<1>6. \E q, h : AtOperand(s, M, Empty, q, h, 0)  BY <1>2
<1>7. 0 > 0 => s[0][1] \notin {"num", ")"}  OBVIOUS
<1> QED  BY <1>3, <1>4, <1>5, <1>6, <1>7, EmptyIs, Zenon DEF Scanned

\* What was read before is as it was.
LEMMA LevelsStay ==
  ASSUME NEW s \in Seq(CondToken), NEW i \in Nat, i + 1 <= Len(s),
         \A k \in 0..i : Level(s)[k] >= 0, Level(s)[i + 1] >= 0
  PROVE  \A k \in 0..i + 1 : Level(s)[k] >= 0
<1> TAKE k \in 0..i + 1
<1>1. k \in 0..i \/ k = i + 1  OBVIOUS
<1> QED  BY <1>1

\* An operand is pushed.
LEMMA NumberPushed ==
  ASSUME NEW s \in Seq(CondToken), NEW M, Says(s, M), NEW i \in Nat, i + 1 <= Len(s),
         NEW y, NEW p, NEW h, AtOperand(s, M, y, p, h, i), s[i + 1][1] = "num", Len(y.res) < MAX_CONDITIONS
  PROVE  AtOperator(s, M, PushRes(y, s[i + 1][2]), p, h, i + 1, Tightest)
<1> DEFINE z == PushRes(y, s[i + 1][2])
           m == Len(y.ops)
<1>1. y \in Yards /\ Stacked(s, M, y, p, h) /\ p \in [Nat -> Nat] /\ h \in [Nat -> Nat] /\ Len(y.res) = h[m] /\ p[m] = i
  BY DEF AtOperand, Stacked
<1>2. i + 1 \in 1..Len(s) /\ s[i + 1][2] \in Int
  <2>1. i + 1 \in 1..Len(s)  OBVIOUS
  <2> QED  BY <2>1, TokenIs DEF IsToken
<1>3. m \in Nat /\ Len(y.res) \in Nat /\ y.res \in Seq(Int) /\ h[m] \in Nat  BY <1>1, YardIs
<1>4. z \in Yards /\ z.res = Append(y.res, s[i + 1][2]) /\ z.ops = y.ops /\ z.at = "operator"
  <2>1. ~(Len(y.res) >= MAX_CONDITIONS)  BY <1>3, StacksHavePlaces
  <2> QED  BY <1>1, <1>2, <2>1, PushResIs
<1> HIDE DEF z
<1>5. Len(z.res) = h[m] + 1 /\ z.res[h[m] + 1] = s[i + 1][2] /\ \A j \in 1..h[m] : z.res[j] = y.res[j]
  <2> DEFINE v == s[i + 1][2]
             r == y.res
  <2>1. v \in Int /\ r \in Seq(Int) /\ Len(r) = h[m] /\ z.res = Append(r, v)  BY <1>1, <1>2, <1>3, <1>4
  <2> HIDE DEF v, r, m
  <2>2. Len(Append(r, v)) = Len(r) + 1 /\ (\A j \in 1..Len(r) : Append(r, v)[j] = r[j]) /\ Append(r, v)[Len(r) + 1] = v
    BY <2>1, AppendIs
  <2> QED  BY <2>1, <2>2 DEF v, r
<1>6. Stacked(s, M, z, p, h)
  <2>1. Len(z.ops) <= Len(y.ops) /\ (\A j \in 1..Len(z.ops) : z.ops[j] = y.ops[j])  BY <1>3, <1>4
  <2>2. \A j \in 1..h[Len(z.ops)] : z.res[j] = y.res[j]  BY <1>4, <1>5
  <2> QED  BY <1>1, <1>4, <2>1, <2>2, StackedStays
<1>7. Expression(s, M, i + 1, i + 1, s[i + 1][2]) /\ Splits(s, i + 1, i + 1) = {}  BY <1>2, NumberMeans
<1>8. p[Len(z.ops)] + 1 = i + 1 /\ Len(z.res) = h[Len(z.ops)] + 1 /\ z.res[Len(z.res)] = s[i + 1][2]
  BY <1>1, <1>4, <1>5
<1> QED  BY <1>4, <1>6, <1>7, <1>8 DEF AtOperator, z

\* A binary operator is in its place above what it is not to apply, a negation
\* or a parenthesis anywhere.
LEMMA BinaryPlaced ==
  ASSUME NEW s, NEW M, NEW y, NEW p, NEW h, NEW j,
         p[j] \in 1..Len(s) /\ p[j - 1] < p[j] /\ s[p[j]][1] = y.ops[j],
         y.ops[j] \in Binary,
         h[j] = h[j - 1] + 1,
         Expression(s, M, p[j - 1] + 1, p[j] - 1, y.res[h[j]]),
         \A k \in Splits(s, p[j - 1] + 1, p[j] - 1) : Binds(s, k) >= Binds(s, p[j]),
         Under(y, j - 1, Binds(s, p[j]))
  PROVE  Placed(s, M, y, p, h, j)
BY Zenon DEF Placed

LEMMA OtherPlaced ==
  ASSUME NEW s, NEW M, NEW y, NEW p, NEW h, NEW j,
         p[j] \in 1..Len(s) /\ p[j - 1] < p[j] /\ s[p[j]][1] = y.ops[j],
         y.ops[j] \notin Binary,
         h[j] = h[j - 1], p[j] = p[j - 1] + 1
  PROVE  Placed(s, M, y, p, h, j)
BY Zenon DEF Placed

\* An operator or a parenthesis is pushed on a stack where it is in its place.
LEMMA OperatorPushed ==
  ASSUME NEW s \in Seq(CondToken), NEW M, NEW i \in Nat, i + 1 <= Len(s),
         NEW y, NEW p, NEW h, Stacked(s, M, y, p, h), NEW op \in Pushed, s[i + 1][1] = op,
         Len(y.ops) < MAX_CONDITIONS,
         p[Len(y.ops)] <= i,
         NEW b \in {0, 1}, Len(y.res) = h[Len(y.ops)] + b,
         IF op \in Binary
         THEN /\ b = 1 /\ Expression(s, M, p[Len(y.ops)] + 1, i, y.res[h[Len(y.ops)] + 1])
              /\ \A k \in Splits(s, p[Len(y.ops)] + 1, i) : Binds(s, k) >= Binds(s, i + 1)
              /\ Under(y, Len(y.ops), Binds(s, i + 1))
         ELSE b = 0 /\ p[Len(y.ops)] = i
  PROVE  \E p2, h2 : AtOperand(s, M, PushOp(y, op), p2, h2, i + 1)
<1> DEFINE z  == PushOp(y, op)
           m  == Len(y.ops)
           p2 == [p EXCEPT ![m + 1] = i + 1]
           h2 == [h EXCEPT ![m + 1] = h[m] + b]
<1>1. /\ y \in Yards /\ p \in [Nat -> Nat] /\ h \in [Nat -> Nat] /\ p[0] = 0 /\ h[0] = 0
      /\ (\A j \in 1..m : Placed(s, M, y, p, h, j))
      /\ (\A j, k \in 0..m : j <= k => h[j] <= h[k])
  BY DEF Stacked
<1>2. m \in Nat /\ y.ops \in Seq(Pushed)  BY <1>1, YardIs
<1>20. h[m] \in Nat /\ p[m] \in Nat
  <2> HIDE DEF m
  <2> QED  BY <1>1, <1>2
<1>3. z \in Yards /\ z.ops = Append(y.ops, op) /\ z.res = y.res /\ z.at = "operand"
  <2>1. ~(m >= MAX_CONDITIONS)  BY <1>2, StacksHavePlaces
  <2> QED  BY <1>1, <2>1, PushOpIs
<1> HIDE DEF z
<1>4. Len(z.ops) = m + 1 /\ z.ops[m + 1] = op /\ \A j \in 1..m : z.ops[j] = y.ops[j]
  BY <1>2, <1>3, AppendIs
<1>5. /\ p2 \in [Nat -> Nat] /\ h2 \in [Nat -> Nat] /\ p2[m + 1] = i + 1 /\ h2[m + 1] = h[m] + b
      /\ \A j \in 0..m : p2[j] = p[j] /\ h2[j] = h[j]
  <2>1. m + 1 \in Nat /\ h[m] + b \in Nat /\ i + 1 \in Nat
    <3> HIDE DEF m
    <3> QED  BY <1>2, <1>20
  <2>2. \A j \in 0..m : j \in Nat /\ j # m + 1  BY <1>2
  <2> HIDE DEF m
  <2> QED  BY <1>1, <2>1, <2>2
<1> HIDE DEF p2, h2
<1>6. \A j \in 1..m : Placed(s, M, z, p2, h2, j)
  <2> TAKE j \in 1..m
  <2>1. j \in Nat \ {0} /\ j \in 0..m /\ j - 1 \in 0..m /\ (j > 1 => j - 1 \in 1..m)  BY <1>2
  <2>2. Placed(s, M, y, p, h, j)  BY <1>1
  <2>3. z.ops[j] = y.ops[j] /\ (j > 1 => z.ops[j - 1] = y.ops[j - 1])  BY <1>4, <2>1
  <2>4. p2[j] = p[j] /\ p2[j - 1] = p[j - 1] /\ h2[j] = h[j] /\ h2[j - 1] = h[j - 1]  BY <1>5, <2>1
  <2>5. y.ops[j] \in Binary => z.res[h[j]] = y.res[h[j]]  BY <1>3
  <2> QED  BY <2>1, <2>2, <2>3, <2>4, <2>5, PlacedStays
<1>7. Placed(s, M, z, p2, h2, m + 1)
  <2>1. m + 1 - 1 = m /\ i + 1 - 1 = i /\ m \in 0..m  BY <1>2
  <2>2. p2[m] = p[m] /\ h2[m] = h[m] /\ p[m] \in Nat /\ h[m] \in Nat  BY <1>1, <1>2, <1>5, <2>1
  <2>3. i + 1 \in 1..Len(s) /\ p[m] < i + 1
    <3> HIDE DEF m
    <3>1. p[m] <= i  BY DEF m
    <3> QED  BY <2>2, <3>1
  <2>4. \A x : Under(z, m, x) <=> Under(y, m, x)
    <3>1. m = 0 \/ m \in 1..m  BY <1>2
    <3> QED  BY <1>4, <3>1 DEF Under
  <2>5. CASE op \in Binary
    <3>1. h2[m + 1] = h2[m] + 1 /\ h2[m + 1] = h[m] + 1  BY <1>5, <2>2, <2>5
    <3>2. Expression(s, M, p2[m] + 1, i + 1 - 1, z.res[h2[m + 1]])  BY <1>3, <2>1, <2>2, <2>5, <3>1
    <3>3. \A k \in Splits(s, p2[m] + 1, i + 1 - 1) : Binds(s, k) >= Binds(s, i + 1)  BY <2>1, <2>2, <2>5
    <3>4. Under(z, m, Binds(s, i + 1))  BY <2>4, <2>5
    <3>5. p2[m + 1 - 1] = p2[m] /\ h2[m + 1 - 1] = h2[m] /\ p2[m + 1] - 1 = i + 1 - 1
      <4> HIDE DEF m
      <4> QED  BY <1>5, <2>1
    <3>6. p2[m + 1] \in 1..Len(s) /\ p2[m + 1 - 1] < p2[m + 1] /\ s[p2[m + 1]][1] = z.ops[m + 1]
      <4> HIDE DEF m
      <4> QED  BY <1>4, <1>5, <2>2, <2>3, <3>5
    <3>7. Under(z, m + 1 - 1, Binds(s, p2[m + 1]))
      <4> HIDE DEF m
      <4> QED  BY <1>5, <2>1, <3>4
    <3>8. \A k \in Splits(s, p2[m + 1 - 1] + 1, p2[m + 1] - 1) : Binds(s, k) >= Binds(s, p2[m + 1])
      <4> HIDE DEF m
      <4> QED  BY <1>5, <3>3, <3>5
    <3>9. Expression(s, M, p2[m + 1 - 1] + 1, p2[m + 1] - 1, z.res[h2[m + 1]])
      <4> HIDE DEF m
      <4> QED  BY <3>2, <3>5
    <3>10. h2[m + 1] = h2[m + 1 - 1] + 1  BY <3>1, <3>5
    <3>11. z.ops[m + 1] \in Binary  BY <1>4, <2>5
    <3> DEFINE j == m + 1
    <3>12. p2[j] \in 1..Len(s) /\ p2[j - 1] < p2[j] /\ s[p2[j]][1] = z.ops[j]  BY <3>6
    <3>13. Under(z, j - 1, Binds(s, p2[j]))  BY <3>7
    <3>14. \A k \in Splits(s, p2[j - 1] + 1, p2[j] - 1) : Binds(s, k) >= Binds(s, p2[j])  BY <3>8
    <3>15. Expression(s, M, p2[j - 1] + 1, p2[j] - 1, z.res[h2[j]])  BY <3>9
    <3>16. h2[j] = h2[j - 1] + 1  BY <3>10
    <3>17. z.ops[j] \in Binary  BY <3>11
    <3>18. Placed(s, M, z, p2, h2, j)
      <4> HIDE DEF j
      <4> QED  BY <3>12, <3>13, <3>14, <3>15, <3>16, <3>17, BinaryPlaced
    <3> QED  BY <3>18
  <2>6. CASE op \notin Binary
    <3>1. h2[m + 1] = h2[m] /\ p2[m + 1] = p2[m] + 1
      <4>1. b = 0 /\ p[m] = i  BY <2>6
      <4>2. h[m] + 0 = h[m]  BY <2>2
      <4> HIDE DEF m
      <4> QED  BY <1>5, <2>2, <4>1, <4>2
    <3>5. p2[m + 1 - 1] = p2[m] /\ h2[m + 1 - 1] = h2[m]
      <4> HIDE DEF m
      <4> QED  BY <2>1
    <3>6. p2[m + 1] \in 1..Len(s) /\ p2[m + 1 - 1] < p2[m + 1] /\ s[p2[m + 1]][1] = z.ops[m + 1]
      <4> HIDE DEF m
      <4> QED  BY <1>4, <1>5, <2>2, <2>3, <3>5
    <3>7. h2[m + 1] = h2[m + 1 - 1] /\ p2[m + 1] = p2[m + 1 - 1] + 1  BY <3>1, <3>5
    <3>8. z.ops[m + 1] \notin Binary  BY <1>4, <2>6
    <3> DEFINE j == m + 1
    <3>9. p2[j] \in 1..Len(s) /\ p2[j - 1] < p2[j] /\ s[p2[j]][1] = z.ops[j]  BY <3>6
    <3>10. h2[j] = h2[j - 1] /\ p2[j] = p2[j - 1] + 1  BY <3>7
    <3>11. z.ops[j] \notin Binary  BY <3>8
    <3>12. Placed(s, M, z, p2, h2, j)
      <4> HIDE DEF j
      <4> QED  BY <3>9, <3>10, <3>11, OtherPlaced
    <3> QED  BY <3>12
  <2> QED  BY <2>5, <2>6
<1>8. \A j, k \in 0..m + 1 : j <= k => h2[j] <= h2[k]
  <2> TAKE j, k \in 0..m + 1
  <2> SUFFICES ASSUME j <= k PROVE h2[j] <= h2[k]  OBVIOUS
  <2>1. CASE k \in 0..m
    <3>1. j \in 0..m  BY <1>2, <2>1
    <3> QED  BY <1>1, <1>5, <2>1, <3>1
  <2>2. CASE k = m + 1 /\ j \in 0..m
    <3>0. j \in Nat /\ m \in 0..m /\ j <= m  BY <1>2, <2>2
    <3> HIDE DEF m
    <3>1. h[j] \in Nat /\ h[j] <= h[m]  BY <1>1, <3>0, <2>2
    <3>2. h2[k] = h[m] + b /\ h2[j] = h[j]  BY <1>5, <2>2
    <3> QED  BY <1>20, <3>1, <3>2
  <2>3. CASE k = m + 1 /\ j = m + 1
    <3> HIDE DEF m
    <3>1. m + 1 \in Nat  BY <1>2
    <3>2. h2[m + 1] \in Nat  BY <3>1, <1>5
    <3> QED  BY <2>3, <3>2
  <2>4. \A x \in 0..m + 1 : x \in 0..m \/ x = m + 1  BY <1>2
  <2> QED  BY <2>1, <2>2, <2>3, <2>4
<1>9. \A j \in 1..m + 1 : Placed(s, M, z, p2, h2, j)
  <2>1. \A j \in 1..m + 1 : j \in 1..m \/ j = m + 1  BY <1>2
  <2> QED  BY <1>6, <1>7, <2>1
<1>10. p2[0] = 0 /\ h2[0] = 0
  <2>1. 0 \in 0..m  BY <1>2
  <2> QED  BY <1>1, <1>5, <2>1
<1>11. Stacked(s, M, z, p2, h2)  BY <1>3, <1>4, <1>5, <1>8, <1>9, <1>10 DEF Stacked
<1>12. Len(z.res) = h2[Len(z.ops)] /\ p2[Len(z.ops)] = i + 1  BY <1>3, <1>4, <1>5
<1>13. AtOperand(s, M, z, p2, h2, i + 1)  BY <1>3, <1>11, <1>12 DEF AtOperand
<1> QED  BY <1>13 DEF z

\* What the yard is if it is not as good as i tokens make it.
LEMMA RefusedIsScanned ==
  ASSUME NEW s, NEW M, NEW i, NEW z \in Yards, Refused(s, M, z)
  PROVE  Scanned(s, M, i, z)
<1>1. ~Going(z)  BY DEF Refused, Going
<1> QED  BY <1>1 DEF Scanned

LEMMA OperandIsScanned ==
  ASSUME NEW s, NEW M, NEW i, NEW z \in Yards, \A k \in 0..i : Level(s)[k] >= 0,
         Len(z.res) <= Before(s, {"num"}, i), Len(z.ops) <= Before(s, Names, i),
         s[i][1] \notin {"num", ")"}, \E p, h : AtOperand(s, M, z, p, h, i)
  PROVE  Scanned(s, M, i, z)
<1>1. z.at = "operand"  BY DEF AtOperand
<1>2. z.at # "operator" /\ Going(z)  BY <1>1 DEF Going
<1> QED  BY <1>1, <1>2, Zenon DEF Scanned

LEMMA OperatorIsScanned ==
  ASSUME NEW s, NEW M, NEW i \in Nat, i > 0, NEW z \in Yards, \A k \in 0..i : Level(s)[k] >= 0,
         Len(z.res) <= Before(s, {"num"}, i), Len(z.ops) <= Before(s, Names, i),
         s[i][1] \in {"num", ")"}, \E p, h : AtOperator(s, M, z, p, h, i, Tightest)
  PROVE  Scanned(s, M, i, z)
<1>1. z.at = "operator"  BY DEF AtOperator
<1>2. z.at # "operand" /\ Going(z)  BY <1>1 DEF Going
<1> QED  BY <1>1, <1>2, Zenon DEF Scanned

\* A token of a kind is one more of it.
LEMMA BeforeGrows ==
  ASSUME NEW s, NEW T, NEW i \in Nat
  PROVE  /\ Before(s, T, i) \in Nat /\ Before(s, T, i + 1) \in Nat /\ Before(s, T, i) <= Before(s, T, i + 1)
         /\ s[i + 1][1] \in T => Before(s, T, i + 1) = Before(s, T, i) + 1
<1>1. i + 1 \in Nat  BY DEF Before
<1>2. Before(s, T, i + 1) \in Nat  BY <1>1, BeforeIs
<1>3. Before(s, T, i) \in Nat /\ Before(s, T, i + 1) = Before(s, T, i) + IF s[i + 1][1] \in T THEN 1 ELSE 0
  BY BeforeIs
<1> QED  BY <1>2, <1>3

\* A number where an operand is expected.
LEMMA NumberScanned ==
  ASSUME NEW s \in Seq(CondToken), NEW M, Says(s, M), NEW i \in Nat, i + 1 <= Len(s), NEW y,
         Scanned(s, M, i, y), y.at = "operand", s[i + 1][1] = "num"
  PROVE  Scanned(s, M, i + 1, PushRes(y, s[i + 1][2]))
<1> DEFINE z == PushRes(y, s[i + 1][2])
<1>0. Going(y)  BY DEF Going
<1>1. /\ y \in Yards /\ (\A k \in 0..i : Level(s)[k] >= 0)
      /\ Len(y.res) <= Before(s, {"num"}, i) /\ Len(y.ops) <= Before(s, Names, i)
      /\ \E p, h : AtOperand(s, M, y, p, h, i)
  BY <1>0, Zenon DEF Scanned
<1>2. i + 1 \in 1..Len(s) /\ Len(s) \in Nat /\ i + 1 - 1 = i  OBVIOUS
<1>3. s[i + 1][2] \in Int  BY <1>2, TokenIs DEF IsToken
<1>4. Len(y.res) \in Nat /\ Len(y.ops) \in Nat /\ y.res \in Seq(Int)  BY <1>1, YardIs
<1>5. CASE Len(y.res) >= MAX_CONDITIONS
  <2>1. z = Error(y, "too complex") /\ z \in Yards  BY <1>1, <1>3, <1>5, PushResIs
  <2>5. Error(y, "too complex").at = "too complex"  BY <1>1, ErrorIs DEF Ends
  <2>2. z.at = "too complex"  BY <2>1, <2>5, Zenon
  <2>3. Count(s, {"num"}) > MAX_CONDITIONS  BY <1>1, <1>2, <1>4, <1>5, TooMany
  <2>4. Refused(s, M, z)  BY <2>2, <2>3 DEF Refused
  <2> QED  BY <2>1, <2>4, RefusedIsScanned
<1>6. CASE Len(y.res) < MAX_CONDITIONS
  <2>1. PICK p, h : AtOperand(s, M, y, p, h, i)  BY <1>1
  <2>2. AtOperator(s, M, z, p, h, i + 1, Tightest)  BY <1>6, <2>1, NumberPushed
  <2>3. ~(Len(y.res) >= MAX_CONDITIONS)  BY <1>4, <1>6, StacksHavePlaces
  <2>4. z \in Yards /\ z.res = Append(y.res, s[i + 1][2]) /\ z.ops = y.ops  BY <1>1, <1>3, <2>3, PushResIs
  <2> HIDE DEF z
  <2>5. Len(z.res) = Len(y.res) + 1 /\ Len(z.ops) = Len(y.ops)
    <3>1. Len(Append(y.res, s[i + 1][2])) = Len(y.res) + 1  BY <1>3, <1>4, AppendIs
    <3> QED  BY <2>4, <3>1
  <2>6. Len(z.res) <= Before(s, {"num"}, i + 1)
    <3>1. Before(s, {"num"}, i + 1) = Before(s, {"num"}, i) + 1 /\ Before(s, {"num"}, i) \in Nat  BY BeforeGrows
    <3> QED  BY <1>1, <1>4, <2>5, <3>1
  <2>7. Len(z.ops) <= Before(s, Names, i + 1)
    <3>1. Before(s, Names, i + 1) >= Before(s, Names, i) /\ Before(s, Names, i) \in Nat /\ Before(s, Names, i + 1) \in Nat
      BY BeforeGrows
    <3> QED  BY <1>1, <1>4, <2>5, <3>1
  <2>8. Level(s)[i + 1] >= 0
    <3>1. s[i + 1][1] \notin {"(", ")"}  OBVIOUS
    <3>2. Level(s)[i + 1] = Level(s)[i]  BY <1>2, <3>1, LevelStep
    <3> QED  BY <1>1, <3>2
  <2>9. \A k \in 0..i + 1 : Level(s)[k] >= 0  BY <1>1, <2>8, LevelsStay
  <2>10. i + 1 > 0 /\ i + 1 \in Nat  OBVIOUS
  <2>11. \E p2, h2 : AtOperator(s, M, z, p2, h2, i + 1, Tightest)  BY <2>2
  <2> QED  BY <2>4, <2>6, <2>7, <2>9, <2>10, <2>11, OperatorIsScanned DEF z
<1>7. Len(y.res) >= MAX_CONDITIONS \/ Len(y.res) < MAX_CONDITIONS  BY <1>4, StacksHavePlaces
<1> QED  BY <1>5, <1>6, <1>7

\* What is pushed on the stack of operators.
LEMMA PushedScanned ==
  ASSUME NEW s \in Seq(CondToken), NEW M, Says(s, M), NEW i \in Nat, i + 1 <= Len(s), NEW y \in Yards,
         \A k \in 0..i : Level(s)[k] >= 0,
         Len(y.res) <= Before(s, {"num"}, i), Len(y.ops) <= Before(s, Names, i),
         NEW op \in Pushed, s[i + 1][1] = op,
         Len(y.ops) < MAX_CONDITIONS => \E p, h : AtOperand(s, M, PushOp(y, op), p, h, i + 1)
  PROVE  Scanned(s, M, i + 1, PushOp(y, op))
<1> DEFINE z == PushOp(y, op)
<1>2. i + 1 \in 1..Len(s) /\ Len(s) \in Nat /\ i + 1 - 1 = i  OBVIOUS
<1>3. op \in Names /\ op \notin {"num", ")"}
  <2>1. \A b \in Binary : b \notin {"num", ")"}  BY BinariesAreOther
  <2> QED  BY <2>1 DEF Pushed, Applied, Names
<1>4. Len(y.res) \in Nat /\ Len(y.ops) \in Nat /\ y.ops \in Seq(Pushed)  BY YardIs
<1>5. CASE Len(y.ops) >= MAX_CONDITIONS
  <2>1. z = Error(y, "too complex") /\ z \in Yards  BY <1>5, PushOpIs
  <2>5. Error(y, "too complex").at = "too complex"  BY ErrorIs DEF Ends
  <2>2. z.at = "too complex"  BY <2>1, <2>5, Zenon
  <2>3. Count(s, Names) > MAX_CONDITIONS  BY <1>2, <1>3, <1>4, <1>5, TooMany
  <2>4. Refused(s, M, z)  BY <2>2, <2>3 DEF Refused
  <2> QED  BY <2>1, <2>4, RefusedIsScanned
<1>6. CASE Len(y.ops) < MAX_CONDITIONS
  <2>3. ~(Len(y.ops) >= MAX_CONDITIONS)  BY <1>4, <1>6, StacksHavePlaces
  <2>4. z \in Yards /\ z.ops = Append(y.ops, op) /\ z.res = y.res  BY <2>3, PushOpIs
  <2>1. \E p, h : AtOperand(s, M, z, p, h, i + 1)  BY <1>6
  <2> HIDE DEF z
  <2>5. Len(z.ops) = Len(y.ops) + 1 /\ Len(z.res) = Len(y.res)
    <3>1. Len(Append(y.ops, op)) = Len(y.ops) + 1  BY <1>4, AppendIs
    <3> QED  BY <2>4, <3>1
  <2>6. Len(z.ops) <= Before(s, Names, i + 1)
    <3>1. Before(s, Names, i + 1) = Before(s, Names, i) + 1 /\ Before(s, Names, i) \in Nat  BY <1>3, BeforeGrows
    <3> QED  BY <1>4, <2>5, <3>1
  <2>7. Len(z.res) <= Before(s, {"num"}, i + 1)
    <3>1. /\ Before(s, {"num"}, i + 1) >= Before(s, {"num"}, i)
          /\ Before(s, {"num"}, i) \in Nat /\ Before(s, {"num"}, i + 1) \in Nat
      BY BeforeGrows
    <3> QED  BY <1>4, <2>5, <3>1
  <2>8. Level(s)[i + 1] >= 0
    <3>0. Level(s)[i] >= 0  OBVIOUS
    <3>1. s[i + 1][1] # ")"  BY <1>3
    <3>2. (Level(s)[i + 1] = Level(s)[i] \/ Level(s)[i + 1] = Level(s)[i] + 1) /\ Level(s)[i] \in Int
      BY <1>2, <3>1, LevelStep
    <3> QED  BY <3>0, <3>2
  <2>9. \A k \in 0..i + 1 : Level(s)[k] >= 0  BY <2>8, LevelsStay
  <2>10. s[i + 1][1] \notin {"num", ")"}  BY <1>3
  <2> QED  BY <2>1, <2>4, <2>6, <2>7, <2>9, <2>10, OperandIsScanned DEF z
<1>7. Len(y.ops) >= MAX_CONDITIONS \/ Len(y.ops) < MAX_CONDITIONS  BY <1>4, StacksHavePlaces
<1> QED  BY <1>5, <1>6, <1>7

\* A negation or a parenthesis where an operand is expected.
LEMMA OpenScanned ==
  ASSUME NEW s \in Seq(CondToken), NEW M, Says(s, M), NEW i \in Nat, i + 1 <= Len(s), NEW y,
         Scanned(s, M, i, y), y.at = "operand", s[i + 1][1] \in {"!", "("}
  PROVE  Scanned(s, M, i + 1, PushOp(y, s[i + 1][1]))
<1> DEFINE op == s[i + 1][1]
<1>0. Going(y)  BY DEF Going
<1>1. /\ y \in Yards /\ (\A k \in 0..i : Level(s)[k] >= 0)
      /\ Len(y.res) <= Before(s, {"num"}, i) /\ Len(y.ops) <= Before(s, Names, i)
      /\ \E p, h : AtOperand(s, M, y, p, h, i)
  BY <1>0, Zenon DEF Scanned
<1>2. op \in Pushed /\ op \notin Binary
  <2>1. \A b \in Binary : b \notin {"!", "("}  BY BinariesAreOther
  <2> QED  BY <2>1 DEF Pushed, Applied
<1>3. ASSUME Len(y.ops) < MAX_CONDITIONS PROVE \E p, h : AtOperand(s, M, PushOp(y, op), p, h, i + 1)
  <2>1. PICK p, h : AtOperand(s, M, y, p, h, i)  BY <1>1
  <2>2. Stacked(s, M, y, p, h) /\ p[Len(y.ops)] <= i /\ p[Len(y.ops)] = i  BY <2>1 DEF AtOperand
  <2>3. 0 \in {0, 1} /\ Len(y.res) = h[Len(y.ops)] + 0
    <3>1. Len(y.res) = h[Len(y.ops)] /\ Len(y.res) \in Nat  BY <1>1, <2>1, YardIs DEF AtOperand
    <3> QED  BY <3>1
  <2>4. s[i + 1][1] = op  OBVIOUS
  <2> HIDE DEF op
  <2> QED  BY <1>2, <1>3, <2>2, <2>3, <2>4, OperatorPushed
<1>4. s[i + 1][1] = op  OBVIOUS
<1>5. Scanned(s, M, i + 1, PushOp(y, op))
  <2> HIDE DEF op
  <2> QED  BY <1>1, <1>2, <1>3, <1>4, PushedScanned
<1> QED  BY <1>5

\* Where no operator is, all of them bind as tightly as any.
LEMMA Loosened ==
  ASSUME NEW s \in Seq(CondToken), NEW M, NEW y, NEW p, NEW h, NEW i, NEW q,
         AtOperator(s, M, y, p, h, i, Tightest)
  PROVE  AtOperator(s, M, y, p, h, i, q) /\ Splits(s, p[Len(y.ops)] + 1, i) = {}
<1>1. \A k \in Splits(s, p[Len(y.ops)] + 1, i) : Binds(s, k) >= 121  BY DEF AtOperator, Tightest
<1>2. \A k \in Splits(s, p[Len(y.ops)] + 1, i) : Binds(s, k) \in 0..120
  <2> TAKE k \in Splits(s, p[Len(y.ops)] + 1, i)
  <2>1. s[k][1] \in Applied  BY DEF Splits, Applied
  <2>2. sy_op_precedence(s[k][1]) \in 0..120  BY <2>1, Precedences
  <2> QED  BY <2>2 DEF Binds
<1>3. Splits(s, p[Len(y.ops)] + 1, i) = {}
  <2> SUFFICES ASSUME NEW k \in Splits(s, p[Len(y.ops)] + 1, i) PROVE FALSE  OBVIOUS
  <2> DEFINE b == Binds(s, k)
  <2>1. b >= 121 /\ b \in 0..120  BY <1>1, <1>2
  <2> HIDE DEF b
  <2> QED  BY <2>1
<1> QED  BY <1>3 DEF AtOperator

\* A binary operator where one is expected.
LEMMA BinaryScanned ==
  ASSUME NEW s \in Seq(CondToken), NEW M, Says(s, M), NEW i \in Nat, i + 1 <= Len(s), NEW y,
         Scanned(s, M, i, y), y.at = "operator", s[i + 1][1] \in Binary
  PROVE  Scanned(s, M, i + 1, Operator(y, s[i + 1][1]))
<1> DEFINE op    == s[i + 1][1]
           q     == sy_op_precedence(op)
           those == {o \in Applied : sy_op_precedence(o) >= q}
           z     == Reduce(y, those)
<1>0. Going(y)  BY DEF Going
<1>1. /\ y \in Yards /\ (\A k \in 0..i : Level(s)[k] >= 0)
      /\ Len(y.res) <= Before(s, {"num"}, i) /\ Len(y.ops) <= Before(s, Names, i)
      /\ \E p, h : AtOperator(s, M, y, p, h, i, Tightest)
  BY <1>0, Zenon DEF Scanned
<1>2. op \in Pushed /\ op \in Applied  BY DEF Pushed, Applied
<1>3. q \in Int /\ Binds(s, i + 1) = q  BY <1>2, PrecedenceInt DEF Binds
<1>4. PICK p, h : AtOperator(s, M, y, p, h, i, Tightest)  BY <1>1
<1>5. /\ AtOperator(s, M, z, p, h, i, q)
      /\ Len(z.ops) <= Len(y.ops) /\ Len(z.res) <= Len(y.res)
      /\ z.ops = <<>> \/ Last(z.ops) \notin those
  <2>1. AtOperator(s, M, y, p, h, i, q)  BY <1>4, Loosened
  <2>2. \A o : o \in those <=> o \in Applied /\ sy_op_precedence(o) >= q  OBVIOUS
  <2> HIDE DEF those, q
  <2> QED  BY <1>3, <2>1, <2>2, ReduceKeeps
<1>6. Operator(y, op) = IF Going(z) THEN PushOp(z, op) ELSE z  BY DEF Operator
<1> HIDE DEF z
<1>7. z \in Yards /\ Going(z) /\ Stacked(s, M, z, p, h) /\ p \in [Nat -> Nat] /\ h \in [Nat -> Nat]
  BY <1>5 DEF AtOperator, Stacked, Going
<1> DEFINE m == Len(z.ops)
<1>8. m \in Nat /\ Len(z.res) \in Nat /\ Len(y.ops) \in Nat /\ Len(y.res) \in Nat /\ z.ops \in Seq(Pushed)
  BY <1>1, <1>7, YardIs
<1>9. Len(z.res) <= Before(s, {"num"}, i) /\ Len(z.ops) <= Before(s, Names, i)
  <2>1. Before(s, {"num"}, i) \in Nat /\ Before(s, Names, i) \in Nat  BY BeforeGrows
  <2> QED  BY <1>1, <1>5, <1>8, <2>1
<1>10. ASSUME m < MAX_CONDITIONS PROVE \E p2, h2 : AtOperand(s, M, PushOp(z, op), p2, h2, i + 1)
  <2>1. /\ Len(z.res) = h[m] + 1 /\ Expression(s, M, p[m] + 1, i, z.res[Len(z.res)])
        /\ \A k \in Splits(s, p[m] + 1, i) : Binds(s, k) >= q
    BY <1>5 DEF AtOperator
  <2>2. p[m] <= i
    <3>1. p[m] \in Nat
      <4> HIDE DEF m
      <4> QED  BY <1>7, <1>8
    <3>2. p[m] + 1 <= i  BY <2>1 DEF Expression
    <3> HIDE DEF m
    <3> QED  BY <3>1, <3>2
  <2>3. Under(z, m, Binds(s, i + 1))
    <3>1. CASE z.ops = <<>>
      <4>1. m = 0  BY <3>1
      <4> QED  BY <4>1 DEF Under
    <3>2. CASE z.ops # <<>> /\ Last(z.ops) \notin those
      <4>1. Last(z.ops) = z.ops[m] /\ z.ops[m] \in Pushed  BY <1>8, <3>2, LastIs
      <4>2. CASE z.ops[m] = "("  BY <4>2 DEF Under
      <4>3. CASE z.ops[m] # "("
        <5>1. z.ops[m] \in Applied  BY <4>1, <4>3 DEF Pushed
        <5>2. ~(sy_op_precedence(z.ops[m]) >= q) /\ sy_op_precedence(z.ops[m]) \in Int
          BY <3>2, <4>1, <5>1, PrecedenceInt
        <5>3. sy_op_precedence(z.ops[m]) < q
          <6> HIDE DEF q, m
          <6> QED  BY <1>3, <5>2
        <5> QED  BY <1>3, <5>3 DEF Under
      <4> QED  BY <4>2, <4>3
    <3> QED  BY <1>5, <3>1, <3>2
  <2>4. 1 \in {0, 1} /\ z.res[Len(z.res)] = z.res[h[m] + 1]  BY <2>1
  <2>5. \A k \in Splits(s, p[m] + 1, i) : Binds(s, k) >= Binds(s, i + 1)  BY <1>3, <2>1
  <2>6. s[i + 1][1] = op /\ op \in Binary  OBVIOUS
  <2> HIDE DEF op, q, those
  <2> QED  BY <1>2, <1>7, <1>10, <2>1, <2>2, <2>3, <2>4, <2>5, <2>6, OperatorPushed
<1>11. Scanned(s, M, i + 1, PushOp(z, op))
  <2>1. s[i + 1][1] = op  OBVIOUS
  <2> HIDE DEF op
  <2> QED  BY <1>1, <1>2, <1>7, <1>9, <1>10, <2>1, PushedScanned
<1> QED  BY <1>6, <1>7, <1>11

\* A parenthesis that closes where an operator is expected.
LEMMA CloseScanned ==
  ASSUME NEW s \in Seq(CondToken), NEW M, Says(s, M), NEW i \in Nat, i + 1 <= Len(s), NEW y,
         Scanned(s, M, i, y), y.at = "operator", s[i + 1][1] = ")"
  PROVE  Scanned(s, M, i + 1, Close(y))
<1> DEFINE z == Reduce(y, Applied)
<1>0. Going(y)  BY DEF Going
<1>1. /\ y \in Yards /\ (\A k \in 0..i : Level(s)[k] >= 0)
      /\ Len(y.res) <= Before(s, {"num"}, i) /\ Len(y.ops) <= Before(s, Names, i)
      /\ \E p, h : AtOperator(s, M, y, p, h, i, Tightest)
  BY <1>0, Zenon DEF Scanned
<1>2. PICK p, h : AtOperator(s, M, y, p, h, i, Tightest)  BY <1>1
<1>3. /\ AtOperator(s, M, z, p, h, i, 0)
      /\ Len(z.ops) <= Len(y.ops) /\ Len(z.res) <= Len(y.res)
      /\ z.ops = <<>> \/ Last(z.ops) \notin Applied
  <2>1. AtOperator(s, M, y, p, h, i, 0)  BY <1>2, Loosened
  <2>2. \A o : o \in Applied <=> o \in Applied /\ sy_op_precedence(o) >= 0
    <3>1. \A x \in 0..120 : x >= 0  OBVIOUS
    <3> QED  BY <3>1, Precedences
  <2>3. 0 \in Int  OBVIOUS
  <2> QED  BY <2>1, <2>2, <2>3, ReduceKeeps
<1>4. /\ Going(z) /\ z.ops = <<>> => Close(y) = Error(z, "unbalanced")
      /\ Going(z) /\ z.ops # <<>> => Close(y) = [z EXCEPT !.ops = Front(z.ops)]
  BY CloseCases
<1> HIDE DEF z
<1>5. /\ z \in Yards /\ Going(z) /\ z.at = "operator" /\ Stacked(s, M, z, p, h)
      /\ p \in [Nat -> Nat] /\ h \in [Nat -> Nat] /\ p[0] = 0
  BY <1>3 DEF AtOperator, Stacked, Going
<1> DEFINE m == Len(z.ops)
           v == z.res[Len(z.res)]
<1>6. /\ m \in Nat /\ Len(z.res) \in Nat /\ Len(y.ops) \in Nat /\ Len(y.res) \in Nat /\ z.ops \in Seq(Pushed)
      /\ p[m] \in Nat /\ h[m] \in Nat
  <2>1. /\ m \in Nat /\ Len(z.res) \in Nat /\ Len(y.ops) \in Nat /\ Len(y.res) \in Nat /\ z.ops \in Seq(Pushed)
    BY <1>1, <1>5, YardIs
  <2> HIDE DEF m
  <2> QED  BY <2>1, <1>5
<1>7. Len(z.res) <= Before(s, {"num"}, i) /\ m <= Before(s, Names, i)
  <2>1. Before(s, {"num"}, i) \in Nat /\ Before(s, Names, i) \in Nat  BY BeforeGrows
  <2> QED  BY <1>1, <1>3, <1>6, <2>1
<1>8. Len(z.res) = h[m] + 1 /\ Expression(s, M, p[m] + 1, i, v)  BY <1>3 DEF AtOperator
<1>9. i + 1 \in 1..Len(s) /\ i + 1 - 1 = i /\ i \in 1..Len(s) - 1
  <2>1. p[m] + 1 \in 1..Len(s) /\ i \in p[m] + 1..Len(s)  BY <1>8 DEF Expression
  <2> HIDE DEF m
  <2> QED  BY <1>6, <2>1
<1>10. Level(s)[i + 1] = Level(s)[i] - 1 /\ Level(s)[i] \in Int  BY <1>9, LevelStep
<1>11. CASE z.ops = <<>>
  <2>1. m = 0  BY <1>11
  <2>2. Level(s)[i] = 0
    <3> DEFINE lo == p[m] + 1
    <3>1. Expression(s, M, lo, i, v)  BY <1>8
    <3>2. lo - 1 = 0  BY <1>5, <2>1
    <3> HIDE DEF lo, v
    <3>3. Level(s)[i] = Level(s)[lo - 1]  BY <3>1 DEF Expression
    <3> QED  BY <3>2, <3>3, LevelIs
  <2>3. ~(Level(s)[i + 1] >= 0)  BY <1>10, <2>2
  <2>4. Of(M, 1, Len(s)) = {}  BY <1>9, <2>3, MeansNothing
  <2>5. Close(y) = Error(z, "unbalanced")  BY <1>4, <1>5, <1>11
  <2>6. Error(z, "unbalanced") \in Yards /\ Error(z, "unbalanced").at = "unbalanced"  BY <1>5, ErrorIs DEF Ends
  <2>7. Refused(s, M, Error(z, "unbalanced"))  BY <2>4, <2>6 DEF Refused
  <2> QED  BY <2>5, <2>6, <2>7, RefusedIsScanned
<1>12. CASE z.ops # <<>>
  <2> DEFINE w == [z EXCEPT !.ops = Front(z.ops)]
             a == p[m]
  <2>1. Close(y) = w  BY <1>4, <1>5, <1>12
  <2>2. m >= 1 /\ m \in 1..m /\ z.ops[m] = "("
    <3>1. m > 0 /\ Last(z.ops) = z.ops[m] /\ Last(z.ops) \in Pushed  BY <1>6, <1>12, LastIs
    <3> QED  BY <1>3, <1>6, <1>12, <3>1 DEF Pushed
  <2>3. Placed(s, M, z, p, h, m)  BY <1>5, <2>2 DEF Stacked
  <2>4. a \in 1..Len(s) /\ s[a][1] = "(" /\ h[m] = h[m - 1] /\ a = p[m - 1] + 1
    <3>1. "(" \notin Binary  BY BinariesAreOther
    <3> QED  BY <2>2, <2>3, <3>1, Zenon DEF Placed
  <2>5. Expression(s, M, a, i + 1, v) /\ Splits(s, a, i + 1) = {}
    <3>1. Expression(s, M, a + 1, i, v)  BY <1>8
    <3> HIDE DEF a, v
    <3> QED  BY <1>9, <2>4, <3>1, ParenthesesMean
  <2>6. w \in Yards /\ w.res = z.res /\ w.at = "operator" /\ Len(w.ops) = m - 1 /\ \A j \in 1..m - 1 : w.ops[j] = z.ops[j]
    <3>1. m - 1 \in 0..m  BY <1>6, <2>2
    <3>2. /\ Front(z.ops) \in Seq(Pushed) /\ Len(Front(z.ops)) = m - 1
          /\ \A j \in 1..m - 1 : Front(z.ops)[j] = z.ops[j]
      BY <1>6, <3>1, BeginningIs DEF Front
    <3>3. w.ops = Front(z.ops) /\ w.res = z.res /\ w.at = z.at /\ w \in Yards  BY <1>5, <3>2 DEF Yards
    <3> HIDE DEF w
    <3> QED  BY <1>5, <3>2, <3>3
  <2> HIDE DEF w
  <2>7. Stacked(s, M, w, p, h)
    <3>1. Len(w.ops) <= Len(z.ops)  BY <1>6, <2>6
    <3> QED  BY <1>5, <2>6, <3>1, StackedStays
  <2>8. AtOperator(s, M, w, p, h, i + 1, Tightest)
    <3>1. Len(w.res) = h[Len(w.ops)] + 1 /\ w.res[Len(w.res)] = v  BY <1>8, <2>4, <2>6
    <3>2. p[Len(w.ops)] + 1 = a  BY <2>4, <2>6
    <3> HIDE DEF a, v
    <3>3. Expression(s, M, p[Len(w.ops)] + 1, i + 1, w.res[Len(w.res)])  BY <2>5, <3>1, <3>2
    <3>4. Splits(s, p[Len(w.ops)] + 1, i + 1) = {}  BY <2>5, <3>2
    <3> QED  BY <2>6, <2>7, <3>1, <3>3, <3>4 DEF AtOperator
  <2>9. Level(s)[i + 1] >= 0
    <3>1. Level(s)[i + 1] = Level(s)[a - 1]  BY <2>5 DEF Expression
    <3>2. a - 1 \in 0..i
      <4>1. a + 1 <= i  BY <1>8 DEF Expression
      <4> HIDE DEF a
      <4> QED  BY <2>4, <4>1
    <3> QED  BY <1>1, <3>1, <3>2
  <2>10. \A k \in 0..i + 1 : Level(s)[k] >= 0  BY <1>1, <2>9, LevelsStay
  <2>11. Len(w.res) <= Before(s, {"num"}, i + 1)
    <3>1. /\ Before(s, {"num"}, i + 1) >= Before(s, {"num"}, i)
          /\ Before(s, {"num"}, i) \in Nat /\ Before(s, {"num"}, i + 1) \in Nat
      BY BeforeGrows
    <3> QED  BY <1>6, <1>7, <2>6, <3>1
  <2>12. Len(w.ops) <= Before(s, Names, i + 1)
    <3>1. Before(s, Names, i + 1) >= Before(s, Names, i) /\ Before(s, Names, i) \in Nat /\ Before(s, Names, i + 1) \in Nat
      BY BeforeGrows
    <3> QED  BY <1>6, <1>7, <2>6, <3>1
  <2>13. i + 1 > 0 /\ i + 1 \in Nat  OBVIOUS
  <2>14. \E p2, h2 : AtOperator(s, M, w, p2, h2, i + 1, Tightest)  BY <2>8
  <2> QED  BY <2>1, <2>6, <2>10, <2>11, <2>12, <2>13, <2>14, OperatorIsScanned
<1> QED  BY <1>11, <1>12

\* A token that is out of place.
LEMMA SyntaxScanned ==
  ASSUME NEW s \in Seq(CondToken), NEW M, Says(s, M), NEW i \in Nat, i + 1 <= Len(s), NEW y,
         Scanned(s, M, i, y),
         \/ y.at = "operand" /\ s[i + 1][1] \notin {"num", "!", "("}
         \/ y.at = "operator" /\ s[i + 1][1] \notin Binary \cup {")"}
  PROVE  Scanned(s, M, i + 1, Error(y, "syntax"))
<1>0. Going(y)  BY DEF Going
<1>1. /\ y \in Yards
      /\ y.at = "operand" /\ i > 0 => s[i][1] \notin {"num", ")"}
      /\ y.at = "operator" => i > 0 /\ s[i][1] \in {"num", ")"}
  BY <1>0, Zenon DEF Scanned
<1>2. Of(M, 1, Len(s)) = {}
  <2>1. CASE i = 0
    <3>1. s[1][1] \notin {"num", "!", "("} /\ Len(s) > 0  BY <1>1, <2>1
    <3> QED  BY <3>1, MeansNothing
  <2>2. CASE i # 0
    <3>1. i \in 1..Len(s) - 1 /\ i > 0  BY <2>2
    <3>2. ~Follows(s[i], s[i + 1])  BY <1>1, <3>1 DEF Follows
    <3> QED  BY <3>1, <3>2, MeansNothing
  <2> QED  BY <2>1, <2>2
<1>3. Error(y, "syntax") \in Yards /\ Error(y, "syntax").at = "syntax"  BY <1>1, ErrorIs DEF Ends
<1>4. Refused(s, M, Error(y, "syntax"))  BY <1>2, <1>3 DEF Refused
<1> QED  BY <1>3, <1>4, RefusedIsScanned

\* Any token.
LEMMA TokenScanned ==
  ASSUME NEW s \in Seq(CondToken), NEW M, Says(s, M), NEW i \in Nat, i + 1 <= Len(s), NEW y,
         Scanned(s, M, i, y)
  PROVE  Scanned(s, M, i + 1, Token(y, s[i + 1]))
<1> DEFINE t == s[i + 1]
<1>1. CASE ~Going(y)
  <2>1. Token(y, t) = y  BY <1>1, TokenCases
  <2>2. y \in Yards /\ Refused(s, M, y)  BY <1>1, Zenon DEF Scanned
  <2> QED  BY <2>1, <2>2, RefusedIsScanned
<1>2. CASE y.at = "operand" /\ t[1] = "num"
  <2>1. Token(y, t) = PushRes(y, t[2])  BY <1>2, TokenCases, Zenon
  <2> QED  BY <1>2, <2>1, NumberScanned
<1>3. CASE y.at = "operand" /\ t[1] \in {"!", "("}
  <2>1. Token(y, t) = PushOp(y, t[1])  BY <1>3, TokenCases, Zenon
  <2> QED  BY <1>3, <2>1, OpenScanned
<1>4. CASE y.at = "operator" /\ t[1] \in Binary
  <2>1. Token(y, t) = Operator(y, t[1])  BY <1>4, TokenCases, Zenon
  <2> QED  BY <1>4, <2>1, BinaryScanned
<1>5. CASE y.at = "operator" /\ t[1] = ")"
  <2>1. Token(y, t) = Close(y)  BY <1>5, TokenCases, Zenon
  <2> QED  BY <1>5, <2>1, CloseScanned
<1>6. CASE (y.at = "operand" /\ t[1] \notin {"num", "!", "("}) \/ (y.at = "operator" /\ t[1] \notin Binary \cup {")"})
  <2>1. Token(y, t) = Error(y, "syntax")  BY <1>6, TokenCases, Zenon
  <2> QED  BY <1>6, <2>1, SyntaxScanned
<1>7. ~Going(y) \/ y.at = "operand" \/ y.at = "operator"  BY DEF Going
<1> HIDE DEF t
<1> QED  BY <1>1, <1>2, <1>3, <1>4, <1>5, <1>6, <1>7

\* All of them.
LEMMA AllScanned ==
  ASSUME NEW s \in Seq(CondToken), NEW M, Says(s, M)
  PROVE  Scanned(s, M, Len(s), Scan(s))
<1>1. PICK f : Scans(s, f) /\ Scan(s) = f[Len(s)]  BY ScanIs
<1> DEFINE n == Len(s)
           T == {i \in Nat : i <= n => Scanned(s, M, i, f[i])}
<1>2. 0 \in T
  <2>1. f[0] = Empty  BY <1>1 DEF Scans
  <2> QED  BY <2>1, EmptyScanned
<1>3. ASSUME NEW i \in Nat, i \in T PROVE i + 1 \in T
  <2> SUFFICES ASSUME i + 1 <= n PROVE Scanned(s, M, i + 1, f[i + 1])  OBVIOUS
  <2>1. i + 1 \in 1..n /\ i + 1 - 1 = i /\ i <= n  OBVIOUS
  <2>2. f[i + 1] = Token(f[i], s[i + 1])
    <3>1. f[i + 1] = Token(f[i + 1 - 1], s[i + 1])  BY <1>1, <2>1 DEF Scans
    <3> QED  BY <2>1, <3>1
  <2>3. Scanned(s, M, i, f[i])  BY <1>3, <2>1
  <2> QED  BY <2>2, <2>3, TokenScanned
<1>4. n \in Nat /\ n <= n  OBVIOUS
<1>5. n \in T
  <2> HIDE DEF T, n
  <2> QED  BY <1>2, <1>3, <1>4, Induction
<1> QED  BY <1>1, <1>4, <1>5

\* What the end of a condition comes to.
LEMMA FinishIs ==
  ASSUME NEW s \in Seq(CondToken), NEW M, Says(s, M), NEW y, Scanned(s, M, Len(s), y)
  PROVE  \/ Refused(s, M, Finish(y))
         \/ /\ Finish(y).at = "done" /\ Len(Finish(y).res) = 1
            /\ Of(M, 1, Len(s)) = {Finish(y).res[1]}
<1> DEFINE n == Len(s)
<1>0. n \in Nat  OBVIOUS
<1>1. CASE ~Going(y)
  <2>1. Finish(y) = y  BY <1>1, FinishCases
  <2>2. Refused(s, M, y)  BY <1>1, Zenon DEF Scanned
  <2> QED  BY <2>1, <2>2
<1>2. CASE y.at = "operand"
  <2>0. Going(y)  BY <1>2 DEF Going
  <2>1. y \in Yards /\ (n > 0 => s[n][1] \notin {"num", ")"})  BY <1>2, <2>0, Zenon DEF Scanned
  <2>2. Of(M, 1, n) = {}
    <3>1. n = 0 \/ n > 0  BY <1>0
    <3> QED  BY <2>1, <3>1, MeansNothing
  <2>3. Finish(y) = Error(y, "syntax")  BY <1>2, FinishCases
  <2>4. Error(y, "syntax").at = "syntax"  BY <2>1, ErrorIs DEF Ends
  <2> QED  BY <2>2, <2>3, <2>4 DEF Refused
<1>3. CASE y.at = "operator"
  <2> DEFINE z == Reduce(y, Applied)
  <2>0. Going(y)  BY <1>3 DEF Going
  <2>1. /\ (\A k \in 0..n : Level(s)[k] >= 0)
        /\ \E p, h : AtOperator(s, M, y, p, h, n, Tightest)
    BY <1>3, <2>0, Zenon DEF Scanned
  <2>2. PICK p, h : AtOperator(s, M, y, p, h, n, Tightest)  BY <2>1
  <2>3. /\ AtOperator(s, M, z, p, h, n, 0)
        /\ z.ops = <<>> \/ Last(z.ops) \notin Applied
    <3>1. AtOperator(s, M, y, p, h, n, 0)  BY <2>2, Loosened
    <3>2. \A o : o \in Applied <=> o \in Applied /\ sy_op_precedence(o) >= 0
      <4>1. \A x \in 0..120 : x >= 0  OBVIOUS
      <4> QED  BY <4>1, Precedences
    <3>3. 0 \in Int  OBVIOUS
    <3> QED  BY <1>0, <3>1, <3>2, <3>3, ReduceKeeps
  <2>4. /\ Going(z) /\ z.ops # <<>> => Finish(y) = Error(z, "unbalanced")
        /\ Going(z) /\ z.ops = <<>> => Finish(y) = Error(z, IF Len(z.res) > 1 THEN "invalid" ELSE "done")
    BY <1>3, FinishCases
  <2> HIDE DEF z
  <2>5. /\ z \in Yards /\ Going(z) /\ Stacked(s, M, z, p, h)
        /\ p \in [Nat -> Nat] /\ h \in [Nat -> Nat] /\ p[0] = 0 /\ h[0] = 0
    BY <2>3 DEF AtOperator, Stacked, Going
  <2> DEFINE m == Len(z.ops)
             v == z.res[Len(z.res)]
  <2>6. Len(z.res) = h[m] + 1 /\ Expression(s, M, p[m] + 1, n, v)  BY <2>3 DEF AtOperator
  <2>7. m \in Nat /\ z.ops \in Seq(Pushed)  BY <2>5, YardIs
  <2>8. CASE z.ops = <<>>
    <3>1. m = 0  BY <2>8
    <3>2. Len(z.res) = 1 /\ p[m] + 1 = 1  BY <2>5, <2>6, <3>1
    <3>3. ~(Len(z.res) > 1)  BY <3>2
    <3>4. Finish(y) = Error(z, "done")  BY <2>4, <2>5, <2>8, <3>3
    <3>5. Error(z, "done").at = "done" /\ Error(z, "done").res = z.res
      <4>1. Error(z, "done").at = "done"  BY <2>5, ErrorIs DEF Ends
      <4> QED  BY <2>5, <4>1 DEF Error, Yards
    <3>6. Of(M, 1, n) = {z.res[1]}  BY <2>6, <3>2 DEF Expression
    <3> QED  BY <3>2, <3>4, <3>5, <3>6
  <2>9. CASE z.ops # <<>>
    <3> DEFINE a == p[m]
    <3>1. m >= 1 /\ m \in 1..m /\ z.ops[m] = "("
      <4>1. m > 0 /\ Last(z.ops) = z.ops[m] /\ Last(z.ops) \in Pushed  BY <2>7, <2>9, LastIs
      <4> QED  BY <2>3, <2>7, <2>9, <4>1 DEF Pushed
    <3>2. Placed(s, M, z, p, h, m)  BY <2>5, <3>1 DEF Stacked
    <3>3. a \in 1..n /\ s[a][1] = "("  BY <3>1, <3>2 DEF Placed
    <3> HIDE DEF a
    <3>4. Level(s)[a] = Level(s)[a - 1] + 1 /\ Level(s)[a - 1] \in Int  BY <3>3, LevelStep
    <3>5. Level(s)[a - 1] >= 0
      <4>1. a - 1 \in 0..n  BY <3>3
      <4> QED  BY <2>1, <4>1
    <3>6. Level(s)[n] = Level(s)[a]
      <4> DEFINE lo == a + 1
      <4>1. Expression(s, M, lo, n, v)  BY <2>6 DEF a
      <4>2. lo - 1 = a  BY <3>3
      <4> HIDE DEF lo, v
      <4> QED  BY <4>1, <4>2 DEF Expression
    <3>7. Level(s)[n] # 0  BY <3>4, <3>5, <3>6
    <3>8. Of(M, 1, n) = {}  BY <3>7, MeansNothing
    <3>9. Finish(y) = Error(z, "unbalanced")  BY <2>4, <2>5, <2>9
    <3>10. Error(z, "unbalanced").at = "unbalanced"  BY <2>5, ErrorIs DEF Ends
    <3> QED  BY <3>8, <3>9, <3>10 DEF Refused
  <2> QED  BY <2>8, <2>9
<1>4. ~Going(y) \/ y.at = "operand" \/ y.at = "operator"  BY DEF Going
<1> QED  BY <1>1, <1>2, <1>3, <1>4

\* Where the scanner ends, and what the text means.
LEMMA ConditionsAgree == Texts => ConditionAgrees
<1> SUFFICES ASSUME Texts, kind = "condition" PROVE ConditionAgrees
  BY DEF ConditionAgrees
<1> DEFINE y == Condition(input)
<1>1. input \in Seq(CondToken)  BY DEF Texts
<1>2. PICK M : Says(input, M) /\ Meaning(input) = Of(M, 1, Len(input))  BY <1>1, MeaningIs
<1>3. Scanned(input, M, Len(input), Scan(input))  BY <1>1, <1>2, AllScanned
<1>4. y = Finish(Scan(input))  BY DEF Condition
<1>5. \/ Refused(input, M, y)
      \/ y.at = "done" /\ Len(y.res) = 1 /\ Of(M, 1, Len(input)) = {y.res[1]}
  <2>1. \/ Refused(input, M, Finish(Scan(input)))
        \/ /\ Finish(Scan(input)).at = "done" /\ Len(Finish(Scan(input)).res) = 1
           /\ Of(M, 1, Len(input)) = {Finish(Scan(input)).res[1]}
    BY <1>1, <1>2, <1>3, FinishIs
  <2> QED  BY <1>4, <2>1
<1>6. ConditionAgrees <=>
        CASE y.at = "done" -> Meaning(input) = {y.res[1]} /\ Len(y.res) = 1
          [] y.at = "too complex" -> \/ Count(input, {"num"}) > MAX_CONDITIONS
                                     \/ Count(input, Names) > MAX_CONDITIONS
          [] OTHER -> Meaning(input) = {} /\ y.at \in {"syntax", "unbalanced"}
  BY Zenon DEF ConditionAgrees, Names
<1> HIDE DEF y
<1>7. CASE y.at = "done"
  <2>1. Meaning(input) = {y.res[1]} /\ Len(y.res) = 1  BY <1>2, <1>5, <1>7 DEF Refused
  <2> QED  BY <1>6, <1>7, <2>1, Zenon
<1>8. CASE y.at = "too complex"
  <2>1. Count(input, {"num"}) > MAX_CONDITIONS \/ Count(input, Names) > MAX_CONDITIONS  BY <1>5, <1>8 DEF Refused
  <2>2. y.at # "done"  BY <1>8
  <2> QED  BY <1>6, <1>8, <2>1, <2>2, Zenon
<1>9. CASE y.at # "done" /\ y.at # "too complex"
  <2>1. Meaning(input) = {} /\ y.at \in {"syntax", "unbalanced"}  BY <1>2, <1>5, <1>9 DEF Refused
  <2> QED  BY <1>6, <1>9, <2>1, Zenon
<1> QED  BY <1>7, <1>8, <1>9

\* The scanner's shunting yard (SY_APPLY_OP_FROM_STACK and the rules around it)
\* gives a condition the value it means, and an error only to one that means
\* nothing or needs more places than a stack has, for a condition of any length
\* and stacks of any size. It is never short of operands and has none left.
THEOREM Conditions == Spec => []ConditionAgrees
BY TextsAre, ConditionsAgree, PTL
================================================================================
