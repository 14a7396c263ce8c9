---------------------------- MODULE SpDisableProofs ----------------------------
(* SpDisable implements SpVerdict: however calls and walks are nested, and  *)
(* whatever rules, calls, files and lists there are, the walk of should_disable *)
(* and should_drop_on_ret does what one decision by the first decisive rule *)
(* does. The lists have the order of the file, and chains match inside only. *)
EXTENDS SpDisable, SequenceTheorems, WellFoundedInduction, TLAPS

-----------------------------------------------------------------------------
(* Induction over the natural numbers, for sets of them.                   *)

\* A set of numbers that is not empty has a least one.
LEMMA LeastNumber ==
  ASSUME NEW T \in SUBSET Nat, T # {}
  PROVE  \E n \in T : \A m \in T : n <= m
<1> DEFINE R == OpToRel(<, Nat)
<1>1. IsWellFoundedOn(R, Nat)  BY NatLessThanWellFounded
<1>2. \A x, y \in Nat : <<y, x>> \in R <=> y < x  BY DEF OpToRel
<1> HIDE DEF R
<1>3. \E x \in T : \A y \in T : ~(<<y, x>> \in R)  BY <1>1, WFMin
<1>4. \A x, y \in T : ~(<<y, x>> \in R) => x <= y  BY <1>2
<1> QED  BY <1>3, <1>4

\* A set that holds 0 and the successor of what it holds has every number.
LEMMA Induction ==
  ASSUME NEW T, 0 \in T, \A n \in Nat : n \in T => n + 1 \in T
  PROVE  Nat \subseteq T
<1> DEFINE U == {n \in Nat : n \notin T}
<1> SUFFICES ASSUME U # {} PROVE FALSE  OBVIOUS
<1>1. PICK n \in U : \A m \in U : n <= m  BY LeastNumber
<1>2. n # 0 /\ n \in Nat /\ n - 1 \in Nat  OBVIOUS
<1>3. n - 1 \notin U  BY <1>1, <1>2
<1> QED  BY <1>2, <1>3

-----------------------------------------------------------------------------
(* The lists                                                               *)

\* f is the function Indices computes, as far as n.
CountsUp(f, S, n) ==
  f = [i \in 0..n |-> IF i = 0 THEN <<>> ELSE IF i \in S THEN Append(f[i - 1], i) ELSE f[i - 1]]

\* The recursion has a solution, so the function is one.
LEMMA CountUpExists == ASSUME NEW S, NEW n \in Nat PROVE \E f : CountsUp(f, S, n)
<1> DEFINE T == {m \in Nat : \E f : CountsUp(f, S, m)}
<1>1. CountsUp([i \in 0..0 |-> <<>>], S, 0)  BY DEF CountsUp
<1>2. ASSUME NEW m \in Nat, m \in T PROVE m + 1 \in T
  <2>1. PICK f : CountsUp(f, S, m)  BY <1>2
  <2> DEFINE next == IF m + 1 \in S THEN Append(f[m], m + 1) ELSE f[m]
             g    == [i \in 0..m + 1 |-> IF i <= m THEN f[i] ELSE next]
             rhs  == [i \in 0..m + 1 |->
                       IF i = 0 THEN <<>> ELSE IF i \in S THEN Append(g[i - 1], i) ELSE g[i - 1]]
  <2>2. ASSUME NEW i \in 0..m + 1 PROVE g[i] = rhs[i]
    <3>1. CASE i = m + 1  BY <3>1
    <3>2. CASE i # m + 1  
      <4>1. i \in 0..m /\ g[i] = f[i]  BY <3>2
      <4>2. i > 0 => g[i - 1] = f[i - 1]  BY <4>1
      <4>3. f[i] = IF i = 0 THEN <<>> ELSE IF i \in S THEN Append(f[i - 1], i) ELSE f[i - 1]
        BY <2>1, <4>1 DEF CountsUp
      <4> QED  BY <4>1, <4>2, <4>3
    <3> QED  BY <3>1, <3>2
  <2>3. g = rhs  BY <2>2
  <2>4. CountsUp(g, S, m + 1)  BY <2>3 DEF CountsUp
  <2> QED  BY <2>4
<1>3. n \in T  BY <1>1, <1>2, Induction
<1> QED  BY <1>3

LEMMA IndicesCount ==
  ASSUME NEW S, NEW n \in Nat
  PROVE  \E f : CountsUp(f, S, n) /\ Indices(S, n) = f[n]
<1> DEFINE Upto[i \in 0..n] ==
             IF i = 0 THEN <<>> ELSE IF i \in S THEN Append(Upto[i - 1], i) ELSE Upto[i - 1]
<1>0. \E f : CountsUp(f, S, n)  BY CountUpExists
<1>1. CountsUp(Upto, S, n)  BY <1>0 DEF CountsUp
<1>2. Indices(S, n) = Upto[n]  BY DEF Indices
<1> HIDE DEF Upto
<1> QED  BY <1>1, <1>2

\* s lists what is in S up to m, upwards.
Lists(s, S, m) ==
  /\ s \in Seq(Nat) /\ \A k \in 1..Len(s) : s[k] \in S /\ s[k] \in 1..m
  /\ \A k, l \in 1..Len(s) : k < l => s[k] < s[l]
  /\ \A i \in 1..m : i \in S => \E k \in 1..Len(s) : s[k] = i

LEMMA AppendLists ==
  ASSUME NEW S, NEW m \in Nat, NEW s, Lists(s, S, m), m + 1 \in S
  PROVE  Lists(Append(s, m + 1), S, m + 1)
<1> DEFINE t == Append(s, m + 1)
<1>1. s \in Seq(Nat) /\ Len(s) \in Nat  BY DEF Lists
<1>2. /\ t \in Seq(Nat) /\ Len(t) = Len(s) + 1 /\ t[Len(s) + 1] = m + 1
      /\ \A k \in 1..Len(s) : t[k] = s[k]
  BY <1>1
<1> HIDE DEF t
<1>3. \A k \in 1..Len(s) : t[k] \in S /\ t[k] \in 1..m /\ t[k] = s[k]  BY <1>2 DEF Lists
<1>4. \A k \in 1..Len(t) : k = Len(s) + 1 \/ k \in 1..Len(s)  BY <1>1, <1>2
<1>5. \A k \in 1..Len(t) : t[k] \in S /\ t[k] \in 1..m + 1  BY <1>2, <1>3, <1>4
<1>6. ASSUME NEW k \in 1..Len(t), NEW l \in 1..Len(t), k < l PROVE t[k] < t[l]
  <2>1. k \in 1..Len(s)  BY <1>1, <1>2, <1>6
  <2>2. CASE l = Len(s) + 1  BY <1>2, <1>3, <2>1, <2>2
  <2>3. CASE l \in 1..Len(s)  BY <1>3, <1>6, <2>1, <2>3 DEF Lists
  <2> QED  BY <1>4, <2>2, <2>3
<1>7. ASSUME NEW i \in 1..m + 1, i \in S PROVE \E k \in 1..Len(t) : t[k] = i
  <2>1. CASE i = m + 1  BY <1>1, <1>2, <2>1
  <2>2. CASE i # m + 1
    <3>1. PICK k \in 1..Len(s) : s[k] = i  BY <1>7, <2>2 DEF Lists
    <3> QED  BY <1>1, <1>2, <3>1
  <2> QED  BY <2>1, <2>2
<1> QED  BY <1>2, <1>5, <1>6, <1>7 DEF Lists, t

\* Indices lists the set, in order and without a gap.
LEMMA IndicesLists == ASSUME NEW S, NEW n \in Nat PROVE Lists(Indices(S, n), S, n)
<1>1. PICK f : CountsUp(f, S, n) /\ Indices(S, n) = f[n]  BY IndicesCount
<1> DEFINE T == {m \in Nat : m <= n => Lists(f[m], S, m)}
<1>2. 0 \in T
  <2>1. f[0] = <<>>  BY <1>1 DEF CountsUp
  <2>2. Lists(<<>>, S, 0)  BY EmptySeq DEF Lists
  <2> QED  BY <2>1, <2>2
<1>3. ASSUME NEW m \in Nat, m \in T PROVE m + 1 \in T
  <2> SUFFICES ASSUME m + 1 <= n PROVE Lists(f[m + 1], S, m + 1)  OBVIOUS
  <2>1. Lists(f[m], S, m)  BY <1>3
  <2>2. f[m + 1] = IF m + 1 \in S THEN Append(f[m], m + 1) ELSE f[m]
    <3>1. m + 1 \in 0..n /\ m + 1 # 0 /\ (m + 1) - 1 = m  OBVIOUS
    <3> QED  BY <1>1, <3>1 DEF CountsUp
  <2>3. CASE m + 1 \in S  BY <2>1, <2>2, <2>3, AppendLists
  <2>4. CASE m + 1 \notin S
    <3>1. f[m + 1] = f[m] /\ \A i \in 1..m + 1 : i \in S => i \in 1..m  BY <2>2, <2>4
    <3> QED  BY <2>1, <3>1 DEF Lists
  <2> QED  BY <2>3, <2>4
<1>4. n \in T  BY <1>2, <1>3, Induction
<1> QED  BY <1>1, <1>4

LEMMA ListsNothing ==
  ASSUME NEW S, NEW m \in Nat, Lists(<<>>, S, m), NEW x \in 1..m
  PROVE  x \notin S
<1>1. Len(<<>>) = 0  BY EmptySeq
<1> QED  BY <1>1 DEF Lists

\* The list of a function holds places of rules.
LEMMA ListsHoldRules ==
  ASSUME NEW r \in Configs, NEW f, NEW onRet
  PROVE  Len(r) \in Nat /\ RuleList(r, f, onRet) \in Seq(1..Len(r))
<1>1. Len(r) \in Nat  BY RulesAreParsed
<1>2. ASSUME NEW S, NEW s, Lists(s, S, Len(r)) PROVE s \in Seq(1..Len(r))
  <2>1. s \in Seq(Nat) /\ \A k \in 1..Len(s) : s[k] \in 1..Len(r)  BY <1>2 DEF Lists
  <2>2. Len(s) \in Nat /\ s \in [1..Len(s) -> 1..Len(r)]  BY <2>1, LenProperties
  <2> QED  BY <2>2, SeqDef
<1>3. Named(r, f, onRet) \in Seq(1..Len(r))  BY <1>1, <1>2, IndicesLists DEF Named
<1>4. Regexps(r, onRet) \in Seq(1..Len(r))  BY <1>1, <1>2, IndicesLists DEF Regexps
<1>5. <<>> \in Seq(1..Len(r))  BY EmptySeq
<1> QED  BY <1>1, <1>3, <1>4, <1>5 DEF RuleList

-----------------------------------------------------------------------------
(* The inductive invariant. The walk of the frame at place d has passed only *)
(* rules that decide nothing, has noted those that said yes, and stands at  *)
(* one that allows if it was ended by one.                                 *)

TraceTo(d)    == [k \in 1..d |-> stack[k].call]
ListOf(d)     == RuleList(rules, stack[d].call.fn, stack[d].stage = "ret")
SaysAt(d, k)  == IF stack[d].stage = "ret"
                 THEN RetMatches(rules[ListOf(d)[k]], TraceTo(d), stack[d].ret)
                 ELSE CallMatches(rules[ListOf(d)[k]], TraceTo(d), client)
DecidesAt(d, k) == SaysAt(d, k) /\ (rules[ListOf(d)[k]].allow \/ ~rules[ListOf(d)[k]].simulation)
SaidBefore(d, n) == {ListOf(d)[j] : j \in {i \in 1..n - 1 : SaysAt(d, i)}}

WalkInv(d) ==
  /\ \A j \in 1..stack[d].at - 1 : ~DecidesAt(d, j)
  /\ stack[d].allowed => /\ stack[d].at \in 1..Len(ListOf(d)) /\ DecidesAt(d, stack[d].at)
                         /\ rules[ListOf(d)[stack[d].at]].allow
  /\ stack[d].stage = "call" => stack[d].seen = SaidBefore(d, stack[d].at)
WalksInv   == \A d \in 1..Len(stack) : stack[d].stage # "run" => WalkInv(d)
DisableInv == TypeOK /\ WalksInv

-----------------------------------------------------------------------------
(* Frames                                                                  *)

Names == Native \cup User \cup Construct

LEMMA TopFrame ==
  ASSUME TypeOK, stack # <<>>
  PROVE  Top \in 1..Len(stack) /\ Len(stack) \in Nat /\ F = stack[Top] /\ F \in Frames
<1>1. stack \in Seq(Frames)  BY DEF TypeOK
<1> QED  BY <1>1 DEF Top, F

LEMMA ListIs ==
  ASSUME TypeOK, NEW d \in 1..Len(stack), stack[d].stage # "run"
  PROVE  /\ ListOf(d) \in Seq(1..Len(rules)) /\ Len(ListOf(d)) \in Nat /\ Len(rules) \in Nat
         /\ \A k \in 1..Len(ListOf(d)) : ListOf(d)[k] \in 1..Len(rules)
         /\ stack[d].at \in 1..Len(ListOf(d)) + 1
<1>1. stack[d].call.fn \in Native \cup User \cup Construct /\ rules \in Configs
  <2>1. d # 1 /\ rules \in Configs  BY DEF TypeOK
  <2> QED  BY <2>1 DEF TypeOK
<1>2. ListOf(d) \in Seq(1..Len(rules)) /\ Len(rules) \in Nat  BY <1>1, ListsHoldRules DEF ListOf
<1>3. stack[d] \in Frames  BY DEF TypeOK
<1>4. stack[d].at \in Nat \ {0} /\ stack[d].at <= Len(ListOf(d)) + 1
  BY <1>3 DEF Frames, ListOf, TypeOK
<1> HIDE DEF Frames
<1> QED  BY <1>2, <1>4

\* What is said of a frame depends on the calls up to it, its stage and its value.
LEMMA SaysLocally ==
  ASSUME NEW d \in Nat, \A k \in 1..d : stack'[k].call = stack[k].call,
         d # 0, stack'[d].stage = stack[d].stage, stack'[d].ret = stack[d].ret,
         UNCHANGED <<rules, client>>
  PROVE  /\ ListOf(d)' = ListOf(d)
         /\ \A k : SaysAt(d, k)' = SaysAt(d, k) /\ DecidesAt(d, k)' = DecidesAt(d, k)
         /\ \A n : SaidBefore(d, n)' = SaidBefore(d, n)
<1>1. TraceTo(d)' = TraceTo(d)  BY DEF TraceTo
<1>2. stack'[d].call = stack[d].call  OBVIOUS
<1>3. ListOf(d)' = ListOf(d)  BY <1>2 DEF ListOf
<1>4. \A k : SaysAt(d, k)' = SaysAt(d, k)  BY <1>1, <1>3 DEF SaysAt
<1>5. \A k : DecidesAt(d, k)' = DecidesAt(d, k)  BY <1>3, <1>4 DEF DecidesAt
<1>6. \A n : SaidBefore(d, n)' = SaidBefore(d, n)  BY <1>3, <1>4 DEF SaidBefore
<1> QED  BY <1>3, <1>4, <1>5, <1>6

LEMMA WalkLocally ==
  ASSUME NEW d \in Nat, \A k \in 1..d : stack'[k].call = stack[k].call, d # 0,
         stack'[d].stage = stack[d].stage, stack'[d].ret = stack[d].ret,
         stack'[d].at = stack[d].at, stack'[d].allowed = stack[d].allowed, stack'[d].seen = stack[d].seen,
         UNCHANGED <<rules, client>>, WalkInv(d)
  PROVE  WalkInv(d)'
<1>1. /\ ListOf(d)' = ListOf(d)
      /\ \A k : SaysAt(d, k)' = SaysAt(d, k) /\ DecidesAt(d, k)' = DecidesAt(d, k)
      /\ \A n : SaidBefore(d, n)' = SaidBefore(d, n)
  BY SaysLocally
<1> QED  BY <1>1 DEF WalkInv

\* A step changes the frame at the top to g and leaves the others.
LEMMA TopChanges ==
  ASSUME TypeOK, stack # <<>>, NEW g \in Frames, stack' = [stack EXCEPT ![Top] = g]
  PROVE  /\ stack' \in Seq(Frames) /\ Len(stack') = Len(stack) /\ stack'[Top] = g
         /\ \A i \in 1..Len(stack) : i # Top => stack'[i] = stack[i]
<1>1. stack \in Seq(Frames) /\ Top \in 1..Len(stack)  BY TopFrame DEF TypeOK
<1> HIDE DEF Frames, Top
<1> QED  BY <1>1

LEMMA SaysIs ==
  ASSUME NEW d, d = Top
  PROVE  /\ List = ListOf(d) /\ Rule = rules[ListOf(d)[F.at]] /\ F = stack[d]
         /\ Says <=> SaysAt(d, F.at)
         /\ Says /\ (Rule.allow \/ ~Rule.simulation) <=> DecidesAt(d, F.at)
BY DEF List, ListOf, Rule, Says, SaysAt, DecidesAt, Trace, TraceTo, F

LEMMA TopInv ==
  ASSUME DisableInv, stack # <<>>, NEW d, d = Top, NEW g \in Frames, stack' = [stack EXCEPT ![Top] = g],
         UNCHANGED <<rules, client, dropped, crashed>>,
         IF d = 1 THEN g.stage = "run" ELSE g.call.fn \in Names,
         g.stage = "call" => g.call \in Calls,
         g.stage # "run" => WalkInv(d)' /\ g.at <= Len(RuleList(rules, g.call.fn, g.stage = "ret")) + 1
  PROVE  DisableInv'
<1>1. TypeOK /\ WalksInv /\ Frames' = Frames /\ Top \in 1..Len(stack) /\ Len(stack) \in Nat
  BY TopFrame DEF DisableInv, Frames
<1>2. /\ stack' \in Seq(Frames) /\ Len(stack') = Len(stack) /\ stack'[d] = g
      /\ \A i \in 1..Len(stack) : i # d => stack'[i] = stack[i]
  BY <1>1, TopChanges
<1>3. ASSUME NEW i \in 1..Len(stack')
      PROVE  /\ IF i = 1 THEN stack'[i].stage = "run" ELSE stack'[i].call.fn \in Names
             /\ stack'[i].stage = "call" => stack'[i].call \in Calls
             /\ stack'[i].stage # "run" =>
                  /\ stack'[i].at <= Len(RuleList(rules, stack'[i].call.fn, stack'[i].stage = "ret")) + 1
                  /\ WalkInv(i)'
  <2>1. CASE i = d  BY <1>2, <2>1
  <2>2. CASE i # d
    <3>1. i \in 1..Len(stack) /\ i < d /\ stack'[i] = stack[i]  BY <1>1, <1>2, <2>2 DEF Top
    <3>2. stack'[i].stage # "run" => WalkInv(i)'
      <4>1. SUFFICES ASSUME stack'[i].stage # "run" PROVE WalkInv(i)'  OBVIOUS
      <4>2. WalkInv(i)  BY <1>1, <3>1, <4>1 DEF WalksInv
      <4>3. i \in Nat /\ i # 0 /\ \A k \in 1..i : stack'[k].call = stack[k].call
        BY <1>1, <1>2, <3>1
      <4> QED  BY <3>1, <4>2, <4>3, WalkLocally
    <3> HIDE DEF Frames
    <3> QED  BY <1>1, <3>1, <3>2 DEF TypeOK, Names
  <2> QED  BY <2>1, <2>2
<1> HIDE DEF Frames
<1>4. TypeOK'  BY <1>1, <1>2, <1>3 DEF TypeOK, Names
<1>5. WalksInv'  BY <1>3 DEF WalksInv
<1> QED  BY <1>4, <1>5 DEF DisableInv

\* The frame f with its walk elsewhere is a frame of the same call.
OfSameCall(f, g) == g \in Frames /\ g.call = f.call /\ g.stage = f.stage /\ g.ret = f.ret /\ g.mid = f.mid

LEMMA ChangedAt ==
  ASSUME NEW f \in Frames, NEW n \in Nat \ {0}
  PROVE  LET g == [f EXCEPT !.at = n]
         IN  OfSameCall(f, g) /\ g.at = n /\ g.allowed = f.allowed /\ g.seen = f.seen
BY DEF Frames, OfSameCall
LEMMA ChangedAllowed ==
  ASSUME NEW f \in Frames, NEW a \in BOOLEAN
  PROVE  LET g == [f EXCEPT !.allowed = a]
         IN  OfSameCall(f, g) /\ g.at = f.at /\ g.allowed = a /\ g.seen = f.seen
BY DEF Frames, OfSameCall
LEMMA ChangedSeen ==
  ASSUME NEW f \in Frames, NEW S \in SUBSET (1..Len(rules))
  PROVE  LET g == [f EXCEPT !.seen = S]
         IN  OfSameCall(f, g) /\ g.at = f.at /\ g.allowed = f.allowed /\ g.seen = S
BY DEF Frames, OfSameCall
LEMMA ChangedLogging ==
  ASSUME NEW f \in Frames, NEW l \in BOOLEAN
  PROVE  LET g == [f EXCEPT !.logging = l]
         IN  OfSameCall(f, g) /\ g.at = f.at /\ g.allowed = f.allowed /\ g.seen = f.seen
BY DEF Frames, OfSameCall

\* A step along the list, or to its end: the frame keeps its call.
LEMMA WalkStep ==
  ASSUME DisableInv, AtRule, NEW d, d = Top, NEW g, OfSameCall(F, g), WalkOn(g), g.at \in {F.at, F.at + 1},
         g.at = F.at + 1 => ~g.allowed /\ ~DecidesAt(d, F.at),
         g.allowed => DecidesAt(d, F.at) /\ Rule.allow,
         F.stage = "call" => g.seen = IF g.at = F.at + 1 /\ SaysAt(d, F.at) THEN F.seen \cup {List[F.at]} ELSE F.seen
  PROVE  DisableInv'
<1> DEFINE n == g.at
           a == g.allowed
           S == g.seen
<1>1. /\ TypeOK /\ WalksInv /\ stack # <<>> /\ F.stage # "run" /\ ~F.allowed /\ F.at <= Len(List)
      /\ F = stack[d] /\ F \in Frames /\ d \in 1..Len(stack) /\ Len(stack) \in Nat
      /\ List = ListOf(d) /\ Rule = rules[ListOf(d)[F.at]]
  BY TopFrame, SaysIs DEF DisableInv, AtRule, Walking
<1>2. /\ Len(List) \in Nat /\ F.at \in 1..Len(List)
      /\ d # 1 /\ F.call.fn \in Names /\ WalkInv(d) /\ List[F.at] \in 1..Len(rules)
      /\ F.stage = "call" => F.call \in Calls
  <2>2. /\ Len(ListOf(d)) \in Nat /\ F.at \in 1..Len(ListOf(d)) + 1
        /\ \A k \in 1..Len(ListOf(d)) : ListOf(d)[k] \in 1..Len(rules)
    BY <1>1, ListIs
  <2>3. d # 1 /\ WalkInv(d) /\ (F.stage = "call" => F.call \in Calls)  BY <1>1 DEF TypeOK, WalksInv
  <2>4. F.call.fn \in Names  BY <1>1, <2>3 DEF TypeOK, Names
  <2> QED  BY <1>1, <2>2, <2>3, <2>4
<1>3. g \in Frames /\ g.call = F.call /\ g.stage = F.stage /\ g.ret = F.ret
  BY DEF OfSameCall
<1>4. stack' = [stack EXCEPT ![Top] = g] /\ UNCHANGED <<rules, client, dropped, crashed>>
  BY DEF WalkOn
<1>5. stack'[d] = g /\ \A i \in 1..Len(stack) : i # d => stack'[i] = stack[i]
  BY <1>1, <1>3, <1>4, TopChanges
<1>6. /\ ListOf(d)' = ListOf(d)
      /\ \A k : SaysAt(d, k)' = SaysAt(d, k) /\ DecidesAt(d, k)' = DecidesAt(d, k)
      /\ \A m : SaidBefore(d, m)' = SaidBefore(d, m)
  <2>1. d \in Nat /\ d # 0 /\ \A k \in 1..d : stack'[k].call = stack[k].call
    BY <1>1, <1>3, <1>5 DEF Top
  <2>2. stack'[d].stage = stack[d].stage /\ stack'[d].ret = stack[d].ret
    BY <1>1, <1>3, <1>5
  <2> QED  BY <1>4, <2>1, <2>2, SaysLocally
<1>7. \A j \in 1..n - 1 : ~DecidesAt(d, j)
  BY <1>1, <1>2 DEF WalkInv
<1>8. F.stage = "call" => S = SaidBefore(d, n)
  <2>1. CASE n = F.at  BY <1>1, <1>2, <2>1 DEF WalkInv
  <2>2. CASE n = F.at + 1
    <3>1. {i \in 1..n - 1 : SaysAt(d, i)} =
            {i \in 1..F.at - 1 : SaysAt(d, i)} \cup (IF SaysAt(d, F.at) THEN {F.at} ELSE {})
      BY <1>2, <2>2
    <3>2. SaidBefore(d, n) = SaidBefore(d, F.at) \cup (IF SaysAt(d, F.at) THEN {List[F.at]} ELSE {})
      BY <1>1, <3>1 DEF SaidBefore
    <3> QED  BY <1>1, <1>2, <2>2, <3>2 DEF WalkInv
  <2> QED  BY <2>1, <2>2
<1>9. a => n = F.at  BY <1>2
<1>10. WalkInv(d)'
  BY <1>1, <1>2, <1>3, <1>4, <1>5, <1>6, <1>7, <1>8, <1>9, SMTT(20) DEF WalkInv
<1>11. g.at <= Len(RuleList(rules, g.call.fn, g.stage = "ret")) + 1
  BY <1>1, <1>2, <1>3 DEF ListOf
<1> QED  BY <1>1, <1>2, <1>3, <1>4, <1>10, <1>11, TopInv

-----------------------------------------------------------------------------
(* Every step keeps the invariant.                                         *)

LEMMA AtRuleIs ==
  ASSUME DisableInv, AtRule
  PROVE  /\ TypeOK /\ stack # <<>> /\ F \in Frames /\ F.stage # "run" /\ ~F.allowed
         /\ F.at \in 1..Len(List) /\ F.at + 1 \in Nat \ {0} /\ Len(List) \in Nat
         /\ List[F.at] \in 1..Len(rules)
<1>1. /\ TypeOK /\ stack # <<>> /\ F.stage # "run" /\ ~F.allowed /\ F.at <= Len(List)
      /\ F = stack[Top] /\ F \in Frames /\ Top \in 1..Len(stack) /\ List = ListOf(Top)
  BY TopFrame, SaysIs DEF DisableInv, AtRule, Walking
<1>2. /\ Len(ListOf(Top)) \in Nat /\ F.at \in 1..Len(ListOf(Top)) + 1
      /\ \A k \in 1..Len(ListOf(Top)) : ListOf(Top)[k] \in 1..Len(rules)
  BY <1>1, ListIs
<1> QED  BY <1>1, <1>2

LEMMA NextRuleInv == ASSUME DisableInv, NextRule PROVE DisableInv'
<1> DEFINE g1 == [F EXCEPT !.at = F.at + 1]
           g  == [g1 EXCEPT !.logging = FALSE]
<1>1. PICK d : d = Top  OBVIOUS
<1>2. AtRule /\ ~Says /\ WalkOn(g)  BY DEF NextRule
<1>3. F \in Frames /\ ~F.allowed /\ F.at + 1 \in Nat \ {0} /\ ~SaysAt(d, F.at) /\ ~DecidesAt(d, F.at)
  BY <1>1, <1>2, AtRuleIs, SaysIs DEF DecidesAt
<1>4. OfSameCall(F, g1) /\ g1.at = F.at + 1 /\ g1.allowed = F.allowed /\ g1.seen = F.seen  BY <1>3, ChangedAt
<1> HIDE DEF g1
<1>5. OfSameCall(g1, g) /\ g.at = g1.at /\ g.allowed = g1.allowed /\ g.seen = g1.seen
  BY <1>4, ChangedLogging DEF OfSameCall
<1> HIDE DEF g
<1>6. OfSameCall(F, g)  BY <1>4, <1>5 DEF OfSameCall
<1>7. g.at = F.at + 1 /\ ~g.allowed /\ g.seen = F.seen  BY <1>3, <1>4, <1>5
<1> QED  BY <1>1, <1>2, <1>3, <1>6, <1>7, WalkStep

LEMMA AllowInv == ASSUME DisableInv, Allow PROVE DisableInv'
<1> DEFINE g1 == [F EXCEPT !.allowed = TRUE]
           g  == [g1 EXCEPT !.logging = FALSE]
<1>1. PICK d : d = Top  OBVIOUS
<1>2. AtRule /\ Says /\ Rule.allow /\ WalkOn(g)  BY DEF Allow
<1>3. F \in Frames /\ F.at \in Nat /\ DecidesAt(d, F.at)  BY <1>1, <1>2, AtRuleIs, SaysIs
<1>4. OfSameCall(F, g1) /\ g1.at = F.at /\ g1.seen = F.seen  BY <1>3, ChangedAllowed
<1> HIDE DEF g1
<1>5. OfSameCall(g1, g) /\ g.at = g1.at /\ g.seen = g1.seen
  BY <1>4, ChangedLogging DEF OfSameCall
<1> HIDE DEF g
<1>6. OfSameCall(F, g)  BY <1>4, <1>5 DEF OfSameCall
<1>7. g.at = F.at /\ g.at # F.at + 1 /\ g.seen = F.seen  BY <1>3, <1>4, <1>5
<1> QED  BY <1>1, <1>2, <1>3, <1>6, <1>7, WalkStep

LEMMA SimulateInv == ASSUME DisableInv, Simulate PROVE DisableInv'
<1> DEFINE S  == IF F.stage = "call" THEN F.seen \cup {List[F.at]} ELSE F.seen
           g1 == [F EXCEPT !.at = F.at + 1]
           g2 == [g1 EXCEPT !.logging = TRUE]
           g  == [g2 EXCEPT !.seen = S]
<1>1. PICK d : d = Top  OBVIOUS
<1>2. AtRule /\ Says /\ ~Rule.allow /\ Rule.simulation /\ WalkOn(g)  BY DEF Simulate
<1>3. /\ F \in Frames /\ ~F.allowed /\ F.at + 1 \in Nat \ {0} /\ List[F.at] \in 1..Len(rules)
      /\ SaysAt(d, F.at) /\ ~DecidesAt(d, F.at)
  BY <1>1, <1>2, AtRuleIs, SaysIs
<1>4. S \in SUBSET (1..Len(rules))  BY <1>3 DEF Frames
<1>5. OfSameCall(F, g1) /\ g1.at = F.at + 1 /\ g1.allowed = F.allowed  BY <1>3, ChangedAt
<1> HIDE DEF g1, S
<1>6. OfSameCall(g1, g2) /\ g2.at = g1.at /\ g2.allowed = g1.allowed
  BY <1>5, ChangedLogging DEF OfSameCall
<1> HIDE DEF g2
<1>7. OfSameCall(g2, g) /\ g.at = g2.at /\ g.allowed = g2.allowed /\ g.seen = S
  BY <1>4, <1>6, ChangedSeen DEF OfSameCall
<1> HIDE DEF g
<1>8. OfSameCall(F, g)  BY <1>5, <1>6, <1>7 DEF OfSameCall
<1>9. g.at = F.at + 1 /\ ~g.allowed /\ (F.stage = "call" => g.seen = F.seen \cup {List[F.at]})
  BY <1>3, <1>5, <1>6, <1>7 DEF S
<1> QED  BY <1>1, <1>2, <1>3, <1>8, <1>9, WalkStep

LEMMA SomeCalls ==
  /\ \A c \in Calls : c \in CallsMade /\ Made(c) \in CallsMade /\ c.fn \in Names /\ Made(c).fn \in Names
  /\ \A file \in DOMAIN Sha : MainCall(file) \in CallsMade
<1>1. ASSUME NEW c \in Calls PROVE c.fn \in Names /\ Made(c).fn = c.fn
  BY CallsNameFunctions DEF Made, Names
<1> QED  BY <1>1 DEF CallsMade

\* A step that leaves the frames up to n alone.
LEMMA BelowRemains ==
  ASSUME DisableInv, NEW n \in 0..Len(stack), n <= Len(stack'),
         \A i \in 1..n : stack'[i] = stack[i], UNCHANGED <<rules, client>>
  PROVE  \A i \in 1..n :
           /\ IF i = 1 THEN stack'[i].stage = "run" ELSE stack'[i].call.fn \in Names
           /\ stack'[i].stage = "call" => stack'[i].call \in Calls
           /\ stack'[i].stage # "run" =>
                /\ stack'[i].at <= Len(RuleList(rules, stack'[i].call.fn, stack'[i].stage = "ret")) + 1
                /\ WalkInv(i)'
<1> SUFFICES ASSUME NEW i \in 1..n
             PROVE  /\ IF i = 1 THEN stack'[i].stage = "run" ELSE stack'[i].call.fn \in Names
                    /\ stack'[i].stage = "call" => stack'[i].call \in Calls
                    /\ stack'[i].stage # "run" =>
                         /\ stack'[i].at <= Len(RuleList(rules, stack'[i].call.fn, stack'[i].stage = "ret")) + 1
                         /\ WalkInv(i)'
  OBVIOUS
<1>1. TypeOK /\ WalksInv /\ Len(stack) \in Nat  BY DEF DisableInv, TypeOK
<1>2. i \in 1..Len(stack) /\ i \in Nat /\ i # 0 /\ stack'[i] = stack[i]
      /\ \A k \in 1..i : stack'[k].call = stack[k].call
  BY <1>1
<1>3. ASSUME stack'[i].stage # "run" PROVE WalkInv(i)'
  <2>1. WalkInv(i)  BY <1>1, <1>2, <1>3 DEF WalksInv
  <2> QED  BY <1>2, <2>1, WalkLocally
<1> QED  BY <1>1, <1>2, <1>3 DEF TypeOK, Names

LEMMA ListLength ==
  ASSUME TypeOK, NEW f \in Names, NEW b \in BOOLEAN
  PROVE  Len(RuleList(rules, f, b)) \in Nat
<1> DEFINE L == RuleList(rules, f, b)
<1>1. L \in Seq(1..Len(rules))  BY ListsHoldRules DEF TypeOK, Names
<1> HIDE DEF L
<1>2. Len(L) \in Nat  BY <1>1
<1> QED  BY <1>2 DEF L

\* What a call puts on the stack.
LEMMA CallEnters ==
  ASSUME DisableInv, NEW c \in Calls, Call(c)
  PROVE  \E g, mid, stage :
           /\ g = Frame(c, stage, mid) /\ mid \in BOOLEAN /\ stage \in {"call", "run"}
           /\ stack' = Append(stack, g)
<1>1. PICK mid \in Mid(F) : stack' = Append(stack, Frame(c, IF Walks(rules, c, mid) THEN "call" ELSE "run", mid))
  BY DEF Call
<1>2. F \in Frames  BY TopFrame DEF Call, DisableInv
<1>3. mid \in BOOLEAN  BY <1>1, <1>2 DEF Mid, Frames
<1> QED  BY <1>1, <1>3

LEMMA CallInv == ASSUME DisableInv, NEW c \in Calls, Call(c) PROVE DisableInv'
<1>0. PICK g, mid, stage : /\ g = Frame(c, stage, mid) /\ mid \in BOOLEAN /\ stage \in {"call", "run"}
                           /\ stack' = Append(stack, g)
  BY CallEnters
<1> DEFINE n == Len(stack)
           s == Append(stack, g)
<1>1. /\ TypeOK /\ stack # <<>> /\ n < MaxFrames /\ stack' = s
      /\ UNCHANGED <<rules, client, dropped, crashed>>
  BY <1>0 DEF Call, DisableInv, Top
<1>2. /\ g \in Frames /\ g.stage \in {"call", "run"} /\ g.call = c /\ g.at = 1
      /\ ~g.allowed /\ g.seen = {}
  BY <1>0, SomeCalls DEF Frame, Frames
<1>3. stack \in Seq(Frames) /\ n \in Nat /\ n # 0 /\ Frames' = Frames  BY <1>1 DEF TypeOK, Frames
<1>4. s \in Seq(Frames) /\ Len(s) = n + 1 /\ s[n + 1] = g /\ \A i \in 1..n : s[i] = stack[i]
  BY <1>2, <1>3, AppendProperties
<1> HIDE DEF s
<1>5. \A i \in 1..n :
        /\ IF i = 1 THEN stack'[i].stage = "run" ELSE stack'[i].call.fn \in Names
        /\ stack'[i].stage = "call" => stack'[i].call \in Calls
        /\ stack'[i].stage # "run" =>
             /\ stack'[i].at <= Len(RuleList(rules, stack'[i].call.fn, stack'[i].stage = "ret")) + 1
             /\ WalkInv(i)'
  BY <1>1, <1>3, <1>4, BelowRemains
<1>6. PICK m : m = n + 1  OBVIOUS
<1>7. c.fn \in Names /\ Len(RuleList(rules, c.fn, FALSE)) \in Nat
  <2>1. c.fn \in Names  BY SomeCalls
  <2> QED  BY <1>1, <2>1, ListLength
<1>8. WalkInv(m)'
  <2>1. stack'[m].at = 1 /\ ~stack'[m].allowed /\ stack'[m].seen = {}  BY <1>1, <1>2, <1>4, <1>6
  <2>2. SaidBefore(m, 1)' = {}  BY DEF SaidBefore
  <2>3. SaidBefore(m, stack[m].at)' = SaidBefore(m, 1)'  BY <2>1 DEF SaidBefore
  <2> QED  BY <2>1, <2>2, <2>3 DEF WalkInv
<1>9. Len(s) <= MaxFrames /\ n + 1 # 1  BY <1>1, <1>3, <1>4, FramesAreBounded
<1>10. ASSUME NEW i \in 1..Len(s)
       PROVE  /\ IF i = 1 THEN stack'[i].stage = "run" ELSE stack'[i].call.fn \in Names
              /\ stack'[i].stage = "call" => stack'[i].call \in Calls
              /\ stack'[i].stage # "run" =>
                   /\ stack'[i].at <= Len(RuleList(rules, stack'[i].call.fn, stack'[i].stage = "ret")) + 1
                   /\ WalkInv(i)'
  <2>1. CASE i \in 1..n  BY <1>5, <2>1
  <2>2. CASE i = m
    <3>1. stack'[i] = g /\ i # 1  BY <1>1, <1>4, <1>6, <1>9, <2>2
    <3> QED  BY <1>2, <1>7, <1>8, <2>2, <3>1
  <2> QED  BY <1>3, <1>4, <1>6, <2>1, <2>2
<1>11. TypeOK'  BY <1>1, <1>3, <1>4, <1>9, <1>10 DEF TypeOK, Names
<1>12. WalksInv'  BY <1>1, <1>10 DEF WalksInv
<1> QED  BY <1>11, <1>12 DEF DisableInv

LEMMA PassInv == ASSUME DisableInv, Pass PROVE DisableInv'
<1> DEFINE c  == Made(F.call)
           g1 == [F EXCEPT !.stage = "run"]
           g2 == [g1 EXCEPT !.call = c]
           g  == [g2 EXCEPT !.logging = FALSE]
<1>1. PICK d : d = Top  OBVIOUS
<1>2. stack # <<>> /\ F.stage = "call" /\ stack' = [stack EXCEPT ![Top] = g]
      /\ UNCHANGED <<rules, client, dropped, crashed>>
  BY DEF Pass, Done, Walking, WalkOn
<1>3. F \in Frames /\ F.call \in Calls /\ d # 1
  <2>1. F \in Frames /\ F = stack[d] /\ d \in 1..Len(stack)  BY <1>1, <1>2, TopFrame DEF DisableInv
  <2> QED  BY <1>2, <2>1 DEF DisableInv, TypeOK
<1>4. c \in CallsMade /\ c.fn \in Names  BY <1>3, SomeCalls
<1> HIDE DEF c
<1>5. g1 \in Frames /\ g1.stage = "run"  BY <1>3 DEF Frames
<1> HIDE DEF g1
<1>6. g2 \in Frames /\ g2.stage = "run" /\ g2.call = c  BY <1>4, <1>5 DEF Frames
<1> HIDE DEF g2
<1>7. g \in Frames /\ g.stage = "run" /\ g.call = c  BY <1>6 DEF Frames
<1> HIDE DEF g
<1> QED  BY <1>1, <1>2, <1>3, <1>4, <1>7, TopInv

LEMMA ReturnInv == ASSUME DisableInv, NEW v \in Rets, Return(v) PROVE DisableInv'
<1> DEFINE g1 == [F EXCEPT !.stage = "ret"]
           g2 == [g1 EXCEPT !.ret = v]
           g3 == [g2 EXCEPT !.at = 1]
           g  == [g3 EXCEPT !.allowed = FALSE]
<1>1. PICK d : d = Top  OBVIOUS
<1>2. Top > 1 /\ F.stage = "run" /\ stack' = [stack EXCEPT ![Top] = g]
      /\ UNCHANGED <<rules, client, dropped, crashed>>
  BY DEF Return, WalkOn
<1>3. /\ TypeOK /\ stack # <<>> /\ F \in Frames /\ F = stack[d] /\ d \in 1..Len(stack) /\ d # 1
      /\ F.call.fn \in Names
  <2>1. TypeOK /\ stack # <<>>  BY <1>2 DEF DisableInv, Top
  <2>2. F \in Frames /\ F = stack[d] /\ d \in 1..Len(stack) /\ d # 1  BY <1>1, <1>2, <2>1, TopFrame
  <2> QED  BY <2>1, <2>2 DEF TypeOK, Names
<1>4. g1 \in Frames /\ g1.stage = "ret" /\ g1.call = F.call  BY <1>3 DEF Frames
<1> HIDE DEF g1
<1>5. g2 \in Frames /\ g2.stage = "ret" /\ g2.call = F.call  BY <1>4 DEF Frames
<1> HIDE DEF g2
<1>6. g3 \in Frames /\ g3.stage = "ret" /\ g3.call = F.call /\ g3.at = 1  BY <1>5 DEF Frames
<1> HIDE DEF g3
<1>7. g \in Frames /\ g.stage = "ret" /\ g.call = F.call /\ g.at = 1 /\ g.allowed = FALSE
  BY <1>6 DEF Frames
<1> HIDE DEF g
<1>8. stack'[d] = g  BY <1>1, <1>2, <1>3, <1>7, TopChanges
<1>9. WalkInv(d)'  BY <1>7, <1>8 DEF WalkInv
<1>10. g.at <= Len(RuleList(rules, g.call.fn, g.stage = "ret")) + 1
  <2>1. Len(RuleList(rules, F.call.fn, TRUE)) \in Nat  BY <1>3, ListLength
  <2> QED  BY <1>7, <2>1
<1> QED  BY <1>1, <1>2, <1>3, <1>7, <1>9, <1>10, TopInv

LEMMA LeaveInv == ASSUME DisableInv, Leave PROVE DisableInv'
<1> DEFINE n == Len(stack) - 1
           s == SubSeq(stack, 1, n)
<1>1. /\ TypeOK /\ stack # <<>> /\ stack' = s /\ UNCHANGED <<rules, client, dropped, crashed>>
  BY DEF Leave, Done, Walking, DisableInv, Top
<1>2. stack \in Seq(Frames) /\ Len(stack) \in Nat /\ n \in Nat /\ n < Len(stack) /\ Frames' = Frames
  BY <1>1 DEF TypeOK, Frames
<1>3. s \in Seq(Frames) /\ Len(s) = n /\ \A i \in 1..n : s[i] = stack[i]
  <2>1. \A i \in 1..n : stack[i] \in Frames  BY <1>2
  <2> HIDE DEF Frames, n
  <2> QED  BY <1>2, <2>1, SubSeqProperties
<1> HIDE DEF s
<1>4. \A i \in 1..n :
        /\ IF i = 1 THEN stack'[i].stage = "run" ELSE stack'[i].call.fn \in Names
        /\ stack'[i].stage = "call" => stack'[i].call \in Calls
        /\ stack'[i].stage # "run" =>
             /\ stack'[i].at <= Len(RuleList(rules, stack'[i].call.fn, stack'[i].stage = "ret")) + 1
             /\ WalkInv(i)'
  BY <1>1, <1>2, <1>3, BelowRemains
<1>5. Len(s) <= MaxFrames  BY <1>1, <1>2, <1>3, FramesAreBounded DEF TypeOK
<1>6. TypeOK'  BY <1>1, <1>2, <1>3, <1>4, <1>5 DEF TypeOK, Names
<1>7. WalksInv'  BY <1>1, <1>3, <1>4 DEF WalksInv
<1> QED  BY <1>6, <1>7 DEF DisableInv

\* A request that is over, and one that begins.
LEMMA OverInv ==
  ASSUME DisableInv, stack' = <<>>, UNCHANGED <<rules, client>>, dropped' \in 0..Len(rules), crashed' \in BOOLEAN
  PROVE  DisableInv'
<1>1. /\ stack' \in Seq(Frames') /\ Len(stack') = 0  OBVIOUS
<1>2. TypeOK'  BY <1>1, FramesAreBounded DEF TypeOK, DisableInv
<1>3. WalksInv'  BY <1>1 DEF WalksInv
<1> QED  BY <1>2, <1>3 DEF DisableInv

LEMMA BeginInv == ASSUME DisableInv, NEW file \in DOMAIN Sha, BeginRequest(file) PROVE DisableInv'
<1> DEFINE g == Frame(MainCall(file), "run", FALSE)
<1>1. /\ TypeOK /\ stack' = <<g>> /\ client' \in Clients /\ dropped' = 0 /\ crashed' = FALSE
      /\ UNCHANGED rules
  BY DEF BeginRequest, DisableInv
<1>2. g \in Frames /\ g.stage = "run" /\ Frames' = Frames  BY <1>1, SomeCalls DEF Frame, Frames
<1> HIDE DEF g, Frames
<1>3. stack' \in Seq(Frames') /\ Len(stack') = 1 /\ stack'[1] = g  BY <1>1, <1>2
<1>4. Len(rules) \in Nat
  BY <1>1, ListsHoldRules DEF TypeOK
<1>5. dropped' \in 0..Len(rules) /\ Len(stack') <= MaxFrames
  BY <1>1, <1>3, <1>4, FramesAreBounded
<1>6. \A i \in 1..Len(stack') : i = 1 /\ stack'[i].stage = "run"  BY <1>2, <1>3
<1>7. TypeOK'  BY <1>1, <1>3, <1>5, <1>6 DEF TypeOK
<1>8. WalksInv'  BY <1>6 DEF WalksInv
<1> QED  BY <1>7, <1>8 DEF DisableInv

LEMMA DropInv == ASSUME DisableInv, Drop PROVE DisableInv'
<1>1. AtRule /\ stack' = <<>> /\ UNCHANGED <<rules, client, crashed>> /\ dropped' = List[F.at]
  BY DEF Drop, EndRequest
<1>2. dropped' \in 1..Len(rules)  BY <1>1, AtRuleIs
<1>3. Len(rules) \in Nat /\ crashed \in BOOLEAN  
  BY ListsHoldRules DEF TypeOK, DisableInv
<1>4. dropped' \in 0..Len(rules)  BY <1>2, <1>3
<1> QED  BY <1>1, <1>3, <1>4, OverInv

LEMMA CrashInv == ASSUME DisableInv, Crash PROVE DisableInv'
BY OverInv DEF Crash, EndRequest, DisableInv, TypeOK

LEMMA EndInv == ASSUME DisableInv, End PROVE DisableInv'
BY OverInv DEF End, EndRequest, DisableInv, TypeOK

LEMMA InitInv == Init => DisableInv
<1> SUFFICES ASSUME Init PROVE DisableInv  OBVIOUS
<1>1. stack \in Seq(Frames) /\ Len(stack) = 0  BY DEF Init
<1>2. Len(rules) \in Nat  BY ListsHoldRules DEF Init
<1>3. dropped \in 0..Len(rules) /\ Len(stack) <= MaxFrames  BY <1>1, <1>2, FramesAreBounded DEF Init
<1>4. \A i \in 1..Len(stack) : FALSE  BY <1>1
<1> HIDE DEF Frames
<1>5. TypeOK  BY <1>1, <1>3, <1>4 DEF TypeOK, Init
<1>6. WalksInv  BY <1>4 DEF WalksInv
<1> QED  BY <1>5, <1>6 DEF DisableInv

LEMMA NextInv == DisableInv /\ [Next]_vars => DisableInv'
<1> SUFFICES ASSUME DisableInv, [Next]_vars PROVE DisableInv'  OBVIOUS
<1>1. ASSUME UNCHANGED vars PROVE DisableInv'
  <2>1. UNCHANGED <<rules, client, stack, dropped, crashed>>  BY <1>1 DEF vars
  <2>2. TypeOK'  BY <2>1 DEF DisableInv, TypeOK, Frames
  <2>3. WalksInv'
    <3> SUFFICES ASSUME NEW d \in 1..Len(stack), stack[d].stage # "run" PROVE WalkInv(d)'
      BY <2>1 DEF WalksInv
    <3>1. WalkInv(d)  BY DEF DisableInv, WalksInv
    <3>2. d \in Nat /\ d # 0  BY DEF DisableInv, TypeOK
    <3> QED  BY <2>1, <3>1, <3>2, WalkLocally
  <2> QED  BY <2>2, <2>3 DEF DisableInv
<1>2. ASSUME NEW file \in DOMAIN Sha, BeginRequest(file) PROVE DisableInv'  BY <1>2, BeginInv
<1>3. ASSUME NEW c \in Calls, Call(c) PROVE DisableInv'  BY <1>3, CallInv
<1>4. ASSUME NEW v \in Rets, Return(v) PROVE DisableInv'  BY <1>4, ReturnInv
<1> QED
  BY <1>1, <1>2, <1>3, <1>4, NextRuleInv, AllowInv, SimulateInv, DropInv, CrashInv, PassInv, LeaveInv, EndInv
     DEF Next

-----------------------------------------------------------------------------
(* What follows.                                                           *)

\* A walk has passed only rules that decide nothing, in every state of every
\* behaviour, whatever was called between its steps.
THEOREM DisableInvariant == Spec => []DisableInv
<1> QED  BY InitInv, NextInv, PTL DEF Spec

\* The walk of a frame stays within its list: type correctness.
THEOREM TypeCorrect == Spec => []TypeOK
<1>1. DisableInv => TypeOK  BY DEF DisableInv
<1> QED  BY <1>1, DisableInvariant, PTL

-----------------------------------------------------------------------------
(* The refinement: what SpVerdict sees of the stack.                       *)

Shows == {Shown(f) : f \in Frames}

LEMMA PromisedIs ==
  ASSUME TypeOK
  PROVE  /\ Promised \in Seq(Shows) /\ Len(Promised) = Len(stack) /\ Len(stack) \in Nat
         /\ \A i \in 1..Len(stack) : Promised[i] = Shown(stack[i])
<1>1. stack \in Seq(Frames) /\ Len(stack) \in Nat  BY DEF TypeOK
<1>2. \A i \in 1..Len(stack) : Shown(stack[i]) \in Shows  BY <1>1 DEF Shows
<1> HIDE DEF Shows, Shown, Frames
<1>3. Promised \in [1..Len(stack) -> Shows]  BY <1>2 DEF Promised
<1> QED  BY <1>1, <1>3 DEF Promised

LEMMA VerdictReads ==
  ASSUME TypeOK, NEW d, d = Top
  PROVE  /\ Verdict!Top = d /\ (stack # <<>> <=> Promised # <<>>)
         /\ stack # <<>> =>
              /\ Promised[d] = Shown(F) /\ Verdict!List = List /\ Verdict!List = ListOf(d)
              /\ \A k : Verdict!Says(k) <=> SaysAt(d, k)
              /\ \A k : Verdict!Decides(k) <=> DecidesAt(d, k)
<1>1. /\ Promised \in Seq(Shows) /\ Len(Promised) = Len(stack) /\ Len(stack) \in Nat
      /\ \A i \in 1..Len(stack) : Promised[i] = Shown(stack[i])
  BY PromisedIs
<1>2. Verdict!Top = d  BY <1>1 DEF Verdict!Top, Top
<1>3. stack # <<>> <=> Promised # <<>>  BY <1>1 DEF TypeOK
<1>4. ASSUME stack # <<>>
      PROVE  /\ Promised[d] = Shown(F) /\ Promised[d].call = F.call /\ Promised[d].stage = F.stage
             /\ Promised[d].ret = F.ret /\ F = stack[d]
  BY <1>1, <1>4, TopFrame DEF Shown
<1>5. Verdict!Trace = TraceTo(d)
  <2>1. ASSUME NEW k \in 1..d PROVE Promised[k].call = stack[k].call
    <3>1. k \in 1..Len(stack) /\ Shown(stack[k]).call = stack[k].call  BY <1>1 DEF Shown, Top
    <3> QED  BY <1>1, <3>1
  <2> QED  BY <1>2, <2>1 DEF Verdict!Trace, TraceTo
<1>6. ASSUME stack # <<>> PROVE Verdict!List = List /\ Verdict!List = ListOf(d)
  BY <1>2, <1>4, <1>6 DEF Verdict!List, List, ListOf
<1>7. ASSUME stack # <<>>, NEW k PROVE Verdict!Says(k) <=> SaysAt(d, k)
  BY <1>2, <1>4, <1>5, <1>6, <1>7 DEF Verdict!Says, SaysAt
<1>8. ASSUME stack # <<>>, NEW k PROVE Verdict!Decides(k) <=> DecidesAt(d, k)
  BY <1>6, <1>7, <1>8 DEF Verdict!Decides, DecidesAt
<1> QED  BY <1>2, <1>3, <1>4, <1>6, <1>7, <1>8

LEMMA PromisedTop ==
  ASSUME TypeOK, stack # <<>>, NEW g \in Frames, stack' = [stack EXCEPT ![Top] = g]
  PROVE  Promised' = [Promised EXCEPT ![Top] = Shown(g)]
<1>1. /\ stack' \in Seq(Frames) /\ Len(stack') = Len(stack) /\ stack'[Top] = g
      /\ \A i \in 1..Len(stack) : i # Top => stack'[i] = stack[i]
  BY TopChanges
<1>2. Promised' = [i \in 1..Len(stack') |-> Shown(stack'[i])]  BY DEF Promised, Shown
<1>3. Top \in 1..Len(stack)  BY TopFrame
<1> HIDE DEF Frames, Shown, Top
<1>4. [Promised EXCEPT ![Top] = Shown(g)] = [i \in 1..Len(stack) |-> IF i = Top THEN Shown(g) ELSE Shown(stack[i])]
  BY <1>3 DEF Promised
<1>5. \A i \in 1..Len(stack) : Shown(stack'[i]) = IF i = Top THEN Shown(g) ELSE Shown(stack[i])
  BY <1>1
<1> QED  BY <1>1, <1>2, <1>4, <1>5

LEMMA ShownIs ==
  ASSUME NEW f
  PROVE  /\ Shown(f).call = f.call /\ Shown(f).stage = f.stage /\ Shown(f).ret = f.ret
         /\ Shown(f).logged = IF f.stage = "call" THEN {} ELSE f.seen
BY DEF Shown

\* Steps along the list are not seen.
LEMMA WalkingIsHidden ==
  ASSUME DisableInv, AtRule, NEW g, OfSameCall(F, g), stack' = [stack EXCEPT ![Top] = g],
         F.stage = "ret" => g.seen = F.seen
  PROVE  Promised' = Promised
<1>1. /\ TypeOK /\ stack # <<>> /\ F \in Frames /\ F.stage # "run" /\ g \in Frames
      /\ Top \in 1..Len(stack) /\ F = stack[Top]
  BY AtRuleIs, TopFrame DEF OfSameCall
<1>2. F.stage \in {"call", "run", "ret"}  BY <1>1 DEF Frames
<1>3. Shown(g) = Shown(F)  BY <1>1, <1>2 DEF OfSameCall, Shown
<1>4. Promised' = [Promised EXCEPT ![Top] = Shown(g)]  BY <1>1, PromisedTop
<1>5. Promised[Top] = Shown(F) /\ Promised \in Seq(Shows)  BY <1>1, PromisedIs
<1> HIDE DEF Shows, Shown, Top, Frames
<1> QED  BY <1>3, <1>4, <1>5

\* Where the walk has ended, no rule refused, and what it noted is what SpVerdict logs.
LEMMA EndedWalk ==
  ASSUME DisableInv, Done
  PROVE  /\ Verdict!Refused = {}
         /\ F.stage = "call" => Verdict!Logged = F.seen
<1>1. PICK d : d = Top  OBVIOUS
<1>2. /\ TypeOK /\ stack # <<>> /\ F.stage # "run" /\ F = stack[d] /\ d \in 1..Len(stack)
      /\ List = ListOf(d) /\ WalkInv(d)
  BY <1>1, TopFrame, SaysIs DEF DisableInv, Done, Walking, WalksInv
<1> DEFINE L == ListOf(d)
           n == Len(L)
           at == F.at
<1>3. n \in Nat /\ at \in 1..n + 1  BY <1>2, ListIs
<1>4. /\ Verdict!List = L
      /\ \A k : Verdict!Says(k) <=> SaysAt(d, k)
      /\ \A k : Verdict!Decides(k) <=> DecidesAt(d, k)
  BY <1>1, <1>2, VerdictReads
<1>5. /\ \A j \in 1..at - 1 : ~DecidesAt(d, j)
      /\ F.allowed => at \in 1..n /\ DecidesAt(d, at) /\ rules[L[at]].allow
      /\ F.stage = "call" => F.seen = SaidBefore(d, at)
      /\ F.allowed \/ at > n
  BY <1>2 DEF WalkInv, Done
<1> HIDE DEF n, at, L
<1>6. \A k \in 1..n + 1 : Verdict!Undecided(k) <=> k <= at
  BY <1>3, <1>4, <1>5 DEF Verdict!Undecided
<1>7. Verdict!Refused = {}
  BY <1>3, <1>4, <1>5, <1>6 DEF Verdict!Refused, n
<1>8. ASSUME F.stage = "call" PROVE Verdict!Logged = F.seen
  <2>1. {i \in 1..n : Verdict!Says(i) /\ Verdict!Undecided(i + 1)} = {i \in 1..at - 1 : SaysAt(d, i)}
    <3>1. \A i \in 1..n : i + 1 \in 1..n + 1 /\ (i + 1 <= at <=> i \in 1..at - 1)  BY <1>3
    <3>2. \A i \in 1..at - 1 : i \in 1..n  BY <1>3
    <3> QED  BY <1>4, <1>6, <3>1, <3>2
  <2>2. Verdict!Logged = {L[k] : k \in {i \in 1..n : Verdict!Says(i) /\ Verdict!Undecided(i + 1)}}
    BY <1>4 DEF Verdict!Logged, n
  <2>3. SaidBefore(d, at) = {L[k] : k \in {i \in 1..at - 1 : SaysAt(d, i)}}  BY DEF SaidBefore, L
  <2> QED  BY <1>5, <1>8, <2>1, <2>2, <2>3
<1> QED  BY <1>7, <1>8

-----------------------------------------------------------------------------
(* Every step is a step of SpVerdict, or one it does not see.              *)

LEMMA CallStep == ASSUME DisableInv, NEW c \in Calls, Call(c) PROVE Verdict!Call(c)
<1>1. PICK d : d = Top  OBVIOUS
<1>2. /\ TypeOK /\ stack # <<>> /\ d < MaxFrames /\ UNCHANGED <<rules, client, dropped>>
  BY <1>1 DEF Call, DisableInv
<1>0. PICK mid \in Mid(F) : stack' = Append(stack, Frame(c, IF Walks(rules, c, mid) THEN "call" ELSE "run", mid))
  BY DEF Call
<1> DEFINE stage == IF Walks(rules, c, mid) THEN "call" ELSE "run"
           asked == Verdict!Entered(c, stage, mid)
<1>3. Verdict!Top = d /\ Promised # <<>> /\ mid \in Mid(Promised[d]) /\ mid \in BOOLEAN
  <2>1. /\ Verdict!Top = d /\ Promised # <<>> /\ Promised[d] = Shown(F) /\ F \in Frames
    BY <1>1, <1>2, VerdictReads, TopFrame
  <2>2. /\ Shown(F).call = F.call /\ Shown(F).stage = F.stage /\ Shown(F).mid = F.mid  BY DEF Shown
  <2>3. Mid(Shown(F)) = Mid(F)  BY <2>2 DEF Mid
  <2>4. mid \in BOOLEAN  BY <1>0, <2>1 DEF Mid, Frames
  <2> QED  BY <1>0, <2>1, <2>3, <2>4
<1>4. Frame(c, stage, mid) \in Frames /\ Shown(Frame(c, stage, mid)) = asked
  BY <1>3, SomeCalls DEF Frame, Frames, Shown, Verdict!Entered
<1>6. stack' = Append(stack, Frame(c, stage, mid))  BY <1>0
<1> HIDE DEF stage, asked
<1>5. Promised' = Append(Promised, asked)
  <2> DEFINE g == Frame(c, stage, mid)
             n == Len(stack)
             x == asked
  <2>1. stack \in Seq(Frames) /\ n \in Nat  BY <1>2 DEF TypeOK
  <2> HIDE DEF g, x, Frames
  <2>2. /\ Len(stack') = n + 1 /\ stack'[n + 1] = g
        /\ \A i \in 1..n : stack'[i] = stack[i]
    BY <1>2, <1>4, <1>6, <2>1, AppendProperties DEF g
  <2>3. Promised' = [i \in 1..n + 1 |-> Shown(stack'[i])]  BY <2>2 DEF Promised, Shown
  <2>4. /\ Promised \in Seq(Shows) /\ Len(Promised) = n
        /\ \A i \in 1..n : Promised[i] = Shown(stack[i])
    BY <1>2, PromisedIs
  <2>5. x \in Shows  BY <1>4 DEF Shows, x
  <2> HIDE DEF Shows, Shown
  <2> DEFINE q == Append(Promised, x)
  <2>6. /\ q \in Seq(Shows) /\ Len(q) = n + 1 /\ q[n + 1] = x
        /\ \A i \in 1..n : q[i] = Promised[i]
    BY <2>1, <2>4, <2>5, AppendProperties
  <2> HIDE DEF q
  <2>7. q \in [1..n + 1 -> Shows]  BY <2>1, <2>6
  <2>8. \A i \in 1..n + 1 : q[i] = Shown(stack'[i])
    BY <1>4, <2>1, <2>2, <2>4, <2>6 DEF g, x
  <2>9. Promised' = q  BY <2>3, <2>7, <2>8
  <2> QED  BY <2>9 DEF q, x
<1>7. \E m \in Mid(Promised[Verdict!Top]) :
        Promised' = Append(Promised, Verdict!Entered(c, IF Walks(rules, c, m) THEN "call" ELSE "run", m))
  BY <1>3, <1>5 DEF stage, asked
<1> QED  BY <1>2, <1>3, <1>7 DEF Verdict!Call

LEMMA PassStep == ASSUME DisableInv, Pass PROVE Verdict!Pass
<1> DEFINE c  == Made(F.call)
           g1 == [F EXCEPT !.stage = "run"]
           g2 == [g1 EXCEPT !.call = c]
           g  == [g2 EXCEPT !.logging = FALSE]
<1>1. PICK d : d = Top  OBVIOUS
<1>2. /\ TypeOK /\ Done /\ stack # <<>> /\ F.stage = "call" /\ stack' = [stack EXCEPT ![Top] = g]
      /\ UNCHANGED <<rules, client, dropped>>
  BY DEF Pass, Done, Walking, WalkOn, DisableInv
<1>3. F \in Frames /\ F.call \in Calls
  <2>1. F \in Frames /\ F = stack[d] /\ d \in 1..Len(stack)  BY <1>1, <1>2, TopFrame
  <2> QED  BY <1>2, <2>1 DEF DisableInv, TypeOK
<1>4. c \in CallsMade  BY <1>3, SomeCalls
<1> HIDE DEF c
<1>5. g1 \in Frames /\ g1.stage = "run" /\ g1.ret = F.ret /\ g1.seen = F.seen /\ g1.mid = F.mid  BY <1>3 DEF Frames
<1> HIDE DEF g1
<1>6. g2 \in Frames /\ g2.stage = "run" /\ g2.ret = F.ret /\ g2.seen = F.seen /\ g2.mid = F.mid /\ g2.call = c
  BY <1>4, <1>5 DEF Frames
<1> HIDE DEF g2
<1>7. g \in Frames /\ g.stage = "run" /\ g.ret = F.ret /\ g.seen = F.seen /\ g.mid = F.mid /\ g.call = c
  BY <1>6 DEF Frames
<1> HIDE DEF g
<1>8. Promised' = [Promised EXCEPT ![Top] = Shown(g)]  BY <1>2, <1>7, PromisedTop
<1>9. Shown(g) = [call |-> c, stage |-> "run", ret |-> F.ret, mid |-> F.mid, logged |-> F.seen]  BY <1>7 DEF Shown
<1>10. Verdict!Refused = {} /\ Verdict!Logged = F.seen  BY <1>2, EndedWalk
<1>11. Verdict!Top = d /\ Promised # <<>> /\ Promised[d] = Shown(F)  BY <1>1, <1>2, VerdictReads
<1>12. Shown(F).call = F.call /\ Shown(F).ret = F.ret /\ Shown(F).mid = F.mid /\ Shown(F).stage = "call"  BY <1>2 DEF Shown
<1> HIDE DEF Shown
<1>13. Promised' = [Promised EXCEPT ![Verdict!Top] =
                     [call |-> Made(@.call), stage |-> "run", ret |-> @.ret, logged |-> Verdict!Logged, mid |-> @.mid]]
  BY <1>1, <1>8, <1>9, <1>10, <1>11, <1>12 DEF c
<1> QED  BY <1>1, <1>2, <1>10, <1>11, <1>12, <1>13 DEF Verdict!Pass

LEMMA ReturnStep == ASSUME DisableInv, NEW v \in Rets, Return(v) PROVE Verdict!Return(v)
<1> DEFINE g1 == [F EXCEPT !.stage = "ret"]
           g2 == [g1 EXCEPT !.ret = v]
           g3 == [g2 EXCEPT !.at = 1]
           g  == [g3 EXCEPT !.allowed = FALSE]
<1>1. PICK d : d = Top  OBVIOUS
<1>2. /\ TypeOK /\ stack # <<>> /\ d > 1 /\ F.stage = "run" /\ stack' = [stack EXCEPT ![Top] = g]
      /\ UNCHANGED <<rules, client, dropped>>
  BY <1>1 DEF Return, WalkOn, DisableInv, Top
<1>3. F \in Frames  BY <1>2, TopFrame
<1>4. g1 \in Frames /\ g1.stage = "ret" /\ g1.call = F.call /\ g1.mid = F.mid /\ g1.seen = F.seen  BY <1>3 DEF Frames
<1> HIDE DEF g1
<1>5. g2 \in Frames /\ g2.stage = "ret" /\ g2.call = F.call /\ g2.mid = F.mid /\ g2.seen = F.seen /\ g2.ret = v
  BY <1>4 DEF Frames
<1> HIDE DEF g2
<1>6. g3 \in Frames /\ g3.stage = "ret" /\ g3.call = F.call /\ g3.mid = F.mid /\ g3.seen = F.seen /\ g3.ret = v
  BY <1>5 DEF Frames
<1> HIDE DEF g3
<1>7. g \in Frames /\ g.stage = "ret" /\ g.call = F.call /\ g.mid = F.mid /\ g.seen = F.seen /\ g.ret = v
  BY <1>6 DEF Frames
<1> HIDE DEF g
<1>8. Promised' = [Promised EXCEPT ![Top] = Shown(g)]  BY <1>2, <1>7, PromisedTop
<1>9. Shown(g) = [call |-> F.call, stage |-> "ret", ret |-> v, mid |-> F.mid, logged |-> F.seen]  BY <1>7 DEF Shown
<1>10. Verdict!Top = d /\ Promised[d] = Shown(F)  BY <1>1, <1>2, VerdictReads
<1>11. Shown(F).call = F.call /\ Shown(F).stage = "run" /\ Shown(F).mid = F.mid /\ Shown(F).logged = F.seen
  BY <1>2 DEF Shown
<1> HIDE DEF Shown
<1>12. Promised' = [Promised EXCEPT ![Verdict!Top] =
                     [call |-> @.call, stage |-> "ret", ret |-> v, logged |-> @.logged, mid |-> @.mid]]
  BY <1>1, <1>8, <1>9, <1>10, <1>11
<1> QED  BY <1>2, <1>10, <1>11, <1>12 DEF Verdict!Return

LEMMA LeaveStep == ASSUME DisableInv, Leave PROVE Verdict!Leave
<1>1. PICK d : d = Top  OBVIOUS
<1> DEFINE n == Len(stack) - 1
           s == SubSeq(stack, 1, n)
           q == SubSeq(Promised, 1, n)
<1>2. /\ TypeOK /\ Done /\ stack # <<>> /\ F.stage = "ret" /\ stack' = s
      /\ UNCHANGED <<rules, client, dropped>>
  BY DEF Leave, Done, Walking, DisableInv, Top
<1>3. /\ stack \in Seq(Frames) /\ Len(stack) \in Nat /\ n \in Nat /\ n < Len(stack)
      /\ d = Len(stack) /\ F = stack[d]
  BY <1>1, <1>2 DEF TypeOK, Top, F
<1>4. d > 1
  <2>1. d = 1 => stack[d].stage = "run"  BY <1>3 DEF TypeOK, DisableInv
  <2> QED  BY <1>2, <1>3, <2>1
<1>5. Len(s) = n /\ \A i \in 1..n : s[i] = stack[i]
  <2>1. \A i \in 1..n : stack[i] \in Frames  BY <1>3
  <2> HIDE DEF Frames, n
  <2> QED  BY <1>3, <2>1, SubSeqProperties
<1>6. /\ Promised \in Seq(Shows) /\ Len(Promised) = Len(stack)
      /\ \A i \in 1..Len(stack) : Promised[i] = Shown(stack[i])
  BY <1>2, PromisedIs
<1> HIDE DEF s, Frames, Shown, Shows
<1>7. q \in Seq(Shows) /\ Len(q) = n /\ \A i \in 1..n : q[i] = Promised[i]
  <2>1. \A i \in 1..n : Promised[i] \in Shows  BY <1>3, <1>6
  <2> HIDE DEF n
  <2> QED  BY <1>3, <1>6, <2>1, SubSeqProperties
<1>8. Promised' = [i \in 1..n |-> Shown(stack'[i])]  BY <1>2, <1>5 DEF Promised, Shown
<1> HIDE DEF q
<1>9. q \in [1..n -> Shows] /\ \A i \in 1..n : q[i] = Shown(stack'[i])
  BY <1>2, <1>3, <1>5, <1>6, <1>7
<1> HIDE DEF n
<1>10. Promised' = q  BY <1>8, <1>9
<1>11. Verdict!Top = d /\ Promised[d] = Shown(F) /\ Shown(F).stage = "ret"
  BY <1>1, <1>2, VerdictReads DEF Shown
<1>12. Verdict!Refused = {}  BY <1>2, EndedWalk
<1> QED  BY <1>2, <1>3, <1>4, <1>10, <1>11, <1>12 DEF Verdict!Leave, q, n

LEMMA DropStep == ASSUME DisableInv, Drop PROVE Verdict!Drop
<1>1. PICK d : d = Top  OBVIOUS
<1>2. /\ AtRule /\ Says /\ ~Rule.allow /\ ~Rule.simulation /\ stack' = <<>>
      /\ UNCHANGED <<rules, client>> /\ dropped' = List[F.at]
  BY DEF Drop, EndRequest
<1>3. TypeOK /\ stack # <<>> /\ F.stage # "run" /\ F.at \in 1..Len(List) /\ Len(List) \in Nat
  BY <1>2, AtRuleIs
<1>4. d \in 1..Len(stack) /\ F = stack[d] /\ WalkInv(d)
  <2>1. d \in 1..Len(stack) /\ F = stack[d]  BY <1>1, <1>3, TopFrame
  <2> QED  BY <1>3, <2>1 DEF DisableInv, WalksInv
<1>5. List = ListOf(d) /\ Rule = rules[ListOf(d)[F.at]] /\ DecidesAt(d, F.at)
  BY <1>1, <1>2, SaysIs
<1>6. /\ Verdict!Top = d /\ Promised # <<>> /\ Promised[d] = Shown(F) /\ Verdict!List = List
      /\ \A k : Verdict!Decides(k) <=> DecidesAt(d, k)
  BY <1>1, <1>3, VerdictReads
<1>7. Verdict!Undecided(F.at)  BY <1>4, <1>6 DEF WalkInv, Verdict!Undecided
<1>8. F.at \in Verdict!Refused  BY <1>2, <1>3, <1>5, <1>6, <1>7 DEF Verdict!Refused
<1>9. Promised' = <<>>  BY <1>2 DEF Promised
<1>10. Promised[Verdict!Top].stage # "run"  BY <1>3, <1>6 DEF Shown
<1> QED  BY <1>2, <1>6, <1>8, <1>9, <1>10 DEF Verdict!Drop

LEMMA EndStep == ASSUME DisableInv, Crash \/ End PROVE Verdict!End
<1>1. stack # <<>> /\ stack' = <<>> /\ UNCHANGED <<rules, client, dropped>>
  BY DEF Crash, End, EndRequest
<1>2. Promised # <<>>
  <2>1. PICK d : d = Top  OBVIOUS
  <2> QED  BY <1>1, <2>1, VerdictReads DEF DisableInv
<1>3. Promised' = <<>>  BY <1>1 DEF Promised
<1> QED  BY <1>1, <1>2, <1>3 DEF Verdict!End

LEMMA BeginStep ==
  ASSUME NEW file \in DOMAIN Sha, BeginRequest(file) PROVE Verdict!BeginRequest(file)
<1> DEFINE g == Frame(MainCall(file), "run", FALSE)
<1>1. /\ stack = <<>> /\ stack' = <<g>> /\ client' \in Clients /\ dropped' = 0 /\ UNCHANGED rules
  BY DEF BeginRequest
<1>2. Shown(g) = Verdict!MainFrame(file)
  BY DEF Shown, Frame, Verdict!MainFrame, Verdict!Entered
<1> HIDE DEF g
<1>3. Promised = <<>>  BY <1>1 DEF Promised
<1>4. Promised' = [i \in 1..Len(stack') |-> Shown(stack'[i])]  BY DEF Promised, Shown
<1> HIDE DEF Shown
<1>5. Len(stack') = 1 /\ stack'[1] = g  BY <1>1
<1>6. Promised' = <<Shown(g)>>  BY <1>4, <1>5
<1> QED  BY <1>1, <1>2, <1>3, <1>6 DEF Verdict!BeginRequest

LEMMA NextRuleStep == ASSUME DisableInv, NextRule PROVE UNCHANGED Verdict!vars
<1> DEFINE g1 == [F EXCEPT !.at = F.at + 1]
           g  == [g1 EXCEPT !.logging = FALSE]
<1>1. AtRule /\ stack' = [stack EXCEPT ![Top] = g] /\ UNCHANGED <<rules, client, dropped>>
  BY DEF NextRule, WalkOn
<1>2. F \in Frames /\ F.at + 1 \in Nat \ {0}  BY <1>1, AtRuleIs
<1>3. OfSameCall(F, g1) /\ g1.seen = F.seen  BY <1>2, ChangedAt
<1> HIDE DEF g1
<1>4. OfSameCall(g1, g) /\ g.seen = g1.seen  BY <1>3, ChangedLogging DEF OfSameCall
<1> HIDE DEF g
<1>5. OfSameCall(F, g) /\ g.seen = F.seen  BY <1>3, <1>4 DEF OfSameCall
<1>6. Promised' = Promised  BY <1>1, <1>5, WalkingIsHidden
<1> QED  BY <1>1, <1>6 DEF Verdict!vars

LEMMA AllowStep == ASSUME DisableInv, Allow PROVE UNCHANGED Verdict!vars
<1> DEFINE g1 == [F EXCEPT !.allowed = TRUE]
           g  == [g1 EXCEPT !.logging = FALSE]
<1>1. AtRule /\ stack' = [stack EXCEPT ![Top] = g] /\ UNCHANGED <<rules, client, dropped>>
  BY DEF Allow, WalkOn
<1>2. F \in Frames  BY <1>1, AtRuleIs
<1>3. OfSameCall(F, g1) /\ g1.seen = F.seen  BY <1>2, ChangedAllowed
<1> HIDE DEF g1
<1>4. OfSameCall(g1, g) /\ g.seen = g1.seen  BY <1>3, ChangedLogging DEF OfSameCall
<1> HIDE DEF g
<1>5. OfSameCall(F, g) /\ g.seen = F.seen  BY <1>3, <1>4 DEF OfSameCall
<1>6. Promised' = Promised  BY <1>1, <1>5, WalkingIsHidden
<1> QED  BY <1>1, <1>6 DEF Verdict!vars

LEMMA SimulateStep == ASSUME DisableInv, Simulate PROVE UNCHANGED Verdict!vars
<1> DEFINE S  == IF F.stage = "call" THEN F.seen \cup {List[F.at]} ELSE F.seen
           g1 == [F EXCEPT !.at = F.at + 1]
           g2 == [g1 EXCEPT !.logging = TRUE]
           g  == [g2 EXCEPT !.seen = S]
<1>1. AtRule /\ stack' = [stack EXCEPT ![Top] = g] /\ UNCHANGED <<rules, client, dropped>>
  BY DEF Simulate, WalkOn
<1>2. F \in Frames /\ F.at + 1 \in Nat \ {0} /\ List[F.at] \in 1..Len(rules)
  BY <1>1, AtRuleIs
<1>3. S \in SUBSET (1..Len(rules))  BY <1>2 DEF Frames
<1>4. F.stage = "ret" => S = F.seen  OBVIOUS
<1>5. OfSameCall(F, g1)  BY <1>2, ChangedAt
<1> HIDE DEF g1, S
<1>6. OfSameCall(g1, g2)  BY <1>5, ChangedLogging DEF OfSameCall
<1> HIDE DEF g2
<1>7. OfSameCall(g2, g) /\ g.seen = S  BY <1>3, <1>6, ChangedSeen DEF OfSameCall
<1> HIDE DEF g
<1>8. OfSameCall(F, g)  BY <1>5, <1>6, <1>7 DEF OfSameCall
<1>9. Promised' = Promised  BY <1>1, <1>4, <1>7, <1>8, WalkingIsHidden
<1> QED  BY <1>1, <1>9 DEF Verdict!vars

LEMMA InitStep == Init => Verdict!Init
BY DEF Init, Verdict!Init, Promised

LEMMA NextStep == DisableInv /\ [Next]_vars => [Verdict!Next]_(Verdict!vars)
<1> SUFFICES ASSUME DisableInv, [Next]_vars PROVE [Verdict!Next]_(Verdict!vars)  OBVIOUS
<1>1. ASSUME UNCHANGED vars PROVE UNCHANGED Verdict!vars
  BY <1>1 DEF vars, Verdict!vars, Promised, Shown
<1>2. ASSUME NEW file \in DOMAIN Sha, BeginRequest(file) PROVE Verdict!Next
  BY <1>2, BeginStep DEF Verdict!Next
<1>3. ASSUME NEW c \in Calls, Call(c) PROVE Verdict!Next  BY <1>3, CallStep DEF Verdict!Next
<1>4. ASSUME NEW v \in Rets, Return(v) PROVE Verdict!Next  BY <1>4, ReturnStep DEF Verdict!Next
<1>5. CASE NextRule \/ Allow \/ Simulate  BY <1>5, NextRuleStep, AllowStep, SimulateStep
<1>6. CASE Drop \/ Crash \/ Pass \/ Leave \/ End
  BY <1>6, DropStep, EndStep, PassStep, LeaveStep DEF Verdict!Next
<1> QED  BY <1>1, <1>2, <1>3, <1>4, <1>5, <1>6 DEF Next

\* The walk of should_disable and should_drop_on_ret, with whatever an error
\* handler calls between its steps, does to a call and to its return what one
\* decision by the first decisive rule of the list does: SpDisable implements
\* SpVerdict.
THEOREM Implements == Spec => FirstRuleDecides
<1> QED
  BY DisableInvariant, InitStep, NextStep, PTL DEF Spec, FirstRuleDecides, Verdict!Spec

-----------------------------------------------------------------------------
(* Chains.                                                                 *)

\* Where the walk may be at frame c, if R is where it may be at the next one.
RestAt(R, chain, c) ==
  {j \in 1..Len(chain) + 1 :
     \/ j > Len(chain)
     \/ /\ j <= Len(chain) /\ HasName(c)
        /\ (IF c.fn = chain[j] THEN j + 1 ELSE j) \in R
     \/ NoFrame(c) /\ j \in R}

\* f is the function ChainMatches computes, as far as n.
WalksDown(f, chain, trace, n) ==
  f = [k \in 0..n |-> IF k = 0 THEN {} ELSE RestAt(f[k - 1], chain, trace[k])]

LEMMA WalkDownExists ==
  ASSUME NEW chain, NEW trace, NEW n \in Nat
  PROVE  \E f : WalksDown(f, chain, trace, n)
<1> DEFINE T == {m \in Nat : \E f : WalksDown(f, chain, trace, m)}
<1>1. WalksDown([k \in 0..0 |-> {}], chain, trace, 0)  BY DEF WalksDown
<1>2. ASSUME NEW m \in Nat, m \in T PROVE m + 1 \in T
  <2>1. PICK f : WalksDown(f, chain, trace, m)  BY <1>2
  <2> DEFINE g   == [k \in 0..m + 1 |-> IF k <= m THEN f[k] ELSE RestAt(f[m], chain, trace[m + 1])]
             rhs == [k \in 0..m + 1 |-> IF k = 0 THEN {} ELSE RestAt(g[k - 1], chain, trace[k])]
  <2>2. ASSUME NEW k \in 0..m + 1 PROVE g[k] = rhs[k]
    <3>1. CASE k = m + 1  BY <3>1
    <3>2. CASE k # m + 1
      <4>1. k \in 0..m /\ g[k] = f[k]  BY <3>2
      <4>2. k > 0 => g[k - 1] = f[k - 1]  BY <4>1
      <4>3. f[k] = IF k = 0 THEN {} ELSE RestAt(f[k - 1], chain, trace[k])
        BY <2>1, <4>1 DEF WalksDown
      <4> QED  BY <4>1, <4>2, <4>3
    <3> QED  BY <3>1, <3>2
  <2>3. g = rhs  BY <2>2
  <2>4. WalksDown(g, chain, trace, m + 1)  BY <2>3 DEF WalksDown
  <2> QED  BY <2>4
<1>3. n \in T  BY <1>1, <1>2, Induction
<1> QED  BY <1>3

LEMMA ChainWalks ==
  ASSUME NEW chain, NEW trace, Len(trace) \in Nat
  PROVE  \E f : WalksDown(f, chain, trace, Len(trace)) /\ ChainMatches(chain, trace) = (1 \in f[Len(trace)])
<1> DEFINE Rest[k \in 0..Len(trace)] ==
        IF k = 0 THEN {}
        ELSE LET c == trace[k] IN
             {j \in 1..Len(chain) + 1 :
                \/ j > Len(chain)
                \/ /\ j <= Len(chain) /\ HasName(c)
                   /\ (IF c.fn = chain[j] THEN j + 1 ELSE j) \in Rest[k - 1]
                \/ NoFrame(c) /\ j \in Rest[k - 1]}
<1>0. \E f : WalksDown(f, chain, trace, Len(trace))  BY WalkDownExists
<1>1. WalksDown(Rest, chain, trace, Len(trace))  BY <1>0 DEF WalksDown, RestAt
<1>2. ChainMatches(chain, trace) = (1 \in Rest[Len(trace)])  BY DEF ChainMatches
<1> HIDE DEF Rest
<1> QED  BY <1>1, <1>2

\* at are places of the trace, none above k, where the chain is met from its
\* function j on, with nothing on the way that ends it.
Down(at, chain, trace, j, k) ==
  /\ at \in [j..Len(chain) -> 2..k]
  /\ \A i \in j..Len(chain) : HasName(trace[at[i]]) /\ trace[at[i]].fn = chain[i]
  /\ \A i, l \in j..Len(chain) : i < l => at[l] < at[i]
  /\ j <= Len(chain) => \A i \in at[Len(chain)]..k : HasName(trace[i]) \/ NoFrame(trace[i])

\* A chain met from its next function on is met from this one, in a frame above.
LEMMA DownFrom ==
  ASSUME NEW chain, Len(chain) \in Nat, NEW trace, NEW j \in 1..Len(chain), NEW k \in Nat \ {0, 1},
         HasName(trace[k]), trace[k].fn = chain[j], NEW at, Down(at, chain, trace, j + 1, k - 1)
  PROVE  \E up : Down(up, chain, trace, j, k)
<1> DEFINE up == [i \in j..Len(chain) |-> IF i = j THEN k ELSE at[i]]
<1>1. \A i \in j..Len(chain) : i = j \/ i \in j + 1..Len(chain)  OBVIOUS
<1>2. \A i \in j + 1..Len(chain) : at[i] \in 2..k - 1 /\ at[i] < k /\ at[i] \in 2..k  BY DEF Down
<1>3. up \in [j..Len(chain) -> 2..k]  BY <1>1, <1>2
<1>4. \A i \in j..Len(chain) : HasName(trace[up[i]]) /\ trace[up[i]].fn = chain[i]
  BY <1>1 DEF Down
<1>5. ASSUME NEW i \in j..Len(chain), NEW l \in j..Len(chain), i < l PROVE up[l] < up[i]
  <2>1. l \in j + 1..Len(chain) /\ up[l] = at[l]  BY <1>1, <1>5
  <2>2. CASE i = j  BY <1>2, <2>1, <2>2
  <2>3. CASE i \in j + 1..Len(chain)
    <3>1. up[i] = at[i]  BY <2>3
    <3> QED  BY <1>5, <2>1, <2>3, <3>1 DEF Down
  <2> QED  BY <1>1, <2>2, <2>3
<1>6. ASSUME NEW i \in up[Len(chain)]..k PROVE HasName(trace[i]) \/ NoFrame(trace[i])
  <2>1. CASE j = Len(chain)
    <3>1. up[Len(chain)] = k  BY <2>1
    <3> QED  BY <3>1
  <2>2. CASE j # Len(chain)
    <3>1. up[Len(chain)] = at[Len(chain)] /\ j + 1 <= Len(chain) /\ at[Len(chain)] \in 2..k - 1
      BY <1>2, <2>2
    <3>2. i = k \/ i \in at[Len(chain)]..k - 1  BY <3>1
    <3> QED  BY <3>1, <3>2 DEF Down
  <2> QED  BY <2>1, <2>2
<1> HIDE DEF up
<1> QED  BY <1>3, <1>4, <1>5, <1>6 DEF Down

\* Met from function j on in k frames, a chain is met in one frame more that
\* does not end the way.
LEMMA DownPast ==
  ASSUME NEW chain, Len(chain) \in Nat, NEW trace, NEW j \in 1..Len(chain), NEW k \in Nat,
         HasName(trace[k + 1]) \/ NoFrame(trace[k + 1]), NEW at, Down(at, chain, trace, j, k)
  PROVE  Down(at, chain, trace, j, k + 1)
<1>1. at \in [j..Len(chain) -> 2..k + 1]  BY DEF Down
<1>2. at[Len(chain)] \in 2..k  BY DEF Down
<1>3. \A i \in at[Len(chain)]..k + 1 : i = k + 1 \/ i \in at[Len(chain)]..k  BY <1>2
<1> QED  BY <1>1, <1>3 DEF Down

\* And the other way round, where the frame at the top is not the one of
\* function j.
LEMMA DownBelow ==
  ASSUME NEW chain, Len(chain) \in Nat, NEW trace, NEW j \in 1..Len(chain), NEW k \in Nat,
         ~(HasName(trace[k + 1]) /\ trace[k + 1].fn = chain[j]),
         NEW at, Down(at, chain, trace, j, k + 1)
  PROVE  Down(at, chain, trace, j, k)
<1>1. at[j] \in 2..k + 1 /\ at[j] # k + 1  BY DEF Down
<1>2. ASSUME NEW i \in j..Len(chain) PROVE at[i] \in 2..k
  <2>1. at[i] \in 2..k + 1  BY DEF Down
  <2>2. i = j \/ j < i  OBVIOUS
  <2>3. j < i => at[i] < at[j]  BY DEF Down
  <2> QED  BY <1>1, <2>1, <2>2, <2>3
<1>3. at \in [j..Len(chain) -> 2..k]  BY <1>2 DEF Down
<1>4. Len(chain) \in j..Len(chain) /\ at[Len(chain)] \in 2..k  BY <1>2
<1>5. \A i \in at[Len(chain)]..k : i \in at[Len(chain)]..k + 1  BY <1>4
<1> QED  BY <1>3, <1>5 DEF Down

\* Where the frame at the top is that of function j, the others are met below.
LEMMA DownRest ==
  ASSUME NEW chain, Len(chain) \in Nat, NEW trace, NEW j \in 1..Len(chain), NEW k \in Nat,
         NEW at, Down(at, chain, trace, j, k + 1)
  PROVE  \E rest : Down(rest, chain, trace, j + 1, k)
<1> DEFINE rest == [i \in j + 1..Len(chain) |-> at[i]]
<1>1. ASSUME NEW i \in j + 1..Len(chain) PROVE at[i] \in 2..k
  <2>1. i \in j..Len(chain) /\ j \in j..Len(chain) /\ j < i  OBVIOUS
  <2>2. at[i] \in 2..k + 1 /\ at[j] \in 2..k + 1 /\ at[i] < at[j]  BY <2>1 DEF Down
  <2> QED  BY <2>2
<1>2. rest \in [j + 1..Len(chain) -> 2..k]  BY <1>1
<1>3. \A i \in j + 1..Len(chain) : i \in j..Len(chain) /\ rest[i] = at[i]  OBVIOUS
<1>4. ASSUME j + 1 <= Len(chain), NEW i \in rest[Len(chain)]..k
      PROVE  HasName(trace[i]) \/ NoFrame(trace[i])
  <2>1. rest[Len(chain)] = at[Len(chain)] /\ at[Len(chain)] \in 2..k  BY <1>1, <1>4
  <2>2. i \in at[Len(chain)]..k + 1  BY <2>1
  <2> QED  BY <2>2 DEF Down
<1> HIDE DEF rest
<1> QED  BY <1>2, <1>3, <1>4 DEF Down

\* The walk may be at function j of the chain with k frames to go just where
\* the functions from there on are met in those frames.
LEMMA WalkFinds ==
  ASSUME NEW chain, Len(chain) \in Nat, NEW trace, NEW n \in Nat, NEW f, WalksDown(f, chain, trace, n),
         NEW k \in 1..n, NEW j \in 1..Len(chain) + 1
  PROVE  j \in f[k] <=> \E at : Down(at, chain, trace, j, k)
<1> DEFINE Found(m) == \A i \in 1..Len(chain) + 1 :
                         i \in f[m] <=> m # 0 /\ \E at : Down(at, chain, trace, i, m)
           T == {m \in Nat : m <= n => Found(m)}
<1>1. 0 \in T
  <2>1. f[0] = {}  BY DEF WalksDown
  <2> QED  BY <2>1
<1>2. ASSUME NEW m \in Nat, m \in T PROVE m + 1 \in T
  <2> SUFFICES ASSUME m + 1 <= n, NEW i \in 1..Len(chain) + 1
               PROVE  i \in f[m + 1] <=> \E at : Down(at, chain, trace, i, m + 1)
    OBVIOUS
  <2> DEFINE c == trace[m + 1]
  <2>1. f[m + 1] = RestAt(f[m], chain, c)
    <3>1. m + 1 \in 0..n /\ m + 1 # 0 /\ (m + 1) - 1 = m  OBVIOUS
    <3> QED  BY <3>1 DEF WalksDown
  <2>2. Found(m)  BY <1>2
  <2>3. CASE i > Len(chain)
    <3>1. Down([x \in i..Len(chain) |-> 2], chain, trace, i, m + 1)  BY <2>3 DEF Down
    <3>2. i \in f[m + 1]  BY <2>1, <2>3 DEF RestAt
    <3> QED  BY <3>1, <3>2
  <2>4. CASE i <= Len(chain)
    <3>0. i \in 1..Len(chain) /\ i + 1 \in 1..Len(chain) + 1  BY <2>4
    <3>1. i \in f[m + 1] <=> \/ HasName(c) /\ c.fn = chain[i] /\ i + 1 \in f[m]
                             \/ HasName(c) /\ c.fn # chain[i] /\ i \in f[m]
                             \/ NoFrame(c) /\ i \in f[m]
      BY <2>1, <2>4 DEF RestAt
    <3>2. ASSUME HasName(c), c.fn = chain[i], i + 1 \in f[m] PROVE \E at : Down(at, chain, trace, i, m + 1)
      <4>1. PICK at : Down(at, chain, trace, i + 1, (m + 1) - 1)  BY <2>2, <3>0, <3>2
      <4>2. m + 1 \in Nat \ {0, 1}  BY <2>2, <3>0, <3>2
      <4> QED  BY <3>0, <3>2, <4>1, <4>2, DownFrom
    <3>3. ASSUME HasName(c) \/ NoFrame(c), i \in f[m] PROVE \E at : Down(at, chain, trace, i, m + 1)
      <4>1. PICK at : Down(at, chain, trace, i, m)  BY <2>2, <3>3
      <4> QED  BY <3>0, <3>3, <4>1, DownPast
    <3>4. ASSUME NEW at, Down(at, chain, trace, i, m + 1)
          PROVE  \/ HasName(c) /\ c.fn = chain[i] /\ i + 1 \in f[m]
                 \/ ((HasName(c) /\ c.fn # chain[i]) \/ NoFrame(c)) /\ i \in f[m]
      <4>1. at[Len(chain)] \in 2..m + 1 /\ m # 0  BY <3>0, <3>4 DEF Down
      <4>2. HasName(c) \/ NoFrame(c)
        <5>1. m + 1 \in at[Len(chain)]..m + 1  BY <4>1
        <5> QED  BY <2>4, <3>4, <5>1 DEF Down
      <4>3. CASE HasName(c) /\ c.fn = chain[i]
        <5>1. \E rest : Down(rest, chain, trace, i + 1, m)  BY <3>0, <3>4, DownRest
        <5> QED  BY <2>2, <3>0, <4>1, <4>3, <5>1
      <4>4. CASE ~(HasName(c) /\ c.fn = chain[i])
        <5>1. Down(at, chain, trace, i, m)  BY <3>0, <3>4, <4>4, DownBelow
        <5>2. i \in f[m]  BY <2>2, <4>1, <5>1
        <5> QED  BY <4>2, <4>4, <5>2
      <4> QED  BY <4>3, <4>4
    <3> QED  BY <3>1, <3>2, <3>3, <3>4
  <2> QED  BY <2>3, <2>4
<1>3. Nat \subseteq T
  <2> HIDE DEF T
  <2> QED  BY <1>1, <1>2, Induction
<1>4. k \in Nat /\ k <= n /\ k # 0  OBVIOUS
<1>5. Found(k)  BY <1>3, <1>4
<1> QED  BY <1>4, <1>5

\* A chain matches just where it is met going down from the call that is judged.
LEMMA ChainIsMet ==
  ASSUME NEW chain, Len(chain) \in Nat \ {0}, NEW trace, NEW n \in Nat \ {0, 1}, n = Len(trace),
         HasName(trace[n]), trace[n].fn = chain[1]
  PROVE  ChainMatches(chain, trace) <=> \E at : Down(at, chain, trace, 1, n) /\ at[1] = n
<1>1. PICK f : WalksDown(f, chain, trace, n) /\ ChainMatches(chain, trace) = (1 \in f[n])
  BY ChainWalks
<1>2. 1 \in f[n] <=> \E at : Down(at, chain, trace, 1, n)
  <2>1. n \in 1..n /\ 1 \in 1..Len(chain) + 1 /\ n \in Nat /\ Len(chain) \in Nat  OBVIOUS
  <2> QED  BY <1>1, <2>1, WalkFinds
<1>3. ASSUME NEW at, Down(at, chain, trace, 1, n) PROVE \E up : Down(up, chain, trace, 1, n) /\ up[1] = n
  <2> DEFINE up == [i \in 1..Len(chain) |-> IF i = 1 THEN n ELSE at[i]]
  <2>1. \A i \in 1..Len(chain) : at[i] \in 2..n  BY <1>3 DEF Down
  <2>2. up \in [1..Len(chain) -> 2..n]  BY <2>1
  <2>3. \A i \in 1..Len(chain) : HasName(trace[up[i]]) /\ trace[up[i]].fn = chain[i]
    BY <1>3 DEF Down
  <2>4. ASSUME NEW i \in 1..Len(chain), NEW l \in 1..Len(chain), i < l PROVE up[l] < up[i]
    <3>1. up[l] = at[l] /\ at[l] < at[i] /\ at[i] <= n  BY <1>3, <2>1, <2>4 DEF Down
    <3>2. at[l] \in 2..n /\ at[i] \in 2..n  BY <2>1
    <3> QED  BY <3>1, <3>2
  <2>5. ASSUME NEW i \in up[Len(chain)]..n PROVE HasName(trace[i]) \/ NoFrame(trace[i])
    <3>1. CASE Len(chain) = 1  BY <3>1
    <3>2. CASE Len(chain) # 1
      <4>1. up[Len(chain)] = at[Len(chain)] /\ 1 <= Len(chain)  BY <3>2
      <4> QED  BY <1>3, <4>1 DEF Down
    <3> QED  BY <3>1, <3>2
  <2>6. up[1] = n  OBVIOUS
  <2> HIDE DEF up
  <2>7. Down(up, chain, trace, 1, n)  BY <2>2, <2>3, <2>4, <2>5 DEF Down
  <2> QED  BY <2>6, <2>7
<1> QED  BY <1>1, <1>2, <1>3

-----------------------------------------------------------------------------
(* What the lists and the walks say of the file.                           *)

\* A list is in file order whatever the state: its definition is enough.
LEMMA InFileOrder == TypeOK => OneKindInFileOrder
<1> SUFFICES ASSUME TypeOK, Judging,
                    \/ \A i \in InFile : rules[i].r_function = {}
                    \/ Named(rules, F.call.fn, FALSE) = <<>>,
                    NEW i \in InFile, NEW j \in InFile
             PROVE  \E k \in 1..Len(List) : List[k] = i /\ (i < j => \E l \in k..Len(List) : List[l] = j)
  BY DEF OneKindInFileOrder
<1> DEFINE f == F.call.fn
           N == {x \in 1..Len(rules) : /\ rules[x].r_function = {} /\ Key(rules[x]) = f
                                       /\ IsRet(rules[x]) = FALSE}
           R == {x \in 1..Len(rules) : rules[x].r_function # {} /\ IsRet(rules[x]) = FALSE}
<1>1. Len(rules) \in Nat  BY RulesAreParsed DEF TypeOK
<1>2. Lists(Named(rules, f, FALSE), N, Len(rules))  BY <1>1, IndicesLists DEF Named
<1>3. Lists(Regexps(rules, FALSE), R, Len(rules))  BY <1>1, IndicesLists DEF Regexps
<1>4. f \notin Include /\ f \notin Construct /\ F.stage = "call"  BY NamesAreDistinct DEF Judging
<1>5. List = IF Named(rules, f, FALSE) = <<>> THEN Regexps(rules, FALSE) ELSE Named(rules, f, FALSE)
  BY <1>4 DEF List, RuleList
<1>6. \A x \in InFile : /\ x \in 1..Len(rules) /\ ~IsRet(rules[x])
                        /\ rules[x].r_function = {} => x \in N
                        /\ rules[x].r_function # {} => x \in R
  BY DEF InFile, Applies, Key, IsRet
<1>7. \E S : i \in S /\ j \in S /\ Lists(List, S, Len(rules))
  <2>1. CASE Named(rules, f, FALSE) = <<>>
    <3>1. i \notin N /\ j \notin N  BY <1>1, <1>2, <2>1, ListsNothing
    <3> QED  BY <1>3, <1>5, <1>6, <2>1, <3>1
  <2>2. CASE Named(rules, f, FALSE) # <<>>  BY <1>2, <1>5, <1>6, <2>2
  <2> QED  BY <2>1, <2>2
<1>8. PICK S : i \in S /\ j \in S /\ Lists(List, S, Len(rules))  BY <1>7
<1>9. i \in 1..Len(rules) /\ j \in 1..Len(rules)  BY <1>6
<1>10. PICK k \in 1..Len(List) : List[k] = i  BY <1>8, <1>9 DEF Lists
<1>11. PICK l \in 1..Len(List) : List[l] = j  BY <1>8, <1>9 DEF Lists
<1>12. i < j => k < l
  <2> SUFFICES ASSUME i < j, ~(k < l) PROVE FALSE  OBVIOUS
  <2>1. l < k \/ l = k  OBVIOUS
  <2>2. l < k => List[l] < List[k]  BY <1>8 DEF Lists
  <2> QED  BY <1>9, <1>10, <1>11, <2>1, <2>2
<1> QED  BY <1>10, <1>11, <1>12

LEMMA MetInside == TypeOK => ChainMetInside
<1> SUFFICES ASSUME TypeOK, Judging, NEW i \in 1..Len(rules), NEW chain, chain = rules[i].chain,
                    chain # <<>>, chain[1] = F.call.fn
             PROVE  FunctionMatches(rules[i], Trace) <=>
                      \E at \in [1..Len(chain) -> 2..Top] :
                        /\ at[1] = Top
                        /\ \A j \in DOMAIN at : HasName(stack[at[j]].call) /\ stack[at[j]].call.fn = chain[j]
                        /\ \A j, k \in DOMAIN at : j < k => at[k] < at[j]
                        /\ \A k \in at[Len(chain)]..Top : HasName(stack[k].call) \/ NoFrame(stack[k].call)
  BY DEF ChainMetInside
<1>1. Top \in Nat \ {0} /\ F = stack[Top] /\ Top \in 1..Len(stack)
  <2>1. stack \in Seq(Frames) /\ stack # <<>>  BY DEF TypeOK, Judging
  <2> HIDE DEF Frames
  <2> QED  BY <2>1 DEF Top, F
<1>2. Len(chain) \in Nat \ {0}  BY RulesAreParsed DEF TypeOK
<1>3. Len(Trace) = Top /\ \A k \in 1..Top : Trace[k] = stack[k].call  BY <1>1 DEF Trace
<1>4. Top # 1 /\ F.call \in Calls  BY <1>1 DEF Judging, TypeOK
<1>5. Trace[Top] = F.call /\ HasName(F.call)  BY <1>1, <1>3, <1>4, CallsNameFunctions DEF Judging, HasName
<1>6. FunctionMatches(rules[i], Trace) = ChainMatches(chain, Trace)  BY DEF FunctionMatches
<1>7. PICK n \in Nat \ {0, 1} : n = Top  BY <1>1, <1>4
<1>8. ChainMatches(chain, Trace) <=> \E at : Down(at, chain, Trace, 1, n) /\ at[1] = n
  BY <1>2, <1>3, <1>5, <1>7, ChainIsMet
<1>9. ASSUME NEW at
      PROVE  Down(at, chain, Trace, 1, n) <=>
               /\ at \in [1..Len(chain) -> 2..n]
               /\ \A j \in DOMAIN at : HasName(stack[at[j]].call) /\ stack[at[j]].call.fn = chain[j]
               /\ \A j, k \in DOMAIN at : j < k => at[k] < at[j]
               /\ \A k \in at[Len(chain)]..n : HasName(stack[k].call) \/ NoFrame(stack[k].call)
  <2>1. at \in [1..Len(chain) -> 2..n] =>
          /\ DOMAIN at = 1..Len(chain)
          /\ \A j \in DOMAIN at : Trace[at[j]] = stack[at[j]].call
          /\ \A k \in at[Len(chain)]..n : Trace[k] = stack[k].call
    <3> SUFFICES ASSUME at \in [1..Len(chain) -> 2..n]
                 PROVE  /\ DOMAIN at = 1..Len(chain)
                        /\ \A j \in DOMAIN at : Trace[at[j]] = stack[at[j]].call
                        /\ \A k \in at[Len(chain)]..n : Trace[k] = stack[k].call
      OBVIOUS
    <3>1. \A j \in 1..Len(chain) : at[j] \in 1..n  OBVIOUS
    <3>2. at[Len(chain)] \in 1..n  BY <1>2, <3>1
    <3>3. \A k \in at[Len(chain)]..n : k \in 1..n  BY <3>2
    <3> QED  BY <1>3, <1>7, <3>1, <3>3
  <2>2. CASE at \notin [1..Len(chain) -> 2..n]  BY <2>2 DEF Down
  <2>3. CASE at \in [1..Len(chain) -> 2..n]
    <3>1. (\A j \in 1..Len(chain) : HasName(Trace[at[j]]) /\ Trace[at[j]].fn = chain[j])
            <=> \A j \in DOMAIN at : HasName(stack[at[j]].call) /\ stack[at[j]].call.fn = chain[j]
      BY <2>1, <2>3, Zenon
    <3>2. (\A j, k \in 1..Len(chain) : j < k => at[k] < at[j])
            <=> \A j, k \in DOMAIN at : j < k => at[k] < at[j]
      BY <2>1, <2>3, Zenon
    <3>3. (\A k \in at[Len(chain)]..n : HasName(Trace[k]) \/ NoFrame(Trace[k]))
            <=> \A k \in at[Len(chain)]..n : HasName(stack[k].call) \/ NoFrame(stack[k].call)
      BY <2>1, <2>3, Zenon
    <3>4. 1 <= Len(chain)  BY <1>2
    <3> QED  BY <2>3, <3>1, <3>2, <3>3, <3>4, Zenon DEF Down
  <2> QED  BY <2>2, <2>3
<1> QED  BY <1>6, <1>7, <1>8, <1>9

\* However rules by name, by chain and by regular expression are mixed in a
\* file of any length, as long as only one kind concerns the function called,
\* the list should_disable walks has every rule that applies, in file order.
THEOREM FileOrder == Spec => []OneKindInFileOrder
<1> QED  BY DisableInvariant, InFileOrder, PTL DEF DisableInv

\* For a chain and a stack of any length: is_functions_list_matching says yes
\* to a call of the last function just where its callers are found below it,
\* each further out than the one it calls, and no file was included between.
THEOREM ChainInside == Spec => []ChainMetInside
<1> QED  BY DisableInvariant, MetInside, PTL DEF DisableInv
=============================================================================
