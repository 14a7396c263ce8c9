--------------------------- MODULE SpExecuteProofs ---------------------------
(***************************************************************************)
(* Proofs about SpExecute: the counters follow the frames, the filter on   *)
(* eval is enforced and the recursion limited, for any functions, fibers,  *)
(* configurations and number of frames.                                    *)
(***************************************************************************)
EXTENDS SpExecute, FiniteSetTheorems, TLAPS

-----------------------------------------------------------------------------
(* Lemmas about stacks: how pushing, popping and clearing changes the      *)
(* number of frames of some kinds.                                         *)

Stacks == {s \in [Thread -> Seq(Frame)] : \A t \in Thread : Len(s[t]) <= MaxFrames}

(* The frames of a request are finitely many.                              *)
LEMMA FramesFinite ==
  ASSUME NEW s, NEW K
  PROVE  /\ IsFiniteSet(FramesIn(s, K))
         /\ Cardinality(FramesIn(s, K)) \in Nat
<1>1. IsFiniteSet(Thread)
  BY NamesAssumption, FS_AddElement DEF Thread
<1>2. IsFiniteSet(1..MaxFrames)
  BY BoundsAssumption, FS_Interval
<1>3. IsFiniteSet(Thread \X (1..MaxFrames))
  BY <1>1, <1>2, FS_Product
<1>4. FramesIn(s, K) \in SUBSET (Thread \X (1..MaxFrames))
  BY DEF FramesIn
<1>5. IsFiniteSet(FramesIn(s, K))
  BY <1>3, <1>4, FS_Subset
<1> QED
  BY <1>5, FS_CardinalityType

(* Entering a frame adds its place, and nothing else.                      *)
LEMMA PushCount ==
  ASSUME NEW s \in Stacks, NEW t \in Thread, Len(s[t]) < MaxFrames, NEW fr \in Frame,
         NEW K, NEW s2 \in [Thread -> Seq(Frame)],
         s2[t] = Append(s[t], fr), \A u \in Thread : u # t => s2[u] = s[u]
  PROVE  /\ s2 \in Stacks
         /\ fr.kind \in K =>
              Cardinality(FramesIn(s2, K)) = Cardinality(FramesIn(s, K)) + 1
         /\ fr.kind \notin K =>
              Cardinality(FramesIn(s2, K)) = Cardinality(FramesIn(s, K))
<1> DEFINE p == <<t, Len(s[t]) + 1>>
<1>1. /\ s[t] \in Seq(Frame)
      /\ Len(s[t]) \in Nat
      /\ s2[t] = Append(s[t], fr)
      /\ \A u \in Thread : u # t => s2[u] = s[u]
  BY DEF Stacks
<1>2. /\ DOMAIN s[t] = 1..Len(s[t])
      /\ DOMAIN s2[t] = 1..(Len(s[t]) + 1)
      /\ s2[t][Len(s[t]) + 1] = fr
      /\ \A i \in 1..Len(s[t]) : s2[t][i] = s[t][i]
  BY <1>1
<1>3. s2 \in Stacks
  <2>1. ASSUME NEW u \in Thread
        PROVE  Len(s2[u]) <= MaxFrames
    <3>1. CASE u = t
      BY <3>1, <1>1, BoundsAssumption
    <3>2. CASE u # t
      BY <3>2, <1>1 DEF Stacks
    <3> QED
      BY <3>1, <3>2
  <2> QED
    BY <2>1 DEF Stacks
<1>4. p \in Thread \X (1..MaxFrames)
  BY <1>1, BoundsAssumption
<1>5. p \notin FramesIn(s, K)
  BY <1>1, <1>2 DEF FramesIn
<1>6. FramesIn(s2, K) = IF fr.kind \in K THEN FramesIn(s, K) \cup {p} ELSE FramesIn(s, K)
  <2>1. ASSUME NEW q \in Thread \X (1..MaxFrames)
        PROVE  q \in FramesIn(s2, K) <=>
                 q \in FramesIn(s, K) \/ (q = p /\ fr.kind \in K)
    <3>1. CASE q[1] # t
      BY <3>1, <1>1 DEF FramesIn
    <3>2. CASE q[1] = t /\ q[2] \in 1..Len(s[t])
      <4>1. q # p
        BY <3>2, <1>1
      <4> QED
        BY <3>2, <4>1, <1>1, <1>2 DEF FramesIn
    <3>3. CASE q = p
      BY <3>3, <1>1, <1>2, <1>4 DEF FramesIn
    <3>4. CASE q[1] = t /\ q[2] > Len(s[t]) + 1
      <4>1. q # p /\ q[2] \notin DOMAIN s[t] /\ q[2] \notin DOMAIN s2[t]
        BY <3>4, <1>1, <1>2
      <4> QED
        BY <3>4, <4>1 DEF FramesIn
    <3>5. q[2] \in Nat /\ q = <<q[1], q[2]>>
      BY BoundsAssumption
    <3> QED
      BY <3>1, <3>2, <3>3, <3>4, <3>5, <1>1
  <2> QED
    BY <2>1, <1>4 DEF FramesIn
<1>7. Cardinality(FramesIn(s, K) \cup {p}) = Cardinality(FramesIn(s, K)) + 1
  BY <1>5, FramesFinite, FS_AddElement
<1>8. Cardinality(FramesIn(s, K)) \in Nat
  BY FramesFinite
<1> QED
  BY <1>3, <1>6, <1>7, <1>8

(* Leaving a frame takes its place away, and nothing else.                 *)
LEMMA PopCount ==
  ASSUME NEW s \in Stacks, NEW t \in Thread, s[t] # <<>>, NEW K,
         NEW s2 \in [Thread -> Seq(Frame)],
         s2[t] = SubSeq(s[t], 1, Len(s[t]) - 1), \A u \in Thread : u # t => s2[u] = s[u]
  PROVE  /\ s2 \in Stacks
         /\ s[t][Len(s[t])].kind \in K =>
              Cardinality(FramesIn(s2, K)) = Cardinality(FramesIn(s, K)) - 1
         /\ s[t][Len(s[t])].kind \notin K =>
              Cardinality(FramesIn(s2, K)) = Cardinality(FramesIn(s, K))
<1> DEFINE p == <<t, Len(s[t])>>
<1>1. /\ s[t] \in Seq(Frame)
      /\ Len(s[t]) \in Nat \ {0}
      /\ Len(s[t]) <= MaxFrames
      /\ s2[t] = SubSeq(s[t], 1, Len(s[t]) - 1)
      /\ \A u \in Thread : u # t => s2[u] = s[u]
  BY DEF Stacks
<1>2. /\ DOMAIN s[t] = 1..Len(s[t])
      /\ DOMAIN s2[t] = 1..(Len(s[t]) - 1)
      /\ Len(s2[t]) = Len(s[t]) - 1
      /\ s2[t] \in Seq(Frame)
      /\ \A i \in 1..(Len(s[t]) - 1) : s2[t][i] = s[t][i]
  BY <1>1
<1>3. s2 \in Stacks
  BY <1>1, <1>2, BoundsAssumption DEF Stacks
<1>4. p \in Thread \X (1..MaxFrames)
  BY <1>1, BoundsAssumption
<1>5. p \in FramesIn(s, K) <=> s[t][Len(s[t])].kind \in K
  BY <1>1, <1>2, <1>4 DEF FramesIn
<1>6. FramesIn(s2, K) = FramesIn(s, K) \ {p}
  <2>1. ASSUME NEW q \in Thread \X (1..MaxFrames)
        PROVE  q \in FramesIn(s2, K) <=> q \in FramesIn(s, K) /\ q # p
    <3>1. CASE q[1] # t
      BY <3>1, <1>1 DEF FramesIn
    <3>2. CASE q[1] = t /\ q[2] \in 1..(Len(s[t]) - 1)
      <4>1. q # p
        BY <3>2, <1>1
      <4> QED
        BY <3>2, <4>1, <1>1, <1>2 DEF FramesIn
    <3>3. CASE q[1] = t /\ q[2] \notin 1..(Len(s[t]) - 1)
      <4>1. q[2] \in DOMAIN s[t] => q = p
        BY <3>3, <1>1, <1>2
      <4> QED
        BY <3>3, <4>1, <1>1, <1>2 DEF FramesIn
    <3> QED
      BY <3>1, <3>2, <3>3
  <2> QED
    BY <2>1 DEF FramesIn
<1>7. Cardinality(FramesIn(s, K) \ {p}) =
        IF p \in FramesIn(s, K) THEN Cardinality(FramesIn(s, K)) - 1
                                ELSE Cardinality(FramesIn(s, K))
  BY FramesFinite, FS_RemoveElement
<1>8. Cardinality(FramesIn(s, K)) \in Nat
  BY FramesFinite
<1> QED
  BY <1>3, <1>5, <1>6, <1>7, <1>8

(* The same of Pop: the other threads and the frames below are untouched.  *)
LEMMA PopEffect ==
  ASSUME NEW s \in Stacks, NEW t \in Thread, s[t] # <<>>
  PROVE  /\ Pop(s, t) \in Stacks
         /\ Len(Pop(s, t)[t]) = Len(s[t]) - 1
         /\ \A u \in Thread : u # t => Pop(s, t)[u] = s[u]
         /\ \A u \in Thread : \A i \in DOMAIN Pop(s, t)[u] :
              i \in DOMAIN s[u] /\ Pop(s, t)[u][i] = s[u][i]
         /\ \A K : /\ s[t][Len(s[t])].kind \in K =>
                        Cardinality(FramesIn(Pop(s, t), K)) = Cardinality(FramesIn(s, K)) - 1
                   /\ s[t][Len(s[t])].kind \notin K =>
                        Cardinality(FramesIn(Pop(s, t), K)) = Cardinality(FramesIn(s, K))
<1>1. s[t] \in Seq(Frame) /\ Len(s[t]) \in Nat \ {0}
  BY DEF Stacks
<1>2. /\ Pop(s, t) \in [Thread -> Seq(Frame)]
      /\ Pop(s, t)[t] = SubSeq(s[t], 1, Len(s[t]) - 1)
      /\ \A u \in Thread : u # t => Pop(s, t)[u] = s[u]
  BY <1>1 DEF Pop, Stacks
<1>3. /\ Len(Pop(s, t)[t]) = Len(s[t]) - 1
      /\ DOMAIN Pop(s, t)[t] = 1..(Len(s[t]) - 1)
      /\ DOMAIN s[t] = 1..Len(s[t])
      /\ \A i \in 1..(Len(s[t]) - 1) : Pop(s, t)[t][i] = s[t][i]
  BY <1>1, <1>2
<1>4. Pop(s, t) \in Stacks
  BY <1>2, PopCount
<1>5. ASSUME NEW u \in Thread, NEW i \in DOMAIN Pop(s, t)[u]
      PROVE  i \in DOMAIN s[u] /\ Pop(s, t)[u][i] = s[u][i]
  BY <1>1, <1>2, <1>3, <1>5
<1>6. ASSUME NEW K
      PROVE  /\ s[t][Len(s[t])].kind \in K =>
                  Cardinality(FramesIn(Pop(s, t), K)) = Cardinality(FramesIn(s, K)) - 1
             /\ s[t][Len(s[t])].kind \notin K =>
                  Cardinality(FramesIn(Pop(s, t), K)) = Cardinality(FramesIn(s, K))
  BY <1>2, PopCount
<1> QED
  BY <1>2, <1>3, <1>4, <1>5, <1>6

(* Executing a compiled eval turns a frame that was not counted into one   *)
(* that is.                                                                *)
Replaced(t, fr) ==
  /\ stack \in Stacks /\ t \in Thread /\ stack[t] # <<>> /\ fr \in Frame
  /\ stack' \in [Thread -> Seq(Frame)]
  /\ Len(stack'[t]) = Len(stack[t])
  /\ stack'[t][Len(stack[t])] = fr
  /\ \A i \in DOMAIN stack[t] : i # Len(stack[t]) => stack'[t][i] = stack[t][i]
  /\ \A u \in Thread : u # t => stack'[u] = stack[u]

LEMMA ReplaceCount ==
  ASSUME NEW t, NEW fr, NEW K, Replaced(t, fr),
         fr.kind \in K, stack[t][Len(stack[t])].kind \notin K
  PROVE  /\ stack' \in Stacks
         /\ Cardinality(FramesIn(stack', K)) = Cardinality(FramesIn(stack, K)) + 1
<1> USE DEF Replaced
<1> DEFINE p == <<t, Len(stack[t])>>
<1>1. /\ stack[t] \in Seq(Frame)
      /\ Len(stack[t]) \in Nat \ {0}
      /\ Len(stack[t]) <= MaxFrames
      /\ DOMAIN stack[t] = 1..Len(stack[t])
      /\ stack'[t] \in Seq(Frame)
      /\ Len(stack'[t]) = Len(stack[t])
      /\ \A u \in Thread : u # t => stack'[u] = stack[u]
  BY DEF Stacks
<1>2. /\ DOMAIN stack'[t] = 1..Len(stack[t])
      /\ Len(stack'[t]) = Len(stack[t])
      /\ stack'[t] \in Seq(Frame)
      /\ stack'[t][Len(stack[t])] = fr
      /\ \A i \in DOMAIN stack[t] : i # Len(stack[t]) => stack'[t][i] = stack[t][i]
  BY <1>1
<1>3. stack' \in Stacks
  BY <1>1, <1>2, BoundsAssumption DEF Stacks
<1>4. p \in Thread \X (1..MaxFrames)
  BY <1>1, BoundsAssumption
<1>5. p \notin FramesIn(stack, K)
  BY <1>1 DEF FramesIn
<1>6. FramesIn(stack', K) = FramesIn(stack, K) \cup {p}
  <2>1. ASSUME NEW q \in Thread \X (1..MaxFrames)
        PROVE  q \in FramesIn(stack', K) <=>
                 q \in FramesIn(stack, K) \/ q = p
    <3>1. CASE q[1] # t
      BY <3>1, <1>1 DEF FramesIn
    <3>2. CASE q[1] = t /\ q[2] # Len(stack[t])
      <4>1. q # p
        BY <3>2
      <4>2. q[2] \in DOMAIN stack[t] => stack'[t][q[2]] = stack[t][q[2]]
        BY <3>2, <1>1, <1>2
      <4> QED
        BY <3>2, <4>1, <4>2, <1>1, <1>2 DEF FramesIn
    <3>3. CASE q = p
      BY <3>3, <1>1, <1>2, <1>4, <1>5 DEF FramesIn
    <3> QED
      BY <3>1, <3>2, <3>3
  <2> QED
    BY <2>1, <1>4 DEF FramesIn
<1>7. Cardinality(FramesIn(stack, K) \cup {p}) = Cardinality(FramesIn(stack, K)) + 1
  BY <1>5, FramesFinite, FS_AddElement
<1>8. Cardinality(FramesIn(stack, K)) \in Nat
  BY FramesFinite
<1> QED
  BY <1>3, <1>6, <1>7, <1>8

(* A bailout only takes frames away.                                       *)
LEMMA ClearCount ==
  ASSUME NEW s \in Stacks, NEW s2 \in [Thread -> Seq(Frame)],
         \A t \in Thread : s2[t] = <<>> \/ s2[t] = s[t], NEW K
  PROVE  /\ s2 \in Stacks
         /\ FramesIn(s2, K) \subseteq FramesIn(s, K)
         /\ Cardinality(FramesIn(s2, K)) <= Cardinality(FramesIn(s, K))
<1>1. s2 \in Stacks
  <2>1. ASSUME NEW t \in Thread
        PROVE  Len(s2[t]) <= MaxFrames
    <3>1. CASE s2[t] = <<>>
      BY <3>1, BoundsAssumption
    <3>2. CASE s2[t] = s[t]
      BY <3>2 DEF Stacks
    <3> QED
      BY <3>1, <3>2
  <2> QED
    BY <2>1 DEF Stacks
<1>2. FramesIn(s2, K) \subseteq FramesIn(s, K)
  BY DEF FramesIn
<1> QED
  BY <1>1, <1>2, FramesFinite, FS_Subset

(* Destroying a fiber takes its own frames of each kind away.              *)
LEMMA DestroyCount ==
  ASSUME stack \in Stacks, NEW b \in Thread, NEW K,
         stack' \in [Thread -> Seq(Frame)],
         stack'[b] = <<>>, \A u \in Thread : u # b => stack'[u] = stack[u]
  PROVE  LET n == Cardinality({p \in FramesIn(stack, K) : p[1] = b})
         IN /\ stack' \in Stacks /\ n \in Nat
            /\ Cardinality(FramesIn(stack', K)) = Cardinality(FramesIn(stack, K)) - n
<1> DEFINE own == {p \in FramesIn(stack, K) : p[1] = b}
<1>1. stack' \in Stacks
  <2>1. ASSUME NEW u \in Thread
        PROVE  Len(stack'[u]) <= MaxFrames
    <3>1. CASE u = b
      BY <3>1, BoundsAssumption
    <3>2. CASE u # b
      BY <3>2 DEF Stacks
    <3> QED
      BY <3>1, <3>2
  <2> QED
    BY <2>1 DEF Stacks
<1>2. FramesIn(stack', K) = FramesIn(stack, K) \ own
  <2>1. ASSUME NEW q \in Thread \X (1..MaxFrames)
        PROVE  q \in FramesIn(stack', K) <=> q \in FramesIn(stack, K) /\ q[1] # b
    <3>1. CASE q[1] = b
      BY <3>1 DEF FramesIn
    <3>2. CASE q[1] # b
      BY <3>2 DEF FramesIn
    <3> QED
      BY <3>1, <3>2
  <2> QED
    BY <2>1 DEF FramesIn
<1>3. own \in SUBSET FramesIn(stack, K) /\ FramesIn(stack, K) \cap own = own
  OBVIOUS
<1> HIDE DEF own
<1>4. Cardinality(FramesIn(stack, K) \ own) = Cardinality(FramesIn(stack, K)) - Cardinality(own)
  <2>1. IsFiniteSet(FramesIn(stack, K))
    BY FramesFinite
  <2>2. Cardinality(FramesIn(stack, K) \ own) =
          Cardinality(FramesIn(stack, K)) - Cardinality(FramesIn(stack, K) \cap own)
    BY <2>1, FS_Difference
  <2> QED
    BY <1>3, <2>2
<1>5. Cardinality(own) \in Nat
  BY <1>3, FramesFinite, FS_Subset, FS_CardinalityType
<1>6. /\ stack' \in Stacks /\ Cardinality(own) \in Nat
      /\ Cardinality(FramesIn(stack', K)) = Cardinality(FramesIn(stack, K)) - Cardinality(own)
  BY <1>1, <1>2, <1>4, <1>5
<1> QED
  BY <1>6, Zenon DEF own

-----------------------------------------------------------------------------
(* Lemmas about the state.                                                 *)

(* The running thread, and those it was resumed from.                      *)
LEMMA CurFacts ==
  ASSUME TypeOK, ChainInv
  PROVE  /\ stack \in Stacks
         /\ Len(chain) \in Nat \ {0}
         /\ DOMAIN chain = 1..Len(chain)
         /\ \A k \in 1..Len(chain) : chain[k] \in Thread
         /\ Cur \in Thread
         /\ \A k \in 1..(Len(chain) - 1) : chain[k] # Cur
         /\ stack[Cur] \in Seq(Frame)
         /\ Len(stack[Cur]) \in Nat
         /\ stack[Cur] # <<>> => Len(stack[Cur]) > 0 /\ Top \in Frame
<1>1. stack \in Stacks
  BY DEF TypeOK, Stacks
<1>2. /\ Len(chain) \in Nat \ {0}
      /\ DOMAIN chain = 1..Len(chain)
      /\ \A k \in 1..Len(chain) : chain[k] \in Thread
  BY DEF TypeOK
<1>3. Cur \in Thread /\ \A k \in 1..(Len(chain) - 1) : chain[k] # Cur
  BY <1>2 DEF Cur, ChainInv
<1>4. stack[Cur] \in Seq(Frame) /\ Len(stack[Cur]) \in Nat
  BY <1>3 DEF TypeOK
<1>5. stack[Cur] # <<>> => Len(stack[Cur]) > 0 /\ Top \in Frame
  BY <1>4 DEF Top
<1> QED
  BY <1>1, <1>2, <1>3, <1>4, <1>5

(* Inside an eval the counter is not zero: the checks are not skipped.     *)
LEMMA InsideIsCounted ==
  ASSUME CountersFollowStack, in_eval \in Nat, InsideEval
  PROVE  in_eval > 0
<1>1. Evals # {}
  BY DEF InsideEval
<1>2. Cardinality(Evals) # 0 /\ Cardinality(Evals) \in Nat
  BY <1>1, FramesFinite, FS_EmptySet DEF Evals
<1> QED
  BY <1>2 DEF CountersFollowStack

(* The frames of a request, and the checks, have their types.              *)
LEMMA CfgFacts ==
  ASSUME TypeOK
  PROVE  /\ cfg.max_execution_depth \in Nat
         /\ cfg \in ConfigRecord
BY NamesAssumption DEF TypeOK, ConfigRecord

(* Every frame a thread has is one that the filter on eval lets pass.      *)
Filtered(s) ==
  \A t \in Thread : \A i \in DOMAIN s[t] :
    s[t][i].inside /\ ~Simulation => Permitted(s[t][i])

LEMMA FilteredPrime ==
  ASSUME UNCHANGED cfg, Filtered(stack')
  PROVE  EvalFilterEnforced'
BY DEF Filtered, EvalFilterEnforced, Simulation, Permitted, IsWhitelisted, Wrapped

(* What Push does to the frames of the threads, and to their number.       *)
LEMMA PushEffect ==
  ASSUME TypeOK, ChainInv, HasRoom, NEW fr \in Frame, Push(fr)
  PROVE  /\ stack' \in Stacks
         /\ stack' \in [Thread -> Seq(Frame)]
         /\ stack'[Cur] = Append(stack[Cur], fr)
         /\ \A t \in Thread : t # Cur => stack'[t] = stack[t]
         /\ \A K : /\ fr.kind \in K =>
                        Cardinality(FramesIn(stack', K)) = Cardinality(FramesIn(stack, K)) + 1
                   /\ fr.kind \notin K =>
                        Cardinality(FramesIn(stack', K)) = Cardinality(FramesIn(stack, K))
<1>1. stack \in Stacks /\ Cur \in Thread /\ Len(stack[Cur]) < MaxFrames
  BY CurFacts DEF HasRoom
<1>2. /\ stack' \in [Thread -> Seq(Frame)]
      /\ stack'[Cur] = Append(stack[Cur], fr)
      /\ \A t \in Thread : t # Cur => stack'[t] = stack[t]
  BY <1>1 DEF Push, Stacks
<1>3. stack' \in Stacks
  BY <1>1, <1>2, PushCount
<1>4. ASSUME NEW K
      PROVE  /\ fr.kind \in K =>
                  Cardinality(FramesIn(stack', K)) = Cardinality(FramesIn(stack, K)) + 1
             /\ fr.kind \notin K =>
                  Cardinality(FramesIn(stack', K)) = Cardinality(FramesIn(stack, K))
  BY <1>1, <1>2, PushCount
<1> QED
  BY <1>2, <1>3, <1>4

(* Entering a frame keeps the invariant, if the frame is counted, limited  *)
(* and filtered as its kind requires.                                      *)
LEMMA PushStep ==
  ASSUME ExecInv, Running, HasRoom,
         NEW fr \in Frame, Push(fr),
         fr.kind \in {"file", "user", "internal", "compile"},
         fr.inside /\ ~Simulation => Permitted(fr),
         UNCHANGED <<stage, cfg, in_eval, chain>>,
         eval_source' \in Source \cup {None},
         execution_depth' = execution_depth + (IF fr.kind \in Counted THEN 1 ELSE 0),
         refused' = IF fr.kind \in Counted /\ DepthRefuses(execution_depth + 1)
                    THEN "execute" ELSE None
  PROVE  ExecInv'
<1> USE DEF ExecInv
<1>1. /\ stack \in Stacks /\ Cur \in Thread /\ stack[Cur] \in Seq(Frame)
      /\ Len(stack[Cur]) \in Nat /\ Len(chain) \in Nat \ {0}
      /\ \A k \in 1..Len(chain) : chain[k] \in Thread
      /\ \A k \in 1..(Len(chain) - 1) : chain[k] # Cur
  BY CurFacts
<1>2. Len(stack[Cur]) < MaxFrames
  BY DEF HasRoom
<1>3. /\ stack' \in Stacks
      /\ stack'[Cur] = Append(stack[Cur], fr)
      /\ \A t \in Thread : t # Cur => stack'[t] = stack[t]
  BY PushEffect
<1>4. /\ Len(stack'[Cur]) = Len(stack[Cur]) + 1
      /\ DOMAIN stack'[Cur] = 1..(Len(stack[Cur]) + 1)
      /\ DOMAIN stack[Cur] = 1..Len(stack[Cur])
      /\ stack'[Cur][Len(stack[Cur]) + 1] = fr
      /\ \A i \in 1..Len(stack[Cur]) : stack'[Cur][i] = stack[Cur][i]
      /\ stack'[Cur] # <<>>
  BY <1>1, <1>3
<1>5. Cur' = Cur
  BY DEF Cur
<1>6. Cardinality(Evals') = Cardinality(Evals)
  <2>1. fr.kind \notin {"eval"}
    OBVIOUS
  <2>2. Cardinality(FramesIn(stack', {"eval"})) = Cardinality(FramesIn(stack, {"eval"}))
    BY <2>1, PushEffect
  <2> QED
    BY <2>2 DEF Evals
<1>7. /\ fr.kind \in Counted => Cardinality(Executed') = Cardinality(Executed) + 1
      /\ fr.kind \notin Counted => Cardinality(Executed') = Cardinality(Executed)
  <2>1. /\ fr.kind \in Counted =>
             Cardinality(FramesIn(stack', Counted)) = Cardinality(FramesIn(stack, Counted)) + 1
        /\ fr.kind \notin Counted =>
             Cardinality(FramesIn(stack', Counted)) = Cardinality(FramesIn(stack, Counted))
    BY PushEffect
  <2> QED
    BY <2>1 DEF Executed
<1>8. /\ Cardinality(Executed) \in Nat /\ Cardinality(Evals) \in Nat
      /\ in_eval \in Nat /\ execution_depth \in Nat /\ stage > 0 /\ stage \in Nat
  BY FramesFinite, BoundsAssumption DEF Executed, Evals, TypeOK, Running
<1>9. TypeOK'
  BY <1>3, <1>8 DEF TypeOK, Stacks, Rule
<1>10. IdleInv'
  BY <1>8 DEF IdleInv
<1>11. ChainInv'
  <2>1. ASSUME NEW k \in 1..(Len(chain) - 1)
        PROVE  stack'[chain[k]] # <<>>
    BY <2>1, <1>1, <1>3 DEF ChainInv
  <2>2. ASSUME NEW t \in Thread \ {Cur}, stack'[t] # <<>>
        PROVE  stack'[t][Len(stack'[t])].kind = "internal"
    BY <2>2, <1>3 DEF ChainInv
  <2> QED
    BY <2>1, <2>2, <1>5 DEF ChainInv
<1>12. RefusedFrame'
  <2>1. CASE fr.kind \in Counted
    BY <2>1, <1>4, <1>5 DEF RefusedFrame, TopIs, Top
  <2>2. CASE fr.kind \notin Counted
    <3>1. refused' # "execute"
      BY <2>2, NamesAssumption DEF Rule
    <3> QED
      BY <3>1 DEF RefusedFrame
  <2> QED
    BY <2>1, <2>2
<1>13. CountersFollowStack'
  BY <1>6, <1>7, <1>8 DEF CountersFollowStack
<1>14. EvalFilterEnforced'
  <2>1. ASSUME NEW t \in Thread, NEW i \in DOMAIN stack'[t],
               stack'[t][i].inside, ~Simulation
        PROVE  Permitted(stack'[t][i])
    <3>1. CASE t # Cur
      BY <3>1, <2>1, <1>3 DEF EvalFilterEnforced
    <3>2. CASE t = Cur /\ i \in 1..Len(stack[Cur])
      BY <3>2, <2>1, <1>1, <1>4 DEF EvalFilterEnforced
    <3>3. CASE t = Cur /\ i = Len(stack[Cur]) + 1
      BY <3>3, <2>1, <1>4
    <3> QED
      BY <3>1, <3>2, <3>3, <1>1, <1>4
  <2>2. Filtered(stack')
    BY <2>1 DEF Filtered
  <2> QED
    BY <2>2, FilteredPrime
<1>15. DepthLimited'
  <2>1. refused # "execute"
    BY NamesAssumption DEF Rule, Running
  <2>2. cfg.max_execution_depth \in Nat /\ cfg' = cfg
    BY CfgFacts
  <2>3. cfg.max_execution_depth > 0 => Cardinality(Executed) <= cfg.max_execution_depth
    BY <2>1, <2>2, <1>8 DEF DepthLimited
  <2>4. CASE fr.kind \notin Counted
    BY <2>2, <2>3, <2>4, <1>7, <1>8 DEF DepthLimited
  <2>5. CASE fr.kind \in Counted /\ DepthRefuses(execution_depth + 1)
    BY <2>2, <2>3, <2>5, <1>7, <1>8 DEF DepthLimited
  <2>6. CASE fr.kind \in Counted /\ ~DepthRefuses(execution_depth + 1)
    BY <2>2, <2>6, <1>7, <1>8 DEF DepthLimited, DepthRefuses, CountersFollowStack
  <2> QED
    BY <2>4, <2>5, <2>6
<1> QED
  BY <1>9, <1>10, <1>11, <1>12, <1>13, <1>14, <1>15

(* A step that leaves frames, and is no part of one entering any, keeps    *)
(* the filter.                                                             *)
LEMMA FewerFramesFiltered ==
  ASSUME EvalFilterEnforced, UNCHANGED cfg,
         \A t \in Thread : \A i \in DOMAIN stack'[t] :
           i \in DOMAIN stack[t] /\ stack'[t][i] = stack[t][i]
  PROVE  EvalFilterEnforced'
<1>1. Filtered(stack')
  BY DEF Filtered, EvalFilterEnforced
<1> QED
  BY <1>1, FilteredPrime

(* The limit holds on when no frame is added and nothing was refused.      *)
LEMMA FewerFramesLimited ==
  ASSUME DepthLimited, TypeOK, UNCHANGED cfg, refused # "execute",
         Cardinality(Executed') <= Cardinality(Executed)
  PROVE  DepthLimited'
<1>1. /\ cfg.max_execution_depth \in Nat
      /\ Cardinality(Executed) \in Nat
      /\ Cardinality(FramesIn(stack', Counted)) \in Nat
  BY CfgFacts, FramesFinite DEF Executed
<1>2. Cardinality(Executed') \in Nat
  BY <1>1 DEF Executed
<1> QED
  BY <1>1, <1>2 DEF DepthLimited

(* Counters that follow the frames left keep following them.               *)
LEMMA CountersAfter ==
  ASSUME CountersFollowStack, TypeOK, NEW n \in Nat, NEW m \in Nat, UNCHANGED stage,
         in_eval' = in_eval - n, execution_depth' = execution_depth - m,
         Cardinality(Evals') = Cardinality(Evals) - n,
         Cardinality(Executed') = Cardinality(Executed) - m
  PROVE  CountersFollowStack' /\ in_eval' \in Nat /\ execution_depth' \in Nat
<1>1. /\ Cardinality(Evals) \in Nat /\ Cardinality(Executed) \in Nat
      /\ Cardinality(FramesIn(stack', Counted)) \in Nat
      /\ Cardinality(FramesIn(stack', {"eval"})) \in Nat
  BY FramesFinite DEF Evals, Executed
<1>2. Cardinality(Evals') \in Nat /\ Cardinality(Executed') \in Nat
  BY <1>1 DEF Evals, Executed
<1> QED
  BY <1>1, <1>2, SMTT(20) DEF CountersFollowStack, TypeOK

-----------------------------------------------------------------------------
(* The actions, one lemma each, or one for those that do the same.         *)

(* Threads without frames have nothing to count.                           *)
LEMMA NothingCounted ==
  ASSUME NEW s, \A t \in Thread : s[t] = <<>>, NEW K
  PROVE  Cardinality(FramesIn(s, K)) = 0
<1>1. FramesIn(s, K) = {}
  BY DEF FramesIn
<1> QED
  BY <1>1, FS_EmptySet

LEMMA BeginRequestStep ==
  ASSUME ExecInv, NEW c \in Configs, BeginRequest(c)
  PROVE  ExecInv'
<1> USE DEF ExecInv, BeginRequest
<1>1. /\ \A t \in Thread : stack[t] = <<>>
      /\ chain = <<Main>> /\ refused = None
  BY DEF IdleInv
<1>2. Cardinality(FramesIn(stack', {"eval"})) = 0 /\ Cardinality(FramesIn(stack', Counted)) = 0
  BY <1>1, NothingCounted
<1>3. Cardinality(Evals') = 0 /\ Cardinality(Executed') = 0
  BY <1>2 DEF Evals, Executed
<1>4. c.max_execution_depth \in Nat
  BY NamesAssumption DEF ConfigRecord
<1>5. None # "execute"
  BY NamesAssumption DEF Rule
<1>6. TypeOK'
  BY BoundsAssumption DEF TypeOK
<1>7. IdleInv' /\ RefusedFrame'
  BY <1>1, <1>5 DEF IdleInv, RefusedFrame
<1>8. ChainInv'
  BY DEF ChainInv, Cur
<1>9. CountersFollowStack'
  BY <1>3 DEF CountersFollowStack
<1>10. EvalFilterEnforced'
  BY <1>1 DEF EvalFilterEnforced
<1>11. DepthLimited'
  BY <1>1, <1>3, <1>4, <1>5 DEF DepthLimited
<1> QED
  BY <1>6, <1>7, <1>8, <1>9, <1>10, <1>11

LEMMA EndStageStep ==
  ASSUME ExecInv, EndStage
  PROVE  ExecInv'
<1> USE DEF ExecInv, EndStage, Running
<1>1. stage' \in 0..LastStage /\ stage' # 0 /\ stage' # 1
  BY BoundsAssumption DEF TypeOK
<1>2. TypeOK'
  BY <1>1 DEF TypeOK
<1>3. IdleInv' /\ RefusedFrame'
  BY <1>1 DEF IdleInv, RefusedFrame, TopIs, Top, Cur
<1>4. ChainInv'
  BY DEF ChainInv, Cur
<1>5. CountersFollowStack'
  BY <1>1 DEF CountersFollowStack, Evals, Executed, FramesIn
<1>6. EvalFilterEnforced'
  BY FewerFramesFiltered
<1>7. DepthLimited'
  BY DEF DepthLimited, Executed, FramesIn
<1> QED
  BY <1>2, <1>3, <1>4, <1>5, <1>6, <1>7

LEMMA EndRequestStep ==
  ASSUME ExecInv, EndRequest
  PROVE  ExecInv'
<1> USE DEF ExecInv, EndRequest, Running
<1>1. \A t \in Thread : stack'[t] = <<>>
  OBVIOUS
<1>2. Cardinality(FramesIn(stack', {"eval"})) = 0 /\ Cardinality(FramesIn(stack', Counted)) = 0
  BY <1>1, NothingCounted
<1>3. Cardinality(Evals') = 0 /\ Cardinality(Executed') = 0
  BY <1>2 DEF Evals, Executed
<1>4. cfg.max_execution_depth \in Nat
  BY CfgFacts
<1>5. None # "execute"
  BY NamesAssumption DEF Rule
<1>6. TypeOK'
  BY BoundsAssumption DEF TypeOK
<1>7. IdleInv' /\ RefusedFrame'
  BY <1>1, <1>5 DEF IdleInv, RefusedFrame
<1>8. ChainInv'
  BY <1>1 DEF ChainInv
<1>9. CountersFollowStack'
  BY <1>3 DEF CountersFollowStack, TypeOK
<1>10. EvalFilterEnforced'
  BY <1>1 DEF EvalFilterEnforced
<1>11. DepthLimited'
  BY <1>3, <1>4, <1>5 DEF DepthLimited
<1> QED
  BY <1>6, <1>7, <1>8, <1>9, <1>10, <1>11

(* A bailout may leave the counters above the frames that remain, never    *)
(* below; the frame that a limit refused is among those that go.           *)
LEMMA BailoutStep ==
  ASSUME ExecInv, Bailout
  PROVE  ExecInv'
<1> USE DEF ExecInv, Bailout
<1>1. stack \in Stacks /\ Cur \in Thread /\ Len(chain) \in DOMAIN chain /\ Main \in Thread
  BY CurFacts DEF Thread
<1>2. /\ stack' \in [Thread -> Seq(Frame)]
      /\ \A t \in Thread : stack'[t] = <<>> \/ stack'[t] = stack[t]
  BY <1>1 DEF Stacks
<1>3. stack'[Cur] = <<>>
  BY <1>1 DEF OnChain, Cur
<1>4. /\ stack' \in Stacks
      /\ Cardinality(FramesIn(stack', {"eval"})) <= Cardinality(FramesIn(stack, {"eval"}))
      /\ Cardinality(FramesIn(stack', Counted)) <= Cardinality(FramesIn(stack, Counted))
      /\ FramesIn(stack', Counted) \subseteq FramesIn(stack, Counted)
  BY <1>1, <1>2, ClearCount
<1>5. /\ Cardinality(FramesIn(stack', {"eval"})) \in Nat
      /\ Cardinality(FramesIn(stack', Counted)) \in Nat
      /\ Cardinality(FramesIn(stack, {"eval"})) \in Nat
      /\ Cardinality(FramesIn(stack, Counted)) \in Nat
  BY FramesFinite
<1>6. /\ stage' \in 0..LastStage /\ stage' # 1
      /\ stage' = 0 => stage = LastStage
  BY BoundsAssumption DEF TypeOK
<1>7. None # "execute"
  BY NamesAssumption DEF Rule
<1>8. TypeOK'
  <2>1. chain' \in Seq(Thread) /\ chain' # <<>>
    BY <1>1
  <2>2. stack' \in [Thread -> Seq(Frame)] /\ \A t \in Thread : Len(stack'[t]) <= MaxFrames
    BY <1>4 DEF Stacks
  <2>3. /\ stage' \in 0..LastStage /\ refused' = None
        /\ UNCHANGED <<cfg, in_eval, execution_depth, eval_source>>
    BY <1>6
  <2> QED
    BY <2>1, <2>2, <2>3 DEF TypeOK
<1>9. IdleInv' /\ RefusedFrame'
  BY <1>6, <1>7 DEF IdleInv, RefusedFrame
<1>10. ChainInv'
  <2>1. ASSUME NEW t \in Thread \ {Main}, stack'[t] # <<>>
        PROVE  stack'[t][Len(stack'[t])].kind = "internal"
    <3>1. stack'[t] = stack[t] /\ t # Cur
      BY <2>1, <1>2, <1>3
    <3> QED
      BY <2>1, <3>1 DEF ChainInv
  <2> QED
    BY <2>1 DEF ChainInv, Cur
<1>11. CountersFollowStack'
  BY <1>4, <1>5, <1>6 DEF CountersFollowStack, Evals, Executed, TypeOK
<1>12. EvalFilterEnforced'
  BY <1>2, FewerFramesFiltered
<1>13. DepthLimited'
  <2>1. cfg.max_execution_depth \in Nat
    BY CfgFacts
  <2>2. CASE refused # "execute"
    BY <2>1, <2>2, <1>4, <1>5 DEF DepthLimited, Executed
  <2>3. CASE refused = "execute"
    <3> DEFINE p == <<Cur, Len(stack[Cur])>>
    <3>1. /\ stack[Cur] # <<>> /\ Top.kind \in Counted
          /\ stack[Cur] \in Seq(Frame) /\ Len(stack[Cur]) <= MaxFrames
      BY <2>3, <1>1 DEF RefusedFrame, TopIs, Stacks
    <3>2. p \in FramesIn(stack, Counted)
      <4>1. Len(stack[Cur]) \in 1..MaxFrames /\ Len(stack[Cur]) \in DOMAIN stack[Cur]
        BY <3>1, BoundsAssumption
      <4> QED
        BY <3>1, <4>1, <1>1 DEF FramesIn, Top
    <3>3. p \notin FramesIn(stack', Counted)
      BY <1>3 DEF FramesIn
    <3>4. FramesIn(stack', Counted) # FramesIn(stack, Counted)
      BY <3>2, <3>3
    <3>5. Cardinality(FramesIn(stack', Counted)) # Cardinality(FramesIn(stack, Counted))
      <4>1. IsFiniteSet(FramesIn(stack, Counted))
        BY FramesFinite
      <4> QED
        BY <3>4, <4>1, <1>4, FS_Subset
    <3> QED
      BY <2>1, <2>3, <3>5, <1>4, <1>5, <1>7 DEF DepthLimited, Executed
  <2> QED
    BY <2>2, <2>3
<1> QED
  BY <1>8, <1>9, <1>10, <1>11, <1>12, <1>13

(* The frames pushed are frames, and those of calls have passed the        *)
(* filter: inside an eval the counter is not zero, so that a call that is  *)
(* not refused is permitted.                                               *)
LEMMA FrameForType ==
  ASSUME NEW kind \in Kind, NEW name \in Name \cup {None},
         NEW src \in Source \cup {None}, NEW seen \in Source \cup {None}
  PROVE  /\ FrameFor(kind, name, src, seen) \in Frame
         /\ FrameFor(kind, name, src, seen).kind = kind
         /\ FrameFor(kind, name, src, seen).name = name
         /\ FrameFor(kind, name, src, seen).inside = InsideEval
<1>1. InsideEval \in BOOLEAN
  BY DEF InsideEval
<1> QED
  BY <1>1 DEF FrameFor, Frame

LEMMA RefuseStep ==
  ASSUME ExecInv, Running, NEW rule \in Rule, rule # "execute", Refuse(rule)
  PROVE  ExecInv'
<1> USE DEF ExecInv, Refuse, Running
<1>1. refused # "execute" /\ refused' # "execute"
  BY NamesAssumption DEF Rule
<1>2. Cur' = Cur
  BY DEF Cur
<1>3. TypeOK'
  BY DEF TypeOK
<1>4. IdleInv' /\ ChainInv' /\ RefusedFrame'
  BY <1>1, <1>2, BoundsAssumption DEF IdleInv, ChainInv, RefusedFrame, TypeOK
<1>5. CountersFollowStack'
  BY DEF CountersFollowStack, Evals, Executed, FramesIn
<1>6. EvalFilterEnforced'
  BY FewerFramesFiltered
<1>7. DepthLimited'
  BY <1>1 DEF DepthLimited, Executed, FramesIn
<1> QED
  BY <1>3, <1>4, <1>5, <1>6, <1>7

LEMMA ExecuteFileStep ==
  ASSUME ExecInv, ExecuteFile
  PROVE  ExecInv'
<1> DEFINE fr == FrameFor("file", None, None, None)
<1>1. fr \in Frame /\ fr.kind = "file"
  BY FrameForType DEF Kind
<1>2. Permitted(fr)
  BY <1>1 DEF Permitted, Wrapped
<1>3. /\ Running /\ HasRoom /\ Push(fr)
      /\ UNCHANGED <<stage, cfg, in_eval, chain>>
      /\ eval_source' = eval_source
      /\ execution_depth' = execution_depth + 1
      /\ refused' = IF DepthRefuses(execution_depth + 1) THEN "execute" ELSE None
  BY DEF ExecuteFile, SpOrigExecute
<1>4. eval_source \in Source \cup {None} /\ "file" \in Counted
  BY DEF ExecInv, TypeOK, Counted
<1> HIDE DEF fr
<1> QED
  BY <1>1, <1>2, <1>3, <1>4, PushStep

LEMMA ExecuteUserStep ==
  ASSUME ExecInv, NEW f \in UserFunction, ExecuteUser(f)
  PROVE  ExecInv'
<1>1. Running /\ HasRoom
  BY DEF ExecuteUser
<1>2. CASE WhitelistRefuses(f)
  BY <1>1, <1>2, RefuseStep, NamesAssumption DEF ExecuteUser, Rule
<1>3. CASE ~WhitelistRefuses(f)
  <2> DEFINE fr == FrameFor("user", f, None, None)
  <2>1. fr \in Frame /\ fr.kind = "user" /\ fr.name = f /\ fr.inside = InsideEval
    BY FrameForType DEF Kind, Name
  <2>2. ASSUME fr.inside, ~Simulation
        PROVE  Permitted(fr)
    <3>1. in_eval > 0
      BY <2>1, <2>2, InsideIsCounted DEF ExecInv, TypeOK
    <3> QED
      BY <1>3, <2>1, <2>2, <3>1 DEF Permitted, WhitelistRefuses, Wrapped
  <2>3. /\ Push(fr)
        /\ UNCHANGED <<stage, cfg, in_eval, chain>>
        /\ eval_source' = eval_source
        /\ execution_depth' = execution_depth + 1
        /\ refused' = IF DepthRefuses(execution_depth + 1) THEN "execute" ELSE None
    BY <1>3 DEF ExecuteUser, SpOrigExecute
  <2>4. eval_source \in Source \cup {None} /\ "user" \in Counted
    BY DEF ExecInv, TypeOK, Counted
  <2> HIDE DEF fr
  <2> QED
    BY <1>1, <2>1, <2>2, <2>3, <2>4, PushStep
<1> QED
  BY <1>2, <1>3

LEMMA ExecuteInternalStep ==
  ASSUME ExecInv, NEW f \in InternalFunction, ExecuteInternal(f)
  PROVE  ExecInv'
<1>1. Running /\ HasRoom
  BY DEF ExecuteInternal
<1>2. CASE WhitelistRefuses(f)
  BY <1>1, <1>2, RefuseStep DEF ExecuteInternal, Rule
<1>3. CASE ~WhitelistRefuses(f) /\ BlacklistRefuses(f)
  BY <1>1, <1>3, RefuseStep DEF ExecuteInternal, Rule
<1>4. CASE ~WhitelistRefuses(f) /\ ~BlacklistRefuses(f)
  <2> DEFINE fr == FrameFor("internal", f, None, None)
  <2>1. fr \in Frame /\ fr.kind = "internal" /\ fr.name = f /\ fr.inside = InsideEval
    BY FrameForType DEF Kind, Name
  <2>2. ASSUME fr.inside, ~Simulation
        PROVE  Permitted(fr)
    <3>1. in_eval > 0
      BY <2>1, <2>2, InsideIsCounted DEF ExecInv, TypeOK
    <3> QED
      BY <1>4, <2>1, <2>2, <3>1 DEF Permitted, WhitelistRefuses, BlacklistRefuses, Wrapped
  <2>3. /\ Push(fr)
        /\ UNCHANGED <<stage, cfg, in_eval, chain>>
        /\ eval_source' = eval_source
        /\ execution_depth' = execution_depth
        /\ refused' = None
    BY <1>1, <1>4 DEF ExecuteInternal, Running
  <2>4. /\ eval_source \in Source \cup {None} /\ "internal" \notin Counted
        /\ execution_depth \in Nat
    BY DEF ExecInv, TypeOK, Counted
  <2> HIDE DEF fr
  <2> QED
    BY <1>1, <2>1, <2>2, <2>3, <2>4, PushStep
<1> QED
  BY <1>2, <1>3, <1>4

LEMMA CompileStringStep ==
  ASSUME ExecInv, NEW s \in Source, CompileString(s)
  PROVE  ExecInv'
<1> DEFINE fr == FrameFor("compile", None, s, None)
<1>1. fr \in Frame /\ fr.kind = "compile"
  BY FrameForType DEF Kind
<1>2. Permitted(fr)
  BY <1>1 DEF Permitted, Wrapped
<1>3. /\ Running /\ HasRoom /\ Push(fr)
      /\ UNCHANGED <<stage, cfg, in_eval, chain>>
      /\ eval_source' \in Source \cup {None}
      /\ execution_depth' = execution_depth
      /\ refused' = None
  BY DEF CompileString, Running
<1>4. execution_depth \in Nat /\ "compile" \notin Counted
  BY DEF ExecInv, TypeOK, Counted
<1> HIDE DEF fr
<1> QED
  BY <1>1, <1>2, <1>3, <1>4, PushStep

(* Leaving the top frame of the running thread, which goes on running.     *)
LEMMA PopStep ==
  ASSUME ExecInv, Running, stack[Cur] # <<>>, stack' = Pop(stack, Cur),
         UNCHANGED <<stage, cfg, eval_source, chain, refused>>,
         in_eval' = in_eval - (IF Top.kind = "eval" THEN 1 ELSE 0),
         execution_depth' = execution_depth - (IF Top.kind \in Counted THEN 1 ELSE 0)
  PROVE  ExecInv'
<1> USE DEF ExecInv, Running
<1>1. /\ stack \in Stacks /\ Cur \in Thread
      /\ \A k \in 1..(Len(chain) - 1) : chain[k] # Cur
      /\ \A k \in 1..Len(chain) : chain[k] \in Thread
      /\ Len(chain) \in Nat \ {0}
  BY CurFacts
<1>2. /\ stack' \in Stacks
      /\ \A u \in Thread : u # Cur => stack'[u] = stack[u]
      /\ \A u \in Thread : \A i \in DOMAIN stack'[u] :
           i \in DOMAIN stack[u] /\ stack'[u][i] = stack[u][i]
  BY <1>1, PopEffect
<1>3. \A K : /\ Top.kind \in K =>
                  Cardinality(FramesIn(stack', K)) = Cardinality(FramesIn(stack, K)) - 1
             /\ Top.kind \notin K =>
                  Cardinality(FramesIn(stack', K)) = Cardinality(FramesIn(stack, K))
  BY <1>1, PopEffect DEF Top
<1> DEFINE n == IF Top.kind = "eval" THEN 1 ELSE 0
           m == IF Top.kind \in Counted THEN 1 ELSE 0
<1>4. n \in Nat /\ m \in Nat
  OBVIOUS
<1>5. /\ Cardinality(FramesIn(stack, {"eval"})) \in Nat
      /\ Cardinality(FramesIn(stack, Counted)) \in Nat
  BY FramesFinite
<1>6. /\ Cardinality(FramesIn(stack', {"eval"})) = Cardinality(FramesIn(stack, {"eval"})) - n
      /\ Cardinality(FramesIn(stack', Counted)) = Cardinality(FramesIn(stack, Counted)) - m
  <2>1. CASE Top.kind = "eval"
    BY <2>1, <1>3, <1>5 DEF Counted
  <2>2. CASE Top.kind # "eval"
    <3>1. Top.kind \notin {"eval"}
      BY <2>2
    <3> QED
      BY <2>2, <3>1, <1>3, <1>5
  <2> QED
    BY <2>1, <2>2
<1>7. CountersFollowStack' /\ in_eval' \in Nat /\ execution_depth' \in Nat
  <2>1. /\ Cardinality(Evals') = Cardinality(Evals) - n
        /\ Cardinality(Executed') = Cardinality(Executed) - m
    BY <1>6 DEF Evals, Executed
  <2> QED
    BY <2>1, <1>4, CountersAfter
<1>8. TypeOK'
  BY <1>2, <1>7 DEF TypeOK, Stacks
<1>9. refused # "execute" /\ Cur' = Cur
  BY NamesAssumption DEF Rule, Cur
<1>10. IdleInv' /\ RefusedFrame'
  BY <1>9, BoundsAssumption DEF IdleInv, RefusedFrame, TypeOK
<1>11. ChainInv'
  <2>1. ASSUME NEW k \in 1..(Len(chain) - 1)
        PROVE  stack'[chain[k]] # <<>>
    BY <2>1, <1>1, <1>2 DEF ChainInv
  <2>2. ASSUME NEW t \in Thread \ {Cur}, stack'[t] # <<>>
        PROVE  stack'[t][Len(stack'[t])].kind = "internal"
    BY <2>2, <1>2 DEF ChainInv
  <2> QED
    BY <2>1, <2>2, <1>9 DEF ChainInv
<1>12. EvalFilterEnforced'
  BY <1>2, FewerFramesFiltered
<1>13. DepthLimited'
  <2>1. Cardinality(Executed') <= Cardinality(Executed)
    BY <1>4, <1>5, <1>6 DEF Executed
  <2> QED
    BY <2>1, <1>9, FewerFramesLimited
<1> QED
  BY <1>7, <1>8, <1>10, <1>11, <1>12, <1>13

LEMMA CompileFailsStep ==
  ASSUME ExecInv, CompileFails
  PROVE  ExecInv'
<1>1. Top.kind = "compile" /\ Top.kind \notin Counted /\ Top.kind # "eval"
  BY DEF CompileFails, TopIs, Counted
<1>2. in_eval \in Nat /\ execution_depth \in Nat
  BY DEF ExecInv, TypeOK
<1> QED
  BY <1>1, <1>2, PopStep DEF CompileFails, TopIs

(* Control goes back to the thread that resumed the running one: the       *)
(* native call it was waiting in returns.  s is the stacks without what    *)
(* the running thread leaves.                                              *)
LEMMA SwitchBackEffect ==
  ASSUME TypeOK, ChainInv, Cur # Main, NEW s \in Stacks,
         \A u \in Thread : u # Cur => s[u] = stack[u],
         \A u \in Thread : \A i \in DOMAIN s[u] : i \in DOMAIN stack[u] /\ s[u][i] = stack[u][i],
         s[Cur] # <<>> => s[Cur][Len(s[Cur])].kind = "internal",
         SwitchBack(s)
  PROVE  /\ stack' \in Stacks
         /\ chain' \in Seq(Thread) /\ chain' # <<>>
         /\ ChainInv'
         /\ \A u \in Thread : \A i \in DOMAIN stack'[u] :
              i \in DOMAIN stack[u] /\ stack'[u][i] = stack[u][i]
         /\ \A K : "internal" \notin K =>
              Cardinality(FramesIn(stack', K)) = Cardinality(FramesIn(s, K))
<1> DEFINE r == chain[Len(chain) - 1]
<1>1. /\ stack \in Stacks /\ Cur \in Thread
      /\ Len(chain) \in Nat \ {0} /\ chain[Len(chain)] = Cur
      /\ \A k \in 1..Len(chain) : chain[k] \in Thread
      /\ \A k \in 1..(Len(chain) - 1) : chain[k] # Cur
  BY CurFacts DEF Cur
<1>2. Len(chain) > 1
  BY <1>1 DEF ChainInv
<1>3. /\ r \in Thread /\ r # Cur
      /\ Len(chain) - 1 \in 1..(Len(chain) - 1)
  BY <1>1, <1>2
<1>4. /\ s[r] = stack[r] /\ s[r] # <<>>
      /\ s[r][Len(s[r])].kind = "internal"
  BY <1>3 DEF ChainInv
<1>5. stack' = Pop(s, r)
  BY DEF SwitchBack
<1>6. /\ stack' \in Stacks
      /\ \A u \in Thread : u # r => stack'[u] = s[u]
      /\ \A u \in Thread : \A i \in DOMAIN stack'[u] :
           i \in DOMAIN s[u] /\ stack'[u][i] = s[u][i]
  BY <1>3, <1>4, <1>5, PopEffect
<1>7. \A K : "internal" \notin K =>
        Cardinality(FramesIn(stack', K)) = Cardinality(FramesIn(s, K))
  BY <1>3, <1>4, <1>5, PopEffect
<1>8. /\ chain' \in Seq(Thread) /\ chain' # <<>>
      /\ Len(chain') = Len(chain) - 1
      /\ \A k \in 1..(Len(chain) - 1) : chain'[k] = chain[k]
      /\ DOMAIN chain' = 1..(Len(chain) - 1)
      /\ DOMAIN chain = 1..Len(chain)
  <2>1. chain \in Seq(Thread) /\ DOMAIN chain = 1..Len(chain)
    BY DEF TypeOK
  <2>2. chain' = SubSeq(chain, 1, Len(chain) - 1)
    BY DEF SwitchBack
  <2>3. /\ chain' \in Seq(Thread)
        /\ Len(chain') = Len(chain) - 1
        /\ \A k \in 1..(Len(chain) - 1) : chain'[k] = chain[k]
    BY <1>1, <1>2, <2>1, <2>2
  <2>4. chain' # <<>> /\ DOMAIN chain' = 1..(Len(chain) - 1)
    BY <1>1, <1>2, <2>3
  <2> QED
    BY <2>1, <2>3, <2>4
<1>9. Cur' = r
  BY <1>8, <1>3 DEF Cur
<1>10. ChainInv'
  <2>1. chain'[1] = Main
    BY <1>2, <1>8, <1>1 DEF ChainInv
  <2>2. \A k, l \in DOMAIN chain' : chain'[k] = chain'[l] => k = l
    BY <1>8, <1>1 DEF ChainInv
  <2>3. ASSUME NEW k \in 1..(Len(chain') - 1)
        PROVE  stack'[chain'[k]] # <<>>
    <3>1. /\ k \in 1..(Len(chain) - 1) /\ k # Len(chain) - 1
          /\ k \in DOMAIN chain /\ Len(chain) - 1 \in DOMAIN chain
      BY <1>1, <1>8, <2>3
    <3>2. chain[k] # r /\ chain[k] # Cur /\ chain[k] \in Thread /\ stack[chain[k]] # <<>>
      BY <3>1, <1>1, <1>8 DEF ChainInv
    <3> QED
      BY <3>1, <3>2, <1>6, <1>8
  <2>4. ASSUME NEW t \in Thread \ {r}, stack'[t] # <<>>
        PROVE  stack'[t][Len(stack'[t])].kind = "internal"
    <3>1. stack'[t] = s[t]
      BY <1>6
    <3>2. CASE t = Cur
      BY <2>4, <3>1, <3>2
    <3>3. CASE t # Cur
      <4>1. s[t] = stack[t]
        BY <3>3
      <4> QED
        BY <2>4, <3>1, <3>3, <4>1 DEF ChainInv
    <3> QED
      BY <3>2, <3>3
  <2> QED
    BY <2>1, <2>2, <2>3, <2>4, <1>9 DEF ChainInv
<1>11. ASSUME NEW u \in Thread, NEW i \in DOMAIN stack'[u]
       PROVE  i \in DOMAIN stack[u] /\ stack'[u][i] = stack[u][i]
  BY <1>11, <1>6
<1> QED
  BY <1>6, <1>7, <1>8, <1>10, <1>11

(* A fiber that ends or suspends, as SwitchBackEffect describes it, keeps  *)
(* the invariant if the counters give up what the fiber left.              *)
LEMMA SwitchBackStep ==
  ASSUME ExecInv, Running, Cur # Main, NEW s \in Stacks,
         \A u \in Thread : u # Cur => s[u] = stack[u],
         \A u \in Thread : \A i \in DOMAIN s[u] : i \in DOMAIN stack[u] /\ s[u][i] = stack[u][i],
         s[Cur] # <<>> => s[Cur][Len(s[Cur])].kind = "internal",
         SwitchBack(s),
         UNCHANGED <<stage, cfg, eval_source, refused>>,
         NEW n \in Nat, NEW m \in Nat,
         in_eval' = in_eval - n, execution_depth' = execution_depth - m,
         Cardinality(FramesIn(s, {"eval"})) = Cardinality(FramesIn(stack, {"eval"})) - n,
         Cardinality(FramesIn(s, Counted)) = Cardinality(FramesIn(stack, Counted)) - m
  PROVE  ExecInv'
<1> USE DEF ExecInv, Running
<1>1. /\ stack' \in Stacks
      /\ chain' \in Seq(Thread) /\ chain' # <<>>
      /\ ChainInv'
      /\ \A u \in Thread : \A i \in DOMAIN stack'[u] :
           i \in DOMAIN stack[u] /\ stack'[u][i] = stack[u][i]
      /\ \A K : "internal" \notin K =>
           Cardinality(FramesIn(stack', K)) = Cardinality(FramesIn(s, K))
  BY SwitchBackEffect
<1>2. /\ Cardinality(Evals') = Cardinality(Evals) - n
      /\ Cardinality(Executed') = Cardinality(Executed) - m
  <2>1. Cardinality(FramesIn(stack', {"eval"})) = Cardinality(FramesIn(s, {"eval"}))
    BY <1>1
  <2>2. Cardinality(FramesIn(stack', Counted)) = Cardinality(FramesIn(s, Counted))
    <3>1. "internal" \notin Counted
      BY DEF Counted
    <3> QED
      BY <1>1, <3>1
  <2> QED
    BY <2>1, <2>2 DEF Evals, Executed
<1>3. CountersFollowStack' /\ in_eval' \in Nat /\ execution_depth' \in Nat
  BY <1>2, CountersAfter
<1>4. TypeOK'
  BY <1>1, <1>3 DEF TypeOK, Stacks
<1>5. refused # "execute"
  BY NamesAssumption DEF Rule
<1>6. IdleInv' /\ RefusedFrame'
  BY <1>5, BoundsAssumption DEF IdleInv, RefusedFrame, TypeOK
<1>7. EvalFilterEnforced'
  BY <1>1, FewerFramesFiltered
<1>8. DepthLimited'
  <2>1. Cardinality(Executed) \in Nat
    BY FramesFinite DEF Executed
  <2>2. Cardinality(Executed') <= Cardinality(Executed)
    BY <2>1, <1>2
  <2> QED
    BY <2>2, <1>5, FewerFramesLimited
<1> QED
  BY <1>1, <1>3, <1>4, <1>6, <1>7, <1>8

LEMMA ReturnStep ==
  ASSUME ExecInv, Return
  PROVE  ExecInv'
<1>1. /\ Running /\ stack[Cur] # <<>>
      /\ in_eval' = in_eval - (IF Top.kind = "eval" THEN 1 ELSE 0)
      /\ execution_depth' = execution_depth - (IF Top.kind \in Counted THEN 1 ELSE 0)
      /\ UNCHANGED <<stage, cfg, eval_source, refused>>
  BY DEF Return, TopIs, Uncount
<1>2. CASE Cur # Main /\ Len(stack[Cur]) = 1
  <2> DEFINE s == Pop(stack, Cur)
             n == IF Top.kind = "eval" THEN 1 ELSE 0
             m == IF Top.kind \in Counted THEN 1 ELSE 0
  <2>1. stack \in Stacks /\ Cur \in Thread
    BY CurFacts DEF ExecInv
  <2>2. /\ s \in Stacks
        /\ Len(s[Cur]) = 0
        /\ \A u \in Thread : u # Cur => s[u] = stack[u]
        /\ \A u \in Thread : \A i \in DOMAIN s[u] : i \in DOMAIN stack[u] /\ s[u][i] = stack[u][i]
    <3>1. Len(s[Cur]) = Len(stack[Cur]) - 1
      BY <1>1, <2>1, PopEffect
    <3>2. Len(s[Cur]) = 0
      BY <1>2, <3>1
    <3>3. /\ s \in Stacks
          /\ \A u \in Thread : u # Cur => s[u] = stack[u]
      BY <1>1, <2>1, PopEffect
    <3>4. \A u \in Thread : \A i \in DOMAIN s[u] :
            i \in DOMAIN stack[u] /\ s[u][i] = stack[u][i]
      BY <1>1, <2>1, PopEffect
    <3> QED
      BY <3>2, <3>3, <3>4
  <2>3. s[Cur] = <<>>
    BY <2>1, <2>2 DEF Stacks
  <2>4. /\ Cardinality(FramesIn(stack, {"eval"})) \in Nat
        /\ Cardinality(FramesIn(stack, Counted)) \in Nat
    BY FramesFinite
  <2>5. \A K : /\ Top.kind \in K =>
                    Cardinality(FramesIn(s, K)) = Cardinality(FramesIn(stack, K)) - 1
               /\ Top.kind \notin K =>
                    Cardinality(FramesIn(s, K)) = Cardinality(FramesIn(stack, K))
    BY <1>1, <2>1, PopEffect DEF Top
  <2>6. n \in Nat /\ m \in Nat
    OBVIOUS
  <2> HIDE DEF s
  <2>7. /\ Cardinality(FramesIn(s, {"eval"})) = Cardinality(FramesIn(stack, {"eval"})) - n
        /\ Cardinality(FramesIn(s, Counted)) = Cardinality(FramesIn(stack, Counted)) - m
    <3>1. CASE Top.kind = "eval"
      BY <3>1, <2>4, <2>5 DEF Counted
    <3>2. CASE Top.kind # "eval"
      <4>1. Top.kind \notin {"eval"}
        BY <3>2
      <4> QED
        BY <3>2, <4>1, <2>4, <2>5
    <3> QED
      BY <3>1, <3>2
  <2>8. SwitchBack(s)
    BY <1>2 DEF Return, s
  <2>9. in_eval' = in_eval - n /\ execution_depth' = execution_depth - m
    BY <1>1
  <2> HIDE DEF n, m
  <2> QED
    BY <1>1, <1>2, <2>2, <2>3, <2>6, <2>7, <2>8, <2>9, SwitchBackStep
<1>3. CASE ~(Cur # Main /\ Len(stack[Cur]) = 1)
  <2>1. stack' = Pop(stack, Cur) /\ UNCHANGED chain
    BY <1>3 DEF Return
  <2> QED
    BY <1>1, <2>1, PopStep
<1> QED
  BY <1>2, <1>3

LEMMA FiberSuspendStep ==
  ASSUME ExecInv, FiberSuspend
  PROVE  ExecInv'
<1>1. /\ stack \in Stacks /\ in_eval \in Nat /\ execution_depth \in Nat
      /\ Cardinality(FramesIn(stack, {"eval"})) \in Nat
      /\ Cardinality(FramesIn(stack, Counted)) \in Nat
  BY CurFacts, FramesFinite DEF ExecInv, TypeOK
<1>2. /\ Running /\ Cur # Main /\ SwitchBack(stack)
      /\ stack[Cur][Len(stack[Cur])].kind = "internal"
      /\ UNCHANGED <<stage, cfg, in_eval, execution_depth, eval_source, refused>>
  BY DEF FiberSuspend, InCallOf, TopIs, Top
<1>3. /\ in_eval' = in_eval - 0 /\ execution_depth' = execution_depth - 0
      /\ Cardinality(FramesIn(stack, {"eval"})) = Cardinality(FramesIn(stack, {"eval"})) - 0
      /\ Cardinality(FramesIn(stack, Counted)) = Cardinality(FramesIn(stack, Counted)) - 0
  BY <1>1, <1>2
<1> QED
  BY <1>1, <1>2, <1>3, SwitchBackStep

(* The chain of threads, one longer.                                       *)
LEMMA AppendChain ==
  ASSUME NEW c \in Seq(Thread), NEW b \in Thread, NEW c2, c2 = Append(c, b)
  PROVE  /\ c2 \in Seq(Thread) /\ c2 # <<>>
         /\ Len(c2) = Len(c) + 1
         /\ DOMAIN c2 = 1..(Len(c) + 1)
         /\ c2[Len(c) + 1] = b
         /\ \A k \in 1..Len(c) : c2[k] = c[k]
<1>1. Len(c) \in Nat
  OBVIOUS
<1>2. c2 \in Seq(Thread) /\ Len(c2) = Len(c) + 1
  OBVIOUS
<1>3. DOMAIN c2 = 1..(Len(c) + 1) /\ c2 # <<>>
  <2>1. Len(c2) # 0 /\ DOMAIN c2 = 1..Len(c2)
    BY <1>1, <1>2
  <2> QED
    BY <1>2, <2>1
<1>4. c2[Len(c) + 1] = b /\ \A k \in 1..Len(c) : c2[k] = c[k]
  BY <1>1
<1> QED
  BY <1>2, <1>3, <1>4

(* Control goes to a thread that was waiting, or begins: what it loses is  *)
(* at most the native call it was waiting in.                              *)
LEMMA SwitchToStep ==
  ASSUME ExecInv, Running, stack[Cur] # <<>>, Top.kind = "internal",
         NEW b \in Thread, ~OnChain(b), chain' = Append(chain, b),
         stack' \in Stacks,
         \A u \in Thread : u # b => stack'[u] = stack[u],
         \A u \in Thread : \A i \in DOMAIN stack'[u] :
           i \in DOMAIN stack[u] /\ stack'[u][i] = stack[u][i],
         Cardinality(FramesIn(stack', {"eval"})) = Cardinality(FramesIn(stack, {"eval"})),
         Cardinality(FramesIn(stack', Counted)) = Cardinality(FramesIn(stack, Counted)),
         UNCHANGED <<stage, cfg, in_eval, execution_depth, eval_source, refused>>
  PROVE  ExecInv'
<1> USE DEF ExecInv, Running
<1>1. /\ Cur \in Thread /\ Len(chain) \in Nat \ {0}
      /\ DOMAIN chain = 1..Len(chain)
      /\ \A k \in 1..Len(chain) : chain[k] \in Thread /\ chain[k] # b
      /\ chain[Len(chain)] = Cur
  BY CurFacts DEF OnChain, Cur
<1>2. /\ chain' \in Seq(Thread) /\ chain' # <<>>
      /\ Len(chain') = Len(chain) + 1
      /\ DOMAIN chain' = 1..(Len(chain) + 1)
      /\ chain'[Len(chain) + 1] = b
      /\ \A k \in 1..Len(chain) : chain'[k] = chain[k]
  <2>1. chain \in Seq(Thread) /\ chain' = Append(chain, b)
    BY DEF TypeOK
  <2> QED
    BY <2>1, AppendChain
<1>3. Cur' = b
  BY <1>1, <1>2 DEF Cur
<1>4. ChainInv'
  <2>1. chain'[1] = Main
    BY <1>1, <1>2 DEF ChainInv
  <2>2. \A k, l \in DOMAIN chain' : chain'[k] = chain'[l] => k = l
    BY <1>1, <1>2 DEF ChainInv
  <2>3. ASSUME NEW k \in 1..(Len(chain') - 1)
        PROVE  stack'[chain'[k]] # <<>>
    <3>1. /\ k \in 1..Len(chain) /\ chain'[k] = chain[k]
          /\ stack'[chain[k]] = stack[chain[k]]
      BY <1>1, <1>2, <2>3
    <3>2. CASE k = Len(chain)
      BY <3>1, <3>2, <1>1
    <3>3. CASE k # Len(chain)
      <4>1. k \in Nat /\ 1 <= k /\ k <= Len(chain) /\ Len(chain) \in Nat
        BY <3>1, <1>1
      <4>2. k \in 1..(Len(chain) - 1)
        BY <3>3, <4>1
      <4> QED
        BY <3>1, <4>2 DEF ChainInv
    <3> QED
      BY <3>2, <3>3
  <2>4. ASSUME NEW t \in Thread \ {b}, stack'[t] # <<>>
        PROVE  stack'[t][Len(stack'[t])].kind = "internal"
    <3>1. CASE t = Cur
      BY <2>4, <3>1 DEF Top
    <3>2. CASE t # Cur
      BY <2>4, <3>2 DEF ChainInv
    <3> QED
      BY <3>1, <3>2
  <2> QED
    BY <2>1, <2>2, <2>3, <2>4, <1>3 DEF ChainInv
<1>5. TypeOK'
  BY <1>2 DEF TypeOK, Stacks
<1>6. refused # "execute"
  BY NamesAssumption DEF Rule
<1>7. IdleInv' /\ RefusedFrame'
  BY <1>6, BoundsAssumption DEF IdleInv, RefusedFrame, TypeOK
<1>8. CountersFollowStack'
  BY DEF CountersFollowStack, Evals, Executed
<1>9. EvalFilterEnforced'
  BY FewerFramesFiltered
<1>10. DepthLimited'
  <2>1. Cardinality(FramesIn(stack, Counted)) \in Nat
    BY FramesFinite
  <2>2. Cardinality(Executed') <= Cardinality(Executed)
    BY <2>1 DEF Executed
  <2> QED
    BY <2>2, <1>6, FewerFramesLimited
<1> QED
  BY <1>4, <1>5, <1>7, <1>8, <1>9, <1>10

LEMMA FiberStartStep ==
  ASSUME ExecInv, NEW b \in Fiber, FiberStart(b)
  PROVE  ExecInv'
<1>1. /\ Running /\ stack[Cur] # <<>> /\ Top.kind = "internal"
      /\ ~OnChain(b) /\ chain' = Append(chain, b) /\ stack' = stack
      /\ UNCHANGED <<stage, cfg, in_eval, execution_depth, eval_source, refused>>
  BY DEF FiberStart, InCallOf, TopIs
<1>2. stack \in Stacks /\ b \in Thread
  BY CurFacts DEF ExecInv, Thread
<1> QED
  BY <1>1, <1>2, SwitchToStep

LEMMA FiberResumeStep ==
  ASSUME ExecInv, NEW b \in Fiber, FiberResume(b)
  PROVE  ExecInv'
<1>1. /\ Running /\ stack[Cur] # <<>> /\ Top.kind = "internal"
      /\ ~OnChain(b) /\ stack[b] # <<>>
      /\ chain' = Append(chain, b) /\ stack' = Pop(stack, b)
      /\ UNCHANGED <<stage, cfg, in_eval, execution_depth, eval_source, refused>>
  BY DEF FiberResume, InCallOf, TopIs, Suspended
<1>2. /\ stack \in Stacks /\ b \in Thread /\ b # Cur
  BY <1>1, CurFacts DEF ExecInv, Thread, OnChain, Cur
<1>3. stack[b][Len(stack[b])].kind = "internal"
  BY <1>1, <1>2 DEF ExecInv, ChainInv
<1>4. /\ stack' \in Stacks
      /\ \A u \in Thread : u # b => stack'[u] = stack[u]
      /\ \A u \in Thread : \A i \in DOMAIN stack'[u] :
           i \in DOMAIN stack[u] /\ stack'[u][i] = stack[u][i]
      /\ \A K : "internal" \notin K =>
           Cardinality(FramesIn(stack', K)) = Cardinality(FramesIn(stack, K))
  BY <1>1, <1>2, <1>3, PopEffect
<1>5. /\ Cardinality(FramesIn(stack', {"eval"})) = Cardinality(FramesIn(stack, {"eval"}))
      /\ Cardinality(FramesIn(stack', Counted)) = Cardinality(FramesIn(stack, Counted))
  <2>1. "internal" \notin {"eval"} /\ "internal" \notin Counted
    BY DEF Counted
  <2> QED
    BY <2>1, <1>4
<1> QED
  BY <1>1, <1>2, <1>4, <1>5, SwitchToStep

LEMMA FiberDestroyStep ==
  ASSUME ExecInv, NEW b \in Fiber, FiberDestroy(b)
  PROVE  ExecInv'
<1> USE DEF ExecInv, Running
<1> DEFINE n == Cardinality({p \in Evals : p[1] = b})
           m == Cardinality({p \in Executed : p[1] = b})
<1>1. /\ Running /\ ~OnChain(b) /\ stack[b] # <<>>
      /\ stack' = [stack EXCEPT ![b] = <<>>]
      /\ in_eval' = in_eval - n /\ execution_depth' = execution_depth - m
      /\ UNCHANGED <<stage, cfg, eval_source, chain, refused>>
  BY DEF FiberDestroy, Suspended
<1>2. /\ stack \in Stacks /\ b \in Thread /\ b # Cur /\ Cur' = Cur
      /\ Len(chain) \in Nat \ {0} /\ DOMAIN chain = 1..Len(chain)
      /\ \A k \in 1..Len(chain) : chain[k] \in Thread /\ chain[k] # b
  BY <1>1, CurFacts DEF Thread, OnChain, Cur
<1>3. /\ stack' \in [Thread -> Seq(Frame)]
      /\ stack'[b] = <<>>
      /\ \A u \in Thread : u # b => stack'[u] = stack[u]
  BY <1>1, <1>2 DEF Stacks
<1>4. /\ stack' \in Stacks /\ n \in Nat
      /\ Cardinality(FramesIn(stack', {"eval"})) = Cardinality(FramesIn(stack, {"eval"})) - n
  BY <1>2, <1>3, DestroyCount DEF Evals
<1>5. /\ m \in Nat
      /\ Cardinality(FramesIn(stack', Counted)) = Cardinality(FramesIn(stack, Counted)) - m
  BY <1>2, <1>3, DestroyCount DEF Executed
<1> HIDE DEF n, m
<1>6. /\ Cardinality(Evals') = Cardinality(Evals) - n
      /\ Cardinality(Executed') = Cardinality(Executed) - m
  BY <1>4, <1>5 DEF Evals, Executed
<1>7. CountersFollowStack' /\ in_eval' \in Nat /\ execution_depth' \in Nat
  BY <1>1, <1>4, <1>5, <1>6, CountersAfter
<1>8. TypeOK'
  BY <1>1, <1>4, <1>7 DEF TypeOK, Stacks
<1>9. refused # "execute"
  BY <1>1, NamesAssumption DEF Rule
<1>10. IdleInv' /\ RefusedFrame'
  BY <1>1, <1>9, BoundsAssumption DEF IdleInv, RefusedFrame, TypeOK
<1>11. ChainInv'
  <2>1. ASSUME NEW k \in 1..(Len(chain) - 1)
        PROVE  stack'[chain[k]] # <<>>
    BY <2>1, <1>2, <1>3 DEF ChainInv
  <2>2. ASSUME NEW t \in Thread \ {Cur}, stack'[t] # <<>>
        PROVE  stack'[t][Len(stack'[t])].kind = "internal"
    BY <2>2, <1>3 DEF ChainInv
  <2> QED
    BY <2>1, <2>2, <1>1, <1>2 DEF ChainInv
<1>12. EvalFilterEnforced'
  <2>1. \A t \in Thread : \A i \in DOMAIN stack'[t] :
          i \in DOMAIN stack[t] /\ stack'[t][i] = stack[t][i]
    BY <1>3
  <2> QED
    BY <1>1, <2>1, FewerFramesFiltered
<1>13. DepthLimited'
  <2>1. Cardinality(Executed) \in Nat
    BY FramesFinite DEF Executed
  <2>2. Cardinality(Executed') <= Cardinality(Executed)
    BY <2>1, <1>5, <1>6
  <2> QED
    BY <1>1, <2>2, <1>9, FewerFramesLimited
<1> QED
  BY <1>7, <1>8, <1>10, <1>11, <1>12, <1>13

(* The second half of an eval, seen as a change of the top frame.          *)
LEMMA ReplaceEffect ==
  ASSUME TypeOK, ChainInv, TopIs({"compile"}),
         stack' = [stack EXCEPT ![Cur][Len(stack[Cur])] = EvalFrame]
  PROVE  /\ stack' \in Stacks
         /\ EvalFrame \in Frame /\ EvalFrame.kind = "eval"
         /\ Len(stack'[Cur]) = Len(stack[Cur])
         /\ stack'[Cur] \in Seq(Frame)
         /\ stack'[Cur][Len(stack[Cur])] = EvalFrame
         /\ \A i \in DOMAIN stack[Cur] : i # Len(stack[Cur]) => stack'[Cur][i] = stack[Cur][i]
         /\ \A t \in Thread : t # Cur => stack'[t] = stack[t]
         /\ Cardinality(FramesIn(stack', {"eval"})) = Cardinality(FramesIn(stack, {"eval"})) + 1
         /\ Cardinality(FramesIn(stack', Counted)) = Cardinality(FramesIn(stack, Counted)) + 1
<1>1. /\ stack \in Stacks /\ Cur \in Thread /\ stack[Cur] # <<>>
      /\ stack[Cur] \in Seq(Frame) /\ Len(stack[Cur]) \in Nat \ {0}
      /\ Top \in Frame /\ Top.kind = "compile"
  BY CurFacts DEF TopIs
<1>2. EvalFrame \in Frame /\ EvalFrame.kind = "eval"
  <2>1. eval_source \in Source \cup {None}
    BY DEF TypeOK
  <2> QED
    BY <1>1, <2>1 DEF EvalFrame, Frame, Kind
<1> DEFINE fr == EvalFrame
           c  == Cur
<1>3. /\ stack' = [stack EXCEPT ![c][Len(stack[c])] = fr]
      /\ stack \in Stacks /\ c \in Thread /\ fr \in Frame
      /\ stack[c] \in Seq(Frame) /\ Len(stack[c]) \in Nat \ {0}
  BY <1>1, <1>2
<1>4. stack[Cur][Len(stack[Cur])].kind = "compile"
  BY <1>1 DEF Top
<1>5. /\ fr.kind = "eval" /\ stack[c][Len(stack[c])].kind = "compile" /\ stack[c] # <<>>
      /\ fr = EvalFrame /\ c = Cur
  BY <1>1, <1>2, <1>4
<1> HIDE DEF fr, c
<1>6. /\ stack' \in [Thread -> Seq(Frame)]
      /\ stack'[c] = [stack[c] EXCEPT ![Len(stack[c])] = fr]
      /\ \A t \in Thread : t # c => stack'[t] = stack[t]
  <2>1. [stack[c] EXCEPT ![Len(stack[c])] = fr] \in Seq(Frame)
    BY <1>3
  <2> QED
    BY <1>3, <2>1 DEF Stacks
<1>7. /\ Len(stack'[c]) = Len(stack[c])
      /\ stack'[c] \in Seq(Frame)
      /\ stack'[c][Len(stack[c])] = fr
      /\ \A i \in DOMAIN stack[c] : i # Len(stack[c]) => stack'[c][i] = stack[c][i]
  BY <1>3, <1>6
<1>8. ASSUME NEW K, "eval" \in K, "compile" \notin K
      PROVE  /\ stack' \in Stacks
             /\ Cardinality(FramesIn(stack', K)) = Cardinality(FramesIn(stack, K)) + 1
  <2>1. fr.kind \in K /\ stack[c][Len(stack[c])].kind \notin K
    BY <1>5, <1>8
  <2>2. Replaced(c, fr)
    BY <1>3, <1>5, <1>6, <1>7 DEF Replaced
  <2> QED
    BY <2>1, <2>2, ReplaceCount
<1>9. Cardinality(FramesIn(stack', {"eval"})) = Cardinality(FramesIn(stack, {"eval"})) + 1
  BY <1>8
<1>10. /\ stack' \in Stacks
       /\ Cardinality(FramesIn(stack', Counted)) = Cardinality(FramesIn(stack, Counted)) + 1
  BY <1>8 DEF Counted
<1> QED
  BY <1>2, <1>5, <1>6, <1>7, <1>9, <1>10

LEMMA ExecuteEvalStep ==
  ASSUME ExecInv, ExecuteEval
  PROVE  ExecInv'
<1> USE DEF ExecInv
<1>1. /\ Running /\ TopIs({"compile"})
      /\ stack' = [stack EXCEPT ![Cur][Len(stack[Cur])] = EvalFrame]
      /\ in_eval' = in_eval + 1 /\ execution_depth' = execution_depth + 1
      /\ refused' = IF DepthRefuses(execution_depth + 1) THEN "execute" ELSE None
      /\ UNCHANGED <<stage, cfg, eval_source, chain>>
  BY DEF ExecuteEval
<1>2. /\ Cur \in Thread /\ Len(chain) \in Nat \ {0} /\ Cur' = Cur
      /\ \A k \in 1..Len(chain) : chain[k] \in Thread
      /\ \A k \in 1..(Len(chain) - 1) : chain[k] # Cur
      /\ stack[Cur] # <<>> /\ stack[Cur] \in Seq(Frame) /\ Len(stack[Cur]) \in Nat \ {0}
  BY <1>1, CurFacts DEF TopIs, Cur
<1>3. /\ stack' \in Stacks
      /\ EvalFrame.kind = "eval"
      /\ Len(stack'[Cur]) = Len(stack[Cur])
      /\ stack'[Cur] \in Seq(Frame)
      /\ stack'[Cur][Len(stack[Cur])] = EvalFrame
      /\ \A i \in DOMAIN stack[Cur] : i # Len(stack[Cur]) => stack'[Cur][i] = stack[Cur][i]
      /\ \A t \in Thread : t # Cur => stack'[t] = stack[t]
  BY <1>1, ReplaceEffect
<1>4. /\ Cardinality(Evals') = Cardinality(Evals) + 1
      /\ Cardinality(Executed') = Cardinality(Executed) + 1
  BY <1>1, ReplaceEffect DEF Evals, Executed
<1>5. /\ Cardinality(Executed) \in Nat /\ Cardinality(Evals) \in Nat
      /\ in_eval \in Nat /\ execution_depth \in Nat /\ stage > 0 /\ stage \in Nat
  BY <1>1, FramesFinite, BoundsAssumption DEF Executed, Evals, TypeOK, Running
<1>6. TypeOK'
  BY <1>1, <1>3, <1>5 DEF TypeOK, Stacks, Rule
<1>7. IdleInv'
  BY <1>1, <1>5 DEF IdleInv
<1>8. ChainInv'
  <2>1. ASSUME NEW k \in 1..(Len(chain) - 1)
        PROVE  stack'[chain[k]] # <<>>
    BY <2>1, <1>2, <1>3 DEF ChainInv
  <2>2. ASSUME NEW t \in Thread \ {Cur}, stack'[t] # <<>>
        PROVE  stack'[t][Len(stack'[t])].kind = "internal"
    BY <2>2, <1>3 DEF ChainInv
  <2> QED
    BY <2>1, <2>2, <1>1, <1>2 DEF ChainInv
<1>9. RefusedFrame'
  <2>1. stack'[Cur] # <<>> /\ stack'[Cur][Len(stack'[Cur])].kind \in Counted
    BY <1>2, <1>3 DEF Counted
  <2> QED
    BY <2>1, <1>2 DEF RefusedFrame, TopIs, Top
<1>10. CountersFollowStack'
  BY <1>1, <1>4, <1>5 DEF CountersFollowStack
<1>11. EvalFilterEnforced'
  <2>1. ASSUME NEW t \in Thread, NEW i \in DOMAIN stack'[t],
               stack'[t][i].inside, ~Simulation
        PROVE  Permitted(stack'[t][i])
    <3>1. CASE t # Cur
      BY <3>1, <2>1, <1>3 DEF EvalFilterEnforced
    <3>2. CASE t = Cur /\ i = Len(stack[Cur])
      BY <3>2, <1>3 DEF Permitted, Wrapped
    <3>3. CASE t = Cur /\ i # Len(stack[Cur])
      <4>1. i \in DOMAIN stack[Cur]
        BY <3>3, <1>2, <1>3
      <4> QED
        BY <3>3, <4>1, <2>1, <1>2, <1>3 DEF EvalFilterEnforced
    <3> QED
      BY <3>1, <3>2, <3>3
  <2>2. Filtered(stack')
    BY <2>1 DEF Filtered
  <2> QED
    BY <1>1, <2>2, FilteredPrime
<1>12. DepthLimited'
  <2>1. cfg.max_execution_depth \in Nat /\ cfg' = cfg
    BY <1>1, CfgFacts
  <2>2. refused # "execute"
    BY <1>1, NamesAssumption DEF Rule, Running
  <2>3. cfg.max_execution_depth > 0 => Cardinality(Executed) <= cfg.max_execution_depth
    BY <2>1, <2>2, <1>5 DEF DepthLimited
  <2>4. CASE DepthRefuses(execution_depth + 1)
    BY <2>1, <2>3, <2>4, <1>1, <1>4, <1>5 DEF DepthLimited
  <2>5. CASE ~DepthRefuses(execution_depth + 1)
    BY <2>1, <2>5, <1>1, <1>4, <1>5 DEF DepthLimited, DepthRefuses, CountersFollowStack
  <2> QED
    BY <2>4, <2>5
<1> QED
  BY <1>6, <1>7, <1>8, <1>9, <1>10, <1>11, <1>12

-----------------------------------------------------------------------------
(* The theorems.                                                           *)

LEMMA InitInv ==
  ASSUME Init
  PROVE  ExecInv
<1>1. \A t \in Thread : stack[t] = <<>>
  BY DEF Init
<1>2. Cardinality(FramesIn(stack, {"eval"})) = 0 /\ Cardinality(FramesIn(stack, Counted)) = 0
  BY <1>1, NothingCounted
<1>3. Cardinality(Evals) = 0 /\ Cardinality(Executed) = 0
  BY <1>2 DEF Evals, Executed
<1>4. None # "execute" /\ None \in Rule \cup {None}
  BY NamesAssumption DEF Rule
<1>5. TypeOK
  BY BoundsAssumption DEF Init, TypeOK, Thread
<1>6. IdleInv /\ RefusedFrame
  BY <1>1, <1>4 DEF Init, IdleInv, RefusedFrame
<1>7. ChainInv
  BY <1>1 DEF Init, ChainInv
<1>8. CountersFollowStack
  BY <1>3 DEF Init, CountersFollowStack
<1>9. EvalFilterEnforced
  BY <1>1 DEF EvalFilterEnforced
<1>10. cfg.max_execution_depth \in Nat
  BY <1>5, CfgFacts
<1>11. DepthLimited
  BY <1>3, <1>4, <1>10 DEF Init, DepthLimited
<1> QED
  BY <1>5, <1>6, <1>7, <1>8, <1>9, <1>11 DEF ExecInv

(* Steps outside of vars change nothing.                                   *)
LEMMA StutterStep ==
  ASSUME ExecInv, UNCHANGED vars
  PROVE  ExecInv'
<1>1. UNCHANGED <<stage, cfg, in_eval, execution_depth, eval_source, stack, chain, refused>>
  BY DEF vars
<1>2. Cur' = Cur
  BY <1>1 DEF Cur
<1>3. TypeOK' /\ IdleInv'
  BY <1>1 DEF ExecInv, TypeOK, IdleInv
<1>4. ChainInv' /\ RefusedFrame'
  BY <1>1, <1>2 DEF ExecInv, ChainInv, RefusedFrame, TopIs, Top
<1>5. CountersFollowStack' /\ DepthLimited'
  BY <1>1 DEF ExecInv, CountersFollowStack, DepthLimited, Evals, Executed, FramesIn
<1>6. EvalFilterEnforced'
  BY <1>1, FewerFramesFiltered DEF ExecInv
<1> QED
  BY <1>3, <1>4, <1>5, <1>6 DEF ExecInv

(* The inductive invariant: types, what a suspended or idle thread looks   *)
(* like, counters that follow the frames, and the two checks they serve.   *)
THEOREM ExecInvariant == Spec => []ExecInv
<1>1. Init => ExecInv
  BY InitInv
<1>2. ExecInv /\ [Next]_vars => ExecInv'
  <2> SUFFICES ASSUME ExecInv, [Next]_vars
               PROVE  ExecInv'
    OBVIOUS
  <2>1. ASSUME NEW c \in Configs, BeginRequest(c)
        PROVE  ExecInv'
    BY <2>1, BeginRequestStep
  <2>2. CASE EndStage
    BY <2>2, EndStageStep
  <2>3. CASE EndRequest
    BY <2>3, EndRequestStep
  <2>4. CASE Bailout
    BY <2>4, BailoutStep
  <2>5. CASE ExecuteFile
    BY <2>5, ExecuteFileStep
  <2>6. ASSUME NEW f \in UserFunction, ExecuteUser(f)
        PROVE  ExecInv'
    BY <2>6, ExecuteUserStep
  <2>7. ASSUME NEW f \in InternalFunction, ExecuteInternal(f)
        PROVE  ExecInv'
    BY <2>7, ExecuteInternalStep
  <2>8. ASSUME NEW s \in Source, CompileString(s)
        PROVE  ExecInv'
    BY <2>8, CompileStringStep
  <2>9. CASE CompileFails
    BY <2>9, CompileFailsStep
  <2>10. CASE ExecuteEval
    BY <2>10, ExecuteEvalStep
  <2>11. CASE Return
    BY <2>11, ReturnStep
  <2>12. ASSUME NEW b \in Fiber, FiberStart(b)
         PROVE  ExecInv'
    BY <2>12, FiberStartStep
  <2>13. ASSUME NEW b \in Fiber, FiberResume(b)
         PROVE  ExecInv'
    BY <2>13, FiberResumeStep
  <2>14. ASSUME NEW b \in Fiber, FiberDestroy(b)
         PROVE  ExecInv'
    BY <2>14, FiberDestroyStep
  <2>15. CASE FiberSuspend
    BY <2>15, FiberSuspendStep
  <2>16. CASE UNCHANGED vars
    BY <2>16, StutterStep
  <2> QED
    BY <2>1, <2>2, <2>3, <2>4, <2>5, <2>6, <2>7, <2>8, <2>9, <2>10, <2>11,
       <2>12, <2>13, <2>14, <2>15, <2>16 DEF Next
<1> QED
  BY <1>1, <1>2, PTL DEF Spec

(* The counters are numbers: sp_orig_execute and the eval branch of        *)
(* sp_execute_handler never take them below zero, whatever bailouts and    *)
(* fibers do between the increment and the decrement.                      *)
THEOREM TypeCorrect == Spec => []TypeOK
<1>1. ExecInv => TypeOK
  BY DEF ExecInv
<1> QED
  BY <1>1, ExecInvariant, PTL

(* in_eval and execution_depth are exact while the script runs, over all   *)
(* fibers, and never too small afterwards.                                 *)
THEOREM CountersFollow == Spec => []CountersFollowStack
<1>1. ExecInv => CountersFollowStack
  BY DEF ExecInv
<1> QED
  BY <1>1, ExecInvariant, PTL

(* No call runs inside an eval that is_in_eval_and_whitelisted and         *)
(* eval_blacklist_callback do not allow.                                   *)
THEOREM FilterEnforced == Spec => []EvalFilterEnforced
<1>1. ExecInv => EvalFilterEnforced
  BY DEF ExecInv
<1> QED
  BY <1>1, ExecInvariant, PTL

(* sp_orig_execute keeps the frames in progress within                     *)
(* sp.global.max_execution_depth, the one being refused excepted.          *)
THEOREM DepthIsLimited == Spec => []DepthLimited
<1>1. ExecInv => DepthLimited
  BY DEF ExecInv
<1> QED
  BY <1>1, ExecInvariant, PTL

(* A refusal is logged where it is decided, and left by zend_bailout alone.*)
LEMMA RefusalStep ==
  ASSUME ExecInv, RefusalInv, [Next]_vars
  PROVE  RefusalInv'
<1>1. None \notin Rule
  BY NamesAssumption
<1>2. CASE refused' = None
  BY <1>1, <1>2 DEF RefusalInv, Rule
<1>3. CASE UNCHANGED <<refused, in_eval, execution_depth, cfg>>
  BY <1>3 DEF RefusalInv
<1>4. CASE refused = None /\ UNCHANGED refused
  BY <1>2, <1>4
<1>5. ASSUME NEW c \in Configs, BeginRequest(c)
      PROVE  RefusalInv'
  BY <1>4, <1>5 DEF BeginRequest, ExecInv, IdleInv
<1>6. CASE EndStage \/ EndRequest \/ CompileFails \/ Return \/ FiberSuspend
  BY <1>4, <1>6 DEF EndStage, EndRequest, CompileFails, Return, FiberSuspend, InCallOf, Running
<1>7. CASE Bailout
  BY <1>2, <1>7 DEF Bailout
<1>8. CASE execution_depth' = execution_depth + 1 /\ UNCHANGED cfg /\
           refused' = IF DepthRefuses(execution_depth + 1) THEN "execute" ELSE None
  BY <1>2, <1>8 DEF RefusalInv, DepthRefuses
<1>9. CASE ExecuteFile \/ ExecuteEval
  BY <1>8, <1>9 DEF ExecuteFile, ExecuteEval, SpOrigExecute
<1>10. ASSUME NEW f \in UserFunction, ExecuteUser(f)
       PROVE  RefusalInv'
  <2>1. CASE WhitelistRefuses(f)
    BY <1>10, <2>1 DEF ExecuteUser, Refuse, WhitelistRefuses, RefusalInv
  <2>2. CASE ~WhitelistRefuses(f)
    BY <1>8, <1>10, <2>2 DEF ExecuteUser, SpOrigExecute
  <2> QED
    BY <2>1, <2>2
<1>11. ASSUME NEW f \in InternalFunction, ExecuteInternal(f)
       PROVE  RefusalInv'
  <2>1. CASE WhitelistRefuses(f)
    <3>1. refused' = "eval_whitelist" /\ in_eval' = in_eval
      BY <1>11, <2>1 DEF ExecuteInternal, Refuse
    <3> QED
      BY <2>1, <3>1 DEF WhitelistRefuses, RefusalInv
  <2>2. CASE BlacklistRefuses(f) /\ ~WhitelistRefuses(f)
    <3>1. refused' = "eval_blacklist" /\ in_eval' = in_eval
      BY <1>11, <2>2 DEF ExecuteInternal, Refuse
    <3> QED
      BY <2>2, <3>1 DEF BlacklistRefuses, RefusalInv
  <2>3. CASE ~WhitelistRefuses(f) /\ ~BlacklistRefuses(f)
    BY <1>4, <1>11, <2>3 DEF ExecuteInternal, Running
  <2> QED
    BY <2>1, <2>2, <2>3
<1>12. ASSUME NEW s \in Source, CompileString(s)
       PROVE  RefusalInv'
  BY <1>4, <1>12 DEF CompileString, Running
<1>13. ASSUME NEW b \in Fiber, FiberStart(b) \/ FiberResume(b) \/ FiberDestroy(b)
       PROVE  RefusalInv'
  BY <1>4, <1>13 DEF FiberStart, FiberResume, FiberDestroy, InCallOf, Running
<1>14. CASE UNCHANGED vars
  BY <1>3, <1>14 DEF vars
<1> QED
  BY <1>5, <1>6, <1>7, <1>9, <1>10, <1>11, <1>12, <1>13, <1>14 DEF Next

(* With exact counters and every eval on the running threads, what the     *)
(* counters say is what is running.                                        *)
LEMMA RefusalsFollow ==
  ASSUME ExecInv, RefusalInv
  PROVE  RefusalsJustified
<1> SUFFICES ASSUME stage = 1, \A t \in Thread : ~Suspended(t)
             PROVE  /\ refused \in {"eval_whitelist", "eval_blacklist"} => InsideEval
                    /\ refused = "execute" => Cardinality(Executed) > cfg.max_execution_depth
  BY DEF RefusalsJustified
<1>1. in_eval = Cardinality(Evals) /\ execution_depth = Cardinality(Executed)
  BY DEF ExecInv, CountersFollowStack
<1>2. ASSUME refused \in {"eval_whitelist", "eval_blacklist"}
      PROVE  InsideEval
  <2>1. Evals # {}
    BY <1>1, <1>2, FS_EmptySet DEF RefusalInv
  <2>2. PICK p \in Evals : TRUE
    BY <2>1
  <2>3. p[1] \in Thread /\ stack[p[1]] # <<>>
    <3>1. p[1] \in Thread /\ p[2] \in DOMAIN stack[p[1]]
      BY <2>2 DEF Evals, FramesIn
    <3>2. DOMAIN <<>> = {}
      OBVIOUS
    <3> QED
      BY <3>1, <3>2
  <2>4. OnChain(p[1])
    BY <2>3 DEF Suspended
  <2> QED
    BY <2>2, <2>4 DEF InsideEval
<1> QED
  BY <1>1, <1>2 DEF RefusalInv

(* Until a bailout, and without suspended fibers, the eval lists drop only *)
(* calls made inside an eval and the limit only what is too deep: RINIT    *)
(* clears what the bailouts of earlier requests left in the counters.      *)
THEOREM Refusals == Spec => []RefusalsJustified
<1>1. Init => RefusalInv
  BY NamesAssumption DEF Init, RefusalInv, Rule
<1>2. ExecInv /\ RefusalInv /\ [Next]_vars => RefusalInv'
  BY RefusalStep
<1>3. ExecInv /\ RefusalInv => RefusalsJustified
  BY RefusalsFollow
<1> QED
  BY <1>1, <1>2, <1>3, ExecInvariant, PTL DEF Spec
=============================================================================
