---------------------------- MODULE SolverProofs ----------------------------
(***************************************************************************)
(* Proofs about Solver, for every finite graph, every set of definitions    *)
(* and every GEN and KILL: where the solver stops the dataflow equations    *)
(* hold, it has claimed no more than any solution contains (so it stops at  *)
(* the least fixed point), and OUT sets only grow.                          *)
(*                                                                         *)
(* The worklist argument is in the invariant Inv: a reachable block that is *)
(* not queued has an IN set that agrees with the OUT sets of its            *)
(* predecessors now, because whoever changed one of them queued the block.  *)
(***************************************************************************)
EXTENDS Solver, FunctionTheorems, FiniteSetTheorems, SequenceTheorems, WellFoundedInduction, TLAPS

(* A block's sets are as allocated, or OUT follows from IN.                 *)
Untouched(b) ==
  /\ inSets[b] = {} /\ outSets[b] = {}
  /\ b \in inWorklist \/ b \notin Reachable

OutFollowsIn ==
  \A b \in Block : Untouched(b) \/ outSets[b] = Transfer(b, inSets[b])

(* IN is never ahead of the predecessors, and is up to date off the list.   *)
InFollowsPredecessors ==
  \A b \in Block :
    /\ inSets[b] \subseteq Meet(b)
    /\ b \in Reachable \ inWorklist => inSets[b] = Meet(b)

Inv ==
  /\ TypeOK
  /\ WorklistMirrored
  /\ inWorklist \subseteq Reachable
  /\ OutFollowsIn
  /\ InFollowsPredecessors
  /\ NeverAboveASolution

-----------------------------------------------------------------------------
(* The elements of SetToSeqs(S) list every element of S once.               *)
LEMMA SetToSeqsLists ==
  ASSUME NEW S, IsFiniteSet(S), NEW s \in SetToSeqs(S)
  PROVE  s \in Seq(S) /\ ToSet(s) = S /\ IsInjective(s)
<1> DEFINE n == Cardinality(S)
<1>1. n \in Nat
  BY FS_CardinalityType
<1>2. s \in [1..n -> S] /\ \A i, j \in 1..n : i # j => s[i] # s[j]
  BY DEF SetToSeqs
<1> HIDE DEF n
<1>3. s \in Seq(S)
  BY <1>1, <1>2, SeqDef
<1>4. IsInjective(s)
  BY <1>2 DEF IsInjective
<1>5. s \in Injection(1..n, S)
  BY <1>2, <1>4, Fun_IsInj
<1>6. IsFiniteSet(1..n) /\ Cardinality(1..n) = n
  BY <1>1, FS_Interval
<1>7. s \in Surjection(1..n, S)
  BY <1>5, <1>6, FS_Injection DEF n
<1>8. \A x \in S : \E i \in 1..n : s[i] = x
  BY <1>7 DEF Surjection
<1>9. ToSet(s) = S
  BY <1>2, <1>8 DEF ToSet
<1> QED BY <1>3, <1>4, <1>9

(* Popping the last block and pushing a list of blocks that are not in the  *)
(* rest keeps the stack duplicate-free and its content in step.             *)
LEMMA PopAndPush ==
  ASSUME NEW w \in Seq(Block), w # <<>>, IsInjective(w),
         NEW s \in Seq(Block), IsInjective(s),
         ToSet(s) \cap (ToSet(w) \ {Last(w)}) = {}
  PROVE  /\ Front(w) \o s \in Seq(Block)
         /\ IsInjective(Front(w) \o s)
         /\ ToSet(Front(w) \o s) = (ToSet(w) \ {Last(w)}) \cup ToSet(s)
<1> DEFINE f == Front(w)
           n == Len(w)
           m == Len(s)
           t == f \o s
<1>1. n \in Nat \ {0} /\ m \in Nat /\ DOMAIN w = 1..n /\ DOMAIN s = 1..m
  BY EmptySeq, LenProperties
<1>2. \A i \in 1..n : w[i] \in Block
  BY ElementOfSeq
<1>3. /\ f \in Seq(Block)
      /\ Len(f) = n - 1
      /\ \A i \in 1..n-1 : f[i] = w[i]
  <2>1. \A i \in 1..n-1 : w[i] \in Block
    BY <1>1, <1>2
  <2>2. f \in Seq(Block) /\ Len(f) = n - 1
    BY <1>1, <2>1, SubSeqProperties DEF Front
  <2>3. \A i \in 1..(n-1)-1+1 : f[i] = w[1+i-1]
    BY <1>1, <2>1, SubSeqProperties DEF Front
  <2> QED BY <1>1, <2>2, <2>3
<1> HIDE DEF f, n, m
<1>4. /\ t \in Seq(Block)
      /\ Len(t) = (n - 1) + m
      /\ \A i \in 1..(n-1)+m : t[i] = IF i <= n-1 THEN f[i] ELSE s[i - (n-1)]
  <2>1. /\ t \in Seq(Block)
        /\ Len(t) = Len(f) + Len(s)
        /\ \A i \in 1..Len(f)+Len(s) :
             t[i] = IF i <= Len(f) THEN f[i] ELSE s[i - Len(f)]
    BY <1>3, ConcatProperties
  <2> QED BY <1>3, <2>1 DEF m
<1> HIDE DEF t
<1>5. DOMAIN t = 1..(n-1)+m
  BY <1>4, LenProperties
<1>6. \A i \in 1..n-1 : t[i] = w[i]
  BY <1>1, <1>3, <1>4
<1>7. \A i \in 1..m : t[(n-1)+i] = s[i] /\ (n-1)+i \in 1..(n-1)+m
  BY <1>1, <1>4
<1>8. \A i \in 1..(n-1)+m : i \in 1..n-1 \/ \E k \in 1..m : i = (n-1)+k
  <2>1. \A i \in 1..(n-1)+m : i > n-1 => i - (n-1) \in 1..m /\ i = (n-1) + (i - (n-1))
    BY <1>1
  <2> QED BY <1>1, <2>1
<1>9. Last(w) = w[n] /\ n \in 1..n
  BY <1>1 DEF Last, n
<1>10. ToSet(w) \ {Last(w)} = {w[i] : i \in 1..n-1}
  <2>1. \A i \in 1..n : w[i] # w[n] => i \in 1..n-1
    BY <1>1
  <2>2. \A i \in 1..n-1 : i \in 1..n /\ w[i] # w[n]
    BY <1>1, <1>9 DEF IsInjective
  <2> QED BY <1>1, <1>9, <2>1, <2>2 DEF ToSet
<1>11. ToSet(t) = (ToSet(w) \ {Last(w)}) \cup ToSet(s)
  <2>1. \A i \in 1..n-1 : i \in 1..(n-1)+m
    BY <1>1
  <2>2. ToSet(t) = {t[i] : i \in 1..(n-1)+m} /\ ToSet(s) = {s[i] : i \in 1..m}
    BY <1>1, <1>5 DEF ToSet
  <2>3. ASSUME NEW i \in 1..(n-1)+m
        PROVE  t[i] \in {w[j] : j \in 1..n-1} \cup {s[k] : k \in 1..m}
    BY <1>6, <1>7, <1>8
  <2>4. ASSUME NEW j \in 1..n-1 PROVE w[j] \in {t[i] : i \in 1..(n-1)+m}
    BY <1>6, <2>1
  <2>5. ASSUME NEW k \in 1..m PROVE s[k] \in {t[i] : i \in 1..(n-1)+m}
    BY <1>7
  <2> DEFINE a == {w[j] : j \in 1..n-1}
             b == {s[k] : k \in 1..m}
             c == {t[i] : i \in 1..(n-1)+m}
  <2>6. c \subseteq a \cup b
    BY <2>3
  <2>7. a \subseteq c
    BY <2>4
  <2>8. b \subseteq c
    BY <2>5
  <2>9. ToSet(w) \ {Last(w)} = a /\ ToSet(s) = b /\ ToSet(t) = c
    BY <1>10, <2>2
  <2> HIDE DEF a, b, c
  <2> QED BY <2>6, <2>7, <2>8, <2>9
<1>12. ASSUME NEW i \in 1..(n-1)+m, NEW j \in 1..(n-1)+m, t[i] = t[j]
       PROVE  i = j
  <2>1. CASE i \in 1..n-1 /\ j \in 1..n-1
    <3>1. i \in 1..n /\ j \in 1..n
      BY <1>1, <2>1
    <3> QED BY <1>1, <1>6, <1>12, <2>1, <3>1 DEF IsInjective
  <2>2. ASSUME NEW k \in 1..m, i = (n-1)+k, NEW l \in 1..m, j = (n-1)+l
        PROVE  i = j
    BY <1>1, <1>7, <1>12, <2>2 DEF IsInjective
  <2>3. ASSUME NEW k \in 1..m, NEW l \in 1..n-1, t[(n-1)+k] = t[l]
        PROVE  FALSE
    <3>1. s[k] = w[l]
      BY <1>6, <1>7, <2>3
    <3>2. s[k] \in ToSet(s) /\ w[l] \in ToSet(w) \ {Last(w)}
      BY <1>1, <1>10 DEF ToSet
    <3> QED BY <3>1, <3>2
  <2> QED BY <1>8, <1>12, <2>1, <2>2, <2>3
<1> QED BY <1>4, <1>5, <1>11, <1>12 DEF IsInjective, t, f

-----------------------------------------------------------------------------
(* The reachable blocks contain the entry and every successor of theirs.    *)
LEMMA ReachableClosed ==
  ASSUME cfg \in Problem
  PROVE  /\ Entry \in Reachable
         /\ Reachable \subseteq Block
         /\ IsFiniteSet(Reachable)
         /\ \A b \in Reachable : cfg.succ[b] \subseteq Reachable
<1>1. Entry \in Reachable /\ Reachable \in SUBSET Block
  BY BlockAssumption DEF Reachable
<1>2. IsFiniteSet(Reachable)
  BY <1>1, BlockAssumption, FS_Subset
<1>3. ASSUME NEW b \in Reachable, NEW c \in cfg.succ[b]
      PROVE  c \in Reachable
  <2>1. c \in Block
    BY <1>1 DEF Problem
  <2>2. ASSUME NEW S \in SUBSET Block, Entry \in S, \A e \in S : cfg.succ[e] \subseteq S
        PROVE  c \in S
    BY <2>2 DEF Reachable
  <2> QED BY <2>1, <2>2 DEF Reachable
<1> QED BY <1>1, <1>2, <1>3

LEMMA SetsTyped ==
  ASSUME TypeOK, NEW b \in Block
  PROVE  /\ Meet(b) \in SUBSET Def
         /\ Transfer(b, Meet(b)) \in SUBSET Def
         /\ cfg.succ[b] \in SUBSET Block
  BY DEF TypeOK, Problem, Meet, Transfer, Predecessors

LEMMA InitInv == Init => Inv
<1> SUFFICES ASSUME Init PROVE Inv
  OBVIOUS
<1>1. cfg \in Problem
  BY ProblemsAssumption DEF Init
<1>2. /\ worklist \in Seq(Reachable)
      /\ ToSet(worklist) = Reachable
      /\ IsInjective(worklist)
  BY <1>1, ReachableClosed, SetToSeqsLists DEF Init
<1>3. worklist \in Seq(Block)
  BY <1>1, <1>2, ReachableClosed, SeqMonotonic
<1>4. TypeOK
  BY <1>1, <1>3, ReachableClosed DEF Init, TypeOK
<1>5. WorklistMirrored /\ inWorklist \subseteq Reachable
  BY <1>2 DEF Init, WorklistMirrored
<1>6. OutFollowsIn
  BY DEF Init, OutFollowsIn, Untouched
<1>7. InFollowsPredecessors
  BY DEF Init, InFollowsPredecessors
<1>8. NeverAboveASolution
  BY DEF Init, NeverAboveASolution
<1> QED BY <1>4, <1>5, <1>6, <1>7, <1>8 DEF Inv

(* One turn of the loop, in the words the proofs use.                       *)
LEMMA IterateFacts ==
  ASSUME Inv, Iterate, NEW b, b = Last(worklist)
  PROVE  /\ b \in Reachable /\ b \in inWorklist /\ b \in Block
         /\ cfg' = cfg
         /\ inSets' = [inSets EXCEPT ![b] = Meet(b)]
         /\ outSets' = [outSets EXCEPT ![b] = Transfer(b, Meet(b))]
         /\ inWorklist' = (inWorklist \ {b}) \cup
              (IF Transfer(b, Meet(b)) # outSets[b]
               THEN cfg.succ[b] \ (inWorklist \ {b}) ELSE {})
         /\ TypeOK' /\ WorklistMirrored'
<1> DEFINE rest == inWorklist \ {b}
           fresh == IF Transfer(b, Meet(b)) # outSets[b] THEN cfg.succ[b] \ rest ELSE {}
<1>1. Len(worklist) \in 1..Len(worklist) /\ DOMAIN worklist = 1..Len(worklist)
  BY EmptySeq, LenProperties DEF Iterate, Inv, TypeOK
<1>2. b \in inWorklist
  BY <1>1 DEF Last, Inv, WorklistMirrored, ToSet
<1>3. b \in Reachable /\ b \in Block
  BY <1>2, ReachableClosed DEF Inv, TypeOK
<1>4. /\ inSets' = [inSets EXCEPT ![b] = Meet(b)]
      /\ outSets' = [outSets EXCEPT ![b] = Transfer(b, Meet(b))]
      /\ inWorklist' = rest \cup fresh
      /\ \E s \in SetToSeqs(fresh) : worklist' = Front(worklist) \o s
      /\ cfg' = cfg
      /\ worklist # <<>>
  BY DEF Iterate
<1>5. PICK s \in SetToSeqs(fresh) : worklist' = Front(worklist) \o s
  BY <1>4
<1>6. fresh \in SUBSET Block
  BY <1>3, SetsTyped DEF Inv
<1>7. fresh \cap rest = {}
  OBVIOUS
<1> HIDE DEF fresh
<1>8. s \in Seq(fresh) /\ ToSet(s) = fresh /\ IsInjective(s)
  BY <1>6, BlockAssumption, FS_Subset, SetToSeqsLists
<1>9. s \in Seq(Block)
  BY <1>6, <1>8, SeqMonotonic
<1>10. /\ worklist \in Seq(Block) /\ IsInjective(worklist)
       /\ ToSet(worklist) \ {Last(worklist)} = rest
  BY DEF Inv, TypeOK, WorklistMirrored
<1>11. /\ worklist' \in Seq(Block)
       /\ IsInjective(worklist')
       /\ ToSet(worklist') = rest \cup fresh
  BY <1>4, <1>5, <1>7, <1>8, <1>9, <1>10, PopAndPush
<1>12. WorklistMirrored'
  BY <1>4, <1>11 DEF WorklistMirrored
<1>13. TypeOK'
  <2>1. Meet(b) \in SUBSET Def /\ Transfer(b, Meet(b)) \in SUBSET Def
    BY <1>3, SetsTyped DEF Inv
  <2> QED BY <1>3, <1>4, <1>6, <1>11, <2>1 DEF Inv, TypeOK
<1> QED BY <1>2, <1>3, <1>4, <1>12, <1>13 DEF fresh

(* The new OUT of the popped block contains the old one.                    *)
LEMMA OutGrows ==
  ASSUME Inv, Iterate
  PROVE  \A c \in Block : outSets[c] \subseteq outSets'[c]
<1> DEFINE b == Last(worklist)
<1>1. /\ b \in Block
      /\ outSets' = [outSets EXCEPT ![b] = Transfer(b, Meet(b))]
  BY IterateFacts
<1>2. outSets[b] \subseteq Transfer(b, Meet(b))
  BY <1>1 DEF Inv, OutFollowsIn, Untouched, InFollowsPredecessors, Transfer
<1> HIDE DEF b
<1> QED BY <1>1, <1>2 DEF Inv, TypeOK

LEMMA IterateInv == ASSUME Inv, Iterate PROVE Inv'
<1> DEFINE b == Last(worklist)
<1>1. /\ b \in Reachable /\ b \in inWorklist /\ b \in Block
      /\ cfg' = cfg
      /\ inSets' = [inSets EXCEPT ![b] = Meet(b)]
      /\ outSets' = [outSets EXCEPT ![b] = Transfer(b, Meet(b))]
      /\ inWorklist' = (inWorklist \ {b}) \cup
           (IF Transfer(b, Meet(b)) # outSets[b]
            THEN cfg.succ[b] \ (inWorklist \ {b}) ELSE {})
      /\ TypeOK' /\ WorklistMirrored'
  BY IterateFacts
<1> HIDE DEF b
<1>2. Reachable' = Reachable /\ \A c : Predecessors(c)' = Predecessors(c)
  BY <1>1 DEF Reachable, Predecessors
<1>3. inWorklist' \subseteq Reachable'
  BY <1>1, <1>2, ReachableClosed DEF Inv, TypeOK
<1>4. inSets \in [Block -> SUBSET Def] /\ outSets \in [Block -> SUBSET Def]
  BY DEF Inv, TypeOK
<1>5. \A c \in Block : outSets[c] \subseteq outSets'[c]
  BY OutGrows
<1>6. \A c \in Block : Meet(c)' = UNION {outSets'[p] : p \in Predecessors(c)}
  BY <1>2 DEF Meet
<1>7. \A c \in Block : Meet(c) \subseteq Meet(c)'
  BY <1>5, <1>6 DEF Meet, Predecessors
<1>8. \A c \in Block : c \notin cfg.succ[b] \/ outSets' = outSets => Meet(c)' = Meet(c)
  <2>1. SUFFICES ASSUME NEW c \in Block, c \notin cfg.succ[b] \/ outSets' = outSets
                 PROVE  Meet(c)' = Meet(c)
    OBVIOUS
  <2>2. \A p \in Predecessors(c) : outSets'[p] = outSets[p]
    BY <1>1, <1>4, <2>1 DEF Predecessors
  <2> QED BY <1>6, <2>2 DEF Meet
<1>10. OutFollowsIn'
  <2>1. SUFFICES ASSUME NEW c \in Block
                 PROVE  Untouched(c)' \/ outSets'[c] = Transfer(c, inSets'[c])
    BY <1>1 DEF OutFollowsIn, Transfer
  <2>2. CASE c = b
    BY <1>1, <1>4, <2>2
  <2>3. CASE c # b
    <3>1. inSets'[c] = inSets[c] /\ outSets'[c] = outSets[c]
      BY <1>1, <1>4, <2>3
    <3>2. c \in inWorklist => c \in inWorklist'
      BY <1>1, <2>3
    <3>3. Untouched(c) \/ outSets[c] = Transfer(c, inSets[c])
      BY DEF Inv, OutFollowsIn
    <3> QED BY <1>2, <3>1, <3>2, <3>3 DEF Untouched
  <2> QED BY <2>2, <2>3
<1>11. InFollowsPredecessors'
  <2>1. SUFFICES ASSUME NEW c \in Block
                 PROVE  /\ inSets'[c] \subseteq Meet(c)'
                        /\ c \in Reachable \ inWorklist' => inSets'[c] = Meet(c)'
    BY <1>2 DEF InFollowsPredecessors
  <2>2. inSets'[c] \subseteq Meet(c)'
    BY <1>1, <1>4, <1>7 DEF Inv, InFollowsPredecessors
  <2>3. ASSUME c \in Reachable, c \notin inWorklist'
        PROVE  inSets'[c] = Meet(c)'
    <3>1. c \notin cfg.succ[b] \/ outSets' = outSets
      <4>1. CASE Transfer(b, Meet(b)) = outSets[b]
        BY <1>1, <1>4, <4>1
      <4>2. CASE Transfer(b, Meet(b)) # outSets[b]
        BY <1>1, <2>3, <4>2
      <4> QED BY <4>1, <4>2
    <3>2. Meet(c)' = Meet(c)
      BY <1>8, <3>1
    <3>3. CASE c = b
      BY <1>1, <1>4, <3>2, <3>3
    <3>4. CASE c # b
      <4>1. c \notin inWorklist
        BY <1>1, <2>3, <3>4
      <4> QED BY <1>1, <1>4, <2>3, <3>2, <3>4, <4>1 DEF Inv, InFollowsPredecessors
    <3> QED BY <3>3, <3>4
  <2> QED BY <2>2, <2>3
<1>12. NeverAboveASolution'
  <2>1. SUFFICES ASSUME NEW sol \in [Block -> SUBSET Def], Solution(sol), NEW c \in Block
                 PROVE  outSets'[c] \subseteq sol[c]
    BY <1>1, <1>2 DEF NeverAboveASolution, Solution, Transfer
  <2>2. \A p \in Block : outSets[p] \subseteq sol[p]
    BY <2>1 DEF Inv, NeverAboveASolution
  <2>3. Meet(b) \subseteq UNION {sol[p] : p \in Predecessors(b)}
    BY <2>2 DEF Meet, Predecessors
  <2>4. Transfer(b, Meet(b)) \subseteq Transfer(b, UNION {sol[p] : p \in Predecessors(b)})
    BY <2>3 DEF Transfer
  <2>5. Transfer(b, UNION {sol[p] : p \in Predecessors(b)}) \subseteq sol[b]
    BY <1>1, <2>1 DEF Solution
  <2>6. Transfer(b, Meet(b)) \subseteq sol[b]
    BY <2>4, <2>5
  <2> QED BY <1>1, <1>4, <2>2, <2>6
<1> QED BY <1>1, <1>3, <1>10, <1>11, <1>12 DEF Inv

LEMMA StutterInv == ASSUME Inv, UNCHANGED vars PROVE Inv'
<1>1. Reachable' = Reachable
  BY DEF vars, Reachable
<1>2. \A c : Predecessors(c)' = Predecessors(c) /\ Meet(c)' = Meet(c)
  BY DEF vars, Predecessors, Meet
<1>3. TypeOK' /\ WorklistMirrored' /\ inWorklist' \subseteq Reachable'
  BY <1>1 DEF vars, Inv, TypeOK, WorklistMirrored
<1>4. OutFollowsIn'
  BY <1>1 DEF vars, Inv, OutFollowsIn, Untouched, Transfer
<1>5. InFollowsPredecessors'
  BY <1>1, <1>2 DEF vars, Inv, InFollowsPredecessors
<1>6. NeverAboveASolution'
  BY <1>2 DEF vars, Inv, NeverAboveASolution, Solution, Transfer
<1> QED BY <1>3, <1>4, <1>5, <1>6 DEF Inv

THEOREM InvariantHolds == Spec => []Inv
<1>1. Inv /\ [Iterate]_vars => Inv'
  BY IterateInv, StutterInv
<1>2. Spec => Init /\ [][Iterate]_vars
  BY PTL DEF Spec
<1> QED BY <1>1, <1>2, InitInv, PTL

-----------------------------------------------------------------------------
(* The results.                                                             *)

THEOREM TypeCorrect == Spec => []TypeOK
BY InvariantHolds, PTL DEF Inv

(* The stack and its bit set never disagree, and no block is queued twice.  *)
THEOREM StackAndBitsAgree == Spec => []WorklistMirrored
BY InvariantHolds, PTL DEF Inv

LEMMA FixpointWhenDone == ASSUME Inv PROVE SolvedAtFixpoint
<1>1. SUFFICES ASSUME Done, NEW b \in Reachable
               PROVE  inSets[b] = Meet(b) /\ outSets[b] = Transfer(b, inSets[b])
  BY DEF SolvedAtFixpoint, IsFixpoint
<1>2. inWorklist = {}
  BY <1>1 DEF Done, Inv, WorklistMirrored, ToSet
<1>3. b \in Block
  BY <1>1 DEF Reachable
<1> QED BY <1>1, <1>2, <1>3 DEF Inv, OutFollowsIn, Untouched, InFollowsPredecessors

(* Partial correctness: an empty worklist means that the dataflow equations *)
(* hold on every reachable block.                                           *)
THEOREM StopsAtFixpoint == Spec => []SolvedAtFixpoint
BY FixpointWhenDone, InvariantHolds, PTL

(* Leastness: at no time does an OUT set hold a definition that some        *)
(* solution of the equations does without.                                  *)
THEOREM StaysBelowEverySolution == Spec => []NeverAboveASolution
BY InvariantHolds, PTL DEF Inv

(* OUT sets only grow, which with finitely many bits is why the loop ends.  *)
THEOREM OutSetsOnlyGrow == Spec => OutSetsGrow
<1>1. Inv /\ [Iterate]_vars => [\A b \in Block : outSets[b] \subseteq outSets'[b]]_vars
  BY OutGrows DEF vars
<1>2. Spec => [][Iterate]_vars
  BY PTL DEF Spec
<1> QED BY <1>1, <1>2, InvariantHolds, PTL DEF OutSetsGrow

-----------------------------------------------------------------------------
(* Meet over all paths.                                                     *)

(* Some path of reachable blocks, none of them twice, carries d out of b.    *)
CarriedOut(b, d) ==
  \E m \in Nat \ {0} : \E q \in [1..m -> Reachable] :
    /\ IsInjective(q) /\ q[m] = b
    /\ d \in cfg.gen[q[1]]
    /\ \A i \in 1..m-1 : q[i+1] \in cfg.succ[q[i]]
    /\ \A i \in 2..m : d \in Transfer(q[i], {d})

OutOnPaths == \A b \in Block : \A d \in outSets[b] : CarriedOut(b, d)

(* A path can be taken on to a successor that lets d through; if the          *)
(* successor is on it, the path so far is cut there.                         *)
LEMMA CarriedOn ==
  ASSUME cfg \in Problem, NEW p, NEW b \in Reachable, NEW d,
         CarriedOut(p, d), b \in cfg.succ[p], d \in Transfer(b, {d})
  PROVE  CarriedOut(b, d)
<1>1. PICK m \in Nat \ {0} : \E q \in [1..m -> Reachable] :
        /\ IsInjective(q) /\ q[m] = p
        /\ d \in cfg.gen[q[1]]
        /\ \A i \in 1..m-1 : q[i+1] \in cfg.succ[q[i]]
        /\ \A i \in 2..m : d \in Transfer(q[i], {d})
  BY DEF CarriedOut
<1>2. PICK q \in [1..m -> Reachable] :
        /\ IsInjective(q) /\ q[m] = p
        /\ d \in cfg.gen[q[1]]
        /\ \A i \in 1..m-1 : q[i+1] \in cfg.succ[q[i]]
        /\ \A i \in 2..m : d \in Transfer(q[i], {d})
  BY <1>1
<1>3. CASE \E n \in 1..m : q[n] = b
  <2>1. PICK n \in 1..m : q[n] = b
    BY <1>3
  <2> DEFINE t == [i \in 1..n |-> q[i]]
  <2>2. n \in Nat \ {0} /\ \A i \in 1..n : i \in 1..m
    OBVIOUS
  <2>3. t \in [1..n -> Reachable] /\ \A i \in 1..n : t[i] = q[i]
    BY <2>2
  <2>4. IsInjective(t)
    BY <1>2, <2>2, <2>3 DEF IsInjective
  <2>5. \A i \in 1..n-1 : i \in 1..m-1 /\ i \in 1..n /\ i+1 \in 1..n
    OBVIOUS
  <2>6. \A i \in 2..n : i \in 2..m /\ i \in 1..n
    OBVIOUS
  <2> HIDE DEF t
  <2>7. t[n] = b /\ d \in cfg.gen[t[1]]
    BY <1>2, <2>1, <2>2, <2>3
  <2>8. \A i \in 1..n-1 : t[i+1] \in cfg.succ[t[i]]
    BY <1>2, <2>3, <2>5
  <2>9. \A i \in 2..n : d \in Transfer(t[i], {d})
    BY <1>2, <2>3, <2>6
  <2> QED BY <2>2, <2>3, <2>4, <2>7, <2>8, <2>9 DEF CarriedOut
<1>4. CASE \A n \in 1..m : q[n] # b
  <2> DEFINE n == m + 1
             t == [i \in 1..n |-> IF i = n THEN b ELSE q[i]]
  <2>1. n \in Nat \ {0} /\ \A i \in 1..n : i # n => i \in 1..m
    OBVIOUS
  <2>2. t \in [1..n -> Reachable] /\ t[n] = b /\ \A i \in 1..m : t[i] = q[i]
    BY <2>1
  <2>3. IsInjective(t)
    BY <1>2, <1>4, <2>1 DEF IsInjective
  <2>4. \A i \in 1..n-1 : (i = m \/ i \in 1..m-1) /\ i \in 1..m /\ (i \in 1..m-1 => i+1 \in 1..m)
    OBVIOUS
  <2>5. \A i \in 2..n : i = n \/ (i \in 2..m /\ i \in 1..m)
    OBVIOUS
  <2>6. m + 1 = n /\ 1 \in 1..m
    OBVIOUS
  <2> HIDE DEF t, n
  <2>7. d \in cfg.gen[t[1]]
    BY <1>2, <2>2, <2>6
  <2>8. \A i \in 1..n-1 : t[i+1] \in cfg.succ[t[i]]
    BY <1>2, <2>2, <2>4, <2>6
  <2>9. \A i \in 2..n : d \in Transfer(t[i], {d})
    BY <1>2, <2>2, <2>5
  <2> QED BY <2>1, <2>2, <2>3, <2>7, <2>8, <2>9 DEF CarriedOut
<1> QED BY <1>3, <1>4

LEMMA CarriedFromHere ==
  ASSUME NEW b \in Reachable, NEW d \in cfg.gen[b]
  PROVE  CarriedOut(b, d)
<1> DEFINE q == [i \in 1..1 |-> b]
<1>1. q \in [1..1 -> Reachable] /\ IsInjective(q) /\ q[1] = b
  BY DEF IsInjective
<1> HIDE DEF q
<1>2. 1 \in Nat \ {0} /\ 1..1-1 = {} /\ 2..1 = {}
  OBVIOUS
<1> QED BY <1>1, <1>2 DEF CarriedOut

LEMMA IterateOnPaths == ASSUME Inv, OutOnPaths, Iterate PROVE OutOnPaths'
<1> DEFINE b == Last(worklist)
<1>1. /\ b \in Reachable /\ b \in Block /\ cfg' = cfg
      /\ outSets' = [outSets EXCEPT ![b] = Transfer(b, Meet(b))]
  BY IterateFacts
<1> HIDE DEF b
<1>2. \A c, d : CarriedOut(c, d) => CarriedOut(c, d)'
  <2>1. Reachable' = Reachable
    BY <1>1 DEF Reachable
  <2>2. \A c, in : Transfer(c, in)' = Transfer(c, in)
    BY <1>1 DEF Transfer
  <2> QED BY <1>1, <2>1, <2>2 DEF CarriedOut
<1>3. cfg \in Problem /\ outSets \in [Block -> SUBSET Def]
  BY DEF Inv, TypeOK
<1>4. ASSUME NEW d \in Transfer(b, Meet(b)) PROVE CarriedOut(b, d)
  <2>1. CASE d \in cfg.gen[b]
    BY <1>1, <2>1, CarriedFromHere
  <2>2. CASE d \notin cfg.gen[b]
    <3>1. d \in Meet(b) /\ d \in Transfer(b, {d})
      BY <2>2 DEF Transfer
    <3>2. PICK p \in Predecessors(b) : d \in outSets[p]
      BY <3>1 DEF Meet
    <3>3. p \in Block /\ b \in cfg.succ[p]
      BY DEF Predecessors
    <3> QED BY <1>1, <1>3, <3>1, <3>2, <3>3, CarriedOn DEF OutOnPaths
  <2> QED BY <2>1, <2>2
<1>5. ASSUME NEW c \in Block, NEW d \in outSets'[c] PROVE CarriedOut(c, d)
  BY <1>1, <1>3, <1>4 DEF OutOnPaths
<1> QED BY <1>2, <1>5 DEF OutOnPaths

(* A path without repetition has no more blocks than there are.              *)
LEMMA CarriedIsOnPath ==
  ASSUME cfg \in Problem, NEW b, NEW d \in Def, CarriedOut(b, d)
  PROVE  d \in MeetOverPaths(b)
<1>1. PICK m \in Nat \ {0} : \E q \in [1..m -> Reachable] :
        /\ IsInjective(q) /\ q[m] = b
        /\ d \in cfg.gen[q[1]]
        /\ \A i \in 1..m-1 : q[i+1] \in cfg.succ[q[i]]
        /\ \A i \in 2..m : d \in Transfer(q[i], {d})
  BY DEF CarriedOut
<1>2. PICK q \in [1..m -> Reachable] :
        /\ IsInjective(q) /\ q[m] = b
        /\ d \in cfg.gen[q[1]]
        /\ \A i \in 1..m-1 : q[i+1] \in cfg.succ[q[i]]
        /\ \A i \in 2..m : d \in Transfer(q[i], {d})
  BY <1>1
<1>3. q \in Seq(Reachable) /\ Len(q) = m
  <2>1. q \in Seq(Reachable)
    BY SeqDef
  <2>2. DOMAIN q = 1..Len(q) /\ Len(q) \in Nat
    BY <2>1, LenProperties
  <2> QED BY <2>1, <2>2
<1>4. q # <<>>
  BY <1>3, EmptySeq
<1>5. m <= Cardinality(Block)
  <2>1. IsFiniteSet(Reachable) /\ Reachable \subseteq Block
    BY ReachableClosed
  <2>2. q \in Injection(1..m, Reachable)
    <3>1. \A i, j \in 1..m : q[i] = q[j] => i = j
      BY <1>2 DEF IsInjective
    <3> QED BY <2>1, <3>1, Fun_IsInj
  <2>3. Cardinality(1..m) <= Cardinality(Reachable)
    BY <2>1, <2>2, FS_Injection
  <2>4. Cardinality(1..m) = m
    BY FS_Interval
  <2>5. /\ Cardinality(Reachable) <= Cardinality(Block)
        /\ Cardinality(Reachable) \in Nat /\ Cardinality(Block) \in Nat
    BY <2>1, BlockAssumption, FS_Subset, FS_CardinalityType
  <2> QED BY <2>3, <2>4, <2>5
<1>6. Cardinality(Block) \in Nat
  BY BlockAssumption, FS_CardinalityType
<1>7. q \in SeqOf(Reachable, Cardinality(Block))
  <2>1. m \in 0..Cardinality(Block)
    BY <1>5, <1>6
  <2> QED BY <2>1 DEF SeqOf
<1>8. Carries(q, d)
  BY <1>2, <1>3 DEF Carries
<1> QED BY <1>2, <1>3, <1>4, <1>7, <1>8 DEF MeetOverPaths

(* At a fixed point a definition stays on its path: there is no first block   *)
(* of the path that does not let it out.                                    *)
LEMMA PathIsFollowed ==
  ASSUME Inv, IsFixpoint, NEW m \in Nat \ {0}, NEW q \in [1..m -> Reachable], NEW d,
         d \in cfg.gen[q[1]],
         \A i \in 1..m-1 : q[i+1] \in cfg.succ[q[i]],
         \A i \in 2..m : d \in Transfer(q[i], {d})
  PROVE  d \in outSets[q[m]]
<1> DEFINE Lost == {i \in 1..m : d \notin outSets[q[i]]}
<1>1. SUFFICES ASSUME Lost # {} PROVE FALSE
  <2>1. m \in 1..m
    OBVIOUS
  <2> QED BY <2>1
<1>2. Lost \subseteq Nat
  OBVIOUS
<1>3. PICK i \in Lost : \A j \in Lost : ~(<<j, i>> \in OpToRel(<, Nat))
  BY <1>1, <1>2, NatLessThanWellFounded, WFMin
<1>4. i \in Nat /\ \A j \in Lost : j \in Nat /\ ~(j < i)
  BY <1>3, <1>2 DEF OpToRel
<1>5. i \in 1..m /\ d \notin outSets[q[i]] /\ q[i] \in Reachable
  OBVIOUS
<1>6. outSets[q[i]] = Transfer(q[i], Meet(q[i]))
  BY <1>5 DEF IsFixpoint
<1>7. CASE i = 1
  BY <1>5, <1>6, <1>7 DEF Transfer
<1>8. CASE i # 1
  <2>1. i \in 2..m /\ i-1 \in 1..m-1 /\ i-1 \in 1..m /\ i-1 < i /\ (i-1)+1 = i
    BY <1>5, <1>8
  <2>2. d \in outSets[q[i-1]]
    BY <1>4, <2>1
  <2>3. q[i] \in cfg.succ[q[i-1]]
    BY <2>1
  <2>4. q[i-1] \in Block
    BY <2>1 DEF Reachable
  <2>5. d \in Meet(q[i])
    BY <2>2, <2>3, <2>4 DEF Meet, Predecessors
  <2>6. d \in Transfer(q[i], {d})
    BY <2>1
  <2> QED BY <1>5, <1>6, <2>5, <2>6 DEF Transfer
<1> QED BY <1>7, <1>8

(* For every finite graph, every set of definitions and every GEN and KILL:   *)
(* where the solver stops, OUT holds the definitions that some path from the  *)
(* entry carries along, and no others (solver.rs:29, "meet over all paths").  *)
THEOREM SolvesMeetOverPaths == Spec => []SolvedIsMeetOverPaths
<1>1. Init => OutOnPaths
  BY DEF Init, OutOnPaths
<1>2. Inv /\ OutOnPaths /\ [Iterate]_vars => OutOnPaths'
  <2>1. ASSUME UNCHANGED vars PROVE \A b, d : CarriedOut(b, d) => CarriedOut(b, d)'
    <3>1. cfg' = cfg
      BY <2>1 DEF vars
    <3>2. Reachable' = Reachable /\ \A b, in : Transfer(b, in)' = Transfer(b, in)
      BY <3>1 DEF Reachable, Transfer
    <3>3. ASSUME NEW b, NEW d PROVE CarriedOut(b, d)' = CarriedOut(b, d)
      BY <3>1, <3>2 DEF CarriedOut
    <3> QED BY <3>3
  <2>2. OutOnPaths /\ UNCHANGED vars => OutOnPaths'
    BY <2>1 DEF vars, OutOnPaths
  <2> QED BY <2>2, IterateOnPaths
<1>3. Inv /\ OutOnPaths => SolvedIsMeetOverPaths
  <2>1. SUFFICES ASSUME Inv, OutOnPaths, Done, NEW b \in Block
                 PROVE  outSets[b] = MeetOverPaths(b)
    BY DEF SolvedIsMeetOverPaths
  <2>2. cfg \in Problem /\ outSets[b] \in SUBSET Def
    BY <2>1 DEF Inv, TypeOK
  <2>3. IsFixpoint
    BY <2>1, FixpointWhenDone DEF SolvedAtFixpoint
  <2>4. outSets[b] \subseteq MeetOverPaths(b)
    BY <2>1, <2>2, CarriedIsOnPath DEF OutOnPaths
  <2>5. ASSUME NEW d \in MeetOverPaths(b) PROVE d \in outSets[b]
    <3>1. PICK q \in SeqOf(Reachable, Cardinality(Block)) \ {<<>>} :
                 q[Len(q)] = b /\ Carries(q, d)
      BY DEF MeetOverPaths
    <3>2. q \in Seq(Reachable)
      <4>1. Cardinality(Block) \in Nat
        BY BlockAssumption, FS_CardinalityType
      <4>2. PICK n \in 0..Cardinality(Block) : q \in [1..n -> Reachable]
        BY DEF SeqOf
      <4>3. n \in Nat
        BY <4>1
      <4> QED BY <4>2, <4>3, SeqDef
    <3>3. Len(q) \in Nat \ {0} /\ q \in [1..Len(q) -> Reachable]
      BY <3>2, EmptySeq, LenProperties
    <3> QED BY <2>1, <2>3, <3>1, <3>3, PathIsFollowed DEF Carries
  <2> QED BY <2>4, <2>5
<1>4. Spec => Init /\ [][Iterate]_vars
  BY PTL DEF Spec
<1> QED BY <1>1, <1>2, <1>3, <1>4, InvariantHolds, PTL
=============================================================================
