---------------------------- MODULE DefUseProofs ----------------------------
(***************************************************************************)
(* What CfgBuilder and DefUse guarantee for every function body: the blocks  *)
(* list its instructions in order and stand in a chain to the exit, no use   *)
(* is missed, and what is reported beyond the truth is of the two kinds the  *)
(* properties name.                                                         *)
(*                                                                         *)
(* The solver is taken from SolverProofs: its invariant holds of the         *)
(* instance here from the moment the problem is set up, so where it stops    *)
(* the dataflow equations hold on every block, and it is below every         *)
(* solution of them. That a definition gets through from block to block is   *)
(* shown by looking at the first block of the chain where it is missing.     *)
(***************************************************************************)
EXTENDS DefUse, FiniteSetTheorems, SequenceTheorems, WellFoundedInduction, TLAPS

Proven == INSTANCE SolverProofs
  WITH Block <- Node, Def <- Position, Problems <- {}, cfg <- problem

LEMMA LeastOf == ASSUME NEW S \in SUBSET Nat, S # {}
                 PROVE  \E x \in S : \A y \in S : x <= y
<1>1. PICK x \in S : \A y \in S : ~(<<y, x>> \in OpToRel(<, Nat))
  BY NatLessThanWellFounded, WFMin
<1>2. ASSUME NEW y \in S PROVE x <= y
  <2>1. x \in Nat /\ y \in Nat
    OBVIOUS
  <2>2. ~(y < x)
    BY <1>1, <2>1 DEF OpToRel
  <2> QED BY <2>1, <2>2
<1> QED BY <1>2

-----------------------------------------------------------------------------
(* The blocks list the positions.                                           *)

Run(first, n) == [j \in 1..n |-> first + j]
End(bl, k) == IF k = 0 THEN 0 ELSE Last(bl[k])

(* The blocks of bl, one behind the other, are the positions 1..n in order.  *)
Lists(bl, n) ==
  /\ bl \in Seq(Seq(Nat)) /\ n \in Nat /\ Len(bl) <= n
  /\ \A k \in 0..Len(bl) : End(bl, k) \in Nat
  /\ End(bl, Len(bl)) = n
  /\ \A k \in 1..Len(bl) : bl[k] # <<>> /\ bl[k] = Run(End(bl, k-1), Len(bl[k]))
  /\ \A j, k \in 0..Len(bl) : j < k => End(bl, j) < End(bl, k)
  /\ \A i \in 1..n : \E k \in 1..Len(bl) : End(bl, k-1) < i /\ i <= End(bl, k)

LEMMA RunIsSeq == ASSUME NEW n \in Nat, NEW m \in Nat
                  PROVE  /\ Run(n, m) \in Seq(Nat) /\ Len(Run(n, m)) = m
                         /\ \A j \in 1..m : Run(n, m)[j] = n + j
<1>1. Run(n, m) \in [1..m -> Nat]
  BY DEF Run
<1>2. Run(n, m) \in Seq(Nat)
  BY <1>1, SeqDef
<1>3. Len(Run(n, m)) = m
  BY <1>1, <1>2, LenProperties
<1> QED BY <1>2, <1>3 DEF Run

LEMMA ListsMore ==
  ASSUME NEW bl, NEW n, Lists(bl, n), NEW m \in Nat \ {0}
  PROVE  Lists(Append(bl, Run(n, m)), n + m)
<1> DEFINE c == Run(n, m)
           new == Append(bl, c)
           l == Len(bl)
<1>1. bl \in Seq(Seq(Nat)) /\ n \in Nat /\ l \in Nat /\ l <= n
  BY LenProperties DEF Lists
<1>2. c \in Seq(Nat) /\ Len(c) = m /\ c[m] = n + m
  <2>1. m \in 1..m /\ m \in Nat
    OBVIOUS
  <2> QED BY <1>1, <2>1, RunIsSeq
<1>3. /\ new \in Seq(Seq(Nat)) /\ Len(new) = l + 1
      /\ \A k \in 1..l : new[k] = bl[k]
      /\ new[l+1] = c
  BY <1>1, <1>2, AppendProperties
<1>4. /\ \A k \in 0..l : End(new, k) = End(bl, k)
      /\ End(new, l) = n /\ End(new, l+1) = n + m
  <2>1. ASSUME NEW k \in 0..l PROVE End(new, k) = End(bl, k)
    BY <1>1, <1>3 DEF End
  <2>2. End(bl, l) = n
    BY DEF Lists
  <2>3. l \in 0..l /\ l + 1 # 0
    BY <1>1
  <2>4. End(new, l+1) = n + m
    BY <1>2, <1>3, <2>3 DEF End, Last
  <2> QED BY <2>1, <2>2, <2>3, <2>4
<1>5. /\ \A k \in 0..l : End(bl, k) \in Nat
      /\ \A k \in 1..l : bl[k] # <<>> /\ bl[k] = Run(End(bl, k-1), Len(bl[k]))
      /\ \A j, k \in 0..l : j < k => End(bl, j) < End(bl, k)
      /\ \A i \in 1..n : \E k \in 1..l : End(bl, k-1) < i /\ i <= End(bl, k)
      /\ End(bl, l) = n
  BY DEF Lists
<1>6. \A k \in 0..l+1 : k \in 0..l \/ k = l + 1
  BY <1>1
<1> HIDE DEF new, c, l
<1>7. \A k \in 0..Len(new) : End(new, k) \in Nat
  <2>1. n + m \in Nat
    BY <1>1
  <2> QED BY <1>3, <1>4, <1>5, <1>6, <2>1
<1>8. ASSUME NEW k \in 1..l+1
      PROVE  new[k] # <<>> /\ new[k] = Run(End(new, k-1), Len(new[k]))
  <2>1. CASE k \in 1..l
    <3>1. k-1 \in 0..l
      BY <1>1, <2>1
    <3> QED BY <1>3, <1>4, <1>5, <2>1, <3>1
  <2>2. CASE k = l + 1
    <3>1. k - 1 = l /\ c # <<>>
      BY <1>1, <1>2, <2>2, EmptySeq
    <3> QED BY <1>2, <1>3, <1>4, <2>2, <3>1 DEF c
  <2> QED BY <1>1, <2>1, <2>2
<1>9. ASSUME NEW j \in 0..l+1, NEW k \in 0..l+1, j < k
      PROVE  End(new, j) < End(new, k)
  <2>1. j \in 0..l
    BY <1>1, <1>9
  <2>2. CASE k \in 0..l
    BY <1>4, <1>5, <1>9, <2>1, <2>2
  <2>3. CASE k = l + 1
    <3>1. (j < l \/ j = l) /\ l \in 0..l
      BY <1>1, <2>1
    <3>2. End(bl, j) < End(bl, l) \/ End(bl, j) = End(bl, l)
      BY <1>5, <2>1, <3>1
    <3>3. End(bl, j) \in Nat
      BY <1>5, <2>1
    <3> QED BY <1>1, <1>4, <1>5, <2>1, <2>3, <3>2, <3>3
  <2> QED BY <1>6, <2>2, <2>3
<1>10. ASSUME NEW i \in 1..n+m
       PROVE  \E k \in 1..l+1 : End(new, k-1) < i /\ i <= End(new, k)
  <2>1. CASE i \in 1..n
    <3>1. PICK k \in 1..l : End(bl, k-1) < i /\ i <= End(bl, k)
      BY <1>5, <2>1
    <3>2. k \in 0..l /\ k-1 \in 0..l /\ k \in 1..l+1
      BY <1>1
    <3> QED BY <1>4, <3>1, <3>2
  <2>2. CASE i \notin 1..n
    <3>1. n < i /\ i <= n + m /\ l+1 \in 1..l+1 /\ (l+1)-1 = l
      BY <1>1, <2>2
    <3> QED BY <1>4, <3>1
  <2> QED BY <2>1, <2>2
<1>11. n + m \in Nat /\ Len(new) <= n + m
  BY <1>1, <1>3
<1> QED BY <1>3, <1>4, <1>7, <1>8, <1>9, <1>10, <1>11 DEF Lists, new, c

-----------------------------------------------------------------------------
(* The blocks stand in a chain.                                             *)

NodeOf(k) == IF k = 0 THEN Entry ELSE k + 1

Graph(n, ed, last) ==
  /\ n \in Nat /\ last = NodeOf(n)
  /\ \A k \in 1..n : <<NodeOf(k-1), NodeOf(k)>> \in ed
  /\ \A e \in ed : \/ \E k \in 1..n : e = <<NodeOf(k-1), NodeOf(k)>>
                   \/ \E k \in 0..n : e = <<NodeOf(k), Exit>>

LEMMA GraphMore ==
  ASSUME NEW n, NEW ed, NEW last, Graph(n, ed, last)
  PROVE  Graph(n + 1, ed \cup {<<last, n + 2>>}, n + 2)
<1>1. n \in Nat /\ NodeOf(n+1) = n + 2 /\ NodeOf(n) = last
  BY DEF Graph, NodeOf
<1>2. /\ \A k \in 1..n+1 : k \in 1..n \/ k = n + 1
      /\ (n+1)-1 = n /\ n+1 \in 1..n+1
      /\ \A k \in 1..n : k \in 1..n+1
      /\ \A k \in 0..n : k \in 0..n+1
  BY <1>1
<1> QED BY <1>1, <1>2 DEF Graph

LEMMA GraphExit ==
  ASSUME NEW n, NEW ed, NEW last, Graph(n, ed, last)
  PROVE  Graph(n, ed \cup {<<last, Exit>>}, last)
<1>1. n \in 0..n
  BY DEF Graph
<1> QED BY <1>1 DEF Graph

-----------------------------------------------------------------------------
BuildInv ==
  /\ body \in Body /\ ip \in 1..Len(body)+1 /\ built \in BOOLEAN
  /\ Lists(blocks, EndOf(Len(blocks)))
  /\ current \in Seq(Nat) /\ current = Run(EndOf(Len(blocks)), Len(current))
  /\ EndOf(Len(blocks)) + Len(current) = ip - 1
  /\ Graph(Len(blocks), edges, prev)
  /\ built => ip = Len(body) + 1 /\ current = <<>> /\ <<prev, Exit>> \in edges

(* A body is a list of instructions no longer than MaxLength.                *)
LEMMA BodyIsSeq == ASSUME body \in Body
                   PROVE  body \in Seq(Instr) /\ Len(body) \in 0..MaxLength
                          /\ DOMAIN body = 1..Len(body)
BY BodyAssumption, LengthAssumption, LenProperties

LEMMA InitBuild == BuildInit => BuildInv
<1> SUFFICES ASSUME BuildInit PROVE BuildInv
  OBVIOUS
<1>1. body \in Body /\ Len(body) \in Nat
  BY BodyIsSeq, LengthAssumption DEF BuildInit
<1>2. blocks = <<>> /\ current = <<>> /\ <<>> \in Seq(Nat) /\ <<>> \in Seq(Seq(Nat)) /\ Len(<<>>) = 0
  BY EmptySeq DEF BuildInit
<1>3. EndOf(0) = 0 /\ End(<<>>, 0) = 0
  BY DEF EndOf, End
<1>4. Lists(<<>>, 0)
  <2>1. 1..0 = {} /\ \A k \in 0..0 : k = 0
    OBVIOUS
  <2> QED BY <1>2, <1>3, <2>1 DEF Lists
<1>5. Run(0, 0) = <<>>
  BY <1>2, RunIsSeq, EmptySeq
<1>6. Graph(0, edges, prev)
  BY DEF BuildInit, Graph, NodeOf
<1>7. ip \in 1..Len(body)+1 /\ 0 + 0 = ip - 1 /\ built = FALSE
  BY <1>1 DEF BuildInit
<1> QED BY <1>1, <1>2, <1>3, <1>4, <1>5, <1>6, <1>7 DEF BuildInv

(* One block with the next m positions is added.                            *)
LEMMA AddOne ==
  ASSUME NEW n, Lists(blocks, n), Graph(Len(blocks), edges, prev),
         NEW m \in Nat \ {0}, NEW targets \in {{}, {Exit}},
         AddBlocks(<<Run(n, m)>>, targets)
  PROVE  /\ Lists(blocks', n + m) /\ Graph(Len(blocks'), edges', prev') /\ current' = <<>>
         /\ targets = {Exit} => <<prev', Exit>> \in edges'
<1> DEFINE l == Len(blocks)
           first == l + 2
<1>1. blocks \in Seq(Seq(Nat)) /\ n \in Nat /\ l \in Nat
  BY LenProperties DEF Lists
<1>2. Run(n, m) \in Seq(Nat)
  BY <1>1, RunIsSeq
<1>3. blocks \o <<Run(n, m)>> = Append(blocks, Run(n, m))
  BY <1>1, <1>2, AppendIsConcat
<1>4. Len(Append(blocks, Run(n, m))) = l + 1
  BY <1>1, <1>2, AppendProperties
<1>5. Len(<<Run(n, m)>>) = 1 /\ first + 1 - 1 = first /\ first..first-1 = {}
  BY <1>1
<1>6. /\ blocks' = blocks \o <<Run(n, m)>>
      /\ edges' = edges \cup {<<prev, first>>} \cup {<<first, t>> : t \in targets}
      /\ prev' = first /\ current' = <<>>
  BY <1>1, <1>5 DEF AddBlocks
<1>7. Lists(blocks', n + m)
  <2>1. blocks' = Append(blocks, Run(n, m))
    BY <1>3, <1>6
  <2>2. Lists(Append(blocks, Run(n, m)), n + m)
    BY ListsMore
  <2> QED BY <2>1, <2>2
<1>8. Graph(l + 1, edges \cup {<<prev, first>>}, first)
  BY GraphMore
<1>9. CASE targets = {}
  BY <1>3, <1>4, <1>6, <1>7, <1>8, <1>9
<1>10. CASE targets = {Exit}
  <2>1. edges' = (edges \cup {<<prev, first>>}) \cup {<<first, Exit>>}
    BY <1>6, <1>10
  <2>2. Graph(l + 1, edges', first)
    BY <1>8, <2>1, GraphExit
  <2> QED BY <1>3, <1>4, <1>6, <1>7, <2>1, <2>2
<1> QED BY <1>9, <1>10

(* A block with the next m positions and one with the position behind them.  *)
LEMMA AddTwo ==
  ASSUME NEW n, Lists(blocks, n), Graph(Len(blocks), edges, prev), NEW m \in Nat \ {0},
         AddBlocks(<<Run(n, m), Run(n + m, 1)>>, {})
  PROVE  Lists(blocks', n + m + 1) /\ Graph(Len(blocks'), edges', prev') /\ current' = <<>>
<1> DEFINE l == Len(blocks)
           first == l + 2
           one == Append(blocks, Run(n, m))
<1>1. blocks \in Seq(Seq(Nat)) /\ n \in Nat /\ l \in Nat
  BY LenProperties DEF Lists
<1>2. Run(n, m) \in Seq(Nat) /\ Run(n + m, 1) \in Seq(Nat)
  BY <1>1, RunIsSeq
<1>3. one \in Seq(Seq(Nat)) /\ Len(one) = l + 1
  BY <1>1, <1>2, AppendProperties
<1>4. blocks \o <<Run(n, m), Run(n + m, 1)>> = Append(one, Run(n + m, 1))
  BY <1>1, <1>2
<1>5. Len(Append(one, Run(n + m, 1))) = l + 2
  BY <1>1, <1>2, <1>3, AppendProperties
<1>6. Len(<<Run(n, m), Run(n + m, 1)>>) = 2 /\ first + 2 - 1 = first + 1
      /\ first..(first+1)-1 = {first}
  BY <1>1
<1>7. /\ blocks' = blocks \o <<Run(n, m), Run(n + m, 1)>>
      /\ edges' = edges \cup {<<prev, first>>} \cup {<<first, first + 1>>}
      /\ prev' = first + 1 /\ current' = <<>>
  <2> DEFINE two == <<Run(n, m), Run(n + m, 1)>>
             top == first + Len(two) - 1
  <2>1. /\ blocks' = blocks \o two
        /\ edges' = edges \cup {<<prev, first>>} \cup {<<k, k + 1>> : k \in first..top-1}
                          \cup {<<top, t>> : t \in {}}
        /\ prev' = top /\ current' = <<>>
    BY DEF AddBlocks
  <2>2. top = first + 1 /\ first..top-1 = {first}
    BY <1>1, <1>6
  <2> HIDE DEF top, two, first
  <2>3. {<<k, k + 1>> : k \in first..top-1} = {<<first, first + 1>>}
    BY <2>2
  <2>4. {<<top, t>> : t \in {}} = {}
    OBVIOUS
  <2> QED BY <2>1, <2>2, <2>3, <2>4 DEF two
<1>8. Lists(one, n + m)
  BY ListsMore
<1>9. Lists(blocks', n + m + 1)
  <2>1. Lists(Append(one, Run(n + m, 1)), (n + m) + 1)
    BY <1>8, ListsMore
  <2> QED BY <1>4, <1>7, <2>1
<1>10. Graph(l + 1, edges \cup {<<prev, first>>}, first)
  BY GraphMore
<1>11. Graph(l + 2, edges', first + 1)
  <2>1. (l + 1) + 1 = l + 2 /\ (l + 1) + 2 = first + 1
    BY <1>1
  <2>2. Graph((l + 1) + 1, (edges \cup {<<prev, first>>}) \cup {<<first, (l + 1) + 2>>}, (l + 1) + 2)
    BY <1>10, GraphMore
  <2> QED BY <1>7, <2>1, <2>2
<1> QED BY <1>4, <1>5, <1>7, <1>9, <1>11

LEMMA RunMore == ASSUME NEW n \in Nat, NEW m \in Nat
                 PROVE  Append(Run(n, m), n + m + 1) = Run(n, m + 1)
<1>1. Run(n, m) \in Seq(Nat) /\ Len(Run(n, m)) = m /\ \A j \in 1..m : Run(n, m)[j] = n + j
  BY RunIsSeq
<1>2. /\ Append(Run(n, m), n + m + 1) \in Seq(Nat)
      /\ Len(Append(Run(n, m), n + m + 1)) = m + 1
      /\ \A j \in 1..m : Append(Run(n, m), n + m + 1)[j] = n + j
      /\ Append(Run(n, m), n + m + 1)[m + 1] = n + m + 1
  <2>1. n + m + 1 \in Nat
    OBVIOUS
  <2> QED BY <1>1, <2>1, AppendProperties
<1>3. /\ Run(n, m + 1) \in Seq(Nat) /\ Len(Run(n, m + 1)) = m + 1
      /\ \A j \in 1..m+1 : Run(n, m + 1)[j] = n + j
  BY RunIsSeq
<1> DEFINE s == Append(Run(n, m), n + m + 1)
           t == Run(n, m + 1)
<1> HIDE DEF s, t
<1>4. s \in Seq(Nat) /\ t \in Seq(Nat) /\ Len(s) = Len(t)
  BY <1>2, <1>3 DEF s, t
<1>5. \A j \in 1..Len(s) : s[j] = t[j]
  <2> SUFFICES ASSUME NEW j \in 1..m+1 PROVE s[j] = t[j]
    BY <1>2 DEF s
  <2>1. t[j] = n + j
    BY <1>3 DEF t
  <2>2. CASE j \in 1..m
    BY <1>2, <2>1, <2>2 DEF s
  <2>3. CASE j = m + 1
    <3>1. s[m + 1] = n + m + 1
      BY <1>2 DEF s
    <3> QED BY <2>1, <2>3, <3>1
  <2> QED BY <2>2, <2>3
<1>6. s = t
  BY <1>4, <1>5, SeqEqual
<1> QED BY <1>6 DEF s, t

LEMMA StepBuild == ASSUME BuildInv, BuildStep PROVE BuildInv'
<1> DEFINE n == EndOf(Len(blocks))
           m == Len(current)
<1>1. /\ body \in Body /\ Lists(blocks, n) /\ n \in Nat
      /\ current \in Seq(Nat) /\ m \in Nat /\ current = Run(n, m)
      /\ n + m = ip - 1 /\ Graph(Len(blocks), edges, prev)
      /\ ip \in 1..Len(body)+1 /\ Len(body) \in Nat /\ ip \in Nat
  BY BodyIsSeq, LenProperties, LengthAssumption DEF BuildInv, Lists
<1>2. body' = body /\ built = FALSE
  BY DEF BuildInv, BuildStep, Branch, Return, Jump, Plain, Flush, Reading
<1>3. \A k : Lists(blocks', k) => EndOf(Len(blocks))' = k
  BY DEF Lists, End, EndOf
<1>4. ASSUME NEW k \in Nat PROVE Run(k, 0) = <<>>
  <2>1. 0 \in Nat
    OBVIOUS
  <2>2. Run(k, 0) \in Seq(Nat) /\ Len(Run(k, 0)) = 0
    BY <2>1, RunIsSeq
  <2> QED BY <2>2, EmptySeq
<1>5. /\ Append(current, ip) = Run(n, m + 1) /\ ip = n + m + 1
      /\ <<ip>> = Run(n + m, 1)
  <2>1. ip = n + m + 1
    BY <1>1
  <2>2. <<ip>> = Run(n + m, 1)
    <3>1. <<ip>> \in Seq(Nat) /\ Len(<<ip>>) = 1 /\ <<ip>>[1] = ip
      BY <1>1
    <3>2. /\ Run(n + m, 1) \in Seq(Nat) /\ Len(Run(n + m, 1)) = 1
          /\ Run(n + m, 1)[1] = (n + m) + 1
      <4>1. n + m \in Nat /\ 1 \in Nat /\ 1 \in 1..1
        BY <1>1
      <4> QED BY <4>1, RunIsSeq
    <3>3. \A j \in 1..1 : j = 1
      OBVIOUS
    <3> QED BY <2>1, <3>1, <3>2, <3>3, SeqEqual
  <2> QED BY <1>1, <2>1, <2>2, RunMore
<1>6. current = <<>> <=> m = 0
  BY <1>1, EmptySeq
<1> HIDE DEF n, m
(* After a cut: k positions are in blocks and none is pending.               *)
<1>7. ASSUME NEW k, Lists(blocks', k), Graph(Len(blocks'), edges', prev'), current' = <<>>,
             k = ip' - 1, ip' \in 1..Len(body)+1, built' \in BOOLEAN,
             built' => ip' = Len(body) + 1 /\ <<prev', Exit>> \in edges'
      PROVE  BuildInv'
  <2>1. k \in Nat /\ k + 0 = ip' - 1
    BY <1>1, <1>7
  <2>2. Len(current') = 0 /\ current' \in Seq(Nat) /\ Run(k, 0) = <<>>
    BY <1>4, <1>7, <2>1, EmptySeq
  <2>3. EndOf(Len(blocks))' = k
    BY <1>3, <1>7
  <2> QED BY <1>1, <1>2, <1>7, <2>1, <2>2, <2>3 DEF BuildInv
<1>8. ASSUME NEW kinds, Reading(kinds)
      PROVE  ip' = ip + 1 /\ ip' \in 1..Len(body)+1 /\ built' = FALSE /\ n + m + 1 = ip' - 1
  <2>1. ip' = ip + 1 /\ ip <= Len(body) /\ built' = FALSE
    BY <1>2, <1>8 DEF Reading
  <2> QED BY <1>1, <1>5, <2>1
<1>9. CASE Branch
  <2>1. AddBlocks(IF current = <<>> THEN <<<<ip>>>> ELSE <<current, <<ip>>>>, {})
        /\ ip' \in 1..Len(body)+1 /\ built' = FALSE /\ n + m + 1 = ip' - 1
    BY <1>8, <1>9 DEF Branch
  <2>2. CASE m = 0
    <3>1. n + m = n /\ n + 1 = ip' - 1
      <4>1. n + m = n
        BY <1>1, <2>2
      <4> QED BY <2>1, <4>1
    <3>2. AddBlocks(<<Run(n, 1)>>, {})
      BY <1>5, <1>6, <2>1, <2>2, <3>1
    <3>3. Lists(blocks', n + 1) /\ Graph(Len(blocks'), edges', prev') /\ current' = <<>>
      BY <1>1, <3>2, AddOne
    <3> QED BY <1>7, <2>1, <3>1, <3>3
  <2>3. CASE m # 0
    <3>1. AddBlocks(<<Run(n, m), Run(n + m, 1)>>, {})
      BY <1>1, <1>5, <1>6, <2>1, <2>3
    <3>2. Lists(blocks', n + m + 1) /\ Graph(Len(blocks'), edges', prev') /\ current' = <<>>
      BY <1>1, <2>3, <3>1, AddTwo
    <3> QED BY <1>7, <2>1, <3>2
  <2> QED BY <2>2, <2>3
<1>10. ASSUME NEW targets \in {{}, {Exit}}, NEW kinds, Reading(kinds),
              AddBlocks(<<Append(current, ip)>>, targets)
       PROVE  BuildInv'
  <2>1. n + (m + 1) = ip' - 1 /\ m + 1 \in Nat \ {0}
    <3>1. n + m + 1 = ip' - 1
      BY <1>8, <1>10
    <3> QED BY <1>1, <3>1
  <2>2. AddBlocks(<<Run(n, m + 1)>>, targets)
    BY <1>5, <1>10
  <2>3. Lists(blocks', n + (m + 1)) /\ Graph(Len(blocks'), edges', prev') /\ current' = <<>>
    BY <1>1, <2>1, <2>2, AddOne
  <2> QED BY <1>7, <1>8, <1>10, <2>1, <2>3
<1>11. CASE Return
  BY <1>10, <1>11 DEF Return
<1>12. CASE Jump
  BY <1>10, <1>12 DEF Jump
<1>13. CASE Plain
  <2>1. /\ current' = Run(n, m + 1) /\ blocks' = blocks /\ edges' = edges /\ prev' = prev
        /\ ip' \in 1..Len(body)+1 /\ built' = FALSE /\ n + m + 1 = ip' - 1
    BY <1>5, <1>8, <1>13 DEF Plain
  <2>2. current' \in Seq(Nat) /\ Len(current') = m + 1 /\ n + (m + 1) = ip' - 1
    <3>1. m + 1 \in Nat /\ n + (m + 1) = n + m + 1
      BY <1>1
    <3>2. Run(n, m + 1) \in Seq(Nat) /\ Len(Run(n, m + 1)) = m + 1
      BY <1>1, <3>1, RunIsSeq
    <3> QED BY <2>1, <3>1, <3>2
  <2>3. EndOf(Len(blocks))' = n
    BY <2>1 DEF EndOf, n
  <2> QED BY <1>1, <1>2, <2>1, <2>2, <2>3 DEF BuildInv
<1>14. CASE Flush
  <2>1. built' = TRUE /\ ip' = ip /\ ip = Len(body) + 1 /\ n + m = ip' - 1
    BY <1>1, <1>14 DEF Flush
  <2>2. CASE current # <<>> /\ AddBlocks(<<current>>, {Exit})
    <3>1. m \in Nat \ {0} /\ AddBlocks(<<Run(n, m)>>, {Exit})
      BY <1>1, <1>6, <2>2
    <3>2. /\ Lists(blocks', n + m) /\ Graph(Len(blocks'), edges', prev') /\ current' = <<>>
          /\ <<prev', Exit>> \in edges'
      BY <1>1, <3>1, AddOne
    <3> QED BY <1>1, <1>7, <2>1, <3>2
  <2>3. CASE current = <<>> /\ edges' = edges \cup {<<prev, Exit>>}
             /\ UNCHANGED <<blocks, prev, current>>
    <3>1. Graph(Len(blocks'), edges', prev')
      BY <1>1, <2>3, GraphExit
    <3>2. Lists(blocks', n) /\ n = ip' - 1
      BY <1>1, <1>6, <2>1, <2>3
    <3> QED BY <1>1, <1>7, <2>1, <2>3, <3>1, <3>2
  <2> QED BY <1>14, <2>2, <2>3 DEF Flush
<1> QED BY <1>9, <1>11, <1>12, <1>13, <1>14 DEF BuildStep

(* CfgBuilder's own properties follow.                                       *)
LEMMA BlocksHoldTheBody == ASSUME BuildInv PROVE NoInstructionLost
<1>1. /\ \A k \in 1..Len(blocks) : blocks[k] # <<>> /\ blocks[k] = Run(End(blocks, k-1), Len(blocks[k]))
      /\ current = Run(EndOf(Len(blocks)), Len(current))
      /\ EndOf(Len(blocks)) + Len(current) = ip - 1
  BY DEF BuildInv, Lists
<1> QED BY <1>1 DEF NoInstructionLost, Run, EndOf, End

-----------------------------------------------------------------------------
(* The finished graph.                                                      *)

(* Where the instruction of each position went.                             *)
LEMMA BlocksOfPositions ==
  ASSUME BuildInv, built
  PROVE  /\ Len(blocks) \in 0..MaxLength
         /\ \A i \in DOMAIN body : BlockOf(i) \in 2..Len(blocks)+1
         /\ \A n \in Node : ToSet(InstrsOf(n)) = {i \in DOMAIN body : BlockOf(i) = n}
         /\ \A i, j \in DOMAIN body : BlockOf(i) < BlockOf(j) => i < j
<1> DEFINE l == Len(blocks)
           e(k) == End(blocks, k)
<1>1. /\ Lists(blocks, Len(body)) /\ Len(body) \in 0..MaxLength /\ DOMAIN body = 1..Len(body)
      /\ MaxLength \in Nat
  <2>1. /\ Lists(blocks, EndOf(l)) /\ ip = Len(body) + 1 /\ current = <<>>
        /\ EndOf(l) + Len(current) = ip - 1
    BY DEF BuildInv
  <2>2. Len(body) \in 0..MaxLength /\ DOMAIN body = 1..Len(body) /\ MaxLength \in Nat
    BY BodyIsSeq, LengthAssumption DEF BuildInv
  <2>3. Len(current) = 0 /\ EndOf(l) \in Nat
    BY <2>1, EmptySeq DEF Lists
  <2>4. EndOf(l) = Len(body)
    BY <2>1, <2>2, <2>3
  <2> QED BY <2>1, <2>2, <2>4
<1>2. l \in Nat /\ l <= Len(body) /\ l = Len(blocks) /\ DOMAIN blocks = 1..l /\ \A k \in 1..l : blocks[k] \in Seq(Nat)
  BY <1>1, LenProperties, ElementOfSeq DEF Lists
<1>3. l \in 0..MaxLength
  BY <1>1, <1>2
<1>4. /\ \A k \in 0..l : e(k) \in Nat
      /\ \A k \in 1..l : blocks[k] # <<>> /\ blocks[k] = Run(e(k-1), Len(blocks[k]))
      /\ \A j, k \in 0..l : j < k => e(j) < e(k)
      /\ \A i \in 1..Len(body) : \E k \in 1..l : e(k-1) < i /\ i <= e(k)
      /\ e(l) = Len(body)
  BY <1>1 DEF Lists
<1> HIDE DEF e, l
<1>5. ASSUME NEW k \in 1..l PROVE ToSet(blocks[k]) = {i \in 1..Len(body) : e(k-1) < i /\ i <= e(k)}
  <2> DEFINE m == Len(blocks[k])
  <2>1. k-1 \in 0..l /\ k \in 0..l /\ k # 0
    BY <1>2
  <2>2. m \in Nat /\ DOMAIN blocks[k] = 1..m /\ m # 0
    BY <1>2, <1>4, LenProperties, EmptySeq
  <2>3. e(k-1) \in Nat /\ e(k) \in Nat /\ e(k) <= Len(body)
    <3>1. (k < l \/ k = l) /\ l \in 0..l
      BY <1>3
    <3>2. k < l => e(k) < e(l)
      BY <1>4, <2>1, <3>1
    <3> QED BY <1>1, <1>4, <2>1, <3>1, <3>2
  <2>4. \A j \in 1..m : blocks[k][j] = e(k-1) + j
    <3>1. blocks[k] = Run(e(k-1), m)
      BY <1>4
    <3> QED BY <2>2, <2>3, <3>1, RunIsSeq
  <2>5. e(k) = e(k-1) + m
    <3>1. e(k) = blocks[k][m]
      BY <2>1 DEF End, Last, e
    <3>2. m \in 1..m
      BY <2>2
    <3> QED BY <2>4, <3>1, <3>2
  <2> HIDE DEF m
  <2>6. ToSet(blocks[k]) = {e(k-1) + j : j \in 1..m}
    BY <2>2, <2>4 DEF ToSet
  <2>7. ASSUME NEW j \in 1..m
        PROVE  e(k-1) + j \in 1..Len(body) /\ e(k-1) < e(k-1) + j /\ e(k-1) + j <= e(k)
    BY <1>1, <2>2, <2>3, <2>5
  <2>8. ASSUME NEW i \in 1..Len(body), e(k-1) < i, i <= e(k)
        PROVE  i - e(k-1) \in 1..m /\ i = e(k-1) + (i - e(k-1))
    BY <1>1, <2>2, <2>3, <2>5, <2>8
  <2> QED BY <2>6, <2>7, <2>8
<1>6. /\ Node = 0..MaxLength+1 /\ \A k \in 1..l : k + 1 \in Node /\ (k + 1) - 1 = k
      /\ \A n \in Node : n - 1 \in 1..l <=> n \in 2..l+1
  BY <1>1, <1>3 DEF Node
<1>7. \A n \in Node : ToSet(InstrsOf(n)) = IF n - 1 \in 1..l THEN ToSet(blocks[n-1]) ELSE {}
  <2>1. ToSet(<<>>) = {}
    BY DEF ToSet
  <2> QED BY <1>2, <2>1 DEF InstrsOf
<1>8. ASSUME NEW i \in 1..Len(body)
      PROVE  \E k \in 1..l : /\ BlockOf(i) = k + 1 /\ e(k-1) < i /\ i <= e(k)
                             /\ \A n \in Node : i \in ToSet(InstrsOf(n)) <=> n = k + 1
  <2>1. PICK k \in 1..l : e(k-1) < i /\ i <= e(k)
    BY <1>4
  <2>2. ASSUME NEW j \in 1..l, e(j-1) < i, i <= e(j) PROVE j = k
    <3>1. j-1 \in 0..l /\ k-1 \in 0..l /\ j \in 0..l /\ k \in 0..l /\ (j < k \/ j = k \/ k < j)
      BY <1>2
    <3>2. e(j-1) \in Nat /\ e(k-1) \in Nat /\ e(j) \in Nat /\ e(k) \in Nat
      BY <1>4, <3>1
    <3>3. CASE j < k
      <4>1. j < k-1 \/ j = k-1
        BY <1>3, <3>3
      <4>2. j < k-1 => e(j) < e(k-1)
        BY <1>4, <3>1
      <4>3. e(j) <= e(k-1)
        BY <3>2, <4>1, <4>2
      <4> QED BY <2>1, <2>2, <3>2, <4>3
    <3>4. CASE k < j
      <4>1. k < j-1 \/ k = j-1
        BY <1>3, <3>4
      <4>2. k < j-1 => e(k) < e(j-1)
        BY <1>4, <3>1
      <4>3. e(k) <= e(j-1)
        BY <3>2, <4>1, <4>2
      <4> QED BY <2>1, <2>2, <3>2, <4>3
    <3> QED BY <3>1, <3>3, <3>4
  <2>3. ASSUME NEW n \in Node PROVE i \in ToSet(InstrsOf(n)) <=> n = k + 1
    <3>1. i \in ToSet(InstrsOf(n)) => n = k + 1
      <4>1. SUFFICES ASSUME i \in ToSet(InstrsOf(n)) PROVE n = k + 1
        OBVIOUS
      <4>2. n - 1 \in 1..l /\ i \in ToSet(blocks[n-1])
        BY <1>7, <4>1
      <4>3. e((n-1)-1) < i /\ i <= e(n-1)
        BY <1>5, <4>2
      <4>4. n - 1 = k
        BY <2>2, <4>2, <4>3
      <4> QED BY <1>1, <1>6, <4>4
    <3>2. n = k + 1 => i \in ToSet(InstrsOf(n))
      <4>1. i \in ToSet(blocks[k])
        BY <1>5, <2>1
      <4> QED BY <1>6, <1>7, <4>1
    <3> QED BY <3>1, <3>2
  <2>4. BlockOf(i) = k + 1
    BY <1>6, <2>3 DEF BlockOf
  <2> QED BY <2>1, <2>3, <2>4
<1>9. ASSUME NEW i \in DOMAIN body PROVE BlockOf(i) \in 2..l+1
  BY <1>1, <1>2, <1>8
<1>10. ASSUME NEW n \in Node PROVE ToSet(InstrsOf(n)) = {i \in DOMAIN body : BlockOf(i) = n}
  <2>1. ToSet(InstrsOf(n)) \subseteq 1..Len(body)
    BY <1>5, <1>7
  <2>2. ASSUME NEW i \in 1..Len(body) PROVE i \in ToSet(InstrsOf(n)) <=> BlockOf(i) = n
    BY <1>8
  <2> QED BY <1>1, <2>1, <2>2
<1>11. ASSUME NEW i \in DOMAIN body, NEW j \in DOMAIN body, BlockOf(i) < BlockOf(j) PROVE i < j
  <2>1. PICK a \in 1..l : BlockOf(i) = a + 1 /\ i <= e(a)
    BY <1>1, <1>8
  <2>2. PICK b \in 1..l : BlockOf(j) = b + 1 /\ e(b-1) < j
    BY <1>1, <1>8
  <2>3. (a < b-1 \/ a = b-1) /\ a \in 0..l /\ b-1 \in 0..l
    BY <1>2, <1>11, <2>1, <2>2
  <2>4. e(a) <= e(b-1) /\ e(a) \in Nat /\ e(b-1) \in Nat
    BY <1>4, <2>3
  <2> QED BY <1>1, <2>1, <2>2, <2>4
<1> QED BY <1>3, <1>9, <1>10, <1>11 DEF l

(* Which nodes have an edge to a block, and what the solver can reach.       *)
Setup == [succ |-> [n \in Node |-> Successors(n)],
          gen  |-> [n \in Node |-> Gen(n)],
          kill |-> [n \in Node |-> Kill(n)]]
Chained == {Entry, Exit} \cup 2..Len(blocks)+1

LEMMA GraphOfBlocks ==
  ASSUME BuildInv, built
  PROVE  /\ \A p \in Node : \A m \in 2..Len(blocks)+1 :
              <<p, m>> \in edges <=> p = NodeOf(m - 2)
         /\ \A p \in Node : <<p, Entry>> \notin edges
         /\ \A ed \in edges : ed[1] \in Chained /\ ed[2] \in Chained
         /\ <<NodeOf(Len(blocks)), Exit>> \in edges
         /\ Chained \subseteq Node
<1> DEFINE l == Len(blocks)
<1>1. l \in Nat /\ l <= MaxLength /\ MaxLength \in Nat
  BY BlocksOfPositions, LengthAssumption
<1>2. /\ \A k \in 1..l : <<NodeOf(k-1), NodeOf(k)>> \in edges
      /\ \A ed \in edges : \/ \E k \in 1..l : ed = <<NodeOf(k-1), NodeOf(k)>>
                           \/ \E k \in 0..l : ed = <<NodeOf(k), Exit>>
      /\ <<NodeOf(l), Exit>> \in edges
  BY DEF BuildInv, Graph
<1> HIDE DEF l
<1>3. \A k \in 0..l : NodeOf(k) \in Nat /\ NodeOf(k) # Exit /\ NodeOf(k) \in Chained
  BY <1>1 DEF NodeOf, Entry, Exit, Chained, l
<1>4. \A k \in 1..l : NodeOf(k) = k + 1 /\ k \in 0..l /\ k-1 \in 0..l
  BY <1>1 DEF NodeOf
<1>5. ASSUME NEW p \in Node, NEW m \in 2..l+1
      PROVE  <<p, m>> \in edges <=> p = NodeOf(m - 2)
  <2>1. m - 1 \in 1..l /\ (m - 1) - 1 = m - 2 /\ m # Exit /\ NodeOf(m - 1) = m
    BY <1>1 DEF NodeOf, Exit
  <2>2. p = NodeOf(m - 2) => <<p, m>> \in edges
    BY <1>2, <2>1
  <2>3. ASSUME <<p, m>> \in edges PROVE p = NodeOf(m - 2)
    <3>1. PICK k \in 1..l : <<p, m>> = <<NodeOf(k-1), NodeOf(k)>>
      BY <1>2, <2>1, <2>3
    <3>2. m = k + 1 /\ p = NodeOf(k - 1)
      BY <1>4, <3>1
    <3>3. k - 1 = m - 2
      BY <1>1, <3>2
    <3> QED BY <3>2, <3>3
  <2> QED BY <2>2, <2>3
<1>6. ASSUME NEW p \in Node PROVE <<p, Entry>> \notin edges
  <2>1. \A k \in 1..l : NodeOf(k) # Entry
    BY <1>1, <1>4 DEF Entry
  <2> QED BY <1>2, <2>1 DEF Entry, Exit
<1>7. ASSUME NEW ed \in edges PROVE ed[1] \in Chained /\ ed[2] \in Chained
  <2>1. Exit \in Chained
    BY DEF Chained
  <2> QED BY <1>2, <1>3, <1>4, <2>1
<1>8. Chained \subseteq Node
  BY <1>1 DEF Chained, Node, Entry, Exit, l
<1> QED BY <1>2, <1>5, <1>6, <1>7, <1>8 DEF l

(* A set of nodes with the entry that is closed under edges has the chain.   *)
LEMMA ChainIsReached ==
  ASSUME BuildInv, built, NEW S \in SUBSET Node, Entry \in S,
         \A n \in S : Successors(n) \subseteq S
  PROVE  Chained \subseteq S
<1> DEFINE l == Len(blocks)
           missed == {k \in 0..l : NodeOf(k) \notin S}
<1>1. l \in Nat /\ Chained \subseteq Node
  BY BlocksOfPositions, GraphOfBlocks
<1>2. /\ \A k \in 1..l : <<NodeOf(k-1), NodeOf(k)>> \in edges
      /\ <<NodeOf(l), Exit>> \in edges
  BY GraphOfBlocks DEF BuildInv, Graph
<1>3. \A k \in 1..l : NodeOf(k) = k + 1 /\ NodeOf(k) \in Node
  BY <1>1 DEF NodeOf, Chained
<1> HIDE DEF l, missed
<1>4. missed = {}
  <2>1. SUFFICES ASSUME missed # {} PROVE FALSE
    OBVIOUS
  <2>2. missed \in SUBSET Nat
    BY <1>1 DEF missed
  <2>3. PICK k \in missed : \A j \in missed : k <= j
    BY <2>1, <2>2, LeastOf
  <2>4. k \in 0..l /\ NodeOf(k) \notin S
    BY DEF missed
  <2>5. k # 0
    BY <2>4 DEF NodeOf
  <2>6. k \in 1..l /\ k-1 \in 0..l /\ ~(k <= k-1)
    BY <1>1, <2>4, <2>5
  <2>7. NodeOf(k-1) \in S
    BY <2>3, <2>6 DEF missed
  <2> QED BY <1>2, <1>3, <2>4, <2>6, <2>7 DEF Successors
<1>5. \A k \in 0..l : NodeOf(k) \in S
  BY <1>4 DEF missed
<1>6. Exit \in S
  <2>1. l \in 0..l /\ Exit \in Node
    BY <1>1 DEF Chained
  <2> QED BY <1>2, <1>5, <2>1 DEF Successors
<1>7. \A n \in 2..l+1 : n - 1 \in 1..l /\ n - 1 \in 0..l /\ NodeOf(n - 1) = n
  BY <1>1 DEF NodeOf
<1> QED BY <1>5, <1>6, <1>7 DEF Chained, l

(* The postorder lists each of those nodes once.                             *)
LEMMA PostorderLists ==
  ASSUME BuildInv, built
  PROVE  /\ ReversePostorder \in Seq(Node)
         /\ ToSet(ReversePostorder) = Chained
         /\ IsInjective(ReversePostorder)
<1> DEFINE l == Len(blocks)
           mid == [k \in 1..l |-> k + 1]
           all == ReversePostorder
           to(j) == IF j = 1 THEN Entry ELSE IF j = l + 2 THEN Exit ELSE j
<1>1. l \in Nat /\ l <= MaxLength /\ MaxLength \in Nat
  BY BlocksOfPositions, LengthAssumption
<1> HIDE DEF l
<1>2. mid \in Seq(Node) /\ Len(mid) = l /\ \A k \in 1..l : mid[k] = k + 1
  <2>1. mid \in [1..l -> Node]
    BY <1>1 DEF Node
  <2>2. mid \in Seq(Node)
    BY <1>1, <2>1, SeqDef
  <2>3. Len(mid) = l
    BY <1>1, <2>1, <2>2, LenProperties
  <2> QED BY <2>2, <2>3
<1>3. <<Entry>> \in Seq(Node) /\ <<Exit>> \in Seq(Node)
  BY <1>1 DEF Node, Entry, Exit
<1>4. all = (<<Entry>> \o mid) \o <<Exit>>
  BY DEF ReversePostorder, l
<1> HIDE DEF mid, all
<1>5. all \in Seq(Node) /\ Len(all) = l + 2 /\ \A j \in 1..l+2 : all[j] = to(j)
  <2> DEFINE front == <<Entry>> \o mid
  <2>1. /\ front \in Seq(Node) /\ Len(front) = 1 + l
        /\ \A j \in 1..1+l : front[j] = IF j <= 1 THEN <<Entry>>[j] ELSE mid[j - 1]
    <3>1. Len(<<Entry>>) = 1
      OBVIOUS
    <3> QED BY <1>2, <1>3, <3>1, ConcatProperties
  <2>2. all = front \o <<Exit>>
    BY <1>4
  <2> HIDE DEF front
  <2>3. /\ all \in Seq(Node) /\ Len(all) = (1 + l) + 1
        /\ \A j \in 1..(1+l)+1 : all[j] = IF j <= 1 + l THEN front[j] ELSE <<Exit>>[j - (1 + l)]
    <3>1. Len(<<Exit>>) = 1
      OBVIOUS
    <3> QED BY <1>3, <2>1, <2>2, <3>1, ConcatProperties
  <2>4. ASSUME NEW j \in 1..l+2 PROVE all[j] = to(j)
    <3>1. CASE j = 1
      <4>1. 1 \in 1..1+l /\ 1 \in 1..(1+l)+1 /\ 1 <= 1 + l /\ 1 <= 1 /\ <<Entry>>[1] = Entry
        BY <1>1
      <4>2. all[1] = front[1] /\ front[1] = Entry
        BY <2>1, <2>3, <4>1
      <4> QED BY <3>1, <4>2
    <3>2. CASE j \in 2..l+1
      <4>1. j - 1 \in 1..l /\ j \in 1..1+l /\ j \in 1..(1+l)+1 /\ ~(j <= 1) /\ j <= 1 + l /\ (j-1)+1 = j
            /\ j # l + 2
        BY <1>1, <3>2
      <4>2. all[j] = mid[j - 1]
        BY <2>1, <2>3, <4>1
      <4> QED BY <1>2, <4>1, <4>2
    <3>3. CASE j = l + 2
      <4>1. j \in 1..(1+l)+1 /\ ~(j <= 1 + l) /\ j - (1 + l) = 1 /\ j # 1
        BY <1>1, <3>3
      <4>2. <<Exit>>[1] = Exit
        OBVIOUS
      <4> QED BY <2>3, <3>3, <4>1, <4>2
    <3> QED BY <1>1, <3>1, <3>2, <3>3
  <2>5. (1 + l) + 1 = l + 2
    BY <1>1
  <2> QED BY <2>3, <2>4, <2>5
<1>6. DOMAIN all = 1..l+2
  BY <1>1, <1>5, LenProperties
<1>7. ToSet(all) = {to(j) : j \in 1..l+2}
  BY <1>5, <1>6 DEF ToSet
<1>8. {to(j) : j \in 1..l+2} = Chained
  <2>1. \A j \in 1..l+2 : j = 1 \/ j = l + 2 \/ j \in 2..l+1
    BY <1>1
  <2>2. {to(j) : j \in 1..l+2} \subseteq Chained
    BY <2>1 DEF Chained, l
  <2>3. /\ 1 \in 1..l+2 /\ l+2 \in 1..l+2 /\ l + 2 # 1
        /\ \A n \in 2..l+1 : n \in 1..l+2 /\ n # 1 /\ n # l + 2
    BY <1>1
  <2>4. to(1) = Entry /\ to(l + 2) = Exit /\ \A n \in 2..l+1 : to(n) = n
    BY <2>3
  <2> HIDE DEF to
  <2>5. Chained \subseteq {to(j) : j \in 1..l+2}
    BY <2>3, <2>4 DEF Chained, l
  <2> QED BY <2>2, <2>5
<1>9. ASSUME NEW i \in 1..l+2, NEW j \in 1..l+2, to(i) = to(j) PROVE i = j
  BY <1>1, <1>9 DEF Entry, Exit
<1>10. IsInjective(all)
  BY <1>5, <1>6, <1>9 DEF IsInjective
<1> QED BY <1>5, <1>7, <1>8, <1>10 DEF all

-----------------------------------------------------------------------------
(* The solver on this graph.                                                *)

(* What SolverProofs assumes of its constants holds here.                    *)
LEMMA Assumed == Proven!IsFiniteSet(Node) /\ Entry \in Node /\ {} \subseteq Proven!Problem
<1>1. MaxLength + 1 \in Int
  BY LengthAssumption
<1>2. IsFiniteSet(Node)
  BY <1>1, FS_Interval DEF Node
<1>3. Entry \in Node
  BY LengthAssumption DEF Node, Entry
<1> QED BY <1>2, <1>3 DEF Proven!IsFiniteSet, IsFiniteSet

AllChains ==
  {c \in Definitions \X DOMAIN body :
     body[c[1]].def \in body[c[2]].uses /\ c[1] \in LiveBefore(c[2], BlockOf(c[2]))}

Inv ==
  /\ BuildInv
  /\ phase \in {"build", "solve", "done", "bailed"}
  /\ phase # "build" => built
  /\ phase = "build" => /\ inSets = [n \in Node |-> {}]
                        /\ outSets = [n \in Node |-> {}]
  /\ phase \in {"solve", "done"} => problem = Setup /\ Proven!Inv
  /\ phase = "done" => worklist = <<>> /\ chains = AllChains

LEMMA SetupIsProblem == ASSUME BuildInv PROVE Setup \in Proven!Problem
<1>1. ASSUME NEW n \in Node
      PROVE  /\ Successors(n) \in SUBSET Node /\ Gen(n) \in SUBSET Position
             /\ Kill(n) \in SUBSET Position
  <2>1. Definitions \subseteq Position
    BY BodyIsSeq, LengthAssumption DEF BuildInv, Definitions, Position
  <2> QED BY <2>1 DEF Successors, Gen, Kill, DefsOf
<1> QED BY <1>1 DEF Setup, Proven!Problem

LEMMA BuildKeeps == ASSUME BuildInv, UNCHANGED cfgVars PROVE BuildInv'
BY DEF BuildInv, cfgVars, EndOf

LEMMA SetupKeeps == ASSUME UNCHANGED cfgVars PROVE Setup' = Setup
BY DEF Setup, cfgVars, Successors, Gen, Kill, InstrsOf, Definitions, DefsOf

LEMMA Collected ==
  ASSUME Inv, Collect, phase' = "solve"
  PROVE  problem' = Setup /\ Proven!Inv'
<1>1. /\ problem' = Setup /\ worklist' = ReversePostorder
      /\ inWorklist' = ToSet(ReversePostorder)
      /\ inSets' = [n \in Node |-> {}] /\ outSets' = [n \in Node |-> {}]
      /\ BuildInv /\ built
  BY DEF Collect, Setup, Inv
<1>2. /\ worklist' \in Seq(Node) /\ inWorklist' = Chained /\ inWorklist' = ToSet(worklist')
      /\ IsInjective(worklist') /\ inWorklist' \in SUBSET Node
  BY <1>1, PostorderLists, GraphOfBlocks
<1>3. Proven!TypeOK'
  <2>1. problem' \in Proven!Problem
    BY <1>1, SetupIsProblem
  <2> QED BY <1>1, <1>2, <2>1 DEF Proven!TypeOK
<1>4. Proven!WorklistMirrored'
  BY <1>2 DEF Proven!WorklistMirrored, Proven!ToSet, ToSet, Proven!IsInjective, IsInjective
<1>5. \A n \in Node : problem'.succ[n] = Successors(n)
  BY <1>1 DEF Setup
<1>6. Proven!Reachable' = Chained
  <2>1. Proven!Reachable' = {b \in Node : \A S \in SUBSET Node :
          Entry \in S /\ (\A c \in S : problem'.succ[c] \subseteq S) => b \in S}
    BY DEF Proven!Reachable
  <2>2. ASSUME NEW S \in SUBSET Node, Entry \in S, \A c \in S : problem'.succ[c] \subseteq S
        PROVE  Chained \subseteq S
    BY <1>1, <1>5, <2>2, ChainIsReached
  <2>3. Entry \in Chained /\ Chained \in SUBSET Node
    BY <1>1, GraphOfBlocks DEF Chained
  <2>4. \A c \in Chained : problem'.succ[c] \subseteq Chained
    <3>1. ASSUME NEW c \in Chained, NEW m \in Successors(c) PROVE m \in Chained
      <4>1. <<c, m>> \in edges
        BY <3>1 DEF Successors
      <4> QED BY <1>1, <4>1, GraphOfBlocks
    <3> QED BY <1>5, <2>3, <3>1
  <2>5. ASSUME NEW b \in Chained PROVE b \in Proven!Reachable'
    BY <2>1, <2>2, <2>3
  <2>6. ASSUME NEW b \in Proven!Reachable' PROVE b \in Chained
    BY <2>1, <2>3, <2>4
  <2> QED BY <2>5, <2>6
<1>7. \A b \in Node : inSets'[b] = {} /\ outSets'[b] = {}
  BY <1>1
<1>8. Proven!OutFollowsIn'
  BY <1>2, <1>6, <1>7 DEF Proven!OutFollowsIn, Proven!Untouched
<1>9. \A b \in Node : Proven!Meet(b)' = {}
  BY <1>7 DEF Proven!Meet, Proven!Predecessors
<1>10. Proven!InFollowsPredecessors'
  BY <1>2, <1>6, <1>7, <1>9 DEF Proven!InFollowsPredecessors
<1>11. Proven!NeverAboveASolution'
  BY <1>7 DEF Proven!NeverAboveASolution
<1> QED BY <1>1, <1>2, <1>3, <1>4, <1>6, <1>8, <1>10, <1>11 DEF Proven!Inv

LEMMA Iterated ==
  ASSUME Proven!Inv, Solver!Iterate
  PROVE  problem' = problem /\ Proven!Inv'
<1>1. Proven!Iterate
  BY DEF Solver!Iterate, Proven!Iterate, Solver!Last, Proven!Last, Solver!Front, Proven!Front,
         Solver!Meet, Proven!Meet, Solver!Predecessors, Proven!Predecessors,
         Solver!Transfer, Proven!Transfer, Solver!SetToSeqs, Proven!SetToSeqs,
         Solver!Cardinality, Proven!Cardinality
<1>2. Proven!Inv'
  BY <1>1, Assumed, Proven!IterateInv
<1> QED BY <1>2 DEF Solver!Iterate

LEMMA SolverKeeps == ASSUME Proven!Inv, UNCHANGED solverVars PROVE Proven!Inv'
BY Assumed, Proven!StutterInv DEF solverVars, Proven!vars

LEMMA InitInv == Init => Inv
BY InitBuild DEF Init, Inv

LEMMA StepInv == ASSUME Inv, [Next]_vars PROVE Inv'
<1>1. CASE Build
  <2>1. BuildInv'
    BY <1>1, StepBuild DEF Inv, Build
  <2> QED BY <1>1, <2>1 DEF Inv, Build
<1>2. CASE Collect
  <2>1. BuildInv' /\ built' /\ phase' \in {"solve", "bailed"} /\ UNCHANGED cfgVars
    BY <1>2, BuildKeeps DEF Inv, Collect, cfgVars
  <2>2. phase' = "solve" => problem' = Setup' /\ Proven!Inv'
    BY <1>2, <2>1, Collected, SetupKeeps
  <2> QED BY <2>1, <2>2 DEF Inv
<1>3. CASE Solve
  <2>1. BuildInv' /\ built' /\ phase' = "solve" /\ UNCHANGED cfgVars
    BY <1>3, BuildKeeps DEF Inv, Solve, cfgVars
  <2>2. problem' = Setup' /\ Proven!Inv'
    BY <1>3, <2>1, Iterated, SetupKeeps DEF Inv, Solve
  <2> QED BY <2>1, <2>2 DEF Inv
<1>4. CASE Chain
  <2>1. /\ BuildInv' /\ built' /\ phase' = "done" /\ UNCHANGED cfgVars /\ UNCHANGED solverVars
        /\ worklist' = <<>> /\ chains' = AllChains
    BY <1>4, BuildKeeps DEF Inv, Chain, cfgVars, solverVars, AllChains
  <2>2. problem' = Setup' /\ Proven!Inv'
    BY <1>4, <2>1, SolverKeeps, SetupKeeps DEF Inv, Chain, solverVars
  <2>3. AllChains' = AllChains
    BY <2>1 DEF AllChains, LiveBefore, LiveOwn, LastIn, Before, BlockOf, InstrsOf, Definitions, DefsOf,
                cfgVars, solverVars
  <2> QED BY <2>1, <2>2, <2>3 DEF Inv
<1>5. CASE UNCHANGED vars
  <2>1. UNCHANGED cfgVars /\ UNCHANGED solverVars /\ phase' = phase /\ chains' = chains
    BY <1>5 DEF vars, cfgVars, solverVars
  <2>2. BuildInv' /\ built' = built
    BY <2>1, BuildKeeps DEF Inv, cfgVars
  <2>3. phase \in {"solve", "done"} => problem' = Setup' /\ Proven!Inv'
    BY <2>1, SolverKeeps, SetupKeeps DEF Inv, solverVars
  <2>4. AllChains' = AllChains
    BY <2>1 DEF AllChains, LiveBefore, LiveOwn, LastIn, Before, BlockOf, InstrsOf, Definitions, DefsOf,
                cfgVars, solverVars
  <2> QED BY <2>1, <2>2, <2>3, <2>4 DEF Inv, solverVars
<1> QED BY <1>1, <1>2, <1>3, <1>4, <1>5 DEF Next, Over

(* The graph under construction, the set-up problem and the solver's own     *)
(* invariant hold in every reachable state.                                  *)
THEOREM Invariant == Spec => []Inv
BY InitInv, StepInv, PTL DEF Spec

-----------------------------------------------------------------------------
(* What the solver stops at: the definitions of earlier blocks that no block *)
(* in between replaces.                                                     *)
Through(d, m) ==
  /\ BlockOf(d) < m
  /\ \A e \in DefsOf(body[d].def) : ~(BlockOf(d) < BlockOf(e) /\ BlockOf(e) < m)

LEMMA SetsAlongTheChain ==
  ASSUME Inv, phase = "done"
  PROVE  /\ inSets[2] = {} \/ Len(blocks) = 0
         /\ \A m \in 3..Len(blocks)+1 :
              inSets[m] = Gen(m - 1) \cup (inSets[m - 1] \ Kill(m - 1))
<1> DEFINE l == Len(blocks)
<1>1. /\ BuildInv /\ built /\ problem = Setup /\ Proven!Inv /\ worklist = <<>>
      /\ l \in Nat /\ Chained \subseteq Node
  BY BlocksOfPositions, GraphOfBlocks DEF Inv
<1>2. Proven!IsFixpoint
  BY <1>1, Assumed, Proven!FixpointWhenDone DEF Proven!SolvedAtFixpoint, Proven!Done
<1>3. Chained \subseteq Proven!Reachable
  <2>1. ASSUME NEW S \in SUBSET Node, Entry \in S, \A c \in S : problem.succ[c] \subseteq S
        PROVE  Chained \subseteq S
    <3>1. \A n \in S : Successors(n) \subseteq S
      BY <1>1, <2>1 DEF Setup
    <3> QED BY <1>1, <2>1, <3>1, ChainIsReached
  <2> QED BY <1>1, <2>1 DEF Proven!Reachable
<1>4. \A n \in Chained : inSets[n] = Proven!Meet(n) /\ outSets[n] = Gen(n) \cup (inSets[n] \ Kill(n))
  BY <1>1, <1>2, <1>3 DEF Proven!IsFixpoint, Proven!Transfer, Setup
<1>5. ASSUME NEW m \in 2..l+1 PROVE Proven!Meet(m) = outSets[NodeOf(m - 2)]
  <2>1. m \in Node
    BY <1>1 DEF Chained
  <2>2. \A p \in Node : m \in problem.succ[p] <=> p = NodeOf(m - 2)
    BY <1>1, <2>1, GraphOfBlocks DEF Setup, Successors
  <2>3. NodeOf(m - 2) \in Node
    <3>1. m = 2 \/ (m - 1 \in 2..l+1 /\ m - 2 # 0 /\ (m - 2) + 1 = m - 1)
      BY <1>1
    <3>2. 2 - 2 = 0
      OBVIOUS
    <3> QED BY <1>1, <3>1, <3>2 DEF NodeOf, Chained
  <2>4. Proven!Predecessors(m) = {NodeOf(m - 2)}
    BY <2>2, <2>3 DEF Proven!Predecessors
  <2> QED BY <2>4 DEF Proven!Meet
<1>6. outSets[Entry] = {}
  <2>1. Entry \in Chained /\ Entry \in Node
    BY <1>1 DEF Chained
  <2>2. Proven!Meet(Entry) = {}
    <3>1. Proven!Predecessors(Entry) = {}
      BY <1>1, <2>1, GraphOfBlocks DEF Proven!Predecessors, Setup, Successors
    <3> QED BY <3>1 DEF Proven!Meet
  <2>3. Gen(Entry) = {}
    <3>1. \A i \in DOMAIN body : BlockOf(i) # Entry
      BY <1>1, BlocksOfPositions DEF Entry
    <3>2. ToSet(InstrsOf(Entry)) = {}
      BY <1>1, <2>1, <3>1, BlocksOfPositions
    <3> QED BY <3>2 DEF Gen
  <2> QED BY <1>4, <2>1, <2>2, <2>3
<1>7. inSets[2] = {} \/ l = 0
  <2>1. SUFFICES ASSUME l # 0 PROVE inSets[2] = {}
    OBVIOUS
  <2>2. 2 \in 2..l+1 /\ 2 - 2 = 0
    BY <1>1, <2>1
  <2>3. 2 \in Chained
    BY <2>2 DEF Chained
  <2> QED BY <1>4, <1>5, <1>6, <2>2, <2>3 DEF NodeOf
<1>8. ASSUME NEW m \in 3..l+1
      PROVE  inSets[m] = Gen(m - 1) \cup (inSets[m - 1] \ Kill(m - 1))
  <2>1. m \in 2..l+1 /\ m - 1 \in 2..l+1 /\ m - 2 # 0 /\ (m - 2) + 1 = m - 1
    BY <1>1
  <2>2. NodeOf(m - 2) = m - 1
    BY <2>1 DEF NodeOf
  <2>3. m \in Chained /\ m - 1 \in Chained
    BY <2>1 DEF Chained
  <2> QED BY <1>4, <1>5, <2>1, <2>2, <2>3
<1> QED BY <1>7, <1>8

LEMMA WhatComesIn ==
  ASSUME Inv, phase = "done", NEW m \in 2..Len(blocks)+1
  PROVE  inSets[m] = {d \in Definitions : Through(d, m)}
<1> DEFINE l == Len(blocks)
           In(n) == {d \in Definitions : Through(d, n)}
           wrong == {n \in 2..l+1 : inSets[n] # In(n)}
<1>1. /\ l \in Nat /\ \A i \in DOMAIN body : BlockOf(i) \in 2..l+1
      /\ \A n \in Node : ToSet(InstrsOf(n)) = {i \in DOMAIN body : BlockOf(i) = n}
      /\ Chained \subseteq Node
  BY BlocksOfPositions, GraphOfBlocks DEF Inv
<1>2. Definitions \subseteq DOMAIN body /\ \A v : DefsOf(v) \subseteq Definitions
  BY DEF Definitions, DefsOf
<1>3. ASSUME NEW n \in 2..l+1
      PROVE  Gen(n) = {d \in Definitions : BlockOf(d) = n}
  <2>1. n \in Node
    BY <1>1 DEF Chained
  <2> QED BY <1>1, <1>2, <2>1 DEF Gen
<1>4. ASSUME NEW n \in 2..l, inSets[n] = In(n)
      PROVE  Gen(n) \cup (In(n) \ Kill(n)) = In(n + 1)
  <2>1. n \in 2..l+1 /\ n \in Nat /\ n < n + 1
    BY <1>1
  <2>2. \A i \in DOMAIN body : BlockOf(i) \in Nat
    BY <1>1
  <2>3. \A d \in Definitions : d \in DefsOf(body[d].def)
    BY DEF DefsOf
  <2>4. ASSUME NEW d \in Gen(n) PROVE d \in In(n + 1)
    <3>1. d \in Definitions /\ BlockOf(d) = n
      BY <1>3, <2>1
    <3>2. \A e \in DefsOf(body[d].def) : BlockOf(e) \in Nat
      BY <1>2, <2>2
    <3>3. \A e \in DefsOf(body[d].def) : ~(n < BlockOf(e) /\ BlockOf(e) < n + 1)
      BY <2>1, <3>2
    <3> QED BY <2>1, <3>1, <3>3 DEF Through
  <2>5. ASSUME NEW d \in In(n) \ Kill(n) PROVE d \in In(n + 1)
    <3>1. d \in Definitions /\ BlockOf(d) \in Nat /\ BlockOf(d) < n
      BY <1>2, <2>2 DEF Through
    <3>2. BlockOf(d) < n + 1
      BY <2>1, <3>1
    <3>3. ASSUME NEW e \in DefsOf(body[d].def), BlockOf(d) < BlockOf(e), BlockOf(e) < n + 1
          PROVE  FALSE
      <4>1. BlockOf(e) \in Nat /\ e \in Definitions /\ ~(BlockOf(e) < n)
        BY <1>2, <2>2, <3>3 DEF Through
      <4>2. BlockOf(e) = n
        BY <2>1, <3>3, <4>1
      <4>3. e \in Gen(n) /\ d # e
        BY <1>3, <2>1, <3>1, <4>1, <4>2
      <4>4. d \in DefsOf(body[e].def)
        BY <2>3, <3>1 DEF DefsOf
      <4> QED BY <4>3, <4>4 DEF Kill
    <3> QED BY <3>1, <3>2, <3>3 DEF Through
  <2>6. ASSUME NEW d \in In(n + 1) PROVE d \in Gen(n) \cup (In(n) \ Kill(n))
    <3>1. d \in Definitions /\ BlockOf(d) \in Nat /\ BlockOf(d) < n + 1
      BY <1>2, <2>2 DEF Through
    <3>2. CASE BlockOf(d) = n
      BY <1>3, <2>1, <3>1, <3>2
    <3>3. CASE BlockOf(d) # n
      <4>1. BlockOf(d) < n
        BY <2>1, <3>1, <3>3
      <4>2. \A e \in DefsOf(body[d].def) : ~(BlockOf(d) < BlockOf(e) /\ BlockOf(e) < n)
        <5>1. ASSUME NEW e \in DefsOf(body[d].def), BlockOf(d) < BlockOf(e), BlockOf(e) < n
              PROVE  FALSE
          <6>1. BlockOf(e) \in Nat
            BY <1>2, <2>2
          <6>2. BlockOf(e) < n + 1
            BY <2>1, <5>1, <6>1
          <6> QED BY <5>1, <6>2 DEF Through
        <5> QED BY <5>1
      <4>3. d \notin Kill(n)
        <5>1. SUFFICES ASSUME NEW e \in Gen(n), d \in DefsOf(body[e].def) PROVE FALSE
          BY DEF Kill
        <5>2. e \in DefsOf(body[d].def) /\ BlockOf(e) = n
          BY <1>3, <2>1, <5>1 DEF DefsOf
        <5> QED BY <2>1, <4>1, <5>2 DEF Through
      <4> QED BY <3>1, <4>1, <4>2, <4>3 DEF Through
    <3> QED BY <3>2, <3>3
  <2> HIDE DEF In
  <2> QED BY <2>4, <2>5, <2>6
<1>5. In(2) = {}
  <2>1. \A d \in Definitions : ~(BlockOf(d) < 2)
    BY <1>1, <1>2
  <2> QED BY <2>1 DEF Through
<1> HIDE DEF In, l, wrong
<1>6. wrong = {}
  <2>1. SUFFICES ASSUME wrong # {} PROVE FALSE
    OBVIOUS
  <2>2. wrong \in SUBSET Nat
    BY <1>1 DEF wrong
  <2>3. PICK n \in wrong : \A k \in wrong : n <= k
    BY <2>1, <2>2, LeastOf
  <2>4. n \in 2..l+1 /\ inSets[n] # In(n)
    BY DEF wrong
  <2>5. CASE n = 2
    <3>1. l # 0
      BY <1>1, <2>4
    <3> QED BY <1>5, <2>4, <2>5, <3>1, SetsAlongTheChain DEF l
  <2>6. CASE n # 2
    <3>1. n \in 3..l+1 /\ n-1 \in 2..l+1 /\ n-1 \in 2..l /\ ~(n <= n-1) /\ (n-1)+1 = n
      BY <1>1, <2>4, <2>6
    <3>2. inSets[n-1] = In(n-1)
      BY <2>3, <3>1 DEF wrong
    <3>3. inSets[n] = Gen(n-1) \cup (inSets[n-1] \ Kill(n-1))
      BY <3>1, SetsAlongTheChain DEF l
    <3>4. Gen(n-1) \cup (In(n-1) \ Kill(n-1)) = In((n-1)+1)
      BY <1>4, <3>1, <3>2
    <3> QED BY <2>4, <3>1, <3>2, <3>3, <3>4
  <2> QED BY <2>5, <2>6
<1> QED BY <1>6 DEF wrong, In, l

-----------------------------------------------------------------------------
(* From the sets to the chains.                                             *)

LEMMA Placed ==
  ASSUME Inv, phase = "done"
  PROVE  /\ Definitions \subseteq DOMAIN body /\ DOMAIN body \subseteq Nat
         /\ \A v : DefsOf(v) \subseteq Definitions
         /\ chains = AllChains
         /\ \A i \in DOMAIN body : BlockOf(i) \in Nat
         /\ \A i, j \in DOMAIN body : BlockOf(i) < BlockOf(j) => i < j
         /\ \A i \in DOMAIN body : ToSet(InstrsOf(BlockOf(i))) =
              {j \in DOMAIN body : BlockOf(j) = BlockOf(i)}
         /\ \A i \in DOMAIN body : Before(i, BlockOf(i)) =
              {j \in DOMAIN body : BlockOf(j) = BlockOf(i) /\ j < i}
         /\ \A i \in DOMAIN body : inSets[BlockOf(i)] = {d \in Definitions : Through(d, BlockOf(i))}
<1>1. BuildInv /\ built /\ DOMAIN body \subseteq Nat
  BY BodyIsSeq DEF Inv, BuildInv
<1>2. Definitions \subseteq DOMAIN body /\ \A v : DefsOf(v) \subseteq Definitions
  BY DEF Definitions, DefsOf
<1>3. \A i \in DOMAIN body : BlockOf(i) \in 2..Len(blocks)+1
  BY <1>1, BlocksOfPositions
<1>4. \A i \in DOMAIN body : BlockOf(i) \in Nat /\ BlockOf(i) \in Node
  BY <1>1, <1>3, BlocksOfPositions, GraphOfBlocks DEF Chained
<1>5. ASSUME NEW i \in DOMAIN body
      PROVE  /\ ToSet(InstrsOf(BlockOf(i))) = {j \in DOMAIN body : BlockOf(j) = BlockOf(i)}
             /\ Before(i, BlockOf(i)) = {j \in DOMAIN body : BlockOf(j) = BlockOf(i) /\ j < i}
  <2>1. ToSet(InstrsOf(BlockOf(i))) = {j \in DOMAIN body : BlockOf(j) = BlockOf(i)}
    BY <1>1, <1>4, BlocksOfPositions
  <2> QED BY <2>1 DEF Before
<1>6. \A i \in DOMAIN body : inSets[BlockOf(i)] = {d \in Definitions : Through(d, BlockOf(i))}
  BY <1>3, WhatComesIn
<1>7. \A i, j \in DOMAIN body : BlockOf(i) < BlockOf(j) => i < j
  BY <1>1, BlocksOfPositions
<1> QED BY <1>1, <1>2, <1>4, <1>5, <1>6, <1>7 DEF Inv

LEMMA ReachedAreChained == ASSUME Inv PROVE NoUseMissed
<1> SUFFICES ASSUME phase = "done", NEW d \in Definitions, NEW i \in DOMAIN body,
                    body[d].def \in body[i].uses, Reaches(d, i)
             PROVE  <<d, i>> \in chains
  BY DEF NoUseMissed, Finished
<1> DEFINE n == BlockOf(i)
           defs == DefsOf(body[d].def)
<1>1. /\ d \in DOMAIN body /\ d \in Nat /\ i \in Nat /\ d < i
      /\ BlockOf(d) \in Nat /\ n \in Nat
      /\ \A e \in defs : e \in DOMAIN body /\ e \in Nat /\ BlockOf(e) \in Nat /\ ~(d < e /\ e < i)
  BY Placed DEF Reaches
<1>2. Before(i, n) = {j \in DOMAIN body : BlockOf(j) = n /\ j < i}
  BY Placed
<1>3. ~(n < BlockOf(d))
  BY <1>1, Placed
<1>4. CASE BlockOf(d) = n
  <2>1. d \in Before(i, n)
    BY <1>1, <1>2, <1>4
  <2>2. ASSUME NEW e \in Before(i, n) \cap defs PROVE e <= d
    BY <1>1, <1>2
  <2>3. d \in LastIn(i, n) /\ d \in LiveOwn(i, n)
    BY <1>1, <2>1, <2>2 DEF LastIn, LiveOwn, Before
  <2> QED BY <2>3, Placed DEF AllChains, LiveBefore
<1>5. CASE BlockOf(d) < n
  <2>1. d \in inSets[n]
    <3>1. ASSUME NEW e \in defs, BlockOf(d) < BlockOf(e), BlockOf(e) < n PROVE FALSE
      <4>1. d < e /\ e < i
        BY <1>1, <3>1, Placed
      <4> QED BY <1>1, <4>1
    <3>2. Through(d, n)
      BY <1>5, <3>1 DEF Through
    <3> QED BY <3>2, Placed
  <2>2. ASSUME NEW e \in Before(i, n) \cap defs PROVE FALSE
    <3>1. e \in DOMAIN body /\ BlockOf(e) = n /\ e < i
      BY <1>2
    <3>2. d < e
      BY <1>1, <1>5, <3>1, Placed
    <3> QED BY <1>1, <3>1, <3>2
  <2> QED BY <2>1, <2>2, Placed DEF AllChains, LiveBefore
<1> QED BY <1>1, <1>3, <1>4, <1>5

(* A chain is from an earlier block and nothing in this block replaces the   *)
(* definition, or from this block and its declaration has the last there.    *)
LEMMA ChainCases ==
  ASSUME Inv, phase = "done", NEW c \in chains
  PROVE  /\ c[1] \in Definitions /\ c[2] \in DOMAIN body
         /\ \/ /\ Through(c[1], BlockOf(c[2])) /\ c[1] \in inSets[BlockOf(c[2])]
               /\ \A e \in DefsOf(body[c[1]].def) : BlockOf(e) = BlockOf(c[2]) => ~(e < c[2])
            \/ /\ BlockOf(c[1]) = BlockOf(c[2])
               /\ \E l \in DefsOf(body[c[1]].def) :
                    /\ BlockOf(l) = BlockOf(c[2]) /\ l < c[2] /\ body[l].start = body[c[1]].start
                    /\ \A e \in DefsOf(body[c[1]].def) :
                         BlockOf(e) = BlockOf(c[2]) /\ e < c[2] => e <= l
                    /\ <<l, c[2]>> \in chains
<1> DEFINE n == BlockOf(c[2])
           defs == DefsOf(body[c[1]].def)
<1>1. c[1] \in Definitions /\ c[2] \in DOMAIN body /\ c[1] \in LiveBefore(c[2], n)
  BY Placed DEF AllChains
<1>2. /\ Before(c[2], n) = {j \in DOMAIN body : BlockOf(j) = n /\ j < c[2]}
      /\ inSets[n] = {d \in Definitions : Through(d, n)}
      /\ defs \subseteq DOMAIN body
  BY <1>1, Placed
<1>3. CASE c[1] \in inSets[n] /\ Before(c[2], n) \cap defs = {}
  BY <1>1, <1>2, <1>3
<1>4. CASE c[1] \in LiveOwn(c[2], n)
  <2>1. PICK l \in LastIn(c[2], n) : body[l].def = body[c[1]].def /\ body[l].start = body[c[1]].start
    BY <1>4 DEF LiveOwn
  <2>2. l \in Definitions /\ l \in defs /\ l \in Before(c[2], n) /\ DefsOf(body[l].def) = defs
    BY <2>1 DEF LastIn, DefsOf
  <2>3. \A e \in Before(c[2], n) \cap defs : e <= l
    BY <2>1, <2>2 DEF LastIn
  <2>4. l \in LiveBefore(c[2], n)
    BY <2>1, <2>2 DEF LiveBefore, LiveOwn, Before
  <2>5. body[l].def \in body[c[2]].uses
    BY <2>1, Placed DEF AllChains
  <2>6. <<l, c[2]>> \in chains
    BY <1>1, <2>2, <2>4, <2>5, Placed DEF AllChains
  <2>7. c[1] \in ToSet(InstrsOf(n)) /\ c[1] \in DOMAIN body
    BY <1>1, <1>4 DEF LiveOwn, Definitions
  <2>8. BlockOf(c[1]) = n
    BY <1>1, <2>7, Placed
  <2> QED BY <1>1, <1>2, <2>1, <2>2, <2>3, <2>6, <2>8
<1> QED BY <1>1, <1>3, <1>4 DEF LiveBefore

LEMMA ExtraAreOverwritten == ASSUME Inv PROVE OnlyOverwrittenAreExtra
<1> SUFFICES ASSUME phase = "done", NEW c \in chains, ~Reaches(c[1], c[2])
             PROVE  \E e \in DefsOf(body[c[1]].def) :
                       /\ BlockOf(e) = BlockOf(c[1])
                       /\ \/ BlockOf(c[2]) # BlockOf(e) /\ c[1] < e /\ e < c[2]
                          \/ /\ BlockOf(c[2]) = BlockOf(e) /\ Reaches(e, c[2])
                             /\ body[e].start = body[c[1]].start
  BY DEF OnlyOverwrittenAreExtra, Finished
<1> DEFINE d == c[1]
           i == c[2]
           defs == DefsOf(body[d].def)
<1>1. /\ d \in Definitions /\ d \in DOMAIN body /\ i \in DOMAIN body /\ d \in Nat /\ i \in Nat
      /\ BlockOf(d) \in Nat /\ BlockOf(i) \in Nat
      /\ \A e \in defs : e \in DOMAIN body /\ e \in Nat /\ BlockOf(e) \in Nat
  BY ChainCases, Placed
<1>2. \A j, k \in DOMAIN body : BlockOf(j) < BlockOf(k) => j < k
  BY Placed
<1> HIDE DEF d, i, defs
<1>3. CASE Through(d, BlockOf(i)) /\ \A e \in defs : BlockOf(e) = BlockOf(i) => ~(e < i)
  <2>1. BlockOf(d) < BlockOf(i) /\ \A e \in defs : ~(BlockOf(d) < BlockOf(e) /\ BlockOf(e) < BlockOf(i))
    BY <1>3 DEF Through, defs
  <2>2. d < i
    BY <1>1, <1>2, <2>1
  <2>3. PICK e \in defs : d < e /\ e < i
    BY <2>2 DEF Reaches, d, i, defs
  <2>4. ~(BlockOf(e) < BlockOf(d)) /\ ~(BlockOf(i) < BlockOf(e)) /\ BlockOf(e) # BlockOf(i)
    <3>1. ~(e < d) /\ ~(i < e)
      BY <1>1, <2>3
    <3> QED BY <1>1, <1>2, <1>3, <2>3, <3>1
  <2>5. BlockOf(e) = BlockOf(d)
    BY <1>1, <2>1, <2>4
  <2> QED BY <2>3, <2>4, <2>5 DEF d, i, defs
<1>4. CASE /\ BlockOf(d) = BlockOf(i)
           /\ \E l \in defs : /\ BlockOf(l) = BlockOf(i) /\ l < i /\ body[l].start = body[d].start
                            /\ \A e \in defs : BlockOf(e) = BlockOf(i) /\ e < i => e <= l
  <2>1. PICK l \in defs : /\ BlockOf(l) = BlockOf(i) /\ l < i /\ body[l].start = body[d].start
                         /\ \A e \in defs : BlockOf(e) = BlockOf(i) /\ e < i => e <= l
    BY <1>4
  <2>2. DefsOf(body[l].def) = defs
    BY <2>1 DEF DefsOf, defs
  <2>3. ASSUME NEW e \in defs, l < e, e < i PROVE FALSE
    <3>1. ~(e < l) /\ ~(i < e) /\ ~(e <= l)
      BY <1>1, <2>1, <2>3
    <3>2. BlockOf(e) = BlockOf(i)
      BY <1>1, <1>2, <2>1, <3>1
    <3> QED BY <2>1, <2>3, <3>1, <3>2
  <2>4. Reaches(l, i)
    BY <2>1, <2>2, <2>3 DEF Reaches
  <2> QED BY <1>4, <2>1, <2>4 DEF d, i, defs
<1> QED BY <1>3, <1>4, ChainCases DEF d, i, defs

LEMMA UninitializedAreDefined == ASSUME Inv PROVE UninitializedOnlyInBlock
<1> SUFFICES ASSUME phase = "done", NEW i \in UninitializedUses
             PROVE  \E d \in Definitions : d < i /\ BlockOf(d) = BlockOf(i) /\ <<d, i>> \in chains
  BY DEF UninitializedOnlyInBlock, Finished
<1>1. PICK c \in chains : c[2] = i /\ DefsOf(body[c[1]].def) \cap inSets[BlockOf(i)] = {}
  BY DEF UninitializedUses
<1>2. c[1] \in Definitions /\ c[1] \in DefsOf(body[c[1]].def)
  BY ChainCases DEF DefsOf
<1>3. BlockOf(c[1]) = BlockOf(i) /\ \E l \in DefsOf(body[c[1]].def) :
                                   /\ BlockOf(l) = BlockOf(i) /\ l < i /\ <<l, i>> \in chains
  BY <1>1, <1>2, ChainCases
<1> QED BY <1>3 DEF DefsOf

-----------------------------------------------------------------------------
(* build_cfg loses no instruction at a cut: the blocks and what is pending   *)
(* list the positions read so far, each once, in order.                     *)
THEOREM NothingLostAtCuts == Spec => []NoInstructionLost
<1>1. Inv => NoInstructionLost
  BY BlocksHoldTheBody DEF Inv
<1> QED BY <1>1, Invariant, PTL

(* The finished graph leads from the entry through every block to the exit,  *)
(* and no edge enters the entry or leaves the exit: solve_forward, which     *)
(* starts with what the entry reaches, visits every block.                  *)
THEOREM EveryBlockVisited ==
  Spec => [](phase \in {"solve", "done"} => Proven!Reachable = Chained)
<1>1. Inv => (phase \in {"solve", "done"} => Proven!Reachable = Chained)
  <2>1. SUFFICES ASSUME Inv, phase \in {"solve", "done"} PROVE Proven!Reachable = Chained
    OBVIOUS
  <2>2. BuildInv /\ built /\ \A n \in Node : problem.succ[n] = Successors(n)
    BY <2>1 DEF Inv, Setup
  <2>3. Chained \in SUBSET Node /\ Entry \in Chained
    BY <2>2, GraphOfBlocks DEF Chained
  <2>4. ASSUME NEW S \in SUBSET Node, Entry \in S, \A c \in S : problem.succ[c] \subseteq S
        PROVE  Chained \subseteq S
    BY <2>2, <2>4, ChainIsReached
  <2>5. ASSUME NEW c \in Chained PROVE problem.succ[c] \subseteq Chained
    <3>1. ASSUME NEW m \in Successors(c) PROVE m \in Chained
      <4>1. <<c, m>> \in edges
        BY <3>1 DEF Successors
      <4> QED BY <2>2, <4>1, GraphOfBlocks
    <3> QED BY <2>2, <2>3, <3>1
  <2> QED BY <2>3, <2>4, <2>5 DEF Proven!Reachable
<1> QED BY <1>1, Invariant, PTL

(* build_def_use_chains misses no use: a definition that reaches a use is    *)
(* chained to it, so a used store is never called dead.                     *)
THEOREM EveryUseChained == Spec => []NoUseMissed
BY ReachedAreChained, Invariant, PTL

(* A chain that does not exist in the body is one whose definition is        *)
(* replaced later in its own block, which GEN does not see, or one within a  *)
(* block, along with the real one of the same declaration, from which its    *)
(* definition is told by nothing.                                           *)
THEOREM ExtraChainsAreOverwritten == Spec => []OnlyOverwrittenAreExtra
BY ExtraAreOverwritten, Invariant, PTL

(* uninitialized_vars names only uses behind a definition in their block.    *)
THEOREM UninitializedIsDefined == Spec => []UninitializedOnlyInBlock
BY UninitializedAreDefined, Invariant, PTL
=============================================================================
