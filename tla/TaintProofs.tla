----------------------------- MODULE TaintProofs -----------------------------
(***************************************************************************)
(* What IlBuilder and Taint guarantee for every function body and all rules. *)
(*                                                                         *)
(* An instruction says what its statement says, and every statement before   *)
(* the one to visit that is not passed over has its instructions. So the     *)
(* assignments of the list are those of the source as the builder takes them *)
(* up, the names spread by the queue stay in every set of variables that is  *)
(* closed under them, and when the queue is empty they are such a set        *)
(* themselves: the dirty variables.                                         *)
(***************************************************************************)
EXTENDS Taint, FiniteSetTheorems, SequenceTheorems, WellFoundedInduction, TLAPS

LEMMA LeastOf == ASSUME NEW S \in SUBSET Nat, S # {}
                 PROVE  \E x \in S : \A y \in S : x <= y
<1>1. PICK x \in S : \A y \in S : ~(<<y, x>> \in OpToRel(<, Nat))
  BY NatLessThanWellFounded, WFMin
<1>2. ASSUME NEW y \in S PROVE x <= y
  <2>1. x \in Nat /\ y \in Nat
    OBVIOUS
  <2>2. ~(y < x)
    BY <1>1, <2>1 DEF OpToRel
  <2> QED BY <2>1, <2>2
<1> QED BY <1>2

LEMMA ProgramFacts ==
  ASSUME program \in Program
  PROVE  /\ Len(program) \in Nat /\ DOMAIN program = 1..Len(program) /\ Len(program) <= MaxNodes
         /\ \A n \in DOMAIN program :
              /\ program[n].kind \in StatementKind
              /\ program[n].targets \in Seq(Var \cup {None})
              /\ Value(program[n]).call \in Func \cup {None}
              /\ Value(program[n]).reads \in Seq(Var \cup {None})
              /\ program[n].args \in Seq(Var \cup {None})
              /\ program[n].size \in Nat \ {0} /\ n + program[n].size - 1 <= Len(program)
              /\ program[n].kind \in {"short", "assign"} => program[n].targets # <<>>
              /\ program[n].kind \in {"short", "var"} => program[n].targets \in Seq(Var)
              /\ program[n].place = "init" => n > 1 /\ program[n-1].kind = "if"
<1>1. /\ program \in Seq(NodeRec) /\ Len(program) <= MaxNodes
      /\ \A n \in DOMAIN program :
           /\ n + program[n].size - 1 <= Len(program)
           /\ program[n].values # <<>>
           /\ program[n].kind \in {"short", "assign"} => program[n].targets # <<>>
           /\ program[n].kind \in {"short", "var"} => program[n].targets \in Seq(Var)
           /\ program[n].place = "init" => n > 1 /\ program[n-1].kind = "if"
  BY ProgramAssumption
<1>2. DOMAIN program = 1..Len(program) /\ Len(program) \in Nat
  BY <1>1, LenProperties
<1>3. ASSUME NEW n \in DOMAIN program
      PROVE  /\ program[n].kind \in StatementKind
             /\ program[n].targets \in Seq(Var \cup {None})
             /\ Value(program[n]).call \in Func \cup {None}
             /\ Value(program[n]).reads \in Seq(Var \cup {None})
             /\ program[n].args \in Seq(Var \cup {None})
             /\ program[n].size \in Nat \ {0}
  <2>1. program[n] \in NodeRec
    BY <1>1, <1>2, ElementOfSeq
  <2>2. program[n].values \in Seq(Expr) /\ program[n].values # <<>> /\ program[n].size \in 1..MaxNodes
    BY <1>1, <2>1 DEF NodeRec
  <2>3. program[n].size \in Nat \ {0}
    BY <2>2, MaxNodesAssumption
  <2>4. Value(program[n]) \in Expr
    BY <2>2, HeadTailProperties DEF Value
  <2> QED BY <2>1, <2>3, <2>4 DEF NodeRec, Expr
<1> QED BY <1>1, <1>2, <1>3

-----------------------------------------------------------------------------
(* Looking names up.                                                        *)

IsScan(scan) == scan.table \in [Var -> Nat] /\ scan.next \in Nat

(* What is found for a list of variables, and perhaps of other arguments.    *)
NamesOf(names, as) ==
  /\ DOMAIN names = DOMAIN as
  /\ \A i \in DOMAIN as : IF as[i] = None THEN names[i] = None
                          ELSE names[i] \in Name /\ names[i].var = as[i]

(* The names of a list are a list.                                          *)
LEMMA NamesAreSeq ==
  ASSUME NEW as \in Seq(Var \cup {None}), NEW n \in Nat, DOMAIN as = 1..n,
         NEW names, NamesOf(names, as), names = [i \in 1..n |-> names[i]]
  PROVE  /\ names \in Seq(Name \cup {None}) /\ Len(names) = n
         /\ (\A i \in 1..n : as[i] # None) => names \in Seq(Name)
<1>1. \A i \in 1..n : names[i] \in Name \cup {None}
  BY DEF NamesOf
<1>2. names \in [1..n -> Name \cup {None}]
  BY <1>1
<1>3. names \in Seq(Name \cup {None}) /\ Len(names) = n
  <2>1. names \in Seq(Name \cup {None})
    BY <1>2, SeqDef
  <2> QED BY <1>2, <2>1, LenProperties
<1>4. ASSUME \A i \in 1..n : as[i] # None PROVE names \in Seq(Name)
  <2>1. \A i \in 1..n : names[i] \in Name
    BY <1>4 DEF NamesOf
  <2>2. names \in [1..n -> Name]
    BY <2>1
  <2> QED BY <2>2, SeqDef
<1> QED BY <1>3, <1>4

LEMMA Resolved ==
  ASSUME NEW scan, IsScan(scan), NEW as \in Seq(Var \cup {None})
  PROVE  /\ IsScan(ResolveAll(scan, as))
         /\ NamesOf(ResolveAll(scan, as).names, as)
         /\ ResolveAll(scan, as).names \in Seq(Name \cup {None})
         /\ as \in Seq(Var) => ResolveAll(scan, as).names \in Seq(Name)
<1> DEFINE fresh == {i \in DOMAIN as : /\ as[i] # None
                                       /\ scan.table[as[i]] = 0
                                       /\ \A j \in 1..i-1 : as[j] # as[i]}
           table == [v \in Var |->
                       IF \E i \in fresh : as[i] = v
                       THEN scan.next + Cardinality({j \in fresh : j <= CHOOSE i \in fresh : as[i] = v})
                       ELSE scan.table[v]]
           names == [i \in DOMAIN as |-> IF as[i] = None THEN None
                                         ELSE [var |-> as[i], sid |-> table[as[i]]]]
           n == Len(as)
<1>1. ResolveAll(scan, as) = [table |-> table, next |-> scan.next + Cardinality(fresh), names |-> names]
  BY DEF ResolveAll
<1>2. n \in Nat /\ DOMAIN as = 1..n
  BY LenProperties
<1>3. IsFiniteSet(1..n)
  <2>1. 1 \in Int /\ n \in Int
    BY <1>2
  <2> HIDE DEF n
  <2> QED BY <2>1, FS_Interval
<1>4. \A S \in SUBSET fresh : Cardinality(S) \in Nat
  <2>1. fresh \subseteq 1..n
    BY <1>2
  <2> HIDE DEF fresh
  <2> QED BY <1>3, <2>1, FS_Subset, FS_CardinalityType
<1> HIDE DEF fresh
<1>5. table \in [Var -> Nat]
  <2>1. ASSUME NEW v \in Var PROVE table[v] \in Nat
    <3> DEFINE upTo == {j \in fresh : j <= CHOOSE i \in fresh : as[i] = v}
    <3>1. upTo \in SUBSET fresh
      OBVIOUS
    <3>2. scan.table[v] \in Nat /\ scan.next \in Nat
      BY DEF IsScan
    <3> HIDE DEF upTo
    <3>3. scan.next + Cardinality(upTo) \in Nat
      BY <1>4, <3>1, <3>2
    <3> QED BY <3>2, <3>3 DEF upTo
  <2> QED BY <2>1
<1>6. scan.next + Cardinality(fresh) \in Nat
  BY <1>4 DEF IsScan
<1>7. ASSUME NEW i \in DOMAIN as
      PROVE  IF as[i] = None THEN names[i] = None ELSE names[i] \in Name /\ names[i].var = as[i]
  <2>1. as[i] \in Var \cup {None}
    BY <1>2, ElementOfSeq
  <2> HIDE DEF table
  <2>2. as[i] # None => table[as[i]] \in Nat
    BY <1>5, <2>1
  <2> QED BY <2>1, <2>2 DEF Name
<1>8. NamesOf(names, as) /\ names = [i \in 1..n |-> names[i]]
  BY <1>2, <1>7 DEF NamesOf
<1> HIDE DEF table, names, n
<1>9. names \in Seq(Name \cup {None}) /\ ((\A i \in 1..n : as[i] # None) => names \in Seq(Name))
  BY <1>2, <1>8, NamesAreSeq
<1>10. as \in Seq(Var) => \A i \in 1..n : as[i] # None
  BY <1>2, NoneAssumption, ElementOfSeq DEF n
<1>11. /\ ResolveAll(scan, as).table = table /\ ResolveAll(scan, as).names = names
       /\ ResolveAll(scan, as).next = scan.next + Cardinality(fresh)
  BY <1>1
<1> QED BY <1>5, <1>6, <1>8, <1>9, <1>10, <1>11 DEF IsScan

LEMMA Declared ==
  ASSUME NEW scan, IsScan(scan), NEW vs \in Seq(Var)
  PROVE  /\ IsScan(DeclareAll(scan, vs))
         /\ NamesOf(DeclareAll(scan, vs).names, vs)
         /\ DeclareAll(scan, vs).names \in Seq(Name)
<1> DEFINE Places(v) == {i \in DOMAIN vs : vs[i] = v}
           table == [v \in Var |-> IF Places(v) = {} THEN scan.table[v] ELSE scan.next + Max(Places(v))]
           names == [i \in DOMAIN vs |-> [var |-> vs[i], sid |-> scan.next + i]]
           n == Len(vs)
<1>1. DeclareAll(scan, vs) = [table |-> table, next |-> scan.next + n, names |-> names]
  BY DEF DeclareAll
<1>2. n \in Nat /\ DOMAIN vs = 1..n /\ \A i \in 1..n : vs[i] \in Var
  BY LenProperties, ElementOfSeq
<1>3. ASSUME NEW v \in Var, Places(v) # {} PROVE Max(Places(v)) \in Nat
  <2>1. Places(v) \subseteq 1..n
    BY <1>2
  <2>2. \E i \in Places(v) : \A j \in Places(v) : i >= j
    <3> HIDE DEF Places
    <3> DEFINE above == {n - i : i \in Places(v)}
    <3>1. above \in SUBSET Nat /\ above # {}
      BY <1>2, <1>3, <2>1
    <3>2. PICK x \in above : \A y \in above : x <= y
      <4> HIDE DEF above
      <4> QED BY <3>1, LeastOf
    <3>3. PICK i \in Places(v) : x = n - i
      BY <3>2
    <3>4. \A j \in Places(v) : n - i <= n - j
      BY <3>2, <3>3
    <3>5. \A j \in Places(v) : i >= j
      BY <1>2, <2>1, <3>4
    <3> QED BY <3>5
  <2>3. Max(Places(v)) \in Places(v)
    BY <2>2 DEF Max
  <2> QED BY <1>2, <2>1, <2>3
<1>4. table \in [Var -> Nat] /\ scan.next + n \in Nat
  <2> HIDE DEF Places
  <2> QED BY <1>2, <1>3 DEF IsScan
<1>5. NamesOf(names, vs) /\ names = [i \in 1..n |-> names[i]]
  <2>1. ASSUME NEW i \in 1..n PROVE names[i] \in Name /\ names[i].var = vs[i] /\ vs[i] # None
    BY <1>2, NoneAssumption DEF Name, IsScan
  <2> QED BY <1>2, <2>1 DEF NamesOf
<1>6. vs \in Seq(Var \cup {None}) /\ \A i \in 1..n : vs[i] # None
  <2>1. vs \in [1..n -> Var \cup {None}]
    BY <1>2, SeqDef
  <2> QED BY <1>2, <2>1, SeqDef, NoneAssumption
<1> HIDE DEF table, names, n
<1>7. names \in Seq(Name)
  BY <1>2, <1>5, <1>6, NamesAreSeq
<1> QED BY <1>1, <1>4, <1>5, <1>7 DEF IsScan

-----------------------------------------------------------------------------
(* The builder. What an instruction says of its statement s.                 *)

VarsOf(names) == {names[i].var : i \in {j \in DOMAIN names : names[j] # None}}

Says(instr, s) ==
  /\ instr.kind = "assign" =>
       /\ s.kind \in {"short", "var", "assign"}
       /\ instr.call = Value(s).call
       /\ VarsOf(instr.reads) = Range(Value(s).reads) \ {None}
       /\ IF instr.lval = None THEN s.kind = "assign" /\ Head(s.targets) = None
          ELSE instr.lval.var \in Bound(s)
  /\ instr.kind = "call" =>
       /\ StandsAlone(s)
       /\ instr.call = Value(s).call
       /\ instr.lval = None
       /\ NamesOf(instr.args, s.args)

(* What has to be among the instructions for node n.                         *)
Covered(instrs, n) ==
  LET s == program[n] IN
  /\ s.place # "branch" /\ s.kind \in {"short", "assign", "call", "return", "if", "test"} =>
       \E k \in DOMAIN instrs : instrs[k].span = n
  /\ \A v \in Bound(s) : \E k \in DOMAIN instrs :
       instrs[k].kind = "assign" /\ instrs[k].span = n /\ instrs[k].lval # None
         /\ instrs[k].lval.var = v
  /\ StandsAlone(s) /\ Value(s).call # None =>
       \E k \in DOMAIN instrs : instrs[k].kind = "call" /\ instrs[k].span = n

BuildTypes ==
  /\ program \in Program
  /\ at \in 1..Len(program)+1
  /\ body \in Seq(Instr)
  /\ nameTable \in [Var -> Nat]
  /\ sids \in Nat
  /\ built \in BOOLEAN

BuildInv ==
  /\ BuildTypes
  /\ \A k \in DOMAIN body : body[k].span \in 1..at-1 /\ Says(body[k], program[body[k].span])
  /\ \A n \in 1..at-1 : Kept(n) => Covered(body, n)
  /\ built => at = Len(program) + 1

LEMMA BuildStarts == BuildInit => BuildInv
<1> SUFFICES ASSUME BuildInit PROVE BuildInv
  OBVIOUS
<1>1. program \in Program /\ at = 1 /\ body = <<>> /\ nameTable = [v \in Var |-> 0] /\ sids = 0
      /\ built = FALSE
  BY DEF BuildInit
<1>2. body \in Seq(Instr) /\ DOMAIN body = {}
  BY <1>1, EmptySeq
<1>3. at \in 1..Len(program)+1 /\ 1..at-1 = {}
  BY <1>1, ProgramFacts
<1> QED BY <1>1, <1>2, <1>3 DEF BuildInv, BuildTypes

(* A statement adds the instructions of new.                                *)
LEMMA BuildGoesOn ==
  ASSUME BuildInv, ~built, program' = program, built' = built,
         nameTable' \in [Var -> Nat], sids' \in Nat,
         NEW new \in Seq(Instr), body' = body \o new,
         at \in DOMAIN program, NEW next \in at+1..Len(program)+1, at' = next,
         \A k \in DOMAIN new : new[k].span = at /\ Says(new[k], program[at]),
         \A n \in at..next-1 : Kept(n) => n = at /\ Covered(new, at)
  PROVE  BuildInv'
<1> DEFINE b == Len(body)
           m == Len(new)
<1>1. /\ program \in Program /\ body \in Seq(Instr) /\ Len(program) \in Nat
      /\ DOMAIN program = 1..Len(program) /\ at \in 1..Len(program)
  BY ProgramFacts DEF BuildInv, BuildTypes
<1>2. b \in Nat /\ m \in Nat /\ DOMAIN body = 1..b /\ DOMAIN new = 1..m
  BY <1>1, LenProperties
<1>3. /\ body' \in Seq(Instr) /\ Len(body') = b + m
      /\ \A k \in 1..b+m : body'[k] = IF k <= b THEN body[k] ELSE new[k - b]
  BY <1>1, ConcatProperties
<1> HIDE DEF b, m
<1>4. DOMAIN body' = 1..b+m
  BY <1>2, <1>3, LenProperties
<1>5. \A k \in 1..b : k \in DOMAIN body' /\ body'[k] = body[k]
  BY <1>2, <1>3, <1>4
<1>6. \A k \in 1..m : b + k \in DOMAIN body' /\ body'[b + k] = new[k]
  <2>1. ASSUME NEW k \in 1..m PROVE b + k \in 1..b+m /\ ~(b + k <= b) /\ (b + k) - b = k
    BY <1>2
  <2> QED BY <1>3, <1>4, <2>1
<1>7. \A k \in 1..b+m : k \in 1..b \/ \E j \in 1..m : k = b + j
  <2>1. ASSUME NEW k \in 1..b+m, k \notin 1..b PROVE k - b \in 1..m /\ k = b + (k - b)
    BY <1>2, <2>1
  <2> QED BY <2>1
<1>8. BuildTypes'
  BY <1>1, <1>3 DEF BuildInv, BuildTypes
<1>9. at \in Nat \ {0} /\ next \in Nat /\ at < next /\ at' = next
  <2>1. at \in Nat \ {0}
    BY <1>1
  <2> QED BY <1>1, <2>1
<1>10. ASSUME NEW k \in DOMAIN body'
      PROVE  body'[k].span \in 1..next-1 /\ Says(body'[k], program'[body'[k].span])
  <2>1. \A i \in 1..at : i \in 1..next-1
    BY <1>9
  <2>2. CASE k \in 1..b
    <3>1. body[k].span \in 1..at-1 /\ Says(body[k], program[body[k].span])
      BY <1>2, <2>2 DEF BuildInv
    <3>2. body[k].span \in 1..at
      BY <1>9, <3>1
    <3> QED BY <1>5, <2>1, <2>2, <3>1, <3>2
  <2>3. ASSUME NEW j \in 1..m, k = b + j
        PROVE  body'[k].span \in 1..next-1 /\ Says(body'[k], program'[body'[k].span])
    <3>1. at \in 1..at
      BY <1>9
    <3>2. new[j].span = at /\ Says(new[j], program[at])
      BY <1>2
    <3>3. body'[k] = new[j]
      BY <1>6, <2>3
    <3> QED BY <2>1, <3>1, <3>2, <3>3
  <2> QED BY <1>4, <1>7, <2>2, <2>3
<1>11. ASSUME NEW n \in 1..next-1, Kept(n) PROVE Covered(body, n)'
  <2>1. \A i \in 1..next-1 : i \in 1..at-1 \/ i \in at..next-1
    BY <1>9
  <2>2. ASSUME Covered(body, n) PROVE Covered(body, n)'
    BY <1>2, <1>5, <2>2 DEF Covered
  <2>3. ASSUME Covered(new, n) PROVE Covered(body, n)'
    <3>1. \A k \in DOMAIN new : \E j \in DOMAIN body' : body'[j] = new[k]
      BY <1>2, <1>6
    <3>2. program' = program
      OBVIOUS
    <3> QED BY ONLY <2>3, <3>1, <3>2 DEF Covered
  <2> QED BY <1>11, <2>1, <2>2, <2>3 DEF BuildInv
<1>12. \A n : Kept(n)' = Kept(n)
  BY DEF Kept, PassedOver, Span
<1> QED BY <1>8, <1>10, <1>11, <1>12 DEF BuildInv

LEMMA OnNode ==
  ASSUME BuildInv, AtNode
  PROVE  /\ ~built /\ program' = program /\ built' = built
         /\ at \in DOMAIN program /\ at \in 1..MaxNodes /\ at \in Nat
         /\ Len(program) \in Nat /\ at + 1 \in at+1..Len(program)+1 /\ at..(at+1)-1 = {at}
         /\ IsScan(Scan) /\ nameTable \in [Var -> Nat] /\ sids \in Nat
         /\ body \in Seq(Instr) /\ program \in Program
<1>1. ~built /\ program' = program /\ built' = built /\ at <= Len(program)
  BY DEF AtNode
<1>2. /\ program \in Program /\ at \in 1..Len(program)+1 /\ body \in Seq(Instr)
      /\ nameTable \in [Var -> Nat] /\ sids \in Nat
  BY DEF BuildInv, BuildTypes
<1>3. Len(program) \in Nat /\ DOMAIN program = 1..Len(program) /\ Len(program) <= MaxNodes
  BY <1>2, ProgramFacts
<1>4. at \in 1..Len(program) /\ at \in 1..MaxNodes /\ at \in Nat
  BY <1>1, <1>2, <1>3, MaxNodesAssumption
<1>5. IsScan(Scan)
  BY <1>2 DEF IsScan, Scan
<1> QED BY <1>1, <1>2, <1>3, <1>4, <1>5

(* A statement that adds nothing, or one instruction.                        *)
LEMMA AddsNothing ==
  ASSUME BuildInv, AtNode, body' = body,
         nameTable' \in [Var -> Nat], sids' \in Nat, at' = at + 1,
         Covered(<<>>, at)
  PROVE  BuildInv'
<1>1. <<>> \in Seq(Instr) /\ body' = body \o <<>> /\ DOMAIN <<>> = {}
  BY OnNode, EmptySeq, ConcatEmptySeq
<1>2. \A n \in at..(at+1)-1 : Kept(n) => n = at /\ Covered(<<>>, at)
  BY OnNode
<1> QED BY <1>1, <1>2, OnNode, BuildGoesOn

LEMMA AddsOne ==
  ASSUME BuildInv, AtNode, NEW x \in Instr, body' = Append(body, x),
         nameTable' \in [Var -> Nat], sids' \in Nat,
         NEW next \in at+1..Len(program)+1, at' = next,
         \A n \in at+1..next-1 : ~Kept(n),
         x.span = at, Says(x, program[at]), Covered(<<x>>, at)
  PROVE  BuildInv'
<1>1. <<x>> \in Seq(Instr) /\ body' = body \o <<x>> /\ DOMAIN <<x>> = {1} /\ <<x>>[1] = x
  BY OnNode, AppendIsConcat
<1>2. \A n \in at..next-1 : Kept(n) => n = at /\ Covered(<<x>>, at)
  <2>1. \A n \in at..next-1 : n = at \/ n \in at+1..next-1
    BY OnNode
  <2> QED BY <2>1
<1>3. \A k \in DOMAIN <<x>> : <<x>>[k].span = at /\ Says(<<x>>[k], program[at])
  BY <1>1
<1> QED BY <1>1, <1>2, <1>3, OnNode, BuildGoesOn

LEMMA AddsOneHere ==
  ASSUME BuildInv, AtNode, NEW x \in Instr, body' = Append(body, x),
         nameTable' \in [Var -> Nat], sids' \in Nat, at' = at + 1,
         x.span = at, Says(x, program[at]), Covered(<<x>>, at)
  PROVE  BuildInv'
<1>1. \A n \in at+1..(at+1)-1 : ~Kept(n)
  BY OnNode
<1> QED BY <1>1, OnNode, AddsOne

(* The names found are those of the variables read.                          *)
LEMMA VarsFound ==
  ASSUME NEW vs \in Seq(Var \cup {None}), NEW names, NamesOf(names, vs)
  PROVE  VarsOf(names) = Range(vs) \ {None}
<1>1. \A n \in Name : n # None
  BY NoneAssumption
<1>2. \A i \in DOMAIN vs : names[i] # None <=> vs[i] # None
  BY <1>1 DEF NamesOf
<1>3. \A i \in DOMAIN vs : vs[i] # None => names[i].var = vs[i]
  BY DEF NamesOf
<1>4. DOMAIN names = DOMAIN vs
  BY DEF NamesOf
<1> QED BY <1>2, <1>3, <1>4 DEF VarsOf, Range

LEMMA SeqOfVars == ASSUME NEW vs \in Seq(Var) PROVE vs \in Seq(Var \cup {None})
<1>1. vs \in [1..Len(vs) -> Var] /\ Len(vs) \in Nat
  BY LenProperties
<1>2. vs \in [1..Len(vs) -> Var \cup {None}]
  BY <1>1
<1> QED BY <1>1, <1>2, SeqDef

(* The first of a list of targets.                                          *)
LEMMA FirstOf ==
  ASSUME NEW S, NEW vs \in Seq(S), vs # <<>>
  PROVE  /\ Head(vs) \in S /\ <<Head(vs)>> \in Seq(S) /\ DOMAIN <<Head(vs)>> = {1}
         /\ <<Head(vs)>>[1] = Head(vs)
BY HeadTailProperties

(* An assignment made from a new instruction.                                *)
AssignInstr(l, c, r) ==
  [kind |-> "assign", lval |-> l, call |-> c, reads |-> r, args |-> <<>>, span |-> at]
LEMMA IsAssignInstr ==
  ASSUME NEW l, NEW c, NEW r
  PROVE  [NewInstr("assign") EXCEPT !.lval = l, !.call = c, !.reads = r] = AssignInstr(l, c, r)
<1> DEFINE Rec(x, y, z) ==
             [kind |-> "assign", lval |-> x, call |-> y, reads |-> z, args |-> <<>>, span |-> at]
           f == Rec(None, None, <<>>)
           g == Rec(l, None, <<>>)
           h == Rec(l, c, <<>>)
           i == Rec(l, c, r)
<1>1. [f EXCEPT !.lval = l] = g /\ [g EXCEPT !.call = c] = h /\ [h EXCEPT !.reads = r] = i
  OBVIOUS
<1> HIDE DEF f, g, h, i, Rec
<1>2. [f EXCEPT !.lval = l, !.call = c, !.reads = r] = i
  BY <1>1
<1> QED BY <1>2 DEF f, i, Rec, NewInstr, AssignInstr

LEMMA ArgsOf ==
  ASSUME NEW k, NEW l, NEW c, NEW r, NEW a, NEW n, NEW b
  PROVE  [[kind |-> k, lval |-> l, call |-> c, reads |-> r, args |-> a, span |-> n] EXCEPT !.args = b]
           = [kind |-> k, lval |-> l, call |-> c, reads |-> r, args |-> b, span |-> n]
OBVIOUS

LEMMA IsCallInstr ==
  ASSUME NEW c, NEW names
  PROVE  [NewInstr("call") EXCEPT !.call = c, !.args = names]
           = [kind |-> "call", lval |-> None, call |-> c, reads |-> <<>>, args |-> names, span |-> at]
<1> DEFINE Rec(x, y) ==
             [kind |-> "call", lval |-> None, call |-> x, reads |-> <<>>, args |-> y, span |-> at]
           f == Rec(None, <<>>)
           g == Rec(c, <<>>)
           h == Rec(c, names)
<1>1. [f EXCEPT !.call = c] = g
  OBVIOUS
<1>2. [g EXCEPT !.args = names] = h
  <2>1. [[kind |-> "call", lval |-> None, call |-> c, reads |-> <<>>, args |-> <<>>, span |-> at]
            EXCEPT !.args = names]
          = [kind |-> "call", lval |-> None, call |-> c, reads |-> <<>>, args |-> names, span |-> at]
    BY ArgsOf
  <2> QED BY <2>1
<1> HIDE DEF f, g, h, Rec
<1>3. [f EXCEPT !.call = c, !.args = names] = h
  BY <1>1, <1>2
<1> QED BY <1>3 DEF f, h, Rec, NewInstr

LEMMA IsReadInstr ==
  ASSUME NEW kind, NEW c, NEW r
  PROVE  [NewInstr(kind) EXCEPT !.call = c, !.reads = r]
           = [kind |-> kind, lval |-> None, call |-> c, reads |-> r, args |-> <<>>, span |-> at]
<1> DEFINE Rec(x, y) ==
             [kind |-> kind, lval |-> None, call |-> x, reads |-> y, args |-> <<>>, span |-> at]
           f == Rec(None, <<>>)
           g == Rec(c, <<>>)
           h == Rec(c, r)
<1>1. [f EXCEPT !.call = c] = g /\ [g EXCEPT !.reads = r] = h
  OBVIOUS
<1> HIDE DEF f, g, h, Rec
<1>2. [f EXCEPT !.call = c, !.reads = r] = h
  BY <1>1
<1> QED BY <1>2 DEF f, h, Rec, NewInstr

LEMMA AssignIsInstr ==
  ASSUME at \in 1..MaxNodes, NEW l \in Name \cup {None}, NEW c \in Func \cup {None},
         NEW r \in Seq(Name \cup {None})
  PROVE  AssignInstr(l, c, r) \in Instr
<1>1. <<>> \in Seq(Name \cup {None})
  BY EmptySeq
<1> QED BY <1>1 DEF Instr, InstrKind, AssignInstr

LEMMA AtShort == ASSUME BuildInv, ShortVarDecl PROVE BuildInv'
<1> DEFINE s == program[at]
           target == DeclareAll(Scan, <<Head(s.targets)>>)
           value == ResolveAll(target, Value(s).reads)
           x == AssignInstr(target.names[1], Value(s).call, value.names)
<1>1. AtNode /\ at' = at + 1 /\ Names(value) /\ s.kind = "short" /\ s.place # "branch"
  BY DEF ShortVarDecl, Visiting
<1>2. body' = Append(body, x)
  BY IsAssignInstr DEF ShortVarDecl
<1>3. at \in DOMAIN program /\ at \in 1..MaxNodes /\ IsScan(Scan) /\ program \in Program
  BY <1>1, OnNode
<1>4. /\ s.targets \in Seq(Var) /\ s.targets # <<>> /\ Value(s).call \in Func \cup {None}
      /\ Value(s).reads \in Seq(Var \cup {None})
  BY <1>1, <1>3, ProgramFacts
<1> HIDE DEF s
<1> DEFINE first == Head(s.targets)
<1>5. first \in Var /\ <<first>> \in Seq(Var) /\ DOMAIN <<first>> = {1} /\ <<first>>[1] = first
      /\ first # None
  BY <1>4, FirstOf, NoneAssumption
<1>6. IsScan(target) /\ NamesOf(target.names, <<first>>)
  BY <1>3, <1>5, Declared
<1> HIDE DEF first
<1>7. target.names[1] \in Name /\ target.names[1].var = first /\ target.names[1] # None
  <2>1. target.names[1] \in Name /\ target.names[1].var = first
    BY <1>5, <1>6 DEF NamesOf
  <2> QED BY <2>1, NoneAssumption
<1> HIDE DEF target
<1>8. /\ IsScan(value) /\ NamesOf(value.names, Value(s).reads)
      /\ value.names \in Seq(Name \cup {None})
  BY <1>4, <1>6, Resolved
<1> HIDE DEF value
<1>9. nameTable' \in [Var -> Nat] /\ sids' \in Nat
  BY <1>1, <1>8 DEF Names, IsScan
<1>10. x \in Instr /\ x.span = at
  BY <1>3, <1>4, <1>7, <1>8, AssignIsInstr DEF AssignInstr
<1>11. Bound(s) = {first}
  BY <1>1, <1>5 DEF Bound, first
<1>12. Says(x, s)
  <2>1. VarsOf(value.names) = Range(Value(s).reads) \ {None}
    BY <1>4, <1>8, VarsFound
  <2> QED BY <1>1, <1>7, <1>11, <2>1 DEF Says, AssignInstr
<1>13. Covered(<<x>>, at)
  <2>1. 1 \in DOMAIN <<x>> /\ <<x>>[1] = x
    OBVIOUS
  <2>2. x.kind = "assign" /\ x.span = at /\ x.lval # None /\ x.lval.var = first
    BY <1>7 DEF AssignInstr
  <2>3. ~StandsAlone(s)
    BY <1>1 DEF StandsAlone
  <2> HIDE DEF x
  <2> QED BY <1>11, <2>1, <2>2, <2>3 DEF Covered, s
<1> HIDE DEF x
<1> QED BY <1>1, <1>2, <1>9, <1>10, <1>12, <1>13, AddsOneHere DEF s

LEMMA AtAssign == ASSUME BuildInv, Assignment PROVE BuildInv'
<1> DEFINE s == program[at]
           target == ResolveAll(Scan, <<Head(s.targets)>>)
           value == ResolveAll(target, Value(s).reads)
           l == target.names[1]
           x == AssignInstr(l, Value(s).call, value.names)
<1>1. AtNode /\ at' = at + 1 /\ Names(value) /\ s.kind = "assign" /\ s.place # "branch"
  BY DEF Assignment, Visiting
<1>2. body' = Append(body, x)
  BY IsAssignInstr DEF Assignment
<1>3. at \in DOMAIN program /\ at \in 1..MaxNodes /\ IsScan(Scan) /\ program \in Program
  BY <1>1, OnNode
<1>4. /\ s.targets \in Seq(Var \cup {None}) /\ s.targets # <<>>
      /\ Value(s).call \in Func \cup {None} /\ Value(s).reads \in Seq(Var \cup {None})
  BY <1>1, <1>3, ProgramFacts
<1> HIDE DEF s
<1> DEFINE first == Head(s.targets)
<1>5. first \in Var \cup {None} /\ <<first>> \in Seq(Var \cup {None})
      /\ DOMAIN <<first>> = {1} /\ <<first>>[1] = first
  BY <1>4, FirstOf
<1>6. IsScan(target) /\ NamesOf(target.names, <<first>>)
  BY <1>3, <1>5, Resolved
<1> HIDE DEF first
<1>7. \/ l = None /\ first = None
      \/ l \in Name /\ l # None /\ l.var = first /\ first \in Var
  <2>1. IF first = None THEN l = None ELSE l \in Name /\ l.var = first
    BY <1>5, <1>6 DEF NamesOf
  <2> QED BY <1>5, <2>1, NoneAssumption
<1> HIDE DEF target, l
<1>8. /\ IsScan(value) /\ NamesOf(value.names, Value(s).reads)
      /\ value.names \in Seq(Name \cup {None})
  BY <1>4, <1>6, Resolved
<1> HIDE DEF value
<1>9. nameTable' \in [Var -> Nat] /\ sids' \in Nat
  BY <1>1, <1>8 DEF Names, IsScan
<1>10. x \in Instr /\ x.span = at
  BY <1>3, <1>4, <1>7, <1>8, AssignIsInstr DEF AssignInstr
<1>11. Bound(s) = {first} \ {None}
  BY <1>1, <1>5, NoneAssumption DEF Bound, first
<1>12. Says(x, s)
  <2>1. VarsOf(value.names) = Range(Value(s).reads) \ {None}
    BY <1>4, <1>8, VarsFound
  <2>2. l # None => l.var \in Bound(s)
    BY <1>7, <1>11, NoneAssumption
  <2> QED BY <1>1, <1>7, <2>1, <2>2 DEF Says, AssignInstr, first
<1>13. Covered(<<x>>, at)
  <2>1. 1 \in DOMAIN <<x>> /\ <<x>>[1] = x
    OBVIOUS
  <2>2. x.kind = "assign" /\ x.span = at /\ x.lval = l
    BY DEF AssignInstr
  <2>3. ~StandsAlone(s)
    BY <1>1 DEF StandsAlone
  <2> HIDE DEF x
  <2> QED BY <1>7, <1>11, <2>1, <2>2, <2>3 DEF Covered, s
<1> HIDE DEF x
<1> QED BY <1>1, <1>2, <1>9, <1>10, <1>12, <1>13, AddsOneHere DEF s

LEMMA AtVar == ASSUME BuildInv, VarDecl PROVE BuildInv'
<1> DEFINE s == program[at]
           value == ResolveAll(Scan, Value(s).reads)
           leaves == DeclareAll(value, s.targets)
           m == Len(s.targets)
           x(l) == AssignInstr(l, Value(s).call, value.names)
           new == [k \in DOMAIN leaves.names |-> x(leaves.names[k])]
<1>1. AtNode /\ at' = at + 1 /\ Names(leaves) /\ s.kind = "var" /\ s.place # "branch"
  BY DEF VarDecl, Visiting
<1>2. body' = body \o new
  BY IsAssignInstr DEF VarDecl
<1>3. at \in DOMAIN program /\ at \in 1..MaxNodes /\ IsScan(Scan) /\ program \in Program
  BY <1>1, OnNode
<1>4. /\ s.targets \in Seq(Var) /\ Value(s).call \in Func \cup {None}
      /\ Value(s).reads \in Seq(Var \cup {None})
  BY <1>1, <1>3, ProgramFacts
<1> HIDE DEF s
<1>5. /\ IsScan(value) /\ NamesOf(value.names, Value(s).reads)
      /\ value.names \in Seq(Name \cup {None})
  BY <1>3, <1>4, Resolved
<1> HIDE DEF value
<1>6. IsScan(leaves) /\ NamesOf(leaves.names, s.targets) /\ leaves.names \in Seq(Name)
  BY <1>4, <1>5, Declared
<1> HIDE DEF leaves
<1>7. m \in Nat /\ DOMAIN s.targets = 1..m /\ \A i \in 1..m : s.targets[i] # None
  BY <1>4, LenProperties, ElementOfSeq, NoneAssumption
<1> HIDE DEF m
<1>8. /\ DOMAIN leaves.names = 1..m
      /\ \A i \in 1..m : /\ leaves.names[i] \in Name /\ leaves.names[i] # None
                         /\ leaves.names[i].var = s.targets[i]
  BY <1>6, <1>7, NoneAssumption DEF NamesOf
<1>9. nameTable' \in [Var -> Nat] /\ sids' \in Nat
  BY <1>1, <1>6 DEF Names, IsScan
<1>10. Bound(s) = Range(s.targets)
  <2>1. Range(s.targets) \subseteq Var
    BY <1>4, <1>7, ElementOfSeq DEF Range
  <2> QED BY <1>1, <2>1 DEF Bound
<1>11. ASSUME NEW l \in Name, l # None, l.var \in Range(s.targets)
       PROVE  x(l) \in Instr /\ x(l).span = at /\ Says(x(l), s)
  <2>1. x(l) \in Instr /\ x(l).span = at
    BY <1>3, <1>4, <1>5, AssignIsInstr DEF AssignInstr
  <2>2. VarsOf(value.names) = Range(Value(s).reads) \ {None}
    BY <1>4, <1>5, VarsFound
  <2> QED BY <1>1, <1>11, <1>10, <2>1, <2>2 DEF Says, AssignInstr
<1>12. ASSUME NEW l PROVE x(l).kind = "assign" /\ x(l).lval = l /\ x(l).span = at
  BY DEF AssignInstr
<1> HIDE DEF x
<1>13. \A k \in 1..m : leaves.names[k].var \in Range(s.targets)
  BY <1>7, <1>8 DEF Range
<1>14. DOMAIN new = 1..m /\ \A k \in 1..m : new[k] = x(leaves.names[k])
  BY <1>8
<1>15. new \in [1..m -> Instr]
  BY <1>8, <1>11, <1>13, <1>14
<1>16. new \in Seq(Instr)
  BY <1>7, <1>15, SeqDef
<1>17. \A k \in DOMAIN new : new[k].span = at /\ Says(new[k], s)
  BY <1>8, <1>11, <1>13, <1>14
<1>18. Covered(new, at)
  <2>1. ASSUME NEW v \in Range(s.targets)
        PROVE  \E k \in DOMAIN new : /\ new[k].kind = "assign" /\ new[k].span = at
                                     /\ new[k].lval # None /\ new[k].lval.var = v
    <3>1. PICK k \in 1..m : s.targets[k] = v
      BY <1>7 DEF Range
    <3> QED BY <1>8, <1>12, <1>14, <3>1
  <2>2. ~StandsAlone(s) /\ s.kind = "var"
    BY <1>1 DEF StandsAlone
  <2> HIDE DEF new
  <2> QED BY <1>10, <2>1, <2>2 DEF Covered, s
<1> HIDE DEF new
<1>19. \A n \in at..(at+1)-1 : Kept(n) => n = at /\ Covered(new, at)
  BY <1>1, <1>18, OnNode
<1> QED BY <1>1, <1>2, <1>9, <1>16, <1>17, <1>19, OnNode, BuildGoesOn DEF s

(* A call instruction, for a call that stands alone or in a branch.          *)
LEMMA AtEmittedCall ==
  ASSUME BuildInv, AtNode, StandsAlone(program[at]),
         EmitCall(Value(program[at]).call, program[at].args), at' = at + 1,
         program[at].place = "branch" \/ program[at].kind = "call"
  PROVE  BuildInv'
<1> DEFINE s == program[at]
           found == ResolveAll(Scan, s.args)
           x == [kind |-> "call", lval |-> None, call |-> Value(s).call, reads |-> <<>>,
                 args |-> found.names, span |-> at]
<1>1. body' = Append(body, x) /\ Names(found)
  BY IsCallInstr DEF EmitCall
<1>2. at \in DOMAIN program /\ at \in 1..MaxNodes /\ IsScan(Scan) /\ program \in Program
  BY OnNode
<1>3. s.args \in Seq(Var \cup {None}) /\ Value(s).call \in Func \cup {None}
  BY <1>2, ProgramFacts
<1>4. StandsAlone(s) /\ Bound(s) = {}
  BY DEF Bound
<1> HIDE DEF s
<1>5. IsScan(found) /\ NamesOf(found.names, s.args) /\ found.names \in Seq(Name \cup {None})
  BY <1>2, <1>3, Resolved
<1> HIDE DEF found
<1>6. nameTable' \in [Var -> Nat] /\ sids' \in Nat
  BY <1>1, <1>5 DEF Names, IsScan
<1>7. x \in Instr /\ x.span = at
  <2>1. <<>> \in Seq(Name \cup {None})
    BY EmptySeq
  <2> QED BY <1>2, <1>3, <1>5, <2>1 DEF Instr, InstrKind
<1>8. Says(x, s)
  BY <1>4, <1>5 DEF Says
<1>9. Covered(<<x>>, at)
  <2>1. 1 \in DOMAIN <<x>> /\ <<x>>[1] = x
    OBVIOUS
  <2>2. x.kind = "call" /\ x.span = at
    OBVIOUS
  <2> HIDE DEF x
  <2> QED BY <1>4, <2>1, <2>2 DEF Covered, s
<1> HIDE DEF x
<1> QED BY <1>1, <1>6, <1>7, <1>8, <1>9, AddsOneHere DEF s

LEMMA AtCall == ASSUME BuildInv, CallStatement PROVE BuildInv'
<1>1. /\ AtNode /\ program[at].kind = "call" /\ at' = at + 1
      /\ EmitCall(Value(program[at]).call, program[at].args)
  BY DEF CallStatement, Visiting
<1>2. StandsAlone(program[at])
  BY <1>1 DEF StandsAlone
<1> QED BY <1>1, <1>2, AtEmittedCall

LEMMA AtBranch == ASSUME BuildInv, Branch PROVE BuildInv'
<1> DEFINE s == program[at]
<1>1. AtNode /\ s.place = "branch" /\ at' = at + 1
  BY DEF Branch
<1>2. CASE s.kind \in {"if", "return", "call"} /\ Value(s).call # None
  <2>1. StandsAlone(s)
    BY <1>1, <1>2 DEF StandsAlone
  <2> QED BY <1>1, <1>2, <2>1, AtEmittedCall DEF Branch
<1>3. CASE ~(s.kind \in {"if", "return", "call"} /\ Value(s).call # None)
  <2>1. body' = body /\ nameTable' = nameTable /\ sids' = sids
    BY <1>3 DEF Branch
  <2>2. Bound(s) = {} /\ ~(StandsAlone(s) /\ Value(s).call # None)
    BY <1>1, <1>3 DEF Bound, StandsAlone
  <2>3. Covered(<<>>, at)
    BY <1>1, <2>2 DEF Covered
  <2> QED BY <1>1, <2>1, <2>3, OnNode, AddsNothing
<1> QED BY <1>2, <1>3

LEMMA AtExpr == ASSUME BuildInv, ExprStatement PROVE BuildInv'
<1> DEFINE found == ResolveAll(Scan, Value(program[at]).reads)
<1>1. AtNode /\ program[at].kind = "expr" /\ program[at].place # "branch"
      /\ Names(found) /\ at' = at + 1 /\ body' = body
  BY DEF ExprStatement, Visiting
<1>2. IsScan(Scan) /\ Value(program[at]).reads \in Seq(Var \cup {None})
  BY <1>1, OnNode, ProgramFacts
<1>3. IsScan(found)
  BY <1>2, Resolved
<1> HIDE DEF found
<1>4. nameTable' \in [Var -> Nat] /\ sids' \in Nat
  BY <1>1, <1>3 DEF Names, IsScan
<1>5. Covered(<<>>, at)
  BY <1>1 DEF Covered, Bound, StandsAlone
<1> QED BY <1>1, <1>4, <1>5, AddsNothing

(* The instruction of a return or a condition.                               *)
LEMMA AtEmittedRead ==
  ASSUME BuildInv, AtNode, NEW kind \in {"return", "branch"}, EmitRead(kind),
         program[at].kind \in {"return", "if", "test"}, program[at].place # "branch",
         NEW next \in at+1..Len(program)+1, at' = next, \A n \in at+1..next-1 : ~Kept(n)
  PROVE  BuildInv'
<1> DEFINE s == program[at]
           found == ResolveAll(Scan, Value(s).reads)
           x == [kind |-> kind, lval |-> None, call |-> Value(s).call, reads |-> found.names,
                 args |-> <<>>, span |-> at]
<1>1. Names(found)
  BY DEF EmitRead
<1>2. body' = Append(body, x)
  <2>1. body' = Append(body, [NewInstr(kind) EXCEPT !.call = Value(s).call, !.reads = found.names])
    BY DEF EmitRead
  <2>2. [NewInstr(kind) EXCEPT !.call = Value(s).call, !.reads = found.names] = x
    <3>1. \A c, r : [NewInstr(kind) EXCEPT !.call = c, !.reads = r]
                      = [kind |-> kind, lval |-> None, call |-> c, reads |-> r,
                         args |-> <<>>, span |-> at]
      BY IsReadInstr
    <3> QED BY ONLY <3>1
  <2> QED BY <2>1, <2>2
<1>3. at \in DOMAIN program /\ at \in 1..MaxNodes /\ IsScan(Scan) /\ program \in Program
  BY OnNode
<1>4. Value(s).reads \in Seq(Var \cup {None}) /\ Value(s).call \in Func \cup {None}
  BY <1>3, ProgramFacts
<1>5. Bound(s) = {} /\ ~StandsAlone(s)
  BY DEF Bound, StandsAlone
<1> HIDE DEF s
<1>6. IsScan(found) /\ found.names \in Seq(Name \cup {None})
  BY <1>3, <1>4, Resolved
<1> HIDE DEF found
<1>7. nameTable' \in [Var -> Nat] /\ sids' \in Nat
  BY <1>1, <1>6 DEF Names, IsScan
<1>8. x \in Instr /\ x.span = at
  <2>1. <<>> \in Seq(Name \cup {None})
    BY EmptySeq
  <2> QED BY <1>3, <1>4, <1>6, <2>1 DEF Instr, InstrKind
<1>9. Says(x, s)
  BY DEF Says
<1>10. Covered(<<x>>, at)
  <2>1. 1 \in DOMAIN <<x>> /\ <<x>>[1] = x
    OBVIOUS
  <2>2. x.span = at
    OBVIOUS
  <2> HIDE DEF x
  <2> QED BY <1>5, <2>1, <2>2 DEF Covered, s
<1> HIDE DEF x
<1> QED BY <1>2, <1>7, <1>8, <1>9, <1>10, AddsOne DEF s

LEMMA AtReturnOrTest == ASSUME BuildInv, ReturnOrTest PROVE BuildInv'
<1> DEFINE kind == IF program[at].kind = "return" THEN "return" ELSE "branch"
<1>1. /\ AtNode /\ program[at].kind \in {"return", "test"} /\ program[at].place # "branch"
      /\ EmitRead(kind) /\ at' = at + 1
  BY DEF ReturnOrTest, Visiting
<1>2. kind \in {"return", "branch"}
  OBVIOUS
<1> HIDE DEF kind
<1>3. \A n \in at+1..(at+1)-1 : ~Kept(n)
  BY <1>1, OnNode
<1> QED BY <1>1, <1>2, <1>3, OnNode, AtEmittedRead

(* What lies in the initializer is passed over.                              *)
LEMMA AtIf == ASSUME BuildInv, If PROVE BuildInv'
<1> DEFINE m == at + 1
           size == InitializerSize(at)
           next == at + 1 + size
<1>1. /\ AtNode /\ program[at].kind = "if" /\ program[at].place # "branch"
      /\ EmitRead("branch") /\ at' = next
  BY DEF If, Visiting
<1>2. at \in Nat /\ Len(program) \in Nat /\ at + 1 \in at+1..Len(program)+1 /\ program \in Program
  BY <1>1, OnNode
<1>3. next \in at+1..Len(program)+1 /\ \A n \in at+1..next-1 : ~Kept(n)
  <2>1. CASE m \in DOMAIN program /\ program[m].place = "init"
    <3>1. size = program[m].size
      BY <2>1 DEF InitializerSize
    <3>2. program[m].size \in Nat \ {0} /\ m + program[m].size - 1 <= Len(program)
      BY <1>2, <2>1, ProgramFacts
    <3> HIDE DEF size
    <3>3. next \in at+1..Len(program)+1
      BY <1>2, <3>1, <3>2
    <3>4. PassedOver(m)
      <4>1. m - 1 = at
        BY <1>2
      <4> QED BY <1>1, <2>1, <4>1 DEF PassedOver
    <3>5. Span(m) = at+1..next-1
      <4>1. m + (program[m].size - 1) = next - 1 /\ m + program[m].size - 1 = next - 1
        BY <1>2, <3>1, <3>2
      <4> QED BY <4>1 DEF Span
    <3> QED BY <2>1, <3>3, <3>4, <3>5 DEF Kept
  <2>2. CASE ~(m \in DOMAIN program /\ program[m].place = "init")
    <3>1. size = 0
      BY <2>2 DEF InitializerSize
    <3>2. next = at + 1 /\ ~\E n \in at+1..next-1 : TRUE
      BY <1>2, <3>1
    <3> QED BY <1>2, <3>2
  <2> QED BY <2>1, <2>2
<1> HIDE DEF next
<1> QED BY <1>1, <1>3, AtEmittedRead

LEMMA AtContainer == ASSUME BuildInv, Container PROVE BuildInv'
<1>1. /\ AtNode /\ at' = at + 1 /\ program[at].kind \in {"for", "block"}
      /\ program[at].place # "branch" /\ body' = body /\ nameTable' = nameTable /\ sids' = sids
  BY DEF Container, Visiting
<1>2. Covered(<<>>, at)
  BY <1>1 DEF Covered, Bound, StandsAlone
<1> QED BY <1>1, <1>2, OnNode, AddsNothing

(* What lies in an unsupported construct is not spared.                      *)
LEMMA AtUnsupported == ASSUME BuildInv, Unsupported PROVE BuildInv'
<1> DEFINE s == program[at]
           x == NewInstr("fixme")
           next == at + s.size
           new == IF s.kind = "fixme" THEN <<x>> ELSE <<>>
<1>1. /\ AtNode /\ s.kind \in {"fixme", "other"} /\ s.place # "branch"
      /\ at' = next /\ nameTable' = nameTable /\ sids' = sids
      /\ body' = IF s.kind = "fixme" THEN Append(body, x) ELSE body
  BY DEF Unsupported, Visiting
<1>2. /\ at \in DOMAIN program /\ at \in 1..MaxNodes
      /\ program \in Program /\ body \in Seq(Instr) /\ at \in Nat /\ Len(program) \in Nat
  BY <1>1, OnNode
<1>3. s.size \in Nat \ {0} /\ at + s.size - 1 <= Len(program)
  BY <1>2, ProgramFacts
<1>4. next \in at+1..Len(program)+1
  <2> HIDE DEF s
  <2> QED BY <1>2, <1>3
<1>5. x \in Instr /\ x.kind = "fixme" /\ x.span = at
  <2>1. <<>> \in Seq(Name \cup {None}) /\ <<>> \in Seq(Name)
    BY EmptySeq
  <2> QED BY <1>2, <2>1 DEF Instr, InstrKind, NewInstr
<1> HIDE DEF x
<1>6. new \in Seq(Instr) /\ body' = body \o new
  BY <1>1, <1>2, <1>5, AppendIsConcat, EmptySeq, ConcatEmptySeq
<1>7. \A k \in DOMAIN new : new[k] = x
  OBVIOUS
<1>8. \A k \in DOMAIN new : new[k].span = at /\ Says(new[k], s)
  <2>1. Says(x, s)
    BY <1>5 DEF Says
  <2> QED BY <1>5, <1>7, <2>1
<1>9. \A n \in at..next-1 : ~Kept(n)
  <2>1. Span(at) = at..next-1
    <3>1. at + (s.size - 1) = (at + s.size) - 1
      <4> HIDE DEF s
      <4> QED BY <1>2, <1>3
    <3> QED BY <3>1 DEF Span
  <2>2. PassedOver(at)
    BY <1>1 DEF PassedOver
  <2> QED BY <1>2, <2>1, <2>2 DEF Kept
<1> HIDE DEF new, next
<1> QED BY <1>1, <1>2, <1>4, <1>6, <1>8, <1>9, OnNode, BuildGoesOn DEF s

LEMMA AtEnd == ASSUME BuildInv, EndOfFunction PROVE BuildInv'
<1>1. /\ ~built /\ built' = TRUE /\ at > Len(program)
      /\ UNCHANGED <<program, at, body, nameTable, sids>>
  BY DEF EndOfFunction
<1>2. Len(program) \in Nat /\ at \in 1..Len(program)+1
  BY ProgramFacts DEF BuildInv, BuildTypes
<1>3. at = Len(program) + 1
  BY <1>1, <1>2
<1>4. \A n : Kept(n)' = Kept(n) /\ Covered(body, n)' = Covered(body, n)
  BY <1>1 DEF Kept, PassedOver, Span, Covered
<1>5. BuildTypes'
  BY <1>1 DEF BuildInv, BuildTypes
<1>6. /\ at' = at /\ body' = body /\ program' = program
  BY <1>1
<1> QED BY <1>3, <1>4, <1>5, <1>6 DEF BuildInv

LEMMA BuildStays == ASSUME BuildInv, UNCHANGED ilVars PROVE BuildInv'
<1>1. \A n : Kept(n)' = Kept(n) /\ Covered(body, n)' = Covered(body, n)
  BY DEF Kept, PassedOver, Span, Covered, ilVars
<1>2. BuildTypes'
  BY DEF BuildInv, BuildTypes, ilVars
<1> QED BY <1>1, <1>2 DEF BuildInv, ilVars

LEMMA BuildSteps == ASSUME BuildInv, BuildStep PROVE BuildInv'
<1>1. CASE ShortVarDecl \/ VarDecl \/ Assignment
  BY <1>1, AtShort, AtVar, AtAssign
<1>2. CASE CallStatement \/ ExprStatement \/ ReturnOrTest \/ If
  BY <1>2, AtCall, AtExpr, AtReturnOrTest, AtIf
<1>3. CASE Branch \/ Container \/ Unsupported \/ EndOfFunction
  BY <1>3, AtBranch, AtContainer, AtUnsupported, AtEnd
<1> QED BY <1>1, <1>2, <1>3 DEF BuildStep

(* The invariant gives what the runs check.                                  *)
LEMMA Survive == BuildInv => StatementsSurvive
<1> SUFFICES ASSUME BuildInv, built, NEW n \in DOMAIN program,
                    program[n].kind \in {"short", "assign", "call", "return", "if", "test"},
                    program[n].place # "branch", Kept(n)
             PROVE  \E k \in DOMAIN body : body[k].span = n
  BY DEF StatementsSurvive
<1>1. Len(program) \in Nat /\ DOMAIN program = 1..Len(program) /\ at = Len(program) + 1
  BY ProgramFacts DEF BuildInv, BuildTypes
<1>2. n \in 1..at-1
  BY <1>1
<1>3. Covered(body, n)
  BY <1>2 DEF BuildInv
<1> QED BY <1>3 DEF Covered
-----------------------------------------------------------------------------
(* The flows of the source: Dirty(r, N) is the least set closed under them.  *)

LEMMA DirtyMonotone ==
  ASSUME NEW r, NEW N, NEW S, NEW T, S \subseteq T
  PROVE  DirtyFrom(r, N, S) \subseteq DirtyFrom(r, N, T)
<1> SUFFICES ASSUME NEW v \in DirtyFrom(r, N, S) PROVE v \in DirtyFrom(r, N, T)
  OBVIOUS
<1> DEFINE value(n) == Value(program[n])
<1>1. v \in Var
  BY DEF DirtyFrom
<1>2. PICK n \in N :
        /\ v \in Bound(program[n])
        /\ Calls(value(n).call, Rules[r].sources) \/ Range(value(n).reads) \cap S # {}
  BY DEF DirtyFrom
<1>3. Range(value(n).reads) \cap S # {} => Range(value(n).reads) \cap T # {}
  OBVIOUS
<1> QED BY <1>1, <1>2, <1>3 DEF DirtyFrom

LEMMA DirtyLeast ==
  ASSUME NEW r, NEW N, NEW S \in SUBSET Var, DirtyFrom(r, N, S) \subseteq S
  PROVE  Dirty(r, N) \subseteq S
BY DEF Dirty

LEMMA DirtyClosed ==
  ASSUME NEW r, NEW N PROVE DirtyFrom(r, N, Dirty(r, N)) \subseteq Dirty(r, N)
<1> SUFFICES ASSUME NEW v \in DirtyFrom(r, N, Dirty(r, N)) PROVE v \in Dirty(r, N)
  OBVIOUS
<1>1. v \in Var
  BY DEF DirtyFrom
<1>2. ASSUME NEW S \in SUBSET Var, DirtyFrom(r, N, S) \subseteq S PROVE v \in S
  <2>1. DirtyFrom(r, N, Dirty(r, N)) \subseteq DirtyFrom(r, N, S)
    BY <1>2, DirtyLeast, DirtyMonotone
  <2> QED BY <1>2, <2>1
<1> QED BY <1>1, <1>2 DEF Dirty

(* The instructions, once the builder's invariant holds.                     *)
LEMMA BodyFacts ==
  ASSUME BuildInv
  PROVE  /\ Len(body) \in Nat /\ DOMAIN body = 1..Len(body)
         /\ \A k \in DOMAIN body :
              /\ body[k].span \in DOMAIN program /\ body[k].span \in 1..MaxNodes
              /\ Says(body[k], program[body[k].span])
              /\ body[k].kind \in InstrKind
              /\ body[k].lval \in Name \cup {None}
              /\ body[k].lval # None => body[k].lval.var \in Var
<1>1. /\ body \in Seq(Instr) /\ program \in Program /\ at \in 1..Len(program)+1
      /\ Len(program) \in Nat /\ DOMAIN program = 1..Len(program) /\ Len(program) <= MaxNodes
  BY ProgramFacts DEF BuildInv, BuildTypes
<1>2. Len(body) \in Nat /\ DOMAIN body = 1..Len(body)
  BY <1>1, LenProperties
<1>3. ASSUME NEW k \in DOMAIN body
      PROVE  /\ body[k].span \in DOMAIN program /\ body[k].span \in 1..MaxNodes
             /\ Says(body[k], program[body[k].span])
             /\ body[k].kind \in InstrKind
             /\ body[k].lval \in Name \cup {None}
             /\ body[k].lval # None => body[k].lval.var \in Var
  <2>1. body[k] \in Instr
    BY <1>1, <1>2, ElementOfSeq
  <2>2. body[k].span \in 1..at-1 /\ Says(body[k], program[body[k].span])
    BY DEF BuildInv
  <2>3. body[k].span \in DOMAIN program
    BY <1>1, <2>2
  <2>4. body[k].span \in 1..MaxNodes /\ body[k].kind \in InstrKind /\ body[k].lval \in Name \cup {None}
    BY <2>1 DEF Instr
  <2> QED BY <2>2, <2>3, <2>4 DEF Name
<1> QED BY <1>2, <1>3

(* A definition is an assignment, and has a name when all targets have one.  *)
LEMMA DefinitionsAreNamed ==
  ASSUME BuildInv, AllNamed
  PROVE  Definitions = {k \in DOMAIN body : IsDef(k)}
<1> SUFFICES ASSUME NEW k \in DOMAIN body, IsDef(k) PROVE body[k].lval # None
  BY DEF Definitions
<1>1. CASE IsAssign(k)
  <2>1. Says(body[k], program[body[k].span]) /\ body[k].span \in DOMAIN program
    BY BodyFacts
  <2> QED BY <1>1, <2>1 DEF Says, IsAssign, AllNamed, Nodes
<1> QED BY <1>1 DEF IsDef

(* Then both ways of counting definitions agree, and no number is shared.    *)
LEMMA NumbersAgree ==
  ASSUME BuildInv, AllNamed, NEW d \in Definitions
  PROVE  NumberOf(d) = DefId(d) /\ DefId(d) \in Nat
<1> DEFINE before == {j \in 1..d-1 : IsDef(j)}
<1>1. Definitions = {k \in DOMAIN body : IsDef(k)} /\ DOMAIN body = 1..Len(body) /\ Len(body) \in Nat
  BY DefinitionsAreNamed, BodyFacts
<1>2. d \in 1..Len(body) /\ IsDef(d)
  BY <1>1
<1>3. {j \in Definitions : j <= d} = before \cup {d}
  <2>1. ASSUME NEW j, j \in Definitions, j <= d PROVE j \in before \cup {d}
    BY <1>1, <1>2, <2>1
  <2>2. ASSUME NEW j \in before \cup {d} PROVE j \in Definitions /\ j <= d
    BY <1>1, <1>2
  <2> QED BY <2>1, <2>2
<1>4. IsFiniteSet(before) /\ d \notin before
  <2>1. IsFiniteSet(1..d-1)
    BY <1>2, FS_Interval
  <2> QED BY <1>2, <2>1, FS_Subset
<1> HIDE DEF before
<1>5. Cardinality(before \cup {d}) = Cardinality(before) + 1 /\ Cardinality(before) \in Nat
  BY <1>4, FS_AddElement, FS_CardinalityType
<1> QED BY <1>3, <1>5 DEF NumberOf, DefId, before

LEMMA NumbersGrow ==
  ASSUME BuildInv, AllNamed, NEW d \in Definitions, NEW e \in Definitions, d < e
  PROVE  DefId(d) < DefId(e)
<1> DEFINE before(x) == {j \in 1..x-1 : IsDef(j)}
<1>1. DOMAIN body = 1..Len(body) /\ Len(body) \in Nat /\ d \in 1..Len(body) /\ e \in 1..Len(body)
  BY BodyFacts DEF Definitions
<1>2. IsDef(d)
  BY DEF Definitions
<1>3. IsFiniteSet(before(d)) /\ IsFiniteSet(before(e)) /\ d \notin before(d)
  <2>1. IsFiniteSet(1..d-1) /\ IsFiniteSet(1..e-1)
    <3>1. 1 \in Int /\ d - 1 \in Int /\ e - 1 \in Int
      BY <1>1
    <3> QED BY <3>1, FS_Interval
  <2> QED BY <1>1, <2>1, FS_Subset
<1>4. before(d) \cup {d} \subseteq before(e)
  BY <1>1, <1>2
<1>5. DefId(d) = Cardinality(before(d)) + 1 /\ DefId(e) = Cardinality(before(e)) + 1
  BY DEF DefId
<1> HIDE DEF before
<1>6. /\ Cardinality(before(d) \cup {d}) = Cardinality(before(d)) + 1
      /\ Cardinality(before(d)) \in Nat /\ Cardinality(before(e)) \in Nat
  BY <1>3, FS_AddElement, FS_CardinalityType
<1>7. Cardinality(before(d) \cup {d}) <= Cardinality(before(e))
  BY <1>3, <1>4, FS_Subset
<1> QED BY <1>5, <1>6, <1>7

LEMMA NumbersDiffer ==
  ASSUME BuildInv, AllNamed, NEW d \in Definitions, NEW e \in Definitions, DefId(d) = DefId(e)
  PROVE  d = e
<1>1. DOMAIN body = 1..Len(body) /\ Len(body) \in Nat /\ d \in 1..Len(body) /\ e \in 1..Len(body)
  BY BodyFacts DEF Definitions
<1>2. DefId(d) \in Nat /\ DefId(e) \in Nat
  BY NumbersAgree
<1>3. ~(d < e) /\ ~(e < d)
  BY <1>2, NumbersGrow
<1> QED BY <1>1, <1>3

(* So the seeds are the names of what the rule's sources are assigned to.    *)
LEMMA SeedsFacts ==
  ASSUME BuildInv, AllNamed
  PROVE  \A v : v \in Seeds <=>
           \E k \in DOMAIN body : IsDef(k) /\ IsSource(body[k].call) /\ body[k].lval.var = v
<1>1. Definitions = {k \in DOMAIN body : IsDef(k)}
  BY DefinitionsAreNamed
<1>2. ASSUME NEW d \in Definitions, NumberOf(d) \in TaintedDefs PROVE IsSource(body[d].call)
  <2>1. PICK k \in DOMAIN body : IsDef(k) /\ IsSource(body[k].call) /\ DefId(k) = NumberOf(d)
    BY <1>2 DEF TaintedDefs
  <2>2. k \in Definitions /\ DefId(k) = DefId(d)
    BY <1>1, <2>1, NumbersAgree
  <2> QED BY <2>1, <2>2, NumbersDiffer
<1>3. ASSUME NEW k \in DOMAIN body, IsDef(k), IsSource(body[k].call)
      PROVE  k \in Definitions /\ NumberOf(k) \in TaintedDefs
  BY <1>1, <1>3, NumbersAgree DEF TaintedDefs
<1> QED BY <1>1, <1>2, <1>3 DEF Seeds

LEMMA AreVars ==
  ASSUME BuildInv
  PROVE  Seeds \subseteq Var /\ IsFiniteSet(Seeds)
         /\ \A v : TargetsOf(v) \subseteq Var /\ IsFiniteSet(TargetsOf(v) \ tainted)
<1>1. Seeds \subseteq Var
  BY BodyFacts DEF Seeds, Definitions
<1>2. \A v : TargetsOf(v) \subseteq Var
  BY BodyFacts DEF TargetsOf
<1>3. \A S \in SUBSET Var : IsFiniteSet(S)
  BY VarAssumption, FS_Subset
<1> QED BY <1>1, <1>2, <1>3

(* What a tainted name leads to is dirty.                                   *)
LEMMA UsedIsRead ==
  ASSUME NEW k, NEW u PROVE UsesVar(k, u) <=> u \in VarsOf(body[k].reads)
BY DEF UsesVar, VarsOf

LEMMA AssignIsFlow ==
  ASSUME BuildInv, NEW r, NEW D, NEW k \in DOMAIN body, IsAssign(k), body[k].lval # None,
         \/ Calls(body[k].call, Rules[r].sources)
         \/ \E u \in D : UsesVar(k, u)
  PROVE  body[k].lval.var \in DirtyFrom(r, Nodes, D)
<1> DEFINE n == body[k].span
           v == body[k].lval.var
           value == Value(program[n])
<1>1. n \in Nodes /\ Says(body[k], program[n]) /\ v \in Var
  BY BodyFacts DEF Nodes
<1>2. /\ body[k].call = value.call
      /\ VarsOf(body[k].reads) = Range(value.reads) \ {None}
      /\ v \in Bound(program[n])
  BY <1>1 DEF Says, IsAssign
<1> HIDE DEF n, v
<1>3. Calls(value.call, Rules[r].sources) \/ Range(value.reads) \cap D # {}
  BY <1>2, UsedIsRead
<1> QED BY <1>1, <1>2, <1>3 DEF DirtyFrom, v

LEMMA SeedsAreDirty == ASSUME BuildInv, AllNamed PROVE Seeds \subseteq Dirty(rule, Nodes)
<1> SUFFICES ASSUME NEW v \in Seeds PROVE v \in Dirty(rule, Nodes)
  OBVIOUS
<1>1. PICK k \in DOMAIN body : IsDef(k) /\ IsSource(body[k].call) /\ body[k].lval.var = v
  BY SeedsFacts
<1>2. k \in Definitions
  BY <1>1, DefinitionsAreNamed
<1>3. IsAssign(k) /\ body[k].lval # None
  <2>1. Says(body[k], program[body[k].span])
    BY BodyFacts
  <2> QED BY <1>2, <2>1 DEF Definitions, IsDef, Says
<1>4. v \in DirtyFrom(rule, Nodes, Dirty(rule, Nodes))
  BY <1>1, <1>3, AssignIsFlow DEF IsSource
<1> QED BY <1>4, DirtyClosed

LEMMA TargetsAreDirty ==
  ASSUME BuildInv, NEW r, NEW v \in Dirty(r, Nodes) PROVE TargetsOf(v) \subseteq Dirty(r, Nodes)
<1> SUFFICES ASSUME NEW w \in TargetsOf(v) PROVE w \in Dirty(r, Nodes)
  OBVIOUS
<1>1. PICK k \in DOMAIN body : IsAssign(k) /\ UsesVar(k, v) /\ body[k].lval # None
                              /\ w = body[k].lval.var
  BY DEF TargetsOf
<1>2. w \in DirtyFrom(r, Nodes, Dirty(r, Nodes))
  BY <1>1, AssignIsFlow
<1> QED BY <1>2, DirtyClosed

(* Every statement kept has its instructions in the end.                     *)
LEMMA AllCovered ==
  ASSUME BuildInv, built, NEW n \in KeptNodes PROVE n \in DOMAIN program /\ Covered(body, n)
<1>1. Kept(n) /\ n \in DOMAIN program
  BY DEF KeptNodes, Nodes
<1>2. Len(program) \in Nat /\ DOMAIN program = 1..Len(program) /\ at = Len(program) + 1
  BY ProgramFacts DEF BuildInv, BuildTypes
<1>3. n \in 1..at-1
  BY <1>1, <1>2
<1> QED BY <1>1, <1>3 DEF BuildInv

(* When nothing is left to spread, the tainted names are closed under flows. *)
LEMMA SaturatedIsDirty ==
  ASSUME BuildInv, built, AllNamed, tainted \subseteq Var, Seeds \subseteq tainted,
         \A v \in tainted : TargetsOf(v) \subseteq tainted
  PROVE  Dirty(rule, KeptNodes) \subseteq tainted
<1> SUFFICES DirtyFrom(rule, KeptNodes, tainted) \subseteq tainted
  BY DirtyLeast
<1> SUFFICES ASSUME NEW v \in DirtyFrom(rule, KeptNodes, tainted) PROVE v \in tainted
  OBVIOUS
<1> DEFINE value(n) == Value(program[n])
<1>1. PICK n \in KeptNodes :
        /\ v \in Bound(program[n])
        /\ \/ Calls(value(n).call, Rules[rule].sources)
           \/ Range(value(n).reads) \cap tainted # {}
  BY DEF DirtyFrom
<1>2. Covered(body, n)
  BY AllCovered
<1>3. PICK k \in DOMAIN body : IsAssign(k) /\ body[k].span = n /\ body[k].lval # None
                              /\ body[k].lval.var = v
  BY <1>1, <1>2 DEF Covered, IsAssign
<1>4. /\ body[k].call = value(n).call
      /\ VarsOf(body[k].reads) = Range(value(n).reads) \ {None}
  BY <1>3, BodyFacts DEF Says, IsAssign
<1>5. CASE Calls(value(n).call, Rules[rule].sources)
  <2>1. v \in Seeds
    BY <1>3, <1>4, <1>5, SeedsFacts DEF IsDef, IsSource
  <2> QED BY <2>1
<1>6. CASE Range(value(n).reads) \cap tainted # {}
  <2>1. PICK u \in tainted : u \in VarsOf(body[k].reads)
    BY <1>4, <1>6, NoneAssumption
  <2>2. UsesVar(k, u)
    BY <2>1, UsedIsRead
  <2>3. v \in TargetsOf(u)
    BY <1>3, <2>2 DEF TargetsOf
  <2> QED BY <2>1, <2>3
<1> QED BY <1>1, <1>5, <1>6

LEMMA NothingIsSanitized == ASSUME BuildInv PROVE SanitizedVars = {}
<1>1. \A k \in DOMAIN body : body[k].kind = "call" => body[k].lval = None
  BY BodyFacts DEF Says
<1> QED BY <1>1 DEF SanitizedVars

(* A sink call that is hit, and the statement it comes from.                 *)
LEMMA HitsGetDirty ==
  ASSUME BuildInv, NEW D, tainted \subseteq D, NEW k \in HitSinks
  PROVE  SinkGets(rule, body[k].span, D)
<1> DEFINE n == body[k].span
<1>1. k \in DOMAIN body /\ body[k].kind = "call"
  BY DEF HitSinks
<1>2. PICK s \in Rules[rule].sinks : Calls(body[k].call, {s.pattern}) /\ ArgTainted(body[k].args, s.arg_index)
  BY DEF HitSinks
<1>3. PICK i \in DOMAIN body[k].args : s.arg_index \in {-1, i - 1} /\ body[k].args[i] # None
                                       /\ body[k].args[i].var \in tainted
  BY <1>2 DEF ArgTainted
<1>4. /\ StandsAlone(program[n]) /\ body[k].call = Value(program[n]).call
      /\ NamesOf(body[k].args, program[n].args)
  BY <1>1, BodyFacts DEF Says
<1> HIDE DEF n
<1>5. i \in DOMAIN program[n].args /\ program[n].args[i] = body[k].args[i].var
  BY <1>3, <1>4 DEF NamesOf
<1>6. program[n].args[i] \in D
  BY <1>3, <1>5
<1> QED BY <1>2, <1>3, <1>4, <1>5, <1>6 DEF SinkGets, n

LEMMA DirtySinksAreHit ==
  ASSUME BuildInv, built, NEW D \in SUBSET Var, D \subseteq tainted,
         NEW n \in KeptNodes, SinkGets(rule, n, D)
  PROVE  \E k \in HitSinks : body[k].span = n
<1> DEFINE value == Value(program[n])
<1>1. PICK s \in Rules[rule].sinks, i \in DOMAIN program[n].args :
        /\ Calls(value.call, {s.pattern})
        /\ s.arg_index \in {-1, i - 1}
        /\ program[n].args[i] \in D
  BY DEF SinkGets
<1>2. value.call # None /\ StandsAlone(program[n])
  BY <1>1 DEF Calls, SinkGets
<1>3. PICK k \in DOMAIN body : body[k].kind = "call" /\ body[k].span = n
  BY <1>2, AllCovered DEF Covered
<1>4. body[k].call = value.call /\ NamesOf(body[k].args, program[n].args)
  BY <1>3, BodyFacts DEF Says
<1>5. program[n].args[i] # None
  BY <1>1, NoneAssumption
<1>6. i \in DOMAIN body[k].args /\ body[k].args[i] \in Name /\ body[k].args[i].var = program[n].args[i]
  BY <1>1, <1>4, <1>5 DEF NamesOf
<1>7. body[k].args[i] # None
  BY <1>6, NoneAssumption
<1>8. body[k].args[i].var \in tainted \ SanitizedVars
  BY <1>1, <1>6, NothingIsSanitized
<1>9. ArgTainted(body[k].args, s.arg_index)
  BY <1>1, <1>6, <1>7, <1>8 DEF ArgTainted
<1> QED BY <1>1, <1>3, <1>4, <1>9 DEF HitSinks
-----------------------------------------------------------------------------
(* The analysis.                                                            *)

(* While a rule spreads, its seeds are tainted, the queue holds tainted      *)
(* names, and a name that is not in it has been spread.                      *)
Spreading ==
  /\ built /\ rule <= Len(Rules)
  /\ Seeds \subseteq tainted
  /\ Range(queue) \subseteq tainted
  /\ \A v \in tainted : v \in Range(queue) \/ TargetsOf(v) \subseteq tainted

(* The findings of rule r are complete.                                      *)
AllFoundBy(r) ==
  \A n \in KeptNodes : SinkGets(r, n, Dirty(r, KeptNodes)) => <<r, n>> \in reported

RunInv ==
  /\ BuildInv
  /\ TaintTypeOK
  /\ ~built => phase = "chains"
  /\ phase = "chains" => rule = 1 /\ reported = {}
  /\ phase = "spread" => Spreading
  /\ phase = "done" => rule > Len(Rules) \/ ~Chained
  /\ OnlyDirtyReported
  /\ AllNamed => \A r \in 1..rule-1 : AllFoundBy(r)

LEMMA RulesFacts == Len(Rules) \in Nat /\ DOMAIN Rules = 1..Len(Rules)
BY RulesAssumption, LenProperties

(* What is said of a finished body stays.                                    *)
LEMMA BodyStays ==
  ASSUME UNCHANGED ilVars
  PROVE  /\ program' = program /\ body' = body /\ built' = built
         /\ AllNamed' = AllNamed /\ Chained' = Chained
         /\ Nodes' = Nodes /\ KeptNodes' = KeptNodes
         /\ \A v : TargetsOf(v)' = TargetsOf(v)
         /\ \A r, N : Dirty(r, N)' = Dirty(r, N)
         /\ \A r, n, D : SinkGets(r, n, D)' = SinkGets(r, n, D)
         /\ rule' = rule => Seeds' = Seeds
         /\ \A r : reported \subseteq reported' /\ AllFoundBy(r) => AllFoundBy(r)'
<1>1. program' = program /\ body' = body /\ built' = built
  BY DEF ilVars
<1>2. AllNamed' = AllNamed /\ Nodes' = Nodes /\ KeptNodes' = KeptNodes
  BY <1>1 DEF AllNamed, KeptNodes, Nodes, Kept, PassedOver, Span
<1>3. Chained' = Chained
  BY <1>1 DEF Chained, Definitions, IsDef, IsAssign
<1>4. \A v : TargetsOf(v)' = TargetsOf(v)
  BY <1>1 DEF TargetsOf, IsAssign, UsesVar
<1>5. \A r, N : Dirty(r, N)' = Dirty(r, N)
  BY <1>1 DEF Dirty, DirtyFrom
<1>6. \A r, n, D : SinkGets(r, n, D)' = SinkGets(r, n, D)
  BY <1>1 DEF SinkGets
<1>7. rule' = rule => Seeds' = Seeds
  BY <1>1 DEF Seeds, Definitions, NumberOf, TaintedDefs, DefId, IsDef, IsAssign, IsSource
<1>8. ASSUME NEW r, reported \subseteq reported', AllFoundBy(r) PROVE AllFoundBy(r)'
  <2>1. Dirty(r, KeptNodes)' = Dirty(r, KeptNodes)
    BY <1>2, <1>5
  <2> SUFFICES ASSUME NEW n \in KeptNodes, SinkGets(r, n, Dirty(r, KeptNodes))
               PROVE  <<r, n>> \in reported'
    BY <1>2, <1>6, <2>1 DEF AllFoundBy
  <2> QED BY <1>8 DEF AllFoundBy
<1> QED BY <1>1, <1>2, <1>3, <1>4, <1>5, <1>6, <1>7, <1>8

(* What has been said of findings and tainted names stays with them.         *)
LEMMA DirtyStays ==
  ASSUME UNCHANGED ilVars, reported' = reported, OnlyDirtyReported,
         AllNamed /\ phase' = "spread" => tainted' \subseteq Dirty(rule', Nodes)
  PROVE  OnlyDirtyReported'
<1>1. /\ AllNamed' = AllNamed /\ Nodes' = Nodes /\ \A r, N : Dirty(r, N)' = Dirty(r, N)
      /\ \A r, n, D : SinkGets(r, n, D)' = SinkGets(r, n, D)
  BY BodyStays
<1>2. Dirty(rule, Nodes)' = Dirty(rule', Nodes)
  BY <1>1 DEF Dirty, DirtyFrom, ilVars
<1>3. \A f : SinkGets(f[1], f[2], Dirty(f[1], Nodes))' = SinkGets(f[1], f[2], Dirty(f[1], Nodes))
  BY <1>1 DEF SinkGets, Dirty, DirtyFrom, ilVars
<1> QED BY <1>1, <1>2, <1>3 DEF OnlyDirtyReported

LEMMA SetToSeqLists ==
  ASSUME NEW S, IsFiniteSet(S) PROVE SetToSeq(S) \in Seq(S) /\ Range(SetToSeq(S)) = S
<1> DEFINE n == Cardinality(S)
           s == SetToSeq(S)
<1>1. n \in Nat /\ ExistsBijection(1..n, S)
  BY FS_CardinalityType
<1>2. \E f \in [1..n -> S] : IsInjective(f)
  <2>1. PICK f \in Bijection(1..n, S) : TRUE
    BY <1>1 DEF ExistsBijection
  <2>2. f \in [1..n -> S] /\ \A a, b \in 1..n : f[a] = f[b] => a = b
    BY <2>1 DEF Bijection, Injection, IsInjective
  <2> QED BY <2>2 DEF IsInjective
<1>3. s \in [1..n -> S] /\ IsInjective(s)
  BY <1>2 DEF SetToSeq
<1> HIDE DEF n, s
<1>4. s \in Seq(S)
  BY <1>1, <1>3, SeqDef
<1>5. s \in Injection(1..n, S)
  BY <1>3 DEF Injection
<1>6. IsFiniteSet(1..n) /\ Cardinality(1..n) = n
  BY <1>1, FS_Interval
<1>7. s \in Surjection(1..n, S)
  BY <1>5, <1>6, FS_Injection DEF n
<1>8. \A x \in S : \E i \in 1..n : s[i] = x
  BY <1>7 DEF Surjection
<1>9. Range(s) = S
  BY <1>3, <1>8 DEF Range
<1> QED BY <1>4, <1>9 DEF s

(* Names put at the end of the queue are in it, and nothing else is new.     *)
LEMMA Enqueued ==
  ASSUME NEW q \in Seq(Var), NEW S \in SUBSET Var
  PROVE  Enqueue(q, S) \in Seq(Var) /\ Range(Enqueue(q, S)) = Range(q) \cup S
<1> DEFINE s == SetToSeq(S)
           t == q \o s
<1>1. s \in Seq(S) /\ Range(s) = S
  BY VarAssumption, FS_Subset, SetToSeqLists
<1>2. s \in Seq(Var)
  BY <1>1, SeqMonotonic
<1> HIDE DEF s
<1>3. /\ Len(q) \in Nat /\ Len(s) \in Nat /\ DOMAIN q = 1..Len(q) /\ DOMAIN s = 1..Len(s)
  BY <1>2, LenProperties
<1>4. /\ t \in Seq(Var) /\ Len(t) = Len(q) + Len(s)
      /\ \A k \in 1..Len(q)+Len(s) : t[k] = IF k <= Len(q) THEN q[k] ELSE s[k - Len(q)]
  BY <1>2, ConcatProperties
<1> HIDE DEF t
<1>5. DOMAIN t = 1..Len(q)+Len(s)
  BY <1>3, <1>4, LenProperties
<1>6. ASSUME NEW k \in DOMAIN t PROVE t[k] \in Range(q) \cup S
  <2>1. CASE k <= Len(q)
    <3>1. k \in DOMAIN q /\ t[k] = q[k]
      BY <1>3, <1>4, <1>5, <2>1
    <3> QED BY <3>1 DEF Range
  <2>2. CASE ~(k <= Len(q))
    <3>1. k - Len(q) \in DOMAIN s /\ t[k] = s[k - Len(q)]
      BY <1>3, <1>4, <1>5, <2>2
    <3> QED BY <1>1, <3>1 DEF Range
  <2> QED BY <2>1, <2>2
<1>7. ASSUME NEW k \in DOMAIN q PROVE q[k] \in Range(t)
  <2>1. k \in DOMAIN t /\ t[k] = q[k]
    BY <1>3, <1>4, <1>5
  <2> QED BY <2>1 DEF Range
<1>8. ASSUME NEW k \in DOMAIN s PROVE s[k] \in Range(t)
  <2>1. /\ Len(q) + k \in 1..Len(q)+Len(s) /\ ~(Len(q) + k <= Len(q))
        /\ (Len(q) + k) - Len(q) = k
    BY <1>3
  <2>2. Len(q) + k \in DOMAIN t /\ t[Len(q) + k] = s[k]
    BY <1>4, <1>5, <2>1
  <2> QED BY <2>2 DEF Range
<1>9. Range(t) = Range(q) \cup S
  <2>1. Range(t) \subseteq Range(q) \cup S
    BY <1>6 DEF Range
  <2>2. Range(q) \subseteq Range(t)
    BY <1>7 DEF Range
  <2>3. S \subseteq Range(t)
    BY <1>1, <1>8 DEF Range
  <2> QED BY <2>1, <2>2, <2>3
<1> QED BY <1>4, <1>9 DEF Enqueue, t, s

LEMMA HeadAndTail ==
  ASSUME NEW q \in Seq(Var), q # <<>>
  PROVE  /\ Head(q) \in Var /\ Tail(q) \in Seq(Var)
         /\ Range(q) = {Head(q)} \cup Range(Tail(q))
<1> DEFINE t == Tail(q)
           n == Len(q)
<1>1. n \in Nat \ {0} /\ DOMAIN q = 1..n /\ \A i \in 1..n : q[i] \in Var
  BY EmptySeq, LenProperties, ElementOfSeq
<1>2. /\ Head(q) = q[1] /\ t \in Seq(Var) /\ Len(t) = n - 1
      /\ \A i \in 1..n-1 : t[i] = q[i+1]
  <2>1. Head(q) = q[1] /\ t \in Seq(Var) /\ Len(t) = n - 1
    BY HeadTailProperties
  <2>2. \A i \in 1..Len(t) : t[i] = q[i+1]
    BY HeadTailProperties
  <2> QED BY <2>1, <2>2
<1>3. DOMAIN t = 1..n-1
  BY <1>2, LenProperties
<1> HIDE DEF t, n
<1>4. ASSUME NEW i \in DOMAIN q PROVE q[i] = Head(q) \/ q[i] \in Range(t)
  <2>1. i = 1 \/ (i - 1 \in 1..n-1 /\ (i - 1) + 1 = i)
    BY <1>1
  <2>2. ASSUME i - 1 \in 1..n-1, (i - 1) + 1 = i PROVE q[i] = t[i - 1] /\ i - 1 \in DOMAIN t
    BY <1>2, <1>3, <2>2
  <2> QED BY <1>2, <2>1, <2>2 DEF Range
<1>5. ASSUME NEW i \in DOMAIN t PROVE t[i] \in Range(q)
  <2>1. i + 1 \in DOMAIN q /\ t[i] = q[i+1]
    BY <1>1, <1>2, <1>3
  <2> QED BY <2>1 DEF Range
<1>6. 1 \in DOMAIN q
  BY <1>1
<1>7. Range(q) = {Head(q)} \cup Range(t)
  <2>1. Range(q) \subseteq {Head(q)} \cup Range(t)
    BY <1>4 DEF Range
  <2>2. Range(t) \subseteq Range(q)
    BY <1>5 DEF Range
  <2>3. Head(q) \in Range(q)
    BY <1>2, <1>6 DEF Range
  <2> QED BY <2>1, <2>2, <2>3
<1> QED BY <1>1, <1>2, <1>6, <1>7 DEF t

LEMMA RunStarts == Init => RunInv
<1> SUFFICES ASSUME Init PROVE RunInv
  OBVIOUS
<1>1. BuildInv
  BY BuildStarts DEF Init
<1>2. phase = "chains" /\ rule = 1 /\ tainted = {} /\ queue = <<>> /\ reported = {}
  BY DEF Init
<1>3. TaintTypeOK
  BY <1>2, RulesFacts, EmptySeq DEF TaintTypeOK
<1>4. OnlyDirtyReported /\ 1..rule-1 = {}
  BY <1>2 DEF OnlyDirtyReported
<1> QED BY <1>1, <1>2, <1>3, <1>4 DEF RunInv

LEMMA AtBuild == ASSUME RunInv, Build PROVE RunInv'
<1>1. BuildStep /\ UNCHANGED <<phase, rule, tainted, queue, reported>>
  BY DEF Build, taintVars
<1>2. ~built
  BY <1>1 DEF BuildStep, ShortVarDecl, VarDecl, Assignment, CallStatement, ExprStatement,
       ReturnOrTest, If, Branch, Container, Unsupported, EndOfFunction, Visiting, AtNode
<1>3. phase' = "chains" /\ rule' = 1 /\ reported' = {}
  BY <1>1, <1>2 DEF RunInv
<1>4. BuildInv' /\ TaintTypeOK'
  BY <1>1, BuildSteps DEF RunInv, TaintTypeOK
<1>5. OnlyDirtyReported' /\ 1..rule'-1 = {}
  BY <1>3 DEF OnlyDirtyReported
<1> QED BY <1>3, <1>4, <1>5 DEF RunInv

LEMMA AtBuildChains == ASSUME RunInv, BuildChains PROVE RunInv'
<1>1. /\ built /\ phase = "chains" /\ phase' = IF TooMany THEN "done" ELSE "seed"
      /\ rule' = rule /\ tainted' = tainted /\ queue' = queue /\ reported' = reported
      /\ UNCHANGED ilVars
  BY DEF BuildChains
<1>2. phase' \in {"done", "seed"}
  BY <1>1
<1>3. BuildInv' /\ TaintTypeOK'
  BY <1>1, <1>2, BuildStays DEF RunInv, TaintTypeOK
<1>4. rule' = 1 /\ reported' = {} /\ 1..rule'-1 = {}
  BY <1>1 DEF RunInv
<1>5. OnlyDirtyReported'
  BY <1>2, <1>4 DEF OnlyDirtyReported
<1>6. phase' = "done" => ~Chained'
  <2>1. phase' = "done" => TooMany
    BY <1>1
  <2>2. Cardinality(Definitions) \in Nat
    <3>1. Definitions \subseteq 1..Len(body) /\ Len(body) \in Nat
      BY BodyFacts DEF Definitions, RunInv
    <3>2. IsFiniteSet(1..Len(body))
      BY <3>1, FS_Interval
    <3> QED BY <3>1, <3>2, FS_Subset, FS_CardinalityType
  <2>3. TooMany => ~Chained
    <3> DEFINE c == Cardinality(Definitions)
    <3> HIDE DEF c
    <3>1. c > MaxDefinitions => ~(c <= MaxDefinitions)
      BY <2>2, MaxDefinitionsAssumption DEF c
    <3> QED BY <3>1 DEF TooMany, Chained, c
  <2> QED BY <1>1, <2>1, <2>3, BodyStays
<1> QED BY <1>1, <1>2, <1>3, <1>4, <1>5, <1>6, BodyStays DEF RunInv

LEMMA AtSeed == ASSUME RunInv, Seed PROVE RunInv'
<1>1. /\ phase = "seed" /\ rule <= Len(Rules)
      /\ phase' = "spread" /\ tainted' = Seeds /\ queue' = Enqueue(<<>>, Seeds)
      /\ rule' = rule /\ reported' = reported /\ UNCHANGED ilVars
  BY DEF Seed
<1>2. BuildInv /\ BuildInv' /\ TaintTypeOK /\ built /\ OnlyDirtyReported
  BY <1>1, BuildStays DEF RunInv
<1>3. Seeds \subseteq Var
  BY <1>2, AreVars
<1>4. queue' \in Seq(Var) /\ Range(queue') = Seeds
  <2>1. <<>> \in Seq(Var) /\ Range(<<>>) = {}
    BY EmptySeq DEF Range
  <2> QED BY <1>1, <1>3, <2>1, Enqueued
<1>5. TaintTypeOK'
  BY <1>1, <1>2, <1>3, <1>4 DEF TaintTypeOK
<1>6. Spreading'
  <2>1. Seeds' = Seeds /\ built' = built
    BY <1>1, BodyStays
  <2> QED BY <1>1, <1>2, <1>4, <2>1 DEF Spreading
<1>7. OnlyDirtyReported'
  <2>1. AllNamed => Seeds \subseteq Dirty(rule, Nodes)
    BY <1>2, SeedsAreDirty
  <2>2. AllNamed => tainted' \subseteq Dirty(rule', Nodes)
    BY <1>1, <2>1
  <2> QED BY <1>1, <1>2, <2>2, DirtyStays
<1>8. AllNamed' => \A r \in 1..rule'-1 : AllFoundBy(r)'
  BY <1>1, BodyStays DEF RunInv
<1> QED BY <1>1, <1>2, <1>5, <1>6, <1>7, <1>8, BodyStays DEF RunInv

LEMMA AtSpread == ASSUME RunInv, Spread PROVE RunInv'
<1> DEFINE h == Head(queue)
           found == TargetsOf(h)
<1>1. /\ phase = "spread" /\ queue # <<>> /\ tainted' = tainted \cup found
      /\ queue' = Enqueue(Tail(queue), found \ tainted)
      /\ phase' = phase /\ rule' = rule /\ reported' = reported /\ UNCHANGED ilVars
  BY DEF Spread
<1>2. BuildInv /\ BuildInv' /\ TaintTypeOK /\ Spreading
  BY <1>1, BuildStays DEF RunInv
<1>3. found \subseteq Var
  BY <1>2, AreVars
<1>4. Tail(queue) \in Seq(Var) /\ Range(queue) = {h} \cup Range(Tail(queue))
  BY <1>1, <1>2, HeadAndTail DEF TaintTypeOK
<1>5. h \in tainted
  BY <1>2, <1>4 DEF Spreading
<1>6. queue' \in Seq(Var) /\ Range(queue') = Range(Tail(queue)) \cup (found \ tainted)
  BY <1>1, <1>3, <1>4, Enqueued
<1>7. TaintTypeOK'
  BY <1>1, <1>2, <1>3, <1>6 DEF TaintTypeOK
<1>8. Spreading'
  <2>1. Seeds' = Seeds /\ built' = built /\ \A v : TargetsOf(v)' = TargetsOf(v)
    BY <1>1, BodyStays
  <2>2. Seeds \subseteq tainted' /\ Range(queue') \subseteq tainted'
    BY <1>1, <1>2, <1>4, <1>6 DEF Spreading
  <2>3. ASSUME NEW v \in tainted' PROVE v \in Range(queue') \/ TargetsOf(v) \subseteq tainted'
    <3>1. CASE v \in tainted
      BY <1>1, <1>2, <1>4, <1>6, <3>1 DEF Spreading
    <3>2. CASE v \notin tainted
      BY <1>1, <1>6, <3>2
    <3> QED BY <3>1, <3>2
  <2> QED BY <1>1, <1>2, <2>1, <2>2, <2>3 DEF Spreading
<1>9. OnlyDirtyReported'
  <2>1. OnlyDirtyReported
    BY DEF RunInv
  <2>2. AllNamed => tainted' \subseteq Dirty(rule', Nodes)
    <3> SUFFICES ASSUME AllNamed PROVE tainted' \subseteq Dirty(rule, Nodes)
      BY <1>1
    <3>1. tainted \subseteq Dirty(rule, Nodes)
      BY <1>1, <2>1 DEF OnlyDirtyReported
    <3>2. found \subseteq Dirty(rule, Nodes)
      BY <1>2, <1>5, <3>1, TargetsAreDirty
    <3> QED BY <1>1, <3>1, <3>2
  <2> QED BY <1>1, <2>1, <2>2, DirtyStays
<1>10. AllNamed' => \A r \in 1..rule'-1 : AllFoundBy(r)'
  BY <1>1, BodyStays DEF RunInv
<1> QED BY <1>1, <1>2, <1>7, <1>8, <1>9, <1>10, BodyStays DEF RunInv, Spreading

LEMMA AtReport == ASSUME RunInv, Report PROVE RunInv'
<1> DEFINE new == {<<rule, body[k].span>> : k \in HitSinks}
<1>1. /\ phase = "spread" /\ queue = <<>> /\ reported' = reported \cup new /\ rule' = rule + 1
      /\ phase' = "seed" /\ tainted' = tainted /\ queue' = queue /\ UNCHANGED ilVars
  BY DEF Report
<1>2. BuildInv /\ BuildInv' /\ TaintTypeOK /\ Spreading /\ OnlyDirtyReported
  BY <1>1, BuildStays DEF RunInv
<1>3. rule \in 1..Len(Rules) /\ Len(Rules) \in Nat
  BY <1>2, RulesFacts DEF Spreading, TaintTypeOK
<1>4. new \subseteq (DOMAIN Rules) \X (1..MaxNodes)
  <2>1. \A k \in HitSinks : body[k].span \in 1..MaxNodes
    BY <1>2, BodyFacts DEF HitSinks
  <2> QED BY <1>3, <2>1, RulesFacts
<1>5. TaintTypeOK'
  <2>1. rule + 1 \in 1..Len(Rules)+1
    BY <1>3
  <2> HIDE DEF new
  <2> QED BY <1>1, <1>2, <1>4, <2>1 DEF TaintTypeOK
<1>6. AllNamed => \A k \in HitSinks : SinkGets(rule, body[k].span, Dirty(rule, Nodes))
  BY <1>1, <1>2, HitsGetDirty DEF OnlyDirtyReported
<1>7. /\ program' = program /\ built' = built /\ AllNamed' = AllNamed /\ Nodes' = Nodes
      /\ KeptNodes' = KeptNodes /\ \A r, N : Dirty(r, N)' = Dirty(r, N)
      /\ \A r, n, D : SinkGets(r, n, D)' = SinkGets(r, n, D)
  BY <1>1, BodyStays
<1>8. ASSUME AllNamed, NEW r \in 1..rule, r = rule PROVE AllFoundBy(r)'
  <2> DEFINE D == Dirty(rule, KeptNodes)
  <2>1. \A v \in tainted : TargetsOf(v) \subseteq tainted
    <3>1. Range(queue) = {}
      BY <1>1 DEF Range
    <3> QED BY <1>2, <3>1 DEF Spreading
  <2>2. D \subseteq tainted /\ D \in SUBSET Var
    <3>1. D \subseteq tainted
      BY <1>2, <1>8, <2>1, SaturatedIsDirty DEF Spreading, TaintTypeOK
    <3> QED BY <3>1 DEF Dirty
  <2>3. ASSUME NEW n \in KeptNodes, SinkGets(rule, n, D) PROVE <<rule, n>> \in new
    <3> HIDE DEF D
    <3> QED BY <1>2, <2>2, <2>3, DirtySinksAreHit DEF Spreading
  <2>4. ASSUME NEW n \in KeptNodes, SinkGets(rule, n, D) PROVE <<rule, n>> \in reported'
    BY <1>1, <2>3, <2>4
  <2> HIDE DEF new, D
  <2>5. \A n \in KeptNodes : SinkGets(rule, n, D) => <<rule, n>> \in reported'
    BY <2>4
  <2>6. Dirty(r, KeptNodes)' = D
    <3>1. Dirty(r, KeptNodes)' = Dirty(r, KeptNodes)
      BY <1>7 DEF Dirty, DirtyFrom
    <3> QED BY <1>8, <3>1 DEF D
  <2>7. \A n : SinkGets(r, n, Dirty(r, KeptNodes))' = SinkGets(r, n, D)
    BY <1>7, <2>6 DEF SinkGets
  <2> QED BY <1>7, <1>8, <2>5, <2>7 DEF AllFoundBy
<1>9. OnlyDirtyReported'
  <2> SUFFICES ASSUME AllNamed, NEW f \in reported \cup new
               PROVE  SinkGets(f[1], f[2], Dirty(f[1], Nodes))
    BY <1>1, <1>7 DEF OnlyDirtyReported
  <2>1. CASE f \in reported
    BY <1>2, <2>1 DEF OnlyDirtyReported
  <2>2. CASE f \in new
    BY <1>6, <2>2
  <2> QED BY <2>1, <2>2
<1> HIDE DEF new
<1>10. ASSUME AllNamed, NEW r \in 1..rule PROVE AllFoundBy(r)'
  <2>1. r = rule \/ r \in 1..rule-1
    BY <1>3
  <2>2. ASSUME r \in 1..rule-1 PROVE AllFoundBy(r)'
    <3>1. AllFoundBy(r) /\ reported \subseteq reported'
      BY <1>1, <1>10, <2>2 DEF RunInv
    <3> QED BY <1>1, <3>1, BodyStays
  <2> QED BY <1>8, <1>10, <2>1, <2>2
<1>11. 1..rule'-1 = 1..rule
  <2>1. (rule + 1) - 1 = rule
    BY <1>3
  <2> QED BY <1>1, <2>1
<1>12. AllNamed' => \A r \in 1..rule'-1 : AllFoundBy(r)'
  BY <1>7, <1>10, <1>11
<1> QED BY <1>1, <1>2, <1>5, <1>7, <1>9, <1>12 DEF RunInv, Spreading

LEMMA AtReturn == ASSUME RunInv, Return PROVE RunInv'
<1>1. /\ phase = "seed" /\ phase' = "done" /\ rule > Len(Rules) /\ tainted' = tainted
      /\ queue' = queue /\ rule' = rule /\ reported' = reported /\ UNCHANGED ilVars
  BY DEF Return
<1>2. BuildInv' /\ TaintTypeOK' /\ built /\ OnlyDirtyReported
  BY <1>1, BuildStays DEF RunInv, TaintTypeOK
<1>3. OnlyDirtyReported'
  BY <1>1, <1>2, DirtyStays
<1>4. AllNamed' => \A r \in 1..rule'-1 : AllFoundBy(r)'
  BY <1>1, BodyStays DEF RunInv
<1> QED BY <1>1, <1>2, <1>3, <1>4, BodyStays DEF RunInv

LEMMA AtStutter == ASSUME RunInv, UNCHANGED vars PROVE RunInv'
<1>1. UNCHANGED ilVars /\ UNCHANGED <<phase, rule, tainted, queue, reported>>
  BY DEF vars, taintVars
<1>2. BuildInv' /\ TaintTypeOK' /\ OnlyDirtyReported
  BY <1>1, BuildStays DEF RunInv, TaintTypeOK
<1>3. /\ built' = built /\ Chained' = Chained /\ \A v : TargetsOf(v)' = TargetsOf(v)
      /\ Seeds' = Seeds
  BY <1>1, BodyStays
<1>4. Spreading' = Spreading
  BY <1>1, <1>3 DEF Spreading
<1>5. OnlyDirtyReported'
  <2>1. AllNamed /\ phase' = "spread" => tainted' \subseteq Dirty(rule', Nodes)
    BY <1>1, <1>2 DEF OnlyDirtyReported
  <2> QED BY <1>1, <1>2, <2>1, DirtyStays
<1>6. AllNamed' => \A r \in 1..rule'-1 : AllFoundBy(r)'
  BY <1>1, BodyStays DEF RunInv
<1> QED BY <1>1, <1>2, <1>3, <1>4, <1>5, <1>6 DEF RunInv

(* The builder's invariant and the queue's hold in every reachable state.    *)
THEOREM Invariant == Spec => []RunInv
<1>1. RunInv /\ [Next]_vars => RunInv'
  BY AtBuild, AtBuildChains, AtSeed, AtSpread, AtReport, AtReturn, AtStutter DEF Next
<1> QED BY <1>1, RunStarts, PTL DEF Spec

LEMMA RunTypes == RunInv => TypeOK
<1> SUFFICES ASSUME RunInv PROVE TypeOK
  OBVIOUS
<1>1. BuildTypes /\ TaintTypeOK
  BY DEF RunInv, BuildInv
<1>2. Len(program) \in Nat /\ Len(program) <= MaxNodes /\ program \in Seq(NodeRec)
  BY <1>1, ProgramFacts, ProgramAssumption DEF BuildTypes
<1>3. at \in 1..MaxNodes+1
  BY <1>1, <1>2, MaxNodesAssumption DEF BuildTypes
<1> QED BY <1>1, <1>2, <1>3 DEF TypeOK, IlTypeOK, BuildTypes

LEMMA AllFound == RunInv => NoFlowMissed
<1> SUFFICES ASSUME RunInv, phase = "done", Chained, AllNamed, NEW r \in DOMAIN Rules
             PROVE  AllFoundBy(r)
  BY DEF NoFlowMissed, FlowsFound, AllFoundBy
<1>1. r \in 1..rule-1
  BY RulesFacts DEF RunInv, TaintTypeOK
<1> QED BY <1>1 DEF RunInv

(* The instructions, the name table and the findings keep their types.       *)
THEOREM TypeCorrect == Spec => []TypeOK
BY Invariant, RunTypes, PTL

(* For every function body: the builder loses no statement but those in an   *)
(* unsupported construct, those in the initializer of an if, and a branch    *)
(* that is no block (il_builder.rs: visit_stmt, il_build_expr.rs: visit_if). *)
THEOREM EveryStatementBuilt == Spec => []StatementsSurvive
<1>1. RunInv => StatementsSurvive
  BY Survive DEF RunInv
<1> QED BY <1>1, Invariant, PTL

(* For every function body, all rules and every limit of definitions: the    *)
(* call statement of a sink that gets a dirty variable through the kept      *)
(* statements is reported, unless the function is past the limit or a first  *)
(* target has no name (taint.rs: find_tainted_defs, propagate_taint,         *)
(* find_taint_at_sinks).                                                    *)
THEOREM EveryFlowFound == Spec => []NoFlowMissed
BY Invariant, AllFound, PTL

(* What is reported is a flow through the statements of the function, and of *)
(* the reporting rule, when all first targets have names.                   *)
THEOREM ReportedFlowsAreReal == Spec => []OnlyDirtyReported
<1>1. RunInv => OnlyDirtyReported
  BY DEF RunInv
<1> QED BY <1>1, Invariant, PTL
=============================================================================
