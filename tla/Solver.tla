------------------------------- MODULE Solver -------------------------------
(***************************************************************************)
(* crates/dataflow/src/solver.rs: the forward worklist solver, run on the   *)
(* reaching-definitions problem of reaching_defs.rs (the only problem the   *)
(* program solves). A behaviour is one call of solve_forward on one control *)
(* flow graph.                                                              *)
(*                                                                         *)
(* The worklist is a stack. It starts with the blocks reachable from the    *)
(* entry in reverse postorder and is popped from the end; successors of a   *)
(* block whose OUT changed are pushed unless the bit set in_worklist says   *)
(* that they are in it. The orders petgraph enumerates blocks and           *)
(* successors in are left open: nothing below depends on them.              *)
(***************************************************************************)
EXTENDS Naturals, Sequences, FiniteSets, SequencesExt

CONSTANTS
  Block,       \* the basic blocks
  Entry,       \* cfg.entry
  Def,         \* the definitions (the bits of the sets)
  Problems     \* the graphs and GEN/KILL sets to solve

Problem == [succ : [Block -> SUBSET Block],
            gen  : [Block -> SUBSET Def],
            kill : [Block -> SUBSET Def]]

ASSUME BlockAssumption == IsFiniteSet(Block) /\ Entry \in Block
ASSUME ProblemsAssumption == Problems \subseteq Problem

VARIABLES
  cfg,         \* the graph and the problem, fixed during a call
  worklist,    \* the stack of blocks
  inWorklist,  \* the bit set that mirrors it
  inSets,      \* in_sets
  outSets      \* out_sets

vars == <<cfg, worklist, inWorklist, inSets, outSets>>

(* The blocks a depth-first walk from the entry visits.                     *)
Reachable ==
  {b \in Block : \A S \in SUBSET Block :
     Entry \in S /\ (\A c \in S : cfg.succ[c] \subseteq S) => b \in S}

Predecessors(b) == {p \in Block : b \in cfg.succ[p]}

(* Mutant: meet looks at one predecessor only.                              *)
MeetFirst(b) ==
  IF Predecessors(b) = {} THEN {} ELSE outSets[CHOOSE p \in Predecessors(b) : TRUE]

(* meet: the union of OUT over the predecessors, empty when there is none.  *)
Meet(b) == UNION {outSets[p] : p \in Predecessors(b)}

(* transfer: OUT = GEN | (IN - KILL).                                       *)
Transfer(b, in) == cfg.gen[b] \cup (in \ cfg.kill[b])

Init ==
  /\ cfg \in Problems
  /\ inWorklist = Reachable
  /\ worklist \in SetToSeqs(inWorklist)
  /\ worklist[1] = Entry
  /\ inSets = [b \in Block |-> {}]
  /\ outSets = [b \in Block |-> {}]

(* Mutant: the successors are pushed whether or not OUT changed.            *)
IterateAlwaysPushes ==
  /\ worklist # <<>>
  /\ LET b == Last(worklist)
         rest == inWorklist \ {b}
         newIn == Meet(b)
         fresh == cfg.succ[b] \ rest
     IN /\ inSets' = [inSets EXCEPT ![b] = newIn]
        /\ outSets' = [outSets EXCEPT ![b] = Transfer(b, newIn)]
        /\ inWorklist' = rest \cup fresh
        /\ \E s \in SetToSeqs(fresh) : worklist' = Front(worklist) \o s
  /\ UNCHANGED cfg

(* One turn of the loop: pop a block, recompute its IN and OUT, and queue   *)
(* its successors when OUT changed.                                         *)
Iterate ==
  /\ worklist # <<>>
  /\ LET b == Last(worklist)
         rest == inWorklist \ {b}
         newIn == Meet(b)
         newOut == Transfer(b, newIn)
         fresh == IF newOut # outSets[b] THEN cfg.succ[b] \ rest ELSE {}
     IN /\ inSets' = [inSets EXCEPT ![b] = newIn]
        /\ outSets' = [outSets EXCEPT ![b] = newOut]
        /\ inWorklist' = rest \cup fresh
        /\ \E s \in SetToSeqs(fresh) : worklist' = Front(worklist) \o s
  /\ UNCHANGED cfg

(* The loop has nothing to wait for: the thread that runs it runs on.       *)
Fairness == WF_vars(Iterate)

Spec == Init /\ [][Iterate]_vars /\ Fairness

-----------------------------------------------------------------------------
(* Properties.                                                              *)

TypeOK ==
  /\ cfg \in Problem
  /\ worklist \in Seq(Block)
  /\ inWorklist \in SUBSET Block
  /\ inSets \in [Block -> SUBSET Def]
  /\ outSets \in [Block -> SUBSET Def]

Done == worklist = <<>>

(* The bit set and the stack agree, so no block is forgotten and none is in *)
(* the stack twice (the stack never grows beyond the number of blocks).     *)
WorklistMirrored ==
  /\ inWorklist = ToSet(worklist)
  /\ IsInjective(worklist)

(* The solver stops at a fixed point: on every reachable block the dataflow *)
(* equations hold exactly.                                                  *)
IsFixpoint ==
  \A b \in Reachable : /\ inSets[b] = Meet(b)
                        /\ outSets[b] = Transfer(b, inSets[b])

SolvedAtFixpoint == Done => IsFixpoint

(* A solution of the equations, as inequalities.                            *)
Solution(sol) ==
  \A b \in Block : Transfer(b, UNION {sol[p] : p \in Predecessors(b)}) \subseteq sol[b]

(* At every moment the solver has claimed nothing that some solution does   *)
(* not contain: what it stops at is the least fixed point, and no           *)
(* definition is said to reach a block without a reason.                    *)
NeverAboveASolution ==
  \A sol \in [Block -> SUBSET Def] :
    Solution(sol) => \A b \in Block : outSets[b] \subseteq sol[b]

(* A definition leaves b by the path q, a sequence of blocks ending in b.   *)
Carries(q, d) ==
  /\ d \in cfg.gen[q[1]]
  /\ \A i \in 1..Len(q)-1 : q[i+1] \in cfg.succ[q[i]]
  /\ \A i \in 2..Len(q) : d \in Transfer(q[i], {d})

(* "Meet over all paths" (solver.rs:29): OUT holds exactly the definitions  *)
(* some path from the entry carries along. Blocks that cannot be reached    *)
(* contribute nothing.                                                      *)
MeetOverPaths(b) ==
  {d \in Def : \E q \in SeqOf(Reachable, Cardinality(Block)) \ {<<>>} :
                 q[Len(q)] = b /\ Carries(q, d)}

SolvedIsMeetOverPaths == Done => \A b \in Block : outSets[b] = MeetOverPaths(b)

(* No step ever withdraws a definition from an OUT set: the reason why the  *)
(* loop ends.                                                               *)
OutSetsGrow == [][\A b \in Block : outSets[b] \subseteq outSets'[b]]_vars

Terminates == <>Done
=============================================================================
