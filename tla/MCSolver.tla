------------------------------ MODULE MCSolver ------------------------------
(***************************************************************************)
(* Small control flow graphs for Solver: every graph on the blocks          *)
(* 0..LastBlock whose entry, 0, leads to 1 and has no predecessor and whose *)
(* blocks have at most MaxSuccessors successors, with the definitions       *)
(* 0..LastDef in every placement that puts definition 0 in block 1. Loops,  *)
(* self loops, joins and unreachable blocks all occur.                      *)
(***************************************************************************)
EXTENDS Solver

CONSTANTS LastBlock, LastDef, MaxSuccessors

MCBlock == 0..LastBlock
MCDef == 0..LastDef

Graphs ==
  {g \in [MCBlock -> SUBSET (1..LastBlock)] :
     /\ \A b \in MCBlock : Cardinality(g[b]) <= MaxSuccessors
     /\ g[0] = {1}}

(* home[d] is the block of definition d.                                    *)
Homes == {home \in [MCDef -> 1..LastBlock] : home[0] = 1}

(* GEN and KILL as ReachingDefProblem::new fills them; the definitions are   *)
(* of one variable or each of its own.                                      *)
MCProblems ==
  {[succ |-> g,
    gen  |-> [b \in MCBlock |-> {d \in MCDef : home[d] = b}],
    kill |-> [b \in MCBlock |->
                {e \in MCDef : oneVariable /\ \E d \in MCDef \ {e} : home[d] = b}]] :
   g \in Graphs, home \in Homes, oneVariable \in BOOLEAN}
=============================================================================
