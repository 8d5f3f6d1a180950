------------------------------- MODULE DefUse -------------------------------
(***************************************************************************)
(* The intraprocedural analysis of one function, from its instructions to    *)
(* its findings: the graph is built (CfgBuilder), reaching definitions are   *)
(* set up (reaching_defs.rs) and solved (Solver), and definitions are        *)
(* chained to uses (def_use.rs), from which cfg_analysis.rs reads dead       *)
(* stores and uninitialised variables.                                      *)
(*                                                                         *)
(* A definition is named by the position of its instruction.                *)
(***************************************************************************)
EXTENDS CfgBuilder, FiniteSets

CONSTANTS
  MaxDefinitions,  \* MAX_DEFINITIONS
  Params,          \* the parameters
  Unreported       \* the names that make no dead store: "err" and those with "_"

ASSUME BailOutAssumption == MaxDefinitions \in Nat
ASSUME NamesAssumption == Params \cup Unreported \subseteq Var

VARIABLES
  phase,       \* "build", "solve", "chain", "done" or "bailed"
  problem,     \* the graph with GEN and KILL
  worklist, inWorklist, inSets, outSets,   \* the solver's
  chains       \* pairs of a definition and a use it reaches

solverVars == <<problem, worklist, inWorklist, inSets, outSets>>
vars == <<body, ip, current, blocks, edges, prev, built, phase, problem, worklist,
          inWorklist, inSets, outSets, chains>>

Solver == INSTANCE Solver
  WITH Block <- Node, Def <- Position, Problems <- {}, cfg <- problem

(* collect_definitions                                                      *)
Definitions == {i \in DOMAIN body : body[i].def # None}
DefsOf(v) == {d \in Definitions : body[d].def = v}

(* GEN: every definition in the block; KILL: all others of their variables.  *)
Gen(n) == ToSet(InstrsOf(n)) \cap Definitions
Kill(n) == UNION {DefsOf(body[d].def) \ {d} : d \in Gen(n)}

Init ==
  /\ BuildInit
  /\ phase = "build"
  /\ problem = [succ |-> [n \in Node |-> {}], gen |-> [n \in Node |-> {}],
                kill |-> [n \in Node |-> {}]]
  /\ worklist = <<>>
  /\ inWorklist = {}
  /\ inSets = [n \in Node |-> {}]
  /\ outSets = [n \in Node |-> {}]
  /\ chains = {}

Build ==
  /\ phase = "build"
  /\ BuildStep
  /\ UNCHANGED <<phase, problem, worklist, inWorklist, inSets, outSets, chains>>

(* reaching_definitions: give up, or set the problem up and start solving.   *)
Collect ==
  /\ phase = "build" /\ built
  /\ \/ /\ Cardinality(Definitions) > MaxDefinitions
        /\ phase' = "bailed"
        /\ UNCHANGED solverVars
     \/ /\ Cardinality(Definitions) <= MaxDefinitions
        /\ phase' = "solve"
        /\ problem' = [succ |-> [n \in Node |-> Successors(n)],
                       gen  |-> [n \in Node |-> Gen(n)],
                       kill |-> [n \in Node |-> Kill(n)]]
        /\ worklist' = ReversePostorder
        /\ inWorklist' = ToSet(ReversePostorder)
        /\ UNCHANGED <<inSets, outSets>>
  /\ UNCHANGED <<body, ip, current, blocks, edges, prev, built, chains>>

Solve ==
  /\ phase = "solve"
  /\ Solver!Iterate
  /\ UNCHANGED <<body, ip, current, blocks, edges, prev, built, phase, chains>>

Before(i, n) == {j \in ToSet(InstrsOf(n)) : j < i}

(* The last definitions, each of its variable, before i in the block.        *)
LastIn(i, n) ==
  {e \in Before(i, n) \cap Definitions : \A f \in Before(i, n) \cap DefsOf(body[e].def) : f <= e}

(* What the block itself has live before i. A definition is looked up by     *)
(* name, block and start: with the last one come all that its declaration    *)
(* makes of the variable, later ones included.                              *)
LiveOwn(i, n) ==
  {d \in ToSet(InstrsOf(n)) \cap Definitions :
     \E e \in LastIn(i, n) : body[e].def = body[d].def /\ body[e].start = body[d].start}

(* Mutant: a definition in the block does not kill the ones that came in.    *)
LiveKillsNothing(i, n) == inSets[n] \cup LiveOwn(i, n)

(* Mutant: each block starts with nothing live.                             *)
LiveInBlock(i, n) == LiveOwn(i, n)

(* The definitions live just before instruction i of block n: those live at  *)
(* the start of the block, unless the block defines the variable before i.   *)
LiveBefore(i, n) ==
  {d \in inSets[n] : Before(i, n) \cap DefsOf(body[d].def) = {}} \cup LiveOwn(i, n)

(* build_def_use_chains                                                     *)
Chain ==
  /\ phase = "solve" /\ worklist = <<>>
  /\ phase' = "done"
  /\ chains' = {c \in Definitions \X DOMAIN body :
                  body[c[1]].def \in body[c[2]].uses /\ c[1] \in LiveBefore(c[2], BlockOf(c[2]))}
  /\ UNCHANGED <<body, ip, current, blocks, edges, prev, built, problem, worklist,
                 inWorklist, inSets, outSets>>

(* The analysis of the function is over.                                    *)
Over == phase \in {"done", "bailed"} /\ UNCHANGED vars

Next == Build \/ Collect \/ Solve \/ Chain \/ Over

Spec == Init /\ [][Next]_vars

-----------------------------------------------------------------------------
(* The findings.                                                            *)

(* dead_stores_cfg                                                          *)
DeadStores ==
  {d \in Definitions : body[d].def \notin Params \cup Unreported /\ \A c \in chains : c[1] # d}

(* Mutant: the IN set is the one of the definition's block.                 *)
UninitializedAtDef ==
  {c[2] : c \in {c \in chains :
     /\ body[c[1]].def \notin Params
     /\ DefsOf(body[c[1]].def) \cap inSets[BlockOf(c[1])] = {}}}

(* uninitialized_vars: a use with a chain whose block no definition of the   *)
(* variable reaches.                                                        *)
UninitializedUses ==
  {c[2] : c \in {c \in chains :
     /\ body[c[1]].def \notin Params
     /\ DefsOf(body[c[1]].def) \cap inSets[BlockOf(c[2])] = {}}}

-----------------------------------------------------------------------------
(* Properties. Control falls through every instruction, so the definition d  *)
(* of v reaches i when v is not defined in between.                         *)

Reaches(d, i) == d < i /\ \A e \in DefsOf(body[d].def) : ~(d < e /\ e < i)

Finished == phase = "done"

(* No use is missed: what reaches a use is chained to it, across blocks and  *)
(* within one.                                                              *)
NoUseMissed ==
  Finished => \A d \in Definitions, i \in DOMAIN body :
                body[d].def \in body[i].uses /\ Reaches(d, i) => <<d, i>> \in chains

(* A chain that is not real comes from a block that defines the variable     *)
(* twice: it leads to another block and GEN holds both definitions, or it    *)
(* stays in the block, and the other one, which does reach the use, is of    *)
(* the same declaration, whose definitions have one name, block and span.    *)
OnlyOverwrittenAreExtra ==
  Finished => \A c \in chains :
    \/ Reaches(c[1], c[2])
    \/ \E e \in DefsOf(body[c[1]].def) :
         /\ BlockOf(e) = BlockOf(c[1])
         /\ \/ BlockOf(c[2]) # BlockOf(e) /\ c[1] < e /\ e < c[2]
            \/ /\ BlockOf(c[2]) = BlockOf(e) /\ Reaches(e, c[2])
               /\ body[e].start = body[c[1]].start

(* Everything called uninitialised is read in the block that defines it: no  *)
(* such finding is about a variable that is not defined.                    *)
UninitializedOnlyInBlock ==
  Finished => \A i \in UninitializedUses :
    \E d \in Definitions : d < i /\ BlockOf(d) = BlockOf(i) /\ <<d, i>> \in chains

(* reaching_defs.rs:3: the solver computes "which definitions reach each     *)
(* point".                                                                  *)
ChainsAreExact == Finished => \A c \in chains : Reaches(c[1], c[2])

(* cfg_analysis.rs:55: uninitialized_vars is to "detect variables used       *)
(* before being defined".                                                   *)
UninitializedAreUndefined ==
  Finished => \A i \in UninitializedUses :
    \E v \in body[i].uses : \A d \in DefsOf(v) : ~Reaches(d, i)
=============================================================================
