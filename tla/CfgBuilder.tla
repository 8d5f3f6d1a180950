----------------------------- MODULE CfgBuilder -----------------------------
(***************************************************************************)
(* crates/dataflow/src/cfg_builder.rs: the flat instruction list of a        *)
(* function is cut into basic blocks at branches, returns and jumps. One     *)
(* action handles one instruction.                                          *)
(*                                                                         *)
(* An instruction is what the analyses see of it: its kind, the variable it  *)
(* defines (None for an instruction without an l-value of its own), the      *)
(* variables it uses and where its span starts. The assignments made of one  *)
(* declaration have one span (il_build_expr.rs:67), the start of which is    *)
(* written as the position of the first of them; every other instruction     *)
(* starts where it is. Parallel edges are one edge: the solver does not tell *)
(* them apart.                                                              *)
(***************************************************************************)
EXTENDS Naturals, Sequences, SequencesExt

CONSTANTS
  Var,         \* the variables
  Body,        \* the instruction lists to translate
  MaxLength,   \* bound: their length
  None

Kind == {"plain", "branch", "return", "jump"}
Instr == [kind : Kind, def : Var \cup {None}, uses : SUBSET Var, start : Nat]

ASSUME LengthAssumption == MaxLength \in Nat
ASSUME VarAssumption == None \notin Var
(* Only assignments and calls define a variable, a jump uses none, and a     *)
(* declaration is made of plain instructions, one behind the other.          *)
ASSUME BodyAssumption ==
  \A s \in Body : /\ s \in Seq(Instr)
                  /\ Len(s) <= MaxLength
                  /\ \A i \in DOMAIN s : /\ s[i].kind # "plain" => s[i].def = None
                                         /\ s[i].kind = "jump" => s[i].uses = {}
                                         /\ \/ s[i].start = i
                                            \/ /\ i > 1 /\ s[i].start = s[i-1].start
                                               /\ s[i].kind = "plain" /\ s[i-1].kind = "plain"

Position == 1..MaxLength

(* Nodes of the graph, numbered as they are added.                          *)
Entry == 0
Exit == 1
Node == 0..MaxLength+1

VARIABLES
  body,        \* func.body
  ip,          \* the position of the next instruction
  current,     \* current_instrs: positions not yet in a block
  blocks,      \* the blocks added; blocks[k] is node k + 1
  edges,       \* the edges of the graph
  prev,        \* prev_block
  built        \* build_cfg has returned

cfgVars == <<body, ip, current, blocks, edges, prev, built>>

BuildInit ==
  /\ body \in Body
  /\ ip = 1
  /\ current = <<>>
  /\ blocks = <<>>
  /\ edges = {}
  /\ prev = Entry
  /\ built = FALSE

Reading(kinds) ==
  /\ ~built
  /\ ip <= Len(body)
  /\ body[ip].kind \in kinds
  /\ ip' = ip + 1
  /\ UNCHANGED <<body, built>>

(* Blocks with these contents are added one after the other behind prev;     *)
(* the last of them gets an edge to each node of targets.                   *)
AddBlocks(contents, targets) ==
  LET first == Len(blocks) + 2
      last == first + Len(contents) - 1
  IN /\ blocks' = blocks \o contents
     /\ edges' = edges \cup {<<prev, first>>}
                       \cup {<<n, n + 1>> : n \in first..last-1}
                       \cup {<<last, t>> : t \in targets}
     /\ prev' = last
     /\ current' = <<>>

(* Mutant: the pending instructions before a branch are dropped.            *)
BranchForgets ==
  /\ Reading({"branch"})
  /\ AddBlocks(<<<<ip>>>>, {})

(* A branch is a block of its own, behind one with the pending instructions. *)
(* It has one successor, like every block: the next one.                    *)
Branch ==
  /\ Reading({"branch"})
  /\ AddBlocks(IF current = <<>> THEN <<<<ip>>>> ELSE <<current, <<ip>>>>, {})

(* A return ends its block, which leads to the exit and to what follows.     *)
Return ==
  /\ Reading({"return"})
  /\ AddBlocks(<<Append(current, ip)>>, {Exit})

(* A jump ends its block; where it goes is not looked at.                   *)
Jump ==
  /\ Reading({"jump"})
  /\ AddBlocks(<<Append(current, ip)>>, {})

Plain ==
  /\ Reading({"plain"})
  /\ current' = Append(current, ip)
  /\ UNCHANGED <<blocks, edges, prev>>

(* The end of the body: pending instructions make a last block, and the last *)
(* block leads to the exit.                                                 *)
Flush ==
  /\ ~built
  /\ ip > Len(body)
  /\ built' = TRUE
  /\ \/ /\ current # <<>>
        /\ AddBlocks(<<current>>, {Exit})
     \/ /\ current = <<>>
        /\ edges' = edges \cup {<<prev, Exit>>}
        /\ UNCHANGED <<blocks, prev, current>>
  /\ UNCHANGED <<body, ip>>

BuildStep == Branch \/ Return \/ Jump \/ Plain \/ Flush

-----------------------------------------------------------------------------
(* The graph.                                                               *)

InstrsOf(n) == IF n - 1 \in DOMAIN blocks THEN blocks[n - 1] ELSE <<>>
Successors(n) == {m \in Node : <<n, m>> \in edges}
BlockOf(i) == CHOOSE n \in Node : i \in ToSet(InstrsOf(n))

(* The graph is a chain with extra edges to the exit, so its reverse         *)
(* postorder is the one topological order there is.                         *)
ReversePostorder == <<Entry>> \o [k \in 1..Len(blocks) |-> k + 1] \o <<Exit>>

-----------------------------------------------------------------------------
(* Properties.                                                              *)

(* The last position in block k, and before the first block.                *)
EndOf(k) == IF k = 0 THEN 0 ELSE Last(blocks[k])

(* Every instruction read is in the graph, or pending, exactly once, in the  *)
(* order of the body: nothing is lost at a cut.                             *)
NoInstructionLost ==
  /\ \A k \in 1..Len(blocks) :
       /\ blocks[k] # <<>>
       /\ blocks[k] = [j \in 1..Len(blocks[k]) |-> EndOf(k-1) + j]
  /\ current = [j \in 1..Len(current) |-> EndOf(Len(blocks)) + j]
  /\ EndOf(Len(blocks)) + Len(current) = ip - 1

(* The blocks stand in a chain from the entry to the exit and the exit is    *)
(* reached from every block, so the solver visits all of them.              *)
ChainToExit ==
  built => /\ \A k \in 1..Len(ReversePostorder)-1 :
                <<ReversePostorder[k], ReversePostorder[k+1]>> \in edges
           /\ \A e \in edges : e[2] # Entry /\ e[1] # Exit

(* il.rs:100: a branch has "two CFG successors: true/false branch".         *)
BranchesInTwo ==
  built => \A n \in Node : \A i \in ToSet(InstrsOf(n)) :
             body[i].kind = "branch" => \E m1, m2 \in Successors(n) : m1 # m2
=============================================================================
