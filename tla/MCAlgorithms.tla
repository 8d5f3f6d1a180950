---------------------------- MODULE MCAlgorithms ----------------------------
(***************************************************************************)
(* The pure algorithms, each on small inputs: the solver, the cache of       *)
(* languages, the resolution of edits, the split of globs and the expansion  *)
(* of matches. They share nothing: a behaviour runs one of them, with the    *)
(* others where they are when they have nothing to do.                      *)
(***************************************************************************)
EXTENDS MCSolver, Languages, Edits, Globs, Expansion

CONSTANTS GlobLength    \* bound: the length of the globs

MCPatterns == SeqOf(Char, GlobLength)

(* A class with an indented method of two lines and a function of one line,  *)
(* and a comment after it; the ends of some lines are CRLF.                  *)
Node(kind, l1, c1, l2, c2) == [kind |-> kind, from |-> <<l1, c1>>, to |-> <<l2, c2>>]
MCFile(indent, crlf, lens) ==
  [lines |-> [l \in 1..6 |-> [len |-> lens[l], crlf |-> l \in crlf]],
   nodes |-> {Node("program", 1, 0, 6, lens[6]),
              Node("class_declaration", 1, 0, 5, lens[5]),
              Node("method_definition", 2, indent, 3, lens[3]),
              Node("statement_block", 2, indent + 1, 3, lens[3]),
              Node("function_declaration", 4, 1, 4, lens[4]),
              Node("comment", 6, 0, 6, lens[6])}]
MCFiles == {MCFile(1, {}, <<3, 4, 2, 4, 1, 2>>), MCFile(0, {2}, <<4, 3, 0, 3, 2, 1>>),
            MCFile(1, 1..6, <<2, 2, 1, 6, 1, 3>>)}
-----------------------------------------------------------------------------
SolverRests ==
  /\ cfg = [succ |-> [b \in Block |-> {}], gen |-> [b \in Block |-> {}],
            kill |-> [b \in Block |-> {}]]
  /\ worklist = <<>> /\ inWorklist = {}
  /\ inSets = [b \in Block |-> {}] /\ outSets = [b \in Block |-> {}]
LanguagesRest == ext = "txt" /\ entries = [k \in {} |-> {}] /\ served = NoSearch
EditsRest == /\ unseen = {} /\ accepted = {} /\ skipped = {} /\ lastEnd = 0 /\ unapplied = {}
             /\ text = [i \in 1..Length |-> Old(i - 1)]
GlobsRest == patterns = <<>> /\ index = 2 /\ depth = 0 /\ start = 1 /\ pieces = <<<<1, 0>>>>
ExpansionRests ==
  /\ caller = "structural" /\ mode = "function" /\ budget = Max(Budgets)
  /\ file = MCFile(1, {}, <<3, 4, 2, 4, 1, 2>>)
  /\ scope = Node("program", 1, 0, 6, 2)
  /\ line = 2 /\ cumulative = 0 /\ hit = NoHit

AlgorithmsInit ==
  \/ Init /\ LanguagesRest /\ EditsRest /\ GlobsRest /\ ExpansionRests
  \/ SolverRests /\ LanguagesInit /\ EditsRest /\ GlobsRest /\ ExpansionRests
  \/ SolverRests /\ LanguagesRest /\ EditsInit /\ GlobsRest /\ ExpansionRests
  \/ SolverRests /\ LanguagesRest /\ EditsRest /\ GlobsInit /\ ExpansionRests
  \/ SolverRests /\ LanguagesRest /\ EditsRest /\ GlobsRest /\ ExpansionInit

AlgorithmsNext ==
  \/ Iterate /\ UNCHANGED <<langVars, editVars, globVars, expansionVars>>
  \/ LanguagesNext /\ UNCHANGED <<vars, editVars, globVars, expansionVars>>
  \/ EditsNext /\ UNCHANGED <<vars, langVars, globVars, expansionVars>>
  \/ GlobsNext /\ UNCHANGED <<vars, langVars, editVars, expansionVars>>
  \/ ExpansionNext /\ UNCHANGED <<vars, langVars, editVars, globVars>>

allVars == <<vars, langVars, editVars, globVars, expansionVars>>

AlgorithmsSpec == AlgorithmsInit /\ [][AlgorithmsNext]_allVars /\ Fairness
=============================================================================
