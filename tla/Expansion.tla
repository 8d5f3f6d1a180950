------------------------------ MODULE Expansion ------------------------------
(***************************************************************************)
(* crates/core/src/expand.rs and its three callers: a match is shown with    *)
(* the function, or the type or function, around it. The callers know the    *)
(* match as a line (grep), as a line of the text of a scope (scoped) or as a *)
(* node (structural), and each computes the byte to start from; expand.rs    *)
(* takes the smallest node at that byte and climbs.                         *)
(*                                                                         *)
(* A file is its lines, each a length and a line ending, and its tree, each  *)
(* node with the line and column of its first byte and of the byte after its *)
(* last. Lines count from 1 and columns from 0.                             *)
(***************************************************************************)
EXTENDS Naturals, Sequences, SequencesExt, FiniteSets

CONSTANTS
  Files,       \* the files searched
  Budgets,     \* values of max_tokens
  NoBlock      \* find_enclosing_symbol found nothing

VARIABLES
  caller,      \* "grep", "scoped" or "structural"
  mode,        \* ExpandMode: "function" or "block"
  budget,      \* max_tokens
  file,        \* the file
  scope,       \* the scope searched, or the node matched
  line,        \* the line looked at
  cumulative,  \* scoped: cumulative_bytes
  hit          \* the last match pushed: its line, column and block

expansionVars == <<caller, mode, budget, file, scope, line, cumulative, hit>>
fixed == <<caller, mode, budget, file, scope>>
-----------------------------------------------------------------------------
FunctionKinds == {"function_declaration", "method_declaration", "function_definition",
                  "function_item", "method_definition", "arrow_function",
                  "closure_expression", "func_literal"}
BlockKinds == FunctionKinds \cup
  {"type_declaration", "struct_item", "impl_item", "enum_item", "trait_item",
   "class_declaration", "class_definition", "interface_declaration", "struct_specifier",
   "class_specifier", "module", "namespace_declaration"}
TargetKinds == IF mode = "function" THEN FunctionKinds ELSE BlockKinds

(* Bytes.                                                                   *)
Bytes(l) == file.lines[l].len + (IF file.lines[l].crlf THEN 2 ELSE 1)
LineStart(l) == FoldLeft(LAMBDA n, i : n + Bytes(i), 0, [i \in 1..l-1 |-> i])
First(n) == LineStart(n.from[1]) + n.from[2]
Past(n) == LineStart(n.to[1]) + n.to[2]

Root == CHOOSE n \in file.nodes : \A m \in file.nodes : First(n) <= First(m) /\ Past(m) <= Past(n)
Inside(n, m) == First(m) <= First(n) /\ Past(n) <= Past(m)

Innermost(S) == IF S = {} THEN NoBlock ELSE CHOOSE n \in S : \A m \in S : Inside(n, m)

(* descendant_for_byte_range; the root when no node holds the byte.          *)
NodeAt(byte) ==
  Innermost({Root} \cup {n \in file.nodes : First(n) <= byte /\ byte < Past(n)})

(* Mutant: the climb goes on to the outermost node of the kinds.             *)
EnclosingOutermost(byte) ==
  LET S == {n \in file.nodes : Inside(NodeAt(byte), n) /\ n.kind \in TargetKinds}
  IN IF S = {} THEN NoBlock ELSE CHOOSE n \in S : \A m \in S : Inside(m, n)

(* find_enclosing_symbol: the climb to the first node of the kinds.          *)
EnclosingSymbol(byte) ==
  Innermost({n \in file.nodes : Inside(NodeAt(byte), n) /\ n.kind \in TargetKinds})

(* The block is over the budget: grep compares bytes, the others a quarter.  *)
TooLarge(block) ==
  /\ block # NoBlock
  /\ LET size == Past(block) - First(block)
     IN IF caller = "grep" THEN size > budget ELSE size \div 4 > budget

(* A match at a byte is pushed with its block, or dropped for its size.      *)
Push(l, column, byte) ==
  hit' = IF TooLarge(EnclosingSymbol(byte)) THEN hit
         ELSE [line |-> l, column |-> column, block |-> EnclosingSymbol(byte)]
-----------------------------------------------------------------------------
NoHit == [line |-> 0]

ExpansionInit ==
  /\ caller \in {"grep", "scoped", "structural"}
  /\ mode \in {"function", "block"}
  /\ budget \in Budgets
  /\ file \in Files
  /\ scope \in file.nodes
  /\ caller = "grep" => scope = Root
  /\ line = IF caller = "grep" THEN 1 ELSE scope.from[1]
  /\ cumulative = 0
  /\ hit = NoHit

(* line_to_byte_offset                                                      *)
LineOffset(l) == IF l <= Len(file.lines) THEN LineStart(l) ELSE 0

GrepLine ==
  /\ caller = "grep"
  /\ line <= Len(file.lines)
  /\ Push(line, 0, LineOffset(line)) \/ UNCHANGED hit
  /\ line' = line + 1
  /\ UNCHANGED <<fixed, cumulative>>

(* lines() gives no line after the last line ending.                        *)
InScope(l) == l < scope.to[1] \/ (l = scope.to[1] /\ scope.to[2] > 0)

(* A line of the text of the scope: where it starts, and its length without  *)
(* its ending.                                                              *)
Column(l) == IF l = scope.from[1] THEN scope.from[2] ELSE 0
LineLength(l) ==
  (IF l = scope.to[1] THEN scope.to[2] ELSE file.lines[l].len) - Column(l)

(* A turn of search_in_scopes, whether the line matches or not; every line   *)
(* ending counts for one byte.                                              *)
ScopedLine ==
  /\ caller = "scoped"
  /\ InScope(line)
  /\ Push(line, Column(line), First(scope) + cumulative) \/ UNCHANGED hit
  /\ cumulative' = cumulative + LineLength(line) + 1
  /\ line' = line + 1
  /\ UNCHANGED fixed

StructuralMatch ==
  /\ caller = "structural"
  /\ line = scope.from[1]
  /\ Push(line, scope.from[2], First(scope))
  /\ line' = line + 1
  /\ UNCHANGED <<fixed, cumulative>>

ExpansionNext == GrepLine \/ ScopedLine \/ StructuralMatch
-----------------------------------------------------------------------------
Before(p, q) == p[1] < q[1] \/ (p[1] = q[1] /\ p[2] < q[2])
Around(n, place) == ~Before(place, n.from) /\ Before(place, n.to)

(* The lines of the scope before the match end in one byte each.             *)
PlainEndings ==
  caller = "scoped" =>
    \A l \in scope.from[1]..hit.line-1 : ~file.lines[l].crlf

(* A match is shown with the innermost function or type around the place     *)
(* where its text starts, however many lines of the scope were dropped for   *)
(* their size before it; and with none when there is none. The place is the  *)
(* start of the line for grep. A scope of lines that end in CRLF is left     *)
(* out: its bytes are miscounted.                                           *)
ExpandsWhereItMatched ==
  hit # NoHit /\ PlainEndings =>
    hit.block = Innermost({n \in file.nodes : /\ n.kind \in TargetKinds
                                             /\ Around(n, <<hit.line, hit.column>>)})
=============================================================================
