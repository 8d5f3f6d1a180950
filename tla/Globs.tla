-------------------------------- MODULE Globs --------------------------------
(***************************************************************************)
(* crates/core/src/grep_filter.rs: build_globset splits a file_glob at its   *)
(* commas, except those of a {...} group, and drops the pieces that are      *)
(* empty. A pattern is a sequence of characters: "open" and "close" are the   *)
(* braces { and }, and "other" stands for all that are not told apart.       *)
(***************************************************************************)
EXTENDS Naturals, Sequences, SequencesExt, FiniteSets, FiniteSetsExt

CONSTANTS Patterns   \* the values of file_glob and exclude_glob

Char == {"open", "close", "comma", "blank", "other"}
ASSUME PatternsAssumption == Patterns \subseteq Seq(Char)

VARIABLES
  patterns,    \* the string to split
  index,       \* the next character
  depth,       \* open groups
  start,       \* where the piece being read starts
  pieces       \* the pieces, as <<first, last>> positions

globVars == <<patterns, index, depth, start, pieces>>

GlobsInit ==
  /\ patterns \in Patterns
  /\ index = 1
  /\ depth = 0
  /\ start = 1
  /\ pieces = <<>>

(* Mutant: a closing brace without an opening one counts.                   *)
DepthUnbounded(ch) == IF ch = "open" THEN depth + 1 ELSE IF ch = "close" THEN depth - 1 ELSE depth

Depth(ch) == IF ch = "open" THEN depth + 1 ELSE IF ch = "close" /\ depth > 0 THEN depth - 1 ELSE depth

(* One character of split_top_level_commas.                                 *)
Scan ==
  /\ index <= Len(patterns)
  /\ LET ch == patterns[index] IN
     /\ depth' = Depth(ch)
     /\ IF ch = "comma" /\ depth = 0
        THEN pieces' = Append(pieces, <<start, index - 1>>) /\ start' = index + 1
        ELSE UNCHANGED <<pieces, start>>
  /\ index' = index + 1
  /\ UNCHANGED patterns

(* The rest is the last piece.                                              *)
LastPiece ==
  /\ index = Len(patterns) + 1
  /\ pieces' = Append(pieces, <<start, Len(patterns)>>)
  /\ index' = index + 1
  /\ UNCHANGED <<patterns, depth, start>>

GlobsNext == Scan \/ LastPiece

(* What build_globset makes globs of: trimmed, and not empty.                *)
Trimmed(p) ==
  LET ink == {i \in p[1]..p[2] : patterns[i] # "blank"}
  IN IF ink = {} THEN <<>> ELSE SubSeq(patterns, Min(ink), Max(ink))
Globs == SelectSeq([i \in DOMAIN pieces |-> Trimmed(pieces[i])], LAMBDA g : g # <<>>)
-----------------------------------------------------------------------------
Count(ch, i, j) == Cardinality({k \in i..j : patterns[k] = ch})

(* A comma stands in a group when from some point on more groups were        *)
(* opened than closed before it.                                            *)
InGroup(i) == \E j \in 1..i-1 : Count("open", j, i - 1) > Count("close", j, i - 1)

Separators == {i \in DOMAIN patterns : patterns[i] = "comma" /\ ~InGroup(i)}

CutsAreSeparators ==
  /\ {p[2] + 1 : p \in ToSet(pieces)} = Separators \cup {Len(patterns) + 1}
  /\ {p[1] - 1 : p \in ToSet(pieces)} = Separators \cup {0}

Ink(s) == Cardinality({k \in DOMAIN s : s[k] \notin {"comma", "blank"}})

(* The string is cut at every comma outside of all groups and at no other    *)
(* place, unmatched braces or not, and no other character is lost but blanks *)
(* around a glob (grep_filter.rs:43).                                       *)
CutAtSeparators ==
  index > Len(patterns) + 1 =>
    /\ CutsAreSeparators
    /\ \A g \in ToSet(Globs) : Head(g) # "blank" /\ Last(g) # "blank"
    /\ Ink(patterns) = FoldSeq(LAMBDA g, n : n + Ink(g), 0, Globs)
=============================================================================
