-------------------------------- MODULE Edits --------------------------------
(***************************************************************************)
(* resolve_overlaps and apply_edits of crates/core/src/rewrite.rs: what a    *)
(* rewrite makes of the edits a pattern found in one file. Matches may nest  *)
(* and share their start; of those that overlap one is applied.             *)
(*                                                                         *)
(* The text is the sequence of its positions; a replacement is as many       *)
(* cells that carry its edit's position as it is long.                      *)
(***************************************************************************)
EXTENDS Naturals, Sequences, SequencesExt, FiniteSets

CONSTANTS
  Length,      \* the length of the file
  Inserts,     \* the lengths of replacements
  MaxEdits     \* bound: the edits found in the file

ASSUME EditsAssumption == Length \in Nat /\ Inserts \subseteq Nat /\ MaxEdits \in Nat

(* A match is a node of the text, so it is not empty and ends in it.         *)
Edit == {e \in [pos : 0..Length-1, del : 1..Length, ins : Inserts] : e.pos + e.del <= Length}

VARIABLES
  unseen,      \* the edits not yet looked at
  accepted,    \* the edits accepted
  skipped,     \* the edits counted as skipped
  lastEnd,     \* where the last accepted edit ends; 0 before there is one
  unapplied,   \* the accepted edits not yet applied
  text         \* the text as it is

editVars == <<unseen, accepted, skipped, lastEnd, unapplied, text>>

End(e) == e.pos + e.del
Old(p) == [new |-> FALSE, pos |-> p]
New(p) == [new |-> TRUE, pos |-> p]

EditsTypeOK ==
  /\ unseen \subseteq Edit /\ accepted \subseteq Edit /\ skipped \subseteq Edit
  /\ unapplied \subseteq Edit
  /\ lastEnd \in 0..Length
  /\ text \in Seq([new : BOOLEAN, pos : 0..Length-1])

EditsInit ==
  /\ unseen \in {S \in SUBSET Edit : Cardinality(S) <= MaxEdits}
  /\ accepted = {}
  /\ skipped = {}
  /\ lastEnd = 0
  /\ unapplied = {}
  /\ text = [i \in 1..Length |-> Old(i - 1)]

(* Mutant: of two matches with the same start the narrower comes first.      *)
ComesBeforeNarrow(e, f) == e.pos < f.pos \/ (e.pos = f.pos /\ e.del < f.del)

(* The order of the sort: by start, the widest first.                       *)
ComesBefore(e, f) == e.pos < f.pos \/ (e.pos = f.pos /\ e.del > f.del)

IsNext(e) == e \in unseen /\ \A f \in unseen : ~ComesBefore(f, e)

Overlaps(e) == accepted # {} /\ e.pos < lastEnd

(* One turn of resolve_overlaps.                                            *)
Accept(e) ==
  /\ IsNext(e)
  /\ ~Overlaps(e)
  /\ unseen' = unseen \ {e}
  /\ accepted' = accepted \cup {e}
  /\ unapplied' = unapplied \cup {e}
  /\ lastEnd' = End(e)
  /\ UNCHANGED <<skipped, text>>

Skip(e) ==
  /\ IsNext(e)
  /\ Overlaps(e)
  /\ unseen' = unseen \ {e}
  /\ skipped' = skipped \cup {e}
  /\ UNCHANGED <<accepted, lastEnd, unapplied, text>>

(* Mutant: the edits are applied from the front.                            *)
IsFirst(e) == \A f \in unapplied : e.pos <= f.pos

(* apply_edits works from the back.                                         *)
IsLast(e) == \A f \in unapplied : f.pos <= e.pos

(* One turn of apply_edits. The end is cut at the length of the text.        *)
Apply(e) ==
  /\ unseen = {}
  /\ e \in unapplied
  /\ IsLast(e)
  /\ text' = SubSeq(text, 1, e.pos) \o [i \in 1..e.ins |-> New(e.pos)]
               \o SubSeq(text, End(e) + 1, Len(text))
  /\ unapplied' = unapplied \ {e}
  /\ UNCHANGED <<unseen, accepted, skipped, lastEnd>>

EditsNext == \E e \in Edit : Accept(e) \/ Skip(e) \/ Apply(e)

EditsSpec == EditsInit /\ [][EditsNext]_editVars
-----------------------------------------------------------------------------
(* Accepted edits do not overlap; an edit is skipped only for an accepted    *)
(* one that it starts in, and of two that start together the outer one wins  *)
(* (rewrite.rs:321, "the outer of two nested matches deterministically       *)
(* wins"). Edits that only touch are both applied.                          *)
OuterEditWins ==
  /\ \A e, f \in accepted : e = f \/ End(e) <= f.pos \/ End(f) <= e.pos
  /\ \A s \in skipped : \E e \in accepted :
       /\ e.pos <= s.pos /\ s.pos < End(e)
       /\ e.pos = s.pos => s.del <= e.del

(* The text as it should be when all is applied: each accepted edit replaces *)
(* what was there before any of them, and nothing else changes.             *)
Spliced ==
  LET Cells(p) == IF \E e \in accepted : e.pos = p
                  THEN [i \in 1..(CHOOSE e \in accepted : e.pos = p).ins |-> New(p)]
                  ELSE IF \E e \in accepted : e.pos < p /\ p < End(e) THEN <<>>
                  ELSE <<Old(p)>>
  IN FlattenSeq([i \in 1..Length |-> Cells(i - 1)])

(* Edits that change the length of the text do not move the ones applied     *)
(* after them.                                                              *)
EditsInPlace == unseen = {} /\ unapplied = {} => text = Spliced
=============================================================================
