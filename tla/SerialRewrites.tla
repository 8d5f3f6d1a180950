--------------------------- MODULE SerialRewrites ---------------------------
(***************************************************************************)
(* What POST /rewrite with apply=true promises, whatever else is rewriting   *)
(* the same files: every rewrite that lands is applied to the whole of what  *)
(* landed before it, no batch lands twice in a file, and a batch that        *)
(* answers lists exactly the files it landed in and rejects only files it    *)
(* left alone (docs/API.md, "Counting semantics").                           *)
(***************************************************************************)
EXTENDS Sequences, SequencesExt

CONSTANTS Batch, File, None

VARIABLES
  landed,      \* landed[f]: the batches applied to f, in order
  reply        \* reply[b]: the files and rejections b answered with, or None

Init ==
  /\ landed = [f \in File |-> <<>>]
  /\ reply = [b \in Batch |-> None]

LandedIn(b) == {f \in File : b \in ToSet(landed[f])}

Land(b, f) ==
  /\ reply[b] = None
  /\ f \notin LandedIn(b)
  /\ landed' = [landed EXCEPT ![f] = Append(@, b)]
  /\ UNCHANGED reply

Reply(b) ==
  /\ reply[b] = None
  /\ \E rejected \in SUBSET (File \ LandedIn(b)) :
       reply' = [reply EXCEPT ![b] = [files |-> LandedIn(b), rejected |-> rejected]]
  /\ UNCHANGED landed

Next == \E b \in Batch : Reply(b) \/ \E f \in File : Land(b, f)

Spec == Init /\ [][Next]_<<landed, reply>>
=============================================================================
