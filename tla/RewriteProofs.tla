---------------------------- MODULE RewriteProofs ----------------------------
(***************************************************************************)
(* Proofs about Rewrite and RewriteRequests, for any batches, files,         *)
(* stripes, limits and number of edits.                                     *)
(*                                                                         *)
(* The steps of a batch keep the stripe locks in order: a batch holds no     *)
(* stripe but that of the file it is at, and from the read to the end of     *)
(* the turn it does hold that one. What a batch read is then what the file   *)
(* holds until it writes, and its write extends it.                         *)
(***************************************************************************)
EXTENDS RewriteRequests, SequenceTheorems, TLAPS

(* The steps of a turn from which on the stripe is held, if one is.          *)
Locked == {"read", "edit", "reparse", "persist", "count"}
Turn == {"file", "lock"} \cup Locked

(* A batch is in the turn of a file, writes only when it applies, holds just *)
(* the stripe of that file, and answers last.                               *)
Turns ==
  \A b \in Batch :
    /\ pc[b] \in Turn => pos[b] \in File
    /\ pc[b] \in {"lock", "reparse", "persist"} => b \in applying
    /\ pc[b] # "done" => answer[b] = None
StripesHeld ==
  \A b \in Batch : b \in applying /\ pc[b] \in Locked => holder[StripeOf[pos[b]]] = b
(* A batch that waits for a stripe holds none: no circle of waiting.         *)
OneLockAtATime ==
  \A b \in Batch, s \in Stripe : holder[s] = b => pc[b] \in Locked /\ s = StripeOf[pos[b]]

LockInv == TypeOK /\ Turns /\ StripesHeld /\ OneLockAtATime /\ SnapshotIsCurrent

LEMMA InitLocks == Init => LockInv
<1> SUFFICES ASSUME Init PROVE LockInv
  OBVIOUS
<1>1. TypeOK
  <2>1. content \in [File -> Seq(Batch)] /\ src \in [Batch -> Seq(Batch)]
    BY EmptySeq DEF Init
  <2> QED BY <2>1, BoundsAssumption DEF Init, TypeOK, Steps
<1>2. Turns /\ StripesHeld /\ OneLockAtATime /\ SnapshotIsCurrent
  BY BatchAssumption DEF Init, Turns, StripesHeld, OneLockAtATime, SnapshotIsCurrent, Turn, Locked
<1> QED BY <1>1, <1>2 DEF LockInv

(* A step of b leaves the other batches where they are, and takes or gives   *)
(* back stripes only for b.                                                 *)
LEMMA OthersStay ==
  ASSUME TypeOK, NEW b \in Batch, BatchStep(b)
  PROVE  /\ applying' = applying
         /\ \A c \in Batch \ {b} :
              /\ pc'[c] = pc[c] /\ pos'[c] = pos[c] /\ src'[c] = src[c]
              /\ files'[c] = files[c] /\ rejected'[c] = rejected[c] /\ answer'[c] = answer[c]
         /\ \A s \in Stripe : \A c \in Batch \ {b} : holder'[s] = c <=> holder[s] = c
<1> USE DEF TypeOK, At
<1>1. CASE Pull(b)
  BY <1>1 DEF Pull, BatchStep
<1>2. CASE Probe(b)
  BY <1>2 DEF Probe, BatchStep
<1>3. CASE Answer(b)
  BY <1>3 DEF Answer, BatchStep
<1>4. CASE PassOver(b)
  BY <1>4, BatchAssumption DEF PassOver, Continue, DropGuard, BatchStep
<1>5. CASE RejectOversize(b)
  BY <1>5, BatchAssumption DEF RejectOversize, Continue, DropGuard, Reject, BatchStep
<1>6. CASE Accept(b)
  BY <1>6 DEF Accept, BatchStep
<1>7. CASE Lock(b)
  BY <1>7, BatchAssumption DEF Lock, BatchStep
<1>8. CASE Read(b)
  BY <1>8, BatchAssumption DEF Read, Continue, DropGuard, BatchStep
<1>9. CASE Edit(b)
  BY <1>9, BatchAssumption DEF Edit, Continue, DropGuard, BatchStep
<1>10. CASE Reparse(b)
  BY <1>10, BatchAssumption DEF Reparse, Continue, DropGuard, Reject, BatchStep
<1>11. CASE Persist(b)
  BY <1>11 DEF Persist, BatchStep
<1>12. CASE PersistFails(b)
  BY <1>12, BatchAssumption DEF PersistFails, DropGuard, BatchStep
<1>13. CASE Panic(b)
  BY <1>13, BatchAssumption DEF Panic, DropGuard, BatchStep
<1>14. CASE Count(b)
  BY <1>14, BatchAssumption DEF Count, DropGuard, BatchStep
<1> QED BY <1>1, <1>2, <1>3, <1>4, <1>5, <1>6, <1>7, <1>8, <1>9, <1>10, <1>11, <1>12, <1>13,
           <1>14 DEF BatchStep

(* The end of a turn that leaves the file as it is.                         *)
LEMMA ContinueOK ==
  ASSUME LockInv, NEW b \in Batch, Continue(b), applying' = applying,
         rejected' \in [Batch -> SUBSET File], pc[b] # "done"
  PROVE  /\ TypeOK'
         /\ pc'[b] = "pull" /\ answer'[b] = None
         /\ \A s \in Stripe : holder'[s] # b
<1>1. TypeOK'
  BY DEF LockInv, Continue, DropGuard, At, TypeOK, Steps
<1>2. pc'[b] = "pull" /\ answer'[b] = None
  BY DEF LockInv, Continue, At, TypeOK, Turns
<1>3. \A s \in Stripe : holder'[s] # b
  BY BatchAssumption DEF Continue, DropGuard
<1> QED BY <1>1, <1>2, <1>3

(* What the invariant says of b itself, after its step.                      *)
Own(b) ==
  /\ pc[b] \in Turn => pos[b] \in File
  /\ pc[b] \in {"lock", "reparse", "persist"} => b \in applying
  /\ pc[b] # "done" => answer[b] = None
  /\ b \in applying /\ pc[b] \in Locked => holder[StripeOf[pos[b]]] = b
  /\ \A s \in Stripe : holder[s] = b => pc[b] \in Locked /\ s = StripeOf[pos[b]]

LEMMA TurnsAreOwn ==
  Turns /\ StripesHeld /\ OneLockAtATime <=> \A b \in Batch : Own(b)
BY DEF Turns, StripesHeld, OneLockAtATime, Own

LEMMA OwnStep ==
  ASSUME LockInv, NEW b \in Batch, BatchStep(b)
  PROVE  TypeOK' /\ Own(b)'
<1>1. applying' = applying /\ Own(b) /\ TypeOK
  BY TurnsAreOwn DEF BatchStep, LockInv
<1>2. pc[b] \in Turn => pos[b] \in File /\ StripeOf[pos[b]] \in Stripe
  BY <1>1, StripeAssumption DEF Own
<1>3. ASSUME Continue(b), rejected' \in [Batch -> SUBSET File], pc[b] # "done"
      PROVE  TypeOK' /\ Own(b)'
  BY <1>1, <1>3, ContinueOK DEF Own, Turn, Locked
<1>4. ASSUME NEW step \in Steps, At(b, step), pc[b] # "done",
             UNCHANGED <<content, holder, poisoned, pos, src, edits, files, total, answer>>,
             rejected' = rejected, truncated' \in [Batch -> BOOLEAN],
             pc[b] \in Locked <=> step \in Locked,
             step \in Turn => pc[b] \in Turn,
             step \in {"lock", "reparse", "persist"} => b \in applying
      PROVE  TypeOK' /\ Own(b)'
  <2>1. TypeOK'
    BY <1>1, <1>4 DEF TypeOK, At
  <2>2. pc'[b] = step
    BY <1>1, <1>4 DEF TypeOK, At
  <2> QED BY <1>1, <1>4, <2>1, <2>2 DEF Own
<1>5. ASSUME Reject(b), pc[b] \in Turn PROVE rejected' \in [Batch -> SUBSET File]
  BY <1>1, <1>2, <1>5 DEF Reject, TypeOK
<1> USE DEF Steps, Turn, Locked
<1>6. CASE Pull(b)
  <2>1. CASE Exhausted(b) \/ AtCap(b)
    <3>1. truncated' \in [Batch -> BOOLEAN]
      BY <1>1, <1>6, <2>1 DEF Pull, TypeOK, AtCap
    <3> QED BY <1>4, <1>6, <2>1, <3>1 DEF Pull
  <2>2. CASE ~(Exhausted(b) \/ AtCap(b))
    <3>1. pos' = [pos EXCEPT ![b] = @ + 1] /\ At(b, "file")
          /\ UNCHANGED <<content, holder, poisoned, src, edits, files, rejected, total,
                         truncated, answer>>
      BY <1>6, <2>2 DEF Pull
    <3>2. pos[b] \in 0..NumFiles /\ pos[b] # NumFiles
      BY <1>1, <2>2 DEF TypeOK, Exhausted
    <3>3. pos[b] + 1 \in File /\ pos[b] + 1 \in 0..NumFiles
      BY <3>2, BoundsAssumption DEF File
    <3>4. TypeOK' /\ pc'[b] = "file" /\ pos'[b] = pos[b] + 1
      BY <1>1, <3>1, <3>3 DEF TypeOK, At
    <3> QED BY <1>1, <1>6, <3>1, <3>3, <3>4 DEF Own, Pull
  <2> QED BY <2>1, <2>2
<1>7. CASE Probe(b)
  <2>1. truncated' \in [Batch -> BOOLEAN]
    BY <1>1, <1>7 DEF Probe, TypeOK, AtCap
  <2> QED BY <1>4, <1>7, <2>1 DEF Probe
<1>8. CASE Answer(b)
  BY <1>1, <1>8 DEF Answer, At, TypeOK, Own
<1>9. CASE PassOver(b)
  BY <1>1, <1>3, <1>9 DEF PassOver, TypeOK
<1>10. CASE RejectOversize(b)
  BY <1>3, <1>5, <1>10 DEF RejectOversize
<1>11. CASE Accept(b)
  <2>1. TypeOK' /\ pc'[b] = (IF b \in applying THEN "lock" ELSE "read") /\ pc[b] = "file"
    BY <1>1, <1>11 DEF Accept, At, TypeOK
  <2> QED BY <1>1, <1>11, <2>1 DEF Own, Accept
<1>12. CASE Lock(b)
  <2>1. TypeOK' /\ pc'[b] = "read" /\ pc[b] = "lock" /\ holder'[StripeOf[pos[b]]] = b
        /\ \A s \in Stripe : s # StripeOf[pos[b]] => holder'[s] = holder[s]
    BY <1>1, <1>2, <1>12 DEF Lock, At, TypeOK
  <2> QED BY <1>1, <1>2, <1>12, <2>1 DEF Own, Lock
<1>13. CASE Read(b)
  <2>1. CASE src' = [src EXCEPT ![b] = content[pos[b]]]
    <3>1. TypeOK'
      BY <1>1, <1>2, <1>3, <1>13 DEF Read, At, TypeOK
    <3> QED BY <1>1, <1>3, <1>13, <3>1 DEF Read, At, TypeOK, Own
  <2> QED BY <1>1, <1>3, <1>13, <2>1 DEF Read, TypeOK
<1>14. CASE Edit(b)
  <2>1. ASSUME NEW n \in 1..MaxEdits, edits' = [edits EXCEPT ![b] = n],
               At(b, IF b \in applying THEN "reparse" ELSE "count"), pc[b] = "edit",
               UNCHANGED <<content, holder, poisoned, pos, src, files, rejected, total,
                           truncated, answer>>
        PROVE  TypeOK' /\ Own(b)'
    <3>1. n \in 0..MaxEdits
      BY BoundsAssumption
    <3>2. TypeOK' /\ pc'[b] = IF b \in applying THEN "reparse" ELSE "count"
      BY <1>1, <2>1, <3>1 DEF TypeOK, At
    <3> QED BY <1>1, <2>1, <3>2 DEF Own
  <2> QED BY <1>1, <1>3, <1>14, <2>1 DEF Edit, TypeOK
<1>15. CASE Reparse(b)
  BY <1>1, <1>3, <1>4, <1>5, <1>15 DEF Reparse, Own, TypeOK
<1>16. CASE Persist(b)
  <2>1. Append(src[b], b) \in Seq(Batch)
    BY <1>1, AppendProperties DEF TypeOK
  <2>2. TypeOK' /\ pc'[b] = "count" /\ pc[b] = "persist"
    BY <1>1, <1>16, <2>1 DEF Persist, At, TypeOK
  <2> QED BY <1>1, <1>16, <2>2 DEF Own, Persist
<1>17. CASE PersistFails(b)
  BY <1>1, <1>17, BatchAssumption DEF PersistFails, DropGuard, At, TypeOK, Own
<1>18. CASE Panic(b)
  BY <1>1, <1>18, BatchAssumption DEF Panic, DropGuard, At, TypeOK, Own
<1>19. CASE Count(b)
  <2>1. Counted(b) \in Nat
    BY <1>1, BoundsAssumption DEF Counted, TypeOK
  <2>2. pc[b] = "count" /\ pos[b] \in File
    BY <1>2, <1>19 DEF Count
  <2>3. pc' = [pc EXCEPT ![b] = IF Counted(b) >= MaxResults[b] THEN "probe" ELSE "pull"]
    BY <1>19 DEF Count, At
  <2>4. TypeOK'
    BY <1>1, <1>19, <2>1, <2>2, <2>3, BatchAssumption DEF Count, DropGuard, TypeOK
  <2>5. pc'[b] \in {"probe", "pull"} /\ \A s \in Stripe : holder'[s] # b
    BY <1>1, <1>19, <2>3, BatchAssumption DEF Count, DropGuard, TypeOK
  <2> QED BY <1>1, <1>19, <2>2, <2>4, <2>5 DEF Own, Count
<1> QED BY <1>6, <1>7, <1>8, <1>9, <1>10, <1>11, <1>12, <1>13, <1>14, <1>15, <1>16, <1>17,
           <1>18, <1>19 DEF BatchStep

(* A step writes no file but the one whose stripe it holds.                  *)
LEMMA ContentStep ==
  ASSUME LockInv, NEW b \in Batch, BatchStep(b)
  PROVE  \/ content' = content /\ (pc[b] = "persist" => pc'[b] # "count")
         \/ /\ pc[b] = "persist" /\ pc'[b] = "count" /\ pos' = pos
            /\ content' = [content EXCEPT ![pos[b]] = Append(src[b], b)]
<1>1. TypeOK
  BY DEF LockInv
<1>2. CASE Persist(b)
  BY <1>1, <1>2 DEF Persist, At, TypeOK
<1>3. CASE ~Persist(b)
  BY <1>1, <1>3 DEF BatchStep, Pull, Probe, Answer, PassOver, RejectOversize, Accept, Lock, Read, Edit,
              Reparse, PersistFails, Panic, Count, Continue, At, TypeOK
<1> QED BY <1>2, <1>3

LEMMA SnapshotStep ==
  ASSUME LockInv, NEW b \in Batch, BatchStep(b)
  PROVE  SnapshotIsCurrent'
<1>1. TypeOK /\ Turns /\ StripesHeld /\ SnapshotIsCurrent /\ applying' = applying
  BY DEF LockInv, BatchStep
<1> SUFFICES ASSUME NEW c \in applying, pc'[c] \in {"edit", "reparse", "persist"}
             PROVE  src'[c] = content'[pos'[c]]
  BY <1>1 DEF SnapshotIsCurrent
<1>2. c \in Batch
  BY <1>1 DEF TypeOK
<1>3. CASE c # b
  <2>1. pc'[c] = pc[c] /\ pos'[c] = pos[c] /\ src'[c] = src[c]
    BY <1>1, <1>2, <1>3, OthersStay
  <2>2. src[c] = content[pos[c]] /\ pos[c] \in File /\ holder[StripeOf[pos[c]]] = c
    BY <1>1, <1>2, <2>1 DEF SnapshotIsCurrent, Turns, StripesHeld, Turn, Locked
  <2>3. ASSUME pc[b] = "persist", content' = [content EXCEPT ![pos[b]] = Append(src[b], b)]
        PROVE  content'[pos[c]] = content[pos[c]]
    <3>1. holder[StripeOf[pos[b]]] = b
      BY <1>1, <2>3 DEF Turns, StripesHeld, Locked
    <3>2. pos[b] # pos[c]
      BY <1>3, <2>2, <3>1
    <3> QED BY <1>1, <2>2, <2>3, <3>2 DEF TypeOK
  <2> QED BY <2>1, <2>2, <2>3, ContentStep
<1>4. CASE c = b
  <2>1. CASE Read(b)
    BY <1>1, <1>2, <1>4, <2>1 DEF Read, Continue, At, TypeOK
  <2>2. CASE Edit(b)
    BY <1>1, <1>2, <1>4, <2>2 DEF Edit, Continue, At, TypeOK, SnapshotIsCurrent
  <2>3. CASE Reparse(b)
    BY <1>1, <1>2, <1>4, <2>3 DEF Reparse, Continue, At, TypeOK, SnapshotIsCurrent
  <2>4. CASE ~(Read(b) \/ Edit(b) \/ Reparse(b))
    BY <1>1, <1>2, <1>4, <2>4
    DEF BatchStep, Pull, Probe, Answer, PassOver, RejectOversize, Accept, Lock, Persist,
        PersistFails, Panic, Count, Continue, At, TypeOK
  <2> QED BY <2>1, <2>2, <2>3, <2>4
<1> QED BY <1>3, <1>4

LEMMA LockStep ==
  ASSUME LockInv, NEW b \in Batch, BatchStep(b)
  PROVE  LockInv'
<1>1. TypeOK' /\ Own(b)' /\ SnapshotIsCurrent'
  BY OwnStep, SnapshotStep
<1>2. ASSUME NEW c \in Batch PROVE Own(c)'
  <2>1. CASE c = b
    BY <1>1, <2>1
  <2>2. CASE c # b
    <3>1. Own(c) /\ TypeOK
      BY TurnsAreOwn DEF LockInv
    <3>2. /\ applying' = applying /\ pc'[c] = pc[c] /\ pos'[c] = pos[c] /\ answer'[c] = answer[c]
          /\ \A s \in Stripe : holder'[s] = c <=> holder[s] = c
      BY <2>2, <3>1, OthersStay
    <3> QED BY <3>1, <3>2, StripeAssumption DEF Own, Turn, Locked
  <2> QED BY <2>1, <2>2
<1>3. (Turns /\ StripesHeld /\ OneLockAtATime)'
  BY <1>2 DEF Turns, StripesHeld, OneLockAtATime, Own
<1> QED BY <1>1, <1>3 DEF LockInv

LEMMA LockStutter ==
  ASSUME LockInv, UNCHANGED vars PROVE LockInv'
BY DEF vars, LockInv, TypeOK, Turns, StripesHeld, OneLockAtATime, SnapshotIsCurrent

(* The pool of requests leaves the batches to their steps.                   *)
LEMMA RequestsStep ==
  ASSUME [RequestsNext]_requestVars
  PROVE  (\E b \in Batch : BatchStep(b)) \/ UNCHANGED vars
BY DEF RequestsNext, RequestStep, requestVars, Admit, Start, GiveBack, HandOver, Finish, Deadline,
       Refuse, PoolStep, Work

LEMMA LockInductive ==
  RequestsSpec => []LockInv
<1>1. RequestsInit => LockInv
  BY InitLocks DEF RequestsInit
<1>2. LockInv /\ [RequestsNext]_requestVars => LockInv'
  BY RequestsStep, LockStep, LockStutter
<1> QED BY <1>1, <1>2, PTL DEF RequestsSpec

(* No batch loses the edit of another: what it is about to write extends     *)
(* what the file holds, and no batch waits for a stripe while it holds one,  *)
(* whatever requests come, fail, time out and are retried.                  *)
THEOREM SnapshotsAreCurrent == RequestsSpec => [](SnapshotIsCurrent /\ OneLockAtATime)
<1>1. LockInv => SnapshotIsCurrent /\ OneLockAtATime
  BY DEF LockInv
<1> QED BY <1>1, LockInductive, PTL
-----------------------------------------------------------------------------
(* What an applying batch has written is what it has listed and the file it  *)
(* is about to list; what it lists or rejects it has passed, and never both. *)
Work1(b) ==
  /\ answer[b] \in {None, "ok"} =>
       Wrote(b) = files[b] \cup (IF pc[b] = "count" THEN {pos[b]} ELSE {})
  /\ \A f \in files[b] \cup rejected[b] : f <= pos[b]
  /\ files[b] \cap rejected[b] = {}
  /\ pc[b] \in Turn => pos[b] \notin files[b] \cup rejected[b]
Works == \A b \in applying : Work1(b)

SerialInv == LockInv /\ Works

LEMMA InitWorks == Init => SerialInv
<1> SUFFICES ASSUME Init PROVE SerialInv
  OBVIOUS
<1>1. \A b \in Batch : Wrote(b) = {}
  BY DEF Init, Wrote, ToSet
<1>2. Works
  BY <1>1 DEF Init, Works, Work1, Turn, Locked
<1> QED BY <1>2, InitLocks DEF SerialInv

LEMMA ToSetAppend ==
  ASSUME NEW S, NEW s \in Seq(S), NEW e \in S
  PROVE  ToSet(Append(s, e)) = ToSet(s) \cup {e}
<1>1. /\ Len(Append(s, e)) = Len(s) + 1 /\ Append(s, e)[Len(s) + 1] = e
      /\ \A i \in 1..Len(s) : Append(s, e)[i] = s[i]
      /\ Append(s, e) \in Seq(S)
  BY AppendProperties
<1>2. DOMAIN s = 1..Len(s) /\ DOMAIN Append(s, e) = 1..Len(s) + 1 /\ Len(s) \in Nat
  BY <1>1, LenProperties
<1> QED BY <1>1, <1>2, SMT DEF ToSet

(* Only a batch that persists writes, and only the file it is at.            *)
LEMMA WroteStep ==
  ASSUME LockInv, NEW b \in Batch, BatchStep(b), NEW c \in Batch
  PROVE  Wrote(c)' = Wrote(c) \cup (IF c = b /\ pc[b] = "persist" /\ pc'[b] = "count"
                                    THEN {pos[b]} ELSE {})
<1>1. CASE content' = content /\ (pc[b] = "persist" => pc'[b] # "count")
  BY <1>1 DEF Wrote
<1>2. CASE /\ pc[b] = "persist" /\ pc'[b] = "count"
           /\ content' = [content EXCEPT ![pos[b]] = Append(src[b], b)]
  <2>1. pos[b] \in File /\ src[b] = content[pos[b]] /\ content \in [File -> Seq(Batch)]
    BY <1>2 DEF LockInv, TypeOK, Turns, SnapshotIsCurrent, Turn, Locked
  <2>2. ToSet(content'[pos[b]]) = ToSet(content[pos[b]]) \cup {b}
    BY <1>2, <2>1, ToSetAppend
  <2>3. \A f \in File \ {pos[b]} : content'[f] = content[f]
    BY <1>2, <2>1
  <2> QED BY <1>2, <2>1, <2>2, <2>3 DEF Wrote
<1> QED BY <1>1, <1>2, ContentStep

LEMMA WorkContinues ==
  ASSUME SerialInv, NEW b \in applying, BatchStep(b), Continue(b), pc[b] \in Turn \ {"count"},
         rejected' = rejected \/ Reject(b)
  PROVE  Work1(b)'
<1>1. b \in Batch /\ TypeOK /\ Work1(b) /\ answer[b] = None
  BY DEF SerialInv, LockInv, TypeOK, Works, Turns, Turn, Locked
<1>2. pc'[b] = "pull" /\ pos' = pos /\ files' = files /\ answer' = answer
  BY <1>1 DEF Continue, At, TypeOK
<1>3. Wrote(b)' = Wrote(b)
  BY <1>1, <1>2, WroteStep DEF SerialInv
<1>4. rejected'[b] \subseteq rejected[b] \cup {pos[b]} /\ pos[b] \in Nat
  BY <1>1 DEF Reject, TypeOK
<1> QED BY <1>1, <1>2, <1>3, <1>4 DEF Work1, Turn, Locked

LEMMA OwnWork ==
  ASSUME SerialInv, NEW b \in applying, BatchStep(b)
  PROVE  Work1(b)'
<1>1. b \in Batch /\ TypeOK /\ Work1(b) /\ (pc[b] # "done" => answer[b] = None)
      /\ pos[b] \in Nat
  BY DEF SerialInv, LockInv, TypeOK, Works, Turns
<1>2. Wrote(b)' = Wrote(b) \cup (IF pc[b] = "persist" /\ pc'[b] = "count" THEN {pos[b]} ELSE {})
  BY <1>1, WroteStep DEF SerialInv
<1>3. ASSUME Continue(b), pc[b] \in Turn \ {"count"}, rejected' = rejected \/ Reject(b)
      PROVE  Work1(b)'
  BY <1>3, WorkContinues
<1>4. ASSUME NEW step \in Steps, At(b, step), UNCHANGED <<pos, files, rejected>>,
             answer'[b] = answer[b], pc[b] \notin {"persist", "count"}, step # "count",
             pc[b] # "done", step \in Turn => pc[b] \in Turn
      PROVE  Work1(b)'
  <2>1. pc'[b] = step
    BY <1>1, <1>4 DEF At, TypeOK
  <2> QED BY <1>1, <1>2, <1>4, <2>1 DEF Work1
<1> USE DEF Turn, Locked, Steps
<1>6. CASE Pull(b)
  <2>1. CASE Exhausted(b) \/ AtCap(b)
    BY <1>4, <1>6, <2>1 DEF Pull
  <2>2. CASE ~(Exhausted(b) \/ AtCap(b))
    <3>1. pc'[b] = "file" /\ pos'[b] = pos[b] + 1 /\ UNCHANGED <<files, rejected, answer>>
          /\ pc[b] = "pull"
      BY <1>1, <1>6, <2>2 DEF Pull, At, TypeOK
    <3>2. files[b] \cup rejected[b] \subseteq Nat
      BY <1>1 DEF TypeOK, File
    <3> QED BY <1>1, <1>2, <3>1, <3>2 DEF Work1
  <2> QED BY <2>1, <2>2
<1>7. CASE Probe(b)
  BY <1>4, <1>7 DEF Probe
<1>8. CASE Answer(b)
  <2>1. pc[b] = "answer" /\ pc'[b] = "done" /\ UNCHANGED <<pos, files, rejected>>
    BY <1>1, <1>8 DEF Answer, At, TypeOK
  <2> QED BY <1>1, <1>2, <2>1 DEF Work1
<1>9. CASE PassOver(b)
  BY <1>3, <1>9 DEF PassOver
<1>10. CASE RejectOversize(b)
  BY <1>3, <1>10 DEF RejectOversize
<1>11. CASE Accept(b)
  BY <1>4, <1>11 DEF Accept
<1>12. CASE Lock(b)
  BY <1>4, <1>12 DEF Lock
<1>13. CASE Read(b)
  BY <1>3, <1>4, <1>13 DEF Read
<1>14. CASE Edit(b)
  BY <1>3, <1>4, <1>14 DEF Edit
<1>15. CASE Reparse(b)
  BY <1>3, <1>4, <1>15 DEF Reparse
<1>16. CASE Persist(b)
  <2>1. pc[b] = "persist" /\ pc'[b] = "count" /\ UNCHANGED <<pos, files, rejected, answer>>
    BY <1>1, <1>16 DEF Persist, At, TypeOK
  <2> QED BY <1>1, <1>2, <2>1 DEF Work1
<1>17. CASE PersistFails(b)
  <2>1. pc[b] = "persist" /\ pc'[b] = "done" /\ UNCHANGED <<pos, files, rejected>>
        /\ answer'[b] = "bad_request"
    BY <1>1, <1>17 DEF PersistFails, At, TypeOK
  <2> QED BY <1>1, <1>2, <2>1, BatchAssumption DEF Work1
<1>18. CASE Panic(b)
  <2>1. pc'[b] = "done" /\ UNCHANGED <<pos, files, rejected>> /\ answer'[b] = "internal_error"
    BY <1>1, <1>18 DEF Panic, At, TypeOK
  <2> QED BY <1>1, <1>2, <2>1, BatchAssumption DEF Work1
<1>19. CASE Count(b)
  <2>1. pc[b] = "count" /\ pc'[b] \in {"probe", "pull"} /\ UNCHANGED <<pos, rejected, answer>>
        /\ files'[b] = files[b] \cup {pos[b]}
    BY <1>1, <1>19 DEF Count, At, TypeOK
  <2> QED BY <1>1, <1>2, <2>1 DEF Work1
<1> QED BY <1>6, <1>7, <1>8, <1>9, <1>10, <1>11, <1>12, <1>13, <1>14, <1>15, <1>16, <1>17,
           <1>18, <1>19 DEF BatchStep

LEMMA WorkStep ==
  ASSUME SerialInv, NEW b \in Batch, BatchStep(b)
  PROVE  SerialInv'
<1>1. LockInv' /\ applying' = applying /\ applying \subseteq Batch
  BY LockStep DEF SerialInv, LockInv, TypeOK, BatchStep
<1>2. ASSUME NEW c \in applying PROVE Work1(c)'
  <2>1. CASE c = b
    BY <2>1, OwnWork
  <2>2. CASE c # b
    <3>1. /\ pc'[c] = pc[c] /\ pos'[c] = pos[c] /\ files'[c] = files[c]
          /\ rejected'[c] = rejected[c] /\ answer'[c] = answer[c]
      BY <1>1, <2>2, OthersStay DEF SerialInv, LockInv
    <3>2. Wrote(c)' = Wrote(c)
      BY <1>1, <2>2, WroteStep DEF SerialInv
    <3>3. Work1(c)
      BY DEF SerialInv, Works
    <3> QED BY <3>1, <3>2, <3>3 DEF Work1
  <2> QED BY <2>1, <2>2
<1> QED BY <1>1, <1>2 DEF SerialInv, Works

LEMMA WorkInductive == RequestsSpec => []SerialInv
<1>1. RequestsInit => SerialInv
  BY InitWorks DEF RequestsInit
<1>2. SerialInv /\ UNCHANGED vars => SerialInv'
  <2> SUFFICES ASSUME SerialInv, UNCHANGED vars PROVE SerialInv'
    OBVIOUS
  <2>1. LockInv'
    BY LockStutter DEF SerialInv
  <2>2. Works'
    BY DEF SerialInv, Works, Work1, Wrote, vars
  <2> QED BY <2>1, <2>2 DEF SerialInv
<1>3. SerialInv /\ [RequestsNext]_requestVars => SerialInv'
  BY <1>2, RequestsStep, WorkStep
<1> QED BY <1>1, <1>3, PTL DEF RequestsSpec

(* What SerialRewrites sees of the answers.                                  *)
Listed(b) == IF b \in applying /\ answer[b] = "ok"
             THEN [files |-> files[b], rejected |-> rejected[b]]
             ELSE None
SeenReply == [b \in Batch |-> Listed(b)]

LEMMA LandedIsWrote == \A b : Serial!LandedIn(b) = Wrote(b)
BY DEF Serial!LandedIn, Wrote, Serial!ToSet, ToSet

(* Every step of a batch is one of SerialRewrites, or changes nothing there. *)
LEMMA SerialStep ==
  ASSUME SerialInv, NEW b \in Batch, BatchStep(b)
  PROVE  Serial!Next \/ (content' = content /\ SeenReply' = SeenReply)
<1>1. /\ TypeOK /\ applying' = applying /\ (pc[b] # "done" => answer[b] = None)
      /\ \A c \in Batch \ {b} :
           files'[c] = files[c] /\ rejected'[c] = rejected[c] /\ answer'[c] = answer[c]
  BY OthersStay DEF SerialInv, LockInv, Turns
<1>2. pc[b] # "done"
  BY DEF BatchStep, Pull, Probe, Answer, PassOver, RejectOversize, Accept, Lock, Read, Edit,
         Reparse, Persist, PersistFails, Panic, Count
<1>3. \A c \in Batch \ {b} : Listed(c)' = Listed(c)
  BY <1>1 DEF Listed
<1>4. answer[b] = None /\ Listed(b) = None
  BY <1>1, <1>2, BatchAssumption DEF Listed
<1>5. ASSUME answer'[b] # "ok" PROVE SeenReply' = SeenReply
  BY <1>1, <1>3, <1>4, <1>5 DEF SeenReply, Listed
<1>6. CASE Answer(b)
  <2>1. /\ pc[b] = "answer" /\ answer'[b] = "ok"
        /\ UNCHANGED <<content, files, rejected>>
    BY <1>1, <1>6 DEF Answer, TypeOK
  <2>2. CASE b \notin applying
    BY <1>1, <1>3, <2>1, <2>2 DEF SeenReply, Listed
  <2>3. CASE b \in applying
    <3>1. /\ Wrote(b) = files[b] /\ files[b] \cap rejected[b] = {}
      BY <1>4, <2>1, <2>3 DEF SerialInv, Works, Work1
    <3>2. rejected[b] \in SUBSET (File \ Serial!LandedIn(b))
      BY <1>1, <3>1, LandedIsWrote DEF TypeOK
    <3>3. Listed(b)' = [files |-> Serial!LandedIn(b), rejected |-> rejected[b]]
      BY <1>1, <2>1, <2>3, <3>1, LandedIsWrote DEF Listed
    <3>4. SeenReply[b] = None
      BY <1>4 DEF SeenReply
    <3>5. SeenReply' = [SeenReply EXCEPT ![b] = [files |-> Serial!LandedIn(b),
                                                 rejected |-> rejected[b]]]
      BY <1>3, <3>3 DEF SeenReply
    <3>6. Serial!Reply(b)
      BY <2>1, <3>2, <3>4, <3>5 DEF Serial!Reply, SeenReply, Listed
    <3> QED BY <3>6 DEF Serial!Next
  <2> QED BY <2>2, <2>3
<1>7. CASE Persist(b)
  <2>1. /\ pc[b] = "persist" /\ answer' = answer
        /\ content' = [content EXCEPT ![pos[b]] = Append(src[b], b)]
    BY <1>7 DEF Persist
  <2>2. b \in applying /\ pos[b] \in File /\ src[b] = content[pos[b]]
    BY <2>1 DEF SerialInv, LockInv, Turns, SnapshotIsCurrent, Turn, Locked
  <2>3. pos[b] \notin Wrote(b)
    BY <1>4, <2>1, <2>2 DEF SerialInv, Works, Work1, Turn, Locked
  <2>4. SeenReply' = SeenReply /\ SeenReply[b] = None
    BY <1>4, <1>5, <2>1, BatchAssumption DEF SeenReply
  <2>5. content' = [content EXCEPT ![pos[b]] = Append(@, b)]
    BY <2>1, <2>2
  <2>6. Serial!Land(b, pos[b])
    BY <2>2, <2>3, <2>4, <2>5, LandedIsWrote DEF Serial!Land, SeenReply, Listed
  <2> QED BY <2>2, <2>6 DEF Serial!Next
<1>8. CASE ~Answer(b) /\ ~Persist(b)
  <2>1. content' = content /\ answer'[b] # "ok"
    BY <1>1, <1>4, <1>8, BatchAssumption
    DEF BatchStep, Pull, Probe, PassOver, RejectOversize, Accept, Lock, Read, Edit,
        Reparse, PersistFails, Panic, Count, Continue, TypeOK
  <2> QED BY <1>5, <2>1
<1> QED BY <1>6, <1>7, <1>8

(* Concurrent requests, their batches failing, timing out and retried as     *)
(* they may, rewrite files as if one batch after the other, and a batch that *)
(* answers lists what it did.                                               *)
THEOREM BatchesAreSerial == RequestsSpec => SerialSpec
<1>1. RequestsInit => Serial!Init
  BY BatchAssumption DEF RequestsInit, Init, Serial!Init
<1>2. SerialInv /\ [RequestsNext]_requestVars
        => [Serial!Next]_<<content, [b \in Batch |-> Listed(b)]>>
  <2> SUFFICES ASSUME SerialInv, [RequestsNext]_requestVars
               PROVE  Serial!Next \/ (content' = content /\ SeenReply' = SeenReply)
    BY DEF SeenReply
  <2>1. CASE \E b \in Batch : BatchStep(b)
    BY <2>1, SerialStep
  <2>2. CASE UNCHANGED vars
    BY <2>2 DEF vars, SeenReply, Listed
  <2> QED BY <2>1, <2>2, RequestsStep
<1> QED BY <1>1, <1>2, WorkInductive, PTL DEF RequestsSpec, SerialSpec, Serial!Spec, Listed
-----------------------------------------------------------------------------
(* The requests. A 503 means that the batch never started and never will, a  *)
(* final answer that it is over, and a retry is not under way before its     *)
(* first request has failed.                                                *)
Codes == {"none", "200", "400", "500", "503", "504"}
Final == {"200", "400", "500"}

RequestTypes ==
  /\ retryOf \in [Batch -> Batch \cup {None}]
  /\ active \subseteq Batch /\ ran \subseteq Batch
  /\ reply \in [Batch -> Codes]
Started ==
  \A b \in Batch :
    /\ b \notin ran => answer[b] = None /\ Wrote(b) = {}
    /\ reply[b] = "503" => b \notin active \cup ran
    /\ reply[b] \in Final => answer[b] # None
Retried ==
  \A b \in active \cup ran : retryOf[b] # None => reply[retryOf[b]] \in {"503", "504"}

RequestInv == SerialInv /\ RequestTypes /\ Started /\ Retried

LEMMA InitRequests == RequestsInit => RequestInv
<1> SUFFICES ASSUME RequestsInit PROVE RequestInv
  OBVIOUS
<1>1. \A b \in Batch : Wrote(b) = {} /\ answer[b] = None
  BY DEF RequestsInit, Init, Wrote, ToSet
<1>2. RequestTypes /\ Started /\ Retried
  BY <1>1 DEF RequestsInit, Pool!PoolInit, RequestTypes, Started, Retried, Codes, Final
<1> QED BY <1>2, InitWorks DEF RequestsInit, RequestInv

(* A step of a batch that is under way.                                     *)
LEMMA WorkOK ==
  ASSUME RequestInv, NEW b \in Batch, Work(b)
  PROVE  /\ RequestInv'
         /\ \A c \in Batch : reply[c] \notin {"none", "504"} => Wrote(c)' = Wrote(c)
<1>1. b \in ran /\ BatchStep(b) /\ UNCHANGED <<retryOf, active, ran, reply>>
  BY DEF Work
<1>2. SerialInv /\ LockInv /\ TypeOK /\ RequestTypes /\ Started /\ Retried /\ SerialInv'
  BY <1>1, WorkStep DEF RequestInv, SerialInv, LockInv
<1>3. answer[b] = None
  <2>1. pc[b] # "done"
    BY <1>1 DEF BatchStep, Pull, Probe, Answer, PassOver, RejectOversize, Accept, Lock, Read,
                Edit, Reparse, Persist, PersistFails, Panic, Count
  <2> QED BY <1>2, <2>1 DEF LockInv, Turns
<1>4. \A c \in Batch \ {b} : answer'[c] = answer[c] /\ Wrote(c)' = Wrote(c)
  BY <1>1, <1>2, OthersStay, WroteStep
<1>5. reply[b] \in {"none", "504"}
  BY <1>1, <1>2, <1>3 DEF Started, RequestTypes, Codes, Final
<1>6. (RequestTypes /\ Retried)'
  BY <1>1, <1>2 DEF RequestTypes, Retried
<1>7. Started'
  BY <1>1, <1>2, <1>4, <1>5 DEF Started, Final
<1> QED BY <1>2, <1>4, <1>5, <1>6, <1>7 DEF RequestInv

(* A step of the pool, of which the batches notice nothing.                  *)
LEMMA PoolOK ==
  ASSUME RequestInv, NEW b \in Batch, RequestStep(b), UNCHANGED vars
  PROVE  RequestInv'
<1>1. SerialInv' /\ RequestTypes /\ Started /\ Retried /\ TypeOK
  <2>1. LockInv' /\ Works'
    BY LockStutter DEF RequestInv, SerialInv, LockInv, Works, Work1, Wrote, vars
  <2> QED BY <2>1 DEF RequestInv, SerialInv, LockInv
<1>2. \A c \in Batch : answer'[c] = answer[c] /\ Wrote(c)' = Wrote(c)
  BY DEF vars, Wrote
<1> USE DEF PoolStep, RequestTypes, Started, Retried, Codes, Final, RequestInv
<1>3. CASE Admit(b)
  BY <1>1, <1>2, <1>3 DEF Admit, Sent, Pool!Admit
<1>4. CASE Start(b)
  BY <1>1, <1>2, <1>4 DEF Start, Pool!StartWalk
<1>5. CASE GiveBack(b)
  BY <1>1, <1>2, <1>5 DEF GiveBack, Pool!GiveBack
<1>6. ASSUME NEW c \in Batch, HandOver(b, c) PROVE RequestInv'
  BY <1>1, <1>2, <1>6 DEF HandOver, Sent, Pool!HandOver
<1>7. CASE Finish(b)
  <2>1. Code(answer[b]) \in Final /\ answer[b] # None
    BY <1>1, <1>7 DEF Finish, Code, TypeOK
  <2>2. /\ reply[b] = "none" /\ reply' = [reply EXCEPT ![b] = Code(answer[b])]
        /\ UNCHANGED <<active, ran, retryOf>>
    BY <1>7 DEF Finish, Pool!Respond
  <2> QED BY <1>1, <1>2, <2>1, <2>2
<1>8. CASE Deadline(b)
  BY <1>1, <1>2, <1>8 DEF Deadline, Pool!Respond
<1>9. CASE Refuse(b)
  BY <1>1, <1>2, <1>9 DEF Refuse, Pool!Respond
<1>10. CASE Work(b)
  BY <1>10, WorkOK
<1> QED BY <1>3, <1>4, <1>5, <1>6, <1>7, <1>8, <1>9, <1>10 DEF RequestStep

LEMMA RequestInvStep ==
  ASSUME RequestInv, [RequestsNext]_requestVars
  PROVE  /\ RequestInv'
         /\ \A c \in Batch : reply[c] \notin {"none", "504"} => Wrote(c)' = Wrote(c)
<1>1. ASSUME NEW b \in Batch, Work(b)
      PROVE  /\ RequestInv'
             /\ \A c \in Batch : reply[c] \notin {"none", "504"} => Wrote(c)' = Wrote(c)
  BY <1>1, WorkOK
<1>2. ASSUME NEW b \in Batch, RequestStep(b), ~Work(b) PROVE UNCHANGED vars
  BY <1>2 DEF RequestStep, Admit, Start, GiveBack, HandOver, Finish, Deadline, Refuse, PoolStep
<1>3. ASSUME UNCHANGED vars
      PROVE  \A c \in Batch : Wrote(c)' = Wrote(c)
  BY <1>3 DEF vars, Wrote
<1>4. CASE UNCHANGED requestVars
  <2>1. SerialInv'
    BY <1>4, LockStutter DEF RequestInv, SerialInv, Works, Work1, Wrote, vars, requestVars
  <2>2. (RequestTypes /\ Started /\ Retried)'
    BY <1>4 DEF RequestInv, RequestTypes, Started, Retried, Wrote, vars, requestVars
  <2> QED BY <1>3, <1>4, <2>1, <2>2 DEF RequestInv, requestVars
<1> QED BY <1>1, <1>2, <1>3, <1>4, PoolOK DEF RequestsNext

LEMMA RequestInductive == RequestsSpec => []RequestInv
<1>1. RequestInv /\ [RequestsNext]_requestVars => RequestInv'
  BY RequestInvStep
<1> QED BY <1>1, InitRequests, PTL DEF RequestsSpec

(* Of a request and its retry both write a file only when the first was      *)
(* answered with a 504; after a 503 nothing was and will be written.         *)
THEOREM RetriesAreSafe == RequestsSpec => []OnlyDeadlinesDouble
<1>1. RequestInv => OnlyDeadlinesDouble
  <2> SUFFICES ASSUME RequestInv, NEW b \in Batch
               PROVE  /\ reply[b] = "503" => Wrote(b) = {}
                      /\ retryOf[b] # None /\ Wrote(b) \cap Wrote(retryOf[b]) # {}
                           => reply[retryOf[b]] = "504"
    BY DEF OnlyDeadlinesDouble
  <2> USE DEF RequestInv, RequestTypes, Started
  <2>1. \A c \in Batch : reply[c] = "503" => Wrote(c) = {}
    OBVIOUS
  <2>2. ASSUME retryOf[b] # None, Wrote(b) \cap Wrote(retryOf[b]) # {}
        PROVE  reply[retryOf[b]] = "504"
    <3>1. b \in ran /\ retryOf[b] \in Batch
      BY <2>2
    <3>2. reply[retryOf[b]] \in {"503", "504"}
      BY <2>2, <3>1 DEF Retried
    <3> QED BY <2>1, <2>2, <3>1, <3>2
  <2> QED BY <2>1, <2>2
<1> QED BY <1>1, RequestInductive, PTL

(* After any answer but a 504, a request changes no file any more.           *)
THEOREM AnswersAreFinal == RequestsSpec => AnswerIsFinal
<1>1. RequestInv /\ [RequestsNext]_requestVars
        => [\A b \in Batch : reply[b] \notin {"none", "504"} => Wrote(b)' = Wrote(b)]_requestVars
  BY RequestInvStep
<1> QED BY <1>1, RequestInductive, PTL DEF RequestsSpec, AnswerIsFinal
-----------------------------------------------------------------------------
(* The walk yields no more than max_files, and what it found out about the   *)
(* cap stays true until the answer.                                         *)
CapInv ==
  \A b \in Batch :
    /\ pos[b] <= MaxFiles[b]
    /\ pc[b] = "answer" \/ answer[b] = "ok" => (truncated[b] <=> AtCap(b))

(* A step that leaves the walk alone.                                       *)
LEMMA WalkStays ==
  ASSUME LockInv, NEW b \in Batch, BatchStep(b), ~Pull(b), ~Probe(b)
  PROVE  /\ pos' = pos /\ truncated' = truncated
         /\ pc'[b] # "answer"
         /\ answer'[b] = "ok" => pc[b] = "answer"
<1>1. TypeOK /\ (pc[b] # "done" => answer[b] = None)
  BY DEF LockInv, Turns
<1>2. CASE Count(b)
  BY <1>1, <1>2, BatchAssumption DEF Count, At, TypeOK, Steps
<1>3. CASE Answer(b)
  BY <1>1, <1>3 DEF Answer, At, TypeOK
<1>4. CASE ~Count(b) /\ ~Answer(b)
  BY <1>1, <1>4, BatchAssumption
  DEF BatchStep, PassOver, RejectOversize, Accept, Lock, Read, Edit, Reparse, Persist,
      PersistFails, Panic, Continue, At, TypeOK
<1> QED BY <1>2, <1>3, <1>4

LEMMA CapStep ==
  ASSUME LockInv, CapInv, NEW b \in Batch, BatchStep(b)
  PROVE  CapInv'
<1>1. TypeOK /\ Turns
  BY DEF LockInv
<1>2. \A c \in Batch : pos[c] \in Nat /\ MaxFiles[c] \in Nat
  BY <1>1, BoundsAssumption DEF TypeOK
<1>3. CASE Pull(b)
  <2>1. /\ pc[b] = "pull" /\ answer'[b] = None /\ answer' = answer
        /\ \A c \in Batch \ {b} :
             pos'[c] = pos[c] /\ pc'[c] = pc[c] /\ truncated'[c] = truncated[c]
    BY <1>1, <1>3 DEF Pull, At, TypeOK, Turns
  <2>2. CASE Exhausted(b) \/ AtCap(b)
    <3>1. pos' = pos /\ truncated' = [truncated EXCEPT ![b] = AtCap(b)]
      BY <1>3, <2>2 DEF Pull
    <3>2. \A c \in Batch : AtCap(c)' <=> AtCap(c)
      BY <3>1 DEF AtCap, Exhausted
    <3>3. truncated'[b] <=> AtCap(b)
      BY <1>1, <3>1 DEF TypeOK
    <3> QED BY <2>1, <3>1, <3>2, <3>3 DEF CapInv
  <2>3. CASE ~(Exhausted(b) \/ AtCap(b))
    <3>1. pos'[b] = pos[b] + 1 /\ pc'[b] = "file" /\ truncated' = truncated
      BY <1>1, <1>3, <2>3 DEF Pull, At, TypeOK
    <3>2. pos[b] + 1 <= MaxFiles[b]
      BY <1>2, <2>3 DEF AtCap
    <3> QED BY <2>1, <3>1, <3>2, BatchAssumption DEF CapInv, AtCap, Exhausted
  <2> QED BY <2>2, <2>3
<1>4. CASE Probe(b)
  <2>1. /\ UNCHANGED <<pos, answer>> /\ truncated'[b] = AtCap(b) /\ pc[b] = "probe"
        /\ \A c \in Batch \ {b} : pc'[c] = pc[c] /\ truncated'[c] = truncated[c]
    BY <1>1, <1>4 DEF Probe, At, TypeOK
  <2> QED BY <2>1 DEF CapInv, AtCap, Exhausted
<1>5. CASE ~Pull(b) /\ ~Probe(b)
  <2>1. \A c \in Batch \ {b} : pc'[c] = pc[c] /\ answer'[c] = answer[c]
    BY <1>1, OthersStay
  <2> QED BY <1>5, <2>1, WalkStays DEF CapInv, AtCap, Exhausted
<1> QED BY <1>3, <1>4, <1>5

(* files_truncated is set just when max_files left files out, also when      *)
(* max_results ended the walk exactly there.                                *)
THEOREM CapsAreReported == RequestsSpec => []CapIsReported
<1>1. RequestsInit => CapInv
  BY BoundsAssumption, BatchAssumption DEF RequestsInit, Init, CapInv
<1>2. LockInv /\ CapInv /\ [RequestsNext]_requestVars => CapInv'
  <2> SUFFICES ASSUME LockInv, CapInv, [RequestsNext]_requestVars PROVE CapInv'
    OBVIOUS
  <2>1. CASE UNCHANGED vars
    BY <2>1 DEF vars, CapInv, AtCap, Exhausted
  <2> QED BY <2>1, RequestsStep, CapStep
<1>3. LockInv /\ CapInv => CapIsReported
  <2> SUFFICES ASSUME LockInv, CapInv, NEW b \in Batch, answer[b] = "ok"
               PROVE  truncated[b] <=> MaxFiles[b] < NumFiles /\ pos[b] = MaxFiles[b]
    BY DEF CapIsReported
  <2>1. pos[b] \in 0..NumFiles /\ MaxFiles[b] \in Nat /\ NumFiles \in Nat
    BY BoundsAssumption DEF LockInv, TypeOK
  <2> QED BY <2>1 DEF CapInv, AtCap, Exhausted
<1> QED BY <1>1, <1>2, <1>3, LockInductive, PTL DEF RequestsSpec
=============================================================================
