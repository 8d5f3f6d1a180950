------------------------------ MODULE Rewrite ------------------------------
(***************************************************************************)
(* Concurrent batches of crates/core/src/rewrite.rs over one directory.      *)
(*                                                                         *)
(* A batch walks the files in order. For each it takes the file's stripe     *)
(* lock (when it applies), reads, computes the edited text, reparses it,     *)
(* and replaces the file by renaming a temporary one over it; the guard is   *)
(* dropped at the end of the turn, however the turn ends. The content of a   *)
(* file is the sequence of batches whose edits it carries. What the pattern  *)
(* finds, whether the result parses and whether an I/O call fails depend on  *)
(* data that is not modelled: every outcome is possible at every file.       *)
(*                                                                         *)
(* Every path is taken to canonicalize, so that one file has one stripe.     *)
(***************************************************************************)
EXTENDS Naturals, Sequences, SequencesExt

CONSTANTS
  Batch,       \* the calls of rewrite
  NumFiles,    \* the files that the walk can yield before it ends, be it by an
               \* error (walk.rs:70), are 1..NumFiles, in this order
  Stripe,      \* the write locks
  StripeOf,    \* the stripe a file's canonical path hashes to
  MaxEdits,    \* bound: the edits one pattern finds in one file
  MaxResults,  \* MaxResults[b]: max_results of b
  MaxFiles,    \* MaxFiles[b]: max_files of b
  None

File == 1..NumFiles

ASSUME BatchAssumption == None \notin Batch \cup {"ok", "bad_request", "internal_error"}
ASSUME BoundsAssumption ==
  /\ NumFiles \in Nat
  /\ MaxResults \in [Batch -> Nat] /\ MaxFiles \in [Batch -> Nat]
  /\ MaxEdits \in Nat \ {0}
ASSUME StripeAssumption == StripeOf \in [File -> Stripe]

VARIABLES
  applying,    \* the batches with apply=true
  content,     \* content[f]: the batches whose edits f carries
  holder,      \* holder[s]: the batch that holds stripe s, or None
  poisoned,    \* poisoned[s]: a panic dropped the guard of s
  pc,          \* pc[b]: what b does next
  pos,         \* pos[b]: the files the walk of b has yielded; b is at file pos[b]
  src,         \* src[b]: the text b read
  edits,       \* edits[b]: the edits b accepted in it
  files,       \* files[b]: the files in its response
  rejected,    \* rejected[b]
  total,       \* total_matches
  truncated,   \* walk.truncated
  answer       \* answer[b]: the status of the response, or None

vars == <<applying, content, holder, poisoned, pc, pos, src, edits, files, rejected, total,
          truncated, answer>>

Steps == {"pull", "file", "lock", "read", "edit", "reparse", "persist", "count",
          "probe", "answer", "done"}

Init ==
  /\ applying \in SUBSET Batch
  /\ content = [f \in File |-> <<>>]
  /\ holder = [s \in Stripe |-> None]
  /\ poisoned = [s \in Stripe |-> FALSE]
  /\ pc = [b \in Batch |-> "pull"]
  /\ pos = [b \in Batch |-> 0]
  /\ src = [b \in Batch |-> <<>>]
  /\ edits = [b \in Batch |-> 0]
  /\ files = [b \in Batch |-> {}]
  /\ rejected = [b \in Batch |-> {}]
  /\ total = [b \in Batch |-> 0]
  /\ truncated = [b \in Batch |-> FALSE]
  /\ answer = [b \in Batch |-> None]

At(b, step) == pc' = [pc EXCEPT ![b] = step]

(* The guard of the turn goes out of scope, if there is one.                *)
DropGuard(b) == holder' = [s \in Stripe |-> IF holder[s] = b THEN None ELSE holder[s]]

(* continue: b leaves the file as it is.                                    *)
Continue(b) ==
  /\ At(b, "pull")
  /\ DropGuard(b)
  /\ UNCHANGED <<content, poisoned, pos, src, edits, files, total, truncated, answer>>

-----------------------------------------------------------------------------
(* The walk.                                                                *)

Exhausted(b) == pos[b] = NumFiles
AtCap(b) == ~Exhausted(b) /\ pos[b] >= MaxFiles[b]

(* FilteredWalk::next                                                       *)
Pull(b) ==
  /\ pc[b] = "pull"
  /\ IF Exhausted(b) \/ AtCap(b)
     THEN /\ At(b, "answer")
          /\ truncated' = [truncated EXCEPT ![b] = AtCap(b)]
          /\ UNCHANGED pos
     ELSE /\ At(b, "file")
          /\ pos' = [pos EXCEPT ![b] = @ + 1]
          /\ UNCHANGED truncated
  /\ UNCHANGED <<content, holder, poisoned, src, edits, files, rejected, total, answer>>

(* Mutant: no probe after an early break.                                   *)
ProbeNothing(b) ==
  /\ pc[b] = "probe"
  /\ At(b, "answer")
  /\ UNCHANGED <<content, holder, poisoned, pos, src, edits, files, rejected, total,
                 truncated, answer>>

(* After an early break one more pull tells whether the cap was met; the     *)
(* file it may yield is dropped.                                            *)
Probe(b) ==
  /\ pc[b] = "probe"
  /\ At(b, "answer")
  /\ truncated' = [truncated EXCEPT ![b] = AtCap(b)]
  /\ UNCHANGED <<content, holder, poisoned, pos, src, edits, files, rejected, total, answer>>

(* The response is built and sent.                                          *)
Answer(b) ==
  /\ pc[b] = "answer"
  /\ At(b, "done")
  /\ answer' = [answer EXCEPT ![b] = "ok"]
  /\ UNCHANGED <<content, holder, poisoned, pos, src, edits, files, rejected, total, truncated>>

-----------------------------------------------------------------------------
(* One file.                                                                *)

(* The file is not in the language asked for.                               *)
PassOver(b) ==
  /\ pc[b] = "file"
  /\ Continue(b)
  /\ UNCHANGED rejected

Reject(b) == rejected' = [rejected EXCEPT ![b] = @ \cup {pos[b]}]

(* The file is larger than the byte cap.                                    *)
RejectOversize(b) ==
  /\ pc[b] = "file"
  /\ Continue(b)
  /\ Reject(b)

(* The file is one to work on; only a batch that applies takes the lock.     *)
Accept(b) ==
  /\ pc[b] = "file"
  /\ At(b, IF b \in applying THEN "lock" ELSE "read")
  /\ UNCHANGED <<content, holder, poisoned, pos, src, edits, files, rejected, total,
                 truncated, answer>>

(* Mutant: the lock is taken only to wait for the others.                   *)
LockNothing(b) ==
  /\ pc[b] = "lock"
  /\ holder[StripeOf[pos[b]]] = None
  /\ At(b, "read")
  /\ UNCHANGED <<content, holder, poisoned, pos, src, edits, files, rejected, total,
                 truncated, answer>>

(* Mutant: the poison of a stripe is unwrapped, and the batch panics.        *)
LockUnwraps(b) ==
  /\ pc[b] = "lock"
  /\ holder[StripeOf[pos[b]]] = None
  /\ IF poisoned[StripeOf[pos[b]]]
     THEN /\ At(b, "done")
          /\ answer' = [answer EXCEPT ![b] = "internal_error"]
          /\ UNCHANGED holder
     ELSE /\ At(b, "read")
          /\ holder' = [holder EXCEPT ![StripeOf[pos[b]]] = b]
          /\ UNCHANGED answer
  /\ UNCHANGED <<content, poisoned, pos, src, edits, files, rejected, total, truncated>>

(* stripe_for(path).lock(), which takes a poisoned lock all the same.        *)
Lock(b) ==
  /\ pc[b] = "lock"
  /\ holder[StripeOf[pos[b]]] = None
  /\ holder' = [holder EXCEPT ![StripeOf[pos[b]]] = b]
  /\ At(b, "read")
  /\ UNCHANGED <<content, poisoned, pos, src, edits, files, rejected, total, truncated, answer>>

(* read_to_string; a file that cannot be read is passed over.               *)
Read(b) ==
  /\ pc[b] = "read"
  /\ \/ /\ src' = [src EXCEPT ![b] = content[pos[b]]]
        /\ At(b, "edit")
        /\ UNCHANGED <<content, holder, poisoned, pos, edits, files, total, truncated, answer>>
     \/ Continue(b)
  /\ UNCHANGED rejected

(* find_all, resolve_overlaps and apply_edits; without a match the file is   *)
(* left alone, with one at least one edit is accepted.                      *)
Edit(b) ==
  /\ pc[b] = "edit"
  /\ \/ \E n \in 1..MaxEdits :
          /\ edits' = [edits EXCEPT ![b] = n]
          /\ At(b, IF b \in applying THEN "reparse" ELSE "count")
          /\ UNCHANGED <<content, holder, poisoned, pos, src, files, total, truncated, answer>>
     \/ Continue(b)
  /\ UNCHANGED rejected

(* Mutant: the text is written before it is found not to parse.             *)
ReparseWritten(b) ==
  /\ pc[b] = "reparse"
  /\ \/ /\ At(b, "persist")
        /\ UNCHANGED <<content, holder, rejected>>
     \/ /\ At(b, "pull")
        /\ DropGuard(b)
        /\ content' = [content EXCEPT ![pos[b]] = Append(src[b], b)]
        /\ Reject(b)
  /\ UNCHANGED <<poisoned, pos, src, edits, files, total, truncated, answer>>

(* The edited text parses as well as the old one, or the file is rejected.   *)
Reparse(b) ==
  /\ pc[b] = "reparse"
  /\ \/ /\ At(b, "persist")
        /\ UNCHANGED <<content, holder, poisoned, pos, src, edits, files, rejected, total,
                       truncated, answer>>
     \/ Continue(b) /\ Reject(b)

(* The temporary file is written and renamed over the old one.              *)
Persist(b) ==
  /\ pc[b] = "persist"
  /\ content' = [content EXCEPT ![pos[b]] = Append(src[b], b)]
  /\ At(b, "count")
  /\ UNCHANGED <<holder, poisoned, pos, src, edits, files, rejected, total, truncated, answer>>

(* An I/O error of these calls leaves rewrite at once: the server answers    *)
(* 400 Bad Request.                                                         *)
PersistFails(b) ==
  /\ pc[b] = "persist"
  /\ At(b, "done")
  /\ DropGuard(b)
  /\ answer' = [answer EXCEPT ![b] = "bad_request"]
  /\ UNCHANGED <<content, poisoned, pos, src, edits, files, rejected, total, truncated>>

(* A panic while the guard is held (or in a dry run, where there is none):   *)
(* the stripe is poisoned, the server answers 500.                          *)
Panic(b) ==
  /\ pc[b] \in {"edit", "reparse", "count"}
  /\ At(b, "done")
  /\ DropGuard(b)
  /\ poisoned' = [s \in Stripe |-> poisoned[s] \/ holder[s] = b]
  /\ answer' = [answer EXCEPT ![b] = "internal_error"]
  /\ UNCHANGED <<content, pos, src, edits, files, rejected, total, truncated>>

Counted(b) == total[b] + edits[b]

(* Mutant: the guards are kept until the batch is over.                     *)
CountKeepsGuard(b) ==
  /\ pc[b] = "count"
  /\ total' = [total EXCEPT ![b] = Counted(b)]
  /\ files' = [files EXCEPT ![b] = @ \cup {pos[b]}]
  /\ At(b, IF Counted(b) >= MaxResults[b] THEN "probe" ELSE "pull")
  /\ UNCHANGED <<content, holder, poisoned, pos, src, edits, rejected, truncated, answer>>

(* The file enters the response; max_results may end the walk.              *)
Count(b) ==
  /\ pc[b] = "count"
  /\ total' = [total EXCEPT ![b] = Counted(b)]
  /\ files' = [files EXCEPT ![b] = @ \cup {pos[b]}]
  /\ At(b, IF Counted(b) >= MaxResults[b] THEN "probe" ELSE "pull")
  /\ DropGuard(b)
  /\ UNCHANGED <<content, poisoned, pos, src, edits, rejected, truncated, answer>>

BatchStep(b) ==
  /\ UNCHANGED applying
  /\ \/ Pull(b) \/ Probe(b) \/ Answer(b)
     \/ PassOver(b) \/ RejectOversize(b) \/ Accept(b) \/ Lock(b) \/ Read(b) \/ Edit(b)
     \/ Reparse(b) \/ Persist(b) \/ PersistFails(b) \/ Panic(b) \/ Count(b)

(* All batches have answered and stay as they are.                          *)
AllDone == (\A b \in Batch : pc[b] = "done") /\ UNCHANGED vars

Next == AllDone \/ \E b \in Batch : BatchStep(b)

(* Every batch has a blocking-pool thread of its own. A mutex need not be    *)
(* fair, but it is given to somebody when it is free, and each of finitely   *)
(* many batches asks for it finitely often.                                 *)
Fairness == \A b \in Batch : WF_vars(BatchStep(b))

Spec == Init /\ [][Next]_vars /\ Fairness

-----------------------------------------------------------------------------
(* Properties.                                                              *)

TypeOK ==
  /\ applying \subseteq Batch
  /\ content \in [File -> Seq(Batch)]
  /\ holder \in [Stripe -> Batch \cup {None}]
  /\ poisoned \in [Stripe -> BOOLEAN]
  /\ pc \in [Batch -> Steps]
  /\ pos \in [Batch -> 0..NumFiles]
  /\ src \in [Batch -> Seq(Batch)]
  /\ edits \in [Batch -> 0..MaxEdits]
  /\ files \in [Batch -> SUBSET File]
  /\ rejected \in [Batch -> SUBSET File]
  /\ total \in [Batch -> Nat]
  /\ truncated \in [Batch -> BOOLEAN]
  /\ answer \in [Batch -> {None, "ok", "bad_request", "internal_error"}]

(* What a batch is about to write extends what the file holds: no other      *)
(* batch has written it since it was read (issue #47).                      *)
SnapshotIsCurrent ==
  \A b \in applying : pc[b] \in {"edit", "reparse", "persist"} => src[b] = content[pos[b]]

(* Concurrent batches rewrite as if one at a time, file by file, and report  *)
(* what they did: no edit is lost, none is made twice, a listed file was     *)
(* rewritten and a rejected one was not.                                    *)
Serial == INSTANCE SerialRewrites WITH
  landed <- content,
  reply <- [b \in Batch |->
              IF b \in applying /\ answer[b] = "ok"
              THEN [files |-> files[b], rejected |-> rejected[b]]
              ELSE None]

SerialSpec == Serial!Spec

(* A finished walk that left files out because of max_files says so, also    *)
(* when max_results ended it at the cap; and only then.                     *)
CapIsReported ==
  \A b \in Batch :
    answer[b] = "ok" => (truncated[b] <=> MaxFiles[b] < NumFiles /\ pos[b] = MaxFiles[b])

(* docs/API.md:268: "A 400 is returned only for request-level errors (bad    *)
(* pattern, unknown language)": such an error is found before a file is      *)
(* touched.                                                                 *)
BadRequestWritesNothing ==
  \A b \in Batch : answer[b] = "bad_request" => \A f \in File : b \notin ToSet(content[f])

(* docs/API.md:212: max_results is a "Cap on total matches".                *)
TotalWithinMaxResults == \A b \in Batch : total[b] <= MaxResults[b]
=============================================================================
