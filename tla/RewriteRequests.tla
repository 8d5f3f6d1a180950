--------------------------- MODULE RewriteRequests ---------------------------
(***************************************************************************)
(* crates/server/src/rewrite.rs: POST /rewrite, a batch of Rewrite that runs *)
(* as a walk of the pool of walk_guard.rs, of which WalkPool is enough: a    *)
(* batch starts when its walk starts, its unit of the budget comes back when *)
(* the batch is over, and the answer of the pool may come before that.       *)
(*                                                                         *)
(* The clients are modelled too: one that got a 503 or a 504 may send the    *)
(* same rewrite once more.                                                  *)
(***************************************************************************)
EXTENDS Rewrite

CONSTANTS Permits    \* SEMAPHORE_PERMITS

VARIABLES
  retryOf,     \* retryOf[b]: the request that b repeats, or None
  active,      \* the requests that own a unit of the budget
  ran,         \* the requests whose batch was started
  reply        \* reply[b]: the status code sent to b, or "none"

Pool == INSTANCE WalkPool WITH Request <- Batch

requestVars == <<vars, retryOf, active, ran, reply>>

(* A retry asks for what the first request asked for, and is itself not      *)
(* retried.                                                                 *)
RequestsInit ==
  /\ Init
  /\ Pool!PoolInit
  /\ retryOf \in [Batch -> Batch \cup {None}]
  /\ \A b \in Batch : retryOf[b] # None =>
       /\ retryOf[b] # b
       /\ retryOf[retryOf[b]] = None
       /\ b \in applying <=> retryOf[b] \in applying

(* The first request has failed in a way the client may retry.               *)
Sent(b) == retryOf[b] # None => reply[retryOf[b]] \in {"503", "504"}

PoolStep(A) == A /\ UNCHANGED <<vars, retryOf>>

(* The request gets a permit, of the semaphore or of another one's hands.    *)
Admit(b) == PoolStep(Sent(b) /\ Pool!Admit(b))

(* spawn_blocking: the batch starts.                                        *)
Start(b) == PoolStep(Pool!StartWalk(b))

(* The permit is dropped when the closure is over, and before it started     *)
(* when the client goes away.                                               *)
Free(b) == b \in ran => answer[b] # None
GiveBack(b) == PoolStep(Free(b) /\ Pool!GiveBack(b))
HandOver(b, c) == PoolStep(Free(b) /\ Sent(c) /\ Pool!HandOver(b, c))

(* A batch works on, whether or not its client still waits.                  *)
Work(b) ==
  /\ b \in ran
  /\ BatchStep(b)
  /\ UNCHANGED <<retryOf, active, ran, reply>>

Code(a) == CASE a = "ok" -> "200" [] a = "bad_request" -> "400" [] a = "internal_error" -> "500"

(* The task is over and its result is the answer.                           *)
Finish(b) == PoolStep(answer[b] # None /\ Pool!Respond(b, Code(answer[b])))

(* Mutant: the deadline is answered like a full pool.                       *)
DeadlineAsRefusal(b) ==
  PoolStep(b \in ran /\ reply[b] = "none" /\ reply' = [reply EXCEPT ![b] = "503"]
             /\ UNCHANGED <<active, ran>>)

(* REWRITE_TIMEOUT_SECS pass: the batch goes on without its client.          *)
Deadline(b) == PoolStep(Pool!Respond(b, "504"))

(* No permit came free in time.                                             *)
Refuse(b) == PoolStep(Sent(b) /\ Pool!Respond(b, "503"))

RequestStep(b) ==
  \/ Admit(b) \/ Start(b) \/ GiveBack(b) \/ Finish(b) \/ Deadline(b) \/ Refuse(b)
  \/ \E c \in Batch : HandOver(b, c)
  \/ Work(b)

RequestsNext == \E b \in Batch : RequestStep(b)

(* Only the threads of the pool are sure to go on; a client may go away.     *)
RequestsSpec ==
  RequestsInit /\ [][RequestsNext]_requestVars /\ \A b \in Batch : WF_requestVars(Work(b))
-----------------------------------------------------------------------------
Wrote(b) == {f \in File : b \in ToSet(content[f])}

(* A request answered with a 503 never wrote and never will, so that its     *)
(* retry is safe (walk_guard.rs:123); of a request and its retry, both can   *)
(* be in a file only when the first was answered with a 504: rewrite is "not *)
(* yet idempotent" (server/rewrite.rs:17).                                  *)
OnlyDeadlinesDouble ==
  \A b \in Batch :
    /\ reply[b] = "503" => Wrote(b) = {}
    /\ retryOf[b] # None /\ Wrote(b) \cap Wrote(retryOf[b]) # {} => reply[retryOf[b]] = "504"

(* Every answer but a 504 is the last word: no file changes by the hand of a *)
(* request after its client heard of it, be it a phantom, a batch that broke *)
(* off or one that was refused.                                             *)
AnswerIsFinal ==
  [][\A b \in Batch : reply[b] \notin {"none", "504"} => Wrote(b)' = Wrote(b)]_requestVars

(* A batch that started comes to its end: it never waits for ever for a      *)
(* stripe, its own guard of an earlier file or that of a phantom included.   *)
StartedBatchesEnd == \A b \in Batch : b \in ran ~> answer[b] # None

(* A batch that asks for a stripe gets it, also when a panic of an earlier    *)
(* batch poisoned it: no path is shut out for good (issue #53, F3).          *)
LocksAreGiven == \A b \in Batch : b \in ran /\ pc[b] = "lock" ~> pc[b] = "read"
=============================================================================
