----------------------------- MODULE WalkGuard ------------------------------
(***************************************************************************)
(* crates/server/src/walk_guard.rs: every endpoint that walks a directory   *)
(* runs its walk through guarded_walk_inner, which takes a permit of one    *)
(* process-wide semaphore with a bounded wait, counts the walk in           *)
(* WALK_METRICS, runs it on a blocking thread that cannot be cancelled, and *)
(* answers when the walk ends or when the request deadline fires.           *)
(*                                                                         *)
(* Two actors work for each request: the async handler (`handler`) and the  *)
(* blocking closure (`walk`). A handler runs without interruption between   *)
(* two .await points, but other threads run in between its atomic           *)
(* operations, so each atomic operation is an action.                       *)
(***************************************************************************)
EXTENDS Naturals, Sequences, FiniteSets, SequencesExt

CONSTANTS
  Request,     \* the HTTP requests, each served once
  Permits,     \* SEMAPHORE_PERMITS
  None         \* oldest_start_ms = 0

ASSUME PermitsAssumption == Permits \in Nat \ {0}
ASSUME RequestAssumption == IsFiniteSet(Request) /\ None \notin Request

VARIABLES
  handler,     \* handler[r]: where the async handler of r is
  walk,        \* walk[r]: where the blocking closure of r is
  outcome,     \* outcome[r]: what f() gave: "ok", "err" or "panic"
  reply,       \* reply[r]: the HTTP status sent, "none" when none was
  available,   \* permits on the semaphore's counter
  queue,       \* the semaphore's waiters, first in first out
  inFlight,    \* WALK_METRICS.in_flight
  oldest       \* the walk whose start WALK_METRICS.oldest_start_ms holds

vars == <<handler, walk, outcome, reply, available, queue, inFlight, oldest>>
metrics == <<inFlight, oldest>>
semaphore == <<available, queue>>

(* idle     -> entering      a permit was free                             *)
(*          -> waiting       in the semaphore's queue                      *)
(* waiting  -> granted       a permit was assigned, the future is not yet  *)
(*                           polled                                        *)
(* entering -> stamping      fetch_add returned 0                          *)
(*          -> spawning      fetch_add returned more                       *)
(* awaiting                  select of the task and the deadline           *)
(* gone                      replied, or the client disconnected           *)
HandlerState == {"idle", "waiting", "granted", "entering", "stamping",
                 "spawning", "awaiting", "gone"}

(* returned: f() is over, both guards are still held. permitFree: _permit  *)
(* is dropped, _slot is not (locals drop in reverse order). clearing:      *)
(* fetch_sub returned 1. finished: the JoinHandle is ready.                *)
WalkState == {"none", "running", "returned", "permitFree", "clearing",
              "finished"}

Codes == {"200", "400", "500", "503", "504"}

TypeOK ==
  /\ handler \in [Request -> HandlerState]
  /\ walk \in [Request -> WalkState]
  /\ outcome \in [Request -> {"none", "ok", "err", "panic"}]
  /\ reply \in [Request -> Codes \cup {"none"}]
  /\ available \in Nat
  /\ queue \in Seq(Request)
  /\ inFlight \in Nat
  /\ oldest \in Request \cup {None}

Init ==
  /\ handler = [r \in Request |-> "idle"]
  /\ walk = [r \in Request |-> "none"]
  /\ outcome = [r \in Request |-> "none"]
  /\ reply = [r \in Request |-> "none"]
  /\ available = Permits
  /\ queue = <<>>
  /\ inFlight = 0
  /\ oldest = None

-----------------------------------------------------------------------------
(* The semaphore (tokio): a freed permit goes to the first waiter, and to   *)
(* the counter only when nobody waits.                                      *)

(* What release does when r, whose handler becomes h, frees its permit.     *)
Release(r, h) ==
  IF queue = <<>>
  THEN /\ available' = available + 1
       /\ handler' = [handler EXCEPT ![r] = h]
       /\ UNCHANGED queue
  ELSE /\ handler' = [handler EXCEPT ![r] = h, ![Head(queue)] = "granted"]
       /\ queue' = Tail(queue)
       /\ UNCHANGED available

(* The request reaches semaphore.acquire().                                 *)
Arrive(r) ==
  /\ handler[r] = "idle"
  /\ IF available > 0
     THEN /\ available' = available - 1
          /\ handler' = [handler EXCEPT ![r] = "entering"]
          /\ UNCHANGED queue
     ELSE /\ queue' = Append(queue, r)
          /\ handler' = [handler EXCEPT ![r] = "waiting"]
          /\ UNCHANGED available
  /\ UNCHANGED <<walk, outcome, reply, metrics>>

(* The future of a waiter that holds a permit is polled. timeout() polls    *)
(* it before it looks at its timer, so a granted waiter is never a 503.     *)
Granted(r) ==
  /\ handler[r] = "granted"
  /\ handler' = [handler EXCEPT ![r] = "entering"]
  /\ UNCHANGED <<walk, outcome, reply, semaphore, metrics>>

LeaveQueue(r) ==
  \E i \in 1..Len(queue) : queue[i] = r /\ queue' = RemoveAt(queue, i)

(* Mutant: acquire().await without a timeout.                               *)
AcquireForEver(r) == FALSE

(* WALK_ACQUIRE_TIMEOUT_SECS pass in the queue: 503.                        *)
AcquireTimeout(r) ==
  /\ handler[r] = "waiting"
  /\ LeaveQueue(r)
  /\ handler' = [handler EXCEPT ![r] = "gone"]
  /\ reply' = [reply EXCEPT ![r] = "503"]
  /\ UNCHANGED <<walk, outcome, available, metrics>>

-----------------------------------------------------------------------------
(* WalkMetrics::acquire_slot, two atomic operations.                        *)

CountIn(r) ==
  /\ handler[r] = "entering"
  /\ inFlight' = inFlight + 1
  /\ handler' = [handler EXCEPT
                   ![r] = IF inFlight = 0 THEN "stamping" ELSE "spawning"]
  /\ UNCHANGED <<walk, outcome, reply, semaphore, oldest>>

StoreOldest(r) ==
  /\ handler[r] = "stamping"
  /\ oldest' = r
  /\ handler' = [handler EXCEPT ![r] = "spawning"]
  /\ UNCHANGED <<walk, outcome, reply, semaphore, inFlight>>

(* spawn_blocking takes the closure with the permit and the slot in it.     *)
Spawn(r) ==
  /\ handler[r] = "spawning"
  /\ walk' = [walk EXCEPT ![r] = "running"]
  /\ handler' = [handler EXCEPT ![r] = "awaiting"]
  /\ UNCHANGED <<outcome, reply, semaphore, metrics>>

-----------------------------------------------------------------------------
(* The closure: f(), then _permit is dropped, then _slot.                   *)

Return(r) ==
  /\ walk[r] = "running"
  /\ walk' = [walk EXCEPT ![r] = "returned"]
  /\ \E o \in {"ok", "err", "panic"} : outcome' = [outcome EXCEPT ![r] = o]
  /\ UNCHANGED <<handler, reply, semaphore, metrics>>

DropPermit(r) ==
  /\ walk[r] = "returned"
  /\ walk' = [walk EXCEPT ![r] = "permitFree"]
  /\ Release(r, handler[r])
  /\ UNCHANGED <<outcome, reply, metrics>>

(* Mutant: the test of fetch_sub's result forgets that it is the old value. *)
CountOutOffByOne(r) ==
  /\ walk[r] = "permitFree"
  /\ inFlight' = inFlight - 1
  /\ walk' = [walk EXCEPT
                ![r] = IF inFlight = 0 THEN "clearing" ELSE "finished"]
  /\ UNCHANGED <<handler, outcome, reply, semaphore, oldest>>

(* WalkSlot::drop, two atomic operations.                                   *)
CountOut(r) ==
  /\ walk[r] = "permitFree"
  /\ inFlight' = inFlight - 1
  /\ walk' = [walk EXCEPT
                ![r] = IF inFlight = 1 THEN "clearing" ELSE "finished"]
  /\ UNCHANGED <<handler, outcome, reply, semaphore, oldest>>

ClearOldest(r) ==
  /\ walk[r] = "clearing"
  /\ oldest' = None
  /\ walk' = [walk EXCEPT ![r] = "finished"]
  /\ UNCHANGED <<handler, outcome, reply, semaphore, inFlight>>

-----------------------------------------------------------------------------
(* The end of the handler.                                                  *)

StatusOf(o) == CASE o = "ok" -> "200" [] o = "err" -> "400" [] o = "panic" -> "500"

(* The task is over when the handler is polled.                             *)
Answer(r) ==
  /\ handler[r] = "awaiting"
  /\ walk[r] = "finished"
  /\ handler' = [handler EXCEPT ![r] = "gone"]
  /\ reply' = [reply EXCEPT ![r] = StatusOf(outcome[r])]
  /\ UNCHANGED <<walk, outcome, semaphore, metrics>>

(* Mutants: the slot, or the permit, is a local of the handler instead of   *)
(* the closure, so the deadline drops it while the walk goes on.            *)
DeadlineDropsSlot(r) ==
  /\ handler[r] = "awaiting"
  /\ walk[r] # "finished"
  /\ handler' = [handler EXCEPT ![r] = "gone"]
  /\ reply' = [reply EXCEPT ![r] = "504"]
  /\ inFlight' = inFlight - 1
  /\ UNCHANGED <<walk, outcome, semaphore, oldest>>

DeadlineDropsPermit(r) ==
  /\ handler[r] = "awaiting"
  /\ walk[r] # "finished"
  /\ Release(r, "gone")
  /\ reply' = [reply EXCEPT ![r] = "504"]
  /\ UNCHANGED <<walk, outcome, metrics>>

(* The request deadline fires first: 504, and the closure goes on.          *)
Deadline(r) ==
  /\ handler[r] = "awaiting"
  /\ walk[r] # "finished"
  /\ handler' = [handler EXCEPT ![r] = "gone"]
  /\ reply' = [reply EXCEPT ![r] = "504"]
  /\ UNCHANGED <<walk, outcome, semaphore, metrics>>

(* Mutant: a permit assigned to a waiter that goes away is lost.            *)
DisconnectLosesPermit(r) ==
  /\ handler[r] \in {"granted", "awaiting"}
  /\ handler' = [handler EXCEPT ![r] = "gone"]
  /\ UNCHANGED <<walk, outcome, reply, semaphore, metrics>>

(* The client goes away and its handler future is dropped where it awaits:  *)
(* in the queue, with a permit not yet taken, or on the task.               *)
Disconnect(r) ==
  /\ \/ /\ handler[r] = "waiting"
        /\ LeaveQueue(r)
        /\ handler' = [handler EXCEPT ![r] = "gone"]
        /\ UNCHANGED available
     \/ /\ handler[r] = "granted"
        /\ Release(r, "gone")
     \/ /\ handler[r] = "awaiting"
        /\ handler' = [handler EXCEPT ![r] = "gone"]
        /\ UNCHANGED semaphore
  /\ UNCHANGED <<walk, outcome, reply, metrics>>

-----------------------------------------------------------------------------
HandlerStep(r) ==
  \/ Granted(r) \/ AcquireTimeout(r) \/ CountIn(r) \/ StoreOldest(r)
  \/ Spawn(r) \/ Answer(r) \/ Deadline(r)

UnwindStep(r) == DropPermit(r) \/ CountOut(r) \/ ClearOldest(r)

Next ==
  \E r \in Request :
    \/ Arrive(r) \/ HandlerStep(r) \/ Disconnect(r)
    \/ Return(r) \/ UnwindStep(r)

(* Tokio polls a woken future and its timers fire; a thread that left f()   *)
(* drops its guards. Nothing makes f() return: a walk may hang for ever.    *)
Fairness == \A r \in Request : WF_vars(HandlerStep(r)) /\ WF_vars(UnwindStep(r))

Spec == Init /\ [][Next]_vars /\ Fairness

-----------------------------------------------------------------------------
(* Properties.                                                              *)

(* The requests that own a permit: assigned to a waiter, in the handler's   *)
(* hands, or inside the closure.                                            *)
Holders ==
  {r \in Request : \/ handler[r] \in {"granted", "entering", "stamping", "spawning"}
                   \/ walk[r] \in {"running", "returned"}}

(* The requests that own a WalkSlot whose fetch_sub has not happened.       *)
Slotted ==
  {r \in Request : \/ handler[r] \in {"stamping", "spawning"}
                   \/ walk[r] \in {"running", "returned", "permitFree"}}

Running == {r \in Request : walk[r] = "running"}

(* No permit is lost or minted, whatever mixture of timeouts, disconnects,  *)
(* panics and phantom walks the pool went through.                          *)
PermitConservation == available + Cardinality(Holders) = Permits

(* A waiter is never left in the queue beside a free permit, which is what  *)
(* a permit dropped between a grant and a disconnect could cause.           *)
NoIdlePermit == queue # <<>> => available = 0

(* cache/stats never under-reports the walks that are truly running.        *)
RunningAreCounted == Cardinality(Running) <= inFlight

(* When no walk is left, the metrics are back to zero: the two-step stamp   *)
(* and the two-step clear may race, but never leave a stale "stuck" signal  *)
(* behind an empty pool.                                                    *)
Quiet == \A r \in Request : /\ handler[r] \in {"idle", "waiting", "granted", "entering", "awaiting", "gone"}
                            /\ walk[r] \in {"none", "finished"}

QuietMetrics == Quiet => inFlight = 0 /\ oldest = None

(* The guard implements the bounded pool with truthful answers: 503 means   *)
(* that the walk never ran and never will, 504 that it may still run, any   *)
(* other status that it ended and its permit is free.                       *)
Pool == INSTANCE WalkPool WITH
          active <- Holders,
          ran <- {r \in Request : walk[r] # "none"}

PoolSpec == Pool!PoolSpec

(* Every request is answered or gone, even when every walk hangs for ever:  *)
(* nobody queues without limit.                                             *)
EveryRequestEnds ==
  \A r \in Request : handler[r] # "idle" ~> handler[r] = "gone"

(* When no walk hangs, the pool drains whatever timed out or disconnected:  *)
(* all permits come back and the metrics return to zero.                    *)
Drained == available = Permits /\ inFlight = 0 /\ oldest = None

NoHang == []<>(Running = {})

PoolDrains == NoHang => <>[]Drained

(* lib.rs and docs/API.md: in_flight counts the permits held, so it is at   *)
(* most the pool size. The closure drops its permit before its slot.        *)
InFlightWithinPool == inFlight <= Permits

(* lib.rs and docs/API.md: oldest_start_ms is 0 only when no walk is in     *)
(* flight, once every two-step update is over. The store(0) of a last walk  *)
(* can land after the store(now) of the next first walk, and then nothing   *)
(* sets the stamp again while that walk, perhaps stuck, runs.               *)
Settled == \A r \in Request : handler[r] # "stamping" /\ walk[r] # "clearing"

OldestIsSetWhileRunning == Settled /\ Running # {} => oldest # None
=============================================================================
