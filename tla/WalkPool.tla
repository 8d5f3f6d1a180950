------------------------------ MODULE WalkPool ------------------------------
(***************************************************************************)
(* What crates/server/src/walk_guard.rs promises its callers, with every    *)
(* mechanism left out: one process-wide budget of walks, and an HTTP        *)
(* answer that tells the caller truthfully whether its walk ever ran.       *)
(* WalkGuard is shown to implement this specification.                      *)
(***************************************************************************)
EXTENDS Naturals, FiniteSets

CONSTANTS
  Request,     \* the HTTP requests that reach guarded_walk
  Permits      \* the size of the budget (SEMAPHORE_PERMITS)

VARIABLES
  active,      \* the requests that own one unit of the budget
  ran,         \* the requests whose walk was started
  reply        \* reply[r]: the status code sent to r, or "none"

poolVars == <<active, ran, reply>>

PoolInit ==
  /\ active = {}
  /\ ran = {}
  /\ reply = [r \in Request |-> "none"]

(* A request takes a free unit of the budget. *)
Admit(r) ==
  /\ reply[r] = "none"
  /\ r \notin active \cup ran
  /\ Cardinality(active) < Permits
  /\ active' = active \cup {r}
  /\ UNCHANGED <<ran, reply>>

(* r gives its unit straight to s. *)
HandOver(r, s) ==
  /\ r \in active
  /\ s \notin active \cup ran
  /\ reply[s] = "none"
  /\ active' = (active \ {r}) \cup {s}
  /\ UNCHANGED <<ran, reply>>

GiveBack(r) ==
  /\ r \in active
  /\ active' = active \ {r}
  /\ UNCHANGED <<ran, reply>>

(* A walk starts at most once, inside the budget, before any reply. *)
StartWalk(r) ==
  /\ r \in active \ ran
  /\ reply[r] = "none"
  /\ ran' = ran \cup {r}
  /\ UNCHANGED <<active, reply>>

(* 503: the walk never ran. 504: it ran and may still be running.          *)
(* 200, 400 and 500: it ran to its end and its unit is free again.         *)
Respond(r, code) ==
  /\ reply[r] = "none"
  /\ code = "503" => r \notin active \cup ran
  /\ code = "504" => r \in ran
  /\ code \in {"200", "400", "500"} => r \in ran \ active
  /\ reply' = [reply EXCEPT ![r] = code]
  /\ UNCHANGED <<active, ran>>

PoolNext ==
  \E r \in Request :
    \/ Admit(r)
    \/ GiveBack(r)
    \/ StartWalk(r)
    \/ \E s \in Request : HandOver(r, s)
    \/ \E code \in {"200", "400", "500", "503", "504"} : Respond(r, code)

PoolSpec == PoolInit /\ [][PoolNext]_poolVars
=============================================================================
