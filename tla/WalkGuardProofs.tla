-------------------------- MODULE WalkGuardProofs ---------------------------
(***************************************************************************)
(* Proofs about WalkGuard, for any finite set of requests and any pool      *)
(* size: the permits are conserved, the metrics come to rest at zero, and   *)
(* the guard implements WalkPool.                                           *)
(*                                                                         *)
(* The inductive invariant Inv adds to the checked invariants what they     *)
(* rest on: the queue holds exactly the waiting requests, once each; a      *)
(* handler that has not spawned has no walk and no reply; and in_flight     *)
(* counts the WalkSlots.                                                    *)
(***************************************************************************)
EXTENDS WalkGuard, FiniteSetTheorems, SequenceTheorems, TLAPS

(* The semaphore's queue holds the waiting requests, each in one place.     *)
QueueOf(q, h) ==
  /\ \A r \in Request : h[r] = "waiting" <=> \E i \in 1..Len(q) : q[i] = r
  /\ \A i, j \in 1..Len(q) : q[i] = q[j] => i = j

QueueIsWaiting == QueueOf(queue, handler)

(* A handler before spawn_blocking has no walk; one that has not finished   *)
(* has sent nothing; a closure past f() has an outcome.                     *)
Phases ==
  \A r \in Request :
    /\ handler[r] \in HandlerState \ {"awaiting", "gone"} => walk[r] = "none"
    /\ handler[r] = "awaiting" => walk[r] # "none"
    /\ handler[r] # "gone" => reply[r] = "none"
    /\ walk[r] \in WalkState \ {"none", "running"} => outcome[r] # "none"

SlotsAreCounted == inFlight = Cardinality(Slotted)

(* A stamp belongs to a pool somebody is still in or is about to clear.     *)
StampHasOwner ==
  oldest # None => \E r \in Request : r \in Slotted \/ walk[r] = "clearing"

Inv ==
  /\ TypeOK
  /\ QueueIsWaiting
  /\ Phases
  /\ PermitConservation
  /\ NoIdlePermit
  /\ SlotsAreCounted
  /\ StampHasOwner

-----------------------------------------------------------------------------
(* The queue.                                                               *)

LEMMA AppendToQueue ==
  ASSUME NEW q \in Seq(Request), NEW h \in [Request -> HandlerState],
         NEW r \in Request, QueueOf(q, h), h[r] = "idle"
  PROVE  /\ Append(q, r) \in Seq(Request)
         /\ Append(q, r) # <<>>
         /\ QueueOf(Append(q, r), [h EXCEPT ![r] = "waiting"])
<1> DEFINE p == Append(q, r)
           g == [h EXCEPT ![r] = "waiting"]
<1>1. /\ p \in Seq(Request)
      /\ Len(p) = Len(q) + 1
      /\ \A i \in 1..Len(q) : p[i] = q[i]
      /\ p[Len(q) + 1] = r
      /\ Len(q) \in Nat
  BY AppendProperties, LenProperties
<1>2. \A i \in 1..Len(q) : q[i] # r
  BY DEF QueueOf
<1>3. ASSUME NEW s \in Request
      PROVE  g[s] = "waiting" <=> \E i \in 1..Len(p) : p[i] = s
  <2>1. CASE s = r
    BY <1>1, <2>1
  <2>2. CASE s # r
    <3>1. g[s] = h[s]
      BY <2>2
    <3>2. (\E i \in 1..Len(p) : p[i] = s) <=> \E i \in 1..Len(q) : q[i] = s
      BY <1>1, <2>2
    <3> QED BY <3>1, <3>2 DEF QueueOf
  <2> QED BY <2>1, <2>2
<1>4. ASSUME NEW i \in 1..Len(p), NEW j \in 1..Len(p), p[i] = p[j]
      PROVE  i = j
  BY <1>1, <1>2, <1>4 DEF QueueOf
<1>5. p # <<>>
  BY <1>1, EmptySeq
<1> QED BY <1>1, <1>3, <1>4, <1>5 DEF QueueOf

LEMMA RemoveAtProperties ==
  ASSUME NEW S, NEW q \in Seq(S), NEW i \in 1..Len(q)
  PROVE  /\ RemoveAt(q, i) \in Seq(S)
         /\ Len(RemoveAt(q, i)) = Len(q) - 1
         /\ \A j \in 1..Len(q)-1 :
              RemoveAt(q, i)[j] = IF j < i THEN q[j] ELSE q[j+1]
<1> DEFINE front == SubSeq(q, 1, i-1)
           back == SubSeq(q, i+1, Len(q))
<1>1. Len(q) \in Nat /\ \A j \in 1..Len(q) : q[j] \in S
  BY LenProperties
<1>2. /\ front \in Seq(S)
      /\ Len(front) = i - 1
      /\ \A j \in 1..i-1 : front[j] = q[j]
  <2>1. \A j \in 1..i-1 : q[j] \in S
    BY <1>1
  <2>2. \A j \in 1..(i-1)-1+1 : front[j] = q[1+j-1]
    BY <2>1, <1>1, SubSeqProperties
  <2>3. front \in Seq(S) /\ Len(front) = i - 1
    BY <2>1, <1>1, SubSeqProperties
  <2> QED BY <2>2, <2>3, <1>1
<1>3. /\ back \in Seq(S)
      /\ Len(back) = Len(q) - i
      /\ \A j \in 1..Len(q)-i : back[j] = q[i+j]
  <2>1. \A j \in i+1..Len(q) : q[j] \in S
    BY <1>1
  <2>2. \A j \in 1..Len(q)-(i+1)+1 : back[j] = q[(i+1)+j-1]
    BY <2>1, <1>1, SubSeqProperties
  <2>3. back \in Seq(S) /\ Len(back) = Len(q) - i
    BY <2>1, <1>1, SubSeqProperties
  <2> QED BY <2>2, <2>3, <1>1
<1>4. RemoveAt(q, i) = front \o back
  BY DEF RemoveAt
<1> HIDE DEF front, back
<1>5. /\ front \o back \in Seq(S)
      /\ Len(front \o back) = Len(front) + Len(back)
      /\ \A j \in 1..Len(front)+Len(back) :
           (front \o back)[j] = IF j <= Len(front) THEN front[j] ELSE back[j - Len(front)]
  BY <1>2, <1>3, ConcatProperties
<1>6. ASSUME NEW j \in 1..Len(q)-1
      PROVE  (front \o back)[j] = IF j < i THEN q[j] ELSE q[j+1]
  <2>1. CASE j < i
    BY <1>1, <1>2, <1>3, <1>5, <2>1
  <2>2. CASE ~(j < i)
    <3>1. j - Len(front) \in 1..Len(q)-i /\ i + (j - Len(front)) = j + 1
      BY <1>1, <1>2, <2>2
    <3>2. (front \o back)[j] = back[j - Len(front)]
      BY <1>1, <1>2, <1>3, <1>5, <2>2
    <3> QED BY <1>3, <2>2, <3>1, <3>2
  <2> QED BY <2>1, <2>2
<1> QED BY <1>1, <1>2, <1>3, <1>4, <1>5, <1>6

LEMMA RemoveFromQueue ==
  ASSUME NEW q \in Seq(Request), NEW h \in [Request -> HandlerState],
         NEW i \in 1..Len(q), QueueOf(q, h),
         NEW st \in HandlerState \ {"waiting"}
  PROVE  /\ RemoveAt(q, i) \in Seq(Request)
         /\ QueueOf(RemoveAt(q, i), [h EXCEPT ![q[i]] = st])
<1> DEFINE p == RemoveAt(q, i)
           g == [h EXCEPT ![q[i]] = st]
           n == Len(q)
<1>1. n \in Nat /\ (\A j \in 1..n : q[j] \in Request)
  BY LenProperties
<1>2. /\ p \in Seq(Request)
      /\ Len(p) = n - 1
      /\ \A j \in 1..n-1 : p[j] = IF j < i THEN q[j] ELSE q[j+1]
  BY RemoveAtProperties
<1>3. \A j, k \in 1..n : q[j] = q[k] => j = k
  BY DEF QueueOf
<1>4. \A s \in Request : h[s] = "waiting" <=> \E j \in 1..n : q[j] = s
  BY DEF QueueOf
<1> HIDE DEF p, n
<1>5. i \in 1..n
  BY DEF n
<1>6. ASSUME NEW s \in Request
      PROVE  g[s] = "waiting" <=> \E j \in 1..Len(p) : p[j] = s
  <2>1. CASE s = q[i]
    <3>1. g[s] = st
      BY <1>1, <1>5, <2>1
    <3>2. \A j \in 1..n-1 : p[j] # q[i]
      BY <1>1, <1>2, <1>3, <1>5
    <3> QED BY <1>2, <2>1, <3>1, <3>2
  <2>2. CASE s # q[i]
    <3>1. g[s] = h[s]
      BY <2>2
    <3>2. ASSUME NEW j \in 1..n, q[j] = s
          PROVE  \E k \in 1..n-1 : p[k] = s
      <4>1. CASE j < i
        BY <1>1, <1>2, <1>5, <3>2, <4>1
      <4>2. CASE j > i
        <5>1. j-1 \in 1..n-1 /\ ~(j-1 < i) /\ (j-1)+1 = j
          BY <1>1, <1>5, <4>2
        <5> QED BY <1>2, <3>2, <5>1
      <4> QED BY <1>1, <1>5, <2>2, <3>2, <4>1, <4>2
    <3>3. ASSUME NEW k \in 1..n-1, p[k] = s
          PROVE  \E j \in 1..n : q[j] = s
      <4>1. k \in 1..n /\ k+1 \in 1..n
        BY <1>1
      <4>2. p[k] = q[k] \/ p[k] = q[k+1]
        BY <1>2
      <4> QED BY <3>3, <4>1, <4>2
    <3> QED BY <1>2, <1>4, <3>1, <3>2, <3>3
  <2> QED BY <2>1, <2>2
<1>7. ASSUME NEW j \in 1..Len(p), NEW k \in 1..Len(p), p[j] = p[k]
      PROVE  j = k
  <2> DEFINE at(l) == IF l < i THEN l ELSE l + 1
  <2>1. j \in 1..n-1 /\ k \in 1..n-1
    BY <1>2
  <2>2. \A l \in 1..n-1 : at(l) \in 1..n /\ p[l] = q[at(l)]
    BY <1>1, <1>2, <1>5
  <2>3. q[at(j)] = q[at(k)] /\ at(j) \in 1..n /\ at(k) \in 1..n
    BY <1>7, <2>1, <2>2
  <2>4. at(j) = at(k)
    <3> HIDE DEF at
    <3> QED BY <1>3, <2>3
  <2> QED BY <1>1, <1>5, <2>1, <2>4
<1> QED BY <1>2, <1>6, <1>7 DEF QueueOf, p, n

LEMMA TailOfQueue ==
  ASSUME NEW q \in Seq(Request), NEW h \in [Request -> HandlerState],
         q # <<>>, QueueOf(q, h), NEW st \in HandlerState \ {"waiting"}
  PROVE  /\ Head(q) \in Request
         /\ h[Head(q)] = "waiting"
         /\ Tail(q) \in Seq(Request)
         /\ QueueOf(Tail(q), [h EXCEPT ![Head(q)] = st])
<1>1. Len(q) \in Nat \ {0} /\ 1 \in 1..Len(q) /\ Head(q) = q[1]
  BY EmptySeq, LenProperties
<1>2. /\ Head(q) \in Request
      /\ Tail(q) \in Seq(Request)
      /\ Len(Tail(q)) = Len(q) - 1
      /\ \A j \in 1..Len(q)-1 : Tail(q)[j] = q[j+1]
  BY HeadTailProperties, <1>1
<1>3. /\ RemoveAt(q, 1) \in Seq(Request)
      /\ Len(RemoveAt(q, 1)) = Len(q) - 1
      /\ \A j \in 1..Len(q)-1 : RemoveAt(q, 1)[j] = IF j < 1 THEN q[j] ELSE q[j+1]
  BY <1>1, RemoveAtProperties
<1>4. Tail(q) = RemoveAt(q, 1)
  <2>1. \A j \in 1..Len(q)-1 : Tail(q)[j] = RemoveAt(q, 1)[j]
    BY <1>1, <1>2, <1>3
  <2> QED BY <1>2, <1>3, <2>1, SeqEqual
<1>5. QueueOf(RemoveAt(q, 1), [h EXCEPT ![q[1]] = st])
  BY <1>1, RemoveFromQueue
<1>6. h[Head(q)] = "waiting"
  BY <1>1, <1>2 DEF QueueOf
<1> QED BY <1>1, <1>2, <1>4, <1>5, <1>6

(* Changing the state of a request that does not wait, to one that does not *)
(* wait, leaves the queue right.                                            *)
LEMMA SameQueue ==
  ASSUME NEW q, NEW h \in [Request -> HandlerState], NEW r \in Request,
         QueueOf(q, h), h[r] # "waiting", NEW st \in HandlerState \ {"waiting"}
  PROVE  QueueOf(q, [h EXCEPT ![r] = st])
BY DEF QueueOf

(* LeaveQueue takes exactly r out.                                          *)
LEMMA LeavingQueue ==
  ASSUME TypeOK, QueueIsWaiting, NEW r \in Request, handler[r] = "waiting",
         LeaveQueue(r), handler' = [handler EXCEPT ![r] = "gone"]
  PROVE  queue' \in Seq(Request) /\ QueueIsWaiting'
<1>1. PICK i \in 1..Len(queue) : queue[i] = r /\ queue' = RemoveAt(queue, i)
  BY DEF LeaveQueue
<1>2. "gone" \in HandlerState \ {"waiting"}
  BY DEF HandlerState
<1>3. /\ RemoveAt(queue, i) \in Seq(Request)
      /\ QueueOf(RemoveAt(queue, i), [handler EXCEPT ![queue[i]] = "gone"])
  BY <1>2, RemoveFromQueue DEF TypeOK, QueueIsWaiting
<1> QED BY <1>1, <1>3 DEF QueueIsWaiting

(* What a release does: to the counter when nobody waits, else to the head. *)
LEMMA Releasing ==
  ASSUME TypeOK, QueueIsWaiting, NoIdlePermit, NEW r \in Request,
         handler[r] # "waiting",
         NEW h \in HandlerState \ {"waiting"}, Release(r, h)
  PROVE  /\ handler' \in [Request -> HandlerState]
         /\ queue' \in Seq(Request)
         /\ available' \in Nat
         /\ QueueIsWaiting'
         /\ NoIdlePermit'
         /\ \/ /\ queue = <<>>
               /\ available' = available + 1
               /\ handler' = [handler EXCEPT ![r] = h]
            \/ \E s \in Request \ {r} :
                 /\ handler[s] = "waiting"
                 /\ available' = available
                 /\ handler' = [handler EXCEPT ![r] = h, ![s] = "granted"]
<1>0. "granted" \in HandlerState \ {"waiting"}
  BY DEF HandlerState
<1>1. CASE queue = <<>>
  <2>1. /\ available' = available + 1
        /\ handler' = [handler EXCEPT ![r] = h]
        /\ queue' = queue
    BY <1>1 DEF Release
  <2>2. QueueIsWaiting'
    BY <2>1, SameQueue DEF TypeOK, QueueIsWaiting
  <2> QED BY <1>1, <2>1, <2>2 DEF TypeOK, NoIdlePermit
<1>2. CASE queue # <<>>
  <2> DEFINE s == Head(queue)
             g == [handler EXCEPT ![r] = h]
  <2>1. /\ handler' = [g EXCEPT ![s] = "granted"]
        /\ queue' = Tail(queue)
        /\ available' = available
    BY <1>2 DEF Release
  <2>2. g \in [Request -> HandlerState] /\ QueueOf(queue, g)
    BY SameQueue DEF TypeOK, QueueIsWaiting
  <2>3. queue \in Seq(Request) /\ QueueOf(queue, handler)
    BY DEF TypeOK, QueueIsWaiting
  <2>4. /\ s \in Request
        /\ handler[s] = "waiting"
    BY <1>0, <1>2, <2>3, TailOfQueue DEF TypeOK
  <2>5. /\ Tail(queue) \in Seq(Request)
        /\ QueueOf(Tail(queue), [g EXCEPT ![s] = "granted"])
    BY <1>0, <1>2, <2>2, <2>3, TailOfQueue
  <2>6. available = 0
    BY <1>2 DEF NoIdlePermit
  <2> QED BY <1>0, <2>1, <2>2, <2>4, <2>5, <2>6 DEF NoIdlePermit, QueueIsWaiting
<1> QED BY <1>1, <1>2

-----------------------------------------------------------------------------
(* The inductive invariant.                                                 *)

LEMMA HoldersAndSlots ==
  /\ IsFiniteSet(Holders) /\ Cardinality(Holders) \in Nat
  /\ IsFiniteSet(Slotted) /\ Cardinality(Slotted) \in Nat
<1>1. Holders \in SUBSET Request /\ Slotted \in SUBSET Request
  BY DEF Holders, Slotted
<1> QED BY <1>1, RequestAssumption, FS_Subset, FS_CardinalityType

LEMMA InitInv == Init => Inv
<1> SUFFICES ASSUME Init PROVE Inv
  OBVIOUS
<1>1. Holders = {} /\ Slotted = {}
  BY DEF Init, Holders, Slotted
<1>2. Cardinality(Holders) = 0 /\ Cardinality(Slotted) = 0
  BY <1>1, FS_EmptySet
<1>3. TypeOK
  BY PermitsAssumption, EmptySeq
  DEF Init, TypeOK, HandlerState, WalkState, Codes
<1>4. QueueIsWaiting
  BY EmptySeq DEF Init, QueueIsWaiting, QueueOf
<1>5. Phases
  BY DEF Init, Phases, HandlerState, WalkState
<1>6. PermitConservation
  BY <1>2, PermitsAssumption DEF Init, PermitConservation
<1>7. NoIdlePermit /\ SlotsAreCounted /\ StampHasOwner
  BY <1>2 DEF Init, NoIdlePermit, SlotsAreCounted, StampHasOwner
<1> QED BY <1>3, <1>4, <1>5, <1>6, <1>7 DEF Inv

LEMMA ArriveInv ==
  ASSUME Inv, NEW r \in Request, Arrive(r) PROVE Inv'
<1> USE DEF Inv
<1>1. Slotted' = Slotted
  BY DEF Arrive, TypeOK, Phases, Slotted, HandlerState
<1>2. CASE available > 0
  <2>0. /\ available' = available - 1
        /\ handler' = [handler EXCEPT ![r] = "entering"]
        /\ queue' = queue
    BY <1>2 DEF Arrive
  <2>1. TypeOK'
    BY <1>2, <2>0 DEF Arrive, TypeOK, HandlerState, metrics
  <2>2. QueueIsWaiting'
    BY <2>0, SameQueue DEF Arrive, TypeOK, HandlerState, QueueIsWaiting
  <2>3. Phases'
    BY <2>0 DEF Arrive, TypeOK, Phases, HandlerState, WalkState
  <2>4. Holders' = Holders \cup {r} /\ r \notin Holders
    BY <2>0 DEF Arrive, TypeOK, Holders, Phases, HandlerState
  <2>5. PermitConservation'
    <3>1. Cardinality(Holders \cup {r}) = Cardinality(Holders) + 1
      BY <2>4, HoldersAndSlots, FS_AddElement
    <3> QED BY <1>2, <2>0, <2>4, <3>1, HoldersAndSlots DEF TypeOK, PermitConservation
  <2>6. NoIdlePermit'
    BY <1>2, <2>0 DEF NoIdlePermit, TypeOK
  <2>7. SlotsAreCounted' /\ StampHasOwner'
    BY <1>1 DEF Arrive, SlotsAreCounted, StampHasOwner, metrics
  <2> QED BY <2>1, <2>2, <2>3, <2>5, <2>6, <2>7
<1>3. CASE ~(available > 0)
  <2>0. /\ available' = available /\ available = 0
        /\ handler' = [handler EXCEPT ![r] = "waiting"]
        /\ queue' = Append(queue, r)
    BY <1>3 DEF Arrive, TypeOK
  <2>1. queue' \in Seq(Request) /\ QueueIsWaiting'
    BY <2>0, AppendToQueue DEF Arrive, TypeOK, QueueIsWaiting
  <2>2. TypeOK'
    BY <2>0, <2>1 DEF Arrive, TypeOK, HandlerState, metrics
  <2>3. Phases'
    BY <2>0 DEF Arrive, TypeOK, Phases, HandlerState, WalkState
  <2>4. Holders' = Holders
    BY <2>0 DEF Arrive, TypeOK, Holders, Phases, HandlerState
  <2>5. PermitConservation' /\ NoIdlePermit'
    BY <2>0, <2>4 DEF PermitConservation, NoIdlePermit
  <2>6. SlotsAreCounted' /\ StampHasOwner'
    BY <1>1 DEF Arrive, SlotsAreCounted, StampHasOwner, metrics
  <2> QED BY <2>1, <2>2, <2>3, <2>5, <2>6
<1> QED BY <1>2, <1>3

LEMMA GrantedInv ==
  ASSUME Inv, NEW r \in Request, Granted(r) PROVE Inv'
<1> USE DEF Inv
<1>1. TypeOK' /\ Phases'
  BY DEF Granted, TypeOK, Phases, HandlerState, WalkState, semaphore, metrics
<1>2. QueueIsWaiting'
  BY SameQueue DEF Granted, TypeOK, QueueIsWaiting, HandlerState, semaphore
<1>3. Holders' = Holders /\ Slotted' = Slotted
  BY DEF Granted, TypeOK, Holders, Slotted, HandlerState
<1> QED BY <1>1, <1>2, <1>3
  DEF Granted, PermitConservation, NoIdlePermit, SlotsAreCounted, StampHasOwner,
      semaphore, metrics

LEMMA AcquireTimeoutInv ==
  ASSUME Inv, NEW r \in Request, AcquireTimeout(r) PROVE Inv'
<1> USE DEF Inv
<1>1. queue' \in Seq(Request) /\ QueueIsWaiting'
  BY LeavingQueue DEF AcquireTimeout
<1>2. TypeOK'
  BY <1>1 DEF AcquireTimeout, TypeOK, HandlerState, Codes, metrics
<1>3. Phases'
  BY DEF AcquireTimeout, TypeOK, Phases, HandlerState, WalkState
<1>4. Holders' = Holders /\ Slotted' = Slotted
  BY DEF AcquireTimeout, TypeOK, Holders, Slotted, HandlerState
<1>5. available = 0
  <2>1. \E i \in 1..Len(queue) : queue[i] = r
    BY DEF AcquireTimeout, LeaveQueue
  <2>2. queue # <<>>
    BY <2>1, EmptySeq
  <2> QED BY <2>2 DEF NoIdlePermit
<1> QED BY <1>1, <1>2, <1>3, <1>4, <1>5
  DEF AcquireTimeout, PermitConservation, NoIdlePermit, SlotsAreCounted,
      StampHasOwner, metrics

LEMMA CountInInv ==
  ASSUME Inv, NEW r \in Request, CountIn(r) PROVE Inv'
<1> USE DEF Inv
<1>1. TypeOK' /\ Phases'
  BY DEF CountIn, TypeOK, Phases, HandlerState, WalkState, semaphore
<1>2. QueueIsWaiting'
  BY SameQueue DEF CountIn, TypeOK, QueueIsWaiting, HandlerState, semaphore
<1>3. Holders' = Holders
  BY DEF CountIn, TypeOK, Holders, HandlerState
<1>4. Slotted' = Slotted \cup {r} /\ r \notin Slotted
  BY DEF CountIn, TypeOK, Slotted, Phases, HandlerState
<1>5. SlotsAreCounted'
  BY <1>4, HoldersAndSlots, FS_AddElement DEF CountIn, SlotsAreCounted
<1>6. StampHasOwner'
  BY <1>4 DEF CountIn, StampHasOwner
<1> QED BY <1>1, <1>2, <1>3, <1>5, <1>6
  DEF CountIn, PermitConservation, NoIdlePermit, semaphore

LEMMA StoreOldestInv ==
  ASSUME Inv, NEW r \in Request, StoreOldest(r) PROVE Inv'
<1> USE DEF Inv
<1>1. TypeOK' /\ Phases'
  BY DEF StoreOldest, TypeOK, Phases, HandlerState, WalkState, semaphore
<1>2. QueueIsWaiting'
  BY SameQueue DEF StoreOldest, TypeOK, QueueIsWaiting, HandlerState, semaphore
<1>3. Holders' = Holders /\ Slotted' = Slotted /\ r \in Slotted
  BY DEF StoreOldest, TypeOK, Holders, Slotted, HandlerState
<1> QED BY <1>1, <1>2, <1>3
  DEF StoreOldest, PermitConservation, NoIdlePermit, SlotsAreCounted,
      StampHasOwner, semaphore

LEMMA SpawnInv ==
  ASSUME Inv, NEW r \in Request, Spawn(r) PROVE Inv'
<1> USE DEF Inv
<1>1. TypeOK' /\ Phases'
  BY DEF Spawn, TypeOK, Phases, HandlerState, WalkState, semaphore, metrics
<1>2. QueueIsWaiting'
  BY SameQueue DEF Spawn, TypeOK, QueueIsWaiting, HandlerState, semaphore
<1>3. Holders' = Holders /\ Slotted' = Slotted
  BY DEF Spawn, TypeOK, Holders, Slotted, HandlerState
<1>4. \A q \in Request : walk[q] = "clearing" => walk'[q] = "clearing"
  BY DEF Spawn, TypeOK, Phases, HandlerState
<1>5. StampHasOwner'
  BY <1>3, <1>4 DEF Spawn, StampHasOwner, metrics
<1> QED BY <1>1, <1>2, <1>3, <1>5
  DEF Spawn, PermitConservation, NoIdlePermit, SlotsAreCounted, semaphore, metrics

LEMMA ReturnInv ==
  ASSUME Inv, NEW r \in Request, Return(r) PROVE Inv'
<1> USE DEF Inv
<1>1. TypeOK' /\ Phases'
  BY DEF Return, TypeOK, Phases, HandlerState, WalkState, semaphore, metrics
<1>2. Holders' = Holders /\ Slotted' = Slotted
  BY DEF Return, TypeOK, Holders, Slotted
<1>3. \A q \in Request : walk[q] = "clearing" => walk'[q] = "clearing"
  BY DEF Return, TypeOK
<1> QED BY <1>1, <1>2, <1>3
  DEF Return, QueueIsWaiting, PermitConservation, NoIdlePermit, SlotsAreCounted,
      StampHasOwner, semaphore, metrics

(* Both ways a permit is given up free one unit or pass it to a waiter.     *)
LEMMA ReleaseConserves ==
  ASSUME Inv, NEW r \in Request, r \in Holders, r \notin Holders',
         available' \in Nat, walk' = walk \/ walk' = [walk EXCEPT ![r] = "permitFree"],
         \/ /\ available' = available + 1
            /\ \A s \in Request \ {r} : handler'[s] = handler[s]
         \/ \E s \in Request \ {r} :
              /\ handler[s] = "waiting" /\ handler'[s] = "granted"
              /\ available' = available
              /\ \A t \in Request \ {r, s} : handler'[t] = handler[t]
  PROVE  PermitConservation'
<1> USE DEF Inv
<1>1. \A t \in Request \ {r} : walk'[t] = walk[t]
  BY DEF TypeOK
<1>2. CASE available' = available + 1 /\ \A s \in Request \ {r} : handler'[s] = handler[s]
  <2>1. Holders' = Holders \ {r}
    BY <1>1, <1>2 DEF Holders
  <2>2. Cardinality(Holders \ {r}) = Cardinality(Holders) - 1
    BY HoldersAndSlots, FS_RemoveElement
  <2> QED BY <1>2, <2>1, <2>2, HoldersAndSlots DEF PermitConservation, TypeOK
<1>3. ASSUME NEW s \in Request \ {r}, handler[s] = "waiting", handler'[s] = "granted",
             available' = available,
             \A t \in Request \ {r, s} : handler'[t] = handler[t]
      PROVE  PermitConservation'
  <2>1. walk[s] = "none"
    BY <1>3 DEF Phases, HandlerState
  <2>2. s \notin Holders
    BY <1>3, <2>1 DEF Holders
  <2>3. Holders' = (Holders \ {r}) \cup {s}
    BY <1>1, <1>3 DEF Holders
  <2>4. /\ IsFiniteSet(Holders \ {r})
        /\ Cardinality(Holders \ {r}) = Cardinality(Holders) - 1
    BY HoldersAndSlots, FS_RemoveElement
  <2>5. Cardinality((Holders \ {r}) \cup {s}) = Cardinality(Holders \ {r}) + 1
    BY <2>2, <2>4, FS_AddElement
  <2> QED BY <1>3, <2>3, <2>4, <2>5, HoldersAndSlots DEF PermitConservation
<1> QED BY <1>2, <1>3

LEMMA DropPermitInv ==
  ASSUME Inv, NEW r \in Request, DropPermit(r) PROVE Inv'
<1> USE DEF Inv
<1>1. handler[r] \in HandlerState \ {"waiting"} /\ handler[r] \in {"awaiting", "gone"}
  BY DEF DropPermit, TypeOK, Phases, HandlerState
<1>2. /\ handler' \in [Request -> HandlerState]
      /\ queue' \in Seq(Request)
      /\ available' \in Nat
      /\ QueueIsWaiting'
      /\ NoIdlePermit'
      /\ \/ /\ queue = <<>>
            /\ available' = available + 1
            /\ handler' = [handler EXCEPT ![r] = handler[r]]
         \/ \E s \in Request \ {r} :
              /\ handler[s] = "waiting"
              /\ available' = available
              /\ handler' = [handler EXCEPT ![r] = handler[r], ![s] = "granted"]
  BY <1>1, Releasing DEF DropPermit
<1>3. \/ /\ available' = available + 1 /\ handler' = handler
      \/ \E s \in Request \ {r} : /\ handler[s] = "waiting"
                                  /\ available' = available
                                  /\ handler' = [handler EXCEPT ![s] = "granted"]
  BY <1>2 DEF TypeOK
<1>4. TypeOK'
  BY <1>2 DEF DropPermit, TypeOK, WalkState, metrics
<1>5. Phases'
  BY <1>1, <1>3 DEF DropPermit, TypeOK, Phases, HandlerState, WalkState
<1>6. PermitConservation'
  <2>1. r \in Holders
    BY DEF DropPermit, Holders
  <2>2. handler'[r] = handler[r] /\ walk'[r] = "permitFree"
    BY <1>1, <1>3 DEF DropPermit, TypeOK
  <2>3. r \notin Holders'
    BY <1>1, <2>2 DEF Holders
  <2>4. \/ /\ available' = available + 1
           /\ \A s \in Request \ {r} : handler'[s] = handler[s]
        \/ \E s \in Request \ {r} :
             /\ handler[s] = "waiting" /\ handler'[s] = "granted"
             /\ available' = available
             /\ \A t \in Request \ {r, s} : handler'[t] = handler[t]
    BY <1>3 DEF TypeOK
  <2> QED BY <1>2, <2>1, <2>3, <2>4, ReleaseConserves DEF DropPermit
<1>7. Slotted' = Slotted
  BY <1>3 DEF DropPermit, TypeOK, Slotted
<1>8. SlotsAreCounted' /\ StampHasOwner'
  BY <1>7 DEF DropPermit, TypeOK, SlotsAreCounted, StampHasOwner, metrics
<1> QED BY <1>2, <1>4, <1>5, <1>6, <1>8

LEMMA CountOutInv ==
  ASSUME Inv, NEW r \in Request, CountOut(r) PROVE Inv'
<1> USE DEF Inv
<1>1. r \in Slotted
  BY DEF CountOut, Slotted
<1>2. Slotted' = Slotted \ {r}
  BY DEF CountOut, TypeOK, Phases, Slotted, HandlerState
<1>3. inFlight \in Nat \ {0} /\ inFlight - 1 = Cardinality(Slotted \ {r})
  BY <1>1, HoldersAndSlots, FS_RemoveElement, FS_EmptySet DEF SlotsAreCounted
<1>4. TypeOK' /\ Phases'
  BY <1>3 DEF CountOut, TypeOK, Phases, HandlerState, WalkState, semaphore
<1>5. Holders' = Holders
  BY DEF CountOut, TypeOK, Holders
<1>6. SlotsAreCounted'
  BY <1>2, <1>3 DEF CountOut, SlotsAreCounted
<1>7. StampHasOwner'
  <2>1. CASE inFlight = 1
    BY <2>1 DEF CountOut, TypeOK, StampHasOwner
  <2>2. CASE inFlight # 1
    <3>1. Slotted \ {r} # {}
      BY <1>3, <2>2, FS_EmptySet
    <3> QED BY <1>2, <3>1 DEF StampHasOwner, Slotted
  <2> QED BY <2>1, <2>2
<1> QED BY <1>4, <1>5, <1>6, <1>7
  DEF CountOut, QueueIsWaiting, PermitConservation, NoIdlePermit, semaphore

LEMMA ClearOldestInv ==
  ASSUME Inv, NEW r \in Request, ClearOldest(r) PROVE Inv'
<1> USE DEF Inv
<1>1. TypeOK' /\ Phases'
  BY DEF ClearOldest, TypeOK, Phases, HandlerState, WalkState, semaphore
<1>2. Holders' = Holders /\ Slotted' = Slotted
  BY DEF ClearOldest, TypeOK, Holders, Slotted
<1> QED BY <1>1, <1>2
  DEF ClearOldest, QueueIsWaiting, PermitConservation, NoIdlePermit,
      SlotsAreCounted, StampHasOwner, semaphore

LEMMA ReplyInv ==
  ASSUME Inv, NEW r \in Request, Answer(r) \/ Deadline(r) PROVE Inv'
<1> USE DEF Inv
<1>1. \E c \in Codes : reply' = [reply EXCEPT ![r] = c]
  <2>1. CASE Answer(r)
    <3>1. outcome[r] \in {"ok", "err", "panic"}
      BY <2>1 DEF Answer, TypeOK, Phases, WalkState
    <3>2. StatusOf(outcome[r]) \in Codes
      BY <3>1 DEF StatusOf, Codes
    <3> QED BY <2>1, <3>2 DEF Answer
  <2>2. CASE Deadline(r)
    BY <2>2 DEF Deadline, Codes
  <2> QED BY <2>1, <2>2
<1>2. /\ handler[r] = "awaiting"
      /\ handler' = [handler EXCEPT ![r] = "gone"]
      /\ UNCHANGED <<walk, outcome, available, queue, inFlight, oldest>>
  BY DEF Answer, Deadline, semaphore, metrics
<1>3. TypeOK' /\ Phases'
  BY <1>1, <1>2 DEF TypeOK, Phases, HandlerState, WalkState
<1>4. QueueIsWaiting'
  BY <1>2, SameQueue DEF TypeOK, QueueIsWaiting, HandlerState
<1>5. Holders' = Holders /\ Slotted' = Slotted
  BY <1>2 DEF TypeOK, Holders, Slotted, HandlerState
<1> QED BY <1>2, <1>3, <1>4, <1>5
  DEF PermitConservation, NoIdlePermit, SlotsAreCounted, StampHasOwner

LEMMA DisconnectInv ==
  ASSUME Inv, NEW r \in Request, Disconnect(r) PROVE Inv'
<1> USE DEF Inv
<1>0. UNCHANGED <<walk, outcome, reply, inFlight, oldest>>
  BY DEF Disconnect, metrics
<1>1. CASE handler[r] = "waiting"
  <2>0. LeaveQueue(r) /\ handler' = [handler EXCEPT ![r] = "gone"] /\ available' = available
    BY <1>1 DEF Disconnect
  <2>1. queue' \in Seq(Request) /\ QueueIsWaiting'
    BY <1>1, <2>0, LeavingQueue
  <2>2. TypeOK' /\ Phases'
    BY <1>0, <1>1, <2>0, <2>1 DEF TypeOK, Phases, HandlerState, WalkState
  <2>3. Holders' = Holders /\ Slotted' = Slotted
    BY <1>0, <1>1, <2>0 DEF TypeOK, Holders, Slotted, HandlerState
  <2>4. available = 0
    <3>1. queue # <<>>
      BY <2>0, EmptySeq DEF LeaveQueue
    <3> QED BY <3>1 DEF NoIdlePermit
  <2> QED BY <1>0, <2>0, <2>1, <2>2, <2>3, <2>4
    DEF PermitConservation, NoIdlePermit, SlotsAreCounted, StampHasOwner
<1>2. CASE handler[r] = "granted"
  <2>0. Release(r, "gone")
    BY <1>2 DEF Disconnect
  <2>1. "gone" \in HandlerState \ {"waiting"}
    BY DEF HandlerState
  <2>2. /\ handler' \in [Request -> HandlerState]
        /\ queue' \in Seq(Request)
        /\ available' \in Nat
        /\ QueueIsWaiting'
        /\ NoIdlePermit'
        /\ \/ /\ queue = <<>>
              /\ available' = available + 1
              /\ handler' = [handler EXCEPT ![r] = "gone"]
           \/ \E s \in Request \ {r} :
                /\ handler[s] = "waiting"
                /\ available' = available
                /\ handler' = [handler EXCEPT ![r] = "gone", ![s] = "granted"]
    BY <1>2, <2>0, <2>1, Releasing
  <2>3. TypeOK'
    BY <1>0, <2>2 DEF TypeOK
  <2>4. handler'[r] = "gone" /\ walk[r] = "none"
    BY <1>2, <2>2 DEF TypeOK, Phases, HandlerState
  <2>5. \/ /\ available' = available + 1
           /\ \A s \in Request \ {r} : handler'[s] = handler[s]
        \/ \E s \in Request \ {r} :
             /\ handler[s] = "waiting" /\ handler'[s] = "granted"
             /\ available' = available
             /\ \A t \in Request \ {r, s} : handler'[t] = handler[t]
    BY <2>2 DEF TypeOK
  <2>6. Phases'
    BY <1>0, <2>4, <2>5 DEF TypeOK, Phases, HandlerState, WalkState
  <2>7. PermitConservation'
    <3>1. r \in Holders /\ r \notin Holders'
      BY <1>0, <1>2, <2>4 DEF Holders
    <3> QED BY <1>0, <2>2, <2>5, <3>1, ReleaseConserves
  <2>8. Slotted' = Slotted
    BY <1>0, <1>2, <2>4, <2>5 DEF Slotted
  <2>9. SlotsAreCounted' /\ StampHasOwner'
    BY <1>0, <2>8 DEF SlotsAreCounted, StampHasOwner
  <2> QED BY <2>2, <2>3, <2>6, <2>7, <2>9
<1>3. CASE handler[r] = "awaiting"
  <2>0. handler' = [handler EXCEPT ![r] = "gone"] /\ UNCHANGED <<available, queue>>
    BY <1>3 DEF Disconnect, semaphore
  <2>1. TypeOK' /\ Phases'
    BY <1>0, <1>3, <2>0 DEF TypeOK, Phases, HandlerState, WalkState
  <2>2. QueueIsWaiting'
    BY <1>3, <2>0, SameQueue DEF TypeOK, QueueIsWaiting, HandlerState
  <2>3. Holders' = Holders /\ Slotted' = Slotted
    BY <1>0, <1>3, <2>0 DEF TypeOK, Holders, Slotted, HandlerState
  <2> QED BY <1>0, <2>0, <2>1, <2>2, <2>3
    DEF PermitConservation, NoIdlePermit, SlotsAreCounted, StampHasOwner
<1> QED BY <1>1, <1>2, <1>3 DEF Disconnect

LEMMA NextInv == Inv /\ [Next]_vars => Inv'
<1> SUFFICES ASSUME Inv, [Next]_vars PROVE Inv'
  OBVIOUS
<1>1. CASE UNCHANGED vars
  <2>1. Holders' = Holders /\ Slotted' = Slotted
    BY <1>1 DEF vars, Holders, Slotted
  <2> QED BY <1>1, <2>1
    DEF vars, Inv, TypeOK, QueueIsWaiting, Phases, PermitConservation, NoIdlePermit,
        SlotsAreCounted, StampHasOwner
<1>2. ASSUME NEW r \in Request, HandlerStep(r) PROVE Inv'
  BY <1>2, GrantedInv, AcquireTimeoutInv, CountInInv, StoreOldestInv, SpawnInv, ReplyInv
  DEF HandlerStep
<1>3. ASSUME NEW r \in Request, UnwindStep(r) PROVE Inv'
  BY <1>3, DropPermitInv, CountOutInv, ClearOldestInv DEF UnwindStep
<1> QED BY <1>1, <1>2, <1>3, ArriveInv, DisconnectInv, ReturnInv DEF Next

THEOREM InvariantHolds == Spec => []Inv
<1>1. Spec => Init /\ [][Next]_vars
  BY DEF Spec
<1> QED BY <1>1, InitInv, NextInv, PTL

-----------------------------------------------------------------------------
(* The results.                                                             *)

(* Every variable keeps its type; in particular in_flight, which the code   *)
(* decrements without a test, never goes below zero.                        *)
THEOREM TypeCorrect == Spec => []TypeOK
BY InvariantHolds, PTL DEF Inv

(* Whatever waits, times out, disconnects or panics, permits on the counter *)
(* and permits owned add up to the pool size.                               *)
THEOREM PermitsAreConserved == Spec => []PermitConservation
BY InvariantHolds, PTL DEF Inv

(* No request waits beside a free permit.                                   *)
THEOREM NoPermitIdles == Spec => []NoIdlePermit
BY InvariantHolds, PTL DEF Inv

(* The metrics never report fewer walks than are running.                   *)
THEOREM RunningWalksAreCounted == Spec => []RunningAreCounted
<1>1. Inv => RunningAreCounted
  <2>1. Running \in SUBSET Slotted
    BY DEF Running, Slotted
  <2>2. Cardinality(Running) <= Cardinality(Slotted)
    BY <2>1, HoldersAndSlots, FS_Subset
  <2> QED BY <2>2 DEF Inv, SlotsAreCounted, RunningAreCounted
<1> QED BY <1>1, InvariantHolds, PTL

(* The metrics come back to zero whenever no walk is left.                  *)
THEOREM MetricsComeToRest == Spec => []QuietMetrics
<1>1. Inv => QuietMetrics
  <2>1. SUFFICES ASSUME Inv, Quiet PROVE inFlight = 0 /\ oldest = None
    BY DEF QuietMetrics
  <2>2. Slotted = {}
    BY <2>1 DEF Quiet, Slotted
  <2>3. inFlight = 0
    BY <2>1, <2>2, FS_EmptySet DEF Inv, SlotsAreCounted
  <2>4. \A r \in Request : walk[r] # "clearing"
    BY <2>1 DEF Quiet
  <2> QED BY <2>1, <2>2, <2>3, <2>4 DEF Inv, StampHasOwner
<1> QED BY <1>1, InvariantHolds, PTL

-----------------------------------------------------------------------------
(* The refinement. `ran` is the set of requests whose closure was spawned.  *)

Ran == {r \in Request : walk[r] # "none"}

LEMMA InitRefines == Init => Pool!PoolInit
BY DEF Init, Pool!PoolInit, Holders

(* A permit given up on the way is either given back or handed over.        *)
LEMMA ReleaseRefines ==
  ASSUME Inv, NEW r \in Request, r \in Holders, r \notin Holders',
         NEW h \in HandlerState \ {"waiting"}, handler[r] # "waiting",
         Release(r, h), reply' = reply,
         \A t \in Request \ {r} : walk'[t] = walk[t],
         walk'[r] = "none" <=> walk[r] = "none"
  PROVE  Pool!PoolNext
<1>0. UNCHANGED Ran
  BY DEF Ran
<1>1. \/ /\ queue = <<>>
         /\ available' = available + 1
         /\ handler' = [handler EXCEPT ![r] = h]
      \/ \E s \in Request \ {r} :
           /\ handler[s] = "waiting"
           /\ available' = available
           /\ handler' = [handler EXCEPT ![r] = h, ![s] = "granted"]
  BY Releasing DEF Inv
<1>2. CASE handler' = [handler EXCEPT ![r] = h]
  <2>1. Holders' = Holders \ {r}
    BY <1>2 DEF Inv, TypeOK, Holders
  <2>2. Pool!GiveBack(r)
    BY <1>0, <2>1 DEF Pool!GiveBack, Ran
  <2> QED BY <2>2 DEF Pool!PoolNext
<1>3. ASSUME NEW s \in Request \ {r}, handler[s] = "waiting",
             handler' = [handler EXCEPT ![r] = h, ![s] = "granted"]
      PROVE  Pool!PoolNext
  <2>1. walk[s] = "none" /\ reply[s] = "none"
    BY <1>3 DEF Inv, TypeOK, Phases, HandlerState
  <2>2. Holders' = (Holders \ {r}) \cup {s}
    BY <1>3, <2>1 DEF Inv, TypeOK, Holders
  <2>3. s \notin Holders \cup Ran
    BY <1>3, <2>1 DEF Holders, Ran
  <2>4. Pool!HandOver(r, s)
    BY <1>0, <2>1, <2>2, <2>3 DEF Pool!HandOver, Ran
  <2> QED BY <2>4 DEF Pool!PoolNext
<1> QED BY <1>1, <1>2, <1>3

LEMMA StepRefines == Inv /\ [Next]_vars => [Pool!PoolNext]_(Pool!poolVars)
<1> SUFFICES ASSUME Inv, [Next]_vars PROVE Pool!PoolNext \/ UNCHANGED Pool!poolVars
  OBVIOUS
<1> DEFINE Stutter == Holders' = Holders /\ Ran' = Ran /\ reply' = reply
<1>0. Stutter => UNCHANGED Pool!poolVars
  BY DEF Pool!poolVars, Ran
<1>1. CASE UNCHANGED vars
  BY <1>0, <1>1 DEF vars, Holders, Ran
<1>2. ASSUME NEW r \in Request, Arrive(r) PROVE Pool!PoolNext \/ Stutter
  <2>0. walk[r] = "none" /\ reply[r] = "none" /\ r \notin Holders \cup Ran /\ Ran' = Ran
    BY <1>2 DEF Arrive, Inv, TypeOK, Phases, HandlerState, Holders, Ran
  <2>1. CASE available > 0
    <3>1. Holders' = Holders \cup {r}
      BY <1>2, <2>1 DEF Arrive, Inv, TypeOK, Holders
    <3>2. Cardinality(Holders) < Permits
      BY <2>1, HoldersAndSlots, PermitsAssumption DEF Inv, TypeOK, PermitConservation
    <3>3. Pool!Cardinality(Holders) = Cardinality(Holders)
      BY Zenon DEF Pool!Cardinality, Cardinality, Pool!IsFiniteSet, IsFiniteSet
    <3>4. Pool!Admit(r)
      BY <1>2, <2>0, <3>1, <3>2, <3>3 DEF Pool!Admit, Arrive, Ran
    <3> QED BY <3>4 DEF Pool!PoolNext
  <2>2. CASE ~(available > 0)
    <3>1. Holders' = Holders
      BY <1>2, <2>0, <2>2 DEF Arrive, Inv, TypeOK, Holders
    <3> QED BY <1>2, <2>0, <3>1 DEF Arrive
  <2> QED BY <2>1, <2>2
<1>3. ASSUME NEW r \in Request, Granted(r) \/ CountIn(r) \/ StoreOldest(r) PROVE Stutter
  BY <1>3 DEF Granted, CountIn, StoreOldest, Inv, TypeOK, Holders, Ran
<1>4. ASSUME NEW r \in Request, Return(r) \/ CountOut(r) \/ ClearOldest(r) PROVE Stutter
  BY <1>4 DEF Return, CountOut, ClearOldest, Inv, TypeOK, Holders, Ran
<1>5. ASSUME NEW r \in Request, Spawn(r) PROVE Pool!PoolNext
  <2>1. walk[r] = "none" /\ reply[r] = "none" /\ r \in Holders \ Ran
    BY <1>5 DEF Spawn, Inv, TypeOK, Phases, HandlerState, Holders, Ran
  <2>2. Holders' = Holders /\ Ran' = Ran \cup {r}
    BY <1>5, <2>1 DEF Spawn, Inv, TypeOK, Holders, Ran
  <2>3. Pool!StartWalk(r)
    BY <1>5, <2>1, <2>2 DEF Pool!StartWalk, Spawn, Ran
  <2> QED BY <2>3 DEF Pool!PoolNext
<1>6. ASSUME NEW r \in Request, AcquireTimeout(r) PROVE Pool!PoolNext
  <2>1. walk[r] = "none" /\ reply[r] = "none" /\ r \notin Holders \cup Ran
    BY <1>6 DEF AcquireTimeout, Inv, TypeOK, Phases, HandlerState, Holders, Ran
  <2>2. Holders' = Holders /\ Ran' = Ran /\ reply' = [reply EXCEPT ![r] = "503"]
    BY <1>6 DEF AcquireTimeout, Inv, TypeOK, Holders, Ran
  <2>3. Pool!Respond(r, "503")
    BY <2>1, <2>2 DEF Pool!Respond, Ran
  <2> QED BY <2>3 DEF Pool!PoolNext
<1>7. ASSUME NEW r \in Request, Deadline(r) PROVE Pool!PoolNext
  <2>1. reply[r] = "none" /\ r \in Ran
    BY <1>7 DEF Deadline, Inv, TypeOK, Phases, HandlerState, Ran
  <2>2. Holders' = Holders /\ Ran' = Ran /\ reply' = [reply EXCEPT ![r] = "504"]
    BY <1>7 DEF Deadline, Inv, TypeOK, Holders, Ran
  <2>3. Pool!Respond(r, "504")
    BY <2>1, <2>2 DEF Pool!Respond, Ran
  <2> QED BY <2>3 DEF Pool!PoolNext
<1>8. ASSUME NEW r \in Request, Answer(r) PROVE Pool!PoolNext
  <2>1. reply[r] = "none" /\ r \in Ran /\ r \notin Holders
    BY <1>8 DEF Answer, Inv, TypeOK, Phases, HandlerState, Ran, Holders
  <2>2. StatusOf(outcome[r]) \in {"200", "400", "500"}
    <3>1. outcome[r] \in {"ok", "err", "panic"}
      BY <1>8 DEF Answer, Inv, TypeOK, Phases, WalkState
    <3> QED BY <3>1 DEF StatusOf
  <2>3. /\ Holders' = Holders /\ Ran' = Ran
        /\ reply' = [reply EXCEPT ![r] = StatusOf(outcome[r])]
    BY <1>8 DEF Answer, Inv, TypeOK, Holders, Ran
  <2>4. Pool!Respond(r, StatusOf(outcome[r]))
    BY <2>1, <2>2, <2>3 DEF Pool!Respond, Ran
  <2> QED BY <2>2, <2>4 DEF Pool!PoolNext
<1>9. ASSUME NEW r \in Request, DropPermit(r) PROVE Pool!PoolNext
  <2>1. handler[r] \in HandlerState \ {"waiting"} /\ handler[r] \in {"awaiting", "gone"}
    BY <1>9 DEF DropPermit, Inv, TypeOK, Phases, HandlerState
  <2>2. /\ r \in Holders /\ walk'[r] = "permitFree" /\ walk[r] = "returned"
        /\ \A t \in Request \ {r} : walk'[t] = walk[t]
    BY <1>9 DEF DropPermit, Inv, TypeOK, Holders
  <2>3. handler'[r] = handler[r]
    BY <1>9, <2>1, Releasing DEF DropPermit, Inv, TypeOK
  <2>4. r \notin Holders'
    BY <2>1, <2>2, <2>3 DEF Holders
  <2> QED BY <1>9, <2>1, <2>2, <2>4, ReleaseRefines DEF DropPermit
<1>10. ASSUME NEW r \in Request, Disconnect(r) PROVE Pool!PoolNext \/ Stutter
  <2>1. CASE handler[r] = "granted"
    <3>1. Release(r, "gone") /\ walk' = walk /\ reply' = reply
      BY <1>10, <2>1 DEF Disconnect
    <3>2. "gone" \in HandlerState \ {"waiting"} /\ walk[r] = "none" /\ r \in Holders
      BY <2>1 DEF Inv, TypeOK, Phases, HandlerState, Holders
    <3>3. handler'[r] = "gone"
      BY <2>1, <3>1, <3>2, Releasing DEF Inv, TypeOK
    <3>4. r \notin Holders'
      BY <3>1, <3>2, <3>3 DEF Holders
    <3> QED BY <2>1, <3>1, <3>2, <3>4, ReleaseRefines
  <2>2. CASE handler[r] # "granted"
    BY <1>10, <2>2 DEF Disconnect, Inv, TypeOK, Holders, Ran
  <2> QED BY <2>1, <2>2
<1> QED BY <1>0, <1>1, <1>2, <1>3, <1>4, <1>5, <1>6, <1>7, <1>8, <1>9, <1>10
  DEF Next, HandlerStep, UnwindStep

(* The guard is a bounded pool with truthful answers: at most Permits walks *)
(* own a unit, a 503 never ran, a 504 ran, any other answer ran to its end. *)
THEOREM GuardImplementsPool == Spec => PoolSpec
<1>1. Spec => Init /\ [][Next]_vars
  BY DEF Spec
<1> QED BY <1>1, InvariantHolds, InitRefines, StepRefines, PTL DEF PoolSpec, Pool!PoolSpec
=============================================================================
