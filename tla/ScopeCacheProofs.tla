-------------------------- MODULE ScopeCacheProofs --------------------------
(***************************************************************************)
(* What ScopeCache guarantees for any number of searches, files, stamps and  *)
(* contents.                                                                *)
(***************************************************************************)
EXTENDS ScopeCache, TLAPS

(* A search that works on a file has its key, and has seen what the file     *)
(* holds now.                                                               *)
Busy == {r \in Client : pc[r] \notin Idle}

SeesTheDisk == \A r \in Busy : key[r] \in Key /\ content[key[r][1]] \in seen[r]

(* Any value on its way into the cache is known to every search that may     *)
(* receive it.                                                              *)
LoadsAreKnown ==
  \A q \in Client, r \in Busy :
    pc[q] = "insert" /\ key[q] = key[r] => held[q] \in seen[r] \/ sharing[r]

(* What try_get_with would find now is known to the search about to call it. *)
EntriesAreKnown ==
  \A r \in Client :
    pc[r] = "load" /\ Cached(key[r]) => entries[key[r]] \in seen[r] \/ sharing[r]

Inv == /\ TypeOK
       /\ SeesTheDisk
       /\ LoadsAreKnown
       /\ EntriesAreKnown
       /\ StaleOnlyWhenSharing

LEMMA KeyShape == ASSUME NEW k \in Key PROVE k[1] \in File /\ k[2] \in Stamp
BY KeyAssumption

LEMMA KeyMade == ASSUME NEW f \in File, NEW s \in Stamp
                 PROVE  <<f, s>> \in Key /\ <<f, s>>[1] = f
BY KeyAssumption

LEMMA InitInv == Init => Inv
<1> SUFFICES ASSUME Init PROVE Inv
  OBVIOUS
<1>1. TypeOK
  BY ContentAssumption DEF Init, InitCache, TypeOK, Steps
<1>2. \A r \in Client : pc[r] = "walk"
  BY DEF Init
<1> QED BY <1>1, <1>2
  DEF Inv, SeesTheDisk, LoadsAreKnown, EntriesAreKnown, StaleOnlyWhenSharing, Busy, Answered, Idle

-----------------------------------------------------------------------------
(* One lemma per action.                                                    *)

LEMMA EditInv == ASSUME Inv, NEW f \in File, Edit(f) PROVE Inv'
<1>1. PICK c \in Content \cup {Missing}, s \in Stamp :
        /\ content' = [content EXCEPT ![f] = c]
        /\ stamp' = [stamp EXCEPT ![f] = s]
        /\ seen' = [r \in Client |->
                      IF pc[r] \notin Idle /\ key[r][1] = f THEN seen[r] \cup {c}
                      ELSE seen[r]]
  BY DEF Edit
<1>2. entries' = entries /\ loader' = loader /\ pc' = pc /\ todo' = todo
      /\ key' = key /\ held' = held /\ sharing' = sharing
  BY DEF Edit
<1>3. TypeOK'
  BY <1>1, <1>2 DEF Inv, TypeOK
<1>4. \A r \in Client : seen[r] \subseteq seen'[r]
  BY <1>1
<1>5. SeesTheDisk'
  <2>1. SUFFICES ASSUME NEW r \in Busy PROVE key[r] \in Key /\ content'[key[r][1]] \in seen'[r]
    BY <1>2 DEF SeesTheDisk, Busy
  <2>2. r \in Client /\ pc[r] \notin Idle /\ key[r] \in Key /\ content[key[r][1]] \in seen[r]
    BY DEF Inv, SeesTheDisk, Busy
  <2>3. key[r][1] \in File
    BY <2>2, KeyShape
  <2> QED BY <1>1, <2>2, <2>3 DEF Inv, TypeOK
<1>6. LoadsAreKnown'
  BY <1>2, <1>4 DEF Inv, LoadsAreKnown, Busy
<1>7. EntriesAreKnown'
  BY <1>2, <1>4 DEF Inv, EntriesAreKnown, Cached
<1>8. StaleOnlyWhenSharing'
  BY <1>2, <1>4 DEF Inv, StaleOnlyWhenSharing, Answered
<1> QED BY <1>3, <1>5, <1>6, <1>7, <1>8 DEF Inv

LEMMA StatInv == ASSUME Inv, NEW r \in Client, Stat(r) PROVE Inv'
<1>1. PICK f \in todo[r] :
        /\ todo' = [todo EXCEPT ![r] = @ \ {f}]
        /\ IF content[f] = Missing
           THEN UNCHANGED <<pc, key, seen, sharing>>
           ELSE /\ At(r, "lookup")
                /\ key' = [key EXCEPT ![r] = <<f, stamp[f]>>]
                /\ seen' = [seen EXCEPT ![r] = {content[f]}]
                /\ sharing' = [sharing EXCEPT ![r] =
                     \E q \in Client : pc[q] = "insert" /\ key[q] = <<f, stamp[f]>>]
  BY DEF Stat
<1>2. pc[r] = "walk" /\ entries' = entries /\ loader' = loader /\ content' = content
      /\ stamp' = stamp /\ held' = held
  BY DEF Stat
<1>3. f \in File
  BY DEF Inv, TypeOK
<1>4. <<f, stamp[f]>> \in Key /\ <<f, stamp[f]>>[1] = f
  BY <1>3, KeyMade DEF Inv, TypeOK
<1>5. CASE content[f] = Missing
  <2>1. pc' = pc /\ key' = key /\ seen' = seen /\ sharing' = sharing
    BY <1>1, <1>5
  <2>2. TypeOK'
    BY <1>1, <1>2, <2>1 DEF Inv, TypeOK
  <2> QED BY <1>2, <2>1, <2>2 DEF Inv, SeesTheDisk, LoadsAreKnown, EntriesAreKnown,
             StaleOnlyWhenSharing, Busy, Answered, Cached
<1>6. CASE content[f] # Missing
  <2>1. /\ pc' = [pc EXCEPT ![r] = "lookup"]
        /\ key' = [key EXCEPT ![r] = <<f, stamp[f]>>]
        /\ seen' = [seen EXCEPT ![r] = {content[f]}]
        /\ sharing' = [sharing EXCEPT ![r] =
             \E q \in Client : pc[q] = "insert" /\ key[q] = <<f, stamp[f]>>]
    BY <1>1, <1>6 DEF At
  <2>2. TypeOK'
    <3>1. pc' \in [Client -> Steps] /\ key' \in [Client -> Key \cup {None}]
      BY <1>4, <2>1 DEF Inv, TypeOK, Steps
    <3>2. seen' \in [Client -> SUBSET (Content \cup {Missing})]
      BY <1>3, <2>1 DEF Inv, TypeOK
    <3>3. sharing' \in [Client -> BOOLEAN]
      BY <2>1 DEF Inv, TypeOK
    <3> QED BY <1>1, <1>2, <3>1, <3>2, <3>3 DEF Inv, TypeOK
  <2>3. \A q \in Client : q # r =>
          pc'[q] = pc[q] /\ key'[q] = key[q] /\ seen'[q] = seen[q] /\ sharing'[q] = sharing[q]
    BY <2>1 DEF Inv, TypeOK
  <2>4. /\ pc'[r] = "lookup"
        /\ key'[r] = <<f, stamp[f]>>
        /\ seen'[r] = {content[f]}
        /\ sharing'[r] = \E q \in Client : pc[q] = "insert" /\ key[q] = <<f, stamp[f]>>
    BY <2>1 DEF Inv, TypeOK
  <2>5. SeesTheDisk'
    BY <1>2, <1>4, <2>3, <2>4 DEF Inv, SeesTheDisk, Busy
  <2>6. LoadsAreKnown'
    <3>1. SUFFICES ASSUME NEW q \in Client, NEW p \in Client, pc'[p] \notin Idle,
                          pc'[q] = "insert", key'[q] = key'[p]
                   PROVE  held[q] \in seen'[p] \/ sharing'[p]
      BY <1>2 DEF LoadsAreKnown, Busy
    <3>2. q # r /\ pc[q] = "insert" /\ key'[q] = key[q]
      BY <2>3, <2>4, <3>1
    <3>3. CASE p = r
      BY <2>4, <3>1, <3>2, <3>3
    <3>4. CASE p # r
      BY <2>3, <3>1, <3>2, <3>4 DEF Inv, LoadsAreKnown, Busy
    <3> QED BY <3>3, <3>4
  <2>7. EntriesAreKnown'
    BY <1>2, <2>3, <2>4 DEF Inv, EntriesAreKnown, Cached
  <2>8. StaleOnlyWhenSharing'
    BY <1>2, <2>3, <2>4 DEF Inv, StaleOnlyWhenSharing, Answered
  <2> QED BY <2>2, <2>5, <2>6, <2>7, <2>8 DEF Inv
<1> QED BY <1>5, <1>6

(* The steps that only move r on and change what it holds.                  *)
LEMMA HoldInv ==
  ASSUME Inv, NEW r \in Client, pc[r] \notin Idle,
         NEW v \in Content \cup {Missing, None}, NEW step \in Steps,
         pc' = [pc EXCEPT ![r] = step], held' = [held EXCEPT ![r] = v],
         UNCHANGED <<entries, content, stamp, todo, key, seen, sharing>>,
         loader' \in [Key -> Client \cup {None}],
         step = "insert" => v = content[key[r][1]],
         step = "load" => ~Cached(key[r]) \/ pc[r] = "load",
         step \in {"match", "failed"} => v \in seen[r] \/ Missing \in seen[r] \/ sharing[r]
  PROVE  Inv'
<1>1. \A q \in Client : pc'[q] = (IF q = r THEN step ELSE pc[q])
                        /\ held'[q] = (IF q = r THEN v ELSE held[q])
  BY DEF Inv, TypeOK
<1>2. TypeOK'
  BY DEF Inv, TypeOK
<1>3. \A q \in Client : pc'[q] \notin Idle => pc[q] \notin Idle
  BY <1>1
<1>4. SeesTheDisk'
  BY <1>3 DEF Inv, SeesTheDisk, Busy
<1>5. LoadsAreKnown'
  <2>1. SUFFICES ASSUME NEW q \in Client, NEW p \in Client, pc'[p] \notin Idle,
                        pc'[q] = "insert", key[q] = key[p]
                 PROVE  held'[q] \in seen[p] \/ sharing[p]
    BY DEF LoadsAreKnown, Busy
  <2>2. CASE q = r
    BY <1>1, <1>3, <2>1, <2>2 DEF Inv, SeesTheDisk, Busy
  <2>3. CASE q # r
    BY <1>1, <1>3, <2>1, <2>3 DEF Inv, LoadsAreKnown, Busy
  <2> QED BY <2>2, <2>3
<1>6. EntriesAreKnown'
  BY <1>1 DEF Inv, EntriesAreKnown, Cached
<1>7. StaleOnlyWhenSharing'
  BY <1>1 DEF Inv, StaleOnlyWhenSharing, Answered
<1> QED BY <1>2, <1>4, <1>5, <1>6, <1>7 DEF Inv

LEMMA LookupInv == ASSUME Inv, NEW r \in Client, Lookup(r) PROVE Inv'
<1>1. pc[r] = "lookup" /\ key[r] \in Key
  BY DEF Lookup, Inv, SeesTheDisk, Busy, Idle
<1>2. entries[key[r]] \in Content \cup {Missing, None}
  BY <1>1 DEF Inv, TypeOK
<1>3. CASE Cached(key[r])
  BY <1>1, <1>2, <1>3, HoldInv DEF Lookup, At, Idle, Steps, Inv, TypeOK
<1>4. CASE ~Cached(key[r])
  BY <1>1, <1>2, <1>4, HoldInv DEF Lookup, At, Idle, Steps, Inv, TypeOK
<1> QED BY <1>3, <1>4

LEMMA VerifyInv == ASSUME Inv, NEW r \in Client, Verify(r) PROVE Inv'
<1>1. pc[r] = "verify" /\ pc[r] \notin Idle /\ content[key[r][1]] \in seen[r]
  BY DEF Verify, Inv, SeesTheDisk, Busy, Idle
<1>2. held[r] \in Content \cup {Missing, None} /\ held' = [held EXCEPT ![r] = held[r]]
  BY DEF Verify, Inv, TypeOK
<1>3. loader' \in [Key -> Client \cup {None}]
  BY DEF Verify, Inv, TypeOK
<1>4. CASE content[key[r][1]] \in {held[r], Missing}
  <2>1. pc' = [pc EXCEPT ![r] = "match"]
    BY <1>4 DEF Verify, At
  <2>2. held[r] \in seen[r] \/ Missing \in seen[r]
    BY <1>1, <1>4
  <2> QED BY <1>1, <1>2, <1>3, <2>1, <2>2, HoldInv DEF Verify, Steps
<1>5. CASE content[key[r][1]] \notin {held[r], Missing}
  <2>1. pc' = [pc EXCEPT ![r] = "evict"]
    BY <1>5 DEF Verify, At
  <2> QED BY <1>1, <1>2, <1>3, <2>1, HoldInv DEF Verify, Steps
<1> QED BY <1>4, <1>5

LEMMA ReadInv == ASSUME Inv, NEW r \in Client, Read(r) PROVE Inv'
<1>1. pc[r] = "read" /\ pc[r] \notin Idle /\ key[r] \in Key
  BY DEF Read, Inv, SeesTheDisk, Busy, Idle
<1>2. content[key[r][1]] \in Content \cup {Missing, None}
  BY <1>1, KeyShape DEF Inv, TypeOK
<1>3. loader' \in [Key -> Client \cup {None}]
  BY DEF Read, Inv, TypeOK
<1> QED BY <1>1, <1>2, <1>3, HoldInv DEF Read, At, Steps

LEMMA LoadInv == ASSUME Inv, NEW r \in Client, Load(r) PROVE Inv'
<1>1. pc[r] = "load" /\ pc[r] \notin Idle /\ key[r] \in Key
  BY DEF Load, Inv, SeesTheDisk, Busy, Idle
<1>2. UNCHANGED <<entries, content, stamp, todo, key, seen, sharing>>
  BY DEF Load, cacheVars, BeginLoad
<1>3. held[r] \in Content \cup {Missing, None} /\ held = [held EXCEPT ![r] = held[r]]
  BY DEF Inv, TypeOK
<1>4. loader' \in [Key -> Client \cup {None}]
  BY <1>1 DEF Load, cacheVars, BeginLoad, Inv, TypeOK
<1>5. CASE Cached(key[r]) /\ held' = [held EXCEPT ![r] = entries[key[r]]] /\ At(r, "match")
  <2>1. entries[key[r]] \in Content \cup {Missing, None}
    BY <1>1 DEF Inv, TypeOK
  <2>2. entries[key[r]] \in seen[r] \/ sharing[r]
    BY <1>1, <1>5 DEF Inv, EntriesAreKnown
  <2> QED BY <1>1, <1>2, <1>4, <1>5, <2>1, <2>2, HoldInv DEF At, Steps
<1>6. CASE At(r, "read") /\ held' = held
  BY <1>1, <1>2, <1>3, <1>4, <1>6, HoldInv DEF At, Steps
<1>7. CASE At(r, "wait") /\ held' = held
  BY <1>1, <1>2, <1>3, <1>4, <1>7, HoldInv DEF At, Steps
<1> QED BY <1>5, <1>6, <1>7 DEF Load

(* The cache loses an entry.                                                *)
LEMMA InvalidateInv == ASSUME Inv, NEW k \in Key, Invalidate(k),
                              UNCHANGED <<content, stamp, todo, key, seen, sharing, pc, held>>
                       PROVE  Inv'
<1>1. TypeOK'
  BY DEF Invalidate, Inv, TypeOK
<1>2. EntriesAreKnown'
  BY DEF Invalidate, Inv, TypeOK, EntriesAreKnown, Cached
<1> QED BY <1>1, <1>2
  DEF Inv, SeesTheDisk, LoadsAreKnown, StaleOnlyWhenSharing, Busy, Answered

LEMMA EvictInv == ASSUME Inv, NEW r \in Client, Evict(r) PROVE Inv'
<1>1. pc[r] = "evict" /\ key[r] \in Key
  BY DEF Evict, Inv, SeesTheDisk, Busy, Idle
<1>2. /\ entries' = [entries EXCEPT ![key[r]] = None]
      /\ pc' = [pc EXCEPT ![r] = "load"]
      /\ held' = [held EXCEPT ![r] = None]
      /\ UNCHANGED <<loader, content, stamp, todo, key, seen, sharing>>
  BY DEF Evict, Invalidate, At
<1>3. \A q \in Client : /\ pc'[q] = (IF q = r THEN "load" ELSE pc[q])
                        /\ held'[q] = (IF q = r THEN None ELSE held[q])
  BY <1>2 DEF Inv, TypeOK
<1>4. TypeOK'
  BY <1>1, <1>2 DEF Inv, TypeOK, Steps
<1>5. \A q \in Client : pc'[q] \notin Idle => pc[q] \notin Idle
  BY <1>1, <1>3 DEF Idle
<1>6. SeesTheDisk'
  BY <1>2, <1>5 DEF Inv, SeesTheDisk, Busy
<1>7. LoadsAreKnown'
  BY <1>2, <1>3, <1>5 DEF Inv, LoadsAreKnown, Busy
<1>8. EntriesAreKnown'
  <2>1. SUFFICES ASSUME NEW q \in Client, pc'[q] = "load", entries'[key[q]] # None
                 PROVE  entries'[key[q]] \in seen[q] \/ sharing[q]
    BY <1>2 DEF EntriesAreKnown, Cached
  <2>2. pc'[q] \notin Idle
    BY <2>1 DEF Idle
  <2>3. key[q] \in Key
    BY <1>5, <2>2 DEF Inv, SeesTheDisk, Busy
  <2>4. key[q] # key[r] /\ entries'[key[q]] = entries[key[q]]
    BY <1>2, <2>1, <2>3 DEF Inv, TypeOK
  <2> QED BY <1>3, <2>1, <2>4 DEF Inv, EntriesAreKnown, Cached
<1>9. StaleOnlyWhenSharing'
  BY <1>2, <1>3 DEF Inv, StaleOnlyWhenSharing, Answered
<1> QED BY <1>4, <1>6, <1>7, <1>8, <1>9 DEF Inv

LEMMA InsertInv == ASSUME Inv, NEW r \in Client, Insert(r) PROVE Inv'
<1> DEFINE sharers == {r} \cup Waiting(key[r])
           next == IF held[r] = Missing THEN "failed" ELSE "match"
<1>1. /\ pc[r] = "insert"
      /\ pc' = [q \in Client |-> IF q \in sharers THEN next ELSE pc[q]]
      /\ held' = [q \in Client |-> IF q \in sharers THEN held[r] ELSE held[q]]
      /\ UNCHANGED <<content, stamp, todo, key, seen, sharing>>
  BY DEF Insert
<1>2. key[r] \in Key /\ held[r] \in Content \cup {Missing, None}
  BY <1>1 DEF Inv, TypeOK, SeesTheDisk, Busy, Idle
<1>3. \/ entries' = entries
      \/ entries' = [entries EXCEPT ![key[r]] = held[r]] /\ held[r] # Missing
  BY DEF Insert, FinishLoad, FailLoad
<1>4. loader' = [loader EXCEPT ![key[r]] = None]
  BY DEF Insert, FinishLoad, FailLoad
<1>5. \A q \in sharers : pc[q] \notin Idle /\ key[q] = key[r] /\ q \in Client
  BY <1>1 DEF Waiting, Idle
<1>6. \A q \in Client : pc'[q] \notin Idle => pc[q] \notin Idle
  BY <1>1, <1>5
<1>7. TypeOK'
  <2>1. pc' \in [Client -> Steps]
    BY <1>1 DEF Inv, TypeOK, Steps
  <2>2. held' \in [Client -> Content \cup {Missing, None}]
    BY <1>1, <1>2 DEF Inv, TypeOK
  <2>3. entries' \in [Key -> Content \cup {None}]
    BY <1>2, <1>3 DEF Inv, TypeOK
  <2>4. loader' \in [Key -> Client \cup {None}]
    BY <1>4 DEF Inv, TypeOK
  <2> QED BY <1>1, <2>1, <2>2, <2>3, <2>4 DEF Inv, TypeOK
<1>8. SeesTheDisk'
  BY <1>1, <1>6 DEF Inv, SeesTheDisk, Busy
<1>9. \A q \in Client : pc'[q] \in {"insert", "load"} => q \notin sharers /\ pc'[q] = pc[q] /\ held'[q] = held[q]
  BY <1>1
<1>10. LoadsAreKnown'
  BY <1>1, <1>6, <1>9 DEF Inv, LoadsAreKnown, Busy
<1>11. EntriesAreKnown'
  <2>1. SUFFICES ASSUME NEW q \in Client, pc[q] = "load", entries'[key[q]] # None
                 PROVE  entries'[key[q]] \in seen[q] \/ sharing[q]
    BY <1>1, <1>9 DEF EntriesAreKnown, Cached
  <2>2. q \in Busy /\ key[q] \in Key
    BY <2>1 DEF Busy, Idle, Inv, SeesTheDisk
  <2>3. CASE entries'[key[q]] = entries[key[q]]
    BY <2>1, <2>3 DEF Inv, EntriesAreKnown, Cached
  <2>4. CASE key[q] = key[r] /\ entries'[key[q]] = held[r]
    BY <1>1, <2>2, <2>4 DEF Inv, LoadsAreKnown
  <2> QED BY <1>2, <1>3, <2>2, <2>3, <2>4 DEF Inv, TypeOK
<1>12. StaleOnlyWhenSharing'
  <2>1. SUFFICES ASSUME NEW q \in Client, q \in sharers
                 PROVE  held[r] \in seen[q] \/ sharing[q]
    BY <1>1 DEF Inv, StaleOnlyWhenSharing, Answered
  <2> QED BY <1>1, <1>5, <2>1 DEF Inv, LoadsAreKnown, Busy
<1> QED BY <1>7, <1>8, <1>10, <1>11, <1>12 DEF Inv

(* The steps that end the work on a file.                                   *)
LEMMA RestInv ==
  ASSUME Inv, NEW r \in Client, NEW step \in {"walk", "done"},
         pc' = [pc EXCEPT ![r] = step],
         held' = held \/ held' = [held EXCEPT ![r] = None],
         UNCHANGED <<entries, loader, content, stamp, todo, key, seen, sharing>>
  PROVE  Inv'
<1>1. \A q \in Client : pc'[q] \notin Idle \/ pc'[q] \in {"match", "failed"} =>
                          q # r \/ pc'[q] \notin {"match", "failed", "insert", "load"}
  BY DEF Inv, TypeOK
<1>2. \A q \in Client : q # r => pc'[q] = pc[q] /\ held'[q] = held[q]
  BY DEF Inv, TypeOK
<1>3. pc'[r] = step
  BY DEF Inv, TypeOK
<1>4. TypeOK'
  BY DEF Inv, TypeOK, Steps
<1>5. SeesTheDisk'
  BY <1>2, <1>3 DEF Inv, SeesTheDisk, Busy, Idle
<1>6. LoadsAreKnown'
  BY <1>2, <1>3 DEF Inv, LoadsAreKnown, Busy, Idle
<1>7. EntriesAreKnown'
  BY <1>2, <1>3 DEF Inv, EntriesAreKnown, Cached
<1>8. StaleOnlyWhenSharing'
  BY <1>2, <1>3 DEF Inv, StaleOnlyWhenSharing, Answered
<1> QED BY <1>4, <1>5, <1>6, <1>7, <1>8 DEF Inv

-----------------------------------------------------------------------------

LEMMA NextInv == Inv /\ [Next]_vars => Inv'
<1> SUFFICES ASSUME Inv, [Next]_vars PROVE Inv'
  OBVIOUS
<1>1. CASE \E r \in Client : SearchStep(r)
  <2>1. PICK r \in Client : SearchStep(r)
    BY <1>1
  <2>2. CASE Match(r)
    BY <2>2, RestInv DEF Match, At
  <2>3. CASE Finish(r)
    BY <2>3, RestInv DEF Finish, At
  <2> QED BY <2>1, <2>2, <2>3, StatInv, LookupInv, VerifyInv, EvictInv, LoadInv, ReadInv,
             InsertInv DEF SearchStep
<1>2. CASE \E f \in File : Edit(f)
  BY <1>2, EditInv
<1>3. CASE \E k \in Key : Drop(k)
  <2>1. PICK k \in Key : Drop(k)
    BY <1>3
  <2> QED BY <2>1, InvalidateInv DEF Drop, Expire
<1>4. CASE UNCHANGED vars
  BY <1>4 DEF vars, Inv, TypeOK, SeesTheDisk, LoadsAreKnown, EntriesAreKnown, Busy, Cached,
     StaleOnlyWhenSharing, Answered
<1> QED BY <1>1, <1>2, <1>3, <1>4 DEF Next

THEOREM InvariantHolds == Spec => []Inv
BY InitInv, NextInv, PTL DEF Spec

(* Every variable keeps its type.                                           *)
THEOREM TypeCorrect == Spec => []TypeOK
BY InvariantHolds, PTL DEF Inv

(* The verified lookup serves a value, or an error, its file did not hold    *)
(* during the lookup only when it joined a load that had read the file       *)
(* before: for any number of searches, files, stamps and contents.          *)
THEOREM StaleOnlyThroughSharedLoads == Spec => []StaleOnlyWhenSharing
BY InvariantHolds, PTL DEF Inv
=============================================================================
