------------------------- MODULE DataflowCacheProofs -------------------------
(***************************************************************************)
(* What DataflowCache guarantees for any number of requests, files, edits    *)
(* and caps.                                                                *)
(*                                                                         *)
(* A request may get the result of another one, whose analysis may have read *)
(* a file after its fingerprint was taken, and after it was edited. The      *)
(* invariant FreshInv says why this is no harm: a value that goes with a     *)
(* stamp s is one that the file had under s or later (Known), and whoever    *)
(* has s in its own fingerprint was there when the file still had it.        *)
(***************************************************************************)
EXTENDS DataflowCache, FiniteSetTheorems, WellFoundedInduction, TLAPS

Steps == {"idle", "print", "load", "wait", "analyze", "probe", "insert", "done"}
Value == Counts \cup {None}
Results == [findings : [File -> Value], filesTruncated : BOOLEAN, early : BOOLEAN,
            failed : BOOLEAN, by : Client]

Types ==
  /\ entries \in [Key -> Results \cup {None}]
  /\ loader \in [Key -> Client \cup {None}]
  /\ disk \in [File -> [stamp : 1..MaxStamp, findings : Counts] \cup {None}]
  /\ clock \in 1..MaxStamp
  /\ pc \in [Client -> Steps]
  /\ pos \in [Client -> 0..NumFiles]
  /\ count \in [Client -> Nat]
  /\ print \in [Client -> Fingerprint]
  /\ found \in [Client -> [File -> Value]]
  /\ cut \in [Client -> BOOLEAN]
  /\ early \in [Client -> BOOLEAN]
  /\ failed \in [Client -> BOOLEAN]
  /\ was \in [Client -> [File -> SUBSET Value]]
  /\ response \in [Client -> Results \cup {None}]

(* The requests under way.                                                  *)
Busy == {r \in Client : pc[r] \notin {"idle", "done"}}

SeesTheDisk == \A r \in Busy, f \in File : FindingsOn(disk, f) \in was[r][f]

StampsAreOld == \A f \in File : disk[f] # None => disk[f].stamp <= clock

(* The stamps s and values v that go together for the file f: everyone who    *)
(* has s in its fingerprint has seen v, and if the file still has s, v is    *)
(* what it holds.                                                           *)
Known(f) ==
  {sv \in (1..MaxStamp) \X Counts :
     /\ sv[1] # None /\ sv[1] <= clock
     /\ \A r \in Busy : print[r][f] = sv[1] => sv[2] \in was[r][f]
     /\ disk[f] # None /\ disk[f].stamp = sv[1] => sv[2] = disk[f].findings}

FoundIsKnown ==
  \A q \in Client, f \in File :
    print[q][f] # None /\ found[q][f] # None => <<print[q][f], found[q][f]>> \in Known(f)
EntriesAreKnown ==
  \A k \in Key, f \in File :
    Cached(k) /\ k.fingerprint[f] # None /\ entries[k].findings[f] # None
      => <<k.fingerprint[f], entries[k].findings[f]>> \in Known(f)

PrintsAreOld == \A q \in Client, f \in File : print[q][f] # None => print[q][f] <= clock

(* Nothing is found before the key is complete.                             *)
FoundAfterPrint == \A q \in Client : pc[q] \in {"idle", "print", "load"} => found[q] = Nothing

NothingAtFirst == \A q \in Client : pc[q] = "idle" => print[q] = Nothing

FreshInv == /\ Types /\ SeesTheDisk /\ StampsAreOld /\ FoundIsKnown /\ EntriesAreKnown
            /\ PrintsAreOld /\ NothingAtFirst /\ FoundAfterPrint /\ Fresh
-----------------------------------------------------------------------------
(* Type correctness.                                                        *)

LEMMA LeastOf == ASSUME NEW S \in SUBSET Nat, S # {}
                 PROVE  Min(S) \in S /\ \A y \in S : Min(S) <= y
<1>1. PICK x \in S : \A y \in S : ~(<<y, x>> \in OpToRel(<, Nat))
  BY NatLessThanWellFounded, WFMin
<1>2. ASSUME NEW y \in S PROVE x <= y
  <2>1. x \in Nat /\ y \in Nat
    OBVIOUS
  <2>2. ~(y < x)
    BY <1>1, <2>1 DEF OpToRel
  <2> QED BY <2>1, <2>2
<1> QED BY <1>2 DEF Min

(* The next file of a walk, and what a step of the walk leaves.              *)
LEMMA YieldNext ==
  ASSUME Types, NEW r \in Client, Yield(r)
  PROVE  \E f \in File :
           /\ f > pos[r] /\ disk[f] # None
           /\ \A g \in File : g > pos[r] /\ g < f => disk[g] = None
           /\ pos' = [pos EXCEPT ![r] = f] /\ pos'[r] = f
           /\ count' = [count EXCEPT ![r] = count[r] + 1]
           /\ count[r] < MaxFiles[r]
<1> DEFINE f == Min(Ahead(r))
<1>1. Ahead(r) \in SUBSET Nat /\ Ahead(r) # {}
  BY LimitsAssumption DEF Yield, Ahead, File
<1>2. f \in Ahead(r) /\ \A g \in Ahead(r) : f <= g
  BY <1>1, LeastOf
<1>3. f \in File /\ f > pos[r] /\ disk[f] # None
  BY <1>2 DEF Ahead
<1>4. \A g \in File : g > pos[r] /\ g < f => disk[g] = None
  BY <1>2, <1>3, LimitsAssumption DEF Ahead, File
<1>5. pos' = [pos EXCEPT ![r] = f] /\ pos'[r] = f /\ count' = [count EXCEPT ![r] = count[r] + 1]
  BY DEF Yield, Types
<1>6. count[r] < MaxFiles[r]
  <2>1. count[r] \in Nat /\ MaxFiles[r] \in Nat
    BY LimitsAssumption DEF Types
  <2> QED BY <2>1 DEF Yield, Full
<1> QED BY <1>3, <1>4, <1>5, <1>6

LEMMA KeyShape == ASSUME Types, NEW r \in Client
                  PROVE  KeyOf(r) \in Key /\ KeyOf(r).fingerprint = print[r]
BY KeyAssumption DEF KeyOf, Types

LEMMA InitTypes == Init => Types
<1> SUFFICES ASSUME Init PROVE Types
  OBVIOUS
<1>1. 1 \in 1..MaxStamp /\ Nothing \in [File -> Value] /\ Nothing \in Fingerprint
  BY LimitsAssumption DEF Nothing, Value, Fingerprint
<1>2. disk \in [File -> [stamp : 1..MaxStamp, findings : Counts] \cup {None}]
  BY <1>1 DEF Init
<1> QED BY <1>1, <1>2, LimitsAssumption DEF Init, InitCache, Types, Steps

LEMMA WriteTypes == ASSUME Types, NEW f \in File, Write(f) PROVE Types'
<1>1. PICK n \in Counts : Change(f, [stamp |-> clock + 1, findings |-> n])
  BY DEF Write
<1>2. clock' \in 1..MaxStamp
  BY LimitsAssumption DEF Write, Types
<1>3. disk' \in [File -> [stamp : 1..MaxStamp, findings : Counts] \cup {None}]
  BY <1>1, <1>2 DEF Write, Change, Types
<1>4. FindingsOn(disk', f) \in Value
  BY <1>3 DEF FindingsOn, Value
<1>5. was' \in [Client -> [File -> SUBSET Value]]
  BY <1>1, <1>4 DEF Change, Types
<1> QED BY <1>1, <1>2, <1>3, <1>5 DEF Change, Types

LEMMA RemoveTypes == ASSUME Types, NEW f \in File, Remove(f) PROVE Types'
<1>1. disk' \in [File -> [stamp : 1..MaxStamp, findings : Counts] \cup {None}]
  BY DEF Remove, Change, Types
<1>2. FindingsOn(disk', f) \in Value
  BY <1>1 DEF FindingsOn, Value
<1>3. was' \in [Client -> [File -> SUBSET Value]]
  BY <1>2 DEF Remove, Change, Types
<1>4. clock' \in 1..MaxStamp
  BY LimitsAssumption DEF Remove, Types
<1> QED BY <1>1, <1>3, <1>4 DEF Remove, Change, Types

LEMMA ArriveTypes == ASSUME Types, NEW r \in Client, Arrive(r) PROVE Types'
<1>1. \A f \in File : FindingsOn(disk, f) \in Value
  BY DEF FindingsOn, Value, Types
<1>2. was' \in [Client -> [File -> SUBSET Value]]
  BY <1>1 DEF Arrive, Types
<1> QED BY <1>2 DEF Arrive, At, Types, Steps

LEMMA FingerprintFileTypes == ASSUME Types, NEW r \in Client, FingerprintFile(r) PROVE Types'
<1>1. PICK f \in File : /\ disk[f] # None
                        /\ pos' = [pos EXCEPT ![r] = f] /\ pos'[r] = f
                        /\ count' = [count EXCEPT ![r] = count[r] + 1]
  BY YieldNext DEF FingerprintFile
<1>2. f \in 0..NumFiles
  BY LimitsAssumption DEF File
<1>3. disk[f].stamp \in 1..MaxStamp
  BY <1>1 DEF Types
<1>4. print' \in [Client -> Fingerprint]
  BY <1>1, <1>3 DEF FingerprintFile, Types, Fingerprint
<1>5. pos' \in [Client -> 0..NumFiles] /\ count' \in [Client -> Nat]
  BY <1>1, <1>2 DEF Types
<1> QED BY <1>4, <1>5 DEF FingerprintFile, Types

LEMMA LoadTypes == ASSUME Types, NEW r \in Client, Load(r) PROVE Types'
<1>1. KeyOf(r) \in Key
  BY KeyShape
<1>2. CASE Cached(KeyOf(r)) /\ response' = [response EXCEPT ![r] = entries[KeyOf(r)]]
           /\ At(r, "done") /\ UNCHANGED cacheVars
  BY <1>1, <1>2 DEF Load, At, cacheVars, Types, Steps
<1>3. CASE BeginLoad(r, KeyOf(r)) /\ At(r, "analyze") /\ UNCHANGED response
  BY <1>1, <1>3 DEF Load, At, BeginLoad, Types, Steps
<1>4. CASE At(r, "wait") /\ UNCHANGED <<entries, loader, response>>
  BY <1>4 DEF Load, At, Types, Steps
<1> QED BY <1>2, <1>3, <1>4 DEF Load

LEMMA AnalyzeTypes == ASSUME Types, NEW r \in Client, Analyze(r) PROVE Types'
<1>1. PICK f \in File : /\ disk[f] # None
                        /\ pos' = [pos EXCEPT ![r] = f] /\ pos'[r] = f
                        /\ count' = [count EXCEPT ![r] = count[r] + 1]
  BY YieldNext DEF Analyze
<1>2. f \in 0..NumFiles
  BY LimitsAssumption DEF File
<1>3. disk[f].findings \in Value
  BY <1>1 DEF Types, Value
<1>4. \/ found' = [found EXCEPT ![r] = [found[r] EXCEPT ![f] = disk[f].findings]]
      \/ found' = found
  BY <1>1 DEF Analyze
<1>5. found' \in [Client -> [File -> Value]]
  <2>1. [found[r] EXCEPT ![f] = disk[f].findings] \in [File -> Value]
    BY <1>3 DEF Types
  <2> QED BY <1>4, <2>1 DEF Types
<1>6. pos' \in [Client -> 0..NumFiles] /\ count' \in [Client -> Nat]
  BY <1>1, <1>2 DEF Types
<1>7. pc' \in [Client -> Steps] /\ early' \in [Client -> BOOLEAN]
  BY DEF Analyze, At, Types, Steps
<1> QED BY <1>5, <1>6, <1>7 DEF Analyze, Types

LEMMA InsertTypes == ASSUME Types, NEW r \in Client, Insert(r) PROVE Types'
<1>1. KeyOf(r) \in Key
  BY KeyShape
<1>2. Result(r) \in Results
  BY DEF Result, Results, Types
<1>3. entries' \in [Key -> Results \cup {None}] /\ loader' \in [Key -> Client \cup {None}]
  BY <1>1, <1>2 DEF Insert, FinishLoad, Types
<1>4. pc' \in [Client -> Steps] /\ response' \in [Client -> Results \cup {None}]
  BY <1>2 DEF Insert, Types, Steps
<1> QED BY <1>3, <1>4 DEF Insert, Types

LEMMA EndTypes ==
  ASSUME Types, NEW r \in Client, Analyzed(r) \/ Probe(r) PROVE Types'
<1>1. cut' \in [Client -> BOOLEAN] /\ failed' \in [Client -> BOOLEAN]
  <2>1. CASE EndWalk(r)
    <3>1. PICK end : /\ cut' = [cut EXCEPT ![r] = end = "cap"]
                     /\ failed' = [failed EXCEPT ![r] = end = "error"]
      BY <2>1 DEF EndWalk
    <3>2. (end = "cap") \in BOOLEAN /\ (end = "error") \in BOOLEAN
      OBVIOUS
    <3> QED BY <3>1, <3>2 DEF Types
  <2>2. CASE UNCHANGED <<cut, failed>>
    BY <2>2 DEF Types
  <2> QED BY <2>1, <2>2 DEF Analyzed, Probe
<1>2. pos' \in [Client -> 0..NumFiles] /\ count' \in [Client -> Nat]
  <2>1. pos' = [pos EXCEPT ![r] = 0] /\ count' = [count EXCEPT ![r] = 0] /\ 0 \in 0..NumFiles
    BY LimitsAssumption DEF Analyzed, Probe, DropWalk
  <2> QED BY <2>1 DEF Types
<1>3. pc' \in [Client -> Steps]
  BY DEF Analyzed, Probe, At, Types, Steps
<1> QED BY <1>1, <1>2, <1>3 DEF Analyzed, Probe, Types

LEMMA NextTypes == Types /\ [Next]_vars => Types'
<1> SUFFICES ASSUME Types, [Next]_vars PROVE Types'
  OBVIOUS
<1>1. CASE \E r \in Client : RequestStep(r)
  <2>1. PICK r \in Client : RequestStep(r)
    BY <1>1
  <2>2. CASE Printed(r)
    BY <2>2, LimitsAssumption DEF Printed, DropWalk, At, Types, Steps
  <2> QED BY <2>1, <2>2, ArriveTypes, FingerprintFileTypes, LoadTypes, AnalyzeTypes, EndTypes,
             InsertTypes DEF RequestStep
<1>2. CASE \E f \in File : Write(f) \/ Remove(f)
  BY <1>2, WriteTypes, RemoveTypes
<1>3. CASE \E k \in Key : Drop(k)
  BY <1>3 DEF Drop, Expire, Invalidate, Types
<1>4. CASE UNCHANGED vars
  BY <1>4 DEF vars, Types
<1> QED BY <1>1, <1>2, <1>3, <1>4 DEF Next, AllDone

-----------------------------------------------------------------------------
(* Every response is fresh.                                                 *)

LEMMA InitFresh == Init => FreshInv
<1> SUFFICES ASSUME Init PROVE FreshInv
  OBVIOUS
<1>1. Types
  BY InitTypes
<1>2. \A r \in Client : pc[r] = "idle" /\ found[r] = Nothing /\ print[r] = Nothing
  BY DEF Init
<1>3. StampsAreOld
  BY DEF Init, StampsAreOld
<1>4. FoundIsKnown /\ PrintsAreOld
  BY <1>2 DEF FoundIsKnown, PrintsAreOld, Known, Nothing
<1>5. EntriesAreKnown
  BY DEF Init, InitCache, EntriesAreKnown, Cached
<1> QED BY <1>1, <1>2, <1>3, <1>4, <1>5
  DEF FreshInv, SeesTheDisk, Busy, NothingAtFirst, FoundAfterPrint, Fresh, Done

(* The directory changes: what the files hold now is added to what every      *)
(* request under way has seen, under a stamp that no fingerprint has.         *)
LEMMA ChangeFresh ==
  ASSUME FreshInv, Types', NEW g \in File, NEW entry, Change(g, entry),
         clock' \in Nat, clock' >= clock,
         entry # None => entry.stamp = clock' /\ clock' > clock
  PROVE  FreshInv'
<1>1. /\ disk' = [disk EXCEPT ![g] = entry]
      /\ UNCHANGED <<entries, loader, pc, pos, count, print, found, cut, early, failed, response>>
  BY DEF Change
<1>2. Types /\ clock \in Nat
  BY DEF FreshInv, Types
<1>3. \A f \in File : disk'[f] = IF f = g THEN entry ELSE disk[f]
  BY <1>1, <1>2 DEF Types
<1>4. Busy' = Busy /\ Done' = Done
  BY <1>1 DEF Busy, Done
<1>5. /\ \A r \in Client, f \in File : was[r][f] \subseteq was'[r][f]
      /\ \A r \in Busy : FindingsOn(disk', g) \in was'[r][g]
  BY <1>2 DEF Change, Types, Busy
<1>6. SeesTheDisk'
  <2>1. SUFFICES ASSUME NEW r \in Busy, NEW f \in File PROVE FindingsOn(disk', f) \in was'[r][f]
    BY <1>4 DEF SeesTheDisk
  <2>2. r \in Client /\ FindingsOn(disk, f) \in was[r][f]
    BY DEF FreshInv, SeesTheDisk, Busy
  <2> QED BY <1>3, <1>5, <2>2 DEF FindingsOn
<1>7. StampsAreOld'
  <2>1. \A f \in File : disk[f] # None => disk[f].stamp \in Nat /\ disk[f].stamp <= clock
    BY DEF FreshInv, StampsAreOld, Types
  <2> QED BY <1>2, <1>3, <2>1 DEF StampsAreOld
<1>8. ASSUME NEW f \in File PROVE Known(f) \subseteq Known(f)'
  <2>1. SUFFICES ASSUME NEW s \in 1..MaxStamp, NEW v \in Counts, <<s, v>> \in Known(f)
                 PROVE  /\ s <= clock'
                        /\ \A r \in Busy : print[r][f] = s => v \in was'[r][f]
                        /\ disk'[f] # None /\ disk'[f].stamp = s => v = disk'[f].findings
    BY <1>1, <1>4 DEF Known
  <2>2. /\ s <= clock
        /\ \A r \in Busy : print[r][f] = s => v \in was[r][f]
        /\ disk[f] # None /\ disk[f].stamp = s => v = disk[f].findings
    BY <2>1 DEF Known
  <2>3. s <= clock' /\ (clock' > clock => s # clock')
    BY <1>2, <2>2, LimitsAssumption
  <2>4. \A r \in Busy : print[r][f] = s => v \in was'[r][f]
    BY <1>5, <2>2 DEF Busy
  <2>5. disk'[f] # None /\ disk'[f].stamp = s => v = disk'[f].findings
    BY <1>3, <2>2, <2>3
  <2> QED BY <2>3, <2>4, <2>5
<1>9. \A q \in Client, f \in File : print[q][f] \in Nat \cup {None}
  BY <1>2 DEF Types, Fingerprint
<1>10. FoundIsKnown'
  BY <1>1, <1>8 DEF FreshInv, FoundIsKnown
<1>11. EntriesAreKnown'
  BY <1>1, <1>8 DEF FreshInv, EntriesAreKnown, Cached
<1>12. PrintsAreOld'
  BY <1>1, <1>2, <1>9 DEF FreshInv, PrintsAreOld
<1>13. NothingAtFirst' /\ FoundAfterPrint'
  BY <1>1 DEF FreshInv, NothingAtFirst, FoundAfterPrint, Nothing
<1>14. Fresh'
  BY <1>1, <1>4, <1>5 DEF FreshInv, Fresh, Done
<1> QED BY <1>6, <1>7, <1>10, <1>11, <1>12, <1>13, <1>14 DEF FreshInv

LEMMA WriteFresh == ASSUME FreshInv, Types', NEW f \in File, Write(f) PROVE FreshInv'
<1>1. PICK n \in Counts : Change(f, [stamp |-> clock + 1, findings |-> n])
  BY DEF Write
<1>2. clock \in Nat /\ clock' = clock + 1
  BY DEF Write, FreshInv, Types
<1> QED BY <1>1, <1>2, ChangeFresh

LEMMA RemoveFresh == ASSUME FreshInv, Types', NEW f \in File, Remove(f) PROVE FreshInv'
<1>1. clock \in Nat /\ clock' = clock + 1 /\ Change(f, None)
  BY DEF Remove, FreshInv, Types
<1> QED BY <1>1, ChangeFresh

(* The steps of requests after the fingerprint that leave the directory and   *)
(* what was seen of it alone keep Known.                                     *)
LEMMA KnownStays ==
  ASSUME UNCHANGED <<disk, clock, print, was>>, Busy' \subseteq Busy, NEW f
  PROVE  Known(f) \subseteq Known(f)'
BY DEF Known

(* The steps that only move requests on.                                    *)
LEMMA MoveFresh ==
  ASSUME FreshInv, Types', UNCHANGED <<disk, clock, print, was, found, entries, response>>,
         \A q \in Client : /\ pc'[q] \in {"idle", "done"} <=> pc[q] \in {"idle", "done"}
                           /\ pc'[q] = "done" <=> pc[q] = "done"
                           /\ pc'[q] \in {"idle", "print", "load"}
                                => pc[q] \in {"idle", "print", "load"}
  PROVE  FreshInv'
<1>1. Busy' = Busy /\ Done' = Done
  BY DEF Busy, Done
<1>2. FoundIsKnown' /\ EntriesAreKnown'
  BY <1>1, KnownStays DEF FreshInv, FoundIsKnown, EntriesAreKnown, Cached
<1>3. SeesTheDisk' /\ StampsAreOld' /\ PrintsAreOld'
  BY <1>1 DEF FreshInv, SeesTheDisk, StampsAreOld, PrintsAreOld, FindingsOn
<1>4. NothingAtFirst' /\ FoundAfterPrint'
  BY DEF FreshInv, NothingAtFirst, FoundAfterPrint, Nothing
<1>5. Fresh'
  BY <1>1 DEF FreshInv, Fresh
<1> QED BY <1>2, <1>3, <1>4, <1>5 DEF FreshInv

LEMMA ArriveFresh == ASSUME FreshInv, Types', NEW r \in Client, Arrive(r) PROVE FreshInv'
<1>1. /\ pc[r] = "idle" /\ pc' = [pc EXCEPT ![r] = "print"]
      /\ was' = [was EXCEPT ![r] = [f \in File |-> {FindingsOn(disk, f)}]]
      /\ UNCHANGED <<entries, disk, clock, print, found, response>>
  BY DEF Arrive, At
<1>2. /\ \A q \in Client : pc'[q] = IF q = r THEN "print" ELSE pc[q]
      /\ \A q \in Client : q # r => was'[q] = was[q]
      /\ \A f \in File : was'[r][f] = {FindingsOn(disk, f)}
  BY <1>1 DEF FreshInv, Types
<1>3. Busy' = Busy \cup {r} /\ r \notin Busy /\ Done' = Done /\ r \notin Done
  BY <1>1, <1>2 DEF Busy, Done
<1>4. \A f \in File : print[r][f] = None
  BY <1>1 DEF FreshInv, NothingAtFirst, Nothing
<1>5. SeesTheDisk'
  BY <1>1, <1>2, <1>3 DEF FreshInv, SeesTheDisk, FindingsOn, Busy
<1>6. FoundIsKnown' /\ EntriesAreKnown'
  <2>1. ASSUME NEW f \in File PROVE Known(f) \subseteq Known(f)'
    BY <1>1, <1>2, <1>3, <1>4 DEF Known, Busy
  <2> QED BY <1>1, <2>1 DEF FreshInv, FoundIsKnown, EntriesAreKnown, Cached
<1>7. StampsAreOld' /\ PrintsAreOld'
  BY <1>1 DEF FreshInv, StampsAreOld, PrintsAreOld
<1>8. NothingAtFirst' /\ FoundAfterPrint'
  BY <1>1, <1>2 DEF FreshInv, NothingAtFirst, FoundAfterPrint, Nothing
<1>9. Fresh'
  BY <1>1, <1>2, <1>3 DEF FreshInv, Fresh, Done
<1> QED BY <1>5, <1>6, <1>7, <1>8, <1>9 DEF FreshInv

(* The request takes the stamp of a file it sees.                            *)
LEMMA FingerprintFileFresh ==
  ASSUME FreshInv, Types', NEW r \in Client, FingerprintFile(r) PROVE FreshInv'
<1>1. PICK g \in File : disk[g] # None /\ pos'[r] = g
  BY YieldNext DEF FreshInv, FingerprintFile
<1> DEFINE st == disk[g].stamp
<1>2. /\ pc[r] = "print"
      /\ print' = [print EXCEPT ![r] = [print[r] EXCEPT ![g] = st]]
      /\ UNCHANGED <<entries, disk, clock, pc, found, was, response>>
  BY <1>1 DEF FingerprintFile
<1>3. /\ \A q \in Client : q # r => print'[q] = print[q]
      /\ \A f \in File : print'[r][f] = IF f = g THEN st ELSE print[r][f]
  BY <1>2 DEF FreshInv, Types, Fingerprint
<1>4. Busy' = Busy /\ r \in Busy /\ Done' = Done /\ r \notin Done
  BY <1>2 DEF Busy, Done
<1>5. ASSUME NEW f \in File PROVE Known(f) \subseteq Known(f)'
  <2>1. SUFFICES ASSUME NEW s \in 1..MaxStamp, NEW v \in Counts, <<s, v>> \in Known(f),
                        NEW q \in Busy, print'[q][f] = s
                 PROVE  v \in was[q][f]
    BY <1>2, <1>4 DEF Known
  <2>2. CASE q = r /\ f = g
    <3>1. v = disk[g].findings
      BY <1>1, <1>3, <2>1, <2>2 DEF Known
    <3> QED BY <1>1, <1>4, <2>2, <3>1 DEF FreshInv, SeesTheDisk, FindingsOn
  <2>3. CASE q # r \/ f # g
    BY <1>3, <2>1, <2>3 DEF Known, Busy
  <2> QED BY <2>2, <2>3
<1>6. FoundIsKnown'
  <2>1. \A f \in File : found'[r][f] = None
    BY <1>2 DEF FreshInv, FoundAfterPrint, Nothing
  <2> QED BY <1>2, <1>3, <1>5, <2>1 DEF FreshInv, FoundIsKnown
<1>7. EntriesAreKnown'
  BY <1>2, <1>5 DEF FreshInv, EntriesAreKnown, Cached
<1>8. SeesTheDisk' /\ StampsAreOld'
  BY <1>2, <1>4 DEF FreshInv, SeesTheDisk, StampsAreOld, FindingsOn
<1>9. PrintsAreOld'
  BY <1>1, <1>2, <1>3 DEF FreshInv, PrintsAreOld, StampsAreOld
<1>10. NothingAtFirst' /\ FoundAfterPrint'
  BY <1>2, <1>3 DEF FreshInv, NothingAtFirst, FoundAfterPrint, Nothing
<1>11. Fresh'
  BY <1>2, <1>3, <1>4 DEF FreshInv, Fresh, Done
<1> QED BY <1>6, <1>7, <1>8, <1>9, <1>10, <1>11 DEF FreshInv

LEMMA LoadFresh == ASSUME FreshInv, Types', NEW r \in Client, Load(r) PROVE FreshInv'
<1>1. /\ pc[r] = "load" /\ KeyOf(r) \in Key /\ KeyOf(r).fingerprint = print[r]
      /\ UNCHANGED <<disk, clock, found, was, print>>
  BY KeyShape DEF Load, FreshInv
<1>2. CASE /\ Cached(KeyOf(r)) /\ response' = [response EXCEPT ![r] = entries[KeyOf(r)]]
           /\ At(r, "done") /\ UNCHANGED cacheVars
  <2>1. /\ \A q \in Client : pc'[q] = IF q = r THEN "done" ELSE pc[q]
        /\ \A q \in Client : q # r => response'[q] = response[q]
        /\ response'[r] = entries[KeyOf(r)]
        /\ entries' = entries
    BY <1>2 DEF At, FreshInv, Types, cacheVars
  <2>2. Busy' \subseteq Busy /\ r \in Busy /\ Done' = Done \cup {r}
    BY <1>1, <2>1 DEF Busy, Done
  <2>3. FoundIsKnown' /\ EntriesAreKnown'
    BY <1>1, <2>1, <2>2, KnownStays DEF FreshInv, FoundIsKnown, EntriesAreKnown, Cached
  <2>4. SeesTheDisk' /\ StampsAreOld' /\ PrintsAreOld'
    BY <1>1, <2>2 DEF FreshInv, SeesTheDisk, StampsAreOld, PrintsAreOld, FindingsOn
  <2>5. NothingAtFirst' /\ FoundAfterPrint'
    BY <1>1, <2>1 DEF FreshInv, NothingAtFirst, FoundAfterPrint, Nothing
  <2>6. ASSUME NEW f \in File, print[r][f] # None, response'[r].findings[f] # None
        PROVE  response'[r].findings[f] \in was[r][f]
    <3>1. <<print[r][f], response'[r].findings[f]>> \in Known(f)
      BY <1>1, <1>2, <2>1, <2>6 DEF FreshInv, EntriesAreKnown
    <3> QED BY <2>2, <3>1 DEF Known
  <2>7. Fresh'
    BY <1>1, <2>1, <2>2, <2>6 DEF FreshInv, Fresh, Done
  <2> QED BY <2>3, <2>4, <2>5, <2>7 DEF FreshInv
<1>3. CASE (At(r, "analyze") \/ At(r, "wait")) /\ UNCHANGED <<entries, response>>
  <2>1. \A q \in Client : pc'[q] = pc[q] \/ (q = r /\ pc'[q] \in {"analyze", "wait"})
    BY <1>3 DEF At, FreshInv, Types
  <2> QED BY <1>1, <1>3, <2>1, MoveFresh
<1> QED BY <1>2, <1>3 DEF Load, BeginLoad

(* What is found in a file is what the file holds now: every request under    *)
(* way has seen it.                                                         *)
LEMMA AnalyzeFresh == ASSUME FreshInv, Types', NEW r \in Client, Analyze(r) PROVE FreshInv'
<1>1. /\ pc[r] = "analyze"
      /\ UNCHANGED <<entries, disk, clock, print, was, response>>
  BY DEF Analyze
<1>2. \A q \in Client : pc'[q] = pc[q] \/ (q = r /\ pc'[q] = "probe")
  BY DEF Analyze, At, FreshInv, Types
<1>3. PICK g \in File : disk[g] # None /\ pos'[r] = g
  BY YieldNext DEF FreshInv, Analyze
<1>4. CASE found' = found
  BY <1>1, <1>2, <1>4, MoveFresh
<1>5. CASE found' = [found EXCEPT ![r] = [found[r] EXCEPT ![g] = disk[g].findings]]
  <2>1. /\ \A q \in Client : q # r => found'[q] = found[q]
        /\ \A f \in File : found'[r][f] = IF f = g THEN disk[g].findings ELSE found[r][f]
    BY <1>5 DEF FreshInv, Types
  <2>2. Busy' = Busy /\ Done' = Done
    BY <1>1, <1>2 DEF Busy, Done
  <2>3. \A f \in File : Known(f) \subseteq Known(f)'
    BY <1>1, <2>2, KnownStays
  <2>4. ASSUME print[r][g] # None PROVE <<print[r][g], disk[g].findings>> \in Known(g)
    <3>1. print[r][g] \in 1..MaxStamp /\ disk[g].findings \in Counts
      BY <1>3, <2>4 DEF FreshInv, Types, Fingerprint
    <3>2. print[r][g] <= clock
      BY <2>4 DEF FreshInv, PrintsAreOld
    <3>3. \A q \in Busy : disk[g].findings \in was[q][g]
      BY <1>3 DEF FreshInv, SeesTheDisk, FindingsOn
    <3> QED BY <2>4, <3>1, <3>2, <3>3 DEF Known
  <2>5. FoundIsKnown'
    BY <1>1, <2>1, <2>3, <2>4 DEF FreshInv, FoundIsKnown
  <2>6. EntriesAreKnown'
    BY <1>1, <2>3 DEF FreshInv, EntriesAreKnown, Cached
  <2>7. SeesTheDisk' /\ StampsAreOld' /\ PrintsAreOld'
    BY <1>1, <2>2 DEF FreshInv, SeesTheDisk, StampsAreOld, PrintsAreOld, FindingsOn
  <2>8. NothingAtFirst' /\ FoundAfterPrint'
    BY <1>1, <1>2, <2>1 DEF FreshInv, NothingAtFirst, FoundAfterPrint, Nothing
  <2>9. Fresh'
    BY <1>1, <2>2 DEF FreshInv, Fresh
  <2> QED BY <2>5, <2>6, <2>7, <2>8, <2>9 DEF FreshInv
<1> QED BY <1>3, <1>4, <1>5 DEF Analyze

LEMMA InsertFresh == ASSUME FreshInv, Types', NEW r \in Client, Insert(r) PROVE FreshInv'
<1>1. /\ pc[r] = "insert" /\ KeyOf(r) \in Key /\ KeyOf(r).fingerprint = print[r]
      /\ entries' = [entries EXCEPT ![KeyOf(r)] = Result(r)]
      /\ response' = [q \in Client |-> IF q \in Sharers(r) THEN Result(r) ELSE response[q]]
      /\ pc' = [q \in Client |-> IF q \in Sharers(r) THEN "done" ELSE pc[q]]
      /\ UNCHANGED <<disk, clock, print, found, was>>
  BY KeyShape DEF Insert, FinishLoad, FreshInv
<1>2. Sharers(r) \subseteq Busy /\ \A q \in Sharers(r) : q \in Client /\ print[q] = print[r]
  BY <1>1 DEF Sharers, Busy, KeyOf
<1>3. Result(r).findings = found[r]
  BY DEF Result
<1>4. Busy' \subseteq Busy /\ Done' = Done \cup Sharers(r)
  BY <1>1, <1>2 DEF Busy, Done
<1>5. \A f \in File : Known(f) \subseteq Known(f)'
  BY <1>1, <1>4, KnownStays
<1>6. FoundIsKnown'
  BY <1>1, <1>5 DEF FreshInv, FoundIsKnown
<1>7. EntriesAreKnown'
  <2>1. \A k \in Key : entries'[k] = IF k = KeyOf(r) THEN Result(r) ELSE entries[k]
    BY <1>1 DEF FreshInv, Types
  <2> QED BY <1>1, <1>3, <1>5, <2>1 DEF FreshInv, EntriesAreKnown, FoundIsKnown, Cached
<1>8. SeesTheDisk' /\ StampsAreOld' /\ PrintsAreOld'
  BY <1>1, <1>4 DEF FreshInv, SeesTheDisk, StampsAreOld, PrintsAreOld, FindingsOn
<1>9. NothingAtFirst' /\ FoundAfterPrint'
  BY <1>1 DEF FreshInv, NothingAtFirst, FoundAfterPrint, Nothing
<1>10. ASSUME NEW q \in Sharers(r), NEW f \in File, print[q][f] # None, found[r][f] # None
       PROVE  found[r][f] \in was[q][f]
  <2>1. <<print[q][f], found[r][f]>> \in Known(f)
    BY <1>2, <1>10 DEF FreshInv, FoundIsKnown
  <2> QED BY <1>2, <2>1 DEF Known
<1>11. Fresh'
  BY <1>1, <1>2, <1>3, <1>4, <1>10 DEF FreshInv, Fresh, Done
<1> QED BY <1>6, <1>7, <1>8, <1>9, <1>11 DEF FreshInv

LEMMA DropFresh == ASSUME FreshInv, Types', NEW k \in Key, Drop(k) PROVE FreshInv'
<1>1. /\ entries' = [entries EXCEPT ![k] = None]
      /\ UNCHANGED <<disk, clock, pc, print, found, was, response>>
  BY DEF Drop, Expire, Invalidate
<1>2. Busy' = Busy /\ Done' = Done
  BY <1>1 DEF Busy, Done
<1>3. \A f \in File : Known(f) \subseteq Known(f)'
  BY <1>1, <1>2, KnownStays
<1>4. \A j \in Key : entries'[j] = IF j = k THEN None ELSE entries[j]
  BY <1>1 DEF FreshInv, Types
<1>5. FoundIsKnown' /\ EntriesAreKnown'
  BY <1>1, <1>3, <1>4 DEF FreshInv, FoundIsKnown, EntriesAreKnown, Cached
<1>6. SeesTheDisk' /\ StampsAreOld' /\ PrintsAreOld'
  BY <1>1, <1>2 DEF FreshInv, SeesTheDisk, StampsAreOld, PrintsAreOld, FindingsOn
<1>7. NothingAtFirst' /\ FoundAfterPrint' /\ Fresh'
  BY <1>1, <1>2 DEF FreshInv, NothingAtFirst, FoundAfterPrint, Nothing, Fresh
<1> QED BY <1>5, <1>6, <1>7 DEF FreshInv

LEMMA NextFresh == FreshInv /\ [Next]_vars => FreshInv'
<1> SUFFICES ASSUME FreshInv, [Next]_vars PROVE FreshInv'
  OBVIOUS
<1>1. Types'
  BY NextTypes DEF FreshInv
<1>2. CASE \E r \in Client : RequestStep(r)
  <2>1. PICK r \in Client : RequestStep(r)
    BY <1>2
  <2>2. CASE Printed(r)
    <3>1. \A q \in Client : pc'[q] = pc[q] \/ (q = r /\ pc[q] = "print" /\ pc'[q] = "load")
      BY <2>2 DEF Printed, At, FreshInv, Types
    <3> QED BY <1>1, <2>2, <3>1, MoveFresh DEF Printed
  <2>3. CASE Analyzed(r)
    <3>1. \A q \in Client : pc'[q] = pc[q] \/ (q = r /\ pc[q] = "analyze" /\ pc'[q] = "insert")
      BY <2>3 DEF Analyzed, At, FreshInv, Types
    <3> QED BY <1>1, <2>3, <3>1, MoveFresh DEF Analyzed
  <2>4. CASE Probe(r)
    <3>1. \A q \in Client : pc'[q] = pc[q] \/ (q = r /\ pc[q] = "probe" /\ pc'[q] = "insert")
      BY <2>4 DEF Probe, At, FreshInv, Types
    <3> QED BY <1>1, <2>4, <3>1, MoveFresh DEF Probe
  <2> QED BY <1>1, <2>1, <2>2, <2>3, <2>4, ArriveFresh, FingerprintFileFresh, LoadFresh,
             AnalyzeFresh, InsertFresh DEF RequestStep
<1>3. CASE \E f \in File : Write(f) \/ Remove(f)
  BY <1>1, <1>3, WriteFresh, RemoveFresh
<1>4. CASE \E k \in Key : Drop(k)
  BY <1>1, <1>4, DropFresh
<1>5. CASE UNCHANGED vars
  BY <1>1, <1>5, MoveFresh DEF vars
<1> QED BY <1>2, <1>3, <1>4, <1>5 DEF Next, AllDone

(* For any requests, files, caps and edits: what a response says of a file in *)
(* its fingerprint was true of the file at some time while the request was    *)
(* served, whoever did the analysis.                                        *)
THEOREM ResponsesAreFresh == Spec => []Fresh
<1>1. FreshInv => Fresh
  BY DEF FreshInv
<1> QED BY InitFresh, NextFresh, <1>1, PTL DEF Spec

(* The variables keep their types, the cache its results.                    *)
THEOREM TypeCorrect == Spec => []Types
<1> QED BY InitTypes, NextTypes, PTL DEF Spec

-----------------------------------------------------------------------------
(* A request whose own walk the cap cut says so.                             *)

Walking == {r \in Client : pc[r] \in {"load", "analyze", "probe"}}

(* The files a walk has passed that were there all the time, and the files   *)
(* it has found something out about.                                        *)
Passed(r) == {f \in Throughout(r) : f <= pos[r]}
Analysed(r) == {f \in File : found[r][f] # None}

(* The walk has yielded every one of them, and no more than its cap.         *)
WalkCounts(r) ==
  /\ Cardinality(Passed(r)) <= count[r]
  /\ Cardinality(Analysed(r)) <= count[r]
  /\ \A f \in Analysed(r) : f <= pos[r]
  /\ count[r] <= MaxFiles[r]

(* What is about to be inserted, and what was answered, says when the cap    *)
(* cut it.                                                                  *)
CutIsKnown(r) ==
  /\ r \in Walking => WalkCounts(r)
  /\ pc[r] = "probe" => early[r]
  /\ pc[r] = "insert" /\ ~failed[r] /\ Cardinality(Throughout(r)) > MaxFiles[r]
       /\ (early[r] => Cardinality(Analysed(r)) = MaxFiles[r])
     => cut[r]
  /\ pc[r] = "done" /\ response[r].by = r /\ CapCutIt(r) => response[r].filesTruncated

(* Only who is done has put a result into the cache.                         *)
EntriesAreOfDone == \A k \in Key : Cached(k) => pc[entries[k].by] = "done"

CutInv == FreshInv /\ (\A r \in Client : CutIsKnown(r)) /\ EntriesAreOfDone

LEMMA Sizes ==
  ASSUME NEW S \in SUBSET File
  PROVE  /\ IsFiniteSet(S) /\ Cardinality(S) \in Nat
         /\ \A T \in SUBSET S : Cardinality(T) <= Cardinality(S)
         /\ \A T \in SUBSET File, f \in File :
              T \subseteq S \cup {f} => Cardinality(T) <= Cardinality(S) + 1
<1>1. IsFiniteSet(File)
  BY FS_Interval, LimitsAssumption DEF File
<1>2. \A T \in SUBSET File : IsFiniteSet(T) /\ Cardinality(T) \in Nat
  BY <1>1, FS_Subset, FS_CardinalityType
<1>3. \A T \in SUBSET S : Cardinality(T) <= Cardinality(S)
  BY <1>2, FS_Subset
<1>4. ASSUME NEW T \in SUBSET File, NEW f \in File, T \subseteq S \cup {f}
      PROVE  Cardinality(T) <= Cardinality(S) + 1
  <2>1. IsFiniteSet(S \cup {f}) /\ Cardinality(S \cup {f}) <= Cardinality(S) + 1
    BY <1>2, FS_AddElement
  <2>2. Cardinality(T) <= Cardinality(S \cup {f})
    BY <1>4, <2>1, FS_Subset
  <2> QED BY <1>2, <2>1, <2>2, FS_CardinalityType
<1> QED BY <1>2, <1>3, <1>4

(* A request that a step leaves alone.                                      *)
LEMMA OthersCut ==
  ASSUME NEW q \in Client, CutIsKnown(q), pc'[q] = pc[q], pos'[q] = pos[q], count'[q] = count[q],
         found'[q] = found[q], cut'[q] = cut[q], early'[q] = early[q], was'[q] = was[q],
         failed'[q] = failed[q], response'[q] = response[q]
  PROVE  CutIsKnown(q)'
<1>1. /\ Throughout(q)' = Throughout(q) /\ Passed(q)' = Passed(q)
      /\ Analysed(q)' = Analysed(q) /\ Reported(q)' = Reported(q)
  BY DEF Throughout, Passed, Analysed, Reported
<1> QED BY <1>1 DEF CutIsKnown, WalkCounts, CapCutIt, Walking

(* The steps that leave the cache alone, where no one who is done moves.     *)
LEMMA EntriesStayOfDone ==
  ASSUME CutInv, UNCHANGED entries,
         \A q \in Client : pc[q] = "done" => pc'[q] = "done"
  PROVE  EntriesAreOfDone'
<1>1. \A k \in Key : Cached(k) => entries[k].by \in Client
  BY DEF CutInv, FreshInv, Types, Results, Cached
<1> QED BY <1>1 DEF CutInv, EntriesAreOfDone, Cached

LEMMA InitCut == Init => CutInv
<1> SUFFICES ASSUME Init PROVE CutInv
  OBVIOUS
<1>1. EntriesAreOfDone
  BY DEF Init, InitCache, EntriesAreOfDone, Cached
<1>2. ASSUME NEW r \in Client PROVE CutIsKnown(r)
  <2>1. pc[r] = "idle"
    BY DEF Init
  <2> QED BY <2>1 DEF CutIsKnown, Walking
<1> QED BY InitFresh, <1>1, <1>2 DEF CutInv

(* A change takes files from those that were there all the time.             *)
LEMMA ChangeCut ==
  ASSUME CutInv, FreshInv', NEW g \in File, NEW entry, Change(g, entry)
  PROVE  CutInv'
<1>1. UNCHANGED <<entries, loader, pc, pos, count, print, found, cut, early, failed, response>>
  BY DEF Change
<1>2. \A q \in Client, f \in File :
        IF pc[q] \in {"idle", "done"} THEN was'[q] = was[q] ELSE was[q][f] \subseteq was'[q][f]
  BY DEF Change, CutInv, FreshInv, Types
<1>3. ASSUME NEW q \in Client PROVE CutIsKnown(q)'
  <2>1. CutIsKnown(q)
    BY DEF CutInv
  <2>2. CASE pc[q] \in {"idle", "done"}
    BY <1>1, <1>2, <2>1, <2>2, OthersCut
  <2>3. CASE pc[q] \notin {"idle", "done"}
    <3>1. Throughout(q)' \subseteq Throughout(q) /\ Throughout(q) \subseteq File
      BY <1>2, <2>3 DEF Throughout
    <3>2. Passed(q)' \subseteq Passed(q) /\ Passed(q) \subseteq File
      BY <1>1, <3>1 DEF Passed
    <3>3. /\ Cardinality(Throughout(q)') <= Cardinality(Throughout(q))
          /\ Cardinality(Passed(q)') <= Cardinality(Passed(q))
          /\ Cardinality(Throughout(q)) \in Nat /\ Cardinality(Throughout(q)') \in Nat
          /\ Cardinality(Passed(q)) \in Nat /\ Cardinality(Passed(q)') \in Nat
      BY <3>1, <3>2, Sizes
    <3>4. count[q] \in Nat /\ MaxFiles[q] \in Nat
      BY LimitsAssumption DEF CutInv, FreshInv, Types
    <3>5. q \in Walking => WalkCounts(q)'
      BY <1>1, <2>1, <3>3, <3>4 DEF CutIsKnown, WalkCounts, Analysed
    <3>6. pc[q] = "insert" /\ ~failed[q] /\ Cardinality(Throughout(q)') > MaxFiles[q]
            /\ (early[q] => Cardinality(Analysed(q)) = MaxFiles[q])
          => cut[q]
      BY <2>1, <3>3, <3>4 DEF CutIsKnown
    <3> QED BY <1>1, <2>1, <2>3, <3>5, <3>6 DEF CutIsKnown, Walking, Analysed
  <2> QED BY <2>2, <2>3
<1> QED BY <1>1, <1>3, EntriesStayOfDone DEF CutInv

(* What the others are told when only the state of r moves.                  *)
LEMMA OnlyOne ==
  ASSUME CutInv, FreshInv', NEW r \in Client, UNCHANGED <<entries, was>>, pc[r] # "done",
         \A q \in Client : q # r => /\ pc'[q] = pc[q] /\ pos'[q] = pos[q] /\ count'[q] = count[q]
                                   /\ found'[q] = found[q] /\ cut'[q] = cut[q]
                                   /\ early'[q] = early[q] /\ failed'[q] = failed[q]
                                   /\ response'[q] = response[q],
         CutIsKnown(r)'
  PROVE  CutInv'
<1>1. \A q \in Client : q # r => CutIsKnown(q)'
  BY OthersCut DEF CutInv
<1> QED BY <1>1, EntriesStayOfDone DEF CutInv

LEMMA ArriveCut == ASSUME CutInv, FreshInv', NEW r \in Client, Arrive(r) PROVE CutInv'
<1>1. /\ pc[r] = "idle" /\ pc' = [pc EXCEPT ![r] = "print"]
      /\ was' = [was EXCEPT ![r] = [f \in File |-> {FindingsOn(disk, f)}]]
      /\ UNCHANGED <<entries, pos, count, found, cut, early, failed, response>>
  BY DEF Arrive, At
<1>2. /\ \A q \in Client : pc'[q] = IF q = r THEN "print" ELSE pc[q]
      /\ \A q \in Client : q # r => was'[q] = was[q]
  BY <1>1 DEF CutInv, FreshInv, Types
<1>3. CutIsKnown(r)'
  BY <1>2 DEF CutIsKnown, Walking
<1>4. \A q \in Client : q # r => CutIsKnown(q)'
  BY <1>1, <1>2, OthersCut DEF CutInv
<1>5. EntriesAreOfDone'
  BY <1>1, <1>2, EntriesStayOfDone
<1> QED BY <1>3, <1>4, <1>5 DEF CutInv

LEMMA FingerprintFileCut ==
  ASSUME CutInv, FreshInv', NEW r \in Client, FingerprintFile(r) PROVE CutInv'
<1>1. /\ pc[r] = "print" /\ UNCHANGED <<entries, pc, found, cut, early, failed, was, response>>
  BY DEF FingerprintFile
<1>2. \A q \in Client : q # r => pos'[q] = pos[q] /\ count'[q] = count[q]
  BY DEF FingerprintFile, Yield, CutInv, FreshInv, Types
<1>3. CutIsKnown(r)'
  BY <1>1 DEF CutIsKnown, Walking
<1> QED BY <1>1, <1>2, <1>3, OnlyOne

LEMMA PrintedCut == ASSUME CutInv, FreshInv', NEW r \in Client, Printed(r) PROVE CutInv'
<1>1. /\ pc[r] = "print" /\ UNCHANGED <<entries, found, cut, early, failed, was, response>>
  BY DEF Printed
<1>2. \A q \in Client : q # r => pc'[q] = pc[q] /\ pos'[q] = pos[q] /\ count'[q] = count[q]
  BY DEF Printed, DropWalk, At, CutInv, FreshInv, Types
<1>3. pc'[r] = "load" /\ pos'[r] = 0 /\ count'[r] = 0 /\ found'[r] = Nothing
  BY <1>1 DEF Printed, DropWalk, At, CutInv, FreshInv, Types, FoundAfterPrint
<1>4. Passed(r)' = {} /\ Analysed(r)' = {}
  BY <1>3, LimitsAssumption DEF Passed, Throughout, Analysed, Nothing, File
<1>5. Cardinality({}) = 0 /\ MaxFiles[r] \in Nat
  BY FS_EmptySet, LimitsAssumption
<1>6. WalkCounts(r)'
  BY <1>3, <1>4, <1>5 DEF WalkCounts
<1>7. CutIsKnown(r)'
  BY <1>3, <1>6 DEF CutIsKnown
<1> QED BY <1>1, <1>2, <1>7, OnlyOne

LEMMA LoadCut == ASSUME CutInv, FreshInv', NEW r \in Client, Load(r) PROVE CutInv'
<1>1. /\ pc[r] = "load" /\ KeyOf(r) \in Key
      /\ UNCHANGED <<pos, count, found, cut, early, failed, was>>
  BY KeyShape DEF Load, CutInv, FreshInv
<1>2. CASE /\ Cached(KeyOf(r)) /\ response' = [response EXCEPT ![r] = entries[KeyOf(r)]]
           /\ At(r, "done") /\ UNCHANGED cacheVars
  <2>1. /\ \A q \in Client : q # r => pc'[q] = pc[q] /\ response'[q] = response[q]
        /\ pc'[r] = "done" /\ response'[r] = entries[KeyOf(r)] /\ entries' = entries
    BY <1>2 DEF At, cacheVars, CutInv, FreshInv, Types
  <2>2. response'[r].by # r
    BY <1>1, <1>2, <2>1 DEF CutInv, EntriesAreOfDone
  <2>3. CutIsKnown(r)'
    BY <2>1, <2>2 DEF CutIsKnown, Walking
  <2> QED BY <1>1, <2>1, <2>3, OnlyOne
<1>3. CASE (At(r, "analyze") \/ At(r, "wait")) /\ UNCHANGED <<entries, response>>
  <2>1. /\ \A q \in Client : q # r => pc'[q] = pc[q]
        /\ pc'[r] \in {"analyze", "wait"}
    BY <1>3 DEF At, CutInv, FreshInv, Types
  <2>2. WalkCounts(r)
    BY <1>1 DEF CutInv, CutIsKnown, Walking
  <2>3. WalkCounts(r)'
    BY <1>1, <2>2 DEF WalkCounts, Passed, Analysed, Throughout
  <2>4. CutIsKnown(r)'
    BY <2>1, <2>3 DEF CutIsKnown
  <2> QED BY <1>1, <1>3, <2>1, <2>4, OnlyOne
<1> QED BY <1>2, <1>3 DEF Load, BeginLoad

(* A file that was there all the time is there now: the walk does not go      *)
(* past it.                                                                 *)
LEMMA ThroughoutIsThere ==
  ASSUME FreshInv, NEW r \in Busy, NEW f \in Throughout(r)
  PROVE  f \in File /\ disk[f] # None
BY DEF FreshInv, SeesTheDisk, FindingsOn, Throughout

LEMMA AnalyzeCut == ASSUME CutInv, FreshInv', NEW r \in Client, Analyze(r) PROVE CutInv'
<1>1. pc[r] = "analyze" /\ UNCHANGED <<entries, cut, failed, was, response>>
  BY DEF Analyze
<1>2. PICK g \in File :
        /\ g > pos[r] /\ disk[g] # None
        /\ \A f \in File : f > pos[r] /\ f < g => disk[f] = None
        /\ pos' = [pos EXCEPT ![r] = g] /\ pos'[r] = g
        /\ count' = [count EXCEPT ![r] = count[r] + 1]
        /\ count[r] < MaxFiles[r]
  BY YieldNext DEF CutInv, FreshInv, Analyze
<1>3. \/ found' = [found EXCEPT ![r] = [found[r] EXCEPT ![g] = disk[g].findings]]
      \/ found' = found
  BY <1>2 DEF Analyze
<1>4. \A q \in Client : q # r => /\ pc'[q] = pc[q] /\ pos'[q] = pos[q] /\ count'[q] = count[q]
                              /\ found'[q] = found[q] /\ early'[q] = early[q]
  BY <1>2, <1>3 DEF Analyze, At, CutInv, FreshInv, Types
<1>5. pc'[r] = "analyze" \/ (pc'[r] = "probe" /\ early'[r])
  BY <1>1 DEF Analyze, At, CutInv, FreshInv, Types
<1>6. \A f \in File : f # g => found'[r][f] = found[r][f]
  BY <1>3 DEF CutInv, FreshInv, Types
<1>7. /\ count[r] \in Nat /\ count'[r] = count[r] + 1 /\ MaxFiles[r] \in Nat
      /\ pos[r] \in Nat /\ \A f \in File : f \in Nat
  <2>1. Types
    BY DEF CutInv, FreshInv
  <2>2. count[r] \in Nat /\ count'[r] = count[r] + 1 /\ pos[r] \in Nat
    BY <1>2, <2>1, LimitsAssumption DEF Types
  <2> QED BY <2>2, LimitsAssumption DEF File
<1>8. WalkCounts(r)
  BY <1>1 DEF CutInv, CutIsKnown, Walking
<1>9. Passed(r)' \subseteq Passed(r) \cup {g}
  <2>1. SUFFICES ASSUME NEW f \in Throughout(r), f <= g, f > pos[r], f # g PROVE FALSE
    BY <1>1, <1>2, <1>7 DEF Passed, Throughout
  <2>2. f \in File /\ disk[f] # None
    BY <1>1, ThroughoutIsThere DEF Busy, CutInv
  <2> QED BY <1>2, <1>7, <2>1, <2>2
<1>10. Analysed(r)' \subseteq Analysed(r) \cup {g}
  BY <1>6 DEF Analysed
<1>11. /\ Passed(r) \subseteq File /\ Passed(r)' \subseteq File
       /\ Analysed(r) \subseteq File /\ Analysed(r)' \subseteq File
  BY DEF Passed, Throughout, Analysed
<1>12. /\ Cardinality(Passed(r)') <= Cardinality(Passed(r)) + 1
       /\ Cardinality(Analysed(r)') <= Cardinality(Analysed(r)) + 1
       /\ Cardinality(Passed(r)) \in Nat /\ Cardinality(Passed(r)') \in Nat
       /\ Cardinality(Analysed(r)) \in Nat /\ Cardinality(Analysed(r)') \in Nat
  BY <1>9, <1>10, <1>11, Sizes
<1>13. Cardinality(Passed(r)') <= count'[r] /\ Cardinality(Analysed(r)') <= count'[r]
  BY <1>7, <1>8, <1>12 DEF WalkCounts
<1>14. \A f \in Analysed(r)' : f <= pos'[r]
  BY <1>2, <1>7, <1>8, <1>10, <1>11 DEF WalkCounts
<1>15. WalkCounts(r)'
  BY <1>2, <1>7, <1>13, <1>14 DEF WalkCounts
<1>16. CutIsKnown(r)'
  BY <1>5, <1>15 DEF CutIsKnown
<1> QED BY <1>1, <1>4, <1>16, OnlyOne

(* While more files than the cap were there all the time, the next pull of a  *)
(* walk that has not yielded so many ends it at the cap or on an error, or   *)
(* not at all.                                                              *)
LEMMA FilesAreLeft ==
  ASSUME CutInv, NEW r \in Client, pc[r] \in {"analyze", "probe"},
         Cardinality(Throughout(r)) > MaxFiles[r]
  PROVE  Ahead(r) # {} /\ \A end \in WalkEnds(r) : end = "error" \/ end = "cap"
<1>1. WalkCounts(r)
  BY DEF CutInv, CutIsKnown, Walking
<1>2. count[r] \in Nat /\ MaxFiles[r] \in Nat /\ pos[r] \in Nat
  <2>1. Types
    BY DEF CutInv, FreshInv
  <2> QED BY <2>1, LimitsAssumption DEF Types
<1>3. Passed(r) \subseteq File /\ Throughout(r) \subseteq File
  BY DEF Passed, Throughout
<1>4. Cardinality(Passed(r)) \in Nat /\ Cardinality(Throughout(r)) \in Nat
  BY <1>3, Sizes
<1>5. Ahead(r) # {}
  <2>1. SUFFICES ASSUME Ahead(r) = {} PROVE FALSE
    OBVIOUS
  <2>2. \A f \in Throughout(r) : f \in Nat /\ f \in File /\ disk[f] # None
    BY ThroughoutIsThere, LimitsAssumption DEF CutInv, Busy, File
  <2>3. Throughout(r) = Passed(r)
    BY <1>2, <2>1, <2>2 DEF Passed, Ahead
  <2> QED BY <1>1, <1>2, <1>4, <2>3 DEF WalkCounts
<1> QED BY <1>5 DEF WalkEnds

(* The walk ends, or, after an early break, yields a file more.               *)
LEMMA WalkEndCut ==
  ASSUME CutInv, FreshInv', NEW r \in Client, Analyzed(r) \/ Probe(r) PROVE CutInv'
<1>1. /\ pc[r] \in {"analyze", "probe"}
      /\ pc[r] = "probe" => early[r]
      /\ pc' = [pc EXCEPT ![r] = "insert"]
      /\ UNCHANGED <<entries, found, early, was, response>>
  BY DEF Analyzed, Probe, At, CutInv, CutIsKnown
<1>2. WalkCounts(r)
  BY <1>1 DEF CutInv, CutIsKnown, Walking
<1>3. Types
  BY DEF CutInv, FreshInv
<1>4. EndWalk(r) \/ (pc[r] = "probe" /\ ~Full(r) /\ UNCHANGED <<cut, failed>>)
  BY DEF Analyzed, Probe
<1>5. \A q \in Client : q # r => /\ pc'[q] = pc[q] /\ pos'[q] = pos[q] /\ count'[q] = count[q]
                              /\ cut'[q] = cut[q] /\ failed'[q] = failed[q]
  <2>1. \A q \in Client : q # r => pc'[q] = pc[q] /\ pos'[q] = pos[q] /\ count'[q] = count[q]
    BY <1>1, <1>3 DEF Analyzed, Probe, DropWalk, Types
  <2>2. \A q \in Client : q # r => cut'[q] = cut[q] /\ failed'[q] = failed[q]
    BY <1>3, <1>4 DEF EndWalk, Types
  <2> QED BY <2>1, <2>2
<1>6. ASSUME ~failed'[r], Cardinality(Throughout(r)) > MaxFiles[r],
             early[r] => Cardinality(Analysed(r)) = MaxFiles[r]
      PROVE  cut'[r]
  <2>1. \A end \in WalkEnds(r) : end = "error" \/ end = "cap"
    BY <1>1, <1>6, FilesAreLeft
  <2>2. CASE EndWalk(r)
    <3>1. PICK end \in WalkEnds(r) : /\ cut' = [cut EXCEPT ![r] = end = "cap"]
                                     /\ failed' = [failed EXCEPT ![r] = end = "error"]
      BY <2>2 DEF EndWalk
    <3>2. (failed'[r] <=> end = "error") /\ (cut'[r] <=> end = "cap")
      BY <1>3, <3>1 DEF Types
    <3> QED BY <1>6, <2>1, <3>2
  <2>3. CASE pc[r] = "probe" /\ ~Full(r)
    <3>1. count[r] \in Nat /\ MaxFiles[r] \in Nat
      BY <1>3, LimitsAssumption DEF Types
    <3>2. Cardinality(Analysed(r)) = MaxFiles[r]
      BY <1>1, <1>6, <2>3
    <3> QED BY <1>2, <2>3, <3>1, <3>2 DEF WalkCounts, Full
  <2> QED BY <1>4, <2>2, <2>3
<1>7. Throughout(r)' = Throughout(r) /\ Analysed(r)' = Analysed(r)
  BY <1>1 DEF Throughout, Analysed
<1>8. pc'[r] = "insert" /\ early'[r] = early[r]
  BY <1>1, <1>3 DEF Types
<1>9. CutIsKnown(r)'
  BY <1>6, <1>7, <1>8 DEF CutIsKnown, Walking
<1> QED BY <1>1, <1>5, <1>9, OnlyOne

LEMMA InsertCut == ASSUME CutInv, FreshInv', NEW r \in Client, Insert(r) PROVE CutInv'
<1>1. /\ pc[r] = "insert" /\ KeyOf(r) \in Key
      /\ entries' = [entries EXCEPT ![KeyOf(r)] = Result(r)]
      /\ response' = [q \in Client |-> IF q \in Sharers(r) THEN Result(r) ELSE response[q]]
      /\ pc' = [q \in Client |-> IF q \in Sharers(r) THEN "done" ELSE pc[q]]
      /\ UNCHANGED <<disk, clock, pos, count, print, found, cut, early, failed, was>>
  BY KeyShape DEF Insert, FinishLoad, CutInv, FreshInv
<1>2. /\ Result(r).by = r /\ Result(r).findings = found[r]
      /\ Result(r).early = early[r] /\ Result(r).filesTruncated = cut[r]
      /\ Result(r).failed = failed[r]
  BY DEF Result
<1>3. r \in Sharers(r)
  BY DEF Sharers
<1>4. CutIsKnown(r)'
  <2>1. pc'[r] = "done" /\ response'[r] = Result(r)
    BY <1>1, <1>3
  <2>2. Throughout(r)' = Throughout(r) /\ Reported(r)' = Analysed(r)
    BY <1>1, <1>2, <2>1 DEF Throughout, Reported, Analysed
  <2>3. CutIsKnown(r)
    BY DEF CutInv
  <2> QED BY <1>1, <1>2, <2>1, <2>2, <2>3 DEF CutIsKnown, CapCutIt, Walking
<1>5. ASSUME NEW q \in Client, q # r PROVE CutIsKnown(q)'
  <2>1. CASE q \in Sharers(r)
    <3>1. pc'[q] = "done" /\ response'[q].by # q
      BY <1>1, <1>2, <1>5, <2>1
    <3> QED BY <3>1 DEF CutIsKnown, Walking
  <2>2. CASE q \notin Sharers(r)
    <3>1. pc'[q] = pc[q] /\ response'[q] = response[q]
      BY <1>1, <2>2
    <3> QED BY <1>1, <3>1, OthersCut DEF CutInv
  <2> QED BY <2>1, <2>2
<1>6. EntriesAreOfDone'
  <2>1. \A q \in Client : pc[q] = "done" => pc'[q] = "done"
    BY <1>1
  <2>2. \A k \in Key : entries'[k] = IF k = KeyOf(r) THEN Result(r) ELSE entries[k]
    BY <1>1 DEF CutInv, FreshInv, Types
  <2>3. \A k \in Key : Cached(k) => entries[k].by \in Client /\ pc[entries[k].by] = "done"
    BY DEF CutInv, FreshInv, Types, Results, Cached, EntriesAreOfDone
  <2> QED BY <1>1, <1>2, <1>3, <2>1, <2>2, <2>3 DEF EntriesAreOfDone, Cached
<1> QED BY <1>4, <1>5, <1>6 DEF CutInv

LEMMA NextCut == CutInv /\ [Next]_vars => CutInv'
<1> SUFFICES ASSUME CutInv, [Next]_vars PROVE CutInv'
  OBVIOUS
<1>1. FreshInv'
  BY NextFresh DEF CutInv
<1>2. CASE \E r \in Client : RequestStep(r)
  <2>1. PICK r \in Client : RequestStep(r)
    BY <1>2
  <2> QED BY <1>1, <2>1, ArriveCut, FingerprintFileCut, PrintedCut, LoadCut, AnalyzeCut,
             WalkEndCut, InsertCut DEF RequestStep
<1>3. CASE \E f \in File : Write(f) \/ Remove(f)
  BY <1>1, <1>3, ChangeCut DEF Write, Remove
<1>4. CASE \E k \in Key : Drop(k)
  <2>1. PICK k \in Key : Drop(k)
    BY <1>4
  <2>2. /\ entries' = [entries EXCEPT ![k] = None]
        /\ UNCHANGED <<pc, pos, count, found, cut, early, failed, was, response>>
    BY <2>1 DEF Drop, Expire, Invalidate
  <2>3. EntriesAreOfDone'
    BY <2>2 DEF CutInv, FreshInv, Types, EntriesAreOfDone, Cached
  <2> QED BY <1>1, <2>2, <2>3, OthersCut DEF CutInv
<1>5. CASE UNCHANGED vars
  BY <1>1, <1>5, OthersCut, EntriesStayOfDone DEF CutInv, vars
<1> QED BY <1>2, <1>3, <1>4, <1>5 DEF Next, AllDone

(* For any requests, files, caps, edits and errors: a request that did the    *)
(* analysis itself says that its walk met the cap with files left, also when *)
(* it had enough findings exactly there. A walk that ended on an error is    *)
(* not among these: BeyondCapIsTold, which does not leave it out, fails.      *)
THEOREM OwnCutsAreReported == Spec => []OwnCutReported
<1>1. CutInv => OwnCutReported
  BY DEF CutInv, CutIsKnown, OwnCutReported, Done
<1> QED BY InitCut, NextCut, <1>1, PTL DEF Spec
=============================================================================
