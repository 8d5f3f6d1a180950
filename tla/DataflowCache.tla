--------------------------- MODULE DataflowCache ---------------------------
(***************************************************************************)
(* POST /dataflow/analyze (crates/server/src/dataflow.rs) over a directory   *)
(* that changes, with the result cache of dataflow_cache.rs.                 *)
(*                                                                         *)
(* A request walks the directory twice. The first walk makes the key out of  *)
(* the names and stamps (modification time and length) of the files it       *)
(* meets; on a miss the second one reads and analyses them. Both stop at     *)
(* max_files, and at an error: a directory that cannot be listed, with other *)
(* files behind it. Each file lies in a directory of its own, which is       *)
(* listed when the walk comes to it. What is found in a file is a number of findings;    *)
(* the hash of the fingerprint is taken to be injective. Every edit gives    *)
(* its file a stamp that was never used before: edits within the resolution  *)
(* of the clock, which the fingerprint cannot see, are what the time to live *)
(* of an entry is for.                                                      *)
(***************************************************************************)
EXTENDS WeightedCache, FiniteSetsExt

CONSTANTS
  NumFiles,    \* the files there may be are 1..NumFiles, in walk order
  Counts,      \* how many findings a file may have
  Changes,     \* what happens to files: a set of "edit", "create", "remove"
  MaxStamp,    \* bound: the moments at which something changes
  MaxResults,  \* MaxResults[r]: max_results of request r, clamped
  MaxFiles     \* MaxFiles[r]: max_files of request r, clamped

File == 1..NumFiles
Fingerprint == [File -> 1..MaxStamp \cup {None}]

ASSUME CountsAssumption == Counts \subseteq Nat
ASSUME LimitsAssumption ==
  /\ NumFiles \in Nat /\ MaxStamp \in Nat \ {0}
  /\ MaxResults \in [Client -> Nat] /\ MaxFiles \in [Client -> Nat]
ASSUME KeyAssumption ==
  Key = [fingerprint : Fingerprint, maxResults : {MaxResults[r] : r \in Client}]

VARIABLES
  disk,        \* disk[f]: stamp and findings of f, or None when there is no f
  clock,       \* when the directory last changed, the stamp of what was written then
  pc,          \* pc[r]: where request r is
  pos,         \* pos[r]: how far its walk has come
  count,       \* count[r]: the files the walk has yielded
  print,       \* print[r]: the fingerprint
  found,       \* found[r]: the findings of the files analysed, None for the others
  cut,         \* cut[r]: files_truncated
  early,       \* early[r]: the analysis stopped because it had enough findings
  failed,      \* history: failed[r]: its walk ended on an error
  was,         \* history: was[r][f] is all that f has been during request r
  response     \* response[r]: what r answers

vars == <<entries, loader, disk, clock, pc, pos, count, print, found, cut, early, failed,
          was, response>>

Nothing == [f \in File |-> None]

FindingsOn(d, f) == IF d[f] = None THEN None ELSE d[f].findings

Init ==
  /\ InitCache
  /\ \E present \in SUBSET File, n \in Counts :
       disk = [f \in File |-> IF f \in present THEN [stamp |-> 1, findings |-> n] ELSE None]
  /\ clock = 1
  /\ pc = [r \in Client |-> "idle"]
  /\ pos = [r \in Client |-> 0]
  /\ count = [r \in Client |-> 0]
  /\ print = [r \in Client |-> Nothing]
  /\ found = [r \in Client |-> Nothing]
  /\ cut = [r \in Client |-> FALSE]
  /\ early = [r \in Client |-> FALSE]
  /\ failed = [r \in Client |-> FALSE]
  /\ was = [r \in Client |-> [f \in File |-> {}]]
  /\ response = [r \in Client |-> None]

At(r, step) == pc' = [pc EXCEPT ![r] = step]

KeyOf(r) == [fingerprint |-> print[r], maxResults |-> MaxResults[r]]

-----------------------------------------------------------------------------
(* The directory.                                                           *)

Change(f, entry) ==
  /\ disk' = [disk EXCEPT ![f] = entry]
  /\ was' = [r \in Client |->
               IF pc[r] \in {"idle", "done"} THEN was[r]
               ELSE [was[r] EXCEPT ![f] = @ \cup {FindingsOn(disk', f)}]]
  /\ UNCHANGED <<entries, loader, pc, pos, count, print, found, cut, early, failed, response>>

Write(f) ==
  /\ (IF disk[f] = None THEN "create" ELSE "edit") \in Changes
  /\ clock < MaxStamp
  /\ clock' = clock + 1
  /\ \E n \in Counts : Change(f, [stamp |-> clock + 1, findings |-> n])

Remove(f) ==
  /\ "remove" \in Changes
  /\ disk[f] # None /\ clock < MaxStamp
  /\ clock' = clock + 1
  /\ Change(f, None)

-----------------------------------------------------------------------------
(* FilteredWalk.                                                            *)

(* The files there are beyond the place where a walk stands.                 *)
Ahead(r) == {f \in File : f > pos[r] /\ disk[f] # None}

Full(r) == count[r] >= MaxFiles[r]

(* The walk yields the next file, unless there is none or the cap is met.    *)
Yield(r) ==
  /\ Ahead(r) # {} /\ ~Full(r)
  /\ pos' = [pos EXCEPT ![r] = Min(Ahead(r))]
  /\ count' = [count EXCEPT ![r] = @ + 1]

(* How the next pull may end the walk: an error comes at any time, whatever  *)
(* lies behind it.                                                          *)
WalkEnds(r) ==
  {"error"} \cup (IF Ahead(r) = {} THEN {"exhausted"} ELSE {})
            \cup (IF Ahead(r) # {} /\ Full(r) THEN {"cap"} ELSE {})

(* The walk ends; truncated tells of the cap alone.                         *)
EndWalk(r) ==
  \E end \in WalkEnds(r) : /\ cut' = [cut EXCEPT ![r] = end = "cap"]
                          /\ failed' = [failed EXCEPT ![r] = end = "error"]

(* No one pulls from the walk any more.                                     *)
DropWalk(r) == /\ pos' = [pos EXCEPT ![r] = 0]
               /\ count' = [count EXCEPT ![r] = 0]

-----------------------------------------------------------------------------
(* A request.                                                               *)

Arrive(r) ==
  /\ pc[r] = "idle"
  /\ At(r, "print")
  /\ was' = [was EXCEPT ![r] = [f \in File |-> {FindingsOn(disk, f)}]]
  /\ UNCHANGED <<entries, loader, disk, clock, pos, count, print, found, cut, early, failed, response>>

(* Mutant: the fingerprint is made of names alone.                          *)
FingerprintName(r) ==
  /\ pc[r] = "print"
  /\ Yield(r)
  /\ print' = [print EXCEPT ![r][pos'[r]] = 1]
  /\ UNCHANGED <<entries, loader, disk, clock, pc, found, cut, early, failed, was, response>>

(* compute_fingerprint, one file.                                           *)
FingerprintFile(r) ==
  /\ pc[r] = "print"
  /\ Yield(r)
  /\ print' = [print EXCEPT ![r][pos'[r]] = disk[pos'[r]].stamp]
  /\ UNCHANGED <<entries, loader, disk, clock, pc, found, cut, early, failed, was, response>>

(* The key is complete: the walk is over, in one way or another.             *)
Printed(r) ==
  /\ pc[r] = "print"
  /\ WalkEnds(r) # {}
  /\ At(r, "load")
  /\ DropWalk(r)
  /\ UNCHANGED <<entries, loader, disk, clock, print, found, cut, early, failed, was, response>>

(* get_or_insert                                                            *)
Load(r) ==
  /\ pc[r] = "load"
  /\ \/ /\ Cached(KeyOf(r))
        /\ response' = [response EXCEPT ![r] = entries[KeyOf(r)]]
        /\ At(r, "done")
        /\ UNCHANGED cacheVars
     \/ /\ BeginLoad(r, KeyOf(r))
        /\ At(r, "analyze")
        /\ UNCHANGED response
     \/ /\ MustWait(KeyOf(r))
        /\ At(r, "wait")
        /\ UNCHANGED <<entries, loader, response>>
  /\ UNCHANGED <<disk, clock, pos, count, print, found, cut, early, failed, was>>

Total(findings) ==
  MapThenSumSet(LAMBDA f : IF findings[f] = None THEN 0 ELSE findings[f], File)

(* analyze_uncached, one file: it is read and analysed, or passed over when  *)
(* that fails; enough findings end the walk.                                *)
Analyze(r) ==
  /\ pc[r] = "analyze"
  /\ Yield(r)
  /\ \/ /\ found' = [found EXCEPT ![r][pos'[r]] = disk[pos'[r]].findings]
        /\ IF Total(found'[r]) >= MaxResults[r] * 5
           THEN At(r, "probe") /\ early' = [early EXCEPT ![r] = TRUE]
           ELSE UNCHANGED <<pc, early>>
     \/ UNCHANGED <<found, pc, early>>
  /\ UNCHANGED <<entries, loader, disk, clock, print, cut, failed, was, response>>

(* The walk is over, at its end, at the cap or on an error.                  *)
Analyzed(r) ==
  /\ pc[r] = "analyze"
  /\ EndWalk(r)
  /\ At(r, "insert")
  /\ DropWalk(r)
  /\ UNCHANGED <<entries, loader, disk, clock, print, found, early, was, response>>

(* Mutant: an early break is taken for the end of the walk.                 *)
ProbeNothing(r) ==
  /\ pc[r] = "probe"
  /\ At(r, "insert")
  /\ DropWalk(r)
  /\ UNCHANGED <<entries, loader, disk, clock, print, found, cut, early, failed, was, response>>

(* One more pull after an early break; the file it may yield is dropped.     *)
Probe(r) ==
  /\ pc[r] = "probe"
  /\ EndWalk(r) \/ (Ahead(r) # {} /\ ~Full(r) /\ UNCHANGED <<cut, failed>>)
  /\ At(r, "insert")
  /\ DropWalk(r)
  /\ UNCHANGED <<entries, loader, disk, clock, print, found, early, was, response>>

(* early, failed and by are kept for the properties.                        *)
Result(r) == [findings |-> found[r], filesTruncated |-> cut[r], early |-> early[r],
              failed |-> failed[r], by |-> r]

Sharers(r) == {r} \cup {q \in Client : pc[q] = "wait" /\ KeyOf(q) = KeyOf(r)}

(* The result enters the cache and answers everyone who waited for it.      *)
Insert(r) ==
  /\ pc[r] = "insert"
  /\ FinishLoad(r, KeyOf(r), Result(r))
  /\ response' = [q \in Client |-> IF q \in Sharers(r) THEN Result(r) ELSE response[q]]
  /\ pc' = [q \in Client |-> IF q \in Sharers(r) THEN "done" ELSE pc[q]]
  /\ UNCHANGED <<disk, clock, pos, count, print, found, cut, early, failed, was>>

Drop(k) ==
  /\ Expire(k)
  /\ UNCHANGED <<disk, clock, pc, pos, count, print, found, cut, early, failed, was, response>>

RequestStep(r) ==
  \/ Arrive(r) \/ FingerprintFile(r) \/ Printed(r) \/ Load(r) \/ Analyze(r) \/ Analyzed(r)
  \/ Probe(r) \/ Insert(r)

AllDone == (\A r \in Client : pc[r] = "done") /\ UNCHANGED vars

Next ==
  \/ \E r \in Client : RequestStep(r)
  \/ \E f \in File : Write(f) \/ Remove(f)
  \/ \E k \in Key : Drop(k)
  \/ AllDone

Spec == Init /\ [][Next]_vars

-----------------------------------------------------------------------------
(* Properties.                                                              *)

Done == {r \in Client : pc[r] = "done"}

(* What a response says of a file in its fingerprint was true of it at some  *)
(* time while the request was served, cached or not: nothing it reports was  *)
(* gone before the client asked, whatever was created and removed meanwhile. *)
Fresh ==
  \A r \in Done, f \in File :
    print[r][f] # None /\ response[r].findings[f] # None
      => response[r].findings[f] \in was[r][f]

(* dataflow_cache.rs:46: a result depends on "the analyzed file set          *)
(* (captured by `aggregate_fingerprint`": no response reports on a file that *)
(* was never there while the request was served.                            *)
NoGhostFiles == \A r \in Done, f \in File :
                  was[r][f] = {None} => response[r].findings[f] = None

(* The files that were there during the whole of a request.                 *)
Throughout(r) == {f \in File : None \notin was[r][f]}

Reported(r) == {f \in File : response[r].findings[f] # None}

(* More files than the cap were there all the time, and the walk was over    *)
(* neither on an error nor early before it met the cap.                     *)
CapCutIt(r) ==
  /\ Cardinality(Throughout(r)) > MaxFiles[r]
  /\ ~response[r].failed
  /\ response[r].early => Cardinality(Reported(r)) = MaxFiles[r]

(* A request that analysed the directory itself says that the cap cut it,    *)
(* also when it had enough findings exactly at the cap; a walk that an error *)
(* ended is left out, for which see BeyondCapIsTold.                        *)
OwnCutReported == \A r \in Done : response[r].by = r /\ CapCutIt(r) => response[r].filesTruncated

(* walk.rs:56: truncated is "`true` iff a qualifying file existed beyond     *)
(* position `max_files` cap", of a request that analysed the directory       *)
(* itself and did not stop early.                                           *)
BeyondCapIsTold ==
  \A r \in Done :
    response[r].by = r /\ ~response[r].early /\ Cardinality(Throughout(r)) > MaxFiles[r]
      => response[r].filesTruncated

(* docs/API.md:337: files_truncated is "true if the walk was cut short by    *)
(* max_files", whoever did that walk.                                       *)
TruncationReported == \A r \in Done : CapCutIt(r) => response[r].filesTruncated
=============================================================================
