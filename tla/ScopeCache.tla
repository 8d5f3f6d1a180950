----------------------------- MODULE ScopeCache -----------------------------
(***************************************************************************)
(* Concurrent scoped searches (crates/core/src/scoped.rs) that share the     *)
(* parsed-scope cache (scope_cache.rs, weighted_cache.rs) while somebody     *)
(* edits the files they search.                                             *)
(*                                                                         *)
(* The key of a file is its path, its modification time and its length. A    *)
(* stamp stands for time and length: an edit that lands within the           *)
(* resolution of the clock and keeps the length keeps the stamp, and so a    *)
(* value found under a key is checked against the file before it is used     *)
(* (get_or_insert_verified). A cached value is the content it was parsed     *)
(* from: spans and matches are functions of it, and the hash that is         *)
(* compared is taken to tell contents apart.                                *)
(***************************************************************************)
EXTENDS WeightedCache

CONSTANTS
  File, Stamp, Content,
  Missing      \* the content of a file that cannot be read

ASSUME KeyAssumption == Key = File \X Stamp
ASSUME ContentAssumption == Missing \notin Content /\ None \notin Content \cup {Missing}

VARIABLES
  content,     \* content[f]: what is on disk
  stamp,       \* stamp[f]: modification time and length
  pc,          \* pc[r]: where search r is
  todo,        \* todo[r]: the files the walk of r has yet to yield
  key,         \* key[r]: the key of the file r works on
  held,        \* held[r]: the value r has in hand
  seen,        \* history: what key[r]'s file was since r took its stamp
  sharing      \* history: r took its stamp while a load of its key was
               \* between reading the file and inserting the value

diskVars == <<content, stamp>>
readerVars == <<pc, todo, key, held, seen, sharing>>
vars == <<entries, loader, content, stamp, pc, todo, key, held, seen, sharing>>

Steps == {"walk", "lookup", "verify", "evict", "load", "read", "insert",
          "wait", "match", "done", "failed"}
Idle == {"walk", "done", "failed"}

Init ==
  /\ InitCache
  /\ content \in [File -> Content]
  /\ stamp \in [File -> Stamp]
  /\ pc = [r \in Client |-> "walk"]
  /\ todo = [r \in Client |-> File]
  /\ key = [r \in Client |-> None]
  /\ held = [r \in Client |-> None]
  /\ seen = [r \in Client |-> {}]
  /\ sharing = [r \in Client |-> FALSE]

At(r, step) == pc' = [pc EXCEPT ![r] = step]

-----------------------------------------------------------------------------
(* The editor.                                                              *)

(* Somebody writes, removes or restores a file; the stamp may stay what it   *)
(* was.                                                                     *)
Edit(f) ==
  /\ \E c \in Content \cup {Missing}, s \in Stamp :
       /\ content' = [content EXCEPT ![f] = c]
       /\ stamp' = [stamp EXCEPT ![f] = s]
       /\ seen' = [r \in Client |->
                     IF pc[r] \notin Idle /\ key[r][1] = f THEN seen[r] \cup {c}
                     ELSE seen[r]]
  /\ UNCHANGED <<entries, loader, pc, todo, key, held, sharing>>

-----------------------------------------------------------------------------
(* A search.                                                                *)

(* The walk yields the next file; a file that cannot be stat'ed is passed    *)
(* over.                                                                    *)
Stat(r) ==
  /\ pc[r] = "walk"
  /\ \E f \in todo[r] :
       LET k == <<f, stamp[f]>> IN
       /\ todo' = [todo EXCEPT ![r] = @ \ {f}]
       /\ IF content[f] = Missing
          THEN UNCHANGED <<pc, key, seen, sharing>>
          ELSE /\ At(r, "lookup")
               /\ key' = [key EXCEPT ![r] = k]
               /\ seen' = [seen EXCEPT ![r] = {content[f]}]
               /\ sharing' = [sharing EXCEPT ![r] =
                    \E q \in Client : pc[q] = "insert" /\ key[q] = k]
  /\ UNCHANGED <<entries, loader, content, stamp, held>>

(* cache.get                                                                *)
Lookup(r) ==
  /\ pc[r] = "lookup"
  /\ held' = [held EXCEPT ![r] = entries[key[r]]]
  /\ At(r, IF Cached(key[r]) THEN "verify" ELSE "load")
  /\ UNCHANGED <<entries, loader, content, stamp, todo, key, seen, sharing>>

(* Mutant: a key match is taken for a hit without looking at the file.       *)
VerifyNothing(r) ==
  /\ pc[r] = "verify"
  /\ At(r, "match")
  /\ UNCHANGED <<entries, loader, content, stamp, todo, key, held, seen, sharing>>

(* The verify closure reads the file again: the entry is used when the       *)
(* content is the same or the file cannot be read any more.                  *)
Verify(r) ==
  /\ pc[r] = "verify"
  /\ At(r, IF content[key[r][1]] \in {held[r], Missing} THEN "match" ELSE "evict")
  /\ UNCHANGED <<entries, loader, content, stamp, todo, key, held, seen, sharing>>

(* The stale entry is invalidated, whatever it is by now.                    *)
Evict(r) ==
  /\ pc[r] = "evict"
  /\ Invalidate(key[r])
  /\ held' = [held EXCEPT ![r] = None]
  /\ At(r, "load")
  /\ UNCHANGED <<content, stamp, todo, key, seen, sharing>>

(* try_get_with                                                             *)
Load(r) ==
  /\ pc[r] = "load"
  /\ \/ /\ Cached(key[r])
        /\ held' = [held EXCEPT ![r] = entries[key[r]]]
        /\ At(r, "match")
        /\ UNCHANGED cacheVars
     \/ /\ BeginLoad(r, key[r])
        /\ At(r, "read")
        /\ UNCHANGED held
     \/ /\ MustWait(key[r])
        /\ At(r, "wait")
        /\ UNCHANGED <<entries, loader, held>>
  /\ UNCHANGED <<content, stamp, todo, key, seen, sharing>>

(* The initialiser reads and parses the file.                               *)
Read(r) ==
  /\ pc[r] = "read"
  /\ held' = [held EXCEPT ![r] = content[key[r][1]]]
  /\ At(r, "insert")
  /\ UNCHANGED <<entries, loader, content, stamp, todo, key, seen, sharing>>

Waiting(k) == {q \in Client : pc[q] = "wait" /\ key[q] = k}

(* Mutant: a failed load is handed to nobody.                               *)
InsertForgetsWaiters(r) ==
  /\ pc[r] = "insert"
  /\ IF held[r] # Missing
     THEN /\ FinishLoad(r, key[r], held[r])
          /\ pc' = [q \in Client |->
                      IF q = r \/ q \in Waiting(key[r]) THEN "match" ELSE pc[q]]
          /\ held' = [q \in Client |->
                        IF q \in Waiting(key[r]) THEN held[r] ELSE held[q]]
     ELSE FailLoad(r, key[r]) /\ At(r, "failed") /\ UNCHANGED held
  /\ UNCHANGED <<content, stamp, todo, key, seen, sharing>>

(* The initialiser returns, with a value or with the error that fails the    *)
(* whole search, and so does everyone who waited for it.                     *)
Insert(r) ==
  /\ pc[r] = "insert"
  /\ LET sharers == {r} \cup Waiting(key[r])
         next == IF held[r] = Missing THEN "failed" ELSE "match"
     IN /\ IF held[r] = Missing
           THEN FailLoad(r, key[r])
           ELSE FinishLoad(r, key[r], held[r])
        /\ pc' = [q \in Client |-> IF q \in sharers THEN next ELSE pc[q]]
        /\ held' = [q \in Client |-> IF q \in sharers THEN held[r] ELSE held[q]]
  /\ UNCHANGED <<content, stamp, todo, key, seen, sharing>>

(* search_in_scopes runs on the value; the search goes on unless it has five *)
(* times the results it was asked for.                                      *)
Match(r) ==
  /\ pc[r] = "match"
  /\ held' = [held EXCEPT ![r] = None]
  /\ \/ At(r, "walk")
     \/ At(r, "done")
  /\ UNCHANGED <<entries, loader, content, stamp, todo, key, seen, sharing>>

(* The walk is over.                                                        *)
Finish(r) ==
  /\ pc[r] = "walk"
  /\ todo[r] = {}
  /\ At(r, "done")
  /\ UNCHANGED <<entries, loader, content, stamp, todo, key, held, seen, sharing>>

SearchStep(r) ==
  Stat(r) \/ Lookup(r) \/ Verify(r) \/ Evict(r) \/ Load(r) \/ Read(r)
    \/ Insert(r) \/ Match(r) \/ Finish(r)

Drop(k) == Expire(k) /\ UNCHANGED <<content, stamp, pc, todo, key, held, seen, sharing>>

Next ==
  \/ \E r \in Client : SearchStep(r)
  \/ \E f \in File : Edit(f)
  \/ \E k \in Key : Drop(k)

(* A blocking-pool thread runs each search; it stops only to wait for        *)
(* another search's load, which the action Insert ends.                      *)
Fairness == \A r \in Client : WF_vars(SearchStep(r))

Spec == Init /\ [][Next]_vars /\ Fairness

-----------------------------------------------------------------------------
(* Properties.                                                              *)

TypeOK ==
  /\ entries \in [Key -> Content \cup {None}]
  /\ loader \in [Key -> Client \cup {None}]
  /\ content \in [File -> Content \cup {Missing}]
  /\ stamp \in [File -> Stamp]
  /\ pc \in [Client -> Steps]
  /\ todo \in [Client -> SUBSET File]
  /\ key \in [Client -> Key \cup {None}]
  /\ held \in [Client -> Content \cup {Missing, None}]
  /\ seen \in [Client -> SUBSET (Content \cup {Missing})]
  /\ sharing \in [Client -> BOOLEAN]

(* The searches that have the value of a file, or the error that stands for  *)
(* it.                                                                      *)
Answered == {r \in Client : pc[r] \in {"match", "failed"}}

(* What a search matches against was in the file at some time since it took  *)
(* the file's stamp, unless the file could not be read then, or it shared    *)
(* the load of another search that had read the file before; and it fails    *)
(* for no other reason either.                                              *)
StaleOnlyWhenSharing ==
  \A r \in Answered : held[r] \in seen[r] \/ Missing \in seen[r] \/ sharing[r]

(* weighted_cache.rs:149: verification "closes the mtime+len fingerprint gap *)
(* where a same-length in-place edit within the filesystem's mtime           *)
(* resolution leaves the key unchanged but the content different".          *)
NeverStale ==
  \A r \in Answered : held[r] \in seen[r] \/ Missing \in seen[r]

(* Every search ends, whatever the editor and the other searches do.        *)
EverySearchEnds == \A r \in Client : <>(pc[r] \in {"done", "failed"})
=============================================================================
