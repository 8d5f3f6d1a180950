--------------------------- MODULE WeightedCache ---------------------------
(***************************************************************************)
(* crates/core/src/weighted_cache.rs: the cache behind both the scope cache *)
(* and the dataflow result cache. A moka cache (external) with a byte limit  *)
(* and a time to live, filled through try_get_with, which runs at most one   *)
(* initialiser per key at a time and lets the other callers of that key wait *)
(* for what it returns.                                                      *)
(*                                                                         *)
(* This module holds the cache and its operations; ScopeCache and            *)
(* DataflowCache compose them into the two lookups the code performs.        *)
(***************************************************************************)
EXTENDS Naturals, FiniteSets

CONSTANTS
  Client,      \* the requests that use the cache
  Key,         \* the cache keys
  None         \* neither a client, a key nor a value

ASSUME NoneAssumption == None \notin Client /\ None \notin Key

VARIABLES
  entries,     \* entries[k]: the cached value, or None
  loader       \* loader[k]: the client whose initialiser runs for k, or None

cacheVars == <<entries, loader>>

InitCache ==
  /\ entries = [k \in Key |-> None]
  /\ loader = [k \in Key |-> None]

(* try_get_with finds a value: it is returned as it is.                     *)
Cached(k) == entries[k] # None

(* try_get_with finds neither a value nor a running initialiser: c runs its  *)
(* own.                                                                     *)
BeginLoad(c, k) ==
  /\ ~Cached(k)
  /\ loader[k] = None
  /\ loader' = [loader EXCEPT ![k] = c]
  /\ UNCHANGED entries

(* try_get_with finds a running initialiser: the caller waits for it.        *)
MustWait(k) == ~Cached(k) /\ loader[k] # None

(* The initialiser returned a value: it is inserted and handed to everyone   *)
(* who waits.                                                               *)
FinishLoad(c, k, v) ==
  /\ loader[k] = c
  /\ entries' = [entries EXCEPT ![k] = v]
  /\ loader' = [loader EXCEPT ![k] = None]

(* The initialiser failed: nothing is inserted, everyone who waits gets the  *)
(* error.                                                                   *)
FailLoad(c, k) ==
  /\ loader[k] = c
  /\ loader' = [loader EXCEPT ![k] = None]
  /\ UNCHANGED entries

Invalidate(k) ==
  /\ entries' = [entries EXCEPT ![k] = None]
  /\ UNCHANGED loader

(* The time to live or the byte limit drops an entry, at a time nobody       *)
(* controls (with a limit of 0 bytes every entry goes at once).             *)
Expire(k) ==
  /\ Cached(k)
  /\ Invalidate(k)
=============================================================================
