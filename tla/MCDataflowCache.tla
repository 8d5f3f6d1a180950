-------------------------- MODULE MCDataflowCache --------------------------
(* The instances of DataflowCache that TLC checks: all requests ask for one  *)
(* result, so that five findings end a walk; r1 may have a smaller cap.      *)
EXTENDS DataflowCache

CONSTANTS r1, Cap

MCMaxResults == [r \in Client |-> 1]
MCMaxFiles == [r \in Client |-> IF r = r1 THEN Cap ELSE 2]
MCKey == [fingerprint : Fingerprint, maxResults : {1}]
=============================================================================
