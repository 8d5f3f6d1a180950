---------------------------- MODULE MCScopeCache ----------------------------
(* The instances of ScopeCache that TLC checks: keys are pairs of a file and *)
(* a stamp.                                                                 *)
EXTENDS ScopeCache

MCKey == File \X Stamp
=============================================================================
