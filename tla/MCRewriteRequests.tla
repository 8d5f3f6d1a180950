-------------------------- MODULE MCRewriteRequests --------------------------
(* The instance of RewriteRequests that TLC checks: two requests, the second *)
(* of which may be the retry of the first, over two files on one stripe; b1  *)
(* may stop at its caps, the other goes on to the end.                      *)
EXTENDS RewriteRequests

CONSTANTS b1, NumStripes

MCStripe == 0..NumStripes-1
MCStripeOf == [f \in 1..NumFiles |-> f % NumStripes]
MCMaxResults == [b \in Batch |-> IF b = b1 THEN 2 ELSE 3]
MCMaxFiles == [b \in Batch |-> IF b = b1 THEN NumFiles - 1 ELSE NumFiles]
=============================================================================
