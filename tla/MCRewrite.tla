----------------------------- MODULE MCRewrite -----------------------------
(* The instance of Rewrite that TLC checks alone, one batch, for what a      *)
(* comment says of its answers; MCRewriteRequests checks the rest.          *)
EXTENDS Rewrite

CONSTANTS b1, NumStripes

MCStripe == 0..NumStripes-1
MCStripeOf == [f \in 1..NumFiles |-> f % NumStripes]
MCMaxResults == [b \in Batch |-> IF b = b1 THEN 2 ELSE 3]
MCMaxFiles == [b \in Batch |-> IF b = b1 THEN NumFiles - 1 ELSE NumFiles]
=============================================================================
