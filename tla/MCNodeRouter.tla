----------------------------- MODULE MCNodeRouter -----------------------------
(* NodeRouter with two peers p and q and one or two pool threads.           *)
EXTENDS NodeRouter

CONSTANTS p, q, t1, t2
=============================================================================
