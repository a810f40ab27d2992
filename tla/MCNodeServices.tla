--------------------------- MODULE MCNodeServices ---------------------------
(* Three threads for TLC: one that leaves a with-block, one that opens and   *)
(* one that is blocked in recv is the smallest cast of the races here; any   *)
(* of them may be a service.                                                 *)
EXTENDS NodeServices, TLC

CONSTANTS t1, t2, t3

MCThread == {t1, t2, t3}
Symmetry == Permutations(Thread)
=============================================================================
