---------------------------- MODULE MCTaskBatch ----------------------------
(* Operations on one or two process instances, alone or side by side.      *)
EXTENDS TaskBatch

CONSTANTS b1, b2, i1, i2, q1, q2
=============================================================================
