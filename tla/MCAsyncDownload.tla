-------------------------- MODULE MCAsyncDownload ---------------------------
(* An instance of AsyncDownload for TLC. *)
EXTENDS AsyncDownload, TLC

CONSTANTS t1, t2, r1, r2, f1, f2

Interchangeable == Permutations(Targets) \cup Permutations(Requests) \cup Permutations(Servers)

\* The properties say nothing of a disturbed batch: what follows a disturbance is not explored.
Calm == disturbed = {}
=============================================================================
