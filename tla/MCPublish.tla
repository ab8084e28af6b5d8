----------------------------- MODULE MCPublish ------------------------------
(* Instances of PublishApproval for TLC. *)
EXTENDS PublishApproval, TLC

CONSTANTS a1, a2, u0, c1, c2, s1, s2

Interchangeable == Permutations(Approvers) \cup Permutations(Calls) \cup Permutations(Submitters)
=============================================================================
