------------------------------- MODULE MCFeed -------------------------------
(* The instance of Feed TLC checks. *)
EXTENDS Feed, TLC

Interchangeable == Permutations(Watches)

\* Not explored: what follows once a property excepts one of the sidecars.
Calm == missed = {} /\ escaped = {}
=============================================================================
