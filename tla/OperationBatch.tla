--------------------------- MODULE OperationBatch ---------------------------
(***************************************************************************)
(* What a batch of operations promises to the user who watches it.  It     *)
(* runs while one of its tasks is open, and ends in the step that decides  *)
(* the last of them, with the verdict that is theirs.  A retry opens tasks *)
(* that have failed, never one that succeeded.  A batch of which a count   *)
(* was lost, or that two retries worked on at a time, is "lost": nothing   *)
(* is promised of it.                                                      *)
(***************************************************************************)

CONSTANTS Batches,   \* the identities of the batches
          Instances  \* what an operation may be about

VARIABLES status,    \* [Batches -> what the user sees of a batch]
          result     \* [Batches -> [Instances -> how its task is]], "none" if it has none

Results == {"none", "open", "success", "failure"}
Statuses == {"none", "running", "succeed", "failed", "partly_failed", "lost"}

Init ==
    /\ status = [b \in Batches |-> "none"]
    /\ result = [b \in Batches |-> [i \in Instances |-> "none"]]

\* The status of a batch whose tasks are as r says.
Verdict(r) ==
    IF \E i \in Instances : r[i] = "open" THEN "running"
    ELSE IF \A i \in Instances : r[i] # "failure" THEN "succeed"
    ELSE IF \A i \in Instances : r[i] # "success" THEN "failed" ELSE "partly_failed"

\* Some tasks go from one of the results before to one of the results after.
Go(b, before, after) ==
    \A i \in Instances : \/ result'[b][i] = result[b][i]
                         \/ result[b][i] \in before /\ result'[b][i] \in after

Starts(b) ==
    /\ status[b] = "none" /\ Go(b, {"none"}, {"open"})
    /\ status'[b] = "running" /\ \E i \in Instances : result'[b][i] = "open"

Decides(b) ==
    /\ status[b] = "running" /\ Go(b, {"open"}, {"success", "failure"})
    /\ status'[b] = Verdict(result'[b])

Reopens(b) ==
    /\ status[b] \in {"running", "failed", "partly_failed"} /\ Go(b, {"failure"}, {"open"})
    /\ status'[b] = "running" /\ \E i \in Instances : result'[b][i] = "open"

\* A batch that is lost stays lost.
Loses(b) == status'[b] = "lost"

Step(b) ==
    \/ status'[b] = status[b] /\ result'[b] = result[b]
    \/ Starts(b) \/ Decides(b) \/ Reopens(b) \/ Loses(b)

Next ==
    /\ status' \in [Batches -> Statuses] /\ result' \in [Batches -> [Instances -> Results]]
    /\ \A b \in Batches : Step(b)

Spec == Init /\ [][Next]_<<status, result>>
=============================================================================
