--------------------------- MODULE DownloadBatch ----------------------------
(***************************************************************************)
(* What asynchronous downloads promise to the clients that poll them.  A   *)
(* batch collects tasks, is dispatched and ends once; its tasks go forward *)
(* and end once, and how it ended is told from how they did.  A batch that *)
(* two actors worked on at a time is "lost": nothing is promised of it.    *)
(***************************************************************************)

CONSTANTS Batches,  \* the identities of the batches
          Targets   \* who may ask for the file

VARIABLES state,    \* [Batches -> how far a batch is]
          task      \* [Batches -> [Targets -> how far a task is]], "none" if there is none

Ended == {"Done", "Partial", "Failed"}
States == {"none", "Collecting", "Dispatching", "lost"} \cup Ended

Open == {"Pending", "Running"}
Tasks == {"none"} \cup Open \cup {"Success", "Failed", "Timeout"}

Init ==
    /\ state = [b \in Batches |-> "none"]
    /\ task = [b \in Batches |-> [t \in Targets |-> "none"]]

Moves(b, from, to) == state[b] \in from /\ state'[b] = to /\ task'[b] = task[b]

\* A target asks for the file while the batch still collects.
Joins(b) ==
    /\ state[b] = "Collecting" /\ state'[b] = state[b]
    /\ \E t \in Targets : task[b][t] = "none" /\ task'[b] = [task[b] EXCEPT ![t] = "Pending"]

\* How a task goes forward: it is no success before it has run.
May(from, to) ==
    \/ from = "Pending" /\ to \in {"Running", "Failed", "Timeout"}
    \/ from = "Running" /\ to \in {"Success", "Failed", "Timeout"}

Progresses(b) ==
    /\ state[b] = "Dispatching" /\ state'[b] = state[b]
    /\ \A t \in Targets : task'[b][t] = task[b][t] \/ May(task[b][t], task'[b][t])

\* A batch is done if no task failed, partly done if some did, failed if no other ended well.
Outcome(b) ==
    IF \A t \in Targets : task[b][t] \notin {"Failed", "Timeout"} THEN "Done"
    ELSE IF \E t \in Targets : task[b][t] = "Success" THEN "Partial" ELSE "Failed"

Ends(b) ==
    /\ Moves(b, {"Dispatching"}, Outcome(b))
    /\ \A t \in Targets : task[b][t] \notin Open

\* Only the end of a batch without a task, which is news to nobody, may be taken back.
Reopens(b) ==
    /\ Moves(b, Ended, "Dispatching")
    /\ \A t \in Targets : task[b][t] = "none"

\* A batch that is lost stays lost.
Loses(b) == state'[b] = "lost"

Step(b) ==
    \/ state'[b] = state[b] /\ task'[b] = task[b]
    \/ Moves(b, {"none"}, "Collecting") \/ Joins(b) \/ Moves(b, {"Collecting"}, "Dispatching")
    \/ Progresses(b) \/ Ends(b) \/ Reopens(b) \/ Loses(b)

Next ==
    /\ state' \in [Batches -> States] /\ task' \in [Batches -> [Targets -> Tasks]]
    /\ \A b \in Batches : Step(b)

Spec == Init /\ [][Next]_<<state, task>>
=============================================================================
