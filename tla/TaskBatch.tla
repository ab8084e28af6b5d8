----------------------------- MODULE TaskBatch -----------------------------
(***************************************************************************)
(* Process operations of the data service and the task batches that count  *)
(* them.  OperateProcess creates a batch, marks every process instance as  *)
(* starting or stopping and hands one task per instance to the task        *)
(* library; a deferred AddFailedCount accounts for those it did not reach. *)
(* Workers run the tasks, and the callback of each counts it in the batch  *)
(* and, when it failed, puts the status of its instance right again.       *)
(* RetryTasks lists the failed tasks of a batch, takes them out of its     *)
(* counts and restarts them one by one.  No lock covers any of this: the   *)
(* only atomic steps are single transactions on the batch's row, whose     *)
(* columns are unsigned.                                                   *)
(*                                                                         *)
(* A job is one execution of a task: the one its operation asked for       *)
(* (attempt First) or one that a RetryTasks call asked for (the call).     *)
(* The task library is external: a task's status is stored, then its       *)
(* callback runs.                                                          *)
(***************************************************************************)
EXTENDS Integers, FiniteSets

CONSTANTS
  Batches,      \* task batches, one per OperateProcess call
  Instances,    \* process instances
  Retries,      \* RetryTasks calls
  First,        \* the attempt a job belongs to when no retry asked for it
  MaxTasks,     \* bound on the tasks of all batches together
  MaxFaults     \* bound on failed database or library calls, and on crashes

ASSUME BatchAssumption ==
  /\ IsFiniteSet(Batches) /\ IsFiniteSet(Instances) /\ IsFiniteSet(Retries)
  /\ First \notin Retries
  /\ MaxTasks \in Nat /\ MaxFaults \in Nat

VARIABLES
  batch,     \* the rows of the task batch table
  failing,   \* batches whose OperateProcess call has hit an error
  original,  \* the instance statuses that call read first
  job,       \* the stage of every job
  task,      \* the status the task library stores of each task
  inst,      \* the status of each instance: settled, or moving (starting, stopping...)
  made,      \* the RetryTasks calls made so far
  lost,      \* how many counts of a batch will never be made (history)
  raced,     \* batches two RetryTasks calls worked on at once (history)
  stranded,  \* instances a fault has left moving (history)
  faults     \* faults so far (bound)

vars == <<batch, failing, original, job, task, inst, made, lost, raced, stranded, faults>>

Attempts == {First} \cup Retries
Jobs     == Batches \X Instances \X Attempts
Tasks    == Batches \X Instances
Ended    == {"succeed", "failed", "partly_failed"}
Stages   == {"none", "listed", "due", "running", "ok", "failed", "rollback"}
Counting == {"due", "running", "ok", "failed"}
Total(b) == Cardinality(batch[b].of)

JobsOf(b, a)   == {<<b, i, a>> : i \in Instances}
At(b, a, s)    == {x \in JobsOf(b, a) : job[x] = s}
InStage(b, ss) == {x \in Jobs : x[1] = b /\ job[x] \in ss}

\* Mutant of StatusOf: a failure beside a success is not reported.
StatusOfHasty(succ, fail) == IF succ > 0 THEN "succeed" ELSE "failed"

\* The outcome a complete batch is given.
StatusOf(succ, fail) ==
  IF fail = 0 THEN "succeed" ELSE IF succ = 0 THEN "failed" ELSE "partly_failed"

\* Mutant of Counted: the batch is complete one count too early.
CountedEarly(b, s, f) ==
  LET row == [batch[b] EXCEPT !.completed = @ + s + f, !.success = @ + s, !.failed = @ + f]
  IN IF row.completed + 1 >= Total(b)
     THEN [row EXCEPT !.status = StatusOf(row.success, row.failed)] ELSE row

\* The row of batch b after s successes and f failures more, in one transaction.
Counted(b, s, f) ==
  LET done == batch[b].completed + s + f
      succ == batch[b].success + s
      fail == batch[b].failed + f
  IN [status    |-> IF done >= Total(b) THEN StatusOf(succ, fail) ELSE batch[b].status,
      of        |-> batch[b].of,
      completed |-> done, success |-> succ, failed |-> fail]

Count(b, s, f) == batch' = [batch EXCEPT ![b] = Counted(b, s, f)]

\* Instance i is given the status GSE reports of it, which is a settled one.
Settle(i) == /\ inst' = [inst EXCEPT ![i] = "settled"]
             /\ stranded' = stranded \ {i}

\* Instance i is marked as starting, stopping, ...
Mark(i) == inst' = [inst EXCEPT ![i] = "moving"]

Fault == /\ faults < MaxFaults
         /\ faults' = faults + 1

Move(x, s) == job' = [job EXCEPT ![x] = s]
MoveAll(xs, s) == job' = [x \in Jobs |-> IF x \in xs THEN s ELSE job[x]]

\* A row before anything is counted.
Row(status, of) == [status |-> status, of |-> of, completed |-> 0, success |-> 0, failed |-> 0]

Init ==
  /\ batch = [b \in Batches |-> Row("none", {})]
  /\ failing = {}
  /\ original = [t \in Tasks |-> "settled"]
  /\ job = [x \in Jobs |-> "none"]
  /\ task = [t \in Tasks |-> "none"]
  /\ inst = [i \in Instances |-> "settled"]
  /\ made = {}
  /\ lost = [b \in Batches |-> 0]
  /\ raced = {}
  /\ stranded = {}
  /\ faults = 0
-----------------------------------------------------------------------------
(* OperateProcess.                                                         *)

\* The call reads its instances and creates the batch.
Operate(b, of) ==
  /\ batch[b].status = "none"
  /\ Cardinality({t \in Tasks : t[2] \in batch[t[1]].of}) + Cardinality(of) <= MaxTasks
  /\ batch' = [batch EXCEPT ![b] = Row("running", of)]
  /\ original' = [t \in Tasks |-> IF t[1] = b THEN inst[t[2]] ELSE original[t]]
  /\ MoveAll({<<b, i, First>> : i \in of}, "due")
  /\ UNCHANGED <<failing, task, inst, made, lost, raced, stranded, faults>>

\* One turn of dispatchProcessTasks: mark the instance, build and dispatch its task.
\* Once none is due the call has returned.
Dispatch(b, i) ==
  /\ job[<<b, i, First>>] = "due" /\ b \notin failing
  /\ Mark(i)
  /\ Move(<<b, i, First>>, "running")
  /\ task' = [task EXCEPT ![<<b, i>>] = "running"]
  /\ UNCHANGED <<batch, failing, original, made, lost, raced, stranded, faults>>

\* The library fails to take the task; the wrapper logs it and the turn counts as done.
DispatchLost(b, i) ==
  /\ job[<<b, i, First>>] = "due" /\ b \notin failing
  /\ Fault
  /\ Mark(i)
  /\ Move(<<b, i, First>>, "none")
  /\ lost' = [lost EXCEPT ![b] = @ + 1]
  /\ stranded' = stranded \cup {i}
  /\ UNCHANGED <<batch, failing, original, task, made, raced>>

\* The turn fails before (the update) or after (the build) the instance is marked.
DispatchFails(b, i) ==
  /\ job[<<b, i, First>>] = "due" /\ b \notin failing
  /\ Fault
  /\ \/ UNCHANGED <<inst, stranded>>
     \/ Mark(i) /\ stranded' = stranded \cup {i}
  /\ failing' = failing \cup {b}
  /\ UNCHANGED <<batch, original, job, task, made, lost, raced>>

\* Mutant of FailUndispatched: all the tasks of the batch are counted as failed.
FailUndispatchedAll(b) ==
  /\ b \in failing
  /\ Count(b, 0, Total(b))
  /\ MoveAll(At(b, First, "due"), "none")
  /\ failing' = failing \ {b}
  /\ UNCHANGED <<original, task, inst, made, lost, raced, stranded, faults>>

\* Mutant of FailUndispatched: the call returns its error and counts nothing.
FailUndispatchedNot(b) ==
  /\ b \in failing
  /\ failing' = failing \ {b}
  /\ MoveAll(At(b, First, "due"), "none")
  /\ UNCHANGED <<batch, original, task, inst, made, lost, raced, stranded, faults>>

\* The deferred function counts the tasks that were not dispatched as failed.
FailUndispatched(b) ==
  /\ b \in failing
  /\ Count(b, 0, Cardinality(At(b, First, "due")))
  /\ MoveAll(At(b, First, "due"), "none")
  /\ failing' = failing \ {b}
  /\ UNCHANGED <<original, task, inst, made, lost, raced, stranded, faults>>

\* The process dies, or AddFailedCount fails and is only logged.
OperateDies(b) ==
  /\ At(b, First, "due") # {}
  /\ Fault
  /\ lost' = [lost EXCEPT ![b] = @ + Cardinality(At(b, First, "due"))]
  /\ MoveAll(At(b, First, "due"), "none")
  /\ failing' = failing \ {b}
  /\ UNCHANGED <<batch, original, task, inst, made, raced, stranded>>
-----------------------------------------------------------------------------
(* The workers and the callbacks.                                          *)

\* Every step succeeds; the last, Finalize, writes the status GSE reports.
Succeeds(x) ==
  /\ job[x] = "running"
  /\ Settle(x[2])
  /\ task' = [task EXCEPT ![<<x[1], x[2]>>] = "success"]
  /\ Move(x, "ok")
  /\ UNCHANGED <<batch, failing, original, made, lost, raced, faults>>

\* A step fails.
Fails(x) ==
  /\ job[x] = "running"
  /\ task' = [task EXCEPT ![<<x[1], x[2]>>] = "failure"]
  /\ Move(x, "failed")
  /\ UNCHANGED <<batch, failing, original, inst, made, lost, raced, stranded, faults>>

\* The callback counts the task; that of a failed one has a rollback to do.
Callback(x) ==
  /\ \/ job[x] = "ok"     /\ Count(x[1], 1, 0) /\ Move(x, "none")
     \/ job[x] = "failed" /\ Count(x[1], 0, 1) /\ Move(x, "rollback")
  /\ UNCHANGED <<failing, original, task, inst, made, lost, raced, stranded, faults>>

\* The transaction fails: the callback logs it and goes on.
CallbackUncounted(x) ==
  /\ Fault
  /\ \/ job[x] = "ok"     /\ Move(x, "none")
     \/ job[x] = "failed" /\ Move(x, "rollback")
  /\ lost' = [lost EXCEPT ![x[1]] = @ + 1]
  /\ UNCHANGED <<batch, failing, original, task, inst, made, raced, stranded>>

\* Mutant of Rollback: the status the operation started from is always written.
RollbackToOriginal(x) ==
  /\ job[x] = "rollback"
  /\ inst' = [inst EXCEPT ![x[2]] = original[<<x[1], x[2]>>]]
  /\ Move(x, "none")
  /\ UNCHANGED <<batch, failing, original, task, made, lost, raced, stranded, faults>>

\* The callback of a failed task writes the status GSE reports of the instance.
Rollback(x) ==
  /\ job[x] = "rollback"
  /\ Settle(x[2])
  /\ Move(x, "none")
  /\ UNCHANGED <<batch, failing, original, task, made, lost, raced, faults>>

\* GSE does not answer and the status the operation started from is written, or the
\* update fails.
RollbackBlind(x) ==
  /\ job[x] = "rollback"
  /\ Fault
  /\ \/ inst' = [inst EXCEPT ![x[2]] = original[<<x[1], x[2]>>]]
     \/ UNCHANGED inst
  /\ stranded' = IF inst'[x[2]] = "moving" THEN stranded \cup {x[2]} ELSE stranded \ {x[2]}
  /\ Move(x, "none")
  /\ UNCHANGED <<batch, failing, original, task, made, lost, raced>>
-----------------------------------------------------------------------------
(* RetryTasks: the failed tasks of a batch are listed, their counts are    *)
(* taken back and they are restarted one by one, each in a step.  The call *)
(* has returned when it has no job listed or due.                          *)

\* Mutant of FailedTasks: tasks are listed whatever has become of them.
FailedTasksAny(b) == {i \in Instances : task[<<b, i>>] # "none"}

\* Mutant of FailedTasks: the tasks that succeeded are listed too.
FailedTasksEnded(b) == {i \in Instances : task[<<b, i>>] \in {"success", "failure"}}

FailedTasks(b) == {i \in Instances : task[<<b, i>>] = "failure"}

\* The batch is read, refused when it has succeeded, and its failed tasks are listed.
RetryList(q, b) ==
  /\ q \notin made
  /\ batch[b].status # "none"
  /\ made' = made \cup {q}
  /\ MoveAll({<<b, i, q>> : i \in IF batch[b].status = "succeed" THEN {} ELSE FailedTasks(b)},
             "listed")
  /\ raced' = IF \E p \in Retries : At(b, p, "listed") \cup At(b, p, "due") # {}
              THEN raced \cup {b} ELSE raced
  /\ UNCHANGED <<batch, failing, original, task, inst, lost, stranded, faults>>

\* Mutant of Fits: the columns are signed.
FitsSigned(b, n) == TRUE

\* An unsigned column cannot go below zero.
Fits(b, n) == n <= batch[b].completed /\ n <= batch[b].failed

\* Mutant of RetryReset: the counts are taken back and the status is left.
RetryResetQuiet(q, b) ==
  LET xs == At(b, q, "listed")
      n  == Cardinality(xs)
  IN /\ xs # {}
     /\ IF Fits(b, n)
        THEN /\ batch' = [batch EXCEPT ![b].completed = @ - n, ![b].failed = @ - n]
             /\ MoveAll(xs, "due")
        ELSE /\ MoveAll(xs, "none")
             /\ UNCHANGED batch
     /\ UNCHANGED <<failing, original, task, inst, made, lost, raced, stranded, faults>>

\* ResetCountsForRetry, refused by the database when a count would go below zero.
RetryReset(q, b) ==
  LET xs == At(b, q, "listed")
      n  == Cardinality(xs)
  IN /\ xs # {}
     /\ IF Fits(b, n)
        THEN /\ batch' = [batch EXCEPT ![b].completed = @ - n, ![b].failed = @ - n,
                                       ![b].status = "running"]
             /\ MoveAll(xs, "due")
        ELSE /\ MoveAll(xs, "none")
             /\ UNCHANGED batch
     /\ UNCHANGED <<failing, original, task, inst, made, lost, raced, stranded, faults>>

\* One turn: the instance is marked and RetryAll restarts its task.
Restart(q, b, i) ==
  /\ job[<<b, i, q>>] = "due"
  /\ Mark(i)
  /\ task' = [task EXCEPT ![<<b, i>>] = "running"]
  /\ Move(<<b, i, q>>, "running")
  /\ UNCHANGED <<batch, failing, original, made, lost, raced, stranded, faults>>

\* A turn fails, before or after the instance is marked and the task stored as running, or
\* the process dies: the call ends, with the tasks left to restart taken out of the counts.
RetryDies(q, b, i) ==
  /\ job[<<b, i, q>>] = "due"
  /\ Fault
  /\ \/ UNCHANGED <<inst, stranded, task>>
     \/ /\ Mark(i) /\ stranded' = stranded \cup {i}
        /\ task' \in {task, [task EXCEPT ![<<b, i>>] = "running"]}
  /\ lost' = [lost EXCEPT ![b] = @ + Cardinality(At(b, q, "due"))]
  /\ MoveAll(At(b, q, "due"), "none")
  /\ UNCHANGED <<batch, failing, original, made, raced>>
-----------------------------------------------------------------------------
OperateStep(b) == \/ \E i \in Instances : Dispatch(b, i)
                  \/ FailUndispatched(b)
RetryStep(q)   == \E b \in Batches : \/ RetryReset(q, b)
                                     \/ \E i \in Instances : Restart(q, b, i)
JobStep(x)     == Succeeds(x) \/ Fails(x) \/ Callback(x) \/ Rollback(x)

Next ==
  \/ \E b \in Batches : \/ \E of \in (SUBSET Instances) \ {{}} : Operate(b, of)
                        \/ OperateStep(b)
                        \/ OperateDies(b)
                        \/ \E i \in Instances : DispatchLost(b, i) \/ DispatchFails(b, i)
  \/ \E x \in Jobs : JobStep(x) \/ CallbackUncounted(x) \/ RollbackBlind(x)
  \/ \E q \in Retries : \/ RetryStep(q)
                        \/ \E b \in Batches : \/ RetryList(q, b)
                                              \/ \E i \in Instances : RetryDies(q, b, i)

Spec == Init /\ [][Next]_vars

\* A call that was made goes on, the workers run what was handed to them and the
\* library calls back; nobody has to operate or to retry.
FairSpec == /\ Spec
            /\ \A b \in Batches : WF_vars(OperateStep(b))
            /\ \A q \in Retries : WF_vars(RetryStep(q))
            /\ \A x \in Jobs : WF_vars(JobStep(x))
-----------------------------------------------------------------------------
Rows == [status : {"none", "running"} \cup Ended, of : SUBSET Instances,
         completed : Nat, success : Nat, failed : Nat]
\* Types; no count goes below zero (ResetCountsForRetry subtracts in the database).
TypeOK ==
  /\ batch \in [Batches -> Rows]
  /\ failing \subseteq Batches
  /\ original \in [Tasks -> {"settled", "moving"}]
  /\ job \in [Jobs -> Stages]
  /\ task \in [Tasks -> {"none", "running", "success", "failure"}]
  /\ inst \in [Instances -> {"settled", "moving"}]
  /\ made \subseteq Retries
  /\ lost \in [Batches -> Nat]
  /\ raced \subseteq Batches
  /\ stranded \subseteq Instances
  /\ faults \in 0..MaxFaults

\* The counts of a batch, the counts still to come (tasks to dispatch or restart,
\* running, or with a callback to run) and those a fault has swallowed are together
\* the number of its tasks, whatever operations, callbacks and retries do at once.
Ledger ==
  \A b \in Batches : batch[b].status # "none" =>
    /\ batch[b].completed = batch[b].success + batch[b].failed
    /\ batch[b].completed + Cardinality(InStage(b, Counting)) + lost[b] = Total(b)

\* A batch is reported as ended only when nothing of it is left to run or to count.
TerminalMeansEnded ==
  \A b \in Batches : batch[b].status \in Ended =>
    InStage(b, Counting) = {} /\ lost[b] = 0

\* Its status then says what became of its tasks: all succeeded, none, or some.
\* Exempt: two retries of the batch at once, which may restart a task that succeeded
\* and take a failure back that is not its own.
ResultMatches ==
  \A b \in Batches \ raced : batch[b].status \in Ended =>
    LET won == {i \in batch[b].of : task[<<b, i>>] = "success"}
    IN /\ batch[b].status = "succeed" <=> won = batch[b].of
       /\ batch[b].status = "failed" <=> won = {}

\* An instance nothing works on shows a settled status, whoever operated it last and
\* in whatever order operations, retries and rollbacks wrote it.  Exempt: instances a
\* fault has left starting or stopping.
InstanceSettled ==
  \A i \in Instances \ stranded :
    (\A x \in Jobs : x[2] = i => job[x] \notin {"running", "ok", "failed", "rollback"})
      => inst[i] = "settled"

\* A task runs at most once at a time.  Exempt: two retries of its batch at once.
OneExecution ==
  \A t \in Tasks : t[1] \notin raced =>
    Cardinality({a \in Attempts : job[<<t[1], t[2], a>>] = "running"}) <= 1

\* A task that succeeded is not run again, and a batch that succeeded stays so.
\* Exempt: two retries of the batch at once.
SuccessIsFinal ==
  [][\A b \in Batches \ raced' :
       /\ batch[b].status = "succeed" => batch'[b].status = "succeed"
       /\ \A i \in Instances : task[<<b, i>>] = "success" => task'[<<b, i>>] = "success"]_vars

\* A batch that runs ends, unless a count was lost on the way.
EventuallyTerminal ==
  \A b \in Batches :
    batch[b].status = "running" ~> batch[b].status \in Ended \/ lost[b] > 0
-----------------------------------------------------------------------------
(* Refinement.                                                             *)

\* The batches the code has lost track of.
Astray == raced \cup {b \in Batches : lost[b] > 0}

IsOpen(b, i) == \E a \in Attempts : job[<<b, i, a>>] \in Counting

\* What a user sees of a batch, and how its tasks are; one is open until it is counted.
Shown == [b \in Batches |-> IF b \in Astray THEN "lost" ELSE batch[b].status]
Results == [b \in Batches |-> [i \in Instances |->
              IF b \in Astray \/ i \notin batch[b].of THEN "none"
              ELSE IF IsOpen(b, i) THEN "open"
              ELSE IF task[<<b, i>>] = "success" THEN "success" ELSE "failure"]]

Operation == INSTANCE OperationBatch WITH status <- Shown, result <- Results

\* Dispatches, callbacks and retries, each in transactions of its own, come to batches that
\* end with the count of their last task, as their tasks did, and that only a retry of failed
\* tasks opens again.
ImplementsOperation == Operation!Spec
=============================================================================
