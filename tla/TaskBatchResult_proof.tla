----------------------- MODULE TaskBatchResult_proof ------------------------
(***************************************************************************)
(* What the status of a batch says of its tasks, for every set of batches, *)
(* instances and retries and every number of faults.  The counts of a      *)
(* batch, with those its callbacks and calls are still to make, never      *)
(* exceed the tasks that have succeeded, and those that have failed or     *)
(* were never stored; a complete batch (Ledger) therefore meets both.      *)
(***************************************************************************)
EXTENDS TaskBatch_proof

USE BatchAssumption

\* The tasks of b stored with one of the statuses sts; none: not stored.
TasksIn(b, sts) == {i \in batch[b].of : task[<<b, i>>] \in sts}

\* A batch that exists is about something, and its outcome is that of its counts.
Reported ==
  \A b \in Batches :
    /\ batch[b].status = "none" <=> batch[b].of = {}
    /\ batch[b].status \in Ended =>
         batch[b].status = StatusOf(batch[b].success, batch[b].failed)

\* Jobs and stored tasks belong to what their batch is about.
Within ==
  /\ \A x \in Jobs : job[x] # "none" => x[2] \in batch[x[1]].of
  /\ \A t \in Tasks : task[t] # "none" => t[2] \in batch[t[1]].of

\* No more successes are counted, or still to be counted by a callback, than tasks of b
\* have succeeded; and no more failures, with the jobs still to dispatch or restart, than
\* tasks of b have failed or are not stored.
Tally(b) ==
  /\ batch[b].success + Cardinality(InStage(b, {"ok"})) <= Cardinality(TasksIn(b, {"success"}))
  /\ batch[b].failed + Cardinality(InStage(b, {"due", "failed"}))
       <= Cardinality(TasksIn(b, {"none", "failure"}))

AllTally == \A b \in Batches \ raced : batch[b].status # "none" => Tally(b)

-----------------------------------------------------------------------------
(* The rows, and the instances a batch is about.                           *)

\* No step but Operate changes what a batch is about, or its being there.
LEMMA ReportedKept ==
  ASSUME Reported,
         \A b \in Batches :
           /\ batch'[b].of = batch[b].of
           /\ batch'[b].status = "none" <=> batch[b].status = "none"
           /\ batch'[b].status \in Ended =>
                \/ batch'[b] = batch[b]
                \/ batch'[b].status = StatusOf(batch'[b].success, batch'[b].failed)
  PROVE  Reported'
BY DEF Reported

LEMMA WithinKept ==
  ASSUME Within,
         \A b \in Batches : batch'[b].of = batch[b].of,
         \A x \in Jobs : job'[x] # "none" => job[x] # "none" \/ x[2] \in batch[x[1]].of,
         \A t \in Tasks : task'[t] # "none" => task[t] # "none" \/ t[2] \in batch[t[1]].of
  PROVE  Within'
<1>1. ASSUME NEW x \in Jobs, job'[x] # "none" PROVE x[2] \in batch'[x[1]].of
  BY <1>1, JobShape DEF Within
<1>2. ASSUME NEW t \in Tasks, task'[t] # "none" PROVE t[2] \in batch'[t[1]].of
  <2>1. t[1] \in Batches
    BY DEF Tasks
  <2>2. QED
    BY <1>2, <2>1 DEF Within
<1>3. QED
  BY <1>1, <1>2 DEF Within

\* A batch takes s successes and f failures.
LEMMA CountReported ==
  ASSUME Inv, Reported, NEW b \in Batches, batch[b].status # "none",
         NEW s \in Nat, NEW f \in Nat, Count(b, s, f)
  PROVE  /\ Reported'
         /\ \A c \in Batches : batch'[c].of = batch[c].of
<1>1. /\ TypeOK /\ batch'[b] = Counted(b, s, f)
      /\ \A c \in Batches \ {b} : batch'[c] = batch[c]
  BY DEF Inv, TypeOK, Count
<1>2. batch'[b].of = batch[b].of /\ batch'[b].status # "none"
  BY <1>1, CountedType
<1>3. batch'[b].status \in Ended =>
        batch'[b].status = StatusOf(batch'[b].success, batch'[b].failed)
  <2> SUFFICES ASSUME batch'[b].status \in Ended
               PROVE  batch'[b].status = StatusOf(batch'[b].success, batch'[b].failed)
    OBVIOUS
  <2>1. /\ batch[b].completed \in Nat /\ Total(b) \in Nat
        /\ batch[b].status \in Ended => batch[b].completed >= Total(b)
    BY <1>1, TotalType DEF Inv, EndedIsFull, TypeOK, Rows
  <2>2. batch'[b].status = IF batch[b].completed + s + f >= Total(b)
                           THEN StatusOf(batch[b].success + s, batch[b].failed + f)
                           ELSE batch[b].status
    BY <1>1 DEF Counted
  <2>3. batch[b].completed + s + f >= Total(b)
    BY <2>1, <2>2
  <2>4. batch'[b].success = batch[b].success + s /\ batch'[b].failed = batch[b].failed + f
    BY <1>1, CountedType
  <2>5. QED
    BY <2>2, <2>3, <2>4
<1>4. \A c \in Batches :
        /\ batch'[c].of = batch[c].of
        /\ batch'[c].status = "none" <=> batch[c].status = "none"
        /\ batch'[c].status \in Ended =>
             \/ batch'[c] = batch[c]
             \/ batch'[c].status = StatusOf(batch'[c].success, batch'[c].failed)
  BY <1>1, <1>2, <1>3
<1>5. QED
  BY <1>4, ReportedKept

Shape == Reported /\ Within

\* Steps that leave the rows alone and start no job and no task outside a batch.
LEMMA ShapeQuiet ==
  ASSUME Shape, batch' = batch,
         \A x \in Jobs : job'[x] # "none" => job[x] # "none" \/ x[2] \in batch[x[1]].of,
         \A t \in Tasks : task'[t] # "none" => task[t] # "none" \/ t[2] \in batch[t[1]].of
  PROVE  Shape'
BY ReportedKept, WithinKept DEF Shape

LEMMA OperateShape ==
  ASSUME Inv, Shape, NEW b \in Batches, NEW of \in (SUBSET Instances) \ {{}}, Operate(b, of)
  PROVE  Shape'
<1>1. /\ TypeOK /\ batch[b].status = "none" /\ batch[b].of = {} /\ task' = task
      /\ batch'[b] = Row("running", of) /\ \A c \in Batches \ {b} : batch'[c] = batch[c]
      /\ MoveAll({<<b, i, First>> : i \in of}, "due")
  BY DEF Operate, Inv, TypeOK, Shape, Reported
<1>2. batch'[b].status = "running" /\ batch'[b].of = of /\ of # {}
  <2>1. batch'[b] = Row("running", of)
    BY <1>1
  <2>2. batch'[b].status = "running" /\ batch'[b].of = of
    BY <2>1 DEF Row
  <2>3. QED
    BY <2>2
<1>3. Reported'
  BY <1>1, <1>2 DEF Shape, Reported, Ended
<1>4. \A c \in Batches : batch[c].of \subseteq batch'[c].of
  BY <1>1
<1>5. ASSUME NEW x \in Jobs, job'[x] # "none" PROVE x[2] \in batch'[x[1]].of
  <2>1. job[x] # "none" \/ x \in {<<b, i, First>> : i \in of}
    BY <1>1, <1>5 DEF MoveAll
  <2>2. job[x] # "none" \/ (x[1] = b /\ x[2] \in of)
    BY <2>1
  <2>3. QED
    BY <1>2, <1>4, <2>2, JobShape DEF Shape, Within
<1>6. ASSUME NEW t \in Tasks, task'[t] # "none" PROVE t[2] \in batch'[t[1]].of
  <2>1. t[1] \in Batches
    BY DEF Tasks
  <2>2. QED
    BY <1>1, <1>4, <1>6, <2>1 DEF Shape, Within
<1>7. QED
  BY <1>3, <1>5, <1>6 DEF Shape, Within

\* The jobs xs stop and nothing starts.
LEMMA StopShape ==
  ASSUME Shape, batch' = batch, task' = task, NEW xs, MoveAll(xs, "none")
  PROVE  Shape'
<1>1. \A x \in Jobs : job'[x] # "none" => job[x] # "none"
  BY DEF MoveAll
<1>2. QED
  BY <1>1, ShapeQuiet

LEMMA OperateStepShape ==
  ASSUME Inv, Shape, NEW b \in Batches,
         \/ FailUndispatched(b) \/ OperateDies(b)
         \/ \E i \in Instances : Dispatch(b, i) \/ DispatchLost(b, i) \/ DispatchFails(b, i)
  PROVE  Shape'
<1>1. TypeOK /\ \A i \in Instances : <<b, i, First>> \in Jobs /\ <<b, i>> \in Tasks
  BY DEF Inv, Jobs, Attempts, Tasks
<1>2. ASSUME NEW i \in Instances, Dispatch(b, i) \/ DispatchLost(b, i) \/ DispatchFails(b, i)
      PROVE  Shape'
  <2>1. batch' = batch /\ i \in batch[b].of
    BY <1>1, <1>2 DEF Dispatch, DispatchLost, DispatchFails, Shape, Within
  <2>2. \A x \in Jobs : job'[x] # "none" => job[x] # "none"
    BY <1>1, <1>2 DEF Dispatch, DispatchLost, DispatchFails, Move, TypeOK
  <2>3. \A t \in Tasks : task'[t] # "none" => task[t] # "none" \/ t[2] \in batch[t[1]].of
    BY <1>1, <1>2, <2>1 DEF Dispatch, DispatchLost, DispatchFails, TypeOK
  <2>4. QED
    BY <2>1, <2>2, <2>3, ShapeQuiet
<1>3. CASE FailUndispatched(b)
  <2>1. /\ batch[b].status # "none" /\ Count(b, 0, Cardinality(At(b, First, "due")))
        /\ Cardinality(At(b, First, "due")) \in Nat
    BY <1>3, AtJobs DEF FailUndispatched, Inv, Untouched, Attempts
  <2>2. Reported' /\ \A c \in Batches : batch'[c].of = batch[c].of
    BY <2>1, CountReported DEF Shape
  <2>3. task' = task /\ \A x \in Jobs : job'[x] # "none" => job[x] # "none"
    BY <1>3 DEF FailUndispatched, MoveAll
  <2>4. Within'
    BY <2>2, <2>3, WithinKept DEF Shape
  <2>5. QED
    BY <2>2, <2>4 DEF Shape
<1>4. CASE OperateDies(b)
  BY <1>4, StopShape DEF OperateDies
<1>5. QED
  BY <1>2, <1>3, <1>4

LEMMA JobStepShape ==
  ASSUME Inv, Shape, NEW x \in Jobs, JobStep(x) \/ CallbackUncounted(x) \/ RollbackBlind(x)
  PROVE  Shape'
<1>1. TypeOK /\ x[1] \in Batches /\ job[x] # "none" /\ x[2] \in batch[x[1]].of
  BY DEF Inv, Jobs, JobStep, Succeeds, Fails, Callback, Rollback, CallbackUncounted,
         RollbackBlind, Shape, Within
<1>2. \A y \in Jobs : job'[y] # "none" => job[y] # "none"
  BY <1>1 DEF JobStep, Succeeds, Fails, Callback, Rollback, CallbackUncounted,
              RollbackBlind, Move, TypeOK
<1>3. CASE Callback(x)
  <2>1. PICK s \in {0, 1} : Count(x[1], s, 1 - s)
    BY <1>3 DEF Callback
  <2>2. batch[x[1]].status # "none" /\ s \in Nat /\ 1 - s \in Nat
    BY <1>1, JobIsKnown
  <2>3. Reported' /\ \A c \in Batches : batch'[c].of = batch[c].of
    BY <1>1, <2>1, <2>2, CountReported DEF Shape
  <2>4. task' = task
    BY <1>3 DEF Callback
  <2>5. Within'
    BY <1>2, <2>3, <2>4, WithinKept DEF Shape
  <2>6. QED
    BY <2>3, <2>5 DEF Shape
<1>4. CASE Succeeds(x) \/ Fails(x) \/ Rollback(x) \/ CallbackUncounted(x) \/ RollbackBlind(x)
  <2>1. batch' = batch
    BY <1>4 DEF Succeeds, Fails, Rollback, CallbackUncounted, RollbackBlind
  <2>2. \A t \in Tasks : task'[t] # "none" => task[t] # "none" \/ t[2] \in batch[t[1]].of
    <3>1. CASE Succeeds(x) \/ Fails(x)
      <4>1. \A t \in Tasks : t = <<x[1], x[2]>> \/ task'[t] = task[t]
        BY <1>1, <3>1 DEF Succeeds, Fails, TypeOK
      <4>2. QED
        BY <1>1, <4>1
    <3>2. CASE Rollback(x) \/ CallbackUncounted(x) \/ RollbackBlind(x)
      BY <3>2 DEF Rollback, CallbackUncounted, RollbackBlind
    <3>3. QED
      BY <1>4, <3>1, <3>2
  <2>3. QED
    BY <1>2, <2>1, <2>2, ShapeQuiet
<1>5. QED
  BY <1>3, <1>4 DEF JobStep

LEMMA RetryStepShape ==
  ASSUME Inv, Shape, NEW q \in Retries, NEW b \in Batches,
         \/ RetryList(q, b) \/ RetryReset(q, b)
         \/ \E i \in Instances : Restart(q, b, i) \/ RetryDies(q, b, i)
  PROVE  Shape'
<1>1. TypeOK /\ \A i \in Instances : <<b, i, q>> \in Jobs /\ <<b, i>> \in Tasks
  BY DEF Inv, Jobs, Attempts, Tasks
<1>2. CASE RetryList(q, b)
  <2> DEFINE is == IF batch[b].status = "succeed" THEN {} ELSE FailedTasks(b)
  <2>1. is \subseteq batch[b].of
    BY <1>1 DEF FailedTasks, Shape, Within
  <2> HIDE DEF is
  <2>2. batch' = batch /\ task' = task /\ MoveAll({<<b, i, q>> : i \in is}, "listed")
    BY <1>2 DEF RetryList, is
  <2>3. \A x \in {<<b, i, q>> : i \in is} : x[1] = b /\ x[2] \in batch[b].of
    BY <2>1
  <2>4. \A x \in Jobs : job'[x] # "none" => job[x] # "none" \/ x[2] \in batch[x[1]].of
    BY <2>2, <2>3 DEF MoveAll
  <2>5. QED
    BY <2>2, <2>4, ShapeQuiet
<1>3. CASE RetryReset(q, b)
  <2>1. task' = task /\ \A x \in At(b, q, "listed") : x \in Jobs /\ job[x] = "listed"
    BY <1>3, AtJobs DEF RetryReset, Attempts
  <2>2. PICK s \in {"none", "due"} : MoveAll(At(b, q, "listed"), s)
    BY <1>3 DEF RetryReset
  <2>3. \A x \in Jobs : job'[x] # "none" => job[x] # "none"
    BY <2>1, <2>2 DEF MoveAll
  <2>4. \A c \in Batches :
          /\ batch'[c].of = batch[c].of
          /\ batch'[c] = batch[c] \/ batch'[c].status = "running"
    BY <1>1, <1>3 DEF RetryReset, TypeOK, Rows
  <2>5. batch[b].status # "none" /\ \A c \in Batches \ {b} : batch'[c] = batch[c]
    <3>1. PICK x \in At(b, q, "listed") : TRUE
      BY <1>3 DEF RetryReset
    <3>2. x \in Jobs /\ x[1] = b /\ job[x] # "none"
      BY <3>1, AtJobs DEF Attempts
    <3>3. batch[b].status # "none"
      BY <3>2, JobIsKnown
    <3>4. QED
      BY <1>1, <1>3, <3>3 DEF RetryReset, TypeOK
  <2>6. Reported'
    BY <2>4, <2>5, ReportedKept DEF Shape, Ended
  <2>7. Within'
    BY <2>1, <2>3, <2>4, WithinKept DEF Shape
  <2>8. QED
    BY <2>6, <2>7 DEF Shape
<1>4. ASSUME NEW i \in Instances, Restart(q, b, i) PROVE Shape'
  <2>1. batch' = batch /\ i \in batch[b].of
    BY <1>1, <1>4 DEF Restart, Shape, Within
  <2>2. \A x \in Jobs : job'[x] # "none" => job[x] # "none"
    BY <1>1, <1>4 DEF Restart, Move, TypeOK
  <2>3. \A t \in Tasks : task'[t] # "none" => task[t] # "none" \/ t[2] \in batch[t[1]].of
    BY <1>1, <1>4, <2>1 DEF Restart, TypeOK
  <2>4. QED
    BY <2>1, <2>2, <2>3, ShapeQuiet
<1>5. ASSUME NEW i \in Instances, RetryDies(q, b, i) PROVE Shape'
  <2>1. batch' = batch /\ i \in batch[b].of
    BY <1>1, <1>5 DEF RetryDies, Shape, Within
  <2>2. \A x \in Jobs : job'[x] # "none" => job[x] # "none"
    BY <1>5 DEF RetryDies, MoveAll
  <2>3. \A t \in Tasks : task'[t] # "none" => task[t] # "none" \/ t[2] \in batch[t[1]].of
    BY <1>1, <1>5, <2>1 DEF RetryDies, TypeOK
  <2>4. QED
    BY <2>1, <2>2, <2>3, ShapeQuiet
<1>6. QED
  BY <1>2, <1>3, <1>4, <1>5

LEMMA InitShape == Init => Shape
BY JobShape DEF Init, Shape, Reported, Within, Row, Ended

LEMMA NextShape == Inv /\ Shape /\ [Next]_vars => Shape'
<1> SUFFICES ASSUME Inv, Shape, [Next]_vars PROVE Shape'
  OBVIOUS
<1>1. CASE UNCHANGED vars
  BY <1>1, ShapeQuiet DEF vars
<1>2. CASE Next
  <2>1. ASSUME NEW b \in Batches, \E of \in (SUBSET Instances) \ {{}} : Operate(b, of)
        PROVE  Shape'
    BY <2>1, OperateShape
  <2>2. ASSUME NEW b \in Batches, OperateStep(b) \/ OperateDies(b) PROVE Shape'
    BY <2>2, OperateStepShape DEF OperateStep
  <2>3. ASSUME NEW b \in Batches, NEW i \in Instances, DispatchLost(b, i) \/ DispatchFails(b, i)
        PROVE  Shape'
    BY <2>3, OperateStepShape
  <2>4. ASSUME NEW x \in Jobs, JobStep(x) \/ CallbackUncounted(x) \/ RollbackBlind(x)
        PROVE  Shape'
    BY <2>4, JobStepShape
  <2>5. ASSUME NEW q \in Retries, NEW b \in Batches,
               \/ RetryReset(q, b) \/ RetryList(q, b)
               \/ \E i \in Instances : Restart(q, b, i) \/ RetryDies(q, b, i)
        PROVE  Shape'
    BY <2>5, RetryStepShape
  <2>6. QED
    BY <1>2, <2>1, <2>2, <2>3, <2>4, <2>5 DEF Next, RetryStep
<1>3. QED
  BY <1>1, <1>2

-----------------------------------------------------------------------------
(* The tally.                                                              *)

Ind(P) == IF P THEN 1 ELSE 0

\* x comes into the finite set S, or leaves it.
LEMMA SizeChange ==
  ASSUME NEW S, IsFiniteSet(S), NEW x, NEW T, NEW now \in BOOLEAN,
         T = IF now THEN S \cup {x} ELSE S \ {x}
  PROVE  /\ Cardinality(S) \in Nat /\ Cardinality(T) \in Nat
         /\ Cardinality(T) = Cardinality(S) + Ind(now) - Ind(x \in S)
<1>1. Cardinality(S) \in Nat /\ IsFiniteSet({x}) /\ Cardinality({x}) = 1
  BY SizeOne, FS_CardinalityType
<1>2. CASE now /\ x \in S
  <2>1. T = S
    BY <1>2
  <2>2. Ind(now) = 1 /\ Ind(x \in S) = 1
    BY <1>2 DEF Ind
  <2>3. Cardinality(T) = Cardinality(S)
    BY <2>1
  <2>4. QED
    BY <1>1, <2>2, <2>3
<1>3. CASE ~now /\ x \notin S
  <2>1. T = S
    BY <1>3
  <2>2. Ind(now) = 0 /\ Ind(x \in S) = 0
    BY <1>3 DEF Ind
  <2>3. Cardinality(T) = Cardinality(S)
    BY <2>1
  <2>4. QED
    BY <1>1, <2>2, <2>3
<1>4. CASE now /\ x \notin S
  <2>1. T = S \cup {x} /\ S \cap {x} = {}
    BY <1>4
  <2>2. Cardinality(T) = Cardinality(S) + 1
    BY <1>1, <2>1, SizeCame
  <2>3. QED
    BY <1>1, <1>4, <2>2 DEF Ind
<1>5. CASE ~now /\ x \in S
  <2>1. T = S \ {x} /\ {x} \in SUBSET S
    BY <1>5
  <2>2. Cardinality(T) = Cardinality(S) - 1 /\ Cardinality(T) \in Nat
    BY <1>1, <2>1, SizeGone
  <2>3. QED
    BY <1>1, <1>5, <2>2 DEF Ind
<1>6. QED
  BY <1>2, <1>3, <1>4, <1>5

LEMMA StageSize ==
  ASSUME TypeOK, NEW x \in Jobs, NEW s, Move(x, s), NEW ss
  PROVE  /\ Cardinality(InStage(x[1], ss)) \in Nat /\ Cardinality(InStage(x[1], ss)') \in Nat
         /\ Cardinality(InStage(x[1], ss)') =
              Cardinality(InStage(x[1], ss)) + Ind(s \in ss) - Ind(job[x] \in ss)
<1>1. \A y \in Jobs : job'[y] = IF y = x THEN s ELSE job[y]
  BY DEF Move, TypeOK
<1>2. InStage(x[1], ss)' = IF s \in ss THEN InStage(x[1], ss) \cup {x} ELSE InStage(x[1], ss) \ {x}
  BY <1>1 DEF InStage
<1>3. x \in InStage(x[1], ss) <=> job[x] \in ss
  BY DEF InStage
<1>4. PICK now \in BOOLEAN : now <=> s \in ss
  BY Zenon
<1>5. Ind(now) = Ind(s \in ss) /\ Ind(x \in InStage(x[1], ss)) = Ind(job[x] \in ss)
  BY <1>3, <1>4 DEF Ind
<1> DEFINE S == InStage(x[1], ss)
           T == InStage(x[1], ss)'
<1>6. IsFiniteSet(S) /\ T = IF now THEN S \cup {x} ELSE S \ {x}
  BY <1>2, <1>4, InStageFinite
<1> HIDE DEF S, T
<1>7. /\ Cardinality(S) \in Nat /\ Cardinality(T) \in Nat
      /\ Cardinality(T) = Cardinality(S) + Ind(now) - Ind(x \in S)
  BY <1>6, SizeChange
<1>8. QED
  BY <1>5, <1>7 DEF S, T

LEMMA TasksInFinite ==
  ASSUME TypeOK, NEW b \in Batches, NEW sts
  PROVE  IsFiniteSet(TasksIn(b, sts)) /\ Cardinality(TasksIn(b, sts)) \in Nat
<1>1. TasksIn(b, sts) \subseteq Instances
  BY DEF TasksIn, TypeOK, Rows
<1>2. QED
  BY <1>1, FS_Subset, FS_CardinalityType

LEMMA TasksSize ==
  ASSUME TypeOK, NEW b \in Batches, NEW i \in batch[b].of, batch'[b].of = batch[b].of,
         NEW st, task' = [task EXCEPT ![<<b, i>>] = st], NEW sts
  PROVE  /\ Cardinality(TasksIn(b, sts)) \in Nat /\ Cardinality(TasksIn(b, sts)') \in Nat
         /\ Cardinality(TasksIn(b, sts)') =
              Cardinality(TasksIn(b, sts)) + Ind(st \in sts) - Ind(task[<<b, i>>] \in sts)
<1>1. batch[b].of \subseteq Instances
  BY DEF TypeOK, Rows
<1>2. \A j \in batch[b].of : task'[<<b, j>>] = IF j = i THEN st ELSE task[<<b, j>>]
  BY <1>1 DEF TypeOK, Tasks
<1>3. TasksIn(b, sts)' = IF st \in sts THEN TasksIn(b, sts) \cup {i} ELSE TasksIn(b, sts) \ {i}
  BY <1>2 DEF TasksIn
<1>4. i \in TasksIn(b, sts) <=> task[<<b, i>>] \in sts
  BY DEF TasksIn
<1>5. PICK now \in BOOLEAN : now <=> st \in sts
  BY Zenon
<1>6. Ind(now) = Ind(st \in sts) /\ Ind(i \in TasksIn(b, sts)) = Ind(task[<<b, i>>] \in sts)
  BY <1>4, <1>5 DEF Ind
<1> DEFINE S == TasksIn(b, sts)
           T == TasksIn(b, sts)'
<1>7. IsFiniteSet(S) /\ T = IF now THEN S \cup {i} ELSE S \ {i}
  BY <1>3, <1>5, TasksInFinite
<1> HIDE DEF S, T
<1>8. /\ Cardinality(S) \in Nat /\ Cardinality(T) \in Nat
      /\ Cardinality(T) = Cardinality(S) + Ind(now) - Ind(i \in S)
  BY <1>7, SizeChange
<1>9. QED
  BY <1>6, <1>8 DEF S, T

Ok == {"ok"}
Failing == {"due", "failed"}
Won == {"success"}
Bad == {"none", "failure"}

LEMMA CountTypes ==
  ASSUME TypeOK, NEW b \in Batches
  PROVE  batch[b].success \in Nat /\ batch[b].failed \in Nat /\ batch[b].completed \in Nat
BY DEF TypeOK, Rows

\* One job moves; its task follows, and ds successes and df failures are counted.
LEMMA TallyMove ==
  ASSUME TypeOK, Shape, NEW x \in Jobs, job[x] # "none", Tally(x[1]),
         NEW s, Move(x, s), NEW st, task' = [task EXCEPT ![TaskOf(x)] = st],
         NEW ds \in Nat, NEW df \in Nat,
         batch'[x[1]].of = batch[x[1]].of,
         batch'[x[1]].success = batch[x[1]].success + ds,
         batch'[x[1]].failed = batch[x[1]].failed + df,
         ds + Ind(s \in Ok) - Ind(job[x] \in Ok)
           <= Ind(st \in Won) - Ind(task[TaskOf(x)] \in Won),
         df + Ind(s \in Failing) - Ind(job[x] \in Failing)
           <= Ind(st \in Bad) - Ind(task[TaskOf(x)] \in Bad)
  PROVE  Tally(x[1])'
<1> DEFINE b == x[1]
           i == x[2]
<1>1. b \in Batches /\ i \in batch[b].of /\ TaskOf(x) = <<b, i>>
  BY JobShape DEF Shape, Within, TaskOf
<1>2. batch[b].success \in Nat /\ batch[b].failed \in Nat
  BY <1>1, CountTypes
<1>3. /\ Ind(s \in Ok) \in {0, 1} /\ Ind(job[x] \in Ok) \in {0, 1}
      /\ Ind(s \in Failing) \in {0, 1} /\ Ind(job[x] \in Failing) \in {0, 1}
      /\ Ind(st \in Won) \in {0, 1} /\ Ind(task[<<b, i>>] \in Won) \in {0, 1}
      /\ Ind(st \in Bad) \in {0, 1} /\ Ind(task[<<b, i>>] \in Bad) \in {0, 1}
  BY DEF Ind
<1>4. /\ Cardinality(InStage(b, Ok)) \in Nat /\ Cardinality(InStage(b, Ok)') \in Nat
      /\ Cardinality(InStage(b, Ok)') =
           Cardinality(InStage(b, Ok)) + Ind(s \in Ok) - Ind(job[x] \in Ok)
  BY StageSize
<1>5. /\ Cardinality(InStage(b, Failing)) \in Nat /\ Cardinality(InStage(b, Failing)') \in Nat
      /\ Cardinality(InStage(b, Failing)') =
           Cardinality(InStage(b, Failing)) + Ind(s \in Failing) - Ind(job[x] \in Failing)
  BY StageSize
<1>6. /\ Cardinality(TasksIn(b, Won)) \in Nat /\ Cardinality(TasksIn(b, Won)') \in Nat
      /\ Cardinality(TasksIn(b, Won)') =
           Cardinality(TasksIn(b, Won)) + Ind(st \in Won) - Ind(task[<<b, i>>] \in Won)
  BY <1>1, TasksSize
<1>7. /\ Cardinality(TasksIn(b, Bad)) \in Nat /\ Cardinality(TasksIn(b, Bad)') \in Nat
      /\ Cardinality(TasksIn(b, Bad)') =
           Cardinality(TasksIn(b, Bad)) + Ind(st \in Bad) - Ind(task[<<b, i>>] \in Bad)
  BY <1>1, TasksSize
<1>8. /\ batch[b].success + Cardinality(InStage(b, Ok)) <= Cardinality(TasksIn(b, Won))
      /\ batch[b].failed + Cardinality(InStage(b, Failing)) <= Cardinality(TasksIn(b, Bad))
  BY DEF Tally, Ok, Failing, Won, Bad
<1>9. /\ ds + Ind(s \in Ok) - Ind(job[x] \in Ok)
           <= Ind(st \in Won) - Ind(task[<<b, i>>] \in Won)
       /\ df + Ind(s \in Failing) - Ind(job[x] \in Failing)
           <= Ind(st \in Bad) - Ind(task[<<b, i>>] \in Bad)
  BY <1>1
<1>10. batch'[b].success + Cardinality(InStage(b, Ok)') <= Cardinality(TasksIn(b, Won)')
  BY <1>2, <1>3, <1>4, <1>6, <1>8, <1>9
<1>11. batch'[b].failed + Cardinality(InStage(b, Failing)') <= Cardinality(TasksIn(b, Bad)')
  BY <1>2, <1>3, <1>5, <1>7, <1>8, <1>9
<1>12. QED
  BY <1>10, <1>11 DEF Tally, Ok, Failing, Won, Bad

\* Jobs of b come to wait or wait no longer, and the failures counted make up for it.
LEMMA TallyBulk ==
  ASSUME TypeOK, NEW b \in Batches, Tally(b), task' = task,
         batch'[b].of = batch[b].of, batch'[b].success = batch[b].success,
         InStage(b, Ok)' = InStage(b, Ok),
         batch'[b].failed + Cardinality(InStage(b, Failing)')
           <= batch[b].failed + Cardinality(InStage(b, Failing)),
         batch'[b].failed + Cardinality(InStage(b, Failing)') \in Nat
  PROVE  Tally(b)'
<1>1. TasksIn(b, Won)' = TasksIn(b, Won) /\ TasksIn(b, Bad)' = TasksIn(b, Bad)
  BY DEF TasksIn
<1>2. /\ batch[b].success + Cardinality(InStage(b, Ok)) <= Cardinality(TasksIn(b, Won))
      /\ batch[b].failed + Cardinality(InStage(b, Failing)) <= Cardinality(TasksIn(b, Bad))
  BY DEF Tally, Ok, Failing, Won, Bad
<1>3. /\ batch[b].failed \in Nat /\ Cardinality(InStage(b, Failing)) \in Nat
      /\ Cardinality(TasksIn(b, Bad)) \in Nat
  BY CountTypes, InStageFinite, TasksInFinite
<1>4. batch'[b].success + Cardinality(InStage(b, Ok)') <= Cardinality(TasksIn(b, Won)')
  BY <1>1, <1>2
<1>5. batch'[b].failed + Cardinality(InStage(b, Failing)') <= Cardinality(TasksIn(b, Bad)')
  BY <1>1, <1>2, <1>3
<1>6. QED
  BY <1>4, <1>5 DEF Tally, Ok, Failing, Won, Bad

\* A batch that is left alone keeps its tally, and so the step that works on b.
LEMMA TallyRest ==
  ASSUME AllTally, NEW b \in Batches, b \notin raced' => Tally(b)',
         raced \subseteq raced',
         \A c \in Batches \ {b} : batch'[c] = batch[c],
         \A x \in Jobs : x[1] # b => job'[x] = job[x],
         \A t \in Tasks : t[1] # b => task'[t] = task[t], TypeOK
  PROVE  AllTally'
<1>1. ASSUME NEW c \in Batches, c # b, c \notin raced', batch'[c].status # "none"
      PROVE  Tally(c)'
  <2>1. batch'[c] = batch[c] /\ Tally(c)
    BY <1>1 DEF AllTally
  <2>2. \A ss : InStage(c, ss)' = InStage(c, ss)
    BY <1>1 DEF InStage
  <2>3. \A i \in batch[c].of : task'[<<c, i>>] = task[<<c, i>>]
    BY <1>1 DEF TypeOK, Rows, Tasks
  <2>4. \A sts : TasksIn(c, sts)' = TasksIn(c, sts)
    BY <2>1, <2>3 DEF TasksIn
  <2>5. QED
    BY <2>1, <2>2, <2>4 DEF Tally
<1>2. QED
  BY <1>1 DEF AllTally

\* What Booked does to a row.
LEMMA BookedRow ==
  ASSUME TypeOK, NEW b \in Batches, NEW s \in Nat, NEW f \in Nat, Booked(b, s, f)
  PROVE  /\ batch'[b].of = batch[b].of
         /\ batch'[b].success = batch[b].success + s
         /\ batch'[b].failed = batch[b].failed + f
         /\ \A c \in Batches \ {b} : batch'[c] = batch[c]
<1>1. batch[b].success \in Nat /\ batch[b].failed \in Nat
  BY CountTypes
<1>2. CASE batch' = batch /\ s = 0 /\ f = 0
  BY <1>1, <1>2
<1>3. CASE Count(b, s, f)
  <2>1. batch'[b] = Counted(b, s, f) /\ \A c \in Batches \ {b} : batch'[c] = batch[c]
    BY <1>3 DEF Count, TypeOK
  <2>2. QED
    BY <2>1, CountedType
<1>4. QED
  BY <1>2, <1>3 DEF Booked

\* A restart fails with its task stored as running, and drops the jobs of its call.
LEMMA TallyDies ==
  ASSUME Inv, Shape, AllSingle, AllTally, NEW b \in Batches, NEW q \in Retries,
         NEW i \in Instances, <<b, i, q>> \in At(b, q, "due"),
         raced' = raced, batch' = batch, MoveAll(At(b, q, "due"), "none"),
         task' = [task EXCEPT ![<<b, i>>] = "running"]
  PROVE  AllTally'
<1> DEFINE xs == At(b, q, "due")
           x == <<b, i, q>>
           B == InStage(b, Failing)
<1>1. TypeOK /\ q \in Attempts /\ q # First
  BY BatchAssumption DEF Inv, Attempts
<1>2. /\ x \in xs /\ x \in Jobs /\ x[1] = b /\ x[2] = i /\ x[3] = q /\ TaskOf(x) = <<b, i>>
      /\ job[x] = "due" /\ xs \subseteq B
      /\ \A y \in xs : y[1] = b /\ job[y] = "due"
      /\ \A y \in Jobs : job'[y] = IF y \in xs THEN "none" ELSE job[y]
  BY <1>1, AtJobs DEF MoveAll, InStage, Failing, TaskOf
<1>3. InStage(b, Ok)' = InStage(b, Ok) /\ B' = B \ xs
  BY <1>2 DEF InStage, Ok, Failing
<1>4. /\ Cardinality(B) \in Nat /\ Cardinality(B') \in Nat
      /\ Cardinality(B') <= Cardinality(B) - 1
  <2>1. /\ IsFiniteSet(B) /\ IsFiniteSet(B \ {x}) /\ B' \subseteq B \ {x} /\ x \in B
        /\ {x} \in SUBSET B
    BY <1>1, <1>2, <1>3, InStageFinite, FS_Subset
  <2> HIDE DEF B, x
  <2>2. Cardinality(B \ {x}) = Cardinality(B) - 1 /\ Cardinality(B) \in Nat
    BY <2>1, SizeOne, SizeGone, FS_CardinalityType
  <2>3. IsFiniteSet(B') /\ Cardinality(B') <= Cardinality(B \ {x})
    BY <2>1, FS_Subset
  <2>4. QED
    BY <2>2, <2>3, FS_CardinalityType
<1>5. i \in batch[b].of
  BY <1>2 DEF Shape, Within
<1>6. ASSUME b \notin raced PROVE task[<<b, i>>] = "failure"
  BY <1>1, <1>2, <1>6 DEF AllSingle, Single, Held
<1>7. ASSUME b \notin raced, batch[b].status # "none" PROVE Tally(b)'
  <2>1. /\ batch[b].success + Cardinality(InStage(b, Ok)) <= Cardinality(TasksIn(b, Won))
        /\ batch[b].failed + Cardinality(B) <= Cardinality(TasksIn(b, Bad))
    BY <1>7 DEF AllTally, Tally, Ok, Failing, Won, Bad
  <2>2. Cardinality(TasksIn(b, Won)') = Cardinality(TasksIn(b, Won))
    <3>1. /\ Cardinality(TasksIn(b, Won)) \in Nat
          /\ Cardinality(TasksIn(b, Won)') = Cardinality(TasksIn(b, Won))
               + Ind("running" \in Won) - Ind(task[<<b, i>>] \in Won)
      BY <1>1, <1>5, TasksSize
    <3>2. Ind("running" \in Won) = 0 /\ Ind(task[<<b, i>>] \in Won) = 0
      BY <1>6, <1>7 DEF Ind, Won
    <3>3. QED
      BY <3>1, <3>2
  <2>3. /\ Cardinality(TasksIn(b, Bad)) \in Nat
        /\ Cardinality(TasksIn(b, Bad)') = Cardinality(TasksIn(b, Bad)) - 1
    <3>1. /\ Cardinality(TasksIn(b, Bad)) \in Nat
          /\ Cardinality(TasksIn(b, Bad)') = Cardinality(TasksIn(b, Bad))
               + Ind("running" \in Bad) - Ind(task[<<b, i>>] \in Bad)
      BY <1>1, <1>5, TasksSize
    <3>2. Ind("running" \in Bad) = 0 /\ Ind(task[<<b, i>>] \in Bad) = 1
      BY <1>6, <1>7 DEF Ind, Bad
    <3>3. QED
      BY <3>1, <3>2
  <2>4. batch[b].failed \in Nat
    BY <1>1, CountTypes
  <2>5. batch'[b].success + Cardinality(InStage(b, Ok)') <= Cardinality(TasksIn(b, Won)')
    BY <1>3, <2>1, <2>2
  <2> HIDE DEF B
  <2>6. batch'[b].failed + Cardinality(B') <= Cardinality(TasksIn(b, Bad)')
    BY <1>4, <2>1, <2>3, <2>4
  <2>7. QED
    BY <2>5, <2>6 DEF B, Tally, Ok, Failing, Won, Bad
<1>8. \A y \in Jobs : y[1] # b => job'[y] = job[y]
  BY <1>2
<1>9. \A t \in Tasks : t[1] # b => task'[t] = task[t]
  BY <1>1 DEF TypeOK
<1>10. batch[b].status # "none"
  BY <1>1, <1>2, JobIsKnown
<1>11. QED
  BY <1>1, <1>7, <1>8, <1>9, <1>10, TallyRest

LEMMA TallyOne ==
  ASSUME Inv, Shape, AllTally, NEW x \in Jobs, job[x] # "none", raced' = raced,
         NEW s, Move(x, s), NEW st, task' = [task EXCEPT ![TaskOf(x)] = st],
         NEW ds \in Nat, NEW df \in Nat, Booked(x[1], ds, df),
         x[1] \notin raced =>
           /\ ds + Ind(s \in Ok) - Ind(job[x] \in Ok)
                <= Ind(st \in Won) - Ind(task[TaskOf(x)] \in Won)
           /\ df + Ind(s \in Failing) - Ind(job[x] \in Failing)
                <= Ind(st \in Bad) - Ind(task[TaskOf(x)] \in Bad)
  PROVE  AllTally'
<1>1. TypeOK /\ x[1] \in Batches /\ batch[x[1]].status # "none"
  BY JobIsKnown DEF Inv
<1>2. /\ batch'[x[1]].of = batch[x[1]].of
      /\ batch'[x[1]].success = batch[x[1]].success + ds
      /\ batch'[x[1]].failed = batch[x[1]].failed + df
      /\ \A c \in Batches \ {x[1]} : batch'[c] = batch[c]
  BY <1>1, BookedRow
<1>3. x[1] \notin raced' => Tally(x[1])'
  <2> SUFFICES ASSUME x[1] \notin raced PROVE Tally(x[1])'
    OBVIOUS
  <2>1. Tally(x[1])
    BY <1>1 DEF AllTally
  <2>2. QED
    BY <1>1, <1>2, <2>1, TallyMove
<1>4. \A y \in Jobs : y[1] # x[1] => job'[y] = job[y]
  BY <1>1 DEF Move, TypeOK
<1>5. \A t \in Tasks : t[1] # x[1] => task'[t] = task[t]
  BY <1>1, JobShape DEF TypeOK, TaskOf
<1>6. QED
  BY <1>1, <1>2, <1>3, <1>4, <1>5, TallyRest

\* The due jobs xs of b are given up, and not more failures counted than that.
LEMMA TallyDrop ==
  ASSUME Inv, AllTally, NEW b \in Batches, batch[b].status # "none",
         raced' = raced, task' = task, NEW a \in Attempts,
         MoveAll(At(b, a, "due"), "none"),
         NEW f \in Nat, f <= Cardinality(At(b, a, "due")), Booked(b, 0, f)
  PROVE  AllTally'
<1> DEFINE xs == At(b, a, "due")
           B == InStage(b, Failing)
<1>1. TypeOK
  BY DEF Inv
<1>2. /\ batch'[b].of = batch[b].of
      /\ batch'[b].success = batch[b].success + 0
      /\ batch'[b].failed = batch[b].failed + f
      /\ \A c \in Batches \ {b} : batch'[c] = batch[c]
  BY <1>1, BookedRow
<1>3. batch[b].success \in Nat /\ batch[b].failed \in Nat
  BY <1>1, CountTypes
<1>4. /\ xs \subseteq B
      /\ \A x \in xs : x[1] = b /\ job[x] = "due"
      /\ \A y \in Jobs : job'[y] = IF y \in xs THEN "none" ELSE job[y]
  BY AtJobs DEF MoveAll, InStage, Failing
<1>5. InStage(b, Ok)' = InStage(b, Ok) /\ B' = B \ xs
  BY <1>4 DEF InStage, Ok, Failing
<1>6. /\ Cardinality(B) \in Nat /\ Cardinality(xs) \in Nat /\ Cardinality(B') \in Nat
      /\ Cardinality(B') = Cardinality(B) - Cardinality(xs)
  BY <1>4, <1>5, InStageFinite, SizeGone
<1> HIDE DEF B
<1>7. /\ batch'[b].failed + Cardinality(B') <= batch[b].failed + Cardinality(B)
      /\ batch'[b].failed + Cardinality(B') \in Nat
      /\ batch'[b].success = batch[b].success
  BY <1>2, <1>3, <1>6
<1>8. b \notin raced' => Tally(b)'
  <2> SUFFICES ASSUME b \notin raced PROVE Tally(b)'
    OBVIOUS
  <2>1. Tally(b)
    BY DEF AllTally
  <2>2. QED
    BY <1>1, <1>2, <1>5, <1>7, <2>1, TallyBulk DEF B
<1>9. \A x \in Jobs : x[1] # b => job'[x] = job[x]
  BY <1>4
<1>10. QED
  BY <1>1, <1>2, <1>8, <1>9, TallyRest

LEMMA OperateTally ==
  ASSUME Inv, Shape, AllTally, NEW b \in Batches, NEW of \in (SUBSET Instances) \ {{}},
         Operate(b, of)
  PROVE  AllTally'
<1> DEFINE xs == {<<b, i, First>> : i \in of}
<1>1. /\ TypeOK /\ batch[b].status = "none" /\ batch[b].of = {}
      /\ \A x \in Jobs : x[1] = b => job[x] = "none"
      /\ task' = task /\ raced' = raced /\ MoveAll(xs, "due")
  BY DEF Inv, Untouched, Operate, Shape, Reported
<1>2. batch'[b] = Row("running", of) /\ \A c \in Batches \ {b} : batch'[c] = batch[c]
  BY <1>1 DEF Operate, TypeOK
<1>3. batch'[b].of = of /\ batch'[b].success = 0 /\ batch'[b].failed = 0
  BY <1>2 DEF Row
<1>4. Cardinality(xs) = Cardinality(of) /\ Cardinality(of) \in Nat
  <2> DEFINE f == [i \in of |-> <<b, i, First>>]
  <2>1. IsFiniteSet(of) /\ Cardinality(of) \in Nat
    BY FS_Subset, FS_CardinalityType
  <2>2. f \in [of -> xs] /\ \A i, j \in of : f[i] = f[j] => i = j
    OBVIOUS
  <2>3. \A x \in xs : \E i \in of : f[i] = x
    OBVIOUS
  <2>4. f \in Surjection(of, xs) /\ f \in Injection(of, xs)
    BY <2>2, <2>3 DEF Surjection, Injection, IsInjective
  <2>5. QED
    BY <2>1, <2>4, FS_Surjection
<1>5. \A x \in Jobs : job'[x] = IF x \in xs THEN "due" ELSE job[x]
  BY <1>1 DEF MoveAll
<1>6. xs \subseteq Jobs /\ \A x \in xs : x[1] = b
  BY DEF Jobs, Attempts
<1> HIDE DEF xs
<1>7. InStage(b, Ok)' = {} /\ InStage(b, Failing)' = xs
  BY <1>1, <1>5, <1>6 DEF InStage, Ok, Failing
<1>8. TasksIn(b, Bad)' = of
  <2>1. \A i \in of : task[<<b, i>>] = "none"
    BY <1>1 DEF Shape, Within, Tasks
  <2>2. QED
    BY <1>1, <1>3, <2>1 DEF TasksIn, Bad
<1>9. Cardinality(TasksIn(b, Won)') \in Nat
  <2>1. TasksIn(b, Won)' \subseteq Instances
    BY <1>3 DEF TasksIn
  <2>2. QED
    BY <2>1, FS_Subset, FS_CardinalityType
<1>10. Cardinality(InStage(b, Ok)') = 0
  <2>1. Cardinality({}) = 0
    BY FS_EmptySet
  <2>2. QED
    BY <1>7, <2>1
<1>11. Cardinality(InStage(b, Failing)') = Cardinality(of)
  BY <1>4, <1>7, Zenon
<1>12. Cardinality(TasksIn(b, Bad)') = Cardinality(of)
  BY <1>8, Zenon
<1>13. Tally(b)'
  <2>1. batch'[b].success + Cardinality(InStage(b, Ok)') <= Cardinality(TasksIn(b, Won)')
    BY <1>3, <1>9, <1>10
  <2>2. batch'[b].failed + Cardinality(InStage(b, Failing)') <= Cardinality(TasksIn(b, Bad)')
    BY <1>3, <1>4, <1>11, <1>12
  <2>3. QED
    BY <2>1, <2>2 DEF Tally, Ok, Failing, Won, Bad
<1>14. \A x \in Jobs : x[1] # b => job'[x] = job[x]
  BY <1>5, <1>6
<1>15. QED
  BY <1>1, <1>2, <1>13, <1>14, TallyRest

LEMMA OperateStepTally ==
  ASSUME Inv, Shape, AllSingle, AllTally, NEW b \in Batches,
         \/ FailUndispatched(b) \/ OperateDies(b)
         \/ \E i \in Instances : Dispatch(b, i) \/ DispatchLost(b, i) \/ DispatchFails(b, i)
  PROVE  AllTally'
<1>1. /\ TypeOK /\ First \in Attempts
      /\ \A i \in Instances : <<b, i, First>> \in Jobs /\ TaskOf(<<b, i, First>>) = <<b, i>>
  BY DEF Inv, Jobs, Attempts, TaskOf
<1>2. ASSUME NEW i \in Instances, Dispatch(b, i) \/ DispatchLost(b, i) PROVE AllTally'
  <2> DEFINE x == <<b, i, First>>
  <2>1. /\ x \in Jobs /\ job[x] = "due" /\ job[x] # "none" /\ raced' = raced
        /\ Booked(x[1], 0, 0)
    BY <1>1, <1>2 DEF Dispatch, DispatchLost, Booked
  <2>2. x[1] \notin raced => task[TaskOf(x)] = "none"
    BY <1>1, <2>1 DEF AllSingle, Single
  <2>3. CASE Dispatch(b, i)
    <3>1. Move(x, "running") /\ task' = [task EXCEPT ![TaskOf(x)] = "running"]
      BY <1>1, <2>3 DEF Dispatch
    <3>2. x[1] \notin raced =>
            /\ 0 + Ind("running" \in Ok) - Ind(job[x] \in Ok)
                 <= Ind("running" \in Won) - Ind(task[TaskOf(x)] \in Won)
            /\ 0 + Ind("running" \in Failing) - Ind(job[x] \in Failing)
                 <= Ind("running" \in Bad) - Ind(task[TaskOf(x)] \in Bad)
      BY <2>1, <2>2 DEF Ind, Ok, Failing, Won, Bad
    <3>3. QED
      BY <2>1, <3>1, <3>2, TallyOne
  <2>4. CASE DispatchLost(b, i)
    <3>1. Move(x, "none") /\ task' = [task EXCEPT ![TaskOf(x)] = task[TaskOf(x)]]
      BY <1>1, <2>4 DEF DispatchLost, TypeOK
    <3>2. x[1] \notin raced =>
            /\ 0 + Ind("none" \in Ok) - Ind(job[x] \in Ok)
                 <= Ind(task[TaskOf(x)] \in Won) - Ind(task[TaskOf(x)] \in Won)
            /\ 0 + Ind("none" \in Failing) - Ind(job[x] \in Failing)
                 <= Ind(task[TaskOf(x)] \in Bad) - Ind(task[TaskOf(x)] \in Bad)
      BY <2>1 DEF Ind, Ok, Failing
    <3>3. QED
      BY <2>1, <3>1, <3>2, TallyOne
  <2>5. QED
    BY <1>2, <2>3, <2>4
<1>3. ASSUME NEW i \in Instances, DispatchFails(b, i) PROVE AllTally'
  BY <1>3 DEF DispatchFails, AllTally, Tally, InStage, TasksIn
<1>4. CASE FailUndispatched(b)
  <2> DEFINE n == Cardinality(At(b, First, "due"))
  <2>1. /\ batch[b].status # "none" /\ raced' = raced /\ task' = task
        /\ MoveAll(At(b, First, "due"), "none") /\ Booked(b, 0, n)
    BY <1>4 DEF FailUndispatched, Inv, Untouched, Booked
  <2>2. n \in Nat /\ n <= n
    BY <1>1, AtJobs
  <2>3. QED
    BY <1>1, <2>1, <2>2, TallyDrop
<1>5. CASE OperateDies(b)
  <2>1. /\ raced' = raced /\ task' = task
        /\ MoveAll(At(b, First, "due"), "none") /\ Booked(b, 0, 0)
        /\ At(b, First, "due") # {}
    BY <1>5 DEF OperateDies, Booked
  <2>2. batch[b].status # "none" /\ 0 <= Cardinality(At(b, First, "due"))
    BY <1>1, <2>1, DueGone
  <2>3. QED
    BY <1>1, <2>1, <2>2, TallyDrop
<1>6. QED
  BY <1>2, <1>3, <1>4, <1>5

LEMMA JobTally ==
  ASSUME Inv, Shape, AllSingle, AllTally, NEW x \in Jobs,
         JobStep(x) \/ CallbackUncounted(x) \/ RollbackBlind(x)
  PROVE  AllTally'
<1>1. /\ TypeOK /\ x[1] \in Batches /\ TaskOf(x) = <<x[1], x[2]>>
      /\ job[x] # "none" /\ raced' = raced
  BY DEF Inv, Jobs, TaskOf, JobStep, Succeeds, Fails, Callback, Rollback, CallbackUncounted,
         RollbackBlind
<1>2. CASE Succeeds(x) \/ Fails(x)
  <2>1. x[1] \notin raced => task[TaskOf(x)] = "running"
    BY <1>1, <1>2 DEF AllSingle, Single, Succeeds, Fails
  <2>2. job[x] = "running" /\ Booked(x[1], 0, 0)
    BY <1>2 DEF Succeeds, Fails, Booked
  <2>3. PICK p \in {<<"ok", "success">>, <<"failed", "failure">>} :
          Move(x, p[1]) /\ task' = [task EXCEPT ![TaskOf(x)] = p[2]]
    BY <1>1, <1>2 DEF Succeeds, Fails
  <2>4. x[1] \notin raced =>
          /\ 0 + Ind(p[1] \in Ok) - Ind(job[x] \in Ok)
               <= Ind(p[2] \in Won) - Ind(task[TaskOf(x)] \in Won)
          /\ 0 + Ind(p[1] \in Failing) - Ind(job[x] \in Failing)
               <= Ind(p[2] \in Bad) - Ind(task[TaskOf(x)] \in Bad)
    BY <2>1, <2>2 DEF Ind, Ok, Failing, Won, Bad
  <2>5. QED
    BY <1>1, <2>2, <2>3, <2>4, TallyOne
<1>3. CASE Callback(x) \/ CallbackUncounted(x) \/ Rollback(x) \/ RollbackBlind(x)
  <2>1. task' = [task EXCEPT ![TaskOf(x)] = task[TaskOf(x)]]
    BY <1>1, <1>3, JobShape
       DEF Callback, CallbackUncounted, Rollback, RollbackBlind, TypeOK
  <2>2. \E s \in {"none", "rollback"}, ds \in {0, 1}, df \in {0, 1} :
          /\ Move(x, s) /\ Booked(x[1], ds, df)
          /\ ds = 1 => job[x] = "ok"
          /\ df = 1 => job[x] = "failed"
    <3>1. CASE Callback(x)
      BY <3>1 DEF Callback, Booked
    <3>2. CASE CallbackUncounted(x) \/ Rollback(x) \/ RollbackBlind(x)
      BY <3>2 DEF CallbackUncounted, Rollback, RollbackBlind, Booked
    <3>3. QED
      BY <1>3, <3>1, <3>2
  <2>3. PICK s \in {"none", "rollback"}, ds \in {0, 1}, df \in {0, 1} :
          /\ Move(x, s) /\ Booked(x[1], ds, df)
          /\ ds = 1 => job[x] = "ok"
          /\ df = 1 => job[x] = "failed"
    BY <2>2
  <2>4. ds \in Nat /\ df \in Nat
    OBVIOUS
  <2>5. /\ ds + Ind(s \in Ok) - Ind(job[x] \in Ok)
             <= Ind(task[TaskOf(x)] \in Won) - Ind(task[TaskOf(x)] \in Won)
        /\ df + Ind(s \in Failing) - Ind(job[x] \in Failing)
             <= Ind(task[TaskOf(x)] \in Bad) - Ind(task[TaskOf(x)] \in Bad)
    BY <2>3 DEF Ind, Ok, Failing
  <2>6. QED
    BY <1>1, <2>1, <2>3, <2>4, <2>5, TallyOne
<1>4. QED
  BY <1>2, <1>3 DEF JobStep


LEMMA RetryListTally ==
  ASSUME Inv, AllTally, NEW q \in Retries, NEW b \in Batches, RetryList(q, b)
  PROVE  AllTally'
<1> DEFINE is == IF batch[b].status = "succeed" THEN {} ELSE FailedTasks(b)
           xs == {<<b, i, q>> : i \in is}
<1>1. \A x \in xs : x[1] = b /\ x[3] = q
  OBVIOUS
<1>2. /\ MoveAll(xs, "listed") /\ batch' = batch /\ task' = task /\ raced \subseteq raced'
      /\ q \notin made /\ TypeOK /\ batch[b].status # "none"
  BY DEF RetryList, is, Inv
<1> HIDE DEF xs
<1>3. \A x \in Jobs : job'[x] = job[x] \/ (x[1] = b /\ job[x] = "none" /\ job'[x] = "listed")
  BY <1>1, <1>2 DEF MoveAll, Inv, Unasked
<1>4. InStage(b, Ok)' = InStage(b, Ok) /\ InStage(b, Failing)' = InStage(b, Failing)
  BY <1>3 DEF InStage, Ok, Failing
<1>5. batch'[b].failed + Cardinality(InStage(b, Failing)') \in Nat
  BY <1>2, <1>4, CountTypes, InStageFinite
<1>6. b \notin raced' => Tally(b)'
  <2> SUFFICES ASSUME b \notin raced PROVE Tally(b)'
    BY <1>2
  <2>1. Tally(b)
    BY <1>2 DEF AllTally
  <2>2. batch'[b].failed + Cardinality(InStage(b, Failing)')
          <= batch[b].failed + Cardinality(InStage(b, Failing))
    BY <1>2, <1>4, <1>5
  <2>3. QED
    BY <1>2, <1>4, <1>5, <2>1, <2>2, TallyBulk
<1>7. \A x \in Jobs : x[1] # b => job'[x] = job[x]
  BY <1>3
<1>8. QED
  BY <1>2, <1>6, <1>7, TallyRest

LEMMA RetryResetTally ==
  ASSUME Inv, AllTally, NEW q \in Retries, NEW b \in Batches, RetryReset(q, b)
  PROVE  AllTally'
<1> DEFINE xs == At(b, q, "listed")
           n  == Cardinality(xs)
           B  == InStage(b, Failing)
<1>1. TypeOK /\ raced' = raced /\ task' = task /\ xs # {}
  BY DEF Inv, RetryReset
<1>2. /\ xs \subseteq Jobs /\ IsFiniteSet(xs) /\ n \in Nat
      /\ \A x \in xs : x[1] = b /\ job[x] = "listed"
  BY AtJobs DEF Attempts
<1>3. batch[b].status # "none"
  BY <1>1, <1>2, JobIsKnown
<1>4. PICK s \in {"none", "due"} : MoveAll(xs, s)
  BY DEF RetryReset
<1>5. \A x \in Jobs : job'[x] = IF x \in xs THEN s ELSE job[x]
  BY <1>4 DEF MoveAll
<1>6. InStage(b, Ok)' = InStage(b, Ok)
  BY <1>2, <1>5 DEF InStage, Ok
<1>7. IsFiniteSet(B) /\ Cardinality(B) \in Nat /\ B \cap xs = {}
  <2>1. \A x \in B : job[x] # "listed"
    BY DEF InStage, Failing
  <2>2. B \cap xs = {}
    BY <1>2, <2>1
  <2>3. QED
    BY <2>2, InStageFinite
<1>8. batch[b].failed \in Nat
  BY <1>1, CountTypes
<1>9. /\ batch'[b].of = batch[b].of /\ batch'[b].success = batch[b].success
      /\ \A c \in Batches \ {b} : batch'[c] = batch[c]
      /\ batch'[b].failed + Cardinality(B') = batch[b].failed + Cardinality(B)
  <2>1. CASE Fits(b, n)
    <3>1. /\ batch' = [batch EXCEPT ![b] =
               [status |-> "running", of |-> batch[b].of,
                completed |-> batch[b].completed - n,
                success |-> batch[b].success, failed |-> batch[b].failed - n]]
          /\ MoveAll(xs, "due")
      BY <1>1, <2>1, ResetRow
    <3>2. /\ batch'[b].of = batch[b].of /\ batch'[b].success = batch[b].success
          /\ batch'[b].failed = batch[b].failed - n
          /\ \A c \in Batches \ {b} : batch'[c] = batch[c]
      BY <1>1, <3>1 DEF TypeOK
    <3>3. B' = B \cup xs
      BY <1>2, <3>1 DEF MoveAll, InStage, Failing
    <3> HIDE DEF B, xs
    <3>4. Cardinality(B \cup xs) = Cardinality(B) + n
      BY <1>2, <1>7, SizeCame
    <3>5. Cardinality(B') = Cardinality(B) + n
      BY <3>3, <3>4, Zenon
    <3>6. QED
      BY <1>2, <1>7, <1>8, <3>2, <3>5
  <2>2. CASE ~Fits(b, n)
    <3>1. batch' = batch /\ MoveAll(xs, "none")
      BY <2>2 DEF RetryReset
    <3>2. B' = B
      BY <1>2, <3>1 DEF MoveAll, InStage, Failing
    <3> HIDE DEF B, xs
    <3>3. QED
      BY <3>1, <3>2
  <2>3. QED
    BY <2>1, <2>2
<1>10. b \notin raced' => Tally(b)'
  <2> SUFFICES ASSUME b \notin raced PROVE Tally(b)'
    BY <1>1
  <2>1. Tally(b)
    BY <1>3 DEF AllTally
  <2> HIDE DEF B
  <2>2. /\ batch'[b].failed + Cardinality(B') <= batch[b].failed + Cardinality(B)
        /\ batch'[b].failed + Cardinality(B') \in Nat
    BY <1>7, <1>8, <1>9
  <2>3. QED
    BY <1>1, <1>6, <1>9, <2>1, <2>2, TallyBulk DEF B
<1>11. \A x \in Jobs : x[1] # b => job'[x] = job[x]
  BY <1>2, <1>5
<1> HIDE DEF B, xs
<1>12. QED
  BY <1>1, <1>9, <1>10, <1>11, TallyRest

LEMMA RestartTally ==
  ASSUME Inv, Shape, AllSingle, AllTally, NEW q \in Retries, NEW b \in Batches,
         NEW i \in Instances, Restart(q, b, i) \/ RetryDies(q, b, i)
  PROVE  AllTally'
<1> DEFINE x == <<b, i, q>>
<1>1. /\ TypeOK /\ x \in Jobs /\ x[1] = b /\ x[3] # First /\ TaskOf(x) = <<b, i>>
      /\ job[x] = "due" /\ raced' = raced /\ q \in Attempts
  BY DEF Inv, Jobs, Attempts, TaskOf, Restart, RetryDies
<1>2. batch[b].status # "none"
  BY <1>1, JobIsKnown
<1>3. CASE Restart(q, b, i)
  <2>1. b \notin raced => task[TaskOf(x)] = "failure"
    BY <1>1 DEF AllSingle, Single, Held
  <2>2. /\ Move(x, "running") /\ task' = [task EXCEPT ![TaskOf(x)] = "running"]
        /\ Booked(x[1], 0, 0)
    BY <1>1, <1>3 DEF Restart, Booked
  <2>3. x[1] \notin raced =>
          /\ 0 + Ind("running" \in Ok) - Ind(job[x] \in Ok)
               <= Ind("running" \in Won) - Ind(task[TaskOf(x)] \in Won)
          /\ 0 + Ind("running" \in Failing) - Ind(job[x] \in Failing)
               <= Ind("running" \in Bad) - Ind(task[TaskOf(x)] \in Bad)
    BY <1>1, <2>1 DEF Ind, Ok, Failing, Won, Bad
  <2>4. job[x] # "none"
    BY <1>1
  <2> HIDE DEF x
  <2>5. QED
    BY <1>1, <2>2, <2>3, <2>4, TallyOne
<1>4. CASE RetryDies(q, b, i)
  <2>1. /\ MoveAll(At(b, q, "due"), "none") /\ Booked(b, 0, 0) /\ batch' = batch
        /\ task' \in {task, [task EXCEPT ![<<b, i>>] = "running"]}
    BY <1>4 DEF RetryDies, Booked
  <2>2. 0 <= Cardinality(At(b, q, "due"))
    BY <1>1, AtJobs
  <2>3. CASE task' = task
    BY <1>1, <1>2, <2>1, <2>2, <2>3, TallyDrop
  <2>4. CASE task' = [task EXCEPT ![<<b, i>>] = "running"]
    <3>1. <<b, i, q>> \in At(b, q, "due")
      BY <1>1 DEF At, JobsOf
    <3>2. QED
      BY <1>1, <2>1, <2>4, <3>1, TallyDies
  <2>5. QED
    BY <2>1, <2>3, <2>4
<1>5. QED
  BY <1>3, <1>4

LEMMA InitTally == Init => AllTally
BY DEF Init, AllTally, Row

LEMMA NextTally == Inv /\ Shape /\ AllSingle /\ AllTally /\ [Next]_vars => AllTally'
<1> SUFFICES ASSUME Inv, Shape, AllSingle, AllTally, [Next]_vars PROVE AllTally'
  OBVIOUS
<1>1. CASE UNCHANGED vars
  BY <1>1 DEF vars, AllTally, Tally, InStage, TasksIn
<1>2. CASE Next
  <2>1. ASSUME NEW b \in Batches, \E of \in (SUBSET Instances) \ {{}} : Operate(b, of)
        PROVE  AllTally'
    BY <2>1, OperateTally
  <2>2. ASSUME NEW b \in Batches, OperateStep(b) \/ OperateDies(b) PROVE AllTally'
    BY <2>2, OperateStepTally DEF OperateStep
  <2>3. ASSUME NEW b \in Batches, NEW i \in Instances, DispatchLost(b, i) \/ DispatchFails(b, i)
        PROVE  AllTally'
    BY <2>3, OperateStepTally
  <2>4. ASSUME NEW x \in Jobs, JobStep(x) \/ CallbackUncounted(x) \/ RollbackBlind(x)
        PROVE  AllTally'
    BY <2>4, JobTally
  <2>5. ASSUME NEW q \in Retries, NEW b \in Batches, RetryReset(q, b) \/ RetryList(q, b)
        PROVE  AllTally'
    BY <2>5, RetryResetTally, RetryListTally
  <2>6. ASSUME NEW q \in Retries, NEW b \in Batches, NEW i \in Instances,
               Restart(q, b, i) \/ RetryDies(q, b, i)
        PROVE  AllTally'
    BY <2>6, RestartTally
  <2>7. QED
    BY <1>2, <2>1, <2>2, <2>3, <2>4, <2>5, <2>6 DEF Next, RetryStep
<1>3. QED
  BY <1>1, <1>2

-----------------------------------------------------------------------------
(* What the status tells.                                                  *)

\* The tasks of a batch that has ended are counted exactly.
LEMMA EndedExact ==
  ASSUME Inv, Shape, AllTally, NEW b \in Batches \ raced, batch[b].status \in Ended
  PROVE  /\ batch[b].success = Cardinality(TasksIn(b, Won))
         /\ batch[b].failed + Cardinality(TasksIn(b, Won)) = Cardinality(batch[b].of)
         /\ Cardinality(TasksIn(b, Won)) \in Nat /\ batch[b].failed \in Nat
         /\ IsFiniteSet(batch[b].of) /\ TasksIn(b, Won) \subseteq batch[b].of
<1> DEFINE of == batch[b].of
           W  == TasksIn(b, Won)
           L  == TasksIn(b, Bad)
<1>1. TypeOK /\ batch[b].status # "none" /\ Tally(b) /\ Balanced(b)
  BY BalancedIsLedger DEF Inv, AllTally, Ended
<1>2. IsFiniteSet(of) /\ Cardinality(of) \in Nat
  <2>1. of \subseteq Instances
    BY <1>1 DEF TypeOK, Rows
  <2>2. QED
    BY <2>1, FS_Subset, FS_CardinalityType
<1>3. W \subseteq of /\ L \subseteq of /\ W \cap L = {}
  BY DEF TasksIn, Won, Bad
<1>4. /\ batch[b].success \in Nat /\ batch[b].failed \in Nat /\ batch[b].completed \in Nat
      /\ lost[b] \in Nat
  BY <1>1, CountTypes DEF TypeOK
<1>5. batch[b].success + batch[b].failed = Cardinality(of)
  <2>1. lost[b] = 0 /\ InStage(b, Counting) = {}
    BY InvEnds DEF TerminalMeansEnded
  <2>2. Cardinality(InStage(b, Counting)) = 0
    BY <2>1, FS_EmptySet
  <2>3. QED
    BY <1>1, <1>4, <2>1, <2>2 DEF Balanced, Total
<1>6. /\ Cardinality(InStage(b, Ok)) \in Nat /\ Cardinality(InStage(b, Failing)) \in Nat
      /\ batch[b].success + Cardinality(InStage(b, Ok)) <= Cardinality(W)
      /\ batch[b].failed + Cardinality(InStage(b, Failing)) <= Cardinality(L)
  BY <1>1, InStageFinite DEF Tally, Ok, Failing, Won, Bad
<1> HIDE DEF of, W, L
<1>7. /\ Cardinality(W) \in Nat /\ Cardinality(L) \in Nat
      /\ Cardinality(W) + Cardinality(L) <= Cardinality(of)
  <2>1. IsFiniteSet(W) /\ IsFiniteSet(L)
    BY <1>2, <1>3, FS_Subset
  <2>2. /\ Cardinality(W) \in Nat /\ Cardinality(L) \in Nat
        /\ Cardinality(W \cup L) = Cardinality(W) + Cardinality(L)
    BY <1>3, <2>1, SizeCame
  <2>3. W \cup L \subseteq of
    BY <1>3
  <2>4. Cardinality(W \cup L) <= Cardinality(of)
    BY <1>2, <2>3, FS_Subset
  <2>5. QED
    BY <2>2, <2>4
<1>8. batch[b].success = Cardinality(W) /\ batch[b].failed + Cardinality(W) = Cardinality(of)
  BY <1>2, <1>4, <1>5, <1>6, <1>7
<1>9. QED
  BY <1>2, <1>3, <1>4, <1>7, <1>8 DEF of, W

LEMMA WonNotNone == ASSUME NEW b PROVE
  {i \in batch[b].of : task[<<b, i>>] = "success"} = TasksIn(b, Won)
BY DEF TasksIn, Won

LEMMA EndedMatches == Inv /\ Shape /\ AllTally => ResultMatches
<1> SUFFICES ASSUME Inv, Shape, AllTally, NEW b \in Batches \ raced, batch[b].status \in Ended
             PROVE  /\ batch[b].status = "succeed" <=> TasksIn(b, Won) = batch[b].of
                    /\ batch[b].status = "failed" <=> TasksIn(b, Won) = {}
  BY WonNotNone DEF ResultMatches
<1> DEFINE of == batch[b].of
           W  == TasksIn(b, Won)
<1>1. /\ batch[b].success = Cardinality(W) /\ batch[b].failed + Cardinality(W) = Cardinality(of)
      /\ Cardinality(W) \in Nat /\ batch[b].failed \in Nat
      /\ IsFiniteSet(of) /\ W \subseteq of
  BY EndedExact
<1>2. batch[b].status = StatusOf(batch[b].success, batch[b].failed) /\ of # {}
  BY DEF Shape, Reported, Ended
<1> HIDE DEF of, W
<1>3. IsFiniteSet(W)
  BY <1>1, FS_Subset
<1>4. batch[b].failed = 0 <=> W = of
  <2>1. CASE W = of
    <3>1. Cardinality(W) = Cardinality(of)
      BY <2>1, Zenon
    <3>2. QED
      BY <1>1, <2>1, <3>1
  <2>2. CASE W # of
    <3>1. Cardinality(W) < Cardinality(of)
      BY <1>1, <2>2, FS_Subset
    <3>2. QED
      BY <1>1, <2>2, <3>1
  <2>3. QED
    BY <2>1, <2>2
<1>5. batch[b].success = 0 <=> W = {}
  BY <1>1, <1>3, FS_EmptySet
<1>6. batch[b].success = 0 => batch[b].failed # 0
  BY <1>2, <1>4, <1>5
<1>7. QED
  BY <1>2, <1>4, <1>5, <1>6 DEF StatusOf, of, W

\* The status of a batch that has ended says what became of its tasks, whatever dispatches
\* and retries failed on the way and in whatever order the callbacks counted: the counts of
\* OperateProcess, TaskCallback and RetryTasks are those of the tasks.
THEOREM ResultIsRight == Spec => []ResultMatches
<1>1. QED
  BY InitInv, NextInv, InitShape, NextShape, InitSingle, NextSingle, InitTally, NextTally,
     EndedMatches, PTL DEF Spec

-----------------------------------------------------------------------------
(* Success is final.                                                       *)

\* The steps of Next, by the part of the state they belong to.
LEMMA StepOf ==
  ASSUME Next
  PROVE  \/ \E b \in Batches, of \in (SUBSET Instances) \ {{}} : Operate(b, of)
         \/ \E b \in Batches :
              \/ FailUndispatched(b) \/ OperateDies(b)
              \/ \E i \in Instances : Dispatch(b, i) \/ DispatchLost(b, i) \/ DispatchFails(b, i)
         \/ \E x \in Jobs : JobStep(x) \/ CallbackUncounted(x) \/ RollbackBlind(x)
         \/ \E q \in Retries, b \in Batches :
              \/ RetryList(q, b) \/ RetryReset(q, b)
              \/ \E i \in Instances : Restart(q, b, i) \/ RetryDies(q, b, i)
BY DEF Next, OperateStep, RetryStep

\* The steps that write a row, and those that write the status of a task.
LEMMA RowSteps ==
  ASSUME Next
  PROVE  \/ batch' = batch
         \/ \E b \in Batches, of \in (SUBSET Instances) \ {{}} : Operate(b, of)
         \/ \E b \in Batches : FailUndispatched(b)
         \/ \E x \in Jobs : Callback(x)
         \/ \E q \in Retries, b \in Batches : RetryReset(q, b)
BY StepOf
   DEF OperateDies, Dispatch, DispatchLost, DispatchFails, JobStep, Succeeds, Fails,
       Rollback, CallbackUncounted, RollbackBlind, RetryList, Restart, RetryDies

LEMMA TaskSteps ==
  ASSUME Next
  PROVE  \/ task' = task
         \/ \E b \in Batches, i \in Instances : Dispatch(b, i)
         \/ \E q \in Retries, b \in Batches, i \in Instances : Restart(q, b, i) \/ RetryDies(q, b, i)
         \/ \E x \in Jobs : Succeeds(x) \/ Fails(x)
<1>1. ASSUME NEW b \in Batches, NEW i, NEW of,
             \/ Operate(b, of) \/ FailUndispatched(b) \/ OperateDies(b)
             \/ DispatchLost(b, i) \/ DispatchFails(b, i)
      PROVE  task' = task
  BY <1>1 DEF Operate, FailUndispatched, OperateDies, DispatchLost, DispatchFails
<1>2. ASSUME NEW x \in Jobs, JobStep(x) \/ CallbackUncounted(x) \/ RollbackBlind(x)
      PROVE  task' = task \/ Succeeds(x) \/ Fails(x)
  BY <1>2 DEF JobStep, Callback, Rollback, CallbackUncounted, RollbackBlind
<1>3. ASSUME NEW q \in Retries, NEW b \in Batches, NEW i,
             RetryList(q, b) \/ RetryReset(q, b)
      PROVE  task' = task
  BY <1>3 DEF RetryList, RetryReset
<1>4. QED
  BY <1>1, <1>2, <1>3, StepOf

LEMMA RacedGrows == [Next]_vars => raced \subseteq raced'
<1>1. CASE UNCHANGED vars
  BY <1>1 DEF vars
<1>2. CASE Next
  <2>1. ASSUME NEW q \in Retries, NEW b \in Batches, RetryList(q, b) PROVE raced \subseteq raced'
    BY <2>1 DEF RetryList
  <2>2. ASSUME NEW b \in Batches, NEW i, NEW of,
               \/ Operate(b, of) \/ FailUndispatched(b) \/ OperateDies(b)
               \/ Dispatch(b, i) \/ DispatchLost(b, i) \/ DispatchFails(b, i)
        PROVE  raced' = raced
    BY <2>2 DEF Operate, FailUndispatched, OperateDies, Dispatch, DispatchLost, DispatchFails
  <2>3. ASSUME NEW x \in Jobs, JobStep(x) \/ CallbackUncounted(x) \/ RollbackBlind(x)
        PROVE  raced' = raced
    BY <2>3 DEF JobStep, Succeeds, Fails, Callback, Rollback, CallbackUncounted, RollbackBlind
  <2>4. ASSUME NEW q \in Retries, NEW b \in Batches, NEW i,
               RetryReset(q, b) \/ Restart(q, b, i) \/ RetryDies(q, b, i)
        PROVE  raced' = raced
    BY <2>4 DEF RetryReset, Restart, RetryDies
  <2>5. raced' = raced \/ \E q \in Retries, b \in Batches : RetryList(q, b)
    BY <1>2, <2>2, <2>3, <2>4, StepOf
  <2>6. QED
    BY <2>1, <2>5
<1>3. QED
  BY <1>1, <1>2

\* No step puts the task of a batch no two retries have worked on from success back.
LEMMA TaskStays ==
  ASSUME Inv, AllSingle, [Next]_vars, NEW b \in Batches \ raced, NEW i \in Instances,
         task[<<b, i>>] = "success"
  PROVE  task'[<<b, i>>] = "success"
<1>1. TypeOK /\ Single(b) /\ <<b, i>> \in Tasks
  BY DEF Inv, AllSingle, Tasks
<1>2. CASE task' = task
  BY <1>2
<1>3. ASSUME NEW x \in Jobs, NEW st, task' = [task EXCEPT ![TaskOf(x)] = st],
             \/ st = "success"
             \/ job[x] = "running"
             \/ job[x] = "due"
      PROVE  task'[<<b, i>>] = "success"
  <2>1. TaskOf(x) = <<b, i>> => x[1] = b
    BY DEF TaskOf
  <2>2. TaskOf(x) = <<b, i>> => st = "success"
    BY <1>1, <1>3, <2>1 DEF Single, Held
  <2>3. QED
    BY <1>1, <1>3, <2>2, JobShape DEF TypeOK
<1>4. CASE \E c \in Batches, j \in Instances : Dispatch(c, j)
  <2>1. PICK c \in Batches, j \in Instances : Dispatch(c, j)
    BY <1>4
  <2> DEFINE x == <<c, j, First>>
  <2>2. /\ x \in Jobs /\ job[x] = "due"
        /\ task' = [task EXCEPT ![TaskOf(x)] = "running"]
    BY <2>1 DEF Dispatch, Jobs, Attempts, TaskOf
  <2> HIDE DEF x
  <2>3. QED
    BY <1>3, <2>2
<1>5. CASE \E q \in Retries, c \in Batches, j \in Instances : Restart(q, c, j) \/ RetryDies(q, c, j)
  <2>1. PICK q \in Retries, c \in Batches, j \in Instances : Restart(q, c, j) \/ RetryDies(q, c, j)
    BY <1>5
  <2> DEFINE x == <<c, j, q>>
  <2>2. /\ x \in Jobs /\ job[x] = "due"
        /\ task' \in {task, [task EXCEPT ![TaskOf(x)] = "running"]}
    BY <2>1 DEF Restart, RetryDies, Jobs, Attempts, TaskOf
  <2> HIDE DEF x
  <2>3. QED
    BY <1>2, <1>3, <2>2
<1>6. CASE \E x \in Jobs : Succeeds(x) \/ Fails(x)
  <2>1. PICK x \in Jobs : Succeeds(x) \/ Fails(x)
    BY <1>6
  <2>2. job[x] = "running" /\ \E st : task' = [task EXCEPT ![TaskOf(x)] = st]
    BY <2>1 DEF Succeeds, Fails, TaskOf
  <2>3. QED
    BY <1>3, <2>2
<1>7. CASE Next
  <2>1. \/ task' = task
        \/ \E c \in Batches, j \in Instances : Dispatch(c, j)
        \/ \E q \in Retries, c \in Batches, j \in Instances : Restart(q, c, j) \/ RetryDies(q, c, j)
        \/ \E x \in Jobs : Succeeds(x) \/ Fails(x)
    BY <1>7, TaskSteps
  <2>2. QED
    BY <1>2, <1>4, <1>5, <1>6, <2>1
<1>8. QED
  BY <1>2, <1>7 DEF vars

\* No step takes success back from a batch either.
LEMMA SucceedStays ==
  ASSUME Inv, Shape, AllSingle, AllTally, [Next]_vars, NEW b \in Batches \ raced,
         batch[b].status = "succeed"
  PROVE  batch'[b].status = "succeed"
<1>1. TypeOK /\ batch[b].status \in Ended
  BY DEF Inv, Ended
<1>2. InStage(b, Counting) = {} /\ \A i \in batch[b].of : task[<<b, i>>] = "success"
  <2>1. {i \in batch[b].of : task[<<b, i>>] = "success"} = batch[b].of
    BY <1>1, EndedMatches DEF ResultMatches
  <2>2. QED
    BY <1>1, <2>1, InvEnds DEF TerminalMeansEnded
<1>3. ASSUME NEW x \in Jobs, x[1] = b PROVE job[x] \notin Counting \cup {"listed"}
  <2>1. job[x] \notin Counting
    BY <1>2, <1>3 DEF InStage
  <2>2. ASSUME job[x] = "listed" PROVE FALSE
    <3>1. task[TaskOf(x)] = "failure"
      BY <1>3, <2>2 DEF AllSingle, Single, Held
    <3>2. x[2] \in batch[b].of
      BY <1>3, <2>2 DEF Shape, Within
    <3>3. QED
      BY <1>2, <1>3, <3>1, <3>2 DEF TaskOf
  <2>3. QED
    BY <2>1, <2>2
<1>4. CASE batch' = batch
  BY <1>4
<1>5. CASE \E c \in Batches, of \in (SUBSET Instances) \ {{}} : Operate(c, of)
  BY <1>1, <1>5 DEF Operate, TypeOK
<1>6. CASE \E c \in Batches : FailUndispatched(c)
  <2>1. PICK c \in Batches : FailUndispatched(c)
    BY <1>6
  <2> DEFINE n == Cardinality(At(c, First, "due"))
  <2>2. n \in Nat /\ batch' = [batch EXCEPT ![c] = Counted(c, 0, n)]
    BY <2>1, AtJobs DEF FailUndispatched, Count, Attempts
  <2>3. CASE c = b
    <3>1. At(b, First, "due") = {}
      <4>1. \A x \in At(b, First, "due") : x \in Jobs /\ x[1] = b /\ job[x] = "due"
        BY AtJobs DEF Attempts
      <4>2. QED
        BY <1>3, <4>1 DEF Counting
    <3>2. n = 0
      BY <2>3, <3>1, FS_EmptySet
    <3>3. batch'[b] = Counted(b, 0, 0)
      BY <1>1, <2>2, <2>3, <3>2 DEF TypeOK
    <3>4. batch[b].success \in Nat /\ batch[b].failed \in Nat
      BY <1>1, CountTypes
    <3>5. StatusOf(batch[b].success + 0, batch[b].failed + 0) = "succeed"
      BY <1>1, <3>4 DEF Shape, Reported
    <3>6. QED
      BY <3>3, <3>5 DEF Counted
  <2>4. CASE c # b
    BY <1>1, <2>2, <2>4 DEF TypeOK
  <2>5. QED
    BY <2>3, <2>4
<1>7. CASE \E x \in Jobs : Callback(x)
  <2>1. PICK x \in Jobs : Callback(x)
    BY <1>7
  <2>2. job[x] \in Counting
    BY <2>1 DEF Callback, Counting
  <2>3. x[1] # b
    BY <1>3, <2>2
  <2>4. QED
    BY <1>1, <2>1, <2>3 DEF Callback, Count, TypeOK
<1>8. CASE \E q \in Retries, c \in Batches : RetryReset(q, c)
  <2>1. PICK q \in Retries, c \in Batches : RetryReset(q, c)
    BY <1>8
  <2>2. c # b
    <3>1. PICK x \in At(c, q, "listed") : TRUE
      BY <2>1 DEF RetryReset
    <3>2. x \in Jobs /\ x[1] = c /\ job[x] = "listed"
      BY <3>1, AtJobs DEF Attempts
    <3>3. QED
      BY <1>3, <3>2
  <2>3. QED
    BY <1>1, <2>1, <2>2 DEF RetryReset, TypeOK
<1>9. CASE Next
  <2>1. \/ batch' = batch
        \/ \E c \in Batches, of \in (SUBSET Instances) \ {{}} : Operate(c, of)
        \/ \E c \in Batches : FailUndispatched(c)
        \/ \E x \in Jobs : Callback(x)
        \/ \E q \in Retries, c \in Batches : RetryReset(q, c)
    BY <1>9, RowSteps
  <2>2. QED
    BY <1>4, <1>5, <1>6, <1>7, <1>8, <2>1
<1>10. QED
  BY <1>4, <1>9 DEF vars

\* A task that has succeeded is not run again and a batch that has succeeded stays so,
\* whatever RetryTasks is asked to do, one call at a time.
THEOREM SuccessStays == Spec => SuccessIsFinal
<1> DEFINE Kept == \A b \in Batches \ raced' :
             /\ batch[b].status = "succeed" => batch'[b].status = "succeed"
             /\ \A i \in Instances : task[<<b, i>>] = "success" => task'[<<b, i>>] = "success"
<1>1. Inv /\ Shape /\ AllSingle /\ AllTally /\ [Next]_vars => [Kept]_vars
  <2> SUFFICES ASSUME Inv, Shape, AllSingle, AllTally, [Next]_vars, NEW b \in Batches \ raced'
               PROVE  /\ batch[b].status = "succeed" => batch'[b].status = "succeed"
                      /\ \A i \in Instances :
                           task[<<b, i>>] = "success" => task'[<<b, i>>] = "success"
    OBVIOUS
  <2>1. b \in Batches \ raced
    BY RacedGrows
  <2>2. QED
    BY <2>1, SucceedStays, TaskStays
<1> HIDE DEF Kept
<1>2. Spec => [][Kept]_vars
  BY <1>1, InitInv, NextInv, InitShape, NextShape, InitSingle, NextSingle, InitTally,
     NextTally, PTL DEF Spec
<1>3. QED
  BY <1>2 DEF SuccessIsFinal, Kept

-----------------------------------------------------------------------------
(* Refinement: each batch takes a step of OperationBatch, or none.         *)

\* A batch that runs has a count to come.
Short == \A b \in Batches : batch[b].status = "running" => batch[b].completed < Total(b)

\* A batch counts s successes and f failures more: if it runs after that, it is not complete.
LEMMA CountShort ==
  ASSUME TypeOK, NEW b \in Batches, NEW s \in Nat, NEW f \in Nat, Count(b, s, f)
  PROVE  /\ \A c \in Batches \ {b} : batch'[c] = batch[c]
         /\ batch'[b].of = batch[b].of
         /\ batch'[b].status = "running" => batch'[b].completed < Cardinality(batch'[b].of)
<1>1. batch'[b] = Counted(b, s, f) /\ \A c \in Batches \ {b} : batch'[c] = batch[c]
  BY DEF TypeOK, Count
<1>2. /\ batch'[b].of = batch[b].of
      /\ batch'[b].completed = batch[b].completed + s + f
      /\ batch'[b].status = IF batch[b].completed + s + f >= Total(b)
                            THEN StatusOf(batch[b].success + s, batch[b].failed + f)
                            ELSE batch[b].status
  BY <1>1 DEF Counted
<1>3. batch[b].completed \in Nat /\ Total(b) \in Nat
  BY CountTypes, TotalType
<1>4. StatusOf(batch[b].success + s, batch[b].failed + f) # "running"
  BY DEF StatusOf
<1>5. QED
  BY <1>1, <1>2, <1>3, <1>4 DEF Total

LEMMA InitShort == Init => Short
BY DEF Init, Short, Row

LEMMA NextShort == Inv /\ Short /\ [Next]_vars => Short'
<1> SUFFICES ASSUME Inv, Short, [Next]_vars, NEW b \in Batches, batch'[b].status = "running"
             PROVE  batch'[b].completed < Cardinality(batch'[b].of)
  BY DEF Short, Total
<1>1. TypeOK
  BY DEF Inv
<1>2. CASE batch'[b] = batch[b]
  BY <1>2 DEF Short, Total
<1>3. ASSUME NEW of \in (SUBSET Instances) \ {{}}, Operate(b, of)
      PROVE  batch'[b].completed < Cardinality(batch'[b].of)
  <2>1. batch'[b] = Row("running", of)
    BY <1>1, <1>3 DEF Operate, TypeOK
  <2>2. batch'[b].completed = 0 /\ batch'[b].of = of
    BY <2>1 DEF Row
  <2>3. IsFiniteSet(of) /\ of # {}
    BY FS_Subset
  <2>4. Cardinality(of) \in Nat /\ Cardinality(of) # 0
    BY <2>3, FS_CardinalityType, FS_EmptySet
  <2>5. QED
    BY <2>2, <2>4
<1>4. ASSUME NEW q \in Retries, RetryReset(q, b)
      PROVE  batch'[b].completed < Cardinality(batch'[b].of)
  <2> DEFINE xs == At(b, q, "listed")
             n  == Cardinality(xs)
  <2>1. /\ n \in Nat /\ IsFiniteSet(xs) /\ xs # {}
        /\ \A x \in xs : x \in Jobs /\ x[1] = b /\ job[x] = "listed"
    BY <1>4, AtJobs DEF RetryReset, Attempts
  <2>2. n # 0
    BY <2>1, FS_EmptySet
  <2>3. Balanced(b)
    BY <2>1, JobIsKnown
  <2>4. /\ batch[b].completed \in Nat /\ lost[b] \in Nat /\ Total(b) \in Nat
        /\ Cardinality(InStage(b, Counting)) \in Nat
    BY <1>1, CountTypes, TotalType, InStageFinite DEF TypeOK
  <2>5. batch[b].completed <= Total(b)
    BY <2>3, <2>4 DEF Balanced
  <2>6. \/ batch'[b] = batch[b]
        \/ batch'[b].completed = batch[b].completed - n /\ batch'[b].of = batch[b].of
    BY <1>1, <1>4 DEF RetryReset, TypeOK, Rows
  <2> HIDE DEF xs, n
  <2>7. CASE batch'[b].completed = batch[b].completed - n /\ batch'[b].of = batch[b].of
    BY <2>1, <2>2, <2>4, <2>5, <2>7 DEF Total
  <2>8. QED
    BY <1>2, <2>6, <2>7
<1>5. ASSUME NEW c \in Batches, NEW s \in Nat, NEW f \in Nat, Count(c, s, f)
      PROVE  batch'[b].completed < Cardinality(batch'[b].of)
  BY <1>1, <1>2, <1>5, CountShort
<1>6. CASE \E c \in Batches : FailUndispatched(c)
  <2>1. PICK c \in Batches : FailUndispatched(c)
    BY <1>6
  <2>2. Cardinality(At(c, First, "due")) \in Nat /\ Count(c, 0, Cardinality(At(c, First, "due")))
    BY <2>1, AtJobs DEF FailUndispatched, Attempts
  <2>3. QED
    BY <1>5, <2>2
<1>7. CASE \E x \in Jobs : Callback(x)
  <2>1. PICK x \in Jobs : Callback(x)
    BY <1>7
  <2>2. x[1] \in Batches /\ (Count(x[1], 1, 0) \/ Count(x[1], 0, 1))
    BY <2>1, JobShape DEF Callback
  <2>3. QED
    BY <1>5, <2>2
<1>8. CASE \E c \in Batches, of \in (SUBSET Instances) \ {{}} : Operate(c, of)
  <2>1. PICK c \in Batches, of \in (SUBSET Instances) \ {{}} : Operate(c, of)
    BY <1>8
  <2>2. CASE c # b
    BY <1>1, <1>2, <2>1, <2>2 DEF Operate, TypeOK
  <2>3. QED
    BY <1>3, <2>1, <2>2
<1>9. CASE \E q \in Retries, c \in Batches : RetryReset(q, c)
  <2>1. PICK q \in Retries, c \in Batches : RetryReset(q, c)
    BY <1>9
  <2>2. CASE c # b
    BY <1>1, <1>2, <2>1, <2>2 DEF RetryReset, TypeOK
  <2>3. QED
    BY <1>4, <2>1, <2>2
<1>10. CASE batch' = batch
  BY <1>2, <1>10
<1>11. QED
  BY <1>6, <1>7, <1>8, <1>9, <1>10, RowSteps DEF vars

\* All that is known of a state, for what a user sees of it.
Known == Inv /\ Shape /\ AllSingle /\ AllTally /\ Short

LEMMA NextKnown == Known /\ [Next]_vars => Known'
BY NextInv, NextShape, NextSingle, NextTally, NextShort DEF Known

\* What is lost is lost for good.
LEMMA AstrayGrows == TypeOK /\ [Next]_vars => Astray \subseteq Astray'
<1> SUFFICES ASSUME TypeOK, [Next]_vars PROVE Astray \subseteq Astray'
  OBVIOUS
<1>1. lost \in [Batches -> Nat]
  BY DEF TypeOK
<1>2. ASSUME NEW b \in Batches, NEW n \in Nat, lost' = [lost EXCEPT ![b] = @ + n]
      PROVE  \A c \in Batches : lost'[c] >= lost[c]
  BY <1>1, <1>2
<1>3. CASE lost' = lost
  BY <1>1, <1>3, RacedGrows DEF Astray
<1>4. CASE \E b \in Batches, n \in Nat : lost' = [lost EXCEPT ![b] = @ + n]
  <2>1. \A c \in Batches : lost'[c] >= lost[c] /\ lost[c] \in Nat
    BY <1>1, <1>2, <1>4
  <2>2. lost' \in [Batches -> Nat]
    BY <1>1, <1>4
  <2>3. \A c \in Batches : lost[c] > 0 => lost'[c] > 0
    BY <2>1, <2>2
  <2>4. QED
    BY <2>3, RacedGrows DEF Astray
<1>5. CASE Next
  <2>1. ASSUME NEW b \in Batches, NEW i, NEW of,
               \/ Operate(b, of) \/ FailUndispatched(b) \/ OperateDies(b)
               \/ Dispatch(b, i) \/ DispatchLost(b, i) \/ DispatchFails(b, i)
        PROVE  lost' = lost \/ \E n \in Nat : lost' = [lost EXCEPT ![b] = @ + n]
    BY <2>1, AtJobs
       DEF Operate, FailUndispatched, OperateDies, Dispatch, DispatchLost, DispatchFails, Attempts
  <2>2. ASSUME NEW x \in Jobs, JobStep(x) \/ CallbackUncounted(x) \/ RollbackBlind(x)
        PROVE  lost' = lost \/ \E b \in Batches, n \in Nat : lost' = [lost EXCEPT ![b] = @ + n]
    BY <2>2, JobShape
       DEF JobStep, Succeeds, Fails, Callback, Rollback, CallbackUncounted, RollbackBlind
  <2>3. ASSUME NEW q \in Retries, NEW b \in Batches, NEW i,
               RetryList(q, b) \/ RetryReset(q, b) \/ Restart(q, b, i) \/ RetryDies(q, b, i)
        PROVE  lost' = lost \/ \E n \in Nat : lost' = [lost EXCEPT ![b] = @ + n]
    BY <2>3, AtJobs DEF RetryList, RetryReset, Restart, RetryDies, Attempts
  <2>4. lost' = lost \/ \E b \in Batches, n \in Nat : lost' = [lost EXCEPT ![b] = @ + n]
    BY <1>5, <2>1, <2>2, <2>3, StepOf
  <2>5. QED
    BY <1>3, <1>4, <2>4
<1>6. QED
  BY <1>3, <1>5 DEF vars

\* What is said of a batch and of its tasks.
LEMMA Said ==
  ASSUME NEW b \in Batches
  PROVE  /\ Shown[b] = IF b \in Astray THEN "lost" ELSE batch[b].status
         /\ Shown'[b] = IF b \in Astray' THEN "lost" ELSE batch'[b].status
BY DEF Shown

LEMMA Told ==
  ASSUME NEW b \in Batches, NEW i \in Instances
  PROVE  /\ b \notin Astray => Results[b][i] =
              IF i \notin batch[b].of THEN "none"
              ELSE IF \E a \in Attempts : job[<<b, i, a>>] \in Counting THEN "open"
              ELSE IF task[<<b, i>>] = "success" THEN "success" ELSE "failure"
         /\ b \notin Astray' => Results'[b][i] =
              IF i \notin batch'[b].of THEN "none"
              ELSE IF \E a \in Attempts : job'[<<b, i, a>>] \in Counting THEN "open"
              ELSE IF task'[<<b, i>>] = "success" THEN "success" ELSE "failure"
BY DEF Results, IsOpen

LEMMA SameResults ==
  ASSUME NEW b \in Batches, \A i \in Instances : Results'[b][i] = Results[b][i]
  PROVE  Results'[b] = Results[b]
<1>1. /\ Results[b] = [i \in Instances |->
            IF b \in Astray \/ i \notin batch[b].of THEN "none"
            ELSE IF IsOpen(b, i) THEN "open"
            ELSE IF task[<<b, i>>] = "success" THEN "success" ELSE "failure"]
      /\ Results'[b] = [i \in Instances |->
            IF b \in Astray' \/ i \notin batch'[b].of THEN "none"
            ELSE IF IsOpen(b, i)' THEN "open"
            ELSE IF task'[<<b, i>>] = "success" THEN "success" ELSE "failure"]
  BY DEF Results
<1>2. /\ Results[b] = [i \in Instances |-> Results[b][i]]
      /\ Results'[b] = [i \in Instances |-> Results'[b][i]]
  BY <1>1
<1>3. QED
  BY <1>2

\* The status of a batch is the verdict on its tasks: it runs while one of them is open, and has
\* ended, with the outcome that is theirs, if none is.
StatusIsVerdict ==
  \A b \in Batches : b \notin Astray /\ batch[b].status # "none" =>
    Shown[b] = Operation!Verdict(Results[b])

LEMMA KnownVerdict == Known => StatusIsVerdict
<1> SUFFICES ASSUME Known, NEW b \in Batches, b \notin Astray, batch[b].status # "none"
             PROVE  batch[b].status = Operation!Verdict(Results[b])
  BY Said DEF StatusIsVerdict
<1>1. /\ TypeOK /\ Inv /\ Shape /\ b \notin raced /\ lost[b] = 0 /\ Balanced(b)
      /\ batch[b].of \subseteq Instances
  BY BalancedIsLedger DEF Known, Inv, Astray, TypeOK, Rows
<1>2. \A i \in Instances : Results[b][i] =
         IF i \notin batch[b].of THEN "none"
         ELSE IF \E a \in Attempts : job[<<b, i, a>>] \in Counting THEN "open"
         ELSE IF task[<<b, i>>] = "success" THEN "success" ELSE "failure"
  BY Told
<1>3. CASE batch[b].status = "running"
  <2>1. InStage(b, Counting) # {}
    <3>1. batch[b].completed < Total(b)
      BY <1>3 DEF Known, Short
    <3>2. /\ batch[b].completed \in Nat /\ Total(b) \in Nat
          /\ Cardinality(InStage(b, Counting)) \in Nat
      BY <1>1, CountTypes, TotalType, InStageFinite
    <3>3. Cardinality(InStage(b, Counting)) # 0
      BY <1>1, <3>1, <3>2 DEF Balanced
    <3>4. QED
      BY <3>3, FS_EmptySet
  <2>2. PICK x \in Jobs : x[1] = b /\ job[x] \in Counting
    BY <2>1 DEF InStage
  <2>3. x[2] \in batch[b].of /\ x[2] \in Instances /\ x = <<b, x[2], x[3]>> /\ x[3] \in Attempts
    BY <1>1, <2>2, JobShape DEF Shape, Within, Counting
  <2>4. Results[b][x[2]] = "open"
    BY <1>2, <2>2, <2>3
  <2>5. QED
    BY <1>3, <2>3, <2>4 DEF Operation!Verdict
<1>4. CASE batch[b].status \in Ended
  <2>1. ASSUME NEW i \in Instances, NEW a \in Attempts PROVE job[<<b, i, a>>] \notin Counting
    <3>1. InStage(b, Counting) = {}
      BY <1>1, <1>4, InvEnds DEF TerminalMeansEnded
    <3>2. <<b, i, a>> \in Jobs
      BY DEF Jobs
    <3>3. QED
      BY <3>1, <3>2 DEF InStage
  <2>2. \A i \in Instances : Results[b][i] =
           IF i \notin batch[b].of THEN "none"
           ELSE IF task[<<b, i>>] = "success" THEN "success" ELSE "failure"
    BY <1>2, <2>1
  <2>3. \E i \in batch[b].of : TRUE
    BY <1>1, <1>4 DEF Shape, Reported, Ended
  <2> DEFINE won == {i \in batch[b].of : task[<<b, i>>] = "success"}
  <2>4. /\ batch[b].status = "succeed" <=> won = batch[b].of
        /\ batch[b].status = "failed" <=> won = {}
    BY <1>1, <1>4, EndedMatches DEF Known, ResultMatches
  <2>5. /\ won = batch[b].of <=> \A i \in Instances : Results[b][i] # "failure"
        /\ won = {} <=> \A i \in Instances : Results[b][i] # "success"
    BY <1>1, <2>2
  <2>6. \A i \in Instances : Results[b][i] # "open"
    BY <2>2
  <2>7. QED
    BY <1>4, <2>4, <2>5, <2>6 DEF Operation!Verdict, Ended
<1>5. QED
  BY <1>1, <1>3, <1>4 DEF TypeOK, Rows, Ended

\* The same before a step and after it.
LEMMA VerdictBoth ==
  ASSUME Known, Known', NEW b \in Batches, b \notin Astray, b \notin Astray',
         batch[b].status # "none", batch'[b].status # "none"
  PROVE  /\ Shown[b] = Operation!Verdict(Results[b])
         /\ Shown'[b] = Operation!Verdict(Results'[b])
<1>1. Known' => StatusIsVerdict'
  BY KnownVerdict, PTL
<1>2. QED
  BY <1>1, KnownVerdict DEF StatusIsVerdict

\* What a batch is about stays, once it is there.
LEMMA OfStays ==
  ASSUME Inv, [Next]_vars, NEW b \in Batches,
         ~ \E of \in (SUBSET Instances) \ {{}} : Operate(b, of)
  PROVE  batch'[b].of = batch[b].of
<1>1. TypeOK
  BY DEF Inv
<1>2. ASSUME NEW c \in Batches, NEW s \in Nat, NEW f \in Nat, Count(c, s, f)
      PROVE  batch'[b].of = batch[b].of
  BY <1>1, <1>2, CountShort
<1>3. CASE \E c \in Batches : FailUndispatched(c)
  BY <1>2, <1>3, AtJobs DEF FailUndispatched, Attempts
<1>4. CASE \E x \in Jobs : Callback(x)
  BY <1>2, <1>4, JobShape DEF Callback
<1>5. CASE \E q \in Retries, c \in Batches : RetryReset(q, c)
  BY <1>1, <1>5 DEF RetryReset, TypeOK, Rows
<1>6. CASE \E c \in Batches, of \in (SUBSET Instances) \ {{}} : Operate(c, of)
  <2>1. PICK c \in Batches, of \in (SUBSET Instances) \ {{}} : Operate(c, of)
    BY <1>6
  <2>2. c # b
    BY <2>1
  <2>3. QED
    BY <1>1, <2>1, <2>2 DEF Operate, TypeOK
<1>7. QED
  BY <1>3, <1>4, <1>5, <1>6, RowSteps DEF vars

\* A task is written while it is open.
LEMMA TaskWritten ==
  ASSUME Inv, [Next]_vars, NEW b \in Batches, NEW i \in Instances,
         \A a \in Attempts : job[<<b, i, a>>] \notin Counting
  PROVE  task'[<<b, i>>] = task[<<b, i>>]
<1>1. TypeOK /\ <<b, i>> \in Tasks
  BY DEF Inv, Tasks
<1>2. ASSUME NEW x \in Jobs, NEW st, task' = [task EXCEPT ![TaskOf(x)] = st],
             job[x] \in Counting
      PROVE  task'[<<b, i>>] = task[<<b, i>>]
  <2>1. TaskOf(x) # <<b, i>>
    BY <1>2, JobShape DEF TaskOf
  <2>2. QED
    BY <1>1, <1>2, <2>1, JobShape DEF TypeOK
<1>3. CASE \E c \in Batches, j \in Instances : Dispatch(c, j)
  <2>1. PICK c \in Batches, j \in Instances : Dispatch(c, j)
    BY <1>3
  <2>2. PICK x \in Jobs : x = <<c, j, First>>
    BY DEF Jobs, Attempts
  <2>3. job[x] \in Counting /\ task' = [task EXCEPT ![TaskOf(x)] = "running"]
    BY <2>1, <2>2 DEF Dispatch, TaskOf, Counting
  <2>4. QED
    BY <1>2, <2>3
<1>4. CASE \E q \in Retries, c \in Batches, j \in Instances : Restart(q, c, j) \/ RetryDies(q, c, j)
  <2>1. PICK q \in Retries, c \in Batches, j \in Instances : Restart(q, c, j) \/ RetryDies(q, c, j)
    BY <1>4
  <2>2. PICK x \in Jobs : x = <<c, j, q>>
    BY DEF Jobs, Attempts
  <2>3. /\ job[x] \in Counting
        /\ task' \in {task, [task EXCEPT ![TaskOf(x)] = "running"]}
    BY <2>1, <2>2 DEF Restart, RetryDies, TaskOf, Counting
  <2>4. QED
    BY <1>2, <2>3
<1>5. CASE \E x \in Jobs : Succeeds(x) \/ Fails(x)
  <2>1. PICK x \in Jobs : Succeeds(x) \/ Fails(x)
    BY <1>5
  <2>2. job[x] \in Counting /\ \E st : task' = [task EXCEPT ![TaskOf(x)] = st]
    BY <2>1 DEF Succeeds, Fails, TaskOf, Counting
  <2>3. QED
    BY <1>2, <2>2
<1>6. QED
  BY <1>3, <1>4, <1>5, TaskSteps DEF vars

\* A job begins to count when its batch is created or the counts of its task are taken back.
LEMMA JobOpens ==
  ASSUME Inv, [Next]_vars, NEW x \in Jobs, job[x] \notin Counting, job'[x] \in Counting
  PROVE  \/ \E of \in (SUBSET Instances) \ {{}} : Operate(x[1], of)
         \/ \E q \in Retries : RetryReset(q, x[1])
<1>1. job \in [Jobs -> Stages]
  BY DEF Inv, TypeOK
<1>2. ASSUME NEW b \in Batches, NEW of \in (SUBSET Instances) \ {{}}, Operate(b, of)
      PROVE  x[1] = b
  <2>1. MoveAll({<<b, i, First>> : i \in of}, "due")
    BY <1>2 DEF Operate
  <2>2. x \in {<<b, i, First>> : i \in of}
    BY <2>1 DEF MoveAll
  <2>3. QED
    BY <2>2
<1>3. ASSUME NEW b \in Batches, NEW q \in Retries, RetryReset(q, b) PROVE x[1] = b
  <2>1. x \in At(b, q, "listed")
    BY <1>3 DEF RetryReset, MoveAll
  <2>2. QED
    BY <2>1, AtJobs DEF Attempts
<1>4. ASSUME NEW b \in Batches,
             \/ FailUndispatched(b) \/ OperateDies(b)
             \/ \E i \in Instances : Dispatch(b, i) \/ DispatchLost(b, i) \/ DispatchFails(b, i)
      PROVE  FALSE
  <2>1. CASE FailUndispatched(b) \/ OperateDies(b)
    BY <2>1 DEF FailUndispatched, OperateDies, MoveAll, Counting
  <2>2. CASE \E i \in Instances : Dispatch(b, i) \/ DispatchLost(b, i) \/ DispatchFails(b, i)
    BY <1>1, <2>2 DEF Dispatch, DispatchLost, DispatchFails, Move, Counting
  <2>3. QED
    BY <1>4, <2>1, <2>2
<1>5. ASSUME NEW y \in Jobs, JobStep(y) \/ CallbackUncounted(y) \/ RollbackBlind(y)
      PROVE  FALSE
  BY <1>1, <1>5 DEF JobStep, Succeeds, Fails, Callback, Rollback, CallbackUncounted,
                    RollbackBlind, Move, Counting
<1>6. ASSUME NEW b \in Batches, NEW q \in Retries,
             \/ RetryList(q, b)
             \/ \E i \in Instances : Restart(q, b, i) \/ RetryDies(q, b, i)
      PROVE  FALSE
  <2>1. CASE RetryList(q, b)
    BY <2>1 DEF RetryList, MoveAll, Counting
  <2>2. CASE \E i \in Instances : Restart(q, b, i) \/ RetryDies(q, b, i)
    BY <1>1, <2>2 DEF Restart, RetryDies, Move, MoveAll, Counting
  <2>3. QED
    BY <1>6, <2>1, <2>2
<1>7. CASE UNCHANGED vars
  BY <1>7 DEF vars
<1>8. CASE Next
  BY <1>2, <1>3, <1>4, <1>5, <1>6, <1>8, StepOf
<1>9. QED
  BY <1>7, <1>8

\* A batch that is created.
LEMMA StartSteps ==
  ASSUME Known, Known', NEW b \in Batches, b \notin Astray, b \notin Astray',
         NEW of \in (SUBSET Instances) \ {{}}, Operate(b, of)
  PROVE  Operation!Step(b)
<1>1. /\ TypeOK /\ batch[b].status = "none" /\ batch[b].of = {}
      /\ batch'[b] = Row("running", of) /\ MoveAll({<<b, i, First>> : i \in of}, "due")
  BY DEF Known, Inv, TypeOK, Operate, Shape, Reported
<1>2. batch'[b].status = "running" /\ batch'[b].of = of
  BY <1>1 DEF Row
<1>3. Shown[b] = "none" /\ Shown'[b] = "running"
  BY <1>1, <1>2, Said
<1>4. \A i \in Instances : Results[b][i] = "none"
  BY <1>1, Told
<1>5. ASSUME NEW i \in Instances
      PROVE  Results'[b][i] = IF i \in of THEN "open" ELSE "none"
  <2>1. CASE i \in of
    <3>1. <<b, i, First>> \in Jobs /\ First \in Attempts
      BY DEF Jobs, Attempts
    <3>2. job'[<<b, i, First>>] = "due"
      BY <1>1, <2>1, <3>1 DEF MoveAll
    <3>3. job'[<<b, i, First>>] \in Counting
      BY <3>2 DEF Counting
    <3>4. QED
      BY <1>2, <2>1, <3>1, <3>3, Told
  <2>2. CASE i \notin of
    BY <1>2, <2>2, Told
  <2>3. QED
    BY <2>1, <2>2
<1>6. QED
  BY <1>3, <1>4, <1>5 DEF Operation!Step, Operation!Starts, Operation!Go

\* A batch whose failed tasks are taken out of its counts.
LEMMA RetrySteps ==
  ASSUME Known, Known', [Next]_vars, NEW b \in Batches, b \notin Astray, b \notin Astray',
         NEW q \in Retries, RetryReset(q, b)
  PROVE  Operation!Step(b)
<1> DEFINE xs == At(b, q, "listed")
<1>1. /\ TypeOK /\ b \notin raced /\ Single(b) /\ xs # {} /\ task' = task
      /\ \A x \in xs : x \in Jobs /\ x[1] = b /\ job[x] = "listed"
  BY AtJobs DEF Known, Inv, Astray, AllSingle, RetryReset, Attempts
<1>2. batch[b].status # "none" /\ batch'[b].status # "none" /\ batch'[b].of = batch[b].of
  <2>1. batch[b].status # "none"
    BY <1>1, JobIsKnown DEF Known
  <2>2. QED
    BY <1>1, <2>1 DEF RetryReset, TypeOK, Rows
<1>3. PICK s \in {"due", "none"} : \A x \in Jobs : job'[x] = IF x \in xs THEN s ELSE job[x]
  BY DEF RetryReset, MoveAll
<1> HIDE DEF xs
<1>4. \A i \in Instances, a \in Attempts : <<b, i, a>> \in Jobs
  BY DEF Jobs
<1>5. ASSUME NEW i \in Instances
      PROVE  \/ Results'[b][i] = Results[b][i]
             \/ Results[b][i] = "failure" /\ Results'[b][i] = "open"
  <2>1. CASE \E a \in Attempts : job[<<b, i, a>>] \in Counting
    <3>1. PICK a \in Attempts : job[<<b, i, a>>] \in Counting
      BY <2>1
    <3>2. job'[<<b, i, a>>] \in Counting
      BY <1>1, <1>3, <1>4, <3>1 DEF Counting
    <3>3. QED
      BY <1>2, <3>1, <3>2, Told
  <2>2. CASE \A a \in Attempts : job'[<<b, i, a>>] \notin Counting
    <3>1. \A a \in Attempts : job[<<b, i, a>>] \notin Counting
      BY <1>1, <1>3, <1>4, <2>2 DEF Counting
    <3>2. CASE i \in batch[b].of
      <4>1. /\ Results[b][i] = IF task[<<b, i>>] = "success" THEN "success" ELSE "failure"
            /\ Results'[b][i] = IF task'[<<b, i>>] = "success" THEN "success" ELSE "failure"
        BY <1>2, <2>2, <3>1, <3>2, Told
      <4>2. QED
        BY <1>1, <4>1
    <3>3. CASE i \notin batch[b].of
      BY <1>2, <3>3, Told
    <3>4. QED
      BY <3>2, <3>3
  <2>3. CASE /\ \A a \in Attempts : job[<<b, i, a>>] \notin Counting
             /\ \E a \in Attempts : job'[<<b, i, a>>] \in Counting
    <3>1. PICK a \in Attempts : job'[<<b, i, a>>] \in Counting /\ job[<<b, i, a>>] \notin Counting
      BY <2>3
    <3>2. job[<<b, i, a>>] = "listed"
      BY <1>1, <1>3, <1>4, <3>1
    <3>3. PICK x \in Jobs : x = <<b, i, a>>
      BY <1>4
    <3>4. task[TaskOf(x)] = "failure"
      BY <1>1, <3>2, <3>3 DEF Single, Held
    <3>5. task[<<b, i>>] = "failure"
      BY <3>3, <3>4 DEF TaskOf
    <3>6. QED
      BY <1>2, <2>3, <3>5, Told
  <2>4. QED
    BY <2>1, <2>2, <2>3
<1>6. /\ Shown[b] = Operation!Verdict(Results[b])
      /\ Shown'[b] = Operation!Verdict(Results'[b])
  BY <1>2, VerdictBoth
<1>7. CASE \A i \in Instances : Results'[b][i] = Results[b][i]
  <2>1. Results'[b] = Results[b]
    BY <1>7, SameResults
  <2>2. QED
    BY <1>6, <2>1 DEF Operation!Step
<1>8. CASE \E i \in Instances : Results[b][i] = "failure" /\ Results'[b][i] = "open"
  <2>1. Shown'[b] = "running" /\ Shown[b] \in {"running", "failed", "partly_failed"}
    BY <1>6, <1>8 DEF Operation!Verdict
  <2>2. QED
    BY <1>5, <1>8, <2>1 DEF Operation!Step, Operation!Reopens, Operation!Go
<1>9. QED
  BY <1>5, <1>7, <1>8

\* Any other step closes tasks, or leaves them.
LEMMA OtherSteps ==
  ASSUME Known, Known', [Next]_vars, NEW b \in Batches, b \notin Astray, b \notin Astray',
         ~ \E of \in (SUBSET Instances) \ {{}} : Operate(b, of),
         ~ \E q \in Retries : RetryReset(q, b)
  PROVE  Operation!Step(b)
<1>1. Inv /\ batch'[b].of = batch[b].of
  BY OfStays DEF Known
<1>2. CASE batch[b].status = "none"
  <2>1. batch[b].of = {} /\ batch'[b].status = "none"
    BY <1>1, <1>2 DEF Known, Shape, Reported
  <2>2. \A i \in Instances : Results'[b][i] = Results[b][i]
    BY <1>1, <2>1, Told
  <2>3. Results'[b] = Results[b] /\ Shown'[b] = Shown[b]
    BY <1>2, <2>1, <2>2, SameResults, Said
  <2>4. QED
    BY <2>3 DEF Operation!Step
<1>3. CASE batch[b].status # "none"
  <2>1. batch'[b].status # "none"
    BY <1>1, <1>3 DEF Known, Shape, Reported
  <2>2. /\ Shown[b] = Operation!Verdict(Results[b])
        /\ Shown'[b] = Operation!Verdict(Results'[b])
    BY <1>3, <2>1, VerdictBoth
  <2>3. ASSUME NEW i \in Instances, \A a \in Attempts : job[<<b, i, a>>] \notin Counting
        PROVE  Results'[b][i] = Results[b][i]
    <3>1. ASSUME NEW a \in Attempts PROVE job'[<<b, i, a>>] \notin Counting
      <4>1. PICK x \in Jobs : x = <<b, i, a>>
        BY DEF Jobs
      <4>2. x[1] = b /\ job[x] \notin Counting
        BY <2>3, <4>1
      <4>3. job'[x] \notin Counting
        BY <1>1, <4>2, JobOpens
      <4>4. QED
        BY <4>1, <4>3
    <3>2. task'[<<b, i>>] = task[<<b, i>>]
      BY <1>1, <2>3, TaskWritten
    <3>3. CASE i \in batch[b].of
      <4>1. /\ Results[b][i] = IF task[<<b, i>>] = "success" THEN "success" ELSE "failure"
            /\ Results'[b][i] = IF task'[<<b, i>>] = "success" THEN "success" ELSE "failure"
        BY <1>1, <2>3, <3>1, <3>3, Told
      <4>2. QED
        BY <3>2, <4>1
    <3>4. CASE i \notin batch[b].of
      BY <1>1, <3>4, Told
    <3>5. QED
      BY <3>3, <3>4
  <2>4. ASSUME NEW i \in Instances
        PROVE  \/ Results'[b][i] = Results[b][i]
               \/ Results[b][i] = "open" /\ Results'[b][i] \in {"success", "failure"}
    <3>1. CASE i \notin batch[b].of
      BY <1>1, <3>1, Told
    <3>2. CASE i \in batch[b].of /\ \E a \in Attempts : job[<<b, i, a>>] \in Counting
      BY <1>1, <3>2, Told
    <3>3. QED
      BY <2>3, <3>1, <3>2
  <2>5. CASE \A i \in Instances : Results'[b][i] = Results[b][i]
    <3>1. Results'[b] = Results[b]
      BY <2>5, SameResults
    <3>2. QED
      BY <2>2, <3>1 DEF Operation!Step
  <2>6. CASE \E i \in Instances : Results[b][i] = "open"
    <3>1. Shown[b] = "running"
      BY <2>2, <2>6 DEF Operation!Verdict
    <3>2. QED
      BY <2>2, <2>4, <3>1 DEF Operation!Step, Operation!Decides, Operation!Go
  <2>7. QED
    BY <2>4, <2>5, <2>6
<1>4. QED
  BY <1>2, <1>3

LEMMA MappedTypes ==
  TypeOK => /\ Shown \in [Batches -> Operation!Statuses]
            /\ Results \in [Batches -> [Instances -> Operation!Results]]
<1> SUFFICES ASSUME TypeOK PROVE /\ Shown \in [Batches -> Operation!Statuses]
                                 /\ Results \in [Batches -> [Instances -> Operation!Results]]
  OBVIOUS
<1>1. \A b \in Batches : batch[b].status \in Operation!Statuses
  BY DEF TypeOK, Rows, Ended, Operation!Statuses
<1>2. Shown \in [Batches -> Operation!Statuses]
  BY <1>1 DEF Shown, Operation!Statuses
<1>3. Results \in [Batches -> [Instances -> Operation!Results]]
  BY DEF Results, Operation!Results
<1>4. QED
  BY <1>2, <1>3

\* A user who watches a batch sees one that runs until the last of its tasks is decided, ends
\* with their verdict in that step, and is opened by nothing but the retry of failed tasks: the
\* dispatcher, the callbacks and the retries, each in transactions of its own, come to that.
THEOREM Batched == Spec => ImplementsOperation
<1>1. Init => Operation!Init
  <2> SUFFICES ASSUME Init PROVE Operation!Init
    OBVIOUS
  <2>1. \A b \in Batches : batch[b].status = "none" /\ batch[b].of = {} /\ b \notin Astray
    BY DEF Init, Row, Astray
  <2>2. QED
    BY <2>1 DEF Shown, Results, Operation!Init
<1>2. TypeOK' => (/\ Shown \in [Batches -> Operation!Statuses]
                  /\ Results \in [Batches -> [Instances -> Operation!Results]])'
  BY MappedTypes, PTL
<1>3. Known /\ Known' /\ [Next]_vars => [Operation!Next]_<<Shown, Results>>
  <2> SUFFICES ASSUME Known, Known', [Next]_vars PROVE Operation!Next
    OBVIOUS
  <2>1. TypeOK /\ TypeOK'
    BY DEF Known, Inv
  <2>2. ASSUME NEW b \in Batches PROVE Operation!Step(b)
    <3>1. CASE b \in Astray'
      BY <3>1, Said DEF Operation!Step, Operation!Loses
    <3>2. CASE b \notin Astray'
      <4>1. b \notin Astray
        BY <2>1, <3>2, AstrayGrows
      <4>2. QED
        BY <3>2, <4>1, StartSteps, RetrySteps, OtherSteps
    <3>3. QED
      BY <3>1, <3>2
  <2>3. /\ Shown' \in [Batches -> Operation!Statuses]
        /\ Results' \in [Batches -> [Instances -> Operation!Results]]
    BY <1>2, <2>1
  <2>4. QED
    BY <2>2, <2>3 DEF Operation!Next
<1>4. Init => Known
  BY InitInv, InitShape, InitSingle, InitTally, InitShort DEF Known
<1>5. QED
  BY <1>1, <1>3, <1>4, NextKnown, PTL DEF Spec, ImplementsOperation, Operation!Spec

=============================================================================
