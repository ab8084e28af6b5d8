-------------------------- MODULE TaskBatch_proof --------------------------
(***************************************************************************)
(* Theorems about TaskBatch, for every set of batches, instances and       *)
(* retries and every number of faults.                                     *)
(***************************************************************************)
EXTENDS TaskBatch, FiniteSetTheorems, TLAPS

USE BatchAssumption

-----------------------------------------------------------------------------
(* Jobs and rows. *)

LEMMA JobsFinite == IsFiniteSet(Jobs)
<1> DEFINE P == (Batches \X Instances) \X Attempts
           f == [p \in P |-> <<p[1][1], p[1][2], p[2]>>]
<1>1. IsFiniteSet(Attempts)
  BY FS_Singleton, FS_Union DEF Attempts
<1>2. IsFiniteSet(P)
  BY <1>1, FS_Product
<1>3. f \in Surjection(P, Jobs)
  <2>1. f \in [P -> Jobs]
    BY DEF Jobs
  <2>2. ASSUME NEW x \in Jobs PROVE \E p \in P : f[p] = x
    <3>1. <<<<x[1], x[2]>>, x[3]>> \in P /\ x = <<x[1], x[2], x[3]>>
      BY DEF Jobs
    <3>2. f[<<<<x[1], x[2]>>, x[3]>>] = x
      BY <3>1
    <3>3. QED
      BY <3>1, <3>2
  <2>3. QED
    BY <2>1, <2>2 DEF Surjection
<1>4. QED
  BY <1>2, <1>3, FS_Surjection

LEMMA AtJobs ==
  ASSUME NEW b \in Batches, NEW a \in Attempts, NEW s
  PROVE  /\ At(b, a, s) \subseteq Jobs
         /\ IsFiniteSet(At(b, a, s))
         /\ Cardinality(At(b, a, s)) \in Nat
         /\ \A x \in At(b, a, s) : x[1] = b /\ x[3] = a /\ job[x] = s
<1>1. /\ At(b, a, s) \subseteq Jobs
      /\ \A x \in At(b, a, s) : x[1] = b /\ x[3] = a /\ job[x] = s
  BY DEF At, JobsOf, Jobs
<1>2. QED
  BY <1>1, JobsFinite, FS_Subset, FS_CardinalityType

LEMMA InStageFinite ==
  ASSUME NEW b, NEW ss
  PROVE  /\ InStage(b, ss) \subseteq Jobs
         /\ IsFiniteSet(InStage(b, ss))
         /\ Cardinality(InStage(b, ss)) \in Nat
BY JobsFinite, FS_Subset, FS_CardinalityType DEF InStage

\* The jobs K leave the finite set C.
LEMMA SizeGone ==
  ASSUME NEW C, IsFiniteSet(C), NEW K \in SUBSET C
  PROVE  /\ Cardinality(C) \in Nat /\ Cardinality(K) \in Nat
         /\ Cardinality(C \ K) \in Nat
         /\ Cardinality(C \ K) = Cardinality(C) - Cardinality(K)
<1>1. C \cap K = K
  OBVIOUS
<1>2. QED
  BY <1>1, FS_Difference, FS_Subset, FS_CardinalityType

\* The jobs K come into the finite set C.
LEMMA SizeCame ==
  ASSUME NEW C, IsFiniteSet(C), NEW K, IsFiniteSet(K), C \cap K = {}
  PROVE  /\ Cardinality(C) \in Nat /\ Cardinality(K) \in Nat
         /\ Cardinality(C \cup K) \in Nat
         /\ Cardinality(C \cup K) = Cardinality(C) + Cardinality(K)
<1>1. Cardinality(C) \in Nat /\ Cardinality(K) \in Nat
  BY FS_CardinalityType
<1>2. IsFiniteSet(C \cup K)
  BY FS_Union
<1>3. Cardinality(C \cup K) \in Nat
  BY <1>2, FS_CardinalityType
<1>4. Cardinality(C \cap K) = 0
  BY FS_EmptySet
<1>5. Cardinality(C \cup K) = Cardinality(C) + Cardinality(K) - Cardinality(C \cap K)
  BY FS_Union
<1>6. QED
  BY <1>1, <1>3, <1>4, <1>5

LEMMA SizeOne == ASSUME NEW x PROVE IsFiniteSet({x}) /\ Cardinality({x}) = 1
BY FS_Singleton

LEMMA TotalType ==
  ASSUME TypeOK, NEW b \in Batches
  PROVE  Total(b) \in Nat
<1>1. batch[b].of \in SUBSET Instances
  BY DEF TypeOK, Rows
<1>2. QED
  BY <1>1, FS_Subset, FS_CardinalityType DEF Total

LEMMA CountedType ==
  ASSUME TypeOK, NEW b \in Batches, NEW s \in Nat, NEW f \in Nat
  PROVE  LET row == Counted(b, s, f)
         IN /\ row \in Rows
            /\ row.of = batch[b].of
            /\ row.completed = batch[b].completed + s + f
            /\ row.success = batch[b].success + s
            /\ row.failed = batch[b].failed + f
            /\ row.status \in Ended => row.completed >= Total(b) \/ batch[b].status \in Ended
            /\ batch[b].status # "none" => row.status # "none"
<1>1. batch[b] \in Rows
  BY DEF TypeOK
<1>2. StatusOf(batch[b].success + s, batch[b].failed + f) \in Ended
  BY DEF StatusOf, Ended
<1> DEFINE row  == Counted(b, s, f)
           full == batch[b].completed + s + f >= Total(b)
           st   == IF full THEN StatusOf(batch[b].success + s, batch[b].failed + f)
                           ELSE batch[b].status
<1>3. /\ st \in {"none", "running"} \cup Ended
      /\ st \in Ended => full \/ batch[b].status \in Ended
      /\ batch[b].status # "none" => st # "none"
  BY <1>1, <1>2 DEF Rows, Ended
<1>4. row = [status |-> st, of |-> batch[b].of,
             completed |-> batch[b].completed + s + f,
             success |-> batch[b].success + s, failed |-> batch[b].failed + f]
  BY DEF Counted
<1>5. /\ row.of = batch[b].of
      /\ row.completed = batch[b].completed + s + f
      /\ row.success = batch[b].success + s
      /\ row.failed = batch[b].failed + f
      /\ row.status = st
  BY <1>4
<1> HIDE DEF st
<1>6. row \in Rows
  BY <1>1, <1>3, <1>4 DEF Rows
<1>7. QED
  BY <1>3, <1>5, <1>6

-----------------------------------------------------------------------------
(* Types. *)

LEMMA InitTypeOK == Init => TypeOK
BY DEF Init, TypeOK, Row, Rows, Stages

LEMMA MoveType ==
  ASSUME TypeOK, NEW xs, NEW s \in Stages
  PROVE  /\ MoveAll(xs, s) => job' \in [Jobs -> Stages]
         /\ \A x \in Jobs : Move(x, s) => job' \in [Jobs -> Stages]
BY DEF TypeOK, MoveAll, Move

LEMMA CountType ==
  ASSUME TypeOK, NEW b \in Batches, NEW s \in Nat, NEW f \in Nat, Count(b, s, f)
  PROVE  batch' \in [Batches -> Rows]
<1>1. Counted(b, s, f) \in Rows
  BY CountedType
<1>2. QED
  BY <1>1 DEF Count, TypeOK

LEMMA FaultType == TypeOK /\ Fault => faults' \in 0..MaxFaults
BY DEF TypeOK, Fault

LEMMA OperateTypeOK ==
  ASSUME TypeOK, NEW b \in Batches, NEW of \in (SUBSET Instances) \ {{}}, Operate(b, of)
  PROVE  TypeOK'
<1>1. batch' \in [Batches -> Rows]
  BY DEF TypeOK, Operate, Row, Rows
<1>2. original' \in [Tasks -> {"settled", "moving"}]
  BY DEF TypeOK, Operate, Tasks
<1>3. job' \in [Jobs -> Stages]
  BY MoveType DEF Operate, Stages
<1>4. QED
  BY <1>1, <1>2, <1>3 DEF TypeOK, Operate

LEMMA OperateStepTypeOK ==
  ASSUME TypeOK, NEW b \in Batches, OperateStep(b)
  PROVE  TypeOK'
<1>1. ASSUME NEW i \in Instances, Dispatch(b, i) PROVE TypeOK'
  <2>1. <<b, i, First>> \in Jobs /\ "running" \in Stages
    BY DEF Jobs, Attempts, Stages
  <2>2. job' \in [Jobs -> Stages]
    BY <1>1, <2>1, MoveType DEF Dispatch
  <2>3. QED
    BY <1>1, <2>2 DEF TypeOK, Dispatch, Mark, Tasks
<1>2. ASSUME FailUndispatched(b) PROVE TypeOK'
  <2>1. batch' \in [Batches -> Rows]
    <3>1. Cardinality(At(b, First, "due")) \in Nat
      BY AtJobs DEF Attempts
    <3>2. Count(b, 0, Cardinality(At(b, First, "due")))
      BY <1>2 DEF FailUndispatched
    <3>3. QED
      BY <3>1, <3>2, CountType
  <2>2. job' \in [Jobs -> Stages]
    BY <1>2, MoveType DEF FailUndispatched, Stages
  <2>3. QED
    BY <1>2, <2>1, <2>2 DEF TypeOK, FailUndispatched
<1>3. QED
  BY <1>1, <1>2 DEF OperateStep

LEMMA OperateFaultTypeOK ==
  ASSUME TypeOK, NEW b \in Batches,
         OperateDies(b) \/ \E i \in Instances : DispatchLost(b, i) \/ DispatchFails(b, i)
  PROVE  TypeOK'
<1>1. ASSUME OperateDies(b) PROVE TypeOK'
  <2>1. job' \in [Jobs -> Stages] /\ faults' \in 0..MaxFaults
    BY <1>1, MoveType, FaultType DEF OperateDies, Stages
  <2>2. lost' \in [Batches -> Nat]
    BY <1>1, AtJobs DEF OperateDies, TypeOK, Attempts
  <2>3. QED
    BY <1>1, <2>1, <2>2 DEF TypeOK, OperateDies
<1>2. ASSUME NEW i \in Instances, DispatchLost(b, i) PROVE TypeOK'
  <2>1. <<b, i, First>> \in Jobs /\ "none" \in Stages
    BY DEF Jobs, Attempts, Stages
  <2>2. job' \in [Jobs -> Stages] /\ faults' \in 0..MaxFaults
    BY <1>2, <2>1, MoveType, FaultType DEF DispatchLost
  <2>3. QED
    BY <1>2, <2>2 DEF TypeOK, DispatchLost, Mark
<1>3. ASSUME NEW i \in Instances, DispatchFails(b, i) PROVE TypeOK'
  BY <1>3, FaultType DEF TypeOK, DispatchFails, Mark
<1>4. QED
  BY <1>1, <1>2, <1>3

LEMMA JobTypeOK ==
  ASSUME TypeOK, NEW x \in Jobs,
         JobStep(x) \/ CallbackUncounted(x) \/ RollbackBlind(x)
  PROVE  TypeOK'
<1>1. /\ x[1] \in Batches /\ x[2] \in Instances
      /\ <<x[1], x[2]>> \in Tasks
      /\ {"none", "ok", "failed", "rollback"} \subseteq Stages
  BY DEF Jobs, Tasks, Stages
<1>2. ASSUME Succeeds(x) PROVE TypeOK'
  BY <1>1, <1>2 DEF Succeeds, Settle, Move, TypeOK
<1>3. ASSUME Fails(x) PROVE TypeOK'
  BY <1>1, <1>3 DEF Fails, Move, TypeOK
<1>4. ASSUME Callback(x) PROVE TypeOK'
  <2>1. batch' \in [Batches -> Rows]
    BY <1>1, <1>4, CountType DEF Callback
  <2>2. job' \in [Jobs -> Stages]
    BY <1>1, <1>4, MoveType DEF Callback
  <2>3. QED
    BY <1>4, <2>1, <2>2 DEF Callback, TypeOK
<1>5. ASSUME Rollback(x) PROVE TypeOK'
  BY <1>1, <1>5 DEF Rollback, Settle, Move, TypeOK
<1>6. ASSUME CallbackUncounted(x) PROVE TypeOK'
  <2>1. job' \in [Jobs -> Stages] /\ faults' \in 0..MaxFaults
    BY <1>1, <1>6, MoveType, FaultType DEF CallbackUncounted
  <2>2. lost' \in [Batches -> Nat]
    BY <1>1, <1>6 DEF CallbackUncounted, TypeOK
  <2>3. QED
    BY <1>6, <2>1, <2>2 DEF CallbackUncounted, TypeOK
<1>7. ASSUME RollbackBlind(x) PROVE TypeOK'
  <2>1. job' \in [Jobs -> Stages] /\ faults' \in 0..MaxFaults
    BY <1>1, <1>7, MoveType, FaultType DEF RollbackBlind
  <2>2. inst' \in [Instances -> {"settled", "moving"}]
    BY <1>1, <1>7 DEF RollbackBlind, TypeOK
  <2>3. stranded' \subseteq Instances
    BY <1>1, <1>7 DEF RollbackBlind, TypeOK
  <2>4. QED
    BY <1>7, <2>1, <2>2, <2>3 DEF RollbackBlind, TypeOK
<1>8. QED
  BY <1>2, <1>3, <1>4, <1>5, <1>6, <1>7 DEF JobStep

\* What the database leaves of a row when ResetCountsForRetry is accepted.
LEMMA ResetRow ==
  ASSUME TypeOK, NEW q \in Retries, NEW b \in Batches, RetryReset(q, b),
         NEW n, n = Cardinality(At(b, q, "listed")), Fits(b, n)
  PROVE  /\ n \in Nat
         /\ batch' = [batch EXCEPT ![b] =
              [status |-> "running", of |-> batch[b].of, completed |-> batch[b].completed - n,
               success |-> batch[b].success, failed |-> batch[b].failed - n]]
         /\ batch[b].completed - n \in Nat /\ batch[b].failed - n \in Nat
         /\ MoveAll(At(b, q, "listed"), "due")
<1>1. n \in Nat
  BY AtJobs DEF Attempts
<1>2. batch' = [batch EXCEPT ![b].completed = @ - n, ![b].failed = @ - n,
                             ![b].status = "running"]
  BY DEF RetryReset
<1>3. batch[b] = [status |-> batch[b].status, of |-> batch[b].of,
                  completed |-> batch[b].completed, success |-> batch[b].success,
                  failed |-> batch[b].failed]
  BY DEF TypeOK, Rows
<1>4. batch'[b] = [status |-> "running", of |-> batch[b].of,
                   completed |-> batch[b].completed - n,
                   success |-> batch[b].success, failed |-> batch[b].failed - n]
  BY <1>2, <1>3 DEF TypeOK
<1>5. batch[b].completed \in Nat /\ batch[b].failed \in Nat
  BY DEF TypeOK, Rows
<1>6. batch[b].completed - n \in Nat /\ batch[b].failed - n \in Nat
  BY <1>1, <1>5 DEF Fits
<1>7. batch' = [batch EXCEPT ![b] = batch'[b]]
  BY <1>2 DEF TypeOK
<1>8. MoveAll(At(b, q, "listed"), "due")
  BY DEF RetryReset
<1>9. QED
  BY <1>1, <1>4, <1>6, <1>7, <1>8

LEMMA RetryTypeOK ==
  ASSUME TypeOK, NEW q \in Retries, NEW b \in Batches,
         \/ RetryList(q, b)
         \/ RetryReset(q, b)
         \/ \E i \in Instances : Restart(q, b, i) \/ RetryDies(q, b, i)
  PROVE  TypeOK'
<1>1. {"none", "listed", "due", "running"} \subseteq Stages
  BY DEF Stages
<1>2. ASSUME RetryList(q, b) PROVE TypeOK'
  <2>1. job' \in [Jobs -> Stages]
    BY <1>1, <1>2, MoveType DEF RetryList
  <2>2. QED
    BY <1>2, <2>1 DEF RetryList, TypeOK
<1>3. ASSUME RetryReset(q, b) PROVE TypeOK'
  <2> DEFINE n == Cardinality(At(b, q, "listed"))
  <2>1. job' \in [Jobs -> Stages]
    BY <1>1, <1>3, MoveType DEF RetryReset
  <2>2. batch' \in [Batches -> Rows]
    <3>1. CASE Fits(b, n)
      <4>1. [status |-> "running", of |-> batch[b].of,
             completed |-> batch[b].completed - n,
             success |-> batch[b].success, failed |-> batch[b].failed - n] \in Rows
        BY <1>3, <3>1, ResetRow DEF TypeOK, Rows
      <4>2. QED
        BY <1>3, <3>1, <4>1, ResetRow DEF TypeOK
    <3>2. CASE ~Fits(b, n)
      BY <1>3, <3>2 DEF RetryReset, TypeOK
    <3>3. QED
      BY <3>1, <3>2
  <2>3. QED
    BY <1>3, <2>1, <2>2 DEF RetryReset, TypeOK
<1>4. ASSUME NEW i \in Instances, Restart(q, b, i) PROVE TypeOK'
  <2>1. <<b, i, q>> \in Jobs
    BY DEF Jobs, Attempts
  <2>2. job' \in [Jobs -> Stages]
    BY <1>1, <1>4, <2>1, MoveType DEF Restart
  <2>3. QED
    BY <1>4, <2>2 DEF Restart, Mark, Tasks, TypeOK
<1>5. ASSUME NEW i \in Instances, RetryDies(q, b, i) PROVE TypeOK'
  <2>1. job' \in [Jobs -> Stages] /\ faults' \in 0..MaxFaults
    BY <1>1, <1>5, MoveType, FaultType DEF RetryDies
  <2>2. Cardinality(At(b, q, "due")) \in Nat
    BY AtJobs DEF Attempts
  <2>3. lost' \in [Batches -> Nat]
    BY <1>5, <2>2 DEF RetryDies, TypeOK
  <2>4. QED
    BY <1>5, <2>1, <2>3 DEF RetryDies, Mark, TypeOK
<1>6. QED
  BY <1>2, <1>3, <1>4, <1>5

LEMMA NextTypeOK == TypeOK /\ [Next]_vars => TypeOK'
<1> SUFFICES ASSUME TypeOK, [Next]_vars PROVE TypeOK'
  OBVIOUS
<1>1. CASE UNCHANGED vars
  BY <1>1 DEF vars, TypeOK
<1>2. CASE Next
  BY <1>2, OperateTypeOK, OperateStepTypeOK, OperateFaultTypeOK, JobTypeOK, RetryTypeOK
     DEF Next, RetryStep
<1>3. QED
  BY <1>1, <1>2

\* Types: no count of a batch goes below zero.
THEOREM TypeCorrect == Spec => []TypeOK
<1>1. QED
  BY InitTypeOK, NextTypeOK, PTL DEF Spec

-----------------------------------------------------------------------------
(* The ledger.  Ledger is not inductive: that a batch nobody created has   *)
(* no jobs, and that a retry not yet made has none either, says which jobs *)
(* start to count when one is created or made.                             *)

Untouched ==
  \A b \in Batches : batch[b].status = "none" =>
    /\ b \notin failing
    /\ lost[b] = 0
    /\ \A x \in Jobs : x[1] = b => job[x] = "none"

Unasked == \A x \in Jobs : x[3] \in Retries \ made => job[x] = "none"

EndedIsFull ==
  \A b \in Batches : batch[b].status \in Ended => batch[b].completed >= Total(b)

Balanced(b) ==
  /\ batch[b].completed = batch[b].success + batch[b].failed
  /\ batch[b].completed + Cardinality(InStage(b, Counting)) + lost[b] = Total(b)

Inv == TypeOK /\ Ledger /\ Untouched /\ Unasked /\ EndedIsFull

\* The jobs that count, after one job or several have moved.
LEMMA StageMove ==
  ASSUME TypeOK, NEW x \in Jobs, NEW s \in Stages, Move(x, s), NEW b \in Batches
  PROVE  /\ s \in Counting /\ job[x] \in Counting =>
              InStage(b, Counting)' = InStage(b, Counting)
         /\ s \notin Counting /\ job[x] \notin Counting =>
              InStage(b, Counting)' = InStage(b, Counting)
         /\ s \notin Counting /\ job[x] \in Counting /\ x[1] # b =>
              InStage(b, Counting)' = InStage(b, Counting)
         /\ s \notin Counting /\ job[x] \in Counting /\ x[1] = b =>
              /\ x \in InStage(b, Counting)
              /\ InStage(b, Counting)' = InStage(b, Counting) \ {x}
<1>1. \A y \in Jobs : job'[y] = IF y = x THEN s ELSE job[y]
  BY DEF Move, TypeOK
<1>2. QED
  BY <1>1 DEF InStage

LEMMA StageMoveAll ==
  ASSUME TypeOK, NEW xs \in SUBSET Jobs, NEW s \in Stages, MoveAll(xs, s), NEW b \in Batches
  PROVE  /\ s \notin Counting => InStage(b, Counting)' = InStage(b, Counting) \ xs
         /\ s \in Counting =>
              InStage(b, Counting)' = InStage(b, Counting) \cup {x \in xs : x[1] = b}
<1>1. \A y \in Jobs : job'[y] = IF y \in xs THEN s ELSE job[y]
  BY DEF MoveAll
<1>2. QED
  BY <1>1 DEF InStage

\* A batch whose row, losses and counting jobs are left alone stays balanced.
LEMMA BalanceKept ==
  ASSUME NEW b \in Batches, Balanced(b),
         batch'[b] = batch[b], lost'[b] = lost[b],
         InStage(b, Counting)' = InStage(b, Counting)
  PROVE  Balanced(b)'
BY DEF Balanced, Total

\* The jobs K stop to count, and as many counts are made or lost.
LEMMA BalanceGone ==
  ASSUME TypeOK, NEW b \in Batches, Balanced(b),
         NEW K \in SUBSET InStage(b, Counting), NEW n, n = Cardinality(K),
         InStage(b, Counting)' = InStage(b, Counting) \ K,
         NEW s \in Nat, NEW f \in Nat, NEW l \in Nat, s + f + l = n,
         batch'[b].of = batch[b].of,
         batch'[b].completed = batch[b].completed + s + f,
         batch'[b].success = batch[b].success + s,
         batch'[b].failed = batch[b].failed + f,
         lost'[b] = lost[b] + l
  PROVE  Balanced(b)'
<1> DEFINE c == Cardinality(InStage(b, Counting))
           d == Cardinality(InStage(b, Counting)')
<1>1. c \in Nat /\ n \in Nat /\ d = c - n
  BY InStageFinite, SizeGone
<1>2. /\ batch[b].completed \in Nat /\ batch[b].success \in Nat /\ batch[b].failed \in Nat
      /\ lost[b] \in Nat
  BY DEF TypeOK, Rows
<1>3. Total(b)' = Total(b)
  BY DEF Total
<1>4. batch[b].completed = batch[b].success + batch[b].failed
  BY DEF Balanced
<1>5. batch[b].completed + c + lost[b] = Total(b)
  BY DEF Balanced
<1> HIDE DEF c, d
<1>6. batch'[b].completed = batch'[b].success + batch'[b].failed
  BY <1>2, <1>4
<1>7. batch'[b].completed + d + lost'[b] = Total(b)'
  BY <1>1, <1>2, <1>3, <1>5
<1>8. QED
  BY <1>6, <1>7 DEF Balanced, d

LEMMA InitInv == Init => Inv
<1> SUFFICES ASSUME Init PROVE Inv
  OBVIOUS
<1>1. TypeOK
  BY InitTypeOK
<1>2. \A b \in Batches : batch[b].status = "none"
  BY DEF Init, Row
<1>3. QED
  BY <1>1, <1>2 DEF Init, Inv, Ledger, Untouched, Unasked, EndedIsFull, Ended

LEMMA BalancedIsLedger ==
  Ledger <=> \A b \in Batches : batch[b].status # "none" => Balanced(b)
BY DEF Ledger, Balanced

\* A step that works on batch b keeps the invariant when it keeps b's part of it.
LEMMA OneBatch ==
  ASSUME Inv, TypeOK', NEW b \in Batches,
         batch'[b].status # "none",
         \A c \in Batches \ {b} : batch'[c] = batch[c] /\ lost'[c] = lost[c],
         failing' \ {b} \subseteq failing,
         \A x \in Jobs : x[1] # b => job'[x] = job[x],
         Unasked', Balanced(b)',
         batch'[b].status \in Ended => batch'[b].completed >= Total(b)'
  PROVE  Inv'
<1>0. ASSUME NEW c \in Batches, c # b
      PROVE  /\ batch'[c] = batch[c] /\ lost'[c] = lost[c]
             /\ c \in failing' => c \in failing
  BY <1>0
<1>1. ASSUME NEW c \in Batches, c # b, batch'[c].status # "none" PROVE Balanced(c)'
  <2>1. InStage(c, Counting)' = InStage(c, Counting)
    BY <1>1 DEF InStage
  <2>2. batch[c].status # "none"
    BY <1>0, <1>1
  <2>3. Balanced(c)
    BY <2>2, BalancedIsLedger DEF Inv
  <2>4. QED
    BY <1>0, <1>1, <2>1, <2>3, BalanceKept
<1>2. Ledger'
  BY <1>1 DEF Ledger, Balanced
<1>3. Untouched'
  <2>1. ASSUME NEW c \in Batches, batch'[c].status = "none"
        PROVE  /\ c \notin failing' /\ lost'[c] = 0
               /\ \A x \in Jobs : x[1] = c => job'[x] = "none"
    <3>1. c # b
      BY <2>1
    <3>2. batch[c].status = "none"
      BY <1>0, <2>1, <3>1
    <3>3. c \notin failing /\ lost[c] = 0 /\ \A x \in Jobs : x[1] = c => job[x] = "none"
      BY <3>2 DEF Inv, Untouched
    <3>4. QED
      BY <1>0, <3>1, <3>3
  <2>2. QED
    BY <2>1 DEF Untouched
<1>4. EndedIsFull'
  <2>1. ASSUME NEW c \in Batches, c # b, batch'[c].status \in Ended
        PROVE  batch'[c].completed >= Total(c)'
    <3>1. batch[c].completed >= Total(c)
      BY <1>0, <2>1 DEF Inv, EndedIsFull
    <3>2. QED
      BY <1>0, <2>1, <3>1 DEF Total
  <2>2. QED
    BY <2>1 DEF EndedIsFull
<1>5. QED
  BY <1>2, <1>3, <1>4 DEF Inv

\* A job that is anywhere belongs to a batch that exists and, if to a retry, to one made.
LEMMA JobIsKnown ==
  ASSUME Inv, NEW x \in Jobs, job[x] # "none"
  PROVE  /\ x[1] \in Batches /\ batch[x[1]].status # "none"
         /\ Balanced(x[1])
         /\ x[3] \notin Retries \ made
<1>1. x[1] \in Batches
  BY DEF Jobs
<1>2. batch[x[1]].status # "none"
  BY <1>1 DEF Inv, Untouched
<1>3. QED
  BY <1>1, <1>2, BalancedIsLedger DEF Inv, Unasked

\* One job moves on among the stages that count, and nothing else of the ledger changes.
LEMMA QuietMove ==
  ASSUME Inv, TypeOK', NEW x \in Jobs, NEW s \in Counting,
         job[x] \in Counting, Move(x, s),
         batch' = batch, lost' = lost, failing' = failing, made' = made
  PROVE  Inv'
<1>1. s \in Stages /\ job[x] # "none" /\ TypeOK
  BY DEF Counting, Stages, Inv
<1>2. /\ x[1] \in Batches /\ batch[x[1]].status # "none" /\ Balanced(x[1])
      /\ x[3] \notin Retries \ made
  BY <1>1, JobIsKnown
<1>3. InStage(x[1], Counting)' = InStage(x[1], Counting)
  BY <1>1, <1>2, StageMove
<1>4. Balanced(x[1])'
  BY <1>2, <1>3, BalanceKept
<1>5. \A y \in Jobs : y # x => job'[y] = job[y]
  BY <1>1 DEF Move, TypeOK
<1>6. Unasked'
  BY <1>2, <1>5 DEF Unasked, Inv
<1>7. batch'[x[1]].status \in Ended => batch'[x[1]].completed >= Total(x[1])'
  BY <1>2 DEF Inv, EndedIsFull, Total
<1>8. QED
  BY <1>2, <1>4, <1>5, <1>6, <1>7, OneBatch

\* The row of b takes s successes and f failures more, or is left alone.
Booked(b, s, f) == Count(b, s, f) \/ (batch' = batch /\ s = 0 /\ f = 0)

\* The jobs xs of one batch stop to count: s succeeded, f failed, l counts are lost.
LEMMA CountMove ==
  ASSUME Inv, TypeOK', NEW b \in Batches, batch[b].status # "none",
         NEW xs \in SUBSET InStage(b, Counting),
         NEW s \in Nat, NEW f \in Nat, NEW l \in Nat, s + f + l = Cardinality(xs),
         InStage(b, Counting)' = InStage(b, Counting) \ xs,
         \A y \in Jobs \ xs : job'[y] = job[y],
         Booked(b, s, f), lost' = [lost EXCEPT ![b] = @ + l],
         failing' \subseteq failing, made' = made
  PROVE  Inv'
<1>1. TypeOK /\ Balanced(b)
  BY BalancedIsLedger DEF Inv
<1>2. batch[b].completed \in Nat /\ batch[b].success \in Nat /\ batch[b].failed \in Nat
  BY <1>1 DEF TypeOK, Rows
<1>3. \A c \in Batches \ {b} : batch'[c] = batch[c] /\ lost'[c] = lost[c]
  BY <1>1 DEF Booked, Count, TypeOK
<1>4. lost'[b] = lost[b] + l
  BY <1>1 DEF TypeOK
<1>5. /\ batch'[b].of = batch[b].of
      /\ batch'[b].completed = batch[b].completed + s + f
      /\ batch'[b].success = batch[b].success + s
      /\ batch'[b].failed = batch[b].failed + f
      /\ batch'[b].status # "none"
      /\ batch'[b].status \in Ended =>
           batch'[b].completed >= Total(b) \/ batch[b].status \in Ended
  <2>1. CASE batch' = batch /\ s = 0 /\ f = 0
    BY <1>2, <2>1
  <2>2. CASE Count(b, s, f)
    <3>1. batch'[b] = Counted(b, s, f)
      BY <1>1, <2>2 DEF Count, TypeOK
    <3>2. QED
      BY <1>1, <3>1, CountedType
  <2>3. QED
    BY <2>1, <2>2 DEF Booked
<1>6. Balanced(b)'
  BY <1>1, <1>4, <1>5, BalanceGone
<1>7. \A x \in Jobs : x[1] # b => job'[x] = job[x]
  BY DEF InStage
<1>8. Unasked'
  <2>1. \A x \in xs : job[x] # "none" /\ x \in Jobs
    BY DEF InStage, Counting
  <2>2. \A x \in xs : x[3] \notin Retries \ made
    BY <2>1, JobIsKnown
  <2>3. QED
    BY <2>2 DEF Unasked, Inv
<1>9. batch'[b].status \in Ended => batch'[b].completed >= Total(b)'
  <2>1. Total(b)' = Total(b) /\ Total(b) \in Nat
    BY <1>1, <1>5, TotalType DEF Total
  <2>2. batch[b].status \in Ended => batch[b].completed >= Total(b)
    BY DEF Inv, EndedIsFull
  <2>3. QED
    BY <1>2, <1>5, <2>1, <2>2
<1>10. QED
  BY <1>3, <1>5, <1>6, <1>7, <1>8, <1>9, OneBatch

\* As many counts are lost as jobs stop to count.
LEMMA LossMove ==
  ASSUME Inv, TypeOK', NEW b \in Batches, batch[b].status # "none",
         NEW xs \in SUBSET InStage(b, Counting),
         NEW l \in Nat, l = Cardinality(xs),
         InStage(b, Counting)' = InStage(b, Counting) \ xs,
         \A y \in Jobs \ xs : job'[y] = job[y],
         batch' = batch, lost' = [lost EXCEPT ![b] = @ + l],
         failing' \subseteq failing, made' = made
  PROVE  Inv'
<1>1. PICK z \in Nat : z = 0
  OBVIOUS
<1>2. z + z + l = Cardinality(xs)
  BY <1>1
<1>3. Booked(b, z, z)
  BY <1>1 DEF Booked
<1>4. QED
  BY <1>2, <1>3, CountMove

\* As many successes and failures are counted as jobs stop to count.
LEMMA RowMove ==
  ASSUME Inv, TypeOK', NEW b \in Batches, batch[b].status # "none",
         NEW xs \in SUBSET InStage(b, Counting),
         NEW s \in Nat, NEW f \in Nat, s + f = Cardinality(xs),
         InStage(b, Counting)' = InStage(b, Counting) \ xs,
         \A y \in Jobs \ xs : job'[y] = job[y],
         Count(b, s, f), lost' = lost,
         failing' \subseteq failing, made' = made
  PROVE  Inv'
<1>1. PICK z \in Nat : z = 0
  OBVIOUS
<1>2. s + f + z = Cardinality(xs)
  BY <1>1
<1>3. lost' = [lost EXCEPT ![b] = @ + z]
  BY <1>1 DEF Inv, TypeOK
<1>4. Booked(b, s, f)
  BY DEF Booked
<1>5. QED
  BY <1>2, <1>3, <1>4, CountMove

LEMMA OperateInv ==
  ASSUME Inv, TypeOK', NEW b \in Batches, NEW of \in (SUBSET Instances) \ {{}}, Operate(b, of)
  PROVE  Inv'
<1> DEFINE xs == {<<b, i, First>> : i \in of}
<1>1. /\ TypeOK /\ "due" \in Stages /\ "due" \in Counting
      /\ xs \in SUBSET Jobs
  BY DEF Inv, Stages, Counting, Jobs, Attempts
<1>2. /\ batch[b].status = "none" /\ lost[b] = 0
      /\ \A x \in Jobs : x[1] = b => job[x] = "none"
  BY DEF Operate, Inv, Untouched
<1>3. batch'[b] = Row("running", of)
  BY <1>1 DEF Operate, TypeOK
<1>4. InStage(b, Counting)' = xs
  <2>1. InStage(b, Counting) = {}
    BY <1>2 DEF InStage, Counting
  <2>2. MoveAll(xs, "due")
    BY DEF Operate
  <2>3. {x \in xs : x[1] = b} = xs
    OBVIOUS
  <2>4. QED
    BY <1>1, <2>1, <2>2, <2>3, StageMoveAll
<1>5. Cardinality(xs) = Cardinality(of)
  <2> DEFINE f == [i \in of |-> <<b, i, First>>]
  <2>1. IsFiniteSet(of)
    BY FS_Subset
  <2>2. f \in [of -> xs] /\ \A i, j \in of : f[i] = f[j] => i = j
    OBVIOUS
  <2>3. \A x \in xs : \E i \in of : f[i] = x
    OBVIOUS
  <2>4. f \in Surjection(of, xs) /\ f \in Injection(of, xs)
    BY <2>2, <2>3 DEF Surjection, Injection, IsInjective
  <2>5. QED
    BY <2>1, <2>4, FS_Surjection
<1>6. Balanced(b)'
  <2>1. Total(b)' = Cardinality(of)
    BY <1>3 DEF Total, Row
  <2>2. Cardinality(of) \in Nat
    BY FS_Subset, FS_CardinalityType
  <2>3. lost'[b] = 0
    BY <1>2 DEF Operate
  <2>4. QED
    BY <1>3, <1>4, <1>5, <2>1, <2>2, <2>3 DEF Balanced, Row
<1>7. /\ \A c \in Batches \ {b} : batch'[c] = batch[c] /\ lost'[c] = lost[c]
      /\ failing' \ {b} \subseteq failing
  BY <1>1 DEF Operate, TypeOK
<1>8. \A x \in Jobs : job'[x] = IF x \in xs THEN "due" ELSE job[x]
  BY DEF Operate, MoveAll
<1>9. \A x \in xs : x[1] = b /\ x[3] \notin Retries
  OBVIOUS
<1>10. Unasked'
  BY <1>8, <1>9 DEF Unasked, Inv, Operate
<1>11. batch'[b].status = "running"
  BY <1>3 DEF Row
<1>12. QED
  BY <1>6, <1>7, <1>8, <1>9, <1>10, <1>11, OneBatch DEF Ended

LEMMA DispatchInv ==
  ASSUME Inv, TypeOK', NEW b \in Batches, NEW i \in Instances,
         Dispatch(b, i) \/ DispatchLost(b, i) \/ DispatchFails(b, i)
  PROVE  Inv'
<1> DEFINE x == <<b, i, First>>
<1>1. /\ TypeOK /\ x \in Jobs /\ x[1] = b
      /\ job[x] = "due" /\ "due" \in Counting /\ "due" # "none"
  BY DEF Inv, Jobs, Attempts, Counting, Dispatch, DispatchLost, DispatchFails
<1>2. batch[b].status # "none" /\ Balanced(b)
  BY <1>1, JobIsKnown
<1>3. ASSUME Dispatch(b, i) PROVE Inv'
  <2>1. "running" \in Counting
    BY DEF Counting
  <2>2. QED
    BY <1>1, <1>3, <2>1, QuietMove DEF Dispatch
<1>4. ASSUME DispatchLost(b, i) PROVE Inv'
  <2>1. "none" \in Stages /\ "none" \notin Counting
    BY DEF Stages, Counting
  <2>2. /\ {x} \in SUBSET InStage(b, Counting)
        /\ InStage(b, Counting)' = InStage(b, Counting) \ {x}
    BY <1>1, <1>4, <2>1, StageMove DEF DispatchLost
  <2>3. \A y \in Jobs \ {x} : job'[y] = job[y]
    BY <1>1, <1>4 DEF DispatchLost, Move, TypeOK
  <2>4. Cardinality({x}) = 1
    BY SizeOne
  <2>5. batch' = batch /\ lost' = [lost EXCEPT ![b] = @ + 1] /\ failing' = failing /\ made' = made
    BY <1>4 DEF DispatchLost
  <2>6. QED
    BY <1>2, <2>2, <2>3, <2>4, <2>5, LossMove
<1>5. ASSUME DispatchFails(b, i) PROVE Inv'
  <2>1. /\ batch' = batch /\ lost' = lost /\ job' = job /\ made' = made
        /\ failing' = failing \cup {b}
    BY <1>5 DEF DispatchFails
  <2>2. InStage(b, Counting)' = InStage(b, Counting)
    BY <2>1 DEF InStage
  <2>3. Balanced(b)'
    BY <1>2, <2>1, <2>2, BalanceKept
  <2>4. Unasked'
    BY <2>1 DEF Unasked, Inv
  <2>5. batch'[b].status \in Ended => batch'[b].completed >= Total(b)'
    BY <2>1 DEF Inv, EndedIsFull, Total
  <2>6. QED
    BY <1>2, <2>1, <2>3, <2>4, <2>5, OneBatch
<1>6. QED
  BY <1>3, <1>4, <1>5

\* The jobs an attempt has due, when it gives them up.
LEMMA DueGone ==
  ASSUME Inv, NEW b \in Batches, NEW a \in Attempts,
         MoveAll(At(b, a, "due"), "none")
  PROVE  /\ At(b, a, "due") \in SUBSET InStage(b, Counting)
         /\ InStage(b, Counting)' = InStage(b, Counting) \ At(b, a, "due")
         /\ \A y \in Jobs \ At(b, a, "due") : job'[y] = job[y]
         /\ Cardinality(At(b, a, "due")) \in Nat
         /\ At(b, a, "due") # {} => batch[b].status # "none"
<1>1. "none" \in Stages /\ "none" \notin Counting /\ "due" \in Counting /\ TypeOK
  BY DEF Stages, Counting, Inv
<1>2. At(b, a, "due") \in SUBSET InStage(b, Counting)
  BY <1>1, AtJobs DEF InStage
<1>3. At(b, a, "due") # {} => batch[b].status # "none"
  BY AtJobs, JobIsKnown
<1>4. InStage(b, Counting)' = InStage(b, Counting) \ At(b, a, "due")
  BY <1>1, AtJobs, StageMoveAll
<1>5. \A y \in Jobs \ At(b, a, "due") : job'[y] = job[y]
  BY DEF MoveAll
<1>6. QED
  BY <1>2, <1>3, <1>4, <1>5, AtJobs

LEMMA OperateEndsInv ==
  ASSUME Inv, TypeOK', NEW b \in Batches, FailUndispatched(b) \/ OperateDies(b)
  PROVE  Inv'
<1> DEFINE xs == At(b, First, "due")
           n  == Cardinality(xs)
<1>1. /\ xs \in SUBSET InStage(b, Counting)
      /\ InStage(b, Counting)' = InStage(b, Counting) \ xs
      /\ \A y \in Jobs \ xs : job'[y] = job[y]
      /\ n \in Nat
      /\ xs # {} => batch[b].status # "none"
  BY DueGone DEF FailUndispatched, OperateDies, Attempts
<1>2. ASSUME FailUndispatched(b) PROVE Inv'
  <2>1. batch[b].status # "none"
    BY <1>2 DEF FailUndispatched, Inv, Untouched
  <2>2. Count(b, 0, n) /\ lost' = lost /\ failing' \subseteq failing /\ made' = made
    BY <1>2 DEF FailUndispatched
  <2>3. 0 + n = Cardinality(xs)
    BY <1>1
  <2>4. QED
    BY <1>1, <2>1, <2>2, <2>3, RowMove
<1>3. ASSUME OperateDies(b) PROVE Inv'
  <2>1. batch[b].status # "none"
    BY <1>1, <1>3 DEF OperateDies
  <2>2. /\ batch' = batch /\ lost' = [lost EXCEPT ![b] = @ + n]
        /\ failing' \subseteq failing /\ made' = made
    BY <1>3 DEF OperateDies
  <2>3. QED
    BY <1>1, <2>1, <2>2, LossMove
<1>4. QED
  BY <1>2, <1>3

LEMMA JobInv ==
  ASSUME Inv, TypeOK', NEW x \in Jobs,
         JobStep(x) \/ CallbackUncounted(x) \/ RollbackBlind(x)
  PROVE  Inv'
<1>1. /\ TypeOK /\ x[1] \in Batches
      /\ {"none", "ok", "failed", "rollback", "running"} \subseteq Stages
      /\ {"running", "ok", "failed"} \subseteq Counting
      /\ "none" \notin Counting /\ "rollback" \notin Counting
  BY DEF Inv, Jobs, Stages, Counting
<1>2. job[x] # "none"
  BY DEF JobStep, Succeeds, Fails, Callback, Rollback, CallbackUncounted, RollbackBlind
<1>3. batch[x[1]].status # "none" /\ Balanced(x[1]) /\ x[3] \notin Retries \ made
  BY <1>2, JobIsKnown
<1>4. ASSUME Succeeds(x) \/ Fails(x) PROVE Inv'
  BY <1>1, <1>4, QuietMove DEF Succeeds, Fails
<1>5. ASSUME NEW s \in Stages \ Counting, job[x] \in Counting, Move(x, s)
      PROVE  /\ {x} \in SUBSET InStage(x[1], Counting)
             /\ InStage(x[1], Counting)' = InStage(x[1], Counting) \ {x}
             /\ \A y \in Jobs \ {x} : job'[y] = job[y]
             /\ Cardinality({x}) = 1
  <2>1. /\ x \in InStage(x[1], Counting)
        /\ InStage(x[1], Counting)' = InStage(x[1], Counting) \ {x}
    BY <1>1, <1>5, StageMove
  <2>2. \A y \in Jobs \ {x} : job'[y] = job[y]
    BY <1>1, <1>5 DEF Move, TypeOK
  <2>3. QED
    BY <2>1, <2>2, SizeOne
<1>6. ASSUME Callback(x) PROVE Inv'
  <2>1. PICK s \in {0, 1} : Count(x[1], s, 1 - s)
    BY <1>6 DEF Callback
  <2>2. /\ job[x] \in Counting
        /\ \E t \in Stages \ Counting : Move(x, t)
    BY <1>1, <1>6 DEF Callback
  <2>3. s \in Nat /\ 1 - s \in Nat /\ s + (1 - s) = 1
    OBVIOUS
  <2>4. lost' = lost /\ failing' \subseteq failing /\ made' = made
    BY <1>6 DEF Callback
  <2>5. QED
    BY <1>1, <1>3, <1>5, <2>1, <2>2, <2>3, <2>4, RowMove
<1>7. ASSUME CallbackUncounted(x) PROVE Inv'
  <2>1. /\ job[x] \in Counting
        /\ \E t \in Stages \ Counting : Move(x, t)
    BY <1>1, <1>7 DEF CallbackUncounted
  <2>2. /\ batch' = batch /\ lost' = [lost EXCEPT ![x[1]] = @ + 1]
        /\ failing' \subseteq failing /\ made' = made
    BY <1>7 DEF CallbackUncounted
  <2>3. QED
    BY <1>1, <1>3, <1>5, <2>1, <2>2, LossMove
<1>8. ASSUME Rollback(x) \/ RollbackBlind(x) PROVE Inv'
  <2>1. job[x] \notin Counting /\ Move(x, "none")
    BY <1>1, <1>8 DEF Rollback, RollbackBlind
  <2>2. batch' = batch /\ lost' = lost /\ failing' = failing /\ made' = made
    BY <1>8 DEF Rollback, RollbackBlind
  <2>3. InStage(x[1], Counting)' = InStage(x[1], Counting)
    BY <1>1, <2>1, StageMove
  <2>4. Balanced(x[1])'
    BY <1>1, <1>3, <2>2, <2>3, BalanceKept
  <2>5. \A y \in Jobs : y # x => job'[y] = job[y]
    BY <1>1, <2>1 DEF Move, TypeOK
  <2>6. Unasked'
    BY <1>3, <2>2, <2>5 DEF Unasked, Inv
  <2>7. batch'[x[1]].status \in Ended => batch'[x[1]].completed >= Total(x[1])'
    BY <1>1, <2>2 DEF Inv, EndedIsFull, Total
  <2>8. QED
    BY <1>1, <1>3, <2>2, <2>4, <2>5, <2>6, <2>7, OneBatch
<1>9. QED
  BY <1>4, <1>6, <1>7, <1>8 DEF JobStep

LEMMA RetryListInv ==
  ASSUME Inv, TypeOK', NEW q \in Retries, NEW b \in Batches, RetryList(q, b)
  PROVE  Inv'
<1> DEFINE is == IF batch[b].status = "succeed" THEN {} ELSE FailedTasks(b)
           xs == {<<b, i, q>> : i \in is}
<1>1. /\ TypeOK /\ "listed" \in Stages /\ "listed" \notin Counting
      /\ is \subseteq Instances
  BY DEF Inv, Stages, Counting, FailedTasks
<1>2. xs \in SUBSET Jobs /\ \A x \in xs : x[1] = b /\ x[3] = q
  BY <1>1 DEF Jobs, Attempts
<1> HIDE DEF is
<1>3. /\ MoveAll(xs, "listed") /\ batch' = batch /\ lost' = lost /\ failing' = failing
      /\ made' = made \cup {q} /\ q \notin made /\ batch[b].status # "none"
  BY DEF RetryList, is
<1> HIDE DEF xs
<1>4. \A x \in Jobs : job'[x] = IF x \in xs THEN "listed" ELSE job[x]
  BY <1>3 DEF MoveAll
<1>5. InStage(b, Counting)' = InStage(b, Counting)
  <2>1. \A x \in xs : job[x] = "none"
    BY <1>2, <1>3 DEF Inv, Unasked
  <2>2. InStage(b, Counting) \cap xs = {}
    BY <2>1 DEF InStage, Counting
  <2>3. InStage(b, Counting)' = InStage(b, Counting) \ xs
    BY <1>1, <1>2, <1>3, StageMoveAll
  <2>4. QED
    BY <2>2, <2>3
<1>6. Balanced(b)'
  BY <1>3, <1>5, BalancedIsLedger, BalanceKept DEF Inv
<1>7. Unasked'
  BY <1>2, <1>3, <1>4 DEF Unasked, Inv
<1>8. batch'[b].status \in Ended => batch'[b].completed >= Total(b)'
  BY <1>3 DEF Inv, EndedIsFull, Total
<1>9. \A x \in Jobs : x[1] # b => job'[x] = job[x]
  BY <1>2, <1>4
<1>10. QED
  BY <1>3, <1>6, <1>7, <1>8, <1>9, OneBatch

LEMMA RetryResetInv ==
  ASSUME Inv, TypeOK', NEW q \in Retries, NEW b \in Batches, RetryReset(q, b)
  PROVE  Inv'
<1> DEFINE xs == At(b, q, "listed")
           n  == Cardinality(xs)
<1>1. /\ TypeOK /\ {"none", "due"} \subseteq Stages
      /\ "none" \notin Counting /\ "due" \in Counting /\ "listed" \notin Counting
  BY DEF Inv, Stages, Counting
<1>2. /\ xs \in SUBSET Jobs /\ IsFiniteSet(xs) /\ n \in Nat
      /\ \A x \in xs : x[1] = b /\ x[3] = q /\ job[x] = "listed"
  BY AtJobs DEF Attempts
<1>3. /\ xs # {} /\ lost' = lost /\ failing' = failing /\ made' = made
  BY DEF RetryReset
<1>4. batch[b].status # "none" /\ Balanced(b) /\ q \notin Retries \ made
  BY <1>2, <1>3, JobIsKnown
<1>5. InStage(b, Counting) \cap xs = {}
  BY <1>1, <1>2 DEF InStage
<1>6. \E s \in {"none", "due"} : MoveAll(xs, s)
  BY DEF RetryReset
<1>7. \A x \in Jobs \ xs : job'[x] = job[x]
  BY <1>6 DEF MoveAll
<1>8. /\ \A x \in Jobs : x[1] # b => job'[x] = job[x]
      /\ Unasked'
  BY <1>2, <1>3, <1>4, <1>7 DEF Unasked, Inv
<1>9. CASE Fits(b, n)
  <2> DEFINE row == [status |-> "running", of |-> batch[b].of,
                     completed |-> batch[b].completed - n,
                     success |-> batch[b].success, failed |-> batch[b].failed - n]
  <2>1. batch' = [batch EXCEPT ![b] = row] /\ MoveAll(xs, "due")
    BY <1>1, <1>9, ResetRow
  <2>2. batch'[b] = row /\ \A c \in Batches \ {b} : batch'[c] = batch[c]
    BY <1>1, <2>1 DEF TypeOK
  <2>3. InStage(b, Counting)' = InStage(b, Counting) \cup xs
    <3>1. {x \in xs : x[1] = b} = xs
      BY <1>2
    <3>2. QED
      BY <1>1, <1>2, <2>1, <3>1, StageMoveAll
  <2>4. Cardinality(InStage(b, Counting)') = Cardinality(InStage(b, Counting)) + n
    BY <1>2, <1>5, <2>3, InStageFinite, SizeCame
  <2>5. Balanced(b)'
    <3>1. /\ batch[b].completed \in Nat /\ batch[b].success \in Nat
          /\ batch[b].failed \in Nat /\ lost[b] \in Nat
          /\ Cardinality(InStage(b, Counting)) \in Nat
      BY <1>1, InStageFinite DEF TypeOK, Rows
    <3>2. Total(b)' = Total(b)
      BY <2>2 DEF Total
    <3>3. /\ batch'[b].completed = batch[b].completed - n
          /\ batch'[b].success = batch[b].success
          /\ batch'[b].failed = batch[b].failed - n
      BY <2>2
    <3>4. /\ batch[b].completed = batch[b].success + batch[b].failed
          /\ batch[b].completed + Cardinality(InStage(b, Counting)) + lost[b] = Total(b)
      BY <1>4 DEF Balanced
    <3>5. batch'[b].completed = batch'[b].success + batch'[b].failed
      BY <1>2, <3>1, <3>3, <3>4
    <3>6. batch'[b].completed + Cardinality(InStage(b, Counting)') + lost'[b] = Total(b)'
      BY <1>2, <1>3, <2>4, <3>1, <3>2, <3>3, <3>4
    <3>7. QED
      BY <3>5, <3>6 DEF Balanced
  <2>6. batch'[b].status = "running"
    BY <2>2
  <2>7. QED
    BY <1>3, <1>8, <2>2, <2>5, <2>6, OneBatch DEF Ended
<1>10. CASE ~Fits(b, n)
  <2>1. batch' = batch /\ MoveAll(xs, "none")
    BY <1>10 DEF RetryReset
  <2>2. InStage(b, Counting)' = InStage(b, Counting)
    BY <1>1, <1>2, <1>5, <2>1, StageMoveAll
  <2>3. Balanced(b)'
    BY <1>3, <1>4, <2>1, <2>2, BalanceKept
  <2>4. batch'[b].status \in Ended => batch'[b].completed >= Total(b)'
    BY <2>1 DEF Inv, EndedIsFull, Total
  <2>5. QED
    BY <1>3, <1>4, <1>8, <2>1, <2>3, <2>4, OneBatch
<1>11. QED
  BY <1>9, <1>10

LEMMA RestartInv ==
  ASSUME Inv, TypeOK', NEW q \in Retries, NEW b \in Batches, NEW i \in Instances,
         Restart(q, b, i) \/ RetryDies(q, b, i)
  PROVE  Inv'
<1>1. /\ <<b, i, q>> \in Jobs /\ {"due", "running"} \subseteq Counting
      /\ job[<<b, i, q>>] = "due"
  BY DEF Jobs, Attempts, Counting, Restart, RetryDies
<1>2. CASE Restart(q, b, i)
  BY <1>1, <1>2, QuietMove DEF Restart
<1>3. CASE RetryDies(q, b, i)
  <2> DEFINE xs == At(b, q, "due")
             n  == Cardinality(xs)
  <2>1. /\ MoveAll(xs, "none") /\ q \in Attempts
        /\ batch' = batch /\ lost' = [lost EXCEPT ![b] = @ + n]
        /\ failing' \subseteq failing /\ made' = made
    BY <1>3 DEF RetryDies, Attempts
  <2>2. <<b, i, q>> \in xs
    BY <1>1 DEF At, JobsOf
  <2>3. /\ xs \in SUBSET InStage(b, Counting)
        /\ InStage(b, Counting)' = InStage(b, Counting) \ xs
        /\ \A y \in Jobs \ xs : job'[y] = job[y]
        /\ n \in Nat
        /\ batch[b].status # "none"
    BY <2>1, <2>2, DueGone
  <2>4. QED
    BY <2>1, <2>3, LossMove
<1>4. QED
  BY <1>2, <1>3

LEMMA NextInv == Inv /\ [Next]_vars => Inv'
<1> SUFFICES ASSUME Inv, [Next]_vars PROVE Inv'
  OBVIOUS
<1>1. TypeOK'
  BY NextTypeOK DEF Inv
<1>2. CASE UNCHANGED vars
  BY <1>2 DEF vars, Inv, TypeOK, Ledger, Untouched, Unasked, EndedIsFull, InStage, Total
<1>3. CASE Next
  <2>1. ASSUME NEW b \in Batches, NEW of \in (SUBSET Instances) \ {{}}, Operate(b, of)
        PROVE  Inv'
    BY <1>1, <2>1, OperateInv
  <2>2. ASSUME NEW b \in Batches, OperateStep(b) PROVE Inv'
    BY <1>1, <2>2, DispatchInv, OperateEndsInv DEF OperateStep
  <2>3. ASSUME NEW b \in Batches, OperateDies(b) PROVE Inv'
    BY <1>1, <2>3, OperateEndsInv
  <2>4. ASSUME NEW b \in Batches, NEW i \in Instances, DispatchLost(b, i) \/ DispatchFails(b, i)
        PROVE  Inv'
    BY <1>1, <2>4, DispatchInv
  <2>5. ASSUME NEW x \in Jobs, JobStep(x) \/ CallbackUncounted(x) \/ RollbackBlind(x)
        PROVE  Inv'
    BY <1>1, <2>5, JobInv
  <2>6. ASSUME NEW q \in Retries, RetryStep(q) PROVE Inv'
    BY <1>1, <2>6, RetryResetInv, RestartInv DEF RetryStep
  <2>7. ASSUME NEW q \in Retries, NEW b \in Batches, RetryList(q, b) PROVE Inv'
    BY <1>1, <2>7, RetryListInv
  <2>8. ASSUME NEW q \in Retries, NEW b \in Batches, NEW i \in Instances, RetryDies(q, b, i)
        PROVE  Inv'
    BY <1>1, <2>8, RestartInv
  <2>9. QED
    BY <1>3, <2>1, <2>2, <2>3, <2>4, <2>5, <2>6, <2>7, <2>8 DEF Next
<1>4. QED
  BY <1>2, <1>3

\* The counts made, to come and lost are together the tasks of the batch, whatever
\* operations, callbacks, retries and faults do at once.
THEOREM LedgerHolds == Spec => []Ledger
<1>1. Inv => Ledger
  BY DEF Inv
<1>2. QED
  BY <1>1, InitInv, NextInv, PTL DEF Spec

LEMMA InvEnds == Inv => TerminalMeansEnded
<1> SUFFICES ASSUME Inv, NEW b \in Batches, batch[b].status \in Ended
             PROVE  InStage(b, Counting) = {} /\ lost[b] = 0
  BY DEF TerminalMeansEnded
<1>1. TypeOK /\ Balanced(b) /\ batch[b].completed >= Total(b)
  BY BalancedIsLedger DEF Inv, EndedIsFull, Ended
<1>2. /\ batch[b].completed \in Nat /\ lost[b] \in Nat /\ Total(b) \in Nat
      /\ Cardinality(InStage(b, Counting)) \in Nat
  BY <1>1, InStageFinite, TotalType DEF TypeOK, Rows
<1>3. batch[b].completed + Cardinality(InStage(b, Counting)) + lost[b] = Total(b)
  BY <1>1 DEF Balanced
<1>4. Cardinality(InStage(b, Counting)) = 0 /\ lost[b] = 0
  BY <1>1, <1>2, <1>3
<1>5. QED
  BY <1>4, InStageFinite, FS_EmptySet

\* A batch reported as ended has nothing left to run or to count, and lost nothing.
THEOREM EndedWhenReported == Spec => []TerminalMeansEnded
<1>1. QED
  BY InitInv, NextInv, InvEnds, PTL DEF Spec

-----------------------------------------------------------------------------
(* Instances.  Whatever is moving has a job that will settle it: one that  *)
(* runs, or a failed one that has its rollback to do.  A callback that is  *)
(* still to count a success settles nothing, which is why InstanceSettled  *)
(* says less than its invariant.                                           *)

Settling == {"running", "failed", "rollback"}

Attended(i) == \E x \in Jobs : x[2] = i /\ job[x] \in Settling

MovingAttended == \A i \in Instances \ stranded : inst[i] = "moving" => Attended(i)

LEMMA AttendedKept ==
  ASSUME NEW i, Attended(i),
         \A x \in Jobs : x[2] = i /\ job[x] \in Settling => job'[x] \in Settling
  PROVE  Attended(i)'
BY DEF Attended

LEMMA OperateAttended ==
  ASSUME Inv, MovingAttended, NEW b \in Batches,
         \/ \E of \in (SUBSET Instances) \ {{}} : Operate(b, of)
         \/ FailUndispatched(b) \/ OperateDies(b)
  PROVE  MovingAttended'
<1>1. ASSUME NEW x \in Jobs, job[x] \in Settling PROVE job'[x] = job[x]
  <2>1. ASSUME NEW of \in (SUBSET Instances) \ {{}}, Operate(b, of) PROVE job'[x] = job[x]
    <3>1. x[1] # b
      BY <1>1, <2>1 DEF Operate, Inv, Untouched, Settling
    <3>2. QED
      BY <2>1, <3>1 DEF Operate, MoveAll
  <2>2. CASE FailUndispatched(b) \/ OperateDies(b)
    <3>1. MoveAll(At(b, First, "due"), "none")
      BY <2>2 DEF FailUndispatched, OperateDies
    <3>2. x \notin At(b, First, "due")
      BY <1>1, AtJobs DEF Settling, Attempts
    <3>3. QED
      BY <3>1, <3>2 DEF MoveAll
  <2>3. QED
    BY <2>1, <2>2
<1>2. inst' = inst /\ stranded' = stranded
  BY DEF Operate, FailUndispatched, OperateDies
<1>3. QED
  BY <1>1, <1>2, AttendedKept DEF MovingAttended

LEMMA DispatchAttended ==
  ASSUME Inv, MovingAttended, NEW b \in Batches, NEW i \in Instances,
         Dispatch(b, i) \/ DispatchLost(b, i) \/ DispatchFails(b, i)
  PROVE  MovingAttended'
<1> DEFINE x == <<b, i, First>>
<1>1. TypeOK /\ x \in Jobs /\ job[x] = "due" /\ x[2] = i
  BY DEF Inv, Jobs, Attempts, Dispatch, DispatchLost, DispatchFails
<1>2. \A y \in Jobs : job[y] \in Settling => job'[y] \in Settling
  BY <1>1 DEF Dispatch, DispatchLost, DispatchFails, Move, TypeOK, Settling
<1>3. ASSUME NEW j \in Instances \ stranded', j # i, inst'[j] = "moving" PROVE Attended(j)'
  <2>1. j \notin stranded /\ inst[j] = "moving"
    BY <1>1, <1>3 DEF Dispatch, DispatchLost, DispatchFails, Mark, TypeOK
  <2>2. QED
    BY <1>2, <2>1, AttendedKept DEF MovingAttended
<1>4. ASSUME i \notin stranded', inst'[i] = "moving" PROVE Attended(i)'
  <2>1. CASE Dispatch(b, i)
    <3>1. job'[x] = "running"
      BY <1>1, <2>1 DEF Dispatch, Move, TypeOK
    <3>2. QED
      BY <1>1, <3>1 DEF Attended, Settling
  <2>2. CASE DispatchLost(b, i)
    BY <1>4, <2>2 DEF DispatchLost
  <2>3. CASE DispatchFails(b, i)
    <3>1. UNCHANGED <<inst, stranded>>
      BY <1>4, <2>3 DEF DispatchFails
    <3>2. QED
      BY <1>2, <1>4, <3>1, AttendedKept DEF MovingAttended
  <2>4. QED
    BY <2>1, <2>2, <2>3
<1>5. QED
  BY <1>3, <1>4 DEF MovingAttended

LEMMA JobAttended ==
  ASSUME Inv, MovingAttended, NEW x \in Jobs,
         JobStep(x) \/ CallbackUncounted(x) \/ RollbackBlind(x)
  PROVE  MovingAttended'
<1>1. TypeOK /\ x[2] \in Instances
  BY DEF Inv, Jobs
<1>2. \A y \in Jobs : y # x => job'[y] = job[y]
  BY <1>1 DEF JobStep, Succeeds, Fails, Callback, Rollback, CallbackUncounted, RollbackBlind,
              Move, TypeOK
<1>3. ASSUME NEW j \in Instances \ stranded', j # x[2], inst'[j] = "moving"
      PROVE  Attended(j)'
  <2>1. j \notin stranded /\ inst[j] = "moving"
    BY <1>1, <1>3 DEF JobStep, Succeeds, Fails, Callback, Rollback, CallbackUncounted,
                      RollbackBlind, Settle, TypeOK
  <2>2. QED
    BY <1>2, <1>3, <2>1, AttendedKept DEF MovingAttended
<1>4. ASSUME x[2] \notin stranded', inst'[x[2]] = "moving" PROVE Attended(x[2])'
  <2>1. CASE Succeeds(x) \/ Rollback(x)
    BY <1>1, <1>4, <2>1 DEF Succeeds, Rollback, Settle, TypeOK
  <2>2. CASE RollbackBlind(x)
    BY <1>4, <2>2 DEF RollbackBlind
  <2>3. CASE Fails(x) \/ Callback(x) \/ CallbackUncounted(x)
    <3>1. inst' = inst /\ stranded' = stranded
      BY <2>3 DEF Fails, Callback, CallbackUncounted
    <3>2. job[x] \in Settling => job'[x] \in Settling
      BY <1>1, <2>3 DEF Fails, Callback, CallbackUncounted, Move, TypeOK, Settling
    <3>3. QED
      BY <1>1, <1>2, <1>4, <3>1, <3>2, AttendedKept DEF MovingAttended
  <2>4. QED
    BY <2>1, <2>2, <2>3 DEF JobStep
<1>5. QED
  BY <1>3, <1>4 DEF MovingAttended

LEMMA RetryAttended ==
  ASSUME Inv, MovingAttended, NEW q \in Retries, NEW b \in Batches,
         \/ RetryList(q, b) \/ RetryReset(q, b)
         \/ \E i \in Instances : Restart(q, b, i) \/ RetryDies(q, b, i)
  PROVE  MovingAttended'
<1>1. TypeOK /\ q \in Attempts
  BY DEF Inv, Attempts
<1>2. ASSUME NEW x \in Jobs, job[x] \in Settling PROVE job'[x] \in Settling
  <2>1. CASE RetryList(q, b)
    <3>1. x[3] # q
      BY <1>2, <2>1 DEF RetryList, Inv, Unasked, Settling
    <3>2. QED
      BY <1>2, <2>1, <3>1 DEF RetryList, MoveAll
  <2>2. CASE RetryReset(q, b)
    <3>1. x \notin At(b, q, "listed")
      BY <1>1, <1>2, AtJobs DEF Settling
    <3>2. QED
      BY <1>2, <2>2, <3>1 DEF RetryReset, MoveAll
  <2>3. ASSUME NEW i \in Instances, Restart(q, b, i) PROVE job'[x] \in Settling
    BY <1>1, <1>2, <2>3 DEF Restart, Move, TypeOK, Settling
  <2>4. ASSUME NEW i \in Instances, RetryDies(q, b, i) PROVE job'[x] \in Settling
    <3>1. x \notin At(b, q, "due")
      BY <1>1, <1>2, AtJobs DEF Settling
    <3>2. QED
      BY <1>2, <2>4, <3>1 DEF RetryDies, MoveAll
  <2>5. QED
    BY <2>1, <2>2, <2>3, <2>4
<1>3. CASE RetryList(q, b) \/ RetryReset(q, b)
  <2>1. inst' = inst /\ stranded' = stranded
    BY <1>3 DEF RetryList, RetryReset
  <2>2. QED
    BY <1>2, <2>1, AttendedKept DEF MovingAttended
<1>4. ASSUME NEW i \in Instances, Restart(q, b, i) PROVE MovingAttended'
  <2> DEFINE x == <<b, i, q>>
  <2>1. x \in Jobs /\ x[2] = i /\ job'[x] = "running"
    BY <1>1, <1>4 DEF Jobs, Restart, Move, TypeOK
  <2>2. Attended(i)'
    BY <2>1 DEF Attended, Settling
  <2>3. \A j \in Instances : j # i => inst'[j] = inst[j]
    BY <1>1, <1>4 DEF Restart, Mark, TypeOK
  <2>4. stranded' = stranded
    BY <1>4 DEF Restart
  <2>5. QED
    BY <1>2, <2>2, <2>3, <2>4, AttendedKept DEF MovingAttended
<1>5. ASSUME NEW i \in Instances, RetryDies(q, b, i) PROVE MovingAttended'
  <2>1. \A j \in Instances \ stranded' : j \notin stranded /\ inst'[j] = inst[j]
    BY <1>1, <1>5 DEF RetryDies, Mark, TypeOK
  <2>2. QED
    BY <1>2, <2>1, AttendedKept DEF MovingAttended
<1>6. QED
  BY <1>3, <1>4, <1>5

LEMMA NextAttended == Inv /\ MovingAttended /\ [Next]_vars => MovingAttended'
<1> SUFFICES ASSUME Inv, MovingAttended, [Next]_vars PROVE MovingAttended'
  OBVIOUS
<1>1. CASE UNCHANGED vars
  BY <1>1 DEF vars, MovingAttended, Attended
<1>2. CASE Next
  <2>1. ASSUME NEW b \in Batches, \E of \in (SUBSET Instances) \ {{}} : Operate(b, of)
        PROVE  MovingAttended'
    BY <2>1, OperateAttended
  <2>2. ASSUME NEW b \in Batches, OperateStep(b) PROVE MovingAttended'
    BY <2>2, OperateAttended, DispatchAttended DEF OperateStep
  <2>3. ASSUME NEW b \in Batches,
               OperateDies(b) \/ \E i \in Instances : DispatchLost(b, i) \/ DispatchFails(b, i)
        PROVE  MovingAttended'
    BY <2>3, OperateAttended, DispatchAttended
  <2>4. ASSUME NEW x \in Jobs, JobStep(x) \/ CallbackUncounted(x) \/ RollbackBlind(x)
        PROVE  MovingAttended'
    BY <2>4, JobAttended
  <2>5. ASSUME NEW q \in Retries,
               \/ RetryStep(q)
               \/ \E b \in Batches : \/ RetryList(q, b)
                                     \/ \E i \in Instances : RetryDies(q, b, i)
        PROVE  MovingAttended'
    BY <2>5, RetryAttended DEF RetryStep
  <2>6. QED
    BY <1>2, <2>1, <2>2, <2>3, <2>4, <2>5 DEF Next
<1>3. QED
  BY <1>1, <1>2

\* An instance nothing works on shows a settled status, unless a fault left it moving.
THEOREM SettledWhenQuiet == Spec => []InstanceSettled
<1>1. Init => MovingAttended
  BY DEF Init, MovingAttended
<1>2. TypeOK /\ MovingAttended => InstanceSettled
  <2> SUFFICES ASSUME TypeOK, MovingAttended, NEW i \in Instances \ stranded,
                      \A x \in Jobs : x[2] = i =>
                        job[x] \notin {"running", "ok", "failed", "rollback"}
               PROVE  inst[i] = "settled"
    BY DEF InstanceSettled
  <2>1. ~Attended(i)
    BY DEF Attended, Settling
  <2>2. inst[i] \in {"settled", "moving"}
    BY DEF TypeOK
  <2>3. QED
    BY <2>1, <2>2 DEF MovingAttended
<1>3. Inv => TypeOK
  BY DEF Inv
<1>4. QED
  BY <1>1, <1>2, <1>3, InitInv, NextInv, NextAttended, PTL DEF Spec

-----------------------------------------------------------------------------
(* Executions.  In a batch no two retries have worked on at once, the      *)
(* stored status of a task tells what may be done with it: a task that is  *)
(* due to be dispatched is not stored yet, one that is listed or due to be *)
(* restarted has failed, and one that runs is stored as running.           *)

TaskOf(x) == <<x[1], x[2]>>

\* A job that a retry has listed and not restarted.
Held(x) == job[x] = "listed" \/ (job[x] = "due" /\ x[3] # First)

Single(b) ==
  /\ batch[b].status = "none" => \A i \in Instances : task[<<b, i>>] = "none"
  /\ \A x \in Jobs : x[1] = b =>
       /\ job[x] = "running" => task[TaskOf(x)] = "running"
       /\ job[x] = "due" /\ x[3] = First => task[TaskOf(x)] = "none"
       /\ Held(x) => x[3] # First /\ task[TaskOf(x)] = "failure"
  /\ \A x, y \in Jobs : x[1] = b /\ y[1] = b =>
       /\ job[x] = "running" /\ job[y] = "running" /\ x[2] = y[2] => x = y
       /\ Held(x) /\ Held(y) => x[3] = y[3]

AllSingle == \A b \in Batches \ raced : Single(b)

LEMMA JobShape ==
  ASSUME NEW x \in Jobs
  PROVE  /\ x[1] \in Batches /\ x[2] \in Instances /\ x[3] \in Attempts
         /\ x = <<x[1], x[2], x[3]>> /\ TaskOf(x) \in Tasks
         /\ x[3] # First => x[3] \in Retries
BY DEF Jobs, Tasks, TaskOf, Attempts

\* A batch whose row, jobs and tasks are left alone stays as it is.
LEMMA SingleKept ==
  ASSUME NEW b \in Batches, Single(b),
         batch'[b].status = "none" => batch[b].status = "none",
         \A x \in Jobs : x[1] = b => job'[x] = job[x],
         \A i \in Instances : task'[<<b, i>>] = task[<<b, i>>]
  PROVE  Single(b)'
<1>1. \A x \in Jobs : x[1] = b => task'[TaskOf(x)] = task[TaskOf(x)]
  BY JobShape DEF TaskOf
<1>2. QED
  BY <1>1 DEF Single, Held

\* So it does when jobs only leave the stages that matter, or go from listed to due.
LEMMA SingleLess ==
  ASSUME NEW b \in Batches, Single(b),
         batch'[b].status = "none" => batch[b].status = "none",
         \A x \in Jobs : x[1] = b =>
            \/ job'[x] = job[x]
            \/ job'[x] \notin {"running", "listed", "due"}
            \/ job'[x] = "due" /\ job[x] = "listed" /\ x[3] # First,
         \A i \in Instances : task'[<<b, i>>] = task[<<b, i>>]
  PROVE  Single(b)'
<1>1. \A x \in Jobs : x[1] = b => task'[TaskOf(x)] = task[TaskOf(x)]
  BY JobShape DEF TaskOf
<1>2. QED
  BY <1>1 DEF Single, Held

\* A job of b starts or stops to run, and its task's status follows.
LEMMA SingleMoves ==
  ASSUME TypeOK, NEW x \in Jobs, NEW b \in Batches, b = x[1], Single(b),
         batch[b].status # "none", batch'[b].status # "none",
         NEW s, NEW st, Move(x, s), task' = [task EXCEPT ![TaskOf(x)] = st],
         \/ /\ job[x] = "due" /\ s = "running" /\ st = "running"
         \/ /\ job[x] = "running" /\ s \notin {"running", "listed", "due"}
  PROVE  Single(b)'
<1>1. /\ \A y \in Jobs : y # x => job'[y] = job[y]
      /\ job'[x] = s
  BY DEF Move, TypeOK
<1>2. /\ \A y \in Jobs : TaskOf(y) # TaskOf(x) => task'[TaskOf(y)] = task[TaskOf(y)]
      /\ task'[TaskOf(x)] = st
  BY JobShape DEF TypeOK
<1>3. \A y \in Jobs : TaskOf(y) = TaskOf(x) <=> y[1] = b /\ y[2] = x[2]
  BY DEF TaskOf
<1>4. ASSUME NEW y \in Jobs, y[1] = b, y[2] = x[2], y # x
      PROVE  job[y] \notin {"running", "listed", "due"}
  <2>1. TaskOf(y) = TaskOf(x)
    BY <1>3, <1>4
  <2>2. y[3] # x[3]
    BY <1>4, JobShape
  <2>3. QED
    BY <1>4, <2>1, <2>2 DEF Single, Held
<1>5. \A y \in Jobs : y[1] = b =>
        /\ job'[y] = "running" => task'[TaskOf(y)] = "running"
        /\ job'[y] = "due" /\ y[3] = First => task'[TaskOf(y)] = "none"
        /\ Held(y)' => y[3] # First /\ task'[TaskOf(y)] = "failure"
  BY <1>1, <1>2, <1>3, <1>4 DEF Single, Held
<1>6. \A y, z \in Jobs : y[1] = b /\ z[1] = b =>
        /\ job'[y] = "running" /\ job'[z] = "running" /\ y[2] = z[2] => y = z
        /\ Held(y)' /\ Held(z)' => y[3] = z[3]
  BY <1>1, <1>4 DEF Single, Held
<1>7. QED
  BY <1>5, <1>6 DEF Single

\* A restart fails with its task stored as running, and drops the jobs of its call.
LEMMA SingleDrops ==
  ASSUME TypeOK, NEW x \in Jobs, NEW b \in Batches, b = x[1], Single(b),
         job[x] = "due", x[3] # First,
         batch' = batch, task' = [task EXCEPT ![TaskOf(x)] = "running"],
         \A y \in Jobs : job'[y] = job[y] \/ job'[y] = "none",
         job'[x] = "none"
  PROVE  Single(b)'
<1>1. /\ \A y \in Jobs : TaskOf(y) # TaskOf(x) => task'[TaskOf(y)] = task[TaskOf(y)]
      /\ task[TaskOf(x)] = "failure"
  BY JobShape DEF TypeOK, Single, Held
<1>2. \A y \in Jobs : TaskOf(y) = TaskOf(x) <=> y[1] = b /\ y[2] = x[2]
  BY DEF TaskOf
<1>3. ASSUME NEW y \in Jobs, y[1] = b, y[2] = x[2] PROVE job'[y] \notin {"running", "listed", "due"}
  <2>1. TaskOf(y) = TaskOf(x)
    BY <1>2, <1>3
  <2>2. y # x => y[3] # x[3]
    BY <1>3, JobShape
  <2>3. y # x => job[y] \notin {"running", "listed", "due"}
    BY <1>1, <1>3, <2>1, <2>2 DEF Single, Held
  <2>4. QED
    BY <2>3
<1>4. \A y \in Jobs : y[1] = b =>
        /\ job'[y] = "running" => task'[TaskOf(y)] = "running"
        /\ job'[y] = "due" /\ y[3] = First => task'[TaskOf(y)] = "none"
        /\ Held(y)' => y[3] # First /\ task'[TaskOf(y)] = "failure"
  BY <1>1, <1>2, <1>3 DEF Single, Held
<1>5. \A y, z \in Jobs : y[1] = b /\ z[1] = b =>
        /\ job'[y] = "running" /\ job'[z] = "running" /\ y[2] = z[2] => y = z
        /\ Held(y)' /\ Held(z)' => y[3] = z[3]
  BY DEF Single, Held
<1>6. batch[b].status # "none"
  <2>1. x[2] \in Instances /\ TaskOf(x) = <<b, x[2]>>
    BY JobShape DEF TaskOf
  <2>2. QED
    BY <1>1, <2>1 DEF Single
<1>7. QED
  BY <1>4, <1>5, <1>6 DEF Single

\* A step that works on batch b keeps the other batches single.
LEMMA SingleRest ==
  ASSUME AllSingle, NEW b \in Batches,
         b \notin raced' => Single(b)',
         raced \subseteq raced',
         \A c \in Batches \ {b} : batch'[c] = batch[c],
         \A x \in Jobs : x[1] # b => job'[x] = job[x],
         \A t \in Tasks : t[1] # b => task'[t] = task[t]
  PROVE  AllSingle'
<1>1. ASSUME NEW c \in Batches, c # b, c \notin raced' PROVE Single(c)'
  <2>1. Single(c) /\ batch'[c] = batch[c]
    BY <1>1 DEF AllSingle
  <2>2. \A x \in Jobs : x[1] = c => job'[x] = job[x]
    BY <1>1
  <2>3. \A i \in Instances : task'[<<c, i>>] = task[<<c, i>>]
    BY <1>1 DEF Tasks
  <2>4. QED
    BY <2>1, <2>2, <2>3, SingleKept
<1>2. QED
  BY <1>1 DEF AllSingle

LEMMA OperateSingle ==
  ASSUME Inv, AllSingle, NEW b \in Batches, NEW of \in (SUBSET Instances) \ {{}}, Operate(b, of)
  PROVE  AllSingle'
<1> DEFINE xs == {<<b, i, First>> : i \in of}
<1>1. /\ TypeOK /\ batch[b].status = "none" /\ raced' = raced /\ task' = task
      /\ \A x \in Jobs : x[1] = b => job[x] = "none"
      /\ MoveAll(xs, "due")
  BY DEF Operate, Inv, Untouched
<1>2. \A x \in Jobs : job'[x] = IF x \in xs THEN "due" ELSE job[x]
  BY <1>1 DEF MoveAll
<1>3. \A x \in xs : x[1] = b /\ x[3] = First
  OBVIOUS
<1> HIDE DEF xs
<1>4. batch'[b].status # "none" /\ \A c \in Batches \ {b} : batch'[c] = batch[c]
  BY <1>1 DEF Operate, Row, TypeOK
<1>5. b \notin raced' => Single(b)'
  <2>1. ASSUME b \notin raced PROVE \A x \in Jobs : x[1] = b => task[TaskOf(x)] = "none"
    BY <1>1, <2>1, JobShape DEF AllSingle, Single, TaskOf
  <2>2. \A x \in Jobs : x[1] = b => job'[x] \in {"none", "due"} /\ ~Held(x)'
    BY <1>1, <1>2, <1>3 DEF Held
  <2>3. QED
    BY <1>1, <1>4, <2>1, <2>2 DEF Single
<1>6. \A x \in Jobs : x[1] # b => job'[x] = job[x]
  BY <1>2, <1>3
<1>7. QED
  BY <1>1, <1>4, <1>5, <1>6, SingleRest

\* Steps that dispatch nothing, restart nothing and end no execution.
LEMMA SingleQuiet ==
  ASSUME Inv, AllSingle, NEW b \in Batches, raced' = raced, task' = task,
         batch'[b].status = "none" => batch[b].status = "none",
         \A c \in Batches \ {b} : batch'[c] = batch[c],
         \A x \in Jobs :
            \/ job'[x] = job[x]
            \/ x[1] = b /\ job'[x] \notin {"running", "listed", "due"}
            \/ x[1] = b /\ job'[x] = "due" /\ job[x] = "listed" /\ x[3] # First
  PROVE  AllSingle'
<1>1. b \notin raced' => Single(b)'
  <2>1. ASSUME b \notin raced' PROVE Single(b)'
    <3>1. Single(b)
      BY <2>1 DEF AllSingle
    <3>2. QED
      BY <3>1, SingleLess
  <2>2. QED
    BY <2>1
<1>2. \A x \in Jobs : x[1] # b => job'[x] = job[x]
  OBVIOUS
<1>3. QED
  BY <1>1, <1>2, SingleRest

\* Steps that start or end one execution.
LEMMA SingleStep ==
  ASSUME Inv, AllSingle, NEW x \in Jobs, raced' = raced, batch' = batch,
         NEW s, NEW st, Move(x, s), task' = [task EXCEPT ![TaskOf(x)] = st],
         \/ /\ job[x] = "due" /\ s = "running" /\ st = "running"
         \/ /\ job[x] = "running" /\ s \notin {"running", "listed", "due"}
  PROVE  AllSingle'
<1>1. TypeOK /\ x[1] \in Batches /\ batch[x[1]].status # "none"
  BY JobIsKnown DEF Inv
<1>2. x[1] \notin raced' => Single(x[1])'
  <2>1. ASSUME x[1] \notin raced' PROVE Single(x[1])'
    <3>1. Single(x[1])
      BY <1>1, <2>1 DEF AllSingle
    <3>2. QED
      BY <1>1, <3>1, SingleMoves
  <2>2. QED
    BY <2>1
<1>3. \A y \in Jobs : y[1] # x[1] => job'[y] = job[y]
  BY <1>1 DEF Move, TypeOK
<1>4. \A t \in Tasks : t[1] # x[1] => task'[t] = task[t]
  BY <1>1, JobShape DEF TypeOK, TaskOf
<1>5. QED
  BY <1>1, <1>2, <1>3, <1>4, SingleRest

LEMMA OperateStepSingle ==
  ASSUME Inv, AllSingle, NEW b \in Batches,
         \/ FailUndispatched(b) \/ OperateDies(b)
         \/ \E i \in Instances : Dispatch(b, i) \/ DispatchLost(b, i) \/ DispatchFails(b, i)
  PROVE  AllSingle'
<1>1. TypeOK /\ \A i \in Instances : <<b, i, First>> \in Jobs /\ TaskOf(<<b, i, First>>) = <<b, i>>
  BY DEF Inv, Jobs, Attempts, TaskOf
<1>2. ASSUME NEW i \in Instances, Dispatch(b, i) PROVE AllSingle'
  BY <1>1, <1>2, SingleStep DEF Dispatch
<1>3. ASSUME NEW i \in Instances, DispatchLost(b, i) \/ DispatchFails(b, i) PROVE AllSingle'
  <2>1. \A x \in Jobs : job'[x] = job[x] \/ (x[1] = b /\ job'[x] = "none")
    BY <1>1, <1>3 DEF DispatchLost, DispatchFails, Move, TypeOK
  <2>2. raced' = raced /\ task' = task /\ batch' = batch
    BY <1>3 DEF DispatchLost, DispatchFails
  <2>3. QED
    BY <2>1, <2>2, SingleQuiet
<1>4. ASSUME FailUndispatched(b) \/ OperateDies(b) PROVE AllSingle'
  <2>1. \A x \in Jobs : job'[x] = job[x] \/ (x[1] = b /\ job'[x] = "none")
    <3>1. MoveAll(At(b, First, "due"), "none")
      BY <1>4 DEF FailUndispatched, OperateDies
    <3>2. \A x \in At(b, First, "due") : x[1] = b
      BY AtJobs DEF Attempts
    <3>3. QED
      BY <3>1, <3>2 DEF MoveAll
  <2>2. raced' = raced /\ task' = task
    BY <1>4 DEF FailUndispatched, OperateDies
  <2>3. /\ batch'[b].status = "none" => batch[b].status = "none"
        /\ \A c \in Batches \ {b} : batch'[c] = batch[c]
    <3>1. CASE FailUndispatched(b)
      <4>1. /\ batch[b].status # "none" /\ Count(b, 0, Cardinality(At(b, First, "due")))
            /\ Cardinality(At(b, First, "due")) \in Nat
        BY <3>1, AtJobs DEF FailUndispatched, Inv, Untouched, Attempts
      <4>2. Counted(b, 0, Cardinality(At(b, First, "due"))).status # "none"
        BY <1>1, <4>1, CountedType
      <4>3. QED
        BY <1>1, <4>1, <4>2 DEF Count, TypeOK
    <3>2. CASE OperateDies(b)
      BY <3>2 DEF OperateDies
    <3>3. QED
      BY <1>4, <3>1, <3>2
  <2>4. QED
    BY <2>1, <2>2, <2>3, SingleQuiet
<1>5. QED
  BY <1>2, <1>3, <1>4

LEMMA JobSingle ==
  ASSUME Inv, AllSingle, NEW x \in Jobs,
         JobStep(x) \/ CallbackUncounted(x) \/ RollbackBlind(x)
  PROVE  AllSingle'
<1>1. TypeOK /\ x[1] \in Batches
  BY DEF Inv, Jobs
<1>2. CASE Succeeds(x) \/ Fails(x)
  BY <1>2, SingleStep DEF Succeeds, Fails, TaskOf
<1>3. CASE Callback(x) \/ Rollback(x) \/ CallbackUncounted(x) \/ RollbackBlind(x)
  <2>1. \A y \in Jobs : job'[y] = job[y] \/ (y[1] = x[1] /\ job'[y] \in {"none", "rollback"})
    BY <1>1, <1>3 DEF Callback, Rollback, CallbackUncounted, RollbackBlind, Move, TypeOK
  <2>2. raced' = raced /\ task' = task
    BY <1>3 DEF Callback, Rollback, CallbackUncounted, RollbackBlind
  <2>3. /\ batch'[x[1]].status = "none" => batch[x[1]].status = "none"
        /\ \A c \in Batches \ {x[1]} : batch'[c] = batch[c]
    <3>1. CASE Callback(x)
      <4>1. PICK s \in {0, 1} : Count(x[1], s, 1 - s)
        BY <3>1 DEF Callback
      <4>2. batch[x[1]].status # "none"
        BY <3>1, JobIsKnown DEF Callback
      <4>3. Counted(x[1], s, 1 - s).status # "none"
        BY <1>1, <4>2, CountedType
      <4>4. QED
        BY <1>1, <4>1, <4>3 DEF Count, TypeOK
    <3>2. CASE Rollback(x) \/ CallbackUncounted(x) \/ RollbackBlind(x)
      BY <3>2 DEF Rollback, CallbackUncounted, RollbackBlind
    <3>3. QED
      BY <1>3, <3>1, <3>2
  <2>4. QED
    BY <1>1, <2>1, <2>2, <2>3, SingleQuiet
<1>4. QED
  BY <1>2, <1>3 DEF JobStep

LEMMA RetryListSingle ==
  ASSUME Inv, AllSingle, NEW q \in Retries, NEW b \in Batches, RetryList(q, b)
  PROVE  AllSingle'
<1> DEFINE is == IF batch[b].status = "succeed" THEN {} ELSE FailedTasks(b)
           xs == {<<b, i, q>> : i \in is}
<1>1. /\ \A x \in xs : x[1] = b /\ x[3] = q /\ task[TaskOf(x)] = "failure"
      /\ q # First
  <2>1. \A i \in is : task[<<b, i>>] = "failure"
    BY DEF FailedTasks
  <2> HIDE DEF is
  <2>2. \A x \in xs : x[1] = b /\ x[3] = q /\ task[<<x[1], x[2]>>] = "failure"
    BY <2>1
  <2>3. QED
    BY <2>2, BatchAssumption DEF TaskOf
<1> HIDE DEF is
<1>2. /\ MoveAll(xs, "listed") /\ batch' = batch /\ task' = task
      /\ raced' = IF \E p \in Retries : At(b, p, "listed") \cup At(b, p, "due") # {}
                  THEN raced \cup {b} ELSE raced
      /\ batch[b].status # "none"
  BY DEF RetryList, is
<1> HIDE DEF xs
<1>3. \A x \in Jobs : job'[x] = IF x \in xs THEN "listed" ELSE job[x]
  BY <1>2 DEF MoveAll
<1>4. raced \subseteq raced'
  BY <1>2
<1>5. b \notin raced' => Single(b)'
  <2> SUFFICES ASSUME b \notin raced' PROVE Single(b)'
    OBVIOUS
  <2>1. Single(b) /\ \A p \in Retries : At(b, p, "listed") \cup At(b, p, "due") = {}
    BY <1>2 DEF AllSingle
  <2>2. ASSUME NEW x \in Jobs, x[1] = b, Held(x) PROVE FALSE
    <3>1. x[3] \in Retries /\ x = <<b, x[2], x[3]>> /\ x[2] \in Instances
      BY <2>1, <2>2, JobShape DEF Single
    <3>2. x \in At(b, x[3], "listed") \cup At(b, x[3], "due")
      BY <2>2, <3>1 DEF Held, At, JobsOf
    <3>3. QED
      BY <2>1, <3>1, <3>2
  <2>3. \A x \in Jobs : x[1] = b =>
          /\ job'[x] = "running" => task'[TaskOf(x)] = "running"
          /\ (job'[x] = "due" /\ x[3] = First) => task'[TaskOf(x)] = "none"
    BY <1>2, <1>3, <2>1 DEF Single
  <2>4. \A x \in Jobs : x[1] = b /\ Held(x)' => x \in xs
    BY <1>3, <2>2 DEF Held
  <2>5. \A x, y \in Jobs : x[1] = b /\ y[1] = b =>
          (job'[x] = "running" /\ job'[y] = "running" /\ x[2] = y[2] => x = y)
    BY <1>3, <2>1 DEF Single
  <2>6. QED
    BY <1>1, <1>2, <2>3, <2>4, <2>5 DEF Single
<1>6. \A x \in Jobs : x[1] # b => job'[x] = job[x]
  BY <1>1, <1>3
<1>7. QED
  BY <1>2, <1>4, <1>5, <1>6, SingleRest

LEMMA RetryResetSingle ==
  ASSUME Inv, AllSingle, NEW q \in Retries, NEW b \in Batches, RetryReset(q, b)
  PROVE  AllSingle'
<1> DEFINE xs == At(b, q, "listed")
<1>1. TypeOK /\ raced' = raced /\ task' = task /\ q # First
  BY BatchAssumption DEF Inv, RetryReset
<1>2. \A x \in xs : x[1] = b /\ x[3] = q /\ job[x] = "listed"
  BY AtJobs DEF Attempts
<1>3. /\ batch'[b].status = "none" => batch[b].status = "none"
      /\ \A c \in Batches \ {b} : batch'[c] = batch[c]
  BY <1>1 DEF RetryReset, TypeOK, Rows
<1>4. \E s \in {"none", "due"} : MoveAll(xs, s)
  BY DEF RetryReset
<1> HIDE DEF xs
<1>5. \A x \in Jobs : \/ job'[x] = job[x]
                      \/ (x[1] = b /\ job'[x] \notin {"running", "listed", "due"})
                      \/ (x[1] = b /\ job'[x] = "due" /\ job[x] = "listed" /\ x[3] # First)
  BY <1>1, <1>2, <1>4 DEF MoveAll
<1>6. QED
  BY <1>1, <1>3, <1>5, SingleQuiet

LEMMA RestartSingle ==
  ASSUME Inv, AllSingle, NEW q \in Retries, NEW b \in Batches, NEW i \in Instances,
         Restart(q, b, i) \/ RetryDies(q, b, i)
  PROVE  AllSingle'
<1>1. TypeOK /\ <<b, i, q>> \in Jobs /\ TaskOf(<<b, i, q>>) = <<b, i>>
  BY DEF Inv, Jobs, Attempts, TaskOf
<1>2. CASE Restart(q, b, i)
  BY <1>1, <1>2, SingleStep DEF Restart
<1>3. CASE RetryDies(q, b, i)
  <2> DEFINE x == <<b, i, q>>
  <2>1. MoveAll(At(b, q, "due"), "none") /\ raced' = raced /\ batch' = batch
    BY <1>3 DEF RetryDies
  <2>2. \A y \in At(b, q, "due") : y[1] = b
    BY AtJobs DEF Attempts
  <2>3. \A y \in Jobs : job'[y] = job[y] \/ (y[1] = b /\ job'[y] = "none")
    BY <2>1, <2>2 DEF MoveAll
  <2>4. CASE task' = task
    BY <2>1, <2>3, <2>4, SingleQuiet
  <2>5. CASE task' = [task EXCEPT ![TaskOf(x)] = "running"]
    <3>1. job[x] = "due" /\ x[1] = b /\ x[3] # First /\ x \in At(b, q, "due")
      BY <1>3, BatchAssumption DEF RetryDies, At, JobsOf
    <3>2. job'[x] = "none"
      BY <1>1, <2>1, <3>1 DEF MoveAll
    <3>3. \A y \in Jobs : y[1] # b => job'[y] = job[y]
      BY <2>3
    <3>4. \A t \in Tasks : t[1] # b => task'[t] = task[t]
      BY <1>1, <2>5 DEF TypeOK, TaskOf
    <3> HIDE DEF x
    <3>5. b \notin raced' => Single(b)'
      <4>1. ASSUME b \notin raced' PROVE Single(b)'
        <5>1. Single(b)
          BY <2>1, <4>1 DEF AllSingle
        <5>2. QED
          BY <1>1, <2>1, <2>3, <2>5, <3>1, <3>2, <5>1, SingleDrops DEF x
      <4>2. QED
        BY <4>1
    <3>6. QED
      BY <2>1, <3>3, <3>4, <3>5, SingleRest
  <2>6. QED
    BY <1>1, <1>3, <2>4, <2>5 DEF RetryDies
<1>4. QED
  BY <1>2, <1>3

LEMMA InitSingle == Init => AllSingle
  BY JobShape DEF Init, AllSingle, Single, Held, Tasks

LEMMA NextSingle == Inv /\ AllSingle /\ [Next]_vars => AllSingle'
<1> SUFFICES ASSUME Inv, AllSingle, [Next]_vars PROVE AllSingle'
  OBVIOUS
<1>1. CASE UNCHANGED vars
  BY <1>1 DEF vars, AllSingle, Single, Held
<1>2. CASE Next
  <2>1. ASSUME NEW b \in Batches, \E of \in (SUBSET Instances) \ {{}} : Operate(b, of)
        PROVE  AllSingle'
    BY <2>1, OperateSingle
  <2>2. ASSUME NEW b \in Batches, OperateStep(b) \/ OperateDies(b) PROVE AllSingle'
    BY <2>2, OperateStepSingle DEF OperateStep
  <2>3. ASSUME NEW b \in Batches, NEW i \in Instances, DispatchLost(b, i) \/ DispatchFails(b, i)
        PROVE  AllSingle'
    BY <2>3, OperateStepSingle
  <2>4. ASSUME NEW x \in Jobs, JobStep(x) \/ CallbackUncounted(x) \/ RollbackBlind(x)
        PROVE  AllSingle'
    BY <2>4, JobSingle
  <2>5. ASSUME NEW q \in Retries, NEW b \in Batches, RetryReset(q, b) \/ RetryList(q, b)
        PROVE  AllSingle'
    BY <2>5, RetryResetSingle, RetryListSingle
  <2>6. ASSUME NEW q \in Retries, NEW b \in Batches, NEW i \in Instances,
               Restart(q, b, i) \/ RetryDies(q, b, i)
        PROVE  AllSingle'
    BY <2>6, RestartSingle
  <2>7. QED
    BY <1>2, <2>1, <2>2, <2>3, <2>4, <2>5, <2>6 DEF Next, RetryStep
<1>3. QED
  BY <1>1, <1>2

LEMMA AtMostOne ==
  ASSUME NEW S, \A a, c \in S : a = c
  PROVE  Cardinality(S) <= 1
<1>1. CASE S = {}
  <2>1. Cardinality({}) = 0
    BY FS_EmptySet
  <2>2. QED
    BY <1>1, <2>1
<1>2. ASSUME NEW a \in S PROVE Cardinality(S) <= 1
  <2>1. S = {a}
    BY <1>2
  <2>2. Cardinality(S) = Cardinality({a})
    BY <2>1, Zenon
  <2>3. QED
    BY <2>2, SizeOne
<1>3. QED
  BY <1>1, <1>2

\* A task runs at most once at a time, whatever operations, failed steps and retries of
\* OperateProcess and RetryTasks do, unless two retries of its batch were at work at once.
THEOREM RunsOnce == Spec => []OneExecution
<1>1. AllSingle => OneExecution
  <2> SUFFICES ASSUME AllSingle, NEW t \in Tasks, t[1] \notin raced
               PROVE  Cardinality({a \in Attempts : job[<<t[1], t[2], a>>] = "running"}) <= 1
    BY DEF OneExecution
  <2> DEFINE as == {a \in Attempts : job[<<t[1], t[2], a>>] = "running"}
  <2>1. t[1] \in Batches /\ t[2] \in Instances /\ Single(t[1])
    BY DEF Tasks, AllSingle
  <2>2. ASSUME NEW a \in as, NEW c \in as PROVE a = c
    <3>1. <<t[1], t[2], a>> \in Jobs /\ <<t[1], t[2], c>> \in Jobs
      BY <2>1 DEF Jobs
    <3>2. <<t[1], t[2], a>> = <<t[1], t[2], c>>
      BY <2>1, <3>1 DEF Single
    <3>3. QED
      BY <3>2
  <2>3. QED
    BY <2>2, AtMostOne
<1>2. QED
  BY <1>1, InitInv, NextInv, InitSingle, NextSingle, PTL DEF Spec

=============================================================================
