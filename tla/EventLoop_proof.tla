-------------------------- MODULE EventLoop_proof ---------------------------
(***************************************************************************)
(* Theorems about EventLoop, for every set of transactions, instances and  *)
(* rows and every page size.                                               *)
(***************************************************************************)
EXTENDS EventLoop, FiniteSetTheorems, TLAPS

USE EventsAssumption, KindsAssumption, DbAssumption, LoopAssumption, TxnsFinite

-----------------------------------------------------------------------------
(* The stages. *)

LEMMA FinishedIsEight == Finished = 8 /\ Len(Stages) = 7
BY DEF Finished, Stages

\* A set of stages that contains Finished has a smallest member.
LEMMA SmallestStage ==
    ASSUME NEW S \in SUBSET (1..8), 8 \in S
    PROVE  Min(S) \in S
<1>1. \E x \in S : \A y \in S : x <= y
  OBVIOUS
<1>2. QED
  BY <1>1 DEF Min

LEMMA NextStageType ==
    ASSUME NEW events, NEW s \in 0..Finished
    PROVE  NextStage(events, s) \in 1..Finished
<1> DEFINE S == {Finished} \cup {r \in (s + 1)..Len(Stages) : StageEvents(events, r) # {}}
<1>1. S \in SUBSET (1..8) /\ 8 \in S
  BY FinishedIsEight
<1>2. Min(S) \in S
  BY <1>1, SmallestStage
<1>3. QED
  BY <1>1, <1>2, FinishedIsEight DEF NextStage

LEMMA StageEventsType ==
    ASSUME TypeOK, NEW events, NEW s
    PROVE  StageEvents(events, s) \in SUBSET (0..MaxEvents)
BY DEF StageEvents, TypeOK, LogTypeOK

LEMMA LoadType ==
    ASSUME TypeOK, NEW keys \in SUBSET Keys
    PROVE  Load(keys) \in SUBSET Value
BY DEF Load, Value, TypeOK, LogTypeOK

LEMMA KeysOfType == ASSUME NEW events PROVE KeysOf(events) \in SUBSET Keys
BY DEF KeysOf

LEMMA AppKeysType == AppKeys \in SUBSET Keys
BY DEF AppKeys


-----------------------------------------------------------------------------
(* Types. *)

LEMMA InitTypeOK == Init => TypeOK
BY DEF Init, LogInit, LoopInit, TypeOK, LogTypeOK, LoopTypeOK, Ids, TxnStates, Statuses, Finished

\* A step of a transaction.
LEMMA LogStepTypeOK ==
    ASSUME TypeOK, LogNext, UNCHANGED loopVars
    PROVE  TypeOK'
<1> USE DEF TypeOK, LogTypeOK, TxnStates, Statuses, Ids
<1>1. LoopTypeOK'
  BY DEF LoopTypeOK, loopVars, nodeVars
<1>2. ASSUME NEW t \in Txns, AllocateID(t) PROVE LogTypeOK'
  BY <1>2 DEF AllocateID
<1>3. ASSUME NEW t \in Txns, Fire(t) PROVE LogTypeOK'
  BY <1>3 DEF Fire
<1>4. ASSUME NEW t \in Txns, CommitChange(t) PROVE db' \in [Keys -> Nat]
  <2>1. Applied(KindOf[t], db[KeyOf[t]]) \in Nat
    BY DEF Applied
  <2>2. QED
    BY <1>4, <2>1 DEF CommitChange
<1>5. ASSUME NEW t \in Txns, CommitWithEvent(t) PROVE LogTypeOK'
  BY <1>4, <1>5 DEF CommitWithEvent
<1>6. ASSUME NEW t \in Txns, Commit(t) PROVE LogTypeOK'
  BY <1>4, <1>6 DEF Commit
<1>7. ASSUME NEW t \in Txns, Rollback(t) PROVE LogTypeOK'
  BY <1>7 DEF Rollback
<1>8. ASSUME NEW t \in Txns, Finalizer(t) PROVE LogTypeOK'
  BY <1>8 DEF Finalizer
<1>9. ASSUME NEW i \in Ids, Age(i) PROVE LogTypeOK'
  BY <1>9 DEF Age
<1>10. QED
  BY <1>1, <1>2, <1>3, <1>5, <1>6, <1>7, <1>8, <1>9 DEF LogNext

LEMMA AbandonTypeOK ==
    ASSUME TypeOK, NEW n \in Nodes, Abandon(n)
    PROVE  /\ batch' \in [Nodes -> SUBSET Ids]
           /\ last' \in [Nodes -> 0..MaxEvents]
           /\ unseen' \in [Nodes -> SUBSET Ids]
           /\ stage' \in [Nodes -> 0..Finished]
           /\ todo' \in [Nodes -> SUBSET (0..MaxEvents)]
           /\ loaded' \in [Nodes -> SUBSET Value]
BY FinishedIsEight DEF Abandon, TypeOK, LoopTypeOK

\* A step of an instance's loop.
LEMMA ProgressTypeOK ==
    ASSUME TypeOK, NEW n \in Nodes, Progress(n)
    PROVE  TypeOK'
<1> USE DEF TypeOK, LoopTypeOK
<1> USE FinishedIsEight
<1>1. UNCHANGED logVars => LogTypeOK'
  BY DEF LogTypeOK, logVars
<1>2. ASSUME ReWatch(n) PROVE TypeOK'
  <2>1. faults' \in 0..MaxFaults
    BY <1>2 DEF ReWatch, Fault
  <2>2. preState' \in [Nodes -> BOOLEAN] /\ initialized' \in [Nodes -> BOOLEAN]
    BY <1>2, Zenon DEF ReWatch
  <2>3. currentCursor' \in [Nodes -> 0..MaxEvents]
    BY <1>2 DEF ReWatch
  <2>4. QED
    BY <1>1, <1>2, <2>1, <2>2, <2>3 DEF ReWatch, batchVars, historyVars
<1>3. ASSUME Loop(n) PROVE TypeOK'
  BY <1>1, <1>3 DEF Loop, observerVars, historyVars
<1>4. ASSUME ListBatch(n) PROVE TypeOK'
  <2> DEFINE events == FilterOut(Listed(start[n]))
  <2>1. events \in SUBSET Ids
    BY DEF FilterOut, Listed, Visible
  <2>2. NextStage(events, 0) \in 1..Finished
    BY NextStageType
  <2>3. StageEvents(events, NextStage(events, 0)) \in SUBSET (0..MaxEvents)
    BY StageEventsType
  <2>4. QED
    BY <1>1, <1>4, <2>1, <2>2, <2>3 DEF ListBatch, observerVars, historyVars, Ids
<1>5. ASSUME AtEnd(n) PROVE TypeOK'
  BY <1>1, <1>5 DEF AtEnd, observerVars, batchVars, historyVars
<1>6. ASSUME RecordCursor(n) PROVE TypeOK'
  BY <1>1, <1>6 DEF RecordCursor, Fault, observerVars, batchVars, historyVars
<1>7. ASSUME ReadMetaOfPublish(n) PROVE TypeOK'
  <2>1. \A apps \in SUBSET Live(AppKeys) : Load(apps) \in SUBSET Value
    BY LoadType, AppKeysType DEF Live
  <2>2. QED
    BY <1>1, <1>7, <2>1 DEF ReadMetaOfPublish, consumeFrame, observerVars, historyVars
<1>8. ASSUME ReadReleasedGroups(n) PROVE TypeOK'
  <2>1. \A k \in KeysOf(todo[n]) : Load({k}) \in SUBSET Value
    BY LoadType, KeysOfType
  <2>2. QED
    BY <1>1, <1>8, <2>1 DEF ReadReleasedGroups, consumeFrame, observerVars, historyVars
<1>9. ASSUME ReadAppMeta(n) PROVE TypeOK'
  <2>1. Load(Live(KeysOf(todo[n]))) \in SUBSET Value
    BY LoadType, KeysOfType DEF Live
  <2>2. QED
    BY <1>1, <1>9, <2>1 DEF ReadAppMeta, consumeFrame, observerVars, historyVars
<1>10. ASSUME ReadCredential(n) PROVE TypeOK'
  <2>1. \A i \in todo[n] : Load(Live(KeysOf({i}))) \in SUBSET Value
    BY LoadType, KeysOfType DEF Live
  <2>2. QED
    BY <1>1, <1>10, <2>1 DEF ReadCredential, consumeFrame, observerVars, historyVars
<1>11. ASSUME WriteRedis(n) PROVE TypeOK'
  BY <1>1, <1>11 DEF WriteRedis, Value, consumeFrame, observerVars, historyVars
<1>12. ASSUME DeleteRedis(n) PROVE TypeOK'
  BY <1>1, <1>12 DEF DeleteRedis, consumeFrame, observerVars, historyVars
<1>13. ASSUME StageDone(n) PROVE TypeOK'
  <2>1. NextStage(batch[n], stage[n]) \in 1..Finished
    BY NextStageType
  <2>2. StageEvents(batch[n], NextStage(batch[n], stage[n])) \in SUBSET (0..MaxEvents)
    BY StageEventsType
  <2>3. QED
    BY <1>1, <1>13, <2>1, <2>2 DEF StageDone, observerVars, historyVars
<1>14. ASSUME Consumed(n) PROVE TypeOK'
  <2>1. /\ pc' \in [Nodes -> {"top", "list", "consume", "record"}]
        /\ start' \in [Nodes -> 0..MaxEvents] /\ last' \in [Nodes -> 0..MaxEvents]
        /\ stage' \in [Nodes -> 0..Finished]
    BY <1>14 DEF Consumed
  <2>2. /\ batch' \in [Nodes -> SUBSET Ids] /\ unseen' \in [Nodes -> SUBSET Ids]
        /\ handled' \subseteq Ids /\ gaps' \subseteq Ids
    BY <1>14 DEF Consumed
  <2>3. QED
    BY <1>1, <1>14, <2>1, <2>2 DEF Consumed, observerVars
<1>15. QED
  BY <1>2, <1>3, <1>4, <1>5, <1>6, <1>7, <1>8, <1>9, <1>10, <1>11, <1>12, <1>13, <1>14 DEF Progress

\* A failure, and what happens around the loop.
LEMMA EnvironmentTypeOK ==
    ASSUME TypeOK,
           \/ \E n \in Nodes : \/ StepFails(n) \/ Restart(n)
                               \/ BecomeMaster(n) \/ LoseMaster(n) \/ Purge(n)
           \/ \E i \in Ids : GrowOld(i)
           \/ \E f \in Fillers : ReadForFill(f) \/ WriteFill(f)
           \/ \E k \in Keys : Expire(k)
    PROVE  TypeOK'
<1> USE DEF TypeOK, LoopTypeOK
<1>1. UNCHANGED logVars => LogTypeOK'
  BY DEF LogTypeOK, logVars
<1>2. ASSUME NEW n \in Nodes, StepFails(n) PROVE TypeOK'
  <2>1. faults' \in 0..MaxFaults /\ pc' \in [Nodes -> {"top", "list", "consume", "record"}]
    BY <1>2 DEF StepFails, Fault
  <2>2. Abandon(n)
    BY <1>2 DEF StepFails
  <2>3. QED
    BY <1>1, <1>2, <2>1, <2>2, AbandonTypeOK DEF StepFails, observerVars, historyVars
<1>3. ASSUME NEW n \in Nodes, Restart(n) PROVE TypeOK'
  <2>1. /\ faults' \in 0..MaxFaults /\ pc' \in [Nodes -> {"top", "list", "consume", "record"}]
        /\ currentCursor' \in [Nodes -> 0..MaxEvents] /\ start' \in [Nodes -> 0..MaxEvents]
        /\ master' \in [Nodes -> BOOLEAN] /\ preState' \in [Nodes -> BOOLEAN]
        /\ initialized' \in [Nodes -> BOOLEAN]
    BY <1>3 DEF Restart, Fault
  <2>2. Abandon(n)
    BY <1>3 DEF Restart
  <2>3. QED
    BY <1>1, <1>3, <2>1, <2>2, AbandonTypeOK DEF Restart, historyVars
<1>4. ASSUME NEW n \in Nodes, BecomeMaster(n) \/ LoseMaster(n) PROVE TypeOK'
  <2>1. faults' \in 0..MaxFaults
    BY <1>4 DEF BecomeMaster, LoseMaster, Fault
  <2>2. master' \in [Nodes -> BOOLEAN]
    BY <1>4, Zenon DEF BecomeMaster, LoseMaster
  <2>3. QED
    BY <1>1, <1>4, <2>1, <2>2 DEF BecomeMaster, LoseMaster, environmentFrame, historyVars, nodeVars
<1>5. ASSUME NEW n \in Nodes, Purge(n) PROVE TypeOK'
  <2>1. LogTypeOK'
    BY <1>5 DEF Purge, LogTypeOK, Statuses
  <2>2. QED
    BY <1>5, <2>1 DEF Purge, loopVars, nodeVars
<1>6. ASSUME NEW i \in Ids, GrowOld(i) PROVE TypeOK'
  BY <1>1, <1>6 DEF GrowOld, environmentFrame, historyVars, nodeVars, Visible
<1>7. ASSUME NEW f \in Fillers, ReadForFill(f) PROVE TypeOK'
  <2>1. \A k \in Live(Keys) : Load({k}) \in SUBSET Value
    BY LoadType DEF Live
  <2>2. QED
    BY <1>1, <1>7, <2>1 DEF ReadForFill, environmentFrame, historyVars, nodeVars
<1>8. ASSUME NEW f \in Fillers, WriteFill(f) PROVE TypeOK'
  BY <1>1, <1>8 DEF WriteFill, observerVars, nodeVars, Value
<1>9. ASSUME NEW k \in Keys, Expire(k) PROVE TypeOK'
  BY <1>1, <1>9 DEF Expire, environmentFrame, historyVars, nodeVars
<1>10. QED
  BY <1>2, <1>3, <1>4, <1>5, <1>6, <1>7, <1>8, <1>9

LEMMA StepTypeOK == TypeOK /\ [Next]_vars => TypeOK'
<1> SUFFICES ASSUME TypeOK, [Next]_vars PROVE TypeOK'
  OBVIOUS
<1>1. CASE LogNext /\ UNCHANGED loopVars
  BY <1>1, LogStepTypeOK
<1>2. ASSUME NEW n \in Nodes, Progress(n) PROVE TypeOK'
  BY <1>2, ProgressTypeOK
<1>3. CASE UNCHANGED vars
  BY <1>3 DEF vars, logVars, loopVars, nodeVars, TypeOK, LogTypeOK, LoopTypeOK
<1>4. QED
  BY <1>1, <1>2, <1>3, EnvironmentTypeOK DEF Next

\* Every reachable state is well typed: cursors and batches stay within the ids drawn for
\* events, and a refresh only carries versions of existing rows.
THEOREM TypeCorrect == Spec => []TypeOK
<1>1. QED
  BY InitTypeOK, StepTypeOK, PTL DEF Spec


-----------------------------------------------------------------------------
(* No loss behind the cursor. *)

\* Every id up to the cursor was handled or passed before it had a row.
Covers(cursor) == \A i \in 1..cursor : i \in handled \cup gaps

\* While a batch is consumed, it and the ids without a row fill the interval it stands for.
BatchCovers(n) ==
    pc[n] = "consume" =>
        /\ last[n] \in Ids
        /\ \A i \in (start[n] + 1)..last[n] : i \in batch[n] \cup unseen[n]

\* The cursors an instance holds are covered wherever its loop is, because it may fail or
\* crash at any point and RecordCursor writes what it then holds.
CursorInv ==
    /\ Covers(reminder)
    /\ \A n \in Nodes : Covers(currentCursor[n]) /\ Covers(start[n]) /\ BatchCovers(n)

\* The page List returns has no visible event between the cursor and its last one left out,
\* and the filter keeps that: the events of a batch and the ids without a row are all there is.
LEMMA FilterOutIsPrefix ==
    ASSUME TypeOK, NEW cursor \in 0..MaxEvents, NEW top \in FilterOut(Listed(cursor)),
           NEW i \in Visible, cursor < i, i <= top
    PROVE  i \in FilterOut(Listed(cursor))
<1> DEFINE upto(x) == {j \in Visible : cursor < j /\ j <= x}
<1>1. Visible \subseteq 1..MaxEvents /\ top \in Visible /\ i \in Nat /\ top \in Nat
  BY DEF Visible, FilterOut, Listed, Ids
<1>2. IsFiniteSet(upto(top)) /\ upto(i) \subseteq upto(top)
  <2>1. IsFiniteSet(1..MaxEvents)
    BY FS_Interval
  <2>2. upto(top) \subseteq 1..MaxEvents
    BY <1>1
  <2>3. QED
    <3>1. IsFiniteSet(upto(top))
      BY <2>1, <2>2, FS_Subset
    <3>2. \A j \in Visible : j <= i => j <= top
      BY <1>1
    <3>3. upto(i) \subseteq upto(top)
      BY <3>2
    <3>4. QED
      BY <3>1, <3>3
<1>3. Cardinality(upto(i)) <= Cardinality(upto(top))
  BY <1>2, FS_Subset
<1>4. Cardinality(upto(i)) \in Nat /\ Cardinality(upto(top)) \in Nat
  BY <1>2, FS_Subset, FS_CardinalityType
<1>5. Cardinality(upto(top)) <= Limit
  BY DEF FilterOut, Listed
<1>6. i \in Listed(cursor)
  BY <1>3, <1>4, <1>5 DEF Listed
<1>7. \A j \in Listed(cursor) : j <= i => Ready(j)
  BY <1>1 DEF FilterOut, Listed, Visible, Ids
<1>8. QED
  BY <1>6, <1>7 DEF FilterOut

LEMMA InitCursorInv == Init => CursorInv
BY DEF Init, LoopInit, CursorInv, Covers, BatchCovers

LEMMA ListBatchCursorInv ==
    ASSUME TypeOK, CursorInv, NEW n \in Nodes, ListBatch(n)
    PROVE  CursorInv'
<1> DEFINE events == FilterOut(Listed(start[n]))
<1>1. PICK top \in events :
        /\ \A i \in events : i <= top
        /\ last' = [last EXCEPT ![n] = top]
        /\ unseen' = [unseen EXCEPT ![n] =
                        {i \in Ids : start[n] < i /\ i < top /\ i \notin Visible}]
  BY DEF ListBatch
<1>2. /\ batch' = [batch EXCEPT ![n] = events] /\ pc' = [pc EXCEPT ![n] = "consume"]
      /\ UNCHANGED <<reminder, currentCursor, start, handled, gaps>>
  BY DEF ListBatch, historyVars
<1>3. start[n] \in 0..MaxEvents /\ top \in Ids /\ top \in Visible
  BY DEF TypeOK, LoopTypeOK, FilterOut, Listed, Visible
<1>4. ASSUME NEW i \in (start[n] + 1)..top PROVE i \in batch'[n] \cup unseen'[n]
  <2>1. i \in Ids /\ start[n] < i /\ i <= top
    BY <1>3 DEF Ids
  <2>2. CASE i \in Visible
    BY <1>2, <1>3, <2>1, <2>2, FilterOutIsPrefix DEF TypeOK, LoopTypeOK
  <2>3. CASE i \notin Visible
    <3>1. i < top
      BY <1>3, <2>1, <2>3 DEF Ids
    <3>2. QED
      BY <1>1, <2>1, <2>3, <3>1 DEF TypeOK, LoopTypeOK
  <2>4. QED
    BY <2>2, <2>3
<1>5. BatchCovers(n)'
  BY <1>1, <1>2, <1>3, <1>4 DEF BatchCovers, TypeOK, LoopTypeOK
<1>6. \A m \in Nodes \ {n} : BatchCovers(m)'
  BY <1>1, <1>2 DEF CursorInv, BatchCovers, TypeOK, LoopTypeOK
<1>7. QED
  BY <1>2, <1>5, <1>6 DEF CursorInv, Covers

LEMMA ConsumedCursorInv ==
    ASSUME TypeOK, CursorInv, NEW n \in Nodes, Consumed(n)
    PROVE  CursorInv'
<1> USE DEF TypeOK, LoopTypeOK
<1>1. /\ pc[n] = "consume" /\ start' = [start EXCEPT ![n] = last[n]]
      /\ handled' = handled \cup batch[n] /\ gaps' = gaps \cup unseen[n]
      /\ UNCHANGED <<reminder, currentCursor>>
  BY DEF Consumed
<1>2. Covers(start[n])'
  <2>1. ASSUME NEW i \in 1..last[n] PROVE i \in handled' \cup gaps'
    <3>1. CASE i <= start[n]
      BY <1>1, <3>1 DEF CursorInv, Covers
    <3>2. CASE i > start[n]
      BY <1>1, <3>2 DEF CursorInv, BatchCovers
    <3>3. QED
      BY <3>1, <3>2
  <2>2. QED
    BY <1>1, <2>1 DEF Covers
<1>3. \A m \in Nodes : BatchCovers(m)'
  BY DEF Consumed, CursorInv, BatchCovers
<1>4. \A m \in Nodes \ {n} : Covers(start[m])'
  BY <1>1 DEF CursorInv, Covers
<1>5. QED
  BY <1>1, <1>2, <1>3, <1>4 DEF CursorInv, Covers


\* A step that leaves the cursors and the history alone and at most ends a consume.
LEMMA FrameCursorInv ==
    ASSUME CursorInv,
           UNCHANGED <<reminder, currentCursor, start, handled, gaps>>,
           \A n \in Nodes : pc'[n] = "consume" =>
               /\ pc[n] = "consume"
               /\ last'[n] = last[n] /\ batch'[n] = batch[n] /\ unseen'[n] = unseen[n]
    PROVE  CursorInv'
BY DEF CursorInv, Covers, BatchCovers

LEMMA ProgressCursorInv ==
    ASSUME TypeOK, CursorInv, NEW n \in Nodes, Progress(n)
    PROVE  CursorInv'
<1> USE DEF TypeOK, LoopTypeOK
<1>1. CASE ReWatch(n)
  BY <1>1 DEF ReWatch, CursorInv, Covers, BatchCovers, batchVars, historyVars
<1>2. CASE Loop(n)
  BY <1>2 DEF Loop, CursorInv, Covers, BatchCovers, historyVars
<1>3. CASE ListBatch(n)
  BY <1>3, ListBatchCursorInv
<1>4. CASE AtEnd(n)
  BY <1>4, FrameCursorInv DEF AtEnd, batchVars, historyVars
<1>5. CASE RecordCursor(n)
  BY <1>5 DEF RecordCursor, CursorInv, Covers, BatchCovers, batchVars, historyVars
<1>6. CASE UNCHANGED consumeFrame
  BY <1>6, FrameCursorInv DEF consumeFrame, historyVars
<1>7. CASE StageDone(n)
  BY <1>7, FrameCursorInv DEF StageDone, historyVars
<1>8. CASE Consumed(n)
  BY <1>8, ConsumedCursorInv
<1>9. QED
  BY <1>1, <1>2, <1>3, <1>4, <1>5, <1>6, <1>7, <1>8
     DEF Progress, ReadMetaOfPublish, ReadReleasedGroups, ReadAppMeta, ReadCredential,
         WriteRedis, DeleteRedis

LEMMA StepCursorInv == TypeOK /\ CursorInv /\ [Next]_vars => CursorInv'
<1> SUFFICES ASSUME TypeOK, CursorInv, [Next]_vars PROVE CursorInv'
  OBVIOUS
<1>1. CASE UNCHANGED loopVars
  BY <1>1, FrameCursorInv DEF loopVars, nodeVars
<1>2. ASSUME NEW n \in Nodes, Progress(n) PROVE CursorInv'
  BY <1>2, ProgressCursorInv
<1>3. ASSUME NEW n \in Nodes, StepFails(n) PROVE CursorInv'
  BY <1>3, FrameCursorInv DEF StepFails, Abandon, historyVars, TypeOK, LoopTypeOK
<1>4. ASSUME NEW n \in Nodes, Restart(n) PROVE CursorInv'
  BY <1>4 DEF Restart, Abandon, CursorInv, Covers, BatchCovers, historyVars, TypeOK, LoopTypeOK
<1>5. CASE UNCHANGED <<nodeVars, reminder, handled, gaps>>
  BY <1>5, FrameCursorInv DEF nodeVars
<1>6. QED
  BY <1>1, <1>2, <1>3, <1>4, <1>5
     DEF Next, vars, BecomeMaster, LoseMaster, Purge, GrowOld, ReadForFill, WriteFill, Expire,
         environmentFrame, historyVars, loopVars

\* However instances fail, crash, restart or believe to be masters together: a visible event
\* the recorded cursor covers was handled, or its row appeared behind an instance that had
\* passed its id (loop, loopOneStep, doOneStep, RecordCursor).
THEOREM NoLoss == Spec => []NoLossBehindCursor
<1>1. TypeOK /\ CursorInv => NoLossBehindCursor
  BY DEF CursorInv, Covers, NoLossBehindCursor, Visible, Ids, TypeOK, LoopTypeOK
<1>2. QED
  BY <1>1, InitCursorInv, StepCursorInv, TypeCorrect, PTL DEF Spec


-----------------------------------------------------------------------------
(* A final status is the truth about the transaction. *)

\* Every event belongs to one transaction, and no id beyond the generator's is in use.
IdsInUse ==
    /\ \A t \in Txns : /\ eventID[t] <= maxID
                       /\ txn[t] = "idle" <=> eventID[t] = 0
    /\ \A t, u \in Txns : eventID[t] = eventID[u] /\ eventID[t] # 0 => t = u
    /\ \A i \in Visible : i <= maxID
    /\ \A i \in handled : i <= maxID
    /\ \A n \in Nodes : \A i \in batch[n] : i <= maxID

\* A row is absent or of unknown status as long as its transaction may still fail.
OpenMeansUnsettled ==
    \A t \in Txns : /\ txn[t] = "allocated" => status[eventID[t]] = "none"
                    /\ txn[t] = "fired" => status[eventID[t]] \in {"none", "unknown"}

BatchAfterEnd == \A n \in Nodes : \A t \in Txns : eventID[t] \in batch[n] \ aged => ~Open(t)

EndInv == IdsInUse /\ OpenMeansUnsettled /\ BatchAfterEnd /\ HandledAfterEnd

LEMMA InitEndInv == Init => EndInv
BY DEF Init, LogInit, LoopInit, EndInv, IdsInUse, OpenMeansUnsettled, BatchAfterEnd,
       HandledAfterEnd, Visible

LEMMA LogStepEndInv ==
    ASSUME TypeOK, EndInv, LogNext, UNCHANGED loopVars
    PROVE  EndInv'
<1> USE DEF TypeOK, LogTypeOK, LoopTypeOK, EndInv, IdsInUse, OpenMeansUnsettled, BatchAfterEnd,
            HandledAfterEnd, Visible, Open, Ids
<1>1. UNCHANGED <<handled, batch>>
  BY DEF loopVars, nodeVars
<1>2. ASSUME NEW t \in Txns, AllocateID(t) PROVE EndInv'
  <2>1. eventID[t] = 0 /\ eventID' = [eventID EXCEPT ![t] = maxID + 1] /\ maxID' = maxID + 1
    BY <1>2 DEF AllocateID
  <2>2. txn' = [txn EXCEPT ![t] = "allocated"] /\ UNCHANGED <<status, aged>>
    BY <1>2 DEF AllocateID
  <2>3. IdsInUse'
    BY <1>1, <2>1, <2>2
  <2>4. status[maxID + 1] = "none" /\ maxID + 1 \in Ids
    BY <1>2 DEF AllocateID
  <2>5. OpenMeansUnsettled'
    BY <2>1, <2>2, <2>4
  <2>6. maxID + 1 \notin handled /\ \A n \in Nodes : maxID + 1 \notin batch[n]
    OBVIOUS
  <2>7. BatchAfterEnd' /\ HandledAfterEnd'
    BY <1>1, <2>1, <2>2, <2>6
  <2>8. QED
    BY <2>3, <2>5, <2>7
<1>3. ASSUME NEW t \in Txns, Fire(t) PROVE EndInv'
  BY <1>1, <1>3 DEF Fire
<1>4. ASSUME NEW t \in Txns, CommitWithEvent(t) PROVE EndInv'
  BY <1>1, <1>4 DEF CommitWithEvent
<1>5. ASSUME NEW t \in Txns, Commit(t) PROVE EndInv'
  BY <1>1, <1>5 DEF Commit
<1>6. ASSUME NEW t \in Txns, Rollback(t) PROVE EndInv'
  BY <1>1, <1>6 DEF Rollback
<1>7. ASSUME NEW t \in Txns, Finalizer(t) PROVE EndInv'
  BY <1>1, <1>7 DEF Finalizer
<1>8. ASSUME NEW i \in Ids, Age(i) PROVE EndInv'
  BY <1>1, <1>8 DEF Age
<1>9. QED
  BY <1>2, <1>3, <1>4, <1>5, <1>6, <1>7, <1>8 DEF LogNext

LEMMA ListBatchEndInv ==
    ASSUME TypeOK, EndInv, NEW n \in Nodes, ListBatch(n)
    PROVE  EndInv'
<1> USE DEF TypeOK, LogTypeOK, LoopTypeOK, EndInv
<1> DEFINE events == FilterOut(Listed(start[n]))
<1>1. /\ batch' = [batch EXCEPT ![n] = events]
      /\ UNCHANGED <<maxID, txn, eventID, status, aged, handled>>
  BY DEF ListBatch, logVars, historyVars
<1>2. \A i \in events : i \in Visible /\ Ready(i)
  BY DEF FilterOut, Listed, Visible, Ids
<1>3. IdsInUse'
  BY <1>1, <1>2 DEF IdsInUse, Visible
<1>4. \A t \in Txns : eventID[t] \in events \ aged => ~Open(t)
  <2> SUFFICES ASSUME NEW t \in Txns, eventID[t] \in events, eventID[t] \notin aged
               PROVE  ~Open(t)
    OBVIOUS
  <2>1. status[eventID[t]] \notin {"none", "unknown"}
    BY <1>2 DEF Ready, Visible
  <2>2. QED
    BY <2>1 DEF OpenMeansUnsettled, Open
<1>5. BatchAfterEnd'
  BY <1>1, <1>4 DEF BatchAfterEnd, Open
<1>6. QED
  BY <1>1, <1>3, <1>5 DEF OpenMeansUnsettled, HandledAfterEnd, Open

\* A step that leaves the transactions alone, only takes rows away and only drops batches.
LEMMA FrameEndInv ==
    ASSUME TypeOK, EndInv,
           UNCHANGED <<maxID, txn, eventID, aged>>,
           \A i \in Ids : status'[i] \in {status[i], "none"},
           \A n \in Nodes : batch'[n] \in {batch[n], {}},
           \A i \in handled' : i \in handled \/ \E n \in Nodes : i \in batch[n]
    PROVE  EndInv'
<1> USE DEF TypeOK, LogTypeOK, EndInv
<1>1. IdsInUse'
  BY DEF IdsInUse, Visible
<1>2. OpenMeansUnsettled'
  <2>1. \A t \in Txns : Open(t) => eventID[t] \in Ids
    BY DEF Open, IdsInUse, Ids
  <2>2. QED
    BY <2>1 DEF OpenMeansUnsettled, Open
<1>3. BatchAfterEnd'
  BY DEF BatchAfterEnd, Open
<1>4. HandledAfterEnd'
  BY DEF HandledAfterEnd, BatchAfterEnd, Open
<1>5. QED
  BY <1>1, <1>2, <1>3, <1>4

LEMMA StepEndInv == TypeOK /\ EndInv /\ [Next]_vars => EndInv'
<1> SUFFICES ASSUME TypeOK, EndInv, [Next]_vars PROVE EndInv'
  OBVIOUS
<1> USE DEF TypeOK, LogTypeOK, LoopTypeOK
<1>1. CASE LogNext /\ UNCHANGED loopVars
  BY <1>1, LogStepEndInv
<1>2. ASSUME NEW n \in Nodes, ListBatch(n) PROVE EndInv'
  BY <1>2, ListBatchEndInv
<1>3. ASSUME NEW n \in Nodes, Consumed(n) PROVE EndInv'
  BY <1>3, FrameEndInv DEF Consumed, logVars
<1>4. ASSUME NEW n \in Nodes, StepFails(n) \/ Restart(n) PROVE EndInv'
  BY <1>4, FrameEndInv DEF StepFails, Restart, Abandon, logVars, historyVars
<1>5. ASSUME NEW n \in Nodes, Purge(n) PROVE EndInv'
  BY <1>5, FrameEndInv DEF Purge, loopVars, nodeVars
<1>6. CASE UNCHANGED <<logVars, batch, handled>>
  BY <1>6, FrameEndInv DEF logVars
<1>7. ASSUME NEW n \in Nodes, Progress(n) PROVE EndInv'
  BY <1>2, <1>3, <1>6, <1>7
     DEF Progress, ReWatch, Loop, AtEnd, RecordCursor, ReadMetaOfPublish, ReadReleasedGroups,
         ReadAppMeta, ReadCredential, WriteRedis, DeleteRedis, StageDone, consumeFrame,
         batchVars, historyVars
<1>8. QED
  BY <1>1, <1>4, <1>5, <1>6, <1>7
     DEF Next, vars, BecomeMaster, LoseMaster, GrowOld, ReadForFill, WriteFill, Expire,
         environmentFrame, historyVars, nodeVars, loopVars

\* An event that was handled before its lag time had passed belongs to a transaction that had
\* ended: the refresh cannot have read a row that the transaction still changes (Fire,
\* FireWithTx, Finalizer, doOneStep).
THEOREM HandledOnlyAfterEnd == Spec => []HandledAfterEnd
<1>1. EndInv => HandledAfterEnd
  BY DEF EndInv
<1>2. QED
  BY <1>1, InitEndInv, StepEndInv, TypeCorrect, PTL DEF Spec


-----------------------------------------------------------------------------
(* One instance's cursor.  Two instances may read the same recorded cursor  *)
(* and write theirs in any order; one alone goes on from what it wrote.     *)

\* A cursor that was read is the recorded one, and the iteration under way starts at it or
\* behind it, wherever a failure or a crash ends it.
MovesOn(n) ==
    /\ initialized[n] => currentCursor[n] = reminder
    /\ pc[n] # "top" => reminder <= start[n]
    /\ pc[n] = "consume" => start[n] <= last[n]

MovesOnInv == \A n \in Nodes : MovesOn(n)

LEMMA InitMovesOn == Init => MovesOnInv
BY DEF Init, LoopInit, MovesOnInv, MovesOn

\* A step that leaves the cursors alone and begins neither an iteration nor a batch.
LEMMA FrameMovesOn ==
    ASSUME NEW n \in Nodes, MovesOn(n),
           UNCHANGED <<reminder, currentCursor>>,
           initialized'[n] => initialized[n],
           pc'[n] # "top" => pc[n] # "top" /\ start'[n] = start[n],
           pc'[n] = "consume" => pc[n] = "consume" /\ last'[n] = last[n]
    PROVE  MovesOn(n)'
BY DEF MovesOn

LEMMA ProgressMovesOn ==
    ASSUME TypeOK, NEW n \in Nodes, MovesOn(n), Progress(n)
    PROVE  MovesOn(n)' /\ reminder' >= reminder
<1> USE DEF TypeOK, LoopTypeOK
<1>1. CASE ReWatch(n)
  BY <1>1 DEF ReWatch, MovesOn, batchVars
<1>2. CASE Loop(n)
  BY <1>2 DEF Loop, MovesOn
<1>3. CASE ListBatch(n)
  <2> DEFINE events == FilterOut(Listed(start[n]))
  <2>1. PICK top \in events : last' = [last EXCEPT ![n] = top]
    BY <1>3 DEF ListBatch
  <2>2. top \in Ids /\ top > start[n]
    BY DEF FilterOut, Listed, Visible
  <2>3. /\ start' = start /\ initialized' = initialized
        /\ currentCursor' = currentCursor /\ reminder' = reminder /\ pc[n] = "list"
    BY <1>3 DEF ListBatch
  <2>4. last'[n] = top
    BY <2>1
  <2>5. start[n] <= top
    BY <2>2 DEF Ids
  <2>6. QED
    BY <2>3, <2>4, <2>5 DEF MovesOn
<1>4. CASE AtEnd(n)
  BY <1>4 DEF AtEnd, MovesOn, batchVars
<1>5. CASE RecordCursor(n)
  BY <1>5 DEF RecordCursor, MovesOn, batchVars
<1>6. CASE UNCHANGED consumeFrame
  BY <1>6 DEF consumeFrame, MovesOn
<1>7. CASE StageDone(n)
  BY <1>7 DEF StageDone, MovesOn
<1>8. CASE Consumed(n)
  BY <1>8 DEF Consumed, MovesOn
<1>9. QED
  BY <1>1, <1>2, <1>3, <1>4, <1>5, <1>6, <1>7, <1>8
     DEF Progress, ReadMetaOfPublish, ReadReleasedGroups, ReadAppMeta, ReadCredential,
         WriteRedis, DeleteRedis

LEMMA StepMovesOn ==
    ASSUME \A m, n \in Nodes : m = n
    PROVE  TypeOK /\ MovesOnInv /\ [Next]_vars => MovesOnInv' /\ reminder' >= reminder
<1> SUFFICES ASSUME TypeOK, MovesOnInv, [Next]_vars
             PROVE  MovesOnInv' /\ reminder' >= reminder
  OBVIOUS
<1> USE DEF TypeOK, LoopTypeOK, MovesOnInv
<1>1. CASE UNCHANGED <<nodeVars, reminder>>
  BY <1>1, FrameMovesOn DEF nodeVars
<1>2. ASSUME NEW n \in Nodes, Progress(n) PROVE MovesOnInv' /\ reminder' >= reminder
  BY <1>2, ProgressMovesOn
<1>3. ASSUME NEW n \in Nodes, StepFails(n) PROVE MovesOnInv' /\ reminder' >= reminder
  BY <1>3 DEF StepFails, MovesOn
<1>4. ASSUME NEW n \in Nodes, Restart(n) PROVE MovesOnInv' /\ reminder' >= reminder
  BY <1>4 DEF Restart, MovesOn
<1>5. QED
  BY <1>1, <1>2, <1>3, <1>4
     DEF Next, vars, BecomeMaster, LoseMaster, Purge, GrowOld, ReadForFill, WriteFill, Expire,
         environmentFrame, historyVars, loopVars

\* One instance alone, whatever fails or crashes, never records a cursor behind the recorded
\* one: no event it has recorded as consumed is listed again (loop, loopOneStep, RecordCursor).
THEOREM OneInstanceMovesOn ==
    ASSUME \E n : Nodes = {n}
    PROVE  Spec => CursorNeverMovesBack
<1>1. TypeOK /\ MovesOnInv /\ [Next]_vars => MovesOnInv'
  BY StepMovesOn
<1>2. TypeOK /\ MovesOnInv /\ [Next]_vars => [reminder' >= reminder]_vars
  BY StepMovesOn
<1>3. QED
  BY <1>1, <1>2, InitMovesOn, TypeCorrect, PTL DEF Spec, CursorNeverMovesBack

-----------------------------------------------------------------------------
(* What one instance still owes Redis.                                      *)

\* The transactions whose event refreshes the cached row of an app or of its released groups,
\* and the stage of consume() that does it.
Refreshing == {t \in Txns : KindOf[t] \in {"publish", "insertApp", "updateApp", "deleteApp"}}

StageOf(t) ==
    CASE KindOf[t] = "publish"   -> 2
      [] KindOf[t] = "insertApp" -> 3
      [] KindOf[t] = "updateApp" -> 4
      [] OTHER                   -> 6

AppRows == Keys \ CredKeys

\* Handling the event of t brings Redis in line with row k as it is now: a deleted row is not
\* in the result of the queries for the apps to refresh.
Refreshes(t, k) ==
    /\ t \in Refreshing
    /\ KeyOf[t] = k
    /\ db[k] = 0 => KindOf[t] \in {"publish", "deleteApp"}

\* t has changed its row, and its event was not handled after its commit.
Outstanding(t) ==
    /\ txn[t] \in {"committed", "succeeded"}
    /\ eventID[t] \in aged \/ eventID[t] \notin handled

\* The batch under way, if it holds the event of t at all, has not read its row yet.
Ahead(n, t) ==
    \/ eventID[t] \in aged
    \/ eventID[t] \notin batch[n]
    \/ stage[n] < StageOf(t)
    \/ stage[n] = StageOf(t) /\ eventID[t] \in todo[n]

InHand(n, k) == \E v \in loaded[n] : v.key = k

\* An outdated value in Redis has an event that is not handled, whose row is read later or
\* is read already and about to be written.
StaleIsOwed(n) ==
    \A k \in AppRows : redis[k] \notin {None, db[k]} =>
        \E t \in Txns : Refreshes(t, k) /\ Outstanding(t) /\ (Ahead(n, t) \/ InHand(n, k))

\* A value that was read and has been outdated since has an event whose row is read later.
ReadIsOwed(n) ==
    \A v \in loaded[n] : v.key \in AppRows /\ v.version # db[v.key] =>
        \E t \in Txns : Refreshes(t, v.key) /\ Outstanding(t) /\ Ahead(n, t)

\* The refresh under way works on its batch, and no row is read while a value read before it
\* waits to be written, except by the goroutines of different apps.
Refresh(n) ==
    /\ todo[n] \subseteq batch[n]
    /\ pc[n] # "consume" => batch[n] = {} /\ loaded[n] = {}
    /\ pc[n] = "consume" => stage[n] > 0
    /\ stage[n] = Finished => loaded[n] = {} /\ todo[n] = {}
    /\ stage[n] = 2 => \A v \in loaded[n] : v.key \notin KeysOf(todo[n])
    /\ stage[n] \notin {2, 5} /\ todo[n] # {} => loaded[n] = {}

Owes(n) == StaleIsOwed(n) /\ ReadIsOwed(n) /\ Refresh(n)

LEMMA StageNames ==
    /\ Stages[1] = "publishMeta" /\ Stages[2] = "publish" /\ Stages[3] = "insertApp"
    /\ Stages[4] = "updateApp" /\ Stages[5] = "updateCred" /\ Stages[6] = "deleteApp"
    /\ Stages[7] = "deleteCred"
BY DEF Stages

LEMMA StageOfType == ASSUME NEW t \in Refreshing PROVE StageOf(t) \in {2, 3, 4, 6}
BY DEF StageOf, Refreshing

\* The event of t is among those of its stage.
LEMMA StageOfHasEvent ==
    ASSUME NEW t \in Refreshing, NEW events, eventID[t] \in events
    PROVE  eventID[t] \in StageEvents(events, StageOf(t))
<1>1. KindOf[t] \in StageKinds(StageOf(t))
  BY StageNames DEF StageOf, Refreshing, StageKinds
<1>2. StageOf(t) # Finished
  BY StageOfType, FinishedIsEight
<1>3. t \in Txns
  BY DEF Refreshing
<1>4. QED
  BY <1>1, <1>2, <1>3 DEF StageEvents

LEMMA StageEventsAreEvents ==
    ASSUME NEW events, NEW s PROVE StageEvents(events, s) \subseteq events
BY DEF StageEvents

\* The next stage does not pass one that has events.
LEMMA NextStageSays ==
    ASSUME NEW events, NEW s \in 0..Finished, NEW r \in 1..7,
           s < r, StageEvents(events, r) # {}
    PROVE  NextStage(events, s) <= r
<1> DEFINE S == {Finished} \cup {q \in (s + 1)..Len(Stages) : StageEvents(events, q) # {}}
<1>1. S \in SUBSET (1..8) /\ 8 \in S /\ r \in S
  BY FinishedIsEight
<1>2. NextStage(events, s) = Min(S)
  BY DEF NextStage
<1> HIDE DEF S
<1>3. \E x \in S : \A y \in S : x <= y
  BY <1>1
<1>4. Min(S) <= r
  BY <1>1, <1>3 DEF Min
<1>5. QED
  BY <1>2, <1>4

\* A batch taken up at a stage leaves every event of a later one ahead.
LEMMA NextStageAhead ==
    ASSUME NEW t \in Refreshing, NEW events, NEW s \in 0..Finished,
           eventID[t] \in events, s < StageOf(t)
    PROVE  LET r == NextStage(events, s) IN
             r < StageOf(t) \/ (r = StageOf(t) /\ eventID[t] \in StageEvents(events, r))
<1>1. eventID[t] \in StageEvents(events, StageOf(t))
  BY StageOfHasEvent
<1>2. StageOf(t) \in 1..7
  BY StageOfType
<1>3. NextStage(events, s) <= StageOf(t)
  BY <1>1, <1>2, NextStageSays
<1>4. NextStage(events, s) \in 1..Finished
  BY NextStageType
<1>5. QED
  BY <1>1, <1>2, <1>3, <1>4, FinishedIsEight

\* The stage an operation of consume() belongs to.
LEMMA InStageSays ==
    ASSUME NEW n \in Nodes, NEW names, TypeOK, Refresh(n), InStage(n, names)
    PROVE  /\ pc[n] = "consume" /\ stage[n] \in 1..7
           /\ names = {"publishMeta"} => stage[n] = 1
           /\ names = {"publish"} => stage[n] = 2
           /\ names = {"insertApp", "updateApp"} => stage[n] \in {3, 4}
           /\ names = {"updateCred"} => stage[n] = 5
           /\ names = {"deleteApp", "deleteCred"} => stage[n] \in {6, 7}
<1>1. pc[n] = "consume" /\ stage[n] \in 1..7
  BY FinishedIsEight DEF InStage, Refresh, TypeOK, LoopTypeOK
<1>2. Stages[stage[n]] \in names
  BY DEF InStage
<1>3. QED
  BY <1>1, <1>2, StageNames

\* The event of one transaction is about one row.
LEMMA KeysOfOne ==
    ASSUME EndInv, NEW t \in Txns, eventID[t] # 0
    PROVE  KeysOf({eventID[t]}) = {KeyOf[t]}
BY DEF EndInv, IdsInUse, KeysOf

LEMMA InitOwes == ASSUME NEW n \in Nodes PROVE Init => Owes(n)
BY FinishedIsEight DEF Init, LoopInit, Owes, StaleIsOwed, ReadIsOwed, Refresh, AppRows

\* A step that leaves the refresh under way alone, and of the transactions changes at most
\* what their ends and their lag times are.
LEMMA FrameOwes ==
    ASSUME NEW n \in Nodes, Owes(n),
           \A t \in Txns : txn[t] \in {"committed", "succeeded"} =>
               txn'[t] \in {"committed", "succeeded"} /\ eventID'[t] = eventID[t],
           aged \subseteq aged', UNCHANGED <<db, handled>>,
           KeysOf(todo[n])' = KeysOf(todo[n]),
           batch'[n] = batch[n], stage'[n] = stage[n], todo'[n] = todo[n],
           loaded'[n] = loaded[n], pc'[n] = "consume" <=> pc[n] = "consume",
           \A k \in Keys : redis'[k] \in {redis[k], None}
    PROVE  Owes(n)'
<1>1. \A t, k : Refreshes(t, k)' = Refreshes(t, k)
  BY DEF Refreshes, Refreshing
<1>2. \A t \in Txns : Outstanding(t) => Outstanding(t)'
  BY DEF Outstanding
<1>3. \A t \in Txns : Outstanding(t) /\ Ahead(n, t) => Ahead(n, t)'
  BY DEF Ahead, Outstanding, StageOf
<1>4. \A k : InHand(n, k)' = InHand(n, k)
  BY DEF InHand
<1>5. StaleIsOwed(n)'
  BY <1>1, <1>2, <1>3, <1>4 DEF Owes, StaleIsOwed, AppRows
<1>6. ReadIsOwed(n)'
  BY <1>1, <1>2, <1>3 DEF Owes, ReadIsOwed
<1>7. Refresh(n)'
  BY DEF Owes, Refresh
<1>8. QED
  BY <1>5, <1>6, <1>7 DEF Owes

\* The commit of t makes t itself the transaction that owes its row: its event cannot have
\* been handled before its lag time.
LEMMA CommitOwes ==
    ASSUME TypeOK, EndInv, NEW n \in Nodes, Owes(n), NEW t \in Txns,
           Open(t), txn' = [txn EXCEPT ![t] = txn'[t]],
           txn'[t] \in {"committed", "succeeded"}, CommitChange(t),
           UNCHANGED <<eventID, aged, loopVars>>
    PROVE  Owes(n)'
<1> USE DEF TypeOK, LogTypeOK
<1>1. UNCHANGED <<redis, handled, batch, stage, todo, loaded, pc>>
  BY DEF loopVars, nodeVars
<1>2. eventID[t] \in aged \/ (eventID[t] \notin handled /\ eventID[t] \notin batch[n])
  BY DEF EndInv, BatchAfterEnd, HandledAfterEnd
<1>3. Outstanding(t)' /\ Ahead(n, t)'
  BY <1>1, <1>2 DEF Outstanding, Ahead
<1>4. \A u \in Txns : Outstanding(u) => Outstanding(u)'
  BY <1>1 DEF Outstanding, Open
<1>5. \A u \in Txns : Ahead(n, u) => Ahead(n, u)'
  BY <1>1 DEF Ahead, StageOf
<1>6. \A k : InHand(n, k)' = InHand(n, k)
  BY <1>1 DEF InHand
<1>7. ASSUME NEW k \in Keys, db'[k] = db[k], NEW u \in Txns, Refreshes(u, k)
      PROVE  Refreshes(u, k)'
  BY <1>7 DEF Refreshes, Refreshing
<1>8. ASSUME NEW k \in AppRows, db'[k] # db[k] PROVE Refreshes(t, k)'
  <2>1. k = KeyOf[t] /\ db'[k] = Applied(KindOf[t], db[k])
    BY <1>8 DEF CommitChange, AppRows
  <2>2. KindOf[t] \notin {"updateCred", "reviseCred", "deleteCred"}
    BY <2>1 DEF AppRows, CredKeys
  <2>3. KindOf[t] # "retryApp"
    BY <1>8, <2>1 DEF Applied
  <2>4. t \in Refreshing
    BY <2>2, <2>3 DEF Refreshing, Kinds
  <2>5. db'[k] = 0 => KindOf[t] = "deleteApp"
    BY <2>1, <2>2, <2>3 DEF Applied, AppRows
  <2>6. QED
    BY <2>1, <2>4, <2>5 DEF Refreshes, Refreshing
<1>9. StaleIsOwed(n)'
  <2> SUFFICES ASSUME NEW k \in AppRows, redis[k] \notin {None, db'[k]}
               PROVE  \E u \in Txns : Refreshes(u, k)' /\ Outstanding(u)'
                                      /\ (Ahead(n, u)' \/ InHand(n, k)')
    BY <1>1 DEF StaleIsOwed
  <2>1. CASE db'[k] # db[k]
    BY <1>3, <1>8, <2>1
  <2>2. CASE db'[k] = db[k]
    <3>1. PICK u \in Txns : Refreshes(u, k) /\ Outstanding(u) /\ (Ahead(n, u) \/ InHand(n, k))
      BY <2>2 DEF Owes, StaleIsOwed
    <3>2. Refreshes(u, k)'
      BY <1>7, <2>2, <3>1 DEF AppRows
    <3>3. QED
      BY <1>4, <1>5, <1>6, <3>1, <3>2
  <2>3. QED
    BY <2>1, <2>2
<1>10. ReadIsOwed(n)'
  <2> SUFFICES ASSUME NEW v \in loaded[n], v.key \in AppRows, v.version # db'[v.key]
               PROVE  \E u \in Txns : Refreshes(u, v.key)' /\ Outstanding(u)' /\ Ahead(n, u)'
    BY <1>1 DEF ReadIsOwed
  <2>1. CASE db'[v.key] # db[v.key]
    BY <1>3, <1>8, <2>1
  <2>2. CASE db'[v.key] = db[v.key]
    <3>1. PICK u \in Txns : Refreshes(u, v.key) /\ Outstanding(u) /\ Ahead(n, u)
      BY <2>2 DEF Owes, ReadIsOwed
    <3>2. Refreshes(u, v.key)'
      BY <1>7, <2>2, <3>1 DEF AppRows
    <3>3. QED
      BY <1>4, <1>5, <3>1, <3>2
  <2>3. QED
    BY <2>1, <2>2
<1>11. Refresh(n)'
  BY <1>1 DEF Owes, Refresh, KeysOf
<1>12. QED
  BY <1>9, <1>10, <1>11 DEF Owes

LEMMA LogStepOwes ==
    ASSUME TypeOK, EndInv, NEW n \in Nodes, Owes(n), LogNext, UNCHANGED loopVars
    PROVE  Owes(n)'
<1> USE DEF TypeOK, LogTypeOK
<1>1. UNCHANGED <<redis, handled, batch, stage, todo, loaded, pc>>
  BY DEF loopVars, nodeVars
<1>2. ASSUME NEW t \in Txns, AllocateID(t) PROVE Owes(n)'
  <2>1. /\ txn[t] = "idle" /\ txn' = [txn EXCEPT ![t] = "allocated"]
        /\ eventID' = [eventID EXCEPT ![t] = maxID + 1] /\ UNCHANGED <<aged, db>>
    BY <1>2 DEF AllocateID
  <2>2. eventID[t] \notin todo[n] /\ maxID + 1 \notin todo[n]
    <3>1. \A i \in todo[n] : i \in Ids /\ i <= maxID
      BY DEF Owes, Refresh, EndInv, IdsInUse, LoopTypeOK
    <3>2. eventID[t] = 0
      BY <2>1 DEF EndInv, IdsInUse
    <3>3. QED
      BY <3>1, <3>2 DEF Ids
  <2>3. KeysOf(todo[n])' = KeysOf(todo[n])
    BY <1>1, <2>1, <2>2 DEF KeysOf
  <2>4. QED
    BY <1>1, <2>1, <2>3, FrameOwes
<1>3. ASSUME UNCHANGED eventID PROVE KeysOf(todo[n])' = KeysOf(todo[n])
  BY <1>1, <1>3 DEF KeysOf
<1>4. ASSUME NEW t \in Txns, Fire(t) \/ Rollback(t) \/ Finalizer(t) PROVE Owes(n)'
  <2>1. UNCHANGED <<eventID, aged, db>>
    BY <1>4 DEF Fire, Rollback, Finalizer
  <2>2. \A u \in Txns : txn[u] \in {"committed", "succeeded"} =>
                          txn'[u] \in {"committed", "succeeded"}
    BY <1>4 DEF Fire, Rollback, Finalizer, Open
  <2>3. QED
    BY <1>1, <1>3, <2>1, <2>2, FrameOwes
<1>5. ASSUME NEW t \in Txns, CommitWithEvent(t) PROVE Owes(n)'
  <2>1. /\ Open(t) /\ txn'[t] \in {"committed", "succeeded"}
        /\ txn' = [txn EXCEPT ![t] = txn'[t]]
    BY <1>5 DEF CommitWithEvent, Open
  <2>2. CommitChange(t) /\ UNCHANGED <<eventID, aged>>
    BY <1>5 DEF CommitWithEvent
  <2>3. QED
    BY <2>1, <2>2, CommitOwes
<1>6. ASSUME NEW t \in Txns, Commit(t) PROVE Owes(n)'
  <2>1. /\ Open(t) /\ txn'[t] \in {"committed", "succeeded"}
        /\ txn' = [txn EXCEPT ![t] = txn'[t]]
    BY <1>6 DEF Commit, Open
  <2>2. CommitChange(t) /\ UNCHANGED <<eventID, aged>>
    BY <1>6 DEF Commit
  <2>3. QED
    BY <2>1, <2>2, CommitOwes
<1>7. ASSUME NEW i \in Ids, Age(i) PROVE Owes(n)'
  <2>1. aged \subseteq aged' /\ UNCHANGED <<txn, eventID, db>>
    BY <1>7 DEF Age
  <2>2. QED
    BY <1>1, <1>3, <2>1, FrameOwes
<1>8. QED
  BY <1>2, <1>4, <1>5, <1>6, <1>7 DEF LogNext

\* A read of rows while no other value waits, whatever rows it reads: what it read is current.
LEMMA ReadOwes ==
    ASSUME NEW n \in Nodes, Owes(n), loaded[n] = {},
           UNCHANGED <<logVars, redis, handled, batch, stage, pc>>,
           todo'[n] \subseteq todo[n], stage[n] # Finished, pc[n] = "consume", stage[n] # 2,
           stage[n] # 5 => todo'[n] = {},
           NEW keys, loaded'[n] = Load(keys),
           \A t \in Txns, k \in AppRows :
               /\ Refreshes(t, k) /\ stage[n] = StageOf(t) /\ eventID[t] \in todo[n]
               => k \in keys \/ eventID[t] \in todo'[n]
    PROVE  Owes(n)'
<1>1. UNCHANGED <<txn, eventID, aged, db>>
  BY DEF logVars
<1>2. \A t, k : Refreshes(t, k)' = Refreshes(t, k)
  BY <1>1 DEF Refreshes, Refreshing
<1>3. \A t : Outstanding(t)' = Outstanding(t)
  BY <1>1 DEF Outstanding
<1>4. ASSUME NEW k \in keys PROVE InHand(n, k)'
  <2>1. [key |-> k, version |-> db[k]] \in loaded'[n]
    BY DEF Load
  <2>2. QED
    BY <2>1 DEF InHand
<1>5. ASSUME NEW t \in Txns, NEW k \in AppRows, Refreshes(t, k), Ahead(n, t)
      PROVE  Ahead(n, t)' \/ InHand(n, k)'
  BY <1>1, <1>4, <1>5 DEF Ahead, StageOf
<1>6. StaleIsOwed(n)'
  <2> SUFFICES ASSUME NEW k \in AppRows, redis[k] \notin {None, db[k]}
               PROVE  \E t \in Txns : Refreshes(t, k)' /\ Outstanding(t)'
                                      /\ (Ahead(n, t)' \/ InHand(n, k)')
    BY <1>1 DEF StaleIsOwed, AppRows
  <2>1. PICK t \in Txns : Refreshes(t, k) /\ Outstanding(t) /\ Ahead(n, t)
    BY DEF Owes, StaleIsOwed, InHand
  <2>2. QED
    BY <1>2, <1>3, <1>5, <2>1
<1>7. ReadIsOwed(n)'
  BY <1>1 DEF ReadIsOwed, Load
<1>8. Refresh(n)'
  BY DEF Owes, Refresh
<1>9. QED
  BY <1>6, <1>7, <1>8 DEF Owes

LEMMA ReadMetaOfPublishOwes ==
    ASSUME TypeOK, NEW n \in Nodes, Owes(n), ReadMetaOfPublish(n)
    PROVE  Owes(n)'
<1>1. stage[n] = 1 /\ pc[n] = "consume"
  BY InStageSays DEF ReadMetaOfPublish, Owes
<1>2. loaded[n] = {}
  BY <1>1 DEF ReadMetaOfPublish, Owes, Refresh
<1>3. PICK apps \in SUBSET Live(AppKeys) : loaded' = [loaded EXCEPT ![n] = Load(apps)]
  BY DEF ReadMetaOfPublish
<1>4. loaded'[n] = Load(apps) /\ todo'[n] = {}
  BY <1>3 DEF ReadMetaOfPublish, TypeOK, LoopTypeOK
<1>5. UNCHANGED <<logVars, redis, handled, batch, stage, pc>>
  BY DEF ReadMetaOfPublish, consumeFrame, historyVars
<1>6. \A t, k : Refreshes(t, k) => stage[n] # StageOf(t)
  BY <1>1, StageOfType DEF Refreshes
<1>7. stage[n] # Finished
  BY <1>1, FinishedIsEight
<1>8. QED
  BY <1>1, <1>2, <1>4, <1>5, <1>6, <1>7, ReadOwes

\* The query for the apps of a stage finds every row that is still there, and a row that is
\* not is left to the deletion, whose stage comes later.
LEMMA ReadAppMetaOwes ==
    ASSUME TypeOK, NEW n \in Nodes, Owes(n), ReadAppMeta(n)
    PROVE  Owes(n)'
<1> DEFINE keys == Live(KeysOf(todo[n]))
<1>1. stage[n] \in {3, 4} /\ pc[n] = "consume"
  BY InStageSays DEF ReadAppMeta, Owes
<1>2. loaded[n] = {}
  BY <1>1 DEF ReadAppMeta, Owes, Refresh
<1>3. loaded'[n] = Load(keys) /\ todo'[n] = {}
  BY DEF ReadAppMeta, TypeOK, LoopTypeOK
<1>4. UNCHANGED <<logVars, redis, handled, batch, stage, pc>>
  BY DEF ReadAppMeta, consumeFrame, historyVars
<1>5. ASSUME NEW t \in Txns, NEW k \in AppRows, Refreshes(t, k), stage[n] = StageOf(t),
             eventID[t] \in todo[n]
      PROVE  k \in keys
  <2>1. k \in KeysOf(todo[n]) /\ k \in Keys
    BY <1>5 DEF KeysOf, Refreshes, AppRows
  <2>2. KindOf[t] \notin {"publish", "deleteApp"}
    BY <1>1, <1>5 DEF StageOf
  <2>3. db[k] # 0 /\ db[k] \in Nat
    BY <1>5, <2>1, <2>2 DEF Refreshes, TypeOK, LogTypeOK
  <2>4. QED
    BY <2>1, <2>3 DEF Live
<1>6. stage[n] # Finished /\ stage[n] # 2
  BY <1>1, FinishedIsEight
<1> HIDE DEF keys
<1>7. QED
  BY <1>1, <1>2, <1>3, <1>4, <1>5, <1>6, ReadOwes

LEMMA ReadCredentialOwes ==
    ASSUME TypeOK, NEW n \in Nodes, Owes(n), ReadCredential(n)
    PROVE  Owes(n)'
<1>1. stage[n] = 5 /\ pc[n] = "consume" /\ loaded[n] = {}
  BY InStageSays DEF ReadCredential, Owes
<1>2. PICK i \in todo[n] : loaded' = [loaded EXCEPT ![n] = Load(Live(KeysOf({i})))]
  BY DEF ReadCredential
<1>3. loaded'[n] = Load(Live(KeysOf({i})))
  BY <1>2 DEF TypeOK, LoopTypeOK
<1>4. todo'[n] \subseteq todo[n]
  BY DEF ReadCredential, TypeOK, LoopTypeOK
<1>5. UNCHANGED <<logVars, redis, handled, batch, stage, pc>>
  BY DEF ReadCredential, consumeFrame, historyVars
<1>6. \A t, k : Refreshes(t, k) => stage[n] # StageOf(t)
  BY <1>1, StageOfType DEF Refreshes
<1>7. stage[n] # Finished
  BY <1>1, FinishedIsEight
<1>8. QED
  BY <1>1, <1>3, <1>4, <1>5, <1>6, <1>7, ReadOwes

\* One goroutine reads the released groups of its row: the value is current, the events about
\* other rows stay, and the values that wait are of other rows.
LEMMA ReadReleasedGroupsOwes ==
    ASSUME TypeOK, EndInv, NEW n \in Nodes, Owes(n), ReadReleasedGroups(n)
    PROVE  Owes(n)'
<1> USE DEF TypeOK, LoopTypeOK
<1>1. stage[n] = 2 /\ pc[n] = "consume"
  BY InStageSays DEF ReadReleasedGroups, Owes
<1>2. PICK g \in KeysOf(todo[n]) :
        /\ loaded' = [loaded EXCEPT ![n] = @ \cup Load({g})]
        /\ todo' = [todo EXCEPT ![n] = {i \in @ : g \notin KeysOf({i})}]
  BY DEF ReadReleasedGroups
<1>3. loaded'[n] = loaded[n] \cup Load({g}) /\ todo'[n] = {i \in todo[n] : g \notin KeysOf({i})}
  BY <1>2
<1>4. UNCHANGED <<logVars, redis, handled, batch, stage, pc>>
  BY DEF ReadReleasedGroups, consumeFrame, historyVars
<1>5. UNCHANGED <<txn, eventID, aged, db>>
  BY <1>4 DEF logVars
<1>6. \A t, k : Refreshes(t, k)' = Refreshes(t, k)
  BY <1>5 DEF Refreshes, Refreshing
<1>7. \A t : Outstanding(t)' = Outstanding(t)
  BY <1>4, <1>5 DEF Outstanding
<1>8. InHand(n, g)' /\ \A k : InHand(n, k) => InHand(n, k)'
  <2>1. [key |-> g, version |-> db[g]] \in loaded'[n]
    BY <1>3 DEF Load
  <2>2. QED
    BY <1>3, <2>1 DEF InHand
<1>9. ASSUME NEW t \in Txns, KeyOf[t] # g, Ahead(n, t) PROVE Ahead(n, t)'
  <2>1. CASE eventID[t] \in todo[n]
    <3>1. eventID[t] # 0
      BY <2>1 DEF Owes, Refresh, Ids
    <3>2. KeysOf({eventID[t]}) = {KeyOf[t]}
      BY <3>1, KeysOfOne
    <3>3. eventID[t] \in todo'[n]
      BY <1>3, <1>9, <2>1, <3>2
    <3>4. QED
      BY <1>4, <1>5, <1>9, <3>3 DEF Ahead, StageOf
  <2>2. CASE eventID[t] \notin todo[n]
    BY <1>4, <1>5, <1>9, <2>2 DEF Ahead, StageOf
  <2>3. QED
    BY <2>1, <2>2
<1>10. StaleIsOwed(n)'
  <2> SUFFICES ASSUME NEW k \in AppRows, redis[k] \notin {None, db[k]}
               PROVE  \E t \in Txns : Refreshes(t, k)' /\ Outstanding(t)'
                                      /\ (Ahead(n, t)' \/ InHand(n, k)')
    BY <1>4, <1>5 DEF StaleIsOwed, AppRows
  <2>1. PICK t \in Txns : Refreshes(t, k) /\ Outstanding(t) /\ (Ahead(n, t) \/ InHand(n, k))
    BY DEF Owes, StaleIsOwed
  <2>2. Ahead(n, t)' \/ InHand(n, k)'
    BY <1>8, <1>9, <2>1 DEF Refreshes
  <2>3. QED
    BY <1>6, <1>7, <2>1, <2>2
<1>11. ReadIsOwed(n)'
  <2> SUFFICES ASSUME NEW v \in loaded'[n], v.key \in AppRows, v.version # db[v.key]
               PROVE  \E t \in Txns : Refreshes(t, v.key)' /\ Outstanding(t)' /\ Ahead(n, t)'
    BY <1>5 DEF ReadIsOwed
  <2>1. v \in loaded[n]
    BY <1>3 DEF Load
  <2>2. PICK t \in Txns : Refreshes(t, v.key) /\ Outstanding(t) /\ Ahead(n, t)
    BY <2>1 DEF Owes, ReadIsOwed
  <2>3. v.key # g
    BY <1>1, <1>2, <2>1 DEF Owes, Refresh
  <2>4. Ahead(n, t)'
    BY <1>9, <2>2, <2>3 DEF Refreshes
  <2>5. QED
    BY <1>6, <1>7, <2>2, <2>4
<1>12. ASSUME NEW v \in loaded'[n] PROVE v.key \notin KeysOf(todo[n])'
  <2>1. KeysOf(todo[n])' = KeysOf(todo'[n])
    BY <1>5 DEF KeysOf
  <2>2. g \notin KeysOf(todo'[n]) /\ KeysOf(todo'[n]) \subseteq KeysOf(todo[n])
    BY <1>3 DEF KeysOf
  <2>3. v \in loaded[n] \/ v.key = g
    BY <1>3 DEF Load
  <2>4. QED
    BY <1>1, <2>1, <2>2, <2>3 DEF Owes, Refresh
<1>13. Refresh(n)'
  <2>1. todo'[n] \subseteq batch'[n]
    BY <1>3, <1>4 DEF Owes, Refresh
  <2>2. stage'[n] = 2 /\ pc'[n] = "consume" /\ stage'[n] # Finished
    BY <1>1, <1>4, FinishedIsEight
  <2>3. QED
    BY <1>12, <2>1, <2>2 DEF Refresh
<1>14. QED
  BY <1>10, <1>11, <1>13 DEF Owes

\* A value that is written is current, or its row is read once more.
LEMMA WriteRedisOwes ==
    ASSUME TypeOK, NEW n \in Nodes, Owes(n), WriteRedis(n)
    PROVE  Owes(n)'
<1> USE DEF TypeOK, LoopTypeOK
<1>1. PICK v \in loaded[n] : /\ redis' = [redis EXCEPT ![v.key] = v.version]
                             /\ loaded' = [loaded EXCEPT ![n] = @ \ {v}]
  BY DEF WriteRedis
<1>2. loaded'[n] = loaded[n] \ {v} /\ v.key \in Keys
  BY <1>1 DEF Value
<1>3. UNCHANGED <<txn, eventID, aged, db, handled, batch, stage, pc, todo>>
  BY DEF WriteRedis, consumeFrame, historyVars, logVars
<1>4. \A t, k : Refreshes(t, k)' = Refreshes(t, k)
  BY <1>3 DEF Refreshes, Refreshing
<1>5. \A t : Outstanding(t)' = Outstanding(t) /\ Ahead(n, t)' = Ahead(n, t)
  BY <1>3 DEF Outstanding, Ahead, StageOf
<1>6. StaleIsOwed(n)'
  <2> SUFFICES ASSUME NEW k \in AppRows, redis'[k] \notin {None, db[k]}
               PROVE  \E t \in Txns : Refreshes(t, k)' /\ Outstanding(t)'
                                      /\ (Ahead(n, t)' \/ InHand(n, k)')
    BY <1>3 DEF StaleIsOwed, AppRows
  <2>1. CASE k = v.key
    <3>1. v.version # db[v.key]
      BY <1>1, <1>2, <2>1
    <3>2. QED
      BY <1>4, <1>5, <2>1, <3>1 DEF Owes, ReadIsOwed
  <2>2. CASE k # v.key
    <3>1. redis'[k] = redis[k]
      BY <1>1, <2>2 DEF AppRows
    <3>2. InHand(n, k) => InHand(n, k)'
      BY <1>2, <2>2 DEF InHand
    <3>3. QED
      BY <1>4, <1>5, <3>1, <3>2 DEF Owes, StaleIsOwed
  <2>3. QED
    BY <2>1, <2>2
<1>7. ReadIsOwed(n)'
  BY <1>2, <1>3, <1>4, <1>5 DEF Owes, ReadIsOwed
<1>8. Refresh(n)'
  BY <1>2, <1>3 DEF Owes, Refresh, KeysOf
<1>9. QED
  BY <1>6, <1>7, <1>8 DEF Owes

LEMMA DeleteRedisOwes ==
    ASSUME TypeOK, NEW n \in Nodes, Owes(n), DeleteRedis(n)
    PROVE  Owes(n)'
<1> USE DEF TypeOK, LoopTypeOK
<1>1. stage[n] \in {6, 7} /\ pc[n] = "consume" /\ todo[n] # {}
  BY InStageSays DEF DeleteRedis, Owes
<1>2. loaded[n] = {}
  BY <1>1 DEF Owes, Refresh
<1>3. todo'[n] = {} /\ redis' = [k \in Keys |-> IF k \in KeysOf(todo[n]) THEN None ELSE redis[k]]
  BY DEF DeleteRedis
<1>4. UNCHANGED <<txn, eventID, aged, db, handled, batch, stage, pc, loaded>>
  BY DEF DeleteRedis, consumeFrame, historyVars, logVars
<1>5. \A t, k : Refreshes(t, k)' = Refreshes(t, k)
  BY <1>4 DEF Refreshes, Refreshing
<1>6. \A t : Outstanding(t)' = Outstanding(t)
  BY <1>4 DEF Outstanding
<1>7. StaleIsOwed(n)'
  <2> SUFFICES ASSUME NEW k \in AppRows, redis'[k] \notin {None, db[k]}
               PROVE  \E t \in Txns : Refreshes(t, k)' /\ Outstanding(t)'
                                      /\ (Ahead(n, t)' \/ InHand(n, k)')
    BY <1>4 DEF StaleIsOwed, AppRows
  <2>1. k \notin KeysOf(todo[n]) /\ redis'[k] = redis[k]
    BY <1>3 DEF AppRows
  <2>2. PICK t \in Txns : Refreshes(t, k) /\ Outstanding(t) /\ Ahead(n, t)
    BY <1>2, <2>1 DEF Owes, StaleIsOwed, InHand
  <2>3. eventID[t] \notin todo[n]
    BY <2>1, <2>2 DEF KeysOf, Refreshes
  <2>4. Ahead(n, t)'
    BY <1>4, <2>2, <2>3 DEF Ahead, StageOf
  <2>5. QED
    BY <1>5, <1>6, <2>2, <2>4
<1>8. ReadIsOwed(n)'
  BY <1>2, <1>4 DEF ReadIsOwed
<1>9. Refresh(n)'
  BY <1>1, <1>2, <1>3, <1>4, FinishedIsEight DEF Owes, Refresh
<1>10. QED
  BY <1>7, <1>8, <1>9 DEF Owes

LEMMA StageDoneOwes ==
    ASSUME TypeOK, NEW n \in Nodes, Owes(n), StageDone(n)
    PROVE  Owes(n)'
<1> USE DEF TypeOK, LoopTypeOK
<1> DEFINE s == NextStage(batch[n], stage[n])
<1>1. pc[n] = "consume" /\ stage[n] # Finished /\ todo[n] = {} /\ loaded[n] = {}
  BY DEF StageDone
<1>2. stage'[n] = s /\ todo'[n] = StageEvents(batch[n], s)
  BY DEF StageDone
<1>3. UNCHANGED <<txn, eventID, aged, db, redis, handled, batch, pc, loaded>>
  BY DEF StageDone, historyVars, logVars
<1>4. s \in 1..Finished
  BY NextStageType
<1>5. \A t, k : Refreshes(t, k)' = Refreshes(t, k)
  BY <1>3 DEF Refreshes, Refreshing
<1>6. \A t : Outstanding(t)' = Outstanding(t)
  BY <1>3 DEF Outstanding
<1>7. ASSUME NEW t \in Refreshing, Ahead(n, t) PROVE Ahead(n, t)'
  <2>1. StageOf(t)' = StageOf(t)
    BY DEF StageOf
  <2>2. CASE eventID[t] \in aged \/ eventID[t] \notin batch[n]
    BY <1>3, <2>2 DEF Ahead
  <2>3. CASE eventID[t] \in batch[n] /\ stage[n] < StageOf(t)
    <3>1. s < StageOf(t) \/ (s = StageOf(t) /\ eventID[t] \in StageEvents(batch[n], s))
      BY <2>3, NextStageAhead
    <3>2. QED
      BY <1>2, <1>3, <2>1, <3>1 DEF Ahead
  <2>4. QED
    BY <1>1, <1>7, <2>2, <2>3 DEF Ahead
<1>8. StaleIsOwed(n)'
  <2> SUFFICES ASSUME NEW k \in AppRows, redis[k] \notin {None, db[k]}
               PROVE  \E t \in Txns : Refreshes(t, k)' /\ Outstanding(t)'
                                      /\ (Ahead(n, t)' \/ InHand(n, k)')
    BY <1>3 DEF StaleIsOwed, AppRows
  <2>1. PICK t \in Txns : Refreshes(t, k) /\ Outstanding(t) /\ Ahead(n, t)
    BY <1>1 DEF Owes, StaleIsOwed, InHand
  <2>2. QED
    BY <1>5, <1>6, <1>7, <2>1 DEF Refreshes
<1>9. ReadIsOwed(n)'
  BY <1>1, <1>3 DEF ReadIsOwed
<1>10. Refresh(n)'
  <2>1. todo'[n] \subseteq batch'[n]
    BY <1>2, <1>3, StageEventsAreEvents
  <2>2. s = Finished => todo'[n] = {}
    BY <1>2 DEF StageEvents
  <2>3. stage'[n] > 0 /\ loaded'[n] = {} /\ pc'[n] = "consume"
    BY <1>1, <1>2, <1>3, <1>4, FinishedIsEight
  <2>4. QED
    BY <1>2, <2>1, <2>2, <2>3 DEF Refresh
<1>11. QED
  BY <1>8, <1>9, <1>10 DEF Owes

\* Every event of the new batch is ahead of its refresh.
LEMMA ListBatchOwes ==
    ASSUME TypeOK, NEW n \in Nodes, Owes(n), ListBatch(n)
    PROVE  Owes(n)'
<1> USE DEF TypeOK, LoopTypeOK
<1> DEFINE events == FilterOut(Listed(start[n]))
           s == NextStage(events, 0)
<1>1. pc[n] = "list" /\ loaded[n] = {}
  BY DEF ListBatch, Owes, Refresh
<1>2. stage' = [stage EXCEPT ![n] = s] /\ todo' = [todo EXCEPT ![n] = StageEvents(events, s)]
      /\ batch' = [batch EXCEPT ![n] = events] /\ pc' = [pc EXCEPT ![n] = "consume"]
  BY DEF ListBatch
<1>3. UNCHANGED <<txn, eventID, aged, db, redis, handled, loaded>>
  BY DEF ListBatch, historyVars, logVars
<1> HIDE DEF events
<1>4. s \in 1..Finished
  BY NextStageType, FinishedIsEight
<1>5. stage'[n] = s /\ todo'[n] = StageEvents(events, s) /\ batch'[n] = events
      /\ pc'[n] = "consume"
  BY <1>2
<1>6. \A t, k : Refreshes(t, k)' = Refreshes(t, k)
  BY <1>3 DEF Refreshes, Refreshing
<1>7. \A t : Outstanding(t)' = Outstanding(t)
  BY <1>3 DEF Outstanding
<1>8. ASSUME NEW t \in Refreshing PROVE Ahead(n, t)'
  <2>1. StageOf(t)' = StageOf(t) /\ 0 < StageOf(t)
    BY StageOfType DEF StageOf
  <2>2. CASE eventID[t] \in events
    <3>1. s < StageOf(t) \/ (s = StageOf(t) /\ eventID[t] \in StageEvents(events, s))
      BY <2>1, <2>2, NextStageAhead, FinishedIsEight
    <3>2. QED
      BY <1>3, <1>5, <2>1, <3>1 DEF Ahead
  <2>3. CASE eventID[t] \notin events
    BY <1>3, <1>5, <2>3 DEF Ahead
  <2>4. QED
    BY <2>2, <2>3
<1>9. StaleIsOwed(n)'
  <2> SUFFICES ASSUME NEW k \in AppRows, redis[k] \notin {None, db[k]}
               PROVE  \E t \in Txns : Refreshes(t, k)' /\ Outstanding(t)'
                                      /\ (Ahead(n, t)' \/ InHand(n, k)')
    BY <1>3 DEF StaleIsOwed, AppRows
  <2>1. PICK t \in Txns : Refreshes(t, k) /\ Outstanding(t)
    BY DEF Owes, StaleIsOwed
  <2>2. QED
    BY <1>6, <1>7, <1>8, <2>1 DEF Refreshes
<1>10. ReadIsOwed(n)'
  BY <1>1, <1>3 DEF ReadIsOwed
<1>11. Refresh(n)'
  <2>1. todo'[n] \subseteq batch'[n]
    BY <1>5, StageEventsAreEvents
  <2>2. s = Finished => todo'[n] = {}
    BY <1>5 DEF StageEvents
  <2>3. stage'[n] > 0 /\ loaded'[n] = {} /\ pc'[n] = "consume"
    BY <1>1, <1>3, <1>4, <1>5, FinishedIsEight
  <2>4. QED
    BY <1>5, <2>1, <2>2, <2>3 DEF Refresh
<1>12. QED
  BY <1>9, <1>10, <1>11 DEF Owes

\* A batch ends when all its stages have: an event that still owes its row has aged before its
\* commit or is of another batch, and neither the history nor an empty batch settles it.
LEMMA ConsumedOwes ==
    ASSUME TypeOK, NEW n \in Nodes, Owes(n), Consumed(n)
    PROVE  Owes(n)'
<1> USE DEF TypeOK, LoopTypeOK
<1>1. stage[n] = Finished /\ loaded[n] = {} /\ todo[n] = {}
  BY DEF Consumed, Owes, Refresh
<1>2. /\ pc'[n] = "list" /\ batch'[n] = {} /\ stage'[n] = 0
      /\ handled' = handled \cup batch[n]
  BY DEF Consumed
<1>3. UNCHANGED <<txn, eventID, aged, db, redis, loaded, todo>>
  BY DEF Consumed, logVars
<1>4. \A t, k : Refreshes(t, k)' = Refreshes(t, k)
  BY <1>3 DEF Refreshes, Refreshing
<1>5. ASSUME NEW t \in Refreshing, Outstanding(t), Ahead(n, t)
      PROVE  Outstanding(t)' /\ Ahead(n, t)'
  <2>1. eventID[t] \in aged \/ eventID[t] \notin batch[n]
    BY <1>1, <1>5, StageOfType, FinishedIsEight DEF Ahead
  <2>2. QED
    BY <1>2, <1>3, <1>5, <2>1 DEF Outstanding, Ahead
<1>6. StaleIsOwed(n)'
  <2> SUFFICES ASSUME NEW k \in AppRows, redis[k] \notin {None, db[k]}
               PROVE  \E t \in Txns : Refreshes(t, k)' /\ Outstanding(t)'
                                      /\ (Ahead(n, t)' \/ InHand(n, k)')
    BY <1>3 DEF StaleIsOwed, AppRows
  <2>1. PICK t \in Txns : Refreshes(t, k) /\ Outstanding(t) /\ Ahead(n, t)
    BY <1>1 DEF Owes, StaleIsOwed, InHand
  <2>2. QED
    BY <1>4, <1>5, <2>1 DEF Refreshes
<1>7. ReadIsOwed(n)'
  BY <1>1, <1>3 DEF ReadIsOwed
<1>8. Refresh(n)'
  BY <1>1, <1>2, <1>3, FinishedIsEight DEF Refresh
<1>9. QED
  BY <1>6, <1>7, <1>8 DEF Owes

\* A batch that is given up leaves all its events to be handled again, those whose rows were
\* read and not written too.
LEMMA AbandonOwes ==
    ASSUME TypeOK, NEW n \in Nodes, Owes(n), Abandon(n), pc'[n] # "consume",
           UNCHANGED <<logVars, redis, handled>>
    PROVE  Owes(n)'
<1> USE DEF TypeOK, LoopTypeOK
<1>1. batch'[n] = {} /\ stage'[n] = 0 /\ loaded'[n] = {} /\ todo'[n] = {}
  BY DEF Abandon
<1>2. UNCHANGED <<txn, eventID, aged, db, redis, handled>>
  BY DEF logVars
<1>3. \A t, k : Refreshes(t, k)' = Refreshes(t, k)
  BY <1>2 DEF Refreshes, Refreshing
<1>4. \A t : Outstanding(t)' = Outstanding(t) /\ Ahead(n, t)'
  BY <1>1, <1>2 DEF Outstanding, Ahead
<1>5. StaleIsOwed(n)'
  BY <1>2, <1>3, <1>4 DEF Owes, StaleIsOwed, AppRows
<1>6. ReadIsOwed(n)' /\ Refresh(n)'
  BY <1>1, FinishedIsEight DEF ReadIsOwed, Refresh
<1>7. QED
  BY <1>5, <1>6 DEF Owes

LEMMA ProgressOwes ==
    ASSUME TypeOK, EndInv, NEW n \in Nodes, Owes(n), Progress(n)
    PROVE  Owes(n)'
<1> USE DEF TypeOK, LoopTypeOK
<1>1. ASSUME UNCHANGED <<logVars, redis, handled, batch, stage, todo, loaded>>,
             pc'[n] = "consume" <=> pc[n] = "consume"
      PROVE  Owes(n)'
  <2>1. UNCHANGED <<txn, eventID, aged, db>>
    BY <1>1 DEF logVars
  <2>2. KeysOf(todo[n])' = KeysOf(todo[n])
    BY <1>1, <2>1 DEF KeysOf
  <2>3. QED
    BY <1>1, <2>1, <2>2, FrameOwes
<1>2. CASE ReWatch(n)
  BY <1>1, <1>2 DEF ReWatch, batchVars, historyVars
<1>3. CASE Loop(n)
  BY <1>1, <1>3 DEF Loop, historyVars
<1>4. CASE AtEnd(n)
  BY <1>1, <1>4 DEF AtEnd, batchVars, historyVars
<1>5. CASE RecordCursor(n)
  BY <1>1, <1>5 DEF RecordCursor, batchVars, historyVars
<1>6. QED
  BY <1>2, <1>3, <1>4, <1>5, ListBatchOwes, ReadMetaOfPublishOwes, ReadReleasedGroupsOwes,
     ReadAppMetaOwes, ReadCredentialOwes, WriteRedisOwes, DeleteRedisOwes, StageDoneOwes,
     ConsumedOwes
     DEF Progress

LEMMA StepOwes ==
    ASSUME \A m, n \in Nodes : m = n, Fillers = {}
    PROVE  TypeOK /\ EndInv /\ (\A n \in Nodes : Owes(n)) /\ [Next]_vars
             => (\A n \in Nodes : Owes(n))'
<1> SUFFICES ASSUME TypeOK, EndInv, \A n \in Nodes : Owes(n), [Next]_vars, NEW n \in Nodes
             PROVE  Owes(n)'
  OBVIOUS
<1>1. CASE LogNext /\ UNCHANGED loopVars
  BY <1>1, LogStepOwes
<1>2. ASSUME NEW m \in Nodes, Progress(m) PROVE Owes(n)'
  BY <1>2, ProgressOwes
<1>3. ASSUME NEW m \in Nodes, StepFails(m) PROVE Owes(n)'
  <2>1. Abandon(n) /\ pc'[n] # "consume" /\ UNCHANGED <<logVars, redis, handled>>
    BY <1>3 DEF StepFails, historyVars, TypeOK, LoopTypeOK
  <2>2. QED
    BY <2>1, AbandonOwes
<1>4. ASSUME NEW m \in Nodes, Restart(m) PROVE Owes(n)'
  <2>1. Abandon(n) /\ pc'[n] # "consume" /\ UNCHANGED <<logVars, redis, handled>>
    BY <1>4 DEF Restart, historyVars, TypeOK, LoopTypeOK
  <2>2. QED
    BY <2>1, AbandonOwes
<1>5. ASSUME UNCHANGED <<txn, eventID, aged, db, nodeVars, handled>>,
             \A k \in Keys : redis'[k] \in {redis[k], None}
      PROVE  Owes(n)'
  <2>1. UNCHANGED <<pc, batch, stage, todo, loaded>> /\ KeysOf(todo[n])' = KeysOf(todo[n])
    BY <1>5 DEF nodeVars, KeysOf
  <2>2. QED
    BY <1>5, <2>1, FrameOwes
<1>6. ASSUME NEW m \in Nodes, BecomeMaster(m) \/ LoseMaster(m) \/ Purge(m) PROVE Owes(n)'
  BY <1>5, <1>6 DEF BecomeMaster, LoseMaster, Purge, environmentFrame, historyVars, logVars, loopVars
<1>7. ASSUME NEW i \in Ids, GrowOld(i) PROVE Owes(n)'
  BY <1>5, <1>7 DEF GrowOld, environmentFrame, historyVars, logVars
<1>8. ASSUME NEW k \in Keys, Expire(k) PROVE Owes(n)'
  <2>1. UNCHANGED <<txn, eventID, aged, db, nodeVars, handled>>
    BY <1>8 DEF Expire, environmentFrame, historyVars, logVars
  <2>2. \A j \in Keys : redis'[j] \in {redis[j], None}
    BY <1>8 DEF Expire, TypeOK, LoopTypeOK
  <2>3. QED
    BY <1>5, <2>1, <2>2
<1>9. CASE UNCHANGED vars
  BY <1>5, <1>9 DEF vars, logVars, loopVars
<1>10. QED
  BY <1>1, <1>2, <1>3, <1>4, <1>6, <1>7, <1>8, <1>9 DEF Next

\* One instance without fills, whatever fails or crashes and however a batch is reordered by
\* operation: when no refresh is under way, a row all of whose changes were handled after
\* their commits is in Redis as the database holds it, or not at all (consume() and the
\* refreshes of apps and of released groups).
THEOREM OneInstanceRefreshes ==
    ASSUME \E n : Nodes = {n}, Fillers = {}
    PROVE  Spec => []FreshOnceCaughtUp
<1>1. TypeOK /\ (\A n \in Nodes : Owes(n)) => FreshOnceCaughtUp
  BY DEF Owes, StaleIsOwed, InHand, Outstanding, Refreshes, FreshOnceCaughtUp, Fresh, Quiet,
         CaughtUp, AppRows
<1>2. Init => \A n \in Nodes : Owes(n)
  BY InitOwes
<1>3. TypeOK /\ EndInv /\ (\A n \in Nodes : Owes(n)) /\ [Next]_vars
        => (\A n \in Nodes : Owes(n))'
  BY StepOwes
<1>4. QED
  BY <1>1, <1>2, <1>3, InitEndInv, StepEndInv, TypeCorrect, PTL DEF Spec

=============================================================================
