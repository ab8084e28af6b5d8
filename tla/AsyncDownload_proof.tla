------------------------ MODULE AsyncDownload_proof -------------------------
(***************************************************************************)
(* Theorems about AsyncDownload, for every set of targets, requests and    *)
(* servers and every bound.                                                *)
(***************************************************************************)
EXTENDS AsyncDownload, TLAPS

-----------------------------------------------------------------------------
(* Types. *)

\* A request under way knows its target, and the batch it writes to.
Writing == {"join", "add", "point"}
Asking ==
  \A r \in Requests : /\ request[r].pc # "idle" => request[r].t \in Targets
                      /\ request[r].pc \in Writing => request[r].b \in Batches

\* A server at work knows its batch.
Working == \A s \in Servers : server[s].pc # "idle" => server[s].b \in Batches

Typed == TypeOK /\ Asking /\ Working

LEMMA Constants ==
  /\ MaxTargetsPerBatch \in Nat \ {0} /\ MaxBatches \in Nat /\ MaxCalls \in Nat
  /\ MaxTransfers \in Nat /\ MaxFaults \in Nat
BY SizesAssumption, BoundsAssumption

LEMMA RowTypes ==
  ASSUME NEW n \in 0..MaxTargetsPerBatch,
         NEW st \in {"none", "Dispatching"} \cup TerminalStates
  PROVE  Closed(st, n) \in Metas /\ Collecting(n) \in Metas
BY DEF Closed, Collecting, Metas

LEMMA WorkTypes ==
  ASSUME NEW pc \in {"idle", "finalize"} \cup DispatchStages \cup RefreshStages,
         NEW b \in {0} \cup Batches, NEW n \in 0..MaxTargetsPerBatch
  PROVE  Work(pc, b, n) \in Works
BY DEF Work, Works, NoneSeen, Results

LEMMA DeriveType == ASSUME NEW sts PROVE Derive(sts) \in TerminalStates
BY DEF Derive, TerminalStates

LEMMA IdleTypes == Idle \in Works /\ IdleCall \in Calls
<1>1. Idle \in Works
  BY Constants, WorkTypes DEF Idle
<1>2. QED
  BY <1>1, Constants DEF IdleCall, Calls, RequestStages

LEMMA InitTyped == Init => Typed
<1> SUFFICES ASSUME Init PROVE Typed
  OBVIOUS
<1>1. Closed("none", 0) \in Metas
  BY Constants, RowTypes
<1>2. Asking /\ Working
  BY DEF Init, IdleCall, Asking, Writing, Idle, Work, Working
<1>3. batch \in [Batches -> Metas] /\ request \in [Requests -> Calls] /\ server \in [Servers -> Works]
  BY <1>1, IdleTypes DEF Init
<1>4. /\ task \in [Batches -> [Targets -> TaskStates]]
      /\ listed \in [Batches -> SUBSET Targets]
      /\ mapping \in [Batches -> [Targets -> {0} \cup Transfers]]
      /\ inflight \in [Targets -> {0} \cup Batches]
      /\ transfer \in [Transfers -> [b : {0} \cup Batches, result : [Targets -> Results]]]
  BY DEF Init, TaskStates, NoMap, NoneSeen, Results
<1>5. QED
  BY <1>2, <1>3, <1>4, Constants DEF Init, Typed, TypeOK

\* The call of r goes on with batch b.
LEMMA ChoiceTyped ==
  ASSUME Typed, NEW r \in Requests, request[r].pc # "idle", NEW pc \in RequestStages,
         NEW b \in Batches, NEW n \in 0..MaxTargetsPerBatch,
         request' = [request EXCEPT ![r].pc = pc, ![r].b = b, ![r].count = n]
  PROVE  request' \in [Requests -> Calls] /\ Asking'
<1>1. request \in [Requests -> Calls] /\ request[r].t \in Targets
  BY DEF Typed, TypeOK, Asking
<1>2. /\ request' = [request EXCEPT ![r] = request'[r]]
      /\ request'[r].b = b /\ request'[r].t = request[r].t
  BY <1>1 DEF Calls
<1>3. request'[r] \in Calls
  BY <1>1 DEF Calls
<1>4. QED
  BY <1>1, <1>2, <1>3 DEF Typed, Asking

\* The call of r becomes c.
LEMMA CallTyped ==
  ASSUME Typed, NEW r \in Requests, NEW c \in Calls, request' = [request EXCEPT ![r] = c],
         c.pc # "idle" => c.t \in Targets,
         c.pc \in Writing => c.b \in Batches
  PROVE  request' \in [Requests -> Calls] /\ Asking'
BY DEF Typed, TypeOK, Asking

\* It moves on.
LEMMA GotoTyped ==
  ASSUME Typed, NEW r \in Requests, request[r].pc # "idle",
         NEW pc \in RequestStages \ {"idle"}, Goto(r, pc),
         pc \in Writing => request[r].b \in Batches
  PROVE  request' \in [Requests -> Calls] /\ Asking'
<1> DEFINE c == [request[r] EXCEPT !.pc = pc]
<1>1. request[r] \in Calls /\ request[r].t \in Targets /\ request \in [Requests -> Calls]
  BY DEF Typed, TypeOK, Asking
<1>2. c = [pc |-> pc, t |-> request[r].t, b |-> request[r].b, count |-> request[r].count]
  BY <1>1 DEF Calls
<1>3. c \in Calls /\ c.t \in Targets /\ c.pc = pc /\ c.b = request[r].b
  BY <1>1, <1>2 DEF Calls
<1>4. request' = [request EXCEPT ![r] = c]
  BY <1>1 DEF Goto
<1> HIDE DEF c
<1>5. QED
  BY <1>3, <1>4, CallTyped

LEMMA ReturnTyped ==
  ASSUME Typed, NEW r \in Requests, request' = [request EXCEPT ![r] = IdleCall]
  PROVE  request' \in [Requests -> Calls] /\ Asking'
<1>1. IdleCall \in Calls /\ IdleCall.pc = "idle" /\ "idle" \notin Writing
  BY IdleTypes DEF IdleCall, Writing
<1>2. QED
  BY <1>1, CallTyped

LEMMA RequestTyped ==
  ASSUME Typed, NEW r \in Requests,
         (\E t \in Targets : Probe(r, t)) \/ RequestStep(r) \/ RequestFails(r)
  PROVE  Typed'
<1>1. /\ TypeOK /\ request[r] \in Calls
      /\ request[r].pc # "idle" => request[r].t \in Targets
  BY DEF Typed, TypeOK, Asking
<1>13. Working'
  BY DEF Probe, RequestStep, ClearFinal, Lock, Choose, SaveJoin, CreateBatch, AddTask, Point,
         RequestFails, storeFrame, Typed, Working
<1> USE Constants, <1>13
<1>2. ASSUME NEW t \in Targets, Probe(r, t) PROVE Typed'
  <2>1. calls' \in 0..MaxCalls /\ faults' \in 0..MaxFaults
    <3>1. calls < MaxCalls /\ calls' = calls + 1
      BY <1>2 DEF Probe
    <3>2. faults' = faults \/ (faults < MaxFaults /\ faults' = faults + 1)
      BY <1>2 DEF Probe, NothingToReuse
    <3>3. QED
      BY <1>1, <3>1, <3>2 DEF TypeOK
  <2>2. PICK pc \in {"clear", "lock"} :
          request' = [request EXCEPT ![r] = [IdleCall EXCEPT !.pc = pc, !.t = t]]
    BY <1>2 DEF Probe
  <2> DEFINE c == [IdleCall EXCEPT !.pc = pc, !.t = t]
  <2>3. c \in Calls /\ c.t = t /\ c.pc = pc
    <3>1. IdleCall \in Calls /\ pc \in RequestStages
      BY IdleTypes DEF RequestStages
    <3>2. c \in Calls
      BY <3>1 DEF Calls
    <3>3. c.t = t /\ c.pc = pc
      BY <3>1 DEF Calls
    <3>4. QED
      BY <3>2, <3>3
  <2>4. request' \in [Requests -> Calls] /\ Asking'
    <3> HIDE DEF c
    <3>1. c.pc \notin Writing
      BY <2>3 DEF Writing
    <3>2. QED
      BY <2>2, <2>3, <3>1, CallTyped DEF c
  <2>5. QED
    BY <1>1, <1>2, <2>1, <2>4 DEF Probe, Typed, TypeOK
<1>3. CASE ClearFinal(r)
  <2>1. request[r].t \in Targets /\ \E pc \in {"lock", "choose"} : Goto(r, pc)
    BY <1>1, <1>3 DEF ClearFinal
  <2>2. request' \in [Requests -> Calls] /\ Asking'
    BY <1>3, <2>1, GotoTyped DEF ClearFinal, RequestStages, Writing
  <2>3. QED
    BY <1>1, <1>3, <2>1, <2>2 DEF ClearFinal, storeFrame, Pinned, Typed, TypeOK
<1>4. CASE Lock(r)
  <2>1. request[r].t \in Targets
    BY <1>1, <1>4 DEF Lock
  <2>2. request' \in [Requests -> Calls] /\ Asking'
    BY <1>4, GotoTyped, ReturnTyped DEF Lock, Return, RequestStages, Writing
  <2>3. faults' \in 0..MaxFaults
    BY <1>1, <1>4 DEF Lock, NothingToReuse, TypeOK
  <2>4. createLock' \in Requests \cup {NoOne}
    BY <1>4 DEF Lock, Return
  <2>5. unpinned' \subseteq Targets
    BY <1>1, <1>4, <2>1 DEF Lock, Pinned, TypeOK
  <2>6. QED
    BY <1>1, <1>4, <2>2, <2>3, <2>4, <2>5 DEF Lock, Typed, TypeOK
<1>5. CASE Choose(r)
  <2>1. request' \in [Requests -> Calls] /\ Asking'
    <3>1. CASE Return(r) \/ Goto(r, "create")
      BY <1>5, <3>1, GotoTyped, ReturnTyped DEF Choose, Return, RequestStages, Writing
    <3>2. CASE /\ openBatch # 0 /\ batch[openBatch].count < MaxTargetsPerBatch
               /\ request' = [request EXCEPT ![r].pc = "join", ![r].b = openBatch,
                                             ![r].count = batch[openBatch].count + 1]
      <4>1. batch[openBatch].count + 1 \in 0..MaxTargetsPerBatch /\ openBatch \in Batches
        BY <1>1, <3>2 DEF TypeOK, Metas
      <4>2. QED
        BY <1>5, <3>2, <4>1, ChoiceTyped DEF Choose, RequestStages
    <3>3. QED
      BY <1>5, <3>1, <3>2 DEF Choose, Joinable
  <2>2. openBatch' \in {0} \cup Batches /\ createLock' \in Requests \cup {NoOne}
    BY <1>1, <1>5 DEF Choose, Return, TypeOK
  <2>3. QED
    BY <1>1, <1>5, <2>1, <2>2 DEF Choose, storeFrame, Typed, TypeOK
<1>6. CASE SaveJoin(r)
  <2>1. /\ Goto(r, "add") /\ request[r].pc = "join" /\ request[r].count \in 0..MaxTargetsPerBatch
        /\ request[r].b \in Batches
    BY <1>1, <1>6 DEF SaveJoin, Calls, Typed, Asking, Writing
  <2>2. request' \in [Requests -> Calls] /\ Asking'
    BY <2>1, GotoTyped DEF RequestStages
  <2>3. batch' \in [Batches -> Metas]
    <3>1. Collecting(request[r].count) \in Metas
      BY <2>1, RowTypes
    <3>2. QED
      BY <1>1, <1>6, <3>1 DEF SaveJoin, TypeOK
  <2>4. disturbed' \subseteq Batches
    BY <1>1, <1>6, <2>1 DEF SaveJoin, Intrudes, TypeOK
  <2>5. QED
    BY <1>1, <1>6, <2>2, <2>3, <2>4 DEF SaveJoin, storeFrame, Typed, TypeOK
<1>7. CASE CreateBatch(r)
  <2>1. PICK b \in Batches :
          /\ batch' = [batch EXCEPT ![b] = Collecting(1)]
          /\ request' = [request EXCEPT ![r].pc = "add", ![r].b = b, ![r].count = 0]
    BY <1>7 DEF CreateBatch
  <2>2. batch' \in [Batches -> Metas]
    <3>1. Collecting(1) \in Metas
      BY RowTypes
    <3>2. QED
      BY <1>1, <2>1, <3>1 DEF TypeOK
  <2>3. request' \in [Requests -> Calls] /\ Asking'
    <3>1. request[r].pc # "idle" /\ "add" \in RequestStages /\ 0 \in 0..MaxTargetsPerBatch
      BY <1>7 DEF CreateBatch, RequestStages
    <3>2. QED
      BY <2>1, <3>1, ChoiceTyped
  <2>4. QED
    BY <1>1, <1>7, <2>2, <2>3 DEF CreateBatch, storeFrame, Typed, TypeOK
<1>8. ASSUME request[r].pc \in Writing
      PROVE  /\ request[r].b \in Batches /\ request[r].t \in Targets
             /\ [task EXCEPT ![request[r].b][request[r].t] = "Pending"]
                  \in [Batches -> [Targets -> TaskStates]]
             /\ [listed EXCEPT ![request[r].b] = @ \cup {request[r].t}]
                  \in [Batches -> SUBSET Targets]
             /\ disturbed \cup Intrudes(request[r].b) \subseteq Batches
  <2>1. request[r].b \in Batches /\ request[r].t \in Targets
    BY <1>8 DEF Typed, Asking, Writing
  <2>2. "Pending" \in TaskStates
    BY DEF TaskStates, OpenStates
  <2>3. QED
    BY <1>1, <2>1, <2>2 DEF TypeOK, Intrudes
<1>9. CASE AddTask(r)
  <2>1. request[r].pc \in Writing /\ Goto(r, "point") /\ request[r].pc # "idle"
    BY <1>9 DEF AddTask, Writing
  <2>2. request' \in [Requests -> Calls] /\ Asking'
    BY <1>8, <2>1, GotoTyped DEF RequestStages
  <2>3. inflight' \in [Targets -> {0} \cup Batches]
    BY <1>1, <1>8, <1>9, <2>1 DEF AddTask, TypeOK
  <2>4. QED
    BY <1>1, <1>8, <1>9, <2>1, <2>2, <2>3 DEF AddTask, storeFrame, Typed, TypeOK
<1>10. CASE Point(r)
  <2>1. request' \in [Requests -> Calls] /\ Asking'
    BY <1>10, ReturnTyped DEF Point, Return
  <2>2. openBatch' \in {0} \cup Batches /\ createLock' \in Requests \cup {NoOne}
    BY <1>1, <1>10 DEF Point, Return, TypeOK, Calls
  <2>3. QED
    BY <1>1, <1>10, <2>1, <2>2 DEF Point, storeFrame, Typed, TypeOK
<1>11. CASE RequestFails(r)
  <2>1. request' \in [Requests -> Calls] /\ Asking'
    BY <1>11, ReturnTyped DEF RequestFails
  <2>2. faults' \in 0..MaxFaults /\ createLock' \in Requests \cup {NoOne}
    BY <1>1, <1>11 DEF RequestFails, TypeOK
  <2>3. /\ task' \in [Batches -> [Targets -> TaskStates]]
        /\ listed' \in [Batches -> SUBSET Targets]
        /\ disturbed' \subseteq Batches /\ unpinned' \subseteq Targets
    BY <1>1, <1>8, <1>11 DEF RequestFails, TypeOK, Writing
  <2>4. QED
    BY <1>1, <1>11, <2>1, <2>2, <2>3 DEF RequestFails, Typed, TypeOK
<1>12. QED
  BY <1>2, <1>3, <1>4, <1>5, <1>6, <1>7, <1>9, <1>10, <1>11 DEF RequestStep

\* The tick of s is replaced by work w.
LEMMA WorkTyped ==
  ASSUME TypeOK, NEW s \in Servers, NEW w \in Works, server' = [server EXCEPT ![s] = w]
  PROVE  server' \in [Servers -> Works]
BY DEF TypeOK

LEMMA ServerTyped ==
  ASSUME Typed, NEW s \in Servers, ServerStep(s) \/ ServerFails(s)
  PROVE  TypeOK'
<1> USE Constants
<1> DEFINE b == server[s].b
<1>1. /\ TypeOK /\ server \in [Servers -> Works] /\ server[s] \in Works
      /\ server[s].count \in 0..MaxTargetsPerBatch
      /\ b \in Batches /\ server[s].left \subseteq Targets
      /\ server[s].shard \subseteq Targets /\ server[s].g \in {0} \cup Transfers
      /\ server[s].outcome \in {"Dispatching"} \cup TerminalStates
  <2>1. TypeOK /\ server[s].pc # "idle"
    BY DEF Typed, ServerStep, SaveDispatching, ListTargets, ShardFails, TransferShard, RecordShard,
           ShardUnrecorded, EndDispatch, ApplyInTime, RepairTimeoutBatch, SaveOutcome,
           FinalizeBatch, ServerFails
  <2>2. server[s] \in Works
    BY <2>1 DEF TypeOK
  <2>3. QED
    BY <2>1, <2>2 DEF Works, TypeOK, Typed, Working
<1> USE <1>1
<1>2. ASSUME NEW st \in {"none", "Dispatching"} \cup TerminalStates,
             batch' = [batch EXCEPT ![b] = Closed(st, server[s].count)]
      PROVE  batch' \in [Batches -> Metas]
  <2>1. Closed(st, server[s].count) \in Metas
    BY <1>1, RowTypes
  <2>2. QED
    BY <1>2, <2>1 DEF TypeOK
<1>3. ASSUME NEW ts, NEW st \in TaskStates, task' = Marked(b, ts, st)
      PROVE  task' \in [Batches -> [Targets -> TaskStates]]
  BY <1>3 DEF Marked, TypeOK
<1>4. dispatchLock' = Unlocked(s) => dispatchLock' \in [Batches -> Servers \cup {NoOne}]
  BY DEF Unlocked, TypeOK
<1>5. CASE SaveDispatching(s)
  <2>1. server' \in [Servers -> Works]
    BY <1>1, <1>5 DEF SaveDispatching, Works, DispatchStages
  <2>2. QED
    BY <1>2, <1>5, <2>1 DEF SaveDispatching, serviceFrame, TypeOK
<1>6. CASE ListTargets(s)
  <2>1. server' \in [Servers -> Works]
    BY <1>1, <1>6 DEF ListTargets, Works, DispatchStages
  <2>2. QED
    BY <1>2, <1>6, <2>1 DEF ListTargets, serviceFrame, TypeOK
<1>7. CASE ShardFails(s)
  <2>1. server' \in [Servers -> Works]
    <3>1. PICK left \in SUBSET Targets : server' = [server EXCEPT ![s].left = left]
      BY <1>1, <1>7 DEF ShardFails
    <3>2. QED
      BY <1>1, <3>1 DEF Works
  <2>2. task' \in [Batches -> [Targets -> TaskStates]]
    BY <1>3, <1>7 DEF ShardFails, TaskStates, FinalStates, TypeOK
  <2>3. QED
    BY <1>7, <2>1, <2>2 DEF ShardFails, serviceFrame, TypeOK
<1>8. CASE TransferShard(s)
  <2>1. PICK shard \in SUBSET server[s].left, g \in Transfers :
          /\ transfer' = [transfer EXCEPT ![g] =
               [b |-> server[s].b,
                result |-> [t \in Targets |-> IF t \in shard THEN "running" ELSE "none"]]]
          /\ server' = [server EXCEPT ![s].pc = "mark", ![s].left = @ \ shard,
                                      ![s].shard = shard, ![s].g = g]
    BY <1>8 DEF TransferShard
  <2>2. server' \in [Servers -> Works]
    <3> DEFINE work == [server[s] EXCEPT !.pc = "mark", !.left = @ \ shard, !.shard = shard, !.g = g]
    <3>1. shard \in SUBSET Targets /\ server[s].left \ shard \in SUBSET Targets /\ server[s] \in Works
      BY <1>1 DEF Works
    <3>2. work \in Works
      BY <3>1 DEF Works, DispatchStages
    <3>3. server' = [server EXCEPT ![s] = work]
      BY <2>1
    <3> HIDE DEF work
    <3>4. QED
      BY <1>1, <3>2, <3>3
  <2>3. transfer' \in [Transfers -> [b : {0} \cup Batches, result : [Targets -> Results]]]
    BY <1>1, <2>1 DEF Results, TypeOK
  <2>4. QED
    BY <1>8, <2>2, <2>3 DEF TransferShard, serviceFrame, TypeOK
<1>9. CASE RecordShard(s)
  <2>1. server' \in [Servers -> Works]
    BY <1>1, <1>9 DEF RecordShard, Works, DispatchStages
  <2>2. task' \in [Batches -> [Targets -> TaskStates]]
    BY <1>3, <1>9 DEF RecordShard, TaskStates, OpenStates
  <2>3. mapping' \in [Batches -> [Targets -> {0} \cup Transfers]]
    BY <1>1, <1>9 DEF RecordShard, TypeOK
  <2>4. QED
    BY <1>9, <2>1, <2>2, <2>3 DEF RecordShard, serviceFrame, TypeOK
<1>21. CASE ShardUnrecorded(s)
  <2>1. server' \in [Servers -> Works]
    BY <1>1, <1>21 DEF ShardUnrecorded, Works, DispatchStages
  <2>2. task' \in [Batches -> [Targets -> TaskStates]]
    BY <1>3, <1>21 DEF ShardUnrecorded, TaskStates, OpenStates
  <2>3. faults' \in 0..MaxFaults
    BY <1>21 DEF ShardUnrecorded, TypeOK
  <2>4. QED
    BY <1>21, <2>1, <2>2, <2>3 DEF ShardUnrecorded, TypeOK
<1>10. CASE EndDispatch(s)
  BY <1>4, <1>10, IdleTypes, WorkTyped DEF EndDispatch, serviceFrame, TypeOK
<1>11. [t \in Targets |-> IF server[s].seen[t] = "none" THEN task[b][t]
                          ELSE StateOf(server[s].seen[t])] = Applied(s)
  BY DEF Applied
<1>12. Applied(s) \in [Targets -> TaskStates]
  <2>1. ASSUME NEW x PROVE StateOf(x) \in TaskStates
    BY DEF StateOf, TaskStates, OpenStates, FinalStates
  <2>2. QED
    BY <1>11, <2>1 DEF TypeOK
<1>13. ASSUME NEW f, f \in [Targets -> TaskStates],
              task' = [task EXCEPT ![b] = f]
       PROVE  task' \in [Batches -> [Targets -> TaskStates]]
  BY <1>13 DEF TypeOK
<1>14. ASSUME NEW n \in 0..MaxTargetsPerBatch, NEW o \in {"Dispatching"} \cup TerminalStates,
              server' = [server EXCEPT ![s] = [Work("conclude", b, n) EXCEPT !.outcome = o]]
       PROVE  server' \in [Servers -> Works]
  <2>1. Work("conclude", b, n) \in Works
    BY <1>1, WorkTypes DEF RefreshStages
  <2>2. [Work("conclude", b, n) EXCEPT !.outcome = o] \in Works
    BY <2>1 DEF Works
  <2>3. QED
    BY <1>14, <2>2, WorkTyped
<1>15. CASE ApplyInTime(s)
  <2>1. task' \in [Batches -> [Targets -> TaskStates]]
    BY <1>12, <1>13, <1>15 DEF ApplyInTime
  <2>2. server' \in [Servers -> Works]
    BY <1>1, <1>14, <1>15, DeriveType DEF ApplyInTime
  <2>3. QED
    BY <1>15, <2>1, <2>2 DEF ApplyInTime, serviceFrame, TypeOK
<1>16. CASE RepairTimeoutBatch(s)
  <2> DEFINE new == [t \in Targets |-> IF t \in StillOpen(b) THEN "Timeout" ELSE task[b][t]]
  <2>1. task' = [task EXCEPT ![b] = new]
    BY <1>16 DEF RepairTimeoutBatch
  <2>2. new \in [Targets -> TaskStates]
    BY DEF TaskStates, FinalStates, TypeOK
  <2>3. server' \in [Servers -> Works]
    <3>1. batch[b].count \in 0..MaxTargetsPerBatch
      BY DEF TypeOK, Metas
    <3>2. QED
      BY <1>14, <1>16, <3>1, DeriveType DEF RepairTimeoutBatch
  <2>4. task' \in [Batches -> [Targets -> TaskStates]]
    BY <1>13, <2>1, <2>2
  <2>5. disturbed' \subseteq Batches
    BY <1>16 DEF RepairTimeoutBatch, TypeOK
  <2>6. UNCHANGED <<serviceFrame, batch, listed, mapping, inflight, openBatch, dispatchLock,
                    transfer, unpinned>>
    BY <1>16 DEF RepairTimeoutBatch
  <2>7. QED
    BY <2>3, <2>4, <2>5, <2>6 DEF serviceFrame, TypeOK
<1>17. CASE SaveOutcome(s)
  <2>1. Work("finalize", b, 0) \in Works
    <3>1. /\ "finalize" \in {"idle", "finalize"} \cup DispatchStages \cup RefreshStages
          /\ b \in {0} \cup Batches /\ 0 \in 0..MaxTargetsPerBatch
      OBVIOUS
    <3> HIDE DEF b
    <3>2. QED
      BY <3>1, WorkTypes
  <2>2. server' \in [Servers -> Works]
    <3>1. PICK w \in {Idle, Work("finalize", b, 0)} : server' = [server EXCEPT ![s] = w]
      BY <1>17 DEF SaveOutcome
    <3>2. QED
      BY <2>1, <3>1, IdleTypes, WorkTyped
  <2>3. QED
    BY <1>1, <1>2, <1>17, <2>2 DEF SaveOutcome, serviceFrame, TypeOK
<1>18. CASE FinalizeBatch(s)
  <2>1. server' \in [Servers -> Works]
    BY <1>18, IdleTypes, WorkTyped DEF FinalizeBatch
  <2>2. inflight' \in [Targets -> {0} \cup Batches]
    BY <1>18 DEF FinalizeBatch, TypeOK
  <2>3. unpinned' \subseteq Targets
    BY <1>18 DEF FinalizeBatch, Pinned, TypeOK
  <2>4. openBatch' \in {0} \cup Batches
    BY <1>18 DEF FinalizeBatch
  <2>5. QED
    BY <1>18, <2>1, <2>2, <2>3, <2>4 DEF FinalizeBatch, serviceFrame, TypeOK
<1>19. CASE ServerFails(s)
  <2>1. server' \in [Servers -> Works]
    BY <1>19, IdleTypes, WorkTyped DEF ServerFails
  <2>2. faults' \in 0..MaxFaults /\ disturbed' \subseteq Batches
    BY <1>19 DEF ServerFails, TypeOK
  <2>3. task' \in [Batches -> [Targets -> TaskStates]]
    BY <1>13, <1>19 DEF ServerFails
  <2>4. QED
    BY <1>4, <1>19, <2>1, <2>2, <2>3 DEF ServerFails, TypeOK
<1>20. QED
  BY <1>5, <1>6, <1>7, <1>8, <1>9, <1>10, <1>15, <1>16, <1>17, <1>18, <1>19, <1>21
     DEF ServerStep

\* A server goes on with its batch or ends its tick.
LEMMA ServerWorking ==
  ASSUME Typed, NEW s \in Servers,
         ServerStep(s) \/ ServerFails(s) \/ \E b \in Batches : ApplyTooLate(s, b)
  PROVE  Working'
<1>1. server[s].b \in Batches /\ server \in [Servers -> Works] /\ Working
  BY DEF Typed, TypeOK, Working, ServerStep, SaveDispatching, ListTargets, ShardFails, TransferShard,
         RecordShard, ShardUnrecorded, EndDispatch, ApplyInTime, ApplyTooLate, RepairTimeoutBatch,
         SaveOutcome, FinalizeBatch, ServerFails
<1>2. server'[s] = Idle \/ server'[s].b = server[s].b
  <2>1. ASSUME SaveDispatching(s) \/ ListTargets(s) \/ ShardFails(s) \/ TransferShard(s)
               \/ RecordShard(s) \/ ShardUnrecorded(s)
        PROVE  server'[s].b = server[s].b
    <3>1. CASE SaveDispatching(s) \/ ListTargets(s) \/ RecordShard(s) \/ ShardUnrecorded(s)
      BY <1>1, <3>1 DEF SaveDispatching, ListTargets, RecordShard, ShardUnrecorded, Works
    <3>2. CASE ShardFails(s)
      BY <1>1, <3>2 DEF ShardFails, Works
    <3>3. CASE TransferShard(s)
      BY <1>1, <3>3 DEF TransferShard, Works
    <3>4. QED
      BY <2>1, <3>1, <3>2, <3>3
  <2>2. ASSUME ApplyInTime(s) \/ RepairTimeoutBatch(s) \/ SaveOutcome(s)
               \/ \E b \in Batches : ApplyTooLate(s, b)
        PROVE  server'[s] = Idle \/ server'[s].b = server[s].b
    BY <1>1, <2>2 DEF ApplyInTime, ApplyTooLate, RepairTimeoutBatch, SaveOutcome, Work
  <2>3. ASSUME EndDispatch(s) \/ FinalizeBatch(s) \/ ServerFails(s) PROVE server'[s] = Idle
    BY <1>1, <2>3 DEF EndDispatch, FinalizeBatch, ServerFails
  <2>4. QED
    BY <2>1, <2>2, <2>3 DEF ServerStep
<1>3. \A o \in Servers \ {s} : server'[o] = server[o]
  BY <1>1 DEF ServerStep, SaveDispatching, ListTargets, ShardFails, TransferShard, RecordShard,
              ShardUnrecorded, EndDispatch, ApplyInTime, ApplyTooLate, RepairTimeoutBatch,
              SaveOutcome, FinalizeBatch, ServerFails
<1>4. QED
  BY <1>1, <1>2, <1>3 DEF Working, Idle, Work

LEMMA TakeTyped ==
  ASSUME Typed, NEW s \in Servers, NEW b \in Batches,
         TakeDueBatch(s, b) \/ AskGSE(s, b) \/ ApplyTooLate(s, b)
  PROVE  Typed'
<1>1. TypeOK /\ batch[b].count \in 0..MaxTargetsPerBatch /\ server[s].count \in 0..MaxTargetsPerBatch
  BY DEF Typed, TypeOK, Metas, Works
<1>2. Asking'
  BY DEF TakeDueBatch, AskGSE, ApplyTooLate, serviceFrame, Typed, Asking
<1>3. ASSUME NEW pc \in DispatchStages \cup RefreshStages, NEW n \in 0..MaxTargetsPerBatch
      PROVE  Work(pc, b, n) \in Works /\ Work(pc, b, n).b = b
  BY WorkTypes DEF Work
<1>4. ASSUME NEW w \in Works, w.b = b, server' = [server EXCEPT ![s] = w]
      PROVE  server' \in [Servers -> Works] /\ Working'
  BY <1>4 DEF Typed, TypeOK, Working
<1>5. CASE TakeDueBatch(s, b)
  <2>1. Work("save", b, batch[b].count) \in Works /\ Work("save", b, batch[b].count).b = b
    BY <1>1, <1>3 DEF DispatchStages
  <2>2. server' \in [Servers -> Works] /\ Working'
    BY <1>4, <1>5, <2>1 DEF TakeDueBatch
  <2>3. dispatchLock' \in [Batches -> Servers \cup {NoOne}]
    BY <1>1, <1>5 DEF TakeDueBatch, TypeOK
  <2>4. QED
    BY <1>1, <1>2, <1>5, <2>2, <2>3 DEF TakeDueBatch, serviceFrame, Typed, TypeOK
<1>6. CASE AskGSE(s, b)
  <2>1. PICK answered \in SUBSET ({mapping[b][t] : t \in Targets} \ {0}), result \in [Targets -> Results] :
         /\ transfer' = [g \in Transfers |-> [transfer[g] EXCEPT !.result =
              [t \in Targets |-> IF g \in answered /\ mapping[b][t] = g THEN result[t] ELSE @[t]]]]
         /\ server' = [server EXCEPT ![s] = [Work("apply", b, batch[b].count) EXCEPT !.seen = result]]
    BY <1>6 DEF AskGSE
  <2> DEFINE w == [Work("apply", b, batch[b].count) EXCEPT !.seen = result]
  <2>2. w \in Works /\ w.b = b
    <3>1. Work("apply", b, batch[b].count) \in Works /\ Work("apply", b, batch[b].count).b = b
      BY <1>1, <1>3 DEF RefreshStages
    <3>2. QED
      BY <3>1 DEF Works
  <2>3. server' = [server EXCEPT ![s] = w]
    BY <2>1
  <2> HIDE DEF w
  <2>4. server' \in [Servers -> Works] /\ Working'
    BY <1>4, <2>2, <2>3
  <2>5. transfer' \in [Transfers -> [b : {0} \cup Batches, result : [Targets -> Results]]]
    BY <1>1, <2>1 DEF TypeOK
  <2>6. disturbed' \subseteq Batches
    BY <1>1, <1>6 DEF AskGSE, TypeOK
  <2>7. QED
    BY <1>1, <1>2, <1>6, <2>4, <2>5, <2>6 DEF AskGSE, serviceFrame, Typed, TypeOK
<1>7. CASE ApplyTooLate(s, b)
  <2>1. Work("repair", b, server[s].count) \in Works /\ Work("repair", b, server[s].count).b = b
    BY <1>1, <1>3 DEF RefreshStages
  <2>2. server' \in [Servers -> Works] /\ Working'
    BY <1>4, <1>7, <2>1 DEF ApplyTooLate
  <2>3. task' \in [Batches -> [Targets -> TaskStates]]
    <3>1. Applied(s) \in [Targets -> TaskStates]
      <4>1. \A x : StateOf(x) \in TaskStates
        BY DEF StateOf, TaskStates, OpenStates, FinalStates
      <4>2. QED
        BY <1>1, <1>7, <4>1 DEF ApplyTooLate, Applied, TypeOK
    <3>2. QED
      BY <1>1, <1>7, <3>1 DEF ApplyTooLate, TypeOK
  <2>4. QED
    BY <1>1, <1>2, <1>7, <2>2, <2>3 DEF ApplyTooLate, serviceFrame, Typed, TypeOK
<1>8. QED
  BY <1>5, <1>6, <1>7

LEMMA NextTyped == Typed /\ [Next]_vars => Typed'
<1> SUFFICES ASSUME Typed, [Next]_vars PROVE Typed'
  OBVIOUS
<1>1. CASE UNCHANGED vars
  BY <1>1 DEF vars, Typed, TypeOK, Asking, Working
<1>2. CASE Next
  <2>1. ASSUME NEW s \in Servers, ServerStep(s) \/ ServerFails(s) PROVE Typed'
    <3>1. TypeOK' /\ Working'
      BY <2>1, ServerTyped, ServerWorking
    <3>2. Asking'
      BY <2>1 DEF ServerStep, SaveDispatching, ListTargets, ShardFails, TransferShard, RecordShard,
                  ShardUnrecorded, EndDispatch, ApplyInTime, RepairTimeoutBatch, SaveOutcome,
                  FinalizeBatch, ServerFails, serviceFrame, Typed, Asking
    <3>3. QED
      BY <3>1, <3>2 DEF Typed
  <2>2. ASSUME NEW b \in Batches, WindowEnds(b) PROVE Typed'
    <3>1. batch' \in [Batches -> Metas]
      <4>1. batch \in [Batches -> Metas]
        BY DEF Typed, TypeOK
      <4>2. QED
        BY <2>2, <4>1 DEF WindowEnds, Metas
    <3>2. QED
      BY <2>2, <3>1 DEF WindowEnds, serviceFrame, Typed, TypeOK, Asking, Working
  <2>3. QED
    BY <1>2, <2>1, <2>2, RequestTyped, TakeTyped DEF Next
<1>3. QED
  BY <1>1, <1>2

\* Types: in particular no batch counts more targets than a batch may have.
THEOREM TypeCorrect == Spec => []TypeOK
<1>1. Typed => TypeOK
  BY DEF Typed
<1>2. QED
  BY <1>1, InitTyped, NextTyped, PTL DEF Spec

-----------------------------------------------------------------------------
(* A success is a delivery.  The mapping of a batch, and a server that has *)
(* started a transfer, name transfers of their own batch; so what a server *)
(* has seen of a target came from a transfer that brought it the file.     *)

\* A transfer of b brought the file to t, if GSE's transfers are tr.
Brought(tr, b, t) == \E g \in Transfers : tr[g].b = b /\ tr[g].result[t] = "ok"

\* Transfers nobody has begun have no results.
Unbegun == \A g \in Transfers : transfer[g].b = 0 => \A t \in Targets : transfer[g].result[t] = "none"

Mapped == \A b \in Batches, t \in Targets :
            mapping[b][t] # 0 => transfer[mapping[b][t]].b = b

Marking == \A s \in Servers :
             server[s].pc = "mark" => server[s].g # 0 /\ transfer[server[s].g].b = server[s].b

Seeing == \A s \in Servers, t \in Targets :
            server[s].pc = "apply" /\ server[s].seen[t] = "ok" => Brought(transfer, server[s].b, t)

Truthful == \A b \in Batches, t \in Targets : task[b][t] = "Success" => Brought(transfer, b, t)

Inv == Typed /\ Unbegun /\ Mapped /\ Marking /\ Seeing /\ Truthful

\* Transfers that were begun keep their batch and what they have brought.
Kept ==
  \A g \in Transfers : transfer[g].b # 0 =>
    /\ transfer'[g].b = transfer[g].b
    /\ \A t \in Targets : transfer[g].result[t] = "ok" => transfer'[g].result[t] = "ok"

LEMMA KeptBrought ==
  ASSUME Kept, NEW b \in Batches, NEW t \in Targets, Brought(transfer, b, t)
  PROVE  Brought(transfer', b, t)
<1>1. b # 0
  BY DEF Batches
<1>2. QED
  BY <1>1 DEF Kept, Brought

\* What a server holds remains true of it, whatever it was, when its work w does not change.
HoldsOf(w, tr) ==
  /\ w.pc = "mark" => w.g # 0 /\ tr[w.g].b = w.b
  /\ w.pc = "apply" => \A t \in Targets : w.seen[t] = "ok" => Brought(tr, w.b, t)

LEMMA Holds == (\A s \in Servers : HoldsOf(server[s], transfer)) <=> Marking /\ Seeing
BY DEF HoldsOf, Marking, Seeing

LEMMA WorkKept ==
  ASSUME Inv, Kept, NEW s \in Servers
  PROVE  HoldsOf(server[s], transfer')
<1>1. /\ server[s] \in Works /\ 0 \notin Batches
      /\ server[s].pc # "idle" => server[s].b \in Batches
      /\ HoldsOf(server[s], transfer)
  BY Holds DEF Inv, Typed, TypeOK, Working, Batches
<1>2. ASSUME server[s].pc = "mark" PROVE server[s].g # 0 /\ transfer'[server[s].g].b = server[s].b
  <2>1. server[s].g \in Transfers
    BY <1>1, <1>2 DEF HoldsOf, Works
  <2>2. QED
    BY <1>1, <1>2, <2>1 DEF HoldsOf, Kept
<1>3. ASSUME server[s].pc = "apply", NEW t \in Targets, server[s].seen[t] = "ok"
      PROVE  Brought(transfer', server[s].b, t)
  BY <1>1, <1>3, KeptBrought DEF HoldsOf
<1>4. QED
  BY <1>2, <1>3 DEF HoldsOf

\* What a step must do to keep Inv.
LEMMA Keeps ==
  ASSUME Inv, Typed', Kept, Unbegun',
         \A b \in Batches, t \in Targets :
            task'[b][t] = "Success" => task[b][t] = "Success" \/ Brought(transfer', b, t),
         \A b \in Batches, t \in Targets :
            mapping'[b][t] # 0 =>
              mapping'[b][t] = mapping[b][t] \/ transfer'[mapping'[b][t]].b = b,
         \A s \in Servers : server'[s] = server[s] \/ HoldsOf(server'[s], transfer')
  PROVE  Inv'
<1>1. Truthful'
  <2>1. ASSUME NEW b \in Batches, NEW t \in Targets, task'[b][t] = "Success"
        PROVE  Brought(transfer', b, t)
    BY <2>1, KeptBrought DEF Inv, Truthful
  <2>2. QED
    BY <2>1 DEF Truthful
<1>2. Mapped'
  <2>1. ASSUME NEW b \in Batches, NEW t \in Targets, mapping'[b][t] # 0,
               mapping'[b][t] = mapping[b][t]
        PROVE  transfer'[mapping'[b][t]].b = b
    <3>1. mapping[b][t] \in Transfers
      <4>1. mapping \in [Batches -> [Targets -> {0} \cup Transfers]]
        BY DEF Inv, Typed, TypeOK
      <4>2. QED
        BY <2>1, <4>1
    <3>2. b # 0
      BY Constants DEF Batches
    <3>3. transfer[mapping[b][t]].b = b
      BY <2>1 DEF Inv, Mapped
    <3>4. QED
      BY <2>1, <3>1, <3>2, <3>3 DEF Kept
  <2>2. QED
    BY <2>1 DEF Mapped
<1>3. \A s \in Servers : HoldsOf(server'[s], transfer')
  BY WorkKept
<1>4. Marking' /\ Seeing'
  BY <1>3 DEF HoldsOf, Marking, Seeing
<1>5. QED
  BY <1>1, <1>2, <1>4 DEF Inv

\* Most steps leave GSE alone.
LEMMA KeepsQuietly ==
  ASSUME Inv, Typed', transfer' = transfer, mapping' = mapping,
         \A b \in Batches, t \in Targets :
            task'[b][t] = "Success" => task[b][t] = "Success" \/ Brought(transfer, b, t),
         \A s \in Servers : server'[s] = server[s] \/ server'[s].pc \notin {"mark", "apply"}
  PROVE  Inv'
<1>1. Kept /\ Unbegun'
  BY DEF Inv, Unbegun, Kept
<1>2. \A s \in Servers : server'[s] = server[s] \/ HoldsOf(server'[s], transfer')
  BY DEF HoldsOf
<1>3. QED
  BY <1>1, <1>2, Keeps

LEMMA RequestKeeps ==
  ASSUME Inv, Typed', NEW r \in Requests,
         (\E t \in Targets : Probe(r, t)) \/ RequestStep(r) \/ RequestFails(r)
  PROVE  Inv'
<1>1. transfer' = transfer /\ mapping' = mapping /\ server' = server
  BY DEF Probe, RequestStep, ClearFinal, Lock, Choose, SaveJoin, CreateBatch, AddTask, Point,
         RequestFails, storeFrame
<1>2. \/ task' = task
      \/ task' = [task EXCEPT ![request[r].b][request[r].t] = "Pending"]
  BY DEF Probe, RequestStep, ClearFinal, Lock, Choose, SaveJoin, CreateBatch, AddTask, Point,
         RequestFails
<1>3. ASSUME NEW b \in Batches, NEW t \in Targets, task'[b][t] = "Success"
      PROVE  task[b][t] = "Success"
  <2>1. task \in [Batches -> [Targets -> TaskStates]]
    BY DEF Inv, Typed, TypeOK
  <2>2. ASSUME NEW c, NEW u, task' = [task EXCEPT ![c][u] = "Pending"]
        PROVE  task[b][t] = "Success"
    <3>1. CASE b = c
      <4>1. task'[b] = [task[b] EXCEPT ![u] = "Pending"]
        BY <2>1, <2>2, <3>1
      <4>2. QED
        BY <1>3, <2>1, <4>1
    <3>2. CASE b # c
      BY <1>3, <2>1, <2>2, <3>2
    <3>3. QED
      BY <3>1, <3>2
  <2>3. QED
    BY <1>2, <1>3, <2>2
<1>4. QED
  BY <1>1, <1>3, KeepsQuietly

\* The steps of a server that ask nothing of GSE.
LEMMA QuietKeeps ==
  ASSUME Inv, Typed', NEW s \in Servers,
         \/ SaveDispatching(s) \/ ListTargets(s) \/ ShardFails(s) \/ ShardUnrecorded(s)
         \/ EndDispatch(s) \/ ApplyInTime(s) \/ (\E b \in Batches : ApplyTooLate(s, b)) \/ RepairTimeoutBatch(s)
         \/ SaveOutcome(s) \/ FinalizeBatch(s) \/ ServerFails(s)
         \/ \E b \in Batches : TakeDueBatch(s, b)
  PROVE  Inv'
<1>1. transfer' = transfer /\ mapping' = mapping
  BY DEF SaveDispatching, ListTargets, ShardFails, ShardUnrecorded, EndDispatch, ApplyInTime,
         ApplyTooLate, RepairTimeoutBatch, SaveOutcome, FinalizeBatch, ServerFails, TakeDueBatch
<1>2. server \in [Servers -> Works] /\ task \in [Batches -> [Targets -> TaskStates]]
  BY DEF Inv, Typed, TypeOK
<1>3. /\ \A o \in Servers \ {s} : server'[o] = server[o]
      /\ server'[s].pc \notin {"mark", "apply"}
  <2>1. CASE SaveDispatching(s) \/ ListTargets(s)
    BY <1>2, <2>1 DEF SaveDispatching, ListTargets, Works
  <2>2. CASE ShardFails(s) \/ ShardUnrecorded(s)
    BY <1>2, <2>2 DEF ShardFails, ShardUnrecorded, Works
  <2>3. CASE EndDispatch(s) \/ FinalizeBatch(s) \/ ServerFails(s)
    <3>1. server' = [server EXCEPT ![s] = Idle]
      BY <2>3 DEF EndDispatch, FinalizeBatch, ServerFails
    <3>2. Idle.pc = "idle"
      BY DEF Idle, Work
    <3>3. QED
      BY <1>2, <3>1, <3>2
  <2>4. CASE ApplyInTime(s)
    BY <1>2, <2>4 DEF ApplyInTime, Work
  <2>5. CASE \E b \in Batches : ApplyTooLate(s, b)
    BY <1>2, <2>5 DEF ApplyTooLate, Work
  <2>6. CASE RepairTimeoutBatch(s)
    BY <1>2, <2>6 DEF RepairTimeoutBatch, Work
  <2>7. CASE SaveOutcome(s) \/ \E b \in Batches : TakeDueBatch(s, b)
    BY <1>2, <2>7 DEF SaveOutcome, TakeDueBatch, Work, Idle
  <2>8. QED
    BY <2>1, <2>2, <2>3, <2>4, <2>5, <2>6, <2>7
<1>4. ASSUME NEW b \in Batches, NEW t \in Targets, task'[b][t] = "Success"
      PROVE  task[b][t] = "Success" \/ Brought(transfer, b, t)
  <2>1. ASSUME server[s].pc = "apply", task'[b][t] = Applied(s)[t], b = server[s].b
        PROVE  task[b][t] = "Success" \/ Brought(transfer, b, t)
    <3>1. CASE server[s].seen[t] = "none"
      BY <1>2, <1>4, <2>1, <3>1 DEF Applied
    <3>2. CASE server[s].seen[t] # "none"
      <4>1. StateOf(server[s].seen[t]) = "Success"
        BY <1>2, <1>4, <2>1, <3>2 DEF Applied
      <4>2. server[s].seen[t] = "ok"
        BY <4>1 DEF StateOf
      <4>3. QED
        BY <2>1, <4>2 DEF Inv, Seeing
    <3>3. QED
      BY <3>1, <3>2
  <2>2. CASE ApplyInTime(s) \/ \E c \in Batches : ApplyTooLate(s, c)
    <3>1. server[s].pc = "apply" /\ task' = [task EXCEPT ![server[s].b] = Applied(s)]
      BY <2>2 DEF ApplyInTime, ApplyTooLate
    <3>2. CASE b # server[s].b
      BY <1>2, <1>4, <3>1, <3>2
    <3>3. CASE b = server[s].b
      BY <1>2, <2>1, <3>1, <3>3
    <3>4. QED
      BY <3>2, <3>3
  <2>3. CASE ServerFails(s)
    <3>1. PICK new : /\ \A u \in Targets : new[u] = task[server[s].b][u] \/ MayWrite(s, u, new[u])
                     /\ task' = [task EXCEPT ![server[s].b] = new]
      BY <2>3 DEF ServerFails
    <3>2. CASE task'[b][t] = task[b][t]
      BY <1>4, <3>2
    <3>3. CASE b = server[s].b /\ MayWrite(s, t, task'[b][t])
      BY <1>4, <2>1, <3>3 DEF MayWrite
    <3>4. QED
      BY <1>2, <3>1, <3>2, <3>3
  <2>4. CASE ShardFails(s) \/ ShardUnrecorded(s)
    <3>1. PICK ts : \E st \in {"Failed", "Running"} : task' = Marked(server[s].b, ts, st)
      BY <2>4 DEF ShardFails, ShardUnrecorded
    <3>2. QED
      BY <1>2, <1>4, <3>1 DEF Marked
  <2>5. CASE RepairTimeoutBatch(s)
    BY <1>2, <1>4, <2>5 DEF RepairTimeoutBatch
  <2>6. CASE task' = task
    BY <1>4, <2>6
  <2>7. QED
    BY <2>2, <2>3, <2>4, <2>5, <2>6
       DEF SaveDispatching, ListTargets, EndDispatch, SaveOutcome, FinalizeBatch, TakeDueBatch
<1>5. QED
  BY <1>1, <1>3, <1>4, KeepsQuietly

LEMMA TransferKeeps ==
  ASSUME Inv, Typed', NEW s \in Servers, TransferShard(s)
  PROVE  Inv'
<1>1. /\ server[s] \in Works /\ server \in [Servers -> Works]
      /\ transfer \in [Transfers -> [b : {0} \cup Batches, result : [Targets -> Results]]]
      /\ server[s].b \in Batches /\ Transfers \subseteq Nat \ {0} /\ 0 \notin Batches
  BY DEF TransferShard, Inv, Typed, TypeOK, Working, Transfers, Batches
<1>2. PICK shard \in SUBSET server[s].left, g \in Transfers :
        /\ \A h \in Transfers : h < g <=> transfer[h].b # 0
        /\ transfer' = [transfer EXCEPT ![g] =
             [b |-> server[s].b,
              result |-> [t \in Targets |-> IF t \in shard THEN "running" ELSE "none"]]]
        /\ server' = [server EXCEPT ![s].pc = "mark", ![s].left = @ \ shard,
                                    ![s].shard = shard, ![s].g = g]
  BY DEF TransferShard
<1>3. transfer[g].b = 0
  BY <1>1, <1>2
<1>4. \A h \in Transfers \ {g} : transfer'[h] = transfer[h]
  BY <1>1, <1>2
<1>5. transfer'[g].b = server[s].b
  BY <1>1, <1>2
<1>6. Kept
  BY <1>3, <1>4 DEF Kept
<1>7. Unbegun'
  BY <1>1, <1>4, <1>5 DEF Inv, Unbegun
<1>8. HoldsOf(server'[s], transfer')
  <2>1. server'[s].pc = "mark" /\ server'[s].g = g /\ server'[s].b = server[s].b
    BY <1>1, <1>2 DEF Works
  <2>2. QED
    BY <1>1, <1>5, <2>1 DEF HoldsOf
<1>9. \A o \in Servers : server'[o] = server[o] \/ HoldsOf(server'[o], transfer')
  BY <1>1, <1>2, <1>8
<1>10. task' = task /\ mapping' = mapping
  BY DEF TransferShard
<1>11. QED
  BY <1>6, <1>7, <1>9, <1>10, Keeps

LEMMA RecordKeeps ==
  ASSUME Inv, Typed', NEW s \in Servers, RecordShard(s)
  PROVE  Inv'
<1>1. /\ server \in [Servers -> Works] /\ task \in [Batches -> [Targets -> TaskStates]]
      /\ mapping \in [Batches -> [Targets -> {0} \cup Transfers]]
  BY DEF Inv, Typed, TypeOK
<1>2. transfer' = transfer /\ Kept /\ Unbegun'
  BY DEF RecordShard, Inv, Kept, Unbegun
<1>3. transfer[server[s].g].b = server[s].b
  BY DEF RecordShard, Inv, Marking
<1>4. ASSUME NEW b \in Batches, NEW t \in Targets
      PROVE  /\ mapping'[b][t] = mapping[b][t] \/ transfer'[mapping'[b][t]].b = b
             /\ task'[b][t] = "Success" => task[b][t] = "Success"
  <2>1. CASE b = server[s].b
    <3>1. mapping'[b] = [u \in Targets |-> IF u \in server[s].shard THEN server[s].g ELSE mapping[b][u]]
      BY <1>1, <2>1 DEF RecordShard
    <3>2. task'[b] = [u \in Targets |-> IF u \in server[s].shard THEN "Running" ELSE task[b][u]]
      BY <1>1, <2>1 DEF RecordShard, Marked
    <3>3. QED
      BY <1>2, <1>3, <2>1, <3>1, <3>2
  <2>2. CASE b # server[s].b
    BY <1>1, <2>2 DEF RecordShard, Marked
  <2>3. QED
    BY <2>1, <2>2
<1>5. \A o \in Servers : server'[o] = server[o] \/ HoldsOf(server'[o], transfer')
  <2>1. server'[s].pc = "shards"
    BY <1>1 DEF RecordShard, Works
  <2>2. \A o \in Servers \ {s} : server'[o] = server[o]
    BY <1>1 DEF RecordShard
  <2>3. QED
    BY <2>1, <2>2 DEF HoldsOf
<1>6. QED
  BY <1>2, <1>4, <1>5, Keeps

LEMMA AskKeeps ==
  ASSUME Inv, Typed', NEW s \in Servers, NEW b \in Batches, AskGSE(s, b)
  PROVE  Inv'
<1>1. /\ server \in [Servers -> Works]
      /\ transfer \in [Transfers -> [b : {0} \cup Batches, result : [Targets -> Results]]]
      /\ mapping \in [Batches -> [Targets -> {0} \cup Transfers]]
      /\ 0 \notin Batches
  BY DEF Inv, Typed, TypeOK, Batches
<1>2. PICK answered \in SUBSET ({mapping[b][t] : t \in Targets} \ {0}),
           result \in [Targets -> Results] :
        /\ \A t \in Targets : IF mapping[b][t] \in answered
                                THEN MayReport(transfer[mapping[b][t]].result[t], result[t])
                                ELSE result[t] = "none"
        /\ transfer' = [g \in Transfers |-> [transfer[g] EXCEPT !.result =
             [t \in Targets |-> IF g \in answered /\ mapping[b][t] = g THEN result[t] ELSE @[t]]]]
        /\ server' = [server EXCEPT ![s] = [Work("apply", b, batch[b].count) EXCEPT !.seen = result]]
  BY DEF AskGSE
<1>3. ASSUME NEW g \in Transfers
      PROVE  /\ transfer'[g].b = transfer[g].b
             /\ \A t \in Targets :
                  transfer'[g].result[t] = IF g \in answered /\ mapping[b][t] = g
                                             THEN result[t] ELSE transfer[g].result[t]
  BY <1>1, <1>2
<1>4. \A t \in Targets : mapping[b][t] \in answered =>
        /\ mapping[b][t] \in Transfers /\ transfer[mapping[b][t]].b = b
        /\ MayReport(transfer[mapping[b][t]].result[t], result[t])
  BY <1>1, <1>2 DEF Inv, Mapped
<1>5. Kept
  BY <1>3, <1>4 DEF Kept, MayReport
<1>6. Unbegun'
  <2>1. ASSUME NEW g \in Transfers, transfer'[g].b = 0, NEW t \in Targets
        PROVE  transfer'[g].result[t] = "none"
    <3>1. transfer[g].b = 0 /\ transfer[g].result[t] = "none"
      BY <1>3, <2>1 DEF Inv, Unbegun
    <3>2. ~ (g \in answered /\ mapping[b][t] = g)
      BY <1>1, <1>4, <3>1
    <3>3. QED
      BY <1>3, <3>1, <3>2
  <2>2. QED
    BY <2>1 DEF Unbegun
<1>7. HoldsOf(server'[s], transfer')
  <2>1. server'[s].pc = "apply" /\ server'[s].seen = result /\ server'[s].b = b
    BY <1>1, <1>2 DEF Work
  <2>2. ASSUME NEW t \in Targets, result[t] = "ok" PROVE Brought(transfer', b, t)
    <3>1. mapping[b][t] \in answered
      BY <1>2, <2>2
    <3>2. QED
      BY <1>3, <1>4, <2>2, <3>1 DEF Brought
  <2>3. QED
    BY <2>1, <2>2 DEF HoldsOf
<1>8. \A o \in Servers : server'[o] = server[o] \/ HoldsOf(server'[o], transfer')
  BY <1>1, <1>2, <1>7
<1>9. task' = task /\ mapping' = mapping
  BY DEF AskGSE
<1>10. QED
  BY <1>5, <1>6, <1>8, <1>9, Keeps

LEMMA InitInv == Init => Inv
<1> SUFFICES ASSUME Init PROVE Inv
  OBVIOUS
<1>1. Unbegun /\ Mapped
  BY DEF Init, Unbegun, Mapped, NoneSeen, NoMap
<1>2. Marking /\ Seeing
  BY DEF Init, Idle, Work, Marking, Seeing
<1>3. Truthful
  BY DEF Init, Truthful
<1>4. QED
  BY <1>1, <1>2, <1>3, InitTyped DEF Inv

LEMMA NextInv == Inv /\ [Next]_vars => Inv'
<1> SUFFICES ASSUME Inv, [Next]_vars PROVE Inv'
  OBVIOUS
<1>1. Typed'
  BY NextTyped DEF Inv
<1>2. CASE UNCHANGED vars \/ \E b \in Batches : WindowEnds(b)
  <2>1. transfer' = transfer /\ mapping' = mapping /\ task' = task /\ server' = server
    BY <1>2 DEF vars, WindowEnds
  <2>2. QED
    BY <1>1, <2>1, KeepsQuietly
<1>3. ASSUME NEW s \in Servers, ServerStep(s) \/ ServerFails(s) PROVE Inv'
  BY <1>1, <1>3, QuietKeeps, TransferKeeps, RecordKeeps DEF ServerStep
<1>4. ASSUME NEW s \in Servers, NEW b \in Batches,
             TakeDueBatch(s, b) \/ AskGSE(s, b) \/ ApplyTooLate(s, b)
      PROVE  Inv'
  BY <1>1, <1>4, QuietKeeps, AskKeeps
<1>5. QED
  BY <1>1, <1>2, <1>3, <1>4, RequestKeeps DEF Next

\* A task is a success only if a transfer of its batch brought the file to its target, however
\* often servers crash, batches are dispatched again and results arrive late.
THEOREM OnlyDelivered == Spec => []SuccessIsDelivered
<1>1. Inv => SuccessIsDelivered
  BY DEF Inv, Truthful, SuccessIsDelivered, Brought
<1>2. QED
  BY <1>1, InitInv, NextInv, PTL DEF Spec

=============================================================================
