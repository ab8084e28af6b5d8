--------------------------- MODULE AsyncDownload ----------------------------
(***************************************************************************)
(* The asynchronous downloads of the feed servers                          *)
(* (cmd/feed-server/bll/asyncdownload/v2).  A request for a file adds the  *)
(* pod or host that wants it, its target, to a batch that still collects   *)
(* targets, or opens one.  Every feed server ticks: it dispatches the      *)
(* batches whose window is over, as transfers of GSE, and it refreshes the *)
(* dispatching ones from what GSE reports until every task has ended.      *)
(* All state is in Redis, written key by key from copies read earlier; the *)
(* requests exclude one another by one lock, the dispatchers by another,   *)
(* the refreshers by none.                                                 *)
(*                                                                         *)
(* One file version and one target user and directory, hence one scope.    *)
(* A task is named by its batch and its target.  Time is abstract: an      *)
(* action ends a window, and a refresh finds a lease over or not.          *)
(***************************************************************************)
EXTENDS Integers, FiniteSets

CONSTANTS
    Targets,            \* the agents and containers that ask for the file
    Requests,           \* CreateTask calls at a time
    Servers,            \* feed servers, each with one scheduler
    NoOne,              \* holds a lock nobody holds
    MaxTargetsPerBatch, \* of the configuration
    ShardSize,          \* of the configuration
    MaxBatches,         \* bound: batches created
    MaxCalls,           \* bound: requests that find no open task to return
    MaxTransfers,       \* bound: transfers GSE accepts
    MaxFaults           \* bound: requests and ticks that stop half-way

ASSUME TargetsAssumption == IsFiniteSet(Targets) /\ NoOne \notin Requests \cup Servers
ASSUME SizesAssumption == MaxTargetsPerBatch \in Nat \ {0} /\ ShardSize \in Nat \ {0}
ASSUME BoundsAssumption ==
    {MaxBatches, MaxCalls, MaxTransfers, MaxFaults} \subseteq Nat

VARIABLES
    batch,          \* [Batches -> Metas]: the meta key of a batch, and the due zset
    task,           \* [Batches -> [Targets -> TaskStates]]: the targets hash, task keys
    listed,         \* [Batches -> SUBSET Targets]: the tasks hash
    mapping,        \* [Batches -> [Targets -> Transfers or 0]]: the dispatch state hash
    inflight,       \* [Targets -> Batches or 0]: the task a target is said to wait for
    openBatch,      \* the open pointer of the scope, 0 when there is none
    createLock,     \* who holds AsyncDownloadBatchCreateV2
    dispatchLock,   \* [Batches -> Servers or NoOne]: AsyncDownloadBatchDispatchV2
    request,        \* [Requests -> the CreateTask call under way]
    server,         \* [Servers -> the batch a tick works on]
    transfer,       \* GSE: the transfers it was given and how far they are
    \* history and bounds
    calls,          \* requests so far
    faults,         \* requests and ticks that stopped half-way
    disturbed,      \* batches that two actors worked on at a time (see Undisturbed)
    unpinned        \* targets whose inflight key was lost, or not read, under an open task

Batches == 1..MaxBatches
Transfers == 1..MaxTransfers
OpenStates == {"Pending", "Running"}
FinalStates == {"Success", "Failed", "Timeout"}
TaskStates == {"none"} \cup OpenStates \cup FinalStates
TerminalStates == {"Done", "Partial", "Failed"}

\* window: whether OpenUntil has passed; over once a batch is not collecting any more.
Metas == [state : {"none", "Collecting", "Dispatching"} \cup TerminalStates,
          window : {"open", "over"}, count : 0..MaxTargetsPerBatch]
Closed(state, count) == [state |-> state, window |-> "over", count |-> count]
Collecting(count) == [state |-> "Collecting", window |-> "open", count |-> count]

RequestStages == {"idle", "clear", "lock", "clearLocked", "choose", "join", "create", "add", "point"}
Calls == [pc : RequestStages, t : Targets \cup {NoOne}, b : {0} \cup Batches,
          count : 0..MaxTargetsPerBatch]
IdleCall == [pc |-> "idle", t |-> NoOne, b |-> 0, count |-> 0]

DispatchStages == {"save", "targets", "shards", "mark"}
RefreshStages == {"apply", "repair", "conclude"}
Results == {"none", "running", "ok", "failed"}
Works == [pc : {"idle", "finalize"} \cup DispatchStages \cup RefreshStages,
          b : {0} \cup Batches, count : 0..MaxTargetsPerBatch,   \* the batch, and its copy
          left : SUBSET Targets, shard : SUBSET Targets,         \* of a dispatch
          g : {0} \cup Transfers,
          seen : [Targets -> Results],                           \* of a refresh: what GSE said
          outcome : {"Dispatching"} \cup TerminalStates]
NoMap == [t \in Targets |-> 0]
NoneSeen == [t \in Targets |-> "none"]
Work(pc, b, count) == [pc |-> pc, b |-> b, count |-> count, left |-> {}, shard |-> {}, g |-> 0,
                       seen |-> NoneSeen, outcome |-> "Dispatching"]
Idle == Work("idle", 0, 0)

vars == <<batch, task, listed, mapping, inflight, openBatch, createLock, dispatchLock, request,
          server, transfer, calls, faults, disturbed, unpinned>>

TypeOK ==
    /\ batch \in [Batches -> Metas]
    /\ task \in [Batches -> [Targets -> TaskStates]]
    /\ listed \in [Batches -> SUBSET Targets]
    /\ mapping \in [Batches -> [Targets -> {0} \cup Transfers]]
    /\ inflight \in [Targets -> {0} \cup Batches]
    /\ openBatch \in {0} \cup Batches
    /\ createLock \in Requests \cup {NoOne}
    /\ dispatchLock \in [Batches -> Servers \cup {NoOne}]
    /\ request \in [Requests -> Calls]
    /\ server \in [Servers -> Works]
    /\ transfer \in [Transfers -> [b : {0} \cup Batches, result : [Targets -> Results]]]
    /\ calls \in 0..MaxCalls
    /\ faults \in 0..MaxFaults
    /\ disturbed \subseteq Batches
    /\ unpinned \subseteq Targets

Init ==
    /\ batch = [b \in Batches |-> Closed("none", 0)]
    /\ task = [b \in Batches |-> [t \in Targets |-> "none"]]
    /\ listed = [b \in Batches |-> {}]
    /\ mapping = [b \in Batches |-> NoMap]
    /\ inflight = NoMap
    /\ openBatch = 0
    /\ createLock = NoOne
    /\ dispatchLock = [b \in Batches |-> NoOne]
    /\ request = [r \in Requests |-> IdleCall]
    /\ server = [s \in Servers |-> Idle]
    /\ transfer = [g \in Transfers |-> [b |-> 0, result |-> NoneSeen]]
    /\ calls = 0
    /\ faults = 0
    /\ disturbed = {}
    /\ unpinned = {}

-----------------------------------------------------------------------------
(* CreateTask: service.go and the writes of store.go. *)

IsOpen(b, t) == b # 0 /\ task[b][t] \in OpenStates

\* The targets among ts whose inflight key names a task that has not ended.
Pinned(ts) == {t \in ts : IsOpen(inflight[t], t)}

Goto(r, pc) == request' = [request EXCEPT ![r].pc = pc]
Return(r) == request' = [request EXCEPT ![r] = IdleCall] /\ createLock' = NoOne

storeFrame == <<mapping, dispatchLock, server, transfer, calls, faults>>

\* tryReuseInflightTask returns no task: there is none, or it has ended and the key is to be
\* cleared.  If the task cannot be read the key is cleared as well; if the key cannot be read
\* the request goes on without it.
NothingToReuse(t, clears) ==
    \/ ~ IsOpen(inflight[t], t) /\ clears = (inflight[t] # 0) /\ UNCHANGED faults
    \/ (clears => inflight[t] # 0) /\ faults < MaxFaults /\ faults' = faults + 1

\* tryReuseInflightTask before the lock is taken.  A task that has not ended is the answer
\* and changes nothing.
Probe(r, t) ==
    /\ request[r].pc = "idle"
    /\ calls < MaxCalls
    /\ calls' = calls + 1
    /\ \E clears \in BOOLEAN :
         /\ NothingToReuse(t, clears)
         /\ request' = [request EXCEPT ![r] = [IdleCall EXCEPT
                          !.pc = IF clears THEN "clear" ELSE "lock", !.t = t]]
    /\ UNCHANGED <<mapping, dispatchLock, server, transfer, batch, task, listed, inflight,
                   openBatch, createLock, disturbed, unpinned>>

\* ClearInflightTaskID deletes the key, whatever it names by now.
ClearFinal(r) ==
    /\ request[r].pc \in {"clear", "clearLocked"}
    /\ LET t == request[r].t IN
         /\ inflight' = [inflight EXCEPT ![t] = 0]
         /\ unpinned' = unpinned \cup Pinned({t})
    /\ Goto(r, IF request[r].pc = "clear" THEN "lock" ELSE "choose")
    /\ UNCHANGED <<storeFrame, batch, task, listed, openBatch, createLock, disturbed>>

\* Mutant of Lock: the task another request has created meanwhile is not looked for.
LockOnly(r) ==
    /\ request[r].pc = "lock"
    /\ createLock = NoOne
    /\ createLock' = r
    /\ Goto(r, "choose")
    /\ UNCHANGED <<storeFrame, batch, task, listed, inflight, openBatch, disturbed, unpinned>>

\* Acquire, and tryReuseInflightTask again.
Lock(r) ==
    /\ request[r].pc = "lock"
    /\ createLock = NoOne
    /\ LET t == request[r].t IN
       \/ IsOpen(inflight[t], t) /\ Return(r) /\ UNCHANGED <<faults, unpinned>>
       \/ \E clears \in BOOLEAN :
            /\ NothingToReuse(t, clears)
            /\ createLock' = r
            /\ Goto(r, IF clears THEN "clearLocked" ELSE "choose")
            /\ unpinned' = unpinned \cup Pinned({t})
    /\ UNCHANGED <<mapping, dispatchLock, server, transfer, calls, batch, task, listed, inflight,
                   openBatch, disturbed>>

Joinable(b) == b # 0 /\ batch[b].state = "Collecting" /\ batch[b].window = "open"

\* createOrJoinBatch reads the open pointer and the batch it names.
Choose(r) ==
    /\ request[r].pc = "choose"
    /\ LET b == openBatch
           t == request[r].t IN
       \/ /\ Joinable(b) /\ task[b][t] # "none"
          /\ Return(r)
          /\ UNCHANGED openBatch
       \/ /\ Joinable(b) /\ task[b][t] = "none" /\ batch[b].count < MaxTargetsPerBatch
          /\ request' = [request EXCEPT ![r].pc = "join", ![r].b = b,
                                        ![r].count = batch[b].count + 1]
          /\ UNCHANGED <<openBatch, createLock>>
       \/ /\ Joinable(b) /\ task[b][t] = "none" /\ batch[b].count >= MaxTargetsPerBatch
          /\ \E c \in Batches : batch[c].state = "none"   \* the bound
          /\ Goto(r, "create") /\ openBatch' = 0
          /\ UNCHANGED createLock
       \/ /\ ~ Joinable(b)
          /\ \E c \in Batches : batch[c].state = "none"   \* the bound
          /\ Goto(r, "create")
          /\ UNCHANGED <<openBatch, createLock>>
    /\ UNCHANGED <<storeFrame, batch, task, listed, inflight, disturbed, unpinned>>

\* A request writes to a batch that some dispatcher has closed in the meantime.
Intrudes(b) == IF batch[b].state = "Collecting" THEN {} ELSE {b}

\* SaveBatch of the copy read in Choose: the batch collects again, whatever it did meanwhile.
SaveJoin(r) ==
    /\ request[r].pc = "join"
    /\ LET b == request[r].b IN
         /\ batch' = [batch EXCEPT ![b] = Collecting(request[r].count)]
         /\ disturbed' = disturbed \cup Intrudes(b)
    /\ Goto(r, "add")
    /\ UNCHANGED <<storeFrame, task, listed, inflight, openBatch, createLock, unpinned>>

\* SaveBatch of a new batch; count 0 marks it as new.
CreateBatch(r) ==
    /\ request[r].pc = "create"
    /\ \E b \in Batches :
         /\ \A c \in Batches : c < b <=> batch[c].state # "none"
         /\ batch' = [batch EXCEPT ![b] = Collecting(1)]
         /\ request' = [request EXCEPT ![r].pc = "add", ![r].b = b, ![r].count = 0]
    /\ UNCHANGED <<storeFrame, task, listed, inflight, openBatch, createLock, disturbed, unpinned>>

\* AddTaskToBatch, and the same writes of CreateBatchAndTask: the task in the targets hash, in
\* the tasks hash and in the inflight key.
AddTask(r) ==
    /\ request[r].pc = "add"
    /\ LET b == request[r].b
           t == request[r].t IN
         /\ task' = [task EXCEPT ![b][t] = "Pending"]
         /\ listed' = [listed EXCEPT ![b] = @ \cup {t}]
         /\ inflight' = [inflight EXCEPT ![t] = b]
         /\ disturbed' = disturbed \cup Intrudes(b)
    /\ Goto(r, "point")
    /\ UNCHANGED <<storeFrame, batch, openBatch, createLock, unpinned>>

\* The open pointer: set to a new batch, cleared when the joined one is full.
Point(r) ==
    /\ request[r].pc = "point"
    /\ openBatch' = IF request[r].count = 0 THEN request[r].b
                    ELSE IF request[r].count >= MaxTargetsPerBatch THEN 0 ELSE openBatch
    /\ Return(r)
    /\ UNCHANGED <<storeFrame, batch, task, listed, inflight, disturbed, unpinned>>

\* A Redis error or the end of the process, between two steps or between the writes of AddTask;
\* the lock is released, or runs out.
RequestFails(r) ==
    LET b == request[r].b
        t == request[r].t IN
    /\ request[r].pc # "idle"
    /\ faults < MaxFaults
    /\ faults' = faults + 1
    /\ request' = [request EXCEPT ![r] = IdleCall]
    /\ createLock' = IF createLock = r THEN NoOne ELSE createLock
    /\ \/ UNCHANGED <<task, listed, disturbed, unpinned>>
       \/ /\ request[r].pc = "add"
          /\ task' = [task EXCEPT ![b][t] = "Pending"]
          /\ \/ UNCHANGED listed
             \/ listed' = [listed EXCEPT ![b] = @ \cup {t}]
          /\ disturbed' = disturbed \cup Intrudes(b)
          /\ unpinned' = unpinned \cup {t}
    /\ UNCHANGED <<batch, mapping, inflight, openBatch, dispatchLock, server, transfer,
                   calls>>

RequestStep(r) ==
    \/ ClearFinal(r) \/ Lock(r) \/ Choose(r) \/ SaveJoin(r) \/ CreateBatch(r)
    \/ AddTask(r) \/ Point(r)

-----------------------------------------------------------------------------
(* ProcessDueBatches, first part: ProcessBatch of a batch whose window is over. *)

serviceFrame == <<createLock, request, calls, faults>>

Due(b) == batch[b].state = "Collecting" /\ batch[b].window = "over"
Dispatching(b) == batch[b].state = "Dispatching"

\* Mutant of TakeDueBatch: two servers may dispatch a batch at a time.
TakeDueBatchUnlocked(s, b) ==
    /\ server[s].pc = "idle"
    /\ Due(b)
    /\ server' = [server EXCEPT ![s] = Work("save", b, batch[b].count)]
    /\ UNCHANGED <<serviceFrame, batch, task, listed, mapping, inflight, openBatch, dispatchLock,
                   transfer, disturbed, unpinned>>

\* TryAcquire and GetBatch.  A batch that is not collecting any more is passed over.
TakeDueBatch(s, b) ==
    /\ server[s].pc = "idle"
    /\ Due(b)
    /\ dispatchLock[b] = NoOne
    /\ dispatchLock' = [dispatchLock EXCEPT ![b] = s]
    /\ server' = [server EXCEPT ![s] = Work("save", b, batch[b].count)]
    /\ UNCHANGED <<serviceFrame, batch, task, listed, mapping, inflight, openBatch, transfer,
                   disturbed, unpinned>>

\* SaveBatch of the copy, as dispatching and out of the due zset; then ClearOpenBatchID,
\* whatever batch the pointer names by now.
SaveDispatching(s) ==
    /\ server[s].pc = "save"
    /\ batch' = [batch EXCEPT ![server[s].b] = Closed("Dispatching", server[s].count)]
    /\ openBatch' = 0
    /\ server' = [server EXCEPT ![s].pc = "targets"]
    /\ UNCHANGED <<serviceFrame, task, listed, mapping, inflight, dispatchLock, transfer,
                   disturbed, unpinned>>

\* ListBatchTargets, and SaveBatch of the copy with its number of shards.
ListTargets(s) ==
    /\ server[s].pc = "targets"
    /\ LET b == server[s].b IN
         /\ server' = [server EXCEPT ![s].pc = "shards",
                                     ![s].left = {t \in Targets : task[b][t] # "none"}]
         /\ batch' = [batch EXCEPT ![b] = Closed("Dispatching", server[s].count)]
    /\ UNCHANGED <<serviceFrame, task, listed, mapping, inflight, openBatch, dispatchLock,
                   transfer, disturbed, unpinned>>

\* splitTargets.
IsShard(shard, left) ==
    /\ shard \subseteq left /\ shard # {}
    /\ Cardinality(shard) <= ShardSize
    /\ shard = left \/ Cardinality(shard) = ShardSize

\* updateTaskStateByTarget of some targets: it does not look at the state it overwrites.
Marked(b, ts, state) == [task EXCEPT ![b] = [t \in Targets |-> IF t \in ts THEN state ELSE @[t]]]

\* dispatchShard fails: without the source file the tasks stay as they are, after a refusal of
\* GSE they are failed, one after the other until a write fails.
ShardFails(s) ==
    /\ server[s].pc = "shards"
    /\ \E shard \in SUBSET server[s].left :
         /\ IsShard(shard, server[s].left)
         /\ server' = [server EXCEPT ![s].left = @ \ shard]
         /\ \E failed \in SUBSET shard : task' = Marked(server[s].b, failed, "Failed")
    /\ UNCHANGED <<serviceFrame, batch, listed, mapping, inflight, openBatch, dispatchLock,
                   transfer, disturbed, unpinned>>

\* dispatchShard up to the answer of GSE, which has begun a transfer.
TransferShard(s) ==
    /\ server[s].pc = "shards"
    /\ \E shard \in SUBSET server[s].left, g \in Transfers :
         /\ IsShard(shard, server[s].left)
         /\ \A h \in Transfers : h < g <=> transfer[h].b # 0
         /\ transfer' = [transfer EXCEPT ![g] =
               [b |-> server[s].b,
                result |-> [t \in Targets |-> IF t \in shard THEN "running" ELSE "none"]]]
         /\ server' = [server EXCEPT ![s].pc = "mark", ![s].left = @ \ shard,
                                     ![s].shard = shard, ![s].g = g]
    /\ UNCHANGED <<serviceFrame, batch, task, listed, mapping, inflight, openBatch, dispatchLock,
                   disturbed, unpinned>>

\* The tasks of the shard are running, and RecordBatchDispatch.
RecordShard(s) ==
    /\ server[s].pc = "mark"
    /\ LET b == server[s].b IN
         /\ task' = Marked(b, server[s].shard, "Running")
         /\ mapping' = [mapping EXCEPT ![b] = [t \in Targets |->
                          IF t \in server[s].shard THEN server[s].g ELSE @[t]]]
    /\ server' = [server EXCEPT ![s].pc = "shards", ![s].shard = {}, ![s].g = 0]
    /\ UNCHANGED <<serviceFrame, batch, listed, inflight, openBatch, dispatchLock, transfer,
                   disturbed, unpinned>>

\* Some tasks of the shard are running and the write of the next one fails: dispatchShard returns
\* no mapping, and the loop goes on with the next shard.
ShardUnrecorded(s) ==
    /\ server[s].pc = "mark"
    /\ faults < MaxFaults
    /\ faults' = faults + 1
    /\ \E marked \in SUBSET server[s].shard : task' = Marked(server[s].b, marked, "Running")
    /\ server' = [server EXCEPT ![s].pc = "shards", ![s].shard = {}, ![s].g = 0]
    /\ UNCHANGED <<batch, listed, mapping, inflight, openBatch, createLock, dispatchLock, request,
                   transfer, calls, disturbed, unpinned>>

Unlocked(s) == [b \in Batches |-> IF dispatchLock[b] = s THEN NoOne ELSE dispatchLock[b]]

EndDispatch(s) ==
    /\ server[s].pc = "shards" /\ server[s].left = {}
    /\ server' = [server EXCEPT ![s] = Idle]
    /\ dispatchLock' = Unlocked(s)
    /\ UNCHANGED <<serviceFrame, batch, task, listed, mapping, inflight, openBatch, transfer,
                   disturbed, unpinned>>

-----------------------------------------------------------------------------
(* ProcessDueBatches, second part: refreshDispatchingBatch of a dispatching batch. *)

Refreshing(s, b) == server[s].b = b /\ server[s].pc \in RefreshStages
DispatchedBy(s, b) == server[s].b = b /\ server[s].pc \in DispatchStages

\* GSE, external: the downloads that were running may have ended, well or not.  Nobody sees it
\* before somebody asks.
MayReport(old, new) == new = old \/ (old = "running" /\ new \in {"ok", "failed"})

\* GetBatch, ListBatchDispatchState and GetExtensionsTransferFileResult of every transfer in it.
\* GSE may fail to answer about one.  Only the transfer a target is mapped to tells about it; a
\* failed upload is a failure of all its targets.
AskGSE(s, b) ==
    /\ server[s].pc = "idle"
    /\ Dispatching(b)
    /\ \E answered \in SUBSET ({mapping[b][t] : t \in Targets} \ {0}),
          result \in [Targets -> Results] :
         /\ \A t \in Targets : IF mapping[b][t] \in answered
                                 THEN MayReport(transfer[mapping[b][t]].result[t], result[t])
                                 ELSE result[t] = "none"
         /\ transfer' = [g \in Transfers |-> [transfer[g] EXCEPT !.result =
              [t \in Targets |-> IF g \in answered /\ mapping[b][t] = g THEN result[t] ELSE @[t]]]]
         /\ server' = [server EXCEPT ![s] = [Work("apply", b, batch[b].count) EXCEPT !.seen = result]]
    /\ disturbed' = disturbed \cup {c \in {b} : \E o \in Servers \ {s} : Refreshing(o, b)}
    /\ UNCHANGED <<serviceFrame, batch, task, listed, mapping, inflight, openBatch, dispatchLock,
                   unpinned>>

\* Mutant of StateOf: a transfer under way is taken for a success.
StateOfHasty(result) == IF result \in {"ok", "running"} THEN "Success" ELSE "Failed"

\* Mutant of StateOf: a transfer under way is taken for one that has not begun.
StateOfWaiting(result) ==
    CASE result = "ok" -> "Success" [] result = "running" -> "Pending" [] OTHER -> "Failed"

\* The state a result gives to its task: codes 0, 115 and the others.
StateOf(result) ==
    CASE result = "ok" -> "Success" [] result = "running" -> "Running" [] OTHER -> "Failed"

\* Mutant of Derive: the state of the tasks is given to the batch.
DeriveTask(states) == IF {"Failed", "Timeout"} \cap states = {} THEN "Success" ELSE "Failed"

\* How a batch ended (deriveTerminalBatchState).
Derive(states) ==
    IF {"Failed", "Timeout"} \cap states = {} THEN "Done"
    ELSE IF "Success" \in states THEN "Partial" ELSE "Failed"

States(b, tasks) == {tasks[t] : t \in listed[b]}

\* applyDispatchResult of every result, then countBatchTaskStates: the batch has ended, goes on,
\* or is to be repaired.
Applied(s) == [t \in Targets |-> LET seen == server[s].seen[t] IN
                 IF seen = "none" THEN task[server[s].b][t] ELSE StateOf(seen)]
\* Mutant of HasEnded: tasks that were never handed to GSE are forgotten.
NoneRunning(s) == "Running" \notin States(server[s].b, Applied(s))

HasEnded(s) == States(server[s].b, Applied(s)) \cap OpenStates = {}

\* A change, or a transfer that still runs, renews the lease; otherwise, and in any case after
\* maxDispatchDuration, time may be up.
ApplyInTime(s) ==
    /\ server[s].pc = "apply"
    /\ LET b == server[s].b IN
         /\ task' = [task EXCEPT ![b] = Applied(s)]
         /\ server' = [server EXCEPT ![s] = [Work("conclude", b, server[s].count) EXCEPT
              !.outcome = IF HasEnded(s) THEN Derive(States(b, Applied(s))) ELSE "Dispatching"]]
    /\ UNCHANGED <<serviceFrame, batch, listed, mapping, inflight, openBatch, dispatchLock,
                   transfer, disturbed, unpinned>>

ApplyTooLate(s, b) ==
    /\ server[s].pc = "apply" /\ server[s].b = b
    /\ ~ HasEnded(s)
    /\ task' = [task EXCEPT ![b] = Applied(s)]
    /\ server' = [server EXCEPT ![s] = Work("repair", b, server[s].count)]
    /\ UNCHANGED <<serviceFrame, batch, listed, mapping, inflight, openBatch, dispatchLock,
                   transfer, disturbed, unpinned>>

\* Mutant of RepairTimeoutBatch: it ends the tasks that have ended as well.
RepairWholeBatch(s) ==
    /\ server[s].pc = "repair"
    /\ LET b == server[s].b IN
         /\ task' = Marked(b, listed[b], "Timeout")
         /\ server' = [server EXCEPT ![s] = [Work("conclude", b, batch[b].count) EXCEPT
                         !.outcome = "Failed"]]
         /\ disturbed' = disturbed \cup {c \in {b} : \E o \in Servers : DispatchedBy(o, b)}
    /\ UNCHANGED <<serviceFrame, batch, listed, mapping, inflight, openBatch, dispatchLock,
                   transfer, unpinned>>

StillOpen(b) == {t \in listed[b] : task[b][t] \in OpenStates}

\* RepairTimeoutBatch: reads the batch again and ends every task that is still open.
RepairTimeoutBatch(s) ==
    /\ server[s].pc = "repair"
    /\ LET b == server[s].b
           new == [t \in Targets |-> IF t \in StillOpen(b) THEN "Timeout" ELSE task[b][t]] IN
         /\ task' = [task EXCEPT ![b] = new]
         /\ server' = [server EXCEPT ![s] = [Work("conclude", b, batch[b].count) EXCEPT
                         !.outcome = Derive(States(b, new))]]
         /\ disturbed' = disturbed \cup {c \in {b} : \E o \in Servers : DispatchedBy(o, b)}
    /\ UNCHANGED <<serviceFrame, batch, listed, mapping, inflight, openBatch, dispatchLock,
                   transfer, unpinned>>

\* SaveBatch of the copy.
SaveOutcome(s) ==
    /\ server[s].pc = "conclude"
    /\ LET b == server[s].b
           outcome == server[s].outcome IN
         /\ batch' = [batch EXCEPT ![b] = Closed(outcome, server[s].count)]
         /\ server' = [server EXCEPT ![s] = IF outcome = "Dispatching" THEN Idle
                                            ELSE Work("finalize", b, 0)]
    /\ UNCHANGED <<serviceFrame, task, listed, mapping, inflight, openBatch, dispatchLock,
                   transfer, disturbed, unpinned>>

\* finalizeCompletedBatch deletes the inflight keys of the ended tasks and the open pointer,
\* whatever they name by now.
FinalizeBatch(s) ==
    /\ server[s].pc = "finalize"
    /\ LET b == server[s].b
           ended == {t \in listed[b] : task[b][t] \in FinalStates} IN
         /\ inflight' = [t \in Targets |-> IF t \in ended THEN 0 ELSE inflight[t]]
         /\ unpinned' = unpinned \cup Pinned(ended)
    /\ openBatch' = 0
    /\ server' = [server EXCEPT ![s] = Idle]
    /\ UNCHANGED <<serviceFrame, batch, task, listed, mapping, dispatchLock, transfer, disturbed>>

\* A server that has timed tasks out has not saved the end of their batch yet.
Repairing(s) == server[s].pc = "conclude" /\ "Timeout" \in States(server[s].b, task[server[s].b])

\* The states that a step of s would write one by one.
MayWrite(s, t, new) ==
    \/ server[s].pc = "mark" /\ t \in server[s].shard /\ new = "Running"
    \/ server[s].pc = "apply" /\ new = Applied(s)[t]
    \/ server[s].pc = "repair" /\ t \in StillOpen(server[s].b) /\ new = "Timeout"

\* A Redis error or a crash ends the tick; the lock is released, or runs out.  Any of the
\* tasks of the step may have been written.  A batch whose repair is cut short is left to the
\* next tick, which asks GSE about it again.
ServerFails(s) ==
    /\ server[s].pc # "idle"
    /\ faults < MaxFaults
    /\ faults' = faults + 1
    /\ server' = [server EXCEPT ![s] = Idle]
    /\ dispatchLock' = Unlocked(s)
    /\ \E new \in [Targets -> TaskStates] :
         /\ \A t \in Targets : new[t] = task[server[s].b][t] \/ MayWrite(s, t, new[t])
         /\ task' = [task EXCEPT ![server[s].b] = new]
    /\ disturbed' = disturbed \cup {b \in {server[s].b} :
                        Repairing(s) \/ (server[s].pc = "repair" /\ task' # task)}
    /\ UNCHANGED <<batch, listed, mapping, inflight, openBatch, createLock, request, transfer,
                   calls, unpinned>>

ServerStep(s) ==
    \/ SaveDispatching(s) \/ ListTargets(s) \/ ShardFails(s) \/ TransferShard(s)
    \/ RecordShard(s) \/ ShardUnrecorded(s) \/ EndDispatch(s) \/ ApplyInTime(s)
    \/ RepairTimeoutBatch(s) \/ SaveOutcome(s) \/ FinalizeBatch(s)

-----------------------------------------------------------------------------
(* Time. *)

\* OpenUntil passes.  The due zset keeps whole seconds: that a batch is due up to a second
\* before nobody may join it any more adds nothing to a request that has read it in time.
WindowEnds(b) ==
    /\ batch[b].state = "Collecting" /\ batch[b].window = "open"
    /\ batch' = [batch EXCEPT ![b].window = "over"]
    /\ UNCHANGED <<serviceFrame, task, listed, mapping, inflight, openBatch, dispatchLock, server,
                   transfer, disturbed, unpinned>>

-----------------------------------------------------------------------------
Next ==
    \/ \E r \in Requests : (\E t \in Targets : Probe(r, t)) \/ RequestStep(r) \/ RequestFails(r)
    \/ \E s \in Servers : ServerStep(s) \/ ServerFails(s)
    \/ \E s \in Servers, b \in Batches : TakeDueBatch(s, b) \/ AskGSE(s, b) \/ ApplyTooLate(s, b)
    \/ \E b \in Batches : WindowEnds(b)

Spec == Init /\ [][Next]_vars

-----------------------------------------------------------------------------
(* Properties. *)

\* The batches nothing raced in: no request wrote into one that a dispatcher had closed, no
\* repair ended one whose dispatcher was still at work or was itself cut short, and no two
\* servers refreshed one at a time.
Undisturbed == Batches \ disturbed

\* A task is a success only if a transfer of its batch brought the file to its target, although
\* batches are dispatched again and results arrive late.
SuccessIsDelivered ==
    \A b \in Batches, t \in Targets : task[b][t] = "Success" =>
        \E g \in Transfers : transfer[g].b = b /\ transfer[g].result[t] = "ok"

\* Once a batch has ended, so have its tasks, and its state tells how: done only if every one
\* is a success, failed only if none is.
TerminalTellsTasks ==
    \A b \in Undisturbed : batch[b].state \in TerminalStates =>
        /\ States(b, task[b]) \cap OpenStates = {}
        /\ batch[b].state = Derive(States(b, task[b]))

\* However many schedulers see a batch due, and whether or not they crash, it is handed to GSE
\* once for each target.
TransferredOnce ==
    \A b \in Undisturbed, t \in Targets :
        Cardinality({g \in Transfers : transfer[g].b = b /\ transfer[g].result[t] # "none"}) <= 1

\* A target has one open task, unless its inflight key was lost under an open task, or could
\* not be read.
OneOpenTask ==
    \A t \in Targets \ unpinned : Cardinality({b \in Undisturbed : IsOpen(b, t)}) <= 1

\* What was told once stays: a task that has ended keeps its state.
FinalStays ==
    [][\A b \in Batches \ disturbed', t \in Targets :
         task[b][t] \in FinalStates => task'[b][t] = task[b][t]]_vars

-----------------------------------------------------------------------------
(* Refinement. *)

\* How far a batch is, and its tasks, to who polls them.  A task whose request failed before it
\* was in the tasks hash is none of its batch.
Standing == [b \in Batches |-> IF b \in disturbed THEN "lost" ELSE batch[b].state]
Answers == [b \in Batches |-> [t \in Targets |->
              IF b \notin disturbed /\ t \in listed[b] THEN task[b][t] ELSE "none"]]

Download == INSTANCE DownloadBatch WITH state <- Standing, task <- Answers

\* Requests, dispatchers and refreshers that write keys from copies they read earlier, with late
\* answers, repairs and crashes in between, come to batches whose tasks go forward, and which end
\* once, as their tasks did.
ImplementsDownload == Download!Spec
=============================================================================
