---------------------- MODULE AsyncDownloadTasks_proof ----------------------
(***************************************************************************)
(* Theorems about the batches of AsyncDownload nothing raced in: what they *)
(* tell of their tasks when they end, that they hand every target to GSE   *)
(* once and change no task that has ended, and that a target waits for one *)
(* of them at a time.                                                      *)
(***************************************************************************)
EXTENDS AsyncDownload_proof, FiniteSetTheorems

-----------------------------------------------------------------------------
(* The invariant of an undisturbed batch. *)

\* GSE was not asked to bring the file to t for b.
Untransferred(b, t) == \A g \in Transfers : transfer[g].b = b => transfer[g].result[t] = "none"

\* A task nobody has dispatched.
Waits(b, t) == task[b][t] = "Pending" /\ mapping[b][t] = 0 /\ Untransferred(b, t)

\* No task of b was dispatched.
Fresh(b) == \A t \in Targets : /\ task[b][t] \in {"none", "Pending"}
                               /\ mapping[b][t] = 0 /\ Untransferred(b, t)

\* The tasks of b have ended, and outcome tells how.
Told(b, outcome) == /\ \A t \in listed[b] : task[b][t] \notin OpenStates
                    /\ outcome = Derive(States(b, task[b]))

\* s is about to save the end of b.
Ending(s, b) == /\ server[s].b = b /\ server[s].pc = "conclude"
                /\ server[s].outcome # "Dispatching"

\* Who dispatches a batch holds its lock, closed it before reading its targets, and the targets
\* it has not handed to GSE wait.
Dispatcher(s, b) == DispatchedBy(s, b) =>
    /\ dispatchLock[b] = s
    /\ server[s].pc = "save" <=> batch[b].state = "Collecting"
    /\ batch[b].state # "none"
    /\ server[s].pc = "targets" => Fresh(b)
    /\ server[s].pc \in {"shards", "mark"} => \A t \in server[s].left : Waits(b, t)
    /\ server[s].pc = "mark" =>
         \A t \in server[s].shard : /\ task[b][t] = "Pending" /\ mapping[b][t] = 0
                                   /\ t \notin server[s].left

\* Who refreshes a batch is alone, and what it has seen or is about to save is still so.
Refresher(s, b) == Refreshing(s, b) =>
    /\ batch[b].state = "Dispatching"
    /\ \A o \in Servers : Refreshing(o, b) => o = s
    /\ server[s].pc = "apply" => \A t \in Targets : server[s].seen[t] # "none" =>
         mapping[b][t] # 0 /\ transfer[mapping[b][t]].result[t] = server[s].seen[t]
    /\ Ending(s, b) => Told(b, server[s].outcome)

\* One transfer at most is for t.
Once(b, t) == \A g, h \in Transfers :
    /\ transfer[g].b = b /\ transfer[g].result[t] # "none"
    /\ transfer[h].b = b /\ transfer[h].result[t] # "none"
    => g = h

\* The task that has ended says what the transfer it is mapped to says; one that was timed out
\* belongs to a batch that has ended or is about to.
Reported(b, t) ==
    /\ mapping[b][t] # 0 =>
         /\ task[b][t] \notin {"none", "Pending"}
         /\ task[b][t] = "Success" => transfer[mapping[b][t]].result[t] = "ok"
         /\ task[b][t] = "Failed" => transfer[mapping[b][t]].result[t] = "failed"
    /\ task[b][t] = "Success" => mapping[b][t] # 0
    /\ task[b][t] = "Timeout" =>
         /\ t \in listed[b]
         /\ batch[b].state \in TerminalStates \/ \E s \in Servers : Ending(s, b)

StateInv(b) ==
    /\ batch[b].state \in {"none", "Collecting"} => Fresh(b)
    /\ batch[b].state \in TerminalStates => Told(b, batch[b].state)

BatchInv(b) == /\ StateInv(b)
               /\ \A t \in Targets : Reported(b, t) /\ Once(b, t)
               /\ \A s \in Servers : Dispatcher(s, b) /\ Refresher(s, b)

RaceInv == Inv /\ \A b \in Undisturbed : BatchInv(b)

-----------------------------------------------------------------------------
(* What a step leaves alone. *)

\* The transfers of b stay as they are.
TransfersKept(b) ==
    \A g \in Transfers :
        /\ transfer'[g].b = b <=> transfer[g].b = b
        /\ transfer[g].b = b => \A t \in Targets : transfer'[g].result[t] = transfer[g].result[t]

\* The dispatchers of b other than s keep its lock.
LocksKept(s, b) == \A o \in Servers \ {s} : dispatchLock[b] = o => dispatchLock'[b] = o

\* Nothing happens to b.
Apart(b) == /\ batch'[b].state = batch[b].state
            /\ task'[b] = task[b] /\ listed'[b] = listed[b] /\ mapping'[b] = mapping[b]
            /\ TransfersKept(b)

\* s works on nothing but c.
OnlyOn(s, c) == /\ \A o \in Servers \ {s} : server'[o] = server[o]
                /\ server[s].pc # "idle" => server[s].b = c
                /\ server'[s].pc # "idle" => server'[s].b = c

\* All a server does, as far as others can see it: it works on its batch.
ServerDoes(s, c) ==
    \/ server[s].b = c /\ (ServerStep(s) \/ ServerFails(s) \/ ApplyTooLate(s, c))
    \/ TakeDueBatch(s, c)
    \/ AskGSE(s, c)

LEMMA StagesBusy ==
  ASSUME NEW s \in Servers, NEW b \in Batches, Refreshing(s, b) \/ DispatchedBy(s, b)
  PROVE  server[s].pc # "idle" /\ server[s].b = b
BY DEF Refreshing, DispatchedBy, RefreshStages, DispatchStages

LEMMA StaysOnBatch ==
  ASSUME Typed, NEW s \in Servers, NEW c \in Batches, ServerDoes(s, c)
  PROVE  OnlyOn(s, c) /\ listed' = listed /\ disturbed \subseteq disturbed'
<1>1. server \in [Servers -> Works]
  BY DEF Typed, TypeOK
<1>2. \A o \in Servers \ {s} : server'[o] = server[o]
  BY <1>1 DEF ServerDoes, ServerStep, SaveDispatching, ListTargets, ShardFails, TransferShard,
              RecordShard, ShardUnrecorded, EndDispatch, ApplyInTime, ApplyTooLate,
              RepairTimeoutBatch, SaveOutcome, FinalizeBatch, ServerFails, TakeDueBatch, AskGSE
<1>3. server[s].pc # "idle" => server[s].b = c
  BY DEF ServerDoes, TakeDueBatch, AskGSE
<1>4. server'[s].pc # "idle" => server'[s].b = c
  <2>1. CASE TakeDueBatch(s, c) \/ AskGSE(s, c) \/ ApplyTooLate(s, c)
    <3>1. CASE TakeDueBatch(s, c) \/ ApplyTooLate(s, c)
      BY <1>1, <3>1 DEF TakeDueBatch, ApplyTooLate, Work
    <3>2. CASE AskGSE(s, c)
      <4>1. PICK result \in [Targets -> Results] :
              server' = [server EXCEPT ![s] = [Work("apply", c, batch[c].count) EXCEPT !.seen = result]]
        BY <3>2 DEF AskGSE
      <4>2. QED
        BY <1>1, <4>1 DEF Work
    <3>3. QED
      BY <2>1, <3>1, <3>2
  <2>2. CASE /\ server[s].b = c
             /\ SaveDispatching(s) \/ ListTargets(s) \/ RecordShard(s) \/ ShardUnrecorded(s)
    BY <1>1, <2>2 DEF SaveDispatching, ListTargets, RecordShard, ShardUnrecorded, Works
  <2>3. CASE server[s].b = c /\ ShardFails(s)
    <3>1. PICK left : server' = [server EXCEPT ![s].left = left]
      BY <2>3 DEF ShardFails
    <3>2. QED
      BY <1>1, <2>3, <3>1 DEF Works
  <2>4. CASE server[s].b = c /\ TransferShard(s)
    BY <1>1, <2>4 DEF TransferShard, Works
  <2>5. CASE server[s].b = c /\ (ApplyInTime(s) \/ RepairTimeoutBatch(s) \/ SaveOutcome(s))
    BY <1>1, <2>5 DEF ApplyInTime, RepairTimeoutBatch, SaveOutcome, Work, Idle
  <2>6. CASE EndDispatch(s) \/ FinalizeBatch(s) \/ ServerFails(s)
    BY <1>1, <2>6 DEF EndDispatch, FinalizeBatch, ServerFails, Idle, Work
  <2>7. QED
    BY <2>1, <2>2, <2>3, <2>4, <2>5, <2>6 DEF ServerDoes, ServerStep
<1>5. listed' = listed /\ disturbed \subseteq disturbed'
  BY DEF ServerDoes, ServerStep, SaveDispatching, ListTargets, ShardFails, TransferShard,
         RecordShard, ShardUnrecorded, EndDispatch, ApplyInTime, ApplyTooLate,
         RepairTimeoutBatch, SaveOutcome, FinalizeBatch, ServerFails, TakeDueBatch, AskGSE
<1>6. QED
  BY <1>2, <1>3, <1>4, <1>5 DEF OnlyOn

LEMMA OthersApart ==
  ASSUME Inv, NEW s \in Servers, NEW c \in Batches, ServerDoes(s, c)
  PROVE  /\ \A b \in Batches \ {c} : Apart(b)
         /\ \A b \in Batches : LocksKept(s, b)
<1>1. /\ server \in [Servers -> Works] /\ task \in [Batches -> [Targets -> TaskStates]]
      /\ mapping \in [Batches -> [Targets -> {0} \cup Transfers]]
      /\ transfer \in [Transfers -> [b : {0} \cup Batches, result : [Targets -> Results]]]
      /\ dispatchLock \in [Batches -> Servers \cup {NoOne}]
      /\ batch \in [Batches -> Metas] /\ 0 \notin Batches
      /\ server[s].pc # "idle" => server[s].b = c
  BY StaysOnBatch DEF Inv, Typed, TypeOK, Batches, OnlyOn
<1>2. \A b \in Batches \ {c} : batch'[b].state = batch[b].state
  BY <1>1 DEF ServerDoes, ServerStep, SaveDispatching, ListTargets, ShardFails, TransferShard,
              RecordShard, ShardUnrecorded, EndDispatch, ApplyInTime, ApplyTooLate,
              RepairTimeoutBatch, SaveOutcome, FinalizeBatch, ServerFails, TakeDueBatch, AskGSE
<1>3. \A b \in Batches \ {c} : task'[b] = task[b]
  <2>1. CASE ShardFails(s) \/ RecordShard(s) \/ ShardUnrecorded(s)
    <3>1. PICK ts, st : task' = Marked(server[s].b, ts, st)
      BY <2>1 DEF ShardFails, RecordShard, ShardUnrecorded
    <3>2. server[s].b = c
      BY <1>1, <2>1 DEF ShardFails, RecordShard, ShardUnrecorded
    <3>3. QED
      BY <1>1, <3>1, <3>2 DEF Marked
  <2>2. CASE ApplyInTime(s) \/ ApplyTooLate(s, c) \/ RepairTimeoutBatch(s) \/ ServerFails(s)
    <3>1. PICK new : task' = [task EXCEPT ![server[s].b] = new]
      BY <2>2 DEF ApplyInTime, ApplyTooLate, RepairTimeoutBatch, ServerFails
    <3>2. server[s].b = c
      BY <1>1, <2>2 DEF ApplyInTime, ApplyTooLate, RepairTimeoutBatch, ServerFails
    <3>3. QED
      BY <1>1, <3>1, <3>2
  <2>3. CASE task' = task
    BY <2>3
  <2>4. QED
    BY <2>1, <2>2, <2>3
       DEF ServerDoes, ServerStep, SaveDispatching, ListTargets, TransferShard, EndDispatch,
           SaveOutcome, FinalizeBatch, TakeDueBatch, AskGSE
<1>4. \A b \in Batches \ {c} : mapping'[b] = mapping[b]
  BY <1>1 DEF ServerDoes, ServerStep, SaveDispatching, ListTargets, ShardFails, TransferShard,
              RecordShard, ShardUnrecorded, EndDispatch, ApplyInTime, ApplyTooLate,
              RepairTimeoutBatch, SaveOutcome, FinalizeBatch, ServerFails, TakeDueBatch, AskGSE
<1>5. \A b \in Batches \ {c} : TransfersKept(b)
  <2>1. CASE transfer' = transfer
    BY <2>1 DEF TransfersKept
  <2>2. CASE TransferShard(s)
    <3>1. PICK shard \in SUBSET server[s].left, g \in Transfers :
            /\ \A h \in Transfers : h < g <=> transfer[h].b # 0
            /\ transfer' = [transfer EXCEPT ![g] =
                 [b |-> server[s].b,
                  result |-> [t \in Targets |-> IF t \in shard THEN "running" ELSE "none"]]]
      BY <2>2 DEF TransferShard
    <3>2. transfer[g].b = 0
      BY <3>1 DEF Transfers
    <3>3. transfer'[g].b = c /\ \A h \in Transfers \ {g} : transfer'[h] = transfer[h]
      BY <1>1, <2>2, <3>1 DEF TransferShard
    <3>4. QED
      BY <1>1, <3>2, <3>3 DEF TransfersKept
  <2>3. CASE AskGSE(s, c)
    <3>1. PICK answered \in SUBSET ({mapping[c][t] : t \in Targets} \ {0}),
               result \in [Targets -> Results] :
            transfer' = [g \in Transfers |-> [transfer[g] EXCEPT !.result =
              [t \in Targets |-> IF g \in answered /\ mapping[c][t] = g THEN result[t] ELSE @[t]]]]
      BY <2>3 DEF AskGSE
    <3>2. ASSUME NEW g \in Transfers
          PROVE  /\ transfer'[g].b = transfer[g].b
                 /\ \A t \in Targets : transfer[g].b # c =>
                      transfer'[g].result[t] = transfer[g].result[t]
      BY <1>1, <3>1 DEF Inv, Mapped
    <3>3. QED
      BY <3>2 DEF TransfersKept
  <2>4. QED
    BY <2>1, <2>2, <2>3
       DEF ServerDoes, ServerStep, SaveDispatching, ListTargets, ShardFails, RecordShard,
           ShardUnrecorded, EndDispatch, ApplyInTime, ApplyTooLate, RepairTimeoutBatch,
           SaveOutcome, FinalizeBatch, ServerFails, TakeDueBatch
<1>6. \A b \in Batches : LocksKept(s, b)
  <2>1. CASE dispatchLock' = dispatchLock
    BY <2>1 DEF LocksKept
  <2>2. CASE dispatchLock' = Unlocked(s)
    BY <1>1, <2>2 DEF LocksKept, Unlocked
  <2>3. CASE dispatchLock' = [dispatchLock EXCEPT ![c] = s] /\ dispatchLock[c] = NoOne
    BY <1>1, <2>3, TargetsAssumption DEF LocksKept
  <2>4. QED
    BY <2>1, <2>2, <2>3
       DEF ServerDoes, ServerStep, SaveDispatching, ListTargets, ShardFails, TransferShard,
           RecordShard, ShardUnrecorded, EndDispatch, ApplyInTime, ApplyTooLate,
           RepairTimeoutBatch, SaveOutcome, FinalizeBatch, ServerFails, TakeDueBatch, AskGSE
<1>7. listed' = listed
  BY StaysOnBatch DEF Inv
<1>8. QED
  BY <1>2, <1>3, <1>4, <1>5, <1>6, <1>7 DEF Apart

-----------------------------------------------------------------------------
(* What keeps the parts of the invariant. *)

\* The transfers of b that were begun stay as they are.
OldKept(b) ==
    \A g \in Transfers : transfer[g].b = b =>
        transfer'[g].b = b /\ \A t \in Targets : transfer'[g].result[t] = transfer[g].result[t]

LEMMA KeptOld == ASSUME NEW b, TransfersKept(b) PROVE OldKept(b)
BY DEF TransfersKept, OldKept

\* What is told of the tasks of b stays true when none but a pending one changes.
LEMMA ToldKept ==
  ASSUME NEW b \in Batches, NEW outcome, Told(b, outcome), listed[b] \subseteq Targets,
         listed'[b] = listed[b],
         \A t \in Targets : task'[b][t] = task[b][t] \/ task[b][t] = "Pending"
  PROVE  Told(b, outcome)'
<1>1. \A t \in listed[b] : task'[b][t] = task[b][t]
  BY DEF Told, OpenStates
<1>2. {task'[b][t] : t \in listed[b]} = {task[b][t] : t \in listed[b]}
  BY <1>1
<1>3. States(b, task[b])' = States(b, task[b])
  BY <1>2 DEF States
<1>4. QED
  BY <1>1, <1>3 DEF Told

LEMMA WaitsKept ==
  ASSUME NEW b \in Batches, TransfersKept(b), NEW t \in Targets,
         task'[b][t] = task[b][t], mapping'[b][t] = mapping[b][t]
  PROVE  /\ Untransferred(b, t) => Untransferred(b, t)'
         /\ Waits(b, t) => Waits(b, t)'
BY DEF TransfersKept, Untransferred, Waits

LEMMA FreshKept ==
  ASSUME NEW b \in Batches, TransfersKept(b), task'[b] = task[b], mapping'[b] = mapping[b],
         Fresh(b)
  PROVE  Fresh(b)'
BY DEF TransfersKept, Untransferred, Fresh

\* A server that refreshes b goes on doing so.
LEMMA RefresherKept ==
  ASSUME Inv, NEW b \in Batches, NEW o \in Servers, Refresher(o, b), server'[o] = server[o],
         \A p \in Servers : Refreshing(p, b)' => Refreshing(p, b),
         Refreshing(o, b) => batch'[b].state = "Dispatching",
         OldKept(b), listed'[b] = listed[b],
         \A t \in Targets : task'[b][t] = task[b][t] \/ task[b][t] = "Pending",
         \A t \in Targets : mapping[b][t] # 0 => mapping'[b][t] = mapping[b][t]
  PROVE  Refresher(o, b)'
<1> SUFFICES ASSUME Refreshing(o, b)' PROVE
       /\ batch'[b].state = "Dispatching"
       /\ \A p \in Servers : Refreshing(p, b)' => p = o
       /\ server'[o].pc = "apply" => \A t \in Targets : server'[o].seen[t] # "none" =>
            mapping'[b][t] # 0 /\ transfer'[mapping'[b][t]].result[t] = server'[o].seen[t]
       /\ Ending(o, b)' => Told(b, server[o].outcome)'
  BY DEF Refresher
<1>1. Refreshing(o, b)
  BY DEF Refreshing
<1>2. batch'[b].state = "Dispatching" /\ \A p \in Servers : Refreshing(p, b)' => p = o
  BY <1>1 DEF Refresher
<1>3. ASSUME server'[o].pc = "apply", NEW t \in Targets, server'[o].seen[t] # "none"
      PROVE  mapping'[b][t] # 0 /\ transfer'[mapping'[b][t]].result[t] = server'[o].seen[t]
  <2>1. mapping[b][t] # 0 /\ transfer[mapping[b][t]].result[t] = server[o].seen[t]
    BY <1>1, <1>3 DEF Refresher
  <2>2. mapping[b][t] \in Transfers /\ transfer[mapping[b][t]].b = b
    BY <2>1 DEF Inv, Mapped, Typed, TypeOK
  <2>3. QED
    BY <2>1, <2>2 DEF OldKept
<1>4. ASSUME Ending(o, b)' PROVE Told(b, server[o].outcome)'
  <2> DEFINE outcome == server[o].outcome
  <2>1. Told(b, outcome) /\ listed[b] \subseteq Targets
    BY <1>1, <1>4 DEF Refresher, Ending, Inv, Typed, TypeOK
  <2>2. server'[o].outcome = server[o].outcome
    OBVIOUS
  <2>3. PICK x : x = outcome
    OBVIOUS
  <2>4. Told(b, x)
    BY <2>1, <2>3
  <2> HIDE DEF outcome
  <2>5. Told(b, x)'
    BY <2>1, <2>4, ToldKept
  <2>6. x = server'[o].outcome
    BY <2>2, <2>3 DEF outcome
  <2>7. QED
    BY <2>5, <2>6 DEF Told
<1>5. QED
  BY <1>2, <1>3, <1>4

\* So does one that dispatches it.
LEMMA DispatcherKept ==
  ASSUME NEW b \in Batches, NEW o \in Servers, Dispatcher(o, b), server'[o] = server[o],
         dispatchLock[b] = o => dispatchLock'[b] = o,
         DispatchedBy(o, b) => /\ batch'[b].state = "Collecting" <=> batch[b].state = "Collecting"
                               /\ batch'[b].state # "none",
         \A t \in Targets : mapping[b][t] = 0 =>
            /\ task'[b][t] = task[b][t] /\ mapping'[b][t] = mapping[b][t]
            /\ Untransferred(b, t) => Untransferred(b, t)',
         server[o].left \subseteq Targets /\ server[o].shard \subseteq Targets
  PROVE  Dispatcher(o, b)'
<1> SUFFICES ASSUME DispatchedBy(o, b)' PROVE
       /\ dispatchLock'[b] = o
       /\ server'[o].pc = "save" <=> batch'[b].state = "Collecting"
       /\ batch'[b].state # "none"
       /\ server'[o].pc = "targets" => Fresh(b)'
       /\ server'[o].pc \in {"shards", "mark"} => \A t \in server'[o].left : Waits(b, t)'
       /\ server'[o].pc = "mark" =>
            \A t \in server'[o].shard : /\ task'[b][t] = "Pending" /\ mapping'[b][t] = 0
                                       /\ t \notin server'[o].left
  BY DEF Dispatcher
<1>1. DispatchedBy(o, b)
  BY DEF DispatchedBy
<1>2. Fresh(b) => Fresh(b)'
  BY DEF Fresh
<1>3. \A t \in Targets : Waits(b, t) => Waits(b, t)'
  BY DEF Waits
<1>4. QED
  BY <1>1, <1>2, <1>3 DEF Dispatcher

LEMMA ReportedKept ==
  ASSUME Inv, NEW b \in Batches, NEW t \in Targets, Reported(b, t), OldKept(b),
         task'[b][t] = task[b][t], mapping'[b][t] = mapping[b][t], listed'[b] = listed[b],
         task[b][t] = "Timeout" =>
            batch'[b].state \in TerminalStates \/ \E o \in Servers : Ending(o, b)'
  PROVE  Reported(b, t)'
<1>1. mapping[b][t] # 0 => transfer'[mapping[b][t]].result[t] = transfer[mapping[b][t]].result[t]
  <2>1. mapping[b][t] # 0 => mapping[b][t] \in Transfers /\ transfer[mapping[b][t]].b = b
    BY DEF Inv, Mapped, Typed, TypeOK
  <2>2. QED
    BY <2>1 DEF OldKept
<1>2. QED
  BY <1>1 DEF Reported

LEMMA OnceKept ==
  ASSUME NEW b \in Batches, NEW t \in Targets, TransfersKept(b), Once(b, t)
  PROVE  Once(b, t)'
BY DEF TransfersKept, Once

\* Nobody's work on b changes.
SameWork(b) ==
    \A o \in Servers :
        \/ server'[o] = server[o] /\ (dispatchLock[b] = o => dispatchLock'[b] = o)
        \/ /\ ~ Refreshing(o, b) /\ ~ DispatchedBy(o, b)
           /\ ~ Refreshing(o, b)' /\ ~ DispatchedBy(o, b)'

LEMMA ApartKeeps ==
  ASSUME Inv, NEW b \in Batches, BatchInv(b), Apart(b), SameWork(b)
  PROVE  BatchInv(b)'
<1>1. /\ TransfersKept(b) /\ OldKept(b) /\ listed[b] \subseteq Targets
      /\ \A o \in Servers : server[o].left \subseteq Targets /\ server[o].shard \subseteq Targets
  BY KeptOld DEF Apart, Inv, Typed, TypeOK, Works
<1>2. \A o \in Servers : Ending(o, b) => Ending(o, b)'
  BY DEF SameWork, Ending, Refreshing, RefreshStages
<1>3. StateInv(b)'
  <2>1. Fresh(b) => Fresh(b)'
    BY <1>1, FreshKept DEF Apart
  <2>2. \A x : Told(b, x) => Told(b, x)'
    BY <1>1, ToldKept DEF Apart
  <2>3. PICK x : x = batch[b].state
    OBVIOUS
  <2>4. x = batch'[b].state
    BY <2>3 DEF Apart
  <2>5. x \in TerminalStates => Told(b, x)'
    BY <2>2, <2>3 DEF BatchInv, StateInv
  <2>6. x \in {"none", "Collecting"} => Fresh(b)'
    BY <2>1, <2>3 DEF BatchInv, StateInv
  <2>7. QED
    BY <2>4, <2>5, <2>6 DEF StateInv, Told
<1>4. ASSUME NEW t \in Targets PROVE Reported(b, t)' /\ Once(b, t)'
  <2>1. task[b][t] = "Timeout" =>
            batch'[b].state \in TerminalStates \/ \E o \in Servers : Ending(o, b)'
    BY <1>2 DEF BatchInv, Reported, Apart
  <2>2. QED
    BY <1>1, <2>1, ReportedKept, OnceKept DEF BatchInv, Apart
<1>5. ASSUME NEW o \in Servers PROVE Dispatcher(o, b)' /\ Refresher(o, b)'
  <2>1. CASE server'[o] = server[o] /\ (dispatchLock[b] = o => dispatchLock'[b] = o)
    <3>1. \A p \in Servers : Refreshing(p, b)' => Refreshing(p, b)
      BY DEF SameWork, Refreshing
    <3>2. Refreshing(o, b) => batch'[b].state = "Dispatching"
      BY DEF BatchInv, Refresher, Apart
    <3>3. Refresher(o, b)'
      BY <1>1, <2>1, <3>1, <3>2, RefresherKept DEF BatchInv, Apart
    <3>4. DispatchedBy(o, b) => /\ batch'[b].state = "Collecting" <=> batch[b].state = "Collecting"
                                /\ batch'[b].state # "none"
      BY DEF BatchInv, Dispatcher, Apart
    <3>5. \A t \in Targets : mapping[b][t] = 0 =>
            /\ task'[b][t] = task[b][t] /\ mapping'[b][t] = mapping[b][t]
            /\ Untransferred(b, t) => Untransferred(b, t)'
      BY <1>1, WaitsKept DEF Apart
    <3>6. Dispatcher(o, b)'
      BY <1>1, <2>1, <3>4, <3>5, DispatcherKept DEF BatchInv
    <3>7. QED
      BY <3>3, <3>6
  <2>2. CASE ~ Refreshing(o, b)' /\ ~ DispatchedBy(o, b)'
    BY <2>2 DEF Dispatcher, Refresher
  <2>3. QED
    BY <2>1, <2>2 DEF SameWork
<1>6. QED
  BY <1>3, <1>4, <1>5 DEF BatchInv

-----------------------------------------------------------------------------
(* Requests, and time: a batch that collects. *)

LEMMA GathersKeeps ==
  ASSUME Inv, NEW b \in Batches, BatchInv(b), SameWork(b), Fresh(b)',
         batch[b].state \in {"none", "Collecting"}, batch'[b].state \in {"none", "Collecting"},
         batch[b].state = "Collecting" => batch'[b].state = "Collecting"
  PROVE  BatchInv(b)'
<1>1. StateInv(b)'
  BY DEF StateInv, TerminalStates
<1>2. ASSUME NEW t \in Targets PROVE Reported(b, t)' /\ Once(b, t)'
  BY DEF Fresh, Untransferred, Reported, Once
<1>3. ASSUME NEW o \in Servers PROVE Dispatcher(o, b)' /\ Refresher(o, b)'
  <2>1. ~ Refreshing(o, b)
    BY DEF BatchInv, Refresher
  <2>2. ~ Refreshing(o, b)'
    BY <2>1 DEF SameWork, Refreshing
  <2>3. CASE DispatchedBy(o, b)'
    <3>1. server'[o] = server[o] /\ (dispatchLock[b] = o => dispatchLock'[b] = o)
      BY <2>3 DEF SameWork
    <3>2. DispatchedBy(o, b) /\ Dispatcher(o, b)
      BY <2>3, <3>1 DEF DispatchedBy, BatchInv
    <3>3. dispatchLock[b] = o /\ server[o].pc = "save" /\ batch[b].state = "Collecting"
      BY <3>2 DEF Dispatcher
    <3>4. QED
      BY <2>2, <3>1, <3>3 DEF Dispatcher, Refresher
  <2>4. QED
    BY <2>2, <2>3 DEF Dispatcher, Refresher
<1>4. QED
  BY <1>1, <1>2, <1>3 DEF BatchInv

LEMMA RequestRaces ==
  ASSUME Inv, NEW r \in Requests,
         (\E t \in Targets : Probe(r, t)) \/ RequestStep(r) \/ RequestFails(r),
         NEW b \in Batches \ disturbed', b \notin disturbed => BatchInv(b)
  PROVE  BatchInv(b)'
<1>1. /\ server' = server /\ dispatchLock' = dispatchLock /\ transfer' = transfer
      /\ mapping' = mapping /\ disturbed \subseteq disturbed'
  BY DEF Probe, RequestStep, ClearFinal, Lock, Choose, SaveJoin, CreateBatch, AddTask, Point,
         RequestFails, storeFrame
<1>2. SameWork(b) /\ TransfersKept(b) /\ BatchInv(b)
  BY <1>1 DEF SameWork, TransfersKept
<1>3. /\ task \in [Batches -> [Targets -> TaskStates]] /\ listed \in [Batches -> SUBSET Targets]
      /\ batch \in [Batches -> Metas]
  BY DEF Inv, Typed, TypeOK
<1>4. CASE batch'[b].state = batch[b].state /\ task'[b] = task[b] /\ listed'[b] = listed[b]
  BY <1>1, <1>2, <1>4, ApartKeeps DEF Apart
<1>5. CASE SaveJoin(r) \/ CreateBatch(r)
  <2>1. task' = task /\ listed' = listed
    BY <1>5 DEF SaveJoin, CreateBatch
  <2>2. CASE batch'[b] # batch[b]
    <3>1. \/ SaveJoin(r) /\ request[r].b = b /\ batch'[b] = Collecting(request[r].count)
          \/ CreateBatch(r) /\ batch[b].state = "none" /\ batch'[b] = Collecting(1)
      <4>1. CASE SaveJoin(r)
        BY <1>3, <2>2, <4>1 DEF SaveJoin
      <4>2. CASE CreateBatch(r)
        <5>1. PICK c \in Batches : /\ \A d \in Batches : d < c <=> batch[d].state # "none"
                                  /\ batch' = [batch EXCEPT ![c] = Collecting(1)]
          BY <4>2 DEF CreateBatch
        <5>2. c = b
          BY <1>3, <2>2, <5>1
        <5>3. ~ (b < b)
          BY DEF Batches
        <5>4. QED
          BY <1>3, <4>2, <5>1, <5>2, <5>3
      <4>3. QED
        BY <1>5, <4>1, <4>2
    <3>2. batch[b].state \in {"none", "Collecting"}
      BY <3>1 DEF SaveJoin, Intrudes
    <3>3. batch'[b].state = "Collecting"
      BY <3>1 DEF Collecting
    <3>4. Fresh(b)'
      BY <1>1, <1>2, <2>1, <3>2, FreshKept DEF BatchInv, StateInv
    <3>5. QED
      BY <1>2, <3>2, <3>3, <3>4, GathersKeeps
  <2>3. QED
    BY <1>4, <2>1, <2>2
<1>6. CASE AddTask(r) \/ RequestFails(r)
  <2>1. batch' = batch
    BY <1>6 DEF AddTask, RequestFails
  <2>2. CASE task'[b] # task[b] \/ listed'[b] # listed[b]
    <3>1. /\ request[r].b = b /\ batch[b].state = "Collecting"
          /\ task' = [task EXCEPT ![b][request[r].t] = "Pending"]
      BY <1>3, <1>6, <2>2 DEF AddTask, RequestFails, Intrudes
    <3>2. Fresh(b)
      BY <1>2, <3>1 DEF BatchInv, StateInv
    <3>3. \A t \in Targets : task'[b][t] \in {"none", "Pending"}
      BY <1>3, <3>1, <3>2 DEF Fresh
    <3>4. Fresh(b)'
      BY <1>1, <3>2, <3>3 DEF Fresh, Untransferred
    <3>5. QED
      BY <1>2, <2>1, <3>1, <3>4, GathersKeeps
  <2>3. QED
    BY <1>4, <2>1, <2>2
<1>7. CASE \/ \E t \in Targets : Probe(r, t)
           \/ ClearFinal(r) \/ Lock(r) \/ Choose(r) \/ Point(r)
  BY <1>4, <1>7 DEF Probe, ClearFinal, Lock, Choose, Point
<1>8. QED
  BY <1>5, <1>6, <1>7 DEF RequestStep

-----------------------------------------------------------------------------
(* A server that dispatches a batch: the others leave it alone but to refresh it. *)

LEMMA OneDispatcher ==
  ASSUME NEW s \in Servers, NEW b \in Batches, BatchInv(b), OnlyOn(s, b),
         DispatchedBy(s, b) \/ dispatchLock[b] = NoOne
  PROVE  /\ \A o \in Servers \ {s} : ~ DispatchedBy(o, b) /\ ~ DispatchedBy(o, b)'
         /\ dispatchLock[b] = NoOne => ~ DispatchedBy(s, b)
<1>1. \A o \in Servers : DispatchedBy(o, b) => dispatchLock[b] = o /\ o # NoOne
  BY TargetsAssumption DEF BatchInv, Dispatcher
<1>2. QED
  BY <1>1 DEF OnlyOn, DispatchedBy

\* What a dispatcher may do to its batch.
DispatchMoves(b) ==
    /\ listed'[b] = listed[b] /\ OldKept(b)
    /\ \A t \in Targets : task'[b][t] = task[b][t] \/ task[b][t] = "Pending"
    /\ \A t \in Targets : mapping[b][t] # 0 => mapping'[b][t] = mapping[b][t]

LEMMA DispatchKeeps ==
  ASSUME Inv, NEW s \in Servers, NEW b \in Batches, BatchInv(b), OnlyOn(s, b),
         ~ Refreshing(s, b), ~ Refreshing(s, b)',
         DispatchedBy(s, b) \/ dispatchLock[b] = NoOne,
         batch[b].state = "Dispatching" => batch'[b].state = "Dispatching",
         DispatchMoves(b), Dispatcher(s, b)', StateInv(b)',
         \A t \in Targets : Reported(b, t)' /\ Once(b, t)'
  PROVE  BatchInv(b)'
<1>1. ASSUME NEW o \in Servers PROVE Refresher(o, b)'
  <2>1. CASE o = s
    BY <2>1 DEF Refresher
  <2>2. CASE o # s
    <3>1. server'[o] = server[o] /\ Refresher(o, b)
      BY <2>2 DEF OnlyOn, BatchInv
    <3>2. \A p \in Servers : Refreshing(p, b)' => Refreshing(p, b)
      BY DEF OnlyOn, Refreshing
    <3>3. Refreshing(o, b) => batch'[b].state = "Dispatching"
      BY <3>1 DEF Refresher
    <3>4. QED
      BY <3>1, <3>2, <3>3, RefresherKept DEF DispatchMoves
  <2>3. QED
    BY <2>1, <2>2
<1>2. ASSUME NEW o \in Servers PROVE Dispatcher(o, b)'
  BY OneDispatcher DEF Dispatcher
<1>3. QED
  BY <1>1, <1>2 DEF BatchInv

LEMMA FreshSays ==
  ASSUME NEW b \in Batches, Fresh(b)'
  PROVE  \A t \in Targets : Reported(b, t)' /\ Once(b, t)'
BY DEF Fresh, Untransferred, Reported, Once

\* The batch of s is undisturbed while s works on it.
OnIt(s, b) == /\ Inv /\ BatchInv(b) /\ OnlyOn(s, b) /\ LocksKept(s, b)
              /\ listed'[b] = listed[b]

LEMMA WorkFields ==
  ASSUME Inv, NEW s \in Servers
  PROVE  /\ server \in [Servers -> Works] /\ server[s] \in Works
         /\ server[s].left \subseteq Targets /\ server[s].shard \subseteq Targets
         /\ server[s].g \in {0} \cup Transfers /\ server[s].seen \in [Targets -> Results]
         /\ task \in [Batches -> [Targets -> TaskStates]]
         /\ listed \in [Batches -> SUBSET Targets]
         /\ mapping \in [Batches -> [Targets -> {0} \cup Transfers]]
         /\ dispatchLock \in [Batches -> Servers \cup {NoOne}]
         /\ batch \in [Batches -> Metas]
         /\ transfer \in [Transfers -> [b : {0} \cup Batches, result : [Targets -> Results]]]
<1>1. server \in [Servers -> Works] /\ server[s] \in Works
  BY DEF Inv, Typed, TypeOK
<1>2. QED
  BY <1>1 DEF Inv, Typed, TypeOK, Works

LEMMA TakeRaces ==
  ASSUME NEW s \in Servers, NEW b \in Batches, OnIt(s, b), TakeDueBatch(s, b)
  PROVE  BatchInv(b)'
<1>1. /\ UNCHANGED <<batch, task, mapping, transfer>> /\ server[s].pc = "idle"
      /\ batch[b].state = "Collecting" /\ dispatchLock[b] = NoOne
  BY DEF TakeDueBatch, Due
<1>2. server'[s].pc = "save" /\ server'[s].b = b /\ dispatchLock'[b] = s
  BY WorkFields DEF OnIt, TakeDueBatch, Work
<1>3. TransfersKept(b) /\ OldKept(b)
  BY <1>1, KeptOld DEF TransfersKept
<1>4. Fresh(b)'
  BY <1>1, <1>3, FreshKept DEF OnIt, BatchInv, StateInv
<1>5. StateInv(b)' /\ \A t \in Targets : Reported(b, t)' /\ Once(b, t)'
  BY <1>1, <1>4, FreshSays DEF StateInv, TerminalStates
<1>6. Dispatcher(s, b)'
  BY <1>1, <1>2 DEF Dispatcher
<1>7. DispatchMoves(b)
  BY <1>1, <1>3 DEF OnIt, DispatchMoves
<1>8. ~ Refreshing(s, b) /\ ~ Refreshing(s, b)'
  BY <1>1, <1>2 DEF Refreshing, RefreshStages
<1>9. QED
  BY <1>1, <1>5, <1>6, <1>7, <1>8, DispatchKeeps DEF OnIt

LEMMA SaveRaces ==
  ASSUME NEW s \in Servers, NEW b \in Batches, OnIt(s, b), server[s].b = b, SaveDispatching(s)
  PROVE  BatchInv(b)'
<1>1. /\ UNCHANGED <<task, mapping, transfer, dispatchLock>>
      /\ server[s].pc = "save" /\ DispatchedBy(s, b)
  BY DEF SaveDispatching, DispatchedBy, DispatchStages
<1>2. server'[s].pc = "targets" /\ server'[s].b = b /\ batch'[b].state = "Dispatching"
  BY WorkFields DEF OnIt, SaveDispatching, Works, Closed
<1>3. TransfersKept(b) /\ OldKept(b)
  BY <1>1, KeptOld DEF TransfersKept
<1>4. batch[b].state = "Collecting" /\ dispatchLock[b] = s
  BY <1>1 DEF OnIt, BatchInv, Dispatcher
<1>5. Fresh(b)'
  BY <1>1, <1>3, <1>4, FreshKept DEF OnIt, BatchInv, StateInv
<1>6. StateInv(b)' /\ \A t \in Targets : Reported(b, t)' /\ Once(b, t)'
  BY <1>2, <1>5, FreshSays DEF StateInv, TerminalStates
<1>7. Dispatcher(s, b)'
  BY <1>1, <1>2, <1>4, <1>5 DEF Dispatcher
<1>8. DispatchMoves(b)
  BY <1>1, <1>3 DEF OnIt, DispatchMoves
<1>9. ~ Refreshing(s, b) /\ ~ Refreshing(s, b)'
  BY <1>1, <1>2 DEF Refreshing, RefreshStages
<1>10. QED
  BY <1>1, <1>2, <1>6, <1>7, <1>8, <1>9, DispatchKeeps DEF OnIt

LEMMA ListRaces ==
  ASSUME NEW s \in Servers, NEW b \in Batches, OnIt(s, b), server[s].b = b, ListTargets(s)
  PROVE  BatchInv(b)'
<1>1. /\ UNCHANGED <<task, mapping, transfer, dispatchLock>>
      /\ server[s].pc = "targets" /\ DispatchedBy(s, b)
  BY DEF ListTargets, DispatchedBy, DispatchStages
<1>2. /\ server'[s].pc = "shards" /\ server'[s].b = b /\ batch'[b].state = "Dispatching"
      /\ server'[s].left = {t \in Targets : task[b][t] # "none"}
  BY WorkFields DEF OnIt, ListTargets, Works, Closed
<1>3. TransfersKept(b) /\ OldKept(b)
  BY <1>1, KeptOld DEF TransfersKept
<1>4. Fresh(b) /\ dispatchLock[b] = s
  BY <1>1 DEF OnIt, BatchInv, Dispatcher
<1>5. Fresh(b)'
  BY <1>1, <1>3, <1>4, FreshKept
<1>6. StateInv(b)' /\ \A t \in Targets : Reported(b, t)' /\ Once(b, t)'
  BY <1>2, <1>5, FreshSays DEF StateInv, TerminalStates
<1>7. Dispatcher(s, b)'
  <2>1. \A t \in server'[s].left : Waits(b, t)'
    BY <1>1, <1>2, <1>5 DEF Fresh, Waits
  <2>2. QED
    BY <1>1, <1>2, <1>4, <2>1 DEF Dispatcher
<1>8. DispatchMoves(b)
  BY <1>1, <1>3 DEF OnIt, DispatchMoves
<1>9. ~ Refreshing(s, b) /\ ~ Refreshing(s, b)'
  BY <1>1, <1>2 DEF Refreshing, RefreshStages
<1>10. QED
  BY <1>1, <1>2, <1>6, <1>7, <1>8, <1>9, DispatchKeeps DEF OnIt

\* The state of a batch that is dispatched, or was, says what it said.
LEMMA StateSays ==
  ASSUME NEW b \in Batches, Inv, BatchInv(b), DispatchMoves(b),
         batch'[b].state = batch[b].state, batch[b].state \notin {"none", "Collecting"}
  PROVE  StateInv(b)'
<1>1. listed[b] \subseteq Targets
  BY DEF Inv, Typed, TypeOK
<1>2. PICK x : x = batch[b].state
  OBVIOUS
<1>3. x \in TerminalStates => Told(b, x)
  BY <1>2 DEF BatchInv, StateInv
<1>4. x \in TerminalStates => Told(b, x)'
  BY <1>1, <1>3, ToldKept DEF DispatchMoves
<1>5. batch'[b].state = x
  BY <1>2
<1>6. QED
  BY <1>2, <1>4, <1>5 DEF StateInv, Told

\* What a tick that stops has written: some tasks of the shard, or some of the results.
LEMMA FailTasks ==
  ASSUME NEW s \in Servers, NEW b \in Batches, Inv, server[s].b = b, ServerFails(s),
         NEW t \in Targets
  PROVE  \/ task'[b][t] = task[b][t]
         \/ server[s].pc = "mark" /\ t \in server[s].shard /\ task'[b][t] = "Running"
         \/ server[s].pc = "apply" /\ task'[b][t] = Applied(s)[t]
         \/ server[s].pc = "repair" /\ b \in disturbed'
<1>1. PICK new : /\ \A u \in Targets : new[u] = task[b][u] \/ MayWrite(s, u, new[u])
                 /\ task' = [task EXCEPT ![b] = new]
  BY DEF ServerFails
<1>2. task'[b][t] = new[t]
  BY <1>1, WorkFields
<1>3. CASE new[t] = task[b][t]
  BY <1>2, <1>3
<1>4. CASE task'[b][t] # task[b][t] /\ server[s].pc = "repair"
  BY <1>4 DEF ServerFails
<1>5. QED
  BY <1>1, <1>2, <1>3, <1>4 DEF MayWrite

\* After a batch has ended its server writes no task.
LEMMA FinalFailApart ==
  ASSUME NEW s \in Servers, NEW b \in Batches, Inv, server[s].b = b, ServerFails(s),
         server[s].pc = "finalize"
  PROVE  task'[b] = task[b]
<1>1. PICK new \in [Targets -> TaskStates] :
        /\ \A u \in Targets : new[u] = task[b][u] \/ MayWrite(s, u, new[u])
        /\ task' = [task EXCEPT ![b] = new]
  BY DEF ServerFails
<1>2. \A u \in Targets : new[u] = task[b][u]
  BY <1>1 DEF MayWrite
<1>3. QED
  BY <1>1, <1>2, WorkFields

\* A tick that stops before its batch is dispatched, or after it.
LEMMA StopRaces ==
  ASSUME NEW s \in Servers, NEW b \in Batches, OnIt(s, b), DispatchedBy(s, b),
         EndDispatch(s) \/ ServerFails(s)
  PROVE  BatchInv(b)'
<1>1. UNCHANGED <<batch, mapping, transfer>> /\ server'[s].pc = "idle"
  BY WorkFields DEF OnIt, EndDispatch, ServerFails, Idle, Work
<1>2. ASSUME NEW t \in Targets
      PROVE  \/ task'[b][t] = task[b][t]
             \/ server[s].pc = "mark" /\ task[b][t] = "Pending" /\ task'[b][t] = "Running"
  <2>1. \/ task'[b][t] = task[b][t]
        \/ server[s].pc = "mark" /\ t \in server[s].shard /\ task'[b][t] = "Running"
    BY FailTasks DEF OnIt, EndDispatch, DispatchedBy, DispatchStages
  <2>2. QED
    BY <2>1 DEF OnIt, BatchInv, Dispatcher
<1>3. TransfersKept(b) /\ OldKept(b) /\ DispatchMoves(b)
  BY <1>1, <1>2, KeptOld DEF TransfersKept, OnIt, DispatchMoves
<1>4. ~ Refreshing(s, b) /\ ~ Refreshing(s, b)' /\ ~ DispatchedBy(s, b)'
  BY <1>1 DEF Refreshing, RefreshStages, DispatchedBy, DispatchStages
<1>5. StateInv(b)'
  <2>1. CASE batch[b].state \in {"none", "Collecting"}
    <3>1. server[s].pc = "save"
      BY <2>1 DEF OnIt, BatchInv, Dispatcher
    <3>2. Fresh(b)
      BY <2>1 DEF OnIt, BatchInv, StateInv
    <3>3. Fresh(b)'
      BY <1>1, <1>2, <1>3, <3>1, <3>2 DEF Fresh, TransfersKept, Untransferred
    <3>4. QED
      BY <1>1, <2>1, <3>3 DEF StateInv, TerminalStates
  <2>2. CASE batch[b].state \notin {"none", "Collecting"}
    BY <1>1, <1>3, <2>2, StateSays DEF OnIt
  <2>3. QED
    BY <2>1, <2>2
<1>6. ASSUME NEW t \in Targets PROVE Reported(b, t)' /\ Once(b, t)'
  <2>1. \A o \in Servers : Ending(o, b) => Ending(o, b)'
    BY <1>4 DEF OnIt, OnlyOn, Ending, Refreshing, RefreshStages
  <2>2. task[b][t] = "Timeout" =>
            batch'[b].state \in TerminalStates \/ \E o \in Servers : Ending(o, b)'
    BY <1>1, <2>1 DEF OnIt, BatchInv, Reported
  <2>3. CASE task'[b][t] = task[b][t]
    BY <1>1, <1>3, <2>2, <2>3, ReportedKept, OnceKept DEF OnIt, BatchInv
  <2>4. CASE task'[b][t] = "Running"
    BY <1>3, <2>4, OnceKept DEF OnIt, BatchInv, Reported
  <2>5. QED
    BY <1>2, <2>3, <2>4
<1>7. Dispatcher(s, b)'
  BY <1>4 DEF Dispatcher
<1>8. QED
  BY <1>1, <1>3, <1>4, <1>5, <1>6, <1>7, DispatchKeeps DEF OnIt

LEMMA ShardFailsRaces ==
  ASSUME NEW s \in Servers, NEW b \in Batches, OnIt(s, b), server[s].b = b, ShardFails(s)
  PROVE  BatchInv(b)'
<1>1. /\ UNCHANGED <<batch, mapping, transfer, dispatchLock>>
      /\ server[s].pc = "shards" /\ DispatchedBy(s, b)
  BY DEF ShardFails, DispatchedBy, DispatchStages
<1>2. PICK shard \in SUBSET server[s].left, failed \in SUBSET server[s].left :
        /\ failed \subseteq shard
        /\ server' = [server EXCEPT ![s].left = @ \ shard]
        /\ task' = Marked(b, failed, "Failed")
  BY DEF ShardFails
<1>3. server'[s].pc = "shards" /\ server'[s].b = b /\ server'[s].left = server[s].left \ shard
  BY <1>1, <1>2, WorkFields DEF OnIt, Works
<1>4. \A t \in Targets : task'[b][t] = IF t \in failed THEN "Failed" ELSE task[b][t]
  BY <1>2, WorkFields DEF OnIt, Marked
<1>5. /\ dispatchLock[b] = s /\ batch[b].state \notin {"none", "Collecting"}
      /\ \A t \in server[s].left : Waits(b, t)
  BY <1>1 DEF OnIt, BatchInv, Dispatcher
<1>6. TransfersKept(b) /\ OldKept(b)
  BY <1>1, KeptOld DEF TransfersKept
<1>7. DispatchMoves(b)
  BY <1>1, <1>4, <1>5, <1>6 DEF OnIt, DispatchMoves, Waits
<1>8. ASSUME NEW t \in Targets PROVE Reported(b, t)' /\ Once(b, t)'
  <2>1. CASE task'[b][t] = task[b][t]
    <3>1. \A o \in Servers : Ending(o, b) => Ending(o, b)'
      BY <1>1 DEF OnIt, OnlyOn, Ending
    <3>2. task[b][t] = "Timeout" =>
            batch'[b].state \in TerminalStates \/ \E o \in Servers : Ending(o, b)'
      BY <1>1, <3>1 DEF OnIt, BatchInv, Reported
    <3>3. QED
      BY <1>1, <1>6, <2>1, <3>2, ReportedKept, OnceKept DEF OnIt, BatchInv
  <2>2. CASE t \in failed /\ task'[b][t] = "Failed"
    <3>1. mapping'[b][t] = 0
      BY <1>1, <1>5, <2>2 DEF Waits
    <3>2. QED
      BY <1>6, <2>2, <3>1, OnceKept DEF OnIt, BatchInv, Reported
  <2>3. QED
    BY <1>4, <2>1, <2>2
<1>9. Dispatcher(s, b)'
  <2>1. ASSUME NEW t \in server'[s].left PROVE Waits(b, t)'
    <3>1. t \in Targets /\ t \notin shard /\ Waits(b, t)
      BY <1>3, <1>5, <2>1, WorkFields DEF OnIt
    <3>2. QED
      BY <1>1, <1>2, <1>4, <1>6, <3>1, WaitsKept
  <2>2. QED
    BY <1>1, <1>3, <1>5, <2>1 DEF Dispatcher
<1>10. StateInv(b)'
  BY <1>1, <1>5, <1>7, StateSays DEF OnIt
<1>11. ~ Refreshing(s, b) /\ ~ Refreshing(s, b)'
  BY <1>1, <1>3 DEF Refreshing, RefreshStages
<1>12. QED
  BY <1>1, <1>7, <1>8, <1>9, <1>10, <1>11, DispatchKeeps DEF OnIt

LEMMA TransferRaces ==
  ASSUME NEW s \in Servers, NEW b \in Batches, OnIt(s, b), server[s].b = b, TransferShard(s)
  PROVE  BatchInv(b)'
<1>1. /\ UNCHANGED <<batch, task, mapping, dispatchLock>>
      /\ server[s].pc = "shards" /\ DispatchedBy(s, b)
  BY DEF TransferShard, DispatchedBy, DispatchStages
<1>2. PICK shard \in SUBSET server[s].left, g \in Transfers :
        /\ \A h \in Transfers : h < g <=> transfer[h].b # 0
        /\ transfer' = [transfer EXCEPT ![g] =
             [b |-> server[s].b,
              result |-> [t \in Targets |-> IF t \in shard THEN "running" ELSE "none"]]]
        /\ server' = [server EXCEPT ![s].pc = "mark", ![s].left = @ \ shard,
                                    ![s].shard = shard, ![s].g = g]
  BY DEF TransferShard
<1>3. /\ server'[s].pc = "mark" /\ server'[s].b = b
      /\ server'[s].left = server[s].left \ shard /\ server'[s].shard = shard
  BY <1>2, WorkFields DEF OnIt, Works
<1>4. transfer[g].b = 0 /\ b # 0
  BY <1>2 DEF Transfers, Batches
<1>5. /\ \A h \in Transfers \ {g} : transfer'[h] = transfer[h]
      /\ transfer'[g].b = b
      /\ \A t \in Targets : transfer'[g].result[t] = IF t \in shard THEN "running" ELSE "none"
  BY <1>2, WorkFields DEF OnIt
<1>6. /\ dispatchLock[b] = s /\ batch[b].state \notin {"none", "Collecting"}
      /\ \A t \in server[s].left : Waits(b, t)
  BY <1>1 DEF OnIt, BatchInv, Dispatcher
<1>7. OldKept(b)
  BY <1>4, <1>5 DEF OldKept
<1>8. DispatchMoves(b)
  BY <1>1, <1>7 DEF OnIt, DispatchMoves
<1>9. ASSUME NEW t \in Targets PROVE Reported(b, t)' /\ Once(b, t)'
  <2>1. \A o \in Servers : Ending(o, b) => Ending(o, b)'
    BY <1>1 DEF OnIt, OnlyOn, Ending
  <2>2. task[b][t] = "Timeout" =>
          batch'[b].state \in TerminalStates \/ \E o \in Servers : Ending(o, b)'
    BY <1>1, <2>1 DEF OnIt, BatchInv, Reported
  <2>3. Reported(b, t)'
    BY <1>1, <1>7, <2>2, ReportedKept DEF OnIt, BatchInv
  <2>4. Once(b, t)'
    <3>1. CASE t \in shard
      <4>1. Untransferred(b, t)
        BY <1>2, <1>6, <3>1 DEF Waits
      <4>2. QED
        BY <1>5, <4>1 DEF Untransferred, Once
    <3>2. CASE t \notin shard
      BY <1>5, <3>2 DEF OnIt, BatchInv, Once
    <3>3. QED
      BY <3>1, <3>2
  <2>5. QED
    BY <2>3, <2>4
<1>10. Dispatcher(s, b)'
  <2>1. ASSUME NEW t \in server'[s].left PROVE Waits(b, t)'
    <3>1. t \in Targets /\ t \notin shard /\ Waits(b, t)
      BY <1>3, <1>6, <2>1, WorkFields DEF OnIt
    <3>2. QED
      BY <1>1, <1>5, <3>1 DEF Waits, Untransferred
  <2>2. \A t \in server'[s].shard : /\ task'[b][t] = "Pending" /\ mapping'[b][t] = 0
                                    /\ t \notin server'[s].left
    BY <1>1, <1>2, <1>3, <1>6 DEF Waits
  <2>3. QED
    BY <1>1, <1>3, <1>6, <2>1, <2>2 DEF Dispatcher
<1>11. StateInv(b)'
  BY <1>1, <1>6, <1>8, StateSays DEF OnIt
<1>12. ~ Refreshing(s, b) /\ ~ Refreshing(s, b)'
  BY <1>1, <1>3 DEF Refreshing, RefreshStages
<1>13. QED
  BY <1>1, <1>8, <1>9, <1>10, <1>11, <1>12, DispatchKeeps DEF OnIt

LEMMA RecordRaces ==
  ASSUME NEW s \in Servers, NEW b \in Batches, OnIt(s, b), server[s].b = b,
         RecordShard(s) \/ ShardUnrecorded(s)
  PROVE  BatchInv(b)'
<1> DEFINE shard == server[s].shard
<1>1. /\ UNCHANGED <<batch, transfer, dispatchLock>>
      /\ server[s].pc = "mark" /\ DispatchedBy(s, b)
  BY DEF RecordShard, ShardUnrecorded, DispatchedBy, DispatchStages
<1>2. /\ server'[s].pc = "shards" /\ server'[s].b = b /\ server'[s].left = server[s].left
  <2>1. server' = [server EXCEPT ![s].pc = "shards", ![s].shard = {}, ![s].g = 0]
    BY DEF RecordShard, ShardUnrecorded
  <2>2. QED
    BY <2>1, WorkFields DEF OnIt, Works
<1>3. PICK marked \in SUBSET shard : \A t \in Targets :
        /\ task'[b][t] = IF t \in marked THEN "Running" ELSE task[b][t]
        /\ t \notin marked => mapping'[b][t] = mapping[b][t]
  <2>1. CASE RecordShard(s)
    BY <2>1, WorkFields DEF OnIt, RecordShard, Marked
  <2>2. CASE ShardUnrecorded(s)
    <3>1. PICK marked \in SUBSET shard : task' = Marked(b, marked, "Running")
      BY <2>2 DEF ShardUnrecorded
    <3>2. mapping' = mapping
      BY <2>2 DEF ShardUnrecorded
    <3>3. QED
      BY <3>1, <3>2, WorkFields DEF OnIt, Marked
  <2>3. QED
    BY <2>1, <2>2
<1>4. /\ dispatchLock[b] = s /\ batch[b].state \notin {"none", "Collecting"}
      /\ \A t \in server[s].left : Waits(b, t)
      /\ \A t \in shard : task[b][t] = "Pending" /\ mapping[b][t] = 0 /\ t \notin server[s].left
  BY <1>1 DEF OnIt, BatchInv, Dispatcher
<1>5. TransfersKept(b) /\ OldKept(b)
  BY <1>1, KeptOld DEF TransfersKept
<1>6. DispatchMoves(b)
  BY <1>3, <1>4, <1>5 DEF OnIt, DispatchMoves
<1>7. ASSUME NEW t \in Targets PROVE Reported(b, t)' /\ Once(b, t)'
  <2>1. CASE t \notin marked
    <3>1. \A o \in Servers : Ending(o, b) => Ending(o, b)'
      BY <1>1 DEF OnIt, OnlyOn, Ending
    <3>2. task[b][t] = "Timeout" =>
            batch'[b].state \in TerminalStates \/ \E o \in Servers : Ending(o, b)'
      BY <1>1, <3>1 DEF OnIt, BatchInv, Reported
    <3>3. QED
      BY <1>3, <1>5, <2>1, <3>2, ReportedKept, OnceKept DEF OnIt, BatchInv
  <2>2. CASE t \in marked
    <3>1. task'[b][t] = "Running"
      BY <1>3, <2>2
    <3>2. QED
      BY <1>5, <3>1, OnceKept DEF OnIt, BatchInv, Reported
  <2>3. QED
    BY <2>1, <2>2
<1>8. Dispatcher(s, b)'
  <2>1. ASSUME NEW t \in server'[s].left PROVE Waits(b, t)'
    <3>1. t \in Targets /\ t \notin shard /\ Waits(b, t)
      BY <1>2, <1>4, <2>1, WorkFields DEF OnIt
    <3>2. task'[b][t] = task[b][t] /\ mapping'[b][t] = mapping[b][t]
      BY <1>3, <3>1
    <3>3. QED
      BY <1>5, <3>1, <3>2, WaitsKept
  <2>2. QED
    BY <1>1, <1>2, <1>4, <2>1 DEF Dispatcher
<1>9. StateInv(b)'
  BY <1>1, <1>4, <1>6, StateSays DEF OnIt
<1>10. ~ Refreshing(s, b) /\ ~ Refreshing(s, b)'
  BY <1>1, <1>2 DEF Refreshing, RefreshStages
<1>11. QED
  BY <1>1, <1>6, <1>7, <1>8, <1>9, <1>10, DispatchKeeps DEF OnIt

-----------------------------------------------------------------------------
(* A server that refreshes a batch: a dispatcher may still be at work on the tasks that wait. *)

LEMMA RefreshKeeps ==
  ASSUME NEW s \in Servers, NEW b \in Batches, OnIt(s, b),
         ~ DispatchedBy(s, b)', \A o \in Servers \ {s} : ~ Refreshing(o, b),
         batch[b].state = "Dispatching", batch'[b].state \notin {"none", "Collecting"},
         \A o \in Servers : DispatchedBy(o, b) =>
            \A t \in Targets : mapping[b][t] = 0 =>
               /\ task'[b][t] = task[b][t] /\ mapping'[b][t] = mapping[b][t]
               /\ Untransferred(b, t) => Untransferred(b, t)',
         StateInv(b)', Refresher(s, b)', \A t \in Targets : Reported(b, t)' /\ Once(b, t)'
  PROVE  BatchInv(b)'
<1>1. ASSUME NEW o \in Servers, o # s PROVE Dispatcher(o, b)' /\ Refresher(o, b)'
  <2>1. /\ server'[o] = server[o] /\ (dispatchLock[b] = o => dispatchLock'[b] = o)
        /\ Dispatcher(o, b) /\ ~ Refreshing(o, b)
        /\ server[o].left \subseteq Targets /\ server[o].shard \subseteq Targets
    BY <1>1, WorkFields DEF OnIt, OnlyOn, LocksKept, BatchInv
  <2>2. CASE DispatchedBy(o, b)
    <3>1. Dispatcher(o, b)'
      BY <2>1, <2>2, DispatcherKept
    <3>2. QED
      BY <2>1, <3>1 DEF Refresher, Refreshing
  <2>3. CASE ~ DispatchedBy(o, b)
    BY <2>1, <2>3 DEF Dispatcher, DispatchedBy, Refresher, Refreshing
  <2>4. QED
    BY <2>2, <2>3
<1>2. Dispatcher(s, b)'
  BY DEF Dispatcher
<1>3. QED
  BY <1>1, <1>2 DEF BatchInv

\* Who refreshes b alone finds no task timed out before it has saved the end of b.
LEMMA NoTimeout ==
  ASSUME NEW s \in Servers, NEW b \in Batches, BatchInv(b), ~ Ending(s, b),
         \A o \in Servers \ {s} : ~ Refreshing(o, b), batch[b].state = "Dispatching"
  PROVE  \A t \in Targets : task[b][t] # "Timeout"
<1>1. \A o \in Servers : ~ Ending(o, b)
  BY DEF Ending, Refreshing, RefreshStages
<1>2. batch[b].state \notin TerminalStates
  BY DEF TerminalStates
<1>3. QED
  BY <1>1, <1>2 DEF BatchInv, Reported

LEMMA AskRaces ==
  ASSUME NEW s \in Servers, NEW b \in Batches, OnIt(s, b), AskGSE(s, b), b \notin disturbed'
  PROVE  BatchInv(b)'
<1>1. /\ UNCHANGED <<batch, task, mapping>> /\ server[s].pc = "idle"
      /\ batch[b].state = "Dispatching"
      /\ \A o \in Servers \ {s} : ~ Refreshing(o, b)
  BY DEF AskGSE, Dispatching
<1>2. PICK answered \in SUBSET ({mapping[b][t] : t \in Targets} \ {0}),
           result \in [Targets -> Results] :
        /\ \A t \in Targets : IF mapping[b][t] \in answered
                                THEN MayReport(transfer[mapping[b][t]].result[t], result[t])
                                ELSE result[t] = "none"
        /\ transfer' = [g \in Transfers |-> [transfer[g] EXCEPT !.result =
             [t \in Targets |-> IF g \in answered /\ mapping[b][t] = g THEN result[t] ELSE @[t]]]]
        /\ server' = [server EXCEPT ![s] = [Work("apply", b, batch[b].count) EXCEPT !.seen = result]]
  BY DEF AskGSE
<1>3. /\ server'[s].pc = "apply" /\ server'[s].seen = result /\ server'[s].b = b
  BY <1>2, WorkFields DEF OnIt, Work
<1>4. ASSUME NEW g \in Transfers
      PROVE  /\ transfer'[g].b = transfer[g].b
             /\ \A t \in Targets :
                  transfer'[g].result[t] = IF g \in answered /\ mapping[b][t] = g
                                             THEN result[t] ELSE transfer[g].result[t]
  BY <1>2, WorkFields DEF OnIt
<1>5. ASSUME NEW g \in Transfers, NEW t \in Targets
      PROVE  MayReport(transfer[g].result[t], transfer'[g].result[t])
  <2>1. CASE g \in answered /\ mapping[b][t] = g
    <3>1. MayReport(transfer[mapping[b][t]].result[t], result[t])
      BY <1>2, <2>1
    <3>2. transfer'[g].result[t] = result[t]
      BY <1>4, <2>1
    <3>3. QED
      BY <2>1, <3>1, <3>2 DEF MayReport
  <2>2. CASE ~ (g \in answered /\ mapping[b][t] = g)
    BY <1>4, <2>2 DEF MayReport
  <2>3. QED
    BY <2>1, <2>2
<1>6. \A t \in Targets : mapping[b][t] # 0 => mapping[b][t] \in Transfers
  BY WorkFields DEF OnIt
<1>7. \A t \in Targets : task[b][t] # "Timeout"
  <2>1. ~ Ending(s, b)
    BY <1>1 DEF Ending
  <2>2. QED
    BY <1>1, <2>1, NoTimeout DEF OnIt
<1>8. ASSUME NEW t \in Targets PROVE Reported(b, t)' /\ Once(b, t)'
  <2>1. Reported(b, t)'
    BY <1>1, <1>5, <1>6, <1>7 DEF OnIt, BatchInv, Reported, MayReport
  <2>2. ASSUME NEW g \in Transfers, transfer'[g].result[t] # "none"
        PROVE  transfer[g].result[t] # "none"
    BY <1>5, <2>2 DEF MayReport
  <2>3. Once(b, t)'
    BY <1>4, <2>2 DEF OnIt, BatchInv, Once
  <2>4. QED
    BY <2>1, <2>3
<1>9. Refresher(s, b)'
  <2>1. \A o \in Servers : Refreshing(o, b)' => o = s
    BY <1>1 DEF OnIt, OnlyOn, Refreshing
  <2>2. ASSUME NEW t \in Targets, result[t] # "none"
        PROVE  mapping'[b][t] # 0 /\ transfer'[mapping'[b][t]].result[t] = result[t]
    BY <1>1, <1>2, <1>4, <1>6, <2>2
  <2>3. ~ Ending(s, b)'
    BY <1>3 DEF Ending
  <2>4. QED
    BY <1>1, <1>3, <2>1, <2>2, <2>3 DEF Refresher
<1>10. \A t \in Targets : mapping[b][t] = 0 => (Untransferred(b, t) => Untransferred(b, t)')
  BY <1>4, <1>6 DEF Untransferred, Transfers
<1>11. StateInv(b)' /\ ~ DispatchedBy(s, b)'
  BY <1>1, <1>3 DEF StateInv, TerminalStates, DispatchedBy, DispatchStages
<1>12. QED
  BY <1>1, <1>8, <1>9, <1>10, <1>11, RefreshKeeps

\* What the refresher of an undisturbed batch knows.
LEMMA RefreshFacts ==
  ASSUME NEW s \in Servers, NEW b \in Batches, OnIt(s, b), Refreshing(s, b)
  PROVE  /\ batch[b].state = "Dispatching"
         /\ \A o \in Servers \ {s} : ~ Refreshing(o, b)
         /\ \A o \in Servers : Refreshing(o, b)' => o = s
         /\ ~ DispatchedBy(s, b)
BY DEF OnIt, BatchInv, Refresher, OnlyOn, Refreshing, RefreshStages, DispatchedBy, DispatchStages

\* A result that is written tells what its transfer has told.
LEMMA AppliedReported ==
  ASSUME NEW s \in Servers, NEW b \in Batches, OnIt(s, b), Refreshing(s, b),
         server[s].pc = "apply", UNCHANGED <<mapping, transfer>>, NEW t \in Targets,
         task[b][t] # "Timeout", task'[b][t] = Applied(s)[t]
  PROVE  Reported(b, t)' /\ (mapping[b][t] = 0 => task'[b][t] = task[b][t])
<1>1. /\ server[s].b = b
      /\ server[s].seen[t] # "none" =>
           mapping[b][t] # 0 /\ transfer[mapping[b][t]].result[t] = server[s].seen[t]
  BY DEF OnIt, BatchInv, Refresher, Refreshing
<1>2. task'[b][t] = IF server[s].seen[t] = "none" THEN task[b][t] ELSE StateOf(server[s].seen[t])
  BY <1>1 DEF Applied
<1>3. CASE server[s].seen[t] = "none"
  BY <1>2, <1>3 DEF OnIt, BatchInv, Reported
<1>4. CASE server[s].seen[t] # "none"
  <2>1. server[s].seen[t] \in {"running", "ok", "failed"}
    BY <1>4, WorkFields DEF OnIt, Results
  <2>2. QED
    BY <1>1, <1>2, <1>4, <2>1 DEF OnIt, BatchInv, Reported, StateOf
<1>5. QED
  BY <1>3, <1>4

LEMMA ApplyRaces ==
  ASSUME NEW s \in Servers, NEW b \in Batches, OnIt(s, b), server[s].b = b,
         ApplyInTime(s) \/ ApplyTooLate(s, b)
  PROVE  BatchInv(b)'
<1>1. /\ UNCHANGED <<batch, mapping, transfer>>
      /\ server[s].pc = "apply" /\ Refreshing(s, b) /\ task' = [task EXCEPT ![b] = Applied(s)]
  BY DEF ApplyInTime, ApplyTooLate, Refreshing, RefreshStages
<1>2. task'[b] = Applied(s)
  BY <1>1, WorkFields DEF OnIt
<1>3. \A t \in Targets : task'[b][t] = IF server[s].seen[t] = "none" THEN task[b][t]
                                       ELSE StateOf(server[s].seen[t])
  BY <1>2 DEF Applied
<1>4. /\ batch[b].state = "Dispatching" /\ \A o \in Servers \ {s} : ~ Refreshing(o, b)
      /\ \A o \in Servers : Refreshing(o, b)' => o = s
  BY <1>1, RefreshFacts
<1>5. \A t \in Targets : server[s].seen[t] # "none" =>
         mapping[b][t] # 0 /\ transfer[mapping[b][t]].result[t] = server[s].seen[t]
  BY <1>1 DEF OnIt, BatchInv, Refresher
<1>6. \A t \in Targets : task[b][t] # "Timeout"
  <2>1. ~ Ending(s, b)
    BY <1>1 DEF Ending
  <2>2. QED
    BY <1>4, <2>1, NoTimeout DEF OnIt
<1>7. TransfersKept(b)
  BY <1>1 DEF TransfersKept
<1>8. ASSUME NEW t \in Targets PROVE Reported(b, t)' /\ Once(b, t)'
  BY <1>1, <1>2, <1>6, <1>7, AppliedReported, OnceKept DEF OnIt, BatchInv
<1>9. server'[s].b = b /\ server'[s].pc \in {"conclude", "repair"}
  BY WorkFields DEF OnIt, ApplyInTime, ApplyTooLate, Work
<1>10. Ending(s, b)' => Told(b, server[s].outcome)'
  <2>1. CASE ApplyTooLate(s, b)
    BY <2>1, WorkFields DEF OnIt, ApplyTooLate, Work, Ending
  <2>2. CASE ApplyInTime(s)
    <3>1. server'[s].outcome = IF HasEnded(s) THEN Derive(States(b, Applied(s))) ELSE "Dispatching"
      BY <2>2, WorkFields DEF OnIt, ApplyInTime, Work
    <3>2. ASSUME Ending(s, b)' PROVE Told(b, server[s].outcome)'
      <4>1. HasEnded(s) /\ server'[s].outcome = Derive(States(b, Applied(s)))
        BY <3>1, <3>2 DEF Ending
      <4>2. \A t \in listed[b] : Applied(s)[t] \notin OpenStates
        BY <4>1 DEF HasEnded, States
      <4>3. States(b, task[b])' = States(b, Applied(s))
        BY <1>2 DEF OnIt, States
      <4>4. QED
        BY <1>2, <4>1, <4>2, <4>3 DEF OnIt, Told
    <3>3. QED
      BY <3>2
  <2>3. QED
    BY <2>1, <2>2
<1>11. Refresher(s, b)'
  BY <1>1, <1>4, <1>9, <1>10 DEF Refresher
<1>12. \A t \in Targets : mapping[b][t] = 0 =>
         /\ task'[b][t] = task[b][t] /\ mapping'[b][t] = mapping[b][t]
         /\ Untransferred(b, t) => Untransferred(b, t)'
  BY <1>1, <1>3, <1>5 DEF Untransferred
<1>13. StateInv(b)' /\ ~ DispatchedBy(s, b)'
  BY <1>1, <1>4, <1>9 DEF StateInv, TerminalStates, DispatchedBy, DispatchStages
<1>14. QED
  BY <1>1, <1>4, <1>8, <1>11, <1>12, <1>13, RefreshKeeps

LEMMA RepairRaces ==
  ASSUME NEW s \in Servers, NEW b \in Batches, OnIt(s, b), server[s].b = b,
         RepairTimeoutBatch(s), b \notin disturbed'
  PROVE  BatchInv(b)'
<1> DEFINE open == StillOpen(b)
           new == [t \in Targets |-> IF t \in open THEN "Timeout" ELSE task[b][t]]
<1>1. /\ UNCHANGED <<batch, mapping, transfer>>
      /\ server[s].pc = "repair" /\ Refreshing(s, b) /\ task' = [task EXCEPT ![b] = new]
      /\ \A o \in Servers : ~ DispatchedBy(o, b)
  BY DEF RepairTimeoutBatch, Refreshing, RefreshStages
<1>2. task'[b] = new
  BY <1>1, WorkFields DEF OnIt
<1>3. /\ batch[b].state = "Dispatching" /\ \A o \in Servers \ {s} : ~ Refreshing(o, b)
      /\ \A o \in Servers : Refreshing(o, b)' => o = s
  BY <1>1, RefreshFacts
<1>4. /\ server'[s].b = b /\ server'[s].pc = "conclude"
      /\ server'[s].outcome = Derive(States(b, new))
  BY WorkFields DEF OnIt, RepairTimeoutBatch, Work
<1>5. server'[s].outcome # "Dispatching" /\ Ending(s, b)'
  BY <1>4, DeriveType DEF TerminalStates, Ending
<1>6. listed[b] \subseteq Targets /\ listed'[b] = listed[b]
  BY WorkFields DEF OnIt
<1>7. TransfersKept(b)
  BY <1>1 DEF TransfersKept
<1>8. ASSUME NEW t \in Targets PROVE Reported(b, t)' /\ Once(b, t)'
  <2>1. CASE t \in open
    <3>1. task'[b][t] = "Timeout" /\ t \in listed'[b] /\ task[b][t] \in OpenStates
      BY <1>2, <1>6, <2>1 DEF StillOpen
    <3>2. QED
      BY <1>1, <1>5, <1>7, <3>1, OnceKept DEF OnIt, BatchInv, Reported, OpenStates
  <2>2. CASE t \notin open
    <3>1. task'[b][t] = task[b][t]
      BY <1>2, <2>2
    <3>2. OldKept(b)
      BY <1>7, KeptOld
    <3>3. QED
      BY <1>1, <1>5, <1>6, <1>7, <3>1, <3>2, ReportedKept, OnceKept DEF OnIt, BatchInv
  <2>3. QED
    BY <2>1, <2>2
<1>9. Told(b, server[s].outcome)'
  <2>1. \A t \in listed[b] : new[t] \notin OpenStates
    BY <1>6 DEF OpenStates, StillOpen
  <2>2. States(b, task[b])' = States(b, new)
    BY <1>2, <1>6 DEF States
  <2>3. QED
    BY <1>2, <1>4, <1>6, <2>1, <2>2 DEF Told
<1>10. Refresher(s, b)'
  BY <1>1, <1>3, <1>4, <1>9 DEF Refresher
<1>11. StateInv(b)' /\ ~ DispatchedBy(s, b)'
  BY <1>1, <1>3, <1>4 DEF StateInv, TerminalStates, DispatchedBy, DispatchStages
<1>12. QED
  BY <1>1, <1>3, <1>8, <1>10, <1>11, RefreshKeeps

LEMMA OutcomeRaces ==
  ASSUME NEW s \in Servers, NEW b \in Batches, OnIt(s, b), server[s].b = b, SaveOutcome(s)
  PROVE  BatchInv(b)'
<1> DEFINE outcome == server[s].outcome
<1>1. /\ UNCHANGED <<task, mapping, transfer>>
      /\ server[s].pc = "conclude" /\ Refreshing(s, b)
  BY DEF SaveOutcome, Refreshing, RefreshStages
<1>2. /\ batch[b].state = "Dispatching" /\ \A o \in Servers \ {s} : ~ Refreshing(o, b)
      /\ \A o \in Servers : Refreshing(o, b)' => o = s
  BY <1>1, RefreshFacts
<1>3. batch'[b].state = outcome /\ outcome \in {"Dispatching"} \cup TerminalStates
  BY WorkFields DEF OnIt, SaveOutcome, Closed, Works
<1>4. server'[s].pc \in {"idle", "finalize"}
  BY WorkFields DEF OnIt, SaveOutcome, Idle, Work
<1>5. ~ Refreshing(s, b)' /\ ~ DispatchedBy(s, b)'
  BY <1>4 DEF Refreshing, RefreshStages, DispatchedBy, DispatchStages
<1>6. TransfersKept(b) /\ OldKept(b)
  BY <1>1, KeptOld DEF TransfersKept
<1>7. outcome # "Dispatching" => Told(b, outcome)
  BY <1>1 DEF OnIt, BatchInv, Refresher, Ending
<1>8. StateInv(b)'
  <2>1. CASE outcome = "Dispatching"
    BY <1>3, <2>1 DEF StateInv, TerminalStates
  <2>2. CASE outcome # "Dispatching"
    <3>1. PICK x : x = outcome
      OBVIOUS
    <3>2. Told(b, x) /\ listed[b] \subseteq Targets /\ listed'[b] = listed[b]
      BY <1>7, <2>2, <3>1, WorkFields DEF OnIt
    <3>3. Told(b, x)'
      BY <1>1, <3>2, ToldKept
    <3>4. batch'[b].state = x /\ x \in TerminalStates
      BY <1>3, <2>2, <3>1
    <3>5. QED
      BY <3>3, <3>4 DEF StateInv, Told, TerminalStates
  <2>3. QED
    BY <2>1, <2>2
<1>9. ASSUME NEW t \in Targets PROVE Reported(b, t)' /\ Once(b, t)'
  <2>1. task[b][t] = "Timeout" => batch'[b].state \in TerminalStates
    <3>1. CASE outcome = "Dispatching"
      <4>1. ~ Ending(s, b)
        BY <3>1 DEF Ending
      <4>2. QED
        BY <1>2, <4>1, NoTimeout DEF OnIt
    <3>2. CASE outcome # "Dispatching"
      BY <1>3, <3>2
    <3>3. QED
      BY <3>1, <3>2
  <2>2. QED
    BY <1>1, <1>6, <2>1, ReportedKept, OnceKept DEF OnIt, BatchInv
<1>10. Refresher(s, b)'
  BY <1>5 DEF Refresher
<1>11. \A t \in Targets : Untransferred(b, t) => Untransferred(b, t)'
  BY <1>6 DEF TransfersKept, Untransferred
<1>12. batch'[b].state \notin {"none", "Collecting"}
  BY <1>3 DEF TerminalStates
<1> HIDE DEF outcome
<1>13. QED
  BY <1>1, <1>2, <1>5, <1>8, <1>9, <1>10, <1>11, <1>12, RefreshKeeps

\* A refresh that stops half-way has timed no task out, or it disturbs the batch.
LEMMA RefreshFailsRaces ==
  ASSUME NEW s \in Servers, NEW b \in Batches, OnIt(s, b), Refreshing(s, b), ServerFails(s),
         b \notin disturbed'
  PROVE  BatchInv(b)'
<1>1. UNCHANGED <<batch, mapping, transfer>> /\ server'[s].pc = "idle" /\ ~ Repairing(s)
  BY WorkFields DEF OnIt, ServerFails, Idle, Work, Refreshing
<1>2. /\ batch[b].state = "Dispatching" /\ \A o \in Servers \ {s} : ~ Refreshing(o, b)
      /\ \A o \in Servers : Refreshing(o, b)' => o = s
  BY RefreshFacts
<1>3. ~ Refreshing(s, b)' /\ ~ DispatchedBy(s, b)'
  BY <1>1 DEF Refreshing, RefreshStages, DispatchedBy, DispatchStages
<1>4. TransfersKept(b) /\ OldKept(b)
  BY <1>1, KeptOld DEF TransfersKept
<1>5. \A t \in Targets : task[b][t] # "Timeout"
  <2>1. CASE ~ Ending(s, b)
    BY <1>2, <2>1, NoTimeout DEF OnIt
  <2>2. CASE Ending(s, b)
    <3>1. "Timeout" \notin States(b, task[b])
      BY <1>1, <2>2 DEF Repairing, Ending
    <3>2. QED
      BY <3>1 DEF OnIt, BatchInv, Reported, States
  <2>3. QED
    BY <2>1, <2>2
<1>6. ASSUME NEW t \in Targets
      PROVE  /\ Reported(b, t)' /\ Once(b, t)'
             /\ mapping[b][t] = 0 => task'[b][t] = task[b][t]
  <2>1. \/ task'[b][t] = task[b][t]
        \/ server[s].pc = "apply" /\ task'[b][t] = Applied(s)[t]
    BY FailTasks DEF OnIt, Refreshing, RefreshStages
  <2>2. CASE task'[b][t] = task[b][t]
    BY <1>1, <1>4, <1>5, <2>2, ReportedKept, OnceKept DEF OnIt, BatchInv
  <2>3. CASE server[s].pc = "apply" /\ task'[b][t] = Applied(s)[t]
    BY <1>1, <1>4, <1>5, <2>3, AppliedReported, OnceKept DEF OnIt, BatchInv
  <2>4. QED
    BY <2>1, <2>2, <2>3
<1>7. StateInv(b)' /\ Refresher(s, b)'
  BY <1>1, <1>2, <1>3 DEF StateInv, TerminalStates, Refresher
<1>8. \A t \in Targets : Untransferred(b, t) => Untransferred(b, t)'
  BY <1>4 DEF TransfersKept, Untransferred
<1>9. QED
  BY <1>1, <1>2, <1>3, <1>6, <1>7, <1>8, RefreshKeeps

-----------------------------------------------------------------------------
(* Every step. *)

LEMMA ServerOnIt ==
  ASSUME RaceInv, NEW s \in Servers, NEW c \in Batches, ServerDoes(s, c), c \notin disturbed'
  PROVE  OnIt(s, c)
<1>1. Typed /\ Inv
  BY DEF RaceInv, Inv
<1>2. c \in Undisturbed
  BY <1>1, StaysOnBatch DEF Undisturbed
<1>3. QED
  BY <1>1, <1>2, StaysOnBatch, OthersApart DEF RaceInv, OnIt

LEMMA ServerRaces ==
  ASSUME RaceInv, NEW s \in Servers, NEW c \in Batches, ServerDoes(s, c),
         NEW b \in Batches \ disturbed'
  PROVE  BatchInv(b)'
<1>1. Typed /\ Inv
  BY DEF RaceInv, Inv
<1>2. OnlyOn(s, c) /\ LocksKept(s, b) /\ BatchInv(b)
  BY <1>1, StaysOnBatch, OthersApart DEF RaceInv, Undisturbed
<1>3. CASE b # c
  <2>1. Apart(b)
    BY <1>1, <1>3, OthersApart
  <2>2. SameWork(b)
    BY <1>2, <1>3 DEF OnlyOn, LocksKept, SameWork, Refreshing, RefreshStages, DispatchedBy,
                      DispatchStages
  <2>3. QED
    BY <1>1, <1>2, <2>1, <2>2, ApartKeeps
<1>4. CASE b = c
  <2>1. OnIt(s, b)
    BY <1>4, ServerOnIt
  <2>2. CASE TakeDueBatch(s, b) \/ AskGSE(s, b)
    BY <2>1, <2>2, TakeRaces, AskRaces
  <2> DEFINE here == server[s].b = b
  <2>3. CASE here /\ (SaveDispatching(s) \/ ListTargets(s) \/ ShardFails(s) \/ TransferShard(s)
                      \/ RecordShard(s) \/ ShardUnrecorded(s))
    BY <2>1, <2>3, SaveRaces, ListRaces, ShardFailsRaces, TransferRaces, RecordRaces
  <2>4. CASE here /\ (ApplyInTime(s) \/ ApplyTooLate(s, b) \/ RepairTimeoutBatch(s) \/ SaveOutcome(s))
    BY <2>1, <2>4, ApplyRaces, RepairRaces, OutcomeRaces
  <2>5. CASE here /\ EndDispatch(s)
    BY <2>1, <2>5, StopRaces DEF EndDispatch, DispatchedBy, DispatchStages
  <2>6. CASE here /\ server[s].pc = "finalize" /\ (FinalizeBatch(s) \/ ServerFails(s))
    <3>1. /\ UNCHANGED <<batch, listed, mapping, transfer>>
          /\ server'[s].pc = "idle"
      BY <1>1, <2>6, WorkFields DEF FinalizeBatch, ServerFails, Idle, Work
    <3>2. task'[b] = task[b]
      <4>1. CASE FinalizeBatch(s)
        BY <4>1 DEF FinalizeBatch
      <4>2. CASE ServerFails(s)
        BY <2>6, <4>2, FinalFailApart DEF RaceInv
      <4>3. QED
        BY <2>6, <4>1, <4>2
    <3>3. Apart(b)
      BY <3>1, <3>2 DEF Apart, TransfersKept
    <3>4. SameWork(b)
      BY <1>2, <1>4, <2>6, <3>1 DEF OnlyOn, LocksKept, SameWork, Refreshing, RefreshStages,
                                    DispatchedBy, DispatchStages
    <3>5. QED
      BY <1>1, <1>2, <3>3, <3>4, ApartKeeps
  <2>7. CASE here /\ server[s].pc # "finalize" /\ ServerFails(s)
    <3>1. server[s].pc \in DispatchStages \cup RefreshStages
      BY <1>1, <2>7, WorkFields DEF ServerFails, Works
    <3>2. QED
      BY <2>1, <2>7, <3>1, StopRaces, RefreshFailsRaces DEF DispatchedBy, Refreshing
  <2>8. QED
    BY <1>4, <2>2, <2>3, <2>4, <2>5, <2>6, <2>7 DEF ServerDoes, ServerStep, FinalizeBatch
<1>5. QED
  BY <1>3, <1>4

\* Any step is one of a request, of a server or of time, or none.
LEMMA StepsAre ==
  ASSUME Typed, [Next]_vars
  PROVE  \/ \E r \in Requests : (\E t \in Targets : Probe(r, t)) \/ RequestStep(r) \/ RequestFails(r)
         \/ \E s \in Servers, c \in Batches : ServerDoes(s, c)
         \/ \E b \in Batches : WindowEnds(b)
         \/ UNCHANGED vars
<1>1. ASSUME NEW s \in Servers, ServerStep(s) \/ ServerFails(s)
      PROVE  \E c \in Batches : ServerDoes(s, c)
  <2>1. server[s].b \in Batches
    BY <1>1 DEF Typed, Working, ServerStep, SaveDispatching, ListTargets, ShardFails, TransferShard,
                RecordShard, ShardUnrecorded, EndDispatch, ApplyInTime, RepairTimeoutBatch,
                SaveOutcome, FinalizeBatch, ServerFails
  <2>2. QED
    BY <1>1, <2>1 DEF ServerDoes
<1>2. ASSUME NEW s \in Servers, NEW b \in Batches,
             TakeDueBatch(s, b) \/ AskGSE(s, b) \/ ApplyTooLate(s, b)
      PROVE  ServerDoes(s, b)
  BY <1>2 DEF ServerDoes, ApplyTooLate
<1>3. QED
  BY <1>1, <1>2 DEF Next

LEMMA TimeKeeps ==
  ASSUME Typed, (\E c \in Batches : WindowEnds(c)) \/ UNCHANGED vars, NEW b \in Batches
  PROVE  /\ UNCHANGED <<task, listed, mapping, transfer, server, dispatchLock, disturbed>>
         /\ batch'[b].state = batch[b].state
<1>1. batch \in [Batches -> Metas]
  BY DEF Typed, TypeOK
<1>2. CASE UNCHANGED vars
  BY <1>2 DEF vars
<1>3. ASSUME NEW c \in Batches, WindowEnds(c)
      PROVE  /\ UNCHANGED <<task, listed, mapping, transfer, server, dispatchLock, disturbed>>
             /\ batch'[b].state = batch[b].state
  BY <1>1, <1>3 DEF WindowEnds, Metas
<1>4. QED
  BY <1>2, <1>3

LEMMA TimeRaces ==
  ASSUME RaceInv, (\E c \in Batches : WindowEnds(c)) \/ UNCHANGED vars,
         NEW b \in Batches \ disturbed'
  PROVE  BatchInv(b)'
<1>1. /\ UNCHANGED <<task, listed, mapping, transfer, server, dispatchLock, disturbed>>
      /\ batch'[b].state = batch[b].state
  BY TimeKeeps DEF RaceInv, Inv
<1>2. Apart(b) /\ SameWork(b) /\ BatchInv(b)
  BY <1>1 DEF Apart, SameWork, TransfersKept, RaceInv, Undisturbed
<1>3. QED
  BY <1>2, ApartKeeps DEF RaceInv

LEMMA NextRace == RaceInv /\ [Next]_vars => RaceInv'
<1> SUFFICES ASSUME RaceInv, [Next]_vars PROVE RaceInv'
  OBVIOUS
<1>1. Typed /\ Inv /\ Inv'
  BY NextInv DEF RaceInv, Inv
<1>2. ASSUME NEW b \in Batches \ disturbed' PROVE BatchInv(b)'
  BY <1>1, StepsAre, RequestRaces, ServerRaces, TimeRaces DEF RaceInv, Undisturbed
<1>3. QED
  BY <1>1, <1>2 DEF RaceInv, Undisturbed

LEMMA InitRace == Init => RaceInv
<1> SUFFICES ASSUME Init, NEW b \in Batches PROVE BatchInv(b)
  BY InitInv DEF RaceInv, Undisturbed
<1>1. /\ batch[b].state = "none" /\ \A t \in Targets : task[b][t] = "none" /\ mapping[b][t] = 0
      /\ \A g \in Transfers : transfer[g].b = 0
      /\ \A s \in Servers : server[s].pc = "idle"
  BY DEF Init, Closed, NoMap, Idle, Work
<1>2. Fresh(b) /\ 0 # b
  BY <1>1 DEF Fresh, Untransferred, Batches
<1>3. StateInv(b)
  BY <1>1, <1>2 DEF StateInv, TerminalStates
<1>4. \A t \in Targets : Reported(b, t) /\ Once(b, t)
  BY <1>1, <1>2 DEF Reported, Once
<1>5. \A s \in Servers : Dispatcher(s, b) /\ Refresher(s, b)
  BY <1>1 DEF Dispatcher, Refresher, DispatchedBy, DispatchStages, Refreshing, RefreshStages
<1>6. QED
  BY <1>3, <1>4, <1>5 DEF BatchInv

\* A batch that has ended, and that nothing raced in, has no open task, and its state is that of
\* its tasks, although servers save copies they read before the last result came.
THEOREM EndTellsTasks == Spec => []TerminalTellsTasks
<1>1. RaceInv => TerminalTellsTasks
  <2> SUFFICES ASSUME RaceInv, NEW b \in Undisturbed, batch[b].state \in TerminalStates
               PROVE  /\ States(b, task[b]) \cap OpenStates = {}
                      /\ batch[b].state = Derive(States(b, task[b]))
    BY DEF TerminalTellsTasks
  <2>1. Told(b, batch[b].state)
    BY DEF RaceInv, BatchInv, StateInv
  <2>2. QED
    BY <2>1 DEF Told, States
<1>2. QED
  BY <1>1, InitRace, NextRace, PTL DEF Spec

LEMMA FewerThanTwo ==
  ASSUME NEW S, \A x, y \in S : x = y
  PROVE  Cardinality(S) <= 1
<1>1. CASE S = {}
  BY <1>1, FS_EmptySet
<1>2. ASSUME NEW x \in S PROVE Cardinality(S) <= 1
  <2>1. S = {x}
    OBVIOUS
  <2>2. QED
    BY <2>1, FS_Singleton
<1>3. QED
  BY <1>1, <1>2

\* However many servers see a batch due, and wherever they crash, GSE is asked once to bring its
\* file to each target.
THEOREM HandedOverOnce == Spec => []TransferredOnce
<1>1. RaceInv => TransferredOnce
  <2> SUFFICES ASSUME RaceInv, NEW b \in Undisturbed, NEW t \in Targets
               PROVE  Cardinality({g \in Transfers : /\ transfer[g].b = b
                                                     /\ transfer[g].result[t] # "none"}) <= 1
    BY DEF TransferredOnce
  <2> DEFINE handed == {g \in Transfers : transfer[g].b = b /\ transfer[g].result[t] # "none"}
  <2>1. \A g, h \in handed : g = h
    BY DEF RaceInv, BatchInv, Once, Undisturbed
  <2> HIDE DEF handed
  <2>2. QED
    BY <2>1, FewerThanTwo DEF handed
<1>2. QED
  BY <1>1, InitRace, NextRace, PTL DEF Spec

-----------------------------------------------------------------------------
(* What was told once stays. *)

\* A server changes no task of an undisturbed batch but an open one.
LEMMA ServerTasks ==
  ASSUME RaceInv, NEW s \in Servers, NEW c \in Batches, ServerDoes(s, c),
         NEW b \in Batches \ disturbed', NEW t \in Targets, task[b][t] \notin OpenStates
  PROVE  task'[b][t] = task[b][t]
<1>1. CASE b # c
  BY <1>1, OthersApart DEF RaceInv, Apart
<1>2. CASE b = c
  <2>1. OnIt(s, b) /\ BatchInv(b)
    BY <1>2, ServerOnIt DEF OnIt
  <2>2. CASE server[s].b = b /\ ShardFails(s)
    <3>1. \A u \in server[s].left : Waits(b, u)
      BY <2>1, <2>2 DEF ShardFails, BatchInv, Dispatcher, DispatchedBy, DispatchStages
    <3>2. t \notin server[s].left
      BY <3>1 DEF Waits, OpenStates
    <3>3. QED
      BY <2>1, <2>2, <3>2, WorkFields DEF OnIt, ShardFails, Marked
  <2>3. ASSUME server[s].pc = "mark", server[s].b = b PROVE t \notin server[s].shard
    BY <2>1, <2>3 DEF BatchInv, Dispatcher, DispatchedBy, DispatchStages, OpenStates
  <2>4. CASE server[s].b = b /\ (RecordShard(s) \/ ShardUnrecorded(s))
    <3>1. PICK marked \in SUBSET server[s].shard : task' = Marked(b, marked, "Running")
      BY <2>4 DEF RecordShard, ShardUnrecorded
    <3>2. t \notin marked
      BY <2>3, <2>4, <3>1 DEF RecordShard, ShardUnrecorded
    <3>3. QED
      BY <2>1, <3>1, <3>2, WorkFields DEF OnIt, Marked
  <2>5. ASSUME server[s].pc = "apply", server[s].b = b PROVE Applied(s)[t] = task[b][t]
    <3>1. Refreshing(s, b) /\ ~ Ending(s, b)
      BY <2>5 DEF Refreshing, RefreshStages, Ending
    <3>2. Applied(s)[t] = IF server[s].seen[t] = "none" THEN task[b][t]
                          ELSE StateOf(server[s].seen[t])
      BY <2>5 DEF Applied
    <3>3. CASE server[s].seen[t] # "none"
      <4>1. mapping[b][t] # 0 /\ transfer[mapping[b][t]].result[t] = server[s].seen[t]
        BY <2>1, <2>5, <3>1, <3>3 DEF BatchInv, Refresher
      <4>2. task[b][t] # "Timeout"
        BY <2>1, <3>1, RefreshFacts, NoTimeout
      <4>3. task[b][t] \in {"Success", "Failed"}
        BY <2>1, <4>1, <4>2, WorkFields
           DEF OnIt, BatchInv, Reported, TaskStates, OpenStates, FinalStates
      <4>4. QED
        BY <2>1, <3>2, <3>3, <4>1, <4>3 DEF BatchInv, Reported, StateOf
    <3>4. QED
      BY <3>2, <3>3
  <2>6. CASE server[s].b = b /\ (ApplyInTime(s) \/ ApplyTooLate(s, b))
    <3>1. server[s].pc = "apply" /\ task' = [task EXCEPT ![b] = Applied(s)]
      BY <2>6 DEF ApplyInTime, ApplyTooLate
    <3>2. QED
      BY <2>1, <2>5, <2>6, <3>1, WorkFields DEF OnIt
  <2>7. CASE server[s].b = b /\ RepairTimeoutBatch(s)
    BY <2>1, <2>7, WorkFields DEF OnIt, RepairTimeoutBatch, StillOpen
  <2>8. CASE server[s].b = b /\ ServerFails(s)
    BY <2>1, <2>3, <2>5, <2>8, FailTasks DEF OnIt
  <2>9. CASE task' = task
    BY <2>9
  <2>10. QED
    BY <1>2, <2>2, <2>4, <2>6, <2>7, <2>8, <2>9
       DEF ServerDoes, ServerStep, SaveDispatching, ListTargets, TransferShard, EndDispatch,
           SaveOutcome, FinalizeBatch, TakeDueBatch, AskGSE
<1>3. QED
  BY <1>1, <1>2

\* A request changes only the task it asks for, in the batch it writes to.
LEMMA RequestTasks ==
  ASSUME RaceInv, NEW r \in Requests,
         (\E t \in Targets : Probe(r, t)) \/ RequestStep(r) \/ RequestFails(r),
         NEW b \in Batches \ disturbed', NEW t \in Targets, task'[b][t] # task[b][t]
  PROVE  /\ AddTask(r) \/ RequestFails(r)
         /\ request[r].b = b /\ request[r].t = t /\ request[r].pc = "add"
         /\ task[b][t] \in {"none", "Pending"} /\ task'[b][t] = "Pending"
<1>1. task \in [Batches -> [Targets -> TaskStates]]
  BY DEF RaceInv, Inv, Typed, TypeOK
<1>2. /\ AddTask(r) \/ RequestFails(r)
      /\ request[r].pc = "add" /\ disturbed' = disturbed \cup Intrudes(request[r].b)
      /\ task' = [task EXCEPT ![request[r].b][request[r].t] = "Pending"]
  BY DEF Probe, RequestStep, ClearFinal, Lock, Choose, SaveJoin, CreateBatch, AddTask, Point,
         RequestFails
<1>3. request[r].b = b
  BY <1>1, <1>2
<1>4. request[r].t = t /\ task'[b][t] = "Pending"
  BY <1>1, <1>2, <1>3
<1>5. batch[b].state = "Collecting" /\ b \notin disturbed
  BY <1>2, <1>3 DEF Intrudes
<1>6. QED
  BY <1>2, <1>3, <1>4, <1>5 DEF RaceInv, Undisturbed, BatchInv, StateInv, Fresh

\* A task that has ended keeps its state, although a late answer of GSE may say something else of
\* it and a repair ends what it finds open.
THEOREM EndIsFinal == Spec => FinalStays
<1>1. RaceInv /\ [Next]_vars
        => [\A b \in Batches \ disturbed', t \in Targets :
              task[b][t] \in FinalStates => task'[b][t] = task[b][t]]_vars
  <2> SUFFICES ASSUME RaceInv, [Next]_vars, NEW b \in Batches \ disturbed', NEW t \in Targets,
                      task[b][t] \in FinalStates
               PROVE  task'[b][t] = task[b][t]
    OBVIOUS
  <2>1. Typed /\ task[b][t] \notin OpenStates /\ task[b][t] \notin {"none", "Pending"}
    BY DEF RaceInv, Inv, FinalStates, OpenStates
  <2>2. ASSUME (\E c \in Batches : WindowEnds(c)) \/ UNCHANGED vars PROVE task' = task
    BY <2>2 DEF WindowEnds, vars
  <2>3. QED
    BY <2>1, <2>2, StepsAre, ServerTasks, RequestTasks
<1>2. QED
  BY <1>1, InitRace, NextRace, PTL DEF Spec, FinalStays

-----------------------------------------------------------------------------
(* A target waits for one batch: the inflight key names it. *)

\* The requests that hold AsyncDownloadBatchCreateV2, and those that have not written their
\* task yet.
Asked == {"clearLocked", "choose", "join", "create", "add"}
Holding == Asked \cup {"point"}
Locked == \A r \in Requests : request[r].pc \in Holding => createLock = r

\* The inflight key of t names its open task.
Known(t) == t \in unpinned \/ \A b \in Undisturbed : IsOpen(b, t) => inflight[t] = b

\* There is no open task for t.
Wanting(t) == t \in unpinned \/ \A b \in Undisturbed : ~ IsOpen(b, t)

Alone == \A r \in Requests : request[r].pc \in Asked => Wanting(request[r].t)

PinInv == RaceInv /\ Locked /\ Alone /\ \A t \in Targets : Known(t)

\* A step after which t has no more open tasks than before, and its inflight key is as it was,
\* or named no open task.
Eased(t) ==
    /\ \A b \in Batches \ disturbed' : IsOpen(b, t)' => IsOpen(b, t)
    /\ disturbed \subseteq disturbed' /\ unpinned \subseteq unpinned'
    /\ inflight'[t] = inflight[t] \/ Pinned({t}) \subseteq unpinned'

LEMMA EasedKnown ==
  ASSUME NEW t \in Targets, Eased(t)
  PROVE  /\ Known(t) => Known(t)'
         /\ Wanting(t) => Wanting(t)'
<1>1. ASSUME Known(t) PROVE Known(t)'
  <2> SUFFICES ASSUME t \notin unpinned', NEW b \in Batches \ disturbed', IsOpen(b, t)'
               PROVE  inflight'[t] = b
    BY DEF Known, Undisturbed
  <2>1. IsOpen(b, t) /\ inflight[t] = b
    BY <1>1 DEF Eased, Known, Undisturbed
  <2>2. t \in Pinned({t})
    BY <2>1 DEF Pinned
  <2>3. QED
    BY <2>1, <2>2 DEF Eased
<1>2. QED
  BY <1>1 DEF Eased, Wanting, Undisturbed

LEMMA ServerPins ==
  ASSUME PinInv, NEW s \in Servers, NEW c \in Batches, ServerDoes(s, c)
  PROVE  Locked' /\ Alone' /\ \A t \in Targets : Known(t)'
<1>1. UNCHANGED <<request, createLock>> /\ Typed /\ RaceInv
  BY DEF PinInv, RaceInv, Inv, ServerDoes, ServerStep, SaveDispatching, ListTargets, ShardFails,
         TransferShard, RecordShard, ShardUnrecorded, EndDispatch, ApplyInTime, ApplyTooLate,
         RepairTimeoutBatch, SaveOutcome, FinalizeBatch, ServerFails, TakeDueBatch, AskGSE,
         serviceFrame
<1>2. ASSUME NEW t \in Targets PROVE Eased(t)
  <2>1. \A b \in Batches \ disturbed' : IsOpen(b, t)' => IsOpen(b, t)
    BY <1>1, ServerTasks DEF IsOpen
  <2>2. disturbed \subseteq disturbed'
    BY <1>1, StaysOnBatch
  <2>3. CASE FinalizeBatch(s)
    <3>1. PICK ended : /\ inflight' = [u \in Targets |-> IF u \in ended THEN 0 ELSE inflight[u]]
                       /\ unpinned' = unpinned \cup Pinned(ended)
      BY <2>3 DEF FinalizeBatch
    <3>2. t \in ended => Pinned({t}) \subseteq Pinned(ended)
      BY DEF Pinned
    <3>3. QED
      BY <2>1, <2>2, <3>1, <3>2 DEF Eased
  <2>4. CASE ~ FinalizeBatch(s)
    <3>1. UNCHANGED <<inflight, unpinned>>
      BY <2>4 DEF ServerDoes, ServerStep, SaveDispatching, ListTargets, ShardFails,
                  TransferShard, RecordShard, ShardUnrecorded, EndDispatch, ApplyInTime,
                  ApplyTooLate, RepairTimeoutBatch, SaveOutcome, ServerFails, TakeDueBatch, AskGSE
    <3>2. QED
      BY <2>1, <2>2, <3>1 DEF Eased
  <2>5. QED
    BY <2>3, <2>4
<1>3. ASSUME NEW r \in Requests, request[r].pc \in Asked PROVE Wanting(request[r].t)'
  <2>1. request[r].t \in Targets /\ Wanting(request[r].t)
    BY <1>1, <1>3 DEF PinInv, Alone, Typed, Asking, Asked
  <2>2. PICK t \in Targets : t = request[r].t
    BY <2>1
  <2>3. Wanting(t)'
    BY <1>2, <2>1, <2>2, EasedKnown
  <2>4. request'[r].t = t
    BY <1>1, <2>2
  <2>5. QED
    BY <2>3, <2>4 DEF Wanting
<1>4. QED
  BY <1>1, <1>2, <1>3, EasedKnown DEF PinInv, Locked, Alone

LEMMA GotoSays ==
  ASSUME Typed, NEW r \in Requests, NEW pc, Goto(r, pc)
  PROVE  request'[r].pc = pc /\ request'[r].t = request[r].t
<1>1. request \in [Requests -> Calls] /\ request[r] \in Calls
  BY DEF Typed, TypeOK
<1>2. request'[r] = [request[r] EXCEPT !.pc = pc]
  BY <1>1 DEF Goto
<1>3. QED
  BY <1>1, <1>2 DEF Calls

\* How a request comes to the lock, holds it and leaves it.
Outside(r) == /\ request'[r].pc \notin Holding /\ createLock' = createLock
              /\ request[r].pc \notin Holding
Leaves(r) ==
    /\ request'[r].pc = "idle"
    /\ \/ createLock' = NoOne /\ (request[r].pc \in Holding \/ createLock = NoOne)
       \/ createLock' = IF createLock = r THEN NoOne ELSE createLock
Takes(r) == /\ createLock = NoOne /\ createLock' = r
            /\ request[r].pc = "lock" /\ request'[r].pc \in Asked
            /\ request'[r].t = request[r].t
            /\ unpinned' = unpinned \cup Pinned({request[r].t})
            /\ UNCHANGED <<task, disturbed, inflight>>
HoldsOn(r) == /\ request[r].pc \in Asked /\ createLock' = createLock
            /\ request'[r].t = request[r].t
            /\ request'[r].pc \in Holding /\ (AddTask(r) => request'[r].pc \notin Asked)

LEMMA RequestMoves ==
  ASSUME Typed, NEW r \in Requests,
         (\E t \in Targets : Probe(r, t)) \/ RequestStep(r) \/ RequestFails(r)
  PROVE  Outside(r) \/ Leaves(r) \/ Takes(r) \/ HoldsOn(r)
<1>1. request \in [Requests -> Calls] /\ request[r] \in Calls
  BY DEF Typed, TypeOK
<1>2. Return(r) => request'[r].pc = "idle" /\ createLock' = NoOne
  BY <1>1 DEF Return, IdleCall
<1>3. CASE \E t \in Targets : Probe(r, t)
  <2>1. PICK pc \in {"clear", "lock"}, t \in Targets :
          request' = [request EXCEPT ![r] = [IdleCall EXCEPT !.pc = pc, !.t = t]]
    BY <1>3 DEF Probe
  <2>2. request'[r].pc = pc
    BY <1>1, <2>1 DEF IdleCall
  <2>3. QED
    BY <1>3, <2>2 DEF Probe, Outside, Holding, Asked
<1>4. CASE ClearFinal(r)
  <2>1. PICK pc : pc = (IF request[r].pc = "clear" THEN "lock" ELSE "choose") /\ Goto(r, pc)
    BY <1>4 DEF ClearFinal
  <2>2. request'[r].pc = pc /\ request'[r].t = request[r].t
    BY <2>1, GotoSays
  <2>3. QED
    BY <1>4, <2>1, <2>2 DEF ClearFinal, Outside, HoldsOn, Holding, Asked, AddTask
<1>5. CASE Lock(r)
  <2>1. CASE Return(r)
    BY <1>2, <1>5, <2>1 DEF Lock, Leaves
  <2>2. CASE ~ Return(r)
    <3>1. PICK pc \in {"clearLocked", "choose"} :
            Goto(r, pc) /\ createLock' = r /\ unpinned' = unpinned \cup Pinned({request[r].t})
      BY <1>5, <2>2 DEF Lock
    <3>2. request'[r].pc = pc /\ request'[r].t = request[r].t
      BY <3>1, GotoSays
    <3>3. QED
      BY <1>5, <3>1, <3>2 DEF Lock, Takes, Asked
  <2>3. QED
    BY <2>1, <2>2
<1>6. CASE Choose(r)
  <2>1. CASE Return(r)
    BY <1>2, <1>6, <2>1 DEF Choose, Leaves, Holding, Asked
  <2>2. CASE Goto(r, "create") /\ createLock' = createLock
    BY <1>6, <2>2, GotoSays DEF Choose, HoldsOn, Holding, Asked, AddTask
  <2>3. CASE /\ createLock' = createLock
             /\ request' = [request EXCEPT ![r].pc = "join", ![r].b = openBatch,
                                           ![r].count = batch[openBatch].count + 1]
    <3>1. request'[r].pc = "join" /\ request'[r].t = request[r].t
      BY <1>1, <2>3 DEF Calls
    <3>2. QED
      BY <1>6, <2>3, <3>1 DEF Choose, HoldsOn, Holding, Asked, AddTask
  <2>4. QED
    BY <1>6, <2>1, <2>2, <2>3 DEF Choose
<1>7. CASE SaveJoin(r) \/ AddTask(r)
  <2>1. PICK pc \in {"add", "point"} : Goto(r, pc) /\ (AddTask(r) => pc = "point")
    BY <1>7 DEF SaveJoin, AddTask
  <2>2. request'[r].pc = pc /\ request'[r].t = request[r].t
    BY <2>1, GotoSays
  <2>3. createLock' = createLock /\ request[r].pc \in Asked
    BY <1>7 DEF SaveJoin, AddTask, Asked
  <2>4. QED
    BY <2>1, <2>2, <2>3 DEF HoldsOn, Holding, Asked
<1>8. CASE CreateBatch(r)
  <2>1. PICK b : request' = [request EXCEPT ![r].pc = "add", ![r].b = b, ![r].count = 0]
    BY <1>8 DEF CreateBatch
  <2>2. request'[r].pc = "add" /\ request'[r].t = request[r].t
    BY <1>1, <2>1 DEF Calls
  <2>3. QED
    BY <1>8, <2>2 DEF CreateBatch, HoldsOn, Holding, Asked, AddTask
<1>9. CASE Point(r)
  BY <1>2, <1>9 DEF Point, Leaves, Holding, Asked
<1>10. CASE RequestFails(r)
  BY <1>1, <1>10 DEF RequestFails, Leaves, IdleCall
<1>11. QED
  BY <1>3, <1>4, <1>5, <1>6, <1>7, <1>8, <1>9, <1>10 DEF RequestStep

\* What a request does under the lock, or to get it; the others wait for it.
LEMMA RequestPins ==
  ASSUME PinInv, NEW r \in Requests,
         (\E t \in Targets : Probe(r, t)) \/ RequestStep(r) \/ RequestFails(r)
  PROVE  Locked' /\ Alone' /\ \A t \in Targets : Known(t)'
<1>1. /\ request \in [Requests -> Calls] /\ RaceInv /\ Typed
      /\ task \in [Batches -> [Targets -> TaskStates]] /\ inflight \in [Targets -> {0} \cup Batches]
      /\ createLock \in Requests \cup {NoOne} /\ NoOne \notin Requests /\ 0 \notin Batches
      /\ request[r].pc # "idle" => request[r].t \in Targets
  BY TargetsAssumption DEF PinInv, RaceInv, Inv, Typed, TypeOK, Asking, Batches
<1>2. /\ \A o \in Requests \ {r} : request'[o] = request[o]
      /\ disturbed \subseteq disturbed' /\ unpinned \subseteq unpinned'
  BY <1>1 DEF Probe, RequestStep, ClearFinal, Lock, Choose, SaveJoin, CreateBatch, AddTask, Point,
              RequestFails, Goto, Return
<1>3. ASSUME NEW o \in Requests \ {r}, request[r].pc \in Holding \/ createLock = NoOne
      PROVE  request[o].pc \notin Holding
  BY <1>1, <1>3 DEF PinInv, Locked
<1>4. Outside(r) \/ Leaves(r) \/ Takes(r) \/ HoldsOn(r)
  BY <1>1, RequestMoves
<1>5. Locked'
  <2>1. CASE Outside(r)
    BY <1>2, <2>1 DEF PinInv, Locked, Outside
  <2>2. CASE Leaves(r)
    BY <1>1, <1>2, <1>3, <2>2 DEF PinInv, Locked, Leaves, Holding, Asked
  <2>3. CASE Takes(r)
    BY <1>1, <1>2, <1>3, <2>3 DEF Locked, Takes
  <2>4. CASE HoldsOn(r)
    BY <1>1, <1>2, <2>4 DEF PinInv, Locked, HoldsOn, Holding
  <2>5. QED
    BY <1>4, <2>1, <2>2, <2>3, <2>4
<1>6. ASSUME NEW t \in Targets, ~ (AddTask(r) /\ t = request[r].t) PROVE Eased(t) \/ t \in unpinned'
  <2>1. CASE t \notin unpinned'
    <3>1. ASSUME NEW b \in Batches \ disturbed', IsOpen(b, t)' PROVE IsOpen(b, t)
      <4>1. CASE task'[b][t] = task[b][t]
        BY <3>1, <4>1 DEF IsOpen
      <4>2. CASE task'[b][t] # task[b][t]
        <5>1. (AddTask(r) \/ RequestFails(r)) /\ request[r].t = t
          BY <1>1, <4>2, RequestTasks
        <5>2. RequestFails(r) /\ task' # task
          BY <1>6, <4>2, <5>1
        <5>3. t \in unpinned'
          BY <5>1, <5>2 DEF RequestFails
        <5>4. QED
          BY <2>1, <5>3
      <4>3. QED
        BY <4>1, <4>2
    <3>2. inflight'[t] = inflight[t] \/ Pinned({t}) \subseteq unpinned'
      <4>1. CASE ClearFinal(r)
        BY <1>1, <4>1 DEF ClearFinal
      <4>2. CASE AddTask(r)
        BY <1>1, <1>6, <4>2 DEF AddTask
      <4>3. CASE inflight' = inflight
        BY <4>3
      <4>4. QED
        BY <4>1, <4>2, <4>3 DEF Probe, RequestStep, Lock, Choose, SaveJoin, CreateBatch, Point,
                                RequestFails
    <3>3. QED
      BY <1>2, <3>1, <3>2 DEF Eased
  <2>2. QED
    BY <2>1
<1>7. ASSUME NEW t \in Targets PROVE Known(t)'
  <2>1. CASE AddTask(r) /\ t = request[r].t
    <3>1. /\ inflight'[t] = request[r].b /\ Wanting(t)
          /\ task' = [task EXCEPT ![request[r].b][t] = "Pending"]
      BY <1>1, <2>1 DEF AddTask, PinInv, Alone, Asked
    <3>2. ASSUME NEW b \in Batches \ disturbed', IsOpen(b, t)', t \notin unpinned'
          PROVE  inflight'[t] = b
      <4>1. ~ IsOpen(b, t)
        BY <1>2, <3>1, <3>2 DEF Wanting, Undisturbed
      <4>2. QED
        BY <1>1, <3>1, <3>2, <4>1 DEF IsOpen
    <3>3. QED
      BY <3>2 DEF Known, Undisturbed
  <2>2. CASE ~ (AddTask(r) /\ t = request[r].t)
    BY <1>6, <2>2, EasedKnown DEF PinInv, Known
  <2>3. QED
    BY <2>1, <2>2
<1>8. ASSUME NEW o \in Requests, NEW t \in Targets, t = request'[o].t, request'[o].pc \in Asked
      PROVE  Wanting(t)'
  <2>1. CASE o # r
    <3>1. request[o].pc \in Asked /\ t = request[o].t /\ Wanting(t)
      BY <1>2, <1>8, <2>1 DEF PinInv, Alone
    <3>2. ~ AddTask(r)
      BY <1>3, <2>1, <3>1 DEF AddTask, Holding, Asked
    <3>3. QED
      BY <1>6, <3>1, <3>2, EasedKnown DEF Wanting
  <2>2. CASE o = r
    <3>1. Takes(r) \/ HoldsOn(r)
      BY <1>8, <1>4, <2>2 DEF Outside, Leaves, Holding, Asked
    <3>2. CASE HoldsOn(r)
      <4>1. t = request[r].t /\ ~ AddTask(r) /\ Wanting(t)
        BY <1>8, <2>2, <3>2 DEF HoldsOn, PinInv, Alone
      <4>2. QED
        BY <1>6, <4>1, EasedKnown DEF Wanting
    <3>3. CASE Takes(r)
      <4>1. /\ t = request[r].t /\ unpinned' = unpinned \cup Pinned({t})
            /\ UNCHANGED <<task, disturbed, inflight>>
        BY <1>8, <2>2, <3>3 DEF Takes
      <4>2. CASE IsOpen(inflight[t], t)
        BY <4>1, <4>2 DEF Pinned, Wanting
      <4>3. CASE ~ IsOpen(inflight[t], t)
        <5>1. Wanting(t)
          BY <4>3 DEF PinInv, Known, Wanting
        <5>2. QED
          BY <1>2, <4>1, <5>1 DEF Wanting, Undisturbed, IsOpen
      <4>4. QED
        BY <4>2, <4>3
    <3>4. QED
      BY <3>1, <3>2, <3>3
  <2>3. QED
    BY <2>1, <2>2
<1>9. Alone'
  <2> SUFFICES ASSUME NEW o \in Requests, request'[o].pc \in Asked PROVE Wanting(request[o].t)'
    BY DEF Alone
  <2>1. request'[o].t \in Targets
    <3>1. Typed'
      BY <1>1, RequestTyped
    <3>2. QED
      BY <3>1 DEF Typed, Asking, Asked
  <2>2. PICK t \in Targets : t = request'[o].t
    BY <2>1
  <2>3. Wanting(t)'
    BY <1>8, <2>2
  <2>4. QED
    BY <2>2, <2>3 DEF Wanting
<1>10. QED
  BY <1>5, <1>7, <1>9

LEMMA NextPins == PinInv /\ [Next]_vars => PinInv'
<1> SUFFICES ASSUME PinInv, [Next]_vars PROVE PinInv'
  OBVIOUS
<1>1. RaceInv /\ Typed /\ RaceInv'
  BY NextRace DEF PinInv, RaceInv, Inv
<1>2. ASSUME (\E b \in Batches : WindowEnds(b)) \/ UNCHANGED vars
      PROVE  Locked' /\ Alone' /\ \A t \in Targets : Known(t)'
  <2>1. UNCHANGED <<request, createLock, task, inflight, disturbed, unpinned>>
    BY <1>2 DEF WindowEnds, serviceFrame, vars
  <2>2. QED
    BY <2>1 DEF PinInv, Locked, Alone, Wanting, Known, Undisturbed, IsOpen
<1>3. QED
  BY <1>1, <1>2, StepsAre, RequestPins, ServerPins DEF PinInv

LEMMA InitPins == Init => PinInv
<1> SUFFICES ASSUME Init PROVE PinInv
  OBVIOUS
<1>1. Locked /\ Alone
  BY DEF Init, IdleCall, Locked, Alone, Holding, Asked
<1>2. \A t \in Targets : Known(t)
  BY DEF Init, Known, IsOpen, OpenStates, Undisturbed
<1>3. QED
  BY <1>1, <1>2, InitRace DEF PinInv

\* A target waits for one undisturbed batch at a time, unless its inflight key was lost under
\* its open task, or could not be read.
THEOREM OneTaskEach == Spec => []OneOpenTask
<1>1. PinInv => OneOpenTask
  <2> SUFFICES ASSUME PinInv, NEW t \in Targets \ unpinned
               PROVE  Cardinality({b \in Undisturbed : IsOpen(b, t)}) <= 1
    BY DEF OneOpenTask
  <2> DEFINE open == {b \in Undisturbed : IsOpen(b, t)}
  <2>1. \A b, c \in open : b = c
    BY DEF PinInv, Known
  <2> HIDE DEF open
  <2>2. QED
    BY <2>1, FewerThanTwo DEF open
<1>2. QED
  BY <1>1, InitPins, NextPins, PTL DEF Spec

-----------------------------------------------------------------------------
(* Refinement: each batch takes a step of DownloadBatch, or none. *)

\* What is said of a batch nothing raced in, before a step and after it.
LEMMA Said ==
  ASSUME NEW b \in Batches
  PROVE  /\ b \notin disturbed => Standing[b] = batch[b].state
         /\ b \notin disturbed' => Standing'[b] = batch'[b].state
BY DEF Standing

LEMMA Counts ==
  ASSUME NEW b \in Batches, NEW t \in Targets
  PROVE  /\ b \notin disturbed => Answers[b][t] = IF t \in listed[b] THEN task[b][t] ELSE "none"
         /\ b \notin disturbed' =>
              Answers'[b][t] = IF t \in listed'[b] THEN task'[b][t] ELSE "none"
BY DEF Answers

LEMMA SameAnswers ==
  ASSUME NEW b \in Batches, \A t \in Targets : Answers'[b][t] = Answers[b][t]
  PROVE  Answers'[b] = Answers[b]
<1>1. /\ Answers[b] = [t \in Targets |-> IF b \notin disturbed /\ t \in listed[b]
                                           THEN task[b][t] ELSE "none"]
      /\ Answers'[b] = [t \in Targets |-> IF b \notin disturbed' /\ t \in listed'[b]
                                            THEN task'[b][t] ELSE "none"]
  BY DEF Answers
<1>2. /\ Answers[b] = [t \in Targets |-> Answers[b][t]]
      /\ Answers'[b] = [t \in Targets |-> Answers'[b][t]]
  BY <1>1
<1>3. QED
  BY <1>2

LEMMA AnswerChanges ==
  ASSUME NEW b \in Batches, NEW x \in Targets, NEW v, Answers'[b][x] = v,
         \A t \in Targets \ {x} : Answers'[b][t] = Answers[b][t]
  PROVE  Answers'[b] = [Answers[b] EXCEPT ![x] = v]
<1>1. /\ Answers[b] = [t \in Targets |-> IF b \notin disturbed /\ t \in listed[b]
                                           THEN task[b][t] ELSE "none"]
      /\ Answers'[b] = [t \in Targets |-> IF b \notin disturbed' /\ t \in listed'[b]
                                            THEN task'[b][t] ELSE "none"]
  BY DEF Answers
<1>2. /\ Answers[b] = [t \in Targets |-> Answers[b][t]]
      /\ Answers'[b] = [t \in Targets |-> Answers'[b][t]]
  BY <1>1
<1>3. QED
  BY <1>2

\* The tasks of an undisturbed batch do not change; whether a client sees its state change.
LEMMA SameTasks ==
  ASSUME NEW b \in Batches, b \notin disturbed, b \notin disturbed',
         task'[b] = task[b], listed'[b] = listed[b]
  PROVE  /\ Answers'[b] = Answers[b]
         /\ batch'[b].state = batch[b].state => Download!Step(b)
<1>1. Answers'[b] = Answers[b]
  BY Counts, SameAnswers
<1>2. QED
  BY <1>1, Said DEF Download!Step

\* A lost batch.
LEMMA LostSteps == ASSUME NEW b \in Batches, b \in disturbed' PROVE Download!Step(b)
BY DEF Standing, Download!Step, Download!Loses

LEMMA RequestSteps ==
  ASSUME RaceInv, NEW r \in Requests,
         (\E t \in Targets : Probe(r, t)) \/ RequestStep(r) \/ RequestFails(r),
         NEW b \in Batches \ disturbed'
  PROVE  Download!Step(b)
<1>1. /\ b \notin disturbed /\ BatchInv(b)
      /\ task \in [Batches -> [Targets -> TaskStates]] /\ listed \in [Batches -> SUBSET Targets]
      /\ batch \in [Batches -> Metas]
  <2>1. disturbed \subseteq disturbed'
    BY DEF Probe, RequestStep, ClearFinal, Lock, Choose, SaveJoin, CreateBatch, AddTask, Point,
           RequestFails, storeFrame
  <2>2. b \notin disturbed
    BY <2>1
  <2>3. QED
    BY <2>2 DEF RaceInv, Inv, Typed, TypeOK, Undisturbed
<1>2. CASE task'[b] # task[b] \/ listed'[b] # listed[b]
  <2> DEFINE t == request[r].t
  <2>1. /\ request[r].b = b /\ request[r].pc = "add" /\ batch' = batch
        /\ task' = [task EXCEPT ![b][t] = "Pending"]
        /\ listed' \in {listed, [listed EXCEPT ![b] = @ \cup {t}]}
        /\ batch[b].state = "Collecting"
    BY <1>1, <1>2 DEF Probe, RequestStep, ClearFinal, Lock, Choose, SaveJoin, CreateBatch, AddTask,
                      Point, RequestFails, storeFrame, Intrudes
  <2>2. t \in Targets
    BY <2>1 DEF RaceInv, Inv, Typed, Asking
  <2>3. task[b][t] \in {"none", "Pending"}
    BY <1>1, <2>1, <2>2 DEF BatchInv, StateInv, Fresh
  <2>4. PICK x \in Targets : x = t
    BY <2>2
  <2> HIDE DEF t
  <2>5. /\ \A u \in Targets \ {x} : /\ task'[b][u] = task[b][u]
                                    /\ u \in listed'[b] <=> u \in listed[b]
        /\ task'[b][x] = "Pending" /\ (x \in listed[b] => x \in listed'[b])
    BY <1>1, <2>1, <2>4
  <2>6. \A u \in Targets \ {x} : Answers'[b][u] = Answers[b][u]
    BY <1>1, <2>5, Counts
  <2>7. /\ Answers[b][x] \in {"none", "Pending"}
        /\ Answers'[b][x] = "Pending" \/ Answers'[b][x] = Answers[b][x]
    BY <1>1, <2>3, <2>4, <2>5, Counts
  <2>8. Standing[b] = "Collecting" /\ Standing'[b] = "Collecting"
    BY <1>1, <2>1, Said
  <2>9. CASE Answers'[b][x] = Answers[b][x]
    <3>1. Answers'[b] = Answers[b]
      BY <2>6, <2>9, SameAnswers
    <3>2. QED
      BY <2>8, <3>1 DEF Download!Step
  <2>10. CASE Answers[b][x] = "none" /\ Answers'[b][x] = "Pending"
    <3>1. Answers'[b] = [Answers[b] EXCEPT ![x] = "Pending"]
      BY <2>6, <2>10, AnswerChanges
    <3>2. QED
      BY <2>8, <2>10, <3>1 DEF Download!Step, Download!Joins
  <2>11. QED
    BY <2>7, <2>9, <2>10
<1>3. CASE task'[b] = task[b] /\ listed'[b] = listed[b]
  <2>1. \/ batch'[b].state = batch[b].state
        \/ batch[b].state = "none" /\ batch'[b].state = "Collecting"
    <3>1. CASE SaveJoin(r)
      <4>1. request[r].b = b => batch[b].state = "Collecting" /\ batch'[b].state = "Collecting"
        BY <1>1, <3>1 DEF SaveJoin, Intrudes, Collecting
      <4>2. request[r].b # b => batch'[b] = batch[b]
        BY <1>1, <3>1 DEF SaveJoin
      <4>3. QED
        BY <4>1, <4>2
    <3>2. CASE CreateBatch(r)
      <4>1. PICK c \in Batches : /\ \A d \in Batches : d < c <=> batch[d].state # "none"
                                /\ batch' = [batch EXCEPT ![c] = Collecting(1)]
        BY <3>2 DEF CreateBatch
      <4>2. c = b => ~ (b < c)
        BY DEF Batches
      <4>3. QED
        BY <1>1, <4>1, <4>2 DEF Collecting
    <3>3. CASE batch' = batch
      BY <3>3
    <3>4. QED
      BY <3>1, <3>2, <3>3 DEF Probe, RequestStep, ClearFinal, Lock, Choose, AddTask, Point,
                              RequestFails, storeFrame
  <2>2. CASE batch'[b].state = batch[b].state
    BY <1>1, <1>3, <2>2, SameTasks
  <2>3. CASE batch[b].state = "none" /\ batch'[b].state = "Collecting"
    <3>1. Answers'[b] = Answers[b] /\ Standing[b] = "none" /\ Standing'[b] = "Collecting"
      BY <1>1, <1>3, <2>3, SameTasks, Said
    <3>2. QED
      BY <3>1 DEF Download!Step, Download!Moves
  <2>4. QED
    BY <2>1, <2>2, <2>3
<1>4. QED
  BY <1>2, <1>3

\* How a server may change the tasks of a batch that goes on: the listed ones that are open go
\* forward.
Forward(b) ==
    /\ listed'[b] = listed[b] /\ batch'[b].state = batch[b].state
    /\ \A t \in listed[b] : task'[b][t] = task[b][t] \/ Download!May(task[b][t], task'[b][t])

LEMMA ForwardSteps ==
  ASSUME NEW b \in Batches, b \notin disturbed, b \notin disturbed', Inv, StateInv(b), Forward(b),
         batch[b].state \notin {"none", "Collecting"}
  PROVE  Download!Step(b)
<1>1. batch[b].state \in {"Dispatching"} \cup TerminalStates /\ listed[b] \subseteq Targets
  BY DEF Inv, Typed, TypeOK, Metas
<1>2. CASE batch[b].state = "Dispatching"
  <2>1. listed'[b] = listed[b]
    BY DEF Forward
  <2>2. \A t \in Targets : \/ Answers'[b][t] = Answers[b][t]
                           \/ Download!May(Answers[b][t], Answers'[b][t])
    BY <2>1, Counts DEF Forward
  <2>3. Standing[b] = "Dispatching" /\ Standing'[b] = "Dispatching"
    BY <1>2, Said DEF Forward
  <2>4. QED
    BY <2>2, <2>3 DEF Download!Step, Download!Progresses
<1>3. CASE batch[b].state \in TerminalStates
  <2>1. \A t \in listed[b] : task[b][t] \notin OpenStates
    BY <1>3 DEF StateInv, Told
  <2>2. \A t \in listed[b] : task'[b][t] = task[b][t]
    BY <2>1 DEF Forward, Download!May, OpenStates
  <2>3. \A t \in Targets : Answers'[b][t] = Answers[b][t]
    BY <2>2, Counts DEF Forward
  <2>4. Answers'[b] = Answers[b] /\ Standing'[b] = Standing[b]
    BY <2>3, SameAnswers, Said DEF Forward
  <2>5. QED
    BY <2>4 DEF Download!Step
<1>4. QED
  BY <1>1, <1>2, <1>3

\* The steps that change tasks.
LEMMA WorkForward ==
  ASSUME NEW s \in Servers, NEW b \in Batches, OnIt(s, b), server[s].b = b, b \notin disturbed',
         \/ ShardFails(s) \/ RecordShard(s) \/ ShardUnrecorded(s)
         \/ ApplyInTime(s) \/ ApplyTooLate(s, b) \/ RepairTimeoutBatch(s)
         \/ ServerFails(s) /\ task'[b] # task[b]
  PROVE  Forward(b) /\ batch[b].state \notin {"none", "Collecting"}
<1>1. /\ listed'[b] = listed[b] /\ batch' = batch /\ BatchInv(b) /\ listed[b] \subseteq Targets
      /\ task \in [Batches -> [Targets -> TaskStates]]
  BY DEF OnIt, Inv, Typed, TypeOK, ShardFails, RecordShard, ShardUnrecorded, ApplyInTime,
         ApplyTooLate, RepairTimeoutBatch, ServerFails
<1>2. ASSUME server[s].pc \in {"shards", "mark"}
      PROVE  /\ batch[b].state \notin {"none", "Collecting"}
             /\ \A t \in server[s].left : task[b][t] = "Pending"
             /\ server[s].pc = "mark" => \A t \in server[s].shard : task[b][t] = "Pending"
  BY <1>1, <1>2 DEF BatchInv, Dispatcher, Waits, DispatchedBy, DispatchStages
<1>3. CASE ShardFails(s) \/ RecordShard(s) \/ ShardUnrecorded(s)
  <2>1. PICK ts \in SUBSET Targets, st \in {"Failed", "Running"} :
          /\ \/ server[s].pc = "shards" /\ ts \subseteq server[s].left
             \/ server[s].pc = "mark" /\ ts \subseteq server[s].shard
          /\ task' = Marked(b, ts, st)
    BY <1>3, WorkFields DEF OnIt, ShardFails, RecordShard, ShardUnrecorded
  <2>2. \A t \in Targets : \/ task'[b][t] = task[b][t]
                           \/ t \in ts /\ task'[b][t] = st
    BY <1>1, <2>1 DEF Marked
  <2>3. QED
    BY <1>1, <1>2, <2>1, <2>2 DEF Forward, Download!May
<1>4. ASSUME server[s].pc = "apply"
      PROVE  /\ batch[b].state = "Dispatching"
             /\ \A t \in Targets : \/ Applied(s)[t] = task[b][t]
                                    \/ Download!May(task[b][t], Applied(s)[t])
  <2>1. Refreshing(s, b) /\ ~ Ending(s, b)
    BY <1>4 DEF Refreshing, RefreshStages, Ending
  <2>2. batch[b].state = "Dispatching" /\ \A o \in Servers \ {s} : ~ Refreshing(o, b)
    BY <2>1, RefreshFacts
  <2>3. \A t \in Targets : task[b][t] # "Timeout"
    BY <1>1, <2>1, <2>2, NoTimeout
  <2>4. ASSUME NEW t \in Targets
        PROVE  Applied(s)[t] = task[b][t] \/ Download!May(task[b][t], Applied(s)[t])
    <3>1. Applied(s)[t] = IF server[s].seen[t] = "none" THEN task[b][t]
                          ELSE StateOf(server[s].seen[t])
      BY <1>1 DEF Applied
    <3>2. CASE server[s].seen[t] # "none"
      <4>1. /\ mapping[b][t] # 0 /\ transfer[mapping[b][t]].result[t] = server[s].seen[t]
            /\ server[s].seen[t] \in {"running", "ok", "failed"}
        BY <1>1, <1>4, <2>1, <3>2, WorkFields DEF OnIt, BatchInv, Refresher, Results
      <4>2. task[b][t] \in {"Running", "Success", "Failed"}
        BY <1>1, <2>3, <4>1 DEF BatchInv, Reported, TaskStates, OpenStates, FinalStates
      <4>3. /\ task[b][t] = "Success" => server[s].seen[t] = "ok"
            /\ task[b][t] = "Failed" => server[s].seen[t] = "failed"
        BY <1>1, <4>1 DEF BatchInv, Reported
      <4>4. QED
        BY <3>1, <3>2, <4>1, <4>2, <4>3 DEF StateOf, Download!May
    <3>3. QED
      BY <3>1, <3>2
  <2>5. QED
    BY <2>2, <2>4
<1>5. CASE ApplyInTime(s) \/ ApplyTooLate(s, b)
  <2>1. server[s].pc = "apply" /\ task' = [task EXCEPT ![b] = Applied(s)]
    BY <1>5 DEF ApplyInTime, ApplyTooLate
  <2>2. task'[b] = Applied(s)
    BY <1>1, <2>1
  <2>3. QED
    BY <1>1, <1>4, <2>1, <2>2 DEF Forward
<1>6. CASE RepairTimeoutBatch(s)
  <2>1. Refreshing(s, b)
    BY <1>6 DEF RepairTimeoutBatch, Refreshing, RefreshStages
  <2>2. \A t \in Targets : \/ task'[b][t] = task[b][t]
                           \/ task[b][t] \in OpenStates /\ task'[b][t] = "Timeout"
    BY <1>1, <1>6 DEF RepairTimeoutBatch, StillOpen
  <2>3. QED
    BY <1>1, <2>1, <2>2, RefreshFacts DEF Forward, Download!May, OpenStates
<1>7. CASE ServerFails(s) /\ task'[b] # task[b]
  <2>1. \A t \in Targets : \/ task'[b][t] = task[b][t]
                           \/ server[s].pc = "mark" /\ t \in server[s].shard /\ task'[b][t] = "Running"
                           \/ server[s].pc = "apply" /\ task'[b][t] = Applied(s)[t]
    BY <1>7, FailTasks DEF OnIt
  <2>2. task' \in [Batches -> [Targets -> TaskStates]]
    BY <1>1, <1>7 DEF ServerFails
  <2>3. \E t \in Targets : task'[b][t] # task[b][t]
    BY <1>1, <1>7, <2>2
  <2>4. server[s].pc \in {"mark", "apply"}
    BY <2>1, <2>3
  <2>5. QED
    BY <1>1, <1>2, <1>4, <2>1, <2>4 DEF Forward, Download!May
<1>8. QED
  BY <1>3, <1>5, <1>6, <1>7

\* The end of a batch is told from the tasks that count.
LEMMA ToldOutcome ==
  ASSUME NEW b \in Batches, b \notin disturbed, Inv, NEW outcome, Told(b, outcome)
  PROVE  /\ outcome = Download!Outcome(b)
         /\ \A t \in Targets : Answers[b][t] \notin Download!Open
<1>1. listed[b] \subseteq Targets
  BY DEF Inv, Typed, TypeOK
<1>2. \A t \in Targets : Answers[b][t] = IF t \in listed[b] THEN task[b][t] ELSE "none"
  BY Counts
<1>3. \A x \in {"Failed", "Timeout", "Success"} :
        x \in States(b, task[b]) <=> \E t \in Targets : Answers[b][t] = x
  BY <1>1, <1>2 DEF States
<1>4. outcome = Derive(States(b, task[b]))
  BY DEF Told
<1>5. outcome = Download!Outcome(b)
  BY <1>3, <1>4 DEF Derive, Download!Outcome
<1>6. QED
  BY <1>1, <1>2, <1>5 DEF Told, OpenStates, Download!Open

LEMMA ServerSteps ==
  ASSUME RaceInv, NEW s \in Servers, NEW c \in Batches, ServerDoes(s, c),
         NEW b \in Batches \ disturbed'
  PROVE  Download!Step(b)
<1>1. Typed /\ Inv /\ b \notin disturbed /\ listed' = listed /\ BatchInv(b)
  BY StaysOnBatch DEF RaceInv, Inv, Undisturbed
<1>2. CASE b # c
  <2>1. Apart(b)
    BY <1>1, <1>2, OthersApart
  <2>2. QED
    BY <1>1, <2>1, SameTasks DEF Apart
<1>3. CASE b = c
  <2>1. OnIt(s, b) /\ batch \in [Batches -> Metas]
    BY <1>1, <1>3, ServerOnIt DEF Typed, TypeOK
  <2>2. CASE server[s].b = b /\ SaveDispatching(s)
    <3>1. batch[b].state = "Collecting" /\ batch'[b].state = "Dispatching" /\ task' = task
      BY <1>1, <2>1, <2>2 DEF SaveDispatching, BatchInv, Dispatcher, DispatchedBy, DispatchStages,
                              Closed
    <3>2. Answers'[b] = Answers[b] /\ Standing[b] = "Collecting" /\ Standing'[b] = "Dispatching"
      BY <1>1, <3>1, SameTasks, Said
    <3>3. QED
      BY <3>2 DEF Download!Step, Download!Moves
  <2>3. CASE server[s].b = b /\ ListTargets(s)
    <3>1. /\ batch[b].state \in {"Dispatching"} \cup TerminalStates /\ task' = task
          /\ batch'[b].state = "Dispatching" /\ Fresh(b)
      BY <1>1, <2>1, <2>3 DEF ListTargets, BatchInv, Dispatcher, DispatchedBy, DispatchStages,
                              Closed, Metas
    <3>2. CASE batch[b].state \in TerminalStates
      <4>1. \A t \in listed[b] : task[b][t] = "none"
        BY <1>1, <3>1, <3>2 DEF BatchInv, StateInv, Told, Fresh, OpenStates, Typed, TypeOK
      <4>2. \A t \in Targets : Answers[b][t] = "none"
        BY <1>1, <4>1, Counts
      <4>3. /\ Answers'[b] = Answers[b] /\ Standing'[b] = "Dispatching"
            /\ Standing[b] \in Download!Ended
        BY <1>1, <3>1, <3>2, SameTasks, Said DEF TerminalStates, Download!Ended
      <4>4. QED
        BY <4>2, <4>3 DEF Download!Step, Download!Reopens, Download!Moves
    <3>3. CASE batch[b].state = "Dispatching"
      BY <1>1, <3>1, <3>3, SameTasks
    <3>4. QED
      BY <3>1, <3>2, <3>3
  <2>4. CASE /\ server[s].b = b
             /\ \/ ShardFails(s) \/ RecordShard(s) \/ ShardUnrecorded(s)
                \/ ApplyInTime(s) \/ ApplyTooLate(s, b) \/ RepairTimeoutBatch(s)
                \/ ServerFails(s) /\ task'[b] # task[b]
    BY <1>1, <2>1, <2>4, WorkForward, ForwardSteps DEF BatchInv
  <2>5. CASE server[s].b = b /\ SaveOutcome(s)
    <3> DEFINE outcome == server[s].outcome
    <3>1. Refreshing(s, b) /\ task' = task
      BY <2>5 DEF SaveOutcome, Refreshing, RefreshStages
    <3>2. batch'[b].state = outcome /\ batch[b].state = "Dispatching"
      BY <2>1, <2>5, <3>1, RefreshFacts DEF SaveOutcome, Closed
    <3>3. CASE outcome = "Dispatching"
      BY <1>1, <3>1, <3>2, <3>3, SameTasks
    <3>4. CASE outcome # "Dispatching"
      <4>1. Told(b, outcome)
        BY <1>1, <2>5, <3>1, <3>4 DEF SaveOutcome, BatchInv, Refresher, Ending
      <4>2. /\ outcome = Download!Outcome(b)
            /\ \A t \in Targets : Answers[b][t] \notin Download!Open
        BY <1>1, <4>1, ToldOutcome
      <4>3. Answers'[b] = Answers[b] /\ Standing[b] = "Dispatching" /\ Standing'[b] = outcome
        BY <1>1, <3>1, <3>2, SameTasks, Said
      <4>4. QED
        BY <4>2, <4>3 DEF Download!Step, Download!Ends, Download!Moves
    <3>5. QED
      BY <3>3, <3>4
  <2>6. CASE batch' = batch /\ task'[b] = task[b]
    BY <1>1, <2>6, SameTasks
  <2>7. QED
    BY <1>3, <2>2, <2>3, <2>4, <2>5, <2>6
       DEF ServerDoes, ServerStep, TransferShard, EndDispatch, FinalizeBatch, ServerFails,
           TakeDueBatch, AskGSE
<1>4. QED
  BY <1>2, <1>3

LEMMA MappedTypes ==
  TypeOK => /\ Standing \in [Batches -> Download!States]
            /\ Answers \in [Batches -> [Targets -> Download!Tasks]]
<1> SUFFICES ASSUME TypeOK PROVE /\ Standing \in [Batches -> Download!States]
                                 /\ Answers \in [Batches -> [Targets -> Download!Tasks]]
  OBVIOUS
<1>1. \A b \in Batches : batch[b].state \in Download!States
  BY DEF TypeOK, Metas, TerminalStates, Download!States, Download!Ended
<1>2. \A b \in Batches, t \in Targets : task[b][t] \in Download!Tasks
  BY DEF TypeOK, TaskStates, OpenStates, FinalStates, Download!Tasks, Download!Open
<1>3. "lost" \in Download!States /\ "none" \in Download!Tasks
  BY DEF Download!States, Download!Tasks
<1>4. Standing \in [Batches -> Download!States]
  BY <1>1, <1>3 DEF Standing
<1>5. Answers \in [Batches -> [Targets -> Download!Tasks]]
  BY <1>2, <1>3 DEF Answers
<1>6. QED
  BY <1>4, <1>5

\* Requests, dispatchers and refreshers that write from copies they read earlier, with late
\* answers, repairs and crashes in between, come to batches of DownloadBatch: every batch nothing
\* raced in goes forward with its tasks and ends once, as they did.
THEOREM Downloads == Spec => ImplementsDownload
<1>1. Init => Download!Init
  <2> SUFFICES ASSUME Init PROVE Download!Init
    OBVIOUS
  <2>1. \A b \in Batches : batch[b].state = "none" /\ listed[b] = {} /\ b \notin disturbed
    BY DEF Init, Closed
  <2>2. QED
    BY <2>1 DEF Standing, Answers, Download!Init
<1>2. TypeOK' => (/\ Standing \in [Batches -> Download!States]
                  /\ Answers \in [Batches -> [Targets -> Download!Tasks]])'
  BY MappedTypes, PTL
<1>3. RaceInv /\ RaceInv' /\ [Next]_vars => [Download!Next]_<<Standing, Answers>>
  <2> SUFFICES ASSUME RaceInv, RaceInv', [Next]_vars PROVE Download!Next
    OBVIOUS
  <2>1. Typed /\ TypeOK'
    BY DEF RaceInv, Inv, Typed
  <2>2. ASSUME NEW b \in Batches PROVE Download!Step(b)
    <3>1. CASE b \in disturbed'
      BY <3>1, LostSteps
    <3>2. CASE b \notin disturbed'
      <4>1. ASSUME (\E c \in Batches : WindowEnds(c)) \/ UNCHANGED vars PROVE Download!Step(b)
        <5>1. UNCHANGED <<task, listed, disturbed>> /\ batch'[b].state = batch[b].state
          BY <2>1, <4>1, TimeKeeps
        <5>2. QED
          BY <3>2, <5>1, SameTasks
      <4>2. QED
        BY <2>1, <3>2, <4>1, StepsAre, RequestSteps, ServerSteps
    <3>3. QED
      BY <3>1, <3>2
  <2>3. /\ Standing' \in [Batches -> Download!States]
        /\ Answers' \in [Batches -> [Targets -> Download!Tasks]]
    BY <1>2, <2>1
  <2>4. QED
    BY <2>2, <2>3 DEF Download!Next
<1>4. QED
  BY <1>1, <1>3, InitRace, NextRace, PTL DEF Spec, ImplementsDownload, Download!Spec
=============================================================================
