----------------------------- MODULE EventLoop ------------------------------
(***************************************************************************)
(* The event loop of cache-service (cmd/cache-service/service/cache/event: *)
(* loop_watch.go, consumer.go, purge.go) over the event table of EventLog. *)
(* Every instance runs the loop; only one that believes it is the master   *)
(* works.  It lists the events behind its cursor, takes the prefix that is *)
(* ready, refreshes Redis from the database event by event and then        *)
(* records the last id in the CursorReminder row, from which the next      *)
(* master continues.  Other requests fill a missing Redis key from the     *)
(* database at the same time (service/cache/client).                       *)
(*                                                                         *)
(* A refresh is a read of the database followed by a write to Redis, so    *)
(* two masters, or a master and a fill, interleave between the two.        *)
(***************************************************************************)
EXTENDS EventLog, Sequences, FiniteSetsExt

CONSTANTS
    Nodes,       \* the cache-service instances
    Fillers,     \* requests that may fill a missing key
    None,        \* no value in Redis
    Limit,       \* page size of List (200 in the code)
    MaxFaults    \* bound: failed calls, crashes and lost masterships

ASSUME LoopAssumption == Limit \in Nat \ {0} /\ None \notin Nat /\ MaxFaults \in Nat

VARIABLES
    \* shared by all instances
    redis,      \* [Keys -> version or None]
    reminder,   \* resource_id of the CursorReminder row
    old,        \* rows created more than 14 days ago
    \* one instance's service discovery flag and its observer
    master,     \* serviced.isMasterFlag
    preState,   \* observer.preState
    \* one instance's loop
    pc,            \* "top": head of loop; "list": doOneStep; "consume"; "record"
    initialized,
    currentCursor,
    start,         \* loopOneStep's start
    batch,         \* doOneStep's filterOut
    last,          \* id of filterOut's last event
    unseen,        \* ids up to last that had no row when filterOut was listed
    stage,         \* index in Stages of the refresh under way
    todo,          \* its events not handled yet
    loaded,        \* values read from the database and not written to Redis yet
    \* the fills under way
    fill,       \* [Fillers -> {} or one value read from the database]
    \* history and bounds
    handled,    \* events of batches consumed to the end
    gaps,       \* ids some instance moved past when they had no row
    overtaken,  \* rows a fill wrote late, or whose event was taken before its transaction ended
    faults      \* failures so far

nodeVars == <<pc, initialized, currentCursor, start, batch, last, unseen, stage, todo, loaded>>
loopVars == <<redis, reminder, old, master, preState, nodeVars, fill, handled, gaps, overtaken,
              faults>>
vars == <<logVars, loopVars>>

-----------------------------------------------------------------------------
(* consume() sorts a batch by operation, then by resource. *)

Stages == <<"publishMeta", "publish", "insertApp", "updateApp", "updateCred",
            "deleteApp", "deleteCred">>
Finished == Len(Stages) + 1

\* Mutant of StageKinds: consumeDeleteEvent has no case for applications.
StageKindsWithoutDeleteApp(s) ==
    CASE Stages[s] = "publishMeta" -> {"publish"}
      [] Stages[s] = "updateCred"  -> {"updateCred", "reviseCred"}
      [] Stages[s] = "deleteApp"   -> {}
      [] OTHER                     -> {Stages[s]}

StageKinds(s) ==
    CASE Stages[s] = "publishMeta" -> {"publish"}
      [] Stages[s] = "updateCred"  -> {"updateCred", "reviseCred"}
      [] OTHER                     -> {Stages[s]}

StageEvents(events, s) ==
    IF s = Finished THEN {}
    ELSE {eventID[t] : t \in {u \in Txns : eventID[u] \in events /\ KindOf[u] \in StageKinds(s)}}

\* The next stage the batch has events for; publish events make two.
NextStage(events, s) ==
    Min({Finished} \cup {r \in (s + 1)..Len(Stages) : StageEvents(events, r) # {}})

KeysOf(events) == {KeyOf[t] : t \in {u \in Txns : eventID[u] \in events}}

AppKeys == {KeyOf[t] : t \in {u \in Txns : KindOf[u] \in {"insertApp", "updateApp", "deleteApp"}}}

Value == [key : Keys, version : Nat]
Load(keys) == {[key |-> k, version |-> db[k]] : k \in keys}
Live(keys) == {k \in keys : db[k] > 0}

LoopTypeOK ==
    /\ redis \in [Keys -> Nat \cup {None}]
    /\ reminder \in 0..MaxEvents
    /\ old \subseteq Ids
    /\ master \in [Nodes -> BOOLEAN] /\ preState \in [Nodes -> BOOLEAN]
    /\ pc \in [Nodes -> {"top", "list", "consume", "record"}]
    /\ initialized \in [Nodes -> BOOLEAN]
    /\ currentCursor \in [Nodes -> 0..MaxEvents] /\ start \in [Nodes -> 0..MaxEvents]
    /\ batch \in [Nodes -> SUBSET Ids]
    /\ last \in [Nodes -> 0..MaxEvents]
    /\ unseen \in [Nodes -> SUBSET Ids]
    /\ stage \in [Nodes -> 0..Finished]
    /\ todo \in [Nodes -> SUBSET (0..MaxEvents)]
    /\ loaded \in [Nodes -> SUBSET Value]
    /\ fill \in [Fillers -> SUBSET Value]
    /\ handled \subseteq Ids /\ gaps \subseteq Ids /\ overtaken \subseteq Keys
    /\ faults \in 0..MaxFaults

TypeOK == LogTypeOK /\ LoopTypeOK

LoopInit ==
    /\ redis = [k \in Keys |-> None]
    /\ reminder = 0
    /\ old = {}
    /\ master = [n \in Nodes |-> FALSE]
    /\ preState = [n \in Nodes |-> FALSE]
    /\ pc = [n \in Nodes |-> "top"]
    /\ initialized = [n \in Nodes |-> FALSE]
    /\ currentCursor = [n \in Nodes |-> 0]
    /\ start = [n \in Nodes |-> 0]
    /\ batch = [n \in Nodes |-> {}]
    /\ last = [n \in Nodes |-> 0]
    /\ unseen = [n \in Nodes |-> {}]
    /\ stage = [n \in Nodes |-> 0]
    /\ todo = [n \in Nodes |-> {}]
    /\ loaded = [n \in Nodes |-> {}]
    /\ fill = [f \in Fillers |-> {}]
    /\ handled = {}
    /\ gaps = {}
    /\ overtaken = {}
    /\ faults = 0

Init == LogInit /\ LoopInit

-----------------------------------------------------------------------------
(* loop(): the head of an iteration. *)

observerVars == <<master, preState>>
batchVars == <<start, batch, last, unseen, stage, todo, loaded>>
historyVars == <<handled, gaps, overtaken>>

\* A call to the database or to Redis fails.
Fault == faults < MaxFaults /\ faults' = faults + 1

\* Mutant of ReWatch: a restarted loop trusts the cursor it has.
ReWatchKeepsCursor(n) ==
    /\ pc[n] = "top"
    /\ preState[n] # master[n] \/ ~initialized[n]
    /\ preState' = [preState EXCEPT ![n] = master[n]]
    /\ initialized' = [initialized EXCEPT ![n] = TRUE]
    /\ UNCHANGED <<logVars, redis, reminder, old, master, pc, currentCursor, batchVars, fill,
                   historyVars, faults>>

\* Mutant of ReWatch: it starts at the newest event instead of the recorded one.
ReWatchAtNewest(n) ==
    /\ pc[n] = "top"
    /\ preState[n] # master[n] \/ ~initialized[n]
    /\ preState' = [preState EXCEPT ![n] = master[n]]
    /\ currentCursor' = [currentCursor EXCEPT ![n] = Max({0} \cup Visible)]
    /\ initialized' = [initialized EXCEPT ![n] = TRUE]
    /\ UNCHANGED <<logVars, redis, reminder, old, master, pc, batchVars, fill, historyVars, faults>>

\* tryNext() reports a change of state, or the loop has no cursor yet: read it again.
ReWatch(n) ==
    /\ pc[n] = "top"
    /\ preState[n] # master[n] \/ ~initialized[n]
    /\ preState' = [preState EXCEPT ![n] = master[n]]
    /\ \/ /\ currentCursor' = [currentCursor EXCEPT ![n] = reminder]
          /\ initialized' = [initialized EXCEPT ![n] = TRUE]
          /\ UNCHANGED faults
       \/ /\ Fault
          /\ initialized' = [initialized EXCEPT ![n] = FALSE]
          /\ UNCHANGED currentCursor
    /\ UNCHANGED <<logVars, redis, reminder, old, master, pc, batchVars, fill, historyVars>>

\* A master enters loopOneStep.
Loop(n) ==
    /\ pc[n] = "top"
    /\ preState[n] /\ master[n] /\ initialized[n]
    /\ pc' = [pc EXCEPT ![n] = "list"]
    /\ start' = [start EXCEPT ![n] = currentCursor[n]]
    /\ UNCHANGED <<logVars, redis, reminder, old, observerVars, initialized, currentCursor,
                   batch, last, unseen, stage, todo, loaded, fill, historyVars, faults>>

-----------------------------------------------------------------------------
(* doOneStep(): one page of events. *)

\* List: the first Limit rows behind the cursor, in the order of their ids.
Listed(cursor) ==
    {i \in Visible : /\ i > cursor
                     /\ Cardinality({j \in Visible : cursor < j /\ j <= i}) <= Limit}

\* Mutant of Ready: an unknown event is taken at once.
ReadyAtOnce(i) == i \in Visible

\* Mutant of Ready: an unknown event is never taken, however old it is.
ReadyWhenFinal(i) == status[i] # "unknown"

\* The final status is known, or the row is old enough to be taken for a success.
Ready(i) == status[i] # "unknown" \/ i \in aged

\* Mutant of FilterOut: "continue" where the loop must "break".
FilterOutWithoutBreak(page) == {i \in page : Ready(i)}

\* filterOut: the events before the first one that is not ready.
FilterOut(page) == {i \in page : \A j \in page : j <= i => Ready(j)}

\* Mutant of ListBatch: the cursor goes one past the batch's last event.
ListBatchOnePast(n) ==
    LET events == FilterOut(Listed(start[n])) IN
    /\ pc[n] = "list"
    /\ \E top \in events : (\A i \in events : i <= top) /\ last' = [last EXCEPT ![n] = top + 1]
    /\ batch' = [batch EXCEPT ![n] = events]
    /\ stage' = [stage EXCEPT ![n] = NextStage(events, 0)]
    /\ todo' = [todo EXCEPT ![n] = StageEvents(events, NextStage(events, 0))]
    /\ pc' = [pc EXCEPT ![n] = "consume"]
    /\ UNCHANGED <<logVars, redis, reminder, old, observerVars, initialized, currentCursor,
                   start, unseen, loaded, fill, historyVars, faults>>

ListBatch(n) ==
    LET events == FilterOut(Listed(start[n])) IN
    /\ pc[n] = "list"
    /\ \E top \in events :
         /\ \A i \in events : i <= top
         /\ last' = [last EXCEPT ![n] = top]
         /\ unseen' = [unseen EXCEPT ![n] =
                         {i \in Ids : start[n] < i /\ i < top /\ i \notin Visible}]
    /\ overtaken' = overtaken \cup {KeyOf[t] : t \in {u \in Txns : eventID[u] \in events /\ Open(u)}}
    /\ batch' = [batch EXCEPT ![n] = events]
    /\ stage' = [stage EXCEPT ![n] = NextStage(events, 0)]
    /\ todo' = [todo EXCEPT ![n] = StageEvents(events, NextStage(events, 0))]
    /\ pc' = [pc EXCEPT ![n] = "consume"]
    /\ UNCHANGED <<logVars, redis, reminder, old, observerVars, initialized, currentCursor,
                   start, loaded, fill, handled, gaps, faults>>

\* Nothing is ready: the cursor is recorded if the loop has moved, else the iteration ends.
AtEnd(n) ==
    /\ pc[n] = "list"
    /\ FilterOut(Listed(start[n])) = {}
    /\ pc' = [pc EXCEPT ![n] = IF start[n] = currentCursor[n] THEN "top" ELSE "record"]
    /\ UNCHANGED <<logVars, redis, reminder, old, observerVars, initialized, currentCursor,
                   batchVars, fill, historyVars, faults>>

\* RecordCursor, an upsert of whatever the instance holds; its failure leaves the cursor.
RecordCursor(n) ==
    /\ pc[n] = "record"
    /\ pc' = [pc EXCEPT ![n] = "top"]
    /\ \/ /\ reminder' = start[n]
          /\ currentCursor' = [currentCursor EXCEPT ![n] = start[n]]
          /\ UNCHANGED faults
       \/ Fault /\ UNCHANGED <<reminder, currentCursor>>
    /\ UNCHANGED <<logVars, redis, old, observerVars, initialized, batchVars, fill, historyVars>>

-----------------------------------------------------------------------------
(* consume(): the stages of a batch. *)

InStage(n, names) == pc[n] = "consume" /\ stage[n] # Finished /\ Stages[stage[n]] \in names

consumeFrame == <<logVars, reminder, old, observerVars, pc, initialized, currentCursor,
                  start, batch, last, unseen, stage, fill, historyVars, faults>>

\* refreshAllCache passes the publish events to refreshAppMetaCache, which takes their release
\* ids for app ids: it refreshes whichever apps happen to have such an id.
ReadMetaOfPublish(n) ==
    /\ InStage(n, {"publishMeta"}) /\ todo[n] # {}
    /\ \E apps \in SUBSET Live(AppKeys) : loaded' = [loaded EXCEPT ![n] = Load(apps)]
    /\ todo' = [todo EXCEPT ![n] = {}]
    /\ UNCHANGED <<redis, consumeFrame>>

\* cacheReleasedGroup: one goroutine per app reads the app's groups.
ReadReleasedGroups(n) ==
    /\ InStage(n, {"publish"})
    /\ \E k \in KeysOf(todo[n]) :
         /\ loaded' = [loaded EXCEPT ![n] = @ \cup Load({k})]
         /\ todo' = [todo EXCEPT ![n] = {i \in @ : k \notin KeysOf({i})}]
    /\ UNCHANGED <<redis, consumeFrame>>

\* refreshAppMetaCache: one query for all apps; a deleted app is not in its result.
ReadAppMeta(n) ==
    /\ InStage(n, {"insertApp", "updateApp"}) /\ todo[n] # {}
    /\ loaded' = [loaded EXCEPT ![n] = Load(Live(KeysOf(todo[n])))]
    /\ todo' = [todo EXCEPT ![n] = {}]
    /\ UNCHANGED <<redis, consumeFrame>>

\* refreshCredentialCache, one event after the other.  A credential that is gone ends the
\* whole refresh with success ("return nil"), whatever events are left.
ReadCredential(n) ==
    /\ InStage(n, {"updateCred"}) /\ loaded[n] = {}
    /\ \E i \in todo[n] :
         /\ \A j \in todo[n] : i <= j
         /\ loaded' = [loaded EXCEPT ![n] = Load(Live(KeysOf({i})))]
         /\ todo' = [todo EXCEPT ![n] = IF Live(KeysOf({i})) = {} THEN {} ELSE @ \ {i}]
    /\ UNCHANGED <<redis, consumeFrame>>

\* bds.Set of one value that was read.
WriteRedis(n) ==
    /\ pc[n] = "consume"
    /\ \E v \in loaded[n] :
         /\ redis' = [redis EXCEPT ![v.key] = v.version]
         /\ loaded' = [loaded EXCEPT ![n] = @ \ {v}]
    /\ UNCHANGED <<todo, consumeFrame>>

\* deleteAppMetaCache, deleteCredentialCache.
DeleteRedis(n) ==
    /\ InStage(n, {"deleteApp", "deleteCred"}) /\ todo[n] # {}
    /\ redis' = [k \in Keys |-> IF k \in KeysOf(todo[n]) THEN None ELSE redis[k]]
    /\ todo' = [todo EXCEPT ![n] = {}]
    /\ UNCHANGED <<loaded, consumeFrame>>

\* The stage's events are done: the next stage begins.
StageDone(n) ==
    /\ pc[n] = "consume" /\ stage[n] # Finished
    /\ todo[n] = {} /\ loaded[n] = {}
    /\ LET s == NextStage(batch[n], stage[n]) IN
         /\ stage' = [stage EXCEPT ![n] = s]
         /\ todo' = [todo EXCEPT ![n] = StageEvents(batch[n], s)]
    /\ UNCHANGED <<logVars, redis, reminder, old, observerVars, pc, initialized, currentCursor,
                   start, batch, last, unseen, loaded, fill, historyVars, faults>>

\* consume() returned without an error: loopOneStep goes on behind the batch's last event.
Consumed(n) ==
    /\ pc[n] = "consume" /\ stage[n] = Finished
    /\ pc' = [pc EXCEPT ![n] = "list"]
    /\ start' = [start EXCEPT ![n] = last[n]]
    /\ handled' = handled \cup batch[n]
    /\ gaps' = gaps \cup unseen[n]
    /\ batch' = [batch EXCEPT ![n] = {}]
    /\ unseen' = [unseen EXCEPT ![n] = {}]
    /\ stage' = [stage EXCEPT ![n] = 0]
    /\ last' = [last EXCEPT ![n] = 0]
    /\ UNCHANGED <<logVars, redis, reminder, old, observerVars, initialized, currentCursor,
                   todo, loaded, fill, overtaken, faults>>

\* The batch is given up; the next one is listed again.
Abandon(n) ==
    /\ batch' = [batch EXCEPT ![n] = {}]
    /\ unseen' = [unseen EXCEPT ![n] = {}]
    /\ stage' = [stage EXCEPT ![n] = 0]
    /\ last' = [last EXCEPT ![n] = 0]
    /\ todo' = [todo EXCEPT ![n] = {}]
    /\ loaded' = [loaded EXCEPT ![n] = {}]

\* Mutant of StepFails: the next iteration begins behind the page that failed.
StepFailsMovesOn(n) ==
    /\ pc[n] \in {"list", "consume"}
    /\ Fault
    /\ pc' = [pc EXCEPT ![n] = "top"]
    /\ currentCursor' = [currentCursor EXCEPT ![n] = Max({start[n], last[n]})]
    /\ Abandon(n)
    /\ UNCHANGED <<logVars, redis, reminder, old, observerVars, initialized, start, fill,
                   historyVars>>

\* List or consume() fails: loopOneStep returns "retry" and the cursor stays where the
\* iteration found it, although batches before this one were consumed.
StepFails(n) ==
    /\ pc[n] \in {"list", "consume"}
    /\ Fault
    /\ pc' = [pc EXCEPT ![n] = "top"]
    /\ Abandon(n)
    /\ UNCHANGED <<logVars, redis, reminder, old, observerVars, initialized, currentCursor,
                   start, fill, historyVars>>

\* The instance crashes and restarts.
Restart(n) ==
    /\ Fault
    /\ pc' = [pc EXCEPT ![n] = "top"]
    /\ master' = [master EXCEPT ![n] = FALSE]
    /\ preState' = [preState EXCEPT ![n] = FALSE]
    /\ initialized' = [initialized EXCEPT ![n] = FALSE]
    /\ currentCursor' = [currentCursor EXCEPT ![n] = 0]
    /\ start' = [start EXCEPT ![n] = 0]
    /\ Abandon(n)
    /\ UNCHANGED <<logVars, redis, reminder, old, fill, historyVars>>

-----------------------------------------------------------------------------
(* What happens around the loop. *)

environmentFrame == <<logVars, preState, nodeVars, historyVars>>

\* serviced's flag.  Each instance sets its own from what it last read in etcd, so two may
\* be set at a time, or none.
BecomeMaster(n) ==
    /\ ~master[n]
    /\ master' = [master EXCEPT ![n] = TRUE]
    /\ UNCHANGED <<environmentFrame, redis, reminder, old, fill, faults>>

LoseMaster(n) ==
    /\ master[n]
    /\ Fault
    /\ master' = [master EXCEPT ![n] = FALSE]
    /\ UNCHANGED <<environmentFrame, redis, reminder, old, fill>>

\* Fourteen days pass for a row.
GrowOld(i) ==
    /\ i \in Visible \ old
    /\ old' = old \cup {i}
    /\ UNCHANGED <<environmentFrame, master, redis, reminder, fill, faults>>

\* purger.purge on the master: rows up to an old one go, handled or not, oldest first.
Purge(n) ==
    /\ master[n]
    /\ \E oldest \in old \cap Visible : \E upto \in {i \in Visible : i <= oldest} :
         status' = [i \in Ids |-> IF i <= upto THEN "none" ELSE status[i]]
    /\ UNCHANGED <<maxID, txn, eventID, aged, db, loopVars>>

\* A request misses the key and reads the row (refreshAppMetaCache and its like in client/).
ReadForFill(f) ==
    /\ fill[f] = {}
    /\ \E k \in Live(Keys) :
         /\ redis[k] = None
         /\ fill' = [fill EXCEPT ![f] = Load({k})]
    /\ UNCHANGED <<environmentFrame, master, redis, reminder, old, faults>>

\* It writes what it read.
WriteFill(f) ==
    /\ \E v \in fill[f] :
         /\ redis' = [redis EXCEPT ![v.key] = v.version]
         /\ overtaken' = IF v.version = db[v.key] THEN overtaken ELSE overtaken \cup {v.key}
    /\ fill' = [fill EXCEPT ![f] = {}]
    /\ UNCHANGED <<logVars, observerVars, nodeVars, handled, gaps, reminder, old, faults>>

\* The TTL of a key runs out.
Expire(k) ==
    /\ redis[k] # None
    /\ redis' = [redis EXCEPT ![k] = None]
    /\ UNCHANGED <<environmentFrame, master, reminder, old, fill, faults>>

-----------------------------------------------------------------------------

\* The steps of an instance that its loop keeps taking.
Progress(n) ==
    \/ ReWatch(n) \/ Loop(n)
    \/ ListBatch(n) \/ AtEnd(n) \/ RecordCursor(n)
    \/ ReadMetaOfPublish(n) \/ ReadReleasedGroups(n) \/ ReadAppMeta(n) \/ ReadCredential(n)
    \/ WriteRedis(n) \/ DeleteRedis(n) \/ StageDone(n) \/ Consumed(n)

Next ==
    \/ LogNext /\ UNCHANGED loopVars
    \/ \E n \in Nodes : \/ Progress(n) \/ StepFails(n) \/ Restart(n)
                        \/ BecomeMaster(n) \/ LoseMaster(n) \/ Purge(n)
    \/ \E i \in Ids : GrowOld(i)
    \/ \E f \in Fillers : ReadForFill(f) \/ WriteFill(f)
    \/ \E k \in Keys : Expire(k)

Spec == Init /\ [][Next]_vars

\* Transactions end, rows age, every instance keeps looping, and a group of instances that has
\* lost its master elects one.
FairSpec ==
    /\ Spec
    /\ \A t \in Txns : WF_vars((Fire(t) \/ CommitWithEvent(t) \/ Commit(t)) /\ UNCHANGED loopVars)
    /\ \A i \in Ids : WF_vars(Age(i) /\ UNCHANGED loopVars)
    /\ \A n \in Nodes : WF_vars(Progress(n))
    /\ WF_vars((\A n \in Nodes : ~master[n]) /\ \E n \in Nodes : BecomeMaster(n))

-----------------------------------------------------------------------------
(* What the pipeline promises. *)

\* The recorded cursor never covers an event the consumers did not see, except one whose row
\* appeared behind an instance that had already gone past its id: neither a retry, nor a
\* page boundary, nor a crash, nor two masters at a time lose one (loop, loopOneStep).
NoLossBehindCursor == \A i \in Visible : i <= reminder => i \in handled \cup gaps

\* What RecordCursor's contract says: consumed "without being skipped or lost" (event.go).
NoEventSkipped == \A i \in Visible : i <= reminder => i \in handled

\* An event that is handled before its lag time belongs to a transaction that has ended, so
\* its refresh reads the committed row (Finalizer, FireWithTx, doOneStep's filter).
HandledAfterEnd ==
    \A t \in Txns : eventID[t] \in handled \ aged => ~Open(t)

\* Every committed change of the row has been handled after its commit.
CaughtUp(k) ==
    \A t \in Txns : KeyOf[t] = k /\ txn[t] \in {"committed", "succeeded"}
                      => eventID[t] \in handled \ aged

Quiet == (\A n \in Nodes : loaded[n] = {}) /\ (\A f \in Fillers : fill[f] = {})

Fresh(keys) == Quiet => \A k \in keys : CaughtUp(k) => redis[k] \in {None, db[k]}

CredKeys == {KeyOf[t] : t \in {u \in Txns : KindOf[u] \in {"updateCred", "reviseCred", "deleteCred"}}}

\* With one master and no fill, Redis holds no outdated app or released group once the events
\* about it are handled, although a batch is reordered by operation and retried in part.
FreshOnceCaughtUp == Fresh(Keys \ CredKeys)

\* The same of credentials, whose refresh claims to ignore only the deleted ones.
CredentialFreshOnceCaughtUp == Fresh(CredKeys)

\* One instance alone never records a cursor behind the recorded one.
CursorNeverMovesBack == [][reminder' >= reminder]_vars

\* A row that stays in the table is handled in the end, or was passed before it appeared.
EventuallyHandled == \A i \in Ids : i \in Visible ~> (i \in handled \cup gaps \/ i \notin Visible)

\* A committed change of the row whose event was passed before it appeared, or purged unhandled.
Lost(k) ==
    \E t \in Txns : /\ KeyOf[t] = k /\ txn[t] \in {"committed", "succeeded"}
                    /\ \/ eventID[t] \in gaps \ handled
                       \/ eventID[t] \notin Visible \cup handled

\* The loop itself takes an outdated value out of Redis, without the help of a TTL: through
\* failed pages, crashes and lost masterships it comes back to the event of the change, and its
\* refresh replaces what is there (loop, loopOneStep, consume).  Left out are rows whose event
\* was lost, or which were overtaken: those an outdated value may stay of until its TTL ends.
StaleIsRefreshed ==
    \A k \in Keys : (redis[k] \notin {None, db[k]})
                      ~> (redis[k] \in {None, db[k]} \/ k \in overtaken \/ Lost(k))

=============================================================================
