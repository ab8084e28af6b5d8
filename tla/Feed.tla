-------------------------------- MODULE Feed --------------------------------
(***************************************************************************)
(* One feed server telling sidecars of releases (cmd/feed-server/bll:      *)
(* observer, eventc, lcache, release).  The observer follows the events    *)
(* the cache-service has consumed, purges the local cache and pipes them   *)
(* to the scheduler; the scheduler queues them at the app, whose handler   *)
(* has every subscribed sidecar matched with a release and sends it; what  *)
(* fails goes to a retry list with a worker of its own.  A sidecar that    *)
(* subscribes is matched at once, by the goroutine of its stream.          *)
(*                                                                         *)
(* One app.  An event is named by its position in the log, a release by    *)
(* the event that published it, and a value of the released groups by the  *)
(* number of events it includes.                                           *)
(***************************************************************************)
EXTENDS Integers, Sequences, FiniteSets, FiniteSetsExt

CONSTANTS
    Watches,        \* watch streams of sidecars, one subscription each
    None,           \* no cached value, not in a list
    MaxEvents,      \* bound: events of the app
    MaxInputs,      \* bound: events and subscriptions together
    MaxFaults       \* bound: calls that fail

ASSUME WatchesAssumption == IsFiniteSet(Watches) /\ Watches # {}
ASSUME FeedBoundsAssumption == MaxEvents \in Nat \ {0} /\ {MaxInputs, MaxFaults} \subseteq Nat
                                    /\ None \notin Nat

VARIABLES
    log,            \* the events of the app, in the order of their ids
    recorded,       \* the cursor of the cache-service: what ListEventsMeta shows
    observer,       \* doLoop: stage, start cursor and the last event it has listed
    cursor,         \* lastCursorID, what CurrentCursor returns
    cache,          \* local cache of released groups: events included, or None
    pipe,           \* batches on their way to the scheduler, each by its last event
    pushed,         \* the last event the scheduler has taken from the pipe
    members,        \* the consumer list of the app's appEvent
    queue,          \* its event queue
    handler,        \* whether the app is in the pool; the events its watchEvents has popped
                    \* and the notifications it waits for
    appCursor,      \* its cursor: the event handled last
    stream,         \* [Watches -> the watch stream: its stage and what it came with]
    job,            \* [Watches -> [Workers -> a match or a notification under way]]
    retry,          \* [Watches -> the cursor in the retry list, or None]
    signal,         \* whether the retry list has signalled
    retrying,       \* [Watches -> the cursor in the worker's copy of the list, or None]
    \* history and bounds
    told,           \* [Watches -> the release the sidecar has heard of last]
    missed,         \* watches a step was lost or came late for (see SettledKnows)
    escaped,        \* watches that unsubscribed while a notification was under way
    faults          \* calls that have failed

Events == 1..MaxEvents
Cursors == 0..MaxEvents
Workers == {"subscribe", "event", "retry"}
EventKinds == {"publish", "again", "delete"}

Matches(w, e) == e.kind = "publish" /\ w \in e.to
\* GetMatchedRelease given the groups after the first v events: the last release published
\* to a group of the sidecar, 0 when there is none.
Matched(w, v) == Max({0} \cup {i \in 1..v : Matches(w, log[i])})

Streams == [stage : {"new", "wait", "adding", "on", "closed", "removed", "gone", "failed"},
            cursor : Cursors, release : Cursors, cancelled : BOOLEAN,
            timing : {"fine", "early", "late"}]   \* history: see AddSidecar
NewStream == [stage |-> "new", cursor |-> 0, release |-> 0, cancelled |-> FALSE,
              timing |-> "fine"]
JobStages == {"idle", "added", "first", "firstFill", "match", "fill", "send"}
\* ver: the groups read; late: whether they come from a fill that ran after a purge
Jobs == [stage : JobStages, cursor : Cursors, ver : Cursors, late : BOOLEAN]
NoHandler == [up |-> FALSE, events |-> <<>>, waits |-> {}]
NoJob == [stage |-> "idle", cursor |-> 0, ver |-> 0, late |-> FALSE]
Job(stage, c) == [stage |-> stage, cursor |-> c, ver |-> 0, late |-> FALSE]

pipelineVars == <<observer, cursor, pipe, pushed>>
appVars == <<members, queue, handler, appCursor>>
retryVars == <<retry, signal, retrying>>
historyVars == <<told, missed, escaped, faults>>
vars == <<log, recorded, pipelineVars, cache, appVars, stream, job, retryVars, historyVars>>

TypeOK ==
    /\ log \in Seq([kind : EventKinds, to : SUBSET Watches]) /\ Len(log) <= MaxEvents
    /\ recorded \in 0..Len(log)
    /\ observer \in [stage : {"list", "purge", "pipe"}, start : Cursors, last : Cursors]
    /\ cursor \in Cursors
    /\ cache \in [ver : Cursors \cup {None}, late : BOOLEAN]
    /\ pipe \in Seq(Cursors)
    /\ pushed \in Cursors
    /\ members \subseteq Watches
    /\ queue \in Seq(Events)
    /\ handler \in [up : BOOLEAN, events : Seq(Events), waits : SUBSET Watches]
    /\ appCursor \in Cursors
    /\ stream \in [Watches -> Streams]
    /\ job \in [Watches -> [Workers -> Jobs]]
    /\ {retry, retrying} \subseteq [Watches -> Cursors \cup {None}]
    /\ signal \in BOOLEAN
    /\ told \in [Watches -> Cursors]
    /\ missed \subseteq Watches
    /\ escaped \subseteq Watches
    /\ faults \in 0..MaxFaults

\* The server starts when the app has been published once, to some of the sidecars: the
\* start cursor is read, lastCursorID is not set.
Init ==
    /\ \E to \in (SUBSET Watches) \ {{}} : log = <<[kind |-> "publish", to |-> to]>>
    /\ recorded = 1
    /\ observer = [stage |-> "list", start |-> 1, last |-> 1]
    /\ cursor = 0
    /\ cache = [ver |-> None, late |-> FALSE]
    /\ pipe = <<>>
    /\ pushed = 1
    /\ members = {}
    /\ queue = <<>>
    /\ handler = NoHandler
    /\ appCursor = 0
    /\ stream = [w \in Watches |-> NewStream]
    /\ job = [w \in Watches |-> [k \in Workers |-> NoJob]]
    /\ retry = [w \in Watches |-> None]
    /\ signal = FALSE
    /\ retrying = [w \in Watches |-> None]
    /\ told = [w \in Watches |-> 0]
    /\ missed = {}
    /\ escaped = {}
    /\ faults = 0

Come == {w \in Watches : stream[w].stage # "new"}
Input == Len(log) + Cardinality(Come) < MaxInputs
Fault == faults < MaxFaults /\ faults' = faults + 1

-----------------------------------------------------------------------------
(* The cache-service, as EventLoop has it: Redis holds the groups of a     *)
(* publish before the cursor reaches its event.                            *)

Fire ==
    /\ Len(log) < MaxEvents /\ Input
    /\ \A i \in 1..Len(log) : log[i].kind # "delete"
    /\ \E e \in [kind : {"publish"}, to : (SUBSET Watches) \ {{}}]
             \cup [kind : {"again"}, to : {{w} : w \in Watches} \cup {Watches}]
             \cup [kind : {"delete"}, to : {{}}] : log' = Append(log, e)
    /\ UNCHANGED <<recorded, pipelineVars, cache, appVars, stream, job, retryVars, historyVars>>

RecordCursor ==
    /\ recorded < Len(log)
    /\ recorded' = Len(log)
    /\ UNCHANGED <<log, pipelineVars, cache, appVars, stream, job, retryVars, historyVars>>

-----------------------------------------------------------------------------
(* observer.go, and the scheduler at the end of its pipe *)

ListEventsWith(c) ==
    /\ observer.stage = "list"
    /\ observer.start < recorded
    /\ observer' = [observer EXCEPT !.stage = "purge", !.last = recorded]
    /\ cursor' = c
    /\ UNCHANGED <<log, recorded, cache, pipe, pushed, appVars, stream, job, retryVars, historyVars>>

\* Mutant of ListEvents: the cursor of the first event of the batch.
ListEventsFirst == ListEventsWith(observer.start + 1)

\* Mutant of ListEvents: the cursor the next batch starts with.
ListEventsNext == ListEventsWith(recorded + 1)

\* listEvents, and the store at the head of handleEvents
ListEvents == ListEventsWith(recorded)

Purges(i) == log[i].kind = "publish"

PurgeCacheIf(purges) ==
    /\ observer.stage = "purge"
    /\ IF purges
       THEN cache' = [ver |-> None, late |-> FALSE]
       ELSE UNCHANGED cache
    /\ observer' = [observer EXCEPT !.stage = "pipe"]
    /\ UNCHANGED <<log, recorded, cursor, pipe, pushed, appVars, stream, job, retryVars,
                   historyVars>>

Batch == observer.start + 1..observer.last

\* Mutant of PurgeCache: an event that purges nothing ends the loop.
PurgeCacheUntilUnused == PurgeCacheIf(\E i \in Batch : \A j \in Batch : j <= i => Purges(j))

\* handler.LocalCache: Cache.Purge
PurgeCache == PurgeCacheIf(\E i \in Batch : Purges(i))

SendToPipe ==
    /\ observer.stage = "pipe"
    /\ pipe' = Append(pipe, observer.last)
    /\ observer' = [observer EXCEPT !.stage = "list", !.start = observer.last]
    /\ UNCHANGED <<log, recorded, cursor, cache, pushed, appVars, stream, job, retryVars,
                   historyVars>>

\* The events the local cache has been purged for
Purged == IF observer.stage = "pipe" THEN observer.last ELSE observer.start

\* AddSidecar keeps appPool.lock while it matches and notifies.
PoolFree == \A w \in Watches : stream[w].stage # "adding"

Push(events) ==
    /\ pipe # <<>>
    /\ PoolFree
    /\ pushed' = Head(pipe)
    /\ pipe' = Tail(pipe)
    /\ queue' = IF handler.up THEN queue \o events ELSE queue
    /\ UNCHANGED <<log, recorded, observer, cursor, cache, members, handler, appCursor, stream, job,
                   retryVars, historyVars>>

\* Mutant of HandleOneBatch: only the last event of an app is handed over.
HandleOneBatchAggregated == Push(<<Head(pipe)>>)

\* handleOneBatch, PushEvent
HandleOneBatch == Push([i \in 1..(Head(pipe) - pushed) |-> pushed + i])

-----------------------------------------------------------------------------
(* GetMatchedRelease, by a goroutine that subscribes or notifies *)

\* retryList.Add, which keeps one entry per member with its largest cursor
Add(list, w, c) == [list EXCEPT ![w] = IF list[w] = None THEN c ELSE Max({list[w], c})]

\* AddSidecar returns when its own notification has ended, whatever came of it.
Notified(w, k) == IF k = "subscribe" THEN [stream EXCEPT ![w].stage = "on"] ELSE stream

\* The job of w and k fails and is left to the retry list.
RetryLater(w, k) ==
    /\ retry' = Add(retry, w, job[w][k].cursor)
    /\ signal' = TRUE
    /\ job' = [job EXCEPT ![w][k] = NoJob]
    /\ stream' = Notified(w, k)
    /\ UNCHANGED retrying

\* Cache.Purge has removed the app's meta, and the cache-service does not find it.
AppGone == \E i \in 1..Purged : log[i].kind = "delete"

\* AddSidecar, once doFirstMatch has returned release r and cursor c
CompareFirst(w, r, c) ==
    /\ IF r # stream[w].release
       THEN job' = [job EXCEPT ![w]["subscribe"] = Job("match", c)] /\ UNCHANGED stream
       ELSE /\ job' = [job EXCEPT ![w]["subscribe"] = NoJob]
            /\ stream' = [stream EXCEPT ![w].stage = "on"]
    /\ UNCHANGED retryVars

\* The groups are read: the first match is compared, a notification is about to be sent.
\* A sidecar that matches nothing has no first match, and its notification is retried.
Match(w, k, ver, late) ==
    LET r == Matched(w, ver) IN
    IF job[w][k].stage \in {"first", "firstFill"}
    THEN CompareFirst(w, r, IF r = 0 THEN 0 ELSE job[w][k].cursor)
    ELSE IF r = 0 THEN RetryLater(w, k)
    ELSE /\ job' = [job EXCEPT ![w][k] = [@ EXCEPT !.stage = "send", !.ver = ver, !.late = late]]
         /\ UNCHANGED <<retryVars, stream>>

matchFrame == <<log, recorded, pipelineVars, appVars, told, escaped>>

ReadCache(w, k) ==
    /\ job[w][k].stage \in {"first", "match"}
    /\ ~AppGone
    /\ cache.ver # None
    /\ Match(w, k, cache.ver, cache.late)
    /\ missed' = IF cache.late THEN missed \cup {w} ELSE missed
    /\ UNCHANGED <<matchFrame, cache, faults>>

\* A miss asks the cache-service, which answers from Redis.
ReadRemote(w, k) ==
    /\ job[w][k].stage \in {"first", "match"}
    /\ ~AppGone
    /\ cache.ver = None
    /\ job' = [job EXCEPT ![w][k] =
                    [@ EXCEPT !.ver = Len(log),
                              !.stage = IF job[w][k].stage = "first" THEN "firstFill"
                                        ELSE "fill"]]
    /\ UNCHANGED <<matchFrame, cache, missed, faults, retryVars, stream>>

\* ReleasedGroup.Get stores what it has read, whatever was purged in between.
FillCache(w, k) ==
    /\ job[w][k].stage \in {"firstFill", "fill"}
    /\ LET ver == job[w][k].ver
           late == \E i \in ver + 1..Purged : Purges(i)
       IN  /\ cache' = [ver |-> ver, late |-> late]
           /\ Match(w, k, ver, late)
           /\ missed' = IF late THEN missed \cup {w} ELSE missed
    /\ UNCHANGED <<matchFrame, faults>>

\* The app is deleted: RecordNotFound, which doFirstMatch takes for no match.
MatchGone(w, k) ==
    /\ job[w][k].stage \in {"first", "match"}
    /\ AppGone
    /\ IF job[w][k].stage = "first" THEN CompareFirst(w, 0, 0) ELSE RetryLater(w, k)
    /\ UNCHANGED <<matchFrame, cache, missed, faults>>

\* Any other error (the limiter, the cache-service): doFirstMatch goes on with release 0.
MatchFails(w, k) ==
    /\ job[w][k].stage \in {"first", "match"}
    /\ Fault
    /\ IF job[w][k].stage = "first"
       THEN CompareFirst(w, 0, job[w][k].cursor) ELSE RetryLater(w, k)
    /\ missed' = IF job[w][k].stage = "first" /\ stream[w].release = 0
                 THEN missed \cup {w} ELSE missed
    /\ UNCHANGED <<matchFrame, cache>>

-----------------------------------------------------------------------------
(* notifyOne: Receiver.Notify and stream.Send *)

notifyFrame == <<log, recorded, pipelineVars, cache, appVars, escaped>>

\* A receiver that is not working any more takes the message for sent.
Closed(w) == stream[w].stage \in {"closed", "removed", "gone"}

NotifyClosed(w, k) ==
    /\ job[w][k].stage = "send"
    /\ Closed(w)
    /\ job' = [job EXCEPT ![w][k] = NoJob]
    /\ UNCHANGED <<notifyFrame, stream, retryVars, told, missed, faults>>

\* A message that overtakes a newer one leaves the sidecar with the older release.
NotifySent(w, k) ==
    /\ job[w][k].stage = "send"
    /\ ~Closed(w) /\ stream[w].stage # "failed"
    /\ LET r == Matched(w, job[w][k].ver) IN
       /\ told' = [told EXCEPT ![w] = r]
       /\ missed' = IF r < told[w] THEN missed \cup {w} ELSE missed
    /\ job' = [job EXCEPT ![w][k] = NoJob]
    /\ stream' = Notified(w, k)
    /\ UNCHANGED <<notifyFrame, retryVars, faults>>

\* The release has nothing in it (no key-values or no config items): nothing is sent and nothing
\* is retried.
NotifyNothing(w, k) ==
    /\ job[w][k].stage = "send"
    /\ ~Closed(w)
    /\ missed' = missed \cup {w}
    /\ job' = [job EXCEPT ![w][k] = NoJob]
    /\ stream' = Notified(w, k)
    /\ UNCHANGED <<notifyFrame, told, retryVars, faults>>

\* The stream is broken, or its handler has returned an error while the sidecar was still
\* a member.
NotifyFails(w, k) ==
    /\ job[w][k].stage = "send"
    /\ ~Closed(w)
    /\ IF stream[w].stage = "failed" THEN UNCHANGED faults ELSE Fault
    /\ RetryLater(w, k)
    /\ UNCHANGED <<notifyFrame, told, missed>>

-----------------------------------------------------------------------------
(* app_event.go: watchEvents and eventHandler *)

handlerFrame == <<log, recorded, pipelineVars, cache, members, told, escaped>>

Pop ==
    /\ handler.up /\ queue # <<>>
    /\ handler' = [handler EXCEPT !.events = queue]
    /\ queue' = <<>>
    /\ UNCHANGED <<handlerFrame, appCursor, stream, job, retryVars, missed, faults>>

\* Mutant of PopAll: the events popped before are not finished.
PopAllEarly == Pop

PopAll == handler.events = <<>> /\ Pop

\* The members an event is about: notifyWithApp, notifyWithInstance, handleAppEvent
Concerned(e) == IF e.kind = "again" THEN members \cap e.to ELSE members

HandleEvent ==
    /\ handler.events # <<>> /\ handler.waits = {}
    /\ LET i == Head(handler.events)
           ws == IF log[i].kind = "delete" THEN {} ELSE Concerned(log[i])
       IN
       /\ job' = [w \in Watches |->
                     IF w \in ws THEN [job[w] EXCEPT !["event"] = Job("match", i)] ELSE job[w]]
       /\ IF ws = {}
          THEN /\ handler' = [handler EXCEPT !.events = Tail(@)]
               /\ appCursor' = i
          ELSE /\ handler' = [handler EXCEPT !.waits = ws]
               /\ UNCHANGED appCursor
       /\ IF log[i].kind = "delete"
          THEN /\ retry' = [w \in Watches |-> None]         \* DeleteAppAllInstance
               /\ stream' = [w \in Watches |->              \* CloseWatch
                                IF w \in members THEN [stream[w] EXCEPT !.cancelled = TRUE]
                                ELSE stream[w]]
          ELSE UNCHANGED <<retry, stream>>
    /\ UNCHANGED <<handlerFrame, queue, signal, retrying, missed, faults>>

\* notifyEvent waits for the notifications of all members.
FinishEvent ==
    /\ handler.waits # {}
    /\ \A w \in handler.waits : job[w]["event"].stage = "idle"
    /\ appCursor' = Head(handler.events)
    /\ handler' = [handler EXCEPT !.events = Tail(@), !.waits = {}]
    /\ UNCHANGED <<handlerFrame, queue, stream, job, retryVars, missed, faults>>

\* EnsureTenantID fails: the event is passed over.
SkipEvent ==
    /\ handler.events # <<>> /\ handler.waits = {}
    /\ Fault
    /\ missed' = missed \cup Concerned(log[Head(handler.events)])
    /\ handler' = [handler EXCEPT !.events = Tail(@)]
    /\ UNCHANGED <<handlerFrame, queue, appCursor, stream, job, retryVars>>

-----------------------------------------------------------------------------
(* scheduler.go: watchRetry *)

workerFrame == <<log, recorded, pipelineVars, cache, appVars, stream, told, escaped>>

\* The worker has a list of its own and notifies its members one after the other.
PurgeRetry ==
    /\ signal
    /\ \A w \in Watches : retrying[w] = None /\ job[w]["retry"].stage = "idle"
    /\ retrying' = retry
    /\ retry' = [w \in Watches |-> None]
    /\ signal' = FALSE
    /\ UNCHANGED <<workerFrame, job, missed, faults>>

RetryNext(w) ==
    /\ retrying[w] # None
    /\ \A u \in Watches : job[u]["retry"].stage = "idle"
    /\ job' = [job EXCEPT ![w]["retry"] = Job("match", retrying[w])]
    /\ retrying' = [retrying EXCEPT ![w] = None]
    /\ UNCHANGED <<workerFrame, retry, signal, missed, faults>>

\* EnsureTenantID fails: the member is out of both lists.
RetryDrops(w) ==
    /\ retrying[w] # None
    /\ \A u \in Watches : job[u]["retry"].stage = "idle"
    /\ Fault
    /\ retrying' = [retrying EXCEPT ![w] = None]
    /\ missed' = missed \cup {w}
    /\ UNCHANGED <<workerFrame, job, retry, signal>>

\* What goes on for w outside its own goroutine: a notification of the handler or the worker
InFlight(w) ==
    \/ retrying[w] # None
    \/ job[w]["event"].stage # "idle" \/ job[w]["retry"].stage # "idle"
Engaged(w) == InFlight(w) \/ retry[w] # None \/ job[w]["subscribe"].stage # "idle"

-----------------------------------------------------------------------------
(* watch.go, pool.go: the stream of a sidecar *)

streamFrame == <<log, recorded, pipelineVars, cache>>

\* A sidecar comes with the release it has and the last event it has heard of, from this
\* server or another one; watchHandler.subscribe reads the app's meta before it waits.
Watch(w) ==
    /\ stream[w].stage = "new" /\ Input
    /\ ~AppGone
    /\ \E c \in 0..recorded : \E v \in c..Len(log) :
          /\ stream' = [stream EXCEPT ![w] = [NewStream EXCEPT !.stage = "wait", !.cursor = c,
                                                               !.release = Matched(w, v)]]
          /\ told' = [told EXCEPT ![w] = Matched(w, v)]
    /\ UNCHANGED <<streamFrame, appVars, job, retryVars, missed, escaped, faults>>

\* waitForObserverReady gives up.
Refuse(w) ==
    /\ stream[w].stage = "wait"
    /\ stream[w].cursor > cursor
    /\ stream' = [stream EXCEPT ![w].stage = "gone"]
    /\ UNCHANGED <<streamFrame, appVars, job, retryVars, historyVars>>

\* early: the cursor is stored and the cache not yet purged; late: the meta that subscribe
\* has read is gone.
Timing(w) == IF stream[w].cursor \in Purged + 1..cursor THEN "early"
             ELSE IF AppGone THEN "late" ELSE "fine"

AddMember(w) ==
    /\ stream' = [stream EXCEPT ![w] = [@ EXCEPT !.stage = "adding", !.timing = Timing(w)]]
    /\ members' = members \cup {w}
    /\ handler' = [handler EXCEPT !.up = TRUE]
    /\ job' = [job EXCEPT ![w]["subscribe"] = Job("added", 0)]
    /\ UNCHANGED <<streamFrame, queue, appCursor, retryVars, historyVars>>

\* Mutant of AddSidecar: the observer's cursor is not waited for.
AddSidecarAtOnce(w) ==
    /\ stream[w].stage = "wait"
    /\ PoolFree
    /\ AddMember(w)

\* waitForObserverReady, AddSidecar of the pool, csm.Add
AddSidecar(w) ==
    /\ stream[w].stage = "wait"
    /\ stream[w].cursor <= cursor
    /\ PoolFree
    /\ AddMember(w)

\* doFirstMatch reads the app's cursor before it matches.
ReadAppCursor(w) ==
    /\ job[w]["subscribe"].stage = "added"
    /\ job' = [job EXCEPT ![w]["subscribe"] = Job("first", appCursor)]
    /\ UNCHANGED <<streamFrame, appVars, stream, retryVars, historyVars>>

\* EnsureTenantID fails: the member is removed, the appEvent stays in the pool, and Watch
\* returns an error without waitForFinalize.
SubscribeFails(w) ==
    /\ job[w]["subscribe"].stage = "added"
    /\ Fault
    /\ members' = members \ {w}
    /\ stream' = [stream EXCEPT ![w].stage = "failed"]
    /\ job' = [job EXCEPT ![w]["subscribe"] = NoJob]
    /\ escaped' = IF InFlight(w) \/ retry[w] # None THEN escaped \cup {w} ELSE escaped
    /\ UNCHANGED <<streamFrame, queue, handler, appCursor, retryVars, told, missed>>

\* waitForFinalize: the stream has ended, the server shuts down, or CloseWatch was called.
Close(w) ==
    /\ stream[w].stage = "on"
    /\ stream' = [stream EXCEPT ![w].stage = "closed"]
    /\ UNCHANGED <<streamFrame, appVars, job, retryVars, historyVars>>

RemoveMember(w, next) ==
    /\ stream[w].stage = "closed"
    /\ PoolFree
    /\ members' = members \ {w}
    /\ IF members = {w}
       THEN queue' = <<>> /\ handler' = NoHandler /\ appCursor' = 0
       ELSE UNCHANGED <<queue, handler, appCursor>>
    /\ stream' = [stream EXCEPT ![w].stage = next]
    /\ UNCHANGED <<streamFrame, job, retryVars, historyVars>>

\* Mutant of RemoveSidecar: Unsubscribe returns once it has stopped the appEvent.
RemoveSidecarStops(w) == RemoveMember(w, IF members = {w} THEN "gone" ELSE "removed")

\* Unsubscribe: RemoveSidecar of the pool, which stops an appEvent without members
RemoveSidecar(w) == RemoveMember(w, "removed")

\* Unsubscribe: DeleteInstance of the retry list
DeleteInstance(w) ==
    /\ stream[w].stage = "removed"
    /\ retry' = [retry EXCEPT ![w] = None]
    /\ stream' = [stream EXCEPT ![w].stage = "gone"]
    /\ escaped' = IF InFlight(w) THEN escaped \cup {w} ELSE escaped
    /\ UNCHANGED <<streamFrame, appVars, job, signal, retrying, told, missed, faults>>

-----------------------------------------------------------------------------
ServerStep ==
    \/ RecordCursor \/ ListEvents \/ PurgeCache \/ SendToPipe \/ HandleOneBatch
    \/ PopAll \/ HandleEvent \/ FinishEvent \/ PurgeRetry

JobStep(w, k) ==
    \/ ReadCache(w, k) \/ ReadRemote(w, k) \/ FillCache(w, k) \/ MatchGone(w, k)
    \/ NotifyClosed(w, k) \/ NotifySent(w, k) \/ NotifyNothing(w, k) \/ NotifyFails(w, k)

Next ==
    \/ Fire \/ ServerStep \/ SkipEvent
    \/ \E w \in Watches :
          \/ \E k \in Workers : JobStep(w, k) \/ MatchFails(w, k)
          \/ RetryNext(w) \/ RetryDrops(w)
          \/ Watch(w) \/ Refuse(w) \/ AddSidecar(w) \/ ReadAppCursor(w) \/ SubscribeFails(w)
          \/ Close(w) \/ RemoveSidecar(w) \/ DeleteInstance(w)

Spec == Init /\ [][Next]_vars

-----------------------------------------------------------------------------
(* Properties *)

\* A message is never older than the event it is sent for: the purge of an event precedes
\* its notifications, and the cursor of a first match precedes the match (doFirstMatch,
\* handleEvents).  A value filled in after a purge is the exception.
FreshForCursor ==
    \A w \in Watches, k \in Workers :
        job[w][k].stage = "send" /\ ~job[w][k].late =>
            Matched(w, job[w][k].ver) >= Matched(w, job[w][k].cursor)

\* A sidecar is never sent a release older than the last event it came with, which is what
\* waitForObserverReady is for, unless it was let in between the store of the cursor and the
\* purge.
NoRollback ==
    \A w \in Watches, k \in Workers :
        job[w][k].stage = "send" /\ ~job[w][k].late /\ stream[w].timing # "early" =>
            Matched(w, job[w][k].ver) >= Matched(w, stream[w].cursor)

\* Everything fired has been recorded, listed and handled, and nothing of w is under way.
Settled(w) ==
    /\ recorded = Len(log) /\ observer.stage = "list" /\ observer.start = recorded
    /\ pipe = <<>> /\ queue = <<>> /\ handler.events = <<>>
    /\ ~Engaged(w)

\* When all is handled, a subscribed sidecar has heard of the release it matches, however its
\* subscription interleaves with the events (csm.Add before doFirstMatch, the purge before the
\* pipe, the retry list).  Excepted are a step that failed for good, a late fill, a release with
\* nothing in it, and a message overtaken by an older one.
SettledKnows ==
    \A w \in Watches \ missed :
        stream[w].stage = "on" /\ ~AppGone /\ Settled(w) =>
            told[w] = Matched(w, Len(log))

\* Nothing is done any more for a sidecar that has unsubscribed, unless it was being notified
\* at that time: Unsubscribe removes the member first and then its retry.
NoneForGone ==
    \A w \in Watches \ escaped :
        stream[w].stage \in {"gone", "failed"} => ~Engaged(w) /\ w \notin members

\* When the deletion of the app has been handled, the streams of all its sidecars are told to
\* end, except one that passed GetMeta before the purge and subscribed after it.
DeletionCloses ==
    \A w \in members \ missed :
        /\ AppGone /\ pipe = <<>> /\ queue = <<>> /\ handler.events = <<>>
        /\ observer.stage = "list"
        /\ stream[w].timing # "late"
        => stream[w].cancelled

\* A server that has listed every event lets in every sidecar, unless it has seen no event
\* since it started: its cursor is 0 until then.
CaughtUpAccepts ==
    observer.start = recorded /\ cursor # 0 =>
        \A w \in Watches : stream[w].stage = "wait" => stream[w].cursor <= cursor

=============================================================================
