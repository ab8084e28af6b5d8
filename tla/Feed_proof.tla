----------------------------- MODULE Feed_proof -----------------------------
(***************************************************************************)
(* Theorems about Feed, for every set of watches and every bound.          *)
(***************************************************************************)
EXTENDS Feed, FiniteSetTheorems, SequenceTheorems, TLAPS

-----------------------------------------------------------------------------
(* The last release of a sidecar. *)

\* A finite set of numbers has a largest one: of the sets of its members from some member
\* on, take a smallest.
LEMMA HasMax ==
  ASSUME NEW S, IsFiniteSet(S), S \subseteq Int, S # {}
  PROVE  \E x \in S : \A y \in S : x >= y
<1> DEFINE From(x) == {y \in S : y >= x}
           T == {From(x) : x \in S}
<1>1. IsWellFoundedOn(StrictSubsetOrdering(S), FiniteSubsetsOf(S))
  BY FS_StrictSubsetOrderingWellFounded
<1>2. T \subseteq FiniteSubsetsOf(S) /\ T # {}
  <2>1. ASSUME NEW x \in S PROVE From(x) \in FiniteSubsetsOf(S)
    BY FS_Subset DEF FiniteSubsetsOf
  <2>2. QED
    BY <2>1
<1>3. PICK x \in S : \A n \in T : <<n, From(x)>> \notin StrictSubsetOrdering(S)
  <2>1. \E m \in T : \A n \in T : <<n, m>> \notin StrictSubsetOrdering(S)
    <3> HIDE DEF T
    <3>1. QED
      BY <1>1, <1>2, WFMin
  <2>2. QED
    BY <2>1
<1>4. ASSUME NEW y \in S, ~ (x >= y) PROVE FALSE
  <2>1. From(y) \subseteq From(x) /\ x \in From(x) /\ x \notin From(y)
    <3>1. x \in Int /\ y \in Int /\ \A z \in From(y) : z \in S /\ z \in Int /\ z >= y
      OBVIOUS
    <3>2. y > x
      BY <1>4, <3>1
    <3>3. \A z \in From(y) : z \in S /\ z >= x
      BY <3>1, <3>2
    <3>4. From(y) \subseteq From(x)
      BY <3>3
    <3>5. x \in From(x) /\ x \notin From(y)
      BY <1>4, <3>1
    <3>6. QED
      BY <3>4, <3>5
  <2>2. From(y) \in T /\ <<From(y), From(x)>> \in StrictSubsetOrdering(S)
    BY <2>1 DEF StrictSubsetOrdering
  <2>3. QED
    BY <1>3, <2>2
<1>5. QED
  BY <1>4

LEMMA MaxOf ==
  ASSUME NEW S, IsFiniteSet(S), S \subseteq Int, S # {}
  PROVE  Max(S) \in S /\ \A y \in S : Max(S) >= y
BY HasMax DEF Max

\* The last release of the sidecar among the first v events of a log
Last(l, w, v) == Max({0} \cup {i \in 1..v : Matches(w, l[i])})

LEMMA LastIs ==
  ASSUME NEW l, NEW w, NEW v \in Nat
  PROVE  /\ Last(l, w, v) \in 0..v
         /\ Last(l, w, v) # 0 => Matches(w, l[Last(l, w, v)])
         /\ \A i \in 1..v : Matches(w, l[i]) => Last(l, w, v) >= i
<1> DEFINE S == {0} \cup {i \in 1..v : Matches(w, l[i])}
<1>1. IsFiniteSet(S) /\ S \subseteq Int /\ S # {} /\ S \subseteq 0..v
  <2>1. S \subseteq 0..v /\ 0 \in S
    OBVIOUS
  <2>2. IsFiniteSet(0..v)
    BY FS_Interval
  <2> HIDE DEF S
  <2>3. IsFiniteSet(S)
    BY <2>1, <2>2, FS_Subset
  <2>4. QED
    BY <2>1, <2>3
<1>2. Last(l, w, v) = Max(S)
  BY DEF Last
<1>3. Max(S) \in S /\ \A y \in S : Max(S) >= y
  <2> HIDE DEF S
  <2>1. QED
    BY <1>1, MaxOf
<1>4. QED
  BY <1>1, <1>2, <1>3

LEMMA MatchedLast ==
  ASSUME NEW w, NEW v
  PROVE  Matched(w, v) = Last(log, w, v)
BY DEF Matched, Last

\* Who has read more has found a release that is not older.
LEMMA LastOrder ==
  ASSUME NEW l, NEW w, NEW v \in Nat, NEW c \in Nat, v <= c
  PROVE  Last(l, w, v) <= Last(l, w, c)
<1>1. Last(l, w, v) \in 0..v /\ Last(l, w, c) \in 0..c
  BY LastIs
<1>2. CASE Last(l, w, v) = 0
  BY <1>1, <1>2
<1>3. CASE Last(l, w, v) # 0
  <2>1. Last(l, w, v) \in 1..c /\ Matches(w, l[Last(l, w, v)])
    BY <1>1, <1>3, LastIs
  <2>2. QED
    BY <2>1, LastIs
<1>4. QED
  BY <1>2, <1>3

LEMMA LastSame ==
  ASSUME NEW l, NEW m, NEW w, NEW v \in Nat, \A i \in 1..v : l[i] = m[i]
  PROVE  Last(l, w, v) = Last(m, w, v)
<1>1. {i \in 1..v : Matches(w, l[i])} = {i \in 1..v : Matches(w, m[i])}
  OBVIOUS
<1>2. QED
  BY <1>1 DEF Last

LEMMA MatchedIs ==
  ASSUME NEW w, NEW v \in Nat
  PROVE  /\ Matched(w, v) \in 0..v
         /\ Matched(w, v) # 0 => Matches(w, log[Matched(w, v)])
         /\ \A i \in 1..v : Matches(w, log[i]) => Matched(w, v) >= i
BY MatchedLast, LastIs

\* Nothing is published between v and c: who has read v has read enough for c.
LEMMA MatchedCovers ==
  ASSUME NEW w, NEW v \in Nat, NEW c \in Nat, \A i \in v + 1..c : ~ Purges(i)
  PROVE  Matched(w, v) >= Matched(w, c)
<1>1. /\ Matched(w, v) \in Nat /\ Matched(w, c) \in 0..c
      /\ Matched(w, c) # 0 => Matches(w, log[Matched(w, c)])
  BY MatchedIs
<1>2. CASE Matched(w, c) = 0
  BY <1>1, <1>2
<1>3. CASE Matched(w, c) # 0
  <2>1. Matched(w, c) \in 1..c /\ Matches(w, log[Matched(w, c)])
    BY <1>1, <1>3
  <2>2. Matched(w, c) <= v
    BY <2>1 DEF Purges, Matches
  <2>3. QED
    BY <2>1, <2>2, MatchedIs
<1>4. QED
  BY <1>2, <1>3

-----------------------------------------------------------------------------
(* Types. *)

\* What a sidecar's own steps change.
SidecarTypes ==
  /\ stream \in [Watches -> Streams]
  /\ job \in [Watches -> [Workers -> Jobs]]
  /\ retry \in [Watches -> Cursors \cup {None}] /\ retrying \in [Watches -> Cursors \cup {None}]
  /\ signal \in BOOLEAN

LEMMA Bounds == MaxEvents \in Nat /\ MaxEvents # 0 /\ MaxInputs \in Nat /\ MaxFaults \in Nat
                  /\ None \notin Cursors /\ 0 \in Cursors
BY FeedBoundsAssumption DEF Cursors

LEMMA MaxTwo ==
  ASSUME NEW a \in Int, NEW b \in Int
  PROVE  Max({a, b}) \in {a, b} /\ Max({a, b}) >= a /\ Max({a, b}) >= b
<1>1. \E x \in {a, b} : \A y \in {a, b} : x >= y
  <2>1. CASE a >= b
    BY <2>1
  <2>2. CASE b >= a
    BY <2>2
  <2>3. QED
    BY <2>1, <2>2
<1>2. QED
  BY <1>1 DEF Max

LEMMA AddIs ==
  ASSUME NEW list \in [Watches -> Cursors \cup {None}], NEW w \in Watches, NEW c \in Cursors
  PROVE  /\ Add(list, w, c) \in [Watches -> Cursors \cup {None}]
         /\ Add(list, w, c)[w] \in {list[w], c} \ {None}
         /\ \A u \in Watches \ {w} : Add(list, w, c)[u] = list[u]
<1> DEFINE new == IF list[w] = None THEN c ELSE Max({list[w], c})
<1>1. new \in {list[w], c} \ {None}
  <2>1. CASE list[w] = None
    BY <2>1, Bounds
  <2>2. CASE list[w] # None
    <3>1. list[w] \in Cursors /\ list[w] \in Int /\ c \in Int
      BY <2>2 DEF Cursors
    <3>2. QED
      BY <2>2, <3>1, Bounds, MaxTwo
  <2>3. QED
    BY <2>1, <2>2
<1>2. Add(list, w, c) = [list EXCEPT ![w] = new]
  BY DEF Add
<1> HIDE DEF new
<1>3. QED
  BY <1>1, <1>2

LEMMA JobTypes ==
  /\ NoJob \in Jobs
  /\ \A st \in JobStages, c \in Cursors : Job(st, c) \in Jobs
BY Bounds DEF NoJob, Job, Jobs, JobStages

LEMMA JobSet ==
  ASSUME SidecarTypes, NEW w \in Watches, NEW k \in Workers, NEW j \in Jobs
  PROVE  [job EXCEPT ![w][k] = j] \in [Watches -> [Workers -> Jobs]]
BY DEF SidecarTypes

LEMMA StreamSet ==
  ASSUME SidecarTypes, NEW w \in Watches,
         NEW st \in {"new", "wait", "adding", "on", "closed", "removed", "gone", "failed"}
  PROVE  [stream EXCEPT ![w].stage = st] \in [Watches -> Streams]
BY DEF SidecarTypes, Streams

LEMMA CursorOf ==
  ASSUME SidecarTypes, NEW w \in Watches, NEW k \in Workers
  PROVE  job[w][k] \in Jobs /\ job[w][k].cursor \in Cursors /\ job[w][k].ver \in Cursors
         /\ job[w][k].late \in BOOLEAN
BY DEF SidecarTypes, Jobs

LEMMA NotifiedTypes ==
  ASSUME SidecarTypes, NEW w \in Watches, NEW k \in Workers
  PROVE  Notified(w, k) \in [Watches -> Streams]
BY StreamSet DEF Notified, SidecarTypes

LEMMA RetryLaterTypes ==
  ASSUME SidecarTypes, NEW w \in Watches, NEW k \in Workers, RetryLater(w, k)
  PROVE  SidecarTypes'
<1>1. job' \in [Watches -> [Workers -> Jobs]]
  BY JobSet, JobTypes DEF RetryLater
<1>2. stream' \in [Watches -> Streams]
  BY NotifiedTypes DEF RetryLater
<1>3. retry' \in [Watches -> Cursors \cup {None}]
  BY CursorOf, AddIs DEF RetryLater, SidecarTypes
<1>4. QED
  BY <1>1, <1>2, <1>3 DEF RetryLater, SidecarTypes

LEMMA CompareFirstTypes ==
  ASSUME SidecarTypes, NEW w \in Watches, NEW r, NEW c \in Cursors, CompareFirst(w, r, c)
  PROVE  SidecarTypes'
<1>1. "subscribe" \in Workers /\ "match" \in JobStages
  BY DEF Workers, JobStages
<1>2. job' \in [Watches -> [Workers -> Jobs]]
  <2>1. PICK j \in Jobs : job' = [job EXCEPT ![w]["subscribe"] = j]
    BY <1>1, JobTypes DEF CompareFirst
  <2>2. QED
    BY <1>1, <2>1, JobSet
<1>3. stream' \in [Watches -> Streams]
  <2>1. stream' = stream \/ stream' = [stream EXCEPT ![w].stage = "on"]
    BY DEF CompareFirst
  <2>2. stream \in [Watches -> Streams]
    BY DEF SidecarTypes
  <2>3. [stream EXCEPT ![w].stage = "on"] \in [Watches -> Streams]
    BY StreamSet
  <2>4. QED
    BY <2>1, <2>2, <2>3
<1>4. QED
  BY <1>2, <1>3 DEF CompareFirst, retryVars, SidecarTypes

LEMMA MatchTypes ==
  ASSUME SidecarTypes, NEW w \in Watches, NEW k \in Workers, NEW ver \in Cursors, NEW late \in BOOLEAN,
         Match(w, k, ver, late)
  PROVE  SidecarTypes'
<1> DEFINE r == Matched(w, ver)
<1>1. CASE job[w][k].stage \in {"first", "firstFill"}
  <2>1. PICK c \in Cursors : CompareFirst(w, r, c)
    BY <1>1, CursorOf, Bounds DEF Match
  <2>2. QED
    BY <2>1, CompareFirstTypes
<1>2. CASE job[w][k].stage \notin {"first", "firstFill"} /\ r = 0
  BY <1>2, RetryLaterTypes DEF Match
<1>3. CASE job[w][k].stage \notin {"first", "firstFill"} /\ r # 0
  <2> DEFINE j == [job[w][k] EXCEPT !.stage = "send", !.ver = ver, !.late = late]
  <2>1. job' = [job EXCEPT ![w][k] = j] /\ UNCHANGED <<retryVars, stream>>
    BY <1>3 DEF Match, SidecarTypes
  <2>2. job' \in [Watches -> [Workers -> Jobs]]
    <3>1. j \in Jobs
      BY CursorOf DEF Jobs, JobStages
    <3> HIDE DEF j
    <3>2. QED
      BY <2>1, <3>1, JobSet
  <2>3. QED
    BY <2>1, <2>2 DEF retryVars, SidecarTypes
<1>4. QED
  BY <1>1, <1>2, <1>3

LEMMA PipelineTyped ==
  ASSUME TypeOK,
         \/ Fire \/ RecordCursor \/ ListEvents \/ PurgeCache \/ SendToPipe \/ HandleOneBatch
  PROVE  TypeOK'
<1> USE Bounds
<1>1. CASE Fire
  <2>1. PICK e \in [kind : EventKinds, to : SUBSET Watches] : log' = Append(log, e)
    BY <1>1 DEF Fire, EventKinds
  <2>2. log' \in Seq([kind : EventKinds, to : SUBSET Watches]) /\ Len(log') = Len(log) + 1
    BY <2>1 DEF TypeOK
  <2>3. Len(log') <= MaxEvents /\ recorded \in 0..Len(log')
    BY <1>1, <2>2 DEF Fire, TypeOK
  <2>4. QED
    BY <1>1, <2>2, <2>3
       DEF Fire, pipelineVars, appVars, retryVars, historyVars, TypeOK
<1>2. CASE RecordCursor
  BY <1>2 DEF RecordCursor, pipelineVars, appVars, retryVars, historyVars, TypeOK
<1>3. CASE ListEvents
  <2>1. recorded \in Cursors
    BY DEF TypeOK, Cursors
  <2>2. observer' \in [stage : {"list", "purge", "pipe"}, start : Cursors, last : Cursors]
    BY <1>3, <2>1 DEF ListEvents, ListEventsWith, TypeOK
  <2>3. QED
    BY <1>3, <2>1, <2>2 DEF ListEvents, ListEventsWith, appVars, retryVars, historyVars, TypeOK
<1>4. CASE PurgeCache
  <2>1. observer' \in [stage : {"list", "purge", "pipe"}, start : Cursors, last : Cursors]
    BY <1>4 DEF PurgeCache, PurgeCacheIf, TypeOK
  <2>2. cache' \in [ver : Cursors \cup {None}, late : BOOLEAN]
    <3>1. cache' \in {cache, [ver |-> None, late |-> FALSE]}
      BY <1>4 DEF PurgeCache, PurgeCacheIf
    <3>2. [ver |-> None, late |-> FALSE] \in [ver : Cursors \cup {None}, late : BOOLEAN]
      OBVIOUS
    <3>3. cache \in [ver : Cursors \cup {None}, late : BOOLEAN]
      BY DEF TypeOK
    <3>4. QED
      BY <3>1, <3>2, <3>3
  <2>3. QED
    BY <1>4, <2>1, <2>2 DEF PurgeCache, PurgeCacheIf, appVars, retryVars, historyVars, TypeOK
<1>5. CASE SendToPipe
  <2>1. observer' \in [stage : {"list", "purge", "pipe"}, start : Cursors, last : Cursors]
    BY <1>5 DEF SendToPipe, TypeOK
  <2>2. pipe' \in Seq(Cursors)
    BY <1>5 DEF SendToPipe, TypeOK
  <2>3. QED
    BY <1>5, <2>1, <2>2 DEF SendToPipe, appVars, retryVars, historyVars, TypeOK
<1>6. CASE HandleOneBatch
  <2> DEFINE events == [i \in 1..(Head(pipe) - pushed) |-> pushed + i]
  <2>1. pushed' = Head(pipe) /\ pipe' = Tail(pipe) /\ pipe # <<>>
    BY <1>6 DEF HandleOneBatch, Push
  <2>2. Head(pipe) \in Cursors /\ Tail(pipe) \in Seq(Cursors) /\ pushed \in Cursors
    BY <2>1 DEF TypeOK
  <2>3. events \in Seq(Events)
    <3>1. Head(pipe) \in Int /\ pushed \in Nat /\ Head(pipe) <= MaxEvents
      BY <2>2 DEF Cursors
    <3>2. \A i \in 1..(Head(pipe) - pushed) : pushed + i \in Events
      BY <3>1 DEF Events
    <3>3. QED
      BY <3>1, <3>2
  <2>4. queue' = queue \/ queue' = queue \o events
    BY <1>6 DEF HandleOneBatch, Push
  <2> HIDE DEF events
  <2>5. queue' \in Seq(Events)
    <3>1. \A s, t \in Seq(Events) : s \o t \in Seq(Events)
      OBVIOUS
    <3>2. queue \in Seq(Events)
      BY DEF TypeOK
    <3>3. QED
      BY <2>3, <2>4, <3>1, <3>2
  <2>6. QED
    BY <1>6, <2>1, <2>2, <2>5 DEF HandleOneBatch, Push, retryVars, historyVars, TypeOK
<1>7. QED
  BY <1>1, <1>2, <1>3, <1>4, <1>5, <1>6

LEMMA JobTyped ==
  ASSUME TypeOK, NEW w \in Watches, NEW k \in Workers, JobStep(w, k) \/ MatchFails(w, k)
  PROVE  TypeOK'
<1>1. SidecarTypes /\ Len(log) \in Cursors
  BY DEF TypeOK, SidecarTypes, Cursors
<1> USE <1>1, Bounds
<1>2. CASE ReadCache(w, k)
  <2>1. Match(w, k, cache.ver, cache.late) /\ cache.ver \in Cursors /\ cache.late \in BOOLEAN
    BY <1>2 DEF ReadCache, TypeOK
  <2>2. SidecarTypes'
    BY <2>1, MatchTypes
  <2>3. QED
    BY <1>2, <2>2 DEF ReadCache, matchFrame, pipelineVars, appVars, TypeOK, SidecarTypes
<1>3. CASE ReadRemote(w, k)
  <2> DEFINE st == IF job[w][k].stage = "first" THEN "firstFill" ELSE "fill"
             j == [job[w][k] EXCEPT !.ver = Len(log), !.stage = st]
  <2>1. job' = [job EXCEPT ![w][k] = j]
    BY <1>3 DEF ReadRemote, SidecarTypes
  <2>2. j \in Jobs
    BY CursorOf DEF Jobs, JobStages
  <2> HIDE DEF j
  <2>3. job' \in [Watches -> [Workers -> Jobs]]
    BY <2>1, <2>2, JobSet
  <2>4. QED
    BY <1>3, <2>3 DEF ReadRemote, matchFrame, pipelineVars, appVars, retryVars, TypeOK
<1>4. CASE FillCache(w, k)
  <2>1. PICK ver \in Cursors, late \in BOOLEAN :
          cache' = [ver |-> ver, late |-> late] /\ Match(w, k, ver, late)
    BY <1>4, CursorOf DEF FillCache
  <2>2. SidecarTypes'
    BY <2>1, MatchTypes
  <2>3. missed' \subseteq Watches
    BY <1>4 DEF FillCache, TypeOK
  <2>4. QED
    BY <1>4, <2>1, <2>2, <2>3 DEF FillCache, matchFrame, pipelineVars, appVars, TypeOK, SidecarTypes
<1>5. CASE MatchGone(w, k)
  <2>1. CompareFirst(w, 0, 0) \/ RetryLater(w, k)
    BY <1>5 DEF MatchGone
  <2>2. SidecarTypes'
    BY <2>1, CompareFirstTypes, RetryLaterTypes
  <2>3. QED
    BY <1>5, <2>2 DEF MatchGone, matchFrame, pipelineVars, appVars, TypeOK, SidecarTypes
<1>6. CASE MatchFails(w, k)
  <2>1. CompareFirst(w, 0, job[w][k].cursor) \/ RetryLater(w, k)
    BY <1>6 DEF MatchFails
  <2>2. SidecarTypes'
    BY <2>1, CursorOf, CompareFirstTypes, RetryLaterTypes
  <2>3. QED
    BY <1>6, <2>2 DEF MatchFails, Fault, matchFrame, pipelineVars, appVars, TypeOK, SidecarTypes
<1>7. CASE NotifyClosed(w, k)
  <2>1. job' \in [Watches -> [Workers -> Jobs]]
    BY <1>7, JobSet, JobTypes DEF NotifyClosed
  <2>2. QED
    BY <1>7, <2>1 DEF NotifyClosed, notifyFrame, pipelineVars, appVars, retryVars, TypeOK
<1>8. CASE NotifySent(w, k)
  <2>1. job' \in [Watches -> [Workers -> Jobs]] /\ stream' \in [Watches -> Streams]
    BY <1>8, JobSet, JobTypes, NotifiedTypes DEF NotifySent
  <2>2. told' \in [Watches -> Cursors] /\ missed' \subseteq Watches
    <3>1. Matched(w, job[w][k].ver) \in Cursors
      <4>1. job[w][k].ver \in Cursors
        BY CursorOf
      <4>2. QED
        BY <4>1, MatchedIs DEF Cursors
    <3>2. QED
      BY <1>8, <3>1 DEF NotifySent, TypeOK
  <2>3. QED
    BY <1>8, <2>1, <2>2 DEF NotifySent, notifyFrame, pipelineVars, appVars, retryVars, TypeOK
<1>9. CASE NotifyFails(w, k)
  <2>1. SidecarTypes'
    BY <1>9, RetryLaterTypes DEF NotifyFails
  <2>2. faults' \in 0..MaxFaults
    BY <1>9 DEF NotifyFails, Fault, TypeOK
  <2>3. QED
    BY <1>9, <2>1, <2>2 DEF NotifyFails, notifyFrame, pipelineVars, appVars, TypeOK, SidecarTypes
<1>10. CASE NotifyNothing(w, k)
  <2>1. job' \in [Watches -> [Workers -> Jobs]] /\ stream' \in [Watches -> Streams]
    BY <1>10, JobSet, JobTypes, NotifiedTypes DEF NotifyNothing
  <2>2. missed' \subseteq Watches
    BY <1>10 DEF NotifyNothing, TypeOK
  <2>3. QED
    BY <1>10, <2>1, <2>2 DEF NotifyNothing, notifyFrame, pipelineVars, appVars, retryVars, TypeOK
<1>11. QED
  BY <1>2, <1>3, <1>4, <1>5, <1>6, <1>7, <1>8, <1>9, <1>10 DEF JobStep

\* The handler waits for an event it has.
Waiting == handler.waits # {} => handler.events # <<>>
Typed == TypeOK /\ Waiting

LEMMA HandlerTyped ==
  ASSUME Typed, PopAll \/ HandleEvent \/ FinishEvent \/ SkipEvent
  PROVE  TypeOK'
<1> USE Bounds
<1>1. /\ handler \in [up : BOOLEAN, events : Seq(Events), waits : SUBSET Watches]
      /\ queue \in Seq(Events) /\ TypeOK
  BY DEF Typed, TypeOK
<1>2. CASE PopAll
  <2>1. handler' \in [up : BOOLEAN, events : Seq(Events), waits : SUBSET Watches]
    BY <1>1, <1>2 DEF PopAll, Pop
  <2>2. queue' \in Seq(Events)
    BY <1>2 DEF PopAll, Pop
  <2>3. QED
    BY <1>1, <1>2, <2>1, <2>2 DEF PopAll, Pop, handlerFrame, pipelineVars, retryVars, TypeOK
<1>3. ASSUME handler.events # <<>>
      PROVE  /\ Head(handler.events) \in Events /\ Head(handler.events) \in Cursors
             /\ [handler EXCEPT !.events = Tail(@)]
                  \in [up : BOOLEAN, events : Seq(Events), waits : SUBSET Watches]
             /\ [handler EXCEPT !.events = Tail(@), !.waits = {}]
                  \in [up : BOOLEAN, events : Seq(Events), waits : SUBSET Watches]
  <2>1. handler.events \in Seq(Events)
    BY <1>1
  <2>2. Head(handler.events) \in Events /\ Tail(handler.events) \in Seq(Events)
    BY <1>3, <2>1
  <2>3. Head(handler.events) \in Cursors
    BY <2>2 DEF Events, Cursors
  <2>4. QED
    BY <1>1, <2>2, <2>3
<1>4. CASE HandleEvent
  <2> DEFINE i == Head(handler.events)
             ws == IF log[i].kind = "delete" THEN {} ELSE Concerned(log[i])
  <2>1. handler.events # <<>> /\ i \in Cursors /\ ws \subseteq Watches
    BY <1>1, <1>3, <1>4 DEF HandleEvent, Concerned, TypeOK
  <2>2. job' = [w \in Watches |->
                  IF w \in ws THEN [job[w] EXCEPT !["event"] = Job("match", i)] ELSE job[w]]
    BY <1>4 DEF HandleEvent
  <2>3. \/ appCursor' = i /\ handler' = [handler EXCEPT !.events = Tail(@)]
        \/ appCursor' = appCursor /\ handler' = [handler EXCEPT !.waits = ws]
    BY <1>4 DEF HandleEvent
  <2>4. \/ UNCHANGED <<retry, stream>>
        \/ /\ retry' = [w \in Watches |-> None]
           /\ stream' = [w \in Watches |-> IF w \in members THEN [stream[w] EXCEPT !.cancelled = TRUE]
                                           ELSE stream[w]]
    BY <1>4 DEF HandleEvent
  <2>5. UNCHANGED <<handlerFrame, queue, signal, retrying, missed, faults>>
    BY <1>4 DEF HandleEvent
  <2> HIDE DEF i, ws
  <2>6. job' \in [Watches -> [Workers -> Jobs]]
    <3>1. Job("match", i) \in Jobs
      BY <2>1, JobTypes DEF JobStages
    <3>2. QED
      BY <1>1, <2>2, <3>1 DEF TypeOK
  <2>7. appCursor' \in Cursors
    BY <1>1, <2>1, <2>3 DEF TypeOK
  <2>8. handler' \in [up : BOOLEAN, events : Seq(Events), waits : SUBSET Watches]
    <3>1. [handler EXCEPT !.waits = ws] \in [up : BOOLEAN, events : Seq(Events), waits : SUBSET Watches]
      BY <1>1, <2>1
    <3>2. QED
      BY <1>3, <2>1, <2>3, <3>1
  <2>9. stream' \in [Watches -> Streams]
    <3>1. stream \in [Watches -> Streams]
      BY <1>1 DEF TypeOK
    <3>2. ASSUME NEW s \in Streams PROVE [s EXCEPT !.cancelled = TRUE] \in Streams
      BY DEF Streams
    <3>3. QED
      BY <2>4, <3>1, <3>2
  <2>10. retry' \in [Watches -> Cursors \cup {None}]
    BY <1>1, <2>4 DEF TypeOK
  <2>11. QED
    BY <1>1, <2>5, <2>6, <2>7, <2>8, <2>9, <2>10 DEF handlerFrame, pipelineVars, TypeOK
<1>5. CASE FinishEvent
  <2>1. handler.events # <<>>
    BY <1>5 DEF FinishEvent, Typed, Waiting
  <2>2. QED
    BY <1>1, <1>3, <1>5, <2>1 DEF FinishEvent, handlerFrame, pipelineVars, retryVars, TypeOK
<1>6. CASE SkipEvent
  <2>1. handler' \in [up : BOOLEAN, events : Seq(Events), waits : SUBSET Watches]
    BY <1>3, <1>6 DEF SkipEvent
  <2>2. missed' \subseteq Watches /\ faults' \in 0..MaxFaults
    BY <1>1, <1>6 DEF SkipEvent, Fault, Concerned, TypeOK
  <2>3. QED
    BY <1>1, <1>6, <2>1, <2>2 DEF SkipEvent, handlerFrame, pipelineVars, retryVars, TypeOK
<1>7. QED
  BY <1>2, <1>4, <1>5, <1>6

LEMMA RetryTyped ==
  ASSUME TypeOK, PurgeRetry \/ \E w \in Watches : RetryNext(w) \/ RetryDrops(w)
  PROVE  TypeOK'
<1> USE Bounds
<1>1. SidecarTypes
  BY DEF TypeOK, SidecarTypes
<1>2. CASE PurgeRetry
  <2>1. SidecarTypes'
    BY <1>1, <1>2 DEF PurgeRetry, workerFrame, SidecarTypes
  <2>2. QED
    BY <1>2, <2>1 DEF PurgeRetry, workerFrame, pipelineVars, appVars, TypeOK, SidecarTypes
<1>3. ASSUME NEW w \in Watches, RetryNext(w) PROVE TypeOK'
  <2>1. Job("match", retrying[w]) \in Jobs /\ "retry" \in Workers
    BY <1>1, <1>3, JobTypes DEF RetryNext, SidecarTypes, JobStages, Workers
  <2>2. job' \in [Watches -> [Workers -> Jobs]]
    BY <1>1, <1>3, <2>1, JobSet DEF RetryNext
  <2>3. SidecarTypes'
    BY <1>1, <1>3, <2>2 DEF RetryNext, workerFrame, SidecarTypes
  <2>4. QED
    BY <1>3, <2>3 DEF RetryNext, workerFrame, pipelineVars, appVars, TypeOK, SidecarTypes
<1>4. ASSUME NEW w \in Watches, RetryDrops(w) PROVE TypeOK'
  <2>1. SidecarTypes'
    BY <1>1, <1>4 DEF RetryDrops, workerFrame, SidecarTypes
  <2>2. QED
    BY <1>4, <2>1 DEF RetryDrops, Fault, workerFrame, pipelineVars, appVars, TypeOK, SidecarTypes
<1>5. QED
  BY <1>2, <1>3, <1>4

LEMMA StreamTyped ==
  ASSUME TypeOK, NEW w \in Watches,
         \/ Watch(w) \/ Refuse(w) \/ AddSidecar(w) \/ ReadAppCursor(w) \/ SubscribeFails(w)
         \/ Close(w) \/ RemoveSidecar(w) \/ DeleteInstance(w)
  PROVE  TypeOK'
<1> USE Bounds
<1>1. SidecarTypes /\ "subscribe" \in Workers
  BY DEF TypeOK, SidecarTypes, Workers
<1>2. CASE Watch(w)
  <2>1. PICK c \in 0..recorded, v \in 0..Len(log) :
          /\ stream' = [stream EXCEPT ![w] = [NewStream EXCEPT !.stage = "wait", !.cursor = c,
                                                               !.release = Matched(w, v)]]
          /\ told' = [told EXCEPT ![w] = Matched(w, v)]
    <3>1. recorded \in Nat /\ Len(log) \in Nat
      BY DEF TypeOK
    <3>2. \A c \in 0..recorded : c..Len(log) \subseteq 0..Len(log)
      BY <3>1
    <3>3. QED
      BY <1>2, <3>2 DEF Watch
  <2>2. c \in Cursors /\ Matched(w, v) \in Cursors
    <3>1. v \in Nat /\ v <= MaxEvents /\ c \in Cursors
      BY DEF TypeOK, Cursors
    <3>2. Matched(w, v) \in 0..v
      BY <3>1, MatchedIs
    <3>3. QED
      BY <3>1, <3>2 DEF Cursors
  <2>3. ASSUME NEW m \in Cursors
        PROVE  [NewStream EXCEPT !.stage = "wait", !.cursor = c, !.release = m] \in Streams
    BY <2>2 DEF NewStream, Streams
  <2>4. stream' \in [Watches -> Streams] /\ told' \in [Watches -> Cursors]
    BY <2>1, <2>2, <2>3 DEF TypeOK
  <2>5. QED
    BY <1>2, <2>4 DEF Watch, streamFrame, pipelineVars, appVars, retryVars, TypeOK
<1>3. CASE Refuse(w) \/ Close(w)
  <2>1. stream' \in [Watches -> Streams]
    <3>1. PICK st \in {"gone", "closed"} : stream' = [stream EXCEPT ![w].stage = st]
      BY <1>3 DEF Refuse, Close
    <3>2. QED
      BY <1>1, <3>1, StreamSet
  <2>2. QED
    BY <1>3, <2>1 DEF Refuse, Close, streamFrame, pipelineVars, appVars, retryVars, historyVars, TypeOK
<1>4. CASE AddSidecar(w)
  <2>1. stream' \in [Watches -> Streams]
    <3>1. [stream[w] EXCEPT !.stage = "adding", !.timing = Timing(w)] \in Streams
      BY <1>1 DEF SidecarTypes, Streams, Timing
    <3>2. QED
      BY <1>1, <1>4, <3>1 DEF AddSidecar, AddMember, SidecarTypes
  <2>2. job' \in [Watches -> [Workers -> Jobs]]
    <3>1. Job("added", 0) \in Jobs
      BY JobTypes DEF JobStages
    <3>2. QED
      BY <1>1, <1>4, <3>1, JobSet DEF AddSidecar, AddMember
  <2>3. handler' \in [up : BOOLEAN, events : Seq(Events), waits : SUBSET Watches]
    BY <1>4 DEF AddSidecar, AddMember, TypeOK
  <2>4. QED
    BY <1>4, <2>1, <2>2, <2>3
       DEF AddSidecar, AddMember, streamFrame, pipelineVars, retryVars, historyVars, TypeOK
<1>5. CASE ReadAppCursor(w)
  <2>1. Job("first", appCursor) \in Jobs
    BY JobTypes DEF JobStages, TypeOK
  <2>2. job' \in [Watches -> [Workers -> Jobs]]
    BY <1>1, <1>5, <2>1, JobSet DEF ReadAppCursor
  <2>3. QED
    BY <1>5, <2>2 DEF ReadAppCursor, streamFrame, pipelineVars, appVars, retryVars, historyVars, TypeOK
<1>6. CASE SubscribeFails(w)
  <2>1. job' \in [Watches -> [Workers -> Jobs]] /\ stream' \in [Watches -> Streams]
    BY <1>1, <1>6, JobSet, JobTypes, StreamSet DEF SubscribeFails
  <2>2. members' \subseteq Watches /\ escaped' \subseteq Watches /\ faults' \in 0..MaxFaults
    BY <1>6 DEF SubscribeFails, Fault, TypeOK
  <2>3. QED
    BY <1>6, <2>1, <2>2 DEF SubscribeFails, streamFrame, pipelineVars, retryVars, TypeOK
<1>7. CASE RemoveSidecar(w)
  <2>1. stream' \in [Watches -> Streams]
    BY <1>1, <1>7, StreamSet DEF RemoveSidecar, RemoveMember
  <2>2. /\ queue' \in Seq(Events)
        /\ handler' \in [up : BOOLEAN, events : Seq(Events), waits : SUBSET Watches]
        /\ appCursor' \in Cursors
    <3>1. \/ queue' = <<>> /\ handler' = NoHandler /\ appCursor' = 0
          \/ UNCHANGED <<queue, handler, appCursor>>
      BY <1>7 DEF RemoveSidecar, RemoveMember
    <3>2. NoHandler \in [up : BOOLEAN, events : Seq(Events), waits : SUBSET Watches]
      BY DEF NoHandler
    <3>3. /\ queue \in Seq(Events) /\ appCursor \in Cursors
          /\ handler \in [up : BOOLEAN, events : Seq(Events), waits : SUBSET Watches]
      BY DEF TypeOK
    <3>4. <<>> \in Seq(Events) /\ 0 \in Cursors
      OBVIOUS
    <3>5. CASE queue' = <<>> /\ handler' = NoHandler /\ appCursor' = 0
      BY <3>2, <3>4, <3>5
    <3>6. CASE UNCHANGED <<queue, handler, appCursor>>
      BY <3>3, <3>6
    <3>7. QED
      BY <3>1, <3>5, <3>6
  <2>3. QED
    BY <1>7, <2>1, <2>2 DEF RemoveSidecar, RemoveMember, streamFrame, pipelineVars, retryVars,
                            historyVars, TypeOK
<1>8. CASE DeleteInstance(w)
  <2>1. stream' \in [Watches -> Streams]
    BY <1>1, <1>8, StreamSet DEF DeleteInstance
  <2>2. QED
    BY <1>8, <2>1 DEF DeleteInstance, streamFrame, pipelineVars, appVars, TypeOK
<1>9. QED
  BY <1>2, <1>3, <1>4, <1>5, <1>6, <1>7, <1>8

LEMMA NextWaiting ==
  ASSUME Typed, Next
  PROVE  Waiting'
<1>1. /\ handler \in [up : BOOLEAN, events : Seq(Events), waits : SUBSET Watches]
      /\ queue \in Seq(Events) /\ Waiting
  BY DEF Typed, TypeOK
<1>2. CASE PopAll
  <2>1. handler'.events = queue /\ queue # <<>>
    BY <1>1, <1>2 DEF PopAll, Pop
  <2>2. QED
    BY <2>1 DEF Waiting
<1>3. CASE HandleEvent
  <2>1. \/ handler'.waits = handler.waits /\ handler.waits = {}
        \/ handler'.events = handler.events /\ handler.events # <<>>
    BY <1>1, <1>3 DEF HandleEvent
  <2>2. QED
    BY <2>1 DEF Waiting
<1>4. CASE FinishEvent \/ SkipEvent
  BY <1>1, <1>4 DEF FinishEvent, SkipEvent, Waiting
<1>5. ASSUME NEW w \in Watches, AddSidecar(w) \/ RemoveSidecar(w) PROVE Waiting'
  <2>1. \/ handler'.waits = handler.waits /\ handler'.events = handler.events
        \/ handler'.waits = {}
    BY <1>1, <1>5 DEF AddSidecar, AddMember, RemoveSidecar, RemoveMember, NoHandler
  <2>2. QED
    BY <1>1, <2>1 DEF Waiting
<1>6. CASE handler' = handler
  BY <1>1, <1>6 DEF Waiting
<1>7. ASSUME NEW w \in Watches, NEW k \in Workers, JobStep(w, k) \/ MatchFails(w, k)
      PROVE  handler' = handler
  BY <1>7 DEF JobStep, ReadCache, ReadRemote, FillCache, MatchGone, MatchFails, NotifyClosed,
              NotifyNothing, NotifySent, NotifyFails, matchFrame, notifyFrame, appVars
<1>8. ASSUME NEW w \in Watches,
             \/ RetryNext(w) \/ RetryDrops(w) \/ Watch(w) \/ Refuse(w) \/ ReadAppCursor(w)
             \/ SubscribeFails(w) \/ Close(w) \/ DeleteInstance(w)
      PROVE  handler' = handler
  BY <1>8 DEF RetryNext, RetryDrops, workerFrame, Watch, Refuse, ReadAppCursor, SubscribeFails, Close,
              DeleteInstance, appVars
<1>9. ASSUME \/ Fire \/ RecordCursor \/ ListEvents \/ PurgeCache \/ SendToPipe \/ HandleOneBatch
             \/ PurgeRetry
      PROVE  handler' = handler
  BY <1>9 DEF Fire, RecordCursor, ListEvents, ListEventsWith, PurgeCache, PurgeCacheIf, SendToPipe,
              HandleOneBatch, Push, PurgeRetry, workerFrame, appVars
<1>10. QED
  BY <1>2, <1>3, <1>4, <1>5, <1>6, <1>7, <1>8, <1>9 DEF Next, ServerStep

LEMMA InitTyped == Init => Typed
<1> SUFFICES ASSUME Init PROVE Typed
  OBVIOUS
<1> USE Bounds
<1>1. log \in Seq([kind : EventKinds, to : SUBSET Watches]) /\ Len(log) = 1
  <2>1. PICK to \in SUBSET Watches : log = <<[kind |-> "publish", to |-> to]>>
    BY DEF Init
  <2>2. QED
    BY <2>1 DEF EventKinds
<1>2. 1 \in Cursors /\ 1 <= MaxEvents
  BY DEF Cursors
<1>3. /\ observer \in [stage : {"list", "purge", "pipe"}, start : Cursors, last : Cursors]
      /\ cache \in [ver : Cursors \cup {None}, late : BOOLEAN]
  BY <1>2 DEF Init
<1>4. handler \in [up : BOOLEAN, events : Seq(Events), waits : SUBSET Watches] /\ Waiting
  BY DEF Init, NoHandler, Waiting
<1>5. stream \in [Watches -> Streams] /\ job \in [Watches -> [Workers -> Jobs]]
  <2>1. NewStream \in Streams
    BY DEF NewStream, Streams
  <2>2. QED
    BY <2>1, JobTypes DEF Init
<1>6. pipe \in Seq(Cursors) /\ queue \in Seq(Events)
  BY DEF Init
<1>7. /\ {retry, retrying} \subseteq [Watches -> Cursors \cup {None}] /\ told \in [Watches -> Cursors]
  BY DEF Init
<1>8. /\ recorded \in 0..Len(log) /\ cursor \in Cursors /\ pushed \in Cursors
      /\ members \subseteq Watches /\ appCursor \in Cursors /\ signal \in BOOLEAN
      /\ missed \subseteq Watches /\ escaped \subseteq Watches /\ faults \in 0..MaxFaults
  <2>1. /\ recorded = 1 /\ cursor = 0 /\ pushed = 1 /\ members = {} /\ appCursor = 0
        /\ signal = FALSE /\ missed = {} /\ escaped = {} /\ faults = 0
    BY DEF Init
  <2>2. recorded \in 0..Len(log) /\ faults \in 0..MaxFaults
    BY <1>1, <2>1
  <2>3. signal \in BOOLEAN /\ cursor \in Cursors /\ pushed \in Cursors /\ appCursor \in Cursors
    BY <1>2, <2>1
  <2>4. QED
    BY <2>1, <2>2, <2>3
<1>9. QED
  BY <1>1, <1>2, <1>3, <1>4, <1>5, <1>6, <1>7, <1>8 DEF Typed, TypeOK

LEMMA NextTyped == Typed /\ [Next]_vars => Typed'
<1> SUFFICES ASSUME Typed, [Next]_vars PROVE Typed'
  OBVIOUS
<1>1. CASE UNCHANGED vars
  BY <1>1 DEF vars, pipelineVars, appVars, retryVars, historyVars, Typed, TypeOK, Waiting
<1>2. CASE Next
  <2>1. TypeOK'
    BY <1>2, PipelineTyped, JobTyped, HandlerTyped, RetryTyped, StreamTyped
       DEF Next, ServerStep, Typed
  <2>2. QED
    BY <1>2, <2>1, NextWaiting DEF Typed
<1>3. QED
  BY <1>1, <1>2

\* Types: in particular the recorded cursor never passes the log.
THEOREM TypeCorrect == Spec => []TypeOK
<1>1. Typed => TypeOK
  BY DEF Typed
<1>2. QED
  BY <1>1, InitTyped, NextTyped, PTL DEF Spec

-----------------------------------------------------------------------------
(* What a step may make of the work for a sidecar. *)

\* Nothing is published after the first v events and up to the c-th.
Quiet(v, c) == \A i \in v + 1..c : ~ Purges(i)

CacheFresh == cache.ver # None /\ ~ cache.late => Quiet(cache.ver, Purged)

\* Where the cursor of a job comes from.
CursorMove(w, k) ==
  LET c == job'[w][k].cursor IN
  \/ c \in {0, job[w][k].cursor, appCursor}
  \/ handler.events # <<>> /\ c = Head(handler.events)
  \/ retrying[w] # None /\ c = retrying[w]

\* Work begins for a member, from the retry list or for a sidecar that is let in.
WakeMove(w, k) ==
  job'[w][k].stage # "idle" =>
    \/ job[w][k].stage # "idle"
    \/ k = "event" /\ w \in members
    \/ k = "retry" /\ retrying[w] # None
    \/ k = "subscribe" /\ stream[w].stage = "wait" /\ stream'[w].stage = "adding"

\* What is about to be sent was read after all that was purged.
SendMove(w, k) ==
  job'[w][k].stage = "send" =>
    \/ job'[w][k] = job[w][k]
    \/ job[w][k].stage # "idle" /\ (job'[w][k].late \/ Quiet(job'[w][k].ver, Purged))

\* The stages of a subscription before it is matched.
Firsts == {"added", "first", "firstFill"}
FirstMove(w, k) == job'[w][k].stage \in Firsts => k = "subscribe" \/ job[w][k].stage \in Firsts
FirstsSubscribe == \A w \in Watches, k \in Workers : job[w][k].stage \in Firsts => k = "subscribe"

JobMoved(w, k) == CursorMove(w, k) /\ WakeMove(w, k) /\ SendMove(w, k) /\ FirstMove(w, k)

\* The retry lists hold the cursors of failed jobs.
RetryMoved(w) ==
  /\ \/ retry'[w] \in {None, retry[w]}
     \/ \E k \in Workers : job[w][k].stage # "idle" /\ retry'[w] = job[w][k].cursor
  /\ retrying'[w] \in {None, retrying[w], retry[w]}

LEMMA SameJob ==
  ASSUME NEW w, NEW k, job'[w][k] = job[w][k]
  PROVE  JobMoved(w, k)
BY DEF JobMoved, CursorMove, WakeMove, SendMove, FirstMove

LEMMA OneJob ==
  ASSUME SidecarTypes, NEW w \in Watches, NEW k \in Workers, NEW j,
         job' = [job EXCEPT ![w][k] = j],
         job'[w][k] = j => JobMoved(w, k)
  PROVE  \A u \in Watches, l \in Workers : JobMoved(u, l)
<1>1. job'[w][k] = j
  BY DEF SidecarTypes
<1>2. ASSUME NEW u \in Watches, NEW l \in Workers, u # w \/ l # k PROVE job'[u][l] = job[u][l]
  BY <1>2 DEF SidecarTypes
<1>3. QED
  BY <1>1, <1>2, SameJob

LEMMA NoJobMoved ==
  ASSUME NEW w, NEW k, job'[w][k] = NoJob
  PROVE  JobMoved(w, k)
BY DEF JobMoved, CursorMove, WakeMove, SendMove, FirstMove, Firsts, NoJob

LEMMA RetryLaterMoved ==
  ASSUME SidecarTypes, NEW w \in Watches, NEW k \in Workers, RetryLater(w, k), job[w][k].stage # "idle"
  PROVE  \A u \in Watches : RetryMoved(u) /\ \A l \in Workers : JobMoved(u, l)
<1>1. \A u \in Watches, l \in Workers : JobMoved(u, l)
  <2>1. job' = [job EXCEPT ![w][k] = NoJob]
    BY DEF RetryLater
  <2>2. job'[w][k] = NoJob => JobMoved(w, k)
    BY NoJobMoved
  <2>3. QED
    BY <2>1, <2>2, OneJob
<1>2. \A u \in Watches : RetryMoved(u)
  <2>1. /\ Add(retry, w, job[w][k].cursor)[w] \in {retry[w], job[w][k].cursor}
        /\ \A u \in Watches \ {w} : Add(retry, w, job[w][k].cursor)[u] = retry[u]
    <3>1. job[w][k].cursor \in Cursors /\ retry \in [Watches -> Cursors \cup {None}]
      BY CursorOf DEF SidecarTypes
    <3>2. QED
      BY <3>1, AddIs
  <2>2. QED
    BY <2>1 DEF RetryLater, RetryMoved
<1>3. QED
  BY <1>1, <1>2

LEMMA SameRetry ==
  ASSUME UNCHANGED retryVars
  PROVE  \A u \in Watches : RetryMoved(u)
BY DEF retryVars, RetryMoved

LEMMA CompareFirstMoved ==
  ASSUME SidecarTypes, NEW w \in Watches, NEW k \in Workers, NEW r, NEW c \in {0, job[w][k].cursor},
         CompareFirst(w, r, c), k = "subscribe", job[w][k].stage # "idle"
  PROVE  \A u \in Watches : RetryMoved(u) /\ \A l \in Workers : JobMoved(u, l)
<1>1. PICK j \in {NoJob, Job("match", c)} : job' = [job EXCEPT ![w][k] = j]
  BY DEF CompareFirst
<1>2. ASSUME job'[w][k] = j PROVE JobMoved(w, k)
  BY <1>2 DEF JobMoved, CursorMove, WakeMove, SendMove, FirstMove, Firsts, NoJob, Job
<1>3. \A u \in Watches, l \in Workers : JobMoved(u, l)
  BY <1>1, <1>2, OneJob
<1>4. \A u \in Watches : RetryMoved(u)
  BY SameRetry DEF CompareFirst
<1>5. QED
  BY <1>3, <1>4

LEMMA MatchMoved ==
  ASSUME SidecarTypes, NEW w \in Watches, NEW k \in Workers, NEW ver \in Cursors, NEW late \in BOOLEAN,
         Match(w, k, ver, late), job[w][k].stage # "idle",
         job[w][k].stage \in {"first", "firstFill"} => k = "subscribe",
         ~ late => Quiet(ver, Purged)
  PROVE  \A u \in Watches : RetryMoved(u) /\ \A l \in Workers : JobMoved(u, l)
<1> DEFINE r == Matched(w, ver)
<1>1. CASE job[w][k].stage \in {"first", "firstFill"}
  <2>1. PICK c \in {0, job[w][k].cursor} : CompareFirst(w, r, c)
    BY <1>1 DEF Match
  <2> HIDE DEF r
  <2>2. QED
    BY <1>1, <2>1, CompareFirstMoved
<1>2. CASE job[w][k].stage \notin {"first", "firstFill"} /\ r = 0
  BY <1>2, RetryLaterMoved DEF Match
<1>3. CASE job[w][k].stage \notin {"first", "firstFill"} /\ r # 0
  <2> DEFINE j == [job[w][k] EXCEPT !.stage = "send", !.ver = ver, !.late = late]
  <2>1. job' = [job EXCEPT ![w][k] = j] /\ UNCHANGED retryVars
    BY <1>3 DEF Match, SidecarTypes
  <2>2. j.ver = ver /\ j.late = late /\ j.cursor = job[w][k].cursor
    BY CursorOf DEF Jobs
  <2> HIDE DEF j
  <2>3. ASSUME job'[w][k] = j PROVE JobMoved(w, k)
    <3>1. j.stage = "send"
      BY CursorOf DEF Jobs, j
    <3>2. QED
      BY <2>2, <2>3, <3>1 DEF JobMoved, CursorMove, WakeMove, SendMove, FirstMove, Firsts
  <2>4. QED
    BY <2>1, <2>3, OneJob, SameRetry
<1>4. QED
  BY <1>1, <1>2, <1>3

LEMMA JobStepMoved ==
  ASSUME Typed, FirstsSubscribe, CacheFresh, NEW w \in Watches, NEW k \in Workers,
         JobStep(w, k) \/ MatchFails(w, k)
  PROVE  \A u \in Watches : RetryMoved(u) /\ \A l \in Workers : JobMoved(u, l)
<1>1. SidecarTypes /\ TypeOK
  BY DEF Typed, TypeOK, SidecarTypes
<1>2. job[w][k].stage # "idle"
  BY DEF JobStep, ReadCache, ReadRemote, FillCache, MatchGone, MatchFails, NotifyClosed, NotifyNothing, NotifySent,
         NotifyFails
<1>3. job[w][k].stage \in {"first", "firstFill"} => k = "subscribe"
  BY DEF FirstsSubscribe, Firsts
<1>4. CASE ReadCache(w, k)
  <2>1. /\ Match(w, k, cache.ver, cache.late) /\ cache.ver \in Cursors /\ cache.late \in BOOLEAN
        /\ ~ cache.late => Quiet(cache.ver, Purged)
    BY <1>1, <1>4 DEF ReadCache, TypeOK, CacheFresh
  <2>2. QED
    BY <1>1, <1>2, <1>3, <2>1, MatchMoved
<1>5. CASE FillCache(w, k)
  <2>1. PICK ver \in Cursors, late \in BOOLEAN :
          Match(w, k, ver, late) /\ (~ late => Quiet(ver, Purged))
    BY <1>1, <1>5, CursorOf DEF FillCache, Quiet
  <2>2. QED
    BY <1>1, <1>2, <1>3, <2>1, MatchMoved
<1>6. CASE MatchGone(w, k) \/ MatchFails(w, k)
  <2>1. \/ RetryLater(w, k)
        \/ job[w][k].stage = "first" /\ \E c \in {0, job[w][k].cursor} : CompareFirst(w, 0, c)
    BY <1>6 DEF MatchGone, MatchFails
  <2>2. CASE RetryLater(w, k)
    BY <1>1, <1>2, <2>2, RetryLaterMoved
  <2>3. ASSUME NEW c \in {0, job[w][k].cursor}, CompareFirst(w, 0, c), k = "subscribe"
        PROVE  \A u \in Watches : RetryMoved(u) /\ \A l \in Workers : JobMoved(u, l)
    BY <1>1, <1>2, <2>3, CompareFirstMoved
  <2>4. QED
    BY <1>3, <2>1, <2>2, <2>3
<1>7. CASE NotifyClosed(w, k) \/ NotifySent(w, k) \/ NotifyNothing(w, k)
  <2>1. job' = [job EXCEPT ![w][k] = NoJob] /\ UNCHANGED retryVars
    BY <1>7 DEF NotifyClosed, NotifySent, NotifyNothing, retryVars
  <2>2. job'[w][k] = NoJob => JobMoved(w, k)
    BY NoJobMoved
  <2>3. QED
    BY <1>1, <2>1, <2>2, OneJob, SameRetry
<1>8. CASE NotifyFails(w, k)
  BY <1>1, <1>2, <1>8, RetryLaterMoved DEF NotifyFails
<1>9. CASE ReadRemote(w, k)
  <2> DEFINE st == IF job[w][k].stage = "first" THEN "firstFill" ELSE "fill"
             j == [job[w][k] EXCEPT !.ver = Len(log), !.stage = st]
  <2>1. job' = [job EXCEPT ![w][k] = j] /\ UNCHANGED retryVars
    BY <1>1, <1>9 DEF ReadRemote, SidecarTypes
  <2>2. j.cursor = job[w][k].cursor /\ j.stage = st
    BY <1>1, CursorOf DEF Jobs
  <2>3. st \in {"firstFill", "fill"} /\ (st = "firstFill" => k = "subscribe")
    BY <1>3
  <2> HIDE DEF j, st
  <2>4. ASSUME job'[w][k] = j PROVE JobMoved(w, k)
    BY <1>2, <2>2, <2>3, <2>4 DEF JobMoved, CursorMove, WakeMove, SendMove, FirstMove, Firsts
  <2>5. QED
    BY <1>1, <2>1, <2>4, OneJob, SameRetry
<1>10. QED
  BY <1>4, <1>5, <1>6, <1>7, <1>8, <1>9 DEF JobStep

LEMMA NextMoved ==
  ASSUME Typed, FirstsSubscribe, CacheFresh, Next
  PROVE  \A u \in Watches : RetryMoved(u) /\ \A l \in Workers : JobMoved(u, l)
<1>1. SidecarTypes /\ TypeOK
  BY DEF Typed, TypeOK, SidecarTypes
<1>2. CASE job' = job /\ UNCHANGED retryVars
  BY <1>2, SameJob, SameRetry
<1>3. CASE HandleEvent
  <2> DEFINE i == Head(handler.events)
  <2>1. PICK ws \in SUBSET members :
          job' = [w \in Watches |->
                   IF w \in ws THEN [job[w] EXCEPT !["event"] = Job("match", i)] ELSE job[w]]
    BY <1>3 DEF HandleEvent, Concerned
  <2>2. handler.events # <<>> /\ retrying' = retrying
        /\ (retry' = retry \/ retry' = [w \in Watches |-> None])
    BY <1>3 DEF HandleEvent
  <2> HIDE DEF i
  <2>3. ASSUME NEW u \in Watches, NEW l \in Workers PROVE JobMoved(u, l)
    <3>1. CASE u \in ws /\ l = "event"
      <4>1. job'[u][l] = Job("match", i)
        BY <1>1, <2>1, <3>1 DEF SidecarTypes
      <4>2. job'[u][l].stage = "match" /\ job'[u][l].cursor = i /\ u \in members
        BY <2>1, <3>1, <4>1 DEF Job
      <4>3. QED
        BY <2>2, <3>1, <4>2 DEF JobMoved, CursorMove, WakeMove, SendMove, FirstMove, Firsts, i
    <3>2. CASE ~ (u \in ws /\ l = "event")
      <4>1. job \in [Watches -> [Workers -> Jobs]]
        BY <1>1 DEF SidecarTypes
      <4>2. job'[u][l] = job[u][l]
        BY <2>1, <3>2, <4>1
      <4>3. QED
        BY <4>2, SameJob
    <3>3. QED
      BY <3>1, <3>2
  <2>4. \A u \in Watches : RetryMoved(u)
    BY <2>2 DEF RetryMoved
  <2>5. QED
    BY <2>3, <2>4
<1>4. CASE PurgeRetry
  BY <1>1, <1>4, SameJob DEF PurgeRetry, workerFrame, RetryMoved, SidecarTypes
<1>5. ASSUME NEW w \in Watches, RetryNext(w)
      PROVE  \A u \in Watches : RetryMoved(u) /\ \A l \in Workers : JobMoved(u, l)
  <2>1. job' = [job EXCEPT ![w]["retry"] = Job("match", retrying[w])] /\ retrying[w] # None
    BY <1>5 DEF RetryNext
  <2>2. ASSUME job'[w]["retry"] = Job("match", retrying[w]) PROVE JobMoved(w, "retry")
    BY <2>1, <2>2 DEF JobMoved, CursorMove, WakeMove, SendMove, FirstMove, Firsts, Job
  <2>3. \A u \in Watches, l \in Workers : JobMoved(u, l)
    BY <1>1, <2>1, <2>2, OneJob DEF Workers
  <2>4. \A u \in Watches : RetryMoved(u)
    BY <1>1, <1>5 DEF RetryNext, RetryMoved, SidecarTypes
  <2>5. QED
    BY <2>3, <2>4
<1>6. ASSUME NEW w \in Watches, RetryDrops(w) \/ DeleteInstance(w)
      PROVE  \A u \in Watches : RetryMoved(u) /\ \A l \in Workers : JobMoved(u, l)
  <2>1. job' = job
    BY <1>6 DEF RetryDrops, DeleteInstance
  <2>2. \A u \in Watches : RetryMoved(u)
    BY <1>1, <1>6 DEF RetryDrops, DeleteInstance, RetryMoved, SidecarTypes
  <2>3. QED
    BY <2>1, <2>2, SameJob
<1>7. ASSUME NEW w \in Watches, AddSidecar(w) \/ ReadAppCursor(w) \/ SubscribeFails(w)
      PROVE  \A u \in Watches : RetryMoved(u) /\ \A l \in Workers : JobMoved(u, l)
  <2>1. UNCHANGED retryVars
    BY <1>7 DEF AddSidecar, AddMember, ReadAppCursor, SubscribeFails
  <2>2. "subscribe" \in Workers
    BY DEF Workers
  <2>3. CASE AddSidecar(w)
    <3>1. /\ job' = [job EXCEPT ![w]["subscribe"] = Job("added", 0)]
          /\ stream[w].stage = "wait" /\ stream'[w].stage = "adding"
      BY <1>1, <2>3 DEF AddSidecar, AddMember, SidecarTypes, Streams
    <3>2. ASSUME job'[w]["subscribe"] = Job("added", 0) PROVE JobMoved(w, "subscribe")
      BY <3>1, <3>2 DEF JobMoved, CursorMove, WakeMove, SendMove, FirstMove, Firsts, Job
    <3>3. QED
      BY <1>1, <2>1, <2>2, <3>1, <3>2, OneJob, SameRetry
  <2>4. CASE ReadAppCursor(w)
    <3>1. /\ job' = [job EXCEPT ![w]["subscribe"] = Job("first", appCursor)]
          /\ job[w]["subscribe"].stage = "added"
      BY <2>4 DEF ReadAppCursor
    <3>2. ASSUME job'[w]["subscribe"] = Job("first", appCursor) PROVE JobMoved(w, "subscribe")
      BY <3>1, <3>2 DEF JobMoved, CursorMove, WakeMove, SendMove, FirstMove, Firsts, Job
    <3>3. QED
      BY <1>1, <2>1, <2>2, <3>1, <3>2, OneJob, SameRetry
  <2>5. CASE SubscribeFails(w)
    <3>1. job' = [job EXCEPT ![w]["subscribe"] = NoJob]
      BY <2>5 DEF SubscribeFails
    <3>2. job'[w]["subscribe"] = NoJob => JobMoved(w, "subscribe")
      BY NoJobMoved
    <3>3. QED
      BY <1>1, <2>1, <2>2, <3>1, <3>2, OneJob, SameRetry
  <2>6. QED
    BY <1>7, <2>3, <2>4, <2>5
<1>8. ASSUME \/ Fire \/ RecordCursor \/ ListEvents \/ PurgeCache \/ SendToPipe \/ HandleOneBatch
             \/ PopAll \/ FinishEvent \/ SkipEvent
      PROVE  job' = job /\ UNCHANGED retryVars
  BY <1>8 DEF Fire, RecordCursor, ListEvents, ListEventsWith, PurgeCache, PurgeCacheIf, SendToPipe,
              HandleOneBatch, Push, PopAll, Pop, FinishEvent, SkipEvent
<1>9. ASSUME NEW w \in Watches, Watch(w) \/ Refuse(w) \/ Close(w) \/ RemoveSidecar(w)
      PROVE  job' = job /\ UNCHANGED retryVars
  BY <1>9 DEF Watch, Refuse, Close, RemoveSidecar, RemoveMember
<1>10. QED
  BY <1>2, <1>3, <1>4, <1>5, <1>6, <1>7, <1>8, <1>9, JobStepMoved DEF Next, ServerStep

-----------------------------------------------------------------------------
(* The cursors go from the observer to the jobs: none is ahead of what has *)
(* been purged.                                                            *)

Observing ==
  /\ observer.start <= observer.last /\ observer.last <= recorded
  /\ observer.stage = "list" <=> observer.start = observer.last
  /\ cursor = observer.last \/ (cursor = 0 /\ observer.stage = "list")

UpTo(s, n) == \A i \in 1..Len(s) : s[i] <= n

LEMMA UpToGrows ==
  ASSUME NEW s \in Seq(Nat), NEW m \in Nat, NEW n \in Nat, m <= n, UpTo(s, m)
  PROVE  UpTo(s, n)
BY ElementOfSeq DEF UpTo

LEMMA UpToAppend ==
  ASSUME NEW s \in Seq(Nat), NEW n \in Nat, UpTo(s, n)
  PROVE  UpTo(Append(s, n), n)
BY AppendProperties, LenProperties DEF UpTo

LEMMA UpToConcat ==
  ASSUME NEW s \in Seq(Nat), NEW t \in Seq(Nat), NEW n \in Nat, UpTo(s, n), UpTo(t, n)
  PROVE  UpTo(s \o t, n)
BY ConcatProperties, LenProperties DEF UpTo

LEMMA UpToTail ==
  ASSUME NEW s \in Seq(Nat), NEW n \in Nat, UpTo(s, n), s # <<>>
  PROVE  UpTo(Tail(s), n) /\ Head(s) \in Nat /\ Head(s) <= n
BY HeadTailProperties, LenProperties, EmptySeq DEF UpTo

\* What is on its way to the handler.
Passing ==
  /\ pushed <= observer.start /\ appCursor <= observer.start
  /\ UpTo(pipe, observer.start) /\ UpTo(queue, observer.start)
  /\ UpTo(handler.events, observer.start)

JobCursors ==
  \A w \in Watches :
    /\ \A k \in Workers : job[w][k].cursor <= observer.start
    /\ retry[w] # None => retry[w] <= observer.start
    /\ retrying[w] # None => retrying[w] <= observer.start

WaitingCursors == \A w \in Watches : stream[w].stage = "wait" => stream[w].cursor <= recorded

Line == Observing /\ Passing /\ JobCursors /\ WaitingCursors

LEMMA Numbers ==
  ASSUME TypeOK
  PROVE  /\ recorded \in Nat /\ observer.start \in Nat /\ observer.last \in Nat /\ cursor \in Nat
         /\ pushed \in Nat /\ appCursor \in Nat /\ Cursors \subseteq Nat /\ Len(log) \in Nat
         /\ observer \in [stage : {"list", "purge", "pipe"}, start : Cursors, last : Cursors]
BY DEF TypeOK, Cursors

LEMMA InitLine == Init => Line
<1> SUFFICES ASSUME Init PROVE Line
  OBVIOUS
<1>1. Observing
  BY DEF Init, Observing
<1>2. Passing
  BY DEF Init, Passing, NoHandler, UpTo
<1>3. JobCursors
  BY DEF Init, JobCursors, NoJob
<1>4. WaitingCursors
  BY DEF Init, WaitingCursors, NewStream
<1>5. QED
  BY <1>1, <1>2, <1>3, <1>4 DEF Line

\* The observer moves on.
LEMMA ObserverSteps ==
  ASSUME TypeOK, Observing, Next
  PROVE  /\ Observing' /\ observer.start <= observer'.start /\ recorded <= recorded'
         /\ Purged <= Purged' /\ observer'.start \in Nat /\ recorded' \in Nat
<1> USE Numbers
<1>1. CASE RecordCursor
  <2>1. observer' = observer /\ cursor' = cursor /\ recorded <= recorded' /\ recorded' \in Nat
    BY <1>1 DEF RecordCursor, pipelineVars
  <2>2. QED
    BY <2>1 DEF Observing, Purged
<1>2. CASE ListEvents
  <2>1. /\ observer.stage = "list" /\ observer.start < recorded /\ recorded' = recorded
        /\ observer'.stage = "purge" /\ observer'.start = observer.start /\ observer'.last = recorded
        /\ cursor' = recorded
    BY <1>2 DEF ListEvents, ListEventsWith
  <2>2. QED
    BY <2>1 DEF Observing, Purged
<1>3. CASE PurgeCache
  <2>1. /\ observer.stage = "purge" /\ recorded' = recorded /\ cursor' = cursor
        /\ observer'.stage = "pipe" /\ observer'.start = observer.start
        /\ observer'.last = observer.last
    BY <1>3 DEF PurgeCache, PurgeCacheIf
  <2>2. QED
    BY <2>1 DEF Observing, Purged
<1>4. CASE SendToPipe
  <2>1. /\ observer.stage = "pipe" /\ recorded' = recorded /\ cursor' = cursor
        /\ observer'.stage = "list" /\ observer'.start = observer.last
        /\ observer'.last = observer.last
    BY <1>4 DEF SendToPipe
  <2>2. QED
    BY <2>1 DEF Observing, Purged
<1>5. CASE UNCHANGED <<observer, recorded, cursor>>
  BY <1>5 DEF Observing, Purged
<1>6. ASSUME NEW w \in Watches, NEW k \in Workers, JobStep(w, k) \/ MatchFails(w, k)
      PROVE  UNCHANGED <<observer, recorded, cursor>>
  BY <1>6 DEF JobStep, ReadCache, ReadRemote, FillCache, MatchGone, MatchFails, NotifyClosed,
              NotifyNothing, NotifySent, NotifyFails, matchFrame, notifyFrame, pipelineVars
<1>7. ASSUME NEW w \in Watches,
             \/ RetryNext(w) \/ RetryDrops(w) \/ Watch(w) \/ Refuse(w) \/ AddSidecar(w)
             \/ ReadAppCursor(w) \/ SubscribeFails(w) \/ Close(w) \/ RemoveSidecar(w)
             \/ DeleteInstance(w)
      PROVE  UNCHANGED <<observer, recorded, cursor>>
  BY <1>7 DEF RetryNext, RetryDrops, workerFrame, Watch, Refuse, AddSidecar, AddMember, ReadAppCursor,
              SubscribeFails, Close, RemoveSidecar, RemoveMember, DeleteInstance, streamFrame,
              pipelineVars
<1>8. ASSUME \/ Fire \/ HandleOneBatch \/ PopAll \/ HandleEvent \/ FinishEvent \/ SkipEvent
             \/ PurgeRetry
      PROVE  UNCHANGED <<observer, recorded, cursor>>
  BY <1>8 DEF Fire, HandleOneBatch, Push, PopAll, Pop, HandleEvent, FinishEvent, SkipEvent,
              handlerFrame, PurgeRetry, workerFrame, pipelineVars
<1>9. QED
  BY <1>1, <1>2, <1>3, <1>4, <1>5, <1>6, <1>7, <1>8 DEF Next, ServerStep

LEMMA PassingSteps ==
  ASSUME Typed, Observing, Passing, Next
  PROVE  Passing'
<1>1. /\ TypeOK /\ observer.start <= observer'.start /\ observer'.start \in Nat
      /\ pushed \in Nat /\ appCursor \in Nat /\ observer.start \in Nat /\ observer.last \in Nat
      /\ Passing
  BY ObserverSteps, Numbers DEF Typed
<1>2. pipe \in Seq(Nat) /\ queue \in Seq(Nat) /\ handler.events \in Seq(Nat)
  <2>1. Cursors \subseteq Nat /\ Events \subseteq Nat
    BY DEF Cursors, Events
  <2>2. pipe \in Seq(Cursors) /\ queue \in Seq(Events) /\ handler.events \in Seq(Events)
    BY <1>1 DEF TypeOK
  <2>3. QED
    BY <2>1, <2>2, SeqMonotonic
<1>3. CASE SendToPipe
  <2>1. /\ pipe' = Append(pipe, observer.last) /\ observer'.start = observer.last
        /\ UNCHANGED <<pushed, queue, handler, appCursor>>
    BY <1>3 DEF SendToPipe, appVars
  <2>2. UpTo(pipe, observer.last) /\ UpTo(queue, observer.last) /\ UpTo(handler.events, observer.last)
    BY <1>1, <1>2, UpToGrows DEF Observing, Passing
  <2>3. UpTo(pipe', observer.last)
    BY <1>1, <1>2, <2>1, <2>2, UpToAppend
  <2>4. QED
    BY <1>1, <2>1, <2>2, <2>3 DEF Observing, Passing
<1>4. CASE HandleOneBatch
  <2> DEFINE events == [i \in 1..(Head(pipe) - pushed) |-> pushed + i]
  <2>1. /\ pipe # <<>> /\ pushed' = Head(pipe) /\ pipe' = Tail(pipe)
        /\ queue' = queue \/ queue' = queue \o events
        /\ UNCHANGED <<observer, handler, appCursor>>
    BY <1>4 DEF HandleOneBatch, Push
  <2>2. UpTo(pipe', observer.start) /\ Head(pipe) \in Nat /\ Head(pipe) <= observer.start
    BY <1>1, <1>2, <2>1, UpToTail DEF Passing
  <2>3. events \in Seq(Nat) /\ UpTo(events, observer.start)
    <3>1. \A i \in 1..(Head(pipe) - pushed) : pushed + i \in Nat /\ pushed + i <= observer.start
      BY <1>1, <2>2
    <3>2. events \in Seq(Nat)
      BY <1>1, <2>2, <3>1
    <3>3. \A i \in 1..Len(events) : events[i] = pushed + i /\ i \in 1..(Head(pipe) - pushed)
      <4>1. 1..Len(events) = 1..(Head(pipe) - pushed)
        BY <3>2, LenProperties
      <4>2. QED
        BY <4>1
    <3>4. QED
      BY <3>1, <3>2, <3>3 DEF UpTo
  <2> HIDE DEF events
  <2>4. UpTo(queue', observer.start)
    BY <1>1, <1>2, <2>1, <2>3, UpToConcat DEF Passing
  <2>5. QED
    BY <1>1, <2>1, <2>2, <2>4 DEF Passing
<1>5. CASE PopAll
  <2>1. handler'.events = queue /\ queue' = <<>> /\ UNCHANGED <<pushed, pipe, observer, appCursor>>
    BY <1>5, <1>1 DEF PopAll, Pop, handlerFrame, pipelineVars, TypeOK
  <2>2. QED
    BY <1>1, <2>1 DEF Passing, UpTo
<1>6. CASE HandleEvent \/ FinishEvent \/ SkipEvent
  <2>1. handler.events # <<>>
    BY <1>6 DEF HandleEvent, FinishEvent, SkipEvent, Typed, Waiting
  <2>2. /\ handler'.events \in {handler.events, Tail(handler.events)}
        /\ appCursor' \in {appCursor, Head(handler.events)}
        /\ UNCHANGED <<pushed, pipe, queue, observer>>
    BY <1>1, <1>6 DEF HandleEvent, FinishEvent, SkipEvent, handlerFrame, pipelineVars, TypeOK
  <2>3. UpTo(Tail(handler.events), observer.start) /\ Head(handler.events) <= observer.start
    BY <1>1, <1>2, <2>1, UpToTail DEF Passing
  <2>4. QED
    BY <1>1, <2>2, <2>3 DEF Passing
<1>7. ASSUME NEW w \in Watches, RemoveSidecar(w) \/ AddSidecar(w) PROVE Passing'
  <2>1. UNCHANGED <<pushed, pipe, observer>>
    BY <1>7 DEF RemoveSidecar, RemoveMember, AddSidecar, AddMember, streamFrame, pipelineVars
  <2>2. \/ handler'.events = handler.events /\ UNCHANGED <<queue, appCursor>>
        \/ handler'.events = <<>> /\ queue' = <<>> /\ appCursor' = 0
    BY <1>1, <1>7 DEF RemoveSidecar, RemoveMember, AddSidecar, AddMember, NoHandler, TypeOK
  <2>3. QED
    BY <1>1, <2>1, <2>2 DEF Passing, UpTo
<1>8. CASE UNCHANGED <<pushed, pipe, queue, handler, appCursor>>
  <2>1. /\ UpTo(pipe, observer'.start) /\ UpTo(queue, observer'.start)
        /\ UpTo(handler.events, observer'.start)
    BY <1>1, <1>2, UpToGrows DEF Passing
  <2>2. QED
    BY <1>1, <1>8, <2>1 DEF Passing
<1>9. ASSUME NEW w \in Watches, NEW k \in Workers, JobStep(w, k) \/ MatchFails(w, k)
      PROVE  UNCHANGED <<pushed, pipe, queue, handler, appCursor>>
  BY <1>9 DEF JobStep, ReadCache, ReadRemote, FillCache, MatchGone, MatchFails, NotifyClosed,
              NotifyNothing, NotifySent, NotifyFails, matchFrame, notifyFrame, pipelineVars, appVars
<1>10. ASSUME NEW w \in Watches,
             \/ RetryNext(w) \/ RetryDrops(w) \/ Watch(w) \/ Refuse(w)
             \/ ReadAppCursor(w) \/ SubscribeFails(w) \/ Close(w) \/ DeleteInstance(w)
      PROVE  UNCHANGED <<pushed, pipe, queue, handler, appCursor>>
  BY <1>10 DEF RetryNext, RetryDrops, workerFrame, Watch, Refuse, ReadAppCursor,
               SubscribeFails, Close, DeleteInstance, streamFrame, pipelineVars, appVars
<1>11. ASSUME Fire \/ RecordCursor \/ ListEvents \/ PurgeCache \/ PurgeRetry
      PROVE  UNCHANGED <<pushed, pipe, queue, handler, appCursor>>
  BY <1>11 DEF Fire, RecordCursor, ListEvents, ListEventsWith, PurgeCache, PurgeCacheIf, PurgeRetry,
               workerFrame, pipelineVars, appVars
<1>12. QED
  BY <1>3, <1>4, <1>5, <1>6, <1>7, <1>8, <1>9, <1>10, <1>11 DEF Next, ServerStep

LEMMA JobCursorIs ==
  ASSUME Typed, FirstsSubscribe, CacheFresh, Line, Next
  PROVE  \A w \in Watches, k \in Workers : job'[w][k].cursor \in Nat /\ job'[w][k].cursor <= observer.start
<1>1. /\ TypeOK /\ TypeOK' /\ observer.start <= observer'.start /\ observer'.start \in Nat
      /\ observer.start \in Nat /\ appCursor \in Nat /\ appCursor <= observer.start
  BY ObserverSteps, NextTyped, Numbers DEF Typed, Line, Passing
<1>2. handler.events # <<>> => Head(handler.events) \in Nat /\ Head(handler.events) <= observer.start
  <2>1. handler.events \in Seq(Nat)
    <3>1. handler.events \in Seq(Events)
      BY <1>1 DEF TypeOK
    <3>2. Events \subseteq Nat
      BY DEF Events
    <3>3. QED
      BY <3>1, <3>2, SeqMonotonic
  <2>2. QED
    BY <1>1, <2>1, UpToTail DEF Line, Passing
<1>3. ASSUME NEW w \in Watches, NEW k \in Workers
      PROVE  job[w][k].cursor \in Nat /\ job[w][k].cursor <= observer.start
  BY <1>1, CursorOf, Numbers DEF Line, JobCursors, TypeOK, SidecarTypes
<1>4. ASSUME NEW w \in Watches
      PROVE  /\ retry[w] # None => retry[w] \in Nat /\ retry[w] <= observer.start
             /\ retrying[w] # None => retrying[w] \in Nat /\ retrying[w] <= observer.start
  <2>1. retry[w] \in Cursors \cup {None} /\ retrying[w] \in Cursors \cup {None}
    BY <1>1 DEF TypeOK
  <2>2. QED
    BY <1>1, <2>1, Numbers DEF Line, JobCursors
<1>5. ASSUME NEW w \in Watches, NEW k \in Workers
      PROVE  job'[w][k].cursor \in Nat /\ job'[w][k].cursor <= observer.start
  <2>1. CursorMove(w, k)
    BY NextMoved DEF JobMoved
  <2>2. QED
    BY <1>1, <1>2, <1>3, <1>4, <2>1 DEF CursorMove
<1>6. QED
  BY <1>5

LEMMA JobCursorSteps ==
  ASSUME Typed, FirstsSubscribe, CacheFresh, Line, Next
  PROVE  JobCursors'
<1>1. /\ TypeOK /\ observer.start <= observer'.start /\ observer'.start \in Nat /\ observer.start \in Nat
  BY ObserverSteps, Numbers DEF Typed, Line
<1>2. ASSUME NEW w \in Watches, NEW k \in Workers PROVE job'[w][k].cursor <= observer'.start
  BY <1>1, JobCursorIs
<1>3. ASSUME NEW w \in Watches, NEW k \in Workers
      PROVE  job[w][k].cursor \in Nat /\ job[w][k].cursor <= observer.start
  BY <1>1, CursorOf, Numbers DEF Line, JobCursors, TypeOK, SidecarTypes
<1>4. ASSUME NEW w \in Watches
      PROVE  /\ retry[w] # None => retry[w] \in Nat /\ retry[w] <= observer.start
             /\ retrying[w] # None => retrying[w] \in Nat /\ retrying[w] <= observer.start
  <2>1. retry[w] \in Cursors \cup {None} /\ retrying[w] \in Cursors \cup {None}
    BY <1>1 DEF TypeOK
  <2>2. QED
    BY <1>1, <2>1, Numbers DEF Line, JobCursors
<1>5. ASSUME NEW w \in Watches
      PROVE  /\ retry'[w] # None => retry'[w] <= observer'.start
             /\ retrying'[w] # None => retrying'[w] <= observer'.start
  <2>1. RetryMoved(w)
    BY NextMoved
  <2>2. QED
    BY <1>1, <1>3, <1>4, <2>1 DEF RetryMoved
<1>6. QED
  BY <1>2, <1>5 DEF JobCursors

-----------------------------------------------------------------------------
(* What a step may make of the stream of a sidecar. *)

KeptStream(w) == stream'[w].cursor = stream[w].cursor /\ stream'[w].timing = stream[w].timing
NotJoining(w) == w \in members' => w \in members

\* The stream stays where it is.
Same(w) == stream'[w].stage = stream[w].stage /\ KeptStream(w) /\ NotJoining(w)
\* Watch: with a cursor the cache-service has recorded.
Comes(w) ==
  /\ stream[w].stage = "new" /\ stream'[w].stage = "wait" /\ stream'[w].cursor <= recorded
  /\ NotJoining(w)
\* AddSidecar: the observer has passed the cursor.
IsLetIn(w) ==
  /\ stream[w].stage = "wait" /\ stream'[w].stage = "adding"
  /\ stream'[w].cursor = stream[w].cursor /\ stream'[w].timing = Timing(w)
  /\ stream[w].cursor <= cursor /\ w \in members'
\* The subscription's own notification ends.
IsSubscribed(w) ==
  /\ job[w]["subscribe"].stage # "idle" /\ job'[w]["subscribe"].stage = "idle"
  /\ stream'[w].stage = "on" /\ KeptStream(w) /\ NotJoining(w)
\* SubscribeFails: the member goes, the other work stays.
Fails(w) ==
  /\ job[w]["subscribe"].stage # "idle" /\ job'[w]["subscribe"].stage = "idle"
  /\ stream'[w].stage = "failed" /\ KeptStream(w) /\ w \notin members'
  /\ \A k \in Workers \ {"subscribe"} : job'[w][k] = job[w][k]
  /\ UNCHANGED <<retry, retrying>>
  /\ InFlight(w) \/ retry[w] # None => w \in escaped'
\* Refuse, Close, and the two steps of Unsubscribe
Ends(w) ==
  /\ KeptStream(w) /\ NotJoining(w)
  /\ \/ stream[w].stage = "wait" /\ stream'[w].stage = "gone"
     \/ stream[w].stage = "on" /\ stream'[w].stage = "closed"
     \/ stream[w].stage = "closed" /\ stream'[w].stage = "removed" /\ w \notin members'
     \/ /\ stream[w].stage = "removed" /\ stream'[w].stage = "gone"
        /\ retry'[w] = None /\ (InFlight(w) => w \in escaped') /\ UNCHANGED <<job, retrying>>

StreamMoved(w) ==
  Same(w) \/ Comes(w) \/ IsLetIn(w) \/ IsSubscribed(w) \/ Fails(w) \/ Ends(w)

LEMMA SameStreams ==
  ASSUME stream' = stream, members' \subseteq members
  PROVE  \A w \in Watches : StreamMoved(w)
BY DEF StreamMoved, Same, KeptStream, NotJoining

\* The stream of w goes to another stage and nothing else changes.
LEMMA OneStream ==
  ASSUME SidecarTypes, NEW w \in Watches, NEW st, stream' = [stream EXCEPT ![w].stage = st],
         members' \subseteq members
  PROVE  /\ stream'[w].stage = st /\ KeptStream(w) /\ NotJoining(w)
         /\ \A u \in Watches \ {w} : StreamMoved(u)
<1>1. stream \in [Watches -> Streams]
  BY DEF SidecarTypes
<1>2. stream'[w].stage = st /\ stream'[w].cursor = stream[w].cursor /\ stream'[w].timing = stream[w].timing
  BY <1>1 DEF Streams
<1>3. \A u \in Watches \ {w} : stream'[u] = stream[u]
  BY <1>1
<1>4. QED
  BY <1>2, <1>3 DEF StreamMoved, Same, KeptStream, NotJoining

LEMMA SubscribedMoved ==
  ASSUME SidecarTypes, NEW w \in Watches, job' = [job EXCEPT ![w]["subscribe"] = NoJob],
         job[w]["subscribe"].stage # "idle", stream' = [stream EXCEPT ![w].stage = "on"],
         members' = members
  PROVE  \A u \in Watches : StreamMoved(u)
<1>1. job'[w]["subscribe"].stage = "idle"
  BY DEF SidecarTypes, NoJob, Workers
<1>2. QED
  BY <1>1, OneStream DEF StreamMoved, IsSubscribed

LEMMA RetryLaterStream ==
  ASSUME SidecarTypes, NEW w \in Watches, NEW k \in Workers, RetryLater(w, k),
         job[w][k].stage # "idle", members' = members
  PROVE  \A u \in Watches : StreamMoved(u)
BY SubscribedMoved, SameStreams DEF RetryLater, Notified

LEMMA CompareFirstStream ==
  ASSUME SidecarTypes, NEW w \in Watches, NEW r, NEW c, CompareFirst(w, r, c),
         job[w]["subscribe"].stage # "idle", members' = members
  PROVE  \A u \in Watches : StreamMoved(u)
BY SubscribedMoved, SameStreams DEF CompareFirst

LEMMA MatchStream ==
  ASSUME SidecarTypes, NEW w \in Watches, NEW k \in Workers, NEW ver, NEW late,
         Match(w, k, ver, late), job[w][k].stage # "idle",
         job[w][k].stage \in {"first", "firstFill"} => k = "subscribe", members' = members
  PROVE  \A u \in Watches : StreamMoved(u)
<1> DEFINE r == Matched(w, ver)
<1>1. CASE job[w][k].stage \in {"first", "firstFill"}
  <2>1. PICK c : CompareFirst(w, r, c)
    BY <1>1 DEF Match
  <2> HIDE DEF r
  <2>2. QED
    BY <1>1, <2>1, CompareFirstStream
<1>2. CASE job[w][k].stage \notin {"first", "firstFill"} /\ r = 0
  BY <1>2, RetryLaterStream DEF Match
<1>3. CASE job[w][k].stage \notin {"first", "firstFill"} /\ r # 0
  BY <1>3, SameStreams DEF Match
<1>4. QED
  BY <1>1, <1>2, <1>3

LEMMA NextStream ==
  ASSUME Typed, FirstsSubscribe, Next
  PROVE  \A u \in Watches : StreamMoved(u)
<1>1. SidecarTypes /\ TypeOK
  BY DEF Typed, TypeOK, SidecarTypes
<1>2. ASSUME NEW w \in Watches, NEW k \in Workers, JobStep(w, k) \/ MatchFails(w, k)
      PROVE  \A u \in Watches : StreamMoved(u)
  <2>1. /\ job[w][k].stage # "idle" /\ members' = members
        /\ job[w][k].stage \in {"first", "firstFill"} => k = "subscribe"
    BY <1>2 DEF JobStep, ReadCache, ReadRemote, FillCache, MatchGone, MatchFails, NotifyClosed,
                NotifyNothing, NotifySent, NotifyFails, matchFrame, notifyFrame, appVars, FirstsSubscribe, Firsts
  <2>2. CASE ReadCache(w, k) \/ FillCache(w, k)
    <3>1. PICK ver, late : Match(w, k, ver, late)
      BY <2>2 DEF ReadCache, FillCache
    <3>2. QED
      BY <1>1, <2>1, <3>1, MatchStream
  <2>3. CASE MatchGone(w, k) \/ MatchFails(w, k)
    <3>1. RetryLater(w, k) \/ (job[w][k].stage = "first" /\ \E c : CompareFirst(w, 0, c))
      BY <2>3 DEF MatchGone, MatchFails
    <3>2. CASE RetryLater(w, k)
      BY <1>1, <2>1, <3>2, RetryLaterStream
    <3>3. ASSUME NEW c, CompareFirst(w, 0, c), k = "subscribe" PROVE \A u \in Watches : StreamMoved(u)
      BY <1>1, <2>1, <3>3, CompareFirstStream
    <3>4. QED
      BY <2>1, <3>1, <3>2, <3>3
  <2>4. CASE NotifySent(w, k) \/ NotifyNothing(w, k)
    BY <1>1, <2>1, <2>4, SubscribedMoved, SameStreams DEF NotifySent, NotifyNothing, Notified
  <2>5. CASE NotifyFails(w, k)
    BY <1>1, <2>1, <2>5, RetryLaterStream DEF NotifyFails
  <2>6. CASE ReadRemote(w, k) \/ NotifyClosed(w, k)
    BY <2>1, <2>6, SameStreams DEF ReadRemote, NotifyClosed
  <2>7. QED
    BY <1>2, <2>2, <2>3, <2>4, <2>5, <2>6 DEF JobStep
<1>3. CASE HandleEvent
  <2>1. members' = members /\ (stream' = stream \/ stream' = [w \in Watches |->
           IF w \in members THEN [stream[w] EXCEPT !.cancelled = TRUE] ELSE stream[w]])
    BY <1>3 DEF HandleEvent, handlerFrame
  <2>2. ASSUME NEW u \in Watches PROVE StreamMoved(u)
    <3>1. stream[u] \in Streams
      BY <1>1 DEF TypeOK
    <3>2. /\ stream'[u].stage = stream[u].stage /\ stream'[u].cursor = stream[u].cursor
          /\ stream'[u].timing = stream[u].timing
      BY <2>1, <3>1 DEF Streams
    <3>3. QED
      BY <2>1, <3>2 DEF StreamMoved, Same, KeptStream, NotJoining
  <2>3. QED
    BY <2>2
<1>4. ASSUME NEW w \in Watches, Watch(w) PROVE \A u \in Watches : StreamMoved(u)
  <2>1. PICK c, m :
          /\ c \in 0..recorded
          /\ stream' = [stream EXCEPT ![w] = [NewStream EXCEPT !.stage = "wait", !.cursor = c,
                                                               !.release = m]]
    BY <1>4 DEF Watch
  <2>2. stream[w].stage = "new" /\ members' = members
    BY <1>4 DEF Watch, appVars
  <2>3. stream'[w].stage = "wait" /\ stream'[w].cursor = c /\ c <= recorded
    BY <1>1, <2>1, Numbers DEF TypeOK, NewStream
  <2>4. Comes(w)
    BY <2>2, <2>3 DEF Comes, NotJoining
  <2>5. \A u \in Watches \ {w} : stream'[u] = stream[u]
    BY <1>1, <2>1 DEF TypeOK
  <2>6. QED
    BY <2>2, <2>4, <2>5 DEF StreamMoved, Same, KeptStream, NotJoining
<1>5. ASSUME NEW w \in Watches, AddSidecar(w) PROVE \A u \in Watches : StreamMoved(u)
  <2>1. /\ stream' = [stream EXCEPT ![w] = [stream[w] EXCEPT !.stage = "adding", !.timing = Timing(w)]]
        /\ stream[w].stage = "wait" /\ stream[w].cursor <= cursor /\ members' = members \cup {w}
    BY <1>5 DEF AddSidecar, AddMember
  <2>2. stream[w] \in Streams
    BY <1>1 DEF TypeOK
  <2>3. /\ stream'[w].stage = "adding" /\ stream'[w].timing = Timing(w)
        /\ stream'[w].cursor = stream[w].cursor
    BY <1>1, <2>1, <2>2 DEF TypeOK, Streams
  <2>4. \A u \in Watches \ {w} : stream'[u] = stream[u] /\ NotJoining(u)
    BY <1>1, <2>1 DEF TypeOK, NotJoining
  <2>5. QED
    BY <2>1, <2>3, <2>4 DEF StreamMoved, IsLetIn, Same, KeptStream
<1>6. ASSUME NEW w \in Watches, SubscribeFails(w) PROVE \A u \in Watches : StreamMoved(u)
  <2>1. /\ job' = [job EXCEPT ![w]["subscribe"] = NoJob] /\ job[w]["subscribe"].stage # "idle"
        /\ stream' = [stream EXCEPT ![w].stage = "failed"] /\ members' = members \ {w}
        /\ InFlight(w) \/ retry[w] # None => w \in escaped'
        /\ UNCHANGED <<retry, retrying>>
    BY <1>6 DEF SubscribeFails, retryVars
  <2>2. /\ job'[w]["subscribe"].stage = "idle"
        /\ \A k \in Workers \ {"subscribe"} : job'[w][k] = job[w][k]
    BY <1>1, <2>1 DEF SidecarTypes, NoJob, Workers
  <2>3. /\ stream'[w].stage = "failed" /\ KeptStream(w)
        /\ \A u \in Watches \ {w} : StreamMoved(u)
    BY <1>1, <2>1, OneStream
  <2>4. Fails(w)
    BY <2>1, <2>2, <2>3 DEF Fails
  <2>5. QED
    BY <2>3, <2>4 DEF StreamMoved
<1>7. ASSUME NEW w \in Watches, Refuse(w) \/ Close(w) \/ RemoveSidecar(w) \/ DeleteInstance(w)
      PROVE  \A u \in Watches : StreamMoved(u)
  <2>1. PICK st : stream' = [stream EXCEPT ![w].stage = st]
    BY <1>7 DEF Refuse, Close, RemoveSidecar, RemoveMember, DeleteInstance
  <2>2. members' \subseteq members
    BY <1>7 DEF Refuse, Close, RemoveSidecar, RemoveMember, DeleteInstance, appVars
  <2>3. /\ stream'[w].stage = st /\ KeptStream(w) /\ NotJoining(w)
        /\ \A u \in Watches \ {w} : StreamMoved(u)
    BY <1>1, <2>1, <2>2, OneStream
  <2>4. Ends(w)
    <3>1. CASE Refuse(w) \/ Close(w)
      <4>1. \/ stream[w].stage = "wait" /\ stream' = [stream EXCEPT ![w].stage = "gone"]
            \/ stream[w].stage = "on" /\ stream' = [stream EXCEPT ![w].stage = "closed"]
        BY <3>1 DEF Refuse, Close
      <4>2. QED
        BY <1>1, <2>2, <2>3, <4>1, OneStream DEF Ends
    <3>2. CASE RemoveSidecar(w)
      <4>1. /\ stream[w].stage = "closed" /\ stream' = [stream EXCEPT ![w].stage = "removed"]
            /\ w \notin members'
        BY <3>2 DEF RemoveSidecar, RemoveMember
      <4>2. stream'[w].stage = "removed"
        BY <1>1, <2>2, <4>1, OneStream
      <4>3. QED
        BY <2>3, <4>1, <4>2 DEF Ends
    <3>3. CASE DeleteInstance(w)
      <4>1. /\ stream[w].stage = "removed" /\ stream' = [stream EXCEPT ![w].stage = "gone"]
            /\ retry'[w] = None /\ (InFlight(w) => w \in escaped') /\ UNCHANGED <<job, retrying>>
        BY <1>1, <3>3 DEF DeleteInstance, SidecarTypes
      <4>2. stream'[w].stage = "gone"
        BY <1>1, <2>2, <4>1, OneStream
      <4>3. QED
        BY <2>3, <4>1, <4>2 DEF Ends
    <3>4. QED
      BY <1>7, <3>1, <3>2, <3>3
  <2>5. QED
    BY <2>3, <2>4 DEF StreamMoved
<1>8. CASE stream' = stream /\ members' = members
  BY <1>8, SameStreams
<1>9. ASSUME NEW w \in Watches, RetryNext(w) \/ RetryDrops(w) \/ ReadAppCursor(w)
      PROVE  stream' = stream /\ members' = members
  BY <1>9 DEF RetryNext, RetryDrops, ReadAppCursor, workerFrame, appVars
<1>10. ASSUME \/ Fire \/ RecordCursor \/ ListEvents \/ PurgeCache \/ SendToPipe \/ HandleOneBatch
              \/ PopAll \/ FinishEvent \/ SkipEvent \/ PurgeRetry
       PROVE  stream' = stream /\ members' = members
  BY <1>10 DEF Fire, RecordCursor, ListEvents, ListEventsWith, PurgeCache, PurgeCacheIf, SendToPipe,
               HandleOneBatch, Push, PopAll, Pop, FinishEvent, SkipEvent, handlerFrame, PurgeRetry,
               workerFrame, appVars
<1>11. QED
  BY <1>2, <1>3, <1>4, <1>5, <1>6, <1>7, <1>8, <1>9, <1>10 DEF Next, ServerStep

LEMMA WaitingSteps ==
  ASSUME Typed, FirstsSubscribe, Line, Next
  PROVE  WaitingCursors'
<1>1. recorded <= recorded' /\ recorded \in Nat /\ recorded' \in Nat /\ TypeOK
  BY ObserverSteps, Numbers DEF Typed, Line
<1>2. ASSUME NEW w \in Watches, stream'[w].stage = "wait" PROVE stream'[w].cursor <= recorded'
  <2>1. stream[w].cursor \in Nat /\ stream'[w].cursor \in Nat
    <3>1. TypeOK'
      BY NextTyped DEF Typed
    <3>2. stream[w] \in Streams /\ stream'[w] \in Streams
      BY <1>1, <3>1 DEF TypeOK
    <3>3. stream[w].cursor \in Cursors /\ stream'[w].cursor \in Cursors
      BY <3>2 DEF Streams
    <3>4. QED
      BY <3>3 DEF Cursors
  <2>2. \/ stream[w].stage = "wait" /\ stream'[w].cursor = stream[w].cursor
        \/ stream'[w].cursor <= recorded
    BY <1>2, NextStream
       DEF StreamMoved, Same, Comes, IsLetIn, IsSubscribed, Fails, Ends, KeptStream
  <2>3. QED
    BY <1>1, <2>1, <2>2 DEF Line, WaitingCursors
<1>3. QED
  BY <1>2 DEF WaitingCursors

LEMMA NextLine ==
  ASSUME Typed, FirstsSubscribe, CacheFresh, Line, Next
  PROVE  Line'
<1>1. Observing' /\ Passing'
  BY ObserverSteps, PassingSteps DEF Typed, Line
<1>2. QED
  BY <1>1, JobCursorSteps, WaitingSteps DEF Line

LEMMA NextFirsts ==
  ASSUME Typed, FirstsSubscribe, CacheFresh, Next
  PROVE  FirstsSubscribe'
<1>1. ASSUME NEW w \in Watches, NEW k \in Workers PROVE FirstMove(w, k)
  BY NextMoved DEF JobMoved
<1>2. QED
  BY <1>1 DEF FirstsSubscribe, FirstMove

-----------------------------------------------------------------------------
(* A sidecar that has left is left alone. *)

Belongs ==
  \A w \in Watches :
    /\ stream[w].stage \in {"new", "wait", "removed", "gone", "failed"} => w \notin members
    /\ stream[w].stage \in {"new", "wait"} => ~ Engaged(w)
    /\ job[w]["subscribe"].stage # "idle" => stream[w].stage = "adding"

LeftAlone == \A w \in Watches \ escaped : stream[w].stage \in {"gone", "failed"} => ~ Engaged(w)

LEMMA EngagedIs ==
  ASSUME NEW w
  PROVE  /\ Engaged(w) <=> \/ \E k \in Workers : job[w][k].stage # "idle"
                           \/ retry[w] # None \/ retrying[w] # None
         /\ Engaged(w)' <=> \/ \E k \in Workers : job'[w][k].stage # "idle"
                            \/ retry'[w] # None \/ retrying'[w] # None
BY DEF Engaged, InFlight, Workers

\* No work begins for a sidecar that is no member and has none, except when it is let in.
LEMMA StaysIdle ==
  ASSUME Typed, FirstsSubscribe, CacheFresh, Next,
         NEW w \in Watches, ~ Engaged(w), w \notin members, stream'[w].stage # "adding"
  PROVE  ~ Engaged(w)'
<1>1. retry[w] = None /\ retrying[w] = None /\ \A k \in Workers : job[w][k].stage = "idle"
  BY EngagedIs
<1>2. RetryMoved(w) /\ \A k \in Workers : WakeMove(w, k)
  BY NextMoved DEF JobMoved
<1>3. retry'[w] = None /\ retrying'[w] = None
  BY <1>1, <1>2 DEF RetryMoved
<1>4. \A k \in Workers : job'[w][k].stage = "idle"
  BY <1>1, <1>2 DEF WakeMove
<1>5. QED
  BY <1>3, <1>4, EngagedIs

LEMMA NextBelongs ==
  ASSUME Typed, FirstsSubscribe, CacheFresh, Belongs, Next
  PROVE  Belongs'
<1>1. ASSUME NEW w \in Watches
      PROVE  /\ stream'[w].stage \in {"new", "wait", "removed", "gone", "failed"} => w \notin members'
             /\ stream'[w].stage \in {"new", "wait"} => ~ Engaged(w)'
             /\ job'[w]["subscribe"].stage # "idle" => stream'[w].stage = "adding"
  <2>1. StreamMoved(w) /\ WakeMove(w, "subscribe")
    BY NextStream, NextMoved DEF JobMoved, Workers
  <2>2. /\ stream[w].stage \in {"new", "wait", "removed", "gone", "failed"} => w \notin members
        /\ stream[w].stage \in {"new", "wait"} => ~ Engaged(w)
        /\ job[w]["subscribe"].stage # "idle" => stream[w].stage = "adding"
    BY DEF Belongs
  <2>3. stream'[w].stage \in {"new", "wait", "removed", "gone", "failed"} => w \notin members'
    BY <2>1, <2>2 DEF StreamMoved, Same, Comes, IsLetIn, IsSubscribed, Fails, Ends, NotJoining
  <2>4. stream'[w].stage \in {"new", "wait"} => ~ Engaged(w)'
    <3>1. stream'[w].stage \in {"new", "wait"} => stream[w].stage \in {"new", "wait"}
      BY <2>1 DEF StreamMoved, Same, Comes, IsLetIn, IsSubscribed, Fails, Ends
    <3>2. QED
      BY <2>2, <3>1, StaysIdle
  <2>5. job'[w]["subscribe"].stage # "idle" => stream'[w].stage = "adding"
    BY <2>1, <2>2 DEF WakeMove, StreamMoved, Same, Comes, IsLetIn, IsSubscribed, Fails, Ends
  <2>6. QED
    BY <2>3, <2>4, <2>5
<1>2. QED
  BY <1>1 DEF Belongs

LEMMA NextLeft ==
  ASSUME Typed, FirstsSubscribe, CacheFresh, Belongs, LeftAlone, Next, escaped \subseteq escaped'
  PROVE  LeftAlone'
<1>1. ASSUME NEW w \in Watches \ escaped', stream'[w].stage \in {"gone", "failed"}
      PROVE  ~ Engaged(w)'
  <2>1. StreamMoved(w) /\ RetryMoved(w) /\ \A k \in Workers : WakeMove(w, k)
    BY NextStream, NextMoved DEF JobMoved
  <2>2. CASE Same(w)
    <3>1. ~ Engaged(w) /\ w \notin members
      BY <1>1, <2>2 DEF Same, LeftAlone, Belongs
    <3>2. QED
      BY <1>1, <3>1, StaysIdle
  <2>3. CASE Fails(w)
    <3>1. /\ retry[w] = None /\ retrying[w] = None
          /\ job[w]["event"].stage = "idle" /\ job[w]["retry"].stage = "idle"
      BY <1>1, <2>3 DEF Fails, InFlight
    <3>2. QED
      BY <2>3, <3>1, EngagedIs DEF Fails, Workers
  <2>4. CASE Ends(w)
    <3>1. CASE stream[w].stage = "wait"
      BY <1>1, <3>1, StaysIdle DEF Belongs
    <3>2. CASE stream[w].stage # "wait"
      <4>1. retry'[w] = None /\ ~ InFlight(w) /\ UNCHANGED <<job, retrying>> /\ stream[w].stage = "removed"
        BY <1>1, <2>4, <3>2 DEF Ends
      <4>2. job[w]["subscribe"].stage = "idle"
        BY <4>1 DEF Belongs
      <4>3. QED
        BY <4>1, <4>2, EngagedIs DEF InFlight, Workers
    <3>3. QED
      BY <3>1, <3>2
  <2>5. QED
    BY <1>1, <2>1, <2>2, <2>3, <2>4 DEF StreamMoved, Comes, IsLetIn, IsSubscribed
<1>2. QED
  BY <1>1 DEF LeftAlone

-----------------------------------------------------------------------------
(* What is in the cache has been read after all that was purged. *)

LEMMA OnlyFireLogs ==
  ASSUME Next
  PROVE  log' = log \/ Fire
<1>1. ASSUME NEW w \in Watches, NEW k \in Workers, JobStep(w, k) \/ MatchFails(w, k)
      PROVE  log' = log
  BY <1>1 DEF JobStep, ReadCache, ReadRemote, FillCache, MatchGone, MatchFails, NotifyClosed,
              NotifyNothing, NotifySent, NotifyFails, matchFrame, notifyFrame
<1>2. ASSUME NEW w \in Watches,
             \/ RetryNext(w) \/ RetryDrops(w) \/ Watch(w) \/ Refuse(w) \/ AddSidecar(w)
             \/ ReadAppCursor(w) \/ SubscribeFails(w) \/ Close(w) \/ RemoveSidecar(w)
             \/ DeleteInstance(w)
      PROVE  log' = log
  BY <1>2 DEF RetryNext, RetryDrops, workerFrame, Watch, Refuse, AddSidecar, AddMember, ReadAppCursor,
              SubscribeFails, Close, RemoveSidecar, RemoveMember, DeleteInstance, streamFrame
<1>3. ASSUME ServerStep \/ SkipEvent
      PROVE  log' = log
  BY <1>3 DEF ServerStep, RecordCursor, ListEvents, ListEventsWith, PurgeCache, PurgeCacheIf, SendToPipe,
              HandleOneBatch, Push, PopAll, Pop, HandleEvent, FinishEvent, SkipEvent,
              handlerFrame, PurgeRetry, workerFrame
<1>4. QED
  BY <1>1, <1>2, <1>3 DEF Next

LEMMA LogGrows ==
  ASSUME Typed, Next
  PROVE  \A i \in 1..Len(log) : log'[i] = log[i]
<1>1. CASE Fire
  <2>1. PICK e : log' = Append(log, e)
    BY <1>1 DEF Fire
  <2>2. QED
    BY <2>1, AppendProperties DEF Typed, TypeOK
<1>2. CASE log' = log
  BY <1>2
<1>3. QED
  BY <1>1, <1>2, OnlyFireLogs

LEMMA PurgedIs ==
  ASSUME TypeOK, Observing
  PROVE  Purged \in Nat /\ Purged <= Len(log) /\ observer.start <= Purged
<1>1. recorded <= Len(log)
  BY DEF TypeOK
<1>2. QED
  BY <1>1, Numbers DEF Observing, Purged

\* Quiet up to an event that is in the log, and so for good.
LEMMA QuietStays ==
  ASSUME Typed, Next, NEW v \in Nat, NEW c \in Nat, c <= Len(log), Quiet(v, c)
  PROVE  \A i \in v + 1..c : log'[i].kind # "publish"
<1>1. Len(log) \in Nat
  BY Numbers DEF Typed
<1>2. \A i \in v + 1..c : i \in 1..Len(log)
  BY <1>1
<1>3. QED
  BY <1>2, LogGrows DEF Quiet, Purges

LEMMA QuietShorter ==
  ASSUME NEW v \in Nat, NEW c \in Nat, NEW d \in Nat, d <= c, Quiet(v, c)
  PROVE  Quiet(v, d)
<1>1. \A i \in v + 1..d : i \in v + 1..c
  OBVIOUS
<1>2. QED
  BY <1>1 DEF Quiet

LEMMA NextFresh ==
  ASSUME Typed, Observing, CacheFresh, Next
  PROVE  CacheFresh'
<1>1. /\ TypeOK /\ Purged \in Nat /\ Purged <= Len(log) /\ observer.start \in Nat
      /\ cache.ver \in Cursors \cup {None}
  BY PurgedIs, Numbers DEF Typed, TypeOK
<1>2. ASSUME cache' = cache, Purged' = Purged PROVE CacheFresh'
  <2>1. SUFFICES ASSUME cache.ver # None, ~ cache.late
                 PROVE  \A i \in cache.ver + 1..Purged : log'[i].kind # "publish"
    BY <1>2 DEF CacheFresh, Quiet, Purges
  <2>2. cache.ver \in Nat /\ Quiet(cache.ver, Purged)
    BY <1>1, <2>1, Numbers DEF CacheFresh
  <2>3. QED
    BY <1>1, <2>2, QuietStays
<1>3. CASE PurgeCache
  <2>1. /\ Purged = observer.start /\ Purged' = observer.last /\ log' = log
        /\ \/ cache'.ver = None
           \/ cache' = cache /\ \A i \in observer.start + 1..observer.last : ~ Purges(i)
    BY <1>1, <1>3, Numbers DEF PurgeCache, PurgeCacheIf, Purged, Batch
  <2>2. CASE cache'.ver = None
    BY <2>2 DEF CacheFresh
  <2>3. ASSUME cache' = cache, \A i \in observer.start + 1..observer.last : ~ Purges(i),
               cache.ver # None, ~ cache.late
        PROVE  Quiet(cache.ver, observer.last)
    <3>1. cache.ver \in Nat /\ Quiet(cache.ver, observer.start) /\ observer.last \in Nat
      BY <1>1, <2>1, <2>3, Numbers DEF CacheFresh
    <3>2. \A i \in cache.ver + 1..observer.last :
             i \in cache.ver + 1..observer.start \/ i \in observer.start + 1..observer.last
      BY <1>1, <3>1
    <3>3. QED
      BY <2>3, <3>1, <3>2 DEF Quiet
  <2>4. QED
    BY <2>1, <2>2, <2>3 DEF CacheFresh, Quiet, Purges
<1>4. CASE SendToPipe
  <2>1. cache' = cache /\ Purged' = Purged
    BY <1>1, <1>4, Numbers DEF SendToPipe, Purged
  <2>2. QED
    BY <1>2, <2>1
<1>5. CASE ListEvents
  <2>1. cache' = cache /\ Purged' = Purged
    BY <1>1, <1>5, Numbers DEF ListEvents, ListEventsWith, Purged
  <2>2. QED
    BY <1>2, <2>1
<1>6. ASSUME NEW w \in Watches, NEW k \in Workers, FillCache(w, k) PROVE CacheFresh'
  <2>1. /\ cache'.ver = job[w][k].ver /\ log' = log /\ Purged' = Purged
        /\ cache'.late = \E i \in job[w][k].ver + 1..Purged : Purges(i)
    BY <1>6 DEF FillCache, matchFrame, pipelineVars, Purged
  <2>2. QED
    BY <2>1 DEF CacheFresh, Quiet, Purges
<1>7. ASSUME cache' = cache, observer' = observer PROVE CacheFresh'
  BY <1>2, <1>7 DEF Purged
<1>8. ASSUME NEW w \in Watches, NEW k \in Workers, JobStep(w, k) \/ MatchFails(w, k), ~ FillCache(w, k)
      PROVE  cache' = cache /\ observer' = observer
  BY <1>8 DEF JobStep, ReadCache, ReadRemote, MatchGone, MatchFails, NotifyClosed,
              NotifyNothing, NotifySent, NotifyFails, matchFrame, notifyFrame, pipelineVars
<1>9. ASSUME NEW w \in Watches,
             \/ RetryNext(w) \/ RetryDrops(w) \/ Watch(w) \/ Refuse(w) \/ AddSidecar(w)
             \/ ReadAppCursor(w) \/ SubscribeFails(w) \/ Close(w) \/ RemoveSidecar(w)
             \/ DeleteInstance(w)
      PROVE  cache' = cache /\ observer' = observer
  BY <1>9 DEF RetryNext, RetryDrops, workerFrame, Watch, Refuse, AddSidecar, AddMember, ReadAppCursor,
              SubscribeFails, Close, RemoveSidecar, RemoveMember, DeleteInstance, streamFrame,
              pipelineVars
<1>10. ASSUME \/ Fire \/ RecordCursor \/ HandleOneBatch \/ PopAll \/ HandleEvent \/ FinishEvent
              \/ SkipEvent \/ PurgeRetry
       PROVE  cache' = cache /\ observer' = observer
  BY <1>10 DEF Fire, RecordCursor, HandleOneBatch, Push, PopAll, Pop, HandleEvent, FinishEvent,
               SkipEvent, handlerFrame, PurgeRetry, workerFrame, pipelineVars
<1>11. QED
  BY <1>3, <1>4, <1>5, <1>6, <1>7, <1>8, <1>9, <1>10 DEF Next, ServerStep

LEMMA EscapedGrows ==
  ASSUME Next
  PROVE  escaped \subseteq escaped'
<1>1. ASSUME NEW w \in Watches, SubscribeFails(w) \/ DeleteInstance(w) PROVE escaped \subseteq escaped'
  BY <1>1 DEF SubscribeFails, DeleteInstance
<1>2. ASSUME NEW w \in Watches, NEW k \in Workers, JobStep(w, k) \/ MatchFails(w, k)
      PROVE  escaped' = escaped
  BY <1>2 DEF JobStep, ReadCache, ReadRemote, FillCache, MatchGone, MatchFails, NotifyClosed,
              NotifyNothing, NotifySent, NotifyFails, matchFrame, notifyFrame
<1>3. ASSUME NEW w \in Watches,
             \/ RetryNext(w) \/ RetryDrops(w) \/ Watch(w) \/ Refuse(w) \/ AddSidecar(w)
             \/ ReadAppCursor(w) \/ Close(w) \/ RemoveSidecar(w)
      PROVE  escaped' = escaped
  BY <1>3 DEF RetryNext, RetryDrops, workerFrame, Watch, Refuse, AddSidecar, AddMember, ReadAppCursor,
              Close, RemoveSidecar, RemoveMember, historyVars
<1>4. ASSUME Fire \/ ServerStep \/ SkipEvent PROVE escaped' = escaped
  BY <1>4 DEF Fire, ServerStep, RecordCursor, ListEvents, ListEventsWith, PurgeCache, PurgeCacheIf,
              SendToPipe, HandleOneBatch, Push, PopAll, Pop, HandleEvent, FinishEvent, SkipEvent,
              handlerFrame, PurgeRetry, workerFrame, historyVars
<1>5. QED
  BY <1>1, <1>2, <1>3, <1>4 DEF Next

-----------------------------------------------------------------------------
(* What is sent has been read late enough. *)

\* A sidecar is let in when what it came with has been purged for, except in between.
Admitted ==
  \A w \in Watches :
    Engaged(w) \/ stream[w].stage \in {"adding", "on", "closed", "removed", "failed"} =>
      stream[w].timing = "early" \/ stream[w].cursor <= Purged

Sending ==
  \A w \in Watches, k \in Workers :
    job[w][k].stage = "send" /\ ~ job[w][k].late =>
      /\ Quiet(job[w][k].ver, job[w][k].cursor)
      /\ stream[w].timing # "early" => Quiet(job[w][k].ver, stream[w].cursor)

LEMMA StreamCursor ==
  ASSUME TypeOK, NEW w \in Watches
  PROVE  stream[w] \in Streams /\ stream[w].cursor \in Nat
<1>1. stream[w] \in Streams
  BY DEF TypeOK
<1>2. stream[w].cursor \in Cursors
  BY <1>1 DEF Streams
<1>3. QED
  BY <1>1, <1>2 DEF Cursors

LEMMA NextAdmitted ==
  ASSUME Typed, FirstsSubscribe, CacheFresh, Observing, Belongs, Belongs', Admitted, Next
  PROVE  Admitted'
<1>1. Purged <= Purged' /\ Purged \in Nat /\ Purged' \in Nat /\ TypeOK
  <2>1. TypeOK /\ TypeOK' /\ Observing' /\ Purged <= Purged'
    BY ObserverSteps, NextTyped DEF Typed
  <2>2. Purged' \in Nat
    BY <2>1, Numbers DEF Purged, Observing, TypeOK, Cursors
  <2>3. QED
    BY <2>1, <2>2, PurgedIs
<1>2. ASSUME NEW w \in Watches,
             Engaged(w)' \/ stream'[w].stage \in {"adding", "on", "closed", "removed", "failed"}
      PROVE  stream'[w].timing = "early" \/ stream'[w].cursor <= Purged'
  <2>1. StreamMoved(w) /\ stream[w].cursor \in Nat
    BY <1>1, NextStream, StreamCursor
  <2>2. CASE IsLetIn(w)
    <3>1. cursor \in Nat
      BY <1>1, Numbers
    <3>2. stream'[w].timing # "early" => stream[w].cursor <= Purged
      BY <1>1, <2>1, <2>2, <3>1 DEF IsLetIn, Timing
    <3>3. QED
      BY <1>1, <2>1, <2>2, <3>2 DEF IsLetIn
  <2>3. CASE Comes(w)
    BY <1>2, <2>3 DEF Comes, Belongs
  <2>4. CASE Same(w) \/ IsSubscribed(w) \/ Fails(w) \/ Ends(w)
    <3>1. KeptStream(w)
      BY <2>4 DEF Same, IsSubscribed, Fails, Ends
    <3>2. Engaged(w) \/ stream[w].stage \in {"adding", "on", "closed", "removed", "failed"}
      <4>1. SUFFICES ASSUME ~ Engaged(w),
                            stream[w].stage \notin {"adding", "on", "closed", "removed", "failed"}
                     PROVE  FALSE
        OBVIOUS
      <4>2. job[w]["subscribe"].stage = "idle"
        BY <4>1, EngagedIs DEF Workers
      <4>3. stream[w].stage \in {"new", "wait", "gone"}
        BY <1>1, <4>1, StreamCursor DEF Streams
      <4>4. w \notin members /\ stream'[w].stage \in {"new", "wait", "gone"}
        BY <2>4, <4>2, <4>3 DEF Belongs, Same, IsSubscribed, Fails, Ends
      <4>5. ~ Engaged(w)'
        BY <4>1, <4>4, StaysIdle
      <4>6. QED
        BY <1>2, <4>4, <4>5
    <3>3. QED
      BY <1>1, <2>1, <3>1, <3>2 DEF Admitted, KeptStream
  <2>5. QED
    BY <2>1, <2>2, <2>3, <2>4 DEF StreamMoved
<1>3. QED
  BY <1>2 DEF Admitted

LEMMA NextSending ==
  ASSUME Typed, FirstsSubscribe, CacheFresh, Line, Belongs, Admitted, Sending, Next
  PROVE  Sending'
<1>1. /\ TypeOK /\ SidecarTypes /\ Purged \in Nat /\ Purged <= Len(log) /\ Len(log) \in Nat
      /\ observer.start <= Purged /\ observer.start \in Nat
  BY PurgedIs, Numbers DEF Typed, Line, TypeOK, SidecarTypes
<1>2. ASSUME NEW w \in Watches, NEW k \in Workers, job'[w][k].stage = "send", ~ job'[w][k].late
      PROVE  /\ Quiet(job[w][k].ver, job[w][k].cursor)'
             /\ stream'[w].timing # "early" => Quiet(job[w][k].ver, stream[w].cursor)'
  <2>1. job[w][k].stage # "idle" /\ Engaged(w)
    <3>1. SendMove(w, k)
      BY NextMoved DEF JobMoved
    <3>2. job[w][k].stage # "idle"
      BY <1>2, <3>1 DEF SendMove
    <3>3. QED
      BY <3>2, EngagedIs
  <2>2. KeptStream(w)
    <3>1. stream[w].stage \notin {"new", "wait"}
      BY <2>1 DEF Belongs
    <3>2. StreamMoved(w)
      BY NextStream DEF Line
    <3>3. QED
      BY <3>1, <3>2 DEF StreamMoved, Same, Comes, IsLetIn, IsSubscribed, Fails, Ends
  <2>3. PICK v \in Nat, c \in Nat, d \in Nat :
          v = job'[w][k].ver /\ c = job'[w][k].cursor /\ d = stream[w].cursor
    <3>1. SidecarTypes'
      BY NextTyped DEF Typed, TypeOK, SidecarTypes
    <3>2. job'[w][k] \in Jobs
      BY <3>1 DEF SidecarTypes
    <3>3. job'[w][k].ver \in Cursors /\ job'[w][k].cursor \in Cursors
      BY <3>2 DEF Jobs
    <3>4. QED
      BY <1>1, <3>3, StreamCursor DEF Cursors
  <2>4. c <= observer.start /\ (stream[w].timing # "early" => d <= Purged)
    BY <2>1, <2>3, JobCursorIs DEF Admitted
  <2>5. Quiet(v, c) /\ (stream[w].timing # "early" => Quiet(v, d))
    <3>1. CASE job'[w][k] = job[w][k]
      BY <1>2, <2>3, <3>1 DEF Sending
    <3>2. CASE Quiet(v, Purged)
      BY <1>1, <2>4, <3>2, QuietShorter
    <3>3. SendMove(w, k)
      BY NextMoved DEF JobMoved
    <3>4. QED
      BY <1>2, <2>3, <3>1, <3>2, <3>3 DEF SendMove
  <2>6. \A i \in v + 1..c : log'[i].kind # "publish"
    BY <1>1, <2>4, <2>5, QuietStays
  <2>7. stream[w].timing # "early" => \A i \in v + 1..d : log'[i].kind # "publish"
    BY <1>1, <2>4, <2>5, QuietStays
  <2>8. QED
    BY <2>2, <2>3, <2>6, <2>7 DEF Quiet, Purges, KeptStream
<1>3. QED
  BY <1>2 DEF Sending

-----------------------------------------------------------------------------
(* The inductive invariant and what follows from it. *)

Inv ==
  /\ Typed /\ FirstsSubscribe /\ CacheFresh /\ Line
  /\ Belongs /\ LeftAlone /\ Admitted /\ Sending

LEMMA InitInv == Init => Inv
<1> SUFFICES ASSUME Init PROVE Inv
  OBVIOUS
<1>1. Typed /\ Line
  BY InitTyped, InitLine
<1>2. \A w \in Watches : /\ ~ Engaged(w) /\ \A k \in Workers : job[w][k].stage = "idle"
                         /\ stream[w].stage = "new" /\ w \notin members
  BY EngagedIs DEF Init, NoJob, NewStream, Workers
<1>3. CacheFresh
  BY DEF Init, CacheFresh
<1>4. FirstsSubscribe /\ Sending
  BY <1>2 DEF FirstsSubscribe, Firsts, Sending
<1>5. Belongs /\ LeftAlone /\ Admitted
  BY <1>2 DEF Belongs, LeftAlone, Admitted, Workers
<1>6. QED
  BY <1>1, <1>3, <1>4, <1>5 DEF Inv

LEMMA NextInv == Inv /\ [Next]_vars => Inv'
<1> SUFFICES ASSUME Inv, [Next]_vars PROVE Inv'
  OBVIOUS
<1>1. CASE Next
  <2>1. Typed' /\ FirstsSubscribe' /\ CacheFresh' /\ Line'
    BY <1>1, NextTyped, NextFirsts, NextFresh, NextLine DEF Inv, Line
  <2>2. Belongs' /\ LeftAlone'
    BY <1>1, NextBelongs, NextLeft, EscapedGrows DEF Inv
  <2>3. Admitted' /\ Sending'
    BY <1>1, <2>2, NextAdmitted, NextSending DEF Inv, Line
  <2>4. QED
    BY <2>1, <2>2, <2>3 DEF Inv
<1>2. CASE UNCHANGED vars
  <2>1. Typed'
    BY <1>2, NextTyped DEF Inv
  <2>2. /\ FirstsSubscribe' /\ CacheFresh' /\ Line' /\ Belongs' /\ LeftAlone' /\ Admitted' /\ Sending'
    BY <1>2 DEF Inv, vars, pipelineVars, appVars, retryVars, historyVars, FirstsSubscribe, CacheFresh,
                Line, Observing, Passing, UpTo, JobCursors, WaitingCursors, Belongs, LeftAlone,
                Admitted, Sending, Engaged, InFlight, Purged, Quiet, Purges
  <2>3. QED
    BY <2>1, <2>2 DEF Inv
<1>3. QED
  BY <1>1, <1>2

\* A sidecar that has unsubscribed, or whose subscription has failed, is no member and has no
\* work under way, unless it was being notified when it left.
THEOREM LeavesAlone == Spec => []NoneForGone
<1>1. Inv => NoneForGone
  BY DEF Inv, Belongs, LeftAlone, NoneForGone
<1>2. QED
  BY <1>1, InitInv, NextInv, PTL DEF Spec

\* A server that has listed all that is recorded refuses no sidecar, once it has seen an event.
THEOREM AcceptsAll == Spec => []CaughtUpAccepts
<1>1. Inv => CaughtUpAccepts
  BY Numbers DEF Inv, Typed, Line, Observing, WaitingCursors, CaughtUpAccepts
<1>2. QED
  BY <1>1, InitInv, NextInv, PTL DEF Spec

\* What is about to be sent covers the event it is sent for, unless it was read from a fill that
\* came after the purge.
THEOREM SentFresh == Spec => []FreshForCursor
<1>1. Inv => FreshForCursor
  <2>1. SUFFICES ASSUME Inv, NEW w \in Watches, NEW k \in Workers, job[w][k].stage = "send",
                        ~ job[w][k].late
                 PROVE  Matched(w, job[w][k].ver) >= Matched(w, job[w][k].cursor)
    BY DEF FreshForCursor
  <2>2. job[w][k].ver \in Nat /\ job[w][k].cursor \in Nat
    <3>1. SidecarTypes
      BY <2>1 DEF Inv, Typed, TypeOK, SidecarTypes
    <3>2. QED
      BY <3>1, CursorOf DEF Cursors
  <2>3. Quiet(job[w][k].ver, job[w][k].cursor)
    BY <2>1 DEF Inv, Sending
  <2>4. QED
    BY <2>2, <2>3, MatchedCovers DEF Quiet
<1>2. QED
  BY <1>1, InitInv, NextInv, PTL DEF Spec

\* What is about to be sent covers the last event the sidecar came with, unless it was let in
\* between the store of the observer's cursor and the purge, or from such a fill.
THEOREM NeverBack == Spec => []NoRollback
<1>1. Inv => NoRollback
  <2>1. SUFFICES ASSUME Inv, NEW w \in Watches, NEW k \in Workers, job[w][k].stage = "send",
                        ~ job[w][k].late, stream[w].timing # "early"
                 PROVE  Matched(w, job[w][k].ver) >= Matched(w, stream[w].cursor)
    BY DEF NoRollback
  <2>2. job[w][k].ver \in Nat /\ stream[w].cursor \in Nat
    <3>1. SidecarTypes /\ TypeOK
      BY <2>1 DEF Inv, Typed, TypeOK, SidecarTypes
    <3>2. QED
      BY <3>1, CursorOf, StreamCursor DEF Cursors
  <2>3. Quiet(job[w][k].ver, stream[w].cursor)
    BY <2>1 DEF Inv, Sending
  <2>4. QED
    BY <2>2, <2>3, MatchedCovers DEF Quiet
<1>2. QED
  BY <1>1, InitInv, NextInv, PTL DEF Spec

-----------------------------------------------------------------------------
(* The way of an event to the sidecars. *)

In(i, s) == \E j \in 1..Len(s) : s[j] = i

\* What the handler has not begun with.
NotBegun == IF handler.waits = {} THEN handler.events ELSE Tail(handler.events)

\* Event i has not come to the handler, which will begin with it.
OnItsWay(i) == i > pushed \/ In(i, queue) \/ In(i, NotBegun)

\* The scheduler has taken from the pipe what the observer has sent.
Piped == observer.start = IF pipe = <<>> THEN pushed ELSE pipe[Len(pipe)]

\* An appEvent that has members is running.
Up == members # {} => handler.up

LEMMA InConcat ==
  ASSUME NEW i, NEW s \in Seq(Nat), NEW t \in Seq(Nat), In(i, s) \/ In(i, t)
  PROVE  In(i, s \o t)
<1>1. Len(s) \in Nat /\ Len(t) \in Nat /\ Len(s \o t) = Len(s) + Len(t)
  BY ConcatProperties, LenProperties
<1>2. CASE In(i, s)
  <2>1. PICK j \in 1..Len(s) : s[j] = i
    BY <1>2 DEF In
  <2>2. (s \o t)[j] = s[j] /\ j \in 1..Len(s \o t)
    BY <1>1, ConcatProperties
  <2>3. QED
    BY <2>1, <2>2 DEF In
<1>3. CASE In(i, t)
  <2>1. PICK j \in 1..Len(t) : t[j] = i
    BY <1>3 DEF In
  <2>2. (s \o t)[Len(s) + j] = t[j] /\ Len(s) + j \in 1..Len(s \o t)
    <3>1. Len(s) + j \in Nat /\ Len(s) + j > Len(s) /\ Len(s) + j <= Len(s) + Len(t)
      BY <1>1
    <3>2. Len(s) + j \in 1..Len(s \o t) /\ (Len(s) + j) - Len(s) = j
      BY <1>1, <3>1
    <3>3. QED
      BY <1>1, <3>1, <3>2, ConcatProperties
  <2>3. QED
    BY <2>1, <2>2 DEF In
<1>4. QED
  BY <1>2, <1>3

LEMMA InTail ==
  ASSUME NEW i, NEW s \in Seq(Nat), In(i, s), i # Head(s)
  PROVE  In(i, Tail(s)) /\ s # <<>>
<1>1. PICK j \in 1..Len(s) : s[j] = i
  BY DEF In
<1>2. Len(s) \in Nat /\ s # <<>>
  BY <1>1, LenProperties, EmptySeq
<1>3. Head(s) = s[1] /\ Len(Tail(s)) = Len(s) - 1
  BY <1>2, HeadTailProperties
<1>4. j - 1 \in 1..Len(Tail(s)) /\ (j - 1) + 1 = j
  BY <1>1, <1>2, <1>3
<1>5. Tail(s)[j - 1] = s[j]
  BY <1>2, <1>4, HeadTailProperties
<1>6. QED
  BY <1>1, <1>2, <1>4, <1>5 DEF In

LEMMA InEmpty == ASSUME NEW i PROVE ~ In(i, <<>>)
BY DEF In

LEMMA Lists ==
  ASSUME Typed
  PROVE  /\ pipe \in Seq(Nat) /\ queue \in Seq(Nat) /\ handler.events \in Seq(Nat)
         /\ NotBegun \in Seq(Nat) /\ (handler.waits # {} => handler.events # <<>>)
<1>1. Cursors \subseteq Nat /\ Events \subseteq Nat
  BY DEF Cursors, Events
<1>2. /\ pipe \in Seq(Cursors) /\ queue \in Seq(Events) /\ handler.events \in Seq(Events)
      /\ handler.waits # {} => handler.events # <<>>
  BY DEF Typed, TypeOK, Waiting
<1>3. pipe \in Seq(Nat) /\ queue \in Seq(Nat) /\ handler.events \in Seq(Nat)
  BY <1>1, <1>2, SeqMonotonic
<1>4. NotBegun \in Seq(Nat)
  BY <1>2, <1>3, HeadTailProperties DEF NotBegun
<1>5. QED
  BY <1>2, <1>3, <1>4

\* The steps outside the way of the events.
LEMMA WayUnchanged ==
  ASSUME Typed,
         \/ Fire \/ RecordCursor \/ ListEvents \/ PurgeCache \/ PurgeRetry
         \/ \E w \in Watches :
              \/ \E k \in Workers : JobStep(w, k) \/ MatchFails(w, k)
              \/ RetryNext(w) \/ RetryDrops(w) \/ Watch(w) \/ Refuse(w) \/ ReadAppCursor(w)
              \/ Close(w) \/ DeleteInstance(w)
  PROVE  UNCHANGED <<pushed, pipe, queue, handler, members>> /\ observer'.start = observer.start
<1>1. ASSUME NEW w \in Watches, NEW k \in Workers, JobStep(w, k) \/ MatchFails(w, k)
      PROVE  UNCHANGED <<pushed, pipe, queue, handler, members, observer>>
  BY <1>1 DEF JobStep, ReadCache, ReadRemote, FillCache, MatchGone, MatchFails, NotifyClosed,
              NotifyNothing, NotifySent, NotifyFails, matchFrame, notifyFrame, pipelineVars, appVars
<1>2. ASSUME NEW w \in Watches,
             \/ RetryNext(w) \/ RetryDrops(w) \/ Watch(w) \/ Refuse(w)
             \/ ReadAppCursor(w) \/ Close(w) \/ DeleteInstance(w)
      PROVE  UNCHANGED <<pushed, pipe, queue, handler, members, observer>>
  BY <1>2 DEF RetryNext, RetryDrops, workerFrame, Watch, Refuse, ReadAppCursor, Close,
              DeleteInstance, streamFrame, pipelineVars, appVars
<1>3. ASSUME Fire \/ RecordCursor \/ PurgeRetry
      PROVE  UNCHANGED <<pushed, pipe, queue, handler, members, observer>>
  BY <1>3 DEF Fire, RecordCursor, PurgeRetry, workerFrame, pipelineVars, appVars
<1>4. ASSUME ListEvents \/ PurgeCache
      PROVE  UNCHANGED <<pushed, pipe, queue, handler, members>> /\ observer'.start = observer.start
  BY <1>4, Numbers DEF Typed, ListEvents, ListEventsWith, PurgeCache, PurgeCacheIf, appVars
<1>5. QED
  BY <1>1, <1>2, <1>3, <1>4

\* An event that is on its way stays so until the handler begins with it or passes it over, or
\* the appEvent has lost its last member.
LEMMA StaysOnItsWay ==
  ASSUME Typed, Up, Next, members # {}, members' # {}, NEW i \in Nat, OnItsWay(i)
  PROVE  \/ OnItsWay(i)'
         \/ (HandleEvent \/ SkipEvent) /\ handler.events # <<>> /\ i = Head(handler.events)
<1>1. /\ queue \in Seq(Nat) /\ handler.events \in Seq(Nat) /\ pushed \in Nat
      /\ handler.waits # {} => handler.events # <<>>
  <2>1. pushed \in Nat
    BY Numbers DEF Typed
  <2>2. QED
    BY <2>1, Lists
<1>2. handler \in [up : BOOLEAN, events : Seq(Events), waits : SUBSET Watches]
  BY DEF Typed, TypeOK
<1>3. CASE HandleOneBatch
  <2> DEFINE events == [j \in 1..(Head(pipe) - pushed) |-> pushed + j]
  <2>1. pipe # <<>> /\ pushed' = Head(pipe) /\ queue' = queue \o events
        /\ UNCHANGED handler
    BY <1>3 DEF HandleOneBatch, Push, Up
  <2>2. Head(pipe) \in Nat
    BY <2>1, Lists, HeadTailProperties
  <2>3. events \in Seq(Nat) /\ (Head(pipe) > pushed => Len(events) = Head(pipe) - pushed)
    <3>1. \A j \in 1..(Head(pipe) - pushed) : pushed + j \in Nat
      BY <1>1
    <3>2. events \in Seq(Nat)
      <4>1. PICK n \in Nat : 1..(Head(pipe) - pushed) = 1..n
        <5>1. CASE Head(pipe) > pushed
          BY <1>1, <2>2, <5>1
        <5>2. CASE ~ (Head(pipe) > pushed)
          <6>1. 1..(Head(pipe) - pushed) = 1..0
            BY <1>1, <2>2, <5>2
          <6>2. QED
            BY <6>1
        <5>3. QED
          BY <5>1, <5>2
      <4>2. events = [j \in 1..n |-> pushed + j]
        BY <4>1
      <4>3. \A j \in 1..n : pushed + j \in Nat
        BY <3>1, <4>1
      <4> HIDE DEF events
      <4>4. QED
        BY <4>2, <4>3
    <3>3. 1..Len(events) = 1..(Head(pipe) - pushed) /\ Len(events) \in Nat
      BY <3>2, LenProperties
    <3>4. QED
      BY <1>1, <2>2, <3>2, <3>3
  <2>4. CASE In(i, queue)
    BY <1>1, <2>1, <2>3, <2>4, InConcat DEF OnItsWay
  <2>5. CASE In(i, NotBegun)
    BY <2>1, <2>5 DEF OnItsWay, NotBegun, In
  <2>6. CASE i > pushed /\ i <= Head(pipe)
    <3>1. i - pushed \in 1..Len(events) /\ events[i - pushed] = i
      BY <1>1, <2>2, <2>3, <2>6
    <3>2. In(i, events)
      BY <3>1 DEF In
    <3>3. QED
      BY <1>1, <2>1, <2>3, <3>2, InConcat DEF OnItsWay
  <2>7. CASE i > pushed /\ i > Head(pipe)
    BY <2>1, <2>7 DEF OnItsWay
  <2>8. QED
    BY <2>2, <2>4, <2>5, <2>6, <2>7 DEF OnItsWay
<1>4. CASE PopAll
  <2>1. /\ handler.events = <<>> /\ handler'.events = queue /\ handler'.waits = handler.waits
        /\ pushed' = pushed
    BY <1>2, <1>4 DEF PopAll, Pop, handlerFrame, pipelineVars
  <2>2. handler.waits = {} /\ NotBegun = <<>>
    BY <1>1, <2>1 DEF NotBegun
  <2>3. QED
    BY <2>1, <2>2, InEmpty DEF OnItsWay, NotBegun
<1>5. CASE HandleEvent \/ SkipEvent
  <2>1. /\ handler.events # <<>> /\ handler.waits = {} /\ queue' = queue /\ pushed' = pushed
    BY <1>5 DEF HandleEvent, SkipEvent, handlerFrame, pipelineVars
  <2>2. \/ handler'.events = Tail(handler.events) /\ handler'.waits = {}
        \/ handler'.events = handler.events /\ handler'.waits # {}
    BY <1>2, <1>5, <2>1 DEF HandleEvent, SkipEvent
  <2>3. NotBegun' = Tail(handler.events) /\ NotBegun = handler.events
    BY <2>1, <2>2 DEF NotBegun
  <2>4. CASE i = Head(handler.events)
    BY <1>5, <2>1, <2>4
  <2>5. CASE i # Head(handler.events)
    BY <1>1, <2>1, <2>3, <2>5, InTail DEF OnItsWay
  <2>6. QED
    BY <2>4, <2>5
<1>6. CASE FinishEvent
  <2>1. /\ handler.waits # {} /\ handler'.waits = {} /\ handler'.events = Tail(handler.events)
        /\ queue' = queue /\ pushed' = pushed
    BY <1>2, <1>6 DEF FinishEvent, handlerFrame, pipelineVars
  <2>2. QED
    BY <2>1 DEF OnItsWay, NotBegun
<1>7. ASSUME NEW w \in Watches, AddSidecar(w) \/ SubscribeFails(w) \/ RemoveSidecar(w)
      PROVE  OnItsWay(i)'
  <2>1. UNCHANGED <<pushed, queue>> /\ handler'.events = handler.events
        /\ handler'.waits = handler.waits
    BY <1>2, <1>7 DEF AddSidecar, AddMember, SubscribeFails, RemoveSidecar, RemoveMember,
                      streamFrame, pipelineVars
  <2>2. QED
    BY <2>1 DEF OnItsWay, NotBegun
<1>8. ASSUME UNCHANGED <<pushed, queue, handler>> PROVE OnItsWay(i)'
  BY <1>8 DEF OnItsWay, NotBegun
<1>9. CASE SendToPipe
  BY <1>8, <1>9 DEF SendToPipe, appVars
<1>10. QED
  BY <1>3, <1>4, <1>5, <1>6, <1>7, <1>8, <1>9, WayUnchanged DEF Next, ServerStep

LEMMA NextPiped ==
  ASSUME Typed, Piped, Next
  PROVE  Piped'
<1>1. pipe \in Seq(Nat) /\ observer \in [stage : {"list", "purge", "pipe"}, start : Cursors, last : Cursors]
      /\ observer.last \in Nat
  BY Lists, Numbers DEF Typed
<1>2. CASE SendToPipe
  <2>1. pipe' = Append(pipe, observer.last) /\ observer'.start = observer.last
    BY <1>1, <1>2 DEF SendToPipe
  <2>2. Len(pipe') = Len(pipe) + 1 /\ pipe'[Len(pipe) + 1] = observer.last /\ pipe' # <<>>
    BY <1>1, <2>1, AppendProperties
  <2>3. QED
    BY <2>1, <2>2 DEF Piped
<1>3. CASE HandleOneBatch
  <2>1. pipe # <<>> /\ pushed' = Head(pipe) /\ pipe' = Tail(pipe) /\ observer' = observer
    BY <1>3 DEF HandleOneBatch, Push
  <2>2. Len(pipe') = Len(pipe) - 1 /\ Head(pipe) = pipe[1] /\ Len(pipe) \in Nat \ {0}
        /\ \A j \in 1..Len(pipe') : pipe'[j] = pipe[j + 1]
    BY <1>1, <2>1, HeadTailProperties, LenProperties, EmptySeq
  <2>3. pipe' \in Seq(Nat)
    BY <1>1, <2>1, HeadTailProperties
  <2>4. CASE pipe' = <<>>
    <3>1. Len(pipe) = 1
      BY <2>2, <2>4
    <3>2. QED
      BY <2>1, <2>2, <2>4, <3>1 DEF Piped
  <2>5. CASE pipe' # <<>>
    <3>1. Len(pipe') \in 1..Len(pipe') /\ Len(pipe') + 1 = Len(pipe)
      BY <2>2, <2>3, <2>5, LenProperties, EmptySeq
    <3>2. QED
      BY <2>1, <2>2, <2>5, <3>1 DEF Piped
  <2>6. QED
    BY <2>4, <2>5
<1>4. CASE UNCHANGED <<pushed, pipe>> /\ observer'.start = observer.start
  BY <1>4 DEF Piped
<1>5. ASSUME \/ PopAll \/ HandleEvent \/ FinishEvent \/ SkipEvent
             \/ \E w \in Watches : AddSidecar(w) \/ SubscribeFails(w) \/ RemoveSidecar(w)
      PROVE  UNCHANGED <<pushed, pipe, observer>>
  BY <1>5 DEF PopAll, Pop, HandleEvent, FinishEvent, SkipEvent, handlerFrame, AddSidecar, AddMember,
              SubscribeFails, RemoveSidecar, RemoveMember, streamFrame, pipelineVars
<1>6. QED
  BY <1>2, <1>3, <1>4, <1>5, WayUnchanged DEF Next, ServerStep

LEMMA NextUp ==
  ASSUME Typed, Up, Next
  PROVE  Up'
<1>1. handler \in [up : BOOLEAN, events : Seq(Events), waits : SUBSET Watches]
      /\ members \subseteq Watches
  BY DEF Typed, TypeOK
<1>2. ASSUME handler'.up = handler.up, members' \subseteq members PROVE Up'
  BY <1>2 DEF Up
<1>3. ASSUME HandleOneBatch \/ PopAll \/ HandleEvent \/ FinishEvent \/ SkipEvent \/ SendToPipe
      PROVE  handler'.up = handler.up /\ members' = members
  BY <1>1, <1>3 DEF HandleOneBatch, Push, PopAll, Pop, HandleEvent, FinishEvent, SkipEvent,
              handlerFrame, SendToPipe, appVars
<1>4. ASSUME NEW w \in Watches, AddSidecar(w) PROVE Up'
  BY <1>1, <1>4 DEF AddSidecar, AddMember, Up
<1>5. ASSUME NEW w \in Watches, SubscribeFails(w) PROVE Up'
  BY <1>2, <1>5 DEF SubscribeFails
<1>6. ASSUME NEW w \in Watches, RemoveSidecar(w) PROVE Up'
  <2>1. members' = members \ {w} /\ (members = {w} \/ handler' = handler)
    BY <1>6 DEF RemoveSidecar, RemoveMember
  <2>2. QED
    BY <2>1 DEF Up
<1>7. CASE UNCHANGED <<handler, members>>
  BY <1>2, <1>7
<1>8. QED
  BY <1>2, <1>3, <1>4, <1>5, <1>6, <1>7, WayUnchanged DEF Next, ServerStep

-----------------------------------------------------------------------------
(* The log ends with the deletion of the app. *)

DeletedLast ==
  /\ Len(log) # 0
  /\ \A i \in 1..Len(log) : log[i].kind = "delete" => i = Len(log)

LEMMA LogMoves ==
  ASSUME Typed, Next
  PROVE  /\ \/ log' = log
            \/ Fire /\ Len(log') = Len(log) + 1
         /\ Len(log) \in Nat /\ Len(log') \in Nat /\ Len(log) <= Len(log')
         /\ \A i \in 1..Len(log) : log'[i] = log[i]
<1>1. log' = log \/ Fire
  BY OnlyFireLogs
<1>2. Len(log) \in Nat
  BY Numbers DEF Typed
<1>3. ASSUME Fire PROVE Len(log') = Len(log) + 1
  <2>1. PICK e : log' = Append(log, e)
    BY <1>3 DEF Fire
  <2>2. QED
    BY <2>1, AppendProperties DEF Typed, TypeOK
<1>4. QED
  BY <1>1, <1>2, <1>3, LogGrows

LEMMA NextDeletedLast ==
  ASSUME Typed, DeletedLast, Next
  PROVE  DeletedLast'
<1>1. CASE log' = log
  BY <1>1 DEF DeletedLast
<1>2. CASE Fire
  <2>1. \A i \in 1..Len(log) : log'[i].kind # "delete"
    BY <1>2, LogMoves DEF Fire
  <2>2. Len(log) \in Nat /\ (Len(log') = Len(log) + 1 \/ log' = log)
    BY LogMoves
  <2>3. QED
    BY <1>1, <2>1, <2>2 DEF DeletedLast
<1>3. QED
  BY <1>1, <1>2, LogMoves

\* Once the app is gone, it stays gone.
LEMMA AppGoneStays ==
  ASSUME Typed, Observing, Next, AppGone
  PROVE  AppGone'
<1>1. PICK i \in 1..Purged : log[i].kind = "delete"
  BY DEF AppGone
<1>2. Purged \in Nat /\ Purged <= Len(log) /\ Purged <= Purged' /\ Len(log) \in Nat
  BY PurgedIs, ObserverSteps, Numbers DEF Typed
<1>3. Purged' \in Nat
  <2>1. TypeOK' /\ Observing'
    BY ObserverSteps, NextTyped DEF Typed
  <2>2. observer'.start \in Nat /\ observer'.last \in Nat
    BY <2>1 DEF TypeOK, Cursors
  <2>3. QED
    BY <2>2 DEF Purged
<1>4. log'[i] = log[i] /\ i \in 1..Purged'
  BY <1>2, <1>3, LogGrows
<1>5. QED
  BY <1>1, <1>4 DEF AppGone

LEMMA MissedGrows ==
  ASSUME Next
  PROVE  missed \subseteq missed'
<1>1. ASSUME NEW w \in Watches, NEW k \in Workers, JobStep(w, k) \/ MatchFails(w, k)
      PROVE  missed \subseteq missed'
  BY <1>1 DEF JobStep, ReadCache, ReadRemote, FillCache, MatchGone, MatchFails, NotifyClosed,
              NotifyNothing, NotifySent, NotifyFails
<1>2. ASSUME NEW w \in Watches,
             \/ RetryNext(w) \/ RetryDrops(w) \/ Watch(w) \/ Refuse(w) \/ AddSidecar(w)
             \/ ReadAppCursor(w) \/ SubscribeFails(w) \/ Close(w) \/ RemoveSidecar(w)
             \/ DeleteInstance(w)
      PROVE  missed \subseteq missed'
  BY <1>2 DEF RetryNext, RetryDrops, Watch, Refuse, AddSidecar, AddMember, ReadAppCursor,
              SubscribeFails, Close, RemoveSidecar, RemoveMember, DeleteInstance, historyVars
<1>3. ASSUME Fire \/ ServerStep \/ SkipEvent PROVE missed \subseteq missed'
  BY <1>3 DEF Fire, ServerStep, RecordCursor, ListEvents, ListEventsWith, PurgeCache, PurgeCacheIf,
              SendToPipe, HandleOneBatch, Push, PopAll, Pop, HandleEvent, FinishEvent, SkipEvent,
              PurgeRetry, historyVars
<1>4. QED
  BY <1>1, <1>2, <1>3 DEF Next

\* How a step may change the stream of w as a record, apart from its stage.
LEMMA StreamRecord ==
  ASSUME Typed, Next, NEW w \in Watches
  PROVE  \/ stream'[w].release = stream[w].release /\ stream'[w].cancelled = stream[w].cancelled
         \/ /\ HandleEvent /\ stream'[w].release = stream[w].release
            /\ w \in members => stream'[w].cancelled
            /\ w \notin members => stream'[w].cancelled = stream[w].cancelled
         \/ Watch(w) /\ stream[w].stage = "new"
<1>1. stream \in [Watches -> Streams] /\ stream[w] \in Streams
  BY DEF Typed, TypeOK
<1> DEFINE Kept == stream'[w].release = stream[w].release /\ stream'[w].cancelled = stream[w].cancelled
<1>2. ASSUME NEW u \in Watches, NEW st, stream' = [stream EXCEPT ![u].stage = st] PROVE Kept
  BY <1>1, <1>2 DEF Streams
<1>3. ASSUME NEW u \in Watches, NEW k \in Workers, JobStep(u, k) \/ MatchFails(u, k)
      PROVE  Kept
  <2>1. stream' = stream \/ stream' = [stream EXCEPT ![u].stage = "on"]
    BY <1>3 DEF JobStep, ReadCache, ReadRemote, FillCache, MatchGone, MatchFails, NotifyClosed,
                NotifyNothing, NotifySent, NotifyFails, Match, CompareFirst, RetryLater, Notified
  <2>2. QED
    BY <1>2, <1>3, <2>1
<1>4. ASSUME NEW u \in Watches,
             \/ Refuse(u) \/ SubscribeFails(u) \/ Close(u) \/ RemoveSidecar(u)
             \/ DeleteInstance(u)
      PROVE  Kept
  <2>1. \E st : stream' = [stream EXCEPT ![u].stage = st]
    BY <1>4 DEF Refuse, SubscribeFails, Close, RemoveSidecar, RemoveMember, DeleteInstance
  <2>2. QED
    BY <1>2, <2>1
<1>5. ASSUME NEW u \in Watches, AddSidecar(u) PROVE Kept
  <2>1. stream' = [stream EXCEPT ![u] = [stream[u] EXCEPT !.stage = "adding", !.timing = Timing(u)]]
    BY <1>5 DEF AddSidecar, AddMember
  <2>2. QED
    BY <1>1, <2>1 DEF Streams
<1>6. ASSUME NEW u \in Watches, RetryNext(u) \/ RetryDrops(u) \/ ReadAppCursor(u) PROVE Kept
  BY <1>6 DEF RetryNext, RetryDrops, ReadAppCursor, workerFrame
<1>7. ASSUME \/ Fire \/ RecordCursor \/ ListEvents \/ PurgeCache \/ SendToPipe \/ HandleOneBatch
             \/ PopAll \/ FinishEvent \/ SkipEvent \/ PurgeRetry
      PROVE  Kept
  BY <1>7 DEF Fire, RecordCursor, ListEvents, ListEventsWith, PurgeCache, PurgeCacheIf, SendToPipe,
              HandleOneBatch, Push, PopAll, Pop, FinishEvent, SkipEvent, PurgeRetry, workerFrame
<1>8. ASSUME NEW u \in Watches, Watch(u) PROVE Kept \/ (Watch(w) /\ stream[w].stage = "new")
  <2>1. CASE u = w
    BY <1>8, <2>1 DEF Watch
  <2>2. CASE u # w
    <3>1. PICK s : stream' = [stream EXCEPT ![u] = s]
      BY <1>8 DEF Watch
    <3>2. QED
      BY <1>1, <2>2, <3>1
  <2>3. QED
    BY <2>1, <2>2
<1>9. ASSUME HandleEvent
      PROVE  \/ Kept
             \/ /\ stream'[w].release = stream[w].release
                /\ w \in members => stream'[w].cancelled
                /\ w \notin members => stream'[w].cancelled = stream[w].cancelled
  <2>1. \/ stream' = stream
        \/ stream' = [u \in Watches |-> IF u \in members THEN [stream[u] EXCEPT !.cancelled = TRUE]
                                        ELSE stream[u]]
    BY <1>9 DEF HandleEvent
  <2>2. QED
    BY <1>1, <2>1 DEF Streams
<1>10. QED
  BY <1>3, <1>4, <1>5, <1>6, <1>7, <1>8, <1>9 DEF Next, ServerStep

LEMMA MembersMove ==
  ASSUME Typed, Next
  PROVE  \/ members' = members
         \/ /\ pushed' = pushed
            /\ \E w \in Watches :
                 \/ AddSidecar(w) /\ members' = members \cup {w}
                 \/ members' = members \ {w} /\ stream'[w].stage \in {"failed", "removed"}
<1>1. ASSUME NEW w \in Watches, AddSidecar(w) \/ SubscribeFails(w) \/ RemoveSidecar(w)
      PROVE  /\ pushed' = pushed
             /\ \/ AddSidecar(w) /\ members' = members \cup {w}
                \/ members' = members \ {w} /\ stream'[w].stage \in {"failed", "removed"}
  <2>1. stream \in [Watches -> Streams]
    BY DEF Typed, TypeOK
  <2>2. pushed' = pushed
    BY <1>1 DEF AddSidecar, AddMember, SubscribeFails, RemoveSidecar, RemoveMember, streamFrame,
                pipelineVars
  <2>3. CASE AddSidecar(w)
    BY <2>2, <2>3 DEF AddSidecar, AddMember
  <2>4. CASE SubscribeFails(w) \/ RemoveSidecar(w)
    <3>1. PICK st \in {"failed", "removed"} :
            stream' = [stream EXCEPT ![w].stage = st] /\ members' = members \ {w}
      BY <2>4 DEF SubscribeFails, RemoveSidecar, RemoveMember
    <3>2. stream'[w].stage = st
      BY <2>1, <3>1 DEF Streams
    <3>3. QED
      BY <2>2, <3>1, <3>2
  <2>5. QED
    BY <1>1, <2>3, <2>4
<1>2. ASSUME NEW w \in Watches, NEW k \in Workers, JobStep(w, k) \/ MatchFails(w, k)
      PROVE  members' = members
  BY <1>2 DEF JobStep, ReadCache, ReadRemote, FillCache, MatchGone, MatchFails, NotifyClosed,
              NotifyNothing, NotifySent, NotifyFails, matchFrame, notifyFrame, appVars
<1>3. ASSUME NEW w \in Watches,
             \/ RetryNext(w) \/ RetryDrops(w) \/ Watch(w) \/ Refuse(w) \/ ReadAppCursor(w)
             \/ Close(w) \/ DeleteInstance(w)
      PROVE  members' = members
  BY <1>3 DEF RetryNext, RetryDrops, workerFrame, Watch, Refuse, ReadAppCursor, Close,
              DeleteInstance, appVars
<1>4. ASSUME Fire \/ ServerStep \/ SkipEvent PROVE members' = members
  BY <1>4 DEF Fire, ServerStep, RecordCursor, ListEvents, ListEventsWith, PurgeCache, PurgeCacheIf,
              SendToPipe, HandleOneBatch, Push, PopAll, Pop, HandleEvent, FinishEvent, SkipEvent,
              handlerFrame, PurgeRetry, workerFrame, appVars
<1>5. QED
  BY <1>1, <1>2, <1>3, <1>4 DEF Next

-----------------------------------------------------------------------------
(* The deletion of the app ends the streams. *)

\* A deletion that has not ended the stream of a member is on its way.
Closing(w) ==
  /\ w \in members \ missed /\ stream[w].timing # "late" /\ ~ stream[w].cancelled
  /\ log[Len(log)].kind = "delete"
  => OnItsWay(Len(log))

\* Who is let in without being late is let in before the deletion is purged for.
LEMMA LetInBefore ==
  ASSUME TypeOK, Observing, DeletedLast, NEW w \in Watches, Timing(w) # "late",
         log[Len(log)].kind = "delete"
  PROVE  Len(log) > Purged
<1>1. /\ Purged \in Nat /\ Purged <= Len(log) /\ Len(log) \in Nat /\ recorded <= Len(log)
      /\ cursor \in Nat /\ observer.last \in Nat /\ recorded \in Nat /\ Len(log) # 0
  BY PurgedIs, Numbers DEF TypeOK, DeletedLast
<1>2. SUFFICES ASSUME AppGone PROVE FALSE
  BY <1>1 DEF AppGone
<1>3. Purged = Len(log)
  <2>1. PICK i \in 1..Purged : log[i].kind = "delete"
    BY <1>2 DEF AppGone
  <2>2. i = Len(log)
    BY <1>1, <2>1 DEF DeletedLast
  <2>3. QED
    BY <1>1, <2>1, <2>2
<1>4. cursor <= Purged
  BY <1>1, <1>3 DEF Observing
<1>5. Timing(w) = "late"
  BY <1>1, <1>2, <1>4, StreamCursor DEF Timing
<1>6. QED
  BY <1>5

LEMMA NextClosing ==
  ASSUME Typed, Up, Observing, Passing, DeletedLast, FirstsSubscribe, Belongs, Next,
         NEW w \in Watches, Closing(w)
  PROVE  Closing(w)'
<1> DEFINE d == Len(log)
<1>1. /\ pushed \in Nat /\ pushed <= observer.start /\ observer.start <= Purged /\ Purged <= Len(log)
      /\ Purged \in Nat /\ observer.start \in Nat /\ d \in Nat /\ TypeOK
  BY PurgedIs, Numbers DEF Typed, Passing
<1>2. SUFFICES ASSUME w \in members' \ missed', stream'[w].timing # "late", ~ stream'[w].cancelled,
                      log'[Len(log')].kind = "delete"
               PROVE  OnItsWay(Len(log))'
  BY DEF Closing
<1>3. CASE Fire
  <2>1. Len(log') = d + 1 \/ log' = log
    BY LogMoves
  <2>2. log' # log
    BY <1>3 DEF Fire, Typed, TypeOK
  <2>3. pushed' = pushed
    BY <1>3 DEF Fire, pipelineVars
  <2>4. Len(log') > pushed'
    BY <1>1, <2>1, <2>2, <2>3
  <2>5. QED
    BY <2>4 DEF OnItsWay
<1>4. CASE log' = log /\ w \notin members
  <2>1. IsLetIn(w)
    BY <1>2, <1>4, NextStream
       DEF StreamMoved, Same, Comes, IsSubscribed, Fails, Ends, NotJoining
  <2>2. Timing(w) # "late"
    BY <1>2, <2>1 DEF IsLetIn
  <2>3. pushed' = pushed
    BY <1>2, <1>4, MembersMove
  <2>4. d > Purged
    BY <1>1, <1>2, <1>4, <2>2, LetInBefore
  <2>5. Len(log') > pushed'
    BY <1>1, <1>4, <2>3, <2>4
  <2>6. QED
    BY <2>5 DEF OnItsWay
<1>5. CASE log' = log /\ w \in members
  <2>1. stream[w].stage \notin {"new", "wait"} /\ w \notin missed
    BY <1>2, <1>5, MissedGrows DEF Belongs
  <2>2. stream'[w].timing = stream[w].timing
    BY <2>1, NextStream
       DEF StreamMoved, Same, Comes, IsLetIn, IsSubscribed, Fails, Ends, KeptStream
  <2>3. ~ stream[w].cancelled
    BY <1>2, <1>5, <2>1, StreamRecord
  <2>4. OnItsWay(d) /\ log[d].kind = "delete"
    BY <1>2, <1>5, <2>1, <2>2, <2>3 DEF Closing
  <2>5. CASE (HandleEvent \/ SkipEvent) /\ d = Head(handler.events)
    <3>1. CASE HandleEvent
      <4>1. stream' = [u \in Watches |-> IF u \in members THEN [stream[u] EXCEPT !.cancelled = TRUE]
                                         ELSE stream[u]]
        BY <2>4, <2>5, <3>1 DEF HandleEvent
      <4>2. stream[w] \in Streams
        BY StreamCursor DEF Typed
      <4>3. stream'[w].cancelled
        BY <1>5, <4>1, <4>2 DEF Streams
      <4>4. QED
        BY <1>2, <4>3
    <3>2. CASE SkipEvent
      <4>1. missed' = missed \cup Concerned(log[d])
        BY <2>5, <3>2 DEF SkipEvent
      <4>2. w \in missed'
        BY <1>5, <2>4, <4>1 DEF Concerned
      <4>3. QED
        BY <1>2, <4>2
    <3>3. QED
      BY <2>5, <3>1, <3>2
  <2>6. CASE OnItsWay(d)'
    BY <1>5, <2>6 DEF OnItsWay
  <2>7. QED
    BY <1>1, <1>2, <1>5, <2>4, <2>5, <2>6, StaysOnItsWay
<1>6. QED
  BY <1>3, <1>4, <1>5, OnlyFireLogs

-----------------------------------------------------------------------------
(* With the way of the events, the invariant of what is handed on. *)

WayInv == Inv /\ Piped /\ Up /\ DeletedLast

LEMMA InitWay == Init => WayInv
<1> SUFFICES ASSUME Init PROVE WayInv
  OBVIOUS
<1>1. Piped /\ Up
  BY DEF Init, Piped, Up
<1>2. DeletedLast
  <2>1. PICK to \in (SUBSET Watches) \ {{}} : log = <<[kind |-> "publish", to |-> to]>>
    BY DEF Init
  <2>2. Len(log) = 1
    BY <2>1
  <2>3. QED
    BY <2>2 DEF DeletedLast
<1>3. QED
  BY <1>1, <1>2, InitInv DEF WayInv

LEMMA NextWay == WayInv /\ [Next]_vars => WayInv'
<1> SUFFICES ASSUME WayInv, [Next]_vars PROVE WayInv'
  OBVIOUS
<1>1. Inv'
  BY NextInv DEF WayInv
<1>2. CASE Next
  BY <1>1, <1>2, NextPiped, NextUp, NextDeletedLast DEF WayInv, Inv
<1>3. CASE UNCHANGED vars
  BY <1>1, <1>3 DEF WayInv, Piped, Up, DeletedLast, vars, pipelineVars, appVars
<1>4. QED
  BY <1>2, <1>3

\* What has been listed, piped and taken off the lists has come to the handler.
LEMMA NothingOnItsWay ==
  ASSUME WayInv, NEW i \in Nat, i <= Purged, observer.stage = "list",
         pipe = <<>>, queue = <<>>, handler.events = <<>>
  PROVE  ~ OnItsWay(i)
<1>1. Purged = observer.start /\ observer.start = pushed /\ pushed \in Nat
  BY Numbers DEF WayInv, Inv, Typed, Piped, Purged
<1>2. handler.waits = {} /\ NotBegun = <<>>
  BY DEF WayInv, Inv, Typed, Waiting, NotBegun
<1>3. QED
  BY <1>1, <1>2, InEmpty DEF OnItsWay

CloseInv == WayInv /\ \A w \in Watches : Closing(w)

\* When the handler is done with the deletion of the app, every member's stream has been told to
\* end: HandleEvent reaches those that are members when the deletion comes to it, and AddSidecar
\* lets in none after the purge but the late.  The deletion is followed on its way from the log to
\* the handler.
THEOREM DeletionEnds == Spec => []DeletionCloses
<1>1. Init => CloseInv
  <2>1. Init => \A w \in Watches : Closing(w)
    BY DEF Init, Closing
  <2>2. QED
    BY <2>1, InitWay DEF CloseInv
<1>2. CloseInv /\ [Next]_vars => CloseInv'
  <2> SUFFICES ASSUME CloseInv, [Next]_vars PROVE CloseInv'
    OBVIOUS
  <2>1. WayInv'
    BY NextWay DEF CloseInv
  <2>2. ASSUME NEW w \in Watches PROVE Closing(w)'
    <3>1. CASE Next
      BY <3>1, NextClosing DEF CloseInv, WayInv, Inv, Line
    <3>2. CASE UNCHANGED vars
      BY <3>2 DEF CloseInv, Closing, OnItsWay, NotBegun, In, vars, pipelineVars, appVars, historyVars
    <3>3. QED
      BY <3>1, <3>2
  <2>3. QED
    BY <2>1, <2>2 DEF CloseInv
<1>3. CloseInv => DeletionCloses
  <2> SUFFICES ASSUME CloseInv, NEW w \in members \ missed, AppGone, pipe = <<>>, queue = <<>>,
                      handler.events = <<>>, observer.stage = "list", stream[w].timing # "late"
               PROVE  stream[w].cancelled
    BY DEF DeletionCloses
  <2>1. w \in Watches /\ stream[w] \in Streams
    BY StreamCursor DEF CloseInv, WayInv, Inv, Typed, TypeOK
  <2>2. Len(log) <= Purged /\ Len(log) \in Nat /\ log[Len(log)].kind = "delete"
    <3>1. PICK i \in 1..Purged : log[i].kind = "delete"
      BY DEF AppGone
    <3>2. Purged <= Len(log) /\ Purged \in Nat /\ Len(log) \in Nat
      BY PurgedIs, Numbers DEF CloseInv, WayInv, Inv, Typed, Line
    <3>3. i = Len(log)
      BY <3>1, <3>2 DEF CloseInv, WayInv, DeletedLast
    <3>4. QED
      BY <3>1, <3>2, <3>3
  <2>3. ~ OnItsWay(Len(log))
    BY <2>2, NothingOnItsWay DEF CloseInv
  <2>4. QED
    BY <2>1, <2>2, <2>3 DEF CloseInv, Closing
<1>4. QED
  BY <1>1, <1>2, <1>3, PTL DEF Spec

\* What the sidecar is to hear of
Due(w) == Matched(w, Len(log))

\* It changes when a release is published for the sidecar, to that release.
LEMMA DueMoves ==
  ASSUME Typed, Next, NEW w \in Watches
  PROVE  /\ Due(w) \in 0..Len(log) /\ Due(w)' \in 0..Len(log') /\ Due(w) <= Due(w)'
         /\ Due(w) # 0 => Matches(w, log[Due(w)])
         /\ Due(w)' = Due(w) \/ Due(w)' > Len(log)
<1>1. /\ Len(log) \in Nat /\ Len(log') \in Nat /\ Len(log) <= Len(log')
      /\ Len(log') = Len(log) \/ Len(log') = Len(log) + 1
      /\ \A i \in 1..Len(log) : log'[i] = log[i]
  BY LogMoves
<1>2. Due(w) = Last(log, w, Len(log)) /\ Due(w)' = Last(log', w, Len(log'))
  BY DEF Due, Matched, Last
<1>3. Last(log', w, Len(log)) = Last(log, w, Len(log))
  <2>1. \A n \in Nat : (\A i \in 1..n : log'[i] = log[i]) => Last(log', w, n) = Last(log, w, n)
    BY LastSame
  <2>2. QED
    BY <1>1, <2>1
<1>4. PICK n \in Nat, m \in Nat : n = Len(log) /\ m = Len(log')
  BY <1>1
<1>5. Last(log', w, n) <= Last(log', w, m)
  BY <1>1, <1>4, LastOrder
<1>6. /\ Last(log, w, n) \in 0..n /\ Last(log', w, m) \in 0..m
      /\ Last(log, w, n) # 0 => Matches(w, log[Last(log, w, n)])
  BY <1>4, LastIs
<1>7. Last(log', w, m) = Last(log, w, n) \/ Last(log', w, m) > n
  <2>1. SUFFICES ASSUME Last(log', w, m) <= n, Last(log', w, m) # 0
                 PROVE  Last(log', w, n) >= Last(log', w, m)
    BY <1>3, <1>4, <1>5, <1>6
  <2>2. Last(log', w, m) \in 1..n /\ Matches(w, log'[Last(log', w, m)])
    BY <1>6, <2>1, LastIs
  <2>3. QED
    BY <2>2, LastIs
<1>8. QED
  BY <1>2, <1>3, <1>4, <1>5, <1>6, <1>7

-----------------------------------------------------------------------------
(* What a step makes of a job, of the retry lists and of what was heard. *)

WillRead == {"added", "first", "firstFill", "match", "fill"}

LEMMA JobBecomes ==
  ASSUME Typed, FirstsSubscribe, Next, NEW w \in Watches, NEW k \in Workers
  PROVE  \/ job'[w][k] = job[w][k]
         \/ JobStep(w, k) \/ MatchFails(w, k)
         \/ job'[w][k].stage \in WillRead /\ job'[w][k].ver = 0
         \/ SubscribeFails(w) /\ job'[w][k] = NoJob
<1>1. job \in [Watches -> [Workers -> Jobs]] /\ "subscribe" \in Workers
  BY DEF Typed, TypeOK, Workers
<1>2. ASSUME NEW u \in Watches, NEW l \in Workers, NEW j, job' = [job EXCEPT ![u][l] = j],
             u # w \/ l # k
      PROVE  job'[w][k] = job[w][k]
  BY <1>1, <1>2
<1>3. ASSUME NEW u \in Watches, NEW l \in Workers, NEW j, job' = [job EXCEPT ![u][l] = j]
      PROVE  job'[w][k] = job[w][k] \/ (u = w /\ l = k /\ job'[w][k] = j)
  BY <1>1, <1>3
<1>4. ASSUME NEW u \in Watches, NEW l \in Workers, JobStep(u, l) \/ MatchFails(u, l)
      PROVE  job'[w][k] = job[w][k] \/ (u = w /\ l = k)
  <2>1. \E j : job' = [job EXCEPT ![u][l] = j]
    <3>1. job[u][l].stage \in {"first", "firstFill"} => l = "subscribe"
      BY DEF FirstsSubscribe, Firsts
    <3>2. ASSUME NEW ver, NEW late, Match(u, l, ver, late) PROVE \E j : job' = [job EXCEPT ![u][l] = j]
      <4>1. ASSUME NEW r, NEW c, CompareFirst(u, r, c) 
            PROVE  \E j : job' = [job EXCEPT ![u]["subscribe"] = j]
        BY <4>1 DEF CompareFirst
      <4>2. CASE RetryLater(u, l)
        BY <4>2 DEF RetryLater
      <4>3. CASE job[u][l].stage \in {"first", "firstFill"}
        <5>1. \E r, c : CompareFirst(u, r, c)
          BY <3>2, <4>3 DEF Match
        <5>2. QED
          BY <3>1, <4>1, <4>3, <5>1
      <4>4. CASE job' = [job EXCEPT ![u][l] = [@ EXCEPT !.stage = "send", !.ver = ver, !.late = late]]
        BY <4>4
      <4>5. QED
        BY <3>2, <4>2, <4>3, <4>4 DEF Match
    <3>3. CASE ReadCache(u, l) \/ FillCache(u, l)
      BY <3>2, <3>3 DEF ReadCache, FillCache
    <3>4. CASE MatchGone(u, l) \/ MatchFails(u, l)
      BY <3>1, <3>4 DEF MatchGone, MatchFails, CompareFirst, RetryLater
    <3>5. CASE \/ ReadRemote(u, l) \/ NotifyClosed(u, l) \/ NotifySent(u, l)
               \/ NotifyNothing(u, l) \/ NotifyFails(u, l)
      BY <3>5 DEF ReadRemote, NotifyClosed, NotifySent, NotifyNothing, NotifyFails, RetryLater
    <3>6. QED
      BY <1>4, <3>3, <3>4, <3>5 DEF JobStep
  <2>2. QED
    BY <1>3, <2>1
<1>5. ASSUME NEW u \in Watches, AddSidecar(u) \/ ReadAppCursor(u)
      PROVE  job'[w][k] = job[w][k] \/ (job'[w][k].stage \in WillRead /\ job'[w][k].ver = 0)
  <2>1. \E j \in {Job("added", 0), Job("first", appCursor)} : job' = [job EXCEPT ![u]["subscribe"] = j]
    BY <1>5 DEF AddSidecar, AddMember, ReadAppCursor
  <2>2. QED
    BY <1>1, <1>3, <2>1 DEF Job, WillRead
<1>6. ASSUME NEW u \in Watches, RetryNext(u)
      PROVE  job'[w][k] = job[w][k] \/ (job'[w][k].stage \in WillRead /\ job'[w][k].ver = 0)
  <2>1. job' = [job EXCEPT ![u]["retry"] = Job("match", retrying[u])] /\ "retry" \in Workers
    BY <1>6 DEF RetryNext, Workers
  <2>2. QED
    BY <1>3, <2>1 DEF Job, WillRead
<1>7. ASSUME NEW u \in Watches, SubscribeFails(u)
      PROVE  job'[w][k] = job[w][k] \/ (SubscribeFails(w) /\ job'[w][k] = NoJob)
  <2>1. job' = [job EXCEPT ![u]["subscribe"] = NoJob]
    BY <1>7 DEF SubscribeFails
  <2>2. job'[w][k] = job[w][k] \/ (u = w /\ job'[w][k] = NoJob)
    BY <1>1, <1>3, <2>1
  <2>3. QED
    BY <1>7, <2>2
<1>8. ASSUME HandleEvent
      PROVE  job'[w][k] = job[w][k] \/ (job'[w][k].stage \in WillRead /\ job'[w][k].ver = 0)
  <2>1. PICK ws, i :
          job' = [u \in Watches |->
                   IF u \in ws THEN [job[u] EXCEPT !["event"] = Job("match", i)] ELSE job[u]]
    <3> DEFINE first == Head(handler.events)
               taken == IF log[first].kind = "delete" THEN {} ELSE Concerned(log[first])
    <3>1. job' = [u \in Watches |->
                    IF u \in taken THEN [job[u] EXCEPT !["event"] = Job("match", first)] ELSE job[u]]
      BY <1>8 DEF HandleEvent
    <3> HIDE DEF first, taken
    <3>2. QED
      BY <3>1
  <2>2. job'[w][k] \in {job[w][k], Job("match", i)}
    BY <1>1, <2>1
  <2>3. QED
    BY <2>2 DEF Job, WillRead
<1>9. ASSUME NEW u \in Watches,
             \/ RetryDrops(u) \/ Watch(u) \/ Refuse(u) \/ Close(u) \/ RemoveSidecar(u)
             \/ DeleteInstance(u)
      PROVE  job' = job
  BY <1>9 DEF RetryDrops, Watch, Refuse, Close, RemoveSidecar, RemoveMember, DeleteInstance
<1>10. ASSUME \/ Fire \/ RecordCursor \/ ListEvents \/ PurgeCache \/ SendToPipe \/ HandleOneBatch
              \/ PopAll \/ FinishEvent \/ SkipEvent \/ PurgeRetry
       PROVE  job' = job
  BY <1>10 DEF Fire, RecordCursor, ListEvents, ListEventsWith, PurgeCache, PurgeCacheIf, SendToPipe,
               HandleOneBatch, Push, PopAll, Pop, FinishEvent, SkipEvent, PurgeRetry, workerFrame
<1>11. QED
  BY <1>4, <1>5, <1>6, <1>7, <1>8, <1>9, <1>10 DEF Next, ServerStep

LEMMA RetryLaterAdds ==
  ASSUME Typed, NEW w \in Watches, NEW k \in Workers, RetryLater(w, k)
  PROVE  /\ retry'[w] # None /\ retrying' = retrying
         /\ \A u \in Watches \ {w} : retry'[u] = retry[u]
<1>1. SidecarTypes
  BY DEF Typed, TypeOK, SidecarTypes
<1>2. job[w][k].cursor \in Cursors /\ retry \in [Watches -> Cursors \cup {None}]
  BY <1>1, CursorOf DEF SidecarTypes
<1>3. QED
  BY <1>2, AddIs DEF RetryLater

\* An entry of the retry list stays, or goes to the worker's copy, until the app or the
\* sidecar is gone; the worker takes it from its copy or drops it.
LEMMA RetryKept ==
  ASSUME Typed, Next, NEW w \in Watches, retry[w] # None \/ retrying[w] # None
  PROVE  \/ retry'[w] # None \/ retrying'[w] # None
         \/ HandleEvent /\ log[Head(handler.events)].kind = "delete"
         \/ DeleteInstance(w)
         \/ job'[w]["retry"].stage = "match"
         \/ w \in missed'
<1>1. /\ retry \in [Watches -> Cursors \cup {None}] /\ retrying \in [Watches -> Cursors \cup {None}]
      /\ job \in [Watches -> [Workers -> Jobs]]
  BY DEF Typed, TypeOK
<1>2. ASSUME NEW u \in Watches, NEW k \in Workers, RetryLater(u, k)
      PROVE  retry'[w] # None \/ retrying'[w] # None
  BY <1>2, RetryLaterAdds
<1>3. ASSUME NEW u \in Watches, NEW k \in Workers, JobStep(u, k) \/ MatchFails(u, k)
      PROVE  UNCHANGED <<retry, retrying>> \/ RetryLater(u, k)
  BY <1>3 DEF JobStep, ReadCache, ReadRemote, FillCache, MatchGone, MatchFails, NotifyClosed,
              NotifyNothing, NotifySent, NotifyFails, Match, CompareFirst, retryVars
<1>4. CASE PurgeRetry
  BY <1>4 DEF PurgeRetry
<1>5. ASSUME NEW u \in Watches, RetryNext(u) \/ RetryDrops(u) \/ DeleteInstance(u)
      PROVE  \/ retry'[w] # None \/ retrying'[w] # None \/ DeleteInstance(w)
             \/ job'[w]["retry"].stage = "match" \/ w \in missed'
  <2>1. CASE u # w
    BY <1>1, <1>5, <2>1 DEF RetryNext, RetryDrops, DeleteInstance
  <2>2. CASE RetryNext(w)
    BY <1>1, <2>2 DEF RetryNext, Job, Workers
  <2>3. CASE RetryDrops(w) \/ DeleteInstance(w)
    BY <2>3 DEF RetryDrops
  <2>4. QED
    BY <1>5, <2>1, <2>2, <2>3
<1>6. CASE HandleEvent
  BY <1>6 DEF HandleEvent
<1>7. ASSUME NEW u \in Watches,
             \/ Watch(u) \/ Refuse(u) \/ AddSidecar(u) \/ ReadAppCursor(u) \/ SubscribeFails(u)
             \/ Close(u) \/ RemoveSidecar(u)
      PROVE  UNCHANGED <<retry, retrying>>
  BY <1>7 DEF Watch, Refuse, AddSidecar, AddMember, ReadAppCursor, SubscribeFails, Close,
              RemoveSidecar, RemoveMember, retryVars
<1>8. ASSUME \/ Fire \/ RecordCursor \/ ListEvents \/ PurgeCache \/ SendToPipe \/ HandleOneBatch
             \/ PopAll \/ FinishEvent \/ SkipEvent
      PROVE  UNCHANGED <<retry, retrying>>
  BY <1>8 DEF Fire, RecordCursor, ListEvents, ListEventsWith, PurgeCache, PurgeCacheIf, SendToPipe,
              HandleOneBatch, Push, PopAll, Pop, FinishEvent, SkipEvent, retryVars
<1>9. QED
  BY <1>2, <1>3, <1>4, <1>5, <1>6, <1>7, <1>8 DEF Next, ServerStep

\* What the sidecar has heard of
LEMMA ToldBecomes ==
  ASSUME Typed, Next, NEW w \in Watches
  PROVE  \/ told'[w] = told[w]
         \/ \E k \in Workers :
              /\ NotifySent(w, k) /\ told'[w] = Last(log, w, job[w][k].ver)
              /\ told'[w] < told[w] => w \in missed'
         \/ /\ stream[w].stage = "new"
            /\ \E v \in 0..Len(log) : told'[w] = Last(log, w, v) /\ stream'[w].release = told'[w]
<1>1. told \in [Watches -> Cursors] /\ stream \in [Watches -> Streams]
  BY DEF Typed, TypeOK
<1>2. ASSUME NEW u \in Watches, NEW k \in Workers, NotifySent(u, k)
      PROVE  \/ told'[w] = told[w]
             \/ /\ u = w /\ told'[w] = Last(log, w, job[w][k].ver)
                /\ told'[w] < told[w] => w \in missed'
  <2>1. told' = [told EXCEPT ![u] = Last(log, u, job[u][k].ver)]
    BY <1>2 DEF NotifySent, Matched, Last
  <2>2. CASE u # w
    BY <1>1, <2>1, <2>2
  <2>3. CASE u = w
    <3>1. told'[w] = Last(log, w, job[w][k].ver)
      BY <1>1, <2>1, <2>3
    <3>2. told'[w] < told[w] => w \in missed'
      <4>1. missed' = IF Last(log, w, job[w][k].ver) < told[w] THEN missed \cup {w} ELSE missed
        BY <1>2, <2>3 DEF NotifySent, Matched, Last
      <4>2. QED
        BY <3>1, <4>1
    <3>3. QED
      BY <2>3, <3>1, <3>2
  <2>4. QED
    BY <2>2, <2>3
<1>3. ASSUME NEW u \in Watches, Watch(u)
      PROVE  \/ told'[w] = told[w]
             \/ /\ stream[w].stage = "new"
                /\ \E v \in 0..Len(log) : told'[w] = Last(log, w, v) /\ stream'[w].release = told'[w]
  <2>1. PICK c, v :
          /\ c \in 0..recorded /\ v \in c..Len(log)
          /\ stream' = [stream EXCEPT ![u] = [NewStream EXCEPT !.stage = "wait", !.cursor = c,
                                                               !.release = Last(log, u, v)]]
          /\ told' = [told EXCEPT ![u] = Last(log, u, v)]
    BY <1>3 DEF Watch, Matched, Last
  <2>2. CASE u # w
    BY <1>1, <2>1, <2>2
  <2>3. CASE u = w
    <3>1. v \in 0..Len(log)
      BY <2>1, Numbers DEF Typed
    <3>2. stream[w].stage = "new"
      BY <1>3, <2>3 DEF Watch
    <3>3. told'[w] = Last(log, w, v) /\ stream'[w].release = Last(log, w, v)
      BY <1>1, <2>1, <2>3 DEF NewStream
    <3>4. QED
      BY <3>1, <3>2, <3>3
  <2>4. QED
    BY <2>2, <2>3
<1>4. ASSUME NEW u \in Watches, NEW k \in Workers, JobStep(u, k) \/ MatchFails(u, k)
      PROVE  told' = told \/ NotifySent(u, k)
  BY <1>4 DEF JobStep, ReadCache, ReadRemote, FillCache, MatchGone, MatchFails, NotifyClosed,
              NotifyNothing, NotifyFails, matchFrame, notifyFrame
<1>5. ASSUME NEW u \in Watches,
             \/ RetryNext(u) \/ RetryDrops(u) \/ Refuse(u) \/ AddSidecar(u) \/ ReadAppCursor(u)
             \/ SubscribeFails(u) \/ Close(u) \/ RemoveSidecar(u) \/ DeleteInstance(u)
      PROVE  told' = told
  BY <1>5 DEF RetryNext, RetryDrops, workerFrame, Refuse, AddSidecar, AddMember, ReadAppCursor,
              SubscribeFails, Close, RemoveSidecar, RemoveMember, DeleteInstance, historyVars
<1>6. ASSUME Fire \/ ServerStep \/ SkipEvent PROVE told' = told
  BY <1>6 DEF Fire, ServerStep, RecordCursor, ListEvents, ListEventsWith, PurgeCache, PurgeCacheIf,
              SendToPipe, HandleOneBatch, Push, PopAll, Pop, HandleEvent, FinishEvent, SkipEvent,
              handlerFrame, PurgeRetry, workerFrame, historyVars
<1>7. QED
  BY <1>2, <1>3, <1>4, <1>5, <1>6 DEF Next

-----------------------------------------------------------------------------
(* What has been read is in the log, and nothing newer was heard of. *)

ReadInLog ==
  /\ cache.ver # None => cache.ver <= Len(log)
  /\ \A w \in Watches, k \in Workers : job[w][k].ver <= Len(log)

LEMMA NextReadInLog ==
  ASSUME Typed, FirstsSubscribe, ReadInLog, Next
  PROVE  ReadInLog'
<1>1. /\ Len(log) \in Nat /\ Len(log') \in Nat /\ Len(log) <= Len(log') /\ SidecarTypes
      /\ cache \in [ver : Cursors \cup {None}, late : BOOLEAN]
  BY LogMoves DEF Typed, TypeOK, SidecarTypes
<1>2. \A w \in Watches, k \in Workers : job[w][k].ver \in Nat /\ job[w][k].ver <= Len(log)
  BY <1>1, CursorOf DEF ReadInLog, Cursors
<1>3. cache.ver # None => cache.ver \in Nat /\ cache.ver <= Len(log)
  BY <1>1 DEF ReadInLog, Cursors
<1>4. cache'.ver = cache.ver \/ cache'.ver = None
        \/ \E w \in Watches, k \in Workers : cache'.ver = job[w][k].ver
  <2>1. ASSUME NEW w \in Watches, NEW k \in Workers, JobStep(w, k) \/ MatchFails(w, k)
        PROVE  cache' = cache \/ cache'.ver = job[w][k].ver
    <3>1. CASE FillCache(w, k)
      BY <3>1 DEF FillCache
    <3>2. CASE ReadCache(w, k) \/ ReadRemote(w, k) \/ MatchGone(w, k) \/ MatchFails(w, k)
      BY <3>2 DEF ReadCache, ReadRemote, MatchGone, MatchFails
    <3>3. CASE \/ NotifyClosed(w, k) \/ NotifySent(w, k) \/ NotifyNothing(w, k) \/ NotifyFails(w, k)
      BY <3>3 DEF NotifyClosed, NotifySent, NotifyNothing, NotifyFails, notifyFrame
    <3>4. QED
      BY <2>1, <3>1, <3>2, <3>3 DEF JobStep
  <2>2. ASSUME NEW w \in Watches,
               \/ RetryNext(w) \/ RetryDrops(w) \/ Watch(w) \/ Refuse(w) \/ AddSidecar(w)
               \/ ReadAppCursor(w) \/ SubscribeFails(w) \/ Close(w) \/ RemoveSidecar(w)
               \/ DeleteInstance(w)
        PROVE  cache' = cache
    BY <2>2 DEF RetryNext, RetryDrops, workerFrame, Watch, Refuse, AddSidecar, AddMember, ReadAppCursor,
                SubscribeFails, Close, RemoveSidecar, RemoveMember, DeleteInstance, streamFrame
  <2>3. ASSUME Fire \/ ServerStep \/ SkipEvent PROVE cache' = cache \/ cache'.ver = None
    <3>1. CASE PurgeCache
      BY <3>1 DEF PurgeCache, PurgeCacheIf
    <3>2. CASE Fire \/ RecordCursor \/ ListEvents \/ SendToPipe \/ HandleOneBatch
      BY <3>2 DEF Fire, RecordCursor, ListEvents, ListEventsWith, SendToPipe, HandleOneBatch, Push
    <3>3. CASE PopAll \/ HandleEvent \/ FinishEvent \/ SkipEvent \/ PurgeRetry
      BY <3>3 DEF PopAll, Pop, HandleEvent, FinishEvent, SkipEvent, handlerFrame, PurgeRetry, workerFrame
    <3>4. QED
      BY <2>3, <3>1, <3>2, <3>3 DEF ServerStep
  <2>4. QED
    BY <2>1, <2>2, <2>3 DEF Next
<1>5. ASSUME NEW w \in Watches, NEW k \in Workers, JobStep(w, k) \/ MatchFails(w, k)
      PROVE  \/ job'[w][k].ver \in {0, job[w][k].ver, Len(log)}
             \/ cache.ver # None /\ job'[w][k].ver = cache.ver
  <2>1. /\ job[w][k] \in Jobs /\ job \in [Watches -> [Workers -> Jobs]]
        /\ job[w][k].stage \in {"first", "firstFill"} => k = "subscribe"
    BY <1>1 DEF SidecarTypes, FirstsSubscribe, Firsts
  <2>2. ASSUME NEW ver, NEW late, Match(w, k, ver, late)
        PROVE  job'[w][k].ver \in {0, ver}
    <3>1. CASE job[w][k].stage \in {"first", "firstFill"}
      BY <2>1, <2>2, <3>1 DEF Match, CompareFirst, Job, NoJob
    <3>2. CASE RetryLater(w, k)
      BY <2>1, <3>2 DEF RetryLater, NoJob
    <3>3. CASE job' = [job EXCEPT ![w][k] = [@ EXCEPT !.stage = "send", !.ver = ver, !.late = late]]
      BY <2>1, <3>3 DEF Jobs
    <3>4. QED
      BY <2>2, <3>1, <3>2, <3>3 DEF Match
  <2>3. CASE ReadCache(w, k) \/ FillCache(w, k)
    BY <2>2, <2>3 DEF ReadCache, FillCache
  <2>4. CASE MatchGone(w, k) \/ MatchFails(w, k)
    BY <2>1, <2>4 DEF MatchGone, MatchFails, CompareFirst, RetryLater, Job, NoJob
  <2>5. CASE \/ NotifyClosed(w, k) \/ NotifySent(w, k) \/ NotifyNothing(w, k) \/ NotifyFails(w, k)
    BY <2>1, <2>5 DEF NotifyClosed, NotifySent, NotifyNothing, NotifyFails, RetryLater, NoJob
  <2>6. CASE ReadRemote(w, k)
    BY <2>1, <2>6 DEF ReadRemote, Jobs
  <2>7. QED
    BY <1>5, <2>3, <2>4, <2>5, <2>6 DEF JobStep
<1>6. ASSUME NEW w \in Watches, NEW k \in Workers PROVE job'[w][k].ver <= Len(log')
  <2>1. \/ job'[w][k].ver \in {0, job[w][k].ver, Len(log)}
        \/ cache.ver # None /\ job'[w][k].ver = cache.ver
    BY <1>5, JobBecomes DEF NoJob
  <2>2. QED
    BY <1>1, <1>2, <1>3, <2>1
<1>7. cache'.ver # None => cache'.ver <= Len(log')
  BY <1>1, <1>2, <1>3, <1>4
<1>8. QED
  BY <1>6, <1>7 DEF ReadInLog

\* What a sidecar has heard of is not newer than its release, and not older than what it came
\* with.
Heard(w) == told[w] <= Due(w) /\ (w \notin missed => stream[w].release <= told[w])

LEMMA NextHeard ==
  ASSUME Typed, ReadInLog, Next, NEW w \in Watches, Heard(w)
  PROVE  Heard(w)'
<1>1. /\ Due(w) \in Nat /\ Due(w)' \in Nat /\ Due(w) <= Due(w)' /\ Len(log) \in Nat
      /\ told[w] \in Nat /\ stream[w].release \in Nat /\ missed \subseteq missed'
  <2>1. Due(w) \in Nat /\ Due(w)' \in Nat /\ Due(w) <= Due(w)' /\ Len(log) \in Nat
    BY DueMoves, LogMoves
  <2>2. told[w] \in Cursors /\ stream[w] \in Streams
    BY DEF Typed, TypeOK
  <2>3. stream[w].release \in Cursors
    BY <2>2 DEF Streams
  <2>4. QED
    BY <2>1, <2>2, <2>3, MissedGrows DEF Cursors
<1>2. ASSUME NEW v \in Nat, v <= Len(log) PROVE Last(log, w, v) <= Due(w) /\ Last(log, w, v) \in Nat
  <2>1. Due(w) = Last(log, w, Len(log))
    BY DEF Due, Matched, Last
  <2>2. Last(log, w, v) <= Last(log, w, Len(log)) /\ Last(log, w, v) \in 0..v
    BY <1>1, <1>2, LastOrder, LastIs
  <2>3. QED
    BY <2>1, <2>2
<1>3. stream[w].stage = "new" \/ stream'[w].release = stream[w].release
  BY StreamRecord
<1>4. CASE told'[w] = told[w] /\ stream'[w].release = stream[w].release
  BY <1>1, <1>4 DEF Heard
<1>5. ASSUME NEW k \in Workers, NotifySent(w, k), told'[w] = Last(log, w, job[w][k].ver),
             told'[w] < told[w] => w \in missed'
      PROVE  Heard(w)'
  <2>1. job[w][k].ver \in Nat /\ job[w][k].ver <= Len(log)
    BY CursorOf DEF Typed, TypeOK, SidecarTypes, ReadInLog, Cursors
  <2>2. told'[w] <= Due(w) /\ told'[w] \in Nat
    BY <1>2, <1>5, <2>1
  <2>3. stream'[w].release = stream[w].release
    <3>1. stream' = stream \/ stream' = [stream EXCEPT ![w].stage = "on"]
      BY <1>5 DEF NotifySent, Notified
    <3>2. stream \in [Watches -> Streams]
      BY DEF Typed, TypeOK
    <3>3. QED
      BY <3>1, <3>2 DEF Streams
  <2>4. QED
    BY <1>1, <1>5, <2>2, <2>3 DEF Heard
<1>6. ASSUME NEW v \in 0..Len(log), told'[w] = Last(log, w, v), stream'[w].release = told'[w]
      PROVE  Heard(w)'
  <2>1. v \in Nat /\ v <= Len(log)
    BY <1>1
  <2>2. told'[w] <= Due(w) /\ told'[w] \in Nat
    BY <1>2, <1>6, <2>1
  <2>3. QED
    BY <1>1, <1>6, <2>2 DEF Heard
<1>7. ASSUME told'[w] = told[w], stream'[w].release # stream[w].release PROVE Heard(w)'
  <2>1. Watch(w)
    BY <1>7, StreamRecord
  <2>2. PICK c, v : /\ c \in 0..recorded /\ v \in c..Len(log)
                    /\ stream' = [stream EXCEPT ![w] = [NewStream EXCEPT !.stage = "wait", !.cursor = c,
                                                               !.release = Last(log, w, v)]]
                    /\ told' = [told EXCEPT ![w] = Last(log, w, v)]
    BY <2>1 DEF Watch, Matched, Last
  <2>3. v \in 0..Len(log)
    BY <2>2, Numbers DEF Typed
  <2>4. told'[w] = Last(log, w, v) /\ stream'[w].release = told'[w]
    BY <2>2 DEF Typed, TypeOK, NewStream
  <2>5. QED
    BY <1>6, <2>3, <2>4
<1>8. QED
  BY <1>4, <1>5, <1>6, <1>7, ToldBecomes

-----------------------------------------------------------------------------
(* News that is on its way to a sidecar stays on its way until it is told. *)

Subscribed == {"adding", "on"}

\* A job will read the groups, or has read the release p.
Carries(w, k, p) ==
  \/ job[w][k].stage \in WillRead
  \/ job[w][k].stage = "send" /\ Matched(w, job[w][k].ver) >= p

Carried(w, p) ==
  \/ \E k \in Workers : Carries(w, k, p)
  \/ retry[w] # None \/ retrying[w] # None

\* The release p is on its way to w: as an event, in a job, or in a retry list.
Coming(w, p) == OnItsWay(p) \/ Carried(w, p)

Informed(w) ==
  w \in members \ missed /\ stream[w].stage \in Subscribed /\ ~ AppGone =>
    told[w] >= Due(w) \/ Coming(w, Due(w))

Joined == \A w \in Watches : stream[w].stage \in Subscribed \cup {"closed"} => w \in members

LEMMA WillReadCarries ==
  ASSUME NEW w, NEW k \in Workers, NEW p, job'[w][k].stage \in WillRead
  PROVE  Carried(w, p)'
BY DEF Carried, Carries

LEMMA RetryLaterCarries ==
  ASSUME Typed, NEW w \in Watches, NEW k \in Workers, NEW p, RetryLater(w, k)
  PROVE  Carried(w, p)'
BY RetryLaterAdds DEF Carried

\* AddSidecar compares a release with another one and notifies.
LEMMA CompareCarries ==
  ASSUME Typed, NEW w \in Watches, NEW p, NEW r, NEW c, CompareFirst(w, r, c), r # stream[w].release
  PROVE  Carried(w, p)'
<1>1. job \in [Watches -> [Workers -> Jobs]] /\ "subscribe" \in Workers
  BY DEF Typed, TypeOK, Workers
<1>2. job' = [job EXCEPT ![w]["subscribe"] = Job("match", c)]
  BY DEF CompareFirst
<1>3. job'[w]["subscribe"] = Job("match", c)
  BY <1>1, <1>2
<1>4. QED
  BY <1>1, <1>3, WillReadCarries DEF Job, WillRead

LEMMA MatchCarries ==
  ASSUME Typed, NEW w \in Watches, NEW k \in Workers, NEW p \in Nat, p # 0, NEW ver \in Nat, NEW late,
         Match(w, k, ver, late), Last(log, w, ver) >= p, stream[w].release < p, log' = log
  PROVE  Carried(w, p)'
<1>1. /\ job \in [Watches -> [Workers -> Jobs]] /\ job[w][k] \in Jobs
      /\ stream[w].release \in Nat /\ Last(log, w, ver) \in Nat
  <2>1. stream[w].release \in Cursors
    BY DEF Typed, TypeOK, Streams
  <2>2. QED
    BY <2>1, LastIs DEF Typed, TypeOK, Cursors
<1>2. Matched(w, ver) = Last(log, w, ver)
  BY MatchedLast
<1>3. CASE job[w][k].stage \in {"first", "firstFill"}
  <2>1. PICK c : CompareFirst(w, Matched(w, ver), c)
    BY <1>3 DEF Match
  <2>2. Matched(w, ver) # stream[w].release
    BY <1>1, <1>2
  <2>3. QED
    BY <2>1, <2>2, CompareCarries
<1>4. CASE job[w][k].stage \notin {"first", "firstFill"}
  <2>1. job' = [job EXCEPT ![w][k] = [@ EXCEPT !.stage = "send", !.ver = ver, !.late = late]]
    BY <1>1, <1>2, <1>4 DEF Match
  <2>2. job'[w][k].stage = "send" /\ job'[w][k].ver = ver
    BY <1>1, <2>1 DEF Jobs
  <2>3. Matched(w, job[w][k].ver)' = Last(log', w, job'[w][k].ver)
    BY DEF Matched, Last
  <2>4. Matched(w, job[w][k].ver)' >= p
    BY <2>2, <2>3
  <2>5. QED
    BY <2>2, <2>4 DEF Carried, Carries
<1>5. QED
  BY <1>3, <1>4

\* What is read after all that was purged has the release, unless that is on its way.
LEMMA ReadEnough ==
  ASSUME Typed, Line, NEW w, NEW v \in Nat, Quiet(v, Purged), NEW p \in 1..Len(log),
         Matches(w, log[p])
  PROVE  Last(log, w, v) >= p \/ OnItsWay(p)
<1>1. /\ Purged \in Nat /\ pushed \in Nat /\ pushed <= observer.start /\ observer.start <= Purged
      /\ observer.start \in Nat
  BY PurgedIs, Numbers DEF Typed, Line, Passing
<1>2. CASE p <= Purged
  <2>1. Last(log, w, Purged) >= p
    BY <1>1, <1>2, LastIs
  <2>2. Last(log, w, v) >= Last(log, w, Purged)
    BY <1>1, MatchedCovers, MatchedLast DEF Quiet
  <2>3. Last(log, w, v) \in Nat /\ Last(log, w, Purged) \in Nat
    BY <1>1, LastIs
  <2>4. QED
    BY <2>1, <2>2, <2>3
<1>3. CASE p > Purged
  BY <1>1, <1>3 DEF OnItsWay
<1>4. QED
  BY <1>1, <1>2, <1>3

\* A step of the job that carries the release
LEMMA JobHandsOn ==
  ASSUME Typed, Line, CacheFresh, log' = log, NEW w \in Watches, NEW k \in Workers,
         JobStep(w, k) \/ MatchFails(w, k),
         stream[w].stage \in Subscribed, w \notin missed', ~ AppGone,
         NEW p \in 1..Len(log), Matches(w, log[p]), stream[w].release < p, told'[w] < p,
         Carries(w, k, p)
  PROVE  Coming(w, p)'
<1>1. /\ job \in [Watches -> [Workers -> Jobs]] /\ job[w][k] \in Jobs /\ p \in Nat /\ p # 0
      /\ job[w][k].ver \in Nat /\ stream[w] \in Streams /\ told \in [Watches -> Cursors]
      /\ cache \in [ver : Cursors \cup {None}, late : BOOLEAN]
  <2>1. TypeOK /\ Cursors \subseteq Nat
    BY Numbers DEF Typed
  <2>2. /\ job \in [Watches -> [Workers -> Jobs]] /\ stream \in [Watches -> Streams]
        /\ told \in [Watches -> Cursors] /\ cache \in [ver : Cursors \cup {None}, late : BOOLEAN]
    BY <2>1 DEF TypeOK
  <2>3. job[w][k] \in Jobs /\ job[w][k].ver \in Cursors /\ stream[w] \in Streams
    BY <2>2 DEF Jobs
  <2>4. p \in Nat /\ p # 0
    BY <2>1, Numbers
  <2>5. QED
    BY <2>1, <2>2, <2>3, <2>4
<1>2. OnItsWay(p) => OnItsWay(p)'
  <2>1. UNCHANGED <<pushed, queue, handler>>
    BY WayUnchanged
  <2>2. QED
    BY <2>1 DEF OnItsWay, NotBegun
<1>3. ASSUME NEW v \in Nat, NEW late, Match(w, k, v, late), Quiet(v, Purged) PROVE Coming(w, p)'
  <2>1. CASE Last(log, w, v) >= p
    BY <1>1, <1>3, <2>1, MatchCarries DEF Coming
  <2>2. CASE OnItsWay(p)
    BY <1>2, <2>2 DEF Coming
  <2>3. QED
    BY <1>3, <2>1, <2>2, ReadEnough
<1>4. CASE ReadCache(w, k)
  <2>1. ~ cache.late /\ cache.ver # None /\ Match(w, k, cache.ver, cache.late)
    BY <1>4 DEF ReadCache
  <2>2. cache.ver \in Nat /\ Quiet(cache.ver, Purged)
    BY <1>1, <2>1 DEF CacheFresh, Cursors
  <2>3. QED
    BY <1>3, <2>1, <2>2
<1>5. CASE FillCache(w, k)
  <2>1. PICK late : /\ Match(w, k, job[w][k].ver, late)
                    /\ late = \E i \in job[w][k].ver + 1..Purged : Purges(i)
                    /\ missed' = IF late THEN missed \cup {w} ELSE missed
    BY <1>5 DEF FillCache
  <2>2. Quiet(job[w][k].ver, Purged)
    BY <2>1 DEF Quiet
  <2>3. QED
    BY <1>1, <1>3, <2>1, <2>2
<1>6. CASE ReadRemote(w, k)
  <2>1. job'[w][k].stage \in {"firstFill", "fill"}
    BY <1>1, <1>6 DEF ReadRemote, Jobs
  <2>2. QED
    BY <2>1, WillReadCarries DEF Coming, WillRead
<1>7. CASE MatchGone(w, k)
  BY <1>7 DEF MatchGone
<1>8. CASE MatchFails(w, k)
  <2>1. CASE RetryLater(w, k)
    BY <2>1, RetryLaterCarries DEF Coming
  <2>2. CASE job[w][k].stage = "first"
    <3>1. PICK c : CompareFirst(w, 0, c)
      BY <1>8, <2>2 DEF MatchFails
    <3>2. 0 # stream[w].release
      BY <1>8, <2>2 DEF MatchFails
    <3>3. QED
      BY <3>1, <3>2, CompareCarries DEF Coming
  <2>3. QED
    BY <1>8, <2>1, <2>2 DEF MatchFails
<1>9. CASE NotifyClosed(w, k)
  BY <1>9 DEF NotifyClosed, Closed, Subscribed
<1>10. CASE NotifySent(w, k)
  <2>1. told' = [told EXCEPT ![w] = Matched(w, job[w][k].ver)] /\ job[w][k].stage = "send"
    BY <1>10 DEF NotifySent
  <2>2. told'[w] = Matched(w, job[w][k].ver)
    BY <1>1, <2>1
  <2>3. Matched(w, job[w][k].ver) >= p
    BY <2>1 DEF Carries, WillRead
  <2>4. Matched(w, job[w][k].ver) \in Nat
    <3>1. Last(log, w, job[w][k].ver) \in Nat
      BY <1>1, LastIs
    <3>2. QED
      BY <3>1, MatchedLast
  <2>5. QED
    BY <1>1, <2>2, <2>3, <2>4
<1>11. CASE NotifyFails(w, k)
  BY <1>11, RetryLaterCarries DEF NotifyFails, Coming
<1>12. CASE NotifyNothing(w, k)
  BY <1>12 DEF NotifyNothing
<1>13. QED
  BY <1>4, <1>5, <1>6, <1>7, <1>8, <1>9, <1>10, <1>11, <1>12 DEF JobStep

LEMMA NextJoined ==
  ASSUME Typed, FirstsSubscribe, Belongs, Joined, Next
  PROVE  Joined'
<1>1. SUFFICES ASSUME NEW w \in Watches, stream'[w].stage \in Subscribed \cup {"closed"}
               PROVE  w \in members'
  BY DEF Joined
<1>2. StreamMoved(w)
  BY NextStream
<1>3. CASE IsLetIn(w)
  BY <1>3 DEF IsLetIn
<1>4. CASE ~ IsLetIn(w)
  <2>1. stream[w].stage \in Subscribed \cup {"closed"}
    BY <1>1, <1>2, <1>4
       DEF StreamMoved, Same, Comes, IsSubscribed, Fails, Ends, Subscribed, Belongs
  <2>2. w \in members
    BY <2>1 DEF Joined
  <2>3. QED
    BY <1>1, <2>2, MembersMove DEF Subscribed
<1>5. QED
  BY <1>3, <1>4

\* The handler begins with the release: every member gets a job.
LEMMA HandlerHandsOn ==
  ASSUME Typed, NEW w \in members, HandleEvent, Matches(w, log[Head(handler.events)])
  PROVE  job'[w]["event"].stage = "match"
<1> DEFINE i == Head(handler.events)
<1>1. job \in [Watches -> [Workers -> Jobs]] /\ w \in Watches /\ "event" \in Workers
  BY DEF Typed, TypeOK, Workers
<1>2. log[i].kind = "publish"
  BY DEF Matches
<1>3. w \in IF log[i].kind = "delete" THEN {} ELSE Concerned(log[i])
  BY <1>2 DEF Concerned
<1>4. PICK ws : /\ w \in ws
                /\ job' = [u \in Watches |->
                             IF u \in ws THEN [job[u] EXCEPT !["event"] = Job("match", i)] ELSE job[u]]
  BY <1>3 DEF HandleEvent
<1>5. job'[w]["event"] = Job("match", i)
  BY <1>1, <1>4
<1>6. QED
  BY <1>5 DEF Job

\* A step of anyone, while the sidecar stays subscribed
LEMMA HandedOn ==
  ASSUME Typed, Up, Line, FirstsSubscribe, CacheFresh, Belongs, Next, log' = log,
         NEW w \in members, w \in members', w \notin missed',
         stream[w].stage \in Subscribed, stream'[w].stage \in Subscribed, ~ AppGone,
         NEW p \in 1..Len(log), Matches(w, log[p]), stream[w].release < p, told'[w] < p,
         Coming(w, p)
  PROVE  Coming(w, p)'
<1>1. /\ w \in Watches /\ p \in Nat /\ "event" \in Workers /\ "retry" \in Workers
      /\ stream \in [Watches -> Streams]
  BY Numbers DEF Typed, TypeOK, Workers
<1>2. CASE OnItsWay(p)
  <2>1. CASE HandleEvent /\ p = Head(handler.events)
    <3>1. job'[w]["event"].stage = "match"
      BY <2>1, HandlerHandsOn
    <3>2. QED
      BY <1>1, <3>1, WillReadCarries DEF Coming, WillRead
  <2>2. CASE SkipEvent /\ p = Head(handler.events)
    <3>1. Concerned(log[p]) = members
      BY DEF Matches, Concerned
    <3>2. QED
      BY <2>2, <3>1 DEF SkipEvent
  <2>3. QED
    BY <1>1, <1>2, <2>1, <2>2, StaysOnItsWay DEF Coming
<1>3. CASE retry[w] # None \/ retrying[w] # None
  <2>1. CASE HandleEvent /\ log[Head(handler.events)].kind = "delete"
    <3>1. handler.events # <<>> /\ handler.events \in Seq(Nat)
      BY <2>1, Lists DEF HandleEvent
    <3>2. /\ Head(handler.events) \in 1..Purged
      <4>1. Head(handler.events) \in Events
        BY <3>1 DEF Typed, TypeOK
      <4>2. Head(handler.events) <= observer.start /\ Head(handler.events) \in Nat
        BY <3>1, Numbers, UpToTail DEF Typed, Line, Passing
      <4>3. Purged \in Nat /\ observer.start <= Purged /\ observer.start \in Nat
        BY PurgedIs, Numbers DEF Typed, Line
      <4>4. QED
        BY <4>1, <4>2, <4>3 DEF Events
    <3>3. QED
      BY <2>1, <3>2 DEF AppGone
  <2>2. CASE DeleteInstance(w)
    BY <2>2 DEF DeleteInstance, Subscribed
  <2>3. CASE job'[w]["retry"].stage = "match"
    BY <1>1, <2>3, WillReadCarries DEF Coming, WillRead
  <2>4. CASE retry'[w] # None \/ retrying'[w] # None
    BY <2>4 DEF Coming, Carried
  <2>5. QED
    BY <1>1, <1>3, <2>1, <2>2, <2>3, <2>4, RetryKept
<1>4. ASSUME NEW k \in Workers, Carries(w, k, p) PROVE Coming(w, p)'
  <2>1. CASE JobStep(w, k) \/ MatchFails(w, k)
    BY <1>1, <1>4, <2>1, JobHandsOn
  <2>2. CASE job'[w][k] = job[w][k]
    <3>1. Matched(w, job[w][k].ver)' = Matched(w, job[w][k].ver)
      <4>1. Matched(w, job[w][k].ver)' = Last(log', w, job'[w][k].ver)
        BY DEF Matched, Last
      <4>2. QED
        BY <2>2, <4>1, MatchedLast
    <3>2. QED
      BY <1>4, <2>2, <3>1 DEF Carries, Carried, Coming
  <2>3. CASE job'[w][k].stage \in WillRead
    BY <2>3, WillReadCarries DEF Coming
  <2>4. CASE SubscribeFails(w)
    <3>1. stream'[w].stage = "failed"
      BY <1>1, <2>4 DEF SubscribeFails, Streams
    <3>2. QED
      BY <3>1 DEF Subscribed
  <2>5. QED
    BY <1>1, <2>1, <2>2, <2>3, <2>4, JobBecomes
<1>5. QED
  BY <1>2, <1>3, <1>4 DEF Coming, Carried

LEMMA NextInformed ==
  ASSUME WayInv, ReadInLog, Next, NEW w \in Watches, Heard(w), Informed(w)
  PROVE  Informed(w)'
<1> USE DEF WayInv, Inv, Line
<1>1. /\ Due(w) \in 0..Len(log) /\ Due(w)' \in 0..Len(log') /\ Due(w) <= Due(w)'
      /\ Due(w) # 0 => Matches(w, log[Due(w)])
      /\ Due(w)' = Due(w) \/ Due(w)' > Len(log)
      /\ Len(log) \in Nat /\ Len(log') \in Nat
  BY DueMoves, LogMoves
<1>2. told[w] \in Nat /\ told'[w] \in Nat /\ stream[w] \in Streams /\ stream[w].release \in Nat
  <2>1. TypeOK'
    BY NextTyped DEF Typed
  <2>2. told[w] \in Cursors /\ told'[w] \in Cursors /\ stream[w] \in Streams
    BY <2>1 DEF Typed, TypeOK
  <2>3. stream[w].release \in Cursors
    BY <2>2 DEF Streams
  <2>4. QED
    BY <2>2, <2>3 DEF Cursors
<1>3. SUFFICES ASSUME w \in members' \ missed', stream'[w].stage \in Subscribed, ~ AppGone',
                      told'[w] < Due(w)'
               PROVE  Coming(w, Due(w))'
  BY <1>1, <1>2 DEF Informed
<1>4. CASE Fire /\ Due(w)' # Due(w)
  <2>1. pushed' = pushed /\ pushed <= Len(log) /\ pushed \in Nat
    <3>1. pushed' = pushed
      BY <1>4 DEF Fire, pipelineVars
    <3>2. pushed <= observer.start /\ observer.start <= Purged /\ Purged <= Len(log) /\ Purged \in Nat
      BY PurgedIs DEF Typed, Passing
    <3>3. QED
      BY <1>1, <3>1, <3>2, Numbers DEF Typed
  <2>2. Due(w)' > pushed'
    BY <1>1, <1>4, <2>1
  <2>3. QED
    BY <2>2 DEF Coming, OnItsWay
<1>5. CASE Fire /\ Due(w)' = Due(w)
  <2>1. /\ UNCHANGED <<stream, job, members, missed, told, retry, retrying, pushed, queue, handler,
                       observer>>
    BY <1>5 DEF Fire, pipelineVars, appVars, retryVars, historyVars
  <2>2. ~ AppGone
    BY <1>3, AppGoneStays
  <2>3. Coming(w, Due(w))
    BY <1>1, <1>2, <1>3, <1>5, <2>1, <2>2 DEF Informed
  <2>4. PICK p \in Nat : p = Due(w) /\ p = Due(w)'
    BY <1>1, <1>5
  <2>5. Coming(w, p)'
    <3>1. CASE OnItsWay(p)
      BY <2>1, <3>1 DEF Coming, OnItsWay, NotBegun
    <3>2. CASE retry[w] # None \/ retrying[w] # None
      BY <2>1, <3>2 DEF Coming, Carried
    <3>3. ASSUME NEW k \in Workers, Carries(w, k, p) PROVE Carries(w, k, p)'
      <4>1. PICK v \in Nat : v = job[w][k].ver /\ v <= Len(log)
        <5>1. SidecarTypes
          BY DEF Typed, TypeOK, SidecarTypes
        <5>2. job[w][k].ver \in Cursors
          BY <5>1, CursorOf
        <5>3. QED
          BY <5>2 DEF ReadInLog, Cursors
      <4>2. \A i \in 1..v : log'[i] = log[i]
        BY <1>1, <4>1, LogGrows
      <4>3. Last(log', w, v) = Last(log, w, v)
        BY <4>2, LastSame
      <4>4. Matched(w, job[w][k].ver)' = Last(log', w, job'[w][k].ver) /\ job' = job
        BY <2>1 DEF Matched, Last
      <4>5. Matched(w, job[w][k].ver)' = Matched(w, job[w][k].ver)
        BY <4>1, <4>3, <4>4, MatchedLast
      <4>6. QED
        BY <3>3, <4>4, <4>5 DEF Carries
    <3>4. QED
      BY <2>3, <2>4, <3>1, <3>2, <3>3 DEF Coming, Carried
  <2>6. QED
    BY <2>4, <2>5
<1>6. CASE log' = log /\ w \notin members
  <2>1. AddSidecar(w)
    BY <1>3, <1>6, MembersMove
  <2>2. job' = [job EXCEPT ![w]["subscribe"] = Job("added", 0)]
    BY <2>1 DEF AddSidecar, AddMember
  <2>3. job'[w]["subscribe"].stage = "added" /\ "subscribe" \in Workers
    BY <2>2 DEF Typed, TypeOK, Workers, Job
  <2>4. QED
    BY <2>3, WillReadCarries DEF Coming, WillRead
<1>7. CASE log' = log /\ w \in members
  <2>1. Due(w)' = Due(w)
    BY <1>7 DEF Due, Matched, Matches
  <2>2. w \notin missed /\ ~ AppGone
    BY <1>3, MissedGrows, AppGoneStays
  <2>3. stream[w].stage \in Subscribed
    BY <1>3, <1>7, NextStream
       DEF StreamMoved, Same, Comes, IsLetIn, IsSubscribed, Fails, Ends, Subscribed, Belongs
  <2>4. PICK p \in Nat : p = Due(w)
    BY <1>1
  <2>5. p = Due(w)'
    BY <2>1, <2>4
  <2>6. told[w] < p
    <3>1. told'[w] < told[w] => w \in missed'
      BY <1>2, <2>3, ToldBecomes DEF Subscribed
    <3>2. QED
      BY <1>2, <1>3, <2>5, <3>1
  <2>7. stream[w].release < p
    BY <1>2, <2>2, <2>6 DEF Heard
  <2>8. p \in 1..Len(log) /\ Matches(w, log[p])
    BY <1>1, <1>2, <2>4, <2>6
  <2>9. Coming(w, p)
    BY <1>2, <1>7, <2>2, <2>3, <2>4, <2>6 DEF Informed
  <2>10. Coming(w, p)'
    BY <1>3, <1>7, <2>2, <2>3, <2>5, <2>7, <2>8, <2>9, HandedOn
  <2>11. QED
    BY <2>5, <2>10
<1>8. QED
  BY <1>4, <1>5, <1>6, <1>7, OnlyFireLogs

KnowInv == WayInv /\ ReadInLog /\ Joined /\ \A w \in Watches : Heard(w) /\ Informed(w)

\* When all that was fired is handled and nothing of a sidecar is under way, it has heard of the
\* release it matches, unless a step for it has failed for good or come late.  What it has not
\* heard of is on its way, in a job or in a retry list, and each step hands it on.
THEOREM AllIsTold == Spec => []SettledKnows
<1>1. Init => KnowInv
  <2> SUFFICES ASSUME Init PROVE KnowInv
    OBVIOUS
  <2>1. ReadInLog /\ Joined
    BY Bounds DEF Init, ReadInLog, Joined, NoJob, NewStream, Subscribed
  <2>2. ASSUME NEW w \in Watches PROVE Heard(w) /\ Informed(w)
    <3>1. told[w] = 0 /\ stream[w].release = 0 /\ w \notin members
      BY DEF Init, NewStream
    <3>2. Len(log) \in Nat
      BY InitTyped, Numbers DEF Typed
    <3>3. Due(w) >= 0
      BY <3>2, MatchedIs DEF Due
    <3>4. QED
      BY <3>1, <3>3 DEF Heard, Informed
  <2>3. QED
    BY <2>1, <2>2, InitWay DEF KnowInv
<1>2. KnowInv /\ [Next]_vars => KnowInv'
  <2> SUFFICES ASSUME KnowInv, [Next]_vars PROVE KnowInv'
    OBVIOUS
  <2>1. WayInv'
    BY NextWay DEF KnowInv
  <2>2. CASE Next
    <3>1. Typed /\ FirstsSubscribe /\ Belongs
      BY DEF KnowInv, WayInv, Inv
    <3>2. ReadInLog' /\ Joined'
      BY <2>2, <3>1, NextReadInLog, NextJoined DEF KnowInv
    <3>3. ASSUME NEW w \in Watches PROVE Heard(w)' /\ Informed(w)'
      BY <2>2, <3>1, NextHeard, NextInformed DEF KnowInv
    <3>4. QED
      BY <2>1, <3>2, <3>3 DEF KnowInv
  <2>3. CASE UNCHANGED vars
    <3>1. ReadInLog' /\ Joined'
      BY <2>3 DEF KnowInv, ReadInLog, Joined, vars, appVars
    <3>2. ASSUME NEW w \in Watches PROVE Heard(w)' /\ Informed(w)'
      BY <2>3 DEF KnowInv, Heard, Informed, Due, Coming, OnItsWay, NotBegun, In, Carried, Carries,
                  AppGone, Purged, Matched, Matches, vars, pipelineVars, appVars, retryVars, historyVars
    <3>3. QED
      BY <2>1, <3>1, <3>2 DEF KnowInv
  <2>4. QED
    BY <2>2, <2>3
<1>3. KnowInv => SettledKnows
  <2> SUFFICES ASSUME KnowInv, NEW w \in Watches \ missed, stream[w].stage = "on", ~ AppGone,
                      Settled(w)
               PROVE  told[w] = Matched(w, Len(log))
    BY DEF SettledKnows
  <2> USE DEF KnowInv, WayInv, Inv
  <2>1. Due(w) \in Nat /\ told[w] \in Nat /\ Len(log) \in Nat /\ Due(w) <= Len(log)
    <3>1. Len(log) \in Nat /\ told[w] \in Cursors
      BY Numbers DEF Typed, TypeOK
    <3>2. Due(w) \in 0..Len(log)
      BY <3>1, MatchedIs DEF Due
    <3>3. QED
      BY <3>1, <3>2 DEF Cursors
  <2>2. w \in members
    BY DEF Joined, Subscribed
  <2>3. ~ OnItsWay(Due(w))
    <3>1. /\ Purged = Len(log) /\ observer.stage = "list" /\ pipe = <<>> /\ queue = <<>>
          /\ handler.events = <<>>
      BY DEF Settled, Purged
    <3>2. QED
      BY <2>1, <3>1, NothingOnItsWay
  <2>4. ~ Carried(w, Due(w))
    <3>1. /\ \A k \in Workers : job[w][k].stage = "idle"
          /\ retry[w] = None /\ retrying[w] = None
      BY EngagedIs DEF Settled
    <3>2. QED
      BY <3>1 DEF Carried, Carries, WillRead
  <2>5. told[w] >= Due(w) /\ told[w] <= Due(w)
    BY <2>2, <2>3, <2>4 DEF Informed, Subscribed, Coming, Heard
  <2>6. QED
    BY <2>1, <2>5 DEF Due
<1>4. QED
  BY <1>1, <1>2, <1>3, PTL DEF Spec

=============================================================================
