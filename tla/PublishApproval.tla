-------------------------- MODULE PublishApproval ---------------------------
(***************************************************************************)
(* Submitting, approving and publishing the releases of one app            *)
(* (cmd/data-service/service/publish.go and crontab/sync_ticket_status.go, *)
(* internal/dal/dao/publish.go and strategy.go) and the scheduled publish  *)
(* job of cache-service (cache/event/publish.go).  A strategy row is one   *)
(* release order.  The web page, the callback and the polling of the ITSM  *)
(* ticket and the job all change it in the same way: read the row, decide  *)
(* from what was read, commit an UPDATE by id that does not look at the    *)
(* row's status again.                                                     *)
(*                                                                         *)
(* ITSM, the ticket system, is external: its tickets collect the votes of  *)
(* the approvers, end, or are withdrawn, as the code in src/ expects.      *)
(***************************************************************************)
EXTENDS Integers, FiniteSets

CONSTANTS
    Approvals,      \* the approval settings the app may have
    Approvers,      \* app.Spec.Approver
    Creator,        \* who submits the orders, an approver or not
    Calls,          \* Approve requests at a time
    Submitters,     \* submissions at a time
    EnableV4,       \* the deployment talks to ITSM v4
    MaxStrategies,  \* bound: strategy ids are drawn from 1..MaxStrategies
    MaxRequests     \* bound: Approve requests made

ASSUME ApprovalsAssumption == Approvals \subseteq {"none", "or_sign", "count_sign"}
ASSUME ApproversAssumption == IsFiniteSet(Approvers)
ASSUME StrategiesAssumption == MaxStrategies \in Nat \ {0} /\ EnableV4 \in BOOLEAN
ASSUME RequestsAssumption == MaxRequests \in Nat

VARIABLES
    approval,   \* the app's setting: IsApprove and ApproveType
    maxID,      \* id_generators.max_id of the strategy table
    strategy,   \* [Ids -> Rows]: the committed rows
    queue,      \* Redis: ids in the publish time zset
    due,        \* ids whose publish time has come
    late,       \* ids whose FinalApprovalTime is after their PublishTime
    ticket,     \* [Ids -> Tickets]: ITSM
    call,       \* [Calls -> the Approve request under way]
    submit,     \* [Submitters -> the submission under way]
    job,        \* the scheduled publish job
    \* history and bounds
    requests,   \* Approve requests so far
    publishes,  \* [Ids -> Nat]: how often the order was published
    approvedBy, \* [Ids -> SUBSET Approvers]: who approved it, here or on ITSM
    unvetted,   \* orders an API request passed whose right to do so nothing checked
    stale       \* orders written by a request that had read an outdated status

Ids == 1..MaxStrategies
Users == Approvers \cup {Creator}
UnderWay == {"pending_approval", "pending_publish"}
Ended == {"already_publish", "rejected_approval", "revoked_publish"}
Statuses == {"none"} \cup UnderWay \cup Ended
Types == {"manually", "automatically", "scheduled", "immediately"}
TicketStatuses == {"", "created", "revoked", "rejected", "passed"}

Rows == [status : Statuses,
         type : Types,
         progress : SUBSET Users,        \* ApproverProgress
         itsm : TicketStatuses]          \* ItsmTicketStatus
Tickets == [status : {"none", "RUNNING", "FINISHED", "REVOKED"},
            passed : SUBSET Approvers, rejected : SUBSET Approvers]

NoRow == [status |-> "none", type |-> "manually", progress |-> {}, itsm |-> ""]
NoTicket == [status |-> "none", passed |-> {}, rejected |-> {}]

\* Users send requests from the page (operate way "WebUI"), or through the API with another
\* operate way ("api") or with none ("plain"); ITSM's callback and the polling have none either.
Ways == {"web", "api", "plain"}

CallStages == {"idle", "called", "read", "checked"}
Requests == [pc : CallStages, from : Ways \cup {"itsm"}, user : Users, id : Ids,
             want : UnderWay \cup Ended, by : SUBSET Approvers, message : BOOLEAN, row : Rows]
Idle == [pc |-> "idle", from |-> "itsm", user |-> Creator, id |-> 1, want |-> "pending_publish",
         by |-> {}, message |-> FALSE, row |-> NoRow]

Submissions == [pc : {"idle", "checked", "begun"}, last : 0..MaxStrategies,
                lastStatus : Statuses, id : 0..MaxStrategies, type : Types]
NoSubmission == [pc |-> "idle", last |-> 0, lastStatus |-> "none", id |-> 0, type |-> "manually"]

Jobs == [ids : SUBSET Ids, rows : [Ids -> Rows], late : SUBSET Ids]
NoJob == [ids |-> {}, rows |-> [i \in Ids |-> NoRow], late |-> {}]

vars == <<approval, maxID, strategy, queue, due, late, ticket, call, submit, job,
          requests, publishes, approvedBy, unvetted, stale>>

TypeOK ==
    /\ approval \in Approvals
    /\ maxID \in 0..MaxStrategies
    /\ strategy \in [Ids -> Rows]
    /\ queue \subseteq Ids /\ due \subseteq Ids /\ late \subseteq Ids
    /\ ticket \in [Ids -> Tickets]
    /\ call \in [Calls -> Requests]
    /\ submit \in [Submitters -> Submissions]
    /\ job \in Jobs
    /\ requests \in 0..MaxRequests
    /\ publishes \in [Ids -> Nat]
    /\ approvedBy \in [Ids -> SUBSET Approvers]
    /\ unvetted \subseteq Ids /\ stale \subseteq Ids

Init ==
    /\ approval \in Approvals
    /\ maxID = 0
    /\ strategy = [i \in Ids |-> NoRow]
    /\ queue = {} /\ due = {} /\ late = {}
    /\ ticket = [i \in Ids |-> NoTicket]
    /\ call = [c \in Calls |-> Idle]
    /\ submit = [p \in Submitters |-> NoSubmission]
    /\ job = NoJob
    /\ requests = 0
    /\ publishes = [i \in Ids |-> 0]
    /\ approvedBy = [i \in Ids |-> {}]
    /\ unvetted = {} /\ stale = {}

-----------------------------------------------------------------------------
(* SubmitPublishApprove and GenerateReleaseAndPublish. *)

Visible == {i \in Ids : strategy[i].status # "none"}

\* GetLast: the row with the highest id, 0 and "none" when there is no row.
IsLast(i) == i \in {0} \cup Visible /\ \A j \in Visible : j <= i
StatusOf(i) == IF i = 0 THEN "none" ELSE strategy[i].status

submitFrame == <<approval, due, call, job, requests, approvedBy, unvetted>>

\* Mutant of SubmitRead: it looks only for orders that wait for approval.
SubmitReadApprovals(p) ==
    /\ submit[p].pc = "idle"
    /\ \E last \in {i \in 0..MaxStrategies : IsLast(i)} :
         /\ StatusOf(last) # "pending_approval"
         /\ submit' = [submit EXCEPT ![p] = [NoSubmission EXCEPT !.pc = "checked", !.last = last,
                                                !.lastStatus = StatusOf(last)]]
    /\ UNCHANGED <<submitFrame, maxID, strategy, queue, late, ticket, publishes, stale>>

\* The check that no release is under way.
SubmitRead(p) ==
    /\ submit[p].pc = "idle"
    /\ \E last \in {i \in 0..MaxStrategies : IsLast(i)} :
         /\ StatusOf(last) \notin UnderWay
         /\ submit' = [submit EXCEPT ![p] = [NoSubmission EXCEPT !.pc = "checked", !.last = last,
                                                !.lastStatus = StatusOf(last)]]
    /\ UNCHANGED <<submitFrame, maxID, strategy, queue, late, ticket, publishes, stale>>

\* ValidateSubmitPublishContent.
ValidType(type) ==
    IF approval = "none" THEN type \in {"scheduled", "immediately"} ELSE type # "immediately"

\* Mutant of Begin: the row gets the id behind the one that was drawn.
BeginOnePast(p, type) ==
    /\ submit[p].pc = "checked"
    /\ maxID < MaxStrategies
    /\ submit' = [submit EXCEPT ![p].pc = "begun", ![p].id = maxID + 2, ![p].type = type]
    /\ maxID' = maxID + 1
    /\ UNCHANGED <<submitFrame, strategy, queue, late, ticket, publishes, stale>>

\* The transaction up to its commit: it draws the id, puts a scheduled order in the zset and
\* creates the ticket.  Neither is undone by a rollback.
Begin(p, type) ==
    /\ submit[p].pc = "checked"
    /\ maxID < MaxStrategies
    /\ submit' = [submit EXCEPT ![p].pc = "begun", ![p].id = maxID + 1, ![p].type = type]
    /\ queue' = IF type = "scheduled" THEN queue \cup {maxID + 1} ELSE queue
    /\ maxID' = maxID + 1
    /\ ticket' = IF approval = "none" THEN ticket
                 ELSE [ticket EXCEPT ![maxID + 1].status = "RUNNING"]
    /\ UNCHANGED <<submitFrame, strategy, late, publishes, stale>>

SubmitBegin(p) == \E type \in Types : ValidType(type) /\ Begin(p, type)

\* GenerateReleaseAndPublish publishes at once, or as soon as it is approved.
GenerateBegin(p) == Begin(p, IF approval = "none" THEN "immediately" ELSE "automatically")

\* parsePublishOption and genStrategy.
NewRow(type) ==
    [status   |-> IF type = "immediately" THEN "already_publish"
                  ELSE IF approval = "none" THEN "pending_publish" ELSE "pending_approval",
     type     |-> type,
     progress |-> IF approval = "none" THEN {} ELSE Approvers,
     itsm     |-> IF approval = "none" THEN "" ELSE "created"]

SubmitCommit(p) ==
    LET s == submit[p] IN
    /\ s.pc = "begun"
    /\ strategy' = [strategy EXCEPT ![s.id] = NewRow(s.type)]
    /\ late' = late \cup ({s.id} \cap due)
    /\ publishes' = IF s.type = "immediately" THEN [publishes EXCEPT ![s.id] = @ + 1] ELSE publishes
    /\ stale' = IF IsLast(s.last) /\ StatusOf(s.last) = s.lastStatus THEN stale
                ELSE stale \cup {s.id}
    /\ submit' = [submit EXCEPT ![p] = NoSubmission]
    /\ UNCHANGED <<submitFrame, maxID, queue, ticket>>

\* A failure or a crash before the commit.
SubmitFail(p) ==
    /\ submit[p].pc # "idle"
    /\ submit' = [submit EXCEPT ![p] = NoSubmission]
    /\ UNCHANGED <<submitFrame, maxID, strategy, queue, late, ticket, publishes, stale>>

-----------------------------------------------------------------------------
(* Approve, called by users, by the polling of tickets and by the callback of ITSM. *)

callFrame == <<approval, maxID, queue, due, submit, job>>
readFrame == <<callFrame, strategy, late, ticket, publishes, approvedBy, unvetted, stale>>

\* A request begins.
Request(c, r) ==
    /\ call[c].pc = "idle"
    /\ requests < MaxRequests
    /\ requests' = requests + 1
    /\ call' = [call EXCEPT ![c] = r]
    /\ UNCHANGED readFrame

Wants == {"revoked_publish", "rejected_approval", "pending_publish", "already_publish"}

\* What a request without an operate way, as ITSM's are, finds done already: it changes nothing.
Settled(want, row) == row.status \in {want, "pending_publish", "already_publish"}

\* A user's request, up to GetLast.
UserCall(c) ==
    \E i \in Visible, way \in Ways, u \in Users, want \in Wants :
        /\ way = "plain" => ~Settled(want, strategy[i])
        /\ Request(c, [Idle EXCEPT !.pc = "read", !.from = way, !.user = u, !.id = i,
                                   !.want = want, !.row = strategy[i]])

\* GetApproveResult: one rejection rejects; without one, the first approval is a pass.
\* The request is made in the creator's name.
TicketCall(c, i) ==
    LET t == ticket[i]
        rejected == t.rejected # {}
    IN  /\ i \in Visible
        /\ strategy[i].itsm = "created"
        /\ t.passed \cup t.rejected # {}
        /\ Request(c, [Idle EXCEPT !.pc = "called", !.id = i,
                                   !.want = IF rejected THEN "rejected_approval" ELSE "pending_publish",
                                   !.by = IF rejected THEN t.rejected ELSE t.passed])

\* processTicket: the polling of an open ticket; with ITSM v4 it waits for the ticket's end.
SyncTicket(c, i) ==
    /\ strategy[i].status \in UnderWay
    /\ EnableV4 => ticket[i].status # "RUNNING"
    /\ TicketCall(c, i)

\* ApprovalCallback: ITSM calls back when the ticket has ended, late or more than once.
ApprovalCallback(c, i) ==
    /\ ticket[i].status # "RUNNING"
    /\ TicketCall(c, i)

\* Approve reads the row.
ReadStrategy(c) ==
    LET r == call[c]
        row == strategy[r.id]
    IN  /\ r.pc = "called"
        /\ call' = [call EXCEPT ![c] =
                      IF Settled(r.want, row) THEN Idle
                      ELSE [r EXCEPT !.pc = "read", !.row = row]]
        /\ UNCHANGED <<requests, readFrame>>

\* handleRunningStatus.
Running(r, t) ==
    IF r.from = "web" /\ r.want = "revoked_publish" THEN r
    ELSE IF t.rejected # {}
    THEN [r EXCEPT !.want = "rejected_approval", !.by = t.rejected, !.message = TRUE]
    ELSE IF t.passed # {} /\ ~(r.from = "web" /\ r.want = "rejected_approval")
    THEN [r EXCEPT !.want = "pending_publish", !.by = t.passed,
                   !.message = r.from # "web" \/ r.user \in t.passed]
    ELSE r

\* handleTicketStatus.
Checked(r, t) ==
    IF approval = "none" \/ r.want = "already_publish" THEN r
    ELSE CASE t.status = "RUNNING"  -> Running(r, t)
           [] t.status = "FINISHED" -> [r EXCEPT !.message = r.want # "revoked_publish"]
           [] OTHER -> [r EXCEPT !.want = "revoked_publish", !.message = TRUE]

\* A request that is not the page's goes on in the name of an approver who has passed.
Actors(r, t) ==
    IF /\ r.from # "web" /\ r.want # "already_publish"
       /\ t.status = "RUNNING" /\ t.rejected = {} /\ t.passed # {}
    THEN t.passed ELSE {r.user}

CheckTicket(c) ==
    LET r == call[c]
        t == ticket[r.id]
    IN  /\ r.pc = "read"
        /\ \E u \in Actors(r, t) :
             call' = [call EXCEPT ![c] = [Checked(r, t) EXCEPT !.pc = "checked", !.user = u]]
        /\ UNCHANGED <<requests, readFrame>>

\* The page's decision is told to ITSM before the commit; ITSM refuses what the ticket no
\* longer allows, and then the request fails.
Tells(r) == r.from = "web" /\ ~r.message /\ approval # "none" /\ r.row.itsm = "created"

MayVote(i, u) ==
    /\ ticket[i].status = "RUNNING"
    /\ u \in Approvers \ (ticket[i].passed \cup ticket[i].rejected)
    /\ ticket[i].rejected = {}
    /\ approval = "or_sign" => ticket[i].passed = {}

TellItsm(r, told) ==
    IF ~Tells(r) THEN UNCHANGED ticket
    ELSE CASE told = "revoke" -> /\ ticket[r.id].status = "RUNNING"
                                 /\ ticket' = [ticket EXCEPT ![r.id].status = "REVOKED"]
           [] told = "reject" -> /\ MayVote(r.id, r.user)
                                 /\ ticket' = [ticket EXCEPT ![r.id].rejected = @ \cup {r.user}]
           [] told = "pass"   -> /\ MayVote(r.id, r.user)
                                 /\ ticket' = [ticket EXCEPT ![r.id].passed = @ \cup {r.user}]
           [] told = "none"   -> /\ EnableV4 => r.user \in Approvers
                                 /\ UNCHANGED ticket

\* UpdateByID and the commit.
Commit(c, row) ==
    LET i == call[c].id IN
    /\ strategy' = [strategy EXCEPT ![i] = row]
    /\ late' = late \cup ({i} \cap due)
    /\ stale' = IF strategy[i].status = call[c].row.status THEN stale ELSE stale \cup {i}
    /\ publishes' = IF row.status = "already_publish" THEN [publishes EXCEPT ![i] = @ + 1]
                    ELSE publishes
    /\ call' = [call EXCEPT ![c] = Idle]
    /\ UNCHANGED <<requests, callFrame>>

Decides(c, want) == call[c].pc = "checked" /\ call[c].want = want

\* Mutant of RevokeApprove: the status is not looked at.
RevokeApproveAnytime(c) ==
    LET r == call[c] IN
    /\ Decides(c, "revoked_publish")
    /\ TellItsm(r, "revoke")
    /\ Commit(c, [strategy[r.id] EXCEPT !.status = "revoked_publish", !.progress = {Creator},
                                        !.itsm = "revoked"])
    /\ UNCHANGED <<approvedBy, unvetted>>

RevokeApprove(c) ==
    LET r == call[c] IN
    /\ Decides(c, "revoked_publish")
    /\ r.row.status \in UnderWay
    /\ TellItsm(r, "revoke")
    /\ Commit(c, [strategy[r.id] EXCEPT !.status = "revoked_publish", !.progress = {Creator},
                                        !.itsm = "revoked"])
    /\ UNCHANGED <<approvedBy, unvetted>>

\* rejectApprove: who is named as the one who rejected.  The request's own user comes first.
Rejectors(r) ==
    IF r.user \in r.row.progress THEN {r.user} ELSE r.row.progress \cap r.by

\* Mutant of RejectApprove: the status is not looked at.
RejectApproveAnytime(c) ==
    LET r == call[c] IN
    /\ Decides(c, "rejected_approval")
    /\ \E rejector \in Rejectors(r) :
         Commit(c, [strategy[r.id] EXCEPT !.status = "rejected_approval",
                                          !.progress = {rejector}, !.itsm = "rejected"])
    /\ TellItsm(r, "reject")
    /\ UNCHANGED <<approvedBy, unvetted>>

RejectApprove(c) ==
    LET r == call[c] IN
    /\ Decides(c, "rejected_approval")
    /\ r.row.status = "pending_approval"
    /\ \E rejector \in Rejectors(r) :
         Commit(c, [strategy[r.id] EXCEPT !.status = "rejected_approval",
                                          !.progress = {rejector}, !.itsm = "rejected"])
    /\ TellItsm(r, "reject")
    /\ UNCHANGED <<approvedBy, unvetted>>

\* passApprove: the approvers who are still asked.
Remaining(r) == r.row.progress \ (r.by \cup {r.user})

\* Only the page's user has to be one of them.
MayPass(r) == /\ r.row.status = "pending_approval"
              /\ r.from = "web" => r.user \in r.row.progress

\* Mutant of Passes: a countersign passes with one approver missing.
PassesOneEarly(r) ==
    \/ approval = "or_sign"
    \/ Approvers = {r.user}
    \/ Cardinality(Remaining(r)) <= 1
    \/ r.from \in {"plain", "itsm"}

\* One approver is enough, the last one has approved, or ITSM says so, as the code takes it
\* from a request without an operate way.
Passes(r) ==
    \/ approval = "or_sign"
    \/ Approvers = {r.user}
    \/ Remaining(r) = {}
    \/ r.from \in {"plain", "itsm"}

\* An API request that passes the order although its user is not asked, or has no say alone.
Unvetted(r) ==
    /\ Passes(r)
    /\ \/ r.from \in {"api", "plain"} /\ r.user \notin r.row.progress
       \/ r.from = "plain" /\ approval = "count_sign"

Approves(r) == approvedBy' = [approvedBy EXCEPT ![r.id] = @ \cup ({r.user} \cap Approvers)]

PassApprove(c) ==
    LET r == call[c] IN
    /\ Decides(c, "pending_publish")
    /\ MayPass(r)
    /\ TellItsm(r, "pass")
    /\ Commit(c, IF ~Passes(r) THEN [strategy[r.id] EXCEPT !.status = "pending_approval",
                                                          !.progress = Remaining(r)]
                 ELSE [strategy[r.id] EXCEPT
                         !.status = IF r.row.type = "automatically" THEN "already_publish"
                                    ELSE "pending_publish",
                         !.progress = IF approval = "or_sign" THEN {r.user} ELSE Approvers,
                         !.itsm = "passed"])
    /\ IF r.from = "itsm" THEN UNCHANGED approvedBy ELSE Approves(r)
    /\ unvetted' = IF Unvetted(r) THEN unvetted \cup {r.id} ELSE unvetted

\* Mutant of PublishApprove: a published order may be published again.
PublishApproveAgain(c) ==
    LET r == call[c] IN
    /\ Decides(c, "already_publish")
    /\ r.row.status \in {"pending_publish", "already_publish"}
    /\ TellItsm(r, "none")
    /\ Commit(c, [strategy[r.id] EXCEPT !.status = "already_publish"])
    /\ UNCHANGED <<approvedBy, unvetted>>

PublishApprove(c) ==
    LET r == call[c] IN
    /\ Decides(c, "already_publish")
    /\ r.row.status = "pending_publish"
    /\ TellItsm(r, "none")
    /\ Commit(c, [strategy[r.id] EXCEPT !.status = "already_publish"])
    /\ UNCHANGED <<approvedBy, unvetted>>

\* The request is refused, or it fails.
ApproveFails(c) ==
    /\ call[c].pc # "idle"
    /\ call' = [call EXCEPT ![c] = Idle]
    /\ UNCHANGED <<requests, readFrame>>

\* ITSM was told, and the commit fails.
CommitFails(c) ==
    LET r == call[c] IN
    /\ Tells(r)
    /\ \/ /\ Decides(c, "revoked_publish") /\ r.row.status \in UnderWay
          /\ TellItsm(r, "revoke")
          /\ UNCHANGED approvedBy
       \/ /\ Decides(c, "rejected_approval") /\ r.row.status = "pending_approval"
          /\ Rejectors(r) # {}
          /\ TellItsm(r, "reject")
          /\ UNCHANGED approvedBy
       \/ /\ Decides(c, "pending_publish") /\ MayPass(r)
          /\ TellItsm(r, "pass")
          /\ Approves(r)
    /\ call' = [call EXCEPT ![c] = Idle]
    /\ UNCHANGED <<requests, callFrame, strategy, late, publishes, unvetted, stale>>

-----------------------------------------------------------------------------
(* The scheduled publish job: updateStrategy. *)

jobFrame == <<approval, maxID, due, ticket, call, submit, requests, approvedBy, unvetted>>

\* Mutant of JobRead: the ids leave the zset when they are read.
JobReadPops ==
    /\ job.ids = {}
    /\ queue \cap due # {}
    /\ job' = [ids |-> queue \cap due, rows |-> strategy, late |-> late]
    /\ queue' = queue \ due
    /\ UNCHANGED <<jobFrame, strategy, late, publishes, stale>>

\* GetPublishTime and GetStrategyByIDs, outside the transaction.
JobRead ==
    /\ job.ids = {}
    /\ queue \cap due # {}
    /\ job' = [ids |-> queue \cap due, rows |-> strategy, late |-> late]
    /\ UNCHANGED <<jobFrame, strategy, queue, late, publishes, stale>>

Scheduled == {i \in job.ids : job.rows[i].type = "scheduled"}

\* Not approved in time: a user has to publish it.
Demoted ==
    {i \in Scheduled : \/ job.rows[i].status = "pending_approval"
                       \/ /\ job.rows[i].status = "pending_publish"
                          /\ i \in job.late /\ approval # "none"}

Launched == {i \in Scheduled \ Demoted : job.rows[i].status = "pending_publish"}

\* The commit; then every id that was read leaves the zset, unless that fails.
JobCommit ==
    /\ job.ids # {}
    /\ strategy' = [i \in Ids |->
          CASE i \in Demoted  -> [strategy[i] EXCEPT !.type = "manually"]
            [] i \in Launched -> [strategy[i] EXCEPT !.status = "already_publish"]
            [] OTHER          -> strategy[i]]
    /\ late' = late \cup Demoted \cup Launched
    /\ publishes' = [i \in Ids |-> IF i \in Launched THEN publishes[i] + 1 ELSE publishes[i]]
    /\ stale' = stale \cup {i \in Launched : strategy[i].status # job.rows[i].status}
    /\ \/ queue' = queue \ job.ids
       \/ UNCHANGED queue
    /\ job' = NoJob
    /\ UNCHANGED jobFrame

JobFails ==
    /\ job.ids # {}
    /\ job' = NoJob
    /\ UNCHANGED <<jobFrame, strategy, queue, late, publishes, stale>>

-----------------------------------------------------------------------------
(* ITSM and the clock. *)

itsmFrame == <<approval, maxID, strategy, queue, late, call, submit, job, requests,
               publishes, unvetted, stale>>

VotePass(i, u) ==
    /\ MayVote(i, u)
    /\ ticket' = [ticket EXCEPT ![i].passed = @ \cup {u}]
    /\ approvedBy' = [approvedBy EXCEPT ![i] = @ \cup {u}]
    /\ UNCHANGED <<itsmFrame, due>>

VoteReject(i, u) ==
    /\ MayVote(i, u)
    /\ ticket' = [ticket EXCEPT ![i].rejected = @ \cup {u}]
    /\ UNCHANGED <<itsmFrame, due, approvedBy>>

\* All votes the ticket needs are there.
Decided(i) ==
    \/ ticket[i].rejected # {}
    \/ approval = "or_sign" /\ ticket[i].passed # {}
    \/ ticket[i].passed = Approvers

TicketEnds(i) ==
    /\ ticket[i].status = "RUNNING"
    /\ Decided(i)
    /\ ticket' = [ticket EXCEPT ![i].status = "FINISHED"]
    /\ UNCHANGED <<itsmFrame, due, approvedBy>>

Withdraw(i) ==
    /\ ticket[i].status = "RUNNING"
    /\ ticket' = [ticket EXCEPT ![i].status = "REVOKED"]
    /\ UNCHANGED <<itsmFrame, due, approvedBy>>

\* The publish time of a scheduled order comes.
PublishTime(i) ==
    /\ i \in queue \ due
    /\ due' = due \cup {i}
    /\ UNCHANGED <<itsmFrame, ticket, approvedBy>>

-----------------------------------------------------------------------------

Submitting(p) ==
    SubmitRead(p) \/ SubmitBegin(p) \/ GenerateBegin(p) \/ SubmitCommit(p) \/ SubmitFail(p)

Approving(c) ==
    \/ UserCall(c) \/ ReadStrategy(c) \/ CheckTicket(c)
    \/ \E i \in Ids : SyncTicket(c, i) \/ ApprovalCallback(c, i)
    \/ RevokeApprove(c) \/ RejectApprove(c) \/ PassApprove(c) \/ PublishApprove(c)
    \/ ApproveFails(c) \/ CommitFails(c)

Environment ==
    \E i \in Ids : \/ TicketEnds(i) \/ Withdraw(i) \/ PublishTime(i)
                   \/ \E u \in Approvers : VotePass(i, u) \/ VoteReject(i, u)

Next ==
    \/ \E p \in Submitters : Submitting(p)
    \/ \E c \in Calls : Approving(c)
    \/ JobRead \/ JobCommit \/ JobFails
    \/ Environment

Spec == Init /\ [][Next]_vars

-----------------------------------------------------------------------------
(* What the approval flow promises. *)

\* One release is under way at a time (the check of SubmitPublishApprove), unless some request
\* wrote over a status it had not seen.
OneInFlight ==
    stale = {} => \A i, j \in Ids : {strategy[i].status, strategy[j].status} \subseteq UnderWay
                                       => i = j

\* An order is published once, and then it says so; a revoked or rejected one never was.
PublishedOnce ==
    \A i \in Ids \ stale : publishes[i] = IF strategy[i].status = "already_publish" THEN 1 ELSE 0

\* A revoked order was never published: "only orders that wait for publishing or for approval
\* may be revoked" (revokeApprove), and what was revoked is never published afterwards.
RevokedNeverPublished ==
    \A i \in Ids : strategy[i].status = "revoked_publish" => publishes[i] = 0

\* No order passes before the approvers its app asks for have approved it, on the page, through
\* the API or on ITSM: one of them for an or-sign, all of them for a countersign ("the last
\* one", passApprove).  Left out is only an order that was passed by an API request which
\* passApprove takes for ITSM's, or whose user it does not look for among the approvers.
ApprovedAsRequired ==
    \A i \in Ids \ unvetted :
        approval # "none" /\ strategy[i].status \in {"pending_publish", "already_publish"}
            => IF approval = "or_sign" THEN approvedBy[i] # {} ELSE approvedBy[i] = Approvers

\* A scheduled order that was submitted and approved before its time stays in the zset until
\* the job has published it or handed it to a user, whatever the job does between its reads
\* and its commit.
ScheduledIsQueued ==
    \A i \in Ids \ late : strategy[i].type = "scheduled" /\ strategy[i].status \in UnderWay
                             => i \in queue

\* Requests that overlap lose orders; apart from these the flow is that of ReleaseOrder.
Order == INSTANCE ReleaseOrder WITH
            Orders <- Ids,
            state <- [i \in Ids |-> IF i \in stale THEN "lost" ELSE strategy[i].status]

ImplementsOrder == Order!Spec
=============================================================================
