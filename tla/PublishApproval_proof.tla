----------------------- MODULE PublishApproval_proof ------------------------
(***************************************************************************)
(* Theorems about PublishApproval, for every set of approvers, requests    *)
(* and submissions and every number of orders.                             *)
(***************************************************************************)
EXTENDS PublishApproval, TLAPS

USE ApprovalsAssumption, ApproversAssumption, StrategiesAssumption, RequestsAssumption

-----------------------------------------------------------------------------
(* Types. *)

LEMMA InitTypeOK == Init => TypeOK
<1>1. NoRow \in Rows
  BY DEF NoRow, Rows, Statuses, Types, TicketStatuses
<1>2. NoTicket \in Tickets
  BY DEF NoTicket, Tickets
<1>3. Idle \in Requests
  BY <1>1 DEF Idle, Requests, CallStages, Users, UnderWay, Ids
<1>4. NoSubmission \in Submissions
  BY DEF NoSubmission, Submissions, Statuses, Types
<1>5. NoJob \in Jobs
  BY <1>1 DEF NoJob, Jobs
<1>6. QED
  BY <1>1, <1>2, <1>3, <1>4, <1>5 DEF Init, TypeOK

\* Ids are drawn one at a time, and a row appears only under the id its submission drew.
DrawnIds == \A p \in Submitters : submit[p].pc = "begun" => submit[p].id \in 1..maxID
OwnIds == \A p, q \in Submitters :
             submit[p].pc = "begun" /\ submit[q].pc = "begun" /\ submit[p].id = submit[q].id => p = q
EmptyIds == /\ \A p \in Submitters : submit[p].pc = "begun" => strategy[submit[p].id].status = "none"
            /\ \A i \in Ids : i > maxID => strategy[i].status = "none"
Drawn == DrawnIds /\ OwnIds /\ EmptyIds

\* Requests and the job work on rows that are there.
Seen == /\ \A c \in Calls : call[c].pc # "idle" => strategy[call[c].id].status # "none"
        /\ \A i \in Ids : job.rows[i].status # "none" => strategy[i].status # "none"

RowInv == TypeOK /\ Drawn /\ Seen

\* The two ways to submit begin alike.
LEMMA SubmittingSteps ==
    ASSUME NEW p \in Submitters, Submitting(p)
    PROVE  SubmitRead(p) \/ SubmitBegin(p) \/ SubmitCommit(p) \/ SubmitFail(p)
<1>1. ASSUME GenerateBegin(p) PROVE SubmitBegin(p)
  <2> DEFINE type == IF approval = "none" THEN "immediately" ELSE "automatically"
  <2>1. type \in Types /\ ValidType(type)
    BY DEF Types, ValidType
  <2>2. Begin(p, type)
    BY <1>1 DEF GenerateBegin
  <2>3. QED
    BY <2>1, <2>2 DEF SubmitBegin
<1>2. QED
  BY <1>1 DEF Submitting

\* A submission's step.
LEMMA SubmitTypeOK ==
    ASSUME TypeOK, DrawnIds, NEW p \in Submitters, Submitting(p)
    PROVE  TypeOK'
<1>1. NoSubmission \in Submissions
  BY DEF NoSubmission, Submissions, Statuses, Types
<1>2. /\ submit \in [Submitters -> Submissions] /\ submit[p] \in Submissions
      /\ maxID \in 0..MaxStrategies /\ strategy \in [Ids -> Rows]
      /\ ticket \in [Ids -> Tickets] /\ publishes \in [Ids -> Nat]
      /\ approval \in Approvals
  BY DEF TypeOK
<1>3. CASE SubmitRead(p)
  <2>1. PICK last \in 0..MaxStrategies :
             submit' = [submit EXCEPT ![p] = [NoSubmission EXCEPT !.pc = "checked", !.last = last,
                                                !.lastStatus = StatusOf(last)]]
    BY <1>3 DEF SubmitRead
  <2>2. StatusOf(last) \in Statuses
    BY <1>2 DEF StatusOf, Rows, Ids, Statuses
  <2>3. [NoSubmission EXCEPT !.pc = "checked", !.last = last, !.lastStatus = StatusOf(last)]
          \in Submissions
    BY <1>1, <2>2 DEF Submissions
  <2>4. submit' \in [Submitters -> Submissions]
    BY <1>2, <2>1, <2>3
  <2>5. QED
    BY <1>3, <2>4 DEF SubmitRead, submitFrame, TypeOK
<1>4. CASE SubmitBegin(p)
  <2>1. maxID + 1 \in Ids /\ maxID' = maxID + 1
    BY <1>2, <1>4 DEF SubmitBegin, Begin, Ids
  <2>2. PICK type \in Types :
          /\ submit' = [submit EXCEPT ![p].pc = "begun", ![p].id = maxID + 1, ![p].type = type]
          /\ queue' = IF type = "scheduled" THEN queue \cup {maxID + 1} ELSE queue
    BY <1>4 DEF SubmitBegin, Begin
  <2>3. maxID + 1 \in 0..MaxStrategies
    BY <2>1 DEF Ids
  <2>4. submit' \in [Submitters -> Submissions]
    BY <1>2, <2>2, <2>3 DEF Submissions
  <2>5. ticket' \in [Ids -> Tickets]
    BY <1>2, <1>4, <2>1 DEF SubmitBegin, Begin, Tickets
  <2>6. QED
    BY <1>4, <2>1, <2>2, <2>3, <2>4, <2>5 DEF SubmitBegin, Begin, submitFrame, TypeOK
<1>5. CASE SubmitCommit(p)
  <2> DEFINE s == submit[p]
  <2>1. s.id \in Ids /\ s.type \in Types
    BY <1>2, <1>5 DEF SubmitCommit, DrawnIds, Ids, Submissions
  <2>2. NewRow(s.type) \in Rows
    BY <2>1 DEF NewRow, Rows, Statuses, UnderWay, Ended, Users, TicketStatuses
  <2>3. strategy' \in [Ids -> Rows]
    BY <1>2, <1>5, <2>2 DEF SubmitCommit
  <2>4. publishes' \in [Ids -> Nat]
    BY <1>2, <1>5, <2>1 DEF SubmitCommit
  <2>5. late' \subseteq Ids /\ stale' \subseteq Ids
    BY <1>5, <2>1 DEF SubmitCommit, TypeOK
  <2>6. submit' \in [Submitters -> Submissions]
    BY <1>1, <1>2, <1>5 DEF SubmitCommit
  <2>7. QED
    BY <1>5, <2>3, <2>4, <2>5, <2>6 DEF SubmitCommit, submitFrame, TypeOK
<1>6. CASE SubmitFail(p)
  BY <1>1, <1>6 DEF SubmitFail, submitFrame, TypeOK
<1>7. QED
  BY <1>3, <1>4, <1>5, <1>6, SubmittingSteps

LEMMA IdleType == TypeOK => Idle \in Requests
<1>1. NoRow \in Rows
  BY DEF NoRow, Rows, Statuses, Types, TicketStatuses
<1>2. QED
  BY <1>1 DEF Idle, Requests, CallStages, Users, UnderWay, Ids

\* A request that begins.
LEMMA RequestTypeOK ==
    ASSUME TypeOK, NEW c \in Calls, NEW r \in Requests, Request(c, r)
    PROVE  TypeOK'
BY DEF Request, readFrame, callFrame, TypeOK

LEMMA TicketCallTypeOK ==
    ASSUME TypeOK, NEW c \in Calls, NEW i \in Ids, TicketCall(c, i)
    PROVE  TypeOK'
<1> DEFINE t == ticket[i]
           w == IF t.rejected # {} THEN "rejected_approval" ELSE "pending_publish"
           b == IF t.rejected # {} THEN t.rejected ELSE t.passed
<1>1. w \in UnderWay \cup Ended /\ b \in SUBSET Approvers
  BY DEF TypeOK, Tickets, UnderWay, Ended
<1>2. Request(c, [Idle EXCEPT !.pc = "called", !.id = i, !.want = w, !.by = b])
  BY DEF TicketCall
<1> HIDE DEF w, b
<1>3. [Idle EXCEPT !.pc = "called", !.id = i, !.want = w, !.by = b] \in Requests
  BY <1>1, IdleType DEF Requests, CallStages
<1>4. QED
  BY <1>2, <1>3, RequestTypeOK

LEMMA UserCallTypeOK ==
    ASSUME TypeOK, NEW c \in Calls, UserCall(c)
    PROVE  TypeOK'
<1>1. PICK i \in Visible, way \in Ways, u \in Users, want \in Wants :
        Request(c, [Idle EXCEPT !.pc = "read", !.from = way, !.user = u, !.id = i,
                                !.want = want, !.row = strategy[i]])
  BY DEF UserCall
<1>2. i \in Ids /\ want \in UnderWay \cup Ended /\ strategy[i] \in Rows
  BY DEF Visible, Wants, UnderWay, Ended, TypeOK
<1>3. [Idle EXCEPT !.pc = "read", !.from = way, !.user = u, !.id = i,
                   !.want = want, !.row = strategy[i]] \in Requests
  BY <1>2, IdleType DEF Requests, CallStages
<1>4. QED
  BY <1>1, <1>3, RequestTypeOK

\* What handleTicketStatus makes of a request.
LEMMA CheckedType ==
    ASSUME NEW r \in Requests, NEW t \in Tickets
    PROVE  /\ Checked(r, t) \in Requests
           /\ Checked(r, t).pc = r.pc /\ Checked(r, t).id = r.id
           /\ Checked(r, t).row = r.row /\ Checked(r, t).from = r.from
<1> USE DEF Requests
<1>1. t.passed \in SUBSET Approvers /\ t.rejected \in SUBSET Approvers
  BY DEF Tickets
<1>2. {"revoked_publish", "rejected_approval", "pending_publish"} \subseteq UnderWay \cup Ended
  BY DEF UnderWay, Ended
<1>3. /\ Running(r, t) \in Requests
      /\ Running(r, t).pc = r.pc /\ Running(r, t).id = r.id
      /\ Running(r, t).row = r.row /\ Running(r, t).from = r.from
  BY <1>1, <1>2 DEF Running
<1>4. QED
  BY <1>2, <1>3 DEF Checked

LEMMA CheckTicketTypeOK ==
    ASSUME TypeOK, NEW c \in Calls, CheckTicket(c)
    PROVE  TypeOK'
<1> DEFINE r == call[c]
           t == ticket[r.id]
<1>1. r \in Requests /\ t \in Tickets
  BY DEF TypeOK, Requests
<1>2. Actors(r, t) \subseteq Users
  BY <1>1 DEF Actors, Requests, Tickets, Users
<1>3. PICK u \in Actors(r, t) :
        call' = [call EXCEPT ![c] = [Checked(r, t) EXCEPT !.pc = "checked", !.user = u]]
  BY DEF CheckTicket
<1>4. Checked(r, t) \in Requests /\ u \in Users
  BY <1>1, <1>2, CheckedType
<1>5. [Checked(r, t) EXCEPT !.pc = "checked", !.user = u] \in Requests
  BY <1>4 DEF Requests, CallStages
<1>6. QED
  BY <1>3, <1>5 DEF CheckTicket, readFrame, callFrame, TypeOK

\* The commit of a row.
LEMMA CommitTypeOK ==
    ASSUME TypeOK, NEW c \in Calls, NEW row \in Rows, Commit(c, row),
           ticket' \in [Ids -> Tickets], approvedBy' \in [Ids -> SUBSET Approvers],
           unvetted' \subseteq Ids
    PROVE  TypeOK'
<1>1. call[c].id \in Ids
  BY DEF TypeOK, Requests
<1>2. publishes' \in [Ids -> Nat]
  BY <1>1 DEF Commit, TypeOK
<1>3. strategy' \in [Ids -> Rows]
  BY <1>1 DEF Commit, TypeOK
<1>4. call' \in [Calls -> Requests]
  BY IdleType DEF Commit, TypeOK
<1>5. QED
  BY <1>1, <1>2, <1>3, <1>4 DEF Commit, callFrame, TypeOK

LEMMA TellItsmType ==
    ASSUME TypeOK, NEW r \in Requests, NEW told \in {"revoke", "reject", "pass", "none"}, TellItsm(r, told)
    PROVE  ticket' \in [Ids -> Tickets]
<1>1. CASE ~Tells(r)
  BY <1>1 DEF TellItsm, TypeOK
<1>2. CASE Tells(r)
  <2>1. ticket \in [Ids -> Tickets] /\ r.id \in Ids
    BY DEF TypeOK, Requests
  <2>2. CASE told = "revoke"
    BY <1>2, <2>1, <2>2 DEF TellItsm, Tickets
  <2>3. CASE told = "reject"
    <3>1. r.user \in Approvers /\ ticket' = [ticket EXCEPT ![r.id].rejected = @ \cup {r.user}]
      BY <1>2, <2>3 DEF TellItsm, MayVote
    <3>2. ticket[r.id].rejected \cup {r.user} \in SUBSET Approvers
      BY <2>1, <3>1 DEF Tickets
    <3>3. QED
      BY <2>1, <3>1, <3>2 DEF Tickets
  <2>4. CASE told = "pass"
    <3>1. r.user \in Approvers /\ ticket' = [ticket EXCEPT ![r.id].passed = @ \cup {r.user}]
      BY <1>2, <2>4 DEF TellItsm, MayVote
    <3>2. ticket[r.id].passed \cup {r.user} \in SUBSET Approvers
      BY <2>1, <3>1 DEF Tickets
    <3>3. QED
      BY <2>1, <3>1, <3>2 DEF Tickets
  <2>5. CASE told = "none"
    BY <1>2, <2>1, <2>5 DEF TellItsm
  <2>6. QED
    BY <2>2, <2>3, <2>4, <2>5
<1>3. QED
  BY <1>1, <1>2

LEMMA DecideTypeOK ==
    ASSUME TypeOK, NEW c \in Calls,
           \/ RevokeApprove(c) \/ RejectApprove(c) \/ PassApprove(c) \/ PublishApprove(c)
    PROVE  TypeOK'
<1> DEFINE r == call[c]
           now == strategy[r.id]
<1>1. r \in Requests /\ r.id \in Ids /\ r.row \in Rows /\ now \in Rows
  BY DEF TypeOK, Requests
<1>2. r.user \in Users /\ r.by \subseteq Users /\ r.row.progress \subseteq Users
      /\ Approvers \subseteq Users /\ Creator \in Users
  BY <1>1 DEF Requests, Rows, Users
<1>3. approvedBy \in [Ids -> SUBSET Approvers] /\ unvetted \subseteq Ids
  BY DEF TypeOK
<1>4. CASE RevokeApprove(c)
  <2>1. [now EXCEPT !.status = "revoked_publish", !.progress = {Creator}, !.itsm = "revoked"]
          \in Rows
    BY <1>1, <1>2 DEF Rows, Statuses, Ended, TicketStatuses
  <2>2. QED
    BY <1>1, <1>3, <1>4, <2>1, CommitTypeOK, TellItsmType DEF RevokeApprove
<1>5. CASE RejectApprove(c)
  <2>1. PICK rejector \in Rejectors(r) :
             Commit(c, [strategy[r.id] EXCEPT !.status = "rejected_approval",
                                              !.progress = {rejector}, !.itsm = "rejected"])
    BY <1>5 DEF RejectApprove
  <2>2. [now EXCEPT !.status = "rejected_approval", !.progress = {rejector}, !.itsm = "rejected"]
          \in Rows
    BY <1>1, <1>2 DEF Rejectors, Rows, Statuses, Ended, TicketStatuses
  <2>3. QED
    BY <1>1, <1>3, <1>5, <2>1, <2>2, CommitTypeOK, TellItsmType DEF RejectApprove
<1>6. CASE PassApprove(c)
  <2> DEFINE waits == [now EXCEPT !.status = "pending_approval", !.progress = Remaining(r)]
             st == IF r.row.type = "automatically" THEN "already_publish" ELSE "pending_publish"
             pr == IF approval = "or_sign" THEN {r.user} ELSE Approvers
             passes == [now EXCEPT !.status = st, !.progress = pr, !.itsm = "passed"]
  <2>1. Remaining(r) \in SUBSET Users
    BY <1>2 DEF Remaining
  <2>2. waits \in Rows
    BY <1>1, <2>1 DEF Rows, Statuses, UnderWay
  <2>3. st \in Statuses /\ pr \in SUBSET Users
    BY <1>2 DEF Statuses, UnderWay, Ended
  <2>4. passes \in Rows
    <3> HIDE DEF st, pr
    <3>1. QED
      BY <1>1, <2>3 DEF Rows, TicketStatuses
  <2>5. approvedBy' \in [Ids -> SUBSET Approvers] /\ unvetted' \subseteq Ids
    BY <1>1, <1>3, <1>6 DEF PassApprove, Approves
  <2>6. ticket' \in [Ids -> Tickets]
    BY <1>1, <1>6, TellItsmType DEF PassApprove
  <2>7. \E row \in {waits, passes} : Commit(c, row)
    BY <1>6 DEF PassApprove
  <2>8. QED
    BY <2>2, <2>4, <2>5, <2>6, <2>7, CommitTypeOK
<1>7. CASE PublishApprove(c)
  <2>1. [now EXCEPT !.status = "already_publish"] \in Rows
    BY <1>1 DEF Rows, Statuses, Ended
  <2>2. QED
    BY <1>1, <1>3, <1>7, <2>1, CommitTypeOK, TellItsmType DEF PublishApprove
<1>8. QED
  BY <1>4, <1>5, <1>6, <1>7

\* A step of an Approve request.
LEMMA ApproveTypeOK ==
    ASSUME TypeOK, NEW c \in Calls, Approving(c)
    PROVE  TypeOK'
<1>1. ASSUME NEW i \in Ids, SyncTicket(c, i) \/ ApprovalCallback(c, i) PROVE TypeOK'
  BY <1>1, TicketCallTypeOK DEF SyncTicket, ApprovalCallback
<1>2. CASE ReadStrategy(c)
  <2> DEFINE r == call[c]
             row == strategy[r.id]
  <2>1. r \in Requests /\ row \in Rows
    BY DEF TypeOK, Requests
  <2>2. [r EXCEPT !.pc = "read", !.row = row] \in Requests
    BY <2>1 DEF Requests, CallStages
  <2>3. call' \in [Calls -> Requests]
    BY <1>2, <2>2, IdleType DEF ReadStrategy, TypeOK
  <2>4. QED
    BY <1>2, <2>3 DEF ReadStrategy, readFrame, callFrame, TypeOK
<1>3. CASE ApproveFails(c)
  BY <1>3, IdleType DEF ApproveFails, readFrame, callFrame, TypeOK
<1>4. CASE CommitFails(c)
  <2>1. call[c] \in Requests /\ call[c].id \in Ids /\ approvedBy \in [Ids -> SUBSET Approvers]
    BY DEF TypeOK, Requests
  <2>2. approvedBy' \in [Ids -> SUBSET Approvers]
    BY <1>4, <2>1 DEF CommitFails, Approves
  <2>3. ticket' \in [Ids -> Tickets]
    BY <1>4, <2>1, TellItsmType DEF CommitFails
  <2>4. call' \in [Calls -> Requests]
    BY <1>4, IdleType DEF CommitFails, TypeOK
  <2>5. QED
    BY <1>4, <2>2, <2>3, <2>4 DEF CommitFails, callFrame, TypeOK
<1>5. QED
  BY <1>1, <1>2, <1>3, <1>4, UserCallTypeOK, CheckTicketTypeOK, DecideTypeOK DEF Approving

\* A step of the scheduled publish job.
LEMMA JobTypeOK ==
    ASSUME TypeOK, JobRead \/ JobCommit \/ JobFails
    PROVE  TypeOK'
<1>1. NoJob \in Jobs
  <2>1. NoRow \in Rows
    BY DEF NoRow, Rows, Statuses, Types, TicketStatuses
  <2>2. QED
    BY <2>1 DEF NoJob, Jobs
<1>2. CASE JobRead
  BY <1>2 DEF JobRead, jobFrame, Jobs, TypeOK
<1>3. CASE JobCommit
  <2>1. job.ids \in SUBSET Ids
    BY DEF TypeOK, Jobs
  <2>2. Demoted \subseteq Ids /\ Launched \subseteq Ids
    BY <2>1 DEF Demoted, Launched, Scheduled
  <2>3. \A i \in Ids : /\ [strategy[i] EXCEPT !.type = "manually"] \in Rows
                       /\ [strategy[i] EXCEPT !.status = "already_publish"] \in Rows
                       /\ strategy[i] \in Rows
    BY DEF TypeOK, Rows, Types, Statuses, Ended
  <2>4. strategy' \in [Ids -> Rows]
    BY <1>3, <2>3 DEF JobCommit
  <2>5. publishes' \in [Ids -> Nat]
    BY <1>3 DEF JobCommit, TypeOK
  <2>6. late' \subseteq Ids /\ stale' \subseteq Ids /\ queue' \subseteq Ids
    BY <1>3, <2>2 DEF JobCommit, TypeOK
  <2>7. QED
    BY <1>1, <1>3, <2>4, <2>5, <2>6 DEF JobCommit, jobFrame, TypeOK
<1>4. CASE JobFails
  BY <1>1, <1>4 DEF JobFails, jobFrame, TypeOK
<1>5. QED
  BY <1>2, <1>3, <1>4

\* A step of ITSM or of the clock.
LEMMA EnvironmentTypeOK ==
    ASSUME TypeOK, Environment
    PROVE  TypeOK'
<1> USE DEF itsmFrame
<1>1. ASSUME NEW i \in Ids, TicketEnds(i) PROVE TypeOK'
  BY <1>1 DEF TicketEnds, TypeOK, Tickets
<1>2. ASSUME NEW i \in Ids, Withdraw(i) PROVE TypeOK'
  BY <1>2 DEF Withdraw, TypeOK, Tickets
<1>3. ASSUME NEW i \in Ids, PublishTime(i) PROVE TypeOK'
  BY <1>3 DEF PublishTime, TypeOK
<1>4. ASSUME NEW i \in Ids, NEW u \in Approvers, VotePass(i, u) PROVE TypeOK'
  <2>1. ticket' \in [Ids -> Tickets] /\ approvedBy' \in [Ids -> SUBSET Approvers]
    BY <1>4 DEF VotePass, TypeOK, Tickets
  <2>2. QED
    BY <1>4, <2>1 DEF VotePass, TypeOK
<1>5. ASSUME NEW i \in Ids, NEW u \in Approvers, VoteReject(i, u) PROVE TypeOK'
  <2>1. ticket' \in [Ids -> Tickets]
    BY <1>5 DEF VoteReject, TypeOK, Tickets
  <2>2. QED
    BY <1>5, <2>1 DEF VoteReject, TypeOK
<1>6. QED
  BY <1>1, <1>2, <1>3, <1>4, <1>5 DEF Environment

LEMMA NextTypeOK ==
    ASSUME TypeOK, DrawnIds, [Next]_vars
    PROVE  TypeOK'
<1>1. CASE UNCHANGED vars
  BY <1>1 DEF vars, TypeOK
<1>2. QED
  BY <1>1, SubmitTypeOK, ApproveTypeOK, JobTypeOK, EnvironmentTypeOK DEF Next

-----------------------------------------------------------------------------
(* Rows appear under drawn ids only, and never disappear. *)

LEMMA StatusNotNone == \A x \in UnderWay \cup Ended : x # "none"
BY DEF UnderWay, Ended

\* A commit changes one row, and that row is there.
LEMMA CommitKeepsRows ==
    ASSUME RowInv, NEW c \in Calls, call[c].pc # "idle", NEW row, row.status # "none",
           Commit(c, row)
    PROVE  \A i \in Ids : strategy'[i].status = "none" <=> strategy[i].status = "none"
BY DEF Commit, RowInv, Seen, TypeOK

LEMMA DecideKeepsRows ==
    ASSUME RowInv, NEW c \in Calls,
           \/ RevokeApprove(c) \/ RejectApprove(c) \/ PassApprove(c) \/ PublishApprove(c)
    PROVE  /\ \A i \in Ids : strategy'[i].status = "none" <=> strategy[i].status = "none"
           /\ call' = [call EXCEPT ![c] = Idle]
           /\ UNCHANGED <<job, submit, maxID>>
<1> DEFINE r == call[c]
           now == strategy[r.id]
           keeps == /\ \A i \in Ids : strategy'[i].status = "none" <=> strategy[i].status = "none"
                    /\ call' = [call EXCEPT ![c] = Idle]
                    /\ UNCHANGED <<job, submit, maxID>>
<1>1. now \in Rows
  BY DEF RowInv, TypeOK, Requests
<1>2. r.pc # "idle"
  BY DEF Decides, RevokeApprove, RejectApprove, PassApprove, PublishApprove
<1>3. ASSUME NEW row, row.status # "none", Commit(c, row) PROVE keeps
  BY <1>2, <1>3, CommitKeepsRows DEF Commit, callFrame
<1>4. CASE RevokeApprove(c)
  BY <1>1, <1>3, <1>4 DEF RevokeApprove, Rows
<1>5. CASE RejectApprove(c)
  BY <1>1, <1>3, <1>5 DEF RejectApprove, Rows
<1>6. CASE PassApprove(c)
  BY <1>1, <1>3, <1>6 DEF PassApprove, Rows
<1>7. CASE PublishApprove(c)
  BY <1>1, <1>3, <1>7 DEF PublishApprove, Rows
<1>8. QED
  BY <1>4, <1>5, <1>6, <1>7

LEMMA JobCommitKeepsRows ==
    ASSUME RowInv, JobCommit
    PROVE  \A i \in Ids : strategy'[i].status = "none" <=> strategy[i].status = "none"
<1>1. Launched \cap Demoted = {}
  BY DEF Launched
<1>2. \A i \in Launched : job.rows[i].status = "pending_publish"
  BY DEF Launched
<1>3. \A i \in Ids : strategy[i] \in Rows
  BY DEF RowInv, TypeOK
<1>4. ASSUME NEW i \in Ids PROVE strategy'[i].status = "none" <=> strategy[i].status = "none"
  <2>1. strategy'[i] = CASE i \in Demoted  -> [strategy[i] EXCEPT !.type = "manually"]
                         [] i \in Launched -> [strategy[i] EXCEPT !.status = "already_publish"]
                         [] OTHER          -> strategy[i]
    BY DEF JobCommit
  <2>2. CASE i \in Launched
    BY <1>1, <1>2, <1>3, <2>1, <2>2 DEF RowInv, Seen, Rows
  <2>3. CASE i \notin Launched
    BY <1>3, <2>1, <2>3 DEF Rows
  <2>4. QED
    BY <2>2, <2>3
<1>5. QED
  BY <1>4

\* Nothing but a submission lets a row appear, and nothing lets one disappear.
LEMMA OthersKeepRows ==
    ASSUME RowInv,
           \/ \E c \in Calls : Approving(c)
           \/ JobRead \/ JobCommit \/ JobFails
           \/ Environment
    PROVE  /\ \A i \in Ids : strategy'[i].status = "none" <=> strategy[i].status = "none"
           /\ UNCHANGED <<submit, maxID>>
<1>1. ASSUME NEW c \in Calls, Approving(c)
      PROVE  /\ \A i \in Ids : strategy'[i].status = "none" <=> strategy[i].status = "none"
             /\ UNCHANGED <<submit, maxID>>
  <2> USE DEF readFrame, callFrame
  <2>1. CASE UserCall(c)
    BY <2>1 DEF UserCall, Request
  <2>2. CASE \E i \in Ids : SyncTicket(c, i) \/ ApprovalCallback(c, i)
    BY <2>2 DEF SyncTicket, ApprovalCallback, TicketCall, Request
  <2>3. CASE ReadStrategy(c) \/ CheckTicket(c) \/ ApproveFails(c) \/ CommitFails(c)
    BY <2>3 DEF ReadStrategy, CheckTicket, ApproveFails, CommitFails
  <2>4. QED
    BY <1>1, <2>1, <2>2, <2>3, DecideKeepsRows DEF Approving
<1>2. CASE JobRead \/ JobCommit \/ JobFails
  BY <1>2, JobCommitKeepsRows DEF JobRead, JobCommit, JobFails, jobFrame
<1>3. CASE Environment
  BY <1>3 DEF Environment, TicketEnds, Withdraw, PublishTime, VotePass, VoteReject, itsmFrame
<1>4. QED
  BY <1>1, <1>2, <1>3

\* What a submission does to the rows and the ids.
LEMMA SubmitRows ==
    ASSUME RowInv, NEW p \in Submitters, Submitting(p)
    PROVE  /\ \A i \in Ids : strategy[i].status # "none" => strategy'[i].status # "none"
           /\ Drawn'
           /\ UNCHANGED <<call, job>>
<1> USE DEF submitFrame
<1>1. /\ submit \in [Submitters -> Submissions] /\ maxID \in 0..MaxStrategies
      /\ strategy \in [Ids -> Rows]
      /\ DrawnIds /\ OwnIds /\ EmptyIds
  BY DEF RowInv, TypeOK, Drawn
<1>2. CASE SubmitRead(p) \/ SubmitFail(p)
  <2>1. /\ \A q \in Submitters : submit'[q].pc = "begun" => submit'[q] = submit[q]
        /\ UNCHANGED <<strategy, maxID, call, job>>
    <3>1. CASE SubmitRead(p)
      <4>1. PICK last : submit' = [submit EXCEPT ![p] =
                            [NoSubmission EXCEPT !.pc = "checked", !.last = last,
                                                 !.lastStatus = StatusOf(last)]]
        BY <3>1 DEF SubmitRead
      <4>2. submit'[p].pc = "checked"
        BY <1>1, <4>1 DEF NoSubmission
      <4>3. QED
        BY <1>1, <3>1, <4>1, <4>2 DEF SubmitRead
    <3>2. CASE SubmitFail(p)
      BY <1>1, <3>2 DEF SubmitFail, NoSubmission
    <3>3. QED
      BY <1>2, <3>1, <3>2
  <2>2. DrawnIds' /\ OwnIds' /\ EmptyIds'
    BY <1>1, <2>1 DEF DrawnIds, OwnIds, EmptyIds
  <2>3. QED
    BY <2>1, <2>2 DEF Drawn
<1>3. CASE SubmitBegin(p)
  <2>1. /\ submit'[p].id = maxID + 1 /\ maxID' = maxID + 1 /\ maxID < MaxStrategies
        /\ \A q \in Submitters \ {p} : submit'[q] = submit[q]
        /\ UNCHANGED <<strategy, call, job>>
    BY <1>1, <1>3 DEF SubmitBegin, Begin, Submissions
  <2>2. DrawnIds'
    BY <1>1, <2>1 DEF DrawnIds
  <2>3. OwnIds'
    BY <1>1, <2>1 DEF OwnIds, DrawnIds
  <2>4. EmptyIds'
    BY <1>1, <2>1 DEF EmptyIds, DrawnIds, Ids
  <2>5. QED
    BY <2>1, <2>2, <2>3, <2>4 DEF Drawn
<1>4. CASE SubmitCommit(p)
  <2> DEFINE s == submit[p]
  <2>1. /\ s.pc = "begun" /\ s.id \in 1..maxID
        /\ \A i \in Ids \ {s.id} : strategy'[i] = strategy[i]
        /\ submit'[p].pc = "idle"
        /\ \A q \in Submitters \ {p} : submit'[q] = submit[q]
        /\ UNCHANGED <<maxID, call, job>>
    BY <1>1, <1>4 DEF SubmitCommit, DrawnIds, NoSubmission
  <2>2. DrawnIds'
    BY <1>1, <2>1 DEF DrawnIds
  <2>3. OwnIds'
    BY <1>1, <2>1 DEF OwnIds
  <2>4. EmptyIds'
    BY <1>1, <2>1 DEF EmptyIds, OwnIds, DrawnIds, Ids
  <2>5. strategy[s.id].status = "none"
    BY <1>1, <2>1 DEF EmptyIds
  <2>6. QED
    BY <2>1, <2>2, <2>3, <2>4, <2>5 DEF Drawn
<1>5. QED
  BY <1>2, <1>3, <1>4, SubmittingSteps

\* A request that is on its way names a row that is there.
LEMMA CallsSeen ==
    ASSUME RowInv, NEW c \in Calls, Approving(c), NEW d \in Calls, call'[d].pc # "idle"
    PROVE  strategy[call'[d].id].status # "none"
<1> USE DEF readFrame, callFrame
<1>1. /\ call \in [Calls -> Requests] /\ Seen
      /\ \A e \in Calls : call[e].pc # "idle" => strategy[call[e].id].status # "none"
  BY DEF RowInv, TypeOK, Seen
<1>2. Idle.pc = "idle"
  BY DEF Idle
<1>3. ASSUME NEW i, strategy[i].status # "none", NEW r, r.id = i, Request(c, r)
      PROVE  strategy[call'[d].id].status # "none"
  BY <1>1, <1>3 DEF Request
<1>4. CASE UserCall(c)
  <2>1. PICK i \in Visible, way \in Ways, u \in Users, want \in Wants :
          Request(c, [Idle EXCEPT !.pc = "read", !.from = way, !.user = u, !.id = i,
                                  !.want = want, !.row = strategy[i]])
    BY <1>4 DEF UserCall
  <2>2. [Idle EXCEPT !.pc = "read", !.from = way, !.user = u, !.id = i,
                     !.want = want, !.row = strategy[i]].id = i
    BY DEF Idle
  <2>3. QED
    BY <1>3, <2>1, <2>2 DEF Visible
<1>5. ASSUME NEW i \in Ids, TicketCall(c, i) PROVE strategy[call'[d].id].status # "none"
  <2>1. PICK w, b : /\ Request(c, [Idle EXCEPT !.pc = "called", !.id = i, !.want = w, !.by = b])
                    /\ i \in Visible
    BY <1>5 DEF TicketCall
  <2>2. [Idle EXCEPT !.pc = "called", !.id = i, !.want = w, !.by = b].id = i
    BY DEF Idle
  <2>3. QED
    BY <1>3, <2>1, <2>2 DEF Visible
<1>6. CASE ReadStrategy(c)
  BY <1>1, <1>2, <1>6 DEF ReadStrategy, Requests
<1>7. CASE CheckTicket(c)
  <2> DEFINE r == call[c]
             t == ticket[r.id]
  <2>1. r \in Requests /\ t \in Tickets
    BY DEF RowInv, TypeOK, Requests
  <2>2. PICK u : call' = [call EXCEPT ![c] = [Checked(r, t) EXCEPT !.pc = "checked", !.user = u]]
    BY <1>7 DEF CheckTicket
  <2>3. Checked(r, t) \in Requests /\ Checked(r, t).id = r.id
    BY <2>1, CheckedType
  <2>4. [Checked(r, t) EXCEPT !.pc = "checked", !.user = u].id = r.id
    BY <2>3 DEF Requests
  <2>5. r.pc # "idle"
    BY <1>7 DEF CheckTicket
  <2>6. QED
    BY <1>1, <2>2, <2>4, <2>5
<1>8. CASE \/ RevokeApprove(c) \/ RejectApprove(c) \/ PassApprove(c) \/ PublishApprove(c)
           \/ ApproveFails(c) \/ CommitFails(c)
  <2>1. call' = [call EXCEPT ![c] = Idle]
    BY <1>8, DecideKeepsRows DEF ApproveFails, CommitFails
  <2>2. QED
    BY <1>1, <1>2, <2>1
<1>9. QED
  BY <1>4, <1>5, <1>6, <1>7, <1>8 DEF Approving, SyncTicket, ApprovalCallback

\* No request changes what the job has read.
LEMMA ApprovingKeepsJob ==
    ASSUME RowInv, NEW c \in Calls, Approving(c)
    PROVE  UNCHANGED job
<1>1. CASE UserCall(c)
  BY <1>1 DEF UserCall, Request, readFrame, callFrame
<1>2. ASSUME NEW i \in Ids, TicketCall(c, i) PROVE UNCHANGED job
  BY <1>2 DEF TicketCall, Request, readFrame, callFrame
<1>3. CASE ReadStrategy(c) \/ CheckTicket(c) \/ ApproveFails(c)
  BY <1>3 DEF ReadStrategy, CheckTicket, ApproveFails, readFrame, callFrame
<1>4. CASE CommitFails(c)
  BY <1>4 DEF CommitFails, callFrame
<1>5. CASE RevokeApprove(c) \/ RejectApprove(c) \/ PassApprove(c) \/ PublishApprove(c)
  BY <1>5, DecideKeepsRows
<1>6. QED
  BY <1>1, <1>2, <1>3, <1>4, <1>5 DEF Approving, SyncTicket, ApprovalCallback

LEMMA NextRowInv ==
    ASSUME RowInv, [Next]_vars
    PROVE  RowInv'
<1>1. TypeOK'
  BY NextTypeOK DEF RowInv, Drawn
<1>2. CASE UNCHANGED vars
  BY <1>1, <1>2 DEF vars, RowInv, Drawn, DrawnIds, OwnIds, EmptyIds, Seen
<1>3. ASSUME NEW p \in Submitters, Submitting(p) PROVE RowInv'
  <2>1. Seen'
    BY <1>3, SubmitRows DEF Seen, RowInv, TypeOK, Requests
  <2>2. QED
    BY <1>1, <1>3, <2>1, SubmitRows DEF RowInv
<1>4. ASSUME \/ \E c \in Calls : Approving(c)
             \/ JobRead \/ JobCommit \/ JobFails
             \/ Environment
      PROVE  RowInv'
  <2>1. /\ \A i \in Ids : strategy'[i].status = "none" <=> strategy[i].status = "none"
        /\ UNCHANGED <<submit, maxID>>
    BY <1>4, OthersKeepRows
  <2>2. Drawn'
    <3>1. maxID \in 0..MaxStrategies /\ DrawnIds /\ OwnIds /\ EmptyIds
      BY DEF RowInv, TypeOK, Drawn
    <3>2. DrawnIds' /\ OwnIds'
      BY <2>1, <3>1 DEF DrawnIds, OwnIds
    <3>3. EmptyIds'
      BY <2>1, <3>1 DEF EmptyIds, DrawnIds, Ids
    <3>4. QED
      BY <3>2, <3>3 DEF Drawn
  <2>3. \A c \in Calls : call'[c].pc # "idle" => strategy[call'[c].id].status # "none"
    <3>1. CASE \E c \in Calls : Approving(c)
      BY <3>1, CallsSeen
    <3>2. CASE JobRead \/ JobCommit \/ JobFails
      BY <3>2 DEF JobRead, JobCommit, JobFails, jobFrame, RowInv, Seen
    <3>3. CASE Environment
      BY <3>3 DEF Environment, TicketEnds, Withdraw, PublishTime, VotePass, VoteReject, itsmFrame,
                  RowInv, Seen
    <3>4. QED
      BY <1>4, <3>1, <3>2, <3>3
  <2>4. \A c \in Calls : call'[c].id \in Ids
    BY <1>1 DEF TypeOK, Requests
  <2>5. \A i \in Ids : job'.rows[i].status # "none" => strategy[i].status # "none"
    <3>1. CASE \E c \in Calls : Approving(c)
      <4>1. UNCHANGED job
        BY <3>1, ApprovingKeepsJob
      <4>2. QED
        BY <4>1 DEF RowInv, Seen
    <3>2. CASE JobRead
      BY <3>2 DEF JobRead
    <3>3. CASE JobCommit \/ JobFails
      <4>1. job' = NoJob
        BY <3>3 DEF JobCommit, JobFails
      <4>2. \A i \in Ids : NoJob.rows[i].status = "none"
        BY DEF NoJob, NoRow
      <4>3. QED
        BY <4>1, <4>2
    <3>4. CASE Environment
      BY <3>4 DEF Environment, TicketEnds, Withdraw, PublishTime, VotePass, VoteReject, itsmFrame,
                  RowInv, Seen
    <3>5. QED
      BY <1>4, <3>1, <3>2, <3>3, <3>4
  <2>6. QED
    BY <1>1, <2>1, <2>2, <2>3, <2>4, <2>5 DEF RowInv, Seen
<1>5. QED
  BY <1>2, <1>3, <1>4 DEF Next

LEMMA InitRowInv == Init => RowInv
<1> SUFFICES ASSUME Init PROVE RowInv
  OBVIOUS
<1>1. TypeOK
  BY InitTypeOK
<1>2. Drawn
  BY DEF Init, Drawn, DrawnIds, OwnIds, EmptyIds, NoSubmission, NoRow, Ids
<1>3. Seen
  BY DEF Init, Seen, Idle, NoJob, NoRow
<1>4. QED
  BY <1>1, <1>2, <1>3 DEF RowInv

LEMMA RowInvariant == Spec => []RowInv
BY InitRowInv, NextRowInv, PTL DEF Spec

\* The types of every variable, of rows, requests, submissions and the job.
THEOREM TypeCorrect == Spec => []TypeOK
<1>1. RowInv => TypeOK
  BY DEF RowInv
<1>2. QED
  BY <1>1, RowInvariant, PTL

-----------------------------------------------------------------------------
(* An order is published once. *)

\* A commit that had seen the row under way.
LEMMA CommitPublishesOnce ==
    ASSUME RowInv, PublishedOnce, NEW c \in Calls, NEW row, Commit(c, row),
           call[c].row.status \in UnderWay
    PROVE  PublishedOnce'
<1> DEFINE i == call[c].id
<1>1. i \in Ids /\ strategy \in [Ids -> Rows] /\ publishes \in [Ids -> Nat]
  BY DEF RowInv, TypeOK, Requests
<1>2. \A j \in Ids \ {i} : strategy'[j] = strategy[j] /\ publishes'[j] = publishes[j]
  BY <1>1 DEF Commit
<1>3. ASSUME i \notin stale'
      PROVE  publishes'[i] = IF strategy'[i].status = "already_publish" THEN 1 ELSE 0
  <2>1. strategy[i].status \in UnderWay /\ i \notin stale
    BY <1>3 DEF Commit
  <2>2. publishes[i] = 0
    BY <1>1, <2>1 DEF PublishedOnce, UnderWay
  <2>3. strategy'[i] = row
    BY <1>1 DEF Commit
  <2>4. QED
    BY <1>1, <2>2, <2>3 DEF Commit
<1>4. stale \subseteq stale'
  BY DEF Commit
<1>5. QED
  BY <1>2, <1>3, <1>4 DEF PublishedOnce

\* A new row is published by its submission, or not yet.
LEMMA SubmitPublishesOnce ==
    ASSUME RowInv, PublishedOnce, NEW p \in Submitters, SubmitCommit(p)
    PROVE  PublishedOnce'
<1> DEFINE s == submit[p]
<1>1. /\ s.id \in Ids /\ strategy[s.id].status = "none"
      /\ strategy \in [Ids -> Rows] /\ publishes \in [Ids -> Nat]
      /\ s.type \in Types /\ approval \in Approvals
  BY DEF RowInv, Drawn, DrawnIds, EmptyIds, TypeOK, SubmitCommit, Submissions, Ids
<1>2. \A j \in Ids \ {s.id} : strategy'[j] = strategy[j] /\ publishes'[j] = publishes[j]
  BY <1>1 DEF SubmitCommit
<1>3. ASSUME s.id \notin stale
      PROVE  publishes'[s.id] = IF strategy'[s.id].status = "already_publish" THEN 1 ELSE 0
  <2>1. publishes[s.id] = 0
    BY <1>1, <1>3 DEF PublishedOnce
  <2>2. strategy'[s.id] = NewRow(s.type)
    BY <1>1 DEF SubmitCommit
  <2>3. NewRow(s.type).status = "already_publish" <=> s.type = "immediately"
    BY DEF NewRow
  <2>4. QED
    BY <1>1, <2>1, <2>2, <2>3 DEF SubmitCommit
<1>4. stale \subseteq stale'
  BY DEF SubmitCommit
<1>5. QED
  BY <1>2, <1>3, <1>4 DEF PublishedOnce

\* The job publishes what waits for it.
LEMMA JobPublishesOnce ==
    ASSUME RowInv, PublishedOnce, JobCommit
    PROVE  PublishedOnce'
<1>1. strategy \in [Ids -> Rows] /\ publishes \in [Ids -> Nat]
  BY DEF RowInv, TypeOK
<1>2. stale \subseteq stale'
  BY DEF JobCommit
<1>3. ASSUME NEW i \in Ids \ stale'
      PROVE  publishes'[i] = IF strategy'[i].status = "already_publish" THEN 1 ELSE 0
  <2>1. strategy'[i] = CASE i \in Demoted  -> [strategy[i] EXCEPT !.type = "manually"]
                         [] i \in Launched -> [strategy[i] EXCEPT !.status = "already_publish"]
                         [] OTHER          -> strategy[i]
    BY DEF JobCommit
  <2>2. publishes'[i] = IF i \in Launched THEN publishes[i] + 1 ELSE publishes[i]
    BY DEF JobCommit
  <2>3. publishes[i] = IF strategy[i].status = "already_publish" THEN 1 ELSE 0
    BY <1>2 DEF PublishedOnce
  <2>4. CASE i \in Launched
    <3>1. job.rows[i].status = "pending_publish" /\ i \notin Demoted
      BY <2>4 DEF Launched
    <3>2. strategy[i].status = "pending_publish"
      BY <2>4, <3>1 DEF JobCommit
    <3>3. strategy'[i].status = "already_publish"
      BY <1>1, <2>1, <2>4, <3>1 DEF Rows
    <3>4. QED
      BY <2>2, <2>3, <2>4, <3>2, <3>3
  <2>5. CASE i \notin Launched
    <3>1. strategy'[i].status = strategy[i].status
      BY <1>1, <2>1, <2>5 DEF Rows
    <3>2. QED
      BY <2>2, <2>3, <2>5, <3>1
  <2>6. QED
    BY <2>4, <2>5
<1>4. QED
  BY <1>3 DEF PublishedOnce

LEMMA NextPublishedOnce ==
    ASSUME RowInv, PublishedOnce, [Next]_vars
    PROVE  PublishedOnce'
<1>1. UNCHANGED <<strategy, publishes, stale>> => PublishedOnce'
  BY DEF PublishedOnce
<1>2. CASE UNCHANGED vars
  BY <1>1, <1>2 DEF vars
<1>3. ASSUME NEW p \in Submitters, Submitting(p) PROVE PublishedOnce'
  BY <1>1, <1>3, SubmitPublishesOnce, SubmittingSteps DEF SubmitRead, SubmitBegin, Begin, SubmitFail
<1>4. ASSUME NEW c \in Calls, Approving(c) PROVE PublishedOnce'
  <2>1. CASE RevokeApprove(c)
    BY <2>1, CommitPublishesOnce DEF RevokeApprove
  <2>2. CASE RejectApprove(c)
    BY <2>2, CommitPublishesOnce DEF RejectApprove, UnderWay
  <2>3. CASE PassApprove(c)
    BY <2>3, CommitPublishesOnce DEF PassApprove, MayPass, UnderWay
  <2>4. CASE PublishApprove(c)
    BY <2>4, CommitPublishesOnce DEF PublishApprove, UnderWay
  <2>5. QED
    BY <1>1, <1>4, <2>1, <2>2, <2>3, <2>4
       DEF Approving, UserCall, SyncTicket, ApprovalCallback, TicketCall, Request, ReadStrategy,
           CheckTicket, ApproveFails, CommitFails, readFrame
<1>5. CASE JobRead \/ JobCommit \/ JobFails
  BY <1>1, <1>5, JobPublishesOnce DEF JobRead, JobFails
<1>6. CASE Environment
  BY <1>1, <1>6 DEF Environment, TicketEnds, Withdraw, PublishTime, VotePass, VoteReject, itsmFrame
<1>7. QED
  BY <1>2, <1>3, <1>4, <1>5, <1>6 DEF Next

LEMMA InitPublishedOnce == Init => PublishedOnce
<1> SUFFICES ASSUME Init, NEW i \in Ids
             PROVE  publishes[i] = IF strategy[i].status = "already_publish" THEN 1 ELSE 0
  BY DEF PublishedOnce
<1>1. publishes[i] = 0 /\ strategy[i] = NoRow
  BY DEF Init
<1>2. NoRow.status = "none"
  BY DEF NoRow
<1>3. QED
  BY <1>1, <1>2

\* Of the orders no request wrote over, each is published at most once, by whichever of the
\* submission, the page, the ticket and the job comes first, and says so exactly then.
THEOREM PublishesOnce == Spec => []PublishedOnce
<1>1. Init => RowInv /\ PublishedOnce
  BY InitRowInv, InitPublishedOnce
<1>2. RowInv /\ PublishedOnce /\ [Next]_vars => (RowInv /\ PublishedOnce)'
  BY NextRowInv, NextPublishedOnce
<1>3. QED
  BY <1>1, <1>2, PTL DEF Spec

-----------------------------------------------------------------------------
(* With ITSM v4 no vetted order passes without the approvals its app asks for. *)

Approved(i) == IF approval = "or_sign" THEN approvedBy[i] # {} ELSE approvedBy[i] = Approvers

\* Who is no longer asked has approved.
RowApproved(i, row) ==
    /\ row.status \in {"pending_publish", "already_publish"} => i \in unvetted \/ Approved(i)
    /\ row.status = "pending_approval" => /\ row.progress \subseteq Approvers
                                          /\ Approvers \ row.progress \subseteq approvedBy[i]

StrategiesApproved == \A i \in Ids : RowApproved(i, strategy[i])
JobApproved == \A i \in Ids : RowApproved(i, job.rows[i])
ReadApproved == \A c \in Calls : call[c].pc \in {"read", "checked"} =>
                                    RowApproved(call[c].id, call[c].row)
TypesValid == \A p \in Submitters : submit[p].pc = "begun" => ValidType(submit[p].type)

\* What ITSM knows.
Votes == \A i \in Ids : ticket[i].passed \subseteq approvedBy[i]
Decisions == \A i \in Ids : ticket[i].status = "FINISHED" => Decided(i)

\* What a request claims of its ticket.
ClaimsHold(r) ==
    /\ r.want = "pending_publish" => r.by \subseteq ticket[r.id].passed
    /\ r.from = "itsm" => ticket[r.id].status # "RUNNING"
    /\ r.from = "itsm" /\ r.want = "pending_publish" =>
         /\ ticket[r.id].rejected = {} /\ ticket[r.id].passed # {}
         /\ r.pc = "checked" => ticket[r.id].status = "FINISHED"
Claims == \A c \in Calls : call[c].pc # "idle" => ClaimsHold(call[c])

ApprovalInv == /\ StrategiesApproved /\ JobApproved /\ ReadApproved /\ TypesValid
               /\ Votes /\ Decisions /\ Claims

\* What tells ITSM does to the tickets.
LEMMA TellItsmStep ==
    ASSUME TypeOK, NEW r \in Requests, NEW told \in {"revoke", "reject", "pass", "none"},
           TellItsm(r, told)
    PROVE  \A i \in Ids :
             /\ ticket[i].passed \subseteq ticket'[i].passed
             /\ \/ ticket'[i].passed = ticket[i].passed
                \/ told = "pass" /\ r.from = "web" /\ i = r.id /\ r.user \in Approvers
                   /\ ticket'[i].passed = ticket[i].passed \cup {r.user}
             /\ ticket[i].status # "RUNNING" => ticket'[i] = ticket[i]
             /\ ticket'[i].status = "FINISHED" => ticket'[i] = ticket[i]
<1> USE DEF Tickets
<1>1. ticket \in [Ids -> Tickets] /\ r.id \in Ids
  BY DEF TypeOK, Requests
<1>2. CASE ~Tells(r)
  BY <1>2 DEF TellItsm
<1>3. CASE Tells(r) /\ told = "revoke"
  BY <1>1, <1>3 DEF TellItsm
<1>4. CASE Tells(r) /\ told = "reject"
  BY <1>1, <1>4 DEF TellItsm, MayVote
<1>5. CASE Tells(r) /\ told = "pass"
  BY <1>1, <1>5 DEF TellItsm, MayVote, Tells
<1>6. CASE Tells(r) /\ told = "none"
  BY <1>6 DEF TellItsm
<1>7. QED
  BY <1>2, <1>3, <1>4, <1>5, <1>6

\* What a step may do to votes and tickets: votes are never taken back, a vote for an order is
\* an approval of it, and a ticket that has ended stays as it is once its order exists.
LEMMA TicketStep ==
    ASSUME RowInv, Votes, [Next]_vars
    PROVE  /\ approval' = approval /\ unvetted \subseteq unvetted'
           /\ \A i \in Ids :
                /\ approvedBy[i] \subseteq approvedBy'[i]
                /\ ticket[i].passed \subseteq ticket'[i].passed
                /\ ticket'[i].passed \subseteq approvedBy'[i]
                /\ ticket'[i].status = "FINISHED" =>
                     /\ ticket'[i].passed = ticket[i].passed
                     /\ ticket'[i].rejected = ticket[i].rejected
                     /\ ticket[i].status = "FINISHED" \/ Decided(i)
                /\ strategy[i].status # "none" /\ ticket[i].status # "RUNNING"
                     => ticket'[i] = ticket[i]
<1> DEFINE Step(i) ==
                /\ approvedBy[i] \subseteq approvedBy'[i]
                /\ ticket[i].passed \subseteq ticket'[i].passed
                /\ ticket'[i].passed \subseteq approvedBy'[i]
                /\ ticket'[i].status = "FINISHED" =>
                     /\ ticket'[i].passed = ticket[i].passed
                     /\ ticket'[i].rejected = ticket[i].rejected
                     /\ ticket[i].status = "FINISHED" \/ Decided(i)
                /\ strategy[i].status # "none" /\ ticket[i].status # "RUNNING"
                     => ticket'[i] = ticket[i]
           Steps == /\ approval' = approval /\ unvetted \subseteq unvetted'
                    /\ \A i \in Ids : Step(i)
<1>1. /\ ticket \in [Ids -> Tickets] /\ approvedBy \in [Ids -> SUBSET Approvers]
      /\ TypeOK /\ call \in [Calls -> Requests]
      /\ \A i \in Ids : ticket[i].passed \subseteq approvedBy[i]
  BY DEF RowInv, TypeOK, Votes
<1>2. ASSUME UNCHANGED <<approval, approvedBy, unvetted, ticket>> PROVE Steps
  BY <1>1, <1>2
<1>3. CASE UNCHANGED vars
  BY <1>2, <1>3 DEF vars
<1>4. ASSUME NEW p \in Submitters, Submitting(p) PROVE Steps
  <2>1. CASE SubmitBegin(p)
    <3>1. maxID + 1 \in Ids /\ strategy[maxID + 1].status = "none"
      BY <2>1 DEF SubmitBegin, Begin, RowInv, Drawn, EmptyIds, TypeOK, Ids
    <3>2. /\ UNCHANGED <<approval, approvedBy, unvetted>>
          /\ \A i \in Ids \ {maxID + 1} : ticket'[i] = ticket[i]
          /\ ticket'[maxID + 1].passed = ticket[maxID + 1].passed
          /\ \/ ticket'[maxID + 1].status = "RUNNING"
             \/ ticket'[maxID + 1] = ticket[maxID + 1]
      BY <1>1, <2>1, <3>1 DEF SubmitBegin, Begin, submitFrame, Tickets
    <3>3. QED
      BY <1>1, <3>1, <3>2
  <2>2. QED
    BY <1>2, <1>4, <2>1, SubmittingSteps DEF SubmitRead, SubmitCommit, SubmitFail, submitFrame
<1>5. ASSUME NEW c \in Calls, Approving(c) PROVE Steps
  <2> DEFINE r == call[c]
  <2>1. r \in Requests /\ r.id \in Ids
    BY <1>1 DEF Requests
  <2>2. ASSUME NEW told \in {"revoke", "reject", "none"}, TellItsm(r, told),
               UNCHANGED <<approval, approvedBy, unvetted>>
        PROVE  Steps
    BY <1>1, <2>1, <2>2, TellItsmStep
  <2>3. CASE RevokeApprove(c)
    BY <2>2, <2>3 DEF RevokeApprove, Commit, callFrame
  <2>4. CASE RejectApprove(c)
    BY <2>2, <2>4 DEF RejectApprove, Commit, callFrame
  <2>5. ASSUME TellItsm(r, "pass"), approval' = approval, unvetted \subseteq unvetted',
               Approves(r) \/ (r.from = "itsm" /\ UNCHANGED approvedBy)
        PROVE  Steps
    <3>1. \A i \in Ids : /\ approvedBy[i] \subseteq approvedBy'[i]
                         /\ i = r.id /\ r.from = "web" /\ r.user \in Approvers
                              => r.user \in approvedBy'[i]
      BY <1>1, <2>1, <2>5 DEF Approves
    <3>2. QED
      BY <1>1, <2>1, <2>5, <3>1, TellItsmStep
  <2>6. CASE PublishApprove(c)
    BY <2>2, <2>6 DEF PublishApprove, Commit, callFrame
  <2>7. CASE PassApprove(c)
    <3>1. TellItsm(r, "pass") /\ approval' = approval
      BY <2>7 DEF PassApprove, Commit, callFrame
    <3>2. unvetted' = IF Unvetted(r) THEN unvetted \cup {r.id} ELSE unvetted
      BY <2>7 DEF PassApprove
    <3>3. Approves(r) \/ (r.from = "itsm" /\ UNCHANGED approvedBy)
      <4>1. IF r.from = "itsm" THEN UNCHANGED approvedBy ELSE Approves(r)
        BY <2>7 DEF PassApprove
      <4>2. QED
        BY <4>1, Zenon
    <3>4. unvetted \subseteq unvetted'
      <4>1. unvetted' = unvetted \/ unvetted' = unvetted \cup {r.id}
        BY <3>2, Zenon
      <4>2. QED
        BY <4>1, Zenon
    <3> HIDE DEF r, Steps
    <3>5. QED
      BY <2>5, <3>1, <3>3, <3>4, Zenon
  <2>8. CASE CommitFails(c)
    <3>1. UNCHANGED <<approval, unvetted>>
      BY <2>8 DEF CommitFails, callFrame
    <3>2. CASE UNCHANGED approvedBy /\ (TellItsm(r, "revoke") \/ TellItsm(r, "reject"))
      BY <2>2, <3>1, <3>2
    <3>3. CASE TellItsm(r, "pass") /\ Approves(r)
      <4>1. /\ TellItsm(r, "pass") /\ approval' = approval
            /\ Approves(r) \/ (r.from = "itsm" /\ UNCHANGED approvedBy)
        BY <3>1, <3>3
      <4>2. unvetted \subseteq unvetted'
        BY <3>1, Zenon
      <4> HIDE DEF r, Steps
      <4>3. QED
        BY <2>5, <4>1, <4>2, Zenon
    <3>4. QED
      BY <2>8, <3>2, <3>3 DEF CommitFails
  <2>9. QED
    BY <1>2, <1>5, <2>3, <2>4, <2>6, <2>7, <2>8
       DEF Approving, UserCall, SyncTicket, ApprovalCallback, TicketCall, Request, ReadStrategy,
           CheckTicket, ApproveFails, readFrame, callFrame
<1>6. CASE JobRead \/ JobCommit \/ JobFails
  BY <1>2, <1>6 DEF JobRead, JobCommit, JobFails, jobFrame
<1>7. ASSUME NEW j \in Ids, NEW u \in Approvers, VotePass(j, u) PROVE Steps
  BY <1>1, <1>7 DEF VotePass, MayVote, itsmFrame, Tickets
<1>8. ASSUME NEW j \in Ids, NEW u \in Approvers, VoteReject(j, u) PROVE Steps
  BY <1>1, <1>8 DEF VoteReject, MayVote, itsmFrame, Tickets
<1>9. ASSUME NEW j \in Ids, TicketEnds(j) \/ Withdraw(j) \/ PublishTime(j) PROVE Steps
  BY <1>1, <1>9 DEF TicketEnds, Withdraw, PublishTime, itsmFrame, Tickets
<1>10. QED
  BY <1>3, <1>4, <1>5, <1>6, <1>7, <1>8, <1>9 DEF Next, Environment

\* Approvals are never taken back.
LEMMA RowStaysApproved ==
    ASSUME RowInv, Votes, [Next]_vars, NEW i \in Ids, NEW row, RowApproved(i, row)
    PROVE  RowApproved(i, row)'
<1>1. /\ approval' = approval /\ approvedBy[i] \subseteq approvedBy'[i]
      /\ unvetted \subseteq unvetted'
  BY TicketStep
<1>2. approvedBy'[i] \subseteq Approvers
  BY NextTypeOK DEF RowInv, Drawn, TypeOK
<1>3. Approved(i) => Approved(i)'
  <2>1. approvedBy[i] # {} => approvedBy'[i] # {}
    BY <1>1
  <2>2. approvedBy[i] = Approvers => approvedBy'[i] = Approvers
    BY <1>1, <1>2
  <2>3. QED
    BY <1>1, <2>1, <2>2 DEF Approved
<1>4. QED
  BY <1>1, <1>3 DEF RowApproved

LEMMA NextVotes ==
    ASSUME RowInv, Votes, Decisions, [Next]_vars
    PROVE  Votes' /\ Decisions'
<1>1. Votes'
  BY TicketStep DEF Votes
<1>2. Decisions'
  BY TicketStep DEF Decisions, Decided
<1>3. QED
  BY <1>1, <1>2

\* A submission asks for an approval unless the app needs none.
LEMMA NextTypesValid ==
    ASSUME RowInv, Votes, TypesValid, [Next]_vars
    PROVE  TypesValid'
<1>1. approval' = approval
  BY TicketStep
<1>2. submit \in [Submitters -> Submissions]
  BY DEF RowInv, TypeOK
<1>3. CASE UNCHANGED submit
  BY <1>1, <1>3 DEF TypesValid, ValidType
<1>4. ASSUME NEW p \in Submitters, Submitting(p) PROVE TypesValid'
  <2>1. submit'[p].pc = "begun" => ValidType(submit'[p].type)
    <3>1. CASE SubmitRead(p)
      <4>1. PICK last : submit' = [submit EXCEPT ![p] =
                            [NoSubmission EXCEPT !.pc = "checked", !.last = last,
                                                 !.lastStatus = StatusOf(last)]]
        BY <3>1 DEF SubmitRead
      <4>2. QED
        BY <1>2, <4>1 DEF NoSubmission
    <3>2. CASE SubmitBegin(p)
      BY <1>2, <3>2 DEF SubmitBegin, Begin, Submissions
    <3>3. CASE SubmitCommit(p) \/ SubmitFail(p)
      BY <1>2, <3>3 DEF SubmitCommit, SubmitFail, NoSubmission
    <3>4. QED
      BY <1>4, <3>1, <3>2, <3>3, SubmittingSteps
  <2>2. \A q \in Submitters \ {p} : submit'[q] = submit[q]
    BY <1>2, <1>4, SubmittingSteps DEF SubmitRead, SubmitBegin, Begin, SubmitCommit, SubmitFail
  <2>3. QED
    BY <1>1, <2>1, <2>2 DEF TypesValid, ValidType
<1>5. CASE UNCHANGED vars
  BY <1>3, <1>5 DEF vars
<1>6. QED
  BY <1>3, <1>4, <1>5, OthersKeepRows DEF Next

\* What a committed row needs of the approvals that are there with its commit.
CommitNeeds(i, row) ==
    /\ row.status \in {"pending_publish", "already_publish"} =>
         \/ i \in unvetted'
         \/ IF approval' = "or_sign" THEN approvedBy'[i] # {} ELSE approvedBy'[i] = Approvers
    /\ row.status = "pending_approval" => /\ row.progress \subseteq Approvers
                                          /\ Approvers \ row.progress \subseteq approvedBy'[i]

\* The rows of strategies: whoever commits a passed row has seen to its approvals.
LEMMA CommitApproved ==
    ASSUME RowInv, Votes, StrategiesApproved, [Next]_vars,
           NEW c \in Calls, NEW row, Commit(c, row),
           NEW j \in Ids, j = call[c].id, CommitNeeds(j, row)
    PROVE  StrategiesApproved'
<1>1. strategy \in [Ids -> Rows]
  BY DEF RowInv, TypeOK
<1>2. \A i \in Ids \ {j} : strategy'[i] = strategy[i]
  BY <1>1 DEF Commit
<1>3. strategy'[j] = row
  BY <1>1 DEF Commit
<1>4. ASSUME NEW i \in Ids \ {j} PROVE RowApproved(i, strategy[i])'
  <2>1. /\ approval' = approval /\ approvedBy[i] \subseteq approvedBy'[i]
        /\ approvedBy'[i] \subseteq Approvers /\ unvetted \subseteq unvetted'
    BY TicketStep, NextTypeOK DEF RowInv, Drawn, TypeOK
  <2>2. RowApproved(i, strategy[i])
    BY DEF StrategiesApproved
  <2>3. Approved(i) => Approved(i)'
    <3>1. approvedBy[i] # {} => approvedBy'[i] # {}
      BY <2>1
    <3>2. approvedBy[i] = Approvers => approvedBy'[i] = Approvers
      BY <2>1
    <3>3. QED
      BY <2>1, <3>1, <3>2 DEF Approved
  <2>4. QED
    BY <1>2, <2>1, <2>2, <2>3 DEF RowApproved
<1>5. QED
  BY <1>1, <1>3, <1>4 DEF StrategiesApproved, CommitNeeds, RowApproved, Approved

\* passApprove lets an order pass only with the approvals it needs.
LEMMA PassApproved ==
    ASSUME RowInv, ApprovalInv, approval # "none", [Next]_vars,
           NEW c \in Calls, PassApprove(c)
    PROVE  StrategiesApproved'
<1> DEFINE r == call[c]
           j == r.id
           now == strategy[j]
           waits == [now EXCEPT !.status = "pending_approval", !.progress = Remaining(r)]
           passes == [now EXCEPT
                        !.status = IF r.row.type = "automatically" THEN "already_publish"
                                   ELSE "pending_publish",
                        !.progress = IF approval = "or_sign" THEN {r.user} ELSE Approvers,
                        !.itsm = "passed"]
<1>1. /\ r \in Requests /\ j \in Ids /\ now \in Rows /\ approvedBy \in [Ids -> SUBSET Approvers]
      /\ ticket[j] \in Tickets
  BY DEF RowInv, TypeOK, Requests
<1>2. r.pc = "checked" /\ r.want = "pending_publish" /\ r.row.status = "pending_approval"
  BY DEF PassApprove, MayPass, Decides
<1>3. /\ r.row.progress \subseteq Approvers
      /\ Approvers \ r.row.progress \subseteq approvedBy[j]
  BY <1>2 DEF ApprovalInv, ReadApproved, RowApproved
<1>4. r.by \subseteq approvedBy[j]
  BY <1>1, <1>2 DEF ApprovalInv, Claims, ClaimsHold, Votes
<1>5. /\ approval' = approval
      /\ approvedBy'[j] = IF r.from = "itsm" THEN approvedBy[j]
                          ELSE approvedBy[j] \cup ({r.user} \cap Approvers)
  BY <1>1 DEF PassApprove, Approves, Commit, callFrame
<1>6. ASSUME r.from # "itsm"
      PROVE  Approvers \ Remaining(r) \subseteq approvedBy'[j] /\ Remaining(r) \subseteq Approvers
  BY <1>3, <1>4, <1>5, <1>6 DEF Remaining
<1>7. CASE ~Passes(r)
  <2>1. Commit(c, waits)
    BY <1>7 DEF PassApprove
  <2>2. waits.status = "pending_approval" /\ waits.progress = Remaining(r) /\ r.from # "itsm"
    BY <1>1, <1>7 DEF Rows, Passes
  <2>3. CommitNeeds(j, waits)
    <3> HIDE DEF waits
    <3>1. QED
      BY <1>6, <2>2 DEF CommitNeeds
  <2>4. QED
    <3> HIDE DEF waits
    <3>1. QED
      BY <1>1, <2>1, <2>3, CommitApproved DEF ApprovalInv
<1>8. CASE Passes(r)
  <2>1. Commit(c, passes)
    BY <1>8 DEF PassApprove
  <2>2. passes.status \in {"pending_publish", "already_publish"}
    BY <1>1 DEF Rows
  <2>3. approvedBy'[j] \subseteq Approvers
    BY <1>1, <1>5
  <2>4. \/ j \in unvetted'
        \/ IF approval' = "or_sign" THEN approvedBy'[j] # {} ELSE approvedBy'[j] = Approvers
    <3>1. CASE r.from # "itsm" /\ ~Unvetted(r)
      <4>1. r.user \in r.row.progress /\ ~(r.from = "plain" /\ approval = "count_sign")
        BY <1>1, <1>8, <3>1 DEF PassApprove, MayPass, Unvetted, Requests, Ways
      <4>2. r.user \in Approvers /\ r.user \in approvedBy'[j]
        BY <1>3, <1>5, <3>1, <4>1
      <4>3. approval \in {"or_sign", "count_sign"}
        BY DEF RowInv, TypeOK
      <4>4. QED
        BY <1>5, <1>6, <1>8, <2>3, <3>1, <4>1, <4>2, <4>3 DEF Passes
    <3>2. CASE Unvetted(r)
      BY <3>2 DEF PassApprove
    <3>3. CASE r.from = "itsm"
      <4>1. /\ ticket[j].rejected = {} /\ ticket[j].passed # {}
            /\ ticket[j].status = "FINISHED"
        BY <1>2, <3>3 DEF ApprovalInv, Claims, ClaimsHold
      <4>2. ticket[j].passed \subseteq approvedBy'[j]
        BY <1>1, <1>5 DEF ApprovalInv, Votes
      <4>3. approval = "or_sign" \/ ticket[j].passed = Approvers
        BY <1>1, <4>1 DEF ApprovalInv, Decisions, Decided
      <4>4. QED
        BY <1>5, <2>3, <4>1, <4>2, <4>3
    <3>4. QED
      BY <3>1, <3>2, <3>3
  <2>5. QED
    <3> HIDE DEF passes
    <3>1. CommitNeeds(j, passes)
      BY <2>2, <2>4 DEF CommitNeeds
    <3>2. QED
      BY <1>1, <2>1, <3>1, CommitApproved DEF ApprovalInv
<1>9. QED
  BY <1>7, <1>8

LEMMA NextStrategiesApproved ==
    ASSUME RowInv, ApprovalInv, approval # "none", [Next]_vars
    PROVE  StrategiesApproved'
<1>1. /\ strategy \in [Ids -> Rows] /\ StrategiesApproved /\ Votes /\ ReadApproved
      /\ call \in [Calls -> Requests]
  BY DEF RowInv, TypeOK, ApprovalInv
<1>2. \A i \in Ids : /\ approval' = approval /\ approvedBy[i] \subseteq approvedBy'[i]
                     /\ approvedBy'[i] \subseteq Approvers /\ unvetted \subseteq unvetted'
  BY <1>1, TicketStep, NextTypeOK DEF RowInv, Drawn, TypeOK
<1>3. CASE UNCHANGED strategy
  BY <1>1, <1>2, <1>3 DEF StrategiesApproved, RowApproved, Approved
<1>4. ASSUME NEW p \in Submitters, SubmitCommit(p) PROVE StrategiesApproved'
  <2> DEFINE s == submit[p]
  <2>1. s.pc = "begun" /\ s.type # "immediately"
    BY <1>4 DEF SubmitCommit, ApprovalInv, TypesValid, ValidType
  <2>2. strategy' = [strategy EXCEPT ![s.id] = NewRow(s.type)]
    BY <1>4 DEF SubmitCommit
  <2>3. NewRow(s.type).status = "pending_approval" /\ NewRow(s.type).progress = Approvers
    BY <2>1 DEF NewRow
  <2>4. ASSUME NEW i \in Ids PROVE RowApproved(i, strategy[i])'
    <3>1. CASE i = s.id
      <4>1. strategy'[i] = NewRow(s.type)
        BY <1>1, <2>2, <3>1
      <4>2. QED
        BY <2>3, <4>1 DEF RowApproved
    <3>2. CASE i # s.id
      <4>1. strategy'[i] = strategy[i]
        BY <1>1, <2>2, <3>2
      <4>2. QED
        BY <1>1, <1>2, <4>1 DEF StrategiesApproved, RowApproved, Approved
    <3>3. QED
      BY <3>1, <3>2
  <2>5. QED
    BY <2>4 DEF StrategiesApproved
<1>5. ASSUME NEW c \in Calls,
             RevokeApprove(c) \/ RejectApprove(c) \/ PassApprove(c) \/ PublishApprove(c)
      PROVE  StrategiesApproved'
  <2> DEFINE j == call[c].id
             now == strategy[j]
  <2>1. j \in Ids /\ now \in Rows
    BY <1>1 DEF Requests
  <2>2. ASSUME NEW row, Commit(c, row), row.status \in {"revoked_publish", "rejected_approval"}
        PROVE  StrategiesApproved'
    <3>1. CommitNeeds(j, row)
      BY <2>2 DEF CommitNeeds
    <3>2. QED
      BY <1>1, <2>1, <2>2, <3>1, CommitApproved
  <2>3. CASE RevokeApprove(c)
    BY <2>1, <2>2, <2>3 DEF RevokeApprove, Rows
  <2>4. CASE RejectApprove(c)
    BY <2>1, <2>2, <2>4 DEF RejectApprove, Rows
  <2>5. CASE PublishApprove(c)
    <3> DEFINE row == [now EXCEPT !.status = "already_publish"]
    <3>1. row.status = "already_publish"
      BY <2>1 DEF Rows
    <3>2. j \in unvetted \/ Approved(j)
      BY <1>1, <2>5 DEF PublishApprove, Decides, ReadApproved, RowApproved
    <3>3. Commit(c, row)
      BY <2>5 DEF PublishApprove
    <3> HIDE DEF row
    <3>4. CommitNeeds(j, row)
      BY <1>2, <2>1, <3>1, <3>2 DEF CommitNeeds, Approved
    <3>5. QED
      BY <1>1, <2>1, <3>3, <3>4, CommitApproved
  <2>6. QED
    BY <1>5, <2>3, <2>4, <2>5, PassApproved
<1>6. CASE JobCommit
  <2>1. ASSUME NEW i \in Ids PROVE RowApproved(i, strategy[i])'
    <3>1. strategy'[i] = CASE i \in Demoted  -> [strategy[i] EXCEPT !.type = "manually"]
                           [] i \in Launched -> [strategy[i] EXCEPT !.status = "already_publish"]
                           [] OTHER          -> strategy[i]
      BY <1>6 DEF JobCommit
    <3>2. CASE i \in Launched
      <4>1. i \notin Demoted /\ job.rows[i].status = "pending_publish"
        BY <3>2 DEF Launched
      <4>2. i \in unvetted \/ Approved(i)
        BY <4>1 DEF ApprovalInv, JobApproved, RowApproved
      <4>3. strategy'[i].status = "already_publish"
        BY <1>1, <3>1, <3>2, <4>1 DEF Rows
      <4>4. QED
        BY <1>2, <4>2, <4>3 DEF RowApproved, Approved
    <3>3. CASE i \notin Launched
      <4>1. strategy'[i].status = strategy[i].status /\ strategy'[i].progress = strategy[i].progress
        BY <1>1, <3>1, <3>3 DEF Rows
      <4>2. QED
        BY <1>1, <1>2, <4>1 DEF StrategiesApproved, RowApproved, Approved
    <3>4. QED
      BY <3>2, <3>3
  <2>2. QED
    BY <2>1 DEF StrategiesApproved
<1>7. CASE UNCHANGED vars
  BY <1>3, <1>7 DEF vars
<1>8. CASE \E p \in Submitters : Submitting(p)
  BY <1>3, <1>4, <1>8, SubmittingSteps DEF SubmitRead, SubmitBegin, Begin, SubmitFail
<1>9. CASE \E c \in Calls : Approving(c)
  BY <1>3, <1>5, <1>9
     DEF Approving, UserCall, SyncTicket, ApprovalCallback, TicketCall, Request, ReadStrategy,
         CheckTicket, ApproveFails, CommitFails, readFrame
<1>10. CASE JobRead \/ JobFails
  BY <1>3, <1>10 DEF JobRead, JobFails
<1>11. CASE Environment
  BY <1>3, <1>11 DEF Environment, TicketEnds, Withdraw, PublishTime, VotePass, VoteReject, itsmFrame
<1>12. QED
  BY <1>6, <1>7, <1>8, <1>9, <1>10, <1>11 DEF Next

\* What the job has read stays approved.
LEMMA NextJobApproved ==
    ASSUME RowInv, ApprovalInv, [Next]_vars
    PROVE  JobApproved'
<1>1. Votes /\ StrategiesApproved /\ JobApproved
  BY DEF ApprovalInv
<1>2. \A i \in Ids : /\ approval' = approval /\ approvedBy[i] \subseteq approvedBy'[i]
                     /\ approvedBy'[i] \subseteq Approvers /\ unvetted \subseteq unvetted'
  BY <1>1, TicketStep, NextTypeOK DEF RowInv, Drawn, TypeOK
<1>3. CASE UNCHANGED job
  BY <1>1, <1>2, <1>3 DEF JobApproved, RowApproved, Approved
<1>4. CASE JobRead
  <2>1. job'.rows = strategy
    BY <1>4 DEF JobRead
  <2>2. QED
    BY <1>1, <1>2, <2>1 DEF StrategiesApproved, JobApproved, RowApproved, Approved
<1>5. CASE JobCommit \/ JobFails
  <2>1. job' = NoJob
    BY <1>5 DEF JobCommit, JobFails
  <2>2. \A i \in Ids : NoJob.rows[i].status = "none"
    BY DEF NoJob, NoRow
  <2>3. QED
    BY <2>1, <2>2 DEF JobApproved, RowApproved
<1>6. CASE UNCHANGED vars
  BY <1>3, <1>6 DEF vars
<1>7. CASE \E p \in Submitters : Submitting(p)
  BY <1>3, <1>7, SubmitRows
<1>8. CASE \E c \in Calls : Approving(c)
  BY <1>3, <1>8, ApprovingKeepsJob
<1>9. CASE Environment
  BY <1>3, <1>9 DEF Environment, TicketEnds, Withdraw, PublishTime, VotePass, VoteReject, itsmFrame
<1>10. QED
  BY <1>4, <1>5, <1>6, <1>7, <1>8, <1>9 DEF Next

\* What one request has read is approved, and its claims hold when it begins and after each
\* of its steps.
RequestInv(r) == /\ r.pc \in {"read", "checked"} => RowApproved(r.id, r.row)
                 /\ r.pc # "idle" => ClaimsHold(r)

\* A request that does nothing keeps what it knows: its ticket has ended or collects votes.
LEMMA WaitingInv ==
    ASSUME RowInv, ApprovalInv, [Next]_vars, NEW d \in Calls, call'[d] = call[d]
    PROVE  RequestInv(call[d])'
<1> DEFINE r == call[d]
<1>1. r \in Requests /\ r.id \in Ids
  BY DEF RowInv, TypeOK, Requests
<1>2. Votes
  BY DEF ApprovalInv
<1>3. /\ approval' = approval /\ approvedBy[r.id] \subseteq approvedBy'[r.id]
      /\ approvedBy'[r.id] \subseteq Approvers /\ unvetted \subseteq unvetted'
      /\ ticket[r.id].passed \subseteq ticket'[r.id].passed
      /\ strategy[r.id].status # "none" /\ ticket[r.id].status # "RUNNING"
           => ticket'[r.id] = ticket[r.id]
  BY <1>1, <1>2, TicketStep, NextTypeOK DEF RowInv, Drawn, TypeOK
<1>4. r.pc \in {"read", "checked"} => RowApproved(r.id, r.row)
  BY DEF ApprovalInv, ReadApproved
<1>5. r.pc # "idle" => ClaimsHold(r) /\ strategy[r.id].status # "none"
  BY DEF ApprovalInv, Claims, RowInv, Seen
<1>6. r.pc \in {"read", "checked"} => RowApproved(call[d].id, call[d].row)'
  <2>1. call'[d].id = r.id /\ call'[d].row = r.row
    OBVIOUS
  <2> DEFINE row == r.row
  <2>2. ASSUME r.pc \in {"read", "checked"}, row.status \in {"pending_publish", "already_publish"}
        PROVE  (call[d].id \in unvetted)' \/ Approved(call[d].id)'
    <3>1. r.id \in unvetted \/ Approved(r.id)
      BY <1>4, <2>2 DEF RowApproved
    <3>2. r.id \in unvetted' \/ IF approval' = "or_sign" THEN approvedBy'[r.id] # {} ELSE approvedBy'[r.id] = Approvers
      <4>1. approvedBy[r.id] # {} => approvedBy'[r.id] # {}
        BY <1>3
      <4>2. approvedBy[r.id] = Approvers => approvedBy'[r.id] = Approvers
        BY <1>3
      <4>3. QED
        BY <1>3, <3>1, <4>1, <4>2 DEF Approved
    <3>3. QED
      BY <2>1, <3>2 DEF Approved
  <2>3. ASSUME r.pc \in {"read", "checked"}, row.status = "pending_approval"
        PROVE  row.progress \subseteq Approvers /\ Approvers \ row.progress \subseteq approvedBy'[r.id]
    BY <1>3, <1>4, <2>3 DEF RowApproved
  <2>4. QED
    BY <2>1, <2>2, <2>3 DEF RowApproved
<1>7. r.pc # "idle" => ClaimsHold(call[d])'
  BY <1>3, <1>5 DEF ClaimsHold
<1>8. QED
  BY <1>6, <1>7 DEF RequestInv

\* The step of a request itself; nothing but the request changes.
LEMMA StepInv ==
    ASSUME RowInv, ApprovalInv, approval # "none", EnableV4, NEW c \in Calls,
           \/ UserCall(c) \/ ReadStrategy(c) \/ CheckTicket(c) \/ ApproveFails(c)
           \/ \E i \in Ids : SyncTicket(c, i) \/ ApprovalCallback(c, i)
    PROVE  RequestInv(call[c])' /\ \A d \in Calls \ {c} : call'[d] = call[d]
<1> USE DEF readFrame, callFrame
<1>1. /\ call \in [Calls -> Requests] /\ strategy \in [Ids -> Rows] /\ ticket \in [Ids -> Tickets]
      /\ StrategiesApproved
  BY DEF RowInv, TypeOK, ApprovalInv
<1> DEFINE goal == RequestInv(call[c])' /\ \A d \in Calls \ {c} : call'[d] = call[d]
<1>2. ASSUME NEW r, call' = [call EXCEPT ![c] = r],
             UNCHANGED <<approval, ticket, approvedBy, unvetted>>,
             r.pc \in {"read", "checked"} => RowApproved(r.id, r.row),
             r.pc # "idle" => ClaimsHold(r)
      PROVE  goal
  <2>1. call'[c] = r /\ \A d \in Calls \ {c} : call'[d] = call[d]
    BY <1>1, <1>2
  <2>2. RequestInv(call[c])'
    BY <1>2, <2>1 DEF RequestInv, RowApproved, Approved, ClaimsHold
  <2>3. QED
    BY <2>1, <2>2
<1>3. CASE ApproveFails(c)
  BY <1>2, <1>3 DEF ApproveFails, Idle
<1>4. CASE UserCall(c)
  <2>1. PICK i \in Visible, way \in Ways, u \in Users, want \in Wants :
          Request(c, [Idle EXCEPT !.pc = "read", !.from = way, !.user = u, !.id = i,
                                  !.want = want, !.row = strategy[i]])
    BY <1>4 DEF UserCall
  <2> DEFINE r == [Idle EXCEPT !.pc = "read", !.from = way, !.user = u, !.id = i,
                               !.want = want, !.row = strategy[i]]
  <2>2. r.pc = "read" /\ r.from # "itsm" /\ r.id = i /\ r.row = strategy[i] /\ r.by = {}
    BY DEF Idle, Ways
  <2>3. i \in Ids
    BY DEF Visible
  <2>4. Request(c, r)
    BY <2>1
  <2> HIDE DEF r
  <2>5. RowApproved(r.id, r.row) /\ ClaimsHold(r)
    BY <1>1, <2>2, <2>3 DEF StrategiesApproved, ClaimsHold
  <2>6. QED
    BY <1>2, <2>4, <2>5 DEF Request
<1>5. CASE \E i \in Ids : SyncTicket(c, i) \/ ApprovalCallback(c, i)
  <2>1. PICK i \in Ids : TicketCall(c, i) /\ ticket[i].status # "RUNNING"
    BY <1>5 DEF SyncTicket, ApprovalCallback
  <2> DEFINE t == ticket[i]
             w == IF t.rejected # {} THEN "rejected_approval" ELSE "pending_publish"
             b == IF t.rejected # {} THEN t.rejected ELSE t.passed
             r == [Idle EXCEPT !.pc = "called", !.id = i, !.want = w, !.by = b]
  <2>2. Request(c, r) /\ t.passed \cup t.rejected # {}
    BY <2>1 DEF TicketCall
  <2>3. r.pc = "called" /\ r.from = "itsm" /\ r.id = i /\ r.want = w /\ r.by = b
    BY DEF Idle
  <2>4. w = "pending_publish" => t.rejected = {} /\ b = t.passed
    OBVIOUS
  <2> HIDE DEF r, w, b
  <2>5. ClaimsHold(r)
    BY <2>1, <2>2, <2>3, <2>4 DEF ClaimsHold
  <2>6. QED
    BY <1>2, <2>2, <2>3, <2>5 DEF Request
<1>6. CASE ReadStrategy(c)
  <2> DEFINE r == call[c]
             row == strategy[r.id]
             next == [r EXCEPT !.pc = "read", !.row = row]
  <2>1. r \in Requests /\ r.id \in Ids /\ r.pc = "called" /\ ClaimsHold(r)
    BY <1>1, <1>6 DEF Requests, ReadStrategy, ApprovalInv, Claims
  <2>2. /\ next.pc = "read" /\ next.row = row /\ next.id = r.id /\ next.from = r.from
        /\ next.want = r.want /\ next.by = r.by
    BY <2>1 DEF Requests
  <2>3. call' = [call EXCEPT ![c] = next] \/ call' = [call EXCEPT ![c] = Idle]
    BY <1>6 DEF ReadStrategy
  <2> HIDE DEF next
  <2>4. RowApproved(next.id, next.row) /\ ClaimsHold(next)
    BY <1>1, <2>1, <2>2 DEF StrategiesApproved, ClaimsHold
  <2>5. QED
    BY <1>2, <1>6, <2>3, <2>4 DEF ReadStrategy, Idle
<1>7. CASE CheckTicket(c)
  <2> DEFINE r == call[c]
             t == ticket[r.id]
             v == Checked(r, t)
  <2>1. r \in Requests /\ r.id \in Ids /\ r.pc = "read" /\ ClaimsHold(r) /\ t \in Tickets
        /\ RowApproved(r.id, r.row)
    BY <1>1, <1>7 DEF Requests, CheckTicket, ApprovalInv, Claims, ReadApproved
  <2>2. PICK u : call' = [call EXCEPT ![c] = [v EXCEPT !.pc = "checked", !.user = u]]
    BY <1>7 DEF CheckTicket
  <2>3. v \in Requests /\ v.id = r.id /\ v.row = r.row /\ v.from = r.from
    BY <2>1, CheckedType
  <2>4. v.want = "pending_publish" => v.by \subseteq t.passed
    BY <2>1 DEF Checked, Running, ClaimsHold, Requests
  <2>5. r.from = "itsm" /\ v.want = "pending_publish" => r.want = "pending_publish" /\ t.status = "FINISHED"
    BY <2>1 DEF Checked, ClaimsHold, Requests
  <2> DEFINE next == [v EXCEPT !.pc = "checked", !.user = u]
  <2> HIDE DEF v
  <2>6. /\ next.pc = "checked" /\ next.row = r.row /\ next.id = r.id /\ next.from = r.from
        /\ next.want = v.want /\ next.by = v.by
    BY <2>3 DEF Requests
  <2> HIDE DEF next
  <2>7. RowApproved(next.id, next.row)
    BY <2>1, <2>6
  <2>8. ClaimsHold(next)
    BY <2>1, <2>4, <2>5, <2>6 DEF ClaimsHold
  <2>9. call' = [call EXCEPT ![c] = next] /\ UNCHANGED <<approval, ticket, approvedBy, unvetted>>
    BY <1>7, <2>2 DEF CheckTicket, next
  <2>10. QED
    BY <1>2, <2>7, <2>8, <2>9
<1>8. QED
  BY <1>3, <1>4, <1>5, <1>6, <1>7

LEMMA NextRequestInv ==
    ASSUME RowInv, ApprovalInv, approval # "none", EnableV4, [Next]_vars
    PROVE  ReadApproved' /\ Claims'
<1> SUFFICES ASSUME NEW d \in Calls PROVE RequestInv(call[d])'
  BY DEF RequestInv, ReadApproved, Claims
<1>1. call'[d] = call[d] => RequestInv(call[d])'
  BY WaitingInv
<1>2. CASE UNCHANGED call
  BY <1>1, <1>2
<1>3. ASSUME NEW c \in Calls, Approving(c) PROVE RequestInv(call[d])'
  <2>1. CASE \/ UserCall(c) \/ ReadStrategy(c) \/ CheckTicket(c) \/ ApproveFails(c)
             \/ \E i \in Ids : SyncTicket(c, i) \/ ApprovalCallback(c, i)
    BY <1>1, <2>1, StepInv
  <2>2. CASE \/ RevokeApprove(c) \/ RejectApprove(c) \/ PassApprove(c) \/ PublishApprove(c)
             \/ CommitFails(c)
    <3>1. call' = [call EXCEPT ![c] = Idle]
      BY <2>2, DecideKeepsRows DEF CommitFails
    <3>2. call'[d] = call[d] \/ call'[d] = Idle
      BY <3>1 DEF RowInv, TypeOK
    <3>3. call'[d] = Idle => RequestInv(call[d])'
      BY DEF RequestInv, Idle
    <3>4. QED
      BY <1>1, <3>2, <3>3
  <2>3. QED
    BY <1>3, <2>1, <2>2 DEF Approving
<1>4. CASE UNCHANGED vars
  BY <1>2, <1>4 DEF vars
<1>5. CASE \E p \in Submitters : Submitting(p)
  BY <1>2, <1>5, SubmitRows
<1>6. CASE JobRead \/ JobCommit \/ JobFails
  BY <1>2, <1>6 DEF JobRead, JobCommit, JobFails, jobFrame
<1>7. CASE Environment
  BY <1>2, <1>7 DEF Environment, TicketEnds, Withdraw, PublishTime, VotePass, VoteReject, itsmFrame
<1>8. QED
  BY <1>3, <1>4, <1>5, <1>6, <1>7 DEF Next

\* The invariant of an app that asks for approval; the setting never changes.
Guarded == RowInv /\ (approval # "none" => ApprovalInv)

LEMMA InitGuarded == Init => Guarded
<1> SUFFICES ASSUME Init PROVE Guarded
  OBVIOUS
<1>1. \A i \in Ids : strategy[i] = NoRow /\ ticket[i] = NoTicket /\ NoJob.rows[i] = NoRow
  BY DEF Init, NoJob
<1>2. /\ NoRow.status = "none" /\ Idle.pc = "idle" /\ NoSubmission.pc = "idle"
      /\ NoTicket.passed = {} /\ NoTicket.status = "none"
  BY DEF NoRow, Idle, NoSubmission, NoTicket
<1>3. StrategiesApproved
  BY <1>1, <1>2 DEF StrategiesApproved, RowApproved
<1>4. JobApproved
  BY <1>1, <1>2 DEF Init, JobApproved, RowApproved
<1>5. ReadApproved /\ Claims
  BY <1>2 DEF Init, ReadApproved, Claims
<1>6. TypesValid
  BY <1>2 DEF Init, TypesValid
<1>7. Votes /\ Decisions
  BY <1>1, <1>2 DEF Votes, Decisions
<1>8. QED
  BY <1>3, <1>4, <1>5, <1>6, <1>7, InitRowInv DEF Guarded, ApprovalInv

LEMMA NextGuarded ==
    ASSUME Guarded, EnableV4, [Next]_vars
    PROVE  Guarded'
<1>1. RowInv'
  BY NextRowInv DEF Guarded
<1>2. approval' = approval
  <2>1. CASE UNCHANGED vars
    BY <2>1 DEF vars
  <2>2. ASSUME NEW p \in Submitters, Submitting(p) PROVE approval' = approval
    BY <2>2 DEF Submitting, SubmitRead, SubmitBegin, GenerateBegin, Begin, SubmitCommit,
                SubmitFail, submitFrame
  <2>3. ASSUME NEW c \in Calls, Approving(c) PROVE approval' = approval
    <3>1. CASE \/ UserCall(c) \/ ReadStrategy(c) \/ CheckTicket(c) \/ ApproveFails(c)
               \/ CommitFails(c)
               \/ \E i \in Ids : SyncTicket(c, i) \/ ApprovalCallback(c, i)
      BY <3>1 DEF UserCall, SyncTicket, ApprovalCallback, TicketCall, Request, ReadStrategy,
                  CheckTicket, ApproveFails, CommitFails, readFrame, callFrame
    <3>2. CASE RevokeApprove(c) \/ RejectApprove(c) \/ PassApprove(c) \/ PublishApprove(c)
      BY <3>2 DEF RevokeApprove, RejectApprove, PassApprove, PublishApprove, Commit, callFrame
    <3>3. QED
      BY <2>3, <3>1, <3>2 DEF Approving
  <2>4. CASE JobRead \/ JobCommit \/ JobFails
    BY <2>4 DEF JobRead, JobCommit, JobFails, jobFrame
  <2>5. CASE Environment
    BY <2>5 DEF Environment, TicketEnds, Withdraw, PublishTime, VotePass, VoteReject, itsmFrame
  <2>6. QED
    BY <2>1, <2>2, <2>3, <2>4, <2>5 DEF Next
<1>3. ASSUME approval # "none" PROVE ApprovalInv'
  <2>1. RowInv /\ ApprovalInv
    BY <1>3 DEF Guarded
  <2>2. StrategiesApproved'
    BY <1>3, <2>1, NextStrategiesApproved
  <2>3. JobApproved'
    BY <2>1, NextJobApproved
  <2>4. ReadApproved' /\ Claims'
    BY <1>3, <2>1, NextRequestInv
  <2>5. TypesValid'
    BY <2>1, NextTypesValid DEF ApprovalInv
  <2>6. Votes' /\ Decisions'
    BY <2>1, NextVotes DEF ApprovalInv
  <2>7. QED
    BY <2>2, <2>3, <2>4, <2>5, <2>6 DEF ApprovalInv
<1>4. QED
  BY <1>1, <1>2, <1>3 DEF Guarded

\* With ITSM v4, whose tickets are looked at only when they have ended, no order of an app that
\* asks for approval ever waits for publishing or is published without the approval of one
\* approver (or-sign) or of every approver (countersign), however the page, the API, the
\* callback, the polling and the scheduled job overlap; unless an API request passed it that
\* passApprove took for ITSM's or did not check (the orders in unvetted).
THEOREM PassesOnlyApproved == ASSUME EnableV4 PROVE Spec => []ApprovedAsRequired
<1>1. Guarded => ApprovedAsRequired
  BY DEF Guarded, ApprovalInv, StrategiesApproved, RowApproved, Approved, ApprovedAsRequired
<1>2. Guarded /\ [Next]_vars => Guarded'
  BY NextGuarded
<1>3. QED
  BY <1>1, <1>2, InitGuarded, PTL DEF Spec

=============================================================================
