------------------------- MODULE PublishOrder_proof -------------------------
(***************************************************************************)
(* Theorems about the order in which releases go through PublishApproval:  *)
(* one at a time, none forgotten by the job, and as ReleaseOrder says.     *)
(***************************************************************************)
EXTENDS PublishApproval_proof

-----------------------------------------------------------------------------
(* What a step may make of a row. *)

\* A row moves on from the status its writer had seen, or is written over.
RowMoves(i) ==
    \/ strategy'[i].status = strategy[i].status
    \/ i \in stale'
    \/ Order!May(strategy[i].status, strategy'[i].status)

\* A row that is changed after its publish time is late.
RowKept(i) == strategy'[i] = strategy[i] \/ (i \in due => i \in late')

LEMMA CommitMoves ==
    ASSUME RowInv, NEW c \in Calls, NEW row \in Rows, Commit(c, row),
           \/ row.status = call[c].row.status
           \/ Order!May(call[c].row.status, row.status),
           row.type = strategy[call[c].id].type
    PROVE  /\ \A i \in Ids : /\ RowMoves(i) /\ RowKept(i)
                             /\ strategy'[i].type = strategy[i].type
           /\ UNCHANGED <<queue, due, job, submit, maxID>>
           /\ stale \subseteq stale' /\ late \subseteq late'
           /\ \A i \in stale' : i \in stale \/ strategy[i].status # "none" \/ call[c].pc = "idle"
<1> DEFINE i == call[c].id
<1>1. i \in Ids /\ strategy \in [Ids -> Rows]
  BY DEF RowInv, TypeOK, Requests
<1>2. strategy'[i] = row /\ \A j \in Ids \ {i} : strategy'[j] = strategy[j]
  BY <1>1 DEF Commit
<1>3. stale' = IF strategy[i].status = call[c].row.status THEN stale ELSE stale \cup {i}
  BY DEF Commit
<1>4. RowMoves(i) /\ RowKept(i) /\ strategy'[i].type = strategy[i].type
  <2>1. RowKept(i)
    BY DEF Commit, RowKept
  <2>2. RowMoves(i)
    BY <1>2, <1>3 DEF RowMoves
  <2>3. QED
    BY <1>2, <2>1, <2>2
<1>5. call[c].pc # "idle" => strategy[i].status # "none"
  BY DEF RowInv, Seen
<1>6. UNCHANGED <<queue, due, job, submit, maxID>> /\ late \subseteq late'
  BY DEF Commit, callFrame
<1>7. \A j \in Ids \ {i} : RowMoves(j) /\ RowKept(j) /\ strategy'[j].type = strategy[j].type
  BY <1>2 DEF RowMoves, RowKept
<1> HIDE DEF i
<1>8. QED
  BY <1>3, <1>4, <1>5, <1>6, <1>7

\* A request changes no row, or its own as the flow allows.
LEMMA ApprovingMoves ==
    ASSUME RowInv, NEW c \in Calls, Approving(c)
    PROVE  /\ \A i \in Ids : /\ RowMoves(i) /\ RowKept(i)
                             /\ strategy'[i].type = strategy[i].type
           /\ UNCHANGED <<queue, due, job, submit, maxID>>
           /\ stale \subseteq stale' /\ late \subseteq late'
           /\ \A i \in stale' : i \in stale \/ strategy[i].status # "none"
<1> DEFINE r == call[c]
           now == strategy[r.id]
           goal == /\ \A i \in Ids : /\ RowMoves(i) /\ RowKept(i)
                                     /\ strategy'[i].type = strategy[i].type
                   /\ UNCHANGED <<queue, due, job, submit, maxID>>
                   /\ stale \subseteq stale' /\ late \subseteq late'
                   /\ \A i \in stale' : i \in stale \/ strategy[i].status # "none"
<1>1. r \in Requests /\ r.id \in Ids /\ r.row \in Rows /\ now \in Rows /\ approval \in Approvals
  BY DEF RowInv, TypeOK, Requests
<1>2. r.user \in Users /\ r.by \subseteq Users /\ r.row.progress \subseteq Users
      /\ Approvers \subseteq Users /\ Creator \in Users
  BY <1>1 DEF Requests, Rows, Users
<1>3. ASSUME NEW row \in Rows, Commit(c, row), r.pc # "idle", row.type = now.type,
             row.status = r.row.status \/ Order!May(r.row.status, row.status)
      PROVE  goal
  BY <1>3, CommitMoves
<1>4. CASE RevokeApprove(c)
  <2> DEFINE row == [now EXCEPT !.status = "revoked_publish", !.progress = {Creator}, !.itsm = "revoked"]
  <2>1. row \in Rows /\ row.status = "revoked_publish" /\ row.type = now.type
    BY <1>1, <1>2 DEF Rows, Statuses, Ended, TicketStatuses
  <2>2. r.row.status \in UnderWay /\ r.pc = "checked" /\ Commit(c, row)
    BY <1>4 DEF RevokeApprove, Decides
  <2>3. Order!May(r.row.status, "revoked_publish")
    BY <2>2 DEF UnderWay, Order!May, Order!Ended
  <2> HIDE DEF row
  <2>4. QED
    BY <1>3, <2>1, <2>2, <2>3
<1>5. CASE RejectApprove(c)
  <2>1. PICK rejector \in Rejectors(r) :
             Commit(c, [strategy[r.id] EXCEPT !.status = "rejected_approval",
                                              !.progress = {rejector}, !.itsm = "rejected"])
    BY <1>5 DEF RejectApprove
  <2> DEFINE row == [now EXCEPT !.status = "rejected_approval", !.progress = {rejector},
                                !.itsm = "rejected"]
  <2>2. row \in Rows /\ row.status = "rejected_approval" /\ row.type = now.type
    BY <1>1, <1>2 DEF Rejectors, Rows, Statuses, Ended, TicketStatuses
  <2>3. r.row.status = "pending_approval" /\ r.pc = "checked" /\ Commit(c, row)
    BY <1>5, <2>1 DEF RejectApprove, Decides
  <2>4. Order!May(r.row.status, "rejected_approval")
    BY <2>3 DEF Order!May, Order!Ended
  <2> HIDE DEF row
  <2>5. QED
    BY <1>3, <2>2, <2>3, <2>4
<1>6. CASE PassApprove(c)
  <2> DEFINE waits == [now EXCEPT !.status = "pending_approval", !.progress = Remaining(r)]
             st == IF r.row.type = "automatically" THEN "already_publish" ELSE "pending_publish"
             pr == IF approval = "or_sign" THEN {r.user} ELSE Approvers
             passes == [now EXCEPT !.status = st, !.progress = pr, !.itsm = "passed"]
  <2>1. Remaining(r) \in SUBSET Users
    BY <1>2 DEF Remaining
  <2>2. waits \in Rows /\ waits.status = "pending_approval" /\ waits.type = now.type
    BY <1>1, <2>1 DEF Rows, Statuses, UnderWay
  <2>3. st \in {"already_publish", "pending_publish"} /\ pr \in SUBSET Users
    BY <1>2
  <2>4. r.row.status = "pending_approval" /\ r.pc = "checked" /\ \E row \in {waits, passes} : Commit(c, row)
    BY <1>6 DEF PassApprove, MayPass, Decides
  <2>5. passes \in Rows /\ passes.status = st /\ passes.type = now.type
    <3>1. st \in Statuses
      BY DEF Statuses, UnderWay, Ended
    <3> HIDE DEF st, pr
    <3>2. QED
      BY <1>1, <2>3, <3>1 DEF Rows, TicketStatuses
  <2>6. Order!May(r.row.status, st)
    BY <2>3, <2>4 DEF Order!May, Order!Ended
  <2> HIDE DEF waits, passes, st
  <2>7. QED
    BY <1>3, <2>2, <2>4, <2>5, <2>6
<1>7. CASE PublishApprove(c)
  <2> DEFINE row == [now EXCEPT !.status = "already_publish"]
  <2>1. row \in Rows /\ row.status = "already_publish" /\ row.type = now.type
    BY <1>1 DEF Rows, Statuses, Ended
  <2>2. r.row.status = "pending_publish" /\ r.pc = "checked" /\ Commit(c, row)
    BY <1>7 DEF PublishApprove, Decides
  <2>3. Order!May(r.row.status, "already_publish")
    BY <2>2 DEF Order!May
  <2> HIDE DEF row
  <2>4. QED
    BY <1>3, <2>1, <2>2, <2>3
<1>8. CASE UNCHANGED <<callFrame, strategy, late, stale>>
  BY <1>8 DEF callFrame, RowMoves, RowKept
<1>9. QED
  BY <1>4, <1>5, <1>6, <1>7, <1>8
     DEF Approving, UserCall, SyncTicket, ApprovalCallback, TicketCall, Request, ReadStrategy,
         CheckTicket, ApproveFails, CommitFails, readFrame

\* The job changes what it hands over and what it publishes.
LEMMA JobMoves ==
    ASSUME RowInv, JobCommit, NEW i \in Ids
    PROVE  /\ RowMoves(i)
           /\ i \notin Demoted \cup Launched => strategy'[i] = strategy[i]
           /\ i \in Demoted => strategy'[i].status = strategy[i].status
           /\ i \in stale' => i \in stale \/ strategy[i].status # "none"
<1>1. Launched \cap Demoted = {} /\ strategy[i] \in Rows
  BY DEF Launched, RowInv, TypeOK
<1>2. strategy'[i] = CASE i \in Demoted  -> [strategy[i] EXCEPT !.type = "manually"]
                       [] i \in Launched -> [strategy[i] EXCEPT !.status = "already_publish"]
                       [] OTHER          -> strategy[i]
  BY DEF JobCommit
<1>3. CASE i \in Launched
  <2>1. job.rows[i].status = "pending_publish" /\ strategy'[i].status = "already_publish"
    BY <1>1, <1>2, <1>3 DEF Launched, Rows
  <2>2. strategy[i].status = "pending_publish" \/ i \in stale'
    BY <1>3, <2>1 DEF JobCommit
  <2>3. strategy[i].status # "none"
    BY <2>1 DEF RowInv, Seen
  <2>4. QED
    BY <1>1, <1>3, <2>1, <2>2, <2>3 DEF RowMoves, Order!May
<1>4. CASE i \in Demoted
  <2>1. strategy'[i].status = strategy[i].status
    BY <1>1, <1>2, <1>4 DEF Rows
  <2>2. QED
    BY <1>1, <1>4, <2>1 DEF RowMoves, JobCommit
<1>5. CASE i \notin Demoted \cup Launched
  BY <1>2, <1>5 DEF RowMoves, JobCommit
<1>6. QED
  BY <1>3, <1>4, <1>5

-----------------------------------------------------------------------------
(* One order is under way at a time. *)

\* Only the last row may be under way.
Ordered ==
    stale = {} => \A i, j \in Visible : i < j => strategy[i].status \notin UnderWay

\* A submission has seen the last row ended, and its id is behind that row.
Checks ==
    \A p \in Submitters :
        submit[p].pc # "idle" =>
            /\ submit[p].last \in 0..maxID
            /\ submit[p].lastStatus \notin UnderWay
            /\ submit[p].pc = "begun" => submit[p].last < submit[p].id

StaleSeen == \A i \in stale : strategy[i].status # "none"

OrderInv == RowInv /\ Ordered /\ Checks /\ StaleSeen

LEMMA LastDrawn ==
    ASSUME RowInv, NEW i, IsLast(i)
    PROVE  i \in 0..maxID
BY DEF IsLast, Visible, RowInv, Drawn, EmptyIds, TypeOK, Ids

LEMMA NextChecks ==
    ASSUME OrderInv, NEW p \in Submitters, Submitting(p)
    PROVE  Checks'
<1>1. /\ submit \in [Submitters -> Submissions] /\ maxID \in Nat /\ RowInv
  BY DEF OrderInv, RowInv, TypeOK
<1>2. ASSUME \A q \in Submitters \ {p} : submit'[q] = submit[q], maxID' \in Nat, maxID <= maxID',
             submit'[p].pc # "idle" => /\ submit'[p].last \in 0..maxID'
                                       /\ submit'[p].lastStatus \notin UnderWay
                                       /\ submit'[p].pc = "begun" => submit'[p].last < submit'[p].id
      PROVE  Checks'
  <2>1. ASSUME NEW q \in Submitters \ {p}, submit[q].pc # "idle"
        PROVE  submit[q].last \in 0..maxID'
    BY <1>1, <1>2, <2>1 DEF OrderInv, Checks
  <2>2. QED
    BY <1>2, <2>1 DEF OrderInv, Checks
<1>3. CASE SubmitRead(p)
  <2>1. PICK last : /\ IsLast(last) /\ StatusOf(last) \notin UnderWay
                    /\ submit' = [submit EXCEPT ![p] = [NoSubmission EXCEPT !.pc = "checked", !.last = last,
                                                           !.lastStatus = StatusOf(last)]]
    BY <1>3 DEF SubmitRead
  <2>2. last \in 0..maxID /\ maxID' = maxID
    BY <1>1, <1>3, <2>1, LastDrawn DEF SubmitRead
  <2>3. /\ submit'[p].last = last /\ submit'[p].lastStatus = StatusOf(last) /\ submit'[p].pc = "checked"
        /\ \A q \in Submitters \ {p} : submit'[q] = submit[q]
    BY <1>1, <2>1 DEF NoSubmission
  <2>4. QED
    BY <1>1, <1>2, <2>1, <2>2, <2>3
<1>4. CASE SubmitBegin(p)
  <2>1. PICK type : /\ submit' = [submit EXCEPT ![p].pc = "begun", ![p].id = maxID + 1, ![p].type = type]
                    /\ maxID' = maxID + 1 /\ submit[p].pc = "checked"
    BY <1>4 DEF SubmitBegin, Begin
  <2>2. /\ submit'[p].last = submit[p].last /\ submit'[p].lastStatus = submit[p].lastStatus
        /\ submit'[p].id = maxID + 1
        /\ \A q \in Submitters \ {p} : submit'[q] = submit[q]
    BY <1>1, <2>1 DEF Submissions
  <2>3. submit[p].last \in 0..maxID /\ submit[p].lastStatus \notin UnderWay
    BY <2>1 DEF OrderInv, Checks
  <2>4. QED
    BY <1>1, <1>2, <2>1, <2>2, <2>3
<1>5. CASE SubmitCommit(p) \/ SubmitFail(p)
  <2>1. submit' = [submit EXCEPT ![p] = NoSubmission] /\ maxID' = maxID
    BY <1>5 DEF SubmitCommit, SubmitFail
  <2>2. submit'[p].pc = "idle" /\ \A q \in Submitters \ {p} : submit'[q] = submit[q]
    BY <1>1, <2>1 DEF NoSubmission
  <2>3. QED
    BY <1>1, <1>2, <2>1, <2>2
<1>6. QED
  BY <1>3, <1>4, <1>5, SubmittingSteps

\* A new order that is not stale comes behind all others, and all of them have ended if they
\* were in order.
LEMMA CommitAfterAll ==
    ASSUME OrderInv, NEW p \in Submitters, SubmitCommit(p)
    PROVE  LET s == submit[p] IN
           /\ s.id \in Ids /\ strategy[s.id].status = "none" /\ s.id \notin stale
           /\ strategy' = [strategy EXCEPT ![s.id] = NewRow(s.type)]
           /\ NewRow(s.type) \in Rows /\ NewRow(s.type).status \in Order!Submissions
           /\ stale' = stale \/ stale' = stale \cup {s.id}
           /\ stale' = stale =>
                /\ \A i \in Visible : i < s.id
                /\ stale = {} => \A i \in Visible : strategy[i].status \notin UnderWay
<1> DEFINE s == submit[p]
<1>1. /\ s.pc = "begun" /\ s.id \in 1..maxID /\ s.id \in Ids /\ strategy[s.id].status = "none"
      /\ s.type \in Types /\ approval \in Approvals /\ s.last \in 0..maxID /\ s.last < s.id
      /\ s.lastStatus \notin UnderWay
  BY DEF OrderInv, RowInv, Drawn, DrawnIds, EmptyIds, TypeOK, SubmitCommit, Submissions, Ids, Checks
<1>2. s.id \notin stale
  BY <1>1 DEF OrderInv, StaleSeen
<1>3. NewRow(s.type) \in Rows /\ NewRow(s.type).status \in Order!Submissions
  BY <1>1 DEF NewRow, Rows, Statuses, UnderWay, Ended, Users, TicketStatuses, Order!Submissions
<1>4. ASSUME stale' = stale
      PROVE  /\ \A i \in Visible : i < s.id
             /\ stale = {} => \A i \in Visible : strategy[i].status \notin UnderWay
  <2>1. IsLast(s.last) /\ StatusOf(s.last) = s.lastStatus
    BY <1>2, <1>4 DEF SubmitCommit
  <2>2. Visible \subseteq Nat /\ maxID \in Nat
    BY DEF Visible, Ids, OrderInv, RowInv, TypeOK
  <2>3. \A i \in Visible : i <= s.last
    BY <2>1 DEF IsLast
  <2>4. ASSUME stale = {}, NEW i \in Visible PROVE strategy[i].status \notin UnderWay
    <3>1. CASE i = s.last
      BY <1>1, <2>1, <2>2, <3>1 DEF StatusOf, Visible, Ids
    <3>2. CASE i # s.last
      <4>1. i < s.last /\ s.last # 0
        BY <1>1, <2>2, <2>3, <3>2
      <4>2. s.last \in Visible
        BY <2>1, <4>1 DEF IsLast
      <4>3. QED
        BY <2>4, <4>1, <4>2 DEF OrderInv, Ordered
    <3>3. QED
      BY <3>1, <3>2
  <2>5. ASSUME NEW i \in Visible PROVE i < s.id
    <3>1. i \in Nat /\ s.last \in Int /\ s.id \in Int /\ s.last < s.id /\ i <= s.last
      BY <1>1, <2>2, <2>3
    <3> HIDE DEF s
    <3>2. QED
      BY <3>1
  <2>6. QED
    BY <2>4, <2>5
<1>5. /\ strategy' = [strategy EXCEPT ![s.id] = NewRow(s.type)]
      /\ stale' = stale \/ stale' = stale \cup {s.id}
  BY DEF SubmitCommit
<1> HIDE DEF s
<1>6. QED
  BY <1>1, <1>2, <1>3, <1>4, <1>5 DEF s

\* Rows that only move on keep their order.
LEMMA MovesOrdered ==
    ASSUME OrderInv, \A i \in Ids : RowMoves(i), stale \subseteq stale',
           \A i \in Ids : strategy'[i].status = "none" <=> strategy[i].status = "none"
    PROVE  Ordered'
<1> SUFFICES ASSUME stale' = {}, NEW i \in Visible', NEW j \in Visible', i < j
             PROVE  strategy'[i].status \notin UnderWay
  BY DEF Ordered
<1>1. i \in Visible /\ j \in Visible
  BY DEF Visible
<1>2. strategy[i].status \notin UnderWay
  BY <1>1 DEF OrderInv, Ordered
<1>3. RowMoves(i)
  BY DEF Visible
<1>4. QED
  BY <1>2, <1>3 DEF RowMoves, Order!May, UnderWay

LEMMA NextOrderInv ==
    ASSUME OrderInv, [Next]_vars
    PROVE  OrderInv'
<1>1. RowInv' /\ RowInv
  BY NextRowInv DEF OrderInv
<1>2. ASSUME UNCHANGED <<strategy, stale>> PROVE Ordered' /\ StaleSeen'
  BY <1>2 DEF OrderInv, Ordered, StaleSeen, Visible
<1>3. CASE UNCHANGED vars
  <2>1. Checks'
    BY <1>3 DEF vars, OrderInv, Checks
  <2>2. QED
    BY <1>1, <1>2, <1>3, <2>1 DEF vars, OrderInv
<1>4. ASSUME NEW p \in Submitters, Submitting(p) PROVE OrderInv'
  <2>1. CASE SubmitCommit(p)
    <3> DEFINE s == submit[p]
    <3>1. /\ s.id \in Ids /\ strategy' = [strategy EXCEPT ![s.id] = NewRow(s.type)]
          /\ NewRow(s.type) \in Rows /\ NewRow(s.type).status \in Order!Submissions
          /\ stale' = stale \/ stale' = stale \cup {s.id}
          /\ stale' = stale =>
               /\ \A i \in Visible : i < s.id
               /\ stale = {} => \A i \in Visible : strategy[i].status \notin UnderWay
      BY <2>1, CommitAfterAll
    <3>2. strategy'[s.id] = NewRow(s.type) /\ \A i \in Ids \ {s.id} : strategy'[i] = strategy[i]
      BY <1>1, <3>1 DEF RowInv, TypeOK
    <3> HIDE DEF s
    <3>3. Ordered'
      <4> SUFFICES ASSUME stale' = {}, NEW i \in Visible', NEW j \in Visible', i < j
                   PROVE  strategy'[i].status \notin UnderWay
        BY DEF Ordered
      <4>1. stale = {} /\ stale' = stale
        BY <3>1
      <4>2. i \in Ids /\ j \in Ids /\ strategy'[i].status # "none" /\ strategy'[j].status # "none"
        BY DEF Visible
      <4>3. i # s.id
        <5>1. ASSUME i = s.id PROVE FALSE
          <6>1. j # s.id /\ j \in Visible
            BY <3>2, <4>2, <5>1 DEF Visible, Ids
          <6>2. QED
            BY <3>1, <4>1, <4>2, <5>1, <6>1 DEF Ids
        <5>2. QED
          BY <5>1
      <4>4. QED
        BY <3>1, <3>2, <4>1, <4>2, <4>3 DEF Visible
    <3>4. StaleSeen'
      <4>1. NewRow(s.type).status # "none"
        BY <3>1 DEF Order!Submissions
      <4>2. stale \subseteq Ids
        BY <1>1 DEF RowInv, TypeOK
      <4>3. QED
        BY <3>1, <3>2, <4>1, <4>2 DEF StaleSeen, OrderInv
    <3>5. QED
      BY <1>1, <1>4, <3>3, <3>4, NextChecks DEF OrderInv
  <2>2. CASE SubmitRead(p) \/ SubmitBegin(p) \/ SubmitFail(p)
    <3>1. UNCHANGED <<strategy, stale>>
      BY <2>2 DEF SubmitRead, SubmitBegin, Begin, SubmitFail
    <3>2. QED
      BY <1>1, <1>2, <1>4, <3>1, NextChecks DEF OrderInv
  <2>3. QED
    BY <1>4, <2>1, <2>2, SubmittingSteps
<1>5. ASSUME \A i \in Ids : RowMoves(i), stale \subseteq stale', UNCHANGED <<submit, maxID>>,
             \A i \in stale' : i \in stale \/ strategy[i].status # "none",
             \A i \in Ids : strategy'[i].status = "none" <=> strategy[i].status = "none"
      PROVE  OrderInv'
  <2>1. Checks'
    BY <1>5 DEF OrderInv, Checks
  <2>2. StaleSeen'
    <3>1. stale' \subseteq Ids
      BY <1>1 DEF RowInv, TypeOK
    <3>2. QED
      BY <1>5, <3>1 DEF OrderInv, StaleSeen
  <2>3. QED
    BY <1>1, <1>5, <2>1, <2>2, MovesOrdered DEF OrderInv
<1>6. CASE \E c \in Calls : Approving(c)
  BY <1>1, <1>5, <1>6, ApprovingMoves, OthersKeepRows
<1>7. CASE JobCommit
  <2>1. stale \subseteq stale' /\ stale' \subseteq Ids
    BY <1>1, <1>7 DEF JobCommit, RowInv, TypeOK
  <2>2. \A i \in stale' : i \in stale \/ strategy[i].status # "none"
    BY <1>1, <1>7, <2>1, JobMoves
  <2>3. QED
    BY <1>1, <1>5, <1>7, <2>1, <2>2, JobMoves, OthersKeepRows
<1>8. CASE JobRead \/ JobFails \/ Environment
  <2>1. UNCHANGED <<strategy, stale, submit, maxID>>
    BY <1>8 DEF JobRead, JobFails, jobFrame, Environment, TicketEnds, Withdraw, PublishTime, VotePass,
                VoteReject, itsmFrame
  <2>2. Checks'
    BY <2>1 DEF OrderInv, Checks
  <2>3. QED
    BY <1>1, <1>2, <2>1, <2>2 DEF OrderInv
<1>9. QED
  BY <1>3, <1>4, <1>6, <1>7, <1>8 DEF Next

LEMMA InitOrderInv == Init => OrderInv
<1> SUFFICES ASSUME Init PROVE OrderInv
  OBVIOUS
<1>1. Visible = {}
  BY DEF Init, Visible, NoRow
<1>2. QED
  BY <1>1, InitRowInv DEF Init, OrderInv, Ordered, Checks, StaleSeen, NoSubmission

\* As long as no request has written over a status it had not seen, one order is under way at a
\* time: what SubmitPublishApprove checks, for any number of submissions and requests at once.
THEOREM OneAtATime == Spec => []OneInFlight
<1>1. OrderInv => OneInFlight
  <2> SUFFICES ASSUME OrderInv, stale = {}, NEW i \in Ids, NEW j \in Ids,
                      strategy[i].status \in UnderWay, strategy[j].status \in UnderWay, i # j
               PROVE  FALSE
    BY DEF OneInFlight
  <2>1. i \in Visible /\ j \in Visible
    BY StatusNotNone DEF Visible
  <2>2. i < j \/ j < i
    BY DEF Ids
  <2>3. QED
    BY <2>1, <2>2 DEF OrderInv, Ordered
<1>2. QED
  BY <1>1, InitOrderInv, NextOrderInv, PTL DEF Spec

-----------------------------------------------------------------------------
(* The job forgets no scheduled order. *)

\* An order waits in the zset as long as its time has not come; the submission that puts it
\* there may not have committed yet.
WaitsInQueue ==
    /\ \A i \in Ids \ due : strategy[i].type = "scheduled" => i \in queue
    /\ \A p \in Submitters : /\ submit[p].pc = "begun" /\ submit[p].type = "scheduled"
                             /\ submit[p].id \notin due
                             => submit[p].id \in queue

\* What the job is about to take from the zset it has seen as it is, or it is late.
JobSees == /\ job.ids \subseteq due
           /\ \A i \in job.ids \ late : job.rows[i] = strategy[i]

QueueInv == RowInv /\ WaitsInQueue /\ JobSees /\ ScheduledIsQueued

\* Steps that leave the zset alone and no changed row after its time.
LEMMA KeptQueued ==
    ASSUME QueueInv, \A i \in Ids : RowKept(i) /\ strategy'[i].type = strategy[i].type,
           UNCHANGED <<queue, due, job, submit>>, late \subseteq late'
    PROVE  WaitsInQueue' /\ JobSees' /\ ScheduledIsQueued'
<1>1. job.ids \subseteq Ids
  BY DEF QueueInv, RowInv, TypeOK, Jobs
<1>2. WaitsInQueue'
  BY DEF QueueInv, WaitsInQueue
<1>3. JobSees'
  BY <1>1 DEF QueueInv, JobSees, RowKept
<1>4. ASSUME NEW i \in Ids \ late', strategy'[i].type = "scheduled", strategy'[i].status \in UnderWay
      PROVE  i \in queue'
  <2>1. CASE strategy'[i] = strategy[i]
    BY <1>4, <2>1 DEF QueueInv, ScheduledIsQueued
  <2>2. CASE i \notin due
    BY <1>4, <2>2 DEF QueueInv, WaitsInQueue
  <2>3. QED
    BY <1>4, <2>1, <2>2 DEF RowKept
<1>5. QED
  BY <1>2, <1>3, <1>4 DEF ScheduledIsQueued

LEMMA SubmitQueued ==
    ASSUME QueueInv, NEW p \in Submitters, Submitting(p)
    PROVE  WaitsInQueue' /\ JobSees' /\ ScheduledIsQueued'
<1>1. /\ submit \in [Submitters -> Submissions] /\ strategy \in [Ids -> Rows] /\ job.ids \subseteq Ids
      /\ RowInv
  BY DEF QueueInv, RowInv, TypeOK, Jobs
<1>2. CASE SubmitRead(p) \/ SubmitFail(p)
  <2>1. /\ UNCHANGED <<strategy, queue, due, late, job>>
        /\ submit'[p].pc # "begun" /\ \A q \in Submitters \ {p} : submit'[q] = submit[q]
    <3>1. CASE SubmitRead(p)
      <4>1. PICK s, t : submit' = [submit EXCEPT ![p] =
                          [NoSubmission EXCEPT !.pc = "checked", !.last = s, !.lastStatus = t]]
        BY <3>1 DEF SubmitRead
      <4>2. submit'[p].pc = "checked" /\ \A q \in Submitters \ {p} : submit'[q] = submit[q]
        BY <1>1, <4>1 DEF NoSubmission
      <4>3. QED
        BY <3>1, <4>2 DEF SubmitRead, submitFrame
    <3>2. CASE SubmitFail(p)
      BY <1>1, <3>2 DEF SubmitFail, submitFrame, NoSubmission
    <3>3. QED
      BY <1>2, <3>1, <3>2
  <2>2. QED
    BY <2>1 DEF QueueInv, WaitsInQueue, JobSees, ScheduledIsQueued
<1>3. CASE SubmitBegin(p)
  <2>1. PICK type : /\ submit' = [submit EXCEPT ![p].pc = "begun", ![p].id = maxID + 1, ![p].type = type]
                    /\ queue' = IF type = "scheduled" THEN queue \cup {maxID + 1} ELSE queue
    BY <1>3 DEF SubmitBegin, Begin
  <2>2. /\ UNCHANGED <<strategy, due, late, job>> /\ queue \subseteq queue'
        /\ submit'[p].id = maxID + 1 /\ submit'[p].type = type
        /\ \A q \in Submitters \ {p} : submit'[q] = submit[q]
    BY <1>1, <1>3, <2>1 DEF SubmitBegin, Begin, submitFrame, Submissions
  <2>3. type = "scheduled" => submit'[p].id \in queue'
    BY <2>1, <2>2
  <2>4. WaitsInQueue'
    BY <2>2, <2>3 DEF QueueInv, WaitsInQueue
  <2>5. JobSees'
    BY <2>2 DEF QueueInv, JobSees
  <2>6. ScheduledIsQueued'
    BY <2>2 DEF QueueInv, ScheduledIsQueued
  <2>7. QED
    BY <2>4, <2>5, <2>6
<1>4. CASE SubmitCommit(p)
  <2> DEFINE s == submit[p]
  <2>1. s.pc = "begun" /\ s.id \in Ids /\ s.type \in Types
    BY <1>1, <1>4 DEF SubmitCommit, RowInv, Drawn, DrawnIds, TypeOK, Submissions, Ids
  <2>2. /\ strategy'[s.id] = NewRow(s.type) /\ \A i \in Ids \ {s.id} : strategy'[i] = strategy[i]
        /\ s.id \in due => s.id \in late'
        /\ late \subseteq late' /\ UNCHANGED <<queue, due, job>>
        /\ submit'[p].pc = "idle" /\ \A q \in Submitters \ {p} : submit'[q] = submit[q]
    BY <1>1, <1>4, <2>1 DEF SubmitCommit, submitFrame, NoSubmission
  <2>3. NewRow(s.type).type = s.type
    BY DEF NewRow
  <2>4. s.type = "scheduled" /\ s.id \notin due => s.id \in queue
    BY <2>1 DEF QueueInv, WaitsInQueue
  <2> HIDE DEF s
  <2>5. WaitsInQueue'
    BY <2>2, <2>3, <2>4 DEF QueueInv, WaitsInQueue
  <2>6. JobSees'
    BY <1>1, <2>2 DEF QueueInv, JobSees
  <2>7. ScheduledIsQueued'
    BY <2>2, <2>3, <2>4 DEF QueueInv, ScheduledIsQueued
  <2>8. QED
    BY <2>5, <2>6, <2>7
<1>5. QED
  BY <1>2, <1>3, <1>4, SubmittingSteps

\* What leaves the zset has been published, handed to a user, or was not waiting any more.
LEMMA JobQueued ==
    ASSUME QueueInv, JobRead \/ JobCommit \/ JobFails
    PROVE  WaitsInQueue' /\ JobSees' /\ ScheduledIsQueued'
<1>1. RowInv /\ job.ids \subseteq Ids /\ strategy \in [Ids -> Rows]
  BY DEF QueueInv, RowInv, TypeOK, Jobs
<1>2. CASE JobRead
  BY <1>2 DEF JobRead, jobFrame, QueueInv, WaitsInQueue, JobSees, ScheduledIsQueued
<1>3. CASE JobFails
  BY <1>3 DEF JobFails, jobFrame, NoJob, QueueInv, WaitsInQueue, JobSees, ScheduledIsQueued
<1>4. CASE JobCommit
  <2>1. /\ UNCHANGED <<due, submit>> /\ queue \ job.ids \subseteq queue' /\ job'.ids = {}
        /\ late' = late \cup Demoted \cup Launched /\ job.ids \subseteq due
    BY <1>4 DEF JobCommit, jobFrame, NoJob, QueueInv, JobSees
  <2>2. Demoted \cup Launched \subseteq job.ids
    BY DEF Demoted, Launched, Scheduled
  <2>3. \A i \in Ids \ (Demoted \cup Launched) : strategy'[i] = strategy[i]
    BY <1>1, <1>4, JobMoves
  <2>4. WaitsInQueue'
    <3>1. \A i \in Ids \ due : strategy'[i].type = "scheduled" => i \in queue'
      BY <2>1, <2>2, <2>3 DEF QueueInv, WaitsInQueue
    <3>2. QED
      BY <2>1, <3>1 DEF QueueInv, WaitsInQueue
  <2>5. ASSUME NEW i \in Ids \ late', strategy'[i].type = "scheduled", strategy'[i].status \in UnderWay
        PROVE  i \in queue'
    <3>1. i \notin Demoted \cup Launched /\ i \notin late /\ strategy'[i] = strategy[i]
      BY <2>1, <2>3, <2>5
    <3>2. i \in queue
      BY <2>5, <3>1 DEF QueueInv, ScheduledIsQueued
    <3>3. ASSUME i \in job.ids PROVE FALSE
      <4>1. job.rows[i] = strategy[i]
        BY <3>1, <3>3 DEF QueueInv, JobSees
      <4>2. i \in Scheduled /\ job.rows[i].status \in {"pending_approval", "pending_publish"}
        BY <2>5, <3>1, <3>3, <4>1 DEF Scheduled, UnderWay
      <4>3. QED
        BY <3>1, <4>2 DEF Demoted, Launched
    <3>4. QED
      BY <2>1, <3>2, <3>3
  <2>6. QED
    BY <2>1, <2>4, <2>5 DEF JobSees, ScheduledIsQueued
<1>5. QED
  BY <1>2, <1>3, <1>4

LEMMA NextQueueInv ==
    ASSUME QueueInv, [Next]_vars
    PROVE  QueueInv'
<1>1. RowInv' /\ RowInv
  BY NextRowInv DEF QueueInv
<1>2. CASE UNCHANGED vars
  BY <1>1, <1>2 DEF vars, QueueInv, WaitsInQueue, JobSees, ScheduledIsQueued
<1>3. CASE \E c \in Calls : Approving(c)
  BY <1>1, <1>3, ApprovingMoves, KeptQueued DEF QueueInv
<1>4. CASE Environment
  <2>1. UNCHANGED <<strategy, queue, late, job, submit>> /\ due \subseteq due' /\ due' \subseteq due \cup queue
    BY <1>4 DEF Environment, TicketEnds, Withdraw, PublishTime, VotePass, VoteReject, itsmFrame
  <2>2. WaitsInQueue'
    BY <2>1 DEF QueueInv, WaitsInQueue
  <2>3. JobSees'
    BY <2>1 DEF QueueInv, JobSees
  <2>4. ScheduledIsQueued'
    BY <2>1 DEF QueueInv, ScheduledIsQueued
  <2>5. QED
    BY <1>1, <2>2, <2>3, <2>4 DEF QueueInv
<1>5. QED
  BY <1>1, <1>2, <1>3, <1>4, SubmitQueued, JobQueued DEF Next, QueueInv

LEMMA InitQueueInv == Init => QueueInv
<1> SUFFICES ASSUME Init PROVE QueueInv
  OBVIOUS
<1>1. \A i \in Ids : strategy[i].type = "manually"
  BY DEF Init, NoRow
<1>2. WaitsInQueue /\ ScheduledIsQueued
  BY <1>1 DEF Init, WaitsInQueue, ScheduledIsQueued, NoSubmission
<1>3. JobSees
  BY DEF Init, JobSees, NoJob
<1>4. QED
  BY <1>2, <1>3, InitRowInv DEF QueueInv

\* A scheduled order that was submitted and approved before its publish time leaves the zset only
\* when the job publishes it or hands it to a user, whatever comes between the job's reads and its
\* commit.
THEOREM NoneForgotten == Spec => []ScheduledIsQueued
<1>1. QueueInv => ScheduledIsQueued
  BY DEF QueueInv
<1>2. QED
  BY <1>1, InitQueueInv, NextQueueInv, PTL DEF Spec

-----------------------------------------------------------------------------
(* The flow implements ReleaseOrder. *)

\* What ReleaseOrder sees of an order.
Shown == [i \in Ids |-> IF i \in stale THEN "lost" ELSE strategy[i].status]

LEMMA InitOrder == Init => Order!Init
<1> SUFFICES ASSUME Init PROVE Order!Init
  OBVIOUS
<1>1. \A i \in Ids : i \notin stale /\ strategy[i].status = "none"
  BY DEF Init, NoRow
<1>2. QED
  BY <1>1 DEF Order!Init

\* A step that moves rows on, or none, moves orders on.
LEMMA MovesAdvance ==
    ASSUME RowInv', \A i \in Ids : RowMoves(i), stale \subseteq stale'
    PROVE  Order!Advance
<1>1. Shown' \in [Ids -> Order!States]
  <2>1. \A i \in Ids : strategy'[i].status \in Statuses
    BY DEF RowInv, TypeOK, Rows
  <2>2. Statuses \subseteq Order!States /\ "lost" \in Order!States
    BY DEF Statuses, UnderWay, Ended, Order!States, Order!UnderWay, Order!Ended
  <2>3. QED
    BY <2>1, <2>2 DEF Shown
<1>2. ASSUME NEW i \in Ids PROVE Shown'[i] = Shown[i] \/ Order!May(Shown[i], Shown'[i])
  <2>1. CASE i \in stale'
    BY <2>1 DEF Shown, Order!May
  <2>2. CASE i \notin stale'
    BY <2>2 DEF Shown, RowMoves
  <2>3. QED
    BY <2>1, <2>2
<1>3. QED
  BY <1>1, <1>2 DEF Order!Advance, Shown

\* A new row is a new order, or one that was submitted over another.
LEMMA CommitSubmits ==
    ASSUME OrderInv, RowInv', NEW p \in Submitters, SubmitCommit(p)
    PROVE  Order!Next
<1> DEFINE s == submit[p]
<1>1. /\ s.id \in Ids /\ strategy[s.id].status = "none" /\ s.id \notin stale
      /\ strategy' = [strategy EXCEPT ![s.id] = NewRow(s.type)]
      /\ NewRow(s.type) \in Rows /\ NewRow(s.type).status \in Order!Submissions
      /\ stale' = stale \/ stale' = stale \cup {s.id}
      /\ stale' = stale =>
           /\ \A i \in Visible : i < s.id
           /\ stale = {} => \A i \in Visible : strategy[i].status \notin UnderWay
  BY CommitAfterAll
<1>2. strategy'[s.id] = NewRow(s.type) /\ \A i \in Ids \ {s.id} : strategy'[i] = strategy[i]
  BY <1>1 DEF OrderInv, RowInv, TypeOK
<1> HIDE DEF s
<1>3. CASE stale' = stale
  <2> DEFINE st == NewRow(s.type).status
  <2>1. Shown[s.id] = "none" /\ Shown' = [Shown EXCEPT ![s.id] = st]
    BY <1>1, <1>2, <1>3 DEF Shown
  <2>2. ASSUME Order!Undisturbed, NEW i \in Ids PROVE Shown[i] \notin Order!UnderWay
    <3>1. stale = {}
      <4>1. stale \subseteq Ids
        BY DEF OrderInv, RowInv, TypeOK
      <4>2. QED
        BY <2>2, <4>1 DEF Order!Undisturbed
    <3>2. Shown[i] = strategy[i].status
      BY <3>1 DEF Shown
    <3>3. CASE i \in Visible
      BY <1>1, <1>3, <3>1, <3>2, <3>3 DEF UnderWay, Order!UnderWay
    <3>4. CASE i \notin Visible
      BY <3>2, <3>4 DEF Visible, Order!UnderWay
    <3>5. QED
      BY <3>3, <3>4
  <2> HIDE DEF st
  <2>3. st \in Order!Submissions
    BY <1>1 DEF st
  <2>4. s.id \in Ids /\ Order!Submit(s.id)
    BY <1>1, <2>1, <2>2, <2>3 DEF Order!Submit, Shown
  <2>5. \E o \in Ids : Order!Submit(o)
    BY <2>4 DEF Order!Submit
  <2>6. QED
    BY <2>5 DEF Order!Next
<1>4. CASE stale' = stale \cup {s.id}
  <2>1. \A i \in Ids : RowMoves(i)
    BY <1>2, <1>4 DEF RowMoves
  <2>2. QED
    BY <1>4, <2>1, MovesAdvance DEF Order!Next
<1>5. QED
  BY <1>1, <1>3, <1>4

LEMMA NextOrder ==
    ASSUME OrderInv, [Next]_vars
    PROVE  Order!Next \/ UNCHANGED Shown
<1>1. RowInv /\ RowInv'
  BY NextRowInv DEF OrderInv
<1>2. UNCHANGED <<strategy, stale>> => UNCHANGED Shown
  BY DEF Shown
<1>3. CASE UNCHANGED vars
  BY <1>2, <1>3 DEF vars
<1>4. CASE \E p \in Submitters : Submitting(p)
  <2>1. PICK p \in Submitters : SubmitRead(p) \/ SubmitBegin(p) \/ SubmitCommit(p) \/ SubmitFail(p)
    BY <1>4, SubmittingSteps
  <2>2. CASE SubmitCommit(p)
    BY <1>1, <2>2, CommitSubmits
  <2>3. QED
    BY <1>2, <2>1, <2>2 DEF SubmitRead, SubmitBegin, Begin, SubmitFail
<1>5. CASE \E c \in Calls : Approving(c)
  BY <1>1, <1>5, ApprovingMoves, MovesAdvance DEF Order!Next
<1>6. CASE JobCommit
  <2>1. stale \subseteq stale'
    BY <1>6 DEF JobCommit
  <2>2. QED
    BY <1>1, <1>6, <2>1, JobMoves, MovesAdvance DEF Order!Next
<1>7. CASE JobRead \/ JobFails \/ Environment
  <2>1. UNCHANGED <<strategy, stale>>
    BY <1>7 DEF JobRead, JobFails, Environment, TicketEnds, Withdraw, PublishTime, VotePass,
                VoteReject, itsmFrame
  <2>2. QED
    BY <1>2, <2>1
<1>8. QED
  BY <1>3, <1>4, <1>5, <1>6, <1>7 DEF Next

\* Requests, submissions and the job, however they overlap, take every order that was not written
\* over through the steps of ReleaseOrder.
THEOREM Implements == Spec => ImplementsOrder
<1>1. Init => Order!Init
  BY InitOrder
<1>2. OrderInv /\ [Next]_vars
        => [Order!Next]_([i \in Ids |-> IF i \in stale THEN "lost" ELSE strategy[i].status])
  BY NextOrder DEF Shown
<1>3. OrderInv /\ [Next]_vars => OrderInv'
  BY NextOrderInv
<1>4. QED
  BY <1>1, <1>2, <1>3, InitOrderInv, PTL DEF Spec, ImplementsOrder, Order!Spec
=============================================================================
