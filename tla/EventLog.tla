------------------------------ MODULE EventLog ------------------------------
(***************************************************************************)
(* The event table of BSCP and the transactions that write to it           *)
(* (internal/dal/dao/event.go, id.go, and the callers in app.go,           *)
(* credential.go, publish.go).  Every business change that a cache must    *)
(* learn about fires one event.  Three facts of the code make the table    *)
(* more than a queue:                                                      *)
(*                                                                         *)
(*   - an id is drawn in a transaction of its own (idGenerator.Batch), so  *)
(*     the row of a lower id may appear after the row of a higher one, or  *)
(*     never;                                                              *)
(*   - Fire inserts the row outside the business transaction, with an      *)
(*     unknown final status that Finalizer settles later, or never;        *)
(*   - FireWithTx inserts it inside, so the row appears with the commit.   *)
(*                                                                         *)
(* What a row of a business table holds is a version: 0 when there is no   *)
(* such row, else the number of committed changes to it.                   *)
(***************************************************************************)
EXTENDS Integers, FiniteSets

CONSTANTS
    Txns,        \* the business transactions; each runs once
    Keys,        \* the rows they change: an app, a credential, an app's released groups
    KindOf,      \* [Txns -> Kinds]: which DAO method the transaction calls
    KeyOf,       \* [Txns -> Keys]: the row it changes
    InitialDb,   \* [Keys -> 0..1]: the rows that exist at the start
    MaxEvents    \* bound: event ids are drawn from 1..MaxEvents

Kinds == {"publish", "insertApp", "updateApp", "updateCred", "reviseCred",
          "deleteApp", "deleteCred", "retryApp"}

ASSUME TxnsFinite == IsFiniteSet(Txns)
ASSUME EventsAssumption == MaxEvents \in Nat \ {0}
ASSUME KindsAssumption == \A t \in Txns : KindOf[t] \in Kinds /\ KeyOf[t] \in Keys
ASSUME DbAssumption == InitialDb \in [Keys -> 0..1]

Ids == 1..MaxEvents
TxnStates == {"idle", "allocated", "fired", "committed", "aborted", "succeeded", "failed"}
Statuses == {"none", "unknown", "success", "failed"}

VARIABLES
    maxID,    \* id_generators.max_id of the event table
    txn,      \* [Txns -> TxnStates]
    eventID,  \* [Txns -> the id drawn for its event, 0 before]
    status,   \* [Ids -> Statuses]: final_status of the row, "none" when no row is visible
    aged,     \* rows whose created_at is more than lagSeconds ago
    db        \* [Keys -> Nat]: the committed version of each business row

logVars == <<maxID, txn, eventID, status, aged, db>>

LogTypeOK ==
    /\ maxID \in 0..MaxEvents
    /\ txn \in [Txns -> TxnStates]
    /\ eventID \in [Txns -> 0..MaxEvents]
    /\ status \in [Ids -> Statuses]
    /\ aged \subseteq Ids
    /\ db \in [Keys -> Nat]

LogInit ==
    /\ maxID = 0
    /\ txn = [t \in Txns |-> "idle"]
    /\ eventID = [t \in Txns |-> 0]
    /\ status = [i \in Ids |-> "none"]
    /\ aged = {}
    /\ db = InitialDb

-----------------------------------------------------------------------------
(* The methods of the DAO. *)

\* The methods that call FireWithTx; the others call Fire and then Finalizer.
FiredInTx(kind) == kind \in {"publish", "reviseCred", "deleteApp", "deleteCred", "retryApp"}

\* The methods that first read the row and fail when it does not exist.
NeedsRow(kind) == kind \in {"updateApp", "updateCred", "reviseCred", "deleteApp", "deleteCred"}

\* The version a committed change leaves; ids of deleted rows are never reused.
Applied(kind, version) ==
    CASE kind = "retryApp"                    -> version
      [] kind \in {"deleteApp", "deleteCred"} -> 0
      [] OTHER                                -> version + 1

Open(t) == txn[t] \in {"allocated", "fired"}

\* The row locks MySQL holds from the business write to the end of the transaction.
\* A publish and a retry touch rows per group and per client: they do not exclude each other.
Locked(t) == \E u \in Txns \ {t} :
                /\ Open(u) /\ KeyOf[u] = KeyOf[t]
                /\ KindOf[u] \notin {"publish", "retryApp"}

Visible == {i \in Ids : status[i] # "none"}

-----------------------------------------------------------------------------
(* The steps of a transaction. *)

\* The business write and idGenerator.Batch: the id is committed before the transaction is.
AllocateID(t) ==
    /\ txn[t] = "idle"
    /\ ~Locked(t)
    /\ NeedsRow(KindOf[t]) => db[KeyOf[t]] > 0
    /\ maxID < MaxEvents
    /\ maxID' = maxID + 1
    /\ eventID' = [eventID EXCEPT ![t] = maxID + 1]
    /\ txn' = [txn EXCEPT ![t] = "allocated"]
    /\ UNCHANGED <<status, aged, db>>

\* Mutant of Fire: the row claims success before the transaction has ended.
FireAsSuccess(t) ==
    /\ txn[t] = "allocated"
    /\ ~FiredInTx(KindOf[t])
    /\ txn' = [txn EXCEPT ![t] = "fired"]
    /\ status' = [status EXCEPT ![eventID[t]] = "success"]
    /\ UNCHANGED <<maxID, eventID, aged, db>>

\* Fire: the row is inserted through the DAO's own connection and is visible at once.
Fire(t) ==
    /\ txn[t] = "allocated"
    /\ ~FiredInTx(KindOf[t])
    /\ txn' = [txn EXCEPT ![t] = "fired"]
    /\ status' = [status EXCEPT ![eventID[t]] = "unknown"]
    /\ UNCHANGED <<maxID, eventID, aged, db>>

CommitChange(t) == db' = [db EXCEPT ![KeyOf[t]] = Applied(KindOf[t], @)]

\* The commit of a transaction that called FireWithTx: row and change appear together.
CommitWithEvent(t) ==
    /\ txn[t] = "allocated"
    /\ FiredInTx(KindOf[t])
    /\ txn' = [txn EXCEPT ![t] = "succeeded"]
    /\ status' = [status EXCEPT ![eventID[t]] = "success"]
    /\ CommitChange(t)
    /\ UNCHANGED <<maxID, eventID, aged>>

\* The commit of a transaction that called Fire.
Commit(t) ==
    /\ txn[t] = "fired"
    /\ txn' = [txn EXCEPT ![t] = "committed"]
    /\ CommitChange(t)
    /\ UNCHANGED <<maxID, eventID, status, aged>>

\* The transaction fails: an error in it, a failed insert of the event, a failed commit or
\* a crash of data-service.  The id is lost; a row that Fire inserted stays.
Rollback(t) ==
    /\ Open(t)
    /\ txn' = [txn EXCEPT ![t] = IF txn[t] = "fired" THEN "aborted" ELSE "failed"]
    /\ UNCHANGED <<maxID, eventID, status, aged, db>>

\* Finalizer(txnErr).  Nothing retries it, and a crash skips it: it is never a fair step.
Finalizer(t) ==
    /\ txn[t] \in {"committed", "aborted"}
    /\ txn' = [txn EXCEPT ![t] = IF txn[t] = "committed" THEN "succeeded" ELSE "failed"]
    /\ status' = [status EXCEPT ![eventID[t]] =
                     IF @ = "none" THEN "none"
                     ELSE IF txn[t] = "committed" THEN "success" ELSE "failed"]
    /\ UNCHANGED <<maxID, eventID, aged, db>>

\* lagSeconds pass for a row that Fire inserted.
Age(i) ==
    /\ status[i] = "unknown"
    /\ i \notin aged
    /\ aged' = aged \cup {i}
    /\ UNCHANGED <<maxID, txn, eventID, status, db>>

LogNext ==
    \/ \E t \in Txns : \/ AllocateID(t) \/ Fire(t) \/ CommitWithEvent(t)
                       \/ Commit(t) \/ Rollback(t) \/ Finalizer(t)
    \/ \E i \in Ids : Age(i)

=============================================================================
