---------------------------- MODULE MCEventLoop -----------------------------
(* Instances of EventLoop for TLC. *)
EXTENDS EventLoop, TLC

CONSTANTS n1, n2, f1, p1, u1, d1, c1, c2, c3, x1, g1, a1, k1, k2

\* One row of each kind: publishing, updating an app, deleting it.
AppTxns == {p1, u1, d1}
AppKeys2 == {g1, a1}
AppKind == p1 :> "publish" @@ u1 :> "updateApp" @@ d1 :> "deleteApp"
AppKey == p1 :> g1 @@ u1 :> a1 @@ d1 :> a1

\* Two credentials: one updated and deleted, the other updated twice.
CredTxns == {c1, x1, c2, c3}
CredKeys2 == {k1, k2}
CredKind == c1 :> "updateCred" @@ x1 :> "deleteCred"
            @@ c2 :> "reviseCred" @@ c3 :> "reviseCred"
CredKey == c1 :> k1 @@ x1 :> k1 @@ c2 :> k2 @@ c3 :> k2

\* Two writers that do not exclude each other, one with Fire and one with FireWithTx.
PairTxns == {u1, c1}
PairKeys == {a1, k1}
PairKind == u1 :> "updateApp" @@ c1 :> "reviseCred"
PairKey == u1 :> a1 @@ c1 :> k1

\* A credential that is updated and deleted, for the liveness run.
LiveTxns == {c1, x1}
LiveKeys == {k1}

Instances == Permutations(Nodes)

AllLive == [k \in Keys |-> 1]
=============================================================================
