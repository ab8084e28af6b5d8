SPECIFICATION Spec
CONSTANTS
    n1 = n1  n2 = n2  f1 = f1
    p1 = p1  u1 = u1  d1 = d1  c1 = c1  c2 = c2  c3 = c3  x1 = x1
    g1 = g1  a1 = a1  k1 = k1  k2 = k2
    None = None
    InitialDb <- AllLive
    Txns <- CredTxns  Keys <- CredKeys2  KindOf <- CredKind  KeyOf <- CredKey
    Nodes = {n1}  Fillers = {}
    MaxEvents = 4  Limit = 4  MaxFaults = 0
INVARIANT CredentialFreshOnceCaughtUp
