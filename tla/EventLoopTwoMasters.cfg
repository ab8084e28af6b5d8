SPECIFICATION Spec
CONSTANTS
    n1 = n1  n2 = n2  f1 = f1
    p1 = p1  u1 = u1  d1 = d1  c1 = c1  c2 = c2  c3 = c3  x1 = x1
    g1 = g1  a1 = a1  k1 = k1  k2 = k2
    None = None
    InitialDb <- AllLive
    Txns <- PairTxns  Keys <- PairKeys  KindOf <- PairKind  KeyOf <- PairKey
    Nodes = {n1, n2}  Fillers = {}
    MaxEvents = 2  Limit = 1  MaxFaults = 1
SYMMETRY Instances
INVARIANTS NoLossBehindCursor HandledAfterEnd
