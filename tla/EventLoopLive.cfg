SPECIFICATION FairSpec
CONSTANTS
    n1 = n1  n2 = n2  f1 = f1
    p1 = p1  u1 = u1  d1 = d1  c1 = c1  c2 = c2  c3 = c3  x1 = x1
    g1 = g1  a1 = a1  k1 = k1  k2 = k2
    None = None
    InitialDb <- AllLive
    Txns <- LiveTxns  Keys <- LiveKeys  KindOf <- CredKind  KeyOf <- CredKey
    Nodes = {n1}  Fillers = {f1}
    MaxEvents = 2  Limit = 2  MaxFaults = 1
PROPERTIES EventuallyHandled StaleIsRefreshed
