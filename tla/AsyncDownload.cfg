SPECIFICATION Spec
CONSTANTS
    t1 = t1  t2 = t2   r1 = r1  r2 = r2  f1 = f1  f2 = f2  NoOne = NoOne
    Targets = {t1, t2}  Requests = {r1, r2}  Servers = {f1, f2}
    MaxTargetsPerBatch = 2  ShardSize = 1
    MaxBatches = 2  MaxCalls = 3  MaxTransfers = 2  MaxFaults = 1
CONSTRAINT Calm
SYMMETRY Interchangeable
INVARIANTS TypeOK SuccessIsDelivered TerminalTellsTasks TransferredOnce OneOpenTask
PROPERTIES FinalStays ImplementsDownload
CHECK_DEADLOCK FALSE
