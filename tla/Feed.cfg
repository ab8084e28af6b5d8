SPECIFICATION Spec
CONSTANTS
    Watches = {w1, w2}
    None = None
    MaxEvents = 3
    MaxInputs = 4
    MaxFaults = 1
INVARIANTS
    TypeOK
    FreshForCursor
    NoRollback
    SettledKnows
    NoneForGone
    DeletionCloses
    CaughtUpAccepts
CONSTRAINT Calm
SYMMETRY Interchangeable
CHECK_DEADLOCK FALSE
