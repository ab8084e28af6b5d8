SPECIFICATION Spec
CONSTANTS
    a1 = a1  a2 = a2  u0 = u0  c1 = c1  c2 = c2  s1 = s1  s2 = s2
    Creator = a1  EnableV4 = TRUE  Approvals = {"none", "or_sign"}
    Approvers = {a1}  Calls = {c1}  Submitters = {s1, s2}
    MaxStrategies = 2  MaxRequests = 1
SYMMETRY Interchangeable
INVARIANTS TypeOK OneInFlight ScheduledIsQueued
PROPERTY ImplementsOrder
CHECK_DEADLOCK FALSE
