SPECIFICATION Spec
CONSTANTS
    a1 = a1  a2 = a2  u0 = u0  c1 = c1  c2 = c2  s1 = s1  s2 = s2
    Creator = u0  EnableV4 = FALSE  Approvals = {"count_sign"}
    Approvers = {a1, a2}  Calls = {c1}  Submitters = {s1}
    MaxStrategies = 1  MaxRequests = 1
SYMMETRY Interchangeable
INVARIANT ApprovedAsRequired
CHECK_DEADLOCK FALSE
