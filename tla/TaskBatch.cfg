SPECIFICATION FairSpec
CONSTANTS
  b1 = b1  b2 = b2  i1 = i1  i2 = i2  q1 = q1  q2 = q2
  Batches = {b1, b2}
  Instances = {i1, i2}
  Retries = {q1, q2}
  First = First
  MaxTasks = 2
  MaxFaults = 1
INVARIANTS
  TypeOK Ledger TerminalMeansEnded ResultMatches InstanceSettled OneExecution
PROPERTIES
  SuccessIsFinal ImplementsOperation EventuallyTerminal
CHECK_DEADLOCK FALSE
