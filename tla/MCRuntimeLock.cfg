CONSTANTS
  p1 = p1
  p2 = p2
  None = None
  Throwing = {1}
  Attempts <- ThreeAttempts
  Processes = {p1, p2}
  Owner <- ThreeOwners
  Recycled = {p2}
SPECIFICATION FairSpec
INVARIANTS MutualExclusion NoOvertaking
PROPERTIES ImplementsLock EveryWaitEnds
CHECK_DEADLOCK FALSE
