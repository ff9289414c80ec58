SPECIFICATION Spec
CONSTANTS
  A = A  B = B  s1 = s1  s2 = s2  go = go  done = done
  None = None
  Registrations = {A}
  Surfaces = {s1, s2}
  Names = {go, done, tool}
  Tool = tool
  Runs = {1, 2}
  Triggers <- MCTriggers
  Bound <- SharedBound
  Bindings <- SharedBindings
  Consumes <- MCConsumes
  Outputs <- MCOutputs
  Emits <- MCEmits
  Results <- BusyResults
  Retirable = {A}
  Edited = {s2}
  MaxInputs = 2
  MaxEvents = 2
  MaxMoves = 2
  MaxFaults = 1
INVARIANT PendingHoldsHeads
PROPERTIES RetiredStaysQuiet ImplementsQueues
CHECK_DEADLOCK FALSE
