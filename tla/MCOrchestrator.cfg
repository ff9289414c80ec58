SPECIFICATION FairSpec
CONSTANTS
  A = A  B = B  s1 = s1  s2 = s2  go = go  done = done
  None = None
  Registrations = {A, B}
  Surfaces = {s1, s2}
  Names = {go, done, tool}
  Tool = tool
  Runs = {1, 2}
  Triggers <- MCTriggers
  Bound <- SharedBound
  Bindings <- SharedBindings
  Consumes <- MCConsumes
  Outputs <- MCOutputs
  Emits <- MCEmits
  Results <- BusyResults
  Retirable = {}
  Edited = {}
  MaxInputs = 1
  MaxEvents = 2
  MaxMoves = 0
  MaxFaults = 1
PROPERTIES DeliveredInputsFinish
INVARIANTS ContentBeforeEffects EffectsOnce SettledMeansDone
