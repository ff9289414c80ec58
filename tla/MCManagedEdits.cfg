CONSTANTS
  None = None
  Absent = "absent"
  Files = {"f", "g", "p"}
  Contents = {"old", "new", "other", "absent"}
  Messages <- TwoAgents
  Proposals <- Rewrites
  Import = import
  Imported <- OneFile
  Initial <- Old
  MaxSaves = 1
  MaxFaults = 1
SPECIFICATION Spec
INVARIANT AnswersAreTrue
PROPERTY ImplementsEdits
