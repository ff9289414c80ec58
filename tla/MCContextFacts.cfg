CONSTANTS
    None = None
    A = A
    B = B
    Revisions = {A, B}
    ProviderOrder <- Providers
    Phases <- TakePart
    Required = {"p"}
    Results = {"section"}
    Size <- Sizes
    Priority <- Priorities
    Rosters <- Starts
    Budgets = {4, 9}
    PressureAt = 2
    MaxAdoptions = 1
    MaxRestarts = 1
    MaxCompactions = 1
    MaxAssemblies = 3
SPECIFICATION Spec
INVARIANTS SettledOnce EndedWasShown
PROPERTIES RendersFollowRevision RequiredHolds
SYMMETRY Interchangeable
CHECK_DEADLOCK FALSE
