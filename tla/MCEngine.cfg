CONSTANTS
    None = None
    Roles = {"source", "target"}
    Surfaces = {"a", "b"}
    Bindings <- Surface
    Subscriptions = {"join", "twice", "chain"}
    When <- Conditions
    Keyed = {"join", "twice"}
    FromStart = {"join", "twice"}
    Outcomes <- Reactions
    Handlers = {"join"}
    Emits <- TargetOnly
    Names = {"go"}
    Keys = {"x"}
    Past <- Before
    MaxEvents = 1
    MaxSwitches = 2
    MaxFaults = 1
    MaxQueue = 1
SPECIFICATION FairSpec
INVARIANTS RecordsFold EffectsOnce EvidenceIsEarliest InspectionAgrees
PROPERTIES NoUnaskedRetry Reacts
CHECK_DEADLOCK FALSE
