CONSTANTS
    None = None
    Ids = {"s", "t"}
    Followups = {"m1", "m2"}
    Brief <- Grants
    Generic <- All
    Continuation <- Notes
    MaxRestarts = 2
    Late = {"m2"}
    EmitsUntil = 0
SPECIFICATION FairSpec
INVARIANTS OneSession GrantsFollowMessages RunsOnce EmitsAreGranted
PROPERTIES QueuedRuns
CHECK_DEADLOCK FALSE
