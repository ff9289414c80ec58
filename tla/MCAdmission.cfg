CONSTANTS
  None = None
  Surfaces = {"s"}
  DirOrder <- Directories
  SurfaceOrder <- Bound
  Names = {"done", "tool"}
  Declarations = {"x", "y"}
  Sources <- SomeSources
  Artifacts <- TwoArtifacts
  Initial <- Starts
  Builtins <- Catalog
  Callers = {k1, k2}
  k1 = k1
  k2 = k2
  MaxEdits = 2
  MaxEvents = 1
  MaxInputs = 1
  MaxTurns = 1
  MaxCrashes = 1
SPECIFICATION Spec
INVARIANTS RecordsMatchArtifact RecordedStaysAuthorized EventsAreRouted SoundIsAdmitted
SYMMETRY Callers2
CHECK_DEADLOCK FALSE
