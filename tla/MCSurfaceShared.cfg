CONSTANTS
  s1 = s1
  s2 = s2
  f1 = f1
  f2 = f2
  r1 = r1
  r2 = r2
  k1 = k1
  None = None
  Runs = {r1, r2}
  Triggers = {"t1", "t2"}
  Surfaces = {s1, s2}
  Bound <- SharedSurface
  Files = {f1}
  Contents = {"a", "b"}
  Initial <- AllBlank
  Candidates <- Rewrites
  Keys = {k1}
  Edited = {s1}
  MaxSaves = 1
  MaxFaults = 1
SPECIFICATION Spec
INVARIANT ChainIntact
PROPERTIES ImplementsHeads NoHalfProjectionIsRead
SYMMETRY Symmetry
