CONSTANTS
  s1 = s1
  s2 = s2
  f1 = f1
  f2 = f2
  r1 = r1
  r2 = r2
  k1 = k1
  None = None
  Runs = {r1, r2}
  Triggers = {"t1", "t2"}
  Surfaces = {s1}
  Bound <- OneSurface
  Files = {f1, f2}
  Contents = {"a", "b", "c"}
  Initial <- AllBlank
  Candidates <- Rewrites
  Keys = {}
  Edited = {s1}
  MaxSaves = 2
  MaxFaults = 2
SPECIFICATION FairSpec
INVARIANT AuthoringFollowsHead
PROPERTY IntentsFinish
