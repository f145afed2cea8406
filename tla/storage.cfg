SPECIFICATION FairSpec
CONSTANTS
  t1 = t1 x = x y = y p1 = p1 p2 = p2
  Files = {1}
  Artifacts = {2, 3}
  Tasks = {t1}
  Contents = {x, y}
  Passes = {p1, p2}
  Loop = p1
  None = None
  FileRetention = 1
  ArtifactRetention = 1
  BatchSize = 2
  MaximumAttempts = 1
  MaxTime = 2
  MaxLeases = 2
  MaxFaults = 1
 
PROPERTIES InUseKept 
CHECK_DEADLOCK FALSE
