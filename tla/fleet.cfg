SPECIFICATION FairSpec
CONSTANTS
  w1 = w1  w2 = w2  a = a  b = b  t1 = t1  t2 = t2  d1 = d1
  Workers = {w1}
  Concurrencies = {1, 2}
  ReportedStatuses = {"online", "busy", "unhealthy"}
  Updates <- AllUpdates
  OfflineAfter = 0
  MaxSequence = 1
  MaxTime = 2
  Tasks = {t1, t2}
  Stages = {a, b}
  TaskOf <- SeparateTasks
  DependsOn <- NoDependencies
  Optional = {}
  MaximumAttempts <- ParallelAttempts
  Devices = {d1}
  NoWorker = NoWorker  NoDevice = NoDevice
  LeaseDuration = 1
  InitialDelay = 1  Multiplier = 2  MaximumDelay = 4
  MaxLeases = 1
CHECK_DEADLOCK FALSE
INVARIANTS DisabledWorkersStayOut
 
