SPECIFICATION AgentFairSpec
CONSTANTS
  w1 = w1  a = a  b = b  t1 = t1  t2 = t2  d1 = d1
  Faults = {"crash", "lost", "unhealthy"}
  Workers = {w1}
  Concurrencies = {2}
  ReportedStatuses = {"online", "busy", "unhealthy"}
  Updates <- OnlyDraining
  OfflineAfter = 0
  MaxSequence = 0
  MaxTime = 1
  Tasks = {t1}
  Stages = {a, b}
  TaskOf <- ParallelTask
  DependsOn <- NoDependencies
  Optional = {}
  MaximumAttempts <- OneAttempt
  Devices = {d1}
  NoWorker = NoWorker  NoDevice = NoDevice
  LeaseDuration = 1
  InitialDelay = 1  Multiplier = 2  MaximumDelay = 4
  MaxLeases = 1
INVARIANTS LeasesAreHeld
PROPERTIES  SuccessIsProduced StoppedProcessesEnd
CHECK_DEADLOCK FALSE
