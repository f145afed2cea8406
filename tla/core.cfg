SPECIFICATION Spec
CONSTANTS
  w1 = w1  w2 = w2  a = a  b = b  t1 = t1  t2 = t2  d1 = d1
  Workers = {w1, w2}
  Concurrencies = {1}
  ReportedStatuses = {}
  Updates <- NoUpdates
  OfflineAfter = 1
  MaxSequence <- MinusOne
  MaxTime = 2
  Tasks = {t1}
  Stages = {a, b}
  TaskOf <- ParallelTask
  DependsOn <- NoDependencies
  Optional = {b}
  MaximumAttempts <- ParallelAttempts
  Devices = {d1}
  NoWorker = NoWorker  NoDevice = NoDevice
  LeaseDuration = 1
  InitialDelay = 1  Multiplier = 2  MaximumDelay = 4
  MaxLeases = 2
INVARIANTS LeaseFencing AttemptsWithinBudget
PROPERTIES OnlyHolderSucceeds EventsFormChain
SYMMETRY WorkerSymmetry
CHECK_DEADLOCK FALSE
