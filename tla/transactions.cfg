SPECIFICATION TxSpec
CONSTANTS
  w1 = w1  w2 = w2  a = a  b = b  t1 = t1  d1 = d1  c1 = c1  c2 = c2
  Sessions = {c1, c2}
  Operations <- MostOperations
  Workers = {w1}
  Concurrencies = {2}
  ReportedStatuses = {}
  Updates <- NoUpdates
  OfflineAfter = 2
  MaxSequence <- MinusOne
  MaxTime = 1
  Tasks = {t1}
  Stages = {a, b}
  TaskOf <- TwoStages
  DependsOn <- OneAfterOther
  Optional = {}
  MaximumAttempts <- TwoAttempts
  Devices = {d1}
  NoWorker = NoWorker  NoDevice = NoDevice
  LeaseDuration = 1
  InitialDelay = 0  Multiplier = 2  MaximumDelay = 4
  MaxLeases = 2
INVARIANTS ActiveLeaseIsLast TaskStageAgreement DependenciesRespected
   CompletionNeverRaises
SYMMETRY SessionSymmetry
