SPECIFICATION ServicesSpec
CONSTANTS
  Lists = {"tasks", "stages", "artifacts", "backends", "pipelines", "workers",
           "deliveries", "attempts", "api_keys", "events"}
  Removable = {"artifacts", "api_keys"}
  RowIds = {1, 2, 3}
  MaxValue = 2
  PageLimit = 1
  MaxWrites = 2
  KeyIds = {k1, k2}
  KeyWorkers = {x1, x2}
  NoWorkerId = NoWorkerId
  Admins = {a1}
  Callers = {r1}
  ConfiguredKey = ck
  ConfiguredWorkerKey = cw
  MaxKeyTime = 2
  MaxGeneration = 1
  Jobs <- AllJobs
  MaximumDownload = 3
  MaximumFile = 2
  MaximumRedirects = 2
  MaximumArtifacts = 1
  m1 = m1  m2 = m2  u1 = u1
  Loaders = {l1, l2}
  Models = {m1, m2}
  Unmanaged = {u1}
  Batches <- OverlappingBatches
  NoLoader = NoLoader
  MaxCalls = 2
SYMMETRY KeySymmetry
INVARIANTS  OnlyLiveKeysAreAccepted ResultIsOfTheSource
           FaultsAreTold 
 
CHECK_DEADLOCK FALSE
