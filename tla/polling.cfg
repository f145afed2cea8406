SPECIFICATION FairSpec
CONSTANTS
  a = a  b = b  cuda = cuda  cpu = cpu  fast = fast  slow = slow  near = near
  Workers = {1, 2}
  Stages = {a, b}
  Devices = {1, 2, 3, 4}
  DevicesOf <- OwnedDevices
  RuntimeOf <- KindOfDevice
  MemoryOf <- TotalMemory
  MaximumMemory = 95
  Weight <- Weights
  MaximumConcurrency <- Concurrency
  Labels <- WorkerLabels
  WantedLabels <- TaskLabels
  MinimumMemory <- AskedMemory
  Candidates <- StageBackends
  Runtimes <- StageRuntimes
  BackendRuntimes <- RuntimesOfBackend
  Capable <- Announced
  Priority <- InOrder
  Loads <- TwoLoads
  FirstLoad <- Quiet
  MaxUpsets = 2
INVARIANTS SomeoneIsAdmitted 
 
CHECK_DEADLOCK FALSE
