---------------------------- MODULE MCLeasePolling ----------------------------
(* Small instances of LeasePolling: worker 1 has a graphics device, worker *)
(* 2 two of them and a processor.  Stage a would rather have the graphics  *)
(* device and asks for memory, stage b runs anywhere near the data.        *)
EXTENDS LeasePolling, TLC

CONSTANTS a, b, cuda, cpu, fast, slow, near

KindOfDevice == <<cuda, cuda, cuda, cpu>>
TotalMemory == <<4, 4, 4, 0>>
OwnedDevices == <<{1}, {2, 3, 4}>>
Weights == <<1, 1>>
Concurrency == <<1, 2>>
WorkerLabels == <<{near}, {near}>>
TaskLabels == a :> {} @@ b :> {near}
AskedMemory == a :> 2 @@ b :> 0
StageBackends == a :> <<fast, slow>> @@ b :> <<slow>>
StageRuntimes == a :> <<cuda, cpu>> @@ b :> <<cuda, cpu>>
RuntimesOfBackend == fast :> {cuda} @@ slow :> {cpu, cuda}
Announced == <<{<<fast, cuda>>, <<slow, cuda>>},
               {<<fast, cuda>>, <<slow, cpu>>}>>
InOrder == <<a, b>>

Quiet == [cpu |-> 0, usage |-> [d \in Devices |-> [used |-> 0, utilization |-> 0]]]
Loaded == [cpu |-> 60, usage |-> [d \in Devices |->
             [used |-> IF d = 2 THEN 4 ELSE 2, utilization |-> 80]]]
TwoLoads == {Quiet, Loaded}
=============================================================================
