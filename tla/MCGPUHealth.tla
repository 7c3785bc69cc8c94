---------------------------- MODULE MCGPUHealth ----------------------------
(* GPUHealth for one device with two GPUs. Devices do not interact here, so  *)
(* one is enough. The second GPU makes a policy change turn the same report  *)
(* from good to bad.                                                         *)
EXTENDS GPUHealth

CONSTANTS d1, g1, g2

MCPolicies ==
  {[monitored |-> FALSE, minCount |-> 0, uuids |-> {}],
   [monitored |-> TRUE,  minCount |-> 1, uuids |-> {}],
   [monitored |-> TRUE,  minCount |-> 2, uuids |-> {g1}]}

MCReports ==
  {[state |-> "OK",                reliable |-> TRUE,  gpus |-> {g1, g2}],
   [state |-> "OK",                reliable |-> TRUE,  gpus |-> {g2}],
   [state |-> "NVIDIA_SMI_FAILED", reliable |-> FALSE, gpus |-> {}],
   [state |-> "UNKNOWN",           reliable |-> TRUE,  gpus |-> {g1, g2}]}
=============================================================================
