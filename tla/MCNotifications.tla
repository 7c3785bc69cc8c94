-------------------------- MODULE MCNotifications --------------------------
(* Notifications for two workers and, by the cfg, the kinds of alerts that   *)
(* a supersession treats differently: offline is a DEVICE_OFFLINE alert,     *)
(* degraded a GPU_DEGRADED alert, recovered a DEVICE_RECOVERED message,      *)
(* which nothing supersedes. The workers are interchangeable.                *)
EXTENDS Notifications, TLC

CONSTANTS offline, degraded, recovered, w1, w2

BothWorkers == {w1, w2}
WorkerSymmetry == Permutations(BothWorkers)
=============================================================================
