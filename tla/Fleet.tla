-------------------------------- MODULE Fleet --------------------------------
(***************************************************************************)
(* Projects, devices and incidents as the console lists them: what         *)
(* server/app/devices/service.py changes for operators, and what           *)
(* heartbeats and sweeps change beside them (modelled in Availability and  *)
(* GPUHealth, and here any outcome of theirs). Names and identifiers are   *)
(* numbers for the sake of their order.                                    *)
(***************************************************************************)
EXTENDS Columns, Naturals, Sequences, FiniteSetsExt

CONSTANTS
  Project, Device,   \* public identifiers, numbers
  Name,              \* names of projects and devices, numbers
  State, GPUState,   \* availability_state, gpu_effective_state
  MaxIncidents       \* bound: Incident rows

ASSUME NumbersAreOrdered == Project \union Device \union Name \subseteq Nat
\* A device that was never seen is shown in a state that none is ever in.
ASSUME StatesAreKnown ==
  /\ "ONLINE" \in State /\ "AWAITING_FIRST_HEARTBEAT" \notin State
  /\ None \notin State \union GPUState \union {"AWAITING_FIRST_HEARTBEAT"}
  /\ {"OK", "NOT_MONITORED"} \subseteq GPUState

VARIABLES
  projects,    \* Project rows: name, is_active; None without one
  fleet,       \* Device rows: see NewDevice; None without one
  incidents    \* Incident rows, by id: device, opened_at, whether closed

fleetVars == <<projects, fleet, incidents>>

ProjectRow == [name : Name, active : BOOLEAN]
DeviceRow ==
  [project : Project, name : Name, enabled : BOOLEAN, gpuMonitored : BOOLEAN,
   seen : Nat \union {None}, state : State, gpu : GPUState]
IncidentRow == [device : Device, opened : Nat, closed : BOOLEAN]

Projects == {p \in Project : projects[p] # None}
Devices == {d \in Device : fleet[d] # None}
NewDevice(p, name) ==
  [project |-> p, name |-> name, enabled |-> TRUE, gpuMonitored |-> TRUE,
   seen |-> None, state |-> "ONLINE", gpu |-> "OK"]

CreateProject(p, name) ==
  /\ p \notin Projects
  /\ projects' = [projects EXCEPT ![p] = [name |-> name, active |-> TRUE]]
  /\ UNCHANGED <<fleet, incidents>>

UpdateProject(p, name, isActive) ==
  /\ projects' = [projects EXCEPT ![p].name = Given(name, @), ![p].active = Given(isActive, @)]
  /\ UNCHANGED <<fleet, incidents>>

Enroll(d, p, name) ==
  /\ d \notin Devices /\ projects[p].active
  /\ fleet' = [fleet EXCEPT ![d] = NewDevice(p, name)]
  /\ UNCHANGED <<projects, incidents>>

Rename(d, name) ==
  fleet' = [fleet EXCEPT ![d].name = name] /\ UNCHANGED <<projects, incidents>>

Move(d, p) ==
  /\ projects[p].active
  /\ fleet' = [fleet EXCEPT ![d].project = p]
  /\ UNCHANGED <<projects, incidents>>

SetMonitoring(d, enabled) ==
  fleet' = [fleet EXCEPT ![d].enabled = enabled] /\ UNCHANGED <<projects, incidents>>

SetGPUPolicy(d, monitored) ==
  fleet' = [fleet EXCEPT ![d].gpuMonitored = monitored] /\ UNCHANGED <<projects, incidents>>

(***************************************************************************)
(* What heartbeats and sweeps do.                                          *)
(***************************************************************************)
LastSeen == Max({0} \union ({fleet[d].seen : d \in Devices} \ {None}))
\* A confirmation keeps the state, finds the GPUs well, or badly if they were well.
EffectiveStates(d) ==
  CASE ~fleet[d].gpuMonitored -> {"NOT_MONITORED"}
    [] fleet[d].gpuMonitored /\ fleet[d].gpu = "OK" -> GPUState \ {"NOT_MONITORED"}
    [] OTHER -> {fleet[d].gpu, "OK"}
HeartbeatAccepted(d, gpu) ==
  /\ fleet[d].enabled /\ gpu \in EffectiveStates(d)
  /\ fleet' = [fleet EXCEPT ![d].seen = LastSeen + 1, ![d].state = "ONLINE", ![d].gpu = gpu]
  /\ UNCHANGED <<projects, incidents>>

\* A device that was never seen is overdue too.
SweepFindsOverdue(d, state) ==
  /\ fleet[d].enabled /\ state # "ONLINE"
  /\ fleet' = [fleet EXCEPT ![d].state = state]
  /\ UNCHANGED <<projects, incidents>>

\* The clock may give two incidents the same instant.
LastOpened == IF incidents = <<>> THEN 0 ELSE incidents[Len(incidents)].opened
IncidentOpens(d, opened) ==
  /\ Len(incidents) < MaxIncidents
  /\ incidents' = Append(incidents, [device |-> d, opened |-> opened, closed |-> FALSE])
  /\ UNCHANGED <<projects, fleet>>

IncidentCloses(i) ==
  /\ ~incidents[i].closed /\ incidents' = [incidents EXCEPT ![i].closed = TRUE]
  /\ UNCHANGED <<projects, fleet>>
=============================================================================
