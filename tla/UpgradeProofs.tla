---------------------------- MODULE UpgradeProofs ----------------------------
(***************************************************************************)
(* The host of Upgrade.tla, for every set of releases, every number of     *)
(* operations and of faults: wherever power fails, the host holds an       *)
(* environment to run, and once nothing is interrupted the records agree   *)
(* with the environments. One invariant says what is on disk at any        *)
(* instant, which is all that survives; another what the updater relies on *)
(* at each of its steps. A third, ResultInv, ties the updater's marker to  *)
(* the host, the reports under way and the server's slot; OfferInv adds    *)
(* what a result promises of the retained environment, and ContractInv     *)
(* what the refinement of Installation needs of the service and the turns. *)
(***************************************************************************)
EXTENDS Upgrade, TLAPS

\* What stands for nothing, and for a broken tree, is no release.
LEMMA Distinct == None \notin Release /\ Torn \notin Release /\ None # Torn
BY NoneIsNoData

USE Distinct

Optional == Release \union {None}
Environments == Release \union {None, Torn}

Reports ==
  [id : Nat, state : States, detail : DOMAIN DetailCategory, previous : Optional, available : BOOLEAN]

ServerTyped ==
  /\ status \in [Release -> {"ABSENT", "VERIFIED", "APPROVED"}] /\ selection \in Release
  /\ slot \in Slots \union {None} /\ latest \in Versions \union {None}
  /\ intent \in Optional /\ operations \in Nat
  /\ late \subseteq Reports
Disks ==
  [venv : Environments, new : Environments, candidate : Optional, previous : Environments,
   record : Release \union {Torn}, recordCandidate : Optional, recordPrevious : Optional,
   install : Host!InstallMarkers \union {None}, marker : Host!UpdaterMarkers \union {None}]
DiskTyped == disk \in Disks
JobTyped ==
  /\ running \in Optional
  /\ job \in [op : Host!Requests \union {None}, before : Optional,
              recovered : {"none", "retry", "succeeded", "rolled_back", "rollback_failed"},
              context : {"none", "recovery", "installer", "rollback"},
              result : Host!Results \union {None}]
Typed == ServerTyped /\ DiskTyped /\ JobTyped

(***************************************************************************)
(* What is on disk at any instant.                                         *)
(***************************************************************************)
\* What is retained for a rollback while r is to be kept: never r, and what
\* VERSION.previous names, unless that is r after a rollback that was cut short. Then
\* VERSION.candidate names it as long as it is there.
Retained(r) ==
  disk.previous # None =>
    /\ disk.previous # r
    /\ \/ disk.recordPrevious = r
          /\ (disk.recordCandidate \in {None, r} \/ disk.previous \in {disk.recordCandidate, Torn})
       \/ disk.recordPrevious \in Release /\ disk.previous \in {disk.recordPrevious, Torn}

\* What a rollback gave up is left where no switch is marked.
LeftBehind ==
  disk.candidate # None =>
    /\ disk.install = None /\ disk.previous = None
    /\ disk.candidate = disk.recordCandidate /\ disk.candidate # disk.venv

Settled ==
  /\ disk.venv \in Release /\ disk.record = disk.venv
  /\ LeftBehind /\ Retained(disk.record)

Old == disk.install.previous
New == disk.install.target
Switching == disk.install # None /\ disk.install.phase \in {"SWITCHING", "SWITCHED"}
OperatorSwitch == disk.install.action = "ROLLBACK"

\* A rollback takes the retained environment and leaves it nowhere else.
RollbackShape ==
  OperatorSwitch =>
    /\ disk.recordPrevious = New \/ (New = Old /\ disk.venv = Old /\ disk.recordCandidate = None)
    /\ IF disk.venv \in {None, Old} THEN disk.previous # None ELSE disk.previous = None

\* The old environment is out of place, with its record, ...
HalfWay ==
  /\ disk.candidate = Old /\ disk.recordCandidate = Old
  /\ disk.venv # Old /\ (disk.venv \in {None, Torn, New} \/ New = Old)
  /\ Retained(Old) /\ RollbackShape
\* ... in place, before the switch or after it was undone, ...
InPlace ==
  /\ disk.candidate = None /\ disk.venv = Old
  /\ Retained(Old) /\ RollbackShape
\* ... or retained, and the new one has taken its place.
Replaced ==
  /\ disk.candidate = None /\ disk.venv = New /\ disk.record = New /\ disk.previous = Old /\ New # Old
  /\ \/ disk.recordCandidate = Old /\ (OperatorSwitch => disk.recordPrevious = New)
     \/ disk.recordCandidate = None /\ disk.recordPrevious = Old

\* Only a rollback is ever made to the release in place: one that was cut short
\* and runs again.
DiskInv ==
  /\ ~ Switching => Settled
  /\ disk.install # None => (New # Old \/ OperatorSwitch) /\ (~ Switching => disk.record = Old)
  /\ Switching => (HalfWay \/ InPlace \/ Replaced) /\ disk.record \in {Old, New, Torn}

(***************************************************************************)
(* What each step of the updater relies on.                                *)
(***************************************************************************)
Preparing == {"reportDownloading", "download", "reportVerifying", "verify", "reportInstalling"}
Staging == {"build", "stage", "markStaged"}
Moving == {"stop", "moveOut", "moveIn", "record", "markSwitched", "start"}
RollingBack == {"rollbackCopy", "rollbackOut", "rollbackIn", "rollbackRecord", "rollbackStart"}
Accepting == {"acceptPrune", "acceptMove", "acceptRecord", "acceptDone"}
Restoring ==
  {"restore", "restoreRemove", "restoreMove", "restoreRecord", "restoreStart", "restoreDone", "restoreFailed"}

\* The updater is at work on the operation in its marker.
Working ==
  \/ pc \in {"run", "install", "markSwitching", "restoreSettle", "installerFailed", "rollbackMark",
             "rollbackRecheck", "saveFinal", "reportFinal"}
            \union Preparing \union Staging \union Moving \union RollingBack
  \/ pc \in Accepting \union Restoring /\ job.context # "recovery"

WorkInv ==
  /\ Working => disk.marker # None /\ job.op = disk.marker.op
  /\ pc \in {"saveFinal", "reportFinal"} => job.result # None
  /\ pc \in Accepting \union Restoring => job.context # "none"

UpgradeInv ==
  /\ pc \in {"pending", "fetch", "run", "install"} \union Preparing => ~ Switching
  /\ pc \in Preparing \union Staging \union {"install"} =>
       job.op.action = "UPGRADE" /\ job.op.target # disk.record
  /\ pc \in Staging => disk.install = None
  /\ pc = "markStaged" => disk.candidate = None
  /\ pc \in {"stage", "markStaged", "markSwitching"} => disk.new = job.op.target
  /\ pc \in {"markStaged", "markSwitching"} => disk.recordCandidate = disk.record
  /\ pc = "markSwitching" => disk.install # None /\ disk.install.phase = "STAGED"
  /\ pc \in Moving => Switching
  /\ pc \in Moving \union {"markSwitching"} =>
       disk.install.action = "UPGRADE" /\ disk.install.target = job.op.target
  /\ pc \in {"stop", "moveOut"} =>
       InPlace /\ disk.record = Old /\ disk.recordCandidate = Old /\ disk.new = New
  /\ pc = "moveIn" => HalfWay /\ disk.venv = None /\ disk.new = New
  /\ pc \in {"record", "markSwitched", "start"} => HalfWay /\ disk.venv = New
  /\ pc \in {"markSwitched", "start"} => disk.record = New

RollbackInv ==
  /\ pc \in RollingBack \union {"rollbackMark"} =>
       job.context = "rollback" /\ disk.recordPrevious = job.op.target
  /\ pc = "rollbackMark" => disk.install = None /\ disk.previous # None
  /\ pc \in RollingBack =>
       Switching /\ disk.install.action = "ROLLBACK" /\ disk.install.target = job.op.target
  /\ pc \in {"rollbackCopy", "rollbackOut"} => InPlace /\ disk.record = Old
  /\ pc = "rollbackOut" => disk.recordCandidate = Old
  /\ pc = "rollbackIn" => HalfWay /\ disk.venv = None
  /\ pc \in {"rollbackRecord", "rollbackStart"} => HalfWay /\ disk.venv # None
  /\ pc = "rollbackStart" => disk.record = New
  /\ pc \in Accepting \union Restoring \union {"rollbackRecheck"} /\ job.context = "rollback" /\ Switching =>
       OperatorSwitch
  /\ pc = "rollbackRecheck" => job.context = "rollback"

\* A rollback to the release in place is found done already.
Again == InPlace /\ New = Old /\ disk.record = Old

AcceptInv ==
  /\ pc \in Accepting => Switching /\ (HalfWay \/ Replaced \/ Again)
  /\ pc \in {"acceptPrune", "acceptMove"} => disk.venv = New /\ disk.record = New
  /\ pc = "acceptPrune" /\ job.context # "recovery" => HalfWay
  /\ pc \in Accepting /\ job.context # "recovery" => HalfWay \/ Replaced
  /\ pc \in {"acceptRecord", "acceptDone"} => Replaced \/ Again
  /\ pc = "acceptDone" => disk.recordCandidate = None

RestoreInv ==
  /\ pc = "recoverPrevious" => Switching /\ job.context = "recovery"
  /\ pc = "restore" =>
       /\ Switching \/ (disk.candidate = None /\ job.context # "recovery")
       /\ job.context = "installer" =>
            /\ disk.install # None /\ disk.install.action = "UPGRADE"
            /\ disk.candidate = None => disk.record = Old
       /\ job.context = "installer" => Settled \/ (Switching /\ HalfWay)
  /\ pc = "restoreRemove" => disk.install.action = "UPGRADE"
  /\ pc \in {"restoreRemove", "restoreMove"} => Switching /\ HalfWay
  /\ pc = "restoreMove" => disk.venv = None
  /\ pc = "restoreRecord" => Switching /\ InPlace /\ disk.recordCandidate = Old
  /\ pc \in {"restoreStart", "restoreDone"} => disk.install # None /\ Settled /\ disk.record = Old
  /\ pc = "restoreFailed" /\ job.context = "installer" =>
       Settled /\ disk.install # None /\ disk.record = Old
  /\ pc = "restoreSettle" => disk.install # None /\ disk.install.phase = "ROLLED_BACK"

PcInv == WorkInv /\ UpgradeInv /\ RollbackInv /\ AcceptInv /\ RestoreInv

HostInv == Typed /\ DiskInv /\ PcInv

DiskFields ==
  /\ disk.venv \in Environments /\ disk.new \in Environments /\ disk.candidate \in Optional
  /\ disk.previous \in Environments /\ disk.record \in Release \union {Torn}
  /\ disk.recordCandidate \in Optional /\ disk.recordPrevious \in Optional
  /\ disk.install # None =>
       /\ disk.install.phase \in Host!Phases /\ disk.install.action \in Host!Actions
       /\ Old \in Release /\ New \in Release

\* The fields of a typed disk.
LEMMA Fields == ASSUME DiskTyped PROVE DiskFields
BY DEF DiskTyped, DiskFields, Disks, Host!InstallMarkers, Old, New

USE DEF Preparing, Staging, Moving, RollingBack, Accepting, Restoring, OperatorSwitch, LeftBehind

\* Nothing moved but, perhaps, the updater's marker.
SameEnvironments ==
  /\ disk'.venv = disk.venv /\ disk'.new = disk.new /\ disk'.candidate = disk.candidate
  /\ disk'.previous = disk.previous /\ disk'.record = disk.record
  /\ disk'.recordCandidate = disk.recordCandidate /\ disk'.recordPrevious = disk.recordPrevious
  /\ disk'.install = disk.install

\* What is said of the environments holds on while they stay where they are.
LEMMA Unmoved ==
  ASSUME SameEnvironments
  PROVE  /\ DiskInv => DiskInv'
         /\ Settled' = Settled /\ HalfWay' = HalfWay /\ InPlace' = InPlace /\ Replaced' = Replaced
         /\ Switching' = Switching /\ OperatorSwitch' = OperatorSwitch /\ Again' = Again
         /\ Old' = Old /\ New' = New
BY DEF SameEnvironments, DiskInv, Settled, HalfWay, InPlace, Replaced, Again, Retained, RollbackShape, Switching, Old, New

(***************************************************************************)
(* One lemma for each step: what holds Before it is Kept.                  *)
(***************************************************************************)
Kept == DiskTyped' /\ JobTyped' /\ DiskInv' /\ PcInv'
Before == DiskTyped /\ JobTyped /\ DiskInv /\ PcInv /\ DiskFields

\* The invariant is what every lemma assumes.
LEMMA HostBefore == HostInv => Before
BY Fields DEF HostInv, Typed, Before

(***************************************************************************)
(* Recovery.                                                               *)
(***************************************************************************)
\* recover_install without a switch to repair.
LEMMA RecoverAtRestStep == ASSUME Before, Host!RecoverAtRest PROVE Kept
<1>1. /\ pc' = "pending" /\ ~ Switching /\ Settled /\ JobTyped'
  BY DEF Before, DiskInv, DiskFields, Host!Phases, Switching, Host!RecoverAtRest, Host!InstallPhase, Host!Recovered, JobTyped
<1>2. /\ disk'.venv = disk.venv /\ disk'.candidate = disk.candidate /\ disk'.previous = disk.previous
      /\ disk'.record = disk.record /\ disk'.recordPrevious = disk.recordPrevious
      /\ disk'.install \in {disk.install, None} /\ DiskTyped'
      /\ disk'.recordCandidate \in {disk.recordCandidate, None}
      /\ disk.candidate # None => disk'.recordCandidate = disk.recordCandidate
  <2>1. \/ disk' = disk
        \/ disk' = [disk EXCEPT !.new = None, !.recordCandidate = None, !.install = None] /\ disk.install # None
        \/ disk' = [disk EXCEPT !.install = None]
    BY DEF Host!RecoverAtRest, Host!InstallPhase
  <2>2. disk \in Disks
    BY DEF Before, DiskTyped
  <2>3. CASE disk' = disk
    BY <2>2, <2>3 DEF DiskTyped
  <2>4. CASE disk' = [disk EXCEPT !.new = None, !.recordCandidate = None, !.install = None] /\ disk.install # None
    BY <1>1, <2>2, <2>4 DEF DiskTyped, Disks, Environments, Optional, Settled
  <2>5. CASE disk' = [disk EXCEPT !.install = None]
    BY <2>2, <2>5 DEF DiskTyped, Disks
  <2> QED BY <2>1, <2>3, <2>4, <2>5
<1>3. DiskInv' /\ ~ Switching'
  BY <1>1, <1>2 DEF Before, DiskInv, Settled, Retained, Switching, Old, New
<1>4. PcInv'
  <2>1. WorkInv' /\ RollbackInv' /\ AcceptInv' /\ RestoreInv'
    BY <1>1 DEF WorkInv, RollbackInv, AcceptInv, RestoreInv, Working
  <2>2. UpgradeInv'
    BY <1>1, <1>3 DEF UpgradeInv
  <2>3. QED
    BY <2>1, <2>2 DEF PcInv
<1> QED BY <1>1, <1>2, <1>3, <1>4 DEF Kept

\* recover_install: is the new release in place?
LEMMA RecoverSwitchedStep == ASSUME Before, Host!RecoverSwitched PROVE Kept
<1>1. /\ pc' \in {"acceptPrune", "recoverPrevious"} /\ Switching /\ disk' = disk
      /\ JobTyped' /\ job'.context = "recovery"
      /\ pc' = "acceptPrune" => disk.record = New /\ disk.venv = New /\ New \in Release
  BY DEF Before, Switching, Host!RecoverSwitched, Host!InstallPhase, JobTyped, Host!HealthCheck, Host!Healthy, New
<1>2. SameEnvironments /\ DiskTyped'
  BY <1>1 DEF SameEnvironments, Before, DiskTyped
<1>3. /\ DiskInv' /\ Switching' /\ New' = New
      /\ HalfWay' = HalfWay /\ Replaced' = Replaced /\ Again' = Again
  BY <1>1, <1>2, Unmoved DEF Before
<1>4. pc' = "acceptPrune" => HalfWay \/ Replaced \/ Again
  BY <1>1 DEF Before, DiskInv, InPlace, Again, DiskFields, Switching
<1>5. PcInv'
  BY <1>1, <1>3, <1>4 DEF PcInv, WorkInv, UpgradeInv, RollbackInv, AcceptInv, RestoreInv, Working
<1> QED BY <1>1, <1>2, <1>3, <1>5 DEF Kept

\* recover_install: is the old release still in place?
LEMMA RecoverPreviousStep == ASSUME Before, Host!RecoverPrevious PROVE Kept
<1>1. Switching /\ job.context = "recovery" /\ pc = "recoverPrevious"
  BY DEF Before, PcInv, RestoreInv, Host!RecoverPrevious
<1>2. CASE pc' = "restore" /\ disk' = disk /\ job' = job /\ running' \in Optional
  <2>1. SameEnvironments /\ DiskTyped' /\ JobTyped'
    BY <1>2 DEF SameEnvironments, Before, DiskTyped, JobTyped
  <2>2. DiskInv' /\ Switching'
    BY <1>1, <2>1, Unmoved DEF Before
  <2>3. PcInv'
    BY <1>1, <1>2, <2>2 DEF PcInv, WorkInv, UpgradeInv, RollbackInv, AcceptInv, RestoreInv, Working
  <2> QED BY <2>1, <2>2, <2>3 DEF Kept
<1>3. CASE /\ pc' = "pending" /\ job' = [job EXCEPT !.recovered = "rolled_back"] /\ running' \in Optional
           /\ disk.record = Old /\ disk.venv = disk.record /\ disk' = [disk EXCEPT !.install = None]
  <2>1. Settled
    BY <1>1, <1>3 DEF Before, DiskInv, Settled, InPlace, HalfWay, Replaced, DiskFields, Switching
  <2>2. /\ disk'.venv = disk.venv /\ disk'.candidate = disk.candidate /\ disk'.previous = disk.previous
        /\ disk'.record = disk.record /\ disk'.recordPrevious = disk.recordPrevious
        /\ disk'.recordCandidate = disk.recordCandidate
        /\ disk'.install = None /\ DiskTyped' /\ JobTyped'
    BY <1>3 DEF Before, DiskTyped, Disks, JobTyped
  <2>3. DiskInv' /\ ~ Switching'
    BY <2>1, <2>2 DEF DiskInv, Settled, Retained, Switching
  <2>4. PcInv'
    BY <1>3, <2>3 DEF PcInv, WorkInv, UpgradeInv, RollbackInv, AcceptInv, RestoreInv, Working
  <2> QED BY <2>2, <2>3, <2>4 DEF Kept
<1> QED
  BY <1>1, <1>2, <1>3 DEF Host!RecoverPrevious, Host!Recovered, Host!HealthCheck, Host!Healthy, Host!Startable, Host!Started, Host!Fault, Old, Optional, Before, JobTyped

(***************************************************************************)
(* Acceptance.                                                             *)
(***************************************************************************)
\* Acceptance gives up venv.previous, or what is left of it.
LEMMA AcceptPruneStep == ASSUME Before, Host!AcceptPrune PROVE Kept
<1>1. /\ pc = "acceptPrune" /\ job' = job /\ running' = running
      /\ Switching /\ disk.venv = New /\ disk.record = New /\ (HalfWay \/ Replaced \/ Again)
      /\ (job.context # "recovery" => HalfWay) /\ WorkInv /\ RollbackInv
      /\ Old \in Release /\ New \in Release
  BY DEF Before, PcInv, AcceptInv, DiskFields, Switching, Host!AcceptPrune, Host!RemoveTree, Host!Goto
<1>2. CASE disk' = disk /\ pc' = "acceptMove"
  <2>1. SameEnvironments /\ DiskTyped' /\ JobTyped'
    BY <1>1, <1>2 DEF SameEnvironments, Before, DiskTyped, JobTyped
  <2>2. /\ DiskInv' /\ Switching' /\ New' = New /\ OperatorSwitch' = OperatorSwitch
        /\ HalfWay' = HalfWay /\ Replaced' = Replaced /\ Again' = Again
    BY <1>1, <2>1, Unmoved DEF Before
  <2>3. PcInv'
    BY <1>1, <1>2, <2>2 DEF PcInv, WorkInv, UpgradeInv, RollbackInv, AcceptInv, RestoreInv, Working
  <2> QED BY <2>1, <2>2, <2>3 DEF Kept
<1>3. CASE /\ HalfWay
           /\ \/ disk' = [disk EXCEPT !.previous = Torn] /\ pc' = "acceptPrune"
              \/ disk' = [disk EXCEPT !.previous = None] /\ pc' = "acceptMove"
           /\ disk.previous # None
  <2>1. /\ disk'.venv = disk.venv /\ disk'.candidate = disk.candidate /\ disk'.previous \in {Torn, None}
        /\ disk'.record = disk.record /\ disk'.recordCandidate = disk.recordCandidate
        /\ disk'.recordPrevious = disk.recordPrevious /\ disk'.install = disk.install
        /\ disk'.marker = disk.marker /\ DiskTyped' /\ JobTyped'
    BY <1>1, <1>3 DEF Before, DiskTyped, Disks, JobTyped, Environments
  <2>2. disk.previous # None /\ HalfWay
    BY <1>3
  <2>a. disk.install.action # "ROLLBACK"
    BY <1>1, <2>2 DEF HalfWay, RollbackShape, Retained
  <2>3. Switching' /\ HalfWay' /\ New' = New /\ disk'.record = New /\ disk'.venv = New
    BY <1>1, <2>2, <2>a, <2>1 DEF Switching, HalfWay, RollbackShape, Retained, Old, New
  <2>4. DiskInv'
    BY <1>1, <2>1, <2>3 DEF Before, DiskInv, Switching, Old, New
  <2>5. PcInv'
    BY <1>1, <1>3, <2>1, <2>3 DEF Before, PcInv, WorkInv, UpgradeInv, RollbackInv, AcceptInv, RestoreInv, Working
  <2> QED BY <2>1, <2>4, <2>5 DEF Kept
<1>4. Host!PruneNeeded => HalfWay /\ disk.previous # None
  BY <1>1 DEF Host!PruneNeeded, Replaced, Again, InPlace
<1> QED
  BY <1>1, <1>2, <1>3, <1>4 DEF Host!AcceptPrune, Host!RemoveTree, Host!Goto

\* Acceptance retains the old environment.
LEMMA AcceptMoveStep == ASSUME Before, Host!AcceptMove PROVE Kept
<1>1. /\ pc = "acceptMove" /\ pc' = "acceptRecord" /\ job' = job /\ running' = running
      /\ Switching /\ disk.venv = New /\ disk.record = New /\ (HalfWay \/ Replaced \/ Again)
      /\ job.context # "recovery" => HalfWay \/ Replaced
      /\ Old \in Release /\ DiskFields /\ DiskTyped
  BY DEF Before, PcInv, AcceptInv, Host!AcceptMove, Host!Goto, DiskFields, Switching
<1>2. /\ disk'.venv = disk.venv /\ disk'.record = disk.record /\ disk'.candidate = None
      /\ disk'.previous = IF disk.candidate = None THEN disk.previous ELSE disk.candidate
      /\ disk'.recordCandidate = disk.recordCandidate
      /\ disk'.recordPrevious = disk.recordPrevious /\ disk'.install = disk.install
      /\ disk'.marker = disk.marker
  BY <1>1 DEF DiskTyped, Disks, Host!AcceptMove
<1>3. DiskTyped'
  BY <1>1 DEF DiskTyped, Disks, Host!AcceptMove, Environments, Optional
<1>4. /\ Switching' /\ disk'.venv = New' /\ disk'.record = New'
      /\ disk'.install = disk.install
  BY <1>1, <1>2 DEF Switching, New
<1>5. HalfWay => Replaced'
  BY <1>1, <1>2, <1>4 DEF Replaced, HalfWay, RollbackShape, Retained, Old, New
<1>6. Replaced \/ Again => SameEnvironments
  BY <1>1, <1>2 DEF Host!AcceptMove, SameEnvironments, Replaced, Again, InPlace
<1>7. (Replaced' \/ Again') /\ (job.context # "recovery" => Replaced')
  BY <1>1, <1>5, <1>6, Unmoved
<1>8. DiskInv' /\ JobTyped'
  BY <1>1, <1>2, <1>4, <1>7 DEF Before, DiskInv, Again, Switching, Old, New, JobTyped
<1>9. PcInv'
  BY <1>1, <1>2, <1>4, <1>7 DEF Before, PcInv, WorkInv, UpgradeInv, RollbackInv, AcceptInv, RestoreInv, Working
<1> QED BY <1>3, <1>8, <1>9 DEF Kept

\* Acceptance retains its record.
LEMMA AcceptRecordStep == ASSUME Before, Host!AcceptRecord PROVE Kept
<1>1. /\ pc = "acceptRecord" /\ pc' = "acceptDone" /\ job' = job /\ running' = running
      /\ Switching /\ (Replaced \/ Again) /\ Old \in Release /\ DiskFields /\ DiskTyped
      /\ job.context # "recovery" => Replaced
  BY DEF Before, PcInv, AcceptInv, HalfWay, Replaced, Again, InPlace, Host!AcceptRecord, Host!Goto, DiskFields, Switching
<1>2. /\ disk'.venv = disk.venv /\ disk'.record = disk.record /\ disk'.candidate = disk.candidate
      /\ disk'.previous = disk.previous /\ disk'.recordCandidate = None
      /\ disk'.recordPrevious = IF disk.recordCandidate = None THEN disk.recordPrevious ELSE disk.recordCandidate
      /\ disk'.install = disk.install /\ disk'.marker = disk.marker
  BY <1>1 DEF DiskTyped, Disks, Host!AcceptRecord
<1>3. DiskTyped'
  BY <1>1 DEF DiskTyped, Disks, Host!AcceptRecord, Optional
<1>4. Switching' /\ (Replaced => Replaced')
  BY <1>1, <1>2 DEF Switching, Replaced, Old, New
<1>5. Again => Again'
  BY <1>1, <1>2 DEF Before, DiskInv, DiskFields, Switching, Optional, Again, InPlace, Retained, RollbackShape, Old, New
<1>6. DiskInv' /\ JobTyped'
  BY <1>1, <1>2, <1>4, <1>5 DEF Before, DiskInv, Again, Switching, Old, New, JobTyped
<1>7. PcInv'
  BY <1>1, <1>2, <1>4, <1>5 DEF Before, PcInv, WorkInv, UpgradeInv, RollbackInv, AcceptInv, RestoreInv, Working
<1> QED BY <1>3, <1>6, <1>7 DEF Kept

\* What the updater builds are results.
LEMMA ResultsOfTheHost ==
  /\ \A p \in Optional, a \in BOOLEAN : Host!Result("SUCCEEDED", "none", p, a) \in Host!Results
  /\ Host!Failure("ROLLED_BACK", "none") \in Host!Results
  /\ Host!Failure("ROLLED_BACK", "interrupted_switch") \in Host!Results
  /\ Host!Failure("ROLLED_BACK", "installer_failed") \in Host!Results
  /\ Host!Failure("ROLLBACK_FAILED", "previous_service_unhealthy") \in Host!Results
  /\ \A d \in {"archive_digest_mismatch", "bundle_verification_failed", "previous_release_mismatch",
               "interrupted_switch", "rollback_target_unhealthy"} :
       Host!Failure("FAILED", d) \in Host!Results
  /\ None \notin Host!Results
BY NoneIsNoData DEF Host!Result, Host!Failure, Host!Results, Optional

\* Acceptance drops the installer's marker.
LEMMA AcceptDoneStep == ASSUME Before, Host!AcceptDone PROVE Kept
<1>1. /\ pc = "acceptDone" /\ running' = running /\ DiskTyped /\ DiskFields
      /\ Switching /\ (Replaced \/ Again) /\ disk.recordCandidate = None /\ Old \in Release
      /\ job.context \in {"recovery", "installer", "rollback"} /\ disk' = [disk EXCEPT !.install = None]
  BY DEF Before, PcInv, AcceptInv, WorkInv, DiskInv, Host!AcceptDone, DiskFields, Switching, JobTyped
<1>2. /\ disk'.venv = disk.venv /\ disk'.record = disk.record /\ disk'.candidate = disk.candidate
      /\ disk'.previous = disk.previous /\ disk'.recordPrevious = disk.recordPrevious
      /\ disk'.install = None /\ disk'.marker = disk.marker /\ DiskTyped'
  BY <1>1 DEF DiskTyped, Disks
<1>3. Settled' /\ ~ Switching'
  BY <1>1, <1>2 DEF Settled, Replaced, Again, InPlace, Retained, Switching, DiskFields
<1>4. DiskInv'
  BY <1>2, <1>3 DEF DiskInv, Switching
<1>5. CASE job.context = "recovery"
  <2>1. pc' = "pending" /\ JobTyped'
    BY <1>1, <1>5 DEF Host!AcceptDone, Host!Recovered, Before, JobTyped
  <2> QED
    BY <1>2, <1>3, <1>4, <2>1 DEF Kept, PcInv, WorkInv, UpgradeInv, RollbackInv, AcceptInv, RestoreInv, Working
<1>6. CASE job.context # "recovery"
  <2>1. PICK r \in Host!Results : pc' = "saveFinal" /\ job' = [job EXCEPT !.result = r]
    BY <1>1, <1>6, ResultsOfTheHost DEF Host!AcceptDone, Host!Finish, Before, JobTyped
  <2>2. JobTyped' /\ job'.op = job.op /\ job'.result = r
    BY <1>1, <2>1 DEF Before, JobTyped
  <2>3. Working
    BY <1>1, <1>6 DEF Working
  <2> QED
    BY <1>2, <1>3, <1>4, <2>1, <2>2, <2>3, ResultsOfTheHost
    DEF Before, Kept, PcInv, WorkInv, UpgradeInv, RollbackInv, AcceptInv, RestoreInv, Working
<1> QED BY <1>5, <1>6

\* A command of the acceptance fails.
LEMMA AcceptStepFailsStep == ASSUME Before, Host!AcceptStepFails PROVE Kept
<1>1. /\ pc \in Accepting /\ disk' = disk /\ running' = running /\ job' = job
      /\ \/ job.context = "recovery" /\ pc' = "recoverPrevious"
         \/ job.context = "rollback" /\ pc' = "restore"
      /\ Switching /\ WorkInv /\ RollbackInv
  BY DEF Before, PcInv, AcceptInv, Host!AcceptStepFails
<1>2. SameEnvironments /\ DiskTyped' /\ JobTyped'
  BY <1>1 DEF Before, SameEnvironments, DiskTyped, JobTyped
<1>3. DiskInv' /\ Switching' /\ OperatorSwitch' = OperatorSwitch
  BY <1>1, <1>2, Unmoved DEF Before
<1>4. PcInv'
  BY <1>1, <1>3 DEF PcInv, WorkInv, UpgradeInv, RollbackInv, AcceptInv, RestoreInv, Working
<1> QED BY <1>2, <1>3, <1>4 DEF Kept

(***************************************************************************)
(* Restoring.                                                              *)
(***************************************************************************)
\* restore_previous: which way back?
LEMMA RestoreBeginStep == ASSUME Before, Host!RestoreBegin PROVE Kept
<1>1. /\ pc = "restore" /\ job' = job /\ running' \in Optional /\ job.context # "none" /\ WorkInv
      /\ DiskTyped /\ DiskFields /\ DiskInv /\ RestoreInv /\ RollbackInv
      /\ JobTyped'
  BY DEF Before, JobTyped, PcInv, WorkInv, Host!RestoreBegin, Optional
<1>2. Switching /\ HalfWay => disk.candidate \in Release
  BY <1>1 DEF DiskFields, Switching, HalfWay
<1>3. CASE disk.candidate = None
  <2>1. disk' = disk /\ pc' = IF job.context = "installer" THEN "restoreStart" ELSE "restoreFailed"
    BY <1>3 DEF Host!RestoreBegin
  <2>2. job.context = "installer" => Settled
    BY <1>1, <1>2, <1>3 DEF RestoreInv
  <2>3. job.context = "installer" => disk.install # None /\ disk.record = Old
    BY <1>1, <1>3 DEF RestoreInv
  <2>4. SameEnvironments /\ DiskTyped'
    BY <1>1, <2>1 DEF SameEnvironments, DiskTyped
  <2>5. /\ DiskInv' /\ Settled' = Settled /\ Old' = Old
        /\ Switching' = Switching /\ OperatorSwitch' = OperatorSwitch
    BY <1>1, <2>4, Unmoved
  <2>6. PcInv'
    BY <1>1, <2>1, <2>2, <2>3, <2>5
    DEF PcInv, WorkInv, UpgradeInv, RollbackInv, AcceptInv, RestoreInv, Working
  <2> QED BY <1>1, <2>4, <2>5, <2>6 DEF Kept
<1>4. CASE disk.candidate # None
  <2>1. Switching /\ HalfWay
    BY <1>1, <1>4 DEF RestoreInv, DiskInv, Settled, InPlace, Replaced
  <2>2. CASE /\ disk' = disk /\ (disk.venv = None \/ ~ Host!OperatorSwitch)
             /\ pc' = IF disk.venv = None THEN "restoreMove" ELSE "restoreRemove"
    <3>1. SameEnvironments /\ DiskTyped'
      BY <1>1, <2>2 DEF SameEnvironments, DiskTyped
    <3>2. DiskInv' /\ HalfWay' /\ Switching' /\ OperatorSwitch' = OperatorSwitch
      BY <1>1, <2>1, <3>1, Unmoved
    <3>3. disk.venv # None => disk.install.action = "UPGRADE"
      BY <1>1, <2>1, <2>2 DEF Host!OperatorSwitch, Switching, DiskFields, Host!Actions
    <3>4. PcInv'
      BY <1>1, <2>1, <2>2, <3>2, <3>3
      DEF PcInv, WorkInv, UpgradeInv, RollbackInv, AcceptInv, RestoreInv, Working
    <3> QED BY <1>1, <3>1, <3>2, <3>4 DEF Kept
  <2>3. CASE /\ Host!OperatorSwitch /\ disk.venv # None /\ disk.previous = None /\ pc' = "restoreMove"
             /\ disk' = [disk EXCEPT !.previous = disk.venv, !.venv = None]
    <3>1. /\ disk'.venv = None /\ disk'.previous = disk.venv /\ disk'.candidate = disk.candidate
          /\ disk'.record = disk.record /\ disk'.recordCandidate = disk.recordCandidate
          /\ disk'.recordPrevious = disk.recordPrevious /\ disk'.install = disk.install
          /\ disk'.marker = disk.marker
      BY <1>1, <2>3 DEF DiskTyped, Disks
    <3>2. DiskTyped'
      BY <1>1, <2>3 DEF DiskTyped, Disks, Environments
    <3>3. /\ disk.recordPrevious = New /\ New \in Release /\ Old \in Release
          /\ disk.venv # Old /\ (disk.venv \in {New, Torn} \/ New = Old)
      BY <1>1, <2>1, <2>3 DEF Host!OperatorSwitch, HalfWay, RollbackShape, DiskInv, Switching, DiskFields
    <3>4. Switching' /\ HalfWay'
      BY <2>1, <2>3, <3>1, <3>3 DEF HalfWay, RollbackShape, Retained, Switching, Old, New
    <3>5. DiskInv'
      BY <1>1, <2>1, <3>1, <3>3, <3>4 DEF DiskInv, Switching, Old, New
    <3>6. PcInv'
      BY <1>1, <2>1, <2>3, <3>1, <3>4
      DEF PcInv, WorkInv, UpgradeInv, RollbackInv, AcceptInv, RestoreInv, Working
    <3> QED BY <1>1, <3>2, <3>5, <3>6 DEF Kept
  <2> QED
    BY <1>4, <2>2, <2>3 DEF Host!RestoreBegin
<1> QED BY <1>3, <1>4

\* A restored upgrade removes the new environment.
LEMMA RestoreRemoveStep == ASSUME Before, Host!RestoreRemove PROVE Kept
<1>1. /\ pc = "restoreRemove" /\ job' = job /\ running' = running /\ WorkInv /\ job.context # "none"
      /\ Switching /\ HalfWay /\ disk.install.action = "UPGRADE" /\ Old \in Release
      /\ DiskTyped /\ DiskInv /\ RollbackInv /\ JobTyped'
  BY DEF Before, DiskFields, Switching, PcInv, WorkInv, RestoreInv, Host!RestoreRemove, Host!RemoveTree, JobTyped
<1>2. CASE \/ disk' = [disk EXCEPT !.venv = Torn] /\ pc' = "restoreRemove"
           \/ disk' = [disk EXCEPT !.venv = None] /\ pc' = "restoreMove"
  <2>1. /\ disk'.venv \in {Torn, None} /\ (pc' = "restoreMove" => disk'.venv = None)
        /\ disk'.record = disk.record
        /\ disk'.previous = disk.previous /\ disk'.candidate = disk.candidate
        /\ disk'.recordCandidate = disk.recordCandidate /\ disk'.recordPrevious = disk.recordPrevious
        /\ disk'.install = disk.install /\ disk'.marker = disk.marker /\ DiskTyped'
    BY <1>1, <1>2 DEF DiskTyped, Disks, Environments
  <2>2. Switching' /\ HalfWay'
    BY <1>1, <2>1 DEF HalfWay, RollbackShape, Retained, Switching, Old, New
  <2>3. DiskInv'
    BY <1>1, <2>1, <2>2 DEF DiskInv, Switching, Old, New
  <2>4. PcInv'
    BY <1>1, <1>2, <2>1, <2>2
    DEF PcInv, WorkInv, UpgradeInv, RollbackInv, AcceptInv, RestoreInv, Working
  <2> QED BY <1>1, <2>1, <2>3, <2>4 DEF Kept
<1> QED BY <1>2 DEF Host!RestoreRemove, Host!RemoveTree

\* The old environment is put back.
LEMMA RestoreMoveStep == ASSUME Before, Host!RestoreMove PROVE Kept
<1>1. /\ pc = "restoreMove" /\ pc' = "restoreRecord" /\ job' = job /\ running' = running /\ WorkInv
      /\ job.context # "none" /\ DiskFields /\ disk.venv = None
      /\ Switching /\ HalfWay /\ DiskTyped /\ DiskInv /\ JobTyped'
      /\ disk' = [disk EXCEPT !.venv = disk.candidate, !.candidate = None]
  BY DEF Before, PcInv, WorkInv, RestoreInv, Host!RestoreMove, Host!Goto, JobTyped
<1>2. /\ disk'.venv = Old /\ disk'.candidate = None
      /\ disk'.previous = disk.previous /\ disk'.recordCandidate = disk.recordCandidate
      /\ disk'.recordPrevious = disk.recordPrevious /\ disk'.record = disk.record
      /\ disk'.install = disk.install /\ disk'.marker = disk.marker
  BY <1>1 DEF DiskTyped, Disks, HalfWay
<1>3. DiskTyped'
  <2>1. disk.candidate \in Environments /\ None \in Optional
    BY <1>1 DEF DiskFields, Environments, Optional
  <2> QED BY <1>1, <2>1 DEF DiskTyped, Disks
<1>4. Old \in Release /\ RollbackInv
  BY <1>1 DEF Before, PcInv, DiskFields, Switching
<1>5. Switching' /\ InPlace' /\ disk'.recordCandidate = Old'
  <2>1. Switching' /\ Old' = Old /\ New' = New
    BY <1>1, <1>2 DEF Switching, Old, New
  <2>2. RollbackShape'
    BY <1>1, <1>2, <1>4, <2>1 DEF HalfWay, RollbackShape
  <2>3. disk'.venv = Old' /\ disk'.recordCandidate = Old' /\ Retained(Old)'
    BY <1>1, <1>2, <2>1 DEF HalfWay, Retained
  <2>4. QED
    BY <1>2, <2>1, <2>2, <2>3 DEF InPlace
<1>6. DiskInv'
  BY <1>1, <1>2, <1>4, <1>5 DEF DiskInv, Switching, Old, New
<1>7. PcInv'
  BY <1>1, <1>2, <1>4, <1>5
  DEF PcInv, WorkInv, UpgradeInv, RollbackInv, AcceptInv, RestoreInv, Working
<1> QED BY <1>1, <1>3, <1>6, <1>7 DEF Kept

\* Its record is put back.
LEMMA RestoreRecordStep == ASSUME Before, Host!RestoreRecord PROVE Kept
<1>1. /\ pc = "restoreRecord" /\ pc' = "restoreStart" /\ job' = job /\ running' = running /\ WorkInv
      /\ job.context # "none" /\ DiskFields
      /\ Switching /\ InPlace /\ disk.recordCandidate = Old /\ DiskTyped /\ DiskInv /\ JobTyped'
  BY DEF Before, PcInv, WorkInv, RestoreInv, Host!RestoreRecord, Host!Goto, JobTyped
<1>2. Old \in Release /\ RollbackInv
  BY <1>1 DEF Before, PcInv, DiskFields, Switching
<1>3. disk' = [disk EXCEPT !.record = disk.recordCandidate, !.recordCandidate = None]
  BY <1>1, <1>2 DEF Host!RestoreRecord
<1>4. /\ disk'.venv = disk.venv /\ disk'.candidate = disk.candidate /\ disk'.record = Old
      /\ disk'.recordCandidate = None
      /\ disk'.previous = disk.previous /\ disk'.recordPrevious = disk.recordPrevious
      /\ disk'.install = disk.install /\ disk'.marker = disk.marker
  BY <1>1, <1>3 DEF DiskTyped, Disks
<1>5. DiskTyped'
  BY <1>1, <1>2, <1>3 DEF DiskTyped, Disks, Optional
<1>6. Switching' /\ InPlace' /\ Settled' /\ disk'.record = Old' /\ disk'.install # None
  BY <1>1, <1>2, <1>4 DEF InPlace, Settled, RollbackShape, Retained, Switching, Old, New
<1>7. DiskInv'
  BY <1>1, <1>2, <1>4, <1>6 DEF DiskInv, Switching, Old, New
<1>8. PcInv'
  BY <1>1, <1>2, <1>4, <1>6
  DEF PcInv, WorkInv, UpgradeInv, RollbackInv, AcceptInv, RestoreInv, Working
<1> QED BY <1>1, <1>5, <1>7, <1>8 DEF Kept

\* Its service is started.
LEMMA RestoreStartStep == ASSUME Before, Host!RestoreStart PROVE Kept
<1>1. /\ pc = "restoreStart" /\ pc' \in {"restoreDone", "restoreFailed"} /\ job' = job /\ disk' = disk
      /\ WorkInv /\ RollbackInv /\ job.context # "none" /\ disk.install # None /\ Settled /\ disk.record = Old
      /\ DiskTyped /\ DiskInv /\ JobTyped'
  BY DEF Before, PcInv, WorkInv, RestoreInv, Host!RestoreStart, Host!Startable, Host!Started, JobTyped, Optional
<1>2. SameEnvironments /\ DiskTyped'
  BY <1>1 DEF SameEnvironments, DiskTyped
<1>3. /\ DiskInv' /\ Settled' /\ Old' = Old
      /\ Switching' = Switching /\ OperatorSwitch' = OperatorSwitch
  BY <1>1, <1>2, Unmoved
<1>4. PcInv'
  BY <1>1, <1>3
  DEF PcInv, WorkInv, UpgradeInv, RollbackInv, AcceptInv, RestoreInv, Working
<1> QED BY <1>1, <1>2, <1>3, <1>4 DEF Kept

\* The old service is healthy, the switch is undone.
LEMMA RestoreDoneStep == ASSUME Before, Host!RestoreDone PROVE Kept
<1>1. /\ pc = "restoreDone" /\ running' = running /\ WorkInv
      /\ job.context \in {"recovery", "installer", "rollback"}
      /\ disk.install # None /\ Settled /\ disk.record = Old
      /\ DiskTyped /\ DiskInv /\ DiskFields /\ JobTyped
  BY DEF Before, PcInv, WorkInv, RestoreInv, Host!RestoreDone, JobTyped
<1>2. CASE job.context # "installer"
  <2>1. disk' = [disk EXCEPT !.install = None]
    BY <1>1, <1>2 DEF Host!RestoreDone
  <2>2. /\ disk'.venv = disk.venv /\ disk'.record = disk.record /\ disk'.candidate = disk.candidate
        /\ disk'.previous = disk.previous /\ disk'.recordPrevious = disk.recordPrevious
        /\ disk'.recordCandidate = disk.recordCandidate
        /\ disk'.install = None /\ disk'.marker = disk.marker /\ DiskTyped'
    BY <1>1, <2>1 DEF DiskTyped, Disks
  <2>3. DiskInv' /\ ~ Switching'
    BY <1>1, <2>2 DEF DiskInv, Settled, Retained, Switching
  <2>4. CASE job.context = "recovery"
    <3>1. pc' = "pending" /\ JobTyped'
      BY <1>1, <2>4 DEF Host!RestoreDone, Host!Recovered, JobTyped
    <3> QED
      BY <2>2, <2>3, <3>1 DEF Kept, PcInv, WorkInv, UpgradeInv, RollbackInv, AcceptInv, RestoreInv, Working
  <2>5. CASE job.context = "rollback"
    <3>1. PICK r \in Host!Results : pc' = "saveFinal" /\ job' = [job EXCEPT !.result = r]
      BY <1>1, <2>5, ResultsOfTheHost DEF Host!RestoreDone, Host!Finish
    <3>2. JobTyped' /\ job'.op = job.op /\ job'.result = r
      BY <1>1, <3>1 DEF JobTyped
    <3>3. Working
      BY <1>1, <2>5 DEF Working
    <3> QED
      BY <1>1, <2>2, <2>3, <3>1, <3>2, <3>3, ResultsOfTheHost
      DEF Kept, PcInv, WorkInv, UpgradeInv, RollbackInv, AcceptInv, RestoreInv, Working
  <2> QED BY <1>1, <1>2, <2>4, <2>5
<1>3. CASE job.context = "installer"
  <2>1. disk' = [disk EXCEPT !.install.phase = "ROLLED_BACK"] /\ pc' = "restoreSettle" /\ job' = job
    BY <1>1, <1>3 DEF Host!RestoreDone
  <2>2. /\ disk'.venv = disk.venv /\ disk'.record = disk.record /\ disk'.candidate = disk.candidate
        /\ disk'.previous = disk.previous /\ disk'.recordPrevious = disk.recordPrevious
        /\ disk'.recordCandidate = disk.recordCandidate
        /\ disk'.install = [disk.install EXCEPT !.phase = "ROLLED_BACK"] /\ disk'.marker = disk.marker
    BY <1>1, <2>1 DEF DiskTyped, Disks
  <2>3. /\ disk'.install # None /\ disk'.install.phase = "ROLLED_BACK"
        /\ disk'.install.action = disk.install.action
        /\ disk'.install.target = disk.install.target /\ disk'.install.previous = disk.install.previous
        /\ DiskTyped'
    BY <1>1, <2>1, <2>2, NoneIsNoData DEF DiskTyped, Disks, Host!InstallMarkers, Host!Phases
  <2>4. DiskInv'
    BY <1>1, <2>2, <2>3 DEF DiskInv, Settled, Retained, Switching, Old, New
  <2>5. PcInv' /\ JobTyped'
    BY <1>1, <1>3, <2>1, <2>2, <2>3
    DEF PcInv, WorkInv, UpgradeInv, RollbackInv, AcceptInv, RestoreInv, Working, JobTyped
  <2> QED BY <2>3, <2>4, <2>5 DEF Kept
<1> QED BY <1>2, <1>3

\* The installer drops its marker.
LEMMA RestoreSettleStep == ASSUME Before, Host!RestoreSettle PROVE Kept
<1>1. /\ pc = "restoreSettle" /\ pc' = "installerFailed" /\ job' = job /\ running' = running /\ WorkInv
      /\ DiskTyped /\ JobTyped' /\ Settled /\ disk.candidate = None
      /\ disk' = [disk EXCEPT !.recordCandidate = None, !.install = None]
  BY DEF Settled, Before, PcInv, WorkInv, RestoreInv, DiskInv, Switching, Host!RestoreSettle, Host!Goto, JobTyped
<1>2. /\ disk'.venv = disk.venv /\ disk'.record = disk.record /\ disk'.candidate = disk.candidate
      /\ disk'.previous = disk.previous /\ disk'.recordPrevious = disk.recordPrevious
      /\ disk'.recordCandidate = None /\ disk'.install = None /\ disk'.marker = disk.marker
  BY <1>1 DEF DiskTyped, Disks
<1>3. DiskTyped'
  BY <1>1 DEF DiskTyped, Disks, Optional
<1>4. DiskInv'
  BY <1>1, <1>2 DEF DiskInv, Settled, Retained, Switching
<1>5. PcInv'
  BY <1>1, <1>2
  DEF PcInv, WorkInv, UpgradeInv, RollbackInv, AcceptInv, RestoreInv, Working
<1> QED BY <1>1, <1>3, <1>4, <1>5 DEF Kept

\* The old service is not healthy.
LEMMA RestoreFailedStep == ASSUME Before, Host!RestoreFailed PROVE Kept
<1>1. /\ pc = "restoreFailed" /\ running' = running /\ WorkInv
      /\ job.context \in {"recovery", "installer", "rollback"}
      /\ job.context = "installer" => Settled /\ disk.install # None /\ disk.record = Old
      /\ RollbackInv /\ DiskTyped /\ DiskInv /\ DiskFields /\ JobTyped
  BY DEF Before, PcInv, WorkInv, RestoreInv, Host!RestoreFailed, JobTyped
<1>2. CASE job.context # "installer"
  <2>1. disk' = disk /\ pc' = (IF job.context = "recovery" THEN "idle" ELSE "rollbackRecheck")
        /\ job' = (IF job.context = "recovery" THEN Host!NoJob ELSE job)
    BY <1>1, <1>2 DEF Host!RestoreFailed
  <2>2. SameEnvironments /\ DiskTyped' /\ JobTyped'
    BY <1>1, <2>1 DEF SameEnvironments, DiskTyped, JobTyped, Host!NoJob, Optional
  <2>3. DiskInv' /\ Switching' = Switching /\ OperatorSwitch' = OperatorSwitch
    BY <1>1, <2>2, Unmoved
  <2>4. PcInv'
    BY <1>1, <1>2, <2>1, <2>3
    DEF PcInv, WorkInv, UpgradeInv, RollbackInv, AcceptInv, RestoreInv, Working
  <2> QED BY <2>2, <2>3, <2>4 DEF Kept
<1>3. CASE job.context = "installer"
  <2>1. disk' = [disk EXCEPT !.install.phase = "ROLLBACK_FAILED"] /\ pc' = "installerFailed" /\ job' = job
    BY <1>1, <1>3 DEF Host!RestoreFailed
  <2>2. /\ disk'.venv = disk.venv /\ disk'.record = disk.record /\ disk'.candidate = disk.candidate
        /\ disk'.previous = disk.previous /\ disk'.recordPrevious = disk.recordPrevious
        /\ disk'.recordCandidate = disk.recordCandidate
        /\ disk'.install = [disk.install EXCEPT !.phase = "ROLLBACK_FAILED"] /\ disk'.marker = disk.marker
    BY <1>1, <2>1 DEF DiskTyped, Disks
  <2>3. /\ disk'.install # None /\ disk'.install.phase = "ROLLBACK_FAILED"
        /\ disk'.install.action = disk.install.action
        /\ disk'.install.target = disk.install.target /\ disk'.install.previous = disk.install.previous
        /\ DiskTyped'
    BY <1>1, <1>3, <2>1, <2>2, NoneIsNoData DEF DiskTyped, Disks, Host!InstallMarkers, Host!Phases
  <2>4. DiskInv'
    BY <1>1, <1>3, <2>2, <2>3 DEF DiskInv, Settled, Retained, Switching, Old, New
  <2>5. PcInv' /\ JobTyped'
    BY <1>1, <1>3, <2>1, <2>2
    DEF PcInv, WorkInv, UpgradeInv, RollbackInv, AcceptInv, RestoreInv, Working, JobTyped
  <2> QED BY <2>3, <2>4, <2>5 DEF Kept
<1> QED BY <1>2, <1>3

\* restore_candidate returned False at the first command that failed.
LEMMA RestoreStepFailsStep == ASSUME Before, Host!RestoreStepFails PROVE Kept
<1>1. /\ pc \in {"restore", "restoreRemove", "restoreMove", "restoreRecord", "restoreStart"}
      /\ pc' = "restoreFailed" /\ job' = job /\ disk' = disk /\ running' \in Optional
      /\ job.context = "installer" => Settled /\ disk.install # None /\ disk.record = Old
      /\ WorkInv /\ RollbackInv /\ job.context # "none"
  BY DEF Before, PcInv, WorkInv, RestoreInv, Host!RestoreStepFails, Host!MaybeStopped, JobTyped, Optional
<1>2. SameEnvironments /\ DiskTyped' /\ JobTyped'
  BY <1>1 DEF Before, SameEnvironments, DiskTyped, JobTyped
<1>3. /\ DiskInv' /\ Settled' = Settled /\ Old' = Old
      /\ Switching' = Switching /\ OperatorSwitch' = OperatorSwitch
  BY <1>2, Unmoved DEF Before
<1>4. PcInv'
  BY <1>1, <1>3 DEF PcInv, WorkInv, UpgradeInv, RollbackInv, AcceptInv, RestoreInv, Working
<1> QED BY <1>2, <1>3, <1>4 DEF Kept

(***************************************************************************)
(* What ends a run, and what a run begins with.                            *)
(***************************************************************************)
\* At these steps nothing is relied on.
LEMMA Quiet ==
  ASSUME Before, disk' = disk, pc' \in {"idle", "off", "recover"}, running' \in Optional,
         job' = Host!NoJob \/ job' = job
  PROVE  Kept
<1>1. SameEnvironments /\ DiskTyped' /\ JobTyped'
  BY DEF SameEnvironments, Before, DiskTyped, JobTyped, Host!NoJob, Optional
<1>2. DiskInv'
  BY <1>1, Unmoved DEF Before
<1>3. PcInv'
  BY DEF PcInv, WorkInv, UpgradeInv, RollbackInv, AcceptInv, RestoreInv, Working
<1> QED BY <1>1, <1>2, <1>3 DEF Kept

\* Nothing is relied on when a run has ended.
LEMMA EndsOfRuns ==
  ASSUME Before, Host!TimerFires \/ Host!PowerLoss \/ Host!Boot \/ Host!UpdaterKilled
  PROVE  Kept
<1>1. running' \in Optional
  BY DEF Before, JobTyped, Optional, Host!TimerFires, Host!PowerLoss, Host!Boot, Host!UpdaterKilled, Host!Startable
<1>2. disk' = disk /\ pc' \in {"idle", "off", "recover"} /\ (job' = Host!NoJob \/ job' = job)
  BY DEF Host!TimerFires, Host!PowerLoss, Host!Boot, Host!UpdaterKilled, Host!Goto
<1> QED BY <1>1, <1>2, Quiet

\* A run goes on with the same disk.
LEMMA GoesOn ==
  ASSUME Before, disk' = disk
  PROVE  /\ DiskTyped' /\ DiskInv'
         /\ Settled' = Settled /\ HalfWay' = HalfWay /\ InPlace' = InPlace /\ Replaced' = Replaced
         /\ (Switching => Switching') /\ (~ Switching => ~ Switching') /\ Old' = Old /\ New' = New
         /\ OperatorSwitch' = OperatorSwitch
<1>1. SameEnvironments /\ DiskTyped'
  BY DEF SameEnvironments, Before, DiskTyped
<1> QED BY <1>1, Unmoved DEF Before

\* A run that comes to a result.
LEMMA FinishStep ==
  ASSUME Before, Working, disk' = disk, running' = running, NEW r \in Host!Results, Host!Finish(r)
  PROVE  Kept
<1>1. pc' = "saveFinal" /\ JobTyped' /\ job'.op = job.op /\ job'.result = r /\ WorkInv
  BY DEF Host!Finish, Before, JobTyped, PcInv
<1>2. PcInv'
  BY <1>1, ResultsOfTheHost
  DEF PcInv, WorkInv, UpgradeInv, RollbackInv, AcceptInv, RestoreInv, Working
<1> QED BY <1>1, <1>2, GoesOn DEF Kept

\* main looks at its marker.
LEMMA PendingStep == ASSUME Before, Host!Pending PROVE Kept
<1>1. /\ pc = "pending" /\ ~ Switching /\ disk' = disk /\ running' = running
      /\ DiskTyped /\ JobTyped
  BY DEF Before, PcInv, UpgradeInv, Host!Pending
<1>2. CASE pc' = "fetch" /\ job' = job
  <2>1. PcInv' /\ JobTyped'
    BY <1>1, <1>2, GoesOn
    DEF PcInv, WorkInv, UpgradeInv, RollbackInv, AcceptInv, RestoreInv, Working, JobTyped
  <2> QED BY <1>1, <2>1, GoesOn DEF Kept
<1>3. CASE disk.marker # None /\ pc' = "run" /\ job' = [job EXCEPT !.op = disk.marker.op]
  <2>1. disk.marker.op \in Host!Requests
    BY <1>1, <1>3 DEF DiskTyped, Disks, Host!UpdaterMarkers
  <2>2. JobTyped' /\ job'.op = disk.marker.op
    BY <1>1, <1>3, <2>1 DEF JobTyped
  <2>3. PcInv'
    BY <1>1, <1>3, <2>2, GoesOn
    DEF PcInv, WorkInv, UpgradeInv, RollbackInv, AcceptInv, RestoreInv, Working
  <2> QED BY <1>1, <2>2, <2>3, GoesOn DEF Kept
<1>4. CASE /\ disk.marker # None /\ pc' \in {"reportFinal", "saveFinal"}
           /\ \E r \in Host!Results : job' = [job EXCEPT !.op = disk.marker.op, !.result = r]
  <2>1. disk.marker.op \in Host!Requests
    BY <1>1, <1>4 DEF DiskTyped, Disks, Host!UpdaterMarkers
  <2>2. JobTyped' /\ job'.op = disk.marker.op /\ job'.result \in Host!Results
    BY <1>1, <1>4, <2>1 DEF JobTyped
  <2>3. PcInv'
    BY <1>1, <1>4, <2>2, GoesOn, ResultsOfTheHost
    DEF PcInv, WorkInv, UpgradeInv, RollbackInv, AcceptInv, RestoreInv, Working
  <2> QED BY <1>1, <2>2, <2>3, GoesOn DEF Kept
<1>5. disk.marker # None =>
        /\ disk.marker.final # None => disk.marker.final \in Host!Results
        /\ disk.marker.op.action \in Host!Actions /\ disk.marker.previous \in Optional
  BY <1>1 DEF DiskTyped, Disks, Host!UpdaterMarkers, Host!Requests, Optional
<1>6. \A r \in {"succeeded", "rolled_back", "rollback_failed"}, a \in Host!Actions :
        disk.marker # None => Host!Synthesized(r, a) \in Host!Results
  BY <1>5, ResultsOfTheHost DEF Host!Synthesized, Host!Actions
<1> QED
  BY <1>1, <1>2, <1>3, <1>4, <1>5, <1>6 DEF Host!Pending, JobTyped

\* The result is saved before it is reported.
LEMMA SaveFinalStep == ASSUME Before, Host!SaveFinal PROVE Kept
<1>1. /\ pc = "saveFinal" /\ pc' = "reportFinal" /\ job' = job /\ running' = running
      /\ disk.marker # None /\ job.op = disk.marker.op /\ job.result # None
      /\ disk' = [disk EXCEPT !.marker.final = job.result] /\ DiskTyped /\ JobTyped /\ DiskInv
  BY DEF Before, PcInv, WorkInv, Working, Host!SaveFinal, Host!Goto
<1>2. /\ SameEnvironments /\ disk'.marker = [disk.marker EXCEPT !.final = job.result]
      /\ disk.marker \in Host!UpdaterMarkers /\ job.result \in Host!Results
  BY <1>1 DEF SameEnvironments, DiskTyped, Disks, JobTyped
<1>3. disk'.marker \in Host!UpdaterMarkers /\ disk'.marker.op = disk.marker.op
  BY <1>2 DEF Host!UpdaterMarkers
<1>4. DiskTyped' /\ JobTyped'
  BY <1>1, <1>2, <1>3 DEF DiskTyped, Disks, JobTyped
<1>5. PcInv'
  BY <1>1, <1>3, NoneIsNoData
  DEF PcInv, WorkInv, UpgradeInv, RollbackInv, AcceptInv, RestoreInv, Working
<1> QED BY <1>1, <1>2, <1>4, <1>5, Unmoved DEF Kept

(***************************************************************************)
(* An upgrade.                                                             *)
(***************************************************************************)
\* upgrade refuses, or starts.
LEMMA UpgradeBeginStep == ASSUME Before, Host!UpgradeBegin PROVE Kept
<1>1. /\ pc = "run" /\ job.op.action = "UPGRADE" /\ ~ Switching /\ Settled /\ Working
      /\ DiskFields /\ JobTyped /\ WorkInv /\ disk' = disk /\ running' = running
  BY DEF Before, PcInv, UpgradeInv, DiskInv, Working, Host!UpgradeBegin
<1>2. CASE disk.record = job.op.target
  <2>1. Host!Result("SUCCEEDED", "none", disk.recordPrevious,
                    disk.recordPrevious # None /\ disk.previous # None) \in Host!Results
    BY <1>1, ResultsOfTheHost DEF DiskFields
  <2> QED
    BY <1>1, <1>2, <2>1, FinishStep DEF Host!UpgradeBegin
<1>3. CASE disk.record # job.op.target
  <2>1. pc' = "reportDownloading" /\ job' = [job EXCEPT !.before = disk.record]
    BY <1>3 DEF Host!UpgradeBegin
  <2>2. JobTyped' /\ job'.op = job.op
    BY <1>1, <2>1 DEF JobTyped, Settled, Optional
  <2>3. PcInv'
    BY <1>1, <1>3, <2>1, <2>2, GoesOn
    DEF PcInv, WorkInv, UpgradeInv, RollbackInv, AcceptInv, RestoreInv, Working
  <2> QED BY <1>1, <2>2, <2>3, GoesOn DEF Kept
<1> QED BY <1>2, <1>3

\* From one step of the preparation to the next.
LEMMA PreparationStep ==
  ASSUME Before, pc \in Preparing, disk' = disk, running' = running, job' = job,
         pc' \in Preparing \union {"install"}
  PROVE  Kept
<1>1. PcInv'
  BY GoesOn DEF Before, PcInv, WorkInv, UpgradeInv, RollbackInv, AcceptInv, RestoreInv, Working
<1> QED BY <1>1, GoesOn DEF Kept, Before, JobTyped

\* The bundle is verified.
LEMMA VerifyBundleStep == ASSUME Before, Host!VerifyBundle PROVE Kept
<1>1. CASE pc' = "reportInstalling" /\ job' = job
  BY <1>1, PreparationStep DEF Host!VerifyBundle
<1>2. CASE Host!Finish(Host!Failure("FAILED", "bundle_verification_failed"))
  <2>1. Working /\ disk' = disk /\ running' = running
    BY DEF Host!VerifyBundle, Working
  <2> QED BY <1>2, <2>1, FinishStep, ResultsOfTheHost
<1> QED BY <1>1, <1>2 DEF Host!VerifyBundle

\* The installer ends, and leaves the rest to the next run.
LEMMA InstallerEnds ==
  ASSUME Before, Working, disk' = disk, running' = running, job' = job, pc' = "installerFailed"
  PROVE  Kept
<1>1. PcInv'
  BY DEF Before, PcInv, WorkInv, UpgradeInv, RollbackInv, AcceptInv, RestoreInv, Working
<1> QED BY <1>1, GoesOn DEF Kept, Before, JobTyped

\* The installer starts to build venv.new.
LEMMA InstallPackageStep == ASSUME Before, Host!InstallPackage PROVE Kept
<1>1. /\ pc = "install" /\ job' = job /\ running' = running /\ Working
      /\ job.op.action = "UPGRADE" /\ job.op.target # disk.record
      /\ DiskTyped /\ DiskInv /\ JobTyped' /\ WorkInv
  BY DEF Before, PcInv, UpgradeInv, Working, Host!InstallPackage, JobTyped
<1>2. CASE disk.install # None
  BY <1>1, <1>2, InstallerEnds DEF Host!InstallPackage
<1>3. CASE disk.install = None
  <2>1. disk' = [disk EXCEPT !.new = Torn] /\ pc' = "build"
    BY <1>3 DEF Host!InstallPackage
  <2>2. /\ disk'.venv = disk.venv /\ disk'.record = disk.record /\ disk'.candidate = disk.candidate
        /\ disk'.previous = disk.previous /\ disk'.recordPrevious = disk.recordPrevious
        /\ disk'.recordCandidate = disk.recordCandidate
        /\ disk'.install = None /\ disk'.marker = disk.marker /\ DiskTyped'
    BY <1>1, <1>3, <2>1 DEF DiskTyped, Disks, Environments
  <2>3. DiskInv'
    BY <1>1, <1>3, <2>2 DEF DiskInv, Settled, Retained, Switching
  <2>4. PcInv'
    BY <1>1, <2>1, <2>2
    DEF PcInv, WorkInv, UpgradeInv, RollbackInv, AcceptInv, RestoreInv, Working
  <2> QED BY <1>1, <2>2, <2>3, <2>4 DEF Kept
<1> QED BY <1>2, <1>3

\* venv.new is complete.
LEMMA BuildEnvironmentStep == ASSUME Before, Host!BuildEnvironment PROVE Kept
<1>1. /\ pc = "build" /\ job' = job /\ running' = running /\ Working
      /\ job.op.action = "UPGRADE" /\ job.op.target # disk.record /\ disk.install = None
      /\ DiskTyped /\ DiskInv /\ JobTyped /\ JobTyped' /\ WorkInv
  BY DEF Before, PcInv, UpgradeInv, Working, Host!BuildEnvironment, JobTyped
<1>2. CASE pc' = "installerFailed" /\ disk' = disk
  BY <1>1, <1>2, InstallerEnds
<1>3. CASE disk' = [disk EXCEPT !.new = job.op.target] /\ pc' = "stage"
  <2>1. job.op.target \in Release
    BY <1>1 DEF WorkInv, DiskTyped, Disks, Host!UpdaterMarkers, Host!Requests
  <2>2. /\ disk'.venv = disk.venv /\ disk'.record = disk.record /\ disk'.candidate = disk.candidate
        /\ disk'.previous = disk.previous /\ disk'.recordPrevious = disk.recordPrevious
        /\ disk'.recordCandidate = disk.recordCandidate
        /\ disk'.install = None /\ disk'.marker = disk.marker /\ disk'.new = job.op.target
    BY <1>1, <1>3 DEF DiskTyped, Disks
  <2>3. DiskTyped'
    BY <1>1, <1>3, <2>1 DEF DiskTyped, Disks, Environments
  <2>4. DiskInv'
    BY <1>1, <2>2 DEF DiskInv, Settled, Retained, Switching
  <2>5. PcInv'
    BY <1>1, <1>3, <2>2
    DEF PcInv, WorkInv, UpgradeInv, RollbackInv, AcceptInv, RestoreInv, Working
  <2> QED BY <1>1, <2>3, <2>4, <2>5 DEF Kept
<1> QED BY <1>2, <1>3 DEF Host!BuildEnvironment

\* switch_package copies the record.
LEMMA StageSwitchStep == ASSUME Before, Host!StageSwitch PROVE Kept
<1>1. /\ pc = "stage" /\ job' = job /\ running' = running /\ Working
      /\ job.op.action = "UPGRADE" /\ job.op.target # disk.record /\ disk.install = None
      /\ disk.new = job.op.target
      /\ DiskTyped /\ DiskInv /\ JobTyped' /\ WorkInv
  BY DEF Before, PcInv, UpgradeInv, Working, Host!StageSwitch, JobTyped
<1>2. CASE pc' = "installerFailed" /\ disk' = disk
  BY <1>1, <1>2, InstallerEnds
<1>3. CASE /\ disk' = [disk EXCEPT !.recordCandidate = disk.record] /\ pc' = "markStaged"
           /\ disk.candidate = None
  <2>1. /\ disk'.venv = disk.venv /\ disk'.record = disk.record /\ disk'.candidate = disk.candidate
        /\ disk'.previous = disk.previous /\ disk'.recordPrevious = disk.recordPrevious
        /\ disk'.install = None /\ disk'.marker = disk.marker /\ disk'.new = job.op.target
        /\ disk'.recordCandidate = disk.record
    BY <1>1, <1>3 DEF DiskTyped, Disks
  <2>2. disk.record \in Release
    BY <1>1 DEF DiskInv, Settled, Switching
  <2>3. DiskTyped'
    BY <1>1, <1>3, <2>2 DEF DiskTyped, Disks, Optional
  <2>4. DiskInv'
    BY <1>1, <1>3, <2>1 DEF DiskInv, Settled, Retained, Switching
  <2>5. PcInv'
    BY <1>1, <1>3, <2>1
    DEF PcInv, WorkInv, UpgradeInv, RollbackInv, AcceptInv, RestoreInv, Working
  <2> QED BY <1>1, <2>3, <2>4, <2>5 DEF Kept
<1> QED BY <1>2, <1>3 DEF Host!StageSwitch

\* The durable steps of switch_package.
LEMMA SwitchPackageStep == ASSUME Before, Host!SwitchPackage PROVE Kept
<1>1. /\ job' = job /\ Working /\ JobTyped /\ WorkInv /\ UpgradeInv
      /\ DiskTyped /\ DiskFields /\ DiskInv /\ running' \in Optional
  BY DEF Before, PcInv, Working, Host!SwitchPackage, Host!Goto, JobTyped, Optional
<1>2. JobTyped' /\ job.op.target \in Release
  BY <1>1 DEF JobTyped, WorkInv, DiskTyped, Disks, Host!UpdaterMarkers, Host!Requests
<1>3. CASE /\ Host!Goto("markStaged", "markSwitching")
           /\ disk' = [disk EXCEPT !.install = Host!InstallMarker("STAGED", "UPGRADE")]
  <2>1. /\ job.op.action = "UPGRADE" /\ job.op.target # disk.record /\ disk.install = None
        /\ disk.new = job.op.target /\ disk.recordCandidate = disk.record /\ Settled
        /\ disk.candidate = None
    BY <1>1, <1>3 DEF UpgradeInv, Host!Goto, DiskInv, Switching
  <2>2. /\ disk'.venv = disk.venv /\ disk'.record = disk.record /\ disk'.candidate = disk.candidate
        /\ disk'.previous = disk.previous /\ disk'.recordPrevious = disk.recordPrevious
        /\ disk'.marker = disk.marker /\ disk'.new = disk.new
        /\ disk'.recordCandidate = disk.recordCandidate
        /\ disk'.install = [phase |-> "STAGED", action |-> "UPGRADE", target |-> job.op.target,
                            previous |-> disk.record]
    BY <1>1, <1>3 DEF DiskTyped, Disks, Host!InstallMarker
  <2>3. /\ disk'.install \in Host!InstallMarkers /\ disk'.install # None
        /\ disk'.install.phase = "STAGED" /\ disk'.install.action = "UPGRADE"
        /\ disk'.install.target = job.op.target /\ disk'.install.previous = disk.record
    BY <1>2, <2>1, <2>2, NoneIsNoData DEF Settled, Host!InstallMarkers, Host!Phases, Host!Actions
  <2>4. DiskTyped'
    BY <1>1, <1>3, <2>2, <2>3 DEF DiskTyped, Disks
  <2>5. DiskInv'
    BY <2>1, <2>2, <2>3 DEF DiskInv, Settled, Retained, Switching, Old, New
  <2>6. PcInv'
    BY <1>1, <1>3, <2>1, <2>2, <2>3
    DEF PcInv, WorkInv, UpgradeInv, RollbackInv, AcceptInv, RestoreInv, Working, Host!Goto
  <2> QED BY <1>1, <1>2, <2>4, <2>5, <2>6 DEF Kept
<1>4. CASE /\ Host!Goto("markSwitching", "stop")
           /\ disk' = [disk EXCEPT !.install.phase = "SWITCHING"]
  <2>1. /\ disk.new = job.op.target /\ disk.recordCandidate = disk.record /\ disk.install # None
        /\ disk.install.action = "UPGRADE" /\ disk.install.target = job.op.target
        /\ Settled /\ disk.record = Old /\ New # Old
    BY <1>1, <1>4 DEF UpgradeInv, Host!Goto, DiskInv, Switching
  <2>2. /\ disk'.venv = disk.venv /\ disk'.record = disk.record /\ disk'.candidate = disk.candidate
        /\ disk'.previous = disk.previous /\ disk'.recordPrevious = disk.recordPrevious
        /\ disk'.marker = disk.marker /\ disk'.new = disk.new
        /\ disk'.recordCandidate = disk.recordCandidate
        /\ disk'.install = [disk.install EXCEPT !.phase = "SWITCHING"]
    BY <1>1, <1>4 DEF DiskTyped, Disks
  <2>3. /\ disk'.install \in Host!InstallMarkers /\ disk'.install # None
        /\ disk'.install.phase = "SWITCHING" /\ disk'.install.action = "UPGRADE"
        /\ disk'.install.target = disk.install.target /\ disk'.install.previous = disk.install.previous
    BY <1>1, <2>1, <2>2, NoneIsNoData DEF DiskTyped, Disks, Host!InstallMarkers, Host!Phases
  <2>4. DiskTyped'
    BY <1>1, <1>4, <2>2, <2>3 DEF DiskTyped, Disks
  <2>5. Switching' /\ InPlace'
    <3>1. Switching' /\ Old' = Old /\ New' = New
      BY <2>3 DEF Switching, Old, New
    <3>2. RollbackShape'
      BY <2>3 DEF RollbackShape
    <3>3. disk'.candidate = None /\ disk'.venv = Old' /\ Retained(Old)'
      BY <2>1, <2>2, <3>1 DEF Settled, Retained
    <3>4. QED
      BY <3>1, <3>2, <3>3 DEF InPlace
  <2>6. DiskInv'
    BY <2>1, <2>2, <2>3, <2>5 DEF DiskInv, Old, New
  <2>7. PcInv'
    BY <1>1, <1>4, <2>1, <2>2, <2>3, <2>5
    DEF PcInv, WorkInv, UpgradeInv, RollbackInv, AcceptInv, RestoreInv, Working, Host!Goto, Old, New
  <2> QED BY <1>1, <1>2, <2>4, <2>6, <2>7 DEF Kept
<1>5. CASE Host!Goto("stop", "moveOut") /\ disk' = disk
  <2>1. PcInv'
    BY <1>1, <1>5, GoesOn
    DEF PcInv, WorkInv, UpgradeInv, RollbackInv, AcceptInv, RestoreInv, Working, Host!Goto
  <2> QED BY <1>1, <1>2, <1>5, <2>1, GoesOn DEF Kept
<1>6. CASE /\ Host!Goto("moveOut", "moveIn")
           /\ disk' = [disk EXCEPT !.candidate = disk.venv, !.venv = None]
  <2>1. /\ Switching /\ disk.install.action = "UPGRADE" /\ disk.install.target = job.op.target
        /\ InPlace /\ disk.recordCandidate = Old /\ disk.new = New /\ Old \in Release /\ New # Old
        /\ disk.record = Old
    BY <1>1, <1>6 DEF UpgradeInv, Host!Goto, DiskInv, DiskFields, Switching
  <2>2. /\ disk'.venv = None /\ disk'.candidate = Old /\ disk'.record = disk.record
        /\ disk'.previous = disk.previous /\ disk'.recordPrevious = disk.recordPrevious
        /\ disk'.marker = disk.marker /\ disk'.new = disk.new /\ disk'.install = disk.install
        /\ disk'.recordCandidate = disk.recordCandidate
    BY <1>1, <1>6, <2>1 DEF DiskTyped, Disks, InPlace
  <2>3. disk.venv \in Release
    BY <2>1 DEF InPlace
  <2>4. DiskTyped'
    BY <1>1, <1>6, <2>3 DEF DiskTyped, Disks, Optional, Environments
  <2>5. Switching' /\ HalfWay' /\ New' = New
    BY <2>1, <2>2 DEF HalfWay, InPlace, Retained, RollbackShape, Switching, Old, New
  <2>6. DiskInv'
    BY <2>1, <2>2, <2>5 DEF DiskInv, Old, New
  <2>7. PcInv'
    BY <1>1, <1>6, <2>1, <2>2, <2>5
    DEF PcInv, WorkInv, UpgradeInv, RollbackInv, AcceptInv, RestoreInv, Working, Host!Goto
  <2> QED BY <1>1, <1>2, <2>4, <2>6, <2>7 DEF Kept
<1>7. CASE /\ Host!Goto("moveIn", "record")
           /\ disk' = [disk EXCEPT !.venv = disk.new, !.new = None]
  <2>1. /\ Switching /\ disk.install.action = "UPGRADE" /\ disk.install.target = job.op.target
        /\ HalfWay /\ disk.new = New /\ New \in Release /\ New # Old /\ disk.record \in {Old, New, Torn}
    BY <1>1, <1>7 DEF UpgradeInv, Host!Goto, DiskInv, DiskFields, Switching
  <2>2. /\ disk'.venv = New /\ disk'.candidate = disk.candidate /\ disk'.record = disk.record
        /\ disk'.previous = disk.previous /\ disk'.recordPrevious = disk.recordPrevious
        /\ disk'.marker = disk.marker /\ disk'.install = disk.install
        /\ disk'.recordCandidate = disk.recordCandidate
    BY <1>1, <1>7, <2>1 DEF DiskTyped, Disks
  <2>3. DiskTyped'
    BY <1>1, <1>7 DEF DiskTyped, Disks, Environments
  <2>4. Switching' /\ HalfWay' /\ New' = New
    BY <2>1, <2>2 DEF HalfWay, Retained, RollbackShape, Switching, Old, New
  <2>5. DiskInv'
    BY <2>1, <2>2, <2>4 DEF DiskInv, Old, New
  <2>6. PcInv'
    BY <1>1, <1>7, <2>1, <2>2, <2>4
    DEF PcInv, WorkInv, UpgradeInv, RollbackInv, AcceptInv, RestoreInv, Working, Host!Goto
  <2> QED BY <1>1, <1>2, <2>3, <2>5, <2>6 DEF Kept
<1>8. CASE /\ Host!Goto("record", "markSwitched")
           /\ disk' = [disk EXCEPT !.record = job.op.target]
  <2>1. /\ Switching /\ disk.install.action = "UPGRADE" /\ disk.install.target = job.op.target
        /\ HalfWay /\ disk.venv = New /\ New # Old
    BY <1>1, <1>8 DEF UpgradeInv, Host!Goto, DiskInv, Switching
  <2>2. /\ disk'.venv = disk.venv /\ disk'.candidate = disk.candidate /\ disk'.record = job.op.target
        /\ disk'.previous = disk.previous /\ disk'.recordPrevious = disk.recordPrevious
        /\ disk'.marker = disk.marker /\ disk'.install = disk.install
        /\ disk'.recordCandidate = disk.recordCandidate
    BY <1>1, <1>8 DEF DiskTyped, Disks
  <2>3. DiskTyped'
    BY <1>1, <1>2, <1>8 DEF DiskTyped, Disks
  <2>4. Switching' /\ HalfWay' /\ disk'.record = New' /\ disk'.venv = New'
    BY <2>1, <2>2 DEF HalfWay, Retained, RollbackShape, Switching, Old, New
  <2>5. DiskInv'
    BY <2>1, <2>2, <2>4 DEF DiskInv, Old, New
  <2>6. PcInv'
    BY <1>1, <1>8, <2>1, <2>2, <2>4
    DEF PcInv, WorkInv, UpgradeInv, RollbackInv, AcceptInv, RestoreInv, Working, Host!Goto
  <2> QED BY <1>1, <1>2, <2>3, <2>5, <2>6 DEF Kept
<1>9. CASE /\ Host!Goto("markSwitched", "start")
           /\ disk' = [disk EXCEPT !.install.phase = "SWITCHED"]
  <2>1. /\ Switching /\ disk.install.action = "UPGRADE" /\ disk.install.target = job.op.target
        /\ HalfWay /\ disk.venv = New /\ disk.record = New /\ New # Old
    BY <1>1, <1>9 DEF UpgradeInv, Host!Goto, DiskInv, Switching
  <2>2. /\ disk'.venv = disk.venv /\ disk'.candidate = disk.candidate /\ disk'.record = disk.record
        /\ disk'.previous = disk.previous /\ disk'.recordPrevious = disk.recordPrevious
        /\ disk'.marker = disk.marker /\ disk'.recordCandidate = disk.recordCandidate
        /\ disk'.install = [disk.install EXCEPT !.phase = "SWITCHED"]
    BY <1>1, <1>9 DEF DiskTyped, Disks
  <2>3. /\ disk'.install \in Host!InstallMarkers /\ disk'.install # None
        /\ disk'.install.phase = "SWITCHED" /\ disk'.install.action = "UPGRADE"
        /\ disk'.install.target = disk.install.target /\ disk'.install.previous = disk.install.previous
    BY <1>1, <2>1, <2>2, NoneIsNoData DEF Switching, DiskTyped, Disks, Host!InstallMarkers, Host!Phases
  <2>4. DiskTyped'
    BY <1>1, <1>9, <2>2, <2>3 DEF DiskTyped, Disks
  <2>5. Switching' /\ HalfWay' /\ disk'.venv = New' /\ disk'.record = New'
    BY <2>1, <2>2, <2>3 DEF HalfWay, Retained, RollbackShape, Switching, Old, New
  <2>6. DiskInv'
    BY <2>1, <2>3, <2>5 DEF DiskInv, Old, New
  <2>7. PcInv'
    BY <1>1, <1>9, <2>1, <2>2, <2>3, <2>5
    DEF PcInv, WorkInv, UpgradeInv, RollbackInv, AcceptInv, RestoreInv, Working, Host!Goto
  <2> QED BY <1>1, <1>2, <2>4, <2>6, <2>7 DEF Kept
<1> QED
  BY <1>3, <1>4, <1>5, <1>6, <1>7, <1>8, <1>9 DEF Host!SwitchPackage

\* The new service is started and checked.
LEMMA StartNewStep == ASSUME Before, Host!StartNew PROVE Kept
<1>1. /\ pc = "start" /\ disk' = disk /\ pc' \in {"acceptPrune", "restore"} /\ running' \in Optional
      /\ job' = [job EXCEPT !.context = "installer"] /\ JobTyped /\ WorkInv /\ DiskFields /\ Working
      /\ Switching /\ HalfWay /\ disk.venv = New /\ disk.record = New /\ disk.install.action = "UPGRADE"
      /\ disk.candidate \in Release
  BY DEF Before, PcInv, UpgradeInv, Working, Host!StartNew, Host!Startable, Optional, HalfWay, Switching,
    DiskFields
<1>2. JobTyped' /\ job'.op = job.op /\ job'.context = "installer"
  BY <1>1 DEF JobTyped
<1>3. /\ Switching' /\ HalfWay' /\ disk'.venv = New' /\ disk'.record = New' /\ disk'.candidate # None
      /\ disk'.install # None /\ disk'.install.action = "UPGRADE"
  BY <1>1, GoesOn DEF Switching
<1>4. PcInv'
  BY <1>1, <1>2, <1>3
  DEF PcInv, WorkInv, UpgradeInv, RollbackInv, AcceptInv, RestoreInv, Working
<1> QED BY <1>1, <1>2, <1>4, GoesOn DEF Kept

\* A command of the switch fails.
LEMMA InstallerStepFailsStep == ASSUME Before, Host!InstallerStepFails PROVE Kept
<1>1. /\ pc \in {"markSwitching", "stop", "moveOut", "moveIn", "record", "markSwitched", "start"}
      /\ pc' = "restore" /\ job' = [job EXCEPT !.context = "installer"] /\ disk' = disk
      /\ running' \in Optional /\ JobTyped /\ WorkInv /\ DiskFields /\ DiskInv /\ UpgradeInv
  BY DEF Before, PcInv, Host!InstallerStepFails, Host!MaybeStopped, JobTyped, Optional
<1>2. Working /\ disk.install.action = "UPGRADE" /\ disk.install # None
  BY <1>1 DEF Working, UpgradeInv, Switching
<1>3. /\ Settled \/ (Switching /\ HalfWay)
      /\ Switching \/ disk.candidate = None
      /\ disk.candidate = None => disk.record = Old
  <2>1. CASE pc = "markSwitching"
    BY <1>1, <1>2, <2>1 DEF UpgradeInv, DiskInv, Settled, Switching
  <2>2. CASE pc \in {"stop", "moveOut"}
    BY <1>1, <1>2, <2>2 DEF UpgradeInv, InPlace, Settled, DiskFields
  <2>3. CASE pc \in {"moveIn", "record", "markSwitched", "start"}
    BY <1>1, <1>2, <2>3 DEF UpgradeInv, HalfWay, DiskFields
  <2> QED BY <1>1, <2>1, <2>2, <2>3
<1>4. JobTyped' /\ job'.op = job.op /\ job'.context = "installer"
  BY <1>1 DEF JobTyped
<1>5. PcInv'
  BY <1>1, <1>2, <1>3, <1>4, GoesOn
  DEF PcInv, WorkInv, UpgradeInv, RollbackInv, AcceptInv, RestoreInv, Working
<1> QED BY <1>1, <1>4, <1>5, GoesOn DEF Kept

\* The installer is killed.
LEMMA InstallerKilledStep == ASSUME Before, Host!InstallerKilled PROVE Kept
<1>1. Working
  BY DEF Host!InstallerKilled, Host!InInstaller, Working
<1> QED BY <1>1, InstallerEnds DEF Host!InstallerKilled

\* The updater looks at what a failed installer left.
LEMMA InstallerFailedStep == ASSUME Before, Host!InstallerFailed PROVE Kept
<1>1. Working
  BY DEF Host!InstallerFailed, Working
<1>2. \E r \in Host!Results : Host!Finish(r)
  BY ResultsOfTheHost DEF Host!InstallerFailed
<1> QED BY <1>1, <1>2, FinishStep DEF Host!InstallerFailed

(***************************************************************************)
(* A rollback.                                                             *)
(***************************************************************************)
\* rollback refuses, or starts.
LEMMA RollbackBeginStep == ASSUME Before, Host!RollbackBegin PROVE Kept
<1>1. /\ pc = "run" /\ disk' = disk /\ running' = running /\ Working /\ WorkInv /\ JobTyped
  BY DEF Before, PcInv, Working, Host!RollbackBegin
<1>2. CASE \E r \in Host!Results : Host!Finish(r)
  BY <1>1, <1>2, FinishStep
<1>3. CASE /\ pc' = "rollbackMark" /\ job' = [job EXCEPT !.context = "rollback"]
           /\ disk.install = None /\ disk.previous # None /\ disk.recordPrevious = job.op.target
  <2>1. JobTyped' /\ job'.op = job.op /\ job'.context = "rollback"
    BY <1>1, <1>3 DEF JobTyped
  <2>2. PcInv'
    BY <1>1, <1>3, <2>1, GoesOn
    DEF PcInv, WorkInv, UpgradeInv, RollbackInv, AcceptInv, RestoreInv, Working
  <2> QED BY <1>1, <2>1, <2>2, GoesOn DEF Kept
<1> QED
  BY <1>2, <1>3, ResultsOfTheHost DEF Host!RollbackBegin

\* The durable steps of rollback.
LEMMA RollbackSwitchStep == ASSUME Before, Host!RollbackSwitch PROVE Kept
<1>1. /\ job' = job /\ Working /\ JobTyped /\ WorkInv /\ RollbackInv
      /\ DiskTyped /\ DiskFields /\ DiskInv /\ running' \in Optional
  BY DEF Before, PcInv, Working, Host!RollbackSwitch, Host!Goto, JobTyped, Optional
<1>2. JobTyped'
  BY <1>1 DEF JobTyped
<1>3. CASE /\ Host!Goto("rollbackMark", "rollbackCopy")
           /\ disk' = [disk EXCEPT !.install = Host!InstallMarker("SWITCHING", "ROLLBACK")]
  <2>1. /\ disk.install = None /\ disk.previous # None /\ disk.recordPrevious = job.op.target
        /\ job.context = "rollback" /\ Settled
    BY <1>1, <1>3 DEF RollbackInv, Host!Goto, DiskInv, Switching
  <2>2. job.op.target \in Release /\ disk.candidate = None
    BY <1>1, <1>3, <2>1 DEF Settled, WorkInv, DiskTyped, Disks, Host!UpdaterMarkers, Host!Requests
  <2>3. /\ disk'.venv = disk.venv /\ disk'.record = disk.record /\ disk'.candidate = disk.candidate
        /\ disk'.previous = disk.previous /\ disk'.recordPrevious = disk.recordPrevious
        /\ disk'.marker = disk.marker /\ disk'.recordCandidate = disk.recordCandidate
        /\ disk'.install = [phase |-> "SWITCHING", action |-> "ROLLBACK", target |-> job.op.target,
                            previous |-> disk.record]
    BY <1>1, <1>3 DEF DiskTyped, Disks, Host!InstallMarker
  <2>4. /\ disk'.install \in Host!InstallMarkers /\ disk'.install # None
        /\ disk'.install.phase = "SWITCHING" /\ disk'.install.action = "ROLLBACK"
        /\ disk'.install.target = job.op.target /\ disk'.install.previous = disk.record
    BY <2>1, <2>2, <2>3, NoneIsNoData DEF Settled, Host!InstallMarkers, Host!Phases, Host!Actions
  <2>5. DiskTyped'
    BY <1>1, <1>3, <2>3, <2>4 DEF DiskTyped, Disks
  <2>6. Switching' /\ InPlace' /\ disk'.record = Old'
    BY <2>1, <2>2, <2>3, <2>4 DEF Settled, InPlace, Retained, RollbackShape, Switching, Old, New
  <2>7. DiskInv'
    BY <2>2, <2>4, <2>6 DEF DiskInv, Old, New
  <2>8. PcInv'
    BY <1>1, <1>3, <2>1, <2>3, <2>4, <2>6
    DEF PcInv, WorkInv, UpgradeInv, RollbackInv, AcceptInv, RestoreInv, Working, Host!Goto
  <2> QED BY <1>1, <1>2, <2>5, <2>7, <2>8 DEF Kept
<1>4. CASE /\ Host!Goto("rollbackCopy", "rollbackOut")
           /\ disk' = [disk EXCEPT !.recordCandidate = disk.record]
  <2>1. /\ Switching /\ disk.install.action = "ROLLBACK" /\ disk.install.target = job.op.target
        /\ InPlace /\ disk.record = Old /\ Old \in Release
        /\ job.context = "rollback" /\ disk.recordPrevious = job.op.target
    BY <1>1, <1>4 DEF RollbackInv, Host!Goto, DiskInv, DiskFields, Switching
  <2>2. /\ disk'.venv = disk.venv /\ disk'.record = disk.record /\ disk'.candidate = disk.candidate
        /\ disk'.previous = disk.previous /\ disk'.recordPrevious = disk.recordPrevious
        /\ disk'.marker = disk.marker /\ disk'.install = disk.install /\ disk'.recordCandidate = Old
    BY <1>1, <1>4, <2>1 DEF DiskTyped, Disks
  <2>3. DiskTyped'
    BY <1>1, <1>4, <2>1 DEF DiskTyped, Disks, Optional
  <2>4. Switching' /\ InPlace' /\ Old' = Old
    BY <2>1, <2>2 DEF InPlace, Retained, RollbackShape, Switching, Old, New
  <2>5. DiskInv'
    BY <2>1, <2>2, <2>4 DEF DiskInv, Old, New
  <2>6. PcInv'
    BY <1>1, <1>4, <2>1, <2>2, <2>4
    DEF PcInv, WorkInv, UpgradeInv, RollbackInv, AcceptInv, RestoreInv, Working, Host!Goto
  <2> QED BY <1>1, <1>2, <2>3, <2>5, <2>6 DEF Kept
<1>5. CASE /\ Host!Goto("rollbackOut", "rollbackIn")
           /\ disk' = [disk EXCEPT !.candidate = disk.venv, !.venv = None]
  <2>1. /\ Switching /\ disk.install.action = "ROLLBACK" /\ disk.install.target = job.op.target
        /\ InPlace /\ disk.recordCandidate = Old /\ Old \in Release /\ New \in Release /\ disk.record = Old
        /\ job.context = "rollback" /\ disk.recordPrevious = job.op.target /\ disk.venv = Old
    BY <1>1, <1>5 DEF RollbackInv, Host!Goto, DiskInv, DiskFields, Switching, InPlace
  <2>2. /\ disk'.venv = None /\ disk'.candidate = Old /\ disk'.record = disk.record
        /\ disk'.previous = disk.previous /\ disk'.recordPrevious = disk.recordPrevious
        /\ disk'.marker = disk.marker /\ disk'.install = disk.install
        /\ disk'.recordCandidate = disk.recordCandidate
    BY <1>1, <1>5, <2>1 DEF DiskTyped, Disks
  <2>3. DiskTyped'
    BY <1>1, <1>5, <2>1 DEF DiskTyped, Disks, Optional, Environments
  <2>4. Switching' /\ HalfWay'
    BY <2>1, <2>2 DEF HalfWay, InPlace, Retained, RollbackShape, Switching, Old, New
  <2>5. DiskInv'
    BY <2>1, <2>2, <2>4 DEF DiskInv, Old, New
  <2>6. PcInv'
    BY <1>1, <1>5, <2>1, <2>2, <2>4
    DEF PcInv, WorkInv, UpgradeInv, RollbackInv, AcceptInv, RestoreInv, Working, Host!Goto
  <2> QED BY <1>1, <1>2, <2>3, <2>5, <2>6 DEF Kept
<1>6. CASE /\ Host!Goto("rollbackIn", "rollbackRecord")
           /\ disk' = [disk EXCEPT !.venv = disk.previous, !.previous = None]
  <2>1. /\ Switching /\ disk.install.action = "ROLLBACK" /\ disk.install.target = job.op.target
        /\ HalfWay /\ disk.venv = None /\ New \in Release /\ Old \in Release
        /\ disk.record \in {Old, New, Torn}
        /\ job.context = "rollback" /\ disk.recordPrevious = job.op.target
    BY <1>1, <1>6 DEF RollbackInv, Host!Goto, DiskInv, DiskFields, Switching
  <2>2. /\ disk.previous \notin {None, Old} /\ (disk.previous \in {New, Torn} \/ New = Old)
        /\ disk.recordPrevious = New
    BY <2>1 DEF HalfWay, RollbackShape, Retained, New
  <2>3. /\ disk'.venv = disk.previous /\ disk'.candidate = disk.candidate /\ disk'.record = disk.record
        /\ disk'.previous = None /\ disk'.recordPrevious = disk.recordPrevious
        /\ disk'.marker = disk.marker /\ disk'.install = disk.install
        /\ disk'.recordCandidate = disk.recordCandidate
    BY <1>1, <1>6, <2>1 DEF DiskTyped, Disks
  <2>4. DiskTyped'
    BY <1>1, <1>6 DEF DiskTyped, Disks, Environments
  <2>5. Switching' /\ HalfWay' /\ disk'.venv # None
    BY <2>1, <2>2, <2>3 DEF HalfWay, Retained, RollbackShape, Switching, Old, New
  <2>6. DiskInv'
    BY <2>1, <2>3, <2>5 DEF DiskInv, Old, New
  <2>7. PcInv'
    BY <1>1, <1>6, <2>1, <2>3, <2>5
    DEF PcInv, WorkInv, UpgradeInv, RollbackInv, AcceptInv, RestoreInv, Working, Host!Goto
  <2> QED BY <1>1, <1>2, <2>4, <2>6, <2>7 DEF Kept
<1>7. CASE /\ pc = "rollbackRecord"
           /\ \/ pc' = "rollbackRecord" /\ disk' = [disk EXCEPT !.record = Torn]
              \/ pc' = "rollbackStart" /\ disk' = [disk EXCEPT !.record = disk.recordPrevious]
  <2>1. /\ Switching /\ disk.install.action = "ROLLBACK" /\ disk.install.target = job.op.target
        /\ HalfWay /\ disk.venv # None /\ New \in Release
        /\ job.context = "rollback" /\ disk.recordPrevious = job.op.target
    BY <1>1, <1>7 DEF RollbackInv, DiskInv, DiskFields, Switching
  <2>2. /\ disk'.venv = disk.venv /\ disk'.candidate = disk.candidate
        /\ disk'.previous = disk.previous /\ disk'.recordPrevious = disk.recordPrevious
        /\ disk'.marker = disk.marker /\ disk'.install = disk.install
        /\ disk'.recordCandidate = disk.recordCandidate
        /\ disk'.record \in {New, Torn} /\ (pc' = "rollbackStart" => disk'.record = New)
    BY <1>1, <1>7, <2>1 DEF DiskTyped, Disks, New
  <2>3. disk.recordPrevious \in Release
    BY <2>1 DEF New
  <2>4. DiskTyped'
    BY <1>1, <1>7, <2>3 DEF DiskTyped, Disks
  <2>5. Switching' /\ HalfWay' /\ disk'.venv # None /\ New' = New
    BY <2>1, <2>2 DEF HalfWay, Retained, RollbackShape, Switching, Old, New
  <2>6. DiskInv'
    BY <2>1, <2>2, <2>5 DEF DiskInv, Old, New
  <2>7. PcInv'
    BY <1>1, <1>7, <2>1, <2>2, <2>5
    DEF PcInv, WorkInv, UpgradeInv, RollbackInv, AcceptInv, RestoreInv, Working
  <2> QED BY <1>1, <1>2, <2>4, <2>6, <2>7 DEF Kept
<1> QED
  BY <1>3, <1>4, <1>5, <1>6, <1>7 DEF Host!RollbackSwitch

\* The target of the rollback is started and checked.
LEMMA RollbackStartStep == ASSUME Before, Host!RollbackStart PROVE Kept
<1>1. /\ pc = "rollbackStart" /\ disk' = disk /\ pc' \in {"acceptPrune", "restore"} /\ running' \in Optional
      /\ job' = job /\ JobTyped' /\ WorkInv /\ DiskFields /\ Working /\ job.context = "rollback"
      /\ Switching /\ OperatorSwitch /\ HalfWay /\ disk.record = New
      /\ pc' = "acceptPrune" => disk.venv = New
  BY DEF Before, PcInv, RollbackInv, Working, Host!RollbackStart, Host!Startable, Host!HealthCheck,
    Host!Healthy, Optional, JobTyped, New
<1>2. PcInv'
  BY <1>1, GoesOn
  DEF PcInv, WorkInv, UpgradeInv, RollbackInv, AcceptInv, RestoreInv, Working
<1> QED BY <1>1, <1>2, GoesOn DEF Kept

\* A step of the rollback fails.
LEMMA RollbackStepFailsStep == ASSUME Before, Host!RollbackStepFails PROVE Kept
<1>1. /\ pc \in {"rollbackMark", "rollbackCopy", "rollbackOut", "rollbackIn", "rollbackRecord", "rollbackStart"}
      /\ pc' = "restore" /\ job' = job /\ disk' = disk /\ running' \in Optional
      /\ JobTyped' /\ WorkInv /\ DiskFields /\ DiskInv /\ RollbackInv
  BY DEF Before, PcInv, Host!RollbackStepFails, Host!MaybeStopped, JobTyped, Optional
<1>2. Working /\ job.context = "rollback"
  BY <1>1 DEF Working, RollbackInv
<1>3. IF pc = "rollbackMark" THEN ~ Switching /\ disk.candidate = None ELSE Switching /\ OperatorSwitch
  BY <1>1 DEF RollbackInv, DiskInv, Settled, Switching
<1>4. PcInv'
  BY <1>1, <1>2, <1>3, GoesOn
  DEF PcInv, WorkInv, UpgradeInv, RollbackInv, AcceptInv, RestoreInv, Working
<1> QED BY <1>1, <1>4, GoesOn DEF Kept

\* restore_candidate has failed: what VERSION names is in place if it is healthy, and
\* then the marker goes.
LEMMA RollbackRecheckStep == ASSUME Before, Host!RollbackRecheck PROVE Kept
<1>1. /\ pc = "rollbackRecheck" /\ running' = running /\ Working /\ WorkInv
      /\ DiskTyped /\ DiskFields /\ JobTyped /\ DiskInv /\ RollbackInv
      /\ job.context = "rollback"
  BY DEF Before, PcInv, RollbackInv, Working, Host!RollbackRecheck
<1>2. PICK r \in Host!Results : Host!Finish(r)
  BY ResultsOfTheHost DEF Host!RollbackRecheck
<1>3. CASE disk' = disk
  BY <1>1, <1>2, <1>3, FinishStep
<1>4. CASE disk' = [disk EXCEPT !.install = None] /\ disk.venv \in Release /\ disk.venv = disk.record
  <2>1. /\ disk'.venv = disk.venv /\ disk'.record = disk.record /\ disk'.candidate = disk.candidate
        /\ disk'.previous = disk.previous /\ disk'.recordPrevious = disk.recordPrevious
        /\ disk'.recordCandidate = disk.recordCandidate
        /\ disk'.install = None /\ disk'.marker = disk.marker /\ DiskTyped'
    BY <1>1, <1>4 DEF DiskTyped, Disks
  <2>2. Settled'
    <3>1. CASE ~ Switching
      BY <1>1, <2>1, <3>1 DEF DiskInv, Settled, Retained
    <3>2. CASE Switching /\ HalfWay
      BY <1>1, <1>4, <2>1, <3>2 DEF DiskInv, RollbackInv, HalfWay, RollbackShape, Switching, DiskFields, Settled, Retained
    <3>3. CASE Switching /\ InPlace
      BY <1>1, <1>4, <2>1, <3>3 DEF InPlace, Settled, Retained
    <3>4. CASE Switching /\ Replaced
      BY <1>1, <1>4, <2>1, <3>4 DEF RollbackInv, Replaced, Switching, DiskFields, Settled, Retained
    <3> QED BY <1>1, <3>1, <3>2, <3>3, <3>4 DEF DiskInv
  <2>3. DiskInv'
    BY <2>1, <2>2 DEF DiskInv, Switching
  <2>4. pc' = "saveFinal" /\ JobTyped' /\ job'.op = job.op /\ job'.result = r
    BY <1>1, <1>2 DEF Host!Finish, JobTyped
  <2>5. PcInv'
    BY <1>1, <2>1, <2>4, ResultsOfTheHost
    DEF PcInv, WorkInv, UpgradeInv, RollbackInv, AcceptInv, RestoreInv, Working
  <2> QED BY <2>1, <2>3, <2>4, <2>5, <1>1 DEF Kept
<1> QED BY <1>3, <1>4 DEF Host!RollbackRecheck, Host!HealthCheck, Host!Healthy

\* A step of the server leaves the host alone, as does a service that fails.
LEMMA HostRests ==
  ASSUME Before, disk' = disk, running' \in {running, Host!Startable}, pc' = pc, job' = job
  PROVE  Kept
<1>2. DiskTyped' /\ DiskInv' /\ JobTyped'
  BY GoesOn DEF Before, JobTyped, Optional, Host!Startable
<1>3. PcInv'
  <2>1. SameEnvironments
    BY DEF SameEnvironments
  <2>2. /\ Settled' = Settled /\ HalfWay' = HalfWay /\ InPlace' = InPlace /\ Replaced' = Replaced
        /\ Switching' = Switching /\ Old' = Old /\ New' = New
        /\ OperatorSwitch' = OperatorSwitch /\ Again' = Again
    BY <2>1, Unmoved
  <2>3. PcInv
    BY DEF Before
  <2>4. WorkInv'
    BY <2>3 DEF PcInv, WorkInv, Working
  <2>5. UpgradeInv'
    BY <2>2, <2>3 DEF PcInv, UpgradeInv, New
  <2>6. RollbackInv' /\ AcceptInv'
    BY <2>2, <2>3 DEF PcInv, RollbackInv, AcceptInv, New
  <2>7. RestoreInv'
    BY <2>2, <2>3 DEF PcInv, RestoreInv
  <2> QED BY <2>4, <2>5, <2>6, <2>7 DEF PcInv
<1> QED BY <1>2, <1>3 DEF Kept

\* All steps of the host on its own.
LEMMA HostSteps ==
  ASSUME Before, Host!LocalStep \/ Host!TimerFires \/ Host!Interruption \/ Host!Boot
  PROVE  Kept
BY RecoverAtRestStep, RecoverSwitchedStep, RecoverPreviousStep, AcceptPruneStep, AcceptMoveStep,
  AcceptRecordStep, AcceptDoneStep, RestoreBeginStep, RestoreRemoveStep, RestoreMoveStep,
  RestoreRecordStep, RestoreStartStep, RestoreDoneStep, RestoreSettleStep, RestoreFailedStep,
  EndsOfRuns, PendingStep, SaveFinalStep, UpgradeBeginStep, VerifyBundleStep, InstallPackageStep,
  BuildEnvironmentStep, StageSwitchStep, SwitchPackageStep, StartNewStep, InstallerStepFailsStep,
  InstallerKilledStep, InstallerFailedStep, RollbackBeginStep, RollbackSwitchStep, RollbackStartStep,
  RollbackStepFailsStep, RollbackRecheckStep, AcceptStepFailsStep, RestoreStepFailsStep, HostRests
  DEF Host!LocalStep, Host!Interruption, Host!StepFails, Host!ServiceFails

(***************************************************************************)
(* The requests of the updater.                                            *)
(***************************************************************************)
\* A request fails.
LEMMA RequestFailsStep == ASSUME Before, RequestFails PROVE Kept
BY Quiet DEF RequestFails, Before, JobTyped

\* The updater takes an operation up.
LEMMA FetchOperationStep == ASSUME Before, ServerTyped, FetchOperation PROVE Kept
<1>1. pc = "fetch" /\ ~ Switching /\ Settled /\ running' = running /\ DiskTyped /\ DiskInv /\ JobTyped
  BY DEF FetchOperation, Before, PcInv, UpgradeInv, DiskInv
<1>2. CASE pc' = "idle" /\ job' = Host!NoJob /\ disk' = disk
  BY <1>1, <1>2, Quiet DEF JobTyped
<1>3. CASE /\ InProgress /\ pc' = "run"
           /\ \E op : /\ op = [id |-> slot.id, action |-> slot.action,
                               target |-> slot.target, version |-> slot.version]
                      /\ disk' = [disk EXCEPT !.marker = [op |-> op, previous |-> disk.record, final |-> None]]
                      /\ job' = [job EXCEPT !.op = op]
  <2>1. PICK op : /\ op = [id |-> slot.id, action |-> slot.action,
                           target |-> slot.target, version |-> slot.version]
                  /\ disk' = [disk EXCEPT !.marker = [op |-> op, previous |-> disk.record, final |-> None]]
                  /\ job' = [job EXCEPT !.op = op]
    BY <1>3
  <2>2. op \in Host!Requests
    BY <1>3, <2>1 DEF InProgress, ServerTyped, Slots, Host!Requests, Host!Actions, Versions
  <2>3. /\ [op |-> op, previous |-> disk.record, final |-> None] \in Host!UpdaterMarkers
        /\ [op |-> op, previous |-> disk.record, final |-> None] # None
    BY <1>1, <2>2, NoneIsNoData DEF Settled, Host!UpdaterMarkers
  <2>4. /\ SameEnvironments /\ disk'.marker # None /\ disk'.marker.op = op
        /\ job'.op = op
    BY <1>1, <2>1, <2>3 DEF SameEnvironments, DiskTyped, Disks, JobTyped
  <2>5. DiskTyped'
    BY <1>1, <2>1, <2>3 DEF DiskTyped, Disks
  <2>6. JobTyped'
    BY <1>1, <2>1, <2>2 DEF JobTyped
  <2>7. DiskInv' /\ ~ Switching'
    BY <1>1, <2>4, Unmoved
  <2>8. PcInv'
    BY <1>3, <2>4, <2>7
    DEF PcInv, WorkInv, UpgradeInv, RollbackInv, AcceptInv, RestoreInv, Working
  <2> QED BY <2>5, <2>6, <2>7, <2>8 DEF Kept
<1> QED
  BY <1>2, <1>3 DEF FetchOperation, DeviceOperation

\* The archive is fetched.
LEMMA DownloadStep == ASSUME Before, Download PROVE Kept
<1>1. pc = "download" /\ disk' = disk /\ running' = running
  BY DEF Download
<1>2. CASE pc' = "idle" /\ job' = Host!NoJob
  BY <1>1, <1>2, Quiet DEF Before, JobTyped
<1>3. CASE pc' = "reportVerifying" /\ job' = job
  BY <1>1, <1>3, PreparationStep
<1>4. CASE Host!Finish(Host!Failure("FAILED", "archive_digest_mismatch"))
  BY <1>1, <1>4, FinishStep, ResultsOfTheHost DEF Working
<1> QED BY <1>2, <1>3, <1>4 DEF Download

\* A stage is reported.
LEMMA ReportStageStep == ASSUME Before, ReportStage PROVE Kept
<1>1. pc \in Preparing /\ pc' \in Preparing \union {"install"} /\ disk' = disk /\ running' = running /\ job' = job
  BY DEF ReportStage, Stage, StageWork
<1> QED BY <1>1, PreparationStep

\* The result is reported.
LEMMA ReportFinalStep == ASSUME Before, ReportFinal PROVE Kept
<1>1. /\ disk' = disk /\ running' = running
      /\ \/ pc' = "unlink" /\ job' = job
         \/ pc' = "idle" /\ job' = Host!NoJob
  BY DEF ReportFinal
<1>2. CASE pc' = "unlink" /\ job' = job
  <2>1. PcInv'
    BY <1>2 DEF PcInv, WorkInv, UpgradeInv, RollbackInv, AcceptInv, RestoreInv, Working
  <2> QED BY <1>1, <1>2, <2>1, GoesOn DEF Kept, Before, JobTyped
<1>3. CASE pc' = "idle" /\ job' = Host!NoJob
  BY <1>1, <1>3, Quiet DEF Before, JobTyped
<1> QED BY <1>1, <1>2, <1>3

\* The updater's marker is removed.
LEMMA ForgetOperationStep == ASSUME Before, ForgetOperation PROVE Kept
<1>1. /\ pc' = "idle" /\ job' = Host!NoJob /\ running' = running
      /\ disk' = [disk EXCEPT !.marker = None] /\ DiskTyped /\ DiskInv /\ JobTyped
  BY DEF ForgetOperation, Before
<1>2. SameEnvironments /\ DiskTyped'
  BY <1>1 DEF SameEnvironments, DiskTyped, Disks
<1>3. JobTyped'
  BY <1>1 DEF JobTyped, Host!NoJob, Optional
<1>4. PcInv'
  BY <1>1 DEF PcInv, WorkInv, UpgradeInv, RollbackInv, AcceptInv, RestoreInv, Working
<1> QED BY <1>1, <1>2, <1>3, <1>4, Unmoved DEF Kept

(***************************************************************************)
(* The server.                                                             *)
(***************************************************************************)
\* The states and the details, one by one.
LEMMA StatesOfOperations ==
  /\ Active = {"REQUESTED", "DOWNLOADING", "VERIFYING", "INSTALLING", "RESTARTING", "VERIFYING_HEALTH"}
  /\ DOMAIN DetailCategory =
       {"archive_digest_mismatch", "bundle_verification_failed", "previous_release_mismatch",
        "installer_failed", "interrupted_switch", "rollback_target_unhealthy",
        "previous_service_unhealthy", "none"}
<1>1. DOMAIN Progress = 1 .. 6
  BY DEF Progress
<1>2. Active = {Progress[i] : i \in 1 .. 6}
  BY <1>1 DEF Active
<1>3. 1 .. 6 = {1, 2, 3, 4, 5, 6}
  OBVIOUS
<1>4. Active = {Progress[1], Progress[2], Progress[3], Progress[4], Progress[5], Progress[6]}
  BY <1>2, <1>3
<1> QED BY <1>4 DEF Progress, DetailCategory

\* The fields of the server's row.
LEMMA SlotFields ==
  ASSUME slot \in Slots
  PROVE  /\ slot.id \in Nat /\ slot.action \in Host!Actions /\ slot.state \in States
         /\ slot.target \in Release /\ slot.version \in Versions
         /\ slot.previousVersion \in Versions \union {None} /\ slot.previous \in Optional
         /\ slot.available \in BOOLEAN /\ slot.detail \in DOMAIN DetailCategory
BY DEF Slots, Host!Actions, Optional

\* A new operation is a row.
LEMMA NewOperationTyped ==
  ASSUME NEW action \in Host!Actions, NEW target \in Release, NEW version \in Versions,
         NEW before \in Versions \union {None}, NEW wheel \in Optional, operations \in Nat
  PROVE  NewOperation(action, target, version, before, wheel) \in Slots
<1>1. operations + 1 \in Nat /\ "REQUESTED" \in States /\ "none" \in DOMAIN DetailCategory
  BY StatesOfOperations DEF States
<1> QED BY <1>1 DEF NewOperation, Slots, Host!Actions, Optional

\* The requests of operators keep the server's types.
LEMMA OperatorTyped == ASSUME ServerTyped, Operator PROVE ServerTyped'
<1> USE DEF ServerTyped
<1>1. CASE (\E r \in Release : Register(r) \/ Activate(r)) /\ UNCHANGED lifecycleVars /\ UNCHANGED late
  <2>1. PICK r \in Release : Register(r) \/ Activate(r)
    BY <1>1
  <2>2. status' \in [Release -> {"ABSENT", "VERIFIED", "APPROVED"}] /\ selection' \in Release
    BY <2>1 DEF Register, Activate
  <2> QED BY <1>1, <2>2 DEF lifecycleVars
<1>2. CASE RequestUpgradeReads /\ UNCHANGED registryVars /\ UNCHANGED late
  <2>1. intent' \in Optional
    BY <1>2 DEF RequestUpgradeReads, ActiveArtifact, Optional
  <2> QED BY <1>2, <2>1 DEF RequestUpgradeReads, registryVars
<1>3. CASE RequestUpgrade /\ UNCHANGED registryVars /\ UNCHANGED late
  <2>1. intent \in Release /\ Version(intent) \in Versions /\ operations + 1 \in Nat
    BY <1>3 DEF RequestUpgrade, Optional, Versions
  <2>2. NewOperation("UPGRADE", intent, Version(intent), latest, None) \in Slots
    BY <2>1, NewOperationTyped DEF Optional, Host!Actions
  <2> QED
    BY <1>3, <2>1, <2>2 DEF RequestUpgrade, registryVars, Optional
<1>4. CASE RequestRollback /\ UNCHANGED registryVars /\ UNCHANGED late
  <2>1. slot \in Slots /\ slot.previous # None /\ slot.previousVersion # None
    BY <1>4 DEF RequestRollback, RollbackAllowed
  <2>2. slot.previous \in Release /\ slot.previousVersion \in Versions
        /\ slot.version \in Versions \union {None} /\ slot.target \in Optional
    BY <2>1, SlotFields DEF Optional
  <2>3. NewOperation("ROLLBACK", slot.previous, slot.previousVersion, slot.version, slot.target) \in Slots
    BY <2>2, NewOperationTyped DEF Host!Actions
  <2> QED
    BY <1>4, <2>3 DEF RequestRollback, registryVars
<1> QED BY <1>1, <1>2, <1>3, <1>4 DEF Operator

\* A report leaves a row a row.
LEMMA ReportTyped ==
  ASSUME ServerTyped, NEW report \in Reports
  PROVE  /\ SlotAfter(report) \in Slots \union {None}
         /\ ReportIsNew(report) => SlotAfter(report) \in Slots
<1>1. CASE ReportIsNew(report)
  <2>1. slot \in Slots
    BY <1>1 DEF ReportIsNew, ServerTyped
  <2>2. /\ report.previous \in Release \union {None} /\ report.available \in BOOLEAN /\ report.state \in States
        /\ report.detail \in DOMAIN DetailCategory /\ "none" \in DOMAIN DetailCategory
    BY StatesOfOperations DEF Reports, Optional
  <2>3. PICK detail \in DOMAIN DetailCategory, previous \in Release \union {None}, available \in BOOLEAN :
          SlotAfter(report) = [slot EXCEPT !.state = report.state, !.detail = detail,
                                           !.previous = previous, !.available = available]
    <3>1. slot.previous \in Release \union {None} /\ slot.available \in BOOLEAN
      BY <2>1 DEF Slots
    <3> QED BY <1>1, <2>2, <3>1 DEF SlotAfter
  <2>4. SlotAfter(report) \in Slots
    BY <2>1, <2>2, <2>3 DEF Slots
  <2> QED BY <2>4
<1>2. CASE ~ ReportIsNew(report)
  BY <1>2 DEF SlotAfter, ServerTyped
<1> QED BY <1>1, <1>2

\* So does a message, whatever becomes of it.
LEMMA SendTyped ==
  ASSUME ServerTyped, NEW report \in Reports, NEW accepted \in BOOLEAN, Send(report, accepted)
  PROVE  ServerTyped'
BY ReportTyped DEF ServerTyped, Send, DeviceReport, registryVars, lifecycleVars

\* The updater sends reports of an operation it holds.
LEMMA UpdaterReportsTyped ==
  ASSUME Before, ServerTyped, ReportStage \/ ReportFinal
  PROVE  ServerTyped'
<1>1. Working => job.op.id \in Nat
  BY DEF Before, PcInv, WorkInv, DiskTyped, Disks, Host!UpdaterMarkers, Host!Requests
<1>2. CASE ReportStage
  <2>1. [id |-> job.op.id, state |-> Stage[pc], detail |-> "none",
         previous |-> None, available |-> FALSE] \in Reports
    BY <1>1, <1>2, StatesOfOperations DEF ReportStage, Working, Stage, Reports, States, Optional
  <2> QED BY <1>2, <2>1, SendTyped DEF ReportStage
<1>3. CASE ReportFinal
  <2>1. job.result \in Host!Results
    BY <1>3 DEF ReportFinal, Before, PcInv, WorkInv, JobTyped
  <2>2. [id |-> job.op.id, state |-> job.result.state, detail |-> job.result.detail,
         previous |-> job.result.previous, available |-> job.result.available] \in Reports
    BY <1>1, <1>3, <2>1, StatesOfOperations
    DEF ReportFinal, Working, Host!Results, Reports, States, Terminal, Optional
  <2> QED BY <1>3, <2>2, SendTyped DEF ReportFinal
<1> QED BY <1>2, <1>3

\* A step of the host leaves the server alone.
LEMMA ServerRests == ASSUME ServerTyped, UNCHANGED <<serverVars, late>> PROVE ServerTyped'
BY DEF ServerTyped, serverVars, registryVars, lifecycleVars

(***************************************************************************)
(* The invariant.                                                          *)
(***************************************************************************)
\* The first state satisfies the invariant.
LEMMA InitHost == Init => HostInv
<1> SUFFICES ASSUME Init PROVE HostInv
  OBVIOUS
<1>1. /\ disk = [venv |-> Bootstrap, new |-> None, candidate |-> None, previous |-> None,
                 record |-> Bootstrap, recordCandidate |-> None, recordPrevious |-> None,
                 install |-> None, marker |-> None]
      /\ running = Bootstrap /\ pc = "idle" /\ job = Host!NoJob /\ Bootstrap \in Release
  BY RegistryMakesSense DEF Init, Host!HostInit
<1>2. DiskTyped /\ JobTyped
  BY <1>1 DEF DiskTyped, Disks, JobTyped, Host!NoJob, Optional, Environments
<1>3. ServerTyped
  BY RegistryMakesSense DEF Init, RegistryInit, LifecycleInit, ServerTyped, Optional
<1>4. DiskInv
  BY <1>1 DEF DiskInv, Settled, Retained, Switching
<1>5. PcInv
  BY <1>1 DEF PcInv, WorkInv, UpgradeInv, RollbackInv, AcceptInv, RestoreInv, Working
<1> QED BY <1>2, <1>3, <1>4, <1>5 DEF HostInv, Typed

\* Every step keeps it.
LEMMA HostInvariance == HostInv /\ [Next]_vars => HostInv'
<1> SUFFICES ASSUME HostInv, [Next]_vars PROVE HostInv'
  OBVIOUS
<1>1. Before /\ ServerTyped
  BY HostBefore DEF HostInv, Typed
<1>2. Kept /\ ServerTyped' => HostInv'
  BY DEF HostInv, Typed, Kept
<1>3. CASE Operator
  BY <1>1, <1>2, <1>3, OperatorTyped, HostRests DEF Operator, agentVars
<1>4. CASE Heartbeat
  <2>1. running \in Release
    BY <1>1, <1>4 DEF Heartbeat, Before, JobTyped, Optional
  <2>2. ServerTyped'
    BY <1>1, <1>4, <2>1 DEF Heartbeat, HearVersion, registryVars, ServerTyped, Versions
  <2> QED BY <1>1, <1>2, <1>4, <2>2, HostRests DEF Heartbeat, agentVars
<1>5. CASE StoreDamaged
  <2>1. Kept
    <3>1. disk' = disk /\ running' = running /\ pc' = pc /\ job' = job
      BY <1>5 DEF StoreDamaged
    <3> QED BY <1>1, <3>1, HostRests
  <2>2. ServerTyped'
    BY <1>1, <1>5 DEF StoreDamaged, LoseObject, lifecycleVars, ServerTyped
  <2> QED BY <1>2, <2>1, <2>2
<1>6. CASE Updater
  <2>1. CASE (Host!LocalStep \/ Host!TimerFires) /\ UNCHANGED <<serverVars, late>>
    BY <1>1, <1>2, <2>1, HostSteps, ServerRests
  <2>2. CASE FetchOperation
    BY <1>1, <1>2, <2>2, FetchOperationStep, ServerRests DEF FetchOperation
  <2>3. CASE Download
    BY <1>1, <1>2, <2>3, DownloadStep, ServerRests DEF Download
  <2>4. CASE ReportStage
    BY <1>1, <1>2, <2>4, ReportStageStep, UpdaterReportsTyped
  <2>5. CASE ReportFinal
    BY <1>1, <1>2, <2>5, ReportFinalStep, UpdaterReportsTyped
  <2>6. CASE ForgetOperation
    BY <1>1, <1>2, <2>6, ForgetOperationStep, ServerRests DEF ForgetOperation
  <2> QED BY <1>6, <2>1, <2>2, <2>3, <2>4, <2>5, <2>6 DEF Updater
<1>7. CASE Interrupted \/ Restarted
  BY <1>1, <1>2, <1>7, HostSteps, ServerRests DEF Interrupted, Restarted
<1>8. CASE RequestFails
  BY <1>1, <1>2, <1>8, RequestFailsStep, ServerRests DEF RequestFails
<1>9. CASE LateReportArrives
  <2>1. ServerTyped'
    BY <1>1, <1>9, ReportTyped DEF LateReportArrives, DeviceReport, registryVars, ServerTyped
  <2> QED BY <1>1, <1>2, <1>9, <2>1, HostRests DEF LateReportArrives, agentVars
<1>10. CASE UNCHANGED vars
  BY <1>1, <1>2, <1>10, HostRests, ServerRests DEF vars, agentVars
<1> QED
  BY <1>3, <1>4, <1>5, <1>6, <1>7, <1>8, <1>9, <1>10 DEF Next

\* It holds in every state.
LEMMA HostInvariant == Spec => []HostInv
BY InitHost, HostInvariance, PTL DEF Spec

\* Through every interruption of the updater, the installer and the power, the
\* host holds an intact environment to run or to put back: switch_package,
\* rollback and recover_install never move or remove the last one.
THEOREM NeverLost == Spec => []AgentIsNeverLost
<1>1. HostInv => AgentIsNeverLost
  <2> SUFFICES ASSUME HostInv PROVE AgentIsNeverLost
    OBVIOUS
  <2>1. DiskInv /\ DiskFields
    BY HostBefore DEF Before, HostInv
  <2> QED
    BY <2>1 DEF DiskInv, DiskFields, Settled, HalfWay, InPlace, Replaced, Switching, AgentIsNeverLost
<1> QED BY <1>1, HostInvariant, PTL

\* Once recover_install has nothing left to repair, VERSION names the environment in
\* place, and VERSION.previous the one retained or, after a rollback whose own recovery
\* failed, the one in place, or what it gave up is left as venv.candidate.
THEOREM SettledDisk == Spec => []SettledDiskIsConsistent
<1>1. HostInv => SettledDiskIsConsistent
  <2> SUFFICES ASSUME HostInv, disk.install = None PROVE SettledDiskIsConsistent
    BY DEF SettledDiskIsConsistent
  <2>1. Settled /\ DiskFields
    BY HostBefore DEF HostInv, Before, DiskInv, Switching
  <2> QED
    BY <2>1 DEF Settled, Retained, DiskFields, Optional, SettledDiskIsConsistent
<1> QED BY <1>1, HostInvariant, PTL

(***************************************************************************)
(* What a result says of the host. The marker names the operation and the  *)
(* release it starts from; the switch, and what the updater finds when it  *)
(* starts again, are those of that operation.                              *)
(***************************************************************************)
Op == disk.marker.op
Start == disk.marker.previous
Final == disk.marker.final
Unfinished == disk.marker # None /\ Final = None
Finished == disk.marker # None /\ Final # None

\* The interrupted switch is the operation's. A rollback that runs again may start
\* from its target.
Agrees ==
  /\ New = Op.target /\ disk.install.action = Op.action
  /\ Old = Start \/ (OperatorSwitch /\ Old = New)

\* The release r is in place, and no repair will put another there.
Stands(r) == disk.venv = r /\ (Switching => Old = r)
At(r) == Stands(r) /\ disk.record = r

OriginInv ==
  /\ Unfinished /\ disk.install # None /\ disk.install.phase # "ROLLBACK_FAILED" => Agrees
  /\ Unfinished /\ ~ Switching => disk.record \in {Start, Op.target}

\* Where an upgrade, and where a rollback, is carried out.
Upgrading ==
  \/ pc \in Preparing \union Staging \union Moving \union {"install", "markSwitching", "restoreSettle", "installerFailed"}
  \/ pc \in Accepting \union Restoring /\ job.context = "installer"
Reverting ==
  \/ pc \in RollingBack \union {"rollbackMark", "rollbackRecheck"}
  \/ pc \in Accepting \union Restoring /\ job.context = "rollback"

BusyInv ==
  /\ Working /\ pc # "reportFinal" => Unfinished
  /\ pc = "fetch" => disk.marker = None
  /\ pc \in {"pending", "fetch"} /\ disk.install # None => disk.install.phase = "ROLLBACK_FAILED"
  /\ Upgrading => job.op.action = "UPGRADE" /\ job.before = Start
  /\ Reverting => job.op.action = "ROLLBACK"

RecoveredInv ==
  pc = "pending" /\ Unfinished =>
    /\ job.recovered = "succeeded" => disk.record = Op.target
    /\ job.recovered = "rolled_back" =>
         disk.record = Start \/ (Op.action = "ROLLBACK" /\ disk.record = Op.target)

UndoneInv ==
  pc \in Restoring \ {"restoreFailed"} /\ disk.install # None => disk.install.phase # "ROLLBACK_FAILED"

Describes(final) ==
  /\ final.state = "SUCCEEDED" => At(Op.target)
  /\ final.state = "ROLLED_BACK" /\ Op.action = "UPGRADE" => Stands(Start)
  /\ final.state = "ROLLED_BACK" /\ Op.action = "ROLLBACK" => At(Op.target)
  /\ final.state = "FAILED" /\ Op.action = "UPGRADE" => Stands(Start)
  /\ final.state = "FAILED" /\ Op.action = "ROLLBACK" => At(Start) \/ At(Op.target)

FinalInv ==
  /\ pc = "saveFinal" => Describes(job.result)
  /\ pc = "reportFinal" => job.result = Final
  /\ Finished => Describes(Final)

\* The server's side.
IsResult(report) ==
  /\ report.state = Final.state /\ report.detail = Final.detail
  /\ report.previous = Final.previous /\ report.available = Final.available

\* A report under way says what the marker says, if the server would still take it.
Backed(report) ==
  report.state \in Terminal =>
    /\ report.id <= operations
    /\ InProgress /\ slot.id = report.id => Finished /\ Op.id = report.id /\ IsResult(report)

\* The operation in the slot has ended with the result in the marker.
Reported == slot # None /\ slot.id = Op.id /\ slot.state \in Terminal

SlotInv ==
  /\ slot # None => slot.id = operations
  /\ InProgress => slot.available = FALSE
  /\ disk.marker # None => Op.id <= operations
  /\ disk.marker # None /\ Reported =>
       /\ Final # None /\ slot.state = Final.state /\ slot.detail = Final.detail
       /\ slot.available = Final.available
  /\ pc = "unlink" => Finished /\ (InProgress => slot.id # Op.id)
  /\ \A report \in late : Backed(report)

\* The updater's and the host's part of it.
ResultHost == OriginInv /\ BusyInv /\ RecoveredInv /\ UndoneInv /\ FinalInv

USE DEF Stands

\* What a result says holds on while nothing that it names is moved.
SamePlace ==
  /\ disk'.venv = disk.venv /\ disk'.record = disk.record
  /\ disk'.marker = disk.marker /\ disk'.install = disk.install

\* A step that leaves them alone leaves every claim about them alone.
LEMMA SameClaims ==
  ASSUME SamePlace
  PROVE  /\ OriginInv' = OriginInv /\ Unfinished' = Unfinished /\ Finished' = Finished
         /\ Switching' = Switching /\ Op' = Op /\ Start' = Start /\ Final' = Final /\ Old' = Old
         /\ \A f : Describes(f)' = Describes(f)
BY DEF SamePlace, OriginInv, Unfinished, Finished, Switching, Op, Start, Final, Old, New, Agrees, At, Describes

\* A step on that neither begins nor ends a switch.
LEMMA MovesResult ==
  ASSUME ResultHost, disk'.marker = disk.marker, disk'.install = disk.install,
         Switching \/ disk'.record = disk.record,
         Finished => \A r : (At(r) => At(r)') /\ (Stands(r) => Stands(r)'),
         pc' \notin {"pending", "fetch", "saveFinal", "reportFinal"},
         Working' => Working /\ pc # "reportFinal", Upgrading' => Upgrading, Reverting' => Reverting,
         Upgrading' \/ Reverting' => job'.op = job.op /\ job'.before = job.before,
         UndoneInv'
  PROVE  ResultHost'
<1>1. OriginInv'
  BY DEF ResultHost, OriginInv, Unfinished, Switching, Agrees, Old, New, Op, Start, Final
<1>2. BusyInv'
  BY DEF ResultHost, BusyInv, Unfinished, Start, Final
<1>3. FinalInv'
  BY DEF ResultHost, FinalInv, Finished, Describes, Op, Start, Final
<1> QED BY <1>1, <1>2, <1>3 DEF ResultHost, RecoveredInv

\* A step on that moves nothing.
LEMMA GoesOnResult ==
  ASSUME ResultHost, SamePlace, pc' \notin {"pending", "fetch", "saveFinal", "reportFinal"},
         Working' => Working /\ pc # "reportFinal", Upgrading' => Upgrading, Reverting' => Reverting,
         Upgrading' \/ Reverting' => job'.op = job.op /\ job'.before = job.before,
         UndoneInv'
  PROVE  ResultHost'
<1>1. \A r : (At(r) => At(r)') /\ (Stands(r) => Stands(r)')
  BY DEF SamePlace, At, Switching, Old
<1> QED BY <1>1, MovesResult DEF SamePlace

\* Half of the way, no release is in place for good.
LEMMA NoneInPlace ==
  ASSUME Before, Switching, HalfWay
  PROVE  \A r : ~ At(r) /\ ~ Stands(r)
BY DEF Before, DiskInv, HalfWay, At, DiskFields, Switching

\* Nothing is half done: recovery says whether the old release was restored.
LEMMA RecoverAtRestResult == ASSUME Before, ResultHost, Host!RecoverAtRest PROVE ResultHost'
<1>1. /\ pc = "recover" /\ pc' = "pending" /\ ~ Switching /\ job'.op = job.op
      /\ DiskTyped /\ DiskInv /\ OriginInv /\ Settled
  BY DEF Before, ResultHost, DiskInv, DiskFields, Host!Phases, Switching, Host!RecoverAtRest, Host!InstallPhase, Host!Recovered, JobTyped
<1>2. /\ disk'.venv = disk.venv /\ disk'.record = disk.record /\ disk'.marker = disk.marker
      /\ disk'.install = None \/ (disk'.install = disk.install /\ disk.install.phase = "ROLLBACK_FAILED")
  BY DEF Before, DiskTyped, Disks, DiskFields, Host!Phases, Host!RecoverAtRest, Host!InstallPhase
<1>3. OriginInv'
  BY <1>1, <1>2 DEF OriginInv, Unfinished, Switching, Op, Start, Final, Old, New, Agrees
<1>4. BusyInv'
  BY <1>1, <1>2 DEF BusyInv, Working, Upgrading, Reverting
<1>5. RecoveredInv'
  <2>1. job'.recovered = "rolled_back" => disk.install # None /\ disk.install.phase = "ROLLED_BACK"
    BY DEF Before, Host!RecoverAtRest, Host!InstallPhase, Host!Recovered, JobTyped
  <2>2. job'.recovered # "succeeded"
    BY DEF Before, Host!RecoverAtRest, Host!InstallPhase, Host!Recovered, JobTyped
  <2> QED BY <1>1, <1>2, <2>1, <2>2 DEF RecoveredInv, OriginInv, Unfinished, Agrees, Op, Start, Final, DiskInv, Old
<1>6. UndoneInv'
  BY <1>1 DEF UndoneInv
<1>7. FinalInv'
  BY <1>1, <1>2 DEF ResultHost, FinalInv, Describes, At, Finished, Op, Start, Final, Switching
<1> QED BY <1>3, <1>4, <1>5, <1>6, <1>7 DEF ResultHost

\* The switch had been made: recovery looks at the environment in place.
LEMMA RecoverSwitchedResult == ASSUME Before, ResultHost, Host!RecoverSwitched PROVE ResultHost'
<1>1. /\ pc = "recover" /\ pc' \in {"acceptPrune", "recoverPrevious"} /\ SamePlace
      /\ job'.context = "recovery"
  BY DEF Before, Host!RecoverSwitched, JobTyped, SamePlace
<1> QED BY <1>1, GoesOnResult DEF Working, Upgrading, Reverting, UndoneInv

\* The repair ends: the old release is in place and the switch forgotten.
LEMMA UndoneAtOnce ==
  ASSUME Before, ResultHost, disk.install # None, disk.install.phase # "ROLLBACK_FAILED",
         disk.record = Old, pc' = "pending", job' = [job EXCEPT !.recovered = "rolled_back"],
         disk'.venv = disk.venv, disk'.record = disk.record, disk'.marker = disk.marker,
         disk'.install = None
  PROVE  ResultHost'
<1>1. Unfinished => Agrees
  BY DEF ResultHost, OriginInv
<1>2. OriginInv' /\ RecoveredInv'
  BY <1>1 DEF OriginInv, RecoveredInv, Unfinished, Op, Start, Final, Agrees, Switching
<1>3. BusyInv'
  BY DEF BusyInv, Working, Upgrading, Reverting
<1>4. FinalInv'
  BY DEF ResultHost, FinalInv, Describes, At, Finished, Op, Start, Final, Switching
<1> QED BY <1>2, <1>3, <1>4 DEF ResultHost, UndoneInv

\* The old release is the one in place: recovery has nothing more to undo.
LEMMA RecoverPreviousResult == ASSUME Before, ResultHost, Host!RecoverPrevious PROVE ResultHost'
<1>1. Switching /\ job.context = "recovery" /\ pc = "recoverPrevious"
  BY DEF Before, PcInv, RestoreInv, Host!RecoverPrevious
<1>2. CASE pc' = "restore" /\ disk' = disk /\ job' = job
  BY <1>1, <1>2, GoesOnResult DEF SamePlace, Working, Upgrading, Reverting, UndoneInv, Switching
<1>3. CASE /\ pc' = "pending" /\ job' = [job EXCEPT !.recovered = "rolled_back"]
           /\ disk.record = Old /\ disk' = [disk EXCEPT !.install = None]
  <2>1. /\ disk'.venv = disk.venv /\ disk'.record = disk.record /\ disk'.marker = disk.marker
        /\ disk'.install = None
    BY <1>3 DEF Before, DiskTyped, Disks
  <2> QED BY <1>1, <1>3, <2>1, UndoneAtOnce DEF Switching
<1> QED
  BY <1>1, <1>2, <1>3 DEF Host!RecoverPrevious, Host!Recovered, Old

\* Acceptance makes room for the environment it retains ...
LEMMA AcceptPruneResult == ASSUME Before, ResultHost, Host!AcceptPrune PROVE ResultHost'
<1>1. /\ pc = "acceptPrune" /\ pc' \in {"acceptPrune", "acceptMove"} /\ job' = job /\ SamePlace
  BY DEF Before, DiskTyped, Disks, SamePlace, Host!AcceptPrune, Host!RemoveTree, Host!Goto
<1> QED BY <1>1, GoesOnResult DEF Working, Upgrading, Reverting, UndoneInv

\* ... moves it ...
LEMMA AcceptMoveResult == ASSUME Before, ResultHost, Host!AcceptMove PROVE ResultHost'
<1>1. /\ pc = "acceptMove" /\ pc' = "acceptRecord" /\ job' = job /\ SamePlace
  BY DEF Before, DiskTyped, Disks, SamePlace, Host!AcceptMove, Host!Goto
<1> QED BY <1>1, GoesOnResult DEF Working, Upgrading, Reverting, UndoneInv

\* ... and records it.
LEMMA AcceptRecordResult == ASSUME Before, ResultHost, Host!AcceptRecord PROVE ResultHost'
<1>1. /\ pc = "acceptRecord" /\ pc' = "acceptDone" /\ job' = job /\ SamePlace
  BY DEF Before, DiskTyped, Disks, SamePlace, Host!AcceptRecord, Host!Goto
<1> QED BY <1>1, GoesOnResult DEF Working, Upgrading, Reverting, UndoneInv

\* The switch is accepted: the operation is done, or recovery may say so.
LEMMA AcceptDoneResult == ASSUME Before, ResultHost, Host!AcceptDone PROVE ResultHost'
<1>1. /\ pc = "acceptDone" /\ Switching /\ disk.venv = New /\ disk.record = New
      /\ job.context \in {"recovery", "installer", "rollback"}
      /\ disk'.venv = disk.venv /\ disk'.record = disk.record /\ disk'.marker = disk.marker
      /\ disk'.install = None
  BY DEF Before, DiskTyped, Disks, PcInv, WorkInv, AcceptInv, Replaced, Again, InPlace, JobTyped, Host!AcceptDone, Switching
<1>2. Unfinished => Agrees /\ disk.record = Op.target
  BY <1>1 DEF ResultHost, OriginInv, Switching, Agrees
<1>3. OriginInv'
  BY <1>1, <1>2 DEF OriginInv, Unfinished, Op, Start, Final, Switching
<1>4. Finished => Describes(Final)'
  <2>1. \A r : (At(r) => At(r)') /\ (Stands(r) => Stands(r)')
    BY <1>1 DEF At, Switching
  <2> QED BY <1>1, <2>1 DEF ResultHost, FinalInv, Describes, Op, Start, Final
<1>5. CASE job.context = "recovery"
  <2>1. /\ pc' = "pending" /\ job' = [job EXCEPT !.recovered = "succeeded"]
    BY <1>1, <1>5 DEF Host!AcceptDone, Host!Recovered
  <2>2. job'.recovered = "succeeded"
    BY <2>1 DEF Before, JobTyped
  <2>3. BusyInv'
    BY <1>1, <2>1 DEF BusyInv, Working, Upgrading, Reverting
  <2>4. RecoveredInv'
    BY <1>1, <1>2, <2>1, <2>2 DEF RecoveredInv, Unfinished, Op, Start, Final
  <2>5. FinalInv'
    BY <1>1, <1>4, <2>1 DEF FinalInv, Finished, Final
  <2> QED BY <1>3, <2>1, <2>3, <2>4, <2>5 DEF ResultHost, UndoneInv
<1>6. CASE job.context # "recovery"
  <2>1. Unfinished /\ Working
    BY <1>1, <1>6 DEF ResultHost, BusyInv, Working
  <2>2. At(Op.target)'
    BY <1>1, <1>2, <2>1 DEF At, Agrees, Switching, Op
  <2>3. Op.action = IF job.context = "installer" THEN "UPGRADE" ELSE "ROLLBACK"
    BY <1>1, <1>6, <2>1 DEF Before, PcInv, WorkInv, ResultHost, BusyInv, Upgrading, Reverting, Op
  <2>4. pc' = "saveFinal" /\ job'.op = job.op
    BY <1>1, <1>6 DEF Host!AcceptDone, Host!Finish, Before, JobTyped
  <2>5. job'.result.state = IF job.context = "installer" THEN "SUCCEEDED" ELSE "ROLLED_BACK"
    <3>1. CASE job.context = "installer"
      <4>1. Host!Finish(Host!Result("SUCCEEDED", "none", job.before, TRUE))
        BY <1>1, <3>1 DEF Host!AcceptDone
      <4> QED BY <3>1, <4>1 DEF Host!Finish, Host!Result, Before, JobTyped
    <3>2. CASE job.context = "rollback"
      <4>1. Host!Finish(Host!Failure("ROLLED_BACK", "none"))
        BY <1>1, <3>2 DEF Host!AcceptDone
      <4> QED BY <3>2, <4>1 DEF Host!Finish, Host!Result, Host!Failure, Before, JobTyped
    <3> QED BY <1>1, <1>6, <3>1, <3>2
  <2>6. FinalInv'
    BY <1>1, <2>1, <2>2, <2>3, <2>4, <2>5 DEF FinalInv, Describes, Finished, Unfinished, Op, Final
  <2>7. BusyInv'
    BY <1>1, <2>1, <2>4 DEF BusyInv, Working, Upgrading, Reverting, Unfinished, Final
  <2> QED BY <1>3, <2>4, <2>6, <2>7 DEF ResultHost, UndoneInv, RecoveredInv
<1> QED BY <1>5, <1>6

\* A repair looks for the environment that was put aside.
LEMMA RestoreBeginResult == ASSUME Before, ResultHost, Host!RestoreBegin PROVE ResultHost'
<1>1. /\ pc = "restore" /\ job' = job /\ DiskInv /\ DiskFields /\ RestoreInv
      /\ pc' \in {"restoreStart", "restoreFailed", "restoreMove", "restoreRemove"}
  BY DEF Before, PcInv, Host!RestoreBegin
<1>2. CASE disk.candidate = None
  <2>1. disk' = disk /\ pc' \in {"restoreStart", "restoreFailed"}
    BY <1>2 DEF Host!RestoreBegin
  <2> QED
    BY <1>1, <1>2, <2>1, GoesOnResult DEF ResultHost, SamePlace, Working, Upgrading, Reverting, UndoneInv, Start
<1>3. CASE disk.candidate # None
  <2>1. /\ pc' \in {"restoreMove", "restoreRemove"}
        /\ disk'.record = disk.record /\ disk'.marker = disk.marker /\ disk'.install = disk.install
    BY <1>1, <1>3 DEF Before, DiskTyped, Disks, Host!RestoreBegin
  <2>2. Switching /\ HalfWay
    BY <1>1, <1>3 DEF RestoreInv, DiskInv, InPlace, Replaced, Settled
  <2>3. UndoneInv'
    BY <1>1, <2>1, <2>2 DEF ResultHost, UndoneInv, Switching
  <2> QED BY <1>1, <2>1, <2>2, <2>3, NoneInPlace, MovesResult DEF Working, Upgrading, Reverting
<1> QED BY <1>2, <1>3

\* It removes the one in place ...
LEMMA RestoreRemoveResult == ASSUME Before, ResultHost, Host!RestoreRemove PROVE ResultHost'
<1>1. /\ pc = "restoreRemove" /\ job' = job /\ Switching /\ HalfWay /\ running' = running
      /\ pc' \in {"restoreRemove", "restoreMove"}
      /\ disk'.record = disk.record /\ disk'.marker = disk.marker /\ disk'.install = disk.install
  BY DEF Before, PcInv, RestoreInv, DiskTyped, Disks, Host!RestoreRemove, Host!RemoveTree
<1>2. UndoneInv'
  BY <1>1 DEF ResultHost, UndoneInv, Switching
<1> QED BY <1>1, <1>2, NoneInPlace, MovesResult DEF Working, Upgrading, Reverting

\* ... moves the old one back ...
LEMMA RestoreMoveResult == ASSUME Before, ResultHost, Host!RestoreMove PROVE ResultHost'
<1>1. /\ pc = "restoreMove" /\ job' = job /\ Switching /\ HalfWay /\ running' = running
      /\ pc' = "restoreRecord"
      /\ disk'.record = disk.record /\ disk'.marker = disk.marker /\ disk'.install = disk.install
  BY DEF Before, PcInv, RestoreInv, DiskTyped, Disks, Host!RestoreMove, Host!Goto
<1>2. UndoneInv'
  BY <1>1 DEF ResultHost, UndoneInv, Switching
<1> QED BY <1>1, <1>2, NoneInPlace, MovesResult DEF Working, Upgrading, Reverting

\* ... records it ...
LEMMA RestoreRecordResult == ASSUME Before, ResultHost, Host!RestoreRecord PROVE ResultHost'
<1>1. /\ pc = "restoreRecord" /\ pc' = "restoreStart" /\ job' = job /\ Switching /\ InPlace
      /\ disk'.venv = disk.venv /\ disk'.record = Old /\ disk'.marker = disk.marker /\ disk'.install = disk.install
  BY DEF Before, PcInv, RestoreInv, DiskTyped, Disks, Host!RestoreRecord, Host!Goto, Old, DiskFields, Switching
<1>2. UndoneInv'
  BY <1>1 DEF ResultHost, UndoneInv, Switching
<1>3. \A r : (At(r) => At(r)') /\ (Stands(r) => Stands(r)')
  BY <1>1 DEF At, InPlace, Switching, Old
<1> QED BY <1>1, <1>2, <1>3, MovesResult DEF Working, Upgrading, Reverting

\* ... and starts it.
LEMMA RestoreStartResult == ASSUME Before, ResultHost, Host!RestoreStart PROVE ResultHost'
<1>1. /\ pc = "restoreStart" /\ pc' \in {"restoreDone", "restoreFailed"} /\ job' = job /\ disk' = disk
  BY DEF Host!RestoreStart
<1>2. UndoneInv'
  BY <1>1 DEF ResultHost, UndoneInv
<1> QED BY <1>1, <1>2, GoesOnResult DEF SamePlace, Working, Upgrading, Reverting

\* A command that fails leaves everything where it is.
LEMMA AcceptStepFailsResult == ASSUME Before, ResultHost, Host!AcceptStepFails PROVE ResultHost'
<1>1. /\ pc \in Accepting /\ disk' = disk /\ job' = job /\ Switching
      /\ \/ job.context = "recovery" /\ pc' = "recoverPrevious"
         \/ job.context = "rollback" /\ pc' = "restore"
  BY DEF Before, PcInv, AcceptInv, Host!AcceptStepFails
<1>2. UndoneInv'
  BY <1>1 DEF UndoneInv, Switching
<1> QED BY <1>1, <1>2, GoesOnResult DEF SamePlace, Working, Upgrading, Reverting

\* So does a command of the repair.
LEMMA RestoreStepFailsResult == ASSUME Before, ResultHost, Host!RestoreStepFails PROVE ResultHost'
<1>1. /\ pc \in Restoring /\ pc' = "restoreFailed" /\ disk' = disk /\ job' = job
  BY DEF Host!RestoreStepFails
<1> QED BY <1>1, GoesOnResult DEF SamePlace, Working, Upgrading, Reverting, UndoneInv

\* A result is found while nothing moves.
LEMMA FinishResult ==
  ASSUME Before, ResultHost, Working, pc # "reportFinal", disk'.marker = disk.marker,
         OriginInv', NEW r \in Host!Results, Host!Finish(r), Describes(r)'
  PROVE  ResultHost'
<1>1. pc' = "saveFinal" /\ job'.result = r /\ Unfinished
  BY DEF Host!Finish, Before, JobTyped, ResultHost, BusyInv
<1>2. BusyInv'
  BY <1>1 DEF BusyInv, Working, Upgrading, Reverting, Unfinished, Final
<1>3. FinalInv'
  BY <1>1 DEF FinalInv, Finished, Unfinished, Final, Describes
<1> QED BY <1>1, <1>2, <1>3 DEF ResultHost, RecoveredInv, UndoneInv

\* The old release runs again: the operation was undone.
LEMMA RestoreDoneResult == ASSUME Before, ResultHost, Host!RestoreDone PROVE ResultHost'
<1>1. /\ pc = "restoreDone" /\ job.context \in {"recovery", "installer", "rollback"}
      /\ disk.install # None /\ Settled /\ disk.record = Old
      /\ DiskTyped /\ JobTyped
  BY DEF Before, PcInv, WorkInv, RestoreInv, JobTyped, Host!RestoreDone
<1>a. disk.install.phase # "ROLLBACK_FAILED" /\ (Unfinished => Agrees)
  BY <1>1 DEF ResultHost, OriginInv, UndoneInv
<1>2. CASE job.context = "recovery"
  <2>1. /\ pc' = "pending" /\ job' = [job EXCEPT !.recovered = "rolled_back"]
        /\ disk' = [disk EXCEPT !.install = None]
    BY <1>1, <1>2 DEF Host!RestoreDone, Host!Recovered
  <2>2. /\ disk'.venv = disk.venv /\ disk'.record = disk.record /\ disk'.marker = disk.marker
        /\ disk'.install = None
    BY <1>1, <2>1 DEF DiskTyped, Disks
  <2> QED BY <1>1, <1>a, <2>1, <2>2, UndoneAtOnce
<1>3. CASE job.context = "rollback"
  <2>1. /\ Host!Finish(Host!Failure("FAILED", "rollback_target_unhealthy"))
        /\ disk' = [disk EXCEPT !.install = None]
    BY <1>1, <1>3 DEF Host!RestoreDone
  <2>2. /\ disk'.venv = disk.venv /\ disk'.record = disk.record /\ disk'.marker = disk.marker
        /\ disk'.install = None
    BY <1>1, <2>1 DEF DiskTyped, Disks
  <2>3. Working /\ Unfinished
    BY <1>1, <1>3 DEF ResultHost, BusyInv, Working
  <2>4. OriginInv' /\ (At(Start)' \/ At(Op.target)')
    BY <1>1, <1>a, <1>3, <2>2, <2>3 DEF OriginInv, Unfinished, Agrees, At, Switching, Settled, Op, Start, Final
  <2>5. Op'.action = "ROLLBACK"
    BY <1>1, <1>3, <2>2, <2>3 DEF Before, PcInv, WorkInv, ResultHost, BusyInv, Reverting, Op
  <2>6. Describes(Host!Failure("FAILED", "rollback_target_unhealthy"))'
    BY <2>2, <2>4, <2>5 DEF Describes, Op, Host!Failure, Host!Result
  <2> QED BY <1>1, <2>1, <2>2, <2>3, <2>4, <2>6, FinishResult, ResultsOfTheHost
<1>4. CASE job.context = "installer"
  <2>1. /\ disk' = [disk EXCEPT !.install.phase = "ROLLED_BACK"]
        /\ pc' = "restoreSettle" /\ job' = job
    BY <1>1, <1>4 DEF Host!RestoreDone
  <2>2. /\ disk'.venv = disk.venv /\ disk'.record = disk.record /\ disk'.marker = disk.marker
        /\ disk'.install = [disk.install EXCEPT !.phase = "ROLLED_BACK"]
    BY <1>1, <2>1 DEF DiskTyped, Disks
  <2>3. /\ disk'.install # None /\ disk'.install.phase = "ROLLED_BACK" /\ Old' = Old /\ New' = New
        /\ disk'.install.action = disk.install.action
    BY <1>1, <2>2, NoneIsNoData DEF DiskTyped, Disks, Host!InstallMarkers, Host!Phases, Old, New
  <2>4. Working /\ Unfinished
    BY <1>1, <1>4 DEF ResultHost, BusyInv, Working
  <2>5. OriginInv'
    BY <1>1, <1>a, <1>4, <2>2, <2>3, <2>4 DEF OriginInv, Unfinished, Agrees, Start, Final, Op
  <2>6. BusyInv'
    BY <1>1, <1>4, <2>1, <2>2, <2>4 DEF ResultHost, BusyInv, Working, Upgrading, Reverting, Unfinished, Final, Start
  <2>7. FinalInv'
    BY <2>1, <2>2, <2>4 DEF FinalInv, Finished, Unfinished, Final
  <2> QED BY <2>1, <2>5, <2>6, <2>7 DEF ResultHost, RecoveredInv, UndoneInv
<1> QED BY <1>1, <1>2, <1>3, <1>4

\* The installer has undone what it did, and says so to the updater.
LEMMA RestoreSettleResult == ASSUME Before, ResultHost, Host!RestoreSettle PROVE ResultHost'
<1>1. /\ pc = "restoreSettle" /\ pc' = "installerFailed" /\ job' = job
      /\ disk.install # None /\ disk.install.phase = "ROLLED_BACK" /\ disk.record = Old
      /\ disk'.venv = disk.venv /\ disk'.record = disk.record /\ disk'.marker = disk.marker
      /\ disk'.install = None
  BY DEF Before, PcInv, RestoreInv, DiskInv, Switching, DiskTyped, Disks, Host!RestoreSettle, Host!Goto
<1>2. Working /\ Unfinished
  BY <1>1 DEF ResultHost, BusyInv, Working
<1>3. Agrees
  BY <1>1, <1>2 DEF ResultHost, OriginInv
<1>4. OriginInv'
  BY <1>1, <1>2, <1>3 DEF OriginInv, Unfinished, Agrees, Start, Final, Op
<1>5. BusyInv'
  BY <1>1, <1>2 DEF ResultHost, BusyInv, Working, Upgrading, Reverting, Unfinished, Final, Start
<1>6. FinalInv'
  BY <1>1, <1>2 DEF FinalInv, Finished, Unfinished, Final
<1> QED BY <1>1, <1>4, <1>5, <1>6 DEF ResultHost, RecoveredInv, UndoneInv, Switching

\* The repair failed, with nothing else in place.
LEMMA RestoreFailedResult == ASSUME Before, ResultHost, Host!RestoreFailed PROVE ResultHost'
<1>1. /\ pc = "restoreFailed" /\ job.context \in {"recovery", "installer", "rollback"}
      /\ DiskTyped /\ JobTyped
  BY DEF Before, PcInv, WorkInv, JobTyped, Host!RestoreFailed
<1>2. CASE job.context = "recovery"
  <2>1. pc' = "idle" /\ disk' = disk
    BY <1>1, <1>2 DEF Host!RestoreFailed
  <2> QED BY <1>1, <2>1, GoesOnResult DEF SamePlace, Working, Upgrading, Reverting, UndoneInv
<1>3. CASE job.context = "rollback"
  <2>1. pc' = "rollbackRecheck" /\ disk' = disk /\ job' = job
    BY <1>1, <1>3 DEF Host!RestoreFailed
  <2>2. UndoneInv'
    BY <1>1, <1>3, <2>1 DEF ResultHost, UndoneInv, Start
  <2> QED BY <1>1, <1>3, <2>1, <2>2, GoesOnResult DEF SamePlace, Working, Upgrading, Reverting
<1>4. CASE job.context = "installer"
  <2>1. pc' = "installerFailed" /\ disk' = [disk EXCEPT !.install.phase = "ROLLBACK_FAILED"] /\ job' = job
    BY <1>1, <1>4 DEF Host!RestoreFailed
  <2>2. /\ disk'.venv = disk.venv /\ disk'.record = disk.record /\ disk'.marker = disk.marker
        /\ disk'.install = [disk.install EXCEPT !.phase = "ROLLBACK_FAILED"]
    BY <1>1, <2>1 DEF DiskTyped, Disks
  <2>3. disk.install # None /\ disk.record = Old
    BY <1>1, <1>4 DEF Before, PcInv, RestoreInv
  <2>4. disk'.install # None /\ disk'.install.phase = "ROLLBACK_FAILED"
    BY <1>1, <2>2, <2>3, NoneIsNoData DEF DiskTyped, Disks, Host!InstallMarkers, Host!Phases
  <2>5. Working /\ Unfinished
    BY <1>1, <1>4 DEF ResultHost, BusyInv, Working
  <2>a. disk.record \in {Start, Op.target}
    BY <2>3, <2>5 DEF ResultHost, OriginInv, Agrees, Switching
  <2>6. OriginInv'
    BY <2>2, <2>4, <2>5, <2>a DEF OriginInv, Unfinished, Agrees, Start, Final, Op
  <2>7. BusyInv'
    BY <1>1, <1>4, <2>1, <2>2, <2>5 DEF ResultHost, BusyInv, Working, Upgrading, Reverting, Unfinished, Final, Start
  <2>8. FinalInv'
    BY <2>1, <2>2, <2>5 DEF FinalInv, Finished, Unfinished, Final
  <2> QED BY <2>1, <2>4, <2>6, <2>7, <2>8 DEF ResultHost, RecoveredInv, UndoneInv, Switching
<1> QED BY <1>1, <1>2, <1>3, <1>4

\* The timer, a boot, a power loss or a kill moves nothing.
LEMMA EndsOfRunsResult ==
  ASSUME Before, ResultHost, Host!TimerFires \/ Host!PowerLoss \/ Host!Boot \/ Host!UpdaterKilled
  PROVE  ResultHost'
<1>1. SamePlace /\ pc' \in {"idle", "off", "recover"}
  BY DEF SamePlace, Host!TimerFires, Host!PowerLoss, Host!Boot, Host!UpdaterKilled, Host!Goto
<1> QED BY <1>1, GoesOnResult DEF Working, Upgrading, Reverting, UndoneInv

\* A saved operation without a result gets the one that recovery found.
LEMMA PendingResult == ASSUME Before, ResultHost, Host!Pending PROVE ResultHost'
<1>1. /\ pc = "pending" /\ ~ Switching /\ disk' = disk /\ Settled /\ JobTyped
      /\ OriginInv'
  BY SameClaims DEF SamePlace, Before, PcInv, UpgradeInv, DiskInv, Host!Pending, ResultHost
<1>2. CASE pc' = "fetch" /\ disk.marker = None
  <2>1. BusyInv'
    BY <1>1, <1>2 DEF ResultHost, BusyInv, Working, Upgrading, Reverting
  <2> QED BY <1>1, <1>2, <2>1 DEF ResultHost, RecoveredInv, UndoneInv, FinalInv, Finished
<1>3. CASE Finished /\ pc' = "reportFinal" /\ job' = [job EXCEPT !.op = disk.marker.op, !.result = disk.marker.final]
  <2>1. BusyInv'
    BY <1>3 DEF BusyInv, Working, Upgrading, Reverting
  <2>2. FinalInv'
    BY <1>1, <1>3, SameClaims DEF SamePlace, ResultHost, FinalInv, JobTyped, Final
  <2> QED BY <1>1, <1>3, <2>1, <2>2 DEF ResultHost, RecoveredInv, UndoneInv
<1>4. CASE Unfinished /\ pc' = "run"
  <2>1. BusyInv'
    BY <1>1, <1>4, SameClaims DEF SamePlace, BusyInv, Working, Upgrading, Reverting
  <2> QED BY <1>1, <1>4, <2>1 DEF ResultHost, RecoveredInv, UndoneInv, FinalInv, Finished, Unfinished, Final
<1>5. CASE /\ Unfinished /\ pc' = "saveFinal" /\ job.recovered \in {"succeeded", "rolled_back", "rollback_failed"}
           /\ job' = [job EXCEPT !.op = disk.marker.op,
                                 !.result = Host!Synthesized(job.recovered, disk.marker.op.action)]
  <2>1. BusyInv'
    BY <1>1, <1>5, SameClaims DEF SamePlace, BusyInv, Working, Upgrading, Reverting
  <2>2. disk.marker.op.action \in {"UPGRADE", "ROLLBACK"}
    BY <1>5 DEF Before, DiskTyped, Disks, Host!UpdaterMarkers, Host!Requests, Host!Actions, Unfinished
  <2>3. job'.result = Host!Synthesized(job.recovered, disk.marker.op.action)
    BY <1>1, <1>5 DEF JobTyped
  <2>4. Describes(job'.result)
    <3>1. CASE job.recovered = "succeeded"
      <4>1. At(Op.target)
        BY <1>1, <1>5, <3>1 DEF ResultHost, RecoveredInv, At, Settled
      <4>2. CASE Op.action = "UPGRADE"
        <5>1. job'.result = Host!Result("SUCCEEDED", "none", disk.marker.previous, disk.previous # None)
          BY <2>3, <3>1, <4>2 DEF Host!Synthesized, Op
        <5>2. job'.result.state = "SUCCEEDED"
          BY <5>1 DEF Host!Result
        <5> QED BY <4>1, <5>2 DEF Describes
      <4>3. CASE Op.action = "ROLLBACK"
        <5>1. job'.result = Host!Failure("ROLLED_BACK", "none")
          BY <2>3, <3>1, <4>3 DEF Host!Synthesized, Op
        <5>2. job'.result.state = "ROLLED_BACK"
          BY <5>1 DEF Host!Failure, Host!Result
        <5> QED BY <4>1, <4>3, <5>2 DEF Describes
      <4> QED BY <2>2, <4>2, <4>3 DEF Op
    <3>2. CASE job.recovered = "rolled_back"
      <4>1. At(Start) \/ (Op.action = "ROLLBACK" /\ At(Op.target))
        BY <1>1, <1>5, <3>2 DEF ResultHost, RecoveredInv, At, Settled
      <4>2. CASE Op.action = "UPGRADE"
        <5>1. job'.result = Host!Failure("ROLLED_BACK", "interrupted_switch")
          BY <2>3, <3>2, <4>2 DEF Host!Synthesized, Op
        <5>2. job'.result.state = "ROLLED_BACK"
          BY <5>1 DEF Host!Failure, Host!Result
        <5> QED BY <4>1, <4>2, <5>2 DEF Describes, At
      <4>3. CASE Op.action = "ROLLBACK"
        <5>1. job'.result = Host!Failure("FAILED", "rollback_target_unhealthy")
          BY <2>3, <3>2, <4>3 DEF Host!Synthesized, Op
        <5>2. job'.result.state = "FAILED"
          BY <5>1 DEF Host!Failure, Host!Result
        <5> QED BY <4>1, <4>3, <5>2 DEF Describes
      <4> QED BY <2>2, <4>2, <4>3 DEF Op
    <3>3. CASE job.recovered = "rollback_failed"
      <4>1. job'.result = Host!Failure("ROLLBACK_FAILED", "previous_service_unhealthy")
        BY <2>3, <3>3 DEF Host!Synthesized
      <4>2. job'.result.state = "ROLLBACK_FAILED"
        BY <4>1 DEF Host!Failure, Host!Result
      <4> QED BY <4>2 DEF Describes
    <3> QED BY <1>5, <3>1, <3>2, <3>3
  <2>5. FinalInv'
    BY <1>1, <1>5, <2>4, SameClaims DEF SamePlace, FinalInv, Finished, Unfinished
  <2> QED BY <1>1, <1>5, <2>1, <2>5 DEF ResultHost, RecoveredInv, UndoneInv
<1> QED
  BY <1>1, <1>2, <1>3, <1>4, <1>5 DEF Host!Pending, JobTyped, Finished, Unfinished, Final

\* save_marker writes the result that was found.
LEMMA SaveFinalResult == ASSUME Before, ResultHost, Host!SaveFinal PROVE ResultHost'
<1>1. /\ pc = "saveFinal" /\ pc' = "reportFinal" /\ job' = job
      /\ disk.marker # None /\ job.result # None /\ disk.marker \in Host!UpdaterMarkers
      /\ disk'.venv = disk.venv /\ disk'.record = disk.record /\ disk'.install = disk.install
      /\ disk'.marker = [disk.marker EXCEPT !.final = job.result]
  BY DEF Before, PcInv, WorkInv, Working, DiskTyped, Disks, Host!SaveFinal, Host!Goto
<1>a. job.result \in Host!Results
  BY <1>1 DEF Before, JobTyped
<1>b. disk'.marker \in Host!UpdaterMarkers
  BY <1>1, <1>a DEF Host!UpdaterMarkers
<1>2. Op' = Op /\ Start' = Start /\ Final' = job.result /\ disk'.marker # None
  BY <1>1, <1>b, NoneIsNoData DEF Op, Start, Final, Host!UpdaterMarkers
<1>3. \A r : At(r)' = At(r) /\ Stands(r)' = Stands(r)
  BY <1>1 DEF At, Switching, Old
<1>4. OriginInv'
  BY <1>1, <1>2 DEF OriginInv, Unfinished
<1>5. BusyInv'
  BY <1>1 DEF BusyInv, Working, Upgrading, Reverting
<1>6. FinalInv'
  BY <1>1, <1>2, <1>3 DEF ResultHost, FinalInv, Describes
<1> QED BY <1>1, <1>4, <1>5, <1>6 DEF ResultHost, RecoveredInv, UndoneInv

\* An upgrade starts from the release in the marker.
LEMMA UpgradeBeginResult == ASSUME Before, ResultHost, Host!UpgradeBegin PROVE ResultHost'
<1>1. /\ pc = "run" /\ job.op.action = "UPGRADE" /\ ~ Switching /\ Settled /\ Working
      /\ Unfinished /\ job.op = Op /\ JobTyped /\ disk' = disk /\ OriginInv' /\ OriginInv
  BY SameClaims DEF SamePlace, Before, PcInv, WorkInv, UpgradeInv, DiskInv, Working, Host!UpgradeBegin, ResultHost, BusyInv, Op
<1>2. CASE disk.record = job.op.target
  <2> DEFINE result == Host!Result("SUCCEEDED", "none", disk.recordPrevious,
                                   disk.recordPrevious # None /\ disk.previous # None)
  <2>1. Host!Finish(result) /\ result \in Host!Results
    BY <1>2, ResultsOfTheHost DEF Host!UpgradeBegin, Before, DiskFields
  <2>2. At(Op.target)
    BY <1>1, <1>2 DEF At, Settled
  <2>3. Describes(result)
    BY <2>2 DEF Describes, Host!Result
  <2> QED BY <1>1, <2>1, <2>3, SameClaims, FinishResult DEF SamePlace
<1>3. CASE disk.record # job.op.target
  <2>1. job' = [job EXCEPT !.before = disk.record] /\ pc' = "reportDownloading"
    BY <1>3 DEF Host!UpgradeBegin
  <2>2. job'.before = disk.record /\ job'.op = job.op
    BY <1>1, <2>1 DEF JobTyped
  <2>3. disk.record = Start
    BY <1>1, <1>3 DEF OriginInv
  <2>4. BusyInv'
    BY <1>1, <2>1, <2>2, <2>3, SameClaims DEF SamePlace, BusyInv, Reverting
  <2> QED BY <1>1, <2>1, <2>4 DEF ResultHost, RecoveredInv, UndoneInv, FinalInv, Finished, Unfinished, Final
<1> QED BY <1>2, <1>3

\* Until the installer begins to move, nothing has changed.
LEMMA PreparationResult ==
  ASSUME Before, ResultHost, pc \in Preparing, disk' = disk, job' = job, pc' \in Preparing \union {"install"}
  PROVE  ResultHost'
BY GoesOnResult DEF SamePlace, Working, Upgrading, Reverting, UndoneInv

\* Until the switch begins, the release it starts from is in place.
LEMMA StillAtStart ==
  ASSUME Before, ResultHost, pc \in Preparing \union Staging \union {"install"}
  PROVE  At(Start) /\ ~ Switching /\ Unfinished /\ Working
BY DEF Before, PcInv, WorkInv, UpgradeInv, Working, ResultHost, BusyInv, OriginInv, DiskInv, Settled, At, Switching, Op

\* A bundle that cannot be verified changes nothing.
LEMMA VerifyBundleResult == ASSUME Before, ResultHost, Host!VerifyBundle PROVE ResultHost'
<1>1. pc = "verify" /\ disk' = disk
  BY DEF Host!VerifyBundle
<1>2. CASE pc' = "reportInstalling" /\ job' = job
  BY <1>1, <1>2, PreparationResult
<1>3. CASE Host!Finish(Host!Failure("FAILED", "bundle_verification_failed"))
  <2>1. At(Start) /\ Working
    BY <1>1, StillAtStart
  <2>2. Describes(Host!Failure("FAILED", "bundle_verification_failed"))
    BY <2>1 DEF Describes, At, Host!Failure, Host!Result
  <2> QED BY <1>1, <1>3, <2>1, <2>2, SameClaims, FinishResult, ResultsOfTheHost DEF SamePlace, ResultHost
<1> QED BY <1>2, <1>3 DEF Host!VerifyBundle

\* A step of an operation that begins, or goes on with, its own switch.
LEMMA SwitchResult ==
  ASSUME ResultHost, Unfinished, disk'.marker = disk.marker,
         disk'.install # None => Agrees', ~ Switching' => disk'.record \in {Start, Op.target},
         pc' \notin {"pending", "fetch", "saveFinal", "reportFinal"},
         Upgrading' => Upgrading, Reverting' => Reverting,
         Upgrading' \/ Reverting' => job'.op = job.op /\ job'.before = job.before,
         UndoneInv'
  PROVE  ResultHost'
<1>1. OriginInv'
  BY DEF OriginInv, Unfinished, Op, Start, Final
<1>2. BusyInv'
  BY DEF ResultHost, BusyInv, Unfinished, Start, Final
<1>3. FinalInv'
  BY DEF FinalInv, Finished, Unfinished, Final
<1> QED BY <1>1, <1>2, <1>3 DEF ResultHost, RecoveredInv

\* The package arrives beside the environment in place.
LEMMA InstallPackageResult == ASSUME Before, ResultHost, Host!InstallPackage PROVE ResultHost'
<1>1. /\ pc = "install" /\ pc' \in {"installerFailed", "build"} /\ job' = job /\ running' = running
      /\ SamePlace
  BY DEF Before, DiskTyped, Disks, SamePlace, Host!InstallPackage
<1>2. UndoneInv'
  BY <1>1, StillAtStart, SameClaims DEF UndoneInv
<1> QED BY <1>1, <1>2, GoesOnResult DEF Working, Upgrading, Reverting

\* The environment is built beside the one in place.
LEMMA BuildEnvironmentResult == ASSUME Before, ResultHost, Host!BuildEnvironment PROVE ResultHost'
<1>1. /\ pc = "build" /\ pc' \in {"installerFailed", "stage"} /\ job' = job /\ SamePlace
  BY DEF Before, DiskTyped, Disks, SamePlace, Host!BuildEnvironment
<1>2. UndoneInv'
  BY <1>1, StillAtStart, SameClaims DEF UndoneInv
<1> QED BY <1>1, <1>2, GoesOnResult DEF Working, Upgrading, Reverting

\* The installer marks the switch it is about to make.
LEMMA StageSwitchResult == ASSUME Before, ResultHost, Host!StageSwitch PROVE ResultHost'
<1>1. /\ pc = "stage" /\ pc' \in {"installerFailed", "markStaged"} /\ job' = job /\ SamePlace
  BY DEF Before, DiskTyped, Disks, SamePlace, Host!StageSwitch
<1>2. UndoneInv'
  BY <1>1, StillAtStart, SameClaims DEF UndoneInv
<1> QED BY <1>1, <1>2, GoesOnResult DEF Working, Upgrading, Reverting

\* The switch: one environment goes aside, the other takes its place.
LEMMA SwitchPackageResult == ASSUME Before, ResultHost, Kept, Host!SwitchPackage PROVE ResultHost'
<1>1. /\ job' = job /\ Working /\ pc # "reportFinal" /\ Upgrading /\ UpgradeInv /\ Unfinished /\ job.op = Op
      /\ pc' \in Moving \union {"markSwitching"} /\ DiskTyped
  BY DEF Before, PcInv, WorkInv, Working, Upgrading, ResultHost, BusyInv, Host!SwitchPackage, Host!Goto, Op
<1>2. CASE Host!Goto("markStaged", "markSwitching") /\ disk' = [disk EXCEPT !.install = Host!InstallMarker("STAGED", "UPGRADE")]
  <2>1. At(Start)
    BY <1>2, StillAtStart DEF Host!Goto
  <2>2. /\ disk'.marker = disk.marker /\ disk'.record = disk.record
        /\ disk'.install = Host!InstallMarker("STAGED", "UPGRADE")
    BY <1>1, <1>2 DEF DiskTyped, Disks
  <2>3. Op.action = "UPGRADE"
    BY <1>1 DEF ResultHost, BusyInv
  <2>4. Agrees' /\ disk'.record = Start
    BY <1>1, <2>1, <2>2, <2>3 DEF Agrees, Old, New, Start, Op, At, Host!InstallMarker
  <2> QED BY <1>1, <1>2, <2>2, <2>4, SwitchResult DEF Host!Goto, Upgrading, Reverting, UndoneInv
<1>3. CASE Host!Goto("markSwitching", "stop") /\ disk' = [disk EXCEPT !.install.phase = "SWITCHING"]
  <2>1. disk.install # None /\ disk.install.phase = "STAGED"
    BY <1>1, <1>3 DEF UpgradeInv, Host!Goto
  <2>2. Agrees
    BY <1>1, <2>1 DEF ResultHost, OriginInv
  <2>3. /\ disk'.marker = disk.marker /\ disk'.record = disk.record
        /\ disk'.install = [disk.install EXCEPT !.phase = "SWITCHING"]
    BY <1>1, <1>3 DEF DiskTyped, Disks
  <2>4. disk'.install.action = disk.install.action /\ Old' = Old /\ New' = New
    BY <1>1, <2>1, <2>3 DEF DiskTyped, Disks, Host!InstallMarkers, Old, New
  <2>5. disk.record \in {Start, Op.target}
    BY <1>1, <2>1 DEF ResultHost, OriginInv, Switching
  <2> QED BY <1>1, <1>3, <2>2, <2>3, <2>4, <2>5, SwitchResult DEF Host!Goto, Upgrading, Reverting, UndoneInv, Agrees, Op, Start
<1>4. CASE Host!Goto("markSwitched", "start") /\ disk' = [disk EXCEPT !.install.phase = "SWITCHED"]
  <2>1. Switching
    BY <1>1, <1>4 DEF UpgradeInv, Host!Goto
  <2>2. Agrees
    BY <1>1, <2>1 DEF ResultHost, OriginInv, Switching
  <2>3. /\ disk'.marker = disk.marker /\ disk'.record = disk.record
        /\ disk'.install = [disk.install EXCEPT !.phase = "SWITCHED"]
    BY <1>1, <1>4 DEF DiskTyped, Disks
  <2>4. disk'.install.action = disk.install.action /\ Old' = Old /\ New' = New
    BY <1>1, <2>1, <2>3 DEF DiskTyped, Disks, Host!InstallMarkers, Old, New, Switching
  <2>5. Switching'
    BY <1>1, <1>4 DEF Kept, PcInv, UpgradeInv, Host!Goto
  <2> QED BY <1>1, <1>4, <2>2, <2>3, <2>4, <2>5, SwitchResult DEF Host!Goto, Upgrading, Reverting, UndoneInv, Agrees, Op, Start
<1>5. CASE /\ pc \in Moving /\ pc' \in Moving
           /\ disk'.marker = disk.marker /\ disk'.install = disk.install
  <2>1. Switching
    BY <1>1, <1>5 DEF UpgradeInv
  <2> QED
    BY <1>1, <1>5, <2>1, MovesResult DEF Working, Upgrading, Reverting, UndoneInv, Finished, Unfinished
<1>6. Host!Goto("markStaged", "markSwitching") => disk' = [disk EXCEPT !.install = Host!InstallMarker("STAGED", "UPGRADE")]
  BY DEF Host!SwitchPackage, Host!Goto
<1>7. Host!Goto("markSwitching", "stop") => disk' = [disk EXCEPT !.install.phase = "SWITCHING"]
  BY DEF Host!SwitchPackage, Host!Goto
<1>8. Host!Goto("markSwitched", "start") => disk' = [disk EXCEPT !.install.phase = "SWITCHED"]
  BY DEF Host!SwitchPackage, Host!Goto
<1>9. \/ Host!Goto("markStaged", "markSwitching") \/ Host!Goto("markSwitching", "stop")
      \/ Host!Goto("markSwitched", "start")
      \/ /\ pc \in Moving /\ pc' \in Moving
         /\ disk'.marker = disk.marker /\ disk'.install = disk.install
  BY <1>1 DEF Host!SwitchPackage, Host!Goto, DiskTyped, Disks
<1> QED BY <1>2, <1>3, <1>4, <1>5, <1>6, <1>7, <1>8, <1>9

\* The new agent is started, or fails to.
LEMMA StartNewResult == ASSUME Before, ResultHost, Host!StartNew PROVE ResultHost'
<1>1. /\ pc = "start" /\ pc' \in {"acceptPrune", "restore"} /\ SamePlace /\ Switching
      /\ job' = [job EXCEPT !.context = "installer"] /\ JobTyped
  BY DEF Before, PcInv, UpgradeInv, SamePlace, Host!StartNew
<1>2. job'.op = job.op /\ job'.before = job.before /\ job'.context = "installer"
  BY <1>1 DEF JobTyped
<1>3. UndoneInv'
  BY <1>1, <1>2, SameClaims DEF UndoneInv, Switching
<1> QED BY <1>1, <1>2, <1>3, GoesOnResult DEF Working, Upgrading, Reverting

\* A step of the installer fails.
LEMMA InstallerStepFailsResult == ASSUME Before, ResultHost, Host!InstallerStepFails PROVE ResultHost'
<1>1. /\ pc \in {"markSwitching", "stop", "moveOut", "moveIn", "record", "markSwitched", "start"}
      /\ pc' = "restore" /\ job' = [job EXCEPT !.context = "installer"] /\ JobTyped /\ SamePlace
      /\ disk.install # None => disk.install.phase # "ROLLBACK_FAILED"
  BY DEF Before, PcInv, UpgradeInv, Switching, SamePlace, Host!InstallerStepFails
<1>2. job'.op = job.op /\ job'.before = job.before /\ job'.context = "installer"
  BY <1>1 DEF JobTyped
<1>3. UndoneInv'
  BY <1>1, <1>2 DEF UndoneInv, SamePlace
<1> QED BY <1>1, <1>2, <1>3, GoesOnResult DEF Working, Upgrading, Reverting

\* The installer is killed.
LEMMA InstallerKilledResult == ASSUME Before, ResultHost, Host!InstallerKilled PROVE ResultHost'
<1>1. SamePlace /\ pc' = "installerFailed" /\ job' = job /\ running' = running /\ Host!InInstaller
  BY DEF SamePlace, Host!InstallerKilled
<1>2. Upgrading /\ Working /\ pc # "reportFinal"
  BY <1>1 DEF Host!InInstaller, Upgrading, Working
<1> QED BY <1>1, <1>2, GoesOnResult DEF Working, Upgrading, Reverting, UndoneInv

\* The updater finds the installer failed, and asks what is in place.
LEMMA InstallerFailedResult == ASSUME Before, ResultHost, Host!InstallerFailed PROVE ResultHost'
<1>1. /\ pc = "installerFailed" /\ disk' = disk /\ Working /\ Unfinished /\ Upgrading
      /\ job.op = Op /\ job.op.action = "UPGRADE" /\ job.before = Start /\ OriginInv'
  BY SameClaims DEF SamePlace, Before, PcInv, WorkInv, Working, Upgrading, ResultHost, BusyInv, Host!InstallerFailed, Op
<1>2. CASE Host!Finish(Host!Failure("ROLLED_BACK", "installer_failed")) /\ Host!Healthy(job.before, running)
  <2>1. disk.venv = Start
    BY <1>1, <1>2 DEF Host!Healthy
  <2>2. Stands(Start)
    BY <1>1, <2>1 DEF ResultHost, OriginInv, Agrees, Switching
  <2>3. Describes(Host!Failure("ROLLED_BACK", "installer_failed"))
    BY <1>1, <2>2 DEF Describes, Host!Failure, Host!Result
  <2> QED BY <1>1, <1>2, <2>3, SameClaims, FinishResult, ResultsOfTheHost DEF SamePlace
<1>3. CASE Host!Finish(Host!Failure("ROLLBACK_FAILED", "previous_service_unhealthy"))
  <2>1. Describes(Host!Failure("ROLLBACK_FAILED", "previous_service_unhealthy"))
    BY DEF Describes, Host!Failure, Host!Result
  <2> QED BY <1>1, <1>3, <2>1, SameClaims, FinishResult, ResultsOfTheHost DEF SamePlace
<1> QED BY <1>2, <1>3 DEF Host!InstallerFailed, Host!HealthCheck

\* A rollback starts from the release in the marker, and needs the retained one to be its target.
LEMMA RollbackBeginResult == ASSUME Before, ResultHost, Host!RollbackBegin PROVE ResultHost'
<1>1. /\ pc = "run" /\ job.op.action = "ROLLBACK" /\ ~ Switching /\ Settled /\ Working
      /\ Unfinished /\ job.op = Op /\ JobTyped /\ disk' = disk /\ OriginInv' /\ OriginInv
  BY SameClaims DEF SamePlace, Before, PcInv, WorkInv, UpgradeInv, DiskInv, Working, Host!RollbackBegin, ResultHost, BusyInv, Op
<1>a. At(Start) \/ At(Op.target)
  BY <1>1 DEF OriginInv, Settled, At
<1>2. CASE Host!Finish(Host!Failure("FAILED", "previous_release_mismatch"))
  <2>1. Describes(Host!Failure("FAILED", "previous_release_mismatch"))
    BY <1>1, <1>a DEF Describes, Host!Failure, Host!Result
  <2> QED BY <1>1, <1>2, <2>1, SameClaims, FinishResult, ResultsOfTheHost DEF SamePlace
<1>3. CASE /\ Host!Finish(Host!Failure("FAILED", "interrupted_switch"))
           /\ disk.previous # None /\ disk.recordPrevious = job.op.target
  <2>1. Describes(Host!Failure("FAILED", "interrupted_switch"))
    BY <1>1, <1>a DEF Describes, Host!Failure, Host!Result
  <2> QED BY <1>1, <1>3, <2>1, SameClaims, FinishResult, ResultsOfTheHost DEF SamePlace
<1>4. CASE pc' = "rollbackMark" /\ job' = [job EXCEPT !.context = "rollback"]
  <2>1. job'.op = job.op
    BY <1>1, <1>4 DEF JobTyped
  <2>2. BusyInv'
    BY <1>1, <1>4, <2>1, SameClaims DEF SamePlace, BusyInv, Upgrading
  <2> QED BY <1>1, <1>4, <2>2 DEF ResultHost, RecoveredInv, UndoneInv, FinalInv, Finished, Unfinished, Final
<1> QED BY <1>1, <1>2, <1>3, <1>4 DEF Host!RollbackBegin

\* Until the switch begins, the release the rollback starts from is in place, or its
\* target when it runs again.
LEMMA RollbackAtStart ==
  ASSUME Before, ResultHost, pc = "rollbackMark"
  PROVE  disk.record \in {Start, Op.target} /\ ~ Switching
BY DEF Before, PcInv, WorkInv, RollbackInv, Working, ResultHost, BusyInv, OriginInv, DiskInv, Settled, Retained, Switching, Op

\* The rollback moves the retained environment into place.
LEMMA RollbackSwitchResult == ASSUME Before, ResultHost, Host!RollbackSwitch PROVE ResultHost'
<1>1. /\ job' = job /\ Working /\ pc # "reportFinal" /\ Reverting /\ RollbackInv /\ Unfinished /\ job.op = Op
      /\ pc' \in RollingBack /\ DiskTyped
  BY DEF Before, PcInv, WorkInv, Working, Reverting, ResultHost, BusyInv, Host!RollbackSwitch, Host!Goto, Op
<1>2. CASE Host!Goto("rollbackMark", "rollbackCopy") /\ disk' = [disk EXCEPT !.install = Host!InstallMarker("SWITCHING", "ROLLBACK")]
  <2>1. disk.record \in {Start, Op.target}
    BY <1>2, RollbackAtStart DEF Host!Goto
  <2>2. /\ disk'.marker = disk.marker /\ disk'.record = disk.record
        /\ disk'.install = Host!InstallMarker("SWITCHING", "ROLLBACK")
    BY <1>1, <1>2 DEF DiskTyped, Disks
  <2>3. Op.action = "ROLLBACK"
    BY <1>1 DEF ResultHost, BusyInv
  <2>4. Agrees' /\ disk'.record \in {Start, Op.target}
    BY <1>1, <2>1, <2>2, <2>3 DEF Agrees, Old, New, Start, Op, Host!InstallMarker
  <2> QED BY <1>1, <1>2, <2>2, <2>4, SwitchResult DEF Host!Goto, Upgrading, Reverting, UndoneInv
<1>3. CASE pc \in RollingBack /\ disk'.marker = disk.marker /\ disk'.install = disk.install
  <2>1. Switching
    BY <1>3 DEF Before, PcInv, RollbackInv
  <2> QED
    BY <1>1, <1>3, <2>1, MovesResult DEF Working, Upgrading, Reverting, UndoneInv, Finished, Unfinished
<1>4. Host!Goto("rollbackMark", "rollbackCopy") => disk' = [disk EXCEPT !.install = Host!InstallMarker("SWITCHING", "ROLLBACK")]
  BY DEF Host!RollbackSwitch, Host!Goto
<1>5. \/ Host!Goto("rollbackMark", "rollbackCopy")
      \/ pc \in RollingBack /\ disk'.marker = disk.marker /\ disk'.install = disk.install
  BY <1>1 DEF Host!RollbackSwitch, Host!Goto, DiskTyped, Disks
<1> QED BY <1>2, <1>3, <1>4, <1>5

\* The rolled-back agent is started, or fails to.
LEMMA RollbackStartResult == ASSUME Before, ResultHost, Host!RollbackStart PROVE ResultHost'
<1>1. /\ pc = "rollbackStart" /\ pc' \in {"acceptPrune", "restore"} /\ SamePlace /\ Switching /\ job' = job
      /\ disk' = disk /\ disk.candidate # None /\ job.context = "rollback"
  BY DEF Before, PcInv, RollbackInv, DiskFields, HalfWay, Switching, SamePlace, Host!RollbackStart
<1>2. UndoneInv'
  BY <1>1, SameClaims DEF UndoneInv, Switching
<1> QED BY <1>1, <1>2, GoesOnResult DEF Working, Upgrading, Reverting

\* A step of the rollback fails.
LEMMA RollbackStepFailsResult == ASSUME Before, ResultHost, Host!RollbackStepFails PROVE ResultHost'
<1>1. /\ pc \in {"rollbackMark", "rollbackCopy", "rollbackOut", "rollbackIn", "rollbackRecord", "rollbackStart"}
      /\ pc' = "restore" /\ disk' = disk /\ job' = job /\ job.context = "rollback" /\ SamePlace
      /\ disk.install # None => disk.install.phase # "ROLLBACK_FAILED"
  BY DEF Before, PcInv, RollbackInv, SamePlace, Switching, Host!RollbackStepFails
<1>2. UndoneInv'
  BY <1>1, SameClaims DEF UndoneInv
<1> QED BY <1>1, <1>2, GoesOnResult DEF Working, Upgrading, Reverting

\* After a repair that failed the updater looks again, and keeps what is in place.
LEMMA RollbackRecheckResult == ASSUME Before, ResultHost, Host!RollbackRecheck PROVE ResultHost'
<1>1. /\ pc = "rollbackRecheck" /\ Working /\ Unfinished /\ job.op = Op /\ job.op.action = "ROLLBACK"
      /\ DiskTyped /\ DiskInv /\ OriginInv
  BY DEF Before, PcInv, WorkInv, Working, Reverting, Host!RollbackRecheck, ResultHost, BusyInv, Op
<1>2. CASE /\ Host!Finish(Host!Failure("FAILED", "interrupted_switch")) /\ disk' = [disk EXCEPT !.install = None]
           /\ disk.venv = disk.record /\ disk.record \in Release
  <2>1. /\ disk'.venv = disk.venv /\ disk'.record = disk.record /\ disk'.marker = disk.marker
        /\ disk'.install = None
    BY <1>1, <1>2 DEF DiskTyped, Disks
  <2>2. disk.record \in {Start, Op.target}
    BY <1>1, <1>2 DEF DiskInv, OriginInv, Agrees, Switching
  <2>3. OriginInv' /\ (At(Start)' \/ At(Op.target)')
    BY <1>1, <1>2, <2>1, <2>2 DEF OriginInv, At, Switching, Op, Start, Unfinished, Final
  <2>4. Describes(Host!Failure("FAILED", "interrupted_switch"))'
    BY <1>1, <2>1, <2>3 DEF Describes, Op, Host!Failure, Host!Result
  <2> QED BY <1>1, <1>2, <2>1, <2>3, <2>4, FinishResult, ResultsOfTheHost
<1>3. CASE Host!Finish(Host!Failure("ROLLBACK_FAILED", "previous_service_unhealthy")) /\ disk' = disk
  <2>1. Describes(Host!Failure("ROLLBACK_FAILED", "previous_service_unhealthy"))
    BY DEF Describes, Host!Failure, Host!Result
  <2> QED BY <1>1, <1>3, <2>1, SameClaims, FinishResult, ResultsOfTheHost DEF SamePlace
<1> QED BY <1>2, <1>3 DEF Host!RollbackRecheck, Host!HealthCheck, Host!Healthy

\* A step of the server changes nothing on the host, nor does a service that fails.
LEMMA HostRestsResult ==
  ASSUME ResultHost, disk' = disk, pc' = pc, job' = job
  PROVE  ResultHost'
<1>1. BusyInv'
  BY SameClaims DEF SamePlace, ResultHost, BusyInv, Working, Upgrading, Reverting
<1>2. RecoveredInv' /\ UndoneInv'
  BY SameClaims DEF SamePlace, ResultHost, RecoveredInv, UndoneInv
<1> QED BY <1>1, <1>2, SameClaims DEF SamePlace, ResultHost, FinalInv

\* Every step of the host on its own.
LEMMA HostResults ==
  ASSUME Before, ResultHost, Host!LocalStep \/ Host!TimerFires \/ Host!Interruption \/ Host!Boot
  PROVE  ResultHost'
<1>1. Kept
  BY HostSteps
<1> QED
  BY <1>1, RecoverAtRestResult, RecoverSwitchedResult, RecoverPreviousResult, AcceptPruneResult, AcceptMoveResult,
     AcceptRecordResult, AcceptDoneResult, RestoreBeginResult, RestoreRemoveResult, RestoreMoveResult,
     RestoreRecordResult, RestoreStartResult, RestoreDoneResult, RestoreSettleResult, RestoreFailedResult,
     PendingResult, SaveFinalResult, UpgradeBeginResult, VerifyBundleResult, InstallPackageResult,
     BuildEnvironmentResult, StageSwitchResult, SwitchPackageResult, StartNewResult, InstallerFailedResult,
     RollbackBeginResult, RollbackSwitchResult, RollbackStartResult, RollbackRecheckResult,
     EndsOfRunsResult, InstallerKilledResult, InstallerStepFailsResult, RollbackStepFailsResult,
     AcceptStepFailsResult, RestoreStepFailsResult, HostRestsResult
  DEF Host!LocalStep, Host!Interruption, Host!StepFails, Host!ServiceFails

\* A request that fails changes nothing on the host.
LEMMA RequestFailsResult == ASSUME Before, ResultHost, RequestFails PROVE ResultHost'
<1>1. SamePlace /\ pc' = "idle"
  BY DEF SamePlace, RequestFails
<1> QED BY <1>1, GoesOnResult DEF Working, Upgrading, Reverting, UndoneInv

\* The operation that is fetched is saved with the release it starts from.
LEMMA FetchOperationResult == ASSUME Before, ServerTyped, ResultHost, FetchOperation PROVE ResultHost'
<1>1. /\ pc = "fetch" /\ ~ Switching /\ Settled /\ DiskTyped /\ DiskFields
      /\ disk.install # None => disk.install.phase = "ROLLBACK_FAILED"
  BY DEF FetchOperation, Before, PcInv, UpgradeInv, DiskInv, ResultHost, BusyInv
<1>2. CASE pc' = "idle" /\ disk' = disk
  BY <1>2, GoesOnResult DEF SamePlace, Working, Upgrading, Reverting, UndoneInv
<1>3. CASE DeviceOperation # None /\ Understood
  <2> DEFINE op == [id |-> slot.id, action |-> slot.action, target |-> slot.target, version |-> slot.version]
             marker == [op |-> op, previous |-> disk.record, final |-> None]
  <2>1. disk' = [disk EXCEPT !.marker = marker] /\ pc' = "run"
    BY <1>3 DEF FetchOperation
  <2>2. slot \in Slots
    BY <1>3 DEF DeviceOperation, ServerTyped, InProgress
  <2>3. marker \in Host!UpdaterMarkers
    BY <1>1, <2>2, SlotFields DEF Host!UpdaterMarkers, Host!Requests, Versions, Settled
  <2>4. /\ disk'.marker # None /\ disk'.marker.final = None /\ disk'.marker.previous = disk.record
        /\ disk'.install = disk.install /\ disk'.record = disk.record
    BY <1>1, <2>1, <2>3, NoneIsNoData DEF DiskTyped, Disks
  <2>5. OriginInv'
    BY <1>1, <2>4 DEF OriginInv, Unfinished, Start, Final, Switching
  <2>6. BusyInv'
    BY <2>1, <2>4 DEF BusyInv, Unfinished, Final, Upgrading, Reverting
  <2> QED BY <2>1, <2>4, <2>5, <2>6 DEF ResultHost, RecoveredInv, UndoneInv, FinalInv, Finished, Final
<1> QED BY <1>2, <1>3 DEF FetchOperation

\* An archive that cannot be fetched ends the operation where it began.
LEMMA DownloadResult == ASSUME Before, ResultHost, Download PROVE ResultHost'
<1>1. pc = "download" /\ disk' = disk
  BY DEF Download
<1>2. CASE pc' = "idle"
  BY <1>1, <1>2, GoesOnResult DEF SamePlace, Working, Upgrading, Reverting, UndoneInv
<1>3. CASE pc' = "reportVerifying" /\ job' = job
  BY <1>1, <1>3, PreparationResult
<1>4. CASE Host!Finish(Host!Failure("FAILED", "archive_digest_mismatch"))
  <2>1. At(Start) /\ Working
    BY <1>1, StillAtStart
  <2>2. Describes(Host!Failure("FAILED", "archive_digest_mismatch"))
    BY <2>1 DEF Describes, At, Host!Failure, Host!Result
  <2> QED BY <1>1, <1>4, <2>1, <2>2, SameClaims, FinishResult, ResultsOfTheHost DEF SamePlace, ResultHost
<1> QED BY <1>2, <1>3, <1>4 DEF Download

\* Reports of progress change nothing on the host ...
LEMMA ReportStageResult == ASSUME Before, ResultHost, ReportStage PROVE ResultHost'
<1>1. pc \in Preparing /\ pc' \in Preparing \union {"install"} /\ disk' = disk /\ job' = job
  BY DEF ReportStage, Stage, StageWork
<1> QED BY <1>1, PreparationResult

\* ... nor does the report of the result.
LEMMA ReportFinalResult == ASSUME Before, ResultHost, ReportFinal PROVE ResultHost'
<1>1. SamePlace /\ pc' \in {"unlink", "idle"}
  BY DEF SamePlace, ReportFinal
<1> QED BY <1>1, GoesOnResult DEF Working, Upgrading, Reverting, UndoneInv

\* An operation is forgotten with its result.
LEMMA ForgetOperationResult == ASSUME Before, ResultHost, ForgetOperation PROVE ResultHost'
<1>1. pc' = "idle" /\ disk'.marker = None
  BY DEF ForgetOperation, Before, DiskTyped, Disks
<1>2. BusyInv'
  BY <1>1 DEF BusyInv, Working, Upgrading, Reverting
<1> QED BY <1>1, <1>2 DEF ResultHost, OriginInv, RecoveredInv, UndoneInv, FinalInv, Unfinished, Finished

\* The steps of the host leave the marker alone but for the result they save.
LEMMA HostKeepsMarker ==
  ASSUME Before, Host!LocalStep \/ Host!TimerFires \/ Host!Interruption \/ Host!Boot, ~ Host!SaveFinal
  PROVE  disk'.marker = disk.marker /\ (pc' # "unlink" \/ (disk' = disk /\ pc' = pc))
<1> USE DEF Host!Goto, Host!Finish, Host!Recovered
<1>1. DiskTyped /\ WorkInv /\ JobTyped
  BY DEF Before, PcInv
<1>2. CASE Host!RecoverAtRest \/ Host!RecoverSwitched \/ Host!RecoverPrevious
  BY <1>1, <1>2 DEF DiskTyped, Disks, Host!RecoverAtRest, Host!RecoverSwitched, Host!RecoverPrevious
<1>3. CASE Host!AcceptPrune \/ Host!AcceptMove \/ Host!AcceptRecord
  BY <1>1, <1>3 DEF DiskTyped, Disks, Host!AcceptPrune, Host!RemoveTree, Host!AcceptMove, Host!AcceptRecord
<1>4. CASE Host!AcceptDone
  <2>1. disk'.marker = disk.marker
    BY <1>1, <1>4 DEF DiskTyped, Disks, Host!AcceptDone
  <2>2. job.context \in {"recovery", "installer", "rollback"}
    BY <1>1, <1>4 DEF WorkInv, JobTyped, Host!AcceptDone
  <2>3. pc' # "unlink"
    <3>1. CASE job.context = "recovery"
      BY <1>4, <3>1 DEF Host!AcceptDone
    <3>2. CASE job.context = "installer"
      BY <1>4, <3>2 DEF Host!AcceptDone
    <3>3. CASE job.context = "rollback"
      BY <1>4, <3>3 DEF Host!AcceptDone
    <3> QED BY <2>2, <3>1, <3>2, <3>3
  <2> QED BY <2>1, <2>3
<1>5. CASE Host!RestoreBegin \/ Host!RestoreRemove \/ Host!RestoreMove \/ Host!RestoreRecord \/ Host!RestoreStart \/ Host!RestoreSettle
  BY <1>1, <1>5 DEF DiskTyped, Disks, Host!RestoreBegin, Host!RestoreRemove, Host!RemoveTree, Host!RestoreMove,
     Host!RestoreRecord, Host!RestoreStart, Host!RestoreSettle
<1>6. CASE Host!RestoreDone \/ Host!RestoreFailed
  <2>1. job.context \in {"recovery", "installer", "rollback"}
    BY <1>1, <1>6 DEF WorkInv, JobTyped, Host!RestoreDone, Host!RestoreFailed
  <2>2. \/ disk' = disk \/ disk' = [disk EXCEPT !.install = None]
        \/ disk' = [disk EXCEPT !.install.phase = "ROLLED_BACK"]
        \/ disk' = [disk EXCEPT !.install.phase = "ROLLBACK_FAILED"]
    <3>1. CASE job.context = "recovery"
      BY <1>6, <3>1 DEF Host!RestoreDone, Host!RestoreFailed
    <3>2. CASE job.context = "installer"
      BY <1>6, <3>2 DEF Host!RestoreDone, Host!RestoreFailed
    <3>3. CASE job.context = "rollback"
      BY <1>6, <3>3 DEF Host!RestoreDone, Host!RestoreFailed
    <3> QED BY <2>1, <3>1, <3>2, <3>3
  <2>3. pc' # "unlink"
    <3>1. CASE job.context = "recovery"
      BY <1>6, <3>1 DEF Host!RestoreDone, Host!RestoreFailed
    <3>2. CASE job.context = "installer"
      BY <1>6, <3>2 DEF Host!RestoreDone, Host!RestoreFailed
    <3>3. CASE job.context = "rollback"
      BY <1>6, <3>3 DEF Host!RestoreDone, Host!RestoreFailed
    <3> QED BY <2>1, <3>1, <3>2, <3>3
  <2> QED BY <1>1, <2>2, <2>3 DEF DiskTyped, Disks
<1>7. CASE Host!Pending \/ Host!UpgradeBegin \/ Host!VerifyBundle \/ Host!RollbackBegin \/ Host!RollbackStart
           \/ Host!StartNew \/ Host!InstallerFailed
  BY <1>7 DEF Host!Pending, Host!UpgradeBegin, Host!VerifyBundle, Host!RollbackBegin, Host!RollbackStart,
     Host!StartNew, Host!InstallerFailed
<1>8. CASE Host!InstallPackage \/ Host!BuildEnvironment \/ Host!StageSwitch \/ Host!RollbackRecheck
  BY <1>1, <1>8 DEF DiskTyped, Disks, Host!InstallPackage, Host!BuildEnvironment, Host!StageSwitch, Host!RollbackRecheck
<1>9. CASE Host!SwitchPackage
  BY <1>1, <1>9 DEF DiskTyped, Disks, Host!SwitchPackage
<1>10. CASE Host!RollbackSwitch
  BY <1>1, <1>10 DEF DiskTyped, Disks, Host!RollbackSwitch
<1>11. CASE Host!TimerFires \/ Host!Interruption \/ Host!Boot
  BY <1>11 DEF Host!TimerFires, Host!Boot, Host!Interruption, Host!PowerLoss, Host!UpdaterKilled, Host!InstallerKilled,
     Host!StepFails, Host!AcceptStepFails, Host!RestoreStepFails, Host!InstallerStepFails, Host!RollbackStepFails,
     Host!ServiceFails
<1> QED
  BY <1>2, <1>3, <1>4, <1>5, <1>6, <1>7, <1>8, <1>9, <1>10, <1>11 DEF Host!LocalStep

\* What is known before a step.
Known == Before /\ ServerTyped /\ ResultHost /\ SlotInv

\* A step of the host, whose server rests.
LEMMA HostSlot ==
  ASSUME Known, Host!LocalStep \/ Host!TimerFires \/ Host!Interruption \/ Host!Boot,
         UNCHANGED <<serverVars, late>>
  PROVE  SlotInv'
<1>1. slot' = slot /\ operations' = operations /\ late' = late
  BY DEF serverVars, lifecycleVars
<1>2. CASE Host!SaveFinal
  <2>1. /\ pc = "saveFinal" /\ pc' = "reportFinal" /\ Unfinished /\ disk.marker \in Host!UpdaterMarkers
        /\ disk'.marker = [disk.marker EXCEPT !.final = job.result]
    BY <1>2 DEF Known, Before, PcInv, DiskTyped, Disks, Host!SaveFinal, Host!Goto, ResultHost, BusyInv, Working, Unfinished
  <2>2. Op' = Op
    BY <2>1 DEF Op, Host!UpdaterMarkers
  <2> QED BY <1>1, <2>1, <2>2 DEF Known, SlotInv, InProgress, Reported, Backed, Unfinished, Finished
<1>3. CASE ~ Host!SaveFinal
  <2>1. disk'.marker = disk.marker /\ (pc' # "unlink" \/ pc' = pc)
    BY <1>3, HostKeepsMarker DEF Known
  <2> QED
    BY <1>1, <2>1 DEF Known, SlotInv, InProgress, Reported, Backed, Finished, Op, Final, IsResult
<1> QED BY <1>2, <1>3

\* A report arrives, or is under way.
LEMMA ReportSlot ==
  ASSUME Known, NEW report \in Reports, Backed(report), slot' = slot \/ slot' = SlotAfter(report),
         operations' = operations, late' \subseteq late \union {report}, disk' = disk,
         pc' = "unlink" => Finished /\ (InProgress' => slot'.id # Op.id)
  PROVE  SlotInv'
<1>1. Op' = Op /\ Final' = Final /\ Finished' = Finished
  BY DEF Op, Final, Finished
<1>2. CASE slot' = slot
  <2>1. \A r : Backed(r)' = Backed(r)
    BY <1>1, <1>2 DEF Backed, InProgress, IsResult
  <2>2. Reported' = Reported /\ InProgress' = InProgress
    BY <1>1, <1>2 DEF Reported, InProgress
  <2> QED BY <1>1, <1>2, <2>1, <2>2 DEF Known, SlotInv
<1>3. CASE ReportIsNew(report) /\ slot' = SlotAfter(report)
  <2>1. InProgress /\ slot \in Slots /\ slot.id = report.id /\ WellFormed(report)
    BY <1>3 DEF ReportIsNew, Known, ServerTyped, InProgress
  <2>2. /\ slot'.id = slot.id /\ slot'.state = report.state
        /\ slot'.detail = IF report.state \in Terminal THEN report.detail ELSE "none"
        /\ slot'.available = IF report.state = "SUCCEEDED" /\ report.previous # None
                             THEN report.available ELSE slot.available
    BY <1>3, <2>1 DEF SlotAfter, Slots
  <2>3. slot.available = FALSE
    BY <2>1 DEF Known, SlotInv
  <2>4. report.state \in States /\ report.available \in BOOLEAN /\ report.detail \in DOMAIN DetailCategory
    BY DEF Reports
  <2>5. Active \intersect Terminal = {} /\ "SUCCEEDED" \in Terminal
    BY StatesOfOperations DEF Terminal
  <2>6. report.state \in Terminal => slot'.available = report.available
    <3>1. report.available => report.state = "SUCCEEDED" /\ report.previous # None
      BY <2>1 DEF WellFormed
    <3> QED BY <2>2, <2>3, <2>4, <3>1
  <2>7. InProgress' => slot'.available = FALSE
    BY <2>2, <2>3, <2>5 DEF InProgress
  <2>8. report.state \in Terminal => Finished /\ Op.id = report.id /\ IsResult(report)
    BY <2>1 DEF Backed
  <2>9. Reported' => /\ Final # None /\ slot'.state = Final.state /\ slot'.detail = Final.detail
                     /\ slot'.available = Final.available
    BY <1>1, <2>2, <2>6, <2>8 DEF Reported, Finished, IsResult
  <2>10. \A r : Backed(r) => Backed(r)'
    BY <1>1, <2>1, <2>2 DEF Backed, InProgress, IsResult
  <2>11. slot' # None => slot'.id = operations'
    BY <2>1, <2>2 DEF Known, SlotInv, InProgress
  <2> QED BY <1>1, <2>7, <2>9, <2>10, <2>11 DEF Known, SlotInv
<1> QED BY <1>2, <1>3 DEF SlotAfter

\* A report is sent, and the server answers or is too late.
LEMMA SendSlot ==
  ASSUME Known, NEW report \in Reports, Backed(report), NEW accepted \in BOOLEAN, Send(report, accepted),
         disk' = disk, pc' = "unlink" => Finished /\ (InProgress' => slot'.id # Op.id)
  PROVE  SlotInv'
BY ReportSlot DEF Send, DeviceReport, lifecycleVars

\* A report of progress ends nothing.
LEMMA ReportStageSlot == ASSUME Known, ReportStage PROVE SlotInv'
<1> DEFINE report == [id |-> job.op.id, state |-> Stage[pc], detail |-> "none", previous |-> None, available |-> FALSE]
<1>1. Working /\ job.op.id \in Nat /\ pc' # "unlink" /\ disk' = disk
  BY DEF ReportStage, Stage, StageWork, Working, Known, Before, PcInv, WorkInv, DiskTyped, Disks, Host!UpdaterMarkers, Host!Requests
<1>2. report \in Reports /\ Stage[pc] \notin Terminal
  BY <1>1, StatesOfOperations DEF ReportStage, Stage, Reports, States, Optional, Terminal
<1>3. Backed(report)
  BY <1>2 DEF Backed
<1> QED BY <1>1, <1>2, <1>3, SendSlot DEF ReportStage

\* The report of the result is the marker's, and once it is accepted the operation has ended.
LEMMA ReportFinalSlot == ASSUME Known, ReportFinal PROVE SlotInv'
<1> DEFINE report == [id |-> job.op.id, state |-> job.result.state, detail |-> job.result.detail,
                      previous |-> job.result.previous, available |-> job.result.available]
<1>1. /\ pc = "reportFinal" /\ disk' = disk /\ disk.marker # None /\ job.op = Op /\ job.op.id \in Nat
      /\ job.result \in Host!Results /\ job.result = Final
  BY DEF ReportFinal, Working, Known, Before, PcInv, WorkInv, DiskTyped, Disks, Host!UpdaterMarkers, Host!Requests,
     JobTyped, ResultHost, FinalInv, Op
<1>2. Finished
  BY <1>1, NoneIsNoData DEF Finished
<1>3. report \in Reports /\ report.state \in Terminal
  BY <1>1, StatesOfOperations DEF Host!Results, Reports, States, Terminal, Optional
<1>4. Backed(report)
  BY <1>1, <1>2 DEF Backed, IsResult, Known, SlotInv
<1>5. PICK accepted \in BOOLEAN : Send(report, accepted) /\ pc' = IF accepted THEN "unlink" ELSE "idle"
  BY <1>1 DEF ReportFinal
<1>6. accepted => ~ InProgress'
  <2> SUFFICES ASSUME accepted PROVE ~ InProgress'
    OBVIOUS
  <2>1. ReportAccepted(report) /\ slot' = SlotAfter(report)
    BY <1>5 DEF Send, DeviceReport
  <2>2. Active \intersect Terminal = {}
    BY StatesOfOperations DEF Terminal
  <2>3. CASE ReportIsNew(report)
    <3>1. slot \in Slots
      BY <2>3 DEF ReportIsNew, Known, ServerTyped
    <3>2. slot'.state = report.state
      BY <2>1, <2>3, <3>1 DEF SlotAfter, Slots
    <3> QED BY <1>3, <2>2, <3>2 DEF InProgress
  <2>4. CASE ~ ReportIsNew(report)
    BY <1>3, <2>1, <2>2, <2>4 DEF ReportAccepted, SlotAfter, InProgress
  <2> QED BY <2>3, <2>4
<1> QED BY <1>1, <1>2, <1>3, <1>4, <1>5, <1>6, SendSlot

\* A late report meets the operation it is about, or is refused.
LEMMA LateReportSlot == ASSUME Known, LateReportArrives PROVE SlotInv'
<1>1. PICK report \in late : DeviceReport(report) /\ late' = late \ {report}
  BY DEF LateReportArrives
<1>2. /\ slot' = SlotAfter(report) /\ operations' = operations /\ disk' = disk /\ pc' = pc
      /\ report \in Reports /\ Backed(report)
  BY <1>1 DEF LateReportArrives, DeviceReport, agentVars, Known, ServerTyped, SlotInv
<1>3. InProgress' => InProgress /\ slot'.id = slot.id
  <2>1. CASE ReportIsNew(report)
    <3>1. slot \in Slots
      BY <2>1 DEF ReportIsNew, Known, ServerTyped
    <3> QED BY <1>2, <2>1, <3>1 DEF SlotAfter, Slots, ReportIsNew
  <2>2. CASE ~ ReportIsNew(report)
    BY <1>2, <2>2 DEF SlotAfter, InProgress
  <2> QED BY <2>1, <2>2
<1>4. pc' = "unlink" => Finished /\ (InProgress' => slot'.id # Op.id)
  BY <1>2, <1>3 DEF Known, SlotInv
<1> QED BY <1>1, <1>2, <1>4, ReportSlot

\* A saved operation is the one in the slot, which has not ended.
LEMMA FetchOperationSlot == ASSUME Known, FetchOperation PROVE SlotInv'
<1>1. /\ pc = "fetch" /\ disk.marker = None /\ slot' = slot /\ operations' = operations /\ late' = late
      /\ pc' \in {"idle", "run"} /\ DiskTyped /\ DiskFields
  BY DEF FetchOperation, Known, Before, ResultHost, BusyInv, serverVars, lifecycleVars
<1>2. \A report \in late : report.state \in Terminal => report.id <= operations /\ ~ (InProgress /\ slot.id = report.id)
  BY <1>1 DEF Known, SlotInv, Backed, Finished
<1>3. \A report \in late : Backed(report)'
  BY <1>1, <1>2 DEF Backed, InProgress
<1>4. CASE disk' = disk
  BY <1>1, <1>3, <1>4 DEF Known, SlotInv, InProgress
<1>5. CASE DeviceOperation # None /\ Understood
  <2> DEFINE op == [id |-> slot.id, action |-> slot.action, target |-> slot.target, version |-> slot.version]
             marker == [op |-> op, previous |-> disk.record, final |-> None]
  <2>1. disk' = [disk EXCEPT !.marker = marker] /\ InProgress
    BY <1>5 DEF FetchOperation, DeviceOperation
  <2>2. disk'.marker = marker
    BY <1>1, <2>1 DEF DiskTyped, Disks
  <2>3. Op'.id = slot.id
    BY <2>2 DEF Op
  <2>4. Active \intersect Terminal = {}
    BY StatesOfOperations DEF Terminal
  <2>5. ~ Reported'
    BY <1>1, <2>1, <2>4 DEF Reported, InProgress
  <2>6. Op'.id = operations /\ operations \in Nat
    BY <2>1, <2>3 DEF Known, SlotInv, ServerTyped, InProgress
  <2> QED BY <1>1, <1>3, <2>5, <2>6 DEF Known, SlotInv, InProgress
<1> QED BY <1>4, <1>5 DEF FetchOperation

\* A forgotten operation leaves no report the server would take.
LEMMA ForgetOperationSlot == ASSUME Known, ForgetOperation PROVE SlotInv'
<1>1. /\ pc = "unlink" /\ pc' = "idle" /\ disk'.marker = None
      /\ slot' = slot /\ operations' = operations /\ late' = late
  BY DEF ForgetOperation, Known, Before, DiskTyped, Disks, serverVars, lifecycleVars
<1>2. \A report \in late : Backed(report)'
  BY <1>1 DEF Known, SlotInv, Backed, InProgress
<1> QED BY <1>1, <1>2 DEF Known, SlotInv, InProgress

\* A new operation has a number of its own.
LEMMA NewOperationSlot ==
  ASSUME Known, NEW action, NEW target, NEW version, NEW before, NEW wheel,
         slot' = NewOperation(action, target, version, before, wheel),
         operations' = operations + 1, disk' = disk, pc' = pc, late' = late
  PROVE  SlotInv'
<1>1. slot'.id = operations + 1 /\ slot'.available = FALSE /\ operations \in Nat
  BY DEF NewOperation, Known, ServerTyped
<1>2. disk.marker # None => Op.id <= operations /\ Op.id \in Nat
  BY DEF Known, SlotInv, Before, DiskTyped, Disks, Host!UpdaterMarkers, Host!Requests, Op
<1>3. \A report \in late : Backed(report)'
  <2> TAKE report \in late
  <2>1. report.id \in Nat
    BY DEF Known, ServerTyped, Reports
  <2> QED BY <1>1, <2>1 DEF Known, SlotInv, Backed
<1>4. Op' = Op /\ Finished' = Finished /\ (Finished => disk.marker # None)
  BY DEF Op, Finished, Final
<1>5. disk.marker # None => ~ Reported' /\ slot'.id # Op.id
  BY <1>1, <1>2, <1>4 DEF Reported
<1>6. disk'.marker # None => Op'.id <= operations'
  BY <1>1, <1>2, <1>4
<1> QED BY <1>1, <1>3, <1>4, <1>5, <1>6 DEF Known, SlotInv

\* The server's slot is as before.
LEMMA SlotRests ==
  ASSUME Known, slot' = slot, operations' = operations, late' = late, disk' = disk, pc' = pc \/ pc' # "unlink"
  PROVE  SlotInv'
BY DEF Known, SlotInv, InProgress, Reported, Backed, Finished, Op, Final, IsResult

\* What the operator and the registry do leaves the slot alone or gives it a new operation.
LEMMA OperatorSlot == ASSUME Known, Operator PROVE SlotInv'
<1>1. disk' = disk /\ pc' = pc /\ late' = late
  BY DEF Operator, agentVars
<1>2. CASE slot' = slot /\ operations' = operations
  BY <1>1, <1>2, SlotRests
<1>3. CASE RequestUpgrade
  BY <1>1, <1>2, <1>3, NewOperationSlot DEF RequestUpgrade
<1>4. CASE RequestRollback
  BY <1>1, <1>4, NewOperationSlot DEF RequestRollback
<1> QED
  BY <1>2, <1>3, <1>4 DEF Operator, RequestUpgradeReads, lifecycleVars

\* The inductive invariant behind FinalResultIsTrue.
ResultInv == HostInv /\ ResultHost /\ SlotInv

\* It holds at the start.
LEMMA InitResult == Init => ResultInv
<1> SUFFICES ASSUME Init PROVE ResultInv
  OBVIOUS
<1>1. disk.marker = None /\ pc = "idle" /\ slot = None /\ operations = 0 /\ late = {}
  BY DEF Init, Host!HostInit, LifecycleInit
<1>2. ResultHost
  BY <1>1 DEF ResultHost, OriginInv, BusyInv, RecoveredInv, UndoneInv, FinalInv, Unfinished, Finished, Working, Upgrading, Reverting
<1>3. SlotInv
  BY <1>1 DEF SlotInv, InProgress
<1> QED BY <1>2, <1>3, InitHost DEF ResultInv

\* Every step preserves it.
LEMMA ResultInvariance == ResultInv /\ [Next]_vars => ResultInv'
<1> SUFFICES ASSUME ResultInv, [Next]_vars PROVE ResultHost' /\ SlotInv'
  BY HostInvariance DEF ResultInv
<1>1. Known
  BY HostBefore DEF ResultInv, HostInv, Typed, Known
<1>2. Before /\ ServerTyped /\ ResultHost
  BY <1>1 DEF Known
<1>3. CASE Operator
  BY <1>1, <1>2, <1>3, OperatorSlot, HostRestsResult DEF Operator, agentVars
<1>4. CASE Heartbeat
  BY <1>1, <1>2, <1>4, SlotRests, HostRestsResult DEF Heartbeat, HearVersion, agentVars
<1>5. CASE StoreDamaged
  BY <1>1, <1>2, <1>5, SlotRests, HostRestsResult DEF StoreDamaged, lifecycleVars
<1>6. CASE Updater
  <2>1. CASE (Host!LocalStep \/ Host!TimerFires) /\ UNCHANGED <<serverVars, late>>
    BY <1>1, <1>2, <2>1, HostResults, HostSlot
  <2>2. CASE FetchOperation
    BY <1>1, <1>2, <2>2, FetchOperationResult, FetchOperationSlot
  <2>3. CASE Download
    <3>1. slot' = slot /\ operations' = operations /\ late' = late /\ disk' = disk /\ pc' # "unlink"
      BY <2>3 DEF Download, Host!Finish, serverVars, lifecycleVars
    <3> QED BY <1>1, <1>2, <2>3, <3>1, DownloadResult, SlotRests
  <2>4. CASE ReportStage
    BY <1>1, <1>2, <2>4, ReportStageResult, ReportStageSlot
  <2>5. CASE ReportFinal
    BY <1>1, <1>2, <2>5, ReportFinalResult, ReportFinalSlot
  <2>6. CASE ForgetOperation
    BY <1>1, <1>2, <2>6, ForgetOperationResult, ForgetOperationSlot
  <2> QED BY <1>6, <2>1, <2>2, <2>3, <2>4, <2>5, <2>6 DEF Updater
<1>7. CASE Interrupted \/ Restarted
  BY <1>1, <1>2, <1>7, HostResults, HostSlot DEF Interrupted, Restarted
<1>8. CASE RequestFails
  <2>1. slot' = slot /\ operations' = operations /\ late' = late /\ disk' = disk /\ pc' # "unlink"
    BY <1>8 DEF RequestFails, serverVars, lifecycleVars
  <2> QED BY <1>1, <1>2, <1>8, <2>1, RequestFailsResult, SlotRests
<1>9. CASE LateReportArrives
  BY <1>1, <1>2, <1>9, LateReportSlot, HostRestsResult DEF LateReportArrives, agentVars
<1>10. CASE UNCHANGED vars
  BY <1>1, <1>2, <1>10, SlotRests, HostRestsResult DEF vars, agentVars, serverVars, lifecycleVars
<1> QED
  BY <1>3, <1>4, <1>5, <1>6, <1>7, <1>8, <1>9, <1>10 DEF Next

\* The result agent-updater.py's save_marker keeps describes the host, through every
\* interruption, until it is reported; and the result device_report has put in the
\* slot for that operation is that one.
THEOREM FinalResult == Spec => []FinalResultIsTrue
<1>1. ResultInv => FinalResultIsTrue
  <2> SUFFICES ASSUME ResultInv, Finished PROVE FinalResultIsTrue
    BY DEF FinalResultIsTrue, Finished, Final
  <2>1. Op.action \in {"UPGRADE", "ROLLBACK"}
    BY DEF ResultInv, HostInv, Typed, DiskTyped, Disks, Host!UpdaterMarkers, Host!Requests, Host!Actions, Finished, Op
  <2>2. Describes(Final)
    BY DEF ResultInv, ResultHost, FinalInv
  <2>3. ResultIsTrue(Op, Start, Final)
    BY <2>1, <2>2 DEF Describes, At, ResultIsTrue
  <2> QED BY <2>3 DEF FinalResultIsTrue, ResultInv, SlotInv, Reported, Op, Start, Final, Finished
<1>2. Spec => []ResultInv
  BY InitResult, ResultInvariance, PTL DEF Spec
<1> QED BY <1>1, <1>2, PTL

(***************************************************************************)
(* What is offered. A rollback is offered once a success has been recorded *)
(* that names a retained release. While it is, the host has no operation   *)
(* to work on and no switch to repair, and keeps what it has retained.     *)
(***************************************************************************)
\* The rollback that a result makes possible can be done.
Promised(final) ==
  final.available =>
    /\ ~ Switching /\ final.state = "SUCCEEDED" /\ disk.venv = Op.target
    /\ disk.recordPrevious = final.previous
    /\ disk.previous \in {final.previous, Torn} \/ final.previous = Op.target

OfferHost ==
  /\ pc = "pending" /\ Unfinished /\ Op.action = "UPGRADE" /\ job.recovered = "succeeded" =>
       disk.recordPrevious = Start /\ disk.previous = Start
  /\ pc = "saveFinal" => Promised(job.result)
  /\ Finished => Promised(Final)

Offered == slot # None /\ slot.state = "SUCCEEDED" /\ slot.available

OfferSlot ==
  /\ slot # None /\ slot.action = "UPGRADE" => slot.version = Version(slot.target)
  /\ slot # None /\ slot.state = "SUCCEEDED" => slot.action = "UPGRADE"
  /\ slot # None /\ disk.marker # None /\ Op.id = slot.id => Op.target = slot.target
  /\ Offered =>
       /\ ~ Switching /\ disk.venv = slot.target
       /\ disk.recordPrevious = slot.previous
       /\ disk.previous \in {slot.previous, Torn} \/ slot.previous = slot.target
       /\ disk.marker # None => Finished

\* The host on its own.
HostMoves == Host!LocalStep \/ Host!TimerFires \/ Host!Interruption \/ Host!Boot

\* Nothing to work on and nothing to repair.
Resting == ~ Switching /\ ~ (Working /\ pc # "reportFinal")

SamePair ==
  /\ disk'.venv = disk.venv /\ disk'.recordPrevious = disk.recordPrevious /\ disk'.previous = disk.previous

\* Without an operation to work on and a switch to repair, the pair stays.
LEMMA StandsStill ==
  ASSUME Before, Resting, HostMoves, ~ Host!SaveFinal
  PROVE  ~ Switching' /\ SamePair
<1> USE DEF Host!Goto, Host!Recovered
<1>1. DiskTyped /\ JobTyped /\ WorkInv /\ AcceptInv /\ RestoreInv /\ DiskFields
  BY DEF Before, PcInv
<1>2. CASE Host!RecoverAtRest
  BY <1>1, <1>2 DEF Resting, SamePair, Switching, DiskTyped, Disks, Host!RecoverAtRest
<1>3. CASE Host!RecoverSwitched \/ Host!RecoverPrevious
  BY <1>1, <1>3 DEF Resting, SamePair, Switching, DiskFields, Host!Phases, RestoreInv, Host!RecoverSwitched, Host!RecoverPrevious, Host!InstallPhase
<1>4. CASE Host!AcceptPrune \/ Host!AcceptMove \/ Host!AcceptRecord \/ Host!AcceptDone
  BY <1>1, <1>4 DEF Resting, AcceptInv, Host!AcceptPrune, Host!RemoveTree, Host!AcceptMove, Host!AcceptRecord, Host!AcceptDone
<1>5. CASE Host!RestoreBegin \/ Host!RestoreRemove \/ Host!RestoreMove \/ Host!RestoreRecord
  BY <1>1, <1>5 DEF Resting, Working, RestoreInv, WorkInv, Host!RestoreBegin, Host!RestoreRemove, Host!RemoveTree, Host!RestoreMove, Host!RestoreRecord
<1>6. CASE Host!RestoreStart
  BY <1>6 DEF Resting, SamePair, Switching, Host!RestoreStart
<1>7. CASE Host!RestoreDone \/ Host!RestoreFailed
  <2>1. job.context = "recovery"
    BY <1>7 DEF Resting, Working, Host!RestoreDone, Host!RestoreFailed
  <2>2. disk' = disk \/ disk' = [disk EXCEPT !.install = None]
    BY <1>7, <2>1 DEF Host!RestoreDone, Host!RestoreFailed
  <2> QED BY <1>1, <2>2 DEF Resting, SamePair, Switching, DiskTyped, Disks
<1>8. CASE Host!RestoreSettle
  BY <1>8 DEF Resting, Working, Host!RestoreSettle
<1>9. CASE Host!Pending
  BY <1>9 DEF Resting, SamePair, Switching, Host!Pending
<1>10. CASE \/ Host!UpgradeBegin \/ Host!VerifyBundle \/ Host!InstallPackage \/ Host!BuildEnvironment \/ Host!StageSwitch
            \/ Host!SwitchPackage \/ Host!StartNew \/ Host!InstallerFailed
  BY <1>10 DEF Resting, Working, Host!UpgradeBegin, Host!VerifyBundle, Host!InstallPackage, Host!BuildEnvironment,
     Host!StageSwitch, Host!SwitchPackage, Host!StartNew, Host!InstallerFailed
<1>11. CASE Host!RollbackBegin \/ Host!RollbackSwitch \/ Host!RollbackStart \/ Host!RollbackRecheck
  BY <1>11 DEF Resting, Working, Host!RollbackBegin, Host!RollbackSwitch, Host!RollbackStart, Host!RollbackRecheck
<1>12. CASE Host!TimerFires \/ Host!Boot \/ Host!Interruption
  BY <1>12 DEF Resting, SamePair, Switching, Host!TimerFires, Host!Boot, Host!Interruption, Host!PowerLoss,
     Host!UpdaterKilled, Host!InstallerKilled, Host!StepFails, Host!AcceptStepFails, Host!RestoreStepFails,
     Host!InstallerStepFails, Host!RollbackStepFails, Host!ServiceFails
<1> QED
  BY <1>2, <1>3, <1>4, <1>5, <1>6, <1>7, <1>8, <1>9, <1>10, <1>11, <1>12 DEF HostMoves, Host!LocalStep

\* Only three steps find a result that offers a rollback, or a switch to be done.
LEMMA OtherResults ==
  ASSUME Before, HostMoves, ~ Host!AcceptDone, ~ Host!Pending, ~ Host!UpgradeBegin, ~ Host!ServiceFails
  PROVE  /\ pc' = "saveFinal" => ~ job'.result.available
         /\ pc' = "pending" => job'.recovered # "succeeded"
<1> USE DEF Host!Goto, Host!Recovered, Host!Finish, Host!Failure, Host!Result
<1>1. DiskTyped /\ JobTyped /\ WorkInv /\ DiskFields
  BY DEF Before, PcInv
<1>2. CASE Host!RecoverAtRest
  BY <1>1, <1>2 DEF JobTyped, Host!RecoverAtRest
<1>3. CASE Host!RecoverSwitched \/ Host!RecoverPrevious
  BY <1>1, <1>3 DEF JobTyped, Host!RecoverSwitched, Host!RecoverPrevious
<1>4. CASE Host!AcceptPrune \/ Host!AcceptMove \/ Host!AcceptRecord
  BY <1>4 DEF Host!AcceptPrune, Host!RemoveTree, Host!AcceptMove, Host!AcceptRecord
<1>5. CASE Host!RestoreBegin \/ Host!RestoreRemove \/ Host!RestoreMove \/ Host!RestoreRecord \/ Host!RestoreStart \/ Host!RestoreSettle
  BY <1>5 DEF Host!RestoreBegin, Host!RestoreRemove, Host!RemoveTree, Host!RestoreMove, Host!RestoreRecord,
     Host!RestoreStart, Host!RestoreSettle
<1>6. CASE Host!RestoreDone \/ Host!RestoreFailed
  <2>1. job.context \in {"recovery", "installer", "rollback"}
    BY <1>1, <1>6 DEF WorkInv, JobTyped, Host!RestoreDone, Host!RestoreFailed
  <2>2. CASE job.context = "recovery"
    BY <1>1, <1>6, <2>2 DEF JobTyped, Host!RestoreDone, Host!RestoreFailed
  <2>3. CASE job.context = "installer"
    BY <1>6, <2>3 DEF Host!RestoreDone, Host!RestoreFailed
  <2>4. CASE job.context = "rollback"
    BY <1>1, <1>6, <2>4 DEF JobTyped, Host!RestoreDone, Host!RestoreFailed
  <2> QED BY <2>1, <2>2, <2>3, <2>4
<1>7. CASE Host!SaveFinal
  BY <1>7 DEF Host!SaveFinal
<1>8. CASE Host!VerifyBundle \/ Host!InstallerFailed
  BY <1>1, <1>8 DEF JobTyped, Host!VerifyBundle, Host!InstallerFailed
<1>9. CASE Host!InstallPackage \/ Host!BuildEnvironment \/ Host!StageSwitch \/ Host!SwitchPackage \/ Host!StartNew
  BY <1>9 DEF Host!InstallPackage, Host!BuildEnvironment, Host!StageSwitch, Host!SwitchPackage, Host!StartNew
<1>10. CASE Host!RollbackBegin \/ Host!RollbackRecheck
  BY <1>1, <1>10 DEF JobTyped, Host!RollbackBegin, Host!RollbackRecheck
<1>11. CASE Host!RollbackSwitch \/ Host!RollbackStart
  BY <1>11 DEF Host!RollbackSwitch, Host!RollbackStart
<1>12. CASE Host!TimerFires \/ Host!Boot \/ Host!Interruption
  BY <1>12 DEF Host!TimerFires, Host!Boot, Host!Interruption, Host!PowerLoss, Host!UpdaterKilled, Host!InstallerKilled,
     Host!StepFails, Host!AcceptStepFails, Host!RestoreStepFails, Host!InstallerStepFails, Host!RollbackStepFails
<1> QED
  BY <1>2, <1>3, <1>4, <1>5, <1>6, <1>7, <1>8, <1>9, <1>10, <1>11, <1>12 DEF HostMoves, Host!LocalStep

\* What the marker promises stays true while nothing is found.
LEMMA PromiseStays ==
  ASSUME Before, ResultHost, OfferHost, HostMoves, ~ Host!SaveFinal
  PROVE  Finished' => Promised(Final)'
<1>1. disk'.marker = disk.marker
  BY HostKeepsMarker DEF HostMoves
<1>2. Finished' = Finished /\ Final' = Final /\ Op' = Op
  BY <1>1 DEF Finished, Final, Op
<1>3. SUFFICES ASSUME Finished, Final.available PROVE Promised(Final)'
  BY <1>2 DEF Promised
<1>4. Promised(Final) /\ ~ Unfinished
  BY <1>3 DEF OfferHost, Finished, Unfinished
<1>5. ~ Switching /\ Resting
  BY <1>3, <1>4 DEF Promised, ResultHost, BusyInv, Resting
<1>6. ~ Switching' /\ SamePair
  BY <1>5, StandsStill
<1> QED BY <1>2, <1>3, <1>4, <1>6 DEF Promised, SamePair

\* The result that was found is the one in the marker.
LEMMA SaveFinalOffer == ASSUME Before, ResultHost, OfferHost, Host!SaveFinal PROVE OfferHost'
<1>1. /\ pc = "saveFinal" /\ pc' = "reportFinal" /\ Unfinished /\ disk.marker \in Host!UpdaterMarkers
      /\ disk' = [disk EXCEPT !.marker.final = job.result] /\ DiskTyped
  BY DEF Before, PcInv, DiskTyped, Disks, Host!SaveFinal, Host!Goto, ResultHost, BusyInv, Working, Unfinished
<1>2. /\ disk'.marker = [disk.marker EXCEPT !.final = job.result] /\ SamePair /\ disk'.install = disk.install
  BY <1>1 DEF SamePair, DiskTyped, Disks
<1>3. Op' = Op /\ Final' = job.result /\ Switching' = Switching
  BY <1>1, <1>2 DEF Op, Final, Switching, Host!UpdaterMarkers
<1>4. Promised(job.result)
  BY <1>1 DEF OfferHost
<1>5. Promised(Final)'
  BY <1>2, <1>3, <1>4 DEF Promised, SamePair
<1> QED BY <1>1, <1>5 DEF OfferHost

\* An accepted switch has retained the release it started from.
LEMMA AcceptDoneOffer == ASSUME Before, ResultHost, OfferHost, Host!AcceptDone PROVE OfferHost'
<1>1. /\ pc = "acceptDone" /\ Switching /\ JobTyped /\ DiskFields
      /\ job.context \in {"recovery", "installer", "rollback"}
      /\ SamePair /\ disk'.record = disk.record /\ disk'.marker = disk.marker /\ disk'.install = None
  BY DEF Before, DiskTyped, Disks, PcInv, WorkInv, AcceptInv, JobTyped, Host!AcceptDone, SamePair
<1>8. ~ OperatorSwitch => Replaced /\ disk.recordPrevious = Old
  <2>1. (Replaced \/ Again) /\ disk.recordCandidate = None /\ (New # Old \/ OperatorSwitch)
    BY <1>1 DEF Before, PcInv, AcceptInv, DiskInv, Switching
  <2> QED BY <1>1, <2>1 DEF Again, Replaced, DiskFields, Switching
<1>2. Unfinished => Agrees
  BY <1>1 DEF ResultHost, OriginInv, Switching
<1>3. Finished' => Promised(Final)'
  BY PromiseStays, <1>1 DEF HostMoves, Host!LocalStep, Host!SaveFinal, Host!Goto
<1>4. Unfinished /\ Op.action = "UPGRADE" =>
        disk'.recordPrevious = Start' /\ disk'.previous = Start' /\ disk'.venv = Op'.target /\ ~ Switching'
  BY <1>1, <1>2, <1>8 DEF SamePair, Replaced, Agrees, Start, Op, Switching, OperatorSwitch
<1>5. CASE job.context = "recovery"
  <2>1. pc' = "pending"
    BY <1>1, <1>5 DEF Host!AcceptDone, Host!Recovered
  <2> QED BY <1>1, <1>3, <1>4, <2>1 DEF OfferHost, Unfinished, Final, Op
<1>6. CASE job.context = "installer"
  <2>1. Host!Finish(Host!Result("SUCCEEDED", "none", job.before, TRUE))
    BY <1>1, <1>6 DEF Host!AcceptDone
  <2>2. pc' = "saveFinal" /\ job'.result.state = "SUCCEEDED" /\ job'.result.previous = job.before
    BY <1>1, <2>1 DEF Host!Finish, Host!Result, JobTyped
  <2>3. Unfinished /\ job.before = Start /\ Op.action = "UPGRADE"
    BY <1>1, <1>6 DEF ResultHost, BusyInv, Working, Upgrading, Before, PcInv, WorkInv, Op
  <2>4. Start' = Start
    BY <1>1 DEF Start
  <2> QED BY <1>3, <1>4, <2>2, <2>3, <2>4 DEF OfferHost, Promised
<1>7. CASE job.context = "rollback"
  <2>1. Host!Finish(Host!Failure("ROLLED_BACK", "none"))
    BY <1>1, <1>7 DEF Host!AcceptDone
  <2>2. pc' = "saveFinal" /\ ~ job'.result.available
    BY <1>1, <2>1 DEF Host!Finish, Host!Failure, Host!Result, JobTyped
  <2> QED BY <1>3, <2>2 DEF OfferHost, Promised
<1> QED BY <1>1, <1>5, <1>6, <1>7

\* A result made from what recovery found offers what was retained then.
LEMMA PendingOffer == ASSUME Before, ResultHost, OfferHost, Host!Pending PROVE OfferHost'
<1>1. /\ pc = "pending" /\ ~ Switching /\ disk' = disk /\ Settled /\ JobTyped
  BY DEF Before, PcInv, UpgradeInv, DiskInv, Host!Pending
<1>2. Finished' => Promised(Final)'
  BY PromiseStays, <1>1 DEF HostMoves, Host!LocalStep, Host!SaveFinal, Host!Goto
<1>3. CASE pc' # "saveFinal"
  BY <1>2, <1>3 DEF OfferHost, Host!Pending
<1>4. CASE /\ Unfinished /\ pc' = "saveFinal" /\ job.recovered \in {"succeeded", "rolled_back", "rollback_failed"}
           /\ job' = [job EXCEPT !.op = disk.marker.op,
                                 !.result = Host!Synthesized(job.recovered, disk.marker.op.action)]
  <2>1. Op.action \in {"UPGRADE", "ROLLBACK"}
    BY <1>4 DEF Before, DiskTyped, Disks, Host!UpdaterMarkers, Host!Requests, Host!Actions, Unfinished, Op
  <2>2. job'.result = Host!Synthesized(job.recovered, Op.action)
    BY <1>1, <1>4 DEF JobTyped, Op
  <2>3. CASE job.recovered = "succeeded" /\ Op.action = "UPGRADE"
    <3>1. job'.result = Host!Result("SUCCEEDED", "none", disk.marker.previous, disk.previous # None)
      BY <2>2, <2>3 DEF Host!Synthesized
    <3>2. job'.result.state = "SUCCEEDED" /\ job'.result.previous = Start
      BY <3>1 DEF Host!Result, Start
    <3>3. disk.recordPrevious = Start /\ disk.previous = Start /\ disk.record = Op.target
      BY <1>1, <1>4, <2>3 DEF OfferHost, ResultHost, RecoveredInv
    <3>4. Promised(job'.result)
      BY <1>1, <3>2, <3>3 DEF Promised, Settled
    <3> QED BY <1>1, <1>2, <1>4, <3>4 DEF OfferHost, Promised, Switching, Op
  <2>4. CASE ~ (job.recovered = "succeeded" /\ Op.action = "UPGRADE")
    <3>1. \E state, detail : job'.result = Host!Failure(state, detail)
      <4>1. CASE job.recovered = "succeeded"
        <5>1. job'.result = Host!Failure("ROLLED_BACK", "none")
          BY <2>1, <2>2, <2>4, <4>1 DEF Host!Synthesized
        <5> QED BY <5>1
      <4>2. CASE job.recovered = "rolled_back" /\ Op.action = "UPGRADE"
        <5>1. job'.result = Host!Failure("ROLLED_BACK", "interrupted_switch")
          BY <2>2, <4>2 DEF Host!Synthesized
        <5> QED BY <5>1
      <4>3. CASE job.recovered = "rolled_back" /\ Op.action = "ROLLBACK"
        <5>1. job'.result = Host!Failure("FAILED", "rollback_target_unhealthy")
          BY <2>2, <4>3 DEF Host!Synthesized
        <5> QED BY <5>1
      <4>4. CASE job.recovered = "rollback_failed"
        <5>1. job'.result = Host!Failure("ROLLBACK_FAILED", "previous_service_unhealthy")
          BY <2>2, <4>4 DEF Host!Synthesized
        <5> QED BY <5>1
      <4> QED BY <1>4, <2>1, <4>1, <4>2, <4>3, <4>4
    <3>2. ~ job'.result.available
      BY <3>1 DEF Host!Failure, Host!Result
    <3> QED BY <1>2, <1>4, <3>2 DEF OfferHost, Promised
  <2> QED BY <2>3, <2>4
<1> QED
  BY <1>1, <1>3, <1>4 DEF Host!Pending, JobTyped, Unfinished, Final

\* An upgrade to the release in place offers what VERSION.previous names.
LEMMA UpgradeBeginOffer == ASSUME Before, ResultHost, OfferHost, Host!UpgradeBegin PROVE OfferHost'
<1>1. /\ pc = "run" /\ ~ Switching /\ disk' = disk /\ Settled /\ JobTyped /\ Unfinished /\ job.op = Op
  BY DEF Before, PcInv, UpgradeInv, WorkInv, Working, DiskInv, Host!UpgradeBegin, ResultHost, BusyInv, Op
<1>2. ~ Finished'
  BY <1>1 DEF Finished, Unfinished, Final
<1>3. CASE pc' = "reportDownloading"
  BY <1>2, <1>3 DEF OfferHost
<1>4. CASE /\ disk.record = job.op.target
           /\ Host!Finish(Host!Result("SUCCEEDED", "none", disk.recordPrevious,
                                      disk.recordPrevious # None /\ disk.previous # None))
  <2>1. /\ pc' = "saveFinal" /\ job'.result.state = "SUCCEEDED" /\ job'.result.previous = disk.recordPrevious
        /\ job'.result.available = (disk.recordPrevious # None /\ disk.previous # None)
    BY <1>1, <1>4 DEF Host!Finish, Host!Result, JobTyped
  <2>2. Promised(job.result)'
    BY <1>1, <1>4, <2>1 DEF Promised, Settled, Retained, Switching, Op
  <2> QED BY <1>2, <2>1, <2>2 DEF OfferHost
<1> QED BY <1>3, <1>4 DEF Host!UpgradeBegin

\* A step that moves nothing on the host and finds no result.
LEMMA HostRestsOffer ==
  ASSUME OfferHost, disk' = disk, pc' \notin {"pending", "saveFinal"} \/ (pc' = pc /\ job' = job)
  PROVE  OfferHost'
BY DEF OfferHost, Promised, Unfinished, Finished, Final, Op, Start, Switching

\* Every step of the host keeps its promises.
LEMMA HostOffers == ASSUME Before, ResultHost, OfferHost, HostMoves PROVE OfferHost'
<1>1. CASE Host!SaveFinal
  BY <1>1, SaveFinalOffer
<1>2. CASE Host!AcceptDone \/ Host!Pending \/ Host!UpgradeBegin
  BY <1>2, AcceptDoneOffer, PendingOffer, UpgradeBeginOffer
<1>3. CASE Host!ServiceFails
  BY <1>3, HostRestsOffer DEF Host!ServiceFails
<1>4. CASE ~ Host!SaveFinal /\ ~ (Host!AcceptDone \/ Host!Pending \/ Host!UpgradeBegin) /\ ~ Host!ServiceFails
  BY <1>4, OtherResults, PromiseStays DEF OfferHost, Promised
<1> QED BY <1>1, <1>2, <1>3, <1>4

KnownOffer == Known /\ OfferHost /\ OfferSlot

\* A step of the host leaves the slot's offer as it is.
LEMMA HostOfferSlot ==
  ASSUME KnownOffer, HostMoves, slot' = slot
  PROVE  OfferSlot'
<1>1. Before /\ ResultHost /\ OfferHost /\ OfferSlot
  BY DEF KnownOffer, Known
<1>2. (disk.marker # None /\ Op' = Op) \/ disk'.marker = disk.marker
  <2>1. CASE Host!SaveFinal
    <3>1. /\ disk.marker \in Host!UpdaterMarkers /\ disk.marker # None
          /\ disk'.marker = [disk.marker EXCEPT !.final = job.result]
      BY <1>1, <2>1 DEF Before, PcInv, DiskTyped, Disks, Host!SaveFinal, Host!Goto, ResultHost, BusyInv, Working, Unfinished
    <3> QED BY <3>1 DEF Op, Host!UpdaterMarkers
  <2>2. CASE ~ Host!SaveFinal
    BY <1>1, <2>2, HostKeepsMarker DEF HostMoves
  <2> QED BY <2>1, <2>2
<1>3. Offered => Resting /\ ~ Host!SaveFinal
  <2>1. Offered => ~ Unfinished /\ ~ Switching
    BY <1>1 DEF OfferSlot, Finished, Unfinished
  <2> QED BY <1>1, <2>1 DEF Resting, ResultHost, BusyInv, Host!SaveFinal, Host!Goto, Working
<1>4. Offered => ~ Switching' /\ SamePair /\ disk'.marker = disk.marker
  BY <1>1, <1>3, StandsStill, HostKeepsMarker DEF HostMoves
<1> QED BY <1>1, <1>2, <1>4 DEF OfferSlot, Offered, SamePair, Finished, Final, Op

\* A report comes in, or does not.
LEMMA ReportOffer ==
  ASSUME KnownOffer, NEW report \in Reports, Backed(report), slot' = slot \/ slot' = SlotAfter(report), disk' = disk
  PROVE  OfferSlot'
<1>1. Op' = Op /\ Finished' = Finished /\ Switching' = Switching
  BY DEF Op, Finished, Final, Switching
<1>2. CASE slot' = slot
  BY <1>1, <1>2 DEF KnownOffer, OfferSlot, Offered
<1>3. CASE ReportIsNew(report) /\ slot' = SlotAfter(report)
  <2>1. InProgress /\ slot \in Slots /\ slot.id = report.id /\ WellFormed(report) /\ FitsAction(report)
    BY <1>3 DEF ReportIsNew, KnownOffer, Known, ServerTyped, InProgress
  <2>2. /\ slot'.id = slot.id /\ slot'.state = report.state /\ slot'.action = slot.action
        /\ slot'.target = slot.target /\ slot'.version = slot.version
        /\ slot'.previous = IF report.state = "SUCCEEDED" /\ report.previous # None THEN report.previous ELSE slot.previous
        /\ slot'.available = IF report.state = "SUCCEEDED" /\ report.previous # None
                             THEN report.available ELSE slot.available
    BY <1>3, <2>1 DEF SlotAfter, Slots
  <2>3. slot.available = FALSE
    BY <2>1 DEF KnownOffer, Known, SlotInv
  <2>4. Offered' => report.state = "SUCCEEDED" /\ report.available /\ slot'.previous = report.previous
    BY <2>2, <2>3 DEF Offered
  <2>5. "SUCCEEDED" \in Terminal
    BY DEF Terminal
  <2>6. Offered' => Finished /\ Op.id = slot.id /\ IsResult(report) /\ Promised(Final)
    BY <2>1, <2>4, <2>5 DEF Backed, KnownOffer, OfferHost
  <2>7. Offered' => /\ ~ Switching /\ disk.venv = slot'.target /\ disk.recordPrevious = slot'.previous
                    /\ disk.previous \in {slot'.previous, Torn} \/ slot'.previous = slot'.target
    <3>1. slot # None
      BY <2>1 DEF InProgress
    <3> QED BY <2>2, <2>4, <2>6, <3>1 DEF Promised, IsResult, KnownOffer, OfferSlot, Finished
  <2>8. slot'.state = "SUCCEEDED" => slot'.action = "UPGRADE"
    BY <2>1, <2>2 DEF FitsAction
  <2> QED BY <1>1, <2>1, <2>2, <2>6, <2>7, <2>8 DEF KnownOffer, OfferSlot, InProgress
<1> QED BY <1>2, <1>3 DEF SlotAfter

\* A report is sent, and the server answers or is too late.
LEMMA SendOffer ==
  ASSUME KnownOffer, NEW report \in Reports, Backed(report), NEW accepted \in BOOLEAN, Send(report, accepted),
         disk' = disk
  PROVE  OfferSlot'
BY ReportOffer DEF Send, DeviceReport, lifecycleVars

\* The server's slot and the host are as before.
LEMMA OfferRests == ASSUME KnownOffer, slot' = slot, disk' = disk PROVE OfferSlot'
BY DEF KnownOffer, OfferSlot, Offered, Op, Finished, Final, Switching

\* A new operation offers nothing yet.
LEMMA NewOperationOffer ==
  ASSUME KnownOffer, NEW action, NEW target, NEW version, NEW before, NEW wheel,
         slot' = NewOperation(action, target, version, before, wheel),
         action = "UPGRADE" => version = Version(target), disk' = disk
  PROVE  OfferSlot'
<1>1. /\ slot'.id = operations + 1 /\ slot'.available = FALSE /\ slot'.state = "REQUESTED"
      /\ slot'.action = action /\ slot'.version = version /\ slot'.target = target /\ operations \in Nat
  BY DEF NewOperation, KnownOffer, Known, ServerTyped
<1>2. disk.marker # None => Op.id <= operations /\ Op.id \in Nat
  BY DEF KnownOffer, Known, SlotInv, Before, DiskTyped, Disks, Host!UpdaterMarkers, Host!Requests, Op
<1>3. disk'.marker # None => Op'.id # slot'.id
  BY <1>1, <1>2 DEF Op
<1> QED BY <1>1, <1>3 DEF OfferSlot, Offered

\* Operators replace an offer or leave it.
LEMMA OperatorOffer == ASSUME KnownOffer, Operator PROVE OfferSlot'
<1>1. disk' = disk
  BY DEF Operator, agentVars
<1>2. CASE slot' = slot
  BY <1>1, <1>2, OfferRests
<1>3. CASE RequestUpgrade
  BY <1>1, <1>2, <1>3, NewOperationOffer DEF RequestUpgrade
<1>4. CASE RequestRollback
  <2>1. slot' = NewOperation("ROLLBACK", slot.previous, slot.previousVersion, slot.version, slot.target)
    BY <1>4 DEF RequestRollback
  <2> QED BY <1>1, <2>1, NewOperationOffer
<1> QED
  BY <1>2, <1>3, <1>4 DEF Operator, RequestUpgradeReads, lifecycleVars

\* A report of progress offers nothing ...
LEMMA ReportStageOffer == ASSUME KnownOffer, ReportStage PROVE OfferSlot'
<1> DEFINE report == [id |-> job.op.id, state |-> Stage[pc], detail |-> "none", previous |-> None, available |-> FALSE]
<1>1. Working /\ job.op.id \in Nat /\ disk' = disk
  BY DEF ReportStage, Stage, StageWork, Working, KnownOffer, Known, Before, PcInv, WorkInv, DiskTyped, Disks,
     Host!UpdaterMarkers, Host!Requests
<1>2. report \in Reports /\ Stage[pc] \notin Terminal
  BY <1>1, StatesOfOperations DEF ReportStage, Stage, Reports, States, Optional, Terminal
<1>3. Backed(report)
  BY <1>2 DEF Backed
<1> QED BY <1>1, <1>2, <1>3, SendOffer DEF ReportStage

\* ... and that of the result what the marker promises.
LEMMA ReportFinalOffer == ASSUME KnownOffer, ReportFinal PROVE OfferSlot'
<1> DEFINE report == [id |-> job.op.id, state |-> job.result.state, detail |-> job.result.detail,
                      previous |-> job.result.previous, available |-> job.result.available]
<1>1. /\ pc = "reportFinal" /\ disk' = disk /\ disk.marker # None /\ job.op = Op /\ job.op.id \in Nat
      /\ job.result \in Host!Results /\ job.result = Final
  BY DEF ReportFinal, Working, KnownOffer, Known, Before, PcInv, WorkInv, DiskTyped, Disks, Host!UpdaterMarkers,
     Host!Requests, JobTyped, ResultHost, FinalInv, Op
<1>2. Finished
  BY <1>1, NoneIsNoData DEF Finished
<1>3. report \in Reports
  BY <1>1, StatesOfOperations DEF Host!Results, Reports, States, Terminal, Optional
<1>4. Backed(report)
  BY <1>1, <1>2 DEF Backed, IsResult, KnownOffer, Known, SlotInv
<1> QED BY <1>1, <1>3, <1>4, SendOffer DEF ReportFinal

\* An operation that is fetched has not ended, and offers nothing.
LEMMA FetchOperationOffer == ASSUME KnownOffer, FetchOperation PROVE OfferSlot'
<1>1. pc = "fetch" /\ disk.marker = None /\ slot' = slot /\ DiskTyped
  BY DEF FetchOperation, KnownOffer, Known, Before, ResultHost, BusyInv, serverVars, lifecycleVars
<1>2. CASE disk' = disk
  BY <1>1, <1>2, OfferRests
<1>3. CASE DeviceOperation # None /\ Understood
  <2> DEFINE op == [id |-> slot.id, action |-> slot.action, target |-> slot.target, version |-> slot.version]
             marker == [op |-> op, previous |-> disk.record, final |-> None]
  <2>1. disk' = [disk EXCEPT !.marker = marker] /\ InProgress
    BY <1>3 DEF FetchOperation, DeviceOperation
  <2>2. disk'.marker = marker
    BY <1>1, <2>1 DEF DiskTyped, Disks
  <2>3. Op' = op
    BY <2>2 DEF Op
  <2>4. Active \intersect Terminal = {} /\ "SUCCEEDED" \in Terminal
    BY StatesOfOperations DEF Terminal
  <2>5. slot.state # "SUCCEEDED"
    BY <2>1, <2>4 DEF InProgress
  <2> QED BY <1>1, <2>3, <2>5 DEF KnownOffer, OfferSlot, Offered
<1> QED BY <1>2, <1>3 DEF FetchOperation

\* The offer outlives the marker.
LEMMA ForgetOperationOffer == ASSUME KnownOffer, ForgetOperation PROVE OfferHost' /\ OfferSlot'
<1>1. pc' = "idle" /\ disk'.marker = None /\ SamePair /\ disk'.install = disk.install /\ slot' = slot
  BY DEF ForgetOperation, KnownOffer, Known, Before, DiskTyped, Disks, SamePair, serverVars, lifecycleVars
<1> QED BY <1>1 DEF KnownOffer, OfferHost, OfferSlot, Offered, Finished, SamePair, Switching

\* A failed download offers nothing.
LEMMA DownloadOffer == ASSUME KnownOffer, Download PROVE OfferHost'
<1>1. disk' = disk /\ JobTyped
  BY DEF Download, KnownOffer, Known, Before
<1>2. CASE pc' # "saveFinal"
  BY <1>1, <1>2, HostRestsOffer DEF Download, Host!Finish, KnownOffer
<1>3. CASE Host!Finish(Host!Failure("FAILED", "archive_digest_mismatch"))
  <2>1. pc' = "saveFinal" /\ ~ job'.result.available
    BY <1>1, <1>3 DEF Host!Finish, Host!Failure, Host!Result, JobTyped
  <2> QED BY <1>1, <2>1 DEF KnownOffer, OfferHost, Promised, Finished, Final, Op, Switching
<1> QED BY <1>2, <1>3 DEF Download

\* A new marker holds no result.
LEMMA FetchOperationOfferHost == ASSUME KnownOffer, FetchOperation PROVE OfferHost'
<1>1. pc' \in {"idle", "run"} /\ disk.marker = None /\ DiskTyped
  BY DEF FetchOperation, KnownOffer, Known, Before, ResultHost, BusyInv
<1>2. CASE disk' = disk
  BY <1>1, <1>2, HostRestsOffer DEF KnownOffer
<1>3. CASE DeviceOperation # None /\ Understood
  <2>1. disk'.marker.final = None
    BY <1>1, <1>3 DEF FetchOperation, DiskTyped, Disks
  <2> QED BY <1>1, <2>1 DEF OfferHost, Finished, Final
<1> QED BY <1>2, <1>3 DEF FetchOperation

\* The inductive invariant behind OffersAreReal.
OfferInv == ResultInv /\ OfferHost /\ OfferSlot

\* It holds at the start.
LEMMA InitOffer == Init => OfferInv
<1> SUFFICES ASSUME Init PROVE OfferInv
  OBVIOUS
<1>1. disk.marker = None /\ pc = "idle" /\ slot = None
  BY DEF Init, Host!HostInit, LifecycleInit
<1> QED BY <1>1, InitResult DEF OfferInv, OfferHost, OfferSlot, Offered, Finished

\* Every step preserves it.
LEMMA OfferInvariance == OfferInv /\ [Next]_vars => OfferInv'
<1> SUFFICES ASSUME OfferInv, [Next]_vars PROVE OfferHost' /\ OfferSlot'
  BY ResultInvariance DEF OfferInv
<1>1. KnownOffer
  BY HostBefore DEF OfferInv, ResultInv, HostInv, Typed, Known, KnownOffer
<1>2. Before /\ ResultHost /\ OfferHost
  BY <1>1 DEF KnownOffer, Known
<1>3. CASE Operator
  BY <1>1, <1>2, <1>3, OperatorOffer, HostRestsOffer DEF Operator, agentVars
<1>4. CASE Heartbeat \/ StoreDamaged \/ UNCHANGED vars
  <2>1. slot' = slot /\ disk' = disk /\ pc' = pc /\ job' = job
    BY <1>4 DEF Heartbeat, HearVersion, StoreDamaged, agentVars, lifecycleVars, serverVars, vars
  <2> QED BY <1>1, <1>2, <2>1, OfferRests, HostRestsOffer
<1>5. CASE RequestFails
  <2>1. slot' = slot /\ disk' = disk /\ pc' = "idle"
    BY <1>5 DEF RequestFails, serverVars, lifecycleVars
  <2> QED BY <1>1, <1>2, <2>1, OfferRests, HostRestsOffer
<1>6. CASE Updater
  <2>1. CASE (Host!LocalStep \/ Host!TimerFires) /\ UNCHANGED <<serverVars, late>>
    BY <1>1, <1>2, <2>1, HostOffers, HostOfferSlot DEF HostMoves, serverVars, lifecycleVars
  <2>2. CASE FetchOperation
    BY <1>1, <2>2, FetchOperationOffer, FetchOperationOfferHost
  <2>3. CASE Download
    <3>1. slot' = slot /\ disk' = disk
      BY <2>3 DEF Download, serverVars, lifecycleVars
    <3> QED BY <1>1, <2>3, <3>1, DownloadOffer, OfferRests
  <2>4. CASE ReportStage
    <3>1. disk' = disk /\ pc' \notin {"pending", "saveFinal"}
      BY <2>4 DEF ReportStage, Stage, StageWork
    <3> QED BY <1>1, <1>2, <2>4, <3>1, ReportStageOffer, HostRestsOffer
  <2>5. CASE ReportFinal
    <3>1. disk' = disk /\ pc' \notin {"pending", "saveFinal"}
      BY <2>5 DEF ReportFinal
    <3> QED BY <1>1, <1>2, <2>5, <3>1, ReportFinalOffer, HostRestsOffer
  <2>6. CASE ForgetOperation
    BY <1>1, <2>6, ForgetOperationOffer
  <2> QED BY <1>6, <2>1, <2>2, <2>3, <2>4, <2>5, <2>6 DEF Updater
<1>7. CASE Interrupted \/ Restarted
  BY <1>1, <1>2, <1>7, HostOffers, HostOfferSlot DEF Interrupted, Restarted, HostMoves, serverVars, lifecycleVars
<1>8. CASE LateReportArrives
  <2>1. PICK report \in late : DeviceReport(report)
    BY <1>8 DEF LateReportArrives
  <2>2. report \in Reports /\ Backed(report) /\ slot' = SlotAfter(report) /\ disk' = disk /\ pc' = pc /\ job' = job
    BY <1>1, <1>8, <2>1 DEF LateReportArrives, DeviceReport, agentVars, KnownOffer, Known, ServerTyped, SlotInv
  <2> QED BY <1>1, <1>2, <2>2, ReportOffer, HostRestsOffer
<1> QED
  BY <1>3, <1>4, <1>5, <1>6, <1>7, <1>8 DEF Next

\* An upgrade that is offered is allowed.
LEMMA OfferedIsAllowed == ASSUME OfferInv, UpgradeOffered PROVE UpgradeAllowed(ActiveArtifact)
<1>1. slot \in Slots \union {None} /\ latest \in Versions \union {None} /\ Versions \subseteq Nat /\ FirstCapable \in Nat
  BY VersionsAreNumbers DEF OfferInv, ResultInv, HostInv, Typed, ServerTyped, Versions
<1>2. /\ ~ InProgress /\ latest # None /\ latest >= FirstCapable /\ ActiveArtifact # None
      /\ latest < Version(ActiveArtifact)
  <2>1. CASE InProgress
    BY <2>1 DEF UpgradeOffered, Compatibility
  <2>2. CASE ~ InProgress /\ latest = None
    BY <2>2 DEF UpgradeOffered, Compatibility
  <2>3. CASE ~ InProgress /\ latest # None /\ latest < FirstCapable
    BY <1>1, <2>3 DEF UpgradeOffered, Compatibility
  <2>4. CASE ~ InProgress /\ latest # None /\ latest >= FirstCapable
    <3>1. Compatibility = IF ActiveArtifact = None THEN "RELEASE_UNAVAILABLE"
                          ELSE IF latest = Version(ActiveArtifact) THEN "CURRENT"
                          ELSE IF latest < Version(ActiveArtifact) THEN "UPGRADE_AVAILABLE" ELSE "NEWER_THAN_APPROVED"
      BY <1>1, <2>4 DEF Compatibility
    <3> QED BY <2>4, <3>1 DEF UpgradeOffered
  <2> QED BY <1>1, <2>1, <2>2, <2>3, <2>4
<1>3. ~ Repeated(ActiveArtifact)
  BY <1>2 DEF UpgradeOffered, Repeated, OfferInv, OfferSlot
<1>4. ActiveArtifact \in Release
  BY <1>2 DEF ActiveArtifact, OfferInv, ResultInv, HostInv, Typed, ServerTyped
<1> QED BY <1>1, <1>2, <1>3, <1>4 DEF UpgradeAllowed, Versions

\* What overview offers can be had: request_upgrade takes the upgrade, and the
\* release a rollback would restore is the one the host has retained, through late
\* reports, recoveries and operations that find the target in place.
THEOREM Offers == Spec => []OffersAreReal
<1>1. OfferInv => OffersAreReal
  BY OfferedIsAllowed DEF OffersAreReal, OfferInv, OfferSlot, Offered
<1>2. Spec => []OfferInv
  BY InitOffer, OfferInvariance, PTL DEF Spec
<1> QED BY <1>1, <1>2, PTL

(***************************************************************************)
(* The host implements Installation. Where the environments are says which *)
(* release is kept and whether a switch is under way; each step of the     *)
(* host then stays, departs, commits or closes a switch, and each step of  *)
(* the updater with the server begins a turn, ends one or is no step.      *)
(***************************************************************************)
\* The release kept and the switch under way, by where the environments are.
PlaceFacts ==
  /\ ~ Switching \/ disk.venv = Old => UnderWay = None
  /\ ~ Switching => Installed = disk.venv
  /\ Switching /\ InPlace => Installed = Old /\ UnderWay = None
  /\ Switching /\ HalfWay => Installed = Old /\ UnderWay = [from |-> Old, to |-> New]
  /\ Switching /\ Replaced => Installed = New /\ UnderWay = [from |-> Old, to |-> New]

\* Where the environments are when a switch is, and is not, under way ...
LEMMA Places == DiskTyped /\ DiskInv => PlaceFacts
<1> SUFFICES ASSUME DiskTyped, DiskInv PROVE PlaceFacts
  OBVIOUS
<1>1. DiskFields
  BY Fields
<1>2. Switching <=> Host!InstallPhase \in {"SWITCHING", "SWITCHED"}
  BY DEF Switching, Host!InstallPhase
<1>4. ~ Switching \/ disk.venv = Old => UnderWay = None
  BY <1>2 DEF UnderWay, Old
<1>5. Switching /\ disk.venv # Old => UnderWay = [from |-> Old, to |-> New]
  BY <1>2 DEF UnderWay, Old, New
<1>6. ~ Switching => Installed = disk.venv
  BY DEF DiskInv, Settled, LeftBehind, Installed
<1>7. Switching /\ InPlace => Installed = Old /\ disk.venv = Old
  BY DEF InPlace, Installed
<1>8. Switching /\ HalfWay => Installed = Old /\ disk.venv # Old
  BY <1>1, NoneIsNoData DEF HalfWay, Installed, DiskFields, Switching
<1>9. Switching /\ Replaced => Installed = New /\ disk.venv # Old
  BY DEF Replaced, Installed
<1> QED BY <1>4, <1>5, <1>6, <1>7, <1>8, <1>9 DEF PlaceFacts

\* ... and where they are after a step.
LEMMA PlacesThen == DiskTyped' /\ DiskInv' => PlaceFacts'
<1> SUFFICES ASSUME DiskTyped', DiskInv' PROVE PlaceFacts'
  OBVIOUS
<1>1. DiskFields'
  BY DEF DiskTyped, DiskFields, Disks, Host!InstallMarkers, Old, New
<1>2. Switching' <=> Host!InstallPhase' \in {"SWITCHING", "SWITCHED"}
  BY DEF Switching, Host!InstallPhase
<1>4. ~ Switching' \/ disk'.venv = Old' => UnderWay' = None
  BY <1>2 DEF UnderWay, Old
<1>5. Switching' /\ disk'.venv # Old' => UnderWay' = [from |-> Old', to |-> New']
  BY <1>2 DEF UnderWay, Old, New
<1>6. ~ Switching' => Installed' = disk'.venv
  BY DEF DiskInv, Settled, LeftBehind, Installed
<1>7. Switching' /\ InPlace' => Installed' = Old' /\ disk'.venv = Old'
  BY DEF InPlace, Installed
<1>8. Switching' /\ HalfWay' => Installed' = Old' /\ disk'.venv # Old'
  BY <1>1, NoneIsNoData DEF HalfWay, Installed, DiskFields, Switching
<1>9. Switching' /\ Replaced' => Installed' = New' /\ disk'.venv # Old'
  BY DEF Replaced, Installed
<1> QED BY <1>4, <1>5, <1>6, <1>7, <1>8, <1>9 DEF PlaceFacts

\* The service stands still when its environment is renamed. Of a new environment in
\* place it is the only one that runs, and it is healthy when that is accepted.
RunInv ==
  /\ pc \in {"moveOut", "moveIn", "rollbackIn"} => running = None
  /\ Switching /\ disk.venv = New /\ New # Old => running \in {None, New}
  /\ pc \in {"acceptPrune", "acceptMove"} /\ New # Old => running \in Release \ Broken

\* No switch under way: what a start would run is the release kept.
LEMMA KeptInPlace ==
  ASSUME DiskTyped, DiskInv, UnderWay = None
  PROVE  Installed = disk.venv
<1>1. PlaceFacts
  BY Places
<1>2. Switching => Old \in Release /\ New \in Release
  BY Fields DEF DiskFields, Switching
<1>3. ~ Switching \/ InPlace
  BY <1>1, <1>2, NoneIsNoData DEF PlaceFacts, DiskInv
<1> QED BY <1>1, <1>3 DEF PlaceFacts, DiskInv, InPlace

\* How a step of the host moves it, for the contract.
Stays == Installed' = Installed /\ UnderWay' = UnderWay
Runs == running' \in {running, None, Host!Startable}
Departs ==
  /\ Unfinished /\ UnderWay = None
  /\ Installed' = Installed /\ UnderWay' = [from |-> Installed, to |-> Op.target] /\ running' = None
Commits ==
  /\ UnderWay # None /\ Installed = UnderWay.from /\ running = UnderWay.to /\ running \notin Broken
  /\ Installed' = UnderWay.to /\ UnderWay' \in {UnderWay, None} /\ running' = running
Closes ==
  /\ UnderWay # None
  /\ Installed' = Installed /\ UnderWay' = None /\ running' = running
Moved == RunInv' /\ ((Stays /\ Runs) \/ Departs \/ Commits \/ Closes)

\* No switch is under way while the old environment is in its place.
LEMMA NoSwitch ==
  /\ ~ Switching \/ disk.venv = Old => UnderWay = None
  /\ ~ Switching' \/ disk'.venv = Old' => UnderWay' = None
BY DEF UnderWay, Switching, Old, Host!InstallPhase

\* The steps that RunInv says nothing special of.
Free == pc' \notin {"moveOut", "moveIn", "rollbackIn", "acceptPrune", "acceptMove"}

\* The service that runs goes on, stops, or is started from the environment in place.
LEMMA RunsOn ==
  ASSUME RunInv, disk'.venv = disk.venv, Runs, Free,
         \/ disk'.install = disk.install
         \/ ~ Switching' \/ disk'.venv = Old'
         \/ Switching /\ Old' = Old /\ New' = New
  PROVE  RunInv'
<1>1. CASE ~ Switching' \/ disk'.venv = Old'
  BY <1>1 DEF RunInv, Free
<1>2. CASE Switching' /\ Switching /\ Old' = Old /\ New' = New
  BY <1>2 DEF RunInv, Free, Runs, Host!Startable
<1>3. disk'.install = disk.install => Switching' = Switching /\ Old' = Old /\ New' = New
  BY DEF Switching, Old, New
<1> QED BY <1>1, <1>2, <1>3

\* A service that does not run is not the wrong one.
LEMMA Stopped ==
  ASSUME running' = None, pc' \notin {"acceptPrune", "acceptMove"}
  PROVE  RunInv'
BY DEF RunInv

\* Nothing changes for the contract while environments and switch stay ...
LEMMA StaysThere ==
  ASSUME disk'.venv = disk.venv, disk'.candidate = disk.candidate, disk'.install = disk.install
  PROVE  Stays
BY DEF Stays, Installed, UnderWay, Host!InstallPhase

\* ... nor when the marker of a switch comes or goes with the old one in place ...
LEMMA StaysWhole ==
  ASSUME disk'.venv = disk.venv, disk'.candidate = disk.candidate,
         ~ Switching \/ disk.venv = Old, ~ Switching' \/ disk'.venv = Old',
         disk.candidate = None \/ disk'.install = disk.install
  PROVE  Stays
BY NoSwitch DEF Stays, Installed

\* ... nor while the old one waits as venv.candidate.
LEMMA StaysHalfWay ==
  ASSUME Before, Kept, Switching, HalfWay, Switching', HalfWay', disk'.install = disk.install
  PROVE  Stays
<1>1. PlaceFacts /\ PlaceFacts'
  BY Places, PlacesThen DEF Before, Kept
<1>2. Old' = Old /\ New' = New
  BY DEF Old, New
<1> QED BY <1>1, <1>2 DEF PlaceFacts, Stays

\* The old environment is renamed to venv.candidate: the switch departs.
LEMMA Departure ==
  ASSUME Before, Kept, ResultHost, Working, pc # "reportFinal", Switching, InPlace, Switching', HalfWay',
         disk'.install = disk.install, running' = None, pc' \notin {"acceptPrune", "acceptMove"}
  PROVE  Moved
<1>1. PlaceFacts /\ PlaceFacts'
  BY Places, PlacesThen DEF Before, Kept
<1>2. Old' = Old /\ New' = New
  BY DEF Old, New
<1>3. Unfinished /\ Op.target = New
  BY DEF Before, ResultHost, BusyInv, OriginInv, Agrees, Switching
<1>4. RunInv'
  BY Stopped
<1> QED BY <1>1, <1>2, <1>3, <1>4 DEF PlaceFacts, Moved, Departs

\* venv.candidate is renamed to venv.previous, or left where rollback drops the marker
\* of a switch that it could not undo: the host is committed to the new release.
LEMMA Commitment ==
  ASSUME Before, RunInv, Switching, HalfWay, disk.venv = New, running \in Release \ Broken, running' = running,
         Installed' = New, UnderWay' \in {UnderWay, None}, RunInv'
  PROVE  Moved
<1>1. PlaceFacts
  BY Places DEF Before
<1>2. Old \in Release /\ New \in Release
  BY DEF Old, New, Before, DiskFields, Switching
<1>3. running = New /\ running \notin Broken
  BY <1>2, NoneIsNoData DEF RunInv, HalfWay
<1>4. UnderWay = [from |-> Old, to |-> New] /\ UnderWay # None /\ Installed = Old
  BY <1>1, <1>2, NoneIsNoData DEF PlaceFacts
<1>5. UnderWay.from = Old /\ UnderWay.to = New
  BY <1>4
<1> QED BY <1>3, <1>4, <1>5 DEF Moved, Commits

\* The old environment is put back, or the marker of the switch removed after the commit.
LEMMA Closure ==
  ASSUME Before, Switching, HalfWay \/ Replaced,
         ~ Switching' \/ disk'.venv = Old', Installed' = Installed, running' = running, RunInv'
  PROVE  Moved
<1>1. PlaceFacts
  BY Places DEF Before
<1>2. Old \in Release /\ New \in Release
  BY DEF Old, New, Before, DiskFields, Switching
<1>3. UnderWay = [from |-> Old, to |-> New] /\ UnderWay # None
  BY <1>1, <1>2, NoneIsNoData DEF PlaceFacts
<1>4. UnderWay' = None
  BY NoSwitch
<1> QED BY <1>3, <1>4 DEF Moved, Closes

\* Steps that move no environment and write no marker of a switch.
LEMMA Rests ==
  ASSUME RunInv, disk'.venv = disk.venv, disk'.candidate = disk.candidate, disk'.install = disk.install,
         Runs, Free
  PROVE  Moved
BY RunsOn, StaysThere DEF Moved

\* Steps that write or remove the marker of a switch with the old release in place.
LEMMA RestsWhole ==
  ASSUME RunInv, disk'.venv = disk.venv, disk'.candidate = disk.candidate,
         ~ Switching \/ disk.venv = Old, ~ Switching' \/ disk'.venv = Old',
         disk.candidate = None \/ disk'.install = disk.install, Runs, Free
  PROVE  Moved
BY RunsOn, StaysWhole DEF Moved

\* Most steps move no environment and end no switch.
LEMMA QuietMoved ==
  ASSUME Before, RunInv,
         \/ Host!AcceptRecord \/ Host!RestoreRecord \/ Host!RestoreStart \/ Host!Pending \/ Host!SaveFinal
         \/ Host!UpgradeBegin \/ Host!VerifyBundle \/ Host!InstallPackage \/ Host!BuildEnvironment
         \/ Host!StageSwitch \/ Host!InstallerFailed \/ Host!RollbackBegin \/ Host!TimerFires
         \/ Host!PowerLoss \/ Host!UpdaterKilled \/ Host!InstallerKilled \/ Host!StepFails \/ Host!Boot
  PROVE  Moved
<1> USE DEF Host!Goto, Host!Finish
<1>1. DiskTyped
  BY DEF Before
<1> SUFFICES /\ disk'.venv = disk.venv /\ disk'.candidate = disk.candidate /\ disk'.install = disk.install
             /\ Runs /\ Free
  BY Rests
<1> USE DEF Runs, Free, Host!Started
<1>2. CASE Host!AcceptRecord \/ Host!RestoreRecord \/ Host!RestoreStart
  BY <1>1, <1>2 DEF DiskTyped, Disks, Host!AcceptRecord, Host!RestoreRecord, Host!RestoreStart
<1>3. CASE Host!Pending \/ Host!UpgradeBegin \/ Host!VerifyBundle \/ Host!InstallerFailed \/ Host!RollbackBegin
  BY <1>3 DEF Host!Pending, Host!UpgradeBegin, Host!VerifyBundle, Host!InstallerFailed, Host!RollbackBegin
<1>4. CASE Host!SaveFinal \/ Host!InstallPackage \/ Host!BuildEnvironment \/ Host!StageSwitch
  BY <1>1, <1>4 DEF DiskTyped, Disks, Host!SaveFinal, Host!InstallPackage, Host!BuildEnvironment, Host!StageSwitch
<1>5. CASE Host!TimerFires \/ Host!PowerLoss \/ Host!UpdaterKilled \/ Host!InstallerKilled \/ Host!StepFails \/ Host!Boot
  BY <1>5 DEF Host!TimerFires, Host!Boot, Host!PowerLoss, Host!UpdaterKilled, Host!InstallerKilled,
     Host!StepFails, Host!AcceptStepFails, Host!RestoreStepFails, Host!InstallerStepFails, Host!RollbackStepFails,
     Host!MaybeStopped
<1> QED BY <1>2, <1>3, <1>4, <1>5

\* A service that fails is restarted from the environment in place.
LEMMA ServiceFailsMoved == ASSUME Before, RunInv, Host!ServiceFails PROVE Moved
<1>1. disk' = disk /\ pc' = pc /\ running # None /\ running' = Host!Startable
  BY DEF Host!ServiceFails
<1>2. pc \in {"acceptPrune", "acceptMove"} => Switching /\ disk.venv = New /\ New \in Release
  BY DEF Before, PcInv, AcceptInv, DiskFields, Switching
<1>3. RunInv'
  BY <1>1, <1>2 DEF RunInv, Switching, Old, New, Host!Startable
<1> QED BY <1>1, <1>3, StaysThere DEF Moved, Runs

\* recover_install finds no switch under way.
LEMMA RecoverAtRestMoved == ASSUME Before, RunInv, Host!RecoverAtRest PROVE Moved
<1>1. pc' = "pending" /\ running' = running /\ ~ Switching /\ DiskTyped /\ Settled
  BY DEF Before, DiskInv, DiskFields, Host!Phases, Switching, Host!RecoverAtRest, Host!InstallPhase, Host!Recovered
<1>2. /\ disk'.venv = disk.venv /\ disk'.candidate = disk.candidate
      /\ disk'.install \in {disk.install, None}
      /\ disk.candidate = None \/ disk'.install = disk.install
  BY <1>1 DEF DiskTyped, Disks, Settled, LeftBehind, Host!RecoverAtRest
<1>3. ~ Switching'
  BY <1>1, <1>2 DEF Switching
<1> QED BY <1>1, <1>2, <1>3, RestsWhole DEF Runs, Free

\* recover_install accepts a new release only when it runs.
LEMMA RecoverSwitchedMoved == ASSUME Before, RunInv, Host!RecoverSwitched PROVE Moved
<1>1. disk' = disk /\ running' = running /\ pc' \in {"acceptPrune", "recoverPrevious"}
  BY DEF Host!RecoverSwitched
<1>2. pc' = "acceptPrune" => running \in Release \ Broken
  BY DEF Host!RecoverSwitched, Host!HealthCheck, Host!Healthy
<1>3. RunInv'
  BY <1>1, <1>2 DEF RunInv, Switching, Old, New
<1> QED BY <1>1, <1>3, StaysThere DEF Moved, Runs

\* recover_install forgets a switch whose old release never left.
LEMMA RecoverPreviousMoved == ASSUME Before, RunInv, Host!RecoverPrevious PROVE Moved
<1>1. Switching /\ DiskTyped
  BY DEF Before, PcInv, RestoreInv, Host!RecoverPrevious
<1>2. CASE pc' = "restore" /\ disk' = disk
  BY <1>2, Rests DEF Host!RecoverPrevious, Host!Started, Runs, Free
<1>3. CASE /\ pc' = "pending" /\ disk' = [disk EXCEPT !.install = None]
           /\ disk.record = disk.install.previous /\ running' = Host!Started
           /\ Host!HealthCheck(disk.record, Host!Started, TRUE)
  <2>1. /\ disk'.venv = disk.venv /\ disk'.candidate = disk.candidate /\ disk'.install = None
    BY <1>1, <1>3 DEF DiskTyped, Disks
  <2>2. disk.venv = Old /\ ~ Switching'
    BY <1>3, <2>1 DEF Host!HealthCheck, Host!Healthy, Old, Switching
  <2>3. disk.candidate = None
    BY <1>1, <2>2 DEF Before, DiskInv, HalfWay, InPlace, Replaced
  <2> QED BY <1>3, <2>1, <2>2, <2>3, RestsWhole DEF Host!Started, Runs, Free
<1> QED BY <1>2, <1>3 DEF Host!RecoverPrevious, Host!Recovered

\* Removing venv.previous moves nothing that counts.
LEMMA AcceptPruneMoved == ASSUME Before, RunInv, Host!AcceptPrune PROVE Moved
<1>1. /\ disk'.venv = disk.venv /\ disk'.candidate = disk.candidate /\ disk'.install = disk.install
      /\ running' = running /\ pc = "acceptPrune" /\ pc' \in {"acceptPrune", "acceptMove"}
  BY DEF Before, DiskTyped, Disks, Host!AcceptPrune, Host!RemoveTree, Host!Goto
<1>2. RunInv'
  BY <1>1 DEF RunInv, Switching, Old, New
<1> QED BY <1>1, <1>2, StaysThere DEF Moved, Runs

\* The rename of venv.candidate commits, once.
LEMMA AcceptMoveMoved == ASSUME Before, Kept, RunInv, Host!AcceptMove PROVE Moved
<1>1. /\ pc = "acceptMove" /\ pc' = "acceptRecord" /\ running' = running /\ DiskTyped
      /\ disk'.venv = disk.venv /\ disk'.install = disk.install
  BY DEF Before, DiskTyped, Disks, Host!AcceptMove, Host!Goto
<1>2. /\ Switching /\ (HalfWay \/ Replaced \/ Again) /\ disk.venv = New
      /\ (New # Old => running \in Release \ Broken) /\ Switching' /\ (Replaced' \/ Again')
  BY <1>1 DEF Before, Kept, PcInv, AcceptInv, RunInv
<1>3. CASE disk.candidate = None
  BY <1>1, <1>3, Rests DEF Host!AcceptMove, Runs, Free
<1>4. CASE disk.candidate # None
  <2>1. HalfWay /\ New # Old
    BY <1>2, <1>4 DEF Replaced, Again, InPlace, HalfWay
  <2>2. Old' = Old /\ New' = New /\ disk'.candidate = None
    BY <1>1, <1>4 DEF Old, New, DiskTyped, Disks, Host!AcceptMove
  <2>3. Installed' = New /\ UnderWay' = UnderWay
    BY <1>1, <1>2, <2>2 DEF Installed, UnderWay, Host!InstallPhase
  <2>4. RunInv'
    BY <1>1, RunsOn DEF Runs, Free
  <2> QED BY <1>1, <1>2, <2>1, <2>3, <2>4, Commitment
<1> QED BY <1>3, <1>4

\* The switch is over, and was committed.
LEMMA AcceptDoneMoved == ASSUME Before, Kept, RunInv, Host!AcceptDone PROVE Moved
<1>1. /\ running' = running /\ Switching /\ (Replaced \/ Again)
      /\ disk'.venv = disk.venv /\ disk'.candidate = disk.candidate /\ disk'.install = None
  BY DEF Before, DiskTyped, Disks, PcInv, AcceptInv, Host!AcceptDone
<1>2. Free
  <2>1. job.context \in {"recovery", "installer", "rollback"}
    BY DEF Before, PcInv, WorkInv, JobTyped, Host!AcceptDone
  <2>2. CASE job.context = "recovery"
    BY <2>2 DEF Free, Host!AcceptDone, Host!Recovered
  <2>3. CASE job.context = "installer"
    BY <2>3 DEF Free, Host!AcceptDone, Host!Finish
  <2>4. CASE job.context = "rollback"
    BY <2>4 DEF Free, Host!AcceptDone, Host!Finish
  <2> QED BY <2>1, <2>2, <2>3, <2>4
<1>3. ~ Switching' /\ Runs
  BY <1>1 DEF Switching, Runs
<1>4. RunInv'
  BY <1>1, <1>2, <1>3, RunsOn
<1>5. CASE Replaced
  <2>1. Installed' = Installed
    BY <1>1, <1>5 DEF Installed, Replaced
  <2> QED BY <1>1, <1>3, <1>4, <1>5, <2>1, Closure
<1>6. CASE Again
  BY <1>1, <1>2, <1>3, <1>6, RestsWhole DEF Again, InPlace
<1> QED BY <1>1, <1>5, <1>6

\* The way back begins: the new environment is moved away or removed.
LEMMA RestoreBeginMoved == ASSUME Before, Kept, RunInv, Host!RestoreBegin PROVE Moved
<1>1. pc = "restore" /\ pc' \in {"restoreStart", "restoreFailed", "restoreMove", "restoreRemove"} /\ DiskTyped
  BY DEF Before, Host!RestoreBegin
<1>2. CASE disk' = disk
  BY <1>1, <1>2, Rests DEF Host!RestoreBegin, Runs, Free
<1>3. CASE /\ disk.candidate # None /\ pc' = "restoreMove" /\ OperatorSwitch
           /\ disk' = [disk EXCEPT !.previous = disk.venv, !.venv = None]
  <2>1. disk'.install = disk.install
    BY <1>1, <1>3 DEF DiskTyped, Disks
  <2>2. Switching' /\ HalfWay'
    BY <1>3 DEF Kept, PcInv, RestoreInv
  <2>3. Switching
    BY <2>1, <2>2 DEF Switching
  <2>4. HalfWay
    BY <1>3, <2>3 DEF Before, DiskInv, InPlace, Replaced
  <2>5. Stays
    BY <2>1, <2>2, <2>3, <2>4, StaysHalfWay
  <2>6. running' = None
    BY <1>1, <1>3 DEF Before, PcInv, RestoreInv, OperatorSwitch, Host!RestoreBegin
  <2>7. RunInv'
    BY <1>3, <2>6, Stopped
  <2> QED BY <2>5, <2>6, <2>7 DEF Moved, Runs
<1> QED BY <1>2, <1>3 DEF Host!RestoreBegin, Host!OperatorSwitch, OperatorSwitch

\* A removal of the new environment, whole or cut short.
LEMMA RestoreRemoveMoved == ASSUME Before, Kept, ResultHost, RunInv, Host!RestoreRemove PROVE Moved
<1>1. /\ pc = "restoreRemove" /\ pc' \in {"restoreRemove", "restoreMove"} /\ running' = running
      /\ disk'.install = disk.install
  BY DEF Before, DiskTyped, Disks, Host!RestoreRemove, Host!RemoveTree
<1>2. Switching /\ HalfWay /\ Switching' /\ HalfWay'
  BY <1>1 DEF Before, Kept, PcInv, RestoreInv
<1>3. disk'.venv \in {None, Torn} /\ disk'.venv # New'
  BY <1>1, <1>2, NoneIsNoData DEF Before, DiskTyped, DiskFields, Disks, Switching, New, Host!RestoreRemove, Host!RemoveTree
<1>4. RunInv'
  BY <1>1, <1>3 DEF RunInv
<1> QED BY <1>1, <1>2, <1>4, StaysHalfWay DEF Moved, Runs

\* The old environment is back: the switch is given up.
LEMMA RestoreMoveMoved == ASSUME Before, Kept, ResultHost, RunInv, Host!RestoreMove PROVE Moved
<1>1. /\ pc = "restoreMove" /\ pc' = "restoreRecord" /\ running' = running /\ DiskTyped
      /\ disk'.install = disk.install
  BY DEF Before, DiskTyped, Disks, Host!RestoreMove, Host!Goto
<1>2. Switching /\ HalfWay /\ Switching' /\ InPlace'
  BY <1>1 DEF Before, Kept, PcInv, RestoreInv
<1>3. disk'.venv = Old' /\ Old' = Old /\ New' = New
  BY <1>1, <1>2 DEF InPlace, Old, New
<1>4. RunInv'
  BY <1>1, <1>3 DEF RunInv
<1>5. Installed' = Installed
  <2>1. PlaceFacts /\ PlaceFacts'
    BY Places, PlacesThen DEF Before, Kept
  <2>2. Old' = Old
    BY <1>1 DEF Old
  <2> QED BY <1>2, <2>1, <2>2 DEF PlaceFacts
<1>6. disk'.venv = Old'
  BY <1>2 DEF InPlace
<1> QED BY <1>1, <1>2, <1>3, <1>4, <1>5, <1>6, Closure

\* The marker of a switch that was given up is removed.
LEMMA RestoreDoneMoved == ASSUME Before, RunInv, Host!RestoreDone \/ Host!RestoreSettle PROVE Moved
<1>1. running' = running /\ DiskTyped /\ DiskInv /\ WorkInv /\ JobTyped
  BY DEF Before, PcInv, Host!RestoreDone, Host!RestoreSettle
<1>2. disk.install # None /\ disk.candidate = None /\ (~ Switching \/ disk.venv = Old)
  <2>1. CASE Host!RestoreDone
    BY <2>1 DEF Before, PcInv, RestoreInv, Settled, LeftBehind, Host!RestoreDone
  <2>2. CASE Host!RestoreSettle
    BY <1>1, <2>2 DEF Before, PcInv, RestoreInv, DiskInv, Settled, LeftBehind, Switching, Host!RestoreSettle, Host!Goto
  <2> QED BY <2>1, <2>2
<1>3. CASE disk' = [disk EXCEPT !.install = None] \/ disk' = [disk EXCEPT !.recordCandidate = None, !.install = None]
  <2>1. disk'.venv = disk.venv /\ disk'.candidate = disk.candidate /\ disk'.install = None
    BY <1>1, <1>3 DEF DiskTyped, Disks
  <2>2. pc' \in {"pending", "saveFinal", "restoreSettle", "installerFailed"}
    <3>1. CASE Host!RestoreSettle
      BY <3>1 DEF Host!RestoreSettle, Host!Goto
    <3>2. CASE Host!RestoreDone /\ job.context = "recovery"
      BY <3>2 DEF Host!RestoreDone, Host!Recovered
    <3>3. CASE Host!RestoreDone /\ job.context = "rollback"
      BY <3>3 DEF Host!RestoreDone, Host!Finish
    <3>4. CASE Host!RestoreDone /\ job.context = "installer"
      BY <3>4 DEF Host!RestoreDone
    <3>5. Host!RestoreDone => job.context \in {"recovery", "installer", "rollback"}
      BY <1>1 DEF WorkInv, JobTyped, Host!RestoreDone
    <3> QED BY <3>1, <3>2, <3>3, <3>4, <3>5
  <2>3. ~ Switching'
    BY <2>1 DEF Switching
  <2> QED BY <1>1, <1>2, <2>1, <2>2, <2>3, RestsWhole DEF Runs, Free
<1>4. CASE disk' = [disk EXCEPT !.install.phase = "ROLLED_BACK"] /\ pc' = "restoreSettle"
  <2>1. disk'.venv = disk.venv /\ disk'.candidate = disk.candidate /\ disk'.install = [disk.install EXCEPT !.phase = "ROLLED_BACK"]
    BY <1>1, <1>4 DEF DiskTyped, Disks
  <2>2. ~ Switching'
    BY <1>1, <1>2, <2>1 DEF DiskTyped, Disks, Host!InstallMarkers, Switching
  <2> QED BY <1>1, <1>2, <1>4, <2>1, <2>2, RestsWhole DEF Runs, Free
<1>5. CASE Host!RestoreDone
  <2>1. CASE job.context = "recovery"
    BY <1>3, <1>5, <2>1 DEF Host!RestoreDone
  <2>2. CASE job.context = "rollback"
    BY <1>3, <1>5, <2>2 DEF Host!RestoreDone
  <2>3. CASE job.context = "installer"
    BY <1>4, <1>5, <2>3 DEF Host!RestoreDone
  <2>4. job.context \in {"recovery", "installer", "rollback"}
    BY <1>1, <1>5 DEF WorkInv, JobTyped, Host!RestoreDone
  <2> QED BY <2>1, <2>2, <2>3, <2>4
<1>6. CASE Host!RestoreSettle
  BY <1>3, <1>6 DEF Host!RestoreSettle
<1> QED BY <1>5, <1>6

\* The old service does not start; its environment is in place.
LEMMA RestoreFailedMoved == ASSUME Before, RunInv, Host!RestoreFailed PROVE Moved
<1>1. running' = running /\ DiskTyped /\ DiskInv /\ pc = "restoreFailed"
  BY DEF Before, Host!RestoreFailed
<1>2. job.context \in {"recovery", "installer", "rollback"}
  BY <1>1 DEF Before, PcInv, WorkInv, JobTyped
<1>3. CASE job.context = "recovery"
  BY <1>1, <1>3, Rests DEF Host!RestoreFailed, Runs, Free
<1>4. CASE job.context = "rollback"
  BY <1>1, <1>4, Rests DEF Host!RestoreFailed, Runs, Free
<1>5. CASE job.context = "installer"
  <2>1. pc' = "installerFailed" /\ disk' = [disk EXCEPT !.install.phase = "ROLLBACK_FAILED"]
    BY <1>5 DEF Host!RestoreFailed
  <2>2. disk.install # None /\ disk.venv = Old /\ disk.candidate = None
    BY <1>1, <1>5 DEF Before, PcInv, RestoreInv, Settled, LeftBehind
  <2>3. /\ disk'.venv = disk.venv /\ disk'.candidate = disk.candidate
        /\ disk'.install = [disk.install EXCEPT !.phase = "ROLLBACK_FAILED"]
    BY <1>1, <2>1 DEF DiskTyped, Disks
  <2>4. ~ Switching'
    BY <1>1, <2>2, <2>3 DEF DiskTyped, Disks, Host!InstallMarkers, Switching
  <2> QED BY <1>1, <2>1, <2>2, <2>3, <2>4, RestsWhole DEF Runs, Free
<1> QED BY <1>2, <1>3, <1>4, <1>5

\* The new service is started and looked at.
LEMMA StartMoved == ASSUME Before, RunInv, Host!StartNew \/ Host!RollbackStart PROVE Moved
<1>1. disk' = disk /\ running' = Host!Startable /\ pc' \in {"acceptPrune", "restore"}
  BY DEF Host!StartNew, Host!RollbackStart
<1>2. pc' = "acceptPrune" => Host!Startable \in Release \ Broken
  BY DEF Host!StartNew, Host!RollbackStart, Host!HealthCheck, Host!Healthy
<1>3. RunInv'
  BY <1>1, <1>2 DEF RunInv, Switching, Old, New, Host!Startable
<1> QED BY <1>1, <1>3, StaysThere DEF Moved, Runs

\* switch_package, step by step.
LEMMA SwitchPackageMoved == ASSUME Before, Kept, ResultHost, RunInv, Host!SwitchPackage PROVE Moved
<1>1. DiskTyped /\ DiskInv /\ DiskFields
  BY DEF Before
<1>2. CASE /\ pc = "markStaged" /\ pc' = "markSwitching" /\ running' = running
           /\ disk' = [disk EXCEPT !.install = Host!InstallMarker("STAGED", "UPGRADE")]
  <2>1. disk'.venv = disk.venv /\ disk'.candidate = disk.candidate
    BY <1>1, <1>2 DEF DiskTyped, Disks
  <2>2. disk.install = None /\ disk.candidate = None
    BY <1>2 DEF Before, PcInv, UpgradeInv
  <2>3. disk'.install.phase = "STAGED"
    BY <1>2 DEF Kept, PcInv, UpgradeInv
  <2> QED BY <1>2, <2>1, <2>2, <2>3, RestsWhole DEF Switching, Runs, Free
<1>3. CASE /\ pc = "markSwitching" /\ pc' = "stop" /\ running' = running
           /\ disk' = [disk EXCEPT !.install.phase = "SWITCHING"]
  <2>1. disk'.venv = disk.venv /\ disk'.candidate = disk.candidate
    BY <1>1, <1>3 DEF DiskTyped, Disks
  <2>2. ~ Switching
    BY <1>3 DEF Before, PcInv, UpgradeInv, Switching
  <2>3. disk'.venv = Old' /\ disk'.candidate = None
    BY <1>3 DEF Kept, PcInv, UpgradeInv, InPlace
  <2> QED BY <1>3, <2>1, <2>2, <2>3, RestsWhole DEF Runs, Free
<1>4. CASE pc = "stop" /\ pc' = "moveOut" /\ running' = None /\ disk' = disk
  BY <1>4, Stopped, StaysThere DEF Moved, Runs
<1>5. CASE /\ pc = "moveOut" /\ pc' = "moveIn" /\ running' = running
           /\ disk' = [disk EXCEPT !.candidate = disk.venv, !.venv = None]
  <2>1. disk'.install = disk.install
    BY <1>1, <1>5 DEF DiskTyped, Disks
  <2>2. InPlace /\ Switching /\ HalfWay'
    BY <1>5 DEF Before, Kept, PcInv, UpgradeInv
  <2>3. Switching'
    BY <2>1, <2>2 DEF Switching
  <2>4. running' = None /\ Working
    BY <1>5 DEF RunInv, Working
  <2> QED BY <1>5, <2>1, <2>2, <2>3, <2>4, Departure
<1>6. CASE /\ pc = "moveIn" /\ pc' = "record" /\ running' = running
           /\ disk' = [disk EXCEPT !.venv = disk.new, !.new = None]
  <2>1. disk'.install = disk.install
    BY <1>1, <1>6 DEF DiskTyped, Disks
  <2>2. HalfWay /\ disk.venv = None /\ Switching /\ HalfWay'
    BY <1>6 DEF Before, Kept, PcInv, UpgradeInv
  <2>3. Switching' /\ running' = None
    BY <1>6, <2>1, <2>2 DEF Switching, RunInv
  <2> QED BY <1>6, <2>1, <2>2, <2>3, Stopped, StaysHalfWay DEF Moved, Runs
<1>7. CASE /\ pc = "record" /\ pc' = "markSwitched" /\ running' = running
           /\ disk' = [disk EXCEPT !.record = job.op.target]
  <2>1. disk'.venv = disk.venv /\ disk'.candidate = disk.candidate /\ disk'.install = disk.install
    BY <1>1, <1>7 DEF DiskTyped, Disks
  <2> QED BY <1>7, <2>1, Rests DEF Runs, Free
<1>8. CASE /\ pc = "markSwitched" /\ pc' = "start" /\ running' = running
           /\ disk' = [disk EXCEPT !.install.phase = "SWITCHED"]
  <2>1. /\ disk'.venv = disk.venv /\ disk'.candidate = disk.candidate
        /\ disk'.install = [disk.install EXCEPT !.phase = "SWITCHED"]
    BY <1>1, <1>8 DEF DiskTyped, Disks
  <2>2. Switching /\ HalfWay /\ Switching' /\ HalfWay'
    BY <1>8 DEF Before, Kept, PcInv, UpgradeInv
  <2>3. Old' = Old /\ New' = New
    BY <1>1, <2>1, <2>2 DEF DiskTyped, Disks, Host!InstallMarkers, Switching, Old, New
  <2>4. PlaceFacts /\ PlaceFacts'
    BY Places, PlacesThen DEF Before, Kept
  <2>5. Stays
    BY <2>2, <2>3, <2>4 DEF PlaceFacts, Stays
  <2> QED BY <1>8, <2>1, <2>2, <2>3, <2>5, RunsOn DEF Moved, Runs, Free
<1> QED
  BY <1>2, <1>3, <1>4, <1>5, <1>6, <1>7, <1>8 DEF Host!SwitchPackage, Host!Goto

\* rollback, step by step.
LEMMA RollbackSwitchMoved == ASSUME Before, Kept, ResultHost, RunInv, Host!RollbackSwitch PROVE Moved
<1>1. DiskTyped /\ DiskInv /\ DiskFields
  BY DEF Before
<1>2. CASE /\ pc = "rollbackMark" /\ pc' = "rollbackCopy" /\ running' = running
           /\ disk' = [disk EXCEPT !.install = Host!InstallMarker("SWITCHING", "ROLLBACK")]
  <2>1. disk'.venv = disk.venv /\ disk'.candidate = disk.candidate
    BY <1>1, <1>2 DEF DiskTyped, Disks
  <2>2. ~ Switching
    BY <1>2 DEF Before, PcInv, RollbackInv, Switching
  <2>3. disk'.venv = Old' /\ disk'.candidate = None
    BY <1>2 DEF Kept, PcInv, RollbackInv, InPlace
  <2> QED BY <1>2, <2>1, <2>2, <2>3, RestsWhole DEF Runs, Free
<1>3. CASE /\ pc' \in {"rollbackOut", "rollbackRecord", "rollbackStart"} /\ running' = running
           /\ \/ disk' = [disk EXCEPT !.recordCandidate = disk.record]
              \/ disk' = [disk EXCEPT !.record = Torn]
              \/ disk' = [disk EXCEPT !.record = disk.recordPrevious]
  <2>1. disk'.venv = disk.venv /\ disk'.candidate = disk.candidate /\ disk'.install = disk.install
    BY <1>1, <1>3 DEF DiskTyped, Disks
  <2> QED BY <1>3, <2>1, Rests DEF Runs, Free
<1>4. CASE /\ pc = "rollbackOut" /\ pc' = "rollbackIn" /\ running' = None
           /\ disk' = [disk EXCEPT !.candidate = disk.venv, !.venv = None]
  <2>1. disk'.install = disk.install
    BY <1>1, <1>4 DEF DiskTyped, Disks
  <2>2. InPlace /\ Switching /\ HalfWay'
    BY <1>4 DEF Before, Kept, PcInv, RollbackInv
  <2>3. Switching' /\ Working
    BY <1>4, <2>1, <2>2 DEF Switching, Working
  <2> QED BY <1>4, <2>1, <2>2, <2>3, Departure
<1>5. CASE /\ pc = "rollbackIn" /\ pc' = "rollbackRecord" /\ running' = running
           /\ disk' = [disk EXCEPT !.venv = disk.previous, !.previous = None]
  <2>1. disk'.install = disk.install
    BY <1>1, <1>5 DEF DiskTyped, Disks
  <2>2. HalfWay /\ disk.venv = None /\ Switching /\ HalfWay'
    BY <1>5 DEF Before, Kept, PcInv, RollbackInv
  <2>3. Switching' /\ running' = None
    BY <1>5, <2>1, <2>2 DEF Switching, RunInv
  <2> QED BY <1>5, <2>1, <2>2, <2>3, Stopped, StaysHalfWay DEF Moved, Runs
<1> QED
  BY <1>2, <1>3, <1>4, <1>5 DEF Host!RollbackSwitch, Host!Goto

\* rollback keeps what VERSION names when its repair has failed. With the target in
\* place that commits the host to it.
LEMMA RollbackRecheckMoved == ASSUME Before, ResultHost, RunInv, Host!RollbackRecheck PROVE Moved
<1>1. running' = running /\ DiskTyped /\ DiskInv /\ DiskFields /\ pc' = "saveFinal" /\ Runs /\ Free
  BY DEF Before, Host!RollbackRecheck, Host!Finish, Runs, Free
<1>2. CASE disk' = disk
  BY <1>1, <1>2, Rests
<1>3. CASE /\ disk' = [disk EXCEPT !.install = None]
           /\ disk.venv = disk.record /\ disk.record \in Release /\ running \in Release \ Broken
  <2>1. disk'.venv = disk.venv /\ disk'.candidate = disk.candidate /\ disk'.install = None
    BY <1>1, <1>3 DEF DiskTyped, Disks
  <2>2. ~ Switching' /\ Installed' = disk.venv /\ UnderWay' = None
    BY <2>1, NoSwitch DEF Switching, Installed
  <2>3. RunInv'
    BY <1>1, <2>1, <2>2, RunsOn
  <2>4. CASE ~ Switching
    <3>1. disk.candidate = None \/ disk'.install = disk.install
      BY <1>1, <2>1, <2>4 DEF DiskInv, Settled, LeftBehind
    <3> QED BY <1>1, <2>1, <2>2, <2>4, <3>1, RestsWhole
  <2>5. CASE Switching /\ InPlace
    BY <1>1, <2>1, <2>2, <2>5, RestsWhole DEF InPlace
  <2>6. CASE Switching /\ HalfWay
    <3>1. disk.venv = New
      BY <1>1, <1>3, <2>6, NoneIsNoData DEF DiskInv, HalfWay
    <3> QED BY <1>1, <1>3, <2>2, <2>3, <2>6, <3>1, Commitment
  <2>7. CASE Switching /\ Replaced
    <3>1. Installed' = Installed
      BY <2>2, <2>7 DEF Replaced, Installed
    <3> QED BY <1>1, <2>2, <2>3, <2>7, <3>1, Closure
  <2> QED BY <1>1, <2>4, <2>5, <2>6, <2>7 DEF DiskInv
<1> QED BY <1>2, <1>3 DEF Host!RollbackRecheck, Host!HealthCheck, Host!Healthy

\* Each step of the host moves it as the contract allows.
LEMMA HostMoved == ASSUME Before, Kept, ResultHost, RunInv, HostMoves PROVE Moved
BY QuietMoved, ServiceFailsMoved, RecoverAtRestMoved, RecoverSwitchedMoved, RecoverPreviousMoved, AcceptPruneMoved, AcceptMoveMoved,
   AcceptDoneMoved, RestoreBeginMoved, RestoreRemoveMoved, RestoreMoveMoved, RestoreDoneMoved, RestoreFailedMoved,
   StartMoved, SwitchPackageMoved, RollbackSwitchMoved, RollbackRecheckMoved
DEF HostMoves, Host!LocalStep, Host!Interruption

(***************************************************************************)
(* Turns.                                                                  *)
(***************************************************************************)
\* The operation in the marker is the last one asked for, or the one before it
\* while the last one waits in the slot.
TurnInv ==
  disk.marker # None => operations = Op.id \/ (operations = Op.id + 1 /\ InProgress)

\* Turns pass only with the operations asked for, the marker and the slot.
LEMMA TurnKept ==
  ASSUME TurnInv, operations' = operations, InProgress' = InProgress, disk'.marker # None <=> disk.marker # None,
         Op' = Op
  PROVE  TurnInv' /\ Begun' = Begun
BY DEF TurnInv, Begun, Op

\* Reports end an operation only with the marker's result.
LEMMA ReportTurn ==
  ASSUME Known, TurnInv, NEW report \in Reports, Backed(report), slot' = slot \/ slot' = SlotAfter(report),
         operations' = operations, disk' = disk
  PROVE  TurnInv' /\ Begun' = Begun
<1>1. Op' = Op
  BY DEF Op
<1>2. CASE InProgress' = InProgress
  BY <1>1, <1>2, TurnKept
<1>3. CASE ReportIsNew(report) /\ slot' = SlotAfter(report)
  <2>1. InProgress /\ slot \in Slots /\ slot.id = report.id
    BY <1>3 DEF ReportIsNew, Known, ServerTyped, InProgress
  <2>2. slot' # None /\ slot'.state = report.state
    <3>1. slot'.state = report.state
      BY <1>3, <2>1 DEF SlotAfter, Slots
    <3>2. slot' \in Slots
      BY <1>3, ReportTyped DEF Known
    <3> QED BY <3>1, <3>2, NoneIsNoData
  <2>3. CASE report.state \in Active
    BY <1>2, <2>1, <2>2, <2>3 DEF InProgress
  <2>4. CASE report.state \in Terminal
    <3>1. Finished /\ Op.id = operations
      BY <2>1, <2>4 DEF Backed, Known, SlotInv, InProgress
    <3> QED BY <1>1, <3>1 DEF TurnInv, Begun, Finished, Op
  <2>5. report.state \in Active \union Terminal
    BY DEF Reports, States
  <2> QED BY <2>3, <2>4, <2>5
<1>4. CASE slot' = slot
  BY <1>2, <1>4 DEF InProgress
<1> QED BY <1>3, <1>4 DEF SlotAfter

\* What the updater reports is backed by its marker.
LEMMA SentReports ==
  ASSUME Known, ReportStage \/ ReportFinal
  PROVE  /\ \E report \in Reports : Backed(report) /\ (slot' = slot \/ slot' = SlotAfter(report))
         /\ operations' = operations /\ disk' = disk /\ running' = running
         /\ pc' # "saveFinal" /\ Free
<1>1. CASE ReportStage
  <2> DEFINE report == [id |-> job.op.id, state |-> Stage[pc], detail |-> "none", previous |-> None, available |-> FALSE]
  <2>1. /\ Working /\ job.op.id \in Nat /\ disk' = disk /\ running' = running
        /\ pc' # "saveFinal" /\ Free
    BY <1>1 DEF Free, ReportStage, Stage, StageWork, Working, Known, Before, PcInv, WorkInv, DiskTyped, Disks, Host!UpdaterMarkers, Host!Requests
  <2>2. report \in Reports /\ Stage[pc] \notin Terminal
    BY <1>1, <2>1, StatesOfOperations DEF ReportStage, Stage, Reports, States, Optional, Terminal
  <2>3. Backed(report)
    BY <2>2 DEF Backed
  <2>4. operations' = operations /\ (slot' = slot \/ slot' = SlotAfter(report))
    BY <1>1 DEF ReportStage, Send, DeviceReport, lifecycleVars
  <2> HIDE DEF report
  <2> QED BY <2>1, <2>2, <2>3, <2>4
<1>2. CASE ReportFinal
  <2> DEFINE report == [id |-> job.op.id, state |-> job.result.state, detail |-> job.result.detail,
                        previous |-> job.result.previous, available |-> job.result.available]
  <2>1. /\ pc = "reportFinal" /\ disk' = disk /\ disk.marker # None /\ job.op = Op /\ job.op.id \in Nat
        /\ job.result \in Host!Results /\ job.result = Final
    BY <1>2 DEF ReportFinal, Working, Known, Before, PcInv, WorkInv, DiskTyped, Disks, Host!UpdaterMarkers, Host!Requests,
       JobTyped, ResultHost, FinalInv, Op
  <2>2. Finished
    BY <2>1, NoneIsNoData DEF Finished
  <2>3. report \in Reports
    BY <2>1, StatesOfOperations DEF Host!Results, Reports, States, Terminal, Optional
  <2>4. Backed(report)
    BY <2>1, <2>2 DEF Backed, IsResult, Known, SlotInv
  <2>5. operations' = operations /\ (slot' = slot \/ slot' = SlotAfter(report))
    BY <1>2 DEF ReportFinal, Send, DeviceReport, lifecycleVars
  <2>6. running' = running /\ pc' \in {"unlink", "idle"}
    BY <1>2 DEF ReportFinal
  <2> HIDE DEF report
  <2> QED BY <2>1, <2>3, <2>4, <2>5, <2>6 DEF Free
<1> QED BY <1>1, <1>2

\* An operator's request waits for its turn.
LEMMA OperatorTurn == ASSUME Known, TurnInv, Operator PROVE TurnInv' /\ Begun' = Begun
<1>1. disk' = disk /\ Op' = Op
  BY DEF Operator, agentVars, Op
<1>2. CASE slot' = slot /\ operations' = operations
  BY <1>1, <1>2, TurnKept DEF InProgress
<1>3. ASSUME NEW action, NEW target, NEW version, NEW before, NEW wheel, ~ InProgress,
             slot' = NewOperation(action, target, version, before, wheel), slot' # None, operations' = operations + 1
      PROVE  TurnInv' /\ Begun' = Begun
  <2>1. slot'.state = "REQUESTED" /\ operations \in Nat
    BY <1>3 DEF NewOperation, Known, ServerTyped
  <2>2. InProgress'
    BY <1>3, <2>1, StatesOfOperations DEF InProgress
  <2> QED BY <1>1, <1>3, <2>1, <2>2 DEF TurnInv, Begun, Op
<1>4. ServerTyped' /\ None \notin Slots
  BY OperatorTyped, NoneIsNoData DEF Known
<1>5. CASE RequestUpgrade
  <2>1. CASE UpgradeAllowed(intent)
    <3>1. slot' = NewOperation("UPGRADE", intent, Version(intent), latest, None) /\ operations' = operations + 1
      BY <1>5, <2>1 DEF RequestUpgrade
    <3>2. slot' # None
      <4>1. intent \in Release /\ latest \in Versions \union {None}
        BY <1>5 DEF RequestUpgrade, Known, ServerTyped, Optional
      <4>2. NewOperation("UPGRADE", intent, Version(intent), latest, None) \in Slots
        BY <4>1, NewOperationTyped DEF Known, ServerTyped, Versions, Optional, Host!Actions
      <4> QED BY <1>4, <3>1, <4>2
    <3> QED BY <1>3, <2>1, <3>1, <3>2 DEF UpgradeAllowed
  <2>2. CASE ~ UpgradeAllowed(intent)
    BY <1>2, <1>5, <2>2 DEF RequestUpgrade
  <2> QED BY <2>1, <2>2
<1>6. CASE RequestRollback
  <2>1. ~ InProgress
    BY <1>6, StatesOfOperations DEF RequestRollback, RollbackAllowed, InProgress
  <2>2. slot \in Slots /\ slot.previous # None /\ slot.previousVersion # None
    BY <1>6 DEF RequestRollback, RollbackAllowed, Known, ServerTyped
  <2>3. NewOperation("ROLLBACK", slot.previous, slot.previousVersion, slot.version, slot.target) \in Slots
    BY <2>2, SlotFields, NewOperationTyped DEF Known, ServerTyped, Optional, Host!Actions
  <2> QED BY <1>3, <1>4, <1>6, <2>1, <2>3 DEF RequestRollback
<1> QED
  BY <1>2, <1>5, <1>6 DEF Operator, RequestUpgradeReads, lifecycleVars

\* A fetched operation begins its turn; nothing else of the host's changes.
LEMMA FetchBegins ==
  ASSUME Known, TurnInv, FetchOperation
  PROVE  TurnInv' /\ (Contract!Begin \/ (disk' = disk /\ Begun' = Begun))
<1>1. /\ disk.marker = None /\ ~ Switching /\ Settled /\ DiskTyped /\ DiskFields
      /\ running' = running /\ operations' = operations /\ slot' = slot /\ operations \in Nat
  BY DEF FetchOperation, Known, Before, PcInv, UpgradeInv, DiskInv, ResultHost, BusyInv, serverVars, lifecycleVars, ServerTyped
<1>2. InProgress' = InProgress
  BY <1>1 DEF InProgress
<1>3. CASE disk' = disk
  BY <1>1, <1>2, <1>3, TurnKept DEF Op
<1>4. CASE DeviceOperation # None /\ Understood
  <2> DEFINE op == [id |-> slot.id, action |-> slot.action, target |-> slot.target, version |-> slot.version]
             marker == [op |-> op, previous |-> disk.record, final |-> None]
  <2>1. disk' = [disk EXCEPT !.marker = marker]
    BY <1>4 DEF FetchOperation
  <2>2. InProgress /\ slot \in Slots /\ slot.id = operations
    BY <1>4 DEF DeviceOperation, Known, ServerTyped, SlotInv, InProgress
  <2>3. marker \in Host!UpdaterMarkers
    BY <1>1, <2>2, SlotFields DEF Host!UpdaterMarkers, Host!Requests, Versions, Settled
  <2>4. /\ disk'.marker = marker /\ disk'.marker # None /\ disk'.venv = disk.venv
        /\ disk'.candidate = disk.candidate /\ disk'.install = disk.install
    BY <1>1, <2>1, <2>3, NoneIsNoData DEF DiskTyped, Disks
  <2>5. /\ disk'.marker.final = None /\ disk'.marker.previous = disk.venv /\ disk'.marker.op.id = operations
    BY <1>1, <2>2, <2>4 DEF Settled
  <2> HIDE DEF marker, op
  <2>6. TurnInv'
    BY <1>1, <2>5 DEF TurnInv, Op
  <2>7. Begun = operations - 1 /\ Begun' = operations
    BY <1>1, <2>2, <2>4, <2>5 DEF Begun
  <2>8. Installed = disk.venv /\ UnderWay = None /\ Installed' = Installed /\ UnderWay' = UnderWay
    BY <1>1, <2>4, NoSwitch, StaysThere DEF Installed, Settled, Stays
  <2>9. Contract!Begin
    BY <1>1, <2>4, <2>5, <2>7, <2>8 DEF Contract!Begin
  <2> QED BY <2>6, <2>9
<1> QED BY <1>3, <1>4 DEF FetchOperation

\* An operation is forgotten with its turn over.
LEMMA ForgetEnds ==
  ASSUME Known, TurnInv, ForgetOperation
  PROVE  TurnInv' /\ Contract!Forget
<1>1. /\ pc = "unlink" /\ DiskTyped /\ disk' = [disk EXCEPT !.marker = None]
      /\ running' = running /\ operations' = operations /\ slot' = slot
      /\ operations \in Nat /\ (disk.marker # None => Op.id \in Nat)
  BY DEF ForgetOperation, Known, Before, serverVars, lifecycleVars, ServerTyped, DiskTyped, Disks,
     Host!UpdaterMarkers, Host!Requests, Op
<1>2. /\ disk'.marker = None /\ disk'.venv = disk.venv /\ disk'.candidate = disk.candidate
      /\ disk'.install = disk.install
  BY <1>1 DEF DiskTyped, Disks
<1>3. Finished /\ (InProgress => slot.id = operations /\ slot.id # Op.id) /\ InProgress' = InProgress
  BY <1>1 DEF Known, SlotInv, InProgress
<1>4. Begun' = Begun
  <2>1. CASE InProgress
    <3>1. operations = Op.id + 1
      BY <1>3, <2>1 DEF TurnInv, Finished
    <3> QED BY <1>1, <1>2, <1>3, <2>1, <3>1 DEF Begun, Finished, Op
  <2>2. CASE ~ InProgress
    <3>1. operations = Op.id
      BY <1>3, <2>2 DEF TurnInv, Finished
    <3> QED BY <1>1, <1>2, <1>3, <2>2, <3>1 DEF Begun, Finished, Op
  <2> QED BY <2>1, <2>2
<1>5. Installed' = Installed /\ UnderWay' = UnderWay
  BY <1>2, StaysThere DEF Stays
<1> QED BY <1>1, <1>2, <1>3, <1>4, <1>5 DEF TurnInv, Contract!Forget, Finished, Final

\* A release that stands is the one the host keeps, with no switch under way.
LEMMA AtRest ==
  ASSUME DiskTyped, DiskInv, NEW r, Stands(r)
  PROVE  Installed = r /\ UnderWay = None
<1>1. UnderWay = None
  BY NoSwitch DEF Stands
<1> QED BY <1>1, KeptInPlace DEF Stands

\* The result that is saved is the attempt's only one, and true.
LEMMA SaveFinalFinishes ==
  ASSUME Known, Host!SaveFinal, Begun' = Begun
  PROVE  Contract!Finish
<1>1. /\ pc = "saveFinal" /\ running' = running /\ DiskTyped /\ DiskInv
      /\ disk' = [disk EXCEPT !.marker.final = job.result] /\ disk.marker # None /\ Final = None
      /\ job.result # None /\ job.result \in Host!Results /\ Describes(job.result)
  BY DEF Host!SaveFinal, Host!Goto, Known, Before, PcInv, WorkInv, JobTyped, ResultHost, BusyInv, FinalInv, Working, Unfinished
<1>2. /\ disk'.marker = [disk.marker EXCEPT !.final = job.result] /\ disk'.venv = disk.venv
      /\ disk'.candidate = disk.candidate /\ disk'.install = disk.install
      /\ disk.marker \in Host!UpdaterMarkers
  BY <1>1 DEF DiskTyped, Disks
<1>3. disk'.marker \in Host!UpdaterMarkers /\ disk'.marker.final = job.result
  BY <1>1, <1>2 DEF Host!UpdaterMarkers
<1>4. disk'.marker # None
  BY <1>3, NoneIsNoData
<1>5. Installed' = Installed /\ UnderWay' = UnderWay
  BY <1>2, StaysThere DEF Stays
<1>6. Op.action \in {"UPGRADE", "ROLLBACK"}
  BY <1>2 DEF Host!UpdaterMarkers, Host!Requests, Host!Actions, Op
<1>7. job.result.state \in {"SUCCEEDED", "FAILED", "ROLLED_BACK", "ROLLBACK_FAILED"}
  BY <1>1 DEF Host!Results
<1>8. \A r : Stands(r) => Installed = r /\ UnderWay = None
  BY <1>1, AtRest
<1>9. /\ job.result.state = "SUCCEEDED" => Stands(Op.target)
      /\ job.result.state = "ROLLED_BACK" /\ Op.action = "UPGRADE" => Stands(Start)
      /\ job.result.state = "ROLLED_BACK" /\ Op.action = "ROLLBACK" => Stands(Op.target)
      /\ job.result.state = "FAILED" /\ Op.action = "UPGRADE" => Stands(Start)
      /\ job.result.state = "FAILED" /\ Op.action = "ROLLBACK" => Stands(Start) \/ Stands(Op.target)
  BY <1>1 DEF Describes, At
<1>10. Contract!Truthful(Op, Start, job.result)
  BY <1>6, <1>7, <1>8, <1>9 DEF Contract!Truthful
<1> QED
  BY <1>1, <1>2, <1>3, <1>4, <1>5, <1>10 DEF Contract!Finish, Contract!Unfinished, Op, Start, Final

\* Each step of the host is a step of the contract.
LEMMA HostContract ==
  ASSUME Known, Kept, RunInv, TurnInv, HostMoves, UNCHANGED <<serverVars, late>>
  PROVE  RunInv' /\ TurnInv' /\ [Contract!Next]_Contract!vars
<1>1. Before /\ ResultHost /\ operations' = operations /\ slot' = slot
  BY DEF Known, serverVars, lifecycleVars
<1>2. Moved
  BY <1>1, HostMoved
<1>3. InProgress' = InProgress
  BY <1>1 DEF InProgress
<1>4. CASE Host!SaveFinal
  <2>1. /\ disk.marker # None /\ disk.marker \in Host!UpdaterMarkers
        /\ disk'.marker = [disk.marker EXCEPT !.final = job.result]
    BY <1>1, <1>4 DEF Before, PcInv, WorkInv, Working, DiskTyped, Disks, Host!SaveFinal, Host!Goto
  <2>2. disk'.marker \in Host!UpdaterMarkers \union {None} /\ Op' = Op
    BY <2>1 DEF Kept, DiskTyped, Disks, Host!UpdaterMarkers, Op
  <2>3. disk'.marker # None
    <3>1. job.result \in Host!Results
      BY <1>1, <1>4 DEF Before, PcInv, WorkInv, JobTyped, Host!SaveFinal, Host!Goto
    <3>2. disk'.marker \in Host!UpdaterMarkers
      BY <2>1, <3>1 DEF Host!UpdaterMarkers
    <3> QED BY <3>2, NoneIsNoData
  <2>4. TurnInv' /\ Begun' = Begun
    BY <1>1, <1>3, <2>1, <2>2, <2>3, TurnKept
  <2>5. Contract!Finish
    BY <1>4, <2>4, SaveFinalFinishes
  <2> QED BY <1>2, <2>4, <2>5 DEF Moved, Contract!Next
<1>5. CASE ~ Host!SaveFinal
  <2>1. disk'.marker = disk.marker
    BY <1>1, <1>5, HostKeepsMarker DEF HostMoves
  <2>2. TurnInv' /\ Begun' = Begun
    BY <1>1, <1>3, <2>1, TurnKept DEF Op
  <2>3. UnderWay = None /\ Runs => running' \in {running, None, Installed}
    BY <1>1, KeptInPlace DEF Before, Runs, Host!Startable
  <2>4. CASE Stays /\ Runs
    <3>1. CASE running' = running
      BY <1>2, <2>1, <2>2, <2>4, <3>1 DEF Moved, Stays, Contract!vars
    <3>2. CASE running' # running
      <4>1. Contract!Run
        BY <2>1, <2>2, <2>3, <2>4, <3>2 DEF Stays, Contract!Run
      <4> QED BY <1>2, <2>2, <4>1 DEF Moved, Contract!Next
    <3> QED BY <3>1, <3>2
  <2>5. CASE Departs
    <3>1. Contract!Depart
      BY <2>1, <2>2, <2>5 DEF Departs, Contract!Depart, Contract!Unfinished, Unfinished, Final, Op
    <3> QED BY <1>2, <2>2, <3>1 DEF Moved, Contract!Next
  <2>6. CASE Commits
    <3>1. Contract!Commit
      BY <2>1, <2>2, <2>6 DEF Commits, Contract!Commit
    <3> QED BY <1>2, <2>2, <3>1 DEF Moved, Contract!Next
  <2>7. CASE Closes
    <3>1. Contract!Close
      BY <2>1, <2>2, <2>7 DEF Closes, Contract!Close
    <3> QED BY <1>2, <2>2, <3>1 DEF Moved, Contract!Next
  <2> QED BY <1>2, <2>4, <2>5, <2>6, <2>7 DEF Moved
<1> QED BY <1>4, <1>5

\* A step that moves nothing on the host and begins no turn is none of the contract's.
LEMMA Stutters ==
  ASSUME disk' = disk, running' = running, Begun' = Begun
  PROVE  UNCHANGED Contract!vars
BY DEF Contract!vars, Installed, UnderWay, Host!InstallPhase

\* The inductive invariant behind ImplementsInstallation.
ContractInv == ResultInv /\ RunInv /\ TurnInv

\* At the start the host keeps, and runs, the release installed by hand.
LEMMA InitContract == Init => ContractInv /\ Contract!Init
<1> SUFFICES ASSUME Init PROVE ContractInv /\ Contract!Init
  OBVIOUS
<1>1. /\ disk.marker = None /\ disk.install = None /\ disk.candidate = None /\ disk.venv = Bootstrap
      /\ running = Bootstrap /\ pc = "idle" /\ slot = None /\ operations = 0
  BY DEF Init, Host!HostInit, LifecycleInit
<1>2. RunInv /\ TurnInv
  BY <1>1 DEF RunInv, TurnInv
<1>3. Contract!Init
  BY <1>1 DEF Contract!Init, Installed, UnderWay, Begun, InProgress, Host!InstallPhase
<1> QED BY <1>2, <1>3, InitResult DEF ContractInv

\* Every step preserves it, and is one of the contract's or a stutter.
LEMMA ContractStep == ContractInv /\ [Next]_vars => ContractInv' /\ [Contract!Next]_Contract!vars
<1> SUFFICES ASSUME ContractInv, [Next]_vars
             PROVE  RunInv' /\ TurnInv' /\ [Contract!Next]_Contract!vars
  BY ResultInvariance DEF ContractInv
<1>1. Known /\ Before /\ RunInv /\ TurnInv
  BY HostBefore DEF ContractInv, ResultInv, HostInv, Typed, Known
<1>2. Kept
  BY ResultInvariance DEF ContractInv, ResultInv, HostInv, Typed, Kept
<1>3. ASSUME disk' = disk, running' = running, Free
      PROVE  RunInv'
  BY <1>1, <1>3, RunsOn DEF Runs
<1>4. ASSUME disk' = disk, running' = running, pc' = pc, job' = job
      PROVE  RunInv'
  BY <1>1, <1>4 DEF RunInv, Switching, Old, New
<1>5. ASSUME disk' = disk, slot' = slot, operations' = operations
      PROVE  TurnInv' /\ Begun' = Begun
  BY <1>1, <1>5, TurnKept DEF InProgress, Op
<1>6. CASE Operator
  <2>1. disk' = disk /\ running' = running /\ pc' = pc /\ job' = job
    BY <1>6 DEF Operator, agentVars
  <2> QED BY <1>1, <1>4, <1>6, <2>1, OperatorTurn, Stutters
<1>7. CASE Heartbeat \/ StoreDamaged \/ UNCHANGED vars
  <2>1. /\ disk' = disk /\ running' = running /\ pc' = pc /\ job' = job
        /\ slot' = slot /\ operations' = operations
    BY <1>7 DEF Heartbeat, HearVersion, StoreDamaged, agentVars, lifecycleVars, serverVars, vars
  <2> QED BY <1>4, <1>5, <2>1, Stutters
<1>8. CASE RequestFails
  <2>1. /\ disk' = disk /\ running' = running /\ pc' = "idle" /\ slot' = slot /\ operations' = operations
    BY <1>8 DEF RequestFails, serverVars, lifecycleVars
  <2> QED BY <1>3, <1>5, <2>1, Stutters DEF Free
<1>9. CASE LateReportArrives
  <2>1. PICK report \in late : DeviceReport(report)
    BY <1>9 DEF LateReportArrives
  <2>2. /\ report \in Reports /\ Backed(report) /\ slot' = SlotAfter(report) /\ operations' = operations
        /\ disk' = disk /\ running' = running /\ pc' = pc /\ job' = job
    BY <1>1, <1>9, <2>1 DEF LateReportArrives, DeviceReport, agentVars, Known, ServerTyped, SlotInv
  <2> QED BY <1>1, <1>4, <2>2, ReportTurn, Stutters
<1>10. CASE Interrupted \/ Restarted
  BY <1>1, <1>2, <1>10, HostContract DEF Interrupted, Restarted, HostMoves
<1>11. CASE (Host!LocalStep \/ Host!TimerFires) /\ UNCHANGED <<serverVars, late>>
  BY <1>1, <1>2, <1>11, HostContract DEF HostMoves
<1>12. CASE FetchOperation
  <2>1. running' = running /\ pc' \in {"idle", "run"}
    BY <1>12 DEF FetchOperation
  <2>2. RunInv'
    <3>1. disk'.venv = disk.venv /\ disk'.install = disk.install
      BY <1>1, <1>12 DEF FetchOperation, Before, DiskTyped, Disks
    <3> QED BY <1>1, <2>1, <3>1, RunsOn DEF Runs, Free
  <2> QED BY <1>1, <1>12, <2>1, <2>2, FetchBegins, Stutters DEF Contract!Next
<1>13. CASE Download
  <2>1. disk' = disk /\ running' = running /\ slot' = slot /\ operations' = operations /\ ~ Switching
    BY <1>1, <1>13 DEF Download, serverVars, lifecycleVars, Before, PcInv, UpgradeInv
  <2>2. Free
    BY <1>13 DEF Download, Host!Finish, Free
  <2>3. RunInv'
    BY <1>3, <2>1, <2>2
  <2> QED BY <1>5, <2>1, <2>3, Stutters
<1>14. CASE ReportStage \/ ReportFinal
  <2>1. PICK report \in Reports : Backed(report) /\ (slot' = slot \/ slot' = SlotAfter(report))
    BY <1>1, <1>14, SentReports
  <2>2. /\ operations' = operations /\ disk' = disk /\ running' = running
        /\ pc' # "saveFinal" /\ Free
    BY <1>1, <1>14, SentReports
  <2> QED BY <1>1, <1>3, <2>1, <2>2, ReportTurn, Stutters
<1>15. CASE ForgetOperation
  <2>1. running' = running /\ pc' = "idle"
    BY <1>15 DEF ForgetOperation
  <2>2. disk'.venv = disk.venv /\ disk'.install = disk.install
    BY <1>1, <1>15 DEF ForgetOperation, Before, DiskTyped, Disks
  <2>3. RunInv'
    BY <1>1, <2>1, <2>2, RunsOn DEF Runs, Free
  <2> QED BY <1>1, <1>15, <2>3, ForgetEnds DEF Contract!Next
<1> QED
  BY <1>6, <1>7, <1>8, <1>9, <1>10, <1>11, <1>12, <1>13, <1>14, <1>15 DEF Next, Updater

\* Through every interruption and every lost or late message the host of
\* agent-updater.py does what Installation promises: operations in order and once
\* each, at most one move of the release for each, and one result that is true.
THEOREM InstallationImplemented == Spec => ImplementsInstallation
<1>1. Spec => Contract!Init /\ [][Contract!Next]_Contract!vars
  BY InitContract, ContractStep, PTL DEF Spec
<1> QED BY <1>1 DEF ImplementsInstallation, Contract!Spec

\* What the contract keeps: a switch that is open goes to the target of the attempt.
GoodInv ==
  /\ Contract!KeepsGoodRelease
  /\ disk.marker # None /\ UnderWay # None => UnderWay.to = disk.marker.op.target

\* It follows from the contract, and from the form of the marker.
LEMMA GoodStep == DiskTyped /\ GoodInv /\ [Contract!Next]_Contract!vars => GoodInv'
<1> SUFFICES ASSUME DiskTyped, GoodInv, [Contract!Next]_Contract!vars PROVE GoodInv'
  OBVIOUS
<1> USE DEF GoodInv, Contract!KeepsGoodRelease
<1>1. CASE Contract!Begin
  BY <1>1 DEF Contract!Begin
<1>2. CASE Contract!Depart
  BY <1>2 DEF Contract!Depart
<1>3. CASE Contract!Commit
  BY <1>3 DEF Contract!Commit
<1>4. CASE Contract!Close
  BY <1>4 DEF Contract!Close
<1>5. CASE Contract!Run
  BY <1>5 DEF Contract!Run
<1>6. CASE Contract!Finish
  <2>1. /\ disk.marker # None /\ disk'.marker = [disk.marker EXCEPT !.final = disk'.marker.final]
        /\ Installed' = Installed /\ UnderWay' = UnderWay
    BY <1>6 DEF Contract!Finish, Contract!Unfinished
  <2>2. disk.marker \in Host!UpdaterMarkers
    BY <2>1 DEF DiskTyped, Disks
  <2>3. disk'.marker.op = disk.marker.op /\ disk'.marker.previous = disk.marker.previous
    BY <2>1, <2>2 DEF Host!UpdaterMarkers
  <2> QED BY <2>1, <2>3
<1>7. CASE Contract!Forget
  BY <1>7 DEF Contract!Forget
<1>8. CASE UNCHANGED Contract!vars
  BY <1>8 DEF Contract!vars
<1> QED BY <1>1, <1>2, <1>3, <1>4, <1>5, <1>6, <1>7, <1>8 DEF Contract!Next

\* So at any instant the release the host keeps is one whose service can run, and
\* while an operation is attempted it is the one it started from or the target.
THEOREM GoodReleaseKept == Spec => []Contract!KeepsGoodRelease
<1>1. Contract!Init => GoodInv
  BY TheFirstReleaseWorks DEF Contract!Init, GoodInv, Contract!KeepsGoodRelease
<1>2. HostInv => DiskTyped
  BY DEF HostInv, Typed
<1>3. Contract!Spec /\ []HostInv => []GoodInv
  BY <1>1, <1>2, GoodStep, PTL DEF Contract!Spec
<1>4. GoodInv => Contract!KeepsGoodRelease
  BY DEF GoodInv
<1> QED BY <1>3, <1>4, HostInvariant, InstallationImplemented, PTL DEF ImplementsInstallation
=============================================================================
