# SkyBeat in TLA+

SkyBeat watches a fleet of GPU machines. An agent on each machine sends a
heartbeat every 30 seconds; a FastAPI server stores it in MySQL; a worker
process finds the machines that have fallen silent, opens incidents and sends
alerts by e-mail and SMS; an updater on each machine installs new agents when an
administrator asks for it.

This directory holds TLA+ models of that code, TLC configurations that check
them on small instances, and proofs, checked by TLAPS, of what holds for every
value of the constants. `PROJECT.json` is the index: which component each module
models, which source lines each definition stands for, what each run checks, for
each property a plausible bug in the code that breaks it, the hazards of the
code and the theorems.

Paths below are relative to `src/`.

## 1. The system

### 1.1 Components

| Component | State it keeps | Operations | What makes it hard |
|---|---|---|---|
| Availability (`server/app/health`) | `devices.availability_state`, `last_seen_at`, `monitoring_started_at`, AVAILABILITY incidents, alert events | `sweep`, `evaluate_device`, `accept_heartbeat` | a sweep of many transactions interleaved with heartbeats; outages that end before they are noticed |
| GPU confirmation (`server/app/gpu`) | confirmed state, two streaks, last sample, GPU incidents | `evaluate_gpu_observation`, `accept`, `reset_for_device_offline` | consecutive samples across gaps, outages and policy changes |
| Notification queue (`server/app/notifications/service.py`) | deliveries with status, lease, attempts | `recover_stuck`, `claim_due`, `record_result`, `process_due`; supersession by recovery and by an outage | leases, slow and dying workers, unlocked reads, at-least-once delivery |
| Providers (`notifications/email.py`, `sms.py`) | none | `send` with four outcomes | an answer says little about delivery |
| Notification policy (`notifications/configuration.py`, `management.py`) | settings and recipients per project and device | `update_project`, `update_device`, `reset_device`, the snapshot of an event | settings and recipients are read in two statements |
| Heartbeat ingestion (`server/app/heartbeats`) | receipts, samples, latest row, rate-limit windows | `accept` | retries and reordering; one transaction drives two incident machines |
| Devices (`server/app/devices`) | device rows, projects, GPU policy, monitoring switch | `enroll`, `rename`, `move`, `set_enabled`, `set_gpu_policy` | policy and switch change under running confirmations |
| Credentials (same files) | at most two live credentials per device | `rotate`, `revoke`, `authenticate` | overlap, expiry, races of two rotations |
| Enrolment (`server/app/enrollment`) | one-time tokens, verification receipts | `create_intent`, `exchange`, `verify_receipt`, `revoke_unused`, `delete_unused` | two hosts with one token; a lost answer |
| Agent lifecycle (`server/app/lifecycle`) | one operation slot per device | `request_upgrade`, `request_rollback`, `device_operation`, `device_report` | repeated and late reports; the slot is reused |
| Updater (`scripts/agent-updater.py`, installer) | two marker files, two virtual environments | `upgrade`, `rollback`, `recover_install` | power loss between any two writes |
| Releases (`server/app/releases`) | registered archives, the active one | `import_candidate`, `register`, `activate`, lookups | activation while devices fetch |
| Log store (`server/app/logs`) | deduplicated entries per source | `accept`, `recent`, `near`, `prune_expired` | pruning, caps and cursors in parallel |
| Agent runtime (`agent/.../runtime.py`, `main.py`, `telemetry.py`) | tasks, samplers | heartbeat and log loops, shutdown | cancellation, bounded subprocesses |
| Agent transport (`agent/.../transport.py`) | next send time, outage delay | `send` with attempts, pauses after refusals | pauses against the server's thresholds |
| Agent log watch (`agent/.../log_watch.py`, `collectors`) | a pause per source, one child process | the round over the sources, collection, upload | retries of overlapping snapshots; a child that will not end |
| Worker loop (`server/app/worker.py`) | three deadlines | sweep, deliver, prune on one thread | one slow job delays the others |
| Users and roles (`server/app/users`) | one row per address, with role and Google subject | `bootstrap_owner`, `create_user`, `update_user` | the first owner is created twice; a request outlives its role |
| Sign-in (`server/app/dashboard/service.py`, `api/auth.py`) | one-time logins, sessions | `begin_login`, the callback in three transactions, `authenticate_session`, `logout` | a callback repeated, or finished after the account changed |
| Dashboard reads (`server/app/dashboard/read.py`) | none: cursors travel with the reader | lists, overview, history | rows move between two pages |

`PROJECT.json` lists all parts, with those outside the models and the reason.

### 1.2 How they interact

```
 agent --heartbeat--> HeartbeatService.accept -- one transaction:
                        authenticate (locks the device row)
                        receipt lookup -- repeat: answer, no effect
                        AvailabilityService.accept_heartbeat
                             -- overdue: GPUIncidentService.reset_for_device_offline
                        GPUIncidentService.accept
                        receipt, sample, latest row
 worker (one thread) -- every 5 s:  sweep = list ids | evaluate each, one transaction each
                     -- every 2 s:  process_due = recover | claim | (send | record)*
                     -- every 60 s: prune logs
 administrator ------ set_enabled, set_gpu_policy, ... (locks the device row)
 incidents ---------- events and deliveries in the same transaction as the incident
 updater (per host) - device_operation, archive, device_report
installer (per host) exchange (token -> credential), verify_receipt
agent log cycle ---- uploads per source; refused or lost ones come again next cycle
browser ------------ one transaction admits the session and gives it its role,
                     another does the work
```

Shared state is the database only. MySQL runs at READ COMMITTED: a plain SELECT
sees what is committed and takes no lock; SELECT ... FOR UPDATE locks. A
transaction that takes the lock of the row it decides on before it reads
anything is one atomic action in the models. Where the code reads without a
lock and writes later, the model has two actions and everything else in between.

### 1.3 What would make each component correct

* Availability: OFFLINE, an open incident and a DEVICE_OFFLINE event come and go
  together; no outage is lost or invented; silence is found, also after a crash.
* GPU confirmation: an incident opens and closes only after two fresh samples;
  confirmed state, incidents and queued alerts agree.
* Notifications: no more provider calls than attempts and no more attempts than the
  budget; a recorded outcome or end is final; every alert ends; an alert that is
  no longer true is not sent for the first time.
* Alerting as a whole: every accepted change of state reaches each recipient
  entitled to it, or is superseded by the change that undoes it.
* Credentials and enrolment: a token makes at most one device or rotation; a
  device has at most two live credentials; the old one dies at the overlap's end;
  authority withdrawn while a request waits is seen when it is answered.
* Lifecycle and updater: after any power loss one usable agent is installed; the
  result on the disk and on the server is what happened; every operation ends.
* Log store: an entry is stored once, the cap per source holds, a reader that
  follows cursors sees each surviving entry once, in order.
* Accounts and sign-in: one Owner, who stays; only the Owner makes and changes
  administrators; an account acts only for the identity bound to it; one login,
  one session.
* Dashboard: a list read to its end misses no row that kept its place; an alert goes
  where the console says it goes.
* Transport and runtime: a live agent is not declared OFFLINE by its own pauses;
  shutdown leaves no task or child behind.

## 2. The modules

| Module | Models | Kind |
|---|---|---|
| `OutageContract` | what both incident machines promise those who read the alerts | abstract specification |
| `Availability` | sweep, evaluation, heartbeats, switch, incidents and events | specification |
| `GPUHealth` | confirmation, policy, incidents, the queued alert | specification |
| `Notifications` | queue, workers, provider answers, supersession | specification |
| `Releases`, `AgentLifecycle` | the release registry; the operation slot of a device | component |
| `AgentHost` | updater and installer of one host, one durable step at a time | component |
| `Upgrade` | the three above with the messages between them | composition |
| `Installation` | what a host promises the operator who upgrades it or takes it back | abstract specification |
| `Credentials`, `Enrollment` | projects, devices and credentials; one-time enrolments | component |
| `AgentSender` | the agent's heartbeat sender: attempts, answers, pauses | component |
| `Identity` | the three above with the installers and the heartbeat endpoint | composition |
| `LogStore`, `LogWatch` | stored entries, retention, pages; the agent's log cycle | component |
| `Logs` | the two above with the upload endpoint and a reader | composition |
| `Ordered` | what a query with ORDER BY and LIMIT returns, as a set | operators |
| `Columns`, `Accounts`, `Sessions` | accounts and roles; logins and sessions | component |
| `Fleet`, `DashboardRead` | projects, devices and incidents as listed; lists, alerts, history | component |
| `NotificationPolicy` | recipients of projects and devices, and the event that reads them | component |
| `Console` | the five above behind the dashboard's endpoints and the command line | composition |
| `MC...` | instances for TLC: the sets, the bounds, symmetry | model checking |
| `...Proofs` | theorems and the lemmas they rest on | proofs |

A component module declares the state of one part and an action for each of its
operations, without `Next`; a composition adds who calls it, what may be lost on
the way, and what the rest does meanwhile.

### 2.1 Availability

State: one function over devices for each column the code decides on. An
incident is a record with its `open` flag and the event kinds written for it; the
rows of a device form a sequence, oldest first. `sent` and `receipts` are the
heartbeats an agent has sent and those the server has a receipt for; a sent
heartbeat without a receipt may arrive at any time, in any order, again and again,
or never. `sweepQueue` is the list of ids the worker has read and not yet
evaluated.

| Action | Code |
|---|---|
| `SweepBegin`, `EvaluateDevice` | the first transaction of `sweep`; `evaluate_device`, a transaction per device that reads the row again under its lock |
| `ReceiveHeartbeat` | `HeartbeatService.accept`: authentication refuses a disabled device, a receipt answers a repeat, otherwise `accept_heartbeat` |
| `AcceptHeartbeat` | in this order: declare an overdue outage, move the baseline, close the outage |
| `EnrollDevice`, `SetEnabled` | the columns enrolment and the switch write |
| `WorkerCrash` | an exception or a signal in the middle of a sweep; the successor starts a new one |
| `Tick` | the database clock |

Timestamps are modelled as ages that stop at `OfflineAfter`. The code uses a
timestamp only in comparisons of its distance from now with the two thresholds,
so all ages from `OfflineAfter` on behave alike, and the model needs no bound on
time. Several ticks may pass before a sweep: its real period of 5 s is not used.

### 2.2 GPUHealth

State: the policy, the confirmation columns, the incidents, whether an alert
about a degradation is queued, and the history variable `lastObserved` (what the
last heartbeat was judged to be, which no code reads). `EvaluateGPUObservation`
is the pure function of the same name; streaks stop at 2 because the code only
asks whether they reach 2, so its "equals 2" is "was below 2 and is 2" here.
`AcceptHeartbeat` applies it to the row, already reset when the same transaction
found the device overdue, and then does what `accept` does to the incidents. The
test of `accept` on `availability_state` never fails where the function is
called, since `accept_heartbeat` has just written ONLINE, and has no counterpart.
A sweep resets a silent device each time it meets it. The monitoring switch is
left out: it only keeps sweeps and heartbeats away, and both are optional here.

### 2.3 Notifications

State: the delivery row (`status`, `attemptCount`, `lease`, `superseded`, the
date it waits for, its expiry), its attempt rows, the incident's end, the
transaction that is superseding the delivery, and each worker's place in
`process_due`. A lease token is the number of the attempt it belongs to: the code
draws a new one for each attempt and compares it for equality only. `sent` and
`accepted` are history variables: the calls made to the provider, and the attempts
whose call it accepted. Whether a message reaches anybody is in no variable: an
acceptance proves no receipt (`docs/ALERTING.md:757-759`), and a call that was not
accepted may have delivered its copy.

| Action | Code |
|---|---|
| `RecoverStuck`, `ClaimDue`, `RecordResult` | `recover_stuck`, `claim_due`, `record_result`: one transaction each, on locked rows |
| `Send` | the provider call, with no lock held, with any outcome |
| `RecoveryReads`, `OfflineReads` | the SELECTs of `_close_for_recovery` and `reset_for_device_offline`; neither locks a delivery |
| `SupersessionWrites` | the flush, which writes only the columns changed on what was read, and the commit |
| `SupersessionAborts`, `WorkerCrash` | failures at any point |
| `DateElapses`, `Expires` | a backoff, a lease or the 24 hours run out |

The lease may run out while its worker is only slow: the claims of a batch share
one lease and are sent one after the other. A recovery has flushed the incident
row before it reads the deliveries, so it holds that row's lock; the claim joins
the incident FOR UPDATE SKIP LOCKED and passes over its deliveries
(`IncidentLocked`). The reset of an OFFLINE device has no such lock. Claims of a
batch are sent in any order, which includes the code's. Each delivery has an
incident of its own: deliveries of one incident are treated alike by one
transaction, and interact nowhere else.

### 2.4 OutageContract

Outages of a device are numbered; each is raised once, cleared at most once,
never before the previous one is cleared, and one that is noticed only when the
device is heard again is raised and cleared in one step. `Availability` maps
`down` to OFFLINE, `raised` and `cleared` to the incidents by their events;
`GPUHealth` maps all three to its incidents. Both are checked (`ImplementsContract`)
and proved (`ContractImplemented`) to implement it.

### 2.5 Upgrade: Releases, AgentLifecycle, AgentHost

The host's `disk` has the four environments, the three version records, the
installer's marker and the updater's. Each action of `AgentHost` is one rename, one
fsynced write, one removal or one command of `scripts/agent-updater.py` or the
installer library; `pc` says which comes next. A tree that is being removed or built
is `Torn`. `PowerLoss`, `UpdaterKilled` and `InstallerKilled` may come between any
two steps; after a power loss the host boots, the service starts what is in `venv`,
and the timer starts the updater afresh. Any command of a switch may fail, too, and each
place that catches the failure is an action of `StepFails`: a stop that fails may have
stopped the service or not (`MaybeStopped`). systemd restarts a service that fails
(`ServiceFails`), a stopped one stays stopped.

| Action | Code |
|---|---|
| `VerifyBundle`, `InstallPackage`, `BuildEnvironment`, `StageSwitch`, `InstallMarker`, `SwitchPackage`, `StartNew` | `upgrade` and the installer it runs |
| `RollbackBegin` ... `RollbackRecheck` | `rollback` |
| `InstallerStepFails`, `RollbackStepFails` | the installer's trap; the `except` of `rollback`, up to its restart |
| `AcceptStepFails` | a move of the acceptance fails: `rollback` and `recover_install` go on to restore |
| `RestoreStepFails` | `restore_candidate` returns False, with whatever it has done so far |
| `RecoverAtRest`, `RecoverSwitched`, `RecoverPrevious`, `Accept...`, `Restore...` | `recover_install` with `restore_candidate` and `accept_switch` |
| `FetchOperation`, `Download`, `ReportStage`, `ReportFinal`, `ForgetOperation` | the requests of `main`, any of which may fail or lose its answer |
| `RequestUpgradeReads`, `RequestUpgrade` | the registry is read first, then the device is locked |
| `DeviceReport` | `device_report`: repeats, order, combinations, then the slot |
| `Register`, `Activate`, `LoseObject` | the registry; an archive that is damaged later |

A report that the updater has given up may still be in `late` and reach the server
later. Assumed: the installer is not run by hand beside the updater; versions, wheels
and archives are one to one, as the registry keeps them; the updater's credential is
accepted. Unit files follow the version records and are left out.

`Installation` has no disk, timer or message: the release the host keeps, the one that
runs, the switch that is open, the operation being attempted, and how many have been. An
operation is begun in its turn, may depart from the old release, may commit to the new
one if that runs, and is finished once, with a result that is true of the release kept.
`Upgrade` implements it (`ImplementsInstallation`) under this mapping:

| `Installation` | `Upgrade` |
|---|---|
| `installed` | `venv.candidate` while there is one and the installer's marker stands, else `venv`; so the commit is the rename of `venv.candidate` on acceptance, and the environment that is not yet accepted is never the one the host keeps. When `rollback` keeps a target it could not undo, the commit is the removal of the marker |
| `running` | the release whose service runs |
| `switch` | the installer's marker in phase SWITCHING or SWITCHED, unless the old environment is in place |
| `attempt` | the updater's marker: operation, starting release, result |
| `turn` | the id in that marker; without a marker, the operations requested, less one that still waits in the slot |

A power loss is a step of `running`, or none; a kill, a lost answer and a late report are
stutters, and so is a failed command that has not stopped the service.

### 2.6 Identity: Credentials, Enrollment, AgentSender

| Action | Code |
|---|---|
| `EnrollInSession`, `RotateInSession`, `Revoke` | the functions of the same names; a rotation shortens the earlier credentials to the overlap |
| `RotateReads`, `Rotate` | `rotate` resolves the device before it locks it |
| `ExchangeBegin`, `ExchangeCommit`, `ExchangeAborts` | `exchange` reads the enrolment under its lock and then, in the same transaction, takes that of the device; the two steps are apart, and the enrolment stays locked between them |
| `ExchangeEnds` | the answer reaches the installer, or is lost after the commit |
| `AgentSwitched`, `ReceiptAsked` | the new agent is configured and started; the installer polls for its first heartbeat |
| `CredentialRead`, `HeartbeatAnswered` | authentication reads the credential, waits for the device lock, reads both again, then the limiter and the receipt decide the status |
| `Attempt`, `Receive`, `ConnectionFails`, `DeadlinePasses` | `HeartbeatSender.send` |

What an accepted heartbeat does to availability is in `Availability`; here it moves
`seen` and the limiter's count, which also counts a heartbeat whose transaction then
fails (`HeartbeatFails`). A crash of an agent between two attempts is the same as its
deadline.

### 2.7 Logs: LogStore, LogWatch

Entries have a number (`id`), an origin in the journal (`hash`), a source and two
times. `AcceptReads` and `AcceptCommits` are the read of the known hashes and the
writes of one transaction, under the device lock; retention takes no such lock:
`PruneSelects` reads a batch and `PruneDeletes` deletes it. `Page` is `recent` with
its cursor, `Near` the diagnostics of an incident. `LogWatch` is the round over the
sources, the bounded journalctl process, the truncation of what it printed, and the
upload with its attempts and pauses. The upload limiter is a refusal that may come at
any time. A tick is longer than the retention, the journal's window and the
tolerances of the clock, so that one tick separates what is in each from what is not.
Entries have a time, as the journal gives each one; the store takes an entry
without one and does not check it (`InTime`).

### 2.8 Console: Accounts, Sessions, Fleet, NotificationPolicy, DashboardRead

A request of the dashboard is two transactions: `ChangeAdmitted` authenticates the
session (which may bind its Google subject to the account) and keeps the role it saw;
`RequestEnds` does the work, with that role, whatever has become of the account.
`OwnerCommand` and `OwnerInserted` are the two halves of `bootstrap_owner`, between
which another may run: the unique `owner_guard` column decides. A login is four
steps: begun, consumed, resolved, and a session issued, any of which may be the last.

Names, identifiers and instants are numbers, so that a list is ordered by them
(`DeviceKey`, `IncidentKey`, `Before`). Keys tell rows apart, so a page is a set of
rows: its order is that of their keys. `reading` is a reader between two pages: the
cursor, the pages seen, and, as history, the rows that have kept their place and still
match since the first page (`steady`). `AlertBegins`, `ReadAgain` and `AlertEnds` are
the statements of an event transaction that reads the policy; the device is locked
during it (`DeviceFree`), the project is not. The SMS recipients of an
event come from the settings alone and are left out. `DownsampleHistory` is an operator,
checked on all histories of up to five samples.

## 3. What the runs check

| Run | Instance | Checks | Distinct states |
|---|---|---|---|
| `availability` | two devices, 2 and 1 heartbeats, thresholds 1 and 2, one crash | 4 invariants, 2 action properties, one liveness property, the contract | 314,395 |
| `availability_reenable` | the same | `ReenablingStartsFreshPeriod`, violated | |
| `gpu_health` | one device, two GPUs, three policies, four reports, gap 1, OFFLINE at 3, three incidents | 4 invariants, one action property, the contract | 2,058 |
| `gpu_health_lost_failure` | the same | `ConfirmedFailureHasIncident`, violated | |
| `notification_queue` | one GPU_DEGRADED delivery, two workers, two attempts, one failure | 4 invariants, 2 action properties, one liveness property | 58,384 |
| `notification_batch` | a DEVICE_OFFLINE delivery and a recovery message, two workers (symmetric), batches of two | one invariant, one action property | 523,969 |
| `notification_retry_after_recovery` | one DEVICE_OFFLINE delivery, one worker | `NoRetryAfterRecovery`, violated | |
| `upgrade` | one host, two releases, three operations, two faults | 4 invariants, one liveness property, the installation | 194,514 |
| `upgrade_fields` | the same without faults, with the fields the server sends | `OperationsAreTakenUp`, violated | |
| `identity` | two hosts, one enrolment, two devices, three credentials, two attempts, three operations, one fault | 2 invariants, one action property | 2,303,745 |
| `logs` | two sources that overlap, uploads of two entries, a cap of one row, batches of one, two cycles, one fault | 2 invariants, one action property | 2,031,893 |
| `console` | three addresses, four identities, two devices and projects, pages of one row, four operations | one invariant, 2 action properties | 1,122,665 |

What the passing runs show:

* `availability`. However heartbeats, switches and half-finished sweeps
  interleave, OFFLINE, the open incident and the events agree
  (`OfflineIffOpenIncident`, `EventsMatchIncident`); a device reported OFFLINE
  has been silent for the whole threshold (`OfflineMeansSilent`); repeats cause
  no second recovery (`RecoveriesNeedNewHeartbeats`); an outage that ends before
  a sweep saw it is still opened and closed (`NoOutageForgotten`); a disabled
  device does not change, even if the sweep had its id (`DisabledIsFrozen`); a
  silent device that stays enabled is found, also when a worker dies
  (`SilenceIsDetected`).
* `gpu_health`. Confirmed state, streaks, incidents and the queued alert agree
  after every sequence of reports, gaps, outages and policy changes, and each
  opening and closing follows two fresh samples of the same kind.
* `notification_queue`. Calls that have been or may still be made to the provider never
  exceed the attempts, and these never exceed `MAX_ATTEMPTS`, although the claim does
  not look at the budget (`MessagesBounded`); attempt rows match the delivery
  (`HistoryMatchesDelivery`); a delivery says SUCCEEDED only if the provider accepted its
  last attempt, which is all that it means (`SuccessIsReal`); late results rewrite nothing
  (`OutcomesAreFinal`, `FinishedIsFinal`); every alert ends (`EveryDeliveryEnds`).
* `notification_batch`. The lock on the incident keeps a claim and a recovery
  apart: an alert cancelled by a recovery has no attempt without outcome, and an
  alert that had no attempt when the recovery committed never gets one.

* `upgrade`. Wherever power or a command fails or a process is killed, the host has an
  intact environment in place or retained (`AgentIsNeverLost`), and once nothing is under
  way VERSION names what is installed, and what else is on disk is what was retained, or
  what a rollback has left whose own recovery failed (`SettledDiskIsConsistent`). The result the
  updater keeps describes the host, and so does the result the server holds
  (`FinalResultIsTrue`); the upgrade and the rollback that are offered can be done
  (`OffersAreReal`); an operation ends unless the host is in one of three states it
  does not leave by itself (`OperationsEnd`, see `Stranded`). Put together, the host
  attempts operations in order and once each, moves its release at most once for each and
  only to one that runs there, and ends each with one true result
  (`ImplementsInstallation`). Here every release can run; the theorem covers those that
  never do. This run serves an
  operation without `failure_detail`: with it the updater would do nothing, which is
  what `upgrade_fields` shows.
* `identity`. However rotations, exchanges, expiry and revocations race, a device has
  two live credentials at most, and one that outlasts the overlap
  (`OneLastingCredential`); a token issues one credential, for its device, before it
  expires, and none once revoked or deleted (`TokensIssueOnce`); a heartbeat that waited
  is judged by the credential and the switch as they are when it is answered
  (`HeartbeatsAreAuthorised`).
* `logs`. Repeated, overlapping and late uploads store an entry once and keep the cap
  (`EntriesAreStoredOnce`); rows go only by age or surplus (`OnlyOldRowsGo`); the pages
  of a reader and the diagnostics of an incident are exact although uploads and
  retention run between two pages (`ReadsAreExact`).
* `console`. With requests that outlive the role they were admitted with, two local
  bootstraps and repeated logins, there is one Owner who stays, and administrators are
  the Owner's doing (`AccountsAreGuarded`); lists and histories are exact while
  rows move (`ListsAreExact`); an alert goes where its policy says, unless the project's
  policy was replaced while the alert was raised (`AlertsFollowOnePolicy`).

### Bounds, and why they are enough

* Two devices share only the sweep and the crash budget; a third adds no new
  relation. Two heartbeats allow an outage, a recovery and a second outage, and a
  repeat and a reordering of two ids. One crash interrupts a sweep; a second
  interrupts another one, from a state of the same kind.
* Thresholds 1 and 2 give each of ONLINE, SUSPECT and OFFLINE one age. Gap 1 and
  OFFLINE at 3 leave an age that is too old to confirm and not yet OFFLINE.
* The policies are: off, any GPU, and two GPUs with a named one. One report is
  good under both monitoring policies, one under the first only, one is a failure
  and one is UNKNOWN although reliable. Three incidents leave room for a change
  after a closed incident and after another one.
* Two attempts include the first, the last, and a retry in between; a batch of two
  includes a first and a second claim under one lease. Two workers are enough for
  one to be slow while the other takes over.
* `upgrade`: two releases allow an upgrade, a rollback of it and a second upgrade. Three
  operations are the fewest with which a switch finds an environment already retained,
  and let a report of one meet the slot of the next. Two faults are the fewest that leave
  the removal of that environment half done, or strike the recovery from a power loss.
  Larger instances pass as well: a new release that never becomes healthy, with three
  operations and two faults (0.3 million states) and with two operations and three faults
  (1.0 million); three releases of which the newest never does, with two operations
  (1.7 million), and with three for all but `OperationsEnd` (4.8 million).
* `identity`: two hosts compete for one token, and one of them replaces the agent of the
  other. Three credentials are the one before, the one of a rotation and the one of an
  exchange. All lifetimes are one tick: an intent, a receipt, an overlap and the OFFLINE
  threshold each end at one. Two attempts include a retry; a limit of one heartbeat
  makes it meet the limiter. Without heartbeats, two enrolments, four operations and
  two ticks pass as well.
* `logs`: the journal of the second source holds the entries of the first, as in the
  code. Two entries fill an upload, exceed the cap and need two retention batches and
  two pages. Two cycles let a late attempt of the first arrive after the second.
* `console`: rows differ in project, name and identifier; a page of one row has a page
  break after each. Four operations are the longest chains of interest: two requests
  that race after a login, or a reading during which three things change.
* `MaxHeartbeats`, `MaxCrashes`, `MaxIncidents`, `MaxFailures`, `MaxOperations`,
  `MaxFaults`, `MaxTime`, `MaxCycles`, `MaxDevices`, `MaxCredentials`, `MaxEnrollments`,
  `MaxEntries` and `MaxTransactions` exist for TLC only. The theorems hold for all values of
  those that appear in the modules they are about.

### Fairness

`Availability`: weak fairness of the clock, of `SweepBegin` and of each
`EvaluateDevice`: `run_loop` starts a sweep every few seconds for ever and goes
through its list; a crash ends the sweep and the container is restarted. Nothing
is assumed of agents, the network and administrators; `SilenceIsDetected` allows
the device to be heard, or disabled, instead.

`Notifications`: weak fairness of each worker step, since the loop polls for ever
and provider calls have a timeout, of dates passing, and of the end of an open
transaction. No fairness of `Expires`, crashes or supersession.

`Upgrade`: weak fairness of the updater's next step (the timer of
`skybeat-updater.service` starts it for ever, each command has a timeout), of the
boot after a power loss, and of `BrokenServiceFails`: a release that never becomes healthy
does not stay up either, and `deployment/systemd/skybeat-agent.service:13` restarts what is
in place. No fairness of operators, heartbeats or late reports; faults
are bounded, so requests are answered in the end.

The other compositions state no liveness property and no fairness. Deadlock is
checked in the runs of sections 2.1 to 2.5; none is found. In `identity`, `logs` and
`console` everything starts with an operation, a cycle or an attempt, whose number is
bounded, and the bounded system stops: their configurations say so.

### Where code and documents disagree

1. `availability_reenable`. `docs/ALERTING.md:286-296` says that the baseline is
   the later of `monitoring_started_at` and `last_seen_at` and that re-enabling
   starts a fresh period. `monitoring_baseline` (`server/app/health/service.py:50`)
   takes `last_seen_at` whenever there is one. A device that was heard once,
   disabled, and enabled much later is declared OFFLINE by the next sweep.
2. `gpu_health_lost_failure`. `docs/ALERTING.md:1233-1236` promises an incident
   after two fresh bad samples, and line 1413 asks a policy change to reset the
   confirmation. After a heartbeat with monitoring off, the confirmed state is
   NOT_MONITORED, and a degradation needs a confirmed OK
   (`server/app/gpu/service.py:68`): a GPU that is broken when monitoring is turned
   on never raises an incident until it has been good twice.
3. `notification_retry_after_recovery`. `docs/ALERTING.md:980` asks a recovery to
   "prevent further retries" of an alert in flight. `_close_for_recovery` reads the
   deliveries without a lock (`server/app/health/service.py:170`). If the attempt
   fails between that read and the flush, the delivery is put back to RETRY_WAIT,
   the recovery marks it superseded and leaves its status alone, and `claim_due`
   does not look at `superseded_at`: the outage alert goes out again after the
   recovery message.

4. `upgrade_fields`. The updater refuses an operation with a field outside a fixed set
   (`scripts/agent-updater.py:172-187`), and the server sends `failure_detail` with
   every operation (`server/app/lifecycle/service.py:80`). `docs/API_SPEC.md:2374-2376`
   lists "action, identifier, version, and digests" only, and the updater's test
   (`server/tests/test_agent_updater.py:20-37`) parses an operation without that field.
   Between this server and this updater no requested operation is ever begun.

Other behaviour met while modelling, which no document excludes and which the
properties leave room for:

* Power lost between the two renames of `restore_candidate`
  (`scripts/agent-updater.py:346`) leaves an intact host whose recovery raises every
  time (`HalfRestored`). A result whose answer was lost, and whose slot an operator has
  since reused, is refused for ever, and the updater never asks for the new operation
  (`ResultOrphaned`). An archive that is lost stops its operation
  (`ArchiveUnavailable`).
* ROLLBACK_FAILED may be reported of a host that the next recovery puts right; a
  rollback that succeeded just before power failed is reported as
  `previous_release_mismatch`. `ResultIsTrue` says what each result promises.
* A rollback has put its target in place, a health check misses or a command fails, and
  `restore_candidate` fails in its turn, at its stop say (`scripts/agent-updater.py:329`).
  The health check of line 579 finds the target running, line 580 removes the marker, and
  FAILED is reported with the target in place. The old environment stays as
  `venv.candidate` with `VERSION.candidate`: later upgrades are refused by the installer
  (`scripts/lib/skybeat_agent_install.sh:95`), later rollbacks by the updater, until somebody
  repairs the host. If the failure came after the renames of the acceptance had begun,
  VERSION.previous may be left naming the release in place. A rollback offered to that is
  refused for its version; the one that was cut short, if power failed before its result
  was saved, runs again in vain.
* A service whose environment has been given up goes on running until the next stop or
  restart.
* An upgrade to the release that is already installed succeeds at once and offers a
  rollback if there is a `venv.previous` (`scripts/agent-updater.py:439-452`), also when an
  interrupted removal has left only a part of it: `OffersAreReal` leaves room for it (`Torn`).
* `request_upgrade` stores the version last heard of as the previous one
  (`server/app/lifecycle/service.py:184`); a later rollback may be refused by the host.
* A REPLACE receipt is satisfied by a heartbeat of the agent being replaced. An exchange
  that meets a conflict aborts, and its token stays usable.
* Entries are deduplicated by device and source-independent hash: an entry uploaded
  first under `system_journal` never appears under its own source. An entry whose clock
  is too far ahead rejects its whole upload, in every cycle until it leaves the window.
* A session that is found no longer authorised is revoked and then the transaction is
  rolled back (`server/app/dashboard/service.py:132`): it is refused each time instead.
  The role of a request is the one read at its start, for that request only.
* A cursor of two long names outside ASCII exceeds `CURSOR_MAX_LENGTH`
  (`server/app/dashboard/read.py:108`) and the rest of the list cannot be reached
  (`CursorFits`). `gpu_problem` counts a device whose monitoring was just enabled and
  that no GPU filter lists. `overview` counts disabled devices, which lists leave out
  unless asked.
* The settings and the recipients of a project may come from two policies if one was
  replaced during the event's transaction: `changed` in `AlertsFollowOnePolicy`.

A consequence of the unlocked read that no document excludes: the reset of an
OFFLINE device may cancel a GPU_DEGRADED delivery that a worker has just claimed.
Its result is then not recorded, and the attempt row never gets an outcome.
`HistoryMatchesDelivery` states how far this goes.

## 4. What is proved

TLAPS checks the theorems below for every set of devices, GPUs, deliveries, workers,
hosts, releases, sources and accounts, every report, policy and query, every threshold
and every bound. The only assumptions are the named ones of the modules. Most are
checks in the code: `ThresholdsOrdered` (the constructor of the availability service),
`GapBeforeOffline` (75 s, 180 s), `PoliciesAreValid` (`GPUPolicy`), `ReportsAreValid` (the
heartbeat schema), `LimitsArePositive`, `OverlapIsPositive`, `DurationsAreNat`,
`LimitsAreNumbers`, `CapsArePositive` (constants of the services and bounds of the
endpoints), `QueriesAreValid`, `PoliciesAreWhole` (the schemas), `RegistryMakesSense` (the
first release is the one a host begins with), `TheFirstReleaseWorks`, `SourcesAreKnown` (the
agent has one source at least), `StatesAreKnown` (the columns' values), `StartIsLived` (the
accounts of a database in use were made by this code). The rest are types (`ClocksTellTime`,
`VersionsAreNumbers`, `NumbersAreOrdered`, `SamplesAreReports`, `BoundsAreNat`,
`DevicesAreCounted`, `MaxIncidentsIsNat`, `AlertsAreDeliveries`), that None is none of the
values it stands beside (`NeverSeenIsNoAge`, `NoneIsNoInstant`, `NoneIsNoData`,
`NoneIsNoCursor`, `NoneIsNoRow`), and that there is a project (`ProjectsExist`).

Every invariant and action property that a passing run checks is also a theorem. Where
several are proved together, as below, `EventsAgree`, `FailuresAreOpen`,
`RecoveriesAreClosed`, `QueuedAlertsAreCurrent` and `SuccessesAreReal` name the parts.

`AvailabilityProofs`
* `TypeCorrect`.
* `LedgerCorrect`: `OfflineIffOpenIncident` and `EventsMatchIncident`, proved together
  as `Ledger`, one relation (`LedgerOf`) between a state and the rows of a device. The
  lemmas do the work: `EnsuringRows` and `ClosingRows` say what the two helpers return,
  `EnsuringKeepsLedger` and `ClosingKeepsLedger` take a device from up to OFFLINE and
  back. An overdue heartbeat does both, through a pair of state and rows that no step
  ever commits.
* `OfflineDevicesAreSilent`: an age only grows, or is reset together with the state.
* `DisabledDevicesAreFrozen`, `NoOutageIsForgotten`: action properties, by the
  actions; the second needs the ledger, for the incident that is already open.
* `RecoveriesAreHeard`: `RecoveryInv` adds that the sets are finite. Closing ends at
  most one incident because the ledger allows one open, and a receipt is new.
* `ContractImplemented`: `Init` maps to `Init`; each step to `Raise`, `Clear`,
  `RaiseAndClear` of one device, or to a stutter.

`GPUHealthProofs`
* `Outcomes`, a lemma, is a table: an evaluation ends in one of five ways, by the
  state, the two streaks and the event. All that follows uses it in place of the
  definition.
* `TypeCorrect`.
* `ConfirmationCorrect`: `ConfirmedStateMatchesIncident`, `ConfirmedFailureIsOpen`,
  `ConfirmedRecoveryIsClosed`, `QueuedAlertIsCurrent`, from one relation on the row
  of a device (`DeviceInv`). It adds what the four do not say: a streak above zero
  agrees with the last observation, and a good streak of two means a confirmed OK.
* `ChangesAreConfirmed`: `ChangesNeedTwoFreshSamples`; the streak's relation with
  the last observation is what makes it provable.
* `ContractImplemented`.

`NotificationsProofs`
* `RowSteps`, a lemma: every step of the system changes a given row in one of six
  ways (none, insert, expiry, cancellation, claim, end of an attempt). Invariants of a
  row are proved against these six.
* `TypeCorrect` and `HistoryCorrect` (`HistoryMatchesDelivery`, `SuccessIsReal`).
  Type correctness already needs the invariant: that `attemptCount` stays within the
  budget holds because a waiting delivery is below it (`RowInv`), which the claim
  relies on without checking. `AnswerInv` ties an ACCEPTED answer that waits to be
  recorded to the call the provider accepted.
* `OutcomesStay`, `EndsStay`: action properties from `RowInv`.
* `OfflineAlertsSettle` and `RecoveryStopsFirstSends`, from `QueueInv`: between the
  read and the write of a recovery, a delivery it saw waiting is not IN_PROGRESS, one
  it saw in flight has an attempt, and one it saw finished still is. This is where the
  lock on the incident enters; nothing of the kind holds for the reset of a device.
* `CopiesAreBounded` (`MessagesBounded`), from `ClaimsInv` (two workers never hold
  the same attempt; a claim's attempt exists) and a count of calls and unsent claims.

`IdentityProofs`
* `TypeCorrect`: the rows of the server, and the clocks that its transactions have read,
  none of which is ahead of time.
* `Tokens` (`TokensIssueOnce`), from `TokenInv`: an exchange in flight holds, under the
  enrolment's lock, a token that is unused, neither revoked nor deleted, and was not
  expired when it was read; the lock keeps every other step off that row.
* `LastingCredential` (`OneLastingCredential`). A rotation decides with a clock read
  before it waited for the device. The credentials that live at an instant only grow
  fewer as revocations and shortenings come, so what the rotation leaves is one that lives
  on at that clock, and the one it makes; counted at any later instant there are no more.
* `AuthorisedHeartbeats`: an action property, by the steps. What a waiting heartbeat has
  read of its credential is not used for the answer: the second read under the lock is.

`UpgradeProofs`
* `NeverLost` and `SettledDisk`, from `HostInv`. `DiskInv` says what is on disk at any
  instant, which is all that a power loss leaves: it is settled, or the installer's marker
  says that a switch is under way and the old environment is still in place, out of place,
  or replaced. `PcInv` says what the updater and the installer rely on at each of their
  steps. Each durable step is one lemma.
* `FinalResult`, from `ResultInv`: the updater's marker names its operation and the
  release it started from; an interrupted switch agrees with it; what a result says of the
  host stays true until it is forgotten; and a report under way, however late, says what
  the marker says, if the slot still belongs to its operation (`Backed`).
* `Offers`, from `OfferInv`: while a rollback is offered the host has no operation to work
  on and no switch to repair, so that it stands still; the slot's offer is the one of the
  marker that was reported; the operation it rests on is an upgrade that succeeded.
* `InstallationImplemented`, the refinement, from `ContractInv`, which adds to `ResultInv`
  what the mapping needs. `RunInv`: the service that runs is of the environment in place,
  and healthy where a new one is about to be accepted, since a commit needs it to run.
  `TurnInv`: the operation in the updater's marker is the last one asked
  for, or the one before it while the last one waits in the slot, so that the next to begin
  is the next in order. The lemmas named `...Moved` take each durable step: it stays
  (`Stays`: only the service may start, stop or die), `Departs`, `Commits` or `Closes`.
  Steps of the server and of reports move nothing but turns.
* `GoodReleaseKept`: the contract's own invariant, carried to the code. The host keeps a
  release that can run, though any number of releases in `Broken` never do.

`OrderedProofs`
* Lemmas for what ORDER BY with LIMIT returns: a set of numbers has a least one, a finite
  ordered set a highest (`LeastNumber`, `Highest`), the first rows are before the others
  (`TopSeparates`), no more than the limit (`TopIsBounded`) and as many if there are
  (`TopIsFull`). An order is a set of pairs in them, since a lemma with an operator as its
  parameter cannot be applied.

`LogsProofs`
* `StoredOnce`, `RowsGoWhenOld` and `ExactReads`. `AgentInv`: an upload, however late, has
  entries of the journal, and one hash is one entry. `StoreInv`: hashes and numbers are
  unique, what `AcceptReads` found unknown stays unknown under the device's lock although
  retention takes no lock, and the rows a retention has selected are old for good.
  `ReadingInv`: up to its cursor a reader has each row that is still there.

`ConsoleProofs`
* `GuardedAccounts`, from `AccountsInv`, `RequestsInv` and `SessionsInv`: a request holds
  a role that may be out of date, but OWNER only of the Owner, who cannot lose it; a login
  in progress owns a transaction that was consumed for it and has no session yet.
* `OnePolicy`, from `FleetInv` and `PolicyInv`: while an alert is raised its device is
  locked, so the policy it selected is the effective one, unless that is not the device's
  own and the project's was replaced.
* `ListsExact`, from `RowsInv` and `ReadingInv`: what has kept its place was seen, or its
  key is behind the cursor, which is behind all that was seen. For the newest alerts,
  alerts before a listed one are listed; for histories, the points go up and end with the
  newest sample (`PointsAreInOrder`), and a GPU that was observed has a series or there are
  as many as there may be (`SeriesAreFull`).

Only model-checked: liveness (`SilenceIsDetected`, `EveryDeliveryEnds`, `OperationsEnd`),
which needs fairness and ENABLED, and that the inductive invariants are not vacuous: TLC
reaches the cases they speak of. The four violated properties are shown by a trace.

## 5. What is not modelled

Components without a module: release tooling and build scripts, the browser code, and
the older copy of the agent under `agent-package`. They read and write files or a page
and keep no state another part decides on. `PROJECT.json` says for each component
which parts are left out. In the modelled parts:

* parsing and collectors of the agent other than the journal's, SMTP and message
  wording, shape checks of schemas, settings;
* the hash of a repeated heartbeat and its 409 answer; receipts are never deleted in
  the models where a repeat may still come (the code keeps them for good);
* lengths of pauses, backoffs and of the worker's jobs: that they end is modelled,
  which of two ends first is not, so nothing is said of an agent's pause against the
  OFFLINE threshold, or of slow providers against the sweep;
* the limiters of logins and of anonymous enrolment, and the log limiter's count;
* a file operation that fails inside `rollback_switch`, which runs with errexit off and
  goes on to the next one (`scripts/lib/skybeat_agent_install.sh:109-131`; only its stop and start
  may fail here), and copies of records cut short by a power loss; unit files, users and
  directories of an installation; a manual installation beside
  the updater;
* the overview of the dashboard and the counts per project: their statements
  (`server/app/dashboard/read.py:420-635`) may each see another commit, so that the
  numbers of one answer need not agree, and no property speaks of them;
* the telemetry a device view shows; the search of devices by host name;
* sessions' instants (a session may expire at any operation), the provider's tokens,
  redirects and the development bypass of authentication; a callback from another
  browser, which is refused;
* audit rows, `updated_at` and everything that is only displayed;
* the number of recipients of an event in `Notifications`: one delivery stands for
  each of them; the choice of recipients is in `NotificationPolicy`;
* InnoDB deadlock victims: a transaction the database aborts has no effect, which is
  the same as not having run, or an action of its own (`WorkerCrash`,
  `SupersessionAborts`, `AcceptFails`, `HeartbeatFails`) where it ends a sequence of
  steps.

## 6. Plan

Done: availability, GPU confirmation, the queue, upgrades, identity, logs and the console,
with proofs, and the refinements of
`OutageContract` and `Installation`. What is left, in order of weight:

| # | Work | Question | Theorems |
|---|---|---|---|
| 1 | the alerting composition | what are operators told of a GPU incident that an outage interrupts? | an event has its deliveries, or no recipient is entitled |
| 2 | durations: pauses against the threshold, jobs of the worker's one thread | | none yet |

## 7. Running

```
tlasany Availability.tla
tlc -workers 2 -config MCAvailability.cfg MCAvailability
tlapm AvailabilityProofs.tla
```

The configuration of each run is named in `PROJECT.json`; the largest takes about two
minutes with two workers.
