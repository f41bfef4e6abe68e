# Pocket Realm: a TLA+ model of its runtime

Pocket Realm runs a whole private game realm on one Android device: a database
engine, a login server (realm), a world server and the game client, each in an
Android process of its own. This directory holds TLA+ specifications of the parts
in which ordering, concurrency and crashes decide whether the realm is correct,
the TLC runs that check them, and TLAPS proofs of their main safety properties:

* the **supervisor** that starts, stops and recovers the four services;
* the **bot admission** of the world service, across Kotlin and native code;
* the **native world server** and the **native login server** as embedded runtimes;
* the **provisioning** of the SQLite datadir and its crash recovery.

Kotlin paths are relative to `src/android/app/src/main/java/com/pocketrealm/`,
native ones to `src/native/realm-runtime/src/`.

## 1. The system

| Component | State it keeps | Operations | Talks to | What makes it correct |
|---|---|---|---|---|
| Runtime supervisor (`supervisor/DurableRuntimeSupervisor.kt`, `OrphanSelfHealPolicy.kt`) | the snapshot (phase, clean, session, mode, one record per component), `operationLock`, minted sessions, grace ticks | start, stop, recover, relaunchClient, setCompanionMode, consentedForceStopOrphanStack, selfHealOrphan, componentFailed, preflight, characterTransfer, close | journal, backend | kills nothing it does not own; clean means at rest; teardown order; every operation ends |
| Journal (`AtomicSupervisorJournal.kt`, `RuntimeSnapshotJournalCodec.kt`) | one file | read, write | file system | a write is all or nothing |
| Component ownership (`ComponentOwnership.kt`) | owner, lease binder | claim, requireOwner, clear, ownerDied | each service, binder death | one owner at a time; a dead owner's runtime is torn down |
| Service binders (`database/DatabaseService.kt`, `server/RealmRuntimeService.kt`, `server/WorldRuntimeService.kt`, `client/ClientRuntimeService.kt`) | native state, claim, teardown threads | claim, start, stopOwned, forceStopOwned, save, setCompanionMode | native code | a stop or a kill needs the owner's token |
| Android backend (`AndroidRuntimeBackend.kt`) | service connections | one call per supervisor need | services | reports what a service did, within a bound |
| RealmService (`service/RealmService.kt`) | reservation, `activeGeneration`, foreground flag, maintenance token | command submission, monitor loop, restore maintenance, disposition | supervisor | one lifecycle operation at a time; the monitor notices a death |
| Bot admission (`WorldRuntimeService.kt`, `AdmissionMonitorEpoch.kt`, `bots/`, `bot_target_fence.h`) | epoch, generation, pending target, fence, effective target | startBotProfile, stop, setBotTarget, pause, monitor pass, world tick | native world | a retired generation's request never reaches a later world |
| World runtime (`world_runtime.cpp`, world loop) | `StateRecord`, stop flags, worker and world thread, chat slot | start, stop, save, world_chat, pause | databases, JNI | READY, STOPPED and FAILED mean what their readers take them for |
| Login runtime (`realmd_runtime.cpp`) | `StateRecord`, io_context, keep-alive count | start, stop | databases, JNI | a dead listener is noticed; joins without a deadline end |
| Database engine and durable state (`database/`, `supervisor/DatabaseStartPreparation.kt`) | datadirs, seals, transaction record, provider marker | initialize, recover, provision, start, stop; migrate, snapshot, restore | engine process | any crash leaves a state one start repairs; user state survives |
| Friend access (`FriendAccessController`, `FriendInviteStore`, `ProvisionRateLimiter`, ...) | invites, attempt windows | issue, redeem, revoke | world console | an invite is redeemed at most once |
| Importer and data generations (`importer/`, `storage/`) | import journal, generations, leases | import, activate, lease, collect | world start | a leased generation is never collected |
| Discovery, relays, join (`discovery/`, `onlineplay/`) | relay pool, listings | publish, expire, join | network | a listing never outlives its host |

The remaining parts (UI, Wine packaging, configuration, diagnostics, desktop shell,
tools, vendored code) are listed in `PROJECT.json` with the reason they are left out.

### What is hard here

* **Two records of ownership.** The journal says who owns a service; the service
  says it too. A crash can fall between any effect and the write about it.
* **Service-side threads.** When the supervisor dies, each service clears its claim
  and tears its runtime down on a thread of its own, beside the next supervisor's
  recovery.
* **Two locks in two languages.** A bot target passes the Kotlin epoch's lock, a
  native mutex and the world tick; the monitor holds the first through a wait of
  seconds on the last.
* **States without a lock.** `StateRecord::transition` validates nothing: a thread
  tests the state and writes it in two steps.
* **Durable marks.** Initialization is a dozen durable writes; the next start has to
  tell from marks alone which of two datadirs holds the newest state.
* **Partial failure.** Every backend call may fail or time out after it took effect;
  so may a journal write.

`PROJECT.json` lists the hazards at their lines, with the properties that watch them
or the reason none does.

## 2. Modules

| Module | Contents |
|---|---|
| `Supervisor` | supervisor, ownership, services, backend and monitor pass; properties |
| `SessionLifecycle` | what the supervisor promises about sessions, abstractly |
| `BotTargetFence` | the native fence of bot targets |
| `Admission` | extends the fence: epoch, monitor thread, verbs, world tick; properties |
| `TargetOwnership` | what admission promises, abstractly |
| `WorldRuntime` | the embedded world server: verbs, worker, world thread |
| `RealmdRuntime` | the embedded login server: verbs, worker, listener thread |
| `Provisioning` | datadirs, seals, record, recovery and the preparation loop |
| `MC*` | the modules TLC runs; the `.cfg` files give them constants |
| `SupervisorProofs`, `SupervisorSafety`, `SupervisorJournal`, `SupervisorRest` | theorems about `Supervisor`, each module on top of the one before: types; kills and the clean journal; phases; rest, teardown, sessions, save and pause |
| `AdmissionProofs`, `WorldRuntimeProofs`, `RealmdRuntimeProofs`, `ProvisioningProofs` | theorems about the other specifications |

Each specification also holds, marked "Mutant: ...", one wrong version of a definition
per property: a dropped guard, a missing reset, a swapped order. With it in place TLC
finds the property violated.

### Supervisor

| Variables | Code |
|---|---|
| `phase clean session mode jstate jtoken` | `RuntimeSnapshot`: what the journal holds and `_state` shows. `publish` writes the file before it sets `_state`; no modelled step reads `_state` in between |
| `native[c]` | what service `c` reports. `STARTING` stands for every live state that is not ready; `EXITED` is a client that ended and is still claimed |
| `owner[c]`, `doom[c]` | `ComponentOwnership.owner`; teardown under way: lease dead, owner-loss thread running, or world process about to retire |
| `pc`, `loc` | the operation in flight and its locals; `pc = "idle"`: lock and reservation are free |
| `minted`, `ticks` | `mintedSessions`, `orphanGraceTicks` |
| `transfer` | the snapshot copy `characterTransfer` holds outside the lock |
| `paused`, `unsaved`, `lost` | the native pause flag; history of world progress not saved, or lost |
| `faults` | the fault budget left |

An action is one backend call with the journal writes that lead up to it, or a run of
journal writes alone; a crash, a service thread or a transfer can fall between any two.

* *recoverLocked*: `Recover`, `RecoverSkip`, `RecoverObserveFails`, `RecoverOrphan`,
  `RecoverGrace`, `RecoverHeal`, `RecoverKill`, `RecoverUnverified`, `RecoverDatabase`.
* *stopLocked*: `Stop`, `StopSkip`, `SaveWorld`, `StopOwned`, `ForceOwned`,
  `StopRecorded`, `StopCommit`.
* *start and its stages*: `Start`, `PreflightVerb`, `PreflightEnds`, `AcceptSession`,
  `StageRequest`, `BackendStart`, `RetireFailedNative`, `ReclaimDatabase`, `StageReady`,
  `ProjectAdvertisement`, `UnwindStage`, `DrainClient`, `IsolateRecorded`, `RelaunchClient`.
* *others*: `Companion`, `CompanionEnds`, `CompanionRolledBack`; `ConsentBegin`,
  `ConsentStop`, `ConsentDatabase`; `MonitorTick`, `MonitorFailed`, `MonitorHeal`;
  `JournalWriteFails`, `UnexpectedOperationFailure`; `TransferBegin`, `TransferRead`,
  `TransferWrite`.
* *environment*: `SupervisorCrash`, `OwnerDied`, `LossTeardown`, `RetireWorld`,
  `BootSettles`, `NativeDies`.

Points to compare with the code: a database kill ends the engine, not the process, so
the claim survives unless dropping the binding destroys the service; a realm or world
observed STOPPED counts as stopped although its claim is held, an ended client does not
(`clientTerminalLifecycle`); grace ticks are per component and are not reset by a
healthy sample; identities are only compared, so a fresh one is any value nothing refers
to (`Mint`). A call that fails may have taken effect: the services write their lifecycle
file after the native call and that write can throw, so a failed companion call may have
set the pause flag (`CompanionEnds`, then `CompanionRolledBack`) and a failed stop may
have stopped the runtime (`StopUnacknowledged`, which keeps the claim). A write made in
the same action as a failed call (`fail()`, `failStage`, the commit of recovery and of
the consented stop) does not fail separately. The unwind's observation of a failed stage
has a fault of its own, `unobserved`; every other observation fails by `observe`.

`SessionLifecycle` is the abstract view: a journal that is sealed or not, the session
that is open, and the set of components that are up. A session opens only over a sealed
journal with nothing up (`Open`), a component comes up only under it and before
everything started after it (`Launch`), components may end at any time (`Fall`), and the
journal is sealed only once all are down but the engine, which the sealing step itself
may end (`Seal`); the consented stop gives the session up and leaves the engine to the
next recovery (`Disown`). `Supervisor` implements it (`SessionsNeverMeet`) with `sealed`
read from `clean`, `open` from `session` and `up` from the live services. So whatever is
up came up in the session the journal names, or is the engine that a recovery is still
to end.

### Admission and TargetOwnership

Three threads: `gate` (the Binder thread holding `transitionGate`), the admission
`monitor`, and the world. `epoch`/`inEpoch` are `AdmissionMonitorEpoch`, `generation`,
`pending`, `lease` the service's fields, `active`, `request`, `lastApplied` the fence's,
`effective` the target in force. A call of `set_bot_target` is three steps, because it
checks the state and reads the effective target *before* it takes the fence's mutex:
`CheckTarget`, `QueueTarget`, `AwaitTarget`. Verbs are the `Gate*` actions, a monitor
pass the `Monitor*` ones. The controller's decision is any other target within the
profile: its load arithmetic is not modelled, so every choice it can make is covered.
Sequence numbers are only compared: a fresh one is any number nobody holds.

`TargetOwnership` says what a caller may rely on: the target has one owner at a time, an
application is made in the name of the owner of that moment, and ownership given up is
never given back. `Admission` implements it with the owner read from the epoch (the
refinement `Ownership`), which TLC checks as a property and TLAPS proves.

### WorldRuntime and RealmdRuntime

`vpc` is the verb in progress (one at a time, under the service's lock), `rpc` the place
of the worker in `run()` and `cleanup()`, `tpc` the world or listener thread. Each test
of the state followed by a write is two steps. A wait with a deadline may always end by
it. In the world the thread may wedge inside `World::Update`; in the login server the
listener may stall, hang in a handler, or throw, and the process may be killed.
`m_lifecycle` is a variable of the login server only, where a join is made under it.
`run()` waits for the first tick before the listener is bound and again before READY;
both waits are `FirstTickWaited`, and the second never refuses, as nothing between them
clears the flag.

`WorldRuntime` ends its scope where `start()` spawns a run beside a detached one
(`StartOverlaps`, `OutOfScope`): two runs then share every cell and the core's
singletons, and nothing is claimed of what follows. Heartbeats of the login server are
over-approximated: `moved` may stay false for any number of samples.

### Provisioning

A datadir is a record: its generation marker, whether it has files, whether its
databases are published, the count of its migration seal and the version of the user's
state in it. `live` and `retired` are the two directories, `initSeal` and `cleanSeal`
the generations the seals name, `record` the INIT transaction, `marker` the provider
marker. One action is one durable write with the checks before it: `WriteRecord`,
`DropAnchor`, `Retires`, `Seeds`, `Publishes`, `Fills`, `SealsInit`, `SealsMigrations`,
`SealsClean`, `Marks`, `Commits`; recovery is `RecoverKeep`, `RecoverDiscard`,
`RecoverRestore` (`MoveBack`, `RemintInit`, `RemintClean`), `RecoverQuarantine`
(`Unseals`), `DropRecord`. `PrepareBegins` and `Dispatches` are the loop of
`prepareDatabaseForStart`, `NextStep` is `DatabaseStartPreparation.next`; reading READY
takes an iteration too (`PrepareReady`). A process may die (`Crash`), a step fail
(`StepFails`, `MariaFails`), a marker be torn (`SeedTears`) and the app be updated
(`AppUpdates`; in the middle of a record with `midupdate`). The health check of MariaDB's
`recover()` may fail over the daemon it started (`HealthCheckFails`), which the
supervisor's unwind then stops or kills (`UnwindClears`). The MariaDB engine is external:
it starts, stops, recovers or fails.

## 3. Runs

| Run | States | Checks |
|---|---|---|
| `session` | 433,551 | `CleanMeansAtRest`, `CleanHoldsNoClaim`, `LivePhaseIsBacked`, `RelaunchFindsNoClaim`, `SavedBeforeClean`, `LaunchedWorldTicks`, `TeardownOrder`, `OperationsEnd`, `DeadWorldIsNoticed`, `SessionsNeverMeet`, with the monitor loop fair |
| `recovery` | 2,235,867 | `TypeOK`, `CleanMeansAtRest`, `NeverKillsUnverifiedOwner`, `SessionsNeverMeet` |
| `transfer` | 709,406 | `NeverKillsUnverifiedOwner`, with the unlocked journal write |
| `admission` | 92,650 | `TargetsFollowOwnership`, `FenceFollowsService`, `ReportedTargetIsNative`, `TargetSettles`, `VerbsEnd` |
| `world` | 33,635 | `LiveWorldHasDatabases`, `ReadyMeansTicked`, `StoppedMeansOver`, `BootSettles`, `StopEndsWorker`, `VerbsReturn` |
| `realmd` | 3,135 | `RealmStoppedIsOver`, `DeadListenerIsNoticed`, `RealmStopEndsWorker`, `RealmVerbsReturn` |
| `provision` | 20,282 | `UserStateSurvives`, `SealsComeWhole`, `PreparationIsBounded`, `PreparationConverges` |
| `v_unwind`, `v_deadworld`, `v_import`, `v_chat`, `v_companion` | | refuted on purpose: section 4 |

What they show:

* **CleanMeansAtRest, CleanHoldsNoClaim, SavedBeforeClean.** A clean journal lets the
  next start skip recovery: no run reaches one over a live runtime or a claim (except
  finding 1), and a stop that commits clean lost no world progress.
* **NeverKillsUnverifiedOwner.** A live service is changed only if it is ownerless or
  owned by a claim of the journal, as it is now or as the operation read it; only the
  consented verb and the engine-ordered database shutdown may do more.
* **TeardownOrder, LivePhaseIsBacked, RelaunchFindsNoClaim.** Client, world, realm,
  database on every path; the phase the user sees matches the records.
* **LaunchedWorldTicks.** A start or relaunch that ends in RUNNING leaves no paused world
  under the journalled owner, although a client that failed in companion mode strands
  the pause flag, and a failed companion call may have set it. That RUNNING *always*
  means a ticking world is false: finding 5.
* **SessionsNeverMeet.** A crash, a failed stop or a forced one never lets a session open
  while a runtime of an earlier one is up: the refinement of `SessionLifecycle`.
* **DeadWorldIsNoticed, OperationsEnd.** A phase that shows a realm does not outlive its
  world; every accepted operation gives the lock back.
* **TargetsFollowOwnership, FenceFollowsService, ReportedTargetIsNative, TargetSettles,
  VerbsEnd.** No request of a retired monitor reaches a later world, whatever failed
  half way; reported and native target do not diverge; a request that timed out is
  settled by its retry; no verb waits for ever on the epoch's lock.
* **LiveWorldHasDatabases, ReadyMeansTicked, StoppedMeansOver, BootSettles,
  StopEndsWorker, VerbsReturn** and their login-server counterparts: no teardown closes
  the pools under a live thread, READY comes after a tick, STOPPED after everything is
  over, and neither verbs nor workers hang unless game code itself never returns.
* **UserStateSurvives, SealsComeWhole.** Whatever dies in whatever write of a seed, an
  import, a re-provision or its recovery, the newest user state is in the live datadir,
  or in a retired one the record brings back, or in MariaDB before the cutover.
* **PreparationIsBounded, PreparationConverges.** Every preparation reads READY within
  three steps and the realm comes up, except in three dead ends (`Stranded`), which lose no
  data: an app update over a pending record, which the new app refuses to parse; a torn
  generation marker in a datadir without a record; a MariaDB daemon that `stop()` left
  running because the provider mode had changed, until its process ends.

### Bounds

Faults are bounded, steps are not: verbs, recoveries and relaunches go on for ever.

| Bound | Value (code) | Why it is enough |
|---|---|---|
| sessions, tokens | 6, 4 | a fresh session differs from the journal's and at most four owners', a token from three: minting is never blocked. No symmetry: the identities are chosen deterministically |
| modes | LOCAL, LAN_JOIN | LAN_HOST differs from LOCAL in addresses only |
| `GraceTicks` | 2 (3) | the smallest at which waiting, last wait and healing differ |
| `MaxFaults` | 1 to 3 | the hazards listed need two faults at most; provisioning also takes a third, which hits the recovery of a recovery |
| `BotMin..BotMax`, `Requests` | 1..2, {0, 1, 2} | two targets tell "same" from "other"; 0 is out of the profile |
| `MaxEpoch` | 6 | starts and stops use up to two epochs each, so a request of a retired generation meets its successor's world |
| `HardStallFailStreak` | 2 (60) | a threshold: one slow tick, and the last one |
| `StallLimit` | 3 (8 heartbeats of 100 ms against a keep-alive of 250 ms) | unchanged samples below the limit happen |
| listener threads | 1 | `ServerRuntimeFiles.kt:486` configures one |
| `MaxInjected` | 2 | tells none, one and more apart |
| `MaxSteps` | 3 (12) | tighter than the code: two steps and the iteration that reads READY suffice; 2 is refuted |
| `MaxManifest`, `MaxUser` | 3 | two updates, two sessions of play |
| generations on disk | 5 | four names at most are on disk at a time |

Limits of the runs, on purpose:

* `recovery` does not combine the stop verb with the consented force stop: a graceful
  stop on the dirty journal that verb leaves commits it clean, skipping recovery.
* Observations fail in `session`, `recovery` and `transfer`. Only the unwind's observation
  of a stage whose boot failed (`unobserved` with `boot`) is left out of them: that is
  finding 1, and `v_unwind` has it. `NeverKills` is proved for all faults together.
* `DeadWorldIsNoticed` excuses a user who toggles companion mode for ever: the monitor
  only tries to reserve, with no priority, so weak fairness is all its loop justifies.
* `session` leaves out the fault that makes relaunch's best-effort resume fail:
  `LaunchedWorldTicks` is then false by the design of "best effort". `transfer` has it.
* In `provision` no import is cut between its seals; that case is finding 3.

### Fairness

* `Supervisor`: weak fairness of the steps of an operation that has begun, since every
  call is bounded by `RuntimeTimeouts` or the backend's deadlines (the one without a
  bound, `ServiceHandle.api`, is a listed hazard), and of the services' own threads.
  `MonitoredSpec` (run `session`) adds the monitor loop, which runs every second.
* `Admission`: weak fairness per thread, so the world ticks unless it is paused. Strong
  fairness for a verb taking the epoch's lock: the monitor frees it for the ten seconds
  it sleeps.
* `WorldRuntime`, `RealmdRuntime`: weak fairness per thread. A wedged world loop or a
  handler that never returns is not fair: the properties name it.
* `Provisioning`: weak fairness of the operation in flight, and of `PrepareBegins`: a
  realm that is down is asked to start again.

No request, fault, crash or transfer is fair anywhere.

## 4. Disagreements between code and comments

1. `v_unwind`: `unwindNeverStartedStage` strikes a stage as stopped also when it could
   not be observed. A boot that timed out may still be live, and the unwind then commits
   a clean journal over it.
2. `v_deadworld`: `save()` and `run()` test the state and write it without a lock. The
   watchdog's FAILED in between is overwritten by SAVING or READY; the worker then loops
   for ever over a world thread that is gone.
3. `v_import`: a death between the initialized and the clean seal of the MariaDB import.
   The provider mode already is SQLite, so `sqliteInitialize` quarantines the imported
   datadir, seeds an empty one and marks the cutover: the user's characters are left in
   a MariaDB generation nothing reads any more.
4. `v_chat`: the drain leaves the chat slot pending, so a second tick before the waiter
   harvests the verdict sends the same line again.
5. `v_companion`: when a companion call fails, the supervisor journals the phase it found,
   as "the world pause flag was never flipped". `WorldRuntimeService.setCompanionMode`
   sets the native flag and only then writes its lifecycle file, which may throw: RUNNING
   then shows a paused world, and RUNNING offers no way out of companion mode.

Each is a run with one property that TLC refutes. Three more behaviours were met while
modelling and have no run: a paused world never drains the chat slot, since the paused
branch of the world loop does not call the tick hook; a start while a session runs is
not refused but recovers, and kills, that session first, as the journal of every active
phase is dirty; and a transfer that read the snapshot before a clean stop writes the
active one back after it.

## 5. Proofs

Every safety property of a passing run is a theorem. All theorems hold for every value
of the constants under the named assumptions of their module (`ConstantsAssumption`,
`AdmissionAssumption`, `StreakAssumption`, `StallAssumption`, `ProvisioningAssumption`)
and the hypotheses they state: any number of identities, faults, crashes and updates.
Each inductive invariant was an invariant of a TLC run before it was proved.

### Supervisor

| Theorem | Property | Hypothesis |
|---|---|---|
| `TypeCorrectness` | `TypeOK` | none |
| `NeverKills` | `NeverKillsUnverifiedOwner` | none |
| `CleanIsAtRest` | `CleanHoldsNoClaim` | no transfer |
| `LivePhasesAreBacked` | `LivePhaseIsBacked` | no transfer |
| `RelaunchIsUnclaimed` | `RelaunchFindsNoClaim` | no transfer |
| `CleanIsQuiet` | `CleanMeansAtRest` | `RestScope` |
| `TeardownIsOrdered` | `TeardownOrder` | `RestScope` |
| `SessionsAreSeparate` | `SessionsNeverMeet` | `RestScope` |
| `CleanStopHasSaved` | `SavedBeforeClean` | `RestScope` |
| `LaunchedMeansTicking` | `LaunchedWorldTicks` | `PauseScope` |

The hypotheses exclude what is known to break the property, and nothing else:

* *no transfer*: `characterTransfer` publishes outside `operationLock` and can bring an
  old snapshot back.
* `RestScope`: no transfer; not both a boot that fails late and an unwind that cannot
  observe the stage (finding 1); not both the stop verb and the consented force stop (a graceful
  stop on the journal the latter leaves commits it clean with the database up). Crashes,
  deaths, failed stops, kills and saves, and journal writes are all in.
* `PauseScope`: `RestScope`, and the relaunch's resume, which is best effort, does not
  fail. Companion calls may fail before or after they took effect.

The invariants, each on top of the ones before:

* `TypeInv`: `TypeOK` with `OpInv`, as what an operation writes depends on its locals (a
  stage works under a session and a whole claim; the consented verb's places are reached
  by that verb only).
* `CleanInv`: which places run under a clean journal.
* `ShapeInv`, what the journal looks like at each place of an operation: the servers a
  live phase counts on are recorded ready under an owner (`PhaseBacked`); a start has the
  components before its stage recorded and those after it unowned (`PlanShape`); the
  stage itself is unowned before its claim and under that claim from then on
  (`StageShape`); isolation and companion toggle keep the servers (`ClientShape`); a stop
  works on an open session, recovery on the snapshot it read (`StopShape`). The phase is
  written in one step and the records it depends on in others: without the places in
  between neither property is preserved.
* `RestInv`, which relates journal and services: whatever runs, a stop of the journalled
  session would stop, save the database that the consented stop leaves to the next
  recovery under a dirty journal (`Accounted`); what a teardown has behind it is down
  (`Downed`); a stage is not up before its boot, and one that is up although its boot
  failed is still this supervisor's (`Staged`). `LeaseInv` says that a dying lease has an
  owner. "Clean means at rest" follows because a clean journal needs no stop, and
  `TeardownOrder` from `Downed`. The refinement needs all three: `JournalMoves` says how
  a step may treat the journal (leave its session, open one, commit clean, give it up),
  `Downed` what is up when it commits, `Accounted` and `PlanShape` that nothing later is
  up when a stage boots (`BootLaunches`).
* `SaveInv`: a durable stop of a live session has the world still recorded ahead of it, or
  its save behind it with nothing unsaved since.
* `PauseInv`: a paused world is up (`PausedIsUp`), and a launch works beside one only at
  its client stage and only if the journalled owner has lost it (`Stranded`): a start
  finds nothing up, and relaunchClient resumes what it still owns before its stage.

### The others

* **Admission.** `AdmissionTypeCorrect`, `FenceIsFollowed` and the refinement
  `AdmissionImplementsOwnership`. `AdmissionInv`: a generation is active in the fence
  only while the epoch still shows it (`FenceEpoch`); a request waits only for the
  active generation (`PendingOwned`); a public request waits only while nobody is
  admitted, because a start resets the fence and holds the gate from then on
  (`GateOwns`); epochs only grow. The refinement has one lemma per step of
  `TargetOwnership` and one for all the stutters.
  `ReportedTargetHolds` (`ReportedTargetIsNative`) needs `ReportedInv`, which follows one
  target through both threads: a start has the configured target in force until its
  monitor runs (`Booted`); the pending target, and the request in the fence, are the
  policy's (`Agreed`); a call that loaded, was told or will be told "ok" has its target
  in force and the fence empty (`Answered`). The property alone says nothing of the
  states between decision and acknowledgement.
* **WorldRuntime.** `WorldTypeCorrect`, `WorldKeepsDatabases`, `ReadyIsHonest`,
  `StoppedIsFinal`. `PlacesInv` ties the worker's place to pools, `m_started` and the
  world thread; `TickInv` shows that the first-tick flag outlives every place that leads
  to READY, as only `start()` clears it and `start()` and `save()` exclude each other.
* **RealmdRuntime.** `RealmTypeCorrect`, `RealmStoppedIsFinal`. An early failure leaves
  `run()` without cleanup, so "no worker" does not give "no database"; `RunInv` says that
  every way to the STOPPED record goes through a cleanup.
* **Provisioning.** `ProvTypeCorrect`, `UserStateIsKept`, `SealsAreWhole`,
  `PreparationFitsItsSteps`, for devices on which no import is cut between its seals
  (`"cutcommit" \notin Faults`; finding 3 is why). `UserStateSurvives` says where the
  state is, not why recovery finds it. `IInv` adds what the marks imply: a datadir that
  is not the record's work in progress was sealed once (`DirsAreWhole`), where the newest
  state is for each combination of record and datadirs (`StateIsSafe`), what each place
  has left of the record (`RecordIsKept`), and the places of recovery and provision
  (`RecoveryIsSound`, `ProvisionIsSound`).
  `PreparationFitsItsSteps` (`PreparationIsBounded`) holds from `MaxSteps >= 3` on; the
  code has 12. `StepsAreLeft` counts what each place may still need, and `CleanIsKept`
  is why no recover follows an initialize: a datadir that an interrupted re-provision
  leaves, or gets back, still has its clean seal.

Only model-checked: the liveness properties, which are out of the prover's reach
(`OperationsEnd`, `DeadWorldIsNoticed`, `TargetSettles`, `VerbsEnd`, `BootSettles`,
`StopEndsWorker`, `VerbsReturn`, `DeadListenerIsNoticed`, `RealmStopEndsWorker`,
`RealmVerbsReturn`, `PreparationConverges`).

## 6. Not modelled

* **By volume**, almost all C and C++ of the repository is third-party or generated code
  (Vulkan headers, the vortek serializer, virglrenderer, box64, secp256k1: over 300,000
  lines). The application's own native code is small, and its lifecycle and shared state
  are what `WorldRuntime`, `RealmdRuntime` and `BotTargetFence` model; the application's
  own logic is otherwise Kotlin.
* **Supervisor:** foreground promotion, account, moderation and advertisement verbs
  (they write `lastDurableAction` or only talk to the backend), wording, timestamps,
  addresses, the journal's file protocol and codec (a write is atomic or fails).
  `close()` during an operation is to the services a crash, which the model has at every
  step. `ServiceHandle`: a connection that never comes is a failed call.
* **RealmService:** the reservation as an object of its own, the disposition after
  release, restore maintenance, interface watch.
* **Database:** MIGRATION transactions, snapshots and their restore; the export of
  MariaDB, folded into the stop that pins it. SQL and the contents of the databases.
* **Native:** network sessions, game logic, metrics, the console apart from `saveall`
  and chat; two overlapping runs in one process.
* Parts listed as `not_modelled` in `PROJECT.json`, with the reason.

## 7. Plan

1. `RealmService`: reservation, `launchOperation`, disposition after release against a
   start accepted in between; composed with `Supervisor`.
2. `ServiceHandle`'s connection callbacks; the journal's file protocol.
3. Database: migrations, snapshots and restore maintenance with crashes between marks.
4. Friend invites and rate limiter; import journal and generation leases; relay pool.
5. Proofs: the invariants of the modules above.
