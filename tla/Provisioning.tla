---------------------------- MODULE Provisioning ----------------------------
(***************************************************************************)
(* The SQLite provider of DatabaseEngine: how a datadir is seeded,         *)
(* imported from the frozen MariaDB one or re-provisioned when the app's   *)
(* migration manifest advances; how the INIT transaction record brings     *)
(* back whatever a crash interrupted; and the loop of                      *)
(* prepareDatabaseForStart that chooses the next step from durable marks.  *)
(*                                                                         *)
(* One step is one durable write (a seal, a record, a move of a directory) *)
(* with the checks before it; the process may die between any two.  Files  *)
(* are kept as what recovery can tell about them: the generation marker    *)
(* of a datadir, whether its databases are published, the count of its     *)
(* migration seal, and which version of the user's state it holds.         *)
(*                                                                         *)
(* The app is sqlite-capable.  A "legacy" device has a MariaDB generation  *)
(* of an earlier app, initialized and migrated; its MIGRATION transactions *)
(* and the restore of snapshots are not modelled.                          *)
(***************************************************************************)
EXTENDS Integers

CONSTANTS
    Devices,        \* subset of {"fresh", "legacy"}: devices the app is installed on
    Faults,         \* subset of {"crash", "fail", "tear", "midupdate", "cutcommit"}
    MaxFaults,      \* bound: faults of a behaviour
    MaxManifest,    \* bound: migration counts the app's updates may reach
    MaxUser,        \* bound: versions of the user's state
    MaxSteps        \* MAX_DATABASE_PREPARATION_STEPS

ASSUME ProvisioningAssumption ==
    /\ Devices \subseteq {"fresh", "legacy"}
    /\ MaxFaults \in Nat /\ MaxManifest \in Nat \ {0} /\ MaxUser \in Nat
    /\ MaxSteps \in Nat \ {0}

VARIABLES
    legacy,     \* the MariaDB initialized marker is present
    mariaClean, \* cleanGeneration() of the MariaDB datadir
    exported,   \* the translation staging is EXPORTED and pinned to that seal
    manifest,   \* expectedMigrationCount of the installed app
    live,       \* sqliteDatadir
    retired,    \* the datadir under RETIRED_DATADIR_NAME
    initSeal, cleanSeal,    \* the generations the two seals in databaseRoot name
    record,     \* databaseTransaction of kind INIT
    marker,     \* active-provider.json
    engine,     \* state
    daemon,     \* the MariaDB daemon runs
    pc,         \* the step of the operation in flight
    lane,       \* the provider mode initialize was dispatched in
    work,       \* what the operation in flight provisions
    steps,      \* steps the preparation loop has left
    latest,     \* history: the newest version of the user's state
    faults      \* faults left

mariaVars == <<legacy, mariaClean, exported>>
dirVars == <<live, retired>>
sealVars == <<initSeal, cleanSeal>>
runVars == <<engine, daemon>>
loopVars == <<lane, work, steps>>
envVars == <<manifest, latest, faults>>
provVars == <<mariaVars, dirVars, sealVars, record, marker, runVars, pc, loopVars, envVars>>

Dir(g, f, w, u, s) == [gen |-> g, files |-> f, whole |-> w, user |-> u, sealed |-> s]
NoDir == Dir(0, FALSE, FALSE, 0, 0)
TornDir == Dir(0, TRUE, FALSE, 0, 0)

NoRecord == [gen |-> 0, count |-> 0]

(* The user's state in the MariaDB datadir, which nothing changes any more. *)
MariaUser == 1

Init ==
    /\ legacy \in {d = "legacy" : d \in Devices}
    /\ mariaClean \in IF legacy THEN BOOLEAN ELSE {FALSE}
    /\ exported = FALSE
    /\ manifest = 1
    /\ live = NoDir /\ retired = NoDir /\ initSeal = 0 /\ cleanSeal = 0
    /\ record = NoRecord
    /\ marker = IF legacy THEN "MARIADB" ELSE "none"
    /\ engine = "STOPPED" /\ daemon = FALSE
    /\ pc = "idle" /\ lane = "none" /\ work = "none" /\ steps = 0
    /\ latest = IF legacy THEN MariaUser ELSE 0
    /\ faults = MaxFaults

-----------------------------------------------------------------------------
(* What the durable marks say.                                             *)

SealValid == live.gen # 0 /\ initSeal = live.gen /\ live.whole

Clean == live.gen # 0 /\ cleanSeal = live.gen

MigrationsCurrent == SealValid /\ live.sealed = manifest

ProviderMode == IF SealValid \/ ~legacy THEN "SQLITE" ELSE "MARIADB"

Pending == record # NoRecord

(* DatabaseStartPreparation.next                                           *)
NextStep ==
    IF Pending THEN "initialize"
    ELSE IF ProviderMode = "SQLITE"
      THEN IF ~SealValid THEN "initialize"
           ELSE IF ~Clean THEN "recover"
           ELSE IF MigrationsCurrent THEN "ready"
           ELSE IF live.sealed \in 1..(manifest - 1) THEN "provision" ELSE "migrate"
      ELSE IF mariaClean THEN "provision" ELSE "recover"

(* A generation nothing on disk names.                                     *)
FreshGeneration ==
    CHOOSE g \in 1..5 : g \notin {live.gen, retired.gen, initSeal, cleanSeal}

WriteRecord == record' = [gen |-> FreshGeneration, count |-> manifest]

Steps(next) == pc' = next /\ UNCHANGED loopVars

(* An operation returns to the preparation loop, or throws out of it.      *)
Returns == pc' = "prepare" /\ lane' = "none" /\ work' = "none" /\ UNCHANGED steps
Throws == pc' = "idle" /\ lane' = "none" /\ work' = "none" /\ steps' = 0

(* Its process dies under it, and with the process engine and daemon.       *)
ProcessDies == engine' = "STOPPED" /\ daemon' = FALSE /\ Throws

-----------------------------------------------------------------------------
(* prepareDatabaseForStart.                                                *)

PrepareBegins ==
    /\ pc = "idle" /\ engine # "RUNNING"
    /\ pc' = "prepare" /\ steps' = MaxSteps
    /\ UNCHANGED <<mariaVars, dirVars, sealVars, record, marker, runVars, lane, work, envVars>>

(* The last iteration only reads READY: it counts as a step too.           *)
PrepareReady ==
    /\ pc = "prepare" /\ steps > 0 /\ NextStep = "ready"
    /\ Steps("ready")
    /\ UNCHANGED <<mariaVars, dirVars, sealVars, record, marker, runVars, envVars>>

(* requireStopped: a MariaDB daemon that was not drained refuses every     *)
(* step but the recovery of a dirty SQLite generation.                     *)
PrepareRefused ==
    /\ pc = "prepare" /\ steps > 0 /\ daemon
    /\ \/ NextStep \in {"initialize", "provision"}
       \/ NextStep = "recover" /\ ProviderMode = "MARIADB"
    /\ Throws
    /\ UNCHANGED <<mariaVars, dirVars, sealVars, record, marker, runVars, envVars>>

Dispatches(step) ==
    /\ pc = "prepare" /\ steps > 0 /\ NextStep = step
    /\ steps' = steps - 1

InitializeBegins ==
    /\ Dispatches("initialize") /\ ~daemon
    /\ lane' = ProviderMode /\ pc' = "recovery"
    /\ UNCHANGED <<mariaVars, dirVars, sealVars, record, marker, runVars, work, envVars>>

-----------------------------------------------------------------------------
(* recoverIncompleteInitialization: provisioningRecovery and its four arms. *)

(* Mutant: an initialized seal alone completes a provision.                *)
LiveSealsInitialized == SealValid

(* "All seals stamped".                                                    *)
LiveSealsValid == SealValid /\ Clean /\ live.sealed # 0

Recovers(arm) == pc = "recovery" /\ Pending /\ record.count = manifest /\ arm

KeepsCompleted == live.gen = record.gen /\ LiveSealsValid
DiscardsRecord == live.gen # record.gen /\ (live.gen # 0 \/ retired = NoDir)
RestoresRetired == ~KeepsCompleted /\ ~DiscardsRecord /\ retired # NoDir
Quarantines == ~KeepsCompleted /\ ~DiscardsRecord /\ retired = NoDir

(* parseTransaction wants the record of exactly this manifest.             *)
RecoveryRefused ==
    /\ pc = "recovery" /\ Pending /\ record.count # manifest
    /\ Throws
    /\ UNCHANGED <<mariaVars, dirVars, sealVars, record, marker, runVars, envVars>>

RecoverNothing ==
    /\ pc = "recovery" /\ ~Pending
    /\ Steps("resolve")
    /\ UNCHANGED <<mariaVars, dirVars, sealVars, record, marker, runVars, envVars>>

RecoverKeep ==
    /\ Recovers(KeepsCompleted)
    /\ Steps("dropRecord")
    /\ UNCHANGED <<mariaVars, dirVars, sealVars, record, marker, runVars, envVars>>

(* A datadir that a restore brought back under the interrupted             *)
(* generation's seals gets its own again.                                  *)
RecoverDiscard ==
    /\ Recovers(DiscardsRecord)
    /\ IF live.gen # 0 /\ ~SealValid
         THEN initSeal' = live.gen /\ Steps("remintClean")
         ELSE UNCHANGED initSeal /\ Steps("dropRecord")
    /\ UNCHANGED <<mariaVars, dirVars, cleanSeal, record, marker, runVars, envVars>>

(* The partial datadir is quarantined, the retired one moved back and      *)
(* sealed again.                                                           *)
RecoverRestore ==
    /\ Recovers(RestoresRetired)
    /\ live' = NoDir
    /\ Steps("moveBack")
    /\ UNCHANGED <<mariaVars, retired, sealVars, record, marker, runVars, envVars>>

(* Mutant: the restored datadir keeps whatever seals there are.            *)
MoveBackUnsealed ==
    /\ pc = "moveBack"
    /\ live' = retired /\ retired' = NoDir
    /\ Steps("dropRecord")
    /\ UNCHANGED <<mariaVars, sealVars, record, marker, runVars, envVars>>

MoveBack ==
    /\ pc = "moveBack"
    /\ live' = retired /\ retired' = NoDir
    /\ Steps("remintInit")
    /\ UNCHANGED <<mariaVars, sealVars, record, marker, runVars, envVars>>

RemintInit ==
    /\ pc = "remintInit" /\ live.gen # 0
    /\ initSeal' = live.gen
    /\ Steps("remintClean")
    /\ UNCHANGED <<mariaVars, dirVars, cleanSeal, record, marker, runVars, envVars>>

RemintClean ==
    /\ pc = "remintClean"
    /\ cleanSeal' = live.gen
    /\ Steps("dropRecord")
    /\ UNCHANGED <<mariaVars, dirVars, initSeal, record, marker, runVars, envVars>>

RecoverQuarantine ==
    /\ Recovers(Quarantines)
    /\ live' = NoDir
    /\ Steps("unsealInit")
    /\ UNCHANGED <<mariaVars, retired, sealVars, record, marker, runVars, envVars>>

Unseals ==
    \/ /\ pc = "unsealInit"
       /\ initSeal' = 0 /\ UNCHANGED cleanSeal
       /\ Steps("unsealClean")
       /\ UNCHANGED <<mariaVars, dirVars, record, marker, runVars, envVars>>
    \/ /\ pc = "unsealClean"
       /\ cleanSeal' = 0 /\ UNCHANGED initSeal
       /\ Steps("dropRecord")
       /\ UNCHANGED <<mariaVars, dirVars, record, marker, runVars, envVars>>

(* Mutant: the recovery leaves the record behind.                          *)
RecordStays ==
    /\ pc = "dropRecord"
    /\ Steps("resolve")
    /\ UNCHANGED <<mariaVars, dirVars, sealVars, record, marker, runVars, envVars>>

DropRecord ==
    /\ pc = "dropRecord"
    /\ record' = NoRecord
    /\ Steps("resolve")
    /\ UNCHANGED <<mariaVars, dirVars, sealVars, marker, runVars, envVars>>

-----------------------------------------------------------------------------
(* The rest of initialize, in the lane it was dispatched in.               *)

InitializeIdempotent ==
    /\ pc = "resolve" /\ lane = "SQLITE" /\ SealValid
    /\ Returns
    /\ UNCHANGED <<mariaVars, dirVars, sealVars, record, marker, runVars, envVars>>

(* A datadir with files and no seal; a MariaDB that died while the daemon  *)
(* ran.                                                                    *)
InitializeRefused ==
    /\ pc = "resolve"
    /\ IF lane = "SQLITE" THEN ~SealValid /\ live.files ELSE ~mariaClean
    /\ Throws
    /\ UNCHANGED <<mariaVars, dirVars, sealVars, record, marker, runVars, envVars>>

FreshBegins ==
    /\ pc = "resolve" /\ lane = "SQLITE" /\ ~SealValid /\ ~live.files
    /\ WriteRecord
    /\ pc' = "seed" /\ work' = "fresh" /\ UNCHANGED <<lane, steps>>
    /\ UNCHANGED <<mariaVars, dirVars, sealVars, marker, runVars, envVars>>

(* startDaemon: the clean seal of MariaDB goes before the daemon runs, and *)
(* the staging pinned to it is no longer consumable.                       *)
DaemonStarts ==
    /\ daemon' = TRUE /\ engine' = "RUNNING"
    /\ mariaClean' = FALSE /\ exported' = FALSE /\ UNCHANGED legacy

(* mariadbInitialize re-proves an initialized generation on the daemon.    *)
MariaReverifies ==
    /\ pc = "resolve" /\ lane = "MARIADB" /\ mariaClean
    /\ DaemonStarts
    /\ Steps("mariaStop")
    /\ UNCHANGED <<dirVars, sealVars, record, marker, envVars>>

(* stop() is routed by the provider mode of that moment.  (The EXPORTED    *)
(* record comes after it; a death before that only exports again.)         *)
MariaStops ==
    /\ pc = "mariaStop" /\ ProviderMode = "MARIADB"
    /\ daemon' = FALSE /\ engine' = "STOPPED" /\ mariaClean' = TRUE
    /\ marker' = "MARIADB"
    /\ IF work = "import" THEN exported' = TRUE /\ Steps("import")
                          ELSE UNCHANGED exported /\ Returns
    /\ UNCHANGED <<legacy, dirVars, sealVars, record, envVars>>

StopRoutedToSqlite ==
    /\ pc = "mariaStop" /\ ProviderMode = "SQLITE"
    /\ engine' = "STOPPED" /\ cleanSeal' = live.gen
    /\ Returns
    /\ UNCHANGED <<mariaVars, dirVars, initSeal, record, marker, daemon, envVars>>

-----------------------------------------------------------------------------
(* recover() of either provider.                                           *)

MariaRecovers ==
    /\ Dispatches("recover") /\ ProviderMode = "MARIADB" /\ ~daemon
    /\ DaemonStarts
    /\ pc' = "mariaStop" /\ UNCHANGED <<lane, work>>
    /\ UNCHANGED <<dirVars, sealVars, record, marker, envVars>>

(* The supervisor takes down the database of a failed stage: stopOwned     *)
(* stops the daemon, or forceStopOwned kills it.  (So does its recovery.)  *)
UnwindClears ==
    /\ pc = "unwind" /\ ProviderMode = "MARIADB"
    /\ daemon' = FALSE
    /\ \/ engine' = "STOPPED" /\ mariaClean' = TRUE /\ marker' = "MARIADB"
       \/ engine' = "FAILED" /\ mariaClean' = FALSE /\ UNCHANGED marker
    /\ Throws
    /\ UNCHANGED <<legacy, exported, dirVars, sealVars, record, envVars>>

(* Checkpoint and integrity pass, clean seal, then the provider marker.    *)
SqliteRecovers ==
    /\ Dispatches("recover") /\ ProviderMode = "SQLITE"
    /\ engine' = "STOPPED" /\ cleanSeal' = live.gen
    /\ pc' = "recovered" /\ UNCHANGED <<lane, work>>
    /\ UNCHANGED <<mariaVars, dirVars, initSeal, record, marker, daemon, envVars>>

SqliteRecovered ==
    /\ pc = "recovered"
    /\ marker' = "SQLITE"
    /\ Returns
    /\ UNCHANGED <<mariaVars, dirVars, sealVars, record, runVars, envVars>>

-----------------------------------------------------------------------------
(* provisionSqliteProvider.                                                *)

(* Mutant: the live datadir is moved aside without a record of it.         *)
ReprovisionUnrecorded ==
    /\ Dispatches("provision") /\ ProviderMode = "SQLITE" /\ ~daemon
    /\ work' = "carry" /\ pc' = "dropAnchor" /\ UNCHANGED lane
    /\ UNCHANGED <<mariaVars, dirVars, sealVars, record, marker, runVars, envVars>>

(* The manifest advanced: the record first, then the previous anchor goes, *)
(* then the live datadir becomes the anchor.                               *)
ReprovisionBegins ==
    /\ Dispatches("provision") /\ ProviderMode = "SQLITE" /\ ~daemon
    /\ WriteRecord
    /\ work' = "carry" /\ pc' = "dropAnchor" /\ UNCHANGED lane
    /\ UNCHANGED <<mariaVars, dirVars, sealVars, marker, runVars, envVars>>

(* A tree is not deleted in one step.                                      *)
DropAnchor ==
    /\ pc = "dropAnchor"
    /\ \/ retired \notin {NoDir, TornDir} /\ retired' = TornDir /\ UNCHANGED <<pc, loopVars>>
       \/ retired' = NoDir /\ Steps("retire")
    /\ UNCHANGED <<mariaVars, live, sealVars, record, marker, runVars, envVars>>

Retires ==
    /\ pc = "retire"
    /\ retired' = live /\ live' = NoDir
    /\ Steps("seed")
    /\ UNCHANGED <<mariaVars, sealVars, record, marker, runVars, envVars>>

(* The window transition, refused on a device that has cut over or whose   *)
(* sqlite datadir holds anything.                                          *)
TransitionAdmitted == marker # "SQLITE" /\ ~live.files

TransitionBegins ==
    /\ Dispatches("provision") /\ ProviderMode = "MARIADB" /\ ~daemon
    /\ TransitionAdmitted
    /\ work' = "import" /\ UNCHANGED lane
    /\ IF exported
         THEN pc' = "import" /\ UNCHANGED <<mariaVars, runVars>>
         ELSE pc' = "mariaStop" /\ DaemonStarts
    /\ UNCHANGED <<dirVars, sealVars, record, marker, envVars>>

TransitionRefused ==
    /\ pc = "prepare" /\ NextStep = "provision" /\ ProviderMode = "MARIADB" /\ ~daemon
    /\ ~TransitionAdmitted
    /\ Throws
    /\ UNCHANGED <<mariaVars, dirVars, sealVars, record, marker, runVars, envVars>>

ImportBegins ==
    /\ pc = "import"
    /\ WriteRecord
    /\ Steps("seed")
    /\ UNCHANGED <<mariaVars, dirVars, sealVars, marker, runVars, envVars>>

(* seedSqliteDatadir: the generation marker, then the databases.           *)
Seeds ==
    /\ pc = "seed"
    /\ live' = Dir(record.gen, TRUE, FALSE, 0, 0)
    /\ Steps("publish")
    /\ UNCHANGED <<mariaVars, retired, sealVars, record, marker, runVars, envVars>>

Publishes ==
    /\ pc = "publish"
    /\ live' = [live EXCEPT !.whole = TRUE]
    /\ Steps("fill")
    /\ UNCHANGED <<mariaVars, retired, sealVars, record, marker, runVars, envVars>>

(* The user's state over the seed, from the retired datadir or from the    *)
(* translation staging.                                                    *)
Fills ==
    /\ pc = "fill"
    /\ live' = [live EXCEPT !.user = CASE work = "carry" -> retired.user
                                       [] work = "import" -> MariaUser
                                       [] OTHER -> @]
    /\ Steps("sealInit")
    /\ UNCHANGED <<mariaVars, retired, sealVars, record, marker, runVars, envVars>>

(* The commit block: initialized, migrations, clean last, then the marker. *)
SealsInit ==
    /\ pc = "sealInit"
    /\ initSeal' = record.gen
    /\ Steps("sealMigrations")
    /\ UNCHANGED <<mariaVars, dirVars, cleanSeal, record, marker, runVars, envVars>>

SealsMigrations ==
    /\ pc = "sealMigrations"
    /\ live' = [live EXCEPT !.sealed = manifest]
    /\ Steps("sealClean")
    /\ UNCHANGED <<mariaVars, retired, sealVars, record, marker, runVars, envVars>>

SealsClean ==
    /\ pc = "sealClean"
    /\ cleanSeal' = record.gen
    /\ Steps("mark")
    /\ UNCHANGED <<mariaVars, dirVars, initSeal, record, marker, runVars, envVars>>

Marks ==
    /\ pc = "mark"
    /\ marker' = "SQLITE"
    /\ Steps("commit")
    /\ UNCHANGED <<mariaVars, dirVars, sealVars, record, runVars, envVars>>

Commits ==
    /\ pc = "commit"
    /\ record' = NoRecord
    /\ Returns
    /\ UNCHANGED <<mariaVars, dirVars, sealVars, marker, runVars, envVars>>

-----------------------------------------------------------------------------
(* sqliteStart after the preparation, which leaves nothing to heal, and    *)
(* what ends the engine.                                                   *)

StartEnters ==
    /\ pc = "ready"
    /\ MigrationsCurrent /\ Clean /\ ~Pending /\ engine # "RUNNING"
    /\ cleanSeal' = 0
    /\ Steps("integrity")
    /\ UNCHANGED <<mariaVars, dirVars, initSeal, record, marker, runVars, envVars>>

StartRuns ==
    /\ pc = "integrity"
    /\ engine' = "RUNNING" /\ marker' = "SQLITE"
    /\ Throws
    /\ UNCHANGED <<mariaVars, dirVars, sealVars, record, daemon, envVars>>

Serving == pc = "idle" /\ engine = "RUNNING"

(* The realm and world write what the user plays.                          *)
UserPlays ==
    /\ Serving /\ latest < MaxUser
    /\ latest' = latest + 1
    /\ live' = [live EXCEPT !.user = latest + 1]
    /\ UNCHANGED <<mariaVars, retired, sealVars, record, marker, runVars, pc, loopVars,
                   manifest, faults>>

EngineStops ==
    /\ Serving
    /\ engine' = "STOPPED" /\ cleanSeal' = live.gen
    /\ UNCHANGED <<mariaVars, dirVars, initSeal, record, marker, daemon, pc, loopVars, envVars>>

(* WAL sidecars survive the drain, or the engine is killed.                *)
EngineFails ==
    /\ Serving
    /\ engine' = "FAILED" /\ cleanSeal' = 0
    /\ UNCHANGED <<mariaVars, dirVars, initSeal, record, marker, daemon, pc, loopVars, envVars>>

-----------------------------------------------------------------------------
(* Faults and updates.                                                     *)

Strikes(f) == f \in Faults /\ faults > 0 /\ faults' = faults - 1

(* Between the initialized and the clean seal of an import the device      *)
(* resolves to SQLite on a datadir whose recovery will quarantine it: a    *)
(* death there is a fault of its own.                                      *)
CutsImport == work = "import" /\ pc \in {"sealMigrations", "sealClean"}

Crash ==
    /\ pc # "idle" \/ engine = "RUNNING" \/ daemon
    /\ Strikes(IF CutsImport THEN "cutcommit" ELSE "crash")
    /\ ProcessDies
    /\ UNCHANGED <<mariaVars, dirVars, sealVars, record, marker, manifest, latest>>

(* The seed, the import or an integrity pass throws.                       *)
StepFails ==
    /\ pc \in {"publish", "fill", "integrity"}
    /\ Strikes("fail")
    /\ Throws
    /\ UNCHANGED <<mariaVars, dirVars, sealVars, record, marker, runVars, manifest, latest>>

(* The re-verification or the export throws.  Both drain the daemon; the   *)
(* export tries a clean stop first.                                        *)
MariaFails ==
    /\ pc = "mariaStop" /\ (lane = "MARIADB" \/ work = "import")
    /\ Strikes("fail")
    /\ daemon' = FALSE
    /\ \/ engine' = "FAILED" /\ UNCHANGED <<mariaClean, marker>>
       \/ work = "import" /\ engine' = "STOPPED" /\ mariaClean' = TRUE /\ marker' = "MARIADB"
    /\ Throws
    /\ UNCHANGED <<legacy, exported, dirVars, sealVars, record, manifest, latest>>

(* The health check of recover() throws and leaves its daemon running.     *)
HealthCheckFails ==
    /\ pc = "mariaStop" /\ lane = "none" /\ work = "none"
    /\ Strikes("fail")
    /\ Steps("unwind")
    /\ UNCHANGED <<mariaVars, dirVars, sealVars, record, marker, runVars, manifest, latest>>

(* atomicWrite of the generation marker dies between its temporary file,   *)
(* which is in the datadir, and the rename.                                *)
SeedTears ==
    /\ pc = "seed"
    /\ Strikes("tear")
    /\ live' = TornDir
    /\ ProcessDies
    /\ UNCHANGED <<mariaVars, retired, sealVars, record, marker, manifest, latest>>

(* An update with an advanced manifest ends the process.  (Before the      *)
(* cutover MariaDB would have to migrate first.)                           *)
AppUpdates ==
    /\ manifest < MaxManifest
    /\ legacy => marker = "SQLITE"
    /\ CutsImport => "cutcommit" \in Faults
    /\ Pending => "midupdate" \in Faults
    /\ manifest' = manifest + 1
    /\ ProcessDies
    /\ UNCHANGED <<mariaVars, dirVars, sealVars, record, marker, latest, faults>>

-----------------------------------------------------------------------------

Recovery ==
    \/ RecoveryRefused \/ RecoverNothing \/ RecoverKeep \/ RecoverDiscard
    \/ RecoverRestore \/ MoveBack \/ RemintInit \/ RemintClean
    \/ RecoverQuarantine \/ Unseals \/ DropRecord

Initialize ==
    \/ InitializeIdempotent \/ InitializeRefused \/ FreshBegins
    \/ MariaReverifies \/ MariaStops \/ StopRoutedToSqlite

Recover == MariaRecovers \/ UnwindClears \/ SqliteRecovers \/ SqliteRecovered

Provision ==
    \/ ReprovisionBegins \/ DropAnchor \/ Retires
    \/ TransitionBegins \/ TransitionRefused \/ ImportBegins
    \/ Seeds \/ Publishes \/ Fills
    \/ SealsInit \/ SealsMigrations \/ SealsClean \/ Marks \/ Commits

Prepare == PrepareReady \/ PrepareRefused \/ InitializeBegins

Start == StartEnters \/ StartRuns

Operation == Prepare \/ Recovery \/ Initialize \/ Recover \/ Provision \/ Start

Environment ==
    \/ UserPlays \/ EngineStops \/ EngineFails
    \/ Crash \/ StepFails \/ MariaFails \/ HealthCheckFails \/ SeedTears \/ AppUpdates

Next == PrepareBegins \/ Operation \/ Environment

(* An operation that began goes on, and a realm that is down is asked to   *)
(* start again.                                                            *)
Fairness == WF_provVars(Operation) /\ WF_provVars(PrepareBegins)

Spec == Init /\ [][Next]_provVars /\ Fairness

-----------------------------------------------------------------------------
(* Properties.                                                             *)

(* "post-cutover user state must never be silently discarded": the newest  *)
(* state is in the live datadir, or in a retired one that the pending      *)
(* record will bring back, or still in MariaDB before the cutover.         *)
UserStateSurvives ==
    \/ live.user = latest
    \/ /\ Pending /\ live.gen \in {0, record.gen}
       /\ retired.gen # 0 /\ retired.user = latest
    \/ legacy /\ marker # "SQLITE" /\ latest = MariaUser

(* "a kill mid-block can never leave initialized+clean without the         *)
(* migration seal" (sqliteInitialize): once the record is gone, a datadir  *)
(* the initialized seal admits has its databases and its migration seal.   *)
SealsComeWhole == SealValid /\ ~Pending => live.sealed \in 1..manifest

(* "database preparation did not converge" is never reached: whatever was  *)
(* interrupted, the loop reads READY, or is refused, within its steps.     *)
PreparationIsBounded == pc = "prepare" => steps > 0

(* What no further start gets out of: the record of another manifest,      *)
(* which parseTransaction refuses; a datadir that is neither empty nor     *)
(* marked and that no record owns; a MariaDB daemon that stop() left       *)
(* running, which only the end of its process clears.                      *)
Stranded ==
    \/ Pending /\ record.count # manifest
    \/ ~Pending /\ live = TornDir
    \/ daemon /\ engine = "STOPPED"

(* Every other crash window recovers: a realm whose start is asked for     *)
(* again and again comes up, whatever died in whatever step.               *)
PreparationConverges == pc = "idle" /\ engine # "RUNNING" ~> Serving \/ Stranded

=============================================================================
