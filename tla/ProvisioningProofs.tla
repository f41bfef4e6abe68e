------------------------- MODULE ProvisioningProofs -------------------------
(***************************************************************************)
(* Proofs about Provisioning: the user's state outlives every interrupted  *)
(* provision, and a datadir without a record is wholly sealed, on every    *)
(* device, for any number of faults, updates and versions of the state, as *)
(* long as nothing dies between the seals of an import; and a preparation  *)
(* is ready within two of its steps.                                       *)
(***************************************************************************)
EXTENDS Provisioning, TLAPS

Dirs == [gen : Nat, files : BOOLEAN, whole : BOOLEAN, user : Nat, sealed : Nat]

RecoverySteps == {"moveBack", "remintInit", "remintClean", "unsealInit", "unsealClean",
                  "dropRecord"}
SealSteps == {"sealInit", "sealMigrations", "sealClean", "mark", "commit"}
ProvisionSteps == {"dropAnchor", "retire", "seed", "publish", "fill"} \cup SealSteps
RecordedSteps == RecoverySteps \cup ProvisionSteps
UnrecordedSteps == {"resolve", "mariaStop", "unwind", "import", "recovered", "ready",
                    "integrity"}

ProvTypeOK ==
    /\ legacy \in BOOLEAN /\ mariaClean \in BOOLEAN /\ exported \in BOOLEAN
    /\ manifest \in Nat \ {0}
    /\ live \in Dirs /\ retired \in Dirs
    /\ initSeal \in Nat /\ cleanSeal \in Nat
    /\ record \in [gen : Nat, count : Nat]
    /\ marker \in {"none", "MARIADB", "SQLITE"}
    /\ engine \in {"STOPPED", "RUNNING", "FAILED"} /\ daemon \in BOOLEAN
    /\ pc \in {"idle", "prepare", "recovery"} \cup RecordedSteps \cup UnrecordedSteps
    /\ lane \in {"none", "SQLITE", "MARIADB"}
    /\ work \in {"none", "fresh", "carry", "import"}
    /\ steps \in Int /\ latest \in Nat /\ faults \in Int

-----------------------------------------------------------------------------
(* The inductive invariant.                                                *)

(* The datadir the record is being spent on.                               *)
Partial == Pending /\ live.gen = record.gen

(* Nothing of the user's is in the SQLite provider yet.                    *)
Untouched == IF legacy THEN marker # "SQLITE" /\ latest = MariaUser ELSE latest = 0

(* A datadir that is not the record's work in progress was sealed once.    *)
DirsAreWhole ==
    /\ live.gen = 0 => live.user = 0
    /\ live.gen # 0 => live.files
    /\ live.gen # 0 /\ ~Partial => live.whole /\ live.sealed \in 1..manifest
    /\ retired.gen # 0 => retired.files /\ retired.whole /\ retired.sealed \in 1..manifest
    /\ live.user <= latest /\ live.sealed <= manifest

(* Where the newest state is.                                              *)
StateIsSafe ==
    /\ live.gen # 0 /\ ~Partial => live.user = latest
    /\ Partial /\ initSeal = live.gen => live.whole /\ live.user = latest
    /\ Pending /\ live.gen \in {0, record.gen} /\ retired # NoDir
         => retired.gen \notin {0, record.gen} /\ retired.user = latest
    /\ ~Pending /\ live.gen = 0 => retired = NoDir
    /\ live.gen = 0 /\ retired = NoDir => Untouched
    /\ Partial /\ retired = NoDir /\ ~LiveSealsValid => Untouched

(* No import is left between its seals.                                    *)
ImportIsNotCut ==
    legacy /\ Partial /\ initSeal = live.gen /\ ~LiveSealsValid /\ retired = NoDir => CutsImport

(* What the step in flight has left of the record.                         *)
RecordIsKept ==
    /\ Pending => record.gen # 0
    /\ pc \in RecordedSteps => Pending
    /\ pc \in UnrecordedSteps => ~Pending
    /\ engine = "RUNNING" => pc \in {"idle", "mariaStop", "unwind"}
    /\ pc \in {"ready", "integrity", "recovered"} \/ (pc = "idle" /\ engine = "RUNNING")
         => ~Pending /\ live.gen # 0

(* The arms of the recovery.                                               *)
RecoveryIsSound ==
    /\ pc \in {"moveBack"} => live = NoDir /\ retired # NoDir
    /\ pc \in {"remintInit", "remintClean"} => live.gen \notin {0, record.gen}
    /\ pc = "remintClean" => initSeal = live.gen
    /\ pc \in {"unsealInit", "unsealClean"}
         => live.gen = 0 /\ retired = NoDir /\ (lane = "SQLITE" => ~legacy)
    /\ pc = "dropRecord" => ~Partial \/ LiveSealsValid
    /\ pc = "dropRecord" /\ live.gen = 0 => retired = NoDir
    /\ pc \in {"recovery", "dropRecord", "resolve"} /\ lane = "SQLITE" /\ legacy => SealValid

(* The steps of a provision.                                               *)
ProvisionIsSound ==
    /\ pc \in ProvisionSteps => work \in {"fresh", "carry", "import"}
    /\ pc \notin ProvisionSteps \cup {"mariaStop", "import"} => work = "none"
    /\ pc \in ProvisionSteps \cup {"import"} /\ work = "fresh" => ~legacy
    /\ pc \in ProvisionSteps \cup {"import"} /\ work = "import" => legacy
    /\ pc = "import" => work = "import" /\ live.gen = 0
    /\ pc = "mariaStop" /\ work = "import" => live.gen = 0 /\ legacy
    /\ pc \in {"dropAnchor", "retire"} => work = "carry" /\ live.gen \notin {0, record.gen}
    /\ pc = "retire" => retired = NoDir
    /\ pc \in {"seed"} => live.gen = 0
    /\ pc \in {"seed", "publish", "fill"} \cup SealSteps
         => (work = "carry" <=> retired # NoDir)
    /\ pc \in {"publish", "fill"} \cup SealSteps => Partial
    /\ pc \in {"dropAnchor", "retire", "seed", "publish", "fill", "sealInit"}
         => initSeal # record.gen /\ cleanSeal # record.gen
    /\ pc \in {"fill"} \cup SealSteps => live.whole
    /\ pc \in SealSteps => live.user = latest
    /\ pc \in {"sealMigrations", "sealClean", "mark", "commit"} => initSeal = record.gen
    /\ pc \in {"sealClean", "mark", "commit"} => live.sealed # 0
    /\ pc \in {"mark", "commit"} => cleanSeal = record.gen

IInv ==
    /\ ProvTypeOK /\ DirsAreWhole /\ StateIsSafe /\ ImportIsNotCut
    /\ RecordIsKept /\ RecoveryIsSound /\ ProvisionIsSound

-----------------------------------------------------------------------------

USE DEF Dirs, RecoverySteps, SealSteps, ProvisionSteps, RecordedSteps, UnrecordedSteps

USE DEF mariaVars, dirVars, sealVars, runVars, loopVars, envVars, provVars

USE DEF Dir, NoDir, TornDir, NoRecord, MariaUser, Steps, Returns, Throws, Dispatches, ProcessDies,
        Strikes, Pending, SealValid, Clean, LiveSealsValid, KeepsCompleted, DiscardsRecord,
        RestoresRetired, Quarantines, Recovers, Partial, Untouched, CutsImport

(* Five generations are more than the four that the disk can name.         *)
LEMMA FreshIsFresh ==
    ASSUME ProvTypeOK
    PROVE  /\ FreshGeneration \in 1..5
           /\ FreshGeneration \notin {live.gen, retired.gen, initSeal, cleanSeal}
<1>1. \E g \in 1..5 : g \notin {live.gen, retired.gen, initSeal, cleanSeal}
  BY DEF ProvTypeOK
<1> QED
  BY <1>1 DEF FreshGeneration

(* A device before the app's first start.                                  *)
LEMMA InitEstablishes == Init => IInv
<1> SUFFICES ASSUME Init PROVE IInv
  OBVIOUS
<1> USE ProvisioningAssumption DEF Init
<1>1. legacy \in BOOLEAN /\ mariaClean \in BOOLEAN
  BY Zenon
<1>2. live \in Dirs /\ retired \in Dirs /\ record \in [gen : Nat, count : Nat]
  OBVIOUS
<1>3. exported \in BOOLEAN /\ daemon \in BOOLEAN
  BY Zenon
<1>4. marker \in {"none", "MARIADB", "SQLITE"} /\ latest \in Nat /\ steps \in Int /\ faults \in Int
  BY <1>1
<1>5. ProvTypeOK
  BY <1>1, <1>2, <1>3, <1>4 DEF ProvTypeOK
<1> QED
  BY <1>1, <1>5 DEF IInv, DirsAreWhole, StateIsSafe, ImportIsNotCut, RecordIsKept,
     RecoveryIsSound, ProvisionIsSound

(* The preparation loop: only the dispatch matters, which fixes the lane   *)
(* from the marks of that moment.                                          *)
LEMMA PrepareBeginsKeeps ==
    ASSUME IInv, PrepareBegins
    PROVE  IInv'
BY ProvisioningAssumption DEF PrepareBegins, IInv, ProvTypeOK, DirsAreWhole, StateIsSafe,
   ImportIsNotCut, RecordIsKept, RecoveryIsSound, ProvisionIsSound

LEMMA PrepareReadyKeeps ==
    ASSUME IInv, PrepareReady
    PROVE  IInv'
BY DEF PrepareReady, NextStep, ProviderMode, IInv, ProvTypeOK, DirsAreWhole, StateIsSafe,
   ImportIsNotCut, RecordIsKept, RecoveryIsSound, ProvisionIsSound

LEMMA PrepareRefusedKeeps ==
    ASSUME IInv, PrepareRefused
    PROVE  IInv'
BY DEF PrepareRefused, IInv, ProvTypeOK, DirsAreWhole, StateIsSafe, ImportIsNotCut,
   RecordIsKept, RecoveryIsSound, ProvisionIsSound

LEMMA InitializeBeginsKeeps ==
    ASSUME IInv, InitializeBegins
    PROVE  IInv'
BY DEF InitializeBegins, NextStep, ProviderMode, IInv, ProvTypeOK, DirsAreWhole, StateIsSafe,
   ImportIsNotCut, RecordIsKept, RecoveryIsSound, ProvisionIsSound

(* The recovery: each arm knows from provisioningRecovery's inputs where   *)
(* the newest state is, and the record goes only once the marks say so     *)
(* too.                                                                    *)
LEMMA RecoveryRefusedKeeps ==
    ASSUME IInv, RecoveryRefused
    PROVE  IInv'
BY DEF RecoveryRefused, IInv, ProvTypeOK, DirsAreWhole, StateIsSafe, ImportIsNotCut,
   RecordIsKept, RecoveryIsSound, ProvisionIsSound

LEMMA RecoverNothingKeeps ==
    ASSUME IInv, RecoverNothing
    PROVE  IInv'
BY DEF RecoverNothing, IInv, ProvTypeOK, DirsAreWhole, StateIsSafe, ImportIsNotCut,
   RecordIsKept, RecoveryIsSound, ProvisionIsSound

LEMMA RecoverKeepKeeps ==
    ASSUME IInv, RecoverKeep
    PROVE  IInv'
BY DEF RecoverKeep, IInv, ProvTypeOK, DirsAreWhole, StateIsSafe, ImportIsNotCut, RecordIsKept,
   RecoveryIsSound, ProvisionIsSound

LEMMA RecoverDiscardKeeps ==
    ASSUME IInv, RecoverDiscard
    PROVE  IInv'
BY DEF RecoverDiscard, IInv, ProvTypeOK, DirsAreWhole, StateIsSafe, ImportIsNotCut,
   RecordIsKept, RecoveryIsSound, ProvisionIsSound

LEMMA RecoverRestoreKeeps ==
    ASSUME IInv, RecoverRestore
    PROVE  IInv'
BY DEF RecoverRestore, IInv, ProvTypeOK, DirsAreWhole, StateIsSafe, ImportIsNotCut,
   RecordIsKept, RecoveryIsSound, ProvisionIsSound

LEMMA MoveBackKeeps ==
    ASSUME IInv, MoveBack
    PROVE  IInv'
BY DEF MoveBack, IInv, ProvTypeOK, DirsAreWhole, StateIsSafe, ImportIsNotCut, RecordIsKept,
   RecoveryIsSound, ProvisionIsSound

LEMMA RemintInitKeeps ==
    ASSUME IInv, RemintInit
    PROVE  IInv'
BY DEF RemintInit, IInv, ProvTypeOK, DirsAreWhole, StateIsSafe, ImportIsNotCut, RecordIsKept,
   RecoveryIsSound, ProvisionIsSound

LEMMA RemintCleanKeeps ==
    ASSUME IInv, RemintClean
    PROVE  IInv'
BY DEF RemintClean, IInv, ProvTypeOK, DirsAreWhole, StateIsSafe, ImportIsNotCut, RecordIsKept,
   RecoveryIsSound, ProvisionIsSound

LEMMA RecoverQuarantineKeeps ==
    ASSUME IInv, RecoverQuarantine
    PROVE  IInv'
BY DEF RecoverQuarantine, IInv, ProvTypeOK, DirsAreWhole, StateIsSafe, ImportIsNotCut,
   RecordIsKept, RecoveryIsSound, ProvisionIsSound

LEMMA UnsealsKeeps ==
    ASSUME IInv, Unseals
    PROVE  IInv'
BY DEF Unseals, IInv, ProvTypeOK, DirsAreWhole, StateIsSafe, ImportIsNotCut, RecordIsKept,
   RecoveryIsSound, ProvisionIsSound

LEMMA DropRecordKeeps ==
    ASSUME IInv, DropRecord
    PROVE  IInv'
BY DEF DropRecord, IInv, ProvTypeOK, DirsAreWhole, StateIsSafe, ImportIsNotCut, RecordIsKept,
   RecoveryIsSound, ProvisionIsSound

(* The rest of initialize.  In the SQLite lane a fresh seed is reached on  *)
(* a device that has no MariaDB only.                                      *)
LEMMA InitializeIdempotentKeeps ==
    ASSUME IInv, InitializeIdempotent
    PROVE  IInv'
BY DEF InitializeIdempotent, IInv, ProvTypeOK, DirsAreWhole, StateIsSafe, ImportIsNotCut,
   RecordIsKept, RecoveryIsSound, ProvisionIsSound

LEMMA InitializeRefusedKeeps ==
    ASSUME IInv, InitializeRefused
    PROVE  IInv'
BY DEF InitializeRefused, IInv, ProvTypeOK, DirsAreWhole, StateIsSafe, ImportIsNotCut,
   RecordIsKept, RecoveryIsSound, ProvisionIsSound

LEMMA FreshBeginsKeeps ==
    ASSUME IInv, FreshBegins
    PROVE  IInv'
BY FreshIsFresh DEF FreshBegins, WriteRecord, IInv, ProvTypeOK, DirsAreWhole, StateIsSafe,
   ImportIsNotCut, RecordIsKept, RecoveryIsSound, ProvisionIsSound

LEMMA MariaReverifiesKeeps ==
    ASSUME IInv, MariaReverifies
    PROVE  IInv'
<1> USE DEF IInv, MariaReverifies, DaemonStarts
<1>1. ProvTypeOK'
  BY DEF ProvTypeOK
<1>2. DirsAreWhole'
  BY DEF ProvTypeOK, DirsAreWhole, StateIsSafe, ImportIsNotCut, RecordIsKept, RecoveryIsSound,
     ProvisionIsSound
<1>3. StateIsSafe'
  BY DEF ProvTypeOK, DirsAreWhole, StateIsSafe, ImportIsNotCut, RecordIsKept, RecoveryIsSound,
     ProvisionIsSound
<1>4. ImportIsNotCut'
  BY DEF ProvTypeOK, DirsAreWhole, StateIsSafe, ImportIsNotCut, RecordIsKept, RecoveryIsSound,
     ProvisionIsSound
<1>5. RecordIsKept'
  BY DEF ProvTypeOK, DirsAreWhole, StateIsSafe, ImportIsNotCut, RecordIsKept, RecoveryIsSound,
     ProvisionIsSound
<1>6. RecoveryIsSound'
  BY DEF ProvTypeOK, DirsAreWhole, StateIsSafe, ImportIsNotCut, RecordIsKept, RecoveryIsSound,
     ProvisionIsSound
<1>7. ProvisionIsSound'
  BY DEF ProvTypeOK, DirsAreWhole, StateIsSafe, ImportIsNotCut, RecordIsKept, RecoveryIsSound,
     ProvisionIsSound
<1> QED
  BY <1>1, <1>2, <1>3, <1>4, <1>5, <1>6, <1>7

LEMMA MariaStopsKeeps ==
    ASSUME IInv, MariaStops
    PROVE  IInv'
<1> USE DEF IInv, MariaStops, ProviderMode
<1>1. ProvTypeOK'
  BY DEF ProvTypeOK
<1>2. DirsAreWhole'
  BY DEF ProvTypeOK, DirsAreWhole, StateIsSafe, ImportIsNotCut, RecordIsKept, RecoveryIsSound,
     ProvisionIsSound
<1>3. StateIsSafe'
  BY DEF ProvTypeOK, DirsAreWhole, StateIsSafe, ImportIsNotCut, RecordIsKept, RecoveryIsSound,
     ProvisionIsSound
<1>4. ImportIsNotCut'
  BY DEF ProvTypeOK, DirsAreWhole, StateIsSafe, ImportIsNotCut, RecordIsKept, RecoveryIsSound,
     ProvisionIsSound
<1>5. RecordIsKept'
  BY DEF ProvTypeOK, DirsAreWhole, StateIsSafe, ImportIsNotCut, RecordIsKept, RecoveryIsSound,
     ProvisionIsSound
<1>6. RecoveryIsSound'
  BY DEF ProvTypeOK, DirsAreWhole, StateIsSafe, ImportIsNotCut, RecordIsKept, RecoveryIsSound,
     ProvisionIsSound
<1>7. ProvisionIsSound'
  BY DEF ProvTypeOK, DirsAreWhole, StateIsSafe, ImportIsNotCut, RecordIsKept, RecoveryIsSound,
     ProvisionIsSound
<1> QED
  BY <1>1, <1>2, <1>3, <1>4, <1>5, <1>6, <1>7

LEMMA StopRoutedToSqliteKeeps ==
    ASSUME IInv, StopRoutedToSqlite
    PROVE  IInv'
BY DEF StopRoutedToSqlite, ProviderMode, IInv, ProvTypeOK, DirsAreWhole, StateIsSafe,
   ImportIsNotCut, RecordIsKept, RecoveryIsSound, ProvisionIsSound

(* recover() of either provider.                                           *)
LEMMA MariaRecoversKeeps ==
    ASSUME IInv, MariaRecovers
    PROVE  IInv'
<1> USE DEF IInv, MariaRecovers, NextStep, ProviderMode, DaemonStarts
<1>1. ProvTypeOK'
  <2>1. (legacy \in BOOLEAN /\ mariaClean \in BOOLEAN /\ exported \in BOOLEAN /\ daemon \in BOOLEAN)'
    BY Zenon DEF ProvTypeOK
  <2>2. (live \in Dirs /\ retired \in Dirs)'
    BY DEF ProvTypeOK
  <2>3. (manifest \in Nat \ {0} /\ steps \in Int /\ latest \in Nat /\ faults \in Int)'
    BY DEF ProvTypeOK
  <2> QED
    BY <2>1, <2>2, <2>3 DEF ProvTypeOK
<1>2. DirsAreWhole'
  BY DEF ProvTypeOK, DirsAreWhole, StateIsSafe, ImportIsNotCut, RecordIsKept, RecoveryIsSound,
     ProvisionIsSound
<1>3. StateIsSafe'
  BY DEF ProvTypeOK, DirsAreWhole, StateIsSafe, ImportIsNotCut, RecordIsKept, RecoveryIsSound,
     ProvisionIsSound
<1>4. ImportIsNotCut'
  BY DEF ProvTypeOK, DirsAreWhole, StateIsSafe, ImportIsNotCut, RecordIsKept, RecoveryIsSound,
     ProvisionIsSound
<1>5. RecordIsKept'
  BY DEF ProvTypeOK, DirsAreWhole, StateIsSafe, ImportIsNotCut, RecordIsKept, RecoveryIsSound,
     ProvisionIsSound
<1>6. RecoveryIsSound'
  BY DEF ProvTypeOK, DirsAreWhole, StateIsSafe, ImportIsNotCut, RecordIsKept, RecoveryIsSound,
     ProvisionIsSound
<1>7. ProvisionIsSound'
  BY DEF ProvTypeOK, DirsAreWhole, StateIsSafe, ImportIsNotCut, RecordIsKept, RecoveryIsSound,
     ProvisionIsSound
<1> QED
  BY <1>1, <1>2, <1>3, <1>4, <1>5, <1>6, <1>7

LEMMA SqliteRecoversKeeps ==
    ASSUME IInv, SqliteRecovers
    PROVE  IInv'
BY DEF SqliteRecovers, NextStep, ProviderMode, IInv, ProvTypeOK, DirsAreWhole, StateIsSafe,
   ImportIsNotCut, RecordIsKept, RecoveryIsSound, ProvisionIsSound

LEMMA SqliteRecoveredKeeps ==
    ASSUME IInv, SqliteRecovered
    PROVE  IInv'
BY DEF SqliteRecovered, IInv, ProvTypeOK, DirsAreWhole, StateIsSafe, ImportIsNotCut,
   RecordIsKept, RecoveryIsSound, ProvisionIsSound

(* The provisions.  The generation of the record is new, so that no seal   *)
(* on disk names the work in progress before its own seals are written.    *)
LEMMA ReprovisionBeginsKeeps ==
    ASSUME IInv, ReprovisionBegins
    PROVE  IInv'
BY FreshIsFresh DEF ReprovisionBegins, NextStep, ProviderMode, WriteRecord, IInv, ProvTypeOK,
   DirsAreWhole, StateIsSafe, ImportIsNotCut, RecordIsKept, RecoveryIsSound, ProvisionIsSound

LEMMA DropAnchorKeeps ==
    ASSUME IInv, DropAnchor
    PROVE  IInv'
<1> USE DEF IInv, DropAnchor
<1>1. ProvTypeOK'
  <2>1. (legacy \in BOOLEAN /\ mariaClean \in BOOLEAN /\ exported \in BOOLEAN /\ daemon \in BOOLEAN)'
    BY Zenon DEF ProvTypeOK
  <2>2. (live \in Dirs /\ retired \in Dirs)'
    <3>1. live' \in Dirs
      BY DEF ProvTypeOK
    <3>2. retired' = TornDir \/ retired' = NoDir
      BY DEF DropAnchor
    <3>3. TornDir \in Dirs /\ NoDir \in Dirs
      OBVIOUS
    <3> QED
      BY <3>1, <3>2, <3>3, Zenon
  <2>3. (manifest \in Nat \ {0} /\ steps \in Int /\ latest \in Nat /\ faults \in Int)'
    BY DEF ProvTypeOK
  <2> QED
    BY <2>1, <2>2, <2>3 DEF ProvTypeOK
<1>2. DirsAreWhole'
  BY DEF ProvTypeOK, DirsAreWhole, StateIsSafe, ImportIsNotCut, RecordIsKept, RecoveryIsSound,
     ProvisionIsSound
<1>3. StateIsSafe'
  BY DEF ProvTypeOK, DirsAreWhole, StateIsSafe, ImportIsNotCut, RecordIsKept, RecoveryIsSound,
     ProvisionIsSound
<1>4. ImportIsNotCut'
  BY DEF ProvTypeOK, DirsAreWhole, StateIsSafe, ImportIsNotCut, RecordIsKept, RecoveryIsSound,
     ProvisionIsSound
<1>5. RecordIsKept'
  BY DEF ProvTypeOK, DirsAreWhole, StateIsSafe, ImportIsNotCut, RecordIsKept, RecoveryIsSound,
     ProvisionIsSound
<1>6. RecoveryIsSound'
  BY DEF ProvTypeOK, DirsAreWhole, StateIsSafe, ImportIsNotCut, RecordIsKept, RecoveryIsSound,
     ProvisionIsSound
<1>7. ProvisionIsSound'
  BY DEF ProvTypeOK, DirsAreWhole, StateIsSafe, ImportIsNotCut, RecordIsKept, RecoveryIsSound,
     ProvisionIsSound
<1> QED
  BY <1>1, <1>2, <1>3, <1>4, <1>5, <1>6, <1>7

LEMMA RetiresKeeps ==
    ASSUME IInv, Retires
    PROVE  IInv'
<1> USE DEF IInv, Retires
<1>1. ProvTypeOK'
  BY DEF ProvTypeOK
<1>2. DirsAreWhole'
  BY DEF ProvTypeOK, DirsAreWhole, StateIsSafe, ImportIsNotCut, RecordIsKept, RecoveryIsSound,
     ProvisionIsSound
<1>3. StateIsSafe'
  BY DEF ProvTypeOK, DirsAreWhole, StateIsSafe, ImportIsNotCut, RecordIsKept, RecoveryIsSound,
     ProvisionIsSound
<1>4. ImportIsNotCut'
  BY DEF ProvTypeOK, DirsAreWhole, StateIsSafe, ImportIsNotCut, RecordIsKept, RecoveryIsSound,
     ProvisionIsSound
<1>5. RecordIsKept'
  BY DEF ProvTypeOK, DirsAreWhole, StateIsSafe, ImportIsNotCut, RecordIsKept, RecoveryIsSound,
     ProvisionIsSound
<1>6. RecoveryIsSound'
  BY DEF ProvTypeOK, DirsAreWhole, StateIsSafe, ImportIsNotCut, RecordIsKept, RecoveryIsSound,
     ProvisionIsSound
<1>7. ProvisionIsSound'
  BY DEF ProvTypeOK, DirsAreWhole, StateIsSafe, ImportIsNotCut, RecordIsKept, RecoveryIsSound,
     ProvisionIsSound
<1> QED
  BY <1>1, <1>2, <1>3, <1>4, <1>5, <1>6, <1>7

LEMMA TransitionBeginsKeeps ==
    ASSUME IInv, TransitionBegins
    PROVE  IInv'
<1> USE DEF IInv, TransitionBegins, NextStep, ProviderMode, TransitionAdmitted, DaemonStarts
<1>1. ProvTypeOK'
  <2>1. (legacy \in BOOLEAN /\ mariaClean \in BOOLEAN /\ exported \in BOOLEAN /\ daemon \in BOOLEAN)'
    BY Zenon DEF ProvTypeOK
  <2>2. (live \in Dirs /\ retired \in Dirs)'
    BY DEF ProvTypeOK
  <2>3. (manifest \in Nat \ {0} /\ steps \in Int /\ latest \in Nat /\ faults \in Int)'
    BY DEF ProvTypeOK
  <2> QED
    BY <2>1, <2>2, <2>3 DEF ProvTypeOK
<1>2. DirsAreWhole'
  BY DEF ProvTypeOK, DirsAreWhole, StateIsSafe, ImportIsNotCut, RecordIsKept, RecoveryIsSound,
     ProvisionIsSound
<1>3. StateIsSafe'
  BY DEF ProvTypeOK, DirsAreWhole, StateIsSafe, ImportIsNotCut, RecordIsKept, RecoveryIsSound,
     ProvisionIsSound
<1>4. ImportIsNotCut'
  BY DEF ProvTypeOK, DirsAreWhole, StateIsSafe, ImportIsNotCut, RecordIsKept, RecoveryIsSound,
     ProvisionIsSound
<1>5. RecordIsKept'
  BY DEF ProvTypeOK, DirsAreWhole, StateIsSafe, ImportIsNotCut, RecordIsKept, RecoveryIsSound,
     ProvisionIsSound
<1>6. RecoveryIsSound'
  BY DEF ProvTypeOK, DirsAreWhole, StateIsSafe, ImportIsNotCut, RecordIsKept, RecoveryIsSound,
     ProvisionIsSound
<1>7. ProvisionIsSound'
  BY DEF ProvTypeOK, DirsAreWhole, StateIsSafe, ImportIsNotCut, RecordIsKept, RecoveryIsSound,
     ProvisionIsSound
<1> QED
  BY <1>1, <1>2, <1>3, <1>4, <1>5, <1>6, <1>7

LEMMA TransitionRefusedKeeps ==
    ASSUME IInv, TransitionRefused
    PROVE  IInv'
BY DEF TransitionRefused, IInv, ProvTypeOK, DirsAreWhole, StateIsSafe, ImportIsNotCut,
   RecordIsKept, RecoveryIsSound, ProvisionIsSound

LEMMA ImportBeginsKeeps ==
    ASSUME IInv, ImportBegins
    PROVE  IInv'
BY FreshIsFresh DEF ImportBegins, WriteRecord, IInv, ProvTypeOK, DirsAreWhole, StateIsSafe,
   ImportIsNotCut, RecordIsKept, RecoveryIsSound, ProvisionIsSound

LEMMA SeedsKeeps ==
    ASSUME IInv, Seeds
    PROVE  IInv'
BY DEF Seeds, IInv, ProvTypeOK, DirsAreWhole, StateIsSafe, ImportIsNotCut, RecordIsKept,
   RecoveryIsSound, ProvisionIsSound

LEMMA PublishesKeeps ==
    ASSUME IInv, Publishes
    PROVE  IInv'
<1> USE DEF IInv, Publishes
<1>1. ProvTypeOK'
  <2>1. (legacy \in BOOLEAN /\ mariaClean \in BOOLEAN /\ exported \in BOOLEAN /\ daemon \in BOOLEAN)'
    BY Zenon DEF ProvTypeOK
  <2>2. (live \in Dirs /\ retired \in Dirs)'
    BY DEF ProvTypeOK
  <2>3. (manifest \in Nat \ {0} /\ steps \in Int /\ latest \in Nat /\ faults \in Int)'
    BY DEF ProvTypeOK
  <2> QED
    BY <2>1, <2>2, <2>3 DEF ProvTypeOK
<1>2. DirsAreWhole'
  BY DEF ProvTypeOK, DirsAreWhole, StateIsSafe, ImportIsNotCut, RecordIsKept, RecoveryIsSound,
     ProvisionIsSound
<1>3. StateIsSafe'
  BY DEF ProvTypeOK, DirsAreWhole, StateIsSafe, ImportIsNotCut, RecordIsKept, RecoveryIsSound,
     ProvisionIsSound
<1>4. ImportIsNotCut'
  BY DEF ProvTypeOK, DirsAreWhole, StateIsSafe, ImportIsNotCut, RecordIsKept, RecoveryIsSound,
     ProvisionIsSound
<1>5. RecordIsKept'
  BY DEF ProvTypeOK, DirsAreWhole, StateIsSafe, ImportIsNotCut, RecordIsKept, RecoveryIsSound,
     ProvisionIsSound
<1>6. RecoveryIsSound'
  BY DEF ProvTypeOK, DirsAreWhole, StateIsSafe, ImportIsNotCut, RecordIsKept, RecoveryIsSound,
     ProvisionIsSound
<1>7. ProvisionIsSound'
  BY DEF ProvTypeOK, DirsAreWhole, StateIsSafe, ImportIsNotCut, RecordIsKept, RecoveryIsSound,
     ProvisionIsSound
<1> QED
  BY <1>1, <1>2, <1>3, <1>4, <1>5, <1>6, <1>7

LEMMA FillsKeeps ==
    ASSUME IInv, Fills
    PROVE  IInv'
BY DEF Fills, IInv, ProvTypeOK, DirsAreWhole, StateIsSafe, ImportIsNotCut, RecordIsKept,
   RecoveryIsSound, ProvisionIsSound

LEMMA SealsInitKeeps ==
    ASSUME IInv, SealsInit
    PROVE  IInv'
BY DEF SealsInit, IInv, ProvTypeOK, DirsAreWhole, StateIsSafe, ImportIsNotCut, RecordIsKept,
   RecoveryIsSound, ProvisionIsSound

LEMMA SealsMigrationsKeeps ==
    ASSUME IInv, SealsMigrations
    PROVE  IInv'
BY DEF SealsMigrations, IInv, ProvTypeOK, DirsAreWhole, StateIsSafe, ImportIsNotCut,
   RecordIsKept, RecoveryIsSound, ProvisionIsSound

LEMMA SealsCleanKeeps ==
    ASSUME IInv, SealsClean
    PROVE  IInv'
BY DEF SealsClean, IInv, ProvTypeOK, DirsAreWhole, StateIsSafe, ImportIsNotCut, RecordIsKept,
   RecoveryIsSound, ProvisionIsSound

LEMMA MarksKeeps ==
    ASSUME IInv, Marks
    PROVE  IInv'
BY DEF Marks, IInv, ProvTypeOK, DirsAreWhole, StateIsSafe, ImportIsNotCut, RecordIsKept,
   RecoveryIsSound, ProvisionIsSound

LEMMA CommitsKeeps ==
    ASSUME IInv, Commits
    PROVE  IInv'
BY DEF Commits, IInv, ProvTypeOK, DirsAreWhole, StateIsSafe, ImportIsNotCut, RecordIsKept,
   RecoveryIsSound, ProvisionIsSound

(* The start, and what ends the engine.                                    *)
LEMMA StartEntersKeeps ==
    ASSUME IInv, StartEnters
    PROVE  IInv'
BY DEF StartEnters, MigrationsCurrent, IInv, ProvTypeOK, DirsAreWhole, StateIsSafe,
   ImportIsNotCut, RecordIsKept, RecoveryIsSound, ProvisionIsSound

LEMMA StartRunsKeeps ==
    ASSUME IInv, StartRuns
    PROVE  IInv'
BY DEF StartRuns, IInv, ProvTypeOK, DirsAreWhole, StateIsSafe, ImportIsNotCut, RecordIsKept,
   RecoveryIsSound, ProvisionIsSound

LEMMA UserPlaysKeeps ==
    ASSUME IInv, UserPlays
    PROVE  IInv'
BY DEF UserPlays, Serving, IInv, ProvTypeOK, DirsAreWhole, StateIsSafe, ImportIsNotCut,
   RecordIsKept, RecoveryIsSound, ProvisionIsSound

LEMMA EngineStopsKeeps ==
    ASSUME IInv, EngineStops
    PROVE  IInv'
BY DEF EngineStops, Serving, IInv, ProvTypeOK, DirsAreWhole, StateIsSafe, ImportIsNotCut,
   RecordIsKept, RecoveryIsSound, ProvisionIsSound

LEMMA EngineFailsKeeps ==
    ASSUME IInv, EngineFails
    PROVE  IInv'
BY DEF EngineFails, Serving, IInv, ProvTypeOK, DirsAreWhole, StateIsSafe, ImportIsNotCut,
   RecordIsKept, RecoveryIsSound, ProvisionIsSound

(* Faults and updates.  A death leaves the files and forgets the step: the *)
(* parts of the invariant about a partial datadir hold at every step, and  *)
(* ImportIsNotCut at every step but the two that CutsImport names.         *)
LEMMA CrashKeeps ==
    ASSUME IInv, Crash, "cutcommit" \notin Faults
    PROVE  IInv'
<1> USE DEF IInv, Crash
<1>1. ProvTypeOK'
  <2>1. (legacy \in BOOLEAN /\ mariaClean \in BOOLEAN /\ exported \in BOOLEAN /\ daemon \in BOOLEAN)'
    BY Zenon DEF ProvTypeOK
  <2>2. (live \in Dirs /\ retired \in Dirs)'
    BY DEF ProvTypeOK
  <2>3. (manifest \in Nat \ {0} /\ steps \in Int /\ latest \in Nat /\ faults \in Int)'
    BY DEF ProvTypeOK
  <2> QED
    BY <2>1, <2>2, <2>3 DEF ProvTypeOK
<1>2. DirsAreWhole'
  BY DEF ProvTypeOK, DirsAreWhole, StateIsSafe, ImportIsNotCut, RecordIsKept, RecoveryIsSound,
     ProvisionIsSound
<1>3. StateIsSafe'
  BY DEF ProvTypeOK, DirsAreWhole, StateIsSafe, ImportIsNotCut, RecordIsKept, RecoveryIsSound,
     ProvisionIsSound
<1>4. ImportIsNotCut'
  BY DEF ProvTypeOK, DirsAreWhole, StateIsSafe, ImportIsNotCut, RecordIsKept, RecoveryIsSound,
     ProvisionIsSound
<1>5. RecordIsKept'
  BY DEF ProvTypeOK, DirsAreWhole, StateIsSafe, ImportIsNotCut, RecordIsKept, RecoveryIsSound,
     ProvisionIsSound
<1>6. RecoveryIsSound'
  BY DEF ProvTypeOK, DirsAreWhole, StateIsSafe, ImportIsNotCut, RecordIsKept, RecoveryIsSound,
     ProvisionIsSound
<1>7. ProvisionIsSound'
  BY DEF ProvTypeOK, DirsAreWhole, StateIsSafe, ImportIsNotCut, RecordIsKept, RecoveryIsSound,
     ProvisionIsSound
<1> QED
  BY <1>1, <1>2, <1>3, <1>4, <1>5, <1>6, <1>7

LEMMA StepFailsKeeps ==
    ASSUME IInv, StepFails
    PROVE  IInv'
BY DEF StepFails, IInv, ProvTypeOK, DirsAreWhole, StateIsSafe, ImportIsNotCut, RecordIsKept,
   RecoveryIsSound, ProvisionIsSound

LEMMA MariaFailsKeeps ==
    ASSUME IInv, MariaFails
    PROVE  IInv'
<1> USE DEF IInv, MariaFails
<1>1. ProvTypeOK'
  <2>1. (legacy \in BOOLEAN /\ mariaClean \in BOOLEAN /\ exported \in BOOLEAN /\ daemon \in BOOLEAN)'
    BY Zenon DEF ProvTypeOK
  <2>2. (live \in Dirs /\ retired \in Dirs)'
    BY DEF ProvTypeOK
  <2>3. (manifest \in Nat \ {0} /\ steps \in Int /\ latest \in Nat /\ faults \in Int)'
    BY DEF ProvTypeOK
  <2> QED
    BY <2>1, <2>2, <2>3 DEF ProvTypeOK
<1>2. (DirsAreWhole /\ StateIsSafe /\ ImportIsNotCut)'
  BY DEF ProvTypeOK, DirsAreWhole, StateIsSafe, ImportIsNotCut
<1>3. (RecordIsKept /\ RecoveryIsSound /\ ProvisionIsSound)'
  BY DEF ProvTypeOK, RecordIsKept, RecoveryIsSound, ProvisionIsSound
<1> QED
  BY <1>1, <1>2, <1>3

LEMMA UnwindClearsKeeps ==
    ASSUME IInv, UnwindClears
    PROVE  IInv'
<1> USE DEF IInv, UnwindClears, ProviderMode
<1>1. ProvTypeOK'
  <2>1. (legacy \in BOOLEAN /\ mariaClean \in BOOLEAN /\ exported \in BOOLEAN /\ daemon \in BOOLEAN)'
    BY Zenon DEF ProvTypeOK
  <2>2. (live \in Dirs /\ retired \in Dirs)'
    BY DEF ProvTypeOK
  <2>3. (manifest \in Nat \ {0} /\ steps \in Int /\ latest \in Nat /\ faults \in Int)'
    BY DEF ProvTypeOK
  <2> QED
    BY <2>1, <2>2, <2>3 DEF ProvTypeOK
<1>2. (DirsAreWhole /\ StateIsSafe /\ ImportIsNotCut)'
  BY DEF ProvTypeOK, DirsAreWhole, StateIsSafe, ImportIsNotCut
<1>3. (RecordIsKept /\ RecoveryIsSound /\ ProvisionIsSound)'
  BY DEF ProvTypeOK, RecordIsKept, RecoveryIsSound, ProvisionIsSound
<1> QED
  BY <1>1, <1>2, <1>3

LEMMA HealthCheckFailsKeeps ==
    ASSUME IInv, HealthCheckFails
    PROVE  IInv'
BY DEF HealthCheckFails, IInv, ProvTypeOK, DirsAreWhole, StateIsSafe, ImportIsNotCut,
   RecordIsKept, RecoveryIsSound, ProvisionIsSound

LEMMA SeedTearsKeeps ==
    ASSUME IInv, SeedTears
    PROVE  IInv'
<1> USE DEF IInv, SeedTears
<1>1. ProvTypeOK'
  <2>1. (legacy \in BOOLEAN /\ mariaClean \in BOOLEAN /\ exported \in BOOLEAN /\ daemon \in BOOLEAN)'
    BY Zenon DEF ProvTypeOK
  <2>2. (live \in Dirs /\ retired \in Dirs)'
    BY DEF ProvTypeOK
  <2>3. (manifest \in Nat \ {0} /\ steps \in Int /\ latest \in Nat /\ faults \in Int)'
    BY DEF ProvTypeOK
  <2> QED
    BY <2>1, <2>2, <2>3 DEF ProvTypeOK
<1>2. DirsAreWhole'
  BY DEF ProvTypeOK, DirsAreWhole, StateIsSafe, ImportIsNotCut, RecordIsKept, RecoveryIsSound,
     ProvisionIsSound
<1>3. StateIsSafe'
  BY DEF ProvTypeOK, DirsAreWhole, StateIsSafe, ImportIsNotCut, RecordIsKept, RecoveryIsSound,
     ProvisionIsSound
<1>4. ImportIsNotCut'
  BY DEF ProvTypeOK, DirsAreWhole, StateIsSafe, ImportIsNotCut, RecordIsKept, RecoveryIsSound,
     ProvisionIsSound
<1>5. RecordIsKept'
  BY DEF ProvTypeOK, DirsAreWhole, StateIsSafe, ImportIsNotCut, RecordIsKept, RecoveryIsSound,
     ProvisionIsSound
<1>6. RecoveryIsSound'
  BY DEF ProvTypeOK, DirsAreWhole, StateIsSafe, ImportIsNotCut, RecordIsKept, RecoveryIsSound,
     ProvisionIsSound
<1>7. ProvisionIsSound'
  BY DEF ProvTypeOK, DirsAreWhole, StateIsSafe, ImportIsNotCut, RecordIsKept, RecoveryIsSound,
     ProvisionIsSound
<1> QED
  BY <1>1, <1>2, <1>3, <1>4, <1>5, <1>6, <1>7

LEMMA AppUpdatesKeeps ==
    ASSUME IInv, AppUpdates, "cutcommit" \notin Faults
    PROVE  IInv'
<1> USE DEF IInv, AppUpdates
<1>1. ProvTypeOK'
  <2>1. (legacy \in BOOLEAN /\ mariaClean \in BOOLEAN /\ exported \in BOOLEAN /\ daemon \in BOOLEAN)'
    BY Zenon DEF ProvTypeOK
  <2>2. (live \in Dirs /\ retired \in Dirs)'
    BY DEF ProvTypeOK
  <2>3. (manifest \in Nat \ {0} /\ steps \in Int /\ latest \in Nat /\ faults \in Int)'
    BY DEF ProvTypeOK
  <2> QED
    BY <2>1, <2>2, <2>3 DEF ProvTypeOK
<1>2. DirsAreWhole'
  BY DEF ProvTypeOK, DirsAreWhole, StateIsSafe, ImportIsNotCut, RecordIsKept, RecoveryIsSound,
     ProvisionIsSound
<1>3. StateIsSafe'
  BY DEF ProvTypeOK, DirsAreWhole, StateIsSafe, ImportIsNotCut, RecordIsKept, RecoveryIsSound,
     ProvisionIsSound
<1>4. ImportIsNotCut'
  BY DEF ProvTypeOK, DirsAreWhole, StateIsSafe, ImportIsNotCut, RecordIsKept, RecoveryIsSound,
     ProvisionIsSound
<1>5. RecordIsKept'
  BY DEF ProvTypeOK, DirsAreWhole, StateIsSafe, ImportIsNotCut, RecordIsKept, RecoveryIsSound,
     ProvisionIsSound
<1>6. RecoveryIsSound'
  BY DEF ProvTypeOK, DirsAreWhole, StateIsSafe, ImportIsNotCut, RecordIsKept, RecoveryIsSound,
     ProvisionIsSound
<1>7. ProvisionIsSound'
  BY DEF ProvTypeOK, DirsAreWhole, StateIsSafe, ImportIsNotCut, RecordIsKept, RecoveryIsSound,
     ProvisionIsSound
<1> QED
  BY <1>1, <1>2, <1>3, <1>4, <1>5, <1>6, <1>7

-----------------------------------------------------------------------------
(* Every step keeps the invariant, as long as imports are not cut.         *)
LEMMA NextKeeps ==
    ASSUME IInv, [Next]_provVars, "cutcommit" \notin Faults
    PROVE  IInv'
<1>1. CASE PrepareBegins
  BY <1>1, PrepareBeginsKeeps
<1>2. CASE Prepare
  BY <1>2, PrepareReadyKeeps, PrepareRefusedKeeps, InitializeBeginsKeeps DEF Prepare
<1>3. CASE Recovery
  BY <1>3, RecoveryRefusedKeeps, RecoverNothingKeeps, RecoverKeepKeeps, RecoverDiscardKeeps,
     RecoverRestoreKeeps, MoveBackKeeps, RemintInitKeeps, RemintCleanKeeps,
     RecoverQuarantineKeeps, UnsealsKeeps, DropRecordKeeps DEF Recovery
<1>4. CASE Initialize
  BY <1>4, InitializeIdempotentKeeps, InitializeRefusedKeeps, FreshBeginsKeeps,
     MariaReverifiesKeeps, MariaStopsKeeps, StopRoutedToSqliteKeeps DEF Initialize
<1>5. CASE Recover
  BY <1>5, MariaRecoversKeeps, UnwindClearsKeeps, SqliteRecoversKeeps, SqliteRecoveredKeeps DEF Recover
<1>6. CASE Provision
  BY <1>6, ReprovisionBeginsKeeps, DropAnchorKeeps, RetiresKeeps, TransitionBeginsKeeps,
     TransitionRefusedKeeps, ImportBeginsKeeps, SeedsKeeps, PublishesKeeps, FillsKeeps,
     SealsInitKeeps, SealsMigrationsKeeps, SealsCleanKeeps, MarksKeeps, CommitsKeeps DEF
     Provision
<1>7. CASE Start
  BY <1>7, StartEntersKeeps, StartRunsKeeps DEF Start
<1>8. CASE Environment
  BY <1>8, UserPlaysKeeps, EngineStopsKeeps, EngineFailsKeeps, CrashKeeps, StepFailsKeeps,
     MariaFailsKeeps, HealthCheckFailsKeeps, SeedTearsKeeps, AppUpdatesKeeps DEF Environment
<1>9. CASE UNCHANGED provVars
  BY <1>9 DEF IInv, ProvTypeOK, DirsAreWhole, StateIsSafe, ImportIsNotCut, RecordIsKept,
     RecoveryIsSound, ProvisionIsSound
<1> QED
  BY <1>1, <1>2, <1>3, <1>4, <1>5, <1>6, <1>7, <1>8, <1>9 DEF Next, Operation

LEMMA InvariantHolds ==
    ASSUME "cutcommit" \notin Faults
    PROVE  Spec => []IInv
BY InitEstablishes, NextKeeps, PTL DEF Spec

(* In every state the engine's files and its step in flight are well       *)
(* typed; in particular pc never leaves the steps the operations name.     *)
THEOREM ProvTypeCorrect ==
    ASSUME "cutcommit" \notin Faults
    PROVE  Spec => []ProvTypeOK
<1>1. IInv => ProvTypeOK
  BY DEF IInv
<1> QED
  BY <1>1, InvariantHolds, PTL

(* Whatever died in whatever step of a seed, an import, a re-provision or  *)
(* of the recovery of one, and however often, the newest version of the    *)
(* user's state is in the datadir that serves, in the retired one that the *)
(* record brings back, or still in MariaDB: for every number of faults,    *)
(* updates and versions, but not when the process dies between the seals   *)
(* of an import.                                                           *)
THEOREM UserStateIsKept ==
    ASSUME "cutcommit" \notin Faults
    PROVE  Spec => []UserStateSurvives
<1>1. IInv => UserStateSurvives
  <2> SUFFICES ASSUME IInv PROVE UserStateSurvives
    OBVIOUS
  <2> USE DEF IInv, ProvTypeOK, DirsAreWhole, StateIsSafe, UserStateSurvives
  <2>1. CASE live.gen # 0 /\ ~Partial
    BY <2>1
  <2>2. CASE Pending /\ live.gen \in {0, record.gen} /\ retired # NoDir
    BY <2>2
  <2>3. CASE live.gen = 0 /\ retired = NoDir
    BY <2>3
  <2>4. CASE Partial /\ retired = NoDir
    BY <2>4
  <2>5. CASE ~Pending /\ live.gen = 0
    BY <2>3, <2>5
  <2> QED
    BY <2>1, <2>2, <2>3, <2>4, <2>5
<1> QED
  BY <1>1, InvariantHolds, PTL

(* A datadir that the initialized seal admits and no record owns carries   *)
(* its migration seal, at a count the installed app knows: the commit      *)
(* block of a provision and the arms of its recovery never leave it half   *)
(* sealed.                                                                 *)
THEOREM SealsAreWhole ==
    ASSUME "cutcommit" \notin Faults
    PROVE  Spec => []SealsComeWhole
<1>1. IInv => SealsComeWhole
  BY DEF IInv, DirsAreWhole, SealsComeWhole
<1> QED
  BY <1>1, InvariantHolds, PTL

-----------------------------------------------------------------------------
(* The preparation loop.  An interrupted provision costs it an initialize, *)
(* a dirty generation a recover, and either leaves at most a provision:    *)
(* two steps from any state.  That nothing needs a third rests on the      *)
(* clean seal: a datadir that an interrupted re-provision leaves or gets   *)
(* back is still sealed clean (CleanIsKept), so no recover follows an      *)
(* initialize.                                                             *)

CleanIsKept ==
    /\ Pending /\ live.gen \notin {0, record.gen} => Clean
    /\ Pending /\ cleanSeal = record.gen => Partial /\ LiveSealsValid
    /\ Pending /\ live.gen \in {0, record.gen} /\ retired # NoDir
         => cleanSeal \in {retired.gen, record.gen}
    /\ pc = "recovery" /\ ~Pending => ~SealValid
    /\ pc = "resolve" /\ SealValid => Clean
    /\ pc = "recovered" => SealValid /\ Clean

(* What the loop has left when an operation returns to it is enough.       *)
StepsAreLeft ==
    /\ pc = "prepare" => \/ steps >= 3
                         \/ steps >= 2 /\ NextStep = "provision"
                         \/ NextStep = "ready"
    /\ pc \in RecoverySteps \cup {"recovery", "resolve", "recovered"} => steps >= 2
    /\ pc = "mariaStop" /\ work # "import" => steps >= 2
    /\ pc # "idle" => steps >= 1
    /\ lane = "MARIADB" \/ pc = "mariaStop" => legacy
    /\ pc \in {"sealClean", "mark", "commit"} => live.sealed = manifest

(* Every step keeps the clean seal on what a record can bring back.        *)
LEMMA CleanIsKeptStep ==
    ASSUME IInv, IInv', CleanIsKept, StepsAreLeft, MaxSteps >= 3, [Next]_provVars
    PROVE  CleanIsKept'
<1> USE ProvisioningAssumption DEF IInv, ProvTypeOK, DirsAreWhole, StateIsSafe,
       RecordIsKept, RecoveryIsSound, ProvisionIsSound, CleanIsKept, StepsAreLeft,
       NextStep, ProviderMode, MigrationsCurrent
<1>1. CASE PrepareBegins
  BY <1>1 DEF PrepareBegins
<1>2. CASE RecoveryRefused
  BY <1>2 DEF RecoveryRefused
<1>3. CASE RecoverNothing
  BY <1>3 DEF RecoverNothing
<1>4. CASE RecoverKeep
  BY <1>4 DEF RecoverKeep
<1>5. CASE RecoverDiscard
  BY <1>5 DEF RecoverDiscard
<1>6. CASE RecoverRestore
  BY <1>6 DEF RecoverRestore
<1>7. CASE MoveBack
  BY <1>7 DEF MoveBack
<1>8. CASE RemintInit
  BY <1>8 DEF RemintInit
<1>9. CASE RemintClean
  BY <1>9 DEF RemintClean
<1>10. CASE RecoverQuarantine
  BY <1>10 DEF RecoverQuarantine
<1>11. CASE Unseals
  BY <1>11 DEF Unseals
<1>12. CASE DropRecord
  BY <1>12 DEF DropRecord
<1>13. CASE InitializeIdempotent
  BY <1>13 DEF InitializeIdempotent
<1>14. CASE InitializeRefused
  BY <1>14 DEF InitializeRefused
<1>15. CASE FreshBegins
  BY <1>15, FreshIsFresh DEF FreshBegins, WriteRecord
<1>16. CASE MariaReverifies
  BY <1>16 DEF MariaReverifies, DaemonStarts
<1>17. CASE MariaStops
  BY <1>17 DEF MariaStops
<1>18. CASE StopRoutedToSqlite
  BY <1>18 DEF StopRoutedToSqlite
<1>19. CASE MariaRecovers
  BY <1>19 DEF MariaRecovers, DaemonStarts
<1>20. CASE SqliteRecovers
  BY <1>20 DEF SqliteRecovers
<1>21. CASE SqliteRecovered
  BY <1>21 DEF SqliteRecovered
<1>22. CASE ReprovisionBegins
  BY <1>22, FreshIsFresh DEF ReprovisionBegins, WriteRecord
<1>23. CASE DropAnchor
  BY <1>23 DEF DropAnchor
<1>24. CASE Retires
  BY <1>24 DEF Retires
<1>25. CASE TransitionBegins
  BY <1>25 DEF TransitionBegins, TransitionAdmitted, DaemonStarts
<1>26. CASE TransitionRefused
  BY <1>26 DEF TransitionRefused
<1>27. CASE ImportBegins
  BY <1>27, FreshIsFresh DEF ImportBegins, WriteRecord
<1>28. CASE Seeds
  BY <1>28 DEF Seeds
<1>29. CASE Publishes
  BY <1>29 DEF Publishes
<1>30. CASE Fills
  BY <1>30 DEF Fills
<1>31. CASE SealsInit
  BY <1>31 DEF SealsInit
<1>32. CASE SealsMigrations
  BY <1>32 DEF SealsMigrations
<1>33. CASE SealsClean
  BY <1>33 DEF SealsClean
<1>34. CASE Marks
  BY <1>34 DEF Marks
<1>35. CASE Commits
  BY <1>35 DEF Commits
<1>36. CASE PrepareReady
  BY <1>36 DEF PrepareReady
<1>37. CASE PrepareRefused
  BY <1>37 DEF PrepareRefused
<1>38. CASE InitializeBegins
  BY <1>38 DEF InitializeBegins
<1>39. CASE StartEnters
  BY <1>39 DEF StartEnters, MigrationsCurrent
<1>40. CASE StartRuns
  BY <1>40 DEF StartRuns
<1>41. CASE UserPlays
  BY <1>41 DEF UserPlays, Serving
<1>42. CASE EngineStops
  BY <1>42 DEF EngineStops, Serving
<1>43. CASE EngineFails
  BY <1>43 DEF EngineFails, Serving
<1>44. CASE Crash
  BY <1>44 DEF Crash
<1>45. CASE StepFails
  BY <1>45 DEF StepFails
<1>46. CASE MariaFails
  BY <1>46 DEF MariaFails
<1>50. CASE HealthCheckFails
  BY <1>50 DEF HealthCheckFails
<1>51. CASE UnwindClears
  BY <1>51 DEF UnwindClears
<1>47. CASE SeedTears
  BY <1>47 DEF SeedTears
<1>48. CASE AppUpdates
  BY <1>48 DEF AppUpdates
<1>49. CASE UNCHANGED provVars
  BY <1>49
<1> QED
  BY <1>1, <1>2, <1>3, <1>4, <1>5, <1>6, <1>7, <1>8, <1>9, <1>10, <1>11, <1>12, <1>13,
     <1>14, <1>15, <1>16, <1>17, <1>18, <1>19, <1>20, <1>21, <1>22, <1>23, <1>24, <1>25,
     <1>26, <1>27, <1>28, <1>29, <1>30, <1>31, <1>32, <1>33, <1>34, <1>35, <1>36, <1>37,
     <1>38, <1>39, <1>40, <1>41, <1>42, <1>43, <1>44, <1>45, <1>46, <1>47, <1>48, <1>49,
     <1>50, <1>51
     DEF Next, Operation, Prepare, Recovery, Initialize, Recover, Provision, Start,
     Environment

(* Every step leaves the loop the steps it needs.                          *)
LEMMA StepsAreLeftStep ==
    ASSUME IInv, IInv', CleanIsKept, StepsAreLeft, MaxSteps >= 3, [Next]_provVars
    PROVE  StepsAreLeft'
<1> USE ProvisioningAssumption DEF IInv, ProvTypeOK, DirsAreWhole, StateIsSafe,
       RecordIsKept, RecoveryIsSound, ProvisionIsSound, CleanIsKept, StepsAreLeft,
       NextStep, ProviderMode, MigrationsCurrent
<1>1. CASE PrepareBegins
  BY <1>1 DEF PrepareBegins
<1>2. CASE RecoveryRefused
  BY <1>2 DEF RecoveryRefused
<1>3. CASE RecoverNothing
  BY <1>3 DEF RecoverNothing
<1>4. CASE RecoverKeep
  BY <1>4 DEF RecoverKeep
<1>5. CASE RecoverDiscard
  BY <1>5 DEF RecoverDiscard
<1>6. CASE RecoverRestore
  BY <1>6 DEF RecoverRestore
<1>7. CASE MoveBack
  BY <1>7 DEF MoveBack
<1>8. CASE RemintInit
  BY <1>8 DEF RemintInit
<1>9. CASE RemintClean
  BY <1>9 DEF RemintClean
<1>10. CASE RecoverQuarantine
  BY <1>10 DEF RecoverQuarantine
<1>11. CASE Unseals
  BY <1>11 DEF Unseals
<1>12. CASE DropRecord
  BY <1>12 DEF DropRecord
<1>13. CASE InitializeIdempotent
  BY <1>13 DEF InitializeIdempotent
<1>14. CASE InitializeRefused
  BY <1>14 DEF InitializeRefused
<1>15. CASE FreshBegins
  BY <1>15, FreshIsFresh DEF FreshBegins, WriteRecord
<1>16. CASE MariaReverifies
  BY <1>16 DEF MariaReverifies, DaemonStarts
<1>17. CASE MariaStops
  BY <1>17 DEF MariaStops
<1>18. CASE StopRoutedToSqlite
  BY <1>18 DEF StopRoutedToSqlite
<1>19. CASE MariaRecovers
  BY <1>19 DEF MariaRecovers, DaemonStarts
<1>20. CASE SqliteRecovers
  BY <1>20 DEF SqliteRecovers
<1>21. CASE SqliteRecovered
  BY <1>21 DEF SqliteRecovered
<1>22. CASE ReprovisionBegins
  BY <1>22, FreshIsFresh DEF ReprovisionBegins, WriteRecord
<1>23. CASE DropAnchor
  BY <1>23 DEF DropAnchor
<1>24. CASE Retires
  BY <1>24 DEF Retires
<1>25. CASE TransitionBegins
  BY <1>25 DEF TransitionBegins, TransitionAdmitted, DaemonStarts
<1>26. CASE TransitionRefused
  BY <1>26 DEF TransitionRefused
<1>27. CASE ImportBegins
  BY <1>27, FreshIsFresh DEF ImportBegins, WriteRecord
<1>28. CASE Seeds
  BY <1>28 DEF Seeds
<1>29. CASE Publishes
  BY <1>29 DEF Publishes
<1>30. CASE Fills
  BY <1>30 DEF Fills
<1>31. CASE SealsInit
  BY <1>31 DEF SealsInit
<1>32. CASE SealsMigrations
  BY <1>32 DEF SealsMigrations
<1>33. CASE SealsClean
  BY <1>33 DEF SealsClean
<1>34. CASE Marks
  BY <1>34 DEF Marks
<1>35. CASE Commits
  BY <1>35 DEF Commits
<1>36. CASE PrepareReady
  BY <1>36 DEF PrepareReady
<1>37. CASE PrepareRefused
  BY <1>37 DEF PrepareRefused
<1>38. CASE InitializeBegins
  BY <1>38 DEF InitializeBegins
<1>39. CASE StartEnters
  BY <1>39 DEF StartEnters, MigrationsCurrent
<1>40. CASE StartRuns
  BY <1>40 DEF StartRuns
<1>41. CASE UserPlays
  BY <1>41 DEF UserPlays, Serving
<1>42. CASE EngineStops
  BY <1>42 DEF EngineStops, Serving
<1>43. CASE EngineFails
  BY <1>43 DEF EngineFails, Serving
<1>44. CASE Crash
  BY <1>44 DEF Crash
<1>45. CASE StepFails
  BY <1>45 DEF StepFails
<1>46. CASE MariaFails
  BY <1>46 DEF MariaFails
<1>50. CASE HealthCheckFails
  BY <1>50 DEF HealthCheckFails
<1>51. CASE UnwindClears
  BY <1>51 DEF UnwindClears
<1>47. CASE SeedTears
  BY <1>47 DEF SeedTears
<1>48. CASE AppUpdates
  BY <1>48 DEF AppUpdates
<1>49. CASE UNCHANGED provVars
  BY <1>49
<1> QED
  BY <1>1, <1>2, <1>3, <1>4, <1>5, <1>6, <1>7, <1>8, <1>9, <1>10, <1>11, <1>12, <1>13,
     <1>14, <1>15, <1>16, <1>17, <1>18, <1>19, <1>20, <1>21, <1>22, <1>23, <1>24, <1>25,
     <1>26, <1>27, <1>28, <1>29, <1>30, <1>31, <1>32, <1>33, <1>34, <1>35, <1>36, <1>37,
     <1>38, <1>39, <1>40, <1>41, <1>42, <1>43, <1>44, <1>45, <1>46, <1>47, <1>48, <1>49,
     <1>50, <1>51
     DEF Next, Operation, Prepare, Recovery, Initialize, Recover, Provision, Start,
     Environment

LEMMA PreparationInvariantHolds ==
    ASSUME "cutcommit" \notin Faults, MaxSteps >= 3
    PROVE  Spec => [](IInv /\ CleanIsKept /\ StepsAreLeft)
<1>1. Init => CleanIsKept /\ StepsAreLeft
  BY DEF Init, CleanIsKept, StepsAreLeft
<1>2. IInv /\ IInv' /\ CleanIsKept /\ StepsAreLeft /\ [Next]_provVars
        => CleanIsKept' /\ StepsAreLeft'
  BY CleanIsKeptStep, StepsAreLeftStep
<1> QED
  BY <1>1, <1>2, InvariantHolds, PTL DEF Spec

(* "database preparation did not converge" is never thrown: from whatever  *)
(* an interrupted seed, import, re-provision or recovery left, on every    *)
(* device and after any number of faults and updates, three of the steps   *)
(* that prepareDatabaseForStart allows itself, the one that reads READY    *)
(* included, lead to ready or to a refusal.  (A process that dies between  *)
(* the seals of an import is excluded.)                                    *)
THEOREM PreparationFitsItsSteps ==
    ASSUME "cutcommit" \notin Faults, MaxSteps >= 3
    PROVE  Spec => []PreparationIsBounded
<1>1. IInv /\ CleanIsKept /\ StepsAreLeft => PreparationIsBounded
  BY DEF IInv, ProvTypeOK, StepsAreLeft, PreparationIsBounded
<1> QED
  BY <1>1, PreparationInvariantHolds, PTL
=============================================================================
