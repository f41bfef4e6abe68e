--------------------------- MODULE SupervisorSafety ---------------------------
(***************************************************************************)
(* Safety of the supervisor: what it may never do to a service it does not *)
(* own, and what a clean journal means.                                    *)
(***************************************************************************)
EXTENDS SupervisorProofs

-----------------------------------------------------------------------------
(* NeverKillsUnverifiedOwner *)

Untouched(c) == native'[c] = native[c] /\ owner'[c] = owner[c]

(* A change of one service leaves another one alone.                       *)
LEMMA OtherChange ==
    ASSUME ServicesOK, NEW c \in Component, NEW d \in Component, d # c,
           NEW n, NEW o, NEW w, Change(d, n, o, w)
    PROVE  Untouched(c)
BY DEF ServicesOK, Change, Untouched

(* So does each of the ways in which a service is stopped, killed or       *)
(* claimed.                                                                *)
LEMMA OtherService ==
    ASSUME ServicesOK, NEW c \in Component, NEW d \in Component, d # c
    PROVE  /\ \A n, o, w : SetService(d, n, o, w) => Untouched(c)
           /\ Recycle(d) => Untouched(c)
           /\ ServiceStop(d) => Untouched(c)
           /\ StopUnacknowledged(d) => Untouched(c)
           /\ ServiceKill(d) => Untouched(c)
BY OtherChange DEF SetService, Recycle, ServiceStop, StopUnacknowledged, ServiceKill

(* Nothing happens to a service when no service changes.                   *)
LEMMA SameServicesUntouched ==
    ASSUME NEW c, UNCHANGED services
    PROVE  Untouched(c)
BY DEF services, Untouched

(* The heart of NeverKillsUnverifiedOwner: no supervisor step outside the  *)
(* consented verb and recoverDatabase touches a live service whose owner   *)
(* it cannot verify.  One case per action: each acts only on a service it  *)
(* found ownerless, ended, or under the claim it holds.                    *)
LEMMA StepSpares ==
    ASSUME TypeInv, NEW c \in Component, Next,
           Acts, loc.verb # "consent", ~EngineShutdown(c), Live(native[c]),
           owner[c] \notin Verified(c)
    PROVE  Untouched(c)
<1> USE DEF TypeInv
<1>0. /\ owner[c] # NoOwner /\ owner[c] # OwnerOf(c) /\ owner[c] # PriorOwner(c)
      /\ owner[c] # loc.claim /\ native[c] # "STOPPED" /\ native[c] # "FAILED"
  BY DEF Verified, Live
<1>a. SameServices => Untouched(c)
  BY SameServicesUntouched DEF SameServices
<1>b. ~Orphan(c)
  BY <1>0 DEF Orphan
<1>c. /\ pc \in AtComponent => loc.cur \in Component
      /\ pc \notin {"orphans", "orphanDb"}
  BY DEF OpInv, OperationOK, ConsentOK
<1>d. {"DATABASE", "REALM", "WORLD", "CLIENT"} = Component
  BY DEF Component
<1>e. \A d \in Component : Orphan(d) =>
        \A n, o, w : SetService(d, n, o, w) => Untouched(c)
  BY <1>b, OtherService
<1>f. \A d \in Component : Orphan(d) /\ Recycle(d) => Untouched(c)
  BY <1>b, OtherService
<1>1. CASE RecoverStep
  <2>1. CASE RecoverSkip \/ RecoverObserveFails \/ RecoverOrphan \/ RecoverUnverified
             \/ RecoverGrace
    BY <1>a, <2>1 DEF RecoverSkip, RecoverObserveFails, RecoverOrphan, RecoverUnverified,
                      RecoverGrace
  <2>2. CASE RecoverKill
    BY <1>0, <1>a, <2>2, OtherService DEF RecoverKill, Recovering
  <2>3. CASE RecoverHeal
    BY <1>a, <1>c, <1>e, <1>f, <2>3 DEF RecoverHeal, AdoptAndKill, AtComponent
  <2>4. CASE RecoverDatabase
    <3>1. c # "DATABASE"
      BY <2>4 DEF RecoverDatabase, EngineShutdown
    <3> QED
      BY <1>a, <1>d, <2>4, <3>1, OtherChange, SameServicesUntouched DEF RecoverDatabase
  <2> QED BY <1>1, <2>1, <2>2, <2>3, <2>4 DEF RecoverStep
<1>2. CASE StopStep
  <2>1. CASE StopSkip \/ StopRecorded \/ StopCommit
    BY <1>a, <2>1 DEF StopSkip, StopRecorded, StopCommit
  <2>2. CASE SaveWorld
    BY <2>2, SameServicesUntouched DEF SaveWorld
  <2>3. CASE StopOwned
    BY <1>0, <1>a, <2>3, OtherService DEF StopOwned
  <2>4. CASE ForceOwned
    <3>1. loc.cur \in Component
      BY <1>c, <2>4 DEF ForceOwned, AtComponent
    <3> QED BY <1>0, <1>a, <2>4, <3>1, OtherService DEF ForceOwned
  <2> QED BY <1>2, <2>1, <2>2, <2>3, <2>4 DEF StopStep
<1>3. CASE StartStep
  <2>1. CASE PreflightEnds \/ StageRequest \/ StageReady \/ ProjectAdvertisement \/ UnwindStage
             \/ IsolateRecorded
    BY <1>a, <2>1 DEF PreflightEnds, StageRequest, StageReady, ProjectAdvertisement,
                      UnwindStage, IsolateRecorded
  <2>2. CASE AcceptSession
    BY <2>2, SameServicesUntouched DEF AcceptSession
  <2>3. CASE BackendStart
    <3>1. loc.cur \in Component
      BY <1>c, <2>3 DEF BackendStart, AtComponent
    <3>2. Claimable(loc.cur) => loc.cur # c
      BY <1>0 DEF Claimable
    <3>3. Claimable(loc.cur) =>
            /\ \A n, o, w : SetService(loc.cur, n, o, w) => Untouched(c)
            /\ Recycle(loc.cur) => Untouched(c)
      BY <3>1, <3>2, OtherService
    <3> QED BY <1>a, <2>3, <3>3 DEF BackendStart, BootFails, BootRefused
  <2>4. CASE RetireFailedNative
    <3>1. loc.cur \in Component
      BY <1>c, <2>4 DEF RetireFailedNative, AtComponent
    <3> QED BY <1>0, <1>a, <2>4, <3>1, OtherService DEF RetireFailedNative
  <2>5. CASE ReclaimDatabase
    <3>1. ProvenEnded(owner["DATABASE"]) => c # "DATABASE"
      BY DEF ProvenEnded
    <3> QED BY <1>a, <1>d, <2>5, <3>1, OtherService DEF ReclaimDatabase
  <2>6. CASE DrainClient
    BY <1>0, <1>a, <1>d, <2>6, OtherService DEF DrainClient
  <2> QED BY <1>3, <2>1, <2>2, <2>3, <2>4, <2>5, <2>6 DEF StartStep
<1>4. CASE CompanionStep \/ ConsentStop \/ ConsentDatabase \/ UnexpectedOperationFailure
  BY <1>4, <1>a, <1>c, SameServicesUntouched
  DEF CompanionStep, CompanionEnds, CompanionRolledBack, ConsentStop, ConsentDatabase,
      UnexpectedOperationFailure
<1>5. CASE Request
  <2>1. SameServices \/ UNCHANGED services
    BY <1>5 DEF Request, Start, PreflightVerb, Recover, RelaunchClient, ConsentBegin,
                TransferBegin, Stop, Companion
  <2> QED BY <1>a, <2>1, SameServicesUntouched
<1>6. CASE Monitor
  <2>1. ASSUME NEW d \in Component, MonitorHeal(d)
        PROVE  Untouched(c)
    BY <1>a, <1>e, <1>f, <2>1 DEF MonitorHeal, AdoptAndKill
  <2> QED BY <1>6, <1>a, <2>1 DEF Monitor, MonitorTick, MonitorFailed
<1>7. CASE TransferRead \/ TransferWrite \/ JournalWriteFails
  BY <1>7, <1>a DEF TransferRead, TransferWrite, JournalWriteFails
<1>8. CASE ServiceStep \/ \E d \in Component : NativeDies(d)
  <2>1. Idle
    BY <1>8 DEF ServiceStep, OwnerDied, LossTeardown, BootSettles, RetireWorld, NativeDies
  <2> QED BY <2>1 DEF Idle, Acts
<1>9. CASE SupervisorCrash
  BY <1>9 DEF SupervisorCrash, Untouched
<1> QED
  BY <1>1, <1>2, <1>3, <1>4, <1>5, <1>6, <1>7, <1>8, <1>9 DEF Next, OperationStep

(* dirtyRecoveryNeverKillsAnUnverifiedOwner, for every behaviour:          *)
(* recovery, stop, start, relaunch, companion mode and the monitor never   *)
(* stop, kill or adopt a live service that reports an owner other than the *)
(* one the journal names.  Holds with the unlocked transfer writes too.    *)
THEOREM NeverKills == Spec => NeverKillsUnverifiedOwner
<1> DEFINE Spares == \A c \in Component :
             Acts /\ loc.verb # "consent" /\ ~EngineShutdown(c) /\ Live(native[c])
                  /\ owner[c] \notin Verified(c)
             => native'[c] = native[c] /\ owner'[c] = owner[c]
<1>1. TypeInv /\ [Next]_vars => [Spares]_vars
  BY StepSpares DEF Untouched
<1> QED
  BY <1>1, TypeInvariant, PTL DEF Spec, NeverKillsUnverifiedOwner

-----------------------------------------------------------------------------
(* CleanHoldsNoClaim *)

(* CleanHoldsNoClaim is not inductive: a stage in progress must be known to   *)
(* be dirty, because StageReady copies clean, and a stop must commit a phase *)
(* that a start accepts.                                                     *)
CleanInv ==
    /\ transfer = NoSnapshot /\ CleanHoldsNoClaim
    /\ pc \notin {"idle", "preflight", "escaped"} => ~clean
    /\ pc \in {"stop", "force", "stopped"} => loc.final \in {"STOPPED", "ERROR"}

(* A first launch is clean and at rest.                                    *)
LEMMA CleanInit == Init => CleanInv
BY DEF Init, CleanInv, CleanHoldsNoClaim, Startable

(* A step that ends dirty keeps the invariant if a stop in progress keeps  *)
(* its final phase.                                                        *)
LEMMA StaysDirty ==
    ASSUME TypeInv, CleanInv, UNCHANGED transfer, ~clean',
           pc' \in {"stop", "force", "stopped"} => loc'.final \in {"STOPPED", "ERROR"}
    PROVE  CleanInv'
BY DEF CleanInv, CleanHoldsNoClaim

(* The invariant is inductive relative to the types, as long as no         *)
(* transfer writes a stale snapshot.                                       *)
LEMMA CleanStep ==
    ASSUME "transfer" \notin Faults, TypeInv, CleanInv, Next
    PROVE  CleanInv'
<1> USE DEF TypeInv
<1>0. loc \in Locs /\ clean \in BOOLEAN
  BY DEF OpInv, OperationOK, JournalOK
<1>a. Fail /\ UNCHANGED transfer => CleanInv'
  BY StaysDirty DEF Fail, Finish, Publish
<1>b. ASSUME NEW l, RecoverBegin(l), UNCHANGED transfer
      PROVE  CleanInv'
  BY <1>b, StaysDirty DEF RecoverBegin, Publish, Goto
<1>c. ASSUME NEW l \in Locs, NEW js, NEW jt, NEW g, NEW f \in {"STOPPED", "ERROR"}, NEW p,
             StopLocked(l, js, jt, g, f, p), UNCHANGED transfer
      PROVE  CleanInv'
  <2>1. loc'.final = f
    BY <1>c DEF StopLocked, Goto, Locs
  <2> QED BY <1>c, <2>1, StaysDirty DEF StopLocked, Publish, Goto
<1>1. CASE RecoverStep
  <2>1. ~clean => (RecoverAdvance /\ UNCHANGED <<journal, transfer>> => CleanInv')
    BY StaysDirty DEF RecoverAdvance, Goto, journal
  <2>2. CASE RecoverSkip \/ RecoverObserveFails \/ RecoverOrphan \/ RecoverUnverified
             \/ RecoverGrace \/ RecoverKill \/ RecoverHeal
    <3>1. ~clean
      BY <2>2 DEF RecoverSkip, RecoverObserveFails, RecoverOrphan, RecoverUnverified,
                  RecoverGrace, RecoverKill, RecoverHeal, Recovering, CleanInv
    <3>2. UNCHANGED transfer
      BY <2>2 DEF RecoverSkip, RecoverObserveFails, RecoverOrphan, RecoverUnverified,
                  RecoverGrace, RecoverKill, RecoverHeal
    <3>3. \/ Fail \/ (RecoverAdvance /\ UNCHANGED journal)
          \/ (pc' \in {"grace", "recover"} /\ UNCHANGED journal)
      BY <2>2 DEF RecoverSkip, RecoverObserveFails, RecoverOrphan, RecoverUnverified,
                  RecoverGrace, RecoverKill, RecoverHeal, AdoptAndKill, Goto
    <3> QED BY <1>a, <2>1, <3>1, <3>2, <3>3, StaysDirty DEF journal
  <2>3. CASE RecoverDatabase
    <3>1. RecoverCommit /\ UNCHANGED transfer => CleanInv'
      BY DEF RecoverCommit, PublishFresh, Goto, Finish, CleanInv, CleanHoldsNoClaim, Startable
    <3> QED BY <1>a, <2>3, <3>1 DEF RecoverDatabase
  <2> QED BY <1>1, <2>2, <2>3 DEF RecoverStep
<1>2. CASE StopStep
  <2>1. UNCHANGED transfer
    BY <1>2 DEF StopStep, StopSkip, SaveWorld, StopOwned, ForceOwned, StopRecorded, StopCommit
  <2>2. ~clean /\ loc.final \in {"STOPPED", "ERROR"}
    BY <1>2 DEF StopStep, StopSkip, SaveWorld, StopOwned, ForceOwned, StopRecorded, StopCommit,
                CleanInv
  <2>3. CASE StopSkip \/ SaveWorld \/ StopOwned \/ StopRecorded
    <3>1. clean' = FALSE
      BY <2>2, <2>3 DEF StopSkip, SaveWorld, StopOwned, StopRecorded, Publish, journal
    <3>2. loc'.final = loc.final
      BY <1>0, <2>3 DEF StopSkip, SaveWorld, StopOwned, StopRecorded, ForceNext, Goto, Locs
    <3> QED BY <2>1, <2>2, <3>1, <3>2, StaysDirty
  <2>4. CASE ForceOwned
    <3>1. clean' = FALSE
      BY <2>2, <2>4 DEF ForceOwned, FailStopCleanup, Publish
    <3>2. loc'.final = loc.final \/ pc' = "idle"
      BY <1>0, <2>4 DEF ForceOwned, FailStopCleanup, Finish, Goto, Locs
    <3> QED BY <2>1, <2>2, <3>1, <3>2, StaysDirty
  <2>5. CASE StopCommit
    BY <2>1, <2>2, <2>5 DEF StopCommit, Publish, Finish, CleanInv, CleanHoldsNoClaim, Startable
  <2> QED BY <1>2, <2>3, <2>4, <2>5 DEF StopStep
<1>3. CASE StartStep
  <2>1. UNCHANGED transfer
    BY <1>3 DEF StartStep, PreflightEnds, AcceptSession, StageRequest, BackendStart,
                RetireFailedNative, ReclaimDatabase, StageReady, ProjectAdvertisement,
                UnwindStage, DrainClient, IsolateRecorded
  <2>2. CASE PreflightEnds
    BY <2>1, <2>2 DEF PreflightEnds, PublishFresh, Finish, journal, CleanInv,
                      CleanHoldsNoClaim, Startable
  <2>3. CASE AcceptSession
    BY <2>1, <2>3, StaysDirty DEF AcceptSession, PublishFresh, Goto
  <2>4. CASE StageRequest \/ BackendStart \/ RetireFailedNative \/ ReclaimDatabase
             \/ ProjectAdvertisement
    <3>1. ~clean
      BY <2>4 DEF StageRequest, BackendStart, RetireFailedNative, ReclaimDatabase,
                  ProjectAdvertisement, CleanInv
    <3>2. \/ StageFails
          \/ clean' = clean /\ pc' \in {"stage", "start", "stageReady", "retire", "reclaim"}
      BY <2>4 DEF StageRequest, BackendStart, RetireFailedNative, ReclaimDatabase,
                  ProjectAdvertisement, Publish, Goto, journal
    <3>3. StageFails => clean' = clean /\ pc' \in {"isolate", "unwind"}
      BY DEF StageFails, Publish, Goto
    <3> QED BY <1>0, <2>1, <3>1, <3>2, <3>3, StaysDirty
  <2>5. CASE StageReady
    <3>1. clean' = FALSE
      BY <1>0, <2>5 DEF StageReady, Publish, CleanInv
    <3>2. pc' \in {"idle", "project", "stage"}
      BY <2>5 DEF StageReady, Finish, Goto
    <3> QED BY <2>1, <3>1, <3>2, StaysDirty
  <2>6. CASE UnwindStage
    BY <1>0, <1>c, <2>1, <2>6 DEF UnwindStage
  <2>7. CASE DrainClient \/ IsolateRecorded
    <3>1. ~clean
      BY <2>7 DEF DrainClient, IsolateRecorded, CleanInv
    <3>2. Fail \/ (clean' = clean /\ pc' \in {"isolated", "stage", "idle"})
      BY <2>7 DEF DrainClient, IsolateRecorded, Publish, Goto, Finish, journal
    <3> QED BY <1>0, <1>a, <2>1, <3>1, <3>2, StaysDirty
  <2> QED BY <1>3, <2>2, <2>3, <2>4, <2>5, <2>6, <2>7 DEF StartStep
<1>4. CASE CompanionStep \/ ConsentStop \/ ConsentDatabase
  <2>1. UNCHANGED transfer /\ ~clean
    BY <1>4 DEF CompanionStep, CompanionEnds, CompanionRolledBack, ConsentStop, ConsentDatabase,
                CleanInv
  <2>2. Fail \/ (clean' = FALSE /\ pc' \in {"idle", "rollback", "orphans", "orphanDb"})
    BY <1>0, <1>4, <2>1 DEF CompanionStep, CompanionEnds, CompanionRolledBack, ConsentStop,
         ConsentDatabase, ConsentAdvance, AdoptAndKill, ConsentCommit, Publish, PublishFresh,
         Goto, Finish, journal
  <2> QED BY <1>a, <2>1, <2>2, StaysDirty
<1>5. CASE UnexpectedOperationFailure
  BY <1>5 DEF UnexpectedOperationFailure, Publish, PublishFresh, Finish, journal, CleanInv,
              CleanHoldsNoClaim, Startable
<1>6. CASE Request
  <2>1. ASSUME NEW m \in Mode, NEW client \in BOOLEAN, Start(m, client)
        PROVE  CleanInv'
    <3>1. CASE \E l : RecoverBegin(l)
      BY <1>b, <2>1, <3>1 DEF Start
    <3>2. CASE UNCHANGED journal /\ pc' = "preflight"
      BY <2>1, <3>2 DEF Start, journal, CleanInv, CleanHoldsNoClaim
    <3> QED BY <2>1, <3>1, <3>2 DEF Start, Goto
  <2>2. ASSUME NEW m \in Mode, PreflightVerb(m)
        PROVE  CleanInv'
    BY <2>2 DEF PreflightVerb, Goto, journal, CleanInv, CleanHoldsNoClaim
  <2>3. CASE Recover
    BY <1>b, <2>3 DEF Recover
  <2>4. CASE RelaunchClient
    <3>1. ~clean
      BY <2>4 DEF RelaunchClient, RelaunchOffered, CleanInv, CleanHoldsNoClaim, Startable
    <3> QED BY <1>0, <2>4, <3>1, StaysDirty DEF RelaunchClient, Goto, journal
  <2>5. CASE ConsentBegin
    BY <2>5, StaysDirty DEF ConsentBegin, Publish, Goto
  <2>6. ~TransferBegin
    BY DEF TransferBegin, Fault
  <2>7. ASSUME NEW b \in BOOLEAN, Stop(b)
        PROVE  CleanInv'
    <3>1. Locals("stop") \in Locs
      BY LocalsType DEF Verb
    <3> QED BY <1>c, <2>7, <3>1 DEF Stop
  <2>8. ASSUME NEW b \in BOOLEAN, Companion(b)
        PROVE  CleanInv'
    BY <2>8, StaysDirty DEF Companion, Publish, Goto
  <2> QED BY <1>6, <2>1, <2>2, <2>3, <2>4, <2>5, <2>6, <2>7, <2>8 DEF Request
<1>7. CASE Monitor
  <2>0. Locals("monitor") \in Locs
    BY LocalsType DEF Verb
  <2>1. CASE MonitorTick
    BY <2>1 DEF MonitorTick, journal, CleanInv, CleanHoldsNoClaim
  <2>2. ASSUME NEW c \in Component, MonitorFailed(c)
        PROVE  CleanInv'
    <3>1. ~clean
      BY <2>2 DEF MonitorFailed, Reaches, CleanInv, CleanHoldsNoClaim, Startable,
                  MonitoredPhases
    <3>2. \/ pc' = "isolate" /\ UNCHANGED journal
          \/ StopLocked(Locals("monitor"), [jstate EXCEPT ![c] = "FAILED"], jtoken,
                        FALSE, "ERROR", TRUE)
      BY <2>2 DEF MonitorFailed, Goto
    <3>3. UNCHANGED transfer
      BY <2>2 DEF MonitorFailed
    <3>4. CASE pc' = "isolate" /\ UNCHANGED journal
      BY <3>1, <3>3, <3>4, StaysDirty DEF journal
    <3> QED BY <1>c, <2>0, <3>2, <3>3, <3>4
  <2>3. ASSUME NEW c \in Component, MonitorHeal(c)
        PROVE  CleanInv'
    <3>1. UNCHANGED transfer
      BY <2>3 DEF MonitorHeal
    <3>2. \/ RecoverBegin(Locals("monitor")) \/ Fail
          \/ StopLocked(Locals("monitor"), [jstate EXCEPT ![c] = "STOPPED"],
                        [jtoken EXCEPT ![c] = NoToken], FALSE, "ERROR", TRUE)
      BY <2>3 DEF MonitorHeal, AdoptAndKill
    <3> QED BY <1>a, <1>b, <1>c, <2>0, <3>1, <3>2
  <2> QED BY <1>7, <2>1, <2>2, <2>3 DEF Monitor
<1>8. ~TransferRead /\ ~TransferWrite
  BY ConstantsAssumption DEF TransferRead, TransferWrite, Captured, CleanInv
<1>9. CASE JournalWriteFails
  BY <1>9 DEF JournalWriteFails, Goto, journal, CleanInv, CleanHoldsNoClaim
<1>10. CASE ServiceStep \/ \E d \in Component : NativeDies(d)
  <2>1. Idle
    BY <1>10 DEF ServiceStep, OwnerDied, LossTeardown, BootSettles, RetireWorld, NativeDies
  <2> QED BY <2>1 DEF Idle, journal, CleanInv, CleanHoldsNoClaim
<1>11. CASE SupervisorCrash
  BY <1>11 DEF SupervisorCrash, journal, CleanInv, CleanHoldsNoClaim
<1> QED
  BY <1>1, <1>2, <1>3, <1>4, <1>5, <1>6, <1>7, <1>8, <1>9, <1>10, <1>11
  DEF Next, OperationStep

(* A clean journal names no claim and no running component and is in a     *)
(* phase a start accepts, so the "runtime is already active" refusal of    *)
(* start() is never reached.  Assumes that no character transfer runs: one *)
(* that does publishes outside operationLock and can bring an old snapshot *)
(* back.                                                                   *)
THEOREM CleanIsAtRest ==
    ASSUME "transfer" \notin Faults
    PROVE  Spec => []CleanHoldsNoClaim
<1>1. CleanInv /\ UNCHANGED vars => CleanInv'
  BY DEF CleanInv, CleanHoldsNoClaim, vars, journal
<1>2. TypeInv /\ CleanInv /\ [Next]_vars => CleanInv'
  BY <1>1, CleanStep
<1>3. CleanInv => CleanHoldsNoClaim
  BY DEF CleanInv
<1> QED
  BY <1>2, <1>3, CleanInit, TypeInvariant, PTL DEF Spec
=============================================================================
