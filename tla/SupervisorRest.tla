---------------------------- MODULE SupervisorRest ----------------------------
(***************************************************************************)
(* What the services do against what the journal says: nothing runs that   *)
(* the journal does not account for, teardown follows STOP_ORDER, sessions *)
(* never meet, a clean stop has saved the world, and a launch that ends in  *)
(* RUNNING leaves no paused world behind.                                  *)
(***************************************************************************)
EXTENDS SupervisorJournal

-----------------------------------------------------------------------------
(* Only a boot raises a runtime *)

(* No runtime comes up in this step. *)
Subsides == \A c \in Component : Live(native'[c]) => Live(native[c])

(* A change of one service that does not bring its runtime up.             *)
LEMMA ChangeSubsides ==
    ASSUME ServicesOK, NEW c \in Component, NEW n, NEW o, NEW w, Change(c, n, o, w),
           Live(n) => Live(native[c])
    PROVE  Subsides /\ (~Live(n) => ~Live(native'[c]))
BY DEF ServicesOK, Change, Subsides, Live

(* Stops, kills and deaths take the runtime down.                          *)
LEMMA TakenDown ==
    ASSUME ServicesOK, NEW c \in Component,
           Recycle(c) \/ ServiceStop(c) \/ ServiceKill(c)
    PROVE  Subsides /\ ~Live(native'[c])
<1>1. CASE Recycle(c)
  BY <1>1, ChangeSubsides DEF Recycle, SetService, Live
<1>2. CASE ServiceStop(c)
  BY <1>2, ChangeSubsides DEF ServiceStop, Live
<1>3. CASE Live(native[c]) /\ SetService(c, "FAILED", owner[c], doom[c])
  BY <1>3, ChangeSubsides DEF SetService, Live
<1>4. CASE ~Live(native[c]) /\ SetService(c, native[c], NoOwner, doom[c] \ {"lease"})
  BY <1>4, ChangeSubsides DEF SetService
<1> QED BY <1>1, <1>2, <1>3, <1>4 DEF ServiceKill

(* A service that only changes hands keeps its runtime.                    *)
LEMMA HandedOver ==
    ASSUME ServicesOK, NEW c \in Component, NEW o, NEW w, SetService(c, native[c], o, w)
    PROVE  Subsides
BY ChangeSubsides DEF SetService

(* Nothing comes up when no service changes.                               *)
LEMMA SameSubsides ==
    ASSUME UNCHANGED services
    PROVE  Subsides
BY DEF services, Subsides

-----------------------------------------------------------------------------
(* Leases *)

(* A lease that is to expire belongs to an owner. *)
LeaseInv == \A c \in Component : "lease" \in doom[c] => owner[c] # NoOwner

(* A change of one service that leaves an owner wherever it leaves a lease. *)
LEMMA ChangeLease ==
    ASSUME ServicesOK, LeaseInv, NEW c \in Component, NEW n, NEW o, NEW w, Change(c, n, o, w),
           "lease" \in w => o # NoOwner
    PROVE  LeaseInv'
BY DEF ServicesOK, LeaseInv, Change

(* Stops, kills and deaths end the lease with the claim.                   *)
LEMMA EndsLease ==
    ASSUME ServicesOK, LeaseInv, NEW c \in Component,
           Recycle(c) \/ ServiceStop(c) \/ ServiceKill(c)
    PROVE  LeaseInv'
<1>1. CASE Recycle(c)
  BY <1>1, ChangeLease DEF Recycle, SetService
<1>2. CASE ServiceStop(c)
  <2>1. "lease" \notin (doom[c] \ {"lease"}) \cup (IF c = "WORLD" THEN {"retire"} ELSE {})
    OBVIOUS
  <2> QED BY <1>2, <2>1, ChangeLease DEF ServiceStop
<1>3. CASE SetService(c, "FAILED", owner[c], doom[c])
  BY <1>3, ChangeLease DEF SetService, LeaseInv
<1>4. CASE SetService(c, native[c], NoOwner, doom[c] \ {"lease"})
  BY <1>4, ChangeLease DEF SetService
<1> QED BY <1>1, <1>2, <1>3, <1>4 DEF ServiceKill

(* A service that changes state, or gains an owner, keeps its lease.       *)
LEMMA KeepsLease ==
    ASSUME ServicesOK, LeaseInv, NEW c \in Component, NEW n, NEW o, NEW w,
           SetService(c, n, o, w), w \subseteq doom[c], o = owner[c] \/ o # NoOwner
    PROVE  LeaseInv'
BY ChangeLease DEF SetService, LeaseInv

(* An adopted or staged claim is an owner.                                 *)
LEMMA FreshClaim ==
    ASSUME NEW s \in Sessions, NEW t \in Tokens
    PROVE  [session |-> s, token |-> t] # NoOwner
BY ConstantsAssumption DEF Owner

(* Leases stay with their owners when no service changes.                  *)
LEMMA SameLease ==
    ASSUME LeaseInv, UNCHANGED services
    PROVE  LeaseInv'
BY DEF LeaseInv, services

(* What adoption may do to a service: end it, leave it alone, or leave it   *)
(* under the fresh claim when the kill fails.                              *)
Adopts(c, s) ==
    \/ Recycle(c)
    \/ SameServices
    \/ \E t \in FreshTokens(c) : SetService(c, native[c], [session |-> s, token |-> t], doom[c])

(* A step that raises no runtime and leaves every lease with its owner. *)
Calm == Subsides /\ LeaseInv'

(* Adoption is calm, and so is every stop or kill, and doing nothing.      *)
LEMMA ServiceCalm ==
    ASSUME ServicesOK, LeaseInv
    PROVE  /\ UNCHANGED services => Calm
           /\ \A c \in Component : Recycle(c) \/ ServiceStop(c) \/ ServiceKill(c) => Calm
           /\ \A c \in Component : \A s \in Sessions : Adopts(c, s) => Calm
<1>1. UNCHANGED services => Calm
  BY SameSubsides, SameLease DEF Calm
<1>2. ASSUME NEW c \in Component, Recycle(c) \/ ServiceStop(c) \/ ServiceKill(c)
      PROVE  Calm
  BY <1>2, TakenDown, EndsLease DEF Calm
<1>3. ASSUME NEW c \in Component, NEW s \in Sessions, Adopts(c, s)
      PROVE  Calm
  <2>1. CASE \E t \in FreshTokens(c) :
               SetService(c, native[c], [session |-> s, token |-> t], doom[c])
    BY <2>1, FreshType, FreshClaim, KeepsLease, HandedOver DEF Calm
  <2> QED BY <1>1, <1>2, <1>3, <2>1 DEF Adopts, SameServices
<1> QED BY <1>1, <1>2, <1>3

(* A service's own threads only give up: they start nothing, take no claim, *)
(* and give a claim up only with the runtime or with its lease.             *)
GivesUp ==
    /\ Subsides
    /\ \A c \in Component :
         /\ owner'[c] \in {owner[c], NoOwner}
         /\ "lease" \in doom'[c] => "lease" \in doom[c]
         /\ owner'[c] # owner[c] /\ Live(native'[c]) => "lease" \in doom[c]

(* What the environment does between two steps of the supervisor.          *)
LEMMA EnvironmentGivesUp ==
    ASSUME ServicesOK, LeaseInv, ServiceStep \/ \E d \in Component : NativeDies(d)
    PROVE  Idle /\ GivesUp /\ LeaseInv'
<1>1. Idle
  BY DEF ServiceStep, OwnerDied, LossTeardown, BootSettles, RetireWorld, NativeDies
<1>2. PICK c \in Component : (RetireWorld /\ c = "WORLD") \/ OwnerDied(c) \/ LossTeardown(c)
                             \/ BootSettles(c) \/ NativeDies(c)
  BY DEF ServiceStep, Component
<1>a. ASSUME NEW n, NEW o, NEW w, Change(c, n, o, w), w \subseteq doom[c] \cup {"loss"},
             Live(n) => Live(native[c]), o \in {owner[c], NoOwner},
             o # owner[c] /\ Live(n) => "lease" \in doom[c],
             "lease" \in w => o = owner[c]
      PROVE  GivesUp /\ LeaseInv'
  <2>1. Subsides
    BY <1>a, ChangeSubsides
  <2>2. LeaseInv'
    BY <1>a, ChangeLease DEF LeaseInv
  <2>3. /\ owner' = [owner EXCEPT ![c] = o] /\ doom' = [doom EXCEPT ![c] = w]
        /\ ~Live(n) => ~Live(native'[c])
    BY <1>a, ChangeSubsides DEF Change
  <2> QED BY <1>a, <2>1, <2>2, <2>3 DEF GivesUp, ServicesOK
<1>3. CASE \E n, o, w : /\ Change(c, n, o, w) /\ w \subseteq doom[c] \cup {"loss"}
                        /\ Live(n) => Live(native[c])
                        /\ o \in {owner[c], NoOwner}
                        /\ o # owner[c] /\ Live(n) => "lease" \in doom[c]
                        /\ "lease" \in w => o = owner[c]
  BY <1>1, <1>3, <1>a
<1>4. CASE RetireWorld /\ c = "WORLD"
  BY <1>3, <1>4 DEF RetireWorld, Recycle, SetService, Live
<1>5. CASE OwnerDied(c)
  BY <1>3, <1>5 DEF OwnerDied
<1>6. CASE LossTeardown(c)
  BY <1>3, <1>6 DEF LossTeardown, Recycle, SetService, Live
<1>7. CASE BootSettles(c)
  BY <1>3, <1>7 DEF BootSettles, SetService, Live
<1>8. CASE NativeDies(c)
  BY <1>3, <1>8 DEF NativeDies, Recycle, SetService, Live
<1> QED BY <1>2, <1>4, <1>5, <1>6, <1>7, <1>8

(* Every step leaves the leases with their owners, and every step but a    *)
(* boot is calm.                                                           *)
LEMMA StepCalm ==
    ASSUME TypeInv, LeaseInv, [Next]_vars
    PROVE  LeaseInv' /\ (BackendStart \/ Calm)
<1>0. /\ ServicesOK /\ JournalOK /\ loc \in Locs
      /\ pc \in AtComponent => loc.cur \in Component
      /\ pc \in SessionBound => loc.prior.session \in Sessions
      /\ pc \in ClaimBound => loc.claim \in Owner
  BY DEF TypeInv, OpInv, OperationOK, ClaimOK
<1>a. SameServices => Calm
  BY <1>0, ServiceCalm DEF SameServices
<1>b. {"DATABASE", "REALM", "WORLD", "CLIENT"} = Component
  BY DEF Component
<1>1. CASE RecoverStep
  <2>1. CASE RecoverSkip \/ RecoverObserveFails \/ RecoverOrphan \/ RecoverUnverified
             \/ RecoverGrace
    BY <1>a, <2>1 DEF RecoverSkip, RecoverObserveFails, RecoverOrphan, RecoverUnverified,
                      RecoverGrace, Calm
  <2>2. CASE RecoverKill
    BY <1>0, <1>a, <2>2, ServiceCalm DEF RecoverKill, Recovering, Calm
  <2>3. CASE RecoverHeal
    <3>1. loc.cur \in Component /\ loc.prior.session \in Sessions
      BY <1>0, <2>3 DEF RecoverHeal, AtComponent, SessionBound
    <3>2. SameServices \/ Adopts(loc.cur, loc.prior.session)
      BY <2>3 DEF RecoverHeal, AdoptAndKill, Adopts
    <3> QED BY <1>0, <1>a, <3>1, <3>2, ServiceCalm DEF Calm
  <2>4. CASE RecoverDatabase
    <3>1. \/ UNCHANGED services
          \/ Change("DATABASE", "STOPPED", NoOwner, {})
          \/ Change("DATABASE", "STOPPED", owner["DATABASE"], doom["DATABASE"])
      BY <2>4 DEF RecoverDatabase, SameServices
    <3>2. "DATABASE" \in Component /\ ~Live("STOPPED")
      BY DEF Component, Live
    <3>3. "lease" \in doom["DATABASE"] => owner["DATABASE"] # NoOwner
      BY <3>2 DEF LeaseInv
    <3> QED BY <1>0, <3>1, <3>2, <3>3, ServiceCalm, ChangeSubsides, ChangeLease DEF Calm
  <2> QED BY <1>1, <2>1, <2>2, <2>3, <2>4 DEF RecoverStep
<1>2. CASE StopStep
  <2>1. CASE StopSkip \/ StopRecorded \/ StopCommit
    BY <1>a, <2>1 DEF StopSkip, StopRecorded, StopCommit, Calm
  <2>2. CASE SaveWorld
    BY <1>0, <2>2, ServiceCalm DEF SaveWorld, Calm
  <2>3. CASE StopOwned
    <3>1. ASSUME NEW c \in Component, StopUnacknowledged(c)
          PROVE  Calm
      <4>1. CASE ServiceStop(c)
        BY <1>0, <4>1, ServiceCalm
      <4>2. CASE Change(c, "STOPPED", owner[c], doom[c])
        BY <1>0, <4>2, ChangeSubsides, ChangeLease DEF Calm, LeaseInv, Live
      <4> QED BY <3>1, <4>1, <4>2 DEF StopUnacknowledged
    <3> QED BY <1>0, <1>a, <2>3, <3>1, ServiceCalm DEF StopOwned, Calm
  <2>4. CASE ForceOwned
    <3>1. loc.cur \in Component
      BY <1>0, <2>4 DEF ForceOwned, AtComponent
    <3> QED BY <1>0, <1>a, <2>4, <3>1, ServiceCalm DEF ForceOwned, Calm
  <2> QED BY <1>2, <2>1, <2>2, <2>3, <2>4 DEF StopStep
<1>3. CASE StartStep
  <2>1. CASE PreflightEnds \/ StageRequest \/ StageReady \/ ProjectAdvertisement \/ UnwindStage
             \/ IsolateRecorded
    BY <1>a, <2>1 DEF PreflightEnds, StageRequest, StageReady, ProjectAdvertisement,
                      UnwindStage, IsolateRecorded, Calm
  <2>2. CASE AcceptSession
    BY <1>0, <2>2, ServiceCalm DEF AcceptSession, Calm
  <2>3. CASE BackendStart
    <3>1. loc.cur \in Component /\ loc.claim # NoOwner
      BY <1>0, <2>3, ConstantsAssumption DEF BackendStart, AtComponent, ClaimBound
    <3>2. \/ SameServices \/ Recycle(loc.cur)
          \/ \E n : SetService(loc.cur, n, loc.claim, doom[loc.cur])
      BY <2>3 DEF BackendStart, BootFails, BootRefused
    <3> QED BY <1>0, <1>a, <2>3, <3>1, <3>2, ServiceCalm, KeepsLease DEF Calm
  <2>4. CASE RetireFailedNative
    <3>1. loc.cur \in Component
      BY <1>0, <2>4 DEF RetireFailedNative, AtComponent
    <3> QED BY <1>0, <1>a, <2>4, <3>1, ServiceCalm DEF RetireFailedNative, Calm
  <2>5. CASE ReclaimDatabase
    BY <1>0, <1>a, <1>b, <2>5, ServiceCalm DEF ReclaimDatabase, Calm
  <2>6. CASE DrainClient
    BY <1>0, <1>a, <1>b, <2>6, ServiceCalm DEF DrainClient, Calm
  <2> QED BY <1>3, <2>1, <2>2, <2>3, <2>4, <2>5, <2>6 DEF StartStep
<1>4. CASE CompanionStep \/ UnexpectedOperationFailure
  BY <1>0, <1>4, <1>a, ServiceCalm
  DEF CompanionStep, CompanionEnds, CompanionRolledBack, UnexpectedOperationFailure, Calm
<1>5. CASE ConsentStop
  <2>1. loc.cur \in Component
    BY <1>0, <1>5 DEF ConsentStop, AtComponent
  <2>2. \/ SameServices \/ ServiceKill(loc.cur)
        \/ \E s \in IF loc.prior.session = NoSession THEN FreshSessions
                     ELSE {loc.prior.session} : Adopts(loc.cur, s)
    BY <1>5 DEF ConsentStop, AdoptAndKill, Adopts
  <2>3. (IF loc.prior.session = NoSession THEN FreshSessions ELSE {loc.prior.session})
          \subseteq Sessions
    BY <1>0, FreshType DEF Locs, Priors
  <2> QED BY <1>0, <1>a, <2>1, <2>2, <2>3, ServiceCalm DEF Calm
<1>6. CASE ConsentDatabase
  BY <1>0, <1>6, <1>a, <1>b, ServiceCalm DEF ConsentDatabase, Calm
<1>7. CASE Request
  <2>1. UNCHANGED services
    BY <1>7 DEF Request, Start, PreflightVerb, Recover, RelaunchClient, ConsentBegin,
                TransferBegin, Stop, Companion, SameServices
  <2> QED BY <1>0, <2>1, ServiceCalm DEF Calm
<1>8. CASE Monitor
  <2>1. ASSUME NEW d \in Component, MonitorHeal(d)
        PROVE  Calm
    <3>1. session \in Sessions
      BY <1>0, <2>1 DEF MonitorHeal, JournalOK
    <3>2. SameServices \/ Adopts(d, session)
      BY <2>1 DEF MonitorHeal, AdoptAndKill, Adopts
    <3> QED BY <1>0, <1>a, <3>1, <3>2, ServiceCalm
  <2> QED BY <1>8, <1>a, <2>1 DEF Monitor, MonitorTick, MonitorFailed, Calm
<1>9. CASE TransferRead \/ TransferWrite \/ JournalWriteFails
  BY <1>9, <1>a DEF TransferRead, TransferWrite, JournalWriteFails, Calm
<1>10. CASE ServiceStep \/ \E d \in Component : NativeDies(d)
  BY <1>0, <1>10, EnvironmentGivesUp DEF GivesUp, Calm
<1>11. CASE SupervisorCrash
  <2>1. Subsides
    BY <1>11 DEF SupervisorCrash, Subsides
  <2>2. LeaseInv'
    BY <1>0, <1>11 DEF SupervisorCrash, LeaseInv, ServicesOK
  <2> QED BY <2>1, <2>2 DEF Calm
<1>12. CASE UNCHANGED vars
  BY <1>0, <1>12, ServiceCalm DEF vars, Calm, services
<1> QED
  BY <1>1, <1>2, <1>3, <1>4, <1>5, <1>6, <1>7, <1>8, <1>9, <1>10, <1>11, <1>12
  DEF Next, OperationStep

-----------------------------------------------------------------------------
(* Nothing runs that the journal does not account for *)

(* The consented stop leaves the database to the next recovery, under a    *)
(* dirty journal that names no session. *)
Loose == session = NoSession /\ ~clean /\ mode # "LAN_JOIN" /\ "consent" \in Verbs
(* Whatever runs, a stop of the journalled session would stop. *)
Accounted ==
    \A c \in Component : Live(native[c]) => NeedsStop(c) \/ (c = "DATABASE" /\ Loose)

(* The components that STOP_ORDER puts before a place in it. *)
Before == [none |-> {}, CLIENT |-> {}, WORLD |-> {"CLIENT"}, REALM |-> {"CLIENT", "WORLD"},
           DATABASE |-> {"CLIENT", "WORLD", "REALM"}, done |-> Component]
Down(S) == \A d \in S : ~Live(native[d])

(* How far a teardown has come; recovery may pass the database by. *)
Downed ==
    /\ pc \in StopPlaces \cup ConsentPlaces => Down(Before[loc.cur])
    /\ pc \in RecoverPlaces => Down(Before[loc.cur] \ {"DATABASE"})
    /\ pc = "stopped" => ~Live(native[loc.cur])
    /\ pc = "isolated" => ~Live(native["CLIENT"])

(* A stage is not up before its boot; one whose boot failed and that is up  *)
(* all the same is still this supervisor's, so the unwind sees it.          *)
Staged ==
    /\ pc \in {"start", "reclaim", "retire"} =>
         /\ ~Live(native[loc.cur])
         /\ owner[loc.cur] = loc.claim => "lease" \notin doom[loc.cur]
    /\ pc = "unwind" /\ loc.cur \notin loc.started /\ Live(native[loc.cur]) =>
         /\ "boot" \in Faults
         /\ owner[loc.cur] = OwnerOf(loc.cur) /\ "lease" \notin doom[loc.cur]

RestInv == Accounted /\ Downed /\ Staged
BaseInv == TypeInv /\ CleanInv /\ ShapeInv /\ LeaseInv

(* What the results assume.  A transfer can bring an old snapshot back.  A  *)
(* boot that fails late and an unwind that cannot observe the stage strike  *)
(* a live service from the journal (run v_unwind).  A graceful stop of the  *)
(* journal that the consented stop leaves commits it clean with the         *)
(* database still up.                                                       *)
RestScope ==
    /\ "transfer" \notin Faults
    /\ ~({"boot", "unobserved"} \subseteq Faults)
    /\ ~({"stop", "consent"} \subseteq Verbs)

Guarded == StopPlaces \cup ConsentPlaces \cup RecoverPlaces
             \cup {"isolated", "start", "reclaim", "retire", "unwind"}

(* At a first launch nothing runs.                                         *)
LEMMA RestInit == Init => RestInv /\ LeaseInv
BY DEF Init, RestInv, LeaseInv, Accounted, Downed, Staged, Live, StopPlaces, ConsentPlaces,
       RecoverPlaces

(* Elsewhere only the accounting is at stake.                              *)
LEMMA UnguardedRest ==
    ASSUME Accounted', pc' \notin Guarded
    PROVE  RestInv'
BY DEF RestInv, Downed, Staged, Guarded, StopPlaces, ConsentPlaces, RecoverPlaces

(* The accounting survives when no running component loses its record and  *)
(* what comes up has one.                                                  *)
LEMMA RaisesAccount ==
    ASSUME TypeInv', Accounted, session' = session, mode' = mode, ~clean => ~clean',
           \A c \in Component : Live(native'[c]) => Live(native[c]) \/ NeedsStop(c),
           \A c \in Component :
             Live(native'[c]) /\ jtoken[c] # NoToken /\ jstate[c] # "STOPPED"
               => jtoken'[c] # NoToken /\ jstate'[c] # "STOPPED"
    PROVE  Accounted'
<1> SUFFICES ASSUME NEW c \in Component, Live(native'[c]), ~(c = "DATABASE" /\ Loose')
             PROVE  NeedsStop(c)'
  BY DEF Accounted
<1>1. NeedsStop(c)
  BY DEF Accounted, Loose
<1>2. /\ session # NoSession /\ jtoken[c] # NoToken /\ jstate[c] # "STOPPED"
      /\ mode = "LAN_JOIN" => c = "CLIENT"
  BY <1>1 DEF NeedsStop, OwnerOf
<1>3. jtoken'[c] # NoToken /\ jstate'[c] # "STOPPED"
  BY <1>2
<1>4. [session |-> session', token |-> jtoken'[c]] # NoOwner
  <2>1. session' \in Sessions /\ jtoken'[c] \in Tokens
    BY <1>2, <1>3 DEF TypeInv, JournalOK, Tokened
  <2> QED BY <2>1, FreshClaim
<1> QED BY <1>2, <1>3, <1>4 DEF NeedsStop, OwnerOf

(* In particular when nothing comes up.                                    *)
LEMMA KeepsAccount ==
    ASSUME TypeInv', Accounted, Subsides, session' = session, mode' = mode, ~clean => ~clean',
           \A c \in Component :
             Live(native'[c]) /\ jtoken[c] # NoToken /\ jstate[c] # "STOPPED"
               => jtoken'[c] # NoToken /\ jstate'[c] # "STOPPED"
    PROVE  Accounted'
BY RaisesAccount DEF Subsides

(* A journal that is left alone.                                           *)
LEMMA SameAccount ==
    ASSUME TypeInv', RestInv, Subsides, UNCHANGED journal
    PROVE  Accounted'
BY KeepsAccount DEF RestInv, journal

(* A record that changes without ending a component.                       *)
LEMMA RecordAccount ==
    ASSUME TypeInv, TypeInv', RestInv, Subsides, session' = session, mode' = mode,
           ~clean => ~clean', jtoken' = jtoken, NEW x \in Component, NEW v, v # "STOPPED",
           jstate' = [jstate EXCEPT ![x] = v]
    PROVE  Accounted'
<1>1. \A c \in Component : jstate[c] # "STOPPED" => jstate'[c] # "STOPPED"
  BY DEF TypeInv, JournalOK, Lifecycles
<1> QED BY <1>1, KeepsAccount DEF RestInv

(* The record of a component that is down is struck.                       *)
LEMMA StrikeAccount ==
    ASSUME TypeInv, TypeInv', RestInv, Subsides, session' = session, mode' = mode,
           ~clean => ~clean', NEW x \in Component, NEW v, ~Live(native'[x]),
           jstate' = [jstate EXCEPT ![x] = v], jtoken' = [jtoken EXCEPT ![x] = NoToken]
    PROVE  Accounted'
<1>1. \A c \in Component : c # x => jstate'[c] = jstate[c] /\ jtoken'[c] = jtoken[c]
  BY DEF TypeInv, JournalOK, Lifecycles, Tokened
<1> QED BY <1>1, KeepsAccount DEF RestInv

(* A journal of nothing accounts for nothing.                              *)
LEMMA EmptyAccount ==
    ASSUME \A c \in Component : ~Live(native'[c])
    PROVE  Accounted'
BY DEF Accounted

(* A clean journal finds nothing running.                                  *)
LEMMA CleanDown ==
    ASSUME CleanInv, RestInv, clean
    PROVE  \A c \in Component : ~Live(native[c])
BY DEF CleanInv, CleanHoldsNoClaim, RestInv, Accounted, Loose, NeedsStop, OwnerOf, Unowned

(* fail() keeps every record.                                              *)
LEMMA FailRest ==
    ASSUME TypeInv', RestInv, Subsides, Fail
    PROVE  RestInv'
<1>1. Accounted'
  BY KeepsAccount DEF Fail, Publish, RestInv
<1> QED
  BY <1>1, UnguardedRest DEF Fail, Finish, Guarded, StopPlaces, ConsentPlaces, RecoverPlaces

(* A stop begins with nothing to have stopped before.                      *)
LEMMA StopLockedRest ==
    ASSUME NEW l \in Locs, NEW js, NEW jt, NEW g, NEW f, NEW p,
           StopLocked(l, js, jt, g, f, p), Accounted'
    PROVE  RestInv'
<1>1. pc' = "stop" /\ loc'.cur = "CLIENT"
  BY DEF StopLocked, Goto, Locs
<1> QED
  BY <1>1 DEF RestInv, Downed, Staged, Down, Before, StopPlaces, ConsentPlaces, RecoverPlaces

(* So does a recovery.                                                     *)
LEMMA RecoverBeginRest ==
    ASSUME TypeInv', RestInv, Subsides, NEW l \in Locs, RecoverBegin(l)
    PROVE  RestInv'
<1>1. pc' = "recover" /\ loc'.cur = "CLIENT"
  BY DEF RecoverBegin, Goto, Locs
<1>2. Accounted'
  BY KeepsAccount DEF RecoverBegin, Publish, RestInv
<1> QED
  BY <1>1, <1>2 DEF RestInv, Downed, Staged, Down, Before, StopPlaces, ConsentPlaces,
                    RecoverPlaces

(* What is down stays down.                                                *)
LEMMA StaysDown ==
    ASSUME Subsides, NEW S \in SUBSET Component, Down(S)
    PROVE  Down(S)'
BY DEF Subsides, Down

(* Before follows STOP_ORDER.                                              *)
LEMMA BeforeNext ==
    /\ \A c \in Cursors : Before[c] \subseteq Component
    /\ \A c \in Component : Before[StopNext[c]] = Before[c] \cup {c}
BY DEF Before, StopNext, Component, Cursors

-----------------------------------------------------------------------------
(* Recovery *)

(* Recovery moves past a component that is down, or past the database.     *)
LEMMA RecoverAdvanceRest ==
    ASSUME TypeInv, TypeInv', ShapeInv, RestInv, Subsides, pc \in RecoverPlaces,
           loc.cur \in Component, RecoverAdvance, UNCHANGED journal,
           ~Live(native'[loc.cur]) \/ loc.cur = "DATABASE"
    PROVE  RestInv'
<1>0. loc \in Locs
  BY DEF TypeInv, OpInv, OperationOK
<1>1. /\ pc' = "recover"
      /\ loc'.cur = IF loc.prior.mode = "LAN_JOIN" THEN "done" ELSE StopNext[loc.cur]
  BY <1>0 DEF RecoverAdvance, Goto, Locs
<1>2. Accounted'
  BY SameAccount
<1>3. loc.prior.mode = mode
  BY DEF ShapeInv, StopShape, Prior
<1>4. \A d \in (Before[loc.cur] \cup {loc.cur}) \ {"DATABASE"} : ~Live(native'[d])
  BY BeforeNext DEF RestInv, Downed, Subsides, Down, Cursors
<1>5. CASE loc.prior.mode # "LAN_JOIN"
  <2>1. \A d \in Before[StopNext[loc.cur]] \ {"DATABASE"} : ~Live(native'[d])
    BY <1>4, BeforeNext
  <2>2. loc'.cur = StopNext[loc.cur]
    BY <1>1, <1>5
  <2> QED
    BY <1>1, <1>2, <2>1, <2>2 DEF RestInv, Downed, Staged, StopPlaces, ConsentPlaces,
                                  RecoverPlaces, Down
<1>6. CASE loc.prior.mode = "LAN_JOIN"
  <2>1. \A c \in Component : Live(native'[c]) => c = "CLIENT"
    BY <1>2, <1>3, <1>6 DEF Accounted, NeedsStop, Loose, journal
  <2>2. ~Live(native'["CLIENT"])
    BY <1>4, <2>1 DEF Down, Before, Component
  <2>3. Down(Component)'
    BY <2>1, <2>2 DEF Down
  <2> QED
    BY <1>1, <1>2, <1>6, <2>3 DEF RestInv, Downed, Staged, Before, StopPlaces, ConsentPlaces,
                                  RecoverPlaces, Down
<1> QED BY <1>5, <1>6

(* Every step of recoverLocked.                                            *)
LEMMA RecoverStepRest ==
    ASSUME BaseInv, TypeInv', RestInv, Subsides, RecoverStep
    PROVE  RestInv'
<1>0. /\ loc \in Locs /\ ServicesOK
      /\ pc \in AtComponent => loc.cur \in Component
  BY DEF BaseInv, TypeInv, OpInv, OperationOK
<1>1. ASSUME pc \in RecoverPlaces, loc.cur \in Component, RecoverAdvance, UNCHANGED journal,
             ~Live(native'[loc.cur]) \/ loc.cur = "DATABASE"
      PROVE  RestInv'
  BY <1>1, RecoverAdvanceRest DEF BaseInv
<1>2. ASSUME Fail
      PROVE  RestInv'
  BY <1>2, FailRest
<1>3. CASE RecoverSkip
  <2>1. /\ pc \in RecoverPlaces /\ loc.cur \in Component /\ RecoverAdvance
        /\ UNCHANGED journal /\ UNCHANGED services
    BY <1>3 DEF RecoverSkip, Recovering, RecoverPlaces, SameServices
  <2>2. CASE native[loc.cur] = "STOPPED"
    BY <1>1, <2>1, <2>2 DEF Subsides, Live
  <2>3. CASE PriorOwner(loc.cur) = NoOwner
    <3>1. loc.prior.session = session /\ loc.prior.token = jtoken
      BY <2>1 DEF BaseInv, ShapeInv, StopShape, Prior
    <3>2. OwnerOf(loc.cur) = NoOwner
      BY <2>3, <3>1 DEF PriorOwner, OwnerOf
    <3>3. Live(native[loc.cur]) => loc.cur = "DATABASE"
      BY <2>1, <3>2 DEF RestInv, Accounted, NeedsStop
    <3> QED BY <1>1, <2>1, <3>3 DEF Subsides
  <2> QED BY <1>3, <2>2, <2>3 DEF RecoverSkip
<1>4. CASE RecoverObserveFails \/ RecoverUnverified
  BY <1>2, <1>4 DEF RecoverObserveFails, RecoverUnverified
<1>5. CASE RecoverKill
  <2>1. pc \in RecoverPlaces /\ loc.cur \in Component
    BY <1>5 DEF RecoverKill, Recovering, RecoverPlaces
  <2> QED BY <1>0, <1>1, <1>2, <1>5, <2>1, TakenDown DEF RecoverKill
<1>6. CASE RecoverOrphan \/ RecoverGrace
  <2>1. /\ pc \in RecoverPlaces /\ pc' \in RecoverPlaces /\ loc'.cur = loc.cur
        /\ UNCHANGED journal
    BY <1>0, <1>6 DEF RecoverOrphan, RecoverGrace, Recovering, Goto, RecoverPlaces, Locs
  <2>2. Accounted'
    BY <2>1, SameAccount
  <2>3. Down(Before[loc.cur] \ {"DATABASE"})'
    BY <1>0, <2>1, BeforeNext DEF RestInv, Downed, Subsides, Down, Locs
  <2> QED
    BY <2>1, <2>2, <2>3 DEF RestInv, Downed, Staged, Down, StopPlaces, ConsentPlaces,
                            RecoverPlaces
<1>7. CASE RecoverHeal
  <2>1. pc \in RecoverPlaces /\ loc.cur \in Component
    BY <1>0, <1>7 DEF RecoverHeal, RecoverPlaces, AtComponent
  <2> QED BY <1>0, <1>1, <1>2, <1>7, <2>1, TakenDown DEF RecoverHeal, AdoptAndKill
<1>8. CASE RecoverDatabase
  <2>1. CASE Fail
    BY <1>2, <2>1
  <2>2. CASE RecoverCommit
    <3>1. \A c \in Component : c # "DATABASE" => ~Live(native[c])
      BY <1>8 DEF RecoverDatabase, RestInv, Downed, Down, Before, RecoverPlaces
    <3>2. ~Live(native'["DATABASE"]) \/ Fail
      <4>1. CASE loc.prior.mode = "LAN_JOIN" /\ UNCHANGED services
        <5>1. mode = "LAN_JOIN"
          BY <1>8, <4>1 DEF RecoverDatabase, BaseInv, ShapeInv, StopShape, RecoverPlaces, Prior
        <5> QED
          BY <4>1, <5>1 DEF RestInv, Accounted, NeedsStop, Loose, services, Component
      <4>2. CASE \/ Change("DATABASE", "STOPPED", NoOwner, {})
                 \/ Change("DATABASE", "STOPPED", owner["DATABASE"], doom["DATABASE"])
        BY <1>0, <4>2, ChangeSubsides DEF Live, Component
      <4> QED BY <1>8, <4>1, <4>2 DEF RecoverDatabase
    <3>3. ~Fail
      BY <2>2 DEF RecoverCommit, PublishFresh, Fail, Publish
    <3>4. Accounted'
      BY <3>1, <3>2, <3>3, EmptyAccount DEF Subsides
    <3>5. pc' \in {"idle", "preflight"}
      BY <2>2 DEF RecoverCommit, Finish, Goto
    <3> QED
      BY <3>4, <3>5, UnguardedRest DEF Guarded, StopPlaces, ConsentPlaces, RecoverPlaces
  <2> QED BY <1>8, <2>1, <2>2 DEF RecoverDatabase
<1> QED BY <1>3, <1>4, <1>5, <1>6, <1>7, <1>8 DEF RecoverStep

-----------------------------------------------------------------------------
(* Stops *)

(* A stop that stays at its component.                                     *)
LEMMA SameStopRest ==
    ASSUME TypeInv, RestInv, Subsides, Accounted', pc \in StopPlaces, pc' \in StopPlaces,
           loc'.cur = loc.cur, pc' = "stopped" => ~Live(native'[loc.cur])
    PROVE  RestInv'
<1>1. Before[loc.cur] \subseteq Component
  BY BeforeNext DEF TypeInv, OpInv, OperationOK, Locs
<1>2. \A d \in Before[loc.cur] : ~Live(native'[d])
  BY <1>1 DEF RestInv, Downed, Subsides, Down
<1> QED
  BY <1>2 DEF RestInv, Downed, Staged, Down, StopPlaces, ConsentPlaces, RecoverPlaces

(* A stop that goes on to the next component of STOP_ORDER.                *)
LEMMA NextStopRest ==
    ASSUME RestInv, Subsides, Accounted', pc \in StopPlaces, pc' = "stop",
           loc.cur \in Component, loc'.cur = StopNext[loc.cur], ~Live(native'[loc.cur])
    PROVE  RestInv'
<1>1. \A d \in Before[loc.cur] \cup {loc.cur} : ~Live(native'[d])
  BY BeforeNext DEF RestInv, Downed, Subsides, Down, Cursors
<1>2. \A d \in Before[StopNext[loc.cur]] : ~Live(native'[d])
  BY <1>1, BeforeNext
<1> QED
  BY <1>2 DEF RestInv, Downed, Staged, Down, StopPlaces, ConsentPlaces, RecoverPlaces

(* No stop finds a database the journal does not name.                     *)
LEMMA StopIsTight ==
    ASSUME RestScope, ShapeInv, pc \in StopPlaces
    PROVE  ~Loose
BY DEF RestScope, ShapeInv, StopShape, Loose

(* Every step of stopLocked.                                               *)
LEMMA StopStepRest ==
    ASSUME RestScope, BaseInv, TypeInv', RestInv, Subsides, StopStep
    PROVE  RestInv'
<1>0. /\ loc \in Locs /\ ServicesOK /\ JournalOK /\ TypeInv
      /\ pc \in AtComponent => loc.cur \in Component
  BY DEF BaseInv, TypeInv, OpInv, OperationOK
<1>1. CASE StopSkip
  <2>1. /\ pc' = "stop" /\ loc'.cur = StopNext[loc.cur] /\ loc.cur \in Component
        /\ UNCHANGED journal
    BY <1>0, <1>1 DEF StopSkip, Goto, Locs
  <2>2. ~Loose
    BY <1>1, StopIsTight DEF BaseInv, StopSkip, StopPlaces
  <2>3. ~Live(native'[loc.cur])
    BY <1>1, <2>2 DEF StopSkip, RestInv, Accounted, Subsides
  <2>4. Accounted'
    BY <2>1, SameAccount
  <2> QED BY <1>1, <2>1, <2>3, <2>4, NextStopRest DEF StopSkip, StopPlaces
<1>2. CASE SaveWorld
  <2>1. /\ pc' = "stop" /\ loc'.cur = loc.cur /\ pc = "stop"
        /\ session' = session /\ mode' = mode /\ clean' = clean /\ jtoken' = jtoken
        /\ jstate' = [jstate EXCEPT !["WORLD"] = "STOPPING"]
    BY <1>0, <1>2 DEF SaveWorld, Publish, Goto, Locs
  <2>2. Accounted'
    BY <1>0, <2>1, RecordAccount DEF Component
  <2> QED BY <1>0, <2>1, <2>2, SameStopRest DEF StopPlaces
<1>3. CASE StopOwned
  <2>1. /\ pc = "stop" /\ loc.cur \in Component
        /\ session' = session /\ mode' = mode /\ clean' = clean /\ jtoken' = jtoken
        /\ jstate' = [jstate EXCEPT ![loc.cur] = "STOPPING"]
    BY <1>3 DEF StopOwned, Publish
  <2>2. Accounted'
    BY <1>0, <2>1, RecordAccount
  <2>3. pc' \in {"stopped", "force"} /\ loc'.cur = loc.cur
    BY <1>0, <1>3 DEF StopOwned, ForceNext, Goto, Locs
  <2>4. CASE native[loc.cur] = "STOPPED"
    <3>1. ~Live(native'[loc.cur])
      BY <2>1, <2>4 DEF Subsides, Live
    <3> QED BY <1>0, <2>1, <2>2, <2>3, <3>1, SameStopRest DEF StopPlaces
  <2>5. CASE ServiceStop(loc.cur)
    BY <1>0, <2>1, <2>2, <2>3, <2>5, SameStopRest, TakenDown DEF StopPlaces
  <2>6. CASE ForceNext
    <3>1. pc' = "force"
      BY <2>6 DEF ForceNext, Goto
    <3> QED BY <1>0, <2>1, <2>2, <2>3, <3>1, SameStopRest DEF StopPlaces
  <2> QED BY <1>3, <2>4, <2>5, <2>6 DEF StopOwned
<1>4. CASE ForceOwned
  <2>0. /\ pc \in {"stop", "force"} /\ loc.cur \in Component
        /\ session' = session /\ mode' = mode /\ jtoken' = jtoken
    BY <1>0, <1>4 DEF ForceOwned, FailStopCleanup, Publish, AtComponent
  <2>1. \/ jstate' = jstate
        \/ \E v \in {"STOPPING", "FAILED"} : jstate' = [jstate EXCEPT ![loc.cur] = v]
    BY <1>4 DEF ForceOwned, FailStopCleanup, Publish
  <2>2. ~clean => ~clean'
    BY <1>4 DEF ForceOwned, FailStopCleanup, Publish
  <2>3. Accounted'
    <3>1. CASE jstate' = jstate
      BY <2>0, <2>2, <3>1, KeepsAccount DEF RestInv
    <3>2. CASE \E v \in {"STOPPING", "FAILED"} : jstate' = [jstate EXCEPT ![loc.cur] = v]
      BY <1>0, <2>0, <2>2, <3>2, RecordAccount
    <3> QED BY <2>1, <3>1, <3>2
  <2>4. CASE pc' = "stopped" /\ loc'.cur = loc.cur /\ ~Live(native'[loc.cur])
    BY <1>0, <2>0, <2>3, <2>4, SameStopRest DEF StopPlaces
  <2>5. CASE pc' = "idle"
    BY <2>3, <2>5, UnguardedRest DEF Guarded, StopPlaces, ConsentPlaces, RecoverPlaces
  <2>6. CASE /\ \/ native[loc.cur] = "STOPPED" /\ SameServices
                \/ ServiceKill(loc.cur)
             /\ Goto("stopped", [loc EXCEPT !.durable = FALSE, !.claim = NoOwner])
    <3>1. pc' = "stopped" /\ loc'.cur = loc.cur
      BY <1>0, <2>6 DEF Goto, Locs
    <3>2. ~Live(native'[loc.cur])
      BY <1>0, <2>0, <2>6, TakenDown DEF Subsides, Live
    <3> QED BY <2>4, <3>1, <3>2
  <2> QED BY <1>4, <2>5, <2>6 DEF ForceOwned, FailStopCleanup, Finish
<1>5. CASE StopRecorded
  <2>1. /\ pc = "stopped" /\ loc.cur \in Component /\ pc' = "stop"
        /\ loc'.cur = StopNext[loc.cur] /\ ~Live(native[loc.cur])
        /\ session' = session /\ mode' = mode /\ clean' = clean
        /\ jstate' = [jstate EXCEPT ![loc.cur] = "STOPPED"]
        /\ jtoken' = [jtoken EXCEPT ![loc.cur] = NoToken]
    BY <1>0, <1>5 DEF StopRecorded, Publish, Goto, Locs, AtComponent, RestInv, Downed
  <2>2. ~Live(native'[loc.cur])
    BY <2>1 DEF Subsides
  <2>3. Accounted'
    BY <1>0, <2>1, <2>2, StrikeAccount
  <2> QED BY <2>1, <2>2, <2>3, NextStopRest DEF StopPlaces
<1>6. CASE StopCommit
  <2>1. \A c \in Component : ~Live(native'[c])
    BY <1>6 DEF StopCommit, RestInv, Downed, Down, Before, Subsides, StopPlaces
  <2> QED
    BY <1>6, <2>1, EmptyAccount, UnguardedRest
    DEF StopCommit, Finish, Guarded, StopPlaces, ConsentPlaces, RecoverPlaces
<1> QED BY <1>1, <1>2, <1>3, <1>4, <1>5, <1>6 DEF StopStep

-----------------------------------------------------------------------------
(* Starts *)

(* A stage that failed with its runtime down, or up under this claim.      *)
LEMMA StageFailsRest ==
    ASSUME TypeInv, TypeInv', ShapeInv, pc \in Staging, StageFails, Accounted',
           \/ ~Live(native'[loc.cur])
           \/ loc.cur \in loc.started
           \/ /\ "boot" \in Faults /\ owner'[loc.cur] = OwnerOf(loc.cur)
              /\ "lease" \notin doom'[loc.cur]
    PROVE  RestInv'
<1>0. loc \in Locs
  BY DEF TypeInv, OpInv, OperationOK
<1>1. /\ pc' \in {"isolate", "unwind"} /\ loc'.cur = loc.cur /\ loc'.started = loc.started
      /\ session' = session /\ jtoken' = jtoken
  BY <1>0 DEF StageFails, Publish, Goto, Locs
<1>2. OwnerOf(loc.cur)' = OwnerOf(loc.cur)
  BY <1>1 DEF OwnerOf
<1> QED
  BY <1>1, <1>2 DEF RestInv, Downed, Staged, StopPlaces, ConsentPlaces, RecoverPlaces

(* failStage keeps every running component accounted for, as long as the   *)
(* step brings nothing up.                                                 *)
LEMMA StageFailsAccount ==
    ASSUME TypeInv, TypeInv', RestInv, Subsides, pc \in Staging, StageFails
    PROVE  Accounted'
<1>0. loc.cur \in Component
  BY DEF TypeInv, OpInv, OperationOK, Staging, AtComponent
<1>1. /\ session' = session /\ mode' = mode /\ clean' = clean /\ jtoken' = jtoken
      /\ jstate' = [jstate EXCEPT ![loc.cur] = "FAILED"]
  BY DEF StageFails, Publish
<1> QED BY <1>0, <1>1, RecordAccount

(* A stage that is not over and has its runtime down.                      *)
LEMMA SameStageRest ==
    ASSUME Accounted', pc' \in {"start", "reclaim", "retire"}, ~Live(native'[loc.cur]),
           loc'.cur = loc.cur, loc'.claim = loc.claim,
           owner'[loc.cur] = loc.claim => "lease" \notin doom'[loc.cur]
    PROVE  RestInv'
BY DEF RestInv, Downed, Staged, StopPlaces, ConsentPlaces, RecoverPlaces

(* Stops and kills take a claim and a lease away, never give one.          *)
LEMMA Releases ==
    ASSUME ServicesOK, NEW c \in Component,
           Recycle(c) \/ ServiceStop(c) \/ ServiceKill(c)
    PROVE  \A d \in Component : /\ owner'[d] = owner[d] \/ owner'[d] = NoOwner
                                /\ "lease" \in doom'[d] => "lease" \in doom[d]
<1>1. ASSUME NEW n, NEW o \in {owner[c], NoOwner}, NEW w, Change(c, n, o, w),
             "lease" \in w => "lease" \in doom[c]
      PROVE  \A d \in Component : /\ owner'[d] = owner[d] \/ owner'[d] = NoOwner
                                  /\ "lease" \in doom'[d] => "lease" \in doom[d]
  BY <1>1 DEF Change, ServicesOK
<1>2. CASE Recycle(c)
  BY <1>1, <1>2 DEF Recycle, SetService
<1>3. CASE ServiceStop(c)
  <2>1. "lease" \notin (doom[c] \ {"lease"}) \cup (IF c = "WORLD" THEN {"retire"} ELSE {})
    OBVIOUS
  <2> QED BY <1>1, <1>3, <2>1 DEF ServiceStop
<1>4. CASE SetService(c, "FAILED", owner[c], doom[c])
  BY <1>1, <1>4 DEF SetService
<1>5. CASE SetService(c, native[c], NoOwner, doom[c] \ {"lease"})
  BY <1>1, <1>5 DEF SetService
<1> QED BY <1>2, <1>3, <1>4, <1>5 DEF ServiceKill

(* What a stage in progress knows of its component.                        *)
LEMMA StageFacts ==
    ASSUME BaseInv, pc \in {"start", "reclaim", "retire"}
    PROVE  /\ loc \in Locs /\ loc.cur \in Component /\ ServicesOK /\ TypeInv /\ ShapeInv
           /\ pc \in Staging /\ loc.claim \in Owner /\ loc.claim # NoOwner
           /\ OwnerOf(loc.cur) = loc.claim /\ NeedsStop(loc.cur)
<1>1. /\ loc \in Locs /\ loc.cur \in Component /\ ServicesOK /\ TypeInv /\ ShapeInv
      /\ pc \in Staging /\ loc.claim \in Owner /\ loc.claim # NoOwner
  BY ConstantsAssumption DEF BaseInv, TypeInv, OpInv, OperationOK, ClaimOK, ClaimBound,
                             AtComponent, Staging
<1>2. /\ session # NoSession /\ jtoken[loc.cur] # NoToken /\ jstate[loc.cur] # "STOPPED"
      /\ loc.claim = [session |-> session, token |-> jtoken[loc.cur]]
      /\ mode = "LAN_JOIN" => loc.cur = "CLIENT"
  BY <1>1 DEF ShapeInv, PlanShape, StageShape, StartPlaces, ClaimBound
<1> QED BY <1>1, <1>2 DEF OwnerOf, NeedsStop

(* backend.start: the claim is journalled before the runtime can come up.  *)
LEMMA BackendStartRest ==
    ASSUME BaseInv, TypeInv', RestInv, BackendStart
    PROVE  RestInv'
<1> DEFINE c == loc.cur
<1>0. /\ loc \in Locs /\ c \in Component /\ ServicesOK /\ TypeInv /\ ShapeInv
      /\ pc \in Staging /\ loc.claim \in Owner /\ loc.claim # NoOwner
      /\ OwnerOf(c) = loc.claim /\ NeedsStop(c) /\ pc = "start"
  BY StageFacts DEF BackendStart
<1>1. ~Live(native[c]) /\ (owner[c] = loc.claim => "lease" \notin doom[c])
  BY <1>0 DEF RestInv, Staged
<1>2. Claimable(c) => "lease" \notin doom[c]
  BY <1>0, <1>1 DEF Claimable, BaseInv, LeaseInv
<1>3. \/ UNCHANGED services \/ Recycle(c)
      \/ \E n : SetService(c, n, loc.claim, doom[c])
  BY DEF BackendStart, BootFails, BootRefused, SameServices
<1>4. \A d \in Component : Live(native'[d]) => Live(native[d]) \/ NeedsStop(d)
  <2>1. CASE UNCHANGED services \/ Recycle(c)
    BY <1>0, <2>1, SameSubsides, TakenDown DEF Subsides
  <2>2. CASE \E n : SetService(c, n, loc.claim, doom[c])
    BY <1>0, <2>2 DEF SetService, Change, ServicesOK
  <2> QED BY <1>3, <2>1, <2>2
<1>5. UNCHANGED journal => Accounted'
  BY <1>4, RaisesAccount DEF RestInv, journal
<1>6. StageFails => Accounted'
  <2> SUFFICES ASSUME StageFails PROVE Accounted'
    OBVIOUS
  <2>1. /\ session' = session /\ mode' = mode /\ clean' = clean /\ jtoken' = jtoken
        /\ jstate' = [jstate EXCEPT ![c] = "FAILED"]
    BY DEF StageFails, Publish
  <2>2. \A d \in Component : jstate[d] # "STOPPED" => jstate'[d] # "STOPPED"
    BY <1>0, <2>1 DEF TypeInv, JournalOK, Lifecycles
  <2> QED BY <1>4, <2>1, <2>2, RaisesAccount DEF RestInv
<1>7. ASSUME NEW n, SetService(c, n, loc.claim, doom[c])
      PROVE  /\ owner'[c] = loc.claim /\ doom'[c] = doom[c]
             /\ ~Live(n) => ~Live(native'[c])
  BY <1>0, <1>7 DEF SetService, Change, ServicesOK, Live
<1>8. Recycle(c) \/ UNCHANGED services => ~Live(native'[c])
  BY <1>0, <1>1, TakenDown DEF services
<1>9. CASE pc' = "stageReady" /\ UNCHANGED journal
  BY <1>5, <1>9, UnguardedRest DEF Guarded, StopPlaces, ConsentPlaces, RecoverPlaces
<1>10. CASE Claimable(c) /\ BootFails(c) /\ Fault("boot") /\ StageFails
  <2>1. "boot" \in Faults
    BY <1>10 DEF Fault
  <2>2. Recycle(c) \/ \E n : SetService(c, n, loc.claim, doom[c])
    BY <1>10 DEF BootFails
  <2>3. ~Live(native'[c]) \/ (owner'[c] = OwnerOf(c) /\ "lease" \notin doom'[c])
    BY <1>0, <1>2, <1>7, <1>8, <1>10, <2>2
  <2> QED BY <1>0, <1>6, <1>10, <2>1, <2>3, StageFailsRest
<1>11. CASE /\ Claimable(c) /\ BootRefused(c)
            /\ StageFails \/ (Goto("retire", loc) /\ UNCHANGED journal)
  <2>1. Recycle(c) \/ SetService(c, native[c], loc.claim, doom[c])
    BY <1>11 DEF BootRefused
  <2>2. ~Live(native'[c])
    BY <1>1, <1>7, <1>8, <2>1
  <2>3. CASE StageFails
    BY <1>0, <1>6, <2>2, <2>3, StageFailsRest
  <2>4. CASE Goto("retire", loc) /\ UNCHANGED journal
    <3>1. "lease" \notin doom'[c] \/ owner'[c] # loc.claim
      <4>1. CASE Recycle(c)
        BY <1>0, <4>1 DEF Recycle, SetService, Change, ServicesOK
      <4>2. CASE SetService(c, native[c], loc.claim, doom[c])
        BY <1>2, <1>7, <1>11, <4>2
      <4> QED BY <2>1, <4>1, <4>2
    <3> QED BY <1>5, <2>2, <2>4, <3>1, SameStageRest DEF Goto
  <2> QED BY <1>11, <2>3, <2>4
<1>12. CASE UNCHANGED services /\ StageFails
  BY <1>0, <1>6, <1>8, <1>12, StageFailsRest
<1>13. CASE /\ ~Claimable(c) /\ UNCHANGED services
            /\ Goto("reclaim", loc) /\ UNCHANGED journal
  <2>1. owner'[c] # loc.claim
    BY <1>13 DEF Claimable, services
  <2> QED BY <1>5, <1>8, <1>13, <2>1, SameStageRest DEF Goto
<1> HIDE DEF c
<1> QED
  BY <1>9, <1>10, <1>11, <1>12, <1>13 DEF BackendStart, Goto, SameServices, c

(* A minted token is not the one the service reports.                      *)
LEMMA FreshIsNotOwner ==
    ASSUME NEW c \in Component, NEW t \in FreshTokens(c), NEW s
    PROVE  owner[c] # NoOwner => owner[c] # [session |-> s, token |-> t]
BY MintType DEF FreshTokens

(* The owner is journalled while the component is down.                    *)
LEMMA StageRequestRest ==
    ASSUME BaseInv, TypeInv', RestInv, StageRequest
    PROVE  RestInv'
<1>0. /\ loc \in Locs /\ loc.cur \in Component /\ JournalOK /\ pc = "stage"
      /\ loc.prior.session \in Sessions
  BY DEF BaseInv, TypeInv, OpInv, OperationOK, ClaimOK, SessionBound, StageRequest, AtComponent
<1>1. session # NoSession /\ jtoken[loc.cur] = NoToken
  BY <1>0 DEF BaseInv, ShapeInv, PlanShape, StageShape, StartPlaces
<1>2. ~Live(native[loc.cur])
  BY <1>0, <1>1 DEF RestInv, Accounted, Loose, NeedsStop, OwnerOf
<1>3. PICK t \in FreshTokens(loc.cur) :
        /\ Publish(PhaseFor[loc.cur], clean, [jstate EXCEPT ![loc.cur] = "STARTING"],
                   [jtoken EXCEPT ![loc.cur] = t])
        /\ Goto("start", [loc EXCEPT !.retried = FALSE,
                           !.claim = [session |-> loc.prior.session, token |-> t]])
  BY DEF StageRequest
<1>4. /\ pc' = "start" /\ loc'.cur = loc.cur
      /\ loc'.claim = [session |-> loc.prior.session, token |-> t]
      /\ session' = session /\ mode' = mode /\ clean' = clean
      /\ UNCHANGED services
  BY <1>0, <1>3 DEF Publish, Goto, Locs, StageRequest, SameServices
<1>5. \A d \in Component : d # loc.cur => jstate'[d] = jstate[d] /\ jtoken'[d] = jtoken[d]
  BY <1>0, <1>3 DEF Publish, JournalOK, Lifecycles, Tokened
<1>6. native' = native /\ owner' = owner /\ Subsides
  BY <1>4, SameSubsides DEF services
<1>7. Accounted'
  BY <1>2, <1>4, <1>5, <1>6, KeepsAccount DEF RestInv
<1>8. loc'.claim # NoOwner
  BY <1>0, <1>3, <1>4, FreshType, FreshClaim
<1>9. owner'[loc.cur] # loc'.claim
  BY <1>0, <1>3, <1>4, <1>6, <1>8, FreshIsNotOwner
<1> QED
  BY <1>2, <1>4, <1>6, <1>7, <1>9 DEF RestInv, Downed, Staged, StopPlaces, ConsentPlaces,
                                      RecoverPlaces

(* A stage that is retired or reclaimed is tried again while it is down.   *)
LEMMA RetryRest ==
    ASSUME BaseInv, TypeInv', RestInv, Subsides, RetireFailedNative \/ ReclaimDatabase
    PROVE  RestInv'
<1>0. /\ loc \in Locs /\ loc.cur \in Component /\ ServicesOK /\ TypeInv /\ ShapeInv
      /\ pc \in Staging /\ loc.claim # NoOwner /\ pc \in {"reclaim", "retire"}
  BY StageFacts DEF RetireFailedNative, ReclaimDatabase
<1>1. ~Live(native'[loc.cur]) /\ (owner[loc.cur] = loc.claim => "lease" \notin doom[loc.cur])
  BY <1>0 DEF RestInv, Staged, Subsides
<1>2. CASE StageFails
  BY <1>0, <1>1, <1>2, StageFailsRest, StageFailsAccount
<1>3. CASE /\ \E c \in Component : ServiceStop(c) \/ ServiceKill(c)
           /\ Goto("start", [loc EXCEPT !.retried = TRUE]) /\ UNCHANGED journal
  <2>1. pc' = "start" /\ loc'.cur = loc.cur /\ loc'.claim = loc.claim
    BY <1>0, <1>3 DEF Goto, Locs
  <2>2. owner'[loc.cur] = loc.claim => "lease" \notin doom'[loc.cur]
    <3>1. PICK c \in Component : ServiceStop(c) \/ ServiceKill(c)
      BY <1>3
    <3>2. \A d \in Component : /\ owner'[d] = owner[d] \/ owner'[d] = NoOwner
                               /\ "lease" \in doom'[d] => "lease" \in doom[d]
      BY <1>0, <3>1, Releases
    <3> QED BY <1>0, <1>1, <3>2
  <2> QED BY <1>1, <1>3, <2>1, <2>2, SameAccount, SameStageRest
<1>4. "DATABASE" \in Component
  BY DEF Component
<1> QED BY <1>0, <1>2, <1>3, <1>4 DEF RetireFailedNative, ReclaimDatabase

(* The unwind strikes a stage from the journal only when it is down.       *)
LEMMA UnwindRest ==
    ASSUME RestScope, BaseInv, TypeInv', RestInv, Subsides, UnwindStage
    PROVE  RestInv'
<1>0. /\ loc \in Locs /\ loc.cur \in Component /\ TypeInv /\ pc = "unwind"
  BY DEF BaseInv, TypeInv, OpInv, OperationOK, UnwindStage, AtComponent
<1>1. CASE StopLocked(loc, jstate, jtoken, TRUE, "STOPPED", TRUE)
  <2>1. Accounted'
    BY <1>1, KeepsAccount DEF StopLocked, Publish, RestInv
  <2> QED BY <1>0, <1>1, <2>1, StopLockedRest
<1>2. CASE /\ loc.cur \notin loc.started
           /\ \/ ~(owner[loc.cur] = OwnerOf(loc.cur) /\ Live(native[loc.cur]))
              \/ Fault("unobserved")
           /\ StopLocked(loc, [jstate EXCEPT ![loc.cur] = "STOPPED"],
                         [jtoken EXCEPT ![loc.cur] = NoToken], TRUE, "STOPPED", TRUE)
  <2>1. ~Live(native[loc.cur])
    BY <1>0, <1>2 DEF RestInv, Staged, RestScope, Fault
  <2>2. Accounted'
    BY <1>0, <1>2, <2>1, StrikeAccount DEF StopLocked, Publish, Subsides
  <2> QED BY <1>0, <1>2, <2>2, StopLockedRest
<1> QED BY <1>1, <1>2 DEF UnwindStage

(* A client is drained before its failure is recorded.                     *)
LEMMA DrainRest ==
    ASSUME BaseInv, TypeInv', RestInv, Subsides, DrainClient
    PROVE  RestInv'
<1>0. ServicesOK /\ "CLIENT" \in Component
  BY DEF BaseInv, TypeInv, Component
<1>1. CASE Fail
  BY <1>1, FailRest
<1>2. CASE pc = "isolate" /\ Goto("isolated", loc) /\ UNCHANGED journal
           /\ ~Live(native'["CLIENT"])
  <2>1. Accounted'
    BY <1>2, SameAccount
  <2> QED
    BY <1>2, <2>1 DEF Goto, RestInv, Downed, Staged, StopPlaces, ConsentPlaces, RecoverPlaces
<1>3. CASE Goto("stage", loc) /\ UNCHANGED journal
  BY <1>3, SameAccount, UnguardedRest DEF Goto, Guarded, StopPlaces, ConsentPlaces,
                                          RecoverPlaces
<1>4. CASE pc = "drain" /\ OwnerOf("CLIENT") # NoOwner
  BY <1>4 DEF BaseInv, ShapeInv, StageShape, OwnerOf
<1>5. OwnerOf("CLIENT") = NoOwner \/ native["CLIENT"] = "STOPPED" => ~Live(native'["CLIENT"])
  BY <1>0 DEF RestInv, Accounted, NeedsStop, Subsides, Live
<1>6. ServiceKill("CLIENT") => ~Live(native'["CLIENT"])
  BY <1>0, TakenDown
<1> QED BY <1>1, <1>2, <1>3, <1>4, <1>5, <1>6 DEF DrainClient

(* Every step of start, relaunchClient and their stages.                   *)
LEMMA StartStepRest ==
    ASSUME RestScope, BaseInv, TypeInv', RestInv, BackendStart \/ Subsides, StartStep
    PROVE  RestInv'
<1>0. loc \in Locs /\ JournalOK /\ TypeInv
  BY DEF BaseInv, TypeInv, OpInv, OperationOK
<1>1. CASE BackendStart
  BY <1>1, BackendStartRest
<1>2. CASE Subsides
  <2>1. CASE PreflightEnds \/ AcceptSession
    <3>1. clean
      BY <2>1 DEF PreflightEnds, AcceptSession, BaseInv, ShapeInv, StopShape
    <3>2. \A c \in Component : ~Live(native'[c])
      BY <1>2, <3>1, CleanDown DEF BaseInv, Subsides
    <3>3. pc' \in {"idle", "stage"}
      BY <2>1 DEF PreflightEnds, AcceptSession, Finish, Goto
    <3> QED
      BY <3>2, <3>3, EmptyAccount, UnguardedRest
      DEF Guarded, StopPlaces, ConsentPlaces, RecoverPlaces
  <2>2. CASE StageReady
    <3>1. /\ loc.cur \in Component /\ loc.claim = [session |-> session, token |-> jtoken[loc.cur]]
      BY <2>2 DEF StageReady, BaseInv, TypeInv, OpInv, OperationOK, AtComponent, ShapeInv,
                  StageShape, ClaimBound
    <3>2. /\ session' = session /\ mode' = mode /\ clean' = clean /\ jtoken' = jtoken
          /\ jstate' = [jstate EXCEPT ![loc.cur] = "READY"]
      BY <1>0, <2>2, <3>1 DEF StageReady, Publish, JournalOK, Tokened
    <3>3. Accounted'
      BY <1>0, <1>2, <3>1, <3>2, RecordAccount
    <3>4. pc' \in {"idle", "project", "stage"}
      BY <2>2 DEF StageReady, Finish, Goto
    <3> QED
      BY <3>3, <3>4, UnguardedRest DEF Guarded, StopPlaces, ConsentPlaces, RecoverPlaces
  <2>3. CASE ProjectAdvertisement
    <3>1. CASE StageFails
      <4>1. pc \in Staging /\ loc.cur \in loc.started
        BY <2>3 DEF ProjectAdvertisement, BaseInv, ShapeInv, StageShape, Staging
      <4> QED BY <1>0, <1>2, <3>1, <4>1, StageFailsRest, StageFailsAccount DEF BaseInv
    <3>2. CASE UNCHANGED journal /\ pc' = "stage"
      BY <1>2, <3>2, SameAccount, UnguardedRest
      DEF Guarded, StopPlaces, ConsentPlaces, RecoverPlaces
    <3> QED BY <2>3, <3>1, <3>2 DEF ProjectAdvertisement, Goto
  <2>4. CASE IsolateRecorded
    <3>1. ~Live(native'["CLIENT"])
      BY <1>2, <2>4 DEF IsolateRecorded, RestInv, Downed, Subsides, Component
    <3>2. /\ session' = session /\ mode' = mode /\ clean' = clean /\ pc' = "idle"
          /\ jstate' = [jstate EXCEPT !["CLIENT"] = "FAILED"]
          /\ jtoken' = [jtoken EXCEPT !["CLIENT"] = NoToken]
      BY <2>4 DEF IsolateRecorded, Publish, Finish
    <3>3. Accounted'
      BY <1>0, <1>2, <3>1, <3>2, StrikeAccount DEF Component
    <3> QED
      BY <3>2, <3>3, UnguardedRest DEF Guarded, StopPlaces, ConsentPlaces, RecoverPlaces
  <2> QED
    BY <1>1, <1>2, <2>1, <2>2, <2>3, <2>4, StageRequestRest, RetryRest, UnwindRest, DrainRest
    DEF StartStep
<1> QED BY <1>1, <1>2

-----------------------------------------------------------------------------
(* The consented stop, requests, the monitor and the environment *)

(* The consented stop passes a component once it is down.                  *)
LEMMA ConsentStepRest ==
    ASSUME BaseInv, TypeInv', RestInv, Subsides, ConsentStop \/ ConsentDatabase
    PROVE  RestInv'
<1>0. /\ loc \in Locs /\ ServicesOK /\ loc.cur \in Component
      /\ pc = "orphans" => loc.cur # "DATABASE"
  BY DEF BaseInv, TypeInv, OpInv, OperationOK, ConsentOK, ConsentStop, ConsentDatabase,
         AtComponent
<1>1. ASSUME Fail
      PROVE  RestInv'
  BY <1>1, FailRest
<1>2. CASE ConsentStop
  <2>1. ASSUME ConsentAdvance, ~Live(native'[loc.cur])
        PROVE  RestInv'
    <3>1. /\ pc = "orphans" /\ pc' \in ConsentPlaces /\ loc'.cur = StopNext[loc.cur]
          /\ UNCHANGED journal
      BY <1>0, <1>2, <2>1 DEF ConsentStop, ConsentAdvance, Goto, ConsentPlaces, Locs
    <3>2. Accounted'
      BY <3>1, SameAccount
    <3>3. \A d \in Before[loc.cur] \cup {loc.cur} : ~Live(native'[d])
      BY <1>0, <2>1, <3>1, BeforeNext DEF RestInv, Downed, Subsides, Down, Cursors,
                                          ConsentPlaces
    <3>4. \A d \in Before[StopNext[loc.cur]] : ~Live(native'[d])
      BY <1>0, <3>3, BeforeNext
    <3> QED
      BY <3>1, <3>2, <3>4 DEF RestInv, Downed, Staged, Down, StopPlaces, ConsentPlaces,
                              RecoverPlaces
  <2>2. CASE native[loc.cur] = "STOPPED" /\ ConsentAdvance
    BY <1>0, <2>1, <2>2 DEF Subsides, Live
  <2>3. CASE (Recycle(loc.cur) \/ ServiceKill(loc.cur)) /\ ConsentAdvance
    BY <1>0, <2>1, <2>3, TakenDown
  <2> QED BY <1>1, <1>2, <2>2, <2>3 DEF ConsentStop, AdoptAndKill
<1>3. CASE ConsentDatabase
  <2>1. ASSUME ConsentCommit
        PROVE  RestInv'
    <3>1. loc.cur = "DATABASE" /\ "consent" \in Verbs
      BY <1>3 DEF ConsentDatabase, BaseInv, ShapeInv, StopShape, ConsentPlaces
    <3>2. \A c \in Component : Live(native'[c]) => c = "DATABASE"
      BY <1>3, <3>1 DEF ConsentDatabase, RestInv, Downed, Down, Before, Subsides,
                        ConsentPlaces, Component
    <3>3. session' = NoSession /\ mode' = "LOCAL" /\ clean' = FALSE /\ pc' = "idle"
      BY <2>1 DEF ConsentCommit, PublishFresh, Finish
    <3>4. Accounted'
      BY <3>1, <3>2, <3>3 DEF Accounted, Loose
    <3> QED
      BY <3>3, <3>4, UnguardedRest DEF Guarded, StopPlaces, ConsentPlaces, RecoverPlaces
  <2> QED BY <1>1, <1>3, <2>1 DEF ConsentDatabase
<1> QED BY <1>2, <1>3

(* The companion toggle and the end of an escaped operation.               *)
LEMMA OtherStepRest ==
    ASSUME BaseInv, TypeInv', RestInv, Subsides, CompanionStep \/ UnexpectedOperationFailure
    PROVE  RestInv'
<1>1. pc' \in {"idle", "rollback"}
  BY DEF CompanionStep, CompanionEnds, CompanionRolledBack, UnexpectedOperationFailure, Finish,
         Goto
<1>2. Accounted'
  <2>1. CASE UNCHANGED journal
    BY <2>1, SameAccount
  <2>2. CASE CompanionRolledBack
    BY <2>2, KeepsAccount DEF CompanionRolledBack, Publish, RestInv
  <2>3. CASE Publish("ERROR", FALSE, jstate, jtoken)
    BY <2>3, KeepsAccount DEF Publish, RestInv
  <2>4. CASE ~GenerationMayBeActive
    <3>1. clean
      BY <2>4 DEF GenerationMayBeActive
    <3> QED BY <3>1, CleanDown, EmptyAccount DEF BaseInv, Subsides
  <2> QED
    BY <2>1, <2>2, <2>3, <2>4 DEF CompanionStep, CompanionEnds, UnexpectedOperationFailure
<1> QED
  BY <1>1, <1>2, UnguardedRest DEF Guarded, StopPlaces, ConsentPlaces, RecoverPlaces

(* No request changes a record.                                            *)
LEMMA RequestRest ==
    ASSUME RestScope, BaseInv, TypeInv', RestInv, Subsides, Request
    PROVE  RestInv'
<1>0. \A v \in Verb : Locals(v) \in Locs
  BY LocalsType
<1>a. ASSUME pc' \in {"preflight", "drain", "companion"}, session' = session, mode' = mode,
             jstate' = jstate, jtoken' = jtoken, ~clean => ~clean'
      PROVE  RestInv'
  <2>1. Accounted'
    BY <1>a, KeepsAccount DEF RestInv
  <2> QED
    BY <1>a, <2>1, UnguardedRest DEF Guarded, StopPlaces, ConsentPlaces, RecoverPlaces
<1>1. ASSUME NEW m \in Mode, NEW client \in BOOLEAN, Start(m, client)
      PROVE  RestInv'
  <2> DEFINE l == [Locals("start") EXCEPT !.mode = m, !.client = client]
  <2>1. l \in Locs
    BY <1>0 DEF Locs, Verb
  <2>2. (UNCHANGED journal /\ Goto("preflight", l)) \/ RecoverBegin(l)
    BY <1>1 DEF Start
  <2> HIDE DEF l
  <2> QED BY <1>a, <2>1, <2>2, RecoverBeginRest DEF Goto, journal
<1>2. ASSUME NEW m \in Mode, PreflightVerb(m)
      PROVE  RestInv'
  BY <1>2, <1>a DEF PreflightVerb, Goto, journal
<1>3. CASE Recover
  BY <1>0, <1>3, RecoverBeginRest DEF Recover, Verb
<1>4. CASE RelaunchClient
  BY <1>4, <1>a DEF RelaunchClient, Goto, journal
<1>5. CASE ConsentBegin
  <2>1. /\ pc' = "orphans" /\ loc'.cur = "CLIENT"
        /\ session' = session /\ mode' = mode /\ jstate' = jstate /\ jtoken' = jtoken
        /\ clean' = FALSE
    BY <1>0, <1>5 DEF ConsentBegin, Publish, Goto, Verb, Locs
  <2>2. Accounted'
    BY <2>1, KeepsAccount DEF RestInv
  <2> QED
    BY <2>1, <2>2 DEF RestInv, Downed, Staged, Down, Before, StopPlaces, ConsentPlaces,
                      RecoverPlaces
<1>6. ASSUME NEW b \in BOOLEAN, Stop(b)
      PROVE  RestInv'
  <2>1. Accounted'
    BY <1>6, KeepsAccount DEF Stop, StopLocked, Publish, RestInv
  <2> QED BY <1>0, <1>6, <2>1, StopLockedRest DEF Stop, Verb
<1>7. ASSUME NEW b \in BOOLEAN, Companion(b)
      PROVE  RestInv'
  BY <1>7, <1>a DEF Companion, Publish, Goto
<1>8. ~TransferBegin
  BY DEF RestScope, TransferBegin, Fault
<1> QED
  BY <1>1, <1>2, <1>3, <1>4, <1>5, <1>6, <1>7, <1>8 DEF Request

(* The monitor strikes only what it has just killed.                       *)
LEMMA MonitorRest ==
    ASSUME BaseInv, TypeInv', RestInv, Subsides, Monitor
    PROVE  RestInv'
<1>0. Locals("monitor") \in Locs /\ ServicesOK /\ TypeInv
  BY LocalsType DEF Verb, BaseInv, TypeInv
<1>1. CASE UNCHANGED journal /\ pc' \in {"idle", "isolate"}
  BY <1>1, SameAccount, UnguardedRest DEF Guarded, StopPlaces, ConsentPlaces, RecoverPlaces
<1>2. CASE MonitorTick
  BY <1>1, <1>2 DEF MonitorTick, Begin
<1>3. ASSUME NEW c \in Component, MonitorFailed(c)
      PROVE  RestInv'
  <2>1. CASE StopLocked(Locals("monitor"), [jstate EXCEPT ![c] = "FAILED"], jtoken,
                        FALSE, "ERROR", TRUE)
    <3>1. Accounted'
      BY <1>0, <2>1, RecordAccount DEF StopLocked, Publish
    <3> QED BY <1>0, <2>1, <3>1, StopLockedRest
  <2> QED BY <1>1, <1>3, <2>1 DEF MonitorFailed, Goto
<1>4. ASSUME NEW c \in Component, MonitorHeal(c)
      PROVE  RestInv'
  <2>1. CASE /\ Recycle(c)
             /\ StopLocked(Locals("monitor"), [jstate EXCEPT ![c] = "STOPPED"],
                           [jtoken EXCEPT ![c] = NoToken], FALSE, "ERROR", TRUE)
    <3>1. Accounted'
      BY <1>0, <2>1, TakenDown, StrikeAccount DEF StopLocked, Publish
    <3> QED BY <1>0, <2>1, <3>1, StopLockedRest
  <2> QED BY <1>0, <1>4, <2>1, FailRest, RecoverBeginRest DEF MonitorHeal, AdoptAndKill
<1> QED BY <1>2, <1>3, <1>4 DEF Monitor

(* The services' own steps.                                                *)
LEMMA EnvironmentRest ==
    ASSUME BaseInv, TypeInv', RestInv, Idle, GivesUp
    PROVE  RestInv'
<1>0. /\ loc \in Locs /\ UNCHANGED journal /\ pc' = pc /\ loc' = loc /\ Subsides
      /\ pc \in AtComponent => loc.cur \in Component
  BY DEF BaseInv, TypeInv, OpInv, OperationOK, Idle, GivesUp
<1>1. Accounted'
  BY <1>0, SameAccount
<1>2. Before[loc.cur] \subseteq Component
  BY <1>0, BeforeNext DEF Locs
<1>3. Downed'
  BY <1>0, <1>2 DEF RestInv, Downed, Down, Subsides, AtComponent, Component
<1>4. Staged'
  <2>1. CASE pc \in {"start", "reclaim", "retire"}
    <3>1. loc.cur \in Component /\ loc.claim # NoOwner
      BY <2>1, StageFacts
    <3>2. /\ ~Live(native[loc.cur])
          /\ owner[loc.cur] = loc.claim => "lease" \notin doom[loc.cur]
      BY <2>1 DEF RestInv, Staged
    <3>3. ~Live(native'[loc.cur])
      BY <1>0, <3>1, <3>2 DEF Subsides
    <3>4. owner'[loc.cur] = loc.claim => "lease" \notin doom'[loc.cur]
      BY <3>1, <3>2 DEF GivesUp
    <3> QED BY <1>0, <2>1, <3>3, <3>4 DEF Staged
  <2>2. CASE pc = "unwind"
    <3>1. loc.cur \in Component /\ OwnerOf(loc.cur)' = OwnerOf(loc.cur)
      BY <1>0, <2>2 DEF AtComponent, OwnerOf, journal
    <3>2. loc.cur \notin loc.started /\ Live(native[loc.cur]) =>
            /\ "boot" \in Faults
            /\ owner[loc.cur] = OwnerOf(loc.cur) /\ "lease" \notin doom[loc.cur]
      BY <2>2 DEF RestInv, Staged
    <3>3. /\ Live(native'[loc.cur]) => Live(native[loc.cur])
          /\ "lease" \in doom'[loc.cur] => "lease" \in doom[loc.cur]
          /\ owner'[loc.cur] # owner[loc.cur] /\ Live(native'[loc.cur])
               => "lease" \in doom[loc.cur]
      BY <3>1 DEF GivesUp, Subsides
    <3> QED BY <1>0, <2>2, <3>1, <3>2, <3>3 DEF Staged
  <2> QED BY <1>0, <2>1, <2>2 DEF Staged
<1> QED BY <1>1, <1>3, <1>4 DEF RestInv

(* The invariant is inductive within its scope.                            *)
LEMMA RestStep ==
    ASSUME RestScope, BaseInv, TypeInv', RestInv, [Next]_vars
    PROVE  RestInv'
<1>0. BackendStart \/ Subsides
  BY StepCalm DEF BaseInv, Calm
<1>1. CASE BackendStart
  BY <1>1, BackendStartRest
<1>2. CASE Subsides
  <2>1. CASE ServiceStep \/ \E d \in Component : NativeDies(d)
    BY <2>1, EnvironmentGivesUp, EnvironmentRest DEF BaseInv, TypeInv
  <2>2. CASE SupervisorCrash \/ JournalWriteFails
    <3>1. UNCHANGED journal /\ pc' \in {"idle", "escaped"}
      BY <2>2 DEF SupervisorCrash, JournalWriteFails, Goto
    <3> QED
      BY <1>2, <3>1, SameAccount, UnguardedRest
      DEF Guarded, StopPlaces, ConsentPlaces, RecoverPlaces
  <2>3. ~TransferRead /\ ~TransferWrite
    BY ConstantsAssumption DEF TransferRead, TransferWrite, Captured, BaseInv, CleanInv
  <2>4. CASE UNCHANGED vars
    BY <2>4 DEF vars, journal, services, RestInv, Accounted, Downed, Staged, Down, Loose,
                NeedsStop, OwnerOf
  <2> QED
    BY <1>2, <2>1, <2>2, <2>3, <2>4, RecoverStepRest, StopStepRest, StartStepRest,
       ConsentStepRest, OtherStepRest, RequestRest, MonitorRest
    DEF Next, OperationStep
<1> QED BY <1>0, <1>1, <1>2

(* All the invariants of this module, together.                            *)
LEMMA RestInvariant ==
    ASSUME RestScope
    PROVE  Spec => [](BaseInv /\ RestInv)
<1>0. "transfer" \notin Faults
  BY DEF RestScope
<1>1. TypeInv /\ LeaseInv /\ [Next]_vars => LeaseInv'
  BY StepCalm
<1>2. BaseInv /\ TypeInv' /\ RestInv /\ [Next]_vars => RestInv'
  BY RestStep
<1>3. BaseInv <=> (TypeInv /\ CleanInv /\ ShapeInv) /\ LeaseInv
  BY DEF BaseInv
<1>4. Spec => [](TypeInv /\ CleanInv /\ ShapeInv)
  BY <1>0, ShapeInvariant
<1> QED
  BY <1>1, <1>2, <1>3, <1>4, RestInit, PTL DEF Spec

-----------------------------------------------------------------------------
(* Results *)

(* A journal that says clean, with no operation in flight, means that no   *)
(* native runtime is up, so a start that skips recovery never meets one of *)
(* an earlier generation.  Whatever crashed, died, failed or was retried   *)
(* on the way there; within RestScope.                                     *)
THEOREM CleanIsQuiet ==
    ASSUME RestScope
    PROVE  Spec => []CleanMeansAtRest
<1>1. BaseInv /\ RestInv => CleanMeansAtRest
  BY CleanDown DEF BaseInv, CleanMeansAtRest
<1> QED
  BY <1>1, RestInvariant, PTL

(* What depends on a component comes before it in STOP_ORDER.              *)
LEMMA DependentsBefore ==
    \A c \in Component : Dependents[c] \subseteq Before[c] \ {"DATABASE"}
BY DEF Dependents, Before, Component

(* A component whose runtime this step ends was not spared.                *)
LEMMA NotSpared ==
    ASSUME NEW c, Live(native[c]), ~Live(native'[c])
    PROVE  ~Untouched(c)
BY DEF Untouched

(* The heart of TeardownOrder: a step of the supervisor that ends an owned *)
(* runtime is at that component of a teardown, and everything STOP_ORDER   *)
(* puts before it is down.                                                 *)
LEMMA StepOrders ==
    ASSUME BaseInv, RestInv, Next, NEW c \in Component, Acts,
           owner[c] # NoOwner, Live(native[c]), ~Live(native'[c]),
           NEW d \in Dependents[c]
    PROVE  ~Live(native[d])
<1>0. /\ ServicesOK /\ loc \in Locs
      /\ pc \in AtComponent => loc.cur \in Component
      /\ "DATABASE" \in Component /\ "CLIENT" \in Component
  BY DEF BaseInv, TypeInv, OpInv, OperationOK, Component
<1>a. d \in Before[c] \ {"DATABASE"}
  BY DependentsBefore
<1>b. ~Untouched(c) /\ ~SameServices /\ ~UNCHANGED services /\ ~Orphan(c)
  BY NotSpared, SameServicesUntouched DEF SameServices, Orphan
<1>c. ASSUME NEW x \in Component,
             Recycle(x) \/ ServiceStop(x) \/ StopUnacknowledged(x) \/ ServiceKill(x)
      PROVE  x = c
  BY <1>0, <1>b, <1>c, OtherService
<1>d. ASSUME NEW x \in Component, NEW s, Adopts(x, s), Orphan(x)
      PROVE  FALSE
  BY <1>0, <1>b, <1>d, OtherService DEF Adopts
<1>e. ASSUME pc \in StopPlaces \cup ConsentPlaces, loc.cur = c
      PROVE  ~Live(native[d])
  BY <1>a, <1>e DEF RestInv, Downed, Down
<1>1. CASE RecoverStep
  <2>1. CASE RecoverSkip \/ RecoverObserveFails \/ RecoverOrphan \/ RecoverUnverified
             \/ RecoverGrace
    BY <1>b, <2>1 DEF RecoverSkip, RecoverObserveFails, RecoverOrphan, RecoverUnverified,
                      RecoverGrace
  <2>2. CASE RecoverKill
    <3>1. loc.cur \in Component /\ pc \in RecoverPlaces /\ ServiceKill(loc.cur)
      BY <1>b, <2>2 DEF RecoverKill, Recovering, RecoverPlaces
    <3>2. loc.cur = c
      BY <1>c, <3>1
    <3> QED BY <1>a, <3>1, <3>2 DEF RestInv, Downed, Down
  <2>3. CASE RecoverHeal
    BY <1>0, <1>b, <1>d, <2>3 DEF RecoverHeal, AdoptAndKill, Adopts, AtComponent
  <2>4. CASE RecoverDatabase
    <3>1. pc \in RecoverPlaces /\ loc.cur = "done"
      BY <2>4 DEF RecoverDatabase, RecoverPlaces
    <3>2. d \in Before["done"] \ {"DATABASE"}
      BY <1>a DEF Before, Component
    <3> QED BY <3>1, <3>2 DEF RestInv, Downed, Down
  <2> QED BY <1>1, <2>1, <2>2, <2>3, <2>4 DEF RecoverStep
<1>2. CASE StopStep
  <2>1. CASE StopSkip \/ StopRecorded \/ StopCommit \/ SaveWorld
    BY <1>b, <2>1 DEF StopSkip, StopRecorded, StopCommit, SaveWorld
  <2>2. CASE StopOwned
    <3>1. /\ loc.cur \in Component /\ pc \in StopPlaces
          /\ ServiceStop(loc.cur) \/ StopUnacknowledged(loc.cur)
      BY <1>b, <2>2 DEF StopOwned, StopPlaces
    <3> QED BY <1>c, <1>e, <3>1
  <2>3. CASE ForceOwned
    <3>1. loc.cur \in Component /\ ServiceKill(loc.cur) /\ pc \in StopPlaces
      BY <1>0, <1>b, <2>3 DEF ForceOwned, StopPlaces, AtComponent
    <3> QED BY <1>c, <1>e, <3>1
  <2> QED BY <1>2, <2>1, <2>2, <2>3 DEF StopStep
<1>3. CASE StartStep
  <2>1. CASE PreflightEnds \/ AcceptSession \/ StageRequest \/ StageReady
             \/ ProjectAdvertisement \/ UnwindStage \/ IsolateRecorded
    BY <1>b, <2>1 DEF PreflightEnds, AcceptSession, StageRequest, StageReady,
                      ProjectAdvertisement, UnwindStage, IsolateRecorded
  <2>2. CASE BackendStart
    <3>1. loc.cur \in Component /\ ~Live(native[loc.cur])
      BY <2>2, StageFacts DEF BackendStart, RestInv, Staged
    <3>2. Recycle(loc.cur) \/ \E n : SetService(loc.cur, n, loc.claim, doom[loc.cur])
      BY <1>b, <2>2 DEF BackendStart, BootFails, BootRefused
    <3>3. loc.cur = c
      BY <1>0, <1>b, <3>1, <3>2, OtherService
    <3> QED BY <3>1, <3>3
  <2>3. CASE RetireFailedNative
    <3>1. loc.cur \in Component /\ ServiceStop(loc.cur) /\ native[loc.cur] = "FAILED"
      BY <1>0, <1>b, <2>3 DEF RetireFailedNative, AtComponent
    <3> QED BY <1>c, <3>1 DEF Live
  <2>4. CASE ReclaimDatabase
    <3>1. /\ ServiceStop("DATABASE") \/ ServiceKill("DATABASE")
          /\ ~Live(native["DATABASE"])
      BY <1>b, <2>4 DEF ReclaimDatabase, ProvenEnded
    <3> QED BY <1>0, <1>c, <3>1
  <2>5. CASE DrainClient
    <3>1. ServiceKill("CLIENT")
      BY <1>b, <2>5 DEF DrainClient
    <3>2. c = "CLIENT"
      BY <1>0, <1>c, <3>1
    <3> QED BY <1>a, <3>2 DEF Before
  <2> QED BY <1>3, <2>1, <2>2, <2>3, <2>4, <2>5 DEF StartStep
<1>4. CASE CompanionStep \/ UnexpectedOperationFailure
  BY <1>4, <1>b DEF CompanionStep, CompanionEnds, CompanionRolledBack, UnexpectedOperationFailure
<1>5. CASE ConsentStop
  <2>1. loc.cur \in Component /\ pc \in ConsentPlaces
    BY <1>0, <1>5 DEF ConsentStop, AtComponent, ConsentPlaces
  <2>2. \/ ServiceKill(loc.cur)
        \/ Orphan(loc.cur) /\ \E s : Adopts(loc.cur, s)
    BY <1>5, <1>b DEF ConsentStop, AdoptAndKill, Adopts
  <2> QED BY <1>c, <1>d, <1>e, <2>1, <2>2
<1>6. CASE ConsentDatabase
  <2>1. loc.cur = "DATABASE" /\ pc \in ConsentPlaces
    BY <1>6 DEF ConsentDatabase, BaseInv, ShapeInv, StopShape, ConsentPlaces
  <2>2. ServiceStop("DATABASE") \/ ServiceKill("DATABASE")
    BY <1>6, <1>b DEF ConsentDatabase
  <2> QED BY <1>0, <1>c, <1>e, <2>1, <2>2
<1>7. CASE Request
  BY <1>7, <1>b DEF Request, Start, PreflightVerb, Recover, RelaunchClient, ConsentBegin,
                    TransferBegin, Stop, Companion
<1>8. CASE Monitor
  <2>1. ASSUME NEW x \in Component, MonitorHeal(x)
        PROVE  FALSE
    <3>1. Orphan(x) /\ Adopts(x, session)
      BY <1>b, <2>1 DEF MonitorHeal, AdoptAndKill, Adopts, Ripe
    <3> QED BY <1>d, <3>1
  <2> QED BY <1>8, <1>b, <2>1 DEF Monitor, MonitorTick, MonitorFailed
<1>9. CASE TransferRead \/ TransferWrite \/ JournalWriteFails
  BY <1>9, <1>b DEF TransferRead, TransferWrite, JournalWriteFails
<1>10. CASE ServiceStep \/ \E x \in Component : NativeDies(x)
  <2>1. Idle
    BY <1>10 DEF ServiceStep, OwnerDied, LossTeardown, BootSettles, RetireWorld, NativeDies
  <2> QED BY <2>1 DEF Idle, Acts
<1>11. CASE SupervisorCrash
  BY <1>11 DEF SupervisorCrash
<1> QED
  BY <1>1, <1>2, <1>3, <1>4, <1>5, <1>6, <1>7, <1>8, <1>9, <1>10, <1>11
  DEF Next, OperationStep

(* STOP_ORDER, for every behaviour within RestScope: stop, recovery, the   *)
(* unwind of a failed start, the monitor's teardown and the consented stop *)
(* end a live component that has an owner only after everything that       *)
(* depends on it.                                                          *)
THEOREM TeardownIsOrdered ==
    ASSUME RestScope
    PROVE  Spec => TeardownOrder
<1> DEFINE Ordered == \A c \in Component :
             Acts /\ owner[c] # NoOwner /\ Live(native[c]) /\ ~Live(native'[c])
             => \A d \in Dependents[c] : ~Live(native[d])
<1>1. (BaseInv /\ RestInv) /\ [Next]_vars => [Ordered]_vars
  BY StepOrders
<1> QED
  BY <1>1, RestInvariant, PTL DEF Spec, TeardownOrder

-----------------------------------------------------------------------------
(* Sessions never meet *)

(* How a step may treat the journal: leave its session alone and not make  *)
(* it clean; open a session; commit it clean; or give the session up.      *)
Commits ==
    /\ clean' /\ session' \in {session, NoSession}
    /\ clean \/ (pc \in {"stop", "recover"} /\ loc.cur = "done")
GivesSessionUp == ~clean' /\ session' = NoSession /\ pc = "orphanDb"

(* No other treatment exists.                                              *)
LEMMA JournalMoves ==
    ASSUME BaseInv, [Next]_vars
    PROVE  \/ session' = session /\ (clean' => clean)
           \/ AcceptSession \/ Commits \/ GivesSessionUp
<1>0. ~TransferWrite /\ (pc = "preflight" => clean)
  BY ConstantsAssumption DEF TransferWrite, Captured, CleanInv, BaseInv, ShapeInv, StopShape
<1>1. CASE RecoverStep
  <2>1. CASE RecoverDatabase
    BY <2>1 DEF RecoverDatabase, RecoverCommit, PublishFresh, Fail, Publish, Commits
  <2> QED
    BY <1>1, <2>1 DEF RecoverStep, RecoverSkip, RecoverObserveFails, RecoverOrphan, RecoverKill,
              RecoverUnverified, RecoverGrace, RecoverHeal, AdoptAndKill, Fail, Publish, journal
<1>2. CASE StopStep
  <2>1. CASE StopCommit
    BY <2>1 DEF StopCommit, Publish, Commits
  <2> QED
    BY <1>2, <2>1 DEF StopStep, StopSkip, SaveWorld, StopOwned, ForceOwned, StopRecorded,
              FailStopCleanup, Publish, journal
<1>3. CASE StartStep
  <2>1. CASE PreflightEnds
    BY <1>0, <2>1 DEF PreflightEnds, PublishFresh, journal, Commits
  <2> QED
    BY <1>3, <2>1 DEF StartStep, StageRequest, BackendStart, RetireFailedNative,
              ReclaimDatabase, StageReady, ProjectAdvertisement, UnwindStage, DrainClient,
              IsolateRecorded, StageFails, StopLocked, Fail, Publish, journal
<1>4. CASE CompanionStep \/ UnexpectedOperationFailure
  BY <1>4 DEF CompanionStep, CompanionEnds, CompanionRolledBack, UnexpectedOperationFailure,
              GenerationMayBeActive, PublishFresh, Publish, journal, Commits
<1>5. CASE ConsentStop \/ ConsentDatabase
  BY <1>5 DEF ConsentStop, ConsentDatabase, ConsentAdvance, ConsentCommit, AdoptAndKill,
              PublishFresh, Fail, Publish, journal, GivesSessionUp
<1>6. CASE Request
  BY <1>6 DEF Request, Start, PreflightVerb, Recover, RelaunchClient, ConsentBegin,
              TransferBegin, Stop, Companion, RecoverBegin, StopLocked, Publish, journal
<1>7. CASE Monitor
  BY <1>7 DEF Monitor, MonitorTick, MonitorFailed, MonitorHeal, RecoverBegin, AdoptAndKill,
              StopLocked, Fail, Publish, journal
<1>8. CASE TransferRead \/ JournalWriteFails \/ SupervisorCrash \/ UNCHANGED vars
  BY <1>8 DEF TransferRead, JournalWriteFails, SupervisorCrash, vars, journal
<1>9. CASE ServiceStep \/ \E c \in Component : NativeDies(c)
  BY <1>9 DEF ServiceStep, RetireWorld, OwnerDied, LossTeardown, BootSettles, NativeDies, Idle,
              journal
<1> QED
  BY <1>0, <1>1, <1>2, <1>3, <1>4, <1>5, <1>6, <1>7, <1>8, <1>9 DEF Next, OperationStep

(* What is up after a step that raises nothing was up before it.           *)
LEMMA UpSubsides == Subsides => Up' \subseteq Up
BY DEF Subsides, Up

(* A clean journal has nothing up.                                         *)
LEMMA UpClean ==
    ASSUME CleanInv, RestInv, clean
    PROVE  Up = {}
BY CleanDown DEF Up

(* A boot brings up at most its own stage, and nothing later is up by then. *)
LEMMA BootLaunches ==
    ASSUME BaseInv, RestInv, BackendStart
    PROVE  /\ loc.cur \in Component /\ loc.cur \notin Up /\ Up \cap StartedAfter[loc.cur] = {}
           /\ Up' \subseteq Up \cup {loc.cur} /\ Up \subseteq Up'
           /\ ~clean /\ ~clean' /\ session # NoSession /\ session' = session
<1> DEFINE c == loc.cur
<1>0. /\ c \in Component /\ ServicesOK /\ pc = "start"
  BY StageFacts DEF BackendStart
<1>1. ~clean /\ ~clean' /\ session' = session
  BY DEF BackendStart, BaseInv, CleanInv, StageFails, Publish, journal
<1>2. session # NoSession /\ \A d \in Later[c] : jtoken[d] = NoToken
  BY <1>0 DEF BaseInv, ShapeInv, PlanShape, StartPlaces, Staging
<1>3. ~Live(native[c])
  BY <1>0 DEF RestInv, Staged
<1>4. \/ UNCHANGED services
      \/ \E n, o, w : Change(c, n, o, w)
  BY DEF BackendStart, BootFails, BootRefused, SameServices, Recycle, SetService
<1>5. \A d \in Component : d # c => native'[d] = native[d]
  BY <1>0, <1>4 DEF Change, services, ServicesOK
<1>6. StartedAfter[c] \subseteq Component /\ Later[c] = StartedAfter[c]
      /\ "DATABASE" \notin StartedAfter[c]
  BY <1>0 DEF StartedAfter, Later, Component
<1>7. \A d \in StartedAfter[c] : ~Live(native[d])
  BY <1>2, <1>6 DEF RestInv, Accounted, NeedsStop, OwnerOf
<1> QED BY <1>0, <1>1, <1>2, <1>3, <1>5, <1>6, <1>7 DEF Up

(* Every step of the supervisor is a step of the lifecycle or leaves it.   *)
LEMMA LifecycleStep ==
    ASSUME BaseInv, BaseInv', RestInv, RestInv', [Next]_vars
    PROVE  [Session!LifecycleNext]_(Session!lifecycle)
<1>0. /\ TypeInv /\ CleanInv /\ ShapeInv /\ LeaseInv /\ CleanInv'
      /\ clean \in BOOLEAN /\ clean' \in BOOLEAN /\ Up \subseteq Component
  BY DEF BaseInv, TypeInv, JournalOK, Up
<1>1. CASE BackendStart
  <2>1. CASE Up' = Up \cup {loc.cur}
    <3>1. Session!Launch(loc.cur)
      BY <1>0, <1>1, <2>1, BootLaunches DEF Session!Launch
    <3>2. loc.cur \in Component
      BY <1>1, BootLaunches
    <3> QED BY <3>1, <3>2 DEF Session!LifecycleNext
  <2>2. CASE Up' = Up
    BY <1>1, <2>2, BootLaunches, <1>0 DEF Session!Fall, Session!LifecycleNext
  <2> QED BY <1>1, <2>1, <2>2, BootLaunches
<1>2. CASE Calm
  <2>0. Up' \subseteq Up
    BY <1>2, UpSubsides DEF Calm
  <2>1. CASE session' = session /\ (clean' => clean)
    BY <1>0, <2>0, <2>1 DEF Session!Fall, Session!LifecycleNext
  <2>2. CASE AcceptSession
    <3>1. pc = "preflight" /\ ~clean' /\ session' \in FreshSessions
      BY <2>2 DEF AcceptSession, PublishFresh
    <3>2. clean /\ Up = {}
      BY <1>0, <3>1, UpClean DEF ShapeInv, StopShape
    <3>3. FreshSessions \subseteq Sessions \ {session}
      BY MintType DEF FreshSessions, SessionsInUse
    <3> QED BY <1>0, <2>0, <3>1, <3>2, <3>3 DEF Session!Open, Session!LifecycleNext
  <2>3. CASE Commits
    <3>1. Up' = {}
      <4>1. \A c \in Component : ~Live(native[c])'
        BY <1>0, <2>3 DEF Commits, CleanInv, CleanHoldsNoClaim, RestInv, Accounted, Loose,
                          NeedsStop, OwnerOf, Unowned
      <4> QED BY <4>1 DEF Up
    <3>2. Up \subseteq {"DATABASE"}
      <4>1. CASE clean
        BY <1>0, <4>1, UpClean
      <4>2. CASE pc \in {"stop", "recover"} /\ loc.cur = "done"
        <5>1. \A d \in Component \ {"DATABASE"} : ~Live(native[d])
          BY <4>2 DEF RestInv, Downed, StopPlaces, RecoverPlaces, Down, Before
        <5> QED BY <5>1 DEF Up
      <4> QED BY <2>3, <4>1, <4>2 DEF Commits
    <3> QED BY <1>0, <2>3, <3>1, <3>2 DEF Commits, Session!Seal, Session!LifecycleNext
  <2>4. CASE GivesSessionUp
    <3>1. loc.cur = "DATABASE" /\ ~clean
      BY <1>0, <2>4 DEF GivesSessionUp, ShapeInv, StopShape, CleanInv
    <3>2. Up \subseteq {"DATABASE"}
      <4>1. \A d \in {"CLIENT", "WORLD", "REALM"} : ~Live(native[d])
        BY <2>4, <3>1 DEF GivesSessionUp, RestInv, Downed, ConsentPlaces, Down, Before
      <4> QED BY <4>1 DEF Up, Component
    <3> QED
      BY <1>0, <2>0, <2>4, <3>1, <3>2 DEF GivesSessionUp, Session!Disown, Session!LifecycleNext
  <2> QED BY <2>1, <2>2, <2>3, <2>4, JournalMoves
<1> QED BY <1>0, <1>1, <1>2, StepCalm

(* The supervisor implements the session lifecycle: whatever crashes, dies *)
(* or fails, a session is opened only over a clean journal with nothing    *)
(* up, its services come up in the order of LaunchPlan and only while it   *)
(* is open, and the journal is made clean only once they are all down.     *)
THEOREM SessionsAreSeparate ==
    ASSUME RestScope
    PROVE  Spec => SessionsNeverMeet
<1>1. Init => Session!LifecycleInit
  BY DEF Init, Session!LifecycleInit, Up, Live
<1>2. (BaseInv /\ RestInv) /\ (BaseInv /\ RestInv)' /\ [Next]_vars
        => [Session!LifecycleNext]_(Session!lifecycle)
  BY LifecycleStep
<1> QED
  BY <1>1, <1>2, RestInvariant, PTL DEF Spec, SessionsNeverMeet, Session!Lifecycle

-----------------------------------------------------------------------------
(* A clean stop has saved the world *)

(* What a step that boots nothing may do to the world: its progress becomes *)
(* unsaved only when a late boot settles, and is lost only with the runtime. *)
Gentle ==
    /\ Subsides
    /\ native'["WORLD"] = "STARTING" => native["WORLD"] = "STARTING"
    /\ unsaved' => Live(native'["WORLD"]) /\ (unsaved \/ native["WORLD"] = "STARTING")
    /\ lost' => lost \/ (unsaved /\ ~Live(native'["WORLD"]))

(* Progress that is unsaved is the running world's; lost progress is an    *)
(* ended one's. *)
WorldInv ==
    /\ unsaved => Live(native["WORLD"])
    /\ lost => ~Live(native["WORLD"])
(* A stage before the world's boot. *)
Early ==
    /\ pc \in {"stage", "start", "reclaim", "retire", "stageReady", "project"}
    /\ loc.cur \in Servers /\ ~(pc = "stageReady" /\ loc.cur = "WORLD")
Saved == ~lost /\ ~unsaved /\ native["WORLD"] # "STARTING"
(* A graceful stop of a live session that is still durable has yet to come *)
(* to the world's save, or has it behind it. *)
StopSaves ==
    /\ loc.verb = "stop" => pc \in StopPlaces
    /\ pc \in StopPlaces /\ loc.durable /\ loc.live /\ loc.verb = "stop" =>
         \/ mode = "LAN_JOIN"
         \/ Backed("WORLD") /\ (loc.cur = "CLIENT" \/ (pc = "stop" /\ loc.cur = "WORLD"))
         \/ Saved
SaveInv ==
    /\ WorldInv /\ StopSaves
    /\ Early => ~lost
    /\ mode = "LAN_JOIN" /\ session # NoSession => ~lost

(* Nothing was played at a first launch.                                   *)
LEMMA SaveInit == Init => SaveInv
BY DEF Init, SaveInv, WorldInv, StopSaves, Early, NoLoc, StopPlaces

(* A change of one service that does not bring its runtime up.             *)
LEMMA ChangeGentle ==
    ASSUME ServicesOK, WorldOK, WorldInv, NEW c \in Component, NEW n, NEW o, NEW w,
           Live(n) => Live(native[c]), n = "STARTING" => native[c] = "STARTING"
    PROVE  /\ SetService(c, n, o, w) => Gentle
           /\ /\ Change(c, n, o, w) /\ UNCHANGED lost
              /\ unsaved' = (unsaved /\ c # "WORLD")
              => Gentle
           /\ Change(c, n, o, w) /\ n = native[c] /\ UNCHANGED <<unsaved, lost>> => Gentle
<1>1. Change(c, n, o, w) => Subsides
  BY ChangeSubsides
<1>2. Change(c, n, o, w) /\ c = "WORLD" =>
        native'["WORLD"] = IF n = "EXITED" /\ o = NoOwner THEN "STOPPED" ELSE n
  BY DEF Change, ServicesOK
<1>3. Change(c, n, o, w) /\ c # "WORLD" => native'["WORLD"] = native["WORLD"]
  BY DEF Change, ServicesOK, Component
<1>4. SetService(c, n, o, w) => Gentle
  <2> SUFFICES ASSUME SetService(c, n, o, w) PROVE Gentle
    OBVIOUS
  <2>1. CASE c = "WORLD"
    BY <1>1, <1>2, <2>1 DEF SetService, Gentle, WorldInv, WorldOK, Live
  <2>2. CASE c # "WORLD"
    BY <1>1, <1>3, <2>2 DEF SetService, Gentle, WorldInv, WorldOK
  <2> QED BY <2>1, <2>2
<1>5. ASSUME Change(c, n, o, w), UNCHANGED lost, unsaved' = (unsaved /\ c # "WORLD")
      PROVE  Gentle
  BY <1>1, <1>2, <1>3, <1>5 DEF Gentle, WorldInv, WorldOK
<1>6. ASSUME Change(c, n, o, w), n = native[c], UNCHANGED <<unsaved, lost>>
      PROVE  Gentle
  BY <1>1, <1>2, <1>3, <1>6 DEF Gentle, WorldInv, WorldOK, Live
<1> QED BY <1>4, <1>5, <1>6

(* Stops, kills, adoptions and doing nothing are gentle.                   *)
LEMMA ServiceGentle ==
    ASSUME ServicesOK, WorldOK, WorldInv
    PROVE  /\ UNCHANGED <<services, unsaved, lost>> => Gentle
           /\ \A c \in Component : Recycle(c) \/ ServiceStop(c) \/ ServiceKill(c) => Gentle
           /\ \A c \in Component : \A s : Adopts(c, s) => Gentle
<1>1. UNCHANGED <<services, unsaved, lost>> => Gentle
  BY SameSubsides DEF services, Gentle, WorldInv
<1>2. ASSUME NEW c \in Component, Recycle(c) \/ ServiceStop(c) \/ ServiceKill(c)
      PROVE  Gentle
  <2>1. ~Live("STOPPED") /\ ~Live("FAILED")
    BY DEF Live
  <2>2. CASE Recycle(c)
    BY <2>1, <2>2, ChangeGentle DEF Recycle
  <2>3. CASE ServiceStop(c)
    <3> DEFINE n == IF c = "DATABASE" /\ native[c] = "FAILED" THEN "FAILED" ELSE "STOPPED"
               w == (doom[c] \ {"lease"}) \cup (IF c = "WORLD" THEN {"retire"} ELSE {})
    <3>1. Change(c, n, NoOwner, w) /\ unsaved' = (unsaved /\ c # "WORLD") /\ UNCHANGED lost
      BY <2>3 DEF ServiceStop
    <3>2. ~Live(n) /\ n # "STARTING"
      BY <2>1
    <3> HIDE DEF n, w
    <3> QED BY <3>1, <3>2, ChangeGentle
  <2>4. CASE SetService(c, "FAILED", owner[c], doom[c])
    BY <2>1, <2>4, ChangeGentle
  <2>5. CASE ~Live(native[c]) /\ SetService(c, native[c], NoOwner, doom[c] \ {"lease"})
    BY <2>5, ChangeGentle
  <2> QED BY <1>2, <2>2, <2>3, <2>4, <2>5 DEF ServiceKill
<1>3. ASSUME NEW c \in Component, NEW s, Adopts(c, s)
      PROVE  Gentle
  BY <1>1, <1>2, <1>3, ChangeGentle DEF Adopts, SameServices, world
<1> QED BY <1>1, <1>2, <1>3

(* Every step but a boot is gentle.                                        *)
LEMMA StepGentle ==
    ASSUME TypeInv, WorldInv, [Next]_vars
    PROVE  BackendStart \/ Gentle
<1>0. /\ ServicesOK /\ WorldOK /\ loc \in Locs
      /\ pc \in AtComponent => loc.cur \in Component
      /\ ~Live("STOPPED") /\ ~Live("FAILED") /\ ~Live("EXITED")
  BY DEF TypeInv, OpInv, OperationOK, Live
<1>a. SameServices => Gentle
  BY <1>0, ServiceGentle DEF SameServices, world
<1>b. {"DATABASE", "REALM", "WORLD", "CLIENT"} = Component
  BY DEF Component
<1>1. CASE RecoverStep
  <2>1. CASE RecoverSkip \/ RecoverObserveFails \/ RecoverOrphan \/ RecoverUnverified
             \/ RecoverGrace
    BY <1>a, <2>1 DEF RecoverSkip, RecoverObserveFails, RecoverOrphan, RecoverUnverified,
                      RecoverGrace
  <2>2. CASE RecoverKill
    BY <1>0, <1>a, <2>2, ServiceGentle DEF RecoverKill, Recovering
  <2>3. CASE RecoverHeal
    <3>1. loc.cur \in Component
      BY <1>0, <2>3 DEF RecoverHeal, AtComponent
    <3>2. SameServices \/ Adopts(loc.cur, loc.prior.session)
      BY <2>3 DEF RecoverHeal, AdoptAndKill, Adopts
    <3> QED BY <1>0, <1>a, <3>1, <3>2, ServiceGentle
  <2>4. CASE RecoverDatabase
    <3>1. \/ SameServices
          \/ /\ \/ UNCHANGED services
                \/ Change("DATABASE", "STOPPED", NoOwner, {})
                \/ Change("DATABASE", "STOPPED", owner["DATABASE"], doom["DATABASE"])
             /\ unsaved' = unsaved /\ lost' = FALSE
      BY <2>4 DEF RecoverDatabase
    <3>2. CASE UNCHANGED services /\ unsaved' = unsaved /\ lost' = FALSE
      BY <3>2, SameSubsides DEF services, Gentle, WorldInv
    <3>3. ASSUME NEW o, NEW w, Change("DATABASE", "STOPPED", o, w),
                 unsaved' = unsaved, lost' = FALSE
          PROVE  Gentle
      <4>1. Subsides
        BY <1>0, <1>b, <3>3, ChangeSubsides
      <4>2. native'["WORLD"] = native["WORLD"]
        BY <1>0, <3>3 DEF Change, ServicesOK, Component
      <4> QED BY <3>3, <4>1, <4>2 DEF Gentle, WorldInv
    <3> QED BY <1>a, <3>1, <3>2, <3>3
  <2> QED BY <1>1, <2>1, <2>2, <2>3, <2>4 DEF RecoverStep
<1>2. CASE StopStep
  <2>1. CASE StopSkip \/ StopRecorded \/ StopCommit
    BY <1>a, <2>1 DEF StopSkip, StopRecorded, StopCommit
  <2>2. CASE SaveWorld
    <3>1. UNCHANGED <<services, lost>> /\ (unsaved' = FALSE \/ unsaved' = unsaved)
      BY <2>2 DEF SaveWorld
    <3> QED BY <3>1, SameSubsides DEF services, Gentle, WorldInv
  <2>3. CASE StopOwned
    <3>1. ASSUME NEW c \in Component, StopUnacknowledged(c)
          PROVE  Gentle
      <4>1. CASE ServiceStop(c)
        BY <1>0, <4>1, ServiceGentle
      <4>2. CASE /\ Change(c, "STOPPED", owner[c], doom[c]) /\ UNCHANGED lost
                 /\ unsaved' = (unsaved /\ c # "WORLD")
        BY <1>0, <4>2, ChangeGentle
      <4> QED BY <3>1, <4>1, <4>2 DEF StopUnacknowledged
    <3> QED BY <1>0, <1>a, <2>3, <3>1, ServiceGentle DEF StopOwned
  <2>4. CASE ForceOwned
    <3>1. loc.cur \in Component
      BY <1>0, <2>4 DEF ForceOwned, AtComponent
    <3> QED BY <1>0, <1>a, <2>4, <3>1, ServiceGentle DEF ForceOwned
  <2> QED BY <1>2, <2>1, <2>2, <2>3, <2>4 DEF StopStep
<1>3. CASE StartStep
  <2>1. CASE PreflightEnds \/ StageRequest \/ StageReady \/ ProjectAdvertisement \/ UnwindStage
             \/ IsolateRecorded
    BY <1>a, <2>1 DEF PreflightEnds, StageRequest, StageReady, ProjectAdvertisement,
                      UnwindStage, IsolateRecorded
  <2>2. CASE AcceptSession
    BY <2>2, SameSubsides DEF AcceptSession, services, Gentle, WorldInv
  <2>4. CASE RetireFailedNative
    <3>1. loc.cur \in Component
      BY <1>0, <2>4 DEF RetireFailedNative, AtComponent
    <3> QED BY <1>0, <1>a, <2>4, <3>1, ServiceGentle DEF RetireFailedNative
  <2>5. CASE ReclaimDatabase
    BY <1>0, <1>a, <1>b, <2>5, ServiceGentle DEF ReclaimDatabase
  <2>6. CASE DrainClient
    BY <1>0, <1>a, <1>b, <2>6, ServiceGentle DEF DrainClient
  <2> QED BY <1>3, <2>1, <2>2, <2>4, <2>5, <2>6 DEF StartStep
<1>4. CASE CompanionStep \/ UnexpectedOperationFailure
  BY <1>0, <1>4, <1>a, ServiceGentle
  DEF CompanionStep, CompanionEnds, CompanionRolledBack, UnexpectedOperationFailure
<1>5. CASE ConsentStop
  <2>1. loc.cur \in Component
    BY <1>0, <1>5 DEF ConsentStop, AtComponent
  <2>2. SameServices \/ ServiceKill(loc.cur) \/ \E s : Adopts(loc.cur, s)
    BY <1>5 DEF ConsentStop, AdoptAndKill, Adopts
  <2> QED BY <1>0, <1>a, <2>1, <2>2, ServiceGentle
<1>6. CASE ConsentDatabase
  BY <1>0, <1>6, <1>a, <1>b, ServiceGentle DEF ConsentDatabase
<1>7. CASE Request
  <2>1. UNCHANGED <<services, unsaved, lost>>
    BY <1>7 DEF Request, Start, PreflightVerb, Recover, RelaunchClient, ConsentBegin,
                TransferBegin, Stop, Companion, SameServices, world
  <2> QED BY <1>0, <2>1, ServiceGentle
<1>8. CASE Monitor
  <2>1. ASSUME NEW d \in Component, MonitorHeal(d)
        PROVE  Gentle
    <3>1. SameServices \/ Adopts(d, session)
      BY <2>1 DEF MonitorHeal, AdoptAndKill, Adopts
    <3> QED BY <1>0, <1>a, <3>1, ServiceGentle
  <2> QED BY <1>8, <1>a, <2>1 DEF Monitor, MonitorTick, MonitorFailed
<1>9. CASE TransferRead \/ TransferWrite \/ JournalWriteFails
  BY <1>9, <1>a DEF TransferRead, TransferWrite, JournalWriteFails
<1>10. ASSUME NEW c \in Component, OwnerDied(c) \/ LossTeardown(c) \/ BootSettles(c)
                                   \/ NativeDies(c) \/ (RetireWorld /\ c = "WORLD")
       PROVE  Gentle
  <2>1. CASE OwnerDied(c)
    BY <1>0, <2>1, ChangeGentle DEF OwnerDied
  <2>2. CASE LossTeardown(c)
    <3>1. Recycle(c) \/ \E n, o, w : n \in {native[c], "STOPPED"} /\ SetService(c, n, o, w)
      BY <2>2 DEF LossTeardown
    <3> QED BY <1>0, <3>1, ServiceGentle, ChangeGentle
  <2>3. CASE BootSettles(c)
    <3>1. /\ native[c] = "STARTING" /\ Live(native[c])
          /\ \E n, o, w : n # "STARTING" /\ SetService(c, n, o, w)
      BY <2>3 DEF BootSettles, Live
    <3> QED BY <1>0, <3>1, ChangeGentle
  <2>4. CASE NativeDies(c)
    BY <1>0, <2>4, ServiceGentle, ChangeGentle DEF NativeDies
  <2>5. CASE RetireWorld /\ c = "WORLD"
    BY <1>0, <2>5, ServiceGentle DEF RetireWorld
  <2> QED BY <1>10, <2>1, <2>2, <2>3, <2>4, <2>5
<1>11. CASE SupervisorCrash
  BY <1>11 DEF SupervisorCrash, Gentle, Subsides, world, WorldInv
<1>12. CASE UNCHANGED vars
  BY <1>0, <1>12, ServiceGentle DEF vars, world
<1> QED
  BY <1>1, <1>2, <1>3, <1>4, <1>5, <1>6, <1>7, <1>8, <1>9, <1>10, <1>11, <1>12, <1>b
  DEF Next, OperationStep, ServiceStep

(* What a gentle step keeps.                                               *)
LEMMA GentleKeeps ==
    ASSUME WorldInv, Gentle
    PROVE  /\ WorldInv'
           /\ Saved => Saved'
           /\ ~lost /\ ~Live(native["WORLD"]) => ~lost'
BY DEF WorldInv, Gentle, Saved, Subsides, Component

(* The world is down before its boot, and in a session that only joins.    *)
LEMMA WorldOff ==
    ASSUME BaseInv, RestInv, Early \/ mode = "LAN_JOIN"
    PROVE  ~Live(native["WORLD"])
<1>0. "WORLD" \in Component
  BY DEF Component
<1>1. CASE mode = "LAN_JOIN"
  BY <1>0, <1>1 DEF RestInv, Accounted, NeedsStop
<1>2. CASE Early /\ jtoken["WORLD"] = NoToken
  BY <1>0, <1>2 DEF RestInv, Accounted, NeedsStop, OwnerOf
<1>3. CASE Early /\ loc.cur \in {"DATABASE", "REALM"}
  <2>1. pc \in StartPlaces /\ "WORLD" \in Later[loc.cur]
    BY <1>3 DEF Early, StartPlaces, Staging, Later
  <2> QED BY <1>2, <1>3, <2>1 DEF BaseInv, ShapeInv, PlanShape
<1>4. CASE Early /\ loc.cur = "WORLD"
  <2>1. pc \in {"stage", "start", "reclaim", "retire"}
    BY <1>4 DEF Early, BaseInv, ShapeInv, StageShape
  <2> QED BY <1>2, <1>4, <2>1 DEF BaseInv, ShapeInv, StageShape, RestInv, Staged
<1> QED BY <1>1, <1>3, <1>4 DEF Early, Servers

(* Only an accepted session opens one or changes the mode of an open one.  *)
LEMMA SessionStep ==
    ASSUME CleanInv, [Next]_vars
    PROVE  \/ session' = session /\ mode' = mode
           \/ session' = NoSession
           \/ AcceptSession
<1>0. ~TransferWrite
  BY ConstantsAssumption DEF TransferWrite, Captured, CleanInv
<1>1. CASE RecoverStep
  BY <1>1 DEF RecoverStep, RecoverSkip, RecoverObserveFails, RecoverOrphan, RecoverKill,
              RecoverUnverified, RecoverGrace, RecoverHeal, RecoverDatabase, AdoptAndKill,
              RecoverCommit, PublishFresh, Fail, Publish, journal
<1>2. CASE StopStep
  BY <1>2 DEF StopStep, StopSkip, SaveWorld, StopOwned, ForceOwned, StopRecorded, StopCommit,
              FailStopCleanup, Publish, journal
<1>3. CASE StartStep
  BY <1>3 DEF StartStep, PreflightEnds, StageRequest, BackendStart, RetireFailedNative,
              ReclaimDatabase, StageReady, ProjectAdvertisement, UnwindStage, DrainClient,
              IsolateRecorded, StageFails, StopLocked, PublishFresh, Fail, Publish, journal
<1>4. CASE CompanionStep \/ UnexpectedOperationFailure
  BY <1>4 DEF CompanionStep, CompanionEnds, CompanionRolledBack, UnexpectedOperationFailure,
              PublishFresh, Publish, journal
<1>5. CASE ConsentStop \/ ConsentDatabase
  BY <1>5 DEF ConsentStop, ConsentDatabase, ConsentAdvance, ConsentCommit, AdoptAndKill,
              PublishFresh, Fail, Publish, journal
<1>6. CASE Request
  BY <1>6 DEF Request, Start, PreflightVerb, Recover, RelaunchClient, ConsentBegin,
              TransferBegin, Stop, Companion, RecoverBegin, StopLocked, Publish, journal
<1>7. CASE Monitor
  BY <1>7 DEF Monitor, MonitorTick, MonitorFailed, MonitorHeal, RecoverBegin, AdoptAndKill,
              StopLocked, Fail, Publish, journal
<1>8. CASE TransferRead \/ JournalWriteFails \/ SupervisorCrash \/ UNCHANGED vars
  BY <1>8 DEF TransferRead, JournalWriteFails, SupervisorCrash, vars, journal
<1>9. CASE ServiceStep \/ \E c \in Component : NativeDies(c)
  BY <1>9 DEF ServiceStep, RetireWorld, OwnerDied, LossTeardown, BootSettles, NativeDies, Idle,
              journal
<1> QED
  BY <1>0, <1>1, <1>2, <1>3, <1>4, <1>5, <1>6, <1>7, <1>8, <1>9 DEF Next, OperationStep

(* A start comes to the stages before the world's boot only from its       *)
(* acceptance.                                                             *)
LEMMA EarlyStep ==
    ASSUME TypeInv, ShapeInv, [Next]_vars, Early'
    PROVE  Early \/ AcceptSession
<1> DEFINE Stages == {"stage", "start", "reclaim", "retire", "stageReady", "project"}
<1>0. loc \in Locs /\ pc' \in Stages /\ loc'.cur \in Servers
  BY DEF TypeInv, OpInv, OperationOK, Early
<1>1. ~RecoverStep
  BY <1>0 DEF RecoverStep, RecoverSkip, RecoverObserveFails, RecoverOrphan, RecoverKill,
              RecoverUnverified, RecoverGrace, RecoverHeal, RecoverDatabase, AdoptAndKill,
              RecoverAdvance, RecoverCommit, Fail, Finish, Goto
<1>2. ~StopStep
  BY <1>0 DEF StopStep, StopSkip, SaveWorld, StopOwned, ForceOwned, StopRecorded, StopCommit,
              FailStopCleanup, ForceNext, Finish, Goto
<1>3. CASE StartStep
  <2>1. ~PreflightEnds /\ ~UnwindStage /\ ~IsolateRecorded
    BY <1>0 DEF PreflightEnds, UnwindStage, IsolateRecorded, StopLocked, Finish, Goto
  <2>2. CASE StageRequest
    BY <1>0, <2>2 DEF StageRequest, Goto, Locs, Early
  <2>3. CASE BackendStart \/ RetireFailedNative \/ ReclaimDatabase
    BY <1>0, <2>3 DEF BackendStart, RetireFailedNative, ReclaimDatabase, StageFails, Goto, Locs,
                      Early
  <2>4. CASE StageReady
    <3>1. loc.cur \in Component
      BY <2>4 DEF StageReady, TypeInv, OpInv, OperationOK, AtComponent
    <3>2. ~Finish
      BY <1>0 DEF Finish
    <3>3. loc.cur # "CLIENT" /\ loc'.cur = IF loc.cur = "DATABASE" THEN loc.cur ELSE StartNext[loc.cur]
      BY <1>0, <2>4, <3>2 DEF StageReady, Goto, Locs
    <3>4. loc.cur # "WORLD"
      BY <1>0, <3>3 DEF StartNext, Servers
    <3>5. loc.cur \in {"DATABASE", "REALM"}
      BY <3>1, <3>3, <3>4 DEF Component
    <3> QED BY <2>4, <3>5 DEF StageReady, Early, Servers
  <2>5. CASE ProjectAdvertisement
    BY <2>5 DEF ProjectAdvertisement, ShapeInv, StageShape, Early, Servers
  <2>6. ~DrainClient
    BY <1>0 DEF DrainClient, ShapeInv, StageShape, Fail, Finish, Goto, Servers
  <2> QED BY <1>3, <2>1, <2>2, <2>3, <2>4, <2>5, <2>6 DEF StartStep
<1>4. ~CompanionStep /\ ~UnexpectedOperationFailure
  BY <1>0 DEF CompanionStep, CompanionEnds, CompanionRolledBack, UnexpectedOperationFailure,
              Finish, Goto
<1>5. ~ConsentStop /\ ~ConsentDatabase
  BY <1>0 DEF ConsentStop, ConsentDatabase, ConsentAdvance, ConsentCommit, AdoptAndKill, Fail,
              Finish, Goto
<1>6. CASE Request
  BY <1>0, <1>6 DEF Request, Start, PreflightVerb, Recover, RelaunchClient, ConsentBegin,
                    TransferBegin, Stop, Companion, RecoverBegin, StopLocked, Goto, Early
<1>7. CASE Monitor
  BY <1>0, <1>7 DEF Monitor, MonitorTick, MonitorFailed, MonitorHeal, RecoverBegin,
                    AdoptAndKill, StopLocked, Fail, Finish, Goto, Early
<1>8. CASE TransferRead \/ TransferWrite \/ UNCHANGED vars
  BY <1>8 DEF TransferRead, TransferWrite, vars, Early
<1>9. ~JournalWriteFails /\ ~SupervisorCrash
  BY <1>0 DEF JournalWriteFails, SupervisorCrash, Goto
<1>10. CASE ServiceStep \/ \E c \in Component : NativeDies(c)
  BY <1>10 DEF ServiceStep, RetireWorld, OwnerDied, LossTeardown, BootSettles, NativeDies, Idle,
               Early
<1> QED
  BY <1>1, <1>2, <1>3, <1>4, <1>5, <1>6, <1>7, <1>8, <1>9, <1>10 DEF Next, OperationStep

(* The verb of a stop is only carried from Stop through stopLocked.        *)
LEMMA StopVerb ==
    ASSUME TypeInv, CleanInv, loc.verb = "stop" => pc \in StopPlaces, [Next]_vars,
           loc'.verb = "stop"
    PROVE  \/ StopStep
           \/ \E b \in BOOLEAN : Stop(b)
           \/ pc' = pc /\ loc' = loc /\ UNCHANGED journal
<1>0. loc \in Locs /\ NoLoc.verb # "stop" /\ ~TransferWrite
  BY ConstantsAssumption DEF TypeInv, OpInv, OperationOK, NoLoc, TransferWrite, Captured, CleanInv
<1>a. /\ \A v \in Verb : Locals(v) \in Locs /\ Locals(v).verb = v
      /\ ~Finish /\ ~Fail
  BY <1>0, LocalsType DEF Finish, Fail, Locals, NoLoc
<1>1. ~RecoverStep
  BY <1>0, <1>a DEF RecoverStep, RecoverSkip, RecoverObserveFails, RecoverOrphan, RecoverKill,
              RecoverUnverified, RecoverGrace, RecoverHeal, RecoverDatabase, AdoptAndKill,
              RecoverAdvance, RecoverCommit, Recovering, Goto, StopPlaces, Locs
<1>3. ~StartStep
  <2>1. ~StageFails \/ pc \in StopPlaces
    BY <1>0 DEF StageFails, Goto, Locs
  <2>2. ~PreflightEnds /\ ~IsolateRecorded
    BY <1>a DEF PreflightEnds, IsolateRecorded
  <2>3. ~UnwindStage
    BY <1>0 DEF UnwindStage, StopLocked, Goto, Locs, StopPlaces
  <2>4. ~AcceptSession /\ ~StageRequest
    BY <1>0 DEF AcceptSession, StageRequest, Goto, Locs, StopPlaces
  <2>5. ~BackendStart /\ ~RetireFailedNative /\ ~ReclaimDatabase /\ ~ProjectAdvertisement
    BY <1>0, <2>1 DEF BackendStart, RetireFailedNative, ReclaimDatabase, ProjectAdvertisement,
                      Goto, Locs, StopPlaces
  <2>6. ~StageReady /\ ~DrainClient
    BY <1>0, <1>a DEF StageReady, DrainClient, Goto, Locs, StopPlaces
  <2> QED BY <2>2, <2>3, <2>4, <2>5, <2>6 DEF StartStep
<1>4. ~CompanionStep /\ ~UnexpectedOperationFailure
  BY <1>0, <1>a DEF CompanionStep, CompanionEnds, CompanionRolledBack,
                    UnexpectedOperationFailure, Goto, StopPlaces
<1>5. ~ConsentStop /\ ~ConsentDatabase
  BY <1>0, <1>a DEF ConsentStop, ConsentDatabase, ConsentAdvance, ConsentCommit, AdoptAndKill,
                    Goto, Locs, StopPlaces
<1>6. CASE Request
  <2>1. ASSUME NEW m \in Mode, NEW client \in BOOLEAN, Start(m, client)
        PROVE  FALSE
    BY <1>a, <2>1 DEF Start, RecoverBegin, Goto, Locs, Verb
  <2>2. ASSUME NEW m \in Mode, PreflightVerb(m)
        PROVE  FALSE
    BY <1>a, <2>2 DEF PreflightVerb, Goto, Locs, Verb
  <2>3. ~Recover /\ ~RelaunchClient /\ ~ConsentBegin
    BY <1>a DEF Recover, RelaunchClient, ConsentBegin, RecoverBegin, Goto, Locs, Verb
  <2>4. ASSUME NEW b \in BOOLEAN, Companion(b)
        PROVE  FALSE
    BY <1>a, <2>4 DEF Companion, Goto, Locs, Verb
  <2> QED BY <1>6, <2>1, <2>2, <2>3, <2>4 DEF Request, TransferBegin
<1>7. CASE Monitor
  <2>1. ASSUME NEW c \in Component, MonitorFailed(c) \/ MonitorHeal(c)
        PROVE  FALSE
    BY <1>a, <2>1 DEF MonitorFailed, MonitorHeal, AdoptAndKill, RecoverBegin, StopLocked, Goto,
                      Locs, Verb
  <2> QED BY <1>7, <2>1 DEF Monitor, MonitorTick
<1>8. CASE TransferRead \/ UNCHANGED vars
  BY <1>8 DEF TransferRead, vars
<1>9. ~JournalWriteFails /\ ~SupervisorCrash
  BY <1>0 DEF JournalWriteFails, SupervisorCrash, Goto
<1>10. CASE ServiceStep \/ \E c \in Component : NativeDies(c)
  BY <1>10 DEF ServiceStep, RetireWorld, OwnerDied, LossTeardown, BootSettles, NativeDies, Idle
<1> QED
  BY <1>0, <1>1, <1>3, <1>4, <1>5, <1>6, <1>7, <1>8, <1>9, <1>10 DEF Next, OperationStep

(* A boot brings up what is not up: it loses nothing.                      *)
LEMMA BootSaves ==
    ASSUME BaseInv, RestInv, SaveInv, BackendStart
    PROVE  SaveInv'
<1> DEFINE c == loc.cur
<1>0. /\ loc \in Locs /\ c \in Component /\ ServicesOK /\ WorldOK /\ pc = "start" /\ TypeInv
      /\ ~Live(native[c]) /\ WorldInv /\ ShapeInv
  BY StageFacts DEF BackendStart, RestInv, Staged, BaseInv, TypeInv, SaveInv
<1>1. SameServices \/ \E n, o, w : SetService(c, n, o, w)
  BY DEF BackendStart, BootFails, BootRefused, Recycle
<1>2. c = "WORLD" => ~unsaved /\ ~lost
  BY <1>0 DEF WorldInv, SaveInv, Early, Servers
<1>3. lost' = lost
  BY <1>0, <1>1, <1>2 DEF SameServices, world, SetService, WorldOK
<1>4. WorldInv'
  <2>1. CASE SameServices
    BY <1>0, <2>1 DEF SameServices, world, services, WorldInv
  <2>2. ASSUME NEW n, NEW o, NEW w, SetService(c, n, o, w)
        PROVE  WorldInv'
    <3>1. CASE c = "WORLD"
      <4>1. native'["WORLD"] = IF n = "EXITED" /\ o = NoOwner THEN "STOPPED" ELSE n
        BY <1>0, <2>2, <3>1 DEF SetService, Change, ServicesOK
      <4>2. unsaved' => Live(n)
        BY <2>2, <3>1 DEF SetService
      <4> QED BY <1>2, <1>3, <3>1, <4>1, <4>2 DEF WorldInv, Live
    <3>2. CASE c # "WORLD"
      <4>1. native'["WORLD"] = native["WORLD"] /\ unsaved' = unsaved
        BY <1>0, <2>2, <3>2 DEF SetService, Change, ServicesOK, Component
      <4> QED BY <1>0, <1>3, <4>1 DEF WorldInv
    <3> QED BY <3>1, <3>2
  <2> QED BY <1>1, <2>1, <2>2
<1>5. Early' => ~lost'
  <2>1. Early' => Early
    BY <1>0, EarlyStep DEF Next, OperationStep, StartStep, AcceptSession
  <2> QED BY <1>3, <2>1 DEF SaveInv
<1>6. /\ session' = session /\ mode' = mode /\ pc' \notin StopPlaces /\ loc'.verb = loc.verb
  BY <1>0 DEF BackendStart, StageFails, Publish, Goto, Locs, StopPlaces, journal
<1>7. loc.verb # "stop"
  BY <1>0 DEF SaveInv, StopSaves, StopPlaces
<1> QED BY <1>3, <1>4, <1>5, <1>6, <1>7 DEF SaveInv, StopSaves

(* stopLocked comes to the world's save before it takes the world down.    *)
LEMMA StopStepSaves ==
    ASSUME BaseInv, RestInv, SaveInv, Gentle, StopStep
    PROVE  StopSaves'
<1> DEFINE Durable == pc \in StopPlaces /\ loc.durable /\ loc.live /\ loc.verb = "stop"
           Ahead == /\ Backed("WORLD")
                    /\ loc.cur = "CLIENT" \/ (pc = "stop" /\ loc.cur = "WORLD")
<1>0. /\ loc \in Locs /\ JournalOK /\ WorldInv /\ (Saved => Saved')
      /\ "WORLD" \in Component
      /\ pc \in AtComponent => loc.cur \in Component
  BY GentleKeeps DEF BaseInv, TypeInv, OpInv, OperationOK, SaveInv, Component
<1>1. Durable => mode = "LAN_JOIN" \/ Ahead \/ Saved
  BY DEF SaveInv, StopSaves
<1>2. mode' = mode
  BY DEF StopStep, StopSkip, SaveWorld, StopOwned, ForceOwned, StopRecorded, StopCommit,
         FailStopCleanup, Publish, journal
<1>3. ASSUME Durable, Backed("WORLD"), mode # "LAN_JOIN"
      PROVE  NeedsStop("WORLD")
  <2>1. session \in Sessions /\ jtoken["WORLD"] \in Tokens /\ session # NoSession
    BY <1>0, <1>3, ConstantsAssumption DEF BaseInv, ShapeInv, StopShape, JournalOK, Tokened, Backed
  <2>2. OwnerOf("WORLD") # NoOwner
    BY <1>3, <2>1, FreshClaim DEF OwnerOf, Backed
  <2> QED BY <1>3, <2>2 DEF NeedsStop, Backed
<1>4. CASE StopSkip
  <2>1. /\ pc = "stop" /\ pc' = "stop" /\ loc.cur \in Component /\ loc'.cur = StopNext[loc.cur]
        /\ loc'.verb = loc.verb /\ loc'.durable = loc.durable /\ loc'.live = loc.live
        /\ ~NeedsStop(loc.cur) /\ jstate' = jstate /\ jtoken' = jtoken
    BY <1>0, <1>4 DEF StopSkip, Goto, Locs, journal
  <2>2. Durable /\ Ahead /\ mode # "LAN_JOIN" => loc'.cur = "WORLD" /\ Backed("WORLD")'
    BY <1>3, <2>1 DEF StopNext, Backed
  <2> QED BY <1>0, <1>1, <1>2, <2>1, <2>2 DEF StopSaves, StopPlaces
<1>5. CASE SaveWorld
  <2>1. /\ pc' = "stop" /\ loc'.verb = loc.verb /\ loc'.live = loc.live
        /\ UNCHANGED <<services, lost>>
    BY <1>0, <1>5 DEF SaveWorld, Goto, Locs
  <2>2. loc'.durable => native["WORLD"] = "READY" /\ unsaved' = FALSE
    BY <1>0, <1>5 DEF SaveWorld, Goto, Locs, WorldServes
  <2>3. loc'.durable => Saved'
    BY <1>0, <2>1, <2>2 DEF WorldInv, Saved, services, Live
  <2> QED BY <2>1, <2>3 DEF StopSaves, StopPlaces
<1>6. CASE StopOwned
  <2>1. /\ pc = "stop" /\ pc' \in StopPlaces /\ loc.cur \in Component /\ loc'.cur = loc.cur
        /\ loc'.verb = loc.verb /\ loc'.live = loc.live
        /\ loc'.durable => loc.durable
        /\ ~SavesFirst(loc.cur)
        /\ jstate' = [jstate EXCEPT ![loc.cur] = "STOPPING"] /\ jtoken' = jtoken
    BY <1>0, <1>6 DEF StopOwned, ForceNext, Publish, Goto, Locs, StopPlaces
  <2>2. Ahead => loc'.cur = "CLIENT" /\ Backed("WORLD")'
    BY <1>0, <2>1 DEF SavesFirst, Backed, JournalOK, Lifecycles
  <2> QED BY <1>0, <1>1, <1>2, <2>1, <2>2 DEF StopSaves, StopPlaces
<1>7. CASE ForceOwned
  <2>1. CASE Finish
    BY <2>1 DEF Finish, NoLoc, StopSaves, StopPlaces
  <2>2. CASE Goto("stopped", [loc EXCEPT !.durable = FALSE, !.claim = NoOwner])
    BY <1>0, <2>2 DEF Goto, Locs, StopSaves, StopPlaces
  <2> QED BY <1>7, <2>1, <2>2 DEF ForceOwned, FailStopCleanup
<1>8. CASE StopRecorded
  <2>1. /\ pc = "stopped" /\ pc' = "stop" /\ loc.cur \in Component
        /\ loc'.cur = StopNext[loc.cur]
        /\ loc'.verb = loc.verb /\ loc'.durable = loc.durable /\ loc'.live = loc.live
        /\ jstate' = [jstate EXCEPT ![loc.cur] = "STOPPED"]
        /\ jtoken' = [jtoken EXCEPT ![loc.cur] = NoToken]
    BY <1>0, <1>8 DEF StopRecorded, Publish, Goto, Locs, AtComponent
  <2>2. Ahead => loc'.cur = "WORLD" /\ Backed("WORLD")'
    BY <1>0, <2>1 DEF StopNext, Backed, JournalOK, Lifecycles, Tokened
  <2> QED BY <1>0, <1>1, <1>2, <2>1, <2>2 DEF StopSaves, StopPlaces
<1>9. CASE StopCommit
  BY <1>9 DEF StopCommit, Finish, NoLoc, StopSaves, StopPlaces
<1> QED BY <1>4, <1>5, <1>6, <1>7, <1>8, <1>9 DEF StopStep

(* The invariant is inductive.                                             *)
LEMMA SaveStep ==
    ASSUME BaseInv, RestInv, SaveInv, [Next]_vars
    PROVE  SaveInv'
<1>0. TypeInv /\ CleanInv /\ ShapeInv /\ WorldInv /\ StopSaves
  BY DEF BaseInv, SaveInv
<1>1. CASE BackendStart
  BY <1>1, BootSaves
<1>2. CASE Gentle
  <2>1. WorldInv' /\ (Saved => Saved')
    BY <1>0, <1>2, GentleKeeps
  <2>2. Early \/ mode = "LAN_JOIN" => (~lost => ~lost')
    BY <1>0, <1>2, GentleKeeps, WorldOff
  <2>3. AcceptSession => ~lost'
    BY DEF AcceptSession
  <2>4. Early' => ~lost'
    BY <1>0, <2>2, <2>3, EarlyStep DEF SaveInv
  <2>5. mode' = "LAN_JOIN" /\ session' # NoSession => ~lost'
    BY <1>0, <2>2, <2>3, SessionStep DEF SaveInv
  <2>6. StopSaves'
    <3>1. CASE StopStep
      BY <1>2, <3>1, StopStepSaves
    <3>2. ASSUME NEW b \in BOOLEAN, Stop(b)
          PROVE  StopSaves'
      <4>1. Locals("stop") \in Locs
        BY LocalsType DEF Verb
      <4>2. /\ pc' = "stop" /\ loc'.cur = "CLIENT" /\ loc'.live = Locals("stop").live
            /\ mode' = mode /\ jstate' = jstate /\ jtoken' = jtoken
        BY <3>2, <4>1 DEF Stop, StopLocked, Publish, Goto, Locs
      <4>3. Locals("stop").live => phase \in MonitoredPhases
        BY DEF Locals, NoLoc
      <4>4. Locals("stop").live /\ mode # "LAN_JOIN" => Backed("WORLD")
        BY <1>0, <4>3 DEF ShapeInv, PhaseBacked, ServersBacked, Servers
      <4> QED BY <4>2, <4>4 DEF StopSaves, StopPlaces, Backed
    <3>3. CASE pc' = pc /\ loc' = loc /\ UNCHANGED journal
      BY <1>0, <2>1, <3>3 DEF StopSaves, Backed, journal
    <3>4. CASE loc'.verb # "stop"
      BY <3>4 DEF StopSaves
    <3>5. loc.verb = "stop" => pc \in StopPlaces
      BY <1>0 DEF StopSaves
    <3> QED BY <1>0, <3>1, <3>2, <3>3, <3>4, <3>5, StopVerb
  <2> QED BY <2>1, <2>4, <2>5, <2>6 DEF SaveInv
<1> QED BY <1>0, <1>1, <1>2, StepGentle

(* A graceful stop of a live session that is about to commit a clean       *)
(* journal has lost none of the world's progress: the world answered the   *)
(* save before it was taken down, and nothing that ran between the save    *)
(* and the commit, a crash of the world or of the client, a late boot, an  *)
(* owner's death, could lose any.  Within RestScope.                       *)
THEOREM CleanStopHasSaved ==
    ASSUME RestScope
    PROVE  Spec => []SavedBeforeClean
<1>1. (BaseInv /\ RestInv) /\ SaveInv /\ [Next]_vars => SaveInv'
  BY SaveStep
<1>2. (BaseInv /\ RestInv) /\ SaveInv => SavedBeforeClean
  <2> SUFFICES ASSUME BaseInv, RestInv, SaveInv, pc = "stop", loc.cur = "done", loc.durable,
                      loc.live, loc.verb = "stop"
               PROVE  ~lost
    BY DEF SavedBeforeClean
  <2>1. session # NoSession
    BY DEF BaseInv, ShapeInv, StopShape, StopPlaces
  <2> QED BY <2>1 DEF SaveInv, StopSaves, StopPlaces, Saved
<1> QED
  BY <1>1, <1>2, RestInvariant, SaveInit, PTL DEF Spec

-----------------------------------------------------------------------------
(* A launch leaves no paused world behind *)

(* A paused world is up. *)
PausedIsUp == paused => native["WORLD"] = "READY"
(* A launch works beside a paused world only at its client stage, and only  *)
(* beside one that the journalled owner has lost.                           *)
Stranded ==
    pc \in StartPlaces /\ paused => loc.cur = "CLIENT" /\ owner["WORLD"] # OwnerOf("WORLD")
PauseInv == PausedIsUp /\ Stranded

(* What the result assumes: relaunchClient's resume, which is best effort,  *)
(* does not fail.                                                           *)
PauseScope == RestScope /\ "resume" \notin Faults

(* One service changes, or neither the runtimes nor the pause flag do. *)
Turns ==
    \/ \E c \in Component : \E n, o, w : Change(c, n, o, w)
    \/ UNCHANGED <<native, paused>>

(* At a first launch nothing is paused.                                    *)
LEMMA PauseInit == Init => PauseInv
BY DEF Init, PauseInv, PausedIsUp, Stranded

(* Stops, kills, boots and adoptions each change one service.              *)
LEMMA ServiceTurns ==
    /\ SameServices => Turns
    /\ \A c \in Component : Recycle(c) \/ ServiceStop(c) \/ ServiceKill(c) => Turns
    /\ \A c \in Component : \A n, o, w : SetService(c, n, o, w) => Turns
    /\ \A c \in Component : \A s : Adopts(c, s) => Turns
<1>1. SameServices => Turns
  BY DEF SameServices, services, world, Turns
<1>2. ASSUME NEW c \in Component, NEW n, NEW o, NEW w, SetService(c, n, o, w)
      PROVE  Turns
  BY <1>2 DEF SetService, Turns
<1>3. ASSUME NEW c \in Component, Recycle(c) \/ ServiceStop(c) \/ ServiceKill(c)
      PROVE  Turns
  <2>1. CASE ServiceStop(c)
    BY <2>1 DEF ServiceStop, Turns
  <2> QED BY <1>2, <1>3, <2>1 DEF Recycle, ServiceKill
<1>4. ASSUME NEW c \in Component, NEW s, Adopts(c, s)
      PROVE  Turns
  BY <1>1, <1>2, <1>3, <1>4 DEF Adopts
<1> QED BY <1>1, <1>2, <1>3, <1>4

(* Only the toggle and relaunchClient touch the pause flag on their own.   *)
LEMMA StepTurns ==
    ASSUME TypeInv, [Next]_vars
    PROVE  CompanionEnds \/ RelaunchClient \/ Turns
<1>0. pc \in AtComponent => loc.cur \in Component
  BY DEF TypeInv, OpInv, OperationOK
<1>a. {"DATABASE", "REALM", "WORLD", "CLIENT"} = Component
  BY DEF Component
<1>1. CASE RecoverStep
  <2>1. CASE RecoverSkip \/ RecoverObserveFails \/ RecoverOrphan \/ RecoverUnverified
             \/ RecoverGrace
    BY <2>1, ServiceTurns DEF RecoverSkip, RecoverObserveFails, RecoverOrphan,
                              RecoverUnverified, RecoverGrace
  <2>2. CASE RecoverKill
    BY <2>2, ServiceTurns DEF RecoverKill, Recovering
  <2>3. CASE RecoverHeal
    <3>1. loc.cur \in Component
      BY <1>0, <2>3 DEF RecoverHeal, AtComponent
    <3>2. SameServices \/ Adopts(loc.cur, loc.prior.session)
      BY <2>3 DEF RecoverHeal, AdoptAndKill, Adopts
    <3> QED BY <3>1, <3>2, ServiceTurns
  <2>4. CASE RecoverDatabase
    <3>1. \/ UNCHANGED <<services, paused>>
          \/ Change("DATABASE", "STOPPED", NoOwner, {})
          \/ Change("DATABASE", "STOPPED", owner["DATABASE"], doom["DATABASE"])
      BY <2>4 DEF RecoverDatabase, SameServices, world
    <3> QED BY <1>a, <3>1 DEF Turns, services
  <2> QED BY <1>1, <2>1, <2>2, <2>3, <2>4 DEF RecoverStep
<1>2. CASE StopStep
  <2>1. CASE StopSkip \/ StopRecorded \/ StopCommit
    BY <2>1, ServiceTurns DEF StopSkip, StopRecorded, StopCommit
  <2>2. CASE SaveWorld
    BY <2>2 DEF SaveWorld, Turns, services
  <2>3. CASE StopOwned
    BY <2>3, ServiceTurns DEF StopOwned, StopUnacknowledged, Turns
  <2>4. CASE ForceOwned
    BY <1>0, <2>4, ServiceTurns DEF ForceOwned, AtComponent
  <2> QED BY <1>2, <2>1, <2>2, <2>3, <2>4 DEF StopStep
<1>3. CASE StartStep
  <2>1. CASE PreflightEnds \/ StageRequest \/ StageReady \/ ProjectAdvertisement \/ UnwindStage
             \/ IsolateRecorded
    BY <2>1, ServiceTurns DEF PreflightEnds, StageRequest, StageReady, ProjectAdvertisement,
                              UnwindStage, IsolateRecorded
  <2>2. CASE AcceptSession
    BY <2>2 DEF AcceptSession, Turns, services
  <2>3. CASE BackendStart
    <3>1. loc.cur \in Component
      BY <1>0, <2>3 DEF BackendStart, AtComponent
    <3> QED BY <2>3, <3>1, ServiceTurns DEF BackendStart, BootFails, BootRefused
  <2>4. CASE RetireFailedNative
    BY <1>0, <2>4, ServiceTurns DEF RetireFailedNative, AtComponent
  <2>5. CASE ReclaimDatabase
    BY <1>a, <2>5, ServiceTurns DEF ReclaimDatabase
  <2>6. CASE DrainClient
    BY <1>a, <2>6, ServiceTurns DEF DrainClient
  <2> QED BY <1>3, <2>1, <2>2, <2>3, <2>4, <2>5, <2>6 DEF StartStep
<1>4. CASE CompanionRolledBack \/ UnexpectedOperationFailure
  BY <1>4, ServiceTurns DEF CompanionRolledBack, UnexpectedOperationFailure
<1>5. CASE ConsentStop
  <2>1. loc.cur \in Component
    BY <1>0, <1>5 DEF ConsentStop, AtComponent
  <2>2. SameServices \/ ServiceKill(loc.cur) \/ \E s : Adopts(loc.cur, s)
    BY <1>5 DEF ConsentStop, AdoptAndKill, Adopts
  <2> QED BY <2>1, <2>2, ServiceTurns
<1>6. CASE ConsentDatabase
  BY <1>6, <1>a, ServiceTurns DEF ConsentDatabase
<1>7. CASE Request /\ ~RelaunchClient
  <2>1. SameServices
    BY <1>7 DEF Request, Start, PreflightVerb, Recover, ConsentBegin, TransferBegin, Stop,
                Companion
  <2> QED BY <2>1, ServiceTurns
<1>8. CASE Monitor
  <2>1. ASSUME NEW c \in Component, MonitorHeal(c)
        PROVE  Turns
    <3>1. SameServices \/ Adopts(c, session)
      BY <2>1 DEF MonitorHeal, AdoptAndKill, Adopts
    <3> QED BY <3>1, ServiceTurns
  <2> QED BY <1>8, <2>1, ServiceTurns DEF Monitor, MonitorTick, MonitorFailed
<1>9. CASE TransferRead \/ TransferWrite \/ JournalWriteFails
  BY <1>9, ServiceTurns DEF TransferRead, TransferWrite, JournalWriteFails
<1>10. CASE SupervisorCrash \/ UNCHANGED vars
  BY <1>10 DEF SupervisorCrash, vars, services, world, Turns
<1>11. CASE ServiceStep \/ \E c \in Component : NativeDies(c)
  <2>1. ASSUME NEW c \in Component, OwnerDied(c)
        PROVE  Turns
    BY <2>1 DEF OwnerDied, Turns
  <2> QED
    BY <1>11, <1>a, <2>1, ServiceTurns DEF ServiceStep, RetireWorld, LossTeardown, BootSettles,
                                          NativeDies
<1> QED
  BY <1>1, <1>2, <1>3, <1>4, <1>5, <1>6, <1>7, <1>8, <1>9, <1>10, <1>11
  DEF Next, OperationStep, CompanionStep

(* A launch that is at its client stays there, and leaves the world and    *)
(* the world's record alone; a launch begins with AcceptSession or with    *)
(* relaunchClient.                                                         *)
LEMMA LaunchSteps ==
    ASSUME BaseInv, [Next]_vars, pc' \in StartPlaces
    PROVE  \/ AcceptSession
           \/ RelaunchClient
           \/ /\ pc \in StartPlaces
              /\ loc.cur = "CLIENT" =>
                   /\ loc'.cur = "CLIENT" /\ OwnerOf("WORLD")' = OwnerOf("WORLD")
                   /\ owner'["WORLD"] \in {owner["WORLD"], NoOwner}
<1>0. /\ loc \in Locs /\ ServicesOK /\ JournalOK /\ LeaseInv /\ "WORLD" \in Component
      /\ "CLIENT" \in Component
  BY DEF BaseInv, TypeInv, OpInv, OperationOK, Component
<1>a. ASSUME pc \in StartPlaces, loc'.cur = loc.cur, UNCHANGED journal,
             owner'["WORLD"] \in {owner["WORLD"], NoOwner}
      PROVE  /\ loc.cur = "CLIENT" => /\ loc'.cur = "CLIENT"
                                      /\ OwnerOf("WORLD")' = OwnerOf("WORLD")
                                      /\ owner'["WORLD"] \in {owner["WORLD"], NoOwner}
  BY <1>a DEF OwnerOf, journal
<1>b. ASSUME loc.cur = "CLIENT", session' = session,
             jtoken' = jtoken \/ \E t : jtoken' = [jtoken EXCEPT !["CLIENT"] = t]
      PROVE  OwnerOf("WORLD")' = OwnerOf("WORLD")
  <2>1. jtoken'["WORLD"] = jtoken["WORLD"]
    BY <1>0, <1>b DEF JournalOK, Tokened
  <2> QED BY <1>b, <2>1 DEF OwnerOf
<1>c. /\ SameServices => owner'["WORLD"] = owner["WORLD"]
      /\ \A n, o, w : SetService("CLIENT", n, o, w) => owner'["WORLD"] = owner["WORLD"]
      /\ \A n, o, w : Change("DATABASE", n, o, w) => owner'["WORLD"] = owner["WORLD"]
      /\ \A n, o, w : Change("CLIENT", n, o, w) => owner'["WORLD"] = owner["WORLD"]
  BY <1>0 DEF SameServices, services, SetService, Change, ServicesOK
<1>1. ~RecoverStep
  BY DEF RecoverStep, RecoverSkip, RecoverObserveFails, RecoverOrphan, RecoverKill,
         RecoverUnverified, RecoverGrace, RecoverHeal, RecoverDatabase, AdoptAndKill,
         RecoverAdvance, RecoverCommit, Fail, Finish, Goto, StartPlaces, Staging
<1>2. ~StopStep
  BY DEF StopStep, StopSkip, SaveWorld, StopOwned, ForceOwned, StopRecorded, StopCommit,
         ForceNext, FailStopCleanup, Finish, Goto, StartPlaces, Staging
<1>3. CASE StartStep
  <2>1. ~PreflightEnds /\ ~UnwindStage /\ ~IsolateRecorded
    BY DEF PreflightEnds, UnwindStage, IsolateRecorded, StopLocked, Finish, Goto, StartPlaces,
           Staging
  <2>2. CASE StageRequest
    <3>1. /\ pc \in StartPlaces /\ loc'.cur = loc.cur /\ session' = session
          /\ \E t : jtoken' = [jtoken EXCEPT ![loc.cur] = t]
          /\ owner'["WORLD"] = owner["WORLD"]
      BY <1>0, <1>c, <2>2 DEF StageRequest, Publish, Goto, Locs, StartPlaces
    <3> QED BY <1>b, <3>1
  <2>3. CASE BackendStart
    <3>1. /\ pc \in StartPlaces /\ loc'.cur = loc.cur /\ session' = session /\ jtoken' = jtoken
      BY <1>0, <2>3 DEF BackendStart, StageFails, Publish, Goto, Locs, StartPlaces, Staging,
                        journal
    <3>2. loc.cur = "CLIENT" => owner'["WORLD"] = owner["WORLD"]
      BY <1>c, <2>3 DEF BackendStart, BootFails, BootRefused, Recycle
    <3> QED BY <1>b, <3>1, <3>2
  <2>4. CASE RetireFailedNative
    <3>1. /\ pc \in StartPlaces /\ loc'.cur = loc.cur /\ session' = session /\ jtoken' = jtoken
      BY <1>0, <2>4 DEF RetireFailedNative, StageFails, Publish, Goto, Locs, StartPlaces, Staging,
                        journal
    <3>2. loc.cur = "CLIENT" => owner'["WORLD"] = owner["WORLD"]
      BY <1>c, <2>4 DEF RetireFailedNative, ServiceStop
    <3> QED BY <1>b, <3>1, <3>2
  <2>5. CASE ReclaimDatabase
    <3>1. /\ pc \in StartPlaces /\ loc'.cur = loc.cur /\ session' = session /\ jtoken' = jtoken
      BY <1>0, <2>5 DEF ReclaimDatabase, StageFails, Publish, Goto, Locs, StartPlaces, Staging,
                        journal
    <3>2. owner'["WORLD"] = owner["WORLD"]
      BY <1>c, <2>5 DEF ReclaimDatabase, ServiceStop, ServiceKill, Recycle, SetService
    <3> QED BY <1>b, <3>1, <3>2
  <2>6. CASE StageReady
    <3>1. loc.cur # "CLIENT" /\ pc \in StartPlaces
      BY <2>6 DEF StageReady, Finish, StartPlaces, Staging
    <3> QED BY <3>1
  <2>7. CASE ProjectAdvertisement
    <3>1. loc.cur # "CLIENT" /\ pc \in StartPlaces
      BY <2>7 DEF ProjectAdvertisement, BaseInv, ShapeInv, StageShape, StartPlaces, Staging
    <3> QED BY <3>1
  <2>8. CASE DrainClient
    <3>1. /\ pc = "drain" /\ loc' = loc /\ session' = session
          /\ jtoken' = jtoken \/ \E t : jtoken' = [jtoken EXCEPT !["CLIENT"] = t]
      BY <2>8 DEF DrainClient, Fail, Finish, Goto, Publish, StartPlaces, Staging, journal
    <3>2. owner'["WORLD"] = owner["WORLD"]
      BY <1>c, <2>8 DEF DrainClient, ServiceKill, Recycle
    <3> QED BY <1>b, <3>1, <3>2 DEF StartPlaces
  <2> QED BY <1>3, <2>1, <2>2, <2>3, <2>4, <2>5, <2>6, <2>7, <2>8 DEF StartStep
<1>4. ~CompanionStep /\ ~UnexpectedOperationFailure
  BY DEF CompanionStep, CompanionEnds, CompanionRolledBack, UnexpectedOperationFailure, Finish,
         Goto, StartPlaces, Staging
<1>5. ~ConsentStop /\ ~ConsentDatabase
  BY DEF ConsentStop, ConsentDatabase, ConsentAdvance, ConsentCommit, AdoptAndKill, Fail, Finish,
         Goto, StartPlaces, Staging
<1>6. CASE Request
  <2>1. CASE TransferBegin
    BY <1>a, <1>c, <2>1 DEF TransferBegin
  <2> QED
    BY <1>6, <2>1 DEF Request, Start, PreflightVerb, Recover, ConsentBegin, Stop, Companion,
                      RecoverBegin, StopLocked, Goto, StartPlaces, Staging
<1>7. ~Monitor
  BY DEF Monitor, MonitorTick, MonitorFailed, MonitorHeal, Reaches, Begin, RecoverBegin,
         AdoptAndKill, StopLocked, Fail, Finish, Goto, StartPlaces, Staging
<1>8. CASE TransferRead \/ UNCHANGED vars
  BY <1>8, <1>a, <1>c DEF TransferRead, vars, services
<1>9. ~TransferWrite /\ ~JournalWriteFails /\ ~SupervisorCrash
  BY ConstantsAssumption DEF TransferWrite, Captured, BaseInv, CleanInv, JournalWriteFails,
                             SupervisorCrash, Goto, StartPlaces, Staging
<1>10. CASE ServiceStep \/ \E c \in Component : NativeDies(c)
  BY <1>0, <1>10, <1>a, EnvironmentGivesUp DEF GivesUp, Idle
<1> QED
  BY <1>1, <1>2, <1>3, <1>4, <1>5, <1>6, <1>7, <1>8, <1>9, <1>10 DEF Next, OperationStep

(* The invariant is inductive.                                             *)
LEMMA PauseStep ==
    ASSUME PauseScope, BaseInv, RestInv, PauseInv, [Next]_vars
    PROVE  PauseInv'
<1>0. /\ TypeInv /\ ServicesOK /\ PausedIsUp /\ Stranded /\ "WORLD" \in Component
  BY DEF BaseInv, TypeInv, PauseInv, Component
<1>1. CASE CompanionEnds
  <2>1. PausedIsUp'
    BY <1>0, <1>1 DEF CompanionEnds, WorldServes, PausedIsUp, services
  <2>2. pc' \notin StartPlaces
    BY <1>1 DEF CompanionEnds, Finish, Goto, StartPlaces, Staging
  <2> QED BY <2>1, <2>2 DEF PauseInv, Stranded
<1>2. CASE RelaunchClient
  <2>1. /\ paused' = (paused /\ ~WorldServes(OwnerOf("WORLD"))) /\ UNCHANGED <<journal, services>>
        /\ loc'.cur = "CLIENT"
    <3>1. Locals("relaunch") \in Locs
      BY LocalsType DEF Verb
    <3> QED BY <1>2, <3>1 DEF RelaunchClient, PauseScope, Fault, Goto, Locs
  <2>2. OwnerOf("WORLD")' = OwnerOf("WORLD")
    BY <2>1 DEF OwnerOf, journal
  <2> QED BY <1>0, <2>1, <2>2 DEF PauseInv, PausedIsUp, Stranded, WorldServes, services
<1>3. CASE Turns /\ ~RelaunchClient
  <2>1. (paused' => paused) /\ PausedIsUp'
    <3>1. ASSUME NEW c \in Component, NEW n, NEW o, NEW w, Change(c, n, o, w)
          PROVE  (paused' => paused) /\ PausedIsUp'
      <4>1. CASE c = "WORLD"
        BY <1>0, <3>1, <4>1 DEF Change, ServicesOK, PausedIsUp
      <4>2. CASE c # "WORLD"
        BY <1>0, <3>1, <4>2 DEF Change, ServicesOK, PausedIsUp
      <4> QED BY <4>1, <4>2
    <3> QED BY <1>0, <1>3, <3>1 DEF Turns, PausedIsUp
  <2>2. Stranded'
    <3> SUFFICES ASSUME pc' \in StartPlaces, paused'
                 PROVE  loc'.cur = "CLIENT" /\ owner'["WORLD"] # OwnerOf("WORLD")'
      BY DEF Stranded
    <3>1. paused /\ Live(native["WORLD"])
      BY <1>0, <2>1 DEF PausedIsUp, Live
    <3>2. ~AcceptSession
      <4>1. AcceptSession => clean
        BY DEF AcceptSession, BaseInv, ShapeInv, StopShape
      <4> QED BY <1>0, <3>1, <4>1, CleanDown DEF BaseInv
    <3>3. OwnerOf("WORLD") # NoOwner
      BY <1>0, <3>1 DEF RestInv, Accounted, NeedsStop
    <3>4. /\ pc \in StartPlaces
          /\ loc.cur = "CLIENT" =>
               /\ loc'.cur = "CLIENT" /\ OwnerOf("WORLD")' = OwnerOf("WORLD")
               /\ owner'["WORLD"] \in {owner["WORLD"], NoOwner}
      BY <1>3, <3>2, LaunchSteps
    <3>5. loc.cur = "CLIENT" /\ owner["WORLD"] # OwnerOf("WORLD")
      BY <1>0, <3>1, <3>4 DEF Stranded
    <3> QED BY <3>3, <3>4, <3>5
  <2> QED BY <2>1, <2>2 DEF PauseInv
<1> QED BY <1>0, <1>1, <1>2, <1>3, StepTurns

(* A start or a relaunch that ends in RUNNING leaves no paused world in    *)
(* the hands of the journalled owner: whatever stranded the pause flag, a  *)
(* companion call that failed after its effect or a client that died in    *)
(* companion mode, and whatever crashed or died since, relaunchClient has  *)
(* cleared it, and a start begins with no world up.                        *)
THEOREM LaunchedMeansTicking ==
    ASSUME PauseScope
    PROVE  Spec => LaunchedWorldTicks
<1>0. RestScope
  BY DEF PauseScope
<1>1. (BaseInv /\ RestInv) /\ PauseInv /\ [Next]_vars => PauseInv'
  BY PauseStep
<1>2. (BaseInv /\ RestInv) /\ PauseInv /\ [Next]_vars =>
        [pc = "stageReady" /\ pc' = "idle" /\ phase' = "RUNNING"
         => ~(paused' /\ owner'["WORLD"] = OwnerOf("WORLD"))]_vars
  <2> SUFFICES ASSUME BaseInv, PauseInv, [Next]_vars, pc = "stageReady", pc' = "idle",
                      phase' = "RUNNING", paused', owner'["WORLD"] = OwnerOf("WORLD")
               PROVE  FALSE
    OBVIOUS
  <2>1. phase # "RUNNING"
    BY DEF BaseInv, ShapeInv, StageShape, Staging, PhaseFor, TypeInv, OpInv, OperationOK,
           AtComponent, Component
  <2>2. StageReady
    <3>1. UNCHANGED phase \/ StageReady
      <4>1. CASE OperationStep
        BY <4>1 DEF OperationStep, RecoverStep, RecoverSkip, RecoverObserveFails, RecoverOrphan,
           RecoverKill, RecoverUnverified, RecoverGrace, RecoverHeal, RecoverDatabase, Recovering,
           StopStep, StopSkip, SaveWorld, StopOwned, ForceOwned, StopRecorded, StopCommit,
           StartStep, PreflightEnds, AcceptSession, StageRequest, BackendStart,
           RetireFailedNative, ReclaimDatabase, ProjectAdvertisement, UnwindStage, DrainClient,
           IsolateRecorded, CompanionStep, CompanionEnds, CompanionRolledBack, ConsentStop,
           ConsentDatabase, UnexpectedOperationFailure
      <4>2. CASE Request
        BY <4>2 DEF Request, Start, PreflightVerb, Recover, RelaunchClient, ConsentBegin, Stop,
                    Companion, TransferBegin, Begin, journal
      <4>3. ~Monitor
        BY DEF Monitor, MonitorTick, MonitorFailed, MonitorHeal, Reaches, Begin
      <4>4. ~TransferWrite
        BY ConstantsAssumption DEF TransferWrite, Captured, BaseInv, CleanInv
      <4> QED
        BY <4>1, <4>2, <4>3, <4>4
        DEF Next, TransferRead, JournalWriteFails, SupervisorCrash, ServiceStep, RetireWorld,
            OwnerDied, LossTeardown, BootSettles, NativeDies, Idle, vars, journal
    <3> QED BY <2>1, <3>1
  <2>3. paused /\ owner' = owner
    BY <2>2 DEF StageReady, SameServices, services, world
  <2> QED BY <2>3 DEF PauseInv, Stranded, StartPlaces, Staging
<1> QED
  BY <1>0, <1>1, <1>2, RestInvariant, PauseInit, PTL DEF Spec, LaunchedWorldTicks
=============================================================================
