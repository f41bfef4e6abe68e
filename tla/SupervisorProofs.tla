--------------------------- MODULE SupervisorProofs ---------------------------
EXTENDS Supervisor, TLAPS

(***************************************************************************)
(* Type correctness of the supervisor.                                     *)
(*                                                                         *)
(* TypeOK is not inductive: StageRequest builds a claim from the session   *)
(* the operation holds, so the session must be a real one wherever a stage *)
(* or an adoption may follow; the journal's record of a ready component    *)
(* takes its token from that claim; and the consented force stop must not  *)
(* walk past the database.  TypeInv adds these facts.                      *)
(***************************************************************************)

(* Where the operation holds the id of an open session. *)
SessionBound == {"stage", "drain", "start", "reclaim", "retire", "stageReady", "project",
                 "grace"}
(* Where it holds the claim of a stage. *)
ClaimBound == {"start", "reclaim", "retire", "stageReady"}
ClaimOK == /\ pc \in SessionBound => loc.prior.session \in Sessions
           /\ pc \in ClaimBound => loc.claim \in Owner
(* The consented verb kills client, world and realm, then sees to the database. *)
ConsentOK == /\ pc = "orphans" => loc.cur # "DATABASE"
             /\ pc \in {"orphans", "orphanDb"} => loc.verb = "consent"
OpInv == OperationOK /\ ClaimOK /\ ConsentOK
TypeInv == JournalOK /\ ServicesOK /\ OpInv /\ MemoryOK /\ WorldOK /\ faults \in 0..MaxFaults

-----------------------------------------------------------------------------
(* Constants and helpers *)

(* The ends of the ranges the bounds span.                                 *)
LEMMA Bounds ==
    /\ 0 \in 0..GraceTicks /\ 1 \in 0..GraceTicks /\ 0 \in 0..(GraceTicks - 1)
    /\ MaxFaults \in 0..MaxFaults
BY ConstantsAssumption

(* Minting draws from the pool it is given.                                *)
LEMMA MintType == \A S : Mint(S) \subseteq S
BY DEF Mint

(* Minted session ids and instance tokens are ids and tokens.              *)
LEMMA FreshType ==
    /\ FreshSessions \subseteq Sessions
    /\ \A c \in Component : FreshTokens(c) \subseteq Tokens
BY MintType DEF FreshSessions, FreshTokens

(* STOP_ORDER leads from every component but the database to another one,  *)
(* and reaches the database from the realm only.                           *)
LEMMA StopNextType ==
    \A c \in Component : /\ StopNext[c] \in Component \cup {"done"}
                         /\ c # "DATABASE" => StopNext[c] \in Component
                         /\ c \notin {"REALM", "DATABASE"} => StopNext[c] # "DATABASE"
BY DEF Component, StopNext

(* The start plan leads from every component but the client to another     *)
(* one.                                                                    *)
LEMMA StartNextType ==
    \A c \in Component : c # "CLIENT" => StartNext[c] \in Component
BY DEF Component, StartNext

(* Every stage has a phase.                                                *)
LEMMA PhaseForType == \A c \in Component : PhaseFor[c] \in Phase
BY DEF Component, PhaseFor, Phase

(* ownerOf gives a claim or nothing, and a claim needs an open session.    *)
LEMMA OwnerOfType ==
    ASSUME JournalOK, NEW c \in Component
    PROVE  /\ OwnerOf(c) \in Claims
           /\ OwnerOf(c) # NoOwner => session \in Sessions
BY DEF OwnerOf, JournalOK, Claims, Owner, Tokened

(* An owner taken from the snapshot the operation read names a session.    *)
LEMMA PriorOwnerType ==
    ASSUME loc \in Locs, NEW c \in Component, PriorOwner(c) # NoOwner
    PROVE  loc.prior.session \in Sessions
BY DEF PriorOwner, Locs, Priors

(* What an operation keeps of the snapshot has its type.                   *)
LEMMA PriorType == JournalOK => Prior \in Priors
BY DEF JournalOK, Prior, Priors

(* The locals of no operation have their type.                             *)
LEMMA NoLocType == NoLoc \in Locs /\ NoLoc.verb = "none"
<1>1. [session |-> NoSession, mode |-> "LOCAL", token |-> Unowned] \in Priors
  BY DEF Priors, Mode, Unowned, Tokened
<1> QED
  BY <1>1, Bounds DEF NoLoc, Locs, Verb, Cursors, Mode, Phase, Claims

(* An operation begins with well-typed locals that name its verb.          *)
LEMMA LocalsType == \A v \in Verb : Locals(v) \in Locs /\ Locals(v).verb = v
<1> TAKE v \in Verb
<1>1. (phase \in MonitoredPhases) \in BOOLEAN
  OBVIOUS
<1> QED
  BY <1>1, NoLocType DEF Locals, Locs

-----------------------------------------------------------------------------
(* The journal *)

(* publish of a copy of the snapshot keeps the journal well typed.         *)
LEMMA PublishType ==
    ASSUME JournalOK, NEW ph \in Phase, NEW cl \in BOOLEAN, NEW js \in Lifecycles,
           NEW jt \in Tokened, Publish(ph, cl, js, jt)
    PROVE  JournalOK'
BY DEF JournalOK, Publish

(* publish of a new RuntimeSnapshot gives a well-typed journal.            *)
LEMMA PublishFreshType ==
    ASSUME NEW ph \in Phase, NEW cl \in BOOLEAN, NEW s \in Sessions \cup {NoSession},
           NEW m \in Mode, PublishFresh(ph, cl, s, m)
    PROVE  JournalOK'
BY DEF JournalOK, PublishFresh, Stopped, Unowned, Lifecycles, Tokened, Lifecycle

(* updateComponent: one component's record is replaced by a well-typed     *)
(* one.                                                                    *)
LEMMA RecordType ==
    ASSUME JournalOK, NEW c \in Component
    PROVE  /\ \A l \in Lifecycle : [jstate EXCEPT ![c] = l] \in Lifecycles
           /\ \A t \in Tokens \cup {NoToken} : [jtoken EXCEPT ![c] = t] \in Tokened
BY DEF JournalOK, Lifecycles, Tokened

(* A journal that is left alone stays well typed.                          *)
LEMMA SameJournalType ==
    ASSUME JournalOK, UNCHANGED journal
    PROVE  JournalOK'
BY DEF JournalOK, journal

(* fail() keeps the journal well typed.                                    *)
LEMMA FailType ==
    ASSUME JournalOK, Fail
    PROVE  JournalOK'
BY PublishType DEF JournalOK, Fail, Phase

-----------------------------------------------------------------------------
(* The services *)

(* A well-typed change of one service keeps the services well typed.       *)
LEMMA ChangeType ==
    ASSUME ServicesOK, paused \in BOOLEAN, NEW c \in Component, NEW n \in Native,
           NEW o \in Claims, NEW d \in SUBSET Doom, Change(c, n, o, d)
    PROVE  ServicesOK' /\ paused' \in BOOLEAN
<1>1. (IF n = "EXITED" /\ o = NoOwner THEN "STOPPED" ELSE n) \in Native
  BY DEF Native
<1> QED BY <1>1 DEF ServicesOK, Change

(* The same for a change that accounts for world progress.                 *)
LEMMA SetServiceType ==
    ASSUME ServicesOK, WorldOK, NEW c \in Component, NEW n \in Native,
           NEW o \in Claims, NEW d \in SUBSET Doom, SetService(c, n, o, d)
    PROVE  ServicesOK' /\ WorldOK'
<1>1. ServicesOK' /\ paused' \in BOOLEAN
  BY ChangeType DEF SetService, WorldOK
<1>2. lost' \in BOOLEAN /\ unsaved' \in BOOLEAN
  BY DEF SetService, WorldOK
<1> QED BY <1>1, <1>2 DEF WorldOK

(* The state of one service, and the values the actions give it.           *)
LEMMA ServiceType ==
    ASSUME ServicesOK, NEW c \in Component
    PROVE  /\ native[c] \in Native /\ owner[c] \in Claims /\ NoOwner \in Claims
           /\ doom[c] \in SUBSET Doom /\ doom[c] \ {"lease"} \in SUBSET Doom
           /\ {} \in SUBSET Doom
           /\ {"STOPPED", "STARTING", "READY", "FAILED", "EXITED"} \subseteq Native
BY DEF ServicesOK, Native, Claims

(* A recycled process leaves the services well typed.                      *)
LEMMA RecycleType ==
    ASSUME ServicesOK, WorldOK, NEW c \in Component, Recycle(c)
    PROVE  ServicesOK' /\ WorldOK'
BY SetServiceType, ServiceType DEF Recycle

(* stopOwned leaves the services well typed.                               *)
LEMMA ServiceStopType ==
    ASSUME ServicesOK, WorldOK, NEW c \in Component, ServiceStop(c)
    PROVE  ServicesOK' /\ WorldOK'
<1> DEFINE n == IF c = "DATABASE" /\ native[c] = "FAILED" THEN "FAILED" ELSE "STOPPED"
           d == (doom[c] \ {"lease"}) \cup (IF c = "WORLD" THEN {"retire"} ELSE {})
<1>1. n \in Native /\ d \in SUBSET Doom /\ NoOwner \in Claims
  BY ServiceType DEF Doom
<1>2. Change(c, n, NoOwner, d)
  BY DEF ServiceStop
<1>3. ServicesOK' /\ paused' \in BOOLEAN
  <2> HIDE DEF n, d
  <2> QED BY <1>1, <1>2, ChangeType DEF WorldOK
<1>4. lost' \in BOOLEAN /\ unsaved' \in BOOLEAN
  BY DEF ServiceStop, WorldOK
<1> QED BY <1>3, <1>4 DEF WorldOK

(* So does a stop whose acknowledgement is lost.                           *)
LEMMA StopUnacknowledgedType ==
    ASSUME ServicesOK, WorldOK, NEW c \in Component, StopUnacknowledged(c)
    PROVE  ServicesOK' /\ WorldOK'
<1>1. CASE ServiceStop(c)
  BY <1>1, ServiceStopType
<1>2. CASE /\ Change(c, "STOPPED", owner[c], doom[c])
           /\ unsaved' = (unsaved /\ c # "WORLD") /\ UNCHANGED lost
  <2>1. ServicesOK' /\ paused' \in BOOLEAN
    BY <1>2, ServiceType, ChangeType DEF WorldOK
  <2>2. lost' \in BOOLEAN /\ unsaved' \in BOOLEAN
    BY <1>2 DEF WorldOK
  <2> QED BY <2>1, <2>2 DEF WorldOK
<1> QED BY <1>1, <1>2 DEF StopUnacknowledged

(* forceStopOwned leaves the services well typed.                          *)
LEMMA ServiceKillType ==
    ASSUME ServicesOK, WorldOK, NEW c \in Component, ServiceKill(c)
    PROVE  ServicesOK' /\ WorldOK'
<1>1. CASE Recycle(c)
  BY <1>1, RecycleType
<1>2. CASE SetService(c, "FAILED", owner[c], doom[c])
  BY <1>2, ServiceType, SetServiceType
<1>3. CASE SetService(c, native[c], NoOwner, doom[c] \ {"lease"})
  BY <1>3, ServiceType, SetServiceType
<1> QED BY <1>1, <1>2, <1>3 DEF ServiceKill

(* Services that are left alone stay well typed.                           *)
LEMMA SameServicesType ==
    ASSUME ServicesOK, WorldOK, SameServices
    PROVE  ServicesOK' /\ WorldOK'
BY DEF ServicesOK, WorldOK, SameServices, services, world

(* An adopted claim is a whole (session, token) pair.                      *)
LEMMA AdoptType ==
    ASSUME ServicesOK, WorldOK, NEW c \in Component, NEW s \in Sessions, NEW t \in Tokens,
           SetService(c, native[c], [session |-> s, token |-> t], doom[c])
    PROVE  ServicesOK' /\ WorldOK'
<1>1. [session |-> s, token |-> t] \in Claims
  BY DEF Claims, Owner
<1> QED BY <1>1, ServiceType, SetServiceType

-----------------------------------------------------------------------------
(* The operation and the frame *)

(* The fault budget never goes below zero.                                 *)
LEMMA FaultType ==
    ASSUME faults \in 0..MaxFaults
    PROVE  (NoFault => faults' \in 0..MaxFaults) /\ \A k : Fault(k) => faults' \in 0..MaxFaults
BY ConstantsAssumption DEF Fault, NoFault

(* Supervisor memory that is left alone stays well typed.                  *)
LEMMA SameMemoryType ==
    ASSUME MemoryOK, UNCHANGED <<memory, transfer>>
    PROVE  MemoryOK'
BY DEF MemoryOK, memory

(* A step to another point of the operation, with locals that fit it.      *)
LEMMA GotoType ==
    ASSUME NEW p \in PC, NEW l \in Locs, Goto(p, l),
           p \in AtComponent => l.cur \in Component,
           p \in SessionBound => l.prior.session \in Sessions,
           p \in ClaimBound => l.claim \in Owner,
           p = "orphans" => l.cur # "DATABASE",
           p \in {"orphans", "orphanDb"} => l.verb = "consent"
    PROVE  OpInv'
BY DEF OpInv, OperationOK, ClaimOK, ConsentOK, Goto

(* Ending an operation leaves no locals behind.                            *)
LEMMA FinishType == Finish => OpInv'
BY NoLocType, GotoType DEF Finish, Goto, PC, AtComponent, SessionBound, ClaimBound

(* Recovery moves on to the next component of STOP_ORDER.                  *)
LEMMA RecoverAdvanceType ==
    ASSUME OpInv, loc.cur \in Component, RecoverAdvance
    PROVE  OpInv'
<1> DEFINE x == IF loc.prior.mode = "LAN_JOIN" THEN "done" ELSE StopNext[loc.cur]
           l == [loc EXCEPT !.seen = 0, !.cur = x]
<1>1. x \in Cursors
  BY StopNextType DEF Cursors
<1>2. Goto("recover", l)
  BY DEF RecoverAdvance
<1>3. l \in Locs
  <2> HIDE DEF x
  <2> QED BY <1>1, Bounds DEF Locs, OpInv, OperationOK
<1> HIDE DEF l
<1> QED
  BY <1>2, <1>3, GotoType DEF PC, AtComponent, SessionBound, ClaimBound

(* Recovery begins with the snapshot it read.                              *)
LEMMA RecoverBeginType ==
    ASSUME JournalOK, NEW l \in Locs, RecoverBegin(l)
    PROVE  OpInv' /\ JournalOK'
<1> DEFINE m == [l EXCEPT !.cur = "CLIENT", !.prior = Prior]
<1>1. m \in Locs
  BY PriorType DEF Locs, Cursors, Component
<1>2. Goto("recover", m) /\ Publish("RECOVERING", FALSE, jstate, jtoken)
  BY DEF RecoverBegin
<1>3. JournalOK'
  BY <1>2, PublishType DEF JournalOK, Phase
<1> HIDE DEF m
<1> QED
  BY <1>1, <1>2, <1>3, GotoType DEF PC, AtComponent, SessionBound, ClaimBound

(* stopLocked begins at the client.                                        *)
LEMMA StopLockedType ==
    ASSUME JournalOK, NEW l \in Locs, NEW js \in Lifecycles, NEW jt \in Tokened,
           NEW g \in BOOLEAN, NEW f \in Phase, NEW p \in BOOLEAN,
           StopLocked(l, js, jt, g, f, p)
    PROVE  OpInv' /\ JournalOK'
<1> DEFINE m == [l EXCEPT !.cur = "CLIENT", !.graceful = g, !.final = f, !.preserve = p,
                          !.durable = g]
<1>1. m \in Locs
  BY DEF Locs, Cursors, Component
<1>2. Goto("stop", m) /\ Publish("STOPPING", FALSE, js, jt)
  BY DEF StopLocked
<1>3. JournalOK'
  BY <1>2, PublishType DEF JournalOK, Phase
<1> HIDE DEF m
<1> QED
  BY <1>1, <1>2, <1>3, GotoType DEF PC, AtComponent, SessionBound, ClaimBound

(* A failed stage goes on to the isolation or the unwind.                  *)
LEMMA StageFailsType ==
    ASSUME JournalOK, OpInv, loc.cur \in Component, StageFails
    PROVE  OpInv' /\ JournalOK'
<1> DEFINE p == IF loc.cur = "CLIENT" THEN "isolate" ELSE "unwind"
           l == [loc EXCEPT !.claim = NoOwner]
<1>1. l \in Locs /\ l.cur = loc.cur
  BY DEF OpInv, OperationOK, Locs, Claims
<1>2. Goto(p, l) /\ Publish(phase, clean, [jstate EXCEPT ![loc.cur] = "FAILED"], jtoken)
  BY DEF StageFails
<1>3. JournalOK'
  BY <1>2, PublishType, RecordType DEF JournalOK, Lifecycle
<1> HIDE DEF l
<1> QED
  BY <1>1, <1>2, <1>3, GotoType DEF PC, AtComponent, SessionBound, ClaimBound

-----------------------------------------------------------------------------
(* Type correctness, one lemma per group of actions *)

(* Every step of recoverLocked preserves the type invariant.               *)
LEMMA RecoverStepType == TypeInv /\ RecoverStep => TypeInv'
<1> SUFFICES ASSUME TypeInv, RecoverStep PROVE TypeInv'
  OBVIOUS
<1> USE DEF TypeInv
<1>0. loc \in Locs /\ (pc = "grace" => loc.cur \in Component /\ loc.prior.session \in Sessions)
  BY DEF OpInv, OperationOK, ClaimOK, AtComponent, SessionBound
<1>1. CASE RecoverSkip
  <2>1. OpInv'
    BY <1>1, RecoverAdvanceType DEF RecoverSkip, Recovering
  <2> QED
    BY <1>1, <2>1, SameServicesType, SameJournalType, SameMemoryType, FaultType DEF RecoverSkip
<1>2. CASE RecoverObserveFails
  <2>1. OpInv' /\ JournalOK'
    BY <1>2, FinishType, FailType DEF RecoverObserveFails, Fail
  <2> QED
    BY <1>2, <2>1, SameServicesType, SameMemoryType, FaultType DEF RecoverObserveFails
<1>3. CASE RecoverOrphan
  <2> DEFINE l == [loc EXCEPT !.seen = 1]
  <2>1. l \in Locs /\ l.cur = loc.cur /\ l.prior = loc.prior
    BY <1>0, Bounds DEF Locs
  <2>2. loc.cur \in Component /\ loc.prior.session \in Sessions /\ Goto("grace", l)
    BY <1>0, <1>3, PriorOwnerType DEF RecoverOrphan, Recovering
  <2> HIDE DEF l
  <2>3. OpInv'
    BY <2>1, <2>2, GotoType DEF PC, AtComponent, SessionBound, ClaimBound
  <2> QED
    BY <1>3, <2>3, SameServicesType, SameJournalType, SameMemoryType, FaultType
    DEF RecoverOrphan
<1>4. CASE RecoverKill
  <2>1. loc.cur \in Component
    BY <1>4 DEF RecoverKill, Recovering
  <2>2. OpInv' /\ JournalOK'
    BY <1>4, <2>1, RecoverAdvanceType, FinishType, FailType, SameJournalType
    DEF RecoverKill, Fail
  <2>3. ServicesOK' /\ WorldOK'
    BY <1>4, <2>1, ServiceKillType, SameServicesType DEF RecoverKill
  <2> QED
    BY <1>4, <2>2, <2>3, SameMemoryType, FaultType DEF RecoverKill
<1>5. CASE RecoverUnverified
  <2>1. OpInv' /\ JournalOK'
    BY <1>5, FinishType, FailType DEF RecoverUnverified, Fail
  <2> QED
    BY <1>5, <2>1, SameServicesType, SameMemoryType, FaultType DEF RecoverUnverified
<1>6. CASE RecoverGrace
  <2> DEFINE l == [loc EXCEPT !.seen = @ + 1]
             m == [loc EXCEPT !.seen = 0]
  <2>1. loc.seen + 1 \in 0..GraceTicks
    <3>1. loc.seen \in 0..GraceTicks
      BY <1>0 DEF Locs
    <3> QED BY <1>6, <3>1, ConstantsAssumption DEF RecoverGrace
  <2>2. l \in Locs /\ l.cur = loc.cur /\ l.prior = loc.prior /\ m \in Locs
    BY <1>0, <2>1, Bounds DEF Locs
  <2>3. pc = "grace" /\ (Goto("grace", l) \/ Goto("recover", m))
    BY <1>6 DEF RecoverGrace
  <2> HIDE DEF l, m
  <2>4. OpInv'
    BY <1>0, <2>2, <2>3, GotoType DEF PC, AtComponent, SessionBound, ClaimBound
  <2> QED
    BY <1>6, <2>4, SameServicesType, SameJournalType, SameMemoryType, FaultType
    DEF RecoverGrace
<1>7. CASE RecoverHeal
  <2>1. pc = "grace" /\ loc.cur \in Component /\ loc.prior.session \in Sessions
    BY <1>0, <1>7 DEF RecoverHeal
  <2>2. OpInv' /\ JournalOK'
    BY <1>7, <2>1, RecoverAdvanceType, FinishType, FailType, SameJournalType
    DEF RecoverHeal, AdoptAndKill, Fail
  <2>3. ServicesOK' /\ WorldOK'
    BY <1>7, <2>1, RecycleType, AdoptType, SameServicesType, FreshType
    DEF RecoverHeal, AdoptAndKill
  <2> QED
    BY <1>7, <2>2, <2>3, SameMemoryType, FaultType DEF RecoverHeal, AdoptAndKill
<1>8. CASE RecoverDatabase
  <2> DEFINE l == [loc EXCEPT !.cur = "none"]
  <2>1. l \in Locs
    BY <1>0 DEF Locs, Cursors
  <2>2. RecoverCommit => OpInv' /\ JournalOK'
    <3>1. RecoverCommit => JournalOK'
      BY PublishFreshType DEF RecoverCommit, Phase, Mode
    <3>2. RecoverCommit => Goto("preflight", l) \/ Finish
      BY DEF RecoverCommit
    <3> HIDE DEF l
    <3> QED
      BY <2>1, <3>1, <3>2, GotoType, FinishType DEF PC, AtComponent, SessionBound, ClaimBound
  <2>3. OpInv' /\ JournalOK'
    BY <1>8, <2>2, FinishType, FailType DEF RecoverDatabase, Fail
  <2>4. "DATABASE" \in Component /\ "STOPPED" \in Native
    BY DEF Component, Native
  <2>5. ServicesOK' /\ paused' \in BOOLEAN
    <3>1. CASE UNCHANGED <<services, paused>>
      BY <3>1 DEF ServicesOK, services, WorldOK
    <3>2. CASE Change("DATABASE", "STOPPED", NoOwner, {})
      BY <2>4, <3>2, ChangeType, ServiceType DEF WorldOK
    <3>3. CASE Change("DATABASE", "STOPPED", owner["DATABASE"], doom["DATABASE"])
      BY <2>4, <3>3, ChangeType, ServiceType DEF WorldOK
    <3> QED
      BY <1>8, <3>1, <3>2, <3>3 DEF RecoverDatabase, SameServices, world
  <2>6. unsaved' \in BOOLEAN /\ lost' \in BOOLEAN
    BY <1>8 DEF RecoverDatabase, SameServices, world, WorldOK
  <2> QED
    BY <1>8, <2>3, <2>5, <2>6, SameMemoryType, FaultType DEF RecoverDatabase, WorldOK
<1> QED
  BY <1>1, <1>2, <1>3, <1>4, <1>5, <1>6, <1>7, <1>8 DEF RecoverStep

(* Every step of stopLocked preserves the type invariant.                  *)
LEMMA StopStepType == TypeInv /\ StopStep => TypeInv'
<1> SUFFICES ASSUME TypeInv, StopStep PROVE TypeInv'
  OBVIOUS
<1> USE DEF TypeInv
<1>0. loc \in Locs /\ (pc \in {"force", "stopped"} => loc.cur \in Component)
  BY DEF OpInv, OperationOK, AtComponent
<1>a. \A x \in Cursors, q \in {"stop", "stopped"} :
        /\ [loc EXCEPT !.cur = x] \in Locs
        /\ [loc EXCEPT !.cur = x].cur = x
  BY <1>0 DEF Locs
<1>b. \A o \in Claims : /\ [loc EXCEPT !.durable = FALSE, !.claim = o] \in Locs
                        /\ [loc EXCEPT !.durable = FALSE, !.claim = o].cur = loc.cur
  BY <1>0 DEF Locs
<1>c. [loc EXCEPT !.durable = FALSE] \in Locs
  BY <1>0 DEF Locs
<1>1. CASE StopSkip
  <2> DEFINE l == [loc EXCEPT !.cur = StopNext[loc.cur]]
  <2>1. l \in Locs
    <3>1. StopNext[loc.cur] \in Cursors
      BY <1>1, StopNextType DEF StopSkip, Cursors
    <3> QED BY <1>a, <3>1
  <2>2. Goto("stop", l)
    BY <1>1 DEF StopSkip
  <2> HIDE DEF l
  <2>3. OpInv'
    BY <2>1, <2>2, GotoType DEF PC, AtComponent, SessionBound, ClaimBound
  <2> QED
    BY <1>1, <2>3, SameServicesType, SameJournalType, SameMemoryType, FaultType DEF StopSkip
<1>2. CASE SaveWorld
  <2>1. OpInv'
    BY <1>0, <1>2, <1>c, GotoType DEF SaveWorld, PC, AtComponent, SessionBound, ClaimBound
  <2>2. JournalOK'
    BY <1>2, PublishType, RecordType DEF SaveWorld, JournalOK, Lifecycle, Component
  <2>3. ServicesOK' /\ WorldOK'
    BY <1>2 DEF SaveWorld, ServicesOK, WorldOK, services
  <2> QED
    BY <1>2, <2>1, <2>2, <2>3, SameMemoryType, FaultType DEF SaveWorld
<1>3. CASE StopOwned
  <2>1. loc.cur \in Component
    BY <1>3 DEF StopOwned
  <2>2. OpInv'
    <3>1. ForceNext => OpInv'
      BY <1>b, <2>1, OwnerOfType, GotoType
      DEF ForceNext, PC, AtComponent, SessionBound, ClaimBound
    <3>2. Goto("stopped", loc) => OpInv'
      BY <1>0, <2>1, GotoType DEF PC, AtComponent, SessionBound, ClaimBound
    <3> QED BY <1>3, <3>1, <3>2 DEF StopOwned
  <2>3. JournalOK'
    BY <1>3, <2>1, PublishType, RecordType DEF StopOwned, JournalOK, Lifecycle
  <2>4. ServicesOK' /\ WorldOK'
    BY <1>3, <2>1, ServiceStopType, StopUnacknowledgedType, SameServicesType DEF StopOwned
  <2> QED
    BY <1>3, <2>2, <2>3, <2>4, SameMemoryType, FaultType DEF StopOwned
<1>4. CASE ForceOwned
  <2> DEFINE stopping == IF pc = "force" THEN jstate
                         ELSE [jstate EXCEPT ![loc.cur] = "STOPPING"]
             l == [loc EXCEPT !.durable = FALSE, !.claim = NoOwner]
  <2>1. loc.cur \in Component
    BY <1>0, <1>4 DEF ForceOwned
  <2>2. stopping \in Lifecycles /\ l \in Locs /\ l.cur = loc.cur
    BY <1>b, <2>1, RecordType DEF JournalOK, Lifecycle, Claims
  <2>3. \/ Goto("stopped", l) /\ Publish(phase, clean, stopping, jtoken)
        \/ FailStopCleanup(stopping)
    BY <1>4 DEF ForceOwned
  <2> HIDE DEF stopping, l
  <2>4. OpInv'
    BY <2>1, <2>2, <2>3, GotoType, FinishType
    DEF FailStopCleanup, PC, AtComponent, SessionBound, ClaimBound
  <2>5. JournalOK'
    BY <2>1, <2>2, <2>3, PublishType, RecordType
    DEF FailStopCleanup, JournalOK, Lifecycle, Phase
  <2>6. ServicesOK' /\ WorldOK'
    BY <1>4, <2>1, ServiceKillType, SameServicesType DEF ForceOwned
  <2> QED
    BY <1>4, <2>4, <2>5, <2>6, SameMemoryType, FaultType DEF ForceOwned
<1>5. CASE StopRecorded
  <2> DEFINE l == [loc EXCEPT !.cur = StopNext[loc.cur]]
  <2>1. loc.cur \in Component
    BY <1>0, <1>5 DEF StopRecorded
  <2>2. l \in Locs
    <3>1. StopNext[loc.cur] \in Cursors
      BY <2>1, StopNextType DEF Cursors
    <3> QED BY <1>a, <3>1
  <2>3. Goto("stop", l)
    BY <1>5 DEF StopRecorded
  <2> HIDE DEF l
  <2>4. OpInv'
    BY <2>2, <2>3, GotoType DEF PC, AtComponent, SessionBound, ClaimBound
  <2>5. JournalOK'
    BY <1>5, <2>1, PublishType, RecordType DEF StopRecorded, JournalOK, Lifecycle
  <2> QED
    BY <1>5, <2>4, <2>5, SameServicesType, SameMemoryType, FaultType DEF StopRecorded
<1>6. CASE StopCommit
  <2>1. loc.final \in Phase /\ loc.durable \in BOOLEAN
    BY <1>0 DEF Locs
  <2>2. Stopped \in Lifecycles /\ Unowned \in Tokened
    BY DEF Stopped, Unowned, Lifecycles, Tokened, Lifecycle
  <2>3. OpInv' /\ JournalOK'
    BY <1>6, <2>1, <2>2, FinishType, PublishType DEF StopCommit
  <2> QED
    BY <1>6, <2>3, SameServicesType, SameMemoryType, FaultType DEF StopCommit
<1> QED
  BY <1>1, <1>2, <1>3, <1>4, <1>5, <1>6 DEF StopStep

(* Every step of start and relaunchClient preserves the type invariant.    *)
LEMMA StartStepType == TypeInv /\ StartStep => TypeInv'
<1> SUFFICES ASSUME TypeInv, StartStep PROVE TypeInv'
  OBVIOUS
<1> USE DEF TypeInv
<1>0. /\ loc \in Locs
      /\ pc \in {"stage", "drain", "start", "reclaim", "retire", "stageReady", "project", "unwind"}
           => loc.cur \in Component
      /\ pc \in {"stage", "drain", "start", "reclaim", "retire", "stageReady", "project"}
           => loc.prior.session \in Sessions
      /\ pc \in {"start", "reclaim", "retire", "stageReady"} => loc.claim \in Owner
  BY DEF OpInv, OperationOK, ClaimOK, AtComponent, SessionBound, ClaimBound
<1>a. \A o \in Owner : o \in Claims /\ o.token \in Tokens
  BY DEF Owner, Claims
<1>1. CASE PreflightEnds
  <2>1. loc.mode \in Mode
    BY <1>0 DEF Locs
  <2>2. OpInv' /\ JournalOK'
    BY <1>1, <2>1, FinishType, SameJournalType, PublishFreshType DEF PreflightEnds, Phase
  <2> QED
    BY <1>1, <2>2, SameServicesType, SameMemoryType, FaultType DEF PreflightEnds, PreflightRefuses
<1>2. CASE AcceptSession
  <2>1. PICK s \in FreshSessions :
           PublishFresh("STOPPED", FALSE, s, loc.mode) /\ minted' = (minted \cap SessionsInUse) \cup {s}
    BY <1>2 DEF AcceptSession
  <2>2. s \in Sessions /\ loc.mode \in Mode
    BY <1>0, FreshType DEF Locs
  <2>3. JournalOK' /\ session' = s
    BY <2>1, <2>2, PublishFreshType DEF PublishFresh, Phase
  <2> DEFINE x == IF loc.mode = "LAN_JOIN" THEN "CLIENT" ELSE "DATABASE"
             l == [loc EXCEPT !.cur = x, !.prior = Prior']
  <2>4. l \in Locs /\ l.cur \in Component /\ l.prior.session \in Sessions
    <3>1. Prior' \in Priors /\ Prior'.session \in Sessions
      BY <2>2, <2>3, PriorType DEF Prior, JournalOK, Priors
    <3>2. x \in Component /\ x \in Cursors
      BY DEF Component, Cursors
    <3> HIDE DEF x
    <3> QED BY <1>0, <3>1, <3>2 DEF Locs
  <2>5. Goto("stage", l)
    BY <1>2 DEF AcceptSession
  <2> HIDE DEF l
  <2>6. OpInv'
    BY <2>4, <2>5, GotoType DEF PC, AtComponent, SessionBound, ClaimBound
  <2>7. ServicesOK' /\ WorldOK'
    BY <1>2 DEF AcceptSession, ServicesOK, WorldOK, services
  <2>8. MemoryOK'
    BY <1>2, <2>1, <2>2 DEF AcceptSession, MemoryOK
  <2> QED
    BY <1>2, <2>3, <2>6, <2>7, <2>8, FaultType DEF AcceptSession
<1>3. CASE StageRequest
  <2>1. pc = "stage" /\ loc.cur \in Component /\ loc.prior.session \in Sessions
    BY <1>0, <1>3 DEF StageRequest
  <2>2. PICK t \in FreshTokens(loc.cur) :
          /\ Publish(PhaseFor[loc.cur], clean, [jstate EXCEPT ![loc.cur] = "STARTING"],
                     [jtoken EXCEPT ![loc.cur] = t])
          /\ Goto("start", [loc EXCEPT !.retried = FALSE,
                             !.claim = [session |-> loc.prior.session, token |-> t]])
    BY <1>3 DEF StageRequest
  <2>3. t \in Tokens
    BY <2>1, FreshType
  <2>4. JournalOK'
    BY <2>1, <2>2, <2>3, PhaseForType, PublishType, RecordType DEF JournalOK, Lifecycle
  <2> DEFINE o == [session |-> loc.prior.session, token |-> t]
             l == [loc EXCEPT !.retried = FALSE, !.claim = o]
  <2>5. o \in Owner
    BY <2>1, <2>3 DEF Owner
  <2>6. l \in Locs /\ l.cur = loc.cur /\ l.prior = loc.prior /\ l.claim \in Owner
    <3> HIDE DEF o
    <3> QED BY <1>0, <1>a, <2>5 DEF Locs
  <2>7. Goto("start", l)
    BY <2>2
  <2> HIDE DEF l
  <2>8. OpInv'
    BY <2>1, <2>6, <2>7, GotoType DEF PC, AtComponent, SessionBound, ClaimBound
  <2> QED
    BY <1>3, <2>4, <2>8, SameServicesType, SameMemoryType, FaultType DEF StageRequest
<1>4. CASE BackendStart
  <2>1. /\ pc = "start" /\ loc.cur \in Component
        /\ loc.prior.session \in Sessions /\ loc.claim \in Owner
    BY <1>0, <1>4 DEF BackendStart
  <2>2. \A p \in {"stageReady", "retire", "reclaim"} : Goto(p, loc) => OpInv'
    BY <1>0, <2>1, GotoType DEF PC, AtComponent, SessionBound, ClaimBound
  <2>3. OpInv' /\ JournalOK'
    BY <1>4, <2>1, <2>2, StageFailsType, SameJournalType DEF BackendStart
  <2>4. \A n \in Native : SetService(loc.cur, n, loc.claim, doom[loc.cur]) => ServicesOK' /\ WorldOK'
    BY <1>a, <2>1, ServiceType, SetServiceType
  <2>5. "READY" \in Native /\ native[loc.cur] \in Native
    BY <2>1, ServiceType
  <2>6. ServicesOK' /\ WorldOK'
    BY <1>4, <2>1, <2>4, <2>5, SameServicesType, RecycleType
       DEF BackendStart, BootFails, BootOutcomes, BootRefused
  <2> QED
    BY <1>4, <2>3, <2>6, SameMemoryType, FaultType DEF BackendStart, BootRefused
<1>b. /\ [loc EXCEPT !.retried = TRUE] \in Locs
      /\ [loc EXCEPT !.retried = TRUE].cur = loc.cur
      /\ [loc EXCEPT !.retried = TRUE].prior = loc.prior
      /\ [loc EXCEPT !.retried = TRUE].claim = loc.claim
  BY <1>0 DEF Locs
<1>5. CASE RetireFailedNative
  <2>1. /\ pc = "retire" /\ loc.cur \in Component
        /\ loc.prior.session \in Sessions /\ loc.claim \in Owner
    BY <1>0, <1>5 DEF RetireFailedNative
  <2>2. Goto("start", [loc EXCEPT !.retried = TRUE]) => OpInv'
    BY <1>b, <2>1, GotoType DEF PC, AtComponent, SessionBound, ClaimBound
  <2>3. OpInv' /\ JournalOK'
    BY <1>5, <2>1, <2>2, StageFailsType, SameJournalType DEF RetireFailedNative
  <2>4. ServicesOK' /\ WorldOK'
    BY <1>5, <2>1, ServiceStopType, SameServicesType DEF RetireFailedNative
  <2> QED
    BY <1>5, <2>3, <2>4, SameMemoryType, FaultType DEF RetireFailedNative
<1>6. CASE ReclaimDatabase
  <2>1. /\ pc = "reclaim" /\ loc.cur \in Component /\ "DATABASE" \in Component
        /\ loc.prior.session \in Sessions /\ loc.claim \in Owner
    BY <1>0, <1>6 DEF ReclaimDatabase, Component
  <2>2. Goto("start", [loc EXCEPT !.retried = TRUE]) => OpInv'
    BY <1>b, <2>1, GotoType DEF PC, AtComponent, SessionBound, ClaimBound
  <2>3. OpInv' /\ JournalOK'
    BY <1>6, <2>1, <2>2, StageFailsType, SameJournalType DEF ReclaimDatabase
  <2>4. ServicesOK' /\ WorldOK'
    BY <1>6, <2>1, ServiceStopType, ServiceKillType, SameServicesType DEF ReclaimDatabase
  <2> QED
    BY <1>6, <2>3, <2>4, SameMemoryType, FaultType DEF ReclaimDatabase
<1>7. CASE StageReady
  <2>1. /\ loc.cur \in Component /\ loc.prior.session \in Sessions /\ loc.claim \in Owner
        /\ NoOwner \in Claims
    BY <1>0, <1>7 DEF StageReady, Claims
  <2> DEFINE last == loc.cur = "CLIENT" \/ (loc.cur = "WORLD" /\ ~loc.client)
             ph == IF last THEN (IF loc.cur = "CLIENT" THEN "RUNNING" ELSE "WORLD_READY") ELSE phase
             p == IF loc.cur = "DATABASE" THEN "project" ELSE "stage"
             x == IF loc.cur = "DATABASE" THEN loc.cur ELSE StartNext[loc.cur]
             l == [loc EXCEPT !.cur = x, !.started = @ \cup {loc.cur}, !.claim = NoOwner]
  <2>2. /\ Publish(ph, clean, [jstate EXCEPT ![loc.cur] = "READY"],
                   [jtoken EXCEPT ![loc.cur] = loc.claim.token])
        /\ IF last THEN Finish ELSE Goto(p, l)
    BY <1>7 DEF StageReady
  <2>3. JournalOK'
    <3>1. ph \in Phase
      BY DEF JournalOK, Phase
    <3> HIDE DEF ph
    <3> QED BY <1>a, <2>1, <2>2, <3>1, PublishType, RecordType DEF JournalOK, Lifecycle
  <2>4. ~last => x \in Component
    BY <2>1, StartNextType
  <2>5. x \in Component => l \in Locs /\ l.cur = x /\ l.prior = loc.prior
    <3> HIDE DEF x
    <3> QED BY <1>0, <2>1 DEF Locs, Cursors
  <2>6. p \in {"project", "stage"}
    OBVIOUS
  <2> HIDE DEF l, x, p
  <2>7. OpInv'
    BY <2>1, <2>2, <2>4, <2>5, <2>6, GotoType, FinishType
    DEF PC, AtComponent, SessionBound, ClaimBound
  <2> QED
    BY <1>7, <2>3, <2>7, SameServicesType, SameMemoryType, FaultType DEF StageReady
<1>8. CASE ProjectAdvertisement
  <2>1. loc.cur \in Component /\ loc.prior.session \in Sessions
    BY <1>0, <1>8 DEF ProjectAdvertisement
  <2> DEFINE l == [loc EXCEPT !.cur = "REALM"]
  <2>2. l \in Locs /\ l.cur \in Component /\ l.prior = loc.prior
    BY <1>0 DEF Locs, Cursors, Component
  <2>3. (Goto("stage", l) /\ UNCHANGED journal) \/ StageFails
    BY <1>8 DEF ProjectAdvertisement
  <2> HIDE DEF l
  <2>4. OpInv' /\ JournalOK'
    BY <2>1, <2>2, <2>3, GotoType, StageFailsType, SameJournalType
    DEF PC, AtComponent, SessionBound, ClaimBound
  <2> QED
    BY <1>8, <2>4, SameServicesType, SameMemoryType, FaultType DEF ProjectAdvertisement
<1>9. CASE UnwindStage
  <2>1. loc.cur \in Component
    BY <1>0, <1>9 DEF UnwindStage
  <2>2. /\ jstate \in Lifecycles /\ [jstate EXCEPT ![loc.cur] = "STOPPED"] \in Lifecycles
        /\ jtoken \in Tokened /\ [jtoken EXCEPT ![loc.cur] = NoToken] \in Tokened
        /\ TRUE \in BOOLEAN /\ "STOPPED" \in Phase
    BY <2>1, RecordType DEF JournalOK, Lifecycle, Phase
  <2>3. \/ StopLocked(loc, jstate, jtoken, TRUE, "STOPPED", TRUE)
        \/ StopLocked(loc, [jstate EXCEPT ![loc.cur] = "STOPPED"],
                      [jtoken EXCEPT ![loc.cur] = NoToken], TRUE, "STOPPED", TRUE)
    BY <1>9 DEF UnwindStage
  <2>4. OpInv' /\ JournalOK'
    BY <1>0, <2>2, <2>3, StopLockedType
  <2> QED
    BY <1>9, <2>4, SameServicesType, SameMemoryType, FaultType DEF UnwindStage
<1>10. CASE DrainClient
  <2>1. "CLIENT" \in Component /\ "STOPPED" \in Lifecycle /\ NoToken \in Tokens \cup {NoToken}
    BY DEF Component, Lifecycle
  <2>2. \/ Goto("isolated", loc) \/ (pc = "drain" /\ Goto("stage", loc)) \/ Finish
    BY <1>10 DEF DrainClient, Fail
  <2>3. OpInv'
    BY <1>0, <2>2, GotoType, FinishType DEF PC, AtComponent, SessionBound, ClaimBound
  <2>4. JournalOK'
    <3>1. \/ UNCHANGED journal \/ Fail
          \/ Publish(phase, clean, [jstate EXCEPT !["CLIENT"] = "STOPPED"],
                     [jtoken EXCEPT !["CLIENT"] = NoToken])
      BY <1>10 DEF DrainClient
    <3> QED
      BY <2>1, <3>1, SameJournalType, FailType, PublishType, RecordType DEF JournalOK
  <2>5. ServicesOK' /\ WorldOK'
    BY <1>10, <2>1, ServiceKillType, SameServicesType DEF DrainClient
  <2> QED
    BY <1>10, <2>3, <2>4, <2>5, SameMemoryType, FaultType DEF DrainClient
<1>11. CASE IsolateRecorded
  <2>1. OpInv' /\ JournalOK'
    BY <1>11, FinishType, PublishType, RecordType
    DEF IsolateRecorded, JournalOK, Lifecycle, Phase, Component
  <2> QED
    BY <1>11, <2>1, SameServicesType, SameMemoryType, FaultType DEF IsolateRecorded
<1> QED
  BY <1>1, <1>2, <1>3, <1>4, <1>5, <1>6, <1>7, <1>8, <1>9, <1>10, <1>11 DEF StartStep

(* So do the steps of setCompanionMode, of the consented force stop and of *)
(* the handling of an escaped exception.                                   *)
LEMMA ConsentStepType ==
    TypeInv /\ (CompanionStep \/ ConsentStop \/ ConsentDatabase \/ UnexpectedOperationFailure)
        => TypeInv'
<1> SUFFICES ASSUME TypeInv,
                    CompanionStep \/ ConsentStop \/ ConsentDatabase \/ UnexpectedOperationFailure
             PROVE  TypeInv'
  OBVIOUS
<1> USE DEF TypeInv
<1>0. /\ loc \in Locs
      /\ pc = "orphans" => /\ loc.cur \in Component /\ loc.cur # "DATABASE"
                           /\ loc.verb = "consent"
  BY DEF OpInv, OperationOK, ConsentOK, AtComponent
<1>1. CASE CompanionStep
  <2>1. loc.graceful \in BOOLEAN /\ loc.final \in Phase
    BY <1>0 DEF Locs
  <2>2. JournalOK'
    BY <1>1, <2>1, SameJournalType, PublishType
    DEF CompanionStep, CompanionEnds, CompanionRolledBack, JournalOK
  <2>3. ServicesOK' /\ WorldOK'
    BY <1>1, <2>1, SameServicesType
    DEF CompanionStep, CompanionEnds, CompanionRolledBack, ServicesOK, WorldOK, services
  <2>4. Goto("rollback", loc) => OpInv'
    BY <1>0, GotoType DEF PC, AtComponent, SessionBound, ClaimBound
  <2> QED
    BY <1>1, <2>2, <2>3, <2>4, FinishType, SameMemoryType, FaultType
    DEF CompanionStep, CompanionEnds, CompanionRolledBack
<1>2. CASE ConsentStop
  <2>1. loc.cur \in Component /\ loc.cur # "DATABASE" /\ loc.verb = "consent"
    BY <1>0, <1>2 DEF ConsentStop
  <2>2. ConsentAdvance => OpInv' /\ JournalOK'
    <3> DEFINE x == StopNext[loc.cur]
               l == [loc EXCEPT !.cur = x]
    <3>1. x \in Component /\ (loc.cur # "REALM" => x # "DATABASE")
      BY <2>1, StopNextType
    <3>2. l \in Locs /\ l.cur = x /\ l.verb = "consent"
      <4> HIDE DEF x
      <4> QED BY <1>0, <2>1, <3>1 DEF Locs, Cursors
    <3>3. ConsentAdvance =>
            /\ Goto(IF loc.cur = "REALM" THEN "orphanDb" ELSE "orphans", l) /\ UNCHANGED journal
      BY DEF ConsentAdvance
    <3> HIDE DEF l, x
    <3> QED
      BY <3>1, <3>2, <3>3, GotoType, SameJournalType DEF PC, AtComponent, SessionBound, ClaimBound
  <2>3. OpInv' /\ JournalOK'
    BY <1>2, <2>2, FinishType, FailType DEF ConsentStop, AdoptAndKill, Fail
  <2>4. \A s \in IF loc.prior.session = NoSession THEN FreshSessions ELSE {loc.prior.session} :
          s \in Sessions
    BY <1>0, FreshType DEF Locs, Priors
  <2>5. ServicesOK' /\ WorldOK'
    BY <1>2, <2>1, <2>4, ServiceKillType, RecycleType, AdoptType, SameServicesType, FreshType
    DEF ConsentStop, AdoptAndKill
  <2>6. MemoryOK'
    BY <1>2, <2>4 DEF ConsentStop, MemoryOK
  <2> QED
    BY <1>2, <2>3, <2>5, <2>6, FaultType DEF ConsentStop, AdoptAndKill
<1>3. CASE ConsentDatabase
  <2>1. "DATABASE" \in Component
    BY DEF Component
  <2>2. OpInv' /\ JournalOK'
    BY <1>3, FinishType, FailType, PublishFreshType
    DEF ConsentDatabase, ConsentCommit, Fail, Phase, Mode
  <2>3. ServicesOK' /\ WorldOK'
    BY <1>3, <2>1, ServiceStopType, ServiceKillType, SameServicesType DEF ConsentDatabase
  <2> QED
    BY <1>3, <2>2, <2>3, SameMemoryType, FaultType DEF ConsentDatabase
<1>4. CASE UnexpectedOperationFailure
  <2>1. JournalOK'
    BY <1>4, SameJournalType, PublishType, PublishFreshType
    DEF UnexpectedOperationFailure, JournalOK, Phase
  <2> QED
    BY <1>4, <2>1, FinishType, SameServicesType, SameMemoryType, FaultType
    DEF UnexpectedOperationFailure
<1> QED
  BY <1>1, <1>2, <1>3, <1>4

(* Every operation begins in a well-typed state.                           *)
LEMMA RequestType == TypeInv /\ Request => TypeInv'
<1> SUFFICES ASSUME TypeInv, Request PROVE TypeInv'
  OBVIOUS
<1> USE DEF TypeInv
<1>0. {"preflight", "start", "relaunch", "stop", "recover", "consent", "companion"} \subseteq Verb
  BY DEF Verb
<1>1. ASSUME NEW m \in Mode, NEW client \in BOOLEAN, Start(m, client)
      PROVE  TypeInv'
  <2> DEFINE l == [Locals("start") EXCEPT !.mode = m, !.client = client]
  <2>1. l \in Locs
    <3>1. Locals("start") \in Locs
      BY <1>0, LocalsType
    <3> QED BY <3>1 DEF Locs
  <2>2. (Goto("preflight", l) /\ UNCHANGED journal) \/ RecoverBegin(l)
    BY <1>1 DEF Start
  <2> HIDE DEF l
  <2>3. OpInv' /\ JournalOK'
    BY <2>1, <2>2, GotoType, SameJournalType, RecoverBeginType
    DEF PC, AtComponent, SessionBound, ClaimBound
  <2> QED
    BY <1>1, <2>3, SameServicesType, SameMemoryType, FaultType DEF Start
<1>2. ASSUME NEW m \in Mode, PreflightVerb(m)
      PROVE  TypeInv'
  <2> DEFINE l == [Locals("preflight") EXCEPT !.mode = m]
  <2>1. l \in Locs
    <3>1. Locals("preflight") \in Locs
      BY <1>0, LocalsType
    <3> QED BY <3>1 DEF Locs
  <2>2. Goto("preflight", l)
    BY <1>2 DEF PreflightVerb
  <2> HIDE DEF l
  <2>3. OpInv'
    BY <2>1, <2>2, GotoType DEF PC, AtComponent, SessionBound, ClaimBound
  <2> QED
    BY <1>2, <2>3, SameJournalType, SameServicesType, SameMemoryType, FaultType DEF PreflightVerb
<1>3. CASE Recover
  <2>1. OpInv' /\ JournalOK'
    BY <1>0, <1>3, LocalsType, RecoverBeginType DEF Recover
  <2> QED
    BY <1>3, <2>1, SameServicesType, SameMemoryType, FaultType DEF Recover
<1>4. CASE RelaunchClient
  <2> DEFINE l == [Locals("relaunch") EXCEPT !.cur = "CLIENT", !.mode = mode, !.client = TRUE,
                                             !.prior = Prior]
  <2>1. Prior \in Priors /\ Prior.session \in Sessions
    BY <1>4, PriorType DEF RelaunchClient, RelaunchOffered, Prior, JournalOK
  <2>2. l \in Locs /\ l.cur \in Component /\ l.prior = Prior
    <3>1. Locals("relaunch") \in Locs
      BY <1>0, LocalsType
    <3> QED BY <2>1, <3>1 DEF Locs, Cursors, Component, JournalOK
  <2>3. Goto("drain", l)
    BY <1>4 DEF RelaunchClient
  <2> HIDE DEF l
  <2>4. OpInv'
    BY <2>1, <2>2, <2>3, GotoType DEF PC, AtComponent, SessionBound, ClaimBound
  <2>5. ServicesOK' /\ WorldOK'
    BY <1>4 DEF RelaunchClient, ServicesOK, WorldOK, services
  <2> QED
    BY <1>4, <2>4, <2>5, SameJournalType, SameMemoryType, FaultType DEF RelaunchClient
<1>5. CASE ConsentBegin
  <2> DEFINE l == [Locals("consent") EXCEPT !.cur = "CLIENT", !.prior = Prior]
  <2>1. l \in Locs /\ l.cur = "CLIENT" /\ l.verb = "consent"
    <3>1. Locals("consent") \in Locs /\ Locals("consent").verb = "consent"
      BY <1>0, LocalsType
    <3> QED BY <3>1, PriorType DEF Locs, Cursors, Component
  <2>2. Goto("orphans", l) /\ Publish("STOPPING", FALSE, jstate, jtoken)
    BY <1>5 DEF ConsentBegin
  <2> HIDE DEF l
  <2>3. OpInv'
    BY <2>1, <2>2, GotoType DEF PC, AtComponent, SessionBound, ClaimBound, Component
  <2>4. JournalOK'
    BY <2>2, PublishType DEF JournalOK, Phase
  <2> QED
    BY <1>5, <2>3, <2>4, SameServicesType, SameMemoryType, FaultType DEF ConsentBegin
<1>6. CASE TransferBegin
  <2>1. OpInv'
    BY <1>6 DEF TransferBegin, OpInv, OperationOK, ClaimOK, ConsentOK
  <2>2. MemoryOK'
    BY <1>6 DEF TransferBegin, MemoryOK, memory
  <2> QED
    BY <1>6, <2>1, <2>2, SameJournalType, SameServicesType, FaultType DEF TransferBegin
<1>7. ASSUME NEW b \in BOOLEAN, Stop(b)
      PROVE  TypeInv'
  <2>1. OpInv' /\ JournalOK'
    BY <1>0, <1>7, LocalsType, StopLockedType DEF Stop, JournalOK, Phase
  <2> QED
    BY <1>7, <2>1, SameServicesType, SameMemoryType, FaultType DEF Stop
<1>8. ASSUME NEW b \in BOOLEAN, Companion(b)
      PROVE  TypeInv'
  <2> DEFINE l == [Locals("companion") EXCEPT !.graceful = b, !.final = phase,
                                              !.claim = OwnerOf("WORLD")]
             ph == IF b THEN "PAUSED" ELSE IF phase = "CLIENT_FAILED" THEN phase ELSE "RUNNING"
  <2>1. l \in Locs
    <3>1. Locals("companion") \in Locs
      BY <1>0, LocalsType
    <3>2. OwnerOf("WORLD") \in Claims
      BY OwnerOfType DEF Component
    <3> QED BY <3>1, <3>2 DEF Locs, JournalOK
  <2>2. Goto("companion", l) /\ Publish(ph, FALSE, jstate, jtoken)
    BY <1>8 DEF Companion
  <2>3. ph \in Phase
    BY DEF JournalOK, Phase
  <2> HIDE DEF l, ph
  <2>4. OpInv' /\ JournalOK'
    BY <2>1, <2>2, <2>3, GotoType, PublishType
    DEF JournalOK, PC, AtComponent, SessionBound, ClaimBound
  <2> QED
    BY <1>8, <2>4, SameServicesType, SameMemoryType, FaultType DEF Companion
<1> QED
  BY <1>1, <1>2, <1>3, <1>4, <1>5, <1>6, <1>7, <1>8 DEF Request

(* An orphan that is not yet ripe may be sighted once more without its     *)
(* grace ticks reaching the bound.                                         *)
LEMMA TicksType ==
    ASSUME MemoryOK, NEW S \in SUBSET Component, \A d \in S : ~Ripe(d) /\ Orphan(d)
    PROVE  [d \in Component |-> IF d \in S THEN ticks[d] + 1 ELSE ticks[d]]
               \in [Component -> 0..(GraceTicks - 1)]
<1> SUFFICES ASSUME NEW d \in Component
             PROVE  (IF d \in S THEN ticks[d] + 1 ELSE ticks[d]) \in 0..(GraceTicks - 1)
  OBVIOUS
<1>1. ticks[d] \in 0..(GraceTicks - 1)
  BY DEF MemoryOK
<1>2. d \in S => ~(ticks[d] + 1 >= GraceTicks)
  BY DEF Ripe
<1> QED BY <1>1, <1>2, ConstantsAssumption

(* A pass of the monitor preserves the type invariant.                     *)
LEMMA MonitorType == TypeInv /\ Monitor => TypeInv'
<1> SUFFICES ASSUME TypeInv, Monitor PROVE TypeInv'
  OBVIOUS
<1> USE DEF TypeInv
<1>0. Locals("monitor") \in Locs
  BY LocalsType DEF Verb
<1>1. CASE MonitorTick
  <2> DEFINE S == {d \in Component : d \in Monitored /\ Orphan(d)}
  <2>1. [d \in Component |-> IF d \in S THEN ticks[d] + 1 ELSE ticks[d]]
             \in [Component -> 0..(GraceTicks - 1)]
    BY <1>1, TicksType DEF MonitorTick
  <2>2. ticks' = [d \in Component |-> IF d \in S THEN ticks[d] + 1 ELSE ticks[d]]
    BY <1>1 DEF MonitorTick
  <2>3. MemoryOK'
    BY <1>1, <2>1, <2>2 DEF MonitorTick, MemoryOK
  <2>4. OpInv'
    BY <1>1 DEF MonitorTick, OpInv, OperationOK, ClaimOK, ConsentOK
  <2> QED
    BY <1>1, <2>3, <2>4, SameJournalType, SameServicesType, FaultType DEF MonitorTick
<1>2. ASSUME NEW c \in Component, Reaches(c)
      PROVE  TicksBefore(c) \in [Component -> 0..(GraceTicks - 1)]
  <2> DEFINE S == {d \in Component : d \in Monitored /\ Orphan(d) /\ Rank[d] < Rank[c]}
  <2>1. [d \in Component |-> IF d \in S THEN ticks[d] + 1 ELSE ticks[d]]
             \in [Component -> 0..(GraceTicks - 1)]
    BY <1>2, TicksType DEF Reaches
  <2>2. TicksBefore(c) = [d \in Component |-> IF d \in S THEN ticks[d] + 1 ELSE ticks[d]]
    BY DEF TicksBefore
  <2> QED BY <2>1, <2>2
<1>3. ASSUME NEW c \in Component, MonitorFailed(c)
      PROVE  TypeInv'
  <2>1. MemoryOK'
    BY <1>2, <1>3 DEF MonitorFailed, MemoryOK
  <2> DEFINE l == [Locals("monitor") EXCEPT !.cur = c]
  <2>2. l \in Locs
    BY <1>0 DEF Locs, Cursors
  <2>3. \/ Goto("isolate", l) /\ UNCHANGED journal
        \/ StopLocked(Locals("monitor"), [jstate EXCEPT ![c] = "FAILED"], jtoken,
                      FALSE, "ERROR", TRUE)
    BY <1>3 DEF MonitorFailed
  <2> HIDE DEF l
  <2>4. OpInv' /\ JournalOK'
    <3>1. /\ [jstate EXCEPT ![c] = "FAILED"] \in Lifecycles /\ jtoken \in Tokened
          /\ "ERROR" \in Phase
      BY RecordType DEF JournalOK, Lifecycle, Phase
    <3> QED
      BY <1>0, <2>2, <2>3, <3>1, GotoType, SameJournalType, StopLockedType
      DEF PC, AtComponent, SessionBound, ClaimBound
  <2> QED
    BY <1>3, <2>1, <2>4, SameServicesType, FaultType DEF MonitorFailed
<1>4. ASSUME NEW c \in Component, MonitorHeal(c)
      PROVE  TypeInv'
  <2>1. ticks' \in [Component -> 0..(GraceTicks - 1)]
    BY <1>2, <1>4, Bounds DEF MonitorHeal
  <2>2. MemoryOK'
    BY <1>4, <2>1 DEF MonitorHeal, MemoryOK
  <2>3. session \in Sessions
    BY <1>4 DEF MonitorHeal, JournalOK
  <2>4. /\ [jstate EXCEPT ![c] = "STOPPED"] \in Lifecycles
        /\ [jtoken EXCEPT ![c] = NoToken] \in Tokened /\ "ERROR" \in Phase
    BY RecordType DEF Lifecycle, Phase
  <2>5. OpInv' /\ JournalOK'
    BY <1>0, <1>4, <2>4, RecoverBeginType, StopLockedType, FinishType, FailType
    DEF MonitorHeal, AdoptAndKill, Fail
  <2>6. ServicesOK' /\ WorldOK'
    BY <1>4, <2>3, RecycleType, AdoptType, SameServicesType, FreshType
    DEF MonitorHeal, AdoptAndKill
  <2> QED
    BY <1>4, <2>2, <2>5, <2>6, FaultType DEF MonitorHeal, AdoptAndKill
<1> QED
  BY <1>1, <1>3, <1>4 DEF Monitor

(* Transfers, failed journal writes, the threads of the services, crashes  *)
(* and deaths preserve the type invariant.                                 *)
LEMMA EnvironmentType ==
    TypeInv /\ (TransferRead \/ TransferWrite \/ JournalWriteFails \/ ServiceStep
                \/ SupervisorCrash \/ \E c \in Component : NativeDies(c)) => TypeInv'
<1> SUFFICES ASSUME TypeInv,
                    TransferRead \/ TransferWrite \/ JournalWriteFails \/ ServiceStep
                    \/ SupervisorCrash \/ \E c \in Component : NativeDies(c)
             PROVE  TypeInv'
  OBVIOUS
<1> USE DEF TypeInv
<1>0. UNCHANGED <<pc, loc>> => OpInv'
  BY DEF OpInv, OperationOK, ClaimOK, ConsentOK
<1>a. Idle => OpInv' /\ JournalOK' /\ MemoryOK'
  BY <1>0, SameJournalType, SameMemoryType DEF Idle
<1>1. CASE TransferRead
  <2>1. MemoryOK'
    BY <1>1 DEF TransferRead, MemoryOK, memory, Snapshot, JournalOK
  <2> QED
    BY <1>0, <1>1, <2>1, SameJournalType, SameServicesType, FaultType DEF TransferRead
<1>2. CASE TransferWrite
  <2>1. transfer \in Snapshot
    BY <1>2 DEF TransferWrite, Captured, MemoryOK
  <2>2. JournalOK'
    BY <1>2, <2>1 DEF TransferWrite, Snapshot, JournalOK
  <2>3. MemoryOK'
    BY <1>2 DEF TransferWrite, MemoryOK, memory
  <2> QED
    BY <1>0, <1>2, <2>2, <2>3, SameServicesType, FaultType DEF TransferWrite
<1>3. CASE JournalWriteFails
  <2>1. OpInv'
    BY <1>3, NoLocType, GotoType DEF JournalWriteFails, PC, AtComponent, SessionBound, ClaimBound
  <2> QED
    BY <1>3, <2>1, SameJournalType, SameServicesType, SameMemoryType, FaultType
    DEF JournalWriteFails
<1>4. CASE RetireWorld
  BY <1>4, <1>a, RecycleType, FaultType DEF RetireWorld, Component
<1>5. ASSUME NEW c \in Component, OwnerDied(c)
      PROVE  TypeInv'
  <2>1. (doom[c] \ {"lease"}) \cup {"loss"} \in SUBSET Doom
    BY DEF ServicesOK, Doom
  <2>2. ServicesOK' /\ paused' \in BOOLEAN
    BY <1>5, <2>1, ServiceType, ChangeType DEF OwnerDied, WorldOK
  <2> QED
    BY <1>5, <1>a, <2>2, FaultType DEF OwnerDied, WorldOK
<1>6. ASSUME NEW c \in Component, LossTeardown(c)
      PROVE  TypeInv'
  <2>1. doom[c] \ {"loss"} \in SUBSET Doom
    BY DEF ServicesOK
  <2>2. \A n \in Native :
          SetService(c, n, owner[c], doom[c] \ {"loss"}) => ServicesOK' /\ WorldOK'
    BY <2>1, ServiceType, SetServiceType
  <2>3. /\ native[c] \in Native
        /\ (IF c = "DATABASE" /\ ~Live(native[c]) THEN native[c] ELSE "STOPPED") \in Native
    BY ServiceType
  <2>4. ServicesOK' /\ WorldOK'
    BY <1>6, <2>2, <2>3, RecycleType DEF LossTeardown
  <2> QED
    BY <1>6, <1>a, <2>4, FaultType DEF LossTeardown
<1>7. ASSUME NEW c \in Component, BootSettles(c)
      PROVE  TypeInv'
  <2>1. ServicesOK' /\ WorldOK'
    BY <1>7, ServiceType, SetServiceType DEF BootSettles
  <2> QED
    BY <1>7, <1>a, <2>1, FaultType DEF BootSettles
<1>8. CASE SupervisorCrash
  <2>1. OpInv'
    BY <1>8, FinishType DEF SupervisorCrash, Finish
  <2>2. MemoryOK'
    BY <1>8, Bounds DEF SupervisorCrash, MemoryOK
  <2>3. doom' \in [Component -> SUBSET Doom]
    <3> SUFFICES ASSUME NEW c \in Component
                 PROVE  (IF owner[c] = NoOwner THEN doom[c] ELSE doom[c] \cup {"lease"}) \in SUBSET Doom
      BY <1>8 DEF SupervisorCrash
    <3> QED BY DEF ServicesOK, Doom
  <2>4. ServicesOK' /\ WorldOK'
    BY <1>8, <2>3 DEF SupervisorCrash, ServicesOK, WorldOK, world
  <2> QED
    BY <1>8, <2>1, <2>2, <2>4, SameJournalType, FaultType DEF SupervisorCrash
<1>9. ASSUME NEW c \in Component, NativeDies(c)
      PROVE  TypeInv'
  <2>1. ServicesOK' /\ WorldOK'
    BY <1>9, ServiceType, SetServiceType, RecycleType DEF NativeDies
  <2> QED
    BY <1>9, <1>a, <2>1, FaultType DEF NativeDies
<1> QED
  BY <1>1, <1>2, <1>3, <1>4, <1>5, <1>6, <1>7, <1>8, <1>9 DEF ServiceStep

(* The initial state is well typed.                                        *)
LEMMA InitType == Init => TypeInv
<1> SUFFICES ASSUME Init PROVE TypeInv
  OBVIOUS
<1>1. JournalOK
  BY DEF Init, JournalOK, Phase, Mode, Stopped, Unowned, Lifecycles, Tokened, Lifecycle
<1>2. ServicesOK /\ WorldOK
  BY DEF Init, ServicesOK, WorldOK, Native, Claims
<1>3. OpInv
  BY NoLocType DEF Init, OpInv, OperationOK, ClaimOK, ConsentOK, PC, AtComponent, SessionBound,
                   ClaimBound
<1>4. MemoryOK /\ faults \in 0..MaxFaults
  BY Bounds DEF Init, MemoryOK
<1> QED BY <1>1, <1>2, <1>3, <1>4 DEF TypeInv

(* A stuttering step preserves the type invariant.                         *)
LEMMA StutterType == TypeInv /\ UNCHANGED vars => TypeInv'
BY DEF TypeInv, JournalOK, ServicesOK, OpInv, OperationOK, ClaimOK, ConsentOK, MemoryOK, WorldOK,
       vars, journal, services, memory, world

(* The type invariant is inductive.                                        *)
LEMMA NextType == TypeInv /\ [Next]_vars => TypeInv'
BY RecoverStepType, StopStepType, StartStepType, ConsentStepType, RequestType, MonitorType,
   EnvironmentType, StutterType
DEF Next, OperationStep

(* The type invariant holds in every reachable state.                      *)
LEMMA TypeInvariant == Spec => []TypeInv
BY InitType, NextType, PTL DEF Spec

(* Every variable keeps its type, for every number of sessions, tokens and *)
(* faults and every grace bound: the claim of a service is absent or a     *)
(* whole (session, token) pair, an operation that works on a component has *)
(* one, and OrphanSelfHealPolicy ticks stay under the bound.               *)
THEOREM TypeCorrectness == Spec => []TypeOK
<1>1. TypeInv => TypeOK
  BY DEF TypeInv, TypeOK, OpInv
<1> QED BY <1>1, TypeInvariant, PTL

=============================================================================
