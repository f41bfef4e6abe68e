--------------------------- MODULE SupervisorJournal ---------------------------
(***************************************************************************)
(* What the journal says while an operation works on it: a phase that      *)
(* tells the user the realm is up names an open session and an owner for   *)
(* every server of it, also while a stage, a relaunch or the companion     *)
(* toggle is half way.                                                     *)
(***************************************************************************)
EXTENDS SupervisorSafety

-----------------------------------------------------------------------------
(* The invariant *)

Staging == {"start", "reclaim", "retire", "stageReady", "project", "unwind"}
StartPlaces == Staging \cup {"stage", "drain"}
StopPlaces == {"stop", "force", "stopped"}
RecoverPlaces == {"recover", "grace"}
ConsentPlaces == {"orphans", "orphanDb"}

(* The journal records a component ready, under an owner. *)
Backed(c) == jstate[c] = "READY" /\ jtoken[c] # NoToken
ServersBacked == mode # "LAN_JOIN" => \A c \in Servers : Backed(c)

(* LivePhaseIsBacked and RelaunchFindsNoClaim at every point of an operation, *)
(* with the session they need.                                               *)
PhaseBacked ==
    phase \in MonitoredPhases =>
        /\ session # NoSession /\ ServersBacked
        /\ phase \in {"RUNNING", "PAUSED"} => Backed("CLIENT")
        /\ phase \in {"WORLD_READY", "CLIENT_FAILED"} => jtoken["CLIENT"] = NoToken

(* The components a start has brought up before it comes to one, and those  *)
(* it has yet to come to.                                                   *)
Earlier == [DATABASE |-> {}, REALM |-> {"DATABASE"}, WORLD |-> {"DATABASE", "REALM"},
            CLIENT |-> Servers]
Later == [DATABASE |-> {"REALM", "WORLD", "CLIENT"}, REALM |-> {"WORLD", "CLIENT"},
          WORLD |-> {"CLIENT"}, CLIENT |-> {}]

(* A start or a relaunch between two stages. *)
PlanShape ==
    pc \in StartPlaces =>
        /\ session # NoSession /\ loc.prior.session = session
        /\ mode # "LAN_JOIN" => \A d \in Earlier[loc.cur] : Backed(d)
        /\ mode = "LAN_JOIN" => loc.cur = "CLIENT"
        /\ \A d \in Later[loc.cur] : jtoken[d] = NoToken

(* The component the start works on: no owner before its stage, the claim   *)
(* of this stage once it began.                                             *)
StageShape ==
    /\ pc \in {"stage", "drain"} => jtoken[loc.cur] = NoToken
    /\ pc = "drain" => loc.cur = "CLIENT"
    /\ pc \in Staging =>
         /\ phase = PhaseFor[loc.cur]
         /\ jtoken[loc.cur] # NoToken /\ jstate[loc.cur] # "STOPPED"
    /\ pc \in ClaimBound => loc.claim = [session |-> session, token |-> jtoken[loc.cur]]
    /\ pc = "project" =>
         loc.cur = "DATABASE" /\ Backed("DATABASE") /\ "DATABASE" \in loc.started
    /\ pc = "unwind" => loc.cur # "CLIENT"

(* The isolation of a client failure, and the companion toggle. *)
ClientShape ==
    /\ pc \in {"isolate", "isolated"} => session # NoSession /\ ServersBacked
    /\ pc \in {"companion", "rollback"} =>
         /\ phase \in {"RUNNING", "PAUSED", "CLIENT_FAILED"}
         /\ loc.final \in {"RUNNING", "PAUSED", "CLIENT_FAILED"}
         /\ loc.final = "CLIENT_FAILED" <=> phase = "CLIENT_FAILED"
         /\ loc.claim = OwnerOf("WORLD") /\ loc.claim # NoOwner

(* A stop works on an open session, unless the user stopped a journal that   *)
(* names none; recovery and the consented stop on the snapshot they read.    *)
StopShape ==
    /\ pc \in StopPlaces =>
         /\ phase = "STOPPING"
         /\ session = NoSession => loc.verb = "stop" /\ "stop" \in Verbs /\ ~loc.live
    /\ pc \in RecoverPlaces \cup ConsentPlaces => loc.prior = Prior
    /\ pc \in ConsentPlaces => "consent" \in Verbs
    /\ pc = "orphanDb" => loc.cur = "DATABASE"
    /\ pc = "preflight" => clean

ShapeInv == PhaseBacked /\ PlanShape /\ StageShape /\ ClientShape /\ StopShape

-----------------------------------------------------------------------------
(* Where steps land *)

(* A first launch shows no live phase.                                     *)
LEMMA ShapeInit == Init => ShapeInv
BY DEF Init, ShapeInv, PhaseBacked, PlanShape, StageShape, ClientShape, StopShape,
       MonitoredPhases, StartPlaces, Staging, StopPlaces, RecoverPlaces, ConsentPlaces, ClaimBound

(* With no operation in flight only the phase has to be backed.            *)
LEMMA AtRestShape ==
    ASSUME PhaseBacked', pc' \in {"idle", "escaped"}
    PROVE  ShapeInv'
BY DEF ShapeInv, PlanShape, StageShape, ClientShape, StopShape,
       StartPlaces, Staging, StopPlaces, RecoverPlaces, ConsentPlaces, ClaimBound

(* A phase that shows nothing needs no backing.                            *)
LEMMA DarkPhase ==
    ASSUME NEW ph, ph \notin MonitoredPhases, phase' = ph
    PROVE  PhaseBacked'
BY DEF PhaseBacked

(* A journal that is left alone keeps its phase backed.                    *)
LEMMA SamePhase ==
    ASSUME PhaseBacked, UNCHANGED journal
    PROVE  PhaseBacked' /\ (ServersBacked => ServersBacked')
BY DEF PhaseBacked, ServersBacked, Backed, journal

(* fail() ends in ERROR.                                                   *)
LEMMA FailShape == Fail => ShapeInv'
<1> SUFFICES ASSUME Fail PROVE ShapeInv'
  OBVIOUS
<1>1. phase' = "ERROR" /\ pc' = "idle"
  BY DEF Fail, Publish, Finish
<1> QED BY <1>1, DarkPhase, AtRestShape DEF MonitoredPhases

(* stopLocked publishes STOPPING.                                          *)
LEMMA StopLockedShape ==
    ASSUME NEW l \in Locs, NEW js, NEW jt, NEW g, NEW f, NEW p,
           StopLocked(l, js, jt, g, f, p),
           session = NoSession => l.verb = "stop" /\ "stop" \in Verbs /\ ~l.live
    PROVE  ShapeInv'
<1>1. /\ phase' = "STOPPING" /\ pc' = "stop" /\ session' = session
      /\ loc'.verb = l.verb /\ loc'.live = l.live
  BY DEF StopLocked, Publish, Goto, Locs
<1>2. PhaseBacked'
  BY <1>1, DarkPhase DEF MonitoredPhases
<1> QED
  BY <1>1, <1>2 DEF ShapeInv, PlanShape, StageShape, ClientShape, StopShape, StartPlaces,
                    Staging, StopPlaces, RecoverPlaces, ConsentPlaces, ClaimBound

(* recoverLocked publishes RECOVERING and keeps what it read.              *)
LEMMA RecoverBeginShape ==
    ASSUME NEW l \in Locs, RecoverBegin(l)
    PROVE  ShapeInv'
<1>1. /\ phase' = "RECOVERING" /\ pc' = "recover" /\ loc'.prior = Prior /\ Prior' = Prior
  BY DEF RecoverBegin, Publish, Goto, Locs, Prior
<1>2. PhaseBacked'
  BY <1>1, DarkPhase DEF MonitoredPhases
<1> QED
  BY <1>1, <1>2 DEF ShapeInv, PlanShape, StageShape, ClientShape, StopShape, StartPlaces,
                    Staging, StopPlaces, RecoverPlaces, ConsentPlaces, ClaimBound

(* A step of recovery or of the consented stop that leaves the journal and *)
(* the snapshot it read alone.                                             *)
LEMMA PriorShape ==
    ASSUME ShapeInv, pc \in RecoverPlaces \cup ConsentPlaces, UNCHANGED journal,
           pc' \in RecoverPlaces \cup ConsentPlaces, loc'.prior = loc.prior,
           pc' \in ConsentPlaces => pc \in ConsentPlaces,
           pc' = "orphanDb" => loc'.cur = "DATABASE"
    PROVE  ShapeInv'
<1>1. Prior' = Prior /\ loc.prior = Prior
  BY DEF ShapeInv, StopShape, Prior, journal
<1>2. PhaseBacked'
  BY SamePhase DEF ShapeInv
<1> QED
  BY <1>1, <1>2 DEF ShapeInv, PlanShape, StageShape, ClientShape, StopShape, StartPlaces,
                    Staging, StopPlaces, RecoverPlaces, ConsentPlaces, ClaimBound

(* A step of a stop that only changes component records.                   *)
LEMMA StoppingShape ==
    ASSUME ShapeInv, pc \in StopPlaces, pc' \in StopPlaces, phase' = phase,
           session' = session, loc'.verb = loc.verb, loc'.live = loc.live
    PROVE  ShapeInv'
<1>1. phase' = "STOPPING"
  BY DEF ShapeInv, StopShape
<1>2. PhaseBacked'
  BY <1>1, DarkPhase DEF MonitoredPhases
<1> QED
  BY <1>1, <1>2 DEF ShapeInv, PlanShape, StageShape, ClientShape, StopShape, StartPlaces,
                    Staging, StopPlaces, RecoverPlaces, ConsentPlaces, ClaimBound

(* A stage in progress shows a starting phase.                             *)
LEMMA StagePhase ==
    \A c \in Component : PhaseFor[c] \notin MonitoredPhases
BY DEF Component, PhaseFor, MonitoredPhases

(* A step inside a stage that leaves the journal, the component and the    *)
(* claim alone.                                                            *)
LEMMA SameStageShape ==
    ASSUME ShapeInv, pc \in ClaimBound, pc' \in ClaimBound, UNCHANGED journal,
           loc'.cur = loc.cur, loc'.claim = loc.claim, loc'.prior = loc.prior
    PROVE  ShapeInv'
<1>1. PhaseBacked'
  BY SamePhase DEF ShapeInv
<1>2. PlanShape'
  BY DEF ShapeInv, PlanShape, StartPlaces, Staging, ClaimBound, Backed, journal
<1>3. StageShape'
  BY DEF ShapeInv, StageShape, Staging, ClaimBound, Backed, journal
<1> QED
  BY <1>1, <1>2, <1>3 DEF ShapeInv, ClientShape, StopShape, StopPlaces, RecoverPlaces,
                          ConsentPlaces, ClaimBound

(* failStage records the failure and keeps the phase and the owner.        *)
LEMMA StageFailsShape ==
    ASSUME TypeInv, ShapeInv, pc \in Staging, StageFails
    PROVE  ShapeInv'
<1>0. loc \in Locs /\ loc.cur \in Component /\ jstate \in Lifecycles /\ jtoken \in Tokened
  BY DEF TypeInv, OpInv, OperationOK, JournalOK, Staging, AtComponent
<1>1. /\ phase' = phase /\ session' = session /\ mode' = mode /\ jtoken' = jtoken
      /\ jstate' = [jstate EXCEPT ![loc.cur] = "FAILED"]
      /\ pc' = IF loc.cur = "CLIENT" THEN "isolate" ELSE "unwind"
      /\ loc'.cur = loc.cur /\ loc'.prior = loc.prior
  BY <1>0 DEF StageFails, Publish, Goto, Locs
<1>2. PhaseBacked'
  BY <1>0, <1>1, StagePhase, DarkPhase DEF ShapeInv, StageShape
<1>3. \A d \in Component : d # loc.cur => jstate'[d] = jstate[d]
  BY <1>0, <1>1 DEF Lifecycles
<1>4. jstate'[loc.cur] = "FAILED"
  BY <1>0, <1>1 DEF Lifecycles
<1>5. /\ session # NoSession /\ loc.prior.session = session
      /\ mode # "LAN_JOIN" => \A d \in Earlier[loc.cur] : Backed(d)
      /\ mode = "LAN_JOIN" => loc.cur = "CLIENT"
      /\ \A d \in Later[loc.cur] : jtoken[d] = NoToken
      /\ phase = PhaseFor[loc.cur]
      /\ jtoken[loc.cur] # NoToken
  BY DEF ShapeInv, PlanShape, StageShape, StartPlaces, Staging
<1>6. mode # "LAN_JOIN" => \A d \in Earlier[loc.cur] : Backed(d)'
  BY <1>0, <1>1, <1>3, <1>5 DEF Backed, Earlier, Component, Servers
<1>7. CASE loc.cur = "CLIENT"
  <2>1. ServersBacked'
    BY <1>1, <1>6, <1>7 DEF ServersBacked, Earlier
  <2> QED
    BY <1>1, <1>2, <1>5, <1>7, <2>1
    DEF ShapeInv, PlanShape, StageShape, ClientShape, StopShape, StartPlaces, Staging,
        StopPlaces, RecoverPlaces, ConsentPlaces, ClaimBound
<1>8. CASE loc.cur # "CLIENT"
  <2>1. PlanShape'
    BY <1>1, <1>5, <1>6 DEF PlanShape
  <2>2. StageShape'
    BY <1>1, <1>4, <1>5, <1>8 DEF StageShape, Staging, ClaimBound
  <2> QED
    BY <1>1, <1>2, <1>8, <2>1, <2>2 DEF ShapeInv, ClientShape, StopShape, StopPlaces,
        RecoverPlaces, ConsentPlaces
<1> QED BY <1>7, <1>8

-----------------------------------------------------------------------------
(* Every step keeps the shape, one lemma per group of actions *)

(* Recovery works on the snapshot it read and ends in STOPPED or ERROR.    *)
LEMMA RecoverStepShape ==
    ASSUME TypeInv, ShapeInv, RecoverStep
    PROVE  ShapeInv'
<1>0. loc \in Locs
  BY DEF TypeInv, OpInv, OperationOK
<1>1. ASSUME RecoverAdvance, UNCHANGED journal, pc \in RecoverPlaces
      PROVE  ShapeInv'
  <2>1. pc' = "recover" /\ loc'.prior = loc.prior
    BY <1>0, <1>1 DEF RecoverAdvance, Goto, Locs
  <2> QED BY <1>1, <2>1, PriorShape DEF RecoverPlaces, ConsentPlaces
<1>2. CASE RecoverSkip \/ RecoverObserveFails \/ RecoverKill \/ RecoverUnverified \/ RecoverHeal
  BY <1>1, <1>2, FailShape DEF RecoverSkip, RecoverObserveFails, RecoverKill,
     RecoverUnverified, RecoverHeal, AdoptAndKill, Recovering, RecoverPlaces
<1>3. CASE RecoverOrphan \/ RecoverGrace
  <2>1. /\ pc \in RecoverPlaces /\ pc' \in RecoverPlaces /\ loc'.prior = loc.prior
        /\ UNCHANGED journal
    BY <1>0, <1>3 DEF RecoverOrphan, RecoverGrace, Recovering, Goto, RecoverPlaces, Locs
  <2> QED BY <2>1, PriorShape DEF RecoverPlaces, ConsentPlaces
<1>4. CASE RecoverDatabase
  <2>1. ASSUME RecoverCommit
        PROVE  ShapeInv'
    <3>1. phase' = "STOPPED" /\ clean' /\ pc' \in {"idle", "preflight"}
      BY <2>1 DEF RecoverCommit, PublishFresh, Goto, Finish
    <3>2. PhaseBacked'
      BY <3>1, DarkPhase DEF MonitoredPhases
    <3> QED
      BY <3>1, <3>2 DEF ShapeInv, PlanShape, StageShape, ClientShape, StopShape, StartPlaces,
                        Staging, StopPlaces, RecoverPlaces, ConsentPlaces, ClaimBound
  <2> QED BY <1>4, <2>1, FailShape DEF RecoverDatabase
<1> QED BY <1>2, <1>3, <1>4 DEF RecoverStep

(* A stop stays in STOPPING until it commits STOPPED or ERROR.             *)
LEMMA StopStepShape ==
    ASSUME TypeInv, CleanInv, ShapeInv, StopStep
    PROVE  ShapeInv'
<1>0. loc \in Locs
  BY DEF TypeInv, OpInv, OperationOK
<1>1. CASE StopSkip \/ SaveWorld \/ StopOwned \/ StopRecorded
  <2>1. phase' = phase /\ session' = session /\ pc \in StopPlaces
    BY <1>1 DEF StopSkip, SaveWorld, StopOwned, StopRecorded, Publish, journal, StopPlaces
  <2>2. pc' \in StopPlaces /\ loc'.verb = loc.verb /\ loc'.live = loc.live
    BY <1>0, <1>1 DEF StopSkip, SaveWorld, StopOwned, StopRecorded, ForceNext, Goto,
                      StopPlaces, Locs
  <2> QED BY <2>1, <2>2, StoppingShape
<1>2. CASE ForceOwned
  <2>1. CASE pc' = "stopped" /\ phase' = phase /\ session' = session
             /\ loc'.verb = loc.verb /\ loc'.live = loc.live
    <3>1. pc \in StopPlaces
      BY <1>2 DEF ForceOwned, StopPlaces
    <3> QED BY <2>1, <3>1, StoppingShape DEF StopPlaces
  <2>2. CASE pc' = "idle" /\ phase' = "ERROR"
    BY <2>2, DarkPhase, AtRestShape DEF MonitoredPhases
  <2> QED BY <1>0, <1>2, <2>1, <2>2 DEF ForceOwned, FailStopCleanup, Publish, Finish, Goto, Locs
<1>3. CASE StopCommit
  <2>1. loc.final \in {"STOPPED", "ERROR"} /\ phase' = loc.final /\ pc' = "idle"
    BY <1>3 DEF StopCommit, CleanInv, Publish, Finish
  <2> QED BY <2>1, DarkPhase, AtRestShape DEF MonitoredPhases
<1> QED BY <1>1, <1>2, <1>3 DEF StopStep

(* A new session begins with an empty journal; relaunchClient works on the *)
(* session it found.                                                       *)
LEMMA StageBegins ==
    ASSUME TypeInv, ShapeInv, AcceptSession
    PROVE  ShapeInv'
<1>0. loc \in Locs
  BY DEF TypeInv, OpInv, OperationOK
<1>1. PICK s \in FreshSessions : PublishFresh("STOPPED", FALSE, s, loc.mode)
  BY DEF AcceptSession
<1>2. s # NoSession
  BY FreshType, ConstantsAssumption
<1>3. /\ phase' = "STOPPED" /\ session' = s /\ mode' = loc.mode /\ jtoken' = Unowned
      /\ pc' = "stage" /\ loc'.prior.session = s
      /\ loc'.cur = IF loc.mode = "LAN_JOIN" THEN "CLIENT" ELSE "DATABASE"
  BY <1>0, <1>1 DEF AcceptSession, PublishFresh, Goto, Locs, Prior
<1>4. PhaseBacked'
  BY <1>3, DarkPhase DEF MonitoredPhases
<1>5. \A d \in Component : jtoken'[d] = NoToken
  BY <1>3 DEF Unowned
<1>6. PlanShape'
  BY <1>2, <1>3, <1>5 DEF PlanShape, Earlier, Later, Component
<1>7. StageShape'
  BY <1>3, <1>5 DEF StageShape, Staging, ClaimBound, Component
<1> QED
  BY <1>3, <1>4, <1>6, <1>7 DEF ShapeInv, ClientShape, StopShape, StopPlaces, RecoverPlaces,
                                ConsentPlaces

(* The owner is journalled before the service is asked.                    *)
LEMMA StageRequestShape ==
    ASSUME TypeInv, ShapeInv, StageRequest
    PROVE  ShapeInv'
<1>0. loc \in Locs /\ loc.cur \in Component /\ jstate \in Lifecycles /\ jtoken \in Tokened
  BY DEF TypeInv, OpInv, OperationOK, JournalOK, StageRequest, AtComponent
<1>1. PICK t \in FreshTokens(loc.cur) :
        /\ Publish(PhaseFor[loc.cur], clean, [jstate EXCEPT ![loc.cur] = "STARTING"],
                   [jtoken EXCEPT ![loc.cur] = t])
        /\ Goto("start", [loc EXCEPT !.retried = FALSE,
                           !.claim = [session |-> loc.prior.session, token |-> t]])
  BY DEF StageRequest
<1>2. t # NoToken
  BY <1>0, FreshType, ConstantsAssumption
<1>3. /\ phase' = PhaseFor[loc.cur] /\ session' = session /\ mode' = mode
      /\ jstate' = [jstate EXCEPT ![loc.cur] = "STARTING"]
      /\ jtoken' = [jtoken EXCEPT ![loc.cur] = t]
      /\ pc' = "start" /\ loc'.cur = loc.cur /\ loc'.prior = loc.prior
      /\ loc'.claim = [session |-> loc.prior.session, token |-> t]
  BY <1>0, <1>1 DEF Publish, Goto, Locs
<1>4. PhaseBacked'
  BY <1>0, <1>3, StagePhase, DarkPhase
<1>5. \A d \in Component : d # loc.cur => jstate'[d] = jstate[d] /\ jtoken'[d] = jtoken[d]
  BY <1>0, <1>3 DEF Lifecycles, Tokened
<1>6. jstate'[loc.cur] = "STARTING" /\ jtoken'[loc.cur] = t
  BY <1>0, <1>3 DEF Lifecycles, Tokened
<1>7. /\ session # NoSession /\ loc.prior.session = session
      /\ mode # "LAN_JOIN" => \A d \in Earlier[loc.cur] : Backed(d)
      /\ mode = "LAN_JOIN" => loc.cur = "CLIENT"
      /\ \A d \in Later[loc.cur] : jtoken[d] = NoToken
  BY DEF StageRequest, ShapeInv, PlanShape, StartPlaces
<1>8. PlanShape'
  <2>1. mode # "LAN_JOIN" => \A d \in Earlier[loc.cur] : Backed(d)'
    BY <1>0, <1>5, <1>7 DEF Backed, Earlier, Component, Servers
  <2>2. \A d \in Later[loc.cur] : jtoken'[d] = NoToken
    BY <1>0, <1>5, <1>7 DEF Later, Component
  <2> QED BY <1>3, <1>7, <2>1, <2>2 DEF PlanShape
<1>9. StageShape'
  BY <1>2, <1>3, <1>6, <1>7 DEF StageShape
<1> QED
  BY <1>3, <1>4, <1>8, <1>9 DEF ShapeInv, ClientShape, StopShape, StopPlaces, RecoverPlaces,
                                ConsentPlaces

(* The ready component is recorded under its claim; the last one shows the *)
(* realm to the user.                                                      *)
LEMMA StageReadyShape ==
    ASSUME TypeInv, ShapeInv, StageReady
    PROVE  ShapeInv'
<1> DEFINE c == loc.cur
           last == c = "CLIENT" \/ (c = "WORLD" /\ ~loc.client)
           next == IF c = "DATABASE" THEN c ELSE StartNext[c]
<1>0. loc \in Locs /\ c \in Component /\ jstate \in Lifecycles /\ jtoken \in Tokened
  BY DEF TypeInv, OpInv, OperationOK, JournalOK, StageReady, AtComponent
<1>1. /\ session # NoSession /\ loc.prior.session = session
      /\ mode # "LAN_JOIN" => \A d \in Earlier[c] : Backed(d)
      /\ mode = "LAN_JOIN" => c = "CLIENT"
      /\ \A d \in Later[c] : jtoken[d] = NoToken
      /\ phase = PhaseFor[c]
      /\ jtoken[c] # NoToken
      /\ loc.claim = [session |-> session, token |-> jtoken[c]]
  BY DEF StageReady, ShapeInv, PlanShape, StageShape, StartPlaces, Staging, ClaimBound
<1>2. /\ phase' = IF last THEN (IF c = "CLIENT" THEN "RUNNING" ELSE "WORLD_READY") ELSE phase
      /\ session' = session /\ mode' = mode
      /\ jstate' = [jstate EXCEPT ![c] = "READY"] /\ jtoken' = jtoken
  BY <1>0, <1>1 DEF StageReady, Publish, Tokened
<1>3. \A d \in Component : d = c \/ Backed(d) => Backed(d)'
  BY <1>0, <1>1, <1>2 DEF Backed, Lifecycles
<1>4. CASE last
  <2>1. pc' = "idle"
    BY <1>4 DEF StageReady, Finish
  <2>2. mode # "LAN_JOIN" => \A d \in Servers : Backed(d)'
    BY <1>1, <1>3, <1>4 DEF Earlier, Component, Servers
  <2>3. c = "CLIENT" => Backed("CLIENT")'
    BY <1>3 DEF Component
  <2>4. PhaseBacked'
    BY <1>1, <1>2, <1>4, <2>2, <2>3 DEF PhaseBacked, ServersBacked, MonitoredPhases, Later
  <2> QED BY <2>1, <2>4, AtRestShape
<1>5. CASE ~last
  <2>1. PhaseBacked'
    BY <1>0, <1>1, <1>2, <1>5, StagePhase, DarkPhase
  <2>2. /\ pc' = IF c = "DATABASE" THEN "project" ELSE "stage"
        /\ loc'.cur = next /\ loc'.prior = loc.prior /\ loc'.started = loc.started \cup {c}
    BY <1>0, <1>5 DEF StageReady, Goto, Locs
  <2>3. c \in Servers
    BY <1>0, <1>5 DEF Component, Servers
  <2>4. mode # "LAN_JOIN"
    BY <1>1, <1>5
  <2>5. \A d \in Earlier[next] : Backed(d)'
    BY <1>1, <1>3, <2>3, <2>4 DEF Earlier, StartNext, Component, Servers
  <2>6. \A d \in Later[next] : jtoken'[d] = NoToken
    BY <1>1, <1>2, <2>3 DEF Later, StartNext, Servers
  <2>7. PlanShape'
    BY <1>1, <1>2, <2>2, <2>4, <2>5, <2>6 DEF PlanShape
  <2>8. StageShape'
    <3>1. CASE c = "DATABASE"
      <4>1. Backed("DATABASE")'
        BY <1>3, <3>1 DEF Component
      <4> QED
        BY <1>1, <1>2, <1>5, <2>2, <3>1, <4>1 DEF StageShape, ClaimBound, Backed
    <3>2. CASE c # "DATABASE"
      <4>1. StartNext[c] \in Later[c]
        BY <2>3, <3>2 DEF StartNext, Later, Servers
      <4> QED BY <1>1, <1>2, <2>2, <3>2, <4>1 DEF StageShape, ClaimBound, Staging
    <3> QED BY <3>1, <3>2
  <2> QED
    BY <2>1, <2>2, <2>7, <2>8 DEF ShapeInv, ClientShape, StopShape, StopPlaces, RecoverPlaces,
                                  ConsentPlaces
<1> QED BY <1>4, <1>5

(* A ready database is projected before the realm is staged.               *)
LEMMA ProjectShape ==
    ASSUME TypeInv, ShapeInv, ProjectAdvertisement
    PROVE  ShapeInv'
<1>0. loc \in Locs /\ pc = "project"
  BY DEF TypeInv, OpInv, OperationOK, ProjectAdvertisement
<1>1. CASE StageFails
  BY <1>0, <1>1, StageFailsShape DEF Staging
<1>2. CASE UNCHANGED journal /\ Goto("stage", [loc EXCEPT !.cur = "REALM"])
  <2>1. pc' = "stage" /\ loc'.cur = "REALM" /\ loc'.prior = loc.prior
    BY <1>0, <1>2 DEF Goto, Locs
  <2>2. /\ session # NoSession /\ loc.prior.session = session /\ mode # "LAN_JOIN"
        /\ Backed("DATABASE") /\ \A d \in {"REALM", "WORLD", "CLIENT"} : jtoken[d] = NoToken
    BY <1>0 DEF ShapeInv, PlanShape, StageShape, StartPlaces, Staging, Later
  <2>3. PhaseBacked'
    BY <1>2, SamePhase DEF ShapeInv
  <2>4. PlanShape'
    BY <1>2, <2>1, <2>2 DEF PlanShape, Earlier, Later, Backed, journal
  <2>5. StageShape'
    BY <1>2, <2>1, <2>2 DEF StageShape, Staging, ClaimBound, journal
  <2> QED
    BY <2>1, <2>3, <2>4, <2>5 DEF ShapeInv, ClientShape, StopShape, StopPlaces, RecoverPlaces,
                                  ConsentPlaces
<1> QED BY <1>1, <1>2 DEF ProjectAdvertisement

(* The drain of a client the journal still names ends at the stage of its  *)
(* relaunch or at the record of its failure.                               *)
LEMMA DrainShape ==
    ASSUME TypeInv, ShapeInv, DrainClient
    PROVE  ShapeInv'
<1>0. loc \in Locs
  BY DEF TypeInv, OpInv, OperationOK
<1>1. CASE Fail
  BY <1>1, FailShape
<1>2. CASE pc = "isolate" /\ Goto("isolated", loc) /\ UNCHANGED journal
  <2>1. pc' = "isolated" /\ PhaseBacked'
    BY <1>2, SamePhase DEF ShapeInv, Goto
  <2>2. session' # NoSession /\ ServersBacked'
    BY <1>2, SamePhase DEF ShapeInv, ClientShape, journal
  <2> QED
    BY <2>1, <2>2 DEF ShapeInv, PlanShape, StageShape, ClientShape, StopShape, StartPlaces,
                      Staging, StopPlaces, RecoverPlaces, ConsentPlaces, ClaimBound
<1>3. CASE pc = "drain" /\ Goto("stage", loc) /\ UNCHANGED journal
  <2>1. pc' = "stage" /\ loc' = loc
    BY <1>3 DEF Goto
  <2>2. PhaseBacked'
    BY <1>3, SamePhase DEF ShapeInv
  <2>3. PlanShape'
    BY <1>3, <2>1 DEF ShapeInv, PlanShape, StartPlaces, Backed, journal
  <2>4. StageShape'
    BY <1>3, <2>1 DEF ShapeInv, StageShape, Staging, ClaimBound, journal
  <2> QED
    BY <2>1, <2>2, <2>3, <2>4 DEF ShapeInv, ClientShape, StopShape, StopPlaces, RecoverPlaces,
                                  ConsentPlaces
<1>4. CASE pc = "drain" /\ OwnerOf("CLIENT") # NoOwner
  BY <1>4 DEF ShapeInv, StageShape, OwnerOf
<1> QED
  BY <1>1, <1>2, <1>3, <1>4 DEF DrainClient

(* Every step of start, relaunchClient and their stages.                   *)
LEMMA StartStepShape ==
    ASSUME TypeInv, CleanInv, ShapeInv, StartStep
    PROVE  ShapeInv'
<1>0. /\ loc \in Locs /\ JournalOK
      /\ pc \in AtComponent => loc.cur \in Component
  BY DEF TypeInv, OpInv, OperationOK
<1>1. CASE PreflightEnds
  <2>1. CASE UNCHANGED journal
    BY <1>1, <2>1, SamePhase, AtRestShape DEF PreflightEnds, Finish, ShapeInv
  <2>2. CASE phase' = "UNCONFIGURED"
    BY <1>1, <2>2, DarkPhase, AtRestShape DEF PreflightEnds, Finish, MonitoredPhases
  <2> QED BY <1>1, <2>1, <2>2 DEF PreflightEnds, PublishFresh
<1>2. CASE BackendStart \/ RetireFailedNative \/ ReclaimDatabase
  <2>1. pc \in ClaimBound
    BY <1>2 DEF BackendStart, RetireFailedNative, ReclaimDatabase, ClaimBound
  <2>2. CASE StageFails
    BY <2>1, <2>2, StageFailsShape DEF ClaimBound, Staging
  <2>3. CASE UNCHANGED journal /\ pc' \in ClaimBound /\ loc'.cur = loc.cur
             /\ loc'.claim = loc.claim /\ loc'.prior = loc.prior
    BY <2>1, <2>3, SameStageShape
  <2> QED
    BY <1>0, <1>2, <2>2, <2>3 DEF BackendStart, RetireFailedNative, ReclaimDatabase, Goto,
                                  ClaimBound, Locs
<1>3. CASE UnwindStage
  <2>1. session # NoSession
    BY <1>3 DEF UnwindStage, ShapeInv, PlanShape, StartPlaces, Staging
  <2> QED BY <1>0, <1>3, <2>1, StopLockedShape DEF UnwindStage
<1>4. CASE IsolateRecorded
  <2>1. /\ pc' = "idle" /\ phase' = "CLIENT_FAILED" /\ session' = session /\ mode' = mode
        /\ jstate' = [jstate EXCEPT !["CLIENT"] = "FAILED"]
        /\ jtoken' = [jtoken EXCEPT !["CLIENT"] = NoToken]
    BY <1>4 DEF IsolateRecorded, Publish, Finish
  <2>2. session # NoSession /\ ServersBacked
    BY <1>4 DEF IsolateRecorded, ShapeInv, ClientShape
  <2>3. ServersBacked' /\ jtoken'["CLIENT"] = NoToken
    BY <1>0, <2>1, <2>2 DEF JournalOK, ServersBacked, Backed, Lifecycles, Tokened, Component,
                            Servers
  <2>4. PhaseBacked'
    BY <2>1, <2>2, <2>3 DEF PhaseBacked
  <2> QED BY <2>1, <2>4, AtRestShape
<1> QED
  BY <1>1, <1>2, <1>3, <1>4, StageBegins, StageRequestShape, StageReadyShape, ProjectShape,
     DrainShape
  DEF StartStep

(* The steps that end companion mode, the consented stop and an escaped    *)
(* operation.                                                              *)
LEMMA OtherStepShape ==
    ASSUME TypeInv, CleanInv, ShapeInv,
           CompanionStep \/ ConsentStop \/ ConsentDatabase \/ UnexpectedOperationFailure
    PROVE  ShapeInv'
<1>0. loc \in Locs
  BY DEF TypeInv, OpInv, OperationOK
<1>1. CASE CompanionStep
  <2>1. CASE UNCHANGED journal /\ pc' = "idle"
    BY <2>1, SamePhase, AtRestShape DEF ShapeInv
  <2>2. CASE UNCHANGED journal /\ pc = "companion" /\ Goto("rollback", loc)
    <3>1. PhaseBacked' /\ OwnerOf("WORLD")' = OwnerOf("WORLD")
      BY <2>2, SamePhase DEF ShapeInv, journal, OwnerOf
    <3> QED
      BY <2>2, <3>1 DEF ShapeInv, ClientShape, PlanShape, StageShape, StopShape, StartPlaces,
                        Staging, StopPlaces, RecoverPlaces, ConsentPlaces, ClaimBound, Goto,
                        journal
  <2>3. CASE CompanionRolledBack
    <3>1. /\ phase \in {"RUNNING", "PAUSED", "CLIENT_FAILED"}
          /\ loc.final \in {"RUNNING", "PAUSED", "CLIENT_FAILED"}
          /\ loc.final = "CLIENT_FAILED" <=> phase = "CLIENT_FAILED"
      BY <2>3 DEF CompanionRolledBack, ShapeInv, ClientShape
    <3>2. PhaseBacked' /\ pc' = "idle"
      BY <2>3, <3>1 DEF CompanionRolledBack, Finish, Publish, ShapeInv, PhaseBacked,
                        ServersBacked, Backed, MonitoredPhases
    <3> QED BY <3>2, AtRestShape
  <2> QED BY <1>1, <2>1, <2>2, <2>3 DEF CompanionStep, CompanionEnds, Finish
<1>2. CASE ConsentStop
  <2>1. ASSUME ConsentAdvance
        PROVE  ShapeInv'
    <3>1. /\ pc = "orphans" /\ pc' \in ConsentPlaces /\ loc'.prior = loc.prior
          /\ UNCHANGED journal
          /\ pc' = "orphanDb" => loc'.cur = "DATABASE"
      BY <1>0, <1>2, <2>1 DEF ConsentStop, ConsentAdvance, Goto, ConsentPlaces, StopNext, Locs
    <3> QED BY <3>1, PriorShape DEF RecoverPlaces, ConsentPlaces
  <2> QED BY <1>2, <2>1, FailShape DEF ConsentStop, AdoptAndKill
<1>3. CASE ConsentDatabase
  <2>1. ConsentCommit => ShapeInv'
    BY DarkPhase, AtRestShape DEF ConsentCommit, PublishFresh, Finish, MonitoredPhases
  <2> QED BY <1>3, <2>1, FailShape DEF ConsentDatabase
<1>4. CASE UnexpectedOperationFailure
  <2>1. pc' = "idle" /\ (phase' = "ERROR" \/ UNCHANGED journal)
    BY <1>4 DEF UnexpectedOperationFailure, Finish, Publish, PublishFresh
  <2> QED BY <2>1, DarkPhase, SamePhase, AtRestShape DEF MonitoredPhases, ShapeInv
<1> QED BY <1>1, <1>2, <1>3, <1>4

(* relaunchClient is offered where the servers are ready and the client    *)
(* has no owner.                                                           *)
LEMMA RelaunchShape ==
    ASSUME TypeInv, ShapeInv, RelaunchClient
    PROVE  ShapeInv'
<1>0. JournalOK /\ Locals("relaunch") \in Locs
  BY LocalsType DEF TypeInv, Verb
<1>1. /\ pc' = "drain" /\ loc'.cur = "CLIENT" /\ loc'.prior.session = session
      /\ UNCHANGED journal
  BY <1>0 DEF RelaunchClient, Goto, Locs, Prior
<1>2. /\ phase \in MonitoredPhases /\ session # NoSession /\ ServersBacked
      /\ jtoken["CLIENT"] = NoToken
  BY DEF RelaunchClient, RelaunchOffered, ShapeInv, PhaseBacked, MonitoredPhases
<1>3. PhaseBacked'
  BY <1>1, SamePhase DEF ShapeInv
<1>4. PlanShape'
  BY <1>1, <1>2 DEF PlanShape, Earlier, Later, ServersBacked, Backed, journal
<1>5. StageShape'
  BY <1>1, <1>2 DEF StageShape, Staging, ClaimBound, journal
<1> QED
  BY <1>1, <1>3, <1>4, <1>5 DEF ShapeInv, ClientShape, StopShape, StopPlaces, RecoverPlaces,
                                ConsentPlaces

(* Companion mode moves between RUNNING and PAUSED, or keeps CLIENT_FAILED. *)
LEMMA CompanionShape ==
    ASSUME TypeInv, ShapeInv, NEW b \in BOOLEAN, Companion(b)
    PROVE  ShapeInv'
<1>0. JournalOK /\ Locals("companion") \in Locs
  BY LocalsType DEF TypeInv, Verb
<1>1. /\ pc' = "companion" /\ loc'.final = phase /\ loc'.claim = OwnerOf("WORLD")
      /\ OwnerOf("WORLD") # NoOwner
      /\ session' = session /\ mode' = mode /\ jstate' = jstate /\ jtoken' = jtoken
  BY <1>0 DEF Companion, Publish, Goto, Locs
<1>2. /\ phase \in {"RUNNING", "PAUSED", "CLIENT_FAILED"}
      /\ phase' = IF b THEN "PAUSED" ELSE IF phase = "CLIENT_FAILED" THEN phase ELSE "RUNNING"
      /\ b => phase = "RUNNING"
  BY DEF Companion, Publish
<1>3. PhaseBacked'
  BY <1>1, <1>2 DEF ShapeInv, PhaseBacked, ServersBacked, Backed, MonitoredPhases
<1>4. OwnerOf("WORLD")' = OwnerOf("WORLD")
  BY <1>1 DEF OwnerOf
<1>5. ClientShape'
  BY <1>1, <1>2, <1>4 DEF ClientShape
<1> QED
  BY <1>1, <1>3, <1>5 DEF ShapeInv, PlanShape, StageShape, StopShape, StartPlaces, Staging,
                          StopPlaces, RecoverPlaces, ConsentPlaces, ClaimBound

(* Every request leads into a shape its operation keeps.                   *)
LEMMA RequestShape ==
    ASSUME "transfer" \notin Faults, TypeInv, CleanInv, ShapeInv, Request
    PROVE  ShapeInv'
<1>0. JournalOK /\ \A v \in Verb : Locals(v) \in Locs /\ Locals(v).verb = v
  BY LocalsType DEF TypeInv
<1>a. ASSUME pc' = "preflight", clean, UNCHANGED journal
      PROVE  ShapeInv'
  <2>1. PhaseBacked' /\ clean'
    BY <1>a, SamePhase DEF ShapeInv, journal
  <2> QED
    BY <1>a, <2>1 DEF ShapeInv, PlanShape, StageShape, ClientShape, StopShape, StartPlaces,
                      Staging, StopPlaces, RecoverPlaces, ConsentPlaces, ClaimBound
<1>1. ASSUME NEW m \in Mode, NEW client \in BOOLEAN, Start(m, client)
      PROVE  ShapeInv'
  <2> DEFINE l == [Locals("start") EXCEPT !.mode = m, !.client = client]
  <2>1. l \in Locs
    BY <1>0 DEF Locs, Verb
  <2>2. \/ clean /\ UNCHANGED journal /\ Goto("preflight", l)
        \/ RecoverBegin(l)
    BY <1>1 DEF Start
  <2> HIDE DEF l
  <2> QED BY <1>a, <2>1, <2>2, RecoverBeginShape DEF Goto
<1>2. ASSUME NEW m \in Mode, PreflightVerb(m)
      PROVE  ShapeInv'
  BY <1>a, <1>2 DEF PreflightVerb, Goto
<1>3. CASE Recover
  BY <1>0, <1>3, RecoverBeginShape DEF Recover, Verb
<1>4. CASE ConsentBegin
  <2>1. /\ pc' = "orphans" /\ phase' = "STOPPING" /\ loc'.prior = Prior /\ Prior' = Prior
        /\ "consent" \in Verbs
    BY <1>0, <1>4 DEF ConsentBegin, Begin, Publish, Goto, Prior, Verb, Locs
  <2>2. PhaseBacked'
    BY <2>1, DarkPhase DEF MonitoredPhases
  <2> QED
    BY <2>1, <2>2 DEF ShapeInv, PlanShape, StageShape, ClientShape, StopShape, StartPlaces,
                      Staging, StopPlaces, RecoverPlaces, ConsentPlaces, ClaimBound
<1>5. ASSUME NEW b \in BOOLEAN, Stop(b)
      PROVE  ShapeInv'
  <2>1. Locals("stop") \in Locs /\ Locals("stop").verb = "stop" /\ "stop" \in Verbs
    BY <1>0, <1>5 DEF Stop, Begin, Verb
  <2>2. session = NoSession => ~Locals("stop").live
    BY NoLocType DEF Locals, Locs, ShapeInv, PhaseBacked
  <2> QED BY <1>5, <2>1, <2>2, StopLockedShape DEF Stop
<1>6. ~TransferBegin
  BY DEF TransferBegin, Fault
<1> QED
  BY <1>1, <1>2, <1>3, <1>4, <1>5, <1>6, RelaunchShape, CompanionShape DEF Request

(* The monitor isolates a client, stops the session or recovers it.        *)
LEMMA MonitorShape ==
    ASSUME TypeInv, ShapeInv, Monitor
    PROVE  ShapeInv'
<1>0. Locals("monitor") \in Locs
  BY LocalsType DEF Verb
<1>1. CASE MonitorTick
  <2>1. UNCHANGED journal /\ pc' = "idle"
    BY <1>1 DEF MonitorTick, Begin
  <2> QED BY <2>1, SamePhase, AtRestShape DEF ShapeInv
<1>2. ASSUME NEW c \in Component, MonitorFailed(c)
      PROVE  ShapeInv'
  <2>1. session # NoSession /\ ServersBacked
    BY <1>2 DEF MonitorFailed, Reaches, ShapeInv, PhaseBacked
  <2>2. CASE pc' = "isolate" /\ UNCHANGED journal
    <3>1. PhaseBacked' /\ ServersBacked' /\ session' # NoSession
      BY <2>1, <2>2, SamePhase DEF ShapeInv, journal
    <3> QED
      BY <2>2, <3>1 DEF ShapeInv, PlanShape, StageShape, ClientShape, StopShape, StartPlaces,
                        Staging, StopPlaces, RecoverPlaces, ConsentPlaces, ClaimBound
  <2> QED BY <1>0, <1>2, <2>1, <2>2, StopLockedShape DEF MonitorFailed, Goto
<1>3. ASSUME NEW c \in Component, MonitorHeal(c)
      PROVE  ShapeInv'
  <2>1. session # NoSession
    BY <1>3 DEF MonitorHeal
  <2> QED
    BY <1>0, <1>3, <2>1, StopLockedShape, RecoverBeginShape, FailShape
    DEF MonitorHeal, AdoptAndKill
<1> QED BY <1>1, <1>2, <1>3 DEF Monitor

(* A step that touches neither the journal nor the operation.              *)
LEMMA SameShape ==
    ASSUME ShapeInv, UNCHANGED <<journal, pc, loc>>
    PROVE  ShapeInv'
BY DEF ShapeInv, PhaseBacked, ServersBacked, Backed, PlanShape, StageShape, ClientShape,
       StopShape, OwnerOf, Prior, journal

(* The invariant is inductive, as long as no transfer writes a stale       *)
(* snapshot.                                                               *)
LEMMA ShapeStep ==
    ASSUME "transfer" \notin Faults, TypeInv, CleanInv, ShapeInv, [Next]_vars
    PROVE  ShapeInv'
<1>1. CASE ServiceStep \/ \E d \in Component : NativeDies(d)
  <2>1. UNCHANGED <<journal, pc, loc>>
    BY <1>1 DEF ServiceStep, OwnerDied, LossTeardown, BootSettles, RetireWorld, NativeDies, Idle
  <2> QED BY <2>1, SameShape
<1>2. CASE SupervisorCrash \/ JournalWriteFails
  <2>1. UNCHANGED journal /\ pc' \in {"idle", "escaped"}
    BY <1>2 DEF SupervisorCrash, JournalWriteFails, Goto
  <2> QED BY <2>1, SamePhase, AtRestShape DEF ShapeInv
<1>3. ~TransferRead /\ ~TransferWrite
  BY ConstantsAssumption DEF TransferRead, TransferWrite, Captured, CleanInv
<1>4. CASE UNCHANGED vars
  BY <1>4, SameShape DEF vars
<1> QED
  BY <1>1, <1>2, <1>3, <1>4, RecoverStepShape, StopStepShape, StartStepShape, OtherStepShape,
     RequestShape, MonitorShape
  DEF Next, OperationStep

(* Together with the invariant of the clean journal.                       *)
LEMMA ShapeInvariant ==
    ASSUME "transfer" \notin Faults
    PROVE  Spec => [](TypeInv /\ CleanInv /\ ShapeInv)
<1>1. CleanInv /\ UNCHANGED vars => CleanInv'
  BY DEF CleanInv, CleanHoldsNoClaim, vars, journal
<1>2. TypeInv /\ CleanInv /\ [Next]_vars => CleanInv'
  BY <1>1, CleanStep
<1>3. TypeInv /\ CleanInv /\ ShapeInv /\ [Next]_vars => ShapeInv'
  BY ShapeStep
<1> QED
  BY <1>2, <1>3, CleanInit, ShapeInit, TypeInvariant, PTL DEF Spec

-----------------------------------------------------------------------------
(* Results *)

(* The phases that tell the user the realm is up are never ahead of the    *)
(* journal: whatever failed, crashed or was escaped half way through a     *)
(* start, a relaunch, an isolation or the companion toggle, every server   *)
(* is recorded ready under an owner, and in RUNNING the client too.        *)
THEOREM LivePhasesAreBacked ==
    ASSUME "transfer" \notin Faults
    PROVE  Spec => []LivePhaseIsBacked
<1>1. ShapeInv => LivePhaseIsBacked
  BY DEF ShapeInv, PhaseBacked, ServersBacked, Backed, LivePhaseIsBacked
<1> QED
  BY <1>1, ShapeInvariant, PTL

(* relaunchClient never finds a client claim to drain: where it is offered *)
(* the isolation or the start that led there left the client unowned.      *)
THEOREM RelaunchIsUnclaimed ==
    ASSUME "transfer" \notin Faults
    PROVE  Spec => []RelaunchFindsNoClaim
<1>1. ShapeInv => RelaunchFindsNoClaim
  BY DEF ShapeInv, PhaseBacked, RelaunchFindsNoClaim, OwnerOf, MonitoredPhases
<1> QED
  BY <1>1, ShapeInvariant, PTL
=============================================================================
