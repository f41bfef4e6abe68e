------------------------------ MODULE Supervisor ------------------------------
(***************************************************************************)
(* DurableRuntimeSupervisor: the single owner of a Pocket Realm session.   *)
(*                                                                         *)
(* A session is four Android processes (database, login realm, world and   *)
(* client) that the supervisor starts in one order, stops in the reverse   *)
(* order and, after its own death, recovers from a durable journal.  Every *)
(* service keeps an ownership claim of its own (ComponentOwnership); the   *)
(* journal records the owner the supervisor believes in.  Most of what can *)
(* go wrong is the two disagreeing.                                        *)
(*                                                                         *)
(* One action is one backend call together with the journal writes that    *)
(* lead up to it, or a run of journal writes alone, so a crash can fall    *)
(* between what a service did and what the journal says of it.  An         *)
(* operation holds operationLock (and RealmService's reservation) from its *)
(* first action until pc is "idle".                                        *)
(***************************************************************************)
EXTENDS Integers, FiniteSets

CONSTANTS
    Sessions,     \* session ids (unguessable: only equality matters)
    Tokens,       \* instance tokens
    NoSession, NoToken, NoOwner, NoSnapshot, TransferVerb,
    Modes,        \* launch modes requested: LOCAL, LAN_HOST, LAN_JOIN
    Verbs,        \* the supervisor verbs a run exercises
    Faults,       \* the fault kinds a run exercises
    MaxFaults,    \* bound: faults (and transfers) of one behaviour
    GraceTicks    \* OrphanSelfHealPolicy.REOBSERVE_GRACE_TICKS (3 in the code)

Component == {"DATABASE", "REALM", "WORLD", "CLIENT"}
Servers == {"DATABASE", "REALM", "WORLD"}
Mode == {"LOCAL", "LAN_HOST", "LAN_JOIN"}
Phase == {"UNCONFIGURED", "STOPPED", "DB_STARTING", "REALM_STARTING",
          "WORLD_STARTING", "WORLD_READY", "CLIENT_STARTING", "RUNNING",
          "PAUSED", "CLIENT_FAILED", "STOPPING", "RECOVERING", "ERROR"}
Lifecycle == {"STOPPED", "STARTING", "READY", "STOPPING", "FAILED"}
(* What a service reports of its native runtime.  STARTING stands for every *)
(* live state that is not ready (STARTING, STOPPING, UNKNOWN): the          *)
(* supervisor never tells them apart in an observation.  EXITED is a client *)
(* that ended but is still claimed, which is observed as STOPPING.          *)
Native == {"STOPPED", "STARTING", "READY", "FAILED", "EXITED"}
Doom == {"lease", "loss", "retire"}
Verb == {"none", "preflight", "start", "relaunch", "stop", "recover",
         "consent", "companion", "monitor"}
FaultKind == {"crash", "preflight", "observe", "unobserved", "boot", "project",
              "stop", "kill", "save", "companion", "resume", "recoverDb", "die", "loss",
              "journal", "transfer"}
PC == {"idle", "preflight", "stage", "start", "reclaim", "retire", "stageReady",
       "project", "unwind", "isolate", "drain", "isolated", "companion", "rollback", "stop",
       "force", "stopped", "recover", "grace", "orphans", "orphanDb", "escaped"}

Startable == {"STOPPED", "ERROR", "UNCONFIGURED"}
MonitoredPhases == {"WORLD_READY", "RUNNING", "PAUSED", "CLIENT_FAILED"}
Owner == [session : Sessions, token : Tokens]

ASSUME ConstantsAssumption ==
    /\ NoSession \notin Sessions
    /\ NoToken \notin Tokens
    /\ NoOwner \notin Owner
    /\ Modes \subseteq Mode
    /\ Verbs \subseteq Verb
    /\ Faults \subseteq FaultKind
    /\ NoSnapshot # TransferVerb
    /\ MaxFaults \in Nat
    /\ GraceTicks \in Nat \ {0}

VARIABLES
    \* RuntimeSnapshot, as journalled (publish writes it before _state)
    phase, clean, session, mode, jstate, jtoken,
    \* the four services: native state, claim, pending service-side teardown
    native, owner, doom,
    \* volatile supervisor memory: the operation in flight and its locals
    pc, loc, minted, ticks,
    \* characterTransfer's copy of the snapshot (it takes no lock)
    transfer,
    \* native pause flag of the world; world progress not saved / lost
    paused, unsaved, lost,
    \* faults left
    faults

journal == <<phase, clean, session, mode, jstate, jtoken>>
services == <<native, owner, doom>>
memory == <<minted, ticks>>
world == <<paused, unsaved, lost>>
vars == <<journal, services, pc, loc, memory, transfer, world, faults>>

-----------------------------------------------------------------------------
(* Helpers of the journal and of the services. *)

Stopped == [c \in Component |-> "STOPPED"]
Unowned == [c \in Component |-> NoToken]
NoLoc == [verb |-> "none", cur |-> "none", mode |-> "LOCAL", client |-> FALSE,
          graceful |-> FALSE, final |-> "STOPPED", preserve |-> FALSE,
          durable |-> FALSE, live |-> FALSE, retried |-> FALSE, seen |-> 0,
          started |-> {}, claim |-> NoOwner,
          prior |-> [session |-> NoSession, mode |-> "LOCAL", token |-> Unowned]]

(* ownerOf: the claim the journal records, if any. *)
OwnerOf(c) == IF session = NoSession \/ jtoken[c] = NoToken THEN NoOwner
              ELSE [session |-> session, token |-> jtoken[c]]

(* The owner named by the snapshot the operation read when it began. *)
PriorOwner(c) ==
    IF loc.prior.session = NoSession \/ loc.prior.token[c] = NoToken THEN NoOwner
    ELSE [session |-> loc.prior.session, token |-> loc.prior.token[c]]

Live(n) == n \in {"STARTING", "READY"}

(* isHealableOrphan: not stopped, and nobody owns it. *)
Orphan(c) == native[c] # "STOPPED" /\ owner[c] = NoOwner

(* SecureRuntimeTokenSource: an identity is never one that anything still    *)
(* refers to.  Identities are only compared, so one fresh value stands for   *)
(* all of them.                                                              *)
Mint(S) == IF S = {} THEN {} ELSE {CHOOSE x \in S : TRUE}
Captured == transfer \notin {NoSnapshot, TransferVerb}
SessionsInUse == {session} \cup (IF Captured THEN {transfer.session} ELSE {}) \cup
                 {owner[c].session : c \in {d \in Component : owner[d] # NoOwner}}
FreshSessions == Mint(Sessions \ SessionsInUse)
FreshTokens(c) == Mint(Tokens \ ({jtoken[c]} \cup
                    (IF owner[c] = NoOwner THEN {} ELSE {owner[c].token}) \cup
                    (IF Captured THEN {transfer.jtoken[c]} ELSE {})))

(* Mutant: the realm before the world. *)
StopNextRealmFirst == [CLIENT |-> "REALM", REALM |-> "WORLD", WORLD |-> "DATABASE",
                       DATABASE |-> "done"]
StopNext == [CLIENT |-> "WORLD", WORLD |-> "REALM", REALM |-> "DATABASE",
             DATABASE |-> "done"]
StartNext == [DATABASE |-> "REALM", REALM |-> "WORLD", WORLD |-> "CLIENT",
              CLIENT |-> "done"]
PhaseFor == [DATABASE |-> "DB_STARTING", REALM |-> "REALM_STARTING",
             WORLD |-> "WORLD_STARTING", CLIENT |-> "CLIENT_STARTING"]

(* publish of a copy of the current snapshot: session and mode stay. *)
Publish(ph, cl, js, jt) ==
    /\ phase' = ph /\ clean' = cl /\ jstate' = js /\ jtoken' = jt
    /\ UNCHANGED <<session, mode>>

(* publish of a fresh RuntimeSnapshot. *)
PublishFresh(ph, cl, s, m) ==
    /\ phase' = ph /\ clean' = cl /\ session' = s /\ mode' = m
    /\ jstate' = Stopped /\ jtoken' = Unowned

(* startedComponents is only read by the start that fills it: it is a local. *)
Finish == pc' = "idle" /\ loc' = NoLoc
Goto(p, l) == pc' = p /\ loc' = l

(* fail(): an ERROR that needs recovery ends the operation. *)
Fail == Publish("ERROR", FALSE, jstate, jtoken) /\ Finish

Fault(kind) == kind \in Faults /\ faults > 0 /\ faults' = faults - 1
NoFault == UNCHANGED faults

(* One service changes state, claim or pending teardown.  A client that has *)
(* ended counts as stopped once nobody claims it (clientTerminalLifecycle). *)
Change(c, n, o, d) ==
    /\ native' = [native EXCEPT ![c] = IF n = "EXITED" /\ o = NoOwner THEN "STOPPED" ELSE n]
    /\ owner' = [owner EXCEPT ![c] = o]
    /\ doom' = [doom EXCEPT ![c] = d]
    /\ paused' = (paused /\ (c = "WORLD" => n = native[c]))

(* A change that is not a graceful stop: a world that leaves its live states *)
(* with unsaved progress loses it.                                           *)
SetService(c, n, o, d) ==
    /\ Change(c, n, o, d)
    /\ lost' = (lost \/ (c = "WORLD" /\ unsaved /\ ~Live(n)))
    /\ unsaved' = IF c = "WORLD"
                  THEN Live(n) /\ (unsaved \/ (n = "READY" /\ native[c] # "READY"))
                  ELSE unsaved

SameServices == UNCHANGED <<services, world>>

(* A killed or dead process comes back unclaimed, with nothing pending. *)
Recycle(c) == SetService(c, "STOPPED", NoOwner, {})

(* stopOwned, accepted by a service that proved the owner: the database     *)
(* releases the claim of an ended engine without touching the engine; the   *)
(* world also schedules the retirement of its process (retireCleanProcess). *)
ServiceStop(c) ==
    /\ Change(c, IF c = "DATABASE" /\ native[c] = "FAILED" THEN "FAILED" ELSE "STOPPED",
              NoOwner, (doom[c] \ {"lease"}) \cup (IF c = "WORLD" THEN {"retire"} ELSE {}))
    /\ unsaved' = (unsaved /\ c # "WORLD")
    /\ UNCHANGED lost

(* forceStopOwned: the process dies.  The database only has its engine      *)
(* killed; its claim survives unless dropping the binding (database.close)  *)
(* destroys the service.  An ended engine just has its claim released.      *)
ServiceKill(c) ==
    IF c # "DATABASE" THEN Recycle(c)
    ELSE \/ Recycle(c)
         \/ /\ Live(native[c])
            /\ SetService(c, "FAILED", owner[c], doom[c])
         \/ /\ ~Live(native[c])
            /\ SetService(c, native[c], NoOwner, doom[c] \ {"lease"})

-----------------------------------------------------------------------------
Init ==
    /\ phase = "STOPPED" /\ clean = TRUE /\ session = NoSession /\ mode = "LOCAL"
    /\ jstate = Stopped /\ jtoken = Unowned
    /\ native = [c \in Component |-> "STOPPED"]
    /\ owner = [c \in Component |-> NoOwner]
    /\ doom = [c \in Component |-> {}]
    /\ pc = "idle" /\ loc = NoLoc
    /\ minted = {} /\ ticks = [c \in Component |-> 0]
    /\ transfer = NoSnapshot
    /\ paused = FALSE /\ unsaved = FALSE /\ lost = FALSE
    /\ faults = MaxFaults

Begin(v) == pc = "idle" /\ v \in Verbs
Locals(v) == [NoLoc EXCEPT !.verb = v, !.live = phase \in MonitoredPhases]
Prior == [session |-> session, mode |-> mode, token |-> jtoken]

-----------------------------------------------------------------------------
(* recoverLocked *)

RecoverBegin(l) ==
    /\ Publish("RECOVERING", FALSE, jstate, jtoken)
    /\ Goto("recover", [l EXCEPT !.cur = "CLIENT", !.prior = Prior])

(* LAN_JOIN recovers its only component, the client. *)
RecoverAdvance ==
    Goto("recover", [loc EXCEPT !.seen = 0,
         !.cur = IF loc.prior.mode = "LAN_JOIN" THEN "done" ELSE StopNext[loc.cur]])

Recovering == pc = "recover" /\ loc.cur \in Component

RecoverSkip ==
    /\ Recovering
    /\ PriorOwner(loc.cur) = NoOwner \/ native[loc.cur] = "STOPPED"
    /\ RecoverAdvance
    /\ NoFault /\ SameServices /\ UNCHANGED <<journal, memory, transfer>>

RecoverObserveFails ==
    /\ Recovering \/ (pc = "grace" /\ loc.seen < GraceTicks)
    /\ PriorOwner(loc.cur) # NoOwner
    /\ Fault("observe") /\ Fail
    /\ SameServices /\ UNCHANGED <<memory, transfer>>

RecoverOrphan ==
    /\ Recovering /\ PriorOwner(loc.cur) # NoOwner /\ Orphan(loc.cur)
    /\ Goto("grace", [loc EXCEPT !.seen = 1])
    /\ NoFault /\ SameServices /\ UNCHANGED <<journal, memory, transfer>>

(* Mutant: the reported owner is not compared with the journal's. *)
RecoverKillAnyOwner ==
    /\ Recovering /\ PriorOwner(loc.cur) # NoOwner
    /\ native[loc.cur] # "STOPPED" /\ owner[loc.cur] # NoOwner
    /\ ServiceKill(loc.cur) /\ NoFault /\ RecoverAdvance
    /\ UNCHANGED <<journal, memory, transfer>>

(* The journalled owner is still the service's owner: it may be killed. *)
RecoverKill ==
    /\ Recovering /\ PriorOwner(loc.cur) # NoOwner
    /\ native[loc.cur] # "STOPPED" /\ owner[loc.cur] = PriorOwner(loc.cur)
    /\ \/ ServiceKill(loc.cur) /\ NoFault /\ RecoverAdvance /\ UNCHANGED journal
       \/ Fault("kill") /\ Fail /\ SameServices
    /\ UNCHANGED <<memory, transfer>>

(* UNVERIFIED_ORPHAN: a live service another owner holds is left alone. *)
RecoverUnverified ==
    /\ Recovering /\ PriorOwner(loc.cur) # NoOwner
    /\ native[loc.cur] # "STOPPED"
    /\ owner[loc.cur] \notin {NoOwner, PriorOwner(loc.cur)}
    /\ Fail /\ NoFault /\ SameServices /\ UNCHANGED <<memory, transfer>>

(* Claim an ownerless running service, then kill it under the fresh claim.  *)
(* A kill that fails leaves the adopted claim behind, which no journal holds. *)
AdoptAndKill(c, s, done) ==
    \/ Orphan(c) /\ Recycle(c) /\ NoFault /\ done
    \/ /\ Orphan(c) /\ Fault("kill") /\ Fail
       /\ \E t \in FreshTokens(c) :
            SetService(c, native[c], [session |-> s, token |-> t], doom[c])
    \/ ~Orphan(c) /\ Fail /\ NoFault /\ SameServices

(* resolveRecoveryOrphan: the owner-loss teardown gets a bounded grace, and *)
(* a database orphan is left to recoverDatabase.                            *)
RecoverGrace ==
    /\ pc = "grace" /\ loc.seen < GraceTicks
    /\ IF Orphan(loc.cur) THEN Goto("grace", [loc EXCEPT !.seen = @ + 1])
       ELSE Goto("recover", [loc EXCEPT !.seen = 0])
    /\ NoFault /\ SameServices /\ UNCHANGED <<journal, memory, transfer>>

(* Mutant: an orphan that outlives the grace is taken as handled. *)
RecoverHealSkipsOrphan ==
    /\ pc = "grace" /\ loc.seen = GraceTicks
    /\ RecoverAdvance /\ NoFault /\ SameServices /\ UNCHANGED <<journal, memory, transfer>>

RecoverHeal ==
    /\ pc = "grace" /\ loc.seen = GraceTicks
    /\ IF loc.cur = "DATABASE"
       THEN RecoverAdvance /\ NoFault /\ SameServices /\ UNCHANGED journal
       ELSE AdoptAndKill(loc.cur, loc.prior.session, RecoverAdvance /\ UNCHANGED journal)
    /\ UNCHANGED <<memory, transfer>>

RecoverCommit ==
    /\ PublishFresh("STOPPED", TRUE, NoSession, "LOCAL")
    /\ IF loc.verb = "start" THEN Goto("preflight", [loc EXCEPT !.cur = "none"]) ELSE Finish

(* recoverDatabase drops every binding, which may destroy the database       *)
(* service; a database that survives it live is refused.                     *)
RecoverDatabase ==
    /\ pc = "recover" /\ loc.cur = "done"
    /\ LET db == "DATABASE" IN
       \/ /\ loc.prior.mode = "LAN_JOIN"
          /\ RecoverCommit /\ NoFault /\ UNCHANGED <<services, paused, unsaved>> /\ lost' = FALSE
       \/ /\ loc.prior.mode # "LAN_JOIN" /\ RecoverCommit /\ NoFault
          /\ \/ Change(db, "STOPPED", NoOwner, {})
             \/ ~Live(native[db]) /\ Change(db, "STOPPED", owner[db], doom[db])
          /\ UNCHANGED unsaved /\ lost' = FALSE
       \/ /\ loc.prior.mode # "LAN_JOIN" /\ ((Live(native[db]) /\ NoFault) \/ Fault("recoverDb"))
          /\ Fail /\ SameServices
    /\ UNCHANGED <<memory, transfer>>

Recover ==
    /\ Begin("recover") /\ ~clean
    /\ RecoverBegin(Locals("recover"))
    /\ NoFault /\ SameServices /\ UNCHANGED <<memory, transfer>>

-----------------------------------------------------------------------------
(* stopLocked *)

StopLocked(l, js, jt, graceful, final, preserve) ==
    /\ Publish("STOPPING", FALSE, js, jt)
    /\ Goto("stop", [l EXCEPT !.cur = "CLIENT", !.graceful = graceful, !.final = final,
                              !.preserve = preserve, !.durable = graceful])

Stop(graceful) ==
    /\ Begin("stop")
    /\ ~(phase = "STOPPED" /\ clean)
    /\ StopLocked(Locals("stop"), jstate, jtoken, graceful, "STOPPED", FALSE)
    /\ NoFault /\ SameServices /\ UNCHANGED <<memory, transfer>>

NeedsStop(c) ==
    /\ OwnerOf(c) # NoOwner /\ jstate[c] # "STOPPED"
    /\ mode = "LAN_JOIN" => c = "CLIENT"

StopSkip ==
    /\ pc = "stop" /\ loc.cur \in Component /\ ~NeedsStop(loc.cur)
    /\ Goto("stop", [loc EXCEPT !.cur = StopNext[loc.cur]])
    /\ NoFault /\ SameServices /\ UNCHANGED <<journal, memory, transfer>>

SavesFirst(c) == c = "WORLD" /\ jstate[c] = "READY"

(* The backend's world verbs check the owner first; the native runtime       *)
(* serves them only when it is up.                                           *)
WorldServes(o) == owner["WORLD"] = o /\ native["WORLD"] = "READY"

(* Mutant: a save that fails does not make the stop dirty. *)
SaveWorldIgnored ==
    /\ pc = "stop" /\ loc.cur = "WORLD" /\ NeedsStop("WORLD") /\ SavesFirst("WORLD")
    /\ Publish(phase, clean, [jstate EXCEPT !["WORLD"] = "STOPPING"], jtoken)
    /\ Goto("stop", loc)
    /\ Fault("save") \/ NoFault
    /\ UNCHANGED <<services, world, memory, transfer>>

(* saveWorld, before the first server is stopped; a save that is not         *)
(* acknowledged makes the stop dirty.                                        *)
SaveWorld ==
    /\ pc = "stop" /\ loc.cur = "WORLD" /\ NeedsStop("WORLD") /\ SavesFirst("WORLD")
    /\ Publish(phase, clean, [jstate EXCEPT !["WORLD"] = "STOPPING"], jtoken)
    /\ LET saved == WorldServes(OwnerOf("WORLD")) IN
       \/ saved /\ unsaved' = FALSE /\ NoFault /\ Goto("stop", loc)
       \/ /\ (~saved /\ NoFault) \/ Fault("save")
          /\ UNCHANGED unsaved /\ Goto("stop", [loc EXCEPT !.durable = FALSE])
    /\ UNCHANGED <<services, paused, lost, memory, transfer>>

(* The stop that failed is followed by a kill under the owner it had read. *)
ForceNext == Goto("force", [loc EXCEPT !.durable = FALSE, !.claim = OwnerOf(loc.cur)])

(* stopClient: a client whose runtime failed never exits cleanly, and one    *)
(* that is claimed but was never launched has no session to close.  A world  *)
(* whose worker kept FAILED answers the native stop TIMEOUT.                 *)
ExitsCleanly(c) == ~(c = "CLIENT" /\ native[c] = "FAILED")
MayNotClose(c) ==
    \/ c = "CLIENT" /\ native[c] \in {"FAILED", "EXITED"}
    \/ c = "WORLD" /\ native[c] = "FAILED"

(* A stop that fails may have taken effect.  Realm and world write their     *)
(* lifecycle file between the native stop and the release of the claim: a    *)
(* write that throws leaves a stopped runtime with its claim.                *)
StopUnacknowledged(c) ==
    \/ ServiceStop(c)
    \/ /\ c \in {"REALM", "WORLD"} /\ Change(c, "STOPPED", owner[c], doom[c])
       /\ unsaved' = (unsaved /\ c # "WORLD") /\ UNCHANGED lost

(* stopOwned: observe, prove the owner, stop.  A service already stopped is  *)
(* taken as done and keeps its claim.                                        *)
StopOwned ==
    /\ pc = "stop" /\ loc.graceful
    /\ LET c == loc.cur IN
       /\ c \in Component /\ NeedsStop(c) /\ ~SavesFirst(c)
       /\ Publish(phase, clean, [jstate EXCEPT ![c] = "STOPPING"], jtoken)
       /\ \/ native[c] = "STOPPED" /\ SameServices /\ NoFault /\ Goto("stopped", loc)
          \/ /\ native[c] # "STOPPED" /\ owner[c] = OwnerOf(c)
             /\ ExitsCleanly(c)
             /\ \/ ServiceStop(c) /\ NoFault /\ Goto("stopped", loc)
                \/ StopUnacknowledged(c) /\ Fault("stop") /\ ForceNext
          \/ /\ \/ Fault("stop") \/ Fault("observe")
                \/ /\ NoFault /\ native[c] # "STOPPED"
                   /\ owner[c] # OwnerOf(c) \/ MayNotClose(c)
             /\ SameServices /\ ForceNext
    /\ UNCHANGED <<memory, transfer>>

(* failStopCleanup: dirty ERROR; with an error to preserve, the component    *)
(* that would not stop is recorded FAILED and keeps its token.               *)
FailStopCleanup(stopping) ==
    /\ Publish("ERROR", FALSE,
               IF loc.preserve THEN [jstate EXCEPT ![loc.cur] = "FAILED"] ELSE stopping, jtoken)
    /\ Finish

(* Mutant: a kill that is withheld or fails begins the stop of the component again. *)
ForceOwnedRetries ==
    /\ \/ pc = "force"
       \/ pc = "stop" /\ ~loc.graceful /\ loc.cur \in Component
          /\ NeedsStop(loc.cur) /\ ~SavesFirst(loc.cur)
    /\ \/ /\ native[loc.cur] = "STOPPED" \/ owner[loc.cur] = OwnerOf(loc.cur)
          /\ Recycle(loc.cur) /\ Goto("stopped", [loc EXCEPT !.durable = FALSE])
       \/ /\ SameServices
          /\ Goto(IF pc = "force" THEN "stop" ELSE "force", [loc EXCEPT !.graceful = FALSE])
    /\ NoFault /\ UNCHANGED <<journal, memory, transfer>>

(* Mutant: the kill is not withheld from another owner's service. *)
ForceOwnedAnyOwner ==
    /\ \/ pc = "force"
       \/ pc = "stop" /\ ~loc.graceful /\ loc.cur \in Component
          /\ NeedsStop(loc.cur) /\ ~SavesFirst(loc.cur)
    /\ Recycle(loc.cur) /\ NoFault
    /\ Goto("stopped", [loc EXCEPT !.durable = FALSE])
    /\ UNCHANGED <<journal, memory, transfer>>

(* forceOwned: observe, prove the owner, kill. *)
ForceOwned ==
    /\ \/ pc = "force"
       \/ pc = "stop" /\ ~loc.graceful /\ loc.cur \in Component
          /\ NeedsStop(loc.cur) /\ ~SavesFirst(loc.cur)
    /\ LET c == loc.cur
           claim == IF pc = "force" THEN loc.claim ELSE OwnerOf(c)
           stopping == IF pc = "force" THEN jstate ELSE [jstate EXCEPT ![c] = "STOPPING"] IN
       \/ /\ \/ native[c] = "STOPPED" /\ SameServices
             \/ native[c] # "STOPPED" /\ owner[c] = claim /\ ServiceKill(c)
          /\ NoFault /\ Publish(phase, clean, stopping, jtoken)
          /\ Goto("stopped", [loc EXCEPT !.durable = FALSE, !.claim = NoOwner])
       \/ /\ \/ Fault("kill") \/ Fault("observe")
             \/ NoFault /\ native[c] # "STOPPED" /\ owner[c] # claim
          /\ SameServices /\ FailStopCleanup(stopping)
    /\ UNCHANGED <<memory, transfer>>

StopRecorded ==
    /\ pc = "stopped"
    /\ Publish(phase, clean, [jstate EXCEPT ![loc.cur] = "STOPPED"],
               [jtoken EXCEPT ![loc.cur] = NoToken])
    /\ Goto("stop", [loc EXCEPT !.cur = StopNext[loc.cur]])
    /\ NoFault /\ SameServices /\ UNCHANGED <<memory, transfer>>

StopCommit ==
    /\ pc = "stop" /\ loc.cur = "done"
    /\ Publish(loc.final, loc.durable, Stopped, Unowned)
    /\ Finish
    /\ NoFault /\ SameServices /\ UNCHANGED <<memory, transfer>>

-----------------------------------------------------------------------------
(* start, relaunchClient and their stages *)

(* Mutant: a dirty journal is not recovered first. *)
StartUnrecovered(m, client) ==
    /\ Begin("start") /\ m \in Modes
    /\ m = "LAN_JOIN" => client
    /\ Goto("preflight", [Locals("start") EXCEPT !.mode = m, !.client = client])
    /\ NoFault /\ SameServices /\ UNCHANGED <<journal, memory, transfer>>

Start(m, client) ==
    /\ Begin("start") /\ m \in Modes
    /\ m = "LAN_JOIN" => client
    /\ LET l == [Locals("start") EXCEPT !.mode = m, !.client = client] IN
       \/ clean /\ phase \in Startable /\ Goto("preflight", l) /\ UNCHANGED journal
       \/ ~clean /\ ~(m = "LAN_JOIN" /\ mode # "LAN_JOIN") /\ RecoverBegin(l)
    /\ NoFault /\ SameServices /\ UNCHANGED <<memory, transfer>>

PreflightVerb(m) ==
    /\ Begin("preflight") /\ m \in Modes /\ clean /\ phase \in Startable
    /\ Goto("preflight", [Locals("preflight") EXCEPT !.mode = m])
    /\ NoFault /\ SameServices /\ UNCHANGED <<journal, memory, transfer>>

(* backend.preflight only reads: profile, data, storage and runtimes. *)
PreflightRefuses == Fault("preflight")

PreflightEnds ==
    /\ pc = "preflight"
    /\ \/ loc.verb = "preflight" /\ NoFault /\ UNCHANGED journal
       \/ PreflightRefuses /\ PublishFresh("UNCONFIGURED", TRUE, NoSession, loc.mode)
    /\ Finish /\ SameServices /\ UNCHANGED <<memory, transfer>>

(* Mutant: the accepted session is not journalled dirty. *)
AcceptSessionClean ==
    /\ pc = "preflight" /\ loc.verb = "start"
    /\ \E s \in FreshSessions : PublishFresh("STOPPED", TRUE, s, loc.mode)
    /\ Goto("stage", [loc EXCEPT !.cur = "DATABASE"])
    /\ NoFault /\ SameServices /\ UNCHANGED <<memory, transfer>>

(* A new generation: the dirty journal names the session before anything     *)
(* runs.  Ids that nothing refers to any more leave mintedSessions: they can *)
(* no longer be asked about.                                                 *)
AcceptSession ==
    /\ pc = "preflight" /\ loc.verb = "start"
    /\ \E s \in FreshSessions :
         /\ PublishFresh("STOPPED", FALSE, s, loc.mode)
         /\ minted' = (minted \cap SessionsInUse) \cup {s}
    /\ lost' = FALSE
    /\ Goto("stage", [loc EXCEPT !.cur = IF loc.mode = "LAN_JOIN" THEN "CLIENT" ELSE "DATABASE",
                                 !.prior = Prior'])
    /\ NoFault /\ UNCHANGED <<services, paused, unsaved, ticks, transfer>>

(* The owner is journalled before the service can be asked to accept it. *)
StageRequest ==
    /\ pc = "stage"
    /\ \E t \in FreshTokens(loc.cur) :
         /\ Publish(PhaseFor[loc.cur], clean, [jstate EXCEPT ![loc.cur] = "STARTING"],
                    [jtoken EXCEPT ![loc.cur] = t])
         /\ Goto("start", [loc EXCEPT !.retried = FALSE,
                            !.claim = [session |-> loc.prior.session, token |-> t]])
    /\ NoFault /\ SameServices /\ UNCHANGED <<memory, transfer>>

(* failStage; the client's failure is isolated, a server's unwinds the start. *)
StageFails ==
    /\ Publish(phase, clean, [jstate EXCEPT ![loc.cur] = "FAILED"], jtoken)
    /\ Goto(IF loc.cur = "CLIENT" THEN "isolate" ELSE "unwind", [loc EXCEPT !.claim = NoOwner])

Claimable(c) == owner[c] \in {NoOwner, loc.claim}

(* What the services accept a start in: realm and world insist on a stopped *)
(* native runtime, the database engine also restarts after a failure.       *)
Bootable(c) == native[c] = "STOPPED" \/ (c = "DATABASE" /\ native[c] = "FAILED")

(* A boot that fails or times out leaves the claim with whatever the native  *)
(* runtime came to.  startClient kills a client that did not come up, unless *)
(* that fails or the start was cancelled.                                    *)
BootOutcomes(c) == IF c = "CLIENT" THEN Native \ {"STOPPED"} ELSE Native \ {"EXITED"}
BootFails(c) ==
    \/ c = "CLIENT" /\ Recycle(c)
    \/ \E n \in BootOutcomes(c) : SetService(c, n, loc.claim, doom[c])

(* A start that claimed a service which then refuses to boot. *)
BootRefused(c) ==
    \/ c # "CLIENT" /\ SetService(c, native[c], loc.claim, doom[c]) /\ NoFault
    \/ c = "CLIENT" /\ Recycle(c) /\ NoFault
    \/ c = "CLIENT" /\ SetService(c, native[c], loc.claim, doom[c]) /\ Fault("kill")

(* backend.start: claim, then boot. *)
BackendStart ==
    /\ pc = "start"
    /\ LET c == loc.cur IN
       \/ /\ Claimable(c) /\ Bootable(c)
          /\ \/ /\ SetService(c, "READY", loc.claim, doom[c])
                /\ NoFault /\ Goto("stageReady", loc) /\ UNCHANGED journal
             \/ BootFails(c) /\ Fault("boot") /\ StageFails
       \/ /\ Claimable(c) /\ ~Bootable(c)
          /\ BootRefused(c)
          /\ IF c \in {"REALM", "WORLD"} /\ ~loc.retried
             THEN Goto("retire", loc) /\ UNCHANGED journal ELSE StageFails
       \/ /\ ~Claimable(c) /\ SameServices /\ NoFault
          /\ IF c = "DATABASE" /\ ~loc.retried
             THEN Goto("reclaim", loc) /\ UNCHANGED journal ELSE StageFails
       \/ Fault("observe") /\ SameServices /\ StageFails
    /\ UNCHANGED <<memory, transfer>>

(* retireFailedNativeUnderFreshClaim: only an ended runtime is absorbed. *)
RetireFailedNative ==
    /\ pc = "retire"
    /\ LET c == loc.cur IN
       \/ /\ native[c] = "FAILED" /\ owner[c] = loc.claim /\ ServiceStop(c) /\ NoFault
          /\ Goto("start", [loc EXCEPT !.retried = TRUE]) /\ UNCHANGED journal
       \/ /\ \/ /\ native[c] # "FAILED" \/ owner[c] # loc.claim \/ MayNotClose(c)
                /\ NoFault
             \/ Fault("observe") \/ Fault("stop")
          /\ SameServices /\ StageFails
    /\ UNCHANGED <<memory, transfer>>

(* A database claim is released automatically only when its session was      *)
(* minted by this supervisor, has been replaced, and the engine is ended.    *)
ProvenEnded(o) ==
    o # NoOwner /\ o.session # loc.prior.session /\ o.session \in minted /\ ~Live(native["DATABASE"])

ReclaimDatabase ==
    /\ pc = "reclaim"
    /\ LET db == "DATABASE" IN
       \/ /\ ProvenEnded(owner[db])
          /\ (ServiceStop(db) /\ NoFault) \/ (ServiceKill(db) /\ Fault("stop"))
          /\ Goto("start", [loc EXCEPT !.retried = TRUE]) /\ UNCHANGED journal
       \/ /\ (~ProvenEnded(owner[db]) /\ NoFault) \/ Fault("observe") \/ Fault("kill")
          /\ SameServices /\ StageFails
    /\ UNCHANGED <<memory, transfer>>

(* Mutant: the last stage publishes the phase without its component's record. *)
StageReadyUnrecorded ==
    /\ pc = "stageReady"
    /\ LET c == loc.cur
           last == c = "CLIENT" \/ (c = "WORLD" /\ ~loc.client) IN
       /\ Publish(IF last THEN (IF c = "CLIENT" THEN "RUNNING" ELSE "WORLD_READY") ELSE phase,
                  clean, IF last THEN jstate ELSE [jstate EXCEPT ![c] = "READY"], jtoken)
       /\ IF last THEN Finish
          ELSE Goto(IF c = "DATABASE" THEN "project" ELSE "stage",
                    [loc EXCEPT !.cur = IF c = "DATABASE" THEN c ELSE StartNext[c]])
    /\ NoFault /\ SameServices /\ UNCHANGED <<memory, transfer>>

StageReady ==
    /\ pc = "stageReady"
    /\ LET c == loc.cur
           last == c = "CLIENT" \/ (c = "WORLD" /\ ~loc.client) IN
       /\ Publish(IF last THEN (IF c = "CLIENT" THEN "RUNNING" ELSE "WORLD_READY") ELSE phase,
                  clean, [jstate EXCEPT ![c] = "READY"],
                  [jtoken EXCEPT ![c] = loc.claim.token])
       /\ IF last THEN Finish
          ELSE Goto(IF c = "DATABASE" THEN "project" ELSE "stage",
                    [loc EXCEPT !.cur = IF c = "DATABASE" THEN c ELSE StartNext[c],
                                !.started = @ \cup {c}, !.claim = NoOwner])
    /\ NoFault /\ SameServices /\ UNCHANGED <<memory, transfer>>

(* projectRealmAdvertisement: writes the realm row through the database claim. *)
ProjectAdvertisement ==
    /\ pc = "project"
    /\ LET ok == /\ owner["DATABASE"] = OwnerOf("DATABASE") /\ owner["DATABASE"] # NoOwner
                 /\ native["DATABASE"] = "READY" IN
       \/ ok /\ NoFault /\ Goto("stage", [loc EXCEPT !.cur = "REALM"]) /\ UNCHANGED journal
       \/ ((~ok /\ NoFault) \/ Fault("project")) /\ StageFails
    /\ SameServices /\ UNCHANGED <<memory, transfer>>

(* Mutant: a stage that never became ready is struck even when it is seen live. *)
UnwindStageBlindly ==
    /\ pc = "unwind"
    /\ StopLocked(loc, [jstate EXCEPT ![loc.cur] = "STOPPED"],
                  [jtoken EXCEPT ![loc.cur] = NoToken], TRUE, "STOPPED", TRUE)
    /\ NoFault /\ SameServices /\ UNCHANGED <<memory, transfer>>

(* stopStartedAfterFailure: a stage that never became ready and is not seen  *)
(* live under this claim is only struck from the journal; a stage that could *)
(* not be observed (a fault of its own, "unobserved") is struck too.  Then   *)
(* everything else is stopped.                                               *)
UnwindStage ==
    /\ pc = "unwind"
    /\ LET c == loc.cur
           seenLive == owner[c] = OwnerOf(c) /\ Live(native[c]) IN
       \/ /\ c \in loc.started \/ seenLive
          /\ NoFault /\ StopLocked(loc, jstate, jtoken, TRUE, "STOPPED", TRUE)
       \/ /\ c \notin loc.started
          /\ (~seenLive /\ NoFault) \/ Fault("unobserved")
          /\ StopLocked(loc, [jstate EXCEPT ![c] = "STOPPED"],
                        [jtoken EXCEPT ![c] = NoToken], TRUE, "STOPPED", TRUE)
    /\ SameServices /\ UNCHANGED <<memory, transfer>>

(* forceOwned on a client owner the journal still holds, before a client     *)
(* failure is published as relaunchable (isolateClientFailure) or a client   *)
(* is launched again (relaunchClient).                                       *)
DrainClient ==
    /\ pc \in {"isolate", "drain"}
    /\ LET o == OwnerOf("CLIENT")
           drained ==
             IF pc = "isolate" THEN Goto("isolated", loc) /\ UNCHANGED journal
             ELSE /\ Goto("stage", loc)
                  /\ IF o = NoOwner THEN UNCHANGED journal
                     ELSE Publish(phase, clean, [jstate EXCEPT !["CLIENT"] = "STOPPED"],
                                  [jtoken EXCEPT !["CLIENT"] = NoToken]) IN
       \/ /\ o = NoOwner \/ native["CLIENT"] = "STOPPED"
          /\ SameServices /\ NoFault /\ drained
       \/ /\ o # NoOwner /\ native["CLIENT"] # "STOPPED" /\ owner["CLIENT"] = o
          /\ ServiceKill("CLIENT") /\ NoFault /\ drained
       \/ /\ o # NoOwner
          /\ \/ Fault("kill") \/ Fault("observe")
             \/ native["CLIENT"] # "STOPPED" /\ owner["CLIENT"] # o /\ NoFault
          /\ SameServices /\ Fail
    /\ UNCHANGED <<memory, transfer>>

(* Mutant: the failure is recorded without its phase. *)
IsolateRecordedKeepsPhase ==
    /\ pc = "isolated"
    /\ Publish(phase, clean, [jstate EXCEPT !["CLIENT"] = "FAILED"],
               [jtoken EXCEPT !["CLIENT"] = NoToken])
    /\ Finish
    /\ NoFault /\ SameServices /\ UNCHANGED <<memory, transfer>>

(* Mutant: the drained client keeps its token. *)
IsolateRecordedKeepsToken ==
    /\ pc = "isolated"
    /\ Publish("CLIENT_FAILED", clean, [jstate EXCEPT !["CLIENT"] = "FAILED"], jtoken)
    /\ Finish
    /\ NoFault /\ SameServices /\ UNCHANGED <<memory, transfer>>

IsolateRecorded ==
    /\ pc = "isolated"
    /\ Publish("CLIENT_FAILED", clean, [jstate EXCEPT !["CLIENT"] = "FAILED"],
               [jtoken EXCEPT !["CLIENT"] = NoToken])
    /\ Finish
    /\ NoFault /\ SameServices /\ UNCHANGED <<memory, transfer>>

(* checkNotNull(sessionId) throws, and nothing happens, without a session. *)
RelaunchOffered ==
    /\ phase \in {"CLIENT_FAILED", "WORLD_READY"} /\ session # NoSession
    /\ mode # "LAN_JOIN" => \A c \in Servers : jstate[c] = "READY"

(* Mutant: the stranded pause flag is not cleared. *)
RelaunchClientPaused ==
    /\ Begin("relaunch") /\ RelaunchOffered
    /\ Goto("drain", [Locals("relaunch") EXCEPT !.cur = "CLIENT", !.mode = mode, !.client = TRUE,
                                                !.prior = Prior])
    /\ NoFault /\ SameServices /\ UNCHANGED <<journal, memory, transfer>>

(* relaunchClient; the world's pause flag is cleared best effort first. *)
RelaunchClient ==
    /\ Begin("relaunch") /\ RelaunchOffered
    /\ \/ /\ paused' = (paused /\ ~WorldServes(OwnerOf("WORLD")))
          /\ NoFault
       \/ paused /\ paused' = paused /\ Fault("resume")
    /\ Goto("drain", [Locals("relaunch") EXCEPT !.cur = "CLIENT", !.mode = mode, !.client = TRUE,
                                                !.prior = Prior])
    /\ UNCHANGED <<journal, services, unsaved, lost, memory, transfer>>

-----------------------------------------------------------------------------
(* setCompanionMode: the new phase is journalled first and rolled back when  *)
(* the call fails.  loc.graceful holds the flag, loc.final the old phase.    *)

Companion(enabled) ==
    /\ Begin("companion")
    /\ IF enabled THEN phase = "RUNNING" ELSE phase \in {"PAUSED", "CLIENT_FAILED"}
    /\ OwnerOf("WORLD") # NoOwner
    /\ Publish(IF enabled THEN "PAUSED" ELSE IF phase = "CLIENT_FAILED" THEN phase ELSE "RUNNING",
               FALSE, jstate, jtoken)
    /\ Goto("companion", [Locals("companion") EXCEPT !.graceful = enabled, !.final = phase,
                                                     !.claim = OwnerOf("WORLD")])
    /\ NoFault /\ SameServices /\ UNCHANGED <<memory, transfer>>

(* The world's service sets the native flag and only then writes its        *)
(* lifecycle file: a call that fails may have failed before or after the    *)
(* flag changed.                                                             *)
CompanionEnds ==
    /\ pc = "companion"
    /\ LET ok == WorldServes(loc.claim) IN
       \/ ok /\ NoFault /\ paused' = loc.graceful /\ Finish
       \/ ~ok /\ NoFault /\ UNCHANGED paused /\ Goto("rollback", loc)
       \/ /\ ok /\ Fault("companion")
          /\ paused' \in {paused, loc.graceful} /\ Goto("rollback", loc)
    /\ UNCHANGED <<journal, services, unsaved, lost, memory, transfer>>

CompanionRolledBack ==
    /\ pc = "rollback"
    /\ Publish(loc.final, clean, jstate, jtoken) /\ Finish
    /\ NoFault /\ SameServices /\ UNCHANGED <<memory, transfer>>

-----------------------------------------------------------------------------
(* consentedForceStopOrphanStack: the player's "Force stop realm".           *)

StaleDatabaseClaim == owner["DATABASE"] \notin {NoOwner, OwnerOf("DATABASE")}

ConsentBegin ==
    /\ Begin("consent")
    /\ phase = "STOPPED" /\ clean => StaleDatabaseClaim
    /\ Publish("STOPPING", FALSE, jstate, jtoken)
    /\ Goto("orphans", [Locals("consent") EXCEPT !.cur = "CLIENT", !.prior = Prior])
    /\ NoFault /\ SameServices /\ UNCHANGED <<memory, transfer>>

ConsentAdvance ==
    /\ Goto(IF loc.cur = "REALM" THEN "orphanDb" ELSE "orphans",
            [loc EXCEPT !.cur = StopNext[loc.cur]])
    /\ UNCHANGED journal

(* Each running component is killed under the owner it reports itself; an    *)
(* ownerless one is adopted first, under a new session when none is open.    *)
ConsentStop ==
    /\ pc = "orphans"
    /\ LET c == loc.cur IN
       \/ /\ native[c] = "STOPPED" /\ ConsentAdvance
          /\ NoFault /\ SameServices /\ UNCHANGED minted
       \/ /\ native[c] # "STOPPED" /\ owner[c] # NoOwner
          /\ ServiceKill(c) /\ ConsentAdvance /\ NoFault /\ UNCHANGED minted
       \/ /\ Orphan(c)
          /\ \E s \in IF loc.prior.session = NoSession THEN FreshSessions ELSE {loc.prior.session} :
               /\ AdoptAndKill(c, s, ConsentAdvance)
               /\ minted' = IF loc.prior.session = NoSession THEN (minted \cap SessionsInUse) \cup {s}
                            ELSE minted
       \/ /\ Fault("observe") \/ (native[c] # "STOPPED" /\ owner[c] # NoOwner /\ Fault("kill"))
          /\ Fail /\ SameServices /\ UNCHANGED minted
    /\ UNCHANGED <<ticks, transfer>>

(* Committed dirty on purpose: the next start must recover the database. *)
ConsentCommit == PublishFresh("STOPPED", FALSE, NoSession, "LOCAL") /\ Finish

ConsentDatabase ==
    /\ pc = "orphanDb"
    /\ LET db == "DATABASE" IN
       \/ ~StaleDatabaseClaim /\ ConsentCommit /\ NoFault /\ SameServices
       \/ StaleDatabaseClaim /\ ServiceStop(db) /\ NoFault /\ ConsentCommit
       \/ /\ StaleDatabaseClaim /\ ~Live(native[db]) /\ Fault("stop")
          /\ ServiceKill(db) /\ ConsentCommit
       \/ /\ \/ StaleDatabaseClaim /\ Live(native[db]) /\ Fault("stop")
             \/ StaleDatabaseClaim /\ ~Live(native[db]) /\ Fault("kill")
             \/ Fault("observe")
          /\ Fail /\ SameServices
    /\ UNCHANGED <<memory, transfer>>

-----------------------------------------------------------------------------
(* One pass of RealmService.monitorComponents with the supervisor calls it   *)
(* makes: selfHealOrphan and componentFailed.  Any start command, a refused  *)
(* one included, claims the process generation, so a pass is possible in     *)
(* every monitored phase.                                                    *)

Rank == [DATABASE |-> 1, REALM |-> 2, WORLD |-> 3, CLIENT |-> 4]
Monitored == {c \in Component : jstate[c] = "READY"}
(* Mutant: only the claim is probed, not the runtime. *)
ClaimMatches(c) == owner[c] # NoOwner /\ owner[c].token = jtoken[c]
Healthy(c) == /\ native[c] = "READY" /\ owner[c] # NoOwner
              /\ owner[c].token = jtoken[c]
(* Mutant: one sighting too many is waited for. *)
RipeLate(c) == Orphan(c) /\ ticks[c] >= GraceTicks
Ripe(c) == Orphan(c) /\ ticks[c] + 1 >= GraceTicks
Failing(c) == ~Orphan(c) /\ ~Healthy(c)

(* The pass reached component c: nothing before it ended the pass. *)
Reaches(c) ==
    /\ Begin("monitor") /\ phase \in MonitoredPhases /\ c \in Monitored
    /\ \A d \in Monitored : Rank[d] < Rank[c] => ~Ripe(d) /\ ~Failing(d)

(* Orphan sightings on the way to c count as grace ticks. *)
TicksBefore(c) == [d \in Component |->
    IF d \in Monitored /\ Orphan(d) /\ Rank[d] < Rank[c] THEN ticks[d] + 1 ELSE ticks[d]]

MonitorTick ==
    /\ Begin("monitor") /\ phase \in MonitoredPhases
    /\ \A c \in Monitored : ~Ripe(c) /\ ~Failing(c)
    /\ \E c \in Monitored : Orphan(c)
    /\ ticks' = [d \in Component |-> IF d \in Monitored /\ Orphan(d) THEN ticks[d] + 1 ELSE ticks[d]]
    /\ NoFault /\ SameServices /\ UNCHANGED <<journal, pc, loc, minted, transfer>>

MonitorFailed(c) ==
    /\ Reaches(c)
    /\ (Failing(c) /\ NoFault) \/ Fault("observe")
    /\ ticks' = TicksBefore(c)
    /\ IF c = "CLIENT"
       THEN Goto("isolate", [Locals("monitor") EXCEPT !.cur = c]) /\ UNCHANGED journal
       ELSE StopLocked(Locals("monitor"), [jstate EXCEPT ![c] = "FAILED"], jtoken,
                       FALSE, "ERROR", TRUE)
    /\ SameServices /\ UNCHANGED <<minted, transfer>>

MonitorHeal(c) ==
    /\ Reaches(c) /\ Ripe(c) /\ ~clean /\ session # NoSession
    /\ ticks' = [TicksBefore(c) EXCEPT ![c] = 0]
    /\ IF c = "DATABASE"
       THEN RecoverBegin(Locals("monitor")) /\ NoFault /\ SameServices
       ELSE AdoptAndKill(c, session,
                StopLocked(Locals("monitor"), [jstate EXCEPT ![c] = "STOPPED"],
                           [jtoken EXCEPT ![c] = NoToken], FALSE, "ERROR", TRUE))
    /\ UNCHANGED <<minted, transfer>>

-----------------------------------------------------------------------------
(* A journal write that throws escapes the operation; launchOperation then   *)
(* calls unexpectedOperationFailure, whose own write may throw too.  The     *)
(* first write of an operation (setCompanionMode's included) throws at       *)
(* "idle": the operation has done nothing yet.                               *)

JournalWriteFails ==
    /\ pc \in {"idle", "preflight", "stage", "project", "stageReady", "unwind", "stop",
               "stopped", "isolated", "rollback"}
    /\ pc = "idle" => "start" \in Verbs
    /\ Fault("journal")
    /\ Goto("escaped", NoLoc)
    /\ SameServices /\ UNCHANGED <<journal, memory, transfer>>

GenerationMayBeActive ==
    \/ ~clean \/ session # NoSession \/ phase \notin Startable
    \/ \E c \in Component : jstate[c] # "STOPPED"

UnexpectedOperationFailure ==
    /\ pc = "escaped" /\ Finish
    /\ \/ /\ GenerationMayBeActive /\ NoFault
          /\ Publish("ERROR", FALSE, jstate, jtoken)
       \/ /\ ~GenerationMayBeActive /\ NoFault
          /\ PublishFresh("ERROR", TRUE, NoSession, mode)
       \/ Fault("journal") /\ UNCHANGED journal
    /\ SameServices /\ UNCHANGED <<memory, transfer>>

-----------------------------------------------------------------------------
(* characterTransfer takes no lock: it checks the phase, runs the transfer,  *)
(* then reads the snapshot and writes a copy of it back.  Transfers share    *)
(* the budget of the faults, which bounds how many a behaviour has.          *)

TransferBegin ==
    /\ Fault("transfer") /\ transfer = NoSnapshot
    /\ phase \in {"WORLD_READY", "RUNNING", "CLIENT_FAILED"}
    /\ transfer' = TransferVerb
    /\ SameServices /\ UNCHANGED <<journal, pc, loc, memory>>

TransferRead ==
    /\ transfer = TransferVerb
    /\ transfer' = [phase |-> phase, clean |-> clean, session |-> session, mode |-> mode,
                    jstate |-> jstate, jtoken |-> jtoken]
    /\ NoFault /\ SameServices /\ UNCHANGED <<journal, pc, loc, memory>>

TransferWrite ==
    /\ Captured
    /\ phase' = transfer.phase /\ clean' = transfer.clean /\ session' = transfer.session
    /\ mode' = transfer.mode /\ jstate' = transfer.jstate /\ jtoken' = transfer.jtoken
    /\ transfer' = NoSnapshot
    /\ NoFault /\ SameServices /\ UNCHANGED <<pc, loc, memory>>

-----------------------------------------------------------------------------
(* The environment: the services' own threads, and what may die. *)

Idle == UNCHANGED <<journal, pc, loc, memory, transfer>>

(* The :supervisor process dies: its memory is gone, and with it the lease   *)
(* every service that it owned is linked to.                                 *)
SupervisorCrash ==
    /\ Fault("crash")
    /\ pc' = "idle" /\ loc' = NoLoc /\ minted' = {}
    /\ ticks' = [c \in Component |-> 0] /\ transfer' = NoSnapshot
    /\ doom' = [c \in Component |-> IF owner[c] = NoOwner THEN doom[c] ELSE doom[c] \cup {"lease"}]
    /\ UNCHANGED <<journal, native, owner, world>>

(* ComponentOwnership.ownerDied, then the service's owner-loss thread: world *)
(* and client end by killing their process, the others stop their runtime.  *)
OwnerDied(c) ==
    /\ "lease" \in doom[c]
    /\ Change(c, native[c], NoOwner, (doom[c] \ {"lease"}) \cup {"loss"})
    /\ Idle /\ NoFault /\ UNCHANGED <<unsaved, lost>>

LossTeardown(c) ==
    /\ "loss" \in doom[c]
    /\ LET spent == doom[c] \ {"loss"} IN
       \/ c \in {"WORLD", "CLIENT"} /\ Recycle(c) /\ NoFault
       \/ /\ c \in {"REALM", "DATABASE"} /\ NoFault
          /\ SetService(c, IF c = "DATABASE" /\ ~Live(native[c]) THEN native[c] ELSE "STOPPED",
                        owner[c], spent)
       \/ c # "WORLD" /\ Fault("loss") /\ SetService(c, native[c], owner[c], spent)
    /\ Idle

(* WorldRuntimeService.retireCleanProcess, 250 ms after a clean stop. *)
RetireWorld ==
    /\ "retire" \in doom["WORLD"] /\ Recycle("WORLD") /\ Idle /\ NoFault

(* A boot that outlived its timeout ends by itself. *)
BootSettles(c) ==
    /\ native[c] = "STARTING"
    /\ \E n \in {"READY", "FAILED"} : SetService(c, n, owner[c], doom[c])
    /\ Idle /\ NoFault

(* A native runtime ends by itself, a client cleanly too (the player quits), *)
(* or its whole process dies.                                                *)
NativeDies(c) ==
    /\ Live(native[c]) /\ Fault("die")
    /\ \/ SetService(c, "FAILED", owner[c], doom[c]) \/ Recycle(c)
       \/ c = "CLIENT" /\ SetService(c, "EXITED", owner[c], doom[c])
    /\ Idle

-----------------------------------------------------------------------------
RecoverStep ==
    \/ RecoverSkip \/ RecoverObserveFails \/ RecoverOrphan \/ RecoverKill
    \/ RecoverUnverified \/ RecoverGrace \/ RecoverHeal \/ RecoverDatabase

StopStep ==
    StopSkip \/ SaveWorld \/ StopOwned \/ ForceOwned \/ StopRecorded \/ StopCommit

StartStep ==
    \/ PreflightEnds \/ AcceptSession \/ StageRequest \/ BackendStart
    \/ RetireFailedNative \/ ReclaimDatabase \/ StageReady \/ ProjectAdvertisement
    \/ UnwindStage \/ DrainClient \/ IsolateRecorded

CompanionStep == CompanionEnds \/ CompanionRolledBack

(* Steps of an operation that has begun. *)
OperationStep ==
    \/ RecoverStep \/ StopStep \/ StartStep \/ CompanionStep
    \/ ConsentStop \/ ConsentDatabase \/ UnexpectedOperationFailure

(* Operations the user or a binder call begins. *)
Request ==
    \/ \E m \in Mode, client \in BOOLEAN : Start(m, client)
    \/ \E m \in Mode : PreflightVerb(m)
    \/ Recover \/ RelaunchClient \/ ConsentBegin \/ TransferBegin
    \/ \E b \in BOOLEAN : Stop(b) \/ Companion(b)

Monitor == MonitorTick \/ \E c \in Component : MonitorFailed(c) \/ MonitorHeal(c)

ServiceStep ==
    RetireWorld \/ \E c \in Component : OwnerDied(c) \/ LossTeardown(c) \/ BootSettles(c)

Next ==
    \/ Request \/ OperationStep \/ Monitor
    \/ TransferRead \/ TransferWrite \/ JournalWriteFails
    \/ ServiceStep \/ SupervisorCrash \/ \E c \in Component : NativeDies(c)

(* Every backend call is bounded by a timeout (RuntimeTimeouts) and runs on  *)
(* a coroutine dispatcher; the services' threads run on their own.           *)
Spec == /\ Init /\ [][Next]_vars
        /\ WF_vars(OperationStep)
        /\ \A c \in Component : WF_vars(OwnerDied(c)) /\ WF_vars(LossTeardown(c))
                               /\ WF_vars(BootSettles(c))
        /\ WF_vars(RetireWorld)

(* While the supervisor process lives, the monitor loop ticks every second. *)
MonitoredSpec == Spec /\ WF_vars(Monitor)

-----------------------------------------------------------------------------
(* Types *)

Cursors == Component \cup {"none", "done"}
Claims == Owner \cup {NoOwner}
Tokened == [Component -> Tokens \cup {NoToken}]
Lifecycles == [Component -> Lifecycle]
Priors == [session : Sessions \cup {NoSession}, mode : Mode, token : Tokened]
Locs == [verb : Verb, cur : Cursors, mode : Mode,
         client : BOOLEAN, graceful : BOOLEAN, final : Phase, preserve : BOOLEAN,
         durable : BOOLEAN, live : BOOLEAN, retried : BOOLEAN, seen : 0..GraceTicks,
         started : SUBSET Component, claim : Claims, prior : Priors]
Snapshot == [phase : Phase, clean : BOOLEAN, session : Sessions \cup {NoSession},
             mode : Mode, jstate : Lifecycles, jtoken : Tokened]
(* The points of an operation at which it works on one component. *)
AtComponent == {"stage", "start", "reclaim", "retire", "stageReady", "project", "unwind",
                "drain", "force", "stopped", "grace", "orphans", "orphanDb"}

JournalOK ==
    /\ phase \in Phase /\ clean \in BOOLEAN /\ session \in Sessions \cup {NoSession}
    /\ mode \in Mode /\ jstate \in Lifecycles /\ jtoken \in Tokened
ServicesOK ==
    /\ native \in [Component -> Native]
    /\ owner \in [Component -> Claims]
    /\ doom \in [Component -> SUBSET Doom]
OperationOK == pc \in PC /\ loc \in Locs /\ (pc \in AtComponent => loc.cur \in Component)
MemoryOK ==
    /\ minted \subseteq Sessions /\ ticks \in [Component -> 0..(GraceTicks - 1)]
    /\ transfer \in Snapshot \cup {NoSnapshot, TransferVerb}
WorldOK == paused \in BOOLEAN /\ unsaved \in BOOLEAN /\ lost \in BOOLEAN

(* Every variable stays in its type; in particular a claim is either absent  *)
(* or a whole (session, token) pair, an operation that works on a component  *)
(* always has one, and grace ticks stay under OrphanSelfHealPolicy's bound.  *)
TypeOK ==
    JournalOK /\ ServicesOK /\ OperationOK /\ MemoryOK /\ WorldOK /\ faults \in 0..MaxFaults

-----------------------------------------------------------------------------
(* Properties *)

(* A supervisor step, as opposed to a step of a service or of the transfer. *)
Acts == <<pc, loc>>' # <<pc, loc>>

(* dirtyRecoveryNeverKillsAnUnverifiedOwner: recovery, stop, start and the   *)
(* monitor leave a live service alone unless it is ownerless or owned by a   *)
(* claim of the journal, as it is now or as the operation read it; only the  *)
(* consented verb may do more.  The engine-ordered shutdown of               *)
(* recoverDatabase is the one exception.                                     *)
Verified(c) == {NoOwner, OwnerOf(c), PriorOwner(c), loc.claim}
EngineShutdown(c) == c = "DATABASE" /\ pc = "recover" /\ loc.cur = "done"
NeverKillsUnverifiedOwner ==
    [][\A c \in Component :
         Acts /\ loc.verb # "consent" /\ ~EngineShutdown(c) /\ Live(native[c])
              /\ owner[c] \notin Verified(c)
         => native'[c] = native[c] /\ owner'[c] = owner[c]]_vars

(* A clean journal at rest means no native runtime is up: no start may skip  *)
(* recovery while an earlier generation still runs.                          *)
CleanMeansAtRest ==
    clean /\ pc = "idle" => \A c \in Component : ~Live(native[c])

(* A clean journal names no claim and no running component and is in a phase *)
(* a start accepts, whatever wrote it: start's "already active" guard, which *)
(* comes after the recovery of a dirty journal, never refuses anything.      *)
CleanHoldsNoClaim ==
    clean => phase \in Startable /\ jtoken = Unowned /\ jstate = Stopped

(* STOP_ORDER: the supervisor takes an owned component down only when        *)
(* everything that depends on it is down: client, then world, then realm,    *)
(* then the database (killing it earlier loses the world's last writes).     *)
Dependents == [CLIENT |-> {}, WORLD |-> {"CLIENT"}, REALM |-> {"WORLD"},
               DATABASE |-> {"WORLD", "REALM"}]
TeardownOrder ==
    [][\A c \in Component :
         Acts /\ owner[c] # NoOwner /\ Live(native[c]) /\ ~Live(native'[c])
         => \A d \in Dependents[c] : ~Live(native[d])]_vars

(* Sessions never meet: a session is opened only by a start whose journal is *)
(* clean with nothing up, services boot only under it and in the order of    *)
(* LaunchPlan, and a journal is committed clean only once everything is down *)
(* (recoverDatabase shuts the engine down in the commit itself).             *)
StartedAfter == [DATABASE |-> {"REALM", "WORLD", "CLIENT"}, REALM |-> {"WORLD", "CLIENT"},
                 WORLD |-> {"CLIENT"}, CLIENT |-> {}]
Up == {c \in Component : Live(native[c])}
Session == INSTANCE SessionLifecycle
           WITH Components <- Component, Later <- StartedAfter, Engine <- {"DATABASE"},
                sealed <- clean, open <- session, up <- Up
SessionsNeverMeet == Session!Lifecycle

(* A phase that tells the user the realm is up is backed by the journal's    *)
(* server records, and RUNNING by a ready client.                            *)
LivePhaseIsBacked ==
    pc = "idle" /\ phase \in MonitoredPhases =>
        /\ mode # "LAN_JOIN" => \A c \in Servers : jstate[c] = "READY" /\ jtoken[c] # NoToken
        /\ phase = "RUNNING" => jstate["CLIENT"] = "READY" /\ jtoken["CLIENT"] # NoToken

(* Wherever relaunchClient is offered the client's claim is already drained: *)
(* its own drain of a retained owner never runs.                             *)
RelaunchFindsNoClaim ==
    pc = "idle" /\ phase \in {"WORLD_READY", "CLIENT_FAILED"} => OwnerOf("CLIENT") = NoOwner

(* A stop of a live session that is about to commit clean has lost no world  *)
(* progress: "world-save-acknowledged" or nothing to save.                   *)
SavedBeforeClean ==
    pc = "stop" /\ loc.cur = "done" /\ loc.durable /\ loc.live /\ loc.verb = "stop"
        => ~lost

(* A start or a relaunch that ends in RUNNING leaves no paused world in the  *)
(* hands of the journalled owner: a client that failed in companion mode     *)
(* strands the pause flag, and relaunchClient clears it "so the resumed      *)
(* world actually ticks".                                                    *)
LaunchedWorldTicks ==
    [][pc = "stageReady" /\ pc' = "idle" /\ phase' = "RUNNING"
       => ~(paused' /\ owner'["WORLD"] = OwnerOf("WORLD"))]_vars

(* RUNNING means the world ticks: after a companion call that failed, "the   *)
(* world pause flag was never flipped", and RUNNING is journalled again.     *)
RunningWorldTicks ==
    phase = "RUNNING" /\ pc = "idle" => ~paused

(* A live phase does not outlive the world it shows: once the world is not   *)
(* ready any more, the monitor or a request ends the phase, unless a user    *)
(* who toggles companion mode for ever keeps the reservation from the        *)
(* monitor's tryReserve.                                                     *)
DeadWorldIsNoticed ==
    \/ []<>(pc = "companion")
    \/ phase \in MonitoredPhases /\ mode # "LAN_JOIN" /\ native["WORLD"] # "READY"
         ~> phase \notin MonitoredPhases

(* Every accepted operation ends and gives the lock back: no lane waits for  *)
(* itself or retries for ever.                                               *)
OperationsEnd == pc # "idle" ~> pc = "idle"

=============================================================================
