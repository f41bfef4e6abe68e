------------------------------ MODULE Admission ------------------------------
(***************************************************************************)
(* The bot admission of the :world process: WorldRuntimeService's verbs    *)
(* (one at a time, under the transition gate), the admission monitor       *)
(* thread, the epoch the two share, and, in native/realm-runtime, the      *)
(* target fence with the world worker and the world tick that consumes it. *)
(*                                                                         *)
(* Three threads interleave: "gate" (the Binder thread that holds          *)
(* transitionGate), "monitor" (bot-admission) and the world.  A wait with  *)
(* a timeout may always end by its timeout.                                *)
(***************************************************************************)
EXTENDS BotTargetFence

CONSTANTS
    BotMin, BotMax,     \* MinRandomBots and MaxRandomBots of the staged profile
    InitialTarget,      \* PocketRealm.BotTarget: the profile's initial target
    Requests,           \* targets the public surface may ask for
    MaxEpoch            \* bound: epoch values a behaviour may use

ASSUME AdmissionAssumption ==
    /\ BotMin \in Nat /\ BotMax \in Nat /\ InitialTarget \in BotMin..BotMax
    /\ Requests \subseteq Nat
    /\ MaxEpoch \in Nat

VARIABLES
    wstate,     \* m_state of the native world runtime
    worker,     \* run() is executing
    armed,      \* m_bot_enabled
    everReady,  \* m_ever_ready
    effective,  \* m_effective_bot_target
    paused,     \* s_worldPaused
    epoch,      \* AdmissionMonitorEpoch.value
    inEpoch,    \* the monitor thread is inside the epoch's lock
    generation, \* admissionGeneration: 0 when no monitor is registered
    pending,    \* pendingAdmissionTarget
    lease,      \* normalDataLease is held
    policy,     \* BotAdmissionController.effectiveTarget
    cpc, ctarget, cgen, cloaded, cseq, crc,   \* the set_bot_target call of each thread
    gpc, op, arg,                             \* the Binder thread under transitionGate
    mpc, mgen, retry,                         \* the admission monitor thread
    issued,     \* the newest generation begun
    writer      \* the generation whose request was applied last, or CONFIGURED

worldVars == <<wstate, worker, armed, everReady>>
epochVars == <<epoch, inEpoch>>
serviceVars == <<generation, pending, lease>>
callVars == <<cpc, ctarget, cgen, cloaded, cseq, crc>>
gateVars == <<gpc, op, arg>>
monitorVars == <<mpc, mgen, retry>>
historyVars == <<issued, writer>>
admissionVars == <<fenceVars, worldVars, effective, paused, epochVars, serviceVars,
                   policy, callVars, gateVars, monitorVars, historyVars>>

NoTarget == -1
CONFIGURED == -1
Threads == {"gate", "monitor"}
Targets == BotMin..BotMax

AdmissionInit ==
    /\ FenceInit
    /\ wstate = "STOPPED" /\ worker = FALSE /\ armed = FALSE /\ everReady = FALSE
    /\ effective = 0 /\ paused = FALSE
    /\ epoch = 0 /\ inEpoch = FALSE
    /\ generation = 0 /\ pending = NoTarget /\ lease = FALSE
    /\ policy = NoTarget
    /\ cpc = [a \in Threads |-> "none"] /\ crc = [a \in Threads |-> "none"]
    /\ ctarget = [a \in Threads |-> NoTarget] /\ cloaded = [a \in Threads |-> NoTarget]
    /\ cgen = [a \in Threads |-> 0] /\ cseq = [a \in Threads |-> 0]
    /\ gpc = "idle" /\ op = "none" /\ arg = 0
    /\ mpc = "dead" /\ mgen = 0 /\ retry = FALSE
    /\ issued = 0 /\ writer = CONFIGURED

-----------------------------------------------------------------------------
(* The native call set_bot_target, made by either thread.                  *)

StartCall(a, t, g) ==
    /\ cpc' = [cpc EXCEPT ![a] = "check"]
    /\ ctarget' = [ctarget EXCEPT ![a] = t]
    /\ cgen' = [cgen EXCEPT ![a] = g]
    /\ UNCHANGED <<cloaded, cseq, crc>>

Answer(a, rc) ==
    /\ cpc' = [cpc EXCEPT ![a] = "done"]
    /\ crc' = [crc EXCEPT ![a] = rc]
    /\ UNCHANGED <<ctarget, cgen, cloaded, cseq>>

(* The caller has the answer; nothing of the call is kept.                 *)
EndCall(a) ==
    /\ cpc' = [cpc EXCEPT ![a] = "none"]
    /\ crc' = [crc EXCEPT ![a] = "none"]
    /\ ctarget' = [ctarget EXCEPT ![a] = NoTarget]
    /\ cloaded' = [cloaded EXCEPT ![a] = NoTarget]
    /\ cgen' = [cgen EXCEPT ![a] = 0]
    /\ cseq' = [cseq EXCEPT ![a] = 0]

(* The state, the lane and the bounds are checked, and the effective       *)
(* target is read, all before the fence's mutex is taken.                  *)
CheckTarget(a) ==
    /\ cpc[a] = "check"
    /\ \/ /\ wstate = "READY" /\ armed /\ ctarget[a] \in Targets
          /\ cpc' = [cpc EXCEPT ![a] = "queue"]
          /\ cloaded' = [cloaded EXCEPT ![a] = effective]
          /\ UNCHANGED <<ctarget, cgen, cseq, crc>>
       \/ /\ ~(wstate = "READY" /\ armed /\ ctarget[a] \in Targets)
          /\ Answer(a, "refused")
    /\ UNCHANGED <<fenceVars, worldVars, effective, paused, epochVars, serviceVars,
                   policy, gateVars, monitorVars, historyVars>>

(* The next m_next_sequence: a number held by nobody.                      *)
FreshSequence ==
    CHOOSE s \in 1..5 : s \notin {lastApplied, request.seq, cseq["gate"], cseq["monitor"]}

QueueTarget(a) ==
    /\ cpc[a] = "queue"
    /\ \/ QueueRejects(cgen[a]) /\ Answer(a, "refused")
       \/ QueueFindsEffective(ctarget[a], cgen[a], cloaded[a]) /\ Answer(a, "ok")
       \/ /\ Queue(ctarget[a], cgen[a], cloaded[a], FreshSequence)
          /\ cpc' = [cpc EXCEPT ![a] = "wait"]
          /\ cseq' = [cseq EXCEPT ![a] = FreshSequence]
          /\ UNCHANGED <<ctarget, cgen, cloaded, crc>>
    /\ UNCHANGED <<worldVars, effective, paused, epochVars, serviceVars, policy,
                   gateVars, monitorVars, historyVars>>

(* Mutant: the wait has no timeout and tests its predicate for ever.       *)
AwaitTargetUnbounded(a) ==
    /\ cpc[a] = "wait"
    /\ \/ /\ Applied(cseq[a]) \/ ~ValidGeneration(cgen[a]) \/ request.seq # cseq[a]
          /\ Answer(a, IF Applied(cseq[a]) THEN "ok" ELSE "timeout")
       \/ UNCHANGED callVars
    /\ UNCHANGED <<fenceVars, worldVars, effective, paused, epochVars, serviceVars,
                   policy, gateVars, monitorVars, historyVars>>

(* wait_applied: whether its predicate or the five second timeout ended    *)
(* the wait, the answer is whether its own request was the last applied.   *)
AwaitTarget(a) ==
    /\ cpc[a] = "wait"
    /\ Answer(a, IF Applied(cseq[a]) THEN "ok" ELSE "timeout")
    /\ UNCHANGED <<fenceVars, worldVars, effective, paused, epochVars, serviceVars,
                   policy, gateVars, monitorVars, historyVars>>

-----------------------------------------------------------------------------
(* The world: the worker's run() and cleanup(), and the world thread.      *)

(* run() reaches the bot lane: the configured target is in force and the   *)
(* lane armed; StartNetworkEmbedded then starts the world thread.          *)
WorldArms ==
    /\ worker /\ wstate \in {"STARTING", "STOPPING"} /\ ~armed
    /\ armed' = TRUE
    /\ effective' = InitialTarget
    /\ writer' = CONFIGURED
    /\ UNCHANGED <<fenceVars, wstate, worker, everReady, paused, epochVars, serviceVars,
                   policy, callVars, gateVars, monitorVars, issued>>

WorldReady ==
    /\ worker /\ wstate = "STARTING" /\ armed
    /\ wstate' = "READY" /\ everReady' = TRUE
    /\ UNCHANGED <<fenceVars, worker, armed, effective, paused, epochVars, serviceVars,
                   policy, callVars, gateVars, monitorVars, historyVars>>

(* A leg of the boot fails, or record_tick's watchdog gives the world up.  *)
WorldFails ==
    /\ worker /\ wstate \in {"STARTING", "READY", "STOPPING"}
    /\ wstate' = "FAILED"
    /\ UNCHANGED <<fenceVars, worker, armed, everReady, effective, paused, epochVars,
                   serviceVars, policy, callVars, gateVars, monitorVars, historyVars>>

(* cleanup(): the fence is reset before the world thread is joined.  A     *)
(* world that never reached its loop may keep FAILED, the others record    *)
(* STOPPED.                                                                *)
WorldCleansUp ==
    /\ worker /\ wstate \in {"FAILED", "STOPPING"}
    /\ Reset
    /\ worker' = FALSE
    /\ \/ wstate' = "FAILED" /\ wstate = "FAILED" /\ ~everReady
       \/ wstate' = "STOPPED" /\ (wstate = "STOPPING" \/ armed)
    /\ UNCHANGED <<armed, everReady, effective, paused, epochVars, serviceVars, policy,
                   callVars, gateVars, monitorVars, historyVars>>

(* record_tick's share of a tick; the paused loop does not call it.        *)
WorldTick ==
    /\ worker /\ armed /\ ~paused
    /\ Consume
    /\ effective' = IF Consumes THEN request.target ELSE effective
    /\ writer' = IF Consumes THEN request.gen ELSE writer
    /\ UNCHANGED <<worldVars, paused, epochVars, serviceVars, policy, callVars,
                   gateVars, monitorVars, issued>>

-----------------------------------------------------------------------------
(* The admission monitor thread.                                           *)

Current == mgen = epoch

(* Every test of the epoch takes its lock.                                 *)
MonitorAt(pc) == mpc = pc /\ ~inEpoch

(* A retired monitor leaves wherever it next tests the epoch.              *)
MonitorLeaves ==
    /\ \E pc \in {"loop", "observe", "pend", "enter", "publish"} : MonitorAt(pc)
    /\ ~Current
    /\ mpc' = "dead"
    /\ IF mpc = "publish" THEN EndCall("monitor") ELSE UNCHANGED callVars
    /\ UNCHANGED <<fenceVars, worldVars, effective, paused, epochVars, serviceVars,
                   policy, gateVars, mgen, retry, historyVars>>

(* Mutant: an unacknowledged target is not set again.                      *)
MonitorLoopWithoutRetry ==
    /\ MonitorAt("loop") /\ Current
    /\ mpc' = IF paused \/ ~armed \/ pending # NoTarget THEN "sleep" ELSE "observe"
    /\ retry' = FALSE
    /\ UNCHANGED <<fenceVars, worldVars, effective, paused, epochVars, serviceVars,
                   policy, callVars, gateVars, mgen, historyVars>>

(* The top of the loop: skip a paused world, skip a world without its bot  *)
(* lane, retry an unacknowledged target before anything else.              *)
MonitorLoop ==
    /\ MonitorAt("loop") /\ Current
    /\ mpc' = IF paused \/ ~armed THEN "sleep"
              ELSE IF pending # NoTarget THEN "enter" ELSE "observe"
    /\ retry' = (pending # NoTarget)
    /\ UNCHANGED <<fenceVars, worldVars, effective, paused, epochVars, serviceVars,
                   policy, callVars, gateVars, mgen, historyVars>>

(* A sample is read, the controller decides, and its state is published;   *)
(* or the sample fails and the pass is over.                               *)
MonitorObserve ==
    /\ MonitorAt("observe") /\ Current
    /\ \/ \E t \in Targets \ {policy} : policy' = t /\ mpc' = "pend"
       \/ mpc' = "sleep" /\ UNCHANGED policy
    /\ UNCHANGED <<fenceVars, worldVars, effective, paused, epochVars, serviceVars,
                   callVars, gateVars, mgen, retry, historyVars>>

(* A changed target is published as pending before it is set.              *)
MonitorPend ==
    /\ MonitorAt("pend") /\ Current
    /\ pending' = policy
    /\ mpc' = "enter" /\ retry' = FALSE
    /\ UNCHANGED <<fenceVars, worldVars, effective, paused, epochVars, generation, lease,
                   policy, callVars, gateVars, mgen, historyVars>>

(* runIfCurrent: the setter runs, native wait included, inside the epoch's *)
(* lock.                                                                   *)
MonitorEnter ==
    /\ MonitorAt("enter") /\ Current
    /\ inEpoch' = TRUE
    /\ StartCall("monitor", pending, mgen)
    /\ mpc' = "set"
    /\ UNCHANGED <<fenceVars, worldVars, effective, paused, epoch, serviceVars, policy,
                   gateVars, mgen, retry, historyVars>>

MonitorExit ==
    /\ mpc = "set" /\ cpc["monitor"] = "done"
    /\ inEpoch' = FALSE
    /\ mpc' = "publish"
    /\ UNCHANGED <<fenceVars, worldVars, effective, paused, epoch, serviceVars, policy,
                   callVars, gateVars, mgen, retry, historyVars>>

(* Mutant: a target is no longer pending whatever the native side said.    *)
MonitorPublishAny ==
    /\ MonitorAt("publish") /\ Current
    /\ pending' = NoTarget
    /\ mpc' = IF crc["monitor"] = "ok" /\ retry THEN "observe" ELSE "sleep"
    /\ EndCall("monitor")
    /\ UNCHANGED <<fenceVars, worldVars, effective, paused, epochVars, generation, lease,
                   policy, gateVars, mgen, retry, historyVars>>

(* The verdict: an acknowledged target is no longer pending; after an      *)
(* acknowledged retry the pass goes on to the policy.                      *)
MonitorPublish ==
    /\ MonitorAt("publish") /\ Current
    /\ pending' = IF crc["monitor"] = "ok" THEN NoTarget ELSE pending
    /\ mpc' = IF crc["monitor"] = "ok" /\ retry THEN "observe" ELSE "sleep"
    /\ EndCall("monitor")
    /\ UNCHANGED <<fenceVars, worldVars, effective, paused, epochVars, generation, lease,
                   policy, gateVars, mgen, retry, historyVars>>

(* The interval passes; an interrupt only brings the loop's test forward.  *)
MonitorWakes ==
    /\ mpc = "sleep"
    /\ mpc' = "loop"
    /\ UNCHANGED <<fenceVars, worldVars, effective, paused, epochVars, serviceVars,
                   policy, callVars, gateVars, mgen, retry, historyVars>>

-----------------------------------------------------------------------------
(* The verbs, under transitionGate.  arg holds the target asked for, what  *)
(* retiring answered (0 is success) or the generation being registered.    *)

GateIdles == gpc' = "idle" /\ op' = "none" /\ arg' = 0

(* startBotProfile and stop both retire the monitor first.                 *)
GateBeginsVerb(verb) ==
    /\ gpc = "idle" /\ epoch + 3 <= MaxEpoch
    /\ gpc' = "invalidate" /\ op' = verb /\ arg' = 0
    /\ UNCHANGED <<fenceVars, worldVars, effective, paused, epochVars, serviceVars,
                   policy, callVars, monitorVars, historyVars>>

(* setBotTarget is refused while a measured profile is active.             *)
GateSetsTarget(t) ==
    /\ gpc = "idle" /\ generation = 0
    /\ gpc' = "setting" /\ op' = "setBotTarget" /\ arg' = t
    /\ StartCall("gate", t, 0)
    /\ UNCHANGED <<fenceVars, worldVars, effective, paused, epochVars, serviceVars,
                   policy, monitorVars, historyVars>>

GateSetsPaused(p) ==
    /\ gpc = "idle"
    /\ paused' = p
    /\ UNCHANGED <<fenceVars, worldVars, effective, epochVars, serviceVars, policy,
                   callVars, gateVars, monitorVars, historyVars>>

GateAnswersTarget ==
    /\ gpc = "setting" /\ cpc["gate"] = "done"
    /\ GateIdles
    /\ EndCall("gate")
    /\ UNCHANGED <<fenceVars, worldVars, effective, paused, epochVars, serviceVars,
                   policy, monitorVars, historyVars>>

(* Mutant: the epoch moves on and the fence keeps the old generation.      *)
GateInvalidatesEpochOnly ==
    /\ gpc = "invalidate" /\ ~inEpoch
    /\ epoch' = epoch + 1
    /\ gpc' = "join" /\ arg' = 0
    /\ UNCHANGED <<fenceVars, worldVars, effective, paused, inEpoch, serviceVars, policy,
                   callVars, op, monitorVars, historyVars>>

(* epoch.invalidate { retire }: both in one hold of the epoch's lock.      *)
GateInvalidates ==
    /\ gpc = "invalidate" /\ ~inEpoch
    /\ epoch' = epoch + 1
    /\ Retire(generation)
    /\ gpc' = "join"
    /\ arg' = IF generation = 0 \/ RetireOk(generation) THEN 0 ELSE 1
    /\ UNCHANGED <<worldVars, effective, paused, inEpoch, serviceVars, policy, callVars,
                   op, monitorVars, historyVars>>

(* interrupt and join.  A retired monitor that ended is unregistered with  *)
(* everything it published.                                                *)
GateJoined ==
    /\ gpc = "join" /\ mpc = "dead" /\ arg = 0
    /\ generation' = 0 /\ pending' = NoTarget
    /\ gpc' = "stopped"
    /\ UNCHANGED <<fenceVars, worldVars, effective, paused, epochVars, lease, policy,
                   callVars, op, arg, monitorVars, historyVars>>

(* Six seconds pass, or retiring was refused: a start gives up, a stop     *)
(* goes on all the same.                                                   *)
GateJoinFails ==
    /\ gpc = "join" /\ (mpc # "dead" \/ arg # 0)
    /\ IF op = "stop" THEN gpc' = "stopped" /\ UNCHANGED <<op, arg>> ELSE GateIdles
    /\ UNCHANGED <<fenceVars, worldVars, effective, paused, epochVars, serviceVars,
                   policy, callVars, monitorVars, historyVars>>

(* stopNative, up to its wait.                                             *)
GateStopsNative ==
    /\ gpc = "stopped" /\ op = "stop"
    /\ Reset
    /\ wstate' = IF wstate \in {"STOPPED", "FAILED"} THEN wstate ELSE "STOPPING"
    /\ gpc' = "settle"
    /\ UNCHANGED <<worker, armed, everReady, effective, paused, epochVars, serviceVars,
                   policy, callVars, op, arg, monitorVars, historyVars>>

(* The wait ends with STOPPED, which releases the data lease, or times     *)
(* out.                                                                    *)
GateSettles ==
    /\ gpc = "settle"
    /\ lease' = (lease /\ wstate # "STOPPED")
    /\ GateIdles
    /\ UNCHANGED <<fenceVars, worldVars, effective, paused, epochVars, generation,
                   pending, policy, callVars, monitorVars, historyVars>>

(* startNative: every cell is reset and run() is spawned, once the         *)
(* previous worker settled.                                                *)
GateStartsNative ==
    /\ gpc = "stopped" /\ op = "startBotProfile"
    /\ ~lease /\ wstate \in {"STOPPED", "FAILED"} /\ ~everReady /\ ~worker
    /\ Reset
    /\ wstate' = "STARTING" /\ worker' = TRUE /\ armed' = FALSE
    /\ effective' = 0 /\ writer' = CONFIGURED
    /\ gpc' = "verdict"
    /\ UNCHANGED <<everReady, paused, epochVars, serviceVars, policy, callVars, op, arg,
                   monitorVars, issued>>

(* Refused: the data is leased, the world is live, or it was READY once in *)
(* this process, which fails the record.                                   *)
GateStartRefused ==
    /\ gpc = "stopped" /\ op = "startBotProfile"
    /\ lease \/ wstate \notin {"STOPPED", "FAILED"} \/ everReady
    /\ wstate' = IF lease \/ wstate \notin {"STOPPED", "FAILED"} THEN wstate ELSE "FAILED"
    /\ GateIdles
    /\ UNCHANGED <<fenceVars, worker, armed, everReady, effective, paused, epochVars,
                   serviceVars, policy, callVars, monitorVars, historyVars>>

(* The spawn verdict: FAILED refuses; READY, or a boot that is still       *)
(* STARTING at the deadline, is taken as success and keeps the lease.      *)
GateVerdict ==
    /\ gpc = "verdict"
    /\ \/ wstate = "FAILED" /\ GateIdles /\ UNCHANGED lease
       \/ wstate # "FAILED" /\ gpc' = "begin" /\ lease' = TRUE /\ UNCHANGED <<op, arg>>
    /\ UNCHANGED <<fenceVars, worldVars, effective, paused, epochVars, generation,
                   pending, policy, callVars, monitorVars, historyVars>>

(* startAdmissionMonitor: a new epoch value is the monitor's generation.   *)
GateBeginsEpoch ==
    /\ gpc = "begin" /\ ~inEpoch
    /\ epoch' = epoch + 1 /\ issued' = epoch + 1
    /\ gpc' = "register" /\ arg' = epoch + 1
    /\ UNCHANGED <<fenceVars, worldVars, effective, paused, inEpoch, serviceVars, policy,
                   callVars, op, monitorVars, writer>>

RegistersOk == wstate \in {"STARTING", "READY"} /\ BeginOk(arg)

GateRegisters ==
    /\ gpc = "register" /\ RegistersOk
    /\ Begin(arg)
    /\ generation' = arg /\ pending' = NoTarget
    /\ policy' = InitialTarget
    /\ gpc' = "thread"
    /\ UNCHANGED <<worldVars, effective, paused, epochVars, lease, callVars, op, arg,
                   monitorVars, historyVars>>

GateStartsThread ==
    /\ gpc = "thread"
    /\ mpc' = "loop" /\ mgen' = arg /\ retry' = FALSE
    /\ GateIdles
    /\ UNCHANGED <<fenceVars, worldVars, effective, paused, epochVars, serviceVars,
                   policy, callVars, historyVars>>

(* A registration the native side refused, or whose thread did not start,  *)
(* is invalidated and retired.                                             *)
GateAbandons ==
    /\ gpc = "thread" \/ (gpc = "register" /\ ~RegistersOk)
    /\ ~inEpoch
    /\ epoch' = epoch + 1
    /\ Retire(generation)
    /\ generation' = 0
    /\ GateIdles
    /\ UNCHANGED <<worldVars, effective, paused, inEpoch, pending, lease, policy,
                   callVars, monitorVars, historyVars>>

-----------------------------------------------------------------------------

World == WorldArms \/ WorldReady \/ WorldFails \/ WorldCleansUp \/ WorldTick

Monitor ==
    \/ MonitorLeaves \/ MonitorLoop \/ MonitorObserve \/ MonitorPend \/ MonitorEnter
    \/ MonitorExit \/ MonitorPublish \/ MonitorWakes

Call(a) == CheckTarget(a) \/ QueueTarget(a) \/ AwaitTarget(a)

Gate ==
    \/ \E verb \in {"startBotProfile", "stop"} : GateBeginsVerb(verb)
    \/ \E t \in Requests : GateSetsTarget(t)
    \/ \E p \in BOOLEAN : GateSetsPaused(p)

(* What follows once a verb was begun.                                     *)
Verb ==
    \/ GateAnswersTarget \/ GateInvalidates \/ GateJoined \/ GateJoinFails
    \/ GateStopsNative \/ GateSettles \/ GateStartsNative \/ GateStartRefused
    \/ GateVerdict \/ GateBeginsEpoch \/ GateRegisters \/ GateStartsThread
    \/ GateAbandons

AdmissionNext == World \/ Monitor \/ (\E a \in Threads : Call(a)) \/ Gate \/ Verb

(* Every thread that can go on does.  The world loop ticks for as long as  *)
(* it is not paused, and the epoch's lock is free for the ten seconds the  *)
(* monitor sleeps, so a verb that waits for it gets it.                    *)
AdmissionFairness ==
    /\ WF_admissionVars(WorldTick)
    /\ WF_admissionVars(WorldArms \/ WorldReady)
    /\ WF_admissionVars(WorldCleansUp)
    /\ WF_admissionVars(Monitor)
    /\ \A a \in Threads : WF_admissionVars(Call(a))
    /\ WF_admissionVars(Verb)
    /\ SF_admissionVars(GateInvalidates)
    /\ SF_admissionVars(GateBeginsEpoch \/ GateAbandons)

AdmissionSpec == AdmissionInit /\ [][AdmissionNext]_admissionVars /\ AdmissionFairness

-----------------------------------------------------------------------------
(* Properties.                                                             *)

FlagsOK ==
    /\ worker \in BOOLEAN /\ armed \in BOOLEAN /\ everReady \in BOOLEAN
    /\ paused \in BOOLEAN /\ inEpoch \in BOOLEAN /\ lease \in BOOLEAN
    /\ retry \in BOOLEAN

CellsOK ==
    /\ active \in Nat /\ lastApplied \in Nat
    /\ request \in [target : Int, gen : Nat, seq : Nat]
    /\ wstate \in {"STOPPED", "STARTING", "READY", "STOPPING", "FAILED"}
    /\ effective \in Int /\ policy \in Int
    /\ epoch \in Nat /\ generation \in Nat /\ pending \in Int
    /\ cpc \in [Threads -> {"none", "check", "queue", "wait", "done"}]
    /\ ctarget \in [Threads -> Int] /\ cloaded \in [Threads -> Int]
    /\ cgen \in [Threads -> Nat] /\ cseq \in [Threads -> Nat]
    /\ crc \in [Threads -> {"none", "ok", "refused", "timeout"}]
    /\ gpc \in {"idle", "setting", "invalidate", "join", "stopped", "settle",
                "verdict", "begin", "register", "thread"}
    /\ op \in {"none", "startBotProfile", "stop", "setBotTarget"} /\ arg \in Nat
    /\ mpc \in {"dead", "loop", "observe", "pend", "enter", "set", "publish", "sleep"}
    /\ mgen \in Nat /\ issued \in Nat /\ writer \in Int

(* Every cell of the three threads has its type.                           *)
AdmissionTypeOK == FlagsOK /\ CellsOK

(* The generation the service has admitted: the epoch's value, from the    *)
(* begin() that gave it to a monitor until the invalidate() that ends it.  *)
Owner == IF issued = epoch THEN epoch ELSE 0

Ownership == INSTANCE TargetOwnership WITH owner <- Owner

(* "Once this returns, no queued or executing retired target can reach a   *)
(* new run" (stopAdmissionMonitor): the Kotlin epoch, the native fence and *)
(* the world tick together implement TargetOwnership, so every target the  *)
(* tick applies was asked for by the generation admitted at that moment.   *)
TargetsFollowOwnership == Ownership!Ownership

(* "Retry it before policy advances so reported and native targets cannot  *)
(* diverge" (runAdmissionMonitor): between two passes of a current monitor *)
(* with nothing pending, the target in force in the READY world is the one *)
(* the policy decided, and no other request waits in the fence.            *)
ReportedTargetIsNative ==
    mpc \in {"loop", "observe", "sleep"} /\ Current
    /\ wstate = "READY" /\ pending = NoTarget
        => effective = policy /\ ~HasPending

(* The fence never keeps a generation the service no longer has, whatever  *)
(* failed half way in a start or a stop: it would refuse every later begin *)
(* and every public request.                                               *)
FenceFollowsService == active \in {0, generation}

(* A target the policy decided is acknowledged in the end: a request that  *)
(* timed out stays queued and its retry finds it applied, unless the world *)
(* is paused or over or the monitor is retired.                            *)
TargetSettles ==
    pending # NoTarget ~> pending = NoTarget \/ paused \/ ~Current \/ wstate # "READY"

(* No verb waits for ever: not for the epoch's lock, which the monitor     *)
(* holds through a native wait, nor for the monitor's end, nor for a world *)
(* that does not tick.                                                     *)
VerbsEnd == gpc # "idle" ~> gpc = "idle"

=============================================================================
