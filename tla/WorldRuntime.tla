---------------------------- MODULE WorldRuntime ----------------------------
(***************************************************************************)
(* The embedded world server of native/realm-runtime: WorldRuntime's       *)
(* start, stop, save and world_chat (one verb at a time, under the         *)
(* service's transition gate), the worker thread that runs run() and       *)
(* cleanup(), and the world thread of WorldRunnable::run() with its tick   *)
(* hook record_tick.                                                       *)
(*                                                                         *)
(* The three threads share StateRecord, whose transition() validates       *)
(* nothing: a thread that tested the state and then writes it does so in   *)
(* two steps here.  A bounded wait may always end by its deadline.         *)
(***************************************************************************)
EXTENDS Naturals

CONSTANT HardStallFailStreak    \* consecutive slow ticks the watchdog tolerates

ASSUME StreakAssumption == HardStallFailStreak \in Nat \ {0}

VARIABLES
    state,      \* m_state
    everReady,  \* m_ever_ready
    stopFlag,   \* m_stop
    firstTick,  \* m_first_tick_done
    stalls,     \* m_consecutive_hard_stalls
    started,    \* m_started
    joinable,   \* m_worker.joinable()
    dbOpen,     \* the four database pools are open
    stopEvent,  \* World::IsStopped()
    paused,     \* s_worldPaused
    vpc,        \* the verb in progress
    answer,     \* what the last verb answered
    saved,      \* the saveall command: "none", "queued" or "done"
    chatPending, chatDone, chatOk,  \* m_chat_slot
    injected,   \* history: how often the chat line in the slot was drained
    rpc,        \* the worker thread: "none" when no run() executes
    verdict,    \* what run() records when its cleanup is over
    tpc         \* the world thread

recordVars == <<state, everReady, stopFlag, firstTick, stalls, started, joinable>>
coreVars == <<dbOpen, stopEvent, paused>>
chatVars == <<chatPending, chatDone, chatOk, injected>>
verbVars == <<vpc, answer, saved>>
workerVars == <<rpc, verdict>>
worldVars == <<recordVars, coreVars, verbVars, chatVars, workerVars, tpc>>

Settled == {"STOPPED", "FAILED"}

MaxInjected == 2        \* the history counter tells none, one and more apart

Init ==
    /\ state = "STOPPED" /\ everReady = FALSE /\ stopFlag = FALSE
    /\ firstTick = FALSE /\ stalls = 0 /\ started = FALSE /\ joinable = FALSE
    /\ dbOpen = FALSE /\ stopEvent = FALSE /\ paused = FALSE
    /\ vpc = "idle" /\ answer = "none" /\ saved = "none"
    /\ chatPending = FALSE /\ chatDone = FALSE /\ chatOk = FALSE /\ injected = 0
    /\ rpc = "none" /\ verdict = "none"
    /\ tpc = "none"

-----------------------------------------------------------------------------
(* The verbs.                                                              *)

Returns(a) == vpc' = "idle" /\ answer' = a /\ UNCHANGED saved

GoesTo(pc) == vpc' = pc /\ answer' = "none" /\ UNCHANGED saved

(* reset_chat_injection: a waiter is woken with a refusal.                 *)
ResetChat ==
    chatPending' = FALSE /\ chatDone' = TRUE /\ chatOk' = FALSE /\ UNCHANGED injected

(* start() on a live world; and on a process whose world was READY once,   *)
(* which fails the record.                                                 *)
StartRefused ==
    /\ vpc = "idle" /\ (state \notin Settled \/ everReady)
    /\ state' = IF state \in Settled THEN "FAILED" ELSE state
    /\ Returns("refused")
    /\ UNCHANGED <<everReady, stopFlag, firstTick, stalls, started, joinable,
                   coreVars, chatVars, workerVars, tpc>>

StartEnters ==
    /\ vpc = "idle" /\ state \in Settled /\ ~everReady
    /\ GoesTo(IF joinable THEN "presettle" ELSE "spawn")
    /\ UNCHANGED <<recordVars, coreVars, chatVars, workerVars, tpc>>

(* Bounded settle or detach of the previous worker: STOPPED is its last    *)
(* act, so the join ends; FAILED at the deadline detaches it.              *)
StartSettles ==
    /\ vpc = "presettle"
    /\ state = "STOPPED" => rpc = "none"
    /\ joinable' = FALSE
    /\ GoesTo("spawn")
    /\ UNCHANGED <<state, everReady, stopFlag, firstTick, stalls, started,
                   coreVars, chatVars, workerVars, tpc>>

StartSpawns ==
    /\ vpc = "spawn" /\ rpc = "none"
    /\ state' = "STARTING" /\ stopFlag' = FALSE /\ firstTick' = FALSE /\ stalls' = 0
    /\ joinable' = TRUE
    /\ ResetChat
    /\ rpc' = "open"
    /\ GoesTo("verdict")
    /\ UNCHANGED <<everReady, started, coreVars, verdict, tpc>>

(* The scope ends where start() spawns a run beside a detached one: the    *)
(* two then share every cell and the core's singletons.                    *)
StartOverlaps ==
    /\ vpc = "spawn" /\ rpc # "none"
    /\ GoesTo("overlap")
    /\ UNCHANGED <<recordVars, coreVars, chatVars, workerVars, tpc>>

(* Nothing is said of what comes after.                                    *)
OutOfScope == vpc = "overlap" /\ UNCHANGED worldVars

(* The spawn verdict: the state has settled, or the deadline leaves it     *)
(* STARTING, which is reported as success.                                 *)
StartAnswers ==
    /\ vpc = "verdict"
    /\ Returns(IF state = "FAILED" THEN "failed" ELSE "ok")
    /\ UNCHANGED <<recordVars, coreVars, chatVars, workerVars, tpc>>

StopEnters ==
    /\ vpc = "idle"
    /\ \/ state = "STOPPED" /\ Returns("ok")
       \/ state = "FAILED" /\ GoesTo("settle")
       \/ state \notin Settled /\ GoesTo("signal")
    /\ UNCHANGED <<recordVars, coreVars, chatVars, workerVars, tpc>>

StopSignals ==
    /\ vpc = "signal"
    /\ state' = "STOPPING" /\ stopFlag' = TRUE /\ stopEvent' = TRUE
    /\ GoesTo("wait")
    /\ UNCHANGED <<everReady, firstTick, stalls, started, joinable, dbOpen, paused,
                   chatVars, workerVars, tpc>>

(* The wait for the worker's record, or its deadline, which detaches.      *)
StopWaits ==
    /\ vpc = "wait"
    /\ \/ state = "FAILED" /\ GoesTo("settle") /\ UNCHANGED joinable
       \/ state = "STOPPED" /\ rpc = "none" /\ joinable' = FALSE /\ Returns("ok")
       \/ state \notin Settled /\ joinable' = FALSE /\ Returns("timeout")
    /\ UNCHANGED <<state, everReady, stopFlag, firstTick, stalls, started,
                   coreVars, chatVars, workerVars, tpc>>

(* Mutant: the settle wait has no deadline and polls for ever.             *)
StopSettlesUnbounded ==
    /\ vpc = "settle"
    /\ \/ state = "STOPPED" /\ rpc = "none" /\ Returns("ok") /\ joinable' = FALSE
       \/ state # "STOPPED" /\ UNCHANGED <<verbVars, joinable>>
    /\ UNCHANGED <<state, everReady, stopFlag, firstTick, stalls, started,
                   coreVars, chatVars, workerVars, tpc>>

(* A FAILED world: wait for its worker's STOPPED, or detach it.            *)
StopSettles ==
    /\ vpc = "settle"
    /\ \/ state = "STOPPED" /\ rpc = "none" /\ Returns("ok")
       \/ state # "STOPPED" /\ Returns("timeout")
    /\ joinable' = FALSE
    /\ UNCHANGED <<state, everReady, stopFlag, firstTick, stalls, started,
                   coreVars, chatVars, workerVars, tpc>>

(* save() tests READY and then records SAVING, whatever came in between.   *)
SaveEnters ==
    /\ vpc = "idle"
    /\ IF state = "READY" THEN GoesTo("mark") ELSE Returns("refused")
    /\ UNCHANGED <<recordVars, coreVars, chatVars, workerVars, tpc>>

SaveMarks ==
    /\ vpc = "mark"
    /\ state' = "SAVING"
    /\ vpc' = "saving" /\ saved' = "queued" /\ UNCHANGED answer
    /\ UNCHANGED <<everReady, stopFlag, firstTick, stalls, started, joinable,
                   coreVars, chatVars, workerVars, tpc>>

(* issue_command returns, acknowledged or timed out.                       *)
SaveReturns ==
    /\ vpc = "saving"
    /\ vpc' = IF state = "SAVING" THEN "unmark" ELSE "idle"
    /\ answer' = IF saved = "done" THEN "ok" ELSE "timeout"
    /\ saved' = "none"
    /\ UNCHANGED <<recordVars, coreVars, chatVars, workerVars, tpc>>

SaveUnmarks ==
    /\ vpc = "unmark"
    /\ state' = "READY"
    /\ vpc' = "idle" /\ UNCHANGED <<answer, saved>>
    /\ UNCHANGED <<everReady, stopFlag, firstTick, stalls, started, joinable,
                   coreVars, chatVars, workerVars, tpc>>

(* world_chat fills the single slot of a READY world and waits for its     *)
(* verdict.                                                                *)
ChatEnters ==
    /\ vpc = "idle"
    /\ IF state = "READY" /\ ~chatPending
         THEN /\ GoesTo("chat")
              /\ chatPending' = TRUE /\ chatDone' = FALSE /\ chatOk' = FALSE
              /\ injected' = 0
         ELSE Returns("refused") /\ UNCHANGED chatVars
    /\ UNCHANGED <<recordVars, coreVars, workerVars, tpc>>

(* The verdict or the deadline; the slot is cleared, though a drain may    *)
(* still be in flight.                                                     *)
ChatReturns ==
    /\ vpc = "chat"
    /\ Returns(IF ~chatDone THEN "timeout" ELSE IF chatOk THEN "ok" ELSE "failed")
    /\ chatPending' = FALSE /\ chatDone' = FALSE
    /\ UNCHANGED <<recordVars, coreVars, chatOk, injected, workerVars, tpc>>

SetPaused(p) ==
    /\ vpc = "idle" /\ paused # p
    /\ paused' = p
    /\ UNCHANGED <<recordVars, dbOpen, stopEvent, verbVars, chatVars, workerVars, tpc>>

-----------------------------------------------------------------------------
(* The worker: run() and cleanup().                                        *)

CleansUp(v) == rpc' = "clean" /\ verdict' = v

(* The configuration is rejected, or the databases fail to open (some of   *)
(* the four may be open by then): fail() and cleanup().                    *)
OpenFails ==
    /\ rpc = "open"
    /\ state' = "FAILED"
    /\ dbOpen' \in BOOLEAN
    /\ CleansUp("keep")
    /\ UNCHANGED <<everReady, stopFlag, firstTick, stalls, started, joinable, stopEvent,
                   paused, verbVars, chatVars, tpc>>

OpenSucceeds ==
    /\ rpc = "open"
    /\ dbOpen' = TRUE
    /\ rpc' = "init"
    /\ UNCHANGED <<recordVars, stopEvent, paused, verbVars, chatVars, verdict, tpc>>

(* The world data or the bot lane is refused.                              *)
InitFails ==
    /\ rpc = "init"
    /\ state' = "FAILED"
    /\ CleansUp("keep")
    /\ UNCHANGED <<everReady, stopFlag, firstTick, stalls, started, joinable, coreVars,
                   verbVars, chatVars, tpc>>

(* Mutant: the boot goes on to the network with m_started not armed.       *)
InitSucceedsUnarmed ==
    /\ rpc = "init"
    /\ rpc' = "launch"
    /\ UNCHANGED <<recordVars, coreVars, verbVars, chatVars, verdict, tpc>>

(* m_started is armed before the network is brought up.                    *)
InitSucceeds ==
    /\ rpc = "init"
    /\ started' = TRUE
    /\ rpc' = "launch"
    /\ UNCHANGED <<state, everReady, stopFlag, firstTick, stalls, joinable, coreVars,
                   verbVars, chatVars, verdict, tpc>>

(* StartNetworkEmbedded: the stop event is re-armed and the world thread   *)
(* launched.                                                               *)
Launches ==
    /\ rpc = "launch"
    /\ stopEvent' = FALSE
    /\ tpc' = "test"
    /\ rpc' = "gate"
    /\ UNCHANGED <<recordVars, dbOpen, paused, verbVars, chatVars, verdict>>

(* Mutant: a first-tick wait that ended, by its deadline or a stop, counts *)
(* as a first tick.                                                        *)
FirstTickAssumed == TRUE

(* What first_tick_wait answers when it ends, by the tick, a stop, a state *)
(* other than STARTING or its deadline.                                    *)
FirstTickWaited == firstTick

(* Its listener gate, the first tick.                                      *)
GateOpens ==
    /\ rpc = "gate" /\ FirstTickWaited
    /\ rpc' = "listen"
    /\ UNCHANGED <<recordVars, coreVars, verbVars, chatVars, verdict, tpc>>

(* StartNetworkEmbedded returns false: a deliberate stop is recorded as    *)
(* STOPPED, anything else fails the record.                                *)
NetworkRefuses ==
    /\ IF stopFlag \/ state # "STARTING"
         THEN CleansUp("STOPPED") /\ UNCHANGED state
         ELSE CleansUp("keep") /\ state' = "FAILED"
    /\ UNCHANGED <<everReady, stopFlag, firstTick, stalls, started, joinable, coreVars,
                   verbVars, chatVars, tpc>>

(* Mutant: the first-tick wait has no deadline.                            *)
GateFailsUnbounded ==
    rpc = "gate" /\ ~FirstTickWaited /\ (stopFlag \/ state # "STARTING") /\ NetworkRefuses

(* The first-tick wait was broken off or reached its deadline.             *)
GateFails == rpc = "gate" /\ ~FirstTickWaited /\ NetworkRefuses

ListenFails == rpc = "listen" /\ NetworkRefuses

Listens ==
    /\ rpc = "listen"
    /\ rpc' = "recheck"
    /\ UNCHANGED <<recordVars, coreVars, verbVars, chatVars, verdict, tpc>>

(* An exception of a boot leg: cleanup first, FAILED afterwards.           *)
BootThrows ==
    /\ rpc \in {"open", "init", "listen"}
    /\ CleansUp("FAILED")
    /\ UNCHANGED <<recordVars, coreVars, verbVars, chatVars, tpc>>

(* run()'s own first-tick wait.  The gate waited for the same flag, which  *)
(* only the next start() clears, so its refusal is never taken.  Then      *)
(* "Re-check, never assume": READY is published only if the state was      *)
(* still STARTING a moment before.                                         *)
Rechecks ==
    /\ rpc = "recheck"
    /\ IF FirstTickWaited
         THEN /\ rpc' = IF state = "STARTING" THEN "publish" ELSE "loop"
              /\ UNCHANGED <<state, verdict>>
         ELSE /\ CleansUp("STOPPED")
              /\ state' = IF ~stopFlag /\ state = "STARTING" THEN "FAILED" ELSE state
    /\ UNCHANGED <<everReady, stopFlag, firstTick, stalls, started, joinable, coreVars,
                   verbVars, chatVars, tpc>>

Publishes ==
    /\ rpc = "publish"
    /\ state' = "READY" /\ everReady' = TRUE
    /\ rpc' = "loop"
    /\ UNCHANGED <<stopFlag, firstTick, stalls, started, joinable, coreVars, verbVars,
                   chatVars, verdict, tpc>>

(* Mutant: run() records STOPPED before its cleanup.                       *)
LoopEndsStopped ==
    /\ rpc = "loop" /\ (stopFlag \/ state = "FAILED")
    /\ CleansUp("STOPPED")
    /\ state' = "STOPPED"
    /\ UNCHANGED <<everReady, stopFlag, firstTick, stalls, started, joinable, coreVars,
                   verbVars, chatVars, tpc>>

LoopEnds ==
    /\ rpc = "loop" /\ (stopFlag \/ state = "FAILED")
    /\ CleansUp("STOPPED")
    /\ UNCHANGED <<recordVars, coreVars, verbVars, chatVars, tpc>>

(* Mutant: cleanup() trusts the stop event stop() has set.                 *)
CleanupTrustsStop ==
    /\ rpc = "clean"
    /\ rpc' = IF started THEN "join" ELSE "close"
    /\ ResetChat
    /\ UNCHANGED <<recordVars, coreVars, verbVars, verdict, tpc>>

(* cleanup(): the chat slot is reset, a started world is told to stop and  *)
(* its thread is joined before the databases close.                        *)
CleanupStops ==
    /\ rpc = "clean"
    /\ rpc' = IF started THEN "join" ELSE "close"
    /\ stopEvent' = (stopEvent \/ started)
    /\ ResetChat
    /\ UNCHANGED <<recordVars, dbOpen, paused, verbVars, verdict, tpc>>

CleanupJoins ==
    /\ rpc = "join" /\ tpc \in {"none", "dead"}
    /\ started' = FALSE
    /\ rpc' = "close"
    /\ UNCHANGED <<state, everReady, stopFlag, firstTick, stalls, joinable, coreVars,
                   verbVars, chatVars, verdict, tpc>>

CleanupCloses ==
    /\ rpc = "close"
    /\ dbOpen' = FALSE /\ stopEvent' = FALSE
    /\ rpc' = "record"
    /\ UNCHANGED <<recordVars, paused, verbVars, chatVars, verdict, tpc>>

WorkerRecords ==
    /\ rpc = "record"
    /\ state' = IF verdict = "keep" THEN state ELSE verdict
    /\ rpc' = "none" /\ verdict' = "none"
    /\ UNCHANGED <<everReady, stopFlag, firstTick, stalls, started, joinable, coreVars,
                   verbVars, chatVars, tpc>>

-----------------------------------------------------------------------------
(* The world thread.                                                       *)

ThreadTests ==
    /\ tpc = "test"
    /\ tpc' = IF stopEvent THEN "leaving" ELSE "update"
    /\ UNCHANGED <<recordVars, coreVars, verbVars, chatVars, workerVars>>

(* World::Update answers the queued console commands.                      *)
Acknowledges ==
    /\ saved' = IF saved = "queued" THEN "done" ELSE saved
    /\ UNCHANGED <<vpc, answer>>

(* A tick, and what record_tick does first: the first tick is announced,   *)
(* and a pending chat line is copied out of its slot.                      *)
ThreadUpdates ==
    /\ tpc = "update" /\ ~paused
    /\ Acknowledges
    /\ firstTick' = TRUE
    /\ tpc' = IF chatPending THEN "drain" ELSE "account"
    /\ injected' = IF chatPending /\ injected < MaxInjected
                   THEN injected + 1 ELSE injected
    /\ UNCHANGED <<state, everReady, stopFlag, stalls, started, joinable, coreVars,
                   chatPending, chatDone, chatOk, workerVars>>

(* finish_chat_injection, outside the lock that covered the copy: the      *)
(* verdict goes to the slot, whoever holds it by now.                      *)
ThreadDrains(ok) ==
    /\ tpc = "drain"
    /\ chatDone' = TRUE /\ chatOk' = ok
    /\ tpc' = "account"
    /\ UNCHANGED <<recordVars, coreVars, verbVars, chatPending, injected, workerVars>>

(* The tick accounting: a streak of slow ticks makes the watchdog stop the *)
(* world and fail the record.                                              *)
ThreadAccounts(slow) ==
    /\ tpc = "account"
    /\ stalls' = IF ~slow THEN 0
                 ELSE IF stalls < HardStallFailStreak THEN stalls + 1 ELSE stalls
    /\ IF slow /\ stalls + 1 >= HardStallFailStreak
         THEN stopEvent' = TRUE /\ state' = "FAILED"
         ELSE UNCHANGED <<stopEvent, state>>
    /\ tpc' = "test"
    /\ UNCHANGED <<everReady, stopFlag, firstTick, started, joinable, dbOpen, paused,
                   verbVars, chatVars, workerVars>>

(* The paused loop updates at a reduced rate and does not call the hook.   *)
ThreadTicksPaused ==
    /\ tpc = "update" /\ paused
    /\ Acknowledges
    /\ tpc' = "test"
    /\ UNCHANGED <<recordVars, coreVars, chatVars, workerVars>>

(* World::Update never returns.                                            *)
ThreadWedges ==
    /\ tpc = "update"
    /\ tpc' = "wedged"
    /\ UNCHANGED <<recordVars, coreVars, verbVars, chatVars, workerVars>>

(* CleanupsBeforeStop, still on the databases, and the thread ends.        *)
ThreadLeaves ==
    /\ tpc = "leaving"
    /\ tpc' = "dead"
    /\ UNCHANGED <<recordVars, coreVars, verbVars, chatVars, workerVars>>

-----------------------------------------------------------------------------

Call ==
    \/ StartRefused \/ StartEnters \/ StopEnters \/ SaveEnters \/ ChatEnters
    \/ \E p \in BOOLEAN : SetPaused(p)

Verb ==
    \/ StartSettles \/ StartSpawns \/ StartOverlaps \/ StartAnswers
    \/ StopSignals \/ StopWaits \/ StopSettles
    \/ SaveMarks \/ SaveReturns \/ SaveUnmarks \/ ChatReturns

Worker ==
    \/ OpenFails \/ OpenSucceeds \/ InitFails \/ InitSucceeds \/ Launches
    \/ GateOpens \/ GateFails \/ ListenFails \/ Listens \/ BootThrows
    \/ Rechecks \/ Publishes \/ LoopEnds
    \/ CleanupStops \/ CleanupJoins \/ CleanupCloses \/ WorkerRecords

Thread ==
    \/ ThreadTests \/ ThreadUpdates
    \/ (\E ok \in BOOLEAN : ThreadDrains(ok))
    \/ (\E slow \in BOOLEAN : ThreadAccounts(slow))
    \/ ThreadTicksPaused \/ ThreadWedges \/ ThreadLeaves

Next == Call \/ Verb \/ Worker \/ Thread \/ OutOfScope

(* Each thread runs on for as long as it can; nobody has to call a verb.   *)
Fairness ==
    /\ WF_worldVars(Verb)
    /\ WF_worldVars(Worker)
    /\ WF_worldVars(Thread)

Spec == Init /\ [][Next]_worldVars /\ Fairness

-----------------------------------------------------------------------------
(* Properties.                                                             *)

Live == {"test", "update", "drain", "account", "wedged", "leaving"}

FlagsOK ==
    /\ everReady \in BOOLEAN /\ stopFlag \in BOOLEAN /\ firstTick \in BOOLEAN
    /\ started \in BOOLEAN /\ joinable \in BOOLEAN
    /\ dbOpen \in BOOLEAN /\ stopEvent \in BOOLEAN /\ paused \in BOOLEAN
    /\ chatPending \in BOOLEAN /\ chatDone \in BOOLEAN /\ chatOk \in BOOLEAN

CellsOK ==
    /\ state \in {"STOPPED", "STARTING", "READY", "SAVING", "STOPPING", "FAILED"}
    /\ stalls \in Nat
    /\ injected \in Nat
    /\ vpc \in {"idle", "presettle", "spawn", "overlap", "verdict", "signal", "wait",
                "settle", "mark", "saving", "unmark", "chat"}
    /\ answer \in {"none", "ok", "refused", "failed", "timeout"}
    /\ saved \in {"none", "queued", "done"}
    /\ rpc \in {"none", "open", "init", "launch", "gate", "listen", "recheck",
                "publish", "loop", "clean", "join", "close", "record"}
    /\ verdict \in {"none", "keep", "STOPPED", "FAILED"}
    /\ rpc \in {"clean", "join", "close", "record"} => verdict # "none"
    /\ tpc \in Live \cup {"none", "dead"}

(* Every cell of the three threads has its type.                           *)
WorldTypeOK == FlagsOK /\ CellsOK

(* No teardown path, a throwing listener's and an early failure's          *)
(* included, closes the database pools under a live world thread           *)
(* (cleanup, m_started).                                                   *)
LiveWorldHasDatabases == tpc \in Live => dbOpen

(* "HONEST READY" (run): no state a client obeys is published, and save()  *)
(* does not bring one back, before the loop completed its first tick.      *)
ReadyMeansTicked == state \in {"READY", "SAVING"} => firstTick

(* STOPPED is the last act of a run: whoever reads it finds no worker      *)
(* inside run(), no world thread and no open database, and may seal the    *)
(* data (stop's answer, releaseNormalDataLease).                           *)
StoppedMeansOver == state = "STOPPED" => rpc = "none" /\ tpc \notin Live /\ ~dbOpen

(* A boot always gets a verdict, whether the world loop is dead, paused or *)
(* stuck before its first tick; only a world that hangs after its first    *)
(* tick while a throwing listener is torn down keeps STARTING.             *)
BootSettles ==
    state = "STARTING" ~> state # "STARTING" \/ (tpc = "wedged" /\ firstTick)

(* A stop reaches the world thread although the boot re-arms the stop      *)
(* event behind it: the worker ends, unless World::Update never returns.   *)
StopEndsWorker == stopFlag ~> rpc = "none" \/ tpc = "wedged"

(* No verb holds the transition gate for ever, over a wedged world too.    *)
VerbsReturn == vpc # "idle" ~> vpc \in {"idle", "overlap"}

(* "is failed loudly instead of running dead forever" (record_tick): a     *)
(* world whose thread ended under its worker does not stay READY.          *)
DeadWorldIsFailed == rpc = "loop" /\ tpc = "dead" ~> rpc # "loop"

(* "single-use slot: harvest the verdict, then clear for the next op"      *)
(* (world_chat): a chat line answered ok went through the chat handler     *)
(* once.                                                                   *)
ChatInjectedOnce ==
    [][(vpc = "chat" /\ answer' = "ok") => injected = 1]_worldVars

=============================================================================
