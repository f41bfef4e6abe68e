--------------------------- MODULE RealmdRuntime ---------------------------
(***************************************************************************)
(* The embedded login server of native/realm-runtime: RealmdRuntime's      *)
(* start and stop (one at a time, under RealmRuntimeService's              *)
(* transitionLock), the worker thread that runs run() and cleanup(), and   *)
(* the one listener thread inside io_context::run().                       *)
(*                                                                         *)
(* Unlike the world's, the joins here have no deadline, so m_lifecycle,    *)
(* which cleanup() takes, is a cell of its own.  The keep-alive count is   *)
(* kept as whether it moved since the worker last looked.                  *)
(***************************************************************************)
EXTENDS Naturals

CONSTANT StallLimit     \* heartbeats without a keep-alive that fail the server

ASSUME StallAssumption == StallLimit \in Nat \ {0}

VARIABLES
    state,      \* m_state
    stopFlag,   \* m_stop
    lock,       \* m_lifecycle: "free", or held across a join by the "verb"
    io,         \* m_io: "none", "running" or "stopped"
    dbOpen,     \* LoginDatabase is open
    moved,      \* m_io_liveness differs from last_liveness
    stalled,    \* stalled_heartbeats
    vpc,        \* the verb in progress
    answer,     \* what the last verb answered
    rpc,        \* the worker thread: "none" when no run() executes
    verdict,    \* what run() records when its cleanup is over
    tpc         \* the listener thread

lifeVars == <<state, stopFlag, lock>>
ioVars == <<io, dbOpen>>
beatVars == <<moved, stalled>>
verbVars == <<vpc, answer>>
workerVars == <<rpc, verdict>>
realmVars == <<lifeVars, ioVars, beatVars, verbVars, workerVars, tpc>>

Settled == {"STOPPED", "FAILED"}

Init ==
    /\ state = "STOPPED" /\ stopFlag = FALSE /\ lock = "free"
    /\ io = "none" /\ dbOpen = FALSE
    /\ moved = FALSE /\ stalled = 0
    /\ vpc = "idle" /\ answer = "none"
    /\ rpc = "none" /\ verdict = "none"
    /\ tpc = "none"

-----------------------------------------------------------------------------
(* The verbs.  No section under m_lifecycle waits, but the last join.      *)

Returns(a) == vpc' = "idle" /\ answer' = a

GoesTo(pc) == vpc' = pc /\ answer' = "none"

(* m_io->stop(): every run() of the context returns.                       *)
StopIo == io' = IF io = "none" THEN "none" ELSE "stopped"

StartRefused ==
    /\ vpc = "idle" /\ state \notin Settled
    /\ Returns("refused")
    /\ UNCHANGED <<lifeVars, ioVars, beatVars, workerVars, tpc>>

(* A leftover worker is signalled, and joined with the lock released.      *)
StartSignals ==
    /\ vpc = "idle" /\ state \in Settled
    /\ stopFlag' = TRUE /\ StopIo
    /\ GoesTo("startjoin")
    /\ UNCHANGED <<state, lock, dbOpen, beatVars, workerVars, tpc>>

StartSpawns ==
    /\ vpc = "startjoin" /\ rpc = "none"
    /\ stopFlag' = FALSE /\ state' = "STARTING"
    /\ rpc' = "boot"
    /\ Returns("ok")
    /\ UNCHANGED <<lock, ioVars, beatVars, verdict, tpc>>

StopAnswers ==
    /\ vpc = "idle" /\ state = "STOPPED"
    /\ Returns("ok")
    /\ UNCHANGED <<lifeVars, ioVars, beatVars, workerVars, tpc>>

(* Mutant: a FAILED server's worker is joined under m_lifecycle.           *)
StopSignalsLocked ==
    /\ vpc = "idle" /\ state # "STOPPED"
    /\ state' = IF state = "FAILED" THEN state ELSE "STOPPING"
    /\ lock' = IF state = "FAILED" THEN "verb" ELSE "free"
    /\ stopFlag' = TRUE /\ StopIo
    /\ GoesTo(IF state = "FAILED" THEN "failjoin" ELSE "wait")
    /\ UNCHANGED <<dbOpen, beatVars, workerVars, tpc>>

(* Both exits are signalled under the guard.                               *)
StopSignals ==
    /\ vpc = "idle" /\ state # "STOPPED"
    /\ state' = IF state = "FAILED" THEN state ELSE "STOPPING"
    /\ stopFlag' = TRUE /\ StopIo
    /\ GoesTo(IF state = "FAILED" THEN "failjoin" ELSE "wait")
    /\ UNCHANGED <<lock, dbOpen, beatVars, workerVars, tpc>>

(* The wait for the worker's record, or its deadline: the worker stays     *)
(* joinable.                                                               *)
StopWaits ==
    /\ vpc = "wait"
    /\ \/ state = "FAILED" /\ GoesTo("failjoin") /\ UNCHANGED lock
       \/ state = "STOPPED" /\ GoesTo("lockjoin") /\ lock' = "verb"
       \/ state \notin Settled /\ Returns("timeout") /\ UNCHANGED lock
    /\ UNCHANGED <<state, stopFlag, ioVars, beatVars, workerVars, tpc>>

(* "joining under the guard is safe": STOPPED was the worker's last word.  *)
StopJoins ==
    /\ vpc = "lockjoin" /\ rpc = "none"
    /\ lock' = "free"
    /\ Returns("ok")
    /\ UNCHANGED <<state, stopFlag, ioVars, beatVars, workerVars, tpc>>

(* Mutant: a failed server is recorded STOPPED without cleanup().          *)
StopFinishesUnclean ==
    /\ vpc = "failjoin" /\ rpc = "none"
    /\ state' = "STOPPED"
    /\ Returns("ok")
    /\ UNCHANGED <<stopFlag, lock, ioVars, beatVars, workerVars, tpc>>

(* A failed server: join, cleanup() for the boots that failed without      *)
(* one, and STOPPED.                                                       *)
StopFinishes ==
    /\ vpc = "failjoin" /\ rpc = "none" /\ tpc \in {"none", "done"}
    /\ tpc' = "none" /\ io' = "none" /\ dbOpen' = FALSE
    /\ state' = "STOPPED"
    /\ Returns("ok")
    /\ UNCHANGED <<stopFlag, lock, beatVars, workerVars>>

(* forceStopOwned, which does not take transitionLock, or any other end of *)
(* the process: nothing of it survives.                                    *)
ProcessKilled ==
    /\ state' = "STOPPED" /\ stopFlag' = FALSE /\ lock' = "free"
    /\ io' = "none" /\ dbOpen' = FALSE /\ moved' = FALSE /\ stalled' = 0
    /\ vpc' = "idle" /\ answer' = "none" /\ rpc' = "none" /\ verdict' = "none"
    /\ tpc' = "none"

-----------------------------------------------------------------------------
(* The worker: run() and cleanup().                                        *)

CleansUp(v) == rpc' = "clean" /\ verdict' = v

(* The configuration, the database, its revision or the realm list is      *)
(* refused: fail() and return, the database left as it is.                 *)
BootFails ==
    /\ rpc = "boot"
    /\ state' = "FAILED"
    /\ dbOpen' \in {dbOpen, TRUE}
    /\ rpc' = "none"
    /\ UNCHANGED <<stopFlag, lock, io, beatVars, verbVars, verdict, tpc>>

BootOpens ==
    /\ rpc = "boot"
    /\ dbOpen' = TRUE
    /\ rpc' = "context"
    /\ UNCHANGED <<lifeVars, io, beatVars, verbVars, verdict, tpc>>

CreatesIo ==
    /\ rpc = "context" /\ lock = "free"
    /\ io' = "running"
    /\ rpc' = "listen"
    /\ UNCHANGED <<lifeVars, dbOpen, beatVars, verbVars, verdict, tpc>>

(* The port is taken: fail() and return, the context left too.             *)
ListenFails ==
    /\ rpc = "listen"
    /\ state' = "FAILED"
    /\ rpc' = "none"
    /\ UNCHANGED <<stopFlag, lock, ioVars, beatVars, verbVars, verdict, tpc>>

(* An exception of a boot leg: cleanup first, FAILED afterwards.           *)
BootThrows ==
    /\ rpc \in {"boot", "context", "listen", "publish"}
    /\ CleansUp("FAILED")
    /\ UNCHANGED <<lifeVars, ioVars, beatVars, verbVars, tpc>>

(* The keep-alive timer is armed and the listener thread launched.         *)
Listens ==
    /\ rpc = "listen" /\ lock = "free"
    /\ tpc' = "run"
    /\ rpc' = "publish"
    /\ UNCHANGED <<lifeVars, ioVars, beatVars, verbVars, verdict>>

(* READY is published whatever the state is by now.                        *)
Publishes ==
    /\ rpc = "publish"
    /\ state' = "READY"
    /\ moved' = FALSE /\ stalled' = 0
    /\ rpc' = "loop"
    /\ UNCHANGED <<stopFlag, lock, ioVars, verbVars, verdict, tpc>>

LoopTests ==
    /\ rpc = "loop"
    /\ IF stopFlag \/ state = "FAILED"
         THEN CleansUp("STOPPED")
         ELSE rpc' = "beat" /\ UNCHANGED verdict
    /\ UNCHANGED <<lifeVars, ioVars, beatVars, verbVars, tpc>>

(* Mutant: the heartbeat does not look at the keep-alive count.            *)
BeatsBlindly ==
    /\ rpc = "beat"
    /\ rpc' = "loop"
    /\ UNCHANGED <<lifeVars, ioVars, beatVars, verbVars, verdict, tpc>>

(* A heartbeat: a keep-alive count that froze for too long fails the       *)
(* server and leaves the loop.                                             *)
Beats ==
    /\ rpc = "beat"
    /\ moved' = FALSE
    /\ stalled' = IF moved THEN 0 ELSE stalled + 1
    /\ IF stalled' >= StallLimit
         THEN state' = "FAILED" /\ CleansUp("STOPPED")
         ELSE rpc' = "loop" /\ UNCHANGED <<state, verdict>>
    /\ UNCHANGED <<stopFlag, lock, ioVars, verbVars, tpc>>

(* Mutant: cleanup() relies on the io_context having been stopped.         *)
CleanupTrustsIo ==
    /\ rpc = "clean" /\ lock = "free"
    /\ rpc' = "join"
    /\ UNCHANGED <<lifeVars, ioVars, beatVars, verbVars, verdict, tpc>>

CleanupStops ==
    /\ rpc = "clean" /\ lock = "free"
    /\ StopIo
    /\ rpc' = "join"
    /\ UNCHANGED <<lifeVars, dbOpen, beatVars, verbVars, verdict, tpc>>

CleanupJoins ==
    /\ rpc = "join" /\ tpc \in {"none", "done"}
    /\ tpc' = "none"
    /\ rpc' = "close"
    /\ UNCHANGED <<lifeVars, ioVars, beatVars, verbVars, verdict>>

CleanupCloses ==
    /\ rpc = "close" /\ lock = "free"
    /\ io' = "none" /\ dbOpen' = FALSE
    /\ rpc' = "record"
    /\ UNCHANGED <<lifeVars, beatVars, verbVars, verdict, tpc>>

WorkerRecords ==
    /\ rpc = "record"
    /\ state' = verdict
    /\ rpc' = "none" /\ verdict' = "none"
    /\ UNCHANGED <<stopFlag, lock, ioVars, beatVars, verbVars, tpc>>

-----------------------------------------------------------------------------
(* The listener thread.                                                    *)

(* The keep-alive handler; it re-arms itself until m_stop is set.          *)
KeepAlive ==
    /\ tpc = "run" /\ io = "running" /\ ~moved
    /\ moved' = TRUE
    /\ UNCHANGED <<lifeVars, ioVars, stalled, verbVars, workerVars, tpc>>

(* A missed wakeup or a hanging handler: only the first is ended by        *)
(* io_context::stop().                                                     *)
ListenerStalls(how) ==
    /\ tpc = "run"
    /\ tpc' = how
    /\ UNCHANGED <<lifeVars, ioVars, beatVars, verbVars, workerVars>>

ListenerReturns ==
    /\ tpc \in {"run", "deaf"} /\ io = "stopped"
    /\ tpc' = "done"
    /\ UNCHANGED <<lifeVars, ioVars, beatVars, verbVars, workerVars>>

ListenerThrows ==
    /\ tpc = "run"
    /\ tpc' = "thrown"
    /\ UNCHANGED <<lifeVars, ioVars, beatVars, verbVars, workerVars>>

ListenerFails ==
    /\ tpc = "thrown"
    /\ state' = "FAILED"
    /\ tpc' = "done"
    /\ UNCHANGED <<stopFlag, lock, ioVars, beatVars, verbVars, workerVars>>

-----------------------------------------------------------------------------

Call == StartRefused \/ StartSignals \/ StopAnswers \/ StopSignals

Verb == StartSpawns \/ StopWaits \/ StopJoins \/ StopFinishes

Worker ==
    \/ BootFails \/ BootOpens \/ CreatesIo \/ ListenFails \/ BootThrows \/ Listens
    \/ Publishes \/ LoopTests \/ Beats
    \/ CleanupStops \/ CleanupJoins \/ CleanupCloses \/ WorkerRecords

Thread ==
    \/ KeepAlive \/ ListenerReturns \/ ListenerThrows \/ ListenerFails
    \/ \E how \in {"deaf", "wedged"} : ListenerStalls(how)

Next == Call \/ Verb \/ Worker \/ Thread \/ ProcessKilled

(* Each thread runs on for as long as it can; nobody has to call a verb.   *)
Fairness ==
    /\ WF_realmVars(Verb)
    /\ WF_realmVars(Worker)
    /\ WF_realmVars(ListenerReturns)
    /\ WF_realmVars(ListenerFails)

Spec == Init /\ [][Next]_realmVars /\ Fairness

-----------------------------------------------------------------------------
(* Properties.                                                             *)

RealmFlagsOK ==
    /\ stopFlag \in BOOLEAN /\ dbOpen \in BOOLEAN /\ moved \in BOOLEAN

RealmCellsOK ==
    /\ state \in {"STOPPED", "STARTING", "READY", "STOPPING", "FAILED"}
    /\ lock \in {"free", "verb"}
    /\ io \in {"none", "running", "stopped"}
    /\ stalled \in 0..StallLimit
    /\ vpc \in {"idle", "startjoin", "wait", "failjoin", "lockjoin"}
    /\ answer \in {"none", "ok", "refused", "timeout"}
    /\ rpc \in {"none", "boot", "context", "listen", "publish", "loop", "beat",
                "clean", "join", "close", "record"}
    /\ verdict \in {"none", "STOPPED", "FAILED"}
    /\ rpc \in {"clean", "join", "close", "record"} => verdict # "none"
    /\ rpc \in {"loop", "beat"} => stalled < StallLimit
    /\ tpc \in {"none", "run", "deaf", "wedged", "thrown", "done"}

(* Every cell of the three threads has its type.                           *)
RealmTypeOK == RealmFlagsOK /\ RealmCellsOK

(* Whoever reads STOPPED, be it the record of the worker or of a stop that *)
(* absorbed a failed boot, finds no worker, no listener thread, no socket  *)
(* and no open login database (stop, cleanup).                             *)
RealmStoppedIsOver ==
    state = "STOPPED" => rpc = "none" /\ tpc = "none" /\ io = "none" /\ ~dbOpen

(* "a dead-but-READY listener": a server that shows READY while its        *)
(* listener thread hangs or is gone does not keep showing it, although     *)
(* READY may have been published over that thread's own FAILED (run).      *)
DeadListenerIsNoticed ==
    state = "READY" /\ ~stopFlag /\ tpc \notin {"run", "thrown"}
        ~> state # "READY" \/ stopFlag

(* A stop that comes before the io_context exists, when there is nothing   *)
(* to stop yet, ends the worker all the same, and so does a failure of the *)
(* listener thread; only a handler that never returns can hold it.         *)
RealmStopEndsWorker == stopFlag ~> rpc = "none" \/ tpc = "wedged"

(* The unbounded joins of start and stop end, since the worker can always  *)
(* take m_lifecycle on its way out; only a handler that never returns      *)
(* keeps a verb.                                                           *)
RealmVerbsReturn == vpc # "idle" ~> vpc = "idle" \/ tpc = "wedged"

=============================================================================
