------------------------ MODULE RealmdRuntimeProofs ------------------------
(***************************************************************************)
(* Proofs about RealmdRuntime for every StallLimit: the cells keep their   *)
(* types and STOPPED means that the run is over.                           *)
(***************************************************************************)
EXTENDS RealmdRuntime, TLAPS

(* What the worker's place in run() says about the listener thread and the *)
(* database.  A boot that failed early left run() without cleanup(), so    *)
(* "the worker is gone" does not give "the database is closed": only the   *)
(* STOPPED record does, and every way to it goes through a cleanup().      *)
RunInv ==
    /\ tpc # "none" => rpc \in {"publish", "loop", "beat", "clean", "join"}
    /\ rpc = "record" => io = "none" /\ ~dbOpen
    /\ RealmStoppedIsOver

(* The initial cells have their types.                                     *)
LEMMA RealmInitTypes == Init => RealmFlagsOK /\ RealmCellsOK
<1>1. Init => RealmFlagsOK
  BY DEF Init, RealmFlagsOK
<1>2. Init => RealmCellsOK
  BY StallAssumption, SMT DEF Init, RealmCellsOK
<1> QED
  BY <1>1, <1>2

(* Every step keeps the flags Boolean.                                     *)
LEMMA RealmFlagsStep == RealmFlagsOK /\ [Next]_realmVars => RealmFlagsOK'
<1> SUFFICES ASSUME RealmFlagsOK, [Next]_realmVars PROVE RealmFlagsOK' OBVIOUS
<1>1. CASE StartRefused
  BY <1>1
  DEF StartRefused, Returns, Settled, beatVars, ioVars, lifeVars, workerVars,
  RealmFlagsOK
<1>2. CASE StartSignals
  BY <1>2
  DEF StartSignals, GoesTo, Settled, StopIo, beatVars, workerVars,
  RealmFlagsOK
<1>3. CASE StopAnswers
  BY <1>3
  DEF StopAnswers, Returns, beatVars, ioVars, lifeVars, workerVars,
  RealmFlagsOK
<1>4. CASE StopSignals
  BY <1>4
  DEF StopSignals, GoesTo, StopIo, beatVars, workerVars, RealmFlagsOK
<1>5. CASE StartSpawns
  BY <1>5
  DEF StartSpawns, Returns, beatVars, ioVars, RealmFlagsOK
<1>6. CASE StopWaits
  BY <1>6
  DEF StopWaits, GoesTo, Returns, Settled, beatVars, ioVars, workerVars,
  RealmFlagsOK
<1>7. CASE StopJoins
  BY <1>7
  DEF StopJoins, Returns, beatVars, ioVars, workerVars, RealmFlagsOK
<1>8. CASE StopFinishes
  BY <1>8
  DEF StopFinishes, Returns, beatVars, workerVars, RealmFlagsOK
<1>9. CASE BootFails
  BY <1>9
  DEF BootFails, beatVars, verbVars, RealmFlagsOK
<1>10. CASE BootOpens
  BY <1>10
  DEF BootOpens, beatVars, lifeVars, verbVars, RealmFlagsOK
<1>11. CASE CreatesIo
  BY <1>11
  DEF CreatesIo, beatVars, lifeVars, verbVars, RealmFlagsOK
<1>12. CASE ListenFails
  BY <1>12
  DEF ListenFails, beatVars, ioVars, verbVars, RealmFlagsOK
<1>13. CASE BootThrows
  BY <1>13
  DEF BootThrows, CleansUp, beatVars, ioVars, lifeVars, verbVars, RealmFlagsOK
<1>14. CASE Listens
  BY <1>14
  DEF Listens, beatVars, ioVars, lifeVars, verbVars, RealmFlagsOK
<1>15. CASE Publishes
  BY <1>15
  DEF Publishes, ioVars, verbVars, RealmFlagsOK
<1>16. CASE LoopTests
  BY <1>16
  DEF LoopTests, CleansUp, beatVars, ioVars, lifeVars, verbVars, RealmFlagsOK
<1>17. CASE Beats
  BY <1>17
  DEF Beats, CleansUp, ioVars, verbVars, RealmFlagsOK
<1>18. CASE CleanupStops
  BY <1>18
  DEF CleanupStops, StopIo, beatVars, lifeVars, verbVars, RealmFlagsOK
<1>19. CASE CleanupJoins
  BY <1>19
  DEF CleanupJoins, beatVars, ioVars, lifeVars, verbVars, RealmFlagsOK
<1>20. CASE CleanupCloses
  BY <1>20
  DEF CleanupCloses, beatVars, lifeVars, verbVars, RealmFlagsOK
<1>21. CASE WorkerRecords
  BY <1>21
  DEF WorkerRecords, beatVars, ioVars, verbVars, RealmFlagsOK
<1>22. CASE KeepAlive
  BY <1>22
  DEF KeepAlive, ioVars, lifeVars, verbVars, workerVars, RealmFlagsOK
<1>23. CASE ListenerReturns
  BY <1>23
  DEF ListenerReturns, beatVars, ioVars, lifeVars, verbVars, workerVars,
  RealmFlagsOK
<1>24. CASE ListenerThrows
  BY <1>24
  DEF ListenerThrows, beatVars, ioVars, lifeVars, verbVars, workerVars,
  RealmFlagsOK
<1>25. CASE ListenerFails
  BY <1>25
  DEF ListenerFails, beatVars, ioVars, verbVars, workerVars, RealmFlagsOK
<1>26. ASSUME NEW how \in {"deaf", "wedged"}, ListenerStalls(how) PROVE RealmFlagsOK'
  BY <1>26
  DEF ListenerStalls, beatVars, ioVars, lifeVars, verbVars, workerVars,
  RealmFlagsOK
<1>27. CASE ProcessKilled
  BY <1>27
  DEF ProcessKilled, RealmFlagsOK
<1>28. CASE UNCHANGED realmVars
  BY <1>28
  DEF RealmFlagsOK, lifeVars, ioVars, beatVars, verbVars, workerVars,
  realmVars
<1> QED
  BY <1>1, <1>2, <1>3, <1>4, <1>5, <1>6, <1>7, <1>8, <1>9, <1>10, <1>11,
  <1>12, <1>13, <1>14, <1>15, <1>16, <1>17, <1>18, <1>19, <1>20, <1>21, <1>22,
  <1>23, <1>24, <1>25, <1>26, <1>27, <1>28
  DEF Next, Call, Verb, Worker, Thread

(* Every step keeps the other cells in their sets; the count of stalled    *)
(* heartbeats is cut off by the failure it causes.                         *)
LEMMA RealmCellsStep == RealmCellsOK /\ [Next]_realmVars => RealmCellsOK'
<1> SUFFICES ASSUME RealmCellsOK, [Next]_realmVars PROVE RealmCellsOK' OBVIOUS
<1>1. CASE StartRefused
  BY <1>1, StallAssumption
  DEF StartRefused, Returns, Settled, beatVars, ioVars, lifeVars, workerVars,
  RealmCellsOK
<1>2. CASE StartSignals
  BY <1>2, StallAssumption
  DEF StartSignals, GoesTo, Settled, StopIo, beatVars, workerVars,
  RealmCellsOK
<1>3. CASE StopAnswers
  BY <1>3, StallAssumption
  DEF StopAnswers, Returns, beatVars, ioVars, lifeVars, workerVars,
  RealmCellsOK
<1>4. CASE StopSignals
  BY <1>4, StallAssumption
  DEF StopSignals, GoesTo, StopIo, beatVars, workerVars, RealmCellsOK
<1>5. CASE StartSpawns
  BY <1>5, StallAssumption
  DEF StartSpawns, Returns, beatVars, ioVars, RealmCellsOK
<1>6. CASE StopWaits
  BY <1>6, StallAssumption
  DEF StopWaits, GoesTo, Returns, Settled, beatVars, ioVars, workerVars,
  RealmCellsOK
<1>7. CASE StopJoins
  BY <1>7, StallAssumption
  DEF StopJoins, Returns, beatVars, ioVars, workerVars, RealmCellsOK
<1>8. CASE StopFinishes
  BY <1>8, StallAssumption
  DEF StopFinishes, Returns, beatVars, workerVars, RealmCellsOK
<1>9. CASE BootFails
  BY <1>9, StallAssumption
  DEF BootFails, beatVars, verbVars, RealmCellsOK
<1>10. CASE BootOpens
  BY <1>10, StallAssumption
  DEF BootOpens, beatVars, lifeVars, verbVars, RealmCellsOK
<1>11. CASE CreatesIo
  BY <1>11, StallAssumption
  DEF CreatesIo, beatVars, lifeVars, verbVars, RealmCellsOK
<1>12. CASE ListenFails
  BY <1>12, StallAssumption
  DEF ListenFails, beatVars, ioVars, verbVars, RealmCellsOK
<1>13. CASE BootThrows
  BY <1>13, StallAssumption
  DEF BootThrows, CleansUp, beatVars, ioVars, lifeVars, verbVars, RealmCellsOK
<1>14. CASE Listens
  BY <1>14, StallAssumption
  DEF Listens, beatVars, ioVars, lifeVars, verbVars, RealmCellsOK
<1>15. CASE Publishes
  BY <1>15, StallAssumption
  DEF Publishes, ioVars, verbVars, RealmCellsOK
<1>16. CASE LoopTests
  BY <1>16, StallAssumption
  DEF LoopTests, CleansUp, beatVars, ioVars, lifeVars, verbVars, RealmCellsOK
<1>17. CASE Beats
  BY <1>17, StallAssumption
  DEF Beats, CleansUp, ioVars, verbVars, RealmCellsOK
<1>18. CASE CleanupStops
  BY <1>18, StallAssumption
  DEF CleanupStops, StopIo, beatVars, lifeVars, verbVars, RealmCellsOK
<1>19. CASE CleanupJoins
  BY <1>19, StallAssumption
  DEF CleanupJoins, beatVars, ioVars, lifeVars, verbVars, RealmCellsOK
<1>20. CASE CleanupCloses
  BY <1>20, StallAssumption
  DEF CleanupCloses, beatVars, lifeVars, verbVars, RealmCellsOK
<1>21. CASE WorkerRecords
  BY <1>21, StallAssumption
  DEF WorkerRecords, beatVars, ioVars, verbVars, RealmCellsOK
<1>22. CASE KeepAlive
  BY <1>22, StallAssumption
  DEF KeepAlive, ioVars, lifeVars, verbVars, workerVars, RealmCellsOK
<1>23. CASE ListenerReturns
  BY <1>23, StallAssumption
  DEF ListenerReturns, beatVars, ioVars, lifeVars, verbVars, workerVars,
  RealmCellsOK
<1>24. CASE ListenerThrows
  BY <1>24, StallAssumption
  DEF ListenerThrows, beatVars, ioVars, lifeVars, verbVars, workerVars,
  RealmCellsOK
<1>25. CASE ListenerFails
  BY <1>25, StallAssumption
  DEF ListenerFails, beatVars, ioVars, verbVars, workerVars, RealmCellsOK
<1>26. ASSUME NEW how \in {"deaf", "wedged"}, ListenerStalls(how) PROVE RealmCellsOK'
  BY <1>26, StallAssumption
  DEF ListenerStalls, beatVars, ioVars, lifeVars, verbVars, workerVars,
  RealmCellsOK
<1>27. CASE ProcessKilled
  BY <1>27, StallAssumption
  DEF ProcessKilled, RealmCellsOK
<1>28. CASE UNCHANGED realmVars
  BY <1>28, StallAssumption
  DEF RealmCellsOK, lifeVars, ioVars, beatVars, verbVars, workerVars,
  realmVars
<1> QED
  BY <1>1, <1>2, <1>3, <1>4, <1>5, <1>6, <1>7, <1>8, <1>9, <1>10, <1>11,
  <1>12, <1>13, <1>14, <1>15, <1>16, <1>17, <1>18, <1>19, <1>20, <1>21, <1>22,
  <1>23, <1>24, <1>25, <1>26, <1>27, <1>28
  DEF Next, Call, Verb, Worker, Thread

(* Every step keeps what the worker's place says.                          *)
LEMMA RunStep == RealmFlagsOK /\ RealmCellsOK /\ RunInv /\ [Next]_realmVars => RunInv'
<1> SUFFICES ASSUME RealmFlagsOK, RealmCellsOK, RunInv, [Next]_realmVars PROVE RunInv' OBVIOUS
<1>1. CASE StartRefused
  BY <1>1
  DEF StartRefused, Returns, Settled, beatVars, ioVars, lifeVars, workerVars,
  RealmFlagsOK, RealmCellsOK, RunInv, RealmStoppedIsOver
<1>2. CASE StartSignals
  BY <1>2
  DEF StartSignals, GoesTo, Settled, StopIo, beatVars, workerVars,
  RealmFlagsOK, RealmCellsOK, RunInv, RealmStoppedIsOver
<1>3. CASE StopAnswers
  BY <1>3
  DEF StopAnswers, Returns, beatVars, ioVars, lifeVars, workerVars,
  RealmFlagsOK, RealmCellsOK, RunInv, RealmStoppedIsOver
<1>4. CASE StopSignals
  BY <1>4
  DEF StopSignals, GoesTo, StopIo, beatVars, workerVars, RealmFlagsOK,
  RealmCellsOK, RunInv, RealmStoppedIsOver
<1>5. CASE StartSpawns
  BY <1>5
  DEF StartSpawns, Returns, beatVars, ioVars, RealmFlagsOK, RealmCellsOK,
  RunInv, RealmStoppedIsOver
<1>6. CASE StopWaits
  BY <1>6
  DEF StopWaits, GoesTo, Returns, Settled, beatVars, ioVars, workerVars,
  RealmFlagsOK, RealmCellsOK, RunInv, RealmStoppedIsOver
<1>7. CASE StopJoins
  BY <1>7
  DEF StopJoins, Returns, beatVars, ioVars, workerVars, RealmFlagsOK,
  RealmCellsOK, RunInv, RealmStoppedIsOver
<1>8. CASE StopFinishes
  BY <1>8
  DEF StopFinishes, Returns, beatVars, workerVars, RealmFlagsOK, RealmCellsOK,
  RunInv, RealmStoppedIsOver
<1>9. CASE BootFails
  BY <1>9
  DEF BootFails, beatVars, verbVars, RealmFlagsOK, RealmCellsOK, RunInv,
  RealmStoppedIsOver
<1>10. CASE BootOpens
  BY <1>10
  DEF BootOpens, beatVars, lifeVars, verbVars, RealmFlagsOK, RealmCellsOK,
  RunInv, RealmStoppedIsOver
<1>11. CASE CreatesIo
  BY <1>11
  DEF CreatesIo, beatVars, lifeVars, verbVars, RealmFlagsOK, RealmCellsOK,
  RunInv, RealmStoppedIsOver
<1>12. CASE ListenFails
  BY <1>12
  DEF ListenFails, beatVars, ioVars, verbVars, RealmFlagsOK, RealmCellsOK,
  RunInv, RealmStoppedIsOver
<1>13. CASE BootThrows
  BY <1>13
  DEF BootThrows, CleansUp, beatVars, ioVars, lifeVars, verbVars,
  RealmFlagsOK, RealmCellsOK, RunInv, RealmStoppedIsOver
<1>14. CASE Listens
  BY <1>14
  DEF Listens, beatVars, ioVars, lifeVars, verbVars, RealmFlagsOK,
  RealmCellsOK, RunInv, RealmStoppedIsOver
<1>15. CASE Publishes
  BY <1>15
  DEF Publishes, ioVars, verbVars, RealmFlagsOK, RealmCellsOK, RunInv,
  RealmStoppedIsOver
<1>16. CASE LoopTests
  BY <1>16
  DEF LoopTests, CleansUp, beatVars, ioVars, lifeVars, verbVars, RealmFlagsOK,
  RealmCellsOK, RunInv, RealmStoppedIsOver
<1>17. CASE Beats
  BY <1>17
  DEF Beats, CleansUp, ioVars, verbVars, RealmFlagsOK, RealmCellsOK, RunInv,
  RealmStoppedIsOver
<1>18. CASE CleanupStops
  BY <1>18
  DEF CleanupStops, StopIo, beatVars, lifeVars, verbVars, RealmFlagsOK,
  RealmCellsOK, RunInv, RealmStoppedIsOver
<1>19. CASE CleanupJoins
  BY <1>19
  DEF CleanupJoins, beatVars, ioVars, lifeVars, verbVars, RealmFlagsOK,
  RealmCellsOK, RunInv, RealmStoppedIsOver
<1>20. CASE CleanupCloses
  BY <1>20
  DEF CleanupCloses, beatVars, lifeVars, verbVars, RealmFlagsOK, RealmCellsOK,
  RunInv, RealmStoppedIsOver
<1>21. CASE WorkerRecords
  BY <1>21
  DEF WorkerRecords, beatVars, ioVars, verbVars, RealmFlagsOK, RealmCellsOK,
  RunInv, RealmStoppedIsOver
<1>22. CASE KeepAlive
  BY <1>22
  DEF KeepAlive, ioVars, lifeVars, verbVars, workerVars, RealmFlagsOK,
  RealmCellsOK, RunInv, RealmStoppedIsOver
<1>23. CASE ListenerReturns
  BY <1>23
  DEF ListenerReturns, beatVars, ioVars, lifeVars, verbVars, workerVars,
  RealmFlagsOK, RealmCellsOK, RunInv, RealmStoppedIsOver
<1>24. CASE ListenerThrows
  BY <1>24
  DEF ListenerThrows, beatVars, ioVars, lifeVars, verbVars, workerVars,
  RealmFlagsOK, RealmCellsOK, RunInv, RealmStoppedIsOver
<1>25. CASE ListenerFails
  BY <1>25
  DEF ListenerFails, beatVars, ioVars, verbVars, workerVars, RealmFlagsOK,
  RealmCellsOK, RunInv, RealmStoppedIsOver
<1>26. ASSUME NEW how \in {"deaf", "wedged"}, ListenerStalls(how) PROVE RunInv'
  BY <1>26
  DEF ListenerStalls, beatVars, ioVars, lifeVars, verbVars, workerVars,
  RealmFlagsOK, RealmCellsOK, RunInv, RealmStoppedIsOver
<1>27. CASE ProcessKilled
  BY <1>27
  DEF ProcessKilled, RealmFlagsOK, RealmCellsOK, RunInv, RealmStoppedIsOver
<1>28. CASE UNCHANGED realmVars
  BY <1>28
  DEF RealmFlagsOK, RealmCellsOK, RunInv, RealmStoppedIsOver, lifeVars,
  ioVars, beatVars, verbVars, workerVars, realmVars
<1> QED
  BY <1>1, <1>2, <1>3, <1>4, <1>5, <1>6, <1>7, <1>8, <1>9, <1>10, <1>11,
  <1>12, <1>13, <1>14, <1>15, <1>16, <1>17, <1>18, <1>19, <1>20, <1>21, <1>22,
  <1>23, <1>24, <1>25, <1>26, <1>27, <1>28
  DEF Next, Call, Verb, Worker, Thread

(* The threads keep every cell of the login server in its type, whatever   *)
(* they interleave.                                                        *)
THEOREM RealmTypeCorrect == Spec => []RealmTypeOK
  BY RealmInitTypes, RealmFlagsStep, RealmCellsStep, PTL DEF Spec, RealmTypeOK

(* Whoever reads STOPPED finds the worker, the listener thread, the socket *)
(* and the login database gone.                                            *)
THEOREM RealmStoppedIsFinal == Spec => []RealmStoppedIsOver
<1>1. Init => RunInv
  BY DEF Init, RunInv, RealmStoppedIsOver
<1>2. RunInv => RealmStoppedIsOver
  BY DEF RunInv
<1> QED
  BY RealmInitTypes, RealmFlagsStep, RealmCellsStep, RunStep, <1>1, <1>2, PTL DEF Spec

=============================================================================
