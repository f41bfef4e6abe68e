------------------------- MODULE WorldRuntimeProofs -------------------------
(***************************************************************************)
(* Proofs about WorldRuntime for every HardStallFailStreak: the cells keep *)
(* their types, no live world thread loses its databases, READY implies a  *)
(* completed tick, and STOPPED means that the run is over.                 *)
(***************************************************************************)
EXTENDS WorldRuntime, TLAPS

(* What the worker's place in run() says about the world thread: between   *)
(* Launches and the join in cleanup() the thread may be live, m_started is *)
(* armed and the pools are open; a live thread met by cleanup() is always  *)
(* joined, since m_started was armed before it was launched.               *)
BootPlaces == {"init", "launch", "gate", "listen", "recheck", "publish", "loop"}

ThreadPlaces == {"gate", "listen", "recheck", "publish", "loop", "clean", "join"}

PlacesInv ==
    /\ rpc \in BootPlaces => dbOpen
    /\ rpc = "launch" => started
    /\ tpc \in Live => rpc \in ThreadPlaces /\ started /\ dbOpen
    /\ rpc \in {"none", "record"} => ~dbOpen
    /\ state = "STOPPED" => rpc = "none"

(* firstTick outlives every place that leads to READY or SAVING: only      *)
(* start() clears it, and start() and save() exclude each other.           *)
TickInv ==
    /\ rpc \in {"listen", "recheck", "publish", "loop"} => firstTick
    /\ vpc \in {"mark", "saving", "unmark"} => firstTick
    /\ ReadyMeansTicked

(* Every step keeps the flags Boolean.                                     *)
LEMMA FlagsStep == FlagsOK /\ [Next]_worldVars => FlagsOK'
<1> SUFFICES ASSUME FlagsOK, [Next]_worldVars PROVE FlagsOK' OBVIOUS
<1>1. CASE StartRefused
  BY <1>1
  DEF StartRefused, Returns, Settled, chatVars, coreVars, workerVars, FlagsOK
<1>2. CASE StartEnters
  BY <1>2
  DEF StartEnters, GoesTo, Settled, chatVars, coreVars, recordVars,
  workerVars, FlagsOK
<1>3. CASE StopEnters
  BY <1>3
  DEF StopEnters, GoesTo, Returns, Settled, chatVars, coreVars, recordVars,
  workerVars, FlagsOK
<1>4. CASE SaveEnters
  BY <1>4
  DEF SaveEnters, GoesTo, Returns, chatVars, coreVars, recordVars, workerVars,
  FlagsOK
<1>5. CASE ChatEnters
  BY <1>5
  DEF ChatEnters, GoesTo, Returns, chatVars, coreVars, recordVars, workerVars,
  FlagsOK
<1>6. ASSUME NEW p \in BOOLEAN, SetPaused(p) PROVE FlagsOK'
  BY <1>6
  DEF SetPaused, chatVars, recordVars, verbVars, workerVars, FlagsOK
<1>7. CASE StartSettles
  BY <1>7
  DEF StartSettles, GoesTo, chatVars, coreVars, workerVars, FlagsOK
<1>8. CASE StartSpawns
  BY <1>8
  DEF StartSpawns, GoesTo, ResetChat, coreVars, FlagsOK
<1>9. CASE StartOverlaps
  BY <1>9
  DEF StartOverlaps, GoesTo, chatVars, coreVars, recordVars, workerVars,
  FlagsOK
<1>10. CASE StartAnswers
  BY <1>10
  DEF StartAnswers, Returns, chatVars, coreVars, recordVars, workerVars,
  FlagsOK
<1>11. CASE StopSignals
  BY <1>11
  DEF StopSignals, GoesTo, chatVars, workerVars, FlagsOK
<1>12. CASE StopWaits
  BY <1>12
  DEF StopWaits, GoesTo, Returns, Settled, chatVars, coreVars, workerVars,
  FlagsOK
<1>13. CASE StopSettles
  BY <1>13
  DEF StopSettles, Returns, chatVars, coreVars, workerVars, FlagsOK
<1>14. CASE SaveMarks
  BY <1>14
  DEF SaveMarks, chatVars, coreVars, workerVars, FlagsOK
<1>15. CASE SaveReturns
  BY <1>15
  DEF SaveReturns, chatVars, coreVars, recordVars, workerVars, FlagsOK
<1>16. CASE SaveUnmarks
  BY <1>16
  DEF SaveUnmarks, chatVars, coreVars, workerVars, FlagsOK
<1>17. CASE ChatReturns
  BY <1>17
  DEF ChatReturns, Returns, coreVars, recordVars, workerVars, FlagsOK
<1>18. CASE OpenFails
  BY <1>18
  DEF OpenFails, CleansUp, chatVars, verbVars, FlagsOK
<1>19. CASE OpenSucceeds
  BY <1>19
  DEF OpenSucceeds, chatVars, recordVars, verbVars, FlagsOK
<1>20. CASE InitFails
  BY <1>20
  DEF InitFails, CleansUp, chatVars, coreVars, verbVars, FlagsOK
<1>21. CASE InitSucceeds
  BY <1>21
  DEF InitSucceeds, chatVars, coreVars, verbVars, FlagsOK
<1>22. CASE Launches
  BY <1>22
  DEF Launches, chatVars, recordVars, verbVars, FlagsOK
<1>23. CASE GateOpens
  BY <1>23
  DEF GateOpens, chatVars, coreVars, recordVars, verbVars, FlagsOK
<1>24. CASE GateFails
  BY <1>24
  DEF GateFails, CleansUp, NetworkRefuses, chatVars, coreVars, verbVars,
  FlagsOK
<1>25. CASE ListenFails
  BY <1>25
  DEF ListenFails, CleansUp, NetworkRefuses, chatVars, coreVars, verbVars,
  FlagsOK
<1>26. CASE Listens
  BY <1>26
  DEF Listens, chatVars, coreVars, recordVars, verbVars, FlagsOK
<1>27. CASE BootThrows
  BY <1>27
  DEF BootThrows, CleansUp, chatVars, coreVars, recordVars, verbVars, FlagsOK
<1>28. CASE Rechecks
  BY <1>28
  DEF Rechecks, CleansUp, chatVars, coreVars, verbVars, FlagsOK
<1>29. CASE Publishes
  BY <1>29
  DEF Publishes, chatVars, coreVars, verbVars, FlagsOK
<1>30. CASE LoopEnds
  BY <1>30
  DEF LoopEnds, CleansUp, chatVars, coreVars, recordVars, verbVars, FlagsOK
<1>31. CASE CleanupStops
  BY <1>31
  DEF CleanupStops, ResetChat, recordVars, verbVars, FlagsOK
<1>32. CASE CleanupJoins
  BY <1>32
  DEF CleanupJoins, chatVars, coreVars, verbVars, FlagsOK
<1>33. CASE CleanupCloses
  BY <1>33
  DEF CleanupCloses, chatVars, recordVars, verbVars, FlagsOK
<1>34. CASE WorkerRecords
  BY <1>34
  DEF WorkerRecords, chatVars, coreVars, verbVars, FlagsOK
<1>35. CASE ThreadTests
  BY <1>35
  DEF ThreadTests, chatVars, coreVars, recordVars, verbVars, workerVars,
  FlagsOK
<1>36. CASE ThreadUpdates
  BY <1>36
  DEF ThreadUpdates, Acknowledges, MaxInjected, coreVars, workerVars, FlagsOK
<1>37. ASSUME NEW ok \in BOOLEAN, ThreadDrains(ok) PROVE FlagsOK'
  BY <1>37
  DEF ThreadDrains, coreVars, recordVars, verbVars, workerVars, FlagsOK
<1>38. ASSUME NEW slow \in BOOLEAN, ThreadAccounts(slow) PROVE FlagsOK'
  BY <1>38
  DEF ThreadAccounts, chatVars, verbVars, workerVars, FlagsOK
<1>39. CASE ThreadTicksPaused
  BY <1>39
  DEF ThreadTicksPaused, Acknowledges, chatVars, coreVars, recordVars,
  workerVars, FlagsOK
<1>40. CASE ThreadWedges
  BY <1>40
  DEF ThreadWedges, chatVars, coreVars, recordVars, verbVars, workerVars,
  FlagsOK
<1>41. CASE ThreadLeaves
  BY <1>41
  DEF ThreadLeaves, chatVars, coreVars, recordVars, verbVars, workerVars,
  FlagsOK
<1>42. CASE OutOfScope
  BY <1>42
  DEF OutOfScope, chatVars, coreVars, recordVars, verbVars, workerVars,
  worldVars, FlagsOK
<1>43. CASE UNCHANGED worldVars
  BY <1>43
  DEF FlagsOK, recordVars, coreVars, verbVars, chatVars, workerVars, worldVars
<1> QED
  BY <1>1, <1>2, <1>3, <1>4, <1>5, <1>6, <1>7, <1>8, <1>9, <1>10, <1>11,
  <1>12, <1>13, <1>14, <1>15, <1>16, <1>17, <1>18, <1>19, <1>20, <1>21, <1>22,
  <1>23, <1>24, <1>25, <1>26, <1>27, <1>28, <1>29, <1>30, <1>31, <1>32, <1>33,
  <1>34, <1>35, <1>36, <1>37, <1>38, <1>39, <1>40, <1>41, <1>42, <1>43
  DEF Next, Call, Verb, Worker, Thread

(* Every step keeps the other cells in their sets.                         *)
LEMMA CellsStep == CellsOK /\ [Next]_worldVars => CellsOK'
<1> SUFFICES ASSUME CellsOK, [Next]_worldVars PROVE CellsOK' OBVIOUS
<1>1. CASE StartRefused
  BY <1>1, StreakAssumption
  DEF StartRefused, Returns, Settled, chatVars, coreVars, workerVars, CellsOK,
  Live
<1>2. CASE StartEnters
  BY <1>2, StreakAssumption
  DEF StartEnters, GoesTo, Settled, chatVars, coreVars, recordVars,
  workerVars, CellsOK, Live
<1>3. CASE StopEnters
  BY <1>3, StreakAssumption
  DEF StopEnters, GoesTo, Returns, Settled, chatVars, coreVars, recordVars,
  workerVars, CellsOK, Live
<1>4. CASE SaveEnters
  BY <1>4, StreakAssumption
  DEF SaveEnters, GoesTo, Returns, chatVars, coreVars, recordVars, workerVars,
  CellsOK, Live
<1>5. CASE ChatEnters
  BY <1>5, StreakAssumption
  DEF ChatEnters, GoesTo, Returns, chatVars, coreVars, recordVars, workerVars,
  CellsOK, Live
<1>6. ASSUME NEW p \in BOOLEAN, SetPaused(p) PROVE CellsOK'
  BY <1>6, StreakAssumption
  DEF SetPaused, chatVars, recordVars, verbVars, workerVars, CellsOK, Live
<1>7. CASE StartSettles
  BY <1>7, StreakAssumption
  DEF StartSettles, GoesTo, chatVars, coreVars, workerVars, CellsOK, Live
<1>8. CASE StartSpawns
  BY <1>8, StreakAssumption
  DEF StartSpawns, GoesTo, ResetChat, coreVars, CellsOK, Live
<1>9. CASE StartOverlaps
  BY <1>9, StreakAssumption
  DEF StartOverlaps, GoesTo, chatVars, coreVars, recordVars, workerVars,
  CellsOK, Live
<1>10. CASE StartAnswers
  BY <1>10, StreakAssumption
  DEF StartAnswers, Returns, chatVars, coreVars, recordVars, workerVars,
  CellsOK, Live
<1>11. CASE StopSignals
  BY <1>11, StreakAssumption
  DEF StopSignals, GoesTo, chatVars, workerVars, CellsOK, Live
<1>12. CASE StopWaits
  BY <1>12, StreakAssumption
  DEF StopWaits, GoesTo, Returns, Settled, chatVars, coreVars, workerVars,
  CellsOK, Live
<1>13. CASE StopSettles
  BY <1>13, StreakAssumption
  DEF StopSettles, Returns, chatVars, coreVars, workerVars, CellsOK, Live
<1>14. CASE SaveMarks
  BY <1>14, StreakAssumption
  DEF SaveMarks, chatVars, coreVars, workerVars, CellsOK, Live
<1>15. CASE SaveReturns
  BY <1>15, StreakAssumption
  DEF SaveReturns, chatVars, coreVars, recordVars, workerVars, CellsOK, Live
<1>16. CASE SaveUnmarks
  BY <1>16, StreakAssumption
  DEF SaveUnmarks, chatVars, coreVars, workerVars, CellsOK, Live
<1>17. CASE ChatReturns
  BY <1>17, StreakAssumption
  DEF ChatReturns, Returns, coreVars, recordVars, workerVars, CellsOK, Live
<1>18. CASE OpenFails
  BY <1>18, StreakAssumption
  DEF OpenFails, CleansUp, chatVars, verbVars, CellsOK, Live
<1>19. CASE OpenSucceeds
  BY <1>19, StreakAssumption
  DEF OpenSucceeds, chatVars, recordVars, verbVars, CellsOK, Live
<1>20. CASE InitFails
  BY <1>20, StreakAssumption
  DEF InitFails, CleansUp, chatVars, coreVars, verbVars, CellsOK, Live
<1>21. CASE InitSucceeds
  BY <1>21, StreakAssumption
  DEF InitSucceeds, chatVars, coreVars, verbVars, CellsOK, Live
<1>22. CASE Launches
  BY <1>22, StreakAssumption
  DEF Launches, chatVars, recordVars, verbVars, CellsOK, Live
<1>23. CASE GateOpens
  BY <1>23, StreakAssumption
  DEF GateOpens, chatVars, coreVars, recordVars, verbVars, CellsOK, Live
<1>24. CASE GateFails
  BY <1>24, StreakAssumption
  DEF GateFails, CleansUp, NetworkRefuses, chatVars, coreVars, verbVars,
  CellsOK, Live
<1>25. CASE ListenFails
  BY <1>25, StreakAssumption
  DEF ListenFails, CleansUp, NetworkRefuses, chatVars, coreVars, verbVars,
  CellsOK, Live
<1>26. CASE Listens
  BY <1>26, StreakAssumption
  DEF Listens, chatVars, coreVars, recordVars, verbVars, CellsOK, Live
<1>27. CASE BootThrows
  BY <1>27, StreakAssumption
  DEF BootThrows, CleansUp, chatVars, coreVars, recordVars, verbVars, CellsOK,
  Live
<1>28. CASE Rechecks
  BY <1>28, StreakAssumption
  DEF Rechecks, CleansUp, chatVars, coreVars, verbVars, CellsOK, Live
<1>29. CASE Publishes
  BY <1>29, StreakAssumption
  DEF Publishes, chatVars, coreVars, verbVars, CellsOK, Live
<1>30. CASE LoopEnds
  BY <1>30, StreakAssumption
  DEF LoopEnds, CleansUp, chatVars, coreVars, recordVars, verbVars, CellsOK,
  Live
<1>31. CASE CleanupStops
  BY <1>31, StreakAssumption
  DEF CleanupStops, ResetChat, recordVars, verbVars, CellsOK, Live
<1>32. CASE CleanupJoins
  BY <1>32, StreakAssumption
  DEF CleanupJoins, chatVars, coreVars, verbVars, CellsOK, Live
<1>33. CASE CleanupCloses
  BY <1>33, StreakAssumption
  DEF CleanupCloses, chatVars, recordVars, verbVars, CellsOK, Live
<1>34. CASE WorkerRecords
  BY <1>34, StreakAssumption
  DEF WorkerRecords, chatVars, coreVars, verbVars, CellsOK, Live
<1>35. CASE ThreadTests
  BY <1>35, StreakAssumption
  DEF ThreadTests, chatVars, coreVars, recordVars, verbVars, workerVars,
  CellsOK, Live
<1>36. CASE ThreadUpdates
  BY <1>36, StreakAssumption
  DEF ThreadUpdates, Acknowledges, MaxInjected, coreVars, workerVars, CellsOK,
  Live
<1>37. ASSUME NEW ok \in BOOLEAN, ThreadDrains(ok) PROVE CellsOK'
  BY <1>37, StreakAssumption
  DEF ThreadDrains, coreVars, recordVars, verbVars, workerVars, CellsOK, Live
<1>38. ASSUME NEW slow \in BOOLEAN, ThreadAccounts(slow) PROVE CellsOK'
  BY <1>38, StreakAssumption
  DEF ThreadAccounts, chatVars, verbVars, workerVars, CellsOK, Live
<1>39. CASE ThreadTicksPaused
  BY <1>39, StreakAssumption
  DEF ThreadTicksPaused, Acknowledges, chatVars, coreVars, recordVars,
  workerVars, CellsOK, Live
<1>40. CASE ThreadWedges
  BY <1>40, StreakAssumption
  DEF ThreadWedges, chatVars, coreVars, recordVars, verbVars, workerVars,
  CellsOK, Live
<1>41. CASE ThreadLeaves
  BY <1>41, StreakAssumption
  DEF ThreadLeaves, chatVars, coreVars, recordVars, verbVars, workerVars,
  CellsOK, Live
<1>42. CASE OutOfScope
  BY <1>42, StreakAssumption
  DEF OutOfScope, chatVars, coreVars, recordVars, verbVars, workerVars,
  worldVars, CellsOK, Live
<1>43. CASE UNCHANGED worldVars
  BY <1>43, StreakAssumption
  DEF CellsOK, Live, recordVars, coreVars, verbVars, chatVars, workerVars,
  worldVars
<1> QED
  BY <1>1, <1>2, <1>3, <1>4, <1>5, <1>6, <1>7, <1>8, <1>9, <1>10, <1>11,
  <1>12, <1>13, <1>14, <1>15, <1>16, <1>17, <1>18, <1>19, <1>20, <1>21, <1>22,
  <1>23, <1>24, <1>25, <1>26, <1>27, <1>28, <1>29, <1>30, <1>31, <1>32, <1>33,
  <1>34, <1>35, <1>36, <1>37, <1>38, <1>39, <1>40, <1>41, <1>42, <1>43
  DEF Next, Call, Verb, Worker, Thread

(* Every step keeps what the worker's place says about the world thread.   *)
LEMMA PlacesStep == FlagsOK /\ CellsOK /\ PlacesInv /\ [Next]_worldVars => PlacesInv'
<1> SUFFICES ASSUME FlagsOK, CellsOK, PlacesInv, [Next]_worldVars PROVE PlacesInv' OBVIOUS
<1>1. CASE StartRefused
  BY <1>1
  DEF StartRefused, Returns, Settled, chatVars, coreVars, workerVars, FlagsOK,
  CellsOK, Live, PlacesInv, BootPlaces, ThreadPlaces
<1>2. CASE StartEnters
  BY <1>2
  DEF StartEnters, GoesTo, Settled, chatVars, coreVars, recordVars,
  workerVars, FlagsOK, CellsOK, Live, PlacesInv, BootPlaces, ThreadPlaces
<1>3. CASE StopEnters
  BY <1>3
  DEF StopEnters, GoesTo, Returns, Settled, chatVars, coreVars, recordVars,
  workerVars, FlagsOK, CellsOK, Live, PlacesInv, BootPlaces, ThreadPlaces
<1>4. CASE SaveEnters
  BY <1>4
  DEF SaveEnters, GoesTo, Returns, chatVars, coreVars, recordVars, workerVars,
  FlagsOK, CellsOK, Live, PlacesInv, BootPlaces, ThreadPlaces
<1>5. CASE ChatEnters
  BY <1>5
  DEF ChatEnters, GoesTo, Returns, chatVars, coreVars, recordVars, workerVars,
  FlagsOK, CellsOK, Live, PlacesInv, BootPlaces, ThreadPlaces
<1>6. ASSUME NEW p \in BOOLEAN, SetPaused(p) PROVE PlacesInv'
  BY <1>6
  DEF SetPaused, chatVars, recordVars, verbVars, workerVars, FlagsOK, CellsOK,
  Live, PlacesInv, BootPlaces, ThreadPlaces
<1>7. CASE StartSettles
  BY <1>7
  DEF StartSettles, GoesTo, chatVars, coreVars, workerVars, FlagsOK, CellsOK,
  Live, PlacesInv, BootPlaces, ThreadPlaces
<1>8. CASE StartSpawns
  BY <1>8
  DEF StartSpawns, GoesTo, ResetChat, coreVars, FlagsOK, CellsOK, Live,
  PlacesInv, BootPlaces, ThreadPlaces
<1>9. CASE StartOverlaps
  BY <1>9
  DEF StartOverlaps, GoesTo, chatVars, coreVars, recordVars, workerVars,
  FlagsOK, CellsOK, Live, PlacesInv, BootPlaces, ThreadPlaces
<1>10. CASE StartAnswers
  BY <1>10
  DEF StartAnswers, Returns, chatVars, coreVars, recordVars, workerVars,
  FlagsOK, CellsOK, Live, PlacesInv, BootPlaces, ThreadPlaces
<1>11. CASE StopSignals
  BY <1>11
  DEF StopSignals, GoesTo, chatVars, workerVars, FlagsOK, CellsOK, Live,
  PlacesInv, BootPlaces, ThreadPlaces
<1>12. CASE StopWaits
  BY <1>12
  DEF StopWaits, GoesTo, Returns, Settled, chatVars, coreVars, workerVars,
  FlagsOK, CellsOK, Live, PlacesInv, BootPlaces, ThreadPlaces
<1>13. CASE StopSettles
  BY <1>13
  DEF StopSettles, Returns, chatVars, coreVars, workerVars, FlagsOK, CellsOK,
  Live, PlacesInv, BootPlaces, ThreadPlaces
<1>14. CASE SaveMarks
  BY <1>14
  DEF SaveMarks, chatVars, coreVars, workerVars, FlagsOK, CellsOK, Live,
  PlacesInv, BootPlaces, ThreadPlaces
<1>15. CASE SaveReturns
  BY <1>15
  DEF SaveReturns, chatVars, coreVars, recordVars, workerVars, FlagsOK,
  CellsOK, Live, PlacesInv, BootPlaces, ThreadPlaces
<1>16. CASE SaveUnmarks
  BY <1>16
  DEF SaveUnmarks, chatVars, coreVars, workerVars, FlagsOK, CellsOK, Live,
  PlacesInv, BootPlaces, ThreadPlaces
<1>17. CASE ChatReturns
  BY <1>17
  DEF ChatReturns, Returns, coreVars, recordVars, workerVars, FlagsOK,
  CellsOK, Live, PlacesInv, BootPlaces, ThreadPlaces
<1>18. CASE OpenFails
  BY <1>18
  DEF OpenFails, CleansUp, chatVars, verbVars, FlagsOK, CellsOK, Live,
  PlacesInv, BootPlaces, ThreadPlaces
<1>19. CASE OpenSucceeds
  BY <1>19
  DEF OpenSucceeds, chatVars, recordVars, verbVars, FlagsOK, CellsOK, Live,
  PlacesInv, BootPlaces, ThreadPlaces
<1>20. CASE InitFails
  BY <1>20
  DEF InitFails, CleansUp, chatVars, coreVars, verbVars, FlagsOK, CellsOK,
  Live, PlacesInv, BootPlaces, ThreadPlaces
<1>21. CASE InitSucceeds
  BY <1>21
  DEF InitSucceeds, chatVars, coreVars, verbVars, FlagsOK, CellsOK, Live,
  PlacesInv, BootPlaces, ThreadPlaces
<1>22. CASE Launches
  BY <1>22
  DEF Launches, chatVars, recordVars, verbVars, FlagsOK, CellsOK, Live,
  PlacesInv, BootPlaces, ThreadPlaces
<1>23. CASE GateOpens
  BY <1>23
  DEF GateOpens, chatVars, coreVars, recordVars, verbVars, FlagsOK, CellsOK,
  Live, PlacesInv, BootPlaces, ThreadPlaces
<1>24. CASE GateFails
  BY <1>24
  DEF GateFails, CleansUp, NetworkRefuses, chatVars, coreVars, verbVars,
  FlagsOK, CellsOK, Live, PlacesInv, BootPlaces, ThreadPlaces
<1>25. CASE ListenFails
  BY <1>25
  DEF ListenFails, CleansUp, NetworkRefuses, chatVars, coreVars, verbVars,
  FlagsOK, CellsOK, Live, PlacesInv, BootPlaces, ThreadPlaces
<1>26. CASE Listens
  BY <1>26
  DEF Listens, chatVars, coreVars, recordVars, verbVars, FlagsOK, CellsOK,
  Live, PlacesInv, BootPlaces, ThreadPlaces
<1>27. CASE BootThrows
  BY <1>27
  DEF BootThrows, CleansUp, chatVars, coreVars, recordVars, verbVars, FlagsOK,
  CellsOK, Live, PlacesInv, BootPlaces, ThreadPlaces
<1>28. CASE Rechecks
  BY <1>28
  DEF Rechecks, CleansUp, chatVars, coreVars, verbVars, FlagsOK, CellsOK,
  Live, PlacesInv, BootPlaces, ThreadPlaces
<1>29. CASE Publishes
  BY <1>29
  DEF Publishes, chatVars, coreVars, verbVars, FlagsOK, CellsOK, Live,
  PlacesInv, BootPlaces, ThreadPlaces
<1>30. CASE LoopEnds
  BY <1>30
  DEF LoopEnds, CleansUp, chatVars, coreVars, recordVars, verbVars, FlagsOK,
  CellsOK, Live, PlacesInv, BootPlaces, ThreadPlaces
<1>31. CASE CleanupStops
  BY <1>31
  DEF CleanupStops, ResetChat, recordVars, verbVars, FlagsOK, CellsOK, Live,
  PlacesInv, BootPlaces, ThreadPlaces
<1>32. CASE CleanupJoins
  BY <1>32
  DEF CleanupJoins, chatVars, coreVars, verbVars, FlagsOK, CellsOK, Live,
  PlacesInv, BootPlaces, ThreadPlaces
<1>33. CASE CleanupCloses
  BY <1>33
  DEF CleanupCloses, chatVars, recordVars, verbVars, FlagsOK, CellsOK, Live,
  PlacesInv, BootPlaces, ThreadPlaces
<1>34. CASE WorkerRecords
  BY <1>34
  DEF WorkerRecords, chatVars, coreVars, verbVars, FlagsOK, CellsOK, Live,
  PlacesInv, BootPlaces, ThreadPlaces
<1>35. CASE ThreadTests
  BY <1>35
  DEF ThreadTests, chatVars, coreVars, recordVars, verbVars, workerVars,
  FlagsOK, CellsOK, Live, PlacesInv, BootPlaces, ThreadPlaces
<1>36. CASE ThreadUpdates
  BY <1>36
  DEF ThreadUpdates, Acknowledges, MaxInjected, coreVars, workerVars, FlagsOK,
  CellsOK, Live, PlacesInv, BootPlaces, ThreadPlaces
<1>37. ASSUME NEW ok \in BOOLEAN, ThreadDrains(ok) PROVE PlacesInv'
  BY <1>37
  DEF ThreadDrains, coreVars, recordVars, verbVars, workerVars, FlagsOK,
  CellsOK, Live, PlacesInv, BootPlaces, ThreadPlaces
<1>38. ASSUME NEW slow \in BOOLEAN, ThreadAccounts(slow) PROVE PlacesInv'
  BY <1>38
  DEF ThreadAccounts, chatVars, verbVars, workerVars, FlagsOK, CellsOK, Live,
  PlacesInv, BootPlaces, ThreadPlaces
<1>39. CASE ThreadTicksPaused
  BY <1>39
  DEF ThreadTicksPaused, Acknowledges, chatVars, coreVars, recordVars,
  workerVars, FlagsOK, CellsOK, Live, PlacesInv, BootPlaces, ThreadPlaces
<1>40. CASE ThreadWedges
  BY <1>40
  DEF ThreadWedges, chatVars, coreVars, recordVars, verbVars, workerVars,
  FlagsOK, CellsOK, Live, PlacesInv, BootPlaces, ThreadPlaces
<1>41. CASE ThreadLeaves
  BY <1>41
  DEF ThreadLeaves, chatVars, coreVars, recordVars, verbVars, workerVars,
  FlagsOK, CellsOK, Live, PlacesInv, BootPlaces, ThreadPlaces
<1>42. CASE OutOfScope
  BY <1>42
  DEF OutOfScope, chatVars, coreVars, recordVars, verbVars, workerVars,
  worldVars, FlagsOK, CellsOK, Live, PlacesInv, BootPlaces, ThreadPlaces
<1>43. CASE UNCHANGED worldVars
  BY <1>43
  DEF FlagsOK, CellsOK, Live, PlacesInv, BootPlaces, ThreadPlaces, recordVars,
  coreVars, verbVars, chatVars, workerVars, worldVars
<1> QED
  BY <1>1, <1>2, <1>3, <1>4, <1>5, <1>6, <1>7, <1>8, <1>9, <1>10, <1>11,
  <1>12, <1>13, <1>14, <1>15, <1>16, <1>17, <1>18, <1>19, <1>20, <1>21, <1>22,
  <1>23, <1>24, <1>25, <1>26, <1>27, <1>28, <1>29, <1>30, <1>31, <1>32, <1>33,
  <1>34, <1>35, <1>36, <1>37, <1>38, <1>39, <1>40, <1>41, <1>42, <1>43
  DEF Next, Call, Verb, Worker, Thread

(* No step brings READY or SAVING forward, or clears the first tick under  *)
(* them.                                                                   *)
LEMMA TickStep == FlagsOK /\ CellsOK /\ TickInv /\ [Next]_worldVars => TickInv'
<1> SUFFICES ASSUME FlagsOK, CellsOK, TickInv, [Next]_worldVars PROVE TickInv' OBVIOUS
<1>1. CASE StartRefused
  BY <1>1
  DEF StartRefused, Returns, Settled, chatVars, coreVars, workerVars, FlagsOK,
  CellsOK, TickInv, ReadyMeansTicked
<1>2. CASE StartEnters
  BY <1>2
  DEF StartEnters, GoesTo, Settled, chatVars, coreVars, recordVars,
  workerVars, FlagsOK, CellsOK, TickInv, ReadyMeansTicked
<1>3. CASE StopEnters
  BY <1>3
  DEF StopEnters, GoesTo, Returns, Settled, chatVars, coreVars, recordVars,
  workerVars, FlagsOK, CellsOK, TickInv, ReadyMeansTicked
<1>4. CASE SaveEnters
  BY <1>4
  DEF SaveEnters, GoesTo, Returns, chatVars, coreVars, recordVars, workerVars,
  FlagsOK, CellsOK, TickInv, ReadyMeansTicked
<1>5. CASE ChatEnters
  BY <1>5
  DEF ChatEnters, GoesTo, Returns, chatVars, coreVars, recordVars, workerVars,
  FlagsOK, CellsOK, TickInv, ReadyMeansTicked
<1>6. ASSUME NEW p \in BOOLEAN, SetPaused(p) PROVE TickInv'
  BY <1>6
  DEF SetPaused, chatVars, recordVars, verbVars, workerVars, FlagsOK, CellsOK,
  TickInv, ReadyMeansTicked
<1>7. CASE StartSettles
  BY <1>7
  DEF StartSettles, GoesTo, chatVars, coreVars, workerVars, FlagsOK, CellsOK,
  TickInv, ReadyMeansTicked
<1>8. CASE StartSpawns
  BY <1>8
  DEF StartSpawns, GoesTo, ResetChat, coreVars, FlagsOK, CellsOK, TickInv,
  ReadyMeansTicked
<1>9. CASE StartOverlaps
  BY <1>9
  DEF StartOverlaps, GoesTo, chatVars, coreVars, recordVars, workerVars,
  FlagsOK, CellsOK, TickInv, ReadyMeansTicked
<1>10. CASE StartAnswers
  BY <1>10
  DEF StartAnswers, Returns, chatVars, coreVars, recordVars, workerVars,
  FlagsOK, CellsOK, TickInv, ReadyMeansTicked
<1>11. CASE StopSignals
  BY <1>11
  DEF StopSignals, GoesTo, chatVars, workerVars, FlagsOK, CellsOK, TickInv,
  ReadyMeansTicked
<1>12. CASE StopWaits
  BY <1>12
  DEF StopWaits, GoesTo, Returns, Settled, chatVars, coreVars, workerVars,
  FlagsOK, CellsOK, TickInv, ReadyMeansTicked
<1>13. CASE StopSettles
  BY <1>13
  DEF StopSettles, Returns, chatVars, coreVars, workerVars, FlagsOK, CellsOK,
  TickInv, ReadyMeansTicked
<1>14. CASE SaveMarks
  BY <1>14
  DEF SaveMarks, chatVars, coreVars, workerVars, FlagsOK, CellsOK, TickInv,
  ReadyMeansTicked
<1>15. CASE SaveReturns
  BY <1>15
  DEF SaveReturns, chatVars, coreVars, recordVars, workerVars, FlagsOK,
  CellsOK, TickInv, ReadyMeansTicked
<1>16. CASE SaveUnmarks
  BY <1>16
  DEF SaveUnmarks, chatVars, coreVars, workerVars, FlagsOK, CellsOK, TickInv,
  ReadyMeansTicked
<1>17. CASE ChatReturns
  BY <1>17
  DEF ChatReturns, Returns, coreVars, recordVars, workerVars, FlagsOK,
  CellsOK, TickInv, ReadyMeansTicked
<1>18. CASE OpenFails
  BY <1>18
  DEF OpenFails, CleansUp, chatVars, verbVars, FlagsOK, CellsOK, TickInv,
  ReadyMeansTicked
<1>19. CASE OpenSucceeds
  BY <1>19
  DEF OpenSucceeds, chatVars, recordVars, verbVars, FlagsOK, CellsOK, TickInv,
  ReadyMeansTicked
<1>20. CASE InitFails
  BY <1>20
  DEF InitFails, CleansUp, chatVars, coreVars, verbVars, FlagsOK, CellsOK,
  TickInv, ReadyMeansTicked
<1>21. CASE InitSucceeds
  BY <1>21
  DEF InitSucceeds, chatVars, coreVars, verbVars, FlagsOK, CellsOK, TickInv,
  ReadyMeansTicked
<1>22. CASE Launches
  BY <1>22
  DEF Launches, chatVars, recordVars, verbVars, FlagsOK, CellsOK, TickInv,
  ReadyMeansTicked
<1>23. CASE GateOpens
  BY <1>23
  DEF GateOpens, chatVars, coreVars, recordVars, verbVars, FlagsOK, CellsOK,
  FirstTickWaited, TickInv, ReadyMeansTicked
<1>24. CASE GateFails
  BY <1>24
  DEF GateFails, CleansUp, NetworkRefuses, chatVars, coreVars, verbVars,
  FlagsOK, CellsOK, TickInv, ReadyMeansTicked
<1>25. CASE ListenFails
  BY <1>25
  DEF ListenFails, CleansUp, NetworkRefuses, chatVars, coreVars, verbVars,
  FlagsOK, CellsOK, TickInv, ReadyMeansTicked
<1>26. CASE Listens
  BY <1>26
  DEF Listens, chatVars, coreVars, recordVars, verbVars, FlagsOK, CellsOK,
  TickInv, ReadyMeansTicked
<1>27. CASE BootThrows
  BY <1>27
  DEF BootThrows, CleansUp, chatVars, coreVars, recordVars, verbVars, FlagsOK,
  CellsOK, TickInv, ReadyMeansTicked
<1>28. CASE Rechecks
  BY <1>28
  DEF Rechecks, CleansUp, chatVars, coreVars, verbVars, FlagsOK, CellsOK,
  FirstTickWaited, TickInv, ReadyMeansTicked
<1>29. CASE Publishes
  BY <1>29
  DEF Publishes, chatVars, coreVars, verbVars, FlagsOK, CellsOK, TickInv,
  ReadyMeansTicked
<1>30. CASE LoopEnds
  BY <1>30
  DEF LoopEnds, CleansUp, chatVars, coreVars, recordVars, verbVars, FlagsOK,
  CellsOK, TickInv, ReadyMeansTicked
<1>31. CASE CleanupStops
  BY <1>31
  DEF CleanupStops, ResetChat, recordVars, verbVars, FlagsOK, CellsOK,
  TickInv, ReadyMeansTicked
<1>32. CASE CleanupJoins
  BY <1>32
  DEF CleanupJoins, chatVars, coreVars, verbVars, FlagsOK, CellsOK, TickInv,
  ReadyMeansTicked
<1>33. CASE CleanupCloses
  BY <1>33
  DEF CleanupCloses, chatVars, recordVars, verbVars, FlagsOK, CellsOK,
  TickInv, ReadyMeansTicked
<1>34. CASE WorkerRecords
  BY <1>34
  DEF WorkerRecords, chatVars, coreVars, verbVars, FlagsOK, CellsOK, TickInv,
  ReadyMeansTicked
<1>35. CASE ThreadTests
  BY <1>35
  DEF ThreadTests, chatVars, coreVars, recordVars, verbVars, workerVars,
  FlagsOK, CellsOK, TickInv, ReadyMeansTicked
<1>36. CASE ThreadUpdates
  BY <1>36
  DEF ThreadUpdates, Acknowledges, MaxInjected, coreVars, workerVars, FlagsOK,
  CellsOK, TickInv, ReadyMeansTicked
<1>37. ASSUME NEW ok \in BOOLEAN, ThreadDrains(ok) PROVE TickInv'
  BY <1>37
  DEF ThreadDrains, coreVars, recordVars, verbVars, workerVars, FlagsOK,
  CellsOK, TickInv, ReadyMeansTicked
<1>38. ASSUME NEW slow \in BOOLEAN, ThreadAccounts(slow) PROVE TickInv'
  BY <1>38
  DEF ThreadAccounts, chatVars, verbVars, workerVars, FlagsOK, CellsOK,
  TickInv, ReadyMeansTicked
<1>39. CASE ThreadTicksPaused
  BY <1>39
  DEF ThreadTicksPaused, Acknowledges, chatVars, coreVars, recordVars,
  workerVars, FlagsOK, CellsOK, TickInv, ReadyMeansTicked
<1>40. CASE ThreadWedges
  BY <1>40
  DEF ThreadWedges, chatVars, coreVars, recordVars, verbVars, workerVars,
  FlagsOK, CellsOK, TickInv, ReadyMeansTicked
<1>41. CASE ThreadLeaves
  BY <1>41
  DEF ThreadLeaves, chatVars, coreVars, recordVars, verbVars, workerVars,
  FlagsOK, CellsOK, TickInv, ReadyMeansTicked
<1>42. CASE OutOfScope
  BY <1>42
  DEF OutOfScope, chatVars, coreVars, recordVars, verbVars, workerVars,
  worldVars, FlagsOK, CellsOK, TickInv, ReadyMeansTicked
<1>43. CASE UNCHANGED worldVars
  BY <1>43
  DEF FlagsOK, CellsOK, TickInv, ReadyMeansTicked, recordVars, coreVars,
  verbVars, chatVars, workerVars, worldVars
<1> QED
  BY <1>1, <1>2, <1>3, <1>4, <1>5, <1>6, <1>7, <1>8, <1>9, <1>10, <1>11,
  <1>12, <1>13, <1>14, <1>15, <1>16, <1>17, <1>18, <1>19, <1>20, <1>21, <1>22,
  <1>23, <1>24, <1>25, <1>26, <1>27, <1>28, <1>29, <1>30, <1>31, <1>32, <1>33,
  <1>34, <1>35, <1>36, <1>37, <1>38, <1>39, <1>40, <1>41, <1>42, <1>43
  DEF Next, Call, Verb, Worker, Thread

(* The initial cells have their types.                                     *)
LEMMA InitTypes == Init => FlagsOK /\ CellsOK
<1>1. Init => FlagsOK
  BY DEF Init, FlagsOK
<1>2. Init => CellsOK
  BY SMT DEF Init, CellsOK, Live
<1> QED
  BY <1>1, <1>2

(* The three threads keep every cell of the runtime in its type, whatever  *)
(* they interleave.                                                        *)
THEOREM WorldTypeCorrect == Spec => []WorldTypeOK
  BY InitTypes, FlagsStep, CellsStep, PTL DEF Spec, WorldTypeOK

(* The inductive invariant behind the three theorems below.                *)
LEMMA RunInvariant == Spec => [](FlagsOK /\ CellsOK /\ PlacesInv /\ TickInv)
<1>1. Init => PlacesInv
  BY DEF Init, PlacesInv, Live, BootPlaces
<1>2. Init => TickInv
  BY DEF Init, TickInv, ReadyMeansTicked
<1> QED
  BY InitTypes, <1>1, <1>2, FlagsStep, CellsStep, PlacesStep, TickStep, PTL DEF Spec

(* cleanup() never closes the databases under a live world thread, on      *)
(* whichever path it was reached.                                          *)
THEOREM WorldKeepsDatabases == Spec => []LiveWorldHasDatabases
<1>1. PlacesInv => LiveWorldHasDatabases
  BY DEF PlacesInv, LiveWorldHasDatabases
<1> QED
  BY <1>1, RunInvariant, PTL

(* READY and SAVING are published only over a world loop that has ticked.  *)
THEOREM ReadyIsHonest == Spec => []ReadyMeansTicked
<1>1. TickInv => ReadyMeansTicked
  BY DEF TickInv
<1> QED
  BY <1>1, RunInvariant, PTL

(* Whoever reads STOPPED finds the worker, the world thread and the        *)
(* databases gone.                                                         *)
THEOREM StoppedIsFinal == Spec => []StoppedMeansOver
<1>1. PlacesInv => StoppedMeansOver
  BY DEF PlacesInv, StoppedMeansOver, ThreadPlaces
<1> QED
  BY <1>1, RunInvariant, PTL

=============================================================================
