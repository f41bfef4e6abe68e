--------------------------- MODULE AdmissionProofs ---------------------------
EXTENDS Admission, TLAPS

(***************************************************************************)
(* The admission of bot targets, for every profile, every set of public    *)
(* requests and every number of runs: the types, that the fence follows    *)
(* the service, that the three threads together implement TargetOwnership, *)
(* and that the target the monitor reports is the one in force.            *)
(*                                                                         *)
(* The argument.  A generation is active in the fence only while the epoch *)
(* still shows it (FenceEpoch), and a request waits in the fence only for  *)
(* the generation that is active (PendingOwned).  What is left is a public *)
(* request, of generation 0: it can wait only while nobody is admitted,    *)
(* because a start resets the fence and holds the gate from then on        *)
(* (GateOwns).                                                             *)
(***************************************************************************)

(* Where a verb runs after the monitor was retired and before the next     *)
(* generation is begun.                                                    *)
Retired == {"join", "stopped", "settle", "verdict", "begin"}

FenceEpoch == active # 0 => active = epoch /\ issued = epoch

PendingOwned == HasPending => request.gen = active /\ (active = 0 => Owner = 0)

GateOwns ==
    /\ gpc \in Retired => Owner = 0 /\ active = 0
    /\ gpc \in {"verdict", "begin", "register"} => ~HasPending
    /\ gpc = "register" => active = 0
    /\ gpc \in {"register", "thread"} => arg = epoch /\ arg = issued /\ arg # 0
    /\ gpc \in {"stopped", "verdict", "begin"} /\ op = "startBotProfile" => generation = 0
    /\ gpc \in {"verdict", "begin", "register", "thread"} => op = "startBotProfile"
    /\ gpc = "register" => generation = 0
    /\ gpc = "setting" <=> cpc["gate"] # "none"
    /\ gpc = "setting" => Owner = 0 /\ cgen["gate"] = 0

EpochGrows ==
    /\ issued <= epoch
    /\ Owner # 0 => generation = Owner \/ gpc = "register"
    /\ cpc["monitor"] # "none" => cgen["monitor"] # 0
    /\ mpc # "dead" => mgen # 0

AdmissionInv ==
    /\ AdmissionTypeOK
    /\ FenceFollowsService
    /\ FenceEpoch
    /\ PendingOwned
    /\ GateOwns
    /\ EpochGrows

-----------------------------------------------------------------------------
(* The number given to a queued request is a number, not 0 and not the one *)
(* applied last.                                                           *)
LEMMA FreshSequenceType ==
    FreshSequence \in Nat \ {0} /\ FreshSequence # lastApplied
<1> DEFINE used == {lastApplied, request.seq, cseq["gate"], cseq["monitor"]}
<1>1. \E s \in 1..5 : s \notin used
  <2>1. SUFFICES ASSUME 1 \in used, 2 \in used, 3 \in used, 4 \in used, 5 \in used
                 PROVE  FALSE
    OBVIOUS
  <2>2. QED
    BY <2>1
<1>2. QED
  BY <1>1 DEF FreshSequence

(* Every step keeps the flags Boolean.                                     *)
LEMMA FlagsStep ==
    ASSUME AdmissionTypeOK, [AdmissionNext]_admissionVars
    PROVE  FlagsOK'
<1> USE DEF AdmissionTypeOK, FlagsOK
<1>1. CASE WorldArms
  BY <1>1 DEF WorldArms, CONFIGURED, fenceVars, epochVars, serviceVars, callVars,
         gateVars, monitorVars
<1>2. CASE WorldReady
  BY <1>2 DEF WorldReady, fenceVars, epochVars, serviceVars, callVars, gateVars,
         monitorVars, historyVars
<1>3. CASE WorldFails
  BY <1>3 DEF WorldFails, fenceVars, epochVars, serviceVars, callVars, gateVars,
         monitorVars, historyVars
<1>4. CASE WorldCleansUp
  BY <1>4 DEF WorldCleansUp, Reset, NoRequest, Request, epochVars, serviceVars,
         callVars, gateVars, monitorVars, historyVars
<1>5. CASE WorldTick
  BY <1>5 DEF WorldTick, Consume, Consumes, HasPending, ValidGeneration, NoRequest,
         Request, worldVars, epochVars, serviceVars, callVars, gateVars, monitorVars
<1>6. CASE MonitorLeaves
  BY <1>6 DEF MonitorLeaves, MonitorAt, Current, EndCall, NoTarget, callVars,
         fenceVars, worldVars, epochVars, serviceVars, gateVars, historyVars
<1>7. CASE MonitorLoop
  BY <1>7 DEF MonitorLoop, MonitorAt, Current, NoTarget, fenceVars, worldVars,
         epochVars, serviceVars, callVars, gateVars, historyVars
<1>8. CASE MonitorObserve
  BY <1>8 DEF MonitorObserve, MonitorAt, Current, Targets, fenceVars, worldVars,
         epochVars, serviceVars, callVars, gateVars, historyVars
<1>9. CASE MonitorPend
  BY <1>9 DEF MonitorPend, MonitorAt, Current, fenceVars, worldVars, epochVars,
         callVars, gateVars, historyVars
<1>10. CASE MonitorEnter
  BY <1>10 DEF MonitorEnter, MonitorAt, Current, StartCall, fenceVars, worldVars,
         serviceVars, gateVars, historyVars
<1>11. CASE MonitorExit
  BY <1>11 DEF MonitorExit, fenceVars, worldVars, serviceVars, callVars, gateVars,
         historyVars
<1>12. CASE MonitorPublish
  BY <1>12 DEF MonitorPublish, MonitorAt, Current, NoTarget, EndCall, fenceVars,
         worldVars, epochVars, gateVars, historyVars
<1>13. CASE MonitorWakes
  BY <1>13 DEF MonitorWakes, fenceVars, worldVars, epochVars, serviceVars, callVars,
         gateVars, historyVars
<1>14. CASE GateAnswersTarget
  BY <1>14 DEF GateAnswersTarget, GateIdles, EndCall, NoTarget, fenceVars,
         worldVars, epochVars, serviceVars, monitorVars, historyVars
<1>15. CASE GateInvalidates
  BY <1>15 DEF GateInvalidates, Retire, NoRequest, Request, RetireOk, worldVars,
         serviceVars, callVars, monitorVars, historyVars
<1>16. CASE GateJoined
  BY <1>16 DEF GateJoined, NoTarget, fenceVars, worldVars, epochVars, callVars,
         monitorVars, historyVars
<1>17. CASE GateJoinFails
  BY <1>17 DEF GateJoinFails, GateIdles, fenceVars, worldVars, epochVars,
         serviceVars, callVars, monitorVars, historyVars
<1>18. CASE GateStopsNative
  BY <1>18 DEF GateStopsNative, Reset, NoRequest, Request, epochVars, serviceVars,
         callVars, monitorVars, historyVars
<1>19. CASE GateSettles
  BY <1>19 DEF GateSettles, GateIdles, fenceVars, worldVars, epochVars, callVars,
         monitorVars, historyVars
<1>20. CASE GateStartsNative
  BY <1>20 DEF GateStartsNative, Reset, NoRequest, Request, CONFIGURED, epochVars,
         serviceVars, callVars, monitorVars
<1>21. CASE GateStartRefused
  BY <1>21 DEF GateStartRefused, GateIdles, fenceVars, epochVars, serviceVars,
         callVars, monitorVars, historyVars
<1>22. CASE GateVerdict
  BY <1>22 DEF GateVerdict, GateIdles, fenceVars, worldVars, epochVars, callVars,
         monitorVars, historyVars
<1>23. CASE GateBeginsEpoch
  BY <1>23 DEF GateBeginsEpoch, fenceVars, worldVars, serviceVars, callVars,
         monitorVars
<1>24. CASE GateRegisters
  BY <1>24 DEF GateRegisters, RegistersOk, BeginOk, Begin, NoRequest, Request,
         NoTarget, worldVars, epochVars, callVars, monitorVars, historyVars
<1>25. CASE GateStartsThread
  BY <1>25 DEF GateStartsThread, GateIdles, fenceVars, worldVars, epochVars,
         serviceVars, callVars, historyVars
<1>26. CASE GateAbandons
  BY <1>26 DEF GateAbandons, RegistersOk, BeginOk, Retire, NoRequest, Request,
         GateIdles, worldVars, callVars, monitorVars, historyVars
<1>27. ASSUME NEW a \in Threads, CheckTarget(a) PROVE FlagsOK'
  BY <1>27 DEF CheckTarget, Targets, Answer, fenceVars, worldVars, epochVars,
         serviceVars, gateVars, monitorVars, historyVars
<1>28. ASSUME NEW a \in Threads, QueueTarget(a) PROVE FlagsOK'
  BY <1>28 DEF QueueTarget, QueueRejects, ValidGeneration, fenceVars, Answer,
         QueueFindsEffective, NoRequest, Request, Queue, worldVars, epochVars,
         serviceVars, gateVars, monitorVars, historyVars
<1>29. ASSUME NEW a \in Threads, AwaitTarget(a) PROVE FlagsOK'
  BY <1>29 DEF AwaitTarget, Answer, Applied, fenceVars, worldVars, epochVars,
         serviceVars, gateVars, monitorVars, historyVars
<1>30. ASSUME NEW verb \in {"startBotProfile", "stop"}, GateBeginsVerb(verb) PROVE FlagsOK'
  BY <1>30 DEF GateBeginsVerb, fenceVars, worldVars, epochVars, serviceVars,
         callVars, monitorVars, historyVars
<1>31. ASSUME NEW t \in Requests, GateSetsTarget(t) PROVE FlagsOK'
  BY <1>31 DEF GateSetsTarget, StartCall, fenceVars, worldVars, epochVars,
         serviceVars, monitorVars, historyVars
<1>32. ASSUME NEW p \in BOOLEAN, GateSetsPaused(p) PROVE FlagsOK'
  BY <1>32 DEF GateSetsPaused, fenceVars, worldVars, epochVars, serviceVars,
         callVars, gateVars, monitorVars, historyVars
<1>33. CASE UNCHANGED admissionVars
  BY <1>33 DEF admissionVars, fenceVars, worldVars, epochVars, serviceVars,
         callVars, gateVars, monitorVars, historyVars
<1>34. QED
  BY <1>1, <1>2, <1>3, <1>4, <1>5, <1>6, <1>7, <1>8, <1>9, <1>10, <1>11, <1>12,
         <1>13, <1>14, <1>15, <1>16, <1>17, <1>18, <1>19, <1>20, <1>21, <1>22,
         <1>23, <1>24, <1>25, <1>26, <1>27, <1>28, <1>29, <1>30, <1>31, <1>32,
         <1>33 DEF AdmissionNext, World, Monitor, Call, Gate, Verb

(* Every step keeps the types of the other cells.                          *)
LEMMA CellsStep ==
    ASSUME AdmissionTypeOK, [AdmissionNext]_admissionVars
    PROVE  CellsOK'
<1> USE AdmissionAssumption DEF AdmissionTypeOK, CellsOK, Threads
<1>1. CASE WorldArms
  BY <1>1 DEF WorldArms, CONFIGURED, fenceVars, epochVars, serviceVars, callVars,
         gateVars, monitorVars
<1>2. CASE WorldReady
  BY <1>2 DEF WorldReady, fenceVars, epochVars, serviceVars, callVars, gateVars,
         monitorVars, historyVars
<1>3. CASE WorldFails
  BY <1>3 DEF WorldFails, fenceVars, epochVars, serviceVars, callVars, gateVars,
         monitorVars, historyVars
<1>4. CASE WorldCleansUp
  BY <1>4 DEF WorldCleansUp, Reset, NoRequest, Request, epochVars, serviceVars,
         callVars, gateVars, monitorVars, historyVars
<1>5. CASE WorldTick
  BY <1>5 DEF WorldTick, Consume, Consumes, HasPending, ValidGeneration, NoRequest,
         Request, worldVars, epochVars, serviceVars, callVars, gateVars, monitorVars
<1>6. CASE MonitorLeaves
  BY <1>6 DEF MonitorLeaves, MonitorAt, Current, EndCall, NoTarget, callVars,
         fenceVars, worldVars, epochVars, serviceVars, gateVars, historyVars
<1>7. CASE MonitorLoop
  BY <1>7 DEF MonitorLoop, MonitorAt, Current, NoTarget, fenceVars, worldVars,
         epochVars, serviceVars, callVars, gateVars, historyVars
<1>8. CASE MonitorObserve
  BY <1>8 DEF MonitorObserve, MonitorAt, Current, Targets, fenceVars, worldVars,
         epochVars, serviceVars, callVars, gateVars, historyVars
<1>9. CASE MonitorPend
  BY <1>9 DEF MonitorPend, MonitorAt, Current, fenceVars, worldVars, epochVars,
         callVars, gateVars, historyVars
<1>10. CASE MonitorEnter
  BY <1>10 DEF MonitorEnter, MonitorAt, Current, StartCall, fenceVars, worldVars,
         serviceVars, gateVars, historyVars
<1>11. CASE MonitorExit
  BY <1>11 DEF MonitorExit, fenceVars, worldVars, serviceVars, callVars, gateVars,
         historyVars
<1>12. CASE MonitorPublish
  BY <1>12 DEF MonitorPublish, MonitorAt, Current, NoTarget, EndCall, fenceVars,
         worldVars, epochVars, gateVars, historyVars
<1>13. CASE MonitorWakes
  BY <1>13 DEF MonitorWakes, fenceVars, worldVars, epochVars, serviceVars, callVars,
         gateVars, historyVars
<1>14. CASE GateAnswersTarget
  BY <1>14 DEF GateAnswersTarget, GateIdles, EndCall, NoTarget, fenceVars,
         worldVars, epochVars, serviceVars, monitorVars, historyVars
<1>15. CASE GateInvalidates
  BY <1>15 DEF GateInvalidates, Retire, NoRequest, Request, RetireOk, worldVars,
         serviceVars, callVars, monitorVars, historyVars
<1>16. CASE GateJoined
  BY <1>16 DEF GateJoined, NoTarget, fenceVars, worldVars, epochVars, callVars,
         monitorVars, historyVars
<1>17. CASE GateJoinFails
  BY <1>17 DEF GateJoinFails, GateIdles, fenceVars, worldVars, epochVars,
         serviceVars, callVars, monitorVars, historyVars
<1>18. CASE GateStopsNative
  BY <1>18 DEF GateStopsNative, Reset, NoRequest, Request, epochVars, serviceVars,
         callVars, monitorVars, historyVars
<1>19. CASE GateSettles
  BY <1>19 DEF GateSettles, GateIdles, fenceVars, worldVars, epochVars, callVars,
         monitorVars, historyVars
<1>20. CASE GateStartsNative
  BY <1>20 DEF GateStartsNative, Reset, NoRequest, Request, CONFIGURED, epochVars,
         serviceVars, callVars, monitorVars
<1>21. CASE GateStartRefused
  BY <1>21 DEF GateStartRefused, GateIdles, fenceVars, epochVars, serviceVars,
         callVars, monitorVars, historyVars
<1>22. CASE GateVerdict
  BY <1>22 DEF GateVerdict, GateIdles, fenceVars, worldVars, epochVars, callVars,
         monitorVars, historyVars
<1>23. CASE GateBeginsEpoch
  BY <1>23 DEF GateBeginsEpoch, fenceVars, worldVars, serviceVars, callVars,
         monitorVars
<1>24. CASE GateRegisters
  BY <1>24 DEF GateRegisters, RegistersOk, BeginOk, Begin, NoRequest, Request,
         NoTarget, worldVars, epochVars, callVars, monitorVars, historyVars
<1>25. CASE GateStartsThread
  BY <1>25 DEF GateStartsThread, GateIdles, fenceVars, worldVars, epochVars,
         serviceVars, callVars, historyVars
<1>26. CASE GateAbandons
  BY <1>26 DEF GateAbandons, RegistersOk, BeginOk, Retire, NoRequest, Request,
         GateIdles, worldVars, callVars, monitorVars, historyVars
<1>27. ASSUME NEW a \in Threads, CheckTarget(a) PROVE CellsOK'
  BY <1>27 DEF CheckTarget, Targets, Answer, fenceVars, worldVars, epochVars,
         serviceVars, gateVars, monitorVars, historyVars
<1>28. ASSUME NEW a \in Threads, QueueTarget(a) PROVE CellsOK'
  BY <1>28, FreshSequenceType DEF QueueTarget, QueueRejects, ValidGeneration,
         fenceVars, Answer, QueueFindsEffective, NoRequest, Request, Queue,
         worldVars, epochVars, serviceVars, gateVars, monitorVars, historyVars
<1>29. ASSUME NEW a \in Threads, AwaitTarget(a) PROVE CellsOK'
  BY <1>29 DEF AwaitTarget, Answer, Applied, fenceVars, worldVars, epochVars,
         serviceVars, gateVars, monitorVars, historyVars
<1>30. ASSUME NEW verb \in {"startBotProfile", "stop"}, GateBeginsVerb(verb) PROVE CellsOK'
  BY <1>30 DEF GateBeginsVerb, fenceVars, worldVars, epochVars, serviceVars,
         callVars, monitorVars, historyVars
<1>31. ASSUME NEW t \in Requests, GateSetsTarget(t) PROVE CellsOK'
  BY <1>31 DEF GateSetsTarget, StartCall, fenceVars, worldVars, epochVars,
         serviceVars, monitorVars, historyVars
<1>32. ASSUME NEW p \in BOOLEAN, GateSetsPaused(p) PROVE CellsOK'
  BY <1>32 DEF GateSetsPaused, fenceVars, worldVars, epochVars, serviceVars,
         callVars, gateVars, monitorVars, historyVars
<1>33. CASE UNCHANGED admissionVars
  BY <1>33 DEF admissionVars, fenceVars, worldVars, epochVars, serviceVars,
         callVars, gateVars, monitorVars, historyVars
<1>34. QED
  BY <1>1, <1>2, <1>3, <1>4, <1>5, <1>6, <1>7, <1>8, <1>9, <1>10, <1>11, <1>12,
         <1>13, <1>14, <1>15, <1>16, <1>17, <1>18, <1>19, <1>20, <1>21, <1>22,
         <1>23, <1>24, <1>25, <1>26, <1>27, <1>28, <1>29, <1>30, <1>31, <1>32,
         <1>33 DEF AdmissionNext, World, Monitor, Call, Gate, Verb

(* Every step keeps the fence's generation the service's and the epoch's.  *)
LEMMA FenceStep ==
    ASSUME AdmissionInv, AdmissionTypeOK', [AdmissionNext]_admissionVars
    PROVE  (FenceFollowsService /\ FenceEpoch)'
<1> USE DEF AdmissionInv, AdmissionTypeOK, CellsOK, Threads, FenceFollowsService,
       FenceEpoch, PendingOwned, GateOwns, EpochGrows, Owner, HasPending, Retired
<1>1. CASE WorldArms
  BY <1>1 DEF WorldArms, CONFIGURED, fenceVars, epochVars, serviceVars, callVars,
         gateVars, monitorVars
<1>2. CASE WorldReady
  BY <1>2 DEF WorldReady, fenceVars, epochVars, serviceVars, callVars, gateVars,
         monitorVars, historyVars
<1>3. CASE WorldFails
  BY <1>3 DEF WorldFails, fenceVars, epochVars, serviceVars, callVars, gateVars,
         monitorVars, historyVars
<1>4. CASE WorldCleansUp
  BY <1>4 DEF WorldCleansUp, Reset, NoRequest, Request, epochVars, serviceVars,
         callVars, gateVars, monitorVars, historyVars
<1>5. CASE WorldTick
  BY <1>5 DEF WorldTick, Consume, Consumes, ValidGeneration, NoRequest, Request,
         worldVars, epochVars, serviceVars, callVars, gateVars, monitorVars
<1>6. CASE MonitorLeaves
  BY <1>6 DEF MonitorLeaves, MonitorAt, Current, EndCall, NoTarget, callVars,
         fenceVars, worldVars, epochVars, serviceVars, gateVars, historyVars
<1>7. CASE MonitorLoop
  BY <1>7 DEF MonitorLoop, MonitorAt, Current, NoTarget, fenceVars, worldVars,
         epochVars, serviceVars, callVars, gateVars, historyVars
<1>8. CASE MonitorObserve
  BY <1>8 DEF MonitorObserve, MonitorAt, Current, Targets, fenceVars, worldVars,
         epochVars, serviceVars, callVars, gateVars, historyVars
<1>9. CASE MonitorPend
  BY <1>9 DEF MonitorPend, MonitorAt, Current, fenceVars, worldVars, epochVars,
         callVars, gateVars, historyVars
<1>10. CASE MonitorEnter
  BY <1>10 DEF MonitorEnter, MonitorAt, Current, StartCall, fenceVars, worldVars,
         serviceVars, gateVars, historyVars
<1>11. CASE MonitorExit
  BY <1>11 DEF MonitorExit, fenceVars, worldVars, serviceVars, callVars, gateVars,
         historyVars
<1>12. CASE MonitorPublish
  BY <1>12 DEF MonitorPublish, MonitorAt, Current, NoTarget, EndCall, fenceVars,
         worldVars, epochVars, gateVars, historyVars
<1>13. CASE MonitorWakes
  BY <1>13 DEF MonitorWakes, fenceVars, worldVars, epochVars, serviceVars, callVars,
         gateVars, historyVars
<1>14. CASE GateAnswersTarget
  BY <1>14 DEF GateAnswersTarget, GateIdles, EndCall, NoTarget, fenceVars,
         worldVars, epochVars, serviceVars, monitorVars, historyVars
<1>15. CASE GateInvalidates
  BY <1>15 DEF GateInvalidates, Retire, NoRequest, Request, RetireOk, worldVars,
         serviceVars, callVars, monitorVars, historyVars
<1>16. CASE GateJoined
  BY <1>16 DEF GateJoined, NoTarget, fenceVars, worldVars, epochVars, callVars,
         monitorVars, historyVars
<1>17. CASE GateJoinFails
  BY <1>17 DEF GateJoinFails, GateIdles, fenceVars, worldVars, epochVars,
         serviceVars, callVars, monitorVars, historyVars
<1>18. CASE GateStopsNative
  BY <1>18 DEF GateStopsNative, Reset, NoRequest, Request, epochVars, serviceVars,
         callVars, monitorVars, historyVars
<1>19. CASE GateSettles
  BY <1>19 DEF GateSettles, GateIdles, fenceVars, worldVars, epochVars, callVars,
         monitorVars, historyVars
<1>20. CASE GateStartsNative
  BY <1>20 DEF GateStartsNative, Reset, NoRequest, Request, CONFIGURED, epochVars,
         serviceVars, callVars, monitorVars
<1>21. CASE GateStartRefused
  BY <1>21 DEF GateStartRefused, GateIdles, fenceVars, epochVars, serviceVars,
         callVars, monitorVars, historyVars
<1>22. CASE GateVerdict
  BY <1>22 DEF GateVerdict, GateIdles, fenceVars, worldVars, epochVars, callVars,
         monitorVars, historyVars
<1>23. CASE GateBeginsEpoch
  BY <1>23 DEF GateBeginsEpoch, fenceVars, worldVars, serviceVars, callVars,
         monitorVars
<1>24. CASE GateRegisters
  BY <1>24 DEF GateRegisters, RegistersOk, BeginOk, Begin, NoRequest, Request,
         NoTarget, worldVars, epochVars, callVars, monitorVars, historyVars
<1>25. CASE GateStartsThread
  BY <1>25 DEF GateStartsThread, GateIdles, fenceVars, worldVars, epochVars,
         serviceVars, callVars, historyVars
<1>26. CASE GateAbandons
  BY <1>26 DEF GateAbandons, RegistersOk, BeginOk, Retire, NoRequest, Request,
         GateIdles, worldVars, callVars, monitorVars, historyVars
<1>27. ASSUME NEW a \in Threads, CheckTarget(a) PROVE (FenceFollowsService /\ FenceEpoch)'
  BY <1>27 DEF CheckTarget, Targets, Answer, fenceVars, worldVars, epochVars,
         serviceVars, gateVars, monitorVars, historyVars
<1>28. ASSUME NEW a \in Threads, QueueTarget(a) PROVE (FenceFollowsService /\ FenceEpoch)'
  BY <1>28 DEF QueueTarget, QueueRejects, ValidGeneration, fenceVars, Answer,
         QueueFindsEffective, NoRequest, Request, Queue, worldVars, epochVars,
         serviceVars, gateVars, monitorVars, historyVars
<1>29. ASSUME NEW a \in Threads, AwaitTarget(a) PROVE (FenceFollowsService /\ FenceEpoch)'
  BY <1>29 DEF AwaitTarget, Answer, Applied, fenceVars, worldVars, epochVars,
         serviceVars, gateVars, monitorVars, historyVars
<1>30. ASSUME NEW verb \in {"startBotProfile", "stop"}, GateBeginsVerb(verb) PROVE (FenceFollowsService /\ FenceEpoch)'
  BY <1>30 DEF GateBeginsVerb, fenceVars, worldVars, epochVars, serviceVars,
         callVars, monitorVars, historyVars
<1>31. ASSUME NEW t \in Requests, GateSetsTarget(t) PROVE (FenceFollowsService /\ FenceEpoch)'
  BY <1>31 DEF GateSetsTarget, StartCall, fenceVars, worldVars, epochVars,
         serviceVars, monitorVars, historyVars
<1>32. ASSUME NEW p \in BOOLEAN, GateSetsPaused(p) PROVE (FenceFollowsService /\ FenceEpoch)'
  BY <1>32 DEF GateSetsPaused, fenceVars, worldVars, epochVars, serviceVars,
         callVars, gateVars, monitorVars, historyVars
<1>33. CASE UNCHANGED admissionVars
  BY <1>33 DEF admissionVars, fenceVars, worldVars, epochVars, serviceVars,
         callVars, gateVars, monitorVars, historyVars
<1>34. QED
  BY <1>1, <1>2, <1>3, <1>4, <1>5, <1>6, <1>7, <1>8, <1>9, <1>10, <1>11, <1>12,
         <1>13, <1>14, <1>15, <1>16, <1>17, <1>18, <1>19, <1>20, <1>21, <1>22,
         <1>23, <1>24, <1>25, <1>26, <1>27, <1>28, <1>29, <1>30, <1>31, <1>32,
         <1>33 DEF AdmissionNext, World, Monitor, Call, Gate, Verb

(* Every step keeps a waiting request with its owner.                      *)
LEMMA PendingStep ==
    ASSUME AdmissionInv, AdmissionTypeOK', [AdmissionNext]_admissionVars
    PROVE  PendingOwned'
<1> USE DEF AdmissionInv, AdmissionTypeOK, CellsOK, Threads, FenceFollowsService,
       FenceEpoch, PendingOwned, GateOwns, EpochGrows, Owner, HasPending, Retired
<1>1. CASE WorldArms
  BY <1>1 DEF WorldArms, CONFIGURED, fenceVars, epochVars, serviceVars, callVars,
         gateVars, monitorVars
<1>2. CASE WorldReady
  BY <1>2 DEF WorldReady, fenceVars, epochVars, serviceVars, callVars, gateVars,
         monitorVars, historyVars
<1>3. CASE WorldFails
  BY <1>3 DEF WorldFails, fenceVars, epochVars, serviceVars, callVars, gateVars,
         monitorVars, historyVars
<1>4. CASE WorldCleansUp
  BY <1>4 DEF WorldCleansUp, Reset, NoRequest, Request, epochVars, serviceVars,
         callVars, gateVars, monitorVars, historyVars
<1>5. CASE WorldTick
  BY <1>5 DEF WorldTick, Consume, Consumes, ValidGeneration, NoRequest, Request,
         worldVars, epochVars, serviceVars, callVars, gateVars, monitorVars
<1>6. CASE MonitorLeaves
  BY <1>6 DEF MonitorLeaves, MonitorAt, Current, EndCall, NoTarget, callVars,
         fenceVars, worldVars, epochVars, serviceVars, gateVars, historyVars
<1>7. CASE MonitorLoop
  BY <1>7 DEF MonitorLoop, MonitorAt, Current, NoTarget, fenceVars, worldVars,
         epochVars, serviceVars, callVars, gateVars, historyVars
<1>8. CASE MonitorObserve
  BY <1>8 DEF MonitorObserve, MonitorAt, Current, Targets, fenceVars, worldVars,
         epochVars, serviceVars, callVars, gateVars, historyVars
<1>9. CASE MonitorPend
  BY <1>9 DEF MonitorPend, MonitorAt, Current, fenceVars, worldVars, epochVars,
         callVars, gateVars, historyVars
<1>10. CASE MonitorEnter
  BY <1>10 DEF MonitorEnter, MonitorAt, Current, StartCall, fenceVars, worldVars,
         serviceVars, gateVars, historyVars
<1>11. CASE MonitorExit
  BY <1>11 DEF MonitorExit, fenceVars, worldVars, serviceVars, callVars, gateVars,
         historyVars
<1>12. CASE MonitorPublish
  BY <1>12 DEF MonitorPublish, MonitorAt, Current, NoTarget, EndCall, fenceVars,
         worldVars, epochVars, gateVars, historyVars
<1>13. CASE MonitorWakes
  BY <1>13 DEF MonitorWakes, fenceVars, worldVars, epochVars, serviceVars, callVars,
         gateVars, historyVars
<1>14. CASE GateAnswersTarget
  BY <1>14 DEF GateAnswersTarget, GateIdles, EndCall, NoTarget, fenceVars,
         worldVars, epochVars, serviceVars, monitorVars, historyVars
<1>15. CASE GateInvalidates
  BY <1>15 DEF GateInvalidates, Retire, NoRequest, Request, RetireOk, worldVars,
         serviceVars, callVars, monitorVars, historyVars
<1>16. CASE GateJoined
  BY <1>16 DEF GateJoined, NoTarget, fenceVars, worldVars, epochVars, callVars,
         monitorVars, historyVars
<1>17. CASE GateJoinFails
  BY <1>17 DEF GateJoinFails, GateIdles, fenceVars, worldVars, epochVars,
         serviceVars, callVars, monitorVars, historyVars
<1>18. CASE GateStopsNative
  BY <1>18 DEF GateStopsNative, Reset, NoRequest, Request, epochVars, serviceVars,
         callVars, monitorVars, historyVars
<1>19. CASE GateSettles
  BY <1>19 DEF GateSettles, GateIdles, fenceVars, worldVars, epochVars, callVars,
         monitorVars, historyVars
<1>20. CASE GateStartsNative
  BY <1>20 DEF GateStartsNative, Reset, NoRequest, Request, CONFIGURED, epochVars,
         serviceVars, callVars, monitorVars
<1>21. CASE GateStartRefused
  BY <1>21 DEF GateStartRefused, GateIdles, fenceVars, epochVars, serviceVars,
         callVars, monitorVars, historyVars
<1>22. CASE GateVerdict
  BY <1>22 DEF GateVerdict, GateIdles, fenceVars, worldVars, epochVars, callVars,
         monitorVars, historyVars
<1>23. CASE GateBeginsEpoch
  BY <1>23 DEF GateBeginsEpoch, fenceVars, worldVars, serviceVars, callVars,
         monitorVars
<1>24. CASE GateRegisters
  BY <1>24 DEF GateRegisters, RegistersOk, BeginOk, Begin, NoRequest, Request,
         NoTarget, worldVars, epochVars, callVars, monitorVars, historyVars
<1>25. CASE GateStartsThread
  BY <1>25 DEF GateStartsThread, GateIdles, fenceVars, worldVars, epochVars,
         serviceVars, callVars, historyVars
<1>26. CASE GateAbandons
  BY <1>26 DEF GateAbandons, RegistersOk, BeginOk, Retire, NoRequest, Request,
         GateIdles, worldVars, callVars, monitorVars, historyVars
<1>27. ASSUME NEW a \in Threads, CheckTarget(a) PROVE PendingOwned'
  BY <1>27 DEF CheckTarget, Targets, Answer, fenceVars, worldVars, epochVars,
         serviceVars, gateVars, monitorVars, historyVars
<1>28. ASSUME NEW a \in Threads, QueueTarget(a) PROVE PendingOwned'
  BY <1>28, FreshSequenceType DEF QueueTarget, QueueRejects, ValidGeneration,
         fenceVars, Answer, QueueFindsEffective, NoRequest, Request, Queue,
         worldVars, epochVars, serviceVars, gateVars, monitorVars, historyVars
<1>29. ASSUME NEW a \in Threads, AwaitTarget(a) PROVE PendingOwned'
  BY <1>29 DEF AwaitTarget, Answer, Applied, fenceVars, worldVars, epochVars,
         serviceVars, gateVars, monitorVars, historyVars
<1>30. ASSUME NEW verb \in {"startBotProfile", "stop"}, GateBeginsVerb(verb) PROVE PendingOwned'
  BY <1>30 DEF GateBeginsVerb, fenceVars, worldVars, epochVars, serviceVars,
         callVars, monitorVars, historyVars
<1>31. ASSUME NEW t \in Requests, GateSetsTarget(t) PROVE PendingOwned'
  BY <1>31 DEF GateSetsTarget, StartCall, fenceVars, worldVars, epochVars,
         serviceVars, monitorVars, historyVars
<1>32. ASSUME NEW p \in BOOLEAN, GateSetsPaused(p) PROVE PendingOwned'
  BY <1>32 DEF GateSetsPaused, fenceVars, worldVars, epochVars, serviceVars,
         callVars, gateVars, monitorVars, historyVars
<1>33. CASE UNCHANGED admissionVars
  BY <1>33 DEF admissionVars, fenceVars, worldVars, epochVars, serviceVars,
         callVars, gateVars, monitorVars, historyVars
<1>34. QED
  BY <1>1, <1>2, <1>3, <1>4, <1>5, <1>6, <1>7, <1>8, <1>9, <1>10, <1>11, <1>12,
         <1>13, <1>14, <1>15, <1>16, <1>17, <1>18, <1>19, <1>20, <1>21, <1>22,
         <1>23, <1>24, <1>25, <1>26, <1>27, <1>28, <1>29, <1>30, <1>31, <1>32,
         <1>33 DEF AdmissionNext, World, Monitor, Call, Gate, Verb

(* Every step keeps what a verb relies on.                                 *)
LEMMA GateStep ==
    ASSUME AdmissionInv, AdmissionTypeOK', [AdmissionNext]_admissionVars
    PROVE  GateOwns'
<1> USE DEF AdmissionInv, AdmissionTypeOK, CellsOK, Threads, FenceFollowsService,
       FenceEpoch, PendingOwned, GateOwns, EpochGrows, Owner, HasPending, Retired
<1>1. CASE WorldArms
  BY <1>1 DEF WorldArms, CONFIGURED, fenceVars, epochVars, serviceVars, callVars,
         gateVars, monitorVars
<1>2. CASE WorldReady
  BY <1>2 DEF WorldReady, fenceVars, epochVars, serviceVars, callVars, gateVars,
         monitorVars, historyVars
<1>3. CASE WorldFails
  BY <1>3 DEF WorldFails, fenceVars, epochVars, serviceVars, callVars, gateVars,
         monitorVars, historyVars
<1>4. CASE WorldCleansUp
  BY <1>4 DEF WorldCleansUp, Reset, NoRequest, Request, epochVars, serviceVars,
         callVars, gateVars, monitorVars, historyVars
<1>5. CASE WorldTick
  BY <1>5 DEF WorldTick, Consume, Consumes, ValidGeneration, NoRequest, Request,
         worldVars, epochVars, serviceVars, callVars, gateVars, monitorVars
<1>6. CASE MonitorLeaves
  BY <1>6 DEF MonitorLeaves, MonitorAt, Current, EndCall, NoTarget, callVars,
         fenceVars, worldVars, epochVars, serviceVars, gateVars, historyVars
<1>7. CASE MonitorLoop
  BY <1>7 DEF MonitorLoop, MonitorAt, Current, NoTarget, fenceVars, worldVars,
         epochVars, serviceVars, callVars, gateVars, historyVars
<1>8. CASE MonitorObserve
  BY <1>8 DEF MonitorObserve, MonitorAt, Current, Targets, fenceVars, worldVars,
         epochVars, serviceVars, callVars, gateVars, historyVars
<1>9. CASE MonitorPend
  BY <1>9 DEF MonitorPend, MonitorAt, Current, fenceVars, worldVars, epochVars,
         callVars, gateVars, historyVars
<1>10. CASE MonitorEnter
  BY <1>10 DEF MonitorEnter, MonitorAt, Current, StartCall, fenceVars, worldVars,
         serviceVars, gateVars, historyVars
<1>11. CASE MonitorExit
  BY <1>11 DEF MonitorExit, fenceVars, worldVars, serviceVars, callVars, gateVars,
         historyVars
<1>12. CASE MonitorPublish
  BY <1>12 DEF MonitorPublish, MonitorAt, Current, NoTarget, EndCall, fenceVars,
         worldVars, epochVars, gateVars, historyVars
<1>13. CASE MonitorWakes
  BY <1>13 DEF MonitorWakes, fenceVars, worldVars, epochVars, serviceVars, callVars,
         gateVars, historyVars
<1>14. CASE GateAnswersTarget
  BY <1>14 DEF GateAnswersTarget, GateIdles, EndCall, NoTarget, fenceVars,
         worldVars, epochVars, serviceVars, monitorVars, historyVars
<1>15. CASE GateInvalidates
  BY <1>15 DEF GateInvalidates, Retire, NoRequest, Request, RetireOk, worldVars,
         serviceVars, callVars, monitorVars, historyVars
<1>16. CASE GateJoined
  BY <1>16 DEF GateJoined, NoTarget, fenceVars, worldVars, epochVars, callVars,
         monitorVars, historyVars
<1>17. CASE GateJoinFails
  BY <1>17 DEF GateJoinFails, GateIdles, fenceVars, worldVars, epochVars,
         serviceVars, callVars, monitorVars, historyVars
<1>18. CASE GateStopsNative
  BY <1>18 DEF GateStopsNative, Reset, NoRequest, Request, epochVars, serviceVars,
         callVars, monitorVars, historyVars
<1>19. CASE GateSettles
  BY <1>19 DEF GateSettles, GateIdles, fenceVars, worldVars, epochVars, callVars,
         monitorVars, historyVars
<1>20. CASE GateStartsNative
  BY <1>20 DEF GateStartsNative, Reset, NoRequest, Request, CONFIGURED, epochVars,
         serviceVars, callVars, monitorVars
<1>21. CASE GateStartRefused
  BY <1>21 DEF GateStartRefused, GateIdles, fenceVars, epochVars, serviceVars,
         callVars, monitorVars, historyVars
<1>22. CASE GateVerdict
  BY <1>22 DEF GateVerdict, GateIdles, fenceVars, worldVars, epochVars, callVars,
         monitorVars, historyVars
<1>23. CASE GateBeginsEpoch
  BY <1>23 DEF GateBeginsEpoch, fenceVars, worldVars, serviceVars, callVars,
         monitorVars
<1>24. CASE GateRegisters
  BY <1>24 DEF GateRegisters, RegistersOk, BeginOk, Begin, NoRequest, Request,
         NoTarget, worldVars, epochVars, callVars, monitorVars, historyVars
<1>25. CASE GateStartsThread
  BY <1>25 DEF GateStartsThread, GateIdles, fenceVars, worldVars, epochVars,
         serviceVars, callVars, historyVars
<1>26. CASE GateAbandons
  BY <1>26 DEF GateAbandons, RegistersOk, BeginOk, Retire, NoRequest, Request,
         GateIdles, worldVars, callVars, monitorVars, historyVars
<1>27. ASSUME NEW a \in Threads, CheckTarget(a) PROVE GateOwns'
  BY <1>27 DEF CheckTarget, Targets, Answer, fenceVars, worldVars, epochVars,
         serviceVars, gateVars, monitorVars, historyVars
<1>28. ASSUME NEW a \in Threads, QueueTarget(a) PROVE GateOwns'
  BY <1>28, FreshSequenceType DEF QueueTarget, QueueRejects, ValidGeneration,
         fenceVars, Answer, QueueFindsEffective, NoRequest, Request, Queue,
         worldVars, epochVars, serviceVars, gateVars, monitorVars, historyVars
<1>29. ASSUME NEW a \in Threads, AwaitTarget(a) PROVE GateOwns'
  BY <1>29 DEF AwaitTarget, Answer, Applied, fenceVars, worldVars, epochVars,
         serviceVars, gateVars, monitorVars, historyVars
<1>30. ASSUME NEW verb \in {"startBotProfile", "stop"}, GateBeginsVerb(verb) PROVE GateOwns'
  BY <1>30 DEF GateBeginsVerb, fenceVars, worldVars, epochVars, serviceVars,
         callVars, monitorVars, historyVars
<1>31. ASSUME NEW t \in Requests, GateSetsTarget(t) PROVE GateOwns'
  BY <1>31 DEF GateSetsTarget, StartCall, fenceVars, worldVars, epochVars,
         serviceVars, monitorVars, historyVars
<1>32. ASSUME NEW p \in BOOLEAN, GateSetsPaused(p) PROVE GateOwns'
  BY <1>32 DEF GateSetsPaused, fenceVars, worldVars, epochVars, serviceVars,
         callVars, gateVars, monitorVars, historyVars
<1>33. CASE UNCHANGED admissionVars
  BY <1>33 DEF admissionVars, fenceVars, worldVars, epochVars, serviceVars,
         callVars, gateVars, monitorVars, historyVars
<1>34. QED
  BY <1>1, <1>2, <1>3, <1>4, <1>5, <1>6, <1>7, <1>8, <1>9, <1>10, <1>11, <1>12,
         <1>13, <1>14, <1>15, <1>16, <1>17, <1>18, <1>19, <1>20, <1>21, <1>22,
         <1>23, <1>24, <1>25, <1>26, <1>27, <1>28, <1>29, <1>30, <1>31, <1>32,
         <1>33 DEF AdmissionNext, World, Monitor, Call, Gate, Verb

(* Every step keeps the epoch ahead of the generations.                    *)
LEMMA EpochStep ==
    ASSUME AdmissionInv, AdmissionTypeOK', [AdmissionNext]_admissionVars
    PROVE  EpochGrows'
<1> USE DEF AdmissionInv, AdmissionTypeOK, CellsOK, Threads, FenceFollowsService,
       FenceEpoch, PendingOwned, GateOwns, EpochGrows, Owner, HasPending, Retired
<1>1. CASE WorldArms
  BY <1>1 DEF WorldArms, CONFIGURED, fenceVars, epochVars, serviceVars, callVars,
         gateVars, monitorVars
<1>2. CASE WorldReady
  BY <1>2 DEF WorldReady, fenceVars, epochVars, serviceVars, callVars, gateVars,
         monitorVars, historyVars
<1>3. CASE WorldFails
  BY <1>3 DEF WorldFails, fenceVars, epochVars, serviceVars, callVars, gateVars,
         monitorVars, historyVars
<1>4. CASE WorldCleansUp
  BY <1>4 DEF WorldCleansUp, Reset, NoRequest, Request, epochVars, serviceVars,
         callVars, gateVars, monitorVars, historyVars
<1>5. CASE WorldTick
  BY <1>5 DEF WorldTick, Consume, Consumes, ValidGeneration, NoRequest, Request,
         worldVars, epochVars, serviceVars, callVars, gateVars, monitorVars
<1>6. CASE MonitorLeaves
  BY <1>6 DEF MonitorLeaves, MonitorAt, Current, EndCall, NoTarget, callVars,
         fenceVars, worldVars, epochVars, serviceVars, gateVars, historyVars
<1>7. CASE MonitorLoop
  BY <1>7 DEF MonitorLoop, MonitorAt, Current, NoTarget, fenceVars, worldVars,
         epochVars, serviceVars, callVars, gateVars, historyVars
<1>8. CASE MonitorObserve
  BY <1>8 DEF MonitorObserve, MonitorAt, Current, Targets, fenceVars, worldVars,
         epochVars, serviceVars, callVars, gateVars, historyVars
<1>9. CASE MonitorPend
  BY <1>9 DEF MonitorPend, MonitorAt, Current, fenceVars, worldVars, epochVars,
         callVars, gateVars, historyVars
<1>10. CASE MonitorEnter
  BY <1>10 DEF MonitorEnter, MonitorAt, Current, StartCall, fenceVars, worldVars,
         serviceVars, gateVars, historyVars
<1>11. CASE MonitorExit
  BY <1>11 DEF MonitorExit, fenceVars, worldVars, serviceVars, callVars, gateVars,
         historyVars
<1>12. CASE MonitorPublish
  BY <1>12 DEF MonitorPublish, MonitorAt, Current, NoTarget, EndCall, fenceVars,
         worldVars, epochVars, gateVars, historyVars
<1>13. CASE MonitorWakes
  BY <1>13 DEF MonitorWakes, fenceVars, worldVars, epochVars, serviceVars, callVars,
         gateVars, historyVars
<1>14. CASE GateAnswersTarget
  BY <1>14 DEF GateAnswersTarget, GateIdles, EndCall, NoTarget, fenceVars,
         worldVars, epochVars, serviceVars, monitorVars, historyVars
<1>15. CASE GateInvalidates
  BY <1>15 DEF GateInvalidates, Retire, NoRequest, Request, RetireOk, worldVars,
         serviceVars, callVars, monitorVars, historyVars
<1>16. CASE GateJoined
  BY <1>16 DEF GateJoined, NoTarget, fenceVars, worldVars, epochVars, callVars,
         monitorVars, historyVars
<1>17. CASE GateJoinFails
  BY <1>17 DEF GateJoinFails, GateIdles, fenceVars, worldVars, epochVars,
         serviceVars, callVars, monitorVars, historyVars
<1>18. CASE GateStopsNative
  BY <1>18 DEF GateStopsNative, Reset, NoRequest, Request, epochVars, serviceVars,
         callVars, monitorVars, historyVars
<1>19. CASE GateSettles
  BY <1>19 DEF GateSettles, GateIdles, fenceVars, worldVars, epochVars, callVars,
         monitorVars, historyVars
<1>20. CASE GateStartsNative
  BY <1>20 DEF GateStartsNative, Reset, NoRequest, Request, CONFIGURED, epochVars,
         serviceVars, callVars, monitorVars
<1>21. CASE GateStartRefused
  BY <1>21 DEF GateStartRefused, GateIdles, fenceVars, epochVars, serviceVars,
         callVars, monitorVars, historyVars
<1>22. CASE GateVerdict
  BY <1>22 DEF GateVerdict, GateIdles, fenceVars, worldVars, epochVars, callVars,
         monitorVars, historyVars
<1>23. CASE GateBeginsEpoch
  BY <1>23 DEF GateBeginsEpoch, fenceVars, worldVars, serviceVars, callVars,
         monitorVars
<1>24. CASE GateRegisters
  BY <1>24 DEF GateRegisters, RegistersOk, BeginOk, Begin, NoRequest, Request,
         NoTarget, worldVars, epochVars, callVars, monitorVars, historyVars
<1>25. CASE GateStartsThread
  BY <1>25 DEF GateStartsThread, GateIdles, fenceVars, worldVars, epochVars,
         serviceVars, callVars, historyVars
<1>26. CASE GateAbandons
  BY <1>26 DEF GateAbandons, RegistersOk, BeginOk, Retire, NoRequest, Request,
         GateIdles, worldVars, callVars, monitorVars, historyVars
<1>27. ASSUME NEW a \in Threads, CheckTarget(a) PROVE EpochGrows'
  BY <1>27 DEF CheckTarget, Targets, Answer, fenceVars, worldVars, epochVars,
         serviceVars, gateVars, monitorVars, historyVars
<1>28. ASSUME NEW a \in Threads, QueueTarget(a) PROVE EpochGrows'
  BY <1>28 DEF QueueTarget, QueueRejects, ValidGeneration, fenceVars, Answer,
         QueueFindsEffective, NoRequest, Request, Queue, worldVars, epochVars,
         serviceVars, gateVars, monitorVars, historyVars
<1>29. ASSUME NEW a \in Threads, AwaitTarget(a) PROVE EpochGrows'
  BY <1>29 DEF AwaitTarget, Answer, Applied, fenceVars, worldVars, epochVars,
         serviceVars, gateVars, monitorVars, historyVars
<1>30. ASSUME NEW verb \in {"startBotProfile", "stop"}, GateBeginsVerb(verb) PROVE EpochGrows'
  BY <1>30 DEF GateBeginsVerb, fenceVars, worldVars, epochVars, serviceVars,
         callVars, monitorVars, historyVars
<1>31. ASSUME NEW t \in Requests, GateSetsTarget(t) PROVE EpochGrows'
  BY <1>31 DEF GateSetsTarget, StartCall, fenceVars, worldVars, epochVars,
         serviceVars, monitorVars, historyVars
<1>32. ASSUME NEW p \in BOOLEAN, GateSetsPaused(p) PROVE EpochGrows'
  BY <1>32 DEF GateSetsPaused, fenceVars, worldVars, epochVars, serviceVars,
         callVars, gateVars, monitorVars, historyVars
<1>33. CASE UNCHANGED admissionVars
  BY <1>33 DEF admissionVars, fenceVars, worldVars, epochVars, serviceVars,
         callVars, gateVars, monitorVars, historyVars
<1>34. QED
  BY <1>1, <1>2, <1>3, <1>4, <1>5, <1>6, <1>7, <1>8, <1>9, <1>10, <1>11, <1>12,
         <1>13, <1>14, <1>15, <1>16, <1>17, <1>18, <1>19, <1>20, <1>21, <1>22,
         <1>23, <1>24, <1>25, <1>26, <1>27, <1>28, <1>29, <1>30, <1>31, <1>32,
         <1>33 DEF AdmissionNext, World, Monitor, Call, Gate, Verb

(* The initial state has the invariant.                                    *)
LEMMA AdmissionInvInit == AdmissionInit => AdmissionInv
<1>1. AdmissionInit => FlagsOK
  BY DEF AdmissionInit, FlagsOK
<1>2. AdmissionInit => CellsOK
  BY DEF AdmissionInit, CellsOK, FenceInit, NoRequest, Request, NoTarget, CONFIGURED,
         Threads
<1>3. AdmissionInit => /\ FenceFollowsService /\ FenceEpoch /\ PendingOwned
                       /\ GateOwns /\ EpochGrows
  BY DEF AdmissionInit, FenceInit, NoRequest, Request, FenceFollowsService, FenceEpoch,
         PendingOwned, GateOwns, EpochGrows, Owner, HasPending, Retired, Threads
<1>4. QED
  BY <1>1, <1>2, <1>3 DEF AdmissionInv, AdmissionTypeOK

(* Every step keeps the invariant.                                         *)
LEMMA AdmissionInvStep ==
    AdmissionInv /\ [AdmissionNext]_admissionVars => AdmissionInv'
<1> SUFFICES ASSUME AdmissionInv, [AdmissionNext]_admissionVars
             PROVE  AdmissionInv'
  OBVIOUS
<1>1. AdmissionTypeOK'
  BY FlagsStep, CellsStep DEF AdmissionInv, AdmissionTypeOK
<1>2. QED
  BY <1>1, FenceStep, PendingStep, GateStep, EpochStep DEF AdmissionInv

LEMMA AdmissionInvariance == AdmissionSpec => []AdmissionInv
BY AdmissionInvInit, AdmissionInvStep, PTL DEF AdmissionSpec

(* Every reachable state of the three threads is well typed.               *)
THEOREM AdmissionTypeCorrect == AdmissionSpec => []AdmissionTypeOK
BY AdmissionInvariance, PTL DEF AdmissionInv

(* No start, stop or half-finished registration leaves a generation in the *)
(* native fence that WorldRuntimeService does not have.                    *)
THEOREM FenceIsFollowed == AdmissionSpec => []FenceFollowsService
BY AdmissionInvariance, PTL DEF AdmissionInv

-----------------------------------------------------------------------------
(* The refinement.                                                         *)

(* What the tick applies belongs to the owner of the moment.               *)
LEMMA TickAppliesForOwner ==
    ASSUME AdmissionInv, WorldTick
    PROVE  Ownership!Apply \/ UNCHANGED Ownership!ownership
<1>1. UNCHANGED <<Owner, issued>>
  BY DEF WorldTick, epochVars, Owner
<1>2. CASE Consumes
  <2>1. request.gen = Owner
    BY <1>2 DEF AdmissionInv, PendingOwned, FenceEpoch, Consumes, ValidGeneration, Owner
  <2>2. QED
    BY <1>1, <1>2, <2>1 DEF WorldTick, Ownership!Apply
<1>3. CASE ~Consumes
  BY <1>1, <1>3 DEF WorldTick, Ownership!ownership
<1>4. QED
  BY <1>2, <1>3

(* A new generation is admitted only when nobody is, and is newer than all *)
(* before.                                                                 *)
LEMMA BeginAdmits ==
    ASSUME AdmissionInv, GateBeginsEpoch
    PROVE  Ownership!Admit
<1>1. Owner = 0
  BY DEF AdmissionInv, GateOwns, GateBeginsEpoch, Retired
<1>2. Owner' = epoch + 1 /\ issued' = epoch + 1 /\ epoch + 1 > issued
  BY DEF GateBeginsEpoch, Owner, AdmissionInv, AdmissionTypeOK, CellsOK, EpochGrows
<1>3. QED
  BY <1>1, <1>2 DEF Ownership!Admit, GateBeginsEpoch

(* Both ways of advancing the epoch without a new monitor give up what     *)
(* was owned.                                                              *)
LEMMA InvalidateGivesUp ==
    ASSUME AdmissionInv, GateInvalidates \/ GateAbandons
    PROVE  Ownership!GiveUp
<1>1. epoch' = epoch + 1 /\ issued' = issued /\ writer' = writer
  BY DEF GateInvalidates, GateAbandons, historyVars
<1>2. issued # epoch + 1
  BY DEF AdmissionInv, AdmissionTypeOK, CellsOK, EpochGrows
<1>3. QED
  BY <1>1, <1>2 DEF Ownership!GiveUp, Owner

(* A boot puts the configured target in force and changes no owner.        *)
LEMMA BootConfigures ==
    ASSUME WorldArms \/ GateStartsNative
    PROVE  Ownership!Boot
BY DEF WorldArms, GateStartsNative, Ownership!Boot, Ownership!CONFIGURED, CONFIGURED,
       epochVars, Owner

(* Every other step leaves ownership alone.                                *)
LEMMA OthersStutter ==
    ASSUME [AdmissionNext]_admissionVars,
           ~WorldTick, ~GateBeginsEpoch, ~(GateInvalidates \/ GateAbandons),
           ~(WorldArms \/ GateStartsNative)
    PROVE  UNCHANGED Ownership!ownership
<1> USE DEF Ownership!ownership, Owner, epochVars, historyVars
<1>1. CASE WorldReady
  BY <1>1 DEF WorldReady
<1>2. CASE WorldFails
  BY <1>2 DEF WorldFails
<1>3. CASE WorldCleansUp
  BY <1>3 DEF WorldCleansUp
<1>4. CASE MonitorLeaves
  BY <1>4 DEF MonitorLeaves
<1>5. CASE MonitorLoop
  BY <1>5 DEF MonitorLoop
<1>6. CASE MonitorObserve
  BY <1>6 DEF MonitorObserve
<1>7. CASE MonitorPend
  BY <1>7 DEF MonitorPend
<1>8. CASE MonitorEnter
  BY <1>8 DEF MonitorEnter
<1>9. CASE MonitorExit
  BY <1>9 DEF MonitorExit
<1>10. CASE MonitorPublish
  BY <1>10 DEF MonitorPublish
<1>11. CASE MonitorWakes
  BY <1>11 DEF MonitorWakes
<1>12. CASE GateAnswersTarget
  BY <1>12 DEF GateAnswersTarget
<1>13. CASE GateJoined
  BY <1>13 DEF GateJoined
<1>14. CASE GateJoinFails
  BY <1>14 DEF GateJoinFails
<1>15. CASE GateStopsNative
  BY <1>15 DEF GateStopsNative
<1>16. CASE GateSettles
  BY <1>16 DEF GateSettles
<1>17. CASE GateStartRefused
  BY <1>17 DEF GateStartRefused
<1>18. CASE GateVerdict
  BY <1>18 DEF GateVerdict
<1>19. CASE GateRegisters
  BY <1>19 DEF GateRegisters
<1>20. CASE GateStartsThread
  BY <1>20 DEF GateStartsThread
<1>21. ASSUME NEW a \in Threads, CheckTarget(a) PROVE UNCHANGED Ownership!ownership
  BY <1>21 DEF CheckTarget
<1>22. ASSUME NEW a \in Threads, QueueTarget(a) PROVE UNCHANGED Ownership!ownership
  BY <1>22 DEF QueueTarget
<1>23. ASSUME NEW a \in Threads, AwaitTarget(a) PROVE UNCHANGED Ownership!ownership
  BY <1>23 DEF AwaitTarget
<1>24. ASSUME NEW verb \in {"startBotProfile", "stop"}, GateBeginsVerb(verb) PROVE UNCHANGED Ownership!ownership
  BY <1>24 DEF GateBeginsVerb
<1>25. ASSUME NEW t \in Requests, GateSetsTarget(t) PROVE UNCHANGED Ownership!ownership
  BY <1>25 DEF GateSetsTarget
<1>26. ASSUME NEW p \in BOOLEAN, GateSetsPaused(p) PROVE UNCHANGED Ownership!ownership
  BY <1>26 DEF GateSetsPaused
<1>27. CASE UNCHANGED admissionVars
  BY <1>27 DEF admissionVars
<1>28. QED
  BY <1>1, <1>2, <1>3, <1>4, <1>5, <1>6, <1>7, <1>8, <1>9, <1>10, <1>11, <1>12,
         <1>13, <1>14, <1>15, <1>16, <1>17, <1>18, <1>19, <1>20, <1>21, <1>22,
         <1>23, <1>24, <1>25, <1>26, <1>27 DEF AdmissionNext, World, Monitor, Call,
         Gate, Verb

(* The epoch, the fence and the tick together implement TargetOwnership:   *)
(* nothing a retired monitor asked for is applied after its retirement,    *)
(* for every profile, every public request and any number of runs.         *)
THEOREM AdmissionImplementsOwnership == AdmissionSpec => TargetsFollowOwnership
<1>1. AdmissionInit => Ownership!OwnershipInit
  BY DEF AdmissionInit, Ownership!OwnershipInit, Ownership!CONFIGURED, CONFIGURED, Owner
<1>2. AdmissionInv /\ [AdmissionNext]_admissionVars
        => [Ownership!OwnershipNext]_Ownership!ownership
  BY TickAppliesForOwner, BeginAdmits, InvalidateGivesUp, BootConfigures, OthersStutter
     DEF Ownership!OwnershipNext
<1>3. QED
  BY <1>1, <1>2, AdmissionInvariance, PTL
     DEF AdmissionSpec, TargetsFollowOwnership, Ownership!Ownership

-----------------------------------------------------------------------------
(* The reported target.  What the monitor publishes and what the world     *)
(* runs with are kept by two threads, so the invariant follows a target    *)
(* through both: the pending target is the policy's (Agreed), the request  *)
(* in the fence is for the pending target, and a call answers "ok" only    *)
(* when the tick has the target in force and the fence is empty            *)
(* (Answered).  Agreed starts from the registration: until the thread runs *)
(* the world has the configured target, and so does the policy (Booted).   *)

Live == wstate \in {"STARTING", "READY"}

(* The target the world has, or will have once its bot lane is armed.      *)
InForce == IF armed THEN effective ELSE InitialTarget

Monitored == mpc # "dead" /\ Current

(* A start holds the gate with no monitor thread, from the join on; the    *)
(* monitor has a call exactly while it sets a target.                      *)
MonitorPath ==
    /\ mgen <= epoch
    /\ gpc = "stopped" /\ op = "startBotProfile" => mpc = "dead"
    /\ gpc \in {"verdict", "begin", "register", "thread"} => mpc = "dead"
    /\ Monitored => issued = epoch
    /\ cpc["monitor"] # "none" <=> mpc \in {"set", "publish"}
    /\ mpc = "publish" => cpc["monitor"] = "done"
    /\ crc["monitor"] = "ok" => cpc["monitor"] = "done"

Booted ==
    /\ wstate = "READY" => armed
    /\ gpc \in {"verdict", "begin", "register", "thread"} /\ Live
            => InForce = InitialTarget
    /\ gpc = "thread" /\ Live
            => /\ active = epoch /\ ~HasPending
               /\ policy = InitialTarget /\ pending = NoTarget

Agreed ==
    Monitored /\ Live =>
        /\ active = epoch /\ policy \in Nat
        /\ ~armed => mpc \in {"loop", "sleep"} /\ pending = NoTarget
        /\ pending \in {NoTarget, policy}
        /\ mpc \in {"observe", "pend"} => pending = NoTarget
        /\ mpc \in {"enter", "set", "publish"} => pending = policy
        /\ HasPending => request.target = policy /\ pending = policy
        /\ mpc \in {"loop", "observe", "sleep"} /\ pending = NoTarget
                => InForce = policy

Answered ==
    Monitored /\ Live =>
        /\ cpc["monitor"] # "none" => ctarget["monitor"] = policy
        /\ cpc["monitor"] = "queue" /\ cloaded["monitor"] = policy => effective = policy
        /\ cpc["monitor"] = "wait" /\ Applied(cseq["monitor"])
                => effective = policy /\ ~HasPending
        /\ crc["monitor"] = "ok" => effective = policy /\ ~HasPending

ReportedInv == MonitorPath /\ Booted /\ Agreed /\ Answered

(* While a current monitor runs no verb is past its first step, so the     *)
(* public surface has no call and nobody resets the fence.                 *)
LEMMA MonitoredGate ==
    ASSUME AdmissionInv, MonitorPath, Monitored
    PROVE  /\ gpc \in {"idle", "invalidate"}
           /\ cpc["gate"] = "none"
           /\ epoch # 0 /\ generation = epoch
BY DEF AdmissionInv, AdmissionTypeOK, CellsOK, Threads, GateOwns, EpochGrows, MonitorPath,
       Monitored, Current, Owner, Retired

(* Every step keeps the monitor and the gate apart.                        *)
LEMMA MonitorPathStep ==
    ASSUME AdmissionInv, ReportedInv, AdmissionTypeOK', [AdmissionNext]_admissionVars
    PROVE  MonitorPath'
<1> USE AdmissionAssumption DEF AdmissionInv, AdmissionTypeOK, CellsOK, FlagsOK,
       Threads, ReportedInv, MonitorPath, Monitored, Current, GateOwns, EpochGrows,
       Owner, Retired
<1>1. CASE WorldArms
  BY <1>1 DEF WorldArms, CONFIGURED, fenceVars, epochVars, serviceVars, callVars,
         gateVars, monitorVars
<1>2. CASE WorldReady
  BY <1>2 DEF WorldReady, fenceVars, epochVars, serviceVars, callVars, gateVars,
         monitorVars, historyVars
<1>3. CASE WorldFails
  BY <1>3 DEF WorldFails, fenceVars, epochVars, serviceVars, callVars, gateVars,
         monitorVars, historyVars
<1>4. CASE WorldCleansUp
  BY <1>4 DEF WorldCleansUp, Reset, NoRequest, Request, epochVars, serviceVars,
         callVars, gateVars, monitorVars, historyVars
<1>5. CASE WorldTick
  BY <1>5 DEF WorldTick, Consume, Consumes, ValidGeneration, NoRequest, Request,
         worldVars, epochVars, serviceVars, callVars, gateVars, monitorVars
<1>6. CASE MonitorLeaves
  BY <1>6 DEF MonitorLeaves, MonitorAt, Current, EndCall, NoTarget, callVars,
         fenceVars, worldVars, epochVars, serviceVars, gateVars, historyVars
<1>7. CASE MonitorLoop
  BY <1>7 DEF MonitorLoop, MonitorAt, Current, NoTarget, fenceVars, worldVars,
         epochVars, serviceVars, callVars, gateVars, historyVars
<1>8. CASE MonitorObserve
  BY <1>8 DEF MonitorObserve, MonitorAt, Current, Targets, fenceVars, worldVars,
         epochVars, serviceVars, callVars, gateVars, historyVars
<1>9. CASE MonitorPend
  BY <1>9 DEF MonitorPend, MonitorAt, Current, fenceVars, worldVars, epochVars,
         callVars, gateVars, historyVars
<1>10. CASE MonitorEnter
  BY <1>10 DEF MonitorEnter, MonitorAt, Current, StartCall, fenceVars, worldVars,
         serviceVars, gateVars, historyVars
<1>11. CASE MonitorExit
  BY <1>11 DEF MonitorExit, fenceVars, worldVars, serviceVars, callVars, gateVars,
         historyVars
<1>12. CASE MonitorPublish
  BY <1>12 DEF MonitorPublish, MonitorAt, Current, NoTarget, EndCall, fenceVars,
         worldVars, epochVars, gateVars, historyVars
<1>13. CASE MonitorWakes
  BY <1>13 DEF MonitorWakes, fenceVars, worldVars, epochVars, serviceVars, callVars,
         gateVars, historyVars
<1>14. CASE GateAnswersTarget
  BY <1>14 DEF GateAnswersTarget, GateIdles, EndCall, NoTarget, fenceVars,
         worldVars, epochVars, serviceVars, monitorVars, historyVars
<1>15. CASE GateInvalidates
  BY <1>15 DEF GateInvalidates, Retire, NoRequest, Request, RetireOk, worldVars,
         serviceVars, callVars, monitorVars, historyVars
<1>16. CASE GateJoined
  BY <1>16 DEF GateJoined, NoTarget, fenceVars, worldVars, epochVars, callVars,
         monitorVars, historyVars
<1>17. CASE GateJoinFails
  BY <1>17 DEF GateJoinFails, GateIdles, fenceVars, worldVars, epochVars,
         serviceVars, callVars, monitorVars, historyVars
<1>18. CASE GateStopsNative
  BY <1>18 DEF GateStopsNative, Reset, NoRequest, Request, epochVars, serviceVars,
         callVars, monitorVars, historyVars
<1>19. CASE GateSettles
  BY <1>19 DEF GateSettles, GateIdles, fenceVars, worldVars, epochVars, callVars,
         monitorVars, historyVars
<1>20. CASE GateStartsNative
  BY <1>20 DEF GateStartsNative, Reset, NoRequest, Request, CONFIGURED, epochVars,
         serviceVars, callVars, monitorVars
<1>21. CASE GateStartRefused
  BY <1>21 DEF GateStartRefused, GateIdles, fenceVars, epochVars, serviceVars,
         callVars, monitorVars, historyVars
<1>22. CASE GateVerdict
  BY <1>22 DEF GateVerdict, GateIdles, fenceVars, worldVars, epochVars, callVars,
         monitorVars, historyVars
<1>23. CASE GateBeginsEpoch
  BY <1>23 DEF GateBeginsEpoch, fenceVars, worldVars, serviceVars, callVars,
         monitorVars
<1>24. CASE GateRegisters
  BY <1>24 DEF GateRegisters, RegistersOk, BeginOk, Begin, NoRequest, Request,
         NoTarget, worldVars, epochVars, callVars, monitorVars, historyVars
<1>25. CASE GateStartsThread
  BY <1>25 DEF GateStartsThread, GateIdles, fenceVars, worldVars, epochVars,
         serviceVars, callVars, historyVars
<1>26. CASE GateAbandons
  BY <1>26 DEF GateAbandons, RegistersOk, BeginOk, Retire, NoRequest, Request,
         GateIdles, worldVars, callVars, monitorVars, historyVars
<1>27. ASSUME NEW a \in Threads, CheckTarget(a) PROVE MonitorPath'
  BY <1>27 DEF CheckTarget, Targets, Answer, fenceVars, worldVars, epochVars,
         serviceVars, gateVars, monitorVars, historyVars
<1>28. ASSUME NEW a \in Threads, QueueTarget(a) PROVE MonitorPath'
  BY <1>28, FreshSequenceType DEF QueueTarget, QueueRejects, ValidGeneration, fenceVars, Answer,
         QueueFindsEffective, NoRequest, Request, Queue, worldVars, epochVars,
         serviceVars, gateVars, monitorVars, historyVars
<1>29. ASSUME NEW a \in Threads, AwaitTarget(a) PROVE MonitorPath'
  BY <1>29 DEF AwaitTarget, Answer, Applied, fenceVars, worldVars, epochVars,
         serviceVars, gateVars, monitorVars, historyVars
<1>30. ASSUME NEW verb \in {"startBotProfile", "stop"}, GateBeginsVerb(verb) PROVE MonitorPath'
  BY <1>30 DEF GateBeginsVerb, fenceVars, worldVars, epochVars, serviceVars,
         callVars, monitorVars, historyVars
<1>31. ASSUME NEW t \in Requests, GateSetsTarget(t) PROVE MonitorPath'
  BY <1>31 DEF GateSetsTarget, StartCall, fenceVars, worldVars, epochVars,
         serviceVars, monitorVars, historyVars
<1>32. ASSUME NEW p \in BOOLEAN, GateSetsPaused(p) PROVE MonitorPath'
  BY <1>32 DEF GateSetsPaused, fenceVars, worldVars, epochVars, serviceVars,
         callVars, gateVars, monitorVars, historyVars
<1>33. CASE UNCHANGED admissionVars
  BY <1>33 DEF admissionVars, fenceVars, worldVars, epochVars, serviceVars,
         callVars, gateVars, monitorVars, historyVars
<1>34. QED
  BY <1>1, <1>2, <1>3, <1>4, <1>5, <1>6, <1>7, <1>8, <1>9, <1>10, <1>11, <1>12,
         <1>13, <1>14, <1>15, <1>16, <1>17, <1>18, <1>19, <1>20, <1>21, <1>22,
         <1>23, <1>24, <1>25, <1>26, <1>27, <1>28, <1>29, <1>30, <1>31, <1>32,
         <1>33 DEF AdmissionNext, World, Monitor, Call, Gate, Verb

(* Every step of a start keeps the configured target in force.             *)
LEMMA BootedStep ==
    ASSUME AdmissionInv, ReportedInv, AdmissionTypeOK', [AdmissionNext]_admissionVars
    PROVE  Booted'
<1> USE AdmissionAssumption DEF AdmissionInv, AdmissionTypeOK, CellsOK, FlagsOK,
       Threads, ReportedInv, MonitorPath, Booted, Live, InForce, GateOwns, EpochGrows,
       PendingOwned, FenceFollowsService, HasPending, Owner, Retired
<1>1. CASE WorldArms
  BY <1>1 DEF WorldArms, CONFIGURED, fenceVars, epochVars, serviceVars, callVars,
         gateVars, monitorVars
<1>2. CASE WorldReady
  BY <1>2 DEF WorldReady, fenceVars, epochVars, serviceVars, callVars, gateVars,
         monitorVars, historyVars
<1>3. CASE WorldFails
  BY <1>3 DEF WorldFails, fenceVars, epochVars, serviceVars, callVars, gateVars,
         monitorVars, historyVars
<1>4. CASE WorldCleansUp
  BY <1>4 DEF WorldCleansUp, Reset, NoRequest, Request, epochVars, serviceVars,
         callVars, gateVars, monitorVars, historyVars
<1>5. CASE WorldTick
  BY <1>5 DEF WorldTick, Consume, Consumes, ValidGeneration, NoRequest, Request,
         worldVars, epochVars, serviceVars, callVars, gateVars, monitorVars
<1>6. CASE MonitorLeaves
  BY <1>6 DEF MonitorLeaves, MonitorAt, Current, EndCall, NoTarget, callVars,
         fenceVars, worldVars, epochVars, serviceVars, gateVars, historyVars
<1>7. CASE MonitorLoop
  BY <1>7 DEF MonitorLoop, MonitorAt, Current, NoTarget, fenceVars, worldVars,
         epochVars, serviceVars, callVars, gateVars, historyVars
<1>8. CASE MonitorObserve
  BY <1>8 DEF MonitorObserve, MonitorAt, Current, Targets, fenceVars, worldVars,
         epochVars, serviceVars, callVars, gateVars, historyVars
<1>9. CASE MonitorPend
  BY <1>9 DEF MonitorPend, MonitorAt, Current, fenceVars, worldVars, epochVars,
         callVars, gateVars, historyVars
<1>10. CASE MonitorEnter
  BY <1>10 DEF MonitorEnter, MonitorAt, Current, StartCall, fenceVars, worldVars,
         serviceVars, gateVars, historyVars
<1>11. CASE MonitorExit
  BY <1>11 DEF MonitorExit, fenceVars, worldVars, serviceVars, callVars, gateVars,
         historyVars
<1>12. CASE MonitorPublish
  BY <1>12 DEF MonitorPublish, MonitorAt, Current, NoTarget, EndCall, fenceVars,
         worldVars, epochVars, gateVars, historyVars
<1>13. CASE MonitorWakes
  BY <1>13 DEF MonitorWakes, fenceVars, worldVars, epochVars, serviceVars, callVars,
         gateVars, historyVars
<1>14. CASE GateAnswersTarget
  BY <1>14 DEF GateAnswersTarget, GateIdles, EndCall, NoTarget, fenceVars,
         worldVars, epochVars, serviceVars, monitorVars, historyVars
<1>15. CASE GateInvalidates
  BY <1>15 DEF GateInvalidates, Retire, NoRequest, Request, RetireOk, worldVars,
         serviceVars, callVars, monitorVars, historyVars
<1>16. CASE GateJoined
  BY <1>16 DEF GateJoined, NoTarget, fenceVars, worldVars, epochVars, callVars,
         monitorVars, historyVars
<1>17. CASE GateJoinFails
  BY <1>17 DEF GateJoinFails, GateIdles, fenceVars, worldVars, epochVars,
         serviceVars, callVars, monitorVars, historyVars
<1>18. CASE GateStopsNative
  BY <1>18 DEF GateStopsNative, Reset, NoRequest, Request, epochVars, serviceVars,
         callVars, monitorVars, historyVars
<1>19. CASE GateSettles
  BY <1>19 DEF GateSettles, GateIdles, fenceVars, worldVars, epochVars, callVars,
         monitorVars, historyVars
<1>20. CASE GateStartsNative
  BY <1>20 DEF GateStartsNative, Reset, NoRequest, Request, CONFIGURED, epochVars,
         serviceVars, callVars, monitorVars
<1>21. CASE GateStartRefused
  BY <1>21 DEF GateStartRefused, GateIdles, fenceVars, epochVars, serviceVars,
         callVars, monitorVars, historyVars
<1>22. CASE GateVerdict
  BY <1>22 DEF GateVerdict, GateIdles, fenceVars, worldVars, epochVars, callVars,
         monitorVars, historyVars
<1>23. CASE GateBeginsEpoch
  BY <1>23 DEF GateBeginsEpoch, fenceVars, worldVars, serviceVars, callVars,
         monitorVars
<1>24. CASE GateRegisters
  BY <1>24 DEF GateRegisters, RegistersOk, BeginOk, Begin, NoRequest, Request,
         NoTarget, worldVars, epochVars, callVars, monitorVars, historyVars
<1>25. CASE GateStartsThread
  BY <1>25 DEF GateStartsThread, GateIdles, fenceVars, worldVars, epochVars,
         serviceVars, callVars, historyVars
<1>26. CASE GateAbandons
  BY <1>26 DEF GateAbandons, RegistersOk, BeginOk, Retire, NoRequest, Request,
         GateIdles, worldVars, callVars, monitorVars, historyVars
<1>27. ASSUME NEW a \in Threads, CheckTarget(a) PROVE Booted'
  BY <1>27 DEF CheckTarget, Targets, Answer, fenceVars, worldVars, epochVars,
         serviceVars, gateVars, monitorVars, historyVars
<1>28. ASSUME NEW a \in Threads, QueueTarget(a) PROVE Booted'
  BY <1>28, FreshSequenceType DEF QueueTarget, QueueRejects, ValidGeneration, fenceVars, Answer,
         QueueFindsEffective, NoRequest, Request, Queue, worldVars, epochVars,
         serviceVars, gateVars, monitorVars, historyVars
<1>29. ASSUME NEW a \in Threads, AwaitTarget(a) PROVE Booted'
  BY <1>29 DEF AwaitTarget, Answer, Applied, fenceVars, worldVars, epochVars,
         serviceVars, gateVars, monitorVars, historyVars
<1>30. ASSUME NEW verb \in {"startBotProfile", "stop"}, GateBeginsVerb(verb) PROVE Booted'
  BY <1>30 DEF GateBeginsVerb, fenceVars, worldVars, epochVars, serviceVars,
         callVars, monitorVars, historyVars
<1>31. ASSUME NEW t \in Requests, GateSetsTarget(t) PROVE Booted'
  BY <1>31 DEF GateSetsTarget, StartCall, fenceVars, worldVars, epochVars,
         serviceVars, monitorVars, historyVars
<1>32. ASSUME NEW p \in BOOLEAN, GateSetsPaused(p) PROVE Booted'
  BY <1>32 DEF GateSetsPaused, fenceVars, worldVars, epochVars, serviceVars,
         callVars, gateVars, monitorVars, historyVars
<1>33. CASE UNCHANGED admissionVars
  BY <1>33 DEF admissionVars, fenceVars, worldVars, epochVars, serviceVars,
         callVars, gateVars, monitorVars, historyVars
<1>34. QED
  BY <1>1, <1>2, <1>3, <1>4, <1>5, <1>6, <1>7, <1>8, <1>9, <1>10, <1>11, <1>12,
         <1>13, <1>14, <1>15, <1>16, <1>17, <1>18, <1>19, <1>20, <1>21, <1>22,
         <1>23, <1>24, <1>25, <1>26, <1>27, <1>28, <1>29, <1>30, <1>31, <1>32,
         <1>33 DEF AdmissionNext, World, Monitor, Call, Gate, Verb

(* Every step keeps the pending target the policy's.                       *)
LEMMA AgreedStep ==
    ASSUME AdmissionInv, ReportedInv, AdmissionTypeOK', [AdmissionNext]_admissionVars
    PROVE  Agreed'
<1> USE MonitoredGate, AdmissionAssumption DEF AdmissionInv, AdmissionTypeOK, CellsOK,
       FlagsOK, Threads, ReportedInv, MonitorPath, Booted, Agreed, Answered, Live,
       InForce, Monitored, Current, GateOwns, EpochGrows, PendingOwned, HasPending,
       Owner, Retired
<1>1. CASE WorldArms
  BY <1>1 DEF WorldArms, CONFIGURED, fenceVars, epochVars, serviceVars, callVars,
         gateVars, monitorVars
<1>2. CASE WorldReady
  BY <1>2 DEF WorldReady, fenceVars, epochVars, serviceVars, callVars, gateVars,
         monitorVars, historyVars
<1>3. CASE WorldFails
  BY <1>3 DEF WorldFails, fenceVars, epochVars, serviceVars, callVars, gateVars,
         monitorVars, historyVars
<1>4. CASE WorldCleansUp
  BY <1>4 DEF WorldCleansUp, Reset, NoRequest, Request, epochVars, serviceVars,
         callVars, gateVars, monitorVars, historyVars
<1>5. CASE WorldTick
  BY <1>5 DEF WorldTick, Consume, Consumes, ValidGeneration, NoRequest, Request,
         worldVars, epochVars, serviceVars, callVars, gateVars, monitorVars
<1>6. CASE MonitorLeaves
  BY <1>6 DEF MonitorLeaves, MonitorAt, Current, EndCall, NoTarget, callVars,
         fenceVars, worldVars, epochVars, serviceVars, gateVars, historyVars
<1>7. CASE MonitorLoop
  BY <1>7 DEF MonitorLoop, MonitorAt, Current, NoTarget, fenceVars, worldVars,
         epochVars, serviceVars, callVars, gateVars, historyVars
<1>8. CASE MonitorObserve
  BY <1>8 DEF MonitorObserve, MonitorAt, Current, Targets, NoTarget, fenceVars,
         worldVars, epochVars, serviceVars, callVars, gateVars, historyVars
<1>9. CASE MonitorPend
  BY <1>9 DEF MonitorPend, MonitorAt, Current, fenceVars, worldVars, epochVars,
         callVars, gateVars, historyVars
<1>10. CASE MonitorEnter
  BY <1>10 DEF MonitorEnter, MonitorAt, Current, StartCall, fenceVars, worldVars,
         serviceVars, gateVars, historyVars
<1>11. CASE MonitorExit
  BY <1>11 DEF MonitorExit, fenceVars, worldVars, serviceVars, callVars, gateVars,
         historyVars
<1>12. CASE MonitorPublish
  BY <1>12 DEF MonitorPublish, MonitorAt, Current, NoTarget, EndCall, fenceVars,
         worldVars, epochVars, gateVars, historyVars
<1>13. CASE MonitorWakes
  BY <1>13 DEF MonitorWakes, fenceVars, worldVars, epochVars, serviceVars, callVars,
         gateVars, historyVars
<1>14. CASE GateAnswersTarget
  BY <1>14 DEF GateAnswersTarget, GateIdles, EndCall, NoTarget, fenceVars,
         worldVars, epochVars, serviceVars, monitorVars, historyVars
<1>15. CASE GateInvalidates
  BY <1>15 DEF GateInvalidates, Retire, NoRequest, Request, RetireOk, worldVars,
         serviceVars, callVars, monitorVars, historyVars
<1>16. CASE GateJoined
  BY <1>16 DEF GateJoined, NoTarget, fenceVars, worldVars, epochVars, callVars,
         monitorVars, historyVars
<1>17. CASE GateJoinFails
  BY <1>17 DEF GateJoinFails, GateIdles, fenceVars, worldVars, epochVars,
         serviceVars, callVars, monitorVars, historyVars
<1>18. CASE GateStopsNative
  BY <1>18 DEF GateStopsNative, Reset, NoRequest, Request, epochVars, serviceVars,
         callVars, monitorVars, historyVars
<1>19. CASE GateSettles
  BY <1>19 DEF GateSettles, GateIdles, fenceVars, worldVars, epochVars, callVars,
         monitorVars, historyVars
<1>20. CASE GateStartsNative
  BY <1>20 DEF GateStartsNative, Reset, NoRequest, Request, CONFIGURED, epochVars,
         serviceVars, callVars, monitorVars
<1>21. CASE GateStartRefused
  BY <1>21 DEF GateStartRefused, GateIdles, fenceVars, epochVars, serviceVars,
         callVars, monitorVars, historyVars
<1>22. CASE GateVerdict
  BY <1>22 DEF GateVerdict, GateIdles, fenceVars, worldVars, epochVars, callVars,
         monitorVars, historyVars
<1>23. CASE GateBeginsEpoch
  BY <1>23 DEF GateBeginsEpoch, fenceVars, worldVars, serviceVars, callVars,
         monitorVars
<1>24. CASE GateRegisters
  BY <1>24 DEF GateRegisters, RegistersOk, BeginOk, Begin, NoRequest, Request,
         NoTarget, worldVars, epochVars, callVars, monitorVars, historyVars
<1>25. CASE GateStartsThread
  BY <1>25 DEF GateStartsThread, GateIdles, fenceVars, worldVars, epochVars,
         serviceVars, callVars, historyVars
<1>26. CASE GateAbandons
  BY <1>26 DEF GateAbandons, RegistersOk, BeginOk, Retire, NoRequest, Request,
         GateIdles, worldVars, callVars, monitorVars, historyVars
<1>27. ASSUME NEW a \in Threads, CheckTarget(a) PROVE Agreed'
  BY <1>27 DEF CheckTarget, Targets, Answer, fenceVars, worldVars, epochVars,
         serviceVars, gateVars, monitorVars, historyVars
<1>28. ASSUME NEW a \in Threads, QueueTarget(a) PROVE Agreed'
  BY <1>28, FreshSequenceType DEF QueueTarget, QueueRejects, ValidGeneration, fenceVars, Answer,
         QueueFindsEffective, NoRequest, Request, Queue, worldVars, epochVars,
         serviceVars, gateVars, monitorVars, historyVars
<1>29. ASSUME NEW a \in Threads, AwaitTarget(a) PROVE Agreed'
  BY <1>29 DEF AwaitTarget, Answer, Applied, fenceVars, worldVars, epochVars,
         serviceVars, gateVars, monitorVars, historyVars
<1>30. ASSUME NEW verb \in {"startBotProfile", "stop"}, GateBeginsVerb(verb) PROVE Agreed'
  BY <1>30 DEF GateBeginsVerb, fenceVars, worldVars, epochVars, serviceVars,
         callVars, monitorVars, historyVars
<1>31. ASSUME NEW t \in Requests, GateSetsTarget(t) PROVE Agreed'
  BY <1>31 DEF GateSetsTarget, StartCall, fenceVars, worldVars, epochVars,
         serviceVars, monitorVars, historyVars
<1>32. ASSUME NEW p \in BOOLEAN, GateSetsPaused(p) PROVE Agreed'
  BY <1>32 DEF GateSetsPaused, fenceVars, worldVars, epochVars, serviceVars,
         callVars, gateVars, monitorVars, historyVars
<1>33. CASE UNCHANGED admissionVars
  BY <1>33 DEF admissionVars, fenceVars, worldVars, epochVars, serviceVars,
         callVars, gateVars, monitorVars, historyVars
<1>34. QED
  BY <1>1, <1>2, <1>3, <1>4, <1>5, <1>6, <1>7, <1>8, <1>9, <1>10, <1>11, <1>12,
         <1>13, <1>14, <1>15, <1>16, <1>17, <1>18, <1>19, <1>20, <1>21, <1>22,
         <1>23, <1>24, <1>25, <1>26, <1>27, <1>28, <1>29, <1>30, <1>31, <1>32,
         <1>33 DEF AdmissionNext, World, Monitor, Call, Gate, Verb

(* Every step keeps an acknowledged target in force.                       *)
LEMMA AnsweredStep ==
    ASSUME AdmissionInv, ReportedInv, AdmissionTypeOK', [AdmissionNext]_admissionVars
    PROVE  Answered'
<1> USE MonitoredGate, AdmissionAssumption DEF AdmissionInv, AdmissionTypeOK, CellsOK,
       FlagsOK, Threads, ReportedInv, MonitorPath, Booted, Agreed, Answered, Live,
       InForce, Monitored, Current, GateOwns, EpochGrows, PendingOwned, HasPending,
       Applied, Owner, Retired
<1>1. CASE WorldArms
  BY <1>1 DEF WorldArms, CONFIGURED, fenceVars, epochVars, serviceVars, callVars,
         gateVars, monitorVars
<1>2. CASE WorldReady
  BY <1>2 DEF WorldReady, fenceVars, epochVars, serviceVars, callVars, gateVars,
         monitorVars, historyVars
<1>3. CASE WorldFails
  BY <1>3 DEF WorldFails, fenceVars, epochVars, serviceVars, callVars, gateVars,
         monitorVars, historyVars
<1>4. CASE WorldCleansUp
  BY <1>4 DEF WorldCleansUp, Reset, NoRequest, Request, epochVars, serviceVars,
         callVars, gateVars, monitorVars, historyVars
<1>5. CASE WorldTick
  BY <1>5 DEF WorldTick, Consume, Consumes, ValidGeneration, NoRequest, Request,
         worldVars, epochVars, serviceVars, callVars, gateVars, monitorVars
<1>6. CASE MonitorLeaves
  BY <1>6 DEF MonitorLeaves, MonitorAt, Current, EndCall, NoTarget, callVars,
         fenceVars, worldVars, epochVars, serviceVars, gateVars, historyVars
<1>7. CASE MonitorLoop
  BY <1>7 DEF MonitorLoop, MonitorAt, Current, NoTarget, fenceVars, worldVars,
         epochVars, serviceVars, callVars, gateVars, historyVars
<1>8. CASE MonitorObserve
  BY <1>8 DEF MonitorObserve, MonitorAt, Current, Targets, fenceVars, worldVars,
         epochVars, serviceVars, callVars, gateVars, historyVars
<1>9. CASE MonitorPend
  BY <1>9 DEF MonitorPend, MonitorAt, Current, fenceVars, worldVars, epochVars,
         callVars, gateVars, historyVars
<1>10. CASE MonitorEnter
  BY <1>10 DEF MonitorEnter, MonitorAt, Current, StartCall, fenceVars, worldVars,
         serviceVars, gateVars, historyVars
<1>11. CASE MonitorExit
  BY <1>11 DEF MonitorExit, fenceVars, worldVars, serviceVars, callVars, gateVars,
         historyVars
<1>12. CASE MonitorPublish
  BY <1>12 DEF MonitorPublish, MonitorAt, Current, NoTarget, EndCall, fenceVars,
         worldVars, epochVars, gateVars, historyVars
<1>13. CASE MonitorWakes
  BY <1>13 DEF MonitorWakes, fenceVars, worldVars, epochVars, serviceVars, callVars,
         gateVars, historyVars
<1>14. CASE GateAnswersTarget
  BY <1>14 DEF GateAnswersTarget, GateIdles, EndCall, NoTarget, fenceVars,
         worldVars, epochVars, serviceVars, monitorVars, historyVars
<1>15. CASE GateInvalidates
  BY <1>15 DEF GateInvalidates, Retire, NoRequest, Request, RetireOk, worldVars,
         serviceVars, callVars, monitorVars, historyVars
<1>16. CASE GateJoined
  BY <1>16 DEF GateJoined, NoTarget, fenceVars, worldVars, epochVars, callVars,
         monitorVars, historyVars
<1>17. CASE GateJoinFails
  BY <1>17 DEF GateJoinFails, GateIdles, fenceVars, worldVars, epochVars,
         serviceVars, callVars, monitorVars, historyVars
<1>18. CASE GateStopsNative
  BY <1>18 DEF GateStopsNative, Reset, NoRequest, Request, epochVars, serviceVars,
         callVars, monitorVars, historyVars
<1>19. CASE GateSettles
  BY <1>19 DEF GateSettles, GateIdles, fenceVars, worldVars, epochVars, callVars,
         monitorVars, historyVars
<1>20. CASE GateStartsNative
  BY <1>20 DEF GateStartsNative, Reset, NoRequest, Request, CONFIGURED, epochVars,
         serviceVars, callVars, monitorVars
<1>21. CASE GateStartRefused
  BY <1>21 DEF GateStartRefused, GateIdles, fenceVars, epochVars, serviceVars,
         callVars, monitorVars, historyVars
<1>22. CASE GateVerdict
  BY <1>22 DEF GateVerdict, GateIdles, fenceVars, worldVars, epochVars, callVars,
         monitorVars, historyVars
<1>23. CASE GateBeginsEpoch
  BY <1>23 DEF GateBeginsEpoch, fenceVars, worldVars, serviceVars, callVars,
         monitorVars
<1>24. CASE GateRegisters
  BY <1>24 DEF GateRegisters, RegistersOk, BeginOk, Begin, NoRequest, Request,
         NoTarget, worldVars, epochVars, callVars, monitorVars, historyVars
<1>25. CASE GateStartsThread
  BY <1>25 DEF GateStartsThread, GateIdles, fenceVars, worldVars, epochVars,
         serviceVars, callVars, historyVars
<1>26. CASE GateAbandons
  BY <1>26 DEF GateAbandons, RegistersOk, BeginOk, Retire, NoRequest, Request,
         GateIdles, worldVars, callVars, monitorVars, historyVars
<1>27. ASSUME NEW a \in Threads, CheckTarget(a) PROVE Answered'
  BY <1>27 DEF CheckTarget, Targets, Answer, fenceVars, worldVars, epochVars,
         serviceVars, gateVars, monitorVars, historyVars
<1>28. ASSUME NEW a \in Threads, QueueTarget(a) PROVE Answered'
  BY <1>28, FreshSequenceType DEF QueueTarget, QueueRejects, ValidGeneration, fenceVars, Answer,
         QueueFindsEffective, NoRequest, Request, Queue, worldVars, epochVars,
         serviceVars, gateVars, monitorVars, historyVars
<1>29. ASSUME NEW a \in Threads, AwaitTarget(a) PROVE Answered'
  BY <1>29 DEF AwaitTarget, Answer, Applied, fenceVars, worldVars, epochVars,
         serviceVars, gateVars, monitorVars, historyVars
<1>30. ASSUME NEW verb \in {"startBotProfile", "stop"}, GateBeginsVerb(verb) PROVE Answered'
  BY <1>30 DEF GateBeginsVerb, fenceVars, worldVars, epochVars, serviceVars,
         callVars, monitorVars, historyVars
<1>31. ASSUME NEW t \in Requests, GateSetsTarget(t) PROVE Answered'
  BY <1>31 DEF GateSetsTarget, StartCall, fenceVars, worldVars, epochVars,
         serviceVars, monitorVars, historyVars
<1>32. ASSUME NEW p \in BOOLEAN, GateSetsPaused(p) PROVE Answered'
  BY <1>32 DEF GateSetsPaused, fenceVars, worldVars, epochVars, serviceVars,
         callVars, gateVars, monitorVars, historyVars
<1>33. CASE UNCHANGED admissionVars
  BY <1>33 DEF admissionVars, fenceVars, worldVars, epochVars, serviceVars,
         callVars, gateVars, monitorVars, historyVars
<1>34. QED
  BY <1>1, <1>2, <1>3, <1>4, <1>5, <1>6, <1>7, <1>8, <1>9, <1>10, <1>11, <1>12,
         <1>13, <1>14, <1>15, <1>16, <1>17, <1>18, <1>19, <1>20, <1>21, <1>22,
         <1>23, <1>24, <1>25, <1>26, <1>27, <1>28, <1>29, <1>30, <1>31, <1>32,
         <1>33 DEF AdmissionNext, World, Monitor, Call, Gate, Verb

(* The initial state has the invariant.                                    *)
LEMMA ReportedInvInit == AdmissionInit => ReportedInv
BY DEF AdmissionInit, FenceInit, NoRequest, Request, ReportedInv, MonitorPath, Booted,
       Agreed, Answered, Monitored, Current, Live, InForce, HasPending, Threads

(* Every step keeps it.                                                    *)
LEMMA ReportedInvStep ==
    AdmissionInv /\ ReportedInv /\ [AdmissionNext]_admissionVars => ReportedInv'
<1> SUFFICES ASSUME AdmissionInv, ReportedInv, [AdmissionNext]_admissionVars
             PROVE  ReportedInv'
  OBVIOUS
<1>1. AdmissionTypeOK'
  BY AdmissionInvStep DEF AdmissionInv
<1>2. QED
  BY <1>1, MonitorPathStep, BootedStep, AgreedStep, AnsweredStep DEF ReportedInv

LEMMA ReportedInvariance == AdmissionSpec => []ReportedInv
BY AdmissionInvariance, ReportedInvInit, ReportedInvStep, PTL DEF AdmissionSpec

(* Between two passes of a current monitor with nothing pending, a READY   *)
(* world has the target the policy decided and no request waits in the     *)
(* fence: a timed-out setter, a tick that applies its request late and a   *)
(* retry that finds it applied cannot make the reported and the native     *)
(* target diverge.                                                         *)
THEOREM ReportedTargetHolds == AdmissionSpec => []ReportedTargetIsNative
<1>1. AdmissionInv /\ ReportedInv => ReportedTargetIsNative
  BY DEF AdmissionInv, ReportedInv, MonitorPath, Booted, Agreed, Live, InForce, Monitored,
         NoTarget, HasPending, ReportedTargetIsNative
<1>2. QED
  BY <1>1, AdmissionInvariance, ReportedInvariance, PTL
=============================================================================
