--------------------------- MODULE BotTargetFence ---------------------------
(***************************************************************************)
(* The gate of native/realm-runtime between the threads that ask the world *)
(* for another bot population and the world tick that applies it.  Every   *)
(* method runs under m_mutex, so each is one step; what a method returns   *)
(* is an operator of the fence before the step.                            *)
(*                                                                         *)
(* Generation 0 is the public control surface, every other generation an   *)
(* admission monitor.  A sequence of 0 stands for "nothing pending":       *)
(* clear_pending_locked zeroes it and m_next_sequence starts at 1.  The    *)
(* counter itself is not kept: its one use is to give each queued request  *)
(* a number nobody holds, so queue takes such a number as a parameter.     *)
(***************************************************************************)
EXTENDS Integers

VARIABLES active,       \* m_active_generation
          request,      \* m_pending_target, m_pending_generation, m_pending_sequence
          lastApplied   \* m_last_applied_sequence

fenceVars == <<active, request, lastApplied>>

Request(t, g, s) == [target |-> t, gen |-> g, seq |-> s]
NoRequest == Request(-1, 0, 0)

FenceInit == active = 0 /\ request = NoRequest /\ lastApplied = 0

HasPending == request.seq # 0

ValidGeneration(g) == active = g

-----------------------------------------------------------------------------

BeginOk(g) == g # 0 /\ active = 0

Begin(g) ==
    /\ BeginOk(g)
    /\ active' = g
    /\ request' = NoRequest
    /\ UNCHANGED lastApplied

RetireOk(g) == g # 0 /\ active \in {0, g}

(* Mutant: the generation's request is dropped and the generation kept.    *)
RetireRequestOnly(g) ==
    /\ request' = IF g # 0 /\ active = g /\ request.gen = g THEN NoRequest ELSE request
    /\ UNCHANGED <<active, lastApplied>>

Retire(g) ==
    /\ active' = IF g # 0 /\ active = g THEN 0 ELSE active
    /\ request' = IF g # 0 /\ active = g /\ request.gen = g THEN NoRequest ELSE request
    /\ UNCHANGED lastApplied

(* queue(target, generation, effective_target): the caller read the        *)
(* effective target before it came for the mutex.                          *)
QueueRejects(g) == ~ValidGeneration(g) /\ UNCHANGED fenceVars

QueueFindsEffective(t, g, eff) ==
    /\ ValidGeneration(g) /\ eff = t
    /\ request' = NoRequest
    /\ UNCHANGED <<active, lastApplied>>

Queue(t, g, eff, fresh) ==
    /\ ValidGeneration(g) /\ eff # t
    /\ request' = Request(t, g, fresh)
    /\ UNCHANGED <<active, lastApplied>>

(* wait_applied answers whether its request is the last one applied.       *)
Applied(s) == lastApplied = s

(* consume(apply): the request the world tick applies, if any, is gone     *)
(* afterwards; so is one whose generation is no longer active.             *)
Consumes == HasPending /\ ValidGeneration(request.gen)

Consume ==
    /\ lastApplied' = IF Consumes THEN request.seq ELSE lastApplied
    /\ request' = IF HasPending THEN NoRequest ELSE request
    /\ UNCHANGED active

Reset == active' = 0 /\ lastApplied' = 0 /\ request' = NoRequest

=============================================================================
