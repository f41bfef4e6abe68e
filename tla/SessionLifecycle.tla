-------------------------- MODULE SessionLifecycle --------------------------
(***************************************************************************)
(* What the supervisor promises about the sessions of a realm, whatever    *)
(* fails and whoever dies.  A session is opened only over a sealed journal *)
(* and with nothing up; a component comes up only under an open session,   *)
(* before everything that is started after it; the journal is sealed only  *)
(* once everything is down.  So whatever is up was brought up in the       *)
(* session that is open: the runtimes of two sessions never meet.          *)
(***************************************************************************)
CONSTANTS Components, Sessions, NoSession,
          Later,      \* Later[c]: what is started after c
          Engine      \* what the recovery of the journal itself may take down

VARIABLES sealed,     \* the journal is clean
          open,       \* the session it names, or NoSession
          up          \* the components that run

lifecycle == <<sealed, open, up>>

LifecycleInit == sealed = TRUE /\ open = NoSession /\ up = {}

Open == /\ sealed /\ up = {}
        /\ sealed' = FALSE /\ open' \in Sessions \ {open} /\ UNCHANGED up

Launch(c) == /\ ~sealed /\ open # NoSession
             /\ c \notin up /\ up \cap Later[c] = {}
             /\ up' = up \cup {c}
             /\ UNCHANGED <<sealed, open>>

(* Components end, by a stop, a kill or a death, and the journal may come   *)
(* to be in doubt.                                                         *)
Fall == /\ up' \subseteq up
        /\ sealed' \in {sealed, FALSE}
        /\ UNCHANGED open

(* A stop or a recovery has everything down.                               *)
Seal == /\ up \subseteq Engine /\ up' = {}
        /\ sealed' = TRUE /\ open' \in {open, NoSession}

(* A forced stop gives the session up and leaves the engine to the next    *)
(* recovery.                                                               *)
Disown == /\ ~sealed /\ up \subseteq Engine /\ up' \subseteq up
          /\ open' = NoSession /\ UNCHANGED sealed

LifecycleNext ==
    Open \/ (\E c \in Components : Launch(c)) \/ Fall \/ Seal \/ Disown

Lifecycle == LifecycleInit /\ [][LifecycleNext]_lifecycle

=============================================================================
