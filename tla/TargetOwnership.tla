-------------------------- MODULE TargetOwnership --------------------------
(***************************************************************************)
(* What the admission machinery promises about the bot target, whoever     *)
(* asks for it and whatever is queued or executing: at any time the target *)
(* has one owner; an application is made in the name of the owner of that  *)
(* moment; and ownership, once given up, is never given to the same        *)
(* generation again.  So nothing a retired generation asked for is applied *)
(* after its retirement.                                                   *)
(***************************************************************************)
EXTENDS Integers

VARIABLES owner,      \* the generation that owns the target, 0: the public surface
          issued,     \* the newest generation that ever owned it
          writer      \* in whose name the target in force was applied, or CONFIGURED

ownership == <<owner, issued, writer>>

CONFIGURED == -1

OwnershipInit == owner = 0 /\ issued = 0 /\ writer = CONFIGURED

(* A new generation takes the target, only when nobody else has it.        *)
Admit == /\ owner = 0
         /\ owner' > issued
         /\ issued' = owner'
         /\ UNCHANGED writer

GiveUp == owner' = 0 /\ UNCHANGED <<issued, writer>>

Apply == writer' = owner /\ UNCHANGED <<owner, issued>>

(* A world boots: the target in force is the configured one.               *)
Boot == writer' = CONFIGURED /\ UNCHANGED <<owner, issued>>

OwnershipNext == Admit \/ GiveUp \/ Apply \/ Boot

Ownership == OwnershipInit /\ [][OwnershipNext]_ownership

=============================================================================
