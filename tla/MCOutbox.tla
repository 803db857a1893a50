------------------------------ MODULE MCOutbox ------------------------------
(***************************************************************************)
(* The two halves of the alerts package, in one model: how an alert is     *)
(* issued and updated (AlertLifecycle) and how its notification is         *)
(* delivered (Outbox).  They share no state; a behaviour is one of the     *)
(* half `active`, the other stands still.  Delivery workers are            *)
(* interchangeable.                                                        *)
(***************************************************************************)
EXTENDS Outbox, AlertLifecycle, TLC

CONSTANT Halves   \* the halves a run explores

VARIABLE active

WorkerSymmetry == Permutations(Workers)

MCInit == active \in Halves /\ Init /\ AlertInit

MCNext ==
    \/ active = "outbox" /\ Next /\ UNCHANGED <<active, alertVars>>
    \/ active = "lifecycle" /\ AlertNext /\ UNCHANGED <<active, vars>>

MCSpec == MCInit /\ [][MCNext]_<<active, vars, alertVars>>
=============================================================================
