----------------------------- MODULE MCScheduler -----------------------------
(***************************************************************************)
(* Two uses of the scheduling control plane.                               *)
(*   serial   one admin, no failures, QStash ids given out one by one:     *)
(*            what the operations promise one after another.               *)
(*   repair   an admin that dies between two awaits, changes by hand and   *)
(*            the reconciler, for one schedule; QStash derives the id of a *)
(*            schedule from it.                                            *)
(***************************************************************************)
EXTENDS Scheduler, TLC

CONSTANTS Repaired,   \* the one schedule of the repair use
          MaxRepaired \* bound: operations begun in the repair use

VARIABLE use

allVars == <<vars, use>>

Repair == INSTANCE Scheduler WITH FreshExternal <- FALSE

MCInit == use \in {"serial", "repair"} /\ Init

Small == /\ spent'.ops <= MaxRepaired
         /\ \A p \in Admins : loc'[p].id \in {Repaired, NoSchedule}

MCNext ==
    /\ \/ use = "serial" /\ \E p \in Admins : Ask(p) \/ Work(p)
       \/ use = "repair" /\ Repair!Next /\ Small
    /\ UNCHANGED use

\* In the repair use operations under way go on, and repairing passes are
\* started again and again.
MCSpec ==
    /\ MCInit /\ [][MCNext]_allVars
    /\ \A p \in Admins : WF_allVars(use = "repair" /\ Repair!Work(p) /\ UNCHANGED use)
    /\ WF_allVars(use = "repair" /\ Repair!Reconcile /\ UNCHANGED use)
    /\ SF_allVars(use = "repair" /\ Repair!ReconcileList(TRUE) /\ UNCHANGED use)
-----------------------------------------------------------------------------
\* Operations that die half-way and changes made in QStash by hand are repaired
\* by reconcileSchedules in the end, for good.
ReconcilerConverges == use = "repair" => Repair!Converges
=============================================================================
