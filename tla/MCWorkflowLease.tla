-------------------------- MODULE MCWorkflowLease --------------------------
(* Constants of the lease run: two workers, each with an identity of its own. *)
EXTENDS WorkflowLease, TLC

CONSTANTS a, b, c1, c2

Distinct == {c1, c2}
DistinctOwner == (c1 :> a) @@ (c2 :> b)
=============================================================================
