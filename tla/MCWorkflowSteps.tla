-------------------------- MODULE MCWorkflowSteps --------------------------
(* Symmetry of the workflow runs: workers are interchangeable. *)
EXTENDS WorkflowSteps, TLC

WorkerSymmetry == Permutations(Owners)
=============================================================================
