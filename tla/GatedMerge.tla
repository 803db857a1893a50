----------------------------- MODULE GatedMerge -----------------------------
(***************************************************************************)
(* What every delivery path of the repository promises: code gets into the *)
(* integration branch only after it was verified, and neither a            *)
(* verification nor a merge is ever taken back.  The merge queue, the      *)
(* autopilot and both generations of the factory controller are shown to   *)
(* implement it (MCDelivery); what they call a unit of code and what they  *)
(* call verified differs, and is their refinement mapping.                 *)
(***************************************************************************)
VARIABLES verified,   \* the units that passed verification
          merged      \* the units that are in the integration branch

gateVars == <<verified, merged>>

GateInit == verified = {} /\ merged = {}

Verify == /\ verified \subseteq verified'
          /\ UNCHANGED merged

\* A unit must have been verified before the step that merges it.
Merge == /\ merged \subseteq merged'
         /\ merged' \subseteq merged \cup verified
         /\ UNCHANGED verified

GateNext == Verify \/ Merge

GateSpec == GateInit /\ [][GateNext]_gateVars
=============================================================================
