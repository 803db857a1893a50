-------------------------- MODULE FactoryMilestone --------------------------
(***************************************************************************)
(* The end of a milestone under the factory controller: convergence on the *)
(* integration head, remediation of the gaps found, the bounded replan,    *)
(* the staged transition to the next milestone of the roadmap and the      *)
(* final audit (controller.py, _converge_if_needed and _advance_or_audit;  *)
(* reasoning.py, the calls they make).  Metadata, the plan, the            *)
(* remediation plan, the archive and the usage counters are separate files *)
(* written one after the other; the process may die between two writes.    *)
(***************************************************************************)
EXTENDS Naturals

CONSTANTS Milestones,    \* length of the committed roadmap
          MaxPasses, MaxCycles,                   \* config budgets
          MaxConverge, MaxPlanner, MaxReplan, MaxAudit,  \* calls per milestone
          MaxHead,       \* bound: commits of the integration branch
          MaxCrashes     \* bound: deaths of the controller

ASSUME MilestoneAssumption ==
    /\ Milestones \in Nat \ {0} /\ MaxHead \in Nat \ {0} /\ MaxCrashes \in Nat
    /\ \A n \in {MaxPasses, MaxCycles, MaxConverge, MaxPlanner, MaxReplan, MaxAudit} : n \in Nat

VARIABLES milestone,  \* id of active-milestone.json
          packages,   \* how often a package id occurs in that file
          remed,      \* remediation-plan.json
          meta,       \* the metadata of state.json
          usage,      \* usage.json: Codex calls of the active milestone
          archived,   \* milestones in the archive directory
          done,       \* every loaded package is COMPLETED
          head,       \* external: integration head
          seen,       \* HEAD of the controller's checkout, synced at each tick
          doing, calls, converged, crashes   \* calls, converged: history

milestoneVars == <<milestone, packages, remed, meta, usage, archived, done, head, seen, doing,
                   calls, converged, crashes>>

Roadmap == 1..Milestones
Gaps == {"gap", "second"}
Packages == {"planned", "new"} \cup Gaps
FirstPlan == [p \in Packages |-> IF p = "planned" THEN 1 ELSE 0]
FreshMeta(m) == [mid |-> m, passes |-> 0, replanned |-> FALSE, migrated |-> FALSE,
                 converged |-> FALSE, cms |-> 0, chead |-> 0, stage |-> "none",
                 blocked |-> FALSE, bhead |-> 0, cycles |-> 0, audited |-> FALSE]
NoUsage == [converge |-> 0, planner |-> 0, replan |-> 0, audit |-> 0]

MilestoneInit ==
    /\ milestone = 1 /\ packages = FirstPlan /\ remed = [ms |-> 0, ids |-> {}]
    /\ meta = FreshMeta(1) /\ usage = NoUsage /\ archived = {} /\ done = FALSE
    /\ head = 1 /\ seen = 0 /\ doing = "idle"
    /\ calls = [m \in Roadmap |-> 0] /\ converged = {} /\ crashes = 0

----------------------------------------------------------------------------
(* load_milestone appends the remediation packages of the active milestone *)
(* to its plan, and Milestone.from_dict refuses a repeated id.             *)
Occurrences(p) == packages[p] + (IF remed.ms = milestone /\ p \in remed.ids THEN 1 ELSE 0)
Loaded == {p \in Packages : Occurrences(p) > 0}
Loadable == \A p \in Packages : Occurrences(p) <= 1

(* reconcile starts the metadata of another milestone afresh; the gate of  *)
(* _converge_if_needed forgets what was decided about an earlier head.     *)
Reconcile ==
    /\ doing = "idle" /\ Loadable /\ meta.mid # milestone
    /\ meta' = FreshMeta(milestone)
    /\ UNCHANGED <<milestone, packages, remed, usage, archived, done, head, seen, doing, calls,
                   converged, crashes>>
LastHead(m) == IF m.chead # 0 THEN m.chead ELSE m.bhead
Cleared(m) ==
    IF LastHead(m) \in {0, head} THEN m
    ELSE [m EXCEPT !.converged = FALSE, !.cms = 0, !.chead = 0, !.stage = "none", !.blocked = FALSE,
                   !.passes = 0, !.replanned = FALSE, !.migrated = FALSE, !.bhead = 0]
HasEvidence(m) == /\ m.converged \/ m.stage # "none"
                  /\ m.cms = milestone /\ m.chead = head
Blocked(m, local) == [m EXCEPT !.blocked = TRUE, !.bhead = local]

\* Mutant: one call more than allowed.
CallsLeftLate(role, max) == usage[role] <= max

(* Usage is saved before the provider is called.                           *)
CallsLeft(role, max) == usage[role] < max
Counted(role) == [usage EXCEPT ![role] = @ + 1]

ControllerTick ==
    LET m == Cleared(meta)
        Goto(label) == doing' = label /\ meta' = m /\ UNCHANGED usage
    IN /\ doing = "idle" /\ done /\ Loadable /\ meta.mid = milestone
       /\ seen' = head
       /\ \/ /\ m.audited \/ m.blocked \/ m.stage = "TRANSITION_BLOCKED"
             /\ Goto("idle") /\ m # meta
          \/ /\ ~m.audited /\ ~m.blocked /\ m.stage # "TRANSITION_BLOCKED"
             /\ \/ HasEvidence(m) /\ Goto("advance")
                \/ ~HasEvidence(m) /\ m.passes >= MaxPasses /\ Goto("replan")
                \/ /\ ~HasEvidence(m) /\ m.passes < MaxPasses
                   /\ IF CallsLeft("converge", MaxConverge)
                      THEN doing' = "converge" /\ meta' = m /\ usage' = Counted("converge")
                      ELSE IF m.migrated
                           THEN doing' = "idle" /\ meta' = Blocked(m, head) /\ UNCHANGED usage
                           ELSE Goto("converge_fallback")
       /\ UNCHANGED <<milestone, packages, remed, archived, done, head, calls, converged, crashes>>

(* converge and converge_fallback.  A verdict on a head that moved, or one *)
(* that does not validate, is rejected; the fallback blocks the factory on *)
(* every error, and gaps are one: it hands them to validate_product_gaps   *)
(* with the arguments in the wrong order.                                  *)
ConvergenceAnswers ==
    LET m == [meta EXCEPT !.migrated = @ \/ doing = "converge_fallback"]
    IN /\ doing \in {"converge", "converge_fallback"}
       /\ \/ /\ seen = head       \* CONVERGED, saved before the advance
             /\ meta' = [m EXCEPT !.passes = @ + 1, !.converged = TRUE, !.cms = milestone,
                                  !.chead = seen, !.stage = "CONVERGED"]
             /\ converged' = converged \cup {<<milestone, seen>>}
             /\ doing' = "advance" /\ UNCHANGED <<remed, done>>
          \/ /\ doing = "converge" /\ seen = head
             /\ \E g \in Gaps \ Loaded :
                    remed' = [ms |-> milestone,
                              ids |-> {g} \cup (IF remed.ms = milestone THEN remed.ids ELSE {})]
             /\ done' = FALSE /\ doing' = "gaps" /\ UNCHANGED <<meta, converged>>
          \/ /\ meta' = IF doing = "converge" THEN meta ELSE Blocked(m, seen)
             /\ doing' = "idle" /\ UNCHANGED <<remed, done, converged>>
       /\ UNCHANGED <<milestone, packages, usage, archived, head, seen, calls, crashes>>

SaveGaps ==
    /\ doing = "gaps" /\ doing' = "idle"
    /\ meta' = [meta EXCEPT !.passes = @ + 1, !.converged = FALSE]
    /\ UNCHANGED <<milestone, packages, remed, usage, archived, done, head, seen, calls, converged, crashes>>

\* Mutant: the proposed plan replaces the one under way.
PlanReplaced(proposed, twin, twinFirst) ==
    [p \in Packages |-> IF p \in proposed THEN 1 ELSE 0]

(* install_plan_delta: a proposed package keeps its id if it is known, or  *)
(* takes that of the known package with the same fingerprint; every known  *)
(* package has an issue, so it is durable and is kept in any case.  A      *)
(* package that is adopted first and proposed by id later comes twice.     *)
PlanDelta(proposed, twin, twinFirst) ==
    [p \in Packages |->
        IF p \in Loaded /\ p = twin /\ "new" \in proposed
        THEN IF p \in proposed /\ twinFirst THEN 2 ELSE 1
        ELSE IF p \in Loaded THEN 1
        ELSE IF p \in proposed /\ twin = "none" THEN 1 ELSE 0]

ReplanConvergence ==
    LET m == [meta EXCEPT !.replanned = TRUE]
    IN /\ doing = "replan"
       /\ \/ /\ meta.replanned \/ ~CallsLeft("replan", MaxReplan)
             /\ meta' = Blocked(m, seen) /\ doing' = "idle" /\ UNCHANGED <<packages, done, usage>>
          \/ /\ ~meta.replanned /\ CallsLeft("replan", MaxReplan) /\ usage' = Counted("replan")
             /\ \/ meta' = Blocked(m, seen) /\ doing' = "idle" /\ UNCHANGED <<packages, done>>
                \/ \E proposed \in SUBSET Packages, twin \in (Loaded \ {"new"}) \cup {"none"}, f \in BOOLEAN :
                       /\ proposed # {} /\ ("new" \in Loaded => twin = "none")
                       /\ proposed \cap Gaps \subseteq Loaded
                       /\ packages' = PlanDelta(proposed, twin, f)
                       /\ done' = \A p \in Packages : packages'[p] > 0 => p \in Loaded
                       /\ doing' = "replanned" /\ UNCHANGED meta
       /\ UNCHANGED <<milestone, remed, archived, head, seen, calls, converged, crashes>>

SaveReplanned ==
    /\ doing = "replanned" /\ doing' = "idle"
    /\ meta' = [meta EXCEPT !.replanned = TRUE, !.passes = 0, !.converged = FALSE]
    /\ UNCHANGED <<milestone, packages, remed, usage, archived, done, head, seen, calls, converged, crashes>>

----------------------------------------------------------------------------
(* _advance_or_audit, with a next milestone: each stage is saved before    *)
(* the call it announces.  A claim found after a restart counts as failed  *)
(* for the primary planner and is taken up again for the fallback.         *)
Stage(s, label) == meta' = [meta EXCEPT !.stage = s] /\ doing' = label

\* Mutant: a claimed stage is not taken up again.
ClaimFromConverged ==
    /\ doing = "advance" /\ milestone < Milestones
    /\ meta.stage = "CONVERGED" /\ Stage("PLANNER_PRIMARY_CLAIMED", "primary")
    /\ UNCHANGED <<milestone, packages, remed, usage, archived, done, head, seen, calls, converged, crashes>>

ClaimPlanner ==
    /\ doing = "advance" /\ milestone < Milestones
    /\ \/ meta.stage = "CONVERGED" /\ CallsLeft("planner", MaxPlanner) /\ Stage("PLANNER_PRIMARY_CLAIMED", "primary")
       \/ meta.stage = "CONVERGED" /\ ~CallsLeft("planner", MaxPlanner) /\ Stage("PLANNER_PRIMARY_FAILED", "advance")
       \/ meta.stage = "PLANNER_PRIMARY_CLAIMED" /\ Stage("PLANNER_PRIMARY_FAILED", "advance")
       \/ meta.stage \in {"PLANNER_PRIMARY_FAILED", "PLANNER_FALLBACK_CLAIMED"}
             /\ Stage("PLANNER_FALLBACK_CLAIMED", "fallback")
       \/ meta.stage = "NEXT_MILESTONE_VALIDATED" /\ Stage(meta.stage, "install")
    /\ UNCHANGED <<milestone, packages, remed, usage, archived, done, head, seen, calls, converged, crashes>>

CallPrimary ==
    /\ doing = "primary" /\ doing' = "primary_answers"
    /\ usage' = Counted("planner")
    /\ calls' = [calls EXCEPT ![milestone] = @ + 1]
    /\ UNCHANGED <<milestone, packages, remed, meta, archived, done, head, seen, converged, crashes>>

PlannerAnswers ==
    /\ \/ doing \in {"primary_answers", "fallback"} /\ Stage("NEXT_MILESTONE_VALIDATED", "install")
       \/ doing = "primary_answers" /\ Stage("PLANNER_PRIMARY_FAILED", "advance")
       \/ doing = "fallback" /\ meta' = [Blocked(meta, seen) EXCEPT !.stage = "TRANSITION_BLOCKED"] /\ doing' = "idle"
    /\ UNCHANGED <<milestone, packages, remed, usage, archived, done, head, seen, calls, converged, crashes>>

Archive ==
    /\ doing = "install" /\ doing' = "archived"
    /\ archived' = archived \cup {milestone}
    /\ UNCHANGED <<milestone, packages, remed, meta, usage, done, head, seen, calls, converged, crashes>>

WriteActive ==
    /\ doing = "archived" /\ doing' = "written"
    /\ milestone' = milestone + 1 /\ packages' = FirstPlan /\ done' = FALSE /\ usage' = NoUsage
    /\ UNCHANGED <<remed, meta, archived, head, seen, calls, converged, crashes>>

(* The replan and migration flags of the old milestone are not reset.      *)
SaveInstalled ==
    /\ doing = "written" /\ doing' = "idle"
    /\ meta' = [meta EXCEPT !.mid = milestone, !.stage = "NEXT_MILESTONE_INSTALLED", !.converged = FALSE,
                            !.passes = 0, !.cms = 0, !.chead = 0]
    /\ UNCHANGED <<milestone, packages, remed, usage, archived, done, head, seen, calls, converged, crashes>>

(* The last milestone: the final audit, its gaps again remediated.         *)
FinalAudit ==
    /\ doing = "advance" /\ milestone = Milestones
    /\ IF meta.cycles >= MaxCycles
       THEN meta' = Blocked(meta, seen) /\ doing' = "idle" /\ UNCHANGED usage
       ELSE /\ CallsLeft("audit", MaxAudit) /\ usage' = Counted("audit")
            /\ doing' = "audit" /\ UNCHANGED meta
    /\ UNCHANGED <<milestone, packages, remed, archived, done, head, seen, calls, converged, crashes>>

AuditAnswers ==
    /\ doing = "audit"
    /\ \/ /\ seen = head /\ meta' = [meta EXCEPT !.cycles = @ + 1, !.audited = TRUE]
          /\ doing' = "idle" /\ UNCHANGED <<remed, done>>
       \/ /\ seen = head /\ done' = FALSE
          /\ \E g \in Gaps \ Loaded : remed' = [ms |-> milestone, ids |-> {g}]
          /\ doing' = "audit_gaps" /\ UNCHANGED meta
       \/ doing' = "idle" /\ UNCHANGED <<meta, remed, done>>      \* rejected: the tick raises
    /\ UNCHANGED <<milestone, packages, usage, archived, head, seen, calls, converged, crashes>>

SaveAudit ==
    /\ doing = "audit_gaps" /\ doing' = "idle"
    /\ meta' = [meta EXCEPT !.cycles = @ + 1, !.converged = FALSE]
    /\ UNCHANGED <<milestone, packages, remed, usage, archived, done, head, seen, calls, converged, crashes>>

----------------------------------------------------------------------------
ControllerDies ==
    /\ doing # "idle" /\ crashes < MaxCrashes /\ crashes' = crashes + 1 /\ doing' = "idle"
    /\ UNCHANGED <<milestone, packages, remed, meta, usage, archived, done, head, seen, calls, converged>>

(* The packages of the plan are delivered; the head moves, then or at any  *)
(* other time.                                                             *)
Deliver ==
    /\ doing = "idle" /\ ~done /\ done' = TRUE /\ head < MaxHead /\ head' = head + 1
    /\ UNCHANGED <<milestone, packages, remed, meta, usage, archived, seen, doing, calls, converged, crashes>>
HeadMoves ==
    /\ head < MaxHead /\ head' = head + 1
    /\ UNCHANGED <<milestone, packages, remed, meta, usage, archived, done, seen, doing, calls,
                   converged, crashes>>

Controller == \/ Reconcile \/ ControllerTick \/ ConvergenceAnswers \/ SaveGaps
              \/ ReplanConvergence \/ SaveReplanned
              \/ ClaimPlanner \/ CallPrimary \/ PlannerAnswers \/ Archive \/ WriteActive
              \/ SaveInstalled \/ FinalAudit \/ AuditAnswers \/ SaveAudit
MilestoneNext == Controller \/ ControllerDies \/ Deliver \/ HeadMoves
MilestoneSpec == MilestoneInit /\ [][MilestoneNext]_milestoneVars /\ WF_milestoneVars(Controller)

----------------------------------------------------------------------------
MilestoneTypeOK ==
    /\ milestone \in Roadmap /\ packages \in [Packages -> 0..2] /\ archived \subseteq Roadmap
    /\ meta.mid \in Roadmap /\ meta.passes \in 0..MaxPasses + 1 /\ meta.cycles \in 0..MaxCycles
    /\ usage.converge <= MaxConverge /\ usage.replan <= MaxReplan /\ usage.audit <= MaxAudit
    /\ head \in 1..MaxHead /\ crashes \in 0..MaxCrashes

(* A milestone the factory has left is archived and was found converged,   *)
(* however often the controller died on the way (stages of                 *)
(* _advance_or_audit, archive before active-milestone.json).               *)
LeftMilestoneIsSettled ==
    \A m \in Roadmap : m < milestone => m \in archived /\ \E h \in 1..MaxHead : <<m, h>> \in converged

(* The primary planner is called at most its budget per milestone, deaths  *)
(* and repeated convergence included: the usage file counts a call before  *)
(* it is made (_do_invoke_codex).                                          *)
PlannerCallsAreBounded == \A m \in Roadmap : calls[m] <= MaxPlanner

(* A replan keeps the identity of every package the milestone already had  *)
(* (install_plan_delta).                                                   *)
KeepsDurableWork == milestone' = milestone => \A p \in Packages : packages[p] > 0 => packages'[p] > 0

(* A transition that was claimed is installed or given up, or the head it  *)
(* was decided on has moved: no death leaves a claim behind for ever.      *)
TransitionClaimed ==
    meta.stage \in {"PLANNER_PRIMARY_CLAIMED", "PLANNER_FALLBACK_CLAIMED", "NEXT_MILESTONE_VALIDATED"}
TransitionSettled == meta.stage \in {"none", "NEXT_MILESTONE_INSTALLED", "TRANSITION_BLOCKED"}

(* The plan on disk can be loaded: "work-package IDs must be unique".  A   *)
(* claim that does not hold: a replan that adopts a known package under a  *)
(* new id and also names it writes it twice.                               *)
PlanIsLoadable == Loadable
=============================================================================
