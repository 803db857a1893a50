----------------------------- MODULE MCDelivery -----------------------------
(***************************************************************************)
(* The four paths by which code is delivered, in one model: the tick of    *)
(* the second-generation factory (FactoryTick), the task runner with       *)
(* verifier and merge queue (TaskDelivery), the autopilot (Orchestrator)   *)
(* and the package controller of the first factory (FactoryPackage).  They *)
(* share no state; a behaviour is one of the path `active`, the others     *)
(* stand still at their initial state.                                     *)
(***************************************************************************)
EXTENDS FactoryTick, TaskDelivery, Orchestrator, FactoryPackage

CONSTANTS Paths,           \* the paths a run explores
          t1, t2, c1, c2   \* two tasks and two clusters

VARIABLE active

allVars == <<active, vars, deliveryVars, autopilotVars, packageVars>>

\* The task runner: two tasks, the second of which depends on the first; leases
\* are renewed and recovered, and commits amended.
ChainedTasks == [t \in {t1, t2} |-> IF t = t2 THEN {t1} ELSE {}]

\* Two independent tasks, leased once each and not amended: the merge of one
\* makes the other's verified commit stale.
Parallel == INSTANCE TaskDelivery WITH
    DependsOn <- [t \in {t1, t2} |-> {}], MaxVersion <- 1, MaxCluster <- 3, MaxRev <- 1

\* The autopilot: two clusters of one task each, one after the other, with and
\* without a specification gap and merging either way; or side by side.
TwoClusters == <<c1, c2>>
TwoTasks == <<t1, t2>>
ClusterOfTask == [t \in {t1, t2} |-> IF t = t1 THEN c1 ELSE c2]
Project(chained, gaps, method) ==
    [cdeps |-> [c \in {c1, c2} |-> IF c = c2 /\ chained THEN {c1} ELSE {}],
     tdeps |-> [t \in {t1, t2} |-> IF t = t2 /\ chained THEN {t1} ELSE {}],
     gaps |-> gaps, method |-> method]
SmallProjects == {Project(TRUE, g, m) : g \in {{}, {t1}}, m \in {"merge", "squash"}}
                 \cup {Project(FALSE, {}, "merge")}

\* The package controller: two heads, two reviews and a death, without
\* replanning and restored sessions; and every budget, with replanning, one
\* head, one review and no death.
Budgets == INSTANCE FactoryPackage WITH
    MaxLiveness <- 1, MaxRestores <- 1, MaxInfra <- 1, MaxEpochs <- 1,
    MaxTries <- 1, MaxPushes <- 1, MaxReviews <- 1, MaxRaises <- 0

MCInit ==
    /\ active \in Paths
    /\ Init /\ (active # "tick" => item.status = "PLANNED")
    /\ DeliveryInit
    /\ AutopilotInit /\ (active # "autopilot" => project = Project(FALSE, {}, "merge"))
    /\ PackageInit

MCNext ==
    \/ /\ active = "tick" /\ Next
       /\ UNCHANGED <<active, deliveryVars, autopilotVars, packageVars>>
    \/ /\ \/ active = "runner" /\ DeliveryNext
          \/ active = "parallel" /\ Parallel!DeliveryNext
       /\ UNCHANGED <<active, vars, autopilotVars, packageVars>>
    \/ /\ active = "autopilot" /\ AutopilotNext
       /\ UNCHANGED <<active, vars, deliveryVars, packageVars>>
    \/ /\ \/ active = "package" /\ PackageNext
          \/ active = "budgets" /\ Budgets!PackageNext
       /\ UNCHANGED <<active, vars, deliveryVars, autopilotVars>>

MCSpec == MCInit /\ [][MCNext]_allVars
-----------------------------------------------------------------------------
\* The type invariants of the four paths.
PathTypeOK == /\ TypeOK /\ AutopilotTypeOK
              /\ IF active = "parallel" THEN Parallel!DeliveryTypeOK ELSE DeliveryTypeOK
              /\ IF active = "budgets" THEN Budgets!PackageTypeOK ELSE PackageTypeOK
=============================================================================
