----------------------------- MODULE MCPlatform -----------------------------
(***************************************************************************)
(* Five parts that share no state, in one model: backup and recovery       *)
(* (RecoveryContinuity), the tools' cache and single flight (ToolCore),    *)
(* one run of the agent runtime (AgentRun), the milestones of the factory  *)
(* (FactoryMilestone) and the product factory that repairs itself          *)
(* (ProductFactory).  A behaviour is one of the part `active`, the others  *)
(* stand still.                                                            *)
(***************************************************************************)
EXTENDS RecoveryContinuity, ToolCore, AgentRun, FactoryMilestone, ProductFactory

CONSTANT Parts            \* the parts a run explores

VARIABLE active

allVars == <<active, vars, toolVars, agentVars, milestoneVars, productVars>>

\* Five runs of the agent, from one without tools, or without a stage for the
\* tool it has, to a deep research.
FiveRequests == {[goal |-> "SKEPTIC", tools |-> {}],
                 [goal |-> "TRIAGE", tools |-> {"signal.score"}],
                 [goal |-> "SKEPTIC", tools |-> {"signal.score"}],
                 [goal |-> "SKEPTIC", tools |-> {"liquidity.lock", "simulation.sell"}],
                 [goal |-> "DEEP_RESEARCH",
                  tools |-> {"dex.pairs", "holder.distribution", "pool.liquidity"}]}
ThreeTools == <<"risk.honeypot_scan", "liquidity.lock", "contract.audit">>

\* The product factory that may try a recovery twice, with checks that turn red.
Retries == INSTANCE ProductFactory WITH
    FaultSets <- {{"red", "DRIFT"}}, MaxAttempts <- 2, MaxGlobal <- 2, MaxGen <- 0

\* Where a part that is not active stands.
AgentIdle == /\ toolset = {} /\ stages = <<>> /\ budget = [r \in Resources |-> 0] /\ plan = <<>>
             /\ used = [r \in Resources |-> 0] /\ step = 1 /\ call = 0 /\ made = 0 /\ got = {}
             /\ decision = [type |-> "none", missing |-> 0]
             /\ expired = FALSE /\ aborted = FALSE /\ saved = FALSE
             /\ sk = [on |-> FALSE, left |-> <<>>, budget |-> 0, found |-> {}, clean |-> {},
                      verdict |-> "none"]
             /\ pc = "preflight" /\ outcome = <<"none", "none">>
ProductIdle == ProductInit /\ faults = {"gaps"}

MCInit ==
    /\ active \in Parts
    /\ Init /\ ToolInit /\ MilestoneInit
    /\ IF active = "agent" THEN AgentInit ELSE AgentIdle
    /\ CASE active = "product" -> ProductInit
         [] active = "retries" -> Retries!ProductInit
         [] OTHER -> ProductIdle

AgentStep(A) == /\ active = "agent" /\ A
                /\ UNCHANGED <<active, vars, toolVars, milestoneVars, productVars>>
FactoryStep(A) == /\ active = "factory" /\ A
                  /\ UNCHANGED <<active, vars, toolVars, agentVars, productVars>>
ProductStep(A, B) == /\ \/ active = "product" /\ A
                        \/ active = "retries" /\ B
                     /\ UNCHANGED <<active, vars, toolVars, agentVars, milestoneVars>>
ToolStep(A) == /\ active = "tool" /\ A
               /\ UNCHANGED <<active, vars, agentVars, milestoneVars,
                              productVars>>
MCNext ==
    \/ /\ active = "recovery" /\ Next
       /\ UNCHANGED <<active, toolVars, agentVars, milestoneVars, productVars>>
    \/ ToolStep(ToolNext)
    \/ AgentStep(AgentNext)
    \/ FactoryStep(MilestoneNext)
    \/ ProductStep(ProductNext, Retries!ProductNext)

\* A call of a tool, a run of the agent or of the product factory goes on until
\* it ends, and the controller is called again and again: their own steps are
\* taken eventually.
MCSpec == /\ MCInit /\ [][MCNext]_allVars
          /\ WF_allVars(ToolStep(\E c \in Calls : Resume(c)))
          /\ WF_allVars(AgentStep(Runtime))
          /\ WF_allVars(FactoryStep(Controller))
          /\ WF_allVars(ProductStep(Factory, Retries!Factory))
-----------------------------------------------------------------------------
\* The type invariants of the five parts.
PartTypeOK ==
    /\ TypeOK /\ ToolTypeOK /\ AgentTypeOK /\ MilestoneTypeOK
    /\ IF active = "retries" THEN Retries!ProductTypeOK ELSE ProductTypeOK

\* Nothing is spent beyond a budget: the tools of an agent run, whenever it
\* stops, and its tracker never stops a run under way for what its plan counted
\* (AgentBudgetTracker, DeterministicPlanner; a tool may raise such an error); the
\* quota of a tool, which one call at a time spends for a key, and a failed one
\* does not keep from the next (ToolCore.execute); the planner calls of a
\* milestone, deaths included (_do_invoke_codex); the recoveries of one failure
\* at one commit, deaths included (recordSupervisorAttempt).
BudgetsAreKept ==
    /\ PlanFitsBudget /\ CallsWithinBudget /\ OneFlight /\ PlannerCallsAreBounded
    /\ IF active = "retries" THEN Retries!RecoveriesAreCounted ELSE RecoveriesAreCounted

\* A replan keeps the identity of every package the milestone already had, and
\* a milestone that was left is archived and was found converged
\* (install_plan_delta, _advance_or_audit).  What the product factory merged
\* passed the checks, and maintenance the review, as it was pushed, after any
\* patch, review and CI repairs (repairCi).
FactoryWorkIsSound ==
    [][KeepsDurableWork /\ LeftMilestoneIsSettled' /\ MergedWasProved']_allVars

\* What is under way in the active part, and what it comes to.
Pending == CASE active = "tool" -> ~Answered
             [] active = "agent" -> pc # "done"
             [] active = "factory" -> TransitionClaimed
             [] active \in {"product", "retries"} -> ~Ended
             [] OTHER -> FALSE
Settled == CASE active = "tool" -> Answered
             [] active = "agent" -> pc = "done" \/ Hangs
             [] active = "factory" -> TransitionSettled
             [] active \in {"product", "retries"} -> Ended
             [] OTHER -> TRUE

\* Every call of a tool that was begun is answered, whichever call it joined;
\* every run of the agent ends, with a result or an error, or stands in the await
\* of a tool that never answers, which the abort ends in the loop, not in the
\* skeptic, and the deadline ends in neither (execute); a milestone
\* transition that was claimed is installed, given up or overtaken by a new
\* head: no death leaves a claim behind for ever; and every run of the product
\* factory ends, no failure is recovered from, escalated or maintained for ever.
RunsAndTransitionsSettle == Pending ~> Settled
=============================================================================
