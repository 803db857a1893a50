------------------------------- MODULE AgentRun -------------------------------
(***************************************************************************)
(* One run of the bounded agent (agent-runtime): the deterministic plan    *)
(* cut to the budget (deterministic-planner.ts), the tool loop under the   *)
(* budget tracker (bounded-runtime.ts, budget-tracker.ts), the conditional *)
(* skeptic with a budget of its own (conditional-skeptic.ts) and the       *)
(* write-through of its artifact (runtime-store.ts).  The abort signal and *)
(* the deadline may come at any await, and a tool may never answer.  Every *)
(* planned call costs CallCost of the model budget, one provider unit, one *)
(* provider call and one call's worth of tokens (TOKENS stands for those   *)
(* sent and those received).  The answer of a tool is kept by its kind:    *)
(* useful (pairs or an audit), other or failed.                            *)
(***************************************************************************)
EXTENDS Integers, Sequences, FiniteSets, FiniteSetsExt

CONSTANTS Requests,       \* goals, each with the tools profile and envelope allow
          Limits,         \* values of a budget entry
          MaxTight,       \* bound: entries below the largest value
          CallCost,
          SkepticTools,   \* tools of the skeptic the envelope allows, in order
          Handlers        \* the tools among them that have a handler

\* A limit is a whole number, no call is for free, and tools are counted.
ASSUME AgentAssumption ==
    /\ \A r \in Requests : IsFiniteSet(r.tools)
    /\ Limits \subseteq Nat /\ CallCost \in Nat \ {0}
    /\ SkepticTools \in Seq({SkepticTools[i] : i \in DOMAIN SkepticTools})

VARIABLES toolset,        \* inputs of the run: the tools it may use,
          stages, budget, \* the same by stage, and the limits
          plan,           \* planned calls of each step
          used,           \* the tracker
          step, call,     \* position in the plan
          made,           \* history: handlers called
          got,            \* kinds of answers the tools gave
          decision,       \* of the researcher, with the data it misses
          expired, aborted,
          sk,             \* the skeptic: on, tools left, budget left, what it found
          saved,          \* the artifact reached the repository
          pc, outcome

agentVars == <<toolset, stages, budget, plan, used, step, call, made, got, decision, expired, aborted, sk, saved, pc, outcome>>

Resources == {"STEPS", "TOOL_CALLS", "TOOL_CALLS_PER_CANDIDATE", "PROVIDER_CALLS", "TOKENS", "MODEL_COST_USD",
              "PROVIDER_COST_UNITS"}
Cost(r) == IF r = "MODEL_COST_USD" THEN CallCost ELSE 1
Fits(r) == used[r] + Cost(r) <= budget[r]

(* buildStageSequence: the tools of a goal, stage by stage, that are       *)
(* available; other goals take what is left in a second stage.             *)
Primary == {"dex.pairs", "token.profile", "market.summary", "schedule.inspect", "candidate.inspect"}
BuildStageSequence(goal, available) ==
    LET Offered(tools) == IF tools \cap available = {} THEN <<>> ELSE <<tools \cap available>>
    IN CASE goal = "SKEPTIC" ->
              Offered({"risk.honeypot_scan", "contract.audit"})
              \o Offered({"liquidity.lock", "simulation.sell"}) \o Offered({"holder.distribution"})
         [] goal = "DEEP_RESEARCH" ->
              Offered({"token.profile", "dex.pairs", "dex.screener"})
              \o Offered({"holder.distribution", "pool.liquidity"})
              \o Offered({"contract.audit", "solana.transaction_trace"})
              \o Offered({"simulation.execution", "signal.score"})
         [] OTHER -> Offered(Primary) \o Offered(available \ Primary)

AgentInit ==
    /\ \E r \in Requests, on \in BOOLEAN :
          /\ toolset = r.tools /\ stages = BuildStageSequence(r.goal, r.tools)
          /\ sk = [on |-> on /\ r.goal # "SKEPTIC", left |-> <<>>, budget |-> 0,
                   found |-> {}, clean |-> {}, verdict |-> "none"]
    /\ budget \in [Resources -> Limits]
    /\ Cardinality({r \in Resources : budget[r] < Max(Limits)}) <= MaxTight
    /\ plan = <<>> /\ used = [r \in Resources |-> 0] /\ step = 1 /\ call = 0 /\ made = 0
    /\ got = {} /\ decision = [type |-> "none", missing |-> 0] /\ expired = FALSE /\ aborted = FALSE /\ saved = FALSE
    /\ pc = "preflight" /\ outcome = <<"none", "none">>

Raise(o) == pc' = "done" /\ outcome' = <<o, "none">>
Exceeded(r) == pc' = "done" /\ outcome' = <<"BUDGET_EXCEEDED", r>>
\* The first check of a row of checks that the budget does not pass.
FirstBeyond(checks, r) == \E i \in DOMAIN checks :
    r = checks[i] /\ ~Fits(r) /\ \A j \in 1..(i - 1) : Fits(checks[j])

----------------------------------------------------------------------------
(* DeterministicPlanner.plan: a stage takes as many of its tools as calls, *)
(* cost and units leave; an empty plan has one step without calls.         *)
Room(n) == Min({budget["TOOL_CALLS"] - n, budget["MODEL_COST_USD"] \div CallCost - n,
                budget["PROVIDER_COST_UNITS"] - n})
PlannedSteps == Min({budget["STEPS"], Len(stages)})
Taken[i \in 0..PlannedSteps] ==    \* calls of the first i steps
    IF i = 0 THEN 0 ELSE Taken[i-1] + Min({Cardinality(stages[i]), Room(Taken[i-1])})
CallsOf(i) == Taken[i] - Taken[i-1]
Planned ==
    LET kept == {i \in 1..PlannedSteps : i = 1 \/ CallsOf(i) > 0}
    IN IF kept = {} THEN <<0>> ELSE [i \in 1..Max(kept) |-> CallsOf(i)]

(* execute, before the loop: the deadline, the abort signal, and, if there *)
(* is a tool to use, the budgets that could not pay for one call.  Nothing *)
(* is used yet.  The planner refuses arguments outside the envelope.       *)
Gates == <<"TOOL_CALLS", "PROVIDER_CALLS", "PROVIDER_COST_UNITS", "TOKENS", "MODEL_COST_USD">>
Preflight ==
    /\ pc = "preflight"
    /\ \/ expired /\ Exceeded("DEADLINE") /\ UNCHANGED plan
       \/ ~expired /\ ~Fits("STEPS") /\ Exceeded("STEPS") /\ UNCHANGED plan
       \/ ~expired /\ Fits("STEPS") /\ aborted /\ Raise("CANCELLED") /\ UNCHANGED plan
       \/ /\ ~expired /\ Fits("STEPS") /\ ~aborted
          /\ \/ /\ toolset # {} /\ \E r \in Resources : FirstBeyond(Gates, r) /\ Exceeded(r)
                /\ UNCHANGED plan
             \/ /\ toolset # {} => \A i \in DOMAIN Gates : Fits(Gates[i])
                /\ \/ plan' = Planned /\ pc' = "step" /\ UNCHANGED outcome
                   \/ Planned[1] > 0 /\ Raise("CONFINEMENT_VIOLATION") /\ UNCHANGED plan
    /\ UNCHANGED <<toolset, stages, budget, used, step, call, made, got, decision, expired, aborted, sk, saved>>

RecordStep ==
    /\ pc = "step"
    /\ \/ aborted /\ Raise("CANCELLED") /\ UNCHANGED <<used, call>>
       \/ ~aborted /\ expired /\ Exceeded("DEADLINE") /\ UNCHANGED <<used, call>>
       \/ ~aborted /\ ~expired /\ ~Fits("STEPS") /\ Exceeded("STEPS") /\ UNCHANGED <<used, call>>
       \/ /\ ~aborted /\ ~expired /\ Fits("STEPS")
          /\ used' = [used EXCEPT !["STEPS"] = @ + 1] /\ call' = plan[step]
          /\ pc' = "call" /\ UNCHANGED outcome
    /\ UNCHANGED <<toolset, stages, budget, plan, step, made, got, decision, expired, aborted, sk, saved>>

(* A call is checked against tokens and cost, then charged for units,      *)
(* calls and provider calls before the tool is looked up and invoked; its  *)
(* tokens and cost are charged after the answer.                           *)
Checks == <<"TOKENS", "MODEL_COST_USD", "PROVIDER_COST_UNITS", "TOOL_CALLS", "TOOL_CALLS_PER_CANDIDATE",
            "PROVIDER_CALLS">>
Charged == {"TOOL_CALLS", "TOOL_CALLS_PER_CANDIDATE", "PROVIDER_CALLS", "PROVIDER_COST_UNITS"}
\* Mutant: calls per candidate and provider calls are not counted.
ChargeUnits == [used EXCEPT !["PROVIDER_COST_UNITS"] = @ + 1, !["TOOL_CALLS"] = @ + 1]
Charge == [r \in Resources |-> IF r \in Charged THEN used[r] + Cost(r) ELSE used[r]]
\* The tool that is called answers some day ("await") or never ("hung").
InvokeTool ==
    /\ pc = "call" /\ call > 0
    /\ \/ aborted /\ Raise("CANCELLED") /\ UNCHANGED <<used, call, made>>
       \/ ~aborted /\ expired /\ Exceeded("DEADLINE") /\ UNCHANGED <<used, call, made>>
       \/ /\ ~aborted /\ ~expired /\ \E r \in Resources : FirstBeyond(Checks, r) /\ Exceeded(r)
          /\ UNCHANGED <<used, call, made>>
       \/ /\ ~aborted /\ ~expired /\ \A i \in DOMAIN Checks : Fits(Checks[i])
          /\ used' = Charge
          /\ \/ Raise("MISSING_TOOL_HANDLER") /\ UNCHANGED <<call, made>>
             \/ pc' \in {"await", "hung"} /\ call' = call - 1 /\ made' = made + 1 /\ UNCHANGED outcome
    /\ UNCHANGED <<toolset, stages, budget, plan, step, got, decision, expired, aborted, sk, saved>>

\* The await races the tool against the abort signal, and only against that.
AbortEndsAwait ==
    /\ pc \in {"await", "hung"} /\ aborted /\ Raise("CANCELLED")
    /\ UNCHANGED <<toolset, stages, budget, plan, used, step, call, made, got, decision, expired, aborted, sk, saved>>

(* The tool answers or raises: its own budget or confinement error is      *)
(* rethrown, aborted or not, its cancellation ends the run, and any other  *)
(* error is an answer.  The deadline is looked at afterwards.              *)
ToolAnswers ==
    /\ pc = "await"
    /\ \/ /\ \E e \in {"BUDGET_EXCEEDED", "CONFINEMENT_VIOLATION", "CANCELLED"} : outcome' = <<"TOOL_RAISED", e>>
          /\ pc' = "done" /\ UNCHANGED <<used, got>>
       \/ expired /\ Exceeded("DEADLINE") /\ UNCHANGED <<used, got>>
       \/ /\ ~expired
          /\ used' = [used EXCEPT !["TOKENS"] = @ + 1, !["MODEL_COST_USD"] = @ + CallCost]
          /\ \E answer \in {"useful", "other", "failed"} :
                got' = got \cup {answer} /\ (answer = "failed" => ~aborted)
          /\ pc' = "call" /\ UNCHANGED outcome
    /\ UNCHANGED <<toolset, stages, budget, plan, step, call, made, decision, expired, aborted, sk, saved>>

NextStep ==
    /\ pc = "call" /\ call = 0
    /\ IF step < Len(plan) THEN pc' = "step" /\ step' = step + 1 ELSE pc' = "decide" /\ UNCHANGED step
    /\ UNCHANGED <<toolset, stages, budget, plan, used, call, made, got, decision, expired, aborted, sk, saved, outcome>>

(* synthesizeDecision: pairs or an audit are needed, and a failed tool     *)
(* lowers ALERT to WATCH.                                                  *)
Proposed == IF "useful" \notin got THEN "INSUFFICIENT_DATA" ELSE IF "failed" \in got THEN "WATCH" ELSE "ALERT"

(* StructuredDecisionEngine.decide: the gates that fail, after the evidence *)
(* validator's verdict; each of them is recorded as missing data.  Evidence *)
(* of this run is fresh, critical risk and tradability are not checked.     *)
Facts == got \cap {"useful", "other"}
AbstentionReasons(valid) ==
    (IF Facts = {} THEN {"OBSERVED_FACTS", "EVIDENCE_COUNT", "INDEPENDENCE"} ELSE {})
    \cup (IF valid THEN {} ELSE {"VALIDATOR_FAILED"})
Decide(valid) ==
    [type |-> IF AbstentionReasons(valid) # {} THEN "INSUFFICIENT_DATA" ELSE Proposed,
     missing |-> Cardinality(AbstentionReasons(valid))
                 + (IF Proposed = "INSUFFICIENT_DATA" THEN 1 ELSE 0)]
SynthesizeDecision ==
    /\ pc = "decide" /\ \E valid \in BOOLEAN : decision' = Decide(valid)
    /\ pc' = "skeptic"
    /\ UNCHANGED <<toolset, stages, budget, plan, used, step, call, made, got, expired, aborted, sk, saved, outcome>>

----------------------------------------------------------------------------
(* SkepticTriggerPolicy.evaluate, of the decision above and of what the    *)
(* caller's context says.                                                  *)
Contexts == {"near alert", "conflicts", "coverage", "extended", "fragile", "one provider"}
TriggerReasons(context) ==
    LET alert == decision.type = "ALERT"
        If(condition, reason) == IF condition THEN {reason} ELSE {}
    IN UNION {If("near alert" \in context \/ alert, "CANDIDATE_NEAR_ALERT"),
              If("conflicts" \in context, "PROVIDER_CONFLICT_EXCEEDS_THRESHOLD"),
              If(alert /\ "failed" \in got, "OPPORTUNITY_RISK_VECTOR_DISAGREEMENT"),
              If("coverage" \in context \/ decision.missing >= 2, "DATA_COVERAGE_MARGINAL"),
              If("extended" \in context, "CANDIDATE_UNUSUALLY_EXTENDED"),
              If(Facts = {} /\ decision.type # "INSUFFICIENT_DATA", "RESEARCHER_CLAIMS_WEAKLY_SUPPORTED"),
              If("fragile" \in context, "THRESHOLD_SENSITIVITY_FRAGILITY"),
              If("one provider" \in context, "DOMINANT_SINGLE_PROVIDER_DEPENDENCE")}

\* The artifact of a skeptic that raised: the parent run goes on without it.
FailedClosed(s) == [s EXCEPT !.verdict = "SKIPPED_POLICY"]

(* The skeptic: off, not triggered, skipped (no tool authorised), failed,  *)
(* or a loop over its tools until one is beyond its budget.                *)
StartSkeptic ==
    /\ pc = "skeptic"
    /\ \/ ~sk.on /\ pc' = "save" /\ UNCHANGED <<sk, outcome>>
       \/ sk.on /\ aborted /\ Raise("CANCELLED") /\ UNCHANGED sk
       \/ sk.on /\ ~aborted /\ sk' = FailedClosed(sk) /\ pc' = "save" /\ UNCHANGED outcome
       \/ /\ sk.on /\ UNCHANGED outcome
          /\ \E context \in SUBSET Contexts :
                LET reasons == TriggerReasons(context)
                IN \/ /\ reasons = {}
                      /\ sk' = [sk EXCEPT !.verdict = "NOT_TRIGGERED"] /\ pc' = "save"
                   \/ /\ reasons # {} /\ ~aborted /\ SkepticTools = <<>>
                      /\ sk' = [sk EXCEPT !.verdict = "SKIPPED_POLICY"] /\ pc' = "save"
                   \/ /\ reasons # {} /\ ~aborted /\ SkepticTools # <<>> /\ pc' = "challenge"
                      /\ \E b \in 0..Len(SkepticTools) :
                            sk' = [sk EXCEPT !.left = SkepticTools, !.budget = b,
                                     !.found = reasons \cap {"PROVIDER_CONFLICT_EXCEEDS_THRESHOLD"}]
    /\ UNCHANGED <<toolset, stages, budget, plan, used, step, call, made, got, decision, expired, aborted, saved>>

(* evaluateToolOutputForChallenges: what each tool can find; a fatal       *)
(* finding vetoes.  A tool that fails is a finding too.                    *)
Findings(tool) ==
    {{}, {"hazard"}} \cup (CASE tool = "risk.honeypot_scan" -> {{"fatal"}, {"fatal", "hazard"}}
                             [] tool = "simulation.sell" -> {{"fatal"}}
                             [] OTHER -> {})

\* A call is charged; arguments outside the envelope are a finding, a tool
\* without a handler is passed over, another is called.
Challenge ==
    /\ pc = "challenge" /\ sk.left # <<>>
    /\ \/ aborted /\ Raise("CANCELLED") /\ UNCHANGED sk
       \/ ~aborted /\ sk.budget = 0 /\ pc' = "verdict" /\ UNCHANGED <<outcome, sk>>
       \/ /\ ~aborted /\ sk.budget > 0 /\ UNCHANGED outcome
          /\ \/ /\ \E found \in {{"hazard"}} \cup (IF Head(sk.left) \in Handlers THEN {} ELSE {{}}) :
                      sk' = [sk EXCEPT !.left = Tail(@), !.budget = @ - 1, !.found = @ \cup found]
                /\ UNCHANGED pc
             \/ /\ Head(sk.left) \in Handlers /\ pc' \in {"asked", "unheard"}
                /\ sk' = [sk EXCEPT !.budget = @ - 1]
    /\ UNCHANGED <<toolset, stages, budget, plan, used, step, call, made, got, decision, expired, aborted, saved>>

\* Its await is not raced: only the tool ends it, with an answer, with a budget
\* error, which ends the loop, or with a cancellation, which ends the run.
SkepticToolAnswers ==
    /\ pc = "asked"
    /\ \/ Raise("CANCELLED") /\ UNCHANGED sk
       \/ ~aborted /\ pc' = "verdict" /\ UNCHANGED <<outcome, sk>>
       \/ /\ pc' = "challenge" /\ UNCHANGED outcome
          /\ \E found \in Findings(Head(sk.left)) :
                sk' = [sk EXCEPT !.left = Tail(@), !.found = @ \cup found,
                         !.clean = IF found = {} THEN @ \cup {Head(sk.left)} ELSE @]
    /\ UNCHANGED <<toolset, stages, budget, plan, used, step, call, made, got, decision, expired, aborted, saved>>

\* Mutant: only findings count, not the calls that were made.
VerdictOfFindings(s) ==
    IF "fatal" \in s.found THEN "VETO" ELSE IF s.found # {} THEN "CHALLENGE" ELSE "CONFIRM"
Verdict(s) ==
    IF "fatal" \in s.found THEN "VETO" ELSE IF s.found # {} THEN "CHALLENGE"
    ELSE IF s.left # <<>> \/ s.clean = {} THEN "INSUFFICIENT_EVIDENCE" ELSE "CONFIRM"
Conclude ==
    /\ pc = "verdict" \/ (pc = "challenge" /\ sk.left = <<>>)
    /\ sk' = [sk EXCEPT !.verdict = Verdict(sk)] /\ pc' = "save"
    /\ UNCHANGED <<toolset, stages, budget, plan, used, step, call, made, got, decision, expired, aborted, saved, outcome>>

(* saveVoiPlan and saveSkepticArtifact; a failure to write is swallowed.   *)
Persist ==
    /\ pc = "save" /\ saved' \in BOOLEAN /\ Raise("SUCCESS")
    /\ UNCHANGED <<toolset, stages, budget, plan, used, step, call, made, got, decision, expired, aborted, sk>>

Abort == pc # "done" /\ ~aborted /\ aborted' = TRUE
         /\ UNCHANGED <<toolset, stages, budget, plan, used, step, call, made, got, decision, expired, sk, saved, pc, outcome>>
DeadlinePasses == pc # "done" /\ ~expired /\ expired' = TRUE
         /\ UNCHANGED <<toolset, stages, budget, plan, used, step, call, made, got, decision, aborted, sk, saved, pc, outcome>>

\* The steps of the runtime and of the tools that answer.
Runtime == \/ Preflight \/ RecordStep \/ InvokeTool \/ AbortEndsAwait \/ ToolAnswers \/ NextStep
           \/ SynthesizeDecision \/ StartSkeptic \/ Challenge \/ SkepticToolAnswers \/ Conclude \/ Persist
AgentNext == Runtime \/ Abort \/ DeadlinePasses
AgentSpec == AgentInit /\ [][AgentNext]_agentVars /\ WF_agentVars(Runtime)

----------------------------------------------------------------------------
AgentTypeOK == used \in [Resources -> Nat] /\ call \in Nat /\ made \in Nat /\ step \in 1..(Len(plan) + 1)

(* The plan fits what the planner knows of the budget: once a tool was     *)
(* called, the tracker never stops the run for want of steps, calls, cost  *)
(* or units.  It may for the deadline, the per-candidate limit, the        *)
(* provider calls and the tokens, which the planner does not look at, and  *)
(* a tool may raise a budget error of its own (TOOL_RAISED).               *)
PlanFitsBudget ==
    made > 0 => outcome \notin {<<"BUDGET_EXCEEDED", r>> : r \in {"STEPS", "TOOL_CALLS", "MODEL_COST_USD", "PROVIDER_COST_UNITS"}}

(* No tool is called beyond any limit, whenever the run stops.             *)
CallsWithinBudget == \A r \in Charged : made <= budget[r]

(* A skeptic that was triggered confirms only when every authorised tool   *)
(* that has a handler, and at least one, answered without a finding:       *)
(* running out of budget, or having nothing to ask, confirms nothing.      *)
ConfirmationIsEarned ==
    sk.verdict = "CONFIRM" => /\ sk.clean = {SkepticTools[i] : i \in DOMAIN SkepticTools} \cap Handlers
                              /\ sk.clean # {}

(* The run stands in the await of a tool that never answers: in the loop   *)
(* while no abort comes, in the skeptic for good.                          *)
Hangs == (pc = "hung" /\ ~aborted) \/ pc = "unheard"
=============================================================================
