--------------------------- MODULE AlertLifecycle ---------------------------
(***************************************************************************)
(* The alerts of one asset: evaluateAlertPolicy (alerts, policy.ts) issues *)
(* them from a candidate, evaluateAlertLifecycle (lifecycle.ts) updates    *)
(* the last one when its validity lapses or the candidate changes.  The    *)
(* record each returns is committed and is the prior alert of the next     *)
(* evaluation (external: the caller).  A candidate's gates stand for the   *)
(* conflicts, freshness, coverage, independence, authorities, liquidity,   *)
(* execution, statistics, cost, quiet hours, daily limit and language the  *)
(* policy looks at one by one; missing says that data are declared missing *)
(* in the form the early-watch guardrails want.                            *)
(***************************************************************************)
EXTENDS Naturals

CONSTANTS Scores,                            \* scores of candidates
          OpportunityTtl, WatchTtl, RiskTtl, \* validity, in ticks
          Cooldown, WatchCooldown,
          Horizon                            \* bound: the clock

VARIABLES prior,    \* the last committed record of the asset
          root,     \* history: validity of the alert its updates go back to
          passed,   \* history: prior comes from a candidate that passed the gates
          critical, \* history: the candidate evaluated last was in critical risk
          now

alertVars == <<prior, root, passed, critical, now>>

Candidates ==
    [lifecycle : {"EMERGING", "CONFIRMED"}, risk : {"LOW", "HIGH", "CRITICAL", "CONFLICTING"},
     score : Scores, evidence : 1..2, events : BOOLEAN, tradable : BOOLEAN,
     gates : BOOLEAN, missing : BOOLEAN, decision : {"ALERT", "WATCH", "REJECT"}]
NoAlert == [class |-> "none", act |-> "none", until |-> 0, created |-> 0,
            risk |-> "LOW", lifecycle |-> "EMERGING", score |-> 0, evidence |-> 0]

AlertInit == prior = NoAlert /\ root = 0 /\ passed = FALSE /\ critical = FALSE /\ now = 0

Record(class, act, c, until) ==
    [class |-> class, act |-> act, until |-> until, created |-> now, risk |-> c.risk,
     lifecycle |-> c.lifecycle, score |-> c.score, evidence |-> c.evidence]
Live(a) == a.act \in {"ACTIONABLE", "WATCH_ONLY"}

----------------------------------------------------------------------------
(* What the lifecycle compares a candidate with its prior alert by.        *)
ScoreDropped(c) == c.score * 10 < prior.score * 7
ScoreRaised(c) == c.score * 10 >= prior.score * 12
CriticalRisk(c) == c.risk \in {"CRITICAL", "CONFLICTING"}
(* Every gate of the policy that fails is a reason.                        *)
Passes(c) ==
    /\ c.gates /\ c.tradable /\ ~c.events
    /\ ~(CriticalRisk(c) /\ c.decision = "ALERT" /\ c.lifecycle = "CONFIRMED")
Unchanged(c) ==
    /\ c.tradable /\ ~ScoreDropped(c) /\ ~CriticalRisk(c)
    /\ c.evidence = prior.evidence /\ c.risk = prior.risk /\ c.lifecycle = prior.lifecycle
Weakened(c) == ~c.tradable \/ ScoreDropped(c) \/ (prior.risk = "LOW" /\ c.risk = "HIGH")
Promoted(c) == prior.class = "EARLY_WATCH" /\ c.lifecycle = "CONFIRMED" /\ c.decision = "ALERT"

\* Mutant: an update is valid as long as a new alert.
ExtendedUntil == now + OpportunityTtl

(* The update a candidate calls for; an update keeps the validity of the   *)
(* alert it updates.                                                       *)
UpdatedUntil == prior.until
Cancellation(c) == [Record("RISK_ALERT", "CANCELLED", c, UpdatedUntil) EXCEPT !.score = prior.score]
Weakening(c) == Record("THESIS_WEAKENING", "DETERIORATED", c, UpdatedUntil)
Strengthening(c) == Record("THESIS_STRENGTHENING", "ACTIONABLE", c, UpdatedUntil)
Updated(c) ==
    IF Unchanged(c) THEN prior
    ELSE IF CriticalRisk(c) \/ c.events THEN Cancellation(c)
    ELSE IF Weakened(c) THEN Weakening(c)
    ELSE IF Promoted(c) \/ ScoreRaised(c) THEN Strengthening(c)
    ELSE prior

(* evaluateAlertLifecycle: lapsed alerts expire, with or without candidate.*)
Expire ==
    /\ Live(prior) /\ now >= prior.until
    /\ prior' = [prior EXCEPT !.class = "OPPORTUNITY_EXPIRED", !.act = "EXPIRED", !.until = now, !.created = now]
    /\ UNCHANGED <<root, passed, critical, now>>
EvaluateLifecycle(c) ==
    /\ Live(prior) /\ now < prior.until
    /\ prior' = Updated(c) /\ critical' = (c.risk \in {"CRITICAL", "CONFLICTING"})
    /\ passed' = IF Updated(c) = prior THEN passed ELSE Passes(c)
    /\ UNCHANGED <<root, now>>

----------------------------------------------------------------------------
(* evaluateAlertPolicy.  Cooldown is one more reason, for a candidate with *)
(* the evidence of the prior alert.                                        *)
Deteriorated(c) == CriticalRisk(c) \/ ~c.tradable \/ ScoreDropped(c)
CoolsDown(c) ==
    /\ prior # NoAlert /\ ~Deteriorated(c) /\ c.evidence = prior.evidence
    /\ now - prior.created < (IF c.decision = "ALERT" /\ Passes(c) THEN Cooldown ELSE WatchCooldown)
Confirmed(c) ==
    /\ c.decision = "ALERT" /\ c.lifecycle = "CONFIRMED" /\ Passes(c) /\ ~CoolsDown(c)
WatchEligible(c) ==
    /\ c.decision = "WATCH" \/ c.lifecycle = "EMERGING"
    /\ ~CriticalRisk(c) /\ c.missing
Risky(c) == c.risk \in {"CRITICAL", "HIGH"} \/ c.events

RiskAlert(c) == Record("RISK_ALERT", "ACTIONABLE", c, now + RiskTtl)
Opportunity(c) == Record("CONFIRMED_OPPORTUNITY", "ACTIONABLE", c, now + OpportunityTtl)
EarlyWatch(c) == Record("EARLY_WATCH", "WATCH_ONLY", c, now + WatchTtl)
Issued(c) ==
    IF Risky(c) THEN RiskAlert(c)
    ELSE IF Confirmed(c) THEN Opportunity(c)
    ELSE IF WatchEligible(c) THEN EarlyWatch(c)
    ELSE NoAlert

(* The caller evaluates the lifecycle of a live alert before it asks for a *)
(* new one, so an alert that is still live is updated, never replaced.     *)
EvaluatePolicy(c) ==
    /\ ~Live(prior)
    /\ IF Issued(c) = NoAlert THEN UNCHANGED <<prior, root>>
       ELSE prior' = Issued(c) /\ root' = Issued(c).until
    /\ passed' = Passes(c) /\ critical' = (c.risk \in {"CRITICAL", "CONFLICTING"}) /\ UNCHANGED now

Lapse == now < Horizon /\ now' = now + 1 /\ UNCHANGED <<prior, root, passed, critical>>

AlertNext == Lapse \/ Expire \/ \E c \in Candidates : EvaluateLifecycle(c) \/ EvaluatePolicy(c)
AlertSpec == AlertInit /\ [][AlertNext]_alertVars

----------------------------------------------------------------------------
AlertRow ==
    [class : {"none", "RISK_ALERT", "CONFIRMED_OPPORTUNITY", "EARLY_WATCH", "THESIS_WEAKENING",
              "THESIS_STRENGTHENING", "OPPORTUNITY_EXPIRED"},
     act : {"none", "ACTIONABLE", "WATCH_ONLY", "EXPIRED", "CANCELLED", "DETERIORATED"},
     until : Nat, created : Nat, risk : {"LOW", "HIGH", "CRITICAL", "CONFLICTING"},
     lifecycle : {"EMERGING", "CONFIRMED"}, score : Nat, evidence : Nat]

AlertTypeOK ==
    /\ prior \in AlertRow /\ root \in Nat
    /\ passed \in BOOLEAN /\ critical \in BOOLEAN /\ now \in 0..Horizon

(* However often an alert is updated, no update outlives the alert it goes *)
(* back to: strengthening does not renew an opportunity.                   *)
UpdatesKeepValidity == Live(prior) => prior.until <= root

(* Once a candidate in critical or conflicting risk was evaluated, no      *)
(* opportunity or watch alert of the asset stays live.                     *)
RiskEndsOpportunity ==
    critical => ~(Live(prior) /\ prior.class \in {"EARLY_WATCH", "CONFIRMED_OPPORTUNITY", "THESIS_STRENGTHENING"})

(* Alerts stay true to what they were raised on.                           *)
AlertsStayTrue == UpdatesKeepValidity /\ RiskEndsOpportunity

(* An alert that invites to act has passed every gate of the policy        *)
(* (FR-ALERT-003).  A raised score alone makes an early watch ACTIONABLE.  *)
ActionablePassedGates ==
    Live(prior) /\ prior.act = "ACTIONABLE" /\ prior.class # "RISK_ALERT" => passed

(* The inductive invariant: an update neither renews nor shortens.         *)
AlertIInv == /\ AlertTypeOK /\ RiskEndsOpportunity
             /\ Live(prior) => prior.until = root

Bounds == /\ Scores \subseteq Nat /\ Horizon \in Nat
          /\ OpportunityTtl \in Nat /\ WatchTtl \in Nat /\ RiskTtl \in Nat
=============================================================================
