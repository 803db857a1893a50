---------------------------- MODULE AlertsProofs ----------------------------
(***************************************************************************)
(* Theorems about the alerts package.  Outbox, for any number of workers,  *)
(* crashes, adapter failures and retries; AlertLifecycle, for any scores,  *)
(* validities, cooldowns and times.                                        *)
(***************************************************************************)
EXTENDS Outbox, AlertLifecycle, TLAPS

\* The strengthened invariant holds before the entry is committed.
LEMMA InitIInv == Init => IInv
  BY OutboxAssumption
  DEF Init, IInv, TypeOK, NoRow, PC, AdmittedStates, WorkersAreDue, AttemptLeft,
      DeliveredWasSent, SentOnlyWhenDue, AttemptsAreCalls

\* Every step keeps the type invariant.
LEMMA TypeStep == TypeOK /\ [Next]_vars => TypeOK'
<1> SUFFICES ASSUME TypeOK, [Next]_vars PROVE TypeOK'
  OBVIOUS
<1> USE OutboxAssumption DEF TypeOK, PC
<1>1. CASE UNCHANGED vars
  BY <1>1 DEF vars
<1>2. ASSUME NEW shadow \in BOOLEAN, CommitAlert(shadow) PROVE TypeOK'
  BY <1>2 DEF CommitAlert, AdmittedStates
<1>3. ASSUME NEW w \in Workers, Fetch(w) PROVE TypeOK'
  BY <1>3 DEF Fetch, Goto
<1>4. ASSUME NEW w \in Workers, Enqueue(w) PROVE TypeOK'
  BY <1>4 DEF Enqueue, Goto, Return
<1>5. ASSUME NEW w \in Workers, NEW s \in AdmittedStates, Return(w),
             row' = row \/ row' = [row EXCEPT !.state = s, !.attempts = seen[w] + 1],
             UNCHANGED <<clock, calls, sent>>
      PROVE  TypeOK'
  <2>1. seen[w] + 1 \in Nat
    OBVIOUS
  <2>2. row' \in [state : AdmittedStates \cup {"ABSENT"}, attempts : Nat, shadow : BOOLEAN]
    BY <1>5, <2>1
  <2>3. pc' \in [Workers -> PC] /\ seen' \in [Workers -> Nat]
    BY <1>5 DEF Return, Goto
  <2> QED
    BY <1>5, <2>2, <2>3
<1>6. ASSUME NEW w \in Workers, MarkDelivered(w) \/ MarkFailed(w) PROVE TypeOK'
  <2>1. CASE MarkDelivered(w)
    BY <2>1, <1>5 DEF MarkDelivered, AdmittedStates
  <2>2. CASE MarkFailed(w)
    <3>1. CASE NextState(w) \in AdmittedStates
      BY <2>2, <3>1, <1>5 DEF MarkFailed
    <3>2. CASE NextState(w) \notin AdmittedStates
      BY <2>2, <3>2, <1>5 DEF MarkFailed, AdmittedStates
    <3> QED
      BY <3>1, <3>2
  <2> QED
    BY <1>6, <2>1, <2>2
<1>7. ASSUME NEW w \in Workers, Crash(w) PROVE TypeOK'
  BY <1>7 DEF Crash, Goto, Return
<1>8. CASE Tick
  BY <1>8 DEF Tick
<1> QED
  BY <1>1, <1>2, <1>3, <1>4, <1>6, <1>7, <1>8 DEF Next, Process

\* What the invariant says of one worker past the SELECT.
WorkerIsDue(w) ==
    pc[w] # "idle" =>
        /\ row.state # "ABSENT" /\ clock >= AvailableAt
        /\ pc[w] \in {"enqueue", "failed"} => ~row.shadow
        /\ seen[w] < MaxRetries
        /\ ~row.shadow => seen[w] + (IF pc[w] = "enqueue" THEN 0 ELSE 1) <= calls
        /\ pc[w] = "delivered" => row.shadow \/ sent > 0

\* A worker that does not move stays due while the clock, the calls and the
\* messages only grow and the entry stays what it is.
LEMMA OthersStayDue ==
    ASSUME TypeOK, TypeOK', NEW w \in Workers, WorkerIsDue(w),
           pc'[w] = pc[w], seen'[w] = seen[w],
           clock <= clock', calls <= calls', sent <= sent',
           row.state # "ABSENT" => row'.state # "ABSENT" /\ row'.shadow = row.shadow
    PROVE  WorkerIsDue(w)'
<1> USE OutboxAssumption DEF TypeOK
<1> SUFFICES ASSUME pc[w] # "idle"
             PROVE  WorkerIsDue(w)'
  BY DEF WorkerIsDue
<1>1. row'.state # "ABSENT" /\ row'.shadow = row.shadow
  BY DEF WorkerIsDue
<1>2. clock' >= AvailableAt
  BY DEF WorkerIsDue
<1>3. ~row.shadow => seen[w] + (IF pc[w] = "enqueue" THEN 0 ELSE 1) <= calls'
  BY DEF WorkerIsDue
<1>4. pc[w] = "delivered" => row.shadow \/ sent' > 0
  BY DEF WorkerIsDue
<1> QED
  BY <1>1, <1>2, <1>3, <1>4 DEF WorkerIsDue

\* Every step keeps the strengthened invariant.
LEMMA NextIInv == IInv /\ [Next]_vars => IInv'
<1> SUFFICES ASSUME IInv, [Next]_vars PROVE IInv'
  OBVIOUS
<1> USE OutboxAssumption
<1>t. TypeOK /\ TypeOK'
  BY TypeStep DEF IInv
<1>d. \A w \in Workers : WorkerIsDue(w)
  BY DEF IInv, WorkersAreDue, WorkerIsDue
<1>w. ASSUME \A w \in Workers : WorkerIsDue(w)' PROVE WorkersAreDue'
  BY <1>w DEF WorkersAreDue, WorkerIsDue
<1> DEFINE Rest == AttemptLeft /\ DeliveredWasSent /\ SentOnlyWhenDue /\ AttemptsAreCalls
<1>q. ASSUME WorkersAreDue', Rest' PROVE IInv'
  BY <1>q, <1>t DEF IInv
<1>r. Rest
  BY DEF IInv
<1>1. CASE UNCHANGED vars
  <2>1. WorkersAreDue'
    BY <1>1, <1>d, <1>w DEF vars, WorkerIsDue
  <2>2. Rest'
    BY <1>1, <1>r DEF vars, AttemptLeft, DeliveredWasSent, SentOnlyWhenDue, AttemptsAreCalls
  <2> QED
    BY <2>1, <2>2, <1>q
<1>2. ASSUME NEW shadow \in BOOLEAN, CommitAlert(shadow) PROVE IInv'
  <2> USE <1>t DEF TypeOK
  <2>1. /\ row.state # "ABSENT" => row' = row
        /\ row.state = "ABSENT" => row' = [state |-> "PENDING", attempts |-> 0, shadow |-> shadow]
        /\ UNCHANGED <<clock, pc, seen, calls, sent>>
    BY <1>2 DEF CommitAlert
  <2>2. WorkersAreDue'
    <3> SUFFICES ASSUME NEW w \in Workers PROVE WorkerIsDue(w)'
      BY <1>w
    <3>1. row.state # "ABSENT" => row'.state # "ABSENT" /\ row'.shadow = row.shadow
      BY <2>1
    <3>2. clock <= clock' /\ calls <= calls' /\ sent <= sent'
      BY <2>1
    <3> QED
      BY <2>1, <3>1, <3>2, <1>d, <1>t, OthersStayDue
  <2>3. AttemptLeft'
    BY <2>1, <1>r DEF AttemptLeft
  <2>4. DeliveredWasSent' /\ SentOnlyWhenDue'
    BY <2>1, <1>r DEF DeliveredWasSent, SentOnlyWhenDue
  <2>5. AttemptsAreCalls'
    BY <2>1, <1>r DEF AttemptsAreCalls
  <2> QED
    BY <2>2, <2>3, <2>4, <2>5, <1>q
<1>3. ASSUME NEW w \in Workers, Fetch(w) PROVE IInv'
  <2>1. Rest'
    BY <1>3, <1>r DEF Fetch, AttemptLeft, DeliveredWasSent, SentOnlyWhenDue, AttemptsAreCalls
  <2>2. \A v \in Workers \ {w} : WorkerIsDue(v)'
    BY <1>3, <1>d, <1>t DEF Fetch, Goto, TypeOK, WorkerIsDue
  <2>3. WorkerIsDue(w)'
    <3>1. /\ pc'[w] = IF row.shadow THEN "delivered" ELSE "enqueue"
          /\ seen'[w] = row.attempts
          /\ UNCHANGED <<row, clock, calls, sent>>
      BY <1>3, <1>t DEF Fetch, Goto, TypeOK
    <3>2. row.attempts < MaxRetries /\ row.state # "ABSENT" /\ clock >= AvailableAt
      BY <1>3, <1>r DEF Fetch, Dispatchable, AttemptLeft
    <3>3. ~row.shadow => row.attempts + 0 <= calls
      BY <1>r, <1>t DEF AttemptsAreCalls, TypeOK
    <3> QED
      BY <3>1, <3>2, <3>3, <1>t DEF WorkerIsDue, TypeOK
  <2> QED
    BY <2>1, <2>2, <2>3, <1>q, <1>w
<1>4. ASSUME NEW w \in Workers, Enqueue(w) PROVE IInv'
  <2> USE <1>t DEF TypeOK
  <2>1. /\ pc[w] = "enqueue" /\ calls' = calls + 1 /\ sent' \in {sent, sent + 1}
        /\ UNCHANGED <<row, clock>>
    BY <1>4 DEF Enqueue
  <2>2. row.state # "ABSENT" /\ ~row.shadow /\ clock >= AvailableAt /\ seen[w] <= calls
    BY <2>1, <1>d DEF WorkerIsDue
  <2>3. Rest'
    <3>1. AttemptLeft' /\ DeliveredWasSent'
      BY <2>1, <1>r DEF AttemptLeft, DeliveredWasSent
    <3>2. SentOnlyWhenDue' /\ AttemptsAreCalls'
      BY <2>1, <2>2, <1>r DEF SentOnlyWhenDue, AttemptsAreCalls
    <3> QED
      BY <3>1, <3>2
  <2>4. ASSUME NEW v \in Workers \ {w} PROVE WorkerIsDue(v)'
    <3>1. pc'[v] = pc[v] /\ seen'[v] = seen[v]
      BY <1>4 DEF Enqueue, Goto, Return
    <3>2. clock <= clock' /\ calls <= calls' /\ sent <= sent'
      BY <2>1
    <3> QED
      BY <2>1, <3>1, <3>2, <1>d, <1>t, OthersStayDue
  <2>5. WorkerIsDue(w)'
    <3>1. CASE pc'[w] = "idle"
      BY <3>1 DEF WorkerIsDue
    <3>2. CASE pc'[w] # "idle"
      <4>1. /\ seen'[w] = seen[w] /\ pc'[w] \in {"delivered", "failed"}
            /\ pc'[w] = "delivered" => sent' > 0
        BY <1>4, <3>2 DEF Enqueue, Goto, Return
      <4>2. seen[w] < MaxRetries /\ seen[w] + 1 <= calls'
        BY <2>1, <2>2, <1>d DEF WorkerIsDue
      <4> QED
        BY <2>1, <2>2, <4>1, <4>2 DEF WorkerIsDue
    <3> QED
      BY <3>1, <3>2
  <2> QED
    BY <2>3, <2>4, <2>5, <1>q, <1>w
<1>5. ASSUME NEW w \in Workers, MarkDelivered(w) PROVE IInv'
  <2> USE <1>t DEF TypeOK
  <2>1. /\ pc[w] = "delivered"
        /\ row' = [row EXCEPT !.state = "DELIVERED", !.attempts = seen[w] + 1]
        /\ UNCHANGED <<clock, calls, sent>>
        /\ pc' = [pc EXCEPT ![w] = "idle"] /\ seen' = [seen EXCEPT ![w] = 0]
    BY <1>5 DEF MarkDelivered, Return, Goto
  <2>2. /\ row.state # "ABSENT" /\ clock >= AvailableAt /\ seen[w] < MaxRetries
        /\ row.shadow \/ sent > 0
        /\ ~row.shadow => seen[w] + 1 <= calls
    BY <2>1, <1>d DEF WorkerIsDue
  <2>3. row'.state = "DELIVERED" /\ row'.attempts = seen[w] + 1 /\ row'.shadow = row.shadow
    BY <2>1
  <2>4. Rest'
    <3>1. AttemptLeft' /\ DeliveredWasSent'
      BY <2>1, <2>2, <2>3 DEF AttemptLeft, DeliveredWasSent
    <3>2. SentOnlyWhenDue'
      BY <2>1, <2>2, <2>3, <1>r DEF SentOnlyWhenDue
    <3>3. AttemptsAreCalls'
      BY <2>1, <2>2, <2>3 DEF AttemptsAreCalls
    <3> QED
      BY <3>1, <3>2, <3>3
  <2>5. ASSUME NEW v \in Workers \ {w} PROVE WorkerIsDue(v)'
    <3>1. clock <= clock' /\ calls <= calls' /\ sent <= sent'
      BY <2>1
    <3>2. pc'[v] = pc[v] /\ seen'[v] = seen[v]
      BY <2>1
    <3> QED
      BY <2>3, <3>1, <3>2, <1>d, <1>t, OthersStayDue
  <2>6. WorkerIsDue(w)'
    BY <2>1 DEF WorkerIsDue
  <2> QED
    BY <2>4, <2>5, <2>6, <1>q, <1>w
<1>6. ASSUME NEW w \in Workers, MarkFailed(w) PROVE IInv'
  <2> USE <1>t DEF TypeOK
  <2>0. \/ row' = row
        \/ /\ row' = [row EXCEPT !.state = "RETRY", !.attempts = seen[w] + 1]
           /\ seen[w] + 1 < MaxRetries
    <3>1. CASE seen[w] + 1 >= MaxRetries
      <4>1. NextState(w) = "FAILED"
        BY <3>1 DEF NextState
      <4> QED
        BY <1>6, <4>1 DEF MarkFailed, AdmittedStates
    <3>2. CASE ~(seen[w] + 1 >= MaxRetries)
      <4>1. NextState(w) = "RETRY"
        BY <3>2 DEF NextState
      <4> QED
        BY <1>6, <3>2, <4>1 DEF MarkFailed, AdmittedStates
    <3> QED
      BY <3>1, <3>2
  <2>1. /\ pc[w] = "failed"
        /\ UNCHANGED <<clock, calls, sent>>
        /\ pc' = [pc EXCEPT ![w] = "idle"] /\ seen' = [seen EXCEPT ![w] = 0]
    BY <1>6 DEF MarkFailed, Return, Goto
  <2>2. /\ row.state # "ABSENT" /\ ~row.shadow /\ clock >= AvailableAt
        /\ seen[w] + 1 <= calls
    BY <2>1, <1>d DEF WorkerIsDue
  <2>3. /\ row'.shadow = row.shadow /\ row'.state # "ABSENT"
        /\ \/ row' = row
           \/ row'.state = "RETRY" /\ row'.attempts = seen[w] + 1 /\ seen[w] + 1 < MaxRetries
    BY <2>0, <2>2
  <2>4. Rest'
    <3>1. AttemptLeft' /\ DeliveredWasSent'
      BY <2>1, <2>3, <1>r DEF AttemptLeft, DeliveredWasSent
    <3>2. SentOnlyWhenDue'
      BY <2>1, <2>2, <2>3, <1>r DEF SentOnlyWhenDue
    <3>3. AttemptsAreCalls'
      BY <2>1, <2>2, <2>3, <1>r DEF AttemptsAreCalls
    <3> QED
      BY <3>1, <3>2, <3>3
  <2>5. ASSUME NEW v \in Workers \ {w} PROVE WorkerIsDue(v)'
    <3>1. clock <= clock' /\ calls <= calls' /\ sent <= sent'
      BY <2>1
    <3>2. pc'[v] = pc[v] /\ seen'[v] = seen[v]
      BY <2>1
    <3> QED
      BY <2>3, <3>1, <3>2, <1>d, <1>t, OthersStayDue
  <2>6. WorkerIsDue(w)'
    BY <2>1 DEF WorkerIsDue
  <2> QED
    BY <2>4, <2>5, <2>6, <1>q, <1>w
<1>7. ASSUME NEW w \in Workers, Crash(w) PROVE IInv'
  <2>1. Rest'
    BY <1>7, <1>r DEF Crash, AttemptLeft, DeliveredWasSent, SentOnlyWhenDue, AttemptsAreCalls
  <2>2. \A v \in Workers : WorkerIsDue(v)'
    BY <1>7, <1>d, <1>t DEF Crash, Return, Goto, TypeOK, WorkerIsDue
  <2> QED
    BY <2>1, <2>2, <1>q, <1>w
<1>8. CASE Tick
  <2> USE <1>t DEF TypeOK
  <2>1. clock' = clock + 1 /\ UNCHANGED <<row, pc, seen, calls, sent>>
    BY <1>8 DEF Tick
  <2>2. Rest'
    BY <2>1, <1>r DEF AttemptLeft, DeliveredWasSent, SentOnlyWhenDue, AttemptsAreCalls
  <2>3. ASSUME NEW v \in Workers PROVE WorkerIsDue(v)'
    <3>1. clock <= clock' /\ calls <= calls' /\ sent <= sent'
      BY <2>1
    <3> QED
      BY <2>1, <3>1, <1>d, <1>t, OthersStayDue
  <2> QED
    BY <2>2, <2>3, <1>q, <1>w
<1> QED
  BY <1>1, <1>2, <1>3, <1>4, <1>5, <1>6, <1>7, <1>8 DEF Next, Process

\* The strengthened invariant of the outbox entry holds of every behaviour.
THEOREM OutboxInvariant == Spec => []IInv
  BY InitIInv, NextIInv, PTL DEF Spec

\* processOutboxEntry never marks an entry DELIVERED that nothing was sent for.
THEOREM NoLostNotification == Spec => []DeliveredWasSent
<1>1. IInv => DeliveredWasSent
  BY DEF IInv
<1> QED
  BY <1>1, OutboxInvariant, PTL

\* Shadow entries and entries that are not due never reach the adapter.
THEOREM ShadowIsSilent == Spec => []SentOnlyWhenDue
<1>1. IInv => SentOnlyWhenDue
  BY DEF IInv
<1> QED
  BY <1>1, OutboxInvariant, PTL

\* The attempt count is bounded by the calls made and by maxRetries although
\* every worker writes the count it read plus one.
THEOREM AttemptsBounded == Spec => []AttemptsAreCalls
<1>1. IInv => AttemptsAreCalls
  BY DEF IInv
<1> QED
  BY <1>1, OutboxInvariant, PTL
-----------------------------------------------------------------------------
(* Alerts: issued, updated, superseded.                                    *)

\* A record made from a candidate is well typed.
LEMMA RecordType ==
    ASSUME Bounds, AlertTypeOK, NEW c \in Candidates, NEW until \in Nat,
           NEW class \in {"RISK_ALERT", "CONFIRMED_OPPORTUNITY", "EARLY_WATCH", "THESIS_WEAKENING",
                          "THESIS_STRENGTHENING"},
           NEW act \in {"ACTIONABLE", "WATCH_ONLY", "CANCELLED", "DETERIORATED"}
    PROVE  /\ Record(class, act, c, until) \in AlertRow
           /\ Record(class, act, c, until).class = class
           /\ Record(class, act, c, until).act = act
           /\ Record(class, act, c, until).until = until
  <1>1. now \in Nat
    BY DEF Bounds, AlertTypeOK
  <1>2. /\ c.score \in Scores /\ c.evidence \in 1..2
        /\ c.risk \in {"LOW", "HIGH", "CRITICAL", "CONFLICTING"}
        /\ c.lifecycle \in {"EMERGING", "CONFIRMED"}
    BY DEF Candidates
  <1>3. c.score \in Nat
    BY <1>2 DEF Bounds
  <1>4. c.evidence \in Nat
    BY <1>2
  <1> QED
    BY <1>1, <1>2, <1>3, <1>4 DEF Record, AlertRow

\* An update of a live alert keeps its validity, and a candidate in critical
\* risk cancels it.
LEMMA UpdateEffect ==
    ASSUME Bounds, AlertTypeOK, NEW c \in Candidates
    PROVE  /\ Updated(c) \in AlertRow
           /\ Updated(c).until = prior.until
           /\ CriticalRisk(c) => ~Live(Updated(c))
  <1>1. prior \in AlertRow /\ prior.until \in Nat /\ prior.score \in Nat
    BY DEF AlertTypeOK, AlertRow
  <1>2. /\ Cancellation(c) \in AlertRow /\ Cancellation(c).until = prior.until
        /\ Cancellation(c).act = "CANCELLED"
    BY <1>1, RecordType DEF Cancellation, UpdatedUntil, AlertRow
  <1>3. /\ Weakening(c) \in AlertRow /\ Weakening(c).until = prior.until
        /\ Strengthening(c) \in AlertRow /\ Strengthening(c).until = prior.until
    BY <1>1, RecordType DEF Weakening, Strengthening, UpdatedUntil
  <1>4. CriticalRisk(c) => Updated(c) = Cancellation(c)
    BY DEF Updated, Unchanged
  <1> QED
    BY <1>1, <1>2, <1>3, <1>4 DEF Updated, Live

\* evaluateAlertPolicy issues no opportunity and no watch for a candidate in
\* critical risk.
LEMMA IssueEffect ==
    ASSUME Bounds, AlertTypeOK, NEW c \in Candidates
    PROVE  /\ Issued(c) \in AlertRow
           /\ CriticalRisk(c) => Issued(c) = NoAlert \/ Issued(c).class = "RISK_ALERT"
  <1>1. now \in Nat /\ now + RiskTtl \in Nat /\ now + OpportunityTtl \in Nat /\ now + WatchTtl \in Nat
    BY DEF AlertTypeOK, Bounds
  <1>2. /\ RiskAlert(c) \in AlertRow /\ RiskAlert(c).class = "RISK_ALERT"
        /\ Opportunity(c) \in AlertRow /\ EarlyWatch(c) \in AlertRow
    BY <1>1, RecordType DEF RiskAlert, Opportunity, EarlyWatch
  <1>3. NoAlert \in AlertRow
    BY DEF NoAlert, AlertRow
  <1>4. CriticalRisk(c) => ~Confirmed(c) /\ ~WatchEligible(c)
    BY DEF Confirmed, Passes, WatchEligible
  <1> QED
    BY <1>2, <1>3, <1>4 DEF Issued

\* No alert before the first evaluation.
LEMMA AlertInitIInv == ASSUME Bounds, AlertInit PROVE AlertIInv
  <1>1. NoAlert \in AlertRow /\ ~Live(NoAlert)
    BY DEF NoAlert, AlertRow, Live
  <1>2. 0 \in 0..Horizon
    BY DEF Bounds
  <1> QED
    BY <1>1, <1>2 DEF AlertInit, AlertIInv, AlertTypeOK, RiskEndsOpportunity

\* Every evaluation and the passing of time preserve the invariant.
LEMMA AlertNextIInv == ASSUME Bounds, AlertIInv, [AlertNext]_alertVars PROVE AlertIInv'
  <1> USE DEF AlertIInv
  <1>1. CASE Lapse
    BY <1>1 DEF Lapse, AlertTypeOK, RiskEndsOpportunity, Live, Bounds
  <1>2. CASE Expire
    <2>1. now \in Nat
      BY DEF AlertTypeOK, Bounds
    <2>2. prior' \in AlertRow /\ prior'.act = "EXPIRED"
      BY <1>2, <2>1 DEF Expire, AlertTypeOK, AlertRow
    <2> QED
      BY <1>2, <2>2 DEF Expire, AlertTypeOK, RiskEndsOpportunity, Live
  <1>3. ASSUME NEW c \in Candidates, EvaluateLifecycle(c) PROVE AlertIInv'
    <2>1. /\ prior' = Updated(c) /\ root' = root /\ now' = now
          /\ critical' = CriticalRisk(c) /\ Live(prior) /\ passed' \in BOOLEAN
      BY <1>3 DEF EvaluateLifecycle, CriticalRisk, AlertTypeOK, Passes, Candidates
    <2>2. critical' \in BOOLEAN
      BY <2>1 DEF CriticalRisk
    <2>3. RiskEndsOpportunity'
      BY <2>1, UpdateEffect DEF RiskEndsOpportunity, Live
    <2> QED
      BY <2>1, <2>2, <2>3, UpdateEffect DEF AlertTypeOK
  <1>4. ASSUME NEW c \in Candidates, EvaluatePolicy(c) PROVE AlertIInv'
    <2>1. /\ ~Live(prior) /\ now' = now /\ critical' = CriticalRisk(c) /\ passed' \in BOOLEAN
          /\ \/ prior' = prior /\ root' = root
             \/ prior' = Issued(c) /\ root' = Issued(c).until /\ Issued(c) # NoAlert
      BY <1>4 DEF EvaluatePolicy, CriticalRisk, Passes, Candidates
    <2>2. critical' \in BOOLEAN
      BY <2>1 DEF CriticalRisk
    <2>3. prior' \in AlertRow /\ root' \in Nat /\ (Live(prior)' => prior'.until = root')
      BY <2>1, IssueEffect DEF AlertTypeOK, AlertRow, Live
    <2>4. RiskEndsOpportunity'
      BY <2>1, IssueEffect DEF RiskEndsOpportunity, Live
    <2> QED
      BY <2>1, <2>2, <2>3, <2>4 DEF AlertTypeOK
  <1>5. CASE UNCHANGED alertVars
    BY <1>5 DEF alertVars, AlertTypeOK, RiskEndsOpportunity, Live
  <1> QED
    BY <1>1, <1>2, <1>3, <1>4, <1>5 DEF AlertNext

\* The inductive invariant of evaluateAlertPolicy and evaluateAlertLifecycle.
THEOREM AlertInvariant ==
    ASSUME Bounds
    PROVE  AlertSpec => []AlertIInv
  <1>1. AlertInit => AlertIInv
    BY AlertInitIInv
  <1>2. AlertIInv /\ [AlertNext]_alertVars => AlertIInv'
    BY AlertNextIInv
  <1> QED
    BY <1>1, <1>2, PTL DEF AlertSpec

\* No sequence of updates outlives the alert it goes back to, and no opportunity
\* stays live once a candidate in critical or conflicting risk was evaluated.
THEOREM AlertsAreTrue ==
    ASSUME Bounds
    PROVE  AlertSpec => []AlertsStayTrue
  <1>1. AlertIInv => AlertsStayTrue
    BY DEF AlertIInv, AlertTypeOK, AlertsStayTrue, UpdatesKeepValidity
  <1> QED
    BY <1>1, AlertInvariant, PTL
=============================================================================
