------------------------ MODULE WorkflowStepsProofs ------------------------
(***************************************************************************)
(* Theorems about WorkflowSteps, for any number of workers, operators,     *)
(* steps, retries and times.  First what each statement does to the rows   *)
(* and to its caller, row by row; then that the inductive invariant IInv   *)
(* is preserved, one lemma per conjunct and one step per statement; then   *)
(* the properties.                                                         *)
(***************************************************************************)
EXTENDS WorkflowSteps, TLAPS

\* What a worker's statement leaves alone: the other workers and operators.
WorkerFrame(w) ==
    /\ \A v \in Owners : v # w => pc'[v] = pc[v] /\ loc'[v] = loc[v]
    /\ \A o \in Operators : pc'[o] = pc[o]
    /\ item' = item

\* What an operator's statement leaves alone: the workers, the other operators
\* and the attempts.
OperatorFrame(o) ==
    /\ \A w \in Owners : pc'[w] = pc[w]
    /\ \A p \in Operators : p # o => pc'[p] = pc[p] /\ item'[p] = item[p]
    /\ attempts' = attempts /\ loc' = loc

\* A statement writes one step row at most.
OtherStepsKept(s) == \A r \in Steps : r # s => step'[r] = step[r]

\* The variables a statement reads and writes have their types.
LEMMA Typing ==
    ASSUME TypeOK
    PROVE  /\ \A s \in Steps : /\ step[s] \in StepRow
                               /\ step[s].status \in StepStatus
                               /\ step[s].attempt \in Nat
           /\ \A w \in Owners : /\ loc[w] \in Locals
                                /\ cur(w) \in Steps
                                /\ loc[w].seen \in Nat
                                /\ loc[w].err \in AllErrorClasses
           /\ \A o \in Operators : item[o] \in ItemIds
           /\ \A d \in ItemIds : d[1] \in Steps /\ dead[d] \in ItemStatus
  BY DEF TypeOK, StepRow, Locals, cur, ItemIds

\* The values a handler's variables have before it runs.
LEMMA LocalsType == NoLocals \in Locals /\ NoItem \in ItemIds
  BY StepsAssumption DEF NoLocals, Locals, NoItem, ItemIds, Steps, AllErrorClasses, RunStatus

\* classifyRetry allows every class at least one attempt.
LEMMA NumberOfAttempts == \A e \in AllErrorClasses : MaxAttempts(e) \in Nat \ {0}
  BY DEF MaxAttempts, AllErrorClasses, NeverRetried

\* Moving a worker on moves nobody else.
LEMMA GotoEffect ==
    ASSUME TypeOK, NEW p \in Owners \cup Operators, NEW l, Goto(p, l)
    PROVE  /\ pc'[p] = l
           /\ \A q \in Owners \cup Operators : q # p => pc'[q] = pc[q]
           /\ p \in Owners => \A o \in Operators : pc'[o] = pc[o]
           /\ p \in Operators => \A w \in Owners : pc'[w] = pc[w]
           /\ p \in Owners /\ l \in WorkerPC =>
                /\ pc' \in [Owners \cup Operators -> WorkerPC \cup OperatorPC]
                /\ \A w \in Owners : pc'[w] \in WorkerPC
                /\ \A o \in Operators : pc'[o] \in OperatorPC
           /\ p \in Operators /\ l \in OperatorPC =>
                /\ pc' \in [Owners \cup Operators -> WorkerPC \cup OperatorPC]
                /\ \A w \in Owners : pc'[w] \in WorkerPC
                /\ \A o \in Operators : pc'[o] \in OperatorPC
  BY StepsAssumption DEF TypeOK, Goto

\* Returning resets the worker's own local variables only.
LEMMA ReturnEffect ==
    ASSUME TypeOK, NEW w \in Owners, NEW l, Return(w, l)
    PROVE  /\ Goto(w, l)
           /\ loc' \in [Owners -> Locals]
           /\ loc'[w] = NoLocals
           /\ \A v \in Owners : v # w => loc'[v] = loc[v]
  BY LocalsType DEF TypeOK, Return

\* What the call of ensureWorkflowSteps does.
LEMMA StartEffect ==
    ASSUME TypeOK, NEW w \in Owners, Start(w)
    PROVE  /\ pc[w] = "idle" /\ pc'[w] = "ensure"
           /\ cur(w)' = cur(w)
           /\ WorkerFrame(w) /\ UNCHANGED rowVars
           /\ TypeOK'
  <1>1. Goto(w, "ensure") /\ pc[w] = "idle" /\ UNCHANGED rowVars
    BY DEF Start
  <1>2. loc' \in [Owners -> Locals]
    BY DEF Start, TypeOK, Locals
  <1>3. loc'[w].step = loc[w].step /\ \A v \in Owners : v # w => loc'[v] = loc[v]
    BY DEF Start, TypeOK, Locals
  <1>4. "ensure" \in WorkerPC
    BY DEF WorkerPC
  <1>5. WorkerFrame(w)
    BY <1>1, <1>3, GotoEffect DEF WorkerFrame, Start
  <1> QED
    BY <1>1, <1>2, <1>3, <1>4, <1>5, GotoEffect DEF TypeOK, Start, rowVars, cur

\* What one INSERT of createWorkflowStep does.
LEMMA EnsureEffect ==
    ASSUME TypeOK, NEW w \in Owners, EnsureStep(w)
    PROVE  /\ pc[w] = "ensure"
           /\ \/ cur(w) < NSteps /\ pc'[w] = "ensure" /\ cur(w)' = cur(w) + 1
              \/ cur(w) = NSteps /\ pc'[w] = "ready" /\ cur(w)' = 1
           /\ OtherStepsKept(cur(w))
           /\ step[cur(w)].status # "ABSENT" => step' = step
           /\ step[cur(w)].status = "ABSENT" => step'[cur(w)].status = "PENDING"
           /\ step'[cur(w)].attempt = step[cur(w)].attempt
           /\ WorkerFrame(w) /\ UNCHANGED <<run, attempts, dead>>
           /\ TypeOK'
  <1>1. pc[w] = "ensure" /\ UNCHANGED <<lease, clock, run, attempts, dead, tok, item>>
    BY DEF EnsureStep
  <1>2. /\ step' \in [Steps -> StepRow]
        /\ OtherStepsKept(cur(w))
        /\ step[cur(w)].status # "ABSENT" => step' = step
        /\ step[cur(w)].status = "ABSENT" => step'[cur(w)].status = "PENDING"
        /\ step'[cur(w)].attempt = step[cur(w)].attempt
    <2>1. CASE step[cur(w)].status = "ABSENT"
      <3>1. step' = [step EXCEPT ![cur(w)].status = "PENDING", ![cur(w)].created = loc[w].now]
        BY <2>1 DEF EnsureStep
      <3>2. cur(w) \in Steps /\ loc[w].now \in Nat /\ "PENDING" \in StepStatus
        BY Typing DEF Locals, StepStatus
      <3>3. [step[cur(w)] EXCEPT !.status = "PENDING", !.created = loc[w].now] \in StepRow
        BY <3>2 DEF TypeOK, StepRow
      <3>4. step' = [step EXCEPT ![cur(w)] =
                        [step[cur(w)] EXCEPT !.status = "PENDING", !.created = loc[w].now]]
        BY <3>1, <3>2 DEF TypeOK
      <3> QED
        BY <2>1, <3>2, <3>3, <3>4 DEF TypeOK, StepRow, OtherStepsKept
    <2>2. CASE step[cur(w)].status # "ABSENT"
      BY <2>2 DEF EnsureStep, TypeOK, OtherStepsKept
    <2> QED
      BY <2>1, <2>2
  <1>3. CASE cur(w) < NSteps
    <2>1. UNCHANGED pc /\ loc' = [loc EXCEPT ![w].step = @ + 1]
      BY <1>3, StepsAssumption, Typing DEF EnsureStep, Steps
    <2>2. loc[w].step + 1 \in Steps
      BY <1>3, StepsAssumption, Typing DEF cur, Steps
    <2>3. loc' \in [Owners -> Locals] /\ loc'[w].step = loc[w].step + 1
          /\ \A v \in Owners : v # w => loc'[v] = loc[v]
      BY <2>1, <2>2 DEF TypeOK, Locals
    <2> QED
      BY <1>1, <1>2, <1>3, <2>1, <2>3 DEF TypeOK, WorkerFrame, cur
  <1>4. CASE cur(w) = NSteps
    <2>1. Return(w, "ready") /\ "ready" \in WorkerPC
      BY <1>4, StepsAssumption DEF EnsureStep, WorkerPC
    <2>2. cur(w)' = 1
      BY <2>1, ReturnEffect DEF cur, NoLocals
    <2> QED
      BY <1>1, <1>2, <1>4, <2>1, <2>2, ReturnEffect, GotoEffect DEF TypeOK, WorkerFrame
  <1> QED
    BY <1>3, <1>4 DEF EnsureStep

\* What acquireLease does to a worker.
LEMMA AcquireEffect ==
    ASSUME TypeOK, NEW w \in Owners, AcquireLease(w)
    PROVE  /\ pc[w] = "ready" /\ pc'[w] = "leased"
           /\ loc' = loc
           /\ WorkerFrame(w) /\ UNCHANGED rowVars
           /\ TypeOK'
  <1>1. /\ pc[w] = "ready" /\ Goto(w, "leased") /\ "leased" \in WorkerPC
        /\ UNCHANGED <<rowVars, loc, item>> /\ UNCHANGED clock
    BY DEF AcquireLease, Grant, WorkerPC
  <1>2. lease' \in LeaseRow
    BY LeaseAssumption DEF AcquireLease, Grant, TypeOK, LeaseRow
  <1>3. tok' \in [Owners -> Nat]
    BY <1>2 DEF AcquireLease, TypeOK, LeaseRow
  <1> QED
    BY <1>1, <1>2, <1>3, GotoEffect DEF TypeOK, WorkerFrame, rowVars

\* What resumeFromCheckpoint does to a worker.
LEMMA PickEffect ==
    ASSUME TypeOK, NEW w \in Owners, PickStep(w)
    PROVE  /\ pc[w] = "leased" /\ pc'[w] \in {"picked", "complete"}
           /\ WorkerFrame(w) /\ UNCHANGED rowVars
           /\ TypeOK'
  <1>1. pc[w] = "leased" /\ UNCHANGED <<lease, clock, rowVars, tok, item>>
    BY DEF PickStep
  <1>2. \E l \in {"picked", "complete"} : Goto(w, l)
    BY DEF PickStep
  <1>3. loc' \in [Owners -> Locals] /\ \A v \in Owners : v # w => loc'[v] = loc[v]
    BY DEF PickStep, TypeOK, Locals, Oldest, Runnable
  <1>4. {"picked", "complete"} \subseteq WorkerPC
    BY DEF WorkerPC
  <1> QED
    BY <1>1, <1>2, <1>3, <1>4, GotoEffect DEF TypeOK, WorkerFrame, rowVars

\* What claimStepForExecution does: it moves a PENDING or FAILED row to RUNNING.
LEMMA ClaimEffect ==
    ASSUME TypeOK, NEW w \in Owners, ClaimStep(w)
    PROVE  /\ pc[w] = "picked"
           /\ \/ /\ step[cur(w)].status \in {"PENDING", "FAILED"}
                 /\ step'[cur(w)].status = "RUNNING" /\ step'[cur(w)].owner = w
                 /\ step'[cur(w)].attempt = step[cur(w)].attempt
                 /\ OtherStepsKept(cur(w))
                 /\ pc'[w] = "exec" /\ loc' = loc
              \/ step' = step /\ pc'[w] = "leased"
           /\ WorkerFrame(w) /\ UNCHANGED <<run, attempts, dead>>
           /\ TypeOK'
  <1>1. pc[w] = "picked" /\ UNCHANGED <<lease, clock, run, attempts, dead, tok, item>>
    BY DEF ClaimStep
  <1>2. CASE cur(w) \in Runnable
    <2>1. /\ step' = [step EXCEPT ![cur(w)].status = "RUNNING",
                                  ![cur(w)].owner = w,
                                  ![cur(w)].version = tok[w]]
          /\ Goto(w, "exec") /\ UNCHANGED loc /\ "exec" \in WorkerPC
      BY <1>2 DEF ClaimStep, WorkerPC
    <2>2. tok[w] \in Nat /\ cur(w) \in Steps /\ "RUNNING" \in StepStatus
      BY Typing DEF TypeOK, StepStatus
    <2>3. step' \in [Steps -> StepRow]
      <3>1. [step[cur(w)] EXCEPT !.status = "RUNNING", !.owner = w, !.version = tok[w]] \in StepRow
        BY <2>2 DEF TypeOK, StepRow
      <3>2. step' = [step EXCEPT ![cur(w)] =
                        [step[cur(w)] EXCEPT !.status = "RUNNING", !.owner = w,
                                             !.version = tok[w]]]
        BY <2>1, <2>2 DEF TypeOK
      <3> QED
        BY <2>2, <3>1, <3>2 DEF TypeOK
    <2>4. /\ step'[cur(w)].status = "RUNNING" /\ step'[cur(w)].owner = w
          /\ step'[cur(w)].attempt = step[cur(w)].attempt
          /\ OtherStepsKept(cur(w))
      BY <2>1, <2>2 DEF TypeOK, StepRow, OtherStepsKept
    <2> QED
      BY <1>1, <1>2, <2>1, <2>3, <2>4, GotoEffect DEF TypeOK, WorkerFrame, Runnable
  <1>3. CASE cur(w) \notin Runnable
    <2>1. Return(w, "leased") /\ step' = step /\ "leased" \in WorkerPC
      BY <1>3 DEF ClaimStep, WorkerPC
    <2> QED
      BY <1>1, <2>1, ReturnEffect, GotoEffect DEF TypeOK, WorkerFrame
  <1> QED
    BY <1>2, <1>3

\* Completing a step changes its status and output only.
LEMMA CompletedEffect ==
    ASSUME TypeOK, NEW w \in Owners, Completed(w)
    PROVE  /\ step' \in [Steps -> StepRow]
           /\ step'[cur(w)].status = "COMPLETED"
           /\ step'[cur(w)].attempt = step[cur(w)].attempt
           /\ OtherStepsKept(cur(w))
  <1>1. tok[w] \in Nat /\ cur(w) \in Steps /\ "COMPLETED" \in StepStatus
    BY Typing DEF TypeOK, StepStatus
  <1> QED
    BY <1>1 DEF TypeOK, StepRow, OtherStepsKept, Completed

\* The end of an execution that succeeded, or that was fenced off.
LEMMA OutcomeEffect ==
    ASSUME TypeOK, NEW w \in Owners, CommitStep(w) \/ RecordStepSuccess(w)
    PROVE  /\ pc[w] = "exec" /\ pc'[w] \in {"idle", "leased"} /\ cur(w)' = 1
           /\ \/ /\ step'[cur(w)].status = "COMPLETED"
                 /\ step'[cur(w)].attempt = step[cur(w)].attempt
                 /\ OtherStepsKept(cur(w))
              \/ step' = step
           /\ WorkerFrame(w) /\ UNCHANGED <<run, attempts, dead>>
           /\ TypeOK'
  <1>1. pc[w] = "exec" /\ UNCHANGED <<lease, clock, run, attempts, dead, item>>
    BY DEF CommitStep, RecordStepSuccess
  <1>2. \E l \in {"idle", "leased"} : Return(w, l)
    BY DEF CommitStep, RecordStepSuccess, Drop
  <1>3. Completed(w) \/ step' = step
    BY DEF CommitStep, RecordStepSuccess
  <1>4. tok' \in [Owners -> Nat]
    BY DEF CommitStep, RecordStepSuccess, Drop, TypeOK
  <1>5. step' \in [Steps -> StepRow]
    BY <1>3, CompletedEffect DEF TypeOK
  <1>6. {"idle", "leased"} \subseteq WorkerPC
    BY DEF WorkerPC
  <1>7. cur(w)' = 1
    BY <1>2, ReturnEffect DEF cur, NoLocals
  <1> QED
    BY <1>1, <1>2, <1>3, <1>4, <1>5, <1>6, <1>7, CompletedEffect, ReturnEffect, GotoEffect
    DEF TypeOK, WorkerFrame

\* What the SELECT of recordStepFailure does.
LEMMA FailSelectEffect ==
    ASSUME TypeOK, NEW w \in Owners, NEW e \in ErrorClasses, FailSelect(w, e)
    PROVE  /\ pc[w] = "exec" /\ pc'[w] = "failUpdate"
           /\ cur(w)' = cur(w) /\ loc'[w].seen = step[cur(w)].attempt /\ loc'[w].err = e
           /\ WorkerFrame(w) /\ UNCHANGED rowVars
           /\ TypeOK'
  <1>1. /\ pc[w] = "exec" /\ Goto(w, "failUpdate") /\ "failUpdate" \in WorkerPC
        /\ UNCHANGED <<lease, clock, rowVars, tok, item>>
        /\ loc' = [loc EXCEPT ![w].seen = step[cur(w)].attempt, ![w].err = e]
    BY DEF FailSelect, WorkerPC
  <1>2. step[cur(w)].attempt \in Nat /\ e \in AllErrorClasses
    BY Typing, StepsAssumption
  <1>3. loc' \in [Owners -> Locals]
    BY <1>1, <1>2 DEF TypeOK, Locals
  <1>4. /\ loc'[w].step = loc[w].step /\ loc'[w].seen = step[cur(w)].attempt /\ loc'[w].err = e
        /\ \A v \in Owners : v # w => loc'[v] = loc[v]
    BY <1>1 DEF TypeOK, Locals
  <1> QED
    BY <1>1, <1>3, <1>4, GotoEffect DEF TypeOK, WorkerFrame, rowVars, cur

\* What the UPDATE of recordStepFailure does.
LEMMA FailUpdateEffect ==
    ASSUME TypeOK, NEW w \in Owners, FailUpdate(w)
    PROVE  /\ pc[w] = "failUpdate" /\ pc'[w] = "failInsert" /\ loc' = loc
           /\ step'[cur(w)].status = IF Exhausted(w) THEN "DEAD_LETTERED" ELSE "FAILED"
           /\ step'[cur(w)].attempt = step[cur(w)].attempt + 1
           /\ OtherStepsKept(cur(w))
           /\ WorkerFrame(w) /\ UNCHANGED <<run, attempts, dead>>
           /\ TypeOK'
  <1> DEFINE outcome == IF Exhausted(w) THEN "DEAD_LETTERED" ELSE "FAILED"
  <1>1. /\ pc[w] = "failUpdate" /\ Goto(w, "failInsert") /\ "failInsert" \in WorkerPC
        /\ UNCHANGED <<lease, clock, run, attempts, dead, localVars>>
        /\ step' = [step EXCEPT ![cur(w)].status = outcome, ![cur(w)].attempt = @ + 1]
    BY DEF FailUpdate, WorkerPC
  <1>2. cur(w) \in Steps /\ step[cur(w)].attempt + 1 \in Nat /\ outcome \in StepStatus
    BY Typing DEF StepStatus
  <1> HIDE DEF outcome
  <1>3. [step[cur(w)] EXCEPT !.status = outcome, !.attempt = @ + 1] \in StepRow
    BY <1>2 DEF TypeOK, StepRow
  <1>4. step' = [step EXCEPT ![cur(w)] =
                    [step[cur(w)] EXCEPT !.status = outcome, !.attempt = @ + 1]]
    BY <1>1, <1>2 DEF TypeOK
  <1>5. step' \in [Steps -> StepRow] /\ OtherStepsKept(cur(w))
    BY <1>2, <1>3, <1>4 DEF TypeOK, OtherStepsKept
  <1>6. step'[cur(w)].status = outcome /\ step'[cur(w)].attempt = step[cur(w)].attempt + 1
    BY <1>2, <1>4 DEF TypeOK, StepRow
  <1> QED
    BY <1>1, <1>5, <1>6, GotoEffect DEF TypeOK, WorkerFrame, localVars, outcome

\* What the INSERT into step_attempts does.
LEMMA FailInsertEffect ==
    ASSUME TypeOK, NEW w \in Owners, FailInsert(w)
    PROVE  /\ pc[w] = "failInsert"
           /\ \/ /\ AttemptKey(w) \notin attempts
                 /\ attempts' = attempts \cup {AttemptKey(w)}
                 /\ \/ Exhausted(w) /\ pc'[w] = "failDead" /\ loc' = loc
                    \/ ~Exhausted(w) /\ pc'[w] = "leased" /\ cur(w)' = 1
              \/ /\ AttemptKey(w) \in attempts /\ attempts' = attempts
                 /\ pc'[w] = "idle" /\ cur(w)' = 1
           /\ WorkerFrame(w) /\ UNCHANGED <<step, run, dead>>
           /\ TypeOK'
  <1>1. pc[w] = "failInsert" /\ UNCHANGED <<lease, clock, step, run, dead, item>>
    BY DEF FailInsert
  <1>2. tok' \in [Owners -> Nat] /\ {"failDead", "leased", "idle"} \subseteq WorkerPC
    BY DEF FailInsert, Drop, TypeOK, WorkerPC
  <1>3. AttemptKey(w) \in Steps \X Nat
    BY Typing DEF AttemptKey
  <1>4. NoLocals.step = 1
    BY DEF NoLocals
  <1>5. CASE AttemptKey(w) \in attempts
    <2>1. Return(w, "idle") /\ attempts' = attempts
      BY <1>5 DEF FailInsert, Drop
    <2> QED
      BY <1>1, <1>2, <1>4, <1>5, <2>1, ReturnEffect, GotoEffect DEF TypeOK, WorkerFrame, cur
  <1>6. CASE AttemptKey(w) \notin attempts
    <2>1. attempts' = attempts \cup {AttemptKey(w)} /\ attempts' \subseteq Steps \X Nat
      BY <1>3, <1>6 DEF FailInsert, TypeOK
    <2>2. CASE Exhausted(w)
      <3>1. Goto(w, "failDead") /\ loc' = loc
        BY <1>6, <2>2 DEF FailInsert
      <3> QED
        BY <1>1, <1>2, <1>6, <2>1, <2>2, <3>1, GotoEffect DEF TypeOK, WorkerFrame
    <2>3. CASE ~Exhausted(w)
      <3>1. Return(w, "leased")
        BY <1>6, <2>3 DEF FailInsert
      <3> QED
        BY <1>1, <1>2, <1>4, <1>6, <2>1, <2>3, <3>1, ReturnEffect, GotoEffect
        DEF TypeOK, WorkerFrame, cur
    <2> QED
      BY <2>2, <2>3
  <1> QED
    BY <1>5, <1>6

\* What createDeadLetterItem does.
LEMMA FailDeadEffect ==
    ASSUME TypeOK, NEW w \in Owners, FailDead(w)
    PROVE  /\ pc[w] = "failDead" /\ pc'[w] = "failRun" /\ loc' = loc
           /\ <<cur(w), clock>> \in ItemIds
           /\ dead'[<<cur(w), clock>>] =
                 IF dead[<<cur(w), clock>>] = "NONE" THEN "OPEN" ELSE dead[<<cur(w), clock>>]
           /\ \A d \in ItemIds : d # <<cur(w), clock>> => dead'[d] = dead[d]
           /\ WorkerFrame(w) /\ UNCHANGED <<step, run, attempts>>
           /\ TypeOK'
  <1>1. /\ pc[w] = "failDead" /\ Goto(w, "failRun") /\ "failRun" \in WorkerPC
        /\ UNCHANGED <<lease, clock, step, run, attempts, localVars>>
        /\ dead' = [dead EXCEPT ![<<cur(w), clock>>] = IF @ = "NONE" THEN "OPEN" ELSE @]
    BY DEF FailDead, WorkerPC
  <1>2. <<cur(w), clock>> \in ItemIds /\ "OPEN" \in ItemStatus
    BY Typing DEF TypeOK, ItemIds, ItemStatus
  <1>3. dead' \in [ItemIds -> ItemStatus]
    BY <1>1, <1>2 DEF TypeOK
  <1> QED
    BY <1>1, <1>2, <1>3, GotoEffect DEF TypeOK, WorkerFrame, localVars

\* The statements that write the run, and a worker's death, end the handler.
LEMMA EndEffect ==
    ASSUME TypeOK, NEW w \in Owners, FailRun(w) \/ CompleteWrite(w) \/ CrashWorker(w)
    PROVE  /\ pc[w] # "idle" /\ pc'[w] \in {"idle", "leased"} /\ cur(w)' = 1
           /\ pc'[w] = "leased" => pc[w] = "failRun"
           /\ \/ pc[w] = "failRun" /\ run' = "DEAD_LETTERED"
              \/ pc[w] = "completeWrite" /\ run' = loc[w].verdict
              \/ w \in Crashing /\ run' = run
           /\ WorkerFrame(w) /\ UNCHANGED <<step, attempts, dead>>
           /\ TypeOK'
  <1>1. pc[w] # "idle" /\ UNCHANGED <<lease, clock, step, attempts, dead, item>>
    BY DEF FailRun, CompleteWrite, CrashWorker, rowVars
  <1>2. \E l \in {"idle", "leased"} : Return(w, l) /\ (l = "leased" => pc[w] = "failRun")
    BY DEF FailRun, CompleteWrite, CrashWorker, Drop
  <1>3. tok' \in [Owners -> Nat] /\ {"leased", "idle"} \subseteq WorkerPC
    BY DEF FailRun, CompleteWrite, CrashWorker, Drop, TypeOK, WorkerPC
  <1>4. \/ pc[w] = "failRun" /\ run' = "DEAD_LETTERED"
        \/ pc[w] = "completeWrite" /\ run' = loc[w].verdict
        \/ w \in Crashing /\ run' = run
    BY DEF FailRun, CompleteWrite, CrashWorker, rowVars
  <1>5. run' \in RunStatus
    BY <1>4, Typing DEF TypeOK, RunStatus, Locals
  <1>6. cur(w)' = 1
    BY <1>2, ReturnEffect DEF cur, NoLocals
  <1> QED
    BY <1>1, <1>2, <1>3, <1>4, <1>5, <1>6, ReturnEffect, GotoEffect DEF TypeOK, WorkerFrame

\* What the SELECT of completeWorkflowRun does.
LEMMA CompleteReadEffect ==
    ASSUME TypeOK, NEW w \in Owners, CompleteRead(w)
    PROVE  /\ pc[w] = "complete" /\ pc'[w] = "completeWrite"
           /\ loc'[w].verdict = RunVerdict
           /\ WorkerFrame(w) /\ UNCHANGED rowVars
           /\ TypeOK'
  <1>1. /\ pc[w] = "complete" /\ Goto(w, "completeWrite") /\ "completeWrite" \in WorkerPC
        /\ UNCHANGED <<lease, clock, rowVars, tok, item>>
        /\ loc' = [loc EXCEPT ![w].verdict = RunVerdict]
    BY DEF CompleteRead, WorkerPC
  <1>2. RunVerdict \in RunStatus
    BY DEF RunVerdict, RunStatus
  <1>3. /\ loc' \in [Owners -> Locals] /\ loc'[w].verdict = RunVerdict
        /\ \A v \in Owners : v # w => loc'[v] = loc[v]
    BY <1>1, <1>2 DEF TypeOK, Locals
  <1> QED
    BY <1>1, <1>3, GotoEffect DEF TypeOK, WorkerFrame, rowVars

\* What the SELECT of retryDeadLetterFromCheckpoint does.
LEMMA RetrySelectEffect ==
    ASSUME TypeOK, NEW o \in Operators, NEW d \in ItemIds, RetrySelect(o, d)
    PROVE  /\ pc[o] = "idle" /\ pc'[o] = "resetStep"
           /\ item'[o] = d /\ dead[d] = "OPEN"
           /\ OperatorFrame(o) /\ UNCHANGED rowVars
           /\ TypeOK'
  <1>1. /\ pc[o] = "idle" /\ Goto(o, "resetStep") /\ "resetStep" \in OperatorPC
        /\ dead[d] = "OPEN" /\ item' = [item EXCEPT ![o] = d]
        /\ UNCHANGED <<lease, clock, rowVars, tok, loc>>
    BY DEF RetrySelect, OperatorPC
  <1> QED
    BY <1>1, GotoEffect DEF TypeOK, OperatorFrame, rowVars

\* What resolveDeadLetter does.
LEMMA ResolveEffect ==
    ASSUME TypeOK, NEW o \in Operators, NEW d \in ItemIds, ResolveDeadLetter(o, d)
    PROVE  /\ pc[o] = "idle" /\ dead[d] # "NONE" /\ dead'[d] = "RESOLVED"
           /\ \A e \in ItemIds : e # d => dead'[e] = dead[e]
           /\ UNCHANGED <<step, run, attempts, pc, loc, item>>
           /\ TypeOK'
  <1>1. "RESOLVED" \in ItemStatus
    BY DEF ItemStatus
  <1> QED
    BY <1>1 DEF ResolveDeadLetter, TypeOK, localVars

\* What retryDeadLetterFromCheckpoint's UPDATE of the step does.
LEMMA ResetStepEffect ==
    ASSUME TypeOK, NEW o \in Operators, RetryResetStep(o)
    PROVE  /\ pc[o] = "resetStep" /\ pc'[o] = "resetRun" /\ item' = item
           /\ step'[item[o][1]].status = "PENDING"
           /\ step'[item[o][1]].attempt = step[item[o][1]].attempt
           /\ OtherStepsKept(item[o][1])
           /\ OperatorFrame(o) /\ UNCHANGED <<run, dead>>
           /\ TypeOK'
  <1>1. /\ pc[o] = "resetStep" /\ Goto(o, "resetRun") /\ "resetRun" \in OperatorPC
        /\ step' = [step EXCEPT ![item[o][1]].status = "PENDING"]
        /\ UNCHANGED <<lease, clock, run, attempts, dead, localVars>>
    BY DEF RetryResetStep, OperatorPC, SetStatus
  <1>2. item[o][1] \in Steps /\ "PENDING" \in StepStatus
    BY Typing DEF StepStatus
  <1>3. step' \in [Steps -> StepRow] /\ OtherStepsKept(item[o][1])
    BY <1>1, <1>2 DEF TypeOK, StepRow, OtherStepsKept
  <1>4. /\ step'[item[o][1]].status = "PENDING"
        /\ step'[item[o][1]].attempt = step[item[o][1]].attempt
    BY <1>1, <1>2 DEF TypeOK, StepRow
  <1> QED
    BY <1>1, <1>3, <1>4, GotoEffect DEF TypeOK, OperatorFrame, localVars

\* What its UPDATE of the run does.
LEMMA ResetRunEffect ==
    ASSUME TypeOK, NEW o \in Operators, RetryResetRun(o)
    PROVE  /\ pc[o] = "resetRun" /\ pc'[o] = "mark" /\ item' = item /\ run' = "RETRYING"
           /\ OperatorFrame(o) /\ UNCHANGED <<step, dead>>
           /\ TypeOK'
  <1>1. /\ pc[o] = "resetRun" /\ Goto(o, "mark") /\ "mark" \in OperatorPC
        /\ run' = "RETRYING" /\ "RETRYING" \in RunStatus
        /\ UNCHANGED <<lease, clock, step, attempts, dead, localVars>>
    BY DEF RetryResetRun, OperatorPC, RunStatus
  <1> QED
    BY <1>1, GotoEffect DEF TypeOK, OperatorFrame, localVars

\* What its UPDATE of the dead letter does.
LEMMA MarkEffect ==
    ASSUME TypeOK, NEW o \in Operators, RetryMark(o)
    PROVE  /\ pc[o] = "mark" /\ pc'[o] = "idle"
           /\ dead'[item[o]] = "RETRYING"
           /\ \A d \in ItemIds : d # item[o] => dead'[d] = dead[d]
           /\ OperatorFrame(o) /\ UNCHANGED <<step, run>>
           /\ TypeOK'
  <1>1. /\ pc[o] = "mark" /\ Goto(o, "idle") /\ "idle" \in OperatorPC
        /\ dead' = [dead EXCEPT ![item[o]] = "RETRYING"] /\ "RETRYING" \in ItemStatus
        /\ item' = [item EXCEPT ![o] = NoItem]
        /\ UNCHANGED <<lease, clock, step, run, attempts, tok, loc>>
    BY DEF RetryMark, OperatorPC, ItemStatus
  <1>2. dead' \in [ItemIds -> ItemStatus] /\ item' \in [Operators -> ItemIds]
    BY <1>1, LocalsType DEF TypeOK
  <1>3. /\ dead'[item[o]] = "RETRYING"
        /\ \A d \in ItemIds : d # item[o] => dead'[d] = dead[d]
        /\ \A p \in Operators : p # o => item'[p] = item[p]
    BY <1>1, Typing DEF TypeOK
  <1> QED
    BY <1>1, <1>2, <1>3, GotoEffect DEF TypeOK, OperatorFrame

\* What an operator's death does.
LEMMA CrashOperatorEffect ==
    ASSUME TypeOK, NEW o \in Operators, CrashOperator(o)
    PROVE  /\ o \in Crashing /\ pc'[o] = "idle"
           /\ OperatorFrame(o) /\ UNCHANGED rowVars
           /\ TypeOK'
  <1>1. /\ o \in Crashing /\ Goto(o, "idle") /\ "idle" \in OperatorPC
        /\ item' = [item EXCEPT ![o] = NoItem]
        /\ UNCHANGED <<lease, clock, rowVars, tok, loc>>
    BY DEF CrashOperator, OperatorPC
  <1> QED
    BY <1>1, LocalsType, GotoEffect DEF TypeOK, OperatorFrame, rowVars

\* The passing of time changes no row.
LEMMA ElapseEffect ==
    ASSUME TypeOK, Elapse \/ UNCHANGED vars
    PROVE  UNCHANGED <<step, run, attempts, dead, pc, loc, item>> /\ TypeOK'
  <1>1. UNCHANGED <<step, run, attempts, dead, pc, loc, item, tok, lease>>
    BY DEF Elapse, Tick, vars, rowVars, localVars
  <1>2. clock' \in 0..MaxTime
    BY StepsAssumption DEF Elapse, Tick, vars, TypeOK
  <1> QED
    BY <1>1, <1>2 DEF TypeOK

\* Every statement keeps the types of the rows and of the local variables.
LEMMA TypeStep ==
    ASSUME IInv, [Next]_vars
    PROVE  TypeOK'
  <1> USE DEF IInv
  <1>1. ASSUME NEW w \in Owners, Start(w) \/ Work(w) \/ CrashWorker(w)
        PROVE  TypeOK'
    <2>1. CASE Start(w)
      BY <2>1, StartEffect
    <2>2. CASE EnsureStep(w)
      BY <2>2, EnsureEffect
    <2>3. CASE AcquireLease(w)
      BY <2>3, AcquireEffect
    <2>4. CASE PickStep(w)
      BY <2>4, PickEffect
    <2>5. CASE ClaimStep(w)
      BY <2>5, ClaimEffect
    <2>6. CASE CommitStep(w) \/ RecordStepSuccess(w)
      BY <2>6, OutcomeEffect
    <2>7. ASSUME NEW e \in ErrorClasses, FailSelect(w, e) PROVE TypeOK'
      BY <2>7, FailSelectEffect
    <2>8. CASE FailUpdate(w)
      BY <2>8, FailUpdateEffect
    <2>9. CASE FailInsert(w)
      BY <2>9, FailInsertEffect
    <2>10. CASE FailDead(w)
      BY <2>10, FailDeadEffect
    <2>11. CASE FailRun(w) \/ CompleteWrite(w) \/ CrashWorker(w)
      BY <2>11, EndEffect
    <2>12. CASE CompleteRead(w)
      BY <2>12, CompleteReadEffect
    <2> QED
      BY <1>1, <2>1, <2>2, <2>3, <2>4, <2>5, <2>6, <2>7, <2>8, <2>9, <2>10, <2>11, <2>12
      DEF Work
  <1>2. ASSUME NEW o \in Operators, Operate(o) \/ CrashOperator(o)
        PROVE  TypeOK'
    <2>1. ASSUME NEW d \in ItemIds, RetrySelect(o, d) PROVE TypeOK'
      BY <2>1, RetrySelectEffect
    <2>2. ASSUME NEW d \in ItemIds, ResolveDeadLetter(o, d) PROVE TypeOK'
      BY <2>2, ResolveEffect
    <2>3. CASE RetryResetStep(o)
      BY <2>3, ResetStepEffect
    <2>4. CASE RetryResetRun(o)
      BY <2>4, ResetRunEffect
    <2>5. CASE RetryMark(o)
      BY <2>5, MarkEffect
    <2>6. CASE CrashOperator(o)
      BY <2>6, CrashOperatorEffect
    <2> QED
      BY <1>2, <2>1, <2>2, <2>3, <2>4, <2>5, <2>6
      DEF Operate
  <1>3. CASE Elapse \/ UNCHANGED vars
    BY <1>3, ElapseEffect
  <1> QED
    BY <1>1, <1>2, <1>3 DEF Next

\* No statement deletes a row of workflow_steps or lowers its attempt counter.
RowsGrow ==
    \A s \in Steps : /\ step[s].status # "ABSENT" => step'[s].status # "ABSENT"
                    /\ step'[s].attempt >= step[s].attempt

\* Every step of workers and operators keeps the rows so.
LEMMA RowsOnlyGrow ==
    ASSUME IInv, [Next]_vars
    PROVE  RowsGrow
  <1> USE DEF IInv
  <1> USE DEF RowsGrow
  <1>1. ASSUME NEW w \in Owners, Start(w) \/ Work(w) \/ CrashWorker(w)
        PROVE  RowsGrow
    <2>1. CASE Start(w)
      <3>1. step' = step
        BY <2>1, StartEffect DEF rowVars
      <3> QED
        BY <3>1, Typing
    <2>2. CASE EnsureStep(w)
      BY <2>2, EnsureEffect, Typing
      DEF OtherStepsKept, WorkerFrame
    <2>3. CASE AcquireLease(w)
      <3>1. step' = step
        BY <2>3, AcquireEffect DEF rowVars
      <3> QED
        BY <3>1, Typing
    <2>4. CASE PickStep(w)
      <3>1. step' = step
        BY <2>4, PickEffect DEF rowVars
      <3> QED
        BY <3>1, Typing
    <2>5. CASE ClaimStep(w)
      BY <2>5, ClaimEffect, Typing
      DEF OtherStepsKept, WorkerFrame
    <2>6. CASE CommitStep(w) \/ RecordStepSuccess(w)
      BY <2>6, OutcomeEffect, Typing
      DEF OtherStepsKept, WorkerFrame
    <2>7. ASSUME NEW e \in ErrorClasses, FailSelect(w, e) PROVE RowsGrow
      <3>1. step' = step
        BY <2>7, FailSelectEffect DEF rowVars
      <3> QED
        BY <3>1, Typing
    <2>8. CASE FailUpdate(w)
      BY <2>8, FailUpdateEffect, Typing
      DEF OtherStepsKept, WorkerFrame
    <2>9. CASE FailInsert(w)
      <3>1. step' = step
        BY <2>9, FailInsertEffect
      <3> QED
        BY <3>1, Typing
    <2>10. CASE FailDead(w)
      <3>1. step' = step
        BY <2>10, FailDeadEffect
      <3> QED
        BY <3>1, Typing
    <2>11. CASE FailRun(w) \/ CompleteWrite(w) \/ CrashWorker(w)
      <3>1. step' = step
        BY <2>11, EndEffect
      <3> QED
        BY <3>1, Typing
    <2>12. CASE CompleteRead(w)
      <3>1. step' = step
        BY <2>12, CompleteReadEffect DEF rowVars
      <3> QED
        BY <3>1, Typing
    <2> QED
      BY <1>1, <2>1, <2>2, <2>3, <2>4, <2>5, <2>6, <2>7, <2>8, <2>9, <2>10, <2>11, <2>12
      DEF Work
  <1>2. ASSUME NEW o \in Operators, Operate(o) \/ CrashOperator(o)
        PROVE  RowsGrow
    <2>1. ASSUME NEW d \in ItemIds, RetrySelect(o, d) PROVE RowsGrow
      <3>1. step' = step
        BY <2>1, RetrySelectEffect DEF rowVars
      <3> QED
        BY <3>1, Typing
    <2>2. ASSUME NEW d \in ItemIds, ResolveDeadLetter(o, d) PROVE RowsGrow
      <3>1. step' = step
        BY <2>2, ResolveEffect
      <3> QED
        BY <3>1, Typing
    <2>3. CASE RetryResetStep(o)
      BY <2>3, ResetStepEffect, Typing
      DEF OtherStepsKept, OperatorFrame
    <2>4. CASE RetryResetRun(o)
      <3>1. step' = step
        BY <2>4, ResetRunEffect
      <3> QED
        BY <3>1, Typing
    <2>5. CASE RetryMark(o)
      <3>1. step' = step
        BY <2>5, MarkEffect
      <3> QED
        BY <3>1, Typing
    <2>6. CASE CrashOperator(o)
      <3>1. step' = step
        BY <2>6, CrashOperatorEffect DEF rowVars
      <3> QED
        BY <3>1, Typing
    <2> QED
      BY <1>2, <2>1, <2>2, <2>3, <2>4, <2>5, <2>6
      DEF Operate
  <1>3. CASE Elapse \/ UNCHANGED vars
    BY <1>3, ElapseEffect, Typing
  <1> QED
    BY <1>1, <1>2, <1>3 DEF Next

\* A worker past ensureWorkflowSteps finds a row for every step.
LEMMA RowsExistStep ==
    ASSUME IInv, [Next]_vars
    PROVE  RowsExist'
  <1> USE DEF IInv
  <1>1. ASSUME NEW w \in Owners, Start(w) \/ Work(w) \/ CrashWorker(w)
        PROVE  RowsExist'
    <2>1. CASE Start(w)
      <3>1. \A s \in Steps : ~(s < 1)
        BY StepsAssumption DEF Steps
      <3> QED
        BY <2>1, <3>1, StartEffect DEF RowsExist, cur, WorkerFrame, rowVars
    <2>2. CASE EnsureStep(w)
      <3>1. \A s \in Steps : s <= cur(w) => step'[s].status # "ABSENT"
        <4>1. step'[cur(w)].status # "ABSENT"
          BY <2>2, EnsureEffect
        <4>2. \A s \in Steps : s <= cur(w) => s < cur(w) \/ s = cur(w)
          BY Typing DEF Steps
        <4> QED
          BY <2>2, <4>1, <4>2, EnsureEffect, RowsOnlyGrow DEF RowsGrow, RowsExist
      <3>2. /\ pc'[w] = "ensure" => \A s \in Steps : s < cur(w)' => step'[s].status # "ABSENT"
            /\ pc'[w] = "ready" => \A s \in Steps : step'[s].status # "ABSENT"
            /\ pc'[w] \in {"ensure", "ready"}
        <4>1. \A s \in Steps : s < cur(w) + 1 => s <= cur(w)
          BY Typing DEF Steps
        <4>2. cur(w) = NSteps => \A s \in Steps : s <= cur(w)
          BY StepsAssumption DEF Steps
        <4> QED
          BY <2>2, <3>1, <4>1, <4>2, EnsureEffect
      <3>3. \A v \in Owners : v # w => pc'[v] = pc[v] /\ loc'[v] = loc[v]
        BY <2>2, EnsureEffect DEF WorkerFrame
      <3> QED
        BY <3>2, <3>3, RowsOnlyGrow DEF RowsGrow, RowsExist, cur
    <2>3. CASE AcquireLease(w)
      BY <2>3, AcquireEffect, Typing, RowsOnlyGrow
      DEF RowsGrow, RowsExist, cur, WorkerFrame, rowVars
    <2>4. CASE PickStep(w)
      BY <2>4, PickEffect, Typing, RowsOnlyGrow
      DEF RowsGrow, RowsExist, cur, WorkerFrame, rowVars
    <2>5. CASE ClaimStep(w)
      BY <2>5, ClaimEffect, Typing, RowsOnlyGrow
      DEF RowsGrow, RowsExist, cur, WorkerFrame
    <2>6. CASE CommitStep(w) \/ RecordStepSuccess(w)
      BY <2>6, OutcomeEffect, Typing, RowsOnlyGrow
      DEF RowsGrow, RowsExist, cur, WorkerFrame
    <2>7. ASSUME NEW e \in ErrorClasses, FailSelect(w, e) PROVE RowsExist'
      BY <2>7, FailSelectEffect, Typing, RowsOnlyGrow
      DEF RowsGrow, RowsExist, cur, WorkerFrame, rowVars
    <2>8. CASE FailUpdate(w)
      BY <2>8, FailUpdateEffect, Typing, RowsOnlyGrow
      DEF RowsGrow, RowsExist, cur, WorkerFrame
    <2>9. CASE FailInsert(w)
      BY <2>9, FailInsertEffect, Typing, RowsOnlyGrow
      DEF RowsGrow, RowsExist, cur, WorkerFrame
    <2>10. CASE FailDead(w)
      BY <2>10, FailDeadEffect, Typing, RowsOnlyGrow
      DEF RowsGrow, RowsExist, cur, WorkerFrame
    <2>11. CASE FailRun(w) \/ CompleteWrite(w) \/ CrashWorker(w)
      BY <2>11, EndEffect, Typing, RowsOnlyGrow
      DEF RowsGrow, RowsExist, cur, WorkerFrame
    <2>12. CASE CompleteRead(w)
      BY <2>12, CompleteReadEffect, Typing, RowsOnlyGrow
      DEF RowsGrow, RowsExist, cur, WorkerFrame, rowVars
    <2> QED
      BY <1>1, <2>1, <2>2, <2>3, <2>4, <2>5, <2>6, <2>7, <2>8, <2>9, <2>10, <2>11, <2>12
      DEF Work
  <1>2. ASSUME NEW o \in Operators, Operate(o) \/ CrashOperator(o)
        PROVE  RowsExist'
    <2>1. ASSUME NEW d \in ItemIds, RetrySelect(o, d) PROVE RowsExist'
      BY <2>1, RetrySelectEffect, Typing, RowsOnlyGrow
      DEF RowsGrow, RowsExist, cur, OperatorFrame, rowVars
    <2>2. ASSUME NEW d \in ItemIds, ResolveDeadLetter(o, d) PROVE RowsExist'
      BY <2>2, ResolveEffect, Typing, RowsOnlyGrow
      DEF RowsGrow, RowsExist, cur, OperatorFrame
    <2>3. CASE RetryResetStep(o)
      BY <2>3, ResetStepEffect, Typing, RowsOnlyGrow
      DEF RowsGrow, RowsExist, cur, OperatorFrame
    <2>4. CASE RetryResetRun(o)
      BY <2>4, ResetRunEffect, Typing, RowsOnlyGrow
      DEF RowsGrow, RowsExist, cur, OperatorFrame
    <2>5. CASE RetryMark(o)
      BY <2>5, MarkEffect, Typing, RowsOnlyGrow
      DEF RowsGrow, RowsExist, cur, OperatorFrame
    <2>6. CASE CrashOperator(o)
      BY <2>6, CrashOperatorEffect, Typing, RowsOnlyGrow
      DEF RowsGrow, RowsExist, cur, OperatorFrame, rowVars
    <2> QED
      BY <1>2, <2>1, <2>2, <2>3, <2>4, <2>5, <2>6
      DEF Operate
  <1>3. CASE Elapse \/ UNCHANGED vars
    BY <1>3, ElapseEffect DEF RowsGrow, RowsExist, cur
  <1> QED
    BY <1>1, <1>2, <1>3 DEF Next

\* No statement takes a dead letter off the queue.
ItemsKept ==
    \A d \in ItemIds : dead[d] # "NONE" => dead'[d] # "NONE"

\* Every step of workers and operators keeps the items so.
LEMMA ItemsStay ==
    ASSUME IInv, [Next]_vars
    PROVE  ItemsKept
  <1> USE DEF IInv
  <1> USE DEF ItemsKept
  <1>1. ASSUME NEW w \in Owners, Start(w) \/ Work(w) \/ CrashWorker(w)
        PROVE  ItemsKept
    <2>1. CASE Start(w)
      BY <2>1, StartEffect DEF rowVars
    <2>2. CASE EnsureStep(w)
      BY <2>2, EnsureEffect
    <2>3. CASE AcquireLease(w)
      BY <2>3, AcquireEffect DEF rowVars
    <2>4. CASE PickStep(w)
      BY <2>4, PickEffect DEF rowVars
    <2>5. CASE ClaimStep(w)
      BY <2>5, ClaimEffect
    <2>6. CASE CommitStep(w) \/ RecordStepSuccess(w)
      BY <2>6, OutcomeEffect
    <2>7. ASSUME NEW e \in ErrorClasses, FailSelect(w, e) PROVE ItemsKept
      BY <2>7, FailSelectEffect DEF rowVars
    <2>8. CASE FailUpdate(w)
      BY <2>8, FailUpdateEffect
    <2>9. CASE FailInsert(w)
      BY <2>9, FailInsertEffect
    <2>10. CASE FailDead(w)
      BY <2>10, FailDeadEffect
    <2>11. CASE FailRun(w) \/ CompleteWrite(w) \/ CrashWorker(w)
      BY <2>11, EndEffect
    <2>12. CASE CompleteRead(w)
      BY <2>12, CompleteReadEffect DEF rowVars
    <2> QED
      BY <1>1, <2>1, <2>2, <2>3, <2>4, <2>5, <2>6, <2>7, <2>8, <2>9, <2>10, <2>11, <2>12
      DEF Work
  <1>2. ASSUME NEW o \in Operators, Operate(o) \/ CrashOperator(o)
        PROVE  ItemsKept
    <2>1. ASSUME NEW d \in ItemIds, RetrySelect(o, d) PROVE ItemsKept
      BY <2>1, RetrySelectEffect DEF rowVars
    <2>2. ASSUME NEW d \in ItemIds, ResolveDeadLetter(o, d) PROVE ItemsKept
      BY <2>2, ResolveEffect
    <2>3. CASE RetryResetStep(o)
      BY <2>3, ResetStepEffect
    <2>4. CASE RetryResetRun(o)
      BY <2>4, ResetRunEffect
    <2>5. CASE RetryMark(o)
      BY <2>5, MarkEffect
    <2>6. CASE CrashOperator(o)
      BY <2>6, CrashOperatorEffect DEF rowVars
    <2> QED
      BY <1>2, <2>1, <2>2, <2>3, <2>4, <2>5, <2>6
      DEF Operate
  <1>3. CASE Elapse \/ UNCHANGED vars
    BY <1>3, ElapseEffect
  <1> QED
    BY <1>1, <1>2, <1>3 DEF Next

\* A step without a dead letter never had one.
LEMMA GuardedBefore ==
    ASSUME IInv, [Next]_vars, NEW s \in Steps
    PROVE  (Unlisted(s)' => Unlisted(s)) /\ (Guarded(s)' => Guarded(s))
  BY ItemsStay DEF ItemsKept, Unlisted, Guarded, Reliable

\* The executor of a guarded step is the owner its row names.
LEMMA OneExecutor ==
    ASSUME IInv, NEW s \in Steps, Guarded(s), NEW v \in Owners, NEW w \in Owners,
           Executes(v, s), Executes(w, s)
    PROVE  v = w /\ step[s].status = "RUNNING"
  BY DEF IInv, ExecutorOwnsStep, Executes

\* An operator resets a guarded step only while it is a dead letter whose item
\* waits for it.
LEMMA ResetsDeadLetters ==
    ASSUME IInv, NEW o \in Operators, pc[o] = "resetStep", Guarded(item[o][1])
    PROVE  /\ Reliable /\ Waiting(item[o])
           /\ step[item[o][1]].status = "DEAD_LETTERED"
  <1>1. item[o] \in ItemIds /\ dead[item[o]] # "NONE"
    BY Typing DEF IInv, DeadLettersAreOrderly
  <1>2. Reliable
    BY <1>1 DEF Guarded, Unlisted
  <1>3. dead[item[o]] = "OPEN"
    BY <1>2 DEF IInv, DeadLettersAreOrderly
  <1>4. Waiting(item[o])
    BY <1>2, <1>3 DEF Waiting, Reliable
  <1> QED
    BY <1>1, <1>2, <1>4 DEF IInv, DeadLettersAreOrderly

\* What may happen to the row of a guarded step: it is created, claimed, ended
\* by its executor, or reset by the operator its dead letter waits for.
Moves(s) ==
    \/ step'[s] = step[s]
    \/ step[s].status = "ABSENT" /\ step'[s].status = "PENDING"
    \/ step[s].status \in {"PENDING", "FAILED"} /\ step'[s].status = "RUNNING"
    \/ /\ step[s].status = "RUNNING"
       /\ step'[s].status \in {"COMPLETED", "FAILED", "DEAD_LETTERED"}
       /\ \E w \in Owners : Executes(w, s) /\ pc'[w] \notin {"exec", "failUpdate"}
    \/ /\ step[s].status = "DEAD_LETTERED" /\ step'[s].status = "PENDING"
       /\ Reliable
       /\ \E o \in Operators :
             pc[o] = "resetStep" /\ pc'[o] = "resetRun" /\ item'[o] = item[o] /\ item[o][1] = s

\* The row of a guarded step only changes in those ways.
LEMMA GuardedRows ==
    ASSUME IInv, [Next]_vars, NEW s \in Steps, Guarded(s)
    PROVE  Moves(s)
  <1> USE DEF IInv
  <1>1. ASSUME NEW w \in Owners, Start(w) \/ Work(w) \/ CrashWorker(w)
        PROVE  Moves(s)
    <2>1. CASE Start(w)
      BY <2>1, StartEffect DEF Moves, rowVars
    <2>2. CASE EnsureStep(w)
      BY <2>2, EnsureEffect, Typing
      DEF Moves, OtherStepsKept, WorkerFrame
    <2>3. CASE AcquireLease(w)
      BY <2>3, AcquireEffect DEF Moves, rowVars
    <2>4. CASE PickStep(w)
      BY <2>4, PickEffect DEF Moves, rowVars
    <2>5. CASE ClaimStep(w)
      BY <2>5, ClaimEffect, Typing
      DEF Moves, OtherStepsKept, WorkerFrame
    <2>6. CASE CommitStep(w) \/ RecordStepSuccess(w)
      <3>1. CASE cur(w) = s
        BY <2>6, <3>1, OutcomeEffect, OneExecutor, Typing DEF Moves, Executes
      <3>2. CASE cur(w) # s
        BY <2>6, <3>2, OutcomeEffect DEF Moves, OtherStepsKept
      <3> QED
        BY <3>1, <3>2
    <2>7. ASSUME NEW e \in ErrorClasses, FailSelect(w, e) PROVE Moves(s)
      BY <2>7, FailSelectEffect DEF Moves, rowVars
    <2>8. CASE FailUpdate(w)
      <3>1. CASE cur(w) = s
        BY <2>8, <3>1, FailUpdateEffect, OneExecutor, Typing DEF Moves, Executes
      <3>2. CASE cur(w) # s
        BY <2>8, <3>2, FailUpdateEffect DEF Moves, OtherStepsKept
      <3> QED
        BY <3>1, <3>2
    <2>9. CASE FailInsert(w)
      BY <2>9, FailInsertEffect DEF Moves
    <2>10. CASE FailDead(w)
      BY <2>10, FailDeadEffect DEF Moves
    <2>11. CASE FailRun(w) \/ CompleteWrite(w) \/ CrashWorker(w)
      BY <2>11, EndEffect DEF Moves
    <2>12. CASE CompleteRead(w)
      BY <2>12, CompleteReadEffect DEF Moves, rowVars
    <2> QED
      BY <1>1, <2>1, <2>2, <2>3, <2>4, <2>5, <2>6, <2>7, <2>8, <2>9, <2>10, <2>11, <2>12
      DEF Work
  <1>2. ASSUME NEW o \in Operators, Operate(o) \/ CrashOperator(o)
        PROVE  Moves(s)
    <2>1. ASSUME NEW d \in ItemIds, RetrySelect(o, d) PROVE Moves(s)
      BY <2>1, RetrySelectEffect DEF Moves, rowVars
    <2>2. ASSUME NEW d \in ItemIds, ResolveDeadLetter(o, d) PROVE Moves(s)
      BY <2>2, ResolveEffect DEF Moves
    <2>3. CASE RetryResetStep(o)
      <3>1. CASE item[o][1] = s
        BY <2>3, <3>1, ResetStepEffect, ResetsDeadLetters DEF Moves
      <3>2. CASE item[o][1] # s
        BY <2>3, <3>2, ResetStepEffect DEF Moves, OtherStepsKept
      <3> QED
        BY <3>1, <3>2
    <2>4. CASE RetryResetRun(o)
      BY <2>4, ResetRunEffect DEF Moves
    <2>5. CASE RetryMark(o)
      BY <2>5, MarkEffect DEF Moves
    <2>6. CASE CrashOperator(o)
      BY <2>6, CrashOperatorEffect DEF Moves, rowVars
    <2> QED
      BY <1>2, <2>1, <2>2, <2>3, <2>4, <2>5, <2>6
      DEF Operate
  <1>3. CASE Elapse \/ UNCHANGED vars
    BY <1>3, ElapseEffect DEF Moves
  <1> QED
    BY <1>1, <1>2, <1>3 DEF Next

\* A worker that executes a step did so before, or has just claimed it.
ExecutorsContinue ==
    \A v \in Owners : pc'[v] \in {"exec", "failUpdate"} =>
        \/ Executes(v, cur(v)')
        \/ step'[cur(v)'].status = "RUNNING" /\ step'[cur(v)'].owner = v

\* Every step continues executions so.
LEMMA ExecutorsBefore ==
    ASSUME IInv, [Next]_vars
    PROVE  ExecutorsContinue
  <1> USE DEF IInv
  <1> USE DEF ExecutorsContinue
  <1>1. ASSUME NEW w \in Owners, Start(w) \/ Work(w) \/ CrashWorker(w)
        PROVE  ExecutorsContinue
    <2>1. CASE Start(w)
      BY <2>1, StartEffect, Typing
      DEF Executes, cur, WorkerFrame, rowVars
    <2>2. CASE EnsureStep(w)
      BY <2>2, EnsureEffect, Typing
      DEF Executes, cur, WorkerFrame
    <2>3. CASE AcquireLease(w)
      BY <2>3, AcquireEffect, Typing
      DEF Executes, cur, WorkerFrame, rowVars
    <2>4. CASE PickStep(w)
      BY <2>4, PickEffect, Typing
      DEF Executes, cur, WorkerFrame, rowVars
    <2>5. CASE ClaimStep(w)
      BY <2>5, ClaimEffect, Typing
      DEF Executes, cur, WorkerFrame
    <2>6. CASE CommitStep(w) \/ RecordStepSuccess(w)
      BY <2>6, OutcomeEffect, Typing
      DEF Executes, cur, WorkerFrame
    <2>7. ASSUME NEW e \in ErrorClasses, FailSelect(w, e) PROVE ExecutorsContinue
      BY <2>7, FailSelectEffect, Typing
      DEF Executes, cur, WorkerFrame, rowVars
    <2>8. CASE FailUpdate(w)
      BY <2>8, FailUpdateEffect, Typing
      DEF Executes, cur, WorkerFrame
    <2>9. CASE FailInsert(w)
      BY <2>9, FailInsertEffect, Typing
      DEF Executes, cur, WorkerFrame
    <2>10. CASE FailDead(w)
      BY <2>10, FailDeadEffect, Typing
      DEF Executes, cur, WorkerFrame
    <2>11. CASE FailRun(w) \/ CompleteWrite(w) \/ CrashWorker(w)
      BY <2>11, EndEffect, Typing
      DEF Executes, cur, WorkerFrame
    <2>12. CASE CompleteRead(w)
      BY <2>12, CompleteReadEffect, Typing
      DEF Executes, cur, WorkerFrame, rowVars
    <2> QED
      BY <1>1, <2>1, <2>2, <2>3, <2>4, <2>5, <2>6, <2>7, <2>8, <2>9, <2>10, <2>11, <2>12
      DEF Work
  <1>2. ASSUME NEW o \in Operators, Operate(o) \/ CrashOperator(o)
        PROVE  ExecutorsContinue
    <2>1. ASSUME NEW d \in ItemIds, RetrySelect(o, d) PROVE ExecutorsContinue
      BY <2>1, RetrySelectEffect, Typing
      DEF Executes, cur, OperatorFrame, rowVars
    <2>2. ASSUME NEW d \in ItemIds, ResolveDeadLetter(o, d) PROVE ExecutorsContinue
      BY <2>2, ResolveEffect, Typing
      DEF Executes, cur, OperatorFrame
    <2>3. CASE RetryResetStep(o)
      BY <2>3, ResetStepEffect, Typing
      DEF Executes, cur, OperatorFrame
    <2>4. CASE RetryResetRun(o)
      BY <2>4, ResetRunEffect, Typing
      DEF Executes, cur, OperatorFrame
    <2>5. CASE RetryMark(o)
      BY <2>5, MarkEffect, Typing
      DEF Executes, cur, OperatorFrame
    <2>6. CASE CrashOperator(o)
      BY <2>6, CrashOperatorEffect, Typing
      DEF Executes, cur, OperatorFrame, rowVars
    <2> QED
      BY <1>2, <2>1, <2>2, <2>3, <2>4, <2>5, <2>6
      DEF Operate
  <1>3. CASE Elapse \/ UNCHANGED vars
    BY <1>3, ElapseEffect DEF Executes, cur
  <1> QED
    BY <1>1, <1>2, <1>3 DEF Next

\* The row of an executed step stays RUNNING in its executor's name.
LEMMA ExecutorOwnsStepStep ==
    ASSUME IInv, [Next]_vars
    PROVE  ExecutorOwnsStep'
  <1> SUFFICES ASSUME NEW v \in Owners, NEW s \in Steps, s = cur(v)',
                      pc'[v] \in {"exec", "failUpdate"}, Guarded(s)'
               PROVE  step'[s].status = "RUNNING" /\ step'[s].owner = v
    BY TypeStep DEF ExecutorOwnsStep, TypeOK, Locals, cur
  <1>2. Guarded(s)
    BY GuardedBefore
  <1>3. CASE Executes(v, s)
    <2>1. step[s].status = "RUNNING" /\ step[s].owner = v
      BY <1>2, <1>3 DEF IInv, ExecutorOwnsStep, Executes
    <2>2. ASSUME NEW w \in Owners, Executes(w, s) PROVE w = v
      BY <1>2, <1>3, <2>2, OneExecutor
    <2>3. Moves(s)
      BY <1>2, GuardedRows
    <2> QED
      BY <2>1, <2>2, <2>3 DEF Moves
  <1> QED
    BY <1>3, ExecutorsBefore DEF ExecutorsContinue

\* Where a worker that records a failure comes from.
FailuresContinue ==
    \A v \in Owners :
        /\ pc'[v] = "failUpdate" =>
              \/ pc[v] = "failUpdate" /\ loc'[v] = loc[v]
              \/ /\ pc[v] = "exec" /\ cur(v)' = cur(v)
                 /\ loc'[v].seen = step[cur(v)].attempt /\ loc'[v].err \in ErrorClasses
                 /\ step' = step
        /\ pc'[v] = "failInsert" =>
              /\ loc'[v] = loc[v]
              /\ \/ pc[v] = "failInsert"
                 \/ pc[v] = "failUpdate" /\ FailUpdate(v)
        /\ pc'[v] = "failDead" =>
              /\ loc'[v] = loc[v]
              /\ \/ pc[v] = "failDead"
                 \/ pc[v] = "failInsert" /\ Exhausted(v)

\* Every step continues the recording of failures so.
LEMMA FailuresBefore ==
    ASSUME IInv, [Next]_vars
    PROVE  FailuresContinue
  <1> USE DEF IInv
  <1> USE DEF FailuresContinue
  <1>1. ASSUME NEW w \in Owners, Start(w) \/ Work(w) \/ CrashWorker(w)
        PROVE  FailuresContinue
    <2>1. CASE Start(w)
      BY <2>1, StartEffect, Typing
      DEF cur, WorkerFrame, rowVars
    <2>2. CASE EnsureStep(w)
      BY <2>2, EnsureEffect, Typing
      DEF cur, WorkerFrame
    <2>3. CASE AcquireLease(w)
      BY <2>3, AcquireEffect, Typing
      DEF cur, WorkerFrame, rowVars
    <2>4. CASE PickStep(w)
      BY <2>4, PickEffect, Typing
      DEF cur, WorkerFrame, rowVars
    <2>5. CASE ClaimStep(w)
      BY <2>5, ClaimEffect, Typing
      DEF cur, WorkerFrame
    <2>6. CASE CommitStep(w) \/ RecordStepSuccess(w)
      BY <2>6, OutcomeEffect, Typing
      DEF cur, WorkerFrame
    <2>7. ASSUME NEW e \in ErrorClasses, FailSelect(w, e) PROVE FailuresContinue
      BY <2>7, FailSelectEffect, Typing
      DEF cur, WorkerFrame, rowVars
    <2>8. CASE FailUpdate(w)
      BY <2>8, FailUpdateEffect, Typing
      DEF cur, WorkerFrame
    <2>9. CASE FailInsert(w)
      BY <2>9, FailInsertEffect, Typing
      DEF cur, WorkerFrame
    <2>10. CASE FailDead(w)
      BY <2>10, FailDeadEffect, Typing
      DEF cur, WorkerFrame
    <2>11. CASE FailRun(w) \/ CompleteWrite(w) \/ CrashWorker(w)
      BY <2>11, EndEffect, Typing
      DEF cur, WorkerFrame
    <2>12. CASE CompleteRead(w)
      BY <2>12, CompleteReadEffect, Typing
      DEF cur, WorkerFrame, rowVars
    <2> QED
      BY <1>1, <2>1, <2>2, <2>3, <2>4, <2>5, <2>6, <2>7, <2>8, <2>9, <2>10, <2>11, <2>12
      DEF Work
  <1>2. ASSUME NEW o \in Operators, Operate(o) \/ CrashOperator(o)
        PROVE  FailuresContinue
    <2>1. ASSUME NEW d \in ItemIds, RetrySelect(o, d) PROVE FailuresContinue
      BY <2>1, RetrySelectEffect, Typing
      DEF cur, OperatorFrame, rowVars
    <2>2. ASSUME NEW d \in ItemIds, ResolveDeadLetter(o, d) PROVE FailuresContinue
      BY <2>2, ResolveEffect, Typing
      DEF cur, OperatorFrame
    <2>3. CASE RetryResetStep(o)
      BY <2>3, ResetStepEffect, Typing
      DEF cur, OperatorFrame
    <2>4. CASE RetryResetRun(o)
      BY <2>4, ResetRunEffect, Typing
      DEF cur, OperatorFrame
    <2>5. CASE RetryMark(o)
      BY <2>5, MarkEffect, Typing
      DEF cur, OperatorFrame
    <2>6. CASE CrashOperator(o)
      BY <2>6, CrashOperatorEffect, Typing
      DEF cur, OperatorFrame, rowVars
    <2> QED
      BY <1>2, <2>1, <2>2, <2>3, <2>4, <2>5, <2>6
      DEF Operate
  <1>3. CASE Elapse \/ UNCHANGED vars
    BY <1>3, ElapseEffect DEF cur
  <1> QED
    BY <1>1, <1>2, <1>3 DEF Next

\* The attempt column is changed by recordStepFailure alone.
AttemptsCounted ==
    \/ \A s \in Steps : step'[s].attempt = step[s].attempt
    \/ \E w \in Owners : FailUpdate(w)

\* Every step leaves the attempt column alone or is that UPDATE.
LEMMA AttemptCounts ==
    ASSUME IInv, [Next]_vars
    PROVE  AttemptsCounted
  <1> USE DEF IInv
  <1> USE DEF AttemptsCounted
  <1>1. ASSUME NEW w \in Owners, Start(w) \/ Work(w) \/ CrashWorker(w)
        PROVE  AttemptsCounted
    <2>1. CASE Start(w)
      BY <2>1, StartEffect, Typing
      DEF OtherStepsKept, WorkerFrame, rowVars
    <2>2. CASE EnsureStep(w)
      BY <2>2, EnsureEffect, Typing
      DEF OtherStepsKept, WorkerFrame
    <2>3. CASE AcquireLease(w)
      BY <2>3, AcquireEffect, Typing
      DEF OtherStepsKept, WorkerFrame, rowVars
    <2>4. CASE PickStep(w)
      BY <2>4, PickEffect, Typing
      DEF OtherStepsKept, WorkerFrame, rowVars
    <2>5. CASE ClaimStep(w)
      BY <2>5, ClaimEffect, Typing
      DEF OtherStepsKept, WorkerFrame
    <2>6. CASE CommitStep(w) \/ RecordStepSuccess(w)
      BY <2>6, OutcomeEffect, Typing
      DEF OtherStepsKept, WorkerFrame
    <2>7. ASSUME NEW e \in ErrorClasses, FailSelect(w, e) PROVE AttemptsCounted
      BY <2>7, FailSelectEffect, Typing
      DEF OtherStepsKept, WorkerFrame, rowVars
    <2>8. CASE FailUpdate(w)
      BY <2>8, FailUpdateEffect, Typing
      DEF OtherStepsKept, WorkerFrame
    <2>9. CASE FailInsert(w)
      BY <2>9, FailInsertEffect, Typing
      DEF OtherStepsKept, WorkerFrame
    <2>10. CASE FailDead(w)
      BY <2>10, FailDeadEffect, Typing
      DEF OtherStepsKept, WorkerFrame
    <2>11. CASE FailRun(w) \/ CompleteWrite(w) \/ CrashWorker(w)
      BY <2>11, EndEffect, Typing
      DEF OtherStepsKept, WorkerFrame
    <2>12. CASE CompleteRead(w)
      BY <2>12, CompleteReadEffect, Typing
      DEF OtherStepsKept, WorkerFrame, rowVars
    <2> QED
      BY <1>1, <2>1, <2>2, <2>3, <2>4, <2>5, <2>6, <2>7, <2>8, <2>9, <2>10, <2>11, <2>12
      DEF Work
  <1>2. ASSUME NEW o \in Operators, Operate(o) \/ CrashOperator(o)
        PROVE  AttemptsCounted
    <2>1. ASSUME NEW d \in ItemIds, RetrySelect(o, d) PROVE AttemptsCounted
      BY <2>1, RetrySelectEffect, Typing
      DEF OtherStepsKept, OperatorFrame, rowVars
    <2>2. ASSUME NEW d \in ItemIds, ResolveDeadLetter(o, d) PROVE AttemptsCounted
      BY <2>2, ResolveEffect, Typing
      DEF OtherStepsKept, OperatorFrame
    <2>3. CASE RetryResetStep(o)
      BY <2>3, ResetStepEffect, Typing
      DEF OtherStepsKept, OperatorFrame
    <2>4. CASE RetryResetRun(o)
      BY <2>4, ResetRunEffect, Typing
      DEF OtherStepsKept, OperatorFrame
    <2>5. CASE RetryMark(o)
      BY <2>5, MarkEffect, Typing
      DEF OtherStepsKept, OperatorFrame
    <2>6. CASE CrashOperator(o)
      BY <2>6, CrashOperatorEffect, Typing
      DEF OtherStepsKept, OperatorFrame, rowVars
    <2> QED
      BY <1>2, <2>1, <2>2, <2>3, <2>4, <2>5, <2>6
      DEF Operate
  <1>3. CASE Elapse \/ UNCHANGED vars
    BY <1>3, ElapseEffect DEF OtherStepsKept
  <1> QED
    BY <1>1, <1>2, <1>3 DEF Next

\* Rows of step_attempts are inserted one by one.
AttemptsInserted ==
    \/ attempts' = attempts
    \/ \E w \in Owners : FailInsert(w) /\ attempts' = attempts \cup {AttemptKey(w)}

\* Every step leaves step_attempts alone or is that INSERT.
LEMMA AttemptRows ==
    ASSUME IInv, [Next]_vars
    PROVE  AttemptsInserted
  <1> USE DEF IInv
  <1> USE DEF AttemptsInserted
  <1>1. ASSUME NEW w \in Owners, Start(w) \/ Work(w) \/ CrashWorker(w)
        PROVE  AttemptsInserted
    <2>1. CASE Start(w)
      BY <2>1, StartEffect, Typing
      DEF OtherStepsKept, WorkerFrame, rowVars
    <2>2. CASE EnsureStep(w)
      BY <2>2, EnsureEffect, Typing
      DEF OtherStepsKept, WorkerFrame
    <2>3. CASE AcquireLease(w)
      BY <2>3, AcquireEffect, Typing
      DEF OtherStepsKept, WorkerFrame, rowVars
    <2>4. CASE PickStep(w)
      BY <2>4, PickEffect, Typing
      DEF OtherStepsKept, WorkerFrame, rowVars
    <2>5. CASE ClaimStep(w)
      BY <2>5, ClaimEffect, Typing
      DEF OtherStepsKept, WorkerFrame
    <2>6. CASE CommitStep(w) \/ RecordStepSuccess(w)
      BY <2>6, OutcomeEffect, Typing
      DEF OtherStepsKept, WorkerFrame
    <2>7. ASSUME NEW e \in ErrorClasses, FailSelect(w, e) PROVE AttemptsInserted
      BY <2>7, FailSelectEffect, Typing
      DEF OtherStepsKept, WorkerFrame, rowVars
    <2>8. CASE FailUpdate(w)
      BY <2>8, FailUpdateEffect, Typing
      DEF OtherStepsKept, WorkerFrame
    <2>9. CASE FailInsert(w)
      BY <2>9, FailInsertEffect, Typing
      DEF OtherStepsKept, WorkerFrame
    <2>10. CASE FailDead(w)
      BY <2>10, FailDeadEffect, Typing
      DEF OtherStepsKept, WorkerFrame
    <2>11. CASE FailRun(w) \/ CompleteWrite(w) \/ CrashWorker(w)
      BY <2>11, EndEffect, Typing
      DEF OtherStepsKept, WorkerFrame
    <2>12. CASE CompleteRead(w)
      BY <2>12, CompleteReadEffect, Typing
      DEF OtherStepsKept, WorkerFrame, rowVars
    <2> QED
      BY <1>1, <2>1, <2>2, <2>3, <2>4, <2>5, <2>6, <2>7, <2>8, <2>9, <2>10, <2>11, <2>12
      DEF Work
  <1>2. ASSUME NEW o \in Operators, Operate(o) \/ CrashOperator(o)
        PROVE  AttemptsInserted
    <2>1. ASSUME NEW d \in ItemIds, RetrySelect(o, d) PROVE AttemptsInserted
      BY <2>1, RetrySelectEffect, Typing
      DEF OtherStepsKept, OperatorFrame, rowVars
    <2>2. ASSUME NEW d \in ItemIds, ResolveDeadLetter(o, d) PROVE AttemptsInserted
      BY <2>2, ResolveEffect, Typing
      DEF OtherStepsKept, OperatorFrame
    <2>3. CASE RetryResetStep(o)
      BY <2>3, ResetStepEffect, Typing
      DEF OtherStepsKept, OperatorFrame
    <2>4. CASE RetryResetRun(o)
      BY <2>4, ResetRunEffect, Typing
      DEF OtherStepsKept, OperatorFrame
    <2>5. CASE RetryMark(o)
      BY <2>5, MarkEffect, Typing
      DEF OtherStepsKept, OperatorFrame
    <2>6. CASE CrashOperator(o)
      BY <2>6, CrashOperatorEffect, Typing
      DEF OtherStepsKept, OperatorFrame, rowVars
    <2> QED
      BY <1>2, <2>1, <2>2, <2>3, <2>4, <2>5, <2>6
      DEF Operate
  <1>3. CASE Elapse \/ UNCHANGED vars
    BY <1>3, ElapseEffect DEF OtherStepsKept
  <1> QED
    BY <1>1, <1>2, <1>3 DEF Next

\* Recorded and pending failures keep numbers of their own.
LEMMA FailuresAreNumberedStep ==
    ASSUME IInv, [Next]_vars
    PROVE  FailuresAreNumbered'
  <1>1. TypeOK' /\ TypeOK
    BY TypeStep DEF IInv
  <1>2. ASSUME NEW k \in attempts' PROVE k[2] < step'[k[1]].attempt
    <2>1. k \in Steps \X Nat /\ k[1] \in Steps /\ k[2] \in Nat
      BY <1>1, <1>2 DEF TypeOK
    <2>2. k[2] < step[k[1]].attempt
      <3>1. CASE k \in attempts
        BY <3>1 DEF IInv, FailuresAreNumbered
      <3>2. CASE k \notin attempts
        <4>1. PICK w \in Owners : FailInsert(w) /\ attempts' = attempts \cup {AttemptKey(w)}
          BY <1>2, <3>2, AttemptRows DEF AttemptsInserted
        <4>2. k = AttemptKey(w) /\ pc[w] = "failInsert"
          BY <1>1, <1>2, <3>2, <4>1, FailInsertEffect
        <4> QED
          BY <4>2 DEF IInv, FailuresAreNumbered, AttemptKey
      <3> QED
        BY <3>1, <3>2
    <2> QED
      BY <1>1, <2>1, <2>2, RowsOnlyGrow, Typing DEF RowsGrow, TypeOK, StepRow
  <1>3. ASSUME NEW v \in Owners, pc'[v] = "failUpdate" PROVE loc'[v].seen <= step'[cur(v)'].attempt
    <2>1. CASE pc[v] = "failUpdate" /\ loc'[v] = loc[v]
      <3>1. loc[v].seen <= step[cur(v)].attempt /\ cur(v)' = cur(v) /\ cur(v) \in Steps
        BY <1>1, <2>1, Typing DEF IInv, FailuresAreNumbered, cur
      <3>2. step'[cur(v)].attempt >= step[cur(v)].attempt /\ step'[cur(v)].attempt \in Nat
        BY <1>1, <3>1, RowsOnlyGrow DEF RowsGrow, TypeOK, StepRow
      <3> QED
        BY <1>1, <2>1, <3>1, <3>2, Typing
    <2>2. CASE loc'[v].seen = step[cur(v)].attempt /\ cur(v)' = cur(v) /\ step' = step
      BY <1>1, <2>2, Typing
    <2> QED
      BY <1>3, <2>1, <2>2, FailuresBefore DEF FailuresContinue
  <1>4. ASSUME NEW v \in Owners, NEW s \in Steps, s = cur(v)', pc'[v] = "failUpdate", Guarded(s)'
        PROVE  loc'[v].seen = step'[s].attempt
    <2>1. Guarded(s)
      BY <1>4, GuardedBefore
    <2>2. CASE pc[v] = "failUpdate" /\ loc'[v] = loc[v]
      <3>1. loc[v].seen = step[s].attempt /\ cur(v) = s
        BY <1>4, <2>1, <2>2 DEF IInv, FailuresAreNumbered, cur
      <3>2. ASSUME NEW w \in Owners, FailUpdate(w), cur(w) = s PROVE FALSE
        <4>1. w = v
          BY <1>1, <2>1, <2>2, <3>1, <3>2, OneExecutor, FailUpdateEffect DEF Executes
        <4> QED
          BY <1>1, <1>4, <3>2, <4>1, FailUpdateEffect
      <3>3. step'[s].attempt = step[s].attempt
        BY <1>1, <3>2, AttemptCounts, FailUpdateEffect DEF AttemptsCounted, OtherStepsKept
      <3> QED
        BY <2>2, <3>1, <3>3
    <2>3. CASE loc'[v].seen = step[cur(v)].attempt /\ cur(v)' = cur(v) /\ step' = step
      BY <1>4, <2>3
    <2> QED
      BY <1>4, <2>2, <2>3, FailuresBefore DEF FailuresContinue
  <1>5. ASSUME NEW v \in Owners, pc'[v] = "failInsert" PROVE loc'[v].seen < step'[cur(v)'].attempt
    <2>1. loc'[v] = loc[v] /\ cur(v)' = cur(v) /\ cur(v) \in Steps /\ loc[v].seen \in Nat
      BY <1>1, <1>5, FailuresBefore, Typing DEF FailuresContinue, cur
    <2>2. /\ step'[cur(v)].attempt \in Nat /\ step[cur(v)].attempt \in Nat
          /\ step'[cur(v)].attempt >= step[cur(v)].attempt
      BY <1>1, <2>1, RowsOnlyGrow DEF RowsGrow, TypeOK, StepRow
    <2>3. CASE pc[v] = "failInsert"
      <3>1. loc[v].seen < step[cur(v)].attempt
        BY <2>3 DEF IInv, FailuresAreNumbered
      <3> QED
        BY <2>1, <2>2, <3>1
    <2>4. CASE pc[v] = "failUpdate" /\ FailUpdate(v)
      <3>1. loc[v].seen <= step[cur(v)].attempt
        BY <2>4 DEF IInv, FailuresAreNumbered
      <3>2. step'[cur(v)].attempt = step[cur(v)].attempt + 1
        BY <1>1, <2>4, FailUpdateEffect
      <3> QED
        BY <2>1, <2>2, <3>1, <3>2
    <2> QED
      BY <1>5, <2>3, <2>4, FailuresBefore DEF FailuresContinue
  <1>6. ASSUME NEW v \in Owners, NEW w \in Owners, NEW s \in Steps,
               pc'[v] = "failInsert", pc'[w] = "failInsert", Guarded(s)', s = cur(w)',
               AttemptKey(v)' = AttemptKey(w)'
        PROVE  v = w
    <2>1. /\ loc'[v] = loc[v] /\ loc'[w] = loc[w]
          /\ cur(v) = s /\ cur(w) = s /\ loc[v].seen = loc[w].seen
      BY <1>6, FailuresBefore DEF FailuresContinue, AttemptKey, cur
    <2>2. Guarded(s) /\ AttemptKey(v) = AttemptKey(w)
      BY <1>6, <2>1, GuardedBefore DEF AttemptKey
    <2>3. ASSUME NEW x \in Owners, NEW y \in Owners, FailUpdate(x), pc[y] = "failInsert",
                 cur(x) = s, cur(y) = s, loc[x].seen = loc[y].seen
          PROVE  FALSE
      <3>1. loc[x].seen = step[s].attempt /\ loc[y].seen < step[s].attempt
        BY <1>1, <2>2, <2>3, FailUpdateEffect DEF IInv, FailuresAreNumbered
      <3> QED
        BY <1>1, <2>3, <3>1, Typing
    <2>4. CASE pc[v] = "failInsert" /\ pc[w] = "failInsert"
      BY <2>1, <2>2, <2>4 DEF IInv, FailuresAreNumbered
    <2>5. CASE FailUpdate(v) /\ FailUpdate(w)
      <3>1. Executes(v, s) /\ Executes(w, s)
        BY <1>1, <2>1, <2>5, FailUpdateEffect DEF Executes
      <3> QED
        BY <2>2, <3>1, OneExecutor
    <2> QED
      BY <1>6, <2>1, <2>3, <2>4, <2>5, FailuresBefore DEF FailuresContinue
  <1>7. ASSUME NEW v \in Owners, NEW s \in Steps, s = cur(v)', pc'[v] = "failInsert", Guarded(s)'
        PROVE  AttemptKey(v)' \notin attempts'
    <2>1. /\ loc'[v] = loc[v] /\ cur(v) = s /\ AttemptKey(v)' = AttemptKey(v)
          /\ AttemptKey(v) = <<s, loc[v].seen>> /\ Guarded(s)
      BY <1>7, FailuresBefore, GuardedBefore DEF FailuresContinue, AttemptKey, cur
    <2>2. AttemptKey(v) \notin attempts
      <3>1. CASE pc[v] = "failInsert"
        BY <2>1, <3>1 DEF IInv, FailuresAreNumbered
      <3>2. CASE pc[v] = "failUpdate"
        <4>1. loc[v].seen = step[s].attempt
          BY <2>1, <3>2 DEF IInv, FailuresAreNumbered
        <4>2. ASSUME AttemptKey(v) \in attempts PROVE FALSE
          <5>1. loc[v].seen < step[s].attempt
            BY <2>1, <4>2 DEF IInv, FailuresAreNumbered
          <5> QED
            BY <1>1, <4>1, <5>1, Typing
        <4> QED
          BY <4>2
      <3> QED
        BY <1>7, <3>1, <3>2, FailuresBefore DEF FailuresContinue
    <2>3. ASSUME NEW w \in Owners, FailInsert(w), AttemptKey(w) = AttemptKey(v),
                 attempts' = attempts \cup {AttemptKey(w)}
          PROVE  FALSE
      <3>1. pc[w] = "failInsert" /\ pc'[w] # "failInsert" /\ cur(w) = s
        BY <1>1, <2>1, <2>3, FailInsertEffect DEF AttemptKey
      <3>2. pc[v] = "failInsert"
        <4>1. w # v /\ pc'[v] = pc[v]
          BY <1>1, <1>7, <2>3, <3>1, FailInsertEffect DEF WorkerFrame
        <4> QED
          BY <1>7, <4>1
      <3>3. v = w
        BY <2>1, <2>3, <3>1, <3>2 DEF IInv, FailuresAreNumbered
      <3> QED
        BY <1>7, <3>1, <3>3
    <2> QED
      BY <2>1, <2>2, <2>3, AttemptRows DEF AttemptsInserted
  <1>8. \A v \in Owners : cur(v)' \in Steps
    BY <1>1 DEF TypeOK, Locals, cur
  <1> QED
    BY <1>2, <1>3, <1>4, <1>5, <1>6, <1>7, <1>8 DEF FailuresAreNumbered

\* A worker that dead-letters its step did so before, or has just marked it.
LEMMA DeadLetteringBefore ==
    ASSUME IInv, [Next]_vars, NEW v \in Owners, DeadLettering(v)'
    PROVE  /\ loc'[v] = loc[v] /\ cur(v)' = cur(v)
           /\ \/ DeadLettering(v)
              \/ FailUpdate(v) /\ Exhausted(v)
  BY FailuresBefore DEF FailuresContinue, DeadLettering, Exhausted, cur

\* A dead letter that waits for the operator waited before, or is new.
WaitingContinues(d) ==
    Waiting(d) \/ \E w \in Owners : FailDead(w) /\ dead[d] = "NONE" /\ d[1] = cur(w)

\* Every step that leaves a dead letter waiting is so.
LEMMA WaitingBefore ==
    ASSUME IInv, [Next]_vars, Reliable, NEW d \in ItemIds, Waiting(d)'
    PROVE  WaitingContinues(d)
  <1> USE DEF IInv
  <1> USE DEF WaitingContinues
  <1>1. ASSUME NEW w \in Owners, Start(w) \/ Work(w) \/ CrashWorker(w)
        PROVE  WaitingContinues(d)
    <2>1. CASE Start(w)
      BY <2>1, StartEffect, Typing
      DEF Waiting, WorkerFrame, rowVars
    <2>2. CASE EnsureStep(w)
      BY <2>2, EnsureEffect, Typing
      DEF Waiting, WorkerFrame
    <2>3. CASE AcquireLease(w)
      BY <2>3, AcquireEffect, Typing
      DEF Waiting, WorkerFrame, rowVars
    <2>4. CASE PickStep(w)
      BY <2>4, PickEffect, Typing
      DEF Waiting, WorkerFrame, rowVars
    <2>5. CASE ClaimStep(w)
      BY <2>5, ClaimEffect, Typing
      DEF Waiting, WorkerFrame
    <2>6. CASE CommitStep(w) \/ RecordStepSuccess(w)
      BY <2>6, OutcomeEffect, Typing
      DEF Waiting, WorkerFrame
    <2>7. ASSUME NEW e \in ErrorClasses, FailSelect(w, e) PROVE WaitingContinues(d)
      BY <2>7, FailSelectEffect, Typing
      DEF Waiting, WorkerFrame, rowVars
    <2>8. CASE FailUpdate(w)
      BY <2>8, FailUpdateEffect, Typing
      DEF Waiting, WorkerFrame
    <2>9. CASE FailInsert(w)
      BY <2>9, FailInsertEffect, Typing
      DEF Waiting, WorkerFrame
    <2>10. CASE FailDead(w)
      <3>1. CASE d = <<cur(w), clock>>
        <4>1. d[1] = cur(w)
          BY <3>1
        <4> QED
          BY <2>10, <3>1, <4>1, FailDeadEffect DEF Waiting, WorkerFrame
      <3>2. CASE d # <<cur(w), clock>>
        BY <2>10, <3>2, FailDeadEffect DEF Waiting, WorkerFrame
      <3> QED
        BY <3>1, <3>2
    <2>11. CASE FailRun(w) \/ CompleteWrite(w) \/ CrashWorker(w)
      BY <2>11, EndEffect, Typing
      DEF Waiting, WorkerFrame
    <2>12. CASE CompleteRead(w)
      BY <2>12, CompleteReadEffect, Typing
      DEF Waiting, WorkerFrame, rowVars
    <2> QED
      BY <1>1, <2>1, <2>2, <2>3, <2>4, <2>5, <2>6, <2>7, <2>8, <2>9, <2>10, <2>11, <2>12
      DEF Work
  <1>2. ASSUME NEW o \in Operators, Operate(o) \/ CrashOperator(o)
        PROVE  WaitingContinues(d)
    <2>1. ASSUME NEW f \in ItemIds, RetrySelect(o, f) PROVE WaitingContinues(d)
      BY <2>1, RetrySelectEffect, Typing
      DEF Waiting, OperatorFrame, rowVars
    <2>2. ASSUME NEW f \in ItemIds, ResolveDeadLetter(o, f) PROVE WaitingContinues(d)
      BY <2>2, ResolveEffect, Typing
      DEF Waiting, OperatorFrame
    <2>3. CASE RetryResetStep(o)
      BY <2>3, ResetStepEffect, Typing
      DEF Waiting, OperatorFrame
    <2>4. CASE RetryResetRun(o)
      BY <2>4, ResetRunEffect, Typing
      DEF Waiting, OperatorFrame
    <2>5. CASE RetryMark(o)
      BY <2>5, MarkEffect, Typing
      DEF Waiting, OperatorFrame
    <2>6. CASE CrashOperator(o)
      BY <2>6, CrashOperatorEffect DEF Reliable
    <2> QED
      BY <1>2, <2>1, <2>2, <2>3, <2>4, <2>5, <2>6
      DEF Operate
  <1>3. CASE Elapse \/ UNCHANGED vars
    BY <1>3, ElapseEffect DEF Waiting
  <1> QED
    BY <1>1, <1>2, <1>3 DEF Next

\* An operator at work holds an item of the queue; alone, it holds an open one
\* until it has reset the step.
ItemsHeld ==
    \A p \in Operators :
        /\ pc'[p] # "idle" => dead'[item'[p]] # "NONE"
        /\ Reliable /\ pc'[p] = "resetStep" => dead'[item'[p]] = "OPEN"

\* Every step keeps the operators' hold on their items.
LEMMA OperatorsHoldItems ==
    ASSUME IInv, [Next]_vars
    PROVE  ItemsHeld
  <1> USE DEF IInv
  <1> USE DEF ItemsHeld
  <1>1. ASSUME NEW w \in Owners, Start(w) \/ Work(w) \/ CrashWorker(w)
        PROVE  ItemsHeld
    <2>1. CASE Start(w)
      BY <2>1, StartEffect, Typing, ItemsStay
      DEF ItemsKept, DeadLettersAreOrderly, Reliable, WorkerFrame, rowVars
    <2>2. CASE EnsureStep(w)
      BY <2>2, EnsureEffect, Typing, ItemsStay
      DEF ItemsKept, DeadLettersAreOrderly, Reliable, WorkerFrame
    <2>3. CASE AcquireLease(w)
      BY <2>3, AcquireEffect, Typing, ItemsStay
      DEF ItemsKept, DeadLettersAreOrderly, Reliable, WorkerFrame, rowVars
    <2>4. CASE PickStep(w)
      BY <2>4, PickEffect, Typing, ItemsStay
      DEF ItemsKept, DeadLettersAreOrderly, Reliable, WorkerFrame, rowVars
    <2>5. CASE ClaimStep(w)
      BY <2>5, ClaimEffect, Typing, ItemsStay
      DEF ItemsKept, DeadLettersAreOrderly, Reliable, WorkerFrame
    <2>6. CASE CommitStep(w) \/ RecordStepSuccess(w)
      BY <2>6, OutcomeEffect, Typing, ItemsStay
      DEF ItemsKept, DeadLettersAreOrderly, Reliable, WorkerFrame
    <2>7. ASSUME NEW e \in ErrorClasses, FailSelect(w, e) PROVE ItemsHeld
      BY <2>7, FailSelectEffect, Typing, ItemsStay
      DEF ItemsKept, DeadLettersAreOrderly, Reliable, WorkerFrame, rowVars
    <2>8. CASE FailUpdate(w)
      BY <2>8, FailUpdateEffect, Typing, ItemsStay
      DEF ItemsKept, DeadLettersAreOrderly, Reliable, WorkerFrame
    <2>9. CASE FailInsert(w)
      BY <2>9, FailInsertEffect, Typing, ItemsStay
      DEF ItemsKept, DeadLettersAreOrderly, Reliable, WorkerFrame
    <2>10. CASE FailDead(w)
      <3>1. \A d \in ItemIds : dead[d] # "NONE" => dead'[d] = dead[d]
        BY <2>10, FailDeadEffect
      <3>2. /\ \A p \in Operators : pc'[p] = pc[p] /\ item[p] \in ItemIds
            /\ item' = item
        BY <2>10, FailDeadEffect, Typing DEF WorkerFrame
      <3> QED
        BY <3>1, <3>2 DEF DeadLettersAreOrderly
    <2>11. CASE FailRun(w) \/ CompleteWrite(w) \/ CrashWorker(w)
      BY <2>11, EndEffect, Typing, ItemsStay
      DEF ItemsKept, DeadLettersAreOrderly, Reliable, WorkerFrame
    <2>12. CASE CompleteRead(w)
      BY <2>12, CompleteReadEffect, Typing, ItemsStay
      DEF ItemsKept, DeadLettersAreOrderly, Reliable, WorkerFrame, rowVars
    <2> QED
      BY <1>1, <2>1, <2>2, <2>3, <2>4, <2>5, <2>6, <2>7, <2>8, <2>9, <2>10, <2>11, <2>12
      DEF Work
  <1>2. ASSUME NEW o \in Operators, Operate(o) \/ CrashOperator(o)
        PROVE  ItemsHeld
    <2>1. ASSUME NEW d \in ItemIds, RetrySelect(o, d) PROVE ItemsHeld
      BY <2>1, RetrySelectEffect, Typing, ItemsStay
      DEF ItemsKept, DeadLettersAreOrderly, Reliable, OperatorFrame, rowVars
    <2>2. ASSUME NEW d \in ItemIds, ResolveDeadLetter(o, d) PROVE ItemsHeld
      BY <2>2, ResolveEffect, Typing, ItemsStay
      DEF ItemsKept, DeadLettersAreOrderly, Reliable, OperatorFrame
    <2>3. CASE RetryResetStep(o)
      BY <2>3, ResetStepEffect, Typing, ItemsStay
      DEF ItemsKept, DeadLettersAreOrderly, Reliable, OperatorFrame
    <2>4. CASE RetryResetRun(o)
      BY <2>4, ResetRunEffect, Typing, ItemsStay
      DEF ItemsKept, DeadLettersAreOrderly, Reliable, OperatorFrame
    <2>5. CASE RetryMark(o)
      BY <2>5, MarkEffect, Typing, ItemsStay
      DEF ItemsKept, DeadLettersAreOrderly, Reliable, OperatorFrame
    <2>6. CASE CrashOperator(o)
      BY <2>6, CrashOperatorEffect, Typing, ItemsStay
      DEF ItemsKept, DeadLettersAreOrderly, Reliable, OperatorFrame, rowVars
    <2> QED
      BY <1>2, <2>1, <2>2, <2>3, <2>4, <2>5, <2>6
      DEF Operate
  <1>3. CASE Elapse \/ UNCHANGED vars
    BY <1>3, ElapseEffect DEF ItemsKept, DeadLettersAreOrderly, Reliable
  <1> QED
    BY <1>1, <1>2, <1>3 DEF Next

\* Dead letters stay in one worker's hands, and then on the queue once.
LEMMA DeadLettersAreOrderlyStep ==
    ASSUME IInv, [Next]_vars
    PROVE  DeadLettersAreOrderly'
  <1>1. TypeOK' /\ TypeOK
    BY TypeStep DEF IInv
  <1>2. ASSUME NEW v \in Owners, NEW s \in Steps, s = cur(v)', DeadLettering(v)', Guarded(s)'
        PROVE  step'[s].status = "DEAD_LETTERED"
    <2>1. Guarded(s) /\ cur(v) = s
      BY <1>2, GuardedBefore, DeadLetteringBefore
    <2>2. CASE FailUpdate(v) /\ Exhausted(v)
      BY <1>1, <2>1, <2>2, FailUpdateEffect
    <2>3. CASE DeadLettering(v)
      <3>1. step[s].status = "DEAD_LETTERED"
        BY <2>1, <2>3 DEF IInv, DeadLettersAreOrderly
      <3>2. ASSUME NEW o \in Operators, pc[o] = "resetStep", item[o][1] = s PROVE FALSE
        <4>1. Reliable /\ Waiting(item[o]) /\ item[o] \in ItemIds
          BY <1>1, <2>1, <3>2, ResetsDeadLetters, Typing
        <4> QED
          BY <2>1, <2>3, <3>2, <4>1 DEF IInv, DeadLettersAreOrderly
      <3> QED
        BY <2>1, <3>1, <3>2, GuardedRows DEF Moves
    <2> QED
      BY <1>2, <2>2, <2>3, DeadLetteringBefore
  <1>3. ASSUME NEW v \in Owners, NEW w \in Owners, NEW s \in Steps, s = cur(w)', cur(v)' = s,
               DeadLettering(v)', DeadLettering(w)', Guarded(s)'
        PROVE  v = w
    <2>1. Guarded(s) /\ cur(v) = s /\ cur(w) = s
      BY <1>3, GuardedBefore, DeadLetteringBefore
    <2>2. ASSUME NEW x \in Owners, NEW y \in Owners, cur(x) = s, cur(y) = s,
                 FailUpdate(x), DeadLettering(y)
          PROVE  FALSE
      <3>1. Executes(x, s)
        BY <1>1, <2>2, FailUpdateEffect DEF Executes
      <3>2. step[s].status = "RUNNING"
        BY <2>1, <3>1, OneExecutor
      <3> QED
        BY <2>1, <2>2, <3>2 DEF IInv, DeadLettersAreOrderly
    <2>3. CASE DeadLettering(v) /\ DeadLettering(w)
      BY <2>1, <2>3 DEF IInv, DeadLettersAreOrderly
    <2>4. CASE FailUpdate(v) /\ FailUpdate(w)
      <3>1. Executes(v, s) /\ Executes(w, s)
        BY <1>1, <2>1, <2>4, FailUpdateEffect DEF Executes
      <3> QED
        BY <2>1, <3>1, OneExecutor
    <2> QED
      BY <1>3, <2>1, <2>2, <2>3, <2>4, DeadLetteringBefore
  <1>4. ASSUME Reliable, NEW d \in ItemIds, Waiting(d)'
        PROVE  /\ step'[d[1]].status = "DEAD_LETTERED"
               /\ \A w \in Owners : DeadLettering(w)' => cur(w)' # d[1]
    <2>1. d[1] \in Steps /\ Guarded(d[1])
      BY <1>1, <1>4, Typing DEF Guarded
    <2>2. CASE Waiting(d)
      <3>1. /\ step[d[1]].status = "DEAD_LETTERED"
            /\ \A w \in Owners : DeadLettering(w) => cur(w) # d[1]
        BY <1>4, <2>2 DEF IInv, DeadLettersAreOrderly
      <3>2. ASSUME NEW o \in Operators, pc[o] = "resetStep", pc'[o] = "resetRun",
                   item'[o] = item[o], item[o][1] = d[1]
            PROVE  FALSE
        <4>1. Waiting(item[o]) /\ item[o] \in ItemIds
          BY <1>1, <2>1, <3>2, ResetsDeadLetters, Typing
        <4>2. item[o] = d
          BY <1>4, <2>2, <3>2, <4>1 DEF IInv, DeadLettersAreOrderly
        <4> QED
          BY <1>4, <3>2, <4>2 DEF Waiting
      <3>3. step'[d[1]].status = "DEAD_LETTERED"
        BY <2>1, <3>1, <3>2, GuardedRows DEF Moves
      <3>4. ASSUME NEW w \in Owners, DeadLettering(w)', cur(w)' = d[1] PROVE FALSE
        <4>1. FailUpdate(w) /\ cur(w) = d[1]
          BY <3>1, <3>4, DeadLetteringBefore
        <4>2. Executes(w, d[1])
          BY <1>1, <4>1, FailUpdateEffect DEF Executes
        <4> QED
          BY <2>1, <3>1, <4>2, OneExecutor
      <3> QED
        BY <3>3, <3>4
    <2>3. ASSUME NEW w \in Owners, FailDead(w), d[1] = cur(w)
          PROVE  /\ step'[d[1]].status = "DEAD_LETTERED"
                 /\ \A v \in Owners : DeadLettering(v)' => cur(v)' # d[1]
      <3>1. DeadLettering(w) /\ ~DeadLettering(w)' /\ step' = step
        BY <1>1, <2>3, FailDeadEffect DEF DeadLettering
      <3>2. step[d[1]].status = "DEAD_LETTERED"
        BY <2>1, <2>3, <3>1 DEF IInv, DeadLettersAreOrderly
      <3>3. ASSUME NEW v \in Owners, DeadLettering(v)', cur(v)' = d[1] PROVE FALSE
        <4>1. ~FailUpdate(v)
          BY <1>1, <2>3, <3>3, <3>1, FailDeadEffect, FailUpdateEffect DEF WorkerFrame
        <4>2. DeadLettering(v) /\ cur(v) = d[1]
          BY <3>3, <4>1, DeadLetteringBefore
        <4>3. v = w
          BY <2>1, <2>3, <3>1, <4>2 DEF IInv, DeadLettersAreOrderly
        <4> QED
          BY <3>1, <3>3, <4>3
      <3> QED
        BY <3>1, <3>2, <3>3
    <2> QED
      BY <1>4, <2>2, <2>3, WaitingBefore DEF WaitingContinues
  <1>5. ASSUME Reliable, NEW d \in ItemIds, NEW e \in ItemIds, Waiting(d)', Waiting(e)', d[1] = e[1]
        PROVE  d = e
    <2>1. ASSUME NEW w \in Owners, NEW f \in ItemIds, FailDead(w), f[1] = cur(w), Waiting(f)
          PROVE  FALSE
      <3>1. DeadLettering(w)
        BY <1>1, <2>1, FailDeadEffect DEF DeadLettering
      <3> QED
        BY <1>5, <2>1, <3>1 DEF IInv, DeadLettersAreOrderly
    <2>2. CASE Waiting(d) /\ Waiting(e)
      BY <1>5, <2>2 DEF IInv, DeadLettersAreOrderly
    <2>3. ASSUME NEW w \in Owners, FailDead(w), dead[d] = "NONE", d[1] = cur(w), ~Waiting(e)
          PROVE  d = e
      <3>1. PICK v \in Owners : FailDead(v) /\ dead[e] = "NONE"
        BY <1>5, <2>3, WaitingBefore DEF WaitingContinues
      <3>2. dead'[e] # "NONE" /\ dead'[d] # "NONE"
        BY <1>5 DEF Waiting
      <3>3. e = <<cur(w), clock>> /\ d = <<cur(w), clock>>
        BY <1>1, <2>3, <3>1, <3>2, FailDeadEffect
      <3> QED
        BY <3>3
    <2> QED
      BY <1>5, <2>1, <2>2, <2>3, WaitingBefore DEF WaitingContinues
  <1>6. \A v \in Owners : cur(v)' \in Steps
    BY <1>1 DEF TypeOK, Locals, cur
  <1>7. Reliable' <=> Reliable
    BY DEF Reliable
  <1> QED
    BY <1>2, <1>3, <1>4, <1>5, <1>6, <1>7, OperatorsHoldItems DEF ItemsHeld, DeadLettersAreOrderly

\* What is COMPLETED stays as it is when the dead letters are in reliable hands.
LEMMA CompletedStays ==
    ASSUME IInv, [Next]_vars, Reliable, NEW s \in Steps, step[s].status = "COMPLETED"
    PROVE  step'[s] = step[s]
  BY GuardedRows DEF Moves, Guarded

\* A worker about to write the run's status has just judged the steps, or had
\* judged them before.
VerdictContinues(v) ==
    \/ pc[v] = "completeWrite" /\ loc'[v].verdict = loc[v].verdict
    \/ loc'[v].verdict = RunVerdict /\ CompleteRead(v)

\* Every step that leads to the write of a verdict is so.
LEMMA VerdictsBefore ==
    ASSUME IInv, [Next]_vars,
           NEW v \in Owners, pc'[v] = "completeWrite"
    PROVE  VerdictContinues(v)
  <1> USE DEF IInv
  <1> USE DEF VerdictContinues
  <1>1. ASSUME NEW w \in Owners, Start(w) \/ Work(w) \/ CrashWorker(w)
        PROVE  VerdictContinues(v)
    <2>1. CASE Start(w)
      BY <2>1, StartEffect, Typing
      DEF Executes, WorkerFrame, rowVars
    <2>2. CASE EnsureStep(w)
      BY <2>2, EnsureEffect, Typing
      DEF Executes, WorkerFrame
    <2>3. CASE AcquireLease(w)
      BY <2>3, AcquireEffect, Typing
      DEF Executes, WorkerFrame, rowVars
    <2>4. CASE PickStep(w)
      BY <2>4, PickEffect, Typing
      DEF Executes, WorkerFrame, rowVars
    <2>5. CASE ClaimStep(w)
      BY <2>5, ClaimEffect, Typing
      DEF Executes, WorkerFrame
    <2>6. CASE CommitStep(w) \/ RecordStepSuccess(w)
      BY <2>6, OutcomeEffect, Typing
      DEF Executes, WorkerFrame
    <2>7. ASSUME NEW e \in ErrorClasses, FailSelect(w, e) PROVE VerdictContinues(v)
      BY <2>7, FailSelectEffect, Typing
      DEF Executes, WorkerFrame, rowVars
    <2>8. CASE FailUpdate(w)
      BY <2>8, FailUpdateEffect, Typing
      DEF Executes, WorkerFrame
    <2>9. CASE FailInsert(w)
      BY <2>9, FailInsertEffect, Typing
      DEF Executes, WorkerFrame
    <2>10. CASE FailDead(w)
      BY <2>10, FailDeadEffect, Typing
      DEF Executes, WorkerFrame
    <2>11. CASE FailRun(w) \/ CompleteWrite(w) \/ CrashWorker(w)
      BY <2>11, EndEffect, Typing
      DEF Executes, WorkerFrame
    <2>12. CASE CompleteRead(w)
      BY <2>12, CompleteReadEffect, Typing
      DEF Executes, WorkerFrame, rowVars
    <2> QED
      BY <1>1, <2>1, <2>2, <2>3, <2>4, <2>5, <2>6, <2>7, <2>8, <2>9, <2>10, <2>11, <2>12
      DEF Work
  <1>2. ASSUME NEW o \in Operators, Operate(o) \/ CrashOperator(o)
        PROVE  VerdictContinues(v)
    <2>1. ASSUME NEW d \in ItemIds, RetrySelect(o, d) PROVE VerdictContinues(v)
      BY <2>1, RetrySelectEffect, Typing
      DEF Executes, OperatorFrame, rowVars
    <2>2. ASSUME NEW d \in ItemIds, ResolveDeadLetter(o, d) PROVE VerdictContinues(v)
      BY <2>2, ResolveEffect, Typing
      DEF Executes, OperatorFrame
    <2>3. CASE RetryResetStep(o)
      BY <2>3, ResetStepEffect, Typing
      DEF Executes, OperatorFrame
    <2>4. CASE RetryResetRun(o)
      BY <2>4, ResetRunEffect, Typing
      DEF Executes, OperatorFrame
    <2>5. CASE RetryMark(o)
      BY <2>5, MarkEffect, Typing
      DEF Executes, OperatorFrame
    <2>6. CASE CrashOperator(o)
      BY <2>6, CrashOperatorEffect, Typing
      DEF Executes, OperatorFrame, rowVars
    <2> QED
      BY <1>2, <2>1, <2>2, <2>3, <2>4, <2>5, <2>6
      DEF Operate
  <1>3. CASE Elapse \/ UNCHANGED vars
    BY <1>3, ElapseEffect DEF Executes
  <1> QED
    BY <1>1, <1>2, <1>3 DEF Next

\* A run becomes COMPLETED by completeWorkflowRun alone.
CompletionWritten ==
    \/ run' = run \/ run' # "COMPLETED"
    \/ \E v \in Owners : pc[v] = "completeWrite" /\ run' = loc[v].verdict

\* Every step that completes the run is so.
LEMMA RunWrites ==
    ASSUME IInv, [Next]_vars
    PROVE  CompletionWritten
  <1> USE DEF IInv
  <1> USE DEF CompletionWritten
  <1>1. ASSUME NEW w \in Owners, Start(w) \/ Work(w) \/ CrashWorker(w)
        PROVE  CompletionWritten
    <2>1. CASE Start(w)
      BY <2>1, StartEffect, Typing
      DEF Executes, WorkerFrame, rowVars
    <2>2. CASE EnsureStep(w)
      BY <2>2, EnsureEffect, Typing
      DEF Executes, WorkerFrame
    <2>3. CASE AcquireLease(w)
      BY <2>3, AcquireEffect, Typing
      DEF Executes, WorkerFrame, rowVars
    <2>4. CASE PickStep(w)
      BY <2>4, PickEffect, Typing
      DEF Executes, WorkerFrame, rowVars
    <2>5. CASE ClaimStep(w)
      BY <2>5, ClaimEffect, Typing
      DEF Executes, WorkerFrame
    <2>6. CASE CommitStep(w) \/ RecordStepSuccess(w)
      BY <2>6, OutcomeEffect, Typing
      DEF Executes, WorkerFrame
    <2>7. ASSUME NEW e \in ErrorClasses, FailSelect(w, e) PROVE CompletionWritten
      BY <2>7, FailSelectEffect, Typing
      DEF Executes, WorkerFrame, rowVars
    <2>8. CASE FailUpdate(w)
      BY <2>8, FailUpdateEffect, Typing
      DEF Executes, WorkerFrame
    <2>9. CASE FailInsert(w)
      BY <2>9, FailInsertEffect, Typing
      DEF Executes, WorkerFrame
    <2>10. CASE FailDead(w)
      BY <2>10, FailDeadEffect, Typing
      DEF Executes, WorkerFrame
    <2>11. CASE FailRun(w) \/ CompleteWrite(w) \/ CrashWorker(w)
      BY <2>11, EndEffect, Typing
      DEF Executes, WorkerFrame
    <2>12. CASE CompleteRead(w)
      BY <2>12, CompleteReadEffect, Typing
      DEF Executes, WorkerFrame, rowVars
    <2> QED
      BY <1>1, <2>1, <2>2, <2>3, <2>4, <2>5, <2>6, <2>7, <2>8, <2>9, <2>10, <2>11, <2>12
      DEF Work
  <1>2. ASSUME NEW o \in Operators, Operate(o) \/ CrashOperator(o)
        PROVE  CompletionWritten
    <2>1. ASSUME NEW d \in ItemIds, RetrySelect(o, d) PROVE CompletionWritten
      BY <2>1, RetrySelectEffect, Typing
      DEF Executes, OperatorFrame, rowVars
    <2>2. ASSUME NEW d \in ItemIds, ResolveDeadLetter(o, d) PROVE CompletionWritten
      BY <2>2, ResolveEffect, Typing
      DEF Executes, OperatorFrame
    <2>3. CASE RetryResetStep(o)
      BY <2>3, ResetStepEffect, Typing
      DEF Executes, OperatorFrame
    <2>4. CASE RetryResetRun(o)
      BY <2>4, ResetRunEffect, Typing
      DEF Executes, OperatorFrame
    <2>5. CASE RetryMark(o)
      BY <2>5, MarkEffect, Typing
      DEF Executes, OperatorFrame
    <2>6. CASE CrashOperator(o)
      BY <2>6, CrashOperatorEffect, Typing
      DEF Executes, OperatorFrame, rowVars
    <2> QED
      BY <1>2, <2>1, <2>2, <2>3, <2>4, <2>5, <2>6
      DEF Operate
  <1>3. CASE Elapse \/ UNCHANGED vars
    BY <1>3, ElapseEffect DEF Executes
  <1> QED
    BY <1>1, <1>2, <1>3 DEF Next

\* A verdict stays right until it is written, and afterwards.
LEMMA VerdictHoldsStep ==
    ASSUME IInv, [Next]_vars
    PROVE  VerdictHolds'
  <1> SUFFICES ASSUME Reliable
               PROVE  /\ \A w \in Owners :
                            pc'[w] = "completeWrite" /\ loc'[w].verdict = "COMPLETED" =>
                                \A s \in Steps : step'[s].status = "COMPLETED"
                      /\ CompletedRunIsComplete'
    BY DEF VerdictHolds, Reliable
  <1>1. TypeOK
    BY DEF IInv
  <1>2. ASSUME \A s \in Steps : step[s].status = "COMPLETED"
        PROVE  \A s \in Steps : step'[s].status = "COMPLETED"
    BY <1>2, CompletedStays
  <1>3. ASSUME NEW w \in Owners, pc'[w] = "completeWrite", loc'[w].verdict = "COMPLETED"
        PROVE  \A s \in Steps : step'[s].status = "COMPLETED"
    <2>1. CASE pc[w] = "completeWrite" /\ loc[w].verdict = "COMPLETED"
      BY <1>2, <2>1 DEF IInv, VerdictHolds
    <2>2. CASE RunVerdict = "COMPLETED" /\ CompleteRead(w)
      <3>1. \A s \in Steps : step[s].status # "ABSENT"
        BY <1>1, <2>2, CompleteReadEffect DEF IInv, RowsExist
      <3>2. \A s \in Steps : step[s].status = "COMPLETED"
        BY <2>2, <3>1 DEF RunVerdict
      <3> QED
        BY <1>2, <3>2
    <2> QED
      BY <1>3, <2>1, <2>2, VerdictsBefore DEF VerdictContinues
  <1>4. CompletedRunIsComplete'
    <2>1. CASE run = "COMPLETED"
      BY <1>2, <2>1 DEF IInv, VerdictHolds, CompletedRunIsComplete
    <2>2. ASSUME NEW v \in Owners, pc[v] = "completeWrite", loc[v].verdict = "COMPLETED"
          PROVE  CompletedRunIsComplete'
      BY <1>2, <2>2 DEF IInv, VerdictHolds, CompletedRunIsComplete
    <2> QED
      BY <2>1, <2>2, RunWrites DEF CompletionWritten, CompletedRunIsComplete
  <1> QED
    BY <1>3, <1>4

\* A step is marked as a dead letter by the failure that exhausts its retries.
LetterMarked ==
    \A s \in Steps : step'[s].status = "DEAD_LETTERED" =>
        \/ step[s].status = "DEAD_LETTERED"
        \/ \E w \in Owners : FailUpdate(w) /\ Exhausted(w) /\ cur(w) = s

\* Every step that marks a dead letter is so.
LEMMA DeadLettersMarked ==
    ASSUME IInv, [Next]_vars
    PROVE  LetterMarked
  <1> USE DEF IInv
  <1> USE DEF LetterMarked
  <1>1. ASSUME NEW w \in Owners, Start(w) \/ Work(w) \/ CrashWorker(w)
        PROVE  LetterMarked
    <2>1. CASE Start(w)
      BY <2>1, StartEffect, Typing
      DEF OtherStepsKept, WorkerFrame, rowVars
    <2>2. CASE EnsureStep(w)
      BY <2>2, EnsureEffect, Typing
      DEF OtherStepsKept, WorkerFrame
    <2>3. CASE AcquireLease(w)
      BY <2>3, AcquireEffect, Typing
      DEF OtherStepsKept, WorkerFrame, rowVars
    <2>4. CASE PickStep(w)
      BY <2>4, PickEffect, Typing
      DEF OtherStepsKept, WorkerFrame, rowVars
    <2>5. CASE ClaimStep(w)
      BY <2>5, ClaimEffect, Typing
      DEF OtherStepsKept, WorkerFrame
    <2>6. CASE CommitStep(w) \/ RecordStepSuccess(w)
      BY <2>6, OutcomeEffect, Typing
      DEF OtherStepsKept, WorkerFrame
    <2>7. ASSUME NEW e \in ErrorClasses, FailSelect(w, e) PROVE LetterMarked
      BY <2>7, FailSelectEffect, Typing
      DEF OtherStepsKept, WorkerFrame, rowVars
    <2>8. CASE FailUpdate(w)
      BY <2>8, FailUpdateEffect, Typing
      DEF OtherStepsKept, WorkerFrame
    <2>9. CASE FailInsert(w)
      BY <2>9, FailInsertEffect, Typing
      DEF OtherStepsKept, WorkerFrame
    <2>10. CASE FailDead(w)
      BY <2>10, FailDeadEffect, Typing
      DEF OtherStepsKept, WorkerFrame
    <2>11. CASE FailRun(w) \/ CompleteWrite(w) \/ CrashWorker(w)
      BY <2>11, EndEffect, Typing
      DEF OtherStepsKept, WorkerFrame
    <2>12. CASE CompleteRead(w)
      BY <2>12, CompleteReadEffect, Typing
      DEF OtherStepsKept, WorkerFrame, rowVars
    <2> QED
      BY <1>1, <2>1, <2>2, <2>3, <2>4, <2>5, <2>6, <2>7, <2>8, <2>9, <2>10, <2>11, <2>12
      DEF Work
  <1>2. ASSUME NEW o \in Operators, Operate(o) \/ CrashOperator(o)
        PROVE  LetterMarked
    <2>1. ASSUME NEW d \in ItemIds, RetrySelect(o, d) PROVE LetterMarked
      BY <2>1, RetrySelectEffect, Typing
      DEF OtherStepsKept, OperatorFrame, rowVars
    <2>2. ASSUME NEW d \in ItemIds, ResolveDeadLetter(o, d) PROVE LetterMarked
      BY <2>2, ResolveEffect, Typing
      DEF OtherStepsKept, OperatorFrame
    <2>3. CASE RetryResetStep(o)
      BY <2>3, ResetStepEffect, Typing
      DEF OtherStepsKept, OperatorFrame
    <2>4. CASE RetryResetRun(o)
      BY <2>4, ResetRunEffect, Typing
      DEF OtherStepsKept, OperatorFrame
    <2>5. CASE RetryMark(o)
      BY <2>5, MarkEffect, Typing
      DEF OtherStepsKept, OperatorFrame
    <2>6. CASE CrashOperator(o)
      BY <2>6, CrashOperatorEffect, Typing
      DEF OtherStepsKept, OperatorFrame, rowVars
    <2> QED
      BY <1>2, <2>1, <2>2, <2>3, <2>4, <2>5, <2>6
      DEF Operate
  <1>3. CASE Elapse \/ UNCHANGED vars
    BY <1>3, ElapseEffect DEF OtherStepsKept
  <1> QED
    BY <1>1, <1>2, <1>3 DEF Next

\* A worker that dead-letters its step goes on until the item is there.
LEMMA ListerGoesOn ==
    ASSUME IInv, [Next]_vars,
           NEW v \in Owners, DeadLettering(v), v \notin Crashing,
           NEW s \in Steps, cur(v) = s, Unlisted(s)'
    PROVE  DeadLettering(v)' /\ cur(v)' = s
  <1> USE DEF IInv
  <1>1. ASSUME NEW w \in Owners, Start(w) \/ Work(w) \/ CrashWorker(w)
        PROVE  DeadLettering(v)' /\ cur(v)' = s
    <2>1. CASE Start(w)
      BY <2>1, StartEffect, Typing
      DEF DeadLettering, Exhausted, cur, WorkerFrame, rowVars
    <2>2. CASE EnsureStep(w)
      BY <2>2, EnsureEffect, Typing
      DEF DeadLettering, Exhausted, cur, WorkerFrame
    <2>3. CASE AcquireLease(w)
      BY <2>3, AcquireEffect, Typing
      DEF DeadLettering, Exhausted, cur, WorkerFrame, rowVars
    <2>4. CASE PickStep(w)
      BY <2>4, PickEffect, Typing
      DEF DeadLettering, Exhausted, cur, WorkerFrame, rowVars
    <2>5. CASE ClaimStep(w)
      BY <2>5, ClaimEffect, Typing
      DEF DeadLettering, Exhausted, cur, WorkerFrame
    <2>6. CASE CommitStep(w) \/ RecordStepSuccess(w)
      BY <2>6, OutcomeEffect, Typing
      DEF DeadLettering, Exhausted, cur, WorkerFrame
    <2>7. ASSUME NEW e \in ErrorClasses, FailSelect(w, e) PROVE DeadLettering(v)' /\ cur(v)' = s
      BY <2>7, FailSelectEffect, Typing
      DEF DeadLettering, Exhausted, cur, WorkerFrame, rowVars
    <2>8. CASE FailUpdate(w)
      BY <2>8, FailUpdateEffect, Typing
      DEF DeadLettering, Exhausted, cur, WorkerFrame
    <2>9. CASE FailInsert(w)
      <3>1. CASE v # w
        BY <2>9, <3>1, FailInsertEffect DEF DeadLettering, Exhausted, cur, WorkerFrame
      <3>2. CASE v = w
        <4>1. AttemptKey(v) \notin attempts /\ Exhausted(v)
          BY <2>9, <3>2, FailInsertEffect, GuardedBefore
          DEF FailuresAreNumbered, Guarded, DeadLettering
        <4> QED
          BY <2>9, <3>2, <4>1, FailInsertEffect DEF DeadLettering, cur
      <3> QED
        BY <3>1, <3>2
    <2>10. CASE FailDead(w)
      <3>1. CASE v # w
        BY <2>10, <3>1, FailDeadEffect DEF DeadLettering, Exhausted, cur, WorkerFrame
      <3>2. CASE v = w
        <4>1. <<s, clock>> \in ItemIds /\ dead'[<<s, clock>>] # "NONE"
          BY <2>10, <3>2, FailDeadEffect
        <4> QED
          BY <2>10, <4>1, FailDeadEffect DEF Unlisted, cur, WorkerFrame
      <3> QED
        BY <3>1, <3>2
    <2>11. CASE FailRun(w) \/ CompleteWrite(w) \/ CrashWorker(w)
      BY <2>11, EndEffect, Typing
      DEF DeadLettering, Exhausted, cur, WorkerFrame
    <2>12. CASE CompleteRead(w)
      BY <2>12, CompleteReadEffect, Typing
      DEF DeadLettering, Exhausted, cur, WorkerFrame, rowVars
    <2> QED
      BY <1>1, <2>1, <2>2, <2>3, <2>4, <2>5, <2>6, <2>7, <2>8, <2>9, <2>10, <2>11, <2>12
      DEF Work
  <1>2. ASSUME NEW o \in Operators, Operate(o) \/ CrashOperator(o)
        PROVE  DeadLettering(v)' /\ cur(v)' = s
    <2>1. ASSUME NEW d \in ItemIds, RetrySelect(o, d) PROVE DeadLettering(v)' /\ cur(v)' = s
      BY <2>1, RetrySelectEffect, Typing
      DEF DeadLettering, Exhausted, cur, OperatorFrame, rowVars
    <2>2. ASSUME NEW d \in ItemIds, ResolveDeadLetter(o, d) PROVE DeadLettering(v)' /\ cur(v)' = s
      BY <2>2, ResolveEffect, Typing
      DEF DeadLettering, Exhausted, cur, OperatorFrame
    <2>3. CASE RetryResetStep(o)
      BY <2>3, ResetStepEffect, Typing
      DEF DeadLettering, Exhausted, cur, OperatorFrame
    <2>4. CASE RetryResetRun(o)
      BY <2>4, ResetRunEffect, Typing
      DEF DeadLettering, Exhausted, cur, OperatorFrame
    <2>5. CASE RetryMark(o)
      BY <2>5, MarkEffect, Typing
      DEF DeadLettering, Exhausted, cur, OperatorFrame
    <2>6. CASE CrashOperator(o)
      BY <2>6, CrashOperatorEffect, Typing
      DEF DeadLettering, Exhausted, cur, OperatorFrame, rowVars
    <2> QED
      BY <1>2, <2>1, <2>2, <2>3, <2>4, <2>5, <2>6
      DEF Operate
  <1>3. CASE Elapse \/ UNCHANGED vars
    BY <1>3, ElapseEffect DEF DeadLettering, Exhausted, cur
  <1> QED
    BY <1>1, <1>2, <1>3 DEF Next

\* A failure counts against the retries of its class, whatever the classes of
\* the failures before it were.
LEMMA RetriesLeftStep ==
    ASSUME IInv, [Next]_vars
    PROVE  RetriesLeft'
  <1> DEFINE Left(st, n) == \E e \in ErrorClasses :
                 IF st = "DEAD_LETTERED" THEN n <= MaxAttempts(e) ELSE n < MaxAttempts(e)
  <1>1. TypeOK' /\ TypeOK
    BY TypeStep DEF IInv
  <1>2. ASSUME NEW v \in Owners, pc'[v] \in {"failUpdate", "failInsert"}
        PROVE  loc'[v].err \in ErrorClasses
    BY <1>1, <1>2, FailuresBefore DEF FailuresContinue, IInv, RetriesLeft
  <1>3. ASSUME NEW s \in Steps, Unlisted(s)' PROVE Left(step'[s].status, step'[s].attempt)
    <2>1. Unlisted(s) /\ Guarded(s)
      BY <1>3, GuardedBefore DEF Guarded
    <2>2. Left(step[s].status, step[s].attempt)
      BY <2>1 DEF IInv, RetriesLeft
    <2>3. ASSUME NEW w \in Owners, FailUpdate(w), cur(w) = s
          PROVE  Left(step'[s].status, step'[s].attempt)
      <3>1. /\ step'[s].status = IF Exhausted(w) THEN "DEAD_LETTERED" ELSE "FAILED"
            /\ step'[s].attempt = step[s].attempt + 1 /\ step[s].attempt \in Nat
        BY <1>1, <2>3, FailUpdateEffect, Typing
      <3>2. step[s].status = "RUNNING" /\ loc[w].seen = step[s].attempt
        BY <1>1, <2>1, <2>3, FailUpdateEffect, OneExecutor
        DEF IInv, FailuresAreNumbered, Executes
      <3>3. loc[w].err \in ErrorClasses /\ loc[w].err \in AllErrorClasses
        BY <1>1, <2>3, FailUpdateEffect, StepsAssumption DEF IInv, RetriesLeft
      <3>4. CASE Exhausted(w)
        <4>1. PICK e \in ErrorClasses : step[s].attempt < MaxAttempts(e)
          BY <2>2, <3>2
        <4>2. MaxAttempts(e) \in Nat
          BY NumberOfAttempts, StepsAssumption
        <4>3. step[s].attempt + 1 <= MaxAttempts(e)
          BY <3>1, <4>1, <4>2
        <4> QED
          BY <3>1, <3>4, <4>3
      <3>5. CASE ~Exhausted(w)
        <4>1. ~(step[s].attempt + 1 >= MaxAttempts(loc[w].err))
          BY <3>2, <3>5 DEF Exhausted, HasExhaustedRetries
        <4>2. step[s].attempt + 1 < MaxAttempts(loc[w].err)
          BY <3>1, <3>3, <4>1, NumberOfAttempts
        <4> QED
          BY <3>1, <3>3, <3>5, <4>2
      <3> QED
        BY <3>4, <3>5
    <2>4. ASSUME ~\E w \in Owners : FailUpdate(w) /\ cur(w) = s
          PROVE  Left(step'[s].status, step'[s].attempt)
      <3>1. step'[s].attempt = step[s].attempt
        BY <1>1, <2>4, AttemptCounts, FailUpdateEffect DEF AttemptsCounted, OtherStepsKept
      <3>2. step[s].status = "DEAD_LETTERED" => step'[s].status = "DEAD_LETTERED"
        <4>1. ~\E o \in Operators : pc[o] = "resetStep" /\ item[o][1] = s
          BY <1>1, <2>1, Typing DEF IInv, DeadLettersAreOrderly, Unlisted
        <4> QED
          BY <2>1, <4>1, GuardedRows DEF Moves
      <3>3. step[s].attempt \in Nat /\ \A e \in ErrorClasses : MaxAttempts(e) \in Nat
        BY <1>1, Typing, NumberOfAttempts, StepsAssumption
      <3> QED
        BY <2>2, <3>1, <3>2, <3>3
    <2> QED
      BY <2>3, <2>4
  <1> QED
    BY <1>2, <1>3 DEF RetriesLeft

\* When workers do not die, the item follows the mark.
LEMMA ListingGoesOnStep ==
    ASSUME IInv, [Next]_vars
    PROVE  ListingGoesOn'
  <1> SUFFICES ASSUME Owners \cap Crashing = {}, NEW s \in Steps,
                      step'[s].status = "DEAD_LETTERED", Unlisted(s)'
               PROVE  \E w \in Owners : DeadLettering(w)' /\ cur(w)' = s
    BY DEF ListingGoesOn
  <1>1. TypeOK' /\ TypeOK
    BY TypeStep DEF IInv
  <1>2. Unlisted(s) /\ Guarded(s)
    BY GuardedBefore DEF Guarded
  <1>3. CASE step[s].status = "DEAD_LETTERED"
    <2>1. PICK w \in Owners : DeadLettering(w) /\ cur(w) = s
      BY <1>2, <1>3 DEF IInv, ListingGoesOn
    <2>2. DeadLettering(w)' /\ cur(w)' = s
      BY <1>1, <1>2, <2>1, ListerGoesOn
    <2> QED
      BY <2>2
  <1>4. ASSUME step[s].status # "DEAD_LETTERED"
        PROVE  \E w \in Owners : FailUpdate(w) /\ Exhausted(w) /\ cur(w) = s
    BY <1>1, <1>4, DeadLettersMarked DEF LetterMarked
  <1>5. ASSUME NEW w \in Owners, FailUpdate(w), Exhausted(w), cur(w) = s
        PROVE  DeadLettering(w)' /\ cur(w)' = s
    BY <1>1, <1>5, FailUpdateEffect DEF DeadLettering, Exhausted, cur
  <1> QED
    BY <1>3, <1>4, <1>5

\* Before the first call nothing is claimed, recorded or listed.
LEMMA InitIInv == Init => IInv
  <1> SUFFICES ASSUME Init PROVE IInv
    OBVIOUS
  <1>1. /\ \A s \in Steps : step[s] = NoStep
        /\ \A p \in Owners \cup Operators : pc[p] = "idle"
        /\ \A w \in Owners : loc[w] = NoLocals
        /\ \A d \in ItemIds : dead[d] = "NONE"
        /\ attempts = {} /\ run = "PENDING"
    BY DEF Init
  <1>2. NoStep.status = "ABSENT" /\ NoStep.attempt = 0 /\ NoLocals.step = 1
    BY DEF NoStep, NoLocals
  <1>3. TypeOK
    <2>1. NoStep \in StepRow /\ NoLease \in LeaseRow
      BY DEF NoStep, StepRow, StepStatus, NoLease, LeaseRow
    <2>2. /\ "idle" \in WorkerPC /\ "idle" \in OperatorPC /\ "NONE" \in ItemStatus
          /\ "PENDING" \in RunStatus /\ 0 \in 0..MaxTime
      BY StepsAssumption DEF WorkerPC, OperatorPC, ItemStatus, RunStatus
    <2> QED
      BY <2>1, <2>2, LocalsType DEF TypeOK, Init, LeaseInit
  <1>4. RowsExist /\ ExecutorOwnsStep
    BY <1>1, <1>2 DEF RowsExist, ExecutorOwnsStep, cur
  <1>5. FailuresAreNumbered /\ DeadLettersAreOrderly
    BY <1>1 DEF FailuresAreNumbered, DeadLettersAreOrderly, DeadLettering, Waiting
  <1>6. VerdictHolds
    BY <1>1 DEF VerdictHolds, CompletedRunIsComplete
  <1>7. RetriesLeft
    <2>1. PICK e \in ErrorClasses : TRUE
      BY StepsAssumption
    <2>2. MaxAttempts(e) \in Nat \ {0}
      BY NumberOfAttempts, StepsAssumption
    <2>3. 0 < MaxAttempts(e)
      BY <2>2
    <2> QED
      BY <1>1, <1>2, <2>3 DEF RetriesLeft
  <1>8. ListingGoesOn
    BY <1>1, <1>2 DEF ListingGoesOn
  <1> QED
    BY <1>3, <1>4, <1>5, <1>6, <1>7, <1>8 DEF IInv

\* The inductive invariant of the handlers from ensureWorkflowSteps to
\* completeWorkflowRun and of the dead-letter handlers.
THEOREM StepsInvariant == Spec => []IInv
  <1>1. IInv /\ [Next]_vars => IInv'
    BY TypeStep, RowsExistStep, ExecutorOwnsStepStep, FailuresAreNumberedStep,
       DeadLettersAreOrderlyStep, VerdictHoldsStep, RetriesLeftStep, ListingGoesOnStep
    DEF IInv
  <1> QED
    BY <1>1, InitIInv, PTL DEF Spec

\* The rows of a run and its workers' and operators' variables keep their types.
THEOREM TypeCorrectness == Spec => []TypeOK
  BY StepsInvariant, PTL DEF IInv

\* With one operator that does not die half-way, a step is executed by one worker
\* at a time, however leases expire and workers die: claimStepForExecution's
\* status test suffices, though it never looks at the lease.
THEOREM ExecutorIsUnique ==
    ASSUME Reliable
    PROVE  Spec => []SingleExecutor
  <1>1. IInv => SingleExecutor
    BY OneExecutor DEF SingleExecutor, Guarded
  <1> QED
    BY <1>1, StepsInvariant, PTL

\* ... and what commitStepWithFencing or recordStepSuccess completed is final.
THEOREM CheckpointIsFinal ==
    ASSUME Reliable
    PROVE  Spec => CompletedStepIsFinal
  <1>1. IInv /\ [Next]_vars =>
          [\A s \in Steps : step[s].status = "COMPLETED" =>
              step'[s].status = "COMPLETED" /\ step'[s].output = step[s].output]_vars
    BY CompletedStays
  <1> QED
    BY <1>1, StepsInvariant, PTL DEF Spec, CompletedStepIsFinal

\* ... and completeWorkflowRun's verdict, read in one statement and written in
\* another, is right: a COMPLETED run has only COMPLETED steps.
THEOREM RunCompletionIsSound ==
    ASSUME Reliable
    PROVE  Spec => []CompletedRunIsComplete
  <1>1. IInv => CompletedRunIsComplete
    BY DEF IInv, VerdictHolds
  <1> QED
    BY <1>1, StepsInvariant, PTL

\* ... and recordStepFailure never meets its own primary key.
THEOREM AttemptKeysStayFresh ==
    ASSUME Reliable
    PROVE  Spec => []AttemptKeysAreFresh
  <1>1. ASSUME IInv, NEW w \in Owners, pc[w] \in {"failUpdate", "failInsert"}
        PROVE  AttemptKey(w) \notin attempts
    <2>1. CASE pc[w] = "failInsert"
      BY <1>1, <2>1 DEF IInv, FailuresAreNumbered, Guarded
    <2>2. ASSUME pc[w] = "failUpdate", AttemptKey(w) \in attempts PROVE FALSE
      <3>1. loc[w].seen < step[cur(w)].attempt /\ loc[w].seen = step[cur(w)].attempt
        BY <1>1, <2>2 DEF IInv, FailuresAreNumbered, Guarded, AttemptKey
      <3> QED
        BY <1>1, <3>1, Typing DEF IInv
    <2> QED
      BY <1>1, <2>1, <2>2
  <1>2. IInv => AttemptKeysAreFresh
    BY <1>1 DEF AttemptKeysAreFresh
  <1> QED
    BY <1>2, StepsInvariant, PTL

\* Whoever the operators are and whoever dies: until a step is on the dead-letter
\* queue, it has failed at most as often as hasExhaustedRetries allows the most
\* patient error class.
THEOREM FailuresAreBounded == Spec => []RetriesAreBounded
  <1>1. IInv => RetriesAreBounded
    <2> SUFFICES ASSUME IInv, NEW s \in Steps, Unlisted(s)
                 PROVE  \E e \in ErrorClasses : step[s].attempt <= MaxAttempts(e)
      BY DEF RetriesAreBounded, Unlisted
    <2>1. PICK e \in ErrorClasses :
             step[s].attempt <= MaxAttempts(e) \/ step[s].attempt < MaxAttempts(e)
      BY DEF IInv, RetriesLeft
    <2>2. step[s].attempt \in Nat /\ MaxAttempts(e) \in Nat
      BY Typing, NumberOfAttempts, StepsAssumption DEF IInv
    <2> QED
      BY <2>1, <2>2
  <1> QED
    BY <1>1, StepsInvariant, PTL

\* When no worker dies, a step marked DEAD_LETTERED gets its item: none of the
\* statements of recordStepFailure after the mark can fail.
THEOREM DeadLettersGetListed ==
    ASSUME Owners \cap Crashing = {}
    PROVE  Spec => []DeadLetterIsListed
  <1>1. ASSUME IInv, NEW s \in Steps, step[s].status = "DEAD_LETTERED",
               \A w \in Owners : cur(w) = s => pc[w] \notin {"failInsert", "failDead"}
        PROVE  \E d \in ItemIds : d[1] = s /\ dead[d] # "NONE"
    BY <1>1 DEF IInv, ListingGoesOn, DeadLettering, Unlisted
  <1>2. IInv => DeadLetterIsListed
    BY <1>1 DEF DeadLetterIsListed
  <1> QED
    BY <1>2, StepsInvariant, PTL
=============================================================================
