--------------------------- MODULE WorkflowSteps ---------------------------
(***************************************************************************)
(* The steps of one workflow run: packages/workflow-runtime/src/index.ts   *)
(* from ensureWorkflowSteps to completeWorkflowRun, one action per SQL     *)
(* statement, for several workers and several operators of the dead-letter *)
(* queue.  The runtime is a library of handlers without a transaction      *)
(* around any of them; a worker calls them in the order                    *)
(*   ensureWorkflowSteps, acquireLease, resumeFromCheckpoint,              *)
(*   claimStepForExecution, then commitStepWithFencing, recordStepSuccess  *)
(*   or recordStepFailure, and completeWorkflowRun when nothing is left.   *)
(* The lease is the atomic one of FencedLease, which WorkflowLease         *)
(* implements; Owners are the workers.                                     *)
(***************************************************************************)
EXTENDS FencedLease, RetryPolicy, FiniteSets

CONSTANTS Operators,     \* concurrent callers of the dead-letter handlers
          Crashing,      \* the workers and operators that may die
          NSteps,        \* number of step definitions of the run
          ErrorClasses,  \* the error classes that occur
          MaxTime,       \* bound: the clock stops here
          MaxVersion,    \* bound: no lease is granted at this version or above
          MaxFailures    \* bound: executions of one step that may fail

ASSUME StepsAssumption ==
    /\ NSteps \in Nat \ {0}
    /\ ErrorClasses \subseteq AllErrorClasses /\ ErrorClasses # {}
    /\ MaxTime \in Nat /\ MaxVersion \in Nat /\ MaxFailures \in Nat
    /\ Crashing \subseteq Owners \cup Operators
    /\ Owners \cap Operators = {}

Steps == 1..NSteps

VARIABLES step,      \* workflow_steps
          run,       \* workflow_runs.status
          attempts,  \* keys of step_attempts written by recordStepFailure
          dead,      \* dead_letter_items.status by id
          pc,        \* where each worker and operator is
          tok,       \* version of the lease a worker holds, 0 for none
          loc,       \* a worker's local variables
          item       \* the dead-letter item an operator retries

rowVars == <<step, run, attempts, dead>>
localVars == <<tok, loc, item>>
vars == <<lease, clock, step, run, attempts, dead, pc, tok, loc, item>>

StepStatus == {"ABSENT", "PENDING", "RUNNING", "COMPLETED", "FAILED", "DEAD_LETTERED"}
RunStatus == {"PENDING", "RETRYING", "COMPLETED", "FAILED", "DEAD_LETTERED"}
ItemStatus == {"NONE", "OPEN", "RETRYING", "RESOLVED"}
WorkerPC == {"idle", "ensure", "ready", "leased", "picked", "exec", "failUpdate",
             "failInsert", "failDead", "failRun", "complete", "completeWrite"}
OperatorPC == {"idle", "resetStep", "resetRun", "mark"}

\* createDeadLetterItem's id is built from the step and the time.
ItemIds == Steps \X (0..MaxTime)

StepRow == [status : StepStatus, attempt : Nat, owner : Owners \cup {NoOwner},
            version : Nat, output : Nat, created : Nat]

\* The step a worker handles, the time it passes to ensureWorkflowSteps, the
\* attempt number and error class of a failure it records, and the status
\* completeWorkflowRun computed.
Locals == [step : Steps, now : Nat, seen : Nat, err : AllErrorClasses, verdict : RunStatus]

NoLocals == [step |-> 1, now |-> 0, seen |-> 0, err |-> "OTHER", verdict |-> "PENDING"]

NoItem == <<1, 0>>

NoStep == [status |-> "ABSENT", attempt |-> 0, owner |-> NoOwner,
           version |-> 0, output |-> 0, created |-> 0]

Init ==
    /\ LeaseInit
    /\ step = [s \in Steps |-> NoStep]
    /\ run = "PENDING"
    /\ attempts = {}
    /\ dead = [d \in ItemIds |-> "NONE"]
    /\ pc = [p \in Owners \cup Operators |-> "idle"]
    /\ tok = [w \in Owners |-> 0]
    /\ loc = [w \in Owners |-> NoLocals]
    /\ item = [o \in Operators |-> NoItem]

-----------------------------------------------------------------------------
Goto(p, l) == pc' = [pc EXCEPT ![p] = l]

cur(w) == loc[w].step

\* A handler returns; its local variables end with it.
Return(w, l) ==
    /\ Goto(w, l)
    /\ loc' = [loc EXCEPT ![w] = NoLocals]

\* The worker gives up the run and forgets its lease.
Drop(w) ==
    /\ Return(w, "idle")
    /\ tok' = [tok EXCEPT ![w] = 0]

SetStatus(s, st) == step' = [step EXCEPT ![s].status = st]

Start(w) ==
    /\ pc[w] = "idle"
    /\ Goto(w, "ensure")
    /\ loc' = [loc EXCEPT ![w].now = clock]
    /\ UNCHANGED <<lease, clock, rowVars, tok, item>>

\* ensureWorkflowSteps: one createWorkflowStep per definition, each an INSERT
\* that does nothing when the step is there.
EnsureStep(w) ==
    /\ pc[w] = "ensure"
    /\ step' = IF step[cur(w)].status = "ABSENT"
               THEN [step EXCEPT ![cur(w)].status = "PENDING", ![cur(w)].created = loc[w].now]
               ELSE step
    /\ \/ /\ cur(w) < NSteps
          /\ loc' = [loc EXCEPT ![w].step = @ + 1]
          /\ UNCHANGED pc
       \/ /\ cur(w) = NSteps
          /\ Return(w, "ready")
    /\ UNCHANGED <<lease, clock, run, attempts, dead, tok, item>>

AcquireLease(w) ==
    /\ pc[w] = "ready"
    /\ lease.version < MaxVersion
    /\ Grant(w, clock)
    /\ tok' = [tok EXCEPT ![w] = lease'.version]
    /\ Goto(w, "leased")
    /\ UNCHANGED <<rowVars, loc, item>>

\* Mutant: FAILED steps are not taken up again.
RunnableOnlyPending == {s \in Steps : step[s].status = "PENDING"}

\* Mutant: COMPLETED steps are taken up again.
RunnableUnlessDead == {s \in Steps : step[s].status \in {"PENDING", "FAILED", "COMPLETED"}}

Runnable == {s \in Steps : step[s].status \in {"PENDING", "FAILED"}}

\* getNextPendingStep and resumeFromCheckpoint order by created_at, which is
\* one and the same `now` for every step a call of ensureWorkflowSteps creates:
\* which of the runnable rows with the same time comes first is not determined.
Oldest == {s \in Runnable : \A r \in Runnable : step[s].created <= step[r].created}

PickStep(w) ==
    /\ pc[w] = "leased"
    /\ \/ /\ Runnable # {}
          /\ \E s \in Oldest : loc' = [loc EXCEPT ![w].step = s]
          /\ Goto(w, "picked")
       \/ /\ Runnable = {}
          /\ Goto(w, "complete")
          /\ UNCHANGED loc
    /\ UNCHANGED <<lease, clock, rowVars, tok, item>>

\* Mutant: the claim does not look at the status.
ClaimStepAnyStatus(w) ==
    /\ pc[w] = "picked"
    /\ step' = [step EXCEPT ![cur(w)].status = "RUNNING",
                            ![cur(w)].owner = w,
                            ![cur(w)].version = tok[w]]
    /\ Goto(w, "exec")
    /\ UNCHANGED <<lease, clock, run, attempts, dead, localVars>>

\* UPDATE ... WHERE status IN ('PENDING','FAILED').
ClaimStep(w) ==
    /\ pc[w] = "picked"
    /\ \/ /\ cur(w) \in Runnable
          /\ step' = [step EXCEPT ![cur(w)].status = "RUNNING",
                                  ![cur(w)].owner = w,
                                  ![cur(w)].version = tok[w]]
          /\ Goto(w, "exec")
          /\ UNCHANGED loc
       \/ /\ cur(w) \notin Runnable
          /\ Return(w, "leased")
          /\ UNCHANGED step
    /\ UNCHANGED <<lease, clock, run, attempts, dead, tok, item>>

\* The fencing test of commitStepWithFencing: the step's own lease columns.
FenceMatches(w) == step[cur(w)].owner = w /\ step[cur(w)].version = tok[w]

Completed(w) ==
    step' = [step EXCEPT ![cur(w)].status = "COMPLETED", ![cur(w)].output = tok[w]]

CommitStep(w) ==
    /\ pc[w] = "exec"
    /\ \/ /\ FenceMatches(w)
          /\ Completed(w)
          /\ Return(w, "leased")
          /\ UNCHANGED tok
       \/ /\ ~FenceMatches(w)
          /\ Drop(w)
          /\ UNCHANGED step
    /\ UNCHANGED <<lease, clock, run, attempts, dead, item>>

\* recordStepSuccess does not look at the lease; its second statement only
\* adds a row to step_attempts under a key of its own.
RecordStepSuccess(w) ==
    /\ pc[w] = "exec"
    /\ Completed(w)
    /\ Return(w, "leased")
    /\ UNCHANGED <<lease, clock, run, attempts, dead, tok, item>>

\* recordStepFailure, statement by statement: SELECT attempt, UPDATE the step,
\* INSERT the attempt and, when retries are exhausted, INSERT the dead letter
\* and UPDATE the run.
FailSelect(w, e) ==
    /\ pc[w] = "exec"
    /\ step[cur(w)].attempt < MaxFailures
    /\ loc' = [loc EXCEPT ![w].seen = step[cur(w)].attempt, ![w].err = e]
    /\ Goto(w, "failUpdate")
    /\ UNCHANGED <<lease, clock, rowVars, tok, item>>

Exhausted(w) == HasExhaustedRetries(loc[w].err, loc[w].seen)

\* Mutant: the failure does not count as an attempt.
FailUpdateUncounted(w) ==
    /\ pc[w] = "failUpdate"
    /\ SetStatus(cur(w), IF Exhausted(w) THEN "DEAD_LETTERED" ELSE "FAILED")
    /\ Goto(w, "failInsert")
    /\ UNCHANGED <<lease, clock, run, attempts, dead, localVars>>

FailUpdate(w) ==
    /\ pc[w] = "failUpdate"
    /\ step' = [step EXCEPT ![cur(w)].status = IF Exhausted(w) THEN "DEAD_LETTERED" ELSE "FAILED",
                            ![cur(w)].attempt = @ + 1]
    /\ Goto(w, "failInsert")
    /\ UNCHANGED <<lease, clock, run, attempts, dead, localVars>>

\* The key is `attempt-<step>-<attempt read>`; a second row with it is a
\* primary key violation that aborts the handler.
AttemptKey(w) == <<cur(w), loc[w].seen>>

FailInsert(w) ==
    /\ pc[w] = "failInsert"
    /\ \/ /\ AttemptKey(w) \notin attempts
          /\ attempts' = attempts \cup {AttemptKey(w)}
          /\ \/ Exhausted(w) /\ Goto(w, "failDead") /\ UNCHANGED loc
             \/ ~Exhausted(w) /\ Return(w, "leased")
          /\ UNCHANGED tok
       \/ /\ AttemptKey(w) \in attempts
          /\ Drop(w)
          /\ UNCHANGED attempts
    /\ UNCHANGED <<lease, clock, step, run, dead, item>>

\* Mutant: the dead-lettered step is not put on the dead-letter queue.
FailDeadSkipped(w) ==
    /\ pc[w] = "failDead"
    /\ Goto(w, "failRun")
    /\ UNCHANGED <<lease, clock, rowVars, localVars>>

\* createDeadLetterItem: ON CONFLICT (id) DO NOTHING.
FailDead(w) ==
    /\ pc[w] = "failDead"
    /\ dead' = [dead EXCEPT ![<<cur(w), clock>>] = IF @ = "NONE" THEN "OPEN" ELSE @]
    /\ Goto(w, "failRun")
    /\ UNCHANGED <<lease, clock, step, run, attempts, localVars>>

FailRun(w) ==
    /\ pc[w] = "failRun"
    /\ run' = "DEAD_LETTERED"
    /\ Return(w, "leased")
    /\ UNCHANGED <<lease, clock, step, attempts, dead, tok, item>>

\* Mutant: a run none of whose steps can be taken up is complete.
RunVerdictNoneRunnable ==
    IF \E s \in Steps : step[s].status = "DEAD_LETTERED" THEN "DEAD_LETTERED"
    ELSE IF Runnable = {} THEN "COMPLETED" ELSE "FAILED"

\* The status completeWorkflowRun derives from the steps that exist.
RunVerdict ==
    LET rows == {s \in Steps : step[s].status # "ABSENT"}
    IN  IF \E s \in rows : step[s].status = "DEAD_LETTERED" THEN "DEAD_LETTERED"
        ELSE IF rows # {} /\ \A s \in rows : step[s].status = "COMPLETED" THEN "COMPLETED"
        ELSE "FAILED"

CompleteRead(w) ==
    /\ pc[w] = "complete"
    /\ loc' = [loc EXCEPT ![w].verdict = RunVerdict]
    /\ Goto(w, "completeWrite")
    /\ UNCHANGED <<lease, clock, rowVars, tok, item>>

CompleteWrite(w) ==
    /\ pc[w] = "completeWrite"
    /\ run' = loc[w].verdict
    /\ Drop(w)
    /\ UNCHANGED <<lease, clock, step, attempts, dead, item>>

-----------------------------------------------------------------------------
\* retryDeadLetterFromCheckpoint: SELECT, then three UPDATEs that do not look
\* at the status again.  The attempt counter is not reset.
RetrySelect(o, d) ==
    /\ pc[o] = "idle"
    /\ dead[d] = "OPEN"
    /\ item' = [item EXCEPT ![o] = d]
    /\ Goto(o, "resetStep")
    /\ UNCHANGED <<lease, clock, rowVars, tok, loc>>

RetryResetStep(o) ==
    /\ pc[o] = "resetStep"
    /\ SetStatus(item[o][1], "PENDING")
    /\ Goto(o, "resetRun")
    /\ UNCHANGED <<lease, clock, run, attempts, dead, localVars>>

RetryResetRun(o) ==
    /\ pc[o] = "resetRun"
    /\ run' = "RETRYING"
    /\ Goto(o, "mark")
    /\ UNCHANGED <<lease, clock, step, attempts, dead, localVars>>

RetryMark(o) ==
    /\ pc[o] = "mark"
    /\ dead' = [dead EXCEPT ![item[o]] = "RETRYING"]
    /\ item' = [item EXCEPT ![o] = NoItem]
    /\ Goto(o, "idle")
    /\ UNCHANGED <<lease, clock, step, run, attempts, tok, loc>>

ResolveDeadLetter(o, d) ==
    /\ pc[o] = "idle"
    /\ dead[d] \in {"OPEN", "RETRYING"}
    /\ dead' = [dead EXCEPT ![d] = "RESOLVED"]
    /\ UNCHANGED <<lease, clock, step, run, attempts, pc, localVars>>

-----------------------------------------------------------------------------
\* A worker or operator dies between two statements; what it wrote stays.
CrashWorker(w) ==
    /\ w \in Crashing
    /\ pc[w] # "idle"
    /\ Drop(w)
    /\ UNCHANGED <<lease, clock, rowVars, item>>

CrashOperator(o) ==
    /\ o \in Crashing
    /\ pc[o] # "idle"
    /\ item' = [item EXCEPT ![o] = NoItem]
    /\ Goto(o, "idle")
    /\ UNCHANGED <<lease, clock, rowVars, tok, loc>>

Elapse ==
    /\ clock < MaxTime
    /\ Tick
    /\ UNCHANGED <<rowVars, pc, localVars>>

\* What a worker does once it has been started.
Work(w) ==
    \/ EnsureStep(w) \/ AcquireLease(w) \/ PickStep(w) \/ ClaimStep(w)
    \/ CommitStep(w) \/ RecordStepSuccess(w)
    \/ (\E e \in ErrorClasses : FailSelect(w, e))
    \/ FailUpdate(w) \/ FailInsert(w) \/ FailDead(w) \/ FailRun(w)
    \/ CompleteRead(w) \/ CompleteWrite(w)

Operate(o) ==
    \/ (\E d \in ItemIds : RetrySelect(o, d) \/ ResolveDeadLetter(o, d))
    \/ RetryResetStep(o) \/ RetryResetRun(o) \/ RetryMark(o)

Next ==
    \/ \E w \in Owners : Start(w) \/ Work(w) \/ CrashWorker(w)
    \/ \E o \in Operators : Operate(o) \/ CrashOperator(o)
    \/ Elapse

Spec == Init /\ [][Next]_vars

\* A call that has been made goes on to its end.
FairSpec == Spec /\ \A w \in Owners : WF_vars(Work(w))

\* Besides, workers keep being started.
PollingSpec == FairSpec /\ \A w \in Owners : WF_vars(Start(w))

-----------------------------------------------------------------------------
\* The rows, the processes' places and their local variables have their types;
\* the run only ever has the statuses the dead-letter handlers, recordStepFailure
\* and completeWorkflowRun write.
TypeOK ==
    /\ lease \in LeaseRow
    /\ clock \in 0..MaxTime
    /\ step \in [Steps -> StepRow]
    /\ run \in RunStatus
    /\ attempts \in SUBSET (Steps \X Nat)
    /\ dead \in [ItemIds -> ItemStatus]
    /\ pc \in [Owners \cup Operators -> WorkerPC \cup OperatorPC]
    /\ \A w \in Owners : pc[w] \in WorkerPC
    /\ \A o \in Operators : pc[o] \in OperatorPC
    /\ tok \in [Owners -> Nat]
    /\ loc \in [Owners -> Locals]
    /\ item \in [Operators -> ItemIds]

\* A worker between its claim and the statement that reports the outcome.
Executes(w, s) == pc[w] \in {"exec", "failUpdate"} /\ cur(w) = s

\* A step is executed by one worker at a time, across lease takeovers, retries
\* and dead-letter retries, although neither claim nor outcome statements look
\* at the lease row.
SingleExecutor ==
    \A s \in Steps, v, w \in Owners : Executes(v, s) /\ Executes(w, s) => v = w

\* Once a step is COMPLETED nothing runs it again or replaces its output: the
\* checkpoint resumeFromCheckpoint reports is final.
CompletedStepIsFinal ==
    [][\A s \in Steps : step[s].status = "COMPLETED" =>
          step'[s].status = "COMPLETED" /\ step'[s].output = step[s].output]_vars

\* A run is COMPLETED only when every step of its definition is, although
\* completeWorkflowRun reads the steps and writes the run in two statements
\* and judges only the rows that exist.
CompletedRunIsComplete ==
    run = "COMPLETED" => \A s \in Steps : step[s].status = "COMPLETED"

\* recordStepFailure never hits the primary key of step_attempts, which would
\* abort it between the UPDATE of the step and the dead letter.
AttemptKeysAreFresh ==
    \A w \in Owners : pc[w] \in {"failUpdate", "failInsert"} => AttemptKey(w) \notin attempts

\* Until an operator can retry it, a step fails at most as often as the most
\* patient of its error classes allows, whichever classes its failures have.
RetriesAreBounded ==
    \A s \in Steps :
        (\A d \in ItemIds : d[1] = s => dead[d] = "NONE")
            => \E e \in ErrorClasses : step[s].attempt <= MaxAttempts(e)

\* A claimed step ends COMPLETED or DEAD_LETTERED when no worker dies: retries
\* are bounded and the failing worker comes back for its step.
ClaimedStepSettles ==
    \A s \in Steps : step[s].status = "RUNNING" ~> step[s].status \in {"COMPLETED", "DEAD_LETTERED"}

\* A worker that lost the lease to a newer one does not complete a step: the
\* step's lease columns carry the newest version when it becomes COMPLETED.
StaleWorkerNeverCommits ==
    [][\A s \in Steps : step'[s].status = "COMPLETED" /\ step[s].status # "COMPLETED"
          => step[s].version = lease.version]_vars

\* A dead-lettered step has an item on the dead-letter queue, whatever an
\* operator has made of the item since, once the worker that dead-lettered it is
\* done: recordStepFailure marks the step two statements before the item.
DeadLetterIsListed ==
    \A s \in Steps :
        /\ step[s].status = "DEAD_LETTERED"
        /\ \A w \in Owners : cur(w) = s => pc[w] \notin {"failInsert", "failDead"}
        => \E d \in ItemIds : d[1] = s /\ dead[d] # "NONE"
-----------------------------------------------------------------------------
(* The inductive invariant.  What it says of a step holds while the step has *)
(* no dead letter, or for good when the dead letters are in the hands of one *)
(* operator that does not die.                                               *)

Reliable == /\ \A o, p \in Operators : o = p
            /\ Operators \cap Crashing = {}

Unlisted(s) == \A d \in ItemIds : d[1] = s => dead[d] = "NONE"

Guarded(s) == Reliable \/ Unlisted(s)

\* A worker whose failure makes its step a dead letter, before the item is there.
DeadLettering(w) == pc[w] = "failDead" \/ (pc[w] = "failInsert" /\ Exhausted(w))

\* An open item whose step no operator has reset yet.
Waiting(d) ==
    /\ dead[d] = "OPEN"
    /\ ~\E o \in Operators : pc[o] \in {"resetRun", "mark"} /\ item[o] = d

\* The rows of the steps are there once a worker has gone through
\* ensureWorkflowSteps, and so far as it has gone.
RowsExist ==
    \A w \in Owners :
        /\ pc[w] = "idle" => cur(w) = 1
        /\ pc[w] = "ensure" => \A s \in Steps : s < cur(w) => step[s].status # "ABSENT"
        /\ pc[w] \notin {"idle", "ensure"} => \A s \in Steps : step[s].status # "ABSENT"

\* The row of a step that is being executed says so and names the executor.
ExecutorOwnsStep ==
    \A w \in Owners :
        pc[w] \in {"exec", "failUpdate"} /\ Guarded(cur(w)) =>
            step[cur(w)].status = "RUNNING" /\ step[cur(w)].owner = w

\* Failures are numbered by the attempt column: keys in step_attempts are below
\* it, and the failures that are being recorded have numbers of their own.
FailuresAreNumbered ==
    /\ \A k \in attempts : k[2] < step[k[1]].attempt
    /\ \A w \in Owners :
        /\ pc[w] = "failUpdate" => loc[w].seen <= step[cur(w)].attempt
        /\ pc[w] = "failUpdate" /\ Guarded(cur(w)) => loc[w].seen = step[cur(w)].attempt
        /\ pc[w] = "failInsert" => loc[w].seen < step[cur(w)].attempt
        /\ pc[w] = "failInsert" /\ Guarded(cur(w)) => AttemptKey(w) \notin attempts
    /\ \A v, w \in Owners :
        /\ pc[v] = "failInsert" /\ pc[w] = "failInsert"
        /\ Guarded(cur(w)) /\ AttemptKey(v) = AttemptKey(w)
        => v = w

\* A step about to become a dead letter is in one worker's hands, and an item
\* that waits for an operator is the only one of its step.
DeadLettersAreOrderly ==
    /\ \A w \in Owners :
        DeadLettering(w) /\ Guarded(cur(w)) => step[cur(w)].status = "DEAD_LETTERED"
    /\ \A v, w \in Owners :
        DeadLettering(v) /\ DeadLettering(w) /\ cur(v) = cur(w) /\ Guarded(cur(w)) => v = w
    /\ \A o \in Operators : pc[o] # "idle" => dead[item[o]] # "NONE"
    /\ Reliable =>
        /\ \A o \in Operators : pc[o] = "resetStep" => dead[item[o]] = "OPEN"
        /\ \A d \in ItemIds : Waiting(d) =>
              /\ step[d[1]].status = "DEAD_LETTERED"
              /\ \A w \in Owners : DeadLettering(w) => cur(w) # d[1]
        /\ \A d, e \in ItemIds : Waiting(d) /\ Waiting(e) /\ d[1] = e[1] => d = e

\* A verdict that completes the run is still right when it is written.
VerdictHolds ==
    Reliable =>
        /\ \A w \in Owners :
              pc[w] = "completeWrite" /\ loc[w].verdict = "COMPLETED" =>
                  \A s \in Steps : step[s].status = "COMPLETED"
        /\ CompletedRunIsComplete

\* A step that may run again has retries left.
RetriesLeft ==
    /\ \A w \in Owners :
        pc[w] \in {"failUpdate", "failInsert"} => loc[w].err \in ErrorClasses
    /\ \A s \in Steps : Unlisted(s) =>
        \E e \in ErrorClasses :
            IF step[s].status = "DEAD_LETTERED" THEN step[s].attempt <= MaxAttempts(e)
                                               ELSE step[s].attempt < MaxAttempts(e)

\* A dead letter without an item is about to get it, unless workers die.
ListingGoesOn ==
    Owners \cap Crashing = {} =>
        \A s \in Steps :
            step[s].status = "DEAD_LETTERED" /\ Unlisted(s) =>
                \E w \in Owners : DeadLettering(w) /\ cur(w) = s

\* The invariant from which the properties above are proved.
IInv ==
    /\ TypeOK /\ RowsExist /\ ExecutorOwnsStep /\ FailuresAreNumbered
    /\ DeadLettersAreOrderly /\ VerdictHolds /\ RetriesLeft /\ ListingGoesOn
=============================================================================
