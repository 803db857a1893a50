# A formal model of chain-sieve's control plane

chain-sieve is a TypeScript modular monolith (`packages/*`, `apps/*`) over one
PostgreSQL database, built by a Python factory (`factory/controller`) and a set
of development tools (`tools/*`).  This directory holds TLA+ models of the parts
whose correctness depends on the order in which several processes run their
statements, the TLC runs that check them on small instances, and TLAPS proofs of
the main safety properties for every instance.

No function of the runtime opens a transaction around the statements of a
handler (`commitAlertTransaction` and the walking skeleton excepted).  So the
unit of atomicity throughout is one SQL statement, or one awaited call of an
external service: every action below is one such step, and any other process may
run, or the process itself may die, between two of them.

## 1. Inventory

| Component | State | Operations | Hard behaviour | Correct when |
|---|---|---|---|---|
| Workflow leases (`packages/workflow-runtime/src/index.ts`) | a row of `workflow_leases` | `acquireLease`, `renewLease` | read, then compare-and-swap; late callers; threads of one owner; swallowed INSERT errors | one unexpired holder; a version belongs to one owner; versions grow |
| Workflow steps (same file) | `workflow_steps`, `workflow_runs`, `step_attempts`, `dead_letter_items` | `ensureWorkflowSteps`, `resumeFromCheckpoint`, `claimStepForExecution`, `commitStepWithFencing`, `recordStepSuccess`, `recordStepFailure`, `completeWorkflowRun`, `retryDeadLetterFromCheckpoint`, `resolveDeadLetter` | takeovers, crashes between statements, concurrent retries | one executor per step; completed work is final; retries bounded; every claimed step settles |
| Trigger inbox (same file, route in `apps/api/src/app.ts`) | `trigger_inbox`, `workflow_runs` | `handleTriggerInboxRequest` | at-least-once delivery, concurrent duplicates, crashes, id collisions | one run per message; run ids handed out exist |
| Notification outbox (`packages/alerts/src/outbox.ts`) | a row of `outbox` | `commitAlertTransaction`, `processOutboxEntry` | racing workers, crash between send and update, throwing adapter | nothing lost, nothing early, attempts bounded |
| Alert policy and lifecycle (`alerts/src/policy.ts`, `lifecycle.ts`) | the last alert of an asset | `evaluateAlertPolicy`, `evaluateAlertLifecycle` | order of the checks, expiries inherited over sequences of evaluations | updates do not outlive their evidence; critical risk is never suppressed |
| Scheduling control plane (`packages/scheduler/src/index.ts`) | `schedules`, `schedule_versions`, QStash | `create`, `editDraft`, `validate`, `enable`, `pause`, `resume`, `duplicate`, `disable`, `delete`, `reconcileSchedules` | two stores without a transaction, stale whole-row puts, drift | table and QStash agree, or the reconciler makes them |
| Backup, recovery and continuity (`workflow-runtime/src/recovery-continuity.ts`) | audit chain, manifests, holds, drills, degraded modes | append, retention, restore, drills, reconciliation | tail-read then insert, `MAX(version)+1`, retention against legal holds | the audit log is true; a fork of the chain stays visible |
| Tool core (`tool-core`) | result cache, calls in flight | `execute` | concurrent misses, failure of the leader | one provider call at a time per key; every caller answered |
| Agent runtime (`agent-runtime`) | budgets, one run | plan, tool loop, skeptic, write-through | deadline and abort while a tool is awaited, tools that raise or hang, several budgets at once | no budget exceeded; a confirmation is earned; every run ends |
| Factory tick (`factory/controller`: `runtime.py`, `collector.py`, `reducer.py`, `executor.py`, adapters) | work item, commands, receipts | collect, reduce, persist, execute | death between any two; a world that moves on | effects looked for before they are repeated; merged heads were verified |
| Factory package controller (`controller.py`) | package record, session, pull request | reconcile, watchdog, sessions, CI, review dispatch, merge | stale snapshot, lost answers, budgets over epochs | completed is merged; work that was there is kept |
| Factory milestones (`controller.py`, `reasoning.py`) | metadata, plan, remediation, archive, usage: separate files | converge, remediate, replan, advance, audit | death between two writes; budgets over restarts | packages are kept; claimed transitions settle |
| Task runner, verifier, worktrees, merge queue (`tools/task-runner`, `task-verifier`, `merge-queue`, `worktree-manager`, `agent/lifecycle.ts`) | `task-state.json`, results, queue, branches | acquire, renew, recover, submit, review, verify, enqueue, merge, revert | whole-file writers with and without the lock, amended commits, stale bases | merged commits were verified on their base; MERGED is integrated |
| Orchestrator and autopilot (`tools/agent/lib`, `tools/autopilot`, `cluster-verifier`) | the disk, git branches, pull requests | discover, decide, execute, review, repair, merge | restarts, pushes by others, lost leases, CI repair after review | what is merged was verified and reviewed; clusters rest on integrated ones |
| Product factory (`tools/product-factory`) | attempt files, branches, one process | convergence, supervision, escalation, maintenance, re-execution | its own failures, deaths between record and act | recoveries counted; every run ends; merged was proved |
| Walking skeleton, collectors, domain tables, admin API and limiter, PRD compiler, harnesses and provider adapters, registries, object stores, signal funnel, evaluation, pool adapters, security guards, persistence, dashboard | in memory, files, or none | lookups, scoring, parsing, request predicates | little: one transaction, sequential or pure | results agree with their definitions |

How they interact: QStash calls the trigger route, which writes the inbox and
creates a run; workers lease the run, execute its steps and dead-letter what
fails; the alert stage commits decision, alert and outbox entry together, and
delivery workers send from the outbox; admins change schedules, which the
scheduler mirrors in QStash; the reconciler compares the two.  Agents call tools
through the tool core.  Beside the runtime stand four programs that deliver code
into the repository's own branches: the task tools, the autopilot that drives
them, and the factory in its two generations; they share no state with the
runtime and promise the same thing (`GatedMerge`).

## 2. Plan

1. *Done.*  The durable core: `FencedLease` / `WorkflowLease`, `RetryPolicy` /
   `WorkflowSteps`, `TriggerInbox`, `Outbox`, `Scheduler`, with the proofs of
   lease, inbox and outbox.
2. *Done.*  The rest of the runtime (`AlertLifecycle`, `RecoveryContinuity`,
   `ToolCore`, `AgentRun`) and the programs that deliver code (`TaskDelivery`,
   `Orchestrator`, `FactoryTick`, `FactoryPackage`, `FactoryMilestone`,
   `ProductFactory`) with the abstract `GatedMerge` they implement.
3. *Done.*  Proofs for `WorkflowSteps`, `FactoryTick` (with the refinement of
   `GatedMerge`), `AlertLifecycle` and `RecoveryContinuity`; stage planning,
   decision and trigger policy in `AgentRun`, partial outcomes and retries in
   `Orchestrator`, the order of the validator's checks in `Scheduler`.
4. *Done.*  Proofs that the other three delivery paths refine `GatedMerge`
   (`TaskDelivery`, `Orchestrator`, `FactoryPackage`), and for `Scheduler`,
   `AgentRun` and `ToolCore`.
5. *Done.*  Proofs for `FactoryMilestone`, `ProductFactory` and the agent's plan,
   and for the compositions `MCPlatform` and `MCDelivery`.
6. *Left.*  Two product factories over one repository.

## 3. Modules

**FencedLease** is what the runtime promises of one lease row: `Grant` takes the
next fencing version, and only when the lease is free, the caller's own or
expired.  **WorkflowLease** models `acquireLease` and `renewLease`: `Call` reads
the caller's clock, `SelectLease` is the first SELECT with its three outcomes,
`RenewOwn` and `TakeOver` are the two UPDATEs guarded by the version read,
`CasMiss`/`Reread` the fallback after a lost race, `InsertLease`, `InsertFails`
and `Reselect` the path for a row that is not there.  `OwnerOf` lets several
callers (threads) pass the same owner.

**RetryPolicy** is `classifyRetry` and `hasExhaustedRetries` without the backoff
times: `next_retry_at` is written but no code reads it.  **WorkflowSteps** is one
run: its rows, its workers and the operators of its dead letters.  Its lease is
the atomic one of `FencedLease`, which `WorkflowLease` is proved to implement.
The repository has no worker loop; the workers call the handlers in the order
their tests do.  `output` is the fencing version of the worker that wrote the
output hash.  `created` is `created_at`, by which rows are ordered; rows with
equal times come in any order.

**TriggerInbox** is the route and `handleTriggerInboxRequest`.  Raw ids, the
trimmed ids, the derived inbox and run ids are constants with the functions
between them (`Canonical`, `InboxIdOf`, `RunIdOf`): the prefix and 32 bits of hash
of an inbox id may collide, the run id (64 bits of hash of the inbox id) is taken
to be injective.  The 401 and 503 answers of the route touch no state and are left
out.

**Outbox** is one entry, with the notification adapter as an external party that
accepts, refuses or throws, in which last case the message may have gone out.
`CANCELLED` is tested by the code and set nowhere.  Shadow mode (topic or option)
is a property of the entry.  The UPDATE to `FAILED` violates the CHECK of the
table and fails.

**Scheduler** models all operations of `SchedulerService` that change state, and
`reconcileSchedules`.  Cron, timezone, destination and the rest of a version are
one configuration value; `getActiveVersion`'s two SELECTs are one read;
`DEGRADED`, `APPROVED` and `ROLLED_BACK` are never stored by any operation.
`FirstIssue` is `validateScheduleVersion`: the first of its checks that fails is
the issue an operation answers with.
`Store` chooses the in-memory store or the database with its foreign key and
uniqueness; `FreshExternal` whether QStash gives a new id to every create or
derives it from the schedule, as the test double does; `Attached` the services
that have an external scheduler.  `rec.clean` marks a pass that no operation
ran beside, `spent.calm` a history without a death, a change by hand or a repair.

**AlertLifecycle** is one asset over time: `evaluateAlertPolicy` issues an alert
from a candidate, `evaluateAlertLifecycle` updates the last one.  The dozen gates
of the policy that do not interact are one Boolean; score, risk, direction and
missing data stay apart.  `root` is the expiry of the alert an update goes back to.
Its names (`AlertInit`, `AlertNext`) differ from those of `Outbox`, so that one
model can extend both.

**ToolCore** is `execute` for one key: callers in one process that interleave at
the awaits of cache, cost policy and provider.  A value is named by the call that
loaded it; `flight` is the promise in the in-flight map.

**RecoveryContinuity** is every function of its file that writes, one SQL
statement per action, with callers that die.  A row of `backup_audit_log` is known
by its position and `prev` is the row its `previous_hash` names, so a fork is two
rows with one predecessor.  What a function reads and what it writes on the strength
of it are awaits apart: a drill checks the chain in `VerifyDrill` and writes its row
in `ConcludeDrill`, a recovery in `VerifyRecon` and `SaveRecon`, and an append may
fork the chain in between.

**AgentRun** is one execution: `BuildStageSequence` turns a request into stages,
the plan is cut to the budget, the tool loop runs, `Decide` decides or abstains for
the facts that are missing, `TriggerReasons` calls the skeptic, and the result is
written through.  `Preflight` refuses a run that could not pay for one call, also for
its tokens and model cost.  A tool answers, raises (its own budget or confinement
error is rethrown and ends the run, `TOOL_RAISED`), has no handler
(`MISSING_TOOL_HANDLER`), or never answers (`hung`): the await races the abort signal
only, and the deadline is looked at before and after.  The skeptic asks its tools in
order with a budget of its own, in an await that nothing races; a tool without a
handler is passed over, and one that reports a budget error ends its loop.  Deadline
and abort may come at every await.

**FactoryTick** is one work item of the second-generation factory: `Collect`,
`Persist` (the reducer's result is saved first), `InsertCommand`, `Handler`,
`WriteReceipt`, a death between any two, and GitHub around it.  No state of the item
records its session, so START_WORKER is issued in every tick; `StartWorker` looks for
the session of the branch, and when `ao session list` fails the scan of directories
behind it knows no branch: the session is missed and another one created
(`effects.missed`).  A review whose verdict does not
parse is `NoReview`: no rule reads the rest of it.

**FactoryPackage** is one package of the first generation.  A handler is the set
of its outcomes: the record it would save, and what it has done by then; the tick
handles on the strength of a snapshot, review dispatch saves a claim before it
calls out, and a call may raise or the process die before the last save.  An alternate
retry is two steps, the look for work (`LookForWork`) and kill with cleanup
(`AlternateRetry`), between which the worker, alive until it is killed, may commit.
Kill and cleanup are one step: a commit after a kill that raised is, for everything
that follows, one before it.

**FactoryMilestone** is the end of a milestone: convergence, remediation, the
bounded replan, the staged transition and the final audit, with a death between
the writes of any two files.  `seen` is the HEAD of the controller's own checkout, which
a tick synchronises and a block records.

**TaskDelivery** is the lifecycle document and the programs that read it whole and
write it whole: the task-runner and the renewals under the mutation lock, the
verifier and the merge queue without it.  A commit is `[task, rev, base]`: the
rev-th amendment of the task's commit on a position of the cluster branch.  Lifecycle
file and queue are two writes (`save`), and so are the revert of a failed integration
and its record.

**Orchestrator** is the autopilot over discovery, decision and execution.  Its
memory is the disk; a branch is the sequence of its commits, so "is an ancestor"
is "is a prefix".  Tasks' own commands appear by their outcome, in the detail the
decisions depend on.  A failure is retried as `withInfrastructureRetry` does
(`Fail`), the resolution of a specification gap may stop after any of its
statements (`AmendmentSteps`), discovery may refuse (`DiscoveryRefuses`), and an arm
that is followed by a decision its caller does not expect ends the run (`GoesOn`:
UNHANDLED_ORCHESTRATION_STATE, as after `cluster:verify` when the review is next).

**ProductFactory** is the convergence loop, the supervisor, the escalation and the
maintenance, each failure the class its code falls in; attempt files and branches
survive the process.

**GatedMerge** is what all delivery paths promise: a unit of code is merged only
after it was verified, and neither is taken back.  Each path's refinement mapping
ends its module: verified and merged are heads with a VERIFY pass (tick), commits
the verifier passed and merge entries of the branch (merge queue), product commits
that `cluster:verify` passed and that lie below a review (autopilot), heads with an
authoritative approval (package).

The `MC*` modules give the constants values.  `MCDelivery` and `MCPlatform` put
parts that share no state into one model: `active` names the part a behaviour is
about, the variables of the others stand still.  No interleaving is lost, since
there is none between them.  Each extends the parts that theorems are about, so
that run and theorem speak of the same definition: `MCDelivery` extends
`FactoryTick`, `TaskDelivery`, `Orchestrator` and `FactoryPackage`, and `MCPlatform`
`RecoveryContinuity`, `ToolCore`, `AgentRun`, `FactoryMilestone` and `ProductFactory`;
that is why their variables have different names and their `Init`, `Next` and `Spec`
a prefix (`DeliveryInit`, `ToolNext`, `AgentSpec`).  A part that a run explores once
more with other constants is an instance over the same variables: `Parallel` and
`Budgets` in `MCDelivery`, `Retries` in `MCPlatform`.  `MCOutbox` does the same with the
two halves of the alerts package, both of which it extends, and
`MCScheduler` with two uses of the scheduler (`use`): one admin without failures,
and a dying admin with changes by hand and the reconciler.

## 4. Runs

| Run | Bounds | Shows |
|---|---|---|
| `lease` | two callers, five ticks, four versions | `AtMostOneLiveHolder`, `FencingTokenExclusive`, `ImplementsFencedLease` |
| `steps_safety` | two steps, two dying workers, one operator, two failures a step, one takeover | `SingleExecutor`, `CompletedStepIsFinal`, `CompletedRunIsComplete`, `AttemptKeysAreFresh` |
| `steps_settle` | one step, two workers, one operator that may die in a retry and repeat it | `RetriesAreBounded`, `DeadLetterIsListed`, `ClaimedStepSettles` |
| `trigger_safety` | three handlers, three messages of which two collide, two spellings of an id, both faults | `OneStarter`, `NamedRunExists`, `RunsAreNotShared` |
| `outbox_safety` | three dying workers, a throwing adapter, three retries; alerts with two scores over three ticks | `DeliveredWasSent`, `SentOnlyWhenDue`, `AttemptsAreCalls`, `AlertsStayTrue` |
| `schedule` | serial: one admin, two schedules, six operations; repair: one dying admin, four operations, one change by hand, the reconciler | `CrudKeepsInSync`, `VersionsAreNumbered`, `LegalTransitions`; `ReportsAreComplete`, `ReconcilerConverges` |
| `delivery` | see below | `ImplementsGatedMerge` (tick), `QueueImplementsGatedMerge`, `AutopilotImplementsGatedMerge`, `PackageImplementsGatedMerge`, `MergedWasReviewed`, `WorkRestsOnIntegratedClusters`, `MergedIsIntegrated`, `CompletedIsMerged`, `NoDuplicateEffect`, `WorkIsPreserved`, the types and budgets (`PathTypeOK`) |
| `platform` | see below | `AuditIsTruthful`, `ForkIsFinal`, `BudgetsAreKept`, `ConfirmationIsEarned`, `FactoryWorkIsSound`, `RunsAndTransitionsSettle`, the types and counters (`PartTypeOK`) |

Bounds.  Two processes are enough for every race in the leases and steps, since
each statement involves one row and one other writer.  Several threads that share
an owner name are left to the proof of `TokenExclusivity`, which puts no condition
on `OwnerOf`.  Two or three ticks let a lease be taken, expire, be taken over and
expire again.  `steps_safety` uses a class that is dead-lettered at its first
failure, so that two failures are two trips through the dead-letter queue;
`steps_settle` uses a retried class and a failure bound above its `MaxAttempts`, so
that the bound is never what stops a retry.  Six operations take a schedule through
create, edit, enable, pause, disable and delete.

`delivery` has six instances.  *runner*: two tasks, the second depending on the
first, leases that expire and are renewed and recovered, one amendment, one death.
*parallel*: two independent tasks, leased once and not amended, so that the merge of
one makes the verified commit of the other stale.  *autopilot*: two clusters of one task, in five
projects (chained with and without a specification gap and with either merge
method, or side by side), six commits, three events of the environment, one repair
and one correction.  *tick*: two heads, three commands, one death.  *package*: two
heads, two reviews, one death.  *budgets*: every budget of a package at one and a
replan, without deaths.  A second head, amendment or base is what each gate has to
tell apart from the first, and one death can fall between any two steps.

`platform` has six.  *recovery*: two callers with four operations on one backup
and one drill: enough for a fork of the chain at every point of a drill or a recovery
and for everything after it.
*tool*: three calls, two ticks and a lifetime of one: a leader, one that joins and
one that comes after expiry.  *agent*: five requests, from a goal without tools to a
deep research with three, each limit 0, 1 or 4 with at most two tight ones, and a
skeptic with three tools of which two have a handler.  *factory*: two milestones, five heads, two
deaths, every call budget at one or two.  *product*: one kind of failure at a time
(those that are handled alike together), every budget one, one death.  *retries*:
a second attempt at a pull request with red checks and a moving base.

What the runs deliberately leave out, and why:

- In `steps_safety` the operator does not die.  `retryDeadLetterFromCheckpoint`
  resets the step before it marks the item, without looking at the step's status;
  an operator that dies in between, or a second one at the same time, retries the
  item again and makes a step PENDING that has been completed or is being executed.
  `CompletedStepIsFinal` and `SingleExecutor` both fail then, so they are claimed
  for an operator that finishes.
- In `steps_settle` the run has one step: with two, an operator that keeps dying in
  its retry of one step can keep the workers on that step for ever, since which of
  two equally old steps is taken is up to the database.
- In `steps_settle` no worker dies: one that dies after its claim leaves the step
  RUNNING for ever, and one that dies between the UPDATE of the step and the INSERT
  of the dead letter leaves a dead-lettered step without an item.
- `LegalTransitions` is about the operations of `SchedulerService`, without the
  reconciler beside them.
- The task programs of `delivery` run with `Overlap = FALSE`, one command after the
  other, as the autopilot and an operator call them.  Two that run at once write
  back documents they read before, and a merged task can go back to an earlier state.
- The autopilot of `delivery` runs with `PushInWindow = FALSE`: nobody pushes
  between the last look at a pull request and its merge.

What the models assume of programs that are not here: GitHub lists an issue once it
was created; the session manager AO keeps the workspace of a session it kills, cleans
up the workspaces of dead sessions or preserves them, and makes a new workspace when a
session is restored; `git` and `gh` do what they answer, while an answer may be lost.

Runs that expect a violation each refute one sentence of the repository; the
findings of `PROJECT.json` quote it:

| Run | The code |
|---|---|
| `stale_commit` | a worker whose lease was taken over still commits |
| `trigger_lost` | a failing query after the inbox row loses the trigger |
| `outbox_unbounded` | FAILED is rejected by the table, so retries never end |
| `review_unseen` | discovery looks for the review in the root checkout, where it is not, so an accepted review is asked for again |

Claims that the models state and TLC refutes, without a run of their own.  To see
one fail, give it to the run of its component as INVARIANT or PROPERTY, with the
change described:

| Claim | What happens |
|---|---|
| `ClaimedStepSettles` under `PollingSpec` with a dying worker (`WorkflowSteps`) | a step whose worker died stays RUNNING: no handler takes up RUNNING steps (`workflow-runtime/src/index.ts:375`; `durable-workflow-core.spec.ts:67` expects a resume) |
| `LegalStep` beside the reconciler (`Scheduler`) | the repair puts back a row it listed before an admin disabled it: DISABLED becomes ACTIVE (`scheduler/src/index.ts:703`, against the table at :134) |
| `AgeIsOfItsValue` (`ToolCore`) | `freshnessAt` is read after an await and may be that of a later load (`tool-core/src/index.ts:121`) |
| `ActionablePassedGates` (`AlertLifecycle`) | a raised score alone makes an early watch ACTIONABLE (`lifecycle.ts:351`, PRD FR-ALERT-003) |
| `PassedOnWholeChain` (`RecoveryContinuity`) | an append that forks the chain between a drill's check of it and the UPDATE of the drill lets the drill pass on a forked chain (`recovery-continuity.ts:477`, :550) |
| `HeldBackupIsKept` (`RecoveryContinuity`) | a hold placed between the SELECT of the holds and the UPDATE does not keep the backup (`recovery-continuity.ts:273`, :280) |
| `MergedHeadWasGreen` (`FactoryTick`) | a required check without a conclusion yet counts as passed (`collector.py:54`; `docs/factory/control-plane-v2.md:99` wants "exact-head required CI PASS") |
| `OneSession` (`FactoryTick`) | when `ao session list` fails, the scan behind it finds no session of the branch and a second one is created (`adapters/ao.py:35-46`, :69; `executor.py:30` "itself reconciles externally, safe to retry") |
| `NoWorkIsLost` (`FactoryPackage`) | a worker that commits after the look for commits and before it is killed loses the commit to the cleanup (`controller.py:1031`, :1037, :1042; :1050 "a supposedly clean worktree") |
| `FailedDispatchIsFinal` (`FactoryPackage`) | a review dispatch that was given up is claimed anew under the same key once the package is handled again (`controller.py:1756`; `tests/factory/test_review_dispatch_idempotency.py:826`, :1217) |
| `PlanIsLoadable` (`FactoryMilestone`) | a replan that adopts a known package by its fingerprint and names it as well lists it twice, and the plan no longer loads (`reasoning.py:1793-1961`, `models.py:196`, `config.py:249`) |
| `FencingNeverGoesBack` (`TaskDelivery`) | the verifier writes the document it read before a renewal back, without the lock (`verify.ts:404`; `docs/implementation/agent-control-plane.md:7`) |
| `PathLocksAreExclusive` with `SharesLock` (`TaskDelivery`) | a renewal does not look for lock conflicts (`tools/agent/lifecycle.ts:112`) |
| `MergedWasReviewed` with `PushInWindow = TRUE` (`Orchestrator`) | `gh pr merge` names no head, so a push just before it is merged with the rest (`tools/agent/lib/github.ts:212`) |
| `CorrectionIsRetried` (`ProductFactory`) | the branch of a failed correction is in the way of the next one at the same commit (`factory.ts:350`) |

Further behaviours of the code that the models contain and no run of their own
demonstrates: an early duplicate of a trigger is answered with no run (its row is
not linked yet); a delivery worker that dies after the adapter call makes the
message go out twice, and a slower worker can turn DELIVERED back into RETRY; two
enables of one schedule create two external schedules, the first of which
`reconcileSchedules` neither compares nor reports; the repair of a missing external
schedule creates it unpaused also for a PAUSED row, until the next repairing pass;
`create` inserts the version before the schedule, which the foreign key of
`DatabaseScheduleStore`'s table rejects (`Store = "database"` in `Scheduler`); a
tool call that missed the cache before another call's store loads the value again;
concurrent appends fork the backup audit chain; the convergence fallback of the
factory takes gaps for an error and blocks; when a statement after the merge of a
specification amendment fails (`autopilot.ts:761-771`), the gap is closed and its
task stays BLOCKED, which `resolveSpecificationGap` no longer looks for.

Fairness.  `WorkflowSteps!FairSpec` is weak fairness of the steps of a call
under way: an awaited promise settles.  `PollingSpec` adds that workers are
started again, as any scheduler of a durable workflow does.  `MCScheduler` has
weak fairness of operations and passes under way and strong fairness of starting a
repairing pass, since reporting passes may also be chosen: the PRD calls it "a
reconciliation job".  `MCPlatform` has weak fairness of a program that is running:
a tool call resumes when what it awaits is settled; the agent runtime takes its own
steps, and the tool that will answer (`await`, `asked`) does.  Whether it will is a
choice of the step that calls it: a tool that hangs (`hung`, `unheard`) is under no
fairness, only an abort ends its await, in the loop, and neither the deadline nor the
abort does in the skeptic.  `RunsAndTransitionsSettle` therefore says that a run ends
or stands in such an await (`Hangs`).  The factory loop goes on to its next step and is
started again after a death (`Restart` in `chainsieve-factory.service`), and so
does the product factory, whose commands all have timeouts.  Nothing is assumed of crashes, drift,
new requests, pushes, reviews or checks.  Deadlock checking is off where processes
may all be idle for good.

## 5. Proofs

Each proof module extends its components and proves, for all values of the
constants, what the runs check on small ones.

*WorkflowLeaseProofs.*  `AtMostOneLiveHolder` is not inductive: whether a
compare-and-swap is right depends on a row read earlier.  `IInv` adds that the
version identifies the row (`VersionIdentifiesRow`: if the version still
matches, the row is the one read), what the read established about it
(`ReadJustifiesWrite`), that clock readings are in the past, and that tokens are
former grants (`TokensAreGrants`).  From it follow `TypeCorrectness`,
`TokenExclusivity`, `Refinement` (each write is a `Grant`, every other step a
stutter or a `Tick`), and, assuming `OwnerOf` is injective, `MutualExclusion`
through one more invariant: a superseded token has expired
(`SupersededIsExpired`).

*TriggerInboxProofs.*  `IInv` says a starting handler owns the RECEIVED row of its
message, a run exists before it is linked, and a linked run is the one derived
from the message's inbox id, which no other row has.  `SingleStart`,
`NamedRunsExist` and `RunsUnshared` follow.  The only assumption on the hash is
that run ids are derived injectively from inbox ids.

*AlertsProofs, the outbox.*  `IInv` says what a worker between two statements has to show: a
count it read that later counts only overtake, a call, and a sent message when it
is about to record a delivery.  `NoLostNotification`, `ShadowIsSilent` and
`AttemptsBounded` follow for any number of workers.

*AlertsProofs, the alert lifecycle.*  `AlertIInv` says that the validity of a live
alert equals that of the alert its updates go back to; from "at most" alone the next
update would not follow.  `AlertsAreTrue` is proved for any scores and lifetimes.

*WorkflowStepsProofs.*  None of the step properties is inductive, since no
statement reads the lease and an operator may reset any step.  `IInv` is the
conjunction of: the rows a worker relies on exist (`RowsExist`); a step in execution
is RUNNING and names its executor (`ExecutorOwnsStep`); failures are numbered by the
attempt column, so that the keys of two failures being recorded differ
(`FailuresAreNumbered`); a step on its way to the dead letters is in one worker's
hands and an open item is the only one of its step (`DeadLettersAreOrderly`); a
verdict that completes the run is still right when it is written (`VerdictHolds`); a
step that may run again has retries left (`RetriesLeft`); a dead letter without an
item is about to get it (`ListingGoesOn`).  What it says of a step holds while the
step has no dead letter (`Unlisted`), or always when there is at most one operator
and it does not die (`Reliable`): that is exactly how far the code's guarantees go,
see "what the runs leave out".  So `ExecutorIsUnique`, `CheckpointIsFinal`,
`RunCompletionIsSound` and `AttemptKeysStayFresh` assume `Reliable`,
`DeadLettersGetListed` assumes that no worker dies, and `FailuresAreBounded`,
`StepsInvariant` and `TypeCorrectness` assume nothing.  `steps_safety` has one
operator that does not die and dying workers, `steps_settle` the reverse, so both
hypotheses are met by runs.

*FactoryProofs, the tick.*  `IInv` adds to the types and to `NoDuplicateEffect` (one
issue at most, and no more sessions than one and those that a failed look missed) that a
sound VERIFY pass is on record wherever it has got to (`PassesAreVerified`: review
store, observation, merge command, merged pull request), which is what makes the
merge of a command decided on an old observation a step of the gate.
`EffectsHappenOnce` and `Refinement` follow, for any number of heads, commands and
deaths.

*FactoryProofs, the package controller.*  Nearly every handler saves a whole record
from a snapshot taken at the start of the tick.  `PackageInv` therefore adds to the
types what the snapshot still tells (`SnapshotFits`: what `reconcile` leaves to the
handlers of the same tick saw an open pull request, a READY package has no branch
to lose) and that an approving run with the marker of its own head is a known
approval (`ApprovalIsKnown`).  From it follow the types with every budget of the
configuration (`PackageTypeCorrect`), `CompletedAlwaysMerged`, the refinement of
`GatedMerge` (`PackageRefinesGatedMerge`) and `WorkAlwaysPreserved`: what was on the
branch when the controller looked survives, which is as far as the code goes
(`NoWorkIsLost` is refuted above).

*DeliveryProofs, the merge queue.*  `DeliveryInv` is the types, what a program
between two of its steps relies on (`UnderWay`), and that every result and every
entry of the branch is of a commit that passed (`EvidenceIsPassed`).  That is enough
for `QueueRefinesGatedMerge`, without a hypothesis: the unlocked writers of the
lifecycle file may lose states, but not put an unverified commit on the branch.
`MergedStaysIntegrated` relates the document to the branch, which writers of old
copies do spoil; it assumes `~Overlap`.  `SerialInv` then adds that a program's copy
is the document on disk whenever it will be written back (`OneProgram`) and that a
merge being integrated is the newest entry (`IntegratingNewest`), because a failed
integration reverts the newest one.

*DeliveryProofs, the autopilot.*  `AutopilotInv` says where commits can be: a
worktree or a remote has a local branch (`BranchesStand`), ids are handed out in
order (`Numbered`), a review is on one cluster's branch and reaches main only by
that cluster's merge (`ReviewsAreOwn`), results name commits that passed
(`ResultsAreAccepted`), and between the report and the merge the local branch is the
reviewed one (`WindowIsReviewed`).  Branches are sequences, and "is an ancestor" is
"is a prefix", which needs no induction.  `AutopilotTypeCorrect` and
`WorkRestsAlways` follow for every project; `OnlyReviewedIsMerged` and
`AutopilotRefinesGatedMerge` assume `~PushInWindow`, since `gh pr merge` names no
head.

*SchedulerProofs.*  `SchedulerInv` holds for any number of admins: what an
operation knows at each of its places (`AdminFits`), what a pass knows (`PassFits`),
and, by counting, that an operation about to add a version finds an unused id and a
number in range (`VersionsFit`): `SchedulerTypeCorrect`.  The others:

| Theorem | Assumes | On top of `SchedulerInv` |
|---|---|---|
| `VersionsAlwaysNumbered` | `OneAdmin` | `NumberInv`: the row an operation or a pass has read still names the current version, even where its other columns are stale |
| `TransitionsAreLegal` | `OneAdmin` | `CalmInv`: in a calm history an operation puts back the row that is there |
| `CrudAlwaysInSync` | `OneAdmin`, `Attached = Admins` | `SyncInv`: between its two writes an operation leaves QStash exactly one call ahead of the table |
| `ReportsAlwaysComplete` | `~FreshExternal`, `Attached = Admins` | `LinkInv`: a row names its own external schedule; `ReportInv`: what an undisturbed pass has seen so far is so |

The hypotheses are where the code's guarantees end.  With two admins, an `enable`
that read the row before an `editDraft` puts the old version back and the next
edit's number is given again, transitions come from stale rows, and the first of
two external schedules is lost.  An admin whose service has no external scheduler
changes the table only.  Where QStash gives out an id per create, a lost one is
named by no row, and `reconcileSchedules`, which keeps one external schedule for
each, can report that nothing is wrong.  `SchedulerAssumption` says that schedules
are no numbers: schedule ids are UUIDs, and numbers stand for the ids that QStash
gives out.  `schedule` runs *serial* with one admin whose service has QStash, and
*repair* with derived ids, so all four hypotheses are met by runs.

*PlatformProofs, recovery.*  `AuditIsTruthful` alone says nothing of the row a
caller is about to append; `IInv` adds that it is true too (`PendingIsTruthful`) and
that the caller carries what its next statement needs (`CarriesItsRow`), because an
audit row in the middle of a longer operation returns into it.  `ForksAreFinal` is an
action property: an append keeps every earlier row, so two rows with one predecessor
stay two, and what reads `ChainValid` finds it false; who read it before the fork and
has yet to write (`FoundSound`) is the exception the code leaves.  No hypotheses: any number of
callers, all of which may die.

*PlatformProofs, the agent.*  `CallsWithinBudget` counts the handlers that were
called; `ChargesFit` says that each call was charged to all four budgets before it
was made, so a late answer, an abort or an overrun found afterwards cannot add one
(`CallsStayWithinBudget`).  A skeptic that has found nothing is not yet a skeptic
that has asked: `SkepticInv` says that while it has found nothing, every tool it
must ask has answered or is still on its list, and `ConfirmationsAreEarned` follows
when the list is empty.

*PlatformProofs, the agent's plan.*  `Taken` is a recursive function: the calls of
the first *i* steps.  The induction theorems are out of the prover's reach, but a
smallest counterexample is not (`Least`): `TakenIs` shows that the function's equation
has a solution, so that it can be unfolded, and `TakenFits` that no limit is exceeded,
since the first step after which one were would have taken no more than `Room` leaves.
`RunInv` then carries what a run has used along its plan, also past a call whose answer
never came, and `PlansAlwaysFit` follows: once a run has called a tool, its own tracker
does not stop it for want of what the planner knew of.  A budget error that a tool
raises is an outcome of its own (`TOOL_RAISED`).

*PlatformProofs, the tool core.*  `FlightInv` says who leads holds the flight until
its promise settles.  `FlightsAreSingle` follows for any number of calls.

*PlatformProofs, the milestones.*  The files are written one after the other, so what
one of them says has to be true of the others at every point at which the controller
may die.  `MilestoneInv` adds to the types that a convergence recorded in the metadata
or carried by the process was found (`EvidenceIsReal`), and that the usage file counts
a planner call before it is made (`CallsAreUsage`).  From it follow
`MilestoneTypeCorrect`, `PlannerCallsStayBounded`, `LeftMilestonesAreSettled` and the
action property `DurableWorkIsKept`: a plan delta is merged with the packages of the
plan on disk, so those it does not name stay.

*PlatformProofs, the product factory.*  An attempt has the
number of those on file for its failure and commit.  `ProductInv` relates the attempt
files, the branches and the process (`AttemptsAreRecorded`: an attempt is on file
before it is made, and every branch of a recovery has its attempt there), says what each place of
the process may carry (`ProcessFits`) and that a patch past its checks carries the
proof for its present content (`PushedIsProved`).  `ProductTypeCorrect`,
`RecoveriesStayCounted` and `MergedStaysProved` follow, for any failures, budgets and
deaths.

*The compositions.*  `PartsAreTyped`, `BudgetsStayKept` and `FactoryWorkStaysSound`
(PlatformProofs) and `PathsAreTyped` (FactoryProofs) state the composed properties of
the runs `platform` and `delivery` for `MCSpec`: a step of one part is a step or a
stutter of every other, so the inductive invariants hold side by side (`PartsInv`,
`PathsInv`).  They assume that the parts explored do not include the repeated ones
(`retries`; `parallel` and `budgets`), which are `ProductFactory`, `TaskDelivery` and
`FactoryPackage` with other constants: the theorems on those modules speak of them,
as they hold for all constants, while the composition under its one name has two sets
of constants at once.

`Bounds`, the hypothesis of the tick, alert and composition theorems, says that the
bounds are natural numbers and that required checks are checks.  Each inductive
invariant was also checked by TLC; they can be given to the run of their component as
INVARIANT, with a small set for `Nat` where they quantify over it (in `delivery` and
`platform` they hold of the part whose constants they speak of, whichever part is
active).  The exception is `RunInv`, one conjunct of which asserts that a function
exists.

Only model-checked, and why:

- All liveness (`ClaimedStepSettles`, `ReconcilerConverges`,
  `RunsAndTransitionsSettle`): fairness and ENABLED are out of the prover's reach.
- The compositions with their repeated parts, for the reason given above.

## 6. Not modelled

Whole components, with status `not_modelled` in `PROJECT.json`:

- The walking skeleton runs its stages in one transaction; the collectors, the
  domain tables, the admin store, the request limiter and the registries change
  memory synchronously or nothing at all.  There is no interleaving and no partial
  state to explore.
- Signal funnel and evaluation compute floating-point scores and statistics, which
  are out of TLC's reach.
- The PRD compiler, the harnesses, provider adapters, trusted execution and
  conformance checks, pool adapters, decoders, object stores, security guards,
  persistence and dashboard are parsing, I/O or declarations.  Where other code
  depends on their answers (a verdict of a verifier's command, a provider's reply,
  a constraint of a table) the answer is a choice, or the constraint a guard, in
  the model of that code.

Within modelled components: backoff times and jitter, hashes other than as
functions, request validation and signatures, wording of errors, prompts, incidents
and events, read-only operations, the shape of receipts and results beyond the
commit and lease they bind, the value-of-information planner and the finding
classifier (pure computations on texts and scores), state files damaged by hand,
and two product factories over one repository at once.
