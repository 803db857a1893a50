---------------------------- MODULE TaskDelivery ----------------------------
(***************************************************************************)
(* The delivery of a task: tools/task-runner (lifecycle document, leases,  *)
(* self-review), tools/agent/lifecycle.ts (renew, recover),                *)
(* tools/task-verifier/verify.ts, tools/merge-queue/processor.ts and       *)
(* tools/worktree-manager/manager.ts.                                      *)
(*                                                                         *)
(* Every program reads the whole lifecycle document task-state.json,       *)
(* changes its copy and writes the whole document back.  The task-runner   *)
(* and the renewal commands do so under the mutation lock; the verifier    *)
(* and the merge queue take no lock.  `doc` is the document on disk;       *)
(* `cli`, `verifier` and `merger` are the three programs with the copies   *)
(* they work on.                                                           *)
(*                                                                         *)
(* A commit is the record [task, rev, base]: the rev-th amendment of the   *)
(* task's single commit on top of position `base` of the cluster branch.   *)
(* `branch` is that branch: the commits fast-forwarded onto it and the     *)
(* automatic reverts.  Hashes, receipts and file contents are abstracted   *)
(* to the commit and the fencing version they bind.                        *)
(***************************************************************************)
EXTENDS Integers, Sequences

CONSTANTS Tasks, DependsOn, SharesLock, Ttl, Overlap,
          MaxVersion, MaxRev, MaxTime, MaxDeaths, MaxQueue, MaxCluster

\* Dependencies are between tasks of the release; time and fencing versions are
\* natural numbers.
ASSUME DeliveryAssumption ==
    /\ DependsOn \in [Tasks -> SUBSET Tasks] /\ Overlap \in BOOLEAN
    /\ {Ttl, MaxVersion, MaxRev, MaxTime, MaxDeaths} \subseteq Nat

VARIABLES doc, receipts, worktree, branch, results, staleResults, queue,
          cli, verifier, merger, now, deaths, passed

deliveryVars == <<doc, receipts, worktree, branch, results, staleResults, queue,
                  cli, verifier, merger, now, deaths, passed>>

\* The missing commit, review, result or worktree; a receipt not yet written.
None == [rev |-> 0]
Unwritten == -1
Revs == 1..MaxRev
Commits == [task : Tasks, rev : Revs, base : Nat]
Protected == {"LEASED", "IMPLEMENTING", "SELF_REVIEWING", "VERIFYING",
              "VERIFIED", "MERGE_QUEUED"}
States == Protected \cup {"DRAFT", "VALIDATED", "READY", "MERGED", "REVERTED"}

\* transition: the one state that may follow, for every state of the path.
Successor == [DRAFT |-> "VALIDATED", VALIDATED |-> "READY", READY |-> "LEASED",
              LEASED |-> "IMPLEMENTING", IMPLEMENTING |-> "SELF_REVIEWING",
              SELF_REVIEWING |-> "VERIFYING", VERIFYING |-> "VERIFIED",
              VERIFIED |-> "MERGE_QUEUED", MERGE_QUEUED |-> "MERGED"]
Transitioned(d) == [d EXCEPT !.state = Successor[d.state]]

\* initialTask, and what releaseLease leaves of a lease.
Unleased == [state |-> "DRAFT", version |-> 0, expires |-> 0, base |-> 0,
             commit |-> None, review |-> None, result |-> None, recovery |-> 0]

\* TaskState, and the documents the worktree manager accepts (lifecycle).
Reviews == [commit : Commits, version : Nat]
Results == [commit : Commits, version : Nat, review : Reviews]
TaskStates == [state : States, version : 0..MaxVersion, expires : Nat, base : Nat,
               commit : Commits \cup {None}, review : Reviews \cup {None},
               result : Results \cup {None}, recovery : 0..MaxVersion]
LifecycleDocuments == [Tasks -> TaskStates]

Idle == [pc |-> "idle"]

\* Nothing keeps the three programs from running at once; an operator, or the
\* autopilot, that runs one command after the other has Overlap = FALSE.
MayStart(others) == Overlap \/ others \subseteq {Idle}
-----------------------------------------------------------------------------
(* The git side of a task: its worktree and the cluster branch.            *)

Position == Len(branch)
InCluster(c) == \E i \in DOMAIN branch :
                    branch[i].kind = "merge" /\ branch[i].commit = c
\* The newest entry of the branch that is of a task's commit.
Latest(t, i) == /\ branch[i].commit.task = t
                /\ \A j \in DOMAIN branch : branch[j].commit.task = t => j <= i
\* The patch of a task is on the branch and has not been reverted.
Integrated(t) == \E i \in DOMAIN branch : Latest(t, i) /\ branch[i].kind = "merge"
\* HEAD of the task's worktree as a commit of its own, None at a cluster commit.
TaskHead(t) == IF worktree[t] = None \/ worktree[t].rev = 0 THEN None
           ELSE [task |-> t, rev |-> worktree[t].rev, base |-> worktree[t].base]
Unmerged(t) == TaskHead(t) # None /\ ~InCluster(TaskHead(t))
-----------------------------------------------------------------------------
(* Leases.                                                                 *)

\* assertCredentialForTarget: the fenced, unexpired lease of a protected task.
Valid(d, version, at) ==
    d.state \in Protected /\ d.version = version /\ d.expires > at

Live(d) == d.state \in Protected /\ d.expires > now

\* acquire and assertPathLocks: another live task shares an exclusive lock.
PathConflict(s, t) == \E u \in Tasks \ {t} : <<t, u>> \in SharesLock /\ Live(s[u])

\* refreshReady: every validated task whose dependencies are merged.
Refreshed(s) ==
    [t \in Tasks |->
        IF s[t].state = "VALIDATED" /\ \A u \in DependsOn[t] : s[u].state = "MERGED"
        THEN [s[t] EXCEPT !.state = "READY"] ELSE s[t]]

\* resetAfterRebase: back to review on the new base, all evidence deleted.
Reset(d, c) == [d EXCEPT !.state = "SELF_REVIEWING", !.base = Position,
                         !.commit = c, !.review = None, !.result = None]

\* A review counts under the lease it was made under, and under the one that
\* lease was recovered by.
ReviewBound(review, d) ==
    \/ review.version = d.version
    \/ d.recovery = d.version /\ review.version = d.version - 1

\* What the verifier attests: the commit with its files, tests and command
\* outputs, the lease, and the review the verdict rests on.
TaskResult(c, d) == [commit |-> c, version |-> d.version, review |-> d.review]

\* validateSelfReview: the review in the result is of the same commit, and
\* bound to the lease of the result.
ResultReviewed(r, d) == r.review.commit = r.commit /\ ReviewBound(r.review, d)

\* validateTaskAttestation: the result file is bound to the lease and the
\* commit of the task, and the evidence ledger has not marked it stale.
TaskAttested(t, d) ==
    /\ results[t] # None
    /\ results[t].version = d.version
    /\ results[t].commit = d.commit
    /\ ResultReviewed(results[t], d)
    /\ d.result # None => results[t] \notin staleResults

DeliveryInit ==
    /\ doc = [t \in Tasks |-> Unleased]
    /\ receipts = [t \in Tasks |-> [kind \in {"renew", "recover"} |->
                                        [v \in 1..MaxVersion |-> Unwritten]]]
    /\ worktree = [t \in Tasks |-> None]
    /\ branch = <<>>
    /\ results = [t \in Tasks |-> None]
    /\ staleResults = {}
    /\ queue = <<>>
    /\ cli = Idle /\ verifier = Idle /\ merger = Idle
    /\ now = 0 /\ deaths = 0 /\ passed = {}

git == <<worktree, branch>>
evidence == <<results, staleResults, passed>>
clock == <<now, deaths>>
-----------------------------------------------------------------------------
(* The worktree manager, and the agent that commits in the worktree.       *)

\* createTaskWorktree: a new worktree at the cluster head; an existing one
\* without commits and without an active lease is reset to it.
CreateWorktree(t) ==
    /\ \/ worktree[t] = None
       \/ worktree[t] # None /\ ~Unmerged(t) /\ ~Live(doc[t])
    /\ worktree' = [worktree EXCEPT ![t] = [base |-> Position, rev |-> 0]]
    /\ UNCHANGED <<doc, receipts, branch, evidence, queue, cli, verifier, merger, clock>>

\* cleanupTaskWorktree: never under an active lease nor with unmerged commits.
CleanupWorktree(t) ==
    /\ worktree[t] # None /\ ~Live(doc[t]) /\ ~Unmerged(t)
    /\ worktree' = [worktree EXCEPT ![t] = None]
    /\ UNCHANGED <<doc, receipts, branch, evidence, queue, cli, verifier, merger, clock>>

\* The agent creates or amends the single commit of its worktree.
AgentCommits(t) ==
    /\ worktree[t] # None /\ worktree[t].rev < MaxRev
    /\ worktree' = [worktree EXCEPT ![t].rev = @ + 1]
    /\ UNCHANGED <<doc, receipts, branch, evidence, queue, cli, verifier, merger, clock>>
-----------------------------------------------------------------------------
(* The task-runner's commands: the lock, the read, one operation, the      *)
(* write.  The lock is held while cli is not idle.                         *)

Locked == cli # Idle
CliOpen ==
    /\ ~Locked /\ MayStart({verifier, merger})
    /\ cli' = [pc |-> "open", copy |-> doc]
    /\ UNCHANGED <<doc, receipts, git, evidence, queue, verifier, merger, clock>>

CliWrite(s) ==
    /\ doc' = s
    /\ cli' = Idle
    /\ UNCHANGED <<receipts, git, evidence, queue, verifier, merger, clock>>

CliUpdate(t, d) == CliWrite([cli.copy EXCEPT ![t] = d])

Validate(t) ==
    /\ cli.copy[t].state = "DRAFT"
    /\ CliUpdate(t, Transitioned(cli.copy[t]))

MarkReady(t) ==
    /\ cli.copy[t].state = "VALIDATED"
    /\ \A u \in DependsOn[t] : cli.copy[u].state = "MERGED"
    /\ CliUpdate(t, Transitioned(cli.copy[t]))

\* acquire: a fresh fencing version for a ready task whose locks are free.
\* The base is HEAD of the task's worktree.
Acquirable(s, t) == s[t].state = "READY" /\ ~PathConflict(s, t) /\ s[t].version < MaxVersion
Acquire(t) ==
    LET d == cli.copy[t] IN
    /\ worktree[t] # None /\ worktree[t].rev = 0
    /\ Acquirable(cli.copy, t)
    /\ CliUpdate(t, [Transitioned(d) EXCEPT !.version = @ + 1, !.expires = now + Ttl,
                                            !.base = worktree[t].base])

\* begin on the untouched base, or checkpoint-adopt with one atomic commit.
Begin(t) ==
    LET d == cli.copy[t] IN
    /\ worktree[t] # None /\ worktree[t].base = d.base
    /\ d.state = "LEASED" /\ Valid(d, d.version, now)
    /\ CliUpdate(t, Transitioned(d))

\* performTaskSelfReview: a review of one atomic commit on the base, under the
\* lease of the task.
Reviewable(t, d) == TaskHead(t) # None /\ TaskHead(t).base = d.base
TaskReview(c, d) == [commit |-> c, version |-> d.version]

\* self-review: of an implementation, or of one whose review was cut short.
SelfReview(t) ==
    LET d == cli.copy[t]  c == TaskHead(t) IN
    /\ Valid(d, d.version, now) /\ Reviewable(t, d)
    /\ \/ /\ d.state = "IMPLEMENTING"
          /\ CliUpdate(t, [Transitioned(d) EXCEPT !.commit = c, !.review = TaskReview(c, d)])
       \/ /\ d.state = "SELF_REVIEWING" /\ d.review = None
          /\ CliUpdate(t, [d EXCEPT !.review = TaskReview(c, d)])

\* correctTaskSelfReview and refreshTaskSelfReview take the mutation lock their
\* command already holds.  The owner of the lock is alive: the second
\* acquisition is refused, and what they would write is not written.
WriteUnlessLocked(s) == CliWrite(IF Locked THEN doc ELSE s)
Rebound(d, c) == [d EXCEPT !.commit = c, !.review = TaskReview(c, d)]

\* validatePreviousEvidence: the review that is replaced covers the commit the
\* lifecycle names; the corrected head is another single commit on the base.
PreviousEvidence(d) == d.review # None /\ d.review.commit = d.commit
CorrectedHead(t, d) == TaskHead(t) # d.commit /\ Reviewable(t, d)
SelfReviewCorrect(t) ==
    LET d == cli.copy[t] IN
    /\ d.state = "SELF_REVIEWING" /\ Valid(d, d.version, now)
    /\ PreviousEvidence(d) /\ CorrectedHead(t, d)
    /\ WriteUnlessLocked([cli.copy EXCEPT ![t] = Rebound(d, TaskHead(t))])

\* A passing review of the unchanged commit is bound to the current lease.
ExistingReview(t, d) == d.review # None /\ d.review.commit = TaskHead(t) /\ TaskHead(t).base = d.base
RefreshedReview(d) == [d EXCEPT !.review = TaskReview(d.commit, d)]
SelfReviewRefresh(t) ==
    LET d == cli.copy[t] IN
    /\ d.state = "SELF_REVIEWING" /\ Valid(d, d.version, now)
    /\ d.commit # None /\ TaskHead(t) = d.commit /\ ExistingReview(t, d)
    /\ WriteUnlessLocked([cli.copy EXCEPT ![t] = RefreshedReview(d)])

\* releaseLease: the work is given up, the task is validated again.
Released(d) == [Unleased EXCEPT !.state = "VALIDATED", !.version = d.version]
Release(t) ==
    LET d == cli.copy[t] IN
    /\ Valid(d, d.version, now)
    /\ CliWrite(Refreshed([cli.copy EXCEPT ![t] = Released(d)]))

\* agent:renew and agent:recover write the immutable receipt of the request
\* first; a retry finds it and works with the time the receipt carries.  A
\* first request renews a live lease and recovers an expired one.
LeaseReceipt(t, kind) ==
    LET v == cli.copy[t].version IN
    /\ v \in 1..MaxVersion - 1 /\ cli.copy[t].state \in Protected
    /\ receipts[t][kind][v] = Unwritten => (kind = "recover" <=> cli.copy[t].expires <= now)
    /\ kind = "recover" => worktree[t] # None
    /\ receipts' = IF receipts[t][kind][v] # Unwritten THEN receipts
                   ELSE [receipts EXCEPT ![t][kind][v] = now]
    /\ cli' = [pc |-> kind, copy |-> cli.copy, task |-> t, at |-> receipts'[t][kind][v]]
    /\ UNCHANGED <<doc, git, evidence, queue, verifier, merger, clock>>

\* renewValidLease at the receipt's time; a refusal writes nothing.
Renew ==
    LET t == cli.task  d == cli.copy[t] IN
    /\ cli.pc = "renew"
    /\ CliWrite(IF Valid(d, d.version, cli.at)
                THEN [cli.copy EXCEPT ![t].version = @ + 1, ![t].expires = cli.at + Ttl]
                ELSE doc)

\* recoverExpiredLease: the lease ran out, HEAD is what the lifecycle says,
\* and no other task is active at all, again at the receipt's time.
HeadIsBound(t, d) == d.state = "LEASED" \/ TaskHead(t) = d.commit
Recover ==
    LET t == cli.task  d == cli.copy[t] IN
    /\ cli.pc = "recover"
    /\ CliWrite(IF /\ d.expires <= cli.at /\ HeadIsBound(t, d)
                   /\ \A u \in Tasks \ {t} :
                        ~(cli.copy[u].state \in Protected /\ cli.copy[u].expires > cli.at)
                THEN [cli.copy EXCEPT ![t].version = @ + 1, ![t].expires = cli.at + Ttl,
                                      ![t].recovery = d.version + 1]
                ELSE doc)

CliCommand(t) ==
    /\ cli.pc = "open"
    /\ \/ Validate(t) \/ MarkReady(t) \/ Acquire(t) \/ Begin(t) \/ SelfReview(t)
       \/ SelfReviewCorrect(t) \/ SelfReviewRefresh(t) \/ Release(t)
       \/ \E kind \in {"renew", "recover"} : LeaseReceipt(t, kind)
-----------------------------------------------------------------------------
(* The verifier, without the lock.                                         *)

\* readBoundTaskReview: the review is of HEAD of the worktree, on the base.
BoundReview(t, d) == d.review # None /\ d.review.commit = TaskHead(t)

\* verifyTask up to the first write: the lease, the commit on its base, the
\* review of that commit under this lease or the one it was recovered from.
VerifyBegin(t) ==
    LET d == doc[t]  e == Transitioned(d) IN
    /\ verifier = Idle
    /\ d.state = "SELF_REVIEWING" /\ Valid(d, d.version, now)
    /\ Reviewable(t, d) /\ BoundReview(t, d) /\ ReviewBound(d.review, d)
    /\ doc' = [doc EXCEPT ![t] = e]
    /\ verifier' = [pc |-> "testing", task |-> t, commit |-> TaskHead(t),
                    copy |-> [doc EXCEPT ![t] = e]]
    /\ UNCHANGED <<receipts, git, evidence, queue, cli, clock>>

\* The tests pass: the result file is written, then the document, from the
\* copy read before the tests ran.  An expired lease falls into the handler.
VerifyPass ==
    LET t == verifier.task  d == verifier.copy[t]
        r == TaskResult(verifier.commit, d) IN
    /\ verifier.pc = "testing" /\ TaskHead(t) = verifier.commit
    /\ results' = [results EXCEPT ![t] = r]
    /\ passed' = passed \cup {verifier.commit}
    /\ doc' = [verifier.copy EXCEPT ![t] =
                  IF Valid(d, d.version, now)
                  THEN [Transitioned(d) EXCEPT !.commit = verifier.commit, !.result = r]
                  ELSE [d EXCEPT !.state = "SELF_REVIEWING", !.commit = verifier.commit, !.result = r]]
    /\ verifier' = Idle
    /\ UNCHANGED <<receipts, git, staleResults, queue, cli, merger, clock>>

\* A failed check, or a worktree that moved under the verifier.
VerifyFail ==
    LET t == verifier.task IN
    /\ verifier.pc = "testing"
    /\ doc' = [verifier.copy EXCEPT ![t].state = "SELF_REVIEWING"]
    /\ verifier' = Idle
    /\ UNCHANGED <<receipts, git, evidence, queue, cli, merger, clock>>
-----------------------------------------------------------------------------
(* The merge queue, without the lock.                                      *)

\* enqueueTask up to the write of the document; writeQueue comes next, here and
\* whenever the merge queue has recorded how a task ended.
Enqueue(t) ==
    LET d == doc[t]  item == [task |-> t, version |-> d.version, status |-> "QUEUED"] IN
    /\ merger = Idle /\ MayStart({cli, verifier})
    /\ Len(queue) < MaxQueue
    /\ d.state = "VERIFIED" /\ Valid(d, d.version, now) /\ ~PathConflict(doc, t)
    /\ TaskHead(t) = d.commit /\ TaskAttested(t, d)
    /\ ~\E i \in DOMAIN queue : queue[i].task = t /\ queue[i].status = "QUEUED"
    /\ doc' = [doc EXCEPT ![t] = Transitioned(d)]
    /\ merger' = [pc |-> "save", queue |-> Append(queue, item)]
    /\ UNCHANGED <<receipts, git, evidence, queue, cli, verifier, clock>>

WriteQueue ==
    /\ merger.pc = "save"
    /\ queue' = merger.queue
    /\ merger' = Idle
    /\ UNCHANGED <<doc, receipts, git, evidence, cli, verifier, clock>>

\* processMergeQueue takes the first item that is not finished.  `at` is the
\* time at which the program started: later lease checks use it.
Take ==
    LET open == {i \in DOMAIN queue : queue[i].status \in {"QUEUED", "PROCESSING"}}
        i == CHOOSE j \in open : \A k \in open : j <= k
        t == queue[i].task IN
    /\ merger = Idle /\ MayStart({cli, verifier}) /\ open # {}
    /\ doc[t].state = "MERGE_QUEUED" /\ Valid(doc[t], queue[i].version, now)
    /\ ~PathConflict(doc, t) /\ TaskAttested(t, doc[t])
    /\ queue' = [queue EXCEPT ![i].status = "PROCESSING"]
    /\ merger' = [pc |-> IF results[t].commit.base = Position THEN "merge" ELSE "rebase",
                  task |-> t, item |-> i, at |-> now, copy |-> doc]
    /\ UNCHANGED <<doc, receipts, git, evidence, cli, verifier, clock>>

\* The branch moved: rebase the worktree, mark the evidence stale, reset the
\* task.  git drops a commit whose patch is already on the branch.
Rebase ==
    LET t == merger.task  d == merger.copy[t]
        c == IF Integrated(t) THEN None ELSE [TaskHead(t) EXCEPT !.base = Position]
        s == [merger.copy EXCEPT ![t] = Reset(d, c)] IN
    /\ merger.pc = "rebase" /\ Unmerged(t)
    /\ worktree' = [worktree EXCEPT ![t] =
                       [base |-> Position, rev |-> IF c = None THEN 0 ELSE @.rev]]
    /\ staleResults' = staleResults \cup {d.result}
    /\ doc' = s
    /\ merger' = [merger EXCEPT !.pc = "review", !.copy = s]
    /\ UNCHANGED <<receipts, branch, results, passed, queue, cli, verifier, clock>>

\* A fresh self-review of the rebased commit, under a receipt that binds it to
\* the lease, then the real verifier.
RebasedReview(t, d) == TaskReview(TaskHead(t), d)
PostRebaseReview ==
    LET t == merger.task  d == merger.copy[t]
        s == [merger.copy EXCEPT ![t].review = RebasedReview(t, d)] IN
    /\ merger.pc = "review" /\ Reviewable(t, d)
    /\ doc' = s
    /\ merger' = [merger EXCEPT !.pc = "verify", !.copy = s]
    /\ UNCHANGED <<receipts, git, evidence, queue, cli, verifier, clock>>

Reverify ==
    /\ merger.pc = "verify"
    /\ VerifyBegin(merger.task)
    /\ merger' = [merger EXCEPT !.pc = "wait"]

\* Back in the queue with the fresh result.
Requeue ==
    LET t == merger.task  d == doc[t] IN
    /\ merger.pc = "wait" /\ verifier = Idle
    /\ d.state = "VERIFIED" /\ TaskAttested(t, d)
    /\ Valid(d, queue[merger.item].version, now)
    /\ doc' = [doc EXCEPT ![t] = Transitioned(d)]
    /\ merger' = [merger EXCEPT !.pc = "merge"]
    /\ UNCHANGED <<receipts, git, evidence, queue, cli, verifier, clock>>

\* Mutant: what was attested before the queue is not compared again.
MayMergeAmended(t, d) ==
    d.state = "MERGE_QUEUED" /\ Valid(d, queue[merger.item].version, merger.at)

\* The document is read again; the attested commit is one commit on top of the
\* cluster head and is fast-forwarded onto it.
MayMerge(t, d) ==
    /\ d.state = "MERGE_QUEUED" /\ Valid(d, queue[merger.item].version, merger.at)
    /\ TaskAttested(t, d) /\ TaskHead(t) = d.commit
Merge ==
    LET t == merger.task IN
    /\ merger.pc = "merge" /\ MayMerge(t, doc[t])
    /\ TaskHead(t).base = Position
    /\ branch' = Append(branch, [kind |-> "merge", commit |-> TaskHead(t)])
    /\ merger' = [merger EXCEPT !.pc = "integrate", !.copy = doc]
    /\ UNCHANGED <<doc, receipts, worktree, evidence, queue, cli, verifier, clock>>

\* The document is written before the queue: the verdict on its item is carried.
Saving(status) == [pc |-> "save", queue |-> [queue EXCEPT ![merger.item].status = status]]

\* The integration passed: MERGED, unless the lease ran out while it ran.
IntegrationPass ==
    LET t == merger.task  d == merger.copy[t] IN
    /\ merger.pc = "integrate" /\ Valid(d, queue[merger.item].version, now)
    /\ doc' = Refreshed([merger.copy EXCEPT ![t] = Transitioned(d)])
    /\ merger' = Saving("MERGED")
    /\ UNCHANGED <<receipts, git, evidence, queue, cli, verifier, clock>>

\* git revert of the newest entry.
GitRevert == branch' = Append(branch, [kind |-> "revert", commit |-> branch[Position].commit])

\* The integration failed: the commit is reverted, then markIntegrationFailure
\* is recorded.
RevertMerge ==
    /\ merger.pc = "integrate" /\ GitRevert
    /\ merger' = [merger EXCEPT !.pc = "reverted"]
    /\ UNCHANGED <<doc, receipts, worktree, evidence, queue, cli, verifier, clock>>

\* Mutant: a failed integration is recorded like one that passed.
RevertedAsMerged(d) == [d EXCEPT !.state = "MERGED"]

Reverted(d) == [d EXCEPT !.state = "REVERTED"]
IntegrationFail ==
    /\ merger.pc = "reverted"
    /\ doc' = [merger.copy EXCEPT ![merger.task] = Reverted(@)]
    /\ merger' = Saving("REVERTED")
    /\ UNCHANGED <<receipts, git, evidence, queue, cli, verifier, clock>>

\* retryRevertedIntegration: revert the revert; only a passing integration
\* is recorded, a failing one is reverted once more.
RetryIntegration(t) ==
    /\ merger = Idle /\ MayStart({cli, verifier}) /\ doc[t].state = "REVERTED" /\ ~Integrated(t)
    /\ Position < MaxCluster
    /\ \E i \in DOMAIN branch : Latest(t, i) /\ branch[i].commit = doc[t].commit
    /\ branch' = Append(branch, [kind |-> "merge", commit |-> doc[t].commit])
    /\ merger' = [pc |-> "retry", task |-> t, copy |-> doc]
    /\ UNCHANGED <<doc, receipts, worktree, evidence, queue, cli, verifier, clock>>
RetryPasses ==
    /\ merger.pc = "retry" /\ merger' = Idle
    /\ doc' = Refreshed([merger.copy EXCEPT ![merger.task].state = "MERGED"])
    /\ UNCHANGED <<receipts, git, evidence, queue, cli, verifier, clock>>
RetryFails ==
    /\ merger.pc = "retry" /\ merger' = Idle /\ GitRevert
    /\ UNCHANGED <<doc, receipts, worktree, evidence, queue, cli, verifier, clock>>

\* A failed check makes a program throw; what it wrote before stays.  (The
\* revert of HEAD restores its tree: only a death ends the program there.)
MergerThrows ==
    /\ merger.pc \in {"rebase", "review", "wait", "merge", "retry"}
    /\ merger.pc = "wait" => verifier = Idle
    /\ merger' = Idle
    /\ UNCHANGED <<doc, receipts, git, evidence, queue, cli, verifier, clock>>
-----------------------------------------------------------------------------
\* A program dies: its copy is lost, the files stay.  The lock of a dead
\* owner is taken over.
ProgramDies ==
    /\ deaths < MaxDeaths
    /\ deaths' = deaths + 1
    /\ \/ cli # Idle /\ cli' = Idle /\ UNCHANGED <<verifier, merger>>
       \/ verifier # Idle /\ verifier' = Idle /\ UNCHANGED <<cli, merger>>
       \/ merger # Idle /\ merger' = Idle /\ UNCHANGED <<cli, verifier>>
    /\ UNCHANGED <<doc, receipts, git, evidence, queue, now>>

Tick ==
    /\ now < MaxTime
    /\ now' = now + 1
    /\ UNCHANGED <<doc, receipts, git, evidence, queue, cli, verifier, merger, deaths>>

DeliveryNext ==
    \/ \E t \in Tasks : \/ CreateWorktree(t) \/ CleanupWorktree(t) \/ AgentCommits(t)
                        \/ CliCommand(t)
                        \/ MayStart({cli, merger}) /\ VerifyBegin(t) /\ UNCHANGED merger
                        \/ Enqueue(t) \/ RetryIntegration(t)
    \/ CliOpen \/ Renew \/ Recover
    \/ VerifyPass \/ VerifyFail
    \/ WriteQueue \/ Take \/ Rebase \/ PostRebaseReview \/ Reverify \/ Requeue
    \/ Merge \/ IntegrationPass \/ RevertMerge \/ IntegrationFail
    \/ RetryPasses \/ RetryFails \/ MergerThrows
    \/ ProgramDies \/ Tick

DeliverySpec == DeliveryInit /\ [][DeliveryNext]_deliveryVars
-----------------------------------------------------------------------------
DeliveryTypeOK ==
    /\ doc \in LifecycleDocuments
    /\ \A t \in Tasks : worktree[t] = None \/ worktree[t].rev \in 0..MaxRev
    /\ \A i \in DOMAIN branch : branch[i].kind \in {"merge", "revert"}
    /\ passed \subseteq Commits
    /\ now \in 0..MaxTime /\ deaths \in 0..MaxDeaths

(***************************************************************************)
(* A task the lifecycle calls MERGED is on the cluster branch and has not  *)
(* been reverted.                                                          *)
(***************************************************************************)
MergedIsIntegrated ==
    \A t \in Tasks : doc[t].state = "MERGED" => Integrated(t)

\* Where GatedMerge is found again: a unit is a commit, verified when the
\* verifier has passed it, merged when mergeTask has put it on the branch.
QueueMerged == {branch[i].commit : i \in {j \in DOMAIN branch : branch[j].kind = "merge"}}
QueueGate == INSTANCE GatedMerge WITH verified <- passed, merged <- QueueMerged

(***************************************************************************)
(* The merge queue implements the gated merge: whatever amendments, stale  *)
(* results, rebases, unlocked writers and deaths come in between, a commit *)
(* that mergeTask puts on the cluster branch was passed by the verifier    *)
(* before, as that very commit on that very base.                          *)
(***************************************************************************)
QueueImplementsGatedMerge == QueueGate!GateSpec

(***************************************************************************)
(* A fencing version that was granted is never taken back: renewal and     *)
(* recovery "serialize lifecycle writes" and "increment fencing exactly    *)
(* once" (docs/implementation/agent-control-plane.md).  A claim that does  *)
(* not hold: the verifier writes its old copy back without the lock.       *)
(***************************************************************************)
FencingNeverGoesBack ==
    [][\A t \in Tasks : doc'[t].version >= doc[t].version]_deliveryVars

(***************************************************************************)
(* Two tasks that share an exclusive path lock never both hold a live      *)
(* lease (acquire's and recoverExpiredLease's lock conflicts).  A claim    *)
(* that does not hold: renewal looks at no other task.                     *)
(***************************************************************************)
PathLocksAreExclusive ==
    \A t, u \in Tasks : t # u /\ <<t, u>> \in SharesLock => ~(Live(doc[t]) /\ Live(doc[u]))
=============================================================================
