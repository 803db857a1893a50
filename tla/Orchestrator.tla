---------------------------- MODULE Orchestrator ----------------------------
(***************************************************************************)
(* The autopilot (tools/autopilot/autopilot.ts) driving the agent          *)
(* orchestrator (tools/agent/lib): discovery of the project from disk and  *)
(* git, the decision of the next action, its execution, cluster            *)
(* verification (tools/cluster-verifier) and the cluster pull request.     *)
(*                                                                         *)
(* One autopilot runs, whose memory is the disk: an exception or a crash   *)
(* ends the run and a new one discovers the project again.  Around it the  *)
(* environment moves: agents edit worktrees, leases run out, CI reports,   *)
(* somebody pushes to a cluster branch, lands a file on main, merges or    *)
(* closes a pull request, removes a worktree.                              *)
(*                                                                         *)
(* A branch is the sequence of its commits, so that "is an ancestor of" is *)
(* "is a prefix of".  A review commit names the product commit of its      *)
(* session receipt.  Hashes, paths and texts are abstracted to the commit  *)
(* or the lease they bind; the lifecycle commands of a task are those of   *)
(* module TaskDelivery, here by their outcome.                             *)
(***************************************************************************)
EXTENDS Integers, Sequences, FiniteSets, SequencesExt

CONSTANTS ClusterOrder, TaskOrder, ClusterOf, Projects, PushInWindow,
          MaxCommits, MaxRepairs, MaxCorrections, MaxEvents

Clusters == Range(ClusterOrder)
PlannedTasks == Range(TaskOrder)

ASSUME AutopilotAssumption ==
    /\ ClusterOrder \in Seq(Clusters) /\ TaskOrder \in Seq(PlannedTasks)
    /\ Projects \subseteq [cdeps : [Clusters -> SUBSET Clusters],
                          tdeps : [PlannedTasks -> SUBSET PlannedTasks],
                          gaps : SUBSET PlannedTasks,
                          method : {"merge", "squash", "rebase"}]
    /\ PushInWindow \in BOOLEAN
    /\ MaxCommits \in Nat /\ MaxRepairs \in Nat /\ MaxCorrections \in Nat /\ MaxEvents \in Nat

VARIABLES project, task, cluster, main, rootReview, window, autopilot,
          commits, events, accepted, landed

autopilotVars == <<project, task, cluster, main, rootReview, window, autopilot,
                   commits, events, accepted, landed>>

Active == {"LEASED", "IMPLEMENTING", "SELF_REVIEWING", "VERIFYING",
           "VERIFIED", "MERGE_QUEUED"}
Inactive == {"DRAFT", "READY", "BLOCKED", "MERGED", "INTEGRATION_FAILED"}

MainCommit == [id |-> 0, kind |-> "main", of |-> 0, pass |-> TRUE]
FreshCommit(kind, of, pass) == [id |-> commits + 1, kind |-> kind, of |-> of, pass |-> pass]

\* A task without a lease; its worktree is absent, or left at commit `at`.
NoWorktree == -1
WithoutLease(state) == [state |-> state, lease |-> "none", renewed |-> FALSE,
                    receipt |-> FALSE, rounds |-> 0, at |-> NoWorktree,
                    ahead |-> 0, dirty |-> FALSE, attached |-> TRUE,
                    bound |-> FALSE]
Unprepared == [local |-> <<>>, remote |-> <<>>, worktree |-> FALSE,
               dirty |-> FALSE, result |-> 0, pr |-> "none",
               checks |-> "pending", repairs |-> 0]
NoWindow == [open |-> FALSE]

TaskRecords == [state : Active \cup Inactive,
                lease : {"none", "fresh", "due", "expired"},
                renewed : BOOLEAN, receipt : BOOLEAN,
                rounds : 0..MaxCorrections, at : -1..MaxCommits,
                ahead : 0..2, dirty : BOOLEAN, attached : BOOLEAN,
                bound : BOOLEAN]

AutopilotTypeOK ==
    /\ project.gaps \subseteq PlannedTasks
    /\ task \in [PlannedTasks -> TaskRecords]
    /\ \A c \in Clusters :
          /\ cluster[c].pr \in {"none", "open", "merged", "closed"}
          /\ cluster[c].checks \in {"pending", "pass", "fail"}
          /\ cluster[c].repairs \in 0..MaxRepairs
          /\ cluster[c].worktree => cluster[c].local # <<>>
    /\ rootReview \in [Clusters -> BOOLEAN]
    /\ autopilot \in {"running", "stopped", "awaiting", "complete"}
-----------------------------------------------------------------------------
(* discoverProject: what the orchestrator makes of disk and git.           *)

\* assertGraphInventory and topologicalOrder: discovery refuses a project whose
\* tasks are not each in one cluster or whose orders are not topological.
Ordered(order, deps) == \A i \in DOMAIN order : deps[order[i]] \subseteq
                            {order[j] : j \in 1..(i - 1)}
GraphInventory(p) == /\ ClusterOf \in [PlannedTasks -> Clusters]
                     /\ Ordered(ClusterOrder, p.cdeps)
                     /\ Ordered(TaskOrder, p.tdeps)

TasksOf(c) == {t \in PlannedTasks : ClusterOf[t] = c}
AllMerged(c) == \A t \in TasksOf(c) : task[t].state = "MERGED"
ActiveTasks == {t \in PlannedTasks : task[t].state \in Active}

\* The head discovery reads: the local branch, or the remote one without it.
BranchHead(c) == IF cluster[c].local # <<>> THEN cluster[c].local
                                            ELSE cluster[c].remote
RemoteHead(c) == IF cluster[c].remote # <<>> THEN cluster[c].remote
                                             ELSE cluster[c].local
RemoteAhead(c) == /\ cluster[c].local # <<>>
                  /\ IsStrictPrefix(cluster[c].local, cluster[c].remote)
Diverged(c) == /\ cluster[c].local # <<>>
               /\ ~ IsPrefix(cluster[c].local, cluster[c].remote)
               /\ ~ IsPrefix(cluster[c].remote, cluster[c].local)
\* The mutant asks the remote branch.
MergedRemotely(c) == RemoteHead(c) # <<>> /\ Last(RemoteHead(c)) \in main
MergedIntoTarget(c) == BranchHead(c) # <<>> /\ Last(BranchHead(c)) \in main

ClusterState(c) ==
    IF MergedIntoTarget(c) /\ AllMerged(c) THEN "COMPLETE"
    ELSE IF BranchHead(c) = <<>> THEN "UNPREPARED"
    ELSE IF ~ AllMerged(c)
         THEN IF ActiveTasks \cap TasksOf(c) # {} THEN "ACTIVE" ELSE "READY"
    ELSE IF cluster[c].result = 0 THEN "VERIFYING"
    ELSE IF ~ rootReview[c] THEN "REVIEW_REQUIRED"
    ELSE "READY"
-----------------------------------------------------------------------------
(* decideNextAction.                                                       *)

DependenciesMerged(t) == \A d \in project.tdeps[t] : task[d].state = "MERGED"
ClusterDependenciesComplete(c) ==
    \A d \in project.cdeps[c] : ClusterState(d) = "COMPLETE"

RunnableTasks(c) == {t \in TasksOf(c) : /\ task[t].state = "READY"
                                        /\ t \notin project.gaps
                                        /\ DependenciesMerged(t)}
DependencyReadyClusters == {c \in Clusters : /\ ClusterState(c) # "COMPLETE"
                                             /\ ClusterDependenciesComplete(c)}

\* Both are lists in topological order, of which the first is taken.
FirstOf(order, ready) ==
    order[CHOOSE i \in DOMAIN order : /\ order[i] \in ready
                                      /\ \A j \in DOMAIN order : order[j] \in ready => i <= j]
ClusterNeedsInitialization(c) ==
    ClusterState(c) = "UNPREPARED" \/ ~ cluster[c].worktree

Decide(action, c, t) == [action |-> action, cluster |-> c, task |-> t]
Stop(reason) == [action |-> "STOP", reason |-> reason]

\* An active task holds an ACTIVE lease: the lifecycle ends a lease and leaves
\* the active states in one write (task-runner/state.ts).
ActiveDecision(t) ==
    LET s == task[t]
        Do(action) == Decide(action, ClusterOf[t], t)
    IN  IF s.lease \in {"due", "expired"} THEN Stop("LEASE")
        ELSE IF s.at = NoWorktree THEN Stop("TASK_WORKTREE")
        ELSE IF ~ s.attached
             THEN IF s.state \in {"LEASED", "IMPLEMENTING"} /\ ~ s.dirty /\ s.ahead = 1
                  THEN Do("RESUME_TASK") ELSE Stop("TASK_BRANCH_MISMATCH")
        ELSE IF s.ahead > 1 THEN Do("CORRECT_TASK")
        ELSE IF s.state = "LEASED" THEN Do("RESUME_TASK")
        ELSE IF s.state = "IMPLEMENTING"
             THEN Do(IF s.dirty \/ s.ahead > 0 THEN "CONTINUE_TASK" ELSE "RESUME_TASK")
        ELSE IF s.dirty \/ (s.state \in {"VERIFIED", "MERGE_QUEUED"} /\ ~ s.bound)
             THEN Do("CORRECT_TASK")
        ELSE Do("VERIFY_TASK")

ClusterDecision(c) ==
    LET Do(action) == Decide(action, c, TaskOrder[1])
    IN  IF AllMerged(c)
        THEN Do(CASE ClusterState(c) = "VERIFYING" -> "VERIFY_CLUSTER"
                  [] ClusterState(c) = "REVIEW_REQUIRED" -> "REVIEW_CLUSTER"
                  [] OTHER -> "CREATE_CLUSTER_PR")
        ELSE IF ClusterNeedsInitialization(c) THEN Do("INITIALIZE_CLUSTER")
        ELSE IF RunnableTasks(c) # {}
             THEN Decide("START_TASK", c, FirstOf(TaskOrder, RunnableTasks(c)))
        ELSE IF \E t \in TasksOf(c) : task[t].state = "BLOCKED"
             THEN Stop("UNRESOLVED_BLOCKED_TASKS")
        ELSE Stop("NO_RUNNABLE_TASK_IN_CLUSTER")

Decision ==
    IF ActiveTasks # {} THEN ActiveDecision(CHOOSE t \in ActiveTasks : TRUE)
    ELSE IF \A c \in Clusters : AllMerged(c) /\ ClusterState(c) = "COMPLETE"
         THEN [action |-> "COMPLETE_PROJECT"]
    ELSE IF DependencyReadyClusters = {} THEN Stop("NO_DEPENDENCY_READY_CLUSTER")
    ELSE ClusterDecision(FirstOf(ClusterOrder, DependencyReadyClusters))

\* The autopilot is at a decision: no integration under way, no lease to keep,
\* no commit of a correction to bind, no remote advance to take over.
LeaseDue == \E t \in ActiveTasks : task[t].lease \in {"due", "expired"}
Unbound == \E t \in ActiveTasks : /\ task[t].state = "SELF_REVIEWING"
                                  /\ task[t].at # NoWorktree /\ ~ task[t].bound
AdvanceWaits(d) == /\ d.action \notin {"STOP", "COMPLETE_PROJECT"}
                   /\ RemoteAhead(d.cluster)
Decides == /\ autopilot = "running" /\ ~ window.open
           /\ ~ LeaseDue /\ ~ Unbound

\* The exception nobody catches: runAutopilot releases its lock and ends.
Throw == autopilot' = "stopped"
Carry == autopilot' = autopilot

\* An arm that goes on with the next decision knows the arms below it only; any
\* other decision is an UNHANDLED_ORCHESTRATION_STATE and ends the run.
GoesOn(actions) == autopilot' = IF Decision'.action \in actions THEN autopilot ELSE "stopped"

\* withInfrastructureRetry: a transient failure of a command is tried again, on
\* the project as it is found then; any other, or the last one, ends the run.
Fail == autopilot' \in {"running", "stopped"}
-----------------------------------------------------------------------------
(* The guards of execution.                                                *)

ClusterWorktreeOk(c) == /\ cluster[c].worktree /\ ~ cluster[c].dirty
                        /\ ~ RemoteAhead(c) /\ ~ Diverged(c)

\* deriveClusterTaskAttestations and validateClusterResult: every task of the
\* cluster is merged and its result is that of the head; `at` is the cluster
\* whose worktree is clean.
ClusterAttested(c) == \A t \in TasksOf(c) : task[t].state = "MERGED"
ResultValid(c, head, at) == /\ cluster[c].result # 0 /\ cluster[c].result = head
                            /\ ~ cluster[at].dirty /\ ClusterAttested(c)

\* validateReviewSessionReceipt and validateClusterReview: the head is a PASS of
\* the product commit, in a session of that commit, and its direct child.
InSessionOf(review, result) == review.of = result
ReviewedAt(branch, result) ==
    /\ Len(branch) > 1
    /\ Last(branch).kind = "review" /\ Last(branch).pass
    /\ InSessionOf(Last(branch), result)
    /\ branch[Len(branch) - 1].id = result

\* cluster:report.  The mutant takes a review from anywhere on the branch.
ReportOfAnyReview(c) == /\ ResultValid(c, cluster[c].result, c)
                        /\ \E i \in DOMAIN cluster[c].local :
                              cluster[c].local[i].kind = "review"
ReportPasses(c) == /\ ResultValid(c, cluster[c].result, c)
                   /\ ReviewedAt(cluster[c].local, cluster[c].result)

\* cluster:verify: the tasks are merged, and the results of the clusters it
\* depends on are checked against the head of its own worktree.
VerifyChecks(c) ==
    /\ ClusterAttested(c)
    /\ \A d \in project.cdeps[c] : ResultValid(d, Last(cluster[c].local).id, c)

\* validateLaunchReceipt and validateVerifiedTask: the evidence is that of the
\* worktree head, the receipt that of the current lease and fencing version.
ReceiptValid(s) == s.receipt
VerifiedTaskValid(s) == s.bound /\ ReceiptValid(s)

\* refreshPullRequest and classifyPullRequest; findClusterPullRequest with
\* createClusterPullRequest.
PullRequestState(c) == IF cluster[c].pr = "open" THEN cluster[c].checks ELSE cluster[c].pr
Found(pr) == IF pr = "none" THEN "open" ELSE pr
-----------------------------------------------------------------------------
AutopilotInit ==
    /\ project \in Projects /\ GraphInventory(project)
    /\ task = [t \in PlannedTasks |-> WithoutLease("DRAFT")]
    /\ cluster = [c \in Clusters |-> Unprepared]
    /\ main = {MainCommit} /\ rootReview = [c \in Clusters |-> FALSE]
    /\ window = NoWindow /\ autopilot = "running"
    /\ commits = 0 /\ events = 0 /\ accepted = {}
    /\ landed = [c \in Clusters |-> <<>>]

\* A fresh commit, within the bound on commits.
Fresh == commits < MaxCommits /\ commits' = commits + 1

EnvUnchanged == UNCHANGED <<project, main, rootReview, events, landed>>
-----------------------------------------------------------------------------
(* Leases and corrections: the head of every autopilot cycle.              *)

\* ensureLease: renew a lease once; the second time wait for its end and
\* recover, which needs the worktree.  Either way the fencing version moves away
\* from the receipts.
EnsureLease ==
    /\ autopilot = "running" /\ ~ window.open
    /\ \E t \in ActiveTasks :
          LET renews == ~ task[t].renewed /\ task[t].lease = "due"
          IN  /\ task[t].lease \in {"due", "expired"}
              /\ IF renews \/ task[t].at # NoWorktree
                 THEN /\ task' = [task EXCEPT ![t].lease = "fresh", ![t].renewed = renews,
                                              ![t].receipt = FALSE, ![t].rounds = 0]
                      /\ Carry
                 ELSE Throw /\ UNCHANGED task
    /\ EnvUnchanged
    /\ UNCHANGED <<cluster, window, commits, accepted>>

\* bindCompletedCorrection: self-review-correct takes the mutation lock its own
\* command line already holds, and fails.
BindCompletedCorrection ==
    /\ autopilot = "running" /\ ~ window.open /\ ~ LeaseDue /\ Unbound
    /\ Throw /\ EnvUnchanged
    /\ UNCHANGED <<task, cluster, window, commits, accepted>>

\* synchronizeRemoteClusterAdvance: fast-forward, or give up.
SynchronizeRemoteClusterAdvance(d) ==
    /\ AdvanceWaits(d)
    /\ LET c == d.cluster
       IN IF cluster[c].worktree /\ ~ cluster[c].dirty
          THEN cluster' = [cluster EXCEPT ![c].local = cluster[c].remote] /\ Carry
          ELSE Throw /\ UNCHANGED cluster
    /\ EnvUnchanged /\ UNCHANGED <<task, window, commits, accepted>>
-----------------------------------------------------------------------------
(* The arms of executeOrchestration.                                       *)

\* Where initializeCluster takes the branch from.
InitialBranch(c) == IF BranchHead(c) # <<>> THEN BranchHead(c) ELSE <<MainCommit>>

\* task:validate and task:mark-ready: a gap is blocked, the rest is ready.
Initialised(t) == IF task[t].state # "DRAFT" THEN task[t].state
                  ELSE IF t \in project.gaps THEN "BLOCKED" ELSE "READY"

\* initializeCluster: the worktree first, unless something lies at its path;
\* then the tasks one by one; a failing command leaves the later tasks (all of
\* them when the install fails) DRAFT.  Then a task must be there to start.
InitializeCluster(d) ==
    /\ d.action = "INITIALIZE_CLUSTER"
    /\ LET c == d.cluster
       IN \/ Throw /\ UNCHANGED <<cluster, task>>
          \/ \E n \in 0..Len(TaskOrder) :
             /\ cluster' = [cluster EXCEPT ![c].worktree = TRUE, ![c].dirty = FALSE,
                                           ![c].local = InitialBranch(c)]
             /\ task' = [t \in PlannedTasks |->
                   IF t \in TasksOf(c) /\ \E i \in 1..n : TaskOrder[i] = t
                   THEN [task[t] EXCEPT !.state = Initialised(t)] ELSE task[t]]
             /\ EnvUnchanged
             /\ IF n = Len(TaskOrder) THEN GoesOn({"START_TASK"}) ELSE Fail
    /\ EnvUnchanged /\ UNCHANGED <<window, commits, accepted>>

\* What an agent leaves in the worktree: edits, another branch, or commits,
\* which the task is not bound to.
Edits == [dirty : BOOLEAN, ahead : 0..2, attached : BOOLEAN]
Worktrees(s) ==
    {[s EXCEPT !.dirty = e.dirty, !.attached = e.attached] : e \in Edits} \cup
    {[s EXCEPT !.dirty = e.dirty, !.ahead = e.ahead,
               !.attached = e.attached, !.bound = FALSE] : e \in Edits}

\* persistGoalAndPayload issues a receipt of the current lease;
\* beginTaskBeforeProvider begins the task.
Receipted(s) == [s EXCEPT !.receipt = TRUE]
Begun(s) == [s EXCEPT !.state = IF @ = "LEASED" THEN "IMPLEMENTING" ELSE @]

\* reconcileCommittedTaskCheckpoint: one clean commit is adopted, put on the
\* task's branch and self-reviewed with the receipt of the launch.
CleanAtomicCommit(s) == ~ s.dirty /\ s.ahead = 1
CheckpointReconciled(s) ==
    IF CleanAtomicCommit(s)
    THEN [s EXCEPT !.state = "SELF_REVIEWING", !.attached = TRUE, !.bound = TRUE] ELSE s

\* executePayload under the host lifecycle: begin, run the agent, reconcile.
\* A launch with failures (a correction) only runs the agent.
Launched(s) ==
    LET begun == Begun(Receipted(s))
    IN IF s.state \in {"LEASED", "IMPLEMENTING"}
       THEN {begun} \cup {CheckpointReconciled(w) : w \in Worktrees(begun)} ELSE {s}

\* leaseForTask: a launch needs an active lease that is not due for renewal.
LeaseForTask(s) == s.lease = "fresh"

\* launchPayload: the agent runs in the task's own worktree, and fails or not.
LaunchPayload(t, s) == /\ LeaseForTask(s)
                       /\ \E w \in Launched(s) : task' = [task EXCEPT ![t] = w]
                       /\ Fail

\* Rounds are compared with the limit only, so the count saturates there.
Corrected(s) == LET counted == [s EXCEPT !.rounds = IF @ < MaxCorrections THEN @ + 1 ELSE @]
                IN {[w EXCEPT !.receipt = @ \/ s.state = "IMPLEMENTING"] :
                       w \in Worktrees(counted)}

\* startTask: a worktree left behind must stand at the cluster head; a failing
\* acquisition leaves one.
StartTask(d) ==
    /\ d.action = "START_TASK"
    /\ LET t == d.task
           head == Last(cluster[d.cluster].local).id
           leased == [WithoutLease("LEASED") EXCEPT !.lease = "fresh", !.at = head]
       IN IF ClusterWorktreeOk(d.cluster) /\ task[t].at \in {NoWorktree, head}
          THEN \/ LaunchPayload(t, leased)
               \/ task' = [task EXCEPT ![t].at = head] /\ Fail
          ELSE Throw /\ UNCHANGED task
    /\ EnvUnchanged /\ UNCHANGED <<cluster, window, commits, accepted>>

\* resumeTask for a task that is resumed or continued.
ResumeTask(d) ==
    /\ d.action \in {"RESUME_TASK", "CONTINUE_TASK"}
    /\ LaunchPayload(d.task, task[d.task])
    /\ EnvUnchanged /\ UNCHANGED <<cluster, window, commits, accepted>>

\* resumeTask with failures, within the rounds the receipts of this lease count.
CorrectTask(d) ==
    /\ d.action = "CORRECT_TASK"
    /\ IF task[d.task].rounds >= MaxCorrections
       THEN Throw /\ UNCHANGED task
       ELSE \E s \in Corrected(task[d.task]) :
               task' = [task EXCEPT ![d.task] = s] /\ Carry
    /\ EnvUnchanged /\ UNCHANGED <<cluster, window, commits, accepted>>

\* verifyAndIntegrateTask, cut short: by a dirty or stale cluster worktree, an
\* interrupted verification, a failed verification handed back to the agent, a
\* receipt of another lease, a merge that failed or that rebased the commit.
VerifyTaskFails(d) ==
    /\ d.action = "VERIFY_TASK"
    /\ LET t == d.task
           s == task[t]
           Becomes(state) == task' = [task EXCEPT ![t].state = state] /\ Fail
       IN IF ~ ClusterWorktreeOk(d.cluster) \/ s.state = "VERIFYING"
          THEN Throw /\ UNCHANGED task
          ELSE \/ /\ s.state = "SELF_REVIEWING"
                  /\ \E w \in Corrected(s) : task' = [task EXCEPT ![t] = w] /\ Carry
               \/ s.state = "SELF_REVIEWING" /\ Becomes("VERIFYING")
               \/ s.state # "MERGE_QUEUED" /\ ~ VerifiedTaskValid(s) /\ Becomes("VERIFIED")
               \/ /\ s.state = "MERGE_QUEUED" \/ VerifiedTaskValid(s)
                  /\ \/ Becomes("MERGE_QUEUED") \/ Becomes("SELF_REVIEWING")
                     \/ task' = [task EXCEPT ![t] = WithoutLease("INTEGRATION_FAILED")] /\ Fail
    /\ EnvUnchanged /\ UNCHANGED <<cluster, window, commits, accepted>>

\* verifyAndIntegrateTask to the end: verified, queued, merged, cleaned up.
VerifyAndIntegrateTask(d) ==
    /\ d.action = "VERIFY_TASK"
    /\ LET t == d.task
           c == d.cluster
       IN /\ ClusterWorktreeOk(c) /\ task[t].state # "VERIFYING"
          /\ task[t].state = "MERGE_QUEUED" \/ VerifiedTaskValid(task[t])
          /\ Fresh
          /\ task' = [task EXCEPT ![t] = WithoutLease("MERGED")]
          /\ cluster' = [cluster EXCEPT ![c].local =
                            Append(@, FreshCommit("product", 0, TRUE))]
    /\ EnvUnchanged /\ UNCHANGED <<window, accepted>>
    /\ GoesOn({"START_TASK", "REVIEW_CLUSTER", "VERIFY_CLUSTER", "CREATE_CLUSTER_PR", "COMPLETE_PROJECT"})

\* verifyCluster.  The review that is due now is above this arm: the run ends.
VerifyCluster(d) ==
    /\ d.action = "VERIFY_CLUSTER"
    /\ LET c == d.cluster
           head == Last(cluster[c].local).id
       IN IF ClusterWorktreeOk(c) /\ VerifyChecks(c)
          THEN \/ /\ cluster' = [cluster EXCEPT ![c].result = head]
                  /\ accepted' = accepted \cup {head}
                  /\ EnvUnchanged /\ UNCHANGED task
                  /\ GoesOn({"CREATE_CLUSTER_PR", "COMPLETE_PROJECT"})
               \/ Fail /\ UNCHANGED <<cluster, accepted>>
          ELSE Throw /\ UNCHANGED <<cluster, accepted>>
    /\ EnvUnchanged /\ UNCHANGED <<task, window, commits>>

\* reviewCluster: the agent's review file is committed, or, with other edits
\* or none, the run ends.
ReviewCluster(d) ==
    /\ d.action = "REVIEW_CLUSTER"
    /\ LET c == d.cluster
           head == Last(cluster[c].local).id
       IN \/ /\ ClusterWorktreeOk(c) /\ Fresh
             /\ \E pass \in BOOLEAN :
                   cluster' = [cluster EXCEPT ![c].local =
                                  Append(@, FreshCommit("review", head, pass))]
             /\ Carry
          \/ /\ ClusterWorktreeOk(c)
             /\ \E left \in BOOLEAN : cluster' = [cluster EXCEPT ![c].dirty = left]
             /\ Throw /\ UNCHANGED commits
          \/ ~ ClusterWorktreeOk(c) /\ Throw /\ UNCHANGED <<cluster, commits>>
    /\ EnvUnchanged /\ UNCHANGED <<task, window, accepted>>

\* integrateCluster up to the state of the pull request: report, push, find or
\* create; a merged one is recorded, a closed one ends the run.
PushCluster(d) ==
    /\ d.action = "CREATE_CLUSTER_PR"
    /\ LET c == d.cluster
           moved == cluster[c].local # cluster[c].remote
       IN IF ~ ClusterWorktreeOk(c) \/ ~ ReportPasses(c)
          THEN Throw /\ UNCHANGED <<cluster, window>>
          ELSE /\ cluster' = [cluster EXCEPT ![c].remote = cluster[c].local,
                    ![c].pr = Found(@),
                    ![c].checks = IF moved THEN "pending" ELSE @]
               /\ window' = IF cluster[c].pr = "open"
                            THEN [open |-> TRUE, cluster |-> c,
                                  seen |-> cluster[c].local] ELSE NoWindow
               /\ IF cluster[c].pr \in {"merged", "closed"} THEN Throw ELSE Carry
    /\ EnvUnchanged /\ UNCHANGED <<task, commits, accepted>>

\* integrateCluster of a pull request whose checks are pending: poll again.
PollPullRequest ==
    /\ autopilot = "running" /\ window.open
    /\ PullRequestState(window.cluster) = "pending"
    /\ window' = NoWindow /\ Carry /\ EnvUnchanged
    /\ UNCHANGED <<task, cluster, commits, accepted>>

\* Merging a pull request: whatever the head of the branch is by then; a squash
\* or a rebase brings the files and not the commits.
Lands(c) == /\ main' = IF project.method = "merge"
                       THEN main \cup Range(cluster[c].remote) ELSE main
            /\ rootReview' = [rootReview EXCEPT ![c] = @ \/
                  \E i \in DOMAIN cluster[c].remote : cluster[c].remote[i].kind = "review"]

\* mergePullRequest and recordCompletedCluster, or a pull request that was
\* merged or closed meanwhile.
MergePullRequest ==
    /\ autopilot = "running" /\ window.open /\ window' = NoWindow
    /\ UNCHANGED <<project, task, commits, events, accepted>>
    /\ \E c \in {window.cluster} :
          /\ \/ /\ PullRequestState(c) = "pass"
                /\ Lands(c)
                /\ cluster' = [cluster EXCEPT ![c].pr = "merged"]
                /\ landed' = [landed EXCEPT ![c] = cluster[c].remote]
             \/ /\ PullRequestState(c) \in {"merged", "closed"}
                /\ UNCHANGED <<main, rootReview, cluster, landed>>
          /\ IF PullRequestState(c) # "closed" /\ MergedIntoTarget(c)'
             THEN GoesOn({"INITIALIZE_CLUSTER", "START_TASK", "COMPLETE_PROJECT"}) ELSE Throw

\* runAutopilot: the failed checks of an open pull request are repaired while
\* the rounds persisted for the cluster last.
RepairAllowed(c) == cluster[c].repairs + 1 <= MaxRepairs

\* repairClusterCi: the round is counted, the branch goes back to the verified
\* product commit, result and review are dropped; then the agent's fix is
\* committed and pushed with a lease on the head that was seen.
RepairClusterCi ==
    /\ autopilot = "running" /\ window.open
    /\ LET c == window.cluster
           product == Front(cluster[c].local)
           reset == [cluster[c] EXCEPT !.local = product, !.result = 0,
                                       !.repairs = @ + 1]
           fixed == Append(product, FreshCommit("product", 0, TRUE))
       IN /\ PullRequestState(c) = "fail"
          /\ \/ /\ ~ RepairAllowed(c)
                /\ Throw /\ UNCHANGED <<cluster, commits>>
             \/ /\ RepairAllowed(c) /\ Fresh
                /\ IF cluster[c].remote = window.seen
                   THEN /\ cluster' = [cluster EXCEPT ![c] = [reset EXCEPT
                               !.local = fixed, !.remote = fixed, !.checks = "pending"]]
                        /\ Carry
                   ELSE cluster' = [cluster EXCEPT ![c] = [reset EXCEPT !.local = fixed]] /\ Throw
             \/ /\ RepairAllowed(c)
                /\ \E d \in BOOLEAN : cluster' = [cluster EXCEPT ![c] =
                                                     [reset EXCEPT !.dirty = d]]
                /\ Throw /\ UNCHANGED commits
    /\ window' = NoWindow /\ EnvUnchanged /\ UNCHANGED <<task, accepted>>

\* waitForPullRequest: how the wait for the checks of an amendment ends.
WaitEnds == {"clean", "merged", "failed", "closed", "timeout"}

\* resolveSpecificationGap: the amendment lands on main, where it closes the gap
\* (somebody else may have merged it); then main is merged into the cluster
\* branch, the branch is pushed and the task marked READY.  Every step may be
\* the last one.
AmendmentSteps(c) == IF ~ cluster[c].worktree THEN 0
                     ELSE IF RemoteAhead(c) \/ Diverged(c) THEN 1 ELSE 3
ResolveSpecificationGap(d) ==
    /\ d.action = "STOP" /\ d.reason = "UNRESOLVED_BLOCKED_TASKS"
    /\ \E t \in project.gaps, end \in WaitEnds :
          /\ task[t].state = "BLOCKED"
          /\ LET c == ClusterOf[t]
                 merge == FreshCommit("main", 0, TRUE)
                 merged == Append(cluster[c].local, merge)
             IN \/ /\ end \in {"failed", "closed", "timeout"}
                   /\ Throw /\ UNCHANGED <<project, task, cluster, main, commits>>
                \/ /\ end \in {"clean", "merged"} /\ Fresh
                   /\ project' = [project EXCEPT !.gaps = @ \ {t}]
                   /\ main' = main \cup {merge}
                   /\ \E n \in 0..(IF end = "clean" THEN AmendmentSteps(c) ELSE 0) :
                         /\ cluster' = [cluster EXCEPT
                               ![c].local = IF n > 0 THEN merged ELSE @,
                               ![c].remote = IF n > 1 THEN merged ELSE @]
                         /\ task' = [task EXCEPT ![t].state = IF n > 2 THEN "READY" ELSE @]
                         /\ IF n > 2 THEN Carry ELSE Throw
    /\ UNCHANGED <<rootReview, window, events, accepted, landed>>

\* A decision to stop that no arm of the autopilot answers, or a resolution of
\* a gap that fails before anything has landed.
OrchestrationStopped(d) ==
    /\ d.action = "STOP"
    /\ Throw /\ EnvUnchanged /\ UNCHANGED <<task, cluster, window, commits, accepted>>

\* discoverProject refuses: a source, contract or graph has drifted, no release
\* is reachable, or a branch has no interface.  The owner repairs it.
DiscoveryRefuses ==
    /\ autopilot = "running" /\ ~ window.open
    /\ Throw /\ EnvUnchanged /\ UNCHANGED <<task, cluster, window, commits, accepted>>

\* finalVerification; then waitForMainCi.
FinalVerification(d) ==
    /\ d.action = "COMPLETE_PROJECT"
    /\ autopilot' = "awaiting" \/ Throw
    /\ EnvUnchanged /\ UNCHANGED <<task, cluster, window, commits, accepted>>
WaitForMainCi ==
    /\ autopilot = "awaiting"
    /\ autopilot' = "complete" \/ Throw
    /\ EnvUnchanged /\ UNCHANGED <<task, cluster, window, commits, accepted>>

\* The autopilot is started again.
Restart ==
    /\ autopilot = "stopped" /\ autopilot' = "running" /\ window' = NoWindow
    /\ EnvUnchanged /\ UNCHANGED <<task, cluster, commits, accepted>>
-----------------------------------------------------------------------------
(* The environment.                                                        *)

Event == events < MaxEvents /\ events' = events + 1
RunUnchanged == UNCHANGED <<project, window, autopilot, accepted, landed>>

\* A lease comes into its renewal window, then to its end.
LeaseRunsDown ==
    /\ Event /\ ~ window.open
    /\ \E t \in ActiveTasks :
          /\ task[t].lease # "expired"
          /\ task' = [task EXCEPT ![t].lease =
                         IF @ = "fresh" THEN "due" ELSE "expired"]
    /\ RunUnchanged /\ UNCHANGED <<cluster, main, rootReview, commits>>

\* CI reports on the head of an open pull request.
CiReports ==
    /\ \E c \in Clusters : \E v \in {"pass", "fail"} :
          /\ cluster[c].pr = "open" /\ cluster[c].checks = "pending"
          /\ cluster' = [cluster EXCEPT ![c].checks = v]
    /\ RunUnchanged /\ UNCHANGED <<task, main, rootReview, commits, events>>

\* Somebody else pushes to a cluster branch.
ForeignPush ==
    /\ PushInWindow \/ ~ window.open
    /\ Event /\ Fresh
    /\ \E c \in Clusters :
          /\ cluster[c].remote # <<>>
          /\ cluster' = [cluster EXCEPT ![c].remote = Append(@, FreshCommit("foreign", 0, TRUE)),
                                        ![c].checks = "pending"]
    /\ RunUnchanged /\ UNCHANGED <<task, main, rootReview>>

\* Somebody lands the review file of a cluster on main.
LandReview ==
    /\ Event
    /\ \E c \in Clusters :
          /\ \E i \in DOMAIN cluster[c].local : cluster[c].local[i].kind = "review"
          /\ rootReview' = [rootReview EXCEPT ![c] = TRUE]
    /\ RunUnchanged /\ UNCHANGED <<task, cluster, main, commits>>

\* Somebody merges or closes the pull request of a cluster.
OwnerSettles ==
    /\ Event
    /\ \E c \in Clusters :
          /\ cluster[c].pr = "open"
          /\ \/ Lands(c) /\ cluster' = [cluster EXCEPT ![c].pr = "merged"]
             \/ /\ cluster' = [cluster EXCEPT ![c].pr = "closed"]
                /\ UNCHANGED <<main, rootReview>>
    /\ RunUnchanged /\ UNCHANGED <<task, commits>>

\* The worktree of a cluster, or of an active task, is removed or moved.
LoseWorktree ==
    /\ Event /\ ~ window.open
    /\ \/ \E c \in Clusters : /\ cluster[c].worktree
                              /\ cluster' = [cluster EXCEPT ![c].worktree = FALSE]
                              /\ UNCHANGED task
       \/ \E t \in ActiveTasks : /\ task' = [task EXCEPT ![t].at = NoWorktree]
                                 /\ UNCHANGED cluster
    /\ RunUnchanged /\ UNCHANGED <<main, rootReview, commits>>

\* The arms that answer a decision, unless a remote advance is taken over first.
Arms(d) ==
    \/ InitializeCluster(d) \/ StartTask(d) \/ ResumeTask(d) \/ CorrectTask(d)
    \/ VerifyTaskFails(d) \/ VerifyAndIntegrateTask(d) \/ VerifyCluster(d)
    \/ ReviewCluster(d) \/ PushCluster(d) \/ ResolveSpecificationGap(d)
    \/ OrchestrationStopped(d) \/ FinalVerification(d)
Autopilot ==
    \/ DiscoveryRefuses \/ EnsureLease \/ BindCompletedCorrection
    \/ /\ Decides
       /\ \E d \in {Decision} : \/ SynchronizeRemoteClusterAdvance(d)
                                \/ ~ AdvanceWaits(d) /\ Arms(d)
    \/ PollPullRequest \/ MergePullRequest \/ RepairClusterCi
    \/ WaitForMainCi \/ Restart
Environment ==
    \/ LeaseRunsDown \/ CiReports \/ ForeignPush \/ LandReview
    \/ OwnerSettles \/ LoseWorktree

AutopilotNext == Autopilot \/ Environment
AutopilotSpec == AutopilotInit /\ [][AutopilotNext]_autopilotVars
-----------------------------------------------------------------------------
(* Properties.                                                             *)

\* What the autopilot merged to main ended in a passing review whose direct
\* parent is a product commit that cluster:verify passed, over every CI
\* repair, re-review, fast-forward and restart in between.
MergedWasReviewed ==
    \A c \in Clusters : landed[c] # <<>> =>
        /\ ReviewedAt(landed[c], landed[c][Len(landed[c]) - 1].id)
        /\ landed[c][Len(landed[c]) - 1].id \in accepted

\* Where GatedMerge is found again: a unit is the product commit below the
\* review, verified when cluster:verify has passed it.
AutopilotMerged == {landed[c][Len(landed[c]) - 1].id : c \in {d \in Clusters : landed[d] # <<>>}}
AutopilotGate == INSTANCE GatedMerge WITH verified <- accepted, merged <- AutopilotMerged

\* The autopilot implements the gated merge: what mergePullRequest merges was
\* verified before, and no merge is taken back or overwritten by a later one.
AutopilotImplementsGatedMerge == AutopilotGate!GateSpec

\* Work rests on integrated clusters: a task that is under way or merged
\* belongs to a cluster all of whose dependencies are, and stay, COMPLETE.
WorkRestsOnIntegratedClusters ==
    \A t \in PlannedTasks : task[t].state \in Active \cup {"MERGED"} =>
        \A d \in project.cdeps[ClusterOf[t]] : ClusterState(d) = "COMPLETE"

\* An accepted review commit is recognised: the decision for a cluster whose
\* report passes is no longer to review it.
ReviewIsRecognised ==
    \A c \in Clusters : ReportPasses(c) => ClusterState(c) # "REVIEW_REQUIRED"
=============================================================================
