--------------------------- MODULE ProductFactory ---------------------------
(***************************************************************************)
(* The product factory of tools/product-factory and what it does about its *)
(* own failures: the convergence loop (factory.ts), the supervisor that    *)
(* recovers (recovery-supervisor.ts), the escalation to another provider   *)
(* (autonomous-escalation.ts) and the maintenance that repairs the tools   *)
(* and starts the factory anew (maintenance-supervisor.ts, cli.ts).  The   *)
(* attempt files and the git branches outlive the process.  A failure is   *)
(* the class its code falls in; two details of one class count as one      *)
(* failure here.                                                           *)
(***************************************************************************)
EXTENDS Naturals

CONSTANTS FaultSets,    \* bound: what goes wrong in a behaviour: codes of failures that
                        \* agents, git and GitHub cause, red checks, gaps that audits find
          MaxRounds,    \* MAX_PRODUCT_CORRECTION_ROUNDS
          MaxPatch,     \* MAX_..._PATCH_REPAIR_ROUNDS
          MaxCi,        \* CI repair rounds
          MaxAttempts,  \* MAX_..._ATTEMPTS_PER_FINGERPRINT
          MaxRetries, MaxTask, MaxDegraded,  \* the limits of the autonomy policy
          MaxGlobal,    \* supervisor attempts of one run
          MaxGen,       \* MAX_MAINTENANCE_GENERATIONS
          MaxMain,      \* bound: commits of main
          MaxTaskHead,  \* bound: heads of the active task
          MaxDeaths     \* bound: deaths, each followed by a new start

ASSUME ProductAssumption ==
    /\ MaxMain \in Nat \ {0} /\ MaxTaskHead \in Nat /\ MaxDeaths \in Nat
    /\ \A n \in {MaxRounds, MaxPatch, MaxCi, MaxAttempts, MaxRetries, MaxTask, MaxDegraded,
                 MaxGlobal, MaxGen} : n \in Nat

VARIABLES faults,
          root, origin,  \* main in the root worktree and on GitHub
          branches,      \* local branches of corrections and recoveries
          records,       \* product-factory-supervisor-recovery.json
          escalations,   \* autonomous-escalation.json
          maintained,    \* product-factory-maintenance-recovery.json
          proc,          \* the process: where it is and what it counts
          work,          \* the publication under way
          merged,        \* history: evidence of what was merged
          executed,      \* history: recovery actions per fingerprint
          deaths

files == <<branches, records, escalations, maintained>>
history == <<merged, executed, deaths>>
productVars == <<faults, root, origin, branches, records, escalations, maintained, proc, work,
          merged, executed, deaths>>

Codes == {"REPAIRABLE", "GIT", "DRIFT", "LIMIT", "EXTERNAL", "CLOSED", "BUDGET", "SAFETY",
          "GAP", "UNKNOWN"}
Heads == 1..MaxMain

(* classifyAutonomyFailure and effectiveClassification.                    *)
Classification(c) == CASE c \in {"BUDGET", "SAFETY"} -> "SAFETY_TERMINAL"
                       [] c \in {"EXTERNAL", "CLOSED"} -> "EXTERNAL_BLOCKER"
                       [] c \in {"GAP", "UNKNOWN"} -> "AUTONOMY_GAP"
                       [] OTHER -> "AUTO_RECOVERABLE"
Transient(c) == c \in {"EXTERNAL", "GIT"}                 \* isTransientExternalBlocker
Escalatable(c) == c \in {"BUDGET", "LIMIT"}               \* isAutonomousEscalationFailure
Maintainable(c) == c \notin {"SAFETY", "CLOSED", "UNKNOWN"}
    \* isAutonomousMaintenanceEligible and not isEvidenceFreeFailure

(* What an attempt is counted for: the code at a commit, of a failure that *)
(* is recovered from, maintained or escalated.                             *)
Recoverable(c) == Classification(c) = "AUTO_RECOVERABLE" \/ Transient(c)
Recoveries == {c \in Codes : Recoverable(c)} \X Heads
Maintenances == {c \in Codes : Maintainable(c)} \X Heads
Targets == 0..MaxTaskHead      \* the head of the active task; 0 when no task is active
Escalations == ({c \in Codes : Escalatable(c)} \X Heads) \X Targets

NoWork == [kind |-> "none", name |-> <<>>, round |-> 0, review |-> 0, ci |-> 0,
           checked |-> FALSE, reviewed |-> FALSE]
Evidence(w) == [kind |-> w.kind, checked |-> w.checked, reviewed |-> w.reviewed]
Started(gen) == [pc |-> "start", level |-> "primary", round |-> 0, recovered |-> 0,
                 gen |-> gen, code |-> "none", action |-> "none", attempt |-> 0]

ProductInit ==
    /\ faults \in FaultSets /\ root = 1 /\ origin = 1 /\ branches = {}
    /\ records = [f \in Recoveries |-> 0] /\ maintained = [f \in Maintenances |-> 0]
    /\ escalations = [f \in Escalations |-> 0]
    /\ proc = Started(0) /\ work = NoWork /\ merged = {}
    /\ executed = [f \in Recoveries |-> 0] /\ deaths = 0

Onward(pc) == proc' = [proc EXCEPT !.pc = pc]
Exit == proc' = [Started(proc.gen) EXCEPT !.pc = "exit"]
(* An error that leaves runSupervisedProductFactory: the command line      *)
(* escalates those of the first provider only.                             *)
ThrowOut(c) == proc' = [Started(proc.gen) EXCEPT !.code = c, !.level = proc.level,
                                                 !.pc = IF proc.level = "primary" THEN "cli" ELSE "outer"]
RaiseError(c) == proc' = [proc EXCEPT !.code = c, !.pc = "supervise", !.round = 0]
(* An error of a publication goes to its caller.                           *)
Fail(c) == /\ work' = NoWork
           /\ CASE work.kind = "correction" -> RaiseError(c)
                [] work.kind = "recovery" -> ThrowOut(c)
                [] work.kind = "maintenance" -> Exit
Faulty(codes) == \E c \in codes \cap faults : Fail(c)

----------------------------------------------------------------------------
(* runBootstrapCompatibilityMigrations refuses a dirty root.               *)
Start ==
    /\ proc.pc = "start" /\ (Onward("factory") \/ Exit)
    /\ UNCHANGED <<faults, root, origin, files, work, history>>

(* The doctor, runAutopilot and the deterministic checks: the autopilot    *)
(* moves main, and has pulled it when the project is complete.             *)
RunAutopilot ==
    /\ proc.pc = "factory"
    /\ origin' \in {origin, origin + 1} \cap Heads
    /\ \/ root' = origin' /\ Onward("audit")
       \/ root' \in {root, origin'} /\ \E c \in faults \cap Codes : RaiseError(c)
    /\ UNCHANGED <<faults, files, work, history>>

(* auditProduct and the end of a round.  A correction is named after its   *)
(* round and the commit it starts from.                                    *)
Rounds == IF proc.level = "primary" \/ MaxRounds = 0 THEN MaxRounds ELSE 1
AuditProduct ==
    /\ proc.pc = "audit"
    /\ \/ /\ proc.level = "primary" /\ Exit /\ UNCHANGED work
       \/ /\ proc.level = "degraded" /\ UNCHANGED work       \* the first provider resumes
          /\ proc' = [Started(proc.gen) EXCEPT !.pc = "factory"]
       \/ (\E c \in {"REPAIRABLE", "GAP"} \cap faults : RaiseError(c)) /\ UNCHANGED work
                                                             \* no valid report
       \/ "gaps" \in faults /\ proc.round >= Rounds /\ RaiseError("LIMIT") /\ UNCHANGED work
       \/ /\ "gaps" \in faults /\ proc.round < Rounds /\ Onward("branch")
          /\ work' = [NoWork EXCEPT !.kind = "correction",
                                    !.name = <<"correction", proc.round + 1, root>>]
    /\ UNCHANGED <<faults, root, origin, files, history>>

----------------------------------------------------------------------------
(* applyProductCorrection, publishRecoveryChanges, runAutonomousMaintenance*)
(* A branch that exists already fails git worktree add.                    *)
Branch ==
    /\ proc.pc = "branch"
    /\ \/ work.name \in branches /\ Fail("GIT") /\ UNCHANGED branches
       \/ /\ work.name \notin branches /\ branches' = branches \cup {work.name}
          /\ Onward("patch") /\ UNCHANGED work
    /\ UNCHANGED <<faults, root, origin, records, escalations, maintained, history>>

GoBack == /\ work' = NoWork
          /\ proc' = [proc EXCEPT !.pc = CASE work.kind = "correction" -> "factory"
                                           [] work.kind = "recovery" -> "recovered"
                                           [] work.kind = "maintenance" -> "reexec",
                                  !.round = IF work.kind = "correction" THEN @ + 1 ELSE @]
(* The agent's patch.  A recovery without changes counts as executed.      *)
Patch ==
    /\ proc.pc = "patch"
    /\ \/ Faulty({"REPAIRABLE"})
       \/ work.kind = "recovery" /\ GoBack
       \/ Onward("verify") /\ UNCHANGED work
    /\ UNCHANGED <<faults, root, origin, files, history>>

(* verifyAndRepairCorrectionPatch, verifyAndRepairRecoveryPatch,           *)
(* verifyAndRepairPatch; then the commit.                                  *)
Edited == [work EXCEPT !.checked = FALSE, !.reviewed = FALSE]
Verify ==
    /\ proc.pc = "verify"
    /\ \/ Faulty({"GAP", "REPAIRABLE"})
          \* out of scope; the limit of repairs, or their agent fails
       \/ /\ work.round < MaxPatch /\ Onward("verify")
          /\ work' = [Edited EXCEPT !.round = @ + 1]
       \/ /\ Onward(IF work.kind = "maintenance" THEN "review" ELSE "push")
          /\ work' = [work EXCEPT !.checked = TRUE]
    /\ UNCHANGED <<faults, root, origin, files, history>>

(* commitWithIndependentReview, of maintenance only.                       *)
Review ==
    /\ proc.pc = "review"
    /\ \/ Faulty({"REPAIRABLE"})
       \/ work.review < MaxPatch /\ Onward("verify") /\ work' = [Edited EXCEPT !.review = @ + 1, !.round = 0]
       \/ Onward("push") /\ work' = [work EXCEPT !.reviewed = TRUE]
    /\ UNCHANGED <<faults, root, origin, files, history>>

Push ==
    /\ proc.pc = "push"
    /\ \/ Onward("wait") /\ UNCHANGED work
       \/ Faulty({"EXTERNAL", "GIT"})
    /\ UNCHANGED <<faults, root, origin, files, history>>

(* repairCorrectionCi, repairRecoveryCi, repairCi: the agent's repair is   *)
(* verified (and reviewed) again before it is pushed.                      *)
RepairCi == Onward("verify") /\ work' = [Edited EXCEPT !.ci = @ + 1, !.round = 0, !.review = 0]

(* The rounds over the pull request: red checks are repaired up to a       *)
(* limit, and one that is not CLEAN is given up.                           *)
RedChecks == /\ "red" \in faults
             /\ \/ work.ci < MaxCi /\ RepairCi
                \/ /\ work.ci >= MaxCi
                   /\ Fail(IF work.kind = "recovery" THEN "LIMIT" ELSE "REPAIRABLE")
NotClean == ("REPAIRABLE" \in faults \/ origin = MaxMain) /\ Fail("REPAIRABLE")

(* gh pr merge, whose answer may be lost; the branch goes with it.         *)
MergePullRequest ==
    /\ origin < MaxMain /\ origin' = origin + 1
    /\ merged' = merged \cup {Evidence(work)}
    /\ \/ Onward("land") /\ UNCHANGED work /\ branches' = branches \ {work.name}
       \/ Faulty({"EXTERNAL"}) /\ UNCHANGED branches

(* waitForPullRequest, and what follows its answer.                        *)
Wait ==
    /\ proc.pc = "wait"
    /\ \/ /\ RedChecks \/ NotClean \/ Faulty({"CLOSED", "EXTERNAL"})
          /\ UNCHANGED <<origin, merged, branches>>
       \/ MergePullRequest
    /\ UNCHANGED <<faults, root, records, escalations, maintained, executed, deaths>>

(* The root worktree follows main.                                         *)
Land ==
    /\ proc.pc = "land"
    /\ \/ root' = origin /\ GoBack
       \/ Faulty({"GIT"}) /\ UNCHANGED root
    /\ UNCHANGED <<faults, origin, files, history>>

----------------------------------------------------------------------------
(* The catch of runSupervisedProductFactory: what is recoverable at all,   *)
(* the attempts already made at this commit, the diagnosis.                *)
Actions == {"PUBLISH", "REOPEN_CORRECTION", "RETRY_INFRASTRUCTURE", "TERMINAL"}
Diagnoses(c) == CASE Classification(c) = "EXTERNAL_BLOCKER" -> {"RETRY_INFRASTRUCTURE"}
                  [] c = "DRIFT" -> {"PUBLISH"}        \* deterministicRecoveryDiagnosis
                  [] OTHER -> Actions
Supervise ==
    LET c == proc.code
        attempts == records[<<c, root>>]
    IN /\ proc.pc = "supervise"
       /\ \/ ~Recoverable(c) /\ ThrowOut(c)
          \/ Recoverable(c) /\ attempts >= MaxAttempts /\ ThrowOut("LIMIT")
          \/ /\ Recoverable(c) /\ attempts < MaxAttempts
             /\ \/ /\ c \notin {"DRIFT", "EXTERNAL"} /\ "REPAIRABLE" \in faults
                   /\ ThrowOut("REPAIRABLE")                           \* no diagnosis
                \/ \E a \in Diagnoses(c) :
                     IF a = "RETRY_INFRASTRUCTURE" /\ (~Transient(c) \/ attempts + 1 > MaxRetries)
                     THEN ThrowOut("REPAIRABLE")
                     ELSE proc' = [proc EXCEPT !.pc = "record", !.action = a, !.attempt = attempts + 1]
    /\ UNCHANGED <<faults, root, origin, files, work, history>>

(* recordSupervisorAttempt, before executeSupervisorRecoveryAction.        *)
Recorded == [records EXCEPT ![<<proc.code, root>>] = @ + 1]
RecordAttempt ==
    /\ proc.pc = "record" /\ records' = Recorded /\ Onward("execute")
    /\ UNCHANGED <<faults, root, origin, branches, escalations, maintained, work, history>>

Execute ==
    /\ proc.pc = "execute"
    /\ executed' = [executed EXCEPT ![<<proc.code, root>>] = @ + 1]
    /\ CASE proc.action = "TERMINAL" -> ThrowOut("REPAIRABLE") /\ UNCHANGED work
         [] proc.action = "PUBLISH" ->
              /\ Onward("branch")
              /\ work' = [NoWork EXCEPT !.kind = "recovery",
                             !.name = <<"recovery", proc.attempt, <<proc.code, root>> >>]
         [] proc.action = "RETRY_INFRASTRUCTURE" -> Onward("recovered") /\ UNCHANGED work
         [] proc.action = "REOPEN_CORRECTION" ->
              (Onward("recovered") \/ ThrowOut("REPAIRABLE")) /\ UNCHANGED work
    /\ UNCHANGED <<faults, root, origin, files, merged, deaths>>

(* The end of the catch; the factory is run again from its first round.    *)
RunAgain ==
    /\ proc.pc = "recovered"
    /\ \/ proc.recovered + 1 > MaxGlobal /\ ThrowOut("LIMIT")
       \/ /\ proc.recovered + 1 <= MaxGlobal
          /\ proc' = [Started(proc.gen) EXCEPT !.pc = "factory", !.level = proc.level,
                                               !.recovered = proc.recovered + 1]
    /\ UNCHANGED <<faults, root, origin, files, work, history>>

----------------------------------------------------------------------------
(* runAutonomousEscalation: first the active task with the other provider, *)
(* then the whole factory with it.  The attempt is written first.          *)
StageOf(attempt, target) ==
    LET taskRounds == IF target = 0 THEN 0 ELSE MaxTask
    IN CASE attempt <= taskRounds -> "TASK_FALLBACK"
         [] attempt > taskRounds /\ attempt <= taskRounds + MaxDegraded -> "DEGRADED_RECOVERY"
         [] OTHER -> "EXHAUSTED"
Escalate ==
    /\ proc.pc = "cli"
    /\ \/ ~Escalatable(proc.code) /\ Onward("outer") /\ UNCHANGED escalations
       \/ /\ Escalatable(proc.code)
          /\ \E target \in Targets :
               LET f == << <<proc.code, root>>, target>>
                   stage == StageOf(escalations[f] + 1, target)
                   outer == [proc EXCEPT !.pc = "outer", !.code = "REPAIRABLE"]
               IN /\ escalations' = IF stage = "EXHAUSTED" THEN escalations
                                    ELSE [escalations EXCEPT ![f] = @ + 1]
                  /\ proc' \in CASE stage = "EXHAUSTED" -> {outer}
                                 [] stage = "TASK_FALLBACK" ->
                                      {outer, [Started(proc.gen) EXCEPT !.pc = "factory"]}
                                 [] stage = "DEGRADED_RECOVERY" ->
                                      {outer, [Started(proc.gen) EXCEPT !.pc = "factory",
                                                                        !.level = "degraded"]}
    /\ UNCHANGED <<faults, root, origin, branches, records, maintained, work, history>>

\* recordAttempt: an attempt is written down before anything is tried.
RecordMaintenance(f) == /\ maintained[f] < MaxAttempts
                        /\ maintained' = [maintained EXCEPT ![f] = @ + 1]

(* The outermost catch of the command line and the start of                *)
(* runAutonomousMaintenance; its branch has a random name.                 *)
Maintain ==
    LET f == <<proc.code, root>>
        mayMaintain == Maintainable(proc.code) /\ proc.gen < MaxGen
    IN /\ proc.pc = "outer"
       /\ \/ Exit /\ UNCHANGED <<work, maintained>>     \* also when the root is dirty
          \/ /\ mayMaintain /\ RecordMaintenance(f)
             /\ \/ Exit /\ UNCHANGED work               \* no provider
                \/ Onward("patch") /\ work' = [NoWork EXCEPT !.kind = "maintenance"]
       /\ UNCHANGED <<faults, root, origin, branches, records, escalations, history>>

(* The repaired factory is started as a child and decides the exit code.   *)
Reexec ==
    /\ proc.pc = "reexec" /\ proc' = Started(proc.gen + 1)
    /\ UNCHANGED <<faults, root, origin, files, work, history>>

(* A death, or an exit, and a new start: files and branches are as left.   *)
Restart ==
    /\ deaths < MaxDeaths /\ deaths' = deaths + 1
    /\ proc' = Started(0) /\ work' = NoWork
    /\ UNCHANGED <<faults, root, origin, files, merged, executed>>

Factory == \/ Start \/ RunAutopilot \/ AuditProduct \/ Branch \/ Patch \/ Verify \/ Review \/ Push
           \/ Wait \/ Land \/ Supervise \/ RecordAttempt \/ Execute \/ RunAgain \/ Escalate
           \/ Maintain \/ Reexec
ProductNext == Factory \/ Restart
ProductSpec == ProductInit /\ [][ProductNext]_productVars /\ WF_productVars(Factory)

----------------------------------------------------------------------------
ProductTypeOK ==
    /\ root \in Heads /\ origin \in Heads /\ root <= origin
    /\ \A f \in Recoveries : records[f] <= MaxAttempts
    /\ \A f \in Maintenances : maintained[f] <= MaxAttempts
    /\ \A f \in Escalations : escalations[f] <= MaxTask + MaxDegraded
    /\ proc.gen <= MaxGen /\ proc.round <= MaxRounds /\ proc.recovered <= MaxGlobal
    /\ proc.code \in Codes \cup {"none"} /\ deaths <= MaxDeaths
    /\ work.round <= MaxPatch /\ work.review <= MaxPatch /\ work.ci <= MaxCi

(* No failure is recovered from more often than its budget at one commit,  *)
(* deaths and new starts included, and no recovery finds its branch taken: *)
(* the attempt is on disk before the action (recordSupervisorAttempt).     *)
RecoveriesAreCounted ==
    /\ \A f \in Recoveries : executed[f] <= MaxAttempts
    /\ proc.pc = "branch" /\ work.kind = "recovery" => work.name \notin branches

(* What the factory merged into main passed the full checks as it was      *)
(* pushed, and maintenance also the independent review, after any number   *)
(* of patch, review and CI repairs.                                        *)
MergedWasProved == \A e \in merged : e.checked /\ (e.kind = "maintenance" => e.reviewed)

(* Every run of the command ends: no failure is recovered from, escalated  *)
(* or maintained for ever while main and the task stand still.             *)
Ended == proc.pc = "exit"
CommandEnds == ~Ended ~> Ended

(* A correction that failed can be tried again at the same commit.  A      *)
(* claim that does not hold: its branch is already there.                  *)
CorrectionIsRetried == ~(proc.pc = "branch" /\ work.kind = "correction" /\ work.name \in branches)
=============================================================================
