---------------------------- MODULE FactoryTick ----------------------------
(***************************************************************************)
(* The second-generation factory runtime (factory/controller/runtime.py):  *)
(* one work item, its pull request, and the tick that collects             *)
(* observations, reduces them to a next state and commands, persists the   *)
(* state, and then executes the commands through adapters that look before *)
(* they act.  The process may die between any two of these steps.  The     *)
(* pull request, the checks, the reviewer and the worker are external.     *)
(***************************************************************************)
EXTENDS Naturals

CONSTANTS Checks,       \* names of the checks of the pull request
          Required,     \* the required checks tick_once was given
          MaxHead,      \* commits pushed to the pull request
          MaxCommands,  \* bound on the rows of the commands table
          MaxCrashes    \* bound on process deaths

VARIABLES item,      \* the work_items row
          pr,        \* external: the pull request on GitHub
          checks,    \* external: statusCheckRollup of its head
          review,    \* external: the item's entry of the review store
          verified,  \* history: heads with a sound PASS of mode VERIFY
          effects,   \* external: issues and sessions the adapters made, looks that missed one
          commands,  \* the number of rows of the commands table
          tick,      \* the program counter of tick_once
          obs,       \* what Collector.collect returned
          cmd,       \* the command being executed
          crashes

world == <<pr, checks, review, verified>>
vars == <<item, world, effects, commands, tick, obs, cmd, crashes>>

Heads == 1..MaxHead
WorkStatus == {"PLANNED", "READY", "IMPLEMENTING", "PR_OPEN", "CI_WAIT",
               "PRODUCT_FIX", "REVIEW_BASELINE_WAIT", "REVIEW_FIX",
               "REVIEW_VERIFY_WAIT", "MERGE_READY", "MERGING"}
Conclusion == {"absent", "", "SUCCESS", "FAILURE", "timeout"}
Review == [head : Heads, mode : {"BASELINE", "VERIFY"}, verdict : {"PASS", "CHANGES_REQUESTED"}]
\* No review, or one whose verdict does not parse: no rule reads the rest of it.
NoReview == [head |-> 0, mode |-> "NONE", verdict |-> "MALFORMED"]
NoObs == [pr |-> [state |-> "open", head |-> 1], mergeable |-> FALSE,
          ci |-> "none", review |-> NoReview]
NoCmd == [type |-> "NONE", version |-> 0, head |-> 0]
PendingIsSuccess == {"SUCCESS", ""}

(* One row, as it is first inserted: planned, implementing under an issue, *)
(* or with a pull request open.                                            *)
Init ==
    /\ item \in {[status |-> "PLANNED", issue |-> FALSE, pr |-> FALSE, head |-> 0],
                 [status |-> "IMPLEMENTING", issue |-> TRUE, pr |-> FALSE, head |-> 0],
                 [status |-> "PR_OPEN", issue |-> TRUE, pr |-> TRUE, head |-> 0]}
    /\ pr = [state |-> "open", head |-> 1]
    /\ checks = [c \in Checks |-> "absent"]
    /\ review = NoReview /\ verified = {}
    /\ effects = [issues |-> 0, sessions |-> 0, missed |-> 0]
    /\ commands = 0
    /\ tick = "idle" /\ cmd = NoCmd /\ obs = NoObs /\ crashes = 0

----------------------------------------------------------------------------
(* Collector.collect: a missing required check is no evidence; a required  *)
(* check with an empty conclusion does not count against the head; with no *)
(* required checks one success is enough.                                  *)
HasEvidence == /\ \E c \in Checks : checks[c] # "absent"
               /\ \A c \in Required : checks[c] # "absent"
Passed == IF Required # {}
          THEN \A c \in Required : checks[c] \in PendingIsSuccess
          ELSE \E c \in Checks : checks[c] = "SUCCESS"
Classification == IF ~HasEvidence THEN "none"
                  ELSE IF Passed THEN "pass"
                  ELSE IF \E c \in Checks : checks[c] = "timeout" THEN "infra"
                  ELSE "product"

Collect ==
    /\ tick = "idle" /\ commands < MaxCommands
    /\ \E mergeable \in BOOLEAN :
           obs' = [pr |-> pr, mergeable |-> mergeable, ci |-> Classification, review |-> review]
    /\ tick' = "reduce"
    /\ UNCHANGED <<item, world, effects, commands, cmd, crashes>>

----------------------------------------------------------------------------
(* Command.new: the key holds the number of commands the item has had, so  *)
(* the version stands for the key.                                         *)
Command(type, head) == [type |-> type, version |-> commands, head |-> head]

Kept(w) == IF w.pr THEN [w EXCEPT !.head = obs.pr.head] ELSE w
With(w, status) == [Kept(w) EXCEPT !.status = status]

(* The checks of the observed head, in CI_WAIT, PRODUCT_FIX, PR_OPEN and   *)
(* REVIEW_FIX; only a pass in PR_OPEN falls through to the rules below it. *)
ReduceCI(w) ==
    CASE obs.ci = "pass" /\ w.status = "REVIEW_FIX" ->
             <<With(w, "REVIEW_VERIFY_WAIT"), Command("TRIGGER_REVIEW", obs.pr.head)>>
      [] obs.ci = "pass" /\ w.status \in {"CI_WAIT", "PRODUCT_FIX"} ->
             <<With(w, "REVIEW_BASELINE_WAIT"), Command("TRIGGER_REVIEW", obs.pr.head)>>
      [] obs.ci = "pass" /\ w.status = "PR_OPEN" /\ obs.pr.state = "open" ->
             <<With(w, "CI_WAIT"), NoCmd>>
      [] obs.ci = "infra" -> <<Kept(w), Command("RETRY_CI_INFRA", obs.pr.head)>>
      [] obs.ci = "product" /\ w.status # "PRODUCT_FIX" ->
             <<With(w, "PRODUCT_FIX"), Command("SEND_PRODUCT_CORRECTION", obs.pr.head)>>
      [] OTHER -> <<Kept(w), NoCmd>>

(* A review answers only the wait of its own mode, at the observed head.   *)
Answers(w) == /\ obs.review.verdict # "MALFORMED"
              /\ obs.review.head = Kept(w).head
              /\ \/ w.status = "REVIEW_BASELINE_WAIT" /\ obs.review.mode = "BASELINE"
                 \/ w.status = "REVIEW_VERIFY_WAIT" /\ obs.review.mode = "VERIFY"
ReduceReview(w) ==
    IF obs.review.verdict = "PASS"
    THEN <<With(w, "MERGE_READY"), NoCmd>>
    ELSE <<With(w, "REVIEW_FIX"), Command("SEND_PRODUCT_CORRECTION", 0)>>

CanMerge(w) == /\ w.pr /\ obs.pr.state = "open" /\ obs.mergeable
               /\ obs.ci = "pass"
               /\ obs.review.verdict = "PASS"
               /\ obs.review.mode = "VERIFY" /\ obs.review.head = obs.pr.head

(* reduce_state: the next row, and a command or NoCmd.                     *)
Reduce(w) ==
    CASE w.status = "PLANNED" -> <<[w EXCEPT !.status = "READY"], NoCmd>>
      [] w.status = "READY" /\ ~w.issue -> <<w, Command("CREATE_ISSUE", 0)>>
      [] w.status = "IMPLEMENTING" /\ w.issue -> <<w, Command("START_WORKER", 0)>>
      [] w.pr /\ w.status \in {"CI_WAIT", "PRODUCT_FIX", "PR_OPEN", "REVIEW_FIX"} -> ReduceCI(w)
      [] Answers(w) -> ReduceReview(w)
      [] w.status = "MERGE_READY" /\ CanMerge(w) ->
             <<With(w, "MERGING"), Command("MERGE_PR", obs.pr.head)>>
      [] OTHER -> <<Kept(w), NoCmd>>

(* The next row is persisted before its command is even recorded.          *)
Persist ==
    /\ tick = "reduce"
    /\ item' = Reduce(item)[1]
    /\ cmd' = Reduce(item)[2]
    /\ tick' = IF cmd' = NoCmd THEN "idle" ELSE "insert"
    /\ obs' = NoObs
    /\ UNCHANGED <<world, effects, commands, crashes>>

----------------------------------------------------------------------------
(* Executor.execute: the command row precedes the handler, the receipt     *)
(* follows it.  A key counts the rows, so a new command never meets the    *)
(* receipt of an old one and the receipts are not part of the state.       *)
InsertCommand ==
    /\ tick = "insert"
    /\ tick' = "handler"
    /\ commands' = IF cmd.version < commands THEN commands ELSE commands + 1
    /\ UNCHANGED <<item, world, effects, obs, cmd, crashes>>

(* The adapters look before they act: an issue with the item's marker, a   *)
(* session of its branch, a pull request already merged.  A list of issues *)
(* that fails raises.  A list of sessions that fails falls back to a scan  *)
(* of directories that knows no branch: a session is missed, and a second  *)
(* one created.                                                            *)
CreateIssue == effects' = [effects EXCEPT !.issues = IF @ = 0 THEN 1 ELSE @]
\* Mutant: the session of the branch is not looked for.
StartWorkerBlindly == effects' = [effects EXCEPT !.sessions = @ + 1]
StartWorker ==
    \/ effects' = [effects EXCEPT !.sessions = IF @ = 0 THEN 1 ELSE @]
    \/ /\ effects.sessions > 0
       /\ effects' = [effects EXCEPT !.sessions = @ + 1, !.missed = @ + 1]
\* Mutant: the merge does not name the head it is for.
MergePrAnyHead == IF pr.state = "open" THEN pr' = [pr EXCEPT !.state = "merged"] ELSE UNCHANGED pr
MergePr == IF pr.state = "open" /\ pr.head = cmd.head
           THEN pr' = [pr EXCEPT !.state = "merged"]
           ELSE UNCHANGED pr

(* The handler takes effect, or fails without one; TRIGGER_REVIEW reaches  *)
(* the reviewer, the correction and retry commands have no handler.        *)
Handler ==
    /\ tick = "handler"
    /\ \/ /\ cmd.type = "CREATE_ISSUE" /\ CreateIssue /\ UNCHANGED pr
       \/ /\ cmd.type = "START_WORKER" /\ StartWorker /\ UNCHANGED pr
       \/ /\ cmd.type = "MERGE_PR" /\ MergePr /\ UNCHANGED effects
       \/ UNCHANGED <<pr, effects>>
    /\ tick' = "receipt"
    /\ UNCHANGED <<item, checks, review, verified, commands, obs, cmd, crashes>>

WriteReceipt ==
    /\ tick = "receipt"
    /\ tick' = "idle" /\ cmd' = NoCmd
    /\ UNCHANGED <<item, world, effects, commands, obs, crashes>>

(* The process dies; run_loop starts over from the database.               *)
Crash ==
    /\ tick # "idle" /\ crashes < MaxCrashes
    /\ crashes' = crashes + 1
    /\ tick' = "idle" /\ cmd' = NoCmd /\ obs' = NoObs
    /\ UNCHANGED <<item, world, effects, commands>>

----------------------------------------------------------------------------
(* The world between and during ticks: a worker pushes, checks report, a   *)
(* reviewer files a review of the head it saw, GitHub or a person changes  *)
(* the state of the pull request, which settles it.                        *)
Push == /\ pr.state = "open" /\ pr.head < MaxHead
        /\ pr' = [pr EXCEPT !.head = @ + 1]
        /\ checks' = [c \in Checks |-> "absent"]
        /\ UNCHANGED <<review, verified>>
Report(c) == /\ pr.state = "open" /\ checks[c] \in {"absent", ""}
             /\ \E v \in Conclusion \ {"absent", checks[c]} : checks' = [checks EXCEPT ![c] = v]
             /\ UNCHANGED <<pr, review, verified>>
FileReview == /\ pr.state = "open"
              /\ \E r \in Review \cup {NoReview} :
                     /\ r.head \in {pr.head, NoReview.head}
                     /\ review' = r
                     /\ verified' = IF r.mode = "VERIFY" /\ r.verdict = "PASS"
                                    THEN verified \cup {r.head} ELSE verified
              /\ UNCHANGED <<pr, checks>>
Close == /\ pr.state = "open" /\ pr' = [pr EXCEPT !.state = "closed"]
         /\ UNCHANGED <<checks, review, verified>>
World == /\ Push \/ (\E c \in Checks : Report(c)) \/ FileReview \/ Close
         /\ UNCHANGED <<item, effects, commands, tick, obs, cmd, crashes>>

Runtime == Collect \/ Persist \/ InsertCommand \/ Handler \/ WriteReceipt
Next == Runtime \/ Crash \/ World
Spec == Init /\ [][Next]_vars /\ WF_vars(Runtime)

----------------------------------------------------------------------------
ItemRow == [status : WorkStatus, issue : BOOLEAN, pr : BOOLEAN, head : 0..MaxHead]
Pull == [state : {"open", "merged", "closed"}, head : Heads]
Observation == [pr : Pull, mergeable : BOOLEAN, ci : {"none", "pass", "infra", "product"},
                review : Review \cup {NoReview}]
CommandRow == [type : {"NONE", "CREATE_ISSUE", "START_WORKER", "TRIGGER_REVIEW", "RETRY_CI_INFRA",
                       "SEND_PRODUCT_CORRECTION", "MERGE_PR"},
               version : 0..MaxCommands, head : 0..MaxHead]

TypeOK ==
    /\ item \in ItemRow
    /\ pr \in Pull
    /\ checks \in [Checks -> Conclusion]
    /\ review \in Review \cup {NoReview} /\ verified \subseteq Heads
    /\ effects \in [issues : Nat, sessions : Nat, missed : Nat]
    /\ commands \in 0..MaxCommands
    /\ tick \in {"idle", "reduce", "insert", "handler", "receipt"}
    /\ obs \in Observation /\ cmd \in CommandRow
    /\ crashes \in 0..MaxCrashes

(* The commands of a died tick are issued again under new keys (the key    *)
(* counts the commands table), and START_WORKER in every tick, yet no      *)
(* second issue appears, and a further worker session only where a look    *)
(* missed the one there was: the adapters observe before they act.         *)
NoDuplicateEffect == effects.issues <= 1 /\ effects.sessions <= 1 + effects.missed

(* executor.py:30: "itself reconciles externally, safe to retry".  It does  *)
(* not hold of the sessions: ao.py:35 may fail and the scan miss them all.  *)
OneSession == effects.sessions <= 1

(* The unit of code is a head of the pull request.                         *)
Merged == {h \in {pr.head} : pr.state = "merged"}
Gate == INSTANCE GatedMerge WITH merged <- Merged

(* The head that merge_pr_idempotent merges had a sound PASS of mode       *)
(* VERIFY before, whatever is pushed, reviewed or closed between the       *)
(* observation and the merge and wherever the process dies.                *)
ImplementsGatedMerge == Gate!GateSpec

(* docs/factory/control-plane-v2.md: merged only with "exact-head required *)
(* CI PASS".  A claim that does not hold: a check without a conclusion yet *)
(* counts as passed.                                                       *)
MergedHeadWasGreen == pr.state = "merged" => \A c \in Required : checks[c] = "SUCCESS"
----------------------------------------------------------------------------
(* The inductive invariant.  A sound VERIFY pass is on record wherever it  *)
(* has got to: the review store, the observation, the merge command, the   *)
(* merged pull request.                                                    *)
SoundPass(r) == r.mode = "VERIFY" /\ r.verdict = "PASS"

PassesAreVerified ==
    /\ SoundPass(review) => review.head \in verified
    /\ SoundPass(obs.review) => obs.review.head \in verified
    /\ cmd.type = "MERGE_PR" => cmd.head \in verified
    /\ pr.state = "merged" => pr.head \in verified

(* A tick that may add a command found room for it.                        *)
RoomForCommand == tick \in {"reduce", "insert"} => commands < MaxCommands

IInv == TypeOK /\ PassesAreVerified /\ RoomForCommand /\ NoDuplicateEffect

Bounds == /\ MaxHead \in Nat \ {0} /\ MaxCommands \in Nat /\ MaxCrashes \in Nat
          /\ Required \subseteq Checks
=============================================================================
