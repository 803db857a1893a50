--------------------------- MODULE FactoryPackage ---------------------------
(***************************************************************************)
(* One work package under the first-generation factory controller          *)
(* (factory/controller/controller.py): its durable record, the worker      *)
(* session, the pull request, its checks and the machine review.  A tick   *)
(* takes a snapshot, reconciles and saves the record, handles the package  *)
(* on the strength of the snapshot, and saves once more at the end; review *)
(* dispatch also saves a claim before it calls the orchestrator, and an    *)
(* alternate retry looks for work before it kills and cleans up.  A call   *)
(* may raise, or the process may die, before the last save.                *)
(*                                                                         *)
(* A handler is the set of its outcomes: the record it would save and what *)
(* it has done to the world by then.                                       *)
(***************************************************************************)
EXTENDS Naturals

CONSTANTS MaxTask, MaxLiveness, MaxRestores, MaxCi, MaxInfra, MaxReview,
          MaxIntegration, MaxEpochs,       \* budgets of factory/config.json
          MaxTries,     \* MAX_REVIEW_DISPATCH_TRIGGER_ATTEMPTS
          MaxPushes,    \* bound: commits pushed to the pull request
          MaxReviews,   \* bound: review runs that complete
          MaxRaises     \* bound: deaths between an effect and its save

ASSUME PackageAssumption ==
    /\ \A n \in {MaxTask, MaxLiveness, MaxRestores, MaxCi, MaxInfra, MaxReview, MaxIntegration,
                 MaxEpochs, MaxTries, MaxPushes, MaxReviews, MaxRaises} : n \in Nat
    /\ MaxTries >= 1

VARIABLES rec,       \* the durable PackageRecord
          phase,     \* "idle", "handle", "trigger" after a saved claim, or "retry"
                     \* after the look for work that an alternate retry might lose
          snap,      \* the tick's snapshot of the session and pull request, and
                     \* the work it saw when it looked
          sess,      \* external: the worker's session
          work,      \* external: its branch: none, clean or with commits
          pull,      \* external: the pull request
          run,       \* external: the reviewer's latest run and the head it is of
          approved,  \* history: heads approved by a run that proved its context
          reviews, raises

packageVars == <<rec, phase, snap, sess, work, pull, run, approved, reviews, raises>>

PullHeads == 1..MaxPushes
NoKey == <<0, "none", 0>>
Keys == PullHeads \X {"FULL_BASELINE", "CLOSURE_VERIFY", "FINAL_CONFIRMATION"} \X {0, 1}
NoRun == [state |-> "none", head |-> 0, key |-> NoKey, verdict |-> "none"]
NoPr == [state |-> "none", head |-> 0, ci |-> "WAIT", merge |-> "UNKNOWN"]
NoSnap == [sess |-> "none", pr |-> NoPr, work |-> "unseen"]

PackageInit ==
    /\ rec = [status |-> "PLANNED", sid |-> FALSE, task |-> 0, live |-> 0, restores |-> 0,
              head |-> 0, ci |-> 0, ciAuth |-> 0, infra |-> 0, rev |-> 0, revAuth |-> 0,
              term |-> 0, integ |-> 0, epoch |-> 0, replans |-> 0, planned |-> FALSE,
              why |-> "none", disp |-> "none", key |-> NoKey, tries |-> 0, base |-> FALSE,
              open |-> FALSE, ledger |-> 0, error |-> <<"none">>]
    /\ phase = "idle" /\ snap = NoSnap
    /\ sess = "none" /\ work = "none" /\ pull = NoPr /\ run = NoRun
    /\ approved = {} /\ reviews = 0 /\ raises = 0

----------------------------------------------------------------------------
(* reconcile.  With an open pull request every status, BLOCKED included,   *)
(* becomes REVIEW or PR_WAITING; a block for want of a replan also gives   *)
(* the correction rounds of the epoch back.                                *)
LegacyReplanBlock(r) == r.status = "BLOCKED" /\ r.why = "replan" /\ r.epoch < MaxEpochs /\ r.term = 0

Unblocked(r) ==
    IF LegacyReplanBlock(r)
    THEN [r EXCEPT !.why = "none", !.error = <<"none">>, !.rev = 0, !.ci = 0, !.ciAuth = 0,
                   !.replans = IF r.planned /\ @ = 0 THEN 1 ELSE @]
    ELSE r

(* _apply_pr: a head that does not descend from the recorded one is not    *)
(* taken over.  The status BLOCKED that it sets is overwritten at once.    *)
Rewritten(r, p, descends) == r.head \notin {0, p.head} /\ ~descends

HeadApplied(r, p, descends) ==
    [r EXCEPT !.head = IF Rewritten(r, p, descends) THEN @ ELSE p.head,
              !.why = IF Rewritten(r, p, descends) THEN "other" ELSE @,
              !.error = IF Rewritten(r, p, descends) THEN <<"blocked", "other">>
                        ELSE IF r.head \in {0, p.head} THEN @ ELSE <<"none">>,
              !.disp = IF r.key[1] \in {0, p.head} THEN @ ELSE "STALE",
              !.tries = IF r.key[1] \in {0, p.head} THEN @ ELSE 0,
              !.term = IF @ # p.head /\ @ = r.revAuth THEN 0 ELSE @]

ReconciledPr(r, p, s, descends) ==
    LET h == HeadApplied(Unblocked(r), p, descends)
        clear == h.why \in {"replan", "stagnant", "terminal"} /\ h.term = 0
    IN [h EXCEPT !.status = IF h.disp = "ACTIVE" /\ h.key[1] = p.head THEN "REVIEW" ELSE "PR_WAITING",
                 !.sid = @ \/ s \in {"live", "stuck"},
                 !.why = IF clear THEN "none" ELSE @,
                 !.error = IF clear THEN <<"none">> ELSE @]

Recovered(r) == IF r.why \in {"stagnant", "replan", "exhausted"}
                THEN [r EXCEPT !.why = "none", !.planned = FALSE] ELSE r

Reconciled(r, p, s, descends) ==
    IF p.state = "merged" THEN [r EXCEPT !.status = "COMPLETED", !.why = "none"]
    ELSE IF p.state = "open" THEN ReconciledPr(r, p, s, descends)
    ELSE IF s \in {"live", "stuck"}
         THEN [Recovered(r) EXCEPT !.status = IF s = "live" THEN "ACTIVE" ELSE "STUCK", !.sid = TRUE]
    ELSE IF s = "dead" /\ r.task > 0 /\ r.sid THEN [Recovered(r) EXCEPT !.status = "FAILED"]
    ELSE IF (s = "dead" /\ r.task > 0) \/ work # "none"
         THEN [r EXCEPT !.status = "BLOCKED", !.why = "other"]
    ELSE IF r.status = "BLOCKED" THEN r
    ELSE [r EXCEPT !.status = "READY", !.why = "none"]

----------------------------------------------------------------------------
(* Outcomes of the handlers.                                               *)
Out(r) == [rec |-> r, sess |-> sess, work |-> work, run |-> run,
           rerun |-> FALSE, merge |-> FALSE, claim |-> FALSE]
Killed(r) == [Out(r) EXCEPT !.sess = IF @ = "none" THEN @ ELSE "dead"]
Restored(r) == [Out(r) EXCEPT !.sess = "live", !.work = IF @ = "none" THEN "clean" ELSE @]
Block(r, why) == Out([r EXCEPT !.status = "BLOCKED", !.why = why, !.error = <<"blocked", why>>])

(* _escalate_replan without a pull request: at best a plan that supersedes *)
(* the package, so BLOCKED whatever the planner answers.                   *)
EscalateTask(r, o) ==
    LET p == [r EXCEPT !.replans = @ + 1, !.planned = TRUE]
        Blocked(q, why) == [o EXCEPT !.rec = Block(q, why).rec]
    IN IF r.epoch >= MaxEpochs \/ r.replans >= MaxEpochs THEN {Blocked(r, "other")}
       ELSE IF r.planned THEN {Blocked(r, "replan")}
       ELSE {Blocked(p, why) : why \in {"replan", "exhausted", "stagnant", "other"}}

(* _escalate_replan with one: a recovery epoch on the same pull request,   *)
(* perhaps under the other provider, whose reviewer has no run yet.        *)
EscalatePr(r) ==
    LET e == [r EXCEPT !.epoch = @ + 1, !.replans = @ + 1, !.planned = TRUE, !.rev = 0,
                       !.revAuth = 0, !.term = 0, !.ci = 0, !.ciAuth = 0, !.infra = 0,
                       !.why = "none", !.error = <<"none">>, !.status = "PR_WAITING"]
    IN IF r.epoch >= MaxEpochs \/ r.replans >= MaxEpochs THEN {Block(r, "other")}
       ELSE {Block(r, why) : why \in {"replan", "exhausted", "other"}}
            \cup {Out(e), [Out([e EXCEPT !.disp = "none", !.key = NoKey]) EXCEPT !.run = NoRun]}

\* Mutant: a worktree with commits is cleaned too.
AlternateRetryAlways(p) == p.state # "open"

(* _safe_alternate_retry: there is no work to lose.                        *)
SafeAlternateRetry(p) == work # "commits" /\ p.state # "open"
\* Mutant: one attempt more than allowed.
TaskLeftLate(r) == r.task <= MaxTask
TaskLeft(r) == r.task < MaxTask

(* _retry_or_replan once that look has found none: ao.kill, then           *)
(* ao.cleanup.  What the worker did since the look goes with its           *)
(* workspace, unless AO preserves it; if it did, the package is replanned, *)
(* else requeued.  A commit after a kill that raised is one before it.     *)
AlternateRetry(r) ==
    LET cleaned(q) == {[Killed(q) EXCEPT !.work = "none"],
                       [Out(q) EXCEPT !.work = "none", !.sess = "none"]}
        requeued == [r EXCEPT !.status = "READY", !.sid = FALSE, !.ci = 0, !.ciAuth = 0,
                              !.live = 0, !.restores = 0, !.integ = 0, !.infra = 0]
        refused == IF work = "none" THEN {} ELSE {Out(r), Killed(r)}
    IN (UNION {EscalateTask(r, o) : o \in refused})
       \cup (IF TaskLeft(r) THEN cleaned(requeued)
                            ELSE UNION {EscalateTask(r, o) : o \in cleaned(r)})

(* _retry_or_replan otherwise: a worker with work is restored in place.    *)
RetryOrReplan(r, p) ==
    LET again == [r EXCEPT !.task = @ + 1, !.live = 0, !.restores = 0]
    IN IF phase = "retry" THEN AlternateRetry(r)
       ELSE IF SafeAlternateRetry(p) THEN {}       \* goes on as a retry: LookForWork
       ELSE IF TaskLeft(r)
            THEN {Restored(again)} \cup EscalateTask([r EXCEPT !.task = @ + 1], Killed(r))
            ELSE EscalateTask(r, Out(r))

(* _handle_terminated and _handle_activity of the snapshot's session.      *)
HandleSession(r, p, s) ==
    LET restored == [r EXCEPT !.restores = @ + 1]
        nudged == [r EXCEPT !.live = @ + 1]
        first(o) == IF phase = "retry" THEN {} ELSE {o}
    IN IF s = "dead" /\ r.restores < MaxRestores
       THEN first(Restored(restored)) \cup RetryOrReplan(restored, p)
       ELSE IF s = "stuck" /\ r.live < MaxLiveness
            THEN first(Out(nudged)) \cup RetryOrReplan(nudged, p)
       ELSE IF s \in {"dead", "stuck"} THEN RetryOrReplan(r, p)
       ELSE {Out(r)}

(* The last part of tick: a READY package takes a slot, if there is one.   *)
Spawn(o) ==
    LET r == o.rec
        started == [r EXCEPT !.status = "STARTING", !.sid = TRUE, !.task = @ + 1]
    IN IF r.status # "READY" THEN {o}
       ELSE IF ~TaskLeft(r) THEN {o} \cup EscalateTask(r, o)
       ELSE {o, [o EXCEPT !.rec = Block(r, "other").rec],
             [o EXCEPT !.rec = started, !.sess = "live", !.work = "clean"]}

----------------------------------------------------------------------------
(* _handle_pr while a required check is not green.                         *)
HandleCi(r, p, s) ==
    LET infra == <<"INFRA", p.head, r.infra>>
        product == <<"CI", p.head>>
        authorized == IF r.ciAuth = p.head THEN r ELSE [r EXCEPT !.ci = @ + 1, !.ciAuth = p.head]
    IN CASE p.ci = "WAIT" -> {Out([r EXCEPT !.error = <<"wait">>])}
         [] p.ci = "INFRA" /\ r.error = infra -> {Out(r)}
         [] p.ci = "INFRA" /\ r.error # infra /\ r.infra < MaxInfra ->
                {[Out([r EXCEPT !.infra = @ + 1, !.error = <<"INFRA", p.head, r.infra + 1>>])
                      EXCEPT !.rerun = TRUE],
                 Out([r EXCEPT !.error = <<"rerun failed">>])}
         [] p.ci = "INFRA" /\ r.error # infra /\ r.infra >= MaxInfra -> {Block(r, "exhausted")}
         [] r.sid /\ r.error # product /\ p.ci = "UNKNOWN" ->
                {Out([r EXCEPT !.error = <<"unknown", p.head>>])}
         [] r.sid /\ r.error # product /\ p.ci = "PRODUCT" /\ r.ciAuth # p.head /\ r.ci >= MaxCi ->
                IF r.epoch < MaxEpochs THEN EscalatePr(r) ELSE {Block(r, "exhausted")}
         [] r.sid /\ r.error # product /\ p.ci = "PRODUCT" /\ (r.ciAuth = p.head \/ r.ci < MaxCi) ->
                {Out([authorized EXCEPT !.error = product])}
         [] r.sid /\ r.error = product /\ p.ci \in {"UNKNOWN", "PRODUCT"} -> HandleSession(r, p, s)
         [] OTHER -> {Out(r)}

(* The key under which a review of this head is dispatched: the digest of  *)
(* the context covers the head, the mode and the frozen findings.          *)
ReviewMode(r) == CASE ~r.base -> "FULL_BASELINE"
                   [] r.base /\ r.open -> "CLOSURE_VERIFY"
                   [] OTHER -> "FINAL_CONFIRMATION"
DispatchKey(r, p) == <<p.head, ReviewMode(r), r.ledger>>

Staled(r, k) ==
    IF r.key \in {NoKey, k} THEN r
    ELSE [r EXCEPT !.disp = "STALE", !.tries = 0, !.term = IF @ = r.revAuth THEN 0 ELSE @]

Claim(r, k, tries) ==
    {[Out([r EXCEPT !.disp = IF tries = 1 THEN "CLAIMED" ELSE @, !.key = k, !.tries = tries,
                    !.status = "REVIEW"]) EXCEPT !.claim = TRUE]}

(* No run of the reviewer at this head is listed.                          *)
DispatchReview(r, k) ==
    IF r.key = k /\ r.disp = "ACTIVE" THEN {Out([r EXCEPT !.status = "REVIEW"])}
    ELSE IF r.key = k /\ r.disp \in {"CLAIMED", "UNKNOWN"}
         THEN {Out([r EXCEPT !.status = "REVIEW"])} \cup       \* within the grace period
              (IF r.tries < MaxTries THEN Claim(r, k, r.tries + 1)
                                     ELSE {Block([r EXCEPT !.disp = "FAILED"], "other")})
    ELSE IF r.term # 0 /\ r.revAuth # r.term THEN {Block(r, "terminal")}
    ELSE Claim([r EXCEPT !.term = 0], k, 1)

(* A rejection: one correction per round; the verdict on the last round's  *)
(* own head waits for its worker, a rejection after it ends the epoch.     *)
Rejected(r, p, s) ==
    LET error == <<"REVIEW", p.head>>
        c == [r EXCEPT !.status = "PR_WAITING"]
    IN CASE r.rev < MaxReview /\ r.error # error ->
                {Out([c EXCEPT !.rev = @ + 1, !.revAuth = p.head, !.error = error])}
         [] r.rev < MaxReview /\ r.error = error -> HandleSession(c, p, s)
         [] r.rev >= MaxReview /\ r.revAuth = p.head -> HandleSession(c, p, s)
         [] OTHER -> EscalatePr([r EXCEPT !.term = p.head])

Integrate(r, p) ==
    LET error == <<"MERGE", p.head>>
    IN CASE p.merge = "PROTECTED" -> {Block(r, "other")}
         [] p.merge = "CONFLICTING" /\ r.sid /\ r.error # error /\ r.integ >= MaxIntegration -> EscalatePr(r)
         [] p.merge = "CONFLICTING" /\ r.sid /\ r.error # error /\ r.integ < MaxIntegration ->
                {Out([r EXCEPT !.integ = @ + 1, !.error = error, !.status = "PR_WAITING"])}
         [] p.merge = "MERGEABLE" ->
                {[Killed([r EXCEPT !.status = "COMPLETED"]) EXCEPT !.merge = TRUE]}
         [] OTHER -> {Out([r EXCEPT !.status = "PR_WAITING"])}

(* A completed run whose context is proved: the ledger takes its findings. *)
ReviewAccepted(r, p, s, k) ==
    LET passed == [r EXCEPT !.base = TRUE, !.open = FALSE, !.disp = "COMPLETED", !.key = k,
                            !.tries = 0, !.term = 0, !.why = "none", !.error = <<"none">>]
        failed == [r EXCEPT !.base = TRUE, !.open = TRUE, !.disp = "COMPLETED", !.key = k, !.tries = 0]
    IN CASE run.verdict = "invalid" -> Claim(r, k, 1)
         [] run.verdict = "approved" -> Integrate(passed, p)
         [] OTHER -> UNION {Rejected([failed EXCEPT !.ledger = l], p, s) :
                                l \in IF r.open THEN {0, 1} ELSE {r.ledger}}

(* A completed run that proves some other context.                         *)
ReviewUnproved(r, k) ==
    IF run.verdict = "approved" /\ (run.key[2] # "FULL_BASELINE" \/ ~r.base)
    THEN {Block([r EXCEPT !.key = k], "other")}
    ELSE IF r.disp = "ACTIVE" THEN {Out([r EXCEPT !.key = k, !.status = "REVIEW"])}
    ELSE Claim(r, k, 1)

HandleReview(r, p, s) ==
    LET k == DispatchKey(r, p)
        t == Staled(r, k)
    IN CASE ~r.sid -> {Block(r, "other")}
         [] r.sid /\ (run.state = "none" \/ run.head # p.head) -> DispatchReview(t, k)
         [] r.sid /\ run.state = "running" /\ run.head = p.head ->
                {Out([t EXCEPT !.key = k, !.disp = "ACTIVE", !.status = "REVIEW"])}
         [] r.sid /\ run.state = "complete" /\ run.head = p.head /\ run.key # k -> ReviewUnproved(t, k)
         [] OTHER -> ReviewAccepted(t, p, s, k)

HandlePr(r, p, s) == IF p.ci # "PASS" THEN HandleCi([r EXCEPT !.status = "CI_FIX"], p, s)
                                      ELSE HandleReview(r, p, s)

(* The body of tick for this package.                                      *)
Outcomes ==
    LET p == snap.pr  s == snap.sess
    IN CASE rec.status \in {"PR_WAITING", "REVIEW"} -> HandlePr(rec, p, s)
         [] rec.status \in {"ACTIVE", "STUCK", "FAILED"} -> UNION {Spawn(o) : o \in HandleSession(rec, p, s)}
         [] OTHER -> Spawn(Out(rec))

----------------------------------------------------------------------------
(* sync_issues, snapshot, reconcile, save.                                 *)
Reconcile ==
    /\ phase = "idle" /\ rec.status # "COMPLETED"
    /\ \E descends \in BOOLEAN : rec' = Reconciled(rec, pull, sess, descends)
    /\ snap' = [sess |-> sess, pr |-> pull, work |-> "unseen"]
    /\ phase' = "handle"
    /\ sess' = IF pull.state = "merged" /\ sess # "none" THEN "dead" ELSE sess
    /\ UNCHANGED <<work, pull, run, approved, reviews, raises>>

(* The idle watchdog blocks the package instead of handling it.            *)
Watchdog ==
    /\ phase = "handle" /\ rec.status # "COMPLETED"
    /\ rec' = Block(rec, "stagnant").rec
    /\ phase' = "idle" /\ snap' = NoSnap
    /\ UNCHANGED <<sess, work, pull, run, approved, reviews, raises>>

(* An alternate retry has looked for commits and edits, and found none;    *)
(* the worker, stuck as it may seem, is still there.                       *)
LookForWork ==
    /\ phase = "handle" /\ rec.status \in {"ACTIVE", "STUCK", "FAILED"}
    /\ snap.sess \in {"dead", "stuck"} /\ SafeAlternateRetry(snap.pr)
    /\ phase' = "retry" /\ snap' = [snap EXCEPT !.work = work]
    /\ UNCHANGED <<rec, sess, work, pull, run, approved, reviews, raises>>

\* Mutant: no --match-head-commit.
MatchesAnyHead == pull.state = "open"

(* github.merge names the snapshot's head and fails, raising, otherwise.   *)
MergeMatches == pull.state = "open" /\ pull.head = snap.pr.head
\* Mutant: the caller does not hear of a failed merge.
MergeNeverRaises == FALSE
MergeRaises == ~MergeMatches
MergedPull == IF MergeMatches THEN [pull EXCEPT !.state = "merged"] ELSE pull

Handle ==
    /\ phase \in {"handle", "retry"}
    /\ \E o \in Outcomes :
           /\ sess' = o.sess /\ work' = o.work /\ run' = o.run
           /\ pull' = IF o.merge THEN MergedPull
                      ELSE IF o.rerun /\ pull.head = snap.pr.head THEN [pull EXCEPT !.ci = "WAIT"]
                      ELSE pull
           /\ IF o.claim
              THEN rec' = o.rec /\ phase' = "trigger" /\ UNCHANGED <<raises, snap>>
              ELSE /\ phase' = "idle" /\ snap' = NoSnap
                   /\ \/ rec' = o.rec /\ ~(o.merge /\ MergeRaises) /\ UNCHANGED raises
                      \/ raises < MaxRaises /\ raises' = raises + 1 /\ UNCHANGED rec
    /\ UNCHANGED <<approved, reviews>>

(* ao.trigger_review after the saved claim; the call may take effect and   *)
(* raise, or seem to succeed and leave no run behind.                      *)
Trigger ==
    /\ phase = "trigger"
    /\ run' \in {run, [state |-> "running", head |-> pull.head, key |-> rec.key, verdict |-> "none"]}
    /\ \/ \E d \in {"ACTIVE", "UNKNOWN"} : rec' = [rec EXCEPT !.disp = d]
       \/ UNCHANGED rec        \* death before the last save
    /\ phase' = "idle" /\ snap' = NoSnap
    /\ UNCHANGED <<sess, work, pull, approved, reviews, raises>>

(* A call raises, or the process dies, before anything was done.           *)
Abort ==
    /\ phase # "idle" /\ phase' = "idle" /\ snap' = NoSnap
    /\ UNCHANGED <<rec, sess, work, pull, run, approved, reviews, raises>>

----------------------------------------------------------------------------
(* The world.  A commit, a push and the end of a review may come at any    *)
(* time, between the snapshot and the merge, or the look for work and the  *)
(* kill, too; a session or check that changes then would have the same     *)
(* effect just after it, and does so there.  A worker that seems stuck may *)
(* still commit.                                                           *)
SessionChanges ==
    /\ phase = "idle" /\ sess \in {"live", "stuck"} /\ sess' \in {"live", "stuck", "dead"} \ {sess}
    /\ UNCHANGED <<work, pull, run, approved, reviews>>
WorkerCommits ==
    /\ sess \in {"live", "stuck"} /\ work = "clean" /\ work' = "commits"
    /\ UNCHANGED <<sess, pull, run, approved, reviews>>
WorkerPushes ==
    /\ sess \in {"live", "stuck"} /\ work = "commits"
    /\ pull.head < MaxPushes /\ pull.state \in {"none", "open"}
    /\ pull' = [state |-> "open", head |-> pull.head + 1, ci |-> "WAIT", merge |-> "UNKNOWN"]
    /\ UNCHANGED <<sess, work, run, approved, reviews>>
ChecksReport ==
    /\ phase = "idle" /\ pull.state = "open"
    /\ \/ pull.ci = "WAIT" /\ \E c \in {"PASS", "INFRA", "UNKNOWN", "PRODUCT"} : pull' = [pull EXCEPT !.ci = c]
       \/ \E m \in {"MERGEABLE", "CONFLICTING", "PROTECTED"} : pull.merge = "UNKNOWN" /\ pull' = [pull EXCEPT !.merge = m]
    /\ UNCHANGED <<sess, work, run, approved, reviews>>
(* The reviewer completes, with the marker of the context it was given or  *)
(* without it.                                                             *)
ReviewCompletes ==
    /\ run.state = "running" /\ reviews < MaxReviews /\ reviews' = reviews + 1
    /\ \E v \in {"approved", "rejected", "invalid"}, k \in {run.key, NoKey} :
           /\ run' = [run EXCEPT !.state = "complete", !.key = k, !.verdict = v]
           /\ approved' = IF v = "approved" /\ k[1] = run.head THEN approved \cup {run.head}
                                                              ELSE approved
    /\ UNCHANGED <<sess, work, pull>>
PackageWorld ==
    /\ SessionChanges \/ WorkerCommits \/ WorkerPushes \/ ChecksReport \/ ReviewCompletes
    /\ UNCHANGED <<rec, phase, snap, raises>>

PackageNext == Reconcile \/ Watchdog \/ LookForWork \/ Handle \/ Trigger \/ Abort \/ PackageWorld
PackageSpec == PackageInit /\ [][PackageNext]_packageVars

----------------------------------------------------------------------------
PackageTypeOK ==
    /\ rec.status \in {"PLANNED", "READY", "STARTING", "ACTIVE", "STUCK", "FAILED", "PR_WAITING",
                       "CI_FIX", "REVIEW", "BLOCKED", "COMPLETED"}
    /\ rec.key \in Keys \cup {NoKey} /\ rec.tries \in 0..MaxTries
    /\ rec.task \in 0..MaxTask /\ rec.live \in 0..MaxLiveness /\ rec.restores \in 0..MaxRestores
    /\ rec.ci \in 0..MaxCi /\ rec.infra \in 0..MaxInfra /\ rec.rev \in 0..MaxReview
    /\ rec.epoch \in 0..MaxEpochs /\ rec.replans \in 0..MaxEpochs
    /\ phase \in {"idle", "handle", "trigger", "retry"}

(* A package reported COMPLETED has its pull request merged: a merge that  *)
(* raised, or a head that moved after the snapshot, leaves it open.        *)
CompletedIsMerged == rec.status = "COMPLETED" => pull.state = "merged"

(* Where GatedMerge is found again: a unit is a head of the pull request,  *)
(* verified when a review that proved its context approved it.             *)
PackageMerged == {h \in {pull.head} : pull.state = "merged"}
PackageGate == INSTANCE GatedMerge WITH verified <- approved, merged <- PackageMerged

(* The package controller implements the gated merge: github.merge merges  *)
(* the head the authoritative review approved, whatever is pushed between  *)
(* the review, the snapshot and the merge, and whatever call raises.       *)
PackageImplementsGatedMerge == PackageGate!GateSpec

(* Work is thrown away only by a tick that looked and saw none: what the   *)
(* worker had done by the look of _safe_alternate_retry survives every     *)
(* retry, replan, restore, death and requeue, of that tick and of others.  *)
WorkIsPreserved ==
    [][work = "commits" /\ work' # "commits" => snap.work \in {"none", "clean"}]_packageVars

(* controller.py:1042 and its "supposedly clean worktree".  A claim that   *)
(* does not hold: the worker may commit between the look and the cleanup.  *)
NoWorkIsLost == [][work = "commits" => work' = "commits"]_packageVars

(* A review of one context that never shows up is requested at most        *)
(* MAX_REVIEW_DISPATCH_TRIGGER_ATTEMPTS times: a dispatch that was given   *)
(* up stays given up while its key is the current one.  A claim that does  *)
(* not hold: the next tick claims the same key again.                      *)
FailedDispatchIsFinal == [][rec.disp = "FAILED" /\ rec'.key = rec.key => rec'.disp # "CLAIMED"]_packageVars
=============================================================================
