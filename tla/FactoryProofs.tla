---------------------------- MODULE FactoryProofs ----------------------------
(***************************************************************************)
(* Theorems about both generations of the factory controller.              *)
(* FactoryTick, for any number of checks, heads, commands and deaths: no   *)
(* duplicate effect, and every merge passed the gate.  FactoryPackage, for *)
(* any budgets and any number of pushes, reviews and raised calls: budgets *)
(* are kept, a completed package is merged, only an approved head is       *)
(* merged and commits are never thrown away.  MCDelivery, the four paths   *)
(* side by side: their state keeps its type along every path.              *)
(***************************************************************************)
EXTENDS MCDelivery, DeliveryProofs, TLAPS

\* The values a tick starts from are well typed.
LEMMA EmptyTypes ==
    ASSUME Bounds
    PROVE  NoObs \in Observation /\ NoCmd \in CommandRow /\ ~SoundPass(NoObs.review)
  <1>1. NoReview \in Review \cup {NoReview} /\ ~SoundPass(NoReview) /\ 1 \in Heads
    BY DEF Bounds, Heads, SoundPass, NoReview
  <1>2. NoCmd \in CommandRow
    BY DEF Bounds, NoCmd, CommandRow
  <1> QED
    BY <1>1, <1>2 DEF NoObs, Observation, Pull

\* The row reduce_state keeps: only the head is refreshed.
LEMMA KeptRow ==
    ASSUME Bounds, TypeOK, NEW st \in WorkStatus
    PROVE  Kept(item) \in ItemRow /\ With(item, st) \in ItemRow
  <1>1. obs.pr.head \in 0..MaxHead
    BY DEF TypeOK, Observation, Pull, Heads, Bounds
  <1>2. Kept(item) \in ItemRow
    BY <1>1 DEF TypeOK, ItemRow, Kept
  <1> QED
    BY <1>2 DEF With, ItemRow

\* The commands reduce_state issues are well typed.
LEMMA CommandType ==
    ASSUME Bounds, TypeOK, NEW h \in {0, obs.pr.head},
           NEW type \in {"CREATE_ISSUE", "START_WORKER", "TRIGGER_REVIEW", "RETRY_CI_INFRA",
                         "SEND_PRODUCT_CORRECTION", "MERGE_PR"}
    PROVE  Command(type, h) \in CommandRow /\ Command(type, h).type = type
           /\ Command(type, h).head = h
  <1>1. h \in 0..MaxHead
    BY DEF TypeOK, Observation, Pull, Heads, Bounds
  <1> QED
    BY <1>1 DEF Command, CommandRow, TypeOK

\* reduce_state returns a row and a command; it orders a merge only of an
\* observed head with a sound VERIFY pass.
Sound(p) ==
    /\ p[1] \in ItemRow /\ p[2] \in CommandRow
    /\ p[2].type = "MERGE_PR" => SoundPass(obs.review) /\ obs.review.head = p[2].head

\* A pair of a row and a command other than a merge is sound.
LEMMA SoundPair ==
    ASSUME NEW r \in ItemRow, NEW c \in CommandRow, c.type # "MERGE_PR"
    PROVE  Sound(<<r, c>>)
  BY DEF Sound

\* ... in the states where the checks decide.
LEMMA ReduceCISound ==
    ASSUME Bounds, TypeOK
    PROVE  Sound(ReduceCI(item))
  <1> DEFINE h == obs.pr.head
  <1>1. /\ With(item, "REVIEW_VERIFY_WAIT") \in ItemRow
        /\ With(item, "REVIEW_BASELINE_WAIT") \in ItemRow
        /\ With(item, "CI_WAIT") \in ItemRow
        /\ With(item, "PRODUCT_FIX") \in ItemRow
        /\ Kept(item) \in ItemRow
    BY KeptRow DEF WorkStatus
  <1>2. /\ Command("TRIGGER_REVIEW", h) \in CommandRow /\ Command("TRIGGER_REVIEW", h).type # "MERGE_PR"
        /\ Command("RETRY_CI_INFRA", h) \in CommandRow /\ Command("RETRY_CI_INFRA", h).type # "MERGE_PR"
        /\ Command("SEND_PRODUCT_CORRECTION", h) \in CommandRow
        /\ Command("SEND_PRODUCT_CORRECTION", h).type # "MERGE_PR"
    BY CommandType
  <1>3. NoCmd \in CommandRow /\ NoCmd.type # "MERGE_PR"
    BY EmptyTypes DEF NoCmd
  <1> QED
    BY <1>1, <1>2, <1>3, SoundPair DEF ReduceCI

\* ... and in all others.
LEMMA ReduceSound ==
    ASSUME Bounds, TypeOK
    PROVE  Sound(Reduce(item))
  <1>1. NoCmd \in CommandRow /\ NoCmd.type # "MERGE_PR"
    BY EmptyTypes DEF NoCmd
  <1>2. [item EXCEPT !.status = "READY"] \in ItemRow
    BY DEF TypeOK, ItemRow, WorkStatus
  <1>3. /\ With(item, "MERGE_READY") \in ItemRow /\ With(item, "REVIEW_FIX") \in ItemRow
        /\ With(item, "MERGING") \in ItemRow /\ Kept(item) \in ItemRow /\ item \in ItemRow
    BY KeptRow DEF TypeOK, WorkStatus
  <1>4. /\ Command("CREATE_ISSUE", 0) \in CommandRow /\ Command("CREATE_ISSUE", 0).type # "MERGE_PR"
        /\ Command("START_WORKER", 0) \in CommandRow /\ Command("START_WORKER", 0).type # "MERGE_PR"
        /\ Command("SEND_PRODUCT_CORRECTION", 0) \in CommandRow
        /\ Command("SEND_PRODUCT_CORRECTION", 0).type # "MERGE_PR"
    BY CommandType
  <1>5. Sound(ReduceReview(item))
    BY <1>1, <1>3, <1>4, SoundPair DEF ReduceReview
  <1>6. CanMerge(item) => Sound(<<With(item, "MERGING"), Command("MERGE_PR", obs.pr.head)>>)
    BY <1>3, CommandType DEF Sound, CanMerge, SoundPass
  <1> QED
    BY <1>1, <1>2, <1>3, <1>4, <1>5, <1>6, SoundPair, ReduceCISound DEF Reduce

\* The invariant holds of the row as it is first inserted.
LEMMA InitIInv == ASSUME Bounds, Init PROVE IInv
  <1>1. item \in ItemRow
    <2>1. 0 \in 0..MaxHead /\ {"PLANNED", "IMPLEMENTING", "PR_OPEN"} \subseteq WorkStatus
      BY DEF Bounds, WorkStatus
    <2>2. \E st \in {"PLANNED", "IMPLEMENTING", "PR_OPEN"}, b \in BOOLEAN, c \in BOOLEAN :
             item = [status |-> st, issue |-> b, pr |-> c, head |-> 0]
      BY DEF Init
    <2> QED
      BY <2>1, <2>2 DEF ItemRow
  <1>2. pr \in Pull /\ pr.state = "open" /\ checks \in [Checks -> Conclusion]
    BY DEF Bounds, Init, Pull, Heads, Conclusion
  <1>3. review \in Review \cup {NoReview} /\ ~SoundPass(review) /\ ~SoundPass(obs.review)
    BY EmptyTypes DEF Init, NoReview, SoundPass
  <1>4. obs \in Observation /\ cmd \in CommandRow /\ cmd.type # "MERGE_PR"
    BY EmptyTypes DEF Init, NoCmd
  <1>5. /\ effects \in [issues : Nat, sessions : Nat, missed : Nat] /\ NoDuplicateEffect
        /\ commands \in 0..MaxCommands /\ crashes \in 0..MaxCrashes
    BY DEF Bounds, Init, NoDuplicateEffect
  <1> QED
    BY <1>1, <1>2, <1>3, <1>4, <1>5 DEF Init, IInv, TypeOK, PassesAreVerified, RoomForCommand

\* A session more than one is a session a look has missed.
LEMMA StartWorkerEffect ==
    ASSUME effects \in [issues : Nat, sessions : Nat, missed : Nat], NoDuplicateEffect, StartWorker
    PROVE  effects' \in [issues : Nat, sessions : Nat, missed : Nat] /\ NoDuplicateEffect'
  <1>1. CASE effects' = [effects EXCEPT !.sessions = IF @ = 0 THEN 1 ELSE @]
    BY <1>1 DEF NoDuplicateEffect
  <1>2. CASE effects' = [effects EXCEPT !.sessions = @ + 1, !.missed = @ + 1]
    <2>1. effects.sessions + 1 \in Nat /\ effects.missed + 1 \in Nat
      OBVIOUS
    <2>2. effects' \in [issues : Nat, sessions : Nat, missed : Nat]
      BY <1>2, <2>1
    <2>3. /\ effects'.issues = effects.issues /\ effects'.sessions = effects.sessions + 1
          /\ effects'.missed = effects.missed + 1
      BY <1>2
    <2>4. NoDuplicateEffect'
      BY <2>3 DEF NoDuplicateEffect
    <2> QED BY <2>2, <2>4
  <1> QED BY <1>1, <1>2 DEF StartWorker

\* The adapters leave the number of issues at one, and that of the sessions unless
\* a look misses one; the merge adapter merges only the head its command names.
LEMMA HandlerEffect ==
    ASSUME IInv, Handler
    PROVE  /\ effects' \in [issues : Nat, sessions : Nat, missed : Nat] /\ NoDuplicateEffect'
           /\ pr' \in Pull /\ pr'.head = pr.head
           /\ \/ pr' = pr
              \/ pr.state = "open" /\ pr'.state = "merged" /\ pr.head \in verified
  <1> USE DEF IInv, TypeOK
  <1>1. CASE CreateIssue /\ UNCHANGED pr
    BY <1>1 DEF CreateIssue, NoDuplicateEffect
  <1>2. CASE StartWorker /\ UNCHANGED pr
    BY <1>2, StartWorkerEffect
  <1>3. CASE cmd.type = "MERGE_PR" /\ MergePr /\ UNCHANGED effects
    <2>1. CASE pr.state = "open" /\ pr.head = cmd.head
      <3>1. pr' = [pr EXCEPT !.state = "merged"] /\ pr.head \in verified
        BY <1>3, <2>1 DEF MergePr, PassesAreVerified
      <3> QED
        BY <1>3, <2>1, <3>1 DEF Pull, NoDuplicateEffect
    <2>2. CASE ~(pr.state = "open" /\ pr.head = cmd.head)
      BY <1>3, <2>2 DEF MergePr, NoDuplicateEffect
    <2> QED
      BY <2>1, <2>2
  <1>4. CASE UNCHANGED <<pr, effects>>
    BY <1>4 DEF NoDuplicateEffect
  <1> QED
    BY <1>1, <1>2, <1>3, <1>4 DEF Handler

\* What the world does to the pull request and to the reviews.
LEMMA WorldEffect ==
    ASSUME Bounds, IInv, World
    PROVE  /\ pr' \in Pull /\ checks' \in [Checks -> Conclusion]
           /\ review' \in Review \cup {NoReview}
           /\ verified \subseteq verified' /\ verified' \subseteq Heads
           /\ SoundPass(review') => review'.head \in verified'
           /\ pr' = pr \/ (pr.state = "open" /\ pr'.state # "merged" /\ verified' = verified)
  <1> USE DEF IInv, TypeOK
  <1>1. CASE Push
    <2>1. pr.head + 1 \in Heads
      BY <1>1 DEF Push, Pull, Heads, Bounds
    <2> QED
      BY <1>1, <2>1 DEF Push, Pull, Conclusion, PassesAreVerified
  <1>2. CASE \E c \in Checks : Report(c)
    BY <1>2 DEF Report, PassesAreVerified
  <1>3. CASE FileReview
    BY <1>3 DEF FileReview, SoundPass, Review, NoReview, Pull, PassesAreVerified
  <1>4. CASE Close
    BY <1>4 DEF Close, Pull, PassesAreVerified
  <1> QED
    BY <1>1, <1>2, <1>3, <1>4 DEF World

\* Every step of the tick, a death and every step of the world preserve the
\* invariant.
LEMMA NextIInv == ASSUME Bounds, IInv, [Next]_vars PROVE IInv'
  <1> USE DEF IInv
  <1>1. CASE Collect
    <2>1. \E b \in BOOLEAN :
             obs' = [pr |-> pr, mergeable |-> b, ci |-> Classification, review |-> review]
      BY <1>1 DEF Collect
    <2>2. Classification \in {"none", "pass", "infra", "product"}
      BY DEF Classification
    <2>3. obs' \in Observation /\ obs'.review = review
      BY <2>1, <2>2 DEF TypeOK, Observation
    <2>4. UNCHANGED <<item, pr, checks, review, verified, effects, commands, cmd, crashes>>
          /\ tick' = "reduce" /\ commands < MaxCommands
      BY <1>1 DEF Collect, world
    <2>5. TypeOK'
      BY <2>3, <2>4 DEF TypeOK
    <2> QED
      BY <2>3, <2>4, <2>5 DEF PassesAreVerified, RoomForCommand, NoDuplicateEffect, SoundPass
  <1>2. CASE Persist
    <2>1. /\ item' = Reduce(item)[1] /\ cmd' = Reduce(item)[2] /\ obs' = NoObs
          /\ tick = "reduce" /\ tick' \in {"idle", "insert"}
          /\ UNCHANGED <<pr, checks, review, verified, effects, commands, crashes>>
      BY <1>2 DEF Persist, world
    <2>2. /\ item' \in ItemRow /\ cmd' \in CommandRow
          /\ cmd'.type = "MERGE_PR" => cmd'.head \in verified
      BY <2>1, ReduceSound DEF Sound, PassesAreVerified
    <2>3. obs' \in Observation /\ ~SoundPass(obs'.review)
      BY <2>1, EmptyTypes
    <2>4. TypeOK'
      BY <2>1, <2>2, <2>3 DEF TypeOK
    <2>5. PassesAreVerified'
      BY <2>1, <2>2, <2>3 DEF PassesAreVerified, SoundPass
    <2> QED
      BY <2>1, <2>4, <2>5 DEF RoomForCommand, NoDuplicateEffect
  <1>3. CASE InsertCommand
    <2>1. /\ tick = "insert" /\ tick' = "handler"
          /\ commands' \in {commands, commands + 1}
          /\ UNCHANGED <<item, pr, checks, review, verified, effects, obs, cmd, crashes>>
      BY <1>3 DEF InsertCommand, world
    <2>2. commands' \in 0..MaxCommands
      BY <2>1 DEF TypeOK, RoomForCommand, Bounds
    <2> QED
      BY <2>1, <2>2 DEF TypeOK, PassesAreVerified, RoomForCommand, NoDuplicateEffect
  <1>4. CASE Handler
    <2>1. /\ tick' = "receipt"
          /\ UNCHANGED <<item, checks, review, verified, commands, obs, cmd, crashes>>
      BY <1>4 DEF Handler
    <2>2. pr'.state = "merged" => pr'.head \in verified
      BY <1>4, HandlerEffect DEF PassesAreVerified
    <2> QED
      BY <1>4, <2>1, <2>2, HandlerEffect DEF TypeOK, PassesAreVerified, RoomForCommand
  <1>5. CASE WriteReceipt \/ Crash
    <2>1. /\ tick' = "idle" /\ cmd' = NoCmd /\ obs' \in {obs, NoObs}
          /\ crashes' \in {crashes, crashes + 1} /\ crashes' \in 0..MaxCrashes
          /\ UNCHANGED <<item, pr, checks, review, verified, effects, commands>>
      BY <1>5 DEF WriteReceipt, Crash, world, TypeOK, Bounds
    <2>2. cmd' \in CommandRow /\ cmd'.type # "MERGE_PR"
      BY <2>1, EmptyTypes DEF NoCmd
    <2>3. obs' \in Observation /\ (SoundPass(obs'.review) => obs'.review.head \in verified)
      BY <2>1, EmptyTypes DEF TypeOK, PassesAreVerified
    <2> QED
      BY <2>1, <2>2, <2>3 DEF TypeOK, PassesAreVerified, RoomForCommand, NoDuplicateEffect
  <1>6. CASE World
    <2>1. UNCHANGED <<item, effects, commands, tick, obs, cmd, crashes>>
      BY <1>6 DEF World
    <2>2. PassesAreVerified'
      BY <1>6, <2>1, WorldEffect DEF PassesAreVerified, SoundPass
    <2> QED
      BY <1>6, <2>1, <2>2, WorldEffect DEF TypeOK, RoomForCommand, NoDuplicateEffect
  <1>7. CASE UNCHANGED vars
    BY <1>7 DEF vars, world, TypeOK, PassesAreVerified, SoundPass, RoomForCommand, NoDuplicateEffect
  <1> QED
    BY <1>1, <1>2, <1>3, <1>4, <1>5, <1>6, <1>7 DEF Next, Runtime

\* The inductive invariant of the tick.
THEOREM TickInvariant ==
    ASSUME Bounds
    PROVE  Spec => []IInv
  <1>1. Init => IInv
    BY InitIInv
  <1>2. IInv /\ [Next]_vars => IInv'
    BY NextIInv
  <1> QED
    BY <1>1, <1>2, PTL DEF Spec

\* Commands are issued again after a death, under new keys; because the adapters
\* look before they act, there is one issue at most, and one worker session more
\* than there were looks that missed one.
THEOREM EffectsHappenOnce ==
    ASSUME Bounds
    PROVE  Spec => []NoDuplicateEffect
  BY TickInvariant, PTL DEF IInv

\* The tick implements the gate: what merge_pr_idempotent merges had a sound
\* VERIFY pass of exactly that head.
THEOREM Refinement ==
    ASSUME Bounds
    PROVE  Spec => ImplementsGatedMerge
  <1>1. Init => Gate!GateInit
    BY DEF Init, Gate!GateInit, Merged
  <1>2. IInv /\ [Next]_vars => [Gate!GateNext]_(Gate!gateVars)
    <2> SUFFICES ASSUME IInv, [Next]_vars PROVE [Gate!GateNext]_(Gate!gateVars)
      OBVIOUS
    <2> USE DEF Gate!GateNext, Gate!gateVars, Gate!Verify, Gate!Merge, Merged
    <2>1. CASE Handler
      BY <2>1, HandlerEffect DEF Handler
    <2>2. CASE World
      BY <2>2, WorldEffect
    <2>3. CASE Collect \/ Persist \/ InsertCommand \/ WriteReceipt \/ Crash \/ UNCHANGED vars
      BY <2>3 DEF Collect, Persist, InsertCommand, WriteReceipt, Crash, vars, world
    <2> QED
      BY <2>1, <2>2, <2>3 DEF Next, Runtime
  <1> QED
    BY <1>1, <1>2, TickInvariant, PTL DEF Spec, ImplementsGatedMerge, Gate!GateSpec
-----------------------------------------------------------------------------
(* The package controller.                                                 *)

PackageStatuses == {"PLANNED", "READY", "STARTING", "ACTIVE", "STUCK", "FAILED", "PR_WAITING",
                    "CI_FIX", "REVIEW", "BLOCKED", "COMPLETED"}
BlockReasons == {"none", "other", "replan", "exhausted", "stagnant", "terminal"}
LastErrors == {<<"none">>, <<"wait">>, <<"rerun failed">>}
              \cup ({"blocked"} \X BlockReasons) \cup ({"CI", "REVIEW", "MERGE", "unknown"} \X Nat)
              \cup ({"INFRA"} \X Nat \X Nat)
PackageRecords ==
    [status : PackageStatuses, sid : BOOLEAN, task : 0..MaxTask, live : 0..MaxLiveness,
     restores : 0..MaxRestores, head : 0..MaxPushes, ci : 0..MaxCi, ciAuth : 0..MaxPushes,
     infra : 0..MaxInfra, rev : 0..MaxReview, revAuth : 0..MaxPushes, term : 0..MaxPushes,
     integ : 0..MaxIntegration, epoch : 0..MaxEpochs, replans : 0..MaxEpochs,
     planned : BOOLEAN, why : BlockReasons,
     disp : {"none", "CLAIMED", "ACTIVE", "UNKNOWN", "STALE", "FAILED", "COMPLETED"},
     key : Keys \cup {NoKey}, tries : 0..MaxTries, base : BOOLEAN, open : BOOLEAN,
     ledger : {0, 1}, error : LastErrors]
PullRequests == [state : {"none", "open", "merged"}, head : 0..MaxPushes,
                 ci : {"WAIT", "PASS", "INFRA", "UNKNOWN", "PRODUCT"},
                 merge : {"UNKNOWN", "MERGEABLE", "CONFLICTING", "PROTECTED"}]
ReviewRuns == [state : {"none", "running", "complete"}, head : 0..MaxPushes,
               key : Keys \cup {NoKey}, verdict : {"none", "approved", "rejected", "invalid"}]
Sessions == {"none", "live", "stuck", "dead"}
WorkStates == {"none", "clean", "commits"}
Snapshots == [sess : Sessions, pr : PullRequests, work : WorkStates \cup {"unseen"}]

PackageTypes ==
    /\ rec \in PackageRecords /\ phase \in {"idle", "handle", "trigger", "retry"}
    /\ snap \in Snapshots
    /\ sess \in Sessions /\ work \in WorkStates /\ pull \in PullRequests /\ run \in ReviewRuns
    /\ pull.state # "none" => pull.head > 0

\* What reconcile leaves behind for the handlers of the same tick: a package
\* with a pull request saw it open, a READY one has no branch; a retry that is
\* about to clean up has looked for work and seen none.
SnapshotFits ==
    /\ phase = "handle" =>
        /\ rec.status \in {"PR_WAITING", "REVIEW"} => snap.pr.state = "open" /\ snap.pr.head > 0
        /\ rec.status = "READY" => work = "none"
    /\ phase = "retry" =>
        /\ rec.status \in {"ACTIVE", "STUCK", "FAILED"}
        /\ snap.work \in {"none", "clean"}

\* A run that approves with the marker of its own head is an approval of it.
ApprovalIsKnown ==
    run.state = "complete" /\ run.verdict = "approved" /\ run.key[1] = run.head
        => run.head \in approved

\* The inductive invariant.
PackageInv == PackageTypes /\ SnapshotFits /\ ApprovalIsKnown /\ CompletedIsMerged
-----------------------------------------------------------------------------
LEMMA PackageBounds ==
    /\ MaxTask \in Nat /\ MaxLiveness \in Nat /\ MaxRestores \in Nat /\ MaxCi \in Nat
    /\ MaxInfra \in Nat /\ MaxReview \in Nat /\ MaxIntegration \in Nat /\ MaxEpochs \in Nat
    /\ MaxTries \in Nat /\ MaxPushes \in Nat /\ MaxTries >= 1
  BY PackageAssumption

LEMMA Zeros ==
    /\ 0 \in 0..MaxTask /\ 0 \in 0..MaxLiveness /\ 0 \in 0..MaxRestores /\ 0 \in 0..MaxCi
    /\ 0 \in 0..MaxInfra /\ 0 \in 0..MaxReview /\ 0 \in 0..MaxIntegration /\ 0 \in 0..MaxEpochs
    /\ 0 \in 0..MaxTries /\ 0 \in 0..MaxPushes /\ 1 \in 0..MaxTries
  BY PackageBounds

\* The words a record is made of.
LEMMA PackageWords ==
    /\ {"other", "replan", "exhausted", "stagnant", "terminal", "none"} \subseteq BlockReasons
    /\ <<"none">> \in LastErrors /\ <<"wait">> \in LastErrors /\ <<"rerun failed">> \in LastErrors
    /\ \A why \in BlockReasons : <<"blocked", why>> \in LastErrors
    /\ \A n \in Nat : /\ <<"CI", n>> \in LastErrors /\ <<"REVIEW", n>> \in LastErrors
                      /\ <<"MERGE", n>> \in LastErrors /\ <<"unknown", n>> \in LastErrors
    /\ \A m, n \in Nat : <<"INFRA", m, n>> \in LastErrors
  BY DEF BlockReasons, LastErrors
-----------------------------------------------------------------------------
(* What an outcome of a handler may be.                                    *)

OutcomeRecords == [rec : PackageRecords, sess : Sessions, work : WorkStates, run : ReviewRuns,
                   rerun : BOOLEAN, merge : BOOLEAN, claim : BOOLEAN]

\* One that merges nothing: it does not complete the package, keeps commits
\* unless it is a retry that saw none, and requeues only without a branch.
Plain(o) ==
    /\ o \in OutcomeRecords /\ o.run \in {run, NoRun}
    /\ work = "commits" /\ phase # "retry" => o.work = "commits"
    /\ o.rec.status = "READY" => o.work = "none"
    /\ o.rec.status # "COMPLETED" /\ o.merge = FALSE

\* One that merges: the review run of this very head and context approved it.
Merging(o) ==
    /\ o \in OutcomeRecords /\ o.run = run /\ o.work = work
    /\ o.merge = TRUE /\ o.claim = FALSE
    /\ run.state = "complete" /\ run.verdict = "approved"
    /\ run.head = snap.pr.head /\ run.key[1] = run.head

\* A record handed to a handler.
Handled(r) == r \in PackageRecords /\ r.status \notin {"READY", "COMPLETED"}

LEMMA OutPlain ==
    ASSUME PackageTypes, NEW r, Handled(r)
    PROVE  Plain(Out(r)) /\ Out(r).rec = r /\ Out(r).work = work
  BY DEF PackageTypes, Handled, Out, Plain, OutcomeRecords

LEMMA KilledPlain ==
    ASSUME PackageTypes, NEW r, Handled(r)
    PROVE  Plain(Killed(r)) /\ Killed(r).work = work
  BY DEF PackageTypes, Handled, Killed, Out, Plain, OutcomeRecords, Sessions

LEMMA RestoredPlain ==
    ASSUME PackageTypes, NEW r, Handled(r)
    PROVE  Plain(Restored(r))
  BY DEF PackageTypes, Handled, Restored, Out, Plain, OutcomeRecords, Sessions, WorkStates

LEMMA BlockPlain ==
    ASSUME PackageTypes, NEW r \in PackageRecords, NEW why \in BlockReasons
    PROVE  Handled(Block(r, why).rec) /\ Plain(Block(r, why))
  <1> DEFINE b == [r EXCEPT !.status = "BLOCKED", !.why = why, !.error = <<"blocked", why>>]
  <1>1. b \in PackageRecords /\ b.status = "BLOCKED"
    <2>1. <<"blocked", why>> \in LastErrors /\ "BLOCKED" \in PackageStatuses
      BY PackageWords DEF PackageStatuses
    <2> QED BY <2>1 DEF PackageRecords
  <1>2. Block(r, why) = Out(b)
    BY DEF Block
  <1> HIDE DEF b
  <1>3. Handled(b)
    BY <1>1 DEF Handled
  <1> QED BY <1>2, <1>3, OutPlain

\* Another record in the same outcome.
LEMMA ReplacedPlain ==
    ASSUME NEW o, Plain(o), NEW r, Handled(r)
    PROVE  Plain([o EXCEPT !.rec = r])
  BY DEF Plain, OutcomeRecords, Handled

LEMMA EscalateTaskPlain ==
    ASSUME PackageTypes, NEW r \in PackageRecords, NEW o, Plain(o), NEW e \in EscalateTask(r, o)
    PROVE  Plain(e)
  <1> DEFINE p == [r EXCEPT !.replans = @ + 1, !.planned = TRUE]
  <1>1. ASSUME NEW q \in PackageRecords, NEW why \in BlockReasons
        PROVE  Plain([o EXCEPT !.rec = Block(q, why).rec])
    BY BlockPlain, ReplacedPlain
  <1>2. CASE r.replans < MaxEpochs
    <2>1. r.replans + 1 \in 0..MaxEpochs
      BY <1>2, PackageBounds DEF PackageRecords
    <2>2. p \in PackageRecords
      BY <2>1 DEF PackageRecords
    <2> HIDE DEF p
    <2>3. \E q \in {r, p}, why \in BlockReasons : e = [o EXCEPT !.rec = Block(q, why).rec]
      BY PackageWords DEF EscalateTask, p
    <2> QED BY <1>1, <2>2, <2>3
  <1>3. CASE ~(r.replans < MaxEpochs)
    <2>1. r.replans >= MaxEpochs
      BY <1>3, PackageBounds DEF PackageRecords
    <2>2. e = [o EXCEPT !.rec = Block(r, "other").rec]
      BY <2>1 DEF EscalateTask
    <2> QED BY <1>1, <2>2, PackageWords
  <1> QED BY <1>2, <1>3

LEMMA EscalatePrPlain ==
    ASSUME PackageTypes, NEW r \in PackageRecords, NEW e \in EscalatePr(r)
    PROVE  Plain(e)
  <1> DEFINE n == [r EXCEPT !.epoch = @ + 1, !.replans = @ + 1, !.planned = TRUE, !.rev = 0,
                       !.revAuth = 0, !.term = 0, !.ci = 0, !.ciAuth = 0, !.infra = 0,
                       !.why = "none", !.error = <<"none">>, !.status = "PR_WAITING"]
             m == [n EXCEPT !.disp = "none", !.key = NoKey]
  <1>1. CASE r.epoch < MaxEpochs /\ r.replans < MaxEpochs
    <2>1. r.epoch + 1 \in 0..MaxEpochs /\ r.replans + 1 \in 0..MaxEpochs
      BY <1>1, PackageBounds DEF PackageRecords
    <2>2. <<"none">> \in LastErrors /\ "none" \in BlockReasons /\ "PR_WAITING" \in PackageStatuses
      BY PackageWords DEF PackageStatuses
    <2>3. n \in PackageRecords /\ n.status = "PR_WAITING"
      BY <2>1, <2>2, Zeros DEF PackageRecords
    <2>4. \/ e = Out(n) \/ e = [Out(m) EXCEPT !.run = NoRun]
          \/ \E why \in BlockReasons : e = Block(r, why)
      BY PackageWords DEF EscalatePr
    <2> HIDE DEF n
    <2>5. m \in PackageRecords /\ m.status = "PR_WAITING"
      BY <2>3 DEF PackageRecords
    <2> HIDE DEF m
    <2>6. Handled(n) /\ Handled(m)
      BY <2>3, <2>5 DEF Handled
    <2>7. NoRun \in ReviewRuns
      BY Zeros DEF NoRun, ReviewRuns
    <2>8. Plain([Out(m) EXCEPT !.run = NoRun])
      <3> DEFINE o == Out(m)
      <3>1. Plain(o)
        BY <2>6, OutPlain
      <3> HIDE DEF o
      <3>2. Plain([o EXCEPT !.run = NoRun])
        BY <2>7, <3>1 DEF Plain, OutcomeRecords
      <3> QED BY <3>2 DEF o
    <2> QED BY <2>4, <2>6, <2>8, OutPlain, BlockPlain
  <1>2. CASE ~(r.epoch < MaxEpochs /\ r.replans < MaxEpochs)
    <2>1. r.epoch >= MaxEpochs \/ r.replans >= MaxEpochs
      BY <1>2, PackageBounds DEF PackageRecords
    <2>2. e = Block(r, "other")
      BY <2>1 DEF EscalatePr
    <2> QED BY <2>2, BlockPlain, PackageWords
  <1> QED BY <1>1, <1>2
-----------------------------------------------------------------------------
(* Sessions and slots.                                                     *)

LEMMA CleanedPlain ==
    ASSUME PackageTypes, phase = "retry", NEW q \in PackageRecords, q.status # "COMPLETED"
    PROVE  /\ Plain([Killed(q) EXCEPT !.work = "none"])
           /\ Plain([Out(q) EXCEPT !.work = "none", !.sess = "none"])
  BY DEF PackageTypes, Killed, Out, Plain, OutcomeRecords, Sessions, WorkStates

\* A retry that saw no work: AO preserved the workspace, or has removed it.
LEMMA AlternateRetryPlain ==
    ASSUME PackageTypes, phase = "retry", NEW r, Handled(r), NEW o \in AlternateRetry(r)
    PROVE  Plain(o)
  <1> DEFINE requeued == [r EXCEPT !.status = "READY", !.sid = FALSE, !.ci = 0, !.ciAuth = 0,
                              !.live = 0, !.restores = 0, !.integ = 0, !.infra = 0]
             cleaned(q) == {[Killed(q) EXCEPT !.work = "none"],
                            [Out(q) EXCEPT !.work = "none", !.sess = "none"]}
             refused == IF work = "none" THEN {} ELSE {Out(r), Killed(r)}
             Replanned(os) == UNION {EscalateTask(r, e) : e \in os}
  <1>1. r \in PackageRecords /\ r.status # "COMPLETED"
    BY DEF Handled
  <1>2. \A e \in refused : Plain(e)
    BY OutPlain, KilledPlain
  <1>3. requeued \in PackageRecords /\ requeued.status = "READY"
    <2>1. "READY" \in PackageStatuses
      BY DEF PackageStatuses
    <2> QED BY <1>1, <2>1, Zeros DEF PackageRecords
  <1>4. AlternateRetry(r) = Replanned(refused)
                            \cup (IF TaskLeft(r) THEN cleaned(requeued) ELSE Replanned(cleaned(r)))
    BY DEF AlternateRetry
  <1> HIDE DEF requeued, refused
  <1>5. (\A e \in cleaned(r) : Plain(e)) /\ (\A e \in cleaned(requeued) : Plain(e))
    BY <1>1, <1>3, CleanedPlain
  <1>6. ASSUME NEW os, \A e \in os : Plain(e), o \in Replanned(os) PROVE Plain(o)
    <2>1. PICK e \in os : o \in EscalateTask(r, e)
      BY <1>6
    <2> QED BY <1>1, <1>6, <2>1, EscalateTaskPlain
  <1> HIDE DEF cleaned, Replanned
  <1>7. o \in Replanned(refused) \/ o \in cleaned(requeued) \/ o \in Replanned(cleaned(r))
    BY <1>4
  <1> QED BY <1>2, <1>5, <1>6, <1>7

LEMMA RetryOrReplanPlain ==
    ASSUME PackageTypes, NEW r, Handled(r), NEW p, NEW o \in RetryOrReplan(r, p)
    PROVE  Plain(o)
  <1> DEFINE again == [r EXCEPT !.task = @ + 1, !.live = 0, !.restores = 0]
             more == [r EXCEPT !.task = @ + 1]
  <1>1. r \in PackageRecords
    BY DEF Handled
  <1>2. Plain(Out(r)) /\ Plain(Killed(r))
    BY OutPlain, KilledPlain
  <1>3. TaskLeft(r) => /\ again \in PackageRecords /\ Handled(again)
                       /\ more \in PackageRecords
    <2> SUFFICES ASSUME TaskLeft(r)
                 PROVE  again \in PackageRecords /\ Handled(again) /\ more \in PackageRecords
      OBVIOUS
    <2>1. r.task + 1 \in 0..MaxTask
      BY <1>1, PackageBounds DEF TaskLeft, PackageRecords
    <2>2. again \in PackageRecords /\ again.status = r.status /\ more \in PackageRecords
      BY <1>1, <2>1, Zeros DEF PackageRecords
    <2> HIDE DEF again
    <2> QED BY <2>2 DEF Handled
  <1>4. /\ \A e \in EscalateTask(r, Out(r)) : Plain(e)
        /\ TaskLeft(r) => \A e \in EscalateTask(more, Killed(r)) : Plain(e)
    BY <1>1, <1>2, <1>3, EscalateTaskPlain
  <1>5. CASE phase = "retry"
    <2>1. o \in AlternateRetry(r)
      BY <1>5 DEF RetryOrReplan
    <2> QED BY <1>5, <2>1, AlternateRetryPlain
  <1>6. CASE phase # "retry"
    <2>1. \/ TaskLeft(r) /\ o = Restored(again)
          \/ TaskLeft(r) /\ o \in EscalateTask(more, Killed(r))
          \/ o \in EscalateTask(r, Out(r))
      BY <1>6 DEF RetryOrReplan
    <2> HIDE DEF again, more
    <2> QED BY <1>3, <1>4, <2>1, RestoredPlain
  <1> QED BY <1>5, <1>6

LEMMA HandleSessionPlain ==
    ASSUME PackageTypes, NEW r, Handled(r), NEW p, NEW s, NEW o \in HandleSession(r, p, s)
    PROVE  Plain(o)
  <1> DEFINE a == [r EXCEPT !.restores = @ + 1]
             b == [r EXCEPT !.live = @ + 1]
  <1>1. r \in PackageRecords
    BY DEF Handled
  <1>2. r.restores < MaxRestores => Handled(a)
    <2> SUFFICES ASSUME r.restores < MaxRestores PROVE Handled(a)
      OBVIOUS
    <2>1. r.restores + 1 \in 0..MaxRestores
      BY <1>1, PackageBounds DEF PackageRecords
    <2>2. a \in PackageRecords /\ a.status = r.status
      BY <1>1, <2>1 DEF PackageRecords
    <2> HIDE DEF a
    <2> QED BY <2>2 DEF Handled
  <1>3. r.live < MaxLiveness => Handled(b)
    <2> SUFFICES ASSUME r.live < MaxLiveness PROVE Handled(b)
      OBVIOUS
    <2>1. r.live + 1 \in 0..MaxLiveness
      BY <1>1, PackageBounds DEF PackageRecords
    <2>2. b \in PackageRecords /\ b.status = r.status
      BY <1>1, <2>1 DEF PackageRecords
    <2> HIDE DEF b
    <2> QED BY <2>2 DEF Handled
  <1>4. \/ r.restores < MaxRestores /\ (o = Restored(a) \/ o \in RetryOrReplan(a, p))
        \/ r.live < MaxLiveness /\ (o = Out(b) \/ o \in RetryOrReplan(b, p))
        \/ o \in RetryOrReplan(r, p) \/ o = Out(r)
    BY DEF HandleSession
  <1> HIDE DEF a, b
  <1> QED BY <1>2, <1>3, <1>4, RestoredPlain, OutPlain, RetryOrReplanPlain

\* What the slot does with a requeued or waiting package.
LEMMA SpawnPlain ==
    ASSUME PackageTypes, NEW o, Plain(o), NEW e \in Spawn(o)
    PROVE  Plain(e)
  <1> DEFINE r == o.rec
             started == [r EXCEPT !.status = "STARTING", !.sid = TRUE, !.task = @ + 1]
             n == [o EXCEPT !.rec = started, !.sess = "live", !.work = "clean"]
             b == [o EXCEPT !.rec = Block(r, "other").rec]
  <1>1. r \in PackageRecords
    BY DEF Plain, OutcomeRecords
  <1>2. \/ e = o
        \/ e \in EscalateTask(r, o)
        \/ e = b
        \/ r.status = "READY" /\ TaskLeft(r) /\ e = n
    BY DEF Spawn
  <1>3. Plain(b)
    BY <1>1, BlockPlain, ReplacedPlain, PackageWords
  <1>4. r.status = "READY" /\ TaskLeft(r) => Plain(n)
    <2> SUFFICES ASSUME r.status = "READY", TaskLeft(r) PROVE Plain(n)
      OBVIOUS
    <2>1. r.task + 1 \in 0..MaxTask
      BY <1>1, PackageBounds DEF TaskLeft, PackageRecords
    <2>2. "STARTING" \in PackageStatuses
      BY DEF PackageStatuses
    <2>3. started \in PackageRecords /\ started.status = "STARTING"
      BY <1>1, <2>1, <2>2 DEF PackageRecords
    <2>4. work = "commits" => phase = "retry"
      BY DEF Plain
    <2> HIDE DEF started
    <2> QED BY <2>3, <2>4 DEF Plain, OutcomeRecords, Sessions, WorkStates
  <1> HIDE DEF n, b
  <1> QED BY <1>1, <1>2, <1>3, <1>4, EscalateTaskPlain
-----------------------------------------------------------------------------
(* Checks and reviews.                                                     *)

LEMMA HandleCiPlain ==
    ASSUME PackageTypes, NEW r, Handled(r), NEW p \in PullRequests, NEW s,
           NEW o \in HandleCi(r, p, s)
    PROVE  Plain(o)
  <1> DEFINE w == [r EXCEPT !.error = <<"wait">>]
             i == [r EXCEPT !.infra = @ + 1, !.error = <<"INFRA", p.head, r.infra + 1>>]
             f == [r EXCEPT !.error = <<"rerun failed">>]
             u == [r EXCEPT !.error = <<"unknown", p.head>>]
             authorized == IF r.ciAuth = p.head THEN r ELSE [r EXCEPT !.ci = @ + 1, !.ciAuth = p.head]
             a == [authorized EXCEPT !.error = <<"CI", p.head>>]
  <1>1. r \in PackageRecords /\ p.head \in 0..MaxPushes /\ p.head \in Nat /\ r.infra + 1 \in Nat
    BY PackageBounds DEF Handled, PullRequests, PackageRecords
  <1>2. \A x \in LastErrors : Handled([r EXCEPT !.error = x])
    BY <1>1 DEF Handled, PackageRecords
  <1>3. Handled(w) /\ Handled(f) /\ Handled(u)
    BY <1>1, <1>2, PackageWords
  <1>4. r.infra < MaxInfra => Handled(i)
    <2> SUFFICES ASSUME r.infra < MaxInfra PROVE Handled(i)
      OBVIOUS
    <2>1. r.infra + 1 \in 0..MaxInfra
      BY <1>1, PackageBounds DEF PackageRecords
    <2>2. <<"INFRA", p.head, r.infra + 1>> \in LastErrors
      BY <1>1, PackageWords
    <2>3. i \in PackageRecords /\ i.status = r.status
      BY <1>1, <2>1, <2>2 DEF PackageRecords
    <2> HIDE DEF i
    <2> QED BY <2>3 DEF Handled
  <1>5. r.ciAuth = p.head \/ r.ci < MaxCi => Handled(a)
    <2> SUFFICES ASSUME r.ciAuth = p.head \/ r.ci < MaxCi PROVE Handled(a)
      OBVIOUS
    <2>1. CASE r.ciAuth = p.head
      BY <1>1, <1>2, <2>1, PackageWords
    <2>2. CASE r.ciAuth # p.head
      <3>1. r.ci + 1 \in 0..MaxCi
        BY <1>1, <2>2, PackageBounds DEF PackageRecords
      <3>2. authorized \in PackageRecords /\ authorized.status = r.status
        BY <1>1, <2>2, <3>1 DEF PackageRecords
      <3> HIDE DEF authorized
      <3>3. <<"CI", p.head>> \in LastErrors
        BY <1>1, PackageWords
      <3>4. a \in PackageRecords /\ a.status = r.status
        BY <3>2, <3>3 DEF PackageRecords
      <3> HIDE DEF a
      <3> QED BY <3>4 DEF Handled
    <2> QED BY <2>1, <2>2
  <1>6. r.infra < MaxInfra => Plain([Out(i) EXCEPT !.rerun = TRUE])
    <2> SUFFICES ASSUME r.infra < MaxInfra PROVE Plain([Out(i) EXCEPT !.rerun = TRUE])
      OBVIOUS
    <2> DEFINE x == Out(i)
    <2>1. Plain(x)
      BY <1>4, OutPlain
    <2> HIDE DEF x
    <2>2. Plain([x EXCEPT !.rerun = TRUE])
      BY <2>1 DEF Plain, OutcomeRecords
    <2> QED BY <2>2 DEF x
  <1>7. p.ci \in {"WAIT", "PASS", "INFRA", "UNKNOWN", "PRODUCT"}
    BY DEF PullRequests
  <1>8. \/ o \in {Out(w), Out(r), Out(f), Out(u)}
        \/ r.infra < MaxInfra /\ o = [Out(i) EXCEPT !.rerun = TRUE]
        \/ o = Block(r, "exhausted")
        \/ o \in EscalatePr(r)
        \/ (r.ciAuth = p.head \/ r.ci < MaxCi) /\ o = Out(a)
        \/ o \in HandleSession(r, p, s)
    BY DEF HandleCi
  <1> HIDE DEF w, i, f, u, a
  <1> QED BY <1>1, <1>3, <1>5, <1>6, <1>8, OutPlain, BlockPlain, EscalatePrPlain, HandleSessionPlain,
             PackageWords
\* The key of a dispatch names the head it is for.
LEMMA DispatchKeyIsKey ==
    ASSUME NEW r \in PackageRecords, NEW p \in PullRequests, p.head > 0
    PROVE  DispatchKey(r, p) \in Keys /\ DispatchKey(r, p)[1] = p.head
  <1>1. p.head \in PullHeads
    BY PackageBounds DEF PullRequests, PullHeads
  <1>2. ReviewMode(r) \in {"FULL_BASELINE", "CLOSURE_VERIFY", "FINAL_CONFIRMATION"}
    BY DEF ReviewMode
  <1>3. r.ledger \in {0, 1}
    BY DEF PackageRecords
  <1> QED BY <1>1, <1>2, <1>3 DEF DispatchKey, Keys

LEMMA StaledUnderWay ==
    ASSUME NEW r, Handled(r), NEW k
    PROVE  Handled(Staled(r, k))
  <1> DEFINE t == [r EXCEPT !.disp = "STALE", !.tries = 0, !.term = IF @ = r.revAuth THEN 0 ELSE @]
  <1>1. t \in PackageRecords /\ t.status = r.status
    BY Zeros DEF Handled, PackageRecords
  <1>2. Staled(r, k) \in {r, t}
    BY DEF Staled
  <1> HIDE DEF t
  <1> QED BY <1>1, <1>2 DEF Handled

LEMMA ClaimPlain ==
    ASSUME PackageTypes, NEW r, Handled(r), NEW k \in Keys, NEW n \in 0..MaxTries,
           NEW o \in Claim(r, k, n)
    PROVE  Plain(o)
  <1> DEFINE c == [r EXCEPT !.disp = IF n = 1 THEN "CLAIMED" ELSE @, !.key = k, !.tries = n,
                            !.status = "REVIEW"]
             x == Out(c)
  <1>1. "REVIEW" \in PackageStatuses
    BY DEF PackageStatuses
  <1>2. c \in PackageRecords /\ c.status = "REVIEW"
    BY <1>1 DEF Handled, PackageRecords
  <1>3. o = [x EXCEPT !.claim = TRUE]
    BY DEF Claim
  <1> HIDE DEF c
  <1>4. Handled(c)
    BY <1>2 DEF Handled
  <1>5. Plain(x)
    BY <1>4, OutPlain
  <1> HIDE DEF x
  <1>6. Plain([x EXCEPT !.claim = TRUE])
    BY <1>5 DEF Plain, OutcomeRecords
  <1> QED BY <1>3, <1>6

LEMMA DispatchReviewPlain ==
    ASSUME PackageTypes, NEW r, Handled(r), NEW k \in Keys, NEW o \in DispatchReview(r, k)
    PROVE  Plain(o)
  <1> DEFINE v == [r EXCEPT !.status = "REVIEW"]
             f == [r EXCEPT !.disp = "FAILED"]
             z == [r EXCEPT !.term = 0]
  <1>1. r \in PackageRecords /\ "REVIEW" \in PackageStatuses
    BY DEF Handled, PackageStatuses
  <1>2. /\ v \in PackageRecords /\ v.status = "REVIEW" /\ f \in PackageRecords
        /\ z \in PackageRecords /\ z.status = r.status
    BY <1>1, Zeros DEF PackageRecords
  <1>3. \/ o = Out(v) \/ o = Block(f, "other") \/ o = Block(r, "terminal") \/ o \in Claim(z, k, 1)
        \/ r.tries < MaxTries /\ o \in Claim(r, k, r.tries + 1)
    BY <1>1, PackageBounds DEF DispatchReview, PackageRecords
  <1> HIDE DEF v, f, z
  <1>4. Handled(v) /\ Handled(z)
    BY <1>2 DEF Handled
  <1>5. r.tries < MaxTries => r.tries + 1 \in 0..MaxTries
    BY <1>1, PackageBounds DEF PackageRecords
  <1> QED BY <1>1, <1>2, <1>3, <1>4, <1>5, OutPlain, BlockPlain, ClaimPlain, PackageWords, Zeros

LEMMA RejectedPlain ==
    ASSUME PackageTypes, NEW r, Handled(r), NEW p \in PullRequests, NEW s,
           NEW o \in Rejected(r, p, s)
    PROVE  Plain(o)
  <1> DEFINE c == [r EXCEPT !.status = "PR_WAITING"]
             d == [c EXCEPT !.rev = @ + 1, !.revAuth = p.head, !.error = <<"REVIEW", p.head>>]
             t == [r EXCEPT !.term = p.head]
  <1>1. r \in PackageRecords /\ p.head \in 0..MaxPushes /\ p.head \in Nat
        /\ "PR_WAITING" \in PackageStatuses
    BY PackageBounds DEF Handled, PullRequests, PackageStatuses
  <1>2. c \in PackageRecords /\ c.status = "PR_WAITING" /\ t \in PackageRecords /\ c.rev = r.rev
    BY <1>1 DEF PackageRecords
  <1>3. \/ r.rev < MaxReview /\ o = Out(d)
        \/ o \in HandleSession(c, p, s)
        \/ o \in EscalatePr(t)
    BY DEF Rejected
  <1> HIDE DEF c, t
  <1>4. r.rev < MaxReview => d \in PackageRecords /\ d.status = "PR_WAITING"
    <2> SUFFICES ASSUME r.rev < MaxReview PROVE d \in PackageRecords /\ d.status = "PR_WAITING"
      OBVIOUS
    <2>1. c.rev + 1 \in 0..MaxReview
      BY <1>1, <1>2, PackageBounds DEF PackageRecords
    <2>2. <<"REVIEW", p.head>> \in LastErrors
      BY <1>1, PackageWords
    <2> QED BY <1>1, <1>2, <2>1, <2>2 DEF PackageRecords
  <1> HIDE DEF d
  <1>5. Handled(c) /\ (r.rev < MaxReview => Handled(d))
    BY <1>2, <1>4 DEF Handled
  <1> QED BY <1>2, <1>3, <1>5, OutPlain, HandleSessionPlain, EscalatePrPlain

\* The only handler that merges.
LEMMA IntegrateKinds ==
    ASSUME PackageTypes, NEW r, Handled(r), NEW o \in Integrate(r, snap.pr),
           run.state = "complete", run.verdict = "approved", run.head = snap.pr.head,
           run.key[1] = run.head
    PROVE  Plain(o) \/ Merging(o)
  <1> DEFINE p == snap.pr
             w == [r EXCEPT !.status = "PR_WAITING"]
             i == [r EXCEPT !.integ = @ + 1, !.error = <<"MERGE", p.head>>, !.status = "PR_WAITING"]
             c == [r EXCEPT !.status = "COMPLETED"]
             x == Killed(c)
  <1>1. /\ r \in PackageRecords /\ p.head \in Nat
        /\ {"PR_WAITING", "COMPLETED"} \subseteq PackageStatuses
    BY PackageBounds DEF PackageTypes, Handled, PullRequests, PackageStatuses, Snapshots
  <1>2. /\ w \in PackageRecords /\ w.status = "PR_WAITING" /\ c \in PackageRecords
    BY <1>1 DEF PackageRecords
  <1>3. r.integ < MaxIntegration => i \in PackageRecords /\ i.status = "PR_WAITING"
    <2> SUFFICES ASSUME r.integ < MaxIntegration
                 PROVE  i \in PackageRecords /\ i.status = "PR_WAITING"
      OBVIOUS
    <2>1. r.integ + 1 \in 0..MaxIntegration
      BY <1>1, PackageBounds DEF PackageRecords
    <2>2. <<"MERGE", p.head>> \in LastErrors
      BY <1>1, PackageWords
    <2> QED BY <1>1, <2>1, <2>2 DEF PackageRecords
  <1>4. \/ o = Block(r, "other") \/ o \in EscalatePr(r) \/ o = Out(w)
        \/ r.integ < MaxIntegration /\ o = Out(i)
        \/ o = [x EXCEPT !.merge = TRUE]
    BY DEF Integrate
  <1> HIDE DEF w, i, c
  <1>5. Handled(w) /\ (r.integ < MaxIntegration => Handled(i))
    BY <1>2, <1>3 DEF Handled
  <1>6. Merging([x EXCEPT !.merge = TRUE])
    BY <1>2 DEF Merging, Killed, Out, OutcomeRecords, PackageTypes, Sessions
  <1> HIDE DEF x
  <1> QED BY <1>1, <1>4, <1>5, <1>6, OutPlain, BlockPlain, EscalatePrPlain, PackageWords

LEMMA ReviewAcceptedKinds ==
    ASSUME PackageTypes, NEW r, Handled(r), NEW k \in Keys, NEW s,
           NEW o \in ReviewAccepted(r, snap.pr, s, k),
           run.state = "complete", run.head = snap.pr.head, run.key[1] = run.head
    PROVE  Plain(o) \/ Merging(o)
  <1> DEFINE p == snap.pr
             proved == [r EXCEPT !.base = TRUE, !.open = FALSE, !.disp = "COMPLETED", !.key = k,
                            !.tries = 0, !.term = 0, !.why = "none", !.error = <<"none">>]
             failed == [r EXCEPT !.base = TRUE, !.open = TRUE, !.disp = "COMPLETED", !.key = k,
                            !.tries = 0]
  <1>1. r \in PackageRecords /\ p \in PullRequests /\ r.ledger \in {0, 1}
    BY DEF PackageTypes, Handled, PackageRecords, Snapshots
  <1>2. <<"none">> \in LastErrors /\ "none" \in BlockReasons
    BY PackageWords
  <1>3. /\ proved \in PackageRecords /\ proved.status = r.status
        /\ failed \in PackageRecords /\ failed.status = r.status
    BY <1>1, <1>2, Zeros DEF PackageRecords
  <1>4. \/ o \in Claim(r, k, 1)
        \/ run.verdict = "approved" /\ o \in Integrate(proved, p)
        \/ \E l \in {0, 1} : o \in Rejected([failed EXCEPT !.ledger = l], p, s)
    BY <1>1 DEF ReviewAccepted
  <1> HIDE DEF proved, failed
  <1>5. Handled(proved) /\ \A l \in {0, 1} : Handled([failed EXCEPT !.ledger = l])
    BY <1>3 DEF Handled, PackageRecords
  <1>6. CASE o \in Claim(r, k, 1)
    BY <1>6, ClaimPlain, Zeros
  <1>7. CASE run.verdict = "approved" /\ o \in Integrate(proved, p)
    BY <1>5, <1>7, IntegrateKinds
  <1>8. CASE \E l \in {0, 1} : o \in Rejected([failed EXCEPT !.ledger = l], p, s)
    BY <1>1, <1>5, <1>8, RejectedPlain
  <1> QED BY <1>4, <1>6, <1>7, <1>8

LEMMA HandleReviewKinds ==
    ASSUME PackageTypes, NEW r, Handled(r), NEW s, snap.pr.head > 0,
           NEW o \in HandleReview(r, snap.pr, s)
    PROVE  Plain(o) \/ Merging(o)
  <1> DEFINE p == snap.pr
             k == DispatchKey(r, p)
             t == Staled(r, k)
             a == [t EXCEPT !.key = k, !.disp = "ACTIVE", !.status = "REVIEW"]
             b == [t EXCEPT !.key = k, !.status = "REVIEW"]
             c == [t EXCEPT !.key = k]
  <1>1. r \in PackageRecords /\ p \in PullRequests
    BY DEF PackageTypes, Handled, Snapshots
  <1>2. k \in Keys /\ k[1] = p.head
    BY <1>1, DispatchKeyIsKey
  <1>3. Handled(t)
    BY StaledUnderWay
  <1>4. \/ o = Block(r, "other")
        \/ o \in DispatchReview(t, k)
        \/ o = Out(a)
        \/ o \in ReviewUnproved(t, k)
        \/ /\ run.state = "complete" /\ run.head = p.head /\ run.key = k
           /\ o \in ReviewAccepted(t, p, s, k)
    <2>1. run.state \in {"none", "running", "complete"} /\ r.sid \in BOOLEAN
      BY <1>1 DEF PackageTypes, ReviewRuns, PackageRecords
    <2> QED BY <2>1 DEF HandleReview
  <1>5. o \in ReviewUnproved(t, k) => o = Block(c, "other") \/ o = Out(b) \/ o \in Claim(t, k, 1)
    BY DEF ReviewUnproved
  <1> HIDE DEF k, t
  <1>6. Handled(a) /\ Handled(b) /\ c \in PackageRecords
    <2>1. t \in PackageRecords /\ "REVIEW" \in PackageStatuses
      BY <1>3 DEF Handled, PackageStatuses
    <2>2. /\ a \in PackageRecords /\ a.status = "REVIEW" /\ b \in PackageRecords
          /\ b.status = "REVIEW" /\ c \in PackageRecords
      BY <1>2, <2>1 DEF PackageRecords
    <2> HIDE DEF a, b, c
    <2> QED BY <2>2 DEF Handled
  <1> HIDE DEF a, b, c
  <1>7. CASE /\ run.state = "complete" /\ run.head = p.head /\ run.key = k
             /\ o \in ReviewAccepted(t, p, s, k)
    <2>1. run.key[1] = run.head
      BY <1>2, <1>7
    <2> QED BY <1>2, <1>3, <1>7, <2>1, ReviewAcceptedKinds
  <1> QED BY <1>1, <1>2, <1>3, <1>4, <1>5, <1>6, <1>7, BlockPlain, OutPlain, ClaimPlain,
             DispatchReviewPlain, PackageWords, Zeros

\* Every outcome of a tick merges nothing, or merges an approved head, or
\* finds the package completed and leaves it alone.
LEMMA OutcomeKinds ==
    ASSUME PackageInv, phase \in {"handle", "retry"}, NEW o \in Outcomes
    PROVE  Plain(o) \/ Merging(o) \/ (rec.status = "COMPLETED" /\ o = Out(rec))
  <1> DEFINE p == snap.pr
             s == snap.sess
             f == [rec EXCEPT !.status = "CI_FIX"]
  <1>1. PackageTypes /\ SnapshotFits /\ rec \in PackageRecords /\ p \in PullRequests
    BY DEF PackageInv, PackageTypes, Snapshots
  <1>2. CASE rec.status \in {"PR_WAITING", "REVIEW"}
    <2>1. Handled(rec) /\ p.head > 0
      BY <1>1, <1>2 DEF Handled, SnapshotFits
    <2>2. f \in PackageRecords /\ f.status = "CI_FIX"
      BY <1>1 DEF PackageRecords, PackageStatuses
    <2>3. o \in HandleCi(f, p, s) \/ o \in HandleReview(rec, p, s)
      BY <1>2 DEF Outcomes, HandlePr
    <2> HIDE DEF f
    <2>4. Handled(f)
      BY <2>2 DEF Handled
    <2> QED BY <1>1, <2>1, <2>3, <2>4, HandleCiPlain, HandleReviewKinds
  <1>3. CASE rec.status \in {"ACTIVE", "STUCK", "FAILED"}
    <2>1. Handled(rec)
      BY <1>1, <1>3 DEF Handled
    <2>2. \E e \in HandleSession(rec, p, s) : o \in Spawn(e)
      BY <1>3 DEF Outcomes
    <2> QED BY <1>1, <2>1, <2>2, HandleSessionPlain, SpawnPlain
  <1>4. CASE rec.status \notin {"PR_WAITING", "REVIEW", "ACTIVE", "STUCK", "FAILED"}
    <2>1. o \in Spawn(Out(rec))
      BY <1>4 DEF Outcomes
    <2>2. CASE rec.status = "COMPLETED"
      BY <2>1, <2>2 DEF Spawn, Out
    <2>3. CASE rec.status # "COMPLETED"
      <3>1. Plain(Out(rec))
        BY <1>1, <2>3 DEF PackageTypes, SnapshotFits, Plain, Out, OutcomeRecords
      <3> QED BY <1>1, <2>1, <3>1, SpawnPlain
    <2> QED BY <2>2, <2>3
  <1> QED BY <1>2, <1>3, <1>4
-----------------------------------------------------------------------------
(* Reconciliation.                                                         *)

LEMMA UnblockedIsRecord ==
    ASSUME NEW r \in PackageRecords
    PROVE  Unblocked(r) \in PackageRecords
  <1>1. CASE LegacyReplanBlock(r)
    <2>1. 1 \in 0..MaxEpochs
      BY <1>1, PackageBounds DEF LegacyReplanBlock, PackageRecords
    <2>2. <<"none">> \in LastErrors /\ "none" \in BlockReasons
      BY PackageWords
    <2>3. (IF r.planned /\ r.replans = 0 THEN 1 ELSE r.replans) \in 0..MaxEpochs
      BY <2>1 DEF PackageRecords
    <2> QED BY <1>1, <2>2, <2>3, Zeros DEF Unblocked, PackageRecords
  <1>2. CASE ~ LegacyReplanBlock(r)
    BY <1>2 DEF Unblocked
  <1> QED BY <1>1, <1>2

LEMMA HeadAppliedIsRecord ==
    ASSUME NEW r \in PackageRecords, NEW p \in PullRequests, NEW d
    PROVE  HeadApplied(r, p, d) \in PackageRecords
  <1>1. /\ p.head \in 0..MaxPushes /\ "other" \in BlockReasons
        /\ <<"none">> \in LastErrors /\ <<"blocked", "other">> \in LastErrors
    BY PackageWords DEF PullRequests
  <1> DEFINE head == IF Rewritten(r, p, d) THEN r.head ELSE p.head
             why == IF Rewritten(r, p, d) THEN "other" ELSE r.why
             error == IF Rewritten(r, p, d) THEN <<"blocked", "other">>
                      ELSE IF r.head \in {0, p.head} THEN r.error ELSE <<"none">>
             disp == IF r.key[1] \in {0, p.head} THEN r.disp ELSE "STALE"
             tries == IF r.key[1] \in {0, p.head} THEN r.tries ELSE 0
             term == IF r.term # p.head /\ r.term = r.revAuth THEN 0 ELSE r.term
  <1>2. error \in LastErrors /\ disp \in {r.disp, "STALE"} /\ tries \in 0..MaxTries
        /\ term \in 0..MaxPushes /\ head \in 0..MaxPushes /\ why \in BlockReasons
    BY <1>1, Zeros DEF PackageRecords
  <1>3. HeadApplied(r, p, d) = [r EXCEPT !.head = head, !.why = why, !.error = error,
                                         !.disp = disp, !.tries = tries, !.term = term]
    BY DEF HeadApplied
  <1> HIDE DEF head, why, error, disp, tries, term
  <1>4. disp \in {"none", "CLAIMED", "ACTIVE", "UNKNOWN", "STALE", "FAILED", "COMPLETED"}
    BY <1>2 DEF PackageRecords
  <1>5. [r EXCEPT !.head = head, !.why = why, !.error = error, !.disp = disp, !.tries = tries,
                  !.term = term] \in PackageRecords
    BY <1>1, <1>2, <1>4 DEF PackageRecords
  <1> QED BY <1>3, <1>5

LEMMA ReconciledPrIsRecord ==
    ASSUME NEW r \in PackageRecords, NEW p \in PullRequests, NEW s, NEW d
    PROVE  /\ ReconciledPr(r, p, s, d) \in PackageRecords
           /\ ReconciledPr(r, p, s, d).status \in {"PR_WAITING", "REVIEW"}
  <1> DEFINE h == HeadApplied(Unblocked(r), p, d)
  <1>1. h \in PackageRecords
    BY UnblockedIsRecord, HeadAppliedIsRecord
  <1> HIDE DEF h
  <1>2. {"PR_WAITING", "REVIEW"} \subseteq PackageStatuses /\ <<"none">> \in LastErrors
        /\ "none" \in BlockReasons
    BY PackageWords DEF PackageStatuses
  <1> DEFINE clear == h.why \in {"replan", "stagnant", "terminal"} /\ h.term = 0
             st == IF h.disp = "ACTIVE" /\ h.key[1] = p.head THEN "REVIEW" ELSE "PR_WAITING"
             sid == h.sid \/ s \in {"live", "stuck"}
             why == IF clear THEN "none" ELSE h.why
             er == IF clear THEN <<"none">> ELSE h.error
             n == [h EXCEPT !.status = st, !.sid = sid, !.why = why, !.error = er]
  <1>3. n \in PackageRecords /\ n.status \in {"PR_WAITING", "REVIEW"}
    <2>1. sid \in BOOLEAN
      OBVIOUS
    <2>2. why \in BlockReasons /\ er \in LastErrors
      BY <1>1, <1>2 DEF PackageRecords
    <2>3. st \in PackageStatuses /\ st \in {"PR_WAITING", "REVIEW"}
      BY <1>2
    <2> HIDE DEF st, sid, why, er
    <2> QED BY <1>1, <2>1, <2>2, <2>3 DEF PackageRecords
  <1>4. ReconciledPr(r, p, s, d) = n
    BY DEF ReconciledPr, h
  <1> QED BY <1>3, <1>4

\* What reconcile makes of the record.
LEMMA ReconciledFits ==
    ASSUME PackageTypes, NEW d
    PROVE  LET n == Reconciled(rec, pull, sess, d)
           IN /\ n \in PackageRecords
              /\ n.status \in {"PR_WAITING", "REVIEW"} => pull.state = "open"
              /\ n.status = "READY" => work = "none"
              /\ n.status = "COMPLETED" => pull.state = "merged"
  <1> DEFINE n == Reconciled(rec, pull, sess, d)
             c == Recovered(rec)
  <1>1. rec \in PackageRecords /\ pull \in PullRequests
    BY DEF PackageTypes
  <1>2. /\ {"ACTIVE", "STUCK", "FAILED", "BLOCKED", "READY", "COMPLETED"} \subseteq PackageStatuses
        /\ {"none", "other"} \subseteq BlockReasons
    BY PackageWords DEF PackageStatuses
  <1>3. c \in PackageRecords
    BY <1>1, <1>2, ZenonT(30) DEF Recovered, PackageRecords
  <1>4. CASE pull.state = "merged"
    BY <1>1, <1>2, <1>4 DEF Reconciled, PackageRecords
  <1>5. CASE pull.state = "open"
    <2>1. n = ReconciledPr(rec, pull, sess, d)
      BY <1>5 DEF Reconciled
    <2> QED BY <1>1, <1>5, <2>1, ReconciledPrIsRecord
  <1>6. CASE pull.state \notin {"merged", "open"}
    <2> DEFINE l == [c EXCEPT !.status = IF sess = "live" THEN "ACTIVE" ELSE "STUCK", !.sid = TRUE]
               f == [c EXCEPT !.status = "FAILED"]
               b == [rec EXCEPT !.status = "BLOCKED", !.why = "other"]
               y == [rec EXCEPT !.status = "READY", !.why = "none"]
    <2>1. \/ n \in {l, f, b} \/ (n = rec /\ rec.status = "BLOCKED") \/ (n = y /\ work = "none")
      BY <1>6 DEF Reconciled
    <2> HIDE DEF c, n
    <2>2. /\ l \in PackageRecords /\ l.status \in {"ACTIVE", "STUCK"}
          /\ f \in PackageRecords /\ f.status = "FAILED"
      BY <1>2, <1>3 DEF PackageRecords
    <2>3. /\ b \in PackageRecords /\ b.status = "BLOCKED"
          /\ y \in PackageRecords /\ y.status = "READY"
      BY <1>1, <1>2 DEF PackageRecords
    <2> HIDE DEF l, f, b, y
    <2>4. n \in PackageRecords /\ n.status \notin {"PR_WAITING", "REVIEW", "COMPLETED"}
          /\ (n.status = "READY" => work = "none")
      BY <1>1, <2>1, <2>2, <2>3
    <2> QED BY <2>4 DEF n
  <1> QED BY <1>4, <1>5, <1>6
-----------------------------------------------------------------------------
(* The steps.                                                              *)

\* What a step keeps: the invariant, the commits, and the gate.
PackageStep ==
    /\ PackageInv'
    /\ work = "commits" /\ work' # "commits" => snap.work \in {"none", "clean"}
    /\ PackageGate!Verify \/ PackageGate!Merge

LEMMA NoSnapFits == NoSnap \in Snapshots
  BY Zeros DEF NoSnap, NoPr, PullRequests, Sessions, Snapshots

\* A step that leaves the pull request and the approvals alone.
LEMMA GateStands ==
    ASSUME pull'.state = pull.state, pull'.head = pull.head, approved \subseteq approved'
    PROVE  PackageGate!Verify
  BY DEF PackageGate!Verify, PackageMerged

LEMMA PackageInitially == PackageInit => PackageInv /\ PackageGate!GateInit
  <1> SUFFICES ASSUME PackageInit PROVE PackageInv /\ PackageGate!GateInit
    OBVIOUS
  <1>1. rec \in PackageRecords /\ rec.status = "PLANNED"
    <2>1. <<"none">> \in LastErrors /\ "none" \in BlockReasons /\ "PLANNED" \in PackageStatuses
      BY PackageWords DEF PackageStatuses
    <2>2. NoKey \in Keys \cup {NoKey}
      OBVIOUS
    <2> HIDE DEF NoKey
    <2> QED BY <2>1, <2>2, Zeros DEF PackageInit, PackageRecords
  <1>2. pull \in PullRequests /\ pull.state = "none" /\ run \in ReviewRuns /\ run.state = "none"
    BY Zeros DEF PackageInit, PullRequests, ReviewRuns, NoPr, NoRun
  <1>3. snap \in Snapshots
    BY NoSnapFits DEF PackageInit
  <1>4. sess \in Sessions /\ work \in WorkStates /\ phase = "idle" /\ approved = {}
    BY DEF PackageInit, Sessions, WorkStates
  <1> QED BY <1>1, <1>2, <1>3, <1>4
          DEF PackageInv, PackageTypes, SnapshotFits, ApprovalIsKnown, CompletedIsMerged,
              PackageGate!GateInit, PackageMerged

LEMMA ReconcileStep == ASSUME PackageInv, Reconcile PROVE PackageStep
  <1>1. PackageTypes /\ ApprovalIsKnown
    BY DEF PackageInv
  <1>0. PICK d \in BOOLEAN : rec' = Reconciled(rec, pull, sess, d)
    BY DEF Reconcile
  <1> DEFINE n == Reconciled(rec, pull, sess, d)
  <1>2. /\ n \in PackageRecords
        /\ n.status \in {"PR_WAITING", "REVIEW"} => pull.state = "open"
        /\ n.status = "READY" => work = "none"
        /\ n.status = "COMPLETED" => pull.state = "merged"
    BY <1>1, ReconciledFits
  <1>3. rec' = n
    BY <1>0
  <1> HIDE DEF n
  <1>4. /\ snap' = [sess |-> sess, pr |-> pull, work |-> "unseen"]
        /\ phase' = "handle" /\ sess' \in {sess, "dead"}
        /\ UNCHANGED <<work, pull, run, approved>>
    BY DEF Reconcile
  <1>5. PackageInv'
    BY <1>1, <1>2, <1>3, <1>4 DEF PackageInv, PackageTypes, SnapshotFits, ApprovalIsKnown,
                                  CompletedIsMerged, Sessions, Snapshots
  <1> QED BY <1>4, <1>5, GateStands DEF PackageStep

LEMMA WatchdogStep == ASSUME PackageInv, Watchdog PROVE PackageStep
  <1>1. PackageTypes /\ ApprovalIsKnown
    BY DEF PackageInv
  <1>2. rec' \in PackageRecords /\ rec'.status \notin {"READY", "COMPLETED"}
    BY <1>1, BlockPlain, PackageWords DEF Watchdog, Handled, PackageTypes
  <1>3. /\ snap' = NoSnap /\ phase' = "idle"
        /\ UNCHANGED <<sess, work, pull, run, approved>>
    BY DEF Watchdog
  <1>4. PackageInv'
    BY <1>1, <1>2, <1>3, NoSnapFits DEF PackageInv, PackageTypes, SnapshotFits, ApprovalIsKnown,
                                        CompletedIsMerged
  <1> QED BY <1>3, <1>4, GateStands DEF PackageStep

LEMMA LookForWorkStep == ASSUME PackageInv, LookForWork PROVE PackageStep
  <1>1. PackageTypes /\ ApprovalIsKnown /\ CompletedIsMerged
    BY DEF PackageInv
  <1>2. /\ rec.status \in {"ACTIVE", "STUCK", "FAILED"} /\ work # "commits" /\ phase' = "retry"
        /\ snap' = [snap EXCEPT !.work = work]
        /\ UNCHANGED <<rec, sess, work, pull, run, approved>>
    BY DEF LookForWork, SafeAlternateRetry
  <1>3. snap' \in Snapshots /\ snap'.work \in {"none", "clean"}
    BY <1>1, <1>2 DEF PackageTypes, Snapshots, WorkStates
  <1>4. PackageInv'
    BY <1>1, <1>2, <1>3 DEF PackageInv, PackageTypes, SnapshotFits, ApprovalIsKnown,
                            CompletedIsMerged
  <1> QED BY <1>2, <1>4, GateStands DEF PackageStep

LEMMA HandleStep == ASSUME PackageInv, Handle PROVE PackageStep
  <1>1. PackageTypes /\ SnapshotFits /\ ApprovalIsKnown /\ CompletedIsMerged
        /\ phase \in {"handle", "retry"}
    BY DEF PackageInv, Handle
  <1>2. PICK o \in Outcomes :
           /\ sess' = o.sess /\ work' = o.work /\ run' = o.run
           /\ pull' = IF o.merge THEN MergedPull
                      ELSE IF o.rerun /\ pull.head = snap.pr.head THEN [pull EXCEPT !.ci = "WAIT"]
                      ELSE pull
           /\ IF o.claim
              THEN rec' = o.rec /\ phase' = "trigger" /\ UNCHANGED <<raises, snap>>
              ELSE /\ phase' = "idle" /\ snap' = NoSnap
                   /\ \/ rec' = o.rec /\ ~(o.merge /\ MergeRaises) /\ UNCHANGED raises
                      \/ raises < MaxRaises /\ raises' = raises + 1 /\ UNCHANGED rec
    BY DEF Handle
  <1>3. approved' = approved
    BY DEF Handle
  <1>4. /\ phase' \in {"trigger", "idle"} /\ snap' \in {snap, NoSnap}
        /\ rec' = rec \/ (rec' = o.rec /\ ~(o.claim = FALSE /\ o.merge /\ MergeRaises))
    BY <1>2
  <1>5. snap' \in Snapshots
    BY <1>1, <1>4, NoSnapFits DEF PackageTypes
  <1>6. \/ Plain(o) \/ Merging(o) \/ (rec.status = "COMPLETED" /\ o = Out(rec))
    BY <1>1, OutcomeKinds
  <1>7. ASSUME o.rec \in PackageRecords, o.sess \in Sessions, o.work \in WorkStates,
               o.run \in ReviewRuns, o.run \in {run, NoRun}, pull' \in PullRequests,
               pull'.state # "none" => pull'.head > 0,
               pull.state = "merged" => pull'.state = "merged",
               rec' = o.rec /\ o.rec.status = "COMPLETED" => pull'.state = "merged"
        PROVE  PackageInv'
    <2>1. PackageTypes'
      BY <1>1, <1>2, <1>4, <1>5, <1>7 DEF PackageTypes
    <2>2. SnapshotFits'
      BY <1>4 DEF SnapshotFits
    <2>3. ApprovalIsKnown'
      BY <1>1, <1>2, <1>3, <1>7 DEF ApprovalIsKnown, NoRun
    <2>4. CompletedIsMerged'
      BY <1>1, <1>4, <1>7 DEF CompletedIsMerged
    <2> QED BY <2>1, <2>2, <2>3, <2>4 DEF PackageInv
  <1>8. CASE Plain(o) \/ (rec.status = "COMPLETED" /\ o = Out(rec))
    <2>1. /\ o \in OutcomeRecords /\ o.merge = FALSE /\ o.run \in {run, NoRun}
          /\ work = "commits" /\ o.work # "commits" => snap.work \in {"none", "clean"}
          /\ o.rec.status = "COMPLETED" => rec.status = "COMPLETED"
      <3>1. CASE Plain(o)
        BY <1>1, <3>1 DEF Plain, SnapshotFits
      <3>2. CASE rec.status = "COMPLETED" /\ o = Out(rec)
        BY <1>1, <3>2 DEF Out, OutcomeRecords, PackageTypes
      <3> QED BY <1>8, <3>1, <3>2
    <2>2. pull' \in PullRequests /\ pull'.state = pull.state /\ pull'.head = pull.head
      BY <1>1, <1>2, <2>1 DEF PackageTypes, PullRequests
    <2>3. PackageInv'
      BY <1>1, <1>7, <2>1, <2>2 DEF OutcomeRecords, PackageTypes, CompletedIsMerged
    <2> QED BY <1>2, <1>3, <2>1, <2>2, <2>3, GateStands DEF PackageStep
  <1>9. CASE Merging(o)
    <2>1. /\ o \in OutcomeRecords /\ o.merge = TRUE /\ o.claim = FALSE /\ o.run = run /\ o.work = work
          /\ snap.pr.head \in approved
      BY <1>1, <1>9 DEF Merging, ApprovalIsKnown
    <2>2. pull' = MergedPull
      BY <1>2, <2>1
    <2>3. CASE MergeMatches
      <3>1. pull' = [pull EXCEPT !.state = "merged"] /\ pull.state = "open" /\ pull.head = snap.pr.head
        BY <2>2, <2>3 DEF MergedPull, MergeMatches
      <3>2. pull' \in PullRequests /\ pull'.state = "merged" /\ pull'.head = pull.head
        BY <1>1, <3>1 DEF PackageTypes, PullRequests
      <3>3. PackageInv'
        BY <1>1, <1>7, <2>1, <3>1, <3>2 DEF OutcomeRecords, PackageTypes
      <3>4. PackageGate!Merge
        BY <1>3, <2>1, <3>1, <3>2 DEF PackageGate!Merge, PackageMerged
      <3> QED BY <1>2, <2>1, <3>3, <3>4 DEF PackageStep
    <2>4. CASE ~ MergeMatches
      <3>1. pull' = pull /\ rec' = rec
        BY <1>4, <2>1, <2>2, <2>4 DEF MergedPull, MergeRaises
      <3>2. PackageInv'
        BY <1>1, <1>7, <2>1, <3>1 DEF OutcomeRecords, PackageTypes, CompletedIsMerged
      <3> QED BY <1>2, <1>3, <2>1, <3>1, <3>2, GateStands DEF PackageStep
    <2> QED BY <2>3, <2>4
  <1> QED BY <1>6, <1>8, <1>9

LEMMA TriggerStep == ASSUME PackageInv, Trigger PROVE PackageStep
  <1>1. PackageTypes /\ ApprovalIsKnown /\ CompletedIsMerged
    BY DEF PackageInv
  <1>2. rec' \in PackageRecords /\ rec'.status = rec.status
    BY <1>1 DEF Trigger, PackageTypes, PackageRecords
  <1>3. run' \in ReviewRuns /\ (run' = run \/ run'.state = "running")
    <2>1. rec.key \in Keys \cup {NoKey} /\ pull.head \in 0..MaxPushes
      BY <1>1 DEF PackageTypes, PackageRecords, PullRequests
    <2> QED BY <1>1, <2>1 DEF Trigger, PackageTypes, ReviewRuns
  <1>4. /\ snap' = NoSnap /\ phase' = "idle" /\ UNCHANGED <<sess, work, pull, approved>>
    BY DEF Trigger
  <1>5. PackageInv'
    BY <1>1, <1>2, <1>3, <1>4, NoSnapFits DEF PackageInv, PackageTypes, SnapshotFits,
                                              ApprovalIsKnown, CompletedIsMerged
  <1> QED BY <1>4, <1>5, GateStands DEF PackageStep

LEMMA AbortStep == ASSUME PackageInv, Abort PROVE PackageStep
  <1>1. snap' = NoSnap /\ phase' = "idle" /\ UNCHANGED <<rec, sess, work, pull, run, approved>>
    BY DEF Abort
  <1>2. PackageInv'
    BY <1>1, NoSnapFits DEF PackageInv, PackageTypes, SnapshotFits, ApprovalIsKnown,
                            CompletedIsMerged
  <1> QED BY <1>1, <1>2, GateStands DEF PackageStep

LEMMA PackageWorldStep == ASSUME PackageInv, PackageWorld PROVE PackageStep
  <1>1. PackageTypes /\ SnapshotFits /\ ApprovalIsKnown /\ CompletedIsMerged
    BY DEF PackageInv
  <1>2. UNCHANGED <<rec, phase, snap>>
    BY DEF PackageWorld
  <1>3. CASE SessionChanges
    <2>1. sess' \in Sessions /\ UNCHANGED <<work, pull, run, approved>>
      BY <1>3 DEF SessionChanges, Sessions
    <2>2. PackageInv'
      BY <1>1, <1>2, <2>1 DEF PackageInv, PackageTypes, SnapshotFits, ApprovalIsKnown,
                              CompletedIsMerged
    <2> QED BY <2>1, <2>2, GateStands DEF PackageStep
  <1>4. CASE WorkerCommits
    <2>1. work = "clean" /\ work' = "commits" /\ UNCHANGED <<sess, pull, run, approved>>
      BY <1>4 DEF WorkerCommits
    <2>2. PackageInv'
      BY <1>1, <1>2, <2>1 DEF PackageInv, PackageTypes, SnapshotFits, ApprovalIsKnown,
                              CompletedIsMerged, WorkStates
    <2> QED BY <2>1, <2>2, GateStands DEF PackageStep
  <1>5. CASE WorkerPushes
    <2>1. /\ pull.head < MaxPushes /\ pull.state \in {"none", "open"}
          /\ pull' = [state |-> "open", head |-> pull.head + 1, ci |-> "WAIT", merge |-> "UNKNOWN"]
          /\ UNCHANGED <<sess, work, run, approved>>
      BY <1>5 DEF WorkerPushes
    <2>2. pull.head + 1 \in 0..MaxPushes /\ pull.head + 1 > 0
      BY <1>1, <2>1, PackageBounds DEF PackageTypes, PullRequests
    <2>3. pull' \in PullRequests /\ pull'.state = "open" /\ pull'.head > 0
      BY <2>1, <2>2 DEF PullRequests
    <2>4. PackageInv'
      BY <1>1, <1>2, <2>1, <2>3 DEF PackageInv, PackageTypes, SnapshotFits, ApprovalIsKnown,
                                    CompletedIsMerged
    <2>5. PackageGate!Verify
      BY <2>1, <2>3 DEF PackageGate!Verify, PackageMerged
    <2> QED BY <2>1, <2>4, <2>5 DEF PackageStep
  <1>6. CASE ChecksReport
    <2>1. /\ pull' \in PullRequests /\ pull'.state = pull.state /\ pull'.head = pull.head
          /\ UNCHANGED <<sess, work, run, approved>>
      BY <1>1, <1>6 DEF ChecksReport, PackageTypes, PullRequests
    <2>2. PackageInv'
      BY <1>1, <1>2, <2>1 DEF PackageInv, PackageTypes, SnapshotFits, ApprovalIsKnown,
                              CompletedIsMerged
    <2> QED BY <2>1, <2>2, GateStands DEF PackageStep
  <1>7. CASE ReviewCompletes
    <2>1. UNCHANGED <<sess, work, pull>> /\ approved \subseteq approved'
      BY <1>7 DEF ReviewCompletes
    <2>2. run' \in ReviewRuns /\ ApprovalIsKnown'
      BY <1>1, <1>7 DEF ReviewCompletes, PackageTypes, ReviewRuns, ApprovalIsKnown
    <2>3. PackageInv'
      BY <1>1, <1>2, <2>1, <2>2 DEF PackageInv, PackageTypes, SnapshotFits, CompletedIsMerged
    <2> QED BY <2>1, <2>3, GateStands DEF PackageStep
  <1> QED BY <1>3, <1>4, <1>5, <1>6, <1>7 DEF PackageWorld

LEMMA PackageNextStep ==
    ASSUME PackageInv, [PackageNext]_packageVars
    PROVE  PackageInv' /\ (UNCHANGED packageVars \/ PackageStep)
  <1>1. CASE PackageNext
    <2>1. PackageStep
      BY <1>1, ReconcileStep, WatchdogStep, LookForWorkStep, HandleStep, TriggerStep, AbortStep,
         PackageWorldStep
         DEF PackageNext
    <2> QED BY <2>1 DEF PackageStep
  <1>2. CASE UNCHANGED packageVars
    <2>1. PackageInv'
      BY <1>2 DEF packageVars, PackageInv, PackageTypes, SnapshotFits, ApprovalIsKnown,
                  CompletedIsMerged
    <2> QED BY <1>2, <2>1
  <1> QED BY <1>1, <1>2

LEMMA PackageInvariant == PackageSpec => []PackageInv
  <1>1. PackageInit => PackageInv
    BY PackageInitially
  <1>2. PackageInv /\ [PackageNext]_packageVars => PackageInv'
    BY PackageNextStep
  <1> QED BY <1>1, <1>2, PTL DEF PackageSpec
-----------------------------------------------------------------------------
(* The theorems.                                                           *)

\* The record of a package keeps its type and every budget of
\* factory/config.json, whatever calls raise and whenever the controller
\* dies: no handler takes one attempt, restart, correction round, epoch or
\* dispatch more than is left.
THEOREM PackageTypeCorrect == PackageSpec => []PackageTypeOK
  <1>1. PackageInv => PackageTypeOK
    BY DEF PackageInv, PackageTypes, PackageTypeOK, PackageRecords, PackageStatuses
  <1> QED BY <1>1, PackageInvariant, PTL

\* A package reported COMPLETED has its pull request merged, whatever was
\* pushed after the snapshot and whichever call raised.
THEOREM CompletedAlwaysMerged == PackageSpec => []CompletedIsMerged
  <1>1. PackageInv => CompletedIsMerged
    BY DEF PackageInv
  <1> QED BY <1>1, PackageInvariant, PTL

\* The package controller implements the gated merge: the head that is
\* merged was approved by a review that proved its context.
THEOREM PackageRefinesGatedMerge == PackageSpec => PackageImplementsGatedMerge
  <1>1. PackageInit => PackageGate!GateInit
    BY PackageInitially
  <1>2. PackageInv /\ [PackageNext]_packageVars
            => [PackageGate!GateNext]_<<approved, PackageMerged>>
    <2> SUFFICES ASSUME PackageInv, [PackageNext]_packageVars
                 PROVE  [PackageGate!GateNext]_<<approved, PackageMerged>>
      OBVIOUS
    <2>1. CASE UNCHANGED packageVars
      BY <2>1 DEF packageVars, PackageMerged
    <2>2. CASE PackageStep
      BY <2>2 DEF PackageStep, PackageGate!GateNext
    <2> QED BY <2>1, <2>2, PackageNextStep
  <1> QED BY <1>1, <1>2, PackageInvariant, PTL
          DEF PackageSpec, PackageImplementsGatedMerge, PackageGate!GateSpec, PackageGate!gateVars

\* Work is thrown away only by a tick that looked for it and saw none: whatever
\* was there by then survives, whichever call raises and whoever dies.
THEOREM WorkAlwaysPreserved == PackageSpec => WorkIsPreserved
  <1>1. PackageInv /\ [PackageNext]_packageVars
            => [work = "commits" /\ work' # "commits"
                    => snap.work \in {"none", "clean"}]_packageVars
    BY PackageNextStep DEF PackageStep
  <1> QED BY <1>1, PackageInvariant, PTL DEF PackageSpec, WorkIsPreserved
-----------------------------------------------------------------------------
(* The four paths side by side, as the runs explore them.  The paths        *)
(* `parallel` and `budgets` are the task runner and the package controller  *)
(* once more, with other constants: the theorems on TaskDelivery and        *)
(* FactoryPackage speak of them, as they hold for all constants.            *)

Repeated == {"parallel", "budgets"}
ClockOK == now \in 0..MaxTime /\ deaths \in 0..MaxDeaths
PathsInv ==
    /\ active \in Paths
    /\ IInv /\ DeliveryInv /\ ClockOK /\ AutopilotInv /\ PackageInv

\* Time and deaths are counted by two actions only.
LEMMA ClockKeeps ==
    ASSUME ClockOK, [DeliveryNext]_deliveryVars
    PROVE  ClockOK'
  <1>1. CASE ProgramDies
    BY <1>1, DeliveryAssumption DEF ProgramDies, ClockOK
  <1>2. CASE Tick
    BY <1>2, DeliveryAssumption DEF Tick, ClockOK
  <1>3. CASE UNCHANGED clock
    BY <1>3 DEF ClockOK, clock
  <1>4. ASSUME NEW t \in Tasks, CliCommand(t)
        PROVE  UNCHANGED clock
    BY <1>4 DEF CliCommand, Validate, MarkReady, Acquire, Begin, SelfReview, SelfReviewCorrect,
                SelfReviewRefresh, Release, LeaseReceipt, WriteUnlessLocked, CliUpdate, CliWrite
  <1>5. ASSUME NEW t \in Tasks,
               \/ CreateWorktree(t) \/ CleanupWorktree(t) \/ AgentCommits(t)
               \/ VerifyBegin(t) \/ Enqueue(t)
               \/ RetryIntegration(t)
        PROVE  UNCHANGED clock
    BY <1>5 DEF CreateWorktree, CleanupWorktree, AgentCommits, VerifyBegin, Enqueue, RetryIntegration
  <1>6. ASSUME CliOpen \/ Renew \/ Recover \/ VerifyPass \/ VerifyFail
        PROVE  UNCHANGED clock
    BY <1>6 DEF CliOpen, Renew, Recover, CliWrite, VerifyPass, VerifyFail
  <1>7. ASSUME \/ WriteQueue \/ Take \/ Rebase \/ PostRebaseReview \/ Requeue
               \/ Merge \/ IntegrationPass \/ RevertMerge \/ IntegrationFail
               \/ RetryPasses \/ RetryFails \/ MergerThrows
        PROVE  UNCHANGED clock
    BY <1>7 DEF WriteQueue, Take, Rebase, PostRebaseReview, Requeue, Merge, IntegrationPass,
                RevertMerge, IntegrationFail, RetryPasses, RetryFails, MergerThrows
  <1>8. ASSUME Reverify
        PROVE  UNCHANGED clock
    BY <1>8 DEF Reverify, VerifyBegin
  <1>9. CASE UNCHANGED deliveryVars
    BY <1>9, <1>3 DEF deliveryVars, clock
  <1> QED BY <1>1, <1>2, <1>3, <1>4, <1>5, <1>6, <1>7, <1>8, <1>9 DEF DeliveryNext

LEMMA PathsInitially ==
    ASSUME Bounds, Paths \cap Repeated = {}, MCInit
    PROVE  PathsInv
  <1>1. active \in Paths /\ Init /\ DeliveryInit /\ AutopilotInit /\ PackageInit
    BY DEF MCInit
  <1>2. ClockOK
    BY <1>1, DeliveryAssumption DEF DeliveryInit, ClockOK
  <1> QED BY <1>1, <1>2, InitIInv, DeliveryInvInit, AutopilotStarts, PackageInitially DEF PathsInv

LEMMA PathSteps ==
    ASSUME Paths \cap Repeated = {}, active \in Paths, [MCNext]_allVars
    PROVE  /\ active' = active
           /\ [Next]_vars /\ [DeliveryNext]_deliveryVars
           /\ [AutopilotNext]_autopilotVars /\ [PackageNext]_packageVars
  BY DEF MCNext, allVars, Repeated

LEMMA PathsKeep ==
    ASSUME Bounds, Paths \cap Repeated = {}, PathsInv, [MCNext]_allVars
    PROVE  PathsInv'
  <1>1. /\ active' = active
        /\ [Next]_vars /\ [DeliveryNext]_deliveryVars
        /\ [AutopilotNext]_autopilotVars /\ [PackageNext]_packageVars
    BY PathSteps DEF PathsInv
  <1>2. IInv' /\ DeliveryInv'
    BY <1>1, NextIInv, DeliveryInvStep DEF PathsInv
  <1>3. ClockOK' /\ AutopilotInv' /\ PackageInv'
    BY <1>1, ClockKeeps, AutopilotStep, PackageNextStep DEF PathsInv
  <1> QED BY <1>1, <1>2, <1>3 DEF PathsInv

\* The type invariants of the four paths, for all values of their constants.
THEOREM PathsAreTyped ==
    ASSUME Bounds, Paths \cap Repeated = {}
    PROVE  MCSpec => []PathTypeOK
  <1>1. PathsInv => PathTypeOK
    <2> SUFFICES ASSUME PathsInv PROVE PathTypeOK
      OBVIOUS
    <2>1. TypeOK /\ AutopilotTypeOK /\ PackageTypeOK
      BY DEF PathsInv, IInv, AutopilotInv, AutopilotTypes, AutopilotTypeOK, BranchesStand, ClusterRecords,
             ProjectRecords, PackageInv, PackageTypes, PackageTypeOK, PackageRecords, PackageStatuses
    <2>2. active # "parallel" /\ active # "budgets"
      BY DEF PathsInv, Repeated
    <2>3. DeliveryTypeOK
      <3>1. DeliveryTypes /\ ClockOK
        BY DEF PathsInv, DeliveryInv
      <3>2. ASSUME NEW t \in Tasks
            PROVE  worktree[t] = None \/ worktree[t].rev \in 0..MaxRev
        BY <3>1 DEF DeliveryTypes, Worktree
      <3>3. ASSUME NEW i \in DOMAIN branch
            PROVE  branch[i].kind \in {"merge", "revert"}
        <4>1. branch \in Seq(Entries)
          BY <3>1 DEF DeliveryTypes
        <4>2. branch[i] \in Entries
          BY <4>1
        <4> QED BY <4>2 DEF Entries
      <3>4. doc \in LifecycleDocuments /\ passed \subseteq Commits
        BY <3>1 DEF DeliveryTypes
      <3>5. now \in 0..MaxTime /\ deaths \in 0..MaxDeaths
        BY <3>1 DEF ClockOK
      <3> QED BY <3>2, <3>3, <3>4, <3>5 DEF DeliveryTypeOK
    <2> QED BY <2>1, <2>2, <2>3 DEF PathTypeOK
  <1> QED BY <1>1, PathsInitially, PathsKeep, PTL DEF MCSpec
=============================================================================
