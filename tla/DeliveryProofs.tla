--------------------------- MODULE DeliveryProofs ---------------------------
(***************************************************************************)
(* What the two paths that deliver code keep, for every release, every     *)
(* project and every bound.  First TaskDelivery, the task path of the      *)
(* factory with its merge queue: its types, that it implements GatedMerge, *)
(* and that what was merged stays integrated.  Then Orchestrator, the      *)
(* autopilot: its types, that work rests on integrated clusters, and, as   *)
(* long as nobody pushes between the report and the merge, that only       *)
(* reviewed code is merged.                                                *)
(***************************************************************************)
EXTENDS TaskDelivery, Orchestrator, WellFoundedInduction, TLAPS

\* What the programs keep in memory and what lies on disk, by type.
QueueItems == [task : Tasks, version : Nat, status : {"QUEUED", "PROCESSING", "MERGED", "REVERTED"}]
Cli == {Idle} \cup [pc : {"open"}, copy : LifecycleDocuments]
              \cup [pc : {"renew", "recover"}, copy : LifecycleDocuments, task : Tasks, at : Nat]
Verifier == {Idle} \cup [pc : {"testing"}, task : Tasks, commit : Commits, copy : LifecycleDocuments]
Merger == {Idle} \cup [pc : {"save"}, queue : Seq(QueueItems)]
                 \cup [pc : {"retry"}, task : Tasks, copy : LifecycleDocuments]
                 \cup [pc : {"rebase", "review", "verify", "wait", "merge", "integrate", "reverted"},
                       task : Tasks, item : Nat, at : Nat, copy : LifecycleDocuments]
Entries == [kind : {"merge", "revert"}, commit : Commits]
Worktree == {None} \cup [base : Nat, rev : 0..MaxRev]

DeliveryTypes ==
    /\ doc \in LifecycleDocuments
    /\ receipts \in [Tasks -> [{"renew", "recover"} -> [1..MaxVersion -> Nat \cup {Unwritten}]]]
    /\ worktree \in [Tasks -> Worktree]
    /\ branch \in Seq(Entries)
    /\ results \in [Tasks -> Results \cup {None}]
    /\ queue \in Seq(QueueItems)
    /\ cli \in Cli /\ verifier \in Verifier /\ merger \in Merger
    /\ now \in Nat /\ passed \subseteq Commits

\* A request is only made of a lease that may be renewed, and only a reviewed
\* task is tested.
UnderWay ==
    /\ cli.pc \in {"renew", "recover"} => cli.copy[cli.task].version \in 1..(MaxVersion - 1)
    /\ verifier.pc = "testing" => /\ verifier.copy[verifier.task].review # None
                                  /\ verifier.copy[verifier.task].state = "VERIFYING"
    /\ merger.pc \in {"integrate", "retry"} => branch # <<>>

\* Every result and every entry of the branch is of a commit that passed.
EvidenceIsPassed ==
    /\ \A t \in Tasks : results[t] # None => results[t].commit \in passed
    /\ \A i \in DOMAIN branch : branch[i].commit \in passed

DeliveryInv == DeliveryTypes /\ UnderWay /\ EvidenceIsPassed

\* One program at a time, except that the merge queue waits for the verifier it
\* started; its copy is the document on disk whenever it will be written back.
OneProgram ==
    /\ cli # Idle => cli.copy = doc /\ verifier = Idle /\ merger = Idle
    /\ verifier # Idle => verifier.copy = doc /\ (merger = Idle \/ merger.pc = "wait")
    /\ merger.pc \in {"rebase", "review", "verify", "integrate", "reverted", "retry"} => merger.copy = doc

\* While the integration of a task runs, for the first time or again, its merge
\* is the newest entry and the task is not merged yet.
IntegratingNewest ==
    merger.pc \in {"integrate", "retry"} => /\ branch # <<>>
                                           /\ branch[Len(branch)].kind = "merge"
                                           /\ branch[Len(branch)].commit.task = merger.task
                                           /\ doc[merger.task].state # "MERGED"

SerialInv == DeliveryInv /\ OneProgram /\ IntegratingNewest /\ MergedIsIntegrated
-----------------------------------------------------------------------------
(* Lemmas on the operators.                                                *)

\* The missing commit is no commit.
LEMMA NoneIsNoCommit == None \notin Commits
  BY DEF None, Commits, Revs

\* HEAD of a worktree is a commit of its task, or none.
LEMMA TaskHeadType ==
    ASSUME worktree \in [Tasks -> Worktree], NEW t \in Tasks, TaskHead(t) # None
    PROVE  /\ TaskHead(t) \in Commits
           /\ TaskHead(t).task = t
           /\ worktree[t] # None
  <1>1. worktree[t] # None /\ worktree[t].rev # 0
    BY DEF TaskHead
  <1>2. worktree[t] \in [base : Nat, rev : 0..MaxRev]
    BY <1>1 DEF Worktree
  <1>3. worktree[t].rev \in 1..MaxRev /\ worktree[t].base \in Nat
    BY <1>1, <1>2, DeliveryAssumption
  <1> QED BY <1>1, <1>3 DEF TaskHead, Commits, Revs

\* transition leaves everything but the state alone.
LEMMA TransitionedType ==
    ASSUME NEW d \in TaskStates, d.state \in DOMAIN Successor
    PROVE  /\ Transitioned(d) \in TaskStates
           /\ Transitioned(d) = [d EXCEPT !.state = Successor[d.state]]
           /\ Transitioned(d).state = Successor[d.state]
           /\ Transitioned(d).review = d.review /\ Transitioned(d).version = d.version
  <1>1. Successor[d.state] \in States
    BY DEF Successor, States, Protected
  <1> QED BY <1>1 DEF Transitioned, TaskStates

LEMMA DomainSuccessor ==
    /\ DOMAIN Successor = {"DRAFT", "VALIDATED", "READY"} \cup Protected
    /\ Successor["DRAFT"] = "VALIDATED" /\ Successor["VALIDATED"] = "READY"
    /\ Successor["READY"] = "LEASED" /\ Successor["LEASED"] = "IMPLEMENTING"
    /\ Successor["IMPLEMENTING"] = "SELF_REVIEWING" /\ Successor["SELF_REVIEWING"] = "VERIFYING"
    /\ Successor["VERIFYING"] = "VERIFIED" /\ Successor["VERIFIED"] = "MERGE_QUEUED"
    /\ Successor["MERGE_QUEUED"] = "MERGED"
  BY DEF Successor, Protected

\* refreshReady only makes validated tasks ready.
LEMMA RefreshedType ==
    ASSUME NEW s \in LifecycleDocuments
    PROVE  /\ Refreshed(s) \in LifecycleDocuments
           /\ \A t \in Tasks : Refreshed(s)[t].state = "MERGED" => s[t].state = "MERGED"
  <1>1. \A t \in Tasks : [s[t] EXCEPT !.state = "READY"] \in TaskStates
    BY DEF LifecycleDocuments, TaskStates, States
  <1>2. \A t \in Tasks : [s[t] EXCEPT !.state = "READY"].state = "READY"
    BY DEF LifecycleDocuments, TaskStates
  <1> QED BY <1>1, <1>2 DEF Refreshed, LifecycleDocuments

\* Writing one entry of a document.
LEMMA EntryType ==
    ASSUME NEW s \in LifecycleDocuments, NEW t \in Tasks, NEW d \in TaskStates
    PROVE  [s EXCEPT ![t] = d] \in LifecycleDocuments
  BY DEF LifecycleDocuments

\* A set of naturals that is not empty has a least element.
LEMMA LeastExists ==
    ASSUME NEW S, S # {}, S \subseteq Nat
    PROVE  (CHOOSE j \in S : \A k \in S : j <= k) \in S
  <1>1. PICK x \in S : \A y \in S : ~(<<y, x>> \in OpToRel(<, Nat))
    BY NatLessThanWellFounded, WFMin
  <1>2. \A y \in S : ~(y < x)
    BY <1>1 DEF OpToRel
  <1>3. \A y \in S : x <= y
    BY <1>2
  <1> QED BY <1>3

LEMMA UpdateType ==
    ASSUME NEW S, NEW q \in Seq(S), NEW i \in DOMAIN q, NEW x \in S
    PROVE  [q EXCEPT ![i] = x] \in Seq(S)
  OBVIOUS

\* The status of an item, whether or not the item is in the queue.
LEMMA StatusType ==
    ASSUME NEW q \in Seq(QueueItems), NEW i,
           NEW x \in {"QUEUED", "PROCESSING", "MERGED", "REVERTED"}
    PROVE  [q EXCEPT ![i].status = x] \in Seq(QueueItems)
  <1> DEFINE r == [j \in DOMAIN q |-> IF j = i THEN [q[j] EXCEPT !.status = x] ELSE q[j]]
  <1>1. \A j \in DOMAIN q : [q[j] EXCEPT !.status = x] \in QueueItems
    <2> SUFFICES ASSUME NEW j \in DOMAIN q PROVE [q[j] EXCEPT !.status = x] \in QueueItems
      OBVIOUS
    <2>1. q[j] \in QueueItems
      OBVIOUS
    <2> QED BY <2>1 DEF QueueItems
  <1>2. r \in [1..Len(q) -> QueueItems]
    BY <1>1
  <1>3. r \in Seq(QueueItems)
    BY <1>2
  <1>4. [q EXCEPT ![i].status = x] = r
    OBVIOUS
  <1> QED BY <1>3, <1>4

LEMMA UnleasedType == Unleased \in TaskStates
  BY DeliveryAssumption DEF Unleased, TaskStates, States

-----------------------------------------------------------------------------
(* The invariant of every behaviour, overlapping programs included.        *)

LEMMA DeliveryInvInit == DeliveryInit => DeliveryInv
  <1> SUFFICES ASSUME DeliveryInit PROVE DeliveryInv
    OBVIOUS
  <1>2. DeliveryTypes
    BY UnleasedType, DeliveryAssumption DEF DeliveryInit, DeliveryTypes, LifecycleDocuments, Worktree, Cli, Verifier, Merger
  <1>3. UnderWay
    BY DEF DeliveryInit, UnderWay, Idle
  <1>4. EvidenceIsPassed
    BY DEF DeliveryInit, EvidenceIsPassed
  <1> QED BY <1>2, <1>3, <1>4 DEF DeliveryInv

\* The worktree manager and the agent.
LEMMA WorktreeStep ==
    ASSUME DeliveryInv, NEW t \in Tasks,
           CreateWorktree(t) \/ CleanupWorktree(t) \/ AgentCommits(t)
    PROVE  DeliveryInv'
  <1>1. Position \in Nat
    BY DEF DeliveryInv, DeliveryTypes, Position
  <1>2. worktree' \in [Tasks -> Worktree]
    <2>1. CASE CreateWorktree(t)
      BY <1>1, <2>1, DeliveryAssumption DEF DeliveryInv, DeliveryTypes, CreateWorktree, Worktree
    <2>2. CASE CleanupWorktree(t)
      BY <2>2 DEF DeliveryInv, DeliveryTypes, CleanupWorktree, Worktree
    <2>3. CASE AgentCommits(t)
      <3>1. worktree[t] \in [base : Nat, rev : 0..MaxRev] /\ worktree[t].rev < MaxRev
        BY <2>3 DEF DeliveryInv, DeliveryTypes, AgentCommits, Worktree
      <3>2. [worktree[t] EXCEPT !.rev = @ + 1] \in [base : Nat, rev : 0..MaxRev]
        BY <3>1, DeliveryAssumption
      <3> QED BY <2>3, <3>2 DEF DeliveryInv, DeliveryTypes, AgentCommits, Worktree
    <2> QED BY <2>1, <2>2, <2>3
  <1>3. UNCHANGED <<doc, receipts, branch, results, passed, queue, cli, verifier, merger, now>>
    BY DEF CreateWorktree, CleanupWorktree, AgentCommits, evidence, clock
  <1> QED BY <1>2, <1>3 DEF DeliveryInv, DeliveryTypes, UnderWay, EvidenceIsPassed

\* Every command of the task-runner ends in a write of a well-typed document.
LEMMA CliWriteStep ==
    ASSUME DeliveryInv, NEW s \in LifecycleDocuments, CliWrite(s)
    PROVE  DeliveryInv'
  <1>1. UNCHANGED <<receipts, worktree, branch, results, passed, queue, verifier, merger, now>>
    BY DEF CliWrite, git, evidence, clock
  <1>2. doc' = s /\ cli' = Idle
    BY DEF CliWrite
  <1>3. DeliveryTypes'
    BY <1>1, <1>2 DEF DeliveryInv, DeliveryTypes, Cli
  <1>4. UnderWay' /\ EvidenceIsPassed'
    BY <1>1, <1>2 DEF DeliveryInv, UnderWay, EvidenceIsPassed, Idle
  <1> QED BY <1>3, <1>4 DEF DeliveryInv

\* A well-typed document is written that calls no task merged which neither the
\* file nor the copy does.
CliWrites ==
    \E s \in LifecycleDocuments :
        /\ CliWrite(s)
        /\ \A u \in Tasks : s[u].state = "MERGED" => "MERGED" \in {doc[u].state, cli.copy[u].state}

LEMMA CliUpdateWrites ==
    ASSUME NEW t \in Tasks, NEW d \in TaskStates, cli.copy \in LifecycleDocuments,
           CliUpdate(t, d), d.state # "MERGED"
    PROVE  CliWrites
  <1> DEFINE s == [cli.copy EXCEPT ![t] = d]
  <1>1. s \in LifecycleDocuments /\ CliWrite(s)
    BY EntryType DEF CliUpdate
  <1>2. \A u \in Tasks : s[u].state = "MERGED" => cli.copy[u].state = "MERGED"
    BY DEF LifecycleDocuments
  <1> QED BY <1>1, <1>2 DEF CliWrites

\* The commands of the task-runner on the copy they opened.
LEMMA CliCommandWrites ==
    ASSUME DeliveryInv, NEW t \in Tasks, CliCommand(t)
    PROVE  CliWrites \/ \E kind \in {"renew", "recover"} : LeaseReceipt(t, kind)
  <1> DEFINE d == cli.copy[t]
  <1>1. cli.pc = "open" /\ cli.copy \in LifecycleDocuments
    BY DEF CliCommand, DeliveryInv, DeliveryTypes, Cli, Idle
  <1>2. d \in TaskStates
    BY <1>1 DEF LifecycleDocuments
  <1>3. CASE Validate(t) \/ MarkReady(t)
    <2>1. d.state \in {"DRAFT", "VALIDATED"}
      BY <1>3 DEF Validate, MarkReady
    <2>2. Transitioned(d) \in TaskStates /\ Transitioned(d).state # "MERGED"
      BY <1>2, <2>1, TransitionedType, DomainSuccessor
    <2> QED BY <1>1, <1>3, <2>2, CliUpdateWrites DEF Validate, MarkReady
  <1>4. CASE Acquire(t)
    <2> DEFINE e == Transitioned(d)
               f == [e EXCEPT !.version = @ + 1, !.expires = now + Ttl, !.base = worktree[t].base]
    <2>1. d.state = "READY" /\ d.version < MaxVersion /\ CliUpdate(t, f) /\ worktree[t] # None
      BY <1>4 DEF Acquire, Acquirable
    <2>2. e \in TaskStates /\ e.version = d.version /\ e.state = "LEASED"
      BY <1>2, <2>1, TransitionedType, DomainSuccessor
    <2>3. worktree[t].base \in Nat /\ now + Ttl \in Nat
      BY <2>1, DeliveryAssumption DEF DeliveryInv, DeliveryTypes, Worktree
    <2>4. e.version + 1 \in 0..MaxVersion
      BY <2>1, <2>2, DeliveryAssumption DEF TaskStates
    <2>5. f \in TaskStates /\ f.state # "MERGED"
      BY <2>2, <2>3, <2>4 DEF TaskStates
    <2> QED BY <1>1, <2>1, <2>5, CliUpdateWrites
  <1>5. CASE Begin(t)
    <2>1. Transitioned(d) \in TaskStates /\ Transitioned(d).state # "MERGED"
      BY <1>2, <1>5, TransitionedType, DomainSuccessor DEF Begin, Protected
    <2> QED BY <1>1, <1>5, <2>1, CliUpdateWrites DEF Begin
  <1>6. CASE SelfReview(t)
    <2> DEFINE c == TaskHead(t)
               r == TaskReview(c, d)
               e == [Transitioned(d) EXCEPT !.commit = c, !.review = r]
               f == [d EXCEPT !.review = r]
    <2>1. c \in Commits
      BY <1>6, TaskHeadType DEF SelfReview, Reviewable, DeliveryInv, DeliveryTypes
    <2>2. r \in Reviews
      BY <1>2, <2>1, DeliveryAssumption DEF TaskReview, Reviews, TaskStates
    <2>3. f \in TaskStates /\ f.state = d.state
      BY <1>2, <2>2 DEF TaskStates
    <2>4. CASE d.state = "IMPLEMENTING" /\ CliUpdate(t, e)
      <3>1. Transitioned(d) \in TaskStates /\ Transitioned(d).state = "SELF_REVIEWING"
        BY <1>2, <2>4, TransitionedType, DomainSuccessor DEF Protected
      <3>2. e \in TaskStates /\ e.state # "MERGED"
        BY <3>1, <2>1, <2>2 DEF TaskStates
      <3> QED BY <1>1, <2>4, <3>2, CliUpdateWrites
    <2>5. CASE d.state = "SELF_REVIEWING" /\ CliUpdate(t, f)
      BY <1>1, <2>3, <2>5, CliUpdateWrites
    <2> QED BY <1>6, <2>4, <2>5 DEF SelfReview
  <1>7. CASE SelfReviewCorrect(t) \/ SelfReviewRefresh(t)
    <2>1. Locked /\ doc \in LifecycleDocuments
      BY <1>1 DEF Locked, Idle, DeliveryInv, DeliveryTypes
    <2>2. CliWrite(doc)
      BY <1>7, <2>1 DEF SelfReviewCorrect, SelfReviewRefresh, WriteUnlessLocked
    <2> QED BY <2>1, <2>2 DEF CliWrites
  <1>8. CASE Release(t)
    <2> DEFINE s == [cli.copy EXCEPT ![t] = Released(d)]
    <2>1. Released(d) \in TaskStates /\ Released(d).state = "VALIDATED"
      <3>1. Unleased \in TaskStates /\ d.version \in 0..MaxVersion
        BY <1>2, UnleasedType DEF TaskStates
      <3> QED BY <3>1 DEF Released, TaskStates, States
    <2>2. s \in LifecycleDocuments /\ \A u \in Tasks : s[u].state = "MERGED" => cli.copy[u].state = "MERGED"
      BY <1>1, <2>1, EntryType DEF LifecycleDocuments
    <2>3. CliWrite(Refreshed(s))
      BY <1>8 DEF Release
    <2> HIDE DEF s
    <2> QED BY <2>2, <2>3, RefreshedType DEF CliWrites
  <1> QED BY <1>3, <1>4, <1>5, <1>6, <1>7, <1>8 DEF CliCommand

\* The receipt of a request is written before the request is served.
LEMMA LeaseReceiptStep ==
    ASSUME DeliveryInv, NEW t \in Tasks, NEW kind \in {"renew", "recover"}, LeaseReceipt(t, kind),
           cli.copy \in LifecycleDocuments
    PROVE  DeliveryInv'
  <1> DEFINE d == cli.copy[t]
  <1> DEFINE v == d.version
  <1>1. /\ v \in 1..MaxVersion - 1
        /\ receipts' = IF receipts[t][kind][v] # Unwritten THEN receipts
                       ELSE [receipts EXCEPT ![t][kind][v] = now]
        /\ cli' = [pc |-> kind, copy |-> cli.copy, task |-> t, at |-> receipts'[t][kind][v]]
    BY DEF LeaseReceipt
  <1>2. UNCHANGED <<doc, worktree, branch, results, passed, queue, verifier, merger, now>>
    BY DEF LeaseReceipt, git, evidence, clock
  <1>3. v \in 1..MaxVersion /\ now \in Nat \cup {Unwritten} /\ now # Unwritten
    BY <1>1, DeliveryAssumption DEF DeliveryInv, DeliveryTypes, Unwritten
  <1> DEFINE Times == [1..MaxVersion -> Nat \cup {Unwritten}]
             times == [receipts[t][kind] EXCEPT ![v] = now]
             row == [receipts[t] EXCEPT ![kind] = times]
  <1>a. /\ receipts \in [Tasks -> [{"renew", "recover"} -> Times]]
        /\ receipts[t] \in [{"renew", "recover"} -> Times] /\ receipts[t][kind] \in Times
    BY DEF DeliveryInv, DeliveryTypes
  <1>b. times \in Times /\ times[v] = now
    BY <1>3, <1>a
  <1>c. row \in [{"renew", "recover"} -> Times] /\ row[kind] = times
    BY <1>a, <1>b
  <1>d. \/ receipts' = receipts /\ receipts[t][kind][v] # Unwritten
        \/ receipts' = [receipts EXCEPT ![t] = row]
    BY <1>1
  <1> HIDE DEF Times, times, row
  <1>4. receipts' \in [Tasks -> [{"renew", "recover"} -> Times]]
    BY <1>a, <1>c, <1>d
  <1>5. receipts'[t][kind][v] # Unwritten
    <2>1. CASE receipts' = [receipts EXCEPT ![t] = row]
      BY <1>3, <1>a, <1>b, <1>c, <2>1
    <2> QED BY <1>d, <2>1
  <1>6. receipts'[t][kind][v] \in Nat
    <2>1. receipts'[t][kind] \in Times
      BY <1>4
    <2>2. receipts'[t][kind][v] \in Nat \cup {Unwritten}
      BY <1>3, <2>1 DEF Times
    <2> QED BY <1>5, <2>2
  <1>7. cli' \in Cli
    BY <1>1, <1>1, <1>6 DEF Cli
  <1>8. DeliveryTypes'
    BY <1>2, <1>4, <1>7 DEF DeliveryInv, DeliveryTypes, Times
  <1>9. UnderWay'
    BY <1>1, <1>2 DEF DeliveryInv, UnderWay
  <1>10. EvidenceIsPassed'
    BY <1>2 DEF DeliveryInv, EvidenceIsPassed
  <1> QED BY <1>8, <1>9, <1>10 DEF DeliveryInv

LEMMA CliCommandStep ==
    ASSUME DeliveryInv, NEW t \in Tasks, CliCommand(t)
    PROVE  DeliveryInv'
  <1>1. cli.copy \in LifecycleDocuments
    BY DEF CliCommand, DeliveryInv, DeliveryTypes, Cli, Idle
  <1> QED BY <1>1, CliCommandWrites, CliWriteStep, LeaseReceiptStep DEF CliWrites

\* The requests whose receipt is written.
LEMMA RequestWrites ==
    ASSUME DeliveryInv, Renew \/ Recover
    PROVE  CliWrites
  <1> DEFINE t == cli.task
             d == cli.copy[t]
             e == [d EXCEPT !.version = @ + 1, !.expires = cli.at + Ttl]
             f == [d EXCEPT !.version = @ + 1, !.expires = cli.at + Ttl, !.recovery = d.version + 1]
  <1>1. cli.pc \in {"renew", "recover"}
    BY DEF Renew, Recover
  <1>2. cli.copy \in LifecycleDocuments /\ t \in Tasks /\ cli.at \in Nat
    BY <1>1 DEF DeliveryInv, DeliveryTypes, Cli, Idle
  <1>3. d \in TaskStates /\ d.version \in 1..(MaxVersion - 1)
    BY <1>1, <1>2 DEF DeliveryInv, UnderWay, LifecycleDocuments
  <1>4. d.version + 1 \in 0..MaxVersion /\ cli.at + Ttl \in Nat
    BY <1>2, <1>3, DeliveryAssumption
  <1>5. e \in TaskStates /\ f \in TaskStates /\ e.state = d.state /\ f.state = d.state
    BY <1>3, <1>4 DEF TaskStates
  <1>6. doc \in LifecycleDocuments
    BY DEF DeliveryInv, DeliveryTypes
  <1>7. /\ [cli.copy EXCEPT ![t].version = @ + 1, ![t].expires = cli.at + Ttl]
              = [cli.copy EXCEPT ![t] = e]
        /\ [cli.copy EXCEPT ![t].version = @ + 1, ![t].expires = cli.at + Ttl,
                            ![t].recovery = d.version + 1]
              = [cli.copy EXCEPT ![t] = f]
    BY <1>2, <1>3 DEF LifecycleDocuments, TaskStates
  <1>8. CASE Renew
    <2>1. CliWrite(doc) \/ CliWrite([cli.copy EXCEPT ![t] = e])
      BY <1>7, <1>8 DEF Renew
    <2>2. [cli.copy EXCEPT ![t] = e] \in LifecycleDocuments
          /\ \A u \in Tasks : [cli.copy EXCEPT ![t] = e][u].state = cli.copy[u].state
      BY <1>2, <1>5, EntryType DEF LifecycleDocuments
    <2> QED BY <1>6, <2>1, <2>2 DEF CliWrites
  <1>9. CASE Recover
    <2>1. CliWrite(doc) \/ CliWrite([cli.copy EXCEPT ![t] = f])
      BY <1>7, <1>9 DEF Recover
    <2>2. [cli.copy EXCEPT ![t] = f] \in LifecycleDocuments
          /\ \A u \in Tasks : [cli.copy EXCEPT ![t] = f][u].state = cli.copy[u].state
      BY <1>2, <1>5, EntryType DEF LifecycleDocuments
    <2> QED BY <1>6, <2>1, <2>2 DEF CliWrites
  <1> QED BY <1>8, <1>9

LEMMA CliOpenStep ==
    ASSUME DeliveryInv, CliOpen
    PROVE  DeliveryInv'
  <1>1. UNCHANGED <<doc, receipts, worktree, branch, results, passed, queue, verifier, merger, now>>
    BY DEF CliOpen, git, evidence, clock
  <1>2. cli' = [pc |-> "open", copy |-> doc]
    BY DEF CliOpen
  <1>3. DeliveryTypes'
    BY <1>1, <1>2 DEF DeliveryInv, DeliveryTypes, Cli
  <1> QED BY <1>1, <1>2, <1>3 DEF DeliveryInv, UnderWay, EvidenceIsPassed

LEMMA CliRequestStep ==
    ASSUME DeliveryInv, CliOpen \/ Renew \/ Recover
    PROVE  DeliveryInv'
  BY CliOpenStep, RequestWrites, CliWriteStep DEF CliWrites

\* The verifier, started by hand or by the merge queue.
LEMMA VerifyBeginStep ==
    ASSUME DeliveryInv, NEW t \in Tasks, VerifyBegin(t), merger' \in Merger,
           merger' = merger \/ merger'.pc \notin {"integrate", "retry"}
    PROVE  DeliveryInv'
  <1> DEFINE d == doc[t]
             e == Transitioned(d)
  <1>1. d \in TaskStates /\ d.state = "SELF_REVIEWING" /\ d.review # None /\ TaskHead(t) # None
    BY DEF VerifyBegin, DeliveryInv, DeliveryTypes, LifecycleDocuments, BoundReview, Reviewable
  <1>2. e \in TaskStates /\ e.state = "VERIFYING" /\ e.review = d.review
    BY <1>1, TransitionedType, DomainSuccessor DEF Protected
  <1>3. TaskHead(t) \in Commits
    BY <1>1, TaskHeadType DEF DeliveryInv, DeliveryTypes
  <1> HIDE DEF e
  <1> DEFINE s == [doc EXCEPT ![t] = e]
  <1>4. s \in LifecycleDocuments /\ s[t] = e
    BY <1>2, EntryType DEF DeliveryInv, DeliveryTypes, LifecycleDocuments
  <1>5. doc' = s /\ verifier' = [pc |-> "testing", task |-> t, commit |-> TaskHead(t), copy |-> s]
    BY DEF VerifyBegin, e
  <1>6. UNCHANGED <<receipts, worktree, branch, results, passed, queue, cli, now>>
    BY DEF VerifyBegin, git, evidence, clock
  <1> HIDE DEF s
  <1>7. DeliveryTypes'
    BY <1>3, <1>4, <1>5, <1>6 DEF DeliveryInv, DeliveryTypes, Verifier
  <1>8. UnderWay'
    BY <1>1, <1>2, <1>4, <1>5, <1>6 DEF DeliveryInv, UnderWay
  <1> QED BY <1>6, <1>7, <1>8 DEF DeliveryInv, EvidenceIsPassed

LEMMA VerifyEndStep ==
    ASSUME DeliveryInv, VerifyPass \/ VerifyFail
    PROVE  DeliveryInv'
  <1> DEFINE t == verifier.task
             d == verifier.copy[t]
             r == TaskResult(verifier.commit, d)
  <1>1. verifier.pc = "testing"
    BY DEF VerifyPass, VerifyFail
  <1>2. t \in Tasks /\ verifier.commit \in Commits /\ verifier.copy \in LifecycleDocuments
    BY <1>1 DEF DeliveryInv, DeliveryTypes, Verifier, Idle
  <1>3. d \in TaskStates /\ d.review \in Reviews /\ d.state = "VERIFYING"
    BY <1>1, <1>2 DEF DeliveryInv, UnderWay, LifecycleDocuments, TaskStates
  <1>4. CASE VerifyPass
    <2> DEFINE e == IF Valid(d, d.version, now)
                    THEN [Transitioned(d) EXCEPT !.commit = verifier.commit, !.result = r]
                    ELSE [d EXCEPT !.state = "SELF_REVIEWING", !.commit = verifier.commit, !.result = r]
    <2>1. r \in Results /\ r.commit = verifier.commit
      BY <1>2, <1>3, DeliveryAssumption DEF TaskResult, Results, TaskStates
    <2>2. Transitioned(d) \in TaskStates
      BY <1>3, TransitionedType, DomainSuccessor DEF Protected
    <2>3. e \in TaskStates
      BY <1>2, <1>3, <2>1, <2>2 DEF TaskStates, States, Protected
    <2>4. /\ results' = [results EXCEPT ![t] = r]
          /\ passed' = passed \cup {verifier.commit}
          /\ doc' = [verifier.copy EXCEPT ![t] = e] /\ verifier' = Idle
      BY <1>4 DEF VerifyPass
    <2>5. UNCHANGED <<receipts, worktree, branch, queue, cli, merger, now>>
      BY <1>4 DEF VerifyPass, git, clock
    <2> HIDE DEF e, r
    <2>6. doc' \in LifecycleDocuments
      BY <1>2, <2>3, <2>4, EntryType
    <2>7. results' \in [Tasks -> Results \cup {None}] /\ passed' \subseteq Commits
      BY <1>2, <2>1, <2>4 DEF DeliveryInv, DeliveryTypes
    <2>8. DeliveryTypes'
      BY <2>4, <2>5, <2>6, <2>7 DEF DeliveryInv, DeliveryTypes, Verifier
    <2>9. UnderWay'
      BY <2>4, <2>5 DEF DeliveryInv, UnderWay, Idle
    <2>10. EvidenceIsPassed'
      BY <1>2, <2>1, <2>4, <2>5 DEF DeliveryInv, DeliveryTypes, EvidenceIsPassed
    <2> QED BY <2>8, <2>9, <2>10 DEF DeliveryInv
  <1>5. CASE VerifyFail
    <2> DEFINE e == [d EXCEPT !.state = "SELF_REVIEWING"]
    <2>1. e \in TaskStates
      BY <1>3 DEF TaskStates, States, Protected
    <2>2. doc' = [verifier.copy EXCEPT ![t] = e] /\ verifier' = Idle
      BY <1>5 DEF VerifyFail
    <2>3. UNCHANGED <<receipts, worktree, branch, results, passed, queue, cli, merger, now>>
      BY <1>5 DEF VerifyFail, git, evidence, clock
    <2> HIDE DEF e
    <2>4. doc' \in LifecycleDocuments
      BY <1>2, <2>1, <2>2, EntryType
    <2>5. DeliveryTypes'
      BY <2>2, <2>3, <2>4 DEF DeliveryInv, DeliveryTypes, Verifier
    <2> QED BY <2>2, <2>3, <2>5 DEF DeliveryInv, UnderWay, EvidenceIsPassed, Idle
  <1> QED BY <1>4, <1>5

-----------------------------------------------------------------------------
(* The merge queue.                                                        *)

\* What a merge queue at work holds.
LEMMA MergerWork ==
    ASSUME DeliveryInv, merger.pc \in {"rebase", "review", "verify", "wait", "merge", "integrate", "reverted"}
    PROVE  /\ merger \in [pc : {"rebase", "review", "verify", "wait", "merge", "integrate", "reverted"},
                          task : Tasks, item : Nat, at : Nat, copy : LifecycleDocuments]
           /\ merger.task \in Tasks /\ merger.copy \in LifecycleDocuments
           /\ merger.copy[merger.task] \in TaskStates
  BY DEF DeliveryInv, DeliveryTypes, Merger, Idle, LifecycleDocuments

\* Steps that neither touch the evidence nor the branch nor the other programs.
LEMMA MergerWrites ==
    ASSUME DeliveryInv, doc' \in LifecycleDocuments, queue' \in Seq(QueueItems), merger' \in Merger,
           UNCHANGED <<receipts, worktree, branch, results, passed, cli, verifier, now>>,
           merger'.pc \notin {"integrate", "retry"}
    PROVE  DeliveryInv'
  <1>1. DeliveryTypes'
    BY DEF DeliveryInv, DeliveryTypes
  <1> QED BY <1>1 DEF DeliveryInv, UnderWay, EvidenceIsPassed

LEMMA QueueStep ==
    ASSUME DeliveryInv, (\E t \in Tasks : Enqueue(t)) \/ WriteQueue \/ Take
    PROVE  DeliveryInv'
  <1>1. ASSUME NEW t \in Tasks, Enqueue(t) PROVE DeliveryInv'
    <2> DEFINE d == doc[t]
               e == Transitioned(d)
               item == [task |-> t, version |-> d.version, status |-> "QUEUED"]
    <2>1. d \in TaskStates /\ d.state = "VERIFIED"
      BY <1>1 DEF Enqueue, DeliveryInv, DeliveryTypes, LifecycleDocuments
    <2>2. e \in TaskStates
      BY <2>1, TransitionedType, DomainSuccessor DEF Protected
    <2>3. item \in QueueItems
      BY <2>1, DeliveryAssumption DEF QueueItems, TaskStates
    <2>4. doc' = [doc EXCEPT ![t] = e] /\ merger' = [pc |-> "save", queue |-> Append(queue, item)]
      BY <1>1 DEF Enqueue
    <2>5. UNCHANGED <<receipts, worktree, branch, results, passed, queue, cli, verifier, now>>
      BY <1>1 DEF Enqueue, git, evidence, clock
    <2> HIDE DEF e, item
    <2>6. doc' \in LifecycleDocuments /\ queue' \in Seq(QueueItems)
      BY <2>2, <2>4, <2>5, EntryType DEF DeliveryInv, DeliveryTypes
    <2>7. Append(queue, item) \in Seq(QueueItems)
      BY <2>3 DEF DeliveryInv, DeliveryTypes
    <2>8. merger' \in Merger
      BY <2>4, <2>7 DEF Merger
    <2>9. merger'.pc \notin {"integrate", "retry"}
      BY <2>4
    <2> QED BY <2>5, <2>6, <2>8, <2>9, MergerWrites
  <1>2. CASE WriteQueue
    <2>1. merger.queue \in Seq(QueueItems)
      BY <1>2 DEF WriteQueue, DeliveryInv, DeliveryTypes, Merger, Idle
    <2>2. queue' \in Seq(QueueItems) /\ merger' \in Merger /\ doc' \in LifecycleDocuments
      BY <1>2, <2>1 DEF WriteQueue, DeliveryInv, DeliveryTypes, Merger
    <2>3. UNCHANGED <<receipts, worktree, branch, results, passed, cli, verifier, now>>
      BY <1>2 DEF WriteQueue, git, evidence, clock
    <2>4. merger'.pc \notin {"integrate", "retry"}
      BY <1>2 DEF WriteQueue, Idle
    <2> QED BY <2>2, <2>3, <2>4, MergerWrites
  <1>3. CASE Take
    <2> DEFINE open == {i \in DOMAIN queue : queue[i].status \in {"QUEUED", "PROCESSING"}}
               i == CHOOSE j \in open : \A k \in open : j <= k
               t == queue[i].task
    <2>1. /\ open # {} /\ doc[t].state = "MERGE_QUEUED"
          /\ queue' = [queue EXCEPT ![i].status = "PROCESSING"]
          /\ merger' = [pc |-> IF results[t].commit.base = Position THEN "merge" ELSE "rebase",
                        task |-> t, item |-> i, at |-> now, copy |-> doc]
      BY <1>3 DEF Take
    <2>2. open \subseteq Nat /\ open \subseteq DOMAIN queue
      BY DEF DeliveryInv, DeliveryTypes
    <2> HIDE DEF open
    <2>3. i \in open
      BY <2>1, <2>2, LeastExists
    <2> HIDE DEF i
    <2>4. queue[i] \in QueueItems /\ i \in DOMAIN queue /\ i \in Nat
      BY <2>2, <2>3 DEF DeliveryInv, DeliveryTypes
    <2>5. [queue[i] EXCEPT !.status = "PROCESSING"] \in QueueItems
      BY <2>4 DEF QueueItems
    <2>6. queue' \in Seq(QueueItems)
      BY <2>1, <2>4, <2>5, UpdateType DEF DeliveryInv, DeliveryTypes
    <2>7. merger' \in Merger
      BY <2>1, <2>4 DEF Merger, QueueItems, DeliveryInv, DeliveryTypes
    <2>8. UNCHANGED <<doc, receipts, worktree, branch, results, passed, cli, verifier, now>>
      BY <1>3 DEF Take, git, evidence, clock
    <2>9. merger'.pc \notin {"integrate", "retry"}
      BY <2>1
    <2> QED BY <2>6, <2>7, <2>8, <2>9, MergerWrites DEF DeliveryInv, DeliveryTypes
  <1> QED BY <1>1, <1>2, <1>3

\* Rebase, review and verification of a commit whose base has moved.
LEMMA RebaseStep ==
    ASSUME DeliveryInv, Rebase \/ PostRebaseReview \/ Reverify \/ Requeue
    PROVE  DeliveryInv'
  <1> DEFINE t == merger.task
  <1>1. merger.pc \in {"rebase", "review", "verify", "wait", "merge", "integrate", "reverted"}
    BY DEF Rebase, PostRebaseReview, Reverify, Requeue
  <1>2. /\ merger \in [pc : {"rebase", "review", "verify", "wait", "merge", "integrate", "reverted"},
                       task : Tasks, item : Nat, at : Nat, copy : LifecycleDocuments]
        /\ t \in Tasks /\ merger.copy \in LifecycleDocuments /\ merger.copy[t] \in TaskStates
    BY <1>1, MergerWork
  <1>3. doc \in LifecycleDocuments /\ doc[t] \in TaskStates /\ Position \in Nat
    BY <1>2 DEF DeliveryInv, DeliveryTypes, LifecycleDocuments, Position
  <1>4. CASE Rebase
    <2> DEFINE d == merger.copy[t]
               c == IF Integrated(t) THEN None ELSE [TaskHead(t) EXCEPT !.base = Position]
               w == [base |-> Position, rev |-> IF c = None THEN 0 ELSE worktree[t].rev]
               s == [merger.copy EXCEPT ![t] = Reset(d, c)]
    <2>1. TaskHead(t) \in Commits /\ worktree[t] # None
      BY <1>2, <1>4, TaskHeadType DEF Rebase, Unmerged, DeliveryInv, DeliveryTypes
    <2>2. [TaskHead(t) EXCEPT !.base = Position] \in Commits
      BY <1>3, <2>1 DEF Commits
    <2>3. c \in Commits \cup {None}
      BY <2>2
    <2>4. w \in Worktree
      BY <1>2, <1>3, <2>1, DeliveryAssumption DEF Worktree, DeliveryInv, DeliveryTypes
    <2>5. /\ worktree' = [worktree EXCEPT ![t] = w] /\ doc' = s
          /\ merger' = [merger EXCEPT !.pc = "review", !.copy = s]
      BY <1>4 DEF Rebase
    <2>6. UNCHANGED <<receipts, branch, results, passed, queue, cli, verifier, now>>
      BY <1>4 DEF Rebase, clock
    <2> HIDE DEF c, w
    <2>7. Reset(d, c) \in TaskStates
      BY <1>2, <1>3, <2>3 DEF Reset, TaskStates, States, Protected
    <2>8. s \in LifecycleDocuments
      BY <1>2, <2>7, EntryType
    <2> HIDE DEF s
    <2>9. merger' \in Merger
      BY <1>2, <2>5, <2>8 DEF Merger
    <2>10. DeliveryTypes'
      BY <2>4, <2>5, <2>6, <2>8, <2>9 DEF DeliveryInv, DeliveryTypes
    <2>11. merger'.pc \notin {"integrate", "retry"}
      BY <1>2, <2>5
    <2> QED BY <2>6, <2>10, <2>11 DEF DeliveryInv, UnderWay, EvidenceIsPassed
  <1>5. CASE PostRebaseReview
    <2> DEFINE d == merger.copy[t]
               e == [d EXCEPT !.review = RebasedReview(t, d)]
               s == [merger.copy EXCEPT ![t] = e]
    <2>1. TaskHead(t) \in Commits
      BY <1>2, <1>5, TaskHeadType DEF PostRebaseReview, Reviewable, DeliveryInv, DeliveryTypes
    <2>2. RebasedReview(t, d) \in Reviews
      BY <1>2, <2>1, DeliveryAssumption DEF RebasedReview, TaskReview, Reviews, TaskStates
    <2>3. e \in TaskStates
      BY <1>2, <2>2 DEF TaskStates
    <2>4. doc' = s /\ merger' = [merger EXCEPT !.pc = "verify", !.copy = s]
      BY <1>5 DEF PostRebaseReview
    <2>5. UNCHANGED <<receipts, worktree, branch, results, passed, queue, cli, verifier, now>>
      BY <1>5 DEF PostRebaseReview, git, evidence, clock
    <2>6. s \in LifecycleDocuments
      BY <1>2, <2>3, EntryType
    <2> HIDE DEF s
    <2>7. merger' \in Merger
      BY <1>2, <2>4, <2>6 DEF Merger
    <2> QED BY <2>4, <2>5, <2>6, <2>7, MergerWrites DEF DeliveryInv, DeliveryTypes
  <1>6. CASE Reverify
    <2>1. merger' \in Merger
      BY <1>2, <1>6 DEF Reverify, Merger
    <2> QED BY <1>2, <1>6, <2>1, VerifyBeginStep DEF Reverify
  <1>7. CASE Requeue
    <2> DEFINE e == Transitioned(doc[t])
    <2>1. e \in TaskStates
      BY <1>3, <1>7, TransitionedType, DomainSuccessor DEF Requeue, Protected
    <2>2. doc' = [doc EXCEPT ![t] = e] /\ merger' = [merger EXCEPT !.pc = "merge"]
      BY <1>7 DEF Requeue
    <2>3. UNCHANGED <<receipts, worktree, branch, results, passed, queue, cli, verifier, now>>
      BY <1>7 DEF Requeue, git, evidence, clock
    <2>4. doc' \in LifecycleDocuments
      BY <1>2, <1>3, <2>1, <2>2, EntryType
    <2>5. merger' \in Merger
      BY <1>2, <2>2 DEF Merger
    <2>6. merger'.pc \notin {"integrate", "retry"}
      BY <1>2, <2>2
    <2> QED BY <2>3, <2>4, <2>5, <2>6, MergerWrites DEF DeliveryInv, DeliveryTypes
  <1> QED BY <1>4, <1>5, <1>6, <1>7

\* What mergeTask is about to put on the branch has passed.
LEMMA MergedHasPassed ==
    ASSUME DeliveryInv, NEW t \in Tasks, NEW d, TaskAttested(t, d), TaskHead(t) = d.commit
    PROVE  TaskHead(t) \in passed /\ TaskHead(t) \in Commits /\ TaskHead(t).task = t
  <1>1. TaskHead(t) \in passed
    BY DEF TaskAttested, DeliveryInv, EvidenceIsPassed
  <1>2. TaskHead(t) # None
    BY <1>1, NoneIsNoCommit DEF DeliveryInv, DeliveryTypes
  <1> QED BY <1>1, <1>2, TaskHeadType DEF DeliveryInv, DeliveryTypes

\* Steps that add entries of commits that have passed.
LEMMA BranchWrites ==
    ASSUME DeliveryInv, doc' \in LifecycleDocuments, queue' \in Seq(QueueItems), merger' \in Merger,
           branch' \in Seq(Entries), \A i \in DOMAIN branch' : branch'[i].commit \in passed,
           branch' # <<>>, UNCHANGED <<receipts, worktree, results, passed, cli, verifier, now>>
    PROVE  DeliveryInv'
  <1>1. DeliveryTypes'
    BY DEF DeliveryInv, DeliveryTypes
  <1> QED BY <1>1 DEF DeliveryInv, UnderWay, EvidenceIsPassed

\* One more entry.
LEMMA AppendEntry ==
    ASSUME NEW b \in Seq(Entries), NEW k \in {"merge", "revert"}, NEW c \in Commits
    PROVE  LET b1 == Append(b, [kind |-> k, commit |-> c])
           IN  /\ b1 \in Seq(Entries) /\ Len(b1) = Len(b) + 1
               /\ DOMAIN b1 = DOMAIN b \cup {Len(b) + 1}
               /\ \A i \in DOMAIN b : b1[i] = b[i] /\ i <= Len(b)
               /\ b1[Len(b) + 1].kind = k /\ b1[Len(b) + 1].commit = c
  <1>1. [kind |-> k, commit |-> c] \in Entries
    BY DEF Entries
  <1> QED BY <1>1

\* A revert of the newest entry.
LEMMA RevertedBranch ==
    ASSUME DeliveryInv, branch # <<>>, GitRevert
    PROVE  /\ branch' \in Seq(Entries) /\ branch' # <<>>
           /\ \A i \in DOMAIN branch' : branch'[i].commit \in passed
           /\ \A i \in DOMAIN branch : i \in DOMAIN branch' /\ branch'[i] = branch[i]
           /\ branch' = Append(branch, [kind |-> "revert", commit |-> branch[Len(branch)].commit])
           /\ branch[Len(branch)].commit \in Commits
  <1> DEFINE c == branch[Position].commit
  <1>1. branch \in Seq(Entries) /\ \A i \in DOMAIN branch : branch[i].commit \in passed
    BY DEF DeliveryInv, DeliveryTypes, EvidenceIsPassed
  <1>2. c \in passed /\ c \in Commits
    BY <1>1 DEF Position, DeliveryInv, DeliveryTypes
  <1>3. branch' = Append(branch, [kind |-> "revert", commit |-> c]) /\ c = branch[Len(branch)].commit
    BY DEF GitRevert, Position
  <1> HIDE DEF c
  <1> QED BY <1>1, <1>2, <1>3, AppendEntry

\* Merge, integration and its retry.
LEMMA MergeStep ==
    ASSUME DeliveryInv, Merge \/ IntegrationPass \/ RevertMerge \/ IntegrationFail
    PROVE  DeliveryInv'
  <1> DEFINE t == merger.task
  <1>1. merger.pc \in {"rebase", "review", "verify", "wait", "merge", "integrate", "reverted"}
    BY DEF Merge, IntegrationPass, RevertMerge, IntegrationFail
  <1>2. /\ merger \in [pc : {"rebase", "review", "verify", "wait", "merge", "integrate", "reverted"},
                       task : Tasks, item : Nat, at : Nat, copy : LifecycleDocuments]
        /\ t \in Tasks /\ merger.copy \in LifecycleDocuments /\ merger.copy[t] \in TaskStates
    BY <1>1, MergerWork
  <1>3. /\ doc \in LifecycleDocuments /\ branch \in Seq(Entries) /\ queue \in Seq(QueueItems)
        /\ \A i \in DOMAIN branch : branch[i].commit \in passed
    BY DEF DeliveryInv, DeliveryTypes, EvidenceIsPassed
  <1>4. CASE Merge
    <2>1. TaskHead(t) \in passed /\ TaskHead(t) \in Commits
      BY <1>2, <1>4, MergedHasPassed DEF Merge, MayMerge
    <2>2. branch' = Append(branch, [kind |-> "merge", commit |-> TaskHead(t)])
      BY <1>4 DEF Merge
    <2>3. branch' \in Seq(Entries) /\ \A i \in DOMAIN branch' : branch'[i].commit \in passed
      BY <1>3, <2>1, <2>2, AppendEntry
    <2>4. merger' \in Merger
      BY <1>2, <1>3, <1>4 DEF Merge, Merger
    <2>5. UNCHANGED <<doc, receipts, worktree, results, passed, queue, cli, verifier, now>>
      BY <1>4 DEF Merge, evidence, clock
    <2>6. branch' # <<>>
      BY <1>3, <2>1, <2>2, AppendEntry
    <2> QED BY <1>3, <2>3, <2>4, <2>5, <2>6, BranchWrites
  <1>5. CASE IntegrationPass
    <2> DEFINE e == Transitioned(merger.copy[t])
    <2>1. e \in TaskStates
      BY <1>2, <1>5, TransitionedType, DomainSuccessor DEF IntegrationPass, Valid
    <2>2. doc' = Refreshed([merger.copy EXCEPT ![t] = e])
      BY <1>5 DEF IntegrationPass
    <2>3. doc' \in LifecycleDocuments
      BY <1>2, <2>1, <2>2, EntryType, RefreshedType
    <2>4. queue' \in Seq(QueueItems)
      BY <1>3, <1>5 DEF IntegrationPass
    <2>5. merger' \in Merger /\ merger'.pc \notin {"integrate", "retry"}
      BY <1>3, <1>5, StatusType DEF IntegrationPass, Merger, Saving
    <2>6. UNCHANGED <<receipts, worktree, branch, results, passed, cli, verifier, now>>
      BY <1>5 DEF IntegrationPass, git, evidence, clock
    <2> QED BY <2>3, <2>4, <2>5, <2>6, MergerWrites
  <1>6. CASE RevertMerge
    <2>1. branch # <<>>
      BY <1>6 DEF RevertMerge, DeliveryInv, UnderWay
    <2>2. merger' \in Merger /\ merger'.pc = "reverted"
      BY <1>2, <1>6 DEF RevertMerge, Merger
    <2>3. UNCHANGED <<doc, receipts, worktree, results, passed, queue, cli, verifier, now>>
      BY <1>6 DEF RevertMerge, evidence, clock
    <2> QED BY <1>3, <1>6, <2>1, <2>2, <2>3, RevertedBranch, BranchWrites DEF RevertMerge
  <1>7. CASE IntegrationFail
    <2> DEFINE e == Reverted(merger.copy[t])
    <2>1. e \in TaskStates
      BY <1>2 DEF Reverted, TaskStates, States
    <2>2. doc' = [merger.copy EXCEPT ![t] = e]
      BY <1>7 DEF IntegrationFail
    <2>3. doc' \in LifecycleDocuments
      BY <1>2, <2>1, <2>2, EntryType
    <2>4. queue' \in Seq(QueueItems)
      BY <1>3, <1>7 DEF IntegrationFail
    <2>5. merger' \in Merger /\ merger'.pc \notin {"integrate", "retry"}
      BY <1>3, <1>7, StatusType DEF IntegrationFail, Merger, Saving
    <2>6. UNCHANGED <<receipts, worktree, branch, results, passed, cli, verifier, now>>
      BY <1>7 DEF IntegrationFail, git, evidence, clock
    <2> QED BY <2>3, <2>4, <2>5, <2>6, MergerWrites
  <1> QED BY <1>4, <1>5, <1>6, <1>7

\* What is integrated again has passed; how the second integration ends.
LEMMA RetryStep ==
    ASSUME DeliveryInv, (\E t \in Tasks : RetryIntegration(t)) \/ RetryPasses \/ RetryFails
    PROVE  DeliveryInv'
  <1>1. /\ doc \in LifecycleDocuments /\ branch \in Seq(Entries) /\ queue \in Seq(QueueItems)
        /\ \A i \in DOMAIN branch : branch[i].commit \in passed
    BY DEF DeliveryInv, DeliveryTypes, EvidenceIsPassed
  <1>2. ASSUME NEW t \in Tasks, RetryIntegration(t) PROVE DeliveryInv'
    <2> DEFINE c == doc[t].commit
    <2>1. c \in passed /\ c \in Commits
      BY <1>1, <1>2 DEF RetryIntegration, DeliveryInv, DeliveryTypes
    <2>2. branch' = Append(branch, [kind |-> "merge", commit |-> c])
      BY <1>2 DEF RetryIntegration
    <2> HIDE DEF c
    <2>3. branch' \in Seq(Entries) /\ \A i \in DOMAIN branch' : branch'[i].commit \in passed
      BY <1>1, <2>1, <2>2, AppendEntry
    <2>4. branch' # <<>>
      BY <1>1, <2>1, <2>2, AppendEntry
    <2>5. merger' \in Merger
      BY <1>1, <1>2 DEF RetryIntegration, Merger
    <2>6. UNCHANGED <<doc, receipts, worktree, results, passed, queue, cli, verifier, now>>
      BY <1>2 DEF RetryIntegration, evidence, clock
    <2> QED BY <1>1, <2>3, <2>4, <2>5, <2>6, BranchWrites
  <1>3. ASSUME merger.pc = "retry"
        PROVE  merger.task \in Tasks /\ merger.copy \in LifecycleDocuments /\ branch # <<>>
    BY <1>3 DEF DeliveryInv, DeliveryTypes, UnderWay, Merger, Idle
  <1>4. merger' = Idle => merger' \in Merger /\ merger'.pc \notin {"integrate", "retry"}
    BY DEF Merger, Idle
  <1>5. CASE RetryPasses
    <2> DEFINE t == merger.task
               e == [merger.copy[t] EXCEPT !.state = "MERGED"]
    <2>1. /\ merger.pc = "retry" /\ merger' = Idle /\ doc' = Refreshed([merger.copy EXCEPT ![t] = e])
          /\ UNCHANGED <<receipts, worktree, branch, results, passed, queue, cli, verifier, now>>
      BY <1>5 DEF RetryPasses, git, evidence, clock
    <2>2. t \in Tasks /\ merger.copy \in LifecycleDocuments
      BY <1>3, <2>1
    <2>3. e \in TaskStates
      <3>1. merger.copy[t] \in TaskStates
        BY <2>2 DEF LifecycleDocuments
      <3>2. "MERGED" \in States
        BY DEF States
      <3> QED BY <3>1, <3>2 DEF TaskStates
    <2> HIDE DEF e, t
    <2>4. doc' \in LifecycleDocuments
      BY <2>1, <2>2, <2>3, EntryType, RefreshedType
    <2> QED BY <1>1, <1>4, <2>1, <2>4, MergerWrites
  <1>6. CASE RetryFails
    <2>1. UNCHANGED <<doc, receipts, worktree, results, passed, queue, cli, verifier, now>>
      BY <1>6 DEF RetryFails, evidence, clock
    <2> QED BY <1>1, <1>3, <1>4, <1>6, <2>1, RevertedBranch, BranchWrites DEF RetryFails
  <1> QED BY <1>2, <1>5, <1>6

\* A program throws or dies, and time passes.
LEMMA OtherStep ==
    ASSUME DeliveryInv, MergerThrows \/ ProgramDies \/ Tick \/ UNCHANGED deliveryVars
    PROVE  DeliveryInv'
  <1>1. UNCHANGED <<doc, receipts, worktree, branch, results, passed, queue>> /\ now' \in Nat
    BY DEF MergerThrows, ProgramDies, Tick, deliveryVars, git, evidence, clock, DeliveryInv, DeliveryTypes
  <1>2. cli' \in {cli, Idle} /\ verifier' \in {verifier, Idle} /\ merger' \in {merger, Idle}
    BY DEF MergerThrows, ProgramDies, Tick, deliveryVars
  <1>3. DeliveryTypes'
    BY <1>1, <1>2 DEF DeliveryInv, DeliveryTypes, Cli, Verifier, Merger
  <1>4. UnderWay'
    BY <1>1, <1>2 DEF DeliveryInv, UnderWay, Idle
  <1> QED BY <1>1, <1>3, <1>4 DEF DeliveryInv, EvidenceIsPassed

LEMMA DeliveryInvStep == DeliveryInv /\ [DeliveryNext]_deliveryVars => DeliveryInv'
  <1> SUFFICES ASSUME DeliveryInv, [DeliveryNext]_deliveryVars PROVE DeliveryInv'
    OBVIOUS
  <1>1. ASSUME NEW t \in Tasks, CreateWorktree(t) \/ CleanupWorktree(t) \/ AgentCommits(t)
        PROVE  DeliveryInv'
    BY <1>1, WorktreeStep
  <1>2. ASSUME NEW t \in Tasks, VerifyBegin(t), UNCHANGED merger PROVE DeliveryInv'
    BY <1>2, VerifyBeginStep DEF DeliveryInv, DeliveryTypes
  <1> QED
    BY <1>1, <1>2, CliCommandStep, CliRequestStep, VerifyEndStep, QueueStep, RebaseStep, MergeStep, RetryStep, OtherStep
       DEF DeliveryNext

\* The invariant holds of every behaviour.
LEMMA DeliveryInvariant == DeliverySpec => []DeliveryInv
  BY DeliveryInvInit, DeliveryInvStep, PTL DEF DeliverySpec

(***************************************************************************)
(* The types of the lifecycle document, the programs' copies, the queue    *)
(* and the branch (task-state.json, lifecycle schema of the worktree       *)
(* manager), for any number of programs running at once.                   *)
(***************************************************************************)
THEOREM DeliveryTypeCorrect == DeliverySpec => []DeliveryTypes
  BY DeliveryInvariant, PTL DEF DeliveryInv

\* A step adds to what passed or to the branch, never to both, and takes
\* nothing from either.
LEMMA BranchOrVerdict ==
    ASSUME DeliveryInv, [DeliveryNext]_deliveryVars
    PROVE  \/ branch' = branch /\ passed \subseteq passed'
           \/ /\ passed' = passed
              /\ \A i \in DOMAIN branch : i \in DOMAIN branch' /\ branch'[i] = branch[i]
  <1>1. branch \in Seq(Entries)
    BY DEF DeliveryInv, DeliveryTypes
  <1>2. CASE UNCHANGED <<branch, passed>>
    BY <1>2
  <1>3. CASE VerifyPass
    BY <1>3 DEF VerifyPass, git
  <1>4. CASE Merge
    BY <1>1, <1>4 DEF Merge, evidence
  <1>5. CASE RevertMerge \/ RetryFails
    <2>1. branch # <<>> /\ GitRevert /\ passed' = passed
      BY <1>5 DEF RevertMerge, RetryFails, evidence, DeliveryInv, UnderWay
    <2> QED BY <2>1, RevertedBranch
  <1>6. ASSUME NEW t \in Tasks, RetryIntegration(t)
        PROVE  /\ passed' = passed
               /\ \A i \in DOMAIN branch : i \in DOMAIN branch' /\ branch'[i] = branch[i]
    BY <1>1, <1>6 DEF RetryIntegration, evidence
  <1>7. CASE \E t \in Tasks : CreateWorktree(t) \/ CleanupWorktree(t) \/ AgentCommits(t) \/ VerifyBegin(t) \/ Enqueue(t)
    BY <1>2, <1>7 DEF CreateWorktree, CleanupWorktree, AgentCommits, VerifyBegin, Enqueue, git, evidence
  <1>8. ASSUME NEW t \in Tasks, CliCommand(t) PROVE UNCHANGED <<branch, passed>>
    BY <1>8 DEF CliCommand, Validate, MarkReady, Acquire, Begin, SelfReview, SelfReviewCorrect,
                SelfReviewRefresh, Release, LeaseReceipt, CliUpdate, CliWrite, WriteUnlessLocked, git, evidence
  <1>9. CASE CliOpen \/ Renew \/ Recover \/ VerifyFail \/ WriteQueue \/ Take
    BY <1>2, <1>9 DEF CliOpen, Renew, Recover, CliWrite, VerifyFail, WriteQueue, Take, git, evidence
  <1>10. CASE Rebase \/ PostRebaseReview \/ Reverify \/ Requeue \/ IntegrationPass \/ IntegrationFail \/ RetryPasses
    BY <1>2, <1>10 DEF Rebase, PostRebaseReview, Reverify, VerifyBegin, Requeue, IntegrationPass, IntegrationFail,
                       RetryPasses, git, evidence
  <1>11. CASE MergerThrows \/ ProgramDies \/ Tick \/ UNCHANGED deliveryVars
    BY <1>2, <1>11 DEF MergerThrows, ProgramDies, Tick, deliveryVars, git, evidence
  <1> QED
    BY <1>2, <1>3, <1>4, <1>5, <1>6, <1>7, <1>8, <1>9, <1>10, <1>11 DEF DeliveryNext

(***************************************************************************)
(* The merge queue implements the gated merge: mergeTask only puts commits *)
(* on the cluster branch that the verifier passed before, whatever runs at *)
(* the same time.  No bound of the model and no order of the programs is   *)
(* assumed.                                                                *)
(***************************************************************************)
THEOREM QueueRefinesGatedMerge == DeliverySpec => QueueImplementsGatedMerge
  <1>1. DeliveryInit => QueueGate!GateInit
    BY DEF DeliveryInit, QueueGate!GateInit, QueueMerged
  <1>2. DeliveryInv /\ DeliveryInv' /\ [DeliveryNext]_deliveryVars => [QueueGate!GateNext]_(QueueGate!gateVars)
    <2> SUFFICES ASSUME DeliveryInv, DeliveryInv', [DeliveryNext]_deliveryVars
                 PROVE  QueueGate!Verify \/ QueueGate!Merge
      BY DEF QueueGate!GateNext
    <2>1. CASE branch' = branch /\ passed \subseteq passed'
      BY <2>1 DEF QueueGate!Verify, QueueMerged
    <2>2. CASE /\ passed' = passed
               /\ \A i \in DOMAIN branch : i \in DOMAIN branch' /\ branch'[i] = branch[i]
      <3>1. QueueMerged \subseteq QueueMerged'
        BY <2>2 DEF QueueMerged
      <3>2. QueueMerged' \subseteq passed
        BY <2>2 DEF QueueMerged, DeliveryInv, EvidenceIsPassed
      <3> QED BY <2>2, <3>1, <3>2 DEF QueueGate!Merge
    <2> QED BY <2>1, <2>2, BranchOrVerdict
  <1> QED
    BY <1>1, <1>2, DeliveryInvariant, PTL DEF DeliverySpec, QueueImplementsGatedMerge, QueueGate!GateSpec

-----------------------------------------------------------------------------
(* One program at a time: an operator, or the autopilot, that runs one     *)
(* command after the other.                                                *)

\* Integrated, of any branch.
On(b, t) == \E i \in DOMAIN b : /\ b[i].commit.task = t
                                /\ \A j \in DOMAIN b : b[j].commit.task = t => j <= i
                                /\ b[i].kind = "merge"

LEMMA IntegratedOn == \A t : (Integrated(t) <=> On(branch, t)) /\ (Integrated(t)' <=> On(branch', t))
  BY DEF Integrated, Latest, On

\* A new entry is the newest of its task, and says nothing of the others.
LEMMA OnAppend ==
    ASSUME NEW b \in Seq(Entries), NEW k \in {"merge", "revert"}, NEW c \in Commits, NEW t,
           c.task = t => k = "merge", c.task # t => On(b, t)
    PROVE  On(Append(b, [kind |-> k, commit |-> c]), t)
  <1> DEFINE b1 == Append(b, [kind |-> k, commit |-> c])
  <1>1. /\ DOMAIN b1 = DOMAIN b \cup {Len(b) + 1} /\ Len(b) \in Nat
        /\ \A i \in DOMAIN b : b1[i] = b[i] /\ i <= Len(b) /\ i \in Nat
        /\ b1[Len(b) + 1].kind = k /\ b1[Len(b) + 1].commit = c
    BY AppendEntry
  <1> HIDE DEF b1
  <1>2. CASE c.task = t
    <2>1. \A j \in DOMAIN b1 : j <= Len(b) + 1
      BY <1>1
    <2> QED BY <1>1, <1>2, <2>1 DEF On, b1
  <1>3. CASE c.task # t
    <2>1. PICK i \in DOMAIN b : /\ b[i].commit.task = t
                                /\ \A j \in DOMAIN b : b[j].commit.task = t => j <= i
                                /\ b[i].kind = "merge"
      BY <1>3 DEF On
    <2>2. b1[i].commit.task = t /\ b1[i].kind = "merge" /\ i \in DOMAIN b1
      BY <1>1, <2>1
    <2>3. \A j \in DOMAIN b1 : b1[j].commit.task = t => j <= i
      BY <1>1, <1>3, <2>1
    <2> QED BY <2>2, <2>3 DEF On, b1
  <1> QED BY <1>2, <1>3

LEMMA SerialInvInit == DeliveryInit => SerialInv
  <1> SUFFICES ASSUME DeliveryInit PROVE SerialInv
    OBVIOUS
  <1>1. DeliveryInv
    BY DeliveryInvInit
  <1>2. OneProgram /\ IntegratingNewest
    BY DEF DeliveryInit, OneProgram, IntegratingNewest, Idle
  <1>3. MergedIsIntegrated
    BY DEF DeliveryInit, MergedIsIntegrated, Unleased
  <1> QED BY <1>1, <1>2, <1>3 DEF SerialInv

\* What remains to be shown of a step.
Serial == OneProgram /\ IntegratingNewest /\ MergedIsIntegrated

\* A command of the task-runner calls no task merged that was not.
LEMMA SerialCliWrites ==
    ASSUME SerialInv, cli # Idle, CliWrites
    PROVE  Serial'
  <1>1. PICK s \in LifecycleDocuments :
            /\ CliWrite(s)
            /\ \A u \in Tasks : s[u].state = "MERGED" => "MERGED" \in {doc[u].state, cli.copy[u].state}
    BY DEF CliWrites
  <1>2. /\ verifier = Idle /\ merger = Idle /\ cli.copy = doc /\ doc' = s /\ cli' = Idle
        /\ verifier' = verifier /\ merger' = merger /\ branch' = branch
    BY <1>1 DEF SerialInv, OneProgram, CliWrite, git
  <1>3. OneProgram' /\ IntegratingNewest'
    BY <1>2 DEF OneProgram, IntegratingNewest, Idle
  <1>4. MergedIsIntegrated'
    BY <1>1, <1>2, IntegratedOn DEF SerialInv, MergedIsIntegrated
  <1> QED BY <1>3, <1>4 DEF Serial

LEMMA SerialCliStep ==
    ASSUME SerialInv, ~Overlap, (\E t \in Tasks : CliCommand(t)) \/ CliOpen \/ Renew \/ Recover
    PROVE  Serial'
  <1>1. DeliveryInv
    BY DEF SerialInv
  <1>2. CASE CliOpen
    <2>1. /\ cli' = [pc |-> "open", copy |-> doc] /\ verifier = Idle /\ merger = Idle
          /\ UNCHANGED <<doc, branch, verifier, merger>>
      BY <1>2 DEF CliOpen, MayStart, git
    <2> QED BY <2>1, IntegratedOn DEF Serial, SerialInv, OneProgram, IntegratingNewest, MergedIsIntegrated, Idle
  <1>3. CASE Renew \/ Recover
    <2>1. cli # Idle
      BY <1>3 DEF Renew, Recover, Idle
    <2> QED BY <1>1, <1>3, <2>1, RequestWrites, SerialCliWrites
  <1>4. ASSUME NEW t \in Tasks, CliCommand(t) PROVE Serial'
    <2>1. cli # Idle
      BY <1>4 DEF CliCommand, Idle
    <2>2. ASSUME NEW kind \in {"renew", "recover"}, LeaseReceipt(t, kind) PROVE Serial'
      <3>1. /\ cli' = [pc |-> kind, copy |-> cli.copy, task |-> t, at |-> receipts'[t][kind][cli.copy[t].version]]
            /\ UNCHANGED <<doc, branch, verifier, merger>>
        BY <2>2 DEF LeaseReceipt, git
      <3> QED BY <2>1, <3>1, IntegratedOn
              DEF Serial, SerialInv, OneProgram, IntegratingNewest, MergedIsIntegrated, Idle
    <2> QED BY <1>1, <1>4, <2>1, <2>2, CliCommandWrites, SerialCliWrites
  <1> QED BY <1>2, <1>3, <1>4

\* The document with one entry that is not called merged.
LEMMA EntryNotMerged ==
    ASSUME NEW s \in LifecycleDocuments, NEW t \in Tasks, NEW d, d.state # "MERGED"
    PROVE  \A u \in Tasks : [s EXCEPT ![t] = d][u].state = "MERGED" => s[u].state = "MERGED"
  BY DEF LifecycleDocuments

\* Steps that leave the branch alone and call no further task merged.
LEMMA SerialSameBranch ==
    ASSUME SerialInv, branch' = branch,
           \A u \in Tasks : doc'[u].state = "MERGED" => doc[u].state = "MERGED"
    PROVE  MergedIsIntegrated'
  BY IntegratedOn DEF SerialInv, MergedIsIntegrated

LEMMA SerialVerifyBegin ==
    ASSUME SerialInv, ~Overlap, NEW t \in Tasks, VerifyBegin(t), cli = Idle,
           (merger' = merger /\ merger = Idle) \/ merger'.pc = "wait"
    PROVE  Serial'
  <1> DEFINE e == Transitioned(doc[t])
             s == [doc EXCEPT ![t] = e]
  <1>1. doc \in LifecycleDocuments /\ doc[t] \in TaskStates /\ doc[t].state = "SELF_REVIEWING"
    BY DEF VerifyBegin, SerialInv, DeliveryInv, DeliveryTypes, LifecycleDocuments
  <1>2. e.state # "MERGED"
    BY <1>1, TransitionedType, DomainSuccessor DEF Protected
  <1>3. /\ doc' = s /\ verifier' = [pc |-> "testing", task |-> t, commit |-> TaskHead(t), copy |-> s]
        /\ branch' = branch /\ cli' = cli
    BY DEF VerifyBegin, git
  <1> HIDE DEF e
  <1>4. \A u \in Tasks : s[u].state = "MERGED" => doc[u].state = "MERGED"
    BY <1>1, <1>2, EntryNotMerged
  <1> HIDE DEF s
  <1>5. MergedIsIntegrated'
    BY <1>3, <1>4, SerialSameBranch
  <1>6. OneProgram' /\ IntegratingNewest'
    BY <1>3 DEF OneProgram, IntegratingNewest, Idle
  <1> QED BY <1>5, <1>6 DEF Serial

LEMMA SerialVerifyEnd ==
    ASSUME SerialInv, ~Overlap, VerifyPass \/ VerifyFail
    PROVE  Serial'
  <1> DEFINE t == verifier.task
             d == verifier.copy[t]
             e1 == [Transitioned(d) EXCEPT !.commit = verifier.commit, !.result = TaskResult(verifier.commit, d)]
             e2 == [d EXCEPT !.state = "SELF_REVIEWING", !.commit = verifier.commit, !.result = TaskResult(verifier.commit, d)]
             e3 == [d EXCEPT !.state = "SELF_REVIEWING"]
  <1>1. verifier.pc = "testing"
    BY DEF VerifyPass, VerifyFail
  <1>2. t \in Tasks /\ verifier.copy \in LifecycleDocuments /\ verifier # Idle
    BY <1>1 DEF SerialInv, DeliveryInv, DeliveryTypes, Verifier, Idle
  <1>3. d \in TaskStates /\ d.state = "VERIFYING"
    BY <1>1, <1>2 DEF SerialInv, DeliveryInv, UnderWay, LifecycleDocuments
  <1>4. verifier.copy = doc /\ cli = Idle /\ (merger = Idle \/ merger.pc = "wait")
    BY <1>2 DEF SerialInv, OneProgram
  <1>5. Transitioned(d) \in TaskStates /\ Transitioned(d).state = "VERIFIED"
    BY <1>3, TransitionedType, DomainSuccessor DEF Protected
  <1>6. e1.state = "VERIFIED" /\ e2.state = "SELF_REVIEWING" /\ e3.state = "SELF_REVIEWING"
    BY <1>3, <1>5 DEF TaskStates
  <1>7. /\ doc' \in {[verifier.copy EXCEPT ![t] = e1], [verifier.copy EXCEPT ![t] = e2], [verifier.copy EXCEPT ![t] = e3]}
        /\ verifier' = Idle /\ branch' = branch /\ cli' = cli /\ merger' = merger
    <2>1. CASE VerifyPass
      <3>1. doc' = [verifier.copy EXCEPT ![t] = IF Valid(d, d.version, now) THEN e1 ELSE e2]
        BY <2>1 DEF VerifyPass
      <3> HIDE DEF e1, e2
      <3> QED BY <2>1, <3>1 DEF VerifyPass, git
    <2>2. CASE VerifyFail
      <3>1. doc' = [verifier.copy EXCEPT ![t] = e3]
        BY <2>2 DEF VerifyFail
      <3> HIDE DEF e3
      <3> QED BY <2>2, <3>1 DEF VerifyFail, git
    <2> QED BY <2>1, <2>2
  <1> HIDE DEF e1, e2, e3
  <1>8. \A u \in Tasks : doc'[u].state = "MERGED" => doc[u].state = "MERGED"
    <2>1. CASE doc' = [verifier.copy EXCEPT ![t] = e1]
      BY <2>1, <1>2, <1>4, <1>6, EntryNotMerged
    <2>2. CASE doc' = [verifier.copy EXCEPT ![t] = e2]
      BY <2>2, <1>2, <1>4, <1>6, EntryNotMerged
    <2>3. CASE doc' = [verifier.copy EXCEPT ![t] = e3]
      BY <2>3, <1>2, <1>4, <1>6, EntryNotMerged
    <2> QED BY <1>7, <2>1, <2>2, <2>3
  <1>9. MergedIsIntegrated'
    BY <1>7, <1>8, SerialSameBranch
  <1>10. OneProgram' /\ IntegratingNewest'
    BY <1>4, <1>7 DEF OneProgram, IntegratingNewest, Idle
  <1> QED BY <1>9, <1>10 DEF Serial

\* The merge queue up to the merge.
LEMMA SerialQueueStep ==
    ASSUME SerialInv, ~Overlap,
           \/ \E t \in Tasks : Enqueue(t)
           \/ WriteQueue \/ Take \/ Rebase \/ PostRebaseReview \/ Requeue
    PROVE  Serial'
  <1>1. DeliveryInv /\ doc \in LifecycleDocuments
    BY DEF SerialInv, DeliveryInv, DeliveryTypes
  <1>2. ASSUME NEW t \in Tasks, Enqueue(t) PROVE Serial'
    <2>1. doc[t] \in TaskStates /\ doc[t].state = "VERIFIED" /\ cli = Idle /\ verifier = Idle
      BY <1>1, <1>2 DEF Enqueue, MayStart, LifecycleDocuments
    <2>2. Transitioned(doc[t]).state # "MERGED"
      BY <2>1, TransitionedType, DomainSuccessor DEF Protected
    <2>3. /\ doc' = [doc EXCEPT ![t] = Transitioned(doc[t])] /\ merger'.pc = "save"
          /\ UNCHANGED <<branch, cli, verifier>>
      BY <1>2 DEF Enqueue, git
    <2>4. MergedIsIntegrated'
      BY <1>1, <2>2, <2>3, EntryNotMerged, SerialSameBranch
    <2> QED BY <2>1, <2>3, <2>4 DEF Serial, OneProgram, IntegratingNewest
  <1>3. CASE WriteQueue
    <2>1. merger.pc = "save" /\ merger' = Idle /\ UNCHANGED <<doc, branch, cli, verifier>>
      BY <1>3 DEF WriteQueue, git
    <2>2. cli = Idle /\ verifier = Idle
      BY <2>1 DEF SerialInv, OneProgram, Idle
    <2> QED BY <2>1, <2>2, SerialSameBranch DEF Serial, OneProgram, IntegratingNewest, Idle
  <1>4. CASE Take
    <2>1. /\ merger' = [pc |-> merger'.pc, task |-> merger'.task, item |-> merger'.item, at |-> now, copy |-> doc]
          /\ merger'.pc \in {"merge", "rebase"}
          /\ cli = Idle /\ verifier = Idle /\ UNCHANGED <<doc, branch, cli, verifier>>
      BY <1>4 DEF Take, MayStart, git
    <2> QED BY <2>1, SerialSameBranch DEF Serial, OneProgram, IntegratingNewest
  <1>5. CASE Rebase \/ PostRebaseReview \/ Requeue
    <2> DEFINE t == merger.task
               d == merger.copy[t]
    <2>1. merger.pc \in {"rebase", "review", "wait"} /\ merger # Idle
      BY <1>5 DEF Rebase, PostRebaseReview, Requeue, Idle
    <2>2. /\ merger \in [pc : {"rebase", "review", "verify", "wait", "merge", "integrate", "reverted"},
                         task : Tasks, item : Nat, at : Nat, copy : LifecycleDocuments]
          /\ t \in Tasks /\ d \in TaskStates
      BY <1>1, <2>1, MergerWork
    <2>3. cli = Idle /\ verifier = Idle
      BY <1>5, <2>1 DEF SerialInv, OneProgram, Rebase, PostRebaseReview, Requeue
    <2>4. CASE Rebase
      <3> DEFINE c == IF Integrated(t) THEN None ELSE [TaskHead(t) EXCEPT !.base = Position]
                 e == Reset(d, c)
                 s == [merger.copy EXCEPT ![t] = e]
      <3>1. /\ doc' = s /\ merger' = [merger EXCEPT !.pc = "review", !.copy = s]
            /\ UNCHANGED <<branch, cli, verifier>> /\ merger.copy = doc
        BY <2>4 DEF Rebase, SerialInv, OneProgram
      <3>2. e.state # "MERGED"
        BY <2>2 DEF Reset, TaskStates
      <3> HIDE DEF e
      <3>3. MergedIsIntegrated'
        BY <1>1, <2>2, <3>1, <3>2, EntryNotMerged, SerialSameBranch
      <3> HIDE DEF s
      <3>4. merger'.pc = "review" /\ merger'.copy = s
        BY <2>2, <3>1
      <3> QED BY <2>3, <3>1, <3>3, <3>4 DEF Serial, OneProgram, IntegratingNewest
    <2>5. CASE PostRebaseReview
      <3> DEFINE e == [d EXCEPT !.review = RebasedReview(t, d)]
                 s == [merger.copy EXCEPT ![t] = e]
      <3>1. /\ doc' = s /\ merger' = [merger EXCEPT !.pc = "verify", !.copy = s]
            /\ UNCHANGED <<branch, cli, verifier>> /\ merger.copy = doc
        BY <2>5 DEF PostRebaseReview, SerialInv, OneProgram, git
      <3>2. e.state = doc[t].state
        BY <2>2, <3>1 DEF TaskStates
      <3> HIDE DEF e
      <3>3. \A u \in Tasks : s[u].state = doc[u].state
        BY <1>1, <2>2, <3>1, <3>2 DEF LifecycleDocuments
      <3> HIDE DEF s
      <3>4. MergedIsIntegrated'
        BY <3>1, <3>3, SerialSameBranch
      <3>5. merger'.pc = "verify" /\ merger'.copy = s
        BY <2>2, <3>1
      <3> QED BY <2>3, <3>1, <3>4, <3>5 DEF Serial, OneProgram, IntegratingNewest
    <2>6. CASE Requeue
      <3>1. doc[t] \in TaskStates /\ doc[t].state = "VERIFIED"
        BY <1>1, <2>2, <2>6 DEF Requeue, LifecycleDocuments
      <3>2. Transitioned(doc[t]).state # "MERGED"
        BY <3>1, TransitionedType, DomainSuccessor DEF Protected
      <3>3. /\ doc' = [doc EXCEPT ![t] = Transitioned(doc[t])] /\ merger' = [merger EXCEPT !.pc = "merge"]
            /\ UNCHANGED <<branch, cli, verifier>>
        BY <2>6 DEF Requeue, git
      <3>4. MergedIsIntegrated'
        BY <1>1, <2>2, <3>2, <3>3, EntryNotMerged, SerialSameBranch
      <3>5. merger'.pc = "merge"
        BY <2>2, <3>3
      <3> QED BY <2>3, <3>3, <3>4, <3>5 DEF Serial, OneProgram, IntegratingNewest
    <2> QED BY <1>5, <2>4, <2>5, <2>6
  <1> QED BY <1>2, <1>3, <1>4, <1>5

\* The merge, and how its integration ends.
LEMMA SerialMergeStep ==
    ASSUME SerialInv, ~Overlap, Merge \/ IntegrationPass \/ RevertMerge \/ IntegrationFail
    PROVE  Serial'
  <1> DEFINE t == merger.task
  <1>1. DeliveryInv /\ doc \in LifecycleDocuments /\ branch \in Seq(Entries)
    BY DEF SerialInv, DeliveryInv, DeliveryTypes
  <1>2. merger.pc \in {"merge", "integrate", "reverted"} /\ merger # Idle
    BY DEF Merge, IntegrationPass, RevertMerge, IntegrationFail, Idle
  <1>3. /\ merger \in [pc : {"rebase", "review", "verify", "wait", "merge", "integrate", "reverted"},
                       task : Tasks, item : Nat, at : Nat, copy : LifecycleDocuments]
        /\ t \in Tasks
    BY <1>1, <1>2, MergerWork
  <1>4. cli = Idle /\ verifier = Idle
    BY <1>2 DEF SerialInv, OneProgram
  <1>5. CASE Merge
    <2> DEFINE c == TaskHead(t)
    <2>1. c \in Commits /\ c.task = t
      BY <1>1, <1>3, <1>5, MergedHasPassed DEF Merge, MayMerge
    <2>2. /\ branch' = Append(branch, [kind |-> "merge", commit |-> c])
          /\ merger' = [merger EXCEPT !.pc = "integrate", !.copy = doc]
          /\ doc[t].state = "MERGE_QUEUED" /\ UNCHANGED <<doc, cli, verifier>>
      BY <1>5 DEF Merge, MayMerge
    <2> HIDE DEF c
    <2>3. merger'.pc = "integrate" /\ merger'.copy = doc /\ merger'.task = t
      BY <1>3, <2>2
    <2>4. branch' # <<>> /\ branch'[Len(branch')].kind = "merge" /\ branch'[Len(branch')].commit = c
      BY <1>1, <2>1, <2>2, AppendEntry
    <2>5. MergedIsIntegrated'
      BY <1>1, <2>1, <2>2, OnAppend, IntegratedOn DEF SerialInv, MergedIsIntegrated
    <2> QED BY <1>4, <2>1, <2>2, <2>3, <2>4, <2>5 DEF Serial, OneProgram, IntegratingNewest
  <1>6. ASSUME merger.pc = "integrate"
        PROVE  /\ merger.copy = doc /\ branch # <<>> /\ branch[Len(branch)].kind = "merge"
               /\ branch[Len(branch)].commit.task = t /\ branch[Len(branch)].commit \in Commits
               /\ On(branch, t)
    <2>1. /\ merger.copy = doc /\ branch # <<>> /\ branch[Len(branch)].kind = "merge"
          /\ branch[Len(branch)].commit.task = t
      BY <1>6 DEF SerialInv, OneProgram, IntegratingNewest
    <2>2. Len(branch) \in DOMAIN branch /\ \A j \in DOMAIN branch : j <= Len(branch)
      BY <1>1, <2>1
    <2>3. branch[Len(branch)] \in Entries
      BY <1>1, <2>2
    <2> QED BY <2>1, <2>2, <2>3 DEF On, Entries
  <1>7. CASE IntegrationPass
    <2> DEFINE e == Transitioned(merger.copy[t])
               s == [merger.copy EXCEPT ![t] = e]
    <2>1. merger.pc = "integrate" /\ doc' = Refreshed(s) /\ merger'.pc = "save" /\ UNCHANGED <<branch, cli, verifier>>
      BY <1>7 DEF IntegrationPass, Saving, git
    <2>2. e \in TaskStates
      BY <1>1, <1>2, <1>7, MergerWork, TransitionedType, DomainSuccessor DEF IntegrationPass, Valid
    <2> HIDE DEF e
    <2>3. s \in LifecycleDocuments /\ \A u \in Tasks \ {t} : s[u] = doc[u]
      BY <1>1, <1>3, <1>6, <2>1, <2>2, EntryType DEF LifecycleDocuments
    <2> HIDE DEF s
    <2>4. \A u \in Tasks \ {t} : doc'[u].state = "MERGED" => doc[u].state = "MERGED"
      BY <2>1, <2>3, RefreshedType
    <2>5. On(branch, t)
      BY <1>6, <2>1
    <2>6. MergedIsIntegrated'
      BY <2>1, <2>4, <2>5, IntegratedOn DEF SerialInv, MergedIsIntegrated
    <2> QED BY <1>4, <2>1, <2>6 DEF Serial, OneProgram, IntegratingNewest, Idle
  <1>8. CASE RevertMerge
    <2> DEFINE c == branch[Len(branch)].commit
    <2>1. merger.pc = "integrate" /\ GitRevert /\ merger' = [merger EXCEPT !.pc = "reverted"]
          /\ UNCHANGED <<doc, cli, verifier>>
      BY <1>8 DEF RevertMerge
    <2>2. branch' = Append(branch, [kind |-> "revert", commit |-> c]) /\ c \in Commits /\ c.task = t
      BY <1>1, <1>6, <2>1, RevertedBranch
    <2>3. merger'.pc = "reverted" /\ merger'.copy = doc
      BY <1>3, <1>6, <2>1
    <2>4. doc[t].state # "MERGED"
      BY <2>1 DEF SerialInv, IntegratingNewest
    <2> HIDE DEF c
    <2>5. MergedIsIntegrated'
      BY <1>1, <2>1, <2>2, <2>4, OnAppend, IntegratedOn DEF SerialInv, MergedIsIntegrated
    <2> QED BY <1>4, <2>1, <2>3, <2>5 DEF Serial, OneProgram, IntegratingNewest
  <1>9. CASE IntegrationFail
    <2> DEFINE e == Reverted(merger.copy[t])
    <2>1. /\ merger.pc = "reverted" /\ doc' = [merger.copy EXCEPT ![t] = e] /\ merger'.pc = "save"
          /\ UNCHANGED <<branch, cli, verifier>>
      BY <1>9 DEF IntegrationFail, Saving, git
    <2>2. merger.copy = doc
      BY <2>1 DEF SerialInv, OneProgram
    <2>3. e.state = "REVERTED"
      BY <1>1, <1>2, MergerWork DEF Reverted, TaskStates
    <2> HIDE DEF e
    <2>4. MergedIsIntegrated'
      BY <1>1, <1>3, <2>1, <2>2, <2>3, EntryNotMerged, SerialSameBranch
    <2> QED BY <1>4, <2>1, <2>4 DEF Serial, OneProgram, IntegratingNewest
  <1> QED BY <1>5, <1>7, <1>8, <1>9

LEMMA SerialRetryStep ==
    ASSUME SerialInv, ~Overlap, (\E t \in Tasks : RetryIntegration(t)) \/ RetryPasses \/ RetryFails
    PROVE  Serial'
  <1>1. DeliveryInv /\ doc \in LifecycleDocuments /\ branch \in Seq(Entries)
    BY DEF SerialInv, DeliveryInv, DeliveryTypes
  <1>2. ASSUME NEW t \in Tasks, RetryIntegration(t) PROVE Serial'
    <2> DEFINE c == doc[t].commit
    <2>1. c \in Commits /\ c.task = t
      BY <1>1, <1>2 DEF RetryIntegration, Latest, DeliveryInv, DeliveryTypes, EvidenceIsPassed
    <2>2. /\ branch' = Append(branch, [kind |-> "merge", commit |-> c])
          /\ merger' = [pc |-> "retry", task |-> t, copy |-> doc] /\ doc[t].state = "REVERTED"
          /\ cli = Idle /\ verifier = Idle /\ UNCHANGED <<doc, cli, verifier>>
      BY <1>2 DEF RetryIntegration, MayStart
    <2> HIDE DEF c
    <2>3. branch' # <<>> /\ branch'[Len(branch')].kind = "merge" /\ branch'[Len(branch')].commit = c
      BY <1>1, <2>1, <2>2, AppendEntry
    <2>4. MergedIsIntegrated'
      BY <1>1, <2>1, <2>2, OnAppend, IntegratedOn DEF SerialInv, MergedIsIntegrated
    <2> QED BY <2>1, <2>2, <2>3, <2>4 DEF Serial, OneProgram, IntegratingNewest
  <1>3. ASSUME merger.pc = "retry"
        PROVE  /\ merger.task \in Tasks /\ merger.copy = doc /\ branch # <<>> /\ cli = Idle /\ verifier = Idle
               /\ branch[Len(branch)].kind = "merge" /\ branch[Len(branch)].commit.task = merger.task
               /\ doc[merger.task].state # "MERGED"
    BY <1>3 DEF SerialInv, DeliveryInv, DeliveryTypes, OneProgram, IntegratingNewest, Merger, Idle
  <1>4. CASE RetryPasses
    <2> DEFINE t == merger.task
               e == [doc[t] EXCEPT !.state = "MERGED"]
               s == [doc EXCEPT ![t] = e]
    <2>1. merger.pc = "retry" /\ merger' = Idle /\ doc' = Refreshed(s) /\ UNCHANGED <<branch, cli, verifier>>
      BY <1>3, <1>4 DEF RetryPasses, git
    <2>2. e \in TaskStates
      BY <1>1, <1>3, <2>1 DEF TaskStates, States, LifecycleDocuments
    <2> HIDE DEF e
    <2>3. s \in LifecycleDocuments /\ \A u \in Tasks \ {t} : s[u] = doc[u]
      BY <1>1, <1>3, <2>1, <2>2, EntryType DEF LifecycleDocuments
    <2> HIDE DEF s
    <2>4. \A u \in Tasks \ {t} : doc'[u].state = "MERGED" => doc[u].state = "MERGED"
      BY <2>1, <2>3, RefreshedType
    <2>5. On(branch, t)
      <3>1. Len(branch) \in DOMAIN branch /\ \A j \in DOMAIN branch : j <= Len(branch)
        BY <1>1, <1>3, <2>1
      <3> QED BY <1>3, <2>1, <3>1 DEF On
    <2>6. MergedIsIntegrated'
      BY <2>1, <2>4, <2>5, IntegratedOn DEF SerialInv, MergedIsIntegrated
    <2> QED BY <1>3, <2>1, <2>6 DEF Serial, OneProgram, IntegratingNewest, Idle
  <1>5. CASE RetryFails
    <2> DEFINE c == branch[Len(branch)].commit
    <2>1. merger.pc = "retry" /\ merger' = Idle /\ GitRevert /\ UNCHANGED <<doc, cli, verifier>>
      BY <1>5 DEF RetryFails
    <2>2. branch' = Append(branch, [kind |-> "revert", commit |-> c]) /\ c \in Commits /\ c.task = merger.task
      BY <1>1, <1>3, <2>1, RevertedBranch
    <2> HIDE DEF c
    <2>3. MergedIsIntegrated'
      BY <1>1, <1>3, <2>1, <2>2, OnAppend, IntegratedOn DEF SerialInv, MergedIsIntegrated
    <2> QED BY <1>3, <2>1, <2>3 DEF Serial, OneProgram, IntegratingNewest, Idle
  <1> QED BY <1>2, <1>4, <1>5

LEMMA SerialInvStep ==
    ASSUME ~Overlap
    PROVE  SerialInv /\ [DeliveryNext]_deliveryVars => SerialInv'
  <1> SUFFICES ASSUME SerialInv, [DeliveryNext]_deliveryVars PROVE Serial'
    BY DeliveryInvStep DEF SerialInv, Serial
  <1>1. CASE UNCHANGED <<doc, branch, cli, verifier, merger>>
    BY <1>1, IntegratedOn DEF SerialInv, Serial, OneProgram, IntegratingNewest, MergedIsIntegrated
  <1>2. CASE \E t \in Tasks : CreateWorktree(t) \/ CleanupWorktree(t) \/ AgentCommits(t)
    BY <1>1, <1>2 DEF CreateWorktree, CleanupWorktree, AgentCommits
  <1>3. CASE Tick \/ UNCHANGED deliveryVars
    BY <1>1, <1>3 DEF Tick, deliveryVars, git
  <1>4. ASSUME NEW t \in Tasks, MayStart({cli, merger}), VerifyBegin(t), UNCHANGED merger PROVE Serial'
    BY <1>4, SerialVerifyBegin DEF MayStart
  <1>5. CASE Reverify
    <2>1. merger.pc = "verify" /\ merger # Idle
      BY <1>5 DEF Reverify, Idle
    <2>2. /\ merger \in [pc : {"rebase", "review", "verify", "wait", "merge", "integrate", "reverted"},
                         task : Tasks, item : Nat, at : Nat, copy : LifecycleDocuments]
          /\ merger.task \in Tasks
      BY <2>1, MergerWork DEF SerialInv
    <2>3. cli = Idle
      BY <2>1 DEF SerialInv, OneProgram
    <2>4. merger'.pc = "wait" /\ VerifyBegin(merger.task)
      BY <1>5, <2>2 DEF Reverify
    <2> QED BY <2>2, <2>3, <2>4, SerialVerifyBegin
  <1>6. CASE MergerThrows \/ ProgramDies
    <2>1. /\ UNCHANGED <<doc, branch>>
          /\ cli' \in {cli, Idle} /\ verifier' \in {verifier, Idle} /\ merger' \in {merger, Idle}
      BY <1>6 DEF MergerThrows, ProgramDies, git
    <2>2. MergedIsIntegrated'
      BY <2>1, SerialSameBranch
    <2> QED BY <2>1, <2>2 DEF SerialInv, Serial, OneProgram, IntegratingNewest, Idle
  <1>7. CASE (\E t \in Tasks : CliCommand(t)) \/ CliOpen \/ Renew \/ Recover
    BY <1>7, SerialCliStep
  <1>8. CASE VerifyPass \/ VerifyFail
    BY <1>8, SerialVerifyEnd
  <1>9. CASE (\E t \in Tasks : Enqueue(t)) \/ WriteQueue \/ Take \/ Rebase \/ PostRebaseReview \/ Requeue
    BY <1>9, SerialQueueStep
  <1>10. CASE Merge \/ IntegrationPass \/ RevertMerge \/ IntegrationFail
    BY <1>10, SerialMergeStep
  <1>11. CASE (\E t \in Tasks : RetryIntegration(t)) \/ RetryPasses \/ RetryFails
    BY <1>11, SerialRetryStep
  <1> QED
    BY <1>2, <1>3, <1>4, <1>5, <1>6, <1>7, <1>8, <1>9, <1>10, <1>11 DEF DeliveryNext

(***************************************************************************)
(* With one program at a time, a task the lifecycle calls MERGED is on the *)
(* cluster branch and not reverted, over every rebase, failed integration, *)
(* retry and death (merge-queue process and retry-integration).            *)
(***************************************************************************)
THEOREM MergedStaysIntegrated ==
    ASSUME ~Overlap
    PROVE  DeliverySpec => []MergedIsIntegrated
  <1>1. DeliverySpec => []SerialInv
    BY SerialInvInit, SerialInvStep, PTL DEF DeliverySpec
  <1> QED BY <1>1, PTL DEF SerialInv

-----------------------------------------------------------------------------
(* Orchestrator.                                                            *)

CommitRecords == [id : 0..MaxCommits, kind : {"main", "product", "review", "foreign"},
                  of : 0..MaxCommits, pass : BOOLEAN]
Branches == Seq(CommitRecords)
ClusterRecords == [local : Branches, remote : Branches, worktree : BOOLEAN,
                   dirty : BOOLEAN, result : 0..MaxCommits,
                   pr : {"none", "open", "merged", "closed"},
                   checks : {"pending", "pass", "fail"}, repairs : 0..MaxRepairs]
ProjectRecords == [cdeps : [Clusters -> SUBSET Clusters],
                   tdeps : [PlannedTasks -> SUBSET PlannedTasks],
                   gaps : SUBSET PlannedTasks,
                   method : {"merge", "squash", "rebase"}]
OpenWindows == [open : {TRUE}, cluster : Clusters, seen : Branches]

\* The types the proofs need, the shared branches included.
AutopilotTypes ==
    /\ project \in ProjectRecords /\ ClusterOf \in [PlannedTasks -> Clusters]
    /\ task \in [PlannedTasks -> TaskRecords]
    /\ cluster \in [Clusters -> ClusterRecords]
    /\ main \subseteq CommitRecords
    /\ rootReview \in [Clusters -> BOOLEAN]
    /\ window \in OpenWindows \cup {NoWindow}
    /\ autopilot \in {"running", "stopped", "awaiting", "complete"}
    /\ commits \in 0..MaxCommits
    /\ landed \in [Clusters -> Branches]

\* A worktree has a branch, and what was pushed was local first.
BranchesStand ==
    \A c \in Clusters : cluster[c].worktree \/ cluster[c].remote # <<>> => cluster[c].local # <<>>

\* The commits of a cluster, on either side.
Held(r) == Range(r.local) \cup Range(r.remote)

\* A review commit is on the branch of one cluster only, and gets into main by
\* a merge of that cluster's pull request only.
Numbered ==
    /\ \A x \in main : x.id <= commits
    /\ \A c \in Clusters : \A x \in Held(cluster[c]) : x.id <= commits
ReviewsAreOwn ==
    /\ \A c \in Clusters : \A x \in Held(cluster[c]) :
          x.kind = "review" /\ x \in main => cluster[c].pr = "merged"
    /\ \A c, d \in Clusters : \A x \in Held(cluster[c]) \cap Held(cluster[d]) :
          x.kind = "review" => c = d

ResultsAreAccepted ==
    \A c \in Clusters : cluster[c].result # 0 => cluster[c].result \in accepted

\* Between the report and the merge the local branch is the reviewed one.
WindowIsReviewed ==
    window.open =>
        LET b == cluster[window.cluster].local
        IN /\ ReviewedAt(b, b[Len(b) - 1].id) /\ b[Len(b) - 1].id \in accepted
           /\ ~ PushInWindow => cluster[window.cluster].remote = b

LandedOnce == \A c \in Clusters : landed[c] # <<>> => cluster[c].pr = "merged"

\* The inductive invariant.
AutopilotInv ==
    /\ AutopilotTypes /\ BranchesStand /\ Numbered /\ ReviewsAreOwn
    /\ ResultsAreAccepted /\ WindowIsReviewed /\ LandedOnce
    /\ WorkRestsOnIntegratedClusters
-----------------------------------------------------------------------------
(* Facts about the operators of the model.                                 *)

\* A set of naturals that is not empty has a least element.
LEMMA LeastIndex ==
    ASSUME NEW S, S # {}, S \subseteq Nat
    PROVE  \E x \in S : \A y \in S : x <= y
  <1>1. PICK x \in S : \A y \in S : ~(<<y, x>> \in OpToRel(<, Nat))
    BY NatLessThanWellFounded, WFMin
  <1>2. \A y \in S : ~(y < x)
    BY <1>1 DEF OpToRel
  <1> QED BY <1>2

\* The first of what is ready is ready.
LEMMA FirstOfIsReady ==
    ASSUME NEW X, NEW order \in Seq(X), NEW ready, ready # {}, ready \subseteq Range(order)
    PROVE  FirstOf(order, ready) \in ready
  <1> DEFINE D == {i \in DOMAIN order : order[i] \in ready}
  <1>1. D \subseteq Nat /\ D # {}
    BY DEF Range
  <1>2. PICK i \in D : \A j \in D : i <= j
    BY <1>1, LeastIndex
  <1>3. \E i2 \in DOMAIN order : /\ order[i2] \in ready
                                 /\ \A j \in DOMAIN order : order[j] \in ready => i2 <= j
    BY <1>2
  <1> QED BY <1>3 DEF FirstOf

LEMMA LastCommit ==
    ASSUME NEW b \in Branches, b # <<>>
    PROVE  Last(b) \in CommitRecords /\ Last(b) \in Range(b)
  BY DEF Branches, Last, Range

LEMMA AppendCommit ==
    ASSUME NEW b \in Branches, NEW x \in CommitRecords
    PROVE  /\ Append(b, x) \in Branches /\ Append(b, x) # <<>>
           /\ \A y \in Range(Append(b, x)) : y \in Range(b) \/ y = x
  BY DEF Branches, Range

LEMMA FrontOfBranch ==
    ASSUME NEW b \in Branches, Len(b) > 1
    PROVE  Front(b) \in Branches /\ Front(b) # <<>> /\ Range(Front(b)) \subseteq Range(b)
  <1>1. Len(b) - 1 \in 1..Len(b)
    BY DEF Branches
  <1>2. /\ Front(b) \in Branches /\ Len(Front(b)) = Len(b) - 1
        /\ \A i \in 1..(Len(b) - 1) : Front(b)[i] = b[i]
    BY <1>1 DEF Front, Branches
  <1>3. Range(Front(b)) \subseteq Range(b)
    BY <1>1, <1>2 DEF Range, Branches
  <1> QED BY <1>1, <1>2, <1>3

LEMMA FreshCommitType ==
    ASSUME AutopilotTypes, Fresh, NEW kind \in {"main", "product", "review", "foreign"},
           NEW of \in 0..MaxCommits, NEW pass \in BOOLEAN
    PROVE  /\ FreshCommit(kind, of, pass) \in CommitRecords
           /\ FreshCommit(kind, of, pass).id = commits + 1
           /\ FreshCommit(kind, of, pass).kind = kind
           /\ commits' = commits + 1 /\ commits' \in 0..MaxCommits
  BY AutopilotAssumption DEF AutopilotTypes, Fresh, FreshCommit, CommitRecords

\* What the merge of a pull request does to main.
LEMMA LandsOnMain ==
    ASSUME AutopilotTypes, NEW c \in Clusters, Lands(c)
    PROVE  /\ main \subseteq main' /\ main' \subseteq CommitRecords
           /\ \A x \in main' : x \in main \/ x \in Range(cluster[c].remote)
           /\ rootReview' \in [Clusters -> BOOLEAN]
  <1>1. cluster[c].remote \in Branches
    BY DEF AutopilotTypes, ClusterRecords
  <1>2. Range(cluster[c].remote) \subseteq CommitRecords
    BY <1>1 DEF Range, Branches
  <1>3. main' = main \/ main' = main \cup Range(cluster[c].remote)
    BY DEF Lands
  <1>4. rootReview' \in [Clusters -> BOOLEAN]
    BY DEF Lands, AutopilotTypes
  <1> QED BY <1>2, <1>3, <1>4 DEF AutopilotTypes
-----------------------------------------------------------------------------
(* Tasks.                                                                  *)

LEMMA WithoutLeaseType ==
    ASSUME NEW state \in Active \cup Inactive
    PROVE  WithoutLease(state) \in TaskRecords /\ WithoutLease(state).state = state
  BY AutopilotAssumption DEF WithoutLease, TaskRecords, NoWorktree

LEMMA WorktreesType ==
    ASSUME NEW s \in TaskRecords, NEW w \in Worktrees(s)
    PROVE  w \in TaskRecords /\ w.state = s.state
  <1>1. ASSUME NEW e \in Edits, w = [s EXCEPT !.dirty = e.dirty, !.attached = e.attached]
        PROVE  w \in TaskRecords /\ w.state = s.state
    BY <1>1 DEF TaskRecords, Edits
  <1>2. ASSUME NEW e \in Edits,
               w = [s EXCEPT !.dirty = e.dirty, !.ahead = e.ahead,
                             !.attached = e.attached, !.bound = FALSE]
        PROVE  w \in TaskRecords /\ w.state = s.state
    BY <1>2 DEF TaskRecords, Edits
  <1> QED BY <1>1, <1>2 DEF Worktrees

LEMMA CorrectedType ==
    ASSUME NEW s \in TaskRecords, NEW w \in Corrected(s)
    PROVE  w \in TaskRecords /\ w.state = s.state
  <1> DEFINE counted == [s EXCEPT !.rounds = IF @ < MaxCorrections THEN @ + 1 ELSE @]
  <1>1. counted \in TaskRecords /\ counted.state = s.state
    <2>1. (IF s.rounds < MaxCorrections THEN s.rounds + 1 ELSE s.rounds) \in 0..MaxCorrections
      BY AutopilotAssumption DEF TaskRecords
    <2>2. \A n \in 0..MaxCorrections : /\ [s EXCEPT !.rounds = n] \in TaskRecords
                                       /\ [s EXCEPT !.rounds = n].state = s.state
      BY DEF TaskRecords
    <2> QED BY <2>1, <2>2
  <1>2. PICK v \in Worktrees(counted) :
            w = [v EXCEPT !.receipt = @ \/ s.state = "IMPLEMENTING"]
    BY DEF Corrected
  <1> HIDE DEF counted
  <1>3. v \in TaskRecords /\ v.state = s.state
    BY <1>1, WorktreesType
  <1> QED BY <1>2, <1>3 DEF TaskRecords

LEMMA LaunchedType ==
    ASSUME NEW s \in TaskRecords, s.state \in Active, NEW w \in Launched(s)
    PROVE  w \in TaskRecords /\ w.state \in Active
  <1> DEFINE begun == Begun(Receipted(s))
  <1>1. begun \in TaskRecords /\ begun.state \in Active
    BY DEF Begun, Receipted, TaskRecords, Active
  <1>2. w = begun \/ w = s \/ \E v \in Worktrees(begun) : w = CheckpointReconciled(v)
    BY DEF Launched
  <1> HIDE DEF begun
  <1>3. ASSUME NEW v \in Worktrees(begun), w = CheckpointReconciled(v)
        PROVE  w \in TaskRecords /\ w.state \in Active
    <2>1. v \in TaskRecords /\ v.state \in Active
      BY <1>1, WorktreesType
    <2> QED BY <1>3, <2>1 DEF CheckpointReconciled, TaskRecords, Active
  <1> QED BY <1>1, <1>2, <1>3
-----------------------------------------------------------------------------
(* What a step of any action comes to.                                     *)

Working == Active \cup {"MERGED"}
RestsOnComplete(t) ==
    \A d \in project.cdeps[ClusterOf[t]] : ClusterState(d) = "COMPLETE"

\* Tasks: work starts on complete clusters only, and a merged task stays merged.
TaskStep ==
    /\ task' \in [PlannedTasks -> TaskRecords]
    /\ \A t \in PlannedTasks : /\ task'[t].state \in Working =>
                                     task[t].state \in Working \/ RestsOnComplete(t)
                               /\ task[t].state = "MERGED" => task'[t].state = "MERGED"

LEMMA SameTasks ==
    ASSUME AutopilotTypes, UNCHANGED task
    PROVE  TaskStep
  BY DEF TaskStep, AutopilotTypes

LEMMA OneTask ==
    ASSUME AutopilotTypes, NEW t \in PlannedTasks, NEW w \in TaskRecords,
           task' = [task EXCEPT ![t] = w], task[t].state # "MERGED" \/ w.state = "MERGED",
           w.state \in Working => task[t].state \in Working \/ RestsOnComplete(t)
    PROVE  TaskStep
  <1>1. task' \in [PlannedTasks -> TaskRecords]
    BY DEF AutopilotTypes
  <1>2. \A u \in PlannedTasks : task'[u] = IF u = t THEN w ELSE task[u]
    BY DEF AutopilotTypes
  <1> QED BY <1>1, <1>2 DEF TaskStep

\* When a cluster is complete.
LEMMA CompleteCluster ==
    ASSUME BranchesStand, NEW c \in Clusters
    PROVE  /\ ClusterState(c) = "COMPLETE" =>
                 /\ cluster[c].local # <<>> /\ Last(cluster[c].local) \in main
                 /\ AllMerged(c)
  BY DEF BranchesStand, ClusterState, MergedIntoTarget, BranchHead

LEMMA WorkStep ==
    ASSUME AutopilotInv, TaskStep, project' \in ProjectRecords,
           project'.cdeps = project.cdeps, main \subseteq main',
           \A c \in Clusters : ClusterState(c) = "COMPLETE" => cluster'[c].local = cluster[c].local
    PROVE  WorkRestsOnIntegratedClusters'
  <1>1. ASSUME NEW c \in Clusters, ClusterState(c) = "COMPLETE"
        PROVE  ClusterState(c)' = "COMPLETE"
    <2>1. /\ cluster[c].local # <<>> /\ Last(cluster[c].local) \in main /\ AllMerged(c)
          /\ cluster'[c].local = cluster[c].local
      BY <1>1, CompleteCluster DEF AutopilotInv
    <2>2. AllMerged(c)'
      BY <2>1 DEF AllMerged, TaskStep, TasksOf
    <2>3. MergedIntoTarget(c)'
      BY <2>1 DEF MergedIntoTarget, BranchHead
    <2> QED BY <2>2, <2>3 DEF ClusterState
  <1>2. ASSUME NEW t \in PlannedTasks, task'[t].state \in Working
        PROVE  \A d \in project'.cdeps[ClusterOf[t]] : ClusterState(d)' = "COMPLETE"
    <2>1. RestsOnComplete(t)
      BY <1>2 DEF TaskStep, RestsOnComplete, AutopilotInv, WorkRestsOnIntegratedClusters, Working
    <2>2. ClusterOf[t] \in Clusters /\ project.cdeps[ClusterOf[t]] \subseteq Clusters
      BY DEF AutopilotInv, AutopilotTypes, ProjectRecords
    <2> QED BY <1>1, <2>1, <2>2 DEF RestsOnComplete
  <1> QED BY <1>2 DEF WorkRestsOnIntegratedClusters, Working

\* A step that leaves branches and main alone.
LEMMA StillStep ==
    ASSUME AutopilotInv, TaskStep,
           UNCHANGED <<project, cluster, main, commits, accepted, landed>>,
           rootReview' \in [Clusters -> BOOLEAN], window' = window \/ window' = NoWindow,
           autopilot' \in {"running", "stopped", "awaiting", "complete"}
    PROVE  AutopilotInv'
  <1>1. AutopilotTypes'
    BY DEF AutopilotInv, AutopilotTypes, TaskStep
  <1>2. BranchesStand' /\ Numbered' /\ ReviewsAreOwn' /\ ResultsAreAccepted' /\ LandedOnce'
    BY DEF AutopilotInv, BranchesStand, Numbered, ReviewsAreOwn, ResultsAreAccepted, LandedOnce
  <1>3. WindowIsReviewed'
    BY DEF AutopilotInv, WindowIsReviewed, NoWindow
  <1>4. WorkRestsOnIntegratedClusters'
    BY WorkStep DEF AutopilotInv, AutopilotTypes
  <1> QED BY <1>1, <1>2, <1>3, <1>4 DEF AutopilotInv

\* Commits get on the branch of one cluster as fresh ones or from main, and into main as
\* fresh ones of main or with that cluster's pull request.
CommitStep(c, r) ==
    /\ commits' \in 0..MaxCommits /\ commits' \in {commits, commits + 1}
    /\ main \subseteq main' /\ main' \subseteq CommitRecords
    /\ \A x \in main' : \/ x \in main
                        \/ commits' = commits + 1 /\ x.id = commits' /\ x.kind = "main"
                        \/ x \in Range(cluster[c].remote) /\ r.pr = "merged"
    /\ \A x \in Held(r) : \/ x \in Held(cluster[c]) \/ x = MainCommit
                          \/ commits' = commits + 1 /\ x.id = commits'

LEMMA OwnStep ==
    ASSUME AutopilotInv, NEW c \in Clusters, NEW r \in ClusterRecords,
           cluster' = [cluster EXCEPT ![c] = r], CommitStep(c, r),
           cluster[c].pr = "merged" => r.pr = "merged"
    PROVE  Numbered' /\ ReviewsAreOwn'
  <1>0. MainCommit.id = 0 /\ MainCommit.kind = "main"
    BY DEF MainCommit
  <1>1. \A d \in Clusters : cluster'[d] = IF d = c THEN r ELSE cluster[d]
    BY DEF AutopilotInv, AutopilotTypes
  <1>2. /\ commits \in Nat /\ commits' \in Nat /\ commits <= commits'
        /\ \A x \in main : x.id <= commits
        /\ \A d \in Clusters : \A x \in Held(cluster[d]) : x.id <= commits /\ x.id \in Nat
    <2>1. \A d \in Clusters : \A x \in Held(cluster[d]) : x \in CommitRecords
      BY DEF AutopilotInv, AutopilotTypes, ClusterRecords, Held, Range, Branches
    <2> QED BY <2>1, AutopilotAssumption DEF AutopilotInv, AutopilotTypes, Numbered, CommitStep, CommitRecords
  <1>3. \A x \in Range(cluster[c].remote) : x \in Held(cluster[c])
    BY DEF Held
  <1>4. \A x \in main : x.id \in Nat
    BY AutopilotAssumption DEF AutopilotInv, AutopilotTypes, CommitRecords
  <1>5. Numbered'
    <2>1. \A x \in main' : x.id <= commits'
      BY <1>2, <1>3, <1>4 DEF CommitStep
    <2>2. \A d \in Clusters : \A x \in Held(cluster'[d]) : x.id <= commits'
      BY <1>0, <1>1, <1>2 DEF CommitStep
    <2> QED BY <2>1, <2>2 DEF Numbered
  <1>6. ASSUME NEW d \in Clusters, NEW x \in Held(cluster'[d]), x.kind = "review", x \in main'
        PROVE  cluster'[d].pr = "merged"
    <2>1. CASE x \in Held(cluster[d])
      <3>1. commits' = commits + 1 => x.id # commits'
        BY <1>2, <2>1
      <3>2. x \in main \/ (x \in Held(cluster[c]) /\ r.pr = "merged")
        BY <1>3, <1>6, <3>1 DEF CommitStep
      <3>3. CASE x \in main
        BY <1>1, <1>6, <2>1, <3>3 DEF AutopilotInv, ReviewsAreOwn
      <3>4. CASE x \in Held(cluster[c]) /\ r.pr = "merged"
        BY <1>1, <1>6, <2>1, <3>4 DEF AutopilotInv, ReviewsAreOwn
      <3> QED BY <3>2, <3>3, <3>4
    <2>2. CASE x \notin Held(cluster[d])
      <3>1. d = c /\ commits' = commits + 1 /\ x.id = commits'
        BY <1>0, <1>1, <1>6, <2>2 DEF CommitStep
      <3>2. x \notin main /\ x \notin Range(cluster[c].remote)
        BY <1>2, <1>3, <3>1
      <3> QED BY <1>6, <3>2 DEF CommitStep
    <2> QED BY <2>1, <2>2
  <1>7. ASSUME NEW d \in Clusters, NEW e \in Clusters,
               NEW x \in Held(cluster'[d]) \cap Held(cluster'[e]), x.kind = "review"
        PROVE  d = e
    <2>1. CASE x \in Held(cluster[d]) /\ x \in Held(cluster[e])
      BY <1>7, <2>1 DEF AutopilotInv, ReviewsAreOwn
    <2>2. CASE x \notin Held(cluster[d])
      BY <1>0, <1>1, <1>2, <1>7, <2>2 DEF CommitStep
    <2>3. CASE x \notin Held(cluster[e])
      BY <1>0, <1>1, <1>2, <1>7, <2>3 DEF CommitStep
    <2> QED BY <2>1, <2>2, <2>3
  <1> QED BY <1>5, <1>6, <1>7 DEF ReviewsAreOwn

\* What the autopilot merged is recorded for a pull request that is merged.
LandingStep(c, r) ==
    /\ landed' \in [Clusters -> Branches]
    /\ \A d \in Clusters : landed'[d] # <<>> => landed[d] # <<>> \/ (d = c /\ r.pr = "merged")

LEMMA NothingLands ==
    ASSUME AutopilotInv, UNCHANGED landed
    PROVE  \A c, r : LandingStep(c, r)
  BY DEF AutopilotInv, AutopilotTypes, LandingStep

\* A step on the branch or the pull request of one cluster.
LEMMA ClusterStep ==
    ASSUME AutopilotInv, NEW c \in Clusters, NEW r \in ClusterRecords,
           cluster' = [cluster EXCEPT ![c] = r], CommitStep(c, r), TaskStep,
           project' \in ProjectRecords, project'.cdeps = project.cdeps,
           rootReview' \in [Clusters -> BOOLEAN],
           autopilot' \in {"running", "stopped", "awaiting", "complete"},
           r.worktree \/ r.remote # <<>> => r.local # <<>>,
           cluster[c].pr = "merged" => r.pr = "merged",
           accepted \subseteq accepted', r.result # 0 => r.result \in accepted',
           LandingStep(c, r),
           window' \in OpenWindows \cup {NoWindow}, WindowIsReviewed',
           ClusterState(c) = "COMPLETE" => r.local = cluster[c].local
    PROVE  AutopilotInv'
  <1>1. \A d \in Clusters : cluster'[d] = IF d = c THEN r ELSE cluster[d]
    BY DEF AutopilotInv, AutopilotTypes
  <1>2. AutopilotTypes'
    BY DEF AutopilotInv, AutopilotTypes, TaskStep, CommitStep, LandingStep
  <1>3. Numbered' /\ ReviewsAreOwn'
    BY OwnStep
  <1>4. BranchesStand' /\ ResultsAreAccepted' /\ LandedOnce'
    BY <1>1 DEF AutopilotInv, BranchesStand, ResultsAreAccepted, LandedOnce, LandingStep
  <1>5. main \subseteq main'
    BY DEF CommitStep
  <1>6. WorkRestsOnIntegratedClusters'
    BY <1>1, <1>5, WorkStep
  <1> QED BY <1>2, <1>3, <1>4, <1>6 DEF AutopilotInv
-----------------------------------------------------------------------------
(* What a decision is about.                                               *)

TaskActions == {"RESUME_TASK", "CONTINUE_TASK", "CORRECT_TASK", "VERIFY_TASK"}
ClusterActions == {"INITIALIZE_CLUSTER", "VERIFY_CLUSTER", "REVIEW_CLUSTER", "CREATE_CLUSTER_PR"}

LEMMA ActiveDecisionFacts ==
    ASSUME NEW t
    PROVE  \/ \E a \in TaskActions : ActiveDecision(t) = Decide(a, ClusterOf[t], t)
           \/ \E reason : ActiveDecision(t) = Stop(reason)
  BY DEF ActiveDecision, TaskActions

LEMMA ClusterDecisionFacts ==
    ASSUME NEW c
    PROVE  \/ \E a \in ClusterActions : ClusterDecision(c) = Decide(a, c, TaskOrder[1])
           \/ /\ RunnableTasks(c) # {}
              /\ ClusterDecision(c) = Decide("START_TASK", c, FirstOf(TaskOrder, RunnableTasks(c)))
           \/ \E reason : ClusterDecision(c) = Stop(reason)
  BY DEF ClusterDecision, ClusterActions

\* A decision works on an active task, starts a runnable one on a cluster whose
\* dependencies are complete, or moves a cluster that is not complete.
LEMMA DecisionFacts ==
    ASSUME AutopilotInv, NEW d, d = Decision,
           d.action \notin {"STOP", "COMPLETE_PROJECT"}
    PROVE  /\ d.cluster \in Clusters /\ ClusterState(d.cluster) # "COMPLETE"
           /\ d.action \in TaskActions =>
                 /\ d.task \in PlannedTasks /\ task[d.task].state \in Active
                 /\ d.cluster = ClusterOf[d.task]
           /\ d.action = "START_TASK" =>
                 /\ d.task \in PlannedTasks /\ task[d.task].state = "READY"
                 /\ RestsOnComplete(d.task)
           /\ d.action \in TaskActions \cup ClusterActions \cup {"START_TASK"}
  <1>1. \A a, c, t : /\ Decide(a, c, t).action = a /\ Decide(a, c, t).cluster = c
                     /\ Decide(a, c, t).task = t
    BY DEF Decide
  <1>2. \A reason : Stop(reason).action = "STOP"
    BY DEF Stop
  <1>3. CASE ActiveTasks # {}
    <2> DEFINE t == CHOOSE u \in ActiveTasks : TRUE
    <2>1. t \in ActiveTasks /\ d = ActiveDecision(t)
      BY <1>3 DEF Decision
    <2> HIDE DEF t
    <2>2. t \in PlannedTasks /\ task[t].state \in Active /\ ClusterOf[t] \in Clusters
      BY <2>1 DEF ActiveTasks, AutopilotInv, AutopilotTypes
    <2>3. ~ AllMerged(ClusterOf[t])
      BY <2>2 DEF AllMerged, TasksOf, Active
    <2>4. ClusterState(ClusterOf[t]) # "COMPLETE"
      BY <2>2, <2>3, CompleteCluster DEF AutopilotInv
    <2>5. PICK a \in TaskActions : d = Decide(a, ClusterOf[t], t)
      BY <1>2, <2>1, ActiveDecisionFacts
    <2>6. d.action = a /\ d.cluster = ClusterOf[t] /\ d.task = t
      BY <1>1, <2>5
    <2> QED BY <2>2, <2>4, <2>6 DEF TaskActions
  <1>4. CASE ActiveTasks = {}
    <2> DEFINE c == FirstOf(ClusterOrder, DependencyReadyClusters)
    <2>1. DependencyReadyClusters # {} /\ d = ClusterDecision(c)
      <3>1. ~(\A e \in Clusters : AllMerged(e) /\ ClusterState(e) = "COMPLETE")
        BY <1>4 DEF Decision
      <3>2. DependencyReadyClusters # {}
        BY <1>2, <1>4, <3>1 DEF Decision
      <3> QED BY <1>4, <3>1, <3>2 DEF Decision
    <2>2. c \in DependencyReadyClusters
      BY <2>1, FirstOfIsReady, AutopilotAssumption DEF DependencyReadyClusters, Clusters
    <2> HIDE DEF c
    <2>3. /\ c \in Clusters /\ ClusterState(c) # "COMPLETE" /\ ClusterDependenciesComplete(c)
      BY <2>2 DEF DependencyReadyClusters
    <2>4. CASE \E a \in ClusterActions : d = Decide(a, c, TaskOrder[1])
      <3>1. PICK a \in ClusterActions : d = Decide(a, c, TaskOrder[1])
        BY <2>4
      <3>2. d.action = a /\ d.cluster = c
        BY <1>1, <3>1
      <3> QED BY <2>3, <3>2 DEF ClusterActions, TaskActions
    <2>5. CASE /\ RunnableTasks(c) # {}
               /\ d = Decide("START_TASK", c, FirstOf(TaskOrder, RunnableTasks(c)))
      <3> DEFINE t == FirstOf(TaskOrder, RunnableTasks(c))
      <3>1. d.action = "START_TASK" /\ d.cluster = c /\ d.task = t
        BY <1>1, <2>5
      <3>2. t \in RunnableTasks(c)
        BY <2>5, FirstOfIsReady, AutopilotAssumption DEF RunnableTasks, TasksOf, PlannedTasks
      <3> HIDE DEF t
      <3>3. t \in PlannedTasks /\ ClusterOf[t] = c /\ task[t].state = "READY"
        BY <3>2 DEF RunnableTasks, TasksOf
      <3>4. RestsOnComplete(t)
        BY <2>3, <3>3 DEF RestsOnComplete, ClusterDependenciesComplete
      <3> QED BY <2>3, <3>1, <3>3, <3>4 DEF TaskActions
    <2> QED BY <1>2, <2>1, <2>4, <2>5, ClusterDecisionFacts
  <1> QED BY <1>3, <1>4
-----------------------------------------------------------------------------
(* The initial state, and the actions that leave the branches alone.       *)

LEMMA AutopilotStarts == AutopilotInit => AutopilotInv
  <1> SUFFICES ASSUME AutopilotInit PROVE AutopilotInv
    OBVIOUS
  <1>1. /\ Unprepared \in ClusterRecords /\ Unprepared.local = <<>> /\ Unprepared.remote = <<>>
        /\ Unprepared.worktree = FALSE /\ Unprepared.result = 0
    BY AutopilotAssumption DEF Unprepared, ClusterRecords, Branches
  <1>2. MainCommit \in CommitRecords /\ MainCommit.id = 0
    BY AutopilotAssumption DEF MainCommit, CommitRecords
  <1>3. WithoutLease("DRAFT") \in TaskRecords /\ WithoutLease("DRAFT").state = "DRAFT"
    BY WithoutLeaseType DEF Inactive
  <1>4. \A c \in Clusters : Held(cluster[c]) = {}
    BY <1>1 DEF AutopilotInit, Held, Range
  <1>5. AutopilotTypes
    <2>1. project \in ProjectRecords /\ ClusterOf \in [PlannedTasks -> Clusters]
      BY AutopilotAssumption DEF AutopilotInit, GraphInventory, ProjectRecords
    <2>2. task \in [PlannedTasks -> TaskRecords] /\ cluster \in [Clusters -> ClusterRecords]
      BY <1>1, <1>3 DEF AutopilotInit
    <2>3. landed \in [Clusters -> Branches] /\ rootReview \in [Clusters -> BOOLEAN]
      BY DEF AutopilotInit, Branches
    <2>4. main \subseteq CommitRecords /\ commits \in 0..MaxCommits
      BY <1>2, AutopilotAssumption DEF AutopilotInit
    <2> QED BY <2>1, <2>2, <2>3, <2>4 DEF AutopilotInit, AutopilotTypes
  <1>6. Numbered /\ ReviewsAreOwn
    BY <1>2, <1>4 DEF Numbered, ReviewsAreOwn, AutopilotInit
  <1>7. BranchesStand /\ ResultsAreAccepted /\ LandedOnce /\ WindowIsReviewed
    BY <1>1 DEF AutopilotInit, BranchesStand, ResultsAreAccepted, LandedOnce, WindowIsReviewed, NoWindow
  <1>8. WorkRestsOnIntegratedClusters
    BY <1>3 DEF AutopilotInit, WorkRestsOnIntegratedClusters, Active
  <1> QED BY <1>5, <1>6, <1>7, <1>8 DEF AutopilotInv

\* Steps of the run itself, of the leases and of the world around it.
LEMMA QuietSteps ==
    ASSUME AutopilotInv,
           \/ DiscoveryRefuses \/ BindCompletedCorrection \/ PollPullRequest
           \/ WaitForMainCi \/ Restart \/ LandReview
           \/ \E d : OrchestrationStopped(d) \/ FinalVerification(d)
    PROVE  AutopilotInv'
  <1>1. /\ UNCHANGED <<task, project, cluster, main, commits, accepted, landed>>
        /\ window' = window \/ window' = NoWindow
        /\ autopilot' = autopilot \/ autopilot' \in {"running", "stopped", "awaiting", "complete"}
    BY DEF DiscoveryRefuses, BindCompletedCorrection, PollPullRequest, WaitForMainCi,
           Restart, LandReview, OrchestrationStopped, FinalVerification, EnvUnchanged,
           RunUnchanged, Throw, Carry
  <1>2. rootReview' \in [Clusters -> BOOLEAN]
    BY DEF DiscoveryRefuses, BindCompletedCorrection, PollPullRequest, WaitForMainCi,
           Restart, LandReview, OrchestrationStopped, FinalVerification, EnvUnchanged,
           RunUnchanged, AutopilotInv, AutopilotTypes
  <1>3. TaskStep /\ autopilot' \in {"running", "stopped", "awaiting", "complete"}
    BY <1>1, SameTasks DEF AutopilotInv, AutopilotTypes
  <1> QED BY <1>1, <1>2, <1>3, StillStep

LEMMA LeaseSteps ==
    ASSUME AutopilotInv, EnsureLease \/ LeaseRunsDown
    PROVE  AutopilotInv'
  <1>1. /\ UNCHANGED <<project, cluster, main, commits, accepted, landed, rootReview, window>>
        /\ autopilot' = autopilot \/ autopilot' = "stopped"
    BY DEF EnsureLease, LeaseRunsDown, EnvUnchanged, RunUnchanged, Carry, Throw
  <1>2. PICK t \in ActiveTasks : \E w \in TaskRecords :
            task' = [task EXCEPT ![t] = w] /\ w.state = task[t].state
    <2>1. CASE EnsureLease
      <3>1. PICK t \in ActiveTasks :
               \/ task' = [task EXCEPT ![t].lease = "fresh",
                              ![t].renewed = (~ task[t].renewed /\ task[t].lease = "due"),
                              ![t].receipt = FALSE, ![t].rounds = 0]
               \/ task' = task
        BY <2>1 DEF EnsureLease
      <3>2. task[t] \in TaskRecords /\ task \in [PlannedTasks -> TaskRecords] /\ t \in PlannedTasks
        BY DEF ActiveTasks, AutopilotInv, AutopilotTypes
      <3> DEFINE again == (~ task[t].renewed /\ task[t].lease = "due")
                 v == [task[t] EXCEPT !.renewed = again]
                 w == [v EXCEPT !.lease = "fresh", !.receipt = FALSE, !.rounds = 0]
      <3>3. task' = [task EXCEPT ![t] = w] \/ task' = [task EXCEPT ![t] = task[t]]
        <4>1. CASE task' = task
          BY <3>2, <4>1
        <4>2. CASE task' = [task EXCEPT ![t].lease = "fresh", ![t].renewed = again,
                                        ![t].receipt = FALSE, ![t].rounds = 0]
          <5> HIDE DEF again
          <5>1. task' = [task EXCEPT ![t] = [task[t] EXCEPT !.lease = "fresh", !.renewed = again,
                                                !.receipt = FALSE, !.rounds = 0]]
            BY <3>2, <4>2
          <5>2. [task[t] EXCEPT !.lease = "fresh", !.renewed = again, !.receipt = FALSE, !.rounds = 0] = w
            BY <3>2 DEF TaskRecords
          <5> QED BY <5>1, <5>2
        <4> QED BY <3>1, <4>1, <4>2
      <3>4. v \in TaskRecords /\ v.state = task[t].state
        BY <3>2 DEF TaskRecords
      <3> HIDE DEF v
      <3>5. 0 \in 0..MaxCorrections
        BY AutopilotAssumption
      <3>6. w \in TaskRecords /\ w.state = v.state
        BY <3>4, <3>5 DEF TaskRecords
      <3> QED BY <3>2, <3>3, <3>4, <3>6
    <2>2. CASE LeaseRunsDown
      <3>1. PICK t \in ActiveTasks : task' = [task EXCEPT ![t].lease =
                         IF @ = "fresh" THEN "due" ELSE "expired"]
        BY <2>2 DEF LeaseRunsDown
      <3>2. task[t] \in TaskRecords /\ task \in [PlannedTasks -> TaskRecords] /\ t \in PlannedTasks
        BY DEF ActiveTasks, AutopilotInv, AutopilotTypes
      <3> DEFINE w == [task[t] EXCEPT !.lease = IF task[t].lease = "fresh" THEN "due" ELSE "expired"]
      <3>3. w \in TaskRecords /\ w.state = task[t].state
        BY <3>2 DEF TaskRecords
      <3>4. task' = [task EXCEPT ![t] = w]
        BY <3>1, <3>2
      <3> QED BY <3>3, <3>4
    <2> QED BY <2>1, <2>2
  <1>3. TaskStep
    BY <1>2, OneTask DEF ActiveTasks, AutopilotInv, Working
  <1> QED BY <1>1, <1>3, StillStep DEF AutopilotInv, AutopilotTypes
-----------------------------------------------------------------------------
(* The arms on a task.                                                     *)

LEMMA LaunchStep ==
    ASSUME AutopilotInv, NEW t \in PlannedTasks, NEW s \in TaskRecords, s.state \in Active,
           LaunchPayload(t, s), task[t].state # "MERGED",
           task[t].state \in Working \/ RestsOnComplete(t)
    PROVE  TaskStep
  <1>1. PICK w \in Launched(s) : task' = [task EXCEPT ![t] = w]
    BY DEF LaunchPayload
  <1>2. w \in TaskRecords
    BY LaunchedType
  <1> QED BY <1>1, <1>2, OneTask DEF AutopilotInv

LEMMA StartTaskStep ==
    ASSUME AutopilotInv, NEW d, d = Decision, StartTask(d)
    PROVE  AutopilotInv'
  <1> DEFINE t == d.task
             head == Last(cluster[d.cluster].local).id
             leased == [WithoutLease("LEASED") EXCEPT !.lease = "fresh", !.at = head]
  <1>1. /\ t \in PlannedTasks /\ task[t].state = "READY" /\ RestsOnComplete(t)
        /\ d.cluster \in Clusters
    BY DecisionFacts DEF StartTask
  <1>2. autopilot' \in {"running", "stopped"}
    BY DEF StartTask, Fail, Throw, LaunchPayload
  <1>3. UNCHANGED <<project, cluster, main, commits, accepted, landed, rootReview, window>>
    BY DEF StartTask, EnvUnchanged
  <1>4. TaskStep
    <2>1. CASE task' = task
      BY <2>1, SameTasks DEF AutopilotInv
    <2>2. CASE ClusterWorktreeOk(d.cluster)
      <3>1. cluster[d.cluster] \in ClusterRecords /\ cluster[d.cluster].local # <<>>
        BY <1>1, <2>2 DEF AutopilotInv, AutopilotTypes, BranchesStand, ClusterWorktreeOk
      <3>2. Last(cluster[d.cluster].local) \in CommitRecords
        BY <3>1, LastCommit DEF ClusterRecords
      <3>3. head \in 0..MaxCommits
        BY <3>2 DEF CommitRecords
      <3>4. head \in -1..MaxCommits
        BY <3>3, AutopilotAssumption
      <3>5. WithoutLease("LEASED") \in TaskRecords /\ WithoutLease("LEASED").state = "LEASED"
        BY WithoutLeaseType DEF Active
      <3>6. CASE LaunchPayload(t, leased)
        <4>1. LaunchPayload(t, leased)
          BY <3>6
        <4> HIDE DEF head
        <4>2. leased \in TaskRecords /\ leased.state \in Active
          <5> DEFINE w == WithoutLease("LEASED")
          <5>1. w \in TaskRecords /\ w.state = "LEASED"
            BY <3>5
          <5> HIDE DEF w
          <5>2. /\ [w EXCEPT !.lease = "fresh", !.at = head] \in TaskRecords
                /\ [w EXCEPT !.lease = "fresh", !.at = head].state = "LEASED"
            BY <3>4, <5>1 DEF TaskRecords
          <5> QED BY <5>2 DEF w, Active
        <4> HIDE DEF leased
        <4> QED BY <1>1, <4>1, <4>2, LaunchStep
      <3>7. CASE task' = [task EXCEPT ![t].at = head]
        <4> DEFINE w == [task[t] EXCEPT !.at = head]
        <4>1. task' = [task EXCEPT ![t] = w]
          BY <3>7, <1>1 DEF AutopilotInv, AutopilotTypes
        <4> HIDE DEF head
        <4>2. w \in TaskRecords /\ w.state = "READY"
          BY <1>1, <3>4 DEF AutopilotInv, AutopilotTypes, TaskRecords
        <4> HIDE DEF w
        <4> QED BY <1>1, <4>1, <4>2, OneTask DEF AutopilotInv, Working, Active
      <3> QED BY <2>1, <2>2, <3>6, <3>7 DEF StartTask
    <2> QED BY <2>1, <2>2 DEF StartTask
  <1> QED BY <1>2, <1>3, <1>4, StillStep DEF AutopilotInv, AutopilotTypes

LEMMA ResumeTaskStep ==
    ASSUME AutopilotInv, NEW d, d = Decision, ResumeTask(d)
    PROVE  AutopilotInv'
  <1>1. d.task \in PlannedTasks /\ task[d.task].state \in Active
    BY DecisionFacts DEF ResumeTask, TaskActions
  <1>2. task[d.task] \in TaskRecords
    BY <1>1 DEF AutopilotInv, AutopilotTypes
  <1>3. TaskStep
    BY <1>1, <1>2, LaunchStep DEF ResumeTask, Working, Active
  <1>4. /\ UNCHANGED <<project, cluster, main, commits, accepted, landed, rootReview, window>>
        /\ autopilot' \in {"running", "stopped"}
    BY DEF ResumeTask, EnvUnchanged, LaunchPayload, Fail
  <1> QED BY <1>3, <1>4, StillStep DEF AutopilotInv, AutopilotTypes

LEMMA CorrectTaskStep ==
    ASSUME AutopilotInv, NEW d, d = Decision, CorrectTask(d)
    PROVE  AutopilotInv'
  <1>1. d.task \in PlannedTasks /\ task[d.task].state \in Active
    BY DecisionFacts DEF CorrectTask, TaskActions
  <1>2. task[d.task] \in TaskRecords
    BY <1>1 DEF AutopilotInv, AutopilotTypes
  <1>3. TaskStep
    <2>1. CASE task' = task
      BY <2>1, SameTasks DEF AutopilotInv
    <2>2. CASE \E s \in Corrected(task[d.task]) : task' = [task EXCEPT ![d.task] = s]
      <3>1. PICK s \in Corrected(task[d.task]) : task' = [task EXCEPT ![d.task] = s]
        BY <2>2
      <3>2. s \in TaskRecords /\ s.state = task[d.task].state
        BY <1>2, CorrectedType
      <3> QED BY <1>1, <3>1, <3>2, OneTask DEF AutopilotInv, Working, Active
    <2> QED BY <2>1, <2>2 DEF CorrectTask
  <1>4. /\ UNCHANGED <<project, cluster, main, commits, accepted, landed, rootReview, window>>
        /\ autopilot' = autopilot \/ autopilot' = "stopped"
    BY DEF CorrectTask, EnvUnchanged, Carry, Throw
  <1> QED BY <1>3, <1>4, StillStep DEF AutopilotInv, AutopilotTypes

LEMMA VerifyTaskFailsStep ==
    ASSUME AutopilotInv, NEW d, d = Decision, VerifyTaskFails(d)
    PROVE  AutopilotInv'
  <1> DEFINE t == d.task
             s == task[t]
  <1>1. t \in PlannedTasks /\ s.state \in Active
    BY DecisionFacts DEF VerifyTaskFails, TaskActions
  <1>2. s \in TaskRecords /\ task \in [PlannedTasks -> TaskRecords]
    BY <1>1 DEF AutopilotInv, AutopilotTypes
  <1>3. \/ task' = task
        \/ \E w \in Corrected(s) : task' = [task EXCEPT ![t] = w]
        \/ \E a \in Active : task' = [task EXCEPT ![t].state = a]
        \/ task' = [task EXCEPT ![t] = WithoutLease("INTEGRATION_FAILED")]
    BY DEF VerifyTaskFails, Active
  <1>4. TaskStep
    <2>1. CASE task' = task
      BY <2>1, SameTasks DEF AutopilotInv
    <2>2. CASE \E w \in Corrected(s) : task' = [task EXCEPT ![t] = w]
      <3>1. PICK w \in Corrected(s) : task' = [task EXCEPT ![t] = w]
        BY <2>2
      <3>2. w \in TaskRecords /\ w.state = s.state
        BY <1>2, CorrectedType
      <3> QED BY <1>1, <3>1, <3>2, OneTask DEF AutopilotInv, Working, Active
    <2>3. CASE \E a \in Active : task' = [task EXCEPT ![t].state = a]
      <3>1. PICK a \in Active : task' = [task EXCEPT ![t].state = a]
        BY <2>3
      <3> DEFINE w == [s EXCEPT !.state = a]
      <3>2. task' = [task EXCEPT ![t] = w]
        BY <1>1, <1>2, <3>1
      <3>3. w \in TaskRecords
        BY <1>2 DEF TaskRecords
      <3> HIDE DEF w
      <3> QED BY <1>1, <3>2, <3>3, OneTask DEF AutopilotInv, Working, Active
    <2>4. CASE task' = [task EXCEPT ![t] = WithoutLease("INTEGRATION_FAILED")]
      <3>1. /\ WithoutLease("INTEGRATION_FAILED") \in TaskRecords
            /\ WithoutLease("INTEGRATION_FAILED").state = "INTEGRATION_FAILED"
        BY WithoutLeaseType DEF Inactive
      <3> QED BY <1>1, <2>4, <3>1, OneTask DEF AutopilotInv, Working, Active
    <2> QED BY <1>3, <2>1, <2>2, <2>3, <2>4
  <1>5. /\ UNCHANGED <<project, cluster, main, commits, accepted, landed, rootReview, window>>
        /\ autopilot' = autopilot \/ autopilot' \in {"running", "stopped"}
    BY DEF VerifyTaskFails, EnvUnchanged, Carry, Throw, Fail
  <1> QED BY <1>4, <1>5, StillStep DEF AutopilotInv, AutopilotTypes
-----------------------------------------------------------------------------
(* The arms on a cluster.                                                  *)

LEMMA NoCommitStep ==
    ASSUME AutopilotInv, NEW c \in Clusters, NEW r \in ClusterRecords,
           UNCHANGED <<commits, main>>,
           Range(r.local) \subseteq Held(cluster[c]), Range(r.remote) \subseteq Held(cluster[c])
    PROVE  CommitStep(c, r)
  BY DEF AutopilotInv, AutopilotTypes, CommitStep, Held

LEMMA AppendStep ==
    ASSUME AutopilotInv, NEW c \in Clusters, NEW r \in ClusterRecords,
           commits' = commits + 1, commits' \in 0..MaxCommits, UNCHANGED main,
           NEW x \in CommitRecords, x.id = commits + 1, NEW b \in Branches,
           r.local = Append(b, x), Range(b) \subseteq Held(cluster[c]),
           Range(r.remote) \subseteq Held(cluster[c])
    PROVE  CommitStep(c, r)
  <1>1. \A y \in Range(r.local) : y \in Held(cluster[c]) \/ y.id = commits + 1
    BY AppendCommit
  <1> QED BY <1>1 DEF AutopilotInv, AutopilotTypes, CommitStep, Held

\* An arm that moves a cluster which is not complete, with no merge under way.
LEMMA ArmStep ==
    ASSUME AutopilotInv, ~ window.open, UNCHANGED <<window, rootReview, landed>>,
           NEW c \in Clusters, NEW r \in ClusterRecords, ClusterState(c) # "COMPLETE",
           cluster' = [cluster EXCEPT ![c] = r], CommitStep(c, r), TaskStep,
           project' \in ProjectRecords, project'.cdeps = project.cdeps,
           autopilot' \in {"running", "stopped", "awaiting", "complete"},
           r.worktree \/ r.remote # <<>> => r.local # <<>>, r.pr = cluster[c].pr,
           accepted \subseteq accepted', r.result # 0 => r.result \in accepted'
    PROVE  AutopilotInv'
  <1>1. WindowIsReviewed'
    BY DEF WindowIsReviewed
  <1>2. /\ rootReview' \in [Clusters -> BOOLEAN]
        /\ window' \in OpenWindows \cup {NoWindow}
    BY DEF AutopilotInv, AutopilotTypes
  <1> QED BY <1>1, <1>2, NothingLands, ClusterStep

\* Going on or not, the run is running or over.
LEMMA GoesOnType ==
    ASSUME NEW actions, GoesOn(actions)
    PROVE  autopilot' = autopilot \/ autopilot' = "stopped"
  BY DEF GoesOn

\* The parts of a cluster record.
LEMMA ClusterParts ==
    ASSUME AutopilotInv, NEW c \in Clusters
    PROVE  /\ cluster[c] \in ClusterRecords /\ cluster \in [Clusters -> ClusterRecords]
           /\ cluster[c].local \in Branches /\ cluster[c].remote \in Branches
           /\ cluster[c].worktree \/ cluster[c].remote # <<>> => cluster[c].local # <<>>
           /\ cluster[c].result # 0 => cluster[c].result \in accepted
           /\ Range(cluster[c].local) \subseteq Held(cluster[c])
           /\ Range(cluster[c].remote) \subseteq Held(cluster[c])
           /\ project \in ProjectRecords
  BY DEF AutopilotInv, AutopilotTypes, ClusterRecords, BranchesStand, ResultsAreAccepted, Held

LEMMA SynchronizeStep ==
    ASSUME AutopilotInv, Decides, NEW d, d = Decision, SynchronizeRemoteClusterAdvance(d)
    PROVE  AutopilotInv'
  <1> DEFINE c == d.cluster
             r == [cluster[c] EXCEPT !.local = cluster[c].remote]
  <1>1. c \in Clusters /\ ClusterState(c) # "COMPLETE" /\ ~ window.open
    BY DecisionFacts DEF SynchronizeRemoteClusterAdvance, AdvanceWaits, Decides
  <1>2. /\ UNCHANGED <<project, task, main, commits, accepted, landed, rootReview, window>>
        /\ autopilot' = autopilot \/ autopilot' = "stopped"
    BY DEF SynchronizeRemoteClusterAdvance, EnvUnchanged, Carry, Throw
  <1>3. autopilot' \in {"running", "stopped", "awaiting", "complete"} /\ TaskStep
    BY <1>2, SameTasks DEF AutopilotInv, AutopilotTypes
  <1>4. cluster' = cluster \/ cluster' = [cluster EXCEPT ![c] = r]
    BY <1>1, ClusterParts DEF SynchronizeRemoteClusterAdvance
  <1>5. CASE cluster' = cluster
    BY <1>2, <1>3, <1>5, StillStep DEF AutopilotInv, AutopilotTypes
  <1>6. CASE cluster' = [cluster EXCEPT ![c] = r]
    <2>1. cluster[c].remote # <<>>
      <3>1. IsStrictPrefix(cluster[c].local, cluster[c].remote) /\ cluster[c].local # <<>>
        BY DEF SynchronizeRemoteClusterAdvance, AdvanceWaits, RemoteAhead
      <3>2. cluster[c].local \in Branches /\ cluster[c].remote \in Branches
        BY <1>1, ClusterParts
      <3> QED BY <3>1, <3>2 DEF IsStrictPrefix, IsPrefix, Branches
    <2>2. /\ r \in ClusterRecords /\ r.local = cluster[c].remote /\ r.remote = cluster[c].remote
          /\ r.pr = cluster[c].pr /\ r.result = cluster[c].result
      BY <1>1, ClusterParts DEF ClusterRecords
    <2> HIDE DEF r, c
    <2>3. CommitStep(c, r)
      BY <1>1, <1>2, <2>2, ClusterParts, NoCommitStep
    <2> QED BY <1>1, <1>2, <1>3, <1>6, <2>1, <2>2, <2>3, ClusterParts, ArmStep
  <1> QED BY <1>4, <1>5, <1>6

LEMMA InitializeStep ==
    ASSUME AutopilotInv, Decides, NEW d, d = Decision, InitializeCluster(d)
    PROVE  AutopilotInv'
  <1> DEFINE c == d.cluster
             b == InitialBranch(c)
             r == [cluster[c] EXCEPT !.worktree = TRUE, !.dirty = FALSE, !.local = b]
  <1>1. c \in Clusters /\ ClusterState(c) # "COMPLETE" /\ ~ window.open
    BY DecisionFacts DEF InitializeCluster, Decides
  <1>0. CASE UNCHANGED <<cluster, task>> /\ Throw
    <2>1. UNCHANGED <<project, main, commits, accepted, landed, rootReview, window>>
      BY DEF InitializeCluster, EnvUnchanged
    <2> QED BY <1>0, <2>1, SameTasks, StillStep DEF Throw, AutopilotInv, AutopilotTypes
  <1> SUFFICES ASSUME ~(UNCHANGED <<cluster, task>> /\ Throw) PROVE AutopilotInv'
    BY <1>0
  <1>2. PICK n \in 0..Len(TaskOrder) :
            /\ cluster' = [cluster EXCEPT ![c].worktree = TRUE, ![c].dirty = FALSE, ![c].local = b]
            /\ task' = [t \in PlannedTasks |->
                   IF t \in TasksOf(c) /\ \E i \in 1..n : TaskOrder[i] = t
                   THEN [task[t] EXCEPT !.state = Initialised(t)] ELSE task[t]]
            /\ autopilot' = autopilot \/ autopilot' \in {"running", "stopped"}
    BY GoesOnType DEF InitializeCluster, Fail
  <1>3. UNCHANGED <<project, main, commits, accepted, landed, rootReview, window>>
    BY DEF InitializeCluster, EnvUnchanged
  <1>4. autopilot' \in {"running", "stopped", "awaiting", "complete"}
    BY <1>2 DEF AutopilotInv, AutopilotTypes
  <1>5. TaskStep
    <2>1. \A t \in PlannedTasks : Initialised(t) \in {task[t].state, "BLOCKED", "READY"}
                                  /\ (task[t].state = "MERGED" => Initialised(t) = "MERGED")
      BY DEF Initialised
    <2>2. \A t \in PlannedTasks : task[t] \in TaskRecords
      BY DEF AutopilotInv, AutopilotTypes
    <2>3. \A t \in PlannedTasks :
             /\ [task[t] EXCEPT !.state = Initialised(t)] \in TaskRecords
             /\ [task[t] EXCEPT !.state = Initialised(t)].state = Initialised(t)
      <3>1. \A s \in TaskRecords, a \in Active \cup Inactive :
               [s EXCEPT !.state = a] \in TaskRecords /\ [s EXCEPT !.state = a].state = a
        BY DEF TaskRecords
      <3>2. \A t \in PlannedTasks : Initialised(t) \in Active \cup Inactive
        BY <2>1, <2>2 DEF TaskRecords, Inactive
      <3> QED BY <2>2, <3>1, <3>2
    <2>4. \A t \in PlannedTasks : task'[t] \in {task[t], [task[t] EXCEPT !.state = Initialised(t)]}
      BY <1>2
    <2>5. task' \in [PlannedTasks -> TaskRecords]
      BY <1>2, <2>2, <2>3
    <2> QED BY <2>1, <2>3, <2>4, <2>5 DEF TaskStep, Working, Active
  <1>6. b \in Branches /\ b # <<>>
    <2>1. <<MainCommit>> \in Branches /\ <<MainCommit>> # <<>>
      BY AutopilotAssumption DEF MainCommit, CommitRecords, Branches
    <2> QED BY <1>1, <2>1, ClusterParts DEF InitialBranch, BranchHead
  <1>7. \A x \in Range(b) : x \in Held(cluster[c]) \/ x = MainCommit
    BY <1>1, ClusterParts DEF InitialBranch, BranchHead, Range
  <1> HIDE DEF b
  <1>8. cluster' = [cluster EXCEPT ![c] = r]
    BY <1>1, <1>2, ClusterParts
  <1>9. /\ r \in ClusterRecords /\ r.local = b /\ r.remote = cluster[c].remote
        /\ r.pr = cluster[c].pr /\ r.result = cluster[c].result
    BY <1>1, <1>6, ClusterParts DEF ClusterRecords
  <1> HIDE DEF r, c
  <1>10. CommitStep(c, r)
    BY <1>1, <1>3, <1>7, <1>9, ClusterParts DEF AutopilotInv, AutopilotTypes, CommitStep, Held
  <1> QED BY <1>1, <1>3, <1>4, <1>5, <1>6, <1>8, <1>9, <1>10, ClusterParts, ArmStep

LEMMA IntegrateTaskStep ==
    ASSUME AutopilotInv, Decides, NEW d, d = Decision, VerifyAndIntegrateTask(d)
    PROVE  AutopilotInv'
  <1> DEFINE c == d.cluster
             t == d.task
             x == FreshCommit("product", 0, TRUE)
             r == [cluster[c] EXCEPT !.local = Append(cluster[c].local, x)]
  <1>1. /\ c \in Clusters /\ ClusterState(c) # "COMPLETE" /\ ~ window.open
        /\ t \in PlannedTasks /\ task[t].state \in Active
    BY DecisionFacts DEF VerifyAndIntegrateTask, Decides, TaskActions
  <1>2. /\ UNCHANGED <<project, main, accepted, landed, rootReview, window>>
        /\ task' = [task EXCEPT ![t] = WithoutLease("MERGED")]
        /\ cluster' = [cluster EXCEPT ![c].local = Append(@, x)] /\ Fresh
        /\ autopilot' = autopilot \/ autopilot' = "stopped"
    BY GoesOnType DEF VerifyAndIntegrateTask, EnvUnchanged
  <1>3. x \in CommitRecords /\ x.id = commits + 1 /\ commits' = commits + 1 /\ commits' \in 0..MaxCommits
    <2>1. 0 \in 0..MaxCommits
      BY AutopilotAssumption
    <2> QED BY <1>2, <2>1, FreshCommitType DEF AutopilotInv
  <1> HIDE DEF x
  <1>4. Append(cluster[c].local, x) \in Branches /\ Append(cluster[c].local, x) # <<>>
    BY <1>1, <1>3, ClusterParts, AppendCommit
  <1>5. cluster' = [cluster EXCEPT ![c] = r]
    BY <1>1, <1>2, ClusterParts
  <1>6. /\ r \in ClusterRecords /\ r.local = Append(cluster[c].local, x)
        /\ r.remote = cluster[c].remote /\ r.pr = cluster[c].pr /\ r.result = cluster[c].result
    BY <1>1, <1>4, ClusterParts DEF ClusterRecords
  <1> HIDE DEF r, c, t
  <1>7. CommitStep(c, r)
    BY <1>1, <1>2, <1>3, <1>6, ClusterParts, AppendStep
  <1>8. TaskStep
    <2>1. WithoutLease("MERGED") \in TaskRecords /\ WithoutLease("MERGED").state = "MERGED"
      BY WithoutLeaseType DEF Inactive
    <2> QED BY <1>1, <1>2, <2>1, OneTask DEF AutopilotInv, Working
  <1>9. autopilot' \in {"running", "stopped", "awaiting", "complete"}
    BY <1>2 DEF AutopilotInv, AutopilotTypes
  <1> QED BY <1>1, <1>2, <1>4, <1>5, <1>6, <1>7, <1>8, <1>9, ClusterParts, ArmStep

LEMMA VerifyClusterStep ==
    ASSUME AutopilotInv, Decides, NEW d, d = Decision, VerifyCluster(d)
    PROVE  AutopilotInv'
  <1> DEFINE c == d.cluster
             head == Last(cluster[c].local).id
             r == [cluster[c] EXCEPT !.result = head]
  <1>1. c \in Clusters /\ ClusterState(c) # "COMPLETE" /\ ~ window.open
    BY DecisionFacts DEF VerifyCluster, Decides
  <1>2. /\ UNCHANGED <<project, task, main, commits, landed, rootReview, window>>
        /\ autopilot' = autopilot \/ autopilot' \in {"running", "stopped"}
    BY GoesOnType DEF VerifyCluster, EnvUnchanged, Throw, Fail
  <1>3. autopilot' \in {"running", "stopped", "awaiting", "complete"} /\ TaskStep
    BY <1>2, SameTasks DEF AutopilotInv, AutopilotTypes
  <1>4. CASE cluster' = cluster /\ accepted' = accepted
    BY <1>2, <1>3, <1>4, StillStep DEF AutopilotInv, AutopilotTypes
  <1>5. CASE /\ ClusterWorktreeOk(c) /\ cluster' = [cluster EXCEPT ![c].result = head]
             /\ accepted' = accepted \cup {head}
    <2>1. Last(cluster[c].local) \in CommitRecords
      BY <1>1, <1>5, ClusterParts, LastCommit DEF ClusterWorktreeOk
    <2>2. head \in 0..MaxCommits
      BY <2>1 DEF CommitRecords
    <2> HIDE DEF head
    <2>3. cluster' = [cluster EXCEPT ![c] = r]
      BY <1>1, <1>5, ClusterParts
    <2>4. /\ r \in ClusterRecords /\ r.local = cluster[c].local /\ r.remote = cluster[c].remote
          /\ r.pr = cluster[c].pr /\ r.result = head /\ r.worktree = cluster[c].worktree
      BY <1>1, <2>2, ClusterParts DEF ClusterRecords
    <2> HIDE DEF r, c
    <2>5. CommitStep(c, r)
      BY <1>1, <1>2, <2>4, ClusterParts, NoCommitStep
    <2> QED BY <1>1, <1>2, <1>3, <1>5, <2>3, <2>4, <2>5, ClusterParts, ArmStep
  <1> QED BY <1>4, <1>5 DEF VerifyCluster

LEMMA ReviewClusterStep ==
    ASSUME AutopilotInv, Decides, NEW d, d = Decision, ReviewCluster(d)
    PROVE  AutopilotInv'
  <1> DEFINE c == d.cluster
             head == Last(cluster[c].local).id
  <1>1. c \in Clusters /\ ClusterState(c) # "COMPLETE" /\ ~ window.open
    BY DecisionFacts DEF ReviewCluster, Decides
  <1>2. /\ UNCHANGED <<project, task, main, accepted, landed, rootReview, window>>
        /\ autopilot' = autopilot \/ autopilot' = "stopped"
    BY DEF ReviewCluster, EnvUnchanged, Carry, Throw
  <1>3. autopilot' \in {"running", "stopped", "awaiting", "complete"} /\ TaskStep
    BY <1>2, SameTasks DEF AutopilotInv, AutopilotTypes
  <1>4. CASE cluster' = cluster /\ commits' = commits
    BY <1>2, <1>3, <1>4, StillStep DEF AutopilotInv, AutopilotTypes
  <1>5. ASSUME NEW left \in BOOLEAN, cluster' = [cluster EXCEPT ![c].dirty = left],
               commits' = commits
        PROVE  AutopilotInv'
    <2> DEFINE r == [cluster[c] EXCEPT !.dirty = left]
    <2>1. cluster' = [cluster EXCEPT ![c] = r]
      BY <1>1, <1>5, ClusterParts
    <2>2. /\ r \in ClusterRecords /\ r.local = cluster[c].local /\ r.remote = cluster[c].remote
          /\ r.pr = cluster[c].pr /\ r.result = cluster[c].result /\ r.worktree = cluster[c].worktree
      BY <1>1, ClusterParts DEF ClusterRecords
    <2> HIDE DEF r, c
    <2>3. CommitStep(c, r)
      BY <1>1, <1>2, <1>5, <2>2, ClusterParts, NoCommitStep
    <2> QED BY <1>1, <1>2, <1>3, <2>1, <2>2, <2>3, ClusterParts, ArmStep
  <1>6. ASSUME NEW pass \in BOOLEAN, ClusterWorktreeOk(c), Fresh,
               cluster' = [cluster EXCEPT ![c].local = Append(@, FreshCommit("review", head, pass))]
        PROVE  AutopilotInv'
    <2> DEFINE x == FreshCommit("review", head, pass)
               r == [cluster[c] EXCEPT !.local = Append(cluster[c].local, x)]
    <2>1. Last(cluster[c].local) \in CommitRecords
      BY <1>1, <1>6, ClusterParts, LastCommit DEF ClusterWorktreeOk
    <2>2. head \in 0..MaxCommits
      BY <2>1 DEF CommitRecords
    <2>3. cluster' = [cluster EXCEPT ![c] = r]
      BY <1>1, <1>6, ClusterParts
    <2> HIDE DEF head
    <2>4. x \in CommitRecords /\ x.id = commits + 1 /\ commits' = commits + 1 /\ commits' \in 0..MaxCommits
      BY <1>6, <2>2, FreshCommitType DEF AutopilotInv
    <2> HIDE DEF x
    <2>5. Append(cluster[c].local, x) \in Branches /\ Append(cluster[c].local, x) # <<>>
      BY <1>1, <2>4, ClusterParts, AppendCommit
    <2>6. /\ r \in ClusterRecords /\ r.local = Append(cluster[c].local, x)
          /\ r.remote = cluster[c].remote /\ r.pr = cluster[c].pr /\ r.result = cluster[c].result
      BY <1>1, <2>5, ClusterParts DEF ClusterRecords
    <2> HIDE DEF r, c
    <2>7. CommitStep(c, r)
      BY <1>1, <1>2, <2>4, <2>6, ClusterParts, AppendStep
    <2> QED BY <1>1, <1>2, <1>3, <2>3, <2>5, <2>6, <2>7, ClusterParts, ArmStep
  <1> QED BY <1>4, <1>5, <1>6 DEF ReviewCluster

LEMMA PushClusterStep ==
    ASSUME AutopilotInv, Decides, NEW d, d = Decision, PushCluster(d)
    PROVE  AutopilotInv'
  <1> DEFINE c == d.cluster
             pr == Found(cluster[c].pr)
             checks == IF cluster[c].local # cluster[c].remote THEN "pending" ELSE cluster[c].checks
             r == [cluster[c] EXCEPT !.remote = cluster[c].local, !.pr = pr, !.checks = checks]
  <1>1. c \in Clusters /\ ClusterState(c) # "COMPLETE" /\ ~ window.open
    BY DecisionFacts DEF PushCluster, Decides
  <1>2. /\ UNCHANGED <<project, task, main, commits, accepted, landed, rootReview>>
        /\ autopilot' = autopilot \/ autopilot' = "stopped"
    BY DEF PushCluster, EnvUnchanged, Carry, Throw
  <1>3. /\ autopilot' \in {"running", "stopped", "awaiting", "complete"} /\ TaskStep
        /\ rootReview' \in [Clusters -> BOOLEAN]
    BY <1>2, SameTasks DEF AutopilotInv, AutopilotTypes
  <1>4. CASE cluster' = cluster /\ window' = window
    BY <1>2, <1>3, <1>4, StillStep DEF AutopilotInv, AutopilotTypes
  <1>5. CASE /\ ClusterWorktreeOk(c) /\ ReportPasses(c)
             /\ cluster' = [cluster EXCEPT ![c].remote = cluster[c].local,
                    ![c].pr = Found(@), ![c].checks = checks]
             /\ window' = IF cluster[c].pr = "open"
                          THEN [open |-> TRUE, cluster |-> c, seen |-> cluster[c].local] ELSE NoWindow
    <2>1. cluster' = [cluster EXCEPT ![c] = r]
      BY <1>1, <1>5, ClusterParts
    <2>2. /\ checks \in {"pending", "pass", "fail"} /\ pr \in {"none", "open", "merged", "closed"}
          /\ cluster[c].pr = "merged" => pr = "merged"
      BY <1>1, ClusterParts DEF ClusterRecords, Found
    <2> HIDE DEF checks, pr
    <2>3. /\ r \in ClusterRecords /\ r.local = cluster[c].local /\ r.remote = cluster[c].local
          /\ r.pr = pr /\ r.result = cluster[c].result /\ r.worktree = cluster[c].worktree
      <3> DEFINE old == cluster[c]
      <3>1. old \in ClusterRecords /\ r = [old EXCEPT !.remote = old.local, !.pr = pr, !.checks = checks]
        BY <1>1, ClusterParts
      <3> HIDE DEF old, r
      <3>2. /\ r \in ClusterRecords /\ r.local = old.local /\ r.remote = old.local
            /\ r.pr = pr /\ r.result = old.result /\ r.worktree = old.worktree
        BY <2>2, <3>1 DEF ClusterRecords
      <3> QED BY <3>2 DEF old
    <2>4. cluster'[c] = r /\ cluster[c].local # <<>>
      BY <1>1, <1>5, <2>1, ClusterParts DEF ClusterWorktreeOk
    <2>5. /\ ReviewedAt(cluster[c].local, cluster[c].local[Len(cluster[c].local) - 1].id)
          /\ cluster[c].local[Len(cluster[c].local) - 1].id \in accepted
      BY <1>1, <1>5, ClusterParts DEF ReportPasses, ResultValid, ReviewedAt
    <2> HIDE DEF r
    <2>6. window' \in OpenWindows \cup {NoWindow}
      BY <1>1, <1>5, ClusterParts DEF OpenWindows
    <2>7. WindowIsReviewed'
      <3>1. CASE window' = NoWindow
        BY <3>1 DEF WindowIsReviewed, NoWindow
      <3>2. CASE window' = [open |-> TRUE, cluster |-> c, seen |-> cluster[c].local]
        <4>1. window'.cluster = c
          BY <3>2
        <4> QED BY <1>2, <2>3, <2>4, <2>5, <4>1 DEF WindowIsReviewed, ReviewedAt, InSessionOf
      <3> QED BY <1>5, <3>1, <3>2
    <2> HIDE DEF c
    <2>8. CommitStep(c, r)
      BY <1>1, <1>2, <2>3, ClusterParts, NoCommitStep
    <2> QED BY <1>1, <1>2, <1>3, <2>1, <2>2, <2>3, <2>4, <2>6, <2>7, <2>8, ClusterParts, NothingLands, ClusterStep
  <1> QED BY <1>4, <1>5 DEF PushCluster
-----------------------------------------------------------------------------
(* The pull request, and the world around the run.                         *)

LEMMA WindowKept ==
    ASSUME AutopilotInv, UNCHANGED <<window, accepted>>, NEW c \in Clusters, NEW r,
           cluster' = [cluster EXCEPT ![c] = r], r.local = cluster[c].local,
           r.remote = cluster[c].remote \/ PushInWindow \/ ~ window.open
    PROVE  WindowIsReviewed'
  <1>1. CASE ~ window.open
    BY <1>1 DEF WindowIsReviewed
  <1>2. CASE window.open
    <2>1. window.cluster \in Clusters
      <3>1. window # NoWindow
        BY <1>2 DEF NoWindow
      <3> QED BY <3>1 DEF AutopilotInv, AutopilotTypes, OpenWindows
    <2>2. cluster'[window.cluster] = IF window.cluster = c THEN r ELSE cluster[window.cluster]
      BY <2>1 DEF AutopilotInv, AutopilotTypes
    <2> QED BY <1>2, <2>2 DEF AutopilotInv, WindowIsReviewed, ReviewedAt, InSessionOf
  <1> QED BY <1>1, <1>2

\* The review window, opened out.
LEMMA OpenWindow ==
    ASSUME AutopilotInv, window.open
    PROVE  /\ window.cluster \in Clusters
           /\ Len(cluster[window.cluster].local) > 1
           /\ Last(cluster[window.cluster].local).kind = "review"
  <1>1. window # NoWindow
    BY DEF NoWindow
  <1>2. window.cluster \in Clusters
    BY <1>1 DEF AutopilotInv, AutopilotTypes, OpenWindows
  <1> QED BY <1>2 DEF AutopilotInv, WindowIsReviewed, ReviewedAt

LEMMA MergePullRequestStep ==
    ASSUME AutopilotInv, MergePullRequest
    PROVE  AutopilotInv'
  <1> DEFINE c == window.cluster
             r == [cluster[c] EXCEPT !.pr = "merged"]
  <1>1. c \in Clusters
    BY OpenWindow DEF MergePullRequest
  <1>2. UNCHANGED <<project, task, commits, accepted>> /\ window' = NoWindow
    BY DEF MergePullRequest
  <1>3. autopilot' \in {"running", "stopped", "awaiting", "complete"} /\ TaskStep
    BY <1>2, SameTasks, GoesOnType DEF MergePullRequest, Throw, AutopilotInv, AutopilotTypes
  <1>4. CASE UNCHANGED <<main, rootReview, cluster, landed>>
    BY <1>2, <1>3, <1>4, StillStep DEF AutopilotInv, AutopilotTypes
  <1>5. CASE /\ Lands(c) /\ cluster' = [cluster EXCEPT ![c].pr = "merged"]
             /\ landed' = [landed EXCEPT ![c] = cluster[c].remote]
    <2>1. cluster' = [cluster EXCEPT ![c] = r]
      BY <1>1, <1>5, ClusterParts
    <2>2. /\ r \in ClusterRecords /\ r.local = cluster[c].local /\ r.remote = cluster[c].remote
          /\ r.pr = "merged" /\ r.result = cluster[c].result /\ r.worktree = cluster[c].worktree
      BY <1>1, ClusterParts DEF ClusterRecords
    <2>3. /\ landed' \in [Clusters -> Branches]
          /\ \A d \in Clusters : landed'[d] = IF d = c THEN cluster[c].remote ELSE landed[d]
      BY <1>1, <1>5, ClusterParts DEF AutopilotInv, AutopilotTypes
    <2> HIDE DEF r
    <2>4. CommitStep(c, r)
      BY <1>1, <1>2, <1>5, <2>2, LandsOnMain DEF AutopilotInv, AutopilotTypes, CommitStep, Held
    <2>5. rootReview' \in [Clusters -> BOOLEAN]
      BY <1>1, <1>5, LandsOnMain DEF AutopilotInv
    <2>6. WindowIsReviewed' /\ window' \in OpenWindows \cup {NoWindow}
      BY <1>2 DEF WindowIsReviewed, NoWindow
    <2> HIDE DEF c
    <2>7. /\ project' \in ProjectRecords /\ project'.cdeps = project.cdeps
          /\ accepted \subseteq accepted'
          /\ r.result # 0 => r.result \in accepted'
          /\ r.worktree \/ r.remote # <<>> => r.local # <<>>
      BY <1>1, <1>2, <2>2, ClusterParts
    <2>8. LandingStep(c, r)
      BY <2>2, <2>3 DEF LandingStep
    <2> QED BY <1>1, <1>3, <2>1, <2>2, <2>4, <2>5, <2>6, <2>7, <2>8, ClusterStep
  <1> QED BY <1>4, <1>5 DEF MergePullRequest

\* A pull request that is open is not that of a complete cluster.
LEMMA OpenIsIncomplete ==
    ASSUME AutopilotInv, window.open, cluster[window.cluster].pr = "open"
    PROVE  ClusterState(window.cluster) # "COMPLETE"
  <1> DEFINE c == window.cluster
             x == Last(cluster[c].local)
  <1>1. c \in Clusters /\ x.kind = "review" /\ cluster[c].local # <<>>
    BY OpenWindow
  <1>2. x \in Held(cluster[c])
    BY <1>1, ClusterParts, LastCommit
  <1>3. x \notin main
    BY <1>1, <1>2 DEF AutopilotInv, ReviewsAreOwn
  <1> QED BY <1>1, <1>3, CompleteCluster DEF AutopilotInv

LEMMA RepairStep ==
    ASSUME AutopilotInv, RepairClusterCi
    PROVE  AutopilotInv'
  <1> DEFINE c == window.cluster
             product == Front(cluster[c].local)
             reset == [cluster[c] EXCEPT !.local = product, !.result = 0, !.repairs = @ + 1]
             x == FreshCommit("product", 0, TRUE)
             fixed == Append(product, x)
  <1>1. window.open /\ c \in Clusters /\ Len(cluster[c].local) > 1 /\ cluster[c].pr = "open"
    <2>1. window.open /\ c \in Clusters /\ Len(cluster[c].local) > 1
      BY OpenWindow DEF RepairClusterCi
    <2>2. PullRequestState(c) = "fail" /\ cluster[c].pr \in {"none", "open", "merged", "closed"}
      BY <2>1, ClusterParts DEF RepairClusterCi, ClusterRecords
    <2> QED BY <2>1, <2>2 DEF PullRequestState
  <1>2. ClusterState(c) # "COMPLETE"
    BY <1>1, OpenIsIncomplete
  <1>3. product \in Branches /\ product # <<>> /\ Range(product) \subseteq Held(cluster[c])
    BY <1>1, ClusterParts, FrontOfBranch
  <1>4. /\ UNCHANGED <<project, task, main, accepted, landed, rootReview>> /\ window' = NoWindow
        /\ autopilot' = autopilot \/ autopilot' = "stopped"
    BY DEF RepairClusterCi, EnvUnchanged, Carry, Throw
  <1>5. /\ autopilot' \in {"running", "stopped", "awaiting", "complete"} /\ TaskStep
        /\ rootReview' \in [Clusters -> BOOLEAN]
        /\ WindowIsReviewed' /\ window' \in OpenWindows \cup {NoWindow}
    BY <1>4, SameTasks DEF AutopilotInv, AutopilotTypes, WindowIsReviewed, NoWindow
  <1> HIDE DEF product
  <1>6. ASSUME RepairAllowed(c)
        PROVE  /\ reset \in ClusterRecords /\ reset.local = product
               /\ reset.remote = cluster[c].remote /\ reset.result = 0 /\ reset.pr = cluster[c].pr
    <2>1. cluster[c].repairs + 1 \in 0..MaxRepairs /\ 0 \in 0..MaxCommits
      <3>1. cluster[c].repairs \in 0..MaxRepairs
        BY <1>1, ClusterParts DEF ClusterRecords
      <3>2. cluster[c].repairs + 1 <= MaxRepairs
        BY <1>6 DEF RepairAllowed
      <3> QED BY <3>1, <3>2, AutopilotAssumption
    <2> DEFINE n == cluster[c].repairs + 1
               old == cluster[c]
    <2>2. reset = [old EXCEPT !.local = product, !.result = 0, !.repairs = n]
      OBVIOUS
    <2>3. old \in ClusterRecords /\ n \in 0..MaxRepairs
      BY <1>1, <2>1, ClusterParts
    <2> HIDE DEF n, old, reset
    <2>4. /\ reset \in ClusterRecords /\ reset.local = product
          /\ reset.remote = old.remote /\ reset.result = 0 /\ reset.pr = old.pr
      BY <1>3, <2>1, <2>2, <2>3 DEF ClusterRecords
    <2> QED BY <2>4 DEF old
  <1> HIDE DEF reset
  <1>7. CASE cluster' = cluster /\ commits' = commits
    BY <1>4, <1>5, <1>7, StillStep
  <1>8. ASSUME NEW e \in BOOLEAN, RepairAllowed(c), commits' = commits,
               cluster' = [cluster EXCEPT ![c] = [reset EXCEPT !.dirty = e]]
        PROVE  AutopilotInv'
    <2> DEFINE r == [reset EXCEPT !.dirty = e]
    <2>1. cluster' = [cluster EXCEPT ![c] = r]
      BY <1>8
    <2>2. /\ r \in ClusterRecords /\ r.local = product /\ r.remote = cluster[c].remote
          /\ r.result = 0 /\ r.pr = cluster[c].pr
      BY <1>6, <1>8 DEF ClusterRecords
    <2> HIDE DEF r, c
    <2>3. CommitStep(c, r)
      BY <1>1, <1>3, <1>4, <1>8, <2>2, ClusterParts, NoCommitStep
    <2> QED BY <1>1, <1>2, <1>3, <1>4, <1>5, <2>1, <2>2, <2>3, ClusterParts, NothingLands, ClusterStep
  <1>9. ASSUME RepairAllowed(c), Fresh
        PROVE  /\ fixed \in Branches /\ fixed # <<>> /\ commits' = commits + 1
               /\ commits' \in 0..MaxCommits
               /\ \A y \in Range(fixed) : y \in Held(cluster[c]) \/ y.id = commits + 1
    <2>1. 0 \in 0..MaxCommits
      BY AutopilotAssumption
    <2>2. /\ x \in CommitRecords /\ x.id = commits + 1 /\ commits' = commits + 1
          /\ commits' \in 0..MaxCommits
      BY <1>9, <2>1, FreshCommitType DEF AutopilotInv
    <2> QED BY <1>3, <2>2, AppendCommit
  <1> HIDE DEF fixed
  <1>10. ASSUME NEW r \in ClusterRecords, Fresh, RepairAllowed(c),
                cluster' = [cluster EXCEPT ![c] = r], r.local = fixed,
                r.remote = fixed \/ r.remote = cluster[c].remote,
                r.result = 0, r.pr = cluster[c].pr
         PROVE  AutopilotInv'
    <2> HIDE DEF c
    <2>1. \A y \in Held(r) : y \in Held(cluster[c]) \/ y.id = commits + 1
      BY <1>1, <1>9, <1>10, ClusterParts DEF Held
    <2>2. CommitStep(c, r)
      BY <1>4, <1>9, <1>10, <2>1 DEF CommitStep, AutopilotInv, AutopilotTypes
    <2> QED BY <1>1, <1>2, <1>4, <1>5, <1>9, <1>10, <2>2, ClusterParts, NothingLands, ClusterStep
  <1>11. ASSUME Fresh, RepairAllowed(c),
                cluster' = [cluster EXCEPT ![c] = [reset EXCEPT
                               !.local = fixed, !.remote = fixed, !.checks = "pending"]]
         PROVE  AutopilotInv'
    <2> DEFINE r == [reset EXCEPT !.local = fixed, !.remote = fixed, !.checks = "pending"]
    <2>1. /\ r \in ClusterRecords /\ r.local = fixed /\ r.remote = fixed /\ r.result = 0
          /\ r.pr = cluster[c].pr
      BY <1>6, <1>9, <1>11 DEF ClusterRecords
    <2>2. cluster' = [cluster EXCEPT ![c] = r]
      BY <1>11
    <2> HIDE DEF r, c
    <2> QED BY <1>10, <1>11, <2>1, <2>2
  <1>12. ASSUME Fresh, RepairAllowed(c),
                cluster' = [cluster EXCEPT ![c] = [reset EXCEPT !.local = fixed]]
         PROVE  AutopilotInv'
    <2> DEFINE r == [reset EXCEPT !.local = fixed]
    <2>1. /\ r \in ClusterRecords /\ r.local = fixed /\ r.remote = cluster[c].remote
          /\ r.result = 0 /\ r.pr = cluster[c].pr
      BY <1>6, <1>9, <1>12 DEF ClusterRecords
    <2>2. cluster' = [cluster EXCEPT ![c] = r]
      BY <1>12
    <2> HIDE DEF r, c
    <2> QED BY <1>10, <1>12, <2>1, <2>2
  <1>13. \/ cluster' = cluster /\ commits' = commits
         \/ /\ RepairAllowed(c) /\ Fresh
            /\ \/ cluster' = [cluster EXCEPT ![c] = [reset EXCEPT
                               !.local = fixed, !.remote = fixed, !.checks = "pending"]]
               \/ cluster' = [cluster EXCEPT ![c] = [reset EXCEPT !.local = fixed]]
         \/ /\ RepairAllowed(c) /\ commits' = commits
            /\ \E e \in BOOLEAN : cluster' = [cluster EXCEPT ![c] = [reset EXCEPT !.dirty = e]]
    BY DEF RepairClusterCi, reset, fixed, product
  <1> QED BY <1>7, <1>8, <1>11, <1>12, <1>13

LEMMA ResolveGapStep ==
    ASSUME AutopilotInv, Decides, NEW d, ResolveSpecificationGap(d)
    PROVE  AutopilotInv'
  <1>1. /\ UNCHANGED <<rootReview, window, accepted, landed>> /\ ~ window.open
        /\ autopilot' \in {"running", "stopped"}
    BY DEF ResolveSpecificationGap, Throw, Carry, Decides
  <1>2. PICK t \in project.gaps, end \in WaitEnds :
          /\ task[t].state = "BLOCKED"
          /\ LET c == ClusterOf[t]
                 merge == FreshCommit("main", 0, TRUE)
                 merged == Append(cluster[c].local, merge)
             IN \/ /\ end \in {"failed", "closed", "timeout"}
                   /\ Throw /\ UNCHANGED <<project, task, cluster, main, commits>>
                \/ /\ end \in {"clean", "merged"} /\ Fresh
                   /\ project' = [project EXCEPT !.gaps = @ \ {t}]
                   /\ main' = main \cup {merge}
                   /\ \E n \in 0..(IF end = "clean" THEN AmendmentSteps(c) ELSE 0) :
                         /\ cluster' = [cluster EXCEPT
                               ![c].local = IF n > 0 THEN merged ELSE @,
                               ![c].remote = IF n > 1 THEN merged ELSE @]
                         /\ task' = [task EXCEPT ![t].state = IF n > 2 THEN "READY" ELSE @]
                         /\ IF n > 2 THEN Carry ELSE Throw
    BY DEF ResolveSpecificationGap
  <1> DEFINE c == ClusterOf[t]
             x == FreshCommit("main", 0, TRUE)
             merged == Append(cluster[c].local, x)
  <1>3. t \in PlannedTasks /\ c \in Clusters /\ project \in ProjectRecords
    BY DEF AutopilotInv, AutopilotTypes, ProjectRecords
  <1>4. ClusterState(c) # "COMPLETE"
    <2>1. ~ AllMerged(c)
      BY <1>2, <1>3 DEF AllMerged, TasksOf
    <2> QED BY <1>3, <2>1, CompleteCluster DEF AutopilotInv
  <1>5. CASE UNCHANGED <<project, task, cluster, main, commits>>
    BY <1>1, <1>5, SameTasks, StillStep DEF AutopilotInv, AutopilotTypes
  <1>6. ASSUME NEW n \in Nat, Fresh, project' = [project EXCEPT !.gaps = @ \ {t}],
               main' = main \cup {x},
               cluster' = [cluster EXCEPT ![c].local = IF n > 0 THEN merged ELSE @,
                                          ![c].remote = IF n > 1 THEN merged ELSE @],
               task' = [task EXCEPT ![t].state = IF n > 2 THEN "READY" ELSE @]
        PROVE  AutopilotInv'
    <2> DEFINE local == IF n > 0 THEN merged ELSE cluster[c].local
               remote == IF n > 1 THEN merged ELSE cluster[c].remote
               r == [cluster[c] EXCEPT !.local = local, !.remote = remote]
    <2>1. /\ x \in CommitRecords /\ x.id = commits + 1 /\ x.kind = "main"
          /\ commits' = commits + 1 /\ commits' \in 0..MaxCommits
      <3>1. 0 \in 0..MaxCommits
        BY AutopilotAssumption
      <3> QED BY <1>6, <3>1, FreshCommitType DEF AutopilotInv
    <2> HIDE DEF x
    <2>2. cluster' = [cluster EXCEPT ![c] = r]
      BY <1>3, <1>6, ClusterParts
    <2>3. /\ merged \in Branches /\ merged # <<>>
          /\ \A y \in Range(merged) : y \in Held(cluster[c]) \/ y = x
      BY <1>3, <2>1, ClusterParts, AppendCommit
    <2> HIDE DEF merged
    <2>4. /\ local \in Branches /\ remote \in Branches
          /\ cluster[c].worktree \/ remote # <<>> => local # <<>>
          /\ \A y \in Range(local) \cup Range(remote) : y \in Held(cluster[c]) \/ y = x
      <3> DEFINE old == cluster[c]
      <3>1. /\ old.local \in Branches /\ old.remote \in Branches
            /\ old.worktree \/ old.remote # <<>> => old.local # <<>>
            /\ Range(old.local) \subseteq Held(old) /\ Range(old.remote) \subseteq Held(old)
        BY <1>3, ClusterParts
      <3>2. n > 1 => n > 0
        OBVIOUS
      <3>3. local \in {merged, old.local} /\ remote \in {merged, old.remote}
        OBVIOUS
      <3>4. local = merged \/ (local = old.local /\ remote = old.remote)
        BY <3>2
      <3> HIDE DEF local, remote, old
      <3>5. /\ local \in Branches /\ remote \in Branches
            /\ old.worktree \/ remote # <<>> => local # <<>>
        BY <2>3, <3>1, <3>3, <3>4
      <3>6. ASSUME NEW y \in Range(local) \cup Range(remote) PROVE y \in Held(old) \/ y = x
        BY <2>3, <3>1, <3>3, <3>6 DEF old
      <3> QED BY <3>5, <3>6 DEF old
    <2> HIDE DEF local, remote
    <2>5. /\ r \in ClusterRecords /\ r.local = local /\ r.remote = remote
          /\ r.pr = cluster[c].pr /\ r.result = cluster[c].result /\ r.worktree = cluster[c].worktree
      BY <1>3, <2>4, ClusterParts DEF ClusterRecords
    <2> HIDE DEF r, c
    <2>6. CommitStep(c, r)
      BY <1>6, <2>1, <2>4, <2>5 DEF CommitStep, AutopilotInv, AutopilotTypes, Held
    <2>7. TaskStep
      <3> DEFINE state == IF n > 2 THEN "READY" ELSE "BLOCKED"
                 w == [task[t] EXCEPT !.state = state]
      <3>1. task[t] \in TaskRecords /\ task \in [PlannedTasks -> TaskRecords]
        BY <1>3 DEF AutopilotInv, AutopilotTypes
      <3>2. task' = [task EXCEPT ![t] = w]
        BY <1>2, <1>3, <1>6, <3>1
      <3>3. state \in {"READY", "BLOCKED"}
        OBVIOUS
      <3> HIDE DEF state
      <3>4. w \in TaskRecords /\ w.state = state
        BY <3>1, <3>3 DEF TaskRecords, Inactive
      <3> HIDE DEF w
      <3> QED BY <1>2, <1>3, <3>2, <3>3, <3>4, OneTask DEF AutopilotInv, Working, Active
    <2>8. project' \in ProjectRecords /\ project'.cdeps = project.cdeps
      BY <1>3, <1>6 DEF ProjectRecords
    <2> QED BY <1>1, <1>3, <1>4, <2>2, <2>4, <2>5, <2>6, <2>7, <2>8, ClusterParts, ArmStep
  <1> HIDE DEF x, merged, c
  <1>7. \A n \in 0..(IF end = "clean" THEN AmendmentSteps(c) ELSE 0) : n \in Nat
    BY DEF AmendmentSteps
  <1> QED BY <1>2, <1>5, <1>6, <1>7 DEF x, merged, c

\* A step of the world on one pull request or branch.
LEMMA WorldClusterStep ==
    ASSUME AutopilotInv, UNCHANGED <<project, task, window, autopilot, accepted, landed>>,
           NEW c \in Clusters, NEW r \in ClusterRecords, cluster' = [cluster EXCEPT ![c] = r],
           rootReview' \in [Clusters -> BOOLEAN], CommitStep(c, r), r.local = cluster[c].local,
           r.remote = cluster[c].remote \/ (cluster[c].remote # <<>> /\ (PushInWindow \/ ~ window.open)),
           r.result = cluster[c].result, r.worktree \in {FALSE, cluster[c].worktree},
           cluster[c].pr = "merged" => r.pr = "merged"
    PROVE  AutopilotInv'
  <1>1. WindowIsReviewed'
    BY WindowKept
  <1>2. TaskStep
    BY SameTasks DEF AutopilotInv
  <1>3. r.worktree \/ r.remote # <<>> => r.local # <<>>
    BY ClusterParts
  <1>4. /\ window' \in OpenWindows \cup {NoWindow}
        /\ autopilot' \in {"running", "stopped", "awaiting", "complete"}
    BY DEF AutopilotInv, AutopilotTypes
  <1>5. /\ project' \in ProjectRecords /\ project'.cdeps = project.cdeps
        /\ accepted \subseteq accepted'
        /\ r.result # 0 => r.result \in accepted'
    BY ClusterParts
  <1> QED BY <1>1, <1>2, <1>3, <1>4, <1>5, NothingLands, ClusterStep

LEMMA CiReportsStep ==
    ASSUME AutopilotInv, CiReports
    PROVE  AutopilotInv'
  <1>1. PICK c \in Clusters, v \in {"pass", "fail"} : cluster' = [cluster EXCEPT ![c].checks = v]
    BY DEF CiReports
  <1> DEFINE r == [cluster[c] EXCEPT !.checks = v]
  <1>2. /\ UNCHANGED <<project, task, window, autopilot, accepted, landed, main, commits, rootReview>>
        /\ rootReview' \in [Clusters -> BOOLEAN]
    BY DEF CiReports, RunUnchanged, AutopilotInv, AutopilotTypes
  <1>3. cluster' = [cluster EXCEPT ![c] = r]
    BY <1>1, ClusterParts
  <1>4. /\ r \in ClusterRecords /\ r.local = cluster[c].local /\ r.remote = cluster[c].remote
        /\ r.pr = cluster[c].pr /\ r.result = cluster[c].result /\ r.worktree = cluster[c].worktree
    BY ClusterParts DEF ClusterRecords
  <1> HIDE DEF r
  <1>5. CommitStep(c, r)
    BY <1>2, <1>4, ClusterParts, NoCommitStep
  <1> QED BY <1>2, <1>3, <1>4, <1>5, WorldClusterStep

LEMMA LoseWorktreeStep ==
    ASSUME AutopilotInv, LoseWorktree
    PROVE  AutopilotInv'
  <1>0. ASSUME NEW t \in ActiveTasks, task' = [task EXCEPT ![t].at = NoWorktree], cluster' = cluster
        PROVE  AutopilotInv'
    <2> DEFINE w == [task[t] EXCEPT !.at = NoWorktree]
    <2>1. task[t] \in TaskRecords /\ task \in [PlannedTasks -> TaskRecords] /\ t \in PlannedTasks
      BY DEF ActiveTasks, AutopilotInv, AutopilotTypes
    <2>2. NoWorktree \in -1..MaxCommits
      BY AutopilotAssumption DEF NoWorktree
    <2>3. w \in TaskRecords /\ w.state = task[t].state /\ task' = [task EXCEPT ![t] = w]
      BY <1>0, <2>1, <2>2 DEF TaskRecords
    <2> HIDE DEF w
    <2>4. TaskStep
      BY <2>1, <2>3, OneTask DEF ActiveTasks, AutopilotInv, Working
    <2>5. UNCHANGED <<project, main, commits, accepted, landed, rootReview, window, autopilot>>
      BY DEF LoseWorktree, RunUnchanged
    <2> QED BY <1>0, <2>4, <2>5, StillStep DEF AutopilotInv, AutopilotTypes
  <1> SUFFICES ASSUME NEW c \in Clusters, cluster' = [cluster EXCEPT ![c].worktree = FALSE],
                      UNCHANGED task
               PROVE  AutopilotInv'
    BY <1>0 DEF LoseWorktree
  <1> DEFINE r == [cluster[c] EXCEPT !.worktree = FALSE]
  <1>2. /\ UNCHANGED <<project, task, window, autopilot, accepted, landed, main, commits, rootReview>>
        /\ rootReview' \in [Clusters -> BOOLEAN]
    BY DEF LoseWorktree, RunUnchanged, AutopilotInv, AutopilotTypes
  <1>3. cluster' = [cluster EXCEPT ![c] = r]
    BY ClusterParts
  <1>4. /\ r \in ClusterRecords /\ r.local = cluster[c].local /\ r.remote = cluster[c].remote
        /\ r.pr = cluster[c].pr /\ r.result = cluster[c].result /\ r.worktree = FALSE
    BY ClusterParts DEF ClusterRecords
  <1> HIDE DEF r
  <1>5. CommitStep(c, r)
    BY <1>2, <1>4, ClusterParts, NoCommitStep
  <1> QED BY <1>2, <1>3, <1>4, <1>5, WorldClusterStep

LEMMA ForeignPushStep ==
    ASSUME AutopilotInv, ForeignPush
    PROVE  AutopilotInv'
  <1> DEFINE x == FreshCommit("foreign", 0, TRUE)
  <1>1. PICK c \in Clusters : /\ cluster[c].remote # <<>>
                              /\ cluster' = [cluster EXCEPT ![c].remote = Append(@, x),
                                                            ![c].checks = "pending"]
    BY DEF ForeignPush
  <1>2. /\ UNCHANGED <<project, task, window, autopilot, accepted, landed, main, rootReview>>
        /\ rootReview' \in [Clusters -> BOOLEAN]
        /\ PushInWindow \/ ~ window.open
    BY DEF ForeignPush, RunUnchanged, AutopilotInv, AutopilotTypes
  <1>3. /\ x \in CommitRecords /\ x.id = commits + 1
        /\ commits' = commits + 1 /\ commits' \in 0..MaxCommits
    <2>1. 0 \in 0..MaxCommits
      BY AutopilotAssumption
    <2> QED BY <2>1, FreshCommitType DEF AutopilotInv, ForeignPush
  <1> HIDE DEF x
  <1> DEFINE b == Append(cluster[c].remote, x)
             r == [cluster[c] EXCEPT !.remote = b, !.checks = "pending"]
  <1>4. b \in Branches /\ \A y \in Range(b) : y \in Range(cluster[c].remote) \/ y = x
    BY <1>3, ClusterParts, AppendCommit
  <1>5. cluster' = [cluster EXCEPT ![c] = r]
    BY <1>1, ClusterParts
  <1> HIDE DEF b
  <1>6. /\ r \in ClusterRecords /\ r.local = cluster[c].local /\ r.remote = b
        /\ r.pr = cluster[c].pr /\ r.result = cluster[c].result /\ r.worktree = cluster[c].worktree
    BY <1>4, ClusterParts DEF ClusterRecords
  <1> HIDE DEF r
  <1>7. CommitStep(c, r)
    BY <1>2, <1>3, <1>4, <1>6 DEF CommitStep, AutopilotInv, AutopilotTypes, Held
  <1> QED BY <1>1, <1>2, <1>5, <1>6, <1>7, WorldClusterStep

LEMMA OwnerSettlesStep ==
    ASSUME AutopilotInv, OwnerSettles
    PROVE  AutopilotInv'
  <1>1. PICK c \in Clusters :
          /\ cluster[c].pr = "open"
          /\ \/ Lands(c) /\ cluster' = [cluster EXCEPT ![c].pr = "merged"]
             \/ /\ cluster' = [cluster EXCEPT ![c].pr = "closed"]
                /\ UNCHANGED <<main, rootReview>>
    BY DEF OwnerSettles
  <1>2. UNCHANGED <<project, task, window, autopilot, accepted, landed, commits>>
    BY DEF OwnerSettles, RunUnchanged
  <1>3. PICK end \in {"merged", "closed"} :
          /\ cluster' = [cluster EXCEPT ![c].pr = end]
          /\ \/ end = "merged" /\ Lands(c)
             \/ end = "closed" /\ UNCHANGED <<main, rootReview>>
    BY <1>1
  <1> DEFINE r == [cluster[c] EXCEPT !.pr = end]
  <1>4. cluster' = [cluster EXCEPT ![c] = r]
    BY <1>3, ClusterParts
  <1>5. /\ r \in ClusterRecords /\ r.local = cluster[c].local /\ r.remote = cluster[c].remote
        /\ r.pr = end /\ r.result = cluster[c].result /\ r.worktree = cluster[c].worktree
    BY ClusterParts DEF ClusterRecords
  <1> HIDE DEF r
  <1>6. rootReview' \in [Clusters -> BOOLEAN]
    BY <1>3, LandsOnMain DEF AutopilotInv, AutopilotTypes
  <1>7. CommitStep(c, r)
    <2>1. CASE end = "merged" /\ Lands(c)
      BY <1>2, <1>5, <2>1, LandsOnMain DEF CommitStep, AutopilotInv, AutopilotTypes, Held
    <2>2. CASE UNCHANGED <<main, rootReview>>
      BY <1>2, <1>5, <2>2, ClusterParts, NoCommitStep
    <2> QED BY <1>3, <2>1, <2>2
  <1> QED BY <1>1, <1>2, <1>4, <1>5, <1>6, <1>7, WorldClusterStep
-----------------------------------------------------------------------------
(* The invariant, and what follows from it.                                *)

LEMMA AutopilotStep ==
    ASSUME AutopilotInv, [AutopilotNext]_autopilotVars
    PROVE  AutopilotInv'
  <1>1. CASE UNCHANGED autopilotVars
    <2>1. /\ UNCHANGED <<project, task, cluster, main, commits, accepted, landed>>
          /\ UNCHANGED <<rootReview, window, autopilot>>
      BY <1>1 DEF autopilotVars
    <2> QED BY <2>1, SameTasks, StillStep DEF AutopilotInv, AutopilotTypes
  <1>2. ASSUME Decides, NEW d, d = Decision, SynchronizeRemoteClusterAdvance(d) \/ Arms(d)
        PROVE  AutopilotInv'
    BY <1>2, SynchronizeStep, InitializeStep, StartTaskStep, ResumeTaskStep, CorrectTaskStep,
       VerifyTaskFailsStep, IntegrateTaskStep, VerifyClusterStep, ReviewClusterStep,
       PushClusterStep, ResolveGapStep, QuietSteps DEF Arms
  <1>3. CASE Autopilot
    BY <1>2, <1>3, QuietSteps, LeaseSteps, MergePullRequestStep, RepairStep DEF Autopilot
  <1>4. CASE Environment
    BY <1>4, QuietSteps, LeaseSteps, CiReportsStep, ForeignPushStep, OwnerSettlesStep,
       LoseWorktreeStep DEF Environment
  <1> QED BY <1>1, <1>3, <1>4 DEF AutopilotNext

LEMMA AutopilotInvariant == AutopilotSpec => []AutopilotInv
  <1>1. AutopilotInv /\ [AutopilotNext]_autopilotVars => AutopilotInv'
    BY AutopilotStep
  <1> QED BY AutopilotStarts, <1>1, PTL DEF AutopilotSpec

\* The autopilot keeps its types: a worktree always has a branch, the repair
\* and correction rounds stay within their limits, whatever fails or restarts.
THEOREM AutopilotTypeCorrect == AutopilotSpec => []AutopilotTypeOK
  <1>1. AutopilotInv => AutopilotTypeOK
    BY DEF AutopilotInv, AutopilotTypes, AutopilotTypeOK, BranchesStand, ClusterRecords, ProjectRecords
  <1> QED BY <1>1, AutopilotInvariant, PTL

\* A task is started, and stays, only on clusters that are merged into main:
\* over every restart, repair, foreign push and merge by somebody else.
THEOREM WorkRestsAlways == AutopilotSpec => []WorkRestsOnIntegratedClusters
  <1>1. AutopilotInv => WorkRestsOnIntegratedClusters
    BY DEF AutopilotInv
  <1> QED BY <1>1, AutopilotInvariant, PTL

\* What is merged is recorded by mergePullRequest only.
LEMMA OthersLandNothing ==
    ASSUME AutopilotInv, [AutopilotNext]_autopilotVars, ~ MergePullRequest
    PROVE  landed' = landed /\ accepted \subseteq accepted'
  <1>1. CASE UNCHANGED autopilotVars
    BY <1>1 DEF autopilotVars
  <1>2. CASE Environment
    BY <1>2 DEF Environment, LeaseRunsDown, CiReports, ForeignPush, LandReview, OwnerSettles,
                LoseWorktree, RunUnchanged
  <1>3. ASSUME NEW d, Arms(d)
        PROVE  landed' = landed /\ accepted \subseteq accepted'
    BY <1>3 DEF Arms, InitializeCluster, StartTask, ResumeTask, CorrectTask, VerifyTaskFails,
                VerifyAndIntegrateTask, VerifyCluster, ReviewCluster, PushCluster,
                ResolveSpecificationGap, OrchestrationStopped, FinalVerification, EnvUnchanged
  <1>4. CASE Autopilot
    BY <1>3, <1>4 DEF Autopilot, DiscoveryRefuses, EnsureLease, BindCompletedCorrection,
                      SynchronizeRemoteClusterAdvance, PollPullRequest, RepairClusterCi,
                      WaitForMainCi, Restart, EnvUnchanged
  <1> QED BY <1>1, <1>2, <1>4 DEF AutopilotNext

\* mergePullRequest merges the reviewed branch, of a cluster it has not merged.
LEMMA MergeLandsReviewed ==
    ASSUME AutopilotInv, MergePullRequest, ~ PushInWindow
    PROVE  \/ landed' = landed /\ accepted' = accepted
           \/ \E c \in Clusters, b \in Branches :
                 /\ landed' = [landed EXCEPT ![c] = b] /\ landed[c] = <<>>
                 /\ b # <<>> /\ ReviewedAt(b, b[Len(b) - 1].id) /\ b[Len(b) - 1].id \in accepted
                 /\ accepted' = accepted
  <1> DEFINE c == window.cluster
  <1>1. c \in Clusters /\ window.open /\ accepted' = accepted
    BY OpenWindow DEF MergePullRequest
  <1>2. CASE landed' = landed
    BY <1>1, <1>2
  <1>3. CASE PullRequestState(c) = "pass" /\ landed' = [landed EXCEPT ![c] = cluster[c].remote]
    <2>1. cluster[c].pr = "open"
      BY <1>1, <1>3, ClusterParts DEF PullRequestState, ClusterRecords
    <2>2. landed[c] = <<>>
      BY <1>1, <2>1 DEF AutopilotInv, LandedOnce
    <2> DEFINE b == cluster[c].remote
    <2>3. /\ b \in Branches /\ b # <<>> /\ ReviewedAt(b, b[Len(b) - 1].id)
          /\ b[Len(b) - 1].id \in accepted
      <3>1. cluster[c].remote = cluster[c].local
        BY <1>1 DEF AutopilotInv, WindowIsReviewed
      <3> QED BY <1>1, <3>1, OpenWindow, ClusterParts DEF AutopilotInv, WindowIsReviewed
    <2> QED BY <1>1, <1>3, <2>2, <2>3
  <1> QED BY <1>2, <1>3 DEF MergePullRequest

LEMMA ReviewedStep ==
    ASSUME AutopilotInv, [AutopilotNext]_autopilotVars, ~ PushInWindow, MergedWasReviewed
    PROVE  MergedWasReviewed'
  <1>1. CASE landed' = landed /\ accepted \subseteq accepted'
    BY <1>1 DEF MergedWasReviewed, ReviewedAt, InSessionOf
  <1>2. ASSUME NEW c \in Clusters, NEW b \in Branches, landed' = [landed EXCEPT ![c] = b],
               ReviewedAt(b, b[Len(b) - 1].id), b[Len(b) - 1].id \in accepted, accepted' = accepted
        PROVE  MergedWasReviewed'
    <2>1. \A d \in Clusters : landed'[d] = IF d = c THEN b ELSE landed[d]
      BY <1>2 DEF AutopilotInv, AutopilotTypes
    <2> QED BY <1>2, <2>1 DEF MergedWasReviewed, ReviewedAt, InSessionOf
  <1> QED BY <1>1, <1>2, OthersLandNothing, MergeLandsReviewed

\* While nobody else pushes between the report and the merge, what the
\* autopilot merges ends in a passing review of a commit cluster:verify passed,
\* for every project, number of commits, repairs and restarts.
THEOREM OnlyReviewedIsMerged ==
    ASSUME ~ PushInWindow
    PROVE  AutopilotSpec => []MergedWasReviewed
  <1>1. AutopilotInit => MergedWasReviewed
    BY DEF AutopilotInit, MergedWasReviewed
  <1>2. AutopilotInv /\ MergedWasReviewed /\ [AutopilotNext]_autopilotVars => MergedWasReviewed'
    BY ReviewedStep
  <1> QED BY <1>1, <1>2, AutopilotInvariant, PTL DEF AutopilotSpec

\* Under the same hypothesis the autopilot implements the gated merge: what it
\* merges was verified before, and no merge is overwritten by a later one.
THEOREM AutopilotRefinesGatedMerge ==
    ASSUME ~ PushInWindow
    PROVE  AutopilotSpec => AutopilotImplementsGatedMerge
  <1>1. AutopilotInit => AutopilotGate!GateInit
    BY DEF AutopilotInit, AutopilotGate!GateInit, AutopilotMerged
  <1>2. AutopilotInv /\ [AutopilotNext]_autopilotVars
            => [AutopilotGate!GateNext]_(AutopilotGate!gateVars)
    <2> SUFFICES ASSUME AutopilotInv, [AutopilotNext]_autopilotVars
                 PROVE  AutopilotGate!Verify \/ AutopilotGate!Merge
      BY DEF AutopilotGate!GateNext
    <2>1. CASE landed' = landed /\ accepted \subseteq accepted'
      BY <2>1 DEF AutopilotGate!Verify, AutopilotMerged
    <2>2. ASSUME NEW c \in Clusters, NEW b \in Branches, landed' = [landed EXCEPT ![c] = b],
                 landed[c] = <<>>, b # <<>>, b[Len(b) - 1].id \in accepted, accepted' = accepted
          PROVE  AutopilotGate!Merge
      <3>1. \A d \in Clusters : landed'[d] = IF d = c THEN b ELSE landed[d]
        BY <2>2 DEF AutopilotInv, AutopilotTypes
      <3>2. AutopilotMerged \subseteq AutopilotMerged'
        BY <2>2, <3>1 DEF AutopilotMerged
      <3>3. AutopilotMerged' \subseteq AutopilotMerged \cup accepted
        BY <2>2, <3>1 DEF AutopilotMerged
      <3> QED BY <2>2, <3>2, <3>3 DEF AutopilotGate!Merge
    <2> QED BY <2>1, <2>2, OthersLandNothing, MergeLandsReviewed
  <1> QED BY <1>1, <1>2, AutopilotInvariant, PTL
          DEF AutopilotSpec, AutopilotImplementsGatedMerge, AutopilotGate!GateSpec
=============================================================================
