------------------------- MODULE TriggerInboxProofs -------------------------
(***************************************************************************)
(* Proofs about TriggerInbox for any number of requests, messages and      *)
(* faults, and any derivation of inbox ids from message ids.               *)
(***************************************************************************)
EXTENDS TriggerInbox, TLAPS

\* The strengthened invariant holds of the empty tables.
LEMMA InitIInv == Init => IInv
<1> SUFFICES ASSUME Init PROVE IInv
  OBVIOUS
<1> USE TriggerAssumption DEF Init
<1>1. TypeOK
  BY DEF TypeOK, NoRow, RowStatus, PC, Replies
<1>2. \A h \in Handlers : pc[h] = "idle"
  OBVIOUS
<1>3. \A m \in Messages : inbox[m] = [status |-> "NONE", run |-> NoRun]
  BY DEF NoRow
<1> QED
  BY <1>1, <1>2, <1>3 DEF IInv, StarterOwnsRow, RunBeforeLink, RowNamesOwnRun,
     DerivedRun, InboxIdsUnique, OneStarter, NamedRunExists, Starting

\* A step that leaves both tables alone, starts no run and answers with what
\* the message's row says, or with no run, keeps the invariant.
LEMMA QuietStep ==
    ASSUME IInv, TypeOK', UNCHANGED <<inbox, runs>>,
           \A h \in Handlers : pc'[h] \in {"createRun", "link"} =>
               pc'[h] = pc[h] /\ msg'[h] = msg[h],
           \A r \in replies' : r \in replies \/ r[3] = NoRun
               \/ (r[1] \in Messages /\ r[3] = inbox[r[1]].run)
    PROVE  IInv'
<1> USE DEF IInv
<1>1. StarterOwnsRow' /\ OneStarter'
  BY DEF StarterOwnsRow, OneStarter, Starting
<1>2. RunBeforeLink'
  BY DEF RunBeforeLink, RunId, InboxId
<1>3. (RowNamesOwnRun /\ DerivedRun /\ InboxIdsUnique)'
  BY DEF RowNamesOwnRun, DerivedRun, InboxIdsUnique
<1>4. NamedRunExists'
  BY DEF NamedRunExists, RowNamesOwnRun, TypeOK
<1> QED
  BY <1>1, <1>2, <1>3, <1>4

\* Every step keeps the invariant.
LEMMA NextIInv == IInv /\ [Next]_vars => IInv'
<1> SUFFICES ASSUME IInv, [Next]_vars PROVE IInv'
  OBVIOUS
<1> USE TriggerAssumption
<1>0. CASE UNCHANGED vars
  <2> USE <1>0 DEF vars
  <2>1. TypeOK'
    BY DEF IInv, TypeOK
  <2> QED
    BY <2>1, QuietStep
<1>1. ASSUME NEW h \in Handlers, NEW raw \in RawIds, Receive(h, raw) PROVE IInv'
  <2>1. TypeOK'
    BY <1>1 DEF IInv, TypeOK, Receive, Goto, PC, Replies
  <2>2. \A g \in Handlers : pc'[g] \in {"createRun", "link"} => pc'[g] = pc[g] /\ msg'[g] = msg[g]
    BY <1>1 DEF IInv, TypeOK, Receive, Goto
  <2>3. \A r \in replies' : r \in replies \/ r[3] = NoRun
    BY <1>1 DEF Receive
  <2> QED
    BY <1>1, <2>1, <2>2, <2>3, QuietStep DEF Receive
<1>2. ASSUME NEW h \in Handlers, NEW s \in {202, 400, 500}, NEW r \in RunIds \cup {NoRun},
             msg[h] \in Messages, r \in {NoRun, Row(h).run},
             Reply(h, s, r), UNCHANGED <<inbox, runs>>
      PROVE  IInv'
  <2>1. TypeOK'
    BY <1>2 DEF IInv, TypeOK, Reply, Finish, Goto, PC, Replies
  <2>2. \A g \in Handlers : pc'[g] \in {"createRun", "link"} => pc'[g] = pc[g] /\ msg'[g] = msg[g]
    BY <1>2 DEF IInv, TypeOK, Reply, Finish, Goto
  <2>3. \A q \in replies' : q \in replies \/ q[3] = NoRun \/ (q[1] \in Messages /\ q[3] = inbox[q[1]].run)
    BY <1>2 DEF Reply, Row
  <2> QED
    BY <1>2, <2>1, <2>2, <2>3, QuietStep
<1>3. ASSUME NEW h \in Handlers, NEW l \in {"insert", "refetch"},
             Goto(h, l), UNCHANGED <<inbox, runs, msg, replies>>, pc[h] # "idle"
      PROVE  IInv'
  <2>1. TypeOK'
    BY <1>3 DEF IInv, TypeOK, Goto, PC
  <2>2. \A g \in Handlers : pc'[g] \in {"createRun", "link"} => pc'[g] = pc[g] /\ msg'[g] = msg[g]
    BY <1>3 DEF IInv, TypeOK, Goto
  <2> QED
    BY <1>3, <2>1, <2>2, QuietStep
<1>4. ASSUME NEW h \in Handlers, SelectExisting(h) PROVE IInv'
  <2>1. pc[h] # "idle" /\ msg[h] \in Messages /\ Row(h).run \in RunIds \cup {NoRun}
    BY <1>4 DEF SelectExisting, IInv, TypeOK, Row
  <2> QED
    BY <1>4, <1>2, <1>3, <2>1 DEF SelectExisting
<1>5. ASSUME NEW h \in Handlers, InsertInbox(h) PROVE IInv'
  <2>1. CASE Goto(h, "refetch") /\ UNCHANGED <<inbox, runs, msg, replies>>
    BY <1>5, <1>3, <2>1 DEF InsertInbox
  <2>2. CASE /\ ~Found(h) /\ ~IdTaken(h)
             /\ inbox' = [inbox EXCEPT ![msg[h]] = [status |-> "RECEIVED", run |-> NoRun]]
             /\ Goto(h, "createRun")
             /\ UNCHANGED <<runs, msg, replies>>
    <3> DEFINE m == msg[h]
    <3>0. pc[h] = "insert" /\ m \in Messages
      BY <1>5 DEF InsertInbox, IInv, TypeOK
    <3>1. inbox[m].status = "NONE" /\ inbox[m].run = NoRun
      BY <2>2, <3>0 DEF Found, Row, IInv, RowNamesOwnRun
    <3>2. /\ \A n \in Messages \ {m} : inbox'[n] = inbox[n]
          /\ inbox'[m] = [status |-> "RECEIVED", run |-> NoRun]
      BY <2>2, <3>0 DEF IInv, TypeOK
    <3>3. /\ \A g \in Handlers \ {h} : pc'[g] = pc[g]
          /\ pc'[h] = "createRun"
      BY <2>2 DEF IInv, TypeOK, Goto
    <3>4. \A g \in Handlers : ~Starting(g, m)
      BY <3>1, <3>0 DEF IInv, StarterOwnsRow
    <3>5. TypeOK'
      BY <2>2, <3>0 DEF IInv, TypeOK, Goto, PC, RowStatus
    <3>6. \A g \in Handlers, n \in Messages :
              Starting(g, n)' <=> (Starting(g, n) \/ (g = h /\ n = m))
      BY <2>2, <3>0, <3>3 DEF Starting
    <3>7. StarterOwnsRow'
      BY <3>2, <3>4, <3>6 DEF IInv, StarterOwnsRow
    <3>8. OneStarter'
      BY <3>4, <3>6 DEF IInv, OneStarter
    <3>9. RunBeforeLink'
      BY <2>2, <3>3 DEF IInv, RunBeforeLink, RunId, InboxId
    <3>10. (RowNamesOwnRun /\ DerivedRun)'
      BY <3>2 DEF IInv, RowNamesOwnRun, DerivedRun
    <3>11. InboxIdsUnique'
      BY <2>2, <3>0, <3>1, <3>2 DEF IInv, InboxIdsUnique, IdTaken, InboxId
    <3>12. NamedRunExists'
      BY <2>2, <3>1, <3>2 DEF IInv, NamedRunExists, TypeOK
    <3> QED
      BY <3>5, <3>7, <3>8, <3>9, <3>10, <3>11, <3>12 DEF IInv
  <2> QED
    BY <1>5, <2>1, <2>2 DEF InsertInbox
<1>6. ASSUME NEW h \in Handlers, Refetch(h) PROVE IInv'
  <2>1. msg[h] \in Messages /\ Row(h).run \in RunIds \cup {NoRun}
    BY <1>6 DEF Refetch, IInv, TypeOK, Row
  <2> QED
    BY <1>6, <1>2, <2>1 DEF Refetch
<1>7. ASSUME NEW h \in Handlers, CreateRun(h) PROVE IInv'
  <2>0. pc[h] = "createRun" /\ msg[h] \in Messages /\ RunId(h) \in RunIds
    BY <1>7 DEF CreateRun, IInv, TypeOK, RunId, InboxId
  <2>1. /\ \A g \in Handlers \ {h} : pc'[g] = pc[g]
        /\ pc'[h] = "link"
        /\ runs' = runs \cup {RunId(h)}
        /\ UNCHANGED <<inbox, msg, replies>>
    BY <1>7 DEF CreateRun, Goto, IInv, TypeOK
  <2>2. TypeOK'
    BY <1>7, <2>0, <2>1 DEF CreateRun, Goto, IInv, TypeOK, PC
  <2>3. \A g \in Handlers, n \in Messages : Starting(g, n)' <=> Starting(g, n)
    BY <2>0, <2>1 DEF Starting
  <2>4. (StarterOwnsRow /\ OneStarter)'
    BY <2>1, <2>3 DEF IInv, StarterOwnsRow, OneStarter
  <2>5. RunBeforeLink'
    BY <2>1 DEF IInv, RunBeforeLink, RunId, InboxId
  <2>6. (RowNamesOwnRun /\ DerivedRun /\ InboxIdsUnique)'
    BY <2>1 DEF IInv, RowNamesOwnRun, DerivedRun, InboxIdsUnique
  <2>7. NamedRunExists'
    BY <2>1 DEF IInv, NamedRunExists
  <2> QED
    BY <2>2, <2>4, <2>5, <2>6, <2>7 DEF IInv
<1>8. ASSUME NEW h \in Handlers, LinkRun(h) PROVE IInv'
  <2> DEFINE m == msg[h]
             r == RunId(h)
  <2>0. pc[h] = "link" /\ m \in Messages /\ r \in RunIds /\ r \in runs /\ r # NoRun
        /\ r = RunIdOf[InboxIdOf[m]]
    BY <1>8 DEF LinkRun, IInv, TypeOK, RunId, InboxId, RunBeforeLink
  <2>1. Starting(h, m) /\ inbox[m].run = NoRun
    BY <2>0 DEF Starting, IInv, StarterOwnsRow
  <2>2. /\ \A n \in Messages \ {m} : inbox'[n] = inbox[n]
        /\ inbox'[m] = [status |-> "PROCESSED", run |-> r]
        /\ \A g \in Handlers \ {h} : pc'[g] = pc[g] /\ msg'[g] = msg[g]
        /\ pc'[h] = "idle"
        /\ runs' = runs
        /\ replies' = replies \cup {<<m, 202, r>>}
    BY <1>8, <2>0 DEF LinkRun, Reply, Finish, Goto, IInv, TypeOK
  <2>3. TypeOK'
    BY <1>8, <2>0 DEF LinkRun, Reply, Finish, Goto, IInv, TypeOK, PC, RowStatus, Replies
  <2>4. \A g \in Handlers, n \in Messages : Starting(g, n)' => Starting(g, n) /\ n # m
    BY <2>1, <2>2 DEF Starting, IInv, OneStarter
  <2>5. (StarterOwnsRow /\ OneStarter)'
    BY <2>2, <2>4 DEF IInv, StarterOwnsRow, OneStarter
  <2>6. RunBeforeLink'
    BY <2>2 DEF IInv, RunBeforeLink, RunId, InboxId
  <2>7. (RowNamesOwnRun /\ DerivedRun)'
    BY <2>0, <2>2 DEF IInv, RowNamesOwnRun, DerivedRun
  <2>8. InboxIdsUnique'
    BY <2>1, <2>2 DEF IInv, InboxIdsUnique, StarterOwnsRow
  <2>9. NamedRunExists'
    <3>1. \A n \in Messages : inbox'[n].status = "PROCESSED" => inbox'[n].run \in runs'
      BY <2>0, <2>2 DEF IInv, NamedRunExists
    <3>2. \A q \in replies : q[3] # NoRun =>
              q[1] \in Messages /\ q[3] \in runs' /\ inbox'[q[1]].run = q[3]
      <4> SUFFICES ASSUME NEW q \in replies, q[3] # NoRun
                   PROVE  q[1] \in Messages /\ q[3] \in runs' /\ inbox'[q[1]].run = q[3]
        OBVIOUS
      <4>1. q[1] \in Messages /\ q[3] \in runs /\ inbox[q[1]].run = q[3]
        BY DEF IInv, NamedRunExists
      <4>2. q[1] # m
        BY <4>1, <2>1
      <4> QED
        BY <4>1, <4>2, <2>2
    <3> QED
      BY <2>0, <2>2, <3>1, <3>2 DEF NamedRunExists
  <2> QED
    BY <2>3, <2>5, <2>6, <2>7, <2>8, <2>9 DEF IInv
<1>9. ASSUME NEW h \in Handlers, QueryFails(h) PROVE IInv'
  <2>1. msg[h] \in Messages
    BY <1>9 DEF QueryFails, IInv, TypeOK
  <2> QED
    BY <1>9, <1>2, <2>1 DEF QueryFails
<1>10. ASSUME NEW h \in Handlers, Crash(h) PROVE IInv'
  <2>1. TypeOK'
    BY <1>10 DEF IInv, TypeOK, Crash, Finish, Goto, PC
  <2>2. \A g \in Handlers : pc'[g] \in {"createRun", "link"} => pc'[g] = pc[g] /\ msg'[g] = msg[g]
    BY <1>10 DEF IInv, TypeOK, Crash, Finish, Goto
  <2> QED
    BY <1>10, <2>1, <2>2, QuietStep DEF Crash
<1> QED
  BY <1>0, <1>1, <1>4, <1>5, <1>6, <1>7, <1>8, <1>9, <1>10 DEF Next, Handle

\* The strengthened invariant of the trigger inbox holds of every behaviour of
\* the statement-level handlers.
THEOREM InboxInvariant == Spec => []IInv
  BY InitIInv, NextIInv, PTL DEF Spec

\* insertTriggerInbox lets one handler at most go on to start the workflow of a
\* message, for any number of concurrent deliveries, crashes and failures.
THEOREM SingleStart == Spec => []OneStarter
<1>1. IInv => OneStarter
  BY DEF IInv
<1> QED
  BY <1>1, InboxInvariant, PTL

\* A run id in the inbox or in a response always names an existing run.
THEOREM NamedRunsExist == Spec => []NamedRunExists
<1>1. IInv => NamedRunExists
  BY DEF IInv
<1> QED
  BY <1>1, InboxInvariant, PTL

\* Messages never share a run, whether or not their inbox ids collide.
THEOREM RunsUnshared == Spec => []RunsAreNotShared
<1>1. IInv => RunsAreNotShared
  <2> SUFFICES ASSUME IInv, NEW m \in Messages, NEW n \in Messages,
                      inbox[m].run # NoRun, inbox[m].run = inbox[n].run
               PROVE  m = n
    BY DEF RunsAreNotShared
  <2>1. inbox[m].status = "PROCESSED" /\ inbox[n].status = "PROCESSED"
    BY DEF IInv, RowNamesOwnRun
  <2>2. RunIdOf[InboxIdOf[m]] = RunIdOf[InboxIdOf[n]]
    BY <2>1 DEF IInv, DerivedRun
  <2>3. InboxIdOf[m] = InboxIdOf[n]
    BY <2>2, TriggerAssumption
  <2> QED
    BY <2>1, <2>3 DEF IInv, InboxIdsUnique
<1> QED
  BY <1>1, InboxInvariant, PTL
=============================================================================
