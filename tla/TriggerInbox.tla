---------------------------- MODULE TriggerInbox ----------------------------
(***************************************************************************)
(* The trigger inbox: POST /api/v1/internal/schedules/trigger of           *)
(* apps/api/src/app.ts and handleTriggerInboxRequest, insertTriggerInbox,  *)
(* createWorkflowRun and linkTriggerToRun of                               *)
(* packages/workflow-runtime/src/index.ts, one action per SQL statement.   *)
(* QStash delivers a message at least once, so several handlers may work   *)
(* on the same message at the same time.                                   *)
(***************************************************************************)
EXTENDS Naturals

CONSTANTS Handlers,    \* concurrent requests
          RawIds,      \* external message ids as they arrive
          Messages,    \* canonical external message ids
          Invalid,     \* what canonicalising a blank or overlong id gives
          Canonical,   \* canonicalizeExternalMessageId
          InboxIds,    \* primary keys of trigger_inbox
          InboxIdOf,   \* the inbox id derived from a canonical id (prefix and hash)
          RunIds,      \* primary keys of workflow_runs
          RunIdOf,     \* the run id derived from an inbox id
          NoRun,       \* no run linked
          Faults       \* the faults that occur, a subset of {"crash", "query"}

ASSUME TriggerAssumption ==
    /\ Canonical \in [RawIds -> Messages \cup {Invalid}]
    /\ Invalid \notin Messages
    /\ InboxIdOf \in [Messages -> InboxIds]
    /\ RunIdOf \in [InboxIds -> RunIds]
    /\ \A i, j \in InboxIds : RunIdOf[i] = RunIdOf[j] => i = j
    /\ NoRun \notin RunIds
    /\ Faults \subseteq {"crash", "query"}

VARIABLES inbox,    \* trigger_inbox by external_message_id
          runs,     \* workflow_runs: the ids present
          pc,       \* where each handler is
          msg,      \* the canonical id it handles
          replies   \* the responses sent: <<message, status, run>>

vars == <<inbox, runs, pc, msg, replies>>

PC == {"idle", "select", "insert", "refetch", "createRun", "link"}
RowStatus == {"NONE", "RECEIVED", "PROCESSED"}
NoRow == [status |-> "NONE", run |-> NoRun]
Replies == (Messages \cup {Invalid}) \X {202, 400, 500} \X (RunIds \cup {NoRun})

Init ==
    /\ inbox = [m \in Messages |-> NoRow]
    /\ runs = {}
    /\ pc = [h \in Handlers |-> "idle"]
    /\ msg = [h \in Handlers |-> Invalid]
    /\ replies = {}

-----------------------------------------------------------------------------
Row(h) == inbox[msg[h]]
Found(h) == Row(h).status # "NONE"
InboxId(h) == InboxIdOf[msg[h]]
RunId(h) == RunIdOf[InboxId(h)]

Goto(h, l) == pc' = [pc EXCEPT ![h] = l]

Finish(h) ==
    /\ Goto(h, "idle")
    /\ msg' = [msg EXCEPT ![h] = Invalid]

Reply(h, status, r) ==
    /\ Finish(h)
    /\ replies' = replies \cup {<<msg[h], status, r>>}

\* A request arrives; a blank or overlong id is answered 400.
Receive(h, raw) ==
    /\ pc[h] = "idle"
    /\ \/ /\ Canonical[raw] # Invalid
          /\ msg' = [msg EXCEPT ![h] = Canonical[raw]]
          /\ Goto(h, "select")
          /\ UNCHANGED replies
       \/ /\ Canonical[raw] = Invalid
          /\ replies' = replies \cup {<<Invalid, 400, NoRun>>}
          /\ UNCHANGED <<pc, msg>>
    /\ UNCHANGED <<inbox, runs>>

\* SELECT before INSERT: a message already in the inbox is a duplicate,
\* answered with the run linked so far.
SelectExisting(h) ==
    /\ pc[h] = "select"
    /\ \/ /\ Found(h)
          /\ Reply(h, 202, Row(h).run)
       \/ /\ ~Found(h)
          /\ Goto(h, "insert")
          /\ UNCHANGED <<msg, replies>>
    /\ UNCHANGED <<inbox, runs>>

\* Mutant: the INSERT replaces the row of a concurrent handler.
InsertInboxUpsert(h) ==
    /\ pc[h] = "insert"
    /\ inbox' = [inbox EXCEPT ![msg[h]] = [status |-> "RECEIVED", run |-> NoRun]]
    /\ Goto(h, "createRun")
    /\ UNCHANGED <<runs, msg, replies>>

\* Mutant: inbox ids are not unique.
IdTakenNever(h) == h \notin Handlers

\* The inbox id is taken by another message: a primary key violation.
IdTaken(h) ==
    \E m \in Messages : m # msg[h] /\ inbox[m].status # "NONE" /\ InboxIdOf[m] = InboxId(h)

\* INSERT ... ON CONFLICT (external_message_id) DO NOTHING; an error, a primary
\* key violation among them, is swallowed.
InsertInbox(h) ==
    /\ pc[h] = "insert"
    /\ \/ /\ ~Found(h) /\ ~IdTaken(h)
          /\ inbox' = [inbox EXCEPT ![msg[h]] = [status |-> "RECEIVED", run |-> NoRun]]
          /\ Goto(h, "createRun")
       \/ /\ Found(h) \/ IdTaken(h) \/ "query" \in Faults
          /\ Goto(h, "refetch")
          /\ UNCHANGED inbox
    /\ UNCHANGED <<runs, msg, replies>>

\* SELECT after the race; no row is TRIGGER_INBOX_CONSISTENCY_ERROR.
Refetch(h) ==
    /\ pc[h] = "refetch"
    /\ \/ Found(h) /\ Reply(h, 202, Row(h).run)
       \/ ~Found(h) /\ Reply(h, 500, NoRun)
    /\ UNCHANGED <<inbox, runs>>

\* Mutant: the inbox row is linked before the run is created.
CreateRunLate(h) ==
    /\ pc[h] = "createRun"
    /\ Goto(h, "link")
    /\ UNCHANGED <<inbox, runs, msg, replies>>

\* createWorkflowRun: INSERT ... ON CONFLICT (id) DO NOTHING.
CreateRun(h) ==
    /\ pc[h] = "createRun"
    /\ runs' = runs \cup {RunId(h)}
    /\ Goto(h, "link")
    /\ UNCHANGED <<inbox, msg, replies>>

\* linkTriggerToRun, and the 202 response.
LinkRun(h) ==
    /\ pc[h] = "link"
    /\ inbox' = [inbox EXCEPT ![msg[h]] = [status |-> "PROCESSED", run |-> RunId(h)]]
    /\ Reply(h, 202, RunId(h))
    /\ UNCHANGED runs

\* A query other than the INSERT into the inbox rejects: the route answers 500.
QueryFails(h) ==
    /\ "query" \in Faults
    /\ pc[h] \in {"select", "refetch", "createRun", "link"}
    /\ Reply(h, 500, NoRun)
    /\ UNCHANGED <<inbox, runs>>

\* The API process dies; no response is sent.
Crash(h) ==
    /\ "crash" \in Faults
    /\ pc[h] # "idle"
    /\ Finish(h)
    /\ UNCHANGED <<inbox, runs, replies>>

Handle(h) ==
    SelectExisting(h) \/ InsertInbox(h) \/ Refetch(h) \/ CreateRun(h) \/ LinkRun(h)

Next ==
    \E h \in Handlers :
        \/ \E raw \in RawIds : Receive(h, raw)
        \/ Handle(h) \/ QueryFails(h) \/ Crash(h)

Spec == Init /\ [][Next]_vars

-----------------------------------------------------------------------------
\* Inbox rows, runs, handlers and replies have their types; a handler works on
\* the canonical id of its message, never on the header it arrived in.
TypeOK ==
    /\ inbox \in [Messages -> [status : RowStatus, run : RunIds \cup {NoRun}]]
    /\ runs \subseteq RunIds
    /\ pc \in [Handlers -> PC]
    /\ msg \in [Handlers -> Messages \cup {Invalid}]
    /\ \A h \in Handlers : pc[h] # "idle" => msg[h] \in Messages
    /\ replies \subseteq Replies

\* A handler between its INSERT into the inbox and the link to the run.
Starting(h, m) == pc[h] \in {"createRun", "link"} /\ msg[h] = m

\* However many deliveries of a message are handled at the same time, one of
\* them at most starts the workflow.
OneStarter ==
    \A g, h \in Handlers, m \in Messages : Starting(g, m) /\ Starting(h, m) => g = h

\* Two messages never end up on the same run, even when their inbox ids
\* collide: the primary key stops the second one.
RunsAreNotShared ==
    \A m, n \in Messages :
        inbox[m].run # NoRun /\ inbox[m].run = inbox[n].run => m = n

\* Whoever is given a run id, in the inbox or in a response, is given the id of
\* a run that exists, and all 202 responses for a message that name a run name
\* the same one.
NamedRunExists ==
    /\ \A m \in Messages : inbox[m].status = "PROCESSED" => inbox[m].run \in runs
    /\ \A r \in replies : r[3] # NoRun =>
           r[1] \in Messages /\ r[3] \in runs /\ inbox[r[1]].run = r[3]

\* A message answered 202 has a workflow run, or a handler that is about to
\* start one.
AcceptedIsStarted ==
    \A r \in replies : r[2] = 202 =>
        RunIdOf[InboxIdOf[r[1]]] \in runs \/ \E h \in Handlers : Starting(h, r[1])

-----------------------------------------------------------------------------
(* The strengthening that makes the safety properties inductive. *)

\* A handler that starts a run owns the RECEIVED row of its message.
StarterOwnsRow ==
    \A h \in Handlers, m \in Messages :
        Starting(h, m) => inbox[m] = [status |-> "RECEIVED", run |-> NoRun]

\* The run is there before the link.
RunBeforeLink ==
    \A h \in Handlers : pc[h] = "link" => RunId(h) \in runs

\* A linked row carries the run id derived from its message.
RowNamesOwnRun ==
    \A m \in Messages : inbox[m].run # NoRun <=> inbox[m].status = "PROCESSED"

DerivedRun ==
    \A m \in Messages : inbox[m].status = "PROCESSED" => inbox[m].run = RunIdOf[InboxIdOf[m]]

\* Rows present in the inbox have inbox ids of their own.
InboxIdsUnique ==
    \A m, n \in Messages :
        inbox[m].status # "NONE" /\ inbox[n].status # "NONE" /\ InboxIdOf[m] = InboxIdOf[n]
            => m = n

\* The inductive invariant of handleTriggerInboxRequest: one starter per row,
\* and a run is created before it is linked.
IInv ==
    /\ TypeOK /\ StarterOwnsRow /\ RunBeforeLink /\ RowNamesOwnRun /\ DerivedRun
    /\ InboxIdsUnique /\ OneStarter /\ NamedRunExists
=============================================================================
