------------------------------- MODULE Outbox -------------------------------
(***************************************************************************)
(* One entry of the notification outbox: commitAlertTransaction and        *)
(* processOutboxEntry of packages/alerts/src/outbox.ts.  Workers call      *)
(* processOutboxEntry for the entry again and again; each call is a        *)
(* SELECT, a call of the notification adapter and an UPDATE, and other     *)
(* workers run in between.  The adapter is external: it accepts a message, *)
(* refuses it, or throws, in which case the message may have gone out.     *)
(***************************************************************************)
EXTENDS Naturals

CONSTANTS Workers,        \* delivery workers
          Crashing,       \* the workers that may die
          AdapterThrows,  \* whether the adapter may throw
          MaxRetries,     \* options.maxRetries
          AvailableAt,    \* available_at of the entry
          MaxTime,        \* bound: the clock stops here
          MaxCalls        \* bound: calls of the adapter

ASSUME OutboxAssumption ==
    /\ Crashing \subseteq Workers
    /\ AdapterThrows \in BOOLEAN
    /\ MaxRetries \in Nat \ {0}
    /\ AvailableAt \in Nat /\ MaxTime \in Nat /\ MaxCalls \in Nat

VARIABLES row,     \* the outbox row
          clock,
          pc,      \* where each worker is in processOutboxEntry
          seen,    \* the attempt_count it read
          calls,   \* calls of the adapter so far
          sent     \* messages that went out so far

vars == <<row, clock, pc, seen, calls, sent>>

\* The states the CHECK constraint of the outbox table admits.
AdmittedStates == {"PENDING", "DELIVERED", "RETRY", "EXPIRED"}

PC == {"idle", "enqueue", "delivered", "failed"}

NoRow == [state |-> "ABSENT", attempts |-> 0, shadow |-> FALSE]

Init ==
    /\ row = NoRow
    /\ clock = 0
    /\ pc = [w \in Workers |-> "idle"]
    /\ seen = [w \in Workers |-> 0]
    /\ calls = 0
    /\ sent = 0

-----------------------------------------------------------------------------
Goto(w, l) == pc' = [pc EXCEPT ![w] = l]

Return(w) ==
    /\ Goto(w, "idle")
    /\ seen' = [seen EXCEPT ![w] = 0]

\* commitAlertTransaction inserts decision, alert and entry together, each with
\* ON CONFLICT DO NOTHING: repeating it changes nothing.
CommitAlert(shadow) ==
    /\ row' = IF row.state = "ABSENT"
              THEN [state |-> "PENDING", attempts |-> 0, shadow |-> shadow] ELSE row
    /\ UNCHANGED <<clock, pc, seen, calls, sent>>

\* Mutant: available_at is ignored.
DispatchableEarly == row.state \notin {"ABSENT", "DELIVERED", "CANCELLED", "FAILED"}

\* The entry is there, not in a final state, and its time has come.
Dispatchable ==
    /\ row.state \notin {"ABSENT", "DELIVERED", "CANCELLED", "FAILED"}
    /\ clock >= AvailableAt

\* SELECT and the checks after it.  In shadow mode the adapter is not called
\* and the delivery counts as accepted.
Fetch(w) ==
    /\ pc[w] = "idle"
    /\ Dispatchable
    /\ seen' = [seen EXCEPT ![w] = row.attempts]
    /\ Goto(w, IF row.shadow THEN "delivered" ELSE "enqueue")
    /\ UNCHANGED <<row, clock, calls, sent>>

\* Mutant: a refusal counts as a delivery.
EnqueueUnchecked(w) ==
    /\ pc[w] = "enqueue"
    /\ calls < MaxCalls
    /\ calls' = calls + 1
    /\ sent' \in {sent, sent + 1}
    /\ Goto(w, "delivered")
    /\ UNCHANGED <<row, clock, seen>>

\* The adapter accepts or refuses the message, or throws.
Enqueue(w) ==
    /\ pc[w] = "enqueue"
    /\ calls < MaxCalls
    /\ calls' = calls + 1
    /\ \/ /\ sent' = sent + 1
          /\ Goto(w, "delivered")
          /\ UNCHANGED seen
       \/ /\ Goto(w, "failed")
          /\ UNCHANGED <<seen, sent>>
       \/ /\ AdapterThrows
          /\ sent' \in {sent, sent + 1}
          /\ Return(w)
    /\ UNCHANGED <<row, clock>>

\* UPDATE ... SET state='DELIVERED', with the attempt count read before.
MarkDelivered(w) ==
    /\ pc[w] = "delivered"
    /\ row' = [row EXCEPT !.state = "DELIVERED", !.attempts = seen[w] + 1]
    /\ Return(w)
    /\ UNCHANGED <<clock, calls, sent>>

\* Mutant: one attempt more than allowed.
NextStateLate(w) == IF seen[w] + 1 > MaxRetries THEN "FAILED" ELSE "RETRY"

NextState(w) == IF seen[w] + 1 >= MaxRetries THEN "FAILED" ELSE "RETRY"

\* UPDATE ... SET state=nextState; a state the CHECK constraint does not admit
\* makes the statement, and with it the call, fail.
MarkFailed(w) ==
    /\ pc[w] = "failed"
    /\ row' = IF NextState(w) \in AdmittedStates
              THEN [row EXCEPT !.state = NextState(w), !.attempts = seen[w] + 1] ELSE row
    /\ Return(w)
    /\ UNCHANGED <<clock, calls, sent>>

Crash(w) ==
    /\ w \in Crashing
    /\ pc[w] # "idle"
    /\ Return(w)
    /\ UNCHANGED <<row, clock, calls, sent>>

Tick ==
    /\ clock < MaxTime
    /\ clock' = clock + 1
    /\ UNCHANGED <<row, pc, seen, calls, sent>>

Process(w) == Fetch(w) \/ Enqueue(w) \/ MarkDelivered(w) \/ MarkFailed(w)

Next ==
    \/ \E shadow \in BOOLEAN : CommitAlert(shadow)
    \/ \E w \in Workers : Process(w) \/ Crash(w)
    \/ Tick

Spec == Init /\ [][Next]_vars

-----------------------------------------------------------------------------
\* The outbox row and the workers' places have their types; in particular the
\* row only has a state that the CHECK of the outbox table admits.
TypeOK ==
    /\ row \in [state : AdmittedStates \cup {"ABSENT"}, attempts : Nat, shadow : BOOLEAN]
    /\ clock \in Nat
    /\ pc \in [Workers -> PC]
    /\ seen \in [Workers -> Nat]
    /\ calls \in Nat
    /\ sent \in Nat

\* No notification is lost: an entry is DELIVERED only after a message went
\* out, however many workers race on it or die.
DeliveredWasSent == row.state = "DELIVERED" => row.shadow \/ sent > 0

\* Nothing goes out for an entry that is in shadow mode, not committed or not
\* yet due.
SentOnlyWhenDue ==
    calls > 0 => row.state # "ABSENT" /\ ~row.shadow /\ clock >= AvailableAt

\* The attempt count never runs ahead of the calls of the adapter, nor past
\* maxRetries, whichever of the racing workers writes last.
AttemptsAreCalls ==
    /\ ~row.shadow => row.attempts <= calls
    /\ row.attempts <= MaxRetries

\* The adapter is called at most maxRetries times for an entry.
RetriesStop == calls <= MaxRetries

-----------------------------------------------------------------------------
(* The strengthening that makes the safety properties inductive. *)

\* A worker past the SELECT read an attempt count that later counts only
\* overtake, and has a call or a shadow delivery to show for it.
WorkersAreDue ==
    \A w \in Workers : pc[w] # "idle" =>
        /\ row.state # "ABSENT" /\ clock >= AvailableAt
        /\ pc[w] \in {"enqueue", "failed"} => ~row.shadow
        /\ seen[w] < MaxRetries
        /\ ~row.shadow => seen[w] + (IF pc[w] = "enqueue" THEN 0 ELSE 1) <= calls
        /\ pc[w] = "delivered" => row.shadow \/ sent > 0

\* An entry that is not DELIVERED has an attempt left.
AttemptLeft == row.state # "DELIVERED" => row.attempts < MaxRetries

\* The inductive invariant: processOutboxEntry works on a row whose state,
\* attempts and sends agree, whoever is between two of its statements.
IInv ==
    /\ TypeOK /\ WorkersAreDue /\ AttemptLeft
    /\ DeliveredWasSent /\ SentOnlyWhenDue /\ AttemptsAreCalls
=============================================================================
