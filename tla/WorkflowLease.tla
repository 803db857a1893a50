--------------------------- MODULE WorkflowLease ---------------------------
(***************************************************************************)
(* acquireLease and renewLease of packages/workflow-runtime/src/index.ts,  *)
(* for one lease key, one action per SQL statement.  A caller reads its    *)
(* clock, then reads the row, then writes it with a compare-and-swap on    *)
(* the version; any other caller may run between two statements.  A caller *)
(* is one thread of a worker; OwnerOf gives the identity it passes, and    *)
(* several callers may share one.                                          *)
(***************************************************************************)
EXTENDS FencedLease

CONSTANTS Callers,     \* concurrent callers
          OwnerOf,     \* the owner argument each caller passes
          MaxTime,     \* bound: the clock stops here
          MaxVersion   \* bound: no call starts at this version or above

ASSUME CallersAssumption ==
    /\ OwnerOf \in [Callers -> Owners]
    /\ MaxTime \in Nat
    /\ MaxVersion \in Nat

VARIABLES pc,      \* where each caller is in its call
          at,      \* the `now` argument of its call
          row,     \* the row as it last read it
          token    \* the LeaseAcquireResult it last got

callVars == <<pc, at, row, token>>
vars == <<lease, clock, pc, at, row, token>>

PC == {"idle", "select", "renew", "takeover", "insert", "reselect", "reread"}

NoToken == [acquired |-> FALSE, version |-> 0, expiresAt |-> 0]
Token == [acquired : BOOLEAN, version : Nat, expiresAt : Nat]

Init ==
    /\ LeaseInit
    /\ pc = [c \in Callers |-> "idle"]
    /\ at = [c \in Callers |-> 0]
    /\ row = [c \in Callers |-> NoLease]
    /\ token = [c \in Callers |-> NoToken]

-----------------------------------------------------------------------------
Goto(c, l) == pc' = [pc EXCEPT ![c] = l]

Result(ok, r) == [acquired |-> ok, version |-> r.version, expiresAt |-> r.expiresAt]

Return(c, t) ==
    /\ Goto(c, "idle")
    /\ token' = [token EXCEPT ![c] = t]

\* acquireLease is called with the time as the caller sees it now.
Call(c) ==
    /\ pc[c] = "idle"
    /\ lease.version < MaxVersion
    /\ at' = [at EXCEPT ![c] = clock]
    /\ Goto(c, "select")
    /\ UNCHANGED <<lease, clock, row, token>>

HeldByOther(c) == ~Expired(lease, at[c]) /\ lease.owner # OwnerOf[c]

\* The first SELECT: refuse, go on to renew one's own lease, to take over an
\* expired one, or to insert the row.
SelectLease(c) ==
    /\ pc[c] = "select"
    /\ \/ /\ Exists /\ HeldByOther(c)
          /\ Return(c, Result(FALSE, lease))
          /\ UNCHANGED row
       \/ /\ Exists /\ ~HeldByOther(c)
          /\ Goto(c, IF Expired(lease, at[c]) THEN "takeover" ELSE "renew")
          /\ row' = [row EXCEPT ![c] = lease]
          /\ UNCHANGED token
       \/ /\ ~Exists
          /\ Goto(c, "insert")
          /\ UNCHANGED <<row, token>>
    /\ UNCHANGED <<lease, clock, at>>

\* Mutant: the UPDATE is not guarded by the version.
CasHitsAlways(c) == c \in Callers

CasHits(c) == lease.version = row[c].version

Written(c, o) ==
    [owner |-> o, version |-> row[c].version + 1, expiresAt |-> at[c] + Ttl]

\* UPDATE ... WHERE version = the version read; the owner column is not set.
RenewOwn(c) ==
    /\ pc[c] = "renew"
    /\ CasHits(c)
    /\ lease' = Written(c, lease.owner)
    /\ Return(c, Result(TRUE, Written(c, OwnerOf[c])))
    /\ UNCHANGED <<clock, at, row>>

\* UPDATE ... WHERE version = the version read, setting the owner.
TakeOver(c) ==
    /\ pc[c] = "takeover"
    /\ CasHits(c)
    /\ lease' = Written(c, OwnerOf[c])
    /\ Return(c, Result(TRUE, Written(c, OwnerOf[c])))
    /\ UNCHANGED <<clock, at, row>>

CasMiss(c) ==
    /\ pc[c] \in {"renew", "takeover"}
    /\ ~CasHits(c)
    /\ Goto(c, "reread")
    /\ UNCHANGED <<lease, clock, at, row, token>>

\* Mutant: the re-read row is returned as acquired whoever owns it.
RereadAnyOwner(c) ==
    /\ pc[c] = "reread"
    /\ Return(c, Result(TRUE, lease))
    /\ UNCHANGED <<lease, clock, at, row>>

\* After a lost compare-and-swap: acquired exactly when the row names us.
Reread(c) ==
    /\ pc[c] = "reread"
    /\ Return(c, Result(lease.owner = OwnerOf[c], lease))
    /\ UNCHANGED <<lease, clock, at, row>>

\* INSERT ... ON CONFLICT DO NOTHING.
InsertLease(c) ==
    /\ pc[c] = "insert"
    /\ \/ /\ ~Exists
          /\ lease' = [owner |-> OwnerOf[c], version |-> 1, expiresAt |-> at[c] + Ttl]
          /\ Return(c, Result(TRUE, lease'))
       \/ /\ Exists
          /\ Goto(c, "reselect")
          /\ UNCHANGED <<lease, token>>
    /\ UNCHANGED <<clock, at, row>>

\* The INSERT throws and the error is swallowed.
InsertFails(c) ==
    /\ pc[c] = "insert"
    /\ Goto(c, "reselect")
    /\ UNCHANGED <<lease, clock, at, row, token>>

\* The SELECT after a lost INSERT; with no row it dereferences undefined and
\* the call rejects.
Reselect(c) ==
    /\ pc[c] = "reselect"
    /\ \/ /\ ~Exists
          /\ Return(c, NoToken)
          /\ UNCHANGED row
       \/ /\ Exists /\ HeldByOther(c)
          /\ Return(c, Result(FALSE, lease))
          /\ UNCHANGED row
       \/ /\ Exists /\ ~HeldByOther(c)
          /\ Goto(c, "takeover")
          /\ row' = [row EXCEPT ![c] = lease]
          /\ UNCHANGED token
    /\ UNCHANGED <<lease, clock, at>>

\* Mutant: renewLease only extends the expiry.
RenewLeaseSameVersion(c, t) ==
    /\ pc[c] = "idle"
    /\ token[c].acquired
    /\ lease.owner = OwnerOf[c] /\ lease.version = token[c].version
    /\ lease' = [lease EXCEPT !.expiresAt = t + Ttl]
    /\ token' = [token EXCEPT ![c] = Result(TRUE, lease')]
    /\ UNCHANGED <<clock, pc, at, row>>

\* renewLease is one UPDATE guarded by owner and version, not by the expiry;
\* it returns null when nothing matches.
RenewLease(c, t) ==
    /\ pc[c] = "idle"
    /\ token[c].acquired
    /\ lease.version < MaxVersion
    /\ \/ /\ lease.owner = OwnerOf[c] /\ lease.version = token[c].version
          /\ lease' = [lease EXCEPT !.version = @ + 1, !.expiresAt = t + Ttl]
          /\ token' = [token EXCEPT ![c] = Result(TRUE, lease')]
       \/ /\ ~(lease.owner = OwnerOf[c] /\ lease.version = token[c].version)
          /\ token' = [token EXCEPT ![c] = NoToken]
          /\ UNCHANGED lease
    /\ UNCHANGED <<clock, pc, at, row>>

\* The process dies between two statements and forgets its call and token.
Crash(c) ==
    /\ pc[c] # "idle" \/ token[c].acquired
    /\ Return(c, NoToken)
    /\ UNCHANGED <<lease, clock, at, row>>

Elapse ==
    /\ clock < MaxTime
    /\ Tick
    /\ UNCHANGED callVars

Step(c) ==
    \/ Call(c) \/ SelectLease(c) \/ RenewOwn(c) \/ TakeOver(c) \/ CasMiss(c)
    \/ Reread(c) \/ InsertLease(c) \/ InsertFails(c) \/ Reselect(c)
    \/ (\E t \in 0..clock : RenewLease(c, t))
    \/ Crash(c)

Next == Elapse \/ \E c \in Callers : Step(c)

Spec == Init /\ [][Next]_vars

-----------------------------------------------------------------------------
\* The lease row, the clock and the callers' local variables have their types;
\* in particular the expiry that acquireLease and renewLease write is a time.
TypeOK ==
    /\ lease \in LeaseRow
    /\ clock \in Nat
    /\ pc \in [Callers -> PC]
    /\ at \in [Callers -> Nat]
    /\ row \in [Callers -> LeaseRow]
    /\ token \in [Callers -> Token]

\* A fencing version is a capability of one owner: whatever calls lost their
\* compare-and-swap and fell back on re-reading the row, two callers that
\* were told `acquired` with the same version are threads of the same owner.
FencingTokenExclusive ==
    \A c, d \in Callers :
        token[c].acquired /\ token[d].acquired /\ token[c].version = token[d].version
            => OwnerOf[c] = OwnerOf[d]

\* Where every worker has its own identity and makes one call at a time, two
\* workers never both hold a result that says `acquired` and has not expired,
\* however late the statements of a call run after its clock was read.
AtMostOneLiveHolder ==
    \A c, d \in Callers :
        /\ token[c].acquired /\ clock < token[c].expiresAt
        /\ token[d].acquired /\ clock < token[d].expiresAt
        => OwnerOf[c] = OwnerOf[d]

\* The statements of acquireLease and renewLease implement the atomic grant:
\* each write of the row takes the next version, and an unexpired lease of
\* another owner is never taken over, although the write does not look at the
\* expiry again.
ImplementsFencedLease == LeaseSpec

-----------------------------------------------------------------------------
(* The strengthening that makes the properties above inductive. *)

\* The row exists exactly when it has an owner.
RowWellFormed == Exists <=> lease.owner \in Owners

\* A clock reading is never ahead of the clock.
ReadingsArePast == \A c \in Callers : at[c] <= clock

\* A stale read that would still pass the compare-and-swap is not stale: the
\* version identifies the whole row, because every write takes a new one.
VersionIdentifiesRow ==
    \A c \in Callers : pc[c] \in {"renew", "takeover"} =>
        /\ row[c].version \in 1..lease.version
        /\ CasHits(c) => row[c] = lease

\* What the SELECT established about the row it read.
ReadJustifiesWrite ==
    \A c \in Callers :
        /\ pc[c] = "renew" => row[c].owner = OwnerOf[c]
        /\ pc[c] = "takeover" => row[c].owner = OwnerOf[c] \/ Expired(row[c], at[c])
        /\ pc[c] = "reread" => Exists

\* A granted version is in the past, and the newest belongs to the row's owner.
TokensAreGrants ==
    \A c \in Callers : token[c].acquired =>
        /\ token[c].version \in 1..lease.version
        /\ token[c].version = lease.version => lease.owner = OwnerOf[c]

\* The inductive invariant of acquireLease and renewLease: a row read earlier is
\* older than, or equal to, the row that is there, and tokens name grants.
IInv ==
    /\ TypeOK /\ RowWellFormed /\ ReadingsArePast
    /\ VersionIdentifiesRow /\ ReadJustifiesWrite /\ TokensAreGrants
    /\ FencingTokenExclusive

\* With distinct owners, a superseded result has expired.
SupersededIsExpired ==
    \A c \in Callers : token[c].acquired =>
        \/ token[c].version = lease.version /\ token[c].expiresAt = lease.expiresAt
        \/ Expired(token[c], clock)
=============================================================================
