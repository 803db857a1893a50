---------------------------- MODULE FencedLease ----------------------------
(***************************************************************************)
(* What the workflow runtime promises of one row of workflow_leases: the   *)
(* row only ever changes by a grant that takes a fresh fencing version,    *)
(* and a lease passes to another owner only once it has expired.           *)
(* WorkflowLease, the statement-by-statement model of acquireLease and     *)
(* renewLease, is shown to implement this module; WorkflowSteps uses it as *)
(* its lease.                                                              *)
(***************************************************************************)
EXTENDS Naturals

CONSTANTS Owners,    \* the worker identities that may own a lease
          NoOwner,   \* the owner of a row that does not exist
          Ttl        \* lifetime of a grant, in clock ticks

ASSUME LeaseAssumption ==
    /\ NoOwner \notin Owners
    /\ Ttl \in Nat

VARIABLES lease,     \* the row, or NoLease before the first INSERT
          clock      \* the time now

leaseVars == <<lease, clock>>

NoLease == [owner |-> NoOwner, version |-> 0, expiresAt |-> 0]

LeaseRow == [owner : Owners \cup {NoOwner}, version : Nat, expiresAt : Nat]

Exists == lease.version # 0

\* `expires_at <= now` counts as expired.
Expired(row, now) == row.expiresAt <= now

Free(o) == ~Exists \/ lease.owner = o \/ Expired(lease, clock)

\* The caller's own clock reading t may be older than the clock: it is taken
\* before the statements run.
Grant(o, t) ==
    /\ Free(o)
    /\ lease' = [owner |-> o, version |-> lease.version + 1, expiresAt |-> t + Ttl]
    /\ UNCHANGED clock

Tick ==
    /\ clock' = clock + 1
    /\ UNCHANGED lease

LeaseInit ==
    /\ lease = NoLease
    /\ clock = 0

LeaseNext ==
    \/ \E o \in Owners, t \in 0..clock : Grant(o, t)
    \/ Tick

LeaseSpec == LeaseInit /\ [][LeaseNext]_leaseVars
=============================================================================
