------------------------ MODULE WorkflowLeaseProofs ------------------------
(* Theorems about WorkflowLease, for every set of callers and every bound. *)
EXTENDS WorkflowLease, TLAPS

\* The initial state, before any acquireLease, satisfies the invariant.
LEMMA InitIInv == Init => IInv
  <1> SUFFICES ASSUME Init PROVE IInv
    OBVIOUS
  <1> USE LeaseAssumption, CallersAssumption
      DEF Init, LeaseInit, NoLease, NoToken
  <1>1. TypeOK
    BY DEF TypeOK, LeaseRow, Token, PC
  <1>2. RowWellFormed
    BY DEF RowWellFormed, Exists
  <1>3. ReadingsArePast
    BY DEF ReadingsArePast
  <1>4. /\ VersionIdentifiesRow /\ ReadJustifiesWrite /\ TokensAreGrants
        /\ FencingTokenExclusive
    BY DEF VersionIdentifiesRow, ReadJustifiesWrite, TokensAreGrants,
           FencingTokenExclusive
  <1> QED
    BY <1>1, <1>2, <1>3, <1>4 DEF IInv

\* The record acquireLease returns is well typed for any row and verdict.
LEMMA ResultType ==
    ASSUME NEW ok \in BOOLEAN, NEW r \in LeaseRow
    PROVE  Result(ok, r) \in Token
  BY DEF Result, Token, LeaseRow

\* Returning from a call keeps the types of the program counter and the result.
LEMMA ReturnType ==
    ASSUME TypeOK, NEW c \in Callers, NEW t \in Token, Return(c, t)
    PROVE  pc' \in [Callers -> PC] /\ token' \in [Callers -> Token]
  BY DEF TypeOK, Return, Goto, PC

\* Every statement of acquireLease and renewLease keeps the types of the row,
\* of the callers' local variables and of the results they return.
LEMMA TypeStep == IInv /\ [Next]_vars => TypeOK'
  <1> SUFFICES ASSUME IInv, [Next]_vars PROVE TypeOK'
    OBVIOUS
  <1> USE LeaseAssumption, CallersAssumption
      DEF IInv, TypeOK, LeaseRow, Token, PC, Goto, NoToken
  <1>1. CASE Elapse
    BY <1>1 DEF Elapse, Tick, callVars
  <1>2. ASSUME NEW c \in Callers, Step(c) PROVE TypeOK'
    <2>1. CASE Call(c)
      BY <2>1 DEF Call
    <2>2. CASE SelectLease(c)
      <3>1. CASE Exists /\ HeldByOther(c)
        <4>1. Return(c, Result(FALSE, lease)) /\ UNCHANGED <<lease, clock, at, row>>
          BY <2>2, <3>1 DEF SelectLease
        <4> QED
          BY <4>1, ResultType, ReturnType
      <3>2. CASE Exists /\ ~HeldByOther(c)
        <4>1. \E l \in {"takeover", "renew"} : pc' = [pc EXCEPT ![c] = l]
          BY <2>2, <3>2 DEF SelectLease
        <4>2. row' = [row EXCEPT ![c] = lease] /\ UNCHANGED <<lease, clock, at, token>>
          BY <2>2, <3>2 DEF SelectLease
        <4> QED
          BY <4>1, <4>2
      <3>3. CASE ~Exists
        BY <2>2, <3>3 DEF SelectLease
      <3> QED
        BY <3>1, <3>2, <3>3
    <2>3. CASE RenewOwn(c)
      BY <2>3 DEF RenewOwn, Written, Return, Result
    <2>4. CASE TakeOver(c)
      BY <2>4 DEF TakeOver, Written, Return, Result
    <2>5. CASE CasMiss(c)
      BY <2>5 DEF CasMiss
    <2>6. CASE Reread(c)
      <3>1. (lease.owner = OwnerOf[c]) \in BOOLEAN
        OBVIOUS
      <3>2. Result(lease.owner = OwnerOf[c], lease) \in Token
        BY <3>1, ResultType
      <3> QED
        BY <2>6, <3>2, ReturnType DEF Reread
    <2>7. CASE InsertLease(c)
      <3>1. CASE Exists
        BY <2>7, <3>1 DEF InsertLease
      <3>2. CASE ~Exists
        <4>1. /\ lease' = [owner |-> OwnerOf[c], version |-> 1, expiresAt |-> at[c] + Ttl]
              /\ Return(c, Result(TRUE, lease'))
              /\ UNCHANGED <<clock, at, row>>
          BY <2>7, <3>2 DEF InsertLease
        <4>2. lease' \in LeaseRow
          BY <4>1
        <4> QED
          BY <4>1, <4>2, ResultType, ReturnType
      <3> QED
        BY <3>1, <3>2
    <2>8. CASE InsertFails(c)
      BY <2>8 DEF InsertFails
    <2>9. CASE Reselect(c)
      <3>1. CASE ~Exists
        <4>1. Return(c, NoToken) /\ UNCHANGED <<lease, clock, at, row>>
          BY <2>9, <3>1 DEF Reselect
        <4> QED
          BY <4>1, ReturnType
      <3>2. CASE Exists /\ HeldByOther(c)
        <4>1. Return(c, Result(FALSE, lease)) /\ UNCHANGED <<lease, clock, at, row>>
          BY <2>9, <3>2 DEF Reselect
        <4> QED
          BY <4>1, ResultType, ReturnType
      <3>3. CASE Exists /\ ~HeldByOther(c)
        BY <2>9, <3>3 DEF Reselect
      <3> QED
        BY <3>1, <3>2, <3>3
    <2>10. ASSUME NEW t \in 0..clock, RenewLease(c, t) PROVE TypeOK'
      <3>1. CASE lease.owner = OwnerOf[c] /\ lease.version = token[c].version
        <4>1. /\ lease' = [lease EXCEPT !.version = @ + 1, !.expiresAt = t + Ttl]
              /\ token' = [token EXCEPT ![c] = Result(TRUE, lease')]
              /\ UNCHANGED <<clock, pc, at, row>>
          BY <2>10, <3>1 DEF RenewLease
        <4>2. lease' \in LeaseRow
          <5>1. t \in Nat /\ t + Ttl \in Nat /\ lease.version + 1 \in Nat
            OBVIOUS
          <5>2. lease' = [owner |-> lease.owner, version |-> lease.version + 1,
                          expiresAt |-> t + Ttl]
            BY <4>1
          <5> QED
            BY <5>1, <5>2
        <4>3. Result(TRUE, lease') \in Token
          BY <4>2, ResultType
        <4> QED
          BY <4>1, <4>2, <4>3
      <3>2. CASE ~(lease.owner = OwnerOf[c] /\ lease.version = token[c].version)
        <4>1. token' = [token EXCEPT ![c] = NoToken] /\ UNCHANGED <<lease, clock, pc, at, row>>
          BY <2>10, <3>2 DEF RenewLease
        <4> QED
          BY <4>1
      <3> QED
        BY <3>1, <3>2
    <2>11. CASE Crash(c)
      BY <2>11 DEF Crash, Return
    <2> QED
      BY <1>2, <2>1, <2>2, <2>3, <2>4, <2>5, <2>6, <2>7, <2>8, <2>9, <2>10, <2>11
      DEF Step
  <1>3. CASE UNCHANGED vars
    BY <1>3 DEF vars
  <1> QED
    BY <1>1, <1>2, <1>3 DEF Next

\* The shape of every write of the row: it is a grant of FencedLease, made by
\* a caller that passes its own identity and gets the new row as its result.
GrantTo(c) ==
    /\ \E t \in 0..clock : Grant(OwnerOf[c], t)
    /\ lease.owner # OwnerOf[c] => ~Exists \/ Expired(lease, clock)
    /\ pc'[c] = "idle"
    /\ token' = [token EXCEPT ![c] = Result(TRUE, lease')]
    /\ pc' = [pc EXCEPT ![c] = "idle"]
    /\ UNCHANGED <<at, row>>

\* A statement of a call, a renewal or a crash either leaves the row alone or
\* is a grant to the caller: the read made before the compare-and-swap is
\* still true of the row whenever the compare-and-swap hits.
LEMMA WritesAreGrants ==
    ASSUME IInv, NEW c \in Callers, Step(c)
    PROVE  UNCHANGED clock /\ (GrantTo(c) \/ UNCHANGED lease)
  <1> USE LeaseAssumption, CallersAssumption
      DEF IInv, TypeOK, LeaseRow, Token, PC, Goto, Return, Result
  <1>1. CASE RenewOwn(c) \/ TakeOver(c)
    <2>1. row[c] = lease /\ Exists /\ at[c] \in 0..clock
      BY <1>1 DEF RenewOwn, TakeOver, VersionIdentifiesRow, ReadingsArePast, Exists
    <2>2. lease.owner = OwnerOf[c] \/ Expired(lease, clock)
      BY <1>1, <2>1 DEF RenewOwn, TakeOver, ReadJustifiesWrite, Expired
    <2>3. lease' = [owner |-> OwnerOf[c], version |-> lease.version + 1,
                    expiresAt |-> at[c] + Ttl]
      BY <1>1, <2>1 DEF RenewOwn, TakeOver, ReadJustifiesWrite, Written
    <2>4. Grant(OwnerOf[c], at[c])
      BY <1>1, <2>2, <2>3 DEF RenewOwn, TakeOver, Grant, Free
    <2> QED
      BY <1>1, <2>1, <2>2, <2>3, <2>4 DEF RenewOwn, TakeOver, GrantTo, Written
  <1>2. CASE InsertLease(c)
    <2>1. CASE Exists
      BY <1>2, <2>1 DEF InsertLease
    <2>2. CASE ~Exists
      <3>1. at[c] \in 0..clock /\ lease.version = 0
        BY <2>2 DEF ReadingsArePast, Exists
      <3>2. Grant(OwnerOf[c], at[c])
        BY <1>2, <2>2, <3>1 DEF InsertLease, Grant, Free
      <3> QED
        BY <1>2, <2>2, <3>1, <3>2 DEF InsertLease, GrantTo
    <2> QED
      BY <2>1, <2>2
  <1>3. ASSUME NEW t \in 0..clock, RenewLease(c, t)
        PROVE  UNCHANGED clock /\ (GrantTo(c) \/ UNCHANGED lease)
    <2>1. CASE lease.owner = OwnerOf[c] /\ lease.version = token[c].version
      <3>1. pc' = [pc EXCEPT ![c] = "idle"]
        BY <1>3 DEF RenewLease
      <3>2. lease' = [owner |-> OwnerOf[c], version |-> lease.version + 1,
                      expiresAt |-> t + Ttl]
        BY <1>3, <2>1 DEF RenewLease
      <3>3. Grant(OwnerOf[c], t)
        BY <1>3, <2>1, <3>2 DEF RenewLease, Grant, Free
      <3> QED
        BY <1>3, <2>1, <3>1, <3>3 DEF RenewLease, GrantTo
    <2>2. CASE ~(lease.owner = OwnerOf[c] /\ lease.version = token[c].version)
      BY <1>3, <2>2 DEF RenewLease
    <2> QED
      BY <2>1, <2>2
  <1>4. CASE \/ Call(c) \/ SelectLease(c) \/ CasMiss(c) \/ Reread(c)
             \/ InsertFails(c) \/ Reselect(c) \/ Crash(c)
    BY <1>4 DEF Call, SelectLease, CasMiss, Reread, InsertFails, Reselect, Crash
  <1> QED
    BY <1>1, <1>2, <1>3, <1>4 DEF Step

\* A step that writes the row keeps every conjunct of the invariant: the new
\* version is above every version anyone has read or been granted.
LEMMA GrantKeepsInvariant ==
    ASSUME IInv, TypeOK', NEW c \in Callers, UNCHANGED clock, GrantTo(c)
    PROVE  IInv'
  <1> USE LeaseAssumption, CallersAssumption
      DEF IInv, TypeOK, LeaseRow, Token, PC, Result
  <1>1. PICK t \in 0..clock : Grant(OwnerOf[c], t)
    BY DEF GrantTo
  <1>2. /\ lease'.owner = OwnerOf[c]
        /\ lease'.version = lease.version + 1
        /\ UNCHANGED <<at, row>>
        /\ pc' = [pc EXCEPT ![c] = "idle"]
        /\ token' = [token EXCEPT ![c] = Result(TRUE, lease')]
    BY <1>1 DEF Grant, GrantTo
  <1>3. RowWellFormed'
    BY <1>2 DEF RowWellFormed, Exists
  <1>4. ReadingsArePast'
    BY <1>2 DEF ReadingsArePast
  <1>5. VersionIdentifiesRow'
    BY <1>2 DEF VersionIdentifiesRow, CasHits
  <1>6. ReadJustifiesWrite'
    BY <1>2 DEF ReadJustifiesWrite, Exists, Expired
  <1>7. TokensAreGrants'
    BY <1>2 DEF TokensAreGrants
  <1>8. FencingTokenExclusive'
    <2>1. token'[c].version = lease.version + 1
      BY <1>2
    <2>2. \A d \in Callers \ {c} : token'[d] = token[d]
      BY <1>2
    <2>3. \A d \in Callers \ {c} : token[d].acquired => token[d].version # lease.version + 1
      BY DEF TokensAreGrants
    <2> SUFFICES ASSUME NEW x \in Callers, NEW y \in Callers,
                        token'[x].acquired, token'[y].acquired,
                        token'[x].version = token'[y].version
                 PROVE  OwnerOf[x] = OwnerOf[y]
      BY DEF FencingTokenExclusive
    <2>4. CASE x # c /\ y # c
      BY <2>2, <2>4 DEF FencingTokenExclusive
    <2>5. CASE x = c \/ y = c
      BY <2>1, <2>2, <2>3, <2>5
    <2> QED
      BY <2>4, <2>5
  <1> QED
    BY <1>3, <1>4, <1>5, <1>6, <1>7, <1>8

\* A statement that leaves the row alone tells its caller `acquired` only when
\* the row, as it stands, names the caller.
LEMMA ReadResult ==
    ASSUME IInv, NEW c \in Callers, Step(c), UNCHANGED <<lease, clock>>
    PROVE  \/ UNCHANGED token
           \/ \E r \in Token :
                 /\ token' = [token EXCEPT ![c] = r]
                 /\ r.acquired => /\ lease.owner = OwnerOf[c] /\ Exists
                                  /\ r.version = lease.version
                                  /\ r.expiresAt = lease.expiresAt
  <1> USE LeaseAssumption, CallersAssumption
      DEF IInv, TypeOK, LeaseRow, Token, PC, Goto, Return, Result, NoToken
  <1>1. CASE Reread(c)
    <2>1. Exists
      BY <1>1 DEF Reread, ReadJustifiesWrite
    <2>2. Result(lease.owner = OwnerOf[c], lease) \in Token
      BY ResultType
    <2> QED
      BY <1>1, <2>1, <2>2 DEF Reread
  <1>2. CASE Call(c) \/ CasMiss(c) \/ InsertFails(c)
    BY <1>2 DEF Call, CasMiss, InsertFails
  <1>3. CASE SelectLease(c)
    <2>1. CASE Exists /\ HeldByOther(c)
      <3>1. Result(FALSE, lease) \in Token /\ ~Result(FALSE, lease).acquired
        BY ResultType
      <3>2. token' = [token EXCEPT ![c] = Result(FALSE, lease)]
        BY <1>3, <2>1 DEF SelectLease
      <3> QED
        BY <3>1, <3>2
    <2>2. CASE ~(Exists /\ HeldByOther(c))
      BY <1>3, <2>2 DEF SelectLease
    <2> QED
      BY <2>1, <2>2
  <1>4. CASE Reselect(c)
    <2>1. CASE Exists /\ HeldByOther(c)
      <3>1. Result(FALSE, lease) \in Token /\ ~Result(FALSE, lease).acquired
        BY ResultType
      <3>2. token' = [token EXCEPT ![c] = Result(FALSE, lease)]
        BY <1>4, <2>1 DEF Reselect
      <3> QED
        BY <3>1, <3>2
    <2>2. CASE ~Exists
      <3>1. token' = [token EXCEPT ![c] = NoToken] /\ NoToken \in Token
        BY <1>4, <2>2 DEF Reselect
      <3> QED
        BY <3>1
    <2>3. CASE Exists /\ ~HeldByOther(c)
      BY <1>4, <2>3 DEF Reselect
    <2> QED
      BY <2>1, <2>2, <2>3
  <1>5. CASE Crash(c)
    <2>1. token' = [token EXCEPT ![c] = NoToken] /\ NoToken \in Token
      BY <1>5 DEF Crash
    <2> QED
      BY <2>1
  <1>6. CASE InsertLease(c) \/ RenewOwn(c) \/ TakeOver(c)
    BY <1>6 DEF InsertLease, RenewOwn, TakeOver, Written, CasHits, Exists
  <1>7. CASE \E t \in 0..clock : RenewLease(c, t)
    <2>1. PICK t \in 0..clock : RenewLease(c, t)
      BY <1>7
    <2>2. ~(lease.owner = OwnerOf[c] /\ lease.version = token[c].version)
      <3>1. lease' = lease /\ lease.version # lease.version + 1
        OBVIOUS
      <3>2. ASSUME lease' = [lease EXCEPT !.version = @ + 1, !.expiresAt = t + Ttl]
            PROVE  FALSE
        <4>1. lease'.version = lease.version + 1
          BY <3>2
        <4> QED
          BY <3>1, <4>1
      <3> QED
        BY <2>1, <3>2 DEF RenewLease
    <2>3. token' = [token EXCEPT ![c] = NoToken] /\ NoToken \in Token
      BY <2>1, <2>2 DEF RenewLease
    <2> QED
      BY <2>3
  <1> QED
    BY <1>1, <1>2, <1>3, <1>4, <1>5, <1>6, <1>7 DEF Step

\* A statement that leaves the row alone keeps the invariant: a SELECT records
\* the row as it is, and a fallback re-read reports a version only to the
\* owner the row names.
LEMMA ReadKeepsInvariant ==
    ASSUME IInv, TypeOK', NEW c \in Callers, Step(c), UNCHANGED <<lease, clock>>
    PROVE  IInv'
  <1> USE LeaseAssumption, CallersAssumption
      DEF IInv, TypeOK, LeaseRow, Token, PC, Goto, Return, Result, NoToken
  <1>1. RowWellFormed'
    BY DEF RowWellFormed, Exists
  <1>2. \/ UNCHANGED at
        \/ pc' = [pc EXCEPT ![c] = "select"] /\ at' = [at EXCEPT ![c] = clock]
    BY DEF Step, Call, SelectLease, RenewOwn, TakeOver, CasMiss, Reread,
           InsertLease, InsertFails, Reselect, RenewLease, Crash
  <1>3. ReadingsArePast'
    BY <1>2 DEF ReadingsArePast
  <1>4. \/ /\ \E l \in {"idle", "select", "insert", "reselect"} : pc' = [pc EXCEPT ![c] = l]
           /\ UNCHANGED row
        \/ /\ pc' = [pc EXCEPT ![c] = "reread"] /\ Exists
           /\ UNCHANGED row
        \/ /\ pc' = [pc EXCEPT ![c] = "renew"] /\ Exists
           /\ row' = [row EXCEPT ![c] = lease]
           /\ lease.owner = OwnerOf[c]
        \/ /\ pc' = [pc EXCEPT ![c] = "takeover"] /\ Exists
           /\ row' = [row EXCEPT ![c] = lease]
           /\ lease.owner = OwnerOf[c] \/ Expired(lease, at[c])
           /\ UNCHANGED at
    <2>1. CASE Call(c) \/ Crash(c) \/ InsertFails(c) \/ Reread(c)
      BY <2>1 DEF Call, Crash, InsertFails, Reread
    <2>2. CASE SelectLease(c)
      BY <2>2 DEF SelectLease, HeldByOther
    <2>3. CASE CasMiss(c)
      <3>1. Exists
        BY <2>3 DEF CasMiss, VersionIdentifiesRow, Exists
      <3> QED
        BY <2>3, <3>1 DEF CasMiss
    <2>4. CASE InsertLease(c) \/ RenewOwn(c) \/ TakeOver(c)
      BY <2>4 DEF InsertLease, RenewOwn, TakeOver
    <2>5. CASE Reselect(c)
      BY <2>5 DEF Reselect, HeldByOther
    <2>6. CASE \E t \in 0..clock : RenewLease(c, t)
      BY <2>6 DEF RenewLease
    <2> QED
      BY <2>1, <2>2, <2>3, <2>4, <2>5, <2>6 DEF Step
  <1>5. VersionIdentifiesRow'
    BY <1>4 DEF VersionIdentifiesRow, CasHits, Exists
  <1>6. ReadJustifiesWrite'
    BY <1>2, <1>4 DEF ReadJustifiesWrite, Exists, Expired
  <1>7. \/ UNCHANGED token
        \/ \E r \in Token :
              /\ token' = [token EXCEPT ![c] = r]
              /\ r.acquired => /\ lease.owner = OwnerOf[c] /\ Exists
                               /\ r.version = lease.version
    BY ReadResult
  <1>8. TokensAreGrants'
    BY <1>7 DEF TokensAreGrants, Exists
  <1>9. FencingTokenExclusive'
    <2>1. \A d \in Callers \ {c} : token'[d] = token[d]
      BY <1>7
    <2>2. \/ token'[c] = token[c]
          \/ token'[c].acquired => /\ lease.owner = OwnerOf[c]
                                   /\ token'[c].version = lease.version
      BY <1>7
    <2> SUFFICES ASSUME NEW x \in Callers, NEW y \in Callers,
                        token'[x].acquired, token'[y].acquired,
                        token'[x].version = token'[y].version
                 PROVE  OwnerOf[x] = OwnerOf[y]
      BY DEF FencingTokenExclusive
    <2>3. CASE (x # c /\ y # c) \/ token'[c] = token[c]
      BY <2>1, <2>3 DEF FencingTokenExclusive
    <2>4. CASE x = c /\ token'[c] # token[c]
      BY <2>1, <2>2, <2>4 DEF TokensAreGrants
    <2>5. CASE y = c /\ token'[c] # token[c]
      BY <2>1, <2>2, <2>5 DEF TokensAreGrants
    <2> QED
      BY <2>3, <2>4, <2>5
  <1> QED
    BY <1>1, <1>3, <1>5, <1>6, <1>8, <1>9

\* The clock alone moving on, or nothing changing, keeps the invariant.
LEMMA IdleKeepsInvariant ==
    ASSUME IInv, Elapse \/ UNCHANGED vars
    PROVE  IInv'
  <1>1. UNCHANGED <<lease, pc, at, row, token>> /\ clock' \in Nat /\ clock <= clock'
    BY DEF IInv, TypeOK, Elapse, Tick, callVars, vars
  <1> QED
    BY <1>1 DEF IInv, TypeOK, RowWellFormed, ReadingsArePast, VersionIdentifiesRow,
                CasHits, ReadJustifiesWrite, TokensAreGrants, FencingTokenExclusive,
                Exists, Expired

\* The invariant of acquireLease and renewLease holds in every reachable state.
THEOREM LeaseInvariant == Spec => []IInv
  <1>1. IInv /\ [Next]_vars => IInv'
    <2> SUFFICES ASSUME IInv, [Next]_vars PROVE IInv'
      OBVIOUS
    <2>1. TypeOK'
      BY TypeStep
    <2>2. ASSUME NEW c \in Callers, Step(c) PROVE IInv'
      BY <2>1, <2>2, WritesAreGrants, GrantKeepsInvariant, ReadKeepsInvariant
    <2> QED
      BY <2>2, IdleKeepsInvariant DEF Next
  <1> QED
    BY <1>1, InitIInv, PTL DEF Spec

\* Type correctness: the row, the clock and the callers' variables keep their
\* types through every interleaving of statements, renewals and crashes.
THEOREM TypeCorrectness == Spec => []TypeOK
  <1>1. IInv => TypeOK
    BY DEF IInv
  <1> QED
    BY <1>1, LeaseInvariant, PTL

\* No fencing version is ever handed to two owners.
THEOREM TokenExclusivity == Spec => []FencingTokenExclusive
  <1>1. IInv => FencingTokenExclusive
    BY DEF IInv
  <1> QED
    BY <1>1, LeaseInvariant, PTL

\* acquireLease and renewLease, statement by statement, implement the atomic
\* fenced lease.
THEOREM Refinement == Spec => ImplementsFencedLease
  <1>1. Init => LeaseInit
    BY DEF Init
  <1>2. IInv /\ [Next]_vars => [LeaseNext]_leaseVars
    <2> SUFFICES ASSUME IInv, [Next]_vars PROVE [LeaseNext]_leaseVars
      OBVIOUS
    <2>1. ASSUME NEW c \in Callers, Step(c) PROVE [LeaseNext]_leaseVars
      <3>1. CASE GrantTo(c)
        BY <3>1, CallersAssumption DEF GrantTo, LeaseNext
      <3> QED
        BY <2>1, <3>1, WritesAreGrants DEF leaseVars
    <2>2. CASE Elapse
      BY <2>2 DEF Elapse, LeaseNext
    <2> QED
      BY <2>1, <2>2 DEF Next, vars, leaseVars
  <1> QED
    BY <1>1, <1>2, LeaseInvariant, PTL DEF Spec, ImplementsFencedLease, LeaseSpec

\* A superseded result has expired once every worker has its own identity:
\* only another worker's takeover can supersede it.
LEMMA SupersededStep ==
    ASSUME \A x, y \in Callers : OwnerOf[x] = OwnerOf[y] => x = y,
           IInv, IInv', [Next]_vars, SupersededIsExpired
    PROVE  SupersededIsExpired'
  <1> USE LeaseAssumption, CallersAssumption
      DEF IInv, TypeOK, LeaseRow, Token, PC
  <1>1. ASSUME NEW c \in Callers, Step(c) PROVE SupersededIsExpired'
    <2>1. UNCHANGED clock
      BY <1>1, WritesAreGrants
    <2>2. CASE GrantTo(c)
      <3>1. token'[c].version = lease'.version /\ token'[c].expiresAt = lease'.expiresAt
        BY <2>2 DEF GrantTo, Result
      <3>2. ASSUME NEW d \in Callers, d # c, token'[d].acquired
            PROVE  Expired(token'[d], clock')
        <4>1. token'[d] = token[d] /\ OwnerOf[d] # OwnerOf[c]
          BY <2>2, <3>2 DEF GrantTo
        <4>2. CASE Expired(token[d], clock)
          BY <2>1, <4>1, <4>2
        <4>3. CASE token[d].version = lease.version /\ token[d].expiresAt = lease.expiresAt
          <5>1. lease.owner = OwnerOf[d] /\ Exists
            BY <3>2, <4>1, <4>3 DEF TokensAreGrants, Exists
          <5>2. Expired(lease, clock)
            BY <2>2, <4>1, <5>1 DEF GrantTo
          <5> QED
            BY <2>1, <4>1, <4>3, <5>2 DEF Expired
        <4> QED
          BY <3>2, <4>1, <4>2, <4>3 DEF SupersededIsExpired
      <3> QED
        BY <3>1, <3>2 DEF SupersededIsExpired
    <2>3. CASE UNCHANGED lease
      <3>1. \A d \in Callers \ {c} : token'[d] = token[d]
        BY <1>1, <2>1, <2>3, ReadResult
      <3>2. \/ token'[c] = token[c]
            \/ ~token'[c].acquired
            \/ token'[c].version = lease.version /\ token'[c].expiresAt = lease.expiresAt
        BY <1>1, <2>1, <2>3, ReadResult
      <3> QED
        BY <2>1, <2>3, <3>1, <3>2 DEF SupersededIsExpired
    <2> QED
      BY <1>1, <2>2, <2>3, WritesAreGrants
  <1>2. CASE Elapse \/ UNCHANGED vars
    <2>1. UNCHANGED <<lease, token>> /\ clock' \in Nat /\ clock <= clock'
      BY <1>2 DEF Elapse, Tick, callVars, vars
    <2> QED
      BY <2>1 DEF SupersededIsExpired, Expired
  <1> QED
    BY <1>1, <1>2 DEF Next

\* Mutual exclusion in time: if no two callers share an identity, two workers
\* never both hold an unexpired `acquired` result of acquireLease or renewLease.
THEOREM MutualExclusion ==
    ASSUME \A x, y \in Callers : OwnerOf[x] = OwnerOf[y] => x = y
    PROVE  Spec => []AtMostOneLiveHolder
  <1>1. Init => SupersededIsExpired
    BY DEF Init, SupersededIsExpired, NoToken
  <1>2. IInv /\ IInv' /\ [Next]_vars /\ SupersededIsExpired => SupersededIsExpired'
    BY SupersededStep
  <1>3. IInv /\ SupersededIsExpired => AtMostOneLiveHolder
    BY CallersAssumption
    DEF IInv, TypeOK, Token, TokensAreGrants, SupersededIsExpired, Expired,
        AtMostOneLiveHolder
  <1> QED
    BY <1>1, <1>2, <1>3, LeaseInvariant, PTL DEF Spec
=============================================================================
