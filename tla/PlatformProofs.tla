--------------------------- MODULE PlatformProofs ---------------------------
(***************************************************************************)
(* What the five parts of the platform keep, for all values of their       *)
(* constants.  RecoveryContinuity: the audit log says only what happened,  *)
(* and a fork of it is final.  AgentRun: plans and calls fit the budgets,  *)
(* and a skeptic's confirmation is earned.  ToolCore: one promise in       *)
(* flight for a key.  FactoryMilestone: no package is lost, no milestone   *)
(* left unsettled.  ProductFactory: recoveries are counted, merged patches *)
(* were proved.  At the end, the five side by side as MCPlatform has them. *)
(***************************************************************************)
EXTENDS MCPlatform, FiniteSetTheorems, WellFoundedInduction, TLAPS

(***************************************************************************)
(* Backup, recovery and continuity, for any callers, backups and drills,   *)
(* and for any number of operations.  Nothing that an audit row claims is  *)
(* ever undone (Kept), and a caller makes the statement before it goes to  *)
(* append the row: so a row is true when it is about to be appended        *)
(* (PendingIsTruthful) and ever after.  Rows link back, so every walk over *)
(* them ends at a root and the chain is valid exactly when it has no fork  *)
(* (ValidIsUnforked); a fork stays, as rows are only appended.             *)
(***************************************************************************)

(* What audit rows claim is never undone.                                  *)
Kept ==
    /\ \A b \in Backups : /\ backups[b] = "deleted" => backups'[b] = "deleted"
                          /\ backups[b] # "none" => backups'[b] # "none"
    /\ versions \subseteq versions'
    /\ \A d \in Drills : drills[d] \in {"PASSED", "FAILED"} => drills'[d] \in {"PASSED", "FAILED"}
    /\ \A m \in DOMAIN modes : modes[m] # "none" => modes'[m] # "none"
    /\ DOMAIN modes' = DOMAIN modes
    /\ recon.exists => recon'.exists

(* What a row claims, borne out by the tables after a step.                *)
After(act, s) ==
    CASE act = "BACKUP_DELETED" -> s \in Backups /\ backups'[s] = "deleted"
      [] act = "BACKUP_CREATED" -> s \in Backups /\ backups'[s] # "none"
      [] act = "RETENTION_CREATED" -> s \in versions'
      [] act = "DRILL_COMPLETED" -> s \in Drills /\ drills'[s] \in {"PASSED", "FAILED"}
      [] act = "DEGRADED_ENTERED" -> s \in DOMAIN modes' /\ modes'[s] # "none"
      [] act = "RECONCILIATION_COMPLETED" -> recon'.exists
      [] OTHER -> TRUE

(* The part of the inductive invariant that is about one caller.           *)
Mine(c) ==
    /\ at[c] \in {"tail", "append"} => Happened(loc[c].act, loc[c].sub)
    /\ LET next == IF at[c] \in {"tail", "append"} THEN loc[c].then ELSE at[c]
       IN  /\ at[c] \in {"tail", "append"} => next \in {"idle", "sweep", "degrade", "drill"}
           /\ next = "policy" => loc[c].tail \in 1..2
           /\ next = "sweep" => loc[c].rows \subseteq Backups
           /\ next = "delete" => loc[c].sub \in Backups /\ loc[c].rows \subseteq Backups
           /\ next = "degrade" => loc[c].sub \in Drills \cup {Recovery}
           /\ next = "restore" => loc[c].rows \subseteq DOMAIN modes
           /\ next \in {"drill", "conclude"} => loc[c].sub \in Drills
           /\ next = "verify" => loc[c].act \in {"sound", "unsound"}
           /\ at[c] = "append" => loc[c].tail \in 0..Len(log)

(* A step of c leaves the other callers where they are.                    *)
Others(c) == \A o \in Callers \ {c} : at'[o] = at[o] /\ loc'[o] = loc[o]

(* The log stays as it is, or the caller's row is appended to it.          *)
Grows(c) == log' = log \/ (at[c] = "append" /\ log' = Append(log, AuditRow(c)))

(* The type invariant: the log, the other tables, and the callers.         *)
LogOK == log \in Seq(Row) /\ \A i \in DOMAIN log : log[i].prev < i
TablesOK ==
    /\ versions \subseteq 1..2 /\ holds \subseteq Backups
    /\ backups \in [Backups -> {"none", "kept", "expired", "deleted"}]
    /\ drills \in [Drills -> {"none", "RUNNING", "PASSED", "FAILED"}]
    /\ modes \in [Drills \cup {Recovery} -> {"none", "active", "restored"}]
    /\ recon \in [exists : BOOLEAN, resumed : BOOLEAN, degraded : BOOLEAN]
CallersOK == at \in [Callers -> Labels] /\ loc \in [Callers -> Carried] /\ begun \in Nat

-----------------------------------------------------------------------------
LEMMA TypeParts == (TypeOK <=> LogOK /\ TablesOK /\ CallersOK) /\ (TypeOK <=> LogOK /\ TablesOK /\ CallersOK)'
  BY DEF TypeOK, LogOK, TablesOK, CallersOK

LEMMA Least ==
    ASSUME NEW T, T \subseteq Nat, T # {}
    PROVE  \E x \in T : \A y \in T : ~(y < x)
  <1>1. PICK x \in T : \A y \in T : ~(<<y, x>> \in OpToRel(<, Nat))
    BY NatLessThanWellFounded, WFMin
  <1>2. \A y \in T : ~(y < x)
    BY <1>1 DEF OpToRel
  <1> QED
    BY <1>2

(* Each row links to an earlier one, or to none.                           *)
LEMMA LinksLeadBack ==
    ASSUME TypeOK, NEW i \in DOMAIN log
    PROVE  /\ i \in 1..Len(log) /\ log[i].prev \in Nat /\ log[i].prev < i
           /\ log[i].prev # 0 => log[i].prev \in DOMAIN log
  <1>1. DOMAIN log = 1..Len(log) /\ Len(log) \in Nat /\ log[i] \in Row
    BY DEF TypeOK
  <1>2. log[i].prev \in Nat /\ log[i].prev < i
    BY <1>1 DEF TypeOK, Row
  <1> QED
    BY <1>1, <1>2

(* The walk over the links of the rows ends at a root, from any row.       *)
LEMMA EveryRowIsReached ==
    ASSUME TypeOK
    PROVE  \A i \in DOMAIN log : Reached[i]
  <1> DEFINE F(f) == [i \in DOMAIN log |-> log[i].prev = 0 \/ f[log[i].prev]]
  <1>0. \A i \in DOMAIN log : i \in Nat /\ (log[i].prev # 0 => log[i].prev \in DOMAIN log /\ log[i].prev < i)
    BY LinksLeadBack
  <1>1. \E f : f = F(f)
    <2>1. [i \in DOMAIN log |-> TRUE] = F([i \in DOMAIN log |-> TRUE])
      BY <1>0
    <2> QED
      BY <2>1
  <1>2. Reached = F(Reached)
    BY <1>1 DEF Reached
  <1>3. ASSUME NEW T, T = {i \in DOMAIN log : ~Reached[i]}, T # {} PROVE FALSE
    <2>1. T \subseteq Nat
      BY <1>0, <1>3
    <2>2. PICK i \in T : \A j \in T : ~(j < i)
      BY <1>3, <2>1, Least
    <2>3. log[i].prev # 0 /\ ~Reached[log[i].prev]
      BY <1>2, <1>3
    <2> QED
      BY <1>0, <1>3, <2>2, <2>3
  <1> QED
    BY <1>3

(* verifyBackupAuditChain accepts the rows exactly when no two of them     *)
(* follow the same one.                                                    *)
LEMMA ValidIsUnforked ==
    ASSUME TypeOK
    PROVE  ChainValid <=> Unforked
  <1>1. log # <<>> => \E i \in DOMAIN log : log[i].prev = 0
    <2>1. SUFFICES ASSUME log # <<>> PROVE 1 \in DOMAIN log /\ log[1].prev = 0
      OBVIOUS
    <2>2. Len(log) \in Nat /\ Len(log) # 0 /\ DOMAIN log = 1..Len(log)
      BY <2>1 DEF TypeOK
    <2>3. 1 \in DOMAIN log
      BY <2>2
    <2>4. log[1].prev \in Nat /\ log[1].prev < 1
      BY <2>3, LinksLeadBack
    <2> QED
      BY <2>3, <2>4
  <1> QED
    BY <1>1, EveryRowIsReached DEF ChainValid

(* A true claim stays true.                                                *)
LEMMA ClaimsStay ==
    ASSUME TypeOK, Kept
    PROVE  \A act, s : Happened(act, s) => After(act, s)
  <1> QED
    BY DEF Happened, After, Kept, TypeOK

-----------------------------------------------------------------------------
(* One lemma per action: types, nothing undone, the others untouched, and  *)
(* the caller carries what its next statement needs.                       *)
(* A caller that goes to a label with what it carries.                     *)
LEMMA Moves ==
    ASSUME CallersOK, NEW c \in Callers, NEW label \in Labels, NEW l \in Carried,
           Goto(c, label), Carry(c, l)
    PROVE  CallersOK' /\ Others(c) /\ at'[c] = label /\ loc'[c] = l
  <1>1. at' \in [Callers -> Labels] /\ at'[c] = label /\ begun' \in Nat
    BY DEF CallersOK, Goto
  <1>2. loc' \in [Callers -> Carried] /\ loc'[c] = l
    BY DEF CallersOK, Carry
  <1>3. Others(c)
    BY DEF CallersOK, Goto, Carry, Others
  <1> QED
    BY <1>1, <1>2, <1>3 DEF CallersOK

(* A caller that returns, or goes to append an audit row.                  *)
LEMMA Returns ==
    ASSUME CallersOK, NEW c \in Callers, Return(c)
    PROVE  CallersOK' /\ Others(c) /\ Mine(c)' /\ loc'[c].act = "none"
  <1>1. "idle" \in Labels /\ Nothing \in Carried
    BY DEF Labels, Carried, Nothing, Subjects, Acts
  <1>2. CallersOK' /\ Others(c) /\ at'[c] = "idle" /\ loc'[c] = Nothing
    BY <1>1, Moves DEF Return
  <1> QED
    BY <1>2 DEF Mine, Nothing

LEMMA Audits ==
    ASSUME CallersOK, NEW c \in Callers, NEW act \in Acts, NEW sub \in Subjects,
           NEW then \in Labels, NEW rows \in SUBSET (Backups \cup Drills \cup {Recovery, "row"}),
           Audit(c, act, sub, then, rows)
    PROVE  /\ CallersOK' /\ Others(c) /\ at'[c] = "tail"
           /\ loc'[c] = [act |-> act, sub |-> sub, tail |-> 0, then |-> then, rows |-> rows]
  <1>1. "tail" \in Labels
    BY DEF Labels
  <1>2. [act |-> act, sub |-> sub, tail |-> 0, then |-> then, rows |-> rows] \in Carried
    BY DEF Carried
  <1> QED
    BY <1>1, <1>2, Moves DEF Audit

LEMMA AuditsAlone ==
    ASSUME CallersOK, NEW c \in Callers, NEW act \in Acts, NEW sub \in Subjects,
           NEW then \in Labels, Audit(c, act, sub, then, {})
    PROVE  /\ CallersOK' /\ Others(c) /\ at'[c] = "tail"
           /\ loc'[c] = [act |-> act, sub |-> sub, tail |-> 0, then |-> then, rows |-> {}]
  <1> DEFINE rows == {}
  <1>1. rows \in SUBSET (Backups \cup Drills \cup {Recovery, "row"}) /\ Audit(c, act, sub, then, rows)
    OBVIOUS
  <1> HIDE DEF rows
  <1>2. /\ CallersOK' /\ Others(c) /\ at'[c] = "tail"
        /\ loc'[c] = [act |-> act, sub |-> sub, tail |-> 0, then |-> then, rows |-> rows]
    BY <1>1, Audits
  <1> QED
    BY <1>2 DEF rows

LEMMA CallerHas ==
    ASSUME IInv, NEW c \in Callers
    PROVE  LogOK /\ TablesOK /\ CallersOK /\ Mine(c) /\ loc[c] \in Carried /\ at[c] \in Labels
  <1>1. LogOK /\ TablesOK /\ CallersOK
    BY TypeParts DEF IInv
  <1>2. Mine(c)
    BY DEF IInv, PendingIsTruthful, CarriesItsRow, Mine
  <1> QED
    BY <1>1, <1>2 DEF CallersOK

LEMMA SelectTailKeeps ==
    ASSUME IInv, NEW c \in Callers, SelectTail(c)
    PROVE  TypeOK' /\ Kept /\ Others(c) /\ Grows(c) /\ Mine(c)'
  <1>0. LogOK /\ TablesOK /\ CallersOK /\ Mine(c) /\ loc[c] \in Carried /\ at[c] \in Labels
    BY CallerHas
  <1>1. LogOK' /\ Grows(c)
    BY <1>0 DEF SelectTail, LogOK, Grows
  <1>2. TablesOK' /\ Kept
    BY <1>0 DEF SelectTail, TablesOK, Kept
  <1>3. CallersOK' /\ Others(c) /\ Mine(c)'
    <2>1. PICK t \in (IF Tails = {} THEN {0} ELSE Tails) : Carry(c, [loc[c] EXCEPT !.tail = t])
      BY DEF SelectTail
    <2>2. t \in 0..Len(log)
      BY <1>0, <2>1 DEF Tails, LogOK
    <2>3. "append" \in Labels /\ [loc[c] EXCEPT !.tail = t] \in Carried
      BY <1>0, <2>2 DEF Labels, Carried, Acts, LogOK
    <2>4. CallersOK' /\ Others(c) /\ at'[c] = "append" /\ loc'[c] = [loc[c] EXCEPT !.tail = t]
      BY <1>0, <2>1, <2>3, Moves DEF SelectTail
    <2>5. at[c] = "tail" /\ Happened(loc[c].act, loc[c].sub)
      BY <1>0 DEF Mine, SelectTail
    <2>6. /\ loc'[c].act = loc[c].act /\ loc'[c].sub = loc[c].sub /\ loc'[c].tail = t
          /\ loc'[c].then = loc[c].then /\ loc'[c].rows = loc[c].rows
      BY <1>0, <2>4 DEF Carried, Acts
    <2>7. Happened(loc[c].act, loc[c].sub)'
      BY <2>5, <2>6 DEF Happened, SelectTail
    <2>8. log' = log
      BY DEF SelectTail
    <2> QED
      BY <1>0, <2>2, <2>4, <2>5, <2>6, <2>7, <2>8 DEF Mine
  <1> QED
    BY <1>1, <1>2, <1>3, TypeParts

LEMMA InsertAuditKeeps ==
    ASSUME IInv, NEW c \in Callers, InsertAudit(c)
    PROVE  TypeOK' /\ Kept /\ Others(c) /\ Grows(c) /\ Mine(c)'
  <1>0. LogOK /\ TablesOK /\ CallersOK /\ Mine(c) /\ loc[c] \in Carried /\ at[c] \in Labels
    BY CallerHas
  <1>1. LogOK' /\ Grows(c)
    <2>1. log' = Append(log, AuditRow(c)) /\ at[c] = "append"
      BY DEF InsertAudit
    <2>2. AuditRow(c) \in Row /\ AuditRow(c).prev \in 0..Len(log)
      BY <1>0, <2>1 DEF AuditRow, Row, Carried, Acts, Mine
    <2>3. log' \in Seq(Row) /\ Len(log') = Len(log) + 1 /\ Len(log) \in Nat
      BY <1>0, <2>1, <2>2 DEF LogOK
    <2>4. \A i \in 1..Len(log) : log'[i] = log[i] /\ log[i].prev < i
      BY <1>0, <2>1, <2>2 DEF LogOK
    <2>5. log'[Len(log) + 1] = AuditRow(c)
      BY <1>0, <2>1, <2>2 DEF LogOK
    <2>6. \A i \in DOMAIN log' : log'[i].prev < i
      BY <2>2, <2>3, <2>4, <2>5
    <2> QED
      BY <2>1, <2>3, <2>6 DEF LogOK, Grows
  <1>2. TablesOK' /\ Kept
    BY <1>0 DEF InsertAudit, TablesOK, Kept
  <1>3. CallersOK' /\ Others(c) /\ Mine(c)'
    <2>1. at[c] = "append" /\ loc[c].then \in Labels /\ (IF loc[c].then = "idle" THEN Nothing ELSE loc[c]) \in Carried
      BY <1>0 DEF InsertAudit, Carried, Acts, Nothing, Labels, Subjects
    <2>2. CallersOK' /\ Others(c) /\ at'[c] = loc[c].then
          /\ loc'[c] = IF loc[c].then = "idle" THEN Nothing ELSE loc[c]
      BY <1>0, <2>1, Moves DEF InsertAudit
    <2> QED
      BY <1>0, <2>1, <2>2 DEF Mine, Nothing
  <1> QED
    BY <1>1, <1>2, <1>3, TypeParts

LEMMA CreateRetentionPolicyKeeps ==
    ASSUME IInv, NEW c \in Callers, CreateRetentionPolicy(c)
    PROVE  TypeOK' /\ Kept /\ Others(c) /\ Grows(c) /\ Mine(c)'
  <1>0. LogOK /\ TablesOK /\ CallersOK /\ Mine(c) /\ loc[c] \in Carried /\ at[c] \in Labels
    BY CallerHas
  <1>1. LogOK' /\ Grows(c)
    BY <1>0 DEF CreateRetentionPolicy, LogOK, Grows
  <1>2. TablesOK' /\ Kept
    BY <1>0 DEF CreateRetentionPolicy, TablesOK, Kept
  <1>3. CallersOK' /\ Others(c) /\ Mine(c)'
    <2>0. Cardinality(versions) \in Nat /\ Cardinality(versions) < 2
      <3>1. IsFiniteSet(1..2)
        BY FS_Interval, 1 \in Int, 2 \in Int, Zenon
      <3>2. IsFiniteSet(versions)
        BY <1>0, <3>1, FS_Subset DEF TablesOK
      <3> QED
        BY <3>2, FS_CardinalityType DEF CreateRetentionPolicy
    <2>1. "policy" \in Labels /\ [Nothing EXCEPT !.tail = Cardinality(versions) + 1] \in Carried
      BY <1>0, <2>0 DEF Labels, Carried, Acts, Nothing, TablesOK, Mine, Subjects
    <2>2. CallersOK' /\ Others(c) /\ at'[c] = "policy" /\ loc'[c] = [Nothing EXCEPT !.tail = Cardinality(versions) + 1]
      BY <1>0, <2>1, Moves, <2>0 DEF CreateRetentionPolicy
    <2> QED
      BY <1>0, <1>1, <2>1, <2>2, <2>0 DEF Mine, Happened, CreateRetentionPolicy, Nothing, Carried, Acts, TablesOK
  <1> QED
    BY <1>1, <1>2, <1>3, TypeParts

LEMMA InsertPolicyKeeps ==
    ASSUME IInv, NEW c \in Callers, InsertPolicy(c)
    PROVE  TypeOK' /\ Kept /\ Others(c) /\ Grows(c) /\ Mine(c)'
  <1>0. LogOK /\ TablesOK /\ CallersOK /\ Mine(c) /\ loc[c] \in Carried /\ at[c] \in Labels
    BY CallerHas
  <1>1. LogOK' /\ Grows(c)
    BY <1>0 DEF InsertPolicy, LogOK, Grows
  <1>2. TablesOK' /\ Kept
    <2>1. loc[c].tail \in 1..2
      BY <1>0 DEF Mine, InsertPolicy
    <2> QED
      BY <1>0, <2>1 DEF InsertPolicy, TablesOK, Kept
  <1>3. CallersOK' /\ Others(c) /\ Mine(c)'
    <2>0. loc[c].tail \in 1..2
      BY <1>0 DEF Mine, InsertPolicy
    <2>1. CASE Return(c)
      BY <1>0, <2>1, Returns
    <2>2. CASE versions' = versions \cup {loc[c].tail} /\ Audit(c, "RETENTION_CREATED", loc[c].tail, "idle", {})
      <3>1. loc[c].tail \in Subjects /\ "idle" \in Labels /\ "RETENTION_CREATED" \in Acts
        BY <2>0 DEF Subjects, Labels, Acts
      <3>2. CallersOK' /\ Others(c) /\ at'[c] = "tail"
            /\ loc'[c] = [act |-> "RETENTION_CREATED", sub |-> loc[c].tail, tail |-> 0, then |-> "idle", rows |-> {}]
        BY <1>0, <2>2, <3>1, AuditsAlone
      <3> QED
        BY <2>2, <3>2 DEF Mine, Happened
    <2> QED
      BY <2>1, <2>2 DEF InsertPolicy
  <1> QED
    BY <1>1, <1>2, <1>3, TypeParts

LEMMA SelectExpiredKeeps ==
    ASSUME IInv, NEW c \in Callers, SelectExpired(c)
    PROVE  TypeOK' /\ Kept /\ Others(c) /\ Grows(c) /\ Mine(c)'
  <1>0. LogOK /\ TablesOK /\ CallersOK /\ Mine(c) /\ loc[c] \in Carried /\ at[c] \in Labels
    BY CallerHas
  <1>1. LogOK' /\ Grows(c)
    BY <1>0 DEF SelectExpired, LogOK, Grows
  <1>2. TablesOK' /\ Kept
    BY <1>0 DEF SelectExpired, TablesOK, Kept
  <1>3. CallersOK' /\ Others(c) /\ Mine(c)'
    <2>1. "sweep" \in Labels /\ [Nothing EXCEPT !.rows = {b \in Backups : backups[b] = "expired"}] \in Carried
      BY <1>0 DEF Labels, Carried, Acts, Nothing, TablesOK, Mine, Subjects
    <2>2. CallersOK' /\ Others(c) /\ at'[c] = "sweep" /\ loc'[c] = [Nothing EXCEPT !.rows = {b \in Backups : backups[b] = "expired"}]
      BY <1>0, <2>1, Moves DEF SelectExpired
    <2> QED
      BY <1>0, <1>1, <2>1, <2>2 DEF Mine, Happened, SelectExpired, Nothing, Carried, Acts, TablesOK
  <1> QED
    BY <1>1, <1>2, <1>3, TypeParts

LEMMA SelectHoldsKeeps ==
    ASSUME IInv, NEW c \in Callers, SelectHolds(c)
    PROVE  TypeOK' /\ Kept /\ Others(c) /\ Grows(c) /\ Mine(c)'
  <1>0. LogOK /\ TablesOK /\ CallersOK /\ Mine(c) /\ loc[c] \in Carried /\ at[c] \in Labels
    BY CallerHas
  <1>1. LogOK' /\ Grows(c)
    BY <1>0 DEF SelectHolds, LogOK, Grows
  <1>2. TablesOK' /\ Kept
    BY <1>0 DEF SelectHolds, TablesOK, Kept
  <1>3. CallersOK' /\ Others(c) /\ Mine(c)'
    <2>0. at[c] = "sweep" /\ loc[c].rows \subseteq Backups
      BY <1>0 DEF Mine, SelectHolds
    <2>1. CASE Return(c)
      BY <1>0, <2>1, Returns
    <2>2. ASSUME NEW b \in loc[c].rows, Goto(c, "sweep"), Carry(c, [loc[c] EXCEPT !.rows = @ \ {b}])
          PROVE  CallersOK' /\ Others(c) /\ Mine(c)'
      <3>1. "sweep" \in Labels /\ [loc[c] EXCEPT !.rows = @ \ {b}] \in Carried
        BY <1>0 DEF Labels, Carried, Acts
      <3>2. CallersOK' /\ Others(c) /\ at'[c] = "sweep" /\ loc'[c] = [loc[c] EXCEPT !.rows = @ \ {b}]
        BY <1>0, <2>2, <3>1, Moves
      <3> QED
        BY <1>0, <2>0, <3>2 DEF Mine, Carried, Acts
    <2>3. ASSUME NEW b \in loc[c].rows, Goto(c, "delete"), Carry(c, [loc[c] EXCEPT !.rows = @ \ {b}, !.sub = b])
          PROVE  CallersOK' /\ Others(c) /\ Mine(c)'
      <3>1. "delete" \in Labels /\ [loc[c] EXCEPT !.rows = @ \ {b}, !.sub = b] \in Carried
        BY <1>0, <2>0 DEF Labels, Carried, Acts, Subjects
      <3>2. CallersOK' /\ Others(c) /\ at'[c] = "delete" /\ loc'[c] = [loc[c] EXCEPT !.rows = @ \ {b}, !.sub = b]
        BY <1>0, <2>3, <3>1, Moves
      <3>3. loc'[c].sub = b /\ loc'[c].rows = loc[c].rows \ {b}
        BY <1>0, <3>2 DEF Carried, Acts
      <3> QED
        BY <2>0, <3>2, <3>3 DEF Mine
    <2> QED
      BY <2>1, <2>2, <2>3 DEF SelectHolds
  <1> QED
    BY <1>1, <1>2, <1>3, TypeParts

LEMMA DeleteBackupKeeps ==
    ASSUME IInv, NEW c \in Callers, DeleteBackup(c)
    PROVE  TypeOK' /\ Kept /\ Others(c) /\ Grows(c) /\ Mine(c)'
  <1>0. LogOK /\ TablesOK /\ CallersOK /\ Mine(c) /\ loc[c] \in Carried /\ at[c] \in Labels
    BY CallerHas
  <1>1. LogOK' /\ Grows(c)
    BY <1>0 DEF DeleteBackup, LogOK, Grows
  <1>2. TablesOK' /\ Kept
    <2>1. loc[c].sub \in Backups
      BY <1>0 DEF Mine, DeleteBackup
    <2> QED
      BY <1>0, <2>1 DEF DeleteBackup, TablesOK, Kept
  <1>3. CallersOK' /\ Others(c) /\ Mine(c)'
    <2>0. loc[c].sub \in Backups /\ loc[c].rows \subseteq Backups
      BY <1>0 DEF Mine, DeleteBackup
    <2>1. loc[c].sub \in Subjects /\ "sweep" \in Labels /\ "BACKUP_DELETED" \in Acts
          /\ loc[c].rows \in SUBSET (Backups \cup Drills \cup {Recovery, "row"})
      BY <2>0 DEF Subjects, Labels, Acts
    <2>2. CallersOK' /\ Others(c) /\ at'[c] = "tail"
          /\ loc'[c] = [act |-> "BACKUP_DELETED", sub |-> loc[c].sub, tail |-> 0, then |-> "sweep", rows |-> loc[c].rows]
      BY <1>0, <2>1, Audits DEF DeleteBackup
    <2>3. backups'[loc[c].sub] = "deleted"
      BY <1>0, <2>0 DEF DeleteBackup, TablesOK
    <2> QED
      BY <2>0, <2>2, <2>3 DEF Mine, Happened
  <1> QED
    BY <1>1, <1>2, <1>3, TypeParts

LEMMA EnterDegradedModeKeeps ==
    ASSUME IInv, NEW c \in Callers, EnterDegradedMode(c)
    PROVE  TypeOK' /\ Kept /\ Others(c) /\ Grows(c) /\ Mine(c)'
  <1>0. LogOK /\ TablesOK /\ CallersOK /\ Mine(c) /\ loc[c] \in Carried /\ at[c] \in Labels
    BY CallerHas
  <1>1. LogOK' /\ Grows(c)
    BY <1>0 DEF EnterDegradedMode, LogOK, Grows
  <1>2. TablesOK' /\ Kept
    <2>1. loc[c].sub \in Drills \cup {Recovery}
      BY <1>0 DEF Mine, EnterDegradedMode
    <2> QED
      BY <1>0, <2>1 DEF EnterDegradedMode, TablesOK, Kept
  <1>3. CallersOK' /\ Others(c) /\ Mine(c)'
    <2>0. loc[c].sub \in Drills \cup {Recovery}
      BY <1>0 DEF Mine, EnterDegradedMode
    <2>1. CASE Return(c)
      BY <1>0, <2>1, Returns
    <2>2. CASE modes' = [modes EXCEPT ![loc[c].sub] = "active"] /\ Audit(c, "DEGRADED_ENTERED", loc[c].sub, "idle", {})
      <3>1. loc[c].sub \in Subjects /\ "idle" \in Labels /\ "DEGRADED_ENTERED" \in Acts
        BY <2>0 DEF Subjects, Labels, Acts
      <3>2. CallersOK' /\ Others(c) /\ at'[c] = "tail"
            /\ loc'[c] = [act |-> "DEGRADED_ENTERED", sub |-> loc[c].sub, tail |-> 0, then |-> "idle", rows |-> {}]
        BY <1>0, <2>2, <3>1, AuditsAlone
      <3>3. loc[c].sub \in DOMAIN modes' /\ modes'[loc[c].sub] = "active"
        BY <1>0, <2>0, <2>2 DEF TablesOK
      <3> QED
        BY <3>2, <3>3 DEF Mine, Happened
    <2> QED
      BY <2>1, <2>2 DEF EnterDegradedMode
  <1> QED
    BY <1>1, <1>2, <1>3, TypeParts

LEMMA SelectDegradedKeeps ==
    ASSUME IInv, NEW c \in Callers, SelectDegraded(c)
    PROVE  TypeOK' /\ Kept /\ Others(c) /\ Grows(c) /\ Mine(c)'
  <1>0. LogOK /\ TablesOK /\ CallersOK /\ Mine(c) /\ loc[c] \in Carried /\ at[c] \in Labels
    BY CallerHas
  <1>1. LogOK' /\ Grows(c)
    BY <1>0 DEF SelectDegraded, LogOK, Grows
  <1>2. TablesOK' /\ Kept
    BY <1>0 DEF SelectDegraded, TablesOK, Kept
  <1>3. CallersOK' /\ Others(c) /\ Mine(c)'
    <2>0. PICK ofTier \in SUBSET DOMAIN modes :
             Goto(c, "restore") /\ Carry(c, [Nothing EXCEPT !.rows = ofTier])
      BY DEF SelectDegraded
    <2>1. "restore" \in Labels /\ [Nothing EXCEPT !.rows = ofTier] \in Carried
      BY <1>0 DEF Labels, Carried, Acts, Nothing, TablesOK, Subjects
    <2>2. CallersOK' /\ Others(c) /\ at'[c] = "restore" /\ loc'[c] = [Nothing EXCEPT !.rows = ofTier]
      BY <1>0, <2>0, <2>1, Moves
    <2>3. loc'[c].rows = ofTier /\ modes' = modes
      BY <2>2 DEF Nothing, SelectDegraded
    <2> QED
      BY <2>2, <2>3 DEF Mine
  <1> QED
    BY <1>1, <1>2, <1>3, TypeParts

LEMMA ExitDegradedModeKeeps ==
    ASSUME IInv, NEW c \in Callers, ExitDegradedMode(c)
    PROVE  TypeOK' /\ Kept /\ Others(c) /\ Grows(c) /\ Mine(c)'
  <1>0. LogOK /\ TablesOK /\ CallersOK /\ Mine(c) /\ loc[c] \in Carried /\ at[c] \in Labels
    BY CallerHas
  <1>1. LogOK' /\ Grows(c)
    BY <1>0 DEF ExitDegradedMode, LogOK, Grows
  <1>4. PICK m \in loc[c].rows :
          /\ modes' = [modes EXCEPT ![m] = "restored"]
          /\ IF loc[c].rows = {m} THEN Audit(c, "DEGRADED_EXITED", m, "idle", {})
             ELSE Goto(c, "restore") /\ Carry(c, [loc[c] EXCEPT !.rows = @ \ {m}])
    BY DEF ExitDegradedMode
  <1>5. loc[c].rows \subseteq DOMAIN modes
    BY <1>0 DEF Mine, ExitDegradedMode
  <1>2. TablesOK' /\ Kept
    BY <1>0, <1>4, <1>5 DEF ExitDegradedMode, TablesOK, Kept
  <1>3. CallersOK' /\ Others(c) /\ Mine(c)'
    <2>1. CASE Audit(c, "DEGRADED_EXITED", m, "idle", {})
      <3>1. m \in Subjects /\ "idle" \in Labels /\ "DEGRADED_EXITED" \in Acts
        BY <1>0, <1>4, <1>5 DEF Subjects, Labels, Acts, TablesOK
      <3>2. CallersOK' /\ Others(c) /\ at'[c] = "tail"
            /\ loc'[c] = [act |-> "DEGRADED_EXITED", sub |-> m, tail |-> 0, then |-> "idle", rows |-> {}]
        BY <1>0, <2>1, <3>1, AuditsAlone
      <3> QED
        BY <3>2 DEF Mine, Happened
    <2>2. CASE Goto(c, "restore") /\ Carry(c, [loc[c] EXCEPT !.rows = @ \ {m}])
      <3>1. "restore" \in Labels /\ [loc[c] EXCEPT !.rows = @ \ {m}] \in Carried
        BY <1>0 DEF Labels, Carried, Acts
      <3>2. CallersOK' /\ Others(c) /\ at'[c] = "restore" /\ loc'[c] = [loc[c] EXCEPT !.rows = @ \ {m}]
        BY <1>0, <2>2, <3>1, Moves
      <3>3. loc'[c].rows = loc[c].rows \ {m} /\ DOMAIN modes' = DOMAIN modes
        BY <1>0, <1>4, <3>2 DEF Carried, Acts, TablesOK
      <3> QED
        BY <1>5, <3>2, <3>3 DEF Mine
    <2> QED
      BY <1>4, <2>1, <2>2
  <1> QED
    BY <1>1, <1>2, <1>3, TypeParts

LEMMA VerifyDrillKeeps ==
    ASSUME IInv, NEW c \in Callers, VerifyDrill(c)
    PROVE  TypeOK' /\ Kept /\ Others(c) /\ Grows(c) /\ Mine(c)'
  <1>0. LogOK /\ TablesOK /\ CallersOK /\ Mine(c) /\ loc[c] \in Carried /\ at[c] \in Labels
    BY CallerHas
  <1>1. LogOK' /\ Grows(c)
    BY <1>0 DEF VerifyDrill, LogOK, Grows
  <1>2. TablesOK' /\ Kept
    BY <1>0 DEF VerifyDrill, TablesOK, Kept
  <1>3. CallersOK' /\ Others(c) /\ Mine(c)'
    <2>1. CASE Return(c)
      BY <1>0, <2>1, Returns
    <2>2. ASSUME NEW v \in {"sound", "unsound"}, Goto(c, "conclude"), Carry(c, [loc[c] EXCEPT !.act = v])
          PROVE  CallersOK' /\ Others(c) /\ Mine(c)'
      <3>1. "conclude" \in Labels /\ [loc[c] EXCEPT !.act = v] \in Carried
        BY <1>0 DEF Labels, Carried, Acts
      <3>2. CallersOK' /\ Others(c) /\ at'[c] = "conclude" /\ loc'[c] = [loc[c] EXCEPT !.act = v]
        BY <1>0, <2>2, <3>1, Moves
      <3>3. loc[c].sub \in Drills /\ loc'[c].sub = loc[c].sub
        BY <1>0, <3>2 DEF Mine, VerifyDrill, Carried
      <3> QED
        BY <3>2, <3>3 DEF Mine
    <2> QED
      BY <2>1, <2>2 DEF VerifyDrill
  <1> QED
    BY <1>1, <1>2, <1>3, TypeParts

LEMMA ConcludeDrillKeeps ==
    ASSUME IInv, NEW c \in Callers, ConcludeDrill(c)
    PROVE  TypeOK' /\ Kept /\ Others(c) /\ Grows(c) /\ Mine(c)'
  <1>0. LogOK /\ TablesOK /\ CallersOK /\ Mine(c) /\ loc[c] \in Carried /\ at[c] \in Labels
    BY CallerHas
  <1>1. LogOK' /\ Grows(c)
    BY <1>0 DEF ConcludeDrill, LogOK, Grows
  <1>4. loc[c].sub \in Drills
    BY <1>0 DEF Mine, ConcludeDrill
  <1>5. PICK onTarget \in BOOLEAN, v \in {"PASSED", "FAILED"} :
          /\ drills' = [drills EXCEPT ![loc[c].sub] = v]
          /\ Audit(c, "DRILL_COMPLETED", loc[c].sub, IF onTarget THEN "idle" ELSE "degrade", {})
    BY DEF ConcludeDrill
  <1>2. TablesOK' /\ Kept
    BY <1>0, <1>4, <1>5 DEF ConcludeDrill, TablesOK, Kept
  <1>3. CallersOK' /\ Others(c) /\ Mine(c)'
    <2> DEFINE then == IF onTarget THEN "idle" ELSE "degrade"
    <2>1. loc[c].sub \in Subjects /\ then \in Labels /\ then \in {"idle", "degrade"}
          /\ "DRILL_COMPLETED" \in Acts
      BY <1>4 DEF Subjects, Labels, Acts
    <2> HIDE DEF then
    <2>2. CallersOK' /\ Others(c) /\ at'[c] = "tail"
          /\ loc'[c] = [act |-> "DRILL_COMPLETED", sub |-> loc[c].sub, tail |-> 0, then |-> then, rows |-> {}]
      BY <1>0, <1>5, <2>1, AuditsAlone DEF then
    <2>3. drills'[loc[c].sub] \in {"PASSED", "FAILED"}
      BY <1>0, <1>4, <1>5 DEF TablesOK
    <2> QED
      BY <1>4, <2>1, <2>2, <2>3 DEF Mine, Happened
  <1> QED
    BY <1>1, <1>2, <1>3, TypeParts

LEMMA SelectReconKeeps ==
    ASSUME IInv, NEW c \in Callers, SelectRecon(c)
    PROVE  TypeOK' /\ Kept /\ Others(c) /\ Grows(c) /\ Mine(c)'
  <1>0. LogOK /\ TablesOK /\ CallersOK /\ Mine(c) /\ loc[c] \in Carried /\ at[c] \in Labels
    BY CallerHas
  <1>1. LogOK' /\ Grows(c)
    BY <1>0 DEF SelectRecon, LogOK, Grows
  <1>2. TablesOK' /\ Kept
    BY <1>0 DEF SelectRecon, TablesOK, Kept
  <1>3. CallersOK' /\ Others(c) /\ Mine(c)'
    <2>1. "domains" \in Labels /\ [Nothing EXCEPT !.rows = IF recon.exists THEN {"row"} ELSE {}] \in Carried
      BY <1>0 DEF Labels, Carried, Acts, Nothing, TablesOK, Mine, Subjects
    <2>2. CallersOK' /\ Others(c) /\ at'[c] = "domains" /\ loc'[c] = [Nothing EXCEPT !.rows = IF recon.exists THEN {"row"} ELSE {}]
      BY <1>0, <2>1, Moves DEF SelectRecon
    <2> QED
      BY <1>0, <1>1, <2>1, <2>2 DEF Mine, Happened, SelectRecon, Nothing, Carried, Acts, TablesOK
  <1> QED
    BY <1>1, <1>2, <1>3, TypeParts

LEMMA VerifyDomainsKeeps ==
    ASSUME IInv, NEW c \in Callers, VerifyDomains(c)
    PROVE  TypeOK' /\ Kept /\ Others(c) /\ Grows(c) /\ Mine(c)'
  <1>0. LogOK /\ TablesOK /\ CallersOK /\ Mine(c) /\ loc[c] \in Carried /\ at[c] \in Labels
    BY CallerHas
  <1>1. LogOK' /\ Grows(c)
    BY <1>0 DEF VerifyDomains, LogOK, Grows
  <1>2. TablesOK' /\ Kept
    BY <1>0 DEF VerifyDomains, TablesOK, Kept
  <1>3. CallersOK' /\ Others(c) /\ Mine(c)'
    <2>0. PICK verdict \in {"sound", "unsound"} : Carry(c, [loc[c] EXCEPT !.act = verdict])
      BY DEF VerifyDomains
    <2>1. "verify" \in Labels /\ [loc[c] EXCEPT !.act = verdict] \in Carried
      BY <1>0 DEF Labels, Carried, Acts
    <2>2. CallersOK' /\ Others(c) /\ at'[c] = "verify" /\ loc'[c] = [loc[c] EXCEPT !.act = verdict]
      BY <1>0, <2>0, <2>1, Moves DEF VerifyDomains
    <2>3. loc'[c].act = verdict
      BY <1>0, <2>2 DEF Carried, Acts
    <2> QED
      BY <2>2, <2>3 DEF Mine
  <1> QED
    BY <1>1, <1>2, <1>3, TypeParts

LEMMA VerifyReconKeeps ==
    ASSUME IInv, NEW c \in Callers, VerifyRecon(c)
    PROVE  TypeOK' /\ Kept /\ Others(c) /\ Grows(c) /\ Mine(c)'
  <1>0. LogOK /\ TablesOK /\ CallersOK /\ Mine(c) /\ loc[c] \in Carried /\ at[c] \in Labels
    BY CallerHas
  <1>1. LogOK' /\ Grows(c)
    BY <1>0 DEF VerifyRecon, LogOK, Grows
  <1>2. TablesOK' /\ Kept
    BY <1>0 DEF VerifyRecon, TablesOK, Kept
  <1>3. CallersOK' /\ Others(c) /\ Mine(c)'
    <2>0. PICK v \in {"degraded", "resumed", "unsound"} : Carry(c, [loc[c] EXCEPT !.act = v])
      BY DEF VerifyRecon
    <2>1. "save" \in Labels /\ [loc[c] EXCEPT !.act = v] \in Carried
      BY <1>0 DEF Labels, Carried, Acts
    <2>2. CallersOK' /\ Others(c) /\ at'[c] = "save"
      BY <1>0, <2>0, <2>1, Moves DEF VerifyRecon
    <2> QED
      BY <2>2 DEF Mine
  <1> QED
    BY <1>1, <1>2, <1>3, TypeParts

LEMMA SaveReconKeeps ==
    ASSUME IInv, NEW c \in Callers, SaveRecon(c)
    PROVE  TypeOK' /\ Kept /\ Others(c) /\ Grows(c) /\ Mine(c)'
  <1>0. LogOK /\ TablesOK /\ CallersOK /\ Mine(c) /\ loc[c] \in Carried /\ at[c] \in Labels
    BY CallerHas
  <1>1. LogOK' /\ Grows(c)
    BY <1>0 DEF SaveRecon, LogOK, Grows
  <1>2. TablesOK' /\ Kept
    <2>1. recon' = recon
          \/ recon' = [exists |-> TRUE, resumed |-> loc[c].act = "resumed", degraded |-> loc[c].act = "degraded"]
      BY DEF SaveRecon
    <2>2. recon' \in [exists : BOOLEAN, resumed : BOOLEAN, degraded : BOOLEAN] /\ (recon.exists => recon'.exists)
      <3>1. (loc[c].act = "resumed") \in BOOLEAN /\ (loc[c].act = "degraded") \in BOOLEAN
        OBVIOUS
      <3>2. ASSUME NEW r \in BOOLEAN, NEW g \in BOOLEAN, recon' = [exists |-> TRUE, resumed |-> r, degraded |-> g]
            PROVE  recon' \in [exists : BOOLEAN, resumed : BOOLEAN, degraded : BOOLEAN] /\ recon'.exists
        BY <3>2
      <3>3. CASE recon' = recon
        BY <1>0, <3>3 DEF TablesOK
      <3> QED
        BY <2>1, <3>1, <3>2, <3>3
    <2> QED
      BY <1>0, <2>2 DEF SaveRecon, TablesOK, Kept
  <1>3. CallersOK' /\ Others(c) /\ Mine(c)'
    <2>1. CASE Return(c)
      BY <1>0, <2>1, Returns
    <2>2. CASE recon'.exists /\ Audit(c, "RECONCILIATION_COMPLETED", Recovery, "idle", {})
      <3>1. Recovery \in Subjects /\ "idle" \in Labels /\ "RECONCILIATION_COMPLETED" \in Acts
        BY DEF Subjects, Labels, Acts
      <3>2. CallersOK' /\ Others(c) /\ at'[c] = "tail"
            /\ loc'[c] = [act |-> "RECONCILIATION_COMPLETED", sub |-> Recovery, tail |-> 0, then |-> "idle", rows |-> {}]
        BY <1>0, <2>2, <3>1, AuditsAlone
      <3> QED
        BY <2>2, <3>2 DEF Mine, Happened
    <2>3. CASE Goto(c, "degrade") /\ Carry(c, [Nothing EXCEPT !.sub = Recovery])
      <3>1. "degrade" \in Labels /\ [Nothing EXCEPT !.sub = Recovery] \in Carried
        BY DEF Labels, Carried, Acts, Nothing, Subjects
      <3>2. CallersOK' /\ Others(c) /\ at'[c] = "degrade" /\ loc'[c] = [Nothing EXCEPT !.sub = Recovery]
        BY <1>0, <2>3, <3>1, Moves
      <3> QED
        BY <3>2 DEF Mine, Nothing
    <2>4. \/ Return(c)
          \/ recon'.exists /\ Audit(c, "RECONCILIATION_COMPLETED", Recovery, "idle", {})
          \/ Goto(c, "degrade") /\ Carry(c, [Nothing EXCEPT !.sub = Recovery])
      BY DEF SaveRecon
    <2> QED
      BY <2>1, <2>2, <2>3, <2>4
  <1> QED
    BY <1>1, <1>2, <1>3, TypeParts

LEMMA CrashKeeps ==
    ASSUME IInv, NEW c \in Callers, Crash(c)
    PROVE  TypeOK' /\ Kept /\ Others(c) /\ Grows(c) /\ Mine(c)'
  <1>0. LogOK /\ TablesOK /\ CallersOK /\ Mine(c) /\ loc[c] \in Carried /\ at[c] \in Labels
    BY CallerHas
  <1>1. LogOK' /\ Grows(c)
    BY <1>0 DEF Crash, LogOK, Grows
  <1>2. TablesOK' /\ Kept
    BY <1>0 DEF Crash, TablesOK, Kept
  <1>3. CallersOK' /\ Others(c) /\ Mine(c)'
    BY <1>0, Returns DEF Crash
  <1> QED
    BY <1>1, <1>2, <1>3, TypeParts

LEMMA CreateBackupRecordKeeps ==
    ASSUME IInv, NEW c \in Callers, NEW b \in Backups, CreateBackupRecord(c, b)
    PROVE  TypeOK' /\ Kept /\ Others(c) /\ Grows(c) /\ Mine(c)'
  <1>0. LogOK /\ TablesOK /\ CallersOK /\ Mine(c) /\ loc[c] \in Carried /\ at[c] \in Labels
    BY CallerHas
  <1>1. LogOK' /\ Grows(c)
    BY <1>0 DEF CreateBackupRecord, LogOK, Grows
  <1>2. TablesOK' /\ Kept
    BY <1>0 DEF CreateBackupRecord, TablesOK, Kept
  <1>3. CallersOK' /\ Others(c) /\ Mine(c)'
    <2>1. b \in Subjects /\ "idle" \in Labels /\ "BACKUP_CREATED" \in Acts
      BY DEF Subjects, Labels, Acts
    <2>2. CallersOK' /\ Others(c) /\ at'[c] = "tail"
          /\ loc'[c] = [act |-> "BACKUP_CREATED", sub |-> b, tail |-> 0, then |-> "idle", rows |-> {}]
      BY <1>0, <2>1, AuditsAlone DEF CreateBackupRecord
    <2> QED
      BY <1>0, <2>2 DEF Mine, Happened, TablesOK, CreateBackupRecord
  <1> QED
    BY <1>1, <1>2, <1>3, TypeParts

LEMMA CreateLegalHoldKeeps ==
    ASSUME IInv, NEW c \in Callers, NEW b \in Backups, CreateLegalHold(c, b)
    PROVE  TypeOK' /\ Kept /\ Others(c) /\ Grows(c) /\ Mine(c)'
  <1>0. LogOK /\ TablesOK /\ CallersOK /\ Mine(c) /\ loc[c] \in Carried /\ at[c] \in Labels
    BY CallerHas
  <1>1. LogOK' /\ Grows(c)
    BY <1>0 DEF CreateLegalHold, LogOK, Grows
  <1>2. TablesOK' /\ Kept
    BY <1>0 DEF CreateLegalHold, TablesOK, Kept
  <1>3. CallersOK' /\ Others(c) /\ Mine(c)'
    <2>1. b \in Subjects /\ "idle" \in Labels /\ "LEGAL_HOLD_CREATED" \in Acts
      BY DEF Subjects, Labels, Acts
    <2>2. CallersOK' /\ Others(c) /\ at'[c] = "tail"
          /\ loc'[c] = [act |-> "LEGAL_HOLD_CREATED", sub |-> b, tail |-> 0, then |-> "idle", rows |-> {}]
      BY <1>0, <2>1, AuditsAlone DEF CreateLegalHold
    <2> QED
      BY <1>0, <2>2 DEF Mine, Happened, TablesOK, CreateLegalHold
  <1> QED
    BY <1>1, <1>2, <1>3, TypeParts

LEMMA ReleaseLegalHoldKeeps ==
    ASSUME IInv, NEW c \in Callers, NEW b \in Backups, ReleaseLegalHold(c, b)
    PROVE  TypeOK' /\ Kept /\ Others(c) /\ Grows(c) /\ Mine(c)'
  <1>0. LogOK /\ TablesOK /\ CallersOK /\ Mine(c) /\ loc[c] \in Carried /\ at[c] \in Labels
    BY CallerHas
  <1>1. LogOK' /\ Grows(c)
    BY <1>0 DEF ReleaseLegalHold, LogOK, Grows
  <1>2. TablesOK' /\ Kept
    BY <1>0 DEF ReleaseLegalHold, TablesOK, Kept
  <1>3. CallersOK' /\ Others(c) /\ Mine(c)'
    <2>1. b \in Subjects /\ "idle" \in Labels /\ "LEGAL_HOLD_RELEASED" \in Acts
      BY DEF Subjects, Labels, Acts
    <2>2. CallersOK' /\ Others(c) /\ at'[c] = "tail"
          /\ loc'[c] = [act |-> "LEGAL_HOLD_RELEASED", sub |-> b, tail |-> 0, then |-> "idle", rows |-> {}]
      BY <1>0, <2>1, AuditsAlone DEF ReleaseLegalHold
    <2> QED
      BY <1>0, <2>2 DEF Mine, Happened, TablesOK, ReleaseLegalHold
  <1> QED
    BY <1>1, <1>2, <1>3, TypeParts

LEMMA RequestRestoreAccessKeeps ==
    ASSUME IInv, NEW c \in Callers, NEW b \in Backups, RequestRestoreAccess(c, b)
    PROVE  TypeOK' /\ Kept /\ Others(c) /\ Grows(c) /\ Mine(c)'
  <1>0. LogOK /\ TablesOK /\ CallersOK /\ Mine(c) /\ loc[c] \in Carried /\ at[c] \in Labels
    BY CallerHas
  <1>1. LogOK' /\ Grows(c)
    BY <1>0 DEF RequestRestoreAccess, LogOK, Grows
  <1>2. TablesOK' /\ Kept
    BY <1>0 DEF RequestRestoreAccess, TablesOK, Kept
  <1>3. CallersOK' /\ Others(c) /\ Mine(c)'
    <2>0. PICK act \in {"RESTORE_GRANTED", "RESTORE_DENIED"} : Audit(c, act, b, "idle", {})
      BY DEF RequestRestoreAccess
    <2>1. b \in Subjects /\ "idle" \in Labels /\ act \in Acts
      BY DEF Subjects, Labels, Acts
    <2>2. CallersOK' /\ Others(c) /\ at'[c] = "tail"
          /\ loc'[c] = [act |-> act, sub |-> b, tail |-> 0, then |-> "idle", rows |-> {}]
      BY <1>0, <2>0, <2>1, AuditsAlone
    <2> QED
      BY <2>0, <2>2 DEF Mine, Happened
  <1> QED
    BY <1>1, <1>2, <1>3, TypeParts

LEMMA StartDrillKeeps ==
    ASSUME IInv, NEW c \in Callers, NEW d \in Drills, StartDrill(c, d)
    PROVE  TypeOK' /\ Kept /\ Others(c) /\ Grows(c) /\ Mine(c)'
  <1>0. LogOK /\ TablesOK /\ CallersOK /\ Mine(c) /\ loc[c] \in Carried /\ at[c] \in Labels
    BY CallerHas
  <1>1. LogOK' /\ Grows(c)
    BY <1>0 DEF StartDrill, LogOK, Grows
  <1>2. TablesOK' /\ Kept
    BY <1>0 DEF StartDrill, TablesOK, Kept
  <1>3. CallersOK' /\ Others(c) /\ Mine(c)'
    <2>1. d \in Subjects /\ "drill" \in Labels /\ "DRILL_STARTED" \in Acts
      BY DEF Subjects, Labels, Acts
    <2>2. CallersOK' /\ Others(c) /\ at'[c] = "tail"
          /\ loc'[c] = [act |-> "DRILL_STARTED", sub |-> d, tail |-> 0, then |-> "drill", rows |-> {}]
      BY <1>0, <2>1, AuditsAlone DEF StartDrill
    <2> QED
      BY <2>2 DEF Mine, Happened
  <1> QED
    BY <1>1, <1>2, <1>3, TypeParts

-----------------------------------------------------------------------------
(* Every step of a caller has the effects the lemmas above name.           *)
LEMMA StepKeeps ==
    ASSUME IInv, NEW c \in Callers, Step(c)
    PROVE  TypeOK' /\ Kept /\ Others(c) /\ Grows(c) /\ Mine(c)'
  <1> QED
    BY SelectTailKeeps, InsertAuditKeeps, CreateRetentionPolicyKeeps, InsertPolicyKeeps,
       SelectExpiredKeeps, SelectHoldsKeeps, DeleteBackupKeeps, EnterDegradedModeKeeps,
       SelectDegradedKeeps, ExitDegradedModeKeeps, VerifyDrillKeeps, ConcludeDrillKeeps,
       SelectReconKeeps, VerifyDomainsKeeps,
       VerifyReconKeeps, SaveReconKeeps, CrashKeeps, CreateBackupRecordKeeps,
       CreateLegalHoldKeeps, ReleaseLegalHoldKeeps, RequestRestoreAccessKeeps,
       StartDrillKeeps DEF Step

(* The rows of the log stay, and the one appended was pending.             *)
LEMMA RowsStay ==
    ASSUME IInv, NEW c \in Callers, Grows(c)
    PROVE  /\ DOMAIN log \subseteq DOMAIN log' /\ Len(log) <= Len(log')
           /\ \A i \in DOMAIN log : log'[i] = log[i]
           /\ \A i \in DOMAIN log' \ DOMAIN log : at[c] = "append" /\ log'[i] = AuditRow(c)
  <1>1. LogOK /\ loc[c] \in Carried
    BY CallerHas
  <1>2. CASE log' = log
    BY <1>1, <1>2 DEF LogOK
  <1>3. CASE at[c] = "append" /\ log' = Append(log, AuditRow(c))
    <2>1. AuditRow(c) \in Row
      BY <1>1 DEF AuditRow, Row, Carried
    <2>2. Len(log) \in Nat /\ DOMAIN log = 1..Len(log) /\ DOMAIN log' = 1..(Len(log) + 1) /\ Len(log') = Len(log) + 1
      BY <1>1, <1>3, <2>1 DEF LogOK
    <2>3. \A i \in 1..Len(log) : log'[i] = log[i]
      BY <1>1, <1>3, <2>1 DEF LogOK
    <2>4. log'[Len(log) + 1] = AuditRow(c)
      BY <1>1, <1>3, <2>1 DEF LogOK
    <2> QED
      BY <1>3, <2>2, <2>3, <2>4
  <1> QED
    BY <1>2, <1>3 DEF Grows

(* What holds of the callers holds again, whichever of them took the step. *)
LEMMA CallersKeep ==
    ASSUME IInv, NEW c \in Callers, TypeOK', Kept, Others(c), Grows(c), Mine(c)'
    PROVE  IInv'
  <1>0. TypeOK
    BY DEF IInv
  <1>1. \A o \in Callers : Mine(o)'
    <2>1. SUFFICES ASSUME NEW o \in Callers \ {c} PROVE Mine(o)'
      OBVIOUS
    <2>2. Mine(o) /\ at'[o] = at[o] /\ loc'[o] = loc[o]
      BY CallerHas DEF Others
    <2>3. at[o] \in {"tail", "append"} => Happened(loc[o].act, loc[o].sub)'
      <3>1. at[o] \in {"tail", "append"} => After(loc[o].act, loc[o].sub)
        BY <1>0, <2>2, ClaimsStay DEF Mine
      <3> QED
        BY <2>2, <3>1 DEF Happened, After
    <2>4. Len(log) <= Len(log') /\ Len(log) \in Nat /\ Len(log') \in Nat
      BY <1>0, RowsStay DEF TypeOK
    <2>5. DOMAIN modes' = DOMAIN modes
      BY DEF Kept
    <2> QED
      BY <2>2, <2>3, <2>4, <2>5 DEF Mine
  <1>2. AuditIsTruthful'
    <2>1. SUFFICES \A i \in DOMAIN log' : After(log'[i].act, log'[i].sub)
      BY DEF AuditIsTruthful, Happened, After
    <2> TAKE i \in DOMAIN log'
    <2>2. CASE i \in DOMAIN log
      <3>1. Happened(log[i].act, log[i].sub) /\ log'[i] = log[i]
        BY <2>2, RowsStay DEF IInv, AuditIsTruthful
      <3> QED
        BY <1>0, <3>1, ClaimsStay
    <2>3. CASE i \notin DOMAIN log
      <3>1. at[c] = "append" /\ log'[i] = AuditRow(c)
        BY <2>3, RowsStay
      <3>2. Happened(loc[c].act, loc[c].sub)
        BY <3>1 DEF IInv, PendingIsTruthful
      <3>3. log'[i].act = loc[c].act /\ log'[i].sub = loc[c].sub
        BY <3>1 DEF AuditRow
      <3> QED
        BY <1>0, <3>2, <3>3, ClaimsStay
    <2> QED
      BY <2>2, <2>3
  <1>3. PendingIsTruthful' /\ CarriesItsRow'
    BY <1>1 DEF PendingIsTruthful, CarriesItsRow, Mine
  <1> QED
    BY <1>2, <1>3 DEF IInv

(* A backup that expires leaves everything else as it was.                 *)
LEMMA ExpireKeeps ==
    ASSUME IInv, NEW b \in Backups, Expire(b)
    PROVE  IInv' /\ Kept
  <1>1. LogOK /\ TablesOK /\ CallersOK /\ TypeOK
    BY TypeParts DEF IInv
  <1>2. TablesOK' /\ Kept
    BY <1>1 DEF Expire, TablesOK, Kept
  <1>3. TypeOK'
    BY <1>1, <1>2, TypeParts DEF Expire, LogOK, CallersOK
  <1>4. AuditIsTruthful'
    <2>1. SUFFICES \A i \in DOMAIN log : After(log[i].act, log[i].sub)
      BY DEF AuditIsTruthful, Expire, Happened, After
    <2> QED
      BY <1>1, <1>2, ClaimsStay DEF IInv, AuditIsTruthful
  <1>5. PendingIsTruthful'
    <2>1. SUFFICES \A c \in Callers : at[c] \in {"tail", "append"} => After(loc[c].act, loc[c].sub)
      BY DEF PendingIsTruthful, Expire, Happened, After
    <2> QED
      BY <1>1, <1>2, ClaimsStay DEF IInv, PendingIsTruthful
  <1>6. CarriesItsRow'
    BY DEF IInv, CarriesItsRow, Expire
  <1> QED
    BY <1>2, <1>3, <1>4, <1>5, <1>6 DEF IInv

LEMMA UnchangedKeeps ==
    ASSUME IInv, UNCHANGED vars
    PROVE  IInv'
  <1> QED
    BY DEF IInv, vars, TypeOK, AuditIsTruthful, PendingIsTruthful, CarriesItsRow, Happened

LEMMA InitHolds == Init => IInv
  <1> SUFFICES ASSUME Init PROVE IInv
    OBVIOUS
  <1>1. TypeOK
    BY DEF Init, TypeOK, Carried, Labels, Subjects, Nothing, Row, Acts
  <1>2. AuditIsTruthful /\ PendingIsTruthful
    BY DEF Init, AuditIsTruthful, PendingIsTruthful
  <1>3. CarriesItsRow
    BY DEF Init, CarriesItsRow, Nothing
  <1> QED
    BY <1>1, <1>2, <1>3 DEF IInv

LEMMA NextKeeps ==
    ASSUME IInv, [Next]_vars
    PROVE  IInv'
  <1> QED
    BY StepKeeps, CallersKeep, ExpireKeeps, UnchangedKeeps DEF Next

-----------------------------------------------------------------------------
(* The inductive invariant of recovery-continuity.ts, whatever callers     *)
(* interleave and die after whichever statement.                           *)
THEOREM RecoveryInvariant == Spec => []IInv
  BY InitHolds, NextKeeps, PTL DEF Spec

(* The audit log never claims what did not happen (appendBackupAudit).     *)
THEOREM AuditStaysTrue == Spec => []AuditIsTruthful
  <1>1. IInv => AuditIsTruthful
    BY DEF IInv
  <1> QED
    BY <1>1, RecoveryInvariant, PTL

(* A fork stays in the log: rows are only appended.                        *)
LEMMA ForksStay ==
    ASSUME IInv, NEW c \in Callers, Grows(c), ~Unforked
    PROVE  ~Unforked'
  <1>1. PICK i \in DOMAIN log, j \in DOMAIN log : log[i].prev = log[j].prev /\ i # j
    BY DEF Unforked
  <1>2. i \in DOMAIN log' /\ j \in DOMAIN log' /\ log'[i] = log[i] /\ log'[j] = log[j]
    BY RowsStay
  <1> QED
    BY <1>1, <1>2 DEF Unforked

(* A drill passes whose check of the chain came out well.                  *)
LEMMA PassedAsFound ==
    ASSUME IInv, NEW c \in Callers, Step(c), NEW d \in Drills, drills'[d] = "PASSED"
    PROVE  drills[d] = "PASSED" \/ (FoundSound(c) /\ loc[c].sub = d)
  <1>0. TablesOK
    BY TypeParts DEF IInv
  <1>2. CASE ConcludeDrill(c)
    BY <1>0, <1>2 DEF ConcludeDrill, TablesOK, FoundSound
  <1>3. CASE \E e \in Drills : StartDrill(c, e)
    BY <1>0, <1>3 DEF StartDrill, TablesOK
  <1>4. CASE UNCHANGED drills
    BY <1>4
  <1>5. ConcludeDrill(c) \/ (\E e \in Drills : StartDrill(c, e)) \/ UNCHANGED drills
    BY DEF Step, SelectTail, InsertAudit, CreateRetentionPolicy, InsertPolicy, SelectExpired,
           SelectHolds, DeleteBackup, EnterDegradedMode, SelectDegraded, ExitDegradedMode, VerifyDrill,
           SelectRecon, VerifyDomains, VerifyRecon, SaveRecon, Crash, CreateBackupRecord, CreateLegalHold,
           ReleaseLegalHold, RequestRestoreAccess
  <1> QED
    BY <1>2, <1>3, <1>4, <1>5

(* A recovery resumes whose check of the chain came out well.              *)
LEMMA ResumedAsFound ==
    ASSUME IInv, NEW c \in Callers, Step(c), recon'.resumed
    PROVE  recon.resumed \/ FoundSound(c)
  <1>1. CASE SaveRecon(c)
    <2>1. CASE UNCHANGED recon
      BY <2>1
    <2>2. CASE recon' = [exists |-> TRUE, resumed |-> loc[c].act = "resumed", degraded |-> loc[c].act = "degraded"]
      BY <1>1, <2>2 DEF SaveRecon, FoundSound
    <2> QED
      BY <1>1, <2>1, <2>2 DEF SaveRecon
  <1>2. SaveRecon(c) \/ UNCHANGED recon
    BY DEF Step, SelectTail, InsertAudit, CreateRetentionPolicy, InsertPolicy, SelectExpired,
           SelectHolds, DeleteBackup, EnterDegradedMode, SelectDegraded, ExitDegradedMode, VerifyDrill,
           ConcludeDrill, StartDrill, SelectRecon, VerifyDomains, VerifyRecon, Crash, CreateBackupRecord,
           CreateLegalHold, ReleaseLegalHold, RequestRestoreAccess
  <1> QED
    BY <1>1, <1>2

(* Of a chain that does not verify no check comes out well.                *)
LEMMA NothingFoundSound ==
    ASSUME IInv, NEW c \in Callers, Step(c), ~ChainValid, NEW o \in Callers, FoundSound(o)'
    PROVE  FoundSound(o)
  <1>0. CallersOK /\ Mine(c) /\ loc[c] \in Carried
    BY CallerHas
  <1>1. CASE o # c
    BY <1>1, StepKeeps DEF Others, FoundSound
  <1>2. CASE o = c
    <2>1. \A label : Goto(c, label) => at'[c] = label
      BY <1>0 DEF CallersOK, Goto
    <2>2. CASE InsertAudit(c)
      BY <1>0, <1>2, <2>1, <2>2 DEF InsertAudit, Mine, FoundSound
    <2>3. CASE VerifyDrill(c)
      <3>1. CASE Return(c)
        BY <1>2, <2>1, <3>1 DEF Return, FoundSound
      <3>2. CASE Goto(c, "conclude") /\ Carry(c, [loc[c] EXCEPT !.act = "unsound"])
        <4>1. loc'[c].act = "unsound" /\ at'[c] = "conclude"
          BY <1>0, <2>1, <3>2 DEF Carry, CallersOK, Carried
        <4> QED
          BY <1>2, <4>1 DEF FoundSound
      <3> QED
        BY <2>3, <3>1, <3>2 DEF VerifyDrill
    <2>4. CASE VerifyRecon(c)
      <3>1. Carry(c, [loc[c] EXCEPT !.act = "degraded"]) /\ at'[c] = "save"
        BY <2>1, <2>4 DEF VerifyRecon
      <3>2. loc'[c].act = "degraded"
        BY <1>0, <3>1 DEF Carry, CallersOK, Carried
      <3> QED
        BY <1>2, <3>1, <3>2 DEF FoundSound
    <2>5. \/ InsertAudit(c) \/ VerifyDrill(c) \/ VerifyRecon(c)
          \/ \E label \in Labels \ {"conclude", "save"} : Goto(c, label)
      <3> USE DEF Labels
      <3>1. CASE \/ SelectTail(c) \/ CreateRetentionPolicy(c) \/ InsertPolicy(c) \/ SelectExpired(c)
                 \/ SelectHolds(c) \/ DeleteBackup(c) \/ EnterDegradedMode(c) \/ SelectDegraded(c)
                 \/ ExitDegradedMode(c)
        BY <3>1 DEF SelectTail, CreateRetentionPolicy, InsertPolicy, SelectExpired, SelectHolds, DeleteBackup,
             EnterDegradedMode, SelectDegraded, ExitDegradedMode, Audit, Return
      <3>2. CASE ConcludeDrill(c) \/ SelectRecon(c) \/ VerifyDomains(c) \/ SaveRecon(c) \/ Crash(c)
        BY <3>2 DEF ConcludeDrill, SelectRecon, VerifyDomains, SaveRecon, Crash, Audit, Return
      <3>3. CASE \/ \E b \in Backups : \/ CreateBackupRecord(c, b) \/ CreateLegalHold(c, b)
                                      \/ ReleaseLegalHold(c, b) \/ RequestRestoreAccess(c, b)
                 \/ \E d \in Drills : StartDrill(c, d)
        BY <3>3 DEF CreateBackupRecord, CreateLegalHold, ReleaseLegalHold, RequestRestoreAccess, StartDrill, Audit
      <3> QED
        BY <3>1, <3>2, <3>3 DEF Step
    <2> QED
      BY <1>2, <2>1, <2>2, <2>3, <2>4, <2>5 DEF FoundSound
  <1> QED
    BY <1>1, <1>2

(* A fork of the audit chain is never forgotten: no later append makes the *)
(* chain verify again, and no drill passes and no recovery resumes but one *)
(* that checked the chain before the fork and had yet to write its verdict *)
(* (verifyBackupAuditChain, and the two callers that ask it).              *)
THEOREM ForksAreFinal == Spec => ForkIsFinal
  <1>1. ASSUME IInv, [Next]_vars PROVE [ForkStays]_vars
    <2>1. SUFFICES ASSUME ~ChainValid, Next PROVE ForkStays
      BY <1>1 DEF ForkStays
    <2>2. TypeOK /\ TypeOK'
      BY <1>1, NextKeeps DEF IInv
    <2>3. ~Unforked
      BY <2>1, <2>2, ValidIsUnforked
    <2>4. ChainValid' => Unforked'
      BY DEF ChainValid
    <2>5. ASSUME NEW c \in Callers, Step(c) PROVE ForkStays
      <3>1. ~ChainValid'
        BY <1>1, <2>3, <2>4, <2>5, StepKeeps, ForksStay
      <3>2. \A d \in Drills : drills'[d] = "PASSED" =>
                drills[d] = "PASSED" \/ \E o \in Callers : FoundSound(o) /\ loc[o].sub = d
        BY <1>1, <2>5, PassedAsFound
      <3>3. recon'.resumed => recon.resumed \/ \E o \in Callers : FoundSound(o)
        BY <1>1, <2>5, ResumedAsFound
      <3>4. \A o \in Callers : FoundSound(o)' => FoundSound(o)
        BY <1>1, <2>1, <2>5, NothingFoundSound
      <3> QED
        BY <3>1, <3>2, <3>3, <3>4 DEF ForkStays
    <2>6. ASSUME NEW b \in Backups, Expire(b) PROVE ForkStays
      <3>1. UNCHANGED <<log, drills, recon, at, loc>>
        BY <2>6 DEF Expire
      <3>2. ~ChainValid'
        BY <2>3, <2>4, <3>1 DEF Unforked
      <3> QED
        BY <3>1, <3>2 DEF ForkStays, FoundSound
    <2> QED
      BY <2>1, <2>5, <2>6 DEF Next
  <1> QED
    BY <1>1, RecoveryInvariant, PTL DEF Spec, ForkIsFinal
-----------------------------------------------------------------------------
(* AgentRun: the tools an agent may call, and what its skeptic may confirm. *)

\* Every handler called was charged to each of the four budgets of a call, and
\* fitted them; a run may end with a call charged for a tool without a handler.
ChargesFit ==
    /\ used \in [Resources -> Int] /\ budget \in [Resources -> Nat] /\ made \in Nat
    /\ \A r \in Charged : made <= budget[r] /\ (pc # "done" => used[r] = made)

LEMMA InitCharges == AgentInit => ChargesFit
  <1> SUFFICES ASSUME AgentInit PROVE ChargesFit
    OBVIOUS
  <1>1. budget \in [Resources -> Nat]
    BY AgentAssumption DEF AgentInit
  <1>2. used = [r \in Resources |-> 0] /\ made = 0
    BY DEF AgentInit
  <1> QED BY <1>1, <1>2 DEF ChargesFit, Charged, Resources

\* Each of the four is checked before the call.
LEMMA ChargedIsChecked ==
    \A r \in Charged \cup {"MODEL_COST_USD"} : \E i \in DOMAIN Checks : Checks[i] = r
  <1>1. DOMAIN Checks = 1..6 /\ Checks[2] = "MODEL_COST_USD" /\ Checks[3] = "PROVIDER_COST_UNITS"
        /\ Checks[4] = "TOOL_CALLS" /\ Checks[5] = "TOOL_CALLS_PER_CANDIDATE" /\ Checks[6] = "PROVIDER_CALLS"
    BY DEF Checks
  <1> QED BY <1>1 DEF Charged

\* A call is the only step that charges them.
LEMMA NextCharges ==
    ASSUME ChargesFit, [AgentNext]_agentVars
    PROVE  ChargesFit'
  <1>1. CASE InvokeTool
    <2>1. CASE UNCHANGED <<used, made, budget>> /\ pc = "call"
      BY <2>1 DEF ChargesFit
    <2>2. CASE /\ \A r \in Charged : Fits(r)
               /\ used' = Charge /\ budget' = budget /\ pc = "call"
               /\ made' = made + 1 \/ (made' = made /\ pc' = "done")
      <3>1. \A r \in Charged : r \in Resources /\ Cost(r) = 1
        BY DEF Charged, Resources, Cost
      <3>2. \A r \in Charged : used'[r] = used[r] + 1 /\ used[r] + 1 <= budget[r] /\ used[r] = made
        BY <2>2, <3>1 DEF Charge, Fits, ChargesFit
      <3>3. used' \in [Resources -> Int]
        BY <2>2, <3>1 DEF Charge, ChargesFit
      <3> QED BY <2>2, <3>2, <3>3 DEF ChargesFit
    <2>3. ASSUME \A i \in DOMAIN Checks : Fits(Checks[i])
          PROVE  \A r \in Charged : Fits(r)
      BY <2>3, ChargedIsChecked
    <2> QED BY <1>1, <2>1, <2>2, <2>3 DEF InvokeTool, Raise
  <1>2. CASE RecordStep
    BY <1>2 DEF RecordStep, ChargesFit, Charged, Resources
  <1>3. CASE ToolAnswers
    BY <1>3, AgentAssumption DEF ToolAnswers, ChargesFit, Charged, Resources
  <1>4. CASE UNCHANGED <<used, made, budget>> /\ (pc = "done" => pc' = "done")
    BY <1>4 DEF ChargesFit
  <1> QED BY <1>1, <1>2, <1>3, <1>4 DEF AgentNext, Runtime, Preflight, AbortEndsAwait, NextStep,
             SynthesizeDecision, StartSkeptic, Challenge, SkepticToolAnswers, Conclude, Persist, Abort,
             DeadlinePasses, agentVars

\* BudgetTracker: whatever the plan asks for and whenever the run is cancelled or
\* runs out of time, no handler is called beyond the limits on calls, calls per
\* candidate, provider calls and provider units.
THEOREM CallsStayWithinBudget == AgentSpec => []CallsWithinBudget
  <1>1. ChargesFit => CallsWithinBudget
    BY DEF ChargesFit, CallsWithinBudget
  <1> QED BY <1>1, InitCharges, NextCharges, PTL DEF AgentSpec

AllowedTools == {SkepticTools[i] : i \in DOMAIN SkepticTools}
Asked == AllowedTools \cap Handlers
Findable == {"PROVIDER_CONFLICT_EXCEEDS_THRESHOLD", "hazard", "fatal"}
Skeptics == [on : BOOLEAN, left : Seq(AllowedTools), budget : Int, found : SUBSET Findable,
             clean : SUBSET Asked,
             verdict : {"none", "SKIPPED_POLICY", "NOT_TRIGGERED", "VETO", "CHALLENGE",
                        "INSUFFICIENT_EVIDENCE", "CONFIRM"}]

Challenging == {"challenge", "asked", "unheard", "verdict"}

\* While it has found nothing, a tool the skeptic must ask has answered or is
\* still to be asked.
SkepticInv ==
    /\ sk \in Skeptics
    /\ pc \notin {"save", "done"} => sk.verdict = "none"
    /\ pc \in {"asked", "unheard"} => sk.left # <<>> /\ Head(sk.left) \in Handlers
    /\ pc \in Challenging /\ sk.found = {} =>
           \A t \in Asked \ sk.clean : \E i \in DOMAIN sk.left : sk.left[i] = t
    /\ ConfirmationIsEarned

LEMMA InitSkeptic == AgentInit => SkepticInv
  <1> SUFFICES ASSUME AgentInit PROVE SkepticInv
    OBVIOUS
  <1>1. PICK on \in BOOLEAN : sk = [on |-> on, left |-> <<>>, budget |-> 0, found |-> {}, clean |-> {},
                                    verdict |-> "none"]
    BY DEF AgentInit
  <1>2. pc = "preflight"
    BY DEF AgentInit
  <1> QED BY <1>1, <1>2 DEF SkepticInv, Skeptics, ConfirmationIsEarned, Challenging

\* A step that leaves the skeptic alone.
LEMMA SkepticRests ==
    ASSUME SkepticInv, sk' = sk,
           \/ pc' = pc \/ pc' \in {"save", "done"}
           \/ pc \notin {"save", "done"} /\ pc' \notin Challenging
           \/ pc \in Challenging /\ pc' = "verdict"
    PROVE  SkepticInv'
  BY DEF SkepticInv, ConfirmationIsEarned, Challenging

LEMMA StartSkepticInv ==
    ASSUME SkepticInv, StartSkeptic
    PROVE  SkepticInv'
  <1>0. pc = "skeptic" /\ sk \in Skeptics /\ sk.verdict = "none"
    BY DEF StartSkeptic, SkepticInv
  <1>1. CASE UNCHANGED sk /\ pc' \in {"save", "done"}
    BY <1>1, SkepticRests
  <1>2. ASSUME NEW v \in {"SKIPPED_POLICY", "NOT_TRIGGERED"}, sk' = [sk EXCEPT !.verdict = v], pc' = "save"
        PROVE  SkepticInv'
    <2>1. sk' \in Skeptics /\ sk'.verdict = v
      BY <1>0, <1>2 DEF Skeptics
    <2> QED BY <1>2, <2>1 DEF SkepticInv, ConfirmationIsEarned, Challenging
  <1>3. ASSUME NEW b \in 0..Len(SkepticTools), NEW f \in SUBSET Findable, pc' = "challenge",
               sk' = [sk EXCEPT !.left = SkepticTools, !.budget = b, !.found = f]
        PROVE  SkepticInv'
    <2>1. SkepticTools \in Seq(AllowedTools) /\ b \in Int
      BY AgentAssumption DEF AllowedTools
    <2>2. sk' \in Skeptics /\ sk'.verdict = "none" /\ sk'.left = SkepticTools
      BY <1>0, <1>3, <2>1 DEF Skeptics
    <2>3. \A t \in Asked : \E i \in DOMAIN sk'.left : sk'.left[i] = t
      BY <2>2 DEF Asked, AllowedTools
    <2> QED BY <1>3, <2>2, <2>3 DEF SkepticInv, ConfirmationIsEarned, Challenging
  <1>4. \A reasons : reasons \cap {"PROVIDER_CONFLICT_EXCEEDS_THRESHOLD"} \in SUBSET Findable
    BY DEF Findable
  <1> QED BY <1>1, <1>2, <1>3, <1>4 DEF StartSkeptic, Raise, FailedClosed

\* The next tool is behind it, answered without a finding, or need not be asked.
LEMMA ToolBehind ==
    ASSUME SkepticInv, pc \in Challenging, sk.left # <<>>, sk.verdict = "none",
           NEW b \in Int, NEW f \in SUBSET Findable, NEW clean \in SUBSET Asked, sk.clean \subseteq clean,
           f # {} \/ Head(sk.left) \notin Handlers \/ Head(sk.left) \in clean,
           sk' = [sk EXCEPT !.left = Tail(sk.left), !.budget = b, !.found = sk.found \cup f, !.clean = clean],
           pc' = "challenge"
    PROVE  SkepticInv'
  <1> DEFINE left == Tail(sk.left)
  <1>0. sk \in Skeptics
    BY DEF SkepticInv
  <1>1. sk.left \in Seq(AllowedTools) /\ Head(sk.left) \in AllowedTools /\ left \in Seq(AllowedTools)
    BY <1>0 DEF Skeptics
  <1> DEFINE finds == sk.found \cup f
  <1>2. finds \in SUBSET Findable
    BY <1>0 DEF Skeptics
  <1> HIDE DEF finds, left
  <1>3. sk' = [sk EXCEPT !.left = left, !.budget = b, !.found = finds, !.clean = clean]
    BY DEF finds, left
  <1>4. /\ sk' \in Skeptics /\ sk'.verdict = "none" /\ sk'.left = left
        /\ sk'.clean = clean /\ sk'.found = finds
    BY <1>0, <1>1, <1>2, <1>3 DEF Skeptics
  <1>5. ASSUME finds = {}, NEW t \in Asked \ clean
        PROVE  \E i \in DOMAIN left : left[i] = t
    <2>1. f = {} /\ sk.found = {} /\ t \notin sk.clean /\ t # Head(sk.left)
      BY <1>5 DEF finds, Asked
    <2>2. PICK i \in DOMAIN sk.left : sk.left[i] = t
      BY <2>1, <1>5 DEF SkepticInv
    <2>3. i # 1
      BY <1>1, <2>1, <2>2
    <2>4. i - 1 \in DOMAIN Tail(sk.left) /\ Tail(sk.left)[i - 1] = t
      BY <1>1, <2>2, <2>3
    <2> QED BY <2>4 DEF left
  <1> QED BY <1>4, <1>5 DEF SkepticInv, ConfirmationIsEarned

LEMMA ChallengeInv ==
    ASSUME SkepticInv, Challenge
    PROVE  SkepticInv'
  <1>0. pc = "challenge" /\ pc \in Challenging /\ sk \in Skeptics /\ sk.verdict = "none" /\ sk.left # <<>>
    BY DEF Challenge, SkepticInv, Challenging
  <1>1. sk.budget \in Int /\ sk.budget - 1 \in Int /\ sk.clean \in SUBSET Asked
    BY <1>0 DEF Skeptics
  <1>2. CASE UNCHANGED sk /\ (Raise("CANCELLED") \/ pc' = "verdict")
    BY <1>0, <1>2, SkepticRests DEF Raise
  <1>3. ASSUME NEW f \in {{"hazard"}} \cup (IF Head(sk.left) \in Handlers THEN {} ELSE {{}}), UNCHANGED pc,
               sk' = [sk EXCEPT !.left = Tail(@), !.budget = @ - 1, !.found = @ \cup f]
        PROVE  SkepticInv'
    <2>1. f \in SUBSET Findable /\ (f # {} \/ Head(sk.left) \notin Handlers)
      BY <1>3 DEF Findable
    <2>2. sk' = [sk EXCEPT !.left = Tail(sk.left), !.budget = sk.budget - 1, !.found = sk.found \cup f,
                           !.clean = sk.clean]
      BY <1>0, <1>3 DEF Skeptics
    <2>3. pc' = "challenge"
      BY <1>0, <1>3
    <2> QED BY <1>0, <1>1, <2>1, <2>2, <2>3, ToolBehind
  <1>4. CASE Head(sk.left) \in Handlers /\ pc' \in {"asked", "unheard"} /\ sk' = [sk EXCEPT !.budget = @ - 1]
    <2>1. /\ sk' \in Skeptics /\ sk'.verdict = "none" /\ sk'.left = sk.left /\ sk'.found = sk.found
          /\ sk'.clean = sk.clean
      BY <1>0, <1>1, <1>4 DEF Skeptics
    <2> QED BY <1>0, <1>4, <2>1 DEF SkepticInv, ConfirmationIsEarned, Challenging
  <1> QED BY <1>2, <1>3, <1>4 DEF Challenge

LEMMA SkepticToolAnswersInv ==
    ASSUME SkepticInv, SkepticToolAnswers
    PROVE  SkepticInv'
  <1>0. pc = "asked" /\ pc \in Challenging /\ sk \in Skeptics /\ sk.verdict = "none" /\ sk.left # <<>>
    BY DEF SkepticToolAnswers, SkepticInv, Challenging
  <1>1. CASE UNCHANGED sk /\ (Raise("CANCELLED") \/ pc' = "verdict")
    BY <1>0, <1>1, SkepticRests DEF Raise
  <1>2. ASSUME NEW f \in Findings(Head(sk.left)), pc' = "challenge",
               sk' = [sk EXCEPT !.left = Tail(@), !.found = @ \cup f,
                        !.clean = IF f = {} THEN @ \cup {Head(sk.left)} ELSE @]
        PROVE  SkepticInv'
    <2> DEFINE clean == IF f = {} THEN sk.clean \cup ({Head(sk.left)} \cap Handlers) ELSE sk.clean
    <2>1. f \in SUBSET Findable
      BY <1>2 DEF Findings, Findable
    <2>2. Head(sk.left) \in AllowedTools /\ sk.clean \in SUBSET Asked /\ sk.budget \in Int
      BY <1>0 DEF Skeptics
    <2>3. Head(sk.left) \in Handlers
      BY <1>0 DEF SkepticInv
    <2>4. clean \in SUBSET Asked /\ sk.clean \subseteq clean /\ (f # {} \/ Head(sk.left) \in clean)
      BY <2>2, <2>3 DEF Asked
    <2>5. clean = IF f = {} THEN sk.clean \cup {Head(sk.left)} ELSE sk.clean
      BY <2>3
    <2> HIDE DEF clean
    <2>6. sk' = [sk EXCEPT !.left = Tail(sk.left), !.budget = sk.budget, !.found = sk.found \cup f,
                           !.clean = clean]
      BY <1>0, <1>2, <2>5 DEF Skeptics
    <2> QED BY <1>0, <1>2, <2>1, <2>2, <2>4, <2>6, ToolBehind
  <1> QED BY <1>1, <1>2 DEF SkepticToolAnswers

LEMMA ConcludeInv ==
    ASSUME SkepticInv, Conclude
    PROVE  SkepticInv'
  <1>1. /\ pc \in {"challenge", "verdict"} /\ sk \in Skeptics /\ pc' = "save"
        /\ sk' = [sk EXCEPT !.verdict = Verdict(sk)]
    BY DEF Conclude, SkepticInv
  <1>2. Verdict(sk) \in {"VETO", "CHALLENGE", "INSUFFICIENT_EVIDENCE", "CONFIRM"}
    BY DEF Verdict
  <1>3. sk' \in Skeptics /\ sk'.verdict = Verdict(sk) /\ sk'.clean = sk.clean
    BY <1>1, <1>2 DEF Skeptics
  <1>4. ASSUME Verdict(sk) = "CONFIRM"
        PROVE  sk.clean = Asked /\ sk.clean # {}
    <2>1. sk.found = {} /\ sk.left = <<>> /\ sk.clean # {}
      BY <1>4 DEF Verdict
    <2>2. \A t \in Asked \ sk.clean : \E i \in DOMAIN sk.left : sk.left[i] = t
      BY <1>1, <2>1 DEF SkepticInv, Challenging
    <2>3. DOMAIN sk.left = {}
      BY <2>1
    <2>4. sk.clean \subseteq Asked
      BY <1>1 DEF Skeptics
    <2> QED BY <2>1, <2>2, <2>3, <2>4
  <1> QED BY <1>1, <1>3, <1>4 DEF SkepticInv, ConfirmationIsEarned, Challenging, Asked, AllowedTools

LEMMA NextSkeptic ==
    ASSUME SkepticInv, [AgentNext]_agentVars
    PROVE  SkepticInv'
  <1>1. CASE StartSkeptic \/ Challenge \/ SkepticToolAnswers \/ Conclude
    BY <1>1, StartSkepticInv, ChallengeInv, SkepticToolAnswersInv, ConcludeInv
  <1>2. CASE Persist \/ Abort \/ DeadlinePasses \/ UNCHANGED agentVars
    BY <1>2, SkepticRests DEF Persist, Raise, Abort, DeadlinePasses, agentVars
  <1>3. CASE Preflight \/ RecordStep \/ InvokeTool
    BY <1>3, SkepticRests DEF Preflight, RecordStep, InvokeTool, Raise, Exceeded, Challenging
  <1>4. CASE AbortEndsAwait \/ ToolAnswers \/ NextStep \/ SynthesizeDecision
    BY <1>4, SkepticRests DEF AbortEndsAwait, ToolAnswers, NextStep, SynthesizeDecision, Raise, Exceeded,
         Challenging
  <1> QED BY <1>1, <1>2, <1>3, <1>4 DEF AgentNext, Runtime

\* ConditionalSkepticAgent: for any tools, handlers and budgets, a triggered
\* skeptic confirms only when every tool it must ask was asked and found nothing.
THEOREM ConfirmationsAreEarned == AgentSpec => []ConfirmationIsEarned
  <1>1. SkepticInv => ConfirmationIsEarned
    BY DEF SkepticInv
  <1> QED BY <1>1, InitSkeptic, NextSkeptic, PTL DEF AgentSpec
-----------------------------------------------------------------------------
(* AgentRun: the plan fits the budget that it was cut to.                   *)

StagesCounted == Len(stages) \in Nat /\ \A i \in 1..Len(stages) : Cardinality(stages[i]) \in Nat

LEMMA StagesAreCounted ==
    ASSUME NEW r \in Requests, stages = BuildStageSequence(r.goal, r.tools)
    PROVE  StagesCounted
  <1> DEFINE available == r.tools
             Offered(tools) == IF tools \cap available = {} THEN <<>> ELSE <<tools \cap available>>
             Staged == Seq(SUBSET available)
  <1>1. IsFiniteSet(available)
    BY AgentAssumption
  <1>2. \A tools : Offered(tools) \in Staged
    <2> SUFFICES ASSUME NEW tools PROVE Offered(tools) \in Staged
      OBVIOUS
    <2>1. tools \cap available \in SUBSET available
      OBVIOUS
    <2>2. \A X : <<>> \in Seq(X) /\ \A x \in X : <<x>> \in Seq(X)
      OBVIOUS
    <2>3. <<>> \in Staged /\ <<tools \cap available>> \in Staged
      BY <2>1, <2>2
    <2> QED BY <2>3
  <1>3. stages =
          CASE r.goal = "SKEPTIC" ->
                 Offered({"risk.honeypot_scan", "contract.audit"})
                 \o Offered({"liquidity.lock", "simulation.sell"}) \o Offered({"holder.distribution"})
            [] r.goal = "DEEP_RESEARCH" ->
                 Offered({"token.profile", "dex.pairs", "dex.screener"})
                 \o Offered({"holder.distribution", "pool.liquidity"})
                 \o Offered({"contract.audit", "solana.transaction_trace"})
                 \o Offered({"simulation.execution", "signal.score"})
            [] OTHER -> Offered(Primary) \o Offered(available \ Primary)
    BY DEF BuildStageSequence
  <1>4. \A a \in Staged, b \in Staged : a \o b \in Staged
    OBVIOUS
  <1> HIDE DEF Offered, Staged
  <1>5. stages \in Staged
    BY <1>2, <1>3, <1>4
  <1>6. \A tools \in SUBSET available : Cardinality(tools) \in Nat
    BY <1>1, FS_Subset, FS_CardinalityType
  <1>7. Len(stages) \in Nat /\ \A i \in 1..Len(stages) : stages[i] \in SUBSET available
    BY <1>5 DEF Staged
  <1> QED BY <1>6, <1>7 DEF StagesCounted

\* The least of three numbers, and of two.
LEMMA LeastOfThree ==
    ASSUME NEW a \in Int, NEW b \in Int, NEW c \in Int
    PROVE  /\ Min({a, b, c}) \in {a, b, c}
           /\ Min({a, b, c}) <= a /\ Min({a, b, c}) <= b /\ Min({a, b, c}) <= c
  <1>1. \E x \in {a, b, c} : \A y \in {a, b, c} : x <= y
    <2>1. CASE a <= b /\ a <= c
      BY <2>1
    <2>2. CASE b <= a /\ b <= c
      BY <2>2
    <2>3. CASE c <= a /\ c <= b
      BY <2>3
    <2> QED BY <2>1, <2>2, <2>3
  <1> QED BY <1>1 DEF Min

LEMMA LeastOfTwo ==
    ASSUME NEW a \in Int, NEW b \in Int
    PROVE  Min({a, b}) \in {a, b} /\ Min({a, b}) <= a /\ Min({a, b}) <= b
  <1>1. \E x \in {a, b} : \A y \in {a, b} : x <= y
    OBVIOUS
  <1> QED BY <1>1 DEF Min

\* A set of numbers up to n has a greatest one.
LEMMA Greatest ==
    ASSUME NEW n \in Nat, NEW S \in SUBSET (1..n), S # {}
    PROVE  Max(S) \in S
  <1> DEFINE T == {n - x : x \in S}
  <1>1. T \subseteq Nat /\ T # {}
    <2>1. \A x \in S : n - x \in Nat
      OBVIOUS
    <2> QED BY <2>1
  <1>2. PICK t \in T : \A y \in T : ~(y < t)
    BY <1>1, Least
  <1>3. PICK x \in S : t = n - x
    BY <1>2
  <1>4. \A y \in S : x >= y
    <2> SUFFICES ASSUME NEW y \in S PROVE x >= y
      OBVIOUS
    <2>1. ~(n - y < n - x)
      BY <1>2, <1>3
    <2> QED BY <2>1
  <1> QED BY <1>4 DEF Max

\* What a budget pays for.
Affords(k) ==
    /\ k <= budget["TOOL_CALLS"] /\ k <= budget["PROVIDER_COST_UNITS"]
    /\ k <= budget["MODEL_COST_USD"] \div CallCost
Budgets == budget \in [Resources -> Nat]

LEMMA WholeBudgets ==
    ASSUME Budgets
    PROVE  /\ budget["TOOL_CALLS"] \in Nat /\ budget["PROVIDER_COST_UNITS"] \in Nat
           /\ budget["MODEL_COST_USD"] \div CallCost \in Nat
  <1>1. /\ budget["TOOL_CALLS"] \in Nat /\ budget["PROVIDER_COST_UNITS"] \in Nat
        /\ budget["MODEL_COST_USD"] \in Nat
    BY DEF Budgets, Resources
  <1>2. \A b \in Nat, c \in Nat \ {0} : b \div c \in Nat
    OBVIOUS
  <1> QED BY <1>1, <1>2, AgentAssumption

LEMMA CostFits ==
    ASSUME Budgets, NEW k \in Nat, k <= budget["MODEL_COST_USD"] \div CallCost
    PROVE  CallCost * k <= budget["MODEL_COST_USD"]
  <1> DEFINE b == budget["MODEL_COST_USD"]
             q == b \div CallCost
  <1>1. b \in Nat /\ CallCost \in Nat \ {0}
    BY AgentAssumption DEF Budgets, Resources
  <1>2. q \in Nat /\ CallCost * q <= b
    BY <1>1
  <1> HIDE DEF q, b
  <1>3. CallCost * k <= CallCost * q
    BY <1>1, <1>2 DEF q, b
  <1> QED BY <1>1, <1>2, <1>3 DEF q, b

LEMMA RoomIsLeft ==
    ASSUME Budgets, NEW n \in Nat, Affords(n)
    PROVE  Room(n) \in Nat /\ \A k \in 0..Room(n) : Affords(n + k)
  <1> DEFINE a == budget["TOOL_CALLS"]
             q == budget["MODEL_COST_USD"] \div CallCost
             u == budget["PROVIDER_COST_UNITS"]
  <1>1. a \in Nat /\ u \in Nat /\ q \in Nat
    BY WholeBudgets
  <1>2. n <= a /\ n <= q /\ n <= u
    BY DEF Affords
  <1> DEFINE x == a - n
             y == q - n
             z == u - n
  <1>3. Room(n) = Min({x, y, z}) /\ x \in Int /\ y \in Int /\ z \in Int
    BY <1>1 DEF Room
  <1> HIDE DEF x, y, z
  <1>4. Room(n) \in {x, y, z} /\ Room(n) <= x /\ Room(n) <= y /\ Room(n) <= z
    BY <1>3, LeastOfThree
  <1> USE DEF x, y, z
  <1> HIDE DEF a, q, u
  <1>5. Room(n) \in Nat
    BY <1>1, <1>2, <1>4
  <1>6. ASSUME NEW k \in 0..Room(n) PROVE n + k <= a /\ n + k <= q /\ n + k <= u
    BY <1>1, <1>4, <1>5
  <1> QED BY <1>5, <1>6 DEF Affords, a, q, u

\* The calls of the first k steps, and that there is a function of them.
Took(f, k) == [i \in 0..k |-> IF i = 0 THEN 0
                              ELSE f[i-1] + Min({Cardinality(stages[i]), Room(f[i-1])})]

LEMMA TakenIs ==
    ASSUME PlannedSteps \in Nat
    PROVE  Taken = Took(Taken, PlannedSteps)
  <1> DEFINE Bad == {k \in Nat : ~ \E f : f = Took(f, k)}
  <1>1. Bad = {}
    <2> SUFFICES ASSUME Bad # {} PROVE FALSE
      OBVIOUS
    <2>1. PICK k \in Bad : \A j \in Bad : ~(j < k)
      BY Least
    <2>2. k # 0
      <3>1. [i \in 0..0 |-> 0] = Took([i \in 0..0 |-> 0], 0)
        BY DEF Took
      <3> QED BY <2>1, <3>1
    <2>3. k \in Nat /\ k - 1 \in Nat /\ k - 1 < k
      BY <2>1, <2>2
    <2>4. PICK f : f = Took(f, k - 1)
      BY <2>1, <2>3
    <2> DEFINE Next1(i) == f[i-1] + Min({Cardinality(stages[i]), Room(f[i-1])})
               g == [i \in 0..k |-> IF i < k THEN f[i] ELSE Next1(k)]
    <2>5. \A i \in 0..(k-1) : g[i] = f[i]
      BY <2>3
    <2>6. g[k] = Next1(k)
      BY <2>3
    <2>7. \A i \in 0..(k-1) : f[i] = IF i = 0 THEN 0 ELSE Next1(i)
      BY <2>4, <2>3 DEF Took
    <2>8. \A i \in 0..k : g[i] = Took(g, k)[i]
      <3> SUFFICES ASSUME NEW i \in 0..k PROVE g[i] = Took(g, k)[i]
        OBVIOUS
      <3>1. CASE i = 0
        <4>0. 0 \in 0..(k-1)
          BY <2>3
        <4>1. g[0] = f[0] /\ f[0] = 0
          BY <2>5, <2>7, <4>0
        <4> QED BY <3>1, <4>1 DEF Took
      <3>2. CASE i # 0
        <4>1. i - 1 \in 0..(k-1) /\ g[i-1] = f[i-1]
          BY <2>3, <2>5, <3>2
        <4>2. g[i] = Next1(i)
          <5>1. CASE i = k
            BY <2>6, <5>1
          <5>2. CASE i # k
            BY <2>3, <2>5, <2>7, <3>2, <5>2
          <5> QED BY <5>1, <5>2
        <4> QED BY <3>2, <4>1, <4>2 DEF Took
      <3> QED BY <3>1, <3>2
    <2>9. g = Took(g, k)
      BY <2>8 DEF Took
    <2> QED BY <2>1, <2>9
  <1>2. \E f : f = Took(f, PlannedSteps)
    BY <1>1
  <1> QED BY <1>2 DEF Taken, Took

LEMMA StepsArePlanned ==
    ASSUME Budgets, StagesCounted
    PROVE  PlannedSteps \in Nat /\ PlannedSteps <= Len(stages) /\ PlannedSteps <= budget["STEPS"]
  <1>1. Len(stages) \in Nat /\ budget["STEPS"] \in Nat
    BY DEF Budgets, StagesCounted, Resources
  <1> DEFINE a == budget["STEPS"]
             b == Len(stages)
  <1>2. \A x, y \in Int : Min({x, y}) \in {x, y} /\ Min({x, y}) <= x /\ Min({x, y}) <= y
    BY LeastOfTwo
  <1>3. a \in Int /\ b \in Int
    BY <1>1
  <1> HIDE DEF a, b
  <1>4. Min({a, b}) \in {a, b} /\ Min({a, b}) <= a /\ Min({a, b}) <= b
    BY <1>2, <1>3
  <1> QED BY <1>1, <1>4 DEF PlannedSteps, a, b

\* Every stage takes what is left of the budget at most.
LEMMA TakenFits ==
    ASSUME Budgets, StagesCounted
    PROVE  /\ Taken[0] = 0
           /\ \A i \in 0..PlannedSteps : Taken[i] \in Nat /\ Affords(Taken[i])
           /\ \A i \in 1..PlannedSteps : CallsOf(i) \in Nat /\ Taken[i] = Taken[i-1] + CallsOf(i)
  <1>1. PlannedSteps \in Nat /\ PlannedSteps <= Len(stages)
    BY StepsArePlanned
  <1>2. /\ Taken[0] = 0
        /\ \A i \in 1..PlannedSteps :
              Taken[i] = Taken[i-1] + Min({Cardinality(stages[i]), Room(Taken[i-1])})
    <2>1. Taken = Took(Taken, PlannedSteps)
      BY <1>1, TakenIs
    <2>2. \A i \in 0..PlannedSteps :
            Taken[i] = IF i = 0 THEN 0 ELSE Taken[i-1] + Min({Cardinality(stages[i]), Room(Taken[i-1])})
      BY <2>1 DEF Took
    <2>3. Taken[0] = 0
      <3>1. 0 \in 0..PlannedSteps
        BY <1>1
      <3> QED BY <2>2, <3>1
    <2>4. ASSUME NEW i \in 1..PlannedSteps
          PROVE  Taken[i] = Taken[i-1] + Min({Cardinality(stages[i]), Room(Taken[i-1])})
      <3>1. i \in 0..PlannedSteps /\ i # 0
        BY <1>1
      <3> HIDE DEF Taken, Room, Min
      <3> QED BY <2>2, <3>1
    <2> QED BY <2>3, <2>4
  <1>3. Affords(0)
    <2>1. \A r \in {"TOOL_CALLS", "PROVIDER_COST_UNITS", "MODEL_COST_USD"} : budget[r] \in Nat
      BY DEF Budgets, Resources
    <2>2. \A a \in Nat, b \in Nat \ {0} : 0 <= a \div b
      OBVIOUS
    <2> QED BY <2>1, <2>2, AgentAssumption DEF Affords
  <1>4. ASSUME NEW i \in 1..PlannedSteps, Taken[i-1] \in Nat, Affords(Taken[i-1])
        PROVE  /\ Taken[i] \in Nat /\ Affords(Taken[i])
               /\ CallsOf(i) \in Nat /\ Taken[i] = Taken[i-1] + CallsOf(i)
    <2> DEFINE n == Taken[i-1]
               c == Cardinality(stages[i])
               more == Min({c, Room(n)})
    <2>1. c \in Nat
      BY <1>1 DEF StagesCounted
    <2>2. Room(n) \in Nat /\ \A k \in 0..Room(n) : Affords(n + k)
      BY <1>4, RoomIsLeft
    <2>3. \A x, y \in Int : Min({x, y}) \in {x, y} /\ Min({x, y}) <= x /\ Min({x, y}) <= y
      BY LeastOfTwo
    <2>30. c \in Int /\ Room(n) \in Int
      BY <2>1, <2>2
    <2> HIDE DEF c
    <2>31. more \in {c, Room(n)} /\ more <= Room(n)
      BY <2>3, <2>30
    <2>4. more \in 0..Room(n)
      BY <2>1, <2>2, <2>31
    <2>5. Taken[i] = n + more
      BY <1>2 DEF c
    <2> HIDE DEF more
    <2>6. Taken[i] \in Nat /\ Affords(Taken[i]) /\ Taken[i] - n = more /\ more \in Nat
      BY <1>4, <2>2, <2>4, <2>5
    <2> QED BY <1>4, <2>5, <2>6 DEF CallsOf
  <1> DEFINE Bad == {i \in 0..PlannedSteps : ~(Taken[i] \in Nat /\ Affords(Taken[i]))}
  <1>5. Bad = {}
    <2> SUFFICES ASSUME Bad # {} PROVE FALSE
      OBVIOUS
    <2>0. Bad \subseteq Nat
      BY <1>1
    <2>1. PICK i \in Bad : \A j \in Bad : ~(j < i)
      BY <2>0, Least
    <2>2. i # 0
      BY <1>2, <1>3, <2>1
    <2>3. i \in 1..PlannedSteps /\ i - 1 \in 0..PlannedSteps /\ i - 1 < i
      BY <1>1, <2>1, <2>2
    <2>4. i - 1 \notin Bad
      BY <2>1, <2>3
    <2>5. Taken[i-1] \in Nat /\ Affords(Taken[i-1])
      BY <2>3, <2>4
    <2> QED BY <1>4, <2>1, <2>3, <2>5
  <1>6. \A i \in 0..PlannedSteps : Taken[i] \in Nat /\ Affords(Taken[i])
    BY <1>5
  <1>7. \A i \in 1..PlannedSteps : i - 1 \in 0..PlannedSteps
    BY <1>1
  <1> QED BY <1>2, <1>4, <1>6, <1>7

\* A plan p within the steps that are left, and the calls T of its first steps.
Sums(p, T) ==
    /\ Len(p) \in Nat \ {0} /\ Len(p) <= budget["STEPS"]
    /\ T[0] = 0
    /\ \A i \in 1..Len(p) : /\ p[i] \in Nat /\ T[i-1] \in Nat /\ T[i] \in Nat
                            /\ T[i] = T[i-1] + p[i] /\ Affords(T[i])

LEMMA PlannedFits ==
    ASSUME Budgets, StagesCounted, budget["STEPS"] > 0
    PROVE  \E T : Sums(Planned, T)
  <1> DEFINE kept == {i \in 1..PlannedSteps : i = 1 \/ CallsOf(i) > 0}
  <1>1. PlannedSteps \in Nat /\ PlannedSteps <= budget["STEPS"] /\ budget["STEPS"] \in Nat
    BY StepsArePlanned DEF Budgets, Resources
  <1>2. /\ Taken[0] = 0
        /\ \A i \in 0..PlannedSteps : Taken[i] \in Nat /\ Affords(Taken[i])
        /\ \A i \in 1..PlannedSteps : CallsOf(i) \in Nat /\ Taken[i] = Taken[i-1] + CallsOf(i)
    BY TakenFits
  <1>3. Planned = IF kept = {} THEN <<0>> ELSE [i \in 1..Max(kept) |-> CallsOf(i)]
    BY DEF Planned
  <1>4. CASE kept = {}
    <2>1. Planned = <<0>> /\ Len(<<0>>) = 1
      BY <1>3, <1>4
    <2>2. Affords(0)
      BY AgentAssumption DEF Affords, Budgets, Resources
    <2> DEFINE T == [i \in 0..1 |-> 0]
    <2>3. \A i \in 1..1 : <<0>>[i] = 0 /\ T[i] = 0 /\ T[i-1] = 0
      OBVIOUS
    <2>4. T[0] = 0
      OBVIOUS
    <2> HIDE DEF T
    <2>5. Sums(Planned, T)
      BY <1>1, <2>1, <2>2, <2>3, <2>4 DEF Sums
    <2> QED BY <2>5
  <1>5. CASE kept # {}
    <2> DEFINE last == Max(kept)
    <2>1. last \in kept
      BY <1>1, <1>5, Greatest
    <2>2. last \in 1..PlannedSteps
      BY <2>1
    <2>3. Planned = [i \in 1..last |-> CallsOf(i)]
      BY <1>3, <1>5
    <2> HIDE DEF last
    <2>4. last \in Nat \ {0} /\ last <= budget["STEPS"] /\ Len(Planned) = last
      BY <1>1, <2>2, <2>3
    <2>5. \A i \in 1..last : i \in 1..PlannedSteps /\ i \in 0..PlannedSteps /\ i - 1 \in 0..PlannedSteps
      BY <1>1, <2>2
    <2>6. \A i \in 1..last : Planned[i] = CallsOf(i)
      BY <2>3
    <2>7. Sums(Planned, Taken)
      BY <1>2, <2>4, <2>5, <2>6 DEF Sums
    <2> QED BY <2>7
  <1> QED BY <1>4, <1>5

\* How far a run has come: the calls made are those planned up to here, less
\* those still to be made in this step, and that is what was charged.
Awaiting == {"await", "hung"}
Underway == {"step", "call"} \cup Awaiting
Progress(T) ==
    /\ Sums(plan, T) /\ step \in 1..Len(plan)
    /\ pc = "step" => made = T[step-1] /\ used["STEPS"] = step - 1
    /\ pc # "step" => call \in Nat /\ made + call = T[step] /\ used["STEPS"] = step
    /\ pc \notin Awaiting => used["MODEL_COST_USD"] = CallCost * made
    /\ pc \in Awaiting => made > 0 /\ used["MODEL_COST_USD"] = CallCost * (made - 1)
RunInv ==
    /\ ChargesFit /\ AgentTypeOK /\ StagesCounted /\ PlanFitsBudget
    /\ Len(plan) \in Nat
    /\ pc # "done" => outcome = <<"none", "none">>
    /\ pc = "preflight" => made = 0 /\ step = 1 /\ used = [r \in Resources |-> 0]
    /\ pc \in Underway => \E T : Progress(T)

Denied == {<<"BUDGET_EXCEEDED", r>> : r \in {"STEPS", "TOOL_CALLS", "MODEL_COST_USD", "PROVIDER_COST_UNITS"}}
LEMMA Allowed ==
    /\ <<"none", "none">> \notin Denied /\ \A o : <<o, "none">> \notin Denied
    /\ \A e : <<"TOOL_RAISED", e>> \notin Denied
    /\ \A r \in {"DEADLINE", "TOOL_CALLS_PER_CANDIDATE", "PROVIDER_CALLS", "TOKENS"} :
           <<"BUDGET_EXCEEDED", r>> \notin Denied
  BY DEF Denied

\* A run that starts, and an agent that stands still.
LEMMA RunInitially ==
    ASSUME \/ AgentInit
           \/ /\ stages = <<>> /\ budget = [r \in Resources |-> 0] /\ plan = <<>>
              /\ used = [r \in Resources |-> 0] /\ step = 1 /\ call = 0 /\ made = 0
              /\ pc = "preflight" /\ outcome = <<"none", "none">>
    PROVE  RunInv
  <1>1. /\ plan = <<>> /\ used = [r \in Resources |-> 0] /\ step = 1 /\ call = 0 /\ made = 0
        /\ pc = "preflight" /\ outcome = <<"none", "none">>
    BY DEF AgentInit
  <1>2. Budgets
    <2>1. CASE AgentInit
      BY <2>1, AgentAssumption DEF Budgets, AgentInit
    <2>2. CASE budget = [r \in Resources |-> 0]
      BY <2>2 DEF Budgets
    <2> QED BY <2>1, <2>2
  <1>3. StagesCounted
    <2>1. CASE stages = <<>>
      BY <2>1 DEF StagesCounted
    <2>2. CASE AgentInit
      BY <2>2, StagesAreCounted DEF AgentInit
    <2> QED BY <2>1, <2>2
  <1>4. ChargesFit
    BY <1>1, <1>2 DEF ChargesFit, Charged, Resources, Budgets
  <1>5. AgentTypeOK /\ Len(plan) = 0
    BY <1>1 DEF AgentTypeOK
  <1>6. PlanFitsBudget
    BY <1>1 DEF PlanFitsBudget
  <1> QED BY <1>1, <1>3, <1>4, <1>5, <1>6 DEF RunInv, Underway, Awaiting

\* A step after which nothing is planned any more, or that leaves the plan alone.
LEMMA RunEndsFitting ==
    ASSUME RunInv, ChargesFit', UNCHANGED <<stages, budget, plan, step, made, call>>,
           used' = used \/ (pc' = "done" /\ used' \in [Resources -> Nat]),
           pc' \notin Underway \cup {"preflight"} \/ pc' = pc,
           \/ outcome' = outcome /\ (pc = "done" => pc' = "done")
           \/ outcome' \notin Denied /\ pc' = "done"
           \/ made = 0 /\ pc' = "done"
    PROVE  RunInv'
  <1>1. PlanFitsBudget'
    BY Allowed DEF RunInv, PlanFitsBudget, Denied
  <1>2. pc' # "done" => outcome' = <<"none", "none">>
    BY DEF RunInv
  <1>3. pc' \in Underway => \E T : Progress(T)'
    BY DEF RunInv, Progress, Sums, Affords, Underway, Awaiting
  <1>4. AgentTypeOK' /\ StagesCounted' /\ Len(plan)' \in Nat
    BY DEF RunInv, AgentTypeOK, StagesCounted
  <1>5. pc' = "preflight" => made' = 0 /\ step' = 1 /\ used' = [r \in Resources |-> 0]
    BY DEF RunInv
  <1> QED BY <1>1, <1>2, <1>3, <1>4, <1>5 DEF RunInv

\* The plan is cut to the budget before the first step.
LEMMA PreflightFits ==
    ASSUME RunInv, Preflight, ChargesFit'
    PROVE  RunInv'
  <1>1. made = 0 /\ step = 1 /\ used = [r \in Resources |-> 0] /\ outcome = <<"none", "none">>
    BY DEF Preflight, RunInv
  <1>2. CASE pc' = "done" /\ UNCHANGED plan
    BY <1>1, <1>2, RunEndsFitting DEF Preflight, Underway, Awaiting
  <1>3. CASE budget["STEPS"] > 0 /\ plan' = Planned /\ pc' = "step" /\ UNCHANGED outcome
    <2>1. UNCHANGED <<stages, budget, used, step, call, made>>
      BY DEF Preflight
    <2>2. Budgets /\ StagesCounted /\ AgentTypeOK
      BY DEF RunInv, ChargesFit, Budgets
    <2>3. PICK T : Sums(Planned, T)
      BY <1>3, <2>2, PlannedFits
    <2>4. Sums(plan, T)'
      BY <1>3, <2>1, <2>3 DEF Sums, Affords
    <2>5. used["STEPS"] = 0 /\ used["MODEL_COST_USD"] = 0
      BY <1>1 DEF Resources
    <2>6. CallCost * 0 = 0
      BY AgentAssumption
    <2>7. Progress(T)'
      BY <1>1, <1>3, <2>1, <2>4, <2>5, <2>6 DEF Progress, Sums, Awaiting
    <2>8. AgentTypeOK' /\ StagesCounted' /\ Len(plan)' \in Nat
      BY <1>1, <1>3, <2>1, <2>2, <2>4 DEF AgentTypeOK, StagesCounted, Sums
    <2>9. PlanFitsBudget'
      BY <1>1, <2>1 DEF PlanFitsBudget
    <2> QED BY <1>1, <1>3, <2>7, <2>8, <2>9 DEF RunInv
  <1>4. Fits("STEPS") => budget["STEPS"] > 0
    <2>1. used["STEPS"] = 0 /\ budget["STEPS"] \in Nat
      BY <1>1 DEF Resources, RunInv, ChargesFit
    <2> QED BY <2>1 DEF Fits, Cost
  <1> QED BY <1>2, <1>3, <1>4 DEF Preflight, Exceeded, Raise, RunInv

LEMMA RecordStepFits ==
    ASSUME RunInv, RecordStep, ChargesFit'
    PROVE  RunInv'
  <1>1. /\ pc = "step" /\ UNCHANGED <<stages, budget, plan, step, made>> /\ AgentTypeOK /\ StagesCounted
        /\ PlanFitsBudget /\ outcome = <<"none", "none">> /\ Len(plan) \in Nat
    BY DEF RecordStep, RunInv
  <1>2. PICK T : Progress(T)
    BY <1>1 DEF RunInv, Underway, Awaiting
  <1>3. /\ Sums(plan, T) /\ step \in 1..Len(plan) /\ made = T[step-1] /\ used["STEPS"] = step - 1
        /\ used["MODEL_COST_USD"] = CallCost * made
    BY <1>1, <1>2 DEF Progress, Awaiting
  <1>4. plan[step] \in Nat /\ T[step] = T[step-1] + plan[step] /\ Len(plan) <= budget["STEPS"]
    BY <1>3 DEF Sums
  <1>5. Fits("STEPS")
    <2>1. budget["STEPS"] \in Nat
      BY DEF RunInv, ChargesFit, Resources
    <2> QED BY <1>1, <1>3, <1>4, <2>1 DEF Fits, Cost
  <1>6. CASE (Raise("CANCELLED") \/ Exceeded("DEADLINE")) /\ UNCHANGED <<used, call>>
    BY <1>1, <1>6, Allowed, RunEndsFitting DEF Raise, Exceeded, Underway, Awaiting
  <1>7. CASE /\ used' = [used EXCEPT !["STEPS"] = @ + 1] /\ call' = plan[step]
             /\ pc' = "call" /\ UNCHANGED outcome
    <2>1. used \in [Resources -> Nat] /\ used["STEPS"] \in Nat
      BY <1>1 DEF AgentTypeOK, Resources
    <2>2. /\ used' \in [Resources -> Nat] /\ used'["STEPS"] = step
          /\ used'["MODEL_COST_USD"] = used["MODEL_COST_USD"]
      BY <1>3, <1>7, <2>1 DEF Resources
    <2>3. Sums(plan, T)'
      BY <1>1, <1>3 DEF Sums, Affords
    <2>4. made' + call' = T[step'] /\ call' \in Nat
      BY <1>1, <1>3, <1>4, <1>7
    <2>5. Progress(T)'
      BY <1>1, <1>3, <1>7, <2>2, <2>3, <2>4 DEF Progress, Awaiting
    <2>6. AgentTypeOK' /\ StagesCounted'
      BY <1>1, <2>2, <2>4 DEF AgentTypeOK, StagesCounted
    <2>7. PlanFitsBudget'
      BY <1>1, <1>7 DEF PlanFitsBudget
    <2> QED BY <1>1, <1>7, <2>5, <2>6, <2>7 DEF RunInv
  <1> QED BY <1>5, <1>6, <1>7 DEF RecordStep

LEMMA InvokeToolFits ==
    ASSUME RunInv, InvokeTool, ChargesFit'
    PROVE  RunInv'
  <1>1. /\ pc = "call" /\ call > 0 /\ UNCHANGED <<stages, budget, plan, step>> /\ AgentTypeOK /\ StagesCounted
        /\ PlanFitsBudget /\ outcome = <<"none", "none">> /\ Len(plan) \in Nat /\ ChargesFit
    BY DEF InvokeTool, RunInv
  <1>2. PICK T : Progress(T)
    BY <1>1 DEF RunInv, Underway, Awaiting
  <1>3. /\ Sums(plan, T) /\ step \in 1..Len(plan) /\ made + call = T[step] /\ used["STEPS"] = step
        /\ used["MODEL_COST_USD"] = CallCost * made
    BY <1>1, <1>2 DEF Progress, Awaiting
  <1>4. made \in Nat /\ call \in Nat /\ T[step] \in Nat /\ Affords(T[step])
    BY <1>1, <1>3 DEF Sums, AgentTypeOK
  <1>5. made + 1 \in Nat /\ Affords(made + 1)
    <2>1. /\ budget["TOOL_CALLS"] \in Nat /\ budget["PROVIDER_COST_UNITS"] \in Nat
          /\ budget["MODEL_COST_USD"] \div CallCost \in Nat
      <3>1. Budgets
        BY <1>1 DEF ChargesFit, Budgets
      <3> QED BY <3>1, WholeBudgets
    <2> QED BY <1>1, <1>3, <1>4, <2>1 DEF Affords
  <1>6. Fits("TOOL_CALLS") /\ Fits("PROVIDER_COST_UNITS")
    <2>1. used["TOOL_CALLS"] = made /\ used["PROVIDER_COST_UNITS"] = made
      BY <1>1 DEF ChargesFit, Charged
    <2> QED BY <1>5, <2>1 DEF Fits, Cost, Affords
  <1>7. Fits("MODEL_COST_USD")
    <2>1. CallCost * (made + 1) <= budget["MODEL_COST_USD"]
      BY <1>1, <1>5, CostFits DEF Affords, ChargesFit, Budgets
    <2>2. CallCost * (made + 1) = CallCost * made + CallCost
      BY <1>4, AgentAssumption
    <2> QED BY <1>3, <2>1, <2>2 DEF Fits, Cost
  <1>8. CASE /\ UNCHANGED <<used, call, made>>
             /\ \/ Raise("CANCELLED") \/ Exceeded("DEADLINE") \/ Exceeded("TOKENS")
                \/ Exceeded("TOOL_CALLS_PER_CANDIDATE") \/ Exceeded("PROVIDER_CALLS")
    BY <1>1, <1>8, Allowed, RunEndsFitting DEF Raise, Exceeded, Underway, Awaiting
  <1>10. \A r : FirstBeyond(Checks, r) => r \in {"TOKENS", "TOOL_CALLS_PER_CANDIDATE", "PROVIDER_CALLS"}
    <2> SUFFICES ASSUME NEW r, FirstBeyond(Checks, r)
                 PROVE  r \in {"TOKENS", "TOOL_CALLS_PER_CANDIDATE", "PROVIDER_CALLS"}
      OBVIOUS
    <2>1. PICK i \in DOMAIN Checks : r = Checks[i] /\ ~Fits(r)
      BY DEF FirstBeyond
    <2>2. r \in {"TOKENS", "MODEL_COST_USD", "PROVIDER_COST_UNITS", "TOOL_CALLS", "TOOL_CALLS_PER_CANDIDATE",
                 "PROVIDER_CALLS"}
      BY <2>1 DEF Checks
    <2>3. r # "MODEL_COST_USD" /\ r # "PROVIDER_COST_UNITS" /\ r # "TOOL_CALLS"
      BY <1>6, <1>7, <2>1, Zenon
    <2> QED BY <2>2, <2>3
  <1>11. CASE used' = Charge /\ Raise("MISSING_TOOL_HANDLER") /\ UNCHANGED <<call, made>>
    <2>1. used \in [Resources -> Nat] /\ \A r \in Charged : Cost(r) = 1
      BY <1>1 DEF AgentTypeOK, Charged, Cost
    <2>2. used' \in [Resources -> Nat]
      BY <1>11, <2>1 DEF Charge
    <2>3. pc' = "done" /\ outcome' \notin Denied
      BY <1>11, Allowed DEF Raise
    <2>4. UNCHANGED <<stages, budget, plan, step, made, call>>
      BY <1>1, <1>11
    <2>5. pc' \notin Underway \cup {"preflight"}
      BY <2>3 DEF Underway, Awaiting
    <2> QED BY <2>2, <2>3, <2>4, <2>5, RunEndsFitting
  <1>9. CASE /\ used' = Charge /\ call' = call - 1 /\ made' = made + 1
             /\ pc' \in Awaiting /\ UNCHANGED outcome
    <2>1. used \in [Resources -> Nat]
      BY <1>1 DEF AgentTypeOK
    <2>2. \A r \in Charged : Cost(r) = 1
      BY DEF Charged, Cost
    <2>3. /\ used' \in [Resources -> Nat] /\ used'["STEPS"] = used["STEPS"]
          /\ used'["MODEL_COST_USD"] = used["MODEL_COST_USD"]
      BY <1>9, <2>1, <2>2 DEF Charge, Resources, Charged
    <2>4. Sums(plan, T)'
      BY <1>1, <1>3 DEF Sums, Affords
    <2>5. call' \in Nat /\ made' \in Nat /\ made' > 0 /\ made' - 1 = made /\ made' + call' = T[step']
      BY <1>1, <1>3, <1>4, <1>9
    <2>6. Progress(T)'
      BY <1>1, <1>3, <1>9, <2>3, <2>4, <2>5 DEF Progress, Awaiting
    <2>7. AgentTypeOK' /\ StagesCounted'
      BY <1>1, <2>3, <2>5 DEF AgentTypeOK, StagesCounted
    <2>8. PlanFitsBudget'
      BY <1>1, <1>9, Allowed DEF PlanFitsBudget, Denied
    <2> QED BY <1>1, <1>9, <2>6, <2>7, <2>8 DEF RunInv, Awaiting
  <1> QED BY <1>8, <1>9, <1>10, <1>11 DEF InvokeTool, Awaiting

LEMMA ToolAnswersFits ==
    ASSUME RunInv, ToolAnswers, ChargesFit'
    PROVE  RunInv'
  <1>1. /\ pc = "await" /\ UNCHANGED <<stages, budget, plan, step, call, made>> /\ AgentTypeOK /\ StagesCounted
        /\ PlanFitsBudget /\ outcome = <<"none", "none">> /\ Len(plan) \in Nat
    BY DEF ToolAnswers, RunInv
  <1>2. PICK T : Progress(T)
    BY <1>1 DEF RunInv, Underway, Awaiting
  <1>3. CASE UNCHANGED used /\ (Exceeded("DEADLINE") \/ \E e : outcome' = <<"TOOL_RAISED", e>> /\ pc' = "done")
    BY <1>1, <1>3, Allowed, RunEndsFitting DEF Exceeded, Underway, Awaiting
  <1>4. CASE /\ used' = [used EXCEPT !["TOKENS"] = @ + 1, !["MODEL_COST_USD"] = @ + CallCost]
             /\ pc' = "call" /\ UNCHANGED outcome
    <2>1. used \in [Resources -> Nat] /\ made \in Nat /\ made > 0 /\ CallCost \in Nat
      BY <1>1, <1>2, AgentAssumption DEF AgentTypeOK, Progress, Awaiting
    <2>2. CallCost * (made - 1) + CallCost = CallCost * made
      BY <2>1
    <2>3. /\ used' \in [Resources -> Nat] /\ used'["STEPS"] = used["STEPS"]
          /\ used'["MODEL_COST_USD"] = used["MODEL_COST_USD"] + CallCost
      BY <1>4, <2>1 DEF Resources
    <2>4. Progress(T)'
      BY <1>1, <1>2, <1>4, <2>2, <2>3 DEF Progress, Sums, Affords, Awaiting
    <2>5. AgentTypeOK' /\ StagesCounted'
      BY <1>1, <2>3 DEF AgentTypeOK, StagesCounted
    <2>6. PlanFitsBudget'
      BY <1>1, <1>4 DEF PlanFitsBudget
    <2> QED BY <1>1, <1>4, <2>4, <2>5, <2>6 DEF RunInv
  <1> QED BY <1>3, <1>4 DEF ToolAnswers

LEMMA NextStepFits ==
    ASSUME RunInv, NextStep, ChargesFit'
    PROVE  RunInv'
  <1>1. /\ pc = "call" /\ call = 0 /\ UNCHANGED <<stages, budget, plan, used, call, made, outcome>>
        /\ outcome = <<"none", "none">> /\ AgentTypeOK /\ StagesCounted /\ PlanFitsBudget /\ Len(plan) \in Nat
    BY DEF NextStep, RunInv
  <1>2. CASE pc' = "decide" /\ UNCHANGED step
    BY <1>1, <1>2, RunEndsFitting DEF Underway, Awaiting
  <1>3. CASE step < Len(plan) /\ pc' = "step" /\ step' = step + 1
    <2>1. PICK T : Progress(T)
      BY <1>1 DEF RunInv, Underway, Awaiting
    <2>2. step' \in 1..Len(plan) /\ step' - 1 = step /\ made \in Nat
      BY <1>1, <1>3 DEF AgentTypeOK
    <2>3. made = T[step] /\ used["STEPS"] = step
      BY <1>1, <2>1, <2>2 DEF Progress
    <2>4. Progress(T)'
      BY <1>1, <1>3, <2>1, <2>2, <2>3 DEF Progress, Sums, Affords, Awaiting
    <2>5. AgentTypeOK' /\ StagesCounted'
      BY <1>1, <2>2 DEF AgentTypeOK, StagesCounted
    <2>6. PlanFitsBudget'
      BY <1>1 DEF PlanFitsBudget
    <2> QED BY <1>1, <1>3, <2>4, <2>5, <2>6 DEF RunInv
  <1> QED BY <1>2, <1>3 DEF NextStep

LEMMA RunKeeps ==
    ASSUME RunInv, [AgentNext]_agentVars
    PROVE  RunInv'
  <1>1. ChargesFit'
    BY NextCharges DEF RunInv
  <1>2. CASE Preflight \/ RecordStep \/ InvokeTool \/ ToolAnswers \/ NextStep
    BY <1>1, <1>2, PreflightFits, RecordStepFits, InvokeToolFits, ToolAnswersFits, NextStepFits
  <1>3. CASE Abort \/ DeadlinePasses \/ UNCHANGED agentVars
    BY <1>1, <1>3, RunEndsFitting DEF Abort, DeadlinePasses, agentVars
  <1>4. CASE \/ AbortEndsAwait \/ SynthesizeDecision \/ StartSkeptic \/ Challenge \/ SkepticToolAnswers
             \/ Conclude \/ Persist
    <2>1. UNCHANGED <<stages, budget, plan, used, step, call, made>>
      BY <1>4 DEF AbortEndsAwait, SynthesizeDecision, StartSkeptic, Challenge, SkepticToolAnswers, Conclude, Persist
    <2>2. pc # "done" /\ pc' \notin Underway \cup {"preflight"}
      BY <1>4 DEF AbortEndsAwait, SynthesizeDecision, StartSkeptic, Challenge, SkepticToolAnswers, Conclude, Persist,
           Raise, Underway, Awaiting
    <2>3. outcome' = outcome \/ (outcome' \notin Denied /\ pc' = "done")
      BY <1>4, Allowed DEF AbortEndsAwait, SynthesizeDecision, StartSkeptic, Challenge, SkepticToolAnswers, Conclude,
           Persist, Raise
    <2> QED BY <1>1, <2>1, <2>2, <2>3, RunEndsFitting
  <1> QED BY <1>2, <1>3, <1>4 DEF AgentNext, Runtime

\* DeterministicPlanner.plan: once a tool was called, the tracker of a run never
\* stops it for want of steps, calls, cost or units, whatever tools, costs and
\* limits there are.  The deadline, the limits the planner does not look at, and
\* a budget error that a tool itself raises, may.
THEOREM PlansAlwaysFit == AgentSpec => []PlanFitsBudget
  <1>1. RunInv => PlanFitsBudget
    BY DEF RunInv
  <1> QED BY <1>1, RunInitially, RunKeeps, PTL DEF AgentSpec

-----------------------------------------------------------------------------
(* ToolCore: one promise in flight for a key.                               *)

\* Who leads holds the flight until it settles, with its outcome known by then.
FlightInv ==
    /\ place \in [Calls -> Places] /\ promise \in [Calls -> {"none", "pending", "value", "error"}]
    /\ flight \in Calls \cup {NoCall}
    /\ OneFlight

LEMMA InitFlight == ToolInit => FlightInv
  BY DEF ToolInit, FlightInv, OneFlight, Places, Leading

\* A call moves to another place, and with it the flight.
LEMMA MoveKeepsFlight ==
    ASSUME FlightInv, NEW c \in Calls, NEW l \in Places, Proceed(c, l), flight' \in Calls \cup {NoCall},
           promise' \in [Calls -> {"none", "pending", "value", "error"}],
           \/ flight' = flight /\ (l \in Leading <=> place[c] \in Leading)
           \/ flight = NoCall /\ flight' = c /\ l \in Leading
           \/ flight = c /\ flight' = NoCall /\ l \notin Leading
    PROVE  FlightInv'
  <1>1. /\ place' \in [Calls -> Places] /\ place'[c] = l
        /\ \A d \in Calls \ {c} : place'[d] = place[d]
    BY DEF Proceed, FlightInv
  <1>2. NoCall \notin Calls
    BY ToolAssumption
  <1>3. OneFlight'
    BY <1>1, <1>2 DEF FlightInv, OneFlight
  <1> QED BY <1>1, <1>3 DEF FlightInv

LEMMA ResumeKeepsFlight ==
    ASSUME FlightInv, NEW c \in Calls, Lookup(c) \/ Resume(c)
    PROVE  FlightInv'
  <1>1. CASE Lookup(c) \/ ReturnHit(c) \/ Join(c)
    BY <1>1, MoveKeepsFlight DEF Lookup, ReturnHit, Join, Answer, Places, Leading, FlightInv
  <1>2. CASE Lead(c)
    BY <1>2, MoveKeepsFlight DEF Lead, Places, Leading, FlightInv
  <1>3. CASE Load(c) \/ Stored(c) \/ Reject(c)
    BY <1>3, MoveKeepsFlight DEF Load, Stored, Reject, Places, Leading, FlightInv
  <1>4. CASE Settle(c)
    <2>1. place[c] = "settled" /\ Proceed(c, "done") /\ flight' = StillFlying(c) /\ promise' = promise
      BY <1>4 DEF Settle, Answer
    <2>2. flight = c
      BY <2>1 DEF FlightInv, OneFlight, Leading
    <2>3. flight' = NoCall
      BY <2>1, <2>2 DEF StillFlying
    <2> QED BY <2>1, <2>2, <2>3, MoveKeepsFlight DEF Places, Leading, FlightInv
  <1>5. CASE Follow(c)
    BY <1>5, MoveKeepsFlight DEF Follow, Answer, Places, Leading, FlightInv
  <1> QED BY <1>1, <1>2, <1>3, <1>4, <1>5 DEF Resume

LEMMA FlightStays ==
    ASSUME FlightInv, [ToolNext]_toolVars
    PROVE  FlightInv'
  <1>1. CASE \E c \in Calls : Lookup(c) \/ Resume(c)
    BY <1>1, ResumeKeepsFlight
  <1>2. CASE UNCHANGED <<place, promise, flight>>
    BY <1>2 DEF FlightInv, OneFlight
  <1> QED BY <1>1, <1>2 DEF ToolNext, Tick, toolVars

\* ToolCore.execute: any number of calls for one key that interleave at their
\* awaits, with a cache that expires, denials, throws and rejected values: at most
\* one of them is between the cost policy and the provider's answer, and none
\* that has settled is still registered.
THEOREM FlightsAreSingle == ToolInit /\ [][ToolNext]_toolVars => []OneFlight
  <1>1. FlightInv => OneFlight
    BY DEF FlightInv
  <1> QED BY <1>1, FlightStays, InitFlight, PTL

-----------------------------------------------------------------------------
(* FactoryMilestone: the budgets of a milestone, and how it is left.        *)

MilestoneMeta ==
    [mid : Roadmap, passes : 0..MaxPasses, replanned : BOOLEAN, migrated : BOOLEAN,
     converged : BOOLEAN, cms : 0..Milestones, chead : 0..MaxHead,
     stage : {"none", "CONVERGED", "PLANNER_PRIMARY_CLAIMED", "PLANNER_PRIMARY_FAILED",
              "PLANNER_FALLBACK_CLAIMED", "NEXT_MILESTONE_VALIDATED",
              "NEXT_MILESTONE_INSTALLED", "TRANSITION_BLOCKED"},
     blocked : BOOLEAN, bhead : 0..MaxHead, cycles : 0..MaxCycles, audited : BOOLEAN]
UsageFiles == [converge : 0..MaxConverge, planner : 0..MaxPlanner,
               replan : 0..MaxReplan, audit : 0..MaxAudit]

MilestoneTypes ==
    /\ milestone \in Roadmap /\ packages \in [Packages -> 0..2] /\ archived \subseteq Roadmap
    /\ meta \in MilestoneMeta /\ usage \in UsageFiles
    /\ head \in 1..MaxHead /\ seen \in 0..MaxHead /\ crashes \in 0..MaxCrashes
    /\ calls \in [Roadmap -> Nat] /\ converged \subseteq Roadmap \X (1..MaxHead)

\* Where the controller is, what it has checked still holds.
CheckHolds ==
    /\ doing \in {"converge", "converge_fallback", "gaps"} => meta.passes < MaxPasses
    /\ doing \in {"converge", "converge_fallback"} => seen > 0
    /\ doing = "primary" => usage.planner < MaxPlanner
    /\ doing \in {"audit", "audit_gaps"} => meta.cycles < MaxCycles

\* The evidence in the metadata is of a convergence that took place, and a
\* transition is under way for the milestone that has it only.
Transit == {"advance", "primary", "primary_answers", "fallback", "install", "archived"}
EvidenceIsReal ==
    /\ meta.cms # 0 => <<meta.cms, meta.chead>> \in converged
    /\ doing \in Transit => meta.cms = milestone
    /\ doing \in {"primary", "primary_answers", "fallback", "install", "archived"} => milestone < Milestones
    /\ doing = "archived" => milestone \in archived

\* The calls of a milestone are what its usage file says, or within the budget.
CallsAreUsage ==
    /\ calls[milestone] = usage.planner
    /\ \A m \in Roadmap : m > milestone => calls[m] = 0
    /\ PlannerCallsAreBounded

MilestoneInv ==
    /\ MilestoneTypes /\ CheckHolds /\ EvidenceIsReal /\ CallsAreUsage /\ LeftMilestoneIsSettled

LEMMA MilestoneBounds ==
    /\ Milestones \in Nat \ {0} /\ MaxHead \in Nat \ {0} /\ MaxCrashes \in Nat
    /\ MaxPasses \in Nat /\ MaxCycles \in Nat /\ MaxConverge \in Nat
    /\ MaxPlanner \in Nat /\ MaxReplan \in Nat /\ MaxAudit \in Nat
  BY MilestoneAssumption

LEMMA MilestoneInitially == MilestoneInit => MilestoneInv
  <1> SUFFICES ASSUME MilestoneInit PROVE MilestoneInv
    OBVIOUS
  <1> USE MilestoneBounds DEF MilestoneInit
  <1>1. FreshMeta(1) \in MilestoneMeta /\ FreshMeta(1).cms = 0
    BY DEF FreshMeta, MilestoneMeta, Roadmap
  <1>2. NoUsage \in UsageFiles /\ NoUsage.planner = 0
    BY DEF NoUsage, UsageFiles
  <1>3. FirstPlan \in [Packages -> 0..2]
    BY DEF FirstPlan
  <1>4. MilestoneTypes
    BY <1>1, <1>2, <1>3 DEF MilestoneTypes, Roadmap
  <1> QED
    BY <1>1, <1>2, <1>4 DEF MilestoneInv, CheckHolds, EvidenceIsReal, CallsAreUsage, Transit, Roadmap,
       LeftMilestoneIsSettled, PlannerCallsAreBounded

\* The updates of the metadata keep its type.
LEMMA MetaBlocked ==
    ASSUME NEW m \in MilestoneMeta, NEW h \in 0..MaxHead
    PROVE  LET n == [m EXCEPT !.blocked = TRUE, !.bhead = h]
           IN  /\ n \in MilestoneMeta /\ n.cms = m.cms /\ n.chead = m.chead
               /\ n.passes = m.passes /\ n.cycles = m.cycles
  BY DEF MilestoneMeta

LEMMA MetaCounted ==
    ASSUME NEW m \in MilestoneMeta, NEW k \in 0..MaxPasses
    PROVE  /\ [m EXCEPT !.passes = k, !.converged = FALSE] \in MilestoneMeta
           /\ [m EXCEPT !.replanned = TRUE, !.passes = k, !.converged = FALSE] \in MilestoneMeta
  BY DEF MilestoneMeta

LEMMA MetaAudited ==
    ASSUME NEW m \in MilestoneMeta, NEW k \in 0..MaxCycles
    PROVE  /\ [m EXCEPT !.cycles = k, !.converged = FALSE] \in MilestoneMeta
           /\ [m EXCEPT !.cycles = k, !.audited = TRUE] \in MilestoneMeta
  BY DEF MilestoneMeta

WithEvidence(m, k, c, h) ==
    [m EXCEPT !.passes = k, !.converged = TRUE, !.cms = c, !.chead = h, !.stage = "CONVERGED"]
LEMMA MetaConverged ==
    ASSUME NEW m \in MilestoneMeta, NEW k \in 0..MaxPasses, NEW c \in 0..Milestones, NEW h \in 0..MaxHead
    PROVE  LET n == WithEvidence(m, k, c, h) IN n \in MilestoneMeta /\ n.cms = c /\ n.chead = h
  BY DEF MilestoneMeta, WithEvidence

Installed(m, i, k, c, h) ==
    [m EXCEPT !.mid = i, !.stage = "NEXT_MILESTONE_INSTALLED", !.converged = FALSE, !.passes = k,
              !.cms = c, !.chead = h]
LEMMA MetaInstalled ==
    ASSUME NEW m \in MilestoneMeta, NEW i \in Roadmap, NEW k \in 0..MaxPasses, NEW c \in 0..Milestones,
           NEW h \in 0..MaxHead
    PROVE  Installed(m, i, k, c, h) \in MilestoneMeta /\ Installed(m, i, k, c, h).cms = c
  BY DEF MilestoneMeta, Installed

Forgotten(m, k, c, h) ==
    [m EXCEPT !.converged = FALSE, !.cms = c, !.chead = h, !.stage = "none", !.blocked = FALSE,
              !.passes = k, !.replanned = FALSE, !.migrated = FALSE, !.bhead = h]
LEMMA MetaCleared ==
    ASSUME NEW m \in MilestoneMeta, NEW k \in 0..MaxPasses, NEW c \in 0..Milestones, NEW h \in 0..MaxHead
    PROVE  LET n == Forgotten(m, k, c, h) IN n \in MilestoneMeta /\ n.cms = c /\ n.cycles = m.cycles
  <1>1. Forgotten(m, k, c, h) \in MilestoneMeta
    BY DEF MilestoneMeta, Forgotten
  <1>2. Forgotten(m, k, c, h).cms = c /\ Forgotten(m, k, c, h).cycles = m.cycles
    BY DEF MilestoneMeta, Forgotten
  <1> QED BY <1>1, <1>2

LEMMA NoneYet == 0 \in 0..MaxPasses /\ 0 \in 0..MaxHead /\ 0 \in 0..Milestones
  BY MilestoneBounds

\* What the controller forgets about another head leaves the metadata in order.
LEMMA ClearedMeta ==
    ASSUME meta \in MilestoneMeta
    PROVE  /\ Cleared(meta) \in MilestoneMeta
           /\ Cleared(meta).cms \in {0, meta.cms} /\ Cleared(meta).cycles = meta.cycles
           /\ Cleared(meta).cms # 0 => Cleared(meta).chead = meta.chead
  <1> DEFINE m == Forgotten(meta, 0, 0, 0)
  <1>1. m \in MilestoneMeta /\ m.cms = 0 /\ m.cycles = meta.cycles
    BY MetaCleared, NoneYet
  <1>2. Cleared(meta) = meta \/ Cleared(meta) = m
    BY DEF Cleared, Forgotten
  <1> HIDE DEF m
  <1> QED BY <1>1, <1>2

LEMMA BlockedMeta ==
    ASSUME NEW m \in MilestoneMeta, NEW h \in 0..MaxHead
    PROVE  /\ Blocked(m, h) \in MilestoneMeta /\ Blocked(m, h).cms = m.cms
           /\ Blocked(m, h).chead = m.chead
           /\ Blocked(m, h).passes = m.passes /\ Blocked(m, h).cycles = m.cycles
  BY MetaBlocked DEF Blocked

LEMMA CountedUsage ==
    ASSUME usage \in UsageFiles,
           NEW role \in {"converge", "planner", "replan", "audit"},
           usage[role] < (CASE role = "converge" -> MaxConverge [] role = "planner" -> MaxPlanner
                            [] role = "replan" -> MaxReplan [] role = "audit" -> MaxAudit)
    PROVE  /\ Counted(role) \in UsageFiles
           /\ Counted(role).planner = IF role = "planner" THEN usage.planner + 1 ELSE usage.planner
  <1> USE MilestoneBounds DEF Counted, UsageFiles
  <1>1. CASE role = "converge"
    BY <1>1
  <1>2. CASE role = "planner"
    BY <1>2
  <1>3. CASE role = "replan"
    BY <1>3
  <1>4. CASE role = "audit"
    BY <1>4
  <1> QED BY <1>1, <1>2, <1>3, <1>4

\* A step that leaves milestone, archive and the history alone.
LEMMA MilestoneRests ==
    ASSUME MilestoneInv, UNCHANGED <<milestone, archived, calls, converged>>,
           packages' \in [Packages -> 0..2], meta' \in MilestoneMeta, usage' \in UsageFiles,
           usage'.planner = usage.planner, head' \in 1..MaxHead, seen' \in 0..MaxHead, crashes' \in 0..MaxCrashes,
           CheckHolds', EvidenceIsReal'
    PROVE  MilestoneInv'
  <1>1. MilestoneTypes'
    BY DEF MilestoneInv, MilestoneTypes
  <1>2. CallsAreUsage'
    BY DEF MilestoneInv, CallsAreUsage, PlannerCallsAreBounded
  <1>3. LeftMilestoneIsSettled'
    BY DEF MilestoneInv, LeftMilestoneIsSettled
  <1> QED BY <1>1, <1>2, <1>3 DEF MilestoneInv

LEMMA ReconcileInv ==
    ASSUME MilestoneInv, Reconcile
    PROVE  MilestoneInv'
  <1> USE MilestoneBounds DEF MilestoneInv, MilestoneTypes
  <1>1. FreshMeta(milestone) \in MilestoneMeta /\ FreshMeta(milestone).cms = 0
    BY DEF FreshMeta, MilestoneMeta, Roadmap
  <1> QED
    BY <1>1, MilestoneRests DEF Reconcile, CheckHolds, EvidenceIsReal, Transit

LEMMA ControllerTickInv ==
    ASSUME MilestoneInv, ControllerTick
    PROVE  MilestoneInv'
  <1> DEFINE m == Cleared(meta)
  <1> USE MilestoneBounds DEF MilestoneInv, MilestoneTypes
  <1>1. /\ m \in MilestoneMeta /\ m.cms \in {0, meta.cms} /\ m.cycles = meta.cycles
        /\ m.cms # 0 => m.chead = meta.chead
    BY ClearedMeta
  <1>2. m.cms # 0 => <<m.cms, m.chead>> \in converged
    BY <1>1 DEF EvidenceIsReal
  <1>3. /\ UNCHANGED <<milestone, packages, remed, archived, done, head, calls, converged, crashes>>
        /\ seen' = head
    BY DEF ControllerTick
  <1>4. CASE meta' = m /\ UNCHANGED usage /\ doing' \in {"idle", "replan"}
    BY <1>1, <1>2, <1>3, <1>4, MilestoneRests DEF CheckHolds, EvidenceIsReal, Transit
  <1>5. CASE meta' = m /\ UNCHANGED usage /\ doing' = "advance" /\ HasEvidence(m)
    BY <1>1, <1>2, <1>3, <1>5, MilestoneRests DEF CheckHolds, EvidenceIsReal, Transit, HasEvidence
  <1>6. CASE meta' = m /\ UNCHANGED usage /\ doing' = "converge_fallback" /\ m.passes < MaxPasses
    BY <1>1, <1>2, <1>3, <1>6, MilestoneRests DEF CheckHolds, EvidenceIsReal, Transit
  <1>7. CASE meta' = Blocked(m, head) /\ UNCHANGED usage /\ doing' = "idle"
    <2>1. Blocked(m, head) \in MilestoneMeta /\ Blocked(m, head).cms = m.cms /\ Blocked(m, head).chead = m.chead
      <3>1. head \in 0..MaxHead
        OBVIOUS
      <3> QED BY <1>1, <3>1, BlockedMeta
    <2> QED
      BY <1>2, <1>3, <1>7, <2>1, MilestoneRests DEF CheckHolds, EvidenceIsReal, Transit
  <1>8. CASE /\ meta' = m /\ usage' = Counted("converge") /\ doing' = "converge" /\ m.passes < MaxPasses
             /\ CallsLeft("converge", MaxConverge)
    <2>1. Counted("converge") \in UsageFiles /\ Counted("converge").planner = usage.planner
      BY <1>8, CountedUsage DEF CallsLeft
    <2> QED
      BY <1>1, <1>2, <1>3, <1>8, <2>1, MilestoneRests DEF CheckHolds, EvidenceIsReal, Transit
  <1> QED
    BY <1>4, <1>5, <1>6, <1>7, <1>8 DEF ControllerTick

LEMMA ConvergenceAnswersInv ==
    ASSUME MilestoneInv, ConvergenceAnswers
    PROVE  MilestoneInv'
  <1> DEFINE m == [meta EXCEPT !.migrated = @ \/ doing = "converge_fallback"]
             n == [m EXCEPT !.passes = @ + 1, !.converged = TRUE, !.cms = milestone,
                            !.chead = seen, !.stage = "CONVERGED"]
  <1> USE MilestoneBounds DEF MilestoneInv, MilestoneTypes
  <1>1. m \in MilestoneMeta /\ m.cms = meta.cms /\ m.chead = meta.chead /\ m.passes = meta.passes
    BY DEF MilestoneMeta
  <1>2. /\ UNCHANGED <<milestone, packages, usage, archived, head, seen, calls, crashes>>
        /\ doing \in {"converge", "converge_fallback"}
    BY DEF ConvergenceAnswers
  <1>3. ASSUME meta' = n, converged' = converged \cup {<<milestone, seen>>}, doing' = "advance"
        PROVE  MilestoneInv'
    <2>1. seen \in 1..MaxHead /\ meta.passes < MaxPasses
      BY <1>2 DEF CheckHolds
    <2>2. n \in MilestoneMeta /\ n.cms = milestone /\ n.chead = seen
      <3>1. meta.passes \in 0..MaxPasses
        BY DEF MilestoneMeta
      <3>2. milestone \in 1..Milestones
        BY DEF Roadmap
      <3>3. m \in MilestoneMeta /\ m.passes = meta.passes
        BY <1>1
      <3> HIDE DEF MilestoneInv, MilestoneTypes, m
      <3>4. m.passes + 1 \in 0..MaxPasses /\ milestone \in 0..Milestones /\ seen \in 0..MaxHead
        BY <2>1, <3>1, <3>2, <3>3, SMT
      <3>5. \A k \in 0..MaxPasses, c \in 0..Milestones, h \in 0..MaxHead :
                LET r == WithEvidence(m, k, c, h)
                IN  r \in MilestoneMeta /\ r.cms = c /\ r.chead = h
        BY <3>3, MetaConverged
      <3>6. LET r == WithEvidence(m, m.passes + 1, milestone, seen)
            IN  r \in MilestoneMeta /\ r.cms = milestone /\ r.chead = seen
        BY <3>4, <3>5
      <3> QED BY <3>6 DEF WithEvidence
    <2>3. MilestoneTypes'
      BY <1>2, <1>3, <2>1, <2>2
    <2>4. CheckHolds' /\ EvidenceIsReal'
      BY <1>2, <1>3, <2>2 DEF CheckHolds, EvidenceIsReal, Transit
    <2>5. CallsAreUsage'
      BY <1>2 DEF CallsAreUsage, PlannerCallsAreBounded
    <2>6. LeftMilestoneIsSettled'
      BY <1>2, <1>3 DEF LeftMilestoneIsSettled
    <2> QED BY <2>3, <2>4, <2>5, <2>6
  <1>4. ASSUME meta' = meta, UNCHANGED converged, doing' \in {"gaps", "idle"} PROVE MilestoneInv'
    BY <1>2, <1>4, MilestoneRests DEF CheckHolds, EvidenceIsReal, Transit
  <1>5. ASSUME meta' = Blocked(m, seen), UNCHANGED converged, doing' = "idle" PROVE MilestoneInv'
    <2>1. Blocked(m, seen) \in MilestoneMeta /\ Blocked(m, seen).cms = m.cms /\ Blocked(m, seen).chead = m.chead
      BY <1>1, BlockedMeta
    <2> QED
      BY <1>1, <1>2, <1>5, <2>1, MilestoneRests DEF CheckHolds, EvidenceIsReal, Transit
  <1> QED
    BY <1>3, <1>4, <1>5 DEF ConvergenceAnswers


LEMMA SavesInv ==
    ASSUME MilestoneInv, SaveGaps \/ SaveReplanned \/ SaveInstalled \/ SaveAudit
    PROVE  MilestoneInv'
  <1> USE MilestoneBounds DEF MilestoneInv, MilestoneTypes
  <1>1. UNCHANGED <<milestone, packages, usage, archived, head, seen, calls, converged, crashes>> /\ doing' = "idle"
    BY DEF SaveGaps, SaveReplanned, SaveInstalled, SaveAudit
  <1>2. /\ meta' \in MilestoneMeta
        /\ meta'.cms # 0 => meta'.cms = meta.cms /\ meta'.chead = meta.chead
    <2>1. CASE SaveGaps
      <3>1. meta.passes + 1 \in 0..MaxPasses
        BY <2>1 DEF SaveGaps, CheckHolds, MilestoneMeta
      <3>2. meta'.cms = meta.cms /\ meta'.chead = meta.chead
        BY <2>1 DEF SaveGaps, MilestoneMeta
      <3> QED BY <2>1, <3>1, <3>2, MetaCounted DEF SaveGaps
    <2>2. CASE SaveReplanned
      <3>1. meta'.cms = meta.cms /\ meta'.chead = meta.chead
        BY <2>2 DEF SaveReplanned, MilestoneMeta
      <3> QED BY <2>2, <3>1, NoneYet, MetaCounted DEF SaveReplanned
    <2>3. CASE SaveInstalled
      <3>1. LET r == Installed(meta, milestone, 0, 0, 0) IN r \in MilestoneMeta /\ r.cms = 0
        BY NoneYet, MetaInstalled
      <3>2. meta' = Installed(meta, milestone, 0, 0, 0)
        BY <2>3 DEF SaveInstalled, Installed
      <3> QED BY <3>1, <3>2
    <2>4. CASE SaveAudit
      <3>1. meta.cycles + 1 \in 0..MaxCycles
        BY <2>4 DEF SaveAudit, CheckHolds, MilestoneMeta
      <3>2. meta'.cms = meta.cms /\ meta'.chead = meta.chead
        BY <2>4 DEF SaveAudit, MilestoneMeta
      <3> QED BY <2>4, <3>1, <3>2, MetaAudited DEF SaveAudit
    <2> QED BY <2>1, <2>2, <2>3, <2>4
  <1> QED
    BY <1>1, <1>2, MilestoneRests DEF CheckHolds, EvidenceIsReal, Transit

\* A delta is a plan again.
LEMMA DeltaType ==
    ASSUME NEW proposed, NEW twin, NEW f
    PROVE  PlanDelta(proposed, twin, f) \in [Packages -> 0..2]
  BY DEF PlanDelta

LEMMA ReplanKeepsType ==
    ASSUME packages \in [Packages -> 0..2], ReplanConvergence
    PROVE  packages' \in [Packages -> 0..2]
  <1>1. CASE packages' = packages
    BY <1>1
  <1>2. CASE \E proposed \in SUBSET Packages, twin \in (Loaded \ {"new"}) \cup {"none"}, f \in BOOLEAN :
                packages' = PlanDelta(proposed, twin, f)
    BY <1>2, DeltaType
  <1> QED BY <1>1, <1>2 DEF ReplanConvergence

LEMMA ReplanConvergenceInv ==
    ASSUME MilestoneInv, ReplanConvergence
    PROVE  MilestoneInv'
  <1> DEFINE m == [meta EXCEPT !.replanned = TRUE]
  <1> USE MilestoneBounds DEF MilestoneInv, MilestoneTypes
  <1>1. m \in MilestoneMeta /\ m.cms = meta.cms /\ m.chead = meta.chead
    BY DEF MilestoneMeta
  <1>2. Blocked(m, seen) \in MilestoneMeta /\ Blocked(m, seen).cms = m.cms /\ Blocked(m, seen).chead = m.chead
    BY <1>1, BlockedMeta
  <1>3. UNCHANGED <<milestone, archived, head, seen, calls, converged, crashes>>
    BY DEF ReplanConvergence
  <1>4. usage' \in UsageFiles /\ usage'.planner = usage.planner
    BY CountedUsage DEF ReplanConvergence, CallsLeft
  <1>5. packages' \in [Packages -> 0..2]
    BY ReplanKeepsType
  <1>6. doing' \in {"idle", "replanned"} /\ meta' \in {meta, Blocked(m, seen)}
    BY DEF ReplanConvergence
  <1> QED
    BY <1>1, <1>2, <1>3, <1>4, <1>5, <1>6, MilestoneRests DEF CheckHolds, EvidenceIsReal, Transit

\* The stages of a transition.
LEMMA StagesInv ==
    ASSUME MilestoneInv, ClaimPlanner \/ PlannerAnswers
    PROVE  MilestoneInv'
  <1> USE MilestoneBounds DEF MilestoneInv, MilestoneTypes
  <1>1. UNCHANGED <<milestone, packages, usage, archived, head, seen, calls, converged, crashes>>
    BY DEF ClaimPlanner, PlannerAnswers
  <1>2. /\ meta' \in MilestoneMeta /\ meta'.cms = meta.cms /\ meta'.chead = meta.chead
        /\ doing' \in {"primary", "advance", "fallback", "install", "idle"}
    <2>1. CASE ClaimPlanner
      BY <2>1 DEF ClaimPlanner, Stage, MilestoneMeta
    <2>2. CASE PlannerAnswers
      <3>1. \A s \in {"NEXT_MILESTONE_VALIDATED", "PLANNER_PRIMARY_FAILED"} :
               LET n == [meta EXCEPT !.stage = s] IN
               n \in MilestoneMeta /\ n.cms = meta.cms /\ n.chead = meta.chead
        BY DEF MilestoneMeta
      <3>2. LET n == [Blocked(meta, seen) EXCEPT !.stage = "TRANSITION_BLOCKED"] IN
               n \in MilestoneMeta /\ n.cms = meta.cms /\ n.chead = meta.chead
        BY BlockedMeta DEF MilestoneMeta
      <3> QED BY <2>2, <3>1, <3>2 DEF PlannerAnswers, Stage
    <2> QED BY <2>1, <2>2
  <1>3. /\ doing \in Transit
        /\ doing' \in {"primary", "fallback", "install"} => milestone < Milestones
        /\ doing' = "primary" => usage.planner < MaxPlanner
    BY DEF ClaimPlanner, PlannerAnswers, Stage, Transit, EvidenceIsReal, CallsLeft
  <1> QED
    BY <1>1, <1>2, <1>3, MilestoneRests DEF CheckHolds, EvidenceIsReal, Transit

LEMMA CallPrimaryInv ==
    ASSUME MilestoneInv, CallPrimary
    PROVE  MilestoneInv'
  <1> USE MilestoneBounds DEF MilestoneInv, MilestoneTypes, CallPrimary
  <1>1. Counted("planner") \in UsageFiles /\ Counted("planner").planner = usage.planner + 1
    BY CountedUsage DEF CheckHolds
  <1>2. /\ calls' \in [Roadmap -> Nat] /\ calls'[milestone] = usage.planner + 1
        /\ \A m \in Roadmap \ {milestone} : calls'[m] = calls[m]
    BY DEF CallsAreUsage, UsageFiles
  <1>3. MilestoneTypes'
    BY <1>1, <1>2
  <1>4. CheckHolds' /\ EvidenceIsReal'
    BY DEF CheckHolds, EvidenceIsReal, Transit
  <1>5. usage.planner + 1 <= MaxPlanner
    BY DEF CheckHolds, UsageFiles
  <1>6. CallsAreUsage'
    BY <1>1, <1>2, <1>5 DEF CallsAreUsage, PlannerCallsAreBounded, Roadmap
  <1>7. LeftMilestoneIsSettled'
    BY DEF LeftMilestoneIsSettled
  <1> QED BY <1>3, <1>4, <1>6, <1>7

\* The archive is written before the next milestone is made the active one.
LEMMA ArchiveInv ==
    ASSUME MilestoneInv, Archive
    PROVE  MilestoneInv'
  <1> USE MilestoneBounds DEF MilestoneInv, MilestoneTypes, Archive
  <1>1. MilestoneTypes'
    OBVIOUS
  <1>2. CheckHolds' /\ EvidenceIsReal'
    BY DEF CheckHolds, EvidenceIsReal, Transit
  <1>3. CallsAreUsage' /\ LeftMilestoneIsSettled'
    BY DEF CallsAreUsage, PlannerCallsAreBounded, LeftMilestoneIsSettled
  <1> QED BY <1>1, <1>2, <1>3

LEMMA WriteActiveInv ==
    ASSUME MilestoneInv, WriteActive
    PROVE  MilestoneInv'
  <1> USE MilestoneBounds DEF MilestoneInv, MilestoneTypes, WriteActive
  <1>1. NoUsage \in UsageFiles /\ NoUsage.planner = 0 /\ FirstPlan \in [Packages -> 0..2]
    BY DEF NoUsage, UsageFiles, FirstPlan
  <1>2. milestone + 1 \in Roadmap
    BY DEF EvidenceIsReal, Roadmap
  <1>3. MilestoneTypes'
    BY <1>1, <1>2
  <1>4. CheckHolds' /\ EvidenceIsReal'
    BY DEF CheckHolds, EvidenceIsReal, Transit
  <1>5. CallsAreUsage'
    BY <1>1, <1>2 DEF CallsAreUsage, PlannerCallsAreBounded, Roadmap
  <1>6. milestone \in archived /\ <<milestone, meta.chead>> \in converged
    <2>1. meta.cms = milestone /\ milestone # 0
      BY DEF EvidenceIsReal, Transit, Roadmap
    <2> QED BY <2>1 DEF EvidenceIsReal
  <1>7. meta.chead \in 1..MaxHead
    BY <1>6
  <1>8. LeftMilestoneIsSettled'
    <2> SUFFICES ASSUME NEW k \in Roadmap, k < milestone + 1
                 PROVE  k \in archived /\ \E h \in 1..MaxHead : <<k, h>> \in converged
      BY DEF LeftMilestoneIsSettled
    <2>1. k < milestone \/ k = milestone
      BY DEF Roadmap
    <2> QED BY <1>6, <1>7, <2>1 DEF LeftMilestoneIsSettled
  <1> QED BY <1>3, <1>4, <1>5, <1>8

LEMMA AuditInv ==
    ASSUME MilestoneInv, FinalAudit \/ AuditAnswers
    PROVE  MilestoneInv'
  <1> USE MilestoneBounds DEF MilestoneInv, MilestoneTypes
  <1>1. UNCHANGED <<milestone, packages, archived, head, seen, calls, converged, crashes>>
    BY DEF FinalAudit, AuditAnswers
  <1>2. usage' \in UsageFiles /\ usage'.planner = usage.planner
    BY CountedUsage DEF FinalAudit, AuditAnswers, CallsLeft
  <1>3. /\ meta' \in MilestoneMeta /\ meta'.cms = meta.cms /\ meta'.chead = meta.chead
        /\ doing' \in {"idle", "audit", "audit_gaps"}
        /\ doing' \in {"audit", "audit_gaps"} => meta'.cycles < MaxCycles
    <2>1. CASE FinalAudit
      <3>1. /\ Blocked(meta, seen) \in MilestoneMeta /\ Blocked(meta, seen).cms = meta.cms
            /\ Blocked(meta, seen).chead = meta.chead
        BY BlockedMeta
      <3>2. meta.cycles \in 0..MaxCycles
        BY DEF MilestoneMeta
      <3> QED BY <2>1, <3>1, <3>2 DEF FinalAudit
    <2>2. CASE AuditAnswers
      <3>1. meta.cycles < MaxCycles
        BY <2>2 DEF AuditAnswers, CheckHolds
      <3>2. LET n == [meta EXCEPT !.cycles = @ + 1, !.audited = TRUE] IN
               n \in MilestoneMeta /\ n.cms = meta.cms /\ n.chead = meta.chead
        <4>1. meta.cycles + 1 \in 0..MaxCycles
          BY <3>1 DEF MilestoneMeta
        <4>2. LET n == [meta EXCEPT !.cycles = @ + 1, !.audited = TRUE] IN
                 n.cms = meta.cms /\ n.chead = meta.chead
          BY DEF MilestoneMeta
        <4> QED BY <4>1, <4>2, MetaAudited
      <3> QED BY <2>2, <3>1, <3>2 DEF AuditAnswers
    <2> QED BY <2>1, <2>2
  <1> QED
    BY <1>1, <1>2, <1>3, MilestoneRests DEF CheckHolds, EvidenceIsReal, Transit

LEMMA MilestoneStep ==
    ASSUME MilestoneInv, [MilestoneNext]_milestoneVars
    PROVE  MilestoneInv'
  <1>1. CASE ControllerDies \/ Deliver \/ HeadMoves \/ UNCHANGED milestoneVars
    <2> USE MilestoneBounds DEF MilestoneInv, MilestoneTypes
    <2>1. UNCHANGED <<milestone, packages, meta, usage, archived, seen, calls, converged>>
      BY <1>1 DEF ControllerDies, Deliver, HeadMoves, milestoneVars
    <2>2. doing' \in {doing, "idle"} /\ head' \in 1..MaxHead /\ crashes' \in 0..MaxCrashes
      BY <1>1 DEF ControllerDies, Deliver, HeadMoves, milestoneVars
    <2> QED
      BY <2>1, <2>2, MilestoneRests DEF CheckHolds, EvidenceIsReal, Transit
  <1>2. CASE Reconcile \/ ControllerTick \/ ConvergenceAnswers \/ ReplanConvergence
    BY <1>2, ReconcileInv, ControllerTickInv, ConvergenceAnswersInv, ReplanConvergenceInv
  <1>3. CASE SaveGaps \/ SaveReplanned \/ SaveInstalled \/ SaveAudit
    BY <1>3, SavesInv
  <1>4. CASE ClaimPlanner \/ CallPrimary \/ PlannerAnswers \/ Archive \/ WriteActive
    BY <1>4, StagesInv, CallPrimaryInv, ArchiveInv, WriteActiveInv
  <1>5. CASE FinalAudit \/ AuditAnswers
    BY <1>5, AuditInv
  <1> QED BY <1>1, <1>2, <1>3, <1>4, <1>5 DEF MilestoneNext, Controller

LEMMA MilestoneInvariant == MilestoneSpec => []MilestoneInv
  BY MilestoneInitially, MilestoneStep, PTL DEF MilestoneSpec

LEMMA MilestoneInvTypes == MilestoneInv => MilestoneTypeOK
  BY MilestoneBounds DEF MilestoneInv, MilestoneTypes, MilestoneTypeOK, MilestoneMeta, UsageFiles

\* state.json, the plan and the usage file stay within every budget of the
\* configuration (config.py), whenever the controller dies.
THEOREM MilestoneTypeCorrect == MilestoneSpec => []MilestoneTypeOK
  BY MilestoneInvTypes, MilestoneInvariant, PTL

\* _do_invoke_codex: the primary planner is called at most its budget for a
\* milestone, since the usage file counts a call before it is made.
THEOREM PlannerCallsStayBounded == MilestoneSpec => []PlannerCallsAreBounded
  <1>1. MilestoneInv => PlannerCallsAreBounded
    BY DEF MilestoneInv, CallsAreUsage
  <1> QED BY <1>1, MilestoneInvariant, PTL

\* _advance_or_audit: a milestone the factory has left was found converged and is
\* in the archive, whenever the controller died and wherever the head moved.
THEOREM LeftMilestonesAreSettled == MilestoneSpec => []LeftMilestoneIsSettled
  <1>1. MilestoneInv => LeftMilestoneIsSettled
    BY DEF MilestoneInv
  <1> QED BY <1>1, MilestoneInvariant, PTL

LEMMA DurableStays ==
    ASSUME MilestoneInv, [MilestoneNext]_milestoneVars
    PROVE  KeepsDurableWork
  <1> SUFFICES ASSUME milestone' = milestone,
                      NEW p \in Packages, packages[p] > 0
               PROVE  packages'[p] > 0
    BY DEF KeepsDurableWork
  <1> USE DEF MilestoneInv, MilestoneTypes
  <1>1. CASE ReplanConvergence
    <2>1. CASE packages' = packages
      BY <2>1
    <2>2. CASE \E proposed \in SUBSET Packages, twin \in (Loaded \ {"new"}) \cup {"none"}, f \in BOOLEAN :
                  packages' = PlanDelta(proposed, twin, f)
      <3>1. p \in Loaded
        BY DEF Loaded, Occurrences
      <3> QED BY <2>2, <3>1 DEF PlanDelta
    <2> QED BY <1>1, <2>1, <2>2 DEF ReplanConvergence
  <1>2. CASE WriteActive
    BY <1>2 DEF WriteActive, Roadmap
  <1>3. CASE UNCHANGED packages \/ UNCHANGED milestoneVars
    BY <1>3 DEF milestoneVars
  <1> QED
    BY <1>1, <1>2, <1>3 DEF MilestoneNext, Controller, Reconcile, ControllerTick, ConvergenceAnswers, SaveGaps,
       SaveReplanned, ClaimPlanner, CallPrimary, PlannerAnswers, Archive, SaveInstalled, FinalAudit,
       AuditAnswers, SaveAudit, ControllerDies, Deliver, HeadMoves

\* install_plan_delta: as long as the milestone stays, no package leaves its plan.
THEOREM DurableWorkIsKept == MilestoneSpec => [][KeepsDurableWork]_milestoneVars
  BY DurableStays, MilestoneInvariant, PTL DEF MilestoneSpec

-----------------------------------------------------------------------------
(* ProductFactory: what it merges, and how often it recovers.               *)

LEMMA ProductBounds ==
    /\ MaxMain \in Nat \ {0} /\ MaxTaskHead \in Nat /\ MaxDeaths \in Nat
    /\ MaxRounds \in Nat /\ MaxPatch \in Nat /\ MaxCi \in Nat /\ MaxAttempts \in Nat
    /\ MaxRetries \in Nat /\ MaxTask \in Nat /\ MaxDegraded \in Nat /\ MaxGlobal \in Nat /\ MaxGen \in Nat
  BY ProductAssumption

Publishing == {"branch", "patch", "verify", "review", "push", "wait", "land"}
Resting == {"start", "factory", "audit", "exit", "cli", "outer", "supervise", "recovered", "reexec"}
Processes == [pc : Publishing \cup Resting \cup {"record", "execute"}, level : {"primary", "degraded"},
              round : 0..MaxRounds, recovered : 0..MaxGlobal, gen : 0..MaxGen,
              code : Codes \cup {"none"}, action : Actions \cup {"none"}, attempt : Nat]
Corrections == {<<"correction", k, h>> : k \in Nat, h \in Heads}
RecoveryNames == {<<"recovery", k, f>> : k \in Nat, f \in Recoveries}
Names == {<<>>} \cup Corrections \cup RecoveryNames
Works == [kind : {"none", "correction", "recovery", "maintenance"}, name : Names,
          round : 0..MaxPatch, review : 0..MaxPatch, ci : 0..MaxCi,
          checked : BOOLEAN, reviewed : BOOLEAN]

ProductTypes ==
    /\ root \in Heads /\ origin \in Heads /\ root <= origin
    /\ branches \subseteq Names
    /\ records \in [Recoveries -> 0..MaxAttempts] /\ executed \in [Recoveries -> Nat]
    /\ maintained \in [Maintenances -> 0..MaxAttempts]
    /\ escalations \in [Escalations -> 0..(MaxTask + MaxDegraded)]
    /\ proc \in Processes /\ work \in Works /\ deaths \in 0..MaxDeaths

\* The failure at the present commit, for which attempts are counted.
Here == <<proc.code, root>>

\* What the process relies on at each of its places.
ProcessFits ==
    /\ proc.pc \in Publishing <=> work.kind # "none"
    /\ proc.pc \notin Publishing => work = NoWork
    /\ proc.pc \in {"supervise", "cli", "outer", "record", "execute"} => proc.code \in Codes
    /\ proc.pc \in {"record", "execute"} => Recoverable(proc.code) /\ proc.action \in Actions
    /\ work.kind = "correction" => proc.round < MaxRounds
    /\ work.kind = "maintenance" \/ proc.pc = "reexec" => proc.gen < MaxGen

\* What is pushed was checked as it is.
PushedIsProved ==
    /\ proc.pc \in {"review", "push", "wait"} => work.checked
    /\ proc.pc \in {"push", "wait"} /\ work.kind = "maintenance" => work.reviewed

\* An attempt is on disk before it is made, and every branch of a recovery
\* belongs to an attempt on disk.
AttemptsAreRecorded ==
    /\ \A f \in Recoveries : executed[f] <= records[f]
    /\ \A k \in Nat, f \in Recoveries : <<"recovery", k, f>> \in branches => k <= records[f]
    /\ proc.pc = "record" => proc.attempt = records[Here] + 1 /\ proc.attempt <= MaxAttempts
    /\ proc.pc = "execute" => /\ proc.attempt = records[Here] /\ executed[Here] < records[Here]
                              /\ <<"recovery", proc.attempt, Here>> \notin branches
    /\ proc.pc = "branch" => /\ work.kind = "correction" => work.name \in Corrections
                             /\ work.kind # "maintenance"
                             /\ work.kind = "recovery" =>
                                   /\ work.name \notin branches
                                   /\ \E f \in Recoveries : work.name = <<"recovery", records[f], f>>

ProductInv ==
    ProductTypes /\ ProcessFits /\ PushedIsProved /\ AttemptsAreRecorded /\ MergedWasProved

LEMMA StartedType ==
    ASSUME NEW g \in 0..MaxGen
    PROVE  Started(g) \in Processes /\ Started(g).pc = "start" /\ Started(g).gen = g
  BY ProductBounds DEF Started, Processes, Publishing, Resting

LEMMA NoWorkType == NoWork \in Works /\ NoWork.kind = "none"
  BY ProductBounds DEF NoWork, Works, Names

LEMMA ProductInitially == ProductInit => ProductInv
  <1> SUFFICES ASSUME ProductInit PROVE ProductInv
    OBVIOUS
  <1> USE ProductBounds DEF ProductInit
  <1>1. Started(0) \in Processes /\ Started(0).pc = "start"
    BY StartedType
  <1>2. ProductTypes
    BY <1>1, NoWorkType DEF ProductTypes, Heads
  <1>3. ProcessFits /\ PushedIsProved /\ AttemptsAreRecorded /\ MergedWasProved
    BY <1>1, NoWorkType DEF ProcessFits, PushedIsProved, AttemptsAreRecorded, MergedWasProved, Publishing
  <1> QED BY <1>2, <1>3 DEF ProductInv

\* A step to a place outside of any publication.
LEMMA ToRest ==
    ASSUME ProductInv, proc' \in Processes, proc'.pc \in Resting, work' = NoWork,
           proc'.pc \in {"supervise", "cli", "outer"} => proc'.code \in Codes,
           proc'.pc = "reexec" => proc'.gen < MaxGen,
           root' \in Heads, origin' \in Heads, root' <= origin', branches' \subseteq branches,
           UNCHANGED <<records, executed>>, maintained' \in [Maintenances -> 0..MaxAttempts],
           escalations' \in [Escalations -> 0..(MaxTask + MaxDegraded)], deaths' \in 0..MaxDeaths,
           MergedWasProved'
    PROVE  ProductInv'
  <1>1. ProductTypes'
    BY NoWorkType DEF ProductInv, ProductTypes
  <1>2. proc'.pc \notin Publishing /\ proc'.pc \notin {"record", "execute"}
    BY DEF Publishing, Resting
  <1>3. ProcessFits' /\ PushedIsProved'
    BY <1>2, NoWorkType DEF ProcessFits, PushedIsProved, Publishing
  <1>4. AttemptsAreRecorded'
    BY <1>2 DEF ProductInv, AttemptsAreRecorded, Publishing
  <1> QED BY <1>1, <1>3, <1>4 DEF ProductInv

\* A step of a publication, or to one of maintenance, which makes no branch.
LEMMA ToPublish ==
    ASSUME ProductInv, proc' \in Processes, proc'.pc \in Publishing \ {"branch"}, work' \in Works,
           \/ work'.kind = work.kind /\ work.kind # "none"
           \/ work'.kind = "maintenance" /\ proc.gen < MaxGen,
           proc'.round = proc.round, proc'.gen = proc.gen, PushedIsProved',
           root' \in Heads, origin' \in Heads, root' <= origin', branches' \subseteq branches,
           UNCHANGED <<records, executed, escalations, deaths>>,
           maintained' \in [Maintenances -> 0..MaxAttempts], MergedWasProved'
    PROVE  ProductInv'
  <1>1. ProductTypes'
    BY DEF ProductInv, ProductTypes
  <1>2. ProcessFits'
    BY DEF ProductInv, ProcessFits, Publishing
  <1>3. AttemptsAreRecorded'
    BY DEF ProductInv, AttemptsAreRecorded, Publishing
  <1> QED BY <1>1, <1>2, <1>3 DEF ProductInv

\* Where the process goes on, leaves, or raises.
LEMMA Onwards ==
    ASSUME proc \in Processes, NEW p \in Publishing \cup Resting \cup {"record", "execute"}, Onward(p)
    PROVE  /\ proc' \in Processes /\ proc'.pc = p /\ proc'.round = proc.round /\ proc'.gen = proc.gen
           /\ proc'.code = proc.code /\ proc'.attempt = proc.attempt /\ proc'.action = proc.action
  BY DEF Onward, Processes

LEMMA Exits ==
    ASSUME proc \in Processes, Exit
    PROVE  proc' \in Processes /\ proc'.pc = "exit"
  BY ProductBounds DEF Exit, Started, Processes, Resting

LEMMA Throws ==
    ASSUME proc \in Processes, NEW c \in Codes, ThrowOut(c)
    PROVE  proc' \in Processes /\ proc'.pc \in {"cli", "outer"} /\ proc'.code = c
  <1> DEFINE p == IF proc.level = "primary" THEN "cli" ELSE "outer"
  <1>1. Started(proc.gen) \in Processes /\ p \in {"cli", "outer"}
    BY StartedType DEF Processes
  <1>2. proc' = [Started(proc.gen) EXCEPT !.code = c, !.level = proc.level, !.pc = p]
    BY DEF ThrowOut
  <1> HIDE DEF p
  <1> QED BY <1>1, <1>2 DEF Processes, Resting

LEMMA Raises ==
    ASSUME proc \in Processes, NEW c \in Codes, RaiseError(c)
    PROVE  proc' \in Processes /\ proc'.pc = "supervise" /\ proc'.code = c
  <1>1. 0 \in 0..MaxRounds
    BY ProductBounds
  <1> QED BY <1>1 DEF RaiseError, Processes, Resting

LEMMA Fails ==
    ASSUME ProductInv, NEW c \in Codes, Fail(c), proc.pc \in Publishing
    PROVE  /\ proc' \in Processes /\ proc'.pc \in {"supervise", "cli", "outer", "exit"} /\ work' = NoWork
           /\ proc'.pc # "exit" => proc'.code = c
  <1>1. proc \in Processes /\ work.kind \in {"correction", "recovery", "maintenance"}
    BY DEF ProductInv, ProductTypes, ProcessFits, Works
  <1>2. work' = NoWork /\ (RaiseError(c) \/ ThrowOut(c) \/ Exit)
    BY <1>1 DEF Fail
  <1> QED BY <1>1, <1>2, Raises, Throws, Exits

\* A publication that fails, whatever it has done by then.
LEMMA FailInv ==
    ASSUME ProductInv, NEW c \in Codes, Fail(c), proc.pc \in Publishing,
           root' \in Heads, origin' \in Heads, root' <= origin', branches' \subseteq branches,
           UNCHANGED <<records, executed, escalations, maintained, deaths>>, MergedWasProved'
    PROVE  ProductInv'
  <1>1. /\ proc' \in Processes /\ proc'.pc \in {"supervise", "cli", "outer", "exit"} /\ work' = NoWork
        /\ proc'.pc # "exit" => proc'.code = c
    BY Fails
  <1>2. proc'.pc \in Resting /\ proc'.pc # "reexec"
    BY <1>1 DEF Resting
  <1> QED BY <1>1, <1>2, ToRest DEF ProductInv, ProductTypes

\* A publication that is done.
LEMMA GoBackInv ==
    ASSUME ProductInv, GoBack, proc.pc \in Publishing, root' \in Heads, origin' = origin, root' <= origin,
           UNCHANGED <<branches, records, executed, escalations, maintained, deaths, merged>>
    PROVE  ProductInv'
  <1> USE DEF ProductInv, ProductTypes
  <1>1. work.kind \in {"correction", "recovery", "maintenance"}
    BY DEF ProcessFits, Works
  <1> DEFINE p == CASE work.kind = "correction" -> "factory" [] work.kind = "recovery" -> "recovered"
                    [] work.kind = "maintenance" -> "reexec"
             r == IF work.kind = "correction" THEN proc.round + 1 ELSE proc.round
  <1>2. p \in Resting /\ p \notin {"supervise", "cli", "outer"} /\ (p = "reexec" => work.kind = "maintenance")
    BY <1>1 DEF Resting
  <1>3. r \in 0..MaxRounds
    BY ProductBounds DEF ProcessFits, Processes
  <1>4. proc' = [proc EXCEPT !.pc = p, !.round = r] /\ work' = NoWork
    BY DEF GoBack
  <1> HIDE DEF p, r
  <1>5. proc' \in Processes /\ proc'.pc = p /\ proc'.gen = proc.gen
    BY <1>2, <1>3, <1>4 DEF Processes
  <1>6. proc'.pc = "reexec" => proc'.gen < MaxGen
    BY <1>2, <1>5 DEF ProcessFits
  <1>7. MergedWasProved'
    BY DEF MergedWasProved
  <1> QED BY <1>2, <1>4, <1>5, <1>6, <1>7, ToRest


LEMMA StartInv ==
    ASSUME ProductInv, Start \/ RunAutopilot \/ Restart \/ Reexec \/ RunAgain
    PROVE  ProductInv'
  <1> USE DEF ProductInv, ProductTypes
  <1>1. CASE Start
    <2>1. proc' \in Processes /\ proc'.pc \in {"factory", "exit"}
      BY <1>1, Onwards, Exits DEF Start, Resting
    <2>2. work = NoWork
      BY <1>1 DEF Start, ProcessFits, Publishing
    <2> QED
      BY <1>1, <2>1, <2>2, ToRest DEF Start, Resting, MergedWasProved, files, history
  <1>2. CASE RunAutopilot
    <2>1. /\ UNCHANGED <<files, work, history>> /\ proc.pc = "factory"
          /\ origin' \in {origin, origin + 1} \cap Heads /\ root' \in {root, origin'}
      BY <1>2 DEF RunAutopilot
    <2>2. root' \in Heads /\ origin' \in Heads /\ root' <= origin'
      BY <2>1 DEF Heads
    <2>3. /\ proc' \in Processes /\ proc'.pc \in {"audit", "supervise"}
          /\ proc'.pc = "supervise" => proc'.code \in Codes
      BY <1>2, Onwards, Raises DEF RunAutopilot, Resting
    <2>4. work = NoWork
      BY <2>1 DEF ProcessFits, Publishing
    <2> QED
      BY <2>1, <2>2, <2>3, <2>4, ToRest DEF Resting, MergedWasProved, files, history
  <1>3. CASE Restart
    <2>1. Started(0) \in Processes /\ Started(0).pc = "start"
      BY StartedType, ProductBounds
    <2>2. deaths' \in 0..MaxDeaths
      BY <1>3, ProductBounds DEF Restart
    <2> QED
      BY <1>3, <2>1, <2>2, ToRest DEF Restart, Resting, MergedWasProved, files
  <1>4. CASE Reexec
    <2>1. proc.gen + 1 \in 0..MaxGen
      BY <1>4, ProductBounds DEF Reexec, ProcessFits, Processes
    <2>2. Started(proc.gen + 1) \in Processes /\ Started(proc.gen + 1).pc = "start"
      BY <2>1, StartedType
    <2>3. work = NoWork
      BY <1>4 DEF Reexec, ProcessFits, Publishing
    <2> QED
      BY <1>4, <2>2, <2>3, ToRest DEF Reexec, Resting, MergedWasProved, files, history
  <1>5. CASE RunAgain
    <2>1. CASE ThrowOut("LIMIT")
      <3>1. /\ proc' \in Processes /\ proc'.pc \in {"cli", "outer"} /\ proc'.code \in Codes
        BY <2>1, Throws DEF Codes
      <3>2. work = NoWork
        BY <1>5 DEF RunAgain, ProcessFits, Publishing
      <3> QED
        BY <1>5, <3>1, <3>2, ToRest DEF RunAgain, Resting, MergedWasProved, files, history
    <2>2. CASE /\ proc.recovered + 1 <= MaxGlobal
               /\ proc' = [Started(proc.gen) EXCEPT !.pc = "factory", !.level = proc.level,
                                               !.recovered = proc.recovered + 1]
      <3>1. proc.recovered + 1 \in 0..MaxGlobal
        BY <2>2, ProductBounds DEF Processes
      <3>2. Started(proc.gen) \in Processes
        BY StartedType DEF Processes
      <3>3. proc' \in Processes /\ proc'.pc = "factory"
        BY <2>2, <3>1, <3>2 DEF Processes, Resting
      <3>4. work = NoWork
        BY <1>5 DEF RunAgain, ProcessFits, Publishing
      <3> QED
        BY <1>5, <3>3, <3>4, ToRest DEF RunAgain, Resting, MergedWasProved, files, history
    <2> QED BY <1>5, <2>1, <2>2 DEF RunAgain
  <1> QED BY <1>1, <1>2, <1>3, <1>4, <1>5

LEMMA AuditProductInv ==
    ASSUME ProductInv, AuditProduct
    PROVE  ProductInv'
  <1> USE DEF ProductInv, ProductTypes
  <1>1. UNCHANGED <<root, origin, files, history>> /\ work = NoWork
    BY DEF AuditProduct, ProcessFits, Publishing
  <1>2. MergedWasProved'
    BY <1>1 DEF MergedWasProved, history
  <1>3. CASE /\ UNCHANGED work
             /\ \/ Exit \/ (\E c \in Codes : RaiseError(c))
                \/ proc' = [Started(proc.gen) EXCEPT !.pc = "factory"]
    <2>1. Started(proc.gen) \in Processes
      BY StartedType DEF Processes
    <2>2. [Started(proc.gen) EXCEPT !.pc = "factory"] \in Processes
      BY <2>1 DEF Processes, Resting
    <2>3. [Started(proc.gen) EXCEPT !.pc = "factory"].pc = "factory"
      BY <2>1 DEF Processes
    <2>4. /\ proc' \in Processes /\ proc'.pc \in {"exit", "supervise", "factory"}
          /\ proc'.pc = "supervise" => proc'.code \in Codes
      BY <1>3, <2>2, <2>3, Exits, Raises
    <2> QED
      BY <1>1, <1>2, <1>3, <2>4, ToRest DEF Resting, files, history
  <1>4. CASE /\ proc.round < Rounds /\ Onward("branch")
             /\ work' = [NoWork EXCEPT !.kind = "correction", !.name = <<"correction", proc.round + 1, root>>]
    <2>1. /\ proc' \in Processes /\ proc'.pc = "branch" /\ proc'.round = proc.round
      BY <1>4, Onwards DEF Publishing
    <2>2. proc.round < MaxRounds
      BY <1>4, ProductBounds DEF Rounds, Processes
    <2>3. <<"correction", proc.round + 1, root>> \in Corrections
      BY DEF Corrections, Processes
    <2>4. work' \in Works /\ work'.kind = "correction" /\ work'.name \in Corrections
      BY <1>4, <2>3, NoWorkType DEF Works, Names
    <2>5. ProductTypes'
      BY <1>1, <2>1, <2>4 DEF files, history
    <2>6. ProcessFits' /\ PushedIsProved'
      BY <2>1, <2>2, <2>4 DEF ProcessFits, PushedIsProved, Publishing
    <2>7. AttemptsAreRecorded'
      BY <1>1, <2>1, <2>4 DEF AttemptsAreRecorded, files, history
    <2> QED BY <1>2, <2>5, <2>6, <2>7
  <1> QED
    BY <1>3, <1>4 DEF AuditProduct, Codes

LEMMA BranchInv ==
    ASSUME ProductInv, Branch
    PROVE  ProductInv'
  <1> USE DEF ProductInv, ProductTypes
  <1>1. UNCHANGED <<root, origin, records, escalations, maintained, history>> /\ proc.pc = "branch"
    BY DEF Branch
  <1>2. MergedWasProved'
    BY <1>1 DEF MergedWasProved, history
  <1>3. CASE Fail("GIT") /\ UNCHANGED branches
    BY <1>1, <1>2, <1>3, FailInv DEF Codes, Publishing, history
  <1>4. CASE work.name \notin branches /\ branches' = branches \cup {work.name} /\ Onward("patch") /\ UNCHANGED work
    <2>1. /\ proc' \in Processes /\ proc'.pc = "patch" /\ proc'.round = proc.round /\ proc'.gen = proc.gen
      BY <1>4, Onwards DEF Publishing
    <2>2. ProductTypes'
      BY <1>1, <1>4, <2>1 DEF Works, history
    <2>3. ProcessFits' /\ PushedIsProved'
      BY <1>1, <1>4, <2>1 DEF ProcessFits, PushedIsProved, Publishing
    <2>4. ASSUME NEW k \in Nat, NEW f \in Recoveries, <<"recovery", k, f>> = work.name
          PROVE  k <= records[f]
      <3>1. work.kind \in {"correction", "recovery"}
        BY <1>1 DEF ProcessFits, Works, AttemptsAreRecorded, Publishing
      <3>2. CASE work.kind = "correction"
        <4>1. PICK j \in Nat, h \in Heads : work.name = <<"correction", j, h>>
          BY <1>1, <3>2 DEF AttemptsAreRecorded, Corrections
        <4> QED BY <2>4, <4>1
      <3>3. CASE work.kind = "recovery"
        <4>1. PICK g \in Recoveries : work.name = <<"recovery", records[g], g>>
          BY <1>1, <3>3 DEF AttemptsAreRecorded
        <4>2. k = records[g] /\ f = g
          BY <2>4, <4>1
        <4> QED BY <4>2
      <3> QED BY <3>1, <3>2, <3>3
    <2>5. AttemptsAreRecorded'
      BY <1>1, <1>4, <2>1, <2>4 DEF AttemptsAreRecorded, history
    <2> QED BY <1>2, <2>2, <2>3, <2>5
  <1> QED BY <1>3, <1>4 DEF Branch


\* What the repairs, the checks and the review make of a publication.
LEMMA Edits ==
    ASSUME work \in Works
    PROVE  /\ Edited \in Works /\ Edited.kind = work.kind /\ Edited.round = work.round
           /\ Edited.review = work.review /\ Edited.ci = work.ci
  BY DEF Edited, Works

LEMMA Proved ==
    ASSUME work \in Works
    PROVE  /\ [work EXCEPT !.checked = TRUE] \in Works
           /\ [work EXCEPT !.checked = TRUE].kind = work.kind
           /\ [work EXCEPT !.checked = TRUE].checked
           /\ [work EXCEPT !.reviewed = TRUE] \in Works
           /\ [work EXCEPT !.reviewed = TRUE].kind = work.kind
           /\ [work EXCEPT !.reviewed = TRUE].reviewed
           /\ [work EXCEPT !.reviewed = TRUE].checked = work.checked
  BY DEF Works

\* A further place of the same publication.
LEMMA OnwardInv ==
    ASSUME ProductInv, proc.pc \in Publishing, NEW p \in Publishing \ {"branch"}, Onward(p),
           work' \in Works, work'.kind = work.kind,
           p \in {"review", "push", "wait"} => work'.checked,
           p \in {"push", "wait"} /\ work.kind = "maintenance" => work'.reviewed,
           UNCHANGED <<root, records, executed, escalations, deaths, maintained>>,
           origin' \in Heads, root <= origin', branches' \subseteq branches, MergedWasProved'
    PROVE  ProductInv'
  <1>1. /\ proc' \in Processes /\ proc'.pc = p /\ proc'.round = proc.round /\ proc'.gen = proc.gen
    BY Onwards DEF ProductInv, ProductTypes
  <1>2. work.kind # "none" /\ PushedIsProved'
    BY <1>1 DEF ProductInv, ProcessFits, PushedIsProved
  <1> QED BY <1>1, <1>2, ToPublish DEF ProductInv, ProductTypes

LEMMA PatchInv ==
    ASSUME ProductInv, Patch \/ Verify \/ Review \/ Push
    PROVE  ProductInv'
  <1> USE DEF ProductInv, ProductTypes
  <1>1. UNCHANGED <<root, origin, files, history>> /\ proc.pc \in {"patch", "verify", "review", "push"}
    BY DEF Patch, Verify, Review, Push
  <1>2. MergedWasProved' /\ proc.pc \in Publishing
    BY <1>1 DEF MergedWasProved, history, Publishing
  <1>3. ASSUME NEW c \in Codes, Fail(c) PROVE ProductInv'
    BY <1>1, <1>2, <1>3, FailInv DEF files, history
  <1>4. ASSUME NEW p \in Publishing \ {"branch"}, Onward(p), work' \in Works, work'.kind = work.kind,
               p \in {"review", "push", "wait"} => work'.checked,
               p \in {"push", "wait"} /\ work.kind = "maintenance" => work'.reviewed
        PROVE  ProductInv'
    BY <1>1, <1>2, <1>4, OnwardInv DEF files, history
  <1>5. {"verify", "push", "review", "wait"} \subseteq Publishing \ {"branch"}
        /\ {"REPAIRABLE", "GAP", "EXTERNAL", "GIT"} \subseteq Codes
    BY DEF Publishing, Codes
  <1>6. CASE Patch
    <2>1. CASE GoBack
      BY <1>1, <1>2, <2>1, GoBackInv DEF files, history
    <2>2. CASE Onward("verify") /\ UNCHANGED work
      BY <1>4, <1>5, <2>2
    <2> QED BY <1>3, <1>5, <1>6, <2>1, <2>2 DEF Patch, Faulty
  <1>7. CASE Verify
    <2>1. CASE work.round < MaxPatch /\ Onward("verify") /\ work' = [Edited EXCEPT !.round = @ + 1]
      <3>1. work.round + 1 \in 0..MaxPatch
        BY <2>1, ProductBounds DEF Works
      <3>2. work' = [Edited EXCEPT !.round = work.round + 1]
        BY <2>1, Edits
      <3>3. work' \in Works /\ work'.kind = work.kind
        BY <3>1, <3>2, Edits DEF Works
      <3> QED BY <1>4, <1>5, <2>1, <3>3
    <2>2. CASE /\ Onward(IF work.kind = "maintenance" THEN "review" ELSE "push")
               /\ work' = [work EXCEPT !.checked = TRUE]
      <3>1. work' \in Works /\ work'.kind = work.kind /\ work'.checked
        BY <2>2, Proved
      <3>2. CASE work.kind = "maintenance" /\ Onward("review")
        BY <1>4, <1>5, <3>1, <3>2
      <3>3. CASE work.kind # "maintenance" /\ Onward("push")
        BY <1>4, <1>5, <3>1, <3>3
      <3> QED BY <2>2, <3>2, <3>3
    <2> QED BY <1>3, <1>5, <1>7, <2>1, <2>2 DEF Verify, Faulty
  <1>8. CASE Review
    <2>1. CASE /\ work.review < MaxPatch /\ Onward("verify")
               /\ work' = [Edited EXCEPT !.review = @ + 1, !.round = 0]
      <3>1. work.review + 1 \in 0..MaxPatch /\ 0 \in 0..MaxPatch
        BY <2>1, ProductBounds DEF Works
      <3>2. work' = [Edited EXCEPT !.review = work.review + 1, !.round = 0]
        BY <2>1, Edits
      <3>3. work' \in Works /\ work'.kind = work.kind
        BY <3>1, <3>2, Edits DEF Works
      <3> QED BY <1>4, <1>5, <2>1, <3>3
    <2>2. CASE Onward("push") /\ work' = [work EXCEPT !.reviewed = TRUE]
      <3>1. work.checked
        BY <1>8 DEF Review, PushedIsProved
      <3>2. work' \in Works /\ work'.kind = work.kind /\ work'.reviewed /\ work'.checked
        BY <2>2, <3>1, Proved
      <3> QED BY <1>4, <1>5, <2>2, <3>2
    <2> QED BY <1>3, <1>5, <1>8, <2>1, <2>2 DEF Review, Faulty
  <1>9. CASE Push
    <2>1. CASE Onward("wait") /\ UNCHANGED work
      <3>1. work.checked /\ (work.kind = "maintenance" => work.reviewed)
        BY <1>9 DEF Push, PushedIsProved
      <3> QED BY <1>4, <1>5, <2>1, <3>1
    <2> QED BY <1>3, <1>5, <1>9, <2>1 DEF Push, Faulty
  <1> QED BY <1>6, <1>7, <1>8, <1>9

\* The pull request: what is merged was checked as it was pushed.
LEMMA WaitInv ==
    ASSUME ProductInv, Wait
    PROVE  ProductInv'
  <1> USE DEF ProductInv, ProductTypes
  <1>1. UNCHANGED <<root, records, escalations, maintained, executed, deaths>> /\ proc.pc = "wait"
    BY DEF Wait
  <1>2. proc.pc \in Publishing /\ work.checked /\ (work.kind = "maintenance" => work.reviewed)
    BY <1>1 DEF Publishing, PushedIsProved
  <1>3. ASSUME NEW c \in Codes, Fail(c), UNCHANGED <<origin, merged, branches>> PROVE ProductInv'
    BY <1>1, <1>2, <1>3, FailInv DEF MergedWasProved
  <1>4. {"REPAIRABLE", "LIMIT", "CLOSED", "EXTERNAL"} \subseteq Codes
    BY DEF Codes
  <1>5. CASE RepairCi /\ work.ci < MaxCi /\ UNCHANGED <<origin, merged, branches>>
    <2>1. work.ci + 1 \in 0..MaxCi /\ 0 \in 0..MaxPatch
      BY <1>5, ProductBounds DEF Works
    <2>2. work' = [Edited EXCEPT !.ci = work.ci + 1, !.round = 0, !.review = 0]
      BY <1>5, Edits DEF RepairCi
    <2>3. work' \in Works /\ work'.kind = work.kind
      BY <2>1, <2>2, Edits DEF Works
    <2>4. "verify" \in Publishing \ {"branch"} /\ Onward("verify")
      BY <1>5 DEF RepairCi, Publishing
    <2>5. MergedWasProved'
      BY <1>5 DEF MergedWasProved
    <2> QED BY <1>1, <1>2, <1>5, <2>3, <2>4, <2>5, OnwardInv
  <1>6. CASE (RedChecks \/ NotClean \/ Faulty({"CLOSED", "EXTERNAL"})) /\ UNCHANGED <<origin, merged, branches>>
    <2>1. (RepairCi /\ work.ci < MaxCi) \/ \E c \in Codes : Fail(c)
      BY <1>4, <1>6 DEF RedChecks, NotClean, Faulty
    <2> QED BY <1>3, <1>5, <1>6, <2>1
  <1>7. CASE MergePullRequest
    <2>1. origin' \in Heads /\ root <= origin' /\ merged' = merged \cup {Evidence(work)}
      BY <1>7, ProductBounds DEF MergePullRequest, Heads
    <2>2. Evidence(work).checked /\ (Evidence(work).kind = "maintenance" => Evidence(work).reviewed)
      BY <1>2 DEF Evidence
    <2>3. MergedWasProved'
      BY <2>1, <2>2 DEF MergedWasProved
    <2>4. CASE Onward("land") /\ UNCHANGED work /\ branches' = branches \ {work.name}
      <3>1. "land" \in Publishing \ {"branch"}
        BY DEF Publishing
      <3> QED BY <1>1, <1>2, <2>1, <2>3, <2>4, <3>1, OnwardInv
    <2>5. CASE Faulty({"EXTERNAL"}) /\ UNCHANGED branches
      BY <1>1, <1>2, <1>4, <2>1, <2>3, <2>5, FailInv DEF Faulty
    <2> QED BY <1>7, <2>4, <2>5 DEF MergePullRequest
  <1> QED BY <1>6, <1>7 DEF Wait

LEMMA LandInv ==
    ASSUME ProductInv, Land
    PROVE  ProductInv'
  <1> USE DEF ProductInv, ProductTypes
  <1>1. UNCHANGED <<origin, files, history>> /\ proc.pc \in Publishing
    BY DEF Land, Publishing
  <1>2. CASE root' = origin /\ GoBack
    BY <1>1, <1>2, GoBackInv DEF files, history, Heads
  <1>3. CASE Faulty({"GIT"}) /\ UNCHANGED root
    <2>1. PICK c \in Codes : Fail(c)
      BY <1>3 DEF Faulty, Codes
    <2>2. MergedWasProved'
      BY <1>1 DEF MergedWasProved, history
    <2> QED BY <1>1, <1>3, <2>1, <2>2, FailInv DEF files, history
  <1> QED BY <1>2, <1>3 DEF Land


LEMMA SuperviseInv ==
    ASSUME ProductInv, Supervise
    PROVE  ProductInv'
  <1> USE DEF ProductInv, ProductTypes
  <1>1. /\ UNCHANGED <<root, origin, files, history>> /\ work' = work /\ work = NoWork
        /\ proc.pc = "supervise" /\ proc.code \in Codes
    BY DEF Supervise, ProcessFits, Publishing
  <1>2. MergedWasProved'
    BY <1>1 DEF MergedWasProved, history
  <1>3. CASE \E c \in Codes : ThrowOut(c)
    <2>1. /\ proc' \in Processes /\ proc'.pc \in {"cli", "outer"} /\ proc'.code \in Codes
      BY <1>3, Throws
    <2> QED
      BY <1>1, <1>2, <2>1, ToRest DEF Resting, files, history
  <1>4. ASSUME Recoverable(proc.code), records[Here] < MaxAttempts, NEW a \in Actions,
               proc' = [proc EXCEPT !.pc = "record", !.action = a, !.attempt = records[Here] + 1]
        PROVE  ProductInv'
    <2>1. Here \in Recoveries /\ records[Here] \in 0..MaxAttempts
      BY <1>1, <1>4 DEF Here, Recoveries
    <2>2. records[Here] + 1 \in Nat /\ records[Here] + 1 <= MaxAttempts
      BY <1>4, <2>1, ProductBounds
    <2>3. /\ proc' \in Processes /\ proc'.pc = "record" /\ proc'.attempt = records[Here] + 1
          /\ proc'.code = proc.code /\ proc'.action = a
      BY <1>4, <2>2 DEF Processes
    <2>4. Here' = Here /\ records' = records
      BY <1>1, <2>3 DEF Here, files
    <2>5. ProductTypes'
      BY <1>1, <2>3 DEF files, history
    <2>6. ProcessFits' /\ PushedIsProved'
      BY <1>1, <1>4, <2>3, NoWorkType DEF ProcessFits, PushedIsProved, Publishing
    <2>7. AttemptsAreRecorded'
      BY <1>1, <2>2, <2>3, <2>4 DEF AttemptsAreRecorded, files, history
    <2> QED BY <1>2, <2>5, <2>6, <2>7
  <1>5. {"LIMIT", "REPAIRABLE"} \subseteq Codes /\ Diagnoses(proc.code) \subseteq Actions
    BY DEF Codes, Diagnoses, Actions
  <1> QED BY <1>1, <1>3, <1>4, <1>5 DEF Supervise, Here

LEMMA RecordAttemptInv ==
    ASSUME ProductInv, RecordAttempt
    PROVE  ProductInv'
  <1> USE DEF ProductInv, ProductTypes
  <1>1. /\ UNCHANGED <<root, origin, branches, escalations, maintained, work, history>> /\ work = NoWork
        /\ proc.pc = "record" /\ Here \in Recoveries /\ Recoverable(proc.code)
        /\ records' = [records EXCEPT ![Here] = @ + 1] /\ Onward("execute")
    BY DEF RecordAttempt, Recorded, ProcessFits, Publishing, Here, Recoveries
  <1>2. proc.attempt = records[Here] + 1 /\ proc.attempt <= MaxAttempts
    BY <1>1 DEF AttemptsAreRecorded
  <1>3. /\ proc' \in Processes /\ proc'.pc = "execute" /\ proc'.code = proc.code
        /\ proc'.attempt = proc.attempt /\ proc'.action \in Actions
    BY <1>1, Onwards DEF ProcessFits
  <1>4. Here' = Here /\ proc'.code \in Codes
    BY <1>1, <1>3 DEF Here, ProcessFits
  <1>5. /\ records' \in [Recoveries -> 0..MaxAttempts]
        /\ \A f \in Recoveries : records[f] <= records'[f]
        /\ records'[Here] = records[Here] + 1
    BY <1>1, <1>2, ProductBounds
  <1>6. ProductTypes' /\ MergedWasProved'
    BY <1>1, <1>3, <1>5 DEF history, MergedWasProved
  <1>7. ProcessFits' /\ PushedIsProved'
    BY <1>1, <1>3, <1>4, NoWorkType DEF ProcessFits, PushedIsProved, Publishing
  <1>8. \A f \in Recoveries : executed'[f] <= records'[f]
    <2> SUFFICES ASSUME NEW f \in Recoveries PROVE executed[f] <= records'[f]
      BY <1>1 DEF history
    <2>1. executed[f] <= records[f] /\ records[f] <= records'[f] /\ executed[f] \in Nat
          /\ records[f] \in Nat /\ records'[f] \in Nat
      BY <1>5 DEF AttemptsAreRecorded
    <2> QED BY <2>1
  <1>9. \A k \in Nat, f \in Recoveries : <<"recovery", k, f>> \in branches' => k <= records'[f]
    <2> SUFFICES ASSUME NEW k \in Nat, NEW f \in Recoveries, <<"recovery", k, f>> \in branches
                 PROVE  k <= records'[f]
      BY <1>1
    <2>1. k <= records[f] /\ records[f] <= records'[f] /\ records[f] \in Nat /\ records'[f] \in Nat
      BY <1>5 DEF AttemptsAreRecorded
    <2> QED BY <2>1
  <1>10. executed'[Here'] < records'[Here']
    <2>1. executed[Here] <= records[Here] /\ executed[Here] \in Nat /\ records[Here] \in Nat
      BY <1>1 DEF AttemptsAreRecorded
    <2> QED BY <1>1, <1>4, <1>5, <2>1 DEF history
  <1>11. <<"recovery", proc'.attempt, Here'>> \notin branches'
    <2>1. records[Here] \in Nat /\ proc.attempt \in Nat
      BY <1>1 DEF Processes
    <2>2. <<"recovery", proc.attempt, Here>> \in branches => proc.attempt <= records[Here]
      BY <1>1, <2>1 DEF AttemptsAreRecorded
    <2>3. <<"recovery", proc.attempt, Here>> \notin branches
      BY <1>2, <2>1, <2>2
    <2> QED BY <1>1, <1>3, <1>4, <2>3
  <1>12. AttemptsAreRecorded'
    BY <1>2, <1>3, <1>4, <1>5, <1>8, <1>9, <1>10, <1>11 DEF AttemptsAreRecorded
  <1> QED BY <1>6, <1>7, <1>12

\* An attempt is made: the failure has one attempt on disk more than it has made.
LEMMA ExecuteInv ==
    ASSUME ProductInv, Execute
    PROVE  ProductInv'
  <1> USE DEF ProductInv, ProductTypes
  <1>1. /\ UNCHANGED <<root, origin, files, merged, deaths>> /\ work = NoWork /\ proc.pc = "execute"
        /\ Here \in Recoveries /\ executed' = [executed EXCEPT ![Here] = @ + 1]
    BY DEF Execute, ProcessFits, Publishing, Here, Recoveries
  <1>2. /\ proc.attempt = records[Here] /\ executed[Here] < records[Here]
        /\ <<"recovery", proc.attempt, Here>> \notin branches
    BY <1>1 DEF AttemptsAreRecorded
  <1>3. executed' \in [Recoveries -> Nat]
    BY <1>1
  <1>4. \A f \in Recoveries : executed'[f] <= records[f]
    <2> SUFFICES ASSUME NEW f \in Recoveries PROVE executed'[f] <= records[f]
      OBVIOUS
    <2>1. executed[f] <= records[f] /\ executed[f] \in Nat /\ records[f] \in Nat
      BY DEF AttemptsAreRecorded
    <2>2. executed'[f] = IF f = Here THEN executed[f] + 1 ELSE executed[f]
      BY <1>1
    <2> QED BY <1>2, <2>1, <2>2
  <1>5. MergedWasProved'
    BY <1>1 DEF MergedWasProved
  <1>6. CASE /\ proc' \in Processes /\ proc'.pc \in {"cli", "outer", "recovered"} /\ work' = NoWork
             /\ proc'.pc # "recovered" => proc'.code \in Codes
    <2>1. ProductTypes'
      BY <1>1, <1>3, <1>6, NoWorkType DEF files
    <2>2. ProcessFits' /\ PushedIsProved'
      BY <1>6, NoWorkType DEF ProcessFits, PushedIsProved, Publishing
    <2>3. AttemptsAreRecorded'
      BY <1>1, <1>4, <1>6 DEF AttemptsAreRecorded, files
    <2> QED BY <1>5, <2>1, <2>2, <2>3
  <1>7. CASE Onward("recovered") /\ UNCHANGED work
    <2>1. proc' \in Processes /\ proc'.pc = "recovered"
      BY <1>7, Onwards DEF Resting
    <2> QED BY <1>1, <1>6, <1>7, <2>1
  <1>8. CASE ThrowOut("REPAIRABLE") /\ UNCHANGED work
    <2>1. proc' \in Processes /\ proc'.pc \in {"cli", "outer"} /\ proc'.code \in Codes
      BY <1>8, Throws DEF Codes
    <2> QED BY <1>1, <1>6, <1>8, <2>1
  <1>9. CASE /\ Onward("branch")
             /\ work' = [NoWork EXCEPT !.kind = "recovery", !.name = <<"recovery", proc.attempt, Here>>]
    <2>1. proc' \in Processes /\ proc'.pc = "branch"
      BY <1>9, Onwards DEF Publishing
    <2>2. <<"recovery", proc.attempt, Here>> \in RecoveryNames
      BY <1>1 DEF RecoveryNames, Processes
    <2>3. work' \in Works /\ work'.kind = "recovery" /\ work'.name = <<"recovery", proc.attempt, Here>>
      BY <1>9, <2>2, NoWorkType DEF Works, Names
    <2>4. ProductTypes'
      BY <1>1, <1>3, <2>1, <2>3 DEF files
    <2>5. ProcessFits' /\ PushedIsProved'
      BY <2>1, <2>3 DEF ProcessFits, PushedIsProved, Publishing
    <2>6. work'.name \notin branches' /\ \E f \in Recoveries : work'.name = <<"recovery", records'[f], f>>
      BY <1>1, <1>2, <2>3 DEF files
    <2>7. AttemptsAreRecorded'
      BY <1>1, <1>4, <2>1, <2>3, <2>6 DEF AttemptsAreRecorded, files
    <2> QED BY <1>5, <2>4, <2>5, <2>7
  <1>10. proc.action \in Actions
    BY <1>1 DEF ProcessFits
  <1> QED BY <1>7, <1>8, <1>9, <1>10 DEF Execute, Actions, Here

LEMMA EscalateInv ==
    ASSUME ProductInv, Escalate
    PROVE  ProductInv'
  <1> USE DEF ProductInv, ProductTypes
  <1>1. /\ UNCHANGED <<root, origin, branches, records, maintained, history>> /\ work' = work /\ work = NoWork
        /\ proc.pc = "cli" /\ proc.code \in Codes
    BY DEF Escalate, ProcessFits, Publishing
  <1>2. MergedWasProved'
    BY <1>1 DEF MergedWasProved, history
  <1>3. ASSUME proc' \in Processes, proc'.pc \in {"outer", "factory"}, proc'.code \in Codes \/ proc'.pc = "factory",
               escalations' \in [Escalations -> 0..(MaxTask + MaxDegraded)]
        PROVE  ProductInv'
    BY <1>1, <1>2, <1>3, ToRest DEF Resting, history
  <1>4. CASE ~Escalatable(proc.code) /\ Onward("outer") /\ UNCHANGED escalations
    <2>1. proc' \in Processes /\ proc'.pc = "outer" /\ proc'.code = proc.code
      BY <1>4, Onwards DEF Resting
    <2> QED BY <1>1, <1>3, <1>4, <2>1
  <1>5. CASE Escalatable(proc.code)
    <2> DEFINE stageAt(t) == StageOf(escalations[<<Here, t>>] + 1, t)
               outer == [proc EXCEPT !.pc = "outer", !.code = "REPAIRABLE"]
               again == [Started(proc.gen) EXCEPT !.pc = "factory"]
               degraded == [Started(proc.gen) EXCEPT !.pc = "factory", !.level = "degraded"]
    <2>1. PICK t \in Targets :
            /\ escalations' = IF stageAt(t) = "EXHAUSTED" THEN escalations
                              ELSE [escalations EXCEPT ![<<Here, t>>] = @ + 1]
            /\ proc' \in CASE stageAt(t) = "EXHAUSTED" -> {outer}
                           [] stageAt(t) = "TASK_FALLBACK" -> {outer, again}
                           [] stageAt(t) = "DEGRADED_RECOVERY" -> {outer, degraded}
      BY <1>1, <1>5, Zenon DEF Escalate, Here
    <2>2. <<Here, t>> \in Escalations
      BY <1>1, <1>5 DEF Escalations, Here
    <2>3. /\ stageAt(t) \in {"EXHAUSTED", "TASK_FALLBACK", "DEGRADED_RECOVERY"}
          /\ stageAt(t) # "EXHAUSTED" => escalations[<<Here, t>>] + 1 <= MaxTask + MaxDegraded
      <3>1. escalations[<<Here, t>>] \in Nat
        BY <2>2, ProductBounds
      <3> QED BY <3>1, ProductBounds DEF StageOf
    <2>4. /\ outer \in Processes /\ outer.pc = "outer" /\ outer.code \in Codes
      BY DEF Processes, Resting, Codes
    <2>5. Started(proc.gen) \in Processes
      BY StartedType DEF Processes
    <2>6. again \in Processes /\ again.pc = "factory" /\ degraded \in Processes /\ degraded.pc = "factory"
      BY <2>5 DEF Processes, Resting
    <2>7. escalations' \in [Escalations -> 0..(MaxTask + MaxDegraded)]
      <3>1. CASE stageAt(t) = "EXHAUSTED"
        BY <2>1, <3>1
      <3>2. CASE stageAt(t) # "EXHAUSTED"
        <4>1. escalations[<<Here, t>>] + 1 \in 0..(MaxTask + MaxDegraded)
          BY <2>2, <2>3, <3>2, ProductBounds
        <4>2. escalations' = [escalations EXCEPT ![<<Here, t>>] = escalations[<<Here, t>>] + 1]
          BY <2>1, <3>2
        <4> QED BY <4>1, <4>2
      <3> QED BY <3>1, <3>2
    <2> HIDE DEF stageAt, outer, again, degraded
    <2>8. proc' \in {outer, again, degraded}
      BY <2>1, <2>3
    <2> QED BY <1>3, <2>4, <2>6, <2>7, <2>8
  <1> QED BY <1>1, <1>4, <1>5 DEF Escalate

LEMMA MaintainInv ==
    ASSUME ProductInv, Maintain
    PROVE  ProductInv'
  <1> USE DEF ProductInv, ProductTypes
  <1>1. /\ UNCHANGED <<root, origin, branches, records, escalations, history>> /\ work = NoWork
        /\ proc.pc = "outer" /\ proc.code \in Codes
    BY DEF Maintain, ProcessFits, Publishing
  <1>2. MergedWasProved'
    BY <1>1 DEF MergedWasProved, history
  <1>3. maintained' \in [Maintenances -> 0..MaxAttempts]
    <2>1. CASE UNCHANGED maintained
      BY <2>1
    <2>2. CASE Maintainable(proc.code) /\ RecordMaintenance(Here)
      <3>1. Here \in Maintenances /\ maintained[Here] < MaxAttempts
        BY <1>1, <2>2 DEF Here, Maintenances, RecordMaintenance
      <3>2. maintained[Here] + 1 \in 0..MaxAttempts
        BY <3>1, ProductBounds
      <3> QED BY <2>2, <3>2 DEF RecordMaintenance
    <2> QED BY <2>1, <2>2 DEF Maintain, Here
  <1>4. CASE Exit /\ UNCHANGED work
    <2>1. proc' \in Processes /\ proc'.pc = "exit"
      BY <1>4, Exits
    <2> QED BY <1>1, <1>2, <1>3, <1>4, <2>1, ToRest DEF Resting, history
  <1>5. CASE proc.gen < MaxGen /\ Onward("patch") /\ work' = [NoWork EXCEPT !.kind = "maintenance"]
    <2>1. /\ proc' \in Processes /\ proc'.pc = "patch" /\ proc'.round = proc.round /\ proc'.gen = proc.gen
      BY <1>5, Onwards DEF Publishing
    <2>2. work' \in Works /\ work'.kind = "maintenance"
      BY <1>5, NoWorkType DEF Works
    <2>3. proc'.pc \in Publishing \ {"branch"} /\ PushedIsProved'
      BY <2>1 DEF Publishing, PushedIsProved
    <2>4. UNCHANGED <<executed, deaths>>
      BY <1>1 DEF history
    <2> QED BY <1>1, <1>2, <1>3, <1>5, <2>1, <2>2, <2>3, <2>4, ToPublish
  <1> QED BY <1>4, <1>5 DEF Maintain

LEMMA ProductKeeps == ProductInv /\ [ProductNext]_productVars => ProductInv'
  <1> SUFFICES ASSUME ProductInv, [ProductNext]_productVars PROVE ProductInv'
    OBVIOUS
  <1>1. CASE UNCHANGED productVars
    BY <1>1 DEF productVars, ProductInv, ProductTypes, ProcessFits, PushedIsProved, AttemptsAreRecorded,
                Here, MergedWasProved
  <1>2. CASE ProductNext
    BY <1>2, StartInv, AuditProductInv, BranchInv, PatchInv, WaitInv, LandInv, SuperviseInv, RecordAttemptInv,
       ExecuteInv, EscalateInv, MaintainInv DEF ProductNext, Factory
  <1> QED BY <1>1, <1>2

\* Every run of the product factory keeps the inductive invariant.
THEOREM ProductInvariant == ProductSpec => []ProductInv
  BY ProductInitially, ProductKeeps, PTL DEF ProductSpec

LEMMA ProductInvTypes == ProductInv => ProductTypeOK
  <1> SUFFICES ASSUME ProductInv PROVE ProductTypeOK
    OBVIOUS
  <1> USE DEF ProductInv, ProductTypes
  <1>1. /\ \A f \in Recoveries : records[f] \in 0..MaxAttempts
        /\ \A f \in Maintenances : maintained[f] \in 0..MaxAttempts
        /\ \A f \in Escalations : escalations[f] \in 0..(MaxTask + MaxDegraded)
    OBVIOUS
  <1>2. /\ proc.gen \in 0..MaxGen /\ proc.round \in 0..MaxRounds /\ proc.recovered \in 0..MaxGlobal
        /\ proc.code \in Codes \cup {"none"}
        /\ work.round \in 0..MaxPatch /\ work.review \in 0..MaxPatch /\ work.ci \in 0..MaxCi
    BY DEF Processes, Works
  <1> QED BY <1>1, <1>2, ProductBounds DEF ProductTypeOK

\* The counters of the process and of the three attempt files stay within
\* their limits, and the root worktree never runs ahead of main.
THEOREM ProductTypeCorrect == ProductSpec => []ProductTypeOK
  BY ProductInvTypes, ProductInvariant, PTL

LEMMA InvRecoveriesCounted == ProductInv => RecoveriesAreCounted
  <1> SUFFICES ASSUME ProductInv PROVE RecoveriesAreCounted
    OBVIOUS
  <1>1. ASSUME NEW f \in Recoveries PROVE executed[f] <= MaxAttempts
    <2>1. executed[f] \in Nat /\ records[f] \in 0..MaxAttempts /\ executed[f] <= records[f]
      BY DEF ProductInv, ProductTypes, AttemptsAreRecorded
    <2> QED BY <2>1, ProductBounds
  <1> QED BY <1>1 DEF RecoveriesAreCounted, ProductInv, AttemptsAreRecorded

\* No failure is recovered from more often than its budget at one commit,
\* and no recovery finds its branch taken, whatever the process dies of and
\* however often it is started anew.
THEOREM RecoveriesStayCounted == ProductSpec => []RecoveriesAreCounted
  BY InvRecoveriesCounted, ProductInvariant, PTL

\* What the factory merges passed the full checks as it was pushed, and
\* maintenance also the review, after any number of repairs.
THEOREM MergedStaysProved == ProductSpec => []MergedWasProved
  <1>1. ProductInv => MergedWasProved
    BY DEF ProductInv
  <1> QED BY <1>1, ProductInvariant, PTL

-----------------------------------------------------------------------------
(* The five parts side by side, as the runs explore them.  The part         *)
(* `retries` is the product factory once more, with other bounds: the       *)
(* theorems on ProductFactory speak of it, as they hold for all bounds.     *)

LEMMA ToolTypesInitially == ToolInit => ToolTypeOK
  <1>1. 0 \in 0..MaxTime + Ttl /\ 0 \in 0..MaxTime
    BY ToolAssumption
  <1> QED BY <1>1 DEF ToolInit, ToolTypeOK, Places, NoAnswer

LEMMA ToolTypesKept ==
    ASSUME ToolTypeOK, [ToolNext]_toolVars
    PROVE  ToolTypeOK'
  <1> USE DEF ToolTypeOK
  <1>1. CASE UNCHANGED toolVars
    BY <1>1 DEF toolVars
  <1>2. CASE Tick
    BY <1>2, ToolAssumption DEF Tick
  <1>3. ASSUME NEW c \in Calls, Lookup(c) PROVE ToolTypeOK'
    <2>1. now + Ttl \in 0..MaxTime + Ttl
      BY ToolAssumption
    <2>2. /\ (IF cache.until > now THEN "hit" ELSE "looked") \in Places
          /\ (IF cache.until > now THEN cache.value ELSE NoCall) \in Calls \cup {NoCall}
      BY DEF Places
    <2> QED BY <1>3, <2>1, <2>2 DEF Lookup, Proceed
  <1>4. ASSUME NEW c \in Calls, Join(c) \/ Lead(c) \/ Load(c) \/ Stored(c) \/ Reject(c) PROVE ToolTypeOK'
    BY <1>4 DEF Join, Lead, Load, Stored, Reject, Proceed, Places, Leading
  <1>5. ASSUME NEW c \in Calls, NEW kind \in {"cached", "loaded", "error"}, Answer(c, kind)
        PROVE  place' \in [Calls -> Places] /\ answer' \in [Calls -> [kind : {"none", "cached", "loaded", "error"},
                                                                       dated : Calls \cup {NoCall}]]
    BY <1>5 DEF Answer, Proceed, Places
  <1>6. ASSUME NEW c \in Calls, ReturnHit(c) \/ Settle(c) PROVE ToolTypeOK'
    BY <1>5, <1>6 DEF ReturnHit, Settle, StillFlying
  <1>7. ASSUME NEW c \in Calls, Follow(c) PROVE ToolTypeOK'
    <2>1. CASE Proceed(c, "hit") /\ looked' = [looked EXCEPT ![c] = leader[c]] /\ UNCHANGED answer
      BY <1>7, <2>1 DEF Follow, Proceed, Places
    <2>2. CASE Answer(c, "error") /\ UNCHANGED looked
      BY <1>5, <1>7, <2>2 DEF Follow
    <2> QED BY <1>7, <2>1, <2>2 DEF Follow
  <1> QED BY <1>1, <1>2, <1>3, <1>4, <1>6, <1>7 DEF ToolNext, Resume

PartsInv ==
    /\ active \in Parts
    /\ IInv /\ ToolTypeOK /\ FlightInv /\ RunInv /\ MilestoneInv /\ ProductInv

LEMMA PartsInitially ==
    ASSUME "retries" \notin Parts, MCInit
    PROVE  PartsInv
  <1>1. active \in Parts /\ Init /\ ToolInit /\ MilestoneInit
    BY DEF MCInit
  <1>2. RunInv
    <2>1. AgentInit \/ AgentIdle
      BY DEF MCInit
    <2> QED BY <2>1, RunInitially DEF AgentIdle
  <1>3. ProductInit
    BY DEF MCInit, ProductIdle
  <1> QED BY <1>1, <1>2, <1>3, InitHolds, ToolTypesInitially, InitFlight, MilestoneInitially,
             ProductInitially DEF PartsInv

\* A step is one of the active part, and the others stutter.
LEMMA PartSteps ==
    ASSUME "retries" \notin Parts, active \in Parts, [MCNext]_allVars
    PROVE  /\ active' = active
           /\ [Next]_vars /\ [ToolNext]_toolVars /\ [AgentNext]_agentVars
           /\ [MilestoneNext]_milestoneVars /\ [ProductNext]_productVars
  BY DEF MCNext, allVars, ToolStep, AgentStep, FactoryStep, ProductStep

LEMMA PartsKeep ==
    ASSUME "retries" \notin Parts, PartsInv, [MCNext]_allVars
    PROVE  PartsInv'
  <1>1. /\ active' = active
        /\ [Next]_vars /\ [ToolNext]_toolVars /\ [AgentNext]_agentVars
        /\ [MilestoneNext]_milestoneVars /\ [ProductNext]_productVars
    BY PartSteps DEF PartsInv
  <1>2. IInv' /\ ToolTypeOK'
    BY <1>1, NextKeeps, ToolTypesKept DEF PartsInv
  <1>3. FlightInv' /\ RunInv'
    BY <1>1, FlightStays, RunKeeps DEF PartsInv
  <1>4. MilestoneInv' /\ ProductInv'
    BY <1>1, MilestoneStep, ProductKeeps DEF PartsInv
  <1> QED BY <1>1, <1>2, <1>3, <1>4 DEF PartsInv

\* The type invariants of the five parts, for all values of their constants.
THEOREM PartsAreTyped ==
    ASSUME "retries" \notin Parts
    PROVE  MCSpec => []PartTypeOK
  <1>1. PartsInv => PartTypeOK
    BY MilestoneInvTypes, ProductInvTypes DEF PartsInv, PartTypeOK, IInv, RunInv
  <1> QED BY <1>1, PartsInitially, PartsKeep, PTL DEF MCSpec

\* The budgets of the five parts, for all values of their constants: agent runs
\* and their plans, the quota of a key, planner calls, recoveries.
THEOREM BudgetsStayKept ==
    ASSUME "retries" \notin Parts
    PROVE  MCSpec => []BudgetsAreKept
  <1>1. PartsInv => BudgetsAreKept
    <2> SUFFICES ASSUME PartsInv PROVE BudgetsAreKept
      OBVIOUS
    <2>1. PlanFitsBudget /\ CallsWithinBudget
      BY DEF PartsInv, RunInv, ChargesFit, CallsWithinBudget
    <2>2. OneFlight /\ PlannerCallsAreBounded
      BY DEF PartsInv, FlightInv, MilestoneInv, CallsAreUsage
    <2>3. RecoveriesAreCounted /\ active # "retries"
      BY InvRecoveriesCounted DEF PartsInv
    <2> QED BY <2>1, <2>2, <2>3 DEF BudgetsAreKept
  <1> QED BY <1>1, PartsInitially, PartsKeep, PTL DEF MCSpec

\* Both factories' work, for all values of their constants: packages stay in the
\* plan of their milestone, a milestone that was left was settled, and what the
\* product factory merged was proved.
THEOREM FactoryWorkStaysSound ==
    ASSUME "retries" \notin Parts
    PROVE  MCSpec => FactoryWorkIsSound
  <1>1. ASSUME PartsInv, PartsInv', [MCNext]_allVars
        PROVE  KeepsDurableWork /\ LeftMilestoneIsSettled' /\ MergedWasProved'
    <2>1. MilestoneInv /\ [MilestoneNext]_milestoneVars
      BY <1>1, PartSteps DEF PartsInv
    <2>2. KeepsDurableWork
      BY <2>1, DurableStays
    <2> QED BY <1>1, <2>2 DEF PartsInv, MilestoneInv, ProductInv
  <1> QED BY <1>1, PartsInitially, PartsKeep, PTL DEF MCSpec, FactoryWorkIsSound
=============================================================================
