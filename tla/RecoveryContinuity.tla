------------------------- MODULE RecoveryContinuity -------------------------
(***************************************************************************)
(* Backups, legal holds, restore drills, degraded mode and the             *)
(* reconciliation after a recovery (workflow-runtime,                      *)
(* recovery-continuity.ts).  Nothing runs in a transaction: every action   *)
(* is one SQL statement of one caller, callers interleave, and a caller    *)
(* may die after any statement.  A row of backup_audit_log is known by its *)
(* position; prev is the position its previous_hash names, 0 for null.     *)
(***************************************************************************)
EXTENDS Naturals, Sequences, FiniteSets

CONSTANTS Callers, Backups, Drills,
          Recovery,    \* the fixed id degraded-recon-<recoveryId>
          NoSubject,   \* an audit row not yet about anything
          MaxOps       \* bound: operations called

VARIABLES log,        \* backup_audit_log
          versions,   \* backup_retention_policies: versions of the tier
          backups,    \* backup_records: none, kept, expired or deleted
          holds,      \* backup_legal_holds: backups with an active hold
          drills,     \* restore_drills: status
          modes,      \* degraded_mode_state: none, active or restored, by id
          recon,      \* recovery_reconciliation_state of the recovery
          at, loc,    \* per caller: the next statement, and what it carries
          begun       \* operations called so far

vars == <<log, versions, backups, holds, drills, modes, recon, at, loc, begun>>

Nothing == [act |-> "none", sub |-> NoSubject, tail |-> 0, then |-> "idle", rows |-> {}]

Init ==
    /\ log = <<>> /\ versions = {} /\ backups = [b \in Backups |-> "none"] /\ holds = {}
    /\ drills = [d \in Drills |-> "none"]
    /\ modes = [m \in Drills \cup {Recovery} |-> "none"]
    /\ recon = [exists |-> FALSE, resumed |-> FALSE, degraded |-> FALSE]
    /\ at = [c \in Callers |-> "idle"] /\ loc = [c \in Callers |-> Nothing]
    /\ begun = 0

Idle(c) == at[c] = "idle" /\ begun < MaxOps
Goto(c, label) == /\ at' = [at EXCEPT ![c] = label]
                  /\ begun' = IF at[c] = "idle" THEN begun + 1 ELSE begun
Carry(c, l) == loc' = [loc EXCEPT ![c] = l]
Return(c) == Goto(c, "idle") /\ Carry(c, Nothing)
(* The statement just made is followed by appendBackupAudit.               *)
Audit(c, act, sub, then, rows) ==
    /\ Goto(c, "tail")
    /\ Carry(c, [act |-> act, sub |-> sub, tail |-> 0, then |-> then, rows |-> rows])

----------------------------------------------------------------------------
(* appendBackupAudit: a row no other row follows is the tail; with several *)
(* of them LIMIT 1 takes any.                                              *)
Tails == {i \in DOMAIN log : \A j \in DOMAIN log : log[j].prev # i}
SelectTail(c) ==
    /\ at[c] = "tail"
    /\ \E t \in IF Tails = {} THEN {0} ELSE Tails : Carry(c, [loc[c] EXCEPT !.tail = t])
    /\ Goto(c, "append")
    /\ UNCHANGED <<log, versions, backups, holds, drills, modes, recon>>
AuditRow(c) == [prev |-> loc[c].tail, act |-> loc[c].act, sub |-> loc[c].sub]
InsertAudit(c) ==
    /\ at[c] = "append"
    /\ log' = Append(log, AuditRow(c))
    /\ Goto(c, loc[c].then)
    /\ Carry(c, IF loc[c].then = "idle" THEN Nothing ELSE loc[c])
    /\ UNCHANGED <<versions, backups, holds, drills, modes, recon>>

\* Mutant: only the last link is verified.
UnforkedSuffix == Len(log) < 2 \/ log[Len(log)].prev = Len(log) - 1

(* verifyBackupAuditChain: no two rows follow the same one, there is a     *)
(* root, and the walk from it reaches every row.                           *)
Unforked == \A i, j \in DOMAIN log : log[i].prev = log[j].prev => i = j
Reached[i \in DOMAIN log] == log[i].prev = 0 \/ Reached[log[i].prev]
ChainValid ==
    /\ Unforked
    /\ log # <<>> => \E i \in DOMAIN log : log[i].prev = 0
    /\ \A i \in DOMAIN log : Reached[i]

----------------------------------------------------------------------------
(* createRetentionPolicy: MAX(version) + 1, unique per tier.               *)
CreateRetentionPolicy(c) ==
    /\ Idle(c) /\ Cardinality(versions) < 2
    /\ Goto(c, "policy") /\ Carry(c, [Nothing EXCEPT !.tail = Cardinality(versions) + 1])
    /\ UNCHANGED <<log, versions, backups, holds, drills, modes, recon>>
InsertPolicy(c) ==
    /\ at[c] = "policy"
    /\ \/ loc[c].tail \in versions /\ Return(c) /\ UNCHANGED versions
       \/ /\ loc[c].tail \notin versions /\ versions' = versions \cup {loc[c].tail}
          /\ Audit(c, "RETENTION_CREATED", loc[c].tail, "idle", {})
    /\ UNCHANGED <<log, backups, holds, drills, modes, recon>>

CreateBackupRecord(c, b) ==
    /\ Idle(c) /\ versions # {} /\ backups[b] = "none"
    /\ backups' = [backups EXCEPT ![b] = "kept"]
    /\ Audit(c, "BACKUP_CREATED", b, "idle", {})
    /\ UNCHANGED <<log, versions, holds, drills, modes, recon>>
Expire(b) ==
    /\ backups[b] = "kept" /\ backups' = [backups EXCEPT ![b] = "expired"]
    /\ UNCHANGED <<log, versions, holds, drills, modes, recon, at, loc, begun>>

(* enforceRetentionAndDelete: the expired rows, then for each the active   *)
(* holds, the UPDATE and its audit.                                        *)
SelectExpired(c) ==
    /\ Idle(c) /\ \E b \in Backups : backups[b] = "expired"
    /\ Goto(c, "sweep") /\ Carry(c, [Nothing EXCEPT !.rows = {b \in Backups : backups[b] = "expired"}])
    /\ UNCHANGED <<log, versions, backups, holds, drills, modes, recon>>
SelectHolds(c) ==
    /\ at[c] = "sweep"
    /\ \/ loc[c].rows = {} /\ Return(c)
       \/ \E b \in loc[c].rows :
             IF b \in holds THEN Goto(c, "sweep") /\ Carry(c, [loc[c] EXCEPT !.rows = @ \ {b}])
             ELSE Goto(c, "delete") /\ Carry(c, [loc[c] EXCEPT !.rows = @ \ {b}, !.sub = b])
    /\ UNCHANGED <<log, versions, backups, holds, drills, modes, recon>>
\* Mutant: the deletion is audited before it is made.
AuditThenDelete(c) ==
    /\ at[c] = "delete" /\ Audit(c, "BACKUP_DELETED", loc[c].sub, "sweep", loc[c].rows)
    /\ UNCHANGED <<log, versions, backups, holds, drills, modes, recon>>
DeleteBackup(c) ==
    /\ at[c] = "delete"
    /\ backups' = [backups EXCEPT ![loc[c].sub] = "deleted"]
    /\ Audit(c, "BACKUP_DELETED", loc[c].sub, "sweep", loc[c].rows)
    /\ UNCHANGED <<log, versions, holds, drills, modes, recon>>

CreateLegalHold(c, b) ==
    /\ Idle(c) /\ backups[b] # "none" /\ b \notin holds
    /\ holds' = holds \cup {b} /\ Audit(c, "LEGAL_HOLD_CREATED", b, "idle", {})
    /\ UNCHANGED <<log, versions, backups, drills, modes, recon>>
ReleaseLegalHold(c, b) ==
    /\ Idle(c) /\ b \in holds
    /\ holds' = holds \ {b} /\ Audit(c, "LEGAL_HOLD_RELEASED", b, "idle", {})
    /\ UNCHANGED <<log, versions, backups, drills, modes, recon>>
RequestRestoreAccess(c, b) ==
    /\ Idle(c) /\ backups[b] \in {"kept", "expired"}
    /\ \E act \in {"RESTORE_GRANTED", "RESTORE_DENIED"} : Audit(c, act, b, "idle", {})
    /\ UNCHANGED <<log, versions, backups, holds, drills, modes, recon>>

----------------------------------------------------------------------------
(* enterDegradedMode raises when the id is taken; exitDegradedMode reads   *)
(* the active rows of a tier and restores them one by one.                 *)
EnterDegradedMode(c) ==
    /\ at[c] = "degrade"
    /\ IF modes[loc[c].sub] # "none" THEN Return(c) /\ UNCHANGED modes
       ELSE /\ modes' = [modes EXCEPT ![loc[c].sub] = "active"]
            /\ Audit(c, "DEGRADED_ENTERED", loc[c].sub, "idle", {})
    /\ UNCHANGED <<log, versions, backups, holds, drills, recon>>
SelectDegraded(c) ==
    /\ Idle(c)
    /\ \E ofTier \in SUBSET {m \in DOMAIN modes : modes[m] = "active"} :
          ofTier # {} /\ Goto(c, "restore") /\ Carry(c, [Nothing EXCEPT !.rows = ofTier])
    /\ UNCHANGED <<log, versions, backups, holds, drills, modes, recon>>
ExitDegradedMode(c) ==
    /\ at[c] = "restore"
    /\ \E m \in loc[c].rows :
          /\ modes' = [modes EXCEPT ![m] = "restored"]
          /\ IF loc[c].rows = {m} THEN Audit(c, "DEGRADED_EXITED", m, "idle", {})
             ELSE Goto(c, "restore") /\ Carry(c, [loc[c] EXCEPT !.rows = @ \ {m}])
    /\ UNCHANGED <<log, versions, backups, holds, drills, recon>>

(* runDestructiveRestoreDrill: a missing backup raises with the drill left *)
(* RUNNING; the chain is read, other checks and the time follow, then the  *)
(* UPDATE; a missed target enters degraded mode after the verdict.         *)
StartDrill(c, d) ==
    /\ Idle(c) /\ drills[d] = "none"
    /\ drills' = [drills EXCEPT ![d] = "RUNNING"]
    /\ Audit(c, "DRILL_STARTED", d, "drill", {})
    /\ UNCHANGED <<log, versions, backups, holds, modes, recon>>
VerifyDrill(c) ==
    /\ at[c] = "drill"
    /\ \/ \E b \in Backups : backups[b] = "none" /\ Return(c)
       \/ /\ \E b \in Backups : backups[b] # "none"
          /\ Goto(c, "conclude")
          /\ Carry(c, [loc[c] EXCEPT !.act = IF ChainValid THEN "sound" ELSE "unsound"])
    /\ UNCHANGED <<log, versions, backups, holds, drills, modes, recon>>
ConcludeDrill(c) ==
    /\ at[c] = "conclude"
    /\ \E ok, onTarget \in BOOLEAN :
          /\ drills' = [drills EXCEPT ![loc[c].sub] =
                           IF loc[c].act = "sound" /\ ok /\ onTarget THEN "PASSED" ELSE "FAILED"]
          /\ Audit(c, "DRILL_COMPLETED", loc[c].sub, IF onTarget THEN "idle" ELSE "degrade", {})
    /\ UNCHANGED <<log, versions, backups, holds, modes, recon>>

(* reconcileAfterRecovery: the row is looked up first; the other domains   *)
(* pass or fail as a whole (sound or not); the chain decides between       *)
(* resumed and degraded.  The INSERT raises when another caller has        *)
(* inserted the row meanwhile.                                             *)
SelectRecon(c) ==
    /\ Idle(c)
    /\ Goto(c, "domains") /\ Carry(c, [Nothing EXCEPT !.rows = IF recon.exists THEN {"row"} ELSE {}])
    /\ UNCHANGED <<log, versions, backups, holds, drills, modes, recon>>
VerifyDomains(c) ==
    /\ at[c] = "domains" /\ Goto(c, "verify")
    /\ \E verdict \in {"sound", "unsound"} : Carry(c, [loc[c] EXCEPT !.act = verdict])
    /\ UNCHANGED <<log, versions, backups, holds, drills, modes, recon>>
VerifyRecon(c) ==
    /\ at[c] = "verify" /\ Goto(c, "save")
    /\ \E artifacts \in BOOLEAN :
          Carry(c, [loc[c] EXCEPT !.act = CASE ~(artifacts /\ ChainValid) -> "degraded"
                                            [] artifacts /\ ChainValid /\ @ = "sound" -> "resumed"
                                            [] OTHER -> "unsound"])
    /\ UNCHANGED <<log, versions, backups, holds, drills, modes, recon>>
SaveRecon(c) ==
    /\ at[c] = "save"
    /\ IF loc[c].rows = {} /\ recon.exists THEN Return(c) /\ UNCHANGED recon
       ELSE /\ recon' = [exists |-> TRUE, resumed |-> loc[c].act = "resumed", degraded |-> loc[c].act = "degraded"]
            /\ CASE loc[c].act = "resumed" -> Audit(c, "RECONCILIATION_COMPLETED", Recovery, "idle", {})
                 [] loc[c].act = "degraded" -> Goto(c, "degrade") /\ Carry(c, [Nothing EXCEPT !.sub = Recovery])
                 [] OTHER -> Return(c)
    /\ UNCHANGED <<log, versions, backups, holds, drills, modes>>

Crash(c) ==
    /\ at[c] # "idle" /\ Return(c)
    /\ UNCHANGED <<log, versions, backups, holds, drills, modes, recon>>

Step(c) ==
    \/ SelectTail(c) \/ InsertAudit(c) \/ CreateRetentionPolicy(c) \/ InsertPolicy(c)
    \/ SelectExpired(c) \/ SelectHolds(c) \/ DeleteBackup(c) \/ EnterDegradedMode(c)
    \/ SelectDegraded(c) \/ ExitDegradedMode(c) \/ VerifyDrill(c) \/ ConcludeDrill(c)
    \/ SelectRecon(c) \/ VerifyDomains(c) \/ VerifyRecon(c) \/ SaveRecon(c) \/ Crash(c)
    \/ \E b \in Backups : CreateBackupRecord(c, b) \/ CreateLegalHold(c, b) \/ ReleaseLegalHold(c, b)
                          \/ RequestRestoreAccess(c, b)
    \/ \E d \in Drills : StartDrill(c, d)
Next == (\E c \in Callers : Step(c)) \/ \E b \in Backups : Expire(b)
Spec == Init /\ [][Next]_vars

----------------------------------------------------------------------------
Labels == {"idle", "tail", "append", "policy", "sweep", "delete", "degrade", "restore", "drill",
           "conclude", "domains", "verify", "save"}
Subjects == Backups \cup Drills \cup {Recovery, NoSubject} \cup 1..2
Acts == {"none", "RETENTION_CREATED", "BACKUP_CREATED", "BACKUP_DELETED", "LEGAL_HOLD_CREATED",
         "LEGAL_HOLD_RELEASED", "RESTORE_GRANTED", "RESTORE_DENIED", "DEGRADED_ENTERED",
         "DEGRADED_EXITED", "DRILL_STARTED", "DRILL_COMPLETED", "RECONCILIATION_COMPLETED",
         "sound", "unsound", "degraded", "resumed"}
Carried == [act : Acts, sub : Subjects, tail : Nat, then : Labels,
            rows : SUBSET (Backups \cup Drills \cup {Recovery, "row"})]
Row == [prev : Nat, act : Acts, sub : Subjects]
TypeOK ==
    /\ log \in Seq(Row) /\ \A i \in DOMAIN log : log[i].prev < i
    /\ versions \subseteq 1..2 /\ holds \subseteq Backups
    /\ backups \in [Backups -> {"none", "kept", "expired", "deleted"}]
    /\ drills \in [Drills -> {"none", "RUNNING", "PASSED", "FAILED"}]
    /\ modes \in [Drills \cup {Recovery} -> {"none", "active", "restored"}]
    /\ recon \in [exists : BOOLEAN, resumed : BOOLEAN, degraded : BOOLEAN]
    /\ at \in [Callers -> Labels] /\ loc \in [Callers -> Carried] /\ begun \in Nat

(* What an audit row claims of the tables, and they bear out.              *)
Happened(act, s) ==
    CASE act = "BACKUP_DELETED" -> s \in Backups /\ backups[s] = "deleted"
      [] act = "BACKUP_CREATED" -> s \in Backups /\ backups[s] # "none"
      [] act = "RETENTION_CREATED" -> s \in versions
      [] act = "DRILL_COMPLETED" -> s \in Drills /\ drills[s] \in {"PASSED", "FAILED"}
      [] act = "DEGRADED_ENTERED" -> s \in DOMAIN modes /\ modes[s] # "none"
      [] act = "RECONCILIATION_COMPLETED" -> recon.exists
      [] OTHER -> TRUE

(* The audit log never claims what did not happen, whatever callers die    *)
(* and interleave: the statement comes before its audit row.               *)
AuditIsTruthful == \A i \in DOMAIN log : Happened(log[i].act, log[i].sub)

(* The same holds of the row a caller is about to append, and a caller     *)
(* carries what its next statement needs.                                  *)
PendingIsTruthful ==
    \A c \in Callers : at[c] \in {"tail", "append"} => Happened(loc[c].act, loc[c].sub)
CarriesItsRow ==
    \A c \in Callers :
        LET next == IF at[c] \in {"tail", "append"} THEN loc[c].then ELSE at[c]
        IN  /\ at[c] \in {"tail", "append"} => next \in {"idle", "sweep", "degrade", "drill"}
            /\ next = "policy" => loc[c].tail \in 1..2
            /\ next = "sweep" => loc[c].rows \subseteq Backups
            /\ next = "delete" => loc[c].sub \in Backups /\ loc[c].rows \subseteq Backups
            /\ next = "degrade" => loc[c].sub \in Drills \cup {Recovery}
            /\ next = "restore" => loc[c].rows \subseteq DOMAIN modes
            /\ next \in {"drill", "conclude"} => loc[c].sub \in Drills
            /\ next = "verify" => loc[c].act \in {"sound", "unsound"}
            /\ at[c] = "append" => loc[c].tail \in 0..Len(log)

(* The inductive invariant.                                                *)
IInv == TypeOK /\ AuditIsTruthful /\ PendingIsTruthful /\ CarriesItsRow

\* A check of the chain that came out well and is still to be acted on.
FoundSound(c) == \/ at[c] = "conclude" /\ loc[c].act = "sound"
                 \/ at[c] = "save" /\ loc[c].act = "resumed"

(* A fork of the audit chain, which concurrent appends can make, is never  *)
(* forgotten: no later append makes the chain verify again, and no drill   *)
(* passes and no recovery resumes but one that checked the chain before    *)
(* the fork and had yet to write its verdict.                              *)
ForkStays ==
    ~ChainValid =>
        /\ ~ChainValid'
        /\ \A c \in Callers : FoundSound(c)' => FoundSound(c)
        /\ \A d \in Drills : drills'[d] = "PASSED" =>
               drills[d] = "PASSED" \/ \E c \in Callers : FoundSound(c) /\ loc[c].sub = d
        /\ recon'.resumed => recon.resumed \/ \E c \in Callers : FoundSound(c)
ForkIsFinal == [][ForkStays]_vars

(* No drill passes on a forked chain.  Does not hold: an append that forks *)
(* the chain between the check and the UPDATE of the drill lets it pass.   *)
PassedOnWholeChain == [][~ChainValid => \A d \in Drills : drills'[d] = "PASSED" => drills[d] = "PASSED"]_vars

(* A backup under legal hold is not deleted.  Holds only for one caller:   *)
(* a hold placed between the SELECT of the holds and the UPDATE is lost.   *)
HeldBackupIsKept == [][\A b \in holds : backups[b] # "deleted" => backups'[b] # "deleted"]_vars
=============================================================================
