----------------------------- MODULE Scheduler -----------------------------
(***************************************************************************)
(* The scheduling control plane of packages/scheduler/src/index.ts: the    *)
(* operations of SchedulerService and reconcileSchedules over a schedule   *)
(* store and an external scheduler (QStash).  Each operation reads a       *)
(* Schedule, awaits several store and QStash calls and finally puts back   *)
(* the whole row it read, changed; one action per await.  cron, timezone,  *)
(* destination and the other contents of a version are one configuration   *)
(* value.  runNow, dryRun, getResolvedConfig and listVersions only read    *)
(* and are left out.  The external scheduler is modelled from its use.     *)
(***************************************************************************)
EXTENDS Naturals, FiniteSets, FiniteSetsExt

CONSTANTS Schedules,     \* schedule ids
          NoSchedule,    \* no schedule named
          Admins,        \* concurrent callers of SchedulerService
          Crashing,      \* the admins that may die between two awaits
          Attached,      \* the admins whose service has an externalScheduler
          Configs,       \* contents of a version
          Store,         \* "memory" or "database"
          FreshExternal, \* TRUE: QStash gives a new id per create;
                         \* FALSE: the id is derived from the schedule
          Reconciling,   \* whether reconcileSchedules runs
          MaxExternal,   \* bound: external ids QStash gives out
          MaxOps,        \* bound: operations begun
          MaxDrift       \* bound: changes made in QStash by hand

ASSUME SchedulerAssumption ==
    /\ NoSchedule \notin Schedules
    /\ Schedules \cap Nat = {}   \* a UUID is no number
    /\ IsFiniteSet(Admins) /\ Crashing \subseteq Admins /\ Attached \subseteq Admins
    /\ Store \in {"memory", "database"}
    /\ FreshExternal \in BOOLEAN /\ Reconciling \in BOOLEAN
    /\ MaxExternal \in Nat /\ MaxOps \in Nat /\ MaxDrift \in Nat

VARIABLES sched,    \* the schedules table
          version,  \* the schedule_versions table
          ext,      \* the schedules QStash has
          pc, loc,  \* each admin's place in its operation, and its locals
          rec,      \* the reconciliation pass
          spent     \* operations begun, external ids given, changes by hand;
                    \* calm: nobody died, changed QStash by hand or repaired

adminVars == <<pc, loc>>
vars == <<sched, version, ext, pc, loc, rec, spent>>

VersionIds == 1..MaxOps   \* an operation adds at most one version
NoVersion == 0
ExternalIds == (1..MaxExternal) \cup Schedules
NoExternal == 0

ScheduleState == {"NONE", "DRAFT", "ACTIVE", "PAUSED", "DISABLED", "DELETED"}
Lifecycle == {"NONE", "DRAFT", "VALIDATED", "ACTIVE", "DEPRECATED"}

NoRow == [state |-> "NONE", ver |-> NoVersion, num |-> 0, ext |-> NoExternal, paused |-> FALSE]
NoVersionRow == [sched |-> NoSchedule, number |-> 0, config |-> 0, lifecycle |-> "NONE"]
NoExternalRow == [live |-> FALSE, sched |-> NoSchedule, config |-> 0, paused |-> FALSE]
NoLocals == [op |-> "none", id |-> NoSchedule, row |-> NoRow, ver |-> NoVersion,
             vrow |-> NoVersionRow, num |-> 0, ext |-> NoExternal]
NoPass == [pc |-> "idle", repair |-> FALSE, db |-> [s \in Schedules |-> NoRow],
           ext |-> [e \in ExternalIds |-> NoExternalRow], todo |-> {}, id |-> NoSchedule,
           ver |-> NoVersion, link |-> NoExternal, found |-> FALSE, clean |-> FALSE]

Init ==
    /\ sched = [s \in Schedules |-> NoRow]
    /\ version = [v \in VersionIds |-> NoVersionRow]
    /\ ext = [e \in ExternalIds |-> NoExternalRow]
    /\ pc = [p \in Admins |-> "idle"]
    /\ loc = [p \in Admins |-> NoLocals]
    /\ rec = NoPass
    /\ spent = [ops |-> 0, ext |-> 0, drift |-> 0, calm |-> TRUE]

-----------------------------------------------------------------------------
(* The external scheduler.  Calls that name an id QStash does not have do   *)
(* nothing.                                                                 *)

NewExternalId(s) == IF FreshExternal THEN spent.ext + 1 ELSE s
ExternalIdLeft == FreshExternal => spent.ext < MaxExternal

ExternalCreate(s, c) ==
    /\ ext' = [ext EXCEPT ![NewExternalId(s)] =
                  [live |-> TRUE, sched |-> s, config |-> c, paused |-> FALSE]]
    /\ spent' = [spent EXCEPT !.ext = IF FreshExternal THEN @ + 1 ELSE @]

ExternalSetPaused(e, b) ==
    ext' = IF ext[e].live THEN [ext EXCEPT ![e].paused = b] ELSE ext

ExternalUpdate(e, c) ==
    ext' = IF ext[e].live THEN [ext EXCEPT ![e].config = c] ELSE ext

ExternalRemove(e) == ext' = [ext EXCEPT ![e] = NoExternalRow]

-----------------------------------------------------------------------------
(* The operations of SchedulerService.                                      *)

Goto(p, l) == pc' = [pc EXCEPT ![p] = l]

Return(p) ==
    /\ Goto(p, "idle")
    /\ loc' = [loc EXCEPT ![p] = NoLocals]

\* A pass is undisturbed while no operation runs beside it.
Disturb == rec' = [rec EXCEPT !.clean = FALSE]

\* An operation begins: a budget unit is spent and the pass is disturbed.
Enter(p, l, locals) ==
    /\ pc[p] = "idle"
    /\ spent.ops < MaxOps
    /\ spent' = [spent EXCEPT !.ops = @ + 1]
    /\ Goto(p, l)
    /\ loc' = [loc EXCEPT ![p] = locals]
    /\ Disturb

Existing == {s \in Schedules : sched[s].state # "NONE"}

\* randomUUID: an id nobody has used.
Fresh(s) ==
    /\ s \notin Existing
    /\ \A v \in VersionIds : version[v].sched # s
    /\ \A q \in Admins : loc[q].id # s

DraftOf(op, s, c) ==
    [NoLocals EXCEPT !.op = op, !.id = s, !.num = 1,
                     !.vrow = [sched |-> s, number |-> 1, config |-> c, lifecycle |-> "DRAFT"]]

\* create, after its checks of name, cron and timezone.
Create(p, s, c) ==
    /\ Fresh(s)
    /\ Enter(p, "putVersion", DraftOf("create", s, c))
    /\ UNCHANGED <<sched, version, ext>>

\* duplicate reads the schedule and its version and goes on like create.
Duplicate(p, s, t) ==
    /\ s \in Existing /\ sched[s].ver # NoVersion
    /\ Fresh(t)
    /\ Enter(p, "putVersion", DraftOf("duplicate", t, version[sched[s].ver].config))
    /\ UNCHANGED <<sched, version, ext>>

\* Mutant: delete does not ask for DISABLED.
AllowedFromLax(op) ==
    CASE op \in {"editDraft", "enable"} -> {"DRAFT"}
      [] op = "pause"    -> {"ACTIVE"}
      [] op = "resume"   -> {"PAUSED"}
      [] op = "disable"  -> {"DRAFT", "ACTIVE", "PAUSED"}
      [] op = "delete"   -> ScheduleState \ {"NONE"}
      [] op = "validate" -> ScheduleState \ {"NONE"}

AllowedFrom(op) ==
    CASE op \in {"editDraft", "enable"} -> {"DRAFT"}
      [] op = "pause"    -> {"ACTIVE"}
      [] op = "resume"   -> {"PAUSED"}
      [] op = "disable"  -> {"DRAFT", "ACTIVE", "PAUSED"}
      [] op = "delete"   -> {"DISABLED"}
      [] op = "validate" -> ScheduleState \ {"NONE"}

\* Mutant: pause and resume leave QStash alone.
AfterReadSilent(p, op, row) ==
    IF op \in {"pause", "resume", "delete"} THEN "put"
    ELSE IF op = "disable" /\ p \in Attached /\ row.ext # NoExternal THEN "external"
    ELSE "readVersion"

\* Where an operation goes after it read the schedule.
AfterRead(p, op, row) ==
    LET linked == p \in Attached /\ row.ext # NoExternal IN
    CASE op \in {"editDraft", "enable", "validate"} -> "readVersion"
      [] op \in {"pause", "resume"} -> IF linked THEN "external" ELSE "put"
      [] op = "disable" -> IF linked THEN "external" ELSE "readVersion"
      [] op = "delete" -> "put"

\* getSchedule and the check of its state.
Begin(p, op, s) ==
    /\ s \in Existing
    /\ sched[s].state \in AllowedFrom(op)
    /\ Enter(p, AfterRead(p, op, sched[s]),
             [NoLocals EXCEPT !.op = op, !.id = s, !.row = sched[s], !.ext = sched[s].ext])
    /\ UNCHANGED <<sched, version, ext>>

\* enable takes a version through VALIDATED and APPROVED to ACTIVE.
Promoted(l) == IF l \in {"DRAFT", "VALIDATED"} THEN "ACTIVE" ELSE l

\* validateScheduleVersion: the first issue it finds.  Its checks ask registries,
\* budgets and a forecast that change beside the version.
NoIssue == "none"
FirstIssue == {NoIssue, "CRON", "TIMEZONE", "VERSION", "DESTINATION", "CONCURRENCY",
               "BUDGET", "COST_FORECAST"}

\* getActiveVersion, which reads the schedule again, and what follows up to
\* the next await.
ReadVersion(p) ==
    LET s == loc[p].id
        v == sched[s].ver
        Continue(l, life) ==
            /\ Goto(p, l)
            /\ loc' = [loc EXCEPT ![p].ver = v,
                                  ![p].vrow = [version[v] EXCEPT !.lifecycle = life]]
    IN  /\ pc[p] = "readVersion"
        /\ v # NoVersion
        /\ \/ /\ loc[p].op = "editDraft"
              /\ Continue("number", "DRAFT")
           \/ /\ loc[p].op \in {"validate", "enable"}
              /\ \E issue \in FirstIssue :
                    IF issue # NoIssue THEN Return(p)
                    ELSE IF loc[p].op = "enable"
                         THEN Continue("putVersion", Promoted(version[v].lifecycle))
                    ELSE IF version[v].lifecycle = "DRAFT"
                         THEN Continue("putVersion", "VALIDATED")
                    ELSE Return(p)
           \/ /\ loc[p].op = "disable"
              /\ IF version[v].lifecycle = "ACTIVE"
                 THEN Continue("putVersion", "DEPRECATED")
                 ELSE Goto(p, "put") /\ UNCHANGED loc
        /\ UNCHANGED <<sched, version, ext, rec, spent>>

VersionsOf(s) == {v \in VersionIds : version[v].sched = s}

\* Mutant: the number of the version that is edited.
ReadNumberStale(p) ==
    /\ pc[p] = "number"
    /\ Goto(p, "putVersion")
    /\ loc' = [loc EXCEPT ![p].num = loc[p].vrow.number]
    /\ UNCHANGED <<sched, version, ext, rec, spent>>

\* nextVersionNumber.
ReadNumber(p) ==
    LET n == 1 + Max({version[v].number : v \in VersionsOf(loc[p].id)} \cup {0})
    IN  /\ pc[p] = "number"
        /\ Goto(p, "putVersion")
        /\ loc' = [loc EXCEPT ![p].num = n, ![p].vrow.number = n]
        /\ UNCHANGED <<sched, version, ext, rec, spent>>

UnusedVersion == {v \in VersionIds : version[v].sched = NoSchedule}

\* The constraints of schedule_versions, which only the database has: the
\* schedule exists and the number is not taken.
Rejected(row) ==
    /\ Store = "database"
    /\ \/ row.sched \notin Existing
       \/ \E v \in VersionsOf(row.sched) : version[v].number = row.number

\* putVersion of a new version.
PutNewVersion(p, c) ==
    LET v == Min(UnusedVersion)
        row == [loc[p].vrow EXCEPT !.config = c]
    IN  /\ pc[p] = "putVersion"
        /\ loc[p].op \in {"create", "duplicate", "editDraft"}
        /\ loc[p].op # "editDraft" => c = loc[p].vrow.config
        /\ \/ /\ ~Rejected(row)
              /\ version' = [version EXCEPT ![v] = row]
              /\ loc' = [loc EXCEPT ![p].ver = v]
              /\ Goto(p, "put")
           \/ /\ Rejected(row)
              /\ Return(p)
              /\ UNCHANGED version
        /\ UNCHANGED <<sched, ext, rec, spent>>

\* putVersion of a version that is there: only its lifecycle changes.
PutLifecycle(p) ==
    /\ pc[p] = "putVersion"
    /\ loc[p].op \in {"validate", "enable", "disable"}
    /\ version' = [version EXCEPT ![loc[p].ver].lifecycle = loc[p].vrow.lifecycle]
    /\ \/ loc[p].op = "validate" /\ Return(p)
       \/ loc[p].op = "enable" /\ Goto(p, IF p \in Attached THEN "external" ELSE "put") /\ UNCHANGED loc
       \/ loc[p].op = "disable" /\ Goto(p, "put") /\ UNCHANGED loc
    /\ UNCHANGED <<sched, ext, rec, spent>>

\* The call of the external scheduler.
CallExternal(p) ==
    /\ pc[p] = "external"
    /\ \/ /\ loc[p].op = "enable"
          /\ ExternalIdLeft
          /\ ExternalCreate(loc[p].id, loc[p].vrow.config)
          /\ loc' = [loc EXCEPT ![p].ext = NewExternalId(loc[p].id)]
          /\ Goto(p, "put")
       \/ /\ loc[p].op \in {"pause", "resume"}
          /\ ExternalSetPaused(loc[p].ext, loc[p].op = "pause")
          /\ Goto(p, "put")
          /\ UNCHANGED <<loc, spent>>
       \/ /\ loc[p].op = "disable"
          /\ ExternalRemove(loc[p].ext)
          /\ Goto(p, "readVersion")
          /\ UNCHANGED <<loc, spent>>
    /\ UNCHANGED <<sched, version, rec>>

\* The row an operation puts: the one it read, changed.
NewRow(p) ==
    LET r == loc[p].row
    IN  CASE loc[p].op \in {"create", "duplicate"} ->
                 [NoRow EXCEPT !.state = "DRAFT", !.ver = loc[p].ver, !.num = 1]
          [] loc[p].op = "editDraft" -> [r EXCEPT !.ver = loc[p].ver, !.num = loc[p].num]
          [] loc[p].op = "enable" -> [r EXCEPT !.state = "ACTIVE", !.ext = loc[p].ext,
                                              !.paused = FALSE, !.ver = loc[p].ver]
          [] loc[p].op = "pause" -> [r EXCEPT !.state = "PAUSED", !.paused = TRUE]
          [] loc[p].op = "resume" -> [r EXCEPT !.state = "ACTIVE", !.paused = FALSE]
          [] loc[p].op = "disable" -> [r EXCEPT !.state = "DISABLED", !.paused = FALSE,
                                               !.ext = NoExternal]
          [] loc[p].op = "delete" -> [r EXCEPT !.state = "DELETED"]

PutSchedule(p) ==
    /\ pc[p] = "put"
    /\ sched' = [sched EXCEPT ![loc[p].id] = NewRow(p)]
    /\ Return(p)
    /\ UNCHANGED <<version, ext, rec, spent>>

Crash(p) ==
    /\ p \in Crashing
    /\ pc[p] # "idle"
    /\ Return(p)
    /\ spent' = [spent EXCEPT !.calm = FALSE]
    /\ UNCHANGED <<sched, version, ext, rec>>

Work(p) ==
    \/ ReadVersion(p) \/ ReadNumber(p) \/ PutLifecycle(p) \/ CallExternal(p) \/ PutSchedule(p)
    \/ \E c \in Configs : PutNewVersion(p, c)

Ask(p) ==
    \E s \in Schedules :
        \/ \E c \in Configs : Create(p, s, c)
        \/ \E t \in Schedules : Duplicate(p, s, t)
        \/ \E op \in {"editDraft", "validate", "enable", "pause", "resume", "disable", "delete"} :
               Begin(p, op, s)

\* Somebody changes, removes or adds a schedule in QStash by hand.
Drift(e) ==
    /\ spent.drift < MaxDrift
    /\ \/ /\ ext[e].live
          /\ \/ \E c \in Configs : ExternalUpdate(e, c)
             \/ ExternalSetPaused(e, ~ext[e].paused)
             \/ ExternalRemove(e)
          /\ spent' = [spent EXCEPT !.drift = @ + 1, !.calm = FALSE]
       \/ /\ e = spent.ext + 1
          /\ \E c \in Configs :
                 ext' = [ext EXCEPT ![e] = [live |-> TRUE, sched |-> NoSchedule,
                                            config |-> c, paused |-> FALSE]]
          /\ spent' = [spent EXCEPT !.drift = @ + 1, !.ext = @ + 1, !.calm = FALSE]
    /\ Disturb
    /\ UNCHANGED <<sched, version, pc, loc>>

-----------------------------------------------------------------------------
(* reconcileSchedules.                                                      *)

Listed == {s \in Schedules : sched[s].state \in {"ACTIVE", "PAUSED"}}

\* listSchedules; a pass is clean when no operation is under way.
ReconcileList(repair) ==
    /\ Reconciling
    /\ rec.pc = "idle"
    /\ rec' = [NoPass EXCEPT !.pc = "list", !.repair = repair,
                             !.db = [s \in Schedules |-> IF s \in Listed THEN sched[s] ELSE NoRow],
                             !.clean = \A p \in Admins : pc[p] = "idle"]
    /\ spent' = [spent EXCEPT !.calm = @ /\ ~repair]
    /\ UNCHANGED <<sched, version, ext, adminVars>>

\* externalReader.list().
ReconcileListExternal ==
    /\ rec.pc = "list"
    /\ rec' = [rec EXCEPT !.pc = "next", !.ext = ext,
                          !.todo = {s \in Schedules : rec.db[s].state # "NONE"}]
    /\ UNCHANGED <<sched, version, ext, adminVars, spent>>

\* The external schedule of a listed schedule, in the lists that were read.
Linked(s) ==
    IF rec.db[s].ext # NoExternal
    THEN {e \in {rec.db[s].ext} : rec.ext[e].live}
    ELSE {e \in ExternalIds : rec.ext[e].live /\ rec.ext[e].sched = s}

\* The next schedule: getActiveVersion and the lookup of its external schedule.
ReconcileNext(s) ==
    /\ rec.pc = "next"
    /\ s \in rec.todo
    /\ \/ /\ Linked(s) = {}
          /\ rec' = [rec EXCEPT !.id = s, !.todo = @ \ {s}, !.ver = sched[s].ver,
                                !.pc = "missing", !.found = TRUE]
       \/ \E e \in Linked(s) :
             rec' = [rec EXCEPT !.id = s, !.todo = @ \ {s}, !.ver = sched[s].ver,
                                !.pc = "config", !.link = e]
    /\ UNCHANGED <<sched, version, ext, adminVars, spent>>

\* MISSING_EXTERNAL and its repair.
ReconcileMissing ==
    /\ rec.pc = "missing"
    /\ \/ /\ rec.repair
          /\ ExternalIdLeft
          /\ ExternalCreate(rec.id, version[rec.ver].config)
          /\ rec' = [rec EXCEPT !.pc = "relink", !.link = NewExternalId(rec.id)]
       \/ /\ ~rec.repair
          /\ rec' = [rec EXCEPT !.pc = "next"]
          /\ UNCHANGED <<ext, spent>>
    /\ UNCHANGED <<sched, version, adminVars>>

ReconcileRelink ==
    /\ rec.pc = "relink"
    /\ sched' = [sched EXCEPT ![rec.id] = [rec.db[rec.id] EXCEPT !.ext = rec.link]]
    /\ rec' = [rec EXCEPT !.pc = "next"]
    /\ UNCHANGED <<version, ext, adminVars, spent>>

\* CRON, TIMEZONE, DESTINATION and EXTERNAL_ID_MISMATCH (the last one is only
\* reported), then PAUSED_MISMATCH; the values compared are the listed ones.
ReconcileConfig ==
    LET seen == rec.ext[rec.link]
        wanted == version[rec.ver].config
    IN  /\ rec.pc = "config"
        /\ IF seen.config # wanted /\ rec.repair
           THEN ExternalUpdate(rec.link, wanted) ELSE UNCHANGED ext
        /\ rec' = [rec EXCEPT !.pc = "paused",
                              !.found = @ \/ seen.config # wanted
                                          \/ seen.sched \notin {NoSchedule, rec.id}]
        /\ UNCHANGED <<sched, version, adminVars, spent>>

ReconcilePaused ==
    LET dbPaused == rec.db[rec.id].state = "PAUSED"
        differs == rec.ext[rec.link].paused # dbPaused
    IN  /\ rec.pc = "paused"
        /\ IF differs /\ rec.repair THEN ExternalSetPaused(rec.link, dbPaused) ELSE UNCHANGED ext
        /\ rec' = [rec EXCEPT !.pc = "next", !.found = @ \/ differs]
        /\ UNCHANGED <<sched, version, adminVars, spent>>

\* Mutant: an external schedule that names a schedule is no orphan.
OrphansUnnamed ==
    {e \in ExternalIds :
        /\ rec.ext[e].live
        /\ rec.ext[e].sched = NoSchedule
        /\ \A s \in Schedules : rec.db[s].ext # e}

\* A listed external schedule that names no listed schedule, or names none and
\* is not claimed by one.
Orphans ==
    {e \in ExternalIds :
        /\ rec.ext[e].live
        /\ IF rec.ext[e].sched # NoSchedule
           THEN rec.db[rec.ext[e].sched].state = "NONE"
           ELSE \A s \in Schedules : rec.db[s].ext # e}

\* Mutant: orphans are reported and never removed.
ReconcileOrphanReported(e) ==
    /\ rec.pc = "next" /\ rec.todo = {}
    /\ e \in Orphans
    /\ rec' = [rec EXCEPT !.found = TRUE, !.ext[e] = NoExternalRow]
    /\ UNCHANGED <<sched, version, ext, adminVars, spent>>

\* ORPHAN_EXTERNAL and its repair, one at a time.
ReconcileOrphan(e) ==
    /\ rec.pc = "next" /\ rec.todo = {}
    /\ e \in Orphans
    /\ IF rec.repair THEN ExternalRemove(e) ELSE UNCHANGED ext
    /\ rec' = [rec EXCEPT !.found = TRUE, !.ext[e] = NoExternalRow]
    /\ UNCHANGED <<sched, version, adminVars, spent>>

ReconcileEnd ==
    /\ rec.pc = "next" /\ rec.todo = {} /\ Orphans = {}
    /\ rec' = [NoPass EXCEPT !.pc = "done", !.repair = rec.repair,
                             !.found = rec.found, !.clean = rec.clean]
    /\ UNCHANGED <<sched, version, ext, adminVars, spent>>

ReconcileReturn ==
    /\ rec.pc = "done"
    /\ rec' = NoPass
    /\ UNCHANGED <<sched, version, ext, adminVars, spent>>

Reconcile ==
    \/ ReconcileListExternal \/ (\E s \in Schedules : ReconcileNext(s))
    \/ ReconcileMissing \/ ReconcileRelink \/ ReconcileConfig \/ ReconcilePaused
    \/ (\E e \in ExternalIds : ReconcileOrphan(e)) \/ ReconcileEnd \/ ReconcileReturn

Next ==
    \/ \E p \in Admins : Ask(p) \/ Work(p) \/ Crash(p)
    \/ \E e \in ExternalIds : Drift(e)
    \/ (\E repair \in BOOLEAN : ReconcileList(repair))
    \/ Reconcile

Spec == Init /\ [][Next]_vars

-----------------------------------------------------------------------------
(* Properties.                                                              *)

Rows == [state : ScheduleState, ver : VersionIds \cup {NoVersion}, num : 0..MaxOps,
         ext : ExternalIds \cup {NoExternal}, paused : BOOLEAN]
VersionRows == [sched : Schedules \cup {NoSchedule}, number : 0..MaxOps,
                config : Configs \cup {0}, lifecycle : Lifecycle]
ExternalRows == [live : BOOLEAN, sched : Schedules \cup {NoSchedule},
                 config : Configs \cup {0}, paused : BOOLEAN]

\* The three tables hold rows of their types; of the lifecycles of
\* ConfigLifecycle, APPROVED and ROLLED_BACK are never stored, and DEGRADED
\* is no schedule's state.
TypeOK ==
    /\ sched \in [Schedules -> Rows]
    /\ version \in [VersionIds -> VersionRows]
    /\ ext \in [ExternalIds -> ExternalRows]
    /\ spent \in [ops : 0..MaxOps, ext : 0..MaxExternal, drift : 0..MaxDrift, calm : BOOLEAN]

\* Every active or paused schedule has its external schedule, which runs the
\* configuration of its current version and is paused when it is; QStash has
\* no other schedule.
InSync ==
    /\ \A s \in Listed :
          /\ sched[s].ext # NoExternal
          /\ ext[sched[s].ext] = [live |-> TRUE, sched |-> s,
                                  config |-> version[sched[s].ver].config,
                                  paused |-> sched[s].state = "PAUSED"]
    /\ \A e \in ExternalIds :
          ext[e].live => \E s \in Listed : sched[s].ext = e

\* "Schedule CRUD updates both database and QStash": between two operations the
\* table and QStash agree, whatever sequence of create, editDraft, validate,
\* enable, pause, resume, duplicate, disable and delete came before, until an
\* operation dies half-way or somebody else writes.
CrudKeepsInSync == spent.calm /\ (\A p \in Admins : pc[p] = "idle") => InSync

Transitions ==
    {<<"NONE", "DRAFT">>, <<"DRAFT", "ACTIVE">>, <<"DRAFT", "DISABLED">>,
     <<"ACTIVE", "PAUSED">>, <<"ACTIVE", "DISABLED">>, <<"PAUSED", "ACTIVE">>,
     <<"PAUSED", "DISABLED">>, <<"DISABLED", "DELETED">>}

LegalStep ==
    \A s \in Schedules :
        sched'[s].state # sched[s].state => <<sched[s].state, sched'[s].state>> \in Transitions

\* No operation of SchedulerService moves a schedule outside
\* ALLOWED_SCHEDULE_TRANSITIONS; in particular a disabled or deleted schedule
\* never becomes active again, unless a repairing pass puts back an old row.
LegalTransitions == [][spent'.calm => LegalStep]_vars

\* A schedule's currentVersionNumber is the number of the version its
\* currentVersionId names, a version of its own, and no two versions of one
\* schedule share a number (the UNIQUE of schedule_versions, which the
\* in-memory store does not enforce): nextVersionNumber under any sequence of
\* operations, and when operations die between putVersion and putSchedule while
\* reconcileSchedules puts rows back.
VersionsAreNumbered ==
    /\ \A s \in Existing :
          /\ version[sched[s].ver].sched = s
          /\ version[sched[s].ver].number = sched[s].num
    /\ \A v, w \in VersionIds :
          /\ v # w /\ version[v].sched # NoSchedule /\ version[v].sched = version[w].sched
          => version[v].number # version[w].number

\* A pass of reconcileSchedules that nothing disturbed and that reports no
\* incident has seen the table and QStash agree, whatever operations died
\* half-way before it.
ReportsAreComplete == rec.pc = "done" /\ rec.clean /\ ~rec.found => InSync

\* Operations that die half-way and changes made in QStash by hand are repaired
\* in the end: once they stop, reconcileSchedules brings the table and QStash
\* into agreement for good.
Converges == <>[]InSync
=============================================================================
