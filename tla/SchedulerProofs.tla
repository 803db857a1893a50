--------------------------- MODULE SchedulerProofs ---------------------------
(***************************************************************************)
(* Theorems about Scheduler.  For any number of admins, operations that    *)
(* die, changes by hand and passes: the types, and that a clean report is  *)
(* the truth.  For one admin at a time: version numbers, the allowed       *)
(* transitions and the agreement of the table and QStash.                  *)
(***************************************************************************)
EXTENDS Scheduler, FiniteSetTheorems, WellFoundedInduction, TLAPS

Adding == {"create", "duplicate", "editDraft"}
Operations == Adding \cup {"validate", "enable", "pause", "resume", "disable", "delete"}
Places == {"idle", "readVersion", "number", "putVersion", "external", "put"}
PassPlaces == {"idle", "list", "next", "missing", "relink", "config", "paused", "done"}
VersionNames == VersionIds \cup {NoVersion}
Links == ExternalIds \cup {NoExternal}
Locals == [op : Operations \cup {"none"}, id : Schedules \cup {NoSchedule}, row : Rows,
           ver : VersionNames, vrow : VersionRows, num : 0..MaxOps, ext : Links]
Passes == [pc : PassPlaces, repair : BOOLEAN, db : [Schedules -> Rows],
           ext : [ExternalIds -> ExternalRows], todo : SUBSET Schedules,
           id : Schedules \cup {NoSchedule}, ver : VersionNames, link : Links,
           found : BOOLEAN, clean : BOOLEAN]

SchedulerTypes ==
    /\ TypeOK
    /\ pc \in [Admins -> Places] /\ loc \in [Admins -> Locals] /\ rec \in Passes

\* A row that is there names a version of its schedule.
OwnVersion(s, row) ==
    row.state # "NONE" => row.ver \in VersionIds /\ version[row.ver].sched = s

\* What an operation knows at each of its places.
AdminFits(p) ==
    LET l == loc[p]  s == loc[p].id
        At(places, ops) == pc[p] \in places /\ l.op \in ops
        Known == l.ver \in VersionIds /\ version[l.ver].sched = s
    IN /\ pc[p] = "idle" => l = NoLocals
       /\ pc[p] # "idle" => l.op \in Operations /\ s \in Schedules
       /\ pc[p] # "idle" /\ l.op \notin {"create", "duplicate"} =>
              sched[s].state # "NONE" /\ l.row.state # "NONE" /\ OwnVersion(s, l.row)
       /\ pc[p] = "readVersion" => l.op \in {"editDraft", "validate", "enable", "disable"}
       /\ pc[p] = "number" => l.op = "editDraft" /\ l.vrow.sched = s
       /\ pc[p] = "putVersion" => l.op \in Adding \cup {"validate", "enable", "disable"}
       /\ At({"putVersion"}, Adding) => l.vrow.sched = s /\ l.num = l.vrow.number
       /\ At({"putVersion"}, {"validate", "enable", "disable"}) => Known
       /\ pc[p] = "external" => l.op \in {"enable", "pause", "resume", "disable"}
       /\ At({"external"}, {"enable"}) => Known
       /\ pc[p] = "put" => l.op # "validate"
       /\ At({"put"}, Adding \cup {"enable"}) => Known

\* What the pass knows.
PassFits ==
    /\ \A s \in Schedules : /\ OwnVersion(s, rec.db[s])
                            /\ rec.db[s].state # "NONE" => sched[s].state # "NONE"
    /\ rec.pc # "idle" => \A s \in rec.todo : rec.db[s].state # "NONE"
    /\ rec.pc \in {"missing", "relink", "config", "paused"} =>
           /\ rec.id \in Schedules /\ rec.db[rec.id].state # "NONE" /\ rec.ver \in VersionIds
    /\ rec.pc \in {"relink", "config", "paused"} => rec.link \in ExternalIds

\* Every operation that has not added its version yet has room for it.
Used == {v \in VersionIds : version[v].sched # NoSchedule}
Unborn == {p \in Admins : pc[p] \in {"readVersion", "number", "putVersion"} /\ loc[p].op \in Adding}
VersionsFit ==
    /\ Cardinality(Used) + Cardinality(Unborn) <= spent.ops
    /\ \A v \in VersionIds : version[v].number <= Cardinality(Used)
    /\ \A p \in Admins : pc[p] = "putVersion" /\ loc[p].op \in Adding
                            => loc[p].num <= Cardinality(Used) + 1

SchedulerInv ==
    /\ SchedulerTypes
    /\ \A s \in Schedules : OwnVersion(s, sched[s])
    /\ \A p \in Admins : AdminFits(p)
    /\ PassFits
    /\ VersionsFit
-----------------------------------------------------------------------------
(* Helpers.                                                                *)

LEMMA LeastNumber ==
    ASSUME NEW S, S # {}, S \subseteq Nat
    PROVE  Min(S) \in S
  <1>1. PICK x \in S : \A y \in S : ~(<<y, x>> \in OpToRel(<, Nat))
    BY NatLessThanWellFounded, WFMin
  <1>2. \A y \in S : ~(y < x)
    BY <1>1 DEF OpToRel
  <1>3. \A y \in S : x =< y
    BY <1>2
  <1> QED BY <1>3 DEF Min

\* The largest of a nonempty bounded set is one of it and the largest.
LEMMA LargestNumber ==
    ASSUME NEW S, S # {}, S \subseteq Nat, NEW b \in Nat, \A y \in S : y <= b
    PROVE  Max(S) \in S /\ \A y \in S : y <= Max(S)
  <1> DEFINE B == {n \in Nat : \A y \in S : y <= n}
  <1>1. B # {} /\ B \subseteq Nat
    OBVIOUS
  <1>2. PICK m \in B : \A n \in B : ~(<<n, m>> \in OpToRel(<, Nat))
    BY <1>1, NatLessThanWellFounded, WFMin
  <1>3. \A n \in B : ~(n < m)
    BY <1>2 DEF OpToRel
  <1>4. m \in S
    <2> SUFFICES ASSUME m \notin S PROVE FALSE
      OBVIOUS
    <2>1. \A y \in S : y \in Nat /\ y <= m /\ y # m
      OBVIOUS
    <2>2. PICK y0 \in S : TRUE
      OBVIOUS
    <2>3. m - 1 \in Nat /\ \A y \in S : y <= m - 1
      BY <2>1, <2>2
    <2>4. m - 1 \in B /\ m - 1 < m
      BY <2>3
    <2> QED BY <2>4, <1>3
  <1>5. \A y \in S : m >= y
    OBVIOUS
  <1> QED BY <1>4, <1>5 DEF Max

LEMMA ConstantRows ==
    /\ NoRow \in Rows /\ NoVersionRow \in VersionRows /\ NoExternalRow \in ExternalRows
    /\ NoLocals \in Locals /\ NoPass \in Passes /\ NoExternal \notin ExternalIds
    /\ VersionIds \subseteq Nat /\ NoVersion \notin VersionIds
  <1> USE SchedulerAssumption
  <1>1. NoRow \in Rows
    BY DEF NoRow, Rows, ScheduleState, NoVersion, NoExternal
  <1>2. NoVersionRow \in VersionRows
    BY DEF NoVersionRow, VersionRows, Lifecycle
  <1>3. NoExternalRow \in ExternalRows
    BY DEF NoExternalRow, ExternalRows
  <1>4. NoLocals \in Locals
    BY <1>1, <1>2 DEF NoLocals, Locals, VersionNames, Links
  <1>5. NoPass \in Passes
    BY <1>1, <1>3 DEF NoPass, Passes, VersionNames, Links, PassPlaces
  <1> QED BY <1>1, <1>2, <1>3, <1>4, <1>5 DEF NoExternal, ExternalIds, VersionIds, NoVersion

LEMMA CountsAreNumbers ==
    /\ IsFiniteSet(Used) /\ Cardinality(Used) \in Nat
    /\ IsFiniteSet(Unborn) /\ Cardinality(Unborn) \in Nat
    /\ IsFiniteSet(VersionIds) /\ Cardinality(VersionIds) = MaxOps
  <1>1. IsFiniteSet(VersionIds) /\ Cardinality(VersionIds) = MaxOps
    BY FS_Interval, SchedulerAssumption DEF VersionIds
  <1>2. Used \in SUBSET VersionIds /\ Unborn \in SUBSET Admins
    BY DEF Used, Unborn
  <1>3. IsFiniteSet(Used) /\ IsFiniteSet(Unborn)
    BY <1>1, <1>2, FS_Subset, SchedulerAssumption
  <1> QED BY <1>1, <1>3, FS_CardinalityType

\* An operation that is going to add a version finds an id and a number.
LEMMA RoomForVersion ==
    ASSUME SchedulerInv, NEW p \in Unborn
    PROVE  /\ Cardinality(Used) + 1 <= MaxOps
           /\ Min(UnusedVersion) \in VersionIds
           /\ version[Min(UnusedVersion)].sched = NoSchedule
  <1>1. Cardinality(Unborn) # 0
    BY CountsAreNumbers, FS_EmptySet
  <1>2. Cardinality(Used) + 1 <= MaxOps
    BY <1>1, CountsAreNumbers, SchedulerAssumption DEF SchedulerInv, VersionsFit, SchedulerTypes, TypeOK
  <1>3. UnusedVersion # {}
    <2> SUFFICES ASSUME UnusedVersion = {} PROVE FALSE
      OBVIOUS
    <2>1. Used = VersionIds
      BY DEF Used, UnusedVersion
    <2> QED BY <2>1, <1>2, CountsAreNumbers, SchedulerAssumption
  <1>4. Min(UnusedVersion) \in UnusedVersion
    BY <1>3, LeastNumber, ConstantRows DEF UnusedVersion
  <1> QED BY <1>2, <1>4 DEF UnusedVersion

\* nextVersionNumber is above every number the schedule has.
NextNumber(s) == 1 + Max({version[v].number : v \in VersionsOf(s)} \cup {0})

LEMMA NextNumberIsNew ==
    ASSUME SchedulerInv, NEW s
    PROVE  /\ NextNumber(s) \in 1..(Cardinality(Used) + 1)
           /\ \A v \in VersionsOf(s) : version[v].number < NextNumber(s)
  <1> DEFINE N == {version[v].number : v \in VersionsOf(s)} \cup {0}
             c == Cardinality(Used)
  <1>1. c \in Nat
    BY CountsAreNumbers
  <1>2. \A v \in VersionIds : version[v].number \in Nat /\ version[v].number <= c
    BY SchedulerAssumption DEF SchedulerInv, VersionsFit, SchedulerTypes, TypeOK, VersionRows
  <1> HIDE DEF c
  <1>3. N # {} /\ N \subseteq Nat /\ \A y \in N : y <= c
    BY <1>1, <1>2 DEF VersionsOf
  <1>4. Max(N) \in N /\ \A y \in N : y <= Max(N)
    BY <1>1, <1>3, LargestNumber
  <1>5. \A v \in VersionsOf(s) : version[v].number \in N
    OBVIOUS
  <1>6. NextNumber(s) = 1 + Max(N)
    BY DEF NextNumber
  <1>7. Max(N) \in Nat /\ Max(N) <= c
    BY <1>3, <1>4
  <1> HIDE DEF N
  <1>8. \A v \in VersionsOf(s) : version[v].number \in Nat /\ version[v].number <= Max(N)
    BY <1>2, <1>4, <1>5 DEF VersionsOf
  <1>9. NextNumber(s) \in 1..(c + 1)
    BY <1>1, <1>6, <1>7
  <1>10. \A v \in VersionsOf(s) : version[v].number < NextNumber(s)
    BY <1>6, <1>7, <1>8
  <1> QED BY <1>9, <1>10 DEF c
-----------------------------------------------------------------------------
(* A step in general: versions and rows stay, and the others stay put.     *)

Steady ==
    /\ \A v \in VersionIds : version[v].sched # NoSchedule =>
           /\ version'[v].sched = version[v].sched
           /\ version'[v].number = version[v].number
           /\ version'[v].config = version[v].config
    /\ \A s \in Schedules : sched[s].state # "NONE" => sched'[s].state # "NONE"

OthersStay(p) == \A q \in Admins \ {p} : pc'[q] = pc[q] /\ loc'[q] = loc[q]

PassStays == rec' = rec \/ rec' = [rec EXCEPT !.clean = FALSE]

LEMMA OwnVersionStays ==
    ASSUME SchedulerInv, Steady, NEW s \in Schedules, NEW row, OwnVersion(s, row)
    PROVE  row.state # "NONE" => row.ver \in VersionIds /\ version'[row.ver].sched = s
  BY SchedulerAssumption DEF Steady, OwnVersion

LEMMA AdminStays ==
    ASSUME SchedulerInv, Steady, NEW q \in Admins, pc'[q] = pc[q], loc'[q] = loc[q]
    PROVE  AdminFits(q)'
  <1>1. AdminFits(q)
    BY DEF SchedulerInv
  <1>2. pc[q] # "idle" => loc[q].id \in Schedules
    BY <1>1 DEF AdminFits
  <1>3. \A s \in Schedules, v \in VersionIds : version[v].sched = s => version'[v].sched = s
    BY SchedulerAssumption DEF Steady
  <1> QED BY <1>1, <1>2, <1>3 DEF AdminFits, OwnVersion, Steady

LEMMA PassStaysFit ==
    ASSUME SchedulerInv, Steady, PassStays
    PROVE  PassFits'
  <1>1. /\ rec'.db = rec.db /\ rec'.pc = rec.pc /\ rec'.todo = rec.todo /\ rec'.id = rec.id
        /\ rec'.ver = rec.ver /\ rec'.link = rec.link
    BY DEF PassStays, SchedulerInv, SchedulerTypes, Passes
  <1>2. \A s \in Schedules, v \in VersionIds : version[v].sched = s => version'[v].sched = s
    BY SchedulerAssumption DEF Steady
  <1> QED BY <1>1, <1>2 DEF SchedulerInv, PassFits, OwnVersion, Steady

LEMMA AdminStepInv ==
    ASSUME SchedulerInv, NEW p \in Admins, SchedulerTypes', Steady, OthersStay(p), PassStays,
           \A s \in Schedules : OwnVersion(s, sched[s])', AdminFits(p)', VersionsFit'
    PROVE  SchedulerInv'
  <1>1. \A q \in Admins : AdminFits(q)'
    BY AdminStays DEF OthersStay
  <1> QED BY <1>1, PassStaysFit DEF SchedulerInv

LEMMA RowsStayOwn ==
    ASSUME SchedulerInv, Steady, sched' = sched
    PROVE  \A s \in Schedules : OwnVersion(s, sched[s])'
  <1>1. \A s \in Schedules, v \in VersionIds : version[v].sched = s => version'[v].sched = s
    BY SchedulerAssumption DEF Steady
  <1> QED BY <1>1 DEF SchedulerInv, OwnVersion

\* The counts after a step that adds no version and begins no operation.
LEMMA VersionsStayFit ==
    ASSUME SchedulerInv, NEW p \in Admins, OthersStay(p), spent'.ops = spent.ops,
           \A v \in VersionIds : /\ version'[v].sched = version[v].sched
                                 /\ version'[v].number = version[v].number,
           p \in Unborn' => p \in Unborn,
           pc'[p] = "putVersion" /\ loc'[p].op \in Adding => loc'[p].num <= Cardinality(Used) + 1
    PROVE  VersionsFit'
  <1>1. Used' = Used
    BY DEF Used
  <1>2. Unborn' \in SUBSET Unborn
    BY DEF Unborn, OthersStay
  <1>3. Cardinality(Unborn') <= Cardinality(Unborn) /\ Cardinality(Unborn') \in Nat
    BY <1>2, CountsAreNumbers, FS_Subset, FS_CardinalityType
  <1>4. Cardinality(Used) + Cardinality(Unborn') <= spent.ops
    BY <1>3, CountsAreNumbers, SchedulerAssumption DEF SchedulerInv, VersionsFit, SchedulerTypes, TypeOK
  <1>5. \A v \in VersionIds : version'[v].number <= Cardinality(Used)
    BY DEF SchedulerInv, VersionsFit
  <1>6. \A q \in Admins : pc'[q] = "putVersion" /\ loc'[q].op \in Adding
                             => loc'[q].num <= Cardinality(Used) + 1
    BY DEF SchedulerInv, VersionsFit, OthersStay
  <1> QED BY <1>1, <1>4, <1>5, <1>6 DEF VersionsFit

\* A step of the pass, or of somebody at QStash.
LEMMA PassStepInv ==
    ASSUME SchedulerInv, SchedulerTypes', Steady, pc' = pc, loc' = loc, version' = version,
           spent'.ops = spent.ops, PassFits', \A s \in Schedules : OwnVersion(s, sched[s])'
    PROVE  SchedulerInv'
  <1>1. \A q \in Admins : AdminFits(q)'
    BY AdminStays
  <1>2. VersionsFit'
    <2>1. Used' = Used /\ Unborn' = Unborn
      BY DEF Used, Unborn
    <2> QED BY <2>1 DEF SchedulerInv, VersionsFit
  <1> QED BY <1>1, <1>2 DEF SchedulerInv

LEMMA GotoType ==
    ASSUME SchedulerInv, NEW p \in Admins, NEW l \in Places, Goto(p, l)
    PROVE  pc' \in [Admins -> Places] /\ pc'[p] = l /\ \A q \in Admins \ {p} : pc'[q] = pc[q]
  BY DEF Goto, SchedulerInv, SchedulerTypes

LEMMA LocalsType ==
    ASSUME SchedulerInv, NEW p \in Admins, NEW l \in Locals, loc' = [loc EXCEPT ![p] = l]
    PROVE  loc' \in [Admins -> Locals] /\ loc'[p] = l /\ \A q \in Admins \ {p} : loc'[q] = loc[q]
  BY DEF SchedulerInv, SchedulerTypes

LEMMA DisturbType ==
    ASSUME SchedulerInv, Disturb
    PROVE  rec' \in Passes /\ PassStays
  BY DEF SchedulerInv, SchedulerTypes, Disturb, Passes, PassStays

\* Return: an operation that ends, whatever else the step did.
LEMMA ReturnFits ==
    ASSUME SchedulerInv, NEW p \in Admins, Return(p)
    PROVE  /\ pc' \in [Admins -> Places] /\ loc' \in [Admins -> Locals]
           /\ OthersStay(p) /\ AdminFits(p)' /\ p \notin Unborn' /\ pc'[p] = "idle"
  <1>1. /\ pc' \in [Admins -> Places] /\ pc'[p] = "idle" /\ \A q \in Admins \ {p} : pc'[q] = pc[q]
    BY GotoType DEF Return, Places
  <1>2. /\ loc' \in [Admins -> Locals] /\ loc'[p] = NoLocals
        /\ \A q \in Admins \ {p} : loc'[q] = loc[q]
    BY LocalsType, ConstantRows DEF Return
  <1> QED BY <1>1, <1>2 DEF OthersStay, AdminFits, Unborn
-----------------------------------------------------------------------------
(* Operations begin.                                                       *)

LEMMA EnterInv ==
    ASSUME SchedulerInv, NEW p \in Admins, NEW l \in Places, NEW locals \in Locals,
           Enter(p, l, locals), UNCHANGED <<sched, version, ext>>,
           AdminFits(p)', l = "putVersion" => locals.num = 1
    PROVE  SchedulerInv'
  <1>1. Goto(p, l) /\ loc' = [loc EXCEPT ![p] = locals] /\ Disturb /\ pc[p] = "idle"
    BY DEF Enter
  <1>2. pc' \in [Admins -> Places] /\ pc'[p] = l /\ loc' \in [Admins -> Locals] /\ loc'[p] = locals
    BY <1>1, GotoType, LocalsType
  <1>3. OthersStay(p)
    BY <1>1, GotoType, LocalsType DEF OthersStay
  <1>4. rec' \in Passes /\ PassStays
    BY <1>1, DisturbType
  <1>5. /\ spent' \in [ops : 0..MaxOps, ext : 0..MaxExternal, drift : 0..MaxDrift, calm : BOOLEAN]
        /\ spent'.ops = spent.ops + 1 /\ spent.ops \in Nat
    BY SchedulerAssumption DEF Enter, SchedulerInv, SchedulerTypes, TypeOK
  <1>6. SchedulerTypes'
    BY <1>2, <1>4, <1>5 DEF SchedulerInv, SchedulerTypes, TypeOK
  <1>7. Steady
    BY DEF Steady
  <1>8. VersionsFit'
    <2>1. Used' = Used
      BY DEF Used
    <2>2. Unborn' \in SUBSET (Unborn \cup {p})
      BY <1>3 DEF Unborn, OthersStay
    <2>3. /\ IsFiniteSet(Unborn \cup {p})
          /\ Cardinality(Unborn \cup {p}) <= Cardinality(Unborn) + 1
          /\ Cardinality(Unborn \cup {p}) \in Nat
      <3>1. IsFiniteSet(Unborn \cup {p}) /\ Cardinality(Unborn \cup {p}) \in Nat
        BY CountsAreNumbers, FS_AddElement, FS_CardinalityType
      <3>2. Cardinality(Unborn \cup {p}) \in {Cardinality(Unborn), Cardinality(Unborn) + 1}
        BY CountsAreNumbers, FS_AddElement
      <3> QED BY <3>1, <3>2, CountsAreNumbers
    <2>4. Cardinality(Unborn') <= Cardinality(Unborn \cup {p}) /\ Cardinality(Unborn') \in Nat
      BY <2>2, <2>3, FS_Subset, FS_CardinalityType
    <2>5. Cardinality(Used) + Cardinality(Unborn) <= spent.ops
      BY DEF SchedulerInv, VersionsFit
    <2>6. Cardinality(Used) + Cardinality(Unborn') <= spent.ops + 1
      BY <2>3, <2>4, <2>5, <1>5, CountsAreNumbers
    <2>7. \A q \in Admins : pc'[q] = "putVersion" /\ loc'[q].op \in Adding
                             => loc'[q].num <= Cardinality(Used) + 1
      BY <1>2, <1>3, CountsAreNumbers DEF SchedulerInv, VersionsFit, OthersStay
    <2> QED BY <2>1, <2>6, <2>7, <1>5 DEF SchedulerInv, VersionsFit
  <1>9. \A s \in Schedules : OwnVersion(s, sched[s])'
    BY <1>7, RowsStayOwn
  <1> QED BY <1>3, <1>4, <1>6, <1>7, <1>8, <1>9, AdminStepInv

LEMMA EnteredLocals ==
    ASSUME SchedulerInv, NEW p \in Admins, NEW l \in Places, NEW locals \in Locals,
           Enter(p, l, locals)
    PROVE  pc'[p] = l /\ loc'[p] = locals
  BY GotoType, LocalsType DEF Enter

LEMMA DraftType ==
    ASSUME NEW op \in {"create", "duplicate"}, NEW s \in Schedules, NEW c \in Configs \cup {0},
           MaxOps > 0
    PROVE  /\ DraftOf(op, s, c) \in Locals
           /\ DraftOf(op, s, c).op = op /\ DraftOf(op, s, c).id = s /\ DraftOf(op, s, c).num = 1
           /\ DraftOf(op, s, c).vrow = [sched |-> s, number |-> 1, config |-> c, lifecycle |-> "DRAFT"]
  <1>1. [sched |-> s, number |-> 1, config |-> c, lifecycle |-> "DRAFT"] \in VersionRows
    BY SchedulerAssumption DEF VersionRows, Lifecycle
  <1>2. op \in Operations \cup {"none"} /\ s \in Schedules \cup {NoSchedule} /\ 1 \in 0..MaxOps
    BY SchedulerAssumption DEF Operations, Adding
  <1> DEFINE row == [sched |-> s, number |-> 1, config |-> c, lifecycle |-> "DRAFT"]
  <1>3. DraftOf(op, s, c) = [NoLocals EXCEPT !.op = op, !.id = s, !.num = 1, !.vrow = row]
    BY DEF DraftOf
  <1> HIDE DEF row
  <1>4. /\ DraftOf(op, s, c) \in Locals
        /\ DraftOf(op, s, c).op = op /\ DraftOf(op, s, c).id = s /\ DraftOf(op, s, c).num = 1
        /\ DraftOf(op, s, c).vrow = row
    <2>1. row \in VersionRows
      BY <1>1 DEF row
    <2> QED BY <1>2, <1>3, <2>1, ConstantRows DEF Locals
  <1> QED BY <1>4 DEF row

LEMMA DraftEntered ==
    ASSUME SchedulerInv, NEW p \in Admins, NEW op \in {"create", "duplicate"}, NEW s \in Schedules,
           NEW c \in Configs \cup {0}, Enter(p, "putVersion", DraftOf(op, s, c)),
           UNCHANGED <<sched, version, ext>>
    PROVE  SchedulerInv'
  <1>1. MaxOps > 0
    <2>1. spent.ops < MaxOps /\ spent.ops \in 0..MaxOps
      BY DEF Enter, SchedulerInv, SchedulerTypes, TypeOK
    <2> QED BY <2>1, SchedulerAssumption
  <1> DEFINE locals == DraftOf(op, s, c)
  <1>2. /\ locals \in Locals /\ locals.num = 1 /\ locals.op = op /\ locals.id = s
        /\ locals.vrow = [sched |-> s, number |-> 1, config |-> c, lifecycle |-> "DRAFT"]
    BY <1>1, DraftType
  <1>3. locals.vrow.sched = s /\ locals.vrow.number = 1
    BY <1>2
  <1> HIDE DEF locals
  <1>4. "putVersion" \in Places /\ Enter(p, "putVersion", locals)
    BY DEF locals, Places
  <1>5. pc'[p] = "putVersion" /\ loc'[p] = locals
    BY <1>2, <1>4, EnteredLocals
  <1>6. AdminFits(p)'
    BY <1>2, <1>3, <1>5 DEF AdminFits, Operations, Adding
  <1> QED BY <1>2, <1>4, <1>6, EnterInv

LEMMA CreateInv ==
    ASSUME SchedulerInv, NEW p \in Admins, NEW s \in Schedules, NEW c \in Configs, Create(p, s, c)
    PROVE  SchedulerInv'
  BY DraftEntered DEF Create

LEMMA DuplicateInv ==
    ASSUME SchedulerInv, NEW p \in Admins, NEW s \in Schedules, NEW t \in Schedules, Duplicate(p, s, t)
    PROVE  SchedulerInv'
  <1>1. version[sched[s].ver].config \in Configs \cup {0}
    BY DEF Duplicate, Existing, SchedulerInv, OwnVersion, SchedulerTypes, TypeOK, VersionRows
  <1> QED BY <1>1, DraftEntered DEF Duplicate

LEMMA BeginInv ==
    ASSUME SchedulerInv, NEW p \in Admins, NEW s \in Schedules,
           NEW op \in Operations \ {"create", "duplicate"}, Begin(p, op, s)
    PROVE  SchedulerInv'
  <1> DEFINE l == AfterRead(p, op, sched[s])
             locals == [NoLocals EXCEPT !.op = op, !.id = s, !.row = sched[s], !.ext = sched[s].ext]
  <1>1. sched[s] \in Rows /\ sched[s].ext \in Links /\ sched[s].state # "NONE"
    BY DEF Begin, Existing, SchedulerInv, SchedulerTypes, TypeOK, Rows, Links
  <1>2. /\ locals \in Locals /\ locals.op = op /\ locals.id = s /\ locals.row = sched[s]
    BY <1>1, ConstantRows DEF Locals, NoLocals, Operations
  <1>3. /\ l \in Places /\ l \in {"readVersion", "external", "put"}
        /\ l = "readVersion" => op \in {"editDraft", "validate", "enable", "disable"}
        /\ l = "external" => op \in {"pause", "resume", "disable"}
        /\ l = "put" => op \in {"pause", "resume", "delete"}
    BY DEF AfterRead, Places, Operations, Adding
  <1> HIDE DEF l, locals
  <1>4. Enter(p, l, locals) /\ UNCHANGED <<sched, version, ext>>
    BY DEF Begin, l, locals
  <1>5. pc'[p] = l /\ loc'[p] = locals
    BY <1>2, <1>3, <1>4, EnteredLocals
  <1>6. OwnVersion(s, sched[s])
    BY DEF SchedulerInv
  <1>7. AdminFits(p)'
    BY <1>1, <1>2, <1>3, <1>4, <1>5, <1>6 DEF AdminFits, OwnVersion, Operations, Adding
  <1> QED BY <1>2, <1>3, <1>4, <1>7, EnterInv
-----------------------------------------------------------------------------
(* Operations go on.                                                       *)

\* A step that leaves the tables alone.
LEMMA LocalStepInv ==
    ASSUME SchedulerInv, NEW p \in Admins, UNCHANGED <<sched, version, ext, rec, spent>>,
           pc' \in [Admins -> Places], loc' \in [Admins -> Locals], OthersStay(p), AdminFits(p)',
           p \in Unborn' => p \in Unborn,
           pc'[p] = "putVersion" /\ loc'[p].op \in Adding => loc'[p].num <= Cardinality(Used) + 1
    PROVE  SchedulerInv'
  <1>1. SchedulerTypes'
    BY DEF SchedulerInv, SchedulerTypes, TypeOK
  <1>2. Steady /\ PassStays
    BY DEF Steady, PassStays
  <1>3. VersionsFit'
    BY VersionsStayFit
  <1>4. \A s \in Schedules : OwnVersion(s, sched[s])'
    BY <1>2, RowsStayOwn
  <1> QED BY <1>1, <1>2, <1>3, <1>4, AdminStepInv

LEMMA ReturnInv ==
    ASSUME SchedulerInv, NEW p \in Admins, UNCHANGED <<sched, version, ext, rec, spent>>, Return(p)
    PROVE  SchedulerInv'
  BY ReturnFits, LocalStepInv

\* The version an operation reads is its schedule's.
LEMMA VersionRead ==
    ASSUME SchedulerInv, NEW p \in Admins, pc[p] = "readVersion"
    PROVE  /\ loc[p] \in Locals /\ loc[p].id \in Schedules
           /\ loc[p].op \in {"editDraft", "validate", "enable", "disable"}
           /\ sched[loc[p].id].ver \in VersionIds
           /\ version[sched[loc[p].id].ver].sched = loc[p].id
           /\ version[sched[loc[p].id].ver] \in VersionRows
           /\ sched[loc[p].id].state # "NONE" /\ loc[p].row.state # "NONE" /\ OwnVersion(loc[p].id, loc[p].row)
  <1>1. AdminFits(p) /\ loc[p] \in Locals
    BY DEF SchedulerInv, SchedulerTypes
  <1>2. /\ loc[p].id \in Schedules /\ loc[p].op \in {"editDraft", "validate", "enable", "disable"}
        /\ sched[loc[p].id].state # "NONE" /\ loc[p].row.state # "NONE" /\ OwnVersion(loc[p].id, loc[p].row)
    BY <1>1 DEF AdminFits
  <1>3. OwnVersion(loc[p].id, sched[loc[p].id])
    BY <1>2 DEF SchedulerInv
  <1> QED BY <1>1, <1>2, <1>3 DEF OwnVersion, SchedulerInv, SchedulerTypes, TypeOK

LEMMA ContinueInv ==
    ASSUME SchedulerInv, NEW p \in Admins, UNCHANGED <<sched, version, ext, rec, spent>>,
           pc[p] = "readVersion", NEW l, NEW life \in Lifecycle,
           \/ l = "number" /\ loc[p].op = "editDraft"
           \/ l = "putVersion" /\ loc[p].op \in {"validate", "enable", "disable"},
           Goto(p, l),
           loc' = [loc EXCEPT ![p].ver = sched[loc[p].id].ver,
                              ![p].vrow = [version[sched[loc[p].id].ver] EXCEPT !.lifecycle = life]]
    PROVE  SchedulerInv'
  <1> DEFINE s == loc[p].id
             v == sched[s].ver
             vrow == [version[v] EXCEPT !.lifecycle = life]
             locals == [loc[p] EXCEPT !.ver = v, !.vrow = vrow]
  <1>1. /\ loc[p] \in Locals /\ s \in Schedules /\ v \in VersionIds
        /\ loc[p].op \in {"editDraft", "validate", "enable", "disable"}
        /\ version[v].sched = s /\ version[v] \in VersionRows
        /\ sched[s].state # "NONE" /\ loc[p].row.state # "NONE" /\ OwnVersion(s, loc[p].row)
    BY VersionRead
  <1>2. vrow \in VersionRows /\ vrow.sched = s
    BY <1>1 DEF VersionRows
  <1>3. loc' = [loc EXCEPT ![p] = locals]
    BY DEF SchedulerInv, SchedulerTypes
  <1> HIDE DEF vrow
  <1>4. /\ locals \in Locals /\ locals.op = loc[p].op /\ locals.id = s /\ locals.row = loc[p].row
        /\ locals.ver = v /\ locals.vrow = vrow
    BY <1>1, <1>2 DEF Locals, VersionNames
  <1> HIDE DEF locals, v
  <1>5. l \in Places
    BY DEF Places
  <1>6. /\ pc' \in [Admins -> Places] /\ pc'[p] = l /\ loc' \in [Admins -> Locals]
        /\ loc'[p] = locals /\ OthersStay(p)
    BY <1>3, <1>4, <1>5, GotoType, LocalsType DEF OthersStay
  <1>7. AdminFits(p)'
    BY <1>1, <1>2, <1>4, <1>6 DEF AdminFits, OwnVersion, Operations, Adding
  <1>8. p \in Unborn' => p \in Unborn
    BY <1>4, <1>6 DEF Unborn
  <1>9. ~(pc'[p] = "putVersion" /\ loc'[p].op \in Adding)
    BY <1>4, <1>6 DEF Adding
  <1> QED BY <1>6, <1>7, <1>8, <1>9, LocalStepInv

LEMMA ReadVersionInv ==
    ASSUME SchedulerInv, NEW p \in Admins, ReadVersion(p)
    PROVE  SchedulerInv'
  <1> DEFINE s == loc[p].id
             v == sched[s].ver
             Continue(l, life) ==
                 /\ Goto(p, l)
                 /\ loc' = [loc EXCEPT ![p].ver = v, ![p].vrow = [version[v] EXCEPT !.lifecycle = life]]
  <1>1. pc[p] = "readVersion" /\ UNCHANGED <<sched, version, ext, rec, spent>>
    BY DEF ReadVersion
  <1>2. Promoted(version[v].lifecycle) \in Lifecycle
    BY <1>1, VersionRead DEF Promoted, VersionRows, Lifecycle
  <1>3. CASE loc[p].op = "editDraft"
    <2>1. Continue("number", "DRAFT")
      BY <1>3 DEF ReadVersion
    <2> QED BY <1>1, <1>3, <2>1, ContinueInv DEF Lifecycle
  <1>4. CASE loc[p].op \in {"validate", "enable"}
    <2>1. \/ Return(p)
          \/ Continue("putVersion", Promoted(version[v].lifecycle))
          \/ Continue("putVersion", "VALIDATED")
      BY <1>4 DEF ReadVersion
    <2>2. CASE Return(p)
      BY <1>1, <2>2, ReturnInv
    <2>3. CASE Continue("putVersion", Promoted(version[v].lifecycle))
      BY <1>1, <1>2, <1>4, <2>3, ContinueInv
    <2>4. CASE Continue("putVersion", "VALIDATED")
      BY <1>1, <1>4, <2>4, ContinueInv DEF Lifecycle
    <2> QED BY <2>1, <2>2, <2>3, <2>4
  <1>5. CASE loc[p].op = "disable"
    <2>1. CASE version[v].lifecycle = "ACTIVE"
      <3>1. Continue("putVersion", "DEPRECATED")
        BY <1>5, <2>1 DEF ReadVersion
      <3> QED BY <1>1, <1>5, <3>1, ContinueInv DEF Lifecycle
    <2>2. CASE version[v].lifecycle # "ACTIVE"
      <3>1. Goto(p, "put") /\ loc' = loc
        BY <1>5, <2>2 DEF ReadVersion
      <3>2. pc' \in [Admins -> Places] /\ pc'[p] = "put" /\ OthersStay(p)
        BY <3>1, GotoType DEF OthersStay, Places
      <3>3. AdminFits(p)' /\ p \notin Unborn'
        BY <1>1, <1>5, <3>1, <3>2, VersionRead DEF AdminFits, OwnVersion, Operations, Adding, Unborn
      <3>4. loc' \in [Admins -> Locals]
        BY <3>1 DEF SchedulerInv, SchedulerTypes
      <3> QED BY <1>1, <3>2, <3>3, <3>4, LocalStepInv
    <2> QED BY <2>1, <2>2
  <1> QED BY <1>1, <1>3, <1>4, <1>5, VersionRead

LEMMA ReadNumberInv ==
    ASSUME SchedulerInv, NEW p \in Admins, ReadNumber(p)
    PROVE  SchedulerInv'
  <1> DEFINE n == NextNumber(loc[p].id)
             vrow == [loc[p].vrow EXCEPT !.number = n]
             locals == [loc[p] EXCEPT !.num = n, !.vrow = vrow]
  <1>1. /\ pc[p] = "number" /\ Goto(p, "putVersion") /\ UNCHANGED <<sched, version, ext, rec, spent>>
        /\ loc' = [loc EXCEPT ![p].num = n, ![p].vrow.number = n]
    BY DEF ReadNumber, NextNumber
  <1>2. AdminFits(p) /\ loc[p] \in Locals
    BY DEF SchedulerInv, SchedulerTypes
  <1>3. /\ loc[p].op = "editDraft" /\ loc[p].id \in Schedules /\ loc[p].vrow.sched = loc[p].id
        /\ sched[loc[p].id].state # "NONE" /\ loc[p].row.state # "NONE" /\ OwnVersion(loc[p].id, loc[p].row)
    BY <1>1, <1>2 DEF AdminFits
  <1>4. p \in Unborn
    BY <1>1, <1>3 DEF Unborn, Adding
  <1>5. n \in 0..MaxOps /\ n <= Cardinality(Used) + 1
    BY <1>4, NextNumberIsNew, RoomForVersion, CountsAreNumbers, SchedulerAssumption
  <1> HIDE DEF n
  <1>6. vrow \in VersionRows /\ vrow.sched = loc[p].id /\ vrow.number = n
    BY <1>2, <1>3, <1>5 DEF Locals, VersionRows
  <1>7. loc' = [loc EXCEPT ![p] = locals]
    BY <1>1, <1>2 DEF SchedulerInv, SchedulerTypes, Locals
  <1> HIDE DEF vrow
  <1>8. /\ locals \in Locals /\ locals.op = loc[p].op /\ locals.id = loc[p].id /\ locals.row = loc[p].row
        /\ locals.num = n /\ locals.vrow = vrow
    BY <1>2, <1>5, <1>6 DEF Locals
  <1> HIDE DEF locals
  <1>9. /\ pc' \in [Admins -> Places] /\ pc'[p] = "putVersion" /\ loc' \in [Admins -> Locals]
        /\ loc'[p] = locals /\ OthersStay(p)
    <2>1. /\ pc' \in [Admins -> Places] /\ pc'[p] = "putVersion"
          /\ \A q \in Admins \ {p} : pc'[q] = pc[q]
      BY <1>1, GotoType DEF Places
    <2>2. /\ loc' \in [Admins -> Locals] /\ loc'[p] = locals
          /\ \A q \in Admins \ {p} : loc'[q] = loc[q]
      BY <1>7, <1>8, LocalsType
    <2> QED BY <2>1, <2>2 DEF OthersStay
  <1>10. AdminFits(p)'
    BY <1>1, <1>3, <1>6, <1>8, <1>9 DEF AdminFits, OwnVersion, Operations, Adding
  <1>11. loc'[p].num <= Cardinality(Used) + 1
    BY <1>5, <1>8, <1>9
  <1> QED BY <1>1, <1>4, <1>9, <1>10, <1>11, LocalStepInv

LEMMA PutNewVersionInv ==
    ASSUME SchedulerInv, NEW p \in Admins, NEW c \in Configs, PutNewVersion(p, c)
    PROVE  SchedulerInv'
  <1> DEFINE v == Min(UnusedVersion)
             row == [loc[p].vrow EXCEPT !.config = c]
             locals == [loc[p] EXCEPT !.ver = v]
  <1>1. /\ pc[p] = "putVersion" /\ loc[p].op \in Adding /\ UNCHANGED <<sched, ext, rec, spent>>
    BY DEF PutNewVersion, Adding
  <1>2. CASE Return(p) /\ UNCHANGED version
    BY <1>1, <1>2, ReturnInv
  <1>3. CASE /\ version' = [version EXCEPT ![v] = row]
             /\ loc' = [loc EXCEPT ![p].ver = v]
             /\ Goto(p, "put")
    <2>1. AdminFits(p) /\ loc[p] \in Locals
      BY DEF SchedulerInv, SchedulerTypes
    <2>2. /\ loc[p].id \in Schedules /\ loc[p].vrow.sched = loc[p].id
          /\ loc[p].num = loc[p].vrow.number /\ loc[p].vrow \in VersionRows
          /\ loc[p].op \notin {"create", "duplicate"} =>
                sched[loc[p].id].state # "NONE" /\ loc[p].row.state # "NONE" /\ OwnVersion(loc[p].id, loc[p].row)
      BY <1>1, <2>1 DEF AdminFits, Locals
    <2>3. p \in Unborn
      BY <1>1 DEF Unborn
    <2>4. v \in VersionIds /\ version[v].sched = NoSchedule /\ Cardinality(Used) + 1 <= MaxOps
      BY <2>3, RoomForVersion
    <2> HIDE DEF v
    <2>5. row \in VersionRows /\ row.sched = loc[p].id /\ row.number = loc[p].num
      BY <2>2 DEF VersionRows
    <2> HIDE DEF row
    <2>6. /\ locals \in Locals /\ locals.op = loc[p].op /\ locals.id = loc[p].id
          /\ locals.row = loc[p].row /\ locals.ver = v
      BY <2>1, <2>4 DEF Locals, VersionNames
    <2>7. loc' = [loc EXCEPT ![p] = locals]
      BY <1>3 DEF SchedulerInv, SchedulerTypes
    <2> HIDE DEF locals
    <2>8. /\ pc' \in [Admins -> Places] /\ pc'[p] = "put" /\ loc' \in [Admins -> Locals]
          /\ loc'[p] = locals /\ OthersStay(p)
      BY <1>3, <2>6, <2>7, GotoType, LocalsType DEF OthersStay, Places
    <2>9. /\ version' \in [VersionIds -> VersionRows] /\ version'[v] = row
          /\ \A w \in VersionIds \ {v} : version'[w] = version[w]
      BY <1>3, <2>4, <2>5 DEF SchedulerInv, SchedulerTypes, TypeOK
    <2>10. SchedulerTypes'
      BY <1>1, <2>8, <2>9 DEF SchedulerInv, SchedulerTypes, TypeOK
    <2>11. Steady /\ PassStays
      BY <1>1, <2>4, <2>9 DEF Steady, PassStays
    <2>12. \A s \in Schedules : OwnVersion(s, sched[s])'
      BY <1>1, <2>11, RowsStayOwn
    <2>13. loc[p].op \notin {"create", "duplicate"} => OwnVersion(loc[p].id, loc[p].row)'
      BY <2>2, <2>4, <2>6, <2>8, <2>9, SchedulerAssumption DEF OwnVersion
    <2>14. AdminFits(p)'
      BY <1>1, <2>2, <2>4, <2>5, <2>6, <2>8, <2>9, <2>13 DEF AdminFits, OwnVersion, Operations, Adding
    <2>15. VersionsFit'
      <3>1. Used' = Used \cup {v} /\ v \notin Used
        BY <2>2, <2>4, <2>5, <2>9, SchedulerAssumption DEF Used
      <3>2. Cardinality(Used') = Cardinality(Used) + 1
        BY <3>1, CountsAreNumbers, FS_AddElement
      <3>3. Unborn' = Unborn \ {p}
        BY <2>8 DEF Unborn, OthersStay
      <3>4. Cardinality(Unborn') = Cardinality(Unborn) - 1
        BY <3>3, <2>3, CountsAreNumbers, FS_RemoveElement
      <3>5. Cardinality(Used') + Cardinality(Unborn') <= spent'.ops
        BY <1>1, <3>2, <3>4, CountsAreNumbers DEF SchedulerInv, VersionsFit
      <3>6. loc[p].num <= Cardinality(Used) + 1
        BY <1>1 DEF SchedulerInv, VersionsFit
      <3>7. \A w \in VersionIds : version[w].number \in Nat /\ version[w].number <= Cardinality(Used)
        BY SchedulerAssumption DEF SchedulerInv, VersionsFit, SchedulerTypes, TypeOK, VersionRows
      <3>8. \A w \in VersionIds : version'[w].number <= Cardinality(Used) + 1
        <4> TAKE w \in VersionIds
        <4>1. CASE w = v
          BY <4>1, <2>5, <2>9, <3>6
        <4>2. CASE w # v
          BY <4>2, <2>9, <3>7, CountsAreNumbers
        <4> QED BY <4>1, <4>2
      <3>9. \A q \in Admins : pc'[q] = "putVersion" /\ loc'[q].op \in Adding =>
                                  loc'[q].num <= Cardinality(Used) + 2
        <4> SUFFICES ASSUME NEW q \in Admins, pc'[q] = "putVersion" /\ loc'[q].op \in Adding
                     PROVE  loc'[q].num <= Cardinality(Used) + 2
          OBVIOUS
        <4>1. q # p /\ pc[q] = "putVersion" /\ loc[q].op \in Adding /\ loc'[q].num = loc[q].num
          BY <2>8 DEF OthersStay
        <4>2. loc[q].num <= Cardinality(Used) + 1 /\ loc[q].num \in Nat
          BY <4>1, SchedulerAssumption DEF SchedulerInv, VersionsFit, SchedulerTypes, Locals
        <4> QED BY <4>1, <4>2, CountsAreNumbers
      <3>10. Cardinality(Used) + 2 = Cardinality(Used') + 1
        BY <3>2, CountsAreNumbers
      <3> QED BY <3>2, <3>5, <3>8, <3>9, <3>10 DEF VersionsFit
    <2> QED BY <2>8, <2>10, <2>11, <2>12, <2>14, <2>15, AdminStepInv
  <1> QED BY <1>2, <1>3 DEF PutNewVersion

LEMMA PutLifecycleInv ==
    ASSUME SchedulerInv, NEW p \in Admins, PutLifecycle(p)
    PROVE  SchedulerInv'
  <1> DEFINE v == loc[p].ver
             life == loc[p].vrow.lifecycle
  <1>1. /\ pc[p] = "putVersion" /\ loc[p].op \in {"validate", "enable", "disable"}
        /\ version' = [version EXCEPT ![v].lifecycle = life]
        /\ UNCHANGED <<sched, ext, rec, spent>>
    BY DEF PutLifecycle
  <1>2. AdminFits(p) /\ loc[p] \in Locals
    BY DEF SchedulerInv, SchedulerTypes
  <1>3. /\ loc[p].id \in Schedules /\ v \in VersionIds /\ version[v].sched = loc[p].id
        /\ sched[loc[p].id].state # "NONE" /\ loc[p].row.state # "NONE" /\ OwnVersion(loc[p].id, loc[p].row)
        /\ life \in Lifecycle
    BY <1>1, <1>2 DEF AdminFits, Locals, VersionRows
  <1> HIDE DEF life
  <1>4. /\ version' \in [VersionIds -> VersionRows]
        /\ \A w \in VersionIds : /\ version'[w].sched = version[w].sched
                                 /\ version'[w].number = version[w].number
                                 /\ version'[w].config = version[w].config
    <2>1. [version[v] EXCEPT !.lifecycle = life] \in VersionRows
      BY <1>3 DEF SchedulerInv, SchedulerTypes, TypeOK, VersionRows
    <2>2. version' = [version EXCEPT ![v] = [version[v] EXCEPT !.lifecycle = life]]
      BY <1>1, <1>3 DEF SchedulerInv, SchedulerTypes, TypeOK
    <2>3. /\ [version[v] EXCEPT !.lifecycle = life].sched = version[v].sched
          /\ [version[v] EXCEPT !.lifecycle = life].number = version[v].number
          /\ [version[v] EXCEPT !.lifecycle = life].config = version[v].config
      BY <1>3 DEF SchedulerInv, SchedulerTypes, TypeOK, VersionRows
    <2> QED BY <2>1, <2>2, <2>3, <1>3 DEF SchedulerInv, SchedulerTypes, TypeOK
  <1>5. Steady /\ PassStays
    BY <1>1, <1>4 DEF Steady, PassStays
  <1>6. \A s \in Schedules : OwnVersion(s, sched[s])'
    BY <1>1, <1>5, RowsStayOwn
  <1>7. /\ pc' \in [Admins -> Places] /\ loc' \in [Admins -> Locals] /\ OthersStay(p)
        /\ AdminFits(p)' /\ p \notin Unborn' /\ pc'[p] # "putVersion"
    <2>1. CASE loc[p].op = "validate" /\ Return(p)
      BY <2>1, ReturnFits
    <2>2. CASE \/ loc[p].op = "enable" /\ Goto(p, IF p \in Attached THEN "external" ELSE "put") /\ UNCHANGED loc
               \/ loc[p].op = "disable" /\ Goto(p, "put") /\ UNCHANGED loc
      <3>1. PICK l \in {"external", "put"} : Goto(p, l) /\ (l = "external" => loc[p].op = "enable")
        BY <2>2
      <3>2. loc' = loc /\ loc[p].op \in {"enable", "disable"}
        BY <2>2
      <3>3. pc' \in [Admins -> Places] /\ pc'[p] = l /\ OthersStay(p)
        BY <3>1, <3>2, GotoType DEF OthersStay, Places
      <3>4. OwnVersion(loc[p].id, loc[p].row)'
        BY <1>3, <1>4, <3>2 DEF OwnVersion
      <3>5. AdminFits(p)'
        BY <1>1, <1>3, <1>4, <3>1, <3>2, <3>3, <3>4 DEF AdminFits, OwnVersion, Operations, Adding
      <3> QED BY <3>1, <3>2, <3>3, <3>5 DEF Unborn, SchedulerInv, SchedulerTypes
    <2> QED BY <1>1, <2>1, <2>2 DEF PutLifecycle
  <1>8. SchedulerTypes'
    BY <1>1, <1>4, <1>7 DEF SchedulerInv, SchedulerTypes, TypeOK
  <1>9. VersionsFit'
    BY <1>1, <1>4, <1>7, VersionsStayFit
  <1> QED BY <1>5, <1>6, <1>7, <1>8, <1>9, AdminStepInv
-----------------------------------------------------------------------------
(* QStash.                                                                 *)

Budgets == [ops : 0..MaxOps, ext : 0..MaxExternal, drift : 0..MaxDrift, calm : BOOLEAN]

LEMMA CreateType ==
    ASSUME SchedulerInv, NEW s \in Schedules, NEW c \in Configs \cup {0}, ExternalIdLeft,
           ExternalCreate(s, c)
    PROVE  /\ ext' \in [ExternalIds -> ExternalRows] /\ NewExternalId(s) \in ExternalIds
           /\ spent' \in Budgets /\ spent'.ops = spent.ops /\ spent'.calm = spent.calm
  <1> DEFINE x == [live |-> TRUE, sched |-> s, config |-> c, paused |-> FALSE]
  <1>1. x \in ExternalRows
    BY DEF ExternalRows
  <1>2. NewExternalId(s) \in ExternalIds
    BY SchedulerAssumption DEF NewExternalId, ExternalIds, ExternalIdLeft, SchedulerInv, SchedulerTypes, TypeOK
  <1>3. ext' = [ext EXCEPT ![NewExternalId(s)] = x]
    BY DEF ExternalCreate
  <1> HIDE DEF x
  <1>4. ext' \in [ExternalIds -> ExternalRows]
    BY <1>1, <1>2, <1>3 DEF SchedulerInv, SchedulerTypes, TypeOK
  <1>5. spent' \in Budgets /\ spent'.ops = spent.ops /\ spent'.calm = spent.calm
    BY SchedulerAssumption DEF ExternalCreate, ExternalIdLeft, Budgets, SchedulerInv, SchedulerTypes, TypeOK
  <1> QED BY <1>2, <1>4, <1>5

LEMMA ExternalChangeType ==
    ASSUME SchedulerInv, NEW e, NEW b \in BOOLEAN, NEW c \in Configs \cup {0},
           \/ ExternalSetPaused(e, b) \/ ExternalUpdate(e, c) \/ ExternalRemove(e)
    PROVE  ext' \in [ExternalIds -> ExternalRows]
  <1>1. ext \in [ExternalIds -> ExternalRows] /\ NoExternalRow \in ExternalRows
    BY ConstantRows DEF SchedulerInv, SchedulerTypes, TypeOK
  <1>2. e \in ExternalIds => /\ [ext[e] EXCEPT !.paused = b] \in ExternalRows
                             /\ [ext[e] EXCEPT !.config = c] \in ExternalRows
    BY <1>1 DEF ExternalRows
  <1>3. CASE ExternalSetPaused(e, b)
    BY <1>1, <1>2, <1>3 DEF ExternalSetPaused
  <1>4. CASE ExternalUpdate(e, c)
    BY <1>1, <1>2, <1>4 DEF ExternalUpdate
  <1>5. CASE ExternalRemove(e)
    BY <1>1, <1>5 DEF ExternalRemove
  <1> QED BY <1>3, <1>4, <1>5

\* The place after the call of QStash fits.
LEMMA CallExternalInv ==
    ASSUME SchedulerInv, NEW p \in Admins, CallExternal(p)
    PROVE  SchedulerInv'
  <1>1. pc[p] = "external" /\ UNCHANGED <<sched, version, rec>>
    BY DEF CallExternal
  <1>2. AdminFits(p) /\ loc[p] \in Locals
    BY DEF SchedulerInv, SchedulerTypes
  <1>3. /\ loc[p].op \in {"enable", "pause", "resume", "disable"} /\ loc[p].id \in Schedules
        /\ sched[loc[p].id].state # "NONE" /\ loc[p].row.state # "NONE" /\ OwnVersion(loc[p].id, loc[p].row)
        /\ loc[p].op = "enable" => loc[p].ver \in VersionIds /\ version[loc[p].ver].sched = loc[p].id
    BY <1>1, <1>2 DEF AdminFits
  <1>4. loc[p].vrow.config \in Configs \cup {0} /\ (loc[p].op = "pause") \in BOOLEAN
    BY <1>2 DEF Locals, VersionRows
  <1>5. \E l \in {"put", "readVersion"}, x \in Links :
            /\ Goto(p, l) /\ (l = "readVersion" => loc[p].op = "disable")
            /\ loc' = [loc EXCEPT ![p].ext = x]
    <2>1. CASE loc[p].op = "enable" /\ ExternalIdLeft /\ ExternalCreate(loc[p].id, loc[p].vrow.config)
      BY <1>3, <1>4, <2>1, CreateType DEF CallExternal, Links
    <2>2. CASE loc' = loc
      <3>1. loc' = [loc EXCEPT ![p].ext = loc[p].ext] /\ loc[p].ext \in Links
        BY <1>2, <2>2 DEF SchedulerInv, SchedulerTypes, Locals
      <3> QED BY <3>1, <2>2, <1>3 DEF CallExternal
    <2> QED BY <1>1, <2>1, <2>2 DEF CallExternal
  <1>6. PICK l \in {"put", "readVersion"}, x \in Links :
            /\ Goto(p, l) /\ (l = "readVersion" => loc[p].op = "disable")
            /\ loc' = [loc EXCEPT ![p].ext = x]
    BY <1>5
  <1> DEFINE locals == [loc[p] EXCEPT !.ext = x]
  <1>7. /\ locals \in Locals /\ locals.op = loc[p].op /\ locals.id = loc[p].id
        /\ locals.row = loc[p].row /\ locals.ver = loc[p].ver
    BY <1>2 DEF Locals
  <1>8. loc' = [loc EXCEPT ![p] = locals]
    BY <1>6 DEF SchedulerInv, SchedulerTypes
  <1> HIDE DEF locals
  <1>9. /\ pc' \in [Admins -> Places] /\ pc'[p] = l /\ loc' \in [Admins -> Locals]
        /\ loc'[p] = locals /\ OthersStay(p)
    <2>1. /\ pc' \in [Admins -> Places] /\ pc'[p] = l
          /\ \A q \in Admins \ {p} : pc'[q] = pc[q]
      BY <1>6, GotoType DEF Places
    <2>2. /\ loc' \in [Admins -> Locals] /\ loc'[p] = locals
          /\ \A q \in Admins \ {p} : loc'[q] = loc[q]
      BY <1>7, <1>8, LocalsType
    <2> QED BY <2>1, <2>2 DEF OthersStay
  <1>10. AdminFits(p)'
    BY <1>1, <1>3, <1>6, <1>7, <1>9 DEF AdminFits, OwnVersion, Operations, Adding
  <1>11. ext' \in [ExternalIds -> ExternalRows] /\ spent' \in Budgets /\ spent'.ops = spent.ops
    <2>1. CASE loc[p].op = "enable" /\ ExternalIdLeft /\ ExternalCreate(loc[p].id, loc[p].vrow.config)
      BY <1>3, <1>4, <2>1, CreateType
    <2>2. CASE /\ \/ ExternalSetPaused(loc[p].ext, loc[p].op = "pause") \/ ExternalRemove(loc[p].ext)
               /\ spent' = spent
      <3>1. ext' \in [ExternalIds -> ExternalRows]
        BY <1>4, <2>2, ExternalChangeType
      <3> QED BY <2>2, <3>1 DEF Budgets, SchedulerInv, SchedulerTypes, TypeOK
    <2> QED BY <1>1, <2>1, <2>2 DEF CallExternal
  <1>12. SchedulerTypes'
    BY <1>1, <1>9, <1>11 DEF SchedulerInv, SchedulerTypes, TypeOK, Budgets
  <1>13. Steady /\ PassStays
    BY <1>1 DEF Steady, PassStays
  <1>14. p \notin Unborn'
    BY <1>3, <1>6, <1>7, <1>9 DEF Unborn, Adding
  <1>15. VersionsFit'
    BY <1>1, <1>6, <1>9, <1>11, <1>14, VersionsStayFit
  <1>16. \A s \in Schedules : OwnVersion(s, sched[s])'
    BY <1>1, <1>13, RowsStayOwn
  <1> QED BY <1>9, <1>10, <1>12, <1>13, <1>15, <1>16, AdminStepInv

\* The row an operation puts is there and names a version of the schedule.
LEMMA NewRowFits ==
    ASSUME SchedulerInv, NEW p \in Admins, pc[p] = "put"
    PROVE  /\ loc[p].id \in Schedules /\ NewRow(p) \in Rows
           /\ NewRow(p).state # "NONE" /\ OwnVersion(loc[p].id, NewRow(p))
  <1>1. AdminFits(p) /\ loc[p] \in Locals
    BY DEF SchedulerInv, SchedulerTypes
  <1>2. /\ loc[p].op \in Operations \ {"validate"} /\ loc[p].id \in Schedules
        /\ loc[p].op \notin {"create", "duplicate"} =>
              loc[p].row.state # "NONE" /\ OwnVersion(loc[p].id, loc[p].row)
        /\ loc[p].op \in Adding \cup {"enable"} =>
              loc[p].ver \in VersionIds /\ version[loc[p].ver].sched = loc[p].id
    BY <1>1 DEF AdminFits
  <1>3. /\ loc[p].row \in Rows /\ loc[p].ver \in VersionIds \cup {NoVersion} /\ loc[p].num \in 0..MaxOps
        /\ loc[p].ext \in ExternalIds \cup {NoExternal} /\ NoExternal \in ExternalIds \cup {NoExternal}
    BY <1>1 DEF Locals, VersionNames, Links
  <1>4. CASE loc[p].op \in {"create", "duplicate"}
    <2>1. NewRow(p) = [NoRow EXCEPT !.state = "DRAFT", !.ver = loc[p].ver, !.num = 1]
      BY <1>4 DEF NewRow
    <2>2. loc[p].ver \in VersionIds /\ version[loc[p].ver].sched = loc[p].id
      BY <1>2, <1>4 DEF Adding
    <2>3. 1 \in 0..MaxOps
      BY <2>2, SchedulerAssumption DEF VersionIds
    <2> QED BY <1>2, <2>1, <2>2, <2>3, ConstantRows DEF Rows, OwnVersion, ScheduleState
  <1>5. CASE loc[p].op = "editDraft"
    <2>1. NewRow(p) = [loc[p].row EXCEPT !.ver = loc[p].ver, !.num = loc[p].num]
      BY <1>5 DEF NewRow
    <2> QED BY <1>2, <1>3, <1>5, <2>1 DEF Rows, OwnVersion, Adding
  <1>6. CASE loc[p].op = "enable"
    <2>1. NewRow(p) = [loc[p].row EXCEPT !.state = "ACTIVE", !.ext = loc[p].ext,
                                        !.paused = FALSE, !.ver = loc[p].ver]
      BY <1>6 DEF NewRow
    <2> QED BY <1>2, <1>3, <1>6, <2>1 DEF Rows, OwnVersion, ScheduleState
  <1>7. CASE loc[p].op \in {"pause", "resume", "disable", "delete"}
    <2>1. NewRow(p) \in Rows /\ NewRow(p).state # "NONE" /\ NewRow(p).ver = loc[p].row.ver
      BY <1>3, <1>7 DEF NewRow, Rows, ScheduleState
    <2> QED BY <1>2, <1>7, <2>1 DEF OwnVersion
  <1> QED BY <1>2, <1>4, <1>5, <1>6, <1>7 DEF Operations, Adding

LEMMA PutScheduleInv ==
    ASSUME SchedulerInv, NEW p \in Admins, PutSchedule(p)
    PROVE  SchedulerInv'
  <1> DEFINE row == NewRow(p)
             s == loc[p].id
  <1>1. /\ pc[p] = "put" /\ sched' = [sched EXCEPT ![s] = row] /\ Return(p)
        /\ UNCHANGED <<version, ext, rec, spent>>
    BY DEF PutSchedule
  <1>2. s \in Schedules /\ row \in Rows /\ row.state # "NONE" /\ OwnVersion(s, row)
    BY <1>1, NewRowFits
  <1> HIDE DEF row, s
  <1>3. /\ sched' \in [Schedules -> Rows] /\ sched'[s] = row
        /\ \A t \in Schedules \ {s} : sched'[t] = sched[t]
    BY <1>1, <1>2 DEF SchedulerInv, SchedulerTypes, TypeOK
  <1>4. Steady /\ PassStays
    BY <1>1, <1>2, <1>3 DEF Steady, PassStays
  <1>5. \A t \in Schedules : OwnVersion(t, sched[t])'
    BY <1>1, <1>2, <1>3 DEF OwnVersion, SchedulerInv
  <1>6. SchedulerTypes'
    BY <1>1, <1>3, ReturnFits DEF SchedulerInv, SchedulerTypes, TypeOK
  <1>7. VersionsFit'
    BY <1>1, ReturnFits, VersionsStayFit
  <1> QED BY <1>1, <1>4, <1>5, <1>6, <1>7, ReturnFits, AdminStepInv

LEMMA CrashInv ==
    ASSUME SchedulerInv, NEW p \in Admins, Crash(p)
    PROVE  SchedulerInv'
  <1>1. Return(p) /\ UNCHANGED <<sched, version, ext, rec>>
    BY DEF Crash
  <1>2. spent' \in Budgets /\ spent'.ops = spent.ops
    BY DEF Crash, SchedulerInv, SchedulerTypes, TypeOK, Budgets
  <1>3. Steady /\ PassStays
    BY <1>1 DEF Steady, PassStays
  <1>4. SchedulerTypes'
    BY <1>1, <1>2, ReturnFits DEF SchedulerInv, SchedulerTypes, TypeOK, Budgets
  <1>5. VersionsFit'
    BY <1>1, <1>2, ReturnFits, VersionsStayFit
  <1> QED BY <1>1, <1>3, <1>4, <1>5, RowsStayOwn, ReturnFits, AdminStepInv

LEMMA DriftInv ==
    ASSUME SchedulerInv, NEW e \in ExternalIds, Drift(e)
    PROVE  SchedulerInv'
  <1>1. UNCHANGED <<sched, version, pc, loc>> /\ Disturb
    BY DEF Drift
  <1>2. spent' \in Budgets /\ spent'.ops = spent.ops
    <2> DEFINE d == spent.drift + 1
    <2>0. spent \in Budgets /\ d \in 0..MaxDrift
      BY SchedulerAssumption DEF Drift, SchedulerInv, SchedulerTypes, TypeOK, Budgets
    <2> HIDE DEF d
    <2>1. CASE spent' = [spent EXCEPT !.drift = d, !.calm = FALSE]
      BY <2>0, <2>1 DEF Budgets
    <2>2. CASE e = spent.ext + 1 /\ spent' = [spent EXCEPT !.drift = d, !.ext = e, !.calm = FALSE]
      <3>1. e \in 0..MaxExternal
        <4>1. spent.ext \in Nat
          BY <2>0, SchedulerAssumption DEF Budgets
        <4>2. e \in 1..MaxExternal \/ e \in Schedules
          BY DEF ExternalIds
        <4>3. CASE e \in 1..MaxExternal
          BY <4>3, SchedulerAssumption
        <4>4. CASE e \in Schedules
          BY <4>1, <4>4, <2>2, SchedulerAssumption
        <4> QED BY <4>2, <4>3, <4>4
      <3> QED BY <2>0, <2>2, <3>1 DEF Budgets
    <2> QED BY <2>1, <2>2 DEF Drift, d
  <1>3. ext' \in [ExternalIds -> ExternalRows]
    <2>1. ext[e] \in ExternalRows
      BY DEF SchedulerInv, SchedulerTypes, TypeOK
    <2>2. CASE \E c \in Configs : ExternalUpdate(e, c)
      BY <2>2, ExternalChangeType
    <2>3. CASE ExternalSetPaused(e, ~ext[e].paused)
      BY <2>1, <2>3, ExternalChangeType DEF ExternalRows
    <2>4. CASE ExternalRemove(e)
      BY <2>4, ConstantRows DEF ExternalRemove, SchedulerInv, SchedulerTypes, TypeOK
    <2>5. CASE \E c \in Configs : ext' = [ext EXCEPT ![e] = [live |-> TRUE, sched |-> NoSchedule,
                                                            config |-> c, paused |-> FALSE]]
      BY <2>5 DEF ExternalRows, SchedulerInv, SchedulerTypes, TypeOK
    <2> QED BY <2>2, <2>3, <2>4, <2>5 DEF Drift
  <1>4. SchedulerTypes'
    BY <1>1, <1>2, <1>3, DisturbType DEF SchedulerInv, SchedulerTypes, TypeOK, Budgets
  <1>5. Steady /\ PassFits'
    BY <1>1, DisturbType, PassStaysFit DEF Steady
  <1> QED BY <1>1, <1>2, <1>4, <1>5, RowsStayOwn, PassStepInv
-----------------------------------------------------------------------------
(* The pass.                                                               *)

\* A step of the pass that leaves the table alone.
LEMMA QuietPassInv ==
    ASSUME SchedulerInv, UNCHANGED <<sched, version, pc, loc>>, rec' \in Passes, PassFits',
           ext' \in [ExternalIds -> ExternalRows], spent' \in Budgets, spent'.ops = spent.ops
    PROVE  SchedulerInv'
  <1>1. SchedulerTypes'
    BY DEF SchedulerInv, SchedulerTypes, TypeOK, Budgets
  <1>2. Steady
    BY DEF Steady
  <1> QED BY <1>1, <1>2, RowsStayOwn, PassStepInv

LEMMA NoPassFits ==
    ASSUME rec' \in {NoPass, [NoPass EXCEPT !.pc = "done", !.repair = rec.repair,
                                            !.found = rec.found, !.clean = rec.clean]}
    PROVE  PassFits'
  <1>1. NoPass.pc = "idle" /\ NoPass.todo = {} /\ NoPass.db = [s \in Schedules |-> NoRow]
    BY DEF NoPass
  <1>2. rec'.pc \in {"idle", "done"} /\ rec'.todo = {} /\ rec'.db = NoPass.db
    BY <1>1, ConstantRows DEF Passes
  <1> QED BY <1>1, <1>2 DEF PassFits, OwnVersion, NoRow

LEMMA ReconcileListInv ==
    ASSUME SchedulerInv, NEW repair \in BOOLEAN, ReconcileList(repair)
    PROVE  SchedulerInv'
  <1> DEFINE db == [s \in Schedules |-> IF s \in Listed THEN sched[s] ELSE NoRow]
             clean == \A p \in Admins : pc[p] = "idle"
  <1>1. /\ rec' = [NoPass EXCEPT !.pc = "list", !.repair = repair, !.db = db, !.clean = clean]
        /\ UNCHANGED <<sched, version, ext, pc, loc>>
    BY DEF ReconcileList, adminVars
  <1>2. db \in [Schedules -> Rows] /\ clean \in BOOLEAN
    BY ConstantRows DEF SchedulerInv, SchedulerTypes, TypeOK
  <1>3. \A s \in Schedules : OwnVersion(s, db[s]) /\ (db[s].state # "NONE" => sched[s].state # "NONE")
    BY DEF SchedulerInv, OwnVersion, NoRow
  <1> HIDE DEF db, clean
  <1>4. rec' \in Passes /\ rec'.pc = "list" /\ rec'.db = db /\ rec'.todo = {}
    BY <1>1, <1>2, ConstantRows DEF NoPass, Passes, PassPlaces
  <1>5. PassFits'
    BY <1>1, <1>3, <1>4 DEF PassFits, OwnVersion
  <1>6. spent' \in Budgets /\ spent'.ops = spent.ops
    BY DEF ReconcileList, SchedulerInv, SchedulerTypes, TypeOK, Budgets
  <1> QED BY <1>1, <1>4, <1>5, <1>6, QuietPassInv DEF SchedulerInv, SchedulerTypes, TypeOK

LEMMA ReconcileListExternalInv ==
    ASSUME SchedulerInv, ReconcileListExternal
    PROVE  SchedulerInv'
  <1> DEFINE todo == {s \in Schedules : rec.db[s].state # "NONE"}
  <1>1. /\ rec' = [rec EXCEPT !.pc = "next", !.ext = ext, !.todo = todo]
        /\ UNCHANGED <<sched, version, ext, pc, loc, spent>>
    BY DEF ReconcileListExternal, adminVars
  <1>2. todo \subseteq Schedules /\ \A s \in todo : rec.db[s].state # "NONE"
    OBVIOUS
  <1> HIDE DEF todo
  <1>3. rec' \in Passes /\ rec'.pc = "next" /\ rec'.todo = todo /\ rec'.db = rec.db
    BY <1>1, <1>2 DEF SchedulerInv, SchedulerTypes, TypeOK, Passes, PassPlaces
  <1>4. PassFits'
    BY <1>1, <1>2, <1>3 DEF PassFits, OwnVersion, SchedulerInv
  <1> QED BY <1>1, <1>3, <1>4, QuietPassInv DEF SchedulerInv, SchedulerTypes, TypeOK, Budgets

LEMMA ReconcileNextInv ==
    ASSUME SchedulerInv, NEW s \in Schedules, ReconcileNext(s)
    PROVE  SchedulerInv'
  <1>1. rec \in Passes /\ PassFits /\ rec.pc = "next" /\ s \in rec.todo
    BY DEF ReconcileNext, SchedulerInv, SchedulerTypes
  <1>2. UNCHANGED <<sched, version, ext, pc, loc, spent>>
    BY DEF ReconcileNext, adminVars
  <1>3. rec.db[s].state # "NONE" /\ sched[s].ver \in VersionIds
    BY <1>1 DEF PassFits, SchedulerInv, OwnVersion
  <1>4. /\ rec' \in Passes /\ rec'.db = rec.db /\ rec'.id = s /\ rec'.todo \subseteq rec.todo
        /\ rec'.ver = sched[s].ver /\ rec'.pc \in {"missing", "config"}
        /\ rec'.pc = "config" => rec'.link \in ExternalIds
    <2>1. CASE rec' = [rec EXCEPT !.id = s, !.todo = @ \ {s}, !.ver = sched[s].ver,
                                  !.pc = "missing", !.found = TRUE]
      BY <1>1, <1>3, <2>1 DEF Passes, PassPlaces, VersionNames
    <2>2. CASE \E e \in Linked(s) :
                   rec' = [rec EXCEPT !.id = s, !.todo = @ \ {s}, !.ver = sched[s].ver,
                                      !.pc = "config", !.link = e]
      <3>1. PICK e \in Linked(s) : rec' = [rec EXCEPT !.id = s, !.todo = @ \ {s}, !.ver = sched[s].ver,
                                                     !.pc = "config", !.link = e]
        BY <2>2
      <3>2. e \in ExternalIds
        BY <1>1 DEF Linked, Passes, Rows
      <3> QED BY <1>1, <1>3, <3>1, <3>2 DEF Passes, PassPlaces, VersionNames, Links
    <2> QED BY <2>1, <2>2 DEF ReconcileNext
  <1>5. PassFits'
    BY <1>1, <1>2, <1>3, <1>4 DEF PassFits, OwnVersion
  <1> QED BY <1>2, <1>4, <1>5, QuietPassInv DEF SchedulerInv, SchedulerTypes, TypeOK, Budgets

LEMMA ReconcileMissingInv ==
    ASSUME SchedulerInv, ReconcileMissing
    PROVE  SchedulerInv'
  <1>1. rec \in Passes /\ PassFits /\ rec.pc = "missing"
    BY DEF ReconcileMissing, SchedulerInv, SchedulerTypes
  <1>2. UNCHANGED <<sched, version, pc, loc>>
    BY DEF ReconcileMissing, adminVars
  <1>3. rec.id \in Schedules /\ rec.db[rec.id].state # "NONE" /\ rec.ver \in VersionIds
    BY <1>1 DEF PassFits
  <1>4. version[rec.ver].config \in Configs \cup {0}
    BY <1>3 DEF SchedulerInv, SchedulerTypes, TypeOK, VersionRows
  <1>5. CASE /\ ExternalIdLeft /\ ExternalCreate(rec.id, version[rec.ver].config)
             /\ rec' = [rec EXCEPT !.pc = "relink", !.link = NewExternalId(rec.id)]
    <2>1. /\ ext' \in [ExternalIds -> ExternalRows] /\ NewExternalId(rec.id) \in ExternalIds
          /\ spent' \in Budgets /\ spent'.ops = spent.ops
      BY <1>3, <1>4, <1>5, CreateType
    <2>2. /\ rec' \in Passes /\ rec'.db = rec.db /\ rec'.id = rec.id /\ rec'.todo = rec.todo
          /\ rec'.ver = rec.ver /\ rec'.pc = "relink" /\ rec'.link \in ExternalIds
      BY <1>1, <1>5, <2>1 DEF Passes, PassPlaces, Links
    <2>3. PassFits'
      BY <1>1, <1>2, <1>3, <2>2 DEF PassFits, OwnVersion
    <2> QED BY <1>2, <2>1, <2>2, <2>3, QuietPassInv
  <1>6. CASE rec' = [rec EXCEPT !.pc = "next"] /\ UNCHANGED <<ext, spent>>
    <2>1. rec' \in Passes /\ rec'.db = rec.db /\ rec'.todo = rec.todo /\ rec'.pc = "next"
      BY <1>1, <1>6 DEF Passes, PassPlaces
    <2>2. PassFits'
      BY <1>1, <1>2, <2>1 DEF PassFits, OwnVersion
    <2> QED BY <1>2, <1>6, <2>1, <2>2, QuietPassInv DEF SchedulerInv, SchedulerTypes, TypeOK, Budgets
  <1> QED BY <1>5, <1>6 DEF ReconcileMissing

LEMMA ReconcileRelinkInv ==
    ASSUME SchedulerInv, ReconcileRelink
    PROVE  SchedulerInv'
  <1> DEFINE s == rec.id
             row == [rec.db[s] EXCEPT !.ext = rec.link]
  <1>1. rec \in Passes /\ PassFits /\ rec.pc = "relink"
    BY DEF ReconcileRelink, SchedulerInv, SchedulerTypes
  <1>2. /\ UNCHANGED <<version, ext, pc, loc, spent>> /\ rec' = [rec EXCEPT !.pc = "next"]
        /\ sched' = [sched EXCEPT ![s] = row]
    BY DEF ReconcileRelink, adminVars
  <1>3. /\ s \in Schedules /\ rec.db[s].state # "NONE" /\ rec.db[s] \in Rows
        /\ OwnVersion(s, rec.db[s]) /\ rec.link \in ExternalIds
    BY <1>1 DEF PassFits, Passes
  <1>4. row \in Rows /\ row.state # "NONE" /\ OwnVersion(s, row)
    BY <1>3 DEF Rows, OwnVersion
  <1> HIDE DEF row
  <1>5. /\ sched' \in [Schedules -> Rows] /\ sched'[s] = row
        /\ \A t \in Schedules \ {s} : sched'[t] = sched[t]
    BY <1>2, <1>3, <1>4 DEF SchedulerInv, SchedulerTypes, TypeOK
  <1>6. Steady /\ \A t \in Schedules : OwnVersion(t, sched[t])'
    BY <1>2, <1>3, <1>4, <1>5 DEF Steady, OwnVersion, SchedulerInv
  <1>7. rec' \in Passes /\ rec'.db = rec.db /\ rec'.todo = rec.todo /\ rec'.pc = "next"
    BY <1>1, <1>2 DEF Passes, PassPlaces
  <1>8. PassFits'
    BY <1>1, <1>2, <1>6, <1>7 DEF PassFits, OwnVersion, Steady
  <1>9. SchedulerTypes'
    BY <1>2, <1>5, <1>7 DEF SchedulerInv, SchedulerTypes, TypeOK
  <1> QED BY <1>2, <1>6, <1>8, <1>9, PassStepInv

\* ReconcileConfig and ReconcilePaused.
LEMMA ReconcileCompareInv ==
    ASSUME SchedulerInv, ReconcileConfig \/ ReconcilePaused
    PROVE  SchedulerInv'
  <1>1. rec \in Passes /\ PassFits /\ rec.pc \in {"config", "paused"}
    BY DEF ReconcileConfig, ReconcilePaused, SchedulerInv, SchedulerTypes
  <1>2. UNCHANGED <<sched, version, pc, loc, spent>>
    BY DEF ReconcileConfig, ReconcilePaused, adminVars
  <1>3. /\ rec.id \in Schedules /\ rec.db[rec.id].state # "NONE" /\ rec.ver \in VersionIds
        /\ rec.link \in ExternalIds
    BY <1>1 DEF PassFits
  <1>4. version[rec.ver].config \in Configs \cup {0}
    BY <1>3 DEF SchedulerInv, SchedulerTypes, TypeOK, VersionRows
  <1>5. PICK f \in BOOLEAN : \/ rec' = [rec EXCEPT !.pc = "paused", !.found = f]
                             \/ rec' = [rec EXCEPT !.pc = "next", !.found = f]
    BY <1>1 DEF ReconcileConfig, ReconcilePaused, Passes
  <1>6. /\ rec' \in Passes /\ rec'.db = rec.db /\ rec'.todo = rec.todo /\ rec'.pc \in {"paused", "next"}
        /\ rec'.id = rec.id /\ rec'.ver = rec.ver /\ rec'.link = rec.link
    BY <1>1, <1>5 DEF Passes, PassPlaces
  <1>7. PassFits'
    BY <1>1, <1>2, <1>3, <1>6 DEF PassFits, OwnVersion
  <1>8. ext' \in [ExternalIds -> ExternalRows]
    <2>1. CASE ext' = ext
      BY <2>1 DEF SchedulerInv, SchedulerTypes, TypeOK
    <2>2. CASE ExternalUpdate(rec.link, version[rec.ver].config)
      BY <2>2, <1>4, ExternalChangeType
    <2>3. CASE ExternalSetPaused(rec.link, rec.db[rec.id].state = "PAUSED")
      BY <2>3, <1>4, ExternalChangeType
    <2> QED BY <2>1, <2>2, <2>3 DEF ReconcileConfig, ReconcilePaused
  <1> QED BY <1>2, <1>6, <1>7, <1>8, QuietPassInv DEF SchedulerInv, SchedulerTypes, TypeOK, Budgets

LEMMA ReconcileOrphanInv ==
    ASSUME SchedulerInv, NEW e \in ExternalIds, ReconcileOrphan(e)
    PROVE  SchedulerInv'
  <1>1. rec \in Passes /\ PassFits /\ rec.pc = "next"
    BY DEF ReconcileOrphan, SchedulerInv, SchedulerTypes
  <1>2. /\ UNCHANGED <<sched, version, pc, loc, spent>>
        /\ rec' = [rec EXCEPT !.found = TRUE, !.ext[e] = NoExternalRow]
    BY DEF ReconcileOrphan, adminVars
  <1>3. [rec.ext EXCEPT ![e] = NoExternalRow] \in [ExternalIds -> ExternalRows]
    BY <1>1, ConstantRows DEF Passes
  <1>4. rec' \in Passes /\ rec'.db = rec.db /\ rec'.todo = rec.todo /\ rec'.pc = "next"
    BY <1>1, <1>2, <1>3 DEF Passes
  <1>5. PassFits'
    BY <1>1, <1>2, <1>4 DEF PassFits, OwnVersion
  <1>6. ext' \in [ExternalIds -> ExternalRows]
    BY ConstantRows DEF ReconcileOrphan, ExternalRemove, SchedulerInv, SchedulerTypes, TypeOK
  <1> QED BY <1>2, <1>4, <1>5, <1>6, QuietPassInv DEF SchedulerInv, SchedulerTypes, TypeOK, Budgets

\* ReconcileEnd and ReconcileReturn.
LEMMA ReconcileEndInv ==
    ASSUME SchedulerInv, ReconcileEnd \/ ReconcileReturn
    PROVE  SchedulerInv'
  <1>1. UNCHANGED <<sched, version, ext, pc, loc, spent>>
    BY DEF ReconcileEnd, ReconcileReturn, adminVars
  <1>2. rec' \in {NoPass, [NoPass EXCEPT !.pc = "done", !.repair = rec.repair,
                                         !.found = rec.found, !.clean = rec.clean]}
    BY DEF ReconcileEnd, ReconcileReturn
  <1>3. PassFits'
    BY <1>2, NoPassFits
  <1>4. rec \in Passes /\ NoPass \in Passes
    BY ConstantRows DEF SchedulerInv, SchedulerTypes
  <1>5. rec' \in Passes
    <2> DEFINE x == [NoPass EXCEPT !.pc = "done", !.repair = rec.repair,
                                   !.found = rec.found, !.clean = rec.clean]
    <2>1. rec.repair \in BOOLEAN /\ rec.found \in BOOLEAN /\ rec.clean \in BOOLEAN
      BY <1>4 DEF Passes
    <2>2. x \in Passes
      BY <1>4, <2>1 DEF Passes, PassPlaces
    <2> QED BY <1>2, <1>4, <2>2
  <1> QED BY <1>1, <1>3, <1>5, QuietPassInv DEF SchedulerInv, SchedulerTypes, TypeOK, Budgets
-----------------------------------------------------------------------------
(* The types.                                                              *)

LEMMA InitSchedulerInv == Init => SchedulerInv
  <1> SUFFICES ASSUME Init PROVE SchedulerInv
    OBVIOUS
  <1>1. SchedulerTypes
    BY ConstantRows, SchedulerAssumption DEF Init, SchedulerTypes, TypeOK, Places
  <1>2. \A s \in Schedules : OwnVersion(s, sched[s])
    BY DEF Init, OwnVersion, NoRow
  <1>3. \A p \in Admins : AdminFits(p)
    BY DEF Init, AdminFits
  <1>4. PassFits
    BY DEF Init, PassFits, NoPass, OwnVersion, NoRow
  <1>5. VersionsFit
    <2>1. Used = {} /\ Unborn = {}
      BY DEF Init, Used, Unborn, NoVersionRow
    <2> QED BY <2>1, FS_EmptySet DEF Init, VersionsFit, NoVersionRow
  <1> QED BY <1>1, <1>2, <1>3, <1>4, <1>5 DEF SchedulerInv

LEMMA AskInv ==
    ASSUME SchedulerInv, NEW p \in Admins, Ask(p)
    PROVE  SchedulerInv'
  <1>1. PICK s \in Schedules :
            \/ \E c \in Configs : Create(p, s, c)
            \/ \E t \in Schedules : Duplicate(p, s, t)
            \/ \E op \in Operations \ {"create", "duplicate"} : Begin(p, op, s)
    BY DEF Ask, Operations, Adding
  <1> QED BY <1>1, CreateInv, DuplicateInv, BeginInv

LEMMA WorkInv ==
    ASSUME SchedulerInv, NEW p \in Admins, Work(p)
    PROVE  SchedulerInv'
  BY ReadVersionInv, ReadNumberInv, PutLifecycleInv, CallExternalInv, PutScheduleInv,
     PutNewVersionInv DEF Work

LEMMA ReconcileInv ==
    ASSUME SchedulerInv, Reconcile
    PROVE  SchedulerInv'
  BY ReconcileListExternalInv, ReconcileNextInv, ReconcileMissingInv, ReconcileRelinkInv,
     ReconcileCompareInv, ReconcileOrphanInv, ReconcileEndInv DEF Reconcile

LEMMA NextSchedulerInv == SchedulerInv /\ [Next]_vars => SchedulerInv'
  <1> SUFFICES ASSUME SchedulerInv, [Next]_vars PROVE SchedulerInv'
    OBVIOUS
  <1>1. CASE \E p \in Admins : Ask(p) \/ Work(p) \/ Crash(p)
    BY <1>1, AskInv, WorkInv, CrashInv
  <1>2. CASE \E e \in ExternalIds : Drift(e)
    BY <1>2, DriftInv
  <1>3. CASE \E repair \in BOOLEAN : ReconcileList(repair)
    BY <1>3, ReconcileListInv
  <1>4. CASE Reconcile
    BY <1>4, ReconcileInv
  <1>5. CASE UNCHANGED vars
    BY <1>5 DEF vars, SchedulerInv, SchedulerTypes, TypeOK, OwnVersion, AdminFits, PassFits,
                VersionsFit, Used, Unborn
  <1> QED BY <1>1, <1>2, <1>3, <1>4, <1>5 DEF Next

LEMMA SpecSchedulerInv == Spec => []SchedulerInv
  BY InitSchedulerInv, NextSchedulerInv, PTL DEF Spec

\* Whatever the number of admins and schedules, with operations that die, changes
\* by hand and repairing passes: the three tables hold rows of their types.  A
\* version that is about to be added always has an id, since every version was
\* added by an operation of its own (VersionsFit).
THEOREM SchedulerTypeCorrect == Spec => []TypeOK
  <1>1. SchedulerInv => TypeOK
    BY DEF SchedulerInv, SchedulerTypes
  <1> QED BY <1>1, SpecSchedulerInv, PTL
-----------------------------------------------------------------------------
(* What a step of an operation does to its locals.                         *)

Keeps(p) ==
    /\ loc'[p].op = loc[p].op /\ loc'[p].id = loc[p].id /\ loc'[p].row = loc[p].row

LEMMA ReturnEffect ==
    ASSUME SchedulerInv, NEW p \in Admins, Return(p)
    PROVE  pc'[p] = "idle" /\ loc'[p] = NoLocals
  BY GotoType, LocalsType, ConstantRows DEF Return, Places

LEMMA ReadVersionEffect ==
    ASSUME SchedulerInv, NEW p \in Admins, ReadVersion(p)
    PROVE  /\ pc[p] = "readVersion" /\ UNCHANGED <<sched, version, ext, rec, spent>>
           /\ \/ Return(p)
              \/ /\ Keeps(p) /\ loc'[p].num = loc[p].num /\ loc'[p].ext = loc[p].ext
                 /\ pc'[p] = "number" /\ loc[p].op = "editDraft"
              \/ /\ Keeps(p) /\ loc'[p].num = loc[p].num /\ loc'[p].ext = loc[p].ext
                 /\ pc'[p] = "putVersion" /\ loc[p].op \in {"validate", "enable", "disable"}
                 /\ loc'[p].ver = sched[loc[p].id].ver
                 /\ loc'[p].vrow.config = version[loc'[p].ver].config
              \/ pc'[p] = "put" /\ loc[p].op = "disable" /\ loc' = loc
  <1> DEFINE s == loc[p].id
             v == sched[s].ver
             vrow(life) == [version[v] EXCEPT !.lifecycle = life]
             Continue(l, life) ==
                 /\ Goto(p, l)
                 /\ loc' = [loc EXCEPT ![p].ver = v, ![p].vrow = vrow(life)]
             OnwardTo(l) ==
                 /\ Keeps(p) /\ loc'[p].num = loc[p].num /\ loc'[p].ext = loc[p].ext
                 /\ pc'[p] = l /\ loc'[p].ver = v /\ loc'[p].vrow.config = version[v].config
  <1>1. pc[p] = "readVersion" /\ UNCHANGED <<sched, version, ext, rec, spent>>
    BY DEF ReadVersion
  <1>2. loc \in [Admins -> Locals] /\ version[v] \in VersionRows
    BY <1>1, VersionRead DEF SchedulerInv, SchedulerTypes
  <1>3. ASSUME NEW life, NEW l \in Places, Continue(l, life)
        PROVE  OnwardTo(l)
    <2>1. vrow(life).config = version[v].config
      BY <1>2 DEF VersionRows
    <2>2. loc'[p] = [loc[p] EXCEPT !.ver = v, !.vrow = vrow(life)]
      BY <1>2, <1>3
    <2> HIDE DEF vrow, v, s
    <2>3. /\ Keeps(p) /\ loc'[p].num = loc[p].num /\ loc'[p].ext = loc[p].ext
          /\ loc'[p].ver = v /\ loc'[p].vrow = vrow(life)
      BY <1>2, <2>2 DEF Keeps, Locals
    <2>4. pc'[p] = l
      BY <1>3, GotoType
    <2> QED BY <2>1, <2>3, <2>4
  <1>4. \/ Return(p)
        \/ loc[p].op = "editDraft" /\ \E life : Continue("number", life)
        \/ loc[p].op \in {"validate", "enable", "disable"} /\ \E life : Continue("putVersion", life)
        \/ loc[p].op = "disable" /\ Goto(p, "put") /\ loc' = loc
    <2> HIDE DEF vrow
    <2>1. /\ loc[p].op = "editDraft" => Continue("number", "DRAFT")
          /\ loc[p].op \in {"validate", "enable"} =>
                \/ Return(p) \/ Continue("putVersion", Promoted(version[v].lifecycle))
                \/ Continue("putVersion", "VALIDATED")
          /\ loc[p].op = "disable" =>
                Continue("putVersion", "DEPRECATED") \/ (Goto(p, "put") /\ loc' = loc)
      BY DEF ReadVersion, vrow
    <2> HIDE DEF Continue
    <2> QED BY <1>1, <2>1, VersionRead
  <1> HIDE DEF Continue
  <1>5. Goto(p, "put") => pc'[p] = "put"
    BY GotoType DEF Places
  <1>6. {"number", "putVersion"} \subseteq Places
    BY DEF Places
  <1> QED BY <1>1, <1>3, <1>4, <1>5, <1>6

LEMMA ReadNumberEffect ==
    ASSUME SchedulerInv, NEW p \in Admins, ReadNumber(p)
    PROVE  /\ pc[p] = "number" /\ UNCHANGED <<sched, version, ext, rec, spent>>
           /\ Keeps(p) /\ pc'[p] = "putVersion" /\ loc'[p].num = NextNumber(loc[p].id)
           /\ loc[p].op = "editDraft"
  <1>1. /\ pc[p] = "number" /\ Goto(p, "putVersion") /\ UNCHANGED <<sched, version, ext, rec, spent>>
        /\ loc' = [loc EXCEPT ![p].num = NextNumber(loc[p].id), ![p].vrow.number = NextNumber(loc[p].id)]
    BY DEF ReadNumber, NextNumber
  <1>2. pc'[p] = "putVersion"
    BY <1>1, GotoType DEF Places
  <1>3. Keeps(p) /\ loc'[p].num = NextNumber(loc[p].id)
    BY <1>1 DEF Keeps, SchedulerInv, SchedulerTypes, Locals
  <1>4. loc[p].op = "editDraft"
    BY <1>1 DEF SchedulerInv, AdminFits
  <1> QED BY <1>1, <1>2, <1>3, <1>4

LEMMA PutNewVersionEffect ==
    ASSUME SchedulerInv, NEW p \in Admins, NEW c \in Configs, PutNewVersion(p, c)
    PROVE  /\ pc[p] = "putVersion" /\ loc[p].op \in Adding /\ UNCHANGED <<sched, ext, rec, spent>>
           /\ \/ Return(p) /\ version' = version
              \/ \E v \in VersionIds :
                    /\ version[v].sched = NoSchedule
                    /\ version'[v].sched = loc[p].id /\ version'[v].number = loc[p].num
                    /\ \A w \in VersionIds \ {v} : version'[w] = version[w]
                    /\ Keeps(p) /\ pc'[p] = "put" /\ loc'[p].num = loc[p].num /\ loc'[p].ver = v
                    /\ loc'[p].ext = loc[p].ext
  <1> DEFINE v == Min(UnusedVersion)
             row == [loc[p].vrow EXCEPT !.config = c]
  <1>1. /\ pc[p] = "putVersion" /\ loc[p].op \in Adding /\ UNCHANGED <<sched, ext, rec, spent>>
    BY DEF PutNewVersion, Adding
  <1>2. CASE Return(p) /\ UNCHANGED version
    BY <1>1, <1>2
  <1>3. CASE /\ version' = [version EXCEPT ![v] = row]
             /\ loc' = [loc EXCEPT ![p].ver = v]
             /\ Goto(p, "put")
    <2>1. p \in Unborn
      BY <1>1 DEF Unborn
    <2>2. v \in VersionIds /\ version[v].sched = NoSchedule
      BY <2>1, RoomForVersion
    <2> HIDE DEF v
    <2>3. row.sched = loc[p].id /\ row.number = loc[p].num
      BY <1>1 DEF SchedulerInv, AdminFits, SchedulerTypes, Locals, VersionRows
    <2> HIDE DEF row
    <2>4. version'[v] = row /\ \A w \in VersionIds \ {v} : version'[w] = version[w]
      BY <1>3, <2>2 DEF SchedulerInv, SchedulerTypes, TypeOK
    <2>5. Keeps(p) /\ loc'[p].num = loc[p].num /\ loc'[p].ver = v /\ loc'[p].ext = loc[p].ext
      BY <1>3 DEF Keeps, SchedulerInv, SchedulerTypes, Locals
    <2>6. pc'[p] = "put"
      BY <1>3, GotoType DEF Places
    <2> QED BY <1>1, <2>2, <2>3, <2>4, <2>5, <2>6
  <1> QED BY <1>2, <1>3 DEF PutNewVersion

LEMMA PutLifecycleEffect ==
    ASSUME SchedulerInv, NEW p \in Admins, PutLifecycle(p)
    PROVE  /\ pc[p] = "putVersion" /\ loc[p].op \in {"validate", "enable", "disable"}
           /\ UNCHANGED <<sched, ext, rec, spent>>
           /\ \A w \in VersionIds : /\ version'[w].sched = version[w].sched
                                    /\ version'[w].number = version[w].number
                                    /\ version'[w].config = version[w].config
           /\ \/ Return(p)
              \/ loc' = loc /\ loc[p].op = "enable" /\ pc'[p] = IF p \in Attached THEN "external" ELSE "put"
              \/ loc' = loc /\ loc[p].op = "disable" /\ pc'[p] = "put"
  <1> DEFINE v == loc[p].ver
             row == [version[v] EXCEPT !.lifecycle = loc[p].vrow.lifecycle]
  <1>1. /\ pc[p] = "putVersion" /\ loc[p].op \in {"validate", "enable", "disable"}
        /\ version' = [version EXCEPT ![v].lifecycle = loc[p].vrow.lifecycle]
        /\ UNCHANGED <<sched, ext, rec, spent>>
    BY DEF PutLifecycle
  <1>2. v \in VersionIds
    BY <1>1 DEF SchedulerInv, AdminFits
  <1>3. row.sched = version[v].sched /\ row.number = version[v].number /\ row.config = version[v].config
    BY <1>2 DEF SchedulerInv, SchedulerTypes, TypeOK, VersionRows
  <1>4. version'[v] = row /\ \A w \in VersionIds \ {v} : version'[w] = version[w]
    BY <1>1, <1>2 DEF SchedulerInv, SchedulerTypes, TypeOK
  <1> HIDE DEF row
  <1>5. \A w \in VersionIds : /\ version'[w].sched = version[w].sched
                              /\ version'[w].number = version[w].number
                              /\ version'[w].config = version[w].config
    BY <1>3, <1>4
  <1>6. \A l \in {"external", "put"} : Goto(p, l) => pc'[p] = l
    BY GotoType DEF Places
  <1> QED BY <1>1, <1>5, <1>6 DEF PutLifecycle

LEMMA CallExternalEffect ==
    ASSUME SchedulerInv, NEW p \in Admins, CallExternal(p)
    PROVE  /\ pc[p] = "external" /\ UNCHANGED <<sched, version, rec>> /\ Keeps(p)
           /\ loc'[p].num = loc[p].num /\ loc'[p].ver = loc[p].ver
           /\ \/ /\ loc[p].op = "enable" /\ pc'[p] = "put" /\ ExternalIdLeft
                 /\ ExternalCreate(loc[p].id, loc[p].vrow.config)
                 /\ loc'[p].ext = NewExternalId(loc[p].id)
              \/ /\ loc[p].op \in {"pause", "resume"} /\ pc'[p] = "put"
                 /\ ExternalSetPaused(loc[p].ext, loc[p].op = "pause") /\ loc' = loc /\ spent' = spent
              \/ /\ loc[p].op = "disable" /\ pc'[p] = "readVersion"
                 /\ ExternalRemove(loc[p].ext) /\ loc' = loc /\ spent' = spent
  <1>1. pc[p] = "external" /\ UNCHANGED <<sched, version, rec>>
    BY DEF CallExternal
  <1>2. \A l \in {"put", "readVersion"} : Goto(p, l) => pc'[p] = l
    BY GotoType DEF Places
  <1>3. loc' = loc => Keeps(p) /\ loc'[p].num = loc[p].num /\ loc'[p].ver = loc[p].ver
    BY DEF Keeps
  <1>4. ASSUME NEW x, loc' = [loc EXCEPT ![p].ext = x]
        PROVE  /\ Keeps(p) /\ loc'[p].num = loc[p].num /\ loc'[p].ver = loc[p].ver /\ loc'[p].ext = x
    BY <1>4 DEF Keeps, SchedulerInv, SchedulerTypes, Locals
  <1> QED BY <1>1, <1>2, <1>3, <1>4 DEF CallExternal
-----------------------------------------------------------------------------
(* One admin at a time: the versions of a schedule are numbered.           *)

OneAdmin == \E p \in Admins : Admins = {p}

Drafting == {"create", "duplicate"}

\* The row an operation has read still names the current version, and the
\* version it is about to put has a number of its own.
AdminIsCurrent(p) ==
    LET l == loc[p]  s == loc[p].id IN
    pc[p] # "idle" =>
       /\ l.op \in Drafting => sched[s].state = "NONE" /\ l.num = 1
       /\ l.op \in Drafting /\ pc[p] = "putVersion" => VersionsOf(s) = {}
       /\ l.op \notin Drafting =>
              /\ l.row.ver = sched[s].ver /\ l.row.num = sched[s].num
              /\ l.op \in {"editDraft", "enable"} => l.row.state = "DRAFT"
              /\ l.row.state = "DRAFT" <=> sched[s].state = "DRAFT"
       /\ l.op = "editDraft" /\ pc[p] = "putVersion" =>
              \A v \in VersionsOf(s) : version[v].number < l.num
       /\ l.op \in Adding /\ pc[p] = "put" => version[l.ver].number = l.num
       /\ l.op = "enable" /\ pc[p] \in {"putVersion", "external", "put"} => l.ver = sched[s].ver

\* The rows a pass may put back name the current version: a listed schedule is
\* past editing.
PassIsCurrent ==
    \A s \in Schedules : rec.db[s].state # "NONE" =>
        /\ sched[s].state # "DRAFT" /\ rec.db[s].state # "DRAFT"
        /\ rec.db[s].ver = sched[s].ver /\ rec.db[s].num = sched[s].num

NumberInv ==
    /\ VersionsAreNumbered
    /\ \A p \in Admins : AdminIsCurrent(p)
    /\ PassIsCurrent

\* A step that leaves the table and the numbers of versions alone.
LEMMA NumbersStay ==
    ASSUME NumberInv, NEW p, Admins = {p}, sched' = sched, rec'.db = rec.db,
           \A w \in VersionIds : version'[w].sched = version[w].sched /\ version'[w].number = version[w].number,
           SchedulerInv, AdminIsCurrent(p)'
    PROVE  NumberInv'
  <1>1. \A s \in Existing : sched[s].ver \in VersionIds
    BY DEF Existing, SchedulerInv, OwnVersion
  <1>2. Existing' = Existing
    BY DEF Existing
  <1>3. VersionsAreNumbered'
    BY <1>1, <1>2 DEF NumberInv, VersionsAreNumbered
  <1> QED BY <1>3 DEF NumberInv, PassIsCurrent

LEMMA IdleIsCurrent ==
    ASSUME SchedulerInv, NumberInv, NEW p, Admins = {p}, sched' = sched, version' = version,
           rec'.db = rec.db, Return(p)
    PROVE  NumberInv'
  <1>1. AdminIsCurrent(p)'
    BY ReturnEffect DEF AdminIsCurrent
  <1> QED BY <1>1, NumbersStay

LEMMA DraftEffect ==
    ASSUME SchedulerInv, NEW p \in Admins, NEW op \in {"create", "duplicate"}, NEW s \in Schedules,
           NEW c \in Configs \cup {0}, Enter(p, "putVersion", DraftOf(op, s, c))
    PROVE  /\ pc'[p] = "putVersion" /\ loc'[p].op = op /\ loc'[p].id = s /\ loc'[p].num = 1
           /\ rec'.db = rec.db /\ rec'.repair = rec.repair /\ rec'.pc = rec.pc
           /\ spent' = [spent EXCEPT !.ops = @ + 1] /\ pc[p] = "idle"
  <1>1. MaxOps > 0
    <2>1. spent.ops < MaxOps /\ spent.ops \in 0..MaxOps
      BY DEF Enter, SchedulerInv, SchedulerTypes, TypeOK
    <2> QED BY <2>1, SchedulerAssumption
  <1> DEFINE locals == DraftOf(op, s, c)
  <1>2. /\ locals \in Locals /\ locals.op = op /\ locals.id = s /\ locals.num = 1
        /\ locals.vrow = [sched |-> s, number |-> 1, config |-> c, lifecycle |-> "DRAFT"]
    BY <1>1, DraftType
  <1> HIDE DEF locals
  <1>3. "putVersion" \in Places /\ Enter(p, "putVersion", locals)
    BY DEF locals, Places
  <1>4. pc'[p] = "putVersion" /\ loc'[p] = locals
    BY <1>2, <1>3, EnteredLocals
  <1>5. pc[p] = "idle" /\ spent' = [spent EXCEPT !.ops = @ + 1] /\ Disturb
    BY <1>3 DEF Enter
  <1>6. rec'.db = rec.db /\ rec'.repair = rec.repair /\ rec'.pc = rec.pc
    BY <1>5 DEF Disturb, SchedulerInv, SchedulerTypes, Passes
  <1> QED BY <1>2, <1>4, <1>5, <1>6

LEMMA DraftIsCurrent ==
    ASSUME SchedulerInv, NumberInv, NEW p, Admins = {p}, NEW op \in {"create", "duplicate"},
           NEW s \in Schedules, NEW c \in Configs \cup {0}, Fresh(s),
           Enter(p, "putVersion", DraftOf(op, s, c)), UNCHANGED <<sched, version, ext>>
    PROVE  NumberInv'
  <1>1. p \in Admins
    OBVIOUS
  <1>2. /\ pc'[p] = "putVersion" /\ loc'[p].op = op /\ loc'[p].id = s /\ loc'[p].num = 1
        /\ rec'.db = rec.db
    BY <1>1, DraftEffect
  <1>3. sched[s].state = "NONE" /\ \A v \in VersionIds : version[v].sched # s
    BY DEF Fresh, Existing
  <1>4. AdminIsCurrent(p)'
    BY <1>2, <1>3 DEF AdminIsCurrent, Drafting, Adding, VersionsOf
  <1> QED BY <1>2, <1>4, NumbersStay

LEMMA BeginEffect ==
    ASSUME SchedulerInv, NEW p \in Admins, NEW s \in Schedules,
           NEW op \in Operations \ Drafting, Begin(p, op, s)
    PROVE  /\ UNCHANGED <<sched, version, ext>> /\ pc[p] = "idle"
           /\ sched[s].state # "NONE" /\ sched[s].state \in AllowedFrom(op)
           /\ loc'[p].op = op /\ loc'[p].id = s /\ loc'[p].row = sched[s] /\ loc'[p].ext = sched[s].ext
           /\ pc'[p] = AfterRead(p, op, sched[s]) /\ pc'[p] \in {"readVersion", "external", "put"}
           /\ rec'.db = rec.db /\ rec'.repair = rec.repair /\ rec'.pc = rec.pc
           /\ spent' = [spent EXCEPT !.ops = @ + 1]
  <1> DEFINE l == AfterRead(p, op, sched[s])
             locals == [NoLocals EXCEPT !.op = op, !.id = s, !.row = sched[s], !.ext = sched[s].ext]
  <1>1. sched[s] \in Rows /\ sched[s].ext \in Links
    BY DEF SchedulerInv, SchedulerTypes, TypeOK, Rows, Links
  <1>2. /\ locals \in Locals /\ locals.op = op /\ locals.id = s /\ locals.row = sched[s]
        /\ locals.ext = sched[s].ext
    BY <1>1, ConstantRows DEF Locals, Operations, Drafting
  <1>3. l \in Places /\ l \in {"readVersion", "external", "put"}
    BY DEF AfterRead, Places, Operations, Adding, Drafting
  <1>4. Enter(p, l, locals)
    BY DEF Begin
  <1> HIDE DEF l, locals
  <1>5. pc'[p] = l /\ loc'[p] = locals
    BY <1>2, <1>3, <1>4, EnteredLocals
  <1>6. pc[p] = "idle" /\ spent' = [spent EXCEPT !.ops = @ + 1] /\ Disturb
    BY <1>4 DEF Enter
  <1>7. rec'.db = rec.db /\ rec'.repair = rec.repair /\ rec'.pc = rec.pc
    BY <1>6 DEF Disturb, SchedulerInv, SchedulerTypes, Passes
  <1>8. /\ UNCHANGED <<sched, version, ext>> /\ sched[s].state # "NONE"
        /\ sched[s].state \in AllowedFrom(op)
    BY DEF Begin, Existing
  <1> QED BY <1>2, <1>3, <1>5, <1>6, <1>7, <1>8 DEF l

LEMMA AskNumber ==
    ASSUME SchedulerInv, NumberInv, NEW p, Admins = {p}, Ask(p)
    PROVE  NumberInv'
  <1>1. PICK s \in Schedules :
            \/ \E c \in Configs : Create(p, s, c)
            \/ \E t \in Schedules : Duplicate(p, s, t)
            \/ \E op \in Operations \ Drafting : Begin(p, op, s)
    BY DEF Ask, Operations, Adding, Drafting
  <1>2. CASE \E c \in Configs : Create(p, s, c)
    BY <1>2, DraftIsCurrent DEF Create, Drafting
  <1>3. CASE \E t \in Schedules : Duplicate(p, s, t)
    <2>1. PICK t \in Schedules : Duplicate(p, s, t)
      BY <1>3
    <2>2. version[sched[s].ver].config \in Configs \cup {0}
      BY <2>1 DEF Duplicate, Existing, SchedulerInv, OwnVersion, SchedulerTypes, TypeOK, VersionRows
    <2> QED BY <2>1, <2>2, DraftIsCurrent DEF Duplicate, Drafting
  <1>4. CASE \E op \in Operations \ Drafting : Begin(p, op, s)
    <2>1. PICK op \in Operations \ Drafting : Begin(p, op, s)
      BY <1>4
    <2>2. op \in {"editDraft", "enable"} => sched[s].state = "DRAFT"
      BY <2>1, BeginEffect DEF AllowedFrom
    <2>3. pc'[p] = "put" => op \notin Adding
      BY <2>1, BeginEffect DEF AfterRead, Adding, Operations, Drafting
    <2>4. pc'[p] = "external" => op # "enable"
      BY <2>1, BeginEffect DEF AfterRead
    <2>5. pc'[p] = "put" => op # "enable"
      BY <2>1, BeginEffect DEF AfterRead
    <2>6. AdminIsCurrent(p)'
      BY <2>1, <2>2, <2>3, <2>4, <2>5, BeginEffect DEF AdminIsCurrent
    <2> QED BY <2>1, <2>6, BeginEffect, NumbersStay
  <1> QED BY <1>1, <1>2, <1>3, <1>4

LEMMA ReadVersionNumber ==
    ASSUME SchedulerInv, NumberInv, NEW p, Admins = {p}, ReadVersion(p)
    PROVE  NumberInv'
  <1>1. CASE Return(p)
    BY <1>1, ReadVersionEffect, IdleIsCurrent
  <1>2. CASE ~Return(p)
    <2>1. AdminIsCurrent(p)
      BY DEF NumberInv
    <2>2. AdminIsCurrent(p)'
      BY <1>2, <2>1, ReadVersionEffect DEF AdminIsCurrent, Keeps, Drafting, Adding
    <2> QED BY <2>2, ReadVersionEffect, NumbersStay
  <1> QED BY <1>1, <1>2

LEMMA ReadNumberNumber ==
    ASSUME SchedulerInv, NumberInv, NEW p, Admins = {p}, ReadNumber(p)
    PROVE  NumberInv'
  <1>1. AdminIsCurrent(p)
    BY DEF NumberInv
  <1>2. /\ loc'[p].op = loc[p].op /\ loc'[p].row = loc[p].row /\ pc'[p] = "putVersion"
        /\ loc'[p].id = loc[p].id /\ loc'[p].num = NextNumber(loc[p].id)
        /\ loc[p].op = "editDraft" /\ pc[p] = "number" /\ sched' = sched /\ version' = version
    BY ReadNumberEffect DEF Keeps
  <1>3. \A v \in VersionIds : version[v].sched = loc[p].id => version[v].number < NextNumber(loc[p].id)
    BY NextNumberIsNew DEF VersionsOf
  <1>4. AdminIsCurrent(p)'
    BY <1>1, <1>2, <1>3 DEF AdminIsCurrent, Drafting, VersionsOf
  <1> QED BY <1>4, ReadNumberEffect, NumbersStay

LEMMA PutNewVersionNumber ==
    ASSUME SchedulerInv, NumberInv, NEW p, Admins = {p}, NEW c \in Configs, PutNewVersion(p, c)
    PROVE  NumberInv'
  <1>1. CASE Return(p) /\ version' = version
    BY <1>1, PutNewVersionEffect, IdleIsCurrent
  <1>2. CASE \E v \in VersionIds :
                    /\ version[v].sched = NoSchedule
                    /\ version'[v].sched = loc[p].id /\ version'[v].number = loc[p].num
                    /\ \A w \in VersionIds \ {v} : version'[w] = version[w]
                    /\ Keeps(p) /\ pc'[p] = "put" /\ loc'[p].num = loc[p].num /\ loc'[p].ver = v
    <2>0. PICK v \in VersionIds :
                    /\ version[v].sched = NoSchedule
                    /\ version'[v].sched = loc[p].id /\ version'[v].number = loc[p].num
                    /\ \A w \in VersionIds \ {v} : version'[w] = version[w]
                    /\ Keeps(p) /\ pc'[p] = "put" /\ loc'[p].num = loc[p].num /\ loc'[p].ver = v
      BY <1>2
    <2>1. AdminIsCurrent(p) /\ loc[p].id \in Schedules
      BY PutNewVersionEffect DEF NumberInv, SchedulerInv, AdminFits
    <2>2. pc[p] = "putVersion" /\ loc[p].op \in Adding /\ sched' = sched /\ rec' = rec
      BY PutNewVersionEffect
    <2>3. \A w \in VersionsOf(loc[p].id) : version[w].number # loc[p].num
      <3>1. CASE loc[p].op \in Drafting
        BY <2>1, <2>2, <3>1 DEF AdminIsCurrent
      <3>2. CASE loc[p].op = "editDraft"
        <4>1. \A w \in VersionsOf(loc[p].id) : version[w].number < loc[p].num
          BY <2>1, <2>2, <3>2 DEF AdminIsCurrent
        <4>2. /\ loc[p].num \in Nat
              /\ \A w \in VersionIds : version[w].number \in Nat
          BY SchedulerAssumption DEF SchedulerInv, SchedulerTypes, TypeOK, Locals, VersionRows
        <4> QED BY <4>1, <4>2 DEF VersionsOf
      <3> QED BY <2>2, <3>1, <3>2 DEF Adding, Drafting
    <2>4. \A s \in Existing : sched[s].ver \in VersionIds /\ version[sched[s].ver].sched = s
      BY DEF Existing, SchedulerInv, OwnVersion
    <2>5. \A s \in Existing' : s \in Existing /\ sched[s].ver # v
      BY <2>0, <2>2, <2>4, SchedulerAssumption DEF Existing
    <2>6. \A s \in Existing' : /\ version'[sched'[s].ver].sched = s
                               /\ version'[sched'[s].ver].number = sched'[s].num
      BY <2>0, <2>2, <2>4, <2>5 DEF NumberInv, VersionsAreNumbered
    <2>7. \A w \in VersionIds \ {v} : version[w].sched = loc[p].id => version[w].number # loc[p].num
      BY <2>3 DEF VersionsOf
    <2>8. VersionsAreNumbered'
      BY <2>0, <2>6, <2>7 DEF NumberInv, VersionsAreNumbered
    <2>9. AdminIsCurrent(p)'
      BY <2>0, <2>1, <2>2 DEF AdminIsCurrent, Keeps, Adding, Drafting
    <2> QED BY <2>2, <2>8, <2>9 DEF NumberInv, PassIsCurrent
  <1> QED BY <1>1, <1>2, PutNewVersionEffect

LEMMA PutLifecycleNumber ==
    ASSUME SchedulerInv, NumberInv, NEW p, Admins = {p}, PutLifecycle(p)
    PROVE  NumberInv'
  <1>1. AdminIsCurrent(p)'
    <2>1. CASE Return(p)
      BY <2>1, ReturnEffect DEF AdminIsCurrent
    <2>2. CASE ~Return(p)
      BY <2>2, PutLifecycleEffect DEF AdminIsCurrent, NumberInv, Adding, Drafting
    <2> QED BY <2>1, <2>2
  <1> QED BY <1>1, PutLifecycleEffect, NumbersStay

LEMMA CallExternalNumber ==
    ASSUME SchedulerInv, NumberInv, NEW p, Admins = {p}, CallExternal(p)
    PROVE  NumberInv'
  <1>1. AdminIsCurrent(p)'
    BY CallExternalEffect DEF AdminIsCurrent, NumberInv, Keeps, Adding, Drafting
  <1> QED BY <1>1, CallExternalEffect, NumbersStay

\* A step that puts a row of one schedule: the row names a version of the
\* schedule and its number, and it agrees with what a pass has read.
LEMMA RowPutNumber ==
    ASSUME SchedulerInv, NumberInv, NEW p, Admins = {p}, NEW s \in Schedules, NEW row \in Rows,
           sched' = [sched EXCEPT ![s] = row], version' = version, rec'.db = rec.db,
           row.ver \in VersionIds, version[row.ver].sched = s, version[row.ver].number = row.num,
           rec.db[s].state # "NONE" =>
               row.state # "DRAFT" /\ rec.db[s].ver = row.ver /\ rec.db[s].num = row.num,
           AdminIsCurrent(p)'
    PROVE  NumberInv'
  <1>1. sched'[s] = row /\ \A t \in Schedules \ {s} : sched'[t] = sched[t]
    BY DEF SchedulerInv, SchedulerTypes, TypeOK
  <1>2. \A t \in Existing' : t = s \/ t \in Existing
    BY <1>1 DEF Existing
  <1>3. VersionsAreNumbered'
    BY <1>1, <1>2 DEF NumberInv, VersionsAreNumbered, Existing
  <1>4. PassIsCurrent'
    BY <1>1 DEF NumberInv, PassIsCurrent
  <1> QED BY <1>3, <1>4 DEF NumberInv

LEMMA PutScheduleNumber ==
    ASSUME SchedulerInv, NumberInv, NEW p, Admins = {p}, PutSchedule(p)
    PROVE  NumberInv'
  <1> DEFINE row == NewRow(p)
             s == loc[p].id
  <1>1. /\ pc[p] = "put" /\ sched' = [sched EXCEPT ![s] = row] /\ Return(p)
        /\ UNCHANGED <<version, ext, rec, spent>>
    BY DEF PutSchedule
  <1>2. s \in Schedules /\ row \in Rows /\ row.state # "NONE" /\ OwnVersion(s, row)
    BY <1>1, NewRowFits
  <1>3. AdminIsCurrent(p)'
    BY <1>1, ReturnEffect DEF AdminIsCurrent
  <1>4. AdminIsCurrent(p) /\ AdminFits(p) /\ loc[p] \in Locals /\ loc[p].row \in Rows
    BY DEF NumberInv, SchedulerInv, SchedulerTypes, Locals
  <1>5. loc[p].op \in Operations \ {"validate"}
    BY <1>1, <1>4 DEF AdminFits
  <1>6. loc[p].op \notin Drafting => sched[s].state # "NONE"
    BY <1>1, <1>4 DEF AdminFits, Drafting
  <1>7. rec.db[s].state # "NONE" => sched[s].state \notin {"NONE", "DRAFT"}
    BY <1>2 DEF SchedulerInv, PassFits, NumberInv, PassIsCurrent
  <1>8. CASE loc[p].op \in Drafting
    <2>1. row.ver = loc[p].ver /\ row.num = 1
      BY <1>8, ConstantRows DEF NewRow, Rows, Drafting
    <2>2. version[loc[p].ver].number = 1 /\ sched[s].state = "NONE"
      BY <1>1, <1>4, <1>8 DEF AdminIsCurrent, Adding, Drafting
    <2> QED BY <1>1, <1>2, <1>3, <1>7, <2>1, <2>2, RowPutNumber DEF OwnVersion
  <1>9. CASE loc[p].op = "editDraft"
    <2>1. row = [loc[p].row EXCEPT !.ver = loc[p].ver, !.num = loc[p].num]
      BY <1>9 DEF NewRow
    <2>2. row.ver = loc[p].ver /\ row.num = loc[p].num
      BY <1>4, <2>1 DEF Rows
    <2>3. version[loc[p].ver].number = loc[p].num /\ sched[s].state = "DRAFT"
      BY <1>1, <1>4, <1>9 DEF AdminIsCurrent, Adding, Drafting
    <2> QED BY <1>1, <1>2, <1>3, <1>7, <2>2, <2>3, RowPutNumber DEF OwnVersion
  <1>10. CASE loc[p].op \in {"enable", "pause", "resume", "disable", "delete"}
    <2>1. row.num = loc[p].row.num /\ row.state # "DRAFT"
      BY <1>4, <1>10 DEF NewRow, Rows
    <2>2. row.ver = IF loc[p].op = "enable" THEN loc[p].ver ELSE loc[p].row.ver
      BY <1>4, <1>10 DEF NewRow, Rows
    <2>3. row.ver = sched[s].ver /\ row.num = sched[s].num
      BY <1>1, <1>4, <1>10, <2>1, <2>2 DEF AdminIsCurrent, Drafting
    <2>4. s \in Existing
      BY <1>2, <1>6, <1>10 DEF Drafting, Existing
    <2>5. version[row.ver].number = row.num
      BY <2>3, <2>4 DEF NumberInv, VersionsAreNumbered
    <2>6. rec.db[s].state # "NONE" => rec.db[s].ver = row.ver /\ rec.db[s].num = row.num
      BY <1>2, <2>3 DEF NumberInv, PassIsCurrent
    <2> QED BY <1>1, <1>2, <1>3, <2>1, <2>5, <2>6, RowPutNumber DEF OwnVersion
  <1> QED BY <1>5, <1>8, <1>9, <1>10 DEF Operations, Adding, Drafting

LEMMA ReconcileNumber ==
    ASSUME SchedulerInv, NumberInv, NEW p, Admins = {p}, Reconcile
    PROVE  NumberInv'
  <1>0. rec \in Passes /\ NoPass \in Passes /\ pc' = pc /\ loc' = loc /\ version' = version
    BY ConstantRows DEF Reconcile, ReconcileListExternal, ReconcileNext, ReconcileMissing, ReconcileRelink,
          ReconcileConfig, ReconcilePaused, ReconcileOrphan, ReconcileEnd, ReconcileReturn, adminVars,
          SchedulerInv, SchedulerTypes
  <1>1. CASE ReconcileRelink
    <2> DEFINE s == rec.id
               row == [rec.db[s] EXCEPT !.ext = rec.link]
    <2>1. rec.pc = "relink" /\ sched' = [sched EXCEPT ![s] = row] /\ rec' = [rec EXCEPT !.pc = "next"]
      BY <1>1 DEF ReconcileRelink
    <2>2. /\ s \in Schedules /\ rec.db[s].state # "NONE" /\ rec.db[s] \in Rows
          /\ rec.link \in ExternalIds /\ OwnVersion(s, rec.db[s])
      BY <1>0, <2>1 DEF SchedulerInv, PassFits, Passes
    <2>3. row \in Rows /\ row.ver = rec.db[s].ver /\ row.num = rec.db[s].num /\ row.state = rec.db[s].state
      BY <2>2 DEF Rows
    <2> HIDE DEF row
    <2>4. /\ sched[s].state \notin {"NONE", "DRAFT"} /\ row.state # "DRAFT"
          /\ row.ver = sched[s].ver /\ row.num = sched[s].num
      BY <2>2, <2>3 DEF NumberInv, PassIsCurrent, SchedulerInv, PassFits
    <2>5. version[row.ver].number = row.num
      BY <2>2, <2>4 DEF NumberInv, VersionsAreNumbered, Existing
    <2>6. /\ sched'[s] = row /\ \A t \in Schedules \ {s} : sched'[t] = sched[t]
      BY <2>1, <2>2 DEF SchedulerInv, SchedulerTypes, TypeOK
    <2>7. AdminIsCurrent(p)'
      <3>1. AdminIsCurrent(p) /\ (pc[p] # "idle" => loc[p].id \in Schedules)
        BY DEF NumberInv, SchedulerInv, AdminFits
      <3>2. CASE loc[p].id # s
        BY <1>0, <2>6, <3>1, <3>2 DEF AdminIsCurrent, VersionsOf
      <3>3. CASE loc[p].id = s
        BY <1>0, <2>4, <2>6, <3>1, <3>3 DEF AdminIsCurrent, VersionsOf
      <3> QED BY <3>2, <3>3
    <2>8. rec'.db = rec.db /\ version[row.ver].sched = s /\ row.ver \in VersionIds
      BY <1>0, <2>1, <2>2, <2>3 DEF Passes, OwnVersion
    <2>9. rec.db[s].state # "NONE" => row.state # "DRAFT" /\ rec.db[s].ver = row.ver /\ rec.db[s].num = row.num
      BY <2>3, <2>4
    <2> QED BY <1>0, <2>1, <2>2, <2>3, <2>5, <2>7, <2>8, <2>9, RowPutNumber
  <1>2. CASE ~ReconcileRelink
    <2>1. sched' = sched
      BY <1>2 DEF Reconcile, ReconcileListExternal, ReconcileNext, ReconcileMissing,
          ReconcileConfig, ReconcilePaused, ReconcileOrphan, ReconcileEnd, ReconcileReturn
    <2>2. rec'.db = rec.db \/ rec'.db = NoPass.db
      <3>1. CASE ReconcileEnd \/ ReconcileReturn
        BY <1>0, <3>1 DEF ReconcileEnd, ReconcileReturn, Passes
      <3>2. CASE ReconcileListExternal \/ ReconcileMissing \/ ReconcileConfig \/ ReconcilePaused
        BY <1>0, <3>2 DEF ReconcileListExternal, ReconcileMissing, ReconcileConfig, ReconcilePaused, Passes
      <3>3. CASE \E s \in Schedules : ReconcileNext(s)
        BY <1>0, <3>3 DEF ReconcileNext, Passes
      <3>4. CASE \E e \in ExternalIds : ReconcileOrphan(e)
        BY <1>0, <3>4 DEF ReconcileOrphan, Passes
      <3> QED BY <1>2, <3>1, <3>2, <3>3, <3>4 DEF Reconcile
    <2>3. AdminIsCurrent(p)'
      BY <1>0, <2>1 DEF NumberInv, AdminIsCurrent, VersionsOf
    <2>4. VersionsAreNumbered'
      BY <1>0, <2>1 DEF NumberInv, VersionsAreNumbered, Existing
    <2>5. PassIsCurrent'
      BY <2>1, <2>2 DEF NumberInv, PassIsCurrent, NoPass, NoRow
    <2> QED BY <2>3, <2>4, <2>5 DEF NumberInv
  <1> QED BY <1>1, <1>2

LEMMA ReconcileListNumber ==
    ASSUME SchedulerInv, NumberInv, NEW p, Admins = {p}, NEW repair \in BOOLEAN, ReconcileList(repair)
    PROVE  NumberInv'
  <1> DEFINE db == [s \in Schedules |-> IF s \in Listed THEN sched[s] ELSE NoRow]
             clean == \A q \in Admins : pc[q] = "idle"
  <1>1. /\ rec' = [NoPass EXCEPT !.pc = "list", !.repair = repair, !.db = db, !.clean = clean]
        /\ UNCHANGED <<sched, version, ext, pc, loc>>
    BY DEF ReconcileList, adminVars
  <1> HIDE DEF clean
  <1>2. rec'.db = db
    BY <1>1, ConstantRows DEF Passes
  <1>3. AdminIsCurrent(p)'
    BY <1>1 DEF NumberInv, AdminIsCurrent, VersionsOf
  <1>4. VersionsAreNumbered'
    BY <1>1 DEF NumberInv, VersionsAreNumbered, Existing
  <1>5. PassIsCurrent'
    BY <1>1, <1>2 DEF PassIsCurrent, Listed, NoRow
  <1> QED BY <1>3, <1>4, <1>5 DEF NumberInv

LEMMA NextNumberInv ==
    ASSUME SchedulerInv, NumberInv, OneAdmin, [Next]_vars
    PROVE  NumberInv'
  <1>0. PICK p : Admins = {p}
    BY DEF OneAdmin
  <1>1. CASE Ask(p)
    BY <1>0, <1>1, AskNumber
  <1>2. CASE Work(p)
    BY <1>0, <1>2, ReadVersionNumber, ReadNumberNumber, PutNewVersionNumber, PutLifecycleNumber,
       CallExternalNumber, PutScheduleNumber DEF Work
  <1>3. CASE Crash(p)
    BY <1>0, <1>3, IdleIsCurrent DEF Crash
  <1>4. CASE \E e \in ExternalIds : Drift(e)
    <2>1. UNCHANGED <<sched, version, pc, loc>> /\ Disturb
      BY <1>4 DEF Drift
    <2>2. rec'.db = rec.db
      BY <2>1 DEF Disturb, SchedulerInv, SchedulerTypes, Passes
    <2>3. AdminIsCurrent(p)'
      BY <1>0, <2>1 DEF NumberInv, AdminIsCurrent, VersionsOf
    <2> QED BY <1>0, <2>1, <2>2, <2>3, NumbersStay
  <1>5. CASE \E repair \in BOOLEAN : ReconcileList(repair)
    BY <1>0, <1>5, ReconcileListNumber
  <1>6. CASE Reconcile
    BY <1>0, <1>6, ReconcileNumber
  <1>7. CASE UNCHANGED vars
    BY <1>7 DEF vars, NumberInv, VersionsAreNumbered, Existing, AdminIsCurrent, VersionsOf, PassIsCurrent
  <1> QED BY <1>0, <1>1, <1>2, <1>3, <1>4, <1>5, <1>6, <1>7 DEF Next

LEMMA InitNumberInv == Init => NumberInv
  BY DEF Init, NumberInv, VersionsAreNumbered, Existing, AdminIsCurrent, PassIsCurrent, NoPass, NoRow, NoVersionRow

LEMMA SpecNumberInv ==
    ASSUME OneAdmin
    PROVE  Spec => []NumberInv
  <1>1. SchedulerInv /\ NumberInv /\ [Next]_vars => NumberInv'
    BY NextNumberInv
  <1> QED BY <1>1, InitNumberInv, SpecSchedulerInv, PTL DEF Spec

\* While one admin at a time works, whatever operations die between putVersion
\* and putSchedule, whatever is changed by hand and whatever rows a repairing
\* pass puts back beside them: every schedule names a version of its own with
\* the number it says, and no number is given twice.
THEOREM VersionsAlwaysNumbered ==
    ASSUME OneAdmin
    PROVE  Spec => []VersionsAreNumbered
  <1>1. NumberInv => VersionsAreNumbered
    BY DEF NumberInv
  <1> QED BY <1>1, SpecNumberInv, PTL
-----------------------------------------------------------------------------
(* One admin and no disturbance: only allowed transitions.                 *)

\* Nobody else writes, so an operation puts back the row that is there.
CalmInv ==
    spent.calm =>
        /\ ~rec.repair /\ rec.pc # "relink"
        /\ \A p \in Admins : pc[p] # "idle" /\ loc[p].op \notin Drafting =>
               /\ loc[p].row = sched[loc[p].id]
               /\ sched[loc[p].id].state \in AllowedFrom(loc[p].op)

LEMMA CalmBefore ==
    ASSUME SchedulerInv, [Next]_vars, spent'.calm
    PROVE  spent.calm
  <1> USE DEF SchedulerInv, SchedulerTypes, TypeOK
  <1>1. CASE \E p \in Admins : Ask(p)
    BY <1>1 DEF Ask, Create, Duplicate, Begin, Enter
  <1>2. CASE \E p \in Admins : Work(p)
    BY <1>2 DEF Work, ReadVersion, ReadNumber, PutLifecycle, CallExternal, PutSchedule, PutNewVersion, ExternalCreate
  <1>3. CASE \E p \in Admins : Crash(p)
    BY <1>3 DEF Crash
  <1>4. CASE \E e \in ExternalIds : Drift(e)
    BY <1>4 DEF Drift
  <1>5. CASE \E repair \in BOOLEAN : ReconcileList(repair)
    BY <1>5 DEF ReconcileList
  <1>6. CASE Reconcile
    BY <1>6 DEF Reconcile, ReconcileListExternal, ReconcileNext, ReconcileMissing, ReconcileRelink,
          ReconcileConfig, ReconcilePaused, ReconcileOrphan, ReconcileEnd, ReconcileReturn, ExternalCreate
  <1>7. CASE UNCHANGED vars
    BY <1>7 DEF vars
  <1> QED BY <1>1, <1>2, <1>3, <1>4, <1>5, <1>6, <1>7 DEF Next

\* A pass that repairs nothing writes nothing.
LEMMA CalmPass ==
    ASSUME SchedulerInv, CalmInv, spent.calm, spent'.calm,
           Reconcile \/ \E repair \in BOOLEAN : ReconcileList(repair)
    PROVE  /\ UNCHANGED <<sched, version, ext, pc, loc>> /\ spent'.ext = spent.ext
           /\ ~rec'.repair /\ rec'.pc # "relink"
  <1>1. rec \in Passes /\ NoPass \in Passes /\ NoPass.repair = FALSE /\ NoPass.pc = "idle"
    BY ConstantRows DEF SchedulerInv, SchedulerTypes, NoPass
  <1>2. ~rec.repair /\ rec.pc # "relink"
    BY DEF CalmInv
  <1>3. ASSUME NEW repair \in BOOLEAN, ReconcileList(repair)
        PROVE  /\ UNCHANGED <<sched, version, ext, pc, loc>> /\ spent'.ext = spent.ext
               /\ ~rec'.repair /\ rec'.pc # "relink"
    <2> DEFINE db == [s \in Schedules |-> IF s \in Listed THEN sched[s] ELSE NoRow]
               clean == \A q \in Admins : pc[q] = "idle"
    <2>1. /\ rec' = [NoPass EXCEPT !.pc = "list", !.repair = repair, !.db = db, !.clean = clean]
          /\ UNCHANGED <<sched, version, ext, pc, loc>>
          /\ spent' = [spent EXCEPT !.calm = @ /\ ~repair]
      BY <1>3 DEF ReconcileList, adminVars
    <2> HIDE DEF db, clean
    <2>2. rec'.repair = repair /\ rec'.pc = "list"
      BY <1>1, <2>1 DEF Passes
    <2>3. ~repair /\ spent'.ext = spent.ext
      BY <2>1 DEF SchedulerInv, SchedulerTypes, TypeOK
    <2> QED BY <2>1, <2>2, <2>3
  <1>4. CASE ReconcileEnd \/ ReconcileReturn
    <2>1. rec'.repair = FALSE /\ rec'.pc \in {"idle", "done"}
      BY <1>1, <1>2, <1>4 DEF ReconcileEnd, ReconcileReturn, Passes
    <2> QED BY <1>4, <2>1 DEF ReconcileEnd, ReconcileReturn, adminVars
  <1>5. CASE ReconcileListExternal \/ ReconcileMissing \/ ReconcileConfig \/ ReconcilePaused
    <2>1. rec'.repair = rec.repair /\ rec'.pc # "relink"
      BY <1>1, <1>2, <1>5 DEF ReconcileListExternal, ReconcileMissing, ReconcileConfig, ReconcilePaused, Passes
    <2> QED BY <1>2, <1>5, <2>1
            DEF ReconcileListExternal, ReconcileMissing, ReconcileConfig, ReconcilePaused, adminVars
  <1>6. CASE \E s \in Schedules : ReconcileNext(s)
    <2>1. rec'.repair = rec.repair /\ rec'.pc # "relink"
      <3>1. PICK s, e, todo :
               \/ rec' = [rec EXCEPT !.id = s, !.todo = todo, !.ver = sched[s].ver,
                                     !.pc = "missing", !.found = TRUE]
               \/ rec' = [rec EXCEPT !.id = s, !.todo = todo, !.ver = sched[s].ver,
                                     !.pc = "config", !.link = e]
        BY <1>6, Zenon DEF ReconcileNext
      <3> QED BY <1>1, <3>1 DEF Passes
    <2> QED BY <1>2, <1>6, <2>1 DEF ReconcileNext, adminVars
  <1>7. CASE \E e \in ExternalIds : ReconcileOrphan(e)
    <2>1. rec'.repair = rec.repair /\ rec'.pc # "relink"
      BY <1>1, <1>2, <1>7 DEF ReconcileOrphan, Passes
    <2> QED BY <1>2, <1>7, <2>1 DEF ReconcileOrphan, adminVars
  <1>8. ~ReconcileRelink
    BY <1>2 DEF ReconcileRelink
  <1> QED BY <1>3, <1>4, <1>5, <1>6, <1>7, <1>8 DEF Reconcile

\* The pass does not move beside a step of an operation.
LEMMA WorkLeavesPass ==
    ASSUME SchedulerInv, NEW p \in Admins, Ask(p) \/ Work(p)
    PROVE  rec'.repair = rec.repair /\ rec'.pc = rec.pc
  <1>1. rec \in Passes
    BY DEF SchedulerInv, SchedulerTypes
  <1>2. CASE Work(p)
    BY <1>2 DEF Work, ReadVersion, ReadNumber, PutLifecycle, CallExternal, PutSchedule, PutNewVersion
  <1>3. CASE Ask(p)
    BY <1>1, <1>3 DEF Ask, Create, Duplicate, Begin, Enter, Disturb, Passes
  <1> QED BY <1>2, <1>3

LEMMA NextCalmInv ==
    ASSUME SchedulerInv, CalmInv, OneAdmin, [Next]_vars
    PROVE  CalmInv'
  <1> SUFFICES ASSUME spent'.calm PROVE CalmInv'
    BY DEF CalmInv
  <1> DEFINE RowOf(q) == pc[q] # "idle" /\ loc[q].op \notin Drafting =>
                             /\ loc[q].row = sched[loc[q].id]
                             /\ sched[loc[q].id].state \in AllowedFrom(loc[q].op)
  <1>0. PICK p : Admins = {p}
    BY DEF OneAdmin
  <1>1. spent.calm
    BY CalmBefore
  <1>2. ~rec.repair /\ rec.pc # "relink" /\ RowOf(p)
    BY <1>0, <1>1 DEF CalmInv
  <1>3. SUFFICES ~rec'.repair /\ rec'.pc # "relink" /\ RowOf(p)'
    BY <1>0 DEF CalmInv
  <1>4. CASE Ask(p)
    <2>1. PICK s \in Schedules :
            \/ \E c \in Configs : Create(p, s, c)
            \/ \E t \in Schedules : Duplicate(p, s, t)
            \/ \E op \in Operations \ Drafting : Begin(p, op, s)
      BY <1>4 DEF Ask, Operations, Adding, Drafting
    <2>2. RowOf(p)'
      <3>1. CASE \E c \in Configs : Create(p, s, c)
        <4>1. loc'[p].op = "create"
          BY <1>0, <3>1, DraftEffect DEF Create
        <4> QED BY <4>1 DEF Drafting
      <3>2. CASE \E t \in Schedules : Duplicate(p, s, t)
        <4>1. PICK t \in Schedules : Duplicate(p, s, t)
          BY <3>2
        <4>2. version[sched[s].ver].config \in Configs \cup {0}
          BY <4>1 DEF Duplicate, Existing, SchedulerInv, OwnVersion, SchedulerTypes, TypeOK, VersionRows
        <4>3. loc'[p].op = "duplicate"
          BY <1>0, <4>1, <4>2, DraftEffect DEF Duplicate
        <4> QED BY <4>3 DEF Drafting
      <3>3. CASE \E op \in Operations \ Drafting : Begin(p, op, s)
        BY <1>0, <3>3, BeginEffect
      <3> QED BY <2>1, <3>1, <3>2, <3>3
    <2> QED BY <1>0, <1>2, <1>4, <2>2, WorkLeavesPass
  <1>5. CASE Work(p)
    <2>1. CASE PutSchedule(p)
      <3>1. pc'[p] = "idle"
        BY <1>0, <2>1, ReturnEffect DEF PutSchedule
      <3> QED BY <1>0, <1>2, <1>5, <3>1, WorkLeavesPass
    <2>2. CASE ~PutSchedule(p)
      <3>1. sched' = sched
        BY <1>5, <2>2 DEF Work, ReadVersion, ReadNumber, PutLifecycle, CallExternal, PutNewVersion
      <3>2. pc[p] # "idle" /\ (pc'[p] = "idle" \/ Keeps(p) \/ loc' = loc)
        BY <1>0, <1>5, <2>2, ReturnEffect, ReadVersionEffect, ReadNumberEffect, PutNewVersionEffect,
           PutLifecycleEffect, CallExternalEffect DEF Work
      <3>3. RowOf(p)'
        BY <1>2, <3>1, <3>2 DEF Keeps
      <3> QED BY <1>0, <1>2, <1>5, <3>3, WorkLeavesPass
    <2> QED BY <2>1, <2>2
  <1>6. CASE Reconcile \/ \E repair \in BOOLEAN : ReconcileList(repair)
    BY <1>1, <1>2, <1>6, CalmPass
  <1>7. CASE UNCHANGED vars
    BY <1>2, <1>7 DEF vars
  <1>8. ~Crash(p) /\ \A e \in ExternalIds : ~Drift(e)
    BY DEF Crash, Drift, SchedulerInv, SchedulerTypes, TypeOK
  <1> QED BY <1>0, <1>4, <1>5, <1>6, <1>7, <1>8 DEF Next

\* An operation puts a row whose state it may go to.
LEMMA PutIsLegal ==
    ASSUME SchedulerInv, NumberInv, CalmInv, spent.calm, NEW p \in Admins, PutSchedule(p)
    PROVE  LegalStep
  <1> DEFINE s == loc[p].id
             row == NewRow(p)
  <1>1. pc[p] = "put" /\ sched' = [sched EXCEPT ![s] = row]
    BY DEF PutSchedule
  <1>2. s \in Schedules /\ row \in Rows
    BY <1>1, NewRowFits
  <1>3. /\ AdminFits(p) /\ AdminIsCurrent(p) /\ loc[p].row \in Rows
        /\ loc[p].op \notin Drafting => loc[p].row = sched[s] /\ sched[s].state \in AllowedFrom(loc[p].op)
    BY <1>1 DEF SchedulerInv, NumberInv, CalmInv, SchedulerTypes, Locals
  <1>4. loc[p].op \in Operations \ {"validate"}
    BY <1>1, <1>3 DEF AdminFits
  <1>5. row.state # sched[s].state => <<sched[s].state, row.state>> \in Transitions
    <2>1. CASE loc[p].op \in Drafting
      <3>1. row.state = "DRAFT"
        BY <2>1, ConstantRows DEF NewRow, Rows, Drafting
      <3>2. sched[s].state = "NONE"
        BY <1>1, <1>3, <2>1 DEF AdminIsCurrent
      <3> QED BY <3>1, <3>2 DEF Transitions
    <2>2. CASE loc[p].op = "editDraft"
      BY <1>3, <2>2 DEF NewRow, Rows, Drafting
    <2>3. CASE loc[p].op = "enable"
      BY <1>3, <2>3 DEF NewRow, Rows, Drafting, AllowedFrom, Transitions
    <2>4. CASE loc[p].op \in {"pause", "resume", "disable", "delete"}
      BY <1>3, <2>4 DEF NewRow, Rows, Drafting, AllowedFrom, Transitions
    <2> QED BY <1>4, <2>1, <2>2, <2>3, <2>4 DEF Operations, Adding, Drafting
  <1> HIDE DEF row
  <1>6. sched'[s] = row /\ \A t \in Schedules \ {s} : sched'[t] = sched[t]
    BY <1>1, <1>2 DEF SchedulerInv, SchedulerTypes, TypeOK
  <1> QED BY <1>5, <1>6 DEF LegalStep

LEMMA CalmStepIsLegal ==
    ASSUME SchedulerInv, NumberInv, CalmInv, [Next]_vars, spent'.calm
    PROVE  LegalStep
  <1>1. spent.calm
    BY CalmBefore
  <1>2. CASE \E p \in Admins : PutSchedule(p)
    BY <1>1, <1>2, PutIsLegal
  <1>3. CASE sched' = sched
    BY <1>3 DEF LegalStep
  <1>4. CASE ReconcileRelink
    BY <1>1, <1>4 DEF CalmInv, ReconcileRelink
  <1>5. CASE \E p \in Admins : Ask(p) \/ Crash(p)
    BY <1>3, <1>5 DEF Ask, Create, Duplicate, Begin, Crash
  <1>6. CASE \E p \in Admins : Work(p)
    BY <1>2, <1>3, <1>6 DEF Work, ReadVersion, ReadNumber, PutLifecycle, CallExternal, PutNewVersion
  <1>7. CASE Reconcile
    BY <1>3, <1>4, <1>7 DEF Reconcile, ReconcileListExternal, ReconcileNext, ReconcileMissing,
          ReconcileConfig, ReconcilePaused, ReconcileOrphan, ReconcileEnd, ReconcileReturn
  <1>8. CASE \/ \E e \in ExternalIds : Drift(e)
             \/ \E repair \in BOOLEAN : ReconcileList(repair)
             \/ UNCHANGED vars
    BY <1>3, <1>8 DEF Drift, ReconcileList, vars
  <1> QED BY <1>5, <1>6, <1>7, <1>8 DEF Next

LEMMA InitCalmInv == Init => CalmInv
  BY DEF Init, CalmInv, NoPass

LEMMA SpecCalmInv ==
    ASSUME OneAdmin
    PROVE  Spec => []CalmInv
  <1>1. SchedulerInv /\ CalmInv /\ [Next]_vars => CalmInv'
    BY NextCalmInv
  <1> QED BY <1>1, InitCalmInv, SpecSchedulerInv, PTL DEF Spec

\* Operations that follow one another move a schedule only along
\* ALLOWED_SCHEDULE_TRANSITIONS, whatever passes report beside them.
THEOREM TransitionsAreLegal ==
    ASSUME OneAdmin
    PROVE  Spec => LegalTransitions
  <1>1. SchedulerInv /\ NumberInv /\ CalmInv /\ [Next]_vars => [spent'.calm => LegalStep]_vars
    BY CalmStepIsLegal
  <1> QED BY <1>1, SpecSchedulerInv, SpecNumberInv, SpecCalmInv, PTL DEF Spec, LegalTransitions
-----------------------------------------------------------------------------
(* One admin with QStash and no disturbance: the table and QStash agree.   *)

Wanted(s) == [live |-> TRUE, sched |-> s, config |-> version[sched[s].ver].config,
              paused |-> sched[s].state = "PAUSED"]
Agrees(s) == sched[s].ext # NoExternal /\ ext[sched[s].ext] = Wanted(s)

\* QStash is one call ahead of the table.
Created(p) == pc[p] = "put" /\ loc[p].op = "enable"
Switched(p) == pc[p] = "put" /\ loc[p].op \in {"pause", "resume"}
Removed(p) == /\ pc[p] \in {"readVersion", "putVersion", "put"}
              /\ loc[p].op = "disable" /\ loc[p].row.ext # NoExternal

TablesAgree(p) ==
    /\ \A s \in Listed : Agrees(s) \/ ((Switched(p) \/ Removed(p)) /\ s = loc[p].id)
    /\ \A e \in ExternalIds : ext[e].live =>
           (Created(p) /\ e = loc[p].ext) \/ \E s \in Listed : sched[s].ext = e
    /\ Created(p) =>
           /\ loc[p].ext \in ExternalIds
           /\ ext[loc[p].ext] = [live |-> TRUE, sched |-> loc[p].id,
                                 config |-> version[loc[p].ver].config, paused |-> FALSE]
    /\ Switched(p) =>
           /\ loc[p].row.ext \in ExternalIds
           /\ ext[loc[p].row.ext] = [live |-> TRUE, sched |-> loc[p].id,
                                     config |-> version[loc[p].row.ver].config,
                                     paused |-> loc[p].op = "pause"]
    /\ Removed(p) => ~ext[loc[p].row.ext].live

\* What the calls of QStash are going to name.
CallsFit(p) ==
    /\ pc[p] = "external" /\ loc[p].op # "enable" =>
           loc[p].ext = loc[p].row.ext /\ loc[p].ext # NoExternal
    /\ pc[p] \in {"putVersion", "external"} /\ loc[p].op = "enable" =>
           loc[p].vrow.config = version[loc[p].ver].config

\* QStash has no schedule under the id it gives out next.
IdsFit ==
    /\ FreshExternal => \A e \in ExternalIds : ext[e].live => e \in 1..spent.ext
    /\ ~FreshExternal => \A e \in ExternalIds : ext[e].live => ext[e].sched = e
    /\ \A s \in Schedules \ Listed : sched[s].ext = NoExternal

SyncInv == spent.calm => IdsFit /\ \A p \in Admins : TablesAgree(p) /\ CallsFit(p)

LEMMA ListedRow ==
    ASSUME SchedulerInv, NEW s \in Listed
    PROVE  s \in Schedules /\ sched[s].ver \in VersionIds /\ version[sched[s].ver].sched = s
  BY DEF SchedulerInv, OwnVersion, Listed

\* A step that leaves the table and QStash alone.
LEMMA QuietSync ==
    ASSUME SchedulerInv, NEW p \in Admins, TablesAgree(p), sched' = sched, ext' = ext,
           \A v \in VersionIds : version[v].sched # NoSchedule => version'[v].config = version[v].config,
           Created(p)' <=> Created(p), Switched(p)' <=> Switched(p), Removed(p)' <=> Removed(p),
           Created(p) \/ Switched(p) \/ Removed(p) =>
               /\ Keeps(p) /\ loc'[p].ext = loc[p].ext
               /\ Created(p) => loc'[p].ver = loc[p].ver
    PROVE  TablesAgree(p)'
  <1>1. Listed' = Listed /\ \A s \in Listed : Agrees(s) => Agrees(s)'
    <2>1. Listed' = Listed
      BY DEF Listed
    <2>2. ASSUME NEW s \in Listed, Agrees(s)
          PROVE  Agrees(s)'
      <3>1. version'[sched[s].ver].config = version[sched[s].ver].config
        BY ListedRow, SchedulerAssumption
      <3> QED BY <2>2, <3>1 DEF Agrees, Wanted
    <2> QED BY <2>1, <2>2
  <1>2. AdminFits(p)
    BY DEF SchedulerInv
  <1>3. Created(p) => version'[loc[p].ver].config = version[loc[p].ver].config
    BY <1>2, SchedulerAssumption DEF Created, AdminFits
  <1>4. Switched(p) => version'[loc[p].row.ver].config = version[loc[p].row.ver].config
    BY <1>2, SchedulerAssumption DEF Switched, AdminFits, OwnVersion
  <1>5. \A s \in Listed' : Agrees(s)' \/ ((Switched(p)' \/ Removed(p)') /\ s = loc'[p].id)
    BY <1>1 DEF TablesAgree, Keeps
  <1>6. \A e \in ExternalIds : ext'[e].live =>
           (Created(p)' /\ e = loc'[p].ext) \/ \E s \in Listed' : sched'[s].ext = e
    BY <1>1 DEF TablesAgree
  <1>7. Created(p)' =>
           /\ loc'[p].ext \in ExternalIds
           /\ ext'[loc'[p].ext] = [live |-> TRUE, sched |-> loc'[p].id,
                                 config |-> version'[loc'[p].ver].config, paused |-> FALSE]
    BY <1>3 DEF TablesAgree, Keeps
  <1>8. Switched(p)' =>
           /\ loc'[p].row.ext \in ExternalIds
           /\ ext'[loc'[p].row.ext] = [live |-> TRUE, sched |-> loc'[p].id,
                                     config |-> version'[loc'[p].row.ver].config,
                                     paused |-> loc'[p].op = "pause"]
    BY <1>4 DEF TablesAgree, Keeps
  <1>9. Removed(p)' => ~ext'[loc'[p].row.ext].live
    BY DEF TablesAgree, Keeps
  <1> QED BY <1>5, <1>6, <1>7, <1>8, <1>9 DEF TablesAgree

\* What one admin finds in calm.
Calm(p) ==
    /\ SchedulerInv /\ NumberInv /\ CalmInv /\ spent.calm
    /\ Admins = {p} /\ Attached = Admins
    /\ IdsFit /\ TablesAgree(p) /\ CallsFit(p)

LEMMA CalmRow ==
    ASSUME NEW p, Calm(p), pc[p] # "idle"
    PROVE  /\ p \in Admins /\ AdminFits(p) /\ loc[p] \in Locals /\ loc[p].row \in Rows
           /\ loc[p].id \in Schedules /\ loc[p].op \in Operations
           /\ loc[p].op \notin Drafting =>
                /\ loc[p].row = sched[loc[p].id]
                /\ sched[loc[p].id].state \in AllowedFrom(loc[p].op)
                /\ sched[loc[p].id].state # "NONE"
  BY DEF Calm, SchedulerInv, CalmInv, AdminFits, SchedulerTypes, Locals, Drafting

LEMMA AskSync ==
    ASSUME NEW p, Calm(p), Ask(p)
    PROVE  IdsFit' /\ TablesAgree(p)' /\ CallsFit(p)'
  <1>0. SchedulerInv /\ p \in Admins /\ TablesAgree(p) /\ IdsFit /\ p \in Attached
    BY DEF Calm
  <1>1. PICK s \in Schedules :
            \/ \E c \in Configs : Create(p, s, c)
            \/ \E t \in Schedules : Duplicate(p, s, t)
            \/ \E op \in Operations \ Drafting : Begin(p, op, s)
    BY DEF Ask, Operations, Adding, Drafting
  <1>2. UNCHANGED <<sched, version, ext>> /\ pc[p] = "idle" /\ spent'.ext = spent.ext
    BY <1>0, <1>1 DEF Create, Duplicate, Begin, Enter, SchedulerInv, SchedulerTypes, TypeOK
  <1>3. IdsFit'
    BY <1>0, <1>2 DEF IdsFit, Listed
  <1>4. ~Created(p) /\ ~Switched(p) /\ ~Removed(p)
    BY <1>2 DEF Created, Switched, Removed
  <1>5. ~Created(p)' /\ ~Switched(p)' /\ ~Removed(p)' /\ CallsFit(p)'
    <2>1. CASE \E c \in Configs : Create(p, s, c)
      <3>1. loc'[p].op = "create" /\ pc'[p] = "putVersion"
        BY <1>0, <2>1, DraftEffect DEF Create
      <3> QED BY <3>1 DEF Created, Switched, Removed, CallsFit
    <2>2. CASE \E t \in Schedules : Duplicate(p, s, t)
      <3>1. PICK t \in Schedules : Duplicate(p, s, t)
        BY <2>2
      <3>2. version[sched[s].ver].config \in Configs \cup {0}
        BY <1>0, <3>1 DEF Duplicate, Existing, SchedulerInv, OwnVersion, SchedulerTypes, TypeOK, VersionRows
      <3>3. loc'[p].op = "duplicate" /\ pc'[p] = "putVersion"
        BY <1>0, <3>1, <3>2, DraftEffect DEF Duplicate
      <3> QED BY <3>3 DEF Created, Switched, Removed, CallsFit
    <2>3. CASE \E op \in Operations \ Drafting : Begin(p, op, s)
      <3>1. PICK op \in Operations \ Drafting : Begin(p, op, s)
        BY <2>3
      <3>2. /\ loc'[p].op = op /\ loc'[p].row = sched[s] /\ loc'[p].ext = sched[s].ext
            /\ pc'[p] = AfterRead(p, op, sched[s]) /\ sched[s].state \in AllowedFrom(op)
        BY <1>0, <3>1, BeginEffect
      <3>3. op \in {"pause", "resume"} => sched[s].ext # NoExternal
        BY <1>0, <1>4, <3>2 DEF AllowedFrom, TablesAgree, Listed, Agrees
      <3>4. /\ pc'[p] = "put" => op \notin {"enable", "pause", "resume"}
            /\ pc'[p] \in {"readVersion", "put"} /\ op = "disable" => sched[s].ext = NoExternal
            /\ pc'[p] = "external" => sched[s].ext # NoExternal /\ op # "enable"
            /\ pc'[p] # "putVersion"
        BY <1>0, <3>2, <3>3 DEF AfterRead, Operations, Adding, Drafting
      <3> QED BY <3>2, <3>4 DEF Created, Switched, Removed, CallsFit
    <2> QED BY <1>1, <2>1, <2>2, <2>3
  <1>6. TablesAgree(p)'
    BY <1>0, <1>2, <1>4, <1>5, QuietSync
  <1> QED BY <1>3, <1>5, <1>6

LEMMA IdleSync ==
    ASSUME SchedulerInv, NEW p \in Admins, Return(p)
    PROVE  ~Created(p)' /\ ~Switched(p)' /\ ~Removed(p)' /\ CallsFit(p)'
  BY ReturnEffect DEF Created, Switched, Removed, CallsFit

LEMMA ReadVersionSync ==
    ASSUME NEW p, Calm(p), ReadVersion(p)
    PROVE  IdsFit' /\ TablesAgree(p)' /\ CallsFit(p)'
  <1>0. SchedulerInv /\ p \in Admins /\ TablesAgree(p) /\ IdsFit /\ p \in Attached
    BY DEF Calm
  <1>1. pc[p] = "readVersion" /\ UNCHANGED <<sched, version, ext, rec, spent>>
    BY <1>0, ReadVersionEffect
  <1>2. IdsFit'
    BY <1>0, <1>1 DEF IdsFit, Listed
  <1>3. CASE Return(p)
    <2>1. loc[p].op # "disable"
      BY <1>0, <1>1, <1>3 DEF ReadVersion, Goto, Return, SchedulerInv, SchedulerTypes
    <2>2. ~Created(p) /\ ~Switched(p) /\ ~Removed(p)
      BY <1>1, <2>1 DEF Created, Switched, Removed
    <2> QED BY <1>0, <1>1, <1>2, <1>3, <2>2, IdleSync, QuietSync
  <1>4. CASE ~Return(p)
    <2>1. /\ Keeps(p) /\ loc'[p].ext = loc[p].ext /\ pc'[p] \in {"number", "putVersion", "put"}
          /\ pc'[p] = "put" => loc[p].op = "disable"
          /\ pc'[p] = "number" => loc[p].op = "editDraft"
          /\ pc'[p] = "putVersion" => loc'[p].vrow.config = version[loc'[p].ver].config
      BY <1>0, <1>4, ReadVersionEffect DEF Keeps
    <2>2. ~Created(p) /\ ~Switched(p) /\ ~Created(p)' /\ ~Switched(p)' /\ (Removed(p)' <=> Removed(p))
      BY <1>1, <2>1 DEF Created, Switched, Removed, Keeps
    <2>3. CallsFit(p)'
      BY <1>1, <2>1 DEF CallsFit
    <2> QED BY <1>0, <1>1, <1>2, <2>1, <2>2, <2>3, QuietSync
  <1> QED BY <1>3, <1>4

LEMMA ReadNumberSync ==
    ASSUME NEW p, Calm(p), ReadNumber(p)
    PROVE  IdsFit' /\ TablesAgree(p)' /\ CallsFit(p)'
  <1>0. SchedulerInv /\ p \in Admins /\ TablesAgree(p) /\ IdsFit
    BY DEF Calm
  <1>1. /\ pc[p] = "number" /\ pc'[p] = "putVersion" /\ UNCHANGED <<sched, version, ext, rec, spent>>
        /\ loc[p].op = "editDraft" /\ loc'[p].op = "editDraft"
    BY <1>0, ReadNumberEffect DEF Keeps
  <1>2. IdsFit'
    BY <1>0, <1>1 DEF IdsFit, Listed
  <1>3. /\ ~Created(p) /\ ~Switched(p) /\ ~Removed(p)
        /\ ~Created(p)' /\ ~Switched(p)' /\ ~Removed(p)' /\ CallsFit(p)'
    BY <1>1 DEF Created, Switched, Removed, CallsFit
  <1> QED BY <1>0, <1>1, <1>2, <1>3, QuietSync

LEMMA PutNewVersionSync ==
    ASSUME NEW p, Calm(p), NEW c \in Configs, PutNewVersion(p, c)
    PROVE  IdsFit' /\ TablesAgree(p)' /\ CallsFit(p)'
  <1>0. SchedulerInv /\ p \in Admins /\ TablesAgree(p) /\ IdsFit
    BY DEF Calm
  <1>1. pc[p] = "putVersion" /\ loc[p].op \in Adding /\ UNCHANGED <<sched, ext, rec, spent>>
    BY <1>0, PutNewVersionEffect
  <1>2. IdsFit'
    BY <1>0, <1>1 DEF IdsFit, Listed
  <1>3. \A v \in VersionIds : version[v].sched # NoSchedule => version'[v].config = version[v].config
    BY <1>0, PutNewVersionEffect
  <1>4. ~Created(p) /\ ~Switched(p) /\ ~Removed(p)
    BY <1>1 DEF Created, Switched, Removed, Adding
  <1>5. ~Created(p)' /\ ~Switched(p)' /\ ~Removed(p)' /\ CallsFit(p)'
    <2>1. CASE Return(p)
      BY <1>0, <2>1, IdleSync
    <2>2. CASE pc'[p] = "put" /\ loc'[p].op = loc[p].op
      BY <1>1, <2>2 DEF Created, Switched, Removed, CallsFit, Adding
    <2> QED BY <1>0, <2>1, <2>2, PutNewVersionEffect DEF Keeps
  <1> QED BY <1>0, <1>1, <1>2, <1>3, <1>4, <1>5, QuietSync

LEMMA PutLifecycleSync ==
    ASSUME NEW p, Calm(p), PutLifecycle(p)
    PROVE  IdsFit' /\ TablesAgree(p)' /\ CallsFit(p)'
  <1>0. SchedulerInv /\ p \in Admins /\ TablesAgree(p) /\ IdsFit /\ CallsFit(p) /\ p \in Attached
    BY DEF Calm
  <1>1. /\ pc[p] = "putVersion" /\ loc[p].op \in {"validate", "enable", "disable"}
        /\ UNCHANGED <<sched, ext, rec, spent>>
        /\ \A w \in VersionIds : version'[w].config = version[w].config
    BY <1>0, PutLifecycleEffect
  <1>2. IdsFit'
    BY <1>0, <1>1 DEF IdsFit, Listed
  <1>3. CASE Return(p)
    <2>1. loc[p].op # "disable"
      BY <1>0, <1>1, <1>3 DEF PutLifecycle, Goto, Return, SchedulerInv, SchedulerTypes
    <2>2. ~Created(p) /\ ~Switched(p) /\ ~Removed(p)
      BY <1>1, <2>1 DEF Created, Switched, Removed
    <2> QED BY <1>0, <1>1, <1>2, <1>3, <2>2, IdleSync, QuietSync
  <1>4. CASE ~Return(p)
    <2>1. /\ loc' = loc
          /\ \/ loc[p].op = "enable" /\ pc'[p] = "external"
             \/ loc[p].op = "disable" /\ pc'[p] = "put"
      BY <1>0, <1>4, PutLifecycleEffect
    <2>2. ~Created(p) /\ ~Switched(p) /\ ~Created(p)' /\ ~Switched(p)' /\ (Removed(p)' <=> Removed(p))
      BY <1>1, <2>1 DEF Created, Switched, Removed
    <2>3. loc[p].op = "enable" => loc[p].ver \in VersionIds
      BY <1>0, <1>1 DEF SchedulerInv, AdminFits
    <2>4. CallsFit(p)'
      BY <1>0, <1>1, <2>1, <2>3 DEF CallsFit
    <2> QED BY <1>0, <1>1, <1>2, <2>1, <2>2, <2>4, QuietSync DEF Keeps
  <1> QED BY <1>3, <1>4

\* With no call of QStash ahead, what QStash has under an id belongs to the
\* one schedule that names it.
LEMMA OneOwner ==
    ASSUME NEW p, Calm(p), ~Created(p), ~Switched(p), ~Removed(p)
    PROVE  /\ \A s \in Listed : Agrees(s) /\ sched[s].ext \in ExternalIds /\ ext[sched[s].ext].live
                                /\ ext[sched[s].ext].sched = s
           /\ \A s, t \in Listed : s # t => sched[s].ext # sched[t].ext
           /\ \A e \in ExternalIds : ext[e].live => \E s \in Listed : sched[s].ext = e
  <1>1. \A s \in Listed : Agrees(s)
    BY DEF Calm, TablesAgree
  <1>2. \A s \in Listed : sched[s].ext \in ExternalIds
    BY <1>1 DEF Calm, SchedulerInv, SchedulerTypes, TypeOK, Rows, Agrees, Listed
  <1>3. \A s \in Listed : ext[sched[s].ext].live /\ ext[sched[s].ext].sched = s
    <2> TAKE s \in Listed
    <2>1. ext[sched[s].ext] = Wanted(s)
      BY <1>1 DEF Agrees
    <2>2. Wanted(s).live /\ Wanted(s).sched = s
      BY DEF Wanted
    <2> QED BY <2>1, <2>2
  <1> QED BY <1>1, <1>2, <1>3 DEF Calm, TablesAgree

LEMMA CreateSync ==
    ASSUME NEW p, Calm(p), CallExternal(p), loc[p].op = "enable"
    PROVE  IdsFit' /\ TablesAgree(p)' /\ CallsFit(p)'
  <1> DEFINE s == loc[p].id
             new == NewExternalId(s)
             x == [live |-> TRUE, sched |-> s, config |-> loc[p].vrow.config, paused |-> FALSE]
  <1>0. SchedulerInv /\ p \in Admins /\ TablesAgree(p) /\ IdsFit /\ CallsFit(p)
    BY DEF Calm
  <1>1. /\ pc[p] = "external" /\ UNCHANGED <<sched, version>> /\ Keeps(p) /\ loc'[p].ver = loc[p].ver
        /\ pc'[p] = "put" /\ ExternalIdLeft /\ ExternalCreate(s, loc[p].vrow.config) /\ loc'[p].ext = new
    BY <1>0, CallExternalEffect
  <1>2. s \in Schedules /\ sched[s].state = "DRAFT"
    BY <1>1, CalmRow DEF AllowedFrom, Drafting
  <1>3. ~Created(p) /\ ~Switched(p) /\ ~Removed(p)
    BY <1>1 DEF Created, Switched, Removed
  <1>4. /\ ext' = [ext EXCEPT ![new] = x] /\ x.live = TRUE /\ x.sched = s
        /\ x = [live |-> TRUE, sched |-> s, config |-> version[loc[p].ver].config, paused |-> FALSE]
    BY <1>0, <1>1 DEF ExternalCreate, CallsFit
  <1>5. new \in ExternalIds /\ (FreshExternal => spent'.ext = spent.ext + 1 /\ spent.ext \in Nat)
    <2>1. loc[p].vrow.config \in Configs \cup {0}
      BY <1>0 DEF SchedulerInv, SchedulerTypes, Locals, VersionRows
    <2>2. new \in ExternalIds
      BY <1>0, <1>1, <1>2, <2>1, CreateType
    <2>3. FreshExternal => spent'.ext = spent.ext + 1 /\ spent.ext \in Nat
      BY <1>0, <1>1, SchedulerAssumption DEF ExternalCreate, SchedulerInv, SchedulerTypes, TypeOK
    <2> QED BY <2>2, <2>3
  <1>6. ~ext[new].live
    <2>1. CASE FreshExternal
      BY <1>0, <1>5, <2>1 DEF NewExternalId, IdsFit
    <2>2. CASE ~FreshExternal
      <3> SUFFICES ASSUME ext[s].live PROVE FALSE
        BY <2>2 DEF NewExternalId
      <3>1. s \in ExternalIds /\ ext[s].sched = s
        BY <1>0, <1>2, <2>2 DEF IdsFit, ExternalIds
      <3>2. PICK t \in Listed : sched[t].ext = s
        BY <1>3, <3>1, OneOwner
      <3>3. t = s
        BY <1>3, <3>1, <3>2, OneOwner
      <3> QED BY <1>2, <3>3 DEF Listed
    <2> QED BY <2>1, <2>2
  <1> HIDE DEF x, new
  <1>7. ext'[new] = x /\ \A e \in ExternalIds \ {new} : ext'[e] = ext[e]
    BY <1>0, <1>4, <1>5 DEF SchedulerInv, SchedulerTypes, TypeOK
  <1>8. Listed' = Listed /\ \A t \in Listed : Agrees(t)'
    <2>1. Listed' = Listed
      BY <1>1 DEF Listed
    <2>2. ASSUME NEW t \in Listed
          PROVE  Agrees(t)'
      <3>1. Agrees(t) /\ sched[t].ext \in ExternalIds \ {new}
        BY <1>3, <1>6, OneOwner
      <3> QED BY <1>1, <1>7, <3>1 DEF Agrees, Wanted
    <2> QED BY <2>1, <2>2
  <1>9. Created(p)' /\ ~Switched(p)' /\ ~Removed(p)' /\ CallsFit(p)'
    BY <1>1 DEF Created, Switched, Removed, CallsFit, Keeps
  <1>10. \A e \in ExternalIds : ext'[e].live => e = new \/ \E t \in Listed : sched[t].ext = e
    BY <1>3, <1>7, OneOwner
  <1>11. TablesAgree(p)'
    BY <1>1, <1>4, <1>5, <1>7, <1>8, <1>9, <1>10 DEF TablesAgree, Keeps
  <1>12. IdsFit'
    <2>1. CASE FreshExternal
      <3>1. new = spent.ext + 1
        BY <2>1 DEF new, NewExternalId
      <3>2. \A e \in ExternalIds : ext'[e].live => e \in 1..(spent.ext + 1)
        BY <1>0, <1>5, <1>7, <2>1, <3>1 DEF IdsFit
      <3> QED BY <1>0, <1>1, <1>5, <2>1, <3>2 DEF IdsFit, Listed
    <2>2. CASE ~FreshExternal
      <3>1. new = s
        BY <2>2 DEF new, NewExternalId
      <3> QED BY <1>0, <1>1, <1>4, <1>7, <2>2, <3>1 DEF IdsFit, Listed
    <2> QED BY <2>1, <2>2
  <1> QED BY <1>9, <1>11, <1>12

LEMMA PausedRow ==
    ASSUME NEW l, NEW s, NEW c, NEW a, NEW b
    PROVE  [[live |-> l, sched |-> s, config |-> c, paused |-> a] EXCEPT !.paused = b]
               = [live |-> l, sched |-> s, config |-> c, paused |-> b]
  OBVIOUS

LEMMA SwitchSync ==
    ASSUME NEW p, Calm(p), CallExternal(p), loc[p].op \in {"pause", "resume"}
    PROVE  IdsFit' /\ TablesAgree(p)' /\ CallsFit(p)'
  <1> DEFINE s == loc[p].id
             e0 == loc[p].ext
             b == loc[p].op = "pause"
             x == [ext[e0] EXCEPT !.paused = b]
  <1>0. SchedulerInv /\ p \in Admins /\ TablesAgree(p) /\ IdsFit /\ CallsFit(p)
    BY DEF Calm
  <1>1. /\ pc[p] = "external" /\ UNCHANGED <<sched, version>> /\ pc'[p] = "put" /\ loc' = loc
        /\ ExternalSetPaused(e0, b) /\ spent' = spent
    BY <1>0, CallExternalEffect
  <1>2. /\ s \in Listed /\ loc[p].row = sched[s] /\ e0 = sched[s].ext
    BY <1>0, <1>1, CalmRow DEF AllowedFrom, Drafting, Listed, CallsFit
  <1>3. ~Created(p) /\ ~Switched(p) /\ ~Removed(p)
    BY <1>1 DEF Created, Switched, Removed
  <1>4. e0 \in ExternalIds /\ ext[e0].live /\ ext[e0].sched = s /\ ext[e0] = Wanted(s)
    BY <1>2, <1>3, OneOwner DEF Agrees
  <1>5. x = [live |-> TRUE, sched |-> s, config |-> version[sched[s].ver].config, paused |-> b]
    <2>1. PICK l, a, b0 : l = TRUE /\ a = (sched[s].state = "PAUSED") /\ b0 = b
      OBVIOUS
    <2> DEFINE c == version[sched[s].ver].config
    <2>2. ext[e0] = [live |-> l, sched |-> s, config |-> c, paused |-> a]
      BY <1>4, <2>1 DEF Wanted
    <2> HIDE DEF c, e0, b
    <2>3. PICK s0, c0 : s0 = s /\ c0 = c
      OBVIOUS
    <2>4. x = [[live |-> l, sched |-> s0, config |-> c0, paused |-> a] EXCEPT !.paused = b0]
      BY <2>1, <2>2, <2>3
    <2>5. x = [live |-> l, sched |-> s0, config |-> c0, paused |-> b0]
      BY <2>4, PausedRow
    <2> QED BY <2>1, <2>3, <2>5 DEF c
  <1>6. ext' = [ext EXCEPT ![e0] = x]
    BY <1>0, <1>1, <1>4 DEF ExternalSetPaused, SchedulerInv, SchedulerTypes, TypeOK
  <1>7. x.sched = s /\ x.live = TRUE
    BY <1>5
  <1> HIDE DEF x, e0, b
  <1>8. ext'[e0] = x /\ \A e \in ExternalIds \ {e0} : ext'[e] = ext[e]
    BY <1>0, <1>4, <1>6 DEF SchedulerInv, SchedulerTypes, TypeOK
  <1>9. Listed' = Listed /\ \A t \in Listed : Agrees(t)' \/ t = s
    <2>1. Listed' = Listed
      BY <1>1 DEF Listed
    <2>2. ASSUME NEW t \in Listed, t # s
          PROVE  Agrees(t)'
      <3>1. Agrees(t) /\ sched[t].ext \in ExternalIds \ {e0}
        BY <1>2, <1>3, <2>2, OneOwner
      <3> QED BY <1>1, <1>8, <3>1 DEF Agrees, Wanted
    <2> QED BY <2>1, <2>2
  <1>10. Switched(p)' /\ ~Created(p)' /\ ~Removed(p)' /\ CallsFit(p)'
    BY <1>1 DEF Created, Switched, Removed, CallsFit
  <1>11. \A e \in ExternalIds : ext'[e].live => \E t \in Listed : sched[t].ext = e
    BY <1>2, <1>3, <1>8, OneOwner
  <1>12. TablesAgree(p)'
    <2>1. loc'[p].row.ext = e0 /\ ext'[e0] = [live |-> TRUE, sched |-> loc'[p].id,
                                 config |-> version'[loc'[p].row.ver].config, paused |-> loc'[p].op = "pause"]
      BY <1>1, <1>2, <1>5, <1>8 DEF b
    <2> QED BY <1>1, <1>4, <1>9, <1>10, <1>11, <2>1 DEF TablesAgree
  <1>13. IdsFit'
    BY <1>0, <1>1, <1>4, <1>7, <1>8 DEF IdsFit, Listed
  <1> QED BY <1>10, <1>12, <1>13

LEMMA RemoveSync ==
    ASSUME NEW p, Calm(p), CallExternal(p), loc[p].op = "disable"
    PROVE  IdsFit' /\ TablesAgree(p)' /\ CallsFit(p)'
  <1> DEFINE s == loc[p].id
             e0 == loc[p].ext
  <1>0. SchedulerInv /\ p \in Admins /\ TablesAgree(p) /\ IdsFit /\ CallsFit(p)
    BY DEF Calm
  <1>1. /\ pc[p] = "external" /\ UNCHANGED <<sched, version>> /\ pc'[p] = "readVersion" /\ loc' = loc
        /\ ExternalRemove(e0) /\ spent' = spent
    BY <1>0, CallExternalEffect
  <1>2. s \in Schedules /\ loc[p].row = sched[s] /\ e0 = sched[s].ext /\ e0 # NoExternal
    BY <1>0, <1>1, CalmRow DEF Drafting, CallsFit
  <1>3. s \in Listed
    BY <1>0, <1>2 DEF IdsFit
  <1>4. ~Created(p) /\ ~Switched(p) /\ ~Removed(p)
    BY <1>1 DEF Created, Switched, Removed
  <1>5. e0 \in ExternalIds
    BY <1>2, <1>3, <1>4, OneOwner
  <1> HIDE DEF e0
  <1>6. ~ext'[e0].live /\ \A e \in ExternalIds \ {e0} : ext'[e] = ext[e]
    BY <1>0, <1>1, <1>5 DEF ExternalRemove, NoExternalRow, SchedulerInv, SchedulerTypes, TypeOK
  <1>7. Listed' = Listed /\ \A t \in Listed : Agrees(t)' \/ t = s
    <2>1. Listed' = Listed
      BY <1>1 DEF Listed
    <2>2. ASSUME NEW t \in Listed, t # s
          PROVE  Agrees(t)'
      <3>1. Agrees(t) /\ sched[t].ext \in ExternalIds \ {e0}
        BY <1>2, <1>3, <1>4, <2>2, OneOwner
      <3> QED BY <1>1, <1>6, <3>1 DEF Agrees, Wanted
    <2> QED BY <2>1, <2>2
  <1>8. Removed(p)' /\ ~Created(p)' /\ ~Switched(p)' /\ CallsFit(p)'
    BY <1>1, <1>2 DEF Created, Switched, Removed, CallsFit
  <1>9. \A e \in ExternalIds : ext'[e].live => \E t \in Listed : sched[t].ext = e
    BY <1>4, <1>6, OneOwner
  <1>10. TablesAgree(p)'
    BY <1>1, <1>2, <1>6, <1>7, <1>8, <1>9 DEF TablesAgree
  <1>11. IdsFit'
    BY <1>0, <1>1, <1>6 DEF IdsFit, Listed
  <1> QED BY <1>8, <1>10, <1>11

LEMMA AgreesNow ==
    ASSUME NEW s, NEW b \in BOOLEAN, sched'[s].ext # NoExternal, sched'[s].state = "PAUSED" <=> b,
           ext'[sched'[s].ext] = [live |-> TRUE, sched |-> s, config |-> version'[sched'[s].ver].config,
                                  paused |-> b]
    PROVE  Agrees(s)'
  <1>1. (sched'[s].state = "PAUSED") = b
    OBVIOUS
  <1> QED BY <1>1, Zenon DEF Agrees, Wanted

\* The put that ends an operation: the table catches up.
LEMMA PutScheduleSync ==
    ASSUME NEW p, Calm(p), PutSchedule(p)
    PROVE  IdsFit' /\ TablesAgree(p)' /\ CallsFit(p)'
  <1> DEFINE row == NewRow(p)
             r == loc[p].row
  <1>s. PICK s : s = loc[p].id
    OBVIOUS
  <1>0. SchedulerInv /\ NumberInv /\ p \in Admins /\ TablesAgree(p) /\ IdsFit /\ AdminIsCurrent(p)
    BY DEF Calm, NumberInv
  <1>1. /\ pc[p] = "put" /\ sched' = [sched EXCEPT ![s] = row] /\ Return(p)
        /\ UNCHANGED <<version, ext, rec, spent>>
    BY <1>s DEF PutSchedule
  <1>2. s \in Schedules /\ row \in Rows
    BY <1>s, <1>0, <1>1, NewRowFits
  <1>3. /\ AdminFits(p) /\ r \in Rows /\ loc[p].op \in Operations \ {"validate"}
        /\ loc[p].op \notin Drafting => r = sched[s] /\ sched[s].state \in AllowedFrom(loc[p].op)
    BY <1>s, <1>1, CalmRow DEF AdminFits
  <1>4. ~Created(p)' /\ ~Switched(p)' /\ ~Removed(p)' /\ CallsFit(p)'
    BY <1>s, <1>0, <1>1, IdleSync
  <1>5. /\ \A t \in Schedules \ {s} : sched'[t] = sched[t]
        /\ sched'[s] = row
    BY <1>s, <1>0, <1>1, <1>2 DEF SchedulerInv, SchedulerTypes, TypeOK
  <1>6. \A t \in Listed \ {s} : t \in Listed' /\ Agrees(t)'
    BY <1>s, <1>0, <1>1, <1>5 DEF TablesAgree, Agrees, Wanted, Listed
  <1>7. SUFFICES /\ s \in Listed' => Agrees(s)'
                 /\ \A e \in ExternalIds : ext[e].live => \E t \in Listed' : sched'[t].ext = e
                 /\ s \notin Listed' => row.ext = NoExternal
    <2>1. TablesAgree(p)'
      <3>1. \A t \in Listed' : t \in Listed \ {s} \/ t = s
        BY <1>s, <1>5 DEF Listed
      <3>2. \A t \in Listed' : Agrees(t)'
        BY <1>s, <1>6, <1>7, <3>1
      <3>3. \A e \in ExternalIds : ext'[e].live => \E t \in Listed' : sched'[t].ext = e
        BY <1>s, <1>1, <1>7
      <3> QED BY <1>s, <1>4, <3>2, <3>3 DEF TablesAgree
    <2>2. IdsFit'
      BY <1>s, <1>0, <1>1, <1>5, <1>7 DEF IdsFit, Listed
    <2> QED BY <1>s, <1>4, <2>1, <2>2
  <1>8. \A e \in ExternalIds : ext[e].live /\ (\E t \in Listed \ {s} : sched[t].ext = e)
                                   => \E t \in Listed' : sched'[t].ext = e
    BY <1>s, <1>5, <1>6 DEF Listed
  <1>9. CASE loc[p].op = "enable"
    <2>1. /\ row = [r EXCEPT !.state = "ACTIVE", !.ext = loc[p].ext, !.paused = FALSE, !.ver = loc[p].ver]
      BY <1>s, <1>9 DEF NewRow
    <2>2. row.state = "ACTIVE" /\ row.ext = loc[p].ext /\ row.ver = loc[p].ver
      BY <1>s, <1>3, <2>1 DEF Rows
    <2>3. /\ Created(p) /\ loc[p].ext \in ExternalIds
          /\ ext[loc[p].ext] = [live |-> TRUE, sched |-> s,
                                config |-> version[loc[p].ver].config, paused |-> FALSE]
      BY <1>s, <1>0, <1>1, <1>9 DEF Created, TablesAgree
    <2> HIDE DEF row
    <2>4. s \in Listed' /\ Agrees(s)'
      <3>1. s \in Listed' /\ row.ext # NoExternal
        BY <1>s, <1>2, <1>5, <2>2, <2>3, ConstantRows DEF Listed
      <3> QED BY <1>s, <1>1, <1>5, <2>2, <2>3, <3>1, AgreesNow
    <2>5. sched[s].state = "DRAFT"
      BY <1>s, <1>3, <1>9 DEF AllowedFrom, Drafting
    <2>6. \A e \in ExternalIds : ext[e].live => e = loc[p].ext \/ \E t \in Listed \ {s} : sched[t].ext = e
      BY <1>s, <1>0, <2>5 DEF TablesAgree, Listed
    <2> QED BY <1>s, <1>5, <1>8, <2>2, <2>4, <2>6
  <1>10. CASE loc[p].op \in {"pause", "resume"}
    <2>1. /\ row.state = (IF loc[p].op = "pause" THEN "PAUSED" ELSE "ACTIVE")
          /\ row.ext = r.ext /\ row.ver = r.ver
      BY <1>s, <1>3, <1>10 DEF NewRow, Rows
    <2>2. /\ Switched(p) /\ r.ext \in ExternalIds
          /\ ext[r.ext] = [live |-> TRUE, sched |-> s, config |-> version[r.ver].config,
                           paused |-> loc[p].op = "pause"]
      BY <1>s, <1>0, <1>1, <1>10 DEF Switched, TablesAgree
    <2> HIDE DEF row
    <2>3. s \in Listed' /\ Agrees(s)'
      <3>1. s \in Listed' /\ row.ext # NoExternal /\ (row.state = "PAUSED" <=> loc[p].op = "pause")
        BY <1>s, <1>2, <1>5, <2>1, <2>2, ConstantRows DEF Listed
      <3>2. PICK b \in BOOLEAN : b <=> loc[p].op = "pause"
        OBVIOUS
      <3>3. b = (loc[p].op = "pause")
        BY <3>2
      <3>4. ext[r.ext] = [live |-> TRUE, sched |-> s, config |-> version[r.ver].config, paused |-> b]
        BY <2>2, <3>3
      <3> QED BY <1>s, <1>1, <1>5, <2>1, <3>1, <3>2, <3>4, AgreesNow
    <2>4. r = sched[s]
      BY <1>s, <1>3, <1>10 DEF Drafting
    <2>5. ~Created(p)
      BY <1>s, <1>10 DEF Created
    <2>6. \A e \in ExternalIds : ext[e].live => e = r.ext \/ \E t \in Listed \ {s} : sched[t].ext = e
      BY <1>s, <1>0, <2>4, <2>5 DEF TablesAgree
    <2> QED BY <1>s, <1>5, <1>8, <2>1, <2>3, <2>6
  <1>11. CASE Removed(p)
    <2>1. row.state = "DISABLED" /\ row.ext = NoExternal /\ r = sched[s]
      BY <1>s, <1>3, <1>11 DEF NewRow, Rows, Removed, Drafting
    <2>2. ~ext[r.ext].live /\ ~Created(p)
      BY <1>s, <1>0, <1>11 DEF TablesAgree, Removed, Created
    <2> HIDE DEF row
    <2>3. s \notin Listed'
      BY <1>s, <1>5, <2>1 DEF Listed
    <2>4. \A e \in ExternalIds : ext[e].live => \E t \in Listed \ {s} : sched[t].ext = e
      BY <1>s, <1>0, <2>1, <2>2 DEF TablesAgree
    <2> QED BY <1>s, <1>8, <2>1, <2>3, <2>4
  <1>12. CASE loc[p].op \notin {"enable", "pause", "resume"} /\ ~Removed(p)
    <2>1. ~Created(p) /\ ~Switched(p)
      BY <1>s, <1>12 DEF Created, Switched
    <2>2. s \notin Listed
      <3>1. CASE loc[p].op \in Drafting
        BY <1>s, <1>0, <1>1, <3>1 DEF AdminIsCurrent, Listed
      <3>2. CASE loc[p].op \in {"editDraft", "delete"}
        BY <1>s, <1>3, <3>2 DEF AllowedFrom, Listed, Drafting
      <3>3. CASE loc[p].op = "disable"
        <4>1. sched[s].ext = NoExternal
          BY <1>s, <1>1, <1>3, <1>12, <3>3 DEF Removed, Drafting
        <4> QED BY <1>s, <1>0, <1>12, <2>1, <4>1 DEF TablesAgree, Agrees
      <3> QED BY <1>s, <1>3, <1>12, <3>1, <3>2, <3>3 DEF Operations, Adding, Drafting
    <2>3. sched[s].ext = NoExternal
      BY <1>s, <1>0, <1>2, <2>2 DEF IdsFit
    <2>4. row.state \notin {"ACTIVE", "PAUSED"} /\ row.ext = NoExternal
      <3>1. CASE loc[p].op \in Drafting
        BY <3>1, ConstantRows DEF NewRow, Rows, Drafting, NoRow
      <3>2. CASE loc[p].op = "editDraft"
        BY <1>s, <1>3, <2>3, <3>2 DEF NewRow, Rows, Drafting, AllowedFrom
      <3>3. CASE loc[p].op \in {"disable", "delete"}
        BY <1>s, <1>3, <2>3, <3>3 DEF NewRow, Rows, Drafting
      <3> QED BY <1>s, <1>3, <1>12, <3>1, <3>2, <3>3 DEF Operations, Adding, Drafting
    <2> HIDE DEF row
    <2>5. s \notin Listed'
      BY <1>s, <1>5, <2>4 DEF Listed
    <2>6. \A e \in ExternalIds : ext[e].live => \E t \in Listed \ {s} : sched[t].ext = e
      BY <1>s, <1>0, <2>1, <2>2 DEF TablesAgree
    <2> QED BY <1>s, <1>8, <2>4, <2>5, <2>6
  <1> QED BY <1>s, <1>9, <1>10, <1>11, <1>12

LEMMA NextSyncInv ==
    ASSUME SchedulerInv, NumberInv, CalmInv, SyncInv, OneAdmin, Attached = Admins, [Next]_vars
    PROVE  SyncInv'
  <1> SUFFICES ASSUME spent'.calm PROVE SyncInv'
    BY DEF SyncInv
  <1>0. PICK p : Admins = {p}
    BY DEF OneAdmin
  <1>1. spent.calm
    BY CalmBefore
  <1>2. Calm(p)
    BY <1>0, <1>1 DEF Calm, SyncInv
  <1>3. SUFFICES IdsFit' /\ TablesAgree(p)' /\ CallsFit(p)'
    BY <1>0 DEF SyncInv
  <1>4. CASE Ask(p)
    BY <1>2, <1>4, AskSync
  <1>5. CASE Work(p)
    <2>1. CallExternal(p) => loc[p].op \in {"enable", "pause", "resume", "disable"}
      BY DEF CallExternal
    <2> QED BY <1>2, <1>5, <2>1, ReadVersionSync, ReadNumberSync, PutNewVersionSync, PutLifecycleSync,
               CreateSync, SwitchSync, RemoveSync, PutScheduleSync DEF Work
  <1>6. CASE \/ Reconcile \/ (\E repair \in BOOLEAN : ReconcileList(repair)) \/ UNCHANGED vars
    <2>1. UNCHANGED <<sched, version, ext, pc, loc>> /\ spent'.ext = spent.ext
      BY <1>1, <1>6, CalmPass DEF vars
    <2> QED BY <1>2, <2>1 DEF Calm, IdsFit, TablesAgree, CallsFit, Listed, Agrees, Wanted, Created, Switched, Removed
  <1>7. ~Crash(p) /\ \A e \in ExternalIds : ~Drift(e)
    BY DEF Crash, Drift, SchedulerInv, SchedulerTypes, TypeOK
  <1> QED BY <1>0, <1>4, <1>5, <1>6, <1>7 DEF Next

LEMMA InitSyncInv == Init => SyncInv
  BY DEF Init, SyncInv, IdsFit, TablesAgree, CallsFit, Listed, Created, Switched, Removed, NoRow, NoExternalRow

LEMMA SyncedWhenIdle ==
    ASSUME SyncInv, OneAdmin
    PROVE  CrudKeepsInSync
  <1> SUFFICES ASSUME spent.calm, \A p \in Admins : pc[p] = "idle" PROVE InSync
    BY DEF CrudKeepsInSync
  <1>1. PICK p \in Admins : TRUE
    BY DEF OneAdmin
  <1>2. TablesAgree(p) /\ ~Created(p) /\ ~Switched(p) /\ ~Removed(p)
    BY DEF SyncInv, Created, Switched, Removed
  <1> QED BY <1>2 DEF TablesAgree, InSync, Agrees, Wanted

\* One admin whose service has QStash, and any sequence of operations: between
\* two of them the table and QStash agree.  Inside an operation QStash is at
\* most one call ahead (TablesAgree), and the id it gives out next is not in
\* use (IdsFit).
THEOREM CrudAlwaysInSync ==
    ASSUME OneAdmin, Attached = Admins
    PROVE  Spec => []CrudKeepsInSync
  <1>1. SchedulerInv /\ NumberInv /\ CalmInv /\ SyncInv /\ [Next]_vars => SyncInv'
    BY NextSyncInv
  <1>2. SyncInv => CrudKeepsInSync
    BY SyncedWhenIdle
  <1> QED BY <1>1, <1>2, InitSyncInv, SpecSchedulerInv, SpecNumberInv, SpecCalmInv, PTL DEF Spec
-----------------------------------------------------------------------------
(* Every admin has QStash, and QStash derives the id of a schedule from it:  *)
(* a clean report is the truth.                                              *)

\* A row names no other external schedule than its own, and does when active.
OwnLink(s, row) ==
    /\ row.ext \in {NoExternal, s}
    /\ row.state \in {"ACTIVE", "PAUSED"} => row.ext = s

AdminLink(p) ==
    pc[p] # "idle" =>
        /\ OwnLink(loc[p].id, loc[p].row)
        /\ loc[p].op \in {"pause", "resume"} => loc[p].row.ext = loc[p].id
        /\ loc[p].op = "enable" /\ pc[p] = "put" => loc[p].ext = loc[p].id

NamesFit ==
    \A e \in ExternalIds : ext[e].live => ext[e].sched = IF e \in Schedules THEN e ELSE NoSchedule

LinkInv ==
    /\ \A s \in Schedules : OwnLink(s, sched[s]) /\ OwnLink(s, rec.db[s])
    /\ NamesFit
    /\ \A p \in Admins : AdminLink(p)
    /\ rec.pc = "relink" => rec.link = rec.id

\* What an undisturbed pass has seen so far is so.
PassSees ==
    /\ rec.db = [s \in Schedules |-> IF s \in Listed THEN sched[s] ELSE NoRow]
    /\ rec.pc \in {"list", "next", "config", "paused"}
    /\ rec.pc # "list" =>
           /\ rec.ext = ext
           /\ \A s \in Listed : Agrees(s) \/ s \in rec.todo \/ (s = rec.id /\ rec.pc # "next")
    /\ rec.pc \in {"config", "paused"} =>
           /\ rec.link = rec.id /\ rec.id \in Listed /\ ext[rec.id].live
           /\ rec.ver = sched[rec.id].ver
    /\ rec.pc = "paused" => ext[rec.id].config = version[rec.ver].config

ReportInv ==
    /\ rec.clean /\ rec.pc # "idle" => \A p \in Admins : pc[p] = "idle"
    /\ rec.clean /\ ~rec.found /\ rec.pc \notin {"idle", "done"} => PassSees
    /\ ReportsAreComplete

LEMMA WorkPlaces ==
    ASSUME SchedulerInv, NEW p \in Admins, Ask(p) \/ Work(p) \/ Crash(p)
    PROVE  OthersStay(p)
  <1>1. \A l : Goto(p, l) => \A q \in Admins \ {p} : pc'[q] = pc[q]
    BY DEF Goto, SchedulerInv, SchedulerTypes
  <1>2. \A x : loc' = [loc EXCEPT ![p] = x] => \A q \in Admins \ {p} : loc'[q] = loc[q]
    BY DEF SchedulerInv, SchedulerTypes
  <1>3. CASE Crash(p)
    BY <1>1, <1>2, <1>3 DEF Crash, Return, OthersStay
  <1>4. CASE Ask(p)
    BY <1>1, <1>2, <1>4 DEF Ask, Create, Duplicate, Begin, Enter, OthersStay
  <1>5. CASE PutSchedule(p)
    BY <1>1, <1>2, <1>5 DEF PutSchedule, Return, OthersStay
  <1>6. CASE PutLifecycle(p)
    BY <1>1, <1>2, <1>6 DEF PutLifecycle, Return, OthersStay
  <1>7. CASE CallExternal(p)
    BY <1>1, <1>2, <1>7 DEF CallExternal, OthersStay, SchedulerInv, SchedulerTypes
  <1>8. CASE ReadNumber(p)
    BY <1>1, <1>8 DEF ReadNumber, OthersStay, SchedulerInv, SchedulerTypes
  <1>9. CASE \E c \in Configs : PutNewVersion(p, c)
    BY <1>1, <1>2, <1>9 DEF PutNewVersion, Return, OthersStay, SchedulerInv, SchedulerTypes
  <1>10. CASE ReadVersion(p)
    <2> DEFINE v == sched[loc[p].id].ver
               vrow(life) == [version[v] EXCEPT !.lifecycle = life]
               Continue(l, life) ==
                   /\ Goto(p, l)
                   /\ loc' = [loc EXCEPT ![p].ver = v, ![p].vrow = vrow(life)]
    <2> HIDE DEF vrow
    <2>1. /\ loc[p].op = "editDraft" => Continue("number", "DRAFT")
          /\ loc[p].op \in {"validate", "enable"} =>
                \/ Return(p) \/ Continue("putVersion", Promoted(version[v].lifecycle))
                \/ Continue("putVersion", "VALIDATED")
          /\ loc[p].op = "disable" =>
                Continue("putVersion", "DEPRECATED") \/ (Goto(p, "put") /\ loc' = loc)
      BY <1>10 DEF ReadVersion, vrow
    <2>2. ASSUME NEW l, NEW life, Continue(l, life)
          PROVE  OthersStay(p)
      BY <1>1, <2>2 DEF OthersStay, SchedulerInv, SchedulerTypes
    <2> HIDE DEF Continue
    <2>3. Return(p) => OthersStay(p)
      BY <1>1, <1>2 DEF Return, OthersStay
    <2>4. Goto(p, "put") /\ loc' = loc => OthersStay(p)
      BY <1>1 DEF OthersStay
    <2>5. loc[p].op \in {"editDraft", "validate", "enable", "disable"}
      BY <1>10, VersionRead DEF ReadVersion
    <2> QED BY <2>1, <2>2, <2>3, <2>4, <2>5
  <1> QED BY <1>3, <1>4, <1>5, <1>6, <1>7, <1>8, <1>9, <1>10 DEF Work

\* The calls of QStash leave the names of its schedules alone.
LEMMA NamesStay ==
    ASSUME SchedulerInv, NamesFit, ~FreshExternal, NEW e, NEW b, NEW c, NEW s \in Schedules,
           \/ ext' = ext \/ ExternalCreate(s, c) \/ ExternalSetPaused(e, b)
           \/ ExternalUpdate(e, c) \/ ExternalRemove(e)
    PROVE  NamesFit'
  <1>1. ext \in [ExternalIds -> ExternalRows] /\ s \in ExternalIds
    BY DEF SchedulerInv, SchedulerTypes, TypeOK, ExternalIds
  <1>2. CASE ext' = ext
    BY <1>2 DEF NamesFit
  <1>3. CASE ExternalCreate(s, c)
    <2> DEFINE x == [live |-> TRUE, sched |-> s, config |-> c, paused |-> FALSE]
    <2>1. ext' = [ext EXCEPT ![s] = x] /\ x.sched = s
      BY <1>3 DEF ExternalCreate, NewExternalId
    <2> HIDE DEF x
    <2>2. ext'[s].sched = s /\ \A f \in ExternalIds \ {s} : ext'[f] = ext[f]
      BY <1>1, <2>1
    <2> QED BY <2>2 DEF NamesFit
  <1>4. CASE ExternalSetPaused(e, b)
    <2>1. \A f \in ExternalIds : ext'[f].live = ext[f].live /\ ext'[f].sched = ext[f].sched
      BY <1>1, <1>4 DEF ExternalSetPaused, ExternalRows
    <2> QED BY <2>1 DEF NamesFit
  <1>5. CASE ExternalUpdate(e, c)
    <2>1. \A f \in ExternalIds : ext'[f].live = ext[f].live /\ ext'[f].sched = ext[f].sched
      BY <1>1, <1>5 DEF ExternalUpdate, ExternalRows
    <2> QED BY <2>1 DEF NamesFit
  <1>6. CASE ExternalRemove(e)
    BY <1>1, <1>6 DEF ExternalRemove, NamesFit, NoExternalRow
  <1> QED BY <1>2, <1>3, <1>4, <1>5, <1>6

\* A step of an operation.
LEMMA AdminLinkStep ==
    ASSUME SchedulerInv, LinkInv, NEW p \in Admins, Ask(p) \/ Work(p) \/ Crash(p), NamesFit',
           \A s \in Schedules : OwnLink(s, sched[s])', AdminLink(p)'
    PROVE  LinkInv'
  <1>1. rec'.db = rec.db /\ rec'.pc = rec.pc /\ rec'.link = rec.link /\ rec'.id = rec.id
    <2>1. CASE Work(p) \/ Crash(p)
      BY <2>1 DEF Work, ReadVersion, ReadNumber, PutLifecycle, CallExternal, PutSchedule, PutNewVersion, Crash
    <2>2. CASE Ask(p)
      BY <2>2 DEF Ask, Create, Duplicate, Begin, Enter, Disturb, Passes, SchedulerInv, SchedulerTypes
    <2> QED BY <2>1, <2>2
  <1>2. \A q \in Admins : AdminLink(q)'
    BY WorkPlaces DEF LinkInv, AdminLink, OthersStay
  <1> QED BY <1>1, <1>2 DEF LinkInv, OwnLink

LEMMA DraftRow ==
    ASSUME SchedulerInv, NEW p \in Admins, NEW op, NEW s, NEW c, NEW l, Enter(p, l, DraftOf(op, s, c))
    PROVE  loc'[p].row = NoRow /\ loc'[p].op = op
  <1>1. loc'[p] = DraftOf(op, s, c)
    BY DEF Enter, SchedulerInv, SchedulerTypes
  <1>2. NoLocals.row = NoRow
    BY DEF NoLocals
  <1>3. DraftOf(op, s, c).row = NoLocals.row /\ DraftOf(op, s, c).op = op
    BY ConstantRows DEF DraftOf, Locals
  <1> QED BY <1>1, <1>2, <1>3

LEMMA AskLink ==
    ASSUME SchedulerInv, LinkInv, NEW p \in Admins, Ask(p)
    PROVE  LinkInv'
  <1>1. PICK s \in Schedules :
            \/ \E c \in Configs : Create(p, s, c)
            \/ \E t \in Schedules : Duplicate(p, s, t)
            \/ \E op \in Operations \ Drafting : Begin(p, op, s)
    BY DEF Ask, Operations, Adding, Drafting
  <1>2. UNCHANGED <<sched, version, ext>>
    BY <1>1 DEF Create, Duplicate, Begin
  <1>3. AdminLink(p)'
    <2>1. CASE (\E c \in Configs : Create(p, s, c)) \/ \E t \in Schedules : Duplicate(p, s, t)
      <3>1. loc'[p].row = NoRow /\ loc'[p].op \in Drafting
        BY <2>1, DraftRow DEF Create, Duplicate, Drafting
      <3> QED BY <3>1 DEF AdminLink, OwnLink, NoRow, Drafting
    <2>2. CASE \E op \in Operations \ Drafting : Begin(p, op, s)
      <3>1. PICK op \in Operations \ Drafting : Begin(p, op, s)
        BY <2>2
      <3>2. /\ loc'[p].op = op /\ loc'[p].id = s /\ loc'[p].row = sched[s]
            /\ pc'[p] = AfterRead(p, op, sched[s]) /\ sched[s].state \in AllowedFrom(op)
        BY <3>1, BeginEffect
      <3>3. OwnLink(s, sched[s])
        BY DEF LinkInv
      <3>4. op = "enable" => pc'[p] # "put"
        BY <3>2 DEF AfterRead
      <3>5. op \in {"pause", "resume"} => sched[s].ext = s
        BY <3>2, <3>3 DEF AllowedFrom, OwnLink
      <3> QED BY <3>2, <3>3, <3>4, <3>5 DEF AdminLink, OwnLink
    <2> QED BY <1>1, <2>1, <2>2
  <1>4. NamesFit' /\ \A t \in Schedules : OwnLink(t, sched[t])'
    BY <1>2 DEF LinkInv, NamesFit, OwnLink
  <1> QED BY <1>3, <1>4, AdminLinkStep

\* The row an operation puts names its own external schedule.
LEMMA NewRowLink ==
    ASSUME SchedulerInv, LinkInv, NEW p \in Admins, pc[p] = "put"
    PROVE  OwnLink(loc[p].id, NewRow(p))
  <1> DEFINE r == loc[p].row
             s == loc[p].id
  <1>1. AdminFits(p) /\ r \in Rows /\ AdminLink(p)
    BY DEF SchedulerInv, SchedulerTypes, Locals, LinkInv
  <1>2. /\ loc[p].op \in Operations \ {"validate"} /\ OwnLink(s, r)
        /\ loc[p].op \in {"pause", "resume"} => r.ext = s
        /\ loc[p].op = "enable" => loc[p].ext = s
    BY <1>1 DEF AdminFits, AdminLink
  <1>3. CASE loc[p].op \in Drafting
    BY <1>3, ConstantRows DEF NewRow, Rows, Drafting, OwnLink, NoRow
  <1>4. CASE loc[p].op \in {"pause", "resume", "disable", "delete"}
    BY <1>1, <1>2, <1>4 DEF NewRow, Rows, OwnLink
  <1>5. CASE loc[p].op \in {"editDraft", "enable"}
    BY <1>1, <1>2, <1>5 DEF NewRow, Rows, OwnLink
  <1> QED BY <1>2, <1>3, <1>4, <1>5 DEF Operations, Adding, Drafting

LEMMA WorkLink ==
    ASSUME SchedulerInv, LinkInv, ~FreshExternal, Attached = Admins, NEW p \in Admins,
           Work(p) \/ Crash(p)
    PROVE  LinkInv'
  <1>1. pc[p] # "idle" /\ loc[p].id \in Schedules
    BY DEF Work, ReadVersion, ReadNumber, PutLifecycle, CallExternal, PutSchedule, PutNewVersion, Crash,
           SchedulerInv, AdminFits
  <1>2. NamesFit'
    <2>1. CASE CallExternal(p)
      BY <1>1, <2>1, CallExternalEffect, NamesStay DEF LinkInv
    <2>2. CASE ext' = ext
      BY <2>2 DEF LinkInv, NamesFit
    <2> QED BY <2>1, <2>2 DEF Work, ReadVersion, ReadNumber, PutLifecycle, PutSchedule, PutNewVersion, Crash
  <1>3. CASE PutSchedule(p)
    <2> DEFINE row == NewRow(p)
    <2>1. PICK s \in Schedules : s = loc[p].id
      BY <1>1
    <2>2. sched' = [sched EXCEPT ![s] = row] /\ OwnLink(s, row) /\ Return(p)
      BY <1>3, <2>1, NewRowLink DEF PutSchedule
    <2> HIDE DEF row
    <2>3. sched'[s] = row /\ \A t \in Schedules \ {s} : sched'[t] = sched[t]
      BY <2>2 DEF SchedulerInv, SchedulerTypes, TypeOK
    <2>4. \A t \in Schedules : OwnLink(t, sched[t])'
      BY <2>2, <2>3 DEF LinkInv, OwnLink
    <2>5. AdminLink(p)'
      BY <2>2, ReturnEffect DEF AdminLink
    <2> QED BY <1>2, <1>3, <2>4, <2>5, AdminLinkStep DEF Work
  <1>4. CASE ~PutSchedule(p)
    <2>1. sched' = sched
      BY <1>4 DEF Work, ReadVersion, ReadNumber, PutLifecycle, CallExternal, PutNewVersion, Crash
    <2>2. \A t \in Schedules : OwnLink(t, sched[t])'
      BY <2>1 DEF LinkInv, OwnLink
    <2>3. \/ pc'[p] = "idle"
          \/ /\ Keeps(p) /\ (pc'[p] = "put" => loc[p].op # "enable" \/ loc'[p].ext = loc[p].id)
      BY <1>4, ReturnEffect, ReadVersionEffect, ReadNumberEffect, PutNewVersionEffect,
         PutLifecycleEffect, CallExternalEffect DEF Work, Crash, Keeps, NewExternalId, Adding
    <2>4. AdminLink(p)'
      BY <1>1, <2>3 DEF AdminLink, LinkInv, Keeps, OwnLink
    <2> QED BY <1>2, <2>2, <2>4, AdminLinkStep
  <1> QED BY <1>3, <1>4

LEMMA DriftLink ==
    ASSUME SchedulerInv, LinkInv, ~FreshExternal, NEW e \in ExternalIds, Drift(e)
    PROVE  LinkInv'
  <1>1. /\ UNCHANGED <<sched, version, pc, loc>>
        /\ rec'.db = rec.db /\ rec'.pc = rec.pc /\ rec'.link = rec.link /\ rec'.id = rec.id
    BY DEF Drift, Disturb, Passes, SchedulerInv, SchedulerTypes
  <1>2. ext \in [ExternalIds -> ExternalRows] /\ NamesFit
    BY DEF LinkInv, SchedulerInv, SchedulerTypes, TypeOK
  <1>3. NamesFit'
    <2>1. CASE ExternalRemove(e)
      BY <1>2, <2>1 DEF ExternalRemove, NamesFit, NoExternalRow
    <2>2. CASE (\E c \in Configs : ExternalUpdate(e, c)) \/ ExternalSetPaused(e, ~ext[e].paused)
      <3>1. \A f \in ExternalIds : ext'[f].live = ext[f].live /\ ext'[f].sched = ext[f].sched
        BY <1>2, <2>2 DEF ExternalUpdate, ExternalSetPaused, ExternalRows
      <3> QED BY <1>2, <3>1 DEF NamesFit
    <2>3. CASE e = spent.ext + 1 /\ \E c \in Configs :
                   ext' = [ext EXCEPT ![e] = [live |-> TRUE, sched |-> NoSchedule,
                                              config |-> c, paused |-> FALSE]]
      <3>1. e \notin Schedules
        BY <2>3, SchedulerAssumption DEF SchedulerInv, SchedulerTypes, TypeOK
      <3>2. ext'[e].sched = NoSchedule /\ \A f \in ExternalIds \ {e} : ext'[f] = ext[f]
        BY <1>2, <2>3
      <3> QED BY <1>2, <3>1, <3>2 DEF NamesFit
    <2> QED BY <2>1, <2>2, <2>3 DEF Drift
  <1> QED BY <1>1, <1>3 DEF LinkInv, OwnLink, AdminLink

\* The rows a pass read stay until it ends.
LEMMA PassRows ==
    ASSUME SchedulerInv, Reconcile
    PROVE  rec'.db = rec.db \/ rec'.db = NoPass.db
  <1>0. rec \in Passes /\ NoPass \in Passes
    BY ConstantRows DEF SchedulerInv, SchedulerTypes
  <1>1. CASE ReconcileEnd \/ ReconcileReturn
    BY <1>0, <1>1 DEF ReconcileEnd, ReconcileReturn, Passes
  <1>2. CASE ReconcileListExternal \/ ReconcileMissing \/ ReconcileRelink \/ ReconcileConfig \/ ReconcilePaused
    BY <1>0, <1>2 DEF ReconcileListExternal, ReconcileMissing, ReconcileRelink, ReconcileConfig,
                      ReconcilePaused, Passes
  <1>3. CASE \E s \in Schedules : ReconcileNext(s)
    BY <1>0, <1>3 DEF ReconcileNext, Passes
  <1>4. CASE \E e \in ExternalIds : ReconcileOrphan(e)
    BY <1>0, <1>4 DEF ReconcileOrphan, Passes
  <1> QED BY <1>1, <1>2, <1>3, <1>4 DEF Reconcile

\* What the pass does to QStash.
LEMMA PassNames ==
    ASSUME SchedulerInv, LinkInv, ~FreshExternal, Reconcile
    PROVE  NamesFit'
  <1>0. NamesFit
    BY DEF LinkInv
  <1>1. rec.pc \in {"missing", "config", "paused"} => rec.id \in Schedules
    BY DEF SchedulerInv, PassFits
  <1>2. CASE ext' = ext
    BY <1>0, <1>2 DEF NamesFit
  <1>3. CASE ReconcileMissing
    BY <1>0, <1>1, <1>3, NamesStay DEF ReconcileMissing
  <1>4. CASE ReconcileConfig
    BY <1>0, <1>1, <1>4, NamesStay DEF ReconcileConfig
  <1>5. CASE ReconcilePaused
    BY <1>0, <1>1, <1>5, NamesStay DEF ReconcilePaused
  <1>6. CASE \E e \in ExternalIds : ReconcileOrphan(e)
    <2>1. PICK e \in ExternalIds : ext' = ext \/ ExternalRemove(e)
      BY <1>6 DEF ReconcileOrphan
    <2> QED BY <1>0, <1>2, <2>1 DEF ExternalRemove, NamesFit, NoExternalRow, SchedulerInv, SchedulerTypes, TypeOK
  <1> QED BY <1>2, <1>3, <1>4, <1>5, <1>6 DEF Reconcile, ReconcileListExternal, ReconcileNext,
             ReconcileRelink, ReconcileEnd, ReconcileReturn

LEMMA PassLink ==
    ASSUME SchedulerInv, LinkInv, ~FreshExternal, Reconcile
    PROVE  LinkInv'
  <1>0. rec \in Passes /\ NoPass \in Passes /\ pc' = pc /\ loc' = loc
    BY ConstantRows DEF Reconcile, ReconcileListExternal, ReconcileNext, ReconcileMissing, ReconcileRelink,
          ReconcileConfig, ReconcilePaused, ReconcileOrphan, ReconcileEnd, ReconcileReturn, adminVars,
          SchedulerInv, SchedulerTypes
  <1>1. NamesFit' /\ \A p \in Admins : AdminLink(p)'
    BY <1>0, PassNames DEF LinkInv, AdminLink, OwnLink
  <1>2. \A s \in Schedules : OwnLink(s, rec.db[s])'
    BY PassRows DEF LinkInv, OwnLink, NoPass, NoRow
  <1>3. \A s \in Schedules : OwnLink(s, sched[s])'
    <2>1. CASE ReconcileRelink
      <3> DEFINE row == [rec.db[rec.id] EXCEPT !.ext = rec.link]
      <3>1. PICK s \in Schedules : s = rec.id
        BY <2>1 DEF ReconcileRelink, SchedulerInv, PassFits
      <3>2. rec.db[s] \in Rows /\ rec.link = s /\ OwnLink(s, rec.db[s])
        BY <1>0, <2>1, <3>1 DEF ReconcileRelink, LinkInv, Passes
      <3>3. OwnLink(s, row)
        BY <3>1, <3>2 DEF OwnLink, Rows
      <3> HIDE DEF row
      <3>4. sched'[s] = row /\ \A t \in Schedules \ {s} : sched'[t] = sched[t]
        BY <2>1, <3>1 DEF ReconcileRelink, row, SchedulerInv, SchedulerTypes, TypeOK
      <3> QED BY <3>3, <3>4 DEF LinkInv, OwnLink
    <2>2. CASE sched' = sched
      BY <2>2 DEF LinkInv, OwnLink
    <2> QED BY <2>1, <2>2 DEF Reconcile, ReconcileListExternal, ReconcileNext, ReconcileMissing,
               ReconcileConfig, ReconcilePaused, ReconcileOrphan, ReconcileEnd, ReconcileReturn
  <1>4. rec'.pc = "relink" => rec'.link = rec'.id
    <2>1. CASE ReconcileMissing
      BY <1>0, <2>1 DEF ReconcileMissing, NewExternalId, Passes
    <2>2. CASE ReconcileEnd \/ ReconcileReturn
      <3>1. NoPass.pc = "idle"
        BY DEF NoPass
      <3> QED BY <1>0, <2>2, <3>1 DEF ReconcileEnd, ReconcileReturn, Passes
    <2>3. CASE ReconcileListExternal \/ ReconcileRelink \/ ReconcileConfig \/ ReconcilePaused
      BY <1>0, <2>3 DEF ReconcileListExternal, ReconcileRelink, ReconcileConfig, ReconcilePaused, Passes
    <2>4. CASE \E s \in Schedules : ReconcileNext(s)
      BY <1>0, <2>4 DEF ReconcileNext, Passes
    <2>5. CASE \E e \in ExternalIds : ReconcileOrphan(e)
      BY <1>0, <2>5 DEF ReconcileOrphan, Passes
    <2> QED BY <2>1, <2>2, <2>3, <2>4, <2>5 DEF Reconcile
  <1> QED BY <1>1, <1>2, <1>3, <1>4 DEF LinkInv

\* A pass begins with what listSchedules returned.
LEMMA ListEffect ==
    ASSUME SchedulerInv, NEW repair \in BOOLEAN, ReconcileList(repair)
    PROVE  /\ UNCHANGED <<sched, version, ext, pc, loc>> /\ rec'.pc = "list"
           /\ rec'.db = [s \in Schedules |-> IF s \in Listed THEN sched[s] ELSE NoRow]
           /\ rec'.clean => \A p \in Admins : pc[p] = "idle"
  <1> DEFINE db == [s \in Schedules |-> IF s \in Listed THEN sched[s] ELSE NoRow]
             clean == \A q \in Admins : pc[q] = "idle"
  <1>1. /\ rec' = [NoPass EXCEPT !.pc = "list", !.repair = repair, !.db = db, !.clean = clean]
        /\ UNCHANGED <<sched, version, ext, pc, loc>>
    BY DEF ReconcileList, adminVars
  <1> HIDE DEF db, clean
  <1>2. rec'.pc = "list" /\ rec'.db = db /\ rec'.clean = clean
    BY <1>1, ConstantRows DEF Passes
  <1> QED BY <1>1, <1>2 DEF db, clean

LEMMA NextLinkInv ==
    ASSUME SchedulerInv, LinkInv, ~FreshExternal, Attached = Admins, [Next]_vars
    PROVE  LinkInv'
  <1>1. CASE \E p \in Admins : Ask(p) \/ Work(p) \/ Crash(p)
    BY <1>1, AskLink, WorkLink
  <1>2. CASE \E e \in ExternalIds : Drift(e)
    BY <1>2, DriftLink
  <1>3. CASE \E repair \in BOOLEAN : ReconcileList(repair)
    <2>1. /\ UNCHANGED <<sched, version, ext, pc, loc>> /\ rec'.pc = "list"
          /\ rec'.db = [s \in Schedules |-> IF s \in Listed THEN sched[s] ELSE NoRow]
      BY <1>3, ListEffect
    <2> QED BY <2>1 DEF LinkInv, OwnLink, AdminLink, NamesFit, NoRow
  <1>4. CASE Reconcile
    BY <1>4, PassLink
  <1>5. CASE UNCHANGED vars
    BY <1>5 DEF vars, LinkInv, OwnLink, AdminLink, NamesFit
  <1> QED BY <1>1, <1>2, <1>3, <1>4, <1>5 DEF Next

LEMMA InitLinkInv == Init => LinkInv
  BY DEF Init, LinkInv, OwnLink, AdminLink, NamesFit, NoPass, NoRow, NoExternalRow

\* Where a step of the pass starts and what it keeps.
LEMMA PassKeeps ==
    ASSUME SchedulerInv, Reconcile
    PROVE  /\ pc' = pc /\ rec.pc # "idle" /\ (rec'.clean => rec.clean)
           /\ rec'.pc = "done" => ReconcileEnd
           /\ ReconcileReturn \/ (~rec'.found => ~rec.found)
  <1>0. /\ rec \in Passes /\ NoPass \in Passes /\ pc' = pc /\ NoPass.clean = FALSE /\ NoPass.pc = "idle"
    <2>1. pc' = pc
      BY DEF Reconcile, ReconcileListExternal, ReconcileNext, ReconcileMissing, ReconcileRelink,
          ReconcileConfig, ReconcilePaused, ReconcileOrphan, ReconcileEnd, ReconcileReturn, adminVars
    <2> QED BY <2>1, ConstantRows DEF SchedulerInv, SchedulerTypes, NoPass
  <1>1. CASE ReconcileReturn
    BY <1>0, <1>1 DEF ReconcileReturn
  <1>2. CASE ReconcileEnd
    BY <1>0, <1>2 DEF ReconcileEnd, Passes
  <1>3. CASE ReconcileListExternal \/ ReconcileMissing \/ ReconcileRelink
    BY <1>0, <1>3 DEF ReconcileListExternal, ReconcileMissing, ReconcileRelink, Passes
  <1>4. CASE ReconcileConfig \/ ReconcilePaused
    <2>1. rec.pc \in {"config", "paused"}
      BY <1>4 DEF ReconcileConfig, ReconcilePaused
    <2>2. PICK f \in BOOLEAN : /\ rec.found => f
                               /\ \/ rec' = [rec EXCEPT !.pc = "paused", !.found = f]
                                  \/ rec' = [rec EXCEPT !.pc = "next", !.found = f]
      BY <1>0, <1>4 DEF ReconcileConfig, ReconcilePaused, Passes
    <2> QED BY <1>0, <2>1, <2>2 DEF Passes
  <1>5. CASE \E s \in Schedules : ReconcileNext(s)
    BY <1>0, <1>5 DEF ReconcileNext, Passes
  <1>6. CASE \E e \in ExternalIds : ReconcileOrphan(e)
    BY <1>0, <1>6 DEF ReconcileOrphan, Passes
  <1> QED BY <1>1, <1>2, <1>3, <1>4, <1>5, <1>6 DEF Reconcile

\* An operation beside a pass, and a change by hand.
LEMMA DisturbedReport ==
    ASSUME SchedulerInv, ReportInv,
           (\E p \in Admins : Ask(p) \/ Work(p) \/ Crash(p)) \/ \E e \in ExternalIds : Drift(e)
    PROVE  ReportInv'
  <1>1. CASE \E p \in Admins : Work(p) \/ Crash(p)
    <2>1. PICK p \in Admins : Work(p) \/ Crash(p)
      BY <1>1
    <2>2. pc[p] # "idle" /\ rec' = rec
      BY <2>1 DEF Work, ReadVersion, ReadNumber, PutLifecycle, CallExternal, PutSchedule, PutNewVersion, Crash
    <2>3. ~rec'.clean \/ rec'.pc = "idle"
      BY <2>2 DEF ReportInv
    <2> QED BY <2>3 DEF ReportInv, ReportsAreComplete
  <1>2. CASE \/ \E p \in Admins : Ask(p)
             \/ \E e \in ExternalIds : Drift(e)
    <2>1. Disturb
      BY <1>2 DEF Ask, Create, Duplicate, Begin, Enter, Drift
    <2>2. rec'.clean = FALSE
      BY <2>1 DEF Disturb, SchedulerInv, SchedulerTypes, Passes
    <2> QED BY <2>2 DEF ReportInv, ReportsAreComplete
  <1> QED BY <1>1, <1>2

\* The rows an undisturbed pass works on are the ones of the table.
LEMMA SeenRow ==
    ASSUME LinkInv, PassSees, NEW s \in Schedules, rec.db[s].state # "NONE"
    PROVE  s \in Listed /\ rec.db[s] = sched[s] /\ sched[s].ext = s /\ s # NoExternal
  <1>1. rec.db[s] = IF s \in Listed THEN sched[s] ELSE NoRow
    BY DEF PassSees
  <1>2. s \in Listed /\ rec.db[s] = sched[s]
    BY <1>1 DEF NoRow
  <1>3. OwnLink(s, sched[s]) /\ sched[s].state \in {"ACTIVE", "PAUSED"}
    BY <1>2 DEF LinkInv, Listed
  <1> QED BY <1>2, <1>3, SchedulerAssumption DEF OwnLink, NoExternal

\* A step of an undisturbed pass that has found nothing.
LEMMA PassSeesOn ==
    ASSUME SchedulerInv, LinkInv, PassSees, Reconcile, ~rec'.found, rec'.pc \notin {"idle", "done"}
    PROVE  PassSees'
  <1>0. rec \in Passes /\ rec.pc \in {"list", "next", "config", "paused"}
    BY DEF SchedulerInv, SchedulerTypes, PassSees
  <1>1. CASE ReconcileListExternal
    <2>1. /\ UNCHANGED <<sched, version, ext>> /\ rec.pc = "list"
          /\ rec'.pc = "next" /\ rec'.db = rec.db /\ rec'.ext = ext
          /\ rec'.todo = {s \in Schedules : rec.db[s].state # "NONE"}
      BY <1>0, <1>1 DEF ReconcileListExternal, Passes
    <2>2. rec.db = [s \in Schedules |-> IF s \in Listed THEN sched[s] ELSE NoRow]
      BY DEF PassSees
    <2>3. \A s \in Listed : s \in Schedules /\ rec.db[s].state # "NONE"
      BY <2>2 DEF Listed
    <2>4. Listed' = Listed
      BY <2>1 DEF Listed
    <2> QED BY <2>1, <2>2, <2>3, <2>4 DEF PassSees
  <1>2. ASSUME NEW s \in Schedules, ReconcileNext(s) PROVE PassSees'
    <2>1. rec.pc = "next" /\ s \in rec.todo /\ UNCHANGED <<sched, version, ext>>
      BY <1>2 DEF ReconcileNext
    <2>2. /\ s \in Listed /\ rec.db[s] = sched[s] /\ sched[s].ext = s /\ s # NoExternal
      BY <2>1, SeenRow DEF SchedulerInv, PassFits
    <2>3. PICK e \in Linked(s) :
             rec' = [rec EXCEPT !.id = s, !.todo = @ \ {s}, !.ver = sched[s].ver,
                                !.pc = "config", !.link = e]
      <3>1. rec' = [rec EXCEPT !.id = s, !.todo = @ \ {s}, !.ver = sched[s].ver,
                                !.pc = "missing", !.found = TRUE] => rec'.found = TRUE
        BY <1>0 DEF Passes
      <3> QED BY <1>2, <3>1 DEF ReconcileNext
    <2>4. e = s /\ ext[s].live
      BY <2>1, <2>2 DEF Linked, PassSees
    <2>5. /\ rec'.pc = "config" /\ rec'.db = rec.db /\ rec'.ext = rec.ext /\ rec'.todo = rec.todo \ {s}
          /\ rec'.id = s /\ rec'.ver = sched[s].ver /\ rec'.link = s
      BY <1>0, <2>3, <2>4 DEF Passes
    <2>6. Listed' = Listed /\ \A t \in Listed : Agrees(t) => Agrees(t)'
      BY <2>1 DEF Listed, Agrees, Wanted
    <2>7. /\ rec.db = [t \in Schedules |-> IF t \in Listed THEN sched[t] ELSE NoRow]
          /\ rec.ext = ext /\ \A t \in Listed : Agrees(t) \/ t \in rec.todo
      BY <2>1 DEF PassSees
    <2> QED BY <2>1, <2>2, <2>4, <2>5, <2>6, <2>7 DEF PassSees
  <1>3. CASE ReconcileConfig
    <2> DEFINE seen == rec.ext[rec.link]
               wanted == version[rec.ver].config
               other == seen.sched \notin {NoSchedule, rec.id}
    <2>1. rec.pc = "config" /\ UNCHANGED <<sched, version>>
      BY <1>3 DEF ReconcileConfig
    <2>2. PICK f \in BOOLEAN : /\ (seen.config # wanted => f)
                               /\ rec' = [rec EXCEPT !.pc = "paused", !.found = f]
      BY <1>0, <1>3 DEF ReconcileConfig, Passes
    <2>3. rec'.found = f
      BY <1>0, <2>2 DEF Passes
    <2>4. seen.config = wanted /\ ext' = ext
      BY <1>3, <2>2, <2>3 DEF ReconcileConfig
    <2>5. /\ rec'.pc = "paused" /\ rec'.db = rec.db /\ rec'.ext = rec.ext /\ rec'.todo = rec.todo
          /\ rec'.id = rec.id /\ rec'.ver = rec.ver /\ rec'.link = rec.link
      BY <1>0, <2>2 DEF Passes
    <2>6. Listed' = Listed /\ \A t \in Listed : Agrees(t) => Agrees(t)'
      BY <2>1, <2>4 DEF Listed, Agrees, Wanted
    <2> QED BY <2>1, <2>4, <2>5, <2>6 DEF PassSees
  <1>4. CASE ReconcilePaused
    <2> DEFINE b == rec.db[rec.id].state = "PAUSED"
               differs == rec.ext[rec.link].paused # b
    <2>1. /\ rec.pc = "paused" /\ UNCHANGED <<sched, version>>
          /\ rec' = [rec EXCEPT !.pc = "next", !.found = @ \/ differs]
      BY <1>4 DEF ReconcilePaused
    <2>2. PICK f \in BOOLEAN : /\ (differs => f)
                               /\ rec' = [rec EXCEPT !.pc = "next", !.found = f]
      BY <1>0, <2>1 DEF Passes
    <2>3. rec'.found = f
      BY <1>0, <2>2 DEF Passes
    <2>4. ~differs /\ ext' = ext
      BY <1>4, <2>2, <2>3 DEF ReconcilePaused
    <2>5. /\ rec'.pc = "next" /\ rec'.db = rec.db /\ rec'.ext = rec.ext /\ rec'.todo = rec.todo
      BY <1>0, <2>2 DEF Passes
    <2>6. Listed' = Listed /\ \A t \in Listed : Agrees(t) => Agrees(t)'
      BY <2>1, <2>4 DEF Listed, Agrees, Wanted
    <2>7. PICK s \in Listed : s = rec.id /\ rec.link = s /\ ext[s].live
      BY <2>1 DEF PassSees
    <2>8. /\ s \in Schedules /\ rec.db[s] = sched[s] /\ sched[s].ext = s /\ s # NoExternal
      <3>1. s \in Schedules /\ rec.db[s].state # "NONE"
        BY <2>1, <2>7 DEF SchedulerInv, PassFits
      <3> QED BY <3>1, SeenRow
    <2>9. /\ ext[s] \in ExternalRows /\ s \in ExternalIds /\ ext[s].sched = s
          /\ ext[s].config = version[sched[s].ver].config
      <3>1. s \in ExternalIds
        BY <2>8 DEF ExternalIds
      <3> QED BY <2>1, <2>7, <2>8, <3>1 DEF PassSees, LinkInv, NamesFit, SchedulerInv, SchedulerTypes, TypeOK
    <2>10. Agrees(s)'
      <3>1. PICK c \in BOOLEAN : c = ext[s].paused
        BY <2>9 DEF ExternalRows
      <3>2. sched[s].state = "PAUSED" <=> c
        BY <2>1, <2>4, <2>7, <2>8, <3>1 DEF PassSees
      <3>3. ext[s].live = TRUE
        BY <2>7, <2>9 DEF ExternalRows
      <3>4. ext[s] = [live |-> TRUE, sched |-> s, config |-> version[sched[s].ver].config, paused |-> c]
        BY <2>9, <3>1, <3>3 DEF ExternalRows
      <3> QED BY <2>1, <2>4, <2>8, <3>2, <3>4, AgreesNow
    <2> QED BY <2>1, <2>4, <2>5, <2>6, <2>7, <2>10 DEF PassSees
  <1>5. ASSUME NEW e \in ExternalIds, ReconcileOrphan(e) PROVE FALSE
    BY <1>0, <1>5 DEF ReconcileOrphan, Passes
  <1>6. ~ReconcileMissing /\ ~ReconcileRelink
    BY <1>0 DEF ReconcileMissing, ReconcileRelink
  <1>7. ~ReconcileEnd /\ ~ReconcileReturn
    <2>1. NoPass \in Passes /\ NoPass.pc = "idle"
      BY ConstantRows DEF NoPass
    <2> QED BY <1>0, <2>1 DEF ReconcileEnd, ReconcileReturn, Passes
  <1> QED BY <1>1, <1>2, <1>3, <1>4, <1>5, <1>6, <1>7 DEF Reconcile

\* Nothing left to look at and no orphan: the table and QStash agree.
LEMMA PassSeesAll ==
    ASSUME SchedulerInv, LinkInv, PassSees, ReconcileEnd
    PROVE  InSync
  <1>0. rec.pc = "next" /\ rec.todo = {} /\ Orphans = {} /\ rec.ext = ext
    BY DEF ReconcileEnd, PassSees
  <1>1. \A s \in Listed : Agrees(s)
    BY <1>0 DEF PassSees
  <1>2. ASSUME NEW e \in ExternalIds, ext[e].live
        PROVE  \E s \in Listed : sched[s].ext = e
    <2>0. e \notin Orphans
      BY <1>0
    <2>1. CASE e \in Schedules
      <3>1. ext[e].sched = e /\ e # NoSchedule
        BY <1>2, <2>1, SchedulerAssumption DEF LinkInv, NamesFit
      <3>2. rec.db[e].state # "NONE"
        BY <1>0, <1>2, <2>0, <3>1 DEF Orphans
      <3> QED BY <2>1, <3>2, SeenRow
    <2>2. CASE e \notin Schedules
      <3>1. ext[e].sched = NoSchedule
        BY <1>2, <2>2 DEF LinkInv, NamesFit
      <3>2. PICK s \in Schedules : rec.db[s].ext = e
        BY <1>0, <1>2, <2>0, <3>1 DEF Orphans
      <3>3. e = NoExternal
        BY <2>2, <3>2 DEF LinkInv, OwnLink
      <3> QED BY <1>2, <3>3, SchedulerAssumption DEF ExternalIds, NoExternal
    <2> QED BY <2>1, <2>2
  <1> QED BY <1>1, <1>2 DEF InSync, Agrees, Wanted

LEMMA PassReport ==
    ASSUME SchedulerInv, LinkInv, ReportInv, Reconcile
    PROVE  ReportInv'
  <1>0. /\ pc' = pc /\ rec.pc # "idle" /\ (rec'.clean => rec.clean)
        /\ rec'.pc = "done" => ReconcileEnd
        /\ ReconcileReturn \/ (~rec'.found => ~rec.found)
    BY PassKeeps
  <1>1. CASE ReconcileReturn
    <2>1. rec'.clean = FALSE
      BY <1>1 DEF ReconcileReturn, NoPass
    <2> QED BY <2>1 DEF ReportInv, ReportsAreComplete
  <1>2. CASE ~ReconcileReturn
    <2>1. rec.pc # "done"
      BY <1>2 DEF Reconcile, ReconcileListExternal, ReconcileNext, ReconcileMissing, ReconcileRelink,
          ReconcileConfig, ReconcilePaused, ReconcileOrphan, ReconcileEnd
    <2>2. rec'.clean /\ ~rec'.found => PassSees
      BY <1>0, <1>2, <2>1 DEF ReportInv
    <2>3. rec'.clean /\ ~rec'.found /\ rec'.pc \notin {"idle", "done"} => PassSees'
      BY <2>2, PassSeesOn
    <2>4. ReportsAreComplete'
      <3> SUFFICES ASSUME rec'.pc = "done", rec'.clean, ~rec'.found PROVE InSync'
        BY DEF ReportsAreComplete
      <3>1. ReconcileEnd /\ InSync
        BY <1>0, <2>2, PassSeesAll
      <3> QED BY <3>1 DEF ReconcileEnd, InSync, Listed
    <2>5. rec'.clean /\ rec'.pc # "idle" => \A p \in Admins : pc'[p] = "idle"
      BY <1>0 DEF ReportInv
    <2> QED BY <2>3, <2>4, <2>5 DEF ReportInv
  <1> QED BY <1>1, <1>2

LEMMA NextReportInv ==
    ASSUME SchedulerInv, LinkInv, ReportInv, [Next]_vars
    PROVE  ReportInv'
  <1>1. CASE (\E p \in Admins : Ask(p) \/ Work(p) \/ Crash(p)) \/ \E e \in ExternalIds : Drift(e)
    BY <1>1, DisturbedReport
  <1>2. CASE \E repair \in BOOLEAN : ReconcileList(repair)
    <2>1. /\ UNCHANGED <<sched, version, ext, pc, loc>> /\ rec'.pc = "list"
          /\ rec'.db = [s \in Schedules |-> IF s \in Listed THEN sched[s] ELSE NoRow]
          /\ rec'.clean => \A p \in Admins : pc[p] = "idle"
      BY <1>2, ListEffect
    <2>2. Listed' = Listed
      BY <2>1 DEF Listed
    <2> QED BY <2>1, <2>2 DEF ReportInv, ReportsAreComplete, PassSees
  <1>3. CASE Reconcile
    BY <1>3, PassReport
  <1>4. CASE UNCHANGED vars
    BY <1>4 DEF vars, ReportInv, ReportsAreComplete, InSync, PassSees, Listed, Agrees, Wanted
  <1> QED BY <1>1, <1>2, <1>3, <1>4 DEF Next

LEMMA InitReportInv == Init => ReportInv
  BY DEF Init, ReportInv, ReportsAreComplete, NoPass

\* Any number of admins that die half-way, any change by hand and any repair
\* before it: a pass that nothing disturbed and that found nothing has seen the
\* table and QStash agree.  QStash must derive the id of a schedule from the
\* schedule and every service have QStash: two external schedules that name one
\* schedule, or a row without a link, deceive the comparison.
THEOREM ReportsAlwaysComplete ==
    ASSUME ~FreshExternal, Attached = Admins
    PROVE  Spec => []ReportsAreComplete
  <1>1. SchedulerInv /\ LinkInv /\ [Next]_vars => LinkInv'
    BY NextLinkInv
  <1>2. SchedulerInv /\ LinkInv /\ ReportInv /\ [Next]_vars => ReportInv'
    BY NextReportInv
  <1>3. ReportInv => ReportsAreComplete
    BY DEF ReportInv
  <1> QED BY <1>1, <1>2, <1>3, InitLinkInv, InitReportInv, SpecSchedulerInv, PTL DEF Spec
=============================================================================
