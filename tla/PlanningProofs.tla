--------------------------- MODULE PlanningProofs ---------------------------
(***************************************************************************)
(* Theorems of the modules Planning, Analytics and WhatIf.                 *)
(***************************************************************************)
EXTENDS WhatIf, WellFoundedInduction, TLAPS

-----------------------------------------------------------------------------
(* What the theorems assume of the records the ERP sends.                  *)

\* Stretches of time have a first and a last hour.
Stretches(S) == S \subseteq Int \X Int

\* Shifts begin and end at times of a day, and no time zone is more than a day from UTC.
SoundCalendar(spec) ==
    /\ \A f \in spec.shifts : f.start \in 0 .. DayLength - 1 /\ f.end \in 0 .. DayLength - 1
    /\ spec.offset \in Int /\ -DayLength <= spec.offset /\ spec.offset <= DayLength
    /\ Stretches(spec.overtime)

SoundMachine(machine) ==
    /\ {"from", "downtime"} \subseteq DOMAIN machine
    /\ machine.from \in Int /\ Stretches(machine.downtime)

SoundRecords(s) ==
    /\ {"order", "machine", "calendar"} \subseteq DOMAIN s
    /\ \A o \in DOMAIN s.order : "due" \in DOMAIN s.order[o] /\ s.order[o].due \in Int \cup {None}
    /\ \A m \in DOMAIN s.machine : SoundMachine(s.machine[m])
    /\ \A k \in DOMAIN s.calendar : SoundCalendar(s.calendar[k])

\* A day has hours, and the days looked at are numbered.
DaysAreCounted == DayLength \in Nat \ {0} /\ SearchDays \subseteq Int

\* The ERP's first records are sound, and so are those of each synchronisation.
RecordsStaySound ==
    /\ \A s \in Snapshots : SoundRecords(s)
    /\ \A s : SoundRecords(s) => \A r \in Records(s) : SoundRecords(r)

\* Planners' decisions are overlays: they change no record.
DecisionsAreOverlays == \A d \in Decisions : d.into \in {"overrides", "locks", "expedites"}

-----------------------------------------------------------------------------
(* A set of natural numbers that is not empty has a least member.          *)

LEMMA LeastMember ==
    ASSUME NEW T \in SUBSET Nat, T # {}
    PROVE  \E m \in T : \A n \in T : m <= n
<1>1. PICK m \in T : \A n \in T : <<n, m>> \notin OpToRel(<, Nat)
  BY NatLessThanWellFounded, WFMin
<1>2. ASSUME NEW n \in T, n < m PROVE FALSE
  <2>1. <<n, m>> \in OpToRel(<, Nat)
    BY <1>2 DEF OpToRel
  <2> QED BY <1>1, <2>1
<1>3. \A n \in T : n \in Nat
  OBVIOUS
<1> QED BY <1>2, <1>3

-----------------------------------------------------------------------------
(* Calendars.                                                              *)

LEMMA DayOf ==
    ASSUME DaysAreCounted, NEW d \in Int, NEW h \in DayHours(d)
    PROVE  /\ h \in Int /\ d * DayLength <= h /\ h < (d + 1) * DayLength
           /\ h \div DayLength = d
<1> DEFINE L == DayLength
<1>1. L \in Nat \ {0} /\ d * L \in Int /\ (d + 1) * L \in Int /\ (d + 1) * L = d * L + L
    BY DEF DaysAreCounted
<1>2. h \in d * L .. (d + 1) * L - 1
    BY DEF DayHours, HoursOf
<1>3. h \in Int /\ d * L <= h /\ h < (d + 1) * L
    BY <1>1, <1>2
<1>4. h \div L = d
    <2>1. h \div L \in Int /\ h = L * (h \div L) + (h % L) /\ h % L \in 0 .. L - 1
        BY <1>1, <1>3
    <2>. QED
        BY <2>1, <1>1, <1>3
<1>. QED
    BY <1>3, <1>4

LEMMA FewerDays ==
    ASSUME DaysAreCounted, NEW a \in Int, NEW b \in Int, a * DayLength < b * DayLength
    PROVE  a < b
<1> DEFINE L == DayLength
<1>1. L \in Nat /\ L > 0
    BY DEF DaysAreCounted
<1>2. SUFFICES ASSUME a >= b PROVE FALSE
    OBVIOUS
<1>3. PICK c \in Nat : a = b + c
    <2>1. a - b \in Nat /\ a = b + (a - b)
        BY <1>2
    <2>. QED
        BY <2>1
<1>4. a * L = b * L + c * L /\ c * L \in Nat /\ b * L \in Int
    BY <1>1, <1>3
<1>. QED
    BY <1>4

\* The hours a shift that is active on the local date e has of the day d.
OfDate(spec, e, h) ==
    \E f \in ActiveShifts(spec, e) :
        /\ e * DayLength + f.start <= h + spec.offset
        /\ h + spec.offset < e * DayLength + f.start + Length(f)

LEMMA HoursOfDate ==
    ASSUME DaysAreCounted, NEW spec, SoundCalendar(spec), NEW e \in Int, NEW h \in Int
    PROVE  h \in LocalDateHours(spec, e) <=> OfDate(spec, e, h)
<1> DEFINE L == DayLength
           Stretch(f) ==
               LET begin == e * L - spec.offset
               IN  HoursOf(<<begin + f.start, begin + f.end + (IF CrossesMidnight(f) THEN L ELSE 0)>>)
           Inside(f) == /\ e * L + f.start <= h + spec.offset
                        /\ h + spec.offset < e * L + f.start + Length(f)
<1>1. ASSUME NEW f \in ActiveShifts(spec, e)
      PROVE  h \in Stretch(f) <=> Inside(f)
    <2>1. f \in spec.shifts
        BY <1>1 DEF ActiveShifts
    <2>2. /\ f.start \in Int /\ f.end \in Int /\ spec.offset \in Int /\ L \in Int /\ e * L \in Int
        BY <2>1 DEF SoundCalendar, DaysAreCounted
    <2> DEFINE from == e * L - spec.offset + f.start
               to   == e * L - spec.offset + f.end + (IF CrossesMidnight(f) THEN L ELSE 0)
    <2>3. h \in Stretch(f) <=> h \in from .. to - 1
        BY DEF HoursOf
    <2>4. from \in Int /\ to \in Int
        BY <2>2 DEF CrossesMidnight
    <2>5. to = from + Length(f) /\ Length(f) \in Int
        BY <2>2 DEF CrossesMidnight, Length
    <2>6. h \in from .. to - 1 <=> from <= h /\ h < to
        BY <2>4
    <2>7. from <= h <=> e * L + f.start <= h + spec.offset
        BY <2>2
    <2>8. h < from + Length(f) <=> h + spec.offset < e * L + f.start + Length(f)
        BY <2>2, <2>5
    <2>. QED
        BY <2>3, <2>5, <2>6, <2>7, <2>8
<1>2. h \in LocalDateHours(spec, e) <=> \E f \in ActiveShifts(spec, e) : h \in Stretch(f)
    BY DEF LocalDateHours
<1>3. OfDate(spec, e, h) <=> \E f \in ActiveShifts(spec, e) : Inside(f)
    BY DEF OfDate
<1> HIDE DEF Stretch, Inside
<1>. QED
    BY <1>1, <1>2, <1>3

LEMMA ShiftDates ==
    ASSUME DaysAreCounted, NEW spec, SoundCalendar(spec), NEW d \in Int, NEW h \in DayHours(d)
    PROVE  (\E e \in d - 2 .. d + 1 : h \in LocalDateHours(spec, e)) <=> InShift(spec, h)
<1> DEFINE L == DayLength
<1>1. h \in Int /\ d * L <= h /\ h < (d + 1) * L /\ h \div L = d
    BY DayOf
<1>2. InShift(spec, h) <=> \E e \in d - 3 .. d + 3 : OfDate(spec, e, h)
    BY <1>1 DEF InShift, OfDate
<1>3. ASSUME NEW e \in d - 3 .. d + 3, OfDate(spec, e, h)
      PROVE  e \in d - 2 .. d + 1
    <2>1. PICK f \in ActiveShifts(spec, e) :
              /\ e * L + f.start <= h + spec.offset
              /\ h + spec.offset < e * L + f.start + Length(f)
        BY <1>3 DEF OfDate
    <2>2. f \in spec.shifts
        BY DEF ActiveShifts
    <2>3. /\ L \in Nat \ {0} /\ e \in Int /\ e * L \in Int /\ d * L \in Int
          /\ f.start \in 0 .. L - 1 /\ f.end \in 0 .. L - 1
          /\ spec.offset \in Int /\ -L <= spec.offset /\ spec.offset <= L
        BY <2>2 DEF SoundCalendar, DaysAreCounted
    <2>4. Length(f) \in Int /\ Length(f) <= L
        BY <2>3 DEF Length
    <2>5. /\ (d + 1) * L = d * L + L /\ (d + 2) * L = d * L + 2 * L /\ (d - 1) * L = d * L - L
          /\ (e + 2) * L = e * L + 2 * L
        BY <2>3
    <2>6. e * L < (d + 2) * L
        BY <1>1, <2>1, <2>3, <2>5
    <2>7. (d - 1) * L < (e + 2) * L
        BY <1>1, <2>1, <2>3, <2>4, <2>5
    <2>8. e < d + 2
        BY <2>3, <2>6, FewerDays
    <2>9. d - 1 < e + 2
        BY <2>3, <2>7, FewerDays
    <2>. QED
        BY <2>3, <2>8, <2>9
<1>4. ASSUME NEW e \in d - 2 .. d + 1
      PROVE  e \in Int /\ e \in d - 3 .. d + 3
    OBVIOUS
<1>5. \A e \in d - 2 .. d + 1 : h \in LocalDateHours(spec, e) <=> OfDate(spec, e, h)
    BY <1>1, <1>4, HoursOfDate
<1>. QED
    BY <1>2, <1>3, <1>4, <1>5

\* One day: the hours put together for it are those the calendar means.
LEMMA DayIsExact ==
    ASSUME DaysAreCounted, NEW s, SoundRecords(s), NEW m \in DOMAIN s.machine,
           NEW d \in Int, NEW h \in DayHours(d)
    PROVE  h \in UtcDayHours(ResolveCalendarSpec(s, m), d) \ Blocked(s.machine[m], d)
               <=> WorksAt(s, m, h)
<1> DEFINE spec    == ResolveCalendarSpec(s, m)
           machine == s.machine[m]
<1>1. SoundCalendar(spec)
    <2>1. SoundCalendar(RoundTheClock)
        BY DEF SoundCalendar, RoundTheClock, Stretches, DaysAreCounted
    <2>2. \A k : Known(k, s.calendar) => SoundCalendar(s.calendar[k])
        BY DEF Known, SoundRecords
    <2>. QED
        BY <2>1, <2>2 DEF ResolveCalendarSpec
<1>2. SoundMachine(machine)
    BY DEF SoundRecords
<1>3. h \in Int
    BY DayOf
<1>4. ASSUME NEW w \in Int \X Int
      PROVE  h \in HoursOf(w) <=> w[1] <= h /\ h < w[2]
    <2>1. w[1] \in Int /\ w[2] \in Int
        OBVIOUS
    <2>. QED
        BY <1>3, <2>1 DEF HoursOf
<1>5. h \in Overtime(spec) <=> \E w \in spec.overtime : w[1] <= h /\ h < w[2]
    BY <1>1, <1>4 DEF Overtime, SoundCalendar, Stretches
<1>6. h \in Blocked(machine, d) <=> h < machine.from \/ \E w \in machine.downtime : w[1] <= h /\ h < w[2]
    BY <1>2, <1>4 DEF Blocked, SoundMachine, Stretches
<1>7. h < machine.from <=> ~(h >= machine.from)
    BY <1>2, <1>3 DEF SoundMachine
<1>8. h \in UtcDayHours(spec, d) <=> InShift(spec, h) \/ h \in Overtime(spec)
    <2>1. (\E e \in d - 2 .. d + 1 : h \in LocalDateHours(spec, e)) <=> InShift(spec, h)
        BY <1>1, ShiftDates
    <2>. QED
        BY <2>1 DEF UtcDayHours
<1> HIDE DEF spec, machine
<1>9. WorksAt(s, m, h) <=> /\ InShift(spec, h) \/ \E w \in spec.overtime : w[1] <= h /\ h < w[2]
                           /\ h >= machine.from
                           /\ \A w \in machine.downtime : ~(w[1] <= h /\ h < w[2])
    BY DEF WorksAt, spec, machine
<1>10. h \in UtcDayHours(spec, d) \ Blocked(machine, d) <=> WorksAt(s, m, h)
    BY <1>5, <1>6, <1>7, <1>8, <1>9
<1>. QED
    BY <1>10 DEF spec, machine

LEMMA CalendarIsExact ==
    ASSUME DaysAreCounted, NEW s, SoundRecords(s), NEW m \in DOMAIN s.machine
    PROVE  WorkingHours(s, m) = {h \in UNION {DayHours(d) : d \in SearchDays} : WorksAt(s, m, h)}
<1> DEFINE Day(d) == UtcDayHours(ResolveCalendarSpec(s, m), d) \ Blocked(s.machine[m], d)
<1>1. \A d \in SearchDays : d \in Int
    BY DEF DaysAreCounted
<1>2. \A d \in SearchDays : Day(d) \subseteq DayHours(d)
    BY DEF UtcDayHours
<1>3. \A d \in SearchDays : \A h \in DayHours(d) : h \in Day(d) <=> WorksAt(s, m, h)
    BY <1>1, DayIsExact
<1>4. WorkingHours(s, m) = UNION {Day(d) : d \in SearchDays}
    BY DEF WorkingHours
<1> HIDE DEF Day
<1>. QED
    BY <1>2, <1>3, <1>4

-----------------------------------------------------------------------------
(* The data-quality issues.                                                *)

Codes == {DashboardPrecedence[i] : i \in DOMAIN DashboardPrecedence}

\* Every issue has a code the dashboard knows.
Coded(issues) == \A i \in issues : i.code \in Codes

LEMMA CodesAre ==
    Codes = {"MISSING_OPERATIONS", "INVALID_ROUTING", "MISSING_MACHINE_ASSIGNMENT",
             "CONFLICTING_MACHINE_CAPABILITY", "MISSING_CYCLE_TIME", "IMPOSSIBLE_PRODUCTION_TIME",
             "MISSING_SETUP_TIME", "MISSING_MATERIAL", "MISSING_DUE_DATE", "INVALID_DATE",
             "NEGATIVE_QUANTITY", "INCORRECT_STATUS", "DUPLICATE_ORDER", "MISSING_CUSTOMER",
             "UNKNOWN_REFERENCE"}
<1>1. DOMAIN DashboardPrecedence = 1 .. 15
    BY DEF DashboardPrecedence
<1>2. 1 .. 15 = {1, 2, 3, 4, 5, 6, 7, 8, 9, 10, 11, 12, 13, 14, 15}
    OBVIOUS
<1>. QED
    BY <1>1, <1>2 DEF Codes, DashboardPrecedence

LEMMA WarningsAreCoded ==
    ASSUME NEW issues, Coded(issues)
    PROVE  Coded(AsWarnings(issues))
BY DEF Coded, AsWarnings, Warning

LEMMA IssuesAreCoded ==
    ASSUME NEW s, NEW t
    PROVE  Coded(Issues(s, t))
<1>1. Coded(MissingDueDate(s)) /\ Coded(MissingCustomer(s)) /\ Coded(IncorrectStatus(s))
      /\ Coded(DuplicateOrder(s)) /\ Coded(InvalidDate(s, t))
    BY CodesAre DEF Coded, MissingDueDate, MissingCustomer, IncorrectStatus, DuplicateOrder, InvalidDate,
                    OnOrders, Issue
<1>2. Coded(NegativeQuantity(s))
    BY CodesAre, WarningsAreCoded DEF Coded, NegativeQuantity, OnOrders, Issue
<1>3. Coded(MissingCycleTime(s)) /\ Coded(MissingSetupTime(s)) /\ Coded(MissingMachineAssignment(s))
      /\ Coded(MissingMaterial(s))
    BY CodesAre DEF Coded, MissingCycleTime, MissingSetupTime, MissingMachineAssignment, MissingMaterial,
                    OnSteps, Issue
<1>4. Coded(ImpossibleProductionTime(s))
    BY CodesAre, WarningsAreCoded DEF Coded, ImpossibleProductionTime, OnOrders, Issue
<1>6. Coded(ConflictingMachineCapability(s))
    BY CodesAre, WarningsAreCoded DEF Coded, ConflictingMachineCapability, OnSteps, Issue
<1>5. Coded(InvalidRouting(s)) /\ Coded(UnknownReference(s))
    BY CodesAre DEF Coded, InvalidRouting, UnknownReference, OnOrders, OnSteps, Issue
<1>. QED
    BY <1>1, <1>2, <1>3, <1>4, <1>5, <1>6 DEF Coded, Issues

-----------------------------------------------------------------------------
(* The inductive invariant.                                                *)

Inv ==
    /\ now \in Nat
    /\ SoundRecords(plant)
    /\ Coded(filed)

LEMMA OverlaysChangeNoRecord ==
    ASSUME NEW s, SoundRecords(s), NEW k \in {"overrides", "locks", "expedites"}, NEW rows
    PROVE  SoundRecords([s EXCEPT ![k] = rows])
<1> DEFINE r == [s EXCEPT ![k] = rows]
<1>1. DOMAIN r = DOMAIN s /\ r.order = s.order /\ r.machine = s.machine /\ r.calendar = s.calendar
    BY DEF SoundRecords
<1> HIDE DEF r
<1>. QED
    BY <1>1 DEF SoundRecords

LEMMA Inductive ==
    ASSUME RecordsStaySound, DecisionsAreOverlays
    PROVE  Spec => []Inv
<1>1. ASSUME Init PROVE Inv
    BY <1>1 DEF Init, Inv, RecordsStaySound, Coded
<1>2. ASSUME Inv, [Next]_vars PROVE Inv'
    <2>1. CASE Plan
        BY <1>2, <2>1, IssuesAreCoded DEF Plan, Inv, Refile
    <2>2. CASE CheckData
        BY <1>2, <2>2, IssuesAreCoded DEF CheckData, Inv, Refile
    <2>3. CASE Tick
        BY <1>2, <2>3 DEF Tick, Inv
    <2>4. CASE Synchronise
        BY <1>2, <2>4, RecordsStaySound DEF Synchronise, Inv, RecordsStaySound
    <2>5. CASE Decide
        <3>1. PICK d \in Decisions : \E row : plant' = [plant EXCEPT ![d.into] = @ \cup {row}]
            BY <2>5 DEF Decide
        <3>2. PICK row : plant' = [plant EXCEPT ![d.into] = plant[d.into] \cup {row}]
            BY <3>1
        <3>3. d.into \in {"overrides", "locks", "expedites"}
            BY DEF DecisionsAreOverlays
        <3>4. SoundRecords(plant')
            BY <1>2, <3>2, <3>3, OverlaysChangeNoRecord DEF Inv
        <3>. QED
            BY <1>2, <2>5, <3>4 DEF Decide, Inv
    <2>6. CASE UNCHANGED vars
        BY <1>2, <2>6 DEF vars, Inv
    <2>. QED
        BY <1>2, <2>1, <2>2, <2>3, <2>4, <2>5, <2>6 DEF Next
<1>. QED
    BY <1>1, <1>2, PTL DEF Spec

(* Whatever the shifts, holidays, overtime, downtime and time zones of the  *)
(* records the ERP sends, the hours put together day by day (_day,          *)
(* utc_day_segments) are those the calendar means: looking at the local     *)
(* dates from two before to one after a day of UTC is always enough.        *)
THEOREM DaysMakeCalendars ==
    ASSUME DaysAreCounted, RecordsStaySound, DecisionsAreOverlays
    PROVE  Spec => []CalendarsExact
<1>1. Inv => CalendarsExact
    BY CalendarIsExact DEF Inv, CalendarsExact
<1>. QED
    BY <1>1, Inductive, PTL

-----------------------------------------------------------------------------
(* Alerts.                                                                 *)

\* What the announcements read of an order's risk.
LEMMA RiskOf ==
    ASSUME NEW v, NEW o \in OpenOrders(v.s)
    PROVE  LET risk == AssessOrderRisk(v, o)
               due  == v.s.order[o].due
           IN  /\ risk.untilDue = IF due = None THEN None ELSE due - v.t
               /\ risk.late \in BOOLEAN
               /\ risk.late => due # None
BY DEF AssessOrderRisk

\* The earliest defect on file is the one the dashboard names.
LEMMA ReasonOnFile ==
    ASSUME NEW issues, Coded(issues), NEW i \in issues, i.blocking
    PROVE  \E j \in issues : j.blocking /\ j.code = PrimaryReason(issues, i.order)
<1> DEFINE D    == DashboardPrecedence
           Hits == {n \in DOMAIN D : \E j \in issues : j.order = i.order /\ j.blocking /\ j.code = D[n]}
<1>1. DOMAIN D = 1 .. 15
    BY DEF DashboardPrecedence
<1>2. Hits \subseteq Nat /\ Hits # {}
    <2>1. PICK n \in DOMAIN D : i.code = D[n]
        BY DEF Coded, Codes
    <2>. QED
        BY <1>1, <2>1
<1>3. \E n \in Hits : \A k \in Hits : n <= k
    <2>1. Hits \in SUBSET Nat
        BY <1>2
    <2>. QED
        BY <1>2, <2>1, LeastMember
<1>4. LeastOf(Hits) \in Hits
    BY <1>3 DEF LeastOf
<1>5. PrimaryReason(issues, i.order) = D[LeastOf(Hits)]
    BY DEF PrimaryReason
<1>6. \A n \in Hits : \E j \in issues : j.blocking /\ j.code = D[n]
    OBVIOUS
<1> HIDE DEF Hits
<1>. QED
    BY <1>4, <1>5, <1>6

LEMMA WhoIsAnnounced ==
    ASSUME NEW v, v.t \in Int, SoundRecords(v.s), None \notin Int, NEW o \in OpenOrders(v.s)
    PROVE  LET risk == OrdersAtRisk(v)
               late == {a \in LikelyLateAlerts(v, risk) : a.entity = o}
               over == {a \in OverdueAlerts(risk) : a.entity = o}
               overdue == v.s.order[o].due # None /\ v.s.order[o].due < v.t
           IN  /\ overdue => over # {} /\ late = {}
               /\ risk[o].late /\ ~overdue => over = {} /\ late = {Alert("high", o)}
<1> DEFINE risk == OrdersAtRisk(v)
           late == {a \in LikelyLateAlerts(v, risk) : a.entity = o}
           over == {a \in OverdueAlerts(risk) : a.entity = o}
           due  == v.s.order[o].due
<1>1. DOMAIN risk = OpenOrders(v.s) /\ risk[o] = AssessOrderRisk(v, o)
    BY DEF OrdersAtRisk
<1>2. /\ risk[o].untilDue = IF due = None THEN None ELSE due - v.t
      /\ risk[o].late \in BOOLEAN
      /\ risk[o].late => due # None
    BY <1>1, RiskOf
<1>3. due \in Int \cup {None}
    BY DEF SoundRecords, OpenOrders
<1> HIDE DEF due
<1>4. risk[o].untilDue # None /\ risk[o].untilDue < 0 <=> due # None /\ due < v.t
    BY <1>2, <1>3
<1>5. risk[o].untilDue # None /\ risk[o].untilDue >= 0 <=> due # None /\ ~(due < v.t)
    BY <1>2, <1>3
<1> HIDE DEF risk
<1>6. over = IF due # None /\ due < v.t THEN {Alert("critical", o)} ELSE {}
    BY <1>1, <1>4 DEF OverdueAlerts, Alert
<1>7. ASSUME due # None, due < v.t PROVE late = {}
    BY <1>1, <1>5, <1>7 DEF LikelyLateAlerts, Alert
<1>8. ASSUME risk[o].late, ~(due # None /\ due < v.t) PROVE late = {Alert("high", o)}
    BY <1>1, <1>2, <1>5, <1>8 DEF LikelyLateAlerts, Alert
<1>9. /\ due # None /\ due < v.t => over # {} /\ late = {}
      /\ risk[o].late /\ ~(due # None /\ due < v.t) => over = {} /\ late = {Alert("high", o)}
    BY <1>6, <1>7, <1>8
<1>. QED
    BY <1>9 DEF due, risk

LEMMA Announced ==
    ASSUME Inv, None \notin Int
    PROVE  LateOrdersAnnounced
<1> DEFINE v     == LiveView
           risk  == OrdersAtRisk(v)
           alerts == EvaluateAlerts(v, risk)
           board == Dashboard(plant, filed)
           overdue(o)  == plant.order[o].due # None /\ plant.order[o].due < now
           on(o, type) == {a \in alerts[type] : a.entity = o}
<1>1. v.s = plant /\ v.t = now /\ v.issues = filed
    BY DEF LiveView, ViewOf
<1>2. /\ alerts["ORDER_LIKELY_LATE"] = LikelyLateAlerts(v, risk)
      /\ alerts["ORDER_OVERDUE"] = OverdueAlerts(risk)
      /\ alerts["DATA_QUALITY"] = DataQualityAlerts(v)
    BY DEF EvaluateAlerts
<1>3. \A o \in OpenOrders(plant) :
          /\ overdue(o) => on(o, "ORDER_OVERDUE") # {} /\ on(o, "ORDER_LIKELY_LATE") = {}
          /\ risk[o].late /\ ~overdue(o) => /\ on(o, "ORDER_OVERDUE") = {}
                                            /\ on(o, "ORDER_LIKELY_LATE") = {Alert("high", o)}
    <2> TAKE o \in OpenOrders(plant)
    <2> HIDE DEF v
    <2>1. v.t \in Int /\ SoundRecords(v.s) /\ o \in OpenOrders(v.s)
        BY <1>1 DEF Inv
    <2>2. LET late == {a \in LikelyLateAlerts(v, risk) : a.entity = o}
              over == {a \in OverdueAlerts(risk) : a.entity = o}
              od   == v.s.order[o].due # None /\ v.s.order[o].due < v.t
          IN  /\ od => over # {} /\ late = {}
              /\ risk[o].late /\ ~od => over = {} /\ late = {Alert("high", o)}
        BY <2>1, WhoIsAnnounced
    <2> HIDE DEF risk, alerts
    <2>. QED
        BY <1>1, <1>2, <2>2
<1>4. \A o \in DOMAIN board : Alert("high", board[o]) \in alerts["DATA_QUALITY"]
    <2> TAKE o \in DOMAIN board
    <2>1. board[o] = PrimaryReason(filed, o) /\ \E i \in filed : i.blocking /\ i.order = o
        BY DEF Dashboard
    <2>2. PICK j \in filed : j.blocking /\ j.code = board[o]
        BY <2>1, ReasonOnFile DEF Inv
    <2> HIDE DEF v, risk, alerts, board
    <2>. QED
        BY <1>1, <1>2, <2>2 DEF DataQualityAlerts
<1> HIDE DEF risk, alerts, board
<1>. QED
    BY <1>3, <1>4 DEF LateOrdersAnnounced, risk, alerts, board

LEMMA StudiesOnlyLook == StudySpec => Spec
<1>1. StudyInit => Init
    BY DEF StudyInit
<1>2. [StudyNext]_studyVars => [Next]_vars
    BY DEF StudyNext, Simulate, studyVars, vars
<1>. QED
    BY <1>1, <1>2, PTL DEF StudySpec, Spec

(* Whoever is late hears of it once, with planners studying what would be   *)
(* if as well: the two rules on late orders divide them by their due dates  *)
(* whatever the plan and the priorities say, and each order the dashboard   *)
(* counts finds its defect among the alerts - however old the issues on     *)
(* file are - as the dashboard knows every code a rule can give.            *)
THEOREM LatenessIsAnnounced ==
    ASSUME RecordsStaySound, DecisionsAreOverlays, None \notin Int
    PROVE  StudySpec => []LateOrdersAnnounced
<1>1. Inv => LateOrdersAnnounced
    BY Announced
<1>. QED
    BY <1>1, Inductive, StudiesOnlyLook, PTL
=============================================================================
