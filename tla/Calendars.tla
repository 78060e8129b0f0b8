------------------------------ MODULE Calendars ------------------------------
(***************************************************************************)
(* When a machine works: engines/calendar.  Shifts by weekday in the local  *)
(* time of the plant, holidays, extra days and overtime (ShiftPattern), less *)
(* the downtime of the machine and the time before it is there              *)
(* (MachineCalendar), put together one day of UTC after the other.          *)
(*                                                                          *)
(* Time is counted in hours from the midnight the snapshot's first day      *)
(* begins with; a stretch of time is a pair <<begin, end>>, or the set of    *)
(* its hours.  The offset of a time zone does not change.                   *)
(***************************************************************************)
EXTENDS Readiness, Integers

CONSTANTS DayLength,  \* hours of a day
          SearchDays  \* the days looked at: as far as searches go (MAX_SEARCH_DAYS)

HoursOf(w) == w[1] .. w[2] - 1

DayHours(d) == HoursOf(<<d * DayLength, (d + 1) * DayLength>>)

-----------------------------------------------------------------------------
(* ShiftPattern.                                                           *)

ActiveShifts(spec, d) ==
    IF d \in spec.extraDays THEN spec.shifts
    ELSE IF d \in spec.holidays THEN {}
    ELSE {f \in spec.shifts : d % 7 \in f.weekdays}

CrossesMidnight(f) == f.end <= f.start

\* What begins on the local date d, though it may end on the next.
LocalDateHours(spec, d) ==
    UNION {LET begin == d * DayLength - spec.offset
           IN  HoursOf(<<begin + f.start, begin + f.end + (IF CrossesMidnight(f) THEN DayLength ELSE 0)>>) :
              f \in ActiveShifts(spec, d)}

Overtime(spec) == UNION {HoursOf(w) : w \in spec.overtime}

\* Mutant of UtcDayHours: shifts that began the evening before are forgotten.
UtcDayHoursToday(spec, d) == DayHours(d) \cap (LocalDateHours(spec, d) \cup Overtime(spec))

\* The local dates that reach into a day of UTC, whatever the offset.
UtcDayHours(spec, d) ==
    DayHours(d) \cap ((UNION {LocalDateHours(spec, e) : e \in d - 2 .. d + 1}) \cup Overtime(spec))

-----------------------------------------------------------------------------
(* MachineCalendar and builder.py.                                         *)

RoundTheClock == [shifts |-> {[start |-> 0, end |-> 0, weekdays |-> 0 .. 6]}, holidays |-> {},
                  extraDays |-> {}, overtime |-> {}, offset |-> 0]

\* The machine's own calendar, else the plant's, else round the clock.
ResolveCalendarSpec(s, m) ==
    IF Known(s.machine[m].calendar, s.calendar) THEN s.calendar[s.machine[m].calendar]
    ELSE IF Known(s.defaultCalendar, s.calendar) THEN s.calendar[s.defaultCalendar]
    ELSE RoundTheClock

Blocked(machine, d) ==
    {h \in DayHours(d) : h < machine.from \/ \E w \in machine.downtime : h \in HoursOf(w)}

WorkingHours(s, m) ==
    UNION {UtcDayHours(ResolveCalendarSpec(s, m), d) \ Blocked(s.machine[m], d) : d \in SearchDays}

\* The instant at which that many of the working hours after start are done.
AddWork(working, start, hours) ==
    CHOOSE u \in {start} \cup {h + 1 : h \in working} :
        /\ Cardinality({h \in working : start <= h /\ h < u}) = hours
        /\ u > start => u - 1 \in working

CanAddWork(working, start, hours) == Cardinality({h \in working : h >= start}) >= hours

-----------------------------------------------------------------------------
(* The same said at once, without days: what a calendar means.             *)

Length(f) == IF f.end > f.start THEN f.end - f.start ELSE f.end + DayLength - f.start

InShift(spec, h) ==
    \E d \in h \div DayLength - 3 .. h \div DayLength + 3 : \E f \in ActiveShifts(spec, d) :
        LET begin == d * DayLength + f.start
        IN  begin <= h + spec.offset /\ h + spec.offset < begin + Length(f)

WorksAt(s, m, h) ==
    LET spec == ResolveCalendarSpec(s, m)
    IN  /\ InShift(spec, h) \/ \E w \in spec.overtime : w[1] <= h /\ h < w[2]
        /\ h >= s.machine[m].from
        /\ \A w \in s.machine[m].downtime : ~(w[1] <= h /\ h < w[2])
=============================================================================
