------------------------- MODULE ListSchedulerProofs -------------------------
(***************************************************************************)
(* TLAPS proofs about ListScheduler, for every calendar, every set of      *)
(* machines, orders and locks, and every previous schedule, and about      *)
(* Resequencing, whatever orders the solver finds.                         *)
(***************************************************************************)
EXTENDS Resequencing, FiniteSetTheorems, SequenceTheorems, WellFoundedInduction, TLAPS

(* nr is a slot's place among the insertions.                              *)
Numbered(tl) ==
    /\ IsFiniteSet(tl.slots)
    /\ \A s \in tl.slots : s.nr < Cardinality(tl.slots)
    /\ \A s, q \in tl.slots : s.nr = q.nr => s = q

NumberedInv == \A m \in Machines : Numbered(timelines[m])

(* Span p keeps clear of every slot.                                       *)
FreeFor(tl, p) ==
    p.start < p.end /\ \A q \in tl.slots : q.end <= p.start \/ p.end <= q.start

(* A gap is idle to its last minute, is worth its working minutes, and     *)
(* ends where a slot starts.                                               *)
Idle(m, tl, g) ==
    /\ g.work = WorkBetween(m, g.start, g.end)
    /\ FreeFor(tl, g)
    /\ \E s \in tl.slots : s.start = g.end

(* What insert and find_slot rely on and keep up.                          *)
Booked(m, tl) ==
    /\ \A s \in tl.slots : s.start < s.end /\ s.end <= tl.tailEnd
    /\ SlotsDisjoint(tl)
    /\ tl.floor <= tl.tailEnd
    /\ \A g \in tl.gaps : Idle(m, tl, g)

BookedInv == \A m \in Machines : Booked(m, timelines[m])

(* Entries of a machine are reproduced in the order they start in: what is *)
(* left starts after what is on the machine.                               *)
LeftInv ==
    status = "frozen" =>
        \A e \in left : \A s \in timelines[e.machine].slots : s.end <= e.start

-----------------------------------------------------------------------------
(* Sets of numbers                                                         *)

(* Every set of natural numbers that is not empty has a least member.      *)
LEMMA LeastMember ==
    ASSUME NEW T \in SUBSET Nat, T # {}
    PROVE  \E m \in T : \A n \in T : m <= n
<1>1. PICK m \in T : \A n \in T : <<n, m>> \notin OpToRel(<, Nat)
  BY NatLessThanWellFounded, WFMin
<1>2. ASSUME NEW n \in T, n < m PROVE FALSE
  <2>1. <<n, m>> \in OpToRel(<, Nat)
    BY <1>2 DEF OpToRel
  <2> QED BY <1>1, <2>1
<1>3. \A n \in T : n \in Nat
  OBVIOUS
<1> QED BY <1>2, <1>3

(* A bounded one has a greatest member.                                    *)
LEMMA GreatestMember ==
    ASSUME NEW b \in Nat, NEW T \in SUBSET Nat, T # {}, \A n \in T : n <= b
    PROVE  \E m \in T : \A n \in T : n <= m
<1> DEFINE Rest == {r \in Nat : b - r \in T}
<1>1. \A n \in T : n \in Nat /\ b - n \in Nat /\ b - (b - n) = n
  OBVIOUS
<1>2. \A n \in T : b - n \in Rest
  BY <1>1
<1>3. Rest # {}
  BY <1>2
<1>4. PICK r \in Rest : \A q \in Rest : r <= q
  BY <1>3, LeastMember
<1>5. b - r \in T
  OBVIOUS
<1>6. \A n \in T : n <= b - r
  BY <1>1, <1>2, <1>4
<1> QED BY <1>5, <1>6

-----------------------------------------------------------------------------
(* The calendar                                                            *)

LEMMA WorkIsFinite ==
    ASSUME NEW m \in Machines, NEW a, NEW b
    PROVE  /\ IsFiniteSet({t \in Working[m] : a <= t /\ t < b})
           /\ WorkBetween(m, a, b) \in Nat
<1>1. IsFiniteSet(Instants)
  BY TimelineAssumption, FS_Interval DEF Instants
<1>2. {t \in Working[m] : a <= t /\ t < b} \in SUBSET Instants
  BY TimelineAssumption
<1>3. IsFiniteSet({t \in Working[m] : a <= t /\ t < b})
  BY <1>1, <1>2, FS_Subset
<1> QED BY <1>3, FS_CardinalityType DEF WorkBetween

LEMMA SpanIs ==
    ASSUME NEW m \in Machines, NEW t \in Instants, NEW n \in Nat, NEW windows,
           \A w \in windows : w.end \in Instants,
           NEW p \in Spans(m, t, n, windows)
    PROVE  /\ p = [start |-> p.start, end |-> p.end]
           /\ p.start \in Working[m] /\ p.start \in Instants /\ p.end \in Instants
           /\ p.end \in Ends(m, p.start, n)
           /\ t <= p.start
           /\ windows = {} => p.start \in NextWorking(m, t)
<1>1. p \in Feasible(m, t, n, windows)
  BY DEF Spans
<1>2. PICK u \in {t} \union {w.end : w \in {x \in windows : x.end > t}} :
        \E s \in NextWorking(m, u) : \E e \in Ends(m, s, n) : p = [start |-> s, end |-> e]
  BY <1>1 DEF Feasible
<1> PICK s \in NextWorking(m, u) : \E e \in Ends(m, s, n) : p = [start |-> s, end |-> e]
  BY <1>2
<1> PICK e \in Ends(m, s, n) : p = [start |-> s, end |-> e]
  OBVIOUS
<1>3. u \in Instants /\ t <= u
  BY <1>2 DEF Instants
<1>4. s \in Working[m] /\ u <= s
  BY <1>2 DEF NextWorking
<1>5. s \in Instants
  BY <1>4, TimelineAssumption
<1>6. e \in Instants
  BY <1>2, <1>5, TimelineAssumption DEF Ends, Instants
<1>7. t <= s
  BY <1>3, <1>4, <1>5, TimelineAssumption DEF Instants
<1>8. windows = {} => u = t
  BY <1>2
<1> QED BY <1>2, <1>4, <1>5, <1>6, <1>7, <1>8

(* A job that begins with a gap and has no more working minutes than the   *)
(* gap ends with it at the latest: the check by working minutes is enough. *)
LEMMA WorkFits ==
    ASSUME NEW m \in Machines, NEW a \in Instants, NEW b \in Instants, NEW n \in Nat, n > 0,
           WorkBetween(m, a, b) >= n,
           NEW s \in NextWorking(m, a), NEW e \in Ends(m, s, n)
    PROVE  e <= b
<1> SUFFICES ASSUME ~ (e <= b) PROVE FALSE
  OBVIOUS
<1> DEFINE Gap == {t \in Working[m] : a <= t /\ t < b}
           Minutes == {t \in Working[m] : s <= t /\ t < e}
<1>1. /\ s \in Instants /\ e \in Instants /\ s + n <= e
      /\ Cardinality(Minutes) = n /\ (e = s \/ e - 1 \in Working[m])
      /\ Working[m] \subseteq Instants
  BY TimelineAssumption DEF NextWorking, Ends, WorkBetween, Instants
<1>2. e - 1 \in Minutes
  BY <1>1, TimelineAssumption DEF Instants
<1>3. Gap \subseteq Minutes \ {e - 1}
  <2> SUFFICES ASSUME NEW t \in Gap PROVE t \in Minutes \ {e - 1}
    OBVIOUS
  <2>1. t \in Instants /\ t \in Working[m] /\ a <= t /\ t < b
    BY <1>1
  <2>2. s <= t
    <3> SUFFICES ASSUME t < s PROVE FALSE
      BY <1>1, <2>1, TimelineAssumption DEF Instants
    <3>1. t \in a .. (s - 1)
      BY <1>1, <2>1, TimelineAssumption DEF Instants
    <3> QED BY <2>1, <3>1 DEF NextWorking
  <2>3. t < e - 1
    BY <1>1, <2>1, TimelineAssumption DEF Instants
  <2> QED BY <2>1, <2>2, <2>3, <1>1, TimelineAssumption DEF Instants
<1>4. IsFiniteSet(Minutes)
  BY WorkIsFinite
<1>5. IsFiniteSet(Minutes \ {e - 1}) /\ Cardinality(Minutes \ {e - 1}) = n - 1
  BY <1>1, <1>2, <1>4, FS_RemoveElement
<1>6. Cardinality(Gap) <= n - 1
  BY <1>3, <1>5, FS_Subset
<1>7. WorkBetween(m, a, b) = Cardinality(Gap)
  BY DEF WorkBetween
<1>8. WorkBetween(m, a, b) \in Nat
  BY WorkIsFinite
<1> HIDE DEF Gap
<1> QED BY <1>6, <1>7, <1>8

-----------------------------------------------------------------------------
(* The neighbours of an instant                                            *)

LEMMA SlotFields ==
    ASSUME NEW s \in Slots
    PROVE  /\ s.op \in Ops /\ s.start \in Nat /\ s.end \in Nat /\ s.nr \in Nat
           /\ s.start \in Instants /\ s.end \in Instants /\ s.start <= Horizon
BY TimelineAssumption DEF Slots, Instants

(* Of a set of slots that are numbered one starts last, and one starts     *)
(* first: ties are settled by the numbers.                                 *)
LEMMA LastSlot ==
    ASSUME NEW S \in SUBSET Slots, S # {}, IsFiniteSet(S), NEW k \in Nat,
           \A s \in S : s.nr < k, \A s, q \in S : s.nr = q.nr => s = q
    PROVE  \E s \in S : \A q \in S \ {s} : Precedes(q, s)
<1> DEFINE Starts == {s.start : s \in S}
<1>1. Starts \in SUBSET Nat /\ Starts # {} /\ \A t \in Starts : t <= Horizon
  BY SlotFields
<1>2. PICK a \in Starts : \A t \in Starts : t <= a
  BY <1>1, GreatestMember, TimelineAssumption
<1> DEFINE Ties == {s \in S : s.start = a}
           Numbers == {s.nr : s \in Ties}
<1>3. Numbers \in SUBSET Nat /\ Numbers # {} /\ \A i \in Numbers : i <= k
  BY <1>2, SlotFields
<1>4. PICK j \in Numbers : \A i \in Numbers : i <= j
  <2> HIDE DEF Numbers
  <2> QED BY <1>3, GreatestMember
<1>5. PICK s \in Ties : s.nr = j
  OBVIOUS
<1>6. ASSUME NEW q \in S \ {s} PROVE Precedes(q, s)
  <2>1. q.start <= a /\ q.start \in Nat /\ q.nr \in Nat /\ s.nr \in Nat /\ s.start = a /\ a \in Nat
    BY <1>2, <1>5, SlotFields
  <2>2. q.nr # s.nr
    BY <1>5
  <2>3. CASE q.start = a
    <3>1. q.nr <= s.nr
      BY <1>4, <1>5, <2>3
    <3> QED BY <2>1, <2>2, <2>3, <3>1 DEF Precedes
  <2>4. CASE q.start # a
    BY <2>1, <2>4 DEF Precedes
  <2> QED BY <2>3, <2>4
<1> QED BY <1>5, <1>6

LEMMA FirstSlot ==
    ASSUME NEW S \in SUBSET Slots, S # {},
           \A s, q \in S : s.nr = q.nr => s = q
    PROVE  \E s \in S : \A q \in S \ {s} : Precedes(s, q)
<1> DEFINE Starts == {s.start : s \in S}
<1>1. Starts \in SUBSET Nat /\ Starts # {}
  BY SlotFields
<1>2. PICK a \in Starts : \A t \in Starts : a <= t
  BY <1>1, LeastMember
<1> DEFINE Ties == {s \in S : s.start = a}
           Numbers == {s.nr : s \in Ties}
<1>3. Numbers \in SUBSET Nat /\ Numbers # {}
  BY <1>2, SlotFields
<1>4. PICK j \in Numbers : \A i \in Numbers : j <= i
  <2> HIDE DEF Numbers
  <2> QED BY <1>3, LeastMember
<1>5. PICK s \in Ties : s.nr = j
  OBVIOUS
<1>6. ASSUME NEW q \in S \ {s} PROVE Precedes(s, q)
  <2>1. a <= q.start /\ q.start \in Nat /\ q.nr \in Nat /\ s.nr \in Nat /\ s.start = a /\ a \in Nat
    BY <1>2, <1>5, SlotFields
  <2>2. q.nr # s.nr
    BY <1>5
  <2>3. CASE q.start = a
    <3>1. s.nr <= q.nr
      BY <1>4, <1>5, <2>3
    <3> QED BY <2>1, <2>2, <2>3, <3>1 DEF Precedes
  <2>4. CASE q.start # a
    BY <2>1, <2>4 DEF Precedes
  <2> QED BY <2>3, <2>4
<1> QED BY <1>5, <1>6

(* Before is the last slot up to an instant, if there is one.              *)
LEMMA BeforeIs ==
    ASSUME NEW tl, tl.slots \subseteq Slots, Numbered(tl), NEW t \in Instants
    PROVE  /\ Before(tl, t) = NoSlot => SlotsUntil(tl, t) = {}
           /\ Before(tl, t) # NoSlot =>
                /\ Before(tl, t) \in SlotsUntil(tl, t)
                /\ \A q \in SlotsUntil(tl, t) : q.start <= Before(tl, t).start
<1>1. CASE SlotsUntil(tl, t) = {}
  BY <1>1 DEF Before
<1>2. CASE SlotsUntil(tl, t) # {}
  <2>1. SlotsUntil(tl, t) \in SUBSET Slots /\ SlotsUntil(tl, t) \in SUBSET tl.slots
    BY DEF SlotsUntil
  <2>2. IsFiniteSet(SlotsUntil(tl, t)) /\ Cardinality(tl.slots) \in Nat
    BY <2>1, FS_Subset, FS_CardinalityType DEF Numbered
  <2>3. \E s \in SlotsUntil(tl, t) : \A q \in SlotsUntil(tl, t) \ {s} : Precedes(q, s)
    BY <1>2, <2>1, <2>2, LastSlot DEF Numbered
  <2> DEFINE s == CHOOSE s \in SlotsUntil(tl, t) : \A q \in SlotsUntil(tl, t) \ {s} : Precedes(q, s)
  <2>4. s \in SlotsUntil(tl, t) /\ \A q \in SlotsUntil(tl, t) \ {s} : Precedes(q, s)
    BY <2>3
  <2>5. Before(tl, t) = s
    BY <1>2 DEF Before
  <2> HIDE DEF s
  <2>6. s \in Slots
    BY <2>1, <2>4
  <2>7. ASSUME NEW q \in SlotsUntil(tl, t) PROVE q.start <= s.start
    BY <2>1, <2>4, <2>6, SlotFields DEF Precedes
  <2> QED BY <2>4, <2>5, <2>6, <2>7, NoSlotAssumption
<1> QED BY <1>1, <1>2

(* After is the first slot after an instant, if there is one.              *)
LEMMA AfterIs ==
    ASSUME NEW tl, tl.slots \subseteq Slots, Numbered(tl), NEW t \in Instants
    PROVE  /\ After(tl, t) = NoSlot => SlotsAfter(tl, t) = {}
           /\ After(tl, t) # NoSlot =>
                /\ After(tl, t) \in SlotsAfter(tl, t)
                /\ \A q \in SlotsAfter(tl, t) : After(tl, t).start <= q.start
<1>1. CASE SlotsAfter(tl, t) = {}
  BY <1>1 DEF After
<1>2. CASE SlotsAfter(tl, t) # {}
  <2>1. SlotsAfter(tl, t) \in SUBSET Slots
    BY DEF SlotsAfter
  <2>2. \A s, q \in SlotsAfter(tl, t) : s.nr = q.nr => s = q
    BY DEF SlotsAfter, Numbered
  <2>3. \E s \in SlotsAfter(tl, t) : \A q \in SlotsAfter(tl, t) \ {s} : Precedes(s, q)
    BY <1>2, <2>1, <2>2, FirstSlot
  <2> DEFINE s == CHOOSE s \in SlotsAfter(tl, t) : \A q \in SlotsAfter(tl, t) \ {s} : Precedes(s, q)
  <2>4. s \in SlotsAfter(tl, t) /\ \A q \in SlotsAfter(tl, t) \ {s} : Precedes(s, q)
    BY <2>3
  <2>5. After(tl, t) = s
    BY <1>2 DEF After
  <2> HIDE DEF s
  <2>6. s \in Slots
    BY <2>1, <2>4
  <2>7. ASSUME NEW q \in SlotsAfter(tl, t) PROVE s.start <= q.start
    BY <2>1, <2>4, <2>6, SlotFields DEF Precedes
  <2> QED BY <2>4, <2>5, <2>6, <2>7, NoSlotAssumption
<1> QED BY <1>1, <1>2

-----------------------------------------------------------------------------
(* insert                                                                  *)

LEMMA TimelineFields ==
    ASSUME NEW tl \in Timelines
    PROVE  /\ tl.slots \subseteq Slots /\ tl.gaps \subseteq Gaps
           /\ tl.floor \in Instants /\ tl.tailEnd \in Instants
           /\ tl.floor \in Nat /\ tl.tailEnd \in Nat
           /\ tl.family \in Families \union {NoFamily}
           /\ tl.tailFamily \in Families \union {NoFamily}
BY TimelineAssumption DEF Timelines, Instants

LEMMA GapFields ==
    ASSUME NEW g \in Gaps
    PROVE  /\ g.start \in Nat /\ g.end \in Nat /\ g.start \in Instants /\ g.end \in Instants
           /\ g.work \in Nat
BY TimelineAssumption DEF Gaps, Instants

(* What insert makes of each field.                                        *)
LEMMA InsertIs ==
    ASSUME NEW m \in Machines, NEW tl \in Timelines, NEW slot
    PROVE  LET prev == Before(tl, slot.start)
               next == After(tl, slot.start)
               from == IF prev = NoSlot THEN tl.floor ELSE Later(prev.end, tl.floor)
               new == Insert(m, tl, slot)
           IN  /\ new.slots = tl.slots \union {slot}
               /\ new.gaps = (tl.gaps \ Consumed(tl, slot, next))
                    \union NewGap(m, from, slot.start, prev, slot)
                    \union NewGap(m, slot.end, IF next = NoSlot THEN slot.end ELSE next.start,
                                  slot, next)
               /\ new.floor = tl.floor /\ new.family = tl.family
               /\ new.tailEnd = Later(tl.tailEnd, slot.end)
               /\ new.tailFamily = TailFamily(tl, slot)
               /\ new = [slots |-> new.slots, gaps |-> new.gaps, floor |-> new.floor,
                         family |-> new.family, tailEnd |-> new.tailEnd,
                         tailFamily |-> new.tailFamily]
<1> DEFINE prev == Before(tl, slot.start)
           next == After(tl, slot.start)
           from == IF prev = NoSlot THEN tl.floor ELSE Later(prev.end, tl.floor)
           slots == tl.slots \union {slot}
           gaps == (tl.gaps \ Consumed(tl, slot, next))
                    \union NewGap(m, from, slot.start, prev, slot)
                    \union NewGap(m, slot.end, IF next = NoSlot THEN slot.end ELSE next.start,
                                  slot, next)
           end == Later(tl.tailEnd, slot.end)
           last == TailFamily(tl, slot)
           new == Insert(m, tl, slot)
<1>1. new = [tl EXCEPT !.slots = slots, !.gaps = gaps, !.tailEnd = end, !.tailFamily = last]
  BY DEF Insert
<1> HIDE DEF slots, gaps, end, last, new
<1>2. tl = [slots |-> tl.slots, gaps |-> tl.gaps, floor |-> tl.floor, family |-> tl.family,
            tailEnd |-> tl.tailEnd, tailFamily |-> tl.tailFamily]
  BY DEF Timelines
<1>3. new = [slots |-> slots, gaps |-> gaps, floor |-> tl.floor, family |-> tl.family,
             tailEnd |-> end, tailFamily |-> last]
  BY <1>1, <1>2
<1>4. /\ new.slots = slots /\ new.gaps = gaps /\ new.floor = tl.floor /\ new.family = tl.family
      /\ new.tailEnd = end /\ new.tailFamily = last
  BY <1>3
<1> QED BY <1>3, <1>4 DEF slots, gaps, end, last, new

LEMMA NewGapIs ==
    ASSUME NEW m \in Machines, NEW a, NEW b, NEW prev, NEW next, NEW g \in NewGap(m, a, b, prev, next)
    PROVE  /\ next # NoSlot /\ ~ (a >= b)
           /\ g = [start |-> a, end |-> b, work |-> WorkBetween(m, a, b), prev |-> prev, next |-> next]
BY DEF NewGap

LEMMA NewGapIsGap ==
    ASSUME NEW m \in Machines, NEW a \in Instants, NEW b \in Instants,
           NEW prev \in Slots \union {NoSlot}, NEW next \in Slots \union {NoSlot}
    PROVE  NewGap(m, a, b, prev, next) \subseteq Gaps
<1> SUFFICES ASSUME NEW g \in NewGap(m, a, b, prev, next) PROVE g \in Gaps
  OBVIOUS
<1>1. /\ next # NoSlot
      /\ g = [start |-> a, end |-> b, work |-> WorkBetween(m, a, b), prev |-> prev, next |-> next]
  BY NewGapIs
<1>2. WorkBetween(m, a, b) \in Nat /\ next \in Slots
  BY <1>1, WorkIsFinite
<1> QED BY <1>1, <1>2 DEF Gaps

LEMMA InsertKeepsType ==
    ASSUME NEW m \in Machines, NEW tl \in Timelines, Numbered(tl),
           NEW slot \in Slots, slot.nr = Cardinality(tl.slots)
    PROVE  Insert(m, tl, slot) \in Timelines /\ Numbered(Insert(m, tl, slot))
<1> DEFINE prev == Before(tl, slot.start)
           next == After(tl, slot.start)
           from == IF prev = NoSlot THEN tl.floor ELSE Later(prev.end, tl.floor)
           to == IF next = NoSlot THEN slot.end ELSE next.start
           new == Insert(m, tl, slot)
<1>1. tl.slots \subseteq Slots /\ slot.start \in Instants /\ slot.end \in Instants /\ slot.op \in Ops
  BY TimelineFields, SlotFields
<1>2. prev \in Slots \union {NoSlot} /\ next \in Slots \union {NoSlot}
  BY <1>1, BeforeIs, AfterIs DEF SlotsUntil, SlotsAfter
<1>3. from \in Instants /\ to \in Instants
  <2>1. prev # NoSlot => prev.end \in Instants
    BY <1>2, SlotFields
  <2>2. next # NoSlot => next.start \in Instants
    BY <1>2, SlotFields
  <2> QED BY <1>1, <2>1, <2>2, TimelineFields DEF Later
<1>4. new.slots = tl.slots \union {slot} /\ new.slots \subseteq Slots
  BY <1>1, InsertIs
<1>5. new.gaps \subseteq Gaps
  <2>1. NewGap(m, from, slot.start, prev, slot) \subseteq Gaps
    BY <1>1, <1>2, <1>3, NewGapIsGap
  <2>2. NewGap(m, slot.end, to, slot, next) \subseteq Gaps
    BY <1>1, <1>2, <1>3, NewGapIsGap
  <2> QED BY <2>1, <2>2, InsertIs, TimelineFields
<1>6. /\ new.floor \in Instants /\ new.family \in Families \union {NoFamily}
      /\ new.tailEnd \in Instants
  BY <1>1, InsertIs, TimelineFields DEF Later
<1>7. new.tailFamily \in Families \union {NoFamily}
  <2>1. new.tailFamily = TailFamily(tl, slot)
    BY InsertIs
  <2>2. TailFamily(tl, slot) \in Families \union {NoFamily}
    BY <1>1, TimelineFields, TimelineAssumption DEF TailFamily
  <2> QED BY <2>1, <2>2
<1>8. new \in Timelines
  <2>1. new = [slots |-> new.slots, gaps |-> new.gaps, floor |-> new.floor,
               family |-> new.family, tailEnd |-> new.tailEnd, tailFamily |-> new.tailFamily]
    BY InsertIs
  <2> HIDE DEF new
  <2> QED BY <1>4, <1>5, <1>6, <1>7, <2>1 DEF Timelines
<1>9. Numbered(new)
  <2>1. slot \notin tl.slots
    BY SlotFields DEF Numbered
  <2>2. /\ IsFiniteSet(new.slots) /\ Cardinality(new.slots) = Cardinality(tl.slots) + 1
        /\ Cardinality(tl.slots) \in Nat
    BY <1>4, <2>1, FS_AddElement, FS_CardinalityType DEF Numbered
  <2>3. \A s \in tl.slots : s.nr \in Nat /\ s.nr < Cardinality(tl.slots)
    BY <1>1, SlotFields DEF Numbered
  <2>4. \A s \in new.slots : s.nr < Cardinality(new.slots)
    BY <1>4, <2>2, <2>3
  <2>5. \A s \in tl.slots : s.nr # slot.nr
    BY <2>2, <2>3
  <2>6. \A s, q \in new.slots : s.nr = q.nr => s = q
    BY <1>4, <2>5 DEF Numbered
  <2> HIDE DEF new
  <2> QED BY <2>2, <2>4, <2>6 DEF Numbered
<1> QED BY <1>8, <1>9

(* A span that is free on the machine may be inserted: the slots stay      *)
(* disjoint, and the gaps that are kept or made are idle.                  *)
LEMMA InsertKeepsBooked ==
    ASSUME NEW m \in Machines, NEW tl \in Timelines, Numbered(tl), Booked(m, tl),
           NEW slot \in Slots, FreeFor(tl, slot)
    PROVE  Booked(m, Insert(m, tl, slot))
<1> DEFINE prev == Before(tl, slot.start)
           next == After(tl, slot.start)
           from == IF prev = NoSlot THEN tl.floor ELSE Later(prev.end, tl.floor)
           to == IF next = NoSlot THEN slot.end ELSE next.start
           new == Insert(m, tl, slot)
<1>1. /\ slot.start \in Nat /\ slot.end \in Nat /\ slot.start \in Instants /\ slot.start < slot.end
      /\ tl.floor \in Nat /\ tl.tailEnd \in Nat /\ tl.slots \subseteq Slots
  BY TimelineFields, SlotFields DEF FreeFor
<1>2. \A s \in tl.slots : s.start \in Nat /\ s.end \in Nat /\ s.start < s.end /\ s.end <= tl.tailEnd
  BY <1>1, SlotFields DEF Booked
<1>3. \A s, q \in tl.slots : s # q => s.end <= q.start \/ q.end <= s.start
  BY DEF Booked, SlotsDisjoint
<1>4. \A s \in tl.slots : s.end <= slot.start \/ slot.end <= s.start
  BY DEF FreeFor
<1>5. /\ prev # NoSlot => prev \in tl.slots /\ prev.start <= slot.start
      /\ \A q \in tl.slots : q.start <= slot.start => prev # NoSlot /\ q.start <= prev.start
  BY <1>1, BeforeIs DEF SlotsUntil
<1>6. /\ next # NoSlot => next \in tl.slots /\ next.start > slot.start
      /\ \A q \in tl.slots : q.start > slot.start => next # NoSlot /\ next.start <= q.start
  BY <1>1, AfterIs DEF SlotsAfter
<1>7. /\ new.slots = tl.slots \union {slot} /\ new.floor = tl.floor
      /\ new.tailEnd = Later(tl.tailEnd, slot.end)
  BY InsertIs
<1>8. new.gaps = (tl.gaps \ Consumed(tl, slot, next))
                   \union NewGap(m, from, slot.start, prev, slot) \union NewGap(m, slot.end, to, slot, next)
  BY InsertIs
<1> HIDE DEF new
<1>9. \A s \in new.slots : s.start < s.end /\ s.end <= new.tailEnd
  BY <1>1, <1>2, <1>7 DEF Later
<1>10. SlotsDisjoint(new)
  BY <1>3, <1>4, <1>7 DEF SlotsDisjoint
<1>11. new.floor <= new.tailEnd
  BY <1>1, <1>7 DEF Booked, Later
<1>12. ASSUME NEW g \in tl.gaps, g \notin Consumed(tl, slot, next)
       PROVE  Idle(m, new, g)
  <2>1. /\ g.start \in Nat /\ g.end \in Nat /\ g.start < g.end
        /\ g.work = WorkBetween(m, g.start, g.end)
        /\ \A q \in tl.slots : q.end <= g.start \/ g.end <= q.start
    BY TimelineFields, GapFields DEF Booked, Idle, FreeFor
  <2>2. PICK n \in tl.slots : n.start = g.end
    BY DEF Booked, Idle
  <2>3. next # NoSlot => g.end # next.start
    BY <1>12 DEF Consumed
  <2>4. slot.end <= g.start \/ g.end <= slot.start
    <3> SUFFICES ASSUME g.start < slot.end, slot.start < g.end PROVE FALSE
      BY <1>1, <2>1
    <3>1. next # NoSlot /\ next \in tl.slots /\ next.start <= g.end /\ slot.start < next.start
      BY <1>1, <1>2, <1>6, <2>1, <2>2
    <3>2. next.start < g.end
      BY <1>2, <2>1, <2>3, <3>1
    <3>3. next.end <= g.start
      BY <1>2, <2>1, <3>1, <3>2
    <3>4. slot.end <= next.start
      BY <1>1, <1>2, <1>4, <3>1
    <3> QED BY <1>1, <1>2, <2>1, <3>1, <3>3, <3>4
  <2> QED BY <1>7, <2>1, <2>2, <2>4 DEF Idle, FreeFor
<1>13. ASSUME NEW g \in NewGap(m, from, slot.start, prev, slot)
       PROVE  Idle(m, new, g)
  <2>1. from \in Nat /\ (prev # NoSlot => prev.end <= from)
    BY <1>1, <1>2, <1>5 DEF Later
  <2>2. /\ g.start = from /\ g.end = slot.start /\ g.work = WorkBetween(m, from, slot.start)
        /\ from < slot.start
    BY <1>1, <2>1, NewGapIs
  <2>3. ASSUME NEW q \in tl.slots PROVE q.end <= from \/ slot.start <= q.start
    <3>1. CASE q.start <= slot.start
      <4>1. prev # NoSlot /\ prev \in tl.slots /\ q.start <= prev.start
        BY <1>5, <3>1
      <4>2. q.end <= prev.end
        BY <1>2, <1>3, <4>1
      <4> QED BY <1>2, <2>1, <4>1, <4>2
    <3>2. CASE ~ (q.start <= slot.start)
      BY <1>1, <1>2, <3>2
    <3> QED BY <3>1, <3>2
  <2> HIDE DEF from
  <2> QED BY <1>1, <1>7, <2>2, <2>3 DEF Idle, FreeFor
<1>14. ASSUME NEW g \in NewGap(m, slot.end, to, slot, next)
       PROVE  Idle(m, new, g)
  <2>1. /\ next # NoSlot /\ g.start = slot.end /\ g.end = to /\ to = next.start
        /\ g.work = WorkBetween(m, slot.end, to) /\ ~ (slot.end >= to)
    BY NewGapIs
  <2>2. next \in tl.slots /\ to \in Nat /\ slot.end < to
    BY <1>1, <1>2, <1>6, <2>1
  <2>3. ASSUME NEW q \in tl.slots PROVE q.end <= slot.end \/ to <= q.start
    BY <1>1, <1>2, <1>4, <1>6, <2>1, <2>2
  <2> HIDE DEF to
  <2> QED BY <1>1, <1>7, <2>1, <2>2, <2>3 DEF Idle, FreeFor
<1>15. \A g \in new.gaps : Idle(m, new, g)
  BY <1>8, <1>12, <1>13, <1>14
<1>16. Booked(m, new)
  BY <1>9, <1>10, <1>11, <1>15 DEF Booked
<1> QED BY <1>16 DEF new

-----------------------------------------------------------------------------
(* find_slot                                                               *)

LEMMA MinutesType ==
    ASSUME NEW op \in Ops, NEW family
    PROVE  SetupMinutes(op, family) \in Nat /\ SetupMinutes(op, family) + Run[op] \in Nat
           /\ (Run[op] > 0 => SetupMinutes(op, family) + Run[op] > 0)
BY TimelineAssumption DEF SetupMinutes

LEMMA JobIsSlot ==
    ASSUME NEW tl, IsFiniteSet(tl.slots), NEW op \in Ops, NEW family, NEW p,
           p.start \in Instants, p.end \in Instants
    PROVE  /\ Job(tl, op, family, p) \in Slots
           /\ Job(tl, op, family, p).start = p.start /\ Job(tl, op, family, p).end = p.end
           /\ Job(tl, op, family, p).nr = Cardinality(tl.slots)
<1>1. Cardinality(tl.slots) \in Nat /\ SetupMinutes(op, family) \in Nat
  BY FS_CardinalityType, MinutesType
<1> QED BY <1>1 DEF Job, Slots, Bases

(* A job goes where the machine has nothing to do.                         *)
LEMMA FindSlotIsFree ==
    ASSUME NEW m \in Machines, NEW tl \in Timelines, Numbered(tl), NEW op \in Ops,
           NEW t \in Instants, NEW windows, \A w \in windows : w.end \in Instants,
           NEW tailOnly, NEW slot \in FindSlot(m, tl, op, t, windows, tailOnly)
    PROVE  /\ slot \in Slots /\ slot.nr = Cardinality(tl.slots)
           /\ t <= slot.start /\ slot.start <= slot.end
           /\ Booked(m, tl) /\ Run[op] > 0 => FreeFor(tl, slot)
<1>1. tl.slots \subseteq Slots /\ tl.gaps \subseteq Gaps /\ tl.tailEnd \in Instants
  BY TimelineFields
<1>2. t \in Nat /\ Horizon \in Nat /\ tl.tailEnd \in Nat
  BY <1>1, TimelineAssumption DEF Instants
<1>3. ASSUME NEW n \in Nat, NEW s \in Instants, NEW e \in Ends(m, s, n) PROVE s + n <= e
  BY TimelineAssumption DEF Ends, Instants
<1>4. CASE slot \in AtTail(m, tl, op, t, windows)
  <2> DEFINE n == SetupMinutes(op, tl.tailFamily) + Run[op]
  <2>1. PICK p \in Spans(m, Later(t, tl.tailEnd), n, windows) : slot = Job(tl, op, tl.tailFamily, p)
    BY <1>4 DEF AtTail
  <2>2. n \in Nat /\ (Run[op] > 0 => n > 0)
    BY MinutesType
  <2>3. Later(t, tl.tailEnd) \in Instants /\ t <= Later(t, tl.tailEnd) /\ tl.tailEnd <= Later(t, tl.tailEnd)
    BY <1>1, <1>2 DEF Later
  <2> HIDE DEF n
  <2>4. /\ p.start \in Instants /\ p.end \in Instants /\ p.end \in Ends(m, p.start, n)
        /\ Later(t, tl.tailEnd) <= p.start
    BY <2>1, <2>2, <2>3, SpanIs
  <2>5. p.start + n <= p.end /\ p.start \in Nat /\ p.end \in Nat
    BY <1>3, <2>2, <2>4, TimelineAssumption DEF Instants
  <2>6. Later(t, tl.tailEnd) \in Nat
    BY <2>3, TimelineAssumption DEF Instants
  <2>7. t <= p.start /\ tl.tailEnd <= p.start
    BY <1>2, <2>3, <2>4, <2>5, <2>6
  <2>8. /\ slot \in Slots /\ slot.start = p.start /\ slot.end = p.end
        /\ slot.nr = Cardinality(tl.slots)
    BY <2>1, <2>4, JobIsSlot DEF Numbered
  <2>9. ASSUME Booked(m, tl), Run[op] > 0 PROVE FreeFor(tl, slot)
    <3>1. \A q \in tl.slots : q.end \in Nat /\ q.end <= tl.tailEnd
      BY <1>1, <2>9, SlotFields DEF Booked
    <3>2. p.start < p.end
      BY <2>2, <2>5, <2>9
    <3> QED BY <1>2, <2>5, <2>7, <2>8, <3>1, <3>2 DEF FreeFor
  <2>10. slot.start <= slot.end
    BY <2>2, <2>5, <2>8
  <2> QED BY <2>7, <2>8, <2>9, <2>10
<1>5. ASSUME NEW g \in tl.gaps, slot \in InGap(m, tl, g, op, t, windows)
      PROVE  /\ slot \in Slots /\ slot.nr = Cardinality(tl.slots)
             /\ t <= slot.start /\ slot.start <= slot.end
             /\ Booked(m, tl) /\ Run[op] > 0 => FreeFor(tl, slot)
  <2> DEFINE family == FamilyAfter(g.prev, tl.family)
             n == SetupMinutes(op, family) + Run[op]
  <2>1. PICK p \in Spans(m, Later(t, g.start), n, windows) :
            /\ slot = Job(tl, op, family, p)
            /\ g.work >= n
            /\ t > g.start \/ windows # {} => p.end <= g.end
    BY <1>5 DEF InGap
  <2>2. n \in Nat /\ (Run[op] > 0 => n > 0)
    BY MinutesType
  <2>3. g.start \in Instants /\ g.end \in Instants /\ g.start \in Nat /\ g.end \in Nat
    BY <1>1, GapFields
  <2>4. Later(t, g.start) \in Instants /\ t <= Later(t, g.start) /\ g.start <= Later(t, g.start)
    BY <1>2, <2>3 DEF Later
  <2> HIDE DEF n, family
  <2>5. /\ p.start \in Instants /\ p.end \in Instants /\ p.end \in Ends(m, p.start, n)
        /\ Later(t, g.start) <= p.start
        /\ windows = {} => p.start \in NextWorking(m, Later(t, g.start))
    BY <2>1, <2>2, <2>4, SpanIs
  <2>6. p.start + n <= p.end /\ p.start \in Nat /\ p.end \in Nat
    BY <1>3, <2>2, <2>5, TimelineAssumption DEF Instants
  <2>7. Later(t, g.start) \in Nat
    BY <2>4, TimelineAssumption DEF Instants
  <2>8. t <= p.start /\ g.start <= p.start
    BY <1>2, <2>3, <2>4, <2>5, <2>6, <2>7
  <2>9. /\ slot \in Slots /\ slot.start = p.start /\ slot.end = p.end
        /\ slot.nr = Cardinality(tl.slots)
    BY <2>1, <2>5, JobIsSlot DEF Numbered
  <2>10. ASSUME Booked(m, tl), Run[op] > 0 PROVE FreeFor(tl, slot)
    <3>1. /\ g.work = WorkBetween(m, g.start, g.end)
          /\ \A q \in tl.slots : q.end <= g.start \/ g.end <= q.start
      BY <2>10 DEF Booked, Idle, FreeFor
    <3>2. p.end <= g.end
      <4>1. CASE t > g.start \/ windows # {}
        BY <2>1, <4>1
      <4>2. CASE ~ (t > g.start) /\ windows = {}
        <5>1. Later(t, g.start) = g.start
          BY <4>2 DEF Later
        <5>2. WorkBetween(m, g.start, g.end) >= n
          BY <2>1, <3>1
        <5> QED BY <2>2, <2>3, <2>5, <2>10, <4>2, <5>1, <5>2, WorkFits
      <4> QED BY <4>1, <4>2
    <3>3. \A q \in tl.slots : q.start \in Nat /\ q.end \in Nat
      BY <1>1, SlotFields
    <3>4. p.start < p.end
      BY <2>2, <2>6, <2>10
    <3>5. \A q \in tl.slots : q.end <= p.start \/ p.end <= q.start
      BY <2>3, <2>6, <2>8, <3>1, <3>2, <3>3
    <3> QED BY <2>9, <3>4, <3>5 DEF FreeFor
  <2>11. slot.start <= slot.end
    BY <2>2, <2>6, <2>9
  <2> QED BY <2>8, <2>9, <2>10, <2>11
<1>6. slot \in AtTail(m, tl, op, t, windows) \/ \E g \in tl.gaps : slot \in InGap(m, tl, g, op, t, windows)
  BY DEF FindSlot
<1> QED BY <1>4, <1>5, <1>6

-----------------------------------------------------------------------------
(* Types                                                                   *)

LEMMA InputFields ==
    ASSUME NEW i \in InputType
    PROVE  /\ i.queue \in Seq(Orders) /\ i.deps \in [Orders -> SUBSET Orders]
           /\ i.release \in [Orders -> Instants] /\ i.prereq \in [Ops -> Ops \union {None}]
           /\ i.floor \in [Machines -> Instants]
           /\ i.family \in [Machines -> Families \union {NoFamily}]
           /\ i.windows \subseteq Windows /\ i.previous \subseteq Entries
BY DEF InputType

LEMMA InstantsAreNumbers ==
    ASSUME NEW t \in Instants
    PROVE  t \in Nat /\ t <= Horizon
BY TimelineAssumption DEF Instants

LEMMA LaterType ==
    ASSUME NEW a \in Instants, NEW b \in Instants
    PROVE  Later(a, b) \in Instants
BY DEF Later

LEMMA FrameFields ==
    ASSUME NEW f \in Frames
    PROVE  /\ f.order \in Orders /\ f.next \in Nat \ {0} /\ f.release \in Instants
           /\ f.prevEnd \in Instants /\ f.forced \in Machines \union {None}
           /\ f.pulledFor \in Machines \union {None} /\ f.touched \in Seq(Machines)
BY DEF Frames

LEMMA FrameIs ==
    ASSUME NEW o \in Orders, NEW k \in Machines \union {None}
    PROVE  Frame(o, k) \in Frames
<1>1. 0 \in Instants
  BY TimelineAssumption DEF Instants
<1>2. <<>> \in Seq(Machines)
  BY EmptySeq
<1> QED BY <1>1, <1>2 DEF Frame, Frames

(* The changes the steps make to a frame keep it one.                      *)
LEMMA FrameSteps ==
    ASSUME NEW f \in Frames, NEW t \in Instants
    PROVE  /\ [f EXCEPT !.stage = "place", !.release = t] \in Frames
           /\ [f EXCEPT !.next = @ + 1, !.prevEnd = t, !.forced = None] \in Frames
           /\ \A m \in Machines : [f EXCEPT !.next = @ + 1, !.prevEnd = t, !.forced = None,
                                            !.touched = Append(@, m)] \in Frames
           /\ \A s \in Seq(Machines) : [f EXCEPT !.touched = @ \o s] \in Frames
<1>1. f.next + 1 \in Nat \ {0} /\ f.touched \in Seq(Machines)
  BY FrameFields
<1>2. \A m \in Machines : Append(f.touched, m) \in Seq(Machines)
  BY <1>1, AppendProperties
<1>3. \A s \in Seq(Machines) : f.touched \o s \in Seq(Machines)
  BY <1>1, ConcatProperties
<1>4. [f EXCEPT !.stage = "place", !.release = t] \in Frames
  BY DEF Frames
<1>5. [f EXCEPT !.next = @ + 1, !.prevEnd = t, !.forced = None] \in Frames
  BY <1>1 DEF Frames
<1>6. \A m \in Machines : [f EXCEPT !.next = @ + 1, !.prevEnd = t, !.forced = None,
                                   !.touched = Append(@, m)] \in Frames
  BY <1>1, <1>2 DEF Frames
<1>7. \A s \in Seq(Machines) : [f EXCEPT !.touched = @ \o s] \in Frames
  BY <1>3 DEF Frames
<1> QED BY <1>4, <1>5, <1>6, <1>7

(* A sequence that is not empty is its front and its last member.          *)
LEMMA FrontAndLast ==
    ASSUME NEW S, NEW q \in Seq(S), q # <<>>
    PROVE  /\ q[Len(q)] \in S
           /\ SubSeq(q, 1, Len(q) - 1) \in Seq(S)
           /\ Len(q) \in Nat \ {0}
<1>1. Len(q) \in Nat \ {0}
  BY EmptySeq
<1>2. \A i \in 1 .. Len(q) : q[i] \in S
  BY ElementOfSeq
<1>3. \A i \in 1 .. (Len(q) - 1) : q[i] \in S
  BY <1>1, <1>2
<1>4. SubSeq(q, 1, Len(q) - 1) \in Seq(S)
  BY <1>1, <1>3, SubSeqProperties
<1> QED BY <1>1, <1>2, <1>4

LEMMA Singleton ==
    ASSUME NEW S, NEW x \in S
    PROVE  <<x>> \in Seq(S)
OBVIOUS

LEMMA TopIs ==
    ASSUME TypeOK, stack # <<>>
    PROVE  Top \in Frames /\ Below \in Seq(Frames)
BY FrontAndLast DEF TypeOK, Top, Below

LEMMA SetTopKeepsType ==
    ASSUME TypeOK, stack # <<>>, NEW f \in Frames, SetTop(f)
    PROVE  stack' \in Seq(Frames)
<1>1. <<f>> \in Seq(Frames) /\ Below \in Seq(Frames)
  BY TopIs, Singleton
<1> QED BY <1>1, ConcatProperties DEF SetTop

LEMMA CallKeepsType ==
    ASSUME TypeOK, NEW o \in Orders, Call(o)
    PROVE  stack' \in Seq(Frames) /\ processed' \subseteq Orders
<1>1. <<Frame(o, None)>> \in Seq(Frames)
  BY FrameIs, Singleton
<1>2. stack' \in Seq(Frames)
  BY <1>1, ConcatProperties DEF TypeOK, Call
<1> QED BY <1>2 DEF TypeOK, Call

LEMMA ReturnKeepsType ==
    ASSUME TypeOK, stack # <<>>, Return
    PROVE  stack' \in Seq(Frames) /\ work' \in Seq(Machines)
<1>1. Top \in Frames /\ Below \in Seq(Frames) /\ work \in Seq(Machines)
  BY TopIs DEF TypeOK
<1>2. Top.touched \in Seq(Machines) /\ Top.pulledFor \in Machines \union {None}
  BY <1>1, FrameFields
<1>3. stack' \in Seq(Frames)
  <2>1. ASSUME Below # <<>>
        PROVE  [Below EXCEPT ![Len(Below)].touched = @ \o Top.touched] \in Seq(Frames)
    <3> DEFINE f == Below[Len(Below)]
    <3>1. f \in Frames /\ Len(Below) \in 1 .. Len(Below)
      BY <1>1, <2>1, FrontAndLast
    <3>2. [f EXCEPT !.touched = @ \o Top.touched] \in Frames
      <4>1. f.prevEnd \in Instants
        BY <3>1, FrameFields
      <4> HIDE DEF f
      <4> QED BY <1>2, <3>1, <4>1, FrameSteps
    <3>3. [Below EXCEPT ![Len(Below)] = [f EXCEPT !.touched = @ \o Top.touched]] \in Seq(Frames)
      <4> HIDE DEF f
      <4> QED BY <1>1, <3>1, <3>2, ExceptSeq
    <3> QED BY <3>3
  <2> QED BY <1>1, <2>1 DEF Return
<1>4. work' \in Seq(Machines)
  <2>1. ASSUME Top.pulledFor # None PROVE work \o Top.touched \o <<Top.pulledFor>> \in Seq(Machines)
    <3>1. <<Top.pulledFor>> \in Seq(Machines)
      BY <1>2, <2>1, Singleton
    <3> QED BY <1>1, <1>2, <3>1, ConcatProperties
  <2> QED BY <1>1, <1>2, <2>1 DEF Return
<1> QED BY <1>3, <1>4

LEMMA QueuedAreOrders ==
    ASSUME TypeOK
    PROVE  Queued \subseteq Orders
<1>1. in.queue \in Seq(Orders)
  BY InputFields DEF TypeOK
<1>2. \A i \in DOMAIN in.queue : in.queue[i] \in Orders
  BY <1>1, LenProperties, ElementOfSeq
<1> QED BY <1>2 DEF Queued

LEMMA UnscheduleKeepsType ==
    ASSUME TypeOK, stack # <<>>, Unschedule("blocked") \/ Unschedule("no_eligible_machine")
                                  \/ Unschedule("missing_cycle_time")
    PROVE  TypeOK' /\ UNCHANGED timelines
<1> DEFINE Codes == {"blocked", "no_eligible_machine", "missing_cycle_time"}
<1>1. PICK code \in Codes : Unschedule(code)
  OBVIOUS
<1>2. /\ failed' = [failed EXCEPT ![Top.order] = @ \union {code}] /\ Return
      /\ UNCHANGED <<in, left, timelines, placed, completion, processed, cursor, status>>
  BY <1>1 DEF Unschedule
<1>3. Top.order \in Orders
  BY TopIs, FrameFields
<1>4. failed' \in [Orders -> SUBSET Codes]
  BY <1>2, <1>3 DEF TypeOK
<1>5. stack' \in Seq(Frames) /\ work' \in Seq(Machines)
  BY <1>2, ReturnKeepsType
<1> QED BY <1>2, <1>4, <1>5 DEF TypeOK

(* The machine and the slot an operation is given.                         *)
LEMMA OpNowIs ==
    ASSUME TypeOK, stack # <<>>, Remaining
    PROVE  OpNow \in Ops /\ Top.order \in Orders
<1>1. Top.order \in Orders /\ Top.next \in Nat \ {0}
  BY TopIs, FrameFields
<1>2. Route[Top.order] \in Seq(Ops)
  BY <1>1, RunAssumption
<1>3. Top.next \in 1 .. Len(Route[Top.order])
  BY <1>1, <1>2, LenProperties DEF Remaining
<1> QED BY <1>1, <1>2, <1>3, ElementOfSeq DEF OpNow

LEMMA FromWindowType ==
    ASSUME TypeOK, NEW t \in Instants
    PROVE  FromWindow(t) \in Instants /\ t <= FromWindow(t)
<1> DEFINE T == {t} \union {w.start : w \in SlotLocksOn(OpNow)}
<1>1. SlotLocksOn(OpNow) \subseteq Windows
  BY InputFields DEF TypeOK, SlotLocksOn, SlotLocks
<1>2. \A w \in SlotLocksOn(OpNow) : w.start \in Instants
  BY <1>1 DEF Windows
<1>3. T \subseteq Instants /\ T # {}
  BY <1>2
<1>4. PICK s \in T : \A u \in T : u <= s
  <2>1. T \in SUBSET Nat /\ \A u \in T : u <= Horizon
    BY <1>3, InstantsAreNumbers
  <2> HIDE DEF T
  <2> QED BY <1>3, <2>1, GreatestMember, TimelineAssumption
<1>5. t <= s /\ \A w \in SlotLocksOn(OpNow) : w.start <= s
  BY <1>4
<1>6. FromWindow(t) \in T /\ t <= FromWindow(t)
  BY <1>5 DEF FromWindow
<1> QED BY <1>3, <1>6

LEMMA EarliestType ==
    ASSUME TypeOK, stack # <<>>, Remaining
    PROVE  Earliest \in Instants
<1>1. OpNow \in Ops /\ Top.order \in Orders
  BY OpNowIs
<1>2. /\ in.prereq \in [Ops -> Ops \union {None}] /\ in.release \in [Orders -> Instants]
      /\ placed \in [Ops -> [machine : Machines \union {None}, start : Instants, end : Instants,
                             kept : BOOLEAN]]
  BY InputFields DEF TypeOK
<1>3. Now \in Instants /\ Top.release \in Instants /\ Top.prevEnd \in Instants
  BY TopIs, FrameFields, RunAssumption
<1>4. Later(Later(Now, Top.release), Top.prevEnd) \in Instants
  BY <1>3, LaterType
<1>5. in.release[Top.order] \in Instants
  BY <1>1, <1>2
<1>6. in.prereq[OpNow] # None => placed[in.prereq[OpNow]].end \in Instants
  BY <1>1, <1>2
<1> QED BY <1>4, <1>5, <1>6, LaterType DEF Earliest

LEMMA OptionIsFree ==
    ASSUME TypeOK, NumberedInv, ReadyToPlace, NEW m \in Best, NEW slot \in Options(m)
    PROVE  /\ m \in Machines /\ OpNow \in Ops
           /\ slot \in Slots /\ slot.nr = Cardinality(timelines[m].slots)
           /\ FromWindow(Earliest) <= slot.start /\ slot.start <= slot.end
           /\ Booked(m, timelines[m]) /\ Run[OpNow] > 0 => FreeFor(timelines[m], slot)
<1>1. stack # <<>> /\ Remaining
  BY DEF ReadyToPlace, AtUnplaced, At
<1>2. OpNow \in Ops
  BY <1>1, OpNowIs
<1>3. m \in Machines
  <2>1. m \in CanDo[OpNow]
    BY DEF Best, Ranked, MachinesFor, Usable, Eligible
  <2> QED BY <1>2, <2>1, RunAssumption
<1>4. FromWindow(Earliest) \in Instants
  BY <1>1, EarliestType, FromWindowType
<1>5. \A w \in Reserved(OpNow, m) : w.end \in Instants
  BY InputFields DEF TypeOK, Reserved, Windows
<1>6. timelines[m] \in Timelines /\ Numbered(timelines[m])
  BY <1>3 DEF TypeOK, NumberedInv
<1>7. slot \in FindSlot(m, timelines[m], OpNow, FromWindow(Earliest), Reserved(OpNow, m),
                       Top.forced # None)
  BY DEF Options
<1> QED BY <1>2, <1>3, <1>4, <1>5, <1>6, <1>7, FindSlotIsFree

LEMMA FrozenSlotIs ==
    ASSUME TypeOK, NumberedInv, NEW e \in left
    PROVE  /\ e \in Entries /\ e.machine \in Machines /\ e.op \in Ops
           /\ e.start \in Instants /\ e.end \in Instants
           /\ FrozenSlot(e) \in Slots
           /\ FrozenSlot(e).start = e.start /\ FrozenSlot(e).end = e.end
           /\ FrozenSlot(e).nr = Cardinality(timelines[e.machine].slots)
<1>1. /\ e \in Entries /\ e.machine \in Machines /\ e.op \in Ops /\ e.setup \in Nat
      /\ e.start \in Instants /\ e.end \in Instants
  BY InputFields DEF TypeOK, Entries
<1>2. Cardinality(timelines[e.machine].slots) \in Nat
  BY <1>1, FS_CardinalityType DEF NumberedInv, Numbered
<1> QED BY <1>1, <1>2 DEF FrozenSlot, Slots, Bases

-----------------------------------------------------------------------------
(* Type correctness                                                        *)

LEMMA InsertedTimeline ==
    ASSUME TypeOK, NumberedInv, NEW m \in Machines, NEW slot \in Slots,
           slot.nr = Cardinality(timelines[m].slots),
           timelines' = [timelines EXCEPT ![m] = Insert(m, @, slot)]
    PROVE  timelines' \in [Machines -> Timelines] /\ NumberedInv'
<1>1. timelines \in [Machines -> Timelines] /\ Numbered(timelines[m])
  BY DEF TypeOK, NumberedInv
<1>2. Insert(m, timelines[m], slot) \in Timelines /\ Numbered(Insert(m, timelines[m], slot))
  BY <1>1, InsertKeepsType
<1>3. \A k \in Machines : timelines'[k] = IF k = m THEN Insert(m, timelines[m], slot) ELSE timelines[k]
  BY <1>1
<1>4. timelines' \in [Machines -> Timelines]
  BY <1>1, <1>2
<1>5. \A k \in Machines : Numbered(timelines'[k])
  BY <1>2, <1>3 DEF NumberedInv
<1> QED BY <1>4, <1>5 DEF NumberedInv

LEMMA ReproduceKeepsType ==
    ASSUME TypeOK, NumberedInv, ReproduceEntry
    PROVE  TypeOK' /\ NumberedInv'
<1>1. PICK e \in left :
        /\ left' = left \ {e}
        /\ IF Kept(e)
           THEN /\ timelines' = [timelines EXCEPT ![e.machine] =
                                   Insert(e.machine, @, FrozenSlot(e))]
                /\ placed' = [placed EXCEPT ![e.op] =
                                [machine |-> e.machine, start |-> e.start, end |-> e.end,
                                 kept |-> TRUE]]
           ELSE UNCHANGED <<timelines, placed>>
  BY DEF ReproduceEntry
<1>2. UNCHANGED <<in, completion, failed, processed, cursor, stack, work, status>>
  BY DEF ReproduceEntry
<1>3. /\ e.machine \in Machines /\ e.start \in Instants /\ e.end \in Instants
      /\ FrozenSlot(e) \in Slots /\ FrozenSlot(e).nr = Cardinality(timelines[e.machine].slots)
  BY FrozenSlotIs
<1>4. timelines' \in [Machines -> Timelines] /\ NumberedInv'
  <2>1. CASE Kept(e)
    BY <1>1, <1>3, <2>1, InsertedTimeline
  <2>2. CASE ~ Kept(e)
    BY <1>1, <2>2 DEF TypeOK, NumberedInv
  <2> QED BY <2>1, <2>2
<1>5. placed' \in [Ops -> [machine : Machines \union {None}, start : Instants, end : Instants,
                           kept : BOOLEAN]]
  <2>1. [machine |-> e.machine, start |-> e.start, end |-> e.end, kept |-> TRUE]
          \in [machine : Machines \union {None}, start : Instants, end : Instants, kept : BOOLEAN]
    BY <1>3
  <2> QED BY <1>1, <2>1 DEF TypeOK
<1> QED BY <1>1, <1>2, <1>4, <1>5 DEF TypeOK

LEMMA PlaceKeepsType ==
    ASSUME TypeOK, NumberedInv, PlaceOperation
    PROVE  TypeOK' /\ NumberedInv'
<1>1. ReadyToPlace /\ UNCHANGED <<in, left, completion, failed, processed, cursor, work, status>>
  BY DEF PlaceOperation
<1>2. PICK m \in Best : \E slot \in Options(m) :
        /\ RecordEntry(OpNow, m, slot)
        /\ SetTop([Top EXCEPT !.next = @ + 1, !.prevEnd = slot.end, !.forced = None,
                              !.touched = Append(@, m)])
  BY DEF PlaceOperation
<1> PICK slot \in Options(m) :
        /\ RecordEntry(OpNow, m, slot)
        /\ SetTop([Top EXCEPT !.next = @ + 1, !.prevEnd = slot.end, !.forced = None,
                              !.touched = Append(@, m)])
  BY <1>2
<1>3. /\ m \in Machines /\ OpNow \in Ops /\ slot \in Slots
      /\ slot.nr = Cardinality(timelines[m].slots)
  BY <1>1, OptionIsFree
<1>4. slot.start \in Instants /\ slot.end \in Instants
  BY <1>3, SlotFields
<1>5. timelines' \in [Machines -> Timelines] /\ NumberedInv'
  BY <1>2, <1>3, InsertedTimeline DEF RecordEntry
<1>6. EntryIn(m, slot) \in [machine : Machines \union {None}, start : Instants, end : Instants,
                            kept : BOOLEAN]
  BY <1>3, <1>4 DEF EntryIn
<1>7. placed' \in [Ops -> [machine : Machines \union {None}, start : Instants, end : Instants,
                           kept : BOOLEAN]]
  BY <1>2, <1>3, <1>6 DEF TypeOK, RecordEntry
<1>8. stack # <<>>
  BY <1>1 DEF ReadyToPlace, AtUnplaced, At
<1>9. stack' \in Seq(Frames)
  BY <1>2, <1>3, <1>4, <1>8, TopIs, FrameSteps, SetTopKeepsType
<1> QED BY <1>1, <1>5, <1>7, <1>9 DEF TypeOK

(* Every other step leaves the timelines alone.                            *)
ElsewhereStep ==
    \/ Begin \/ NextOrder \/ ProcessDependency \/ ReleaseOrder \/ DependencyBlocks
    \/ KeepFrozen \/ ProcessPrerequisite \/ PrerequisiteBlocks
    \/ NoMachine \/ NoCycleTime \/ CalendarEnds \/ OrderPlaced
    \/ PullForward \/ NoPull \/ RunComplete

LEMMA StepsAre ==
    ASSUME [Next]_vars
    PROVE  ReproduceEntry \/ PlaceOperation \/ ElsewhereStep \/ UNCHANGED vars
BY DEF Next, ElsewhereStep

LEMMA ElsewhereKeepsType ==
    ASSUME TypeOK, ElsewhereStep
    PROVE  TypeOK' /\ UNCHANGED timelines
<1>1. CASE Begin
  BY <1>1 DEF TypeOK, Begin
<1>2. CASE NextOrder
  <2>1. /\ cursor \in Nat /\ in.queue \in Seq(Orders) /\ Len(in.queue) \in Nat
        /\ cursor' = cursor + 1 /\ cursor < Len(in.queue)
    BY <1>2, InputFields, LenProperties DEF TypeOK, NextOrder
  <2>2. cursor' \in 1 .. Len(in.queue) /\ cursor' \in 0 .. Len(in.queue)
    BY <2>1
  <2>3. in.queue[cursor'] \in Orders
    BY <2>1, <2>2, ElementOfSeq
  <2>4. stack' \in Seq(Frames) /\ processed' \subseteq Orders
    <3>1. CASE in.queue[cursor'] \in processed
      BY <1>2, <3>1 DEF NextOrder, TypeOK
    <3>2. CASE in.queue[cursor'] \notin processed
      BY <1>2, <2>3, <3>2, CallKeepsType DEF NextOrder
    <3> QED BY <3>1, <3>2
  <2> QED BY <1>2, <2>2, <2>4 DEF TypeOK, NextOrder
<1>3. CASE ProcessDependency
  <2>1. PICK d \in Upstream : Call(d)
    BY <1>3 DEF ProcessDependency
  <2>2. d \in Orders
    BY QueuedAreOrders DEF Upstream
  <2>3. stack' \in Seq(Frames) /\ processed' \subseteq Orders
    BY <2>1, <2>2, CallKeepsType
  <2> QED BY <1>3, <2>3 DEF TypeOK, ProcessDependency
<1>4. CASE ReleaseOrder
  <2>1. PICK t \in {in.release[Top.order]} \union {completion[d] : d \in in.deps[Top.order]} :
          SetTop([Top EXCEPT !.stage = "place", !.release = t])
    BY <1>4 DEF ReleaseOrder
  <2>2. stack # <<>>
    BY <1>4 DEF ReleaseOrder, At
  <2>3. Top \in Frames /\ Top.order \in Orders
    BY <2>2, TopIs, FrameFields
  <2>4. t \in Instants
    BY <2>1, <2>3, InputFields DEF TypeOK
  <2>5. stack' \in Seq(Frames)
    BY <2>1, <2>2, <2>3, <2>4, FrameSteps, SetTopKeepsType
  <2> QED BY <1>4, <2>5 DEF TypeOK, ReleaseOrder
<1>5. CASE DependencyBlocks
  <2>1. stack # <<>> /\ Unschedule("blocked")
    BY <1>5 DEF DependencyBlocks, At
  <2> QED BY <2>1, UnscheduleKeepsType
<1>6. CASE KeepFrozen
  <2>1. stack # <<>> /\ Remaining
    BY <1>6 DEF KeepFrozen, At
  <2>2. Top \in Frames /\ OpNow \in Ops
    BY <2>1, TopIs, OpNowIs
  <2>3. placed[OpNow].end \in Instants
    BY <2>2 DEF TypeOK
  <2>4. stack' \in Seq(Frames)
    BY <1>6, <2>1, <2>2, <2>3, FrameSteps, SetTopKeepsType DEF KeepFrozen
  <2> QED BY <1>6, <2>4 DEF TypeOK, KeepFrozen
<1>7. CASE ProcessPrerequisite
  <2>1. PrerequisiteOrder \in Orders
    BY <1>7, QueuedAreOrders DEF ProcessPrerequisite
  <2>2. stack' \in Seq(Frames) /\ processed' \subseteq Orders
    BY <1>7, <2>1, CallKeepsType DEF ProcessPrerequisite
  <2> QED BY <1>7, <2>2 DEF TypeOK, ProcessPrerequisite
<1>8. CASE PrerequisiteBlocks
  <2>1. stack # <<>> /\ Unschedule("blocked")
    BY <1>8 DEF PrerequisiteBlocks, AtUnplaced, At
  <2> QED BY <2>1, UnscheduleKeepsType
<1>9. CASE NoMachine
  <2>1. stack # <<>> /\ Unschedule("no_eligible_machine")
    BY <1>9 DEF NoMachine, ReadyToPlace, AtUnplaced, At
  <2> QED BY <2>1, UnscheduleKeepsType
<1>10. CASE NoCycleTime
  <2>1. stack # <<>> /\ Unschedule("missing_cycle_time")
    BY <1>10 DEF NoCycleTime, ReadyToPlace, AtUnplaced, At
  <2> QED BY <2>1, UnscheduleKeepsType
<1>11. CASE CalendarEnds
  BY <1>11 DEF TypeOK, CalendarEnds
<1>12. CASE OrderPlaced
  <2>1. stack # <<>> /\ Return
    BY <1>12 DEF OrderPlaced, At
  <2>2. Top.order \in Orders /\ Top.prevEnd \in Instants
    BY <2>1, TopIs, FrameFields
  <2>3. stack' \in Seq(Frames) /\ work' \in Seq(Machines)
    BY <2>1, ReturnKeepsType
  <2>4. completion' \in [Orders -> Instants]
    BY <1>12, <2>2 DEF OrderPlaced, TypeOK
  <2> QED BY <1>12, <2>3, <2>4 DEF TypeOK, OrderPlaced
<1>13. CASE PullForward
  <2>1. PICK o \in Waiting(Head(work)) : /\ processed' = processed \union {o}
                                       /\ stack' = <<Frame(o, Head(work))>>
    BY <1>13 DEF PullForward
  <2>2. o \in Orders
    BY QueuedAreOrders DEF Waiting
  <2>3. Head(work) \in Machines /\ Tail(work) \in Seq(Machines)
    BY <1>13, HeadTailProperties DEF TypeOK, PullForward
  <2>4. stack' \in Seq(Frames)
    BY <2>1, <2>2, <2>3, FrameIs, Singleton
  <2> QED BY <1>13, <2>1, <2>2, <2>3, <2>4 DEF TypeOK, PullForward
<1>14. CASE NoPull
  <2>1. Tail(work) \in Seq(Machines)
    BY <1>14, HeadTailProperties DEF TypeOK, NoPull
  <2> QED BY <1>14, <2>1 DEF TypeOK, NoPull
<1>15. CASE RunComplete
  BY <1>15 DEF TypeOK, RunComplete
<1> QED BY <1>1, <1>2, <1>3, <1>4, <1>5, <1>6, <1>7, <1>8, <1>9, <1>10, <1>11, <1>12, <1>13,
           <1>14, <1>15 DEF ElsewhereStep

LEMMA NewTimelineIs ==
    ASSUME NEW m \in Machines, NEW floor \in Instants, NEW family \in Families \union {NoFamily}
    PROVE  /\ NewTimeline(floor, family) \in Timelines
           /\ Numbered(NewTimeline(floor, family)) /\ Booked(m, NewTimeline(floor, family))
<1>1. NewTimeline(floor, family) \in Timelines
  BY DEF NewTimeline, Timelines
<1>2. floor <= floor
  BY InstantsAreNumbers
<1>3. Numbered(NewTimeline(floor, family))
  BY FS_EmptySet DEF NewTimeline, Numbered
<1>4. Booked(m, NewTimeline(floor, family))
  BY <1>2 DEF NewTimeline, Booked, SlotsDisjoint
<1> QED BY <1>1, <1>3, <1>4

LEMMA InitKeepsType ==
    ASSUME Init
    PROVE  TypeOK /\ NumberedInv /\ BookedInv
<1>1. in \in InputType
  BY RunAssumption DEF Init
<1>2. \A m \in Machines : in.floor[m] \in Instants /\ in.family[m] \in Families \union {NoFamily}
  BY <1>1, InputFields
<1>3. \A m \in Machines : timelines[m] = NewTimeline(in.floor[m], in.family[m])
  BY DEF Init
<1>4. NumberedInv /\ BookedInv
  BY <1>2, <1>3, NewTimelineIs DEF NumberedInv, BookedInv
<1>5. timelines \in [Machines -> Timelines]
  BY <1>2, NewTimelineIs DEF Init
<1>6. 0 \in Instants /\ 0 \in 0 .. Len(in.queue)
  <2>1. Len(in.queue) \in Nat
    BY <1>1, InputFields, LenProperties
  <2> QED BY <2>1, TimelineAssumption DEF Instants
<1>7. /\ placed \in [Ops -> [machine : Machines \union {None}, start : Instants, end : Instants,
                             kept : BOOLEAN]]
      /\ completion \in [Orders -> Instants]
      /\ failed \in [Orders -> SUBSET {"blocked", "no_eligible_machine", "missing_cycle_time"}]
  BY <1>6 DEF Init, NotPlaced
<1>8. stack \in Seq(Frames) /\ work \in Seq(Machines)
  BY EmptySeq DEF Init
<1>9. TypeOK
  BY <1>1, <1>5, <1>6, <1>7, <1>8 DEF Init, TypeOK
<1> QED BY <1>4, <1>9

LEMMA StepKeepsType ==
    ASSUME TypeOK, NumberedInv, [Next]_vars
    PROVE  TypeOK' /\ NumberedInv'
<1>1. CASE ElsewhereStep
  BY <1>1, ElsewhereKeepsType DEF NumberedInv
<1>2. CASE UNCHANGED vars
  BY <1>2 DEF vars, TypeOK, NumberedInv
<1> QED BY <1>1, <1>2, StepsAre, ReproduceKeepsType, PlaceKeepsType

(* Every variable of a run keeps its type, and slots are told apart by     *)
(* their place among the insertions, whatever the snapshot.                *)
THEOREM TypeCorrect == Spec => [](TypeOK /\ NumberedInv)
<1>1. Init => TypeOK /\ NumberedInv
  BY InitKeepsType
<1>2. TypeOK /\ NumberedInv /\ [Next]_vars => (TypeOK /\ NumberedInv)'
  BY StepKeepsType
<1> QED BY <1>1, <1>2, PTL DEF Spec

-----------------------------------------------------------------------------
(* No machine is booked twice                                              *)

(* Every operation takes time: a pending operation has a quantity to make, *)
(* and a cycle time.                                                       *)
JobsTakeTime == \A op \in Ops : Run[op] > 0

(* The entries of the previous schedule take time and do not overlap on a  *)
(* machine: it came out of a run.                                          *)
PreviousIsSound ==
    \A i \in Inputs : \A d, e \in i.previous :
        /\ d.start < d.end
        /\ d # e /\ d.machine = e.machine => d.end <= e.start \/ e.end <= d.start

IInv == TypeOK /\ NumberedInv /\ in \in Inputs /\ BookedInv /\ LeftInv

LEMMA InsertedBooked ==
    ASSUME TypeOK, NumberedInv, BookedInv, NEW m \in Machines, NEW slot \in Slots,
           FreeFor(timelines[m], slot),
           timelines' = [timelines EXCEPT ![m] = Insert(m, @, slot)]
    PROVE  BookedInv'
<1>1. timelines \in [Machines -> Timelines] /\ Numbered(timelines[m]) /\ Booked(m, timelines[m])
  BY DEF TypeOK, NumberedInv, BookedInv
<1>2. Booked(m, Insert(m, timelines[m], slot))
  BY <1>1, InsertKeepsBooked
<1>3. \A k \in Machines : timelines'[k] = IF k = m THEN Insert(m, timelines[m], slot) ELSE timelines[k]
  BY <1>1
<1>4. \A k \in Machines : Booked(k, timelines'[k])
  BY <1>2, <1>3 DEF BookedInv
<1> QED BY <1>4 DEF BookedInv

LEMMA ReproduceKeepsBooked ==
    ASSUME PreviousIsSound, IInv, ReproduceEntry
    PROVE  BookedInv' /\ LeftInv'
<1>1. PICK e \in left :
        /\ \A d \in left : d.machine = e.machine => e.start <= d.start
        /\ left' = left \ {e}
        /\ IF Kept(e)
           THEN timelines' = [timelines EXCEPT ![e.machine] = Insert(e.machine, @, FrozenSlot(e))]
           ELSE UNCHANGED timelines
  BY DEF ReproduceEntry
<1>2. /\ e.machine \in Machines /\ e.start \in Instants /\ e.end \in Instants
      /\ FrozenSlot(e) \in Slots
      /\ FrozenSlot(e).start = e.start /\ FrozenSlot(e).end = e.end
  BY FrozenSlotIs DEF IInv
<1>3. \A d \in left : /\ d.start \in Nat /\ d.end \in Nat /\ d.machine \in Machines
                      /\ d.start < d.end
                      /\ (d # e /\ d.machine = e.machine) => e.end <= d.start
  <2> SUFFICES ASSUME NEW d \in left
               PROVE  /\ d.start \in Nat /\ d.end \in Nat /\ d.machine \in Machines
                      /\ d.start < d.end
                      /\ (d # e /\ d.machine = e.machine) => e.end <= d.start
    OBVIOUS
  <2>1. /\ d.start \in Nat /\ d.end \in Nat /\ e.start \in Nat /\ e.end \in Nat
        /\ d.machine \in Machines
    BY FrozenSlotIs, InstantsAreNumbers DEF IInv
  <2>2. d \in in.previous /\ e \in in.previous /\ in \in Inputs
    BY DEF IInv, TypeOK
  <2>3. /\ d.start < d.end /\ e.start < e.end
        /\ (d # e /\ d.machine = e.machine) => (d.end <= e.start \/ e.end <= d.start)
    BY <2>2 DEF PreviousIsSound
  <2> QED BY <1>1, <2>1, <2>3
<1>4. status = "frozen" /\ status' = status
  BY DEF ReproduceEntry
<1>5. \A d \in left : \A s \in timelines[d.machine].slots : s.end <= d.start
  BY <1>4 DEF IInv, LeftInv
<1>6. CASE Kept(e)
  <2>1. FreeFor(timelines[e.machine], FrozenSlot(e))
    BY <1>2, <1>3, <1>5 DEF FreeFor
  <2>2. BookedInv'
    BY <1>1, <1>2, <1>6, <2>1, InsertedBooked DEF IInv
  <2>3. timelines[e.machine] \in Timelines /\ timelines \in [Machines -> Timelines]
    BY <1>2 DEF IInv, TypeOK
  <2>4. timelines'[e.machine].slots = timelines[e.machine].slots \union {FrozenSlot(e)}
    BY <1>1, <1>2, <1>6, <2>3, InsertIs
  <2>5. \A k \in Machines \ {e.machine} : timelines'[k] = timelines[k]
    BY <1>1, <1>6, <2>3
  <2>6. ASSUME NEW d \in left', NEW s \in timelines'[d.machine].slots
        PROVE  s.end <= d.start
    <3>1. d \in left /\ d # e
      BY <1>1
    <3>2. CASE d.machine = e.machine
      BY <1>2, <1>3, <1>5, <2>4, <3>1, <3>2
    <3>3. CASE d.machine # e.machine
      BY <1>3, <1>5, <2>5, <3>1, <3>3
    <3> QED BY <3>2, <3>3
  <2> QED BY <2>2, <2>6 DEF LeftInv
<1>7. CASE ~ Kept(e)
  BY <1>1, <1>5, <1>7 DEF IInv, BookedInv, LeftInv
<1> QED BY <1>6, <1>7

LEMMA StepKeepsBooked ==
    ASSUME JobsTakeTime, PreviousIsSound, IInv, [Next]_vars
    PROVE  IInv'
<1>1. TypeOK' /\ NumberedInv'
  BY StepKeepsType DEF IInv
<1>2. CASE ReproduceEntry
  BY <1>1, <1>2, ReproduceKeepsBooked DEF IInv, ReproduceEntry
<1>3. CASE PlaceOperation
  <2>1. /\ ReadyToPlace /\ UNCHANGED <<in, left, status>>
    BY <1>3 DEF PlaceOperation
  <2>2. PICK m \in Best : \E slot \in Options(m) : RecordEntry(OpNow, m, slot)
    BY <1>3 DEF PlaceOperation
  <2> PICK slot \in Options(m) : RecordEntry(OpNow, m, slot)
    BY <2>2
  <2>3. /\ m \in Machines /\ OpNow \in Ops /\ slot \in Slots
        /\ Booked(m, timelines[m]) /\ Run[OpNow] > 0 => FreeFor(timelines[m], slot)
    BY <2>1, OptionIsFree DEF IInv
  <2>4. FreeFor(timelines[m], slot)
    BY <2>3 DEF IInv, BookedInv, JobsTakeTime
  <2>5. BookedInv'
    BY <2>2, <2>3, <2>4, InsertedBooked DEF IInv, RecordEntry
  <2>6. status # "frozen"
    BY <2>1 DEF ReadyToPlace, AtUnplaced, At
  <2> QED BY <1>1, <2>1, <2>5, <2>6 DEF IInv, LeftInv
<1>4. CASE ElsewhereStep
  <2>1. UNCHANGED timelines
    BY <1>4, ElsewhereKeepsType DEF IInv
  <2>2. in' = in /\ left' = left /\ (status' = "frozen" => status = "frozen")
    BY <1>4 DEF ElsewhereStep, Begin, NextOrder, ProcessDependency, ReleaseOrder,
       DependencyBlocks, KeepFrozen, ProcessPrerequisite, PrerequisiteBlocks, NoMachine,
       NoCycleTime, CalendarEnds, OrderPlaced, PullForward, NoPull, RunComplete, Unschedule
  <2> QED BY <1>1, <2>1, <2>2 DEF IInv, BookedInv, LeftInv
<1>5. CASE UNCHANGED vars
  BY <1>1, <1>5 DEF IInv, BookedInv, LeftInv, vars
<1> QED BY <1>2, <1>3, <1>4, <1>5, StepsAre

(* timeline.py: the slots of a machine never overlap, whatever is          *)
(* back-filled into whatever gap, beside reproduced entries, around        *)
(* reserved windows and over any calendar: the check of a gap by its       *)
(* working minutes is as good as one by its end.                           *)
THEOREM NeverBookedTwice ==
    ASSUME JobsTakeTime, PreviousIsSound
    PROVE  Spec => []MachinesSingleBooked
<1>1. Init => IInv
  <2> SUFFICES ASSUME Init PROVE IInv
    OBVIOUS
  <2>1. TypeOK /\ NumberedInv /\ BookedInv /\ in \in Inputs
    BY InitKeepsType DEF Init
  <2>2. LeftInv
    <3> SUFFICES ASSUME NEW e \in left PROVE timelines[e.machine].slots = {}
      BY DEF LeftInv
    <3>1. e.machine \in Machines
      BY <2>1, FrozenSlotIs
    <3> QED BY <3>1 DEF Init, NewTimeline
  <2> QED BY <2>1, <2>2 DEF IInv
<1>2. IInv /\ [Next]_vars => IInv'
  BY StepKeepsBooked
<1>3. IInv => MachinesSingleBooked
  BY DEF IInv, BookedInv, Booked, MachinesSingleBooked
<1> QED BY <1>1, <1>2, <1>3, PTL DEF Spec

-----------------------------------------------------------------------------
(* The call stack                                                          *)

(* A return changes nothing of the caller but the machines it touched.     *)
Alike(f, g) ==
    /\ f.order = g.order /\ f.stage = g.stage /\ f.next = g.next
    /\ f.release = g.release /\ f.prevEnd = g.prevEnd

LEMMA PushIs ==
    ASSUME TypeOK, NEW f \in Frames, stack' = stack \o <<f>>
    PROVE  /\ Len(stack) \in Nat /\ Len(stack') = Len(stack) + 1
           /\ stack'[Len(stack) + 1] = f
           /\ \A i \in 1 .. Len(stack) : stack'[i] = stack[i]
<1>1. stack \in Seq(Frames) /\ <<f>> \in Seq(Frames)
  BY Singleton DEF TypeOK
<1>2. /\ Len(stack') = Len(stack) + Len(<<f>>) /\ Len(stack) \in Nat
      /\ \A i \in 1 .. Len(stack') :
            stack'[i] = IF i <= Len(stack) THEN stack[i] ELSE <<f>>[i - Len(stack)]
  BY <1>1, ConcatProperties, LenProperties
<1>3. Len(<<f>>) = 1 /\ <<f>>[1] = f
  OBVIOUS
<1> QED BY <1>2, <1>3

LEMMA BelowIs ==
    ASSUME TypeOK, stack # <<>>
    PROVE  /\ Len(stack) \in Nat \ {0} /\ Top = stack[Len(stack)]
           /\ Below \in Seq(Frames) /\ Len(Below) = Len(stack) - 1
           /\ \A i \in 1 .. (Len(stack) - 1) : Below[i] = stack[i]
<1>1. stack \in Seq(Frames) /\ Len(stack) \in Nat \ {0}
  BY FrontAndLast DEF TypeOK
<1>2. \A i \in 1 .. (Len(stack) - 1) : stack[i] \in Frames
  BY <1>1, ElementOfSeq
<1>3. /\ Len(Below) = IF 1 <= Len(stack) - 1 THEN (Len(stack) - 1) - 1 + 1 ELSE 0
      /\ \A i \in 1 .. ((Len(stack) - 1) - 1 + 1) : Below[i] = stack[1 + i - 1]
  BY <1>1, <1>2, SubSeqProperties DEF Below
<1>4. Len(Below) = Len(stack) - 1
  <2> DEFINE n == Len(stack)
             b == Len(Below)
  <2>1. n \in Nat \ {0} /\ b = IF 1 <= n - 1 THEN (n - 1) - 1 + 1 ELSE 0
    BY <1>1, <1>3
  <2> HIDE DEF n, b
  <2>2. b = n - 1
    BY <2>1
  <2> QED BY <2>2 DEF n, b
<1>5. ASSUME NEW i \in 1 .. (Len(stack) - 1) PROVE Below[i] = stack[i]
  <2>1. i \in 1 .. ((Len(stack) - 1) - 1 + 1) /\ 1 + i - 1 = i
    BY <1>1
  <2>2. Below[i] = stack[1 + i - 1]
    BY <1>3, <2>1
  <2> QED BY <2>1, <2>2
<1> QED BY <1>1, <1>4, <1>5, TopIs DEF Top

LEMMA SetTopIs ==
    ASSUME TypeOK, stack # <<>>, NEW f \in Frames, SetTop(f)
    PROVE  /\ Len(stack') = Len(stack) /\ stack'[Len(stack)] = f
           /\ \A i \in 1 .. (Len(stack) - 1) : stack'[i] = stack[i]
<1>1. /\ Below \in Seq(Frames) /\ Len(Below) = Len(stack) - 1 /\ Len(stack) \in Nat \ {0}
      /\ <<f>> \in Seq(Frames) /\ Len(<<f>>) = 1 /\ <<f>>[1] = f
  BY BelowIs, Singleton
<1>2. /\ Len(stack') = Len(Below) + Len(<<f>>)
      /\ \A i \in 1 .. Len(stack') :
            stack'[i] = IF i <= Len(Below) THEN Below[i] ELSE <<f>>[i - Len(Below)]
  BY <1>1, ConcatProperties DEF SetTop
<1>3. Len(stack') = Len(stack)
  BY <1>1, <1>2
<1>4. Len(stack) - Len(Below) = 1 /\ ~ (Len(stack) <= Len(Below)) /\ Len(stack) \in 1 .. Len(stack')
  BY <1>1, <1>3
<1>5. stack'[Len(stack)] = f
  BY <1>1, <1>2, <1>4
<1>6. ASSUME NEW i \in 1 .. (Len(stack) - 1) PROVE stack'[i] = stack[i]
  <2>1. i <= Len(Below) /\ i \in 1 .. Len(stack')
    BY <1>1, <1>3
  <2> QED BY <1>2, <2>1, BelowIs
<1> QED BY <1>3, <1>5, <1>6

LEMMA ReturnIs ==
    ASSUME TypeOK, stack # <<>>, Return
    PROVE  /\ Len(stack') = Len(stack) - 1
           /\ \A i \in 1 .. (Len(stack) - 1) : Alike(stack'[i], stack[i])
<1>1. /\ Below \in Seq(Frames) /\ Len(Below) = Len(stack) - 1 /\ Len(stack) \in Nat \ {0}
      /\ \A i \in 1 .. (Len(stack) - 1) : Below[i] = stack[i]
  BY BelowIs
<1>2. CASE stack' = Below
  BY <1>1, <1>2 DEF Alike
<1>3. CASE stack' = [Below EXCEPT ![Len(Below)].touched = @ \o Top.touched] /\ Below # <<>>
  <2> DEFINE n == Len(Below)
  <2>1. n \in 1 .. n /\ Below[n] \in Frames
    BY <1>1, <1>3, FrontAndLast
  <2>2. stack' = [Below EXCEPT ![n] = [Below[n] EXCEPT !.touched = @ \o Top.touched]]
    BY <1>3
  <2>3. DOMAIN Below = 1 .. n
    BY <1>1, LenProperties
  <2>4. \A i \in 1 .. n : stack'[i] = IF i = n THEN [Below[n] EXCEPT !.touched = @ \o Top.touched]
                                      ELSE Below[i]
    BY <2>2, <2>3
  <2>5. Alike([Below[n] EXCEPT !.touched = @ \o Top.touched], Below[n])
    BY <2>1 DEF Alike, Frames
  <2>6. \A i \in 1 .. n : Alike(stack'[i], Below[i])
    BY <2>4, <2>5 DEF Alike
  <2>7. [Below[n] EXCEPT !.touched = @ \o Top.touched] \in Frames
    <3>1. Top.touched \in Seq(Machines) /\ Below[n].prevEnd \in Instants
      BY <2>1, TopIs, FrameFields
    <3> HIDE DEF n
    <3> QED BY <2>1, <3>1, FrameSteps
  <2>8. Len(stack') = n
    <3> DEFINE g == [Below[n] EXCEPT !.touched = @ \o Top.touched]
    <3>1. g \in Frames /\ n \in 1 .. Len(Below) /\ stack' = [Below EXCEPT ![n] = g]
      BY <2>1, <2>2, <2>7
    <3> HIDE DEF g
    <3>2. Len([Below EXCEPT ![n] = g]) = Len(Below)
      BY <1>1, <3>1, ExceptSeq
    <3> QED BY <3>1, <3>2
  <2> QED BY <1>1, <2>6, <2>8
<1> QED BY <1>2, <1>3 DEF Return

-----------------------------------------------------------------------------
(* Every candidate has an operation to plan: pending_operations makes one  *)
(* up for an order that has none (run.py:174-175).                         *)
CandidatesHaveWork ==
    \A i \in Inputs : \A k \in DOMAIN i.queue : Route[i.queue[k]] # <<>>

(* A call has placed, or found placed, the operations before the next one, *)
(* and remembers when the last of them ends.                               *)
FrameOK(f, pl) ==
    LET r == Route[f.order]
    IN  /\ f.stage = "deps" => f.next = 1
        /\ f.next <= Len(r) + 1
        /\ \A j \in 1 .. (f.next - 1) : pl[r[j]] # NotPlaced
        /\ f.next > 1 => f.prevEnd = pl[r[f.next - 1]].end

(* An order is on the stack at most once, as long as it has no answer.     *)
StackInv ==
    /\ \A i \in 1 .. Len(stack) :
        /\ FrameOK(stack[i], placed)
        /\ stack[i].order \in processed
        /\ completion[stack[i].order] = 0
        /\ failed[stack[i].order] = {}
    /\ \A i, j \in 1 .. Len(stack) : stack[i].order = stack[j].order => i = j
    /\ status = "frozen" => stack = <<>>

Answered(o) ==
    \/ /\ failed[o] = {}
       /\ \A i \in 1 .. Len(Route[o]) : placed[Route[o][i]] # NotPlaced
       /\ completion[o] = placed[Route[o][Len(Route[o])]].end
    \/ Cardinality(failed[o]) = 1 /\ completion[o] = 0

(* What was taken from the queue has its answer or is still on the stack.  *)
AnswerInv ==
    /\ processed \subseteq Queued
    /\ status = "frozen" => processed = {}
    /\ \A o \in Orders \ processed : failed[o] = {} /\ completion[o] = 0
    /\ \A o \in processed : Answered(o) \/ \E i \in 1 .. Len(stack) : stack[i].order = o
    /\ \A i \in 1 .. cursor : in.queue[i] \in processed
    /\ status = "done" => stack = <<>> /\ cursor = Len(in.queue)

(* The steps, by what they do to the stack: an order is called, ...        *)
Calls ==
    \E o \in Queued \ processed, k \in Machines \union {None} :
        /\ stack' = stack \o <<Frame(o, k)>>
        /\ processed' = processed \union {o}
        /\ cursor' = cursor \/ (cursor' = cursor + 1 /\ o = in.queue[cursor'])
        /\ status = "running"
        /\ UNCHANGED <<in, left, placed, completion, failed, status>>

(* ... given up, ...                                                       *)
GivesUp ==
    /\ status = "running" /\ stack # <<>>
    /\ \E code \in {"blocked", "no_eligible_machine", "missing_cycle_time"} : Unschedule(code)

(* ... or no order is touched.                                             *)
Rests ==
    /\ UNCHANGED <<in, left, placed, completion, failed, processed, stack>>
    /\ \/ status' = status /\ cursor' = cursor
       \/ status' = status /\ status # "frozen" /\ status # "done"
            /\ cursor' = cursor + 1 /\ in.queue[cursor'] \in processed
       \/ status = "frozen" /\ left = {} /\ status' = "running" /\ cursor' = cursor
       \/ status = "running" /\ status' = "error" /\ cursor' = cursor
       \/ status = "running" /\ status' = "done" /\ cursor' = cursor
            /\ stack = <<>> /\ cursor = Len(in.queue)

LEMMA KindsOfSteps ==
    ASSUME TypeOK, [Next]_vars
    PROVE  \/ ReproduceEntry \/ PlaceOperation \/ ReleaseOrder \/ KeepFrozen \/ OrderPlaced
           \/ Calls \/ GivesUp \/ Rests
<1>1. None \in Machines \union {None}
  OBVIOUS
<1>2. CASE NextOrder
  <2>1. cursor' = cursor + 1 /\ cursor' \in 1 .. Len(in.queue)
    BY <1>2, InputFields, LenProperties DEF TypeOK, NextOrder
  <2>2. in.queue[cursor'] \in Queued
    BY <2>1, InputFields, LenProperties DEF TypeOK, Queued
  <2>3. CASE in.queue[cursor'] \in processed
    BY <1>2, <2>1, <2>3 DEF NextOrder, Rests
  <2>4. CASE in.queue[cursor'] \notin processed
    BY <1>1, <1>2, <2>1, <2>2, <2>4 DEF NextOrder, Call, Calls
  <2> QED BY <2>3, <2>4
<1>3. CASE ProcessDependency
  BY <1>1, <1>3 DEF ProcessDependency, Upstream, At, Call, Calls
<1>4. CASE ProcessPrerequisite
  BY <1>1, <1>4 DEF ProcessPrerequisite, AtUnplaced, At, Call, Calls
<1>5. CASE PullForward
  <2>1. PICK o \in Waiting(Head(work)) : /\ processed' = processed \union {o}
                                       /\ stack' = <<Frame(o, Head(work))>>
    BY <1>5 DEF PullForward
  <2>2. Head(work) \in Machines
    BY <1>5, HeadTailProperties DEF TypeOK, PullForward
  <2>3. o \in Queued \ processed
    BY DEF Waiting
  <2>4. Frame(o, Head(work)) \in Frames
    BY <2>2, <2>3, QueuedAreOrders, FrameIs
  <2>5. stack' = stack \o <<Frame(o, Head(work))>>
    <3> DEFINE f == Frame(o, Head(work))
    <3>1. <<f>> \in Seq(Frames)
      BY <2>4, Singleton
    <3>2. <<>> \o <<f>> = <<f>>
      <4> HIDE DEF f
      <4> QED BY <3>1, ConcatEmptySeq
    <3> QED BY <1>5, <2>1, <3>2 DEF PullForward
  <2> QED BY <1>5, <2>1, <2>2, <2>3, <2>5 DEF PullForward, Calls
<1>6. CASE DependencyBlocks \/ PrerequisiteBlocks \/ NoMachine \/ NoCycleTime
  BY <1>6 DEF DependencyBlocks, PrerequisiteBlocks, NoMachine, NoCycleTime, ReadyToPlace,
              AtUnplaced, At, GivesUp
<1>7. CASE Begin \/ CalendarEnds \/ NoPull \/ RunComplete \/ UNCHANGED vars
  BY <1>7 DEF Begin, CalendarEnds, ReadyToPlace, AtUnplaced, At, NoPull, RunComplete, vars, Rests
<1> QED BY <1>2, <1>3, <1>4, <1>5, <1>6, <1>7 DEF Next

(* What is placed stays where it is once the run has begun, and a call     *)
(* keeps what it has passed.                                               *)
LEMMA FrameKept ==
    ASSUME NEW f \in Frames, NEW g, Alike(g, f), NEW pl, NEW ql, FrameOK(f, pl),
           \A x \in Ops : pl[x] # NotPlaced => ql[x] = pl[x]
    PROVE  FrameOK(g, ql)
<1> DEFINE r == Route[f.order]
<1>1. f.order \in Orders /\ f.next \in Nat \ {0} /\ r \in Seq(Ops) /\ Len(r) \in Nat
  BY FrameFields, RunAssumption, LenProperties
<1>2. \A j \in 1 .. (f.next - 1) : r[j] \in Ops
  <2>1. \A j \in 1 .. (f.next - 1) : j \in 1 .. Len(r)
    BY <1>1 DEF FrameOK
  <2> QED BY <1>1, <2>1, ElementOfSeq
<1>3. \A j \in 1 .. (f.next - 1) : pl[r[j]] # NotPlaced /\ ql[r[j]] = pl[r[j]]
  BY <1>2 DEF FrameOK
<1>4. f.next > 1 => f.next - 1 \in 1 .. (f.next - 1)
  BY <1>1
<1>5. /\ f.stage = "deps" => f.next = 1
      /\ f.next <= Len(r) + 1
      /\ f.next > 1 => f.prevEnd = pl[r[f.next - 1]].end
  BY DEF FrameOK
<1>6. g.order = f.order /\ g.stage = f.stage /\ g.next = f.next /\ g.prevEnd = f.prevEnd
  BY DEF Alike
<1> QED BY <1>3, <1>4, <1>5, <1>6 DEF FrameOK

LEMMA NewFrameOK ==
    ASSUME NEW o \in Orders, NEW k, NEW pl
    PROVE  FrameOK(Frame(o, k), pl)
<1>1. Len(Route[o]) \in Nat
  BY RunAssumption, LenProperties
<1> QED BY <1>1 DEF FrameOK, Frame

(* An answer that was given stands.                                        *)
LEMMA AnswerStands ==
    ASSUME TypeOK, NEW o \in Orders, Answered(o),
           completion'[o] = completion[o], failed'[o] = failed[o],
           \A x \in Ops : placed[x] # NotPlaced => placed'[x] = placed[x],
           failed[o] = {} => Route[o] # <<>>
    PROVE  Answered(o)'
<1>1. Route[o] \in Seq(Ops) /\ Len(Route[o]) \in Nat
  BY RunAssumption, LenProperties
<1>2. \A i \in 1 .. Len(Route[o]) : Route[o][i] \in Ops
  BY <1>1, ElementOfSeq
<1>3. failed[o] = {} => Len(Route[o]) \in 1 .. Len(Route[o])
  BY <1>1, EmptySeq
<1> QED BY <1>2, <1>3 DEF Answered

LEMMA CallsKeepAnswers ==
    ASSUME TypeOK, StackInv, AnswerInv, Calls
    PROVE  StackInv' /\ AnswerInv'
<1> PICK o \in Queued \ processed, k \in Machines \union {None} :
        /\ stack' = stack \o <<Frame(o, k)>>
        /\ processed' = processed \union {o}
        /\ cursor' = cursor \/ (cursor' = cursor + 1 /\ o = in.queue[cursor'])
        /\ status = "running"
        /\ UNCHANGED <<in, left, placed, completion, failed, status>>
  BY DEF Calls
<1>1. o \in Orders /\ Frame(o, k) \in Frames /\ Frame(o, k).order = o
  BY QueuedAreOrders, FrameIs DEF Frame
<1>2. /\ Len(stack) \in Nat /\ Len(stack') = Len(stack) + 1
      /\ stack'[Len(stack) + 1] = Frame(o, k)
      /\ \A i \in 1 .. Len(stack) : stack'[i] = stack[i]
  BY <1>1, PushIs
<1>3. completion[o] = 0 /\ failed[o] = {}
  BY <1>1 DEF AnswerInv
<1>4. \A i \in 1 .. Len(stack') : i \in 1 .. Len(stack) \/ i = Len(stack) + 1
  BY <1>2
<1>5. StackInv'
  <2>1. \A i \in 1 .. Len(stack) : stack[i].order # o
    BY DEF StackInv
  <2>2. FrameOK(Frame(o, k), placed)
    BY <1>1, NewFrameOK
  <2>3. ASSUME NEW i \in 1 .. Len(stack')
        PROVE  /\ FrameOK(stack'[i], placed)
               /\ stack'[i].order \in processed'
               /\ completion[stack'[i].order] = 0
               /\ failed[stack'[i].order] = {}
    <3> HIDE DEF Calls
    <3> QED BY <1>1, <1>2, <1>3, <1>4, <2>2 DEF StackInv
  <2>4. \A i, j \in 1 .. Len(stack') : stack'[i].order = stack'[j].order => i = j
    BY <1>1, <1>2, <1>4, <2>1 DEF StackInv
  <2> QED BY <2>3, <2>4 DEF StackInv
<1>6. AnswerInv'
  <2>1. processed' \subseteq Queued' /\ status' # "frozen" /\ status' # "done"
    BY DEF AnswerInv, Queued
  <2>2. \A p \in Orders \ processed' : failed'[p] = {} /\ completion'[p] = 0
    BY DEF AnswerInv
  <2>3. ASSUME NEW p \in processed'
        PROVE  Answered(p)' \/ \E i \in 1 .. Len(stack') : stack'[i].order = p
    <3>1. CASE p = o
      BY <1>1, <1>2, <3>1
    <3>2. CASE p # o
      <4>1. Answered(p) => Answered(p)'
        BY DEF Answered
      <4>2. \A i \in 1 .. Len(stack) : i \in 1 .. Len(stack')
        BY <1>2
      <4> QED BY <1>2, <3>2, <4>1, <4>2 DEF AnswerInv
    <3> QED BY <3>1, <3>2
  <2>4. \A i \in 1 .. cursor' : in'.queue[i] \in processed'
    <3>1. cursor \in Nat
      BY InputFields, LenProperties DEF TypeOK
    <3> QED BY <3>1 DEF AnswerInv
  <2> QED BY <2>1, <2>2, <2>3, <2>4 DEF AnswerInv
<1> QED BY <1>5, <1>6

(* The call on top ends and its order has its answer.                      *)
LEMMA ReturnsKeepAnswers ==
    ASSUME TypeOK, StackInv, AnswerInv, stack # <<>>, Return, status = "running",
           UNCHANGED <<in, placed, processed, cursor, status>>,
           \A p \in processed : Route[p] # <<>>,
           NEW o \in Orders, o = Top.order, Answered(o)',
           \A p \in Orders \ {o} : completion'[p] = completion[p] /\ failed'[p] = failed[p]
    PROVE  StackInv' /\ AnswerInv'
<1>1. /\ Len(stack) \in Nat \ {0} /\ Top = stack[Len(stack)] /\ Len(stack') = Len(stack) - 1
      /\ \A i \in 1 .. (Len(stack) - 1) : Alike(stack'[i], stack[i])
  BY BelowIs, ReturnIs
<1>2. /\ \A i \in 1 .. Len(stack) : stack[i] \in Frames
      /\ \A i \in 1 .. Len(stack') : i \in 1 .. (Len(stack) - 1) /\ i \in 1 .. Len(stack)
      /\ \A i \in 1 .. Len(stack) : i = Len(stack) \/ i \in 1 .. Len(stack')
  BY <1>1, ElementOfSeq DEF TypeOK
<1>3. \A i \in 1 .. Len(stack') : stack'[i].order = stack[i].order
  BY <1>1, <1>2 DEF Alike
<1>4. \A i \in 1 .. Len(stack') : stack[i].order # Top.order /\ stack[i].order \in Orders
  <2>1. ASSUME NEW i \in 1 .. Len(stack') PROVE i # Len(stack) /\ Len(stack) \in 1 .. Len(stack)
    BY <1>1
  <2> QED BY <1>1, <1>2, <2>1, FrameFields DEF StackInv
<1>5. StackInv'
  <2>1. ASSUME NEW i \in 1 .. Len(stack') PROVE FrameOK(stack'[i], placed')
    <3>1. Alike(stack'[i], stack[i]) /\ stack[i] \in Frames /\ FrameOK(stack[i], placed)
      BY <1>1, <1>2 DEF StackInv
    <3> QED BY <3>1, FrameKept
  <2>2. ASSUME NEW i \in 1 .. Len(stack')
        PROVE  /\ stack'[i].order \in processed'
               /\ completion'[stack'[i].order] = 0
               /\ failed'[stack'[i].order] = {}
    <3>1. i \in 1 .. Len(stack) /\ stack'[i].order = stack[i].order
      BY <1>2, <1>3
    <3>2. stack[i].order \in Orders \ {o}
      BY <1>4
    <3> QED BY <3>1, <3>2 DEF StackInv
  <2>3. \A i, j \in 1 .. Len(stack') : stack'[i].order = stack'[j].order => i = j
    BY <1>2, <1>3 DEF StackInv
  <2> QED BY <2>1, <2>2, <2>3 DEF StackInv
<1>6. AnswerInv'
  <2>1. Top.order \in Orders /\ Top.order \in processed
    <3>1. Len(stack) \in 1 .. Len(stack)
      BY <1>1
    <3> QED BY <1>1, <3>1, TopIs, FrameFields DEF StackInv
  <2>2. processed' \subseteq Queued' /\ status' # "frozen" /\ status' # "done"
    BY DEF AnswerInv, Queued
  <2>3. \A p \in Orders \ processed' : failed'[p] = {} /\ completion'[p] = 0
    BY <2>1 DEF AnswerInv
  <2>4. ASSUME NEW p \in processed'
        PROVE  Answered(p)' \/ \E i \in 1 .. Len(stack') : stack'[i].order = p
    <3>1. CASE p # o
      <4>1. p \in Orders /\ completion'[p] = completion[p] /\ failed'[p] = failed[p] /\ Route[p] # <<>>
        BY <3>1 DEF TypeOK
      <4>2. Answered(p) => Answered(p)'
        BY <4>1, AnswerStands
      <4>3. ASSUME NEW i \in 1 .. Len(stack), stack[i].order = p
            PROVE  \E j \in 1 .. Len(stack') : stack'[j].order = p
        BY <1>1, <1>2, <1>3, <3>1, <4>3
      <4> QED BY <4>2, <4>3 DEF AnswerInv
    <3>2. CASE p = o
      BY <3>2
    <3> QED BY <3>1, <3>2
  <2> QED BY <2>2, <2>3, <2>4 DEF AnswerInv
<1> QED BY <1>5, <1>6

LEMMA ProcessedHaveWork ==
    ASSUME CandidatesHaveWork, in \in Inputs, AnswerInv
    PROVE  \A p \in processed : Route[p] # <<>>
BY DEF CandidatesHaveWork, AnswerInv, Queued

(* The call on top, and the order it answers for.                          *)
LEMMA TopOfStack ==
    ASSUME TypeOK, StackInv, stack # <<>>
    PROVE  /\ Len(stack) \in 1 .. Len(stack) /\ Len(stack) \in Nat /\ Top = stack[Len(stack)]
           /\ Top \in Frames /\ Top.order \in Orders /\ FrameOK(Top, placed)
           /\ Top.order \in processed /\ completion[Top.order] = 0 /\ failed[Top.order] = {}
           /\ \A i \in 1 .. (Len(stack) - 1) : i \in 1 .. Len(stack) /\ stack[i].order # Top.order
<1>1. Len(stack) \in 1 .. Len(stack) /\ Len(stack) \in Nat /\ Top = stack[Len(stack)]
  BY BelowIs
<1>2. Top \in Frames /\ Top.order \in Orders
  BY TopIs, FrameFields
<1>3. \A i \in 1 .. (Len(stack) - 1) : i \in 1 .. Len(stack) /\ i # Len(stack)
  BY <1>1
<1> QED BY <1>1, <1>2, <1>3 DEF StackInv

LEMMA GivesUpKeepsAnswers ==
    ASSUME CandidatesHaveWork, in \in Inputs, TypeOK, StackInv, AnswerInv, GivesUp
    PROVE  StackInv' /\ AnswerInv'
<1>1. stack # <<>> /\ status = "running"
  BY DEF GivesUp
<1>2. PICK code : Unschedule(code)
  BY DEF GivesUp
<1>3. /\ failed' = [failed EXCEPT ![Top.order] = @ \union {code}] /\ Return
      /\ UNCHANGED <<in, placed, completion, processed, cursor, status>>
  BY <1>2 DEF Unschedule
<1>4. Top.order \in Orders /\ completion[Top.order] = 0 /\ failed[Top.order] = {}
  BY <1>1, TopOfStack
<1>5. /\ failed'[Top.order] = {code}
      /\ \A p \in Orders \ {Top.order} : failed'[p] = failed[p]
  BY <1>3, <1>4 DEF TypeOK
<1>6. Cardinality({code}) = 1
  BY FS_Singleton
<1>7. PICK o \in Orders : o = Top.order
  BY <1>4
<1>8. /\ failed'[o] = {code} /\ completion'[o] = 0
      /\ \A p \in Orders \ {o} : completion'[p] = completion[p] /\ failed'[p] = failed[p]
  BY <1>3, <1>4, <1>5, <1>7
<1>9. Answered(o)'
  BY <1>6, <1>8 DEF Answered
<1>10. \A p \in processed : Route[p] # <<>>
  BY ProcessedHaveWork
<1> QED BY <1>1, <1>3, <1>7, <1>8, <1>9, <1>10, ReturnsKeepAnswers

(* The call on top goes on with its order.                                 *)
LEMMA GoingOnKeepsAnswers ==
    ASSUME TypeOK, StackInv, AnswerInv, stack # <<>>, status = "running",
           NEW f \in Frames, SetTop(f), f.order = Top.order, FrameOK(f, placed'),
           \A x \in Ops : placed[x] # NotPlaced => placed'[x] = placed[x],
           \A p \in processed : Route[p] # <<>>,
           UNCHANGED <<in, completion, failed, processed, cursor, status>>
    PROVE  StackInv' /\ AnswerInv'
<1>1. /\ Len(stack') = Len(stack) /\ stack'[Len(stack)] = f
      /\ \A i \in 1 .. (Len(stack) - 1) : stack'[i] = stack[i]
  BY SetTopIs
<1>2. /\ Len(stack) \in Nat \ {0} /\ Len(stack) \in 1 .. Len(stack) /\ Top = stack[Len(stack)]
      /\ \A i \in 1 .. Len(stack) : stack[i] \in Frames
      /\ \A i \in 1 .. Len(stack) : i = Len(stack) \/ i \in 1 .. (Len(stack) - 1)
  BY TopOfStack, ElementOfSeq DEF TypeOK
<1>3. \A i \in 1 .. Len(stack) : stack'[i].order = stack[i].order
  BY <1>1, <1>2
<1>4. ASSUME NEW i \in 1 .. Len(stack) PROVE FrameOK(stack'[i], placed')
  <2>1. CASE i = Len(stack)
    BY <1>1, <2>1
  <2>2. CASE i # Len(stack)
    <3>1. stack'[i] = stack[i] /\ stack[i] \in Frames /\ FrameOK(stack[i], placed)
      BY <1>1, <1>2, <2>2 DEF StackInv
    <3>2. Alike(stack[i], stack[i])
      BY DEF Alike
    <3> QED BY <3>1, <3>2, FrameKept
  <2> QED BY <2>1, <2>2
<1>5. StackInv'
  BY <1>1, <1>3, <1>4 DEF StackInv
<1>6. ASSUME NEW p \in processed, Answered(p) PROVE Answered(p)'
  <2>1. p \in Orders /\ completion'[p] = completion[p] /\ failed'[p] = failed[p] /\ Route[p] # <<>>
    BY DEF TypeOK
  <2> QED BY <1>6, <2>1, AnswerStands
<1>7. AnswerInv'
  <2>1. /\ processed' \subseteq Queued' /\ status' # "frozen" /\ status' # "done"
        /\ \A p \in Orders \ processed' : failed'[p] = {} /\ completion'[p] = 0
        /\ \A i \in 1 .. cursor' : in'.queue[i] \in processed'
    BY DEF AnswerInv, Queued
  <2>2. ASSUME NEW p \in processed'
        PROVE  Answered(p)' \/ \E i \in 1 .. Len(stack') : stack'[i].order = p
    BY <1>1, <1>3, <1>6 DEF AnswerInv
  <2> QED BY <2>1, <2>2 DEF AnswerInv
<1> QED BY <1>5, <1>7

LEMMA OperationAt ==
    ASSUME TypeOK, StackInv, stack # <<>>
    PROVE  /\ Route[Top.order] \in Seq(Ops) /\ Len(Route[Top.order]) \in Nat
           /\ Top.next \in Nat \ {0} /\ Top.prevEnd \in Instants
           /\ \A j \in 1 .. Len(Route[Top.order]) : Route[Top.order][j] \in Ops
           /\ \A j \in 1 .. (Top.next - 1) : Route[Top.order][j] \in Ops
           /\ Remaining => Top.next \in 1 .. Len(Route[Top.order]) /\ OpNow \in Ops
<1>1. /\ Route[Top.order] \in Seq(Ops) /\ Len(Route[Top.order]) \in Nat
      /\ Top.next \in Nat \ {0} /\ Top.prevEnd \in Instants
      /\ Top.next <= Len(Route[Top.order]) + 1
  BY TopOfStack, FrameFields, RunAssumption, LenProperties DEF FrameOK
<1>2. \A j \in 1 .. Len(Route[Top.order]) : Route[Top.order][j] \in Ops
  BY <1>1, ElementOfSeq
<1>3. \A j \in 1 .. (Top.next - 1) : j \in 1 .. Len(Route[Top.order])
  BY <1>1
<1>4. Remaining => Top.next \in 1 .. Len(Route[Top.order])
  BY <1>1 DEF Remaining
<1> QED BY <1>1, <1>2, <1>3, <1>4 DEF OpNow

LEMMA ReleaseKeepsAnswers ==
    ASSUME CandidatesHaveWork, in \in Inputs, TypeOK, StackInv, AnswerInv, ReleaseOrder
    PROVE  StackInv' /\ AnswerInv'
<1>1. /\ stack # <<>> /\ status = "running" /\ Top.stage = "deps"
      /\ UNCHANGED <<in, placed, completion, failed, processed, cursor, status>>
  BY DEF ReleaseOrder, At
<1>2. PICK t \in {in.release[Top.order]} \union {completion[d] : d \in in.deps[Top.order]} :
        SetTop([Top EXCEPT !.stage = "place", !.release = t])
  BY DEF ReleaseOrder
<1>3. Top \in Frames /\ Top.order \in Orders /\ FrameOK(Top, placed)
  BY <1>1, TopOfStack
<1>4. t \in Instants
  <2>1. in.release \in [Orders -> Instants] /\ in.deps \in [Orders -> SUBSET Orders]
    BY InputFields DEF TypeOK
  <2> QED BY <1>2, <1>3, <2>1 DEF TypeOK
<1> DEFINE f == [Top EXCEPT !.stage = "place", !.release = t]
<1>5. f \in Frames
  BY <1>3, <1>4, FrameSteps
<1>6. /\ f.order = Top.order /\ f.next = Top.next /\ f.prevEnd = Top.prevEnd /\ f.stage = "place"
  BY <1>3 DEF Frames
<1>7. SetTop(f)
  BY <1>2
<1> HIDE DEF f
<1>8. FrameOK(f, placed')
  BY <1>1, <1>3, <1>6 DEF FrameOK
<1> QED BY <1>1, <1>5, <1>6, <1>7, <1>8, ProcessedHaveWork, GoingOnKeepsAnswers

LEMMA KeepingKeepsAnswers ==
    ASSUME CandidatesHaveWork, in \in Inputs, TypeOK, StackInv, AnswerInv, KeepFrozen
    PROVE  StackInv' /\ AnswerInv'
<1>1. /\ stack # <<>> /\ status = "running" /\ Top.stage = "place" /\ Remaining
      /\ placed[OpNow] # NotPlaced
      /\ UNCHANGED <<in, placed, completion, failed, processed, cursor, status>>
  BY DEF KeepFrozen, At
<1> DEFINE t == placed[OpNow].end
           f == [Top EXCEPT !.next = @ + 1, !.prevEnd = t, !.forced = None]
<1>2. Top \in Frames /\ FrameOK(Top, placed)
  BY <1>1, TopOfStack
<1>3. /\ Len(Route[Top.order]) \in Nat /\ Top.next \in Nat \ {0}
      /\ Top.next \in 1 .. Len(Route[Top.order]) /\ OpNow \in Ops
  BY <1>1, OperationAt
<1>4. t \in Instants
  BY <1>3 DEF TypeOK
<1>5. SetTop(f)
  BY DEF KeepFrozen
<1>6. f \in Frames
  <2> HIDE DEF t
  <2> QED BY <1>2, <1>4, FrameSteps
<1>7. f.order = Top.order /\ f.next = Top.next + 1 /\ f.prevEnd = t /\ f.stage = "place"
  BY <1>1, <1>2 DEF Frames
<1> HIDE DEF f
<1>8. FrameOK(f, placed')
  <2> DEFINE r == Route[Top.order]
  <2>1. r[Top.next] = OpNow /\ Top.next + 1 - 1 = Top.next
    BY <1>3 DEF OpNow
  <2>2. \A j \in 1 .. Top.next : j = Top.next \/ j \in 1 .. (Top.next - 1)
    BY <1>3
  <2>3. \A j \in 1 .. Top.next : placed[r[j]] # NotPlaced
    BY <1>1, <1>2, <2>1, <2>2 DEF FrameOK
  <2>4. placed[r[Top.next]].end = t
    BY <2>1
  <2>5. f.next <= Len(r) + 1
    BY <1>3, <1>7
  <2>6. f.stage # "deps" /\ f.next - 1 = Top.next
    BY <1>3, <1>7
  <2> HIDE DEF t
  <2> QED BY <1>1, <1>7, <2>3, <2>4, <2>5, <2>6 DEF FrameOK
<1> QED BY <1>1, <1>5, <1>6, <1>7, <1>8, ProcessedHaveWork, GoingOnKeepsAnswers

LEMMA PlacingKeepsAnswers ==
    ASSUME CandidatesHaveWork, in \in Inputs, TypeOK, NumberedInv, StackInv, AnswerInv,
           PlaceOperation
    PROVE  StackInv' /\ AnswerInv'
<1>1. /\ stack # <<>> /\ status = "running" /\ Top.stage = "place" /\ Remaining
      /\ placed[OpNow] = NotPlaced /\ ReadyToPlace
      /\ UNCHANGED <<in, completion, failed, processed, cursor, status>>
  BY DEF PlaceOperation, ReadyToPlace, AtUnplaced, At
<1>2. PICK m \in Best : \E slot \in Options(m) :
        /\ RecordEntry(OpNow, m, slot)
        /\ SetTop([Top EXCEPT !.next = @ + 1, !.prevEnd = slot.end, !.forced = None,
                              !.touched = Append(@, m)])
  BY DEF PlaceOperation
<1> PICK slot \in Options(m) :
        /\ RecordEntry(OpNow, m, slot)
        /\ SetTop([Top EXCEPT !.next = @ + 1, !.prevEnd = slot.end, !.forced = None,
                              !.touched = Append(@, m)])
  BY <1>2
<1>3. m \in Machines /\ OpNow \in Ops /\ slot \in Slots
  BY <1>1, OptionIsFree
<1> DEFINE t == slot.end
           f == [Top EXCEPT !.next = @ + 1, !.prevEnd = t, !.forced = None,
                            !.touched = Append(@, m)]
<1>4. Top \in Frames /\ FrameOK(Top, placed)
  BY <1>1, TopOfStack
<1>5. /\ Len(Route[Top.order]) \in Nat /\ Top.next \in Nat \ {0}
      /\ Top.next \in 1 .. Len(Route[Top.order])
      /\ \A j \in 1 .. (Top.next - 1) : Route[Top.order][j] \in Ops
  BY <1>1, OperationAt
<1>6. t \in Instants
  BY <1>3, SlotFields
<1>7. SetTop(f)
  OBVIOUS
<1>8. f \in Frames
  <2> HIDE DEF t
  <2> QED BY <1>3, <1>4, <1>6, FrameSteps
<1>9. f.order = Top.order /\ f.next = Top.next + 1 /\ f.prevEnd = t /\ f.stage = "place"
  BY <1>1, <1>4 DEF Frames
<1> HIDE DEF f
<1>10. /\ placed'[OpNow] = EntryIn(m, slot)
       /\ \A x \in Ops \ {OpNow} : placed'[x] = placed[x]
  BY <1>3 DEF RecordEntry, TypeOK
<1>11. EntryIn(m, slot) # NotPlaced /\ EntryIn(m, slot).end = t
  BY <1>3, RunAssumption DEF EntryIn, NotPlaced
<1>12. \A x \in Ops : placed[x] # NotPlaced => placed'[x] = placed[x]
  BY <1>1, <1>10
<1>13. FrameOK(f, placed')
  <2> DEFINE r == Route[Top.order]
  <2>1. r[Top.next] = OpNow
    BY DEF OpNow
  <2>2. \A j \in 1 .. Top.next : j = Top.next \/ j \in 1 .. (Top.next - 1)
    BY <1>5
  <2>3. \A j \in 1 .. (Top.next - 1) : placed[r[j]] # NotPlaced
    BY <1>4 DEF FrameOK
  <2>4. \A j \in 1 .. (Top.next - 1) : placed'[r[j]] # NotPlaced
    BY <1>5, <1>12, <2>3
  <2>5. placed'[r[Top.next]] # NotPlaced /\ placed'[r[Top.next]].end = t
    BY <1>10, <1>11, <2>1
  <2>6. \A j \in 1 .. Top.next : placed'[r[j]] # NotPlaced
    BY <2>2, <2>4, <2>5
  <2>7. f.next <= Len(r) + 1
    BY <1>5, <1>9
  <2>8. f.stage # "deps" /\ f.next - 1 = Top.next
    BY <1>5, <1>9
  <2> HIDE DEF t
  <2> QED BY <1>9, <2>5, <2>6, <2>7, <2>8 DEF FrameOK
<1> QED BY <1>1, <1>7, <1>8, <1>9, <1>12, <1>13, ProcessedHaveWork, GoingOnKeepsAnswers

LEMMA PlacedKeepsAnswers ==
    ASSUME CandidatesHaveWork, in \in Inputs, TypeOK, StackInv, AnswerInv, OrderPlaced
    PROVE  StackInv' /\ AnswerInv'
<1>1. /\ stack # <<>> /\ status = "running" /\ ~ Remaining /\ Return
      /\ completion' = [completion EXCEPT ![Top.order] = Top.prevEnd]
      /\ UNCHANGED <<in, placed, failed, processed, cursor, status>>
  BY DEF OrderPlaced, At
<1>2. /\ Top.order \in Orders /\ FrameOK(Top, placed) /\ failed[Top.order] = {}
      /\ Top.order \in processed
  BY <1>1, TopOfStack
<1>3. PICK o \in Orders : o = Top.order
  BY <1>2
<1>4. \A p \in processed : Route[p] # <<>>
  BY ProcessedHaveWork
<1> DEFINE r == Route[o]
           n == Top.next
<1>5. r \in Seq(Ops) /\ Len(r) \in Nat /\ n \in Nat \ {0} /\ n > Len(r) /\ n <= Len(r) + 1
  BY <1>1, <1>2, <1>3, OperationAt DEF FrameOK, Remaining
<1>6. r # <<>> /\ Len(r) # 0
  <2>1. r # <<>>
    BY <1>2, <1>3, <1>4
  <2> HIDE DEF r
  <2> QED BY <1>5, <2>1, EmptySeq
<1>7. n - 1 = Len(r) /\ n > 1
  <2> HIDE DEF r, n
  <2> QED BY <1>5, <1>6
<1>8. /\ \A j \in 1 .. (n - 1) : placed[r[j]] # NotPlaced
      /\ Top.prevEnd = placed[r[n - 1]].end
  BY <1>2, <1>3, <1>7 DEF FrameOK
<1>9. /\ \A j \in 1 .. Len(r) : placed[r[j]] # NotPlaced
      /\ Top.prevEnd = placed[r[Len(r)]].end
  BY <1>7, <1>8
<1>10. /\ completion'[o] = placed[r[Len(r)]].end
       /\ failed'[o] = {}
       /\ \A p \in Orders \ {o} : completion'[p] = completion[p] /\ failed'[p] = failed[p]
  BY <1>1, <1>2, <1>3, <1>9 DEF TypeOK
<1>11. Answered(o)'
  BY <1>1, <1>9, <1>10 DEF Answered
<1> QED BY <1>1, <1>3, <1>4, <1>10, <1>11, ReturnsKeepAnswers

LEMMA NothingAnsweredYet ==
    ASSUME TypeOK, StackInv, AnswerInv, ReproduceEntry
    PROVE  StackInv' /\ AnswerInv'
<1>1. /\ status = "frozen" /\ stack = <<>> /\ processed = {}
      /\ UNCHANGED <<in, completion, failed, processed, cursor, stack, status>>
  BY DEF ReproduceEntry, StackInv, AnswerInv
<1>2. Len(stack) = 0
  BY <1>1
<1>3. StackInv'
  BY <1>1, <1>2 DEF StackInv
<1> QED BY <1>1, <1>3 DEF AnswerInv, Queued

LEMMA RestsKeepAnswers ==
    ASSUME TypeOK, StackInv, AnswerInv, Rests
    PROVE  StackInv' /\ AnswerInv'
<1>1. UNCHANGED <<in, left, placed, completion, failed, processed, stack>>
  BY DEF Rests
<1>2. /\ status' = "frozen" => status = "frozen"
      /\ status' = "done" => stack = <<>> /\ cursor' = Len(in.queue)
      /\ \A i \in 1 .. cursor' : in.queue[i] \in processed
  <2>1. cursor \in Nat
    BY InputFields, LenProperties DEF TypeOK
  <2>2. \A i \in 1 .. cursor : in.queue[i] \in processed
    BY DEF AnswerInv
  <2>3. CASE status' = status /\ cursor' = cursor
    BY <2>2, <2>3 DEF AnswerInv
  <2>4. CASE /\ status' = status /\ status # "frozen" /\ status # "done"
             /\ cursor' = cursor + 1 /\ in.queue[cursor'] \in processed
    <3>1. \A i \in 1 .. cursor' : i \in 1 .. cursor \/ i = cursor'
      BY <2>1, <2>4
    <3> QED BY <2>2, <2>4, <3>1
  <2>5. CASE cursor' = cursor /\ (status' = "running" \/ status' = "error")
    BY <2>2, <2>5
  <2>6. CASE status' = "done" /\ cursor' = cursor /\ stack = <<>> /\ cursor = Len(in.queue)
    BY <2>2, <2>6
  <2> QED BY <2>3, <2>4, <2>5, <2>6 DEF Rests
<1>3. StackInv'
  BY <1>1, <1>2 DEF StackInv
<1>4. \A p \in processed : Answered(p)' <=> Answered(p)
  BY <1>1 DEF Answered
<1>5. AnswerInv'
  <2>1. /\ processed' \subseteq Queued'
        /\ status' = "frozen" => processed' = {}
        /\ \A p \in Orders \ processed' : failed'[p] = {} /\ completion'[p] = 0
        /\ \A i \in 1 .. cursor' : in'.queue[i] \in processed'
        /\ status' = "done" => stack' = <<>> /\ cursor' = Len(in'.queue)
    BY <1>1, <1>2 DEF AnswerInv, Queued
  <2>2. \A p \in processed' : Answered(p)' \/ \E i \in 1 .. Len(stack') : stack'[i].order = p
    BY <1>1, <1>4 DEF AnswerInv
  <2> QED BY <2>1, <2>2 DEF AnswerInv
<1> QED BY <1>3, <1>5

AnswersIInv == TypeOK /\ NumberedInv /\ in \in Inputs /\ StackInv /\ AnswerInv

LEMMA StepKeepsAnswers ==
    ASSUME CandidatesHaveWork, AnswersIInv, [Next]_vars
    PROVE  AnswersIInv'
<1>1. /\ TypeOK /\ NumberedInv /\ StackInv /\ AnswerInv /\ in \in Inputs
  BY DEF AnswersIInv
<1>2. TypeOK' /\ NumberedInv'
  BY <1>1, StepKeepsType
<1>3. in' = in
  BY DEF Next, vars, ReproduceEntry, Begin, NextOrder, ProcessDependency, ReleaseOrder,
         DependencyBlocks, KeepFrozen, ProcessPrerequisite, PrerequisiteBlocks, NoMachine,
         NoCycleTime, CalendarEnds, PlaceOperation, OrderPlaced, PullForward, NoPull,
         RunComplete, Unschedule
<1>4. StackInv' /\ AnswerInv'
  BY <1>1, KindsOfSteps, NothingAnsweredYet, PlacingKeepsAnswers, ReleaseKeepsAnswers,
     KeepingKeepsAnswers, PlacedKeepsAnswers, CallsKeepAnswers, GivesUpKeepsAnswers,
     RestsKeepAnswers
<1> QED BY <1>1, <1>2, <1>3, <1>4 DEF AnswersIInv

LEMMA AnswersBegin ==
    ASSUME Init
    PROVE  AnswersIInv
<1>1. TypeOK /\ NumberedInv /\ in \in Inputs
  BY InitKeepsType DEF Init
<1>2. Len(stack) = 0 /\ stack = <<>> /\ cursor = 0 /\ processed = {} /\ status = "frozen"
      /\ \A o \in Orders : failed[o] = {} /\ completion[o] = 0
  BY DEF Init
<1>3. StackInv
  BY <1>2 DEF StackInv
<1>4. AnswerInv
  BY <1>2 DEF AnswerInv
<1> QED BY <1>1, <1>3, <1>4 DEF AnswersIInv

(* ListScheduler.run: when it is done, every candidate is planned to its   *)
(* last operation or left with one reason, however processing was nested - *)
(* dependencies, prerequisites of other orders, pulled orders - and where  *)
(* these wait for one another in a cycle.                                  *)
THEOREM EveryOrderIsAnswered ==
    ASSUME CandidatesHaveWork
    PROVE  Spec => []EveryOrderAnswered
<1>1. Init => AnswersIInv
  BY AnswersBegin
<1>2. AnswersIInv /\ [Next]_vars => AnswersIInv'
  BY StepKeepsAnswers
<1>3. AnswersIInv => EveryOrderAnswered
  <2> SUFFICES ASSUME AnswersIInv, status = "done", NEW o \in Queued
               PROVE  \/ /\ failed[o] = {}
                         /\ \A i \in DOMAIN Route[o] : placed[Route[o][i]] # NotPlaced
                         /\ completion[o] = placed[Route[o][Len(Route[o])]].end
                      \/ Cardinality(failed[o]) = 1 /\ completion[o] = 0
    BY DEF EveryOrderAnswered
  <2>1. TypeOK /\ AnswerInv /\ stack = <<>> /\ cursor = Len(in.queue)
    BY DEF AnswersIInv, AnswerInv
  <2>2. in.queue \in Seq(Orders) /\ o \in Orders
    BY <2>1, InputFields, QueuedAreOrders DEF TypeOK
  <2>3. DOMAIN in.queue = 1 .. cursor
    BY <2>1, <2>2, LenProperties
  <2>4. o \in processed
    BY <2>1, <2>3 DEF AnswerInv, Queued
  <2>5. Len(stack) = 0
    BY <2>1
  <2>6. Answered(o)
    BY <2>1, <2>4, <2>5 DEF AnswerInv
  <2>7. DOMAIN Route[o] = 1 .. Len(Route[o])
    BY <2>2, RunAssumption, LenProperties
  <2> QED BY <2>6, <2>7 DEF Answered
<1> QED BY <1>1, <1>2, <1>3, PTL DEF Spec

-----------------------------------------------------------------------------
(* What an operation waits for                                             *)

(* No two orders share an operation, and no route has one twice.           *)
OperationsApart ==
    \A o, p \in Orders : \A i \in DOMAIN Route[o], j \in DOMAIN Route[p] :
        Route[o][i] = Route[p][j] => o = p /\ i = j

(* The previous schedule has one entry per operation.                      *)
PreviousOnce ==
    \A i \in Inputs : \A d, e \in i.previous : d.op = e.op => d = e

(* An operation is reproduced only together with those before it in its    *)
(* route, which it follows in the previous schedule.  Without this the     *)
(* property does not hold: see RoutesInSequence.                           *)
KeptInSequence ==
    \A o \in Orders : \A i, j \in DOMAIN Route[o] : i < j =>
        \A e \in in.previous : e.op = Route[o][j] /\ Kept(e) =>
            \E d \in in.previous : d.op = Route[o][i] /\ Kept(d) /\ d.end <= e.start

(* What is reproduced is placed as it was, and nothing else is before the  *)
(* run begins.                                                             *)
KeptEntry(e) == [machine |-> e.machine, start |-> e.start, end |-> e.end, kept |-> TRUE]

KeptInv ==
    /\ \A op \in Ops : placed[op].kept => \E e \in in.previous \ left : e.op = op /\ Kept(e)
    /\ \A e \in in.previous \ left : Kept(e) => placed[e.op] = KeptEntry(e)
    /\ status = "frozen" => \A op \in Ops : placed[op] = NotPlaced \/ placed[op].kept
    /\ status # "frozen" => left = {}
    /\ \A op \in Ops : placed[op].start <= placed[op].end

(* The operations up to n of an order have ended by t.                     *)
EndedBy(o, n, t, pl) ==
    \A j \in 1 .. n : pl[Route[o][j]] # NotPlaced /\ pl[Route[o][j]].end <= t

(* A call waits for all the operations it has passed and for everything    *)
(* its order depends on.                                                   *)
Waits(f, pl, co, deps) ==
    /\ EndedBy(f.order, f.next - 1, f.prevEnd, pl)
    /\ f.stage = "place" => \A d \in deps[f.order] : co[d] # 0 /\ co[d] <= f.release

WaitInv ==
    /\ \A o \in Orders : completion[o] # 0 => EndedBy(o, Len(Route[o]), completion[o], placed)
    /\ \A k \in 1 .. Len(stack) : Waits(stack[k], placed, completion, in.deps)

LEMMA EndedStays ==
    ASSUME NEW o \in Orders, NEW n, NEW t, NEW pl, NEW ql, EndedBy(o, n, t, pl),
           \A j \in 1 .. n : Route[o][j] \in Ops,
           \A x \in Ops : pl[x] # NotPlaced => ql[x] = pl[x]
    PROVE  EndedBy(o, n, t, ql)
BY DEF EndedBy

LEMMA WaitsStay ==
    ASSUME NEW f \in Frames, NEW g, Alike(g, f), NEW pl, NEW ql, FrameOK(f, pl),
           \A x \in Ops : pl[x] # NotPlaced => ql[x] = pl[x],
           NEW co, NEW done, NEW deps \in [Orders -> SUBSET Orders],
           \A d \in Orders : co[d] # 0 => done[d] = co[d],
           Waits(f, pl, co, deps)
    PROVE  Waits(g, ql, done, deps)
<1>1. f.order \in Orders /\ f.next \in Nat \ {0}
      /\ Route[f.order] \in Seq(Ops) /\ Len(Route[f.order]) \in Nat
  BY FrameFields, RunAssumption, LenProperties
<1>2. \A j \in 1 .. (f.next - 1) : Route[f.order][j] \in Ops
  <2>1. \A j \in 1 .. (f.next - 1) : j \in 1 .. Len(Route[f.order])
    BY <1>1 DEF FrameOK
  <2> QED BY <1>1, <2>1, ElementOfSeq
<1>3. EndedBy(f.order, f.next - 1, f.prevEnd, pl)
  BY DEF Waits
<1>4. EndedBy(f.order, f.next - 1, f.prevEnd, ql)
  <2> DEFINE n == f.next - 1
  <2>1. EndedBy(f.order, n, f.prevEnd, pl) /\ \A j \in 1 .. n : Route[f.order][j] \in Ops
    BY <1>2, <1>3
  <2> HIDE DEF n
  <2>2. EndedBy(f.order, n, f.prevEnd, ql)
    BY <1>1, <2>1, EndedStays
  <2> QED BY <2>2 DEF n
<1>5. f.stage = "place" => \A d \in deps[f.order] : done[d] # 0 /\ done[d] <= f.release
  BY <1>1 DEF Waits
<1>6. /\ g.order = f.order /\ g.stage = f.stage /\ g.next = f.next /\ g.prevEnd = f.prevEnd
      /\ g.release = f.release
  BY DEF Alike
<1> QED BY <1>4, <1>5, <1>6 DEF Waits

LEMMA NewFrameWaits ==
    ASSUME NEW o, NEW k, NEW pl, NEW co, NEW deps
    PROVE  Waits(Frame(o, k), pl, co, deps)
BY DEF Waits, EndedBy, Frame

(* A step that places nothing anew where something was, and takes no       *)
(* completion back, keeps the calls that stay as they are waiting.         *)
LEMMA StackWaits ==
    ASSUME TypeOK, StackInv, WaitInv, in' = in,
           \A x \in Ops : placed[x] # NotPlaced => placed'[x] = placed[x],
           \A d \in Orders : completion[d] # 0 => completion'[d] = completion[d],
           \A k \in 1 .. Len(stack') :
              \/ k \in 1 .. Len(stack) /\ Alike(stack'[k], stack[k])
              \/ Waits(stack'[k], placed', completion', in.deps),
           \A o \in Orders : completion'[o] # completion[o] =>
              EndedBy(o, Len(Route[o]), completion'[o], placed')
    PROVE  WaitInv'
<1>1. ASSUME NEW k \in 1 .. Len(stack') PROVE Waits(stack'[k], placed', completion', in.deps)
  <2>1. CASE k \in 1 .. Len(stack) /\ Alike(stack'[k], stack[k])
    <3>1. /\ stack[k] \in Frames /\ FrameOK(stack[k], placed)
          /\ Waits(stack[k], placed, completion, in.deps)
      BY <2>1, ElementOfSeq DEF TypeOK, StackInv, WaitInv
    <3>2. in.deps \in [Orders -> SUBSET Orders]
      BY InputFields DEF TypeOK
    <3> QED BY <2>1, <3>1, <3>2, WaitsStay
  <2> QED BY <2>1
<1>2. ASSUME NEW o \in Orders, completion'[o] # 0
      PROVE  EndedBy(o, Len(Route[o]), completion'[o], placed')
  <2>1. CASE completion'[o] = completion[o]
    <3>1. EndedBy(o, Len(Route[o]), completion[o], placed)
      BY <1>2, <2>1 DEF WaitInv
    <3>2. \A j \in 1 .. Len(Route[o]) : Route[o][j] \in Ops
      BY RunAssumption, ElementOfSeq
    <3> QED BY <2>1, <3>1, <3>2, EndedStays
  <2> QED BY <2>1
<1> QED BY <1>1, <1>2 DEF WaitInv

LEMMA KeptAsBefore ==
    ASSUME in' = in, NEW e
    PROVE  Kept(e)' <=> Kept(e)
BY DEF Kept, OrderLocked, SlotLocks, Available, Pins

LEMMA ReproduceKeepsKept ==
    ASSUME PreviousIsSound, PreviousOnce, TypeOK, NumberedInv, in \in Inputs, KeptInv,
           ReproduceEntry
    PROVE  KeptInv' /\ PrecedenceKept'
<1>1. status = "frozen" /\ status' = "frozen" /\ in' = in
  BY DEF ReproduceEntry
<1>2. PICK e \in left :
        /\ left' = left \ {e}
        /\ IF Kept(e) THEN placed' = [placed EXCEPT ![e.op] = KeptEntry(e)]
           ELSE placed' = placed
  BY DEF ReproduceEntry, KeptEntry
<1>3. e \in in.previous /\ e.op \in Ops /\ e.machine \in Machines /\ e.start \in Nat /\ e.end \in Nat
  BY FrozenSlotIs, InstantsAreNumbers DEF TypeOK
<1>4. e.start < e.end /\ \A d \in in.previous : d.op = e.op => d = e
  BY <1>3 DEF PreviousIsSound, PreviousOnce
<1>5. \A d : Kept(d)' <=> Kept(d)
  BY <1>1, KeptAsBefore
<1>6. \A x \in Ops : placed'[x] = IF x = e.op /\ Kept(e) THEN KeptEntry(e) ELSE placed[x]
  BY <1>2 DEF TypeOK
<1>7. KeptEntry(e).kept = TRUE /\ KeptEntry(e).start <= KeptEntry(e).end
  BY <1>3, <1>4 DEF KeptEntry
<1>8. \A d \in in.previous : d.op \in Ops
  BY InputFields DEF TypeOK, Entries
<1>9. \A x \in Ops : placed'[x] = NotPlaced \/ placed'[x].kept
  BY <1>1, <1>6, <1>7 DEF KeptInv
<1>10. ASSUME NEW x \in Ops, placed'[x].kept
       PROVE  \E d \in in.previous \ left' : d.op = x /\ Kept(d)
  <2>1. CASE x = e.op /\ Kept(e)
    BY <1>2, <1>3, <2>1
  <2>2. CASE ~ (x = e.op /\ Kept(e))
    <3>1. placed[x].kept
      BY <1>6, <1>10, <2>2
    <3> QED BY <1>2, <3>1 DEF KeptInv
  <2> QED BY <2>1, <2>2
<1>11. ASSUME NEW d \in in.previous \ left', Kept(d) PROVE placed'[d.op] = KeptEntry(d)
  <2>1. CASE d = e
    BY <1>3, <1>6, <1>11, <2>1
  <2>2. CASE d # e
    BY <1>2, <1>4, <1>6, <1>8, <1>11, <2>2 DEF KeptInv
  <2> QED BY <2>1, <2>2
<1>12. \A x \in Ops : placed'[x].start <= placed'[x].end
  BY <1>6, <1>7 DEF KeptInv
<1>13. KeptInv'
  BY <1>1, <1>5, <1>9, <1>10, <1>11, <1>12 DEF KeptInv
<1>14. PrecedenceKept'
  <2>1. \A o \in Orders : \A i \in DOMAIN Route[o] : Route[o][i] \in Ops
    BY RunAssumption, ElementOfSeq, LenProperties
  <2> QED BY <1>9, <2>1 DEF PrecedenceKept
<1> QED BY <1>13, <1>14

(* Nothing is placed or taken back.                                        *)
LEMMA ElsewhereKeepsKept ==
    ASSUME KeptInv, PrecedenceKept, UNCHANGED <<in, left, placed>>,
           status' = "frozen" => status = "frozen",
           status' # "frozen" => left = {}
    PROVE  KeptInv' /\ PrecedenceKept'
<1>1. \A d : Kept(d)' <=> Kept(d)
  BY KeptAsBefore
<1>2. KeptInv'
  BY <1>1 DEF KeptInv
<1>3. PrecedenceKept'
  BY DEF PrecedenceKept, EndsBefore
<1> QED BY <1>2, <1>3

LEMMA EarliestIs ==
    ASSUME TypeOK, stack # <<>>, Remaining
    PROVE  /\ Earliest \in Nat /\ FromWindow(Earliest) \in Nat /\ Earliest <= FromWindow(Earliest)
           /\ Top.release <= Earliest /\ Top.prevEnd <= Earliest
           /\ in.prereq[OpNow] # None => placed[in.prereq[OpNow]].end <= Earliest
<1>1. Earliest \in Instants /\ FromWindow(Earliest) \in Instants /\ Earliest <= FromWindow(Earliest)
  BY EarliestType, FromWindowType
<1>2. /\ in.prereq \in [Ops -> Ops \union {None}] /\ in.release \in [Orders -> Instants]
      /\ placed \in [Ops -> [machine : Machines \union {None}, start : Instants, end : Instants,
                             kept : BOOLEAN]]
      /\ OpNow \in Ops /\ Top.order \in Orders
  BY InputFields, OpNowIs DEF TypeOK
<1>3. Now \in Nat /\ Top.release \in Nat /\ Top.prevEnd \in Nat
  BY TopIs, FrameFields, RunAssumption, InstantsAreNumbers
<1>4. in.release[Top.order] \in Nat
  BY <1>2, InstantsAreNumbers
<1>5. in.prereq[OpNow] # None => placed[in.prereq[OpNow]].end \in Nat
  <2>1. in.prereq[OpNow] # None => placed[in.prereq[OpNow]].end \in Instants
    BY <1>2
  <2> QED BY <2>1, InstantsAreNumbers
<1> DEFINE w == IF in.prereq[OpNow] = None THEN in.release[Top.order]
                ELSE placed[in.prereq[OpNow]].end
<1>6. w \in Nat
  BY <1>4, <1>5
<1>7. Earliest = Later(Later(Later(Now, Top.release), Top.prevEnd), w)
  BY DEF Earliest
<1>8. in.prereq[OpNow] # None => w = placed[in.prereq[OpNow]].end
  OBVIOUS
<1> HIDE DEF w
<1>9. Top.release <= Earliest /\ Top.prevEnd <= Earliest /\ w <= Earliest
  BY <1>3, <1>6, <1>7 DEF Later
<1> QED BY <1>1, <1>8, <1>9, InstantsAreNumbers

PrecedenceIInv ==
    /\ AnswersIInv
    /\ KeptInSequence /\ KeptInv /\ WaitInv /\ PrecedenceKept

LEMMA TopWaits ==
    ASSUME TypeOK, StackInv, WaitInv, stack # <<>>
    PROVE  Waits(Top, placed, completion, in.deps)
BY TopOfStack DEF WaitInv

(* The calls below the one on top stay as they are.                        *)
LEMMA SetTopWaits ==
    ASSUME TypeOK, StackInv, WaitInv, stack # <<>>, NEW f \in Frames, SetTop(f),
           UNCHANGED <<in, completion>>,
           \A x \in Ops : placed[x] # NotPlaced => placed'[x] = placed[x],
           Waits(f, placed', completion', in.deps)
    PROVE  WaitInv'
<1>1. /\ Len(stack') = Len(stack) /\ stack'[Len(stack)] = f
      /\ \A k \in 1 .. (Len(stack) - 1) : stack'[k] = stack[k]
      /\ Len(stack) \in Nat
  BY SetTopIs, TopOfStack
<1>2. ASSUME NEW k \in 1 .. Len(stack')
      PROVE  \/ k \in 1 .. Len(stack) /\ Alike(stack'[k], stack[k])
             \/ Waits(stack'[k], placed', completion', in.deps)
  <2>1. CASE k = Len(stack)
    BY <1>1, <2>1
  <2>2. CASE k # Len(stack)
    <3>1. k \in 1 .. Len(stack) /\ k \in 1 .. (Len(stack) - 1)
      BY <1>1, <2>2
    <3> QED BY <1>1, <3>1 DEF Alike
  <2> QED BY <2>1, <2>2
<1> QED BY <1>2, StackWaits

LEMMA ReturnWaits ==
    ASSUME TypeOK, StackInv, WaitInv, stack # <<>>, Return, UNCHANGED <<in, placed>>,
           \A d \in Orders : completion[d] # 0 => completion'[d] = completion[d],
           \A o \in Orders : completion'[o] # completion[o] =>
              EndedBy(o, Len(Route[o]), completion'[o], placed')
    PROVE  WaitInv'
<1>1. /\ Len(stack') = Len(stack) - 1 /\ Len(stack) \in Nat
      /\ \A k \in 1 .. (Len(stack) - 1) : Alike(stack'[k], stack[k])
  BY ReturnIs, TopOfStack
<1>2. \A k \in 1 .. Len(stack') : k \in 1 .. Len(stack) /\ Alike(stack'[k], stack[k])
  BY <1>1
<1> QED BY <1>2, StackWaits

LEMMA CallsWait ==
    ASSUME TypeOK, StackInv, WaitInv, Calls
    PROVE  WaitInv'
<1>1. PICK o \in Queued \ processed, k \in Machines \union {None} : stack' = stack \o <<Frame(o, k)>>
  BY DEF Calls
<1>2. UNCHANGED <<in, placed, completion>>
  BY DEF Calls
<1>3. Frame(o, k) \in Frames
  BY QueuedAreOrders, FrameIs
<1>4. /\ Len(stack) \in Nat /\ Len(stack') = Len(stack) + 1
      /\ stack'[Len(stack) + 1] = Frame(o, k)
      /\ \A i \in 1 .. Len(stack) : stack'[i] = stack[i]
  BY <1>1, <1>3, PushIs
<1>5. \A i \in 1 .. Len(stack') : i \in 1 .. Len(stack) \/ i = Len(stack) + 1
  BY <1>4
<1>6. \A i \in 1 .. Len(stack') :
        \/ i \in 1 .. Len(stack) /\ Alike(stack'[i], stack[i])
        \/ Waits(stack'[i], placed', completion', in.deps)
  BY <1>4, <1>5, NewFrameWaits DEF Alike
<1> QED BY <1>2, <1>6, StackWaits

LEMMA ReleaseWaits ==
    ASSUME TypeOK, StackInv, WaitInv, ReleaseOrder
    PROVE  WaitInv'
<1>1. /\ stack # <<>> /\ DependenciesHold /\ Top.stage = "deps"
      /\ UNCHANGED <<in, placed, completion>>
  BY DEF ReleaseOrder, At
<1>2. PICK t \in {in.release[Top.order]} \union {completion[d] : d \in in.deps[Top.order]} :
        /\ \A d \in in.deps[Top.order] : completion[d] <= t
        /\ SetTop([Top EXCEPT !.stage = "place", !.release = t])
  BY DEF ReleaseOrder
<1>3. Top \in Frames /\ Top.order \in Orders /\ Waits(Top, placed, completion, in.deps)
  BY <1>1, TopOfStack, TopWaits
<1>4. t \in Instants
  <2>1. in.release \in [Orders -> Instants] /\ in.deps \in [Orders -> SUBSET Orders]
    BY InputFields DEF TypeOK
  <2> QED BY <1>2, <1>3, <2>1 DEF TypeOK
<1> DEFINE f == [Top EXCEPT !.stage = "place", !.release = t]
<1>5. f \in Frames
  BY <1>3, <1>4, FrameSteps
<1>6. f.order = Top.order /\ f.next = Top.next /\ f.prevEnd = Top.prevEnd /\ f.release = t
  BY <1>3 DEF Frames
<1>7. SetTop(f)
  BY <1>2
<1> HIDE DEF f
<1>8. Waits(f, placed', completion', in.deps)
  BY <1>1, <1>2, <1>3, <1>6 DEF Waits, DependenciesHold
<1> QED BY <1>1, <1>5, <1>7, <1>8, SetTopWaits

(* What was reproduced, or found in place, ends after what is before it.   *)
LEMMA FoundInSequence ==
    ASSUME TypeOK, KeptInSequence, KeptInv, PrecedenceKept, status # "frozen",
           NEW o \in Orders, NEW i \in DOMAIN Route[o], NEW j \in DOMAIN Route[o], j < i,
           placed[Route[o][i]] # NotPlaced
    PROVE  placed[Route[o][j]] # NotPlaced /\ placed[Route[o][j]].end <= placed[Route[o][i]].end
<1>1. /\ Route[o][i] \in Ops /\ Route[o][j] \in Ops /\ i \in Nat /\ j \in Nat
  BY RunAssumption, ElementOfSeq, LenProperties
<1>2. /\ placed[Route[o][i]].start \in Nat /\ placed[Route[o][i]].end \in Nat
      /\ placed[Route[o][j]].end \in Nat
  <2>1. /\ placed[Route[o][i]].start \in Instants /\ placed[Route[o][i]].end \in Instants
        /\ placed[Route[o][j]].end \in Instants
    BY <1>1 DEF TypeOK
  <2> QED BY <2>1, InstantsAreNumbers
<1>3. placed[Route[o][i]].start <= placed[Route[o][i]].end
  BY <1>1 DEF KeptInv
<1>4. CASE placed[Route[o][i]].kept
  <2>1. PICK e \in in.previous \ left : e.op = Route[o][i] /\ Kept(e)
    BY <1>1, <1>4 DEF KeptInv
  <2>2. PICK d \in in.previous : d.op = Route[o][j] /\ Kept(d) /\ d.end <= e.start
    BY <2>1 DEF KeptInSequence
  <2>3. left = {}
    BY DEF KeptInv
  <2>4. placed[Route[o][j]] = KeptEntry(d) /\ placed[Route[o][i]] = KeptEntry(e)
    BY <2>1, <2>2, <2>3 DEF KeptInv
  <2>5. placed[Route[o][j]].end <= placed[Route[o][i]].start /\ KeptEntry(d).kept = TRUE
    BY <2>2, <2>4 DEF KeptEntry
  <2> QED BY <1>2, <1>3, <2>4, <2>5 DEF NotPlaced
<1>5. CASE ~ placed[Route[o][i]].kept
  <2>1. j \in 1 .. (i - 1)
    <3>1. i \in Nat /\ j \in Nat \ {0}
      BY RunAssumption, LenProperties
    <3> QED BY <3>1
  <2>2. EndsBefore(Route[o][j], Route[o][i])
    BY <1>5, <2>1 DEF PrecedenceKept
  <2> QED BY <1>2, <1>3, <2>2 DEF EndsBefore
<1> QED BY <1>4, <1>5

LEMMA KeepingWaits ==
    ASSUME TypeOK, StackInv, KeptInSequence, KeptInv, WaitInv, PrecedenceKept, KeepFrozen
    PROVE  WaitInv'
<1>1. /\ stack # <<>> /\ status = "running" /\ Top.stage = "place" /\ Remaining
      /\ placed[OpNow] # NotPlaced
      /\ UNCHANGED <<in, placed, completion>>
  BY DEF KeepFrozen, At
<1> DEFINE t == placed[OpNow].end
           f == [Top EXCEPT !.next = @ + 1, !.prevEnd = t, !.forced = None]
           r == Route[Top.order]
<1>2. Top \in Frames /\ Top.order \in Orders /\ Waits(Top, placed, completion, in.deps)
  BY <1>1, TopOfStack, TopWaits
<1>3. /\ r \in Seq(Ops) /\ Len(r) \in Nat /\ Top.next \in Nat \ {0} /\ Top.next \in 1 .. Len(r)
      /\ OpNow \in Ops
  BY <1>1, OperationAt
<1>4. t \in Instants /\ t \in Nat
  <2>1. t \in Instants
    BY <1>3 DEF TypeOK
  <2> QED BY <2>1, InstantsAreNumbers
<1>5. SetTop(f)
  BY DEF KeepFrozen
<1>6. f \in Frames
  <2> HIDE DEF t
  <2> QED BY <1>2, <1>4, FrameSteps
<1>7. f.order = Top.order /\ f.next = Top.next + 1 /\ f.prevEnd = t /\ f.release = Top.release
  BY <1>2 DEF Frames
<1>8. r[Top.next] = OpNow /\ f.next - 1 = Top.next
  BY <1>3, <1>7 DEF OpNow
<1>9. ASSUME NEW j \in 1 .. Top.next PROVE placed[r[j]] # NotPlaced /\ placed[r[j]].end <= t
  <2>1. CASE j = Top.next
    BY <1>1, <1>4, <1>8, <2>1
  <2>2. CASE j # Top.next
    <3>1. j < Top.next /\ j \in DOMAIN r /\ Top.next \in DOMAIN r
      BY <1>3, <2>2, LenProperties
    <3>2. placed[r[Top.next]] # NotPlaced /\ placed[r[Top.next]].end = t
      BY <1>1, <1>8
    <3>3. status # "frozen"
      BY <1>1
    <3> HIDE DEF t
    <3> QED BY <1>2, <3>1, <3>2, <3>3, FoundInSequence
  <2> QED BY <2>1, <2>2
<1> HIDE DEF f, t
<1>10. EndedBy(f.order, f.next - 1, f.prevEnd, placed')
  BY <1>1, <1>7, <1>8, <1>9 DEF EndedBy
<1>11. Waits(f, placed', completion', in.deps)
  BY <1>1, <1>2, <1>7, <1>10 DEF Waits
<1> QED BY <1>1, <1>5, <1>6, <1>11, SetTopWaits

LEMMA PlacingKeepsPrecedence ==
    ASSUME OperationsApart, PrecedenceIInv, PlaceOperation
    PROVE  KeptInv' /\ WaitInv' /\ PrecedenceKept'
<1>1. /\ stack # <<>> /\ status = "running" /\ Top.stage = "place" /\ Remaining
      /\ placed[OpNow] = NotPlaced /\ ReadyToPlace /\ ~ PrerequisiteUnplaced
      /\ UNCHANGED <<in, left, completion, status>>
  BY DEF PlaceOperation, ReadyToPlace, AtUnplaced, At
<1>2. /\ TypeOK /\ NumberedInv /\ StackInv /\ KeptInv /\ WaitInv /\ PrecedenceKept
  BY DEF PrecedenceIInv, AnswersIInv
<1>3. PICK m \in Best : \E slot \in Options(m) :
        /\ RecordEntry(OpNow, m, slot)
        /\ SetTop([Top EXCEPT !.next = @ + 1, !.prevEnd = slot.end, !.forced = None,
                              !.touched = Append(@, m)])
  BY DEF PlaceOperation
<1> PICK slot \in Options(m) :
        /\ RecordEntry(OpNow, m, slot)
        /\ SetTop([Top EXCEPT !.next = @ + 1, !.prevEnd = slot.end, !.forced = None,
                              !.touched = Append(@, m)])
  BY <1>3
<1>4. /\ m \in Machines /\ OpNow \in Ops /\ slot \in Slots
      /\ FromWindow(Earliest) <= slot.start /\ slot.start <= slot.end
  BY <1>1, <1>2, OptionIsFree
<1> DEFINE t == slot.end
           f == [Top EXCEPT !.next = @ + 1, !.prevEnd = t, !.forced = None,
                            !.touched = Append(@, m)]
           r == Route[Top.order]
           op == OpNow
<1>5. /\ Top \in Frames /\ Top.order \in Orders /\ Waits(Top, placed, completion, in.deps)
  BY <1>1, <1>2, TopOfStack, TopWaits
<1>6. /\ r \in Seq(Ops) /\ Len(r) \in Nat /\ Top.next \in Nat \ {0} /\ Top.next \in 1 .. Len(r)
      /\ \A j \in 1 .. (Top.next - 1) : r[j] \in Ops
      /\ r[Top.next] = op
  BY <1>1, <1>2, OperationAt DEF OpNow
<1>7. t \in Instants /\ slot.start \in Nat /\ t \in Nat
  BY <1>4, SlotFields, InstantsAreNumbers
<1>8. /\ placed'[op] = EntryIn(m, slot)
      /\ \A x \in Ops \ {op} : placed'[x] = placed[x]
      /\ EntryIn(m, slot) # NotPlaced /\ EntryIn(m, slot).kept = FALSE
      /\ EntryIn(m, slot).start = slot.start /\ EntryIn(m, slot).end = t
  BY <1>2, <1>4, RunAssumption DEF RecordEntry, TypeOK, EntryIn, NotPlaced
<1>9. \A x \in Ops : placed[x] # NotPlaced => placed'[x] = placed[x]
  BY <1>1, <1>8
<1>10. /\ Earliest \in Nat /\ Earliest <= slot.start
       /\ Top.release <= Earliest /\ Top.prevEnd <= Earliest
       /\ in.prereq[op] # None => placed[in.prereq[op]].end <= Earliest
  <2>1. /\ Earliest \in Nat /\ FromWindow(Earliest) \in Nat /\ Earliest <= FromWindow(Earliest)
        /\ Top.release <= Earliest /\ Top.prevEnd <= Earliest
        /\ in.prereq[op] # None => placed[in.prereq[op]].end <= Earliest
    BY <1>1, <1>2, EarliestIs
  <2>2. Earliest <= slot.start
    BY <1>4, <1>7, <2>1
  <2> QED BY <2>1, <2>2
<1>11. \A x \in Ops : placed[x].end \in Nat
  <2>1. \A x \in Ops : placed[x].end \in Instants
    BY <1>2 DEF TypeOK
  <2> QED BY <2>1, InstantsAreNumbers
<1>12. Top.prevEnd \in Nat /\ Top.release \in Nat
  BY <1>5, FrameFields, InstantsAreNumbers
<1> HIDE DEF op
<1>13. KeptInv'
  <2>1. \A e : Kept(e)' <=> Kept(e)
    BY <1>1, KeptAsBefore
  <2>2. ASSUME NEW x \in Ops, placed'[x].kept
        PROVE  \E e \in in.previous \ left : e.op = x /\ Kept(e)
    <3>1. x # op
      BY <1>8, <2>2
    <3>2. placed[x].kept
      BY <1>8, <2>2, <3>1
    <3> QED BY <1>2, <3>2 DEF KeptInv
  <2>3. ASSUME NEW e \in in.previous \ left, Kept(e) PROVE placed'[e.op] = KeptEntry(e)
    <3>1. placed[e.op] = KeptEntry(e)
      BY <1>2, <2>3 DEF KeptInv
    <3>2. placed[e.op] # NotPlaced
      BY <3>1 DEF KeptEntry, NotPlaced
    <3>3. e.op \in Ops
      BY <1>2, InputFields DEF TypeOK, Entries
    <3> QED BY <1>9, <3>1, <3>2, <3>3
  <2>4. \A x \in Ops : placed'[x].start <= placed'[x].end
    BY <1>2, <1>4, <1>8 DEF KeptInv
  <2>5. status' # "frozen" /\ left = {}
    BY <1>1, <1>2 DEF KeptInv
  <2> QED BY <1>1, <2>1, <2>2, <2>3, <2>4, <2>5 DEF KeptInv
<1>14. EndedBy(Top.order, Top.next - 1, Top.prevEnd, placed)
  BY <1>5 DEF Waits
<1>15. WaitInv'
  <2>1. f \in Frames
    <3> HIDE DEF t
    <3> QED BY <1>4, <1>5, <1>7, FrameSteps
  <2>2. SetTop(f)
    OBVIOUS
  <2>3. f.order = Top.order /\ f.next = Top.next + 1 /\ f.prevEnd = t /\ f.release = Top.release
    BY <1>5 DEF Frames
  <2>4. f.next - 1 = Top.next
    BY <1>6, <2>3
  <2>5. ASSUME NEW j \in 1 .. Top.next PROVE placed'[r[j]] # NotPlaced /\ placed'[r[j]].end <= t
    <3>1. CASE j = Top.next
      BY <1>6, <1>7, <1>8, <3>1
    <3>2. CASE j # Top.next
      <4>1. j \in 1 .. (Top.next - 1) /\ r[j] \in Ops
        BY <1>6, <3>2
      <4>2. placed[r[j]] # NotPlaced /\ placed[r[j]].end <= Top.prevEnd
        BY <1>14, <4>1 DEF EndedBy
      <4>3. placed[r[j]].end \in Nat /\ placed'[r[j]] = placed[r[j]]
        BY <1>9, <1>11, <4>1, <4>2
      <4> QED BY <1>4, <1>7, <1>10, <1>12, <4>2, <4>3
    <3> QED BY <3>1, <3>2
  <2> HIDE DEF f, t
  <2>6. EndedBy(f.order, f.next - 1, f.prevEnd, placed')
    BY <2>3, <2>4, <2>5 DEF EndedBy
  <2>7. Waits(f, placed', completion', in.deps)
    BY <1>1, <1>5, <2>3, <2>6 DEF Waits
  <2> QED BY <1>1, <1>2, <1>9, <2>1, <2>2, <2>7, SetTopWaits
<1>16. PrecedenceKept'
  <2>1. in.deps \in [Orders -> SUBSET Orders] /\ in.prereq \in [Ops -> Ops \union {None}]
    BY <1>2, InputFields DEF TypeOK
  <2>2. \A o \in Orders : \A i \in DOMAIN Route[o] : Route[o][i] \in Ops
    BY RunAssumption, ElementOfSeq, LenProperties
  <2> DEFINE EndsFirst(p, x) == placed'[p] # NotPlaced /\ placed'[p].end <= placed'[x].start
  <2>3. ASSUME NEW x \in Ops, x # op, NEW p \in Ops, EndsBefore(p, x)
        PROVE  EndsFirst(p, x)
    BY <1>8, <1>9, <2>3 DEF EndsBefore
  <2>4. ASSUME NEW p \in Ops, placed[p] # NotPlaced, placed[p].end <= slot.start
        PROVE  EndsFirst(p, op)
    BY <1>8, <1>9, <2>4
  <2>5. ASSUME NEW o \in Orders, NEW i \in DOMAIN Route[o],
               placed'[Route[o][i]] # NotPlaced, ~ placed'[Route[o][i]].kept
        PROVE  /\ \A j \in 1 .. (i - 1) : EndsFirst(Route[o][j], Route[o][i])
               /\ \A d \in in.deps[o] : \A j \in DOMAIN Route[d] : EndsFirst(Route[d][j], Route[o][i])
               /\ in.prereq[Route[o][i]] # None => EndsFirst(in.prereq[Route[o][i]], Route[o][i])
    <3>1. i \in Nat /\ \A j \in 1 .. (i - 1) : j \in DOMAIN Route[o]
      BY RunAssumption, LenProperties
    <3>2. CASE Route[o][i] # op
      <4>1. placed[Route[o][i]] # NotPlaced /\ ~ placed[Route[o][i]].kept
        BY <1>8, <2>2, <2>5, <3>2
      <4>2. /\ \A j \in 1 .. (i - 1) : EndsBefore(Route[o][j], Route[o][i])
            /\ \A d \in in.deps[o] : \A j \in DOMAIN Route[d] : EndsBefore(Route[d][j], Route[o][i])
            /\ in.prereq[Route[o][i]] # None => EndsBefore(in.prereq[Route[o][i]], Route[o][i])
        BY <1>2, <4>1 DEF PrecedenceKept
      <4> HIDE DEF EndsFirst
      <4>3. Route[o][i] \in Ops /\ \A j \in 1 .. (i - 1) : Route[o][j] \in Ops
        BY <2>2, <3>1
      <4>4. \A d \in in.deps[o] : \A j \in DOMAIN Route[d] : Route[d][j] \in Ops
        BY <2>1, <2>2
      <4>5. in.prereq[Route[o][i]] # None => in.prereq[Route[o][i]] \in Ops
        BY <2>1, <4>3
      <4> QED BY <2>3, <3>2, <4>2, <4>3, <4>4, <4>5
    <3>3. CASE Route[o][i] = op
      <4>1. o = Top.order /\ i = Top.next
        <5>1. Top.next \in DOMAIN Route[Top.order] /\ Route[Top.order][Top.next] = op
          BY <1>6, LenProperties
        <5> QED BY <1>5, <3>3, <5>1 DEF OperationsApart
      <4>2. ASSUME NEW j \in 1 .. (i - 1)
            PROVE  /\ Route[o][j] \in Ops
                   /\ placed[Route[o][j]] # NotPlaced /\ placed[Route[o][j]].end <= slot.start
        <5>1. Route[o][j] \in Ops
          BY <1>6, <4>1
        <5>2. placed[Route[o][j]] # NotPlaced /\ placed[Route[o][j]].end <= Top.prevEnd
          BY <1>14, <4>1 DEF EndedBy
        <5>3. placed[Route[o][j]].end \in Nat
          BY <1>11, <5>1
        <5> QED BY <1>7, <1>10, <1>12, <5>1, <5>2, <5>3
      <4>3. ASSUME NEW d \in in.deps[o], NEW j \in DOMAIN Route[d]
            PROVE  /\ Route[d][j] \in Ops
                   /\ placed[Route[d][j]] # NotPlaced /\ placed[Route[d][j]].end <= slot.start
        <5>1. d \in Orders /\ Route[d][j] \in Ops /\ j \in 1 .. Len(Route[d])
          BY <2>1, <2>2, RunAssumption, LenProperties
        <5>2. completion[d] # 0 /\ completion[d] <= Top.release
          BY <1>1, <1>5, <4>1 DEF Waits
        <5>3. EndedBy(d, Len(Route[d]), completion[d], placed)
          BY <1>2, <5>1, <5>2 DEF WaitInv
        <5>4. placed[Route[d][j]] # NotPlaced /\ placed[Route[d][j]].end <= completion[d]
          BY <5>1, <5>3 DEF EndedBy
        <5>5. completion[d] \in Nat /\ placed[Route[d][j]].end \in Nat
          <6>1. completion[d] \in Instants
            BY <1>2, <5>1 DEF TypeOK
          <6> QED BY <1>11, <5>1, <6>1, InstantsAreNumbers
        <5> QED BY <1>7, <1>10, <1>12, <5>1, <5>2, <5>4, <5>5
      <4>4. ASSUME in.prereq[op] # None
            PROVE  /\ in.prereq[op] \in Ops
                   /\ placed[in.prereq[op]] # NotPlaced /\ placed[in.prereq[op]].end <= slot.start
        <5>1. in.prereq[op] \in Ops
          BY <1>4, <2>1, <4>4 DEF op
        <5>2. placed[in.prereq[op]] # NotPlaced
          BY <1>1, <4>4 DEF PrerequisiteUnplaced, op
        <5> QED BY <1>7, <1>10, <1>11, <4>4, <5>1, <5>2
      <4> HIDE DEF Before
      <4> QED BY <2>4, <3>3, <4>2, <4>3, <4>4
    <3> QED BY <3>2, <3>3
  <2> QED BY <1>1, <2>5 DEF PrecedenceKept, EndsBefore
<1> QED BY <1>13, <1>15, <1>16

LEMMA PlacedWaits ==
    ASSUME TypeOK, StackInv, WaitInv, OrderPlaced
    PROVE  WaitInv'
<1>1. /\ stack # <<>> /\ ~ Remaining /\ Return
      /\ completion' = [completion EXCEPT ![Top.order] = Top.prevEnd]
      /\ UNCHANGED <<in, placed>>
  BY DEF OrderPlaced, At
<1>2. /\ Top.order \in Orders /\ FrameOK(Top, placed) /\ completion[Top.order] = 0
      /\ Waits(Top, placed, completion, in.deps)
  BY <1>1, TopOfStack, TopWaits
<1>3. /\ completion'[Top.order] = Top.prevEnd
      /\ \A o \in Orders \ {Top.order} : completion'[o] = completion[o]
  BY <1>1, <1>2 DEF TypeOK
<1>4. Top.next - 1 = Len(Route[Top.order])
  <2>1. Top.next \in Nat /\ Len(Route[Top.order]) \in Nat
    BY <1>1, OperationAt
  <2> QED BY <1>1, <1>2, <2>1 DEF FrameOK, Remaining
<1>5. EndedBy(Top.order, Len(Route[Top.order]), Top.prevEnd, placed')
  BY <1>1, <1>2, <1>4 DEF Waits
<1>6. \A d \in Orders : completion[d] # 0 => completion'[d] = completion[d]
  BY <1>2, <1>3
<1>7. \A o \in Orders : completion'[o] # completion[o] =>
         EndedBy(o, Len(Route[o]), completion'[o], placed')
  BY <1>3, <1>5
<1> QED BY <1>1, <1>6, <1>7, ReturnWaits

LEMMA StepKeepsPrecedence ==
    ASSUME CandidatesHaveWork, OperationsApart, PreviousIsSound, PreviousOnce,
           PrecedenceIInv, [Next]_vars
    PROVE  PrecedenceIInv'
<1>1. /\ AnswersIInv /\ TypeOK /\ NumberedInv /\ in \in Inputs /\ StackInv /\ AnswerInv
      /\ KeptInSequence /\ KeptInv /\ WaitInv /\ PrecedenceKept
  BY DEF PrecedenceIInv, AnswersIInv
<1>2. AnswersIInv'
  BY <1>1, StepKeepsAnswers
<1>3. in' = in
  BY DEF Next, vars, ReproduceEntry, Begin, NextOrder, ProcessDependency, ReleaseOrder,
         DependencyBlocks, KeepFrozen, ProcessPrerequisite, PrerequisiteBlocks, NoMachine,
         NoCycleTime, CalendarEnds, PlaceOperation, OrderPlaced, PullForward, NoPull,
         RunComplete, Unschedule
<1>4. KeptInSequence'
  <2>1. \A e : Kept(e)' <=> Kept(e)
    BY <1>3, KeptAsBefore
  <2> QED BY <1>1, <1>3, <2>1 DEF KeptInSequence
<1>5. CASE ReproduceEntry
  <2>1. KeptInv' /\ PrecedenceKept'
    BY <1>1, <1>5, ReproduceKeepsKept
  <2>2. stack = <<>> /\ stack' = stack /\ completion' = completion
    BY <1>1, <1>5 DEF ReproduceEntry, StackInv
  <2>3. \A o \in Orders : completion[o] = 0
    BY <1>1, <1>5 DEF ReproduceEntry, AnswerInv
  <2>4. WaitInv'
    BY <2>2, <2>3 DEF WaitInv
  <2> QED BY <1>2, <1>4, <2>1, <2>4 DEF PrecedenceIInv
<1>6. CASE PlaceOperation
  BY <1>2, <1>4, <1>6, PlacingKeepsPrecedence DEF PrecedenceIInv
<1>7. CASE ReleaseOrder \/ KeepFrozen \/ OrderPlaced \/ Calls \/ GivesUp \/ Rests
  <2>1. UNCHANGED <<in, left, placed>> /\ (status' = "frozen" => status = "frozen")
        /\ (status' # "frozen" => left = {})
    BY <1>1, <1>7 DEF ReleaseOrder, KeepFrozen, OrderPlaced, Calls, GivesUp, Unschedule, Rests,
                      KeptInv
  <2>2. KeptInv' /\ PrecedenceKept'
    BY <1>1, <2>1, ElsewhereKeepsKept
  <2>3. ASSUME GivesUp PROVE WaitInv'
    <3>1. stack # <<>> /\ Return /\ UNCHANGED <<in, placed, completion>>
      BY <2>3 DEF GivesUp, Unschedule
    <3> QED BY <1>1, <3>1, ReturnWaits
  <2>4. ASSUME Rests PROVE WaitInv'
    BY <1>1, <2>4 DEF Rests, WaitInv
  <2>5. WaitInv'
    BY <1>1, <1>7, <2>3, <2>4, ReleaseWaits, KeepingWaits, PlacedWaits, CallsWait
  <2> QED BY <1>2, <1>4, <2>2, <2>5 DEF PrecedenceIInv
<1> QED BY <1>1, <1>5, <1>6, <1>7, KindsOfSteps

(* rule_based.py: new work starts after the operations before it, after    *)
(* everything its order depends on and after its prerequisite, whichever   *)
(* order the queue, the nested calls and the pulls take - for a run that   *)
(* reproduces no operation without those before it.                        *)
THEOREM NothingStartsEarly ==
    ASSUME CandidatesHaveWork, OperationsApart, PreviousIsSound, PreviousOnce
    PROVE  Spec /\ KeptInSequence => []PrecedenceKept
<1>1. Init /\ KeptInSequence => PrecedenceIInv
  <2> SUFFICES ASSUME Init, KeptInSequence PROVE PrecedenceIInv
    OBVIOUS
  <2>1. AnswersIInv
    BY AnswersBegin
  <2>2. /\ Len(stack) = 0 /\ status = "frozen" /\ in.previous \ left = {}
        /\ \A o \in Orders : completion[o] = 0
        /\ \A x \in Ops : placed[x] = NotPlaced
    BY DEF Init
  <2>3. NotPlaced.kept = FALSE /\ NotPlaced.start <= NotPlaced.end
    BY DEF NotPlaced
  <2>4. KeptInv
    <3>1. \A e \in in.previous \ left : Kept(e) => placed[e.op] = KeptEntry(e)
      BY <2>2
    <3>2. \A x \in Ops : ~ placed[x].kept /\ placed[x].start <= placed[x].end
      BY <2>2, <2>3
    <3> QED BY <2>2, <3>1, <3>2 DEF KeptInv
  <2>5. WaitInv
    BY <2>2 DEF WaitInv
  <2>6. PrecedenceKept
    <3>1. \A o \in Orders : \A i \in DOMAIN Route[o] : Route[o][i] \in Ops
      BY RunAssumption, ElementOfSeq, LenProperties
    <3> QED BY <2>2, <3>1 DEF PrecedenceKept
  <2> QED BY <2>1, <2>4, <2>5, <2>6 DEF PrecedenceIInv
<1>2. PrecedenceIInv /\ [Next]_vars => PrecedenceIInv'
  BY StepKeepsPrecedence
<1>3. PrecedenceIInv => PrecedenceKept
  BY DEF PrecedenceIInv
<1> QED BY <1>1, <1>2, <1>3, PTL DEF Spec

-----------------------------------------------------------------------------
(* Setups suffice                                                          *)

(* Every job has a setup family (see successor_setup_holds: before the     *)
(* first reproduced entry a job without one is let in whatever the         *)
(* machine's setup is).                                                    *)
JobsHaveFamilies == \A op \in Ops : Family[op] # NoFamily

(* p is the last slot that starts before s, or there is none.              *)
FollowsIn(tl, p, s) ==
    IF p = NoSlot THEN \A q \in tl.slots : ~ (q.start < s.start)
    ELSE /\ p \in tl.slots /\ p.start < s.start
         /\ \A q \in tl.slots : q.start < s.start => q.start <= p.start

LastIn(tl, p) ==
    IF p = NoSlot THEN tl.slots = {}
    ELSE p \in tl.slots /\ \A q \in tl.slots : q.start <= p.start

(* The recorded setup of s suffices after a job of a family, for the       *)
(* reason it was recorded with.                                            *)
Enough(s, family) ==
    \/ s.basis = "full" /\ s.setup >= Setup[s.op]
    \/ s.basis = "same" /\ SharesSetup(s.op, family)
    \/ s.basis = "frozen" /\ s.setup >= SetupMinutes(s.op, family)

(* A gap lies between two slots that follow each other.                    *)
Linked(tl) ==
    \A g \in tl.gaps : /\ g.next \in tl.slots /\ g.next.start = g.end
                       /\ FollowsIn(tl, g.prev, g.next)

(* No reproduced entry began before the machine is free.                   *)
Ordinary(tl) == \A s \in tl.slots : s.start >= tl.floor

Suffices(tl) ==
    \A p \in tl.slots \union {NoSlot} : \A s \in tl.slots :
        FollowsIn(tl, p, s) => Enough(s, FamilyAfter(p, tl.family))

TailKnown(tl) ==
    \A p \in tl.slots \union {NoSlot} :
        LastIn(tl, p) => tl.tailFamily = FamilyAfter(p, tl.family)

Prepared(tl) ==
    /\ tl.tailEnd = tl.floor \/ \E s \in tl.slots : s.end = tl.tailEnd
    /\ Linked(tl)
    /\ Ordinary(tl) => Suffices(tl) /\ TailKnown(tl)

(* What find_slot sees to before it returns a slot, and the sorting of the *)
(* previous schedule for an entry that is reproduced.                      *)
WellPut(tl, slot) ==
    /\ Enough(slot, FamilyAfter(Before(tl, slot.start), tl.family))
    /\ After(tl, slot.start) # NoSlot => Enough(After(tl, slot.start), Family[slot.op])
    /\ After(tl, slot.start) # NoSlot \/ slot.start >= tl.tailEnd

(* Slots that start together are the same.                                 *)
LEMMA StartsApart ==
    ASSUME NEW m \in Machines, NEW tl \in Timelines, Booked(m, tl)
    PROVE  \A s, q \in tl.slots :
              /\ s.start \in Nat /\ s.end \in Nat /\ s.start < s.end
              /\ s.end <= tl.tailEnd /\ s # NoSlot /\ s \in Slots
              /\ s.start = q.start => s = q
<1>1. tl.slots \subseteq Slots
  BY TimelineFields
<1>2. \A s \in tl.slots : /\ s.start \in Nat /\ s.end \in Nat /\ s.start < s.end
                          /\ s.end <= tl.tailEnd /\ s # NoSlot /\ s \in Slots
  BY <1>1, SlotFields, NoSlotAssumption DEF Booked
<1>3. \A s, q \in tl.slots : s # q => s.end <= q.start \/ q.end <= s.start
  BY DEF Booked, SlotsDisjoint
<1> QED BY <1>2, <1>3

(* A new slot comes between the slots around it, and leaves the others     *)
(* with the neighbours they have.                                          *)
LEMMA Neighbours ==
    ASSUME NEW m \in Machines, NEW tl \in Timelines, Numbered(tl), Booked(m, tl),
           NEW slot \in Slots, FreeFor(tl, slot), NEW new, new.slots = tl.slots \union {slot},
           NEW prev, NEW next, prev = Before(tl, slot.start), next = After(tl, slot.start)
    PROVE  /\ prev \in tl.slots \union {NoSlot} /\ next \in tl.slots \union {NoSlot}
           /\ FollowsIn(new, prev, slot)
           /\ next # NoSlot => FollowsIn(new, slot, next) /\ next.start > slot.start
           /\ \A q \in tl.slots : q.start > slot.start => next # NoSlot
           /\ \A p \in new.slots \union {NoSlot} :
                /\ FollowsIn(new, p, slot) => p = prev
                /\ next # NoSlot /\ FollowsIn(new, p, next) => p = slot
                /\ \A s \in tl.slots \ {next} :
                      /\ FollowsIn(new, p, s) => p # slot /\ FollowsIn(tl, p, s)
                      /\ p # slot /\ FollowsIn(tl, p, s) => FollowsIn(new, p, s)
<1>1. /\ slot.start \in Nat /\ slot.end \in Nat /\ slot.start \in Instants /\ slot.start < slot.end
      /\ tl.slots \subseteq Slots /\ slot # NoSlot
  BY TimelineFields, SlotFields, NoSlotAssumption DEF FreeFor
<1>2. \A s, q \in tl.slots :
        /\ s.start \in Nat /\ s.end \in Nat /\ s.start < s.end /\ s # NoSlot
        /\ s.start = q.start => s = q
  BY StartsApart
<1>3. \A s \in tl.slots : s.start # slot.start
  BY <1>1, <1>2 DEF FreeFor
<1>4. /\ prev # NoSlot => prev \in tl.slots /\ prev.start < slot.start
      /\ \A q \in tl.slots : q.start <= slot.start => prev # NoSlot /\ q.start <= prev.start
  <2>1. /\ prev # NoSlot => prev \in tl.slots /\ prev.start <= slot.start
        /\ \A q \in tl.slots : q.start <= slot.start => prev # NoSlot /\ q.start <= prev.start
    BY <1>1, BeforeIs DEF SlotsUntil
  <2> QED BY <1>1, <1>2, <1>3, <2>1
<1>5. /\ next # NoSlot => next \in tl.slots /\ next.start > slot.start
      /\ \A q \in tl.slots : q.start > slot.start => next # NoSlot /\ next.start <= q.start
  BY <1>1, AfterIs DEF SlotsAfter
<1>6. \A q \in new.slots : q \in tl.slots \/ q = slot
  OBVIOUS
<1>7. FollowsIn(new, prev, slot)
  BY <1>1, <1>2, <1>4, <1>6 DEF FollowsIn
<1>8. next # NoSlot => FollowsIn(new, slot, next)
  BY <1>1, <1>2, <1>5, <1>6 DEF FollowsIn
<1>9. ASSUME NEW p \in new.slots \union {NoSlot}, FollowsIn(new, p, slot)
      PROVE  p = prev
  BY <1>1, <1>2, <1>4, <1>6, <1>9 DEF FollowsIn
<1>10. ASSUME NEW p \in new.slots \union {NoSlot}, next # NoSlot, FollowsIn(new, p, next)
       PROVE  p = slot
  BY <1>1, <1>2, <1>3, <1>5, <1>6, <1>10 DEF FollowsIn
<1>11. ASSUME NEW p \in new.slots \union {NoSlot}, NEW s \in tl.slots \ {next}
       PROVE  /\ FollowsIn(new, p, s) => p # slot /\ FollowsIn(tl, p, s)
              /\ p # slot /\ FollowsIn(tl, p, s) => FollowsIn(new, p, s)
  <2>1. s.start > slot.start => next # NoSlot /\ next.start < s.start /\ next \in tl.slots
    BY <1>2, <1>5
  <2>2. FollowsIn(new, p, s) => p # slot
    BY <1>1, <1>2, <1>5, <2>1 DEF FollowsIn
  <2>3. p # slot /\ p # NoSlot => p \in tl.slots
    BY <1>6
  <2>4. FollowsIn(new, p, s) => FollowsIn(tl, p, s)
    BY <2>2, <2>3 DEF FollowsIn
  <2>5. ASSUME p # slot, FollowsIn(tl, p, s), slot.start < s.start
        PROVE  p # NoSlot /\ slot.start <= p.start
    BY <1>1, <1>2, <1>5, <2>1, <2>3, <2>5 DEF FollowsIn
  <2>6. p # slot /\ FollowsIn(tl, p, s) => FollowsIn(new, p, s)
    BY <1>6, <2>3, <2>5 DEF FollowsIn
  <2> QED BY <2>2, <2>4, <2>6
<1>12. prev \in tl.slots \union {NoSlot} /\ next \in tl.slots \union {NoSlot}
  BY <1>4, <1>5
<1> QED BY <1>5, <1>7, <1>8, <1>9, <1>10, <1>11, <1>12

LEMMA InsertKeepsPrepared ==
    ASSUME NEW m \in Machines, NEW tl \in Timelines, Numbered(tl), Booked(m, tl), Prepared(tl),
           NEW slot \in Slots, FreeFor(tl, slot),
           Ordinary(tl) /\ slot.start >= tl.floor => WellPut(tl, slot)
    PROVE  Prepared(Insert(m, tl, slot))
<1> DEFINE prev == Before(tl, slot.start)
           next == After(tl, slot.start)
           from == IF prev = NoSlot THEN tl.floor ELSE Later(prev.end, tl.floor)
           to == IF next = NoSlot THEN slot.end ELSE next.start
           new == Insert(m, tl, slot)
<1>1. /\ slot.start \in Nat /\ slot.end \in Nat /\ slot.start < slot.end /\ slot.op \in Ops
      /\ tl.floor \in Nat /\ tl.tailEnd \in Nat /\ slot # NoSlot /\ tl.gaps \subseteq Gaps
  BY TimelineFields, SlotFields, NoSlotAssumption DEF FreeFor
<1>2. \A s, q \in tl.slots :
        /\ s.start \in Nat /\ s.end \in Nat /\ s.start < s.end /\ s.end <= tl.tailEnd
        /\ s # NoSlot /\ s \in Slots
        /\ s.start = q.start => s = q
  BY StartsApart
<1>3. /\ new.slots = tl.slots \union {slot} /\ new.floor = tl.floor /\ new.family = tl.family
      /\ new.tailEnd = Later(tl.tailEnd, slot.end) /\ new.tailFamily = TailFamily(tl, slot)
      /\ new.gaps = (tl.gaps \ Consumed(tl, slot, next))
                    \union NewGap(m, from, slot.start, prev, slot)
                    \union NewGap(m, slot.end, to, slot, next)
  BY InsertIs
<1> HIDE DEF new
<1>4. /\ prev \in tl.slots \union {NoSlot} /\ next \in tl.slots \union {NoSlot}
      /\ FollowsIn(new, prev, slot)
      /\ next # NoSlot => FollowsIn(new, slot, next) /\ next.start > slot.start
      /\ \A q \in tl.slots : q.start > slot.start => next # NoSlot
      /\ \A p \in new.slots \union {NoSlot} :
           /\ FollowsIn(new, p, slot) => p = prev
           /\ next # NoSlot /\ FollowsIn(new, p, next) => p = slot
           /\ \A s \in tl.slots \ {next} :
                 /\ FollowsIn(new, p, s) => p # slot /\ FollowsIn(tl, p, s)
                 /\ p # slot /\ FollowsIn(tl, p, s) => FollowsIn(new, p, s)
  BY <1>3, Neighbours
<1> HIDE DEF prev, next
<1>5. new.tailEnd = new.floor \/ \E s \in new.slots : s.end = new.tailEnd
  <2>1. tl.tailEnd = tl.floor \/ \E s \in tl.slots : s.end = tl.tailEnd
    BY DEF Prepared
  <2> QED BY <1>1, <1>3, <2>1 DEF Later
<1>6. Linked(new)
  <2> SUFFICES ASSUME NEW g \in new.gaps
               PROVE  g.next \in new.slots /\ g.next.start = g.end /\ FollowsIn(new, g.prev, g.next)
    BY DEF Linked
  <2>1. CASE g \in tl.gaps \ Consumed(tl, slot, next)
    <3>1. /\ g.next \in tl.slots /\ g.next.start = g.end /\ FollowsIn(tl, g.prev, g.next)
      BY <2>1 DEF Prepared, Linked
    <3>2. g.next # next
      BY <1>2, <2>1, <3>1 DEF Consumed
    <3>3. slot \notin tl.slots
      BY <1>1, <1>2 DEF FreeFor
    <3>4. g.prev \in tl.slots \union {NoSlot}
      BY <3>1 DEF FollowsIn
    <3> QED BY <1>1, <1>3, <1>4, <3>1, <3>2, <3>3, <3>4
  <2>2. CASE g \in NewGap(m, from, slot.start, prev, slot)
    <3>1. g.end = slot.start /\ g.prev = prev /\ g.next = slot
      BY <2>2, NewGapIs
    <3> QED BY <1>3, <1>4, <3>1
  <2>3. CASE g \in NewGap(m, slot.end, to, slot, next)
    <3>1. next # NoSlot /\ g.end = to /\ g.prev = slot /\ g.next = next
      BY <2>3, NewGapIs
    <3> QED BY <1>3, <1>4, <3>1
  <2> QED BY <1>3, <2>1, <2>2, <2>3
<1>7. ASSUME Ordinary(new)
      PROVE  Suffices(new) /\ TailKnown(new)
  <2>1. Ordinary(tl) /\ slot.start >= tl.floor
    BY <1>3, <1>7 DEF Ordinary
  <2>2. /\ Enough(slot, FamilyAfter(prev, tl.family))
        /\ next # NoSlot => Enough(next, Family[slot.op])
        /\ next # NoSlot \/ slot.start >= tl.tailEnd
    BY <2>1 DEF WellPut, prev, next
  <2>3. Suffices(tl) /\ TailKnown(tl)
    BY <2>1 DEF Prepared
  <2>4. Suffices(new)
    <3> SUFFICES ASSUME NEW p \in new.slots \union {NoSlot}, NEW s \in new.slots, FollowsIn(new, p, s)
                 PROVE  Enough(s, FamilyAfter(p, tl.family))
      BY <1>3 DEF Suffices
    <3>1. CASE s = slot
      BY <1>4, <2>2, <3>1
    <3>2. CASE s = next /\ s # slot
      <4>1. s \in tl.slots /\ next # NoSlot
        BY <1>2, <1>3, <3>2
      <4>2. p = slot
        BY <1>4, <3>2, <4>1
      <4> QED BY <1>1, <2>2, <3>2, <4>1, <4>2 DEF FamilyAfter
    <3>3. CASE s # next /\ s # slot
      <4>1. s \in tl.slots \ {next}
        BY <1>3, <3>3
      <4>2. p # slot /\ FollowsIn(tl, p, s)
        BY <1>4, <4>1
      <4>3. p \in tl.slots \union {NoSlot}
        BY <1>3, <4>2
      <4> QED BY <2>3, <4>1, <4>2, <4>3 DEF Suffices
    <3> QED BY <3>1, <3>2, <3>3
  <2>5. TailKnown(new)
    <3> SUFFICES ASSUME NEW p \in new.slots \union {NoSlot}, LastIn(new, p)
                 PROVE  new.tailFamily = FamilyAfter(p, tl.family)
      BY <1>3 DEF TailKnown
    <3>1. p # NoSlot /\ p \in new.slots /\ slot.start <= p.start /\ \A q \in tl.slots : q.start <= p.start
      BY <1>3 DEF LastIn
    <3>2. CASE slot.start >= tl.tailEnd
      <4>1. p \notin tl.slots
        BY <1>1, <1>2, <3>1, <3>2
      <4>2. p = slot
        BY <1>3, <3>1, <4>1
      <4>3. new.tailFamily = Family[slot.op]
        BY <1>3, <3>2 DEF TailFamily
      <4> QED BY <1>1, <4>2, <4>3 DEF FamilyAfter
    <3>3. CASE ~ (slot.start >= tl.tailEnd)
      <4>1. next # NoSlot /\ next \in tl.slots /\ slot.start < next.start
        BY <1>1, <1>2, <1>4, <2>2, <3>3
      <4>2. p \in tl.slots
        BY <1>1, <1>2, <1>3, <3>1, <4>1
      <4>3. LastIn(tl, p)
        BY <3>1, <4>2 DEF LastIn
      <4>4. new.tailFamily = tl.tailFamily
        BY <1>3, <3>3 DEF TailFamily
      <4> QED BY <2>3, <4>2, <4>3, <4>4 DEF TailKnown
    <3> QED BY <3>2, <3>3
  <2> QED BY <2>4, <2>5
<1>8. Prepared(new)
  BY <1>5, <1>6, <1>7 DEF Prepared
<1> QED BY <1>8 DEF new

(* The setup a job is planned with suffices after the job it follows.      *)
LEMMA JobEnough ==
    ASSUME NEW tl, NEW op \in Ops, NEW family, NEW p
    PROVE  /\ Job(tl, op, family, p).op = op
           /\ Enough(Job(tl, op, family, p), family)
<1>1. Setup[op] \in Nat
  BY TimelineAssumption
<1> QED BY <1>1 DEF Job, Enough, SetupMinutes

(* A job that goes into a gap stays within it, and leaves the setup of the *)
(* slot after the gap sufficient.                                          *)
LEMMA GapJob ==
    ASSUME NEW m \in Machines, NEW tl \in Timelines, Numbered(tl), Booked(m, tl),
           NEW op \in Ops, Run[op] > 0, NEW t \in Instants,
           NEW windows, \A w \in windows : w.end \in Instants,
           NEW g \in tl.gaps, NEW slot \in InGap(m, tl, g, op, t, windows)
    PROVE  /\ slot.start \in Nat /\ slot.end \in Nat
           /\ g.start <= slot.start /\ slot.start < slot.end /\ slot.end <= g.end
           /\ slot.op = op /\ SuccessorSetupHolds(g, op)
           /\ Enough(slot, FamilyAfter(g.prev, tl.family))
<1> DEFINE family == FamilyAfter(g.prev, tl.family)
           n == SetupMinutes(op, family) + Run[op]
<1>1. PICK p \in Spans(m, Later(t, g.start), n, windows) :
          /\ slot = Job(tl, op, family, p)
          /\ SuccessorSetupHolds(g, op)
          /\ g.work >= n
          /\ t > g.start \/ windows # {} => p.end <= g.end
  BY DEF InGap
<1>2. slot.op = op /\ Enough(slot, family)
  BY <1>1, JobEnough
<1>3. n \in Nat /\ n > 0
  BY MinutesType
<1>4. /\ g.start \in Instants /\ g.end \in Instants /\ g.start \in Nat /\ g.end \in Nat
      /\ t \in Nat /\ g.work = WorkBetween(m, g.start, g.end)
  BY TimelineFields, GapFields, InstantsAreNumbers DEF Booked, Idle
<1>5. /\ Later(t, g.start) \in Instants /\ Later(t, g.start) \in Nat
      /\ g.start <= Later(t, g.start)
  BY <1>4 DEF Later
<1> HIDE DEF n
<1>6. /\ p.start \in Instants /\ p.end \in Instants /\ p.end \in Ends(m, p.start, n)
      /\ Later(t, g.start) <= p.start
      /\ windows = {} => p.start \in NextWorking(m, Later(t, g.start))
  BY <1>1, <1>3, <1>5, SpanIs
<1>7. p.start \in Nat /\ p.end \in Nat /\ p.start < p.end
  BY <1>3, <1>6, InstantsAreNumbers DEF Ends
<1>8. g.start <= p.start
  BY <1>4, <1>5, <1>6, <1>7
<1>9. p.end <= g.end
  <2>1. CASE t > g.start \/ windows # {}
    BY <1>1, <2>1
  <2>2. CASE ~ (t > g.start) /\ windows = {}
    <3>1. Later(t, g.start) = g.start
      BY <2>2 DEF Later
    <3>2. WorkBetween(m, g.start, g.end) >= n
      BY <1>1, <1>4
    <3> QED BY <1>3, <1>4, <1>6, <2>2, <3>1, <3>2, WorkFits
  <2> QED BY <2>1, <2>2
<1>10. slot.start = p.start /\ slot.end = p.end
  BY <1>1 DEF Job
<1> QED BY <1>1, <1>2, <1>7, <1>8, <1>9, <1>10

(* A new job in front of a slot: its recorded setup suffices.              *)
LEMMA SuccessorStaysReady ==
    ASSUME JobsHaveFamilies, NEW g \in Gaps, NEW op \in Ops, NEW family,
           SuccessorSetupHolds(g, op), Enough(g.next, FamilyAfter(g.prev, family))
    PROVE  Enough(g.next, Family[op])
<1>1. g.next \in Slots /\ Family[op] # NoFamily
  BY DEF Gaps, JobsHaveFamilies
<1>2. CASE g.next.basis = "full"
  BY <1>2 DEF Enough
<1>3. CASE g.next.basis = "same" /\ SharesSetup(op, Family[g.next.op])
  BY <1>3 DEF Enough, SharesSetup
<1>4. CASE g.next.basis = "frozen" /\ Family[op] = FamilyAfter(g.prev, NoFamily)
  BY <1>1, <1>4 DEF Enough, FamilyAfter
<1> QED BY <1>2, <1>3, <1>4 DEF SuccessorSetupHolds

LEMMA FoundWellPut ==
    ASSUME JobsHaveFamilies, NEW m \in Machines, NEW tl \in Timelines, Numbered(tl),
           Booked(m, tl), Prepared(tl), Ordinary(tl),
           NEW op \in Ops, Run[op] > 0, NEW t \in Instants,
           NEW windows, \A w \in windows : w.end \in Instants,
           NEW tailOnly, NEW slot \in FindSlot(m, tl, op, t, windows, tailOnly)
    PROVE  WellPut(tl, slot)
<1>1. slot \in Slots /\ FreeFor(tl, slot)
  BY FindSlotIsFree
<1>2. /\ slot.start \in Nat /\ slot.end \in Nat /\ slot.start \in Instants /\ slot.start < slot.end
      /\ tl.slots \subseteq Slots /\ tl.gaps \subseteq Gaps /\ tl.tailEnd \in Nat
      /\ slot # NoSlot
  BY <1>1, TimelineFields, SlotFields, NoSlotAssumption DEF FreeFor
<1>3. \A s, q \in tl.slots :
        /\ s.start \in Nat /\ s.end \in Nat /\ s.start < s.end /\ s.end <= tl.tailEnd
        /\ s # NoSlot
        /\ s.start = q.start => s = q
  BY StartsApart
<1>4. Suffices(tl) /\ TailKnown(tl) /\ Linked(tl)
  BY DEF Prepared
<1> DEFINE prev == Before(tl, slot.start)
           next == After(tl, slot.start)
<1>5. /\ prev # NoSlot => prev \in tl.slots /\ prev.start <= slot.start
      /\ \A q \in tl.slots : q.start <= slot.start => prev # NoSlot /\ q.start <= prev.start
  BY <1>2, BeforeIs DEF SlotsUntil
<1>6. /\ next # NoSlot => next \in tl.slots /\ next.start > slot.start
      /\ \A q \in tl.slots : q.start > slot.start => next # NoSlot /\ next.start <= q.start
  BY <1>2, AfterIs DEF SlotsAfter
<1> HIDE DEF prev, next
<1>7. CASE slot \in AtTail(m, tl, op, t, windows)
  <2> DEFINE n == SetupMinutes(op, tl.tailFamily) + Run[op]
  <2>1. PICK p \in Spans(m, Later(t, tl.tailEnd), n, windows) : slot = Job(tl, op, tl.tailFamily, p)
    BY <1>7 DEF AtTail
  <2>2. Enough(slot, tl.tailFamily)
    BY <2>1, JobEnough
  <2>3. slot.start >= tl.tailEnd
    <3>1. n \in Nat
      BY MinutesType
    <3>2. /\ Later(t, tl.tailEnd) \in Instants /\ Later(t, tl.tailEnd) \in Nat
          /\ tl.tailEnd <= Later(t, tl.tailEnd)
      BY <1>2, TimelineFields, InstantsAreNumbers DEF Later
    <3> HIDE DEF n
    <3>3. Later(t, tl.tailEnd) <= p.start
      BY <2>1, <3>1, <3>2, SpanIs
    <3>4. slot.start = p.start
      BY <2>1 DEF Job
    <3> QED BY <1>2, <3>2, <3>3, <3>4
  <2>4. LastIn(tl, prev) /\ next = NoSlot
    BY <1>2, <1>3, <1>5, <1>6, <2>3 DEF LastIn
  <2>5. tl.tailFamily = FamilyAfter(prev, tl.family)
    BY <1>4, <1>5, <2>4 DEF TailKnown
  <2> QED BY <2>2, <2>3, <2>4, <2>5 DEF WellPut, prev, next
<1>8. ASSUME NEW g \in tl.gaps, slot \in InGap(m, tl, g, op, t, windows)
      PROVE  WellPut(tl, slot)
  <2>1. /\ g.start <= slot.start /\ slot.end <= g.end
        /\ slot.op = op /\ SuccessorSetupHolds(g, op)
        /\ Enough(slot, FamilyAfter(g.prev, tl.family))
    BY <1>8, GapJob
  <2>2. g.next \in tl.slots /\ g.next.start = g.end /\ FollowsIn(tl, g.prev, g.next)
    BY <1>4 DEF Linked
  <2>3. /\ g.start \in Nat /\ g.end \in Nat
        /\ \A q \in tl.slots : q.end <= g.start \/ g.end <= q.start
    BY <1>2, GapFields DEF Booked, Idle, FreeFor
  <2>4. slot.start < g.end
    BY <1>2, <2>1, <2>3
  <2>5. \A q \in tl.slots : q.start < g.end => q.start < slot.start
    BY <1>2, <1>3, <2>1, <2>3
  <2>6. prev = g.prev
    <3>1. CASE g.prev = NoSlot
      BY <1>2, <1>3, <1>5, <2>2, <2>4, <3>1 DEF FollowsIn
    <3>2. CASE g.prev # NoSlot
      <4>1. /\ g.prev \in tl.slots /\ g.prev.start < g.end
            /\ \A q \in tl.slots : q.start < g.end => q.start <= g.prev.start
        BY <2>2, <3>2 DEF FollowsIn
      <4>2. prev # NoSlot /\ prev \in tl.slots /\ g.prev.start <= prev.start /\ prev.start < g.end
        BY <1>2, <1>3, <1>5, <2>3, <2>4, <2>5, <4>1
      <4>3. prev.start = g.prev.start
        BY <1>3, <4>1, <4>2
      <4> QED BY <1>3, <4>1, <4>2, <4>3
    <3> QED BY <3>1, <3>2
  <2>7. next = g.next
    <3>1. next # NoSlot /\ next \in tl.slots /\ next.start <= g.next.start /\ slot.start < next.start
      BY <1>2, <1>3, <1>6, <2>2, <2>4
    <3>2. ~ (next.start < g.end)
      BY <1>2, <1>3, <2>5, <3>1
    <3> QED BY <1>3, <2>2, <2>3, <3>1, <3>2
  <2>8. Enough(g.next, FamilyAfter(g.prev, tl.family))
    <3>1. g.prev \in tl.slots \union {NoSlot}
      BY <2>2 DEF FollowsIn
    <3> QED BY <1>4, <2>2, <3>1 DEF Suffices
  <2>9. Enough(g.next, Family[op])
    BY <1>2, <2>1, <2>8, SuccessorStaysReady
  <2>10. g.next # NoSlot
    BY <1>3, <2>2
  <2> QED BY <2>1, <2>6, <2>7, <2>9, <2>10 DEF WellPut, prev, next
<1>9. slot \in AtTail(m, tl, op, t, windows) \/ \E g \in tl.gaps : slot \in InGap(m, tl, g, op, t, windows)
  BY DEF FindSlot
<1> QED BY <1>7, <1>8, <1>9

(* The entries of a machine that are reproduced, when the machine is free  *)
(* before the first of them starts, were planned with setups that suffice  *)
(* after one another, and after the setup of the machine.                  *)
KeptOn(m) == {e \in in.previous : Kept(e) /\ e.machine = m}

KeptSetupsSuffice ==
    \A m \in Machines : (\A e \in KeptOn(m) : e.start >= in.floor[m]) =>
        \A e \in KeptOn(m) :
            LET before == {d \in KeptOn(m) : d.start < e.start}
            IN  /\ before = {} => e.setup >= SetupMinutes(e.op, in.family[m])
                /\ \A d \in before : (\A c \in before : c.start <= d.start)
                                       => e.setup >= SetupMinutes(e.op, Family[d.op])

MachinesInv ==
    \A m \in Machines :
        /\ timelines[m].family = in.family[m] /\ timelines[m].floor = in.floor[m]
        /\ Prepared(timelines[m])

(* While the previous schedule is reproduced, the slots of a machine are   *)
(* the entries that were kept so far.                                      *)
Reproduces(s, e) == s.op = e.op /\ s.start = e.start

FrozenInv ==
    status = "frozen" => \A m \in Machines :
        /\ \A s \in timelines[m].slots : \E e \in KeptOn(m) \ left : Reproduces(s, e)
        /\ \A e \in KeptOn(m) \ left : \E s \in timelines[m].slots : Reproduces(s, e)

SetupsIInv == IInv /\ KeptSetupsSuffice /\ MachinesInv /\ FrozenInv

LEMMA KeptOnAsBefore ==
    ASSUME in' = in
    PROVE  /\ \A m : KeptOn(m)' = KeptOn(m)
           /\ KeptSetupsSuffice => KeptSetupsSuffice'
<1>1. \A e : Kept(e)' <=> Kept(e)
  BY KeptAsBefore
<1>2. ASSUME NEW m PROVE KeptOn(m)' = KeptOn(m)
  BY <1>1 DEF KeptOn
<1>3. KeptSetupsSuffice => KeptSetupsSuffice'
  <2>1. \A m : KeptOn(m)' = KeptOn(m)
    BY <1>2
  <2> QED BY <2>1 DEF KeptSetupsSuffice
<1> QED BY <1>2, <1>3

(* An entry that is reproduced goes behind those reproduced so far.        *)
LEMMA FrozenWellPut ==
    ASSUME PreviousIsSound, SetupsIInv, status = "frozen", NEW e \in left, Kept(e),
           \A d \in left : d.machine = e.machine => e.start <= d.start,
           Ordinary(timelines[e.machine]), e.start >= timelines[e.machine].floor
    PROVE  WellPut(timelines[e.machine], FrozenSlot(e))
<1> DEFINE m == e.machine
           tl == timelines[m]
           slot == FrozenSlot(e)
           prev == Before(tl, slot.start)
           next == After(tl, slot.start)
<1>1. /\ m \in Machines /\ e.op \in Ops /\ e.start \in Nat /\ e.end \in Nat
      /\ e \in in.previous /\ in \in Inputs
      /\ slot \in Slots /\ slot.start = e.start /\ slot.start \in Instants
  BY FrozenSlotIs, InstantsAreNumbers DEF SetupsIInv, IInv, TypeOK
<1>2. slot.basis = "frozen" /\ slot.op = e.op /\ slot.setup = e.setup
  BY DEF FrozenSlot
<1>3. tl \in Timelines /\ Numbered(tl) /\ Booked(m, tl) /\ Prepared(tl)
      /\ tl.family = in.family[m] /\ tl.floor = in.floor[m]
  BY <1>1 DEF SetupsIInv, IInv, TypeOK, NumberedInv, BookedInv, MachinesInv
<1>4. \A s \in tl.slots : s.end <= e.start
  BY DEF SetupsIInv, IInv, LeftInv
<1>5. \A s, q \in tl.slots :
        /\ s.start \in Nat /\ s.end \in Nat /\ s.start < s.end /\ s # NoSlot
        /\ s.start = q.start => s = q
  BY <1>1, <1>3, StartsApart
<1>6. tl.slots \subseteq Slots /\ tl.floor \in Nat /\ tl.tailEnd \in Nat
  BY <1>3, TimelineFields
<1>7. /\ \A s \in tl.slots : \E d \in KeptOn(m) \ left : Reproduces(s, d)
      /\ \A d \in KeptOn(m) \ left : \E s \in tl.slots : Reproduces(s, d)
  BY <1>1 DEF SetupsIInv, FrozenInv
<1>8. \A d \in KeptOn(m) : d \in left => d.start >= e.start
  BY <1>1 DEF KeptOn
<1>9. e \in KeptOn(m) /\ \A d \in KeptOn(m) : d.start \in Nat
  <2>1. in.previous \subseteq Entries
    BY InputFields DEF SetupsIInv, IInv, TypeOK
  <2> QED BY <1>1, <2>1, InstantsAreNumbers DEF KeptOn, Entries
<1>10. tl.floor <= e.start /\ Ordinary(tl)
  BY <1>1, <1>6
<1> DEFINE before == {d \in KeptOn(m) : d.start < e.start}
<1>11. \A d \in KeptOn(m) : d.start >= in.floor[m]
  <2> SUFFICES ASSUME NEW d \in KeptOn(m) PROVE d.start >= tl.floor
    BY <1>3
  <2>1. CASE d \in left
    BY <1>1, <1>6, <1>8, <1>9, <1>10, <2>1
  <2>2. CASE d \notin left
    <3>1. PICK s \in tl.slots : s.start = d.start
      BY <1>7, <2>2 DEF Reproduces
    <3> QED BY <1>10, <3>1 DEF Ordinary
  <2> QED BY <2>1, <2>2
<1>12. /\ before = {} => e.setup >= SetupMinutes(e.op, in.family[m])
       /\ \A d \in before : (\A c \in before : c.start <= d.start)
                              => e.setup >= SetupMinutes(e.op, Family[d.op])
  BY <1>1, <1>9, <1>11 DEF SetupsIInv, KeptSetupsSuffice
<1>13. \A c \in before : \E s \in tl.slots : Reproduces(s, c)
  BY <1>1, <1>7, <1>8, <1>9
<1>14. /\ prev # NoSlot => prev \in tl.slots
       /\ \A q \in tl.slots : q.start <= e.start => prev # NoSlot /\ q.start <= prev.start
  BY <1>1, <1>3, <1>6, BeforeIs DEF SlotsUntil
<1>15. next = NoSlot
  <2>1. next # NoSlot => next \in tl.slots /\ next.start > e.start
    BY <1>1, <1>3, <1>6, AfterIs DEF SlotsAfter
  <2> QED BY <1>1, <1>4, <1>5, <2>1
<1>16. slot.start >= tl.tailEnd
  <2>1. tl.tailEnd = tl.floor \/ \E s \in tl.slots : s.end = tl.tailEnd
    BY <1>3 DEF Prepared
  <2> QED BY <1>1, <1>4, <1>6, <1>10, <2>1
<1> HIDE DEF prev, next
<1>17. e.setup >= SetupMinutes(e.op, FamilyAfter(prev, tl.family))
  <2>1. CASE prev = NoSlot
    <3>1. tl.slots = {}
      BY <1>1, <1>4, <1>5, <1>14, <2>1
    <3>2. before = {}
      BY <1>13, <3>1
    <3> QED BY <1>3, <1>12, <2>1, <3>2 DEF FamilyAfter
  <2>2. CASE prev # NoSlot
    <3>1. prev \in tl.slots
      BY <1>14, <2>2
    <3>2. PICK d \in KeptOn(m) \ left : Reproduces(prev, d)
      BY <1>7, <3>1
    <3>3. d.op = prev.op /\ d.start = prev.start
      BY <3>2 DEF Reproduces
    <3>4. d \in before
      BY <1>1, <1>4, <1>5, <3>1, <3>2, <3>3
    <3>5. ASSUME NEW c \in before PROVE c.start <= d.start
      <4>1. PICK s \in tl.slots : s.start = c.start
        BY <1>13, <3>5 DEF Reproduces
      <4>2. s.start <= e.start
        BY <1>1, <1>4, <1>5, <4>1
      <4> QED BY <1>14, <3>3, <4>1, <4>2
    <3>6. e.setup >= SetupMinutes(e.op, Family[d.op])
      BY <1>12, <3>4, <3>5
    <3> QED BY <2>2, <3>3, <3>6 DEF FamilyAfter
  <2> QED BY <2>1, <2>2
<1>18. Enough(slot, FamilyAfter(prev, tl.family))
  BY <1>2, <1>17 DEF Enough
<1> QED BY <1>15, <1>16, <1>18 DEF WellPut, prev, next

(* Every other machine is as it was.                                       *)
LEMMA InsertedPrepared ==
    ASSUME TypeOK, NumberedInv, BookedInv, MachinesInv, NEW m \in Machines, NEW slot \in Slots,
           FreeFor(timelines[m], slot), in' = in,
           Ordinary(timelines[m]) /\ slot.start >= timelines[m].floor => WellPut(timelines[m], slot),
           timelines' = [timelines EXCEPT ![m] = Insert(m, @, slot)]
    PROVE  /\ MachinesInv'
           /\ \A k \in Machines : timelines'[k].slots = IF k = m THEN timelines[m].slots \union {slot}
                                                        ELSE timelines[k].slots
<1>1. /\ timelines \in [Machines -> Timelines] /\ timelines[m] \in Timelines
      /\ Numbered(timelines[m]) /\ Booked(m, timelines[m]) /\ Prepared(timelines[m])
  BY DEF TypeOK, NumberedInv, BookedInv, MachinesInv
<1>2. Prepared(Insert(m, timelines[m], slot))
  BY <1>1, InsertKeepsPrepared
<1>3. /\ Insert(m, timelines[m], slot).floor = timelines[m].floor
      /\ Insert(m, timelines[m], slot).family = timelines[m].family
      /\ Insert(m, timelines[m], slot).slots = timelines[m].slots \union {slot}
  BY <1>1, InsertIs
<1>4. \A k \in Machines : timelines'[k] = IF k = m THEN Insert(m, timelines[m], slot) ELSE timelines[k]
  BY <1>1
<1>5. \A k \in Machines : /\ timelines'[k].family = in'.family[k] /\ timelines'[k].floor = in'.floor[k]
                          /\ Prepared(timelines'[k])
  BY <1>2, <1>3, <1>4 DEF MachinesInv
<1>6. MachinesInv'
  BY <1>5 DEF MachinesInv
<1>7. \A k \in Machines : timelines'[k].slots = IF k = m THEN timelines[m].slots \union {slot}
                                                ELSE timelines[k].slots
  BY <1>3, <1>4
<1> QED BY <1>6, <1>7

LEMMA ReproduceKeepsSetups ==
    ASSUME PreviousIsSound, SetupsIInv, ReproduceEntry
    PROVE  MachinesInv' /\ FrozenInv'
<1>1. PICK e \in left :
        /\ \A d \in left : d.machine = e.machine => e.start <= d.start
        /\ left' = left \ {e}
        /\ IF Kept(e)
           THEN timelines' = [timelines EXCEPT ![e.machine] = Insert(e.machine, @, FrozenSlot(e))]
           ELSE UNCHANGED timelines
  BY DEF ReproduceEntry
<1>2. status = "frozen" /\ status' = "frozen" /\ in' = in
  BY DEF ReproduceEntry
<1>3. /\ e.machine \in Machines /\ e.start \in Nat /\ e \in in.previous
      /\ FrozenSlot(e) \in Slots
      /\ FrozenSlot(e).start = e.start /\ FrozenSlot(e).end = e.end
  BY FrozenSlotIs, InstantsAreNumbers DEF SetupsIInv, IInv, TypeOK
<1>4. \A m : KeptOn(m)' = KeptOn(m)
  BY <1>2, KeptOnAsBefore
<1>5. \A m \in Machines :
        /\ \A s \in timelines[m].slots : \E d \in KeptOn(m) \ left : Reproduces(s, d)
        /\ \A d \in KeptOn(m) \ left : \E s \in timelines[m].slots : Reproduces(s, d)
  BY <1>2 DEF SetupsIInv, FrozenInv
<1>6. CASE Kept(e)
  <2>1. FreeFor(timelines[e.machine], FrozenSlot(e))
    <3>1. e.start < e.end
      BY <1>3 DEF SetupsIInv, IInv, PreviousIsSound
    <3>2. \A s \in timelines[e.machine].slots : s.end <= e.start
      BY <1>2 DEF SetupsIInv, IInv, LeftInv
    <3> QED BY <1>3, <3>1, <3>2 DEF FreeFor
  <2>2. Ordinary(timelines[e.machine]) /\ FrozenSlot(e).start >= timelines[e.machine].floor
          => WellPut(timelines[e.machine], FrozenSlot(e))
    BY <1>1, <1>2, <1>3, <1>6, FrozenWellPut
  <2>3. /\ MachinesInv'
        /\ \A k \in Machines :
             timelines'[k].slots = IF k = e.machine
                                   THEN timelines[e.machine].slots \union {FrozenSlot(e)}
                                   ELSE timelines[k].slots
    BY <1>1, <1>2, <1>3, <1>6, <2>1, <2>2, InsertedPrepared DEF SetupsIInv, IInv
  <2>4. Reproduces(FrozenSlot(e), e)
    BY DEF Reproduces, FrozenSlot
  <2>5. e \in KeptOn(e.machine)
    BY <1>3, <1>6 DEF KeptOn
  <2>6. ASSUME NEW m \in Machines
        PROVE  /\ \A s \in timelines'[m].slots : \E d \in KeptOn(m) \ left' : Reproduces(s, d)
               /\ \A d \in KeptOn(m) \ left' : \E s \in timelines'[m].slots : Reproduces(s, d)
    <3>1. CASE m = e.machine
      <4>1. timelines'[m].slots = timelines[m].slots \union {FrozenSlot(e)}
        BY <2>3, <3>1
      <4>2. KeptOn(m) \ left' = (KeptOn(m) \ left) \union {e}
        BY <1>1, <2>5, <3>1
      <4> QED BY <1>5, <2>4, <4>1, <4>2
    <3>2. CASE m # e.machine
      <4>1. timelines'[m].slots = timelines[m].slots
        BY <2>3, <3>2
      <4>2. KeptOn(m) \ left' = KeptOn(m) \ left
        BY <1>1, <3>2 DEF KeptOn
      <4> QED BY <1>5, <4>1, <4>2
    <3> QED BY <3>1, <3>2
  <2> QED BY <1>4, <2>3, <2>6 DEF FrozenInv, Reproduces
<1>7. CASE ~ Kept(e)
  <2>1. timelines' = timelines
    BY <1>1, <1>7
  <2>2. MachinesInv'
    BY <1>2, <2>1 DEF SetupsIInv, MachinesInv
  <2>3. \A m : KeptOn(m) \ left' = KeptOn(m) \ left
    BY <1>1, <1>7 DEF KeptOn
  <2> QED BY <1>4, <1>5, <2>1, <2>2, <2>3 DEF FrozenInv, Reproduces
<1> QED BY <1>6, <1>7

LEMMA StepKeepsSetups ==
    ASSUME JobsTakeTime, PreviousIsSound, JobsHaveFamilies, SetupsIInv, [Next]_vars
    PROVE  SetupsIInv'
<1>1. IInv'
  BY StepKeepsBooked DEF SetupsIInv
<1>2. CASE ReproduceEntry
  <2>1. in' = in
    BY <1>2 DEF ReproduceEntry
  <2> QED BY <1>1, <1>2, <2>1, ReproduceKeepsSetups, KeptOnAsBefore DEF SetupsIInv
<1>3. CASE PlaceOperation
  <2>1. /\ ReadyToPlace /\ UNCHANGED <<in, left, status>>
    BY <1>3 DEF PlaceOperation
  <2>2. PICK m \in Best : \E slot \in Options(m) : RecordEntry(OpNow, m, slot)
    BY <1>3 DEF PlaceOperation
  <2> PICK slot \in Options(m) : RecordEntry(OpNow, m, slot)
    BY <2>2
  <2>3. /\ m \in Machines /\ OpNow \in Ops /\ slot \in Slots
        /\ Booked(m, timelines[m]) /\ Run[OpNow] > 0 => FreeFor(timelines[m], slot)
    BY <2>1, OptionIsFree DEF SetupsIInv, IInv
  <2>4. Run[OpNow] > 0 /\ FreeFor(timelines[m], slot)
    BY <2>3 DEF SetupsIInv, IInv, BookedInv, JobsTakeTime
  <2>5. Ordinary(timelines[m]) => WellPut(timelines[m], slot)
    <3>1. stack # <<>> /\ Remaining
      BY <2>1 DEF ReadyToPlace, AtUnplaced, At
    <3>2. FromWindow(Earliest) \in Instants
      BY <3>1, EarliestType, FromWindowType DEF SetupsIInv, IInv
    <3>3. \A w \in Reserved(OpNow, m) : w.end \in Instants
      BY InputFields DEF SetupsIInv, IInv, TypeOK, Reserved, Windows
    <3>4. /\ timelines[m] \in Timelines /\ Numbered(timelines[m]) /\ Booked(m, timelines[m])
          /\ Prepared(timelines[m])
      BY <2>3 DEF SetupsIInv, IInv, TypeOK, NumberedInv, BookedInv, MachinesInv
    <3>5. slot \in FindSlot(m, timelines[m], OpNow, FromWindow(Earliest), Reserved(OpNow, m),
                            Top.forced # None)
      BY DEF Options
    <3> QED BY <2>3, <2>4, <3>2, <3>3, <3>4, <3>5, FoundWellPut
  <2>6. MachinesInv'
    BY <2>1, <2>2, <2>3, <2>4, <2>5, InsertedPrepared DEF SetupsIInv, IInv, RecordEntry
  <2>7. status' # "frozen"
    BY <2>1 DEF ReadyToPlace, AtUnplaced, At
  <2> QED BY <1>1, <2>1, <2>6, <2>7, KeptOnAsBefore DEF SetupsIInv, FrozenInv
<1>4. CASE ElsewhereStep
  <2>1. UNCHANGED timelines
    BY <1>4, ElsewhereKeepsType DEF SetupsIInv, IInv
  <2>2. in' = in /\ left' = left /\ (status' = "frozen" => status = "frozen")
    BY <1>4 DEF ElsewhereStep, Begin, NextOrder, ProcessDependency, ReleaseOrder,
       DependencyBlocks, KeepFrozen, ProcessPrerequisite, PrerequisiteBlocks, NoMachine,
       NoCycleTime, CalendarEnds, OrderPlaced, PullForward, NoPull, RunComplete, Unschedule
  <2>3. \A m : KeptOn(m)' = KeptOn(m)
    BY <2>2, KeptOnAsBefore
  <2> QED BY <1>1, <2>1, <2>2, <2>3, KeptOnAsBefore DEF SetupsIInv, MachinesInv, FrozenInv
<1>5. CASE UNCHANGED vars
  <2>1. UNCHANGED <<timelines, in, left, status>>
    BY <1>5 DEF vars
  <2>2. \A m : KeptOn(m)' = KeptOn(m)
    BY <2>1, KeptOnAsBefore
  <2> QED BY <1>1, <2>1, <2>2, KeptOnAsBefore DEF SetupsIInv, MachinesInv, FrozenInv
<1> QED BY <1>2, <1>3, <1>4, <1>5, StepsAre

LEMMA EnoughSuffices ==
    ASSUME NEW s \in Slots, NEW family, Enough(s, family)
    PROVE  s.setup >= SetupMinutes(s.op, family)
<1>1. s.setup \in Nat /\ Setup[s.op] \in Nat
  BY TimelineAssumption DEF Slots
<1> QED BY <1>1 DEF Enough, SetupMinutes

LEMMA PreparedSuffices ==
    ASSUME SetupsIInv
    PROVE  SetupsSuffice
<1> SUFFICES ASSUME NEW m \in Machines, NEW s \in timelines[m].slots,
                    \A q \in timelines[m].slots : q.start >= timelines[m].floor
             PROVE  LET earlier == {q \in timelines[m].slots : Precedes(q, s)}
                        follows == IF earlier = {} THEN timelines[m].family
                                   ELSE Family[(CHOOSE q \in earlier :
                                                  \A r \in earlier : r = q \/ Precedes(r, q)).op]
                    IN  s.setup >= SetupMinutes(s.op, follows)
  BY DEF SetupsSuffice
<1> DEFINE tl == timelines[m]
           earlier == {q \in tl.slots : Precedes(q, s)}
           last == CHOOSE q \in earlier : \A r \in earlier : r = q \/ Precedes(r, q)
<1>1. tl \in Timelines /\ Numbered(tl) /\ Booked(m, tl) /\ Prepared(tl) /\ tl.slots \subseteq Slots
  BY TimelineFields DEF SetupsIInv, IInv, TypeOK, NumberedInv, BookedInv, MachinesInv
<1>2. Suffices(tl)
  BY <1>1 DEF Prepared, Ordinary
<1>3. \A q, r \in tl.slots :
        /\ q.start \in Nat /\ q.nr \in Nat /\ q # NoSlot /\ q \in Slots
        /\ q.start = r.start => q = r
  BY <1>1, StartsApart, SlotFields
<1>4. ASSUME NEW p \in tl.slots \union {NoSlot}, FollowsIn(tl, p, s)
      PROVE  s.setup >= SetupMinutes(s.op, FamilyAfter(p, tl.family))
  BY <1>2, <1>3, <1>4, EnoughSuffices DEF Suffices
<1>5. CASE earlier = {}
  <2>1. FollowsIn(tl, NoSlot, s)
    BY <1>5 DEF FollowsIn, Precedes
  <2> QED BY <1>4, <1>5, <2>1 DEF FamilyAfter
<1>6. CASE earlier # {}
  <2>1. earlier \in SUBSET Slots /\ IsFiniteSet(earlier) /\ Cardinality(tl.slots) \in Nat
    BY <1>1, FS_Subset, FS_CardinalityType DEF Numbered
  <2>2. /\ \A q \in earlier : q.nr < Cardinality(tl.slots)
        /\ \A q, r \in earlier : q.nr = r.nr => q = r
    BY <1>1 DEF Numbered
  <2>3. \E q \in earlier : \A r \in earlier \ {q} : Precedes(r, q)
    <3> HIDE DEF earlier
    <3> QED BY <1>6, <2>1, <2>2, LastSlot
  <2>4. last \in earlier /\ \A r \in earlier : r = last \/ Precedes(r, last)
    <3>1. \E q \in earlier : \A r \in earlier : r = q \/ Precedes(r, q)
      BY <2>3
    <3> HIDE DEF earlier
    <3> QED BY <3>1
  <2> HIDE DEF last
  <2>5. last \in tl.slots /\ last # NoSlot /\ last.start < s.start
    BY <1>3, <2>4 DEF Precedes
  <2>6. ASSUME NEW q \in tl.slots, q.start < s.start PROVE q.start <= last.start
    <3>1. q \in earlier
      BY <2>6 DEF Precedes
    <3> QED BY <1>3, <2>4, <2>5, <3>1 DEF Precedes
  <2>7. FollowsIn(tl, last, s)
    BY <2>5, <2>6 DEF FollowsIn
  <2>8. s.setup >= SetupMinutes(s.op, Family[last.op])
    BY <1>4, <2>5, <2>7 DEF FamilyAfter
  <2> QED BY <1>6, <2>8 DEF last
<1> QED BY <1>5, <1>6

(* timeline.py, the successor rule: whatever is put before a slot later,   *)
(* its recorded setup suffices after the job that is before it now, on     *)
(* every machine whose reproduced entries start when it is free or later   *)
(* and were planned with sufficient setups themselves.                     *)
THEOREM SetupsAlwaysSuffice ==
    ASSUME JobsTakeTime, PreviousIsSound, JobsHaveFamilies
    PROVE  Spec /\ KeptSetupsSuffice => []SetupsSuffice
<1>1. ASSUME Init, KeptSetupsSuffice
      PROVE  SetupsIInv
  <2>1. TypeOK /\ NumberedInv /\ BookedInv /\ in \in Inputs
    BY <1>1, InitKeepsType DEF Init
  <2>2. LeftInv
    <3> SUFFICES ASSUME NEW e \in left PROVE timelines[e.machine].slots = {}
      BY DEF LeftInv
    <3>1. e.machine \in Machines
      BY <2>1, FrozenSlotIs
    <3> QED BY <1>1, <3>1 DEF Init, NewTimeline
  <2>3. \A m \in Machines : timelines[m] = NewTimeline(in.floor[m], in.family[m])
    BY <1>1 DEF Init
  <2>4. \A f, k : /\ Prepared(NewTimeline(f, k)) /\ NewTimeline(f, k).slots = {}
                  /\ NewTimeline(f, k).floor = f /\ NewTimeline(f, k).family = k
    BY DEF NewTimeline, Prepared, Linked, Suffices, TailKnown, LastIn, FamilyAfter
  <2>5. MachinesInv
    BY <2>3, <2>4 DEF MachinesInv
  <2>6. FrozenInv
    <3>1. left = in.previous
      BY <1>1 DEF Init
    <3>2. \A m : KeptOn(m) \ left = {}
      BY <3>1 DEF KeptOn
    <3> QED BY <2>3, <2>4, <3>2 DEF FrozenInv
  <2> QED BY <1>1, <2>1, <2>2, <2>5, <2>6 DEF IInv, SetupsIInv
<1>2. SetupsIInv /\ [Next]_vars => SetupsIInv'
  BY StepKeepsSetups
<1>3. SetupsIInv => SetupsSuffice
  BY PreparedSuffices
<1> QED BY <1>1, <1>2, <1>3, PTL DEF Spec

-----------------------------------------------------------------------------
(* The plan, as a whole                                                    *)

EntryType == [machine : Machines \union {None}, start : Instants, end : Instants, kept : BOOLEAN]

(* The operations are those of the orders.                                 *)
OperationsRouted == \A op \in Ops : \E o \in Orders : \E i \in DOMAIN Route[o] : Route[o][i] = op

(* No window is reserved for another at exactly the times of one reserved  *)
(* for an order, on a machine that is reserved for the order too: by its   *)
(* times alone Reserved would take it for the order's own.                 *)
WindowsApart ==
    \A i \in Inputs : \A u, v, w \in i.windows :
        u.order # None /\ v.order = u.order /\ w.order # u.order /\ w.machine = v.machine
          => <<w.start, w.end>> # <<u.start, u.end>>

(* What is placed is a slot of its machine's timeline.                     *)
OnTimeline ==
    \A op \in Ops : placed[op] # NotPlaced =>
        /\ placed[op].machine \in Machines
        /\ \E s \in timelines[placed[op].machine].slots :
              s.op = op /\ s.start = placed[op].start /\ s.end = placed[op].end

PlanInv == IInv /\ OnTimeline /\ WindowsKept

-----------------------------------------------------------------------------
(* The plan of the rule-based run                                          *)

LEMMA PlacedIs ==
    ASSUME TypeOK
    PROVE  /\ placed \in [Ops -> EntryType]
           /\ timelines \in [Machines -> Timelines]
           /\ NotPlaced \in EntryType /\ NotPlaced.machine = None /\ ~ NotPlaced.kept
BY TimelineAssumption DEF TypeOK, NotPlaced, EntryType, Instants

(* The slots of a machine stay when one is inserted.                       *)
LEMMA OneMorePlaced ==
    ASSUME TypeOK, OnTimeline, NEW m \in Machines, NEW slot \in Slots, NEW op \in Ops,
           NEW entry, entry.machine = m, entry.start = slot.start, entry.end = slot.end,
           slot.op = op,
           timelines' = [timelines EXCEPT ![m] = Insert(m, @, slot)],
           placed' = [placed EXCEPT ![op] = entry]
    PROVE  OnTimeline'
<1>1. timelines \in [Machines -> Timelines] /\ placed \in [Ops -> EntryType]
  BY PlacedIs
<1>2. timelines'[m].slots = timelines[m].slots \union {slot}
  BY <1>1, InsertIs
<1>3. \A k \in Machines \ {m} : timelines'[k] = timelines[k]
  BY <1>1
<1>4. \A k \in Machines : timelines[k].slots \subseteq timelines'[k].slots
  BY <1>2, <1>3
<1>5. placed'[op] = entry /\ \A q \in Ops \ {op} : placed'[q] = placed[q]
  BY <1>1
<1> SUFFICES ASSUME NEW q \in Ops, placed'[q] # NotPlaced
             PROVE  /\ placed'[q].machine \in Machines
                    /\ \E s \in timelines'[placed'[q].machine].slots :
                          s.op = q /\ s.start = placed'[q].start /\ s.end = placed'[q].end
  BY DEF OnTimeline, NotPlaced
<1>6. CASE q = op
  BY <1>2, <1>5, <1>6
<1>7. CASE q # op
  <2>1. placed'[q] = placed[q]
    BY <1>5, <1>7
  <2> QED BY <1>4, <2>1 DEF OnTimeline
<1> QED BY <1>6, <1>7

(* Where find_slot puts a job, the windows it was given are clear.         *)
LEMMA FoundIsClear ==
    ASSUME NEW m, NEW tl, NEW op, NEW t, NEW windows, NEW tailOnly,
           NEW slot \in FindSlot(m, tl, op, t, windows, tailOnly)
    PROVE  slot.op = op /\ Clear(slot, windows)
<1>1. \A n, u : \A p \in Spans(m, u, n, windows) : Clear(p, windows)
  BY DEF Spans, Feasible
<1>2. \A f, p : /\ Job(tl, op, f, p).op = op
                /\ Job(tl, op, f, p).start = p.start /\ Job(tl, op, f, p).end = p.end
  BY DEF Job
<1>3. PICK f, n, u : \E p \in Spans(m, u, n, windows) : slot = Job(tl, op, f, p)
  <2>1. CASE slot \in AtTail(m, tl, op, t, windows)
    BY <2>1 DEF AtTail
  <2>2. ASSUME NEW g \in tl.gaps, slot \in InGap(m, tl, g, op, t, windows)
        PROVE  \E f, n, u : \E p \in Spans(m, u, n, windows) : slot = Job(tl, op, f, p)
    BY <2>2 DEF InGap
  <2> QED BY <2>1, <2>2 DEF FindSlot
<1>4. PICK p \in Spans(m, u, n, windows) : slot = Job(tl, op, f, p)
  BY <1>3
<1> QED BY <1>1, <1>2, <1>4 DEF Clear

LEMMA OrderOfIs ==
    ASSUME NEW o \in Orders, NEW i \in DOMAIN Route[o]
    PROVE  /\ OrderOf(Route[o][i]) \in Orders /\ OrderOf(Route[o][i]) # None
           /\ \E k \in DOMAIN Route[OrderOf(Route[o][i])] :
                  Route[OrderOf(Route[o][i])][k] = Route[o][i]
BY RunAssumption DEF OrderOf

(* A window the placed operation is not kept clear of is its order's own.  *)
LEMMA ReservedForOthers ==
    ASSUME WindowsApart, TypeOK, in \in Inputs, ReadyToPlace, NEW m \in Best,
           NEW w \in in.windows, w.machine = m, w.order # OrderOf(OpNow)
    PROVE  w \in Reserved(OpNow, m)
<1> DEFINE o == OrderOf(OpNow)
<1> SUFFICES ASSUME NEW own \in SlotLocksOn(OpNow), <<w.start, w.end>> = <<own.start, own.end>>
             PROVE  FALSE
  BY DEF Reserved
<1>1. own \in in.windows /\ own.order = o
  BY DEF SlotLocksOn, SlotLocks
<1>2. m \in Required
  BY DEF Best, Required
<1>3. PICK v \in in.windows : v.order = o /\ v.machine = m
  BY <1>2 DEF Required, SlotLocksOn, SlotLocks
<1>4. o # None
  <2>1. /\ stack # <<>> /\ Remaining
    BY DEF ReadyToPlace, AtUnplaced, At
  <2>2. Top.order \in Orders /\ Top.next \in Nat \ {0}
    BY <2>1, TopIs, FrameFields
  <2>3. Top.next \in DOMAIN Route[Top.order]
    BY <2>1, <2>2, RunAssumption, LenProperties DEF Remaining
  <2> QED BY <2>2, <2>3, OrderOfIs DEF OpNow
<1>5. w.order # o
  OBVIOUS
<1> HIDE DEF o
<1>6. <<w.start, w.end>> # <<own.start, own.end>>
  BY <1>1, <1>3, <1>4, <1>5 DEF WindowsApart
<1> QED BY <1>6

(* The rule-based run keeps the plan sound.                                *)
LEMMA PlacingKeepsPlan ==
    ASSUME WindowsApart, PlanInv, PlaceOperation
    PROVE  OnTimeline' /\ WindowsKept'
<1>1. /\ ReadyToPlace /\ in' = in /\ TypeOK /\ NumberedInv /\ in \in Inputs
      /\ OnTimeline /\ WindowsKept
  BY DEF PlanInv, IInv, PlaceOperation
<1>2. PICK m \in Best : \E slot \in Options(m) : RecordEntry(OpNow, m, slot)
  BY DEF PlaceOperation
<1> PICK slot \in Options(m) : RecordEntry(OpNow, m, slot)
  BY <1>2
<1>3. m \in Machines /\ OpNow \in Ops /\ slot \in Slots
  BY <1>1, OptionIsFree
<1>4. slot.op = OpNow /\ Clear(slot, Reserved(OpNow, m))
  BY FoundIsClear DEF Options
<1>5. OnTimeline'
  <2>1. /\ EntryIn(m, slot).machine = m
        /\ EntryIn(m, slot).start = slot.start /\ EntryIn(m, slot).end = slot.end
    BY DEF EntryIn
  <2>2. /\ timelines' = [timelines EXCEPT ![m] = Insert(m, @, slot)]
        /\ placed' = [placed EXCEPT ![OpNow] = EntryIn(m, slot)]
    BY <1>2 DEF RecordEntry
  <2> QED BY <1>1, <1>3, <1>4, <2>1, <2>2, OneMorePlaced
<1>6. \A w \in in.windows : w.machine = m /\ w.order # OrderOf(OpNow) =>
        ~ (w.start < slot.end /\ slot.start < w.end)
  BY <1>1, <1>4, ReservedForOthers DEF Clear
<1>7. /\ placed'[OpNow] = EntryIn(m, slot)
      /\ \A q \in Ops \ {OpNow} : placed'[q] = placed[q]
  BY <1>1, <1>2, <1>3, PlacedIs DEF RecordEntry
<1>8. WindowsKept'
  BY <1>1, <1>6, <1>7 DEF WindowsKept, EntryIn
<1> QED BY <1>5, <1>8

LEMMA ReproducingKeepsPlan ==
    ASSUME PlanInv, ReproduceEntry
    PROVE  OnTimeline' /\ WindowsKept'
<1>1. TypeOK /\ NumberedInv /\ OnTimeline /\ WindowsKept /\ in' = in
  BY DEF PlanInv, IInv, ReproduceEntry
<1>2. PICK e \in left :
        IF Kept(e)
        THEN /\ timelines' = [timelines EXCEPT ![e.machine] = Insert(e.machine, @, FrozenSlot(e))]
             /\ placed' = [placed EXCEPT ![e.op] = KeptEntry(e)]
        ELSE UNCHANGED <<timelines, placed>>
  BY DEF ReproduceEntry, KeptEntry
<1>3. /\ e.machine \in Machines /\ e.op \in Ops /\ FrozenSlot(e) \in Slots
      /\ FrozenSlot(e).start = e.start /\ FrozenSlot(e).end = e.end
  BY <1>1, FrozenSlotIs
<1>4. CASE Kept(e)
  <2>1. /\ KeptEntry(e).machine = e.machine /\ KeptEntry(e).kept
        /\ KeptEntry(e).start = e.start /\ KeptEntry(e).end = e.end
    BY DEF KeptEntry
  <2>2. FrozenSlot(e).op = e.op
    BY DEF FrozenSlot
  <2>3. OnTimeline'
    BY <1>1, <1>2, <1>3, <1>4, <2>1, <2>2, OneMorePlaced
  <2>4. placed'[e.op] = KeptEntry(e) /\ \A q \in Ops \ {e.op} : placed'[q] = placed[q]
    BY <1>1, <1>2, <1>3, <1>4, PlacedIs
  <2>5. WindowsKept'
    BY <1>1, <2>1, <2>4 DEF WindowsKept
  <2> QED BY <2>3, <2>5
<1>5. CASE ~ Kept(e)
  <2>1. UNCHANGED <<timelines, placed>>
    BY <1>2, <1>5
  <2> QED BY <1>1, <2>1 DEF OnTimeline, WindowsKept
<1> QED BY <1>4, <1>5

LEMMA StepKeepsPlan ==
    ASSUME JobsTakeTime, PreviousIsSound, WindowsApart, PlanInv, [Next]_vars
    PROVE  PlanInv'
<1>1. IInv'
  BY StepKeepsBooked DEF PlanInv
<1>2. CASE ElsewhereStep \/ UNCHANGED vars
  <2>1. UNCHANGED <<in, placed, timelines>>
    <3>1. CASE ElsewhereStep
      BY <3>1 DEF ElsewhereStep, Begin, NextOrder, ProcessDependency, ReleaseOrder,
         DependencyBlocks, KeepFrozen, ProcessPrerequisite, PrerequisiteBlocks, NoMachine,
         NoCycleTime, CalendarEnds, OrderPlaced, PullForward, NoPull, RunComplete, Unschedule
    <3> QED BY <1>2, <3>1 DEF vars
  <2> QED BY <1>1, <2>1 DEF PlanInv, OnTimeline, WindowsKept
<1> QED BY <1>1, <1>2, StepsAre, PlacingKeepsPlan, ReproducingKeepsPlan DEF PlanInv

LEMMA PlanBegins ==
    ASSUME Init
    PROVE  PlanInv
<1>1. TypeOK /\ NumberedInv /\ BookedInv /\ in \in Inputs
  BY InitKeepsType DEF Init
<1>2. LeftInv
  <2> SUFFICES ASSUME NEW e \in left PROVE timelines[e.machine].slots = {}
    BY DEF LeftInv
  <2>1. e.machine \in Machines
    BY <1>1, FrozenSlotIs
  <2> QED BY <2>1 DEF Init, NewTimeline
<1>3. \A op \in Ops : placed[op] = NotPlaced
  BY DEF Init
<1>4. WindowsKept
  <2>1. \A w \in in.windows : w.machine \in Machines
    BY <1>1, InputFields DEF TypeOK, Windows
  <2> QED BY <1>3, <2>1, RunAssumption DEF WindowsKept, NotPlaced
<1> QED BY <1>1, <1>2, <1>3, <1>4 DEF PlanInv, IInv, OnTimeline

(* build_lock_index, place_span: new work stays out of the windows         *)
(* reserved for others, whatever is back-filled.                           *)
THEOREM ReservedStaysFree ==
    ASSUME JobsTakeTime, PreviousIsSound, WindowsApart
    PROVE  Spec => []WindowsKept
<1>1. PlanInv /\ [Next]_vars => PlanInv'
  BY StepKeepsPlan
<1>2. PlanInv => WindowsKept
  BY DEF PlanInv
<1> QED BY <1>1, <1>2, PlanBegins, PTL DEF Spec

-----------------------------------------------------------------------------
(* The states _rebuild goes through                                        *)

Begins(m) == [free |-> FirstFree(m), family |-> in.family[m], entries |-> << >>]

Puts(op, st, e) ==
    [free |-> Later(st.free, e.end), family |-> Family[op],
     entries |-> [q \in DOMAIN st.entries \union {op} |-> IF q = op THEN e ELSE st.entries[q]]]

Grown(m, op, states) ==
    UNION {{Puts(op, st, e) : e \in {x \in Replaced(m, op, st) : ~ Refused(m, op, st, x)}} :
              st \in states}

LEMMA RebuildIs ==
    ASSUME NEW m, NEW s \in Seq(Ops)
    PROVE  Rebuild(m, s) = [i \in 0 .. Len(s) |-> IF i = 0 THEN {Begins(m)}
                                                ELSE Grown(m, s[i], Rebuild(m, s)[i - 1])]
<1> DEFINE Goes(f, k) == f = [i \in 0 .. k |-> IF i = 0 THEN {Begins(m)}
                                               ELSE Grown(m, s[i], f[i - 1])]
           Stuck == {k \in Nat : ~ \E f : Goes(f, k)}
<1>1. Len(s) \in Nat
  BY LenProperties
<1>2. Rebuild(m, s) = CHOOSE f : Goes(f, Len(s))
  BY DEF Rebuild, Begins, Puts, Grown
<1>3. Stuck = {}
  <2> SUFFICES ASSUME Stuck # {} PROVE FALSE
    OBVIOUS
  <2>1. PICK k \in Stuck : \A n \in Stuck : k <= n
    BY LeastMember
  <2>2. k # 0
    <3> DEFINE f == [i \in 0 .. 0 |-> {Begins(m)}]
    <3>1. \A i \in 0 .. 0 : i = 0
      OBVIOUS
    <3>2. f = [i \in 0 .. 0 |-> IF i = 0 THEN {Begins(m)} ELSE Grown(m, s[i], f[i - 1])]
      BY <3>1
    <3>3. Goes(f, 0)
      BY <3>2
    <3> QED BY <2>1, <3>3
  <2>3. k - 1 \in Nat /\ k - 1 \notin Stuck
    <3>1. k \in Nat
      BY <2>1
    <3>2. k - 1 \in Nat /\ ~ (k <= k - 1)
      BY <2>2, <3>1
    <3> HIDE DEF Stuck
    <3> QED BY <2>1, <3>2
  <2>4. PICK f : Goes(f, k - 1)
    BY <2>3
  <2> DEFINE h == [i \in 0 .. k |-> IF i = k THEN Grown(m, s[k], f[k - 1]) ELSE f[i]]
  <2>5. \A i \in 0 .. (k - 1) : h[i] = f[i]
    BY <2>3
  <2>6. \A i \in 0 .. (k - 1) : f[i] = IF i = 0 THEN {Begins(m)} ELSE Grown(m, s[i], f[i - 1])
    BY <2>4
  <2>7. ASSUME NEW i \in 0 .. k
        PROVE  h[i] = IF i = 0 THEN {Begins(m)} ELSE Grown(m, s[i], h[i - 1])
    <3>1. CASE i = k
      <4>1. h[k - 1] = f[k - 1]
        BY <2>3, <2>5
      <4> QED BY <2>2, <2>3, <3>1, <4>1
    <3>2. CASE i # k
      <4>1. i \in 0 .. (k - 1) /\ (i # 0 => i - 1 \in 0 .. (k - 1))
        BY <2>3, <3>2
      <4> QED BY <2>5, <2>6, <4>1
    <3> QED BY <3>1, <3>2
  <2>8. h = [i \in 0 .. k |-> h[i]]
    OBVIOUS
  <2> HIDE DEF h
  <2>9. Goes(h, k)
    BY <2>7, <2>8
  <2> QED BY <2>1, <2>9
<1>4. \E f : Goes(f, Len(s))
  BY <1>1, <1>3
<1> HIDE DEF Goes
<1>5. Goes(Rebuild(m, s), Len(s))
  BY <1>2, <1>4
<1> QED BY <1>5 DEF Goes

(* The instant n minutes of work after f is, for a machine that works,     *)
(* not before the end of as much work counted from an earlier instant.     *)
LEMMA ReleaseIsAwaited ==
    ASSUME NEW m \in Machines, NEW a \in Instants, NEW f \in Instants, NEW e \in Instants, a <= f,
           NEW t \in Ends(m, f, WorkBetween(m, a, e)), NEW p \in Working[m], t <= p
    PROVE  e <= p
<1> DEFINE Awaited == {x \in Working[m] : a <= x /\ x < e}
           Done == {x \in Working[m] : f <= x /\ x < t}
           n == Cardinality(Awaited)
<1>1. IsFiniteSet(Awaited) /\ n \in Nat /\ WorkBetween(m, a, e) = n
  BY WorkIsFinite DEF WorkBetween
<1>2. t \in (f + n) .. Horizon /\ Cardinality(Done) = n
  BY <1>1 DEF Ends, WorkBetween
<1>3. /\ Working[m] \subseteq Nat /\ a \in Nat /\ f \in Nat /\ e \in Nat /\ t \in Nat /\ f <= t
  <2>1. Working[m] \subseteq Instants
    BY TimelineAssumption
  <2>2. Working[m] \subseteq Nat /\ a \in Nat /\ f \in Nat /\ e \in Nat
    BY <2>1, InstantsAreNumbers
  <2> HIDE DEF n
  <2> QED BY <1>1, <1>2, <2>2, TimelineAssumption
<1> SUFFICES ASSUME p < e PROVE FALSE
  BY <1>3
<1>4. p \in Awaited
  BY <1>3
<1>5. Done \subseteq Awaited \ {p}
  BY <1>3
<1>6. IsFiniteSet(Awaited \ {p}) /\ Cardinality(Awaited \ {p}) = n - 1
  BY <1>1, <1>4, FS_RemoveElement
<1> HIDE DEF Awaited, Done, n
<1>7. Cardinality(Done) <= n - 1
  BY <1>5, <1>6, FS_Subset
<1> QED BY <1>1, <1>2, <1>7

(* What has been re-placed so far.                                         *)
MovedInv ==
    /\ moved \in [Ops -> EntryType]
    /\ \A op \in Ops : moved[op] # NotPlaced =>
         /\ placed[op] # NotPlaced /\ ~ Fixed(op)
         /\ moved[op].machine = placed[op].machine /\ ~ moved[op].kept
    /\ status # "done" => \A op \in Ops : moved[op] = NotPlaced

LEMMA PlanIs ==
    ASSUME TypeOK, OnTimeline, MovedInv, NEW op \in Ops
    PROVE  /\ Plan[op] \in EntryType /\ Plan[op].start \in Instants /\ Plan[op].end \in Instants
           /\ Plan[op].machine = placed[op].machine /\ Plan[op].kept = placed[op].kept
           /\ Plan[op] = NotPlaced <=> placed[op] = NotPlaced
           /\ Plan[op] = NotPlaced <=> Plan[op].machine = None
<1>1. Plan[op] = IF moved[op] = NotPlaced THEN placed[op] ELSE moved[op]
  BY DEF Plan
<1>2. placed[op] \in EntryType /\ moved[op] \in EntryType /\ NotPlaced.machine = None
  BY PlacedIs DEF MovedInv
<1>3. moved[op] # NotPlaced =>
         /\ placed[op] # NotPlaced /\ placed[op].kept = FALSE /\ moved[op].kept = FALSE
         /\ moved[op].machine = placed[op].machine
  BY <1>2 DEF MovedInv, Fixed, EntryType
<1>4. placed[op] # NotPlaced => placed[op].machine # None
  BY RunAssumption DEF OnTimeline
<1>5. Plan[op] \in EntryType
  BY <1>1, <1>2
<1>6. Plan[op].start \in Instants /\ Plan[op].end \in Instants
  BY <1>5 DEF EntryType
<1> QED BY <1>1, <1>2, <1>3, <1>4, <1>5, <1>6

(* initial.next_free is an instant, from now on.                           *)
LEMMA FirstFreeIs ==
    ASSUME TypeOK, in \in Inputs, OnTimeline, MovedInv, NEW m \in Machines
    PROVE  FirstFree(m) \in Instants /\ Now <= FirstFree(m)
<1> DEFINE T == {in.floor[m]} \union {Plan[op].end : op \in Planned(m) \ Movable(m)}
<1>1. in.floor[m] \in Instants /\ Now <= in.floor[m]
  BY InputFields, ResequencingAssumption DEF TypeOK
<1>2. T \subseteq Instants
  BY <1>1, PlanIs DEF Planned
<1>3. PICK s \in T : \A u \in T : u <= s
  <2>1. T \in SUBSET Nat /\ T # {} /\ \A u \in T : u <= Horizon
    BY <1>2, InstantsAreNumbers
  <2> HIDE DEF T
  <2> QED BY <2>1, GreatestMember, TimelineAssumption
<1>4. FirstFree(m) \in T /\ in.floor[m] <= FirstFree(m)
  BY <1>3 DEF FirstFree
<1>5. FirstFree(m) \in Instants
  BY <1>2, <1>4
<1> QED BY <1>1, <1>4, <1>5, RunAssumption, InstantsAreNumbers

LEMMA AnchorIs ==
    ASSUME TypeOK, OnTimeline, MovedInv, NEW m \in Machines
    PROVE  Anchor(m) \in Instants /\ Anchor(m) <= Now
<1> DEFINE T == {Now} \union {Plan[op].start : op \in Planned(m)}
<1>1. T \subseteq Instants /\ T # {}
  BY PlanIs, RunAssumption DEF Planned
<1>2. PICK s \in T : \A u \in T : s <= u
  <2>1. T \in SUBSET Nat
    BY <1>1, InstantsAreNumbers
  <2> HIDE DEF T
  <2> QED BY <1>1, <2>1, LeastMember
<1>3. Anchor(m) \in T /\ Anchor(m) <= Now
  BY <1>2 DEF Anchor
<1> QED BY <1>1, <1>3

LEMMA PositionIs ==
    ASSUME OperationsApart, NEW o \in Orders, NEW i \in DOMAIN Route[o]
    PROVE  /\ Route[o][i] \in Ops /\ Route[o][i] # None
           /\ OrderOf(Route[o][i]) = o
           /\ (CHOOSE k \in DOMAIN Route[o] : Route[o][k] = Route[o][i]) = i
<1>1. Route[o] \in Seq(Ops)
  BY RunAssumption
<1>2. Route[o][i] \in Ops
  BY <1>1, ElementOfSeq, LenProperties
<1>3. \A p \in Orders : (\E j \in DOMAIN Route[p] : Route[p][j] = Route[o][i]) => p = o
  BY DEF OperationsApart
<1>4. \A k \in DOMAIN Route[o] : Route[o][k] = Route[o][i] => k = i
  BY DEF OperationsApart
<1> QED BY <1>2, <1>3, <1>4, RunAssumption DEF OrderOf

LEMMA NeighbourAt ==
    ASSUME OperationsApart, NEW o \in Orders, NEW i \in DOMAIN Route[o], NEW step
    PROVE  Neighbour(Route[o][i], step)
             = IF i + step \in DOMAIN Route[o] THEN Route[o][i + step] ELSE None
<1> DEFINE op == Route[o][i]
           at(p) == CHOOSE k \in DOMAIN Route[p] : Route[p][k] = op
<1>1. OrderOf(op) = o /\ at(o) = i
  BY PositionIs
<1>2. Neighbour(op, step)
        = IF at(OrderOf(op)) + step \in DOMAIN Route[OrderOf(op)]
          THEN Route[OrderOf(op)][at(OrderOf(op)) + step] ELSE None
  BY DEF Neighbour
<1> HIDE DEF op, at
<1>3. Neighbour(op, step) = IF i + step \in DOMAIN Route[o] THEN Route[o][i + step] ELSE None
  BY <1>1, <1>2
<1> QED BY <1>3 DEF op

LEMMA NeighboursAre ==
    ASSUME OperationsApart, OperationsRouted, NEW op \in Ops
    PROVE  /\ Neighbour(op, 1) \in Ops \union {None} /\ Neighbour(op, -1) \in Ops \union {None}
           /\ Neighbour(op, 1) # None => Neighbour(Neighbour(op, 1), -1) = op
           /\ Neighbour(op, -1) # op
<1>1. PICK o \in Orders : \E i \in DOMAIN Route[o] : Route[o][i] = op
  BY DEF OperationsRouted
<1> PICK i \in DOMAIN Route[o] : Route[o][i] = op
  BY <1>1
<1>2. Route[o] \in Seq(Ops) /\ DOMAIN Route[o] \subseteq Nat
  BY RunAssumption, LenProperties
<1>3. \A step \in {1, -1} :
        Neighbour(op, step) = IF i + step \in DOMAIN Route[o] THEN Route[o][i + step] ELSE None
  BY NeighbourAt
<1>4. \A k \in DOMAIN Route[o] : Route[o][k] \in Ops /\ Route[o][k] # None
  BY PositionIs
<1>5. Neighbour(op, 1) \in Ops \union {None} /\ Neighbour(op, -1) \in Ops \union {None}
  BY <1>3, <1>4
<1>6. ASSUME Neighbour(op, 1) # None
      PROVE  Neighbour(Neighbour(op, 1), -1) = op
  <2>1. i + 1 \in DOMAIN Route[o] /\ Neighbour(op, 1) = Route[o][i + 1]
    BY <1>3, <1>6
  <2>2. Neighbour(Route[o][i + 1], -1)
          = IF (i + 1) + (-1) \in DOMAIN Route[o] THEN Route[o][(i + 1) + (-1)] ELSE None
    BY <2>1, NeighbourAt
  <2>3. i \in Int
    BY <1>2
  <2>4. (i + 1) + (-1) = i
    BY <2>3
  <2> QED BY <2>1, <2>2, <2>4
<1>7. Neighbour(op, -1) # op
  <2>1. i + (-1) \in DOMAIN Route[o] => Route[o][i + (-1)] # Route[o][i]
    BY <1>2 DEF OperationsApart
  <2> QED BY <1>3, <1>4, <2>1
<1> QED BY <1>5, <1>6, <1>7

(* An entry that may take the place of the one op has on m.                *)
WellPlaced(m, op, e) ==
    /\ e \in EntryType /\ e.machine = m /\ e.kept = FALSE
    /\ e.start \in Instants /\ e.end \in Instants /\ e.start <= e.end
    /\ Clear(e, Blocked(m))
    /\ Bound(op, m) => e.end <= Plan[op].end
    /\ ~ FollowsOn(op, m) /\ MachineOf(Neighbour(op, -1)) # None
         => Plan[Neighbour(op, -1)].end <= e.start

LEMMA ReplacedIs ==
    ASSUME TypeOK, in \in Inputs, OnTimeline, MovedInv, OperationsApart, OperationsRouted,
           NEW m \in Machines, NEW op \in Movable(m), NEW st, st.free \in Instants,
           NEW e \in Replaced(m, op, st), ~ Refused(m, op, st, e)
    PROVE  WellPlaced(m, op, e) /\ st.free <= e.start
<1>1. op \in Ops
  BY DEF Movable, Planned
<1>2. PICK t \in Ends(m, FirstFree(m), ReleaseWork(op, m)) :
        \E p \in Spans(m, Later(st.free, t), SetupMinutes(op, st.family) + Run[op], Blocked(m)) :
          e = [machine |-> m, start |-> p.start, end |-> p.end, kept |-> FALSE]
  BY DEF Replaced
<1> DEFINE n == SetupMinutes(op, st.family) + Run[op]
           f == FirstFree(m)
<1> PICK p \in Spans(m, Later(st.free, t), n, Blocked(m)) :
          e = [machine |-> m, start |-> p.start, end |-> p.end, kept |-> FALSE]
  BY <1>2
<1>3. n \in Nat
  BY <1>1, MinutesType
<1>4. f \in Instants /\ Now <= f
  BY FirstFreeIs
<1>5. ReleaseWork(op, m) \in Nat
  BY WorkIsFinite DEF ReleaseWork
<1>6. t \in Instants /\ f <= t
  <2>1. f \in Nat /\ t \in (f + ReleaseWork(op, m)) .. Horizon /\ Horizon \in Nat
    BY <1>4, InstantsAreNumbers, TimelineAssumption DEF Ends
  <2> HIDE DEF f
  <2> QED BY <1>5, <2>1 DEF Instants
<1>7. Later(st.free, t) \in Instants /\ st.free <= Later(st.free, t) /\ t <= Later(st.free, t)
  <2>1. st.free \in Nat /\ t \in Nat
    BY <1>6, InstantsAreNumbers
  <2> QED BY <1>6, <2>1 DEF Later
<1>8. \A w \in Blocked(m) : w.end \in Instants
  <2>1. \A w \in in.windows : w.end \in Instants
    BY InputFields DEF TypeOK, Windows
  <2>2. \A q \in Planned(m) : Plan[q].end \in Instants
    BY PlanIs DEF Planned
  <2> QED BY <2>1, <2>2 DEF Blocked
<1> HIDE DEF n, f
<1>9. /\ p.start \in Working[m] /\ p.start \in Instants /\ p.end \in Instants
      /\ p.end \in Ends(m, p.start, n) /\ Later(st.free, t) <= p.start
  BY <1>3, <1>7, <1>8, SpanIs
<1>10. p.start \in Nat /\ p.end \in Nat /\ st.free \in Nat /\ t \in Nat /\ Later(st.free, t) \in Nat
  BY <1>6, <1>7, <1>9, InstantsAreNumbers
<1>11. st.free <= p.start /\ t <= p.start
  BY <1>7, <1>9, <1>10
<1>12. p.start <= p.end
  BY <1>3, <1>9, <1>10, TimelineAssumption DEF Ends
<1>13. Clear(p, Blocked(m))
  BY DEF Spans, Feasible
<1>14. /\ e.machine = m /\ e.start = p.start /\ e.end = p.end /\ e.kept = FALSE
       /\ e \in EntryType
  BY <1>9 DEF EntryType
<1>15. Bound(op, m) => e.end <= Plan[op].end
  BY <1>10, <1>14, <1>1, PlanIs, InstantsAreNumbers DEF Refused
<1>16. ASSUME ~ FollowsOn(op, m), MachineOf(Neighbour(op, -1)) # None
       PROVE  Plan[Neighbour(op, -1)].end <= e.start
  <2>1. Neighbour(op, -1) \in Ops
    BY <1>1, <1>16, NeighboursAre DEF MachineOf
  <2>2. Plan[Neighbour(op, -1)].end \in Instants
    BY <2>1, PlanIs
  <2>3. ReleaseWork(op, m) = WorkBetween(m, Anchor(m), Plan[Neighbour(op, -1)].end)
    BY <1>16 DEF ReleaseWork
  <2>4. Anchor(m) \in Instants /\ Anchor(m) <= f
    <3>1. Anchor(m) \in Instants /\ Anchor(m) <= Now
      BY AnchorIs
    <3>2. Anchor(m) \in Nat /\ Now \in Nat /\ f \in Nat
      BY <1>4, <3>1, RunAssumption, InstantsAreNumbers
    <3> QED BY <1>4, <3>1, <3>2
  <2>5. t \in Ends(m, f, WorkBetween(m, Anchor(m), Plan[Neighbour(op, -1)].end))
    BY <1>2, <2>3 DEF f
  <2> QED BY <1>4, <1>9, <1>11, <1>14, <2>2, <2>4, <2>5, ReleaseIsAwaited
<1>17. Clear(e, Blocked(m))
  BY <1>13, <1>14 DEF Clear
<1> QED BY <1>9, <1>11, <1>12, <1>14, <1>15, <1>16, <1>17 DEF WellPlaced
-----------------------------------------------------------------------------
(* One machine, placed again in the order s                                *)

LEMMA SequenceIs ==
    ASSUME IsFiniteSet(Ops), NEW m, NEW s \in Sequences(m)
    PROVE  /\ s \in Seq(Ops) /\ Len(s) \in Nat /\ DOMAIN s = 1 .. Len(s)
           /\ \A i \in 1 .. Len(s) : s[i] \in Movable(m)
           /\ \A i, j \in 1 .. Len(s) : s[i] = s[j] => i = j
           /\ Movable(m) = {s[i] : i \in 1 .. Len(s)}
<1> DEFINE n == Cardinality(Movable(m))
<1>1. Movable(m) \subseteq Ops
  BY DEF Movable, Planned
<1>2. IsFiniteSet(Movable(m)) /\ n \in Nat
  BY <1>1, FS_Subset, FS_CardinalityType
<1>3. s \in [1 .. n -> Movable(m)] /\ \A op \in Movable(m) : \E i \in 1 .. n : s[i] = op
  BY DEF Sequences
<1>4. IsFiniteSet(1 .. n) /\ Cardinality(1 .. n) = n
  <2> HIDE DEF n
  <2> QED BY <1>2, FS_Interval
<1>5. s \in Surjection(1 .. n, Movable(m))
  BY <1>3 DEF Surjection
<1>6. s \in Injection(1 .. n, Movable(m))
  BY <1>4, <1>5, FS_SurjSameCardinalityImpliesInj
<1> HIDE DEF n
<1>7. \A i, j \in 1 .. n : s[i] = s[j] => i = j
  BY <1>3, <1>6 DEF Injection, IsInjective
<1>8. s \in [1 .. n -> Ops]
  BY <1>1, <1>3
<1>9. s \in Seq(Ops) /\ Len(s) = n
  BY <1>2, <1>8, IsASeq, LenProperties
<1> QED BY <1>2, <1>3, <1>7, <1>9

(* A state of _rebuild after the first i jobs of s.                        *)
RebuiltAt(m, s, i, st) ==
    /\ st.free \in Instants
    /\ DOMAIN st.entries = {s[j] : j \in 1 .. i}
    /\ \A j \in 1 .. i :
          WellPlaced(m, s[j], st.entries[s[j]]) /\ st.entries[s[j]].end <= st.free
    /\ \A k \in 1 .. i : \A j \in 1 .. (k - 1) :
          st.entries[s[j]].end <= st.entries[s[k]].start
    /\ \A k \in 1 .. i :
          FollowsOn(s[k], m) => \E j \in 1 .. (k - 1) : s[j] = Neighbour(s[k], -1)

LEMMA OneMoreRebuilt ==
    ASSUME TypeOK, in \in Inputs, OnTimeline, MovedInv, OperationsApart, OperationsRouted,
           IsFiniteSet(Ops), NEW m \in Machines, NEW s \in Sequences(m), NEW i \in 1 .. Len(s),
           NEW st, RebuiltAt(m, s, i - 1, st),
           NEW e \in Replaced(m, s[i], st), ~ Refused(m, s[i], st, e)
    PROVE  RebuiltAt(m, s, i, Puts(s[i], st, e))
<1> DEFINE n == Puts(s[i], st, e)
<1>1. /\ Len(s) \in Nat /\ s[i] \in Movable(m)
      /\ \A j, k \in 1 .. Len(s) : s[j] = s[k] => j = k
  BY SequenceIs
<1>2. i \in Nat /\ i - 1 \in Nat /\ 1 .. i = 1 .. (i - 1) \union {i} /\ i \notin 1 .. (i - 1)
      /\ 1 .. i \subseteq 1 .. Len(s)
  BY <1>1
<1>3. st.free \in Instants
  BY DEF RebuiltAt
<1>4. WellPlaced(m, s[i], e) /\ st.free <= e.start
  BY <1>1, <1>3, ReplacedIs
<1>5. /\ n.free = Later(st.free, e.end)
      /\ DOMAIN n.entries = DOMAIN st.entries \union {s[i]}
      /\ n.entries[s[i]] = e
      /\ \A q \in DOMAIN st.entries : q # s[i] => n.entries[q] = st.entries[q]
  BY DEF Puts
<1> HIDE DEF n
<1>6. /\ st.free \in Nat /\ e.start \in Nat /\ e.end \in Nat /\ e.end \in Instants
      /\ e.start <= e.end
  BY <1>3, <1>4, InstantsAreNumbers DEF WellPlaced
<1>7. n.free \in Instants /\ n.free \in Nat /\ st.free <= n.free /\ e.end <= n.free
  <2>1. Later(st.free, e.end) \in {st.free, e.end} /\ st.free <= Later(st.free, e.end)
        /\ e.end <= Later(st.free, e.end)
    BY <1>6 DEF Later
  <2> QED BY <1>3, <1>5, <1>6, <2>1
<1>8. ASSUME NEW j \in 1 .. (i - 1)
      PROVE  /\ s[j] # s[i] /\ n.entries[s[j]] = st.entries[s[j]]
             /\ WellPlaced(m, s[j], st.entries[s[j]])
             /\ st.entries[s[j]].end <= st.free /\ st.entries[s[j]].end \in Nat
  <2>1. s[j] # s[i]
    BY <1>1, <1>2
  <2>2. /\ s[j] \in DOMAIN st.entries
        /\ WellPlaced(m, s[j], st.entries[s[j]]) /\ st.entries[s[j]].end <= st.free
    BY DEF RebuiltAt
  <2>3. st.entries[s[j]].end \in Nat
    BY <2>2, InstantsAreNumbers DEF WellPlaced
  <2> QED BY <1>5, <2>1, <2>2, <2>3
<1>9. DOMAIN n.entries = {s[j] : j \in 1 .. i}
  BY <1>2, <1>5 DEF RebuiltAt
<1>10. \A j \in 1 .. i : WellPlaced(m, s[j], n.entries[s[j]]) /\ n.entries[s[j]].end <= n.free
  <2> TAKE j \in 1 .. i
  <2>1. CASE j = i
    BY <1>4, <1>5, <1>7, <2>1
  <2>2. CASE j # i
    <3>1. j \in 1 .. (i - 1)
      BY <1>2, <2>2
    <3>2. /\ WellPlaced(m, s[j], n.entries[s[j]])
          /\ n.entries[s[j]].end <= st.free /\ n.entries[s[j]].end \in Nat
      BY <1>8, <3>1
    <3>3. n.entries[s[j]].end <= n.free
      BY <1>6, <1>7, <3>2
    <3> QED BY <3>2, <3>3
  <2> QED BY <2>1, <2>2
<1>11. \A k \in 1 .. i : \A j \in 1 .. (k - 1) : n.entries[s[j]].end <= n.entries[s[k]].start
  <2> TAKE k \in 1 .. i
  <2> TAKE j \in 1 .. (k - 1)
  <2>1. CASE k = i
    BY <1>4, <1>5, <1>6, <1>8, <2>1
  <2>2. CASE k # i
    <3>1. k \in 1 .. (i - 1) /\ j \in 1 .. (i - 1)
      BY <1>2, <2>2
    <3>2. st.entries[s[j]].end <= st.entries[s[k]].start
      BY <3>1 DEF RebuiltAt
    <3> QED BY <1>8, <3>1, <3>2
  <2> QED BY <2>1, <2>2
<1>12. \A k \in 1 .. i :
          FollowsOn(s[k], m) => \E j \in 1 .. (k - 1) : s[j] = Neighbour(s[k], -1)
  <2> TAKE k \in 1 .. i
  <2>1. CASE k = i
    <3>1. FollowsOn(s[i], m) => Neighbour(s[i], -1) \in DOMAIN st.entries
      BY DEF Refused
    <3> QED BY <2>1, <3>1 DEF RebuiltAt
  <2>2. CASE k # i
    <3>1. k \in 1 .. (i - 1)
      BY <1>2, <2>2
    <3> QED BY <3>1 DEF RebuiltAt
  <2> QED BY <2>1, <2>2
<1>13. RebuiltAt(m, s, i, n)
  BY <1>7, <1>9, <1>10, <1>11, <1>12 DEF RebuiltAt
<1> QED BY <1>13 DEF n

LEMMA RebuildsAre ==
    ASSUME TypeOK, in \in Inputs, OnTimeline, MovedInv, OperationsApart, OperationsRouted,
           IsFiniteSet(Ops), NEW m \in Machines, NEW s \in Sequences(m), NEW i \in 0 .. Len(s),
           NEW st \in Rebuild(m, s)[i]
    PROVE  RebuiltAt(m, s, i, st)
<1> DEFINE All(k) == \A x \in Rebuild(m, s)[k] : RebuiltAt(m, s, k, x)
           Bad == {k \in 0 .. Len(s) : ~ All(k)}
<1>1. s \in Seq(Ops) /\ Len(s) \in Nat
  BY SequenceIs
<1>2. \A k \in 0 .. Len(s) :
        Rebuild(m, s)[k] = IF k = 0 THEN {Begins(m)} ELSE Grown(m, s[k], Rebuild(m, s)[k - 1])
  <2> DEFINE R == Rebuild(m, s)
  <2>1. R = [k \in 0 .. Len(s) |-> IF k = 0 THEN {Begins(m)} ELSE Grown(m, s[k], R[k - 1])]
    BY <1>1, RebuildIs
  <2> HIDE DEF R
  <2>2. \A k \in 0 .. Len(s) :
          R[k] = IF k = 0 THEN {Begins(m)} ELSE Grown(m, s[k], R[k - 1])
    BY <2>1
  <2> QED BY <2>2 DEF R
<1>3. Bad = {}
  <2> SUFFICES ASSUME Bad # {} PROVE FALSE
    OBVIOUS
  <2>1. PICK k \in Bad : \A n \in Bad : k <= n
    <3>1. Bad \in SUBSET Nat
      BY <1>1
    <3> HIDE DEF Bad
    <3> QED BY <3>1, LeastMember
  <2>2. k \in 0 .. Len(s) /\ ~ All(k)
    BY <2>1
  <2>3. k # 0
    <3> SUFFICES ASSUME k = 0 PROVE All(k)
      BY <2>2
    <3>1. 0 \in 0 .. Len(s)
      BY <1>1
    <3>2. Rebuild(m, s)[0] = {Begins(m)}
      BY <1>2, <3>1
    <3>3. Begins(m).free = FirstFree(m) /\ DOMAIN Begins(m).entries = {}
      BY DEF Begins
    <3>4. Begins(m).free \in Instants
      BY <3>3, FirstFreeIs
    <3>5. 1 .. 0 = {}
      OBVIOUS
    <3>6. RebuiltAt(m, s, 0, Begins(m))
      BY <3>3, <3>4, <3>5 DEF RebuiltAt
    <3> QED BY <3>2, <3>6
  <2>4. k \in 1 .. Len(s) /\ k - 1 \in 0 .. Len(s) /\ ~ (k <= k - 1)
    BY <1>1, <2>2, <2>3
  <2>5. All(k - 1)
    BY <2>1, <2>4
  <2>6. ASSUME NEW x \in Rebuild(m, s)[k] PROVE RebuiltAt(m, s, k, x)
    <3>1. x \in Grown(m, s[k], Rebuild(m, s)[k - 1])
      BY <1>2, <2>2, <2>3
    <3>2. PICK y \in Rebuild(m, s)[k - 1] :
            \E e \in Replaced(m, s[k], y) : ~ Refused(m, s[k], y, e) /\ x = Puts(s[k], y, e)
      BY <3>1 DEF Grown
    <3>3. PICK e \in Replaced(m, s[k], y) : ~ Refused(m, s[k], y, e) /\ x = Puts(s[k], y, e)
      BY <3>2
    <3>4. RebuiltAt(m, s, k - 1, y)
      BY <2>5
    <3> QED BY <2>4, <3>3, <3>4, OneMoreRebuilt
  <2> QED BY <2>2, <2>6
<1>4. All(i)
  BY <1>3
<1> QED BY <1>4

(* What a machine that is re-sequenced is given.                           *)
LEMMA ResequencedIs ==
    ASSUME TypeOK, in \in Inputs, OnTimeline, MovedInv, OperationsApart, OperationsRouted,
           IsFiniteSet(Ops), NEW m \in Machines, NEW s \in Sequences(m),
           NEW entries \in Resequenced(m, s)
    PROVE  /\ DOMAIN entries = Movable(m)
           /\ \A op \in Movable(m) : WellPlaced(m, op, entries[op])
           /\ \A op, q \in Movable(m) :
                op # q => entries[op].end <= entries[q].start \/ entries[q].end <= entries[op].start
           /\ \A op \in Movable(m) : FollowsOn(op, m) =>
                /\ Neighbour(op, -1) \in Movable(m)
                /\ entries[Neighbour(op, -1)].end <= entries[op].start
<1>1. /\ Len(s) \in Nat /\ Movable(m) = {s[i] : i \in 1 .. Len(s)}
      /\ \A i \in 1 .. Len(s) : s[i] \in Movable(m)
  BY SequenceIs
<1>2. PICK st \in Rebuild(m, s)[Len(s)] : entries = st.entries
  BY DEF Resequenced
<1>3. Len(s) \in 0 .. Len(s)
  BY <1>1
<1>4. RebuiltAt(m, s, Len(s), st)
  BY <1>3, RebuildsAre
<1>5. DOMAIN entries = Movable(m)
  BY <1>1, <1>2, <1>4 DEF RebuiltAt
<1>6. \A op \in Movable(m) : \E i \in 1 .. Len(s) : op = s[i]
  BY <1>1
<1>7. \A op \in Movable(m) : WellPlaced(m, op, entries[op])
  BY <1>2, <1>4, <1>6 DEF RebuiltAt
<1>8. ASSUME NEW op \in Movable(m), NEW q \in Movable(m), op # q
      PROVE  entries[op].end <= entries[q].start \/ entries[q].end <= entries[op].start
  <2>1. PICK i \in 1 .. Len(s) : op = s[i]
    BY <1>6
  <2>2. PICK j \in 1 .. Len(s) : q = s[j]
    BY <1>6
  <2>3. i \in 1 .. (j - 1) \/ j \in 1 .. (i - 1)
    BY <1>1, <1>8, <2>1, <2>2
  <2> QED BY <1>2, <1>4, <2>1, <2>2, <2>3 DEF RebuiltAt
<1>9. ASSUME NEW op \in Movable(m), FollowsOn(op, m)
      PROVE  /\ Neighbour(op, -1) \in Movable(m)
             /\ entries[Neighbour(op, -1)].end <= entries[op].start
  <2>1. PICK k \in 1 .. Len(s) : op = s[k]
    BY <1>6
  <2>2. PICK j \in 1 .. (k - 1) : s[j] = Neighbour(op, -1)
    BY <1>4, <1>9, <2>1 DEF RebuiltAt
  <2>3. j \in 1 .. Len(s)
    BY <1>1
  <2>4. entries[s[j]].end <= entries[s[k]].start
    BY <1>2, <1>4 DEF RebuiltAt
  <2> QED BY <1>1, <2>1, <2>2, <2>3, <2>4
<1> QED BY <1>5, <1>7, <1>8, <1>9
-----------------------------------------------------------------------------
(* The plan as machines are re-sequenced                                   *)

(* PlanStaysSound, of any plan.                                            *)
BookedApart(plan) ==
    \A op, q \in Ops :
        plan[op] # NotPlaced /\ ~ plan[op].kept /\ q # op /\ plan[q].machine = plan[op].machine
          => ~ Overlap(plan[op], plan[q])

WindowsFree(plan) ==
    \A op \in Ops : \A w \in in.windows :
        plan[op] # NotPlaced /\ ~ plan[op].kept
          /\ w.machine = plan[op].machine /\ w.order # OrderOf(op)
            => ~ Overlap(w, plan[op])

InTurn(plan, op, next) ==
    plan[op] # NotPlaced /\ plan[next] # NotPlaced
      /\ ~ (Fixed(next) /\ plan[next].machine = plan[op].machine)
      /\ placed[op].end <= placed[next].start
    => plan[op].end <= plan[next].start

RoutesKept(plan) ==
    \A op \in Ops : Neighbour(op, 1) # None => InTurn(plan, op, Neighbour(op, 1))

LEMMA SoundIs ==
    ASSUME NEW plan, plan = Plan
    PROVE  PlanStaysSound <=> BookedApart(plan) /\ WindowsFree(plan) /\ RoutesKept(plan)
<1>1. None \notin Ops
  BY RunAssumption
<1>2. \A op \in Ops : LET next == Neighbour(op, 1)
                      IN  RouteKept(op, next) <=> (next # None => InTurn(plan, op, next))
  BY <1>1 DEF RouteKept, InTurn, MachineOf
<1>3. (\A op \in Ops : RouteKept(op, Neighbour(op, 1))) <=> RoutesKept(plan)
  BY <1>2 DEF RoutesKept
<1> DEFINE new == {op \in Ops : Plan[op] # NotPlaced /\ ~ Plan[op].kept}
<1>4. (\A op \in new : \A q \in Ops \ {op} :
          Plan[q].machine = Plan[op].machine => ~ Overlap(Plan[op], Plan[q])) <=> BookedApart(plan)
  BY DEF BookedApart
<1>5. (\A op \in new : \A w \in in.windows :
          w.machine = Plan[op].machine /\ w.order # OrderOf(op) => ~ Overlap(w, Plan[op]))
        <=> WindowsFree(plan)
  BY DEF WindowsFree
<1> QED BY <1>3, <1>4, <1>5 DEF PlanStaysSound

(* The plan of the rule-based run is sound.                                *)
LEMMA RuleBasedIsSound ==
    ASSUME PlanInv, Plan = placed
    PROVE  PlanStaysSound
<1>1. TypeOK /\ BookedInv /\ OnTimeline /\ WindowsKept /\ timelines \in [Machines -> Timelines]
  BY DEF PlanInv, IInv, TypeOK
<1>2. ASSUME NEW op \in Ops, NEW q \in Ops, placed[op] # NotPlaced, q # op,
             placed[q].machine = placed[op].machine
      PROVE  ~ Overlap(placed[op], placed[q])
  <2>1. placed[op].machine \in Machines /\ placed[q] # NotPlaced
    <3>1. placed[op].machine \in Machines
      BY <1>1, <1>2 DEF OnTimeline
    <3>2. NotPlaced.machine = None /\ None \notin Machines
      BY RunAssumption DEF NotPlaced
    <3> QED BY <1>2, <3>1, <3>2
  <2>2. PICK s \in timelines[placed[op].machine].slots :
          s.op = op /\ s.start = placed[op].start /\ s.end = placed[op].end
    BY <1>1, <1>2 DEF OnTimeline
  <2>3. PICK u \in timelines[placed[op].machine].slots :
          u.op = q /\ u.start = placed[q].start /\ u.end = placed[q].end
    BY <1>1, <1>2, <2>1 DEF OnTimeline
  <2>4. s.end <= u.start \/ u.end <= s.start
    BY <1>1, <1>2, <2>1, <2>2, <2>3 DEF BookedInv, Booked, SlotsDisjoint
  <2>5. /\ placed[op].start \in Nat /\ placed[op].end \in Nat
        /\ placed[q].start \in Nat /\ placed[q].end \in Nat
    BY <1>1, PlacedIs, InstantsAreNumbers DEF EntryType
  <2> QED BY <2>2, <2>3, <2>4, <2>5 DEF Overlap
<1>3. BookedApart(placed)
  BY <1>2 DEF BookedApart
<1>4. WindowsFree(placed)
  BY <1>1 DEF WindowsFree, WindowsKept, Overlap
<1>5. RoutesKept(placed)
  BY DEF RoutesKept, InTurn
<1> QED BY <1>3, <1>4, <1>5, SoundIs

(* Re-sequencing one machine keeps the plan sound.                         *)
LEMMA ResequencedIsSound ==
    ASSUME TypeOK, in \in Inputs, OnTimeline, MovedInv, PlanStaysSound,
           OperationsApart, OperationsRouted, IsFiniteSet(Ops),
           NEW m \in Machines, NEW s \in Sequences(m), NEW entries \in Resequenced(m, s),
           NEW plan, plan = [op \in Ops |-> IF op \in Movable(m) THEN entries[op] ELSE Plan[op]]
    PROVE  BookedApart(plan) /\ WindowsFree(plan) /\ RoutesKept(plan)
<1>1. /\ \A op \in Movable(m) : WellPlaced(m, op, entries[op])
      /\ \A op, q \in Movable(m) :
           op # q => entries[op].end <= entries[q].start \/ entries[q].end <= entries[op].start
      /\ \A op \in Movable(m) : FollowsOn(op, m) =>
           /\ Neighbour(op, -1) \in Movable(m)
           /\ entries[Neighbour(op, -1)].end <= entries[op].start
  BY ResequencedIs
<1>2. BookedApart(Plan) /\ WindowsFree(Plan) /\ RoutesKept(Plan)
  BY SoundIs
<1>3. \A op \in Movable(m) : op \in Ops /\ plan[op] = entries[op]
  BY DEF Movable, Planned
<1>4. \A op \in Ops \ Movable(m) : plan[op] = Plan[op]
  OBVIOUS
<1>5. \A op \in Movable(m) : /\ plan[op].machine = m /\ Plan[op].machine = m
                             /\ Clear(plan[op], Blocked(m)) /\ ~ Fixed(op)
  BY <1>1, <1>3 DEF WellPlaced, Movable, Planned
<1>6. \A op \in Ops : /\ plan[op].start \in Nat /\ plan[op].end \in Nat
                      /\ Plan[op].start \in Nat /\ Plan[op].end \in Nat
  BY <1>1, <1>3, <1>4, PlanIs, InstantsAreNumbers DEF WellPlaced
<1>7. \A op \in Ops : plan[op] # NotPlaced => Plan[op] # NotPlaced
  <2>1. m # None
    BY RunAssumption
  <2> QED BY <2>1, <1>4, <1>5, PlanIs
<1>8. BookedApart(plan)
  <2> SUFFICES ASSUME NEW op \in Ops, NEW q \in Ops, plan[op] # NotPlaced, ~ plan[op].kept, q # op,
                      plan[q].machine = plan[op].machine
               PROVE  ~ Overlap(plan[op], plan[q])
    BY DEF BookedApart
  <2>1. ASSUME NEW a \in Movable(m), NEW b \in Ops \ Movable(m), plan[b].machine = m
        PROVE  ~ Overlap(plan[a], plan[b]) /\ ~ Overlap(plan[b], plan[a])
    <3>1. b \in Planned(m) \ Movable(m) /\ plan[b] = Plan[b]
      BY <1>4, <2>1 DEF Planned
    <3>2. [start |-> Plan[b].start, end |-> Plan[b].end] \in Blocked(m)
      BY <3>1 DEF Blocked
    <3> QED BY <1>5, <3>1, <3>2 DEF Clear, Overlap
  <2>2. CASE op \in Movable(m) /\ q \in Movable(m)
    BY <1>1, <1>3, <1>6, <2>2 DEF Overlap
  <2>3. CASE op \in Movable(m) /\ q \notin Movable(m)
    BY <1>5, <2>1, <2>3
  <2>4. CASE op \notin Movable(m) /\ q \in Movable(m)
    BY <1>5, <2>1, <2>4
  <2>5. CASE op \notin Movable(m) /\ q \notin Movable(m)
    BY <1>2, <1>4, <2>5 DEF BookedApart
  <2> QED BY <2>2, <2>3, <2>4, <2>5
<1>9. WindowsFree(plan)
  <2> SUFFICES ASSUME NEW op \in Ops, NEW w \in in.windows, plan[op] # NotPlaced, ~ plan[op].kept,
                      w.machine = plan[op].machine, w.order # OrderOf(op)
               PROVE  ~ Overlap(w, plan[op])
    BY DEF WindowsFree
  <2>1. CASE op \in Movable(m)
    <3>1. [start |-> w.start, end |-> w.end] \in Blocked(m)
      BY <1>5, <2>1 DEF Blocked
    <3> QED BY <1>5, <2>1, <3>1 DEF Clear, Overlap
  <2>2. CASE op \notin Movable(m)
    BY <1>2, <1>4, <2>2 DEF WindowsFree
  <2> QED BY <2>1, <2>2
<1>10. RoutesKept(plan)
  <2> SUFFICES ASSUME NEW op \in Ops, NEW next, next = Neighbour(op, 1), next # None,
                      plan[op] # NotPlaced, plan[next] # NotPlaced,
                      ~ (Fixed(next) /\ plan[next].machine = plan[op].machine),
                      placed[op].end <= placed[next].start
               PROVE  plan[op].end <= plan[next].start
    BY DEF RoutesKept, InTurn
  <2>1. next \in Ops /\ Neighbour(next, -1) = op /\ op # None
    BY NeighboursAre, RunAssumption
  <2>2. Plan[op] # NotPlaced /\ Plan[next] # NotPlaced
    BY <1>7, <2>1
  <2>3. plan[op].machine = Plan[op].machine /\ plan[next].machine = Plan[next].machine
    BY <1>4, <1>5, <2>1
  <2>4. Plan[op].end <= Plan[next].start
    BY <1>2, <2>1, <2>2, <2>3 DEF RoutesKept, InTurn
  <2>5. MachineOf(op) = Plan[op].machine /\ MachineOf(next) = Plan[next].machine
    BY <2>1, RunAssumption DEF MachineOf
  <2>6. Plan[op].machine # None /\ Plan[next].machine # None
    BY <2>1, <2>2, PlanIs
  <2>7. CASE next \in Movable(m) /\ FollowsOn(next, m)
    BY <1>1, <1>3, <2>1, <2>7
  <2>8. CASE next \in Movable(m) /\ ~ FollowsOn(next, m)
    <3>1. op \notin Movable(m)
      BY <1>5, <2>1, <2>5, <2>8 DEF FollowsOn
    <3>2. Plan[op].end <= entries[next].start
      BY <1>1, <2>1, <2>5, <2>6, <2>8 DEF WellPlaced
    <3> QED BY <1>3, <1>4, <2>8, <3>1, <3>2
  <2>9. CASE next \notin Movable(m) /\ op \in Movable(m)
    <3>1. Plan[next].machine # m
      <4>1. SUFFICES ASSUME Plan[next].machine = m PROVE Fixed(next)
        BY <1>5, <2>3, <2>9
      <4> QED BY <2>1, <2>9, <4>1 DEF Movable, Planned
    <3>2. Bound(op, m)
      BY <2>5, <2>6, <3>1 DEF Bound
    <3>3. entries[op].end <= Plan[op].end
      BY <1>1, <2>9, <3>2 DEF WellPlaced
    <3> QED BY <1>3, <1>4, <1>6, <2>1, <2>4, <2>9, <3>3
  <2>10. CASE next \notin Movable(m) /\ op \notin Movable(m)
    BY <1>4, <2>1, <2>4, <2>10
  <2> QED BY <2>7, <2>8, <2>9, <2>10
<1> QED BY <1>8, <1>9, <1>10

(* Before the machines are re-sequenced, and as they are.                  *)
SoundInv == PlanInv /\ MovedInv /\ PlanStaysSound

LEMMA PlacedIsPlan ==
    ASSUME \A op \in Ops : moved[op] = NotPlaced, placed \in [Ops -> EntryType]
    PROVE  Plan = placed
BY DEF Plan

LEMMA RuleBasedStaysSound == (PlanInv /\ Plan = placed)' => PlanStaysSound'
<1>1. PlanInv /\ Plan = placed => PlanStaysSound
  BY RuleBasedIsSound
<1> QED BY <1>1, PTL

LEMMA SoundAfter ==
    ASSUME NEW plan, plan = Plan', in' = in, placed' = placed,
           BookedApart(plan), WindowsFree(plan), RoutesKept(plan)
    PROVE  PlanStaysSound'
<1>1. None \notin Ops
  BY RunAssumption
<1>2. \A op \in Ops : Fixed(op)' <=> Fixed(op)
  BY DEF Fixed, SlotLocks
<1>3. ASSUME NEW op \in Ops
      PROVE  RouteKept(op, Neighbour(op, 1))'
  <2> DEFINE next == Neighbour(op, 1)
  <2>1. next' = next
    BY DEF Neighbour, OrderOf
  <2>2. next # None => InTurn(plan, op, next)
    BY DEF RoutesKept
  <2>3. (op # None => MachineOf(op)' = plan[op].machine)
        /\ (next # None => MachineOf(next)' = plan[next].machine)
    BY DEF MachineOf
  <2>4. Fixed(next)' <=> Fixed(next)
    BY DEF Fixed, SlotLocks
  <2> HIDE DEF next
  <2>5. RouteKept(op, next)'
    BY <1>1, <2>1, <2>2, <2>3, <2>4 DEF RouteKept, InTurn
  <2> QED BY <2>5 DEF next
<1>4. \A op, q \in Ops :
        Plan'[op] # NotPlaced /\ ~ Plan'[op].kept /\ q # op
          /\ Plan'[q].machine = Plan'[op].machine => ~ Overlap(Plan'[op], Plan'[q])
  BY DEF BookedApart
<1>5. \A op \in Ops : \A w \in in'.windows :
        Plan'[op] # NotPlaced /\ ~ Plan'[op].kept
          /\ w.machine = Plan'[op].machine /\ w.order # OrderOf(op) => ~ Overlap(w, Plan'[op])
  BY DEF WindowsFree
<1> QED BY <1>3, <1>4, <1>5 DEF PlanStaysSound

LEMMA DoneIsLast ==
    ASSUME status = "done", Next
    PROVE  FALSE
BY DEF Next, ReproduceEntry, Begin, NextOrder, ProcessDependency, ReleaseOrder, DependencyBlocks,
   KeepFrozen, ProcessPrerequisite, PrerequisiteBlocks, NoMachine, NoCycleTime, CalendarEnds,
   PlaceOperation, ReadyToPlace, AtUnplaced, At, OrderPlaced, PullForward, NoPull, RunComplete

LEMMA RestKeepsSound ==
    ASSUME JobsTakeTime, PreviousIsSound, WindowsApart, SoundInv, UNCHANGED <<vars, moved>>
    PROVE  SoundInv'
<1>1. PlanInv'
  BY StepKeepsPlan DEF SoundInv
<1>2. UNCHANGED <<in, placed, status, moved>>
  BY DEF vars
<1>3. MovedInv'
  BY <1>2 DEF SoundInv, MovedInv, Fixed, SlotLocks
<1>4. Plan' = Plan
  BY <1>2 DEF Plan
<1>5. PlanStaysSound'
  <2>1. BookedApart(Plan) /\ WindowsFree(Plan) /\ RoutesKept(Plan)
    BY SoundIs DEF SoundInv
  <2> QED BY <1>2, <1>4, <2>1, SoundAfter
<1> QED BY <1>1, <1>3, <1>5 DEF SoundInv

LEMMA RuleBasedKeepsSound ==
    ASSUME JobsTakeTime, PreviousIsSound, WindowsApart, SoundInv, RuleBasedStep
    PROVE  SoundInv'
<1>1. Next /\ moved' = moved /\ status # "done"
  BY DoneIsLast DEF RuleBasedStep
<1>2. PlanInv'
  BY <1>1, StepKeepsPlan DEF SoundInv
<1>3. \A op \in Ops : moved[op] = NotPlaced
  BY <1>1 DEF SoundInv, MovedInv
<1>4. moved' \in [Ops -> EntryType] /\ \A op \in Ops : moved'[op] = NotPlaced
  BY <1>1, <1>3 DEF SoundInv, MovedInv
<1>5. MovedInv'
  BY <1>4 DEF MovedInv
<1>6. (Plan = placed)'
  <2>1. placed' \in [Ops -> EntryType]
    BY <1>2 DEF PlanInv, IInv, TypeOK, EntryType
  <2>2. Plan' = [op \in Ops |-> placed'[op]]
    BY <1>4 DEF Plan
  <2> QED BY <2>1, <2>2
<1> QED BY <1>2, <1>5, <1>6, RuleBasedStaysSound DEF SoundInv

LEMMA ResequencingKeepsSound ==
    ASSUME JobsTakeTime, PreviousIsSound, WindowsApart, OperationsApart, OperationsRouted,
           IsFiniteSet(Ops), SoundInv, Resequence
    PROVE  SoundInv'
<1>1. /\ TypeOK /\ in \in Inputs /\ OnTimeline /\ MovedInv /\ PlanStaysSound /\ PlanInv
      /\ status = "done" /\ UNCHANGED vars
  BY DEF SoundInv, PlanInv, IInv, Resequence
<1>2. UNCHANGED <<in, placed, status>>
  BY <1>1 DEF vars
<1>3. PICK m \in Machines : \E s \in Sequences(m) : \E entries \in Resequenced(m, s) :
        moved' = [op \in Ops |-> IF op \in DOMAIN entries THEN entries[op] ELSE moved[op]]
  BY DEF Resequence, Targets
<1>4. PICK s \in Sequences(m) : \E entries \in Resequenced(m, s) :
        moved' = [op \in Ops |-> IF op \in DOMAIN entries THEN entries[op] ELSE moved[op]]
  BY <1>3
<1>5. PICK entries \in Resequenced(m, s) :
        moved' = [op \in Ops |-> IF op \in DOMAIN entries THEN entries[op] ELSE moved[op]]
  BY <1>4
<1>6. DOMAIN entries = Movable(m) /\ \A op \in Movable(m) : WellPlaced(m, op, entries[op])
  BY <1>1, ResequencedIs
<1>7. m # None /\ NotPlaced.machine = None
  BY RunAssumption DEF NotPlaced
<1>8. \A op \in Movable(m) : /\ op \in Ops /\ moved'[op] = entries[op] /\ entries[op] # NotPlaced
                             /\ entries[op] \in EntryType /\ entries[op].machine = m
                             /\ entries[op].kept = FALSE
                             /\ Plan[op].machine = m /\ ~ Fixed(op)
  BY <1>5, <1>6, <1>7 DEF WellPlaced, Movable, Planned
<1>9. \A op \in Ops \ Movable(m) : moved'[op] = moved[op]
  BY <1>5, <1>6
<1>10. MovedInv'
  <2>1. moved' \in [Ops -> EntryType]
    <3>1. \A op \in Ops : moved'[op] \in EntryType
      BY <1>1, <1>8, <1>9 DEF MovedInv
    <3> QED BY <1>5, <3>1
  <2>2. ASSUME NEW op \in Ops, moved'[op] # NotPlaced
        PROVE  /\ placed[op] # NotPlaced /\ ~ Fixed(op)
               /\ moved'[op].machine = placed[op].machine /\ ~ moved'[op].kept
    <3>1. CASE op \in Movable(m)
      <4>1. placed[op] # NotPlaced /\ placed[op].machine = m
        BY <1>1, <1>7, <1>8, <3>1, PlanIs
      <4> QED BY <1>8, <3>1, <4>1
    <3>2. CASE op \notin Movable(m)
      BY <1>1, <1>9, <2>2, <3>2 DEF MovedInv
    <3> QED BY <3>1, <3>2
  <2>3. \A op : Fixed(op)' <=> Fixed(op)
    BY <1>2 DEF Fixed, SlotLocks
  <2> QED BY <1>1, <1>2, <2>1, <2>2, <2>3 DEF MovedInv
<1> DEFINE plan == [op \in Ops |-> IF op \in Movable(m) THEN entries[op] ELSE Plan[op]]
<1>11. Plan' = plan
  <2>1. \A op \in Ops : (IF moved'[op] = NotPlaced THEN placed[op] ELSE moved'[op])
                         = IF op \in Movable(m) THEN entries[op] ELSE Plan[op]
    BY <1>8, <1>9 DEF Plan
  <2>2. Plan' = [op \in Ops |-> IF moved'[op] = NotPlaced THEN placed[op] ELSE moved'[op]]
    BY <1>2 DEF Plan
  <2> QED BY <2>1, <2>2
<1>12. BookedApart(plan) /\ WindowsFree(plan) /\ RoutesKept(plan)
  BY <1>1, ResequencedIsSound
<1>13. PlanStaysSound'
  <2> HIDE DEF plan
  <2> QED BY <1>2, <1>11, <1>12, SoundAfter
<1>14. PlanInv'
  BY <1>1, StepKeepsPlan
<1> QED BY <1>10, <1>13, <1>14 DEF SoundInv

(* The solver runs after the rule-based run and changes nothing of it:     *)
(* what is proved of a run of ListScheduler holds of one of CpSatScheduler *)
(* (CpSatScheduler.schedule calls the rule-based scheduler first).         *)
THEOREM SolverRunsTheRules == CpSatSpec => Spec
<1>1. CpSatInit => Init
  BY DEF CpSatInit
<1>2. [CpSatNext]_rvars => [Next]_vars
  BY DEF CpSatNext, RuleBasedStep, KeepSequence, Resequence, ResequencingFails, rvars
<1> QED BY <1>1, <1>2, PTL DEF CpSatSpec, Spec

(* CpSatScheduler.schedule, _jobs, _rebuild: whatever orders the solver    *)
(* finds, on however many machines, no machine is double booked by new     *)
(* work, no reserved window is entered, and no route is turned around.     *)
THEOREM ResequencingIsSound ==
    ASSUME JobsTakeTime, PreviousIsSound, WindowsApart, OperationsApart, OperationsRouted,
           IsFiniteSet(Ops)
    PROVE  CpSatSpec => []PlanStaysSound
<1>1. CpSatInit => SoundInv
  <2> SUFFICES ASSUME CpSatInit PROVE SoundInv
    OBVIOUS
  <2>1. PlanInv /\ moved = [op \in Ops |-> NotPlaced]
    BY PlanBegins DEF CpSatInit
  <2>2. placed \in [Ops -> EntryType] /\ NotPlaced \in EntryType
    BY <2>1, PlacedIs DEF PlanInv, IInv
  <2>3. MovedInv
    BY <2>1, <2>2 DEF MovedInv
  <2> QED BY <2>1, <2>2, <2>3, PlacedIsPlan, RuleBasedIsSound DEF SoundInv
<1>2. SoundInv /\ [CpSatNext]_rvars => SoundInv'
  <2> SUFFICES ASSUME SoundInv, [CpSatNext]_rvars PROVE SoundInv'
    OBVIOUS
  <2>1. CASE RuleBasedStep
    BY <2>1, RuleBasedKeepsSound
  <2>2. CASE Resequence
    BY <2>2, ResequencingKeepsSound
  <2>3. CASE KeepSequence \/ ResequencingFails \/ UNCHANGED rvars
    <3>1. UNCHANGED <<vars, moved>>
      BY <2>3 DEF KeepSequence, ResequencingFails, rvars
    <3> QED BY <3>1, RestKeepsSound
  <2> QED BY <2>1, <2>2, <2>3 DEF CpSatNext
<1>3. SoundInv => PlanStaysSound
  BY DEF SoundInv
<1> QED BY <1>1, <1>2, <1>3, PTL DEF CpSatSpec
=============================================================================
