--------------------------- MODULE CalendarProofs ---------------------------
(***************************************************************************)
(* The host's calendar, first the availability engine for every time zone, *)
(* every set of meetings and every length of slots and buffers: the        *)
(* conversion from the wall clock is exact, what the commit check accepts  *)
(* is free, the page's offers are in the opening hours, and the two agree. *)
(*                                                                         *)
(* Then the reminders of events, for any number of runs of the dispatcher, *)
(* of devices' snoozes and of failures: pushes are accounted for, snoozes  *)
(* kept and nothing overlooked.                                            *)
(*                                                                         *)
(* Last the recurring events, for any lengths of the week, the months and  *)
(* the year and any edits: what a window lists of a rule in tune with its  *)
(* start is what RFC 5545 means, and a split loses no day.                 *)
(***************************************************************************)
EXTENDS Availability, Reminders, EventSeries, FiniteSetTheorems, SequenceTheorems, TLAPS

(***************************************************************************)
(* zonedToEpoch: for every wall-clock time that the zone really shows, the *)
(* one correction pass finds an instant that shows it, whichever way and   *)
(* however far the clocks are set at one change.                           *)
(***************************************************************************)
THEOREM ZonedIsExact ==
    ASSUME NEW u \in Int
    PROVE  Wall(ZonedToEpoch(Wall(u))) = Wall(u)
  BY ZoneAssumption DEF Wall, ZonedToEpoch, OffsetAt

\* All that the slots need of the state.
Sound == busy \subseteq Meetings /\ override \in [Dates -> Overrides \cup {Weekly}] /\ range \in Ranges

LEMMA SoundInit == Init => Sound
  BY DEF Init, Sound

LEMMA SoundNext == Sound /\ [Next]_vars => Sound'
<1> SUFFICES ASSUME Sound, [Next]_vars
             PROVE  Sound'
  OBVIOUS
<1> USE DEF Sound
<1>1. CASE UNCHANGED vars
  BY <1>1 DEF vars
<1>2. CASE Clock
  BY <1>2 DEF Clock
<1>3. ASSUME NEW w \in Meetings, HostMeets(w)
      PROVE  Sound'
  BY <1>3 DEF HostMeets
<1>4. ASSUME NEW w \in Meetings, HostIsFree(w)
      PROVE  Sound'
  BY <1>4 DEF HostIsFree
<1>5. ASSUME NEW r \in Ranges, Visit(r)
      PROVE  Sound'
  BY <1>5 DEF Visit
<1>6. QED
  BY <1>1, <1>2, <1>3, <1>4, <1>5 DEF Next

LEMMA CommitFree == Sound => CommitIsFree
<1> SUFFICES ASSUME Sound, NEW s \in Instants, IsSlotAvailable(s),
                    NEW t \in s - BufferBefore .. s + Duration + BufferAfter - 1,
                    NEW w \in busy, Plain(w), w.start <= t, t < w.end
             PROVE  FALSE
  BY DEF CommitIsFree, Undisturbed
<1> USE SlotAssumption, LengthsAssumption, BufferAssumption
<1>1. /\ s \in Int /\ t \in Int /\ w.start \in Int /\ w.end \in Int /\ w.seed \in Int
      /\ s - BufferBefore <= t /\ t < s + Duration + BufferAfter
  BY MeetingsAssumption DEF Sound, Instants
\* One day around the slot holds both buffers, so the meeting was read.
<1>2. w \in BusyIn(s - DayLen, s + Duration + DayLen)
  <2>1. s - DayLen <= t /\ t < s + Duration + DayLen
    BY <1>1
  <2>2. Overlaps(w.start, w.end, s - DayLen, s + Duration + DayLen)
    BY <1>1, <2>1 DEF Overlaps
  <2>3. w.series => s - DayLen <= w.seed /\ w.seed < s + Duration + DayLen + (w.end - w.start)
    BY <1>1 DEF Plain
  <2>4. QED
    BY <2>2, <2>3 DEF BusyIn
<1>3. ~Overlaps(s - BufferBefore, s + Duration + BufferAfter, w.start, w.end)
  BY <1>2 DEF IsSlotAvailable, Slots, Free
<1>4. QED
  BY <1>1, <1>3 DEF Overlaps

(***************************************************************************)
(* Whatever the host's calendars hold, what isSlotAvailable accepts is     *)
(* free from the start of its buffer to the end of its buffer.             *)
(***************************************************************************)
THEOREM AcceptedIsFree == Spec => []CommitIsFree
<1>1. Init => Sound
  BY SoundInit
<1>2. Sound /\ [Next]_vars => Sound'
  BY SoundNext
<1>3. Sound => CommitIsFree
  BY CommitFree
<1>4. QED
  BY <1>1, <1>2, <1>3, PTL DEF Spec

\* The zone gives a wall-clock time on one side of the change one offset.
LEMMA ZonedBefore ==
    ASSUME NEW t \in Int, t < ZoneAt + OffsetBefore, t < ZoneAt + OffsetAfter
    PROVE  ZonedToEpoch(t) = t - OffsetBefore
  BY ZoneAssumption DEF ZonedToEpoch, OffsetAt

LEMMA ZonedAfter ==
    ASSUME NEW t \in Int, t > ZoneAt + OffsetBefore, t > ZoneAt + OffsetAfter
    PROVE  ZonedToEpoch(t) = t - OffsetAfter
  BY ZoneAssumption DEF ZonedToEpoch, OffsetAt

\* Hours in which the clocks do not change lie on one side of the change.
LEMMA OneSide ==
    ASSUME NEW open \in Int, NEW close \in Int, open < close, ~Changing(open, close)
    PROVE  \/ close < ZoneAt + OffsetBefore /\ close < ZoneAt + OffsetAfter
           \/ open > ZoneAt + OffsetBefore /\ open > ZoneAt + OffsetAfter
<1> DEFINE b == ZoneAt + OffsetBefore
           a == ZoneAt + OffsetAfter
<1>1. a \in Int /\ b \in Int
  BY ZoneAssumption
<1>2. \A t \in open .. close : ~(b <= t /\ t <= a) /\ ~(a <= t /\ t <= b)
  BY DEF Changing
<1> HIDE DEF a, b
<1>3. ~(open <= a /\ a <= close /\ a <= b) /\ ~(open <= b /\ b <= close /\ b <= a)
  BY <1>1, <1>2
<1>4. ~(open <= a /\ a <= close) /\ ~(open <= b /\ b <= close)
  BY <1>1, <1>2
<1>5. open \in open .. close
  OBVIOUS
<1>6. ~(b <= open /\ open <= a) /\ ~(a <= open /\ open <= b)
  BY <1>2, <1>5
<1>7. (close < b /\ close < a) \/ (open > b /\ open > a)
  BY <1>1, <1>4, <1>6
<1>8. QED
  BY <1>7 DEF a, b

LEMMA GridWithin ==
    ASSUME NEW open \in Int, NEW close \in Int, open < close, ~Changing(open, close),
           NEW s \in ZonedToEpoch(open) .. ZonedToEpoch(close) - Duration
    PROVE  open <= Wall(s) /\ Wall(s) + Duration <= close
<1> USE ZoneAssumption, SlotAssumption
<1>1. CASE close < ZoneAt + OffsetBefore /\ close < ZoneAt + OffsetAfter
  <2>1. ZonedToEpoch(open) = open - OffsetBefore /\ ZonedToEpoch(close) = close - OffsetBefore
    BY <1>1, ZonedBefore
  <2>2. Wall(s) = s + OffsetBefore
    BY <1>1, <2>1 DEF Wall, OffsetAt
  <2>3. QED
    BY <2>1, <2>2
<1>2. CASE open > ZoneAt + OffsetBefore /\ open > ZoneAt + OffsetAfter
  <2>1. ZonedToEpoch(open) = open - OffsetAfter /\ ZonedToEpoch(close) = close - OffsetAfter
    BY <1>2, ZonedAfter
  <2>2. Wall(s) = s + OffsetAfter
    BY <1>2, <2>1 DEF Wall, OffsetAt
  <2>3. QED
    BY <2>1, <2>2
<1>3. QED
  BY <1>1, <1>2, OneSide

LEMMA WindowsOfDays ==
    ASSUME Sound, NEW d \in Dates, NEW w \in DayWindows(d) PROVE Window(w)
<1>1. d \in Int /\ Weekday(d) \in 0 .. 6
  BY DatesAssumption DEF Weekday
<1>2. CASE override[d] = Weekly
  BY <1>1, <1>2, WindowsAssumption DEF DayWindows
<1>3. CASE override[d] # Weekly
  BY <1>3, WindowsAssumption DEF DayWindows, Sound
<1>4. QED
  BY <1>2, <1>3

LEMMA ListedOpen == Sound => OffersOpenHours
<1> SUFFICES ASSUME Sound, NEW s \in Listed
             PROVE  \E d \in Dates : \E w \in DayWindows(d) :
                      LET open == d * DayLen + w.open
                          close == d * DayLen + w.close
                      IN /\ s \in Grid(d, w)
                         /\ \/ open <= Wall(s) /\ Wall(s) + Duration <= close
                            \/ Changing(open, close)
  BY DEF OffersOpenHours
<1>1. s \in GridOf(range.from, range.to)
  BY DEF Listed, Slots
<1>2. PICK d \in Dates : \E w \in DayWindows(d) : s \in Grid(d, w)
  BY <1>1 DEF GridOf
<1>3. PICK w \in DayWindows(d) : s \in Grid(d, w)
  BY <1>2
<1>4. w.open \in Int /\ w.close \in Int /\ w.open < w.close /\ d \in Int
  BY WindowsOfDays, DatesAssumption DEF Window
<1>5. PICK day \in Int : day = d * DayLen
  BY <1>4, LengthsAssumption
<1>6. PICK open \in Int, close \in Int :
        open = d * DayLen + w.open /\ close = d * DayLen + w.close /\ open < close
  BY <1>4, <1>5
<1>7. s \in ZonedToEpoch(open) .. ZonedToEpoch(close) - Duration
  BY <1>3, <1>6 DEF Grid
<1>8. (open <= Wall(s) /\ Wall(s) + Duration <= close) \/ Changing(open, close)
  BY <1>6, <1>7, GridWithin
<1>9. QED
  BY <1>3, <1>6, <1>8

(***************************************************************************)
(* An offered slot lies within the opening hours of its date, as the wall  *)
(* clock shows them, whatever the zone and the rules, unless the clocks    *)
(* change during those hours.                                              *)
(***************************************************************************)
THEOREM OffersAreInHours == Spec => []OffersOpenHours
<1>1. Init => Sound
  BY SoundInit
<1>2. Sound /\ [Next]_vars => Sound'
  BY SoundNext
<1>3. Sound => OffersOpenHours
  BY ListedOpen
<1>4. QED
  BY <1>1, <1>2, <1>3, PTL DEF Spec

\* A day of the wall clock, and the order of two of them.
LEMMA DayOfTime ==
    ASSUME NEW t \in Int
    PROVE  /\ t \div DayLen \in Int
           /\ DayLen * (t \div DayLen) <= t /\ t < DayLen * (t \div DayLen) + DayLen
<1>1. PICK n \in Nat \ {0} : n = DayLen
  BY LengthsAssumption
<1>2. t \div n \in Int /\ n * (t \div n) <= t /\ t < n * (t \div n) + n
  OBVIOUS
<1>3. QED
  BY <1>1, <1>2

LEMMA DaysApart ==
    ASSUME NEW d \in Int, NEW e \in Int, d < e
    PROVE  DayLen * d + DayLen <= DayLen * e /\ DayLen * d \in Int /\ DayLen * e \in Int
<1>1. PICK n \in Nat \ {0} : n = DayLen
  BY LengthsAssumption
<1>2. n * (d + 1) <= n * e /\ n * (d + 1) = n * d + n /\ n * d \in Int /\ n * e \in Int
  <2>1. d + 1 <= e /\ n * (d + 1) = n * d + n
    OBVIOUS
  <2>2. n * (d + 1) <= n * e
    BY <2>1
  <2>3. QED
    BY <2>1, <2>2
<1>3. QED
  BY <1>1, <1>2

LEMMA DaysInOrder ==
    ASSUME NEW t \in Int, NEW u \in Int, t <= u
    PROVE  t \div DayLen <= u \div DayLen
<1>1. PICK d \in Int, e \in Int :
        /\ d = t \div DayLen /\ e = u \div DayLen
        /\ DayLen * d <= t /\ u < DayLen * e + DayLen
  BY DayOfTime
<1>2. ASSUME e < d
      PROVE  FALSE
  <2>1. PICK a \in Int, b \in Int : a = DayLen * e /\ b = DayLen * d /\ a + DayLen <= b
    BY <1>2, DaysApart
  <2>2. QED
    BY <1>1, <2>1, LengthsAssumption
<1>3. QED
  BY <1>1, <1>2

LEMMA DayNamed ==
    ASSUME NEW d \in Int, NEW t \in Int, DayLen * d <= t, t < DayLen * d + DayLen
    PROVE  t \div DayLen = d
<1>1. PICK e \in Int : /\ e = t \div DayLen
                       /\ DayLen * e <= t /\ t < DayLen * e + DayLen
  BY DayOfTime
<1>2. ASSUME d < e
      PROVE  FALSE
  <2>1. PICK a \in Int, b \in Int : a = DayLen * d /\ b = DayLen * e /\ a + DayLen <= b
    BY <1>2, DaysApart
  <2>2. QED
    BY <1>1, <2>1, LengthsAssumption
<1>3. ASSUME e < d
      PROVE  FALSE
  <2>1. PICK a \in Int, b \in Int : a = DayLen * e /\ b = DayLen * d /\ a + DayLen <= b
    BY <1>3, DaysApart
  <2>2. QED
    BY <1>1, <2>1, LengthsAssumption
<1>4. QED
  BY <1>1, <1>2, <1>3

\* The clocks change within a day, as far from midnight as they are changed.
LEMMA ChangeWithinDay ==
    ASSUME DatesInOrder
    PROVE  \E e \in Int, lo \in Int :
              /\ lo = DayLen * e
              /\ \A t \in ChangeTimes : t \in Int /\ lo <= t /\ t < lo + DayLen
<1>1. PICK b \in Int, a \in Int : b = ZoneAt + OffsetBefore /\ a = ZoneAt + OffsetAfter
  BY ZoneAssumption
<1>2. ChangeTimes = {b, a, b + b - a, a + a - b} /\ ChangeTimes \subseteq Int
  BY <1>1 DEF ChangeTimes
<1>3. PICK e \in Int : e = b \div DayLen
  BY DayOfTime
<1>4. \A t \in ChangeTimes : t \div DayLen = e
  BY <1>2, <1>3 DEF DatesInOrder
<1>5. PICK lo \in Int : lo = DayLen * e
  BY LengthsAssumption
<1>6. ASSUME NEW t \in ChangeTimes
      PROVE  t \in Int /\ lo <= t /\ t < lo + DayLen
  <2>1. t \in Int /\ t \div DayLen = e
    BY <1>2, <1>4
  <2>2. QED
    BY <1>5, <2>1, DayOfTime
<1>7. QED
  BY <1>5, <1>6

\* Between two instants that the wall clock puts into a day, it stays in it.
LEMMA WithinOneDay ==
    ASSUME NEW lo \in Int, NEW hi \in Int, NEW b \in Int, NEW a \in Int,
           b = ZoneAt + OffsetBefore, a = ZoneAt + OffsetAfter,
           \/ \A t \in {b, a, b + b - a, a + a - b} : lo <= t /\ t < hi
           \/ \A t \in {b, a, b + b - a, a + a - b} : hi <= t
           \/ \A t \in {b, a, b + b - a, a + a - b} : t < lo,
           NEW open \in Int, NEW close \in Int, lo <= open, open < close, close <= hi,
           NEW s \in ZonedToEpoch(open) .. ZonedToEpoch(close) - Duration
    PROVE  lo <= Wall(s) /\ Wall(s) < hi
<1>1. PICK x \in Int, y \in Int, z \in Int : x = OffsetBefore /\ y = OffsetAfter /\ z = ZoneAt
  BY ZoneAssumption
<1>2. PICK f \in Int, l \in Int : f = ZonedToEpoch(open) /\ l = ZonedToEpoch(close)
  BY ZoneAssumption DEF ZonedToEpoch, OffsetAt
<1>3. s \in Int /\ f <= s /\ s < l
  BY <1>2, SlotAssumption
<1>4. /\ b = z + x /\ a = z + y
      /\ Wall(s) = s + IF s < z THEN x ELSE y
      /\ f = open - IF open - (IF open < z THEN x ELSE y) < z THEN x ELSE y
      /\ l = close - IF close - (IF close < z THEN x ELSE y) < z THEN x ELSE y
  BY <1>1, <1>2 DEF Wall, OffsetAt, ZonedToEpoch
<1>5. CASE /\ lo <= b /\ lo <= a /\ lo <= b + b - a /\ lo <= a + a - b
           /\ b < hi /\ a < hi /\ b + b - a < hi /\ a + a - b < hi
  BY <1>3, <1>4, <1>5
<1>6. CASE hi <= b /\ hi <= a /\ hi <= b + b - a /\ hi <= a + a - b
  BY <1>3, <1>4, <1>6
<1>7. CASE b < lo /\ a < lo /\ b + b - a < lo /\ a + a - b < lo
  BY <1>3, <1>4, <1>7
<1>8. QED
  BY <1>5, <1>6, <1>7

LEMMA WindowsWithinDay ==
    ASSUME Sound, DatesInOrder, NEW d \in Dates, NEW w \in DayWindows(d)
    PROVE  WithinDay(w)
<1>1. d \in Int /\ Weekday(d) \in 0 .. 6
  BY DatesAssumption DEF Weekday
<1>2. CASE override[d] = Weekly
  BY <1>1, <1>2 DEF DayWindows, DatesInOrder
<1>3. CASE override[d] # Weekly
  BY <1>3 DEF DayWindows, Sound, DatesInOrder
<1>4. QED
  BY <1>2, <1>3

\* A slot starts on the date of its window.
LEMMA SlotOnDate ==
    ASSUME Sound, DatesInOrder, NEW d \in Dates, NEW w \in DayWindows(d), NEW s \in Grid(d, w)
    PROVE  DateOf(s) = d /\ s \in Int
<1>1. /\ w.open \in Int /\ w.close \in Int /\ w.open < w.close /\ d \in Int
      /\ 0 <= w.open /\ w.close <= DayLen
  BY WindowsOfDays, WindowsWithinDay, DatesAssumption DEF Window, WithinDay
<1>2. PICK b \in Int, a \in Int : b = ZoneAt + OffsetBefore /\ a = ZoneAt + OffsetAfter
  BY ZoneAssumption
<1>3. PICK e \in Int, m \in Int :
         /\ m = DayLen * e
         /\ \A t \in {b, a, b + b - a, a + a - b} : m <= t /\ t < m + DayLen
  BY <1>2, ChangeWithinDay DEF ChangeTimes
<1>4. PICK lo \in Int : lo = DayLen * d /\ lo = d * DayLen
  BY <1>1, LengthsAssumption
<1>5. PICK hi \in Int : hi = lo + DayLen
  BY LengthsAssumption
<1>6. PICK open \in Int, close \in Int :
         /\ open = d * DayLen + w.open /\ close = d * DayLen + w.close
         /\ lo <= open /\ open < close /\ close <= hi
  BY <1>1, <1>4, <1>5, LengthsAssumption
<1>7. s \in ZonedToEpoch(open) .. ZonedToEpoch(close) - Duration
  BY <1>6 DEF Grid
<1>8. \/ \A t \in {b, a, b + b - a, a + a - b} : lo <= t /\ t < hi
      \/ \A t \in {b, a, b + b - a, a + a - b} : hi <= t
      \/ \A t \in {b, a, b + b - a, a + a - b} : t < lo
  <2>1. CASE d = e
    BY <1>3, <1>4, <1>5, <2>1
  <2>2. CASE d < e
    <3>1. hi <= m
      BY <1>1, <1>3, <1>4, <1>5, <2>2, DaysApart
    <3>2. QED
      BY <1>3, <3>1
  <2>3. CASE e < d
    <3>1. m + DayLen <= lo
      BY <1>1, <1>3, <1>4, <2>3, DaysApart
    <3>2. QED
      BY <1>3, <3>1, LengthsAssumption
  <2>4. QED
    BY <1>1, <2>1, <2>2, <2>3
<1>9. s \in Int /\ Wall(s) \in Int
  <2>1. ZonedToEpoch(open) \in Int
    BY ZoneAssumption DEF ZonedToEpoch, OffsetAt
  <2>2. s \in Int
    BY <1>7, <2>1
  <2>3. QED
    BY <2>2, ZoneAssumption DEF Wall, OffsetAt
<1>10. lo <= Wall(s) /\ Wall(s) < hi
  BY <1>2, <1>6, <1>7, <1>8, WithinOneDay
<1>11. QED
  BY <1>1, <1>4, <1>5, <1>9, <1>10, DayNamed DEF DateOf

\* The date of a later instant is no earlier one.
LEMMA DatesGoOn ==
    ASSUME DatesInOrder, NEW s \in Int, NEW u \in Int, s <= u
    PROVE  DateOf(s) <= DateOf(u)
<1>1. PICK b \in Int, a \in Int : b = ZoneAt + OffsetBefore /\ a = ZoneAt + OffsetAfter
  BY ZoneAssumption
<1>2. Wall(s) \in Int /\ Wall(u) \in Int
  BY ZoneAssumption DEF Wall, OffsetAt
<1>3. CASE Wall(s) <= Wall(u)
  BY <1>2, <1>3, DaysInOrder DEF DateOf
<1>4. CASE ~(Wall(s) <= Wall(u))
  <2>1. s < ZoneAt /\ ZoneAt <= u
    BY <1>4, ZoneAssumption DEF Wall, OffsetAt
  <2>2. Wall(s) <= b /\ a <= Wall(u)
    BY <1>1, <2>1, ZoneAssumption DEF Wall, OffsetAt
  <2>3. Wall(s) \div DayLen <= b \div DayLen /\ a \div DayLen <= Wall(u) \div DayLen
    BY <1>2, <2>2, DaysInOrder
  <2>4. a \div DayLen = b \div DayLen
    BY <1>1 DEF DatesInOrder, ChangeTimes
  <2>5. QED
    <3>1. PICK x \in Int, y \in Int, z \in Int :
            x = Wall(s) \div DayLen /\ y = Wall(u) \div DayLen /\ z = b \div DayLen
      BY <1>2, DayOfTime
    <3>2. x <= z /\ z <= y
      BY <2>3, <2>4, <3>1
    <3>3. QED
      BY <3>1, <3>2 DEF DateOf
<1>5. QED
  BY <1>3, <1>4

\* A slot is found from every range that holds it.
LEMMA FoundFromRange ==
    ASSUME Sound, DatesInOrder, NEW from \in Int, NEW to \in Int, NEW x \in Int, NEW y \in Int,
           NEW s \in GridOf(x, y), from <= s, s <= to
    PROVE  s \in GridOf(from, to)
<1>1. PICK d \in Dates : \E w \in DayWindows(d) : s \in Grid(d, w)
  BY DEF GridOf
<1>2. PICK w \in DayWindows(d) : s \in Grid(d, w)
  BY <1>1
<1>3. DateOf(s) = d /\ s \in Int /\ d \in Int
  BY <1>2, SlotOnDate, DatesAssumption
<1>4. DateOf(from) <= d /\ d <= DateOf(to)
  BY <1>3, DatesGoOn
<1>5. d \in DateOf(from) .. DateOf(to)
  <2>1. DateOf(from) \in Int /\ DateOf(to) \in Int
    <3>1. Wall(from) \in Int /\ Wall(to) \in Int
      BY ZoneAssumption DEF Wall, OffsetAt
    <3>2. QED
      BY <3>1, DayOfTime DEF DateOf
  <2>2. QED
    BY <1>3, <1>4, <2>1
<1>6. QED
  BY <1>2, <1>5 DEF GridOf

LEMMA PageMatches == Sound => PageAgreesWithCommit
<1> SUFFICES ASSUME Sound, DatesInOrder,
                    NEW s \in range.from .. range.to - 1, FoundByBoth(s)
             PROVE  /\ IsSlotAvailable(s) => s \in Listed
                    /\ s \in Listed /\ InnerSlot(s) => IsSlotAvailable(s)
  BY DEF PageAgreesWithCommit
<1>1. PICK from \in Int, to \in Int : from = range.from /\ to = range.to
  BY RangesAssumption DEF Sound
<1>2. s \in Int /\ from <= s /\ s < to
  BY <1>1
<1>3. PICK x \in Int, y \in Int :
         /\ x = s - DayLen /\ y = s + Duration + DayLen /\ x <= s /\ s < y
         /\ x <= s - BufferBefore /\ s + Duration + BufferAfter <= y
  BY <1>2, LengthsAssumption, SlotAssumption, BufferAssumption
<1>4. /\ Listed = Slots(from, to)
      /\ IsSlotAvailable(s) <=> s \in Slots(x, y)
      /\ InnerSlot(s) <=> from <= s - BufferBefore /\ s + Duration + BufferAfter <= to
  BY <1>1, <1>3 DEF Listed, IsSlotAvailable, InnerSlot
<1>5. s \in GridOf(x, y) <=> s \in GridOf(from, to)
  <2>1. ASSUME s \in GridOf(x, y)
        PROVE  s \in GridOf(from, to)
    BY <1>2, <2>1, FoundFromRange
  <2>2. ASSUME s \in GridOf(from, to)
        PROVE  s \in GridOf(x, y)
    BY <1>2, <1>3, <2>2, FoundFromRange
  <2>3. QED
    BY <2>1, <2>2
<1>6. PICK p \in Int, q \in Int : p = s - BufferBefore /\ q = s + Duration + BufferAfter /\ p <= s /\ s < q
  BY <1>2, SlotAssumption
<1>7. ASSUME NEW w \in busy
      PROVE  /\ w.start \in Int /\ w.end \in Int /\ w.start < w.end /\ w.seed \in Int
             /\ Free(s, {w}) <=> ~Overlaps(p, q, w.start, w.end)
  BY <1>6, MeetingsAssumption DEF Sound, Free
<1>8. ASSUME NEW w \in busy, Overlaps(p, q, w.start, w.end)
      PROVE  w \in BusyIn(x, y)
  <2>1. w.start \in Int /\ w.end \in Int /\ w.start < w.end /\ w.seed \in Int
    BY <1>7
  <2>2. w.start < q /\ p < w.end
    BY <1>8 DEF Overlaps
  <2>3. Overlaps(w.start, w.end, x, y)
    BY <1>3, <1>6, <2>1, <2>2 DEF Overlaps
  <2>4. w.series => w.seed = w.start /\ w.end - w.start <= DayLen - BufferBefore
    BY <1>7, <1>8 DEF FoundByBoth, Plain
  <2>5. w.series => x <= w.seed /\ w.seed < y + (w.end - w.start)
    BY <1>2, <1>3, <1>6, <2>1, <2>2, <2>4, LengthsAssumption, SlotAssumption
  <2>6. QED
    BY <2>3, <2>5 DEF BusyIn
<1>9. ASSUME NEW w \in busy, Overlaps(p, q, w.start, w.end), from <= p, q <= to
      PROVE  w \in BusyIn(from, to)
  <2>1. w.start \in Int /\ w.end \in Int /\ w.start < w.end /\ w.seed \in Int
    BY <1>7
  <2>2. w.start < q /\ p < w.end
    BY <1>9 DEF Overlaps
  <2>3. Overlaps(w.start, w.end, from, to)
    BY <1>9, <2>1, <2>2 DEF Overlaps
  <2>4. w.series => w.seed = w.start /\ from <= w.start
    BY <1>1, <1>7, <1>9 DEF FoundByBoth, Plain
  <2>5. w.series => from <= w.seed /\ w.seed < to + (w.end - w.start)
    BY <1>9, <2>1, <2>2, <2>4
  <2>6. QED
    BY <2>3, <2>5 DEF BusyIn
<1>10. \A W : Free(s, W) <=> \A w \in W : ~Overlaps(p, q, w.start, w.end)
  BY <1>6 DEF Free
<1>11. BusyIn(x, y) \subseteq busy /\ BusyIn(from, to) \subseteq busy
  BY DEF BusyIn
<1>12. ASSUME IsSlotAvailable(s)
       PROVE  s \in Listed
  <2>1. s \in GridOf(x, y) /\ InTime(s) /\ Free(s, BusyIn(x, y))
    BY <1>4, <1>12 DEF Slots
  <2>2. Free(s, BusyIn(from, to))
    BY <1>8, <1>10, <1>11, <2>1
  <2>3. QED
    BY <1>2, <1>4, <1>5, <2>1, <2>2 DEF Slots
<1>13. ASSUME s \in Listed, InnerSlot(s)
       PROVE  IsSlotAvailable(s)
  <2>1. s \in GridOf(from, to) /\ InTime(s) /\ Free(s, BusyIn(from, to)) /\ from <= p /\ q <= to
    BY <1>4, <1>6, <1>13 DEF Slots
  <2>2. Free(s, BusyIn(x, y))
    BY <1>9, <1>10, <1>11, <2>1
  <2>3. QED
    BY <1>3, <1>4, <1>5, <2>1, <2>2 DEF Slots
<1>14. QED
  BY <1>12, <1>13

(***************************************************************************)
(* The page of a link and the check at the commit agree on every slot, but *)
(* for the buffers at the ends of the page's range and the instances of    *)
(* series one of them may miss, whatever the zone, the windows, the        *)
(* meetings and the range, as long as slots stay on the dates of their     *)
(* windows (computeAvailableSlots, isSlotAvailable).                       *)
(***************************************************************************)
THEOREM PageMatchesCommit == Spec => []PageAgreesWithCommit
<1>1. Init => Sound
  BY SoundInit
<1>2. Sound /\ [Next]_vars => Sound'
  BY SoundNext
<1>3. Sound => PageAgreesWithCommit
  BY PageMatches
<1>4. QED
  BY <1>1, <1>2, <1>3, PTL DEF Spec

-----------------------------------------------------------------------------
(* The reminders of events.                                                *)

LEMMA NoneLeft ==
    ASSUME NEW S, NEW q \in Seq(S)
    PROVE  Len(q) = 0 <=> q = <<>>
<1>1. Len(<<>>) = 0
  BY EmptySeq
<1>2. q # <<>> => Len(q) # 0
  BY EmptySeq
<1>3. QED
  BY <1>1, <1>2

LEMMA TailHolds ==
    ASSUME NEW S, NEW q \in Seq(S), q # <<>>
    PROVE  /\ Head(q) \in S /\ Tail(q) \in Seq(S)
           /\ ToSet(q) = {Head(q)} \cup ToSet(Tail(q))
           /\ Len(q) = 1 <=> Tail(q) = <<>>
<1>1. Head(q) = q[1] /\ Head(q) \in S /\ Tail(q) \in Seq(S) /\ Len(Tail(q)) = Len(q) - 1
  BY HeadTailProperties
<1>2. \A i \in 1 .. Len(Tail(q)) : Tail(q)[i] = q[i + 1]
  BY HeadTailProperties
<1>3. Len(q) \in Nat /\ Len(q) >= 1 /\ DOMAIN q = 1 .. Len(q) /\ DOMAIN Tail(q) = 1 .. Len(Tail(q))
  BY <1>1, EmptySeq, LenProperties
<1>4. ToSet(q) = {Head(q)} \cup ToSet(Tail(q))
  <2>1. ASSUME NEW i \in DOMAIN q
        PROVE  q[i] \in {Head(q)} \cup ToSet(Tail(q))
    <3>1. CASE i = 1
      BY <1>1, <3>1
    <3>2. CASE i # 1
      <4>1. i - 1 \in 1 .. Len(Tail(q)) /\ (i - 1) + 1 = i
        BY <1>1, <1>3, <3>2
      <4>2. Tail(q)[i - 1] = q[i]
        BY <1>2, <4>1
      <4>3. QED
        BY <1>3, <4>1, <4>2 DEF ToSet
    <3>3. QED
      BY <3>1, <3>2
  <2>2. ASSUME NEW i \in DOMAIN Tail(q)
        PROVE  Tail(q)[i] \in ToSet(q)
    <3>1. i + 1 \in DOMAIN q
      BY <1>1, <1>3
    <3>2. QED
      BY <1>2, <1>3, <3>1 DEF ToSet
  <2>3. Head(q) \in ToSet(q)
    BY <1>1, <1>3 DEF ToSet
  <2>4. QED
    BY <2>1, <2>2, <2>3 DEF ToSet
<1>5. Len(q) = 1 <=> Tail(q) = <<>>
  <2>1. Len(Tail(q)) = 0 <=> Tail(q) = <<>>
    BY <1>1, NoneLeft
  <2>2. QED
    BY <1>1, <1>3, <2>1
<1>6. QED
  BY <1>1, <1>4, <1>5

LEMMA HoldsListed == \A r, k : Holds(r, k) <=> k \in ToSet(todo[r])
  BY DEF Holds, ToSet

LEMMA ListsAllDue ==
    ASSUME RemindersTypeOK, NEW n, NEW s \in Listings(n)
    PROVE  s \in Seq(Keys) /\ ToSet(s) = Due(n)
<1> DEFINE N == Cardinality(Due(n))
<1>1. Due(n) \subseteq rows /\ rows \subseteq Keys
  BY DEF Due, RemindersTypeOK, Keys
<1>2. IsFiniteSet(Due(n))
  <2>1. IsFiniteSet(Keys)
    BY FiniteAssumption, FS_Product DEF Keys
  <2>2. QED
    BY <1>1, <2>1, FS_Subset
<1>3. N \in Nat
  BY <1>2, FS_CardinalityType
<1>4. s \in [1 .. N -> Due(n)] /\ \A i, j \in 1 .. N : i # j => s[i] # s[j]
  BY DEF Listings, SetToSeqs
<1> HIDE DEF N
<1>5. s \in Injection(1 .. N, Due(n))
  BY <1>4 DEF Injection, IsInjective
<1>6. Cardinality(1 .. N) = N
  BY <1>3, FS_Interval
<1>7. s \in Surjection(1 .. N, Due(n))
  BY <1>2, <1>5, <1>6, FS_Injection DEF N
<1>8. \A k \in Due(n) : \E i \in 1 .. N : s[i] = k
  BY <1>7 DEF Surjection
<1>9. DOMAIN s = 1 .. N
  BY <1>4
<1>10. ToSet(s) = Due(n)
  BY <1>4, <1>8, <1>9 DEF ToSet
<1>11. s \in Seq(Keys)
  BY <1>1, <1>3, <1>4, SeqDef
<1>12. QED
  BY <1>10, <1>11

LEMMA FirstOf ==
    ASSUME NEW S, NEW s \in Seq(S), NEW m \in Nat, m <= Len(s), m = 0 <=> Len(s) = 0
    PROVE  /\ SubSeq(s, 1, m) \in Seq(S)
           /\ ToSet(SubSeq(s, 1, m)) \subseteq ToSet(s)
           /\ SubSeq(s, 1, m) = <<>> <=> s = <<>>
<1>1. Len(s) \in Nat /\ DOMAIN s = 1 .. Len(s)
  BY LenProperties
<1>2. m \in Nat /\ m <= Len(s) /\ (m = 0 <=> Len(s) = 0)
  OBVIOUS
<1> DEFINE b == SubSeq(s, 1, m)
<1>3. \A i \in 1 .. m : s[i] \in S
  <2> TAKE i \in 1 .. m
  <2>1. i \in 1 .. Len(s)
    BY <1>1, <1>2
  <2>2. QED
    BY <2>1, ElementOfSeq
<1>4. b \in Seq(S) /\ Len(b) = m /\ \A i \in 1 .. m : b[i] = s[i]
  <2>1. m \in Int /\ m - 1 + 1 = m /\ 1 \in Int
    BY <1>1, <1>2
  <2>2. /\ b \in Seq(S) /\ Len(b) = (IF 1 <= m THEN m - 1 + 1 ELSE 0)
        /\ \A i \in 1 .. m - 1 + 1 : b[i] = s[1 + i - 1]
    BY <1>3, <2>1, SubSeqProperties
  <2>3. Len(b) = m
    BY <1>1, <1>2, <2>2
  <2>4. ASSUME NEW i \in 1 .. m
        PROVE  b[i] = s[i]
    <3>1. 1 + i - 1 = i /\ i \in 1 .. m - 1 + 1
      BY <2>1
    <3>2. QED
      BY <2>2, <3>1
  <2>5. QED
    BY <2>2, <2>3, <2>4
<1> HIDE DEF b
<1>5. ToSet(b) \subseteq ToSet(s)
  <2>1. DOMAIN b = 1 .. m
    BY <1>4, LenProperties
  <2>2. \A i \in DOMAIN b : i \in DOMAIN s /\ b[i] = s[i]
    BY <1>1, <1>2, <1>4, <2>1
  <2>3. QED
    BY <2>2 DEF ToSet
<1>6. b = <<>> <=> s = <<>>
  <2>1. (Len(b) = 0 <=> b = <<>>) /\ (Len(s) = 0 <=> s = <<>>)
    BY <1>4, NoneLeft
  <2>2. QED
    BY <1>2, <1>4, <2>1
<1>7. QED
  BY <1>4, <1>5, <1>6 DEF b

\* What other runs have listed and not stamped.
HeldBeside(r) == {k \in Keys : \E q \in Runs \ {r} : Holds(q, k)}

\* What a run that lists leaves behind.
LEMMA ListTakes ==
    ASSUME RemindersTypeOK, NEW r \in Runs, List(r)
    PROVE  \E b \in Seq(Keys) :
              /\ ToSet(b) \subseteq Due(clock)
              /\ todo' = [todo EXCEPT ![r] = b]
              /\ pc' = [pc EXCEPT ![r] = IF b = <<>> THEN "idle" ELSE "subs"]
              /\ at' = [at EXCEPT ![r] = IF b = <<>> THEN 0 ELSE clock]
              /\ passed' = passed \cup (Due(clock) \ ToSet(b))
              /\ excused' \in [Keys -> Nat]
              /\ \A k \in Keys :
                    excused'[k] = excused[k] + IF k \in ToSet(b) \cap HeldBeside(r) THEN 1 ELSE 0
              /\ promise' = [k \in Keys |-> IF k \in ToSet(b) THEN Never ELSE promise[k]]
<1> DEFINE Batch(s) == SubSeq(s, 1, IF Len(s) < Limit THEN Len(s) ELSE Limit)
<1>1. PICK s \in Listings(clock) :
          /\ todo' = [todo EXCEPT ![r] = Batch(s)]
          /\ pc' = [pc EXCEPT ![r] = IF s = <<>> THEN "idle" ELSE "subs"]
          /\ at' = [at EXCEPT ![r] = IF s = <<>> THEN 0 ELSE clock]
          /\ passed' = passed \cup (ToSet(s) \ ToSet(Batch(s)))
          /\ excused' = [k \in Keys |-> excused[k] + IF k \in ToSet(Batch(s)) \cap HeldBeside(r) THEN 1 ELSE 0]
          /\ promise' = [k \in Keys |-> IF k \in ToSet(Batch(s)) THEN Never ELSE promise[k]]
  BY DEF List, HeldBeside
<1>2. s \in Seq(Keys) /\ ToSet(s) = Due(clock)
  BY ListsAllDue
<1>3. PICK m \in Nat : m = IF Len(s) < Limit THEN Len(s) ELSE Limit
  BY <1>2, BoundsAssumption, LenProperties
<1>4. m <= Len(s) /\ (m = 0 <=> Len(s) = 0)
  BY <1>2, <1>3, BoundsAssumption, LenProperties
<1>5. PICK b : b = SubSeq(s, 1, m)
  OBVIOUS
<1>6. Batch(s) = b
  BY <1>3, <1>5
<1>7. b \in Seq(Keys) /\ ToSet(b) \subseteq ToSet(s) /\ (b = <<>> <=> s = <<>>)
  BY <1>2, <1>4, <1>5, FirstOf
<1> HIDE DEF Batch
<1>8. /\ excused' \in [Keys -> Nat]
      /\ \A k \in Keys :
            excused'[k] = excused[k] + IF k \in ToSet(b) \cap HeldBeside(r) THEN 1 ELSE 0
  <2>1. excused \in [Keys -> Nat]
    BY DEF RemindersTypeOK
  <2>2. \A k \in Keys : k \in ToSet(Batch(s)) <=> k \in ToSet(b)
    BY <1>6
  <2>3. ASSUME NEW k \in Keys
        PROVE  excused'[k] = excused[k] + IF k \in ToSet(b) \cap HeldBeside(r) THEN 1 ELSE 0
    BY <1>1, <2>2
  <2>4. \A k \in Keys : excused'[k] \in Nat
    BY <2>1, <2>3
  <2>5. excused' = [k \in Keys |-> excused'[k]]
    BY <1>1
  <2>6. excused' \in [Keys -> Nat]
    BY <2>4, <2>5
  <2>7. QED
    BY <2>3, <2>6, Zenon
<1>10. QED
  BY <1>1, <1>2, <1>6, <1>7, <1>8

LEMMA RemindersTypeInit == RemindersInit => RemindersTypeOK
<1> SUFFICES ASSUME RemindersInit
             PROVE  RemindersTypeOK
  OBVIOUS
<1> USE OffsetsAssumption, BoundsAssumption DEF RemindersInit, Keys, Time, Never
<1>1. clock \in Time /\ live \subseteq Events /\ rows \subseteq live \X Offsets /\ shown \subseteq Keys
  OBVIOUS
<1>2. /\ sentAt \in [Keys -> Time \cup {Never}]
      /\ snoozed \in [Keys -> (SnoozeFor .. MaxTime + SnoozeFor) \cup {Never}]
      /\ promise \in [Keys -> (SnoozeFor .. MaxTime + SnoozeFor) \cup {Never}]
      /\ pushed \in [Keys -> Nat] /\ taken \in [Keys -> Nat] /\ excused \in [Keys -> Nat]
  OBVIOUS
<1>3. /\ pc \in [Runs -> {"idle", "subs", "stamp"}] /\ at \in [Runs -> Time]
      /\ todo \in [Runs -> Seq(Keys)] /\ push \in [Runs -> SUBSET Keys]
      /\ \A r \in Runs : todo[r] = <<>> <=> pc[r] = "idle"
  BY EmptySeq
<1>4. QED
  BY <1>1, <1>2, <1>3 DEF RemindersTypeOK

RunTypes ==
    /\ pc \in [Runs -> {"idle", "subs", "stamp"}] /\ at \in [Runs -> Time]
    /\ todo \in [Runs -> Seq(Keys)] /\ push \in [Runs -> SUBSET Keys]
    /\ \A r \in Runs : todo[r] = <<>> <=> pc[r] = "idle"

LEMMA RemindersTypeNext == RemindersTypeOK /\ [RemindersNext]_remindersVars => RemindersTypeOK'
<1> SUFFICES ASSUME RemindersTypeOK, [RemindersNext]_remindersVars
             PROVE  RemindersTypeOK'
  OBVIOUS
<1> USE OffsetsAssumption, BoundsAssumption
<1>1. CASE UNCHANGED remindersVars
  BY <1>1 DEF remindersVars, RemindersTypeOK
<1>2. CASE Tick
  BY <1>2 DEF Tick, RemindersTypeOK, Time, eventVars, ledgerVars, runVars, historyVars
<1>3. ASSUME NEW r \in Runs, List(r)
      PROVE  RemindersTypeOK'
  <2>1. PICK b \in Seq(Keys) :
              /\ todo' = [todo EXCEPT ![r] = b]
              /\ pc' = [pc EXCEPT ![r] = IF b = <<>> THEN "idle" ELSE "subs"]
              /\ at' = [at EXCEPT ![r] = IF b = <<>> THEN 0 ELSE clock]
              /\ excused' \in [Keys -> Nat]
              /\ promise' = [k \in Keys |-> IF k \in ToSet(b) THEN Never ELSE promise[k]]
    BY <1>3, ListTakes
  <2>2. UNCHANGED <<clock, eventVars, ledgerVars, devices, push, shown, pushed, taken, saves, mishaps>>
    BY <1>3 DEF List
  <2>3. RunTypes'
    BY <2>1, <2>2 DEF RunTypes, RemindersTypeOK, Time
  <2>4. excused' \in [Keys -> Nat]
    BY <2>1
  <2>5. promise' \in [Keys -> (SnoozeFor .. MaxTime + SnoozeFor) \cup {Never}]
    BY <2>1 DEF RemindersTypeOK
  <2>6. QED
    BY <2>2, <2>3, <2>4, <2>5 DEF RemindersTypeOK, RunTypes, eventVars, ledgerVars
<1>4. ASSUME NEW r \in Runs, HandOver(r)
      PROVE  RemindersTypeOK'
  <2>1. todo[r] \in Seq(Keys) /\ todo[r] # <<>>
    BY <1>4 DEF HandOver, RemindersTypeOK
  <2>2. ToSet(todo[r]) \subseteq Keys
    BY <2>1, ElementOfSeq, LenProperties DEF ToSet
  <2>3. RunTypes'
    BY <1>4, <2>1, <2>2 DEF HandOver, RunTypes, RemindersTypeOK
  <2>4. QED
    BY <1>4, <2>3 DEF HandOver, RemindersTypeOK, RunTypes, eventVars, ledgerVars, historyVars
<1>5. ASSUME NEW r \in Runs, Stamp(r)
      PROVE  RemindersTypeOK'
  <2>1. todo[r] \in Seq(Keys) /\ todo[r] # <<>>
    BY <1>5 DEF Stamp, RemindersTypeOK
  <2>2. PICK k \in Keys : k = Head(todo[r])
    BY <2>1, TailHolds
  <2>3. PICK q \in Seq(Keys) : q = Tail(todo[r]) /\ (Len(todo[r]) = 1 <=> q = <<>>)
    BY <2>1, TailHolds
  <2>4. /\ todo' = [todo EXCEPT ![r] = q]
        /\ pc' = [pc EXCEPT ![r] = IF q = <<>> THEN "idle" ELSE "stamp"]
        /\ at' = IF q = <<>> THEN [at EXCEPT ![r] = 0] ELSE at
        /\ push' = push
    BY <1>5, <2>3 DEF Stamp, RemindersTypeOK
  <2>5. RunTypes'
    BY <2>4 DEF RunTypes, RemindersTypeOK, Time
  <2>6. /\ sentAt' \in [Keys -> Time \cup {Never}]
        /\ snoozed' \in [Keys -> (SnoozeFor .. MaxTime + SnoozeFor) \cup {Never}]
    <3>1. \/ sentAt' = [sentAt EXCEPT ![k] = at[r]] /\ snoozed' = [snoozed EXCEPT ![k] = Never]
          \/ sentAt' = sentAt /\ snoozed' = snoozed
      BY <1>5, <2>2 DEF Stamp, ledgerVars
    <3>2. QED
      BY <3>1 DEF RemindersTypeOK
  <2>7. QED
    BY <1>5, <2>5, <2>6 DEF Stamp, RemindersTypeOK, RunTypes, eventVars, historyVars
<1>6. ASSUME NEW r \in Runs, Breaks(r)
      PROVE  RemindersTypeOK'
  <2>1. RunTypes'
    <3>1. push' \in [Runs -> SUBSET Keys]
      BY <1>6 DEF Breaks, RemindersTypeOK
    <3>2. <<>> \in Seq(Keys)
      BY EmptySeq
    <3>3. /\ pc' = [pc EXCEPT ![r] = "idle"] /\ todo' = [todo EXCEPT ![r] = <<>>]
          /\ at' = [at EXCEPT ![r] = 0]
      BY <1>6 DEF Breaks
    <3>4. pc' \in [Runs -> {"idle", "subs", "stamp"}] /\ at' \in [Runs -> Time]
      BY <3>3 DEF RemindersTypeOK, Time
    <3>5. todo' \in [Runs -> Seq(Keys)] /\ \A q \in Runs : todo'[q] = <<>> <=> pc'[q] = "idle"
      BY <3>2, <3>3 DEF RemindersTypeOK
    <3>6. QED
      BY <3>1, <3>4, <3>5 DEF RunTypes
  <2>2. excused' \in [Keys -> Nat]
    BY <1>6 DEF Breaks, RemindersTypeOK
  <2>3. /\ clock' = clock /\ live' = live /\ starts' = starts /\ rows' = rows
        /\ sentAt' = sentAt /\ snoozed' = snoozed /\ devices' = devices /\ shown' = shown
        /\ pushed' = pushed /\ taken' = taken /\ promise' = promise
    BY <1>6 DEF Breaks, eventVars, ledgerVars
  <2>4. /\ clock' \in Time /\ live' \subseteq Events /\ rows' \subseteq live' \X Offsets
        /\ shown' \subseteq Keys /\ starts' \in [Events -> Starts]
        /\ sentAt' \in [Keys -> Time \cup {Never}]
        /\ snoozed' \in [Keys -> (SnoozeFor .. MaxTime + SnoozeFor) \cup {Never}]
        /\ devices' \in BOOLEAN
        /\ promise' \in [Keys -> (SnoozeFor .. MaxTime + SnoozeFor) \cup {Never}]
    BY <2>3 DEF RemindersTypeOK
  <2>5. {pushed', taken', excused'} \subseteq [Keys -> Nat]
    BY <2>2, <2>3 DEF RemindersTypeOK
  <2>6. QED
    BY <2>1, <2>4, <2>5 DEF RemindersTypeOK, RunTypes
<1>7. ASSUME NEW r \in Runs, Deliver(r)
      PROVE  RemindersTypeOK'
  <2>1. RunTypes'
    BY <1>7 DEF Deliver, RunTypes, RemindersTypeOK
  <2>2. pushed' \in [Keys -> Nat]
    BY <1>7 DEF Deliver, RemindersTypeOK
  <2>3. shown' \subseteq Keys
    BY <1>7 DEF Deliver, RemindersTypeOK
  <2>4. QED
    BY <1>7, <2>1, <2>2, <2>3 DEF Deliver, RemindersTypeOK, RunTypes, eventVars, ledgerVars
<1>8. ASSUME NEW r \in Runs, Undelivered(r)
      PROVE  RemindersTypeOK'
  <2>1. RunTypes' /\ devices' \in BOOLEAN
    <3>1. FALSE \in BOOLEAN
      OBVIOUS
    <3>2. devices' \in BOOLEAN
      BY <1>8, <3>1 DEF Undelivered, RemindersTypeOK
    <3>3. RunTypes'
      BY <1>8 DEF Undelivered, RunTypes, RemindersTypeOK
    <3>4. QED
      BY <3>2, <3>3
  <2>2. QED
    BY <1>8, <2>1 DEF Undelivered, RemindersTypeOK, RunTypes, eventVars, ledgerVars, historyVars
<1>9. ASSUME NEW k \in Keys, Snooze(k)
      PROVE  RemindersTypeOK'
  <2>1. clock + SnoozeFor \in SnoozeFor .. MaxTime + SnoozeFor
    BY DEF RemindersTypeOK, Time
  <2>2. sentAt' \in [Keys -> Time \cup {Never}]
    BY <1>9 DEF Snooze, SnoozeReminder, RemindersTypeOK
  <2>3. /\ snoozed' \in [Keys -> (SnoozeFor .. MaxTime + SnoozeFor) \cup {Never}]
        /\ promise' \in [Keys -> (SnoozeFor .. MaxTime + SnoozeFor) \cup {Never}]
    BY <1>9, <2>1 DEF Snooze, SnoozeReminder, RemindersTypeOK
  <2>4. taken' \in [Keys -> Nat]
    <3>1. taken \in [Keys -> Nat]
      BY DEF RemindersTypeOK
    <3>2. taken' = [taken EXCEPT ![k] = taken[k] + 1]
      BY <1>9 DEF Snooze
    <3>3. QED
      BY <3>1, <3>2
  <2>5. shown' \subseteq Keys
    BY <1>9 DEF Snooze, RemindersTypeOK
  <2>6. QED
    BY <1>9, <2>2, <2>3, <2>4, <2>5 DEF Snooze, RemindersTypeOK, eventVars, runVars
<1>10. ASSUME NEW k \in Keys, Dismiss(k)
       PROVE  RemindersTypeOK'
  BY <1>10 DEF Dismiss, RemindersTypeOK, eventVars, ledgerVars, runVars, historyVars
<1>11. CASE Subscribe
  <2>1. devices' \in BOOLEAN
    BY <1>11 DEF Subscribe
  <2>2. QED
    BY <1>11, <2>1 DEF Subscribe, RemindersTypeOK, eventVars, ledgerVars, runVars, historyVars
<1>12. ASSUME NEW k \in Keys, InsertRow(k)
       PROVE  RemindersTypeOK'
  <2>1. k \in live \X Offsets
    BY <1>12 DEF InsertRow, Keys, RemindersTypeOK
  <2>2. QED
    BY <1>12, <2>1 DEF InsertRow, Write, RemindersTypeOK, ledgerVars, runVars
<1>13. ASSUME NEW e \in Events, WipeRows(e)
       PROVE  RemindersTypeOK'
  BY <1>13 DEF WipeRows, Write, RemindersTypeOK, ledgerVars, runVars
<1>14. ASSUME NEW e \in Events, Delete(e)
       PROVE  RemindersTypeOK'
  <2>1. rows \ Of(e) \subseteq (live \ {e}) \X Offsets
    BY DEF Of, RemindersTypeOK
  <2>2. QED
    BY <1>14, <2>1 DEF Delete, Write, RemindersTypeOK, ledgerVars, runVars
<1>15. ASSUME NEW e \in Events, NEW t \in Starts, Move(e, t)
       PROVE  RemindersTypeOK'
  BY <1>15 DEF Move, Write, RemindersTypeOK, ledgerVars, runVars
<1>16. QED
  BY <1>1, <1>2, <1>3, <1>4, <1>5, <1>6, <1>7, <1>8, <1>9, <1>10, <1>11, <1>12, <1>13, <1>14,
     <1>15
     DEF RemindersNext, Dispatch

(***************************************************************************)
(* The pushes of a row: those that reached the device, those in flight,    *)
(* and those of a run that has listed the row and not handed it over.      *)
(***************************************************************************)
Pushing(k) == {r \in Runs : k \in push[r] \/ (pc[r] = "subs" /\ Holds(r, k))}
Spent(k) == pushed[k] + Cardinality(Pushing(k))
Unheld(k) == \A r \in Runs : ~Holds(r, k)

\* A row that nobody has listed and that is still due, or due again, has a push to spare.
Budgeted(k) ==
    /\ Spent(k) <= 1 + taken[k] + excused[k]
    /\ Unheld(k) /\ (sentAt[k] = Never \/ snoozed[k] # Never) =>
          Spent(k) <= taken[k] + excused[k]

PushesBudgeted ==
    /\ \A r \in Runs : pc[r] = "subs" => push[r] = {}
    /\ \A k \in Keys : Budgeted(k)

\* A promise that no run endangers is on the ledger, and no run has its row to stamp.
SnoozesSafe ==
    \A k \in Keys : promise[k] # Never /\ k \notin raced => snoozed[k] = promise[k] /\ Unheld(k)

\* Those in flight are finitely many, so that they can be counted.
LEMMA CountPushing ==
    ASSUME NEW S \in SUBSET Runs
    PROVE  Cardinality(S) \in Nat
  BY FiniteAssumption, FS_Subset, FS_CardinalityType

LEMMA CountFewer ==
    ASSUME NEW S \in SUBSET Runs, NEW T \in SUBSET S
    PROVE  Cardinality(T) <= Cardinality(S) /\ Cardinality(T) \in Nat /\ Cardinality(S) \in Nat
<1>1. IsFiniteSet(S)
  BY FiniteAssumption, FS_Subset
<1>2. QED
  BY <1>1, FS_Subset, FS_CardinalityType

LEMMA CountMore ==
    ASSUME NEW S \in SUBSET Runs, NEW r
    PROVE  /\ r \notin S => Cardinality(S \cup {r}) = Cardinality(S) + 1
           /\ r \in S => Cardinality(S \ {r}) = Cardinality(S) - 1
<1>1. IsFiniteSet(S)
  BY FiniteAssumption, FS_Subset
<1>2. QED
  BY <1>1, FS_AddElement, FS_RemoveElement

\* The budget depends on what its parts say.
LEMMA BudgetStays ==
    ASSUME NEW k \in Keys, RemindersTypeOK, RemindersTypeOK', Budgeted(k),
           pushed'[k] = pushed[k], Pushing(k)' \subseteq Pushing(k),
           taken'[k] = taken[k], excused'[k] = excused[k],
           Unheld(k)' => Unheld(k),
           Unheld(k)' => (sentAt'[k] = Never \/ snoozed'[k] # Never =>
                          sentAt[k] = Never \/ snoozed[k] # Never)
    PROVE  Budgeted(k)'
<1>1. Pushing(k) \in SUBSET Runs
  BY DEF Pushing
<1>2. PICK n \in Nat, m \in Nat : n = Cardinality(Pushing(k)) /\ m = Cardinality(Pushing(k)') /\ m <= n
  BY <1>1, CountFewer
<1>3. pushed[k] \in Nat /\ taken[k] \in Nat /\ excused[k] \in Nat
  BY DEF RemindersTypeOK
<1>4. Spent(k) = pushed[k] + n /\ Spent(k)' = pushed[k] + m
  BY <1>2 DEF Spent
<1>5. Spent(k)' <= Spent(k) /\ Spent(k) \in Nat /\ Spent(k)' \in Nat
  BY <1>2, <1>3, <1>4
<1>6. Spent(k)' <= 1 + taken'[k] + excused'[k]
  BY <1>3, <1>5 DEF Budgeted
<1>7. ASSUME Unheld(k)', sentAt'[k] = Never \/ snoozed'[k] # Never
      PROVE  Spent(k)' <= taken'[k] + excused'[k]
  BY <1>3, <1>5, <1>7 DEF Budgeted
<1>8. QED
  BY <1>6, <1>7 DEF Budgeted

LEMMA ListBudgeted ==
    ASSUME RemindersTypeOK, PushesBudgeted, NEW r \in Runs, List(r), RemindersTypeOK'
    PROVE  PushesBudgeted'
<1>1. PICK b \in Seq(Keys) :
              /\ ToSet(b) \subseteq Due(clock)
              /\ todo' = [todo EXCEPT ![r] = b]
              /\ pc' = [pc EXCEPT ![r] = IF b = <<>> THEN "idle" ELSE "subs"]
              /\ \A k \in Keys :
                    excused'[k] = excused[k] + IF k \in ToSet(b) \cap HeldBeside(r) THEN 1 ELSE 0
  BY ListTakes
<1>2. /\ pc[r] = "idle" /\ push[r] = {} /\ push' = push /\ pushed' = pushed /\ taken' = taken
      /\ sentAt' = sentAt /\ snoozed' = snoozed
  BY DEF List, ledgerVars
<1>3. todo[r] = <<>> /\ \A k : ~Holds(r, k)
  BY <1>2 DEF RemindersTypeOK, Holds
<1>4. \A k : \A q \in Runs : Holds(q, k)' <=> IF q = r THEN k \in ToSet(b) ELSE Holds(q, k)
  BY <1>1 DEF Holds, ToSet, RemindersTypeOK
<1>5. \A q \in Runs : pc'[q] = "subs" => push'[q] = {}
  BY <1>1, <1>2 DEF PushesBudgeted, RemindersTypeOK
<1>6. ASSUME NEW k \in Keys
      PROVE  Budgeted(k)'
  <2>1. Budgeted(k) /\ pushed[k] \in Nat /\ taken[k] \in Nat /\ excused[k] \in Nat
    BY DEF PushesBudgeted, RemindersTypeOK
  <2>2. CASE k \notin ToSet(b)
    <3>1. \A q \in Runs : Holds(q, k)' <=> Holds(q, k)
      BY <1>3, <1>4, <2>2
    <3>2. Pushing(k)' \subseteq Pushing(k)
      BY <1>1, <1>2, <1>3, <3>1 DEF Pushing, RemindersTypeOK
    <3>3. excused'[k] = excused[k]
      BY <1>1, <2>1, <2>2
    <3>4. QED
      BY <1>2, <2>1, <3>1, <3>2, <3>3, BudgetStays DEF Unheld
  <2>3. CASE k \in ToSet(b)
    <3>1. Holds(r, k)'
      BY <1>4, <2>3
    <3>2. Pushing(k)' = Pushing(k) \cup {r} /\ r \notin Pushing(k)
      <4>1. b # <<>>
        BY <2>3, EmptySeq DEF ToSet
      <4>2. pc'[r] = "subs" /\ \A q \in Runs \ {r} : pc'[q] = pc[q]
        BY <1>1, <4>1 DEF RemindersTypeOK
      <4>3. \A q \in Runs \ {r} : Holds(q, k)' <=> Holds(q, k)
        BY <1>4
      <4>4. QED
        BY <1>2, <3>1, <4>2, <4>3 DEF Pushing
    <3>3. PICK n \in Nat : n = Cardinality(Pushing(k))
      BY CountPushing DEF Pushing
    <3>4. Cardinality(Pushing(k)') = n + 1
      BY <3>2, <3>3, CountMore DEF Pushing
    <3>5. Spent(k) = pushed[k] + n /\ Spent(k)' = pushed[k] + (n + 1)
      BY <1>2, <3>3, <3>4 DEF Spent
    <3>6. Spent(k)' <= 1 + taken'[k] + excused'[k]
      <4>1. CASE k \in HeldBeside(r)
        <5>1. excused'[k] = excused[k] + 1
          BY <1>1, <2>3, <4>1
        <5>2. pushed[k] + n <= 1 + taken[k] + excused[k]
          BY <2>1, <3>5 DEF Budgeted
        <5>3. QED
          BY <1>2, <2>1, <3>5, <5>1, <5>2
      <4>2. CASE k \notin HeldBeside(r)
        <5>1. excused'[k] = excused[k]
          BY <1>1, <2>1, <4>2
        <5>2. Unheld(k)
          BY <1>3, <4>2 DEF HeldBeside, Unheld
        <5>3. sentAt[k] = Never \/ snoozed[k] # Never
          BY <1>1, <2>3 DEF Due
        <5>4. pushed[k] + n <= taken[k] + excused[k]
          BY <2>1, <3>5, <5>2, <5>3 DEF Budgeted
        <5>5. QED
          BY <1>2, <2>1, <3>5, <5>1, <5>4
      <4>3. QED
        BY <4>1, <4>2
    <3>7. ~Unheld(k)'
      BY <3>1 DEF Unheld
    <3>8. QED
      BY <3>6, <3>7 DEF Budgeted
  <2>4. QED
    BY <2>2, <2>3
<1>7. QED
  BY <1>5, <1>6 DEF PushesBudgeted

\* What a stamp does to the row it is for, and to the list.
LEMMA StampTakes ==
    ASSUME RemindersTypeOK, NEW r \in Runs, Stamp(r)
    PROVE  \E h \in Keys :
              /\ Holds(r, h) /\ pc[r] = "stamp"
              /\ \A k : k # h => \A q \in Runs : Holds(q, k)' <=> Holds(q, k)
              /\ \A k \in Keys \ {h} : sentAt'[k] = sentAt[k] /\ snoozed'[k] = snoozed[k]
              /\ sentAt'[h] \in Nat /\ snoozed'[h] = Never
              /\ pc'[r] \in {"idle", "stamp"} /\ \A q \in Runs \ {r} : pc'[q] = pc[q]
              /\ \A k : \A q \in Runs : Holds(q, k)' => Holds(q, k)
<1>1. pc[r] = "stamp" /\ todo[r] \in Seq(Keys) /\ todo[r] # <<>>
  BY DEF Stamp, RemindersTypeOK
<1>2. PICK h \in Keys, q \in Seq(Keys) :
        /\ h = Head(todo[r]) /\ q = Tail(todo[r])
        /\ ToSet(todo[r]) = {h} \cup ToSet(q)
  BY <1>1, TailHolds
<1>3. /\ IF sentAt[h] = Never \/ snoozed[h] # Never
         THEN sentAt' = [sentAt EXCEPT ![h] = at[r]] /\ snoozed' = [snoozed EXCEPT ![h] = Never]
         ELSE sentAt' = sentAt /\ snoozed' = snoozed
      /\ todo' = [todo EXCEPT ![r] = q]
      /\ pc' = [pc EXCEPT ![r] = IF Len(todo[r]) = 1 THEN "idle" ELSE "stamp"]
  BY <1>2 DEF Stamp, ledgerVars
<1>4. Holds(r, h)
  BY <1>2 DEF Holds, ToSet
<1>5. \A p \in Runs : ToSet(todo'[p]) = IF p = r THEN ToSet(q) ELSE ToSet(todo[p])
  BY <1>3 DEF RemindersTypeOK
<1>6. \A k : \A p \in Runs : Holds(p, k) <=> k \in ToSet(todo[p])
  BY DEF Holds, ToSet
<1>7. \A k : \A p \in Runs : Holds(p, k)' <=> k \in ToSet(todo'[p])
  BY DEF Holds, ToSet
<1>8. /\ \A k : k # h => \A p \in Runs : Holds(p, k)' <=> Holds(p, k)
      /\ \A k : \A p \in Runs : Holds(p, k)' => Holds(p, k)
  BY <1>2, <1>5, <1>6, <1>7
<1>9. /\ \A k \in Keys \ {h} : sentAt'[k] = sentAt[k] /\ snoozed'[k] = snoozed[k]
      /\ sentAt'[h] \in Nat /\ snoozed'[h] = Never
  <2>1. at[r] \in Nat /\ (sentAt[h] # Never => sentAt[h] \in Nat)
    BY BoundsAssumption DEF RemindersTypeOK, Time
  <2>2. QED
    BY <1>3, <2>1 DEF RemindersTypeOK
<1>10. pc'[r] \in {"idle", "stamp"} /\ \A p \in Runs \ {r} : pc'[p] = pc[p]
  BY <1>3 DEF RemindersTypeOK
<1>11. QED
  BY <1>1, <1>4, <1>8, <1>9, <1>10

LEMMA StampBudgeted ==
    ASSUME RemindersTypeOK, PushesBudgeted, NEW r \in Runs, Stamp(r), RemindersTypeOK'
    PROVE  PushesBudgeted'
<1>1. PICK h \in Keys :
              /\ Holds(r, h) /\ pc[r] = "stamp"
              /\ \A k : k # h => \A q \in Runs : Holds(q, k)' <=> Holds(q, k)
              /\ \A k \in Keys \ {h} : sentAt'[k] = sentAt[k] /\ snoozed'[k] = snoozed[k]
              /\ sentAt'[h] \in Nat /\ snoozed'[h] = Never
              /\ pc'[r] \in {"idle", "stamp"} /\ \A q \in Runs \ {r} : pc'[q] = pc[q]
              /\ \A k : \A q \in Runs : Holds(q, k)' => Holds(q, k)
  BY StampTakes
<1>2. push' = push /\ pushed' = pushed /\ taken' = taken /\ excused' = excused
  BY DEF Stamp, historyVars
<1>3. \A q \in Runs : pc'[q] = "subs" => push'[q] = {}
  BY <1>1, <1>2 DEF PushesBudgeted
<1>4. ASSUME NEW k \in Keys
      PROVE  Budgeted(k)'
  <2>1. Pushing(k)' \subseteq Pushing(k)
    BY <1>1, <1>2 DEF Pushing
  <2>2. Budgeted(k)
    BY DEF PushesBudgeted
  <2>3. CASE k = h
    <3>1. ~(sentAt'[k] = Never \/ snoozed'[k] # Never)
      BY <1>1, <2>3 DEF Never
    <3>2. PICK n \in Nat, m \in Nat : n = Cardinality(Pushing(k)) /\ m = Cardinality(Pushing(k)') /\ m <= n
      BY <2>1, CountFewer DEF Pushing
    <3>3. pushed[k] \in Nat /\ taken[k] \in Nat /\ excused[k] \in Nat
      BY DEF RemindersTypeOK
    <3>4. Spent(k) = pushed[k] + n /\ Spent(k)' = pushed[k] + m
      BY <1>2, <3>2 DEF Spent
    <3>5. Spent(k)' <= 1 + taken'[k] + excused'[k]
      <4>1. pushed[k] + n <= 1 + taken[k] + excused[k]
        BY <2>2, <3>4 DEF Budgeted
      <4>2. QED
        BY <1>2, <3>2, <3>3, <3>4, <4>1
    <3>6. QED
      BY <3>1, <3>5 DEF Budgeted
  <2>4. CASE k # h
    <3>1. Unheld(k)' => Unheld(k)
      BY <1>1, <2>4 DEF Unheld
    <3>2. QED
      BY <1>1, <1>2, <2>1, <2>2, <2>4, <3>1, BudgetStays
  <2>5. QED
    BY <2>3, <2>4
<1>5. QED
  BY <1>3, <1>4 DEF PushesBudgeted

\* A push is handed over, delivered or lost: it counts once, or not any more.
LEMMA PushBudgeted ==
    ASSUME RemindersTypeOK, PushesBudgeted, NEW r \in Runs, RemindersTypeOK',
           HandOver(r) \/ Deliver(r) \/ Undelivered(r)
    PROVE  PushesBudgeted'
<1>1. CASE HandOver(r)
  <2>1. /\ pc[r] = "subs" /\ pc' = [pc EXCEPT ![r] = "stamp"] /\ todo' = todo
        /\ push' = [push EXCEPT ![r] = IF devices THEN ToSet(todo[r]) ELSE {}]
        /\ pushed' = pushed /\ taken' = taken /\ excused' = excused /\ sentAt' = sentAt /\ snoozed' = snoozed
    BY <1>1 DEF HandOver, historyVars, ledgerVars
  <2>2. \A q \in Runs : pc'[q] = "subs" => push'[q] = {}
    BY <2>1 DEF PushesBudgeted, RemindersTypeOK
  <2>3. ASSUME NEW k \in Keys
        PROVE  Budgeted(k)'
    <3>1. \A q \in Runs : Holds(q, k)' <=> Holds(q, k)
      BY <2>1 DEF Holds
    <3>2. k \in push'[r] => Holds(r, k)
      BY <2>1 DEF Holds, ToSet, RemindersTypeOK
    <3>3. Pushing(k)' \subseteq Pushing(k)
      BY <2>1, <3>1, <3>2 DEF Pushing, RemindersTypeOK
    <3>4. QED
      BY <2>1, <3>1, <3>3, BudgetStays DEF PushesBudgeted, Unheld
  <2>4. QED
    BY <2>2, <2>3 DEF PushesBudgeted
<1>2. CASE Deliver(r)
  <2>1. /\ push' = [push EXCEPT ![r] = {}] /\ pc' = pc /\ todo' = todo
        /\ pushed' = [k \in Keys |-> pushed[k] + IF k \in push[r] THEN 1 ELSE 0]
        /\ taken' = taken /\ excused' = excused /\ sentAt' = sentAt /\ snoozed' = snoozed
    BY <1>2 DEF Deliver, ledgerVars
  <2>2. \A q \in Runs : pc'[q] = "subs" => push'[q] = {}
    BY <2>1 DEF PushesBudgeted, RemindersTypeOK
  <2>3. ASSUME NEW k \in Keys
        PROVE  Budgeted(k)'
    <3>1. \A q \in Runs : Holds(q, k)' <=> Holds(q, k)
      BY <2>1 DEF Holds
    <3>2. CASE k \notin push[r]
      <4>1. Pushing(k)' \subseteq Pushing(k)
        BY <2>1, <3>1 DEF Pushing, RemindersTypeOK
      <4>2. pushed'[k] = pushed[k]
        BY <2>1, <3>2 DEF RemindersTypeOK
      <4>3. QED
        BY <2>1, <3>1, <4>1, <4>2, BudgetStays DEF PushesBudgeted, Unheld
    <3>3. CASE k \in push[r]
      <4>1. r \in Pushing(k) /\ pc[r] # "subs"
        BY <3>3 DEF Pushing, PushesBudgeted
      <4>2. Pushing(k)' = Pushing(k) \ {r}
        BY <2>1, <3>1, <4>1 DEF Pushing, RemindersTypeOK
      <4>3. PICK n \in Nat : n = Cardinality(Pushing(k))
        BY CountPushing DEF Pushing
      <4>4. Cardinality(Pushing(k)') = n - 1
        BY <4>1, <4>2, <4>3, CountMore DEF Pushing
      <4>5. pushed[k] \in Nat /\ pushed'[k] = pushed[k] + 1
        BY <2>1, <3>3 DEF RemindersTypeOK
      <4>6. Spent(k) = pushed[k] + n /\ Spent(k)' = pushed'[k] + (n - 1)
        BY <4>3, <4>4 DEF Spent
      <4>7. Spent(k)' = Spent(k)
        BY <4>5, <4>6
      <4>8. QED
        BY <2>1, <3>1, <4>7 DEF Budgeted, PushesBudgeted, Unheld
    <3>4. QED
      BY <3>2, <3>3
  <2>4. QED
    BY <2>2, <2>3 DEF PushesBudgeted
<1>3. CASE Undelivered(r)
  <2>1. /\ push' = [push EXCEPT ![r] = {}] /\ pc' = pc /\ todo' = todo
        /\ pushed' = pushed /\ taken' = taken /\ excused' = excused /\ sentAt' = sentAt /\ snoozed' = snoozed
    BY <1>3 DEF Undelivered, ledgerVars, historyVars
  <2>2. \A q \in Runs : pc'[q] = "subs" => push'[q] = {}
    BY <2>1 DEF PushesBudgeted, RemindersTypeOK
  <2>3. ASSUME NEW k \in Keys
        PROVE  Budgeted(k)'
    <3>1. \A q \in Runs : Holds(q, k)' <=> Holds(q, k)
      BY <2>1 DEF Holds
    <3>2. Pushing(k)' \subseteq Pushing(k)
      BY <2>1, <3>1 DEF Pushing, RemindersTypeOK
    <3>3. QED
      BY <2>1, <3>1, <3>2, BudgetStays DEF PushesBudgeted, Unheld
  <2>4. QED
    BY <2>2, <2>3 DEF PushesBudgeted
<1>4. QED
  BY <1>1, <1>2, <1>3

LEMMA BreaksBudgeted ==
    ASSUME RemindersTypeOK, PushesBudgeted, NEW r \in Runs, RemindersTypeOK', Breaks(r)
    PROVE  PushesBudgeted'
<1>1. /\ pc' = [pc EXCEPT ![r] = "idle"] /\ todo' = [todo EXCEPT ![r] = <<>>]
      /\ push' \in {push, [push EXCEPT ![r] = {}]}
      /\ excused' = [k \in Keys |-> excused[k] + IF Holds(r, k) THEN 1 ELSE 0]
      /\ pushed' = pushed /\ taken' = taken /\ sentAt' = sentAt /\ snoozed' = snoozed
  BY DEF Breaks, ledgerVars
<1>2. \A q \in Runs : push'[q] \subseteq push[q]
  BY <1>1 DEF RemindersTypeOK
<1>3. \A k : \A q \in Runs : Holds(q, k)' <=> q # r /\ Holds(q, k)
  BY <1>1 DEF Holds, RemindersTypeOK
<1>4. \A q \in Runs : pc'[q] = "subs" => push'[q] = {}
  BY <1>1, <1>2 DEF PushesBudgeted, RemindersTypeOK
<1>5. ASSUME NEW k \in Keys
      PROVE  Budgeted(k)'
  <2>1. Pushing(k)' \subseteq Pushing(k)
    BY <1>1, <1>2, <1>3 DEF Pushing, RemindersTypeOK
  <2>2. Budgeted(k)
    BY DEF PushesBudgeted
  <2>3. CASE ~Holds(r, k)
    <3>1. excused'[k] = excused[k] /\ (Unheld(k)' => Unheld(k))
      BY <1>1, <1>3, <2>3 DEF Unheld, RemindersTypeOK
    <3>2. QED
      BY <1>1, <2>1, <2>2, <3>1, BudgetStays
  <2>4. CASE Holds(r, k)
    <3>1. pushed[k] \in Nat /\ taken[k] \in Nat /\ excused[k] \in Nat /\ excused'[k] = excused[k] + 1
      BY <1>1, <2>4 DEF RemindersTypeOK
    <3>2. PICK n \in Nat, m \in Nat : n = Cardinality(Pushing(k)) /\ m = Cardinality(Pushing(k)') /\ m <= n
      BY <2>1, CountFewer DEF Pushing
    <3>3. Spent(k) = pushed[k] + n /\ Spent(k)' = pushed[k] + m
      BY <1>1, <3>2 DEF Spent
    <3>4. pushed[k] + n <= 1 + taken[k] + excused[k]
      BY <2>2, <3>3 DEF Budgeted
    <3>5. Spent(k)' <= taken'[k] + excused'[k] /\ Spent(k)' <= 1 + taken'[k] + excused'[k]
      BY <1>1, <3>1, <3>2, <3>3, <3>4
    <3>6. QED
      BY <3>5 DEF Budgeted
  <2>5. QED
    BY <2>3, <2>4
<1>6. QED
  BY <1>4, <1>5 DEF PushesBudgeted

LEMMA SnoozeBudgeted ==
    ASSUME RemindersTypeOK, PushesBudgeted, NEW h \in Keys, RemindersTypeOK', Snooze(h)
    PROVE  PushesBudgeted'
<1>1. /\ UNCHANGED <<pc, push, todo, pushed, excused>>
      /\ taken' = [taken EXCEPT ![h] = @ + 1]
      /\ \A k \in Keys \ {h} : sentAt'[k] = sentAt[k] /\ snoozed'[k] = snoozed[k]
  BY DEF Snooze, SnoozeReminder, runVars, RemindersTypeOK
<1>2. ASSUME NEW k \in Keys
      PROVE  Budgeted(k)'
  <2>1. Pushing(k)' = Pushing(k) /\ (Unheld(k)' <=> Unheld(k)) /\ Spent(k)' = Spent(k) /\ Budgeted(k)
    BY <1>1 DEF Pushing, Unheld, Spent, Holds, PushesBudgeted
  <2>2. CASE k # h
    <3>1. taken'[k] = taken[k]
      BY <1>1, <2>2 DEF RemindersTypeOK
    <3>2. QED
      BY <1>1, <2>1, <2>2, <3>1, BudgetStays
  <2>3. CASE k = h
    <3>1. taken[k] \in Nat /\ excused[k] \in Nat /\ pushed[k] \in Nat /\ taken'[k] = taken[k] + 1
      BY <1>1, <2>3 DEF RemindersTypeOK
    <3>2. PICK n \in Nat : n = Cardinality(Pushing(k))
      BY CountPushing DEF Pushing
    <3>3. Spent(k) = pushed[k] + n
      BY <3>2 DEF Spent
    <3>4. pushed[k] + n <= 1 + taken[k] + excused[k]
      BY <2>1, <3>3 DEF Budgeted
    <3>5. Spent(k)' <= taken'[k] + excused'[k] /\ Spent(k)' <= 1 + taken'[k] + excused'[k]
      BY <1>1, <2>1, <3>1, <3>2, <3>3, <3>4
    <3>6. QED
      BY <3>5 DEF Budgeted
  <2>4. QED
    BY <2>2, <2>3
<1>3. QED
  BY <1>1, <1>2 DEF PushesBudgeted

\* What the dispatcher and the snoozes do not touch.
LEMMA OthersBudgeted ==
    ASSUME PushesBudgeted, UNCHANGED <<pc, push, todo, pushed, taken, excused, sentAt, snoozed>>
    PROVE  PushesBudgeted'
  BY DEF PushesBudgeted, Budgeted, Spent, Pushing, Unheld, Holds

LEMMA SnoozesSafeNext ==
    ASSUME RemindersTypeOK, SnoozesSafe, RemindersTypeOK', [RemindersNext]_remindersVars
    PROVE  SnoozesSafe'
<1>1. ASSUME NEW r \in Runs, List(r)
      PROVE  SnoozesSafe'
  <2>1. PICK b \in Seq(Keys) :
              /\ todo' = [todo EXCEPT ![r] = b]
              /\ promise' = [k \in Keys |-> IF k \in ToSet(b) THEN Never ELSE promise[k]]
    BY <1>1, ListTakes
  <2>2. raced' = {k \in raced : promise'[k] # Never} /\ snoozed' = snoozed
    BY <1>1 DEF List, ledgerVars
  <2>3. ASSUME NEW k \in Keys, promise'[k] # Never, k \notin raced'
        PROVE  snoozed'[k] = promise'[k] /\ Unheld(k)'
    <3>1. k \notin ToSet(b) /\ promise'[k] = promise[k] /\ k \notin raced
      BY <2>1, <2>2, <2>3
    <3>2. snoozed[k] = promise[k] /\ Unheld(k)
      BY <2>3, <3>1 DEF SnoozesSafe
    <3>3. Unheld(k)'
      BY <2>1, <3>1, <3>2 DEF Unheld, Holds, ToSet, RemindersTypeOK
    <3>4. QED
      BY <2>2, <3>1, <3>2, <3>3
  <2>4. QED
    BY <2>3 DEF SnoozesSafe
<1>2. ASSUME NEW r \in Runs, Stamp(r)
      PROVE  SnoozesSafe'
  <2>1. PICK h \in Keys :
              /\ Holds(r, h)
              /\ \A k \in Keys \ {h} : snoozed'[k] = snoozed[k]
              /\ \A k : \A q \in Runs : Holds(q, k)' => Holds(q, k)
    BY <1>2, StampTakes
  <2>2. promise' = promise /\ raced' = raced
    BY <1>2 DEF Stamp, historyVars
  <2>3. QED
    BY <2>1, <2>2 DEF SnoozesSafe, Unheld
<1>3. ASSUME NEW r \in Runs, Breaks(r)
      PROVE  SnoozesSafe'
  <2>1. todo' = [todo EXCEPT ![r] = <<>>] /\ promise' = promise /\ raced' = raced /\ snoozed' = snoozed
    BY <1>3 DEF Breaks, ledgerVars
  <2>2. \A k : Unheld(k) => Unheld(k)'
    BY <2>1 DEF Unheld, Holds, RemindersTypeOK
  <2>3. QED
    BY <2>1, <2>2 DEF SnoozesSafe
<1>4. ASSUME NEW h \in Keys, Snooze(h)
      PROVE  SnoozesSafe'
  <2>1. /\ snoozed' = [snoozed EXCEPT ![h] = clock + SnoozeFor]
        /\ promise' = [promise EXCEPT ![h] = clock + SnoozeFor]
        /\ raced' = IF \E r \in Runs : Holds(r, h) THEN raced \cup {h} ELSE raced \ {h}
        /\ todo' = todo
    BY <1>4 DEF Snooze, SnoozeReminder, runVars
  <2>2. \A k : Unheld(k)' <=> Unheld(k)
    BY <2>1 DEF Unheld, Holds
  <2>3. ASSUME NEW k \in Keys, promise'[k] # Never, k \notin raced'
        PROVE  snoozed'[k] = promise'[k] /\ Unheld(k)'
    <3>1. CASE k = h
      BY <2>1, <2>2, <2>3, <3>1 DEF Unheld, RemindersTypeOK
    <3>2. CASE k # h
      BY <2>1, <2>2, <2>3, <3>2 DEF SnoozesSafe, RemindersTypeOK
    <3>3. QED
      BY <3>1, <3>2
  <2>4. QED
    BY <2>3 DEF SnoozesSafe
<1>5. CASE UNCHANGED <<todo, promise, raced, snoozed>>
  BY <1>5 DEF SnoozesSafe, Unheld, Holds
<1>6. \/ UNCHANGED <<todo, promise, raced, snoozed>>
      \/ \E r \in Runs : List(r) \/ Stamp(r) \/ Breaks(r)
      \/ \E k \in Keys : Snooze(k)
  BY DEF RemindersNext, remindersVars, Dispatch, Tick, HandOver, Deliver, Undelivered, Dismiss,
     Subscribe,
     InsertRow, WipeRows, Delete, Move, Write, ledgerVars, runVars, historyVars
<1>7. QED
  BY <1>1, <1>2, <1>3, <1>4, <1>5, <1>6

LEMMA SeenNext ==
    ASSUME RemindersTypeOK, SeenInBand, RemindersTypeOK', [RemindersNext]_remindersVars
    PROVE  SeenInBand'
<1>1. ASSUME NEW r \in Runs, List(r)
      PROVE  SeenInBand'
  <2>1. PICK b \in Seq(Keys) :
              /\ todo' = [todo EXCEPT ![r] = b]
              /\ passed' = passed \cup (Due(clock) \ ToSet(b))
    BY <1>1, ListTakes
  <2>2. /\ pc[r] = "idle" /\ rows' = rows /\ sentAt' = sentAt
        /\ looked' = looked \cup {k \in rows : InBand(Fire(k), clock)}
    BY <1>1 DEF List, ledgerVars, eventVars
  <2>3. \A k : ~Holds(r, k)
    BY <2>2 DEF RemindersTypeOK, Holds
  <2>4. \A k : \A q \in Runs : Holds(q, k)' <=> IF q = r THEN k \in ToSet(b) ELSE Holds(q, k)
    BY <2>1 DEF Holds, ToSet, RemindersTypeOK
  <2>5. ASSUME NEW k \in rows' \cap looked', sentAt'[k] = Never
        PROVE  k \in passed' \/ \E q \in Runs : Holds(q, k)'
    <3>1. CASE k \in looked
      BY <2>1, <2>2, <2>3, <2>4, <2>5, <3>1 DEF SeenInBand
    <3>2. CASE k \notin looked
      <4>1. k \in Due(clock)
        BY <2>2, <2>5, <3>2 DEF Due
      <4>2. QED
        BY <2>1, <2>4, <4>1
    <3>3. QED
      BY <3>1, <3>2
  <2>6. QED
    BY <2>5 DEF SeenInBand
<1>2. ASSUME NEW r \in Runs, Stamp(r)
      PROVE  SeenInBand'
  <2>1. PICK h \in Keys :
              /\ \A k : k # h => \A q \in Runs : Holds(q, k)' <=> Holds(q, k)
              /\ \A k \in Keys \ {h} : sentAt'[k] = sentAt[k]
              /\ sentAt'[h] \in Nat
    BY <1>2, StampTakes
  <2>2. passed' = passed /\ looked' = looked /\ rows' = rows /\ rows \subseteq Keys
    BY <1>2 DEF Stamp, historyVars, eventVars, RemindersTypeOK, Keys
  <2>3. ASSUME NEW k \in rows' \cap looked', sentAt'[k] = Never
        PROVE  k \in passed' \/ \E q \in Runs : Holds(q, k)'
    <3>1. k # h
      BY <2>1, <2>3 DEF Never
    <3>2. sentAt[k] = Never
      BY <2>1, <2>2, <2>3, <3>1
    <3>3. QED
      BY <2>1, <2>2, <2>3, <3>1, <3>2 DEF SeenInBand
  <2>4. QED
    BY <2>3 DEF SeenInBand
<1>3. ASSUME NEW r \in Runs, Breaks(r)
      PROVE  SeenInBand'
  <2>1. /\ todo' = [todo EXCEPT ![r] = <<>>] /\ passed' = passed \cup ToSet(todo[r])
        /\ looked' = looked /\ rows' = rows /\ sentAt' = sentAt
    BY <1>3 DEF Breaks, ledgerVars, eventVars
  <2>2. \A k : \A q \in Runs : Holds(q, k)' \/ ~Holds(q, k) \/ q = r
    BY <2>1 DEF Holds, RemindersTypeOK
  <2>3. \A k : Holds(r, k) => k \in passed'
    BY <2>1 DEF Holds, ToSet
  <2>4. QED
    BY <2>1, <2>2, <2>3 DEF SeenInBand
<1>4. ASSUME NEW h \in Keys, Snooze(h)
      PROVE  SeenInBand'
  <2>1. /\ \A k \in Keys : sentAt'[k] = Never => sentAt[k] = Never
        /\ todo' = todo /\ looked' = looked /\ rows' = rows /\ passed' = passed /\ rows \subseteq Keys
    BY <1>4, BoundsAssumption DEF Snooze, SnoozeReminder, runVars, eventVars, RemindersTypeOK,
       Never, Time, Keys
  <2>2. QED
    BY <2>1 DEF SeenInBand, Holds
<1>5. CASE /\ UNCHANGED <<todo, passed, sentAt>>
           /\ rows' \cap looked' \subseteq rows \cap looked
  BY <1>5 DEF SeenInBand, Holds
<1>6. ASSUME NEW k \in Keys, InsertRow(k)
      PROVE  UNCHANGED <<todo, passed, sentAt>> /\ rows' \cap looked' \subseteq rows \cap looked
  BY <1>6 DEF InsertRow, Write, Changed, ledgerVars, runVars
<1>7. ASSUME NEW e \in Events, WipeRows(e) \/ Delete(e) \/ \E t \in Starts : Move(e, t)
      PROVE  UNCHANGED <<todo, passed, sentAt>> /\ rows' \cap looked' \subseteq rows \cap looked
  BY <1>7 DEF WipeRows, Delete, Move, Write, Changed, ledgerVars, runVars
<1>8. \/ UNCHANGED <<todo, passed, sentAt, rows, looked>>
      \/ \E r \in Runs : List(r) \/ Stamp(r) \/ Breaks(r)
      \/ \E k \in Keys : Snooze(k) \/ InsertRow(k)
      \/ \E e \in Events : WipeRows(e) \/ Delete(e) \/ \E t \in Starts : Move(e, t)
  BY DEF RemindersNext, remindersVars, Dispatch, Tick, HandOver, Deliver, Undelivered, Dismiss,
     Subscribe,
     eventVars, ledgerVars, runVars, historyVars
<1>9. QED
  BY <1>1, <1>2, <1>3, <1>4, <1>5, <1>6, <1>7, <1>8

LEMMA BudgetedNext ==
    ASSUME RemindersTypeOK, PushesBudgeted, RemindersTypeOK', [RemindersNext]_remindersVars
    PROVE  PushesBudgeted'
<1>1. \/ UNCHANGED <<pc, push, todo, pushed, taken, excused, sentAt, snoozed>>
      \/ \E r \in Runs : List(r) \/ HandOver(r) \/ Stamp(r) \/ Deliver(r) \/ Undelivered(r) \/ Breaks(r)
      \/ \E k \in Keys : Snooze(k)
  BY DEF RemindersNext, remindersVars, Dispatch, Tick, Dismiss, Subscribe,
     InsertRow, WipeRows, Delete, Move, Write, ledgerVars, runVars, historyVars
<1>2. QED
  BY <1>1, ListBudgeted, StampBudgeted, PushBudgeted, BreaksBudgeted, SnoozeBudgeted,
     OthersBudgeted

RemindersInv == RemindersTypeOK /\ PushesBudgeted /\ SnoozesSafe /\ SeenInBand

LEMMA RemindersInvInit == RemindersInit => RemindersInv
<1> SUFFICES ASSUME RemindersInit
             PROVE  RemindersInv
  OBVIOUS
<1>1. RemindersTypeOK
  BY RemindersTypeInit
<1>2. SnoozesSafe /\ SeenInBand
  BY DEF RemindersInit, SnoozesSafe, SeenInBand
<1>3. ASSUME NEW k \in Keys
      PROVE  Budgeted(k)
  <2>1. Pushing(k) = {}
    BY DEF RemindersInit, Pushing
  <2>2. Spent(k) = 0
    BY <2>1, FS_EmptySet DEF Spent, RemindersInit
  <2>3. QED
    BY <2>2 DEF Budgeted, RemindersInit
<1>4. PushesBudgeted
  BY <1>3 DEF PushesBudgeted, RemindersInit
<1>5. QED
  BY <1>1, <1>2, <1>4 DEF RemindersInv

LEMMA RemindersInvNext == RemindersInv /\ [RemindersNext]_remindersVars => RemindersInv'
  BY RemindersTypeNext, BudgetedNext, SnoozesSafeNext, SeenNext DEF RemindersInv

LEMMA BudgetAccounts == RemindersInv => PushesAccounted
<1> SUFFICES ASSUME RemindersInv, NEW k \in Keys
             PROVE  pushed[k] + Cardinality({r \in Runs : k \in push[r]}) <= 1 + taken[k] + excused[k]
  BY DEF PushesAccounted
<1>1. {r \in Runs : k \in push[r]} \subseteq Pushing(k) /\ Pushing(k) \in SUBSET Runs
  BY DEF Pushing
<1>2. PICK n \in Nat, m \in Nat :
        n = Cardinality(Pushing(k)) /\ m = Cardinality({r \in Runs : k \in push[r]}) /\ m <= n
  BY <1>1, CountFewer
<1>3. pushed[k] \in Nat /\ taken[k] \in Nat /\ excused[k] \in Nat
  BY DEF RemindersInv, RemindersTypeOK
<1>4. pushed[k] + n <= 1 + taken[k] + excused[k]
  BY <1>2 DEF RemindersInv, PushesBudgeted, Budgeted, Spent
<1>5. QED
  BY <1>2, <1>3, <1>4

(***************************************************************************)
(* Type correctness of the reminders: rows of events that exist, a ledger  *)
(* of times, and a run that has a list exactly while it is at work.        *)
(***************************************************************************)
THEOREM RemindersTypes == RemindersSpec => []RemindersTypeOK
<1>1. RemindersInit => RemindersTypeOK
  BY RemindersTypeInit
<1>2. RemindersTypeOK /\ [RemindersNext]_remindersVars => RemindersTypeOK'
  BY RemindersTypeNext
<1>3. QED
  BY <1>1, <1>2, PTL DEF RemindersSpec

(***************************************************************************)
(* However many runs overlap, and with pushes before stamps, a reminder    *)
(* reaches the device once, once more per snooze, and beyond that only     *)
(* once per listing beside another run's or per list that broke off.       *)
(***************************************************************************)
THEOREM PushesAreAccounted == RemindersSpec => []PushesAccounted
<1>1. RemindersInit => RemindersInv
  BY RemindersInvInit
<1>2. RemindersInv /\ [RemindersNext]_remindersVars => RemindersInv'
  BY RemindersInvNext
<1>3. RemindersInv => PushesAccounted
  BY BudgetAccounts
<1>4. QED
  BY <1>1, <1>2, <1>3, PTL DEF RemindersSpec

(***************************************************************************)
(* Only a run that had the row to stamp when the button was pressed takes  *)
(* a snooze off the ledger before it was listed.                           *)
(***************************************************************************)
THEOREM SnoozesAreKept == RemindersSpec => []SnoozeKept
<1>1. RemindersInit => RemindersInv
  BY RemindersInvInit
<1>2. RemindersInv /\ [RemindersNext]_remindersVars => RemindersInv'
  BY RemindersInvNext
<1>3. RemindersInv => SnoozeKept
  BY DEF RemindersInv, SnoozesSafe, SnoozeKept
<1>4. QED
  BY <1>1, <1>2, <1>3, PTL DEF RemindersSpec

(***************************************************************************)
(* A reminder that some run saw within the band is stamped, listed, or was *)
(* left over by the LIMIT or by a run that broke off.                      *)
(***************************************************************************)
THEOREM NoneIsOverlooked == RemindersSpec => []SeenInBand
<1>1. RemindersInit => RemindersInv
  BY RemindersInvInit
<1>2. RemindersInv /\ [RemindersNext]_remindersVars => RemindersInv'
  BY RemindersInvNext
<1>3. RemindersInv => SeenInBand
  BY DEF RemindersInv
<1>4. QED
  BY <1>1, <1>2, <1>3, PTL DEF RemindersSpec

-----------------------------------------------------------------------------
(***************************************************************************)
(* Recurring events: weeks and months.                                     *)
(***************************************************************************)
LEMMA Division ==
    ASSUME NEW n \in Nat \ {0}, NEW d \in Nat
    PROVE  /\ d = n * (d \div n) + (d % n)
           /\ d % n \in 0 .. n - 1
           /\ d \div n \in Nat
<1>1. d = n * (d \div n) + (d % n)
  OBVIOUS
<1>2. d % n \in 0 .. n - 1
  OBVIOUS
<1>3. d \div n \in Nat
  OBVIOUS
<1>4. QED
  BY <1>1, <1>2, <1>3

LEMMA Quotient ==
    ASSUME NEW n \in Nat \ {0}, NEW q \in Nat, NEW r \in 0 .. n - 1
    PROVE  (n * q + r) \div n = q /\ (n * q + r) % n = r
OBVIOUS

\* A multiple is as many times the divisor as its quotient says.
LEMMA Multiple ==
    ASSUME NEW n \in Nat \ {0}, NEW d \in Nat
    PROVE  d % n = 0 <=> \E q \in Nat : d = n * q
<1>1. ASSUME d % n = 0
      PROVE  \E q \in Nat : d = n * q
  <2>1. PICK q \in Nat : q = d \div n
    BY Division
  <2>2. d = n * q + (d % n)
    BY <2>1, Division
  <2>3. d = n * q
    BY <1>1, <2>2
  <2>4. QED
    BY <2>3
<1>2. ASSUME NEW q \in Nat, d = n * q
      PROVE  d % n = 0
  <2>1. 0 \in 0 .. n - 1 /\ d = n * q + 0
    BY <1>2
  <2>2. QED
    BY <2>1, Quotient
<1>3. QED
  BY <1>1, <1>2

\* Two days a multiple of n after a first are a multiple of n apart.
LEMMA MultiplesApart ==
    ASSUME NEW n \in Nat \ {0}, NEW a \in Nat, NEW b \in Nat, NEW c \in Nat, a <= b, b <= c,
           (b - a) % n = 0
    PROVE  (c - a) % n = 0 <=> (c - b) % n = 0
<1>1. PICK p \in Nat : b - a = n * p
  <2>1. PICK d \in Nat : d = b - a
    OBVIOUS
  <2>2. \E q \in Nat : d = n * q
    BY <2>1, Multiple
  <2>3. QED
    BY <2>1, <2>2
<1>2. ASSUME NEW q \in Nat, c - b = n * q
      PROVE  c - a = n * (q + p)
  BY <1>1, <1>2
<1>3. ASSUME NEW q \in Nat, c - a = n * q
      PROVE  \E k \in Nat : c - b = n * k
  <2>1. n * p <= n * q
    BY <1>1, <1>3
  <2>2. p <= q
    BY <2>1
  <2>3. c - b = n * (q - p) /\ q - p \in Nat
    BY <1>1, <1>3, <2>2
  <2>4. QED
    BY <2>3
<1>4. c - a \in Nat /\ c - b \in Nat
  OBVIOUS
<1>5. ASSUME NEW q \in Nat
      PROVE  q + p \in Nat
  OBVIOUS
<1>6. (c - a) % n = 0 <=> \E q \in Nat : c - a = n * q
  BY <1>4, Multiple
<1>7. (c - b) % n = 0 <=> \E q \in Nat : c - b = n * q
  BY <1>4, Multiple
<1>8. QED
  BY <1>2, <1>3, <1>5, <1>6, <1>7

LEMMA CalendarTyped ==
    /\ Len(Firsts) \in Nat /\ Len(Firsts) > 1 /\ LastDay \in Nat /\ LastDay + 1 = Firsts[Len(Firsts)]
    /\ \A m \in 1 .. Len(Firsts) : Firsts[m] \in Nat
    /\ \A m \in Months : m \in Nat /\ m >= 1 /\ m + 1 \in 1 .. Len(Firsts) /\ m \in 1 .. Len(Firsts)
    /\ WeekLen \in Nat \ {0} /\ YearMonths \in Nat \ {0} /\ Cap \in Nat \ {0}
<1>1. Len(Firsts) \in Nat /\ Len(Firsts) > 1 /\ \A m \in 1 .. Len(Firsts) : Firsts[m] \in Nat
  BY MonthsAssumption
<1>2. 1 \in 1 .. Len(Firsts) /\ Len(Firsts) \in 1 .. Len(Firsts)
  BY <1>1
<1>3. Firsts[1] = 0 /\ Firsts[1] < Firsts[Len(Firsts)]
  BY <1>1, <1>2, MonthsAssumption
<1>4. Firsts[Len(Firsts)] \in Nat
  BY <1>1, <1>2
<1>5. LastDay \in Nat /\ LastDay + 1 = Firsts[Len(Firsts)]
  BY <1>3, <1>4 DEF LastDay
<1>6. QED
  BY <1>1, <1>5, WeekAssumption, YearAssumption DEF Months

\* A day is in one month, and no other.
LEMMA MonthOfDay ==
    ASSUME NEW d \in Days
    PROVE  /\ Month(d) \in Months
           /\ Firsts[Month(d)] <= d /\ d < Firsts[Month(d) + 1]
           /\ DayOfMonth(d) \in 1 .. MonthLen(Month(d)) /\ DayOfMonth(d) \in Nat \ {0}
           /\ d = Firsts[Month(d)] + DayOfMonth(d) - 1
<1>1. d \in Nat /\ d <= LastDay
  BY CalendarTyped DEF Days
<1> DEFINE S == {m \in 1 .. Len(Firsts) : Firsts[m] <= d}
<1>2. S \subseteq 1 .. Len(Firsts) /\ IsFiniteSet(S) /\ Cardinality(S) \in Nat
  <2>1. IsFiniteSet(1 .. Len(Firsts))
    BY CalendarTyped, FS_Interval
  <2>2. QED
    BY <2>1, FS_Subset, FS_CardinalityType
<1>3. PICK c \in Nat : c = Cardinality(S)
  BY <1>2
<1>4. \A m \in S : \A k \in 1 .. m : k \in S
  <2> SUFFICES ASSUME NEW m \in S, NEW k \in 1 .. m, k # m
               PROVE  k \in S
    OBVIOUS
  <2>1. k \in 1 .. Len(Firsts) /\ m \in 1 .. Len(Firsts) /\ k < m
    BY CalendarTyped
  <2>2. Firsts[k] < Firsts[m] /\ Firsts[k] \in Nat /\ Firsts[m] \in Nat
    BY <2>1, MonthsAssumption
  <2>3. QED
    BY <1>1, <2>1, <2>2
<1>5. 1 \in S
  BY <1>1, CalendarTyped, MonthsAssumption
<1>6. Len(Firsts) \notin S
  BY <1>1, CalendarTyped
<1>7. \A k \in Nat \ {0} : k \in S => k <= c
  <2> SUFFICES ASSUME NEW k \in Nat \ {0}, k \in S
               PROVE  k <= c
    OBVIOUS
  <2>1. 1 .. k \in SUBSET S
    BY <1>4
  <2>2. Cardinality(1 .. k) = k
    BY FS_Interval
  <2>3. Cardinality(1 .. k) <= Cardinality(S)
    BY <1>2, <2>1, FS_Subset
  <2>4. QED
    BY <1>3, <2>2, <2>3
<1>8. c \in S
  <2> SUFFICES ASSUME c \notin S
               PROVE  FALSE
    OBVIOUS
  <2>1. c >= 1
    BY <1>5, <1>7
  <2>2. S \in SUBSET (1 .. c - 1)
    <3> SUFFICES ASSUME NEW m \in S
                 PROVE  m \in 1 .. c - 1
      OBVIOUS
    <3>1. m \in Nat /\ m >= 1
      BY CalendarTyped
    <3>2. m # c /\ m <= c
      BY <1>7, <3>1
    <3>3. QED
      BY <3>1, <3>2
  <2>3. IsFiniteSet(1 .. c - 1) /\ Cardinality(1 .. c - 1) = c - 1
    BY <2>1, FS_Interval
  <2>4. Cardinality(S) <= c - 1
    BY <2>2, <2>3, FS_Subset
  <2>5. QED
    BY <1>3, <2>4
<1>9. c \in Months /\ Firsts[c] <= d
  BY <1>6, <1>8, CalendarTyped DEF Months
<1>10. d < Firsts[c + 1]
  <2>1. c + 1 \in 1 .. Len(Firsts) /\ c + 1 \notin S
    BY <1>3, <1>7, <1>9, CalendarTyped
  <2>2. QED
    BY <1>1, <2>1, CalendarTyped
<1>11. d \in Firsts[c] .. Firsts[c + 1] - 1
  BY <1>1, <1>9, <1>10, CalendarTyped
<1>12. Month(d) \in Months /\ d \in Firsts[Month(d)] .. Firsts[Month(d) + 1] - 1
  BY <1>9, <1>11 DEF Month
<1>13. PICK m \in Months : m = Month(d)
  BY <1>12
<1>14. PICK a \in Nat, b \in Nat : a = Firsts[m] /\ b = Firsts[m + 1]
  BY <1>13, CalendarTyped
<1>15. a <= d /\ d < b
  BY <1>12, <1>13, <1>14
<1>16. DayOfMonth(d) = d - a + 1 /\ MonthLen(m) = b - a
  BY <1>13, <1>14 DEF DayOfMonth, MonthLen
<1>17. QED
  BY <1>1, <1>13, <1>14, <1>15, <1>16

LEMMA MonthUnique ==
    ASSUME NEW d \in Days, NEW m \in Months, Firsts[m] <= d, d < Firsts[m + 1]
    PROVE  Month(d) = m
<1>1. PICK k \in Months : k = Month(d) /\ Firsts[k] <= d /\ d < Firsts[k + 1]
  BY MonthOfDay
<1>2. /\ d \in Nat /\ k \in Nat /\ m \in Nat
      /\ {k, m, k + 1, m + 1} \subseteq 1 .. Len(Firsts)
  BY CalendarTyped DEF Days
<1>3. {Firsts[k], Firsts[m], Firsts[k + 1], Firsts[m + 1]} \subseteq Nat
  BY <1>2, CalendarTyped
<1>4. ASSUME k < m
      PROVE  FALSE
  <2>1. k + 1 = m \/ Firsts[k + 1] < Firsts[m]
    BY <1>2, <1>4, MonthsAssumption
  <2>2. QED
    BY <1>1, <1>2, <1>3, <2>1
<1>5. ASSUME m < k
      PROVE  FALSE
  <2>1. m + 1 = k \/ Firsts[m + 1] < Firsts[k]
    BY <1>2, <1>5, MonthsAssumption
  <2>2. QED
    BY <1>1, <1>2, <1>3, <2>1
<1>6. QED
  BY <1>1, <1>2, <1>4, <1>5

LEMMA MonthsInOrder ==
    ASSUME NEW a \in Days, NEW b \in Days, a <= b
    PROVE  Month(a) <= Month(b)
<1>1. PICK k \in Months, m \in Months :
         /\ k = Month(a) /\ m = Month(b)
         /\ Firsts[k] <= a /\ a < Firsts[k + 1] /\ Firsts[m] <= b /\ b < Firsts[m + 1]
  BY MonthOfDay
<1>2. /\ a \in Nat /\ b \in Nat /\ k \in Nat /\ m \in Nat
      /\ {k, m, k + 1, m + 1} \subseteq 1 .. Len(Firsts)
  BY CalendarTyped DEF Days
<1>3. {Firsts[k], Firsts[m], Firsts[k + 1], Firsts[m + 1]} \subseteq Nat
  BY <1>2, CalendarTyped
<1>4. ASSUME m < k
      PROVE  FALSE
  <2>1. m + 1 = k \/ Firsts[m + 1] < Firsts[k]
    BY <1>2, <1>4, MonthsAssumption
  <2>2. QED
    BY <1>1, <1>2, <1>3, <2>1
<1>5. QED
  BY <1>1, <1>2, <1>4

-----------------------------------------------------------------------------
(* What the expander lays out is what RFC 5545 says, of a rule in tune.    *)

Fitting(r, seed) == {d \in Days : d >= seed /\ Fits(r, seed, d)}

LEMMA WeekOfDay ==
    ASSUME NEW d \in Nat
    PROVE  /\ Week(d) \in Nat /\ DayOfWeek(d) \in 0 .. WeekLen - 1
           /\ d = WeekLen * Week(d) + DayOfWeek(d)
<1>1. /\ d = WeekLen * (d \div WeekLen) + (d % WeekLen)
      /\ d % WeekLen \in 0 .. WeekLen - 1 /\ d \div WeekLen \in Nat
  BY WeekAssumption, Division
<1>2. QED
  BY <1>1 DEF Week, DayOfWeek

\* A week that begins on Monday is a week that begins on Sunday but for its Sundays.
LEMMA MondayWeekOfDay ==
    ASSUME NEW d \in Nat
    PROVE  /\ MondayWeek(d) = IF DayOfWeek(d) = 0 THEN Week(d) ELSE Week(d) + 1
           /\ MondayWeek(d) = Week(d + WeekLen - 1) /\ d + WeekLen - 1 \in Nat
<1>1. PICK n \in Nat \ {0}, q \in Nat, w \in Nat :
         /\ n = WeekLen /\ q = Week(d) /\ w = DayOfWeek(d) /\ d = n * q + w
         /\ w \in 0 .. n - 1
  <2>1. Week(d) \in Nat /\ DayOfWeek(d) \in 0 .. WeekLen - 1 /\ d = WeekLen * Week(d) + DayOfWeek(d)
    BY WeekOfDay
  <2>2. WeekLen \in Nat \ {0} /\ DayOfWeek(d) \in Nat
    BY <2>1, WeekAssumption
  <2>3. QED
    BY <2>1, <2>2
<1>2. MondayWeek(d) = (d + n - 1) \div n /\ d + n - 1 \in Nat
  BY <1>1 DEF MondayWeek
<1>3. CASE w = 0
  <2>1. n - 1 \in 0 .. n - 1 /\ d + n - 1 = n * q + (n - 1)
    BY <1>1, <1>3
  <2>2. (n * q + (n - 1)) \div n = q
    BY <1>1, <2>1, Quotient
  <2>3. QED
    BY <1>1, <1>2, <1>3, <2>1, <2>2 DEF Week
<1>4. CASE w # 0
  <2>1. w - 1 \in 0 .. n - 1 /\ q + 1 \in Nat
    BY <1>1, <1>4
  <2>2. d + n - 1 = n * (q + 1) + (w - 1)
    <3>1. n * (q + 1) = n * q + n
      OBVIOUS
    <3>2. QED
      BY <1>1, <3>1
  <2>3. (n * (q + 1) + (w - 1)) \div n = q + 1
    BY <1>1, <2>1, Quotient
  <2>4. QED
    BY <1>1, <1>2, <1>4, <2>2, <2>3 DEF Week
<1>5. QED
  BY <1>3, <1>4

NamedDay(sunday, i, interval, w) == sunday + i * interval * WeekLen + w

LEMMA WeeksAsMeant ==
    ASSUME NEW r \in RRules, NEW seed \in Days, r.freq = "WEEKLY", Tuned(r, seed)
    PROVE  Candidates(r, seed) = Fitting(r, seed)
<1>1. /\ WeekLen \in Nat \ {0} /\ seed \in Nat /\ LastDay \in Nat
      /\ \A d \in Days : d \in Nat /\ d <= LastDay
  BY CalendarTyped DEF Days
<1>2. PICK n \in Nat \ {0}, iv \in Nat \ {0} : n = WeekLen /\ iv = r.interval
  BY <1>1 DEF RRules
<1>3. PICK targets \in SUBSET (0 .. n - 1) : targets = IF r.byday = {} THEN {DayOfWeek(seed)} ELSE r.byday
  <2>1. DayOfWeek(seed) \in 0 .. n - 1
    BY <1>1, <1>2, Division DEF DayOfWeek
  <2>2. r.byday \subseteq 0 .. n - 1
    BY <1>2 DEF RRules
  <2>3. QED
    BY <2>1, <2>2
<1>4. PICK k \in Nat, s \in 0 .. n - 1 : k = Week(seed) /\ s = DayOfWeek(seed) /\ seed = n * k + s
  BY <1>1, <1>2, WeekOfDay
<1>5. PICK last \in Nat : last = Week(LastDay)
  BY <1>1, <1>2, Division DEF Week
<1>6. \A d : d \in Candidates(r, seed) <=>
        /\ d \in Days /\ d >= seed
        /\ \E i \in 0 .. last, w \in targets : d = NamedDay(n * k, i, iv, w)
  <2>1. seed - s = n * k
    BY <1>4
  <2>2. Candidates(r, seed) = WeeklyTimes(r, seed)
    BY DEF Candidates
  <2>3. Candidates(r, seed) =
          {d \in {NamedDay(seed - s, i, iv, w) : i \in 0 .. last, w \in targets} : d \in Days /\ d >= seed}
    BY <1>2, <1>3, <1>4, <1>5, <2>2 DEF WeeklyTimes, NamedDay
  <2>4. QED
    BY <2>1, <2>3
<1>7. \A d \in Days : Fits(r, seed, d) <=> (Week(d) - k) % iv = 0 /\ DayOfWeek(d) \in targets
  <2> TAKE d \in Days
  <2>1. /\ Week(d) \in Nat /\ Week(seed) = k /\ DayOfWeek(seed) = s
        /\ MondayWeek(d) = IF DayOfWeek(d) = 0 THEN Week(d) ELSE Week(d) + 1
        /\ MondayWeek(seed) = IF s = 0 THEN k ELSE k + 1
    BY <1>1, <1>4, WeekOfDay, MondayWeekOfDay
  <2>2. PICK x \in Int, y \in Int : x = MondayWeek(d) - MondayWeek(seed) /\ y = Week(d) - k
    BY <2>1
  <2>3. Fits(r, seed, d) <=> x % iv = 0 /\ DayOfWeek(d) \in targets
    BY <1>2, <1>3, <2>2 DEF Fits
  <2>4. CASE iv = 1
    <3>1. x % 1 = 0 /\ y % 1 = 0
      OBVIOUS
    <3>2. QED
      BY <2>2, <2>3, <2>4, <3>1
  <2>5. CASE iv # 1 /\ DayOfWeek(d) \in targets
    <3>1. PICK named : named = r.byday \cup {s}
      OBVIOUS
    <3>2. 0 \in named => named = {0}
      BY <1>2, <2>1, <2>5, <3>1 DEF Tuned
    <3>3. s \in named /\ DayOfWeek(d) \in named
      BY <1>3, <2>1, <2>5, <3>1
    <3>4. DayOfWeek(d) = 0 <=> s = 0
      BY <3>2, <3>3
    <3>5. x = y
      <4>1. CASE s = 0
        BY <2>1, <2>2, <3>4, <4>1
      <4>2. CASE s # 0
        <5>1. MondayWeek(d) = Week(d) + 1 /\ MondayWeek(seed) = k + 1
          BY <2>1, <3>4, <4>2
        <5>2. PICK p \in Nat : p = Week(d)
          BY <2>1
        <5>3. x = (p + 1) - (k + 1) /\ y = p - k
          BY <2>2, <5>1, <5>2
        <5>4. k \in Nat
          OBVIOUS
        <5>5. QED
          BY <5>2, <5>3, <5>4
      <4>3. QED
        BY <4>1, <4>2
    <3>6. QED
      BY <2>2, <2>3, <3>5
  <2>6. QED
    BY <2>3, <2>4, <2>5
<1>8. ASSUME NEW i \in 0 .. last, NEW w \in targets, NamedDay(n * k, i, iv, w) \in Days
      PROVE  Fits(r, seed, NamedDay(n * k, i, iv, w))
  <2>1. PICK d \in Days : d = NamedDay(n * k, i, iv, w) /\ d = n * k + i * iv * n + w
    BY <1>2, <1>8 DEF NamedDay
  <2>2. i \in Nat /\ i * iv \in Nat /\ k + i * iv \in Nat
    BY <1>4, <1>5
  <2>3. d = n * (k + i * iv) + w
    BY <2>1, <2>2
  <2>4. Week(d) = k + i * iv /\ DayOfWeek(d) = w
    BY <1>2, <1>3, <2>2, <2>3, Quotient DEF Week, DayOfWeek
  <2>5. Week(d) - k = iv * i
    BY <2>2, <2>4
  <2>6. PICK q \in Nat : q = iv * i
    BY <2>2
  <2>7. q % iv = 0
    BY <2>2, <2>6, Multiple
  <2>8. QED
    BY <1>7, <2>1, <2>4, <2>5, <2>6, <2>7
<1>9. ASSUME NEW d \in Days, d >= seed, Fits(r, seed, d)
      PROVE  \E i \in 0 .. last, w \in targets : d = NamedDay(n * k, i, iv, w)
  <2>1. PICK q \in Nat, w \in 0 .. n - 1 : q = Week(d) /\ w = DayOfWeek(d) /\ d = n * q + w
    BY <1>1, <1>2, WeekOfDay
  <2>2. w \in targets /\ (q - k) % iv = 0
    BY <1>7, <1>9, <2>1
  <2>3. k <= q
    <3>1. ASSUME q + 1 <= k
          PROVE  FALSE
      <4>1. n * (q + 1) <= n * k
        BY <3>1
      <4>2. QED
        BY <1>4, <1>9, <2>1, <4>1
    <3>2. QED
      BY <3>1
  <2>4. q <= last
    <3>1. PICK x \in 0 .. n - 1 : LastDay = n * last + x
      BY <1>1, <1>2, <1>5, Division DEF Week
    <3>2. ASSUME last + 1 <= q
          PROVE  FALSE
      <4>1. n * (last + 1) <= n * q
        BY <3>2
      <4>2. d <= LastDay
        BY <1>1
      <4>3. QED
        BY <2>1, <3>1, <4>1, <4>2
    <3>3. QED
      BY <3>2
  <2>5. PICK i \in Nat : q - k = iv * i
    <3>1. PICK z \in Nat : z = q - k
      BY <2>3
    <3>2. QED
      BY <2>2, <3>1, Multiple
  <2>6. i <= iv * i
    OBVIOUS
  <2>7. i \in 0 .. last
    BY <2>4, <2>5, <2>6
  <2>8. d = n * k + i * iv * n + w
    <3>1. q = k + iv * i
      BY <2>3, <2>5
    <3>2. n * (k + iv * i) = n * k + i * iv * n
      OBVIOUS
    <3>3. QED
      BY <2>1, <3>1, <3>2
  <2>9. d = NamedDay(n * k, i, iv, w)
    BY <1>2, <2>8 DEF NamedDay
  <2>10. QED
    BY <2>2, <2>7, <2>9
<1>10. \A d : d \in Candidates(r, seed) <=> d \in Fitting(r, seed)
  <2>1. ASSUME NEW d \in Candidates(r, seed)
        PROVE  d \in Fitting(r, seed)
    BY <1>6, <1>8 DEF Fitting
  <2>2. ASSUME NEW d \in Fitting(r, seed)
        PROVE  d \in Candidates(r, seed)
    BY <1>6, <1>9 DEF Fitting
  <2>3. QED
    BY <2>1, <2>2
<1>11. QED
  BY <1>10

\* A month's day counts from the first of the month; one that lies before the
\* seed's in the seed's own month is not in tune.
LEMMA MonthsAsMeant ==
    ASSUME NEW seed \in Days, NEW step \in Nat \ {0}, NEW day \in Nat \ {0}, day >= DayOfMonth(seed)
    PROVE  MonthlyTimes(seed, step, day) =
              {d \in Days : /\ d >= seed
                            /\ (Month(d) - Month(seed)) % step = 0 /\ DayOfMonth(d) = day}
<1>1. PICK k \in Months, s \in Nat \ {0} :
         k = Month(seed) /\ s = DayOfMonth(seed) /\ seed = Firsts[k] + s - 1 /\ day >= s
  BY MonthOfDay
<1>2. ASSUME NEW m \in Months, m >= k, (m - k) % step = 0, day <= MonthLen(m)
      PROVE  /\ Firsts[m] + day - 1 \in Days /\ Firsts[m] + day - 1 >= seed
             /\ Month(Firsts[m] + day - 1) = m /\ DayOfMonth(Firsts[m] + day - 1) = day
  <2>1. m \in Nat /\ k \in Nat /\ {m, k, m + 1, Len(Firsts)} \subseteq 1 .. Len(Firsts)
    BY CalendarTyped
  <2>2. PICK a \in Nat, b \in Nat, c \in Nat, z \in Nat :
           a = Firsts[m] /\ b = Firsts[m + 1] /\ c = Firsts[k] /\ z = Firsts[Len(Firsts)]
    BY <2>1, CalendarTyped
  <2>3. day <= b - a
    BY <1>2, <2>2 DEF MonthLen
  <2>4. PICK d \in Nat : d = a + day - 1
    BY <2>2
  <2>5. a <= d /\ d < b
    BY <2>3, <2>4
  <2>6. b <= z
    BY <2>1, <2>2, MonthsAssumption
  <2>7. d \in Days
    BY <2>2, <2>5, <2>6, CalendarTyped DEF Days
  <2>8. Month(d) = m
    BY <2>2, <2>5, <2>7, MonthUnique
  <2>9. DayOfMonth(d) = day
    BY <2>2, <2>4, <2>8 DEF DayOfMonth
  <2>10. c <= a
    BY <1>2, <2>1, <2>2, MonthsAssumption
  <2>11. d >= seed
    <3>1. seed = c + s - 1 /\ s <= day
      BY <1>1, <2>2
    <3>2. QED
      BY <2>4, <2>10, <3>1
  <2>12. QED
    BY <2>2, <2>4, <2>7, <2>8, <2>9, <2>11
<1>3. ASSUME NEW d \in Days, d >= seed, (Month(d) - k) % step = 0, DayOfMonth(d) = day
      PROVE  \E m \in Months : /\ m >= k /\ (m - k) % step = 0 /\ day <= MonthLen(m)
                               /\ d = Firsts[m] + day - 1
  <2>1. PICK m \in Months : m = Month(d) /\ day <= MonthLen(m) /\ d = Firsts[m] + day - 1
    BY <1>3, MonthOfDay
  <2>2. k <= m
    BY <1>1, <1>3, <2>1, MonthsInOrder DEF Days
  <2>3. k \in Nat /\ m \in Nat
    BY CalendarTyped
  <2>4. QED
    BY <1>3, <2>1, <2>2, <2>3
<1> DEFINE T == {m \in Months : m >= k /\ (m - k) % step = 0 /\ day <= MonthLen(m)}
<1>4. MonthlyTimes(seed, step, day) = {Firsts[m] + day - 1 : m \in T}
  BY <1>1 DEF MonthlyTimes
<1>5. ASSUME NEW d \in {Firsts[m] + day - 1 : m \in T}
      PROVE  d \in Days /\ d >= seed /\ (Month(d) - k) % step = 0 /\ DayOfMonth(d) = day
  BY <1>2
<1>6. ASSUME NEW d \in Days, d >= seed, (Month(d) - k) % step = 0, DayOfMonth(d) = day
      PROVE  d \in {Firsts[m] + day - 1 : m \in T}
  BY <1>3, <1>6
<1>7. QED
  BY <1>1, <1>4, <1>5, <1>6


LEMMA ExpandsAsMeant ==
    ASSUME NEW r \in RRules, NEW seed \in Days, Tuned(r, seed)
    PROVE  Candidates(r, seed) = Fitting(r, seed)
<1>1. r.interval \in Nat \ {0} /\ r.monthday \in Nat /\ r.freq \in {"DAILY", "WEEKLY", "MONTHLY", "YEARLY"}
  BY DEF RRules
<1>2. DayOfMonth(seed) \in Nat \ {0}
  BY MonthOfDay
<1>3. CASE r.freq = "DAILY"
  <2>1. Candidates(r, seed) = {d \in Days : d >= seed /\ (d - seed) % r.interval = 0}
    BY <1>3 DEF Candidates
  <2>2. \A d \in Days : Fits(r, seed, d) <=> (d - seed) % r.interval = 0
    BY <1>3 DEF Fits
  <2>3. QED
    BY <2>1, <2>2 DEF Fitting
<1>4. CASE r.freq = "WEEKLY"
  BY <1>4, WeeksAsMeant
<1>5. CASE r.freq = "MONTHLY"
  <2>1. PICK day \in Nat \ {0} : /\ day = IF r.monthday # 0 THEN r.monthday ELSE DayOfMonth(seed)
                                 /\ day >= DayOfMonth(seed)
    BY <1>1, <1>2, <1>5 DEF Tuned
  <2>2. Candidates(r, seed) = MonthlyTimes(seed, r.interval, day)
    BY <1>5, <2>1 DEF Candidates
  <2>3. \A d \in Days : Fits(r, seed, d) <=>
          (Month(d) - Month(seed)) % r.interval = 0 /\ DayOfMonth(d) = day
    BY <1>5, <2>1 DEF Fits
  <2>4. QED
    BY <1>1, <2>1, <2>2, <2>3, MonthsAsMeant DEF Fitting
<1>6. CASE r.freq = "YEARLY"
  <2>1. PICK step \in Nat \ {0} : step = r.interval * YearMonths
    BY <1>1, YearAssumption
  <2>2. Candidates(r, seed) = MonthlyTimes(seed, step, DayOfMonth(seed))
    BY <1>6, <2>1 DEF Candidates
  <2>3. \A d \in Days : Fits(r, seed, d) <=>
          (Month(d) - Month(seed)) % step = 0 /\ DayOfMonth(d) = DayOfMonth(seed)
    BY <1>6, <2>1 DEF Fits
  <2>4. DayOfMonth(seed) >= DayOfMonth(seed)
    BY <1>2
  <2>5. QED
    BY <1>2, <2>2, <2>3, <2>4, MonthsAsMeant DEF Fitting
<1>7. QED
  BY <1>1, <1>3, <1>4, <1>5, <1>6

\* Whatever the rule, an instance is a day of the calendar.
LEMMA CandidatesAreDays ==
    ASSUME NEW r \in RRules, NEW seed \in Days
    PROVE  Candidates(r, seed) \subseteq Days
<1>1. CASE Tuned(r, seed)
  BY <1>1, ExpandsAsMeant DEF Fitting
<1>2. CASE r.freq = "WEEKLY"
  BY <1>2 DEF Candidates, WeeklyTimes
<1>3. CASE ~Tuned(r, seed) /\ r.freq # "WEEKLY"
  <2>1. r.freq = "MONTHLY" /\ r.monthday \in Nat \ {0} /\ r.interval \in Nat \ {0}
    BY <1>3 DEF Tuned, RRules
  <2>2. Candidates(r, seed) = MonthlyTimes(seed, r.interval, r.monthday)
    BY <2>1 DEF Candidates
  <2>3. SUFFICES ASSUME NEW m \in Months, r.monthday <= MonthLen(m)
                 PROVE  Firsts[m] + r.monthday - 1 \in Days
    BY <2>2 DEF MonthlyTimes
  <2>4. m \in Nat /\ {m, m + 1, Len(Firsts)} \subseteq 1 .. Len(Firsts)
    BY CalendarTyped
  <2>5. PICK a \in Nat, b \in Nat, z \in Nat : a = Firsts[m] /\ b = Firsts[m + 1] /\ z = Firsts[Len(Firsts)]
    BY <2>4, CalendarTyped
  <2>6. b <= z
    BY <2>4, <2>5, CalendarTyped, MonthsAssumption
  <2>7. r.monthday <= b - a
    BY <2>3, <2>5 DEF MonthLen
  <2>8. a + r.monthday - 1 \in 0 .. LastDay
    BY <2>1, <2>5, <2>6, <2>7, CalendarTyped
  <2>9. QED
    BY <2>5, <2>8 DEF Days
<1>4. QED
  BY <1>1, <1>2, <1>3

\* Days before a day of S are as many before a later one, or more.
LEMMA RanksInOrder ==
    ASSUME NEW S \in SUBSET Days, NEW a \in Days, NEW b \in Days, a <= b
    PROVE  Rank(a, S) \in Nat /\ Rank(a, S) <= Rank(b, S)
<1>1. IsFiniteSet(Days)
  BY CalendarTyped, FS_Interval DEF Days
<1>2. {c \in S : c < b} \in SUBSET Days
  OBVIOUS
<1>3. IsFiniteSet({c \in S : c < b})
  BY <1>1, <1>2, FS_Subset
<1>4. {c \in S : c < a} \in SUBSET {c \in S : c < b}
  <2>1. \A d \in Days : d \in Nat
    BY CalendarTyped DEF Days
  <2>2. QED
    BY <2>1
<1>5. /\ IsFiniteSet({c \in S : c < a})
      /\ Cardinality({c \in S : c < a}) <= Cardinality({c \in S : c < b})
  BY <1>3, <1>4, FS_Subset
<1>6. QED
  BY <1>5, FS_CardinalityType DEF Rank

\* COUNT, UNTIL and the cap cut a recurrence set at a day, so that they can be
\* applied one after the other.
LEMMA CappedAsMeant ==
    ASSUME NEW r \in RRules, NEW seed \in Days, NEW d \in Days
    PROVE  d \in FirstCap(Occurrences(r, seed)) <=>
              /\ d \in Fitting(r, seed)
              /\ r.until # NoDay => d <= r.until
              /\ r.count # 0 => Rank(d, Fitting(r, seed)) < r.count
              /\ Rank(d, Fitting(r, seed)) < Cap
<1>1. PICK F \in SUBSET Days : F = Fitting(r, seed)
  BY DEF Fitting
<1>2. PICK C \in SUBSET Days :
        C = {c \in F : /\ r.until # NoDay => c <= r.until
                       /\ r.count # 0 => Rank(c, F) < r.count}
  OBVIOUS
<1>3. C = Occurrences(r, seed)
  BY <1>1, <1>2 DEF Occurrences, Fitting
<1>4. r.count \in Nat /\ (r.until = NoDay \/ r.until \in Int) /\ \A c \in Days : c \in Nat
  BY CalendarTyped DEF RRules, Days
<1>5. ASSUME d \in C
      PROVE  Rank(d, C) = Rank(d, F)
  <2>1. ASSUME NEW c \in F, c < d
        PROVE  c \in C
    <3>1. c \in Nat /\ d \in Nat /\ c \in Days
      BY <1>4
    <3>2. r.until # NoDay => c <= r.until
      BY <1>2, <1>4, <1>5, <2>1, <3>1
    <3>3. Rank(c, F) \in Nat /\ Rank(d, F) \in Nat /\ Rank(c, F) <= Rank(d, F)
      BY <2>1, <3>1, RanksInOrder
    <3>4. r.count # 0 => Rank(c, F) < r.count
      BY <1>2, <1>4, <1>5, <3>3
    <3>5. QED
      BY <1>2, <2>1, <3>2, <3>4
  <2>2. {c \in C : c < d} = {c \in F : c < d}
    BY <1>2, <2>1
  <2>3. QED
    BY <2>2 DEF Rank
<1>6. d \in FirstCap(C) <=> d \in C /\ Rank(d, F) < Cap
  BY <1>5 DEF FirstCap
<1>7. QED
  BY <1>1, <1>2, <1>3, <1>6


-----------------------------------------------------------------------------
(* Types of the series.  An override ends after it starts, an event that   *)
(* is not there has none, and what a form or a split holds could be a row. *)

Moved == {p \in Days \X Days : p[1] < p[2]}
RuleOrNone == RRules \cup {NoRule}
HeldChoices == [preset : Presets, rule : RuleOrNone]
FormTabs == [pc : {"form"}, id : Ids \cup {NoId}, at : {p \in Days \X Nat : p[1] <= p[2]},
             choice : HeldChoices, chips : SUBSET Chips, loaded : BOOLEAN]
SaveTabs == [pc : {"rule", "chips"}, id : Ids, rule : RuleOrNone, chips : SUBSET Chips,
             off : SUBSET Chips, puts : BOOLEAN]
SplitTabs == [pc : {"split"}, id : Ids, day : Days, at : Days, start : Days, rule : RRules,
              dur : Nat \ {0}, chips : SUBSET Chips]

SeriesRows ==
    /\ events \subseteq Ids
    /\ start \in [Ids -> Days] /\ dur \in [Ids -> Nat] /\ \A e \in events : dur[e] > 0
    /\ rule \in [Ids -> RuleOrNone]
    /\ over \in [Ids -> [Days -> {AsIs, Cancelled} \cup Moved]]
    /\ \A e \in Ids \ events : \A d \in Days : over[e][d] = AsIs
    /\ chips \in [Ids -> SUBSET Chips]

SeriesInv ==
    /\ SeriesRows
    /\ tab \in [Tabs -> {NoForm} \cup FormTabs \cup SaveTabs \cup SplitTabs]

LEMMA BareTyped ==
    ASSUME NEW freq \in {"DAILY", "WEEKLY", "MONTHLY", "YEARLY"}
    PROVE  /\ Bare(freq) \in RRules
           /\ \A b \in SUBSET (0 .. WeekLen - 1) : [Bare(freq) EXCEPT !.byday = b] \in RRules
           /\ \A m \in Nat : [Bare(freq) EXCEPT !.monthday = m] \in RRules
<1>1. 1 \in Nat \ {0} /\ NoDay \in Days \cup {-1, NoDay} /\ {} \in SUBSET (0 .. WeekLen - 1)
  OBVIOUS
<1>2. Bare(freq) \in RRules
  BY <1>1 DEF Bare, RRules
<1>3. ASSUME NEW b \in SUBSET (0 .. WeekLen - 1)
      PROVE  [Bare(freq) EXCEPT !.byday = b] \in RRules
  BY <1>2 DEF RRules
<1>4. ASSUME NEW m \in Nat
      PROVE  [Bare(freq) EXCEPT !.monthday = m] \in RRules
  BY <1>2 DEF RRules
<1>5. QED
  BY <1>2, <1>3, <1>4

LEMMA PresetTyped ==
    ASSUME NEW p \in Presets \ {"CUSTOM"}, NEW s \in Days
    PROVE  Preset(p, s) \in RuleOrNone
<1>1. CASE p = "NONE"
  BY <1>1 DEF Preset, RuleOrNone
<1>2. CASE p = "WEEKLY"
  <2>1. s \in Nat
    BY CalendarTyped DEF Days
  <2>2. {DayOfWeek(s)} \in SUBSET (0 .. WeekLen - 1)
    BY <2>1, WeekOfDay
  <2>3. Preset(p, s) = [Bare("WEEKLY") EXCEPT !.byday = {DayOfWeek(s)}]
    BY <1>2 DEF Preset
  <2>4. QED
    BY <2>2, <2>3, BareTyped DEF RuleOrNone
<1>3. CASE p = "MONTHLY_DAY"
  <2>1. DayOfMonth(s) \in Nat
    BY MonthOfDay
  <2>2. Preset(p, s) = [Bare("MONTHLY") EXCEPT !.monthday = DayOfMonth(s)]
    BY <1>3 DEF Preset
  <2>3. QED
    BY <2>1, <2>2, BareTyped DEF RuleOrNone
<1>4. CASE p \in {"DAILY", "YEARLY"}
  <2>1. Preset(p, s) = Bare(p)
    BY <1>4 DEF Preset
  <2>2. QED
    BY <1>4, <2>1, BareTyped DEF RuleOrNone
<1>5. QED
  BY <1>1, <1>2, <1>3, <1>4 DEF Presets

LEMMA InferredTyped ==
    ASSUME NEW r \in RuleOrNone
    PROVE  Inferred(r) \in HeldChoices
<1> DEFINE fits == {p \in Presets \ {"CUSTOM"} : \E d \in Days : Preset(p, d) = r}
<1>1. CASE fits = {}
  <2>1. Inferred(r) = [preset |-> "CUSTOM", rule |-> r]
    BY <1>1 DEF Inferred, Custom
  <2>2. QED
    BY <2>1 DEF HeldChoices, Presets
<1>2. CASE fits # {}
  <2>1. PICK p \in Presets : p = CHOOSE q \in fits : TRUE
    BY <1>2
  <2>2. Inferred(r) = [preset |-> p, rule |-> NoRule]
    BY <1>2, <2>1 DEF Inferred
  <2>3. QED
    BY <2>1, <2>2 DEF HeldChoices, RuleOrNone
<1>3. QED
  BY <1>1, <1>2

LEMMA BuildTyped ==
    ASSUME NEW choice \in HeldChoices, NEW s \in Days
    PROVE  BuildRRule(choice, s) \in RuleOrNone
<1>1. choice.preset \in Presets /\ choice.rule \in RuleOrNone
  BY DEF HeldChoices
<1>2. CASE choice.preset # "CUSTOM"
  BY <1>1, <1>2, PresetTyped DEF BuildRRule
<1>3. CASE choice.preset = "CUSTOM" /\ choice.rule.freq = "MONTHLY" /\ choice.rule.monthday = 0
  <2>1. PICK r \in RRules : r = choice.rule
    BY <1>1, <1>3 DEF RuleOrNone, NoRule, Bare
  <2>2. DayOfMonth(s) \in Nat
    BY MonthOfDay
  <2>3. [r EXCEPT !.monthday = DayOfMonth(s)] \in RRules
    BY <2>2 DEF RRules
  <2>4. QED
    BY <1>3, <2>1, <2>3 DEF BuildRRule, RuleOrNone
<1>4. CASE choice.preset = "CUSTOM" /\ ~(choice.rule.freq = "MONTHLY" /\ choice.rule.monthday = 0)
  BY <1>1, <1>4 DEF BuildRRule
<1>5. QED
  BY <1>2, <1>3, <1>4

LEMMA ShownTyped ==
    ASSUME SeriesRows, NEW e \in events, NEW i \in Shown(e)
    PROVE  i[1] \in Days /\ i[2] \in Nat /\ i[1] < i[2] /\ i = <<i[1], i[2]>>
<1>1. /\ e \in Ids /\ start[e] \in Days /\ dur[e] \in Nat \ {0} /\ rule[e] \in RuleOrNone
      /\ \A d \in Days : d \in Nat
  BY CalendarTyped DEF SeriesRows, Days
<1>2. CASE rule[e] = NoRule
  <2>1. i = <<start[e], start[e] + dur[e]>>
    BY <1>2 DEF Shown, Instances
  <2>2. QED
    BY <1>1, <2>1
<1>3. CASE rule[e] # NoRule
  <2>1. PICK d \in Seeds(e, 0, Firsts[Len(Firsts)]) : over[e][d] # Cancelled /\ i = Resolved(e, d)
    BY <1>3 DEF Shown, Instances
  <2>2. rule[e] \in RRules
    BY <1>1, <1>3 DEF RuleOrNone
  <2>3. d \in Candidates(rule[e], start[e])
    BY <2>1 DEF Seeds, ExpandRRule
  <2>4. d \in Days
    BY <1>1, <2>2, <2>3, CandidatesAreDays
  <2>5. over[e][d] \in {AsIs, Cancelled} \cup Moved
    BY <1>1, <2>4 DEF SeriesRows
  <2>6. CASE over[e][d] = AsIs
    <3>1. i = <<d, d + dur[e]>>
      BY <2>1, <2>6 DEF Resolved
    <3>2. QED
      BY <1>1, <2>4, <3>1
  <2>7. CASE over[e][d] # AsIs
    <3>1. i = over[e][d] /\ i \in Moved
      BY <2>1, <2>5, <2>7 DEF Resolved
    <3>2. QED
      BY <1>1, <3>1 DEF Moved
  <2>8. QED
    BY <2>6, <2>7
<1>4. QED
  BY <1>2, <1>3

LEMMA TypedTyped ==
    ASSUME SeriesInv, NEW t \in Tabs, NEW x \in Typed(t)
    PROVE  /\ tab[t] \in FormTabs
           /\ x.s \in Days /\ x.d \in Nat \ {0} /\ x.choice \in HeldChoices /\ x.chips \in SUBSET Chips
<1>1. tab[t].pc = "form"
  BY DEF Typed
<1>2. PICK q \in FormTabs : q = tab[t]
  BY <1>1 DEF SeriesInv, NoForm, SaveTabs, SplitTabs
<1>3. x \in [s : StartDays \cup {q.at[1]}, d : Durations \cup ({q.at[2] - q.at[1]} \ {0}),
             choice : FormChoices \cup {q.choice}, chips : SUBSET Chips]
  BY <1>1, <1>2 DEF Typed
<1>4. q.at[1] \in Days /\ q.at[2] \in Nat /\ q.at[1] <= q.at[2] /\ q.choice \in HeldChoices
  BY DEF FormTabs
<1>5. \A d \in Days : d \in Nat
  BY CalendarTyped DEF Days
<1>6. FormChoices \subseteq HeldChoices
  BY InputsAssumption DEF FormChoices, HeldChoices, RuleOrNone, Custom, Presets
<1>7. x.s \in Days /\ x.d \in Nat \ {0}
  <2>1. x.s \in StartDays \cup {q.at[1]} /\ x.d \in Durations \cup ({q.at[2] - q.at[1]} \ {0})
    BY <1>3
  <2>2. x.s \in Days
    BY <1>4, <2>1, InputsAssumption
  <2>3. q.at[2] - q.at[1] \in Nat
    BY <1>4, <1>5
  <2>4. QED
    BY <2>1, <2>2, <2>3, InputsAssumption
<1>8. QED
  BY <1>2, <1>3, <1>4, <1>6, <1>7


HeldTabs == {NoForm} \cup FormTabs \cup SaveTabs \cup SplitTabs

LEMMA GoesTyped ==
    ASSUME SeriesInv, NEW t \in Tabs, NEW v \in HeldTabs, Goes(t, v)
    PROVE  tab' \in [Tabs -> HeldTabs]
BY DEF SeriesInv, HeldTabs, Goes

LEMMA FormSteps ==
    ASSUME SeriesInv, NEW t \in Tabs,
           OpenNew(t) \/ (\E e \in Ids : Open(t, e)) \/ Load(t) \/ Close(t)
    PROVE  SeriesInv'
<1>1. SeriesRows /\ UNCHANGED rowVars
  BY DEF SeriesInv, OpenNew, Open, Load, Close
<1>2. SeriesRows'
  BY <1>1 DEF SeriesRows, rowVars
<1>3. CASE OpenNew(t)
  <2>1. PICK v : /\ v = [pc |-> "form", id |-> NoId, at |-> <<0, 0>>, choice |-> Inferred(NoRule),
                         chips |-> {}, loaded |-> FALSE]
                 /\ Goes(t, v)
    BY <1>3 DEF OpenNew
  <2>2. <<0, 0>> \in {p \in Days \X Nat : p[1] <= p[2]}
    BY CalendarTyped DEF Days
  <2>3. Inferred(NoRule) \in HeldChoices /\ FALSE \in BOOLEAN
    BY InferredTyped DEF RuleOrNone
  <2>4. v \in FormTabs
    BY <2>1, <2>2, <2>3 DEF FormTabs
  <2>5. QED
    BY <1>2, <2>1, <2>4, GoesTyped DEF SeriesInv, HeldTabs
<1>4. ASSUME NEW e \in Ids, Open(t, e)
      PROVE  SeriesInv'
  <2>1. PICK i \in Shown(e) :
          Goes(t, [pc |-> "form", id |-> e, at |-> i, choice |-> Inferred(rule[e]),
                   chips |-> {}, loaded |-> FALSE])
    BY <1>4 DEF Open
  <2>2. PICK v : v = [pc |-> "form", id |-> e, at |-> i, choice |-> Inferred(rule[e]),
                      chips |-> {}, loaded |-> FALSE]
    OBVIOUS
  <2>3. i[1] \in Days /\ i[2] \in Nat /\ i[1] < i[2] /\ i = <<i[1], i[2]>>
    BY <1>1, <1>4, <2>1, ShownTyped DEF Open
  <2>4. i \in {p \in Days \X Nat : p[1] <= p[2]}
    <3>1. i[1] \in Nat
      BY <2>3, CalendarTyped DEF Days
    <3>2. i \in Days \X Nat /\ i[1] <= i[2]
      BY <2>3, <3>1
    <3>3. QED
      BY <3>2
  <2>5. Inferred(rule[e]) \in HeldChoices /\ FALSE \in BOOLEAN
    BY <1>1, InferredTyped DEF SeriesRows
  <2>6. v \in FormTabs
    BY <2>2, <2>4, <2>5 DEF FormTabs
  <2>7. QED
    BY <1>2, <2>1, <2>2, <2>6, GoesTyped DEF SeriesInv, HeldTabs
<1>5. CASE Load(t)
  <2>1. PICK q \in FormTabs : q = tab[t] /\ q.id \in events
    BY <1>5 DEF Load, SeriesInv, NoForm, SaveTabs, SplitTabs
  <2>2. PICK c \in SUBSET Chips : c = chips[q.id]
    BY <1>1, <2>1 DEF SeriesRows
  <2>3. PICK v : v = [q EXCEPT !.chips = c, !.loaded = TRUE]
    OBVIOUS
  <2>4. v \in FormTabs
    <3>1. TRUE \in BOOLEAN
      OBVIOUS
    <3>2. QED
      BY <2>3, <3>1 DEF FormTabs
  <2>5. Goes(t, v)
    BY <1>5, <2>1, <2>2, <2>3 DEF Load
  <2>6. QED
    BY <1>2, <2>4, <2>5, GoesTyped DEF SeriesInv, HeldTabs
<1>6. CASE Close(t)
  <2>1. Goes(t, NoForm) /\ NoForm \in HeldTabs
    BY <1>6 DEF Close, HeldTabs
  <2>2. QED
    BY <1>2, <2>1, GoesTyped DEF SeriesInv, HeldTabs
<1>7. QED
  BY <1>3, <1>4, <1>5, <1>6

LEMMA SubmitSteps ==
    ASSUME SeriesInv, NEW t \in Tabs, NEW x \in Typed(t),
           SubmitEdit(t, x) \/ (\E e \in Ids : SubmitNew(t, e, x))
    PROVE  SeriesInv'
<1>1. /\ tab[t] \in FormTabs /\ SeriesRows
      /\ x.s \in Days /\ x.d \in Nat \ {0} /\ x.choice \in HeldChoices /\ x.chips \in SUBSET Chips
  BY TypedTyped DEF SeriesInv
<1>2. ASSUME NEW e \in Ids
      PROVE  After(t, e, x) \in SaveTabs
  <2>1. BuildRRule(x.choice, x.s) \in RuleOrNone
    BY <1>1, BuildTyped
  <2>2. PICK b \in BOOLEAN : b = (tab[t].id # NoId \/ x.chips # {})
    OBVIOUS
  <2>3. tab[t].chips \ x.chips \in SUBSET Chips
    BY <1>1 DEF FormTabs
  <2>4. QED
    BY <1>1, <2>1, <2>2, <2>3 DEF After, SaveTabs
<1>3. ASSUME NEW e \in Ids, SubmitNew(t, e, x)
      PROVE  SeriesInv'
  <2>1. /\ events' = events \cup {e} /\ start' = [start EXCEPT ![e] = x.s]
        /\ dur' = [dur EXCEPT ![e] = x.d] /\ chips' = [chips EXCEPT ![e] = {DefaultChip}]
        /\ rule' = rule /\ over' = over /\ Goes(t, After(t, e, x))
    BY <1>3 DEF SubmitNew
  <2>2. SeriesRows'
    BY <1>1, <2>1, ChipsAssumption DEF SeriesRows
  <2>3. QED
    BY <1>2, <2>1, <2>2, GoesTyped DEF SeriesInv, HeldTabs
<1>4. CASE SubmitEdit(t, x)
  <2>1. PICK e \in Ids :
           /\ e \in events /\ start' = [start EXCEPT ![e] = x.s] /\ dur' = [dur EXCEPT ![e] = x.d]
           /\ Goes(t, After(t, e, x)) /\ UNCHANGED <<events, rule, over, chips>>
    BY <1>1, <1>4 DEF SubmitEdit, SeriesRows
  <2>2. SeriesRows'
    BY <1>1, <2>1 DEF SeriesRows
  <2>3. QED
    BY <1>2, <2>1, <2>2, GoesTyped DEF SeriesInv, HeldTabs
<1>5. QED
  BY <1>3, <1>4

LEMMA SaveSteps ==
    ASSUME SeriesInv, NEW t \in Tabs, SaveRule(t) \/ SaveChips(t)
    PROVE  SeriesInv'
<1>1. PICK q \in SaveTabs : q = tab[t] /\ q.id \in Ids /\ q.rule \in RuleOrNone /\ q.chips \in SUBSET Chips
  BY DEF SaveRule, SaveChips, SeriesInv, NoForm, FormTabs, SaveTabs, SplitTabs
<1>2. SeriesRows
  BY DEF SeriesInv
<1>3. CASE SaveRule(t)
  <2>1. /\ rule' = rule \/ rule' = [rule EXCEPT ![q.id] = q.rule]
        /\ UNCHANGED <<events, start, dur, over, chips>>
        /\ Goes(t, NoForm) \/ Goes(t, [q EXCEPT !.pc = "chips"])
    BY <1>1, <1>3 DEF SaveRule
  <2>2. SeriesRows'
    BY <1>1, <1>2, <2>1 DEF SeriesRows
  <2>3. [q EXCEPT !.pc = "chips"] \in SaveTabs
    BY DEF SaveTabs
  <2>4. QED
    BY <2>1, <2>2, <2>3, GoesTyped DEF SeriesInv, HeldTabs
<1>4. CASE SaveChips(t)
  <2>1. /\ chips' = chips \/ chips' = [chips EXCEPT ![q.id] = q.chips]
        /\ UNCHANGED <<events, start, dur, rule, over>> /\ Goes(t, NoForm)
    BY <1>1, <1>4 DEF SaveChips
  <2>2. SeriesRows'
    BY <1>1, <1>2, <2>1 DEF SeriesRows
  <2>3. QED
    BY <2>1, <2>2, GoesTyped DEF SeriesInv, HeldTabs
<1>5. QED
  BY <1>3, <1>4

LEMMA GridSteps ==
    ASSUME SeriesInv, NEW e \in events,
           \/ DeleteEvent(e)
           \/ \E i \in Shown(e) : \/ CancelOne(e, i)
                                  \/ \E s \in StartDays : Drag(e, i, s) \/ Override(e, i, s)
                                  \/ \E d \in Durations : Resize(e, i, d)
    PROVE  SeriesInv'
<1>1. SeriesRows /\ e \in Ids /\ \A d \in Days : d \in Nat
  BY CalendarTyped DEF SeriesInv, SeriesRows, Days
<1>2. tab' = tab
  BY DEF DeleteEvent, CancelOne, Drag, Override, Resize
<1>3. SUFFICES SeriesRows'
  BY <1>2 DEF SeriesInv
<1>4. CASE DeleteEvent(e)
  <2>1. /\ events' = events \ {e} /\ over' = [over EXCEPT ![e] = [d \in Days |-> AsIs]]
        /\ chips' = [chips EXCEPT ![e] = {}] /\ UNCHANGED <<start, dur, rule>>
    BY <1>4 DEF DeleteEvent
  <2>2. QED
    BY <1>1, <2>1 DEF SeriesRows
<1>5. ASSUME NEW i \in Shown(e), NEW v \in {Cancelled} \cup Moved,
             over' = [over EXCEPT ![e][i[1]] = v], UNCHANGED <<events, start, dur, rule, chips>>
      PROVE  SeriesRows'
  <2>1. i[1] \in Days
    BY <1>1, ShownTyped
  <2>2. PICK d \in Days : d = i[1]
    BY <2>1
  <2>3. over[e] \in [Days -> {AsIs, Cancelled} \cup Moved]
    BY <1>1 DEF SeriesRows
  <2>4. PICK f \in [Days -> {AsIs, Cancelled} \cup Moved] : f = [over[e] EXCEPT ![d] = v]
    BY <2>2, <2>3
  <2>5. over' = [over EXCEPT ![e] = f]
    BY <1>5, <2>2, <2>4
  <2>6. QED
    BY <1>1, <1>5, <2>5 DEF SeriesRows
<1>6. ASSUME NEW i \in Shown(e), CancelOne(e, i)
      PROVE  SeriesRows'
  BY <1>5, <1>6 DEF CancelOne
<1>7. ASSUME NEW i \in Shown(e), NEW s \in StartDays, Override(e, i, s)
      PROVE  SeriesRows'
  <2>1. PICK a \in Days, b \in Nat : a = i[1] /\ b = i[2] /\ a < b
    BY <1>1, ShownTyped
  <2>2. s \in Days /\ s + (b - a) \in Days /\ s < s + (b - a)
    BY <1>1, <1>7, <2>1, InputsAssumption DEF Override
  <2>3. <<s, s + (b - a)>> \in Moved
    BY <2>2 DEF Moved
  <2>4. QED
    BY <1>5, <1>7, <2>1, <2>3 DEF Override
<1>8. ASSUME NEW i \in Shown(e), NEW s \in StartDays, Drag(e, i, s)
      PROVE  SeriesRows'
  <2>1. PICK n \in Nat \ {0} : n = i[2] - i[1]
    BY <1>1, ShownTyped
  <2>2. /\ start' = [start EXCEPT ![e] = s] /\ dur' = [dur EXCEPT ![e] = n]
        /\ UNCHANGED <<events, rule, over, chips>>
    BY <1>8, <2>1 DEF Drag
  <2>3. s \in Days
    BY InputsAssumption
  <2>4. QED
    BY <1>1, <2>2, <2>3 DEF SeriesRows
<1>9. ASSUME NEW i \in Shown(e), NEW d \in Durations, Resize(e, i, d)
      PROVE  SeriesRows'
  <2>1. start[e] \in Nat /\ i[1] \in Nat /\ d \in Nat
    BY <1>1, ShownTyped, InputsAssumption DEF SeriesRows
  <2>2. PICK n \in Nat \ {0} : n = i[1] + d - start[e]
    BY <1>9, <2>1 DEF Resize
  <2>3. dur' = [dur EXCEPT ![e] = n] /\ UNCHANGED <<events, start, rule, over, chips>>
    BY <1>9, <2>2 DEF Resize
  <2>4. QED
    BY <1>1, <2>3 DEF SeriesRows
<1>10. QED
  BY <1>4, <1>6, <1>7, <1>8, <1>9

LEMMA SplitRules ==
    ASSUME NEW r \in RRules, NEW d \in Days
    PROVE  CarryRule(r) \in RRules /\ CappedRule(r, d) \in RRules
<1>1. d - 1 \in Days \cup {-1, NoDay} /\ NoDay \in Days \cup {-1, NoDay} /\ 0 \in Nat
  BY CalendarTyped DEF Days
<1>2. CarryRule(r) \in RRules
  BY <1>1 DEF CarryRule, RRules
<1>3. CappedRule(r, d) \in RRules
  BY <1>1 DEF CappedRule, RRules
<1>4. QED
  BY <1>2, <1>3

\* The rows after the batch of a split, field by field.
LEMMA SplitRows ==
    ASSUME SeriesInv, NEW t \in Tabs, NEW e \in Ids, SplitBatch(t, e)
    PROVE  /\ tab[t] \in SplitTabs /\ SeriesRows' /\ Goes(t, NoForm)
           /\ e \notin events /\ events' = events \cup {e}
           /\ start' = [start EXCEPT ![e] = tab[t].at] /\ dur' = [dur EXCEPT ![e] = tab[t].dur]
           /\ rule'[e] = CarryRule(tab[t].rule)
           /\ tab[t].id \in events => rule'[tab[t].id] = CappedRule(tab[t].rule, tab[t].day)
           /\ \A x \in Ids : x # tab[t].id =>
                 over'[x] = over[x]
           /\ tab[t].id \in Ids => \A d \in Days :
                 over'[tab[t].id][d] = IF d >= tab[t].day THEN AsIs ELSE over[tab[t].id][d]
<1>1. PICK q \in SplitTabs : q = tab[t]
  BY DEF SplitBatch, SeriesInv, NoForm, FormTabs, SaveTabs
<1>2. q.id \in Ids /\ q.day \in Days /\ q.at \in Days /\ q.dur \in Nat \ {0} /\ q.rule \in RRules
      /\ q.chips \in SUBSET Chips
  BY DEF SplitTabs
<1>3. /\ e \notin events /\ events' = events \cup {e}
      /\ start' = [start EXCEPT ![e] = q.at] /\ dur' = [dur EXCEPT ![e] = q.dur]
      /\ chips' = [chips EXCEPT ![e] = q.chips] /\ Goes(t, NoForm)
  BY <1>1 DEF SplitBatch
<1>4. rule' = [x \in Ids |->
          CASE x = e -> CarryRule(q.rule)
            [] x = q.id /\ x \in events -> CappedRule(q.rule, q.day)
            [] OTHER -> rule[x]]
  BY <1>1 DEF SplitBatch
<1>5. over' = [over EXCEPT ![q.id] = [d \in Days |-> IF d >= q.day THEN AsIs ELSE over[q.id][d]]]
  BY <1>1 DEF SplitBatch
<1>6. SeriesRows
  BY DEF SeriesInv
<1>7. rule'[e] = CarryRule(q.rule)
  BY <1>3, <1>4
<1>8. q.id \in events => rule'[q.id] = CappedRule(q.rule, q.day)
  BY <1>2, <1>3, <1>4
<1>9. rule' \in [Ids -> RuleOrNone]
  <2>1. CarryRule(q.rule) \in RuleOrNone /\ CappedRule(q.rule, q.day) \in RuleOrNone
    BY <1>2, SplitRules DEF RuleOrNone
  <2>2. ASSUME NEW x \in Ids
        PROVE  rule'[x] \in RuleOrNone
    <3>1. rule[x] \in RuleOrNone
      BY <1>6 DEF SeriesRows
    <3>2. CASE x = e
      BY <1>7, <2>1, <3>2
    <3>3. CASE x # e /\ x = q.id /\ x \in events
      BY <1>8, <2>1, <3>3
    <3>4. CASE x # e /\ ~(x = q.id /\ x \in events)
      <4>1. rule'[x] = rule[x]
        BY <1>4, <3>4
      <4>2. QED
        BY <3>1, <4>1
    <3>5. QED
      BY <3>2, <3>3, <3>4
  <2>3. QED
    BY <1>4, <2>2
<1>10. /\ \A x \in Ids : x # q.id => over'[x] = over[x]
       /\ \A d \in Days : over'[q.id][d] = IF d >= q.day THEN AsIs ELSE over[q.id][d]
  BY <1>2, <1>5, <1>6 DEF SeriesRows
<1>11. over' \in [Ids -> [Days -> {AsIs, Cancelled} \cup Moved]]
  <2>1. over[q.id] \in [Days -> {AsIs, Cancelled} \cup Moved]
    BY <1>2, <1>6 DEF SeriesRows
  <2>2. PICK f : f = [d \in Days |-> IF d >= q.day THEN AsIs ELSE over[q.id][d]]
    OBVIOUS
  <2>3. f \in [Days -> {AsIs, Cancelled} \cup Moved]
    BY <2>1, <2>2
  <2>4. over' = [over EXCEPT ![q.id] = f]
    BY <1>5, <2>2
  <2>5. QED
    BY <1>6, <2>3, <2>4 DEF SeriesRows
<1>12. \A x \in Ids \ events' : \A d \in Days : over'[x][d] = AsIs
  BY <1>2, <1>3, <1>6, <1>10 DEF SeriesRows
<1>13. SeriesRows'
  BY <1>2, <1>3, <1>6, <1>9, <1>11, <1>12 DEF SeriesRows
<1>14. QED
  BY <1>1, <1>3, <1>7, <1>8, <1>10, <1>13

LEMMA SplitSteps ==
    ASSUME SeriesInv, NEW t \in Tabs, NEW e \in Ids,
           \/ SplitBatch(t, e) \/ SplitFails(t)
           \/ \E i \in Shown(e) : \E s \in StartDays \cup {i[1]} : SplitRead(t, e, i, s)
    PROVE  SeriesInv'
<1>1. SeriesRows
  BY DEF SeriesInv
<1>2. CASE SplitBatch(t, e)
  BY <1>2, SplitRows, GoesTyped DEF SeriesInv, HeldTabs
<1>3. CASE SplitFails(t)
  <2>1. UNCHANGED rowVars /\ Goes(t, NoForm)
    BY <1>3 DEF SplitFails
  <2>2. SeriesRows'
    BY <1>1, <2>1 DEF SeriesRows, rowVars
  <2>3. QED
    BY <2>1, <2>2, GoesTyped DEF SeriesInv, HeldTabs
<1>4. ASSUME NEW i \in Shown(e), NEW s \in StartDays \cup {i[1]}, SplitRead(t, e, i, s)
      PROVE  SeriesInv'
  <2>1. /\ UNCHANGED rowVars /\ e \in events /\ rule[e] # NoRule
        /\ Goes(t, [pc |-> "split", id |-> e, day |-> i[1], at |-> s, start |-> start[e],
                    rule |-> rule[e], dur |-> dur[e], chips |-> chips[e]])
    BY <1>4 DEF SplitRead
  <2>2. SeriesRows'
    BY <1>1, <2>1 DEF SeriesRows, rowVars
  <2>3. i[1] \in Days /\ s \in Days
    BY <1>1, <2>1, ShownTyped, InputsAssumption
  <2>4. start[e] \in Days /\ dur[e] \in Nat \ {0} /\ rule[e] \in RRules /\ chips[e] \in SUBSET Chips
    BY <1>1, <2>1 DEF SeriesRows, RuleOrNone
  <2>5. PICK v : v = [pc |-> "split", id |-> e, day |-> i[1], at |-> s, start |-> start[e],
                      rule |-> rule[e], dur |-> dur[e], chips |-> chips[e]]
    OBVIOUS
  <2>6. v \in SplitTabs
    BY <2>3, <2>4, <2>5 DEF SplitTabs
  <2>7. QED
    BY <2>1, <2>2, <2>5, <2>6, GoesTyped DEF SeriesInv, HeldTabs
<1>5. QED
  BY <1>2, <1>3, <1>4

LEMMA SeriesInvInit ==
    SeriesInit => SeriesInv
<1> SUFFICES ASSUME SeriesInit
             PROVE  SeriesInv
  OBVIOUS
<1>1. 0 \in Days
  BY CalendarTyped DEF Days
<1>2. start \in [Ids -> Days] /\ dur \in [Ids -> Nat] /\ chips \in [Ids -> SUBSET Chips] /\ events = {}
  BY <1>1 DEF SeriesInit
<1>3. rule \in [Ids -> RuleOrNone]
  BY DEF SeriesInit, RuleOrNone
<1>4. over \in [Ids -> [Days -> {AsIs, Cancelled} \cup Moved]] /\ \A e \in Ids, d \in Days : over[e][d] = AsIs
  BY DEF SeriesInit
<1>5. tab \in [Tabs -> {NoForm} \cup FormTabs \cup SaveTabs \cup SplitTabs]
  BY DEF SeriesInit
<1>6. QED
  BY <1>2, <1>3, <1>4, <1>5 DEF SeriesInv, SeriesRows

LEMMA SeriesInvStep ==
    SeriesInv /\ [SeriesNext]_seriesVars => SeriesInv'
<1> SUFFICES ASSUME SeriesInv, [SeriesNext]_seriesVars
             PROVE  SeriesInv'
  OBVIOUS
<1>1. ASSUME NEW t \in Tabs, OpenNew(t) \/ (\E e \in Ids : Open(t, e)) \/ Load(t) \/ Close(t)
      PROVE  SeriesInv'
  BY <1>1, FormSteps
<1>2. ASSUME NEW t \in Tabs, SaveRule(t) \/ SaveChips(t)
      PROVE  SeriesInv'
  BY <1>2, SaveSteps
<1>3. ASSUME NEW t \in Tabs, SplitFails(t)
      PROVE  SeriesInv'
  <2>1. SeriesRows' /\ Goes(t, NoForm)
    BY <1>3 DEF SplitFails, SeriesInv, SeriesRows, rowVars
  <2>2. QED
    BY <2>1, GoesTyped DEF SeriesInv, HeldTabs
<1>4. ASSUME NEW t \in Tabs, NEW e \in Ids,
             SplitBatch(t, e) \/ \E i \in Shown(e) : \E s \in StartDays \cup {i[1]} : SplitRead(t, e, i, s)
      PROVE  SeriesInv'
  BY <1>4, SplitSteps
<1>5. ASSUME NEW t \in Tabs, NEW x \in Typed(t), SubmitEdit(t, x) \/ \E e \in Ids : SubmitNew(t, e, x)
      PROVE  SeriesInv'
  BY <1>5, SubmitSteps
<1>6. ASSUME NEW e \in events,
             \/ DeleteEvent(e)
             \/ \E i \in Shown(e) : \/ CancelOne(e, i)
                                    \/ \E s \in StartDays : Drag(e, i, s) \/ Override(e, i, s)
                                    \/ \E d \in Durations : Resize(e, i, d)
      PROVE  SeriesInv'
  BY <1>6, GridSteps
<1>7. CASE UNCHANGED seriesVars
  BY <1>7 DEF SeriesInv, SeriesRows, seriesVars
<1>8. CASE SeriesNext
  BY <1>1, <1>2, <1>3, <1>4, <1>5, <1>6, <1>8 DEF SeriesNext
<1>9. QED
  BY <1>7, <1>8

LEMMA SeriesIsKept ==
    SeriesSpec => []SeriesInv
BY SeriesInvInit, SeriesInvStep, PTL DEF SeriesSpec

(***************************************************************************)
(* The rows of the events are what the tables may hold: days of the        *)
(* calendar, lengths above 0, rules of RFC 5545 or none, overrides that    *)
(* cancel or move an instance (lib/calendar.ts).                           *)
(***************************************************************************)
THEOREM SeriesTypes == SeriesSpec => []SeriesTypeOK
<1>1. SeriesInv => SeriesTypeOK
  <2> SUFFICES ASSUME SeriesInv
               PROVE  SeriesTypeOK
    OBVIOUS
  <2>1. \A e \in Ids : rule[e] = NoRule \/ rule[e] \in RRules
    BY DEF SeriesInv, SeriesRows, RuleOrNone
  <2>2. \A e \in Ids, d \in Days : over[e][d] = AsIs \/ over[e][d] \in {Cancelled} \cup (Days \X Days)
    BY DEF SeriesInv, SeriesRows, Moved
  <2>3. \A t \in Tabs : tab[t].pc \in {"closed", "form", "rule", "chips", "split"}
    BY DEF SeriesInv, NoForm, FormTabs, SaveTabs, SplitTabs
  <2>4. QED
    BY <2>1, <2>2, <2>3 DEF SeriesInv, SeriesRows, SeriesTypeOK
<1>2. QED
  BY <1>1, SeriesIsKept, PTL

(***************************************************************************)
(* What a window lists of a series in tune, without its overrides, are the *)
(* first Cap occurrences RFC 5545 gives its rule that start in the window  *)
(* (expandRRule, expandRecurrenceForRows in lib/calendar.ts), whatever the *)
(* lengths of the months, the week and the cap.                            *)
(***************************************************************************)
THEOREM WindowsFollowTheRule == SeriesSpec => []ListingFollowsRule
<1>1. SeriesInv => ListingFollowsRule
  <2> SUFFICES ASSUME SeriesInv, NEW e \in events, rule[e] # NoRule, InTune(e),
                      NEW from \in Views, NEW to \in Views, from < to
               PROVE  {d \in Seeds(e, from, to) : d < to}
                        = {d \in FirstCap(Occurrences(rule[e], start[e])) : from <= d /\ d < to}
    BY DEF ListingFollowsRule, ListsItsRule
  <2>1. PICK r \in RRules, s \in Days, n \in Nat \ {0} : r = rule[e] /\ s = start[e] /\ n = dur[e]
    BY DEF SeriesInv, SeriesRows, RuleOrNone
  <2>2. Tuned(r, s)
    BY <2>1 DEF InTune
  <2>3. Candidates(r, s) = Fitting(r, s)
    BY <2>2, ExpandsAsMeant
  <2>4. from \in Nat /\ to \in Nat /\ s \in Nat /\ \A d \in Days : d \in Nat
    BY InputsAssumption, CalendarTyped DEF Days
  <2>5. \A d : d \in ExpandRRule(r, s, from, to + n) <=>
          /\ d \in Fitting(r, s) /\ from <= d /\ d < to + n
          /\ r.until # NoDay => d <= r.until
          /\ r.count # 0 => Rank(d, Fitting(r, s)) < r.count
          /\ Rank(d, Fitting(r, s)) < Cap
    BY <2>3 DEF ExpandRRule
  <2>6. \A d \in Fitting(r, s) : d \in Days /\ d >= s
    BY DEF Fitting
  <2>7. Seeds(e, from, to) = IF s < to THEN ExpandRRule(r, s, from, to + n) ELSE {}
    BY <2>1 DEF Seeds
  <2>8. ASSUME NEW d, d \in Seeds(e, from, to), d < to
        PROVE  d \in FirstCap(Occurrences(r, s)) /\ from <= d
    BY <2>5, <2>6, <2>7, <2>8, CappedAsMeant
  <2>9. ASSUME NEW d, d \in FirstCap(Occurrences(r, s)), from <= d, d < to
        PROVE  d \in Seeds(e, from, to)
    <3>1. d \in Days
      BY <2>9 DEF FirstCap, Occurrences
    <3>2. /\ d \in Fitting(r, s)
          /\ r.until # NoDay => d <= r.until
          /\ r.count # 0 => Rank(d, Fitting(r, s)) < r.count
          /\ Rank(d, Fitting(r, s)) < Cap
      BY <2>9, <3>1, CappedAsMeant
    <3>3. d \in Nat /\ s <= d /\ s < to /\ d < to + n
      BY <2>4, <2>6, <2>9, <3>1, <3>2
    <3>4. QED
      BY <2>5, <2>7, <2>9, <3>2, <3>3
  <2>10. QED
    BY <2>1, <2>8, <2>9
<1>2. QED
  BY <1>1, SeriesIsKept, PTL

LEMMA WeeksInOrder ==
    ASSUME NEW a \in Nat, NEW b \in Nat, a <= b
    PROVE  Week(a) <= Week(b)
<1>1. PICK n \in Nat \ {0}, j \in Nat, k \in Nat, v \in Nat, w \in Nat :
         /\ n = WeekLen /\ j = Week(a) /\ k = Week(b) /\ a = n * j + v /\ b = n * k + w
         /\ v < n /\ w < n
  <2>1. PICK v \in Nat : v = DayOfWeek(a) /\ v < WeekLen /\ a = WeekLen * Week(a) + v
    BY WeekAssumption, WeekOfDay
  <2>2. PICK w \in Nat : w = DayOfWeek(b) /\ w < WeekLen /\ b = WeekLen * Week(b) + w
    BY WeekAssumption, WeekOfDay
  <2>3. Week(a) \in Nat /\ Week(b) \in Nat
    BY WeekOfDay
  <2>4. QED
    BY <2>1, <2>2, <2>3, WeekAssumption
<1>2. ASSUME k < j
      PROVE  FALSE
  <2>1. k + 1 <= j
    BY <1>2
  <2>2. n * (k + 1) <= n * j
    BY <2>1
  <2>3. n * (k + 1) = n * k + n
    OBVIOUS
  <2>4. QED
    BY <1>1, <2>2, <2>3
<1>3. QED
  BY <1>1, <1>2

\* A rule that starts again at one of its days goes on as it did.
LEMMA FitsFromDay ==
    ASSUME NEW r \in RRules, NEW s \in Days, NEW day \in Days, NEW d \in Days,
           s <= day, day <= d, Fits(r, s, day), Fits(r, s, d)
    PROVE  Fits(r, day, d)
<1>1. /\ r.interval \in Nat \ {0} /\ r.freq \in {"DAILY", "WEEKLY", "MONTHLY", "YEARLY"}
      /\ s \in Nat /\ day \in Nat /\ d \in Nat
  BY CalendarTyped DEF RRules, Days
<1>2. PICK iv \in Nat \ {0} : iv = r.interval
  BY <1>1
<1>3. CASE r.freq = "DAILY"
  <2>1. (day - s) % iv = 0 /\ (d - s) % iv = 0
    BY <1>2, <1>3 DEF Fits
  <2>2. (d - day) % iv = 0
    BY <1>1, <2>1, MultiplesApart
  <2>3. QED
    BY <1>2, <1>3, <2>2 DEF Fits
<1>4. CASE r.freq = "WEEKLY"
  <2>1. PICK a \in Nat, b \in Nat, c \in Nat :
           a = MondayWeek(s) /\ b = MondayWeek(day) /\ c = MondayWeek(d)
    BY <1>1, WeekOfDay, MondayWeekOfDay
  <2>2. a <= b /\ b <= c
    <3>1. PICK n \in Nat : n + 1 = WeekLen
      BY WeekAssumption
    <3>2. s + n <= day + n /\ day + n <= d + n /\ {s + n, day + n, d + n} \subseteq Nat
      BY <1>1
    <3>3. a = Week(s + n) /\ b = Week(day + n) /\ c = Week(d + n)
      <4>1. s + WeekLen - 1 = s + n /\ day + WeekLen - 1 = day + n /\ d + WeekLen - 1 = d + n
        BY <1>1, <3>1
      <4>2. QED
        BY <1>1, <2>1, <4>1, MondayWeekOfDay
    <3>4. QED
      BY <3>2, <3>3, WeeksInOrder
  <2>3. (b - a) % iv = 0 /\ (c - a) % iv = 0
    BY <1>2, <1>4, <2>1 DEF Fits
  <2>4. (c - b) % iv = 0
    BY <2>2, <2>3, MultiplesApart
  <2>5. DayOfWeek(d) \in IF r.byday = {} THEN {DayOfWeek(day)} ELSE r.byday
    BY <1>4 DEF Fits
  <2>6. QED
    BY <1>2, <1>4, <2>1, <2>4, <2>5 DEF Fits
<1>5. PICK a \in Nat, b \in Nat, c \in Nat :
         a = Month(s) /\ b = Month(day) /\ c = Month(d) /\ a <= b /\ b <= c
  BY MonthOfDay, MonthsInOrder, CalendarTyped
<1>6. CASE r.freq = "MONTHLY"
  <2>1. (b - a) % iv = 0 /\ (c - a) % iv = 0
    BY <1>2, <1>5, <1>6 DEF Fits
  <2>2. (c - b) % iv = 0
    BY <1>5, <2>1, MultiplesApart
  <2>3. DayOfMonth(d) = IF r.monthday # 0 THEN r.monthday ELSE DayOfMonth(day)
    BY <1>6 DEF Fits
  <2>4. QED
    BY <1>2, <1>5, <1>6, <2>2, <2>3 DEF Fits
<1>7. CASE r.freq = "YEARLY"
  <2>1. PICK step \in Nat \ {0} : step = r.interval * YearMonths
    BY <1>1, YearAssumption
  <2>2. /\ (b - a) % step = 0 /\ (c - a) % step = 0
        /\ DayOfMonth(day) = DayOfMonth(s) /\ DayOfMonth(d) = DayOfMonth(s)
    BY <1>5, <1>7, <2>1 DEF Fits
  <2>3. (c - b) % step = 0
    BY <1>5, <2>2, MultiplesApart
  <2>4. QED
    BY <1>5, <1>7, <2>1, <2>2, <2>3 DEF Fits
<1>8. QED
  BY <1>1, <1>3, <1>4, <1>6, <1>7

\* The two rules of a split name the days of the series, on either side.
LEMMA SplitOccurrences ==
    ASSUME NEW r \in RRules, NEW s \in Days, NEW day \in Days, Endless(r)
    PROVE  /\ Occurrences(r, s) = Fitting(r, s)
           /\ Occurrences(CarryRule(r), day) = Fitting(r, day)
           /\ Occurrences(CappedRule(r, day), s) = {d \in Fitting(r, s) : d < day}
<1>1. r.count = 0 /\ r.until = NoDay
  BY DEF Endless
<1>2. Occurrences(r, s) = Fitting(r, s)
  BY <1>1 DEF Occurrences, Fitting
<1>3. PICK p \in RRules, c \in RRules : p = CarryRule(r) /\ c = CappedRule(r, day)
  BY SplitRules
<1>4. /\ p.count = 0 /\ p.until = NoDay /\ c.count = 0 /\ c.until = day - 1
      /\ p.freq = r.freq /\ p.interval = r.interval /\ p.byday = r.byday /\ p.monthday = r.monthday
      /\ c.freq = r.freq /\ c.interval = r.interval /\ c.byday = r.byday /\ c.monthday = r.monthday
  BY <1>3 DEF CarryRule, CappedRule, RRules
<1>5. \A x, d : (Fits(p, x, d) <=> Fits(r, x, d)) /\ (Fits(c, x, d) <=> Fits(r, x, d))
  BY <1>4 DEF Fits
<1>6. Occurrences(p, day) = Fitting(r, day)
  BY <1>4, <1>5 DEF Occurrences, Fitting
<1>7. \A d \in Days : d \in Nat
  BY CalendarTyped DEF Days
<1>8. day \in Nat /\ c.until # NoDay
  BY <1>4, <1>7 DEF NoDay
<1>9. Occurrences(c, s) = {d \in Fitting(c, s) : d <= c.until}
  BY <1>4, <1>8 DEF Occurrences, Fitting
<1>10. Fitting(c, s) = Fitting(r, s)
  BY <1>5 DEF Fitting
<1>11. \A d \in Fitting(r, s) : d \in Days /\ (d <= day - 1 <=> d < day)
  BY <1>7, <1>8 DEF Fitting
<1>12. QED
  BY <1>2, <1>3, <1>4, <1>6, <1>9, <1>10, <1>11

(***************************************************************************)
(* A split loses no day of the series and shows none twice: each day that  *)
(* was listed without an override is a day of the master or of the new     *)
(* series, and of one only (splitRecurrenceAt in lib/calendar.ts).         *)
(***************************************************************************)
THEOREM SplitsLoseNothing == SeriesSpec => SplitLosesNothing
<1>1. ASSUME SeriesInv, NEW t \in Tabs, NEW e \in Ids, NEW m \in Ids,
             SplitBatch(t, e), tab[t].id = m, Fresh(tab[t]), Endless(tab[t].rule)
      PROVE  /\ Unaltered(m) \subseteq Unaltered(m)' \cup Unaltered(e)'
             /\ Unaltered(m)' \cap Unaltered(e)' = {}
  <2>1. PICK q \in SplitTabs : q = tab[t]
    BY <1>1, SplitRows
  <2>2. PICK r \in RRules, s \in Days, day \in Days :
           r = q.rule /\ s = q.start /\ day = q.day
    BY DEF SplitTabs
  <2>3. /\ m \in events /\ rule[m] = r /\ start[m] = s /\ q.at = day
        /\ day \in Occurrences(r, s) /\ Endless(r)
    BY <1>1, <2>1, <2>2 DEF Fresh
  <2>4. e \notin events /\ e # m
    BY <1>1, <2>3, SplitRows
  <2>5. /\ start' = [start EXCEPT ![e] = day]
        /\ rule'[e] = CarryRule(r) /\ rule'[m] = CappedRule(r, day)
    BY <1>1, <2>1, <2>2, <2>3, SplitRows
  <2>6. start \in [Ids -> Days] /\ \A d \in Days : over[e][d] = AsIs
    BY <1>1, <2>4 DEF SeriesInv, SeriesRows
  <2>7. start'[e] = day /\ start'[m] = s
    BY <2>3, <2>4, <2>5, <2>6
  <2>8. over'[e] = over[e]
    BY <1>1, <2>4, SplitRows
  <2>9. \A d \in Days : over'[m][d] = IF d >= day THEN AsIs ELSE over[m][d]
    BY <1>1, <2>1, <2>2, SplitRows
  <2>10. /\ Occurrences(r, s) = Fitting(r, s)
         /\ Occurrences(CarryRule(r), day) = Fitting(r, day)
         /\ Occurrences(CappedRule(r, day), s) = {d \in Fitting(r, s) : d < day}
    BY <2>3, SplitOccurrences
  <2>11. /\ \A x, d : d \in Fitting(r, x) <=> d \in Days /\ d >= x /\ Fits(r, x, d)
         /\ \A d \in Days : d \in Nat
    BY CalendarTyped DEF Fitting, Days
  <2>12. Unaltered(m) = {d \in Fitting(r, s) : over[m][d] = AsIs}
    BY <2>3, <2>10 DEF Unaltered
  <2>13. Unaltered(m)' = {d \in {c \in Fitting(r, s) : c < day} : over'[m][d] = AsIs}
    BY <2>5, <2>7, <2>10 DEF Unaltered
  <2>14. Unaltered(e)' = {d \in Fitting(r, day) : over'[e][d] = AsIs}
    BY <2>5, <2>7, <2>10 DEF Unaltered
  <2>15. Unaltered(e)' = Fitting(r, day)
    BY <2>6, <2>8, <2>11, <2>14
  <2>16. \A d \in Days : ~(d < day /\ d >= day) /\ (d < day \/ d >= day)
    BY <2>11
  <2>17. ASSUME NEW d \in Unaltered(m)
         PROVE  d \in Unaltered(m)' \cup Unaltered(e)'
    <3>1. d \in Fitting(r, s) /\ d \in Days /\ over[m][d] = AsIs /\ d >= s /\ Fits(r, s, d)
      BY <2>11, <2>12
    <3>2. CASE d < day
      <4>1. over'[m][d] = AsIs
        BY <2>9, <3>1
      <4>2. QED
        BY <2>13, <3>1, <3>2, <4>1
    <3>3. CASE d >= day
      <4>1. day >= s /\ Fits(r, s, day)
        BY <2>3, <2>10, <2>11
      <4>2. s <= day /\ day <= d
        BY <2>11, <3>1, <3>3, <4>1
      <4>3. Fits(r, day, d)
        BY <3>1, <4>1, <4>2, FitsFromDay
      <4>4. QED
        BY <2>11, <2>15, <3>1, <3>3, <4>3
    <3>4. QED
      BY <2>16, <3>1, <3>2, <3>3
  <2>18. Unaltered(m)' \cap Unaltered(e)' = {}
    BY <2>11, <2>13, <2>15, <2>16
  <2>19. QED
    BY <2>17, <2>18
<1>2. SeriesInv /\ [SeriesNext]_seriesVars =>
        [\A t \in Tabs, e \in Ids, m \in Ids :
            SplitBatch(t, e) /\ tab[t].id = m /\ Fresh(tab[t]) /\ Endless(tab[t].rule) /\ InTune(m) =>
               /\ Unaltered(m) \subseteq Unaltered(m)' \cup Unaltered(e)'
               /\ Unaltered(m)' \cap Unaltered(e)' = {}]_seriesVars
  BY <1>1
<1>3. QED
  BY <1>2, SeriesIsKept, PTL DEF SeriesSpec, SplitLosesNothing
=============================================================================
