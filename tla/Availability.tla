---------------------------- MODULE Availability ----------------------------
(***************************************************************************)
(* Which start times a booking link offers (booking-availability.ts).      *)
(*                                                                         *)
(* Time is counted in ticks.  The weekly rules and the date overrides are  *)
(* wall-clock times of the link's time zone; the zone changes its offset   *)
(* at one instant.  The page of the link lists the slots of a range        *)
(* (computeAvailableSlots); when a visitor commits, isSlotAvailable        *)
(* recomputes them over a range of its own, one day around the slot.       *)
(***************************************************************************)
EXTENDS SlotRules

CONSTANTS
    DayLen,                     \* ticks per day (86400 seconds)
    Step,                       \* slotIntervalMinutes, at least 5
    MinNotice, BookingWindow,
    ZoneAt,                     \* the instant the zone changes its offset,
    OffsetBefore, OffsetAfter,  \* its offset until then and from then on
    Rules,                      \* weekday -> set of [open, close]
    Overrides,                  \* the windows an override may hold
    Weekly,                     \* no override
    Dates,                      \* the dates in question
    Meetings,                   \* other events: [start, end, series, seed]
    Ranges,                     \* ranges [from, to] a page may ask for
    LastTick                    \* bound on the clock

Instants == 0 .. LastTick

ASSUME LengthsAssumption ==
    /\ DayLen \in Nat \ {0} /\ Step \in Nat \ {0}
    /\ MinNotice \in Nat /\ BookingWindow \in Nat

\* Buffers are clamped to four hours (booking-input.ts).
ASSUME BufferAssumption == BufferBefore <= DayLen /\ BufferAfter <= DayLen

ASSUME ZoneAssumption ==
    ZoneAt \in Int /\ OffsetBefore \in Int /\ OffsetAfter \in Int

ASSUME DatesAssumption == Dates \subseteq Int

Window(w) == w.open \in Int /\ w.close \in Int /\ w.open < w.close

\* parseWeekly drops a rule that does not end after it starts; the windows of
\* an override are taken to be like those of a rule.
ASSUME WindowsAssumption ==
    /\ \A day \in 0 .. 6 : \A w \in Rules[day] : Window(w)
    /\ Weekly \notin Overrides
    /\ \A windows \in Overrides : \A w \in windows : Window(w)

ASSUME MeetingsAssumption ==
    \A w \in Meetings :
        /\ w.start \in Int /\ w.end \in Int /\ w.start < w.end
        /\ w.seed \in Int

ASSUME RangesAssumption == \A r \in Ranges : r.from \in Int /\ r.to \in Int

VARIABLES
    busy,       \* the busy windows of all linked calendars
    override,   \* per date: Weekly, or the windows that replace the rules
                \* (rows nobody writes yet: setOverrides has no caller)
    now,
    range       \* the range the open page asks for

vars == <<busy, override, now, range>>

TypeOK ==
    /\ busy \subseteq Meetings
    /\ override \in [Dates -> Overrides \cup {Weekly}]
    /\ now \in Instants
    /\ range \in Ranges

-----------------------------------------------------------------------------
(* Wall clock and instants.                                                *)

OffsetAt(u) == IF u < ZoneAt THEN OffsetBefore ELSE OffsetAfter
Wall(u) == u + OffsetAt(u)

\* Mutant of ZonedToEpoch: without the correction pass.
ZonedUncorrected(wall) == wall - OffsetAt(wall)

\* The wall-clock time is taken for an instant, and corrected twice.
ZonedToEpoch(wall) == wall - OffsetAt(wall - OffsetAt(wall))

DateOf(u) == Wall(u) \div DayLen
Weekday(d) == d % 7

-----------------------------------------------------------------------------
(* The slots.                                                              *)

\* An override without windows closes the date.
DayWindows(d) == IF override[d] = Weekly THEN Rules[Weekday(d)] ELSE override[d]

\* The loop that lays slots into one window.
Grid(d, w) ==
    LET first == ZonedToEpoch(d * DayLen + w.open)
        last == ZonedToEpoch(d * DayLen + w.close)
    IN {s \in first .. last - Duration : (s - first) % Step = 0}

GridOf(from, to) ==
    UNION {UNION {Grid(d, w) : w \in DayWindows(d)} :
        d \in Dates \cap (DateOf(from) .. DateOf(to))}

\* collectBusy reads what overlaps the range.  An instance of a series is
\* found only if the time its rule gives it, the seed, is not before the range
\* (expandRecurrenceForRows), wherever an override has moved it.
BusyIn(from, to) ==
    {w \in busy :
        /\ Overlaps(w.start, w.end, from, to)
        /\ w.series => from <= w.seed /\ w.seed < to + (w.end - w.start)}

InTime(s) == now + MinNotice <= s /\ s < now + BookingWindow

\* computeAvailableSlots
Slots(from, to) ==
    {s \in GridOf(from, to) :
        from <= s /\ s < to /\ InTime(s) /\ Free(s, BusyIn(from, to))}

\* Mutant of IsSlotAvailable: the busy windows of the meeting alone.
IsSlotAvailableNarrow(s) == s \in Slots(s, s + Duration)

IsSlotAvailable(s) == s \in Slots(s - DayLen, s + Duration + DayLen)

Listed == Slots(range.from, range.to)

-----------------------------------------------------------------------------

Init ==
    /\ busy = {}
    /\ override \in [Dates -> Overrides \cup {Weekly}]
    /\ now = 0
    /\ range \in Ranges

Clock ==
    /\ now + 1 \in Instants
    /\ now' = now + 1
    /\ UNCHANGED <<busy, override, range>>

HostMeets(w) ==
    /\ w \notin busy
    /\ busy' = busy \cup {w}
    /\ UNCHANGED <<override, now, range>>

HostIsFree(w) ==
    /\ w \in busy
    /\ busy' = busy \ {w}
    /\ UNCHANGED <<override, now, range>>

\* A visitor opens the page, or turns to another month.
Visit(r) ==
    /\ range' = r
    /\ UNCHANGED <<busy, override, now>>

Next ==
    \/ Clock
    \/ \E w \in Meetings : HostMeets(w) \/ HostIsFree(w)
    \/ \E r \in Ranges : Visit(r)

Spec == Init /\ [][Next]_vars

-----------------------------------------------------------------------------
(* What the slots promise.                                                 *)

\* A single meeting, or an instance where its rule puts it that is shorter
\* than the day the check looks back from the start of the buffer.
Plain(w) == w.series => w.seed = w.start /\ w.end - w.start <= DayLen - BufferBefore

\* Instant by instant: nothing else is on between the two buffers.
Undisturbed(s) ==
    \A t \in s - BufferBefore .. s + Duration + BufferAfter - 1 :
        ~ \E w \in busy : Plain(w) /\ w.start <= t /\ t < w.end

(***************************************************************************)
(* What isSlotAvailable accepts is free with its buffers on every linked   *)
(* calendar, although it looks at one day around the slot only.  It may    *)
(* fall into an instance of a series that lasts longer than a day or that  *)
(* an override has moved: those are not found (see BusyIn).                *)
(***************************************************************************)
CommitIsFree == \A s \in Instants : IsSlotAvailable(s) => Undisturbed(s)

(***************************************************************************)
(* The two computations agree: what the commit would accept is on the      *)
(* page, and what is on the page is accepted unless the buffers reach      *)
(* beyond the range of the page.  Where an instance of a series began      *)
(* before the range, or is not Plain, one of them may miss it.             *)
(*                                                                         *)
(* Both walk the dates of their range, so a slot must be on the date its   *)
(* window belongs to.  It may not be where the clocks are changed across   *)
(* midnight, or closer to it than the length of the change, nor where a    *)
(* window ends after midnight (parseHHMM takes 24:59).                     *)
(***************************************************************************)
InnerSlot(s) ==
    range.from <= s - BufferBefore /\ s + Duration + BufferAfter <= range.to

FoundByBoth(s) ==
    \A w \in busy : w.series /\ ~Free(s, {w}) => Plain(w) /\ range.from <= w.start

\* What the wall clock shows at the change, and as far again before and after.
ChangeTimes ==
    LET before == ZoneAt + OffsetBefore
        after == ZoneAt + OffsetAfter
    IN  {before, after, before + before - after, after + after - before}

WithinDay(w) == 0 <= w.open /\ w.close <= DayLen

DatesInOrder ==
    /\ \A t, u \in ChangeTimes : t \div DayLen = u \div DayLen
    /\ \A day \in 0 .. 6 : \A w \in Rules[day] : WithinDay(w)
    /\ \A windows \in Overrides : \A w \in windows : WithinDay(w)

PageAgreesWithCommit ==
    DatesInOrder => \A s \in range.from .. range.to - 1 : FoundByBoth(s) =>
        /\ IsSlotAvailable(s) => s \in Listed
        /\ s \in Listed /\ InnerSlot(s) => IsSlotAvailable(s)

\* The clocks are set forward or back during the window, or at its ends.
Changing(open, close) ==
    \E t \in open .. close :
        \/ ZoneAt + OffsetBefore <= t /\ t <= ZoneAt + OffsetAfter
        \/ ZoneAt + OffsetAfter <= t /\ t <= ZoneAt + OffsetBefore

(***************************************************************************)
(* An offered slot lies within the opening hours of its date, as the wall  *)
(* clock shows them, unless the clocks change during those hours.          *)
(***************************************************************************)
OffersOpenHours ==
    \A s \in Listed : \E d \in Dates : \E w \in DayWindows(d) :
        LET open == d * DayLen + w.open
            close == d * DayLen + w.close
        IN /\ s \in Grid(d, w)
           /\ \/ open <= Wall(s) /\ Wall(s) + Duration <= close
              \/ Changing(open, close)
=============================================================================
