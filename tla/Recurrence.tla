----------------------------- MODULE Recurrence -----------------------------
(***************************************************************************)
(* expandRRule (lib/calendar.ts), and what RFC 5545 means by the rules it  *)
(* reads.  Time is counted in days: every instance keeps the seed's time   *)
(* of day, so nothing finer is told apart, except that an UNTIL is the     *)
(* last second of its day.  The lengths of the week and of the months are  *)
(* constants.                                                              *)
(***************************************************************************)
EXTENDS Integers, Sequences, FiniteSets

CONSTANTS
    WeekLen,    \* days of a week, 7 in the code; day 0 is a Sunday
    Firsts,     \* first day of each month, and of the month after the last
    YearMonths, \* months of a year
    Cap         \* MAX_RECURRENCE_OCCURRENCES

ASSUME WeekAssumption == WeekLen \in Nat \ {0}
ASSUME MonthsAssumption ==
    /\ Firsts \in Seq(Nat) /\ Len(Firsts) > 1 /\ Firsts[1] = 0
    /\ \A i, j \in 1 .. Len(Firsts) : i < j => Firsts[i] < Firsts[j]
ASSUME YearAssumption == YearMonths \in Nat \ {0} /\ Cap \in Nat \ {0}

Months == 1 .. Len(Firsts) - 1
LastDay == Firsts[Len(Firsts)] - 1
Days == 0 .. LastDay
NoDay == -2     \* no UNTIL; -1 is the day before the first

\* A rule that has no COUNT has count 0, one without BYMONTHDAY has monthday 0.
RRules ==
    [freq : {"DAILY", "WEEKLY", "MONTHLY", "YEARLY"}, interval : Nat \ {0},
     count : Nat, until : Days \cup {-1, NoDay}, byday : SUBSET (0 .. WeekLen - 1),
     monthday : Nat]

Week(d) == d \div WeekLen
DayOfWeek(d) == d % WeekLen
Month(d) == CHOOSE m \in Months : d \in Firsts[m] .. Firsts[m + 1] - 1
DayOfMonth(d) == d - Firsts[Month(d)] + 1
MonthLen(m) == Firsts[m + 1] - Firsts[m]

-----------------------------------------------------------------------------
(* The expander.                                                           *)

\* Mutant of WeeklyTimes: the weeks are counted from the seed, not its Sunday.
WeeklyFromSeed(rule, seed) ==
    LET targets == IF rule.byday = {} THEN {DayOfWeek(seed)} ELSE rule.byday
    IN  {d \in {seed + i * rule.interval * WeekLen + w : i \in 0 .. Week(LastDay), w \in targets} :
            d \in Days /\ d >= seed}

\* From the Sunday of the seed's week on, each named weekday of each interval.
WeeklyTimes(rule, seed) ==
    LET sunday == seed - DayOfWeek(seed)
        targets == IF rule.byday = {} THEN {DayOfWeek(seed)} ELSE rule.byday
    IN  {d \in {sunday + i * rule.interval * WeekLen + w : i \in 0 .. Week(LastDay), w \in targets} :
            d \in Days /\ d >= seed}

\* The same day of every step-th month, also one before the seed's day.
MonthlyTimes(seed, step, day) ==
    {Firsts[m] + day - 1 : m \in {n \in Months :
        n >= Month(seed) /\ (n - Month(seed)) % step = 0 /\ day <= MonthLen(n)}}

Candidates(rule, seed) ==
    CASE rule.freq = "DAILY" -> {d \in Days : d >= seed /\ (d - seed) % rule.interval = 0}
      [] rule.freq = "WEEKLY" -> WeeklyTimes(rule, seed)
      [] rule.freq = "MONTHLY" ->
            MonthlyTimes(seed, rule.interval,
                         IF rule.monthday # 0 THEN rule.monthday ELSE DayOfMonth(seed))
      [] OTHER -> MonthlyTimes(seed, rule.interval * YearMonths, DayOfMonth(seed))

Rank(d, S) == Cardinality({c \in S : c < d})

\* The breaks of the loop hold for every later candidate once they hold.
ExpandRRule(rule, seed, from, to) ==
    LET times == Candidates(rule, seed)
    IN  {t \in times :
            /\ from <= t /\ t < to
            /\ rule.until # NoDay => t <= rule.until
            /\ rule.count # 0 => Rank(t, times) < rule.count
            /\ Rank(t, times) < Cap}

-----------------------------------------------------------------------------
(* The recurrence set of RFC 5545, day by day.  It counts weeks from the   *)
(* rule's WKST, which the form never writes: from Monday, by default.  Of  *)
(* a start that does not match its own rule it leaves the meaning open;    *)
(* here the rule alone decides, as in the expander.                        *)

MondayWeek(d) == (d + WeekLen - 1) \div WeekLen

Fits(rule, seed, d) ==
    CASE rule.freq = "DAILY" -> (d - seed) % rule.interval = 0
      [] rule.freq = "WEEKLY" ->
            /\ (MondayWeek(d) - MondayWeek(seed)) % rule.interval = 0
            /\ DayOfWeek(d) \in IF rule.byday = {} THEN {DayOfWeek(seed)} ELSE rule.byday
      [] rule.freq = "MONTHLY" ->
            /\ (Month(d) - Month(seed)) % rule.interval = 0
            /\ DayOfMonth(d) = IF rule.monthday # 0 THEN rule.monthday ELSE DayOfMonth(seed)
      [] OTHER ->
            /\ (Month(d) - Month(seed)) % (rule.interval * YearMonths) = 0
            /\ DayOfMonth(d) = DayOfMonth(seed)

Occurrences(rule, seed) ==
    LET fitting == {d \in Days : d >= seed /\ Fits(rule, seed, d)}
    IN  {d \in fitting :
            /\ rule.until # NoDay => d <= rule.until
            /\ rule.count # 0 => Rank(d, fitting) < rule.count}

(***************************************************************************)
(* Where the expander means the same days: not for a monthly rule whose    *)
(* day lies before the start's, and not for a rule of every second or      *)
(* later week that has a Sunday and another day, its start's included.     *)
(***************************************************************************)
Tuned(rule, seed) ==
    LET weekdays == rule.byday \cup {DayOfWeek(seed)}
    IN  /\ rule.freq = "MONTHLY" => rule.monthday = 0 \/ rule.monthday >= DayOfMonth(seed)
        /\ rule.freq = "WEEKLY" /\ rule.interval > 1 => (0 \in weekdays => weekdays = {0})

=============================================================================
