----------------------------- MODULE EventSeries -----------------------------
(***************************************************************************)
(* Self-authored events of one calendar: the form that creates and edits   *)
(* them in three requests, dragging and resizing in the grids, deleting,   *)
(* the override of one instance and the split of a series, and what        *)
(* listCalendarEvents shows of them in a window.                           *)
(*                                                                         *)
(* The grids and the form work on the instances listCalendarEvents         *)
(* returns, which carry the id of their series and their own start: what   *)
(* is done to a later instance is done to the series.  A form is open for  *)
(* long, and a split reads the series before its batch, so both write      *)
(* what may have changed meanwhile.                                        *)
(***************************************************************************)
EXTENDS Recurrence

CONSTANTS
    Ids,        \* ids of calendar_events
    Tabs,       \* forms and split requests that can be open at the same time
    Chips,      \* offsets of reminders
    DefaultChip, \* DEFAULT_REMINDER_MINUTES_BEFORE
    StartDays,  \* days the user types or drags to
    Durations,  \* lengths the user gives
    Customs,    \* rules built in the form's editor
    Views,      \* bounds of the windows that are listed
    MaxRequests, \* bound on the requests sent
    MaxLapses   \* bound on the requests that fail

Bare(freq) == [freq |-> freq, interval |-> 1, count |-> 0, until |-> NoDay,
               byday |-> {}, monthday |-> 0]
NoRule == Bare("NONE")  \* rrule IS NULL

ASSUME ChipsAssumption == DefaultChip \in Chips
ASSUME InputsAssumption ==
    StartDays \subseteq Days /\ Durations \subseteq Nat \ {0} /\ Customs \subseteq RRules
    /\ Views \subseteq Nat
ASSUME SeriesBounds == MaxRequests \in Nat /\ MaxLapses \in Nat

NoId == "no id"
AsIs == <<>>            \* no row in calendar_event_overrides
Cancelled == <<NoDay, NoDay>>
NoForm == [pc |-> "closed"]

VARIABLES
    events,     \* calendar_events: the events that exist
    start,      \*   starts_at
    dur,        \*   ends_at - starts_at
    rule,       \*   rrule
    over,       \* calendar_event_overrides: start and end of a moved instance
    chips,      \* calendar_event_reminders
    tab,        \* the form or the split request of a tab
    requests, lapses

rowVars == <<events, start, dur, rule, over, chips>>
seriesVars == <<events, start, dur, rule, over, chips, tab, requests, lapses>>

SeriesInit ==
    /\ events = {}
    /\ start = [e \in Ids |-> 0]
    /\ dur = [e \in Ids |-> 0]
    /\ rule = [e \in Ids |-> NoRule]
    /\ over = [e \in Ids |-> [d \in Days |-> AsIs]]
    /\ chips = [e \in Ids |-> {}]
    /\ tab = [t \in Tabs |-> NoForm]
    /\ requests = 0 /\ lapses = 0

-----------------------------------------------------------------------------
(* Reading: the instances of a window.                                     *)

\* The override of the instance of day d, merged into it.
Resolved(e, d) ==
    IF over[e][d] = AsIs THEN <<d, d + dur[e]>> ELSE over[e][d]

RunsIn(i, from, to) == i[1] < to /\ i[2] > from

\* Seeds of a recurring row that expandRecurrenceForRows looks at.
Seeds(e, from, to) ==
    IF start[e] < to THEN ExpandRRule(rule[e], start[e], from, to + dur[e]) ELSE {}

Instances(e, from, to) ==
    IF rule[e] = NoRule
    THEN {i \in {<<start[e], start[e] + dur[e]>>} : RunsIn(i, from, to)}
    ELSE {i \in {Resolved(e, d) : d \in {s \in Seeds(e, from, to) : over[e][s] # Cancelled}} :
            RunsIn(i, from, to)}

Shown(e) == Instances(e, 0, Firsts[Len(Firsts)])

-----------------------------------------------------------------------------
(* The rules the form writes.                                              *)

Presets == {"NONE", "DAILY", "WEEKLY", "MONTHLY_DAY", "YEARLY", "CUSTOM"}
Custom(r) == [preset |-> "CUSTOM", rule |-> r]
FormChoices == [preset : Presets \ {"CUSTOM"}, rule : {NoRule}] \cup {Custom(r) : r \in Customs}

\* buildRRuleFromPreset
Preset(preset, s) ==
    CASE preset = "NONE" -> NoRule
      [] preset = "WEEKLY" -> [Bare("WEEKLY") EXCEPT !.byday = {DayOfWeek(s)}]
      [] preset = "MONTHLY_DAY" -> [Bare("MONTHLY") EXCEPT !.monthday = DayOfMonth(s)]
      [] OTHER -> Bare(preset)

\* inferRepeatPreset: a rule that no preset writes is kept as it was read.
Inferred(r) ==
    LET fits == {p \in Presets \ {"CUSTOM"} : \E d \in Days : Preset(p, d) = r}
    IN  IF fits = {} THEN Custom(r) ELSE [preset |-> CHOOSE p \in fits : TRUE, rule |-> NoRule]

\* submit: a custom rule may not end before the start; the editor writes the
\* day of a monthly rule that has none.
Submittable(choice, s) == choice.rule.until = NoDay \/ choice.rule.until >= s
BuildRRule(choice, s) ==
    IF choice.preset # "CUSTOM" THEN Preset(choice.preset, s)
    ELSE IF choice.rule.freq = "MONTHLY" /\ choice.rule.monthday = 0
         THEN [choice.rule EXCEPT !.monthday = DayOfMonth(s)]
         ELSE choice.rule

-----------------------------------------------------------------------------
(* The form.                                                               *)

Save == requests < MaxRequests /\ requests' = requests + 1
Fails == lapses < MaxLapses /\ lapses' = lapses + 1
Goes(t, next) == tab' = [tab EXCEPT ![t] = next]

OpenNew(t) ==
    /\ tab[t] = NoForm /\ requests < MaxRequests
    /\ Goes(t, [pc |-> "form", id |-> NoId, at |-> <<0, 0>>, choice |-> Inferred(NoRule),
                chips |-> {}, loaded |-> FALSE])
    /\ UNCHANGED <<rowVars, requests, lapses>>

\* The form takes its times from the instance and its rule from the series.
Open(t, e) ==
    /\ tab[t] = NoForm /\ requests < MaxRequests
    /\ e \in events
    /\ \E i \in Shown(e) :
          Goes(t, [pc |-> "form", id |-> e, at |-> i, choice |-> Inferred(rule[e]),
                   chips |-> {}, loaded |-> FALSE])
    /\ UNCHANGED <<rowVars, requests, lapses>>

\* The GET of the reminders is answered, now or never, and fills the form.
Load(t) ==
    /\ tab[t].pc = "form" /\ tab[t].id \in events /\ ~tab[t].loaded
    /\ Goes(t, [tab[t] EXCEPT !.chips = chips[tab[t].id], !.loaded = TRUE])
    /\ UNCHANGED <<rowVars, requests, lapses>>

Close(t) ==
    /\ tab[t].pc = "form"
    /\ Goes(t, NoForm)
    /\ UNCHANGED <<rowVars, requests, lapses>>

\* What the form holds at submit: times, rule and chips, kept or changed.
Typed(t) ==
    IF tab[t].pc # "form" THEN {}
    ELSE LET q == tab[t] IN
         {x \in [s : StartDays \cup {q.at[1]}, d : Durations \cup ({q.at[2] - q.at[1]} \ {0}),
                 choice : FormChoices \cup {q.choice}, chips : SUBSET Chips] :
             x.s + x.d \in Days /\ Submittable(x.choice, x.s)}

\* The requests that follow; "off" are the chips the user took off.
After(t, e, x) ==
    [pc |-> "rule", id |-> e, rule |-> BuildRRule(x.choice, x.s), chips |-> x.chips,
     off |-> tab[t].chips \ x.chips, puts |-> tab[t].id # NoId \/ x.chips # {}]

\* The POST: it carries no rule, and createSelfEvent seeds the default chip.
SubmitNew(t, e, x) ==
    /\ tab[t].id = NoId /\ Save
    /\ e \notin events /\ start[e] = 0 /\ dur[e] = 0
    /\ events' = events \cup {e}
    /\ start' = [start EXCEPT ![e] = x.s]
    /\ dur' = [dur EXCEPT ![e] = x.d]
    /\ chips' = [chips EXCEPT ![e] = {DefaultChip}]
    /\ Goes(t, After(t, e, x))
    /\ UNCHANGED <<rule, over, lapses>>

\* The first PATCH, of the times; on a 404 the form stays open with an error.
SubmitEdit(t, x) ==
    LET e == tab[t].id IN
    /\ e \in events /\ Save
    /\ start' = [start EXCEPT ![e] = x.s]
    /\ dur' = [dur EXCEPT ![e] = x.d]
    /\ Goes(t, After(t, e, x))
    /\ UNCHANGED <<events, rule, over, chips, lapses>>

\* The second PATCH, of the rule: a failure is passed over.
SaveRule(t) ==
    LET e == tab[t].id IN
    /\ tab[t].pc = "rule"
    /\ \/ e \in events /\ rule' = [rule EXCEPT ![e] = tab[t].rule] /\ UNCHANGED lapses
       \/ e \notin events /\ UNCHANGED <<rule, lapses>>
       \/ Fails /\ UNCHANGED rule
    /\ Goes(t, IF tab[t].puts THEN [tab[t] EXCEPT !.pc = "chips"] ELSE NoForm)
    /\ UNCHANGED <<events, start, dur, over, chips, requests>>

\* The PUT of the reminders, with what the form has.
SaveChips(t) ==
    LET e == tab[t].id IN
    /\ tab[t].pc = "chips"
    /\ \/ e \in events /\ chips' = [chips EXCEPT ![e] = tab[t].chips] /\ UNCHANGED lapses
       \/ e \notin events /\ UNCHANGED <<chips, lapses>>
       \/ Fails /\ UNCHANGED chips
    /\ Goes(t, NoForm)
    /\ UNCHANGED <<events, start, dur, rule, over, requests>>

-----------------------------------------------------------------------------
(* The grids.                                                              *)

\* Dragging an instance moves the start of its series.
Drag(e, i, s) ==
    /\ e \in events /\ i \in Shown(e) /\ Save
    /\ s # i[1] /\ s + (i[2] - i[1]) \in Days
    /\ start' = [start EXCEPT ![e] = s]
    /\ dur' = [dur EXCEPT ![e] = i[2] - i[1]]
    /\ UNCHANGED <<events, rule, over, chips, tab, lapses>>

\* Pulling the end of an instance ends the first one there.  A later day's
\* end is in range whatever the distance.
Resize(e, i, d) ==
    /\ e \in events /\ i \in Shown(e) /\ Save
    /\ i[1] + d \in Days /\ i[1] + d > start[e]
    /\ dur' = [dur EXCEPT ![e] = i[1] + d - start[e]]
    /\ UNCHANGED <<events, start, rule, over, chips, tab, lapses>>

\* The rows of overrides and reminders go with the event.
DeleteEvent(e) ==
    /\ e \in events /\ Save
    /\ events' = events \ {e}
    /\ over' = [over EXCEPT ![e] = [d \in Days |-> AsIs]]
    /\ chips' = [chips EXCEPT ![e] = {}]
    /\ UNCHANGED <<start, dur, rule, tab, lapses>>

-----------------------------------------------------------------------------
(* The routes for one instance and for the rest of a series.               *)

\* upsertEventOverride for the day an instance was listed with.
Override(e, i, s) ==
    /\ e \in events /\ i \in Shown(e) /\ Save
    /\ s + (i[2] - i[1]) \in Days
    /\ over' = [over EXCEPT ![e][i[1]] = <<s, s + (i[2] - i[1])>>]
    /\ UNCHANGED <<events, start, dur, rule, chips, tab, lapses>>

CancelOne(e, i) ==
    /\ e \in events /\ i \in Shown(e) /\ Save
    /\ over' = [over EXCEPT ![e][i[1]] = Cancelled]
    /\ UNCHANGED <<events, start, dur, rule, chips, tab, lapses>>

\* splitRecurrenceAt reads the series, its reminders with it.
SplitRead(t, e, i, s) ==
    /\ tab[t] = NoForm /\ Save
    /\ e \in events /\ rule[e] # NoRule /\ i \in Shown(e)
    /\ Goes(t, [pc |-> "split", id |-> e, day |-> i[1], at |-> s, start |-> start[e],
                rule |-> rule[e], dur |-> dur[e], chips |-> chips[e]])
    /\ UNCHANGED <<rowVars, lapses>>

\* Mutant of CappedRule: the instance of the split stays with the master.
CappedAtInstance(r, d) == [r EXCEPT !.count = 0, !.until = d]

\* stripTerminators, and appendOrReplaceUntil with the end of the day before.
CarryRule(r) == [r EXCEPT !.count = 0, !.until = NoDay]
CappedRule(r, d) == [r EXCEPT !.count = 0, !.until = d - 1]

\* The batch.  On an event deleted meanwhile its UPDATE and DELETE match
\* nothing, and the new series is inserted.
SplitBatch(t, e) ==
    LET q == tab[t] IN
    /\ q.pc = "split"
    /\ e \notin events /\ start[e] = 0 /\ dur[e] = 0
    /\ q.at + q.dur \in Days
    /\ events' = events \cup {e}
    /\ start' = [start EXCEPT ![e] = q.at]
    /\ dur' = [dur EXCEPT ![e] = q.dur]
    /\ rule' = [x \in Ids |->
          CASE x = e -> CarryRule(q.rule)
            [] x = q.id /\ x \in events -> CappedRule(q.rule, q.day)
            [] OTHER -> rule[x]]
    /\ chips' = [chips EXCEPT ![e] = q.chips]
    /\ over' = [over EXCEPT ![q.id] = [d \in Days |-> IF d >= q.day THEN AsIs ELSE @[d]]]
    /\ Goes(t, NoForm)
    /\ UNCHANGED <<requests, lapses>>

SplitFails(t) ==
    /\ tab[t].pc = "split" /\ Fails
    /\ Goes(t, NoForm)
    /\ UNCHANGED <<rowVars, requests>>

-----------------------------------------------------------------------------

SeriesNext ==
    \/ \E t \in Tabs :
          \/ OpenNew(t) \/ Load(t) \/ Close(t) \/ SaveRule(t) \/ SaveChips(t) \/ SplitFails(t)
          \/ \E e \in Ids :
                \/ Open(t, e) \/ SplitBatch(t, e)
                \/ \E i \in Shown(e) : \E s \in StartDays \cup {i[1]} : SplitRead(t, e, i, s)
          \/ \E x \in Typed(t) : SubmitEdit(t, x) \/ \E e \in Ids : SubmitNew(t, e, x)
    \/ \E e \in events :
          \/ DeleteEvent(e)
          \/ \E i \in Shown(e) :
                \/ CancelOne(e, i)
                \/ \E s \in StartDays : Drag(e, i, s) \/ Override(e, i, s)
                \/ \E d \in Durations : Resize(e, i, d)

SeriesSpec == SeriesInit /\ [][SeriesNext]_seriesVars

-----------------------------------------------------------------------------

SeriesTypeOK ==
    /\ events \subseteq Ids
    /\ start \in [Ids -> Days] /\ dur \in [Ids -> Nat] /\ \A e \in events : dur[e] > 0
    /\ \A e \in Ids : rule[e] = NoRule \/ rule[e] \in RRules
    /\ \A e \in Ids, d \in Days : over[e][d] = AsIs \/ over[e][d] \in {Cancelled} \cup (Days \X Days)
    /\ chips \in [Ids -> SUBSET Chips]
    /\ \A t \in Tabs : tab[t].pc \in {"closed", "form", "rule", "chips", "split"}

FirstCap(S) == {d \in S : Rank(d, S) < Cap}

(***************************************************************************)
(* Whatever edits, drags and splits have made of a series, the instances   *)
(* without an override that a window [from, to) lists are the first Cap    *)
(* occurrences RFC 5545 gives its rule, those that start in the window:    *)
(* the padding, the early breaks and the COUNT that is counted from the    *)
(* seed agree with the definition, as long as the rule is in tune with     *)
(* its start.                                                              *)
(***************************************************************************)
InTune(e) == Tuned(rule[e], start[e])

ListsItsRule(e) ==
    \A from, to \in Views : from < to =>
        {d \in Seeds(e, from, to) : d < to}
            = {d \in FirstCap(Occurrences(rule[e], start[e])) : from <= d /\ d < to}

ListingFollowsRule ==
    \A e \in events : rule[e] # NoRule /\ InTune(e) => ListsItsRule(e)

(***************************************************************************)
(* The same of every rule: does not hold.  A drag can move a monthly       *)
(* series to a day after its own, and expandRRule then lists an instance   *)
(* before the start.  And it counts weeks from Sunday: of every second     *)
(* week, Sunday and Tuesday, it lists other days than the RFC, whose weeks *)
(* begin on Monday unless the rule says otherwise.                         *)
(***************************************************************************)
EveryListingFollowsRule ==
    \A e \in events : rule[e] # NoRule => ListsItsRule(e)

(***************************************************************************)
(* A split shows no day twice and loses none: if the series has no end of  *)
(* its own, is in tune and has not changed since it was read, then what    *)
(* was listed before the split is listed after it by exactly one of the    *)
(* two, except what was overridden from the split day on.                  *)
(***************************************************************************)
Endless(r) == r.count = 0 /\ r.until = NoDay
Fresh(q) ==
    /\ q.id \in events /\ rule[q.id] = q.rule /\ start[q.id] = q.start /\ dur[q.id] = q.dur
    /\ q.at = q.day /\ q.day \in Occurrences(q.rule, q.start)
Unaltered(e) == {d \in Occurrences(rule[e], start[e]) : over[e][d] = AsIs}

SplitLosesNothing ==
    [][\A t \in Tabs, e \in Ids, m \in Ids :
          SplitBatch(t, e) /\ tab[t].id = m /\ Fresh(tab[t]) /\ Endless(tab[t].rule) /\ InTune(m) =>
             /\ Unaltered(m) \subseteq Unaltered(m)' \cup Unaltered(e)'
             /\ Unaltered(m)' \cap Unaltered(e)' = {}]_seriesVars

(***************************************************************************)
(* What the calendar has is in every window it overlaps ("concrete         *)
(* instances overlapping [from, to)", expandRecurrenceForRows): does not   *)
(* hold.  The expansion starts at from, so an instance that began earlier  *)
(* and still runs, or one an override moved here from before, is missing.  *)
(***************************************************************************)
OverlapsAreListed ==
    \A e \in events : \A from, to \in Views : from < to =>
        {i \in Shown(e) : RunsIn(i, from, to)} \subseteq Instances(e, from, to)

(***************************************************************************)
(* A save removes no reminder but those its user took off the form ("the   *)
(* form still saves; on next open the chips will populate"): does not      *)
(* hold.  A form whose GET was not answered sends the empty list.          *)
(***************************************************************************)
OnlyTakenOff ==
    [][\A t \in Tabs, e \in Ids :
          SaveChips(t) /\ tab[t].id = e => chips[e] \ tab[t].off \subseteq chips'[e]]_seriesVars
=============================================================================
