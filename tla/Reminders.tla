------------------------------ MODULE Reminders ------------------------------
(***************************************************************************)
(* Reminders of calendar events: the rows of calendar_event_reminders, the *)
(* ledger calendar_reminders_sent, the dispatcher that the cron of the     *)
(* email worker calls every minute, and the notifications on a user's      *)
(* device with their Snooze button.  What the form and the grids write to  *)
(* events and rows happens here one statement at a time and in any order;  *)
(* EventSeries has the requests they come from.                            *)
(*                                                                         *)
(* A run of the dispatcher (dispatch-reminders/route.ts) lists what is due *)
(* once, hands one push for all of it to waitUntil and then stamps the     *)
(* ledger row by row.  Nothing claims a row: a run that starts while       *)
(* another is stamping lists the same rows, and a snooze may arrive while  *)
(* a run still has the row to stamp.  One user is modelled; the loop over  *)
(* users runs the same steps for one after the other.                      *)
(***************************************************************************)
EXTENDS Integers, Sequences, SequencesExt

CONSTANTS
    Events,     \* ids of self-authored events
    Offsets,    \* minutes_before, in units of the clock
    Default,    \* DEFAULT_REMINDER_MINUTES_BEFORE
    Starts,     \* times an event may be given
    Runs,       \* dispatcher runs that can be alive at the same time
    Band,       \* LOOKBACK_SECS
    Limit,      \* the LIMIT of listDueReminders, 200 in the code
    SnoozeFor,  \* snooze_for_minutes
    MaxTime,    \* bound on the clock
    MaxSnoozes, \* bound on the snoozes
    MaxSaves,   \* bound on the statements of forms and grids
    MaxMishaps  \* bound on the failures of D1 and of workers

ASSUME OffsetsAssumption == Offsets \subseteq Nat /\ Default \in Offsets
ASSUME StartsAssumption == Starts \subseteq Nat
ASSUME FiniteAssumption == IsFiniteSet(Events) /\ IsFiniteSet(Offsets) /\ IsFiniteSet(Runs)
ASSUME BoundsAssumption ==
    /\ Band \in Nat /\ Limit \in Nat \ {0} /\ SnoozeFor \in Nat \ {0}
    /\ MaxTime \in Nat /\ MaxSnoozes \in Nat
    /\ MaxSaves \in Nat /\ MaxMishaps \in Nat

Keys == Events \X Offsets
Time == 0 .. MaxTime
Never == -1     \* SQL NULL, or no row, in a column of times

VARIABLES
    clock,
    live,       \* calendar_events: the events that exist
    starts,     \* calendar_events.starts_at
    rows,       \* calendar_event_reminders
    sentAt,     \* calendar_reminders_sent.sent_at; Never when there is no row
    snoozed,    \* calendar_reminders_sent.snoozed_until
    devices,    \* has the user a row in push_subscriptions
    pc,         \* per run of the dispatcher: where it is
    at,         \*   its nowSecs
    todo,       \*   the rows it has listed and not stamped
    push,       \*   the rows of the push it left to waitUntil
    shown       \* notifications with a Snooze button on the device

(***************************************************************************)
(* History: what happened, for the properties; no action reads it except   *)
(* for the bounds.                                                         *)
(***************************************************************************)
VARIABLES
    pushed,     \* per row: pushes that reached the device
    taken,      \* per row: snoozes the route accepted
    excused,    \* per row: listings during another's, and stamps that failed
    promise,    \* per row: target of the last snooze, until it is listed
    raced,      \* rows snoozed while a run still had them to stamp
    looked,     \* rows a run has looked at, in their present form and the band
    passed,     \* rows left over by the LIMIT, or listed by a run that broke
    saves, mishaps

eventVars == <<live, starts, rows>>
ledgerVars == <<sentAt, snoozed>>
runVars == <<pc, at, todo, push>>
historyVars == <<pushed, taken, excused, promise, raced, looked, passed, saves, mishaps>>
remindersVars == <<clock, live, starts, rows, sentAt, snoozed, devices, pc, at, todo, push,
          shown, pushed, taken, excused, promise, raced, looked, passed, saves, mishaps>>

\* The events have been created and seeded.
RemindersInit ==
    /\ clock = 0
    /\ live = Events
    /\ rows = Events \X {Default}
    /\ starts \in [Events -> Starts]
    /\ sentAt = [k \in Keys |-> Never]
    /\ snoozed = [k \in Keys |-> Never]
    /\ devices \in BOOLEAN
    /\ pc = [r \in Runs |-> "idle"]
    /\ at = [r \in Runs |-> 0]
    /\ todo = [r \in Runs |-> <<>>]
    /\ push = [r \in Runs |-> {}]
    /\ shown = {}
    /\ pushed = [k \in Keys |-> 0]
    /\ taken = [k \in Keys |-> 0]
    /\ excused = [k \in Keys |-> 0]
    /\ promise = [k \in Keys |-> Never]
    /\ raced = {} /\ looked = {} /\ passed = {}
    /\ saves = 0 /\ mishaps = 0

Of(e) == {e} \X Offsets
Fire(k) == starts[k[1]] - k[2]
InBand(t, n) == n - Band <= t /\ t <= n + Band
Holds(r, k) == \E i \in DOMAIN todo[r] : todo[r][i] = k

-----------------------------------------------------------------------------
(* The dispatcher.                                                         *)

\* Mutant of Due: a row that was never sent is due from its time on only.
DueNotBefore(n) ==
    {k \in rows :
        \/ sentAt[k] = Never /\ Fire(k) <= n /\ InBand(Fire(k), n)
        \/ snoozed[k] # Never /\ snoozed[k] > sentAt[k] /\ InBand(snoozed[k], n)}

\* The WHERE of listDueReminders.  Deleting an event cascades to its rows,
\* and nothing cancels a self-authored one.
Due(n) ==
    {k \in rows :
        \/ sentAt[k] = Never /\ InBand(Fire(k), n)
        \/ snoozed[k] # Never /\ snoozed[k] > sentAt[k] /\ InBand(snoozed[k], n)}

\* The ORDER BY: rows that fire at the same time come in any order.
Listings(n) ==
    {s \in SetToSeqs(Due(n)) :
        \A i, j \in DOMAIN s : i < j => Fire(s[i]) <= Fire(s[j])}

List(r) ==
    /\ pc[r] = "idle" /\ push[r] = {}
    /\ \E s \in Listings(clock) :
          LET batch == SubSeq(s, 1, IF Len(s) < Limit THEN Len(s) ELSE Limit)
              held == {k \in Keys : \E q \in Runs \ {r} : Holds(q, k)}
          IN  /\ todo' = [todo EXCEPT ![r] = batch]
              /\ pc' = [pc EXCEPT ![r] = IF s = <<>> THEN "idle" ELSE "subs"]
              /\ at' = [at EXCEPT ![r] = IF s = <<>> THEN 0 ELSE clock]
              /\ passed' = passed \cup (ToSet(s) \ ToSet(batch))
              /\ excused' = [k \in Keys |-> excused[k] +
                    IF k \in ToSet(batch) \cap held THEN 1 ELSE 0]
              /\ promise' = [k \in Keys |->
                    IF k \in ToSet(batch) THEN Never ELSE promise[k]]
    /\ raced' = {k \in raced : promise'[k] # Never}
    /\ looked' = looked \cup {k \in rows : InBand(Fire(k), clock)}
    /\ UNCHANGED <<clock, eventVars, ledgerVars, devices, push, shown, pushed, taken,
                   saves, mishaps>>

\* listSubscriptionsForUser has answered: without a device the rows are only
\* stamped, otherwise one push for all of them is left to waitUntil.
HandOver(r) ==
    /\ pc[r] = "subs"
    /\ pc' = [pc EXCEPT ![r] = "stamp"]
    /\ push' = [push EXCEPT ![r] = IF devices THEN ToSet(todo[r]) ELSE {}]
    /\ UNCHANGED <<clock, eventVars, ledgerVars, devices, at, todo, shown, historyVars>>

\* Mutant of Stamp: a row on the ledger is left as it is.
StampOnce(r) ==
    /\ pc[r] = "stamp"
    /\ LET k == Head(todo[r]) IN
          /\ sentAt' = [sentAt EXCEPT ![k] = IF @ = Never THEN at[r] ELSE @]
          /\ todo' = [todo EXCEPT ![r] = Tail(@)]
          /\ pc' = [pc EXCEPT ![r] = IF Len(todo[r]) = 1 THEN "idle" ELSE "stamp"]
          /\ at' = IF Len(todo[r]) = 1 THEN [at EXCEPT ![r] = 0] ELSE at
    /\ UNCHANGED <<clock, eventVars, snoozed, devices, push, shown, historyVars>>

\* markReminderSent: an insert, or an update of a snoozed row only.
Stamp(r) ==
    /\ pc[r] = "stamp"
    /\ LET k == Head(todo[r]) IN
          /\ IF sentAt[k] = Never \/ snoozed[k] # Never
             THEN /\ sentAt' = [sentAt EXCEPT ![k] = at[r]]
                  /\ snoozed' = [snoozed EXCEPT ![k] = Never]
             ELSE UNCHANGED ledgerVars
          /\ todo' = [todo EXCEPT ![r] = Tail(@)]
          /\ pc' = [pc EXCEPT ![r] = IF Len(todo[r]) = 1 THEN "idle" ELSE "stamp"]
          /\ at' = IF Len(todo[r]) = 1 THEN [at EXCEPT ![r] = 0] ELSE at
    /\ UNCHANGED <<clock, eventVars, devices, push, shown, historyVars>>

\* A database call throws, or the worker is killed with its push in flight.
Breaks(r) ==
    /\ pc[r] # "idle" /\ mishaps < MaxMishaps
    /\ pc' = [pc EXCEPT ![r] = "idle"]
    /\ todo' = [todo EXCEPT ![r] = <<>>]
    /\ at' = [at EXCEPT ![r] = 0]
    /\ push' \in {push, [push EXCEPT ![r] = {}]}
    /\ excused' = [k \in Keys |-> excused[k] + IF Holds(r, k) THEN 1 ELSE 0]
    /\ passed' = passed \cup ToSet(todo[r])
    /\ mishaps' = mishaps + 1
    /\ UNCHANGED <<clock, eventVars, ledgerVars, devices, shown, pushed, taken,
                   promise, raced, looked, saves>>

\* The push service delivers.  One reminder is shown with a Snooze button and
\* replaces an older one of its row; several are shown as one without.
Deliver(r) ==
    /\ push[r] # {}
    /\ push' = [push EXCEPT ![r] = {}]
    /\ pushed' = [k \in Keys |-> pushed[k] + IF k \in push[r] THEN 1 ELSE 0]
    /\ shown' = IF \E k \in Keys : push[r] = {k} THEN shown \cup push[r] ELSE shown
    /\ UNCHANGED <<clock, eventVars, ledgerVars, devices, pc, at, todo, taken, excused,
                   promise, raced, looked, passed, saves, mishaps>>

\* The push service fails, or answers 404 or 410: the subscription is pruned.
Undelivered(r) ==
    /\ push[r] # {}
    /\ devices' \in {devices, FALSE}
    /\ push' = [push EXCEPT ![r] = {}]
    /\ UNCHANGED <<clock, eventVars, ledgerVars, pc, at, todo, shown, historyVars>>

Tick ==
    /\ clock < MaxTime
    /\ clock' = clock + 1
    /\ UNCHANGED <<eventVars, ledgerVars, devices, runVars, shown, historyVars>>

-----------------------------------------------------------------------------
(* The device.                                                             *)

\* Mutant of SnoozeReminder: a row that is on the ledger keeps its target.
SnoozeOnce(k, until) ==
    /\ sentAt' = [sentAt EXCEPT ![k] = IF @ = Never THEN clock ELSE @]
    /\ snoozed' = [snoozed EXCEPT ![k] = IF sentAt[k] = Never THEN until ELSE @]

\* The upsert: sent_at is written for a row not yet there.
SnoozeReminder(k, until) ==
    /\ sentAt' = [sentAt EXCEPT ![k] = IF @ = Never THEN clock ELSE @]
    /\ snoozed' = [snoozed EXCEPT ![k] = until]

\* The Snooze button: the notification closes and the route finds the event.
Snooze(k) ==
    /\ k \in shown /\ FoldFunction(+, 0, taken) < MaxSnoozes
    /\ shown' = shown \ {k}
    /\ k[1] \in live
    /\ SnoozeReminder(k, clock + SnoozeFor)
    /\ taken' = [taken EXCEPT ![k] = @ + 1]
    /\ promise' = [promise EXCEPT ![k] = clock + SnoozeFor]
    /\ raced' = IF \E r \in Runs : Holds(r, k) THEN raced \cup {k} ELSE raced \ {k}
    /\ UNCHANGED <<clock, eventVars, devices, runVars, pushed, excused, looked, passed,
                   saves, mishaps>>

\* The notification is opened or swiped away, or its snooze is answered 404
\* because the event is gone, or fails.
Dismiss(k) ==
    /\ k \in shown
    /\ shown' = shown \ {k}
    /\ UNCHANGED <<clock, eventVars, ledgerVars, devices, runVars, historyVars>>

Subscribe ==
    /\ ~devices
    /\ devices' = TRUE
    /\ UNCHANGED <<clock, eventVars, ledgerVars, runVars, shown, historyVars>>

-----------------------------------------------------------------------------
(* What the form and the grids write.                                      *)

\* The rows in S take a new form, or go: what a run has seen of them is void.
Changed(S) == looked' = looked \ S
Write ==
    /\ saves < MaxSaves
    /\ saves' = saves + 1
    /\ UNCHANGED <<clock, ledgerVars, devices, runVars, shown, pushed, taken, excused,
                   promise, raced, passed, mishaps>>

\* updateSelfEvent with a new starts_at: the ledger is not looked at.
Move(e, t) ==
    /\ Write
    /\ e \in live /\ starts[e] # t
    /\ starts' = [starts EXCEPT ![e] = t]
    /\ Changed(Of(e))
    /\ UNCHANGED <<live, rows>>

\* setRemindersForEvent, the DELETE and one INSERT.
WipeRows(e) ==
    /\ Write
    /\ e \in live
    /\ rows' = rows \ Of(e)
    /\ Changed(Of(e))
    /\ UNCHANGED <<live, starts>>

InsertRow(k) ==
    /\ Write
    /\ k[1] \in live /\ k \notin rows
    /\ rows' = rows \cup {k}
    /\ Changed({k})
    /\ UNCHANGED <<live, starts>>

\* deleteSelfEvent.  The rows go with the event, the ledger has no foreign key.
Delete(e) ==
    /\ Write
    /\ e \in live
    /\ live' = live \ {e}
    /\ rows' = rows \ Of(e)
    /\ Changed(Of(e))
    /\ UNCHANGED starts

-----------------------------------------------------------------------------

Dispatch(r) == List(r) \/ HandOver(r) \/ Stamp(r) \/ Deliver(r) \/ Undelivered(r) \/ Breaks(r)

RemindersNext ==
    \/ Tick
    \/ \E r \in Runs : Dispatch(r)
    \/ \E k \in Keys : Snooze(k) \/ Dismiss(k) \/ InsertRow(k)
    \/ Subscribe
    \/ \E e \in Events :
          WipeRows(e) \/ Delete(e) \/ \E t \in Starts : Move(e, t)

RemindersSpec == RemindersInit /\ [][RemindersNext]_remindersVars

-----------------------------------------------------------------------------

RemindersTypeOK ==
    /\ clock \in Time
    /\ live \subseteq Events /\ rows \subseteq live \X Offsets /\ shown \subseteq Keys
    /\ starts \in [Events -> Starts]
    /\ sentAt \in [Keys -> Time \cup {Never}]
    /\ snoozed \in [Keys -> (SnoozeFor .. MaxTime + SnoozeFor) \cup {Never}]
    /\ devices \in BOOLEAN
    /\ pc \in [Runs -> {"idle", "subs", "stamp"}] /\ at \in [Runs -> Time]
    /\ todo \in [Runs -> Seq(Keys)] /\ push \in [Runs -> SUBSET Keys]
    /\ \A r \in Runs : todo[r] = <<>> <=> pc[r] = "idle"
    /\ {pushed, taken, excused} \subseteq [Keys -> Nat]
    /\ promise \in [Keys -> (SnoozeFor .. MaxTime + SnoozeFor) \cup {Never}]

(***************************************************************************)
(* A reminder reaches the device once, once more for each snooze, and      *)
(* beyond that only where a run listed it while another still had it to    *)
(* stamp, or a run that had listed it broke off.  The push goes out before *)
(* the stamp, so neither the ledger's key nor the band prevents those.     *)
(***************************************************************************)
PushesAccounted ==
    \A k \in Keys :
        pushed[k] + Cardinality({r \in Runs : k \in push[r]})
            <= 1 + taken[k] + excused[k]

(***************************************************************************)
(* A snooze that was accepted stays on the ledger until a run lists the    *)
(* row again, unless a run had the row to stamp when the button was        *)
(* pressed: its stamp clears the target (markReminderSent).                *)
(***************************************************************************)
SnoozeKept ==
    \A k \in Keys : promise[k] # Never /\ k \notin raced => snoozed[k] = promise[k]

(***************************************************************************)
(* If a run looked while a reminder was within the band and its row there  *)
(* in its present form, then the row has been listed, or was left over by  *)
(* the LIMIT or by a run that broke off: runs that are no further apart    *)
(* than the band is wide miss nothing.                                     *)
(***************************************************************************)
SeenInBand ==
    \A k \in rows \cap looked : sentAt[k] = Never =>
        k \in passed \/ \E r \in Runs : Holds(r, k)
=============================================================================
