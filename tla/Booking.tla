------------------------------- MODULE Booking -------------------------------
(***************************************************************************)
(* Booking, cancelling and rescheduling through a public link, and what    *)
(* each leaves in the bookings table, on the linked calendars, among the   *)
(* reminders and in the invitee's mailbox (app/p/api/book, booking.ts,     *)
(* booking-fulfill.ts).                                                    *)
(*                                                                         *)
(* A request is one invocation of a route.  It reads and writes several    *)
(* stores one after the other with no transaction around them, so requests *)
(* interleave at every await, and one that dies leaves the rest undone.    *)
(***************************************************************************)
EXTENDS SlotRules, FiniteSets

CONSTANTS
    Bookings,       \* rows of the bookings table
    Requests,       \* requests that may run at the same time
    Cals,           \* the calendars of the booking link
    OthersCals,     \* those of them that belong to a colleague of the host
    Grid,           \* start times within the opening hours
    Meetings,       \* per calendar: [start, end] of its other events
    NoTime,         \* not on the calendar, no reminder
    NoBooking,
    MaxMishaps,     \* bound on calendar, mail and database failures
    MaxEdits        \* bound on how often the host saves the booking link

ASSUME GridAssumption == Grid \subseteq Int /\ NoTime \notin Int
ASSUME CalsAssumption == OthersCals \subseteq Cals
ASSUME BookingsAssumption ==
    NoBooking \notin Bookings /\ IsFiniteSet(Bookings) /\ IsFiniteSet(Requests)
ASSUME BoundsAssumption == MaxMishaps \in Nat /\ MaxEdits \in Nat

VARIABLES
    row,        \* per booking: status and start
    entry,      \* per booking and calendar: where its event stands
    link,       \* per booking: calendars named in booking_calendar_events
    reminder,   \* per booking: the starts its unsent reminders are for
    told,       \* per booking: the last mail its invitee got
    tokens,     \* bookings whose invitee has the tokens to change them
    linked,     \* calendars the booking link has rows for
    saving,     \* calendars a save of the booking link has still to insert
    req,        \* per request: where it is
    crossed,    \* {b}: two requests about b ran at once; {b, d}: the checks of b and d missed each other
    mishaps, edits

stores == <<row, entry, link, reminder, told, tokens>>
settings == <<linked, saving, edits>>
vars == <<row, entry, link, reminder, told, tokens, linked, saving, req, crossed, mishaps, edits>>

IdleReq == [pc |-> "idle", bk |-> NoBooking, at |-> NoTime, todo |-> {}, cal |-> {}]

NoMail == [kind |-> "none", at |-> NoTime]
Invited(s) == [kind |-> "invited", at |-> s]
Cancelled == [kind |-> "cancelled", at |-> NoTime]

Times == Grid \cup {NoTime}

TypeOK ==
    /\ row \in [Bookings -> [status : {"free", "confirmed", "cancelled"}, start : Times]]
    /\ entry \in [Bookings -> [Cals -> Times]]
    /\ link \in [Bookings -> SUBSET Cals]
    /\ reminder \in [Bookings -> SUBSET Grid]
    /\ told \in [Bookings -> [kind : {"none", "invited", "cancelled"}, at : Times]]
    /\ tokens \subseteq Bookings
    /\ linked \subseteq Cals
    /\ saving \subseteq Cals
    /\ req \in [Requests ->
          [pc : {"idle", "insert", "write", "link", "remind",
                 "cancel", "delete", "clear", "regret",
                 "check", "move", "reremind", "retell", "rerow"},
           bk : Bookings \cup {NoBooking}, at : Times,
           todo : SUBSET Cals, cal : SUBSET Cals]]
    /\ crossed \subseteq SUBSET Bookings
    /\ mishaps \in 0 .. MaxMishaps
    /\ edits \in 0 .. MaxEdits

Init ==
    /\ row = [b \in Bookings |-> [status |-> "free", start |-> NoTime]]
    /\ entry = [b \in Bookings |-> [c \in Cals |-> NoTime]]
    /\ link = [b \in Bookings |-> {}]
    /\ reminder = [b \in Bookings |-> {}]
    /\ told = [b \in Bookings |-> NoMail]
    /\ tokens = {}
    /\ linked = Cals
    /\ saving = {}
    /\ req = [q \in Requests |-> IdleReq]
    /\ crossed = {}
    /\ mishaps = 0
    /\ edits = 0

Mishap ==
    /\ mishaps < MaxMishaps
    /\ mishaps' = mishaps + 1

Slot(s) == [start |-> s, end |-> s + Duration]
Confirmed == {b \in Bookings : row[b].status = "confirmed"}

\* Where events of bookings stand on a calendar.
Standing(c) == {entry[b][c] : b \in Bookings} \ {NoTime}

\* collectBusy: the events on the calendars, and the confirmed bookings.
Busy(cals) ==
    (UNION {Meetings[c] \cup {Slot(t) : t \in Standing(c)} : c \in cals})
    \cup {Slot(row[b].start) : b \in Confirmed}

\* isSlotAvailable over the calendars the request has read.
Available(s) == s \in Grid /\ Free(s, Busy(linked))

Goto(q, pc) == req' = [req EXCEPT ![q].pc = pc]
Done(q) == req' = [req EXCEPT ![q] = IdleReq]
At(q, pc) == req[q].pc = pc
Bk(q) == req[q].bk

-----------------------------------------------------------------------------
(* POST /p/api/book/<slug>                                                 *)

Claimed == {Bk(q) : q \in Requests}

\* Checked for a time that no row shows yet, and so what a check of b cannot see.
PastCheck == {q \in Requests : req[q].pc \in {"insert", "move", "reremind", "retell", "rerow"}}
Crossings(b) == {{b, Bk(q)} : q \in PastCheck}

\* Mutant of Check: the slot is not checked again, the page was fresh.
CheckTrusting(q, b, s) ==
    /\ At(q, "idle")
    /\ row[b].status = "free" /\ b \notin Claimed
    /\ req' = [req EXCEPT ![q] =
          [pc |-> "insert", bk |-> b, at |-> s, todo |-> linked, cal |-> {}]]
    /\ crossed' = crossed \cup Crossings(b)
    /\ UNCHANGED <<stores, settings, mishaps>>

Check(q, b, s) ==
    /\ At(q, "idle")
    /\ row[b].status = "free" /\ b \notin Claimed
    /\ Available(s)
    /\ req' = [req EXCEPT ![q] =
          [pc |-> "insert", bk |-> b, at |-> s, todo |-> linked, cal |-> {}]]
    /\ crossed' = crossed \cup Crossings(b)
    /\ UNCHANGED <<stores, settings, mishaps>>

\* createBooking
Insert(q) ==
    /\ At(q, "insert")
    /\ row' = [row EXCEPT ![Bk(q)] = [status |-> "confirmed", start |-> req[q].at]]
    /\ Goto(q, "write")
    /\ UNCHANGED <<entry, link, reminder, told, tokens, settings, crossed, mishaps>>

\* fulfillBooking: createSelfEvent or insertGoogleEvent on one calendar.
WriteEntry(q, c) ==
    /\ At(q, "write")
    /\ c \in req[q].todo
    /\ entry' = [entry EXCEPT ![Bk(q)][c] = req[q].at]
    /\ req' = [req EXCEPT ![q].pc = "link", ![q].todo = @ \ {c}, ![q].cal = {c}]
    /\ UNCHANGED <<row, link, reminder, told, tokens, settings, crossed, mishaps>>

\* Mutant of LinkEntry: the event is written but not recorded.
LinkEntryForgotten(q) ==
    /\ At(q, "link")
    /\ req' = [req EXCEPT ![q].pc = "write", ![q].cal = {}]
    /\ UNCHANGED <<stores, settings, crossed, mishaps>>

\* addBookingCalendarEvent; if it throws, the event stays without a row.
LinkEntry(q) ==
    /\ At(q, "link")
    /\ \/ link' = [link EXCEPT ![Bk(q)] = @ \cup req[q].cal] /\ UNCHANGED mishaps
       \/ Mishap /\ UNCHANGED link
    /\ req' = [req EXCEPT ![q].pc = "write", ![q].cal = {}]
    /\ UNCHANGED <<row, entry, reminder, told, tokens, settings, crossed>>

\* The confirmation carries both tokens; a failure to send it is logged.
Confirm(q) ==
    /\ At(q, "write")
    /\ req[q].todo = {}
    /\ \/ /\ told' = [told EXCEPT ![Bk(q)] = Invited(req[q].at)]
          /\ tokens' = tokens \cup {Bk(q)}
          /\ UNCHANGED mishaps
       \/ Mishap /\ UNCHANGED <<told, tokens>>
    /\ Goto(q, "remind")
    /\ UNCHANGED <<row, entry, link, reminder, settings, crossed>>

\* The reminders, and the answer, which carries the tokens too.
Remind(q) ==
    /\ At(q, "remind")
    /\ \/ reminder' = [reminder EXCEPT ![Bk(q)] = {req[q].at}] /\ UNCHANGED mishaps
       \/ Mishap /\ UNCHANGED reminder
    /\ tokens' = tokens \cup {Bk(q)}
    /\ Done(q)
    /\ UNCHANGED <<row, entry, link, told, settings, crossed>>

-----------------------------------------------------------------------------
(* POST /p/api/book/cancel                                                 *)

ReadToCancel(q, b) ==
    /\ At(q, "idle")
    /\ b \in tokens
    /\ row[b].status = "confirmed"
    /\ req' = [req EXCEPT ![q] = [IdleReq EXCEPT !.pc = "cancel", !.bk = b]]
    /\ crossed' = IF b \in Claimed THEN crossed \cup {{b}} ELSE crossed
    /\ UNCHANGED <<stores, settings, mishaps>>

\* cancelBooking, and the read of the booking's calendar events.
MarkCancelled(q) ==
    /\ At(q, "cancel")
    /\ row' = [row EXCEPT ![Bk(q)].status = "cancelled"]
    /\ req' = [req EXCEPT ![q].pc = "delete", ![q].todo = link[Bk(q)]]
    /\ UNCHANGED <<entry, link, reminder, told, tokens, settings, crossed, mishaps>>

\* deleteSelfEvent(hostUserId, ..) finds only the host's own events.
DeleteEntry(q, c) ==
    /\ At(q, "delete")
    /\ c \in req[q].todo
    /\ entry' = [entry EXCEPT ![Bk(q)][c] = IF c \in OthersCals THEN @ ELSE NoTime]
    /\ req' = [req EXCEPT ![q].todo = @ \ {c}]
    /\ UNCHANGED <<row, link, reminder, told, tokens, settings, crossed, mishaps>>

\* Mutant of ClearReminders: the reminders are left to the reminder cron.
ClearRemindersSkipped(q) ==
    /\ At(q, "delete")
    /\ req[q].todo = {}
    /\ Goto(q, "regret")
    /\ UNCHANGED <<stores, settings, crossed, mishaps>>

ClearReminders(q) ==
    /\ At(q, "delete")
    /\ req[q].todo = {}
    /\ reminder' = [reminder EXCEPT ![Bk(q)] = {}]
    /\ Goto(q, "regret")
    /\ UNCHANGED <<row, entry, link, told, tokens, settings, crossed, mishaps>>

TellCancelled(q) ==
    /\ At(q, "regret")
    /\ \/ told' = [told EXCEPT ![Bk(q)] = Cancelled] /\ UNCHANGED mishaps
       \/ Mishap /\ UNCHANGED told
    /\ Done(q)
    /\ UNCHANGED <<row, entry, link, reminder, tokens, settings, crossed>>

-----------------------------------------------------------------------------
(* POST /p/api/book/reschedule                                             *)

ReadToMove(q, b) ==
    /\ At(q, "idle")
    /\ b \in tokens
    /\ row[b].status = "confirmed"
    /\ req' = [req EXCEPT ![q] = [IdleReq EXCEPT !.pc = "check", !.bk = b]]
    /\ crossed' = IF b \in Claimed THEN crossed \cup {{b}} ELSE crossed
    /\ UNCHANGED <<stores, settings, mishaps>>

\* The booking itself is among the busy windows.
CheckMove(q, s) ==
    /\ At(q, "check")
    /\ Available(s)
    /\ req' = [req EXCEPT ![q] =
          [pc |-> "move", bk |-> Bk(q), at |-> s, todo |-> link[Bk(q)], cal |-> {}]]
    /\ crossed' = crossed \cup Crossings(Bk(q))
    /\ UNCHANGED <<stores, settings, mishaps>>

\* 409: the slot is taken.
RefuseMove(q) ==
    /\ At(q, "check")
    /\ \E s \in Grid : ~Available(s)
    /\ Done(q)
    /\ UNCHANGED <<stores, settings, crossed, mishaps>>

\* rescheduleBookingFulfillment: updateSelfEvent or patchGoogleEvent.
MoveEntry(q, c) ==
    /\ At(q, "move")
    /\ c \in req[q].todo
    /\ entry' = [entry EXCEPT ![Bk(q)][c] =
          IF c \in OthersCals \/ @ = NoTime THEN @ ELSE req[q].at]
    /\ req' = [req EXCEPT ![q].todo = @ \ {c}]
    /\ UNCHANGED <<row, link, reminder, told, tokens, settings, crossed, mishaps>>

Unremind(q) ==
    /\ At(q, "move")
    /\ req[q].todo = {}
    /\ reminder' = [reminder EXCEPT ![Bk(q)] = {}]
    /\ Goto(q, "reremind")
    /\ UNCHANGED <<row, entry, link, told, tokens, settings, crossed, mishaps>>

Reremind(q) ==
    /\ At(q, "reremind")
    /\ \/ reminder' = [reminder EXCEPT ![Bk(q)] = @ \cup {req[q].at}]
          /\ UNCHANGED mishaps
       \/ Mishap /\ UNCHANGED reminder
    /\ Goto(q, "retell")
    /\ UNCHANGED <<row, entry, link, told, tokens, settings, crossed>>

TellMoved(q) ==
    /\ At(q, "retell")
    /\ \/ told' = [told EXCEPT ![Bk(q)] = Invited(req[q].at)] /\ UNCHANGED mishaps
       \/ Mishap /\ UNCHANGED told
    /\ Goto(q, "rerow")
    /\ UNCHANGED <<row, entry, link, reminder, tokens, settings, crossed>>

\* Mutant of MoveRow: the booking is confirmed anew.
MoveRowConfirms(q) ==
    /\ At(q, "rerow")
    /\ row' = [row EXCEPT ![Bk(q)] = [status |-> "confirmed", start |-> req[q].at]]
    /\ Done(q)
    /\ UNCHANGED <<entry, link, reminder, told, tokens, settings, crossed, mishaps>>

\* rescheduleBookingTime, whatever the status of the row is by now.
MoveRow(q) ==
    /\ At(q, "rerow")
    /\ row' = [row EXCEPT ![Bk(q)].start = req[q].at]
    /\ Done(q)
    /\ UNCHANGED <<entry, link, reminder, told, tokens, settings, crossed, mishaps>>

-----------------------------------------------------------------------------
(* What goes wrong, and the host.                                          *)

\* A calendar write fails, which is logged, and the loop goes on.
EntryFails(q, c) ==
    /\ req[q].pc \in {"write", "delete", "move"}
    /\ c \in req[q].todo
    /\ Mishap
    /\ req' = [req EXCEPT ![q].todo = @ \ {c}]
    /\ UNCHANGED <<stores, settings, crossed>>

\* A database write throws, or the invocation is cut off.
Dies(q) ==
    /\ ~At(q, "idle")
    /\ Mishap
    /\ Done(q)
    /\ UNCHANGED <<stores, settings, crossed>>

\* setEventTypeCalendars deletes every row and inserts them one by one.
SaveLink ==
    /\ edits < MaxEdits
    /\ edits' = edits + 1
    /\ linked' = {}
    /\ saving' = Cals
    /\ UNCHANGED <<stores, req, crossed, mishaps>>

InsertCal(c) ==
    /\ c \in saving
    /\ linked' = linked \cup {c}
    /\ saving' = saving \ {c}
    /\ UNCHANGED <<stores, req, crossed, mishaps, edits>>

-----------------------------------------------------------------------------

Create(q) ==
    \/ \E b \in Bookings, s \in Grid : Check(q, b, s)
    \/ Insert(q)
    \/ \E c \in Cals : WriteEntry(q, c)
    \/ LinkEntry(q)
    \/ Confirm(q)
    \/ Remind(q)

Cancel(q) ==
    \/ \E b \in Bookings : ReadToCancel(q, b)
    \/ MarkCancelled(q)
    \/ \E c \in Cals : DeleteEntry(q, c)
    \/ ClearReminders(q)
    \/ TellCancelled(q)

Reschedule(q) ==
    \/ \E b \in Bookings : ReadToMove(q, b)
    \/ \E s \in Grid : CheckMove(q, s)
    \/ RefuseMove(q)
    \/ \E c \in Cals : MoveEntry(q, c)
    \/ Unremind(q)
    \/ Reremind(q)
    \/ TellMoved(q)
    \/ MoveRow(q)

Next ==
    \/ \E q \in Requests :
        \/ Create(q)
        \/ Cancel(q)
        \/ Reschedule(q)
        \/ \E c \in Cals : EntryFails(q, c)
        \/ Dies(q)
    \/ SaveLink
    \/ \E c \in Cals : InsertCal(c)

Spec == Init /\ [][Next]_vars

-----------------------------------------------------------------------------
(* What the booking routes promise.                                        *)

\* Smaller of the two buffers, the distance bookings keep.
Gap == IF BufferBefore < BufferAfter THEN BufferBefore ELSE BufferAfter
Near(s, t) == s < t + Duration + Gap /\ t < s + Duration + Gap

(***************************************************************************)
(* Two confirmed bookings are apart, and by the smaller of the two         *)
(* buffers, unless one was checked while the other had passed its check    *)
(* and was not in its row yet.                                             *)
(***************************************************************************)
BookingsApart ==
    \A b, d \in Confirmed :
        b # d /\ Near(row[b].start, row[d].start) => {b, d} \in crossed

Quiet(b) == \A q \in Requests : Bk(q) # b

\* Where a confirmed booking must be found; a calendar that was missing from
\* a half-saved link has no event of it.
MovedTogether(b) ==
    row[b].status = "confirmed" =>
        /\ \A c \in Cals \ OthersCals :
              entry[b][c] = row[b].start \/ (edits > 0 /\ entry[b][c] = NoTime)
        /\ reminder[b] = {row[b].start}
        /\ told[b] = Invited(row[b].start)

\* What must be left of a cancelled one.
GoneEverywhere(b) ==
    row[b].status = "cancelled" =>
        /\ \A c \in Cals \ OthersCals : entry[b][c] = NoTime
        /\ reminder[b] = {}
        /\ told[b] = Cancelled

(***************************************************************************)
(* Once the requests about a booking are through, and none of them failed  *)
(* or ran beside another, the row, the host's calendars, the reminders and *)
(* the invitee agree.                                                      *)
(***************************************************************************)
StoresAgree ==
    \A b \in Bookings :
        Quiet(b) /\ {b} \notin crossed /\ mishaps = 0 => MovedTogether(b) /\ GoneEverywhere(b)

(***************************************************************************)
(* A cancelled booking stays cancelled, whichever reschedule is under way. *)
(***************************************************************************)
CancelledIsFinal ==
    [][\A b \in Bookings :
          row[b].status = "cancelled" => row'[b].status = "cancelled"]_vars

\* On the calendar, but no row says so: no cancel or move will find it.
Orphans ==
    {p \in Bookings \X Cals : entry[p[1]][p[2]] # NoTime /\ p[2] \notin link[p[1]]}

(***************************************************************************)
(* An event that cancel and reschedule cannot find again is the mark of a  *)
(* mishap, or of a request that is about to record it.                     *)
(***************************************************************************)
OrphansByMishap ==
    Cardinality(Orphans) <= mishaps + Cardinality({q \in Requests : At(q, "link")})

-----------------------------------------------------------------------------
(* What comments and docs of the code claim and the code does not keep.    *)

(***************************************************************************)
(* booking-availability.ts calls isSlotAvailable a "Race-safe single-slot  *)
(* check used at booking commit".  So no two confirmed bookings overlap.   *)
(***************************************************************************)
NoDoubleBooking ==
    \A b1, b2 \in Confirmed : b1 # b2 =>
        ~Overlaps(row[b1].start, row[b1].start + Duration,
                  row[b2].start, row[b2].start + Duration)
=============================================================================
