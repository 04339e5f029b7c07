------------------------------ MODULE Invitations ------------------------------
(* Meeting invitations between the people this deployment serves. The organizer's *)
(* event is a calendar_events row with source 'self' and its list of attendees;   *)
(* an attendee's copy is a calendar_events row keyed by user and iCalendar UID,   *)
(* made when the attendee first opens the invitation. The two ends only talk by   *)
(* mail (REQUEST, CANCEL, REPLY), which may overtake other mail or never arrive.  *)
(* The METHOD of such a mail is what IcsMethod says the email worker reads of it.  *)
(* Every request of the web worker is a process that runs its awaits one by one.  *)
EXTENDS IcsMethod

CONSTANTS Users,       \* the people who read the mail of the invited addresses
          Addresses,   \* the invited addresses; each is a mailbox of this deployment
          Box,         \* the address whose mail a user reads
          Uids,        \* iCalendar UIDs the organizer's requests may draw or be given
          EmptyUid,    \* the empty string in place of one: not null, and yet no UID
          Answers,     \* PARTSTAT values an attendee may answer
          Requests,    \* requests of the web worker running at one time
          Organizer,   \* the user whose event it is
          MaxMails     \* bound: mails handed to the mail service

ASSUME NoneAssumption == None \notin Uids \cup Users \cup Answers \cup {Organizer}
ASSUME MethodAssumption == None \notin {"REQUEST", "CANCEL", "REPLY"}
ASSUME EmptyUidAssumption == EmptyUid \notin Uids \cup {None}
ASSUME BoxAssumption == Box \in [Users -> Addresses]
ASSUME OrganizerAssumption == Organizer \notin Users
ASSUME AnswersAssumption == "NEEDS-ACTION" \notin Answers \cup {None}
ASSUME MaxMailsAssumption == MaxMails \in Nat

VARIABLES
  stage,    \* the organizer's row: not yet created, "live", or deleted
  home,     \* whether the row has a mailbox_id; FALSE is the Personal calendar
  uid,      \* its ical_uid
  roster,   \* calendar_event_attendees: rsvp_status by address, None when not listed
  rsvp,     \* rsvp_status of the rows with source 'invite', by user and UID; None without a row
  dead,     \* the rows among them that are marked cancelled
  inbox,    \* the calendar mails stored in an invited mailbox
  returns,  \* the UIDs of the answers stored in the organizer's mailbox
  post,     \* invitations and cancellations still in the mail, with their addressee
  replies,  \* answers still in the mail to the organizer
  pc,       \* where a request stands
  hadHome,  \* the row a PUT or DELETE read when it began: its mailbox ...
  hadUid,   \* ... and its UID
  list,     \* the attendees a PUT was given, or a DELETE has listed
  who,      \* the user an attendee's request runs for
  card,     \* the UID of the invitation it is about
  say,      \* the answer it gives
  sent,     \* mails handed to the mail service
  minted,   \* UIDs drawn so far
  given,    \* history: the answers each address has mailed
  smooth,   \* history: no two saves of the event overlapped, failed or were cut short,
            \* and none replaced or cleared a UID
  owed      \* history: while smooth, listed addresses invited and told of no cancellation

event    == <<stage, home, uid, roster>>
mail     == <<inbox, returns, post, replies, sent>>
copies   == <<rsvp, dead>>
locals   == <<hadHome, hadUid, list, who, card, say>>
history  == <<given, smooth, owed>>
vars     == <<event, copies, mail, pc, locals, minted, history>>

Readers  == Users \cup {Organizer}
Keys     == Readers \X Uids
Invites  == [kind : {"REQUEST", "CANCEL"}, uid : Uids]
Posted   == [no : 1..MaxMails, mail : Invites, to : Addresses]
Replies  == [no : 1..MaxMails, uid : Uids, from : Addresses, answer : Answers]

\* What the email worker reads of a mail. A calendar without a METHOD is promoted.
Reads(kind) == MethodRead(Calendar(kind))
Promotable(kind) == Reads(kind) \in {None, "REQUEST"}

\* The request is saving or deleting the organizer's event.
Editing  == {"stamp", "roster", "send", "ask", "cancel", "drop"}
Answering == {"promote", "save", "fallback"}

NoOne == [a \in Addresses |-> None]
Listed == {a \in Addresses : roster[a] # None}

TypeOK ==
  /\ stage \in {"new", "live", "gone"}
  /\ home \in BOOLEAN
  /\ uid \in Uids \cup {EmptyUid, None}
  /\ roster \in [Addresses -> Answers \cup {"NEEDS-ACTION", None}]
  /\ rsvp \in [Keys -> Answers \cup {"NEEDS-ACTION", None}]
  /\ dead \in SUBSET Keys
  /\ inbox \in [Addresses -> SUBSET Invites]
  /\ returns \in SUBSET Uids
  /\ post \in SUBSET Posted
  /\ replies \in SUBSET Replies
  /\ pc \in [Requests -> {"idle"} \cup Editing \cup Answering]
  /\ hadHome \in [Requests -> BOOLEAN]
  /\ hadUid \in [Requests -> Uids \cup {EmptyUid, None}]
  /\ list \in [Requests -> SUBSET Addresses]
  /\ who \in [Requests -> Readers \cup {None}]
  /\ card \in [Requests -> Uids \cup {None}]
  /\ say \in [Requests -> Answers \cup {None}]
  /\ sent \in 0..MaxMails
  /\ minted \in SUBSET Uids
  /\ given \in SUBSET (Addresses \X Answers)
  /\ owed \in SUBSET Addresses
  /\ smooth \in BOOLEAN

Init ==
  /\ stage = "new" /\ home = FALSE /\ uid = None /\ roster = NoOne
  /\ rsvp = [k \in Keys |-> None] /\ dead = {}
  /\ inbox = [a \in Addresses |-> {}]
  /\ returns = {} /\ post = {} /\ replies = {}
  /\ pc = [r \in Requests |-> "idle"]
  /\ hadHome = [r \in Requests |-> FALSE]
  /\ hadUid = [r \in Requests |-> None]
  /\ list = [r \in Requests |-> {}]
  /\ who = [r \in Requests |-> None]
  /\ card = [r \in Requests |-> None]
  /\ say = [r \in Requests |-> None]
  /\ sent = 0 /\ minted = {}
  /\ given = {} /\ owed = {} /\ smooth = TRUE

Goto(r, where) == pc' = [pc EXCEPT ![r] = where]

\* A save that starts while another runs ends the smooth part of the history.
Alone == \A r \in Requests : pc[r] \notin Editing
Disturbed(undisturbed) ==
  /\ smooth' = (smooth /\ undisturbed)
  /\ owed' = IF smooth' THEN owed ELSE {}

Begins(r, where) ==
  /\ pc[r] = "idle"
  /\ Goto(r, where)
  /\ Disturbed(Alone)

\* A request that is over, or cut short, forgets what it was about.
Ends(r) ==
  /\ Goto(r, "idle")
  /\ hadHome' = [hadHome EXCEPT ![r] = FALSE]
  /\ hadUid' = [hadUid EXCEPT ![r] = None]
  /\ list' = [list EXCEPT ![r] = {}]
  /\ who' = [who EXCEPT ![r] = None]
  /\ card' = [card EXCEPT ![r] = None]
  /\ say' = [say EXCEPT ![r] = None]

--------------------------------------------------------------------------------
(* The organizer's requests *)

\* POST /api/calendar/events: the row starts without a UID and without attendees.
CreateEvent(h) ==
  /\ stage = "new"
  /\ stage' = "live"
  /\ home' = h
  /\ UNCHANGED <<uid, roster, copies, mail, pc, locals, minted, history>>

\* Another row of the organizer has this UID: the unique index refuses a second one.
Taken(i) == i \in Uids /\ rsvp[<<Organizer, i>>] # None

\* PATCH of the event. Of what it may change, the calendar and the UID decide what is
\* mailed. The guard of a UID is for null only: another string replaces it, and "" or a
\* value that is no string, stored as NULL, clears it.
PatchEvent(h, i) ==
  /\ stage = "live"
  /\ i # uid => ~Taken(i)
  /\ home' = h
  /\ uid' = i
  /\ minted' = minted \cup ({i} \cap Uids)
  /\ Disturbed(Alone /\ (uid \in Uids => i = uid))
  /\ UNCHANGED <<stage, roster, copies, mail, pc, locals, given>>

\* PUT of the attendees reads the row once; the rest of the request works from it.
PutAttendees(r, chosen) ==
  /\ stage = "live"
  /\ Begins(r, IF chosen # {} /\ uid = None THEN "stamp" ELSE "roster")
  /\ hadHome' = [hadHome EXCEPT ![r] = home]
  /\ hadUid' = [hadUid EXCEPT ![r] = uid]
  /\ list' = [list EXCEPT ![r] = chosen]
  /\ UNCHANGED <<event, copies, mail, who, card, say, minted, given>>

\* The row read had no UID: a new one is written. The UPDATE misses a deleted row.
StampUid(r, i) ==
  /\ pc[r] = "stamp"
  /\ i \notin minted
  /\ minted' = minted \cup {i}
  /\ uid' = IF stage = "live" THEN i ELSE uid
  /\ hadUid' = [hadUid EXCEPT ![r] = i]
  /\ Goto(r, "roster")
  /\ UNCHANGED <<stage, home, roster, copies, mail, hadHome, list, who, card, say,
                 history>>

\* setAttendees: DELETE and INSERT in one batch, every answer back to NEEDS-ACTION. The
\* body of the PUT may ask for no mail.
WriteRoster(r) ==
  /\ pc[r] = "roster"
  /\ stage = "live" \/ list[r] = {}
  /\ roster' = [a \in Addresses |-> IF a \in list[r] THEN "NEEDS-ACTION" ELSE None]
  /\ owed' = owed \cap list[r]
  /\ \/ Ends(r)
     \/ /\ list[r] # {} /\ hadHome[r] /\ hadUid[r] \in Uids
        /\ Goto(r, "send")
        /\ UNCHANGED locals
  /\ UNCHANGED <<stage, home, uid, copies, mail, minted, given, smooth>>

\* The event was deleted meanwhile: the foreign key refuses the batch.
RosterRefused(r) ==
  /\ pc[r] = "roster"
  /\ stage = "gone" /\ list[r] # {}
  /\ Ends(r)
  /\ UNCHANGED <<event, copies, mail, minted, history>>

Post(r, kind) ==
  /\ sent < MaxMails
  /\ sent' = sent + 1
  /\ post' = post \cup
       {[no |-> sent + 1, mail |-> [kind |-> kind, uid |-> hadUid[r]], to |-> a] : a \in list[r]}
  /\ UNCHANGED <<inbox, returns, replies>>

SendRequest(r) ==
  /\ pc[r] = "send"
  /\ Post(r, "REQUEST")
  /\ owed' = IF smooth THEN owed \cup list[r] ELSE {}
  /\ Ends(r)
  /\ UNCHANGED <<event, copies, minted, given, smooth>>

\* DELETE of the event: the row is read, then the attendees, then they are told.
DeleteEvent(r) ==
  /\ stage = "live"
  /\ Begins(r, IF uid \in Uids THEN "ask" ELSE "drop")
  /\ hadHome' = [hadHome EXCEPT ![r] = home]
  /\ hadUid' = [hadUid EXCEPT ![r] = uid]
  /\ UNCHANGED <<event, copies, mail, list, who, card, say, minted, given>>

\* Bug: the cancellation goes to the attendees who answered.
ListAnswered(r) ==
  LET answered == {a \in Addresses : roster[a] \in Answers} IN
  /\ pc[r] = "ask"
  /\ list' = [list EXCEPT ![r] = answered]
  /\ Goto(r, IF answered # {} /\ hadHome[r] THEN "cancel" ELSE "drop")
  /\ UNCHANGED <<event, copies, mail, hadHome, hadUid, who, card, say, minted, history>>

ListAttendees(r) ==
  /\ pc[r] = "ask"
  /\ list' = [list EXCEPT ![r] = Listed]
  /\ Goto(r, IF Listed # {} /\ hadHome[r] THEN "cancel" ELSE "drop")
  /\ UNCHANGED <<event, copies, mail, hadHome, hadUid, who, card, say, minted, history>>

SendCancel(r) ==
  /\ pc[r] = "cancel"
  /\ Post(r, "CANCEL")
  /\ owed' = owed \ list[r]
  /\ Goto(r, "drop")
  /\ UNCHANGED <<event, copies, locals, minted, given, smooth>>

\* The mail service refuses: PUT answers 207, DELETE logs it and goes on.
SendRefused(r) ==
  /\ Disturbed(FALSE)
  /\ \/ pc[r] = "send" /\ Ends(r)
     \/ pc[r] = "cancel" /\ Goto(r, "drop") /\ UNCHANGED locals
  /\ UNCHANGED <<event, copies, mail, minted, given>>

\* The attendees go with the row (ON DELETE CASCADE).
DropEvent(r) ==
  /\ pc[r] = "drop"
  /\ stage' = "gone"
  /\ roster' = NoOne
  /\ Ends(r)
  /\ UNCHANGED <<home, uid, copies, mail, minted, history>>

\* The worker dies, or a query throws, between two awaits of a request.
Abort(r) ==
  /\ pc[r] # "idle"
  /\ Ends(r)
  /\ Disturbed(pc[r] \notin Editing)
  /\ UNCHANGED <<event, copies, mail, minted, given>>

--------------------------------------------------------------------------------
(* The email worker stores a mail, then acts on it; the second part is best-effort *)

\* A CANCEL marks the copies of every user that has one now, the organizer's row apart.
Cancelled(i) == dead \cup {k \in Keys : k[2] = i /\ rsvp[k] # None}

Receive(p) ==
  /\ p \in post
  /\ post' = post \ {p}
  /\ inbox' = [inbox EXCEPT ![p.to] = @ \cup {p.mail}]
  /\ \/ dead' = dead
     \/ Reads(p.mail.kind) = "CANCEL" /\ dead' = Cancelled(p.mail.uid)
  /\ UNCHANGED <<event, rsvp, returns, replies, sent, pc, locals, minted, history>>

\* A REPLY changes the attendee's line of the organizer's event, if it is listed.
Recorded(m) ==
  IF Reads("REPLY") = "REPLY" /\ uid = m.uid /\ roster[m.from] # None
  THEN [roster EXCEPT ![m.from] = m.answer]
  ELSE roster

ReceiveReply(m) ==
  /\ m \in replies
  /\ replies' = replies \ {m}
  /\ returns' = returns \cup {m.uid}
  /\ roster' \in {roster, Recorded(m)}
  /\ UNCHANGED <<stage, home, uid, copies, inbox, post, sent, pc, locals, minted, history>>

--------------------------------------------------------------------------------
(* Requests of the readers of calendar mail *)

Invited(u, i) == \E m \in inbox[Box[u]] : m.uid = i /\ Promotable(m.kind)

\* Opening the thread of an invitation promotes it unless the user has a copy ...
OpenThread(r, u, i) ==
  /\ pc[r] = "idle"
  /\ Invited(u, i)
  /\ rsvp[<<u, i>>] = None
  /\ Goto(r, "promote")
  /\ who' = [who EXCEPT ![r] = u]
  /\ card' = [card EXCEPT ![r] = i]
  /\ UNCHANGED <<event, copies, mail, hadHome, hadUid, list, say, minted, history>>

\* The organizer's own row has the UID of the answers to it.
Own(u, i) == u = Organizer /\ stage = "live" /\ uid = i

\* ... and so does the organizer opening an answer: a row without a mailbox is not
\* enough to skip it.
OpenReply(r, i) ==
  /\ pc[r] = "idle"
  /\ i \in returns /\ Promotable("REPLY")
  /\ rsvp[<<Organizer, i>>] = None
  /\ ~(Own(Organizer, i) /\ home)
  /\ Goto(r, "promote")
  /\ who' = [who EXCEPT ![r] = Organizer]
  /\ card' = [card EXCEPT ![r] = i]
  /\ UNCHANGED <<event, copies, mail, hadHome, hadUid, list, say, minted, history>>

\* Bug: the upsert writes the status again on conflict.
PromotedAgain(k) == [rsvp EXCEPT ![k] = "NEEDS-ACTION"]

\* ... and the upsert, a separate query, leaves a copy made meanwhile as it is.
Promoted(k) == IF rsvp[k] = None THEN [rsvp EXCEPT ![k] = "NEEDS-ACTION"] ELSE rsvp

Promote(r) ==
  /\ pc[r] = "promote"
  /\ ~Own(who[r], card[r])
  /\ rsvp' = Promoted(<<who[r], card[r]>>)
  /\ Ends(r)
  /\ UNCHANGED <<event, dead, mail, minted, history>>

\* On the organizer's own row it fills in the mailbox, if there is none.
PromoteOwn(r) ==
  /\ pc[r] = "promote"
  /\ Own(who[r], card[r])
  /\ home' = TRUE
  /\ Disturbed(home \/ Alone)
  /\ Ends(r)
  /\ UNCHANGED <<stage, uid, roster, copies, mail, minted, given>>

\* Bug: a refused send does not keep the answer from being saved.
AnswerUnsent(r, u, i, s) ==
  /\ pc[r] = "idle"
  /\ Invited(u, i)
  /\ Goto(r, "save")
  /\ who' = [who EXCEPT ![r] = u]
  /\ card' = [card EXCEPT ![r] = i]
  /\ say' = [say EXCEPT ![r] = s]
  /\ UNCHANGED <<event, copies, mail, hadHome, hadUid, list, minted, history>>

\* POST of an answer mails the REPLY first. A refused send ends the request here.
Answer(r, u, i, s) ==
  /\ pc[r] = "idle"
  /\ Invited(u, i)
  /\ sent < MaxMails
  /\ sent' = sent + 1
  /\ replies' = replies \cup
       {[no |-> sent + 1, uid |-> i, from |-> Box[u], answer |-> s]}
  /\ given' = given \cup {<<Box[u], s>>}
  /\ Goto(r, "save")
  /\ who' = [who EXCEPT ![r] = u]
  /\ card' = [card EXCEPT ![r] = i]
  /\ say' = [say EXCEPT ![r] = s]
  /\ UNCHANGED <<event, copies, inbox, returns, post, hadHome, hadUid, list, minted, owed, smooth>>

\* updateRsvpStatus: an UPDATE, and when it changed no row ...
SaveAnswer(r) ==
  /\ pc[r] = "save"
  /\ rsvp[<<who[r], card[r]>>] # None
  /\ rsvp' = [rsvp EXCEPT ![<<who[r], card[r]>>] = say[r]]
  /\ Ends(r)
  /\ UNCHANGED <<event, dead, mail, minted, history>>

NoRowToUpdate(r) ==
  /\ pc[r] = "save"
  /\ rsvp[<<who[r], card[r]>>] = None
  /\ Goto(r, "fallback")
  /\ UNCHANGED <<event, copies, mail, locals, minted, history>>

\* ... an INSERT whose conflict clause writes the answer over a copy made meanwhile.
InsertAnswer(r) ==
  /\ pc[r] = "fallback"
  /\ rsvp' = [rsvp EXCEPT ![<<who[r], card[r]>>] = say[r]]
  /\ Ends(r)
  /\ UNCHANGED <<event, dead, mail, minted, history>>

--------------------------------------------------------------------------------
Next ==
  \/ \E h \in BOOLEAN : CreateEvent(h)
  \/ \E h \in BOOLEAN, i \in Uids \cup {EmptyUid, None} : PatchEvent(h, i)
  \/ \E r \in Requests :
       \/ \E chosen \in SUBSET Addresses : PutAttendees(r, chosen)
       \/ \E i \in Uids : StampUid(r, i)
       \/ WriteRoster(r)
       \/ RosterRefused(r)
       \/ SendRequest(r)
       \/ DeleteEvent(r)
       \/ ListAttendees(r)
       \/ SendCancel(r)
       \/ SendRefused(r)
       \/ DropEvent(r)
       \/ Abort(r)
       \/ \E u \in Users, i \in Uids : OpenThread(r, u, i)
       \/ \E i \in Uids : OpenReply(r, i)
       \/ Promote(r)
       \/ PromoteOwn(r)
       \/ \E u \in Users, i \in Uids, s \in Answers : Answer(r, u, i, s)
       \/ SaveAnswer(r)
       \/ NoRowToUpdate(r)
       \/ InsertAnswer(r)
  \/ \E p \in post : Receive(p)
  \/ \E m \in replies : ReceiveReply(m)

Spec == Init /\ [][Next]_vars

--------------------------------------------------------------------------------
(* Properties *)

\* A promotion that read "no copy" before an answer was saved does not take the answer
\* back: a copy that shows an answer goes on showing one, so the reader never asks again.
AnswerStays == [][\A k \in Keys : rsvp[k] \in Answers => rsvp'[k] \in Answers]_vars

\* What an attendee's calendar shows as the answer was mailed to the organizer from the
\* attendee's address: the mail goes out before the row is written.
ShownWasMailed ==
  \A u \in Users, i \in Uids :
    rsvp[<<u, i>>] \in Answers => <<Box[u], rsvp[<<u, i>>]>> \in given

\* The organizer's list shows nobody's answer: of the REPLY that answers an invitation
\* the email worker reads no METHOD, so the branch that writes the answer is never taken.
NothingRecorded == \A a \in Addresses : roster[a] \notin Answers

\* While the saves of the event do not overlap, fail or break off, and leave its UID as
\* it is, deleting it leaves nobody on its list with an invitation and no cancellation,
\* unless the event was on the Personal calendar, which mails nobody.
DeletedIsAnnounced == smooth /\ stage = "gone" /\ home => owed = {}

\* While they do, all the mail about the event carries the one UID the row holds, so
\* every attendee's copies stay a single copy.
OneUid ==
  smooth => /\ \A p \in post : p.mail.uid = uid
            /\ \A a \in Addresses : \A m \in inbox[a] : m.uid = uid
            /\ \A k \in Keys : rsvp[k] # None => k[2] = uid

\* "Write-once: once the event has a UID (and likely attendees) we never let the client
\* null it out" (events/[id]/route.ts:36): a PATCH of "" or of a number clears it, and
\* the deletion of the event is then announced to nobody.
UidIsLocked == [][(uid \in Uids) => (uid' \in Uids)]_vars

\* "REPLY and CANCEL don't create new events" (calendar.ts:774): but the METHOD of a
\* calendar is never read, and opening a cancellation or an answer makes one.
OnlyInvitesMakeEvents ==
  [][\A u \in Readers, i \in Uids :
       rsvp[<<u, i>>] = None /\ rsvp'[<<u, i>>] # None
       => u # Organizer /\ [kind |-> "REQUEST", uid |-> i] \in inbox[Box[u]]]_vars
================================================================================
