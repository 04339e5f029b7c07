--------------------------- MODULE LettersProofs ---------------------------
(***************************************************************************)
(* What passes between people: invitations to meetings and the composer's  *)
(* letters.                                                                *)
(***************************************************************************)
EXTENDS Invitations, Composer, FiniteSetTheorems, SequenceTheorems, TLAPS

-----------------------------------------------------------------------------
(***************************************************************************)
(* INVITATIONS, for any number of people, addresses, mails and requests.   *)
(* What the email worker reads of a mail matters for one of them only: that *)
(* no answer reaches the organizer's list.                                  *)
(***************************************************************************)

\* A request of a reader knows its user and invitation, and one that saves an answer
\* has mailed it.
Talking ==
  \A r \in Requests :
    /\ pc[r] \in Answering => who[r] \in Readers /\ card[r] \in Uids
    /\ pc[r] \in {"save", "fallback"} =>
         who[r] \in Users /\ say[r] \in Answers /\ <<Box[who[r]], say[r]>> \in given

\* A request that is about to mail read or drew a UID.
Addressed ==
  \A r \in Requests : pc[r] \in {"send", "ask", "cancel"} => hadUid[r] \in Uids

\* While saves do not overlap at most one runs, none on a row that is not there, and
\* what it read is still so.
Calm ==
  smooth =>
    /\ \A r, q \in Requests : pc[r] \in Editing /\ pc[q] \in Editing => r = q
    /\ stage # "live" => Alone
    /\ \A r \in Requests : pc[r] \in Editing => hadHome[r] = home /\ hadUid[r] = uid
    /\ \A r \in Requests : pc[r] = "stamp" => uid = None

\* While saves do not overlap the answers too, and the requests about mail, are about
\* the one UID.
Mails ==
  smooth =>
    /\ \A m \in replies : m.uid = uid
    /\ \A i \in returns : i = uid
    /\ \A r \in Requests : pc[r] \in Answering => card[r] = uid

\* While saves do not overlap only listed addresses are owed a cancellation, and a
\* deletion that has reached its last step owes none.
Owes ==
  smooth =>
    /\ stage # "gone" => owed \subseteq Listed
    /\ uid \notin Uids => owed = {}
    /\ \A r \in Requests : pc[r] \in {"send", "cancel"} => list[r] = Listed
    /\ \A r \in Requests : pc[r] = "drop" /\ home => owed = {}

IInv ==
  /\ TypeOK /\ Talking /\ Addressed /\ NothingRecorded /\ ShownWasMailed
  /\ Calm /\ Mails /\ OneUid /\ Owes /\ DeletedIsAnnounced

StaysAnswered == \A k \in Keys : rsvp[k] \in Answers => rsvp'[k] \in Answers

LEMMA TypeOKNext ==
    TypeOK /\ Talking /\ Addressed /\ [Next]_vars
    => TypeOK'
<1> SUFFICES ASSUME TypeOK, Talking, Addressed, [Next]_vars
             PROVE  TypeOK'
  OBVIOUS
<1> USE NoneAssumption, BoxAssumption, MaxMailsAssumption DEF TypeOK, Talking, Addressed, Posted, Replies, Invites, Editing, Answering, Readers, event, copies, mail, locals, history
<1>1. CASE UNCHANGED vars
  BY <1>1 DEF vars
<1>2. ASSUME NEW h \in BOOLEAN, CreateEvent(h) PROVE TypeOK'
  BY <1>2 DEF CreateEvent
<1>3. ASSUME NEW h \in BOOLEAN, NEW i \in Uids \cup {EmptyUid, None}, PatchEvent(h, i)
      PROVE  TypeOK'
  BY <1>3 DEF PatchEvent, Disturbed
<1>4. ASSUME NEW r \in Requests, NEW chosen \in SUBSET Addresses, PutAttendees(r, chosen)
      PROVE  TypeOK'
  BY <1>4 DEF PutAttendees, Begins, Disturbed, Goto
<1>5. ASSUME NEW r \in Requests, NEW i \in Uids, StampUid(r, i) PROVE TypeOK'
  BY <1>5 DEF StampUid, Goto
<1>6. ASSUME NEW r \in Requests, WriteRoster(r) PROVE TypeOK'
  <2>1. CASE Ends(r)
    BY <1>6, <2>1 DEF WriteRoster, Ends, Goto
  <2>2. CASE Goto(r, "send") /\ UNCHANGED locals /\ hadUid[r] \in Uids
    BY <1>6, <2>2 DEF WriteRoster, Goto
  <2> QED
    BY <1>6, <2>1, <2>2 DEF WriteRoster
<1>7. ASSUME NEW r \in Requests, RosterRefused(r) PROVE TypeOK'
  BY <1>7 DEF RosterRefused, Ends, Goto
<1>8. ASSUME NEW r \in Requests, SendRequest(r) PROVE TypeOK'
  BY <1>8 DEF SendRequest, Post, Ends, Goto
<1>9. ASSUME NEW r \in Requests, DeleteEvent(r) PROVE TypeOK'
  BY <1>9 DEF DeleteEvent, Begins, Disturbed, Goto
<1>10. ASSUME NEW r \in Requests, ListAttendees(r) PROVE TypeOK'
  BY <1>10 DEF ListAttendees, Goto, Listed
<1>11. ASSUME NEW r \in Requests, SendCancel(r) PROVE TypeOK'
  BY <1>11 DEF SendCancel, Post, Goto
<1>12. ASSUME NEW r \in Requests, SendRefused(r) PROVE TypeOK'
  <2>1. CASE pc[r] = "send" /\ Ends(r)
    BY <1>12, <2>1 DEF SendRefused, Disturbed, Ends, Goto
  <2>2. CASE pc[r] = "cancel" /\ Goto(r, "drop") /\ UNCHANGED locals
    BY <1>12, <2>2 DEF SendRefused, Disturbed, Goto
  <2> QED
    BY <1>12, <2>1, <2>2 DEF SendRefused
<1>13. ASSUME NEW r \in Requests, DropEvent(r) PROVE TypeOK'
  BY <1>13 DEF DropEvent, Ends, Goto, NoOne
<1>14. ASSUME NEW r \in Requests, Abort(r) PROVE TypeOK'
  BY <1>14 DEF Abort, Ends, Goto, Disturbed
<1>15. ASSUME NEW r \in Requests, NEW u \in Users, NEW i \in Uids, OpenThread(r, u, i)
      PROVE  TypeOK'
  BY <1>15 DEF OpenThread, Goto
<1>16. ASSUME NEW r \in Requests, NEW i \in Uids, OpenReply(r, i) PROVE TypeOK'
  BY <1>16 DEF OpenReply, Goto
<1>17. ASSUME NEW r \in Requests, Promote(r) PROVE TypeOK'
  BY <1>17 DEF Promote, Ends, Goto, Promoted, Keys
<1>18. ASSUME NEW r \in Requests, PromoteOwn(r) PROVE TypeOK'
  BY <1>18 DEF PromoteOwn, Ends, Goto, Disturbed
<1>19. ASSUME NEW r \in Requests, NEW u \in Users, NEW i \in Uids,
             NEW s \in Answers, Answer(r, u, i, s)
      PROVE  TypeOK'
  BY <1>19 DEF Answer, Goto
<1>20. ASSUME NEW r \in Requests, SaveAnswer(r) PROVE TypeOK'
  BY <1>20 DEF SaveAnswer, Ends, Goto, Keys
<1>21. ASSUME NEW r \in Requests, NoRowToUpdate(r) PROVE TypeOK'
  BY <1>21 DEF NoRowToUpdate, Goto
<1>22. ASSUME NEW r \in Requests, InsertAnswer(r) PROVE TypeOK'
  BY <1>22 DEF InsertAnswer, Ends, Goto, Keys
<1>23. ASSUME NEW p \in post, Receive(p) PROVE TypeOK'
  <2>1. CASE dead' = dead
    BY <1>23, <2>1 DEF Receive
  <2>2. CASE dead' = Cancelled(p.mail.uid)
    BY <1>23, <2>2 DEF Receive, Cancelled
  <2> QED
    BY <1>23, <2>1, <2>2 DEF Receive
<1>24. ASSUME NEW m \in replies, ReceiveReply(m) PROVE TypeOK'
  BY <1>24 DEF ReceiveReply, Recorded
<1> HIDE DEF TypeOK
<1> QED
  BY <1>1, <1>2, <1>3, <1>4, <1>5, <1>6, <1>7, <1>8, <1>9, <1>10, <1>11, <1>12, <1>13,
     <1>14, <1>15, <1>16, <1>17, <1>18, <1>19, <1>20, <1>21, <1>22, <1>23, <1>24 DEF Next

LEMMA TalkingNext ==
    TypeOK /\ Talking /\ [Next]_vars
    => Talking'
<1> SUFFICES ASSUME TypeOK, Talking, [Next]_vars
             PROVE  Talking'
  OBVIOUS
<1> USE BoxAssumption DEF TypeOK, Talking, Editing, Answering, Readers, event, copies, mail, locals, history
<1>1. CASE UNCHANGED vars
  BY <1>1 DEF vars
<1>2. ASSUME NEW h \in BOOLEAN, CreateEvent(h) PROVE Talking'
  BY <1>2 DEF CreateEvent
<1>3. ASSUME NEW h \in BOOLEAN, NEW i \in Uids \cup {EmptyUid, None}, PatchEvent(h, i)
      PROVE  Talking'
  BY <1>3 DEF PatchEvent, Disturbed
<1>4. ASSUME NEW r \in Requests, NEW chosen \in SUBSET Addresses, PutAttendees(r, chosen)
      PROVE  Talking'
  BY <1>4 DEF PutAttendees, Begins, Disturbed, Goto
<1>5. ASSUME NEW r \in Requests, NEW i \in Uids, StampUid(r, i) PROVE Talking'
  BY <1>5 DEF StampUid, Goto
<1>6. ASSUME NEW r \in Requests, WriteRoster(r) PROVE Talking'
  BY <1>6 DEF WriteRoster, Ends, Goto
<1>7. ASSUME NEW r \in Requests, RosterRefused(r) PROVE Talking'
  BY <1>7 DEF RosterRefused, Ends, Goto
<1>8. ASSUME NEW r \in Requests, SendRequest(r) PROVE Talking'
  BY <1>8 DEF SendRequest, Post, Ends, Goto
<1>9. ASSUME NEW r \in Requests, DeleteEvent(r) PROVE Talking'
  BY <1>9 DEF DeleteEvent, Begins, Disturbed, Goto
<1>10. ASSUME NEW r \in Requests, ListAttendees(r) PROVE Talking'
  BY <1>10 DEF ListAttendees, Goto
<1>11. ASSUME NEW r \in Requests, SendCancel(r) PROVE Talking'
  BY <1>11 DEF SendCancel, Post, Goto
<1>12. ASSUME NEW r \in Requests, SendRefused(r) PROVE Talking'
  BY <1>12 DEF SendRefused, Disturbed, Ends, Goto
<1>13. ASSUME NEW r \in Requests, DropEvent(r) PROVE Talking'
  BY <1>13 DEF DropEvent, Ends, Goto
<1>14. ASSUME NEW r \in Requests, Abort(r) PROVE Talking'
  BY <1>14 DEF Abort, Ends, Goto, Disturbed
<1>15. ASSUME NEW r \in Requests, NEW u \in Users, NEW i \in Uids, OpenThread(r, u, i)
      PROVE  Talking'
  BY <1>15 DEF OpenThread, Goto
<1>16. ASSUME NEW r \in Requests, NEW i \in Uids, OpenReply(r, i) PROVE Talking'
  BY <1>16 DEF OpenReply, Goto
<1>17. ASSUME NEW r \in Requests, Promote(r) PROVE Talking'
  BY <1>17 DEF Promote, Ends, Goto
<1>18. ASSUME NEW r \in Requests, PromoteOwn(r) PROVE Talking'
  BY <1>18 DEF PromoteOwn, Ends, Goto, Disturbed
<1>19. ASSUME NEW r \in Requests, NEW u \in Users, NEW i \in Uids,
             NEW s \in Answers, Answer(r, u, i, s)
      PROVE  Talking'
  BY <1>19 DEF Answer, Goto
<1>20. ASSUME NEW r \in Requests, SaveAnswer(r) PROVE Talking'
  BY <1>20 DEF SaveAnswer, Ends, Goto
<1>21. ASSUME NEW r \in Requests, NoRowToUpdate(r) PROVE Talking'
  BY <1>21 DEF NoRowToUpdate, Goto
<1>22. ASSUME NEW r \in Requests, InsertAnswer(r) PROVE Talking'
  BY <1>22 DEF InsertAnswer, Ends, Goto
<1>23. ASSUME NEW p \in post, Receive(p) PROVE Talking'
  BY <1>23 DEF Receive
<1>24. ASSUME NEW m \in replies, ReceiveReply(m) PROVE Talking'
  BY <1>24 DEF ReceiveReply
<1> HIDE DEF Talking
<1> QED
  BY <1>1, <1>2, <1>3, <1>4, <1>5, <1>6, <1>7, <1>8, <1>9, <1>10, <1>11, <1>12, <1>13,
     <1>14, <1>15, <1>16, <1>17, <1>18, <1>19, <1>20, <1>21, <1>22, <1>23, <1>24 DEF Next

LEMMA AddressedNext ==
    TypeOK /\ Addressed /\ [Next]_vars
    => Addressed'
<1> SUFFICES ASSUME TypeOK, Addressed, [Next]_vars
             PROVE  Addressed'
  OBVIOUS
<1> USE NoneAssumption DEF TypeOK, Addressed, Editing, Answering, event, copies, mail, locals, history
<1>1. CASE UNCHANGED vars
  BY <1>1 DEF vars
<1>2. ASSUME NEW h \in BOOLEAN, CreateEvent(h) PROVE Addressed'
  BY <1>2 DEF CreateEvent
<1>3. ASSUME NEW h \in BOOLEAN, NEW i \in Uids \cup {EmptyUid, None}, PatchEvent(h, i)
      PROVE  Addressed'
  BY <1>3 DEF PatchEvent, Disturbed
<1>4. ASSUME NEW r \in Requests, NEW chosen \in SUBSET Addresses, PutAttendees(r, chosen)
      PROVE  Addressed'
  BY <1>4 DEF PutAttendees, Begins, Disturbed, Goto
<1>5. ASSUME NEW r \in Requests, NEW i \in Uids, StampUid(r, i) PROVE Addressed'
  BY <1>5 DEF StampUid, Goto
<1>6. ASSUME NEW r \in Requests, WriteRoster(r) PROVE Addressed'
  BY <1>6 DEF WriteRoster, Ends, Goto
<1>7. ASSUME NEW r \in Requests, RosterRefused(r) PROVE Addressed'
  BY <1>7 DEF RosterRefused, Ends, Goto
<1>8. ASSUME NEW r \in Requests, SendRequest(r) PROVE Addressed'
  BY <1>8 DEF SendRequest, Post, Ends, Goto
<1>9. ASSUME NEW r \in Requests, DeleteEvent(r) PROVE Addressed'
  BY <1>9 DEF DeleteEvent, Begins, Disturbed, Goto
<1>10. ASSUME NEW r \in Requests, ListAttendees(r) PROVE Addressed'
  BY <1>10 DEF ListAttendees, Goto
<1>11. ASSUME NEW r \in Requests, SendCancel(r) PROVE Addressed'
  BY <1>11 DEF SendCancel, Post, Goto
<1>12. ASSUME NEW r \in Requests, SendRefused(r) PROVE Addressed'
  BY <1>12 DEF SendRefused, Disturbed, Ends, Goto
<1>13. ASSUME NEW r \in Requests, DropEvent(r) PROVE Addressed'
  BY <1>13 DEF DropEvent, Ends, Goto
<1>14. ASSUME NEW r \in Requests, Abort(r) PROVE Addressed'
  BY <1>14 DEF Abort, Ends, Goto, Disturbed
<1>15. ASSUME NEW r \in Requests, NEW u \in Users, NEW i \in Uids, OpenThread(r, u, i)
      PROVE  Addressed'
  BY <1>15 DEF OpenThread, Goto
<1>16. ASSUME NEW r \in Requests, NEW i \in Uids, OpenReply(r, i) PROVE Addressed'
  BY <1>16 DEF OpenReply, Goto
<1>17. ASSUME NEW r \in Requests, Promote(r) PROVE Addressed'
  BY <1>17 DEF Promote, Ends, Goto
<1>18. ASSUME NEW r \in Requests, PromoteOwn(r) PROVE Addressed'
  BY <1>18 DEF PromoteOwn, Ends, Goto, Disturbed
<1>19. ASSUME NEW r \in Requests, NEW u \in Users, NEW i \in Uids,
             NEW s \in Answers, Answer(r, u, i, s)
      PROVE  Addressed'
  BY <1>19 DEF Answer, Goto
<1>20. ASSUME NEW r \in Requests, SaveAnswer(r) PROVE Addressed'
  BY <1>20 DEF SaveAnswer, Ends, Goto
<1>21. ASSUME NEW r \in Requests, NoRowToUpdate(r) PROVE Addressed'
  BY <1>21 DEF NoRowToUpdate, Goto
<1>22. ASSUME NEW r \in Requests, InsertAnswer(r) PROVE Addressed'
  BY <1>22 DEF InsertAnswer, Ends, Goto
<1>23. ASSUME NEW p \in post, Receive(p) PROVE Addressed'
  BY <1>23 DEF Receive
<1>24. ASSUME NEW m \in replies, ReceiveReply(m) PROVE Addressed'
  BY <1>24 DEF ReceiveReply
<1> HIDE DEF Addressed
<1> QED
  BY <1>1, <1>2, <1>3, <1>4, <1>5, <1>6, <1>7, <1>8, <1>9, <1>10, <1>11, <1>12, <1>13,
     <1>14, <1>15, <1>16, <1>17, <1>18, <1>19, <1>20, <1>21, <1>22, <1>23, <1>24 DEF Next

\* The METHOD of both builders stands one BEGIN deep, where the parser does not look.
LEMMA NoMethodIsRead == ASSUME NEW method PROVE MethodRead(Calendar(method)) = None
<1> DEFINE lines == Calendar(method)
<1>1. /\ DOMAIN lines = 1 .. 6
      /\ lines[1].name = "BEGIN" /\ lines[2].name = "METHOD" /\ lines[3].name = "BEGIN"
      /\ lines[4].name = "DTSTART" /\ lines[5].name = "END" /\ lines[6].name = "END"
  <2>1. PICK a, b, c, d, e, f :
          /\ a = Line("BEGIN", "VCALENDAR") /\ b = Line("METHOD", method)
          /\ c = Line("BEGIN", "VEVENT") /\ d = Line("DTSTART", "")
          /\ e = Line("END", "VEVENT") /\ f = Line("END", "VCALENDAR")
    BY Zenon
  <2>2. lines = <<a, b, c, d, e, f>>
    BY <2>1, Zenon DEF Calendar
  <2> HIDE DEF lines
  <2>3. /\ DOMAIN lines = 1 .. 6
        /\ lines[1] = a /\ lines[2] = b /\ lines[3] = c
        /\ lines[4] = d /\ lines[5] = e /\ lines[6] = f
    BY <2>2
  <2>4. \A name, value : Line(name, value).name = name
    BY DEF Line
  <2> QED
    BY <2>1, <2>3, <2>4
<1> HIDE DEF lines
<1>2. Count(lines, 2, "BEGIN") = 1
  <2>1. {m \in 1 .. (2 - 1) : lines[m].name = "BEGIN"} = {1}
    BY <1>1
  <2> QED
    BY <2>1, FS_Singleton DEF Count
<1>3. Count(lines, 2, "END") = 0
  <2>1. {m \in 1 .. (2 - 1) : lines[m].name = "END"} = {}
    BY <1>1
  <2> QED
    BY <2>1, FS_EmptySet DEF Count
<1>4. Depth(lines, 2) # 0
  BY <1>2, <1>3 DEF Depth
<1>5. TopLevelMethods(lines) = {}
  BY <1>1, <1>4 DEF TopLevelMethods
<1> QED
  BY <1>5 DEF MethodRead, lines

LEMMA NothingRecordedNext ==
    TypeOK /\ NothingRecorded /\ [Next]_vars
    => NothingRecorded'
<1> SUFFICES ASSUME TypeOK, NothingRecorded, [Next]_vars
             PROVE  NothingRecorded'
  OBVIOUS
<1> USE NoneAssumption, AnswersAssumption DEF TypeOK, NothingRecorded, Replies, event, copies, mail, locals, history
<1>1. CASE UNCHANGED vars
  BY <1>1 DEF vars
<1>2. ASSUME NEW h \in BOOLEAN, CreateEvent(h) PROVE NothingRecorded'
  BY <1>2 DEF CreateEvent
<1>3. ASSUME NEW h \in BOOLEAN, NEW i \in Uids \cup {EmptyUid, None}, PatchEvent(h, i)
      PROVE  NothingRecorded'
  BY <1>3 DEF PatchEvent, Disturbed
<1>4. ASSUME NEW r \in Requests, NEW chosen \in SUBSET Addresses, PutAttendees(r, chosen)
      PROVE  NothingRecorded'
  BY <1>4 DEF PutAttendees, Begins, Disturbed, Goto
<1>5. ASSUME NEW r \in Requests, NEW i \in Uids, StampUid(r, i) PROVE NothingRecorded'
  BY <1>5 DEF StampUid, Goto
<1>6. ASSUME NEW r \in Requests, WriteRoster(r) PROVE NothingRecorded'
  BY <1>6 DEF WriteRoster, Ends, Goto
<1>7. ASSUME NEW r \in Requests, RosterRefused(r) PROVE NothingRecorded'
  BY <1>7 DEF RosterRefused, Ends, Goto
<1>8. ASSUME NEW r \in Requests, SendRequest(r) PROVE NothingRecorded'
  BY <1>8 DEF SendRequest, Post, Ends, Goto
<1>9. ASSUME NEW r \in Requests, DeleteEvent(r) PROVE NothingRecorded'
  BY <1>9 DEF DeleteEvent, Begins, Disturbed, Goto
<1>10. ASSUME NEW r \in Requests, ListAttendees(r) PROVE NothingRecorded'
  BY <1>10 DEF ListAttendees, Goto
<1>11. ASSUME NEW r \in Requests, SendCancel(r) PROVE NothingRecorded'
  BY <1>11 DEF SendCancel, Post, Goto
<1>12. ASSUME NEW r \in Requests, SendRefused(r) PROVE NothingRecorded'
  BY <1>12 DEF SendRefused, Disturbed, Ends, Goto
<1>13. ASSUME NEW r \in Requests, DropEvent(r) PROVE NothingRecorded'
  BY <1>13 DEF DropEvent, Ends, Goto, NoOne
<1>14. ASSUME NEW r \in Requests, Abort(r) PROVE NothingRecorded'
  BY <1>14 DEF Abort, Ends, Goto, Disturbed
<1>15. ASSUME NEW r \in Requests, NEW u \in Users, NEW i \in Uids, OpenThread(r, u, i)
      PROVE  NothingRecorded'
  BY <1>15 DEF OpenThread, Goto
<1>16. ASSUME NEW r \in Requests, NEW i \in Uids, OpenReply(r, i) PROVE NothingRecorded'
  BY <1>16 DEF OpenReply, Goto
<1>17. ASSUME NEW r \in Requests, Promote(r) PROVE NothingRecorded'
  BY <1>17 DEF Promote, Ends, Goto
<1>18. ASSUME NEW r \in Requests, PromoteOwn(r) PROVE NothingRecorded'
  BY <1>18 DEF PromoteOwn, Ends, Goto, Disturbed
<1>19. ASSUME NEW r \in Requests, NEW u \in Users, NEW i \in Uids,
             NEW s \in Answers, Answer(r, u, i, s)
      PROVE  NothingRecorded'
  BY <1>19 DEF Answer, Goto
<1>20. ASSUME NEW r \in Requests, SaveAnswer(r) PROVE NothingRecorded'
  BY <1>20 DEF SaveAnswer, Ends, Goto
<1>21. ASSUME NEW r \in Requests, NoRowToUpdate(r) PROVE NothingRecorded'
  BY <1>21 DEF NoRowToUpdate, Goto
<1>22. ASSUME NEW r \in Requests, InsertAnswer(r) PROVE NothingRecorded'
  BY <1>22 DEF InsertAnswer, Ends, Goto
<1>23. ASSUME NEW p \in post, Receive(p) PROVE NothingRecorded'
  BY <1>23 DEF Receive
<1>24. ASSUME NEW m \in replies, ReceiveReply(m) PROVE NothingRecorded'
  <2>1. Recorded(m) = roster
    BY NoMethodIsRead, MethodAssumption DEF Recorded, Reads
  <2> QED
    BY <1>24, <2>1 DEF ReceiveReply
<1> HIDE DEF NothingRecorded
<1> QED
  BY <1>1, <1>2, <1>3, <1>4, <1>5, <1>6, <1>7, <1>8, <1>9, <1>10, <1>11, <1>12, <1>13,
     <1>14, <1>15, <1>16, <1>17, <1>18, <1>19, <1>20, <1>21, <1>22, <1>23, <1>24 DEF Next

LEMMA ShownWasMailedNext ==
    TypeOK /\ Talking /\ ShownWasMailed /\ [Next]_vars
    => ShownWasMailed'
<1> SUFFICES ASSUME TypeOK, Talking, ShownWasMailed, [Next]_vars
             PROVE  ShownWasMailed'
  OBVIOUS
<1> USE NoneAssumption, AnswersAssumption, OrganizerAssumption DEF TypeOK, Talking, ShownWasMailed, Keys, Readers, Answering, event, copies, mail, locals, history
<1>1. CASE UNCHANGED vars
  BY <1>1 DEF vars
<1>2. ASSUME NEW h \in BOOLEAN, CreateEvent(h) PROVE ShownWasMailed'
  BY <1>2 DEF CreateEvent
<1>3. ASSUME NEW h \in BOOLEAN, NEW i \in Uids \cup {EmptyUid, None}, PatchEvent(h, i)
      PROVE  ShownWasMailed'
  BY <1>3 DEF PatchEvent, Disturbed
<1>4. ASSUME NEW r \in Requests, NEW chosen \in SUBSET Addresses, PutAttendees(r, chosen)
      PROVE  ShownWasMailed'
  BY <1>4 DEF PutAttendees, Begins, Disturbed, Goto
<1>5. ASSUME NEW r \in Requests, NEW i \in Uids, StampUid(r, i) PROVE ShownWasMailed'
  BY <1>5 DEF StampUid, Goto
<1>6. ASSUME NEW r \in Requests, WriteRoster(r) PROVE ShownWasMailed'
  BY <1>6 DEF WriteRoster, Ends, Goto
<1>7. ASSUME NEW r \in Requests, RosterRefused(r) PROVE ShownWasMailed'
  BY <1>7 DEF RosterRefused, Ends, Goto
<1>8. ASSUME NEW r \in Requests, SendRequest(r) PROVE ShownWasMailed'
  BY <1>8 DEF SendRequest, Post, Ends, Goto
<1>9. ASSUME NEW r \in Requests, DeleteEvent(r) PROVE ShownWasMailed'
  BY <1>9 DEF DeleteEvent, Begins, Disturbed, Goto
<1>10. ASSUME NEW r \in Requests, ListAttendees(r) PROVE ShownWasMailed'
  BY <1>10 DEF ListAttendees, Goto
<1>11. ASSUME NEW r \in Requests, SendCancel(r) PROVE ShownWasMailed'
  BY <1>11 DEF SendCancel, Post, Goto
<1>12. ASSUME NEW r \in Requests, SendRefused(r) PROVE ShownWasMailed'
  BY <1>12 DEF SendRefused, Disturbed, Ends, Goto
<1>13. ASSUME NEW r \in Requests, DropEvent(r) PROVE ShownWasMailed'
  BY <1>13 DEF DropEvent, Ends, Goto
<1>14. ASSUME NEW r \in Requests, Abort(r) PROVE ShownWasMailed'
  BY <1>14 DEF Abort, Ends, Goto, Disturbed
<1>15. ASSUME NEW r \in Requests, NEW u \in Users, NEW i \in Uids, OpenThread(r, u, i)
      PROVE  ShownWasMailed'
  BY <1>15 DEF OpenThread, Goto
<1>16. ASSUME NEW r \in Requests, NEW i \in Uids, OpenReply(r, i) PROVE ShownWasMailed'
  BY <1>16 DEF OpenReply, Goto
<1>17. ASSUME NEW r \in Requests, Promote(r) PROVE ShownWasMailed'
  BY <1>17 DEF Promote, Ends, Goto, Promoted
<1>18. ASSUME NEW r \in Requests, PromoteOwn(r) PROVE ShownWasMailed'
  BY <1>18 DEF PromoteOwn, Ends, Goto, Disturbed
<1>19. ASSUME NEW r \in Requests, NEW u \in Users, NEW i \in Uids,
             NEW s \in Answers, Answer(r, u, i, s)
      PROVE  ShownWasMailed'
  BY <1>19 DEF Answer, Goto
<1>20. ASSUME NEW r \in Requests, SaveAnswer(r) PROVE ShownWasMailed'
  BY <1>20 DEF SaveAnswer, Ends, Goto
<1>21. ASSUME NEW r \in Requests, NoRowToUpdate(r) PROVE ShownWasMailed'
  BY <1>21 DEF NoRowToUpdate, Goto
<1>22. ASSUME NEW r \in Requests, InsertAnswer(r) PROVE ShownWasMailed'
  BY <1>22 DEF InsertAnswer, Ends, Goto
<1>23. ASSUME NEW p \in post, Receive(p) PROVE ShownWasMailed'
  BY <1>23 DEF Receive
<1>24. ASSUME NEW m \in replies, ReceiveReply(m) PROVE ShownWasMailed'
  BY <1>24 DEF ReceiveReply
<1> HIDE DEF ShownWasMailed
<1> QED
  BY <1>1, <1>2, <1>3, <1>4, <1>5, <1>6, <1>7, <1>8, <1>9, <1>10, <1>11, <1>12, <1>13,
     <1>14, <1>15, <1>16, <1>17, <1>18, <1>19, <1>20, <1>21, <1>22, <1>23, <1>24 DEF Next

LEMMA CalmNext ==
    TypeOK /\ Calm /\ [Next]_vars
    => Calm'
<1> SUFFICES ASSUME TypeOK, Calm, [Next]_vars
             PROVE  Calm'
  OBVIOUS
<1> USE NoneAssumption DEF TypeOK, Calm, Editing, Answering, Alone, event, copies, mail, locals, history
<1>1. CASE UNCHANGED vars
  BY <1>1 DEF vars
<1>2. ASSUME NEW h \in BOOLEAN, CreateEvent(h) PROVE Calm'
  BY <1>2 DEF CreateEvent
<1>3. ASSUME NEW h \in BOOLEAN, NEW i \in Uids \cup {EmptyUid, None}, PatchEvent(h, i)
      PROVE  Calm'
  BY <1>3 DEF PatchEvent, Disturbed
<1>4. ASSUME NEW r \in Requests, NEW chosen \in SUBSET Addresses, PutAttendees(r, chosen)
      PROVE  Calm'
  <2>1. CASE ~smooth'
    BY <2>1
  <2>2. CASE smooth /\ smooth' /\ Alone
    <3>1. \A q \in Requests : q # r => pc'[q] \notin Editing
      BY <1>4, <2>2 DEF PutAttendees, Begins, Goto
    <3>2. pc'[r] \in {"stamp", "roster"} /\ (pc'[r] = "stamp" => uid = None)
      BY <1>4 DEF PutAttendees, Begins, Goto
    <3>3. stage = "live" /\ UNCHANGED <<stage, home, uid>>
      BY <1>4 DEF PutAttendees
    <3>4. hadHome'[r] = home /\ hadUid'[r] = uid
      BY <1>4 DEF PutAttendees
    <3> QED
      BY <3>1, <3>2, <3>3, <3>4
  <2> QED
    BY <1>4, <2>1, <2>2 DEF PutAttendees, Begins, Disturbed
<1>5. ASSUME NEW r \in Requests, NEW i \in Uids, StampUid(r, i) PROVE Calm'
  BY <1>5 DEF StampUid, Goto
<1>6. ASSUME NEW r \in Requests, WriteRoster(r) PROVE Calm'
  <2>1. CASE Ends(r)
    BY <1>6, <2>1 DEF WriteRoster, Ends, Goto
  <2>2. CASE Goto(r, "send") /\ UNCHANGED locals /\ hadUid[r] \in Uids
    BY <1>6, <2>2 DEF WriteRoster, Goto
  <2> QED
    BY <1>6, <2>1, <2>2 DEF WriteRoster
<1>7. ASSUME NEW r \in Requests, RosterRefused(r) PROVE Calm'
  BY <1>7 DEF RosterRefused, Ends, Goto
<1>8. ASSUME NEW r \in Requests, SendRequest(r) PROVE Calm'
  BY <1>8 DEF SendRequest, Post, Ends, Goto
<1>9. ASSUME NEW r \in Requests, DeleteEvent(r) PROVE Calm'
  BY <1>9 DEF DeleteEvent, Begins, Disturbed, Goto
<1>10. ASSUME NEW r \in Requests, ListAttendees(r) PROVE Calm'
  BY <1>10 DEF ListAttendees, Goto
<1>11. ASSUME NEW r \in Requests, SendCancel(r) PROVE Calm'
  BY <1>11 DEF SendCancel, Post, Goto
<1>12. ASSUME NEW r \in Requests, SendRefused(r) PROVE Calm'
  BY <1>12 DEF SendRefused, Disturbed, Ends, Goto
<1>13. ASSUME NEW r \in Requests, DropEvent(r) PROVE Calm'
  BY <1>13 DEF DropEvent, Ends, Goto
<1>14. ASSUME NEW r \in Requests, Abort(r) PROVE Calm'
  BY <1>14 DEF Abort, Ends, Goto, Disturbed
<1>15. ASSUME NEW r \in Requests, NEW u \in Users, NEW i \in Uids, OpenThread(r, u, i)
      PROVE  Calm'
  BY <1>15 DEF OpenThread, Goto
<1>16. ASSUME NEW r \in Requests, NEW i \in Uids, OpenReply(r, i) PROVE Calm'
  BY <1>16 DEF OpenReply, Goto
<1>17. ASSUME NEW r \in Requests, Promote(r) PROVE Calm'
  BY <1>17 DEF Promote, Ends, Goto
<1>18. ASSUME NEW r \in Requests, PromoteOwn(r) PROVE Calm'
  BY <1>18 DEF PromoteOwn, Ends, Goto, Disturbed
<1>19. ASSUME NEW r \in Requests, NEW u \in Users, NEW i \in Uids,
             NEW s \in Answers, Answer(r, u, i, s)
      PROVE  Calm'
  BY <1>19 DEF Answer, Goto
<1>20. ASSUME NEW r \in Requests, SaveAnswer(r) PROVE Calm'
  BY <1>20 DEF SaveAnswer, Ends, Goto
<1>21. ASSUME NEW r \in Requests, NoRowToUpdate(r) PROVE Calm'
  BY <1>21 DEF NoRowToUpdate, Goto
<1>22. ASSUME NEW r \in Requests, InsertAnswer(r) PROVE Calm'
  BY <1>22 DEF InsertAnswer, Ends, Goto
<1>23. ASSUME NEW p \in post, Receive(p) PROVE Calm'
  BY <1>23 DEF Receive
<1>24. ASSUME NEW m \in replies, ReceiveReply(m) PROVE Calm'
  BY <1>24 DEF ReceiveReply
<1> HIDE DEF Calm
<1> QED
  BY <1>1, <1>2, <1>3, <1>4, <1>5, <1>6, <1>7, <1>8, <1>9, <1>10, <1>11, <1>12, <1>13,
     <1>14, <1>15, <1>16, <1>17, <1>18, <1>19, <1>20, <1>21, <1>22, <1>23, <1>24 DEF Next

LEMMA MailsNext ==
    TypeOK /\ Talking /\ Addressed /\ Calm /\ OneUid /\ Mails /\ [Next]_vars
    => Mails'
<1> SUFFICES ASSUME TypeOK, Talking, Addressed, Calm, OneUid, Mails, [Next]_vars
             PROVE  Mails'
  OBVIOUS
<1> USE NoneAssumption, BoxAssumption DEF TypeOK, Talking, Calm, OneUid, Mails, Replies, Answering, Editing, Invited, event, copies, mail, locals, history
<1>1. CASE UNCHANGED vars
  BY <1>1 DEF vars
<1>2. ASSUME NEW h \in BOOLEAN, CreateEvent(h) PROVE Mails'
  BY <1>2 DEF CreateEvent
<1>3. ASSUME NEW h \in BOOLEAN, NEW i \in Uids \cup {EmptyUid, None}, PatchEvent(h, i)
      PROVE  Mails'
  <2>1. CASE ~smooth'
    BY <2>1
  <2>2. CASE smooth'
    <3>1. smooth /\ (uid \in Uids => uid' = uid)
      BY <1>3, <2>2 DEF PatchEvent, Disturbed
    <3>2. CASE uid \in Uids
      BY <1>3, <3>1, <3>2 DEF PatchEvent
    <3>3. CASE uid \notin Uids
      <4>1. replies = {} /\ returns = {}
        BY <3>1, <3>3
      <4>2. ASSUME NEW q \in Requests, pc[q] \in Answering PROVE FALSE
        <5>1. card[q] \in Uids
          BY <4>2
        <5>2. card[q] = uid
          BY <4>2, <3>1
        <5> QED
          BY <5>1, <5>2, <3>3
      <4> QED
        BY <1>3, <4>1, <4>2 DEF PatchEvent
    <3> QED
      BY <3>2, <3>3
  <2> QED
    BY <2>1, <2>2
<1>4. ASSUME NEW r \in Requests, NEW chosen \in SUBSET Addresses, PutAttendees(r, chosen)
      PROVE  Mails'
  BY <1>4 DEF PutAttendees, Begins, Disturbed, Goto
<1>5. ASSUME NEW r \in Requests, NEW i \in Uids, StampUid(r, i) PROVE Mails'
  <2>1. CASE ~smooth
    BY <1>5, <2>1 DEF StampUid
  <2>2. CASE smooth
    <3>1. uid = None
      BY <1>5, <2>2 DEF StampUid
    <3>2. \A m \in replies : FALSE
      BY <2>2, <3>1
    <3>3. \A j \in returns : FALSE
      BY <2>2, <3>1
    <3>4. ASSUME NEW q \in Requests, pc[q] \in Answering PROVE FALSE
      <4>1. card[q] \in Uids
        BY <3>4
      <4>2. card[q] = uid
        BY <3>4, <2>2
      <4> QED
        BY <4>1, <4>2, <3>1
    <3> QED
      BY <1>5, <3>2, <3>3, <3>4 DEF StampUid, Goto
  <2> QED
    BY <2>1, <2>2
<1>6. ASSUME NEW r \in Requests, WriteRoster(r) PROVE Mails'
  BY <1>6 DEF WriteRoster, Ends, Goto
<1>7. ASSUME NEW r \in Requests, RosterRefused(r) PROVE Mails'
  BY <1>7 DEF RosterRefused, Ends, Goto
<1>8. ASSUME NEW r \in Requests, SendRequest(r) PROVE Mails'
  BY <1>8 DEF SendRequest, Post, Ends, Goto
<1>9. ASSUME NEW r \in Requests, DeleteEvent(r) PROVE Mails'
  BY <1>9 DEF DeleteEvent, Begins, Disturbed, Goto
<1>10. ASSUME NEW r \in Requests, ListAttendees(r) PROVE Mails'
  BY <1>10 DEF ListAttendees, Goto
<1>11. ASSUME NEW r \in Requests, SendCancel(r) PROVE Mails'
  BY <1>11 DEF SendCancel, Post, Goto
<1>12. ASSUME NEW r \in Requests, SendRefused(r) PROVE Mails'
  BY <1>12 DEF SendRefused, Disturbed, Ends, Goto
<1>13. ASSUME NEW r \in Requests, DropEvent(r) PROVE Mails'
  BY <1>13 DEF DropEvent, Ends, Goto
<1>14. ASSUME NEW r \in Requests, Abort(r) PROVE Mails'
  BY <1>14 DEF Abort, Ends, Goto, Disturbed
<1>15. ASSUME NEW r \in Requests, NEW u \in Users, NEW i \in Uids, OpenThread(r, u, i)
      PROVE  Mails'
  BY <1>15 DEF OpenThread, Goto
<1>16. ASSUME NEW r \in Requests, NEW i \in Uids, OpenReply(r, i) PROVE Mails'
  BY <1>16 DEF OpenReply, Goto
<1>17. ASSUME NEW r \in Requests, Promote(r) PROVE Mails'
  BY <1>17 DEF Promote, Ends, Goto
<1>18. ASSUME NEW r \in Requests, PromoteOwn(r) PROVE Mails'
  BY <1>18 DEF PromoteOwn, Ends, Goto, Disturbed
<1>19. ASSUME NEW r \in Requests, NEW u \in Users, NEW i \in Uids,
             NEW s \in Answers, Answer(r, u, i, s)
      PROVE  Mails'
  BY <1>19 DEF Answer, Goto
<1>20. ASSUME NEW r \in Requests, SaveAnswer(r) PROVE Mails'
  BY <1>20 DEF SaveAnswer, Ends, Goto
<1>21. ASSUME NEW r \in Requests, NoRowToUpdate(r) PROVE Mails'
  BY <1>21 DEF NoRowToUpdate, Goto
<1>22. ASSUME NEW r \in Requests, InsertAnswer(r) PROVE Mails'
  BY <1>22 DEF InsertAnswer, Ends, Goto
<1>23. ASSUME NEW p \in post, Receive(p) PROVE Mails'
  BY <1>23 DEF Receive
<1>24. ASSUME NEW m \in replies, ReceiveReply(m) PROVE Mails'
  BY <1>24 DEF ReceiveReply
<1> HIDE DEF Mails
<1> QED
  BY <1>1, <1>2, <1>3, <1>4, <1>5, <1>6, <1>7, <1>8, <1>9, <1>10, <1>11, <1>12, <1>13,
     <1>14, <1>15, <1>16, <1>17, <1>18, <1>19, <1>20, <1>21, <1>22, <1>23, <1>24 DEF Next

LEMMA OneUidNext ==
    TypeOK /\ Talking /\ Addressed /\ Calm /\ Mails /\ OneUid /\ [Next]_vars
    => OneUid'
<1> SUFFICES ASSUME TypeOK, Talking, Addressed, Calm, Mails, OneUid, [Next]_vars
             PROVE  OneUid'
  OBVIOUS
<1> USE NoneAssumption DEF TypeOK, Talking, Calm, OneUid, Mails, Keys, Invites, Posted, Answering, Editing, event, copies, mail, locals, history
<1>1. CASE UNCHANGED vars
  BY <1>1 DEF vars
<1>2. ASSUME NEW h \in BOOLEAN, CreateEvent(h) PROVE OneUid'
  BY <1>2 DEF CreateEvent
<1>3. ASSUME NEW h \in BOOLEAN, NEW i \in Uids \cup {EmptyUid, None}, PatchEvent(h, i)
      PROVE  OneUid'
  <2>1. CASE ~smooth'
    BY <2>1
  <2>2. CASE smooth'
    <3>1. smooth /\ (uid \in Uids => uid' = uid)
      BY <1>3, <2>2 DEF PatchEvent, Disturbed
    <3>2. CASE uid \in Uids
      BY <1>3, <3>1, <3>2 DEF PatchEvent
    <3>3. CASE uid \notin Uids
      <4>1. post = {}
        BY <3>1, <3>3
      <4>2. \A a \in Addresses : inbox[a] = {}
        BY <3>1, <3>3
      <4>3. \A k \in Keys : rsvp[k] = None
        BY <3>1, <3>3
      <4> QED
        BY <1>3, <4>1, <4>2, <4>3 DEF PatchEvent
    <3> QED
      BY <3>2, <3>3
  <2> QED
    BY <2>1, <2>2
<1>4. ASSUME NEW r \in Requests, NEW chosen \in SUBSET Addresses, PutAttendees(r, chosen)
      PROVE  OneUid'
  BY <1>4 DEF PutAttendees, Begins, Disturbed, Goto
<1>5. ASSUME NEW r \in Requests, NEW i \in Uids, StampUid(r, i) PROVE OneUid'
  BY <1>5 DEF StampUid, Goto
<1>6. ASSUME NEW r \in Requests, WriteRoster(r) PROVE OneUid'
  BY <1>6 DEF WriteRoster, Ends, Goto
<1>7. ASSUME NEW r \in Requests, RosterRefused(r) PROVE OneUid'
  BY <1>7 DEF RosterRefused, Ends, Goto
<1>8. ASSUME NEW r \in Requests, SendRequest(r) PROVE OneUid'
  BY <1>8 DEF SendRequest, Post, Ends, Goto
<1>9. ASSUME NEW r \in Requests, DeleteEvent(r) PROVE OneUid'
  BY <1>9 DEF DeleteEvent, Begins, Disturbed, Goto
<1>10. ASSUME NEW r \in Requests, ListAttendees(r) PROVE OneUid'
  BY <1>10 DEF ListAttendees, Goto
<1>11. ASSUME NEW r \in Requests, SendCancel(r) PROVE OneUid'
  BY <1>11 DEF SendCancel, Post, Goto
<1>12. ASSUME NEW r \in Requests, SendRefused(r) PROVE OneUid'
  BY <1>12 DEF SendRefused, Disturbed, Ends, Goto
<1>13. ASSUME NEW r \in Requests, DropEvent(r) PROVE OneUid'
  BY <1>13 DEF DropEvent, Ends, Goto
<1>14. ASSUME NEW r \in Requests, Abort(r) PROVE OneUid'
  BY <1>14 DEF Abort, Ends, Goto, Disturbed
<1>15. ASSUME NEW r \in Requests, NEW u \in Users, NEW i \in Uids, OpenThread(r, u, i)
      PROVE  OneUid'
  BY <1>15 DEF OpenThread, Goto
<1>16. ASSUME NEW r \in Requests, NEW i \in Uids, OpenReply(r, i) PROVE OneUid'
  BY <1>16 DEF OpenReply, Goto
<1>17. ASSUME NEW r \in Requests, Promote(r) PROVE OneUid'
  BY <1>17 DEF Promote, Ends, Goto, Promoted
<1>18. ASSUME NEW r \in Requests, PromoteOwn(r) PROVE OneUid'
  BY <1>18 DEF PromoteOwn, Ends, Goto, Disturbed
<1>19. ASSUME NEW r \in Requests, NEW u \in Users, NEW i \in Uids,
             NEW s \in Answers, Answer(r, u, i, s)
      PROVE  OneUid'
  BY <1>19 DEF Answer, Goto
<1>20. ASSUME NEW r \in Requests, SaveAnswer(r) PROVE OneUid'
  BY <1>20 DEF SaveAnswer, Ends, Goto
<1>21. ASSUME NEW r \in Requests, NoRowToUpdate(r) PROVE OneUid'
  BY <1>21 DEF NoRowToUpdate, Goto
<1>22. ASSUME NEW r \in Requests, InsertAnswer(r) PROVE OneUid'
  BY <1>22 DEF InsertAnswer, Ends, Goto
<1>23. ASSUME NEW p \in post, Receive(p) PROVE OneUid'
  BY <1>23 DEF Receive
<1>24. ASSUME NEW m \in replies, ReceiveReply(m) PROVE OneUid'
  BY <1>24 DEF ReceiveReply
<1> HIDE DEF OneUid
<1> QED
  BY <1>1, <1>2, <1>3, <1>4, <1>5, <1>6, <1>7, <1>8, <1>9, <1>10, <1>11, <1>12, <1>13,
     <1>14, <1>15, <1>16, <1>17, <1>18, <1>19, <1>20, <1>21, <1>22, <1>23, <1>24 DEF Next

LEMMA OwesNext ==
    TypeOK /\ Addressed /\ Calm /\ Owes /\ [Next]_vars
    => Owes'
<1> SUFFICES ASSUME TypeOK, Addressed, Calm, Owes, [Next]_vars
             PROVE  Owes'
  OBVIOUS
<1> USE NoneAssumption, AnswersAssumption DEF TypeOK, Addressed, Calm, Owes, Listed, Alone, Editing, Answering, event, copies, mail, locals, history
<1>1. CASE UNCHANGED vars
  BY <1>1 DEF vars
<1>2. ASSUME NEW h \in BOOLEAN, CreateEvent(h) PROVE Owes'
  BY <1>2 DEF CreateEvent
<1>3. ASSUME NEW h \in BOOLEAN, NEW i \in Uids \cup {EmptyUid, None}, PatchEvent(h, i)
      PROVE  Owes'
  BY <1>3 DEF PatchEvent, Disturbed
<1>4. ASSUME NEW r \in Requests, NEW chosen \in SUBSET Addresses, PutAttendees(r, chosen)
      PROVE  Owes'
  BY <1>4 DEF PutAttendees, Begins, Disturbed, Goto
<1>5. ASSUME NEW r \in Requests, NEW i \in Uids, StampUid(r, i) PROVE Owes'
  BY <1>5 DEF StampUid, Goto
<1>6. ASSUME NEW r \in Requests, WriteRoster(r) PROVE Owes'
  BY <1>6 DEF WriteRoster, Ends, Goto
<1>7. ASSUME NEW r \in Requests, RosterRefused(r) PROVE Owes'
  BY <1>7 DEF RosterRefused, Ends, Goto
<1>8. ASSUME NEW r \in Requests, SendRequest(r) PROVE Owes'
  BY <1>8 DEF SendRequest, Post, Ends, Goto
<1>9. ASSUME NEW r \in Requests, DeleteEvent(r) PROVE Owes'
  BY <1>9 DEF DeleteEvent, Begins, Disturbed, Goto
<1>10. ASSUME NEW r \in Requests, ListAttendees(r) PROVE Owes'
  BY <1>10 DEF ListAttendees, Goto
<1>11. ASSUME NEW r \in Requests, SendCancel(r) PROVE Owes'
  BY <1>11 DEF SendCancel, Post, Goto
<1>12. ASSUME NEW r \in Requests, SendRefused(r) PROVE Owes'
  BY <1>12 DEF SendRefused, Disturbed, Ends, Goto
<1>13. ASSUME NEW r \in Requests, DropEvent(r) PROVE Owes'
  BY <1>13 DEF DropEvent, Ends, Goto, NoOne
<1>14. ASSUME NEW r \in Requests, Abort(r) PROVE Owes'
  BY <1>14 DEF Abort, Ends, Goto, Disturbed
<1>15. ASSUME NEW r \in Requests, NEW u \in Users, NEW i \in Uids, OpenThread(r, u, i)
      PROVE  Owes'
  BY <1>15 DEF OpenThread, Goto
<1>16. ASSUME NEW r \in Requests, NEW i \in Uids, OpenReply(r, i) PROVE Owes'
  BY <1>16 DEF OpenReply, Goto
<1>17. ASSUME NEW r \in Requests, Promote(r) PROVE Owes'
  BY <1>17 DEF Promote, Ends, Goto
<1>18. ASSUME NEW r \in Requests, PromoteOwn(r) PROVE Owes'
  BY <1>18 DEF PromoteOwn, Ends, Goto, Disturbed
<1>19. ASSUME NEW r \in Requests, NEW u \in Users, NEW i \in Uids,
             NEW s \in Answers, Answer(r, u, i, s)
      PROVE  Owes'
  BY <1>19 DEF Answer, Goto
<1>20. ASSUME NEW r \in Requests, SaveAnswer(r) PROVE Owes'
  BY <1>20 DEF SaveAnswer, Ends, Goto
<1>21. ASSUME NEW r \in Requests, NoRowToUpdate(r) PROVE Owes'
  BY <1>21 DEF NoRowToUpdate, Goto
<1>22. ASSUME NEW r \in Requests, InsertAnswer(r) PROVE Owes'
  BY <1>22 DEF InsertAnswer, Ends, Goto
<1>23. ASSUME NEW p \in post, Receive(p) PROVE Owes'
  BY <1>23 DEF Receive
<1>24. ASSUME NEW m \in replies, ReceiveReply(m) PROVE Owes'
  BY <1>24 DEF ReceiveReply, Recorded, Replies
<1> HIDE DEF Owes
<1> QED
  BY <1>1, <1>2, <1>3, <1>4, <1>5, <1>6, <1>7, <1>8, <1>9, <1>10, <1>11, <1>12, <1>13,
     <1>14, <1>15, <1>16, <1>17, <1>18, <1>19, <1>20, <1>21, <1>22, <1>23, <1>24 DEF Next

LEMMA DeletedIsAnnouncedNext ==
    TypeOK /\ Calm /\ Owes /\ DeletedIsAnnounced /\ [Next]_vars
    => DeletedIsAnnounced'
<1> SUFFICES ASSUME TypeOK, Calm, Owes, DeletedIsAnnounced, [Next]_vars
             PROVE  DeletedIsAnnounced'
  OBVIOUS
<1> USE NoneAssumption DEF TypeOK, Calm, Owes, DeletedIsAnnounced, Alone, Editing, Answering, event, copies, mail, locals, history
<1>1. CASE UNCHANGED vars
  BY <1>1 DEF vars
<1>2. ASSUME NEW h \in BOOLEAN, CreateEvent(h) PROVE DeletedIsAnnounced'
  BY <1>2 DEF CreateEvent
<1>3. ASSUME NEW h \in BOOLEAN, NEW i \in Uids \cup {EmptyUid, None}, PatchEvent(h, i)
      PROVE  DeletedIsAnnounced'
  BY <1>3 DEF PatchEvent, Disturbed
<1>4. ASSUME NEW r \in Requests, NEW chosen \in SUBSET Addresses, PutAttendees(r, chosen)
      PROVE  DeletedIsAnnounced'
  BY <1>4 DEF PutAttendees, Begins, Disturbed, Goto
<1>5. ASSUME NEW r \in Requests, NEW i \in Uids, StampUid(r, i) PROVE DeletedIsAnnounced'
  BY <1>5 DEF StampUid, Goto
<1>6. ASSUME NEW r \in Requests, WriteRoster(r) PROVE DeletedIsAnnounced'
  BY <1>6 DEF WriteRoster, Ends, Goto
<1>7. ASSUME NEW r \in Requests, RosterRefused(r) PROVE DeletedIsAnnounced'
  BY <1>7 DEF RosterRefused, Ends, Goto
<1>8. ASSUME NEW r \in Requests, SendRequest(r) PROVE DeletedIsAnnounced'
  BY <1>8 DEF SendRequest, Post, Ends, Goto
<1>9. ASSUME NEW r \in Requests, DeleteEvent(r) PROVE DeletedIsAnnounced'
  BY <1>9 DEF DeleteEvent, Begins, Disturbed, Goto
<1>10. ASSUME NEW r \in Requests, ListAttendees(r) PROVE DeletedIsAnnounced'
  BY <1>10 DEF ListAttendees, Goto
<1>11. ASSUME NEW r \in Requests, SendCancel(r) PROVE DeletedIsAnnounced'
  BY <1>11 DEF SendCancel, Post, Goto
<1>12. ASSUME NEW r \in Requests, SendRefused(r) PROVE DeletedIsAnnounced'
  BY <1>12 DEF SendRefused, Disturbed, Ends, Goto
<1>13. ASSUME NEW r \in Requests, DropEvent(r) PROVE DeletedIsAnnounced'
  BY <1>13 DEF DropEvent, Ends, Goto
<1>14. ASSUME NEW r \in Requests, Abort(r) PROVE DeletedIsAnnounced'
  BY <1>14 DEF Abort, Ends, Goto, Disturbed
<1>15. ASSUME NEW r \in Requests, NEW u \in Users, NEW i \in Uids, OpenThread(r, u, i)
      PROVE  DeletedIsAnnounced'
  BY <1>15 DEF OpenThread, Goto
<1>16. ASSUME NEW r \in Requests, NEW i \in Uids, OpenReply(r, i) PROVE DeletedIsAnnounced'
  BY <1>16 DEF OpenReply, Goto
<1>17. ASSUME NEW r \in Requests, Promote(r) PROVE DeletedIsAnnounced'
  BY <1>17 DEF Promote, Ends, Goto
<1>18. ASSUME NEW r \in Requests, PromoteOwn(r) PROVE DeletedIsAnnounced'
  BY <1>18 DEF PromoteOwn, Ends, Goto, Disturbed, Own
<1>19. ASSUME NEW r \in Requests, NEW u \in Users, NEW i \in Uids,
             NEW s \in Answers, Answer(r, u, i, s)
      PROVE  DeletedIsAnnounced'
  BY <1>19 DEF Answer, Goto
<1>20. ASSUME NEW r \in Requests, SaveAnswer(r) PROVE DeletedIsAnnounced'
  BY <1>20 DEF SaveAnswer, Ends, Goto
<1>21. ASSUME NEW r \in Requests, NoRowToUpdate(r) PROVE DeletedIsAnnounced'
  BY <1>21 DEF NoRowToUpdate, Goto
<1>22. ASSUME NEW r \in Requests, InsertAnswer(r) PROVE DeletedIsAnnounced'
  BY <1>22 DEF InsertAnswer, Ends, Goto
<1>23. ASSUME NEW p \in post, Receive(p) PROVE DeletedIsAnnounced'
  BY <1>23 DEF Receive
<1>24. ASSUME NEW m \in replies, ReceiveReply(m) PROVE DeletedIsAnnounced'
  BY <1>24 DEF ReceiveReply
<1> HIDE DEF DeletedIsAnnounced
<1> QED
  BY <1>1, <1>2, <1>3, <1>4, <1>5, <1>6, <1>7, <1>8, <1>9, <1>10, <1>11, <1>12, <1>13,
     <1>14, <1>15, <1>16, <1>17, <1>18, <1>19, <1>20, <1>21, <1>22, <1>23, <1>24 DEF Next

LEMMA StaysAnsweredNext ==
    TypeOK /\ Talking /\ [Next]_vars
    => StaysAnswered
<1> SUFFICES ASSUME TypeOK, Talking, [Next]_vars
             PROVE  StaysAnswered
  OBVIOUS
<1> USE NoneAssumption, AnswersAssumption DEF TypeOK, Talking, Answering, Keys, Readers, StaysAnswered, event, copies, mail, locals, history
<1>1. CASE UNCHANGED vars
  BY <1>1 DEF vars
<1>2. ASSUME NEW h \in BOOLEAN, CreateEvent(h) PROVE StaysAnswered
  BY <1>2 DEF CreateEvent
<1>3. ASSUME NEW h \in BOOLEAN, NEW i \in Uids \cup {EmptyUid, None}, PatchEvent(h, i)
      PROVE  StaysAnswered
  BY <1>3 DEF PatchEvent, Disturbed
<1>4. ASSUME NEW r \in Requests, NEW chosen \in SUBSET Addresses, PutAttendees(r, chosen)
      PROVE  StaysAnswered
  BY <1>4 DEF PutAttendees, Begins, Disturbed, Goto
<1>5. ASSUME NEW r \in Requests, NEW i \in Uids, StampUid(r, i) PROVE StaysAnswered
  BY <1>5 DEF StampUid, Goto
<1>6. ASSUME NEW r \in Requests, WriteRoster(r) PROVE StaysAnswered
  BY <1>6 DEF WriteRoster, Ends, Goto
<1>7. ASSUME NEW r \in Requests, RosterRefused(r) PROVE StaysAnswered
  BY <1>7 DEF RosterRefused, Ends, Goto
<1>8. ASSUME NEW r \in Requests, SendRequest(r) PROVE StaysAnswered
  BY <1>8 DEF SendRequest, Post, Ends, Goto
<1>9. ASSUME NEW r \in Requests, DeleteEvent(r) PROVE StaysAnswered
  BY <1>9 DEF DeleteEvent, Begins, Disturbed, Goto
<1>10. ASSUME NEW r \in Requests, ListAttendees(r) PROVE StaysAnswered
  BY <1>10 DEF ListAttendees, Goto
<1>11. ASSUME NEW r \in Requests, SendCancel(r) PROVE StaysAnswered
  BY <1>11 DEF SendCancel, Post, Goto
<1>12. ASSUME NEW r \in Requests, SendRefused(r) PROVE StaysAnswered
  BY <1>12 DEF SendRefused, Disturbed, Ends, Goto
<1>13. ASSUME NEW r \in Requests, DropEvent(r) PROVE StaysAnswered
  BY <1>13 DEF DropEvent, Ends, Goto
<1>14. ASSUME NEW r \in Requests, Abort(r) PROVE StaysAnswered
  BY <1>14 DEF Abort, Ends, Goto, Disturbed
<1>15. ASSUME NEW r \in Requests, NEW u \in Users, NEW i \in Uids, OpenThread(r, u, i)
      PROVE  StaysAnswered
  BY <1>15 DEF OpenThread, Goto
<1>16. ASSUME NEW r \in Requests, NEW i \in Uids, OpenReply(r, i) PROVE StaysAnswered
  BY <1>16 DEF OpenReply, Goto
<1>17. ASSUME NEW r \in Requests, Promote(r) PROVE StaysAnswered
  BY <1>17 DEF Promote, Ends, Goto, Promoted
<1>18. ASSUME NEW r \in Requests, PromoteOwn(r) PROVE StaysAnswered
  BY <1>18 DEF PromoteOwn, Ends, Goto, Disturbed
<1>19. ASSUME NEW r \in Requests, NEW u \in Users, NEW i \in Uids,
             NEW s \in Answers, Answer(r, u, i, s)
      PROVE  StaysAnswered
  BY <1>19 DEF Answer, Goto
<1>20. ASSUME NEW r \in Requests, SaveAnswer(r) PROVE StaysAnswered
  BY <1>20 DEF SaveAnswer, Ends, Goto
<1>21. ASSUME NEW r \in Requests, NoRowToUpdate(r) PROVE StaysAnswered
  BY <1>21 DEF NoRowToUpdate, Goto
<1>22. ASSUME NEW r \in Requests, InsertAnswer(r) PROVE StaysAnswered
  BY <1>22 DEF InsertAnswer, Ends, Goto
<1>23. ASSUME NEW p \in post, Receive(p) PROVE StaysAnswered
  BY <1>23 DEF Receive
<1>24. ASSUME NEW m \in replies, ReceiveReply(m) PROVE StaysAnswered
  BY <1>24 DEF ReceiveReply
<1> HIDE DEF StaysAnswered
<1> QED
  BY <1>1, <1>2, <1>3, <1>4, <1>5, <1>6, <1>7, <1>8, <1>9, <1>10, <1>11, <1>12, <1>13,
     <1>14, <1>15, <1>16, <1>17, <1>18, <1>19, <1>20, <1>21, <1>22, <1>23, <1>24 DEF Next

LEMMA InitInv == Init => IInv
<1> SUFFICES ASSUME Init
             PROVE  IInv
  OBVIOUS
<1> USE NoneAssumption, AnswersAssumption, MaxMailsAssumption DEF Init, NoOne
<1>1. TypeOK
  <2>1. stage \in {"new", "live", "gone"} /\ home \in BOOLEAN /\ uid \in Uids \cup {None}
    OBVIOUS
  <2>2. roster \in [Addresses -> Answers \cup {"NEEDS-ACTION", None}]
    OBVIOUS
  <2>3. rsvp \in [Keys -> Answers \cup {"NEEDS-ACTION", None}]
    OBVIOUS
  <2>4. /\ dead \in SUBSET Keys /\ returns \in SUBSET Uids /\ post \in SUBSET Posted
        /\ replies \in SUBSET Replies /\ inbox \in [Addresses -> SUBSET Invites]
    OBVIOUS
  <2>5. pc \in [Requests -> {"idle"} \cup Editing \cup Answering]
    OBVIOUS
  <2>6. /\ hadHome \in [Requests -> BOOLEAN]
        /\ hadUid \in [Requests -> Uids \cup {None}]
        /\ list \in [Requests -> SUBSET Addresses]
    OBVIOUS
  <2>7. /\ who \in [Requests -> Readers \cup {None}]
        /\ card \in [Requests -> Uids \cup {None}]
        /\ say \in [Requests -> Answers \cup {None}]
    OBVIOUS
  <2>8. /\ sent \in 0..MaxMails /\ minted \in SUBSET Uids /\ smooth \in BOOLEAN
        /\ given \in SUBSET (Addresses \X Answers) /\ owed \in SUBSET Addresses
    OBVIOUS
  <2> QED
    BY <2>1, <2>2, <2>3, <2>4, <2>5, <2>6, <2>7, <2>8 DEF TypeOK
<1>2. Talking /\ Addressed /\ NothingRecorded
  BY DEF Talking, Addressed, NothingRecorded, Answering
<1>3. ShownWasMailed /\ OneUid
  BY DEF ShownWasMailed, OneUid, Keys, Readers
<1>4. Calm /\ Mails /\ Owes /\ DeletedIsAnnounced
  BY DEF Calm, Mails, Owes, DeletedIsAnnounced, Alone, Editing, Answering, Listed
<1> QED
  BY <1>1, <1>2, <1>3, <1>4 DEF IInv

LEMMA InvNext == IInv /\ [Next]_vars => IInv'
  BY TypeOKNext, TalkingNext, AddressedNext, NothingRecordedNext,
     ShownWasMailedNext, CalmNext, MailsNext, OneUidNext, OwesNext, DeletedIsAnnouncedNext
  DEF IInv

LEMMA InvHolds == Spec => []IInv
  BY InitInv, InvNext, PTL DEF Spec

\* The types of the invitations.
THEOREM InvitationsTypeCorrect == Spec => []TypeOK
<1>1. IInv => TypeOK
  BY DEF IInv
<1> QED
  BY <1>1, InvHolds, PTL

\* An answer on a calendar was mailed first (rsvp/route.ts, POST), whatever promotion,
\* second answer or crash comes between its steps.
THEOREM ShownAnswersWereMailed == Spec => []ShownWasMailed
<1>1. IInv => ShownWasMailed
  BY DEF IInv
<1> QED
  BY <1>1, InvHolds, PTL

\* The organizer's list never shows an answer: the branch that would write it (store.ts,
\* REPLY) asks for a METHOD that the parser does not find in the mails of this system.
THEOREM NoAnswerIsRecorded == Spec => []NothingRecorded
<1>1. IInv => NothingRecorded
  BY DEF IInv
<1> QED
  BY <1>1, InvHolds, PTL

\* Saves that do not overlap, and leave the UID they find as it is, leave no listed
\* invitee without a cancellation ([id]/route.ts, DELETE).
THEOREM DeletionIsAnnounced == Spec => []DeletedIsAnnounced
<1>1. IInv => DeletedIsAnnounced
  BY DEF IInv
<1> QED
  BY <1>1, InvHolds, PTL

\* As long as saves do not overlap and no PATCH replaces a UID, all mail and all copies
\* of the event carry one (attendees/route.ts, PUT).
THEOREM OneUidPerEvent == Spec => []OneUid
<1>1. IInv => OneUid
  BY DEF IInv
<1> QED
  BY <1>1, InvHolds, PTL

\* No promotion takes an answer back (calendar.ts, upsertCalendarEvent).
THEOREM AnswersStay == Spec => AnswerStays
<1>1. IInv /\ [Next]_vars => [StaysAnswered]_vars
  BY StaysAnsweredNext DEF IInv
<1> QED
  BY <1>1, InvHolds, PTL DEF Spec, AnswerStays, StaysAnswered

-----------------------------------------------------------------------------
(***************************************************************************)
(* THE COMPOSER, for any number of slots, files, letters, drafts, rows and *)
(* mishaps.  First the types: every part by itself, then action by action. *)
(***************************************************************************)

LEMMA Bounds ==
  /\ UploadTTL \in Nat /\ MaxLetters \in Nat /\ MaxDrafts \in Nat
  /\ MaxOpens \in Nat /\ MaxTime \in Nat
BY ComposerAssumption

LEMMA ComposerTypeInit == ComposerInit => ComposerTypeOK
<1> SUFFICES ASSUME ComposerInit PROVE ComposerTypeOK
  OBVIOUS
<1> USE Bounds DEF ComposerInit
<1>1. window \in [n : 0 .. MaxOpens, open : BOOLEAN, seen : SUBSET Written,
                   letter : 0 .. typed, draft : 0 .. made, files : SUBSET Files]
  OBVIOUS
<1>2. NoCall \in Calls
  BY DEF NoCall, Calls, Sending
<1>3. calls \in [Slots -> Calls]
  BY <1>2
<1>4. rows \in Seq(Rows) /\ Len(rows) = 0
  OBVIOUS
<1>5. IsABag(EmptyBag) /\ BagToSet(EmptyBag) = {}
  BY DEF IsABag, EmptyBag, SetToBag, BagToSet
<1>6. drafts \in [DOMAIN drafts -> Written] /\ DOMAIN drafts = {}
  OBVIOUS
<1>7. uploads \in [DOMAIN uploads -> 0 .. now] /\ DOMAIN uploads = {}
      /\ stamped \in [DOMAIN stamped -> 0 .. now] /\ DOMAIN stamped = {}
  OBVIOUS
<1>8. \A c \in Slots : calls[c].kind = "none" /\ calls[c].step = "asked"
  BY DEF NoCall
<1>9. QED
  BY <1>1, <1>3, <1>4, <1>5, <1>6, <1>7, <1>8 DEF ComposerTypeOK, Sending, Queueing

(* What happens to the calls: one is answered, one is done, one is asked. *)

LEMMA AnsweredIs ==
  ASSUME ComposerTypeOK, NEW c \in Slots, NEW s \in {"asked", "mailed", "claimed", "ok", "refused"},
         Answered(c, s)
  PROVE  /\ calls' \in [Slots -> Calls]
         /\ \A b \in Slots :
              /\ calls'[b].kind = calls[b].kind /\ calls'[b].n = calls[b].n
              /\ calls'[b].seen = calls[b].seen /\ calls'[b].letter = calls[b].letter
              /\ calls'[b].draft = calls[b].draft /\ calls'[b].files = calls[b].files
              /\ calls'[b].due = calls[b].due /\ calls'[b].row = calls[b].row
              /\ calls'[b].step = IF b = c THEN s ELSE calls[b].step
<1>1. calls \in [Slots -> Calls]
  BY DEF ComposerTypeOK
<1>2. QED
  BY <1>1 DEF Answered, Calls

LEMMA CallsGrow ==
  ASSUME ComposerTypeOK, NEW call \in Calls,
         typed' \in Nat, made' \in Nat, window'.n \in Nat, Len(rows') \in Nat,
         typed <= typed', made <= made', window.n <= window'.n, Len(rows) <= Len(rows')
  PROVE  call \in Calls'
BY DEF ComposerTypeOK, Calls, Written, Sending, Queueing

(* The types, part by part. *)

WindowTyped ==
  window \in [n : 0 .. MaxOpens, open : BOOLEAN, seen : SUBSET Written,
              letter : 0 .. typed, draft : 0 .. made, files : SUBSET Files]

CallTyped(call) ==
  /\ call \in Calls
  /\ call.kind \in Sending \cup {"save", "undo"} => call.letter # 0
  /\ call.kind = "undo" => call.row # 0
  /\ call.step = "mailed" => call.kind = "send"
  /\ call.step = "claimed" => call.kind = "undo"

CallsTyped == calls \in [Slots -> Calls] /\ \A c \in Slots : CallTyped(calls[c])

CountersTyped ==
  /\ typed \in 0 .. MaxLetters /\ made \in 0 .. MaxDrafts /\ now \in 0 .. MaxTime
  /\ toast \in 0 .. Len(rows)

DraftsTyped == DOMAIN drafts \subseteq 1 .. made /\ drafts \in [DOMAIN drafts -> Written]

FilesTyped ==
  /\ DOMAIN uploads \subseteq Files /\ uploads \in [DOMAIN uploads -> 0 .. now]
  /\ DOMAIN stamped \subseteq Files /\ stamped \in [DOMAIN stamped -> 0 .. now]

NotesTyped == wanted \cup tangled \subseteq Written

BagsTyped ==
  /\ IsABag(pressed) /\ IsABag(mailed)
  /\ BagToSet(pressed) \cup BagToSet(mailed) \subseteq Loaded

LEMMA TypeParts ==
  ComposerTypeOK <=>
    /\ CountersTyped /\ WindowTyped /\ CallsTyped /\ DraftsTyped /\ FilesTyped
    /\ rows \in Seq(Rows) /\ NotesTyped /\ BagsTyped
BY DEF ComposerTypeOK, CountersTyped, WindowTyped, CallsTyped, CallTyped, DraftsTyped,
   FilesTyped,
       NotesTyped, BagsTyped

\* Nothing that is counted ever goes back.
Grows ==
  /\ typed' \in 0 .. MaxLetters /\ made' \in 0 .. MaxDrafts /\ now' \in 0 .. MaxTime
  /\ window'.n \in Nat /\ Len(rows') \in Nat
  /\ typed <= typed' /\ made <= made' /\ now <= now'
  /\ window.n <= window'.n /\ Len(rows) <= Len(rows')

LEMMA WrittenGrow ==
  ASSUME ComposerTypeOK, Grows
  PROVE  /\ Written \subseteq Written' /\ 0 .. typed \subseteq 0 .. typed'
         /\ 0 .. made \subseteq 0 .. made' /\ 1 .. made \subseteq 1 .. made'
         /\ 0 .. now \subseteq 0 .. now' /\ 0 .. Len(rows) \subseteq 0 .. Len(rows')
BY DEF ComposerTypeOK, Grows, Written

LEMMA WindowKeeps ==
  ASSUME ComposerTypeOK, Grows, window' = window PROVE WindowTyped'
<1>1. WindowTyped
  BY TypeParts
<1>2. QED
  BY <1>1, WrittenGrow DEF WindowTyped

LEMMA CallTypedGrows ==
  ASSUME ComposerTypeOK, Grows, NEW call, CallTyped(call)
  PROVE  CallTyped(call)'
BY CallsGrow DEF CallTyped, Grows, ComposerTypeOK, Sending, Queueing

LEMMA CallsKeep ==
  ASSUME ComposerTypeOK, Grows, calls' = calls PROVE CallsTyped'
<1>1. CallsTyped
  BY TypeParts
<1>2. \A c \in Slots : CallTyped(calls[c])'
  BY <1>1, CallTypedGrows DEF CallsTyped
<1>3. QED
  BY <1>1, <1>2 DEF CallsTyped, CallTyped

LEMMA CallsAnswered ==
  ASSUME ComposerTypeOK, Grows, NEW c \in Slots, NEW s \in {"ok", "refused", "mailed", "claimed"},
         Answered(c, s), s = "mailed" => calls[c].kind = "send", s = "claimed" => calls[c].kind = "undo"
  PROVE  CallsTyped'
<1>1. CallsTyped
  BY TypeParts
<1>2. /\ calls' \in [Slots -> Calls]
      /\ \A b \in Slots :
           /\ calls'[b].kind = calls[b].kind /\ calls'[b].letter = calls[b].letter
           /\ calls'[b].row = calls[b].row /\ calls'[b].step = IF b = c THEN s ELSE calls[b].step
  BY AnsweredIs
<1>3. \A b \in Slots : CallTyped(calls'[b])
  <2> SUFFICES ASSUME NEW b \in Slots PROVE CallTyped(calls'[b])
    OBVIOUS
  <2>1. CallTyped(calls[b]) /\ calls'[b] \in Calls
    BY <1>1, <1>2 DEF CallsTyped
  <2>2. QED
    BY <1>2, <2>1 DEF CallTyped
<1>4. \A b \in Slots : CallTyped(calls[b])'
  BY <1>3, CallTypedGrows DEF CallTyped
<1>5. calls' \in [Slots -> Calls']
  BY <1>2, <1>4, AnsweredIs DEF CallTyped
<1>6. QED
  BY <1>4, <1>5 DEF CallsTyped

LEMMA CallsReplaced ==
  ASSUME ComposerTypeOK, Grows, NEW c \in Slots, NEW call, calls' = [calls EXCEPT ![c] = call],
         CallTyped(call)'
  PROVE  CallsTyped'
<1>1. CallsTyped
  BY TypeParts
<1>2. \A b \in Slots \ {c} : CallTyped(calls[b])'
  <2> SUFFICES ASSUME NEW b \in Slots \ {c} PROVE CallTyped(calls[b])'
    OBVIOUS
  <2>1. calls'[b] = calls[b]
    BY <1>1 DEF CallsTyped
  <2>2. CallTyped(calls[b])
    BY <1>1 DEF CallsTyped
  <2>3. QED
    BY <2>1, <2>2, CallTypedGrows DEF CallTyped
<1>3. calls'[c] = call
  BY <1>1 DEF CallsTyped
<1>4. CallTyped(calls[c])'
  BY <1>3 DEF CallTyped
<1>5. calls' \in [Slots -> Calls']
  BY <1>1, <1>2, <1>4 DEF CallsTyped, CallTyped
<1>6. QED
  BY <1>2, <1>4, <1>5 DEF CallsTyped

LEMMA NoCallTyped == ComposerTypeOK /\ Grows => CallTyped(NoCall)'
<1> SUFFICES ASSUME ComposerTypeOK, Grows PROVE CallTyped(NoCall)'
  OBVIOUS
<1>1. CallTyped(NoCall)
  BY DEF CallTyped, NoCall, Calls, Sending, Queueing, ComposerTypeOK
<1>2. QED
  BY <1>1, CallTypedGrows DEF CallTyped, NoCall

LEMMA CallsDone ==
  ASSUME ComposerTypeOK, Grows, NEW c \in Slots, Done(c) PROVE CallsTyped'
BY CallsReplaced, NoCallTyped DEF Done

LEMMA DraftsKeep ==
  ASSUME ComposerTypeOK, Grows, drafts' = drafts PROVE DraftsTyped'
<1>1. DraftsTyped
  BY TypeParts
<1>2. QED
  BY <1>1, WrittenGrow DEF DraftsTyped

LEMMA DraftsWithout ==
  ASSUME ComposerTypeOK, Grows, NEW S, drafts' = Without(drafts, S) PROVE DraftsTyped'
<1>1. DraftsTyped
  BY TypeParts
<1>2. QED
  BY <1>1, WrittenGrow DEF DraftsTyped, Without, Restrict

LEMMA FilesKeep ==
  ASSUME ComposerTypeOK, Grows, uploads' = uploads, stamped' = stamped PROVE FilesTyped'
<1>1. FilesTyped
  BY TypeParts
<1>2. QED
  BY <1>1, WrittenGrow DEF FilesTyped

LEMMA FilesWithout ==
  ASSUME ComposerTypeOK, Grows, NEW S, uploads' = Without(uploads, S), stamped' = stamped
  PROVE FilesTyped'
<1>1. FilesTyped
  BY TypeParts
<1>2. QED
  BY <1>1, WrittenGrow DEF FilesTyped, Without, Restrict

LEMMA SeqRetyped ==
  ASSUME NEW S, NEW T, NEW s \in Seq(S), \A i \in 1 .. Len(s) : s[i] \in T
  PROVE  s \in Seq(T)
OBVIOUS

LEMMA RowGrows ==
  ASSUME ComposerTypeOK, Grows, NEW row \in Rows PROVE row \in Rows'
BY WrittenGrow DEF Rows, Queueing

LEMMA RowsKeep ==
  ASSUME ComposerTypeOK, Grows, rows' = rows PROVE rows' \in Seq(Rows')
<1>1. rows \in Seq(Rows) /\ Len(rows) \in Nat /\ DOMAIN rows = 1 .. Len(rows)
  BY DEF ComposerTypeOK
<1>2. \A r \in 1 .. Len(rows) : rows'[r] \in Rows'
  BY <1>1, RowGrows
<1>3. QED
  BY <1>1, <1>2

LEMMA RowChanged ==
  ASSUME ComposerTypeOK, Grows, NEW r \in DOMAIN rows, NEW row, rows' = [rows EXCEPT ![r] = row],
         row \in Rows
  PROVE  /\ rows' \in Seq(Rows') /\ Len(rows') = Len(rows)
<1>1. rows \in Seq(Rows) /\ Len(rows) \in Nat /\ DOMAIN rows = 1 .. Len(rows)
  BY DEF ComposerTypeOK
<1>2. rows' \in Seq(Rows) /\ Len(rows') = Len(rows)
  BY <1>1
<1>3. \A i \in 1 .. Len(rows') : rows'[i] \in Rows'
  BY <1>1, <1>2, RowGrows
<1>4. QED
  BY <1>2, <1>3, SeqRetyped

LEMMA NotesShrink ==
  ASSUME ComposerTypeOK, Grows, wanted' \subseteq wanted, tangled' = tangled PROVE NotesTyped'
BY WrittenGrow DEF ComposerTypeOK, NotesTyped

LEMMA BagsKeep ==
  ASSUME ComposerTypeOK, Grows, pressed' = pressed, mailed' = mailed PROVE BagsTyped'
BY WrittenGrow DEF ComposerTypeOK, BagsTyped, Loaded

LEMMA TypePartsNext ==
  /\ CountersTyped' /\ WindowTyped' /\ CallsTyped' /\ DraftsTyped' /\ FilesTyped'
  /\ rows' \in Seq(Rows') /\ NotesTyped' /\ BagsTyped'
  => ComposerTypeOK'
BY DEF ComposerTypeOK, CountersTyped, WindowTyped, CallsTyped, CallTyped, DraftsTyped,
   FilesTyped,
       NotesTyped, BagsTyped

\* A step of the server or of the network that leaves the window and the clock alone.
LEMMA StillGrows ==
  ASSUME ComposerTypeOK, UNCHANGED <<window, typed, now>>,
         made' \in 0 .. MaxDrafts, made <= made', Len(rows') \in Nat, Len(rows) <= Len(rows')
  PROVE  Grows
BY DEF ComposerTypeOK, Grows

LEMMA QuietGrows ==
  ASSUME ComposerTypeOK, UNCHANGED <<window, typed, now, made, rows>>
  PROVE  Grows
BY Bounds DEF ComposerTypeOK, Grows

LEMMA TypeOfOpen ==
  ASSUME ComposerTypeOK, NEW letter \in 0 .. typed, NEW draft \in 0 .. made, Open(letter, draft)
  PROVE  ComposerTypeOK'
<1> USE DEF Open, requests, tables, fileNotes
<1>1. Grows
  BY Bounds DEF Grows, Show, ComposerTypeOK
<1>2. CountersTyped'
  BY DEF CountersTyped, ComposerTypeOK
<1>3. WindowTyped'
  BY Bounds DEF WindowTyped, Show, Written, ComposerTypeOK
<1>4. CallsTyped' /\ DraftsTyped' /\ FilesTyped' /\ rows' \in Seq(Rows') /\ NotesTyped' /\ BagsTyped'
  BY <1>1, CallsKeep, DraftsKeep, FilesKeep, RowsKeep, NotesShrink, BagsKeep
<1>5. QED
  BY <1>2, <1>3, <1>4, TypePartsNext

LEMMA TypeOfType == ComposerTypeOK /\ Type => ComposerTypeOK'
<1> SUFFICES ASSUME ComposerTypeOK, Type PROVE ComposerTypeOK'
  OBVIOUS
<1> USE DEF Type, requests, tables, fileNotes
<1>1. Grows
  BY Bounds DEF Grows, ComposerTypeOK
<1>2. CountersTyped' /\ NotesTyped'
  BY Bounds DEF CountersTyped, NotesTyped, ComposerTypeOK, Written
<1>3. WindowTyped'
  <2>1. WindowTyped /\ typed' = typed + 1 /\ typed \in Nat
    BY Bounds, TypeParts DEF CountersTyped
  <2>2. window' = [n |-> window.n, open |-> window.open, seen |-> window.seen \cup {typed'},
                   letter |-> typed', draft |-> window.draft, files |-> window.files]
    BY <2>1 DEF WindowTyped
  <2>3. window.seen \cup {typed'} \in SUBSET (1 .. typed') /\ typed' \in 0 .. typed' /\ made' = made
    BY <2>1 DEF WindowTyped, Written
  <2>4. QED
    BY <2>1, <2>2, <2>3 DEF WindowTyped, Written
<1>4. CallsTyped' /\ DraftsTyped' /\ FilesTyped' /\ rows' \in Seq(Rows') /\ BagsTyped'
  BY <1>1, CallsKeep, DraftsKeep, FilesKeep, RowsKeep, BagsKeep
<1>5. QED
  BY <1>2, <1>3, <1>4, TypePartsNext

\* A request that is asked for what the window holds.
AskedFor(kind, seen, files, due) ==
  [kind |-> kind, step |-> "asked", n |-> window.n, seen |-> seen, letter |-> window.letter,
   draft |-> window.draft, files |-> files, due |-> due, row |-> 0]

LEMMA WindowCallTyped ==
  ASSUME ComposerTypeOK, window.letter # 0,
         NEW kind \in {"save"} \cup Sending, NEW seen \in {{}, window.seen},
         NEW files \in {{}, window.files}, NEW due \in Nat
  PROVE  CallTyped(AskedFor(kind, seen, files, due))
<1> DEFINE call == AskedFor(kind, seen, files, due)
<1>1. WindowTyped
  BY TypeParts
<1>2. /\ call.kind = kind /\ call.letter # 0 /\ kind # "undo" /\ call.step = "asked"
  BY DEF AskedFor, Sending, Queueing
<1>3. /\ window.n \in 0 .. window.n /\ seen \in SUBSET Written /\ files \in SUBSET Files
      /\ window.letter \in 0 .. typed /\ window.draft \in 0 .. made /\ 0 \in 0 .. Len(rows)
  BY <1>1, Bounds DEF WindowTyped, ComposerTypeOK
<1>4. call \in Calls
  BY <1>3 DEF AskedFor, Calls
<1>5. QED
  BY <1>2, <1>4 DEF CallTyped

LEMMA CallsOfTheWindow ==
  /\ SaveCall = AskedFor("save", window.seen, {}, 0)
  /\ SendCall("send") = AskedFor("send", {}, window.files, 0)
  /\ \A kind \in Queueing, due \in Nat :
        [SendCall(kind) EXCEPT !.due = due] = AskedFor(kind, {}, window.files, due)
<1>1. \A kind \in {"save"} \cup Sending :
        CallOf(kind) = AskedFor(kind, {}, {}, 0)
  <2> SUFFICES ASSUME NEW kind PROVE CallOf(kind) = AskedFor(kind, {}, {}, 0)
    OBVIOUS
  <2>1. CallOf(kind) \in [kind : {kind}, step : {"asked"}, n : {window.n}, seen : {{}},
                         letter : {window.letter}, draft : {window.draft}, files : {{}},
                         due : {0}, row : {0}]
    BY DEF CallOf, NoCall
  <2>2. QED
    BY <2>1 DEF AskedFor
<1>2. SaveCall = AskedFor("save", window.seen, {}, 0)
  BY <1>1 DEF SaveCall, AskedFor
<1>3. \A kind \in Sending : SendCall(kind) = AskedFor(kind, {}, window.files, 0)
  BY <1>1 DEF SendCall, AskedFor
<1>4. QED
  BY <1>2, <1>3 DEF AskedFor, Sending, Queueing

\* A request of the author: only the calls change, and what is remembered of it.
LEMMA TypeOfAsk ==
  ASSUME ComposerTypeOK, NEW c \in Slots, NEW call, calls' = [calls EXCEPT ![c] = call], CallTyped(call),
         UNCHANGED <<aside, tables, now, typed, wanted, mailed, fileNotes>>,
         NotesTyped', BagsTyped'
  PROVE  ComposerTypeOK'
<1> USE DEF aside, page, tables, fileNotes
<1>1. Grows
  BY QuietGrows
<1>2. CountersTyped'
  BY DEF CountersTyped, ComposerTypeOK
<1>3. CallsTyped'
  BY <1>1, CallTypedGrows, CallsReplaced DEF CallTyped
<1>4. WindowTyped' /\ DraftsTyped' /\ FilesTyped' /\ rows' \in Seq(Rows')
  BY <1>1, WindowKeeps, DraftsKeep, FilesKeep, RowsKeep
<1>5. QED
  BY <1>2, <1>3, <1>4, TypePartsNext

LEMMA WindowLetter == ComposerTypeOK /\ window.letter # 0 => window.letter \in Written
BY DEF ComposerTypeOK, Written

LEMMA TypeOfSave == ASSUME ComposerTypeOK, NEW c \in Slots, Save(c) PROVE ComposerTypeOK'
<1> USE DEF Save, aside, tables, fileNotes
<1>1. NotesTyped'
  BY WindowLetter DEF NotesTyped, ComposerTypeOK, Written
<1>2. BagsTyped'
  BY QuietGrows, BagsKeep DEF page
<1>3. CallTyped(SaveCall)
  BY WindowCallTyped, CallsOfTheWindow
<1>4. QED
  BY <1>1, <1>2, <1>3, TypeOfAsk DEF Ask

(* Bags, rows and drafts.                                                  *)

\* How often a mail is in a bag of them.
Times(e, B) == IF e \in DOMAIN B THEN B[e] ELSE 0

LEMMA BagAdds ==
  ASSUME NEW B, IsABag(B), NEW m
  PROVE  /\ IsABag(B (+) SetToBag({m}))
         /\ BagToSet(B (+) SetToBag({m})) = BagToSet(B) \cup {m}
         /\ \A e : /\ Times(e, B) \in Nat
                  /\ Times(e, B (+) SetToBag({m})) = Times(e, B) + (IF e = m THEN 1 ELSE 0)
BY DEF IsABag, BagToSet, SetToBag, (+), Times

LEMMA SeqChanged ==
  ASSUME NEW S, NEW s \in Seq(S), NEW i \in DOMAIN s, NEW e \in S
  PROVE  LET s2 == [s EXCEPT ![i] = e]
         IN  s2 \in Seq(S) /\ Len(s2) = Len(s) /\ DOMAIN s2 = DOMAIN s
OBVIOUS

LEMMA RowTyped ==
  ASSUME ComposerTypeOK, NEW r \in DOMAIN rows
  PROVE  /\ rows[r] \in Rows /\ r \in 1 .. Len(rows) /\ Len(rows) \in Nat /\ r # 0
BY DEF ComposerTypeOK

RowsBecome(r, s, o) ==
  /\ rows' \in Seq(Rows) /\ Len(rows') = Len(rows) /\ DOMAIN rows' = DOMAIN rows
  /\ \A i \in DOMAIN rows :
       /\ rows'[i].letter = rows[i].letter /\ rows'[i].draft = rows[i].draft
       /\ rows'[i].files = rows[i].files /\ rows'[i].due = rows[i].due
       /\ rows'[i].kind = rows[i].kind
       /\ rows'[i].status = IF i = r THEN s ELSE rows[i].status
       /\ rows'[i].out = IF i = r THEN o ELSE rows[i].out

LEMMA RowsBecomes ==
  ASSUME ComposerTypeOK, NEW r \in DOMAIN rows, NEW row, rows' = [rows EXCEPT ![r] = row],
         row \in Rows, row.letter = rows[r].letter, row.draft = rows[r].draft,
         row.files = rows[r].files, row.due = rows[r].due, row.kind = rows[r].kind
  PROVE  RowsBecome(r, row.status, row.out)
<1>1. rows \in Seq(Rows)
  BY DEF ComposerTypeOK
<1>2. rows' \in Seq(Rows) /\ Len(rows') = Len(rows) /\ DOMAIN rows' = DOMAIN rows
  BY <1>1
<1>3. \A i \in DOMAIN rows : rows'[i] = IF i = r THEN row ELSE rows[i]
  BY <1>1
<1>4. QED
  BY <1>2, <1>3 DEF RowsBecome

LEMMA RowsStatus ==
  ASSUME ComposerTypeOK, NEW r \in DOMAIN rows, NEW s \in {"pending", "sent", "failed", "cancelled"},
         rows' = [rows EXCEPT ![r].status = s]
  PROVE  RowsBecome(r, s, rows[r].out)
<1> DEFINE row == [rows[r] EXCEPT !.status = s]
<1>1. rows[r] \in Rows
  BY RowTyped
<1>2. /\ row \in Rows /\ row.letter = rows[r].letter /\ row.draft = rows[r].draft
      /\ row.files = rows[r].files /\ row.due = rows[r].due /\ row.kind = rows[r].kind
      /\ row.status = s /\ row.out = rows[r].out
  BY <1>1 DEF Rows
<1>3. rows' = [rows EXCEPT ![r] = row]
  OBVIOUS
<1>4. RowsBecome(r, row.status, row.out)
  <2> HIDE DEF row
  <2>1. QED
    BY <1>2, <1>3, RowsBecomes
<1>5. QED
  BY <1>2, <1>4

LEMMA RowsOut ==
  ASSUME ComposerTypeOK, NEW r \in DOMAIN rows, rows' = [rows EXCEPT ![r].out = TRUE]
  PROVE  RowsBecome(r, rows[r].status, TRUE)
<1> DEFINE row == [rows[r] EXCEPT !.out = TRUE]
<1>1. rows[r] \in Rows
  BY RowTyped
<1>2. /\ row \in Rows /\ row.letter = rows[r].letter /\ row.draft = rows[r].draft
      /\ row.files = rows[r].files /\ row.due = rows[r].due /\ row.kind = rows[r].kind
      /\ row.status = rows[r].status /\ row.out = TRUE
  BY <1>1 DEF Rows
<1>3. rows' = [rows EXCEPT ![r] = row]
  OBVIOUS
<1>4. RowsBecome(r, row.status, row.out)
  <2> HIDE DEF row
  <2>1. QED
    BY <1>2, <1>3, RowsBecomes
<1>5. QED
  BY <1>2, <1>4

LEMMA RowsEnd ==
  ASSUME ComposerTypeOK, NEW r \in DOMAIN rows, NEW s \in {"sent", "failed"},
         rows' = [rows EXCEPT ![r].out = FALSE, ![r].status = s]
  PROVE  RowsBecome(r, s, FALSE)
<1>0. rows \in Seq(Rows) /\ rows[r] \in Rows
  BY RowTyped DEF ComposerTypeOK
<1>1. rows' \in Seq(Rows) /\ Len(rows') = Len(rows) /\ DOMAIN rows' = DOMAIN rows
  <2> DEFINE row == [[rows[r] EXCEPT !.out = FALSE] EXCEPT !.status = s]
  <2>0. rows' = [rows EXCEPT ![r] = row]
    BY <1>0 DEF Rows
  <2>1. DOMAIN rows = 1 .. Len(rows) /\ Len(rows) \in Nat
    BY <1>0
  <2>2. row \in Rows
    BY <1>0 DEF Rows
  <2>3. QED
    <3> HIDE DEF row
    <3>1. LET s2 == [rows EXCEPT ![r] = row]
          IN  s2 \in Seq(Rows) /\ Len(s2) = Len(rows) /\ DOMAIN s2 = DOMAIN rows
      BY ONLY <1>0, <2>2, SeqChanged, r \in DOMAIN rows
    <3>2. QED
      BY ONLY <3>1, <2>0
<1>2. \A i \in DOMAIN rows \ {r} : rows'[i] = rows[i]
  BY <1>0
<1>3. /\ rows'[r].letter = rows[r].letter /\ rows'[r].draft = rows[r].draft
      /\ rows'[r].files = rows[r].files /\ rows'[r].due = rows[r].due
      /\ rows'[r].kind = rows[r].kind /\ rows'[r].status = s /\ rows'[r].out = FALSE
  BY <1>0 DEF Rows
<1>4. QED
  BY <1>1, <1>2, <1>3 DEF RowsBecome

LEMMA RowsBecomeTyped ==
  ASSUME ComposerTypeOK, Grows, NEW r, NEW s, NEW o, RowsBecome(r, s, o)
  PROVE  rows' \in Seq(Rows') /\ Len(rows') = Len(rows)
<1>1. rows' \in Seq(Rows) /\ Len(rows') = Len(rows)
  BY DEF RowsBecome
<1>2. \A i \in 1 .. Len(rows') : rows'[i] \in Rows'
  BY <1>1, RowGrows
<1>3. QED
  BY <1>1, <1>2, SeqRetyped

LEMMA WithoutIs ==
  ASSUME NEW f, NEW S
  PROVE  /\ DOMAIN Without(f, S) = DOMAIN f \ S
         /\ \A e \in DOMAIN f \ S : Without(f, S)[e] = f[e]
BY DEF Without, Restrict

LEMMA NewDraftIs ==
  ASSUME ComposerTypeOK, NEW x \in Written, NewDraft(x)
  PROVE  /\ made' = made + 1 /\ made' \in 0 .. MaxDrafts /\ made' # 0 /\ made \in Nat
         /\ DOMAIN drafts' = DOMAIN drafts \cup {made'} /\ made' \notin DOMAIN drafts
         /\ drafts'[made'] = x /\ \A d \in DOMAIN drafts : drafts'[d] = drafts[d]
         /\ DOMAIN drafts' \subseteq 1 .. made' /\ drafts' \in [DOMAIN drafts' -> Written]
<1>1. made \in 0 .. MaxDrafts /\ DOMAIN drafts \subseteq 1 .. made /\ drafts \in [DOMAIN drafts -> Written]
  BY DEF ComposerTypeOK
<1>2. made' = made + 1 /\ made' \in 0 .. MaxDrafts /\ made \in Nat /\ made' # 0
      /\ made' \notin DOMAIN drafts
  BY <1>1, Bounds DEF NewDraft
<1>3. DOMAIN drafts' = DOMAIN drafts \cup {made'}
  BY DEF NewDraft
<1>4. drafts'[made'] = x /\ \A d \in DOMAIN drafts : drafts'[d] = drafts[d]
  BY <1>2 DEF NewDraft
<1>5. DOMAIN drafts' \subseteq 1 .. made'
  BY <1>1, <1>2, <1>3
<1>6. drafts' \in [DOMAIN drafts' -> Written]
  <2>1. \A d \in DOMAIN drafts \cup {made'} : (IF d = made' THEN x ELSE drafts[d]) \in Written
    BY <1>1
  <2>2. QED
    BY <2>1 DEF NewDraft
<1>7. QED
  BY <1>2, <1>3, <1>4, <1>5, <1>6

LEMMA TypeOfServe ==
  ASSUME ComposerTypeOK, Grows, UNCHANGED <<page, typed, now>>,
         CallsTyped', DraftsTyped', FilesTyped', rows' \in Seq(Rows'), NotesTyped', BagsTyped'
  PROVE  ComposerTypeOK'
<1>1. WindowTyped'
  BY WindowKeeps DEF page
<1>2. CountersTyped'
  <2>1. Len(rows') \in Nat /\ Len(rows) <= Len(rows')
    BY DEF Grows
  <2>2. QED
    BY <2>1 DEF CountersTyped, ComposerTypeOK, Grows, page
<1>3. QED
  BY <1>1, <1>2, TypePartsNext

\* A call gets its answer with the draft that was made, or with the row.
AnswerOf(c, draft, row) ==
  [kind |-> calls[c].kind, step |-> "ok", n |-> calls[c].n, seen |-> calls[c].seen,
   letter |-> calls[c].letter, draft |-> draft, files |-> calls[c].files, due |-> calls[c].due,
   row |-> row]

LEMMA AnsweredWithDraft ==
  ASSUME ComposerTypeOK, NEW c \in Slots, NEW d, calls' = [calls EXCEPT ![c].step = "ok", ![c].draft = d]
  PROVE  calls' = [calls EXCEPT ![c] = AnswerOf(c, d, calls[c].row)]
<1>0. calls \in [Slots -> Calls] /\ calls[c] \in Calls
  BY DEF ComposerTypeOK
<1> DEFINE r == [[calls[c] EXCEPT !.step = "ok"] EXCEPT !.draft = d]
<1>1. calls' = [calls EXCEPT ![c] = r]
  BY <1>0 DEF Calls
<1>2. r = AnswerOf(c, d, calls[c].row)
  <2>1. r \in [kind : {calls[c].kind}, step : {"ok"}, n : {calls[c].n}, seen : {calls[c].seen},
               letter : {calls[c].letter}, draft : {d}, files : {calls[c].files},
               due : {calls[c].due}, row : {calls[c].row}]
    BY <1>0 DEF Calls
  <2>2. QED
    <3> HIDE DEF r
    <3>1. QED
      BY <2>1 DEF AnswerOf
<1>3. QED
  BY <1>1, <1>2

LEMMA AnsweredWithRow ==
  ASSUME ComposerTypeOK, NEW c \in Slots, NEW r, calls' = [calls EXCEPT ![c].step = "ok", ![c].row = r]
  PROVE  calls' = [calls EXCEPT ![c] = AnswerOf(c, calls[c].draft, r)]
<1>0. calls \in [Slots -> Calls] /\ calls[c] \in Calls
  BY DEF ComposerTypeOK
<1> DEFINE e == [[calls[c] EXCEPT !.step = "ok"] EXCEPT !.row = r]
<1>1. calls' = [calls EXCEPT ![c] = e]
  BY <1>0 DEF Calls
<1>2. e = AnswerOf(c, calls[c].draft, r)
  <2>1. e \in [kind : {calls[c].kind}, step : {"ok"}, n : {calls[c].n}, seen : {calls[c].seen},
               letter : {calls[c].letter}, draft : {calls[c].draft}, files : {calls[c].files},
               due : {calls[c].due}, row : {r}]
    BY <1>0 DEF Calls
  <2>2. QED
    <3> HIDE DEF e
    <3>1. QED
      BY <2>1 DEF AnswerOf
<1>3. QED
  BY <1>1, <1>2

LEMMA TypeOfPress ==
  ASSUME ComposerTypeOK, NEW c \in Slots, NEW call, CallTyped(call), Press(c, call)
  PROVE  ComposerTypeOK'
<1> USE DEF Press, aside, tables, fileNotes
<1>1. window.letter \in Written /\ WindowTyped
  BY WindowLetter, TypeParts
<1>2. Grows
  BY QuietGrows DEF page
<1>3. NotesTyped'
  BY <1>1 DEF NotesTyped, ComposerTypeOK, Written
<1>4. BagsTyped'
  <2>1. [letter |-> window.letter, files |-> window.files] \in Loaded
    BY <1>1 DEF WindowTyped, Loaded
  <2>2. Loaded' = Loaded
    BY DEF Loaded, Written
  <2>3. /\ IsABag(pressed) /\ IsABag(mailed)
        /\ BagToSet(pressed) \cup BagToSet(mailed) \subseteq Loaded
    BY DEF ComposerTypeOK
  <2>4. IsABag(pressed') /\ BagToSet(pressed') \subseteq Loaded
    <3> DEFINE m == [letter |-> window.letter, files |-> window.files]
    <3>1. pressed' = pressed (+) SetToBag({m})
      OBVIOUS
    <3> HIDE DEF m
    <3>2. IsABag(pressed (+) SetToBag({m})) /\ BagToSet(pressed (+) SetToBag({m})) = BagToSet(pressed) \cup {m}
      BY <2>3, BagAdds
    <3>3. m \in Loaded
      BY <2>1 DEF m
    <3>4. QED
      BY <2>3, <3>1, <3>2, <3>3
  <2>5. QED
    BY <2>2, <2>3, <2>4 DEF BagsTyped
<1>5. QED
  BY <1>3, <1>4, TypeOfAsk DEF Ask

LEMMA TypeOfSends == ASSUME ComposerTypeOK, NEW c \in Slots,
                            SendNow(c) \/ Hold(c) \/ \E at \in 1 .. MaxTime : Schedule(c, at)
                     PROVE  ComposerTypeOK'
<1>1. CASE SendNow(c)
  BY <1>1, WindowCallTyped, CallsOfTheWindow, TypeOfPress DEF SendNow, Press, Sending
<1>2. CASE Hold(c)
  <2>1. now + 1 \in Nat
    BY DEF ComposerTypeOK
  <2>2. QED
    BY <1>2, <2>1, WindowCallTyped, CallsOfTheWindow, TypeOfPress DEF Hold, Press, Sending,
       Queueing
<1>3. ASSUME NEW at \in 1 .. MaxTime, Schedule(c, at) PROVE ComposerTypeOK'
  <2>1. at \in Nat
    OBVIOUS
  <2>2. QED
    BY <1>3, <2>1, WindowCallTyped, CallsOfTheWindow, TypeOfPress DEF Schedule, Press, Sending,
       Queueing
<1>4. QED
  BY <1>1, <1>2, <1>3

\* The calls of an upload and of an undo.
UploadCall(f) ==
  [kind |-> "upload", step |-> "asked", n |-> window.n, seen |-> {}, letter |-> 0, draft |-> 0,
   files |-> {f}, due |-> 0, row |-> 0]
UndoCall(r) ==
  [kind |-> "undo", step |-> "asked", n |-> 0, seen |-> {}, letter |-> rows[r].letter, draft |-> 0,
   files |-> {}, due |-> 0, row |-> r]

LEMMA OtherCalls ==
  /\ \A f : [NoCall EXCEPT !.kind = "upload", !.n = window.n, !.files = {f}] = UploadCall(f)
  /\ \A r : [NoCall EXCEPT !.kind = "undo", !.row = r, !.letter = rows[r].letter] = UndoCall(r)
<1>1. ASSUME NEW f PROVE [NoCall EXCEPT !.kind = "upload", !.n = window.n, !.files = {f}] = UploadCall(f)
  <2> DEFINE e == [NoCall EXCEPT !.kind = "upload", !.n = window.n, !.files = {f}]
  <2>1. e \in
          [kind : {"upload"}, step : {"asked"}, n : {window.n}, seen : {{}}, letter : {0},
           draft : {0}, files : {{f}}, due : {0}, row : {0}]
    BY DEF NoCall
  <2>2. e = UploadCall(f)
    <3> HIDE DEF e
    <3>1. QED
      BY <2>1 DEF UploadCall
  <2>3. QED
    BY <2>2
<1>2. ASSUME NEW r PROVE [NoCall EXCEPT !.kind = "undo", !.row = r, !.letter = rows[r].letter] = UndoCall(r)
  <2> DEFINE e == [NoCall EXCEPT !.kind = "undo", !.row = r, !.letter = rows[r].letter]
  <2>1. e \in
          [kind : {"undo"}, step : {"asked"}, n : {0}, seen : {{}}, letter : {rows[r].letter},
           draft : {0}, files : {{}}, due : {0}, row : {r}]
    BY DEF NoCall
  <2>2. e = UndoCall(r)
    <3> HIDE DEF e
    <3>1. QED
      BY <2>1 DEF UndoCall
  <2>3. QED
    BY <2>2
<1>3. QED
  BY <1>1, <1>2

LEMMA TypeOfAttach ==
  ASSUME ComposerTypeOK, NEW c \in Slots, NEW f \in Files, Attach(c, f) PROVE ComposerTypeOK'
<1> USE DEF Attach, aside, tables, fileNotes
<1>1. Grows
  BY QuietGrows DEF page
<1>2. NotesTyped' /\ BagsTyped'
  BY <1>1, NotesShrink, BagsKeep
<1>3. CallTyped(UploadCall(f))
  BY Bounds DEF CallTyped, UploadCall, Calls, Sending, Queueing, ComposerTypeOK
<1>4. QED
  BY <1>2, <1>3, OtherCalls, TypeOfAsk DEF Ask

LEMMA TypeOfPressUndo ==
  ASSUME ComposerTypeOK, NEW c \in Slots, PressUndo(c) PROVE ComposerTypeOK'
<1> USE DEF PressUndo, aside, tables, fileNotes
<1>1. Grows
  BY QuietGrows DEF page
<1>2. NotesTyped' /\ BagsTyped'
  BY <1>1, NotesShrink, BagsKeep
<1>3. toast \in DOMAIN rows /\ rows[toast].letter \in Written
  <2>1. toast \in DOMAIN rows
    BY DEF ComposerTypeOK
  <2>2. QED
    BY <2>1, RowTyped DEF Rows
<1>4. CallTyped(UndoCall(toast))
  BY <1>3, Bounds DEF CallTyped, UndoCall, Calls, Sending, Queueing, ComposerTypeOK, Written
<1>5. QED
  BY <1>2, <1>4, OtherCalls, TypeOfAsk DEF Ask

LEMMA TypeOfRemoveAttachment ==
  ASSUME ComposerTypeOK, NEW f \in Files, RemoveAttachment(f) PROVE ComposerTypeOK'
<1> USE DEF RemoveAttachment, tables
<1>1. WindowTyped
  BY TypeParts
<1>2. /\ window'.n = window.n /\ window' \in [n : {window.n}, open : {window.open}, seen : {window.seen},
           letter : {window.letter}, draft : {window.draft}, files : {window.files \ {f}}]
  BY <1>1 DEF WindowTyped
<1>3. Grows
  BY <1>1, <1>2, Bounds DEF Grows, ComposerTypeOK
<1>4. WindowTyped'
  BY <1>1, <1>2 DEF WindowTyped, Written
<1>5. CountersTyped'
  BY DEF CountersTyped, ComposerTypeOK
<1>6. CallsTyped' /\ DraftsTyped' /\ FilesTyped' /\ rows' \in Seq(Rows') /\ NotesTyped' /\ BagsTyped'
  BY <1>3, CallsKeep, DraftsKeep, FilesKeep, RowsKeep, NotesShrink, BagsKeep
<1>7. QED
  BY <1>4, <1>5, <1>6, TypePartsNext

LEMMA ClosedIs ==
  ASSUME ComposerTypeOK
  PROVE  Closed = [n |-> window.n, open |-> FALSE, seen |-> {}, letter |-> 0, draft |-> 0, files |-> {}]
<1>1. WindowTyped
  BY TypeParts
<1>2. Closed \in [n : {window.n}, open : {FALSE}, seen : {{}}, letter : {0}, draft : {0}, files : {{}}]
  BY <1>1 DEF Closed, WindowTyped
<1>3. QED
  BY <1>2

LEMMA WindowClosed == ASSUME ComposerTypeOK, Grows, window' = Closed PROVE WindowTyped'
<1>1. window' = [n |-> window.n, open |-> FALSE, seen |-> {}, letter |-> 0, draft |-> 0, files |-> {}]
  BY ClosedIs
<1>2. window.n \in 0 .. MaxOpens /\ 0 \in 0 .. typed' /\ 0 \in 0 .. made'
  BY TypeParts, Bounds DEF WindowTyped, Grows
<1>3. QED
  BY <1>1, <1>2 DEF WindowTyped

LEMMA TypeOfDiscard == ComposerTypeOK /\ Discard => ComposerTypeOK'
<1> SUFFICES ASSUME ComposerTypeOK, Discard PROVE ComposerTypeOK'
  OBVIOUS
<1> USE DEF Discard, tables
<1>1. WindowTyped
  BY TypeParts
<1>2. window' = Closed
  OBVIOUS
<1>3. Grows
  BY <1>1, <1>2, ClosedIs, Bounds DEF Grows, ComposerTypeOK, WindowTyped
<1>4. WindowTyped'
  BY <1>2, <1>3, WindowClosed
<1>5. CountersTyped'
  BY DEF CountersTyped, ComposerTypeOK
<1>6. CallsTyped' /\ DraftsTyped' /\ FilesTyped' /\ rows' \in Seq(Rows') /\ NotesTyped' /\ BagsTyped'
  BY <1>3, CallsKeep, DraftsKeep, FilesKeep, RowsKeep, NotesShrink, BagsKeep
<1>7. QED
  BY <1>4, <1>5, <1>6, TypePartsNext

LEMMA TypeOfSendDone == ASSUME ComposerTypeOK, NEW c \in Slots, SendDone(c) PROVE ComposerTypeOK'
<1> USE DEF SendDone, tables, fileNotes
<1>1. WindowTyped /\ CallsTyped
  BY TypeParts
<1>2. window' = Closed
  OBVIOUS
<1>3. Grows
  BY <1>1, <1>2, ClosedIs, Bounds DEF Grows, ComposerTypeOK, WindowTyped
<1>4. WindowTyped'
  BY <1>2, <1>3, WindowClosed
<1>5. CountersTyped'
  BY <1>1 DEF CountersTyped, ComposerTypeOK, CallsTyped, Calls
<1>6. CallsTyped' /\ DraftsTyped' /\ FilesTyped' /\ rows' \in Seq(Rows') /\ NotesTyped' /\ BagsTyped'
  BY <1>3, CallsDone, DraftsKeep, FilesKeep, RowsKeep, NotesShrink, BagsKeep
<1>7. QED
  BY <1>4, <1>5, <1>6, TypePartsNext

LEMMA TypeOfUndoDone == ASSUME ComposerTypeOK, NEW c \in Slots, UndoDone(c) PROVE ComposerTypeOK'
<1> USE DEF UndoDone, tables, fileNotes
<1>1. WindowTyped /\ CallsTyped /\ calls[c].draft \in 0 .. made
  BY TypeParts DEF CallsTyped, Calls
<1>2. Grows
  BY Bounds DEF Grows, Show, ComposerTypeOK
<1>3. WindowTyped'
  BY <1>1, Bounds DEF WindowTyped, Show, Written, ComposerTypeOK
<1>4. CountersTyped'
  BY <1>1, Bounds DEF CountersTyped, ComposerTypeOK
<1>5. CallsTyped' /\ DraftsTyped' /\ FilesTyped' /\ rows' \in Seq(Rows') /\ NotesTyped' /\ BagsTyped'
  BY <1>2, CallsDone, DraftsKeep, FilesKeep, RowsKeep, NotesShrink, BagsKeep
<1>6. QED
  BY <1>3, <1>4, <1>5, TypePartsNext

LEMMA LetterOf ==
  ASSUME ComposerTypeOK, NEW c \in Slots
  PROVE  /\ calls[c] \in Calls /\ CallTyped(calls[c])
         /\ calls[c].kind \in Sending \cup {"save", "undo"} => calls[c].letter \in Written
         /\ calls[c].kind = "undo" => calls[c].row \in DOMAIN rows /\ rows[calls[c].row] \in Rows
         /\ calls[c].files \subseteq Files /\ calls[c].draft \in Nat
<1>1. calls[c] \in Calls /\ CallTyped(calls[c])
  BY TypeParts DEF CallsTyped
<1>2. calls[c].kind \in Sending \cup {"save", "undo"} => calls[c].letter \in Written
  BY <1>1 DEF CallTyped, Calls, Written, ComposerTypeOK
<1>3. calls[c].kind = "undo" => calls[c].row \in DOMAIN rows
  BY <1>1 DEF CallTyped, Calls, ComposerTypeOK
<1>4. QED
  <2>1. calls[c].files \subseteq Files /\ calls[c].draft \in Nat
    BY <1>1, Bounds DEF Calls, ComposerTypeOK
  <2>2. QED
    BY <1>1, <1>2, <1>3, <2>1, RowTyped

\* The answers that change nothing but what they say.
LEMMA TypeOfAnswers ==
  ASSUME ComposerTypeOK, NEW c \in Slots, NEW s \in {"ok", "refused", "mailed", "claimed"}, Answered(c, s),
         s = "mailed" => calls[c].kind = "send", s = "claimed" => calls[c].kind = "undo",
         UNCHANGED <<aside, made, rows, now, typed, pressed>>,
         DraftsTyped', FilesTyped', NotesTyped', BagsTyped'
  PROVE  ComposerTypeOK'
<1> USE DEF aside, page
<1>1. Grows
  BY QuietGrows
<1>2. CallsTyped' /\ rows' \in Seq(Rows')
  BY <1>1, CallsAnswered, RowsKeep
<1>3. QED
  BY <1>1, <1>2, TypeOfServe

LEMMA TypeOfPlainAnswers ==
  ASSUME ComposerTypeOK, NEW c \in Slots, PatchMisses(c) \/ QueueTooLate(c) \/ SendMisses(c) \/ Fail(c)
                                          \/ Break(c) \/ LoseAnswer(c)
  PROVE  ComposerTypeOK'
<1> USE DEF aside, page, tables, ghosts, fileNotes
<1>1. UNCHANGED <<aside, tables, now, typed, pressed, mailed, stamped>> /\ Answered(c, "refused")
      /\ wanted' \subseteq wanted
      /\ (tangled' = tangled \/ tangled' = tangled \cup {calls[c].letter}
          \/ tangled' = tangled \cup ({calls[c].letter} \ {0}))
  BY DEF PatchMisses, QueueTooLate, SendMisses, Fail, Break, LoseAnswer
<1>2. Grows
  BY <1>1, QuietGrows
<1>3. DraftsTyped' /\ FilesTyped' /\ BagsTyped'
  BY <1>1, <1>2, DraftsKeep, FilesKeep, BagsKeep
<1>4. NotesTyped'
  <2>1. tangled' \subseteq tangled \cup ({calls[c].letter} \ {0})
    <3>1. calls[c].step = "mailed" => calls[c].letter # 0
      BY LetterOf DEF CallTyped, Sending
    <3>2. CASE ~Break(c)
      BY <3>2 DEF PatchMisses, QueueTooLate, SendMisses, Fail, LoseAnswer
    <3>3. CASE Break(c)
      BY <3>1, <3>3 DEF Break
    <3>4. QED
      BY <3>2, <3>3
  <2>2. calls[c].letter \in 0 .. typed /\ typed \in Nat
    BY LetterOf, Bounds DEF Calls, ComposerTypeOK
  <2>3. QED
    BY <1>1, <2>1, <2>2 DEF NotesTyped, ComposerTypeOK, Written
<1>5. QED
  BY <1>1, <1>3, <1>4, TypeOfAnswers

LEMMA CallsMadeDraft ==
  ASSUME ComposerTypeOK, Grows, NEW c \in Slots, made' \in Nat,
         calls' = [calls EXCEPT ![c].step = "ok", ![c].draft = made']
  PROVE  CallsTyped'
<1>1. calls[c] \in Calls /\ CallTyped(calls[c])
  BY LetterOf
<1>2. PICK e : e = AnswerOf(c, made', calls[c].row)
  OBVIOUS
<1>3. calls' = [calls EXCEPT ![c] = e]
  BY <1>2, AnsweredWithDraft
<1>4. CallTyped(e)'
  <2>1. /\ 0 .. typed \subseteq 0 .. typed' /\ 0 .. Len(rows) \subseteq 0 .. Len(rows')
        /\ Written \subseteq Written' /\ made' \in 0 .. made'
    BY WrittenGrow
  <2>2. window.n \in Nat /\ window'.n \in Nat /\ window.n <= window'.n
    BY DEF Grows, ComposerTypeOK
  <2>3. e \in Calls'
    BY <1>1, <1>2, <2>1, <2>2 DEF AnswerOf, Calls, Sending, Queueing
  <2>4. QED
    BY <1>1, <1>2, <2>3 DEF CallTyped, AnswerOf, Sending, Queueing
<1>5. QED
  BY <1>3, <1>4, CallsReplaced

LEMMA TypeOfServePost == ASSUME ComposerTypeOK, NEW c \in Slots, ServePost(c) PROVE ComposerTypeOK'
<1> USE DEF ServePost, aside, ghosts, fileNotes
<1>1. calls[c].letter \in Written /\ calls[c] \in Calls /\ CallTyped(calls[c])
  BY LetterOf DEF IsAt
<1>2. /\ made' = made + 1 /\ made' \in 0 .. MaxDrafts /\ made \in Nat
      /\ DOMAIN drafts' \subseteq 1 .. made' /\ drafts' \in [DOMAIN drafts' -> Written]
  BY <1>1, NewDraftIs
<1>3. Grows
  BY <1>2, StillGrows, Bounds DEF page, ComposerTypeOK
<1>4. DraftsTyped'
  BY <1>2 DEF DraftsTyped, Written
<1>5. CallsTyped'
  <2>1. made' \in Nat
    BY <1>2
  <2>2. QED
    BY <1>3, <2>1, CallsMadeDraft
<1>8. FilesTyped' /\ rows' \in Seq(Rows') /\ NotesTyped' /\ BagsTyped'
  BY <1>3, FilesKeep, RowsKeep, NotesShrink, BagsKeep
<1>9. QED
  BY <1>3, <1>4, <1>5, <1>8, TypeOfServe

LEMMA TypeOfServePatch == ASSUME ComposerTypeOK, NEW c \in Slots, ServePatch(c) PROVE ComposerTypeOK'
<1> USE DEF ServePatch, aside, page, fileNotes
<1>1. calls[c].letter \in Written
  BY LetterOf DEF IsAt
<1>2. Grows
  BY QuietGrows
<1>3. DraftsTyped'
  <2>1. DraftsTyped
    BY TypeParts
  <2>2. QED
    BY <1>1, <2>1 DEF DraftsTyped, Written
<1>4. FilesTyped' /\ NotesTyped' /\ BagsTyped'
  BY <1>2, FilesKeep, NotesShrink, BagsKeep
<1>5. QED
  BY <1>3, <1>4, TypeOfAnswers

LEMMA TypeOfServeUpload == ASSUME ComposerTypeOK, NEW c \in Slots, ServeUpload(c) PROVE ComposerTypeOK'
<1> USE DEF ServeUpload, aside, page, fileNotes
<1>1. calls[c].files \subseteq Files
  BY LetterOf
<1>2. Grows
  BY QuietGrows
<1>3. FilesTyped'
  <2>1. FilesTyped /\ now \in 0 .. now /\ now' = now
    BY TypeParts DEF CountersTyped
  <2>2. DOMAIN uploads' \subseteq Files /\ uploads' \in [DOMAIN uploads' -> 0 .. now]
    BY <1>1, <2>1 DEF FilesTyped
  <2>3. DOMAIN stamped' \subseteq Files /\ stamped' \in [DOMAIN stamped' -> 0 .. now]
    BY <1>1, <2>1 DEF FilesTyped
  <2>4. QED
    BY <2>1, <2>2, <2>3 DEF FilesTyped
<1>4. DraftsTyped' /\ NotesTyped' /\ BagsTyped'
  BY <1>2, DraftsKeep, NotesShrink, BagsKeep
<1>5. QED
  BY <1>3, <1>4, TypeOfAnswers

\* The row a request to hold or to schedule asks for.
QueuedRow(c) ==
  [letter |-> calls[c].letter, draft |-> calls[c].draft, files |-> calls[c].files,
   due |-> calls[c].due, kind |-> calls[c].kind, status |-> "pending", out |-> FALSE]

LEMMA QueuedIs ==
  ASSUME ComposerTypeOK, NEW c \in Slots, ServeQueue(c)
  PROVE  /\ QueuedRow(c) \in Rows /\ rows' \in Seq(Rows)
         /\ Len(rows') = Len(rows) + 1 /\ Len(rows) \in Nat
         /\ DOMAIN rows = 1 .. Len(rows) /\ DOMAIN rows' = 1 .. (Len(rows) + 1)
         /\ rows'[Len(rows) + 1] = QueuedRow(c)
         /\ \A r \in DOMAIN rows : rows'[r] = rows[r]
         /\ calls' = [calls EXCEPT ![c] = AnswerOf(c, calls[c].draft, Len(rows) + 1)]
<1>1. calls[c].letter \in Written /\ calls[c] \in Calls
  BY LetterOf DEF ServeQueue, IsAt, Sending
<1>2. QueuedRow(c) \in Rows
  BY <1>1 DEF QueuedRow, Rows, Calls, ServeQueue, IsAt
<1>3. rows \in Seq(Rows) /\ rows' = Append(rows, QueuedRow(c))
  BY DEF ComposerTypeOK, ServeQueue, QueuedRow
<1>4. /\ rows' \in Seq(Rows)
      /\ Len(rows') = Len(rows) + 1 /\ Len(rows) \in Nat
      /\ DOMAIN rows = 1 .. Len(rows) /\ DOMAIN rows' = 1 .. (Len(rows) + 1)
      /\ rows'[Len(rows) + 1] = QueuedRow(c)
      /\ \A r \in DOMAIN rows : rows'[r] = rows[r]
  BY <1>2, <1>3
<1>5. calls' = [calls EXCEPT ![c].step = "ok", ![c].row = Len(rows) + 1]
  BY <1>4 DEF ServeQueue
<1>6. QED
  BY <1>2, <1>4, <1>5, AnsweredWithRow

LEMMA TypeOfServeQueue == ASSUME ComposerTypeOK, NEW c \in Slots, ServeQueue(c) PROVE ComposerTypeOK'
<1> USE DEF ServeQueue, aside, page, ghosts, fileNotes
<1>1. /\ rows' \in Seq(Rows) /\ Len(rows') = Len(rows) + 1 /\ Len(rows) \in Nat
      /\ calls' = [calls EXCEPT ![c] = AnswerOf(c, calls[c].draft, Len(rows) + 1)]
  BY QueuedIs
<1>2. Grows
  BY <1>1, StillGrows, Bounds DEF ComposerTypeOK
<1>3. rows' \in Seq(Rows')
  <2>1. \A r \in 1 .. Len(rows') : rows'[r] \in Rows'
    BY <1>1, <1>2, RowGrows
  <2>2. QED
    BY <1>1, <2>1, SeqRetyped
<1>4. CallsTyped'
  <2>1. PICK e : e = AnswerOf(c, calls[c].draft, Len(rows) + 1)
    OBVIOUS
  <2>2. calls[c] \in Calls /\ CallTyped(calls[c])
    BY LetterOf
  <2>3. CallTyped(e)'
    <3>1. /\ 0 .. typed \subseteq 0 .. typed' /\ Len(rows) + 1 \in 0 .. Len(rows')
          /\ Written \subseteq Written' /\ 0 .. made \subseteq 0 .. made'
      BY <1>1, <1>2, WrittenGrow
    <3>2. window'.n = window.n
      OBVIOUS
    <3>3. e \in Calls'
      BY <2>1, <2>2, <3>1, <3>2 DEF AnswerOf, Calls, Sending, Queueing
    <3>4. QED
      BY <1>1, <2>1, <2>2, <3>3 DEF CallTyped, AnswerOf, Sending, Queueing
  <2>4. QED
    BY <1>1, <1>2, <2>1, <2>3, CallsReplaced
<1>5. DraftsTyped' /\ FilesTyped' /\ NotesTyped' /\ BagsTyped'
  BY <1>2, DraftsKeep, FilesKeep, NotesShrink, BagsKeep
<1>6. QED
  BY <1>2, <1>3, <1>4, <1>5, TypeOfServe

LEMMA BagsGoOut ==
  ASSUME ComposerTypeOK, NEW x \in Written, NEW files \in SUBSET Files, GoesOut(x, files),
         pressed' = pressed, typed' = typed
  PROVE  BagsTyped' /\ BagToSet(mailed') = BagToSet(mailed) \cup {[letter |-> x, files |-> files \cap DOMAIN uploads]}
<1> DEFINE m == [letter |-> x, files |-> files \cap DOMAIN uploads]
<1>1. mailed' = mailed (+) SetToBag({m})
  BY DEF GoesOut
<1>2. m \in Loaded
  BY DEF Loaded
<1>3. IsABag(mailed) /\ BagsTyped
  BY TypeParts DEF BagsTyped
<1>4. Loaded' = Loaded
  BY DEF Loaded, Written
<1>5. IsABag(mailed') /\ BagToSet(mailed') = BagToSet(mailed) \cup {m}
  <2> HIDE DEF m
  <2>1. QED
    BY <1>1, <1>3, BagAdds
<1>6. QED
  BY <1>2, <1>3, <1>4, <1>5 DEF BagsTyped

LEMMA TypeOfServeSend == ASSUME ComposerTypeOK, NEW c \in Slots, ServeSend(c) PROVE ComposerTypeOK'
<1> USE DEF ServeSend, aside, page, tables, fileNotes
<1>1. calls[c].letter \in Written /\ calls[c].files \in SUBSET Files /\ calls[c].kind = "send"
  BY LetterOf DEF IsAt, Sending
<1>2. Grows
  BY QuietGrows
<1>3. BagsTyped'
  BY <1>1, BagsGoOut
<1>4. DraftsTyped' /\ FilesTyped' /\ NotesTyped'
  BY <1>2, DraftsKeep, FilesKeep, NotesShrink
<1>5. QED
  BY <1>1, <1>3, <1>4, TypeOfAnswers

LEMMA TypeOfSettle ==
  ASSUME ComposerTypeOK, Grows, NEW x, NEW d, NEW files, Settle(x, d, files),
         UNCHANGED <<stamped, tangled>>
  PROVE  DraftsTyped' /\ FilesTyped' /\ NotesTyped'
BY DraftsWithout, FilesWithout, NotesShrink DEF Settle

LEMMA TypeOfSettleSend == ASSUME ComposerTypeOK, NEW c \in Slots, SettleSend(c) PROVE ComposerTypeOK'
<1> USE DEF SettleSend, aside, page
<1>1. Grows
  BY QuietGrows
<1>2. BagsTyped'
  BY <1>1, BagsKeep
<1>3. QED
  BY <1>1, <1>2, TypeOfSettle, TypeOfAnswers

LEMMA TypeOfClaim == ASSUME ComposerTypeOK, NEW c \in Slots, Claim(c) PROVE ComposerTypeOK'
<1> USE DEF Claim, aside, page, ghosts, fileNotes
<1>1. calls[c].row \in DOMAIN rows /\ calls[c].kind = "undo"
  BY LetterOf DEF IsAt
<1>2. Grows /\ Len(rows') = Len(rows) /\ rows' \in Seq(Rows')
  <2>1. CASE rows' = rows
    BY <2>1, QuietGrows, RowsKeep
  <2>2. CASE rows' = [rows EXCEPT ![calls[c].row].status = "cancelled"]
    <3>1. RowsBecome(calls[c].row, "cancelled", rows[calls[c].row].out)
      BY <1>1, <2>2, RowsStatus
    <3>2. Grows
      BY <3>1, StillGrows, Bounds DEF RowsBecome, ComposerTypeOK
    <3>3. QED
      BY <3>1, <3>2, RowsBecomeTyped
  <2>3. QED
    BY <2>1, <2>2
<1>3. CallsTyped'
  BY <1>1, <1>2, CallsAnswered
<1>4. DraftsTyped' /\ FilesTyped' /\ NotesTyped' /\ BagsTyped'
  BY <1>2, DraftsKeep, FilesKeep, NotesShrink, BagsKeep
<1>5. QED
  BY <1>2, <1>3, <1>4, TypeOfServe

LEMMA TypeOfRestore == ASSUME ComposerTypeOK, NEW c \in Slots, Restore(c) PROVE ComposerTypeOK'
<1> USE DEF Restore, aside, fileNotes
<1>1. rows[calls[c].row].letter \in Written
  BY LetterOf DEF IsAt, Rows
<1>2. /\ made' = made + 1 /\ made' \in 0 .. MaxDrafts /\ made \in Nat /\ made' \in Nat
      /\ DOMAIN drafts' \subseteq 1 .. made' /\ drafts' \in [DOMAIN drafts' -> Written]
  BY <1>1, NewDraftIs
<1>3. Grows
  BY <1>2, StillGrows, Bounds DEF page, ComposerTypeOK
<1>4. DraftsTyped'
  BY <1>2 DEF DraftsTyped, Written
<1>5. CallsTyped'
  BY <1>2, <1>3, CallsMadeDraft
<1>6. FilesTyped' /\ rows' \in Seq(Rows') /\ BagsTyped'
  BY <1>3, FilesKeep, RowsKeep, BagsKeep
<1>7. NotesTyped'
  BY <1>1 DEF NotesTyped, ComposerTypeOK, Written
<1>8. QED
  BY <1>3, <1>4, <1>5, <1>6, <1>7, TypeOfServe

LEMMA TypeOfDrops ==
  ASSUME ComposerTypeOK, (\E d \in dropping : DropDraft(d)) \/ (\E f \in Files : DropUpload(f))
  PROVE  ComposerTypeOK'
<1>1. Grows
  BY QuietGrows DEF DropDraft, DropUpload, page, ghosts
<1>2. CallsTyped' /\ rows' \in Seq(Rows') /\ BagsTyped' /\ NotesTyped'
  BY <1>1, CallsKeep, RowsKeep, BagsKeep, NotesShrink DEF DropDraft, DropUpload, ghosts,
     fileNotes
<1>3. DraftsTyped' /\ FilesTyped'
  <2>1. CASE \E d \in dropping : DropDraft(d)
    BY <1>1, <2>1, DraftsWithout, FilesKeep DEF DropDraft, fileNotes
  <2>2. CASE \E f \in Files : DropUpload(f)
    BY <1>1, <2>2, DraftsKeep, FilesWithout DEF DropUpload, ghosts, fileNotes
  <2>3. QED
    BY <2>1, <2>2
<1>4. UNCHANGED <<page, typed, now>>
  BY DEF DropDraft, DropUpload, ghosts
<1>5. QED
  BY <1>1, <1>2, <1>3, <1>4, TypeOfServe

LEMMA TypeOfSweep == ComposerTypeOK /\ SweepTempUploads => ComposerTypeOK'
<1> SUFFICES ASSUME ComposerTypeOK, SweepTempUploads PROVE ComposerTypeOK'
  OBVIOUS
<1> USE DEF SweepTempUploads, page, requests, ghosts, fileNotes
<1>1. Grows
  BY QuietGrows
<1>2. CallsTyped' /\ rows' \in Seq(Rows') /\ BagsTyped' /\ NotesTyped' /\ DraftsTyped' /\ FilesTyped'
  BY <1>1, CallsKeep, RowsKeep, BagsKeep, NotesShrink, DraftsKeep, FilesWithout
<1>3. QED
  BY <1>1, <1>2, TypeOfServe

LEMMA TypeOfClock == ComposerTypeOK /\ Clock => ComposerTypeOK'
<1> SUFFICES ASSUME ComposerTypeOK, Clock PROVE ComposerTypeOK'
  OBVIOUS
<1> USE DEF Clock, page, requests, tables, ghosts, fileNotes
<1>1. Grows
  BY Bounds DEF Grows, ComposerTypeOK
<1>2. CallsTyped' /\ rows' \in Seq(Rows') /\ BagsTyped' /\ NotesTyped' /\ DraftsTyped' /\ FilesTyped'
      /\ WindowTyped'
  BY <1>1, CallsKeep, RowsKeep, BagsKeep, NotesShrink, DraftsKeep, FilesKeep, WindowKeeps
<1>3. CountersTyped'
  BY Bounds DEF CountersTyped, ComposerTypeOK
<1>4. QED
  BY <1>2, <1>3, TypePartsNext

LEMMA TypeOfStutter == ComposerTypeOK /\ UNCHANGED composerVars => ComposerTypeOK'
<1> SUFFICES ASSUME ComposerTypeOK, UNCHANGED composerVars PROVE ComposerTypeOK'
  OBVIOUS
<1> USE DEF composerVars, page, requests, tables, ghosts, fileNotes
<1>1. Grows
  BY QuietGrows
<1>2. CallsTyped' /\ rows' \in Seq(Rows') /\ BagsTyped' /\ NotesTyped' /\ DraftsTyped' /\ FilesTyped'
  BY <1>1, CallsKeep, RowsKeep, BagsKeep, NotesShrink, DraftsKeep, FilesKeep
<1>3. QED
  BY <1>1, <1>2, TypeOfServe

LEMMA TypeOfWindowAnswers ==
  ASSUME ComposerTypeOK, NEW c \in Slots, SaveDone(c) \/ UploadDone(c) \/ Refused(c)
  PROVE  ComposerTypeOK'
<1> USE DEF SaveDone, UploadDone, Refused, aside, page, tables, ghosts, fileNotes
<1>1. WindowTyped /\ calls[c] \in Calls
  BY LetterOf, TypeParts
<1>2. window'.n = window.n /\ WindowTyped'
  <2>0. UNCHANGED <<typed, made>>
    OBVIOUS
  <2>1. CASE window' = window
    BY <1>1, <2>0, <2>1 DEF WindowTyped, Written
  <2>2. CASE window' = [window EXCEPT !.draft = calls[c].draft]
    BY <1>1, <2>0, <2>2 DEF WindowTyped, Written, Calls
  <2>3. CASE window' = [window EXCEPT !.files = @ \cup calls[c].files]
    BY <1>1, <2>0, <2>3 DEF WindowTyped, Written, Calls
  <2>4. QED
    BY <2>1, <2>2, <2>3
<1>3. Grows
  BY <1>2, Bounds DEF Grows, ComposerTypeOK
<1>4. CallsTyped' /\ rows' \in Seq(Rows') /\ BagsTyped' /\ NotesTyped' /\ DraftsTyped' /\ FilesTyped'
  BY <1>3, CallsDone, RowsKeep, BagsKeep, NotesShrink, DraftsKeep, FilesKeep
<1>5. CountersTyped'
  BY DEF CountersTyped, ComposerTypeOK
<1>6. QED
  BY <1>2, <1>4, <1>5, TypePartsNext

\* What each step of the cron trigger and Cancel do to the row.
LEMMA RowSteps ==
  ASSUME ComposerTypeOK, NEW r \in DOMAIN rows
  PROVE  /\ Cancel(r) => RowsBecome(r, "cancelled", rows[r].out)
         /\ Dispatch(r) => RowsBecome(r, rows[r].status, TRUE)
         /\ DispatchMisses(r) \/ DispatchRejected(r) => RowsBecome(r, "failed", rows[r].out)
         /\ DispatchSettles(r) => RowsBecome(r, "sent", FALSE)
         /\ DispatchBreaks(r) => RowsBecome(r, "failed", FALSE)
BY RowsStatus, RowsOut, RowsEnd
   DEF Cancel, Dispatch, DispatchMisses, DispatchRejected, DispatchSettles, DispatchBreaks

LEMMA TypeOfRowSteps ==
  ASSUME ComposerTypeOK, NEW r \in DOMAIN rows,
         Cancel(r) \/ Dispatch(r) \/ DispatchMisses(r) \/ DispatchRejected(r)
           \/ DispatchSettles(r) \/ DispatchBreaks(r)
  PROVE  ComposerTypeOK'
<1> USE DEF Cancel, Dispatch, DispatchMisses, DispatchRejected, DispatchSettles, DispatchBreaks,
            page, requests, fileNotes
<1>1. PICK s, o : RowsBecome(r, s, o)
  BY RowSteps
<1>2. UNCHANGED <<page, typed, now, calls, made, pressed, stamped>>
  OBVIOUS
<1>3. Grows
  BY <1>1, <1>2, StillGrows, Bounds DEF RowsBecome, ComposerTypeOK
<1>4. rows' \in Seq(Rows') /\ CallsTyped'
  BY <1>1, <1>2, <1>3, RowsBecomeTyped, CallsKeep
<1>5. rows[r].letter \in Written /\ rows[r].files \in SUBSET Files
  BY RowTyped DEF Rows
<1>6. BagsTyped'
  <2>1. CASE Dispatch(r)
    BY <1>2, <1>5, <2>1, BagsGoOut
  <2>2. CASE ~Dispatch(r)
    BY <1>2, <1>3, <2>2, BagsKeep
  <2>3. QED
    BY <2>1, <2>2
<1>7. DraftsTyped' /\ FilesTyped' /\ NotesTyped'
  <2>1. CASE DispatchSettles(r)
    BY <1>2, <1>3, <2>1, TypeOfSettle
  <2>2. CASE ~DispatchSettles(r)
    <3>1. DraftsTyped' /\ FilesTyped'
      BY <1>2, <1>3, <2>2, DraftsKeep, FilesKeep
    <3>2. wanted' \subseteq wanted /\ tangled' \subseteq tangled \cup {rows[r].letter}
      BY <2>2
    <3>3. QED
      BY <1>2, <1>5, <3>1, <3>2 DEF NotesTyped, ComposerTypeOK, Written
  <2>3. QED
    BY <2>1, <2>2
<1>8. QED
  BY <1>2, <1>3, <1>4, <1>6, <1>7, TypeOfServe

LEMMA OpensTyped ==
  ASSUME ComposerTypeOK, OpenBlank \/ \E d \in DOMAIN drafts : OpenDraft(d)
  PROVE  \E letter \in 0 .. typed, draft \in 0 .. made : Open(letter, draft)
<1>0. 0 \in 0 .. typed /\ 0 \in 0 .. made
  BY Bounds DEF ComposerTypeOK
<1>1. CASE OpenBlank
  BY <1>0, <1>1 DEF OpenBlank
<1>2. ASSUME NEW d \in DOMAIN drafts, OpenDraft(d)
      PROVE  \E letter \in 0 .. typed, draft \in 0 .. made : Open(letter, draft)
  <2>1. drafts[d] \in 0 .. typed /\ d \in 0 .. made
    BY DEF ComposerTypeOK, Written
  <2>2. Open(drafts[d], d)
    BY <1>2 DEF OpenDraft
  <2>3. QED
    BY <2>1, <2>2
<1>3. QED
  BY <1>1, <1>2

LEMMA ComposerTypeNext == ComposerTypeOK /\ [ComposerNext]_composerVars => ComposerTypeOK'
<1> SUFFICES ASSUME ComposerTypeOK, [ComposerNext]_composerVars PROVE ComposerTypeOK'
  OBVIOUS
<1>1. CASE UNCHANGED composerVars
  BY <1>1, TypeOfStutter
<1>2. CASE OpenBlank \/ \E d \in DOMAIN drafts : OpenDraft(d)
  BY <1>2, OpensTyped, TypeOfOpen
<1>3. CASE Type \/ Discard \/ SweepTempUploads \/ Clock
  BY <1>3, TypeOfType, TypeOfDiscard, TypeOfSweep, TypeOfClock
<1>4. CASE (\E d \in dropping : DropDraft(d)) \/ \E f \in Files : RemoveAttachment(f) \/ DropUpload(f)
  BY <1>4, TypeOfDrops, TypeOfRemoveAttachment
<1>5. ASSUME NEW c \in Slots,
             \/ Save(c) \/ SendNow(c) \/ Hold(c) \/ PressUndo(c)
             \/ \E at \in 1 .. MaxTime : Schedule(c, at)
             \/ \E f \in Files : Attach(c, f)
      PROVE  ComposerTypeOK'
  BY <1>5, TypeOfSave, TypeOfSends, TypeOfPressUndo, TypeOfAttach
<1>6. ASSUME NEW c \in Slots,
             \/ ServePost(c) \/ ServePatch(c) \/ PatchMisses(c) \/ ServeUpload(c)
             \/ ServeQueue(c) \/ QueueTooLate(c)
             \/ ServeSend(c) \/ SendMisses(c) \/ SettleSend(c)
             \/ Claim(c) \/ Restore(c)
             \/ Fail(c) \/ Break(c) \/ LoseAnswer(c)
      PROVE  ComposerTypeOK'
  BY <1>6, TypeOfServePost, TypeOfServePatch, TypeOfPlainAnswers, TypeOfServeUpload,
     TypeOfServeQueue,
     TypeOfServeSend, TypeOfSettleSend, TypeOfClaim, TypeOfRestore
<1>7. ASSUME NEW c \in Slots,
             SaveDone(c) \/ UploadDone(c) \/ SendDone(c) \/ UndoDone(c) \/ Refused(c)
      PROVE  ComposerTypeOK'
  BY <1>7, TypeOfWindowAnswers, TypeOfSendDone, TypeOfUndoDone
<1>8. ASSUME NEW r \in DOMAIN rows,
             \/ Cancel(r) \/ Dispatch(r) \/ DispatchMisses(r) \/ DispatchRejected(r)
             \/ DispatchSettles(r) \/ DispatchBreaks(r)
      PROVE  ComposerTypeOK'
  BY <1>8, TypeOfRowSteps
<1>9. QED
  BY <1>1, <1>2, <1>3, <1>4, <1>5, <1>6, <1>7, <1>8 DEF ComposerNext

(***************************************************************************)
(* Types, for every value of the constants: a call names a window that was *)
(* opened, a letter that was written, a draft that was made and a row that *)
(* is there.                                                               *)
(***************************************************************************)
THEOREM ComposerTypes == ComposerSpec => []ComposerTypeOK
<1>1. QED
  BY ComposerTypeInit, ComposerTypeNext, PTL DEF ComposerSpec

-----------------------------------------------------------------------------
(***************************************************************************)
(* The files.  A step leaves a call as it is, forgets it, or answers it; so *)
(* it is enough to look at what a window, a request or a row takes up.     *)
(***************************************************************************)
GoesOn(c) ==
  \/ calls'[c] = calls[c]
  \/ calls'[c] = NoCall
  \/ /\ calls'[c].kind = calls[c].kind /\ calls'[c].n = calls[c].n
     /\ calls'[c].seen = calls[c].seen /\ calls'[c].letter = calls[c].letter
     /\ calls'[c].files = calls[c].files
     /\ calls'[c].step # "asked"
     /\ calls[c].kind = "upload" => calls'[c].step = "refused"

LEMMA DoneIs ==
  ASSUME ComposerTypeOK, NEW c \in Slots, Done(c)
  PROVE  /\ calls'[c] = NoCall /\ \A b \in Slots \ {c} : calls'[b] = calls[b]
         /\ \A b \in Slots : GoesOn(b)
<1>1. calls \in [Slots -> Calls]
  BY DEF ComposerTypeOK
<1>2. QED
  BY <1>1 DEF Done, GoesOn

LEMMA AskedIs ==
  ASSUME ComposerTypeOK, NEW c \in Slots, NEW call, Ask(c, call)
  PROVE  /\ calls[c] = NoCall /\ calls'[c] = call /\ \A b \in Slots \ {c} : calls'[b] = calls[b]
<1>1. calls \in [Slots -> Calls]
  BY DEF ComposerTypeOK
<1>2. QED
  BY <1>1 DEF Ask

LEMMA AnsweredGoesOn ==
  ASSUME ComposerTypeOK, NEW c \in Slots, NEW s \in {"ok", "refused", "mailed", "claimed"}, Answered(c, s),
         calls[c].kind = "upload" => s = "refused"
  PROVE  \A b \in Slots : GoesOn(b)
<1>1. calls \in [Slots -> Calls]
  BY DEF ComposerTypeOK
<1>2. \A b \in Slots \ {c} : calls'[b] = calls[b]
  BY <1>1 DEF Answered
<1>3. GoesOn(c)
  BY AnsweredIs DEF GoesOn
<1>4. QED
  BY <1>2, <1>3 DEF GoesOn

LEMMA MadeDraftGoesOn ==
  ASSUME ComposerTypeOK, NEW c \in Slots, NEW d, calls[c].kind # "upload",
         calls' = [calls EXCEPT ![c].step = "ok", ![c].draft = d]
  PROVE  /\ calls'[c] = AnswerOf(c, d, calls[c].row)
         /\ \A b \in Slots \ {c} : calls'[b] = calls[b]
         /\ \A b \in Slots : GoesOn(b)
<1>1. calls \in [Slots -> Calls]
  BY DEF ComposerTypeOK
<1>2. calls' = [calls EXCEPT ![c] = AnswerOf(c, d, calls[c].row)]
  BY AnsweredWithDraft
<1>3. calls'[c] = AnswerOf(c, d, calls[c].row) /\ \A b \in Slots \ {c} : calls'[b] = calls[b]
  BY <1>1, <1>2
<1>4. GoesOn(c)
  BY <1>3 DEF GoesOn, AnswerOf
<1>5. QED
  BY <1>3, <1>4 DEF GoesOn

LEMMA QueuedGoesOn ==
  ASSUME ComposerTypeOK, NEW c \in Slots, ServeQueue(c)
  PROVE  /\ calls'[c] = AnswerOf(c, calls[c].draft, Len(rows) + 1)
         /\ \A b \in Slots \ {c} : calls'[b] = calls[b]
         /\ \A b \in Slots : GoesOn(b)
<1>1. calls \in [Slots -> Calls] /\ calls[c].kind \in Queueing
  BY DEF ComposerTypeOK, ServeQueue, IsAt
<1>2. calls' = [calls EXCEPT ![c] = AnswerOf(c, calls[c].draft, Len(rows) + 1)]
  BY QueuedIs
<1>3. calls'[c] = AnswerOf(c, calls[c].draft, Len(rows) + 1) /\ \A b \in Slots \ {c} : calls'[b] = calls[b]
  BY <1>1, <1>2
<1>4. GoesOn(c)
  BY <1>1, <1>3 DEF GoesOn, AnswerOf, Queueing
<1>5. QED
  BY <1>3, <1>4 DEF GoesOn

\* The steps of the author's requests.
Asks(c) == \/ Save(c) \/ SendNow(c) \/ Hold(c) \/ PressUndo(c)
           \/ \E at \in 1 .. MaxTime : Schedule(c, at)
           \/ \E f \in Files : Attach(c, f)

LEMMA CallsGoOn ==
  ASSUME ComposerTypeOK, ComposerNext \/ UNCHANGED composerVars,
         \A c \in Slots : ~Asks(c) /\ ~ServeUpload(c)
  PROVE  \A b \in Slots : GoesOn(b)
<1>1. CASE calls' = calls
  BY <1>1 DEF GoesOn
<1>2. ASSUME NEW c \in Slots,
             ServePatch(c) \/ PatchMisses(c) \/ QueueTooLate(c) \/ ServeSend(c) \/ SendMisses(c)
               \/ SettleSend(c) \/ Claim(c) \/ Fail(c) \/ Break(c) \/ LoseAnswer(c)
      PROVE  \A b \in Slots : GoesOn(b)
  <2>1. \E s \in {"ok", "refused", "mailed", "claimed"} :
          Answered(c, s) /\ (calls[c].kind = "upload" => s = "refused")
    BY <1>2 DEF ServePatch, PatchMisses, QueueTooLate, ServeSend, SendMisses, SettleSend,
       Claim, Fail,
                Break, LoseAnswer, IsAt
  <2>2. QED
    BY <2>1, AnsweredGoesOn
<1>3. ASSUME NEW c \in Slots, ServePost(c) \/ Restore(c) PROVE \A b \in Slots : GoesOn(b)
  BY <1>3, MadeDraftGoesOn DEF ServePost, Restore, IsAt
<1>4. ASSUME NEW c \in Slots, ServeQueue(c) PROVE \A b \in Slots : GoesOn(b)
  BY <1>4, QueuedGoesOn
<1>5. ASSUME NEW c \in Slots, SaveDone(c) \/ UploadDone(c) \/ SendDone(c) \/ UndoDone(c) \/ Refused(c)
      PROVE  \A b \in Slots : GoesOn(b)
  BY <1>5, DoneIs DEF SaveDone, UploadDone, SendDone, UndoDone, Refused
<1>6. CASE \/ OpenBlank \/ Type \/ Discard \/ SweepTempUploads \/ Clock \/ UNCHANGED composerVars
           \/ \E d \in DOMAIN drafts : OpenDraft(d)
           \/ \E d \in dropping : DropDraft(d)
           \/ \E f \in Files : RemoveAttachment(f) \/ DropUpload(f)
           \/ \E r \in DOMAIN rows :
                \/ Cancel(r) \/ Dispatch(r) \/ DispatchMisses(r) \/ DispatchRejected(r)
                \/ DispatchSettles(r) \/ DispatchBreaks(r)
  <2>1. calls' = calls
    BY <1>6 DEF OpenBlank, OpenDraft, Open, Type, Discard, SweepTempUploads, Clock, DropDraft,
       DropUpload,
                RemoveAttachment, Cancel, Dispatch, DispatchMisses, DispatchRejected,
                DispatchSettles, DispatchBreaks, requests, composerVars
  <2>2. QED
    BY <1>1, <2>1
<1>7. QED
  BY <1>2, <1>3, <1>4, <1>5, <1>6 DEF ComposerNext, Asks

(* The files: what a window, a request or a row holds was uploaded once, and an upload that is
   gone was removed or is older than the sweep allows. *)
HoldsUploaded(call) ==
  call.kind \in Sending \/ (call.kind = "upload" /\ call.step = "ok") => call.files \subseteq DOMAIN stamped

FilesKnown ==
  /\ window.files \subseteq DOMAIN stamped
  /\ \A c \in Slots : HoldsUploaded(calls[c])
  /\ \A r \in DOMAIN rows : rows[r].files \subseteq DOMAIN stamped

Uploading(call) == call.kind = "upload" /\ call.step = "asked"

UploadsFresh ==
  \A c \in Slots :
    /\ calls[c].kind = "upload" => \E f \in Files : calls[c].files = {f}
    /\ Uploading(calls[c]) =>
         /\ calls[c].files \cap DOMAIN stamped = {}
         /\ \A b \in Slots \ {c} : Uploading(calls[b]) => calls[b].files \cap calls[c].files = {}

Old(f) == stamped[f] + UploadTTL < now

FilesAccounted ==
  /\ unfiling \subseteq removed
  /\ \A f \in DOMAIN stamped : f \in removed \/ Old(f) \/ (f \in DOMAIN uploads /\ uploads[f] = stamped[f])
  /\ \A f \in refused : f \in removed \/ (f \in DOMAIN stamped /\ Old(f))

FileInv == FilesKnown /\ UploadsFresh /\ FilesAccounted

LEMMA FileInvInit == ComposerInit => FileInv
BY DEF ComposerInit, FileInv, FilesKnown, HoldsUploaded, UploadsFresh, Uploading,
   FilesAccounted, NoCall,
       Sending, Queueing

LEMMA CallsHold ==
  ASSUME ComposerTypeOK, FileInv, stamped' = stamped, \A b \in Slots : GoesOn(b)
  PROVE  (\A c \in Slots : HoldsUploaded(calls[c])') /\ UploadsFresh'
<1>1. ASSUME NEW c \in Slots
      PROVE  /\ HoldsUploaded(calls[c])'
             /\ Uploading(calls'[c]) => calls'[c] = calls[c]
             /\ calls'[c].kind = "upload" => calls'[c].files = calls[c].files /\ calls[c].kind = "upload"
  <2>1. CASE calls'[c] = calls[c]
    BY <2>1 DEF HoldsUploaded, FileInv, FilesKnown
  <2>2. CASE calls'[c] = NoCall
    BY <2>2 DEF HoldsUploaded, NoCall, Uploading, Sending, Queueing
  <2>3. CASE /\ calls'[c].kind = calls[c].kind /\ calls'[c].files = calls[c].files
             /\ calls'[c].step # "asked"
             /\ calls[c].kind = "upload" => calls'[c].step = "refused"
    BY <2>3 DEF HoldsUploaded, Uploading, FileInv, FilesKnown
  <2>4. QED
    BY <2>1, <2>2, <2>3 DEF GoesOn
<1>2. UploadsFresh'
  BY <1>1 DEF UploadsFresh, FileInv, Uploading
<1>3. QED
  BY <1>1, <1>2

\* An upload may go when it was removed or is old, and a send may miss what was uploaded and is gone.
LEMMA AccountedKept ==
  ASSUME ComposerTypeOK, FilesAccounted, NEW S, stamped' = stamped, removed \subseteq removed',
         now' \in Nat, now <= now', uploads' = uploads \/ uploads' = Without(uploads, S), S \subseteq removed' \cup Stale,
         unfiling' \subseteq removed',
         \A f \in refused' \ refused : f \in DOMAIN stamped \ DOMAIN uploads
  PROVE  FilesAccounted'
<1>1. \A f \in DOMAIN stamped : Old(f) => Old(f)'
  BY Bounds DEF Old, ComposerTypeOK
<1>2. \A f \in DOMAIN stamped : f \in Stale /\ uploads[f] = stamped[f] => Old(f)
  BY DEF Stale, Old
<1>3. ASSUME NEW f \in DOMAIN stamped
      PROVE  f \in removed' \/ Old(f)' \/ (f \in DOMAIN uploads' /\ uploads'[f] = stamped'[f])
  <2>1. CASE f \in removed \/ Old(f)
    BY <1>1, <2>1
  <2>2. CASE f \in DOMAIN uploads /\ uploads[f] = stamped[f]
    <3>1. CASE uploads' = uploads
      BY <2>2, <3>1
    <3>2. CASE uploads' = Without(uploads, S) /\ f \notin S
      BY <2>2, <3>2 DEF Without, Restrict
    <3>3. CASE f \in S
      BY <1>1, <1>2, <2>2, <3>3
    <3>4. QED
      BY <3>1, <3>2, <3>3
  <2>3. QED
    BY <2>1, <2>2 DEF FilesAccounted
<1>4. ASSUME NEW f \in refused' PROVE f \in removed' \/ (f \in DOMAIN stamped' /\ Old(f)')
  BY <1>1, <1>4 DEF FilesAccounted
<1>5. QED
  BY <1>3, <1>4 DEF FilesAccounted

LEMMA FilesRemembered ==
  ASSUME ComposerTypeOK, FileInv, NEW S, \A b \in Slots : GoesOn(b),
         stamped' = stamped, removed \subseteq removed', now' \in Nat, now <= now',
         uploads' = uploads \/ uploads' = Without(uploads, S), S \subseteq removed' \cup Stale,
         unfiling' \subseteq removed',
         \A f \in refused' \ refused : f \in DOMAIN stamped \ DOMAIN uploads,
         window'.files \subseteq DOMAIN stamped,
         \A r \in DOMAIN rows' : rows'[r].files \subseteq DOMAIN stamped
  PROVE  FileInv'
BY CallsHold, AccountedKept DEF FileInv, FilesKnown

(* What an author asks for.                                                *)
LEMMA AsksAre ==
  ASSUME ComposerTypeOK, NEW c \in Slots, Asks(c)
  PROVE  \/ Save(c) /\ Ask(c, AskedFor("save", window.seen, {}, 0))
         \/ \E kind \in Sending, due \in Nat :
              Press(c, AskedFor(kind, {}, window.files, due))
              /\ Ask(c, AskedFor(kind, {}, window.files, due))
         \/ PressUndo(c) /\ Ask(c, UndoCall(toast)) /\ toast \in DOMAIN rows
         \/ \E f \in Files : Attach(c, f) /\ Ask(c, UploadCall(f))
<1>1. CASE Save(c)
  BY <1>1, CallsOfTheWindow DEF Save
<1>2. CASE SendNow(c)
  <2>1. Press(c, AskedFor("send", {}, window.files, 0))
    BY <1>2, CallsOfTheWindow DEF SendNow
  <2>2. QED
    BY <2>1 DEF Press, Sending
<1>3. CASE Hold(c)
  <2>1. now + 1 \in Nat
    BY DEF ComposerTypeOK
  <2>2. Press(c, AskedFor("hold", {}, window.files, now + 1))
    BY <1>3, <2>1, CallsOfTheWindow DEF Hold, Queueing
  <2>3. QED
    BY <2>1, <2>2 DEF Press, Sending, Queueing
<1>4. ASSUME NEW at \in 1 .. MaxTime, Schedule(c, at)
      PROVE  \E kind \in Sending, due \in Nat :
              Press(c, AskedFor(kind, {}, window.files, due))
              /\ Ask(c, AskedFor(kind, {}, window.files, due))
  <2>1. at \in Nat
    BY Bounds
  <2>2. Press(c, AskedFor("later", {}, window.files, at))
    BY <1>4, <2>1, CallsOfTheWindow DEF Schedule, Queueing
  <2>3. QED
    BY <2>1, <2>2 DEF Press, Sending, Queueing
<1>5. CASE PressUndo(c)
  <2>1. toast \in DOMAIN rows
    BY <1>5 DEF PressUndo, ComposerTypeOK
  <2>2. QED
    BY <1>5, <2>1, OtherCalls DEF PressUndo
<1>6. ASSUME NEW f \in Files, Attach(c, f) PROVE Ask(c, UploadCall(f))
  BY <1>6, OtherCalls DEF Attach
<1>7. QED
  BY <1>1, <1>2, <1>3, <1>4, <1>5, <1>6 DEF Asks

LEMMA AsksLeave ==
  ASSUME NEW c \in Slots, Asks(c)
  PROVE  UNCHANGED <<aside, tables, now, typed, wanted, mailed, fileNotes>>
BY DEF Asks, Save, SendNow, Hold, Schedule, Press, PressUndo, Attach

\* The steps that ask for something do not touch the files.
LEMMA FilesOfAsks ==
  ASSUME ComposerTypeOK, FileInv, NEW c \in Slots, Asks(c)
  PROVE  FileInv'
<1>1. UNCHANGED <<window, uploads, rows, now, stamped, removed, refused, unfiling>>
  BY AsksLeave DEF aside, page, tables, fileNotes
<1>2. PICK call : /\ Ask(c, call)
                  /\ \/ call.kind \in Sending /\ call.files = window.files
                     \/ call.kind \in {"save", "undo"}
                     \/ \E f \in Files : call = UploadCall(f) /\ Attach(c, f)
  <2>1. CASE Ask(c, AskedFor("save", window.seen, {}, 0))
    BY <2>1 DEF AskedFor
  <2>2. ASSUME NEW kind \in Sending, NEW due \in Nat, Ask(c, AskedFor(kind, {}, window.files, due))
        PROVE  \E call : Ask(c, call) /\ call.kind \in Sending /\ call.files = window.files
    BY <2>2 DEF AskedFor
  <2>3. CASE Ask(c, UndoCall(toast))
    BY <2>3 DEF UndoCall
  <2>4. QED
    BY <2>1, <2>2, <2>3, AsksAre
<1>3. calls'[c] = call /\ calls[c] = NoCall /\ \A b \in Slots \ {c} : calls'[b] = calls[b]
  BY <1>2, AskedIs
<1>4. FilesAccounted'
  BY <1>1 DEF FileInv, FilesAccounted, Old
<1>5. FilesKnown'
  <2>1. HoldsUploaded(calls[c])'
    BY <1>1, <1>2, <1>3 DEF FileInv, FilesKnown, HoldsUploaded, UploadCall, Sending, Queueing
  <2>2. \A b \in Slots \ {c} : HoldsUploaded(calls[b])'
    BY <1>1, <1>3 DEF FileInv, FilesKnown, HoldsUploaded
  <2>3. QED
    BY <1>1, <2>1, <2>2 DEF FileInv, FilesKnown
<1>6. UploadsFresh'
  <2>1. CASE call.kind \in Sending \cup {"save", "undo"}
    <3>1. calls'[c].kind # "upload" /\ ~Uploading(calls'[c])
      BY <1>3, <2>1 DEF Uploading, Sending, Queueing
    <3>2. QED
      BY <1>1, <1>3, <3>1 DEF FileInv, UploadsFresh, Uploading
  <2>2. ASSUME NEW f \in Files, call = UploadCall(f), Attach(c, f) PROVE UploadsFresh'
    <3>1. f \notin DOMAIN stamped /\ \A b \in Slots : calls[b].kind = "upload" => calls[b].files # {f}
      BY <2>2 DEF UnderWay, Attach
    <3>2. calls'[c].files = {f} /\ calls'[c].kind = "upload"
      BY <1>3, <2>2 DEF UploadCall
    <3>3. \A b \in Slots \ {c} : calls[b].kind = "upload" => calls[b].files \cap {f} = {}
      <4> SUFFICES ASSUME NEW b \in Slots \ {c}, calls[b].kind = "upload" PROVE calls[b].files \cap {f} = {}
        OBVIOUS
      <4>1. PICK g \in Files : calls[b].files = {g}
        BY DEF FileInv, UploadsFresh
      <4>2. QED
        BY <3>1, <4>1
    <3>4. ASSUME NEW b \in Slots
          PROVE  /\ calls'[b].kind = "upload" => \E g \in Files : calls'[b].files = {g}
                 /\ Uploading(calls'[b]) =>
                      /\ calls'[b].files \cap DOMAIN stamped = {}
                      /\ \A d \in Slots \ {b} : Uploading(calls'[d]) => calls'[d].files \cap calls'[b].files = {}
      <4>1. CASE b = c
        BY <1>3, <3>1, <3>2, <3>3, <4>1 DEF Uploading
      <4>2. CASE b # c
        BY <1>3, <3>2, <3>3, <4>2 DEF FileInv, UploadsFresh, Uploading
      <4>3. QED
        BY <4>1, <4>2
    <3>5. QED
      BY <1>1, <3>4 DEF UploadsFresh, Uploading
  <2>3. QED
    BY <1>2, <2>1, <2>2
<1>7. QED
  BY <1>4, <1>5, <1>6 DEF FileInv

LEMMA FilesOfServeUpload ==
  ASSUME ComposerTypeOK, FileInv, NEW c \in Slots, ServeUpload(c)
  PROVE  FileInv'
<1>1. /\ UNCHANGED <<window, rows, now, removed, refused, unfiling>> /\ Answered(c, "ok")
      /\ Uploading(calls[c])
  BY DEF ServeUpload, aside, page, IsAt, Uploading
<1>2. PICK f \in Files : calls[c].files = {f}
  BY <1>1 DEF FileInv, UploadsFresh, Uploading
<1>3. f \notin DOMAIN stamped
  BY <1>1, <1>2 DEF FileInv, UploadsFresh, Uploading
<1>4. /\ DOMAIN stamped' = DOMAIN stamped \cup {f} /\ DOMAIN uploads' = DOMAIN uploads \cup {f}
      /\ stamped'[f] = now /\ uploads'[f] = now
      /\ \A g \in DOMAIN stamped : stamped'[g] = stamped[g]
      /\ \A g \in DOMAIN uploads \ {f} : uploads'[g] = uploads[g]
  BY <1>2, <1>3 DEF ServeUpload
<1>5. FilesAccounted'
  BY <1>1, <1>3, <1>4 DEF FileInv, FilesAccounted, Old
<1>6. \A b \in Slots : /\ calls'[b].kind = calls[b].kind /\ calls'[b].files = calls[b].files
                      /\ calls'[b].step = IF b = c THEN "ok" ELSE calls[b].step
  BY <1>1, AnsweredIs
<1>7. FilesKnown'
  <2>1. \A b \in Slots : HoldsUploaded(calls[b])'
    BY <1>2, <1>4, <1>6 DEF FileInv, FilesKnown, HoldsUploaded
  <2>2. QED
    BY <1>1, <1>4, <2>1 DEF FileInv, FilesKnown
<1>8. UploadsFresh'
  <2> SUFFICES ASSUME NEW b \in Slots
               PROVE /\ calls'[b].kind = "upload" => \E g \in Files : calls'[b].files = {g}
                     /\ Uploading(calls'[b]) =>
                          /\ calls'[b].files \cap DOMAIN stamped' = {}
                          /\ \A d \in Slots \ {b} : Uploading(calls'[d]) => calls'[d].files \cap calls'[b].files = {}
    BY DEF UploadsFresh, Uploading
  <2>1. CASE b = c
    BY <1>6, <2>1 DEF FileInv, UploadsFresh, Uploading
  <2>2. CASE b # c
    <3>1. Uploading(calls'[b]) => Uploading(calls[b]) /\ f \notin calls[b].files
      BY <1>1, <1>2, <1>6, <2>2 DEF FileInv, UploadsFresh, Uploading
    <3>2. \A d \in Slots : Uploading(calls'[d]) => Uploading(calls[d])
      BY <1>6 DEF Uploading
    <3>3. Uploading(calls'[b]) => calls'[b].files \cap DOMAIN stamped' = {}
      BY <1>4, <1>6, <3>1 DEF FileInv, UploadsFresh
    <3>4. QED
      BY <1>6, <3>1, <3>2, <3>3 DEF FileInv, UploadsFresh
  <2>3. QED
    BY <2>1, <2>2
<1>9. QED
  BY <1>5, <1>7, <1>8 DEF FileInv

LEMMA MissingIs ==
  ASSUME ComposerTypeOK, FileInv
  PROVE  /\ \A c \in Slots : calls[c].kind \in Sending => Missing(calls[c].files) \subseteq DOMAIN stamped \ DOMAIN uploads
         /\ \A r \in DOMAIN rows : Missing(rows[r].files) \subseteq DOMAIN stamped \ DOMAIN uploads
         /\ \A r \in DOMAIN rows : rows[r].files \subseteq DOMAIN stamped
         /\ window.files \subseteq DOMAIN stamped /\ unfiling \subseteq removed
         /\ \A c \in Slots : calls[c].kind \in Sending => calls[c].files \subseteq DOMAIN stamped
         /\ \A c \in Slots : IsAt(c, {"upload"}, "ok") => calls[c].files \subseteq DOMAIN stamped
BY DEF FileInv, FilesKnown, HoldsUploaded, Missing, IsAt, FilesAccounted

\* A step that leaves the files alone.
LEMMA FilesLeft ==
  ASSUME ComposerTypeOK, FileInv, \A b \in Slots : GoesOn(b),
         UNCHANGED <<stamped, removed, refused, uploads, unfiling>>, now' \in Nat, now <= now',
         window'.files \subseteq DOMAIN stamped,
         \A r \in DOMAIN rows' : rows'[r].files \subseteq DOMAIN stamped
  PROVE  FileInv'
<1>1. unfiling' \subseteq removed'
  BY DEF FileInv, FilesAccounted
<1>2. QED
  BY <1>1, FilesRemembered, {} \subseteq removed' \cup Stale

LEMMA FilesOfPage ==
  ASSUME ComposerTypeOK, FileInv, \A b \in Slots : GoesOn(b),
         \/ OpenBlank \/ Type \/ Discard \/ UNCHANGED composerVars
         \/ \E d \in DOMAIN drafts : OpenDraft(d)
         \/ \E f \in Files : RemoveAttachment(f)
         \/ \E c \in Slots : SaveDone(c) \/ UploadDone(c) \/ SendDone(c) \/ UndoDone(c) \/ Refused(c)
  PROVE  FileInv'
<1> USE DEF tables, fileNotes
<1>1. UNCHANGED <<stamped, refused, uploads, rows, now>> /\ now \in Nat
  BY DEF OpenBlank, OpenDraft, Open, Type, Discard, RemoveAttachment, SaveDone, UploadDone,
     SendDone,
         UndoDone, Refused, composerVars, ghosts, ComposerTypeOK
<1>2. window.files \subseteq DOMAIN stamped /\ unfiling \subseteq removed /\ WindowTyped
  BY MissingIs, TypeParts
<1>3. CASE OpenBlank \/ (\E d \in DOMAIN drafts : OpenDraft(d)) \/ \E c \in Slots : UndoDone(c)
  <2>1. window'.files = {} /\ UNCHANGED <<removed, unfiling>>
    BY <1>3 DEF OpenBlank, OpenDraft, Open, UndoDone, Show, requests
  <2>2. QED
    BY <1>1, <2>1, FilesLeft, MissingIs
<1>4. CASE Discard
  <2>1. window'.files = {} /\ removed \subseteq removed' /\ unfiling' \subseteq removed'
    BY <1>2, <1>4, ClosedIs DEF Discard
  <2>2. QED
    BY <1>1, <2>1, FilesRemembered, MissingIs, {} \subseteq removed' \cup Stale
<1>5. ASSUME NEW f \in Files, RemoveAttachment(f) PROVE FileInv'
  <2>1. window'.files \subseteq window.files /\ removed \subseteq removed' /\ unfiling' \subseteq removed'
    BY <1>2, <1>5 DEF RemoveAttachment, WindowTyped
  <2>2. QED
    BY <1>1, <1>2, <2>1, FilesRemembered, MissingIs, {} \subseteq removed' \cup Stale
<1>6. CASE Type \/ UNCHANGED composerVars \/ \E c \in Slots : SaveDone(c) \/ SendDone(c) \/ Refused(c)
  <2>1. window'.files \subseteq window.files /\ UNCHANGED <<removed, unfiling>>
    <3>1. UNCHANGED <<removed, unfiling>>
      BY <1>6 DEF Type, SaveDone, SendDone, Refused, composerVars, requests, ghosts, aside
    <3>2. CASE Type
      BY <1>2, <3>1, <3>2 DEF Type, WindowTyped
    <3>3. ASSUME NEW c \in Slots, SaveDone(c) PROVE window'.files = window.files
      BY <1>2, <3>3 DEF SaveDone, WindowTyped
    <3>4. ASSUME NEW c \in Slots, SendDone(c) PROVE window'.files = {}
      BY <3>4, ClosedIs DEF SendDone
    <3>5. CASE UNCHANGED composerVars \/ \E c \in Slots : Refused(c)
      BY <3>1, <3>5 DEF Refused, composerVars, page, aside
    <3>6. QED
      BY <1>6, <3>1, <3>2, <3>3, <3>4, <3>5
  <2>2. QED
    BY <1>1, <1>2, <2>1, FilesLeft, MissingIs
<1>7. ASSUME NEW c \in Slots, UploadDone(c) PROVE FileInv'
  <2>1. UNCHANGED <<removed, unfiling>> /\ calls[c].files \subseteq DOMAIN stamped
    BY <1>7, MissingIs DEF UploadDone, ghosts
  <2>2. window'.files \subseteq DOMAIN stamped
    BY <1>2, <1>7, <2>1 DEF UploadDone, WindowTyped
  <2>3. QED
    BY <1>1, <2>1, <2>2, FilesLeft, MissingIs
<1>8. QED
  BY <1>3, <1>4, <1>5, <1>6, <1>7

LEMMA FilesOfServer ==
  ASSUME ComposerTypeOK, FileInv, \A b \in Slots : GoesOn(b), NEW c \in Slots,
         \/ ServePost(c) \/ ServePatch(c) \/ PatchMisses(c)
         \/ ServeQueue(c) \/ QueueTooLate(c)
         \/ ServeSend(c) \/ SendMisses(c) \/ SettleSend(c)
         \/ Claim(c) \/ Restore(c)
         \/ Fail(c) \/ Break(c) \/ LoseAnswer(c)
  PROVE  FileInv'
<1> USE DEF aside, page, tables, fileNotes
<1>1. UNCHANGED <<stamped, window, unfiling, now>> /\ now \in Nat
  BY DEF ServePost, ServePatch, PatchMisses, ServeQueue, QueueTooLate, ServeSend, SendMisses,
     SettleSend,
         Claim, Restore, Fail, Break, LoseAnswer, ghosts, ComposerTypeOK
<1>2. window.files \subseteq DOMAIN stamped /\ unfiling \subseteq removed
      /\ \A r \in DOMAIN rows : rows[r].files \subseteq DOMAIN stamped
  BY MissingIs
<1>3. CASE ServePost(c) \/ ServePatch(c) \/ PatchMisses(c) \/ QueueTooLate(c) \/ ServeSend(c) \/ Restore(c)
           \/ Fail(c) \/ Break(c) \/ LoseAnswer(c)
  <2>1. UNCHANGED <<rows, removed, refused, uploads>>
    BY <1>3 DEF ServePost, ServePatch, PatchMisses, QueueTooLate, ServeSend, Restore, Fail,
       Break,
                LoseAnswer, ghosts
  <2>2. QED
    BY <1>1, <1>2, <2>1, FilesLeft
<1>4. CASE ServeQueue(c)
  <2>1. UNCHANGED <<removed, refused, uploads>> /\ calls[c].files \subseteq DOMAIN stamped
    BY <1>4, MissingIs DEF ServeQueue, ghosts, IsAt, Sending
  <2>2. \A r \in DOMAIN rows' : rows'[r].files \subseteq DOMAIN stamped
    <3>1. rows'[Len(rows) + 1].files = calls[c].files
      <4>1. rows'[Len(rows) + 1] = QueuedRow(c)
        BY <1>4, QueuedIs
      <4>2. QED
        BY <4>1 DEF QueuedRow
    <3>2. \A r \in DOMAIN rows' : r \in DOMAIN rows \/ r = Len(rows) + 1
      BY <1>4, QueuedIs
    <3>3. \A r \in DOMAIN rows : rows'[r] = rows[r]
      BY <1>4, QueuedIs
    <3>4. QED
      BY <1>2, <2>1, <3>1, <3>2, <3>3
  <2>3. QED
    BY <1>1, <1>2, <2>1, <2>2, FilesLeft
<1>5. CASE SendMisses(c)
  <2>1. UNCHANGED <<removed, rows, uploads>> /\ calls[c].kind \in Sending
        /\ refused' = refused \cup Missing(calls[c].files)
    BY <1>5 DEF SendMisses, IsAt, Sending
  <2>2. \A f \in refused' \ refused : f \in DOMAIN stamped \ DOMAIN uploads
    BY <2>1, MissingIs
  <2>3. QED
    BY <1>1, <1>2, <2>1, <2>2, FilesRemembered, {} \subseteq removed' \cup Stale
<1>6. CASE SettleSend(c)
  <2>1. UNCHANGED <<rows, refused>> /\ uploads' = Without(uploads, calls[c].files)
        /\ removed' = removed \cup calls[c].files
    BY <1>6 DEF SettleSend, Settle
  <2>2. QED
    BY <1>1, <1>2, <2>1, FilesRemembered, calls[c].files \subseteq removed' \cup Stale
<1>7. CASE Claim(c)
  <2>1. UNCHANGED <<removed, refused, uploads>>
    BY <1>7 DEF Claim, ghosts
  <2>2. \A r \in DOMAIN rows' : rows'[r].files \subseteq DOMAIN stamped
    <3>1. calls[c].row \in DOMAIN rows
      BY <1>7, LetterOf DEF Claim, IsAt
    <3>2. CASE rows' = [rows EXCEPT ![calls[c].row].status = "cancelled"]
      BY <1>2, <3>1, <3>2, RowsStatus DEF RowsBecome
    <3>3. CASE rows' = rows
      BY <1>2, <3>3
    <3>4. QED
      BY <1>7, <3>2, <3>3 DEF Claim
  <2>3. QED
    BY <1>1, <1>2, <2>1, <2>2, FilesLeft
<1>8. QED
  BY <1>3, <1>4, <1>5, <1>6, <1>7

LEMMA FilesOfCron ==
  ASSUME ComposerTypeOK, FileInv, \A b \in Slots : GoesOn(b),
         \/ SweepTempUploads \/ Clock
         \/ \E d \in dropping : DropDraft(d)
         \/ \E f \in Files : DropUpload(f)
         \/ \E r \in DOMAIN rows :
              \/ Cancel(r) \/ Dispatch(r) \/ DispatchMisses(r) \/ DispatchRejected(r)
              \/ DispatchSettles(r) \/ DispatchBreaks(r)
  PROVE  FileInv'
<1> USE DEF page, tables, fileNotes, ghosts, requests
<1>1. UNCHANGED <<stamped, window>> /\ now \in Nat /\ now' \in Nat /\ now <= now' /\ unfiling' \subseteq unfiling
  <2>1. now \in Nat
    BY DEF ComposerTypeOK
  <2>2. CASE Clock
    BY <2>1, <2>2 DEF Clock
  <2>3. CASE ~Clock
    <3>1. UNCHANGED <<stamped, window, now>>
      BY <2>3 DEF SweepTempUploads, DropDraft, DropUpload, Cancel, Dispatch, DispatchMisses,
         DispatchRejected,
                  DispatchSettles, DispatchBreaks
    <3>2. unfiling' \subseteq unfiling
      BY <2>3 DEF SweepTempUploads, DropDraft, DropUpload, Cancel, Dispatch, DispatchMisses,
         DispatchRejected,
                  DispatchSettles, DispatchBreaks
    <3>3. QED
      BY <2>1, <3>1, <3>2
  <2>4. QED
    BY <2>2, <2>3
<1>2. window.files \subseteq DOMAIN stamped /\ unfiling \subseteq removed
      /\ \A r \in DOMAIN rows : rows[r].files \subseteq DOMAIN stamped
  BY MissingIs
<1>3. CASE SweepTempUploads
  <2>1. UNCHANGED <<rows, removed, refused, unfiling>> /\ uploads' = Without(uploads, Stale)
    BY <1>3 DEF SweepTempUploads
  <2>2. QED
    BY <1>1, <1>2, <2>1, FilesRemembered, Stale \subseteq removed' \cup Stale
<1>4. CASE Clock \/ \E d \in dropping : DropDraft(d)
  <2>1. UNCHANGED <<rows, removed, refused, unfiling, uploads>>
    BY <1>4 DEF Clock, DropDraft
  <2>2. QED
    BY <1>1, <1>2, <2>1, FilesLeft
<1>5. ASSUME NEW f \in Files, DropUpload(f) PROVE FileInv'
  <2>1. UNCHANGED <<rows, removed, refused>> /\ uploads' = Without(uploads, {f}) /\ f \in removed
    BY <1>2, <1>5 DEF DropUpload
  <2>2. QED
    BY <1>1, <1>2, <2>1, FilesRemembered, {f} \subseteq removed' \cup Stale
<1>6. ASSUME NEW r \in DOMAIN rows,
             \/ Cancel(r) \/ Dispatch(r) \/ DispatchMisses(r) \/ DispatchRejected(r)
             \/ DispatchSettles(r) \/ DispatchBreaks(r)
      PROVE  FileInv'
  <2>1. PICK s, o : RowsBecome(r, s, o)
    BY <1>6, RowSteps
  <2>2. \A i \in DOMAIN rows' : rows'[i].files \subseteq DOMAIN stamped
    BY <1>2, <2>1 DEF RowsBecome
  <2>3. CASE Cancel(r) \/ Dispatch(r) \/ DispatchRejected(r) \/ DispatchBreaks(r)
    <3>1. UNCHANGED <<removed, refused, unfiling, uploads>>
      BY <2>3 DEF Cancel, Dispatch, DispatchRejected, DispatchBreaks
    <3>2. QED
      BY <1>1, <1>2, <2>2, <3>1, FilesLeft
  <2>4. CASE DispatchMisses(r)
    <3>1. UNCHANGED <<removed, unfiling, uploads>> /\ refused' = refused \cup Missing(rows[r].files)
      BY <2>4 DEF DispatchMisses
    <3>2. \A f \in refused' \ refused : f \in DOMAIN stamped \ DOMAIN uploads
      BY <3>1, MissingIs
    <3>3. QED
      BY <1>1, <1>2, <2>2, <3>1, <3>2, FilesRemembered, {} \subseteq removed' \cup Stale
  <2>5. CASE DispatchSettles(r)
    <3>1. UNCHANGED <<refused, unfiling>> /\ uploads' = Without(uploads, rows[r].files)
          /\ removed' = removed \cup rows[r].files
      BY <2>5 DEF DispatchSettles, Settle
    <3>2. QED
      BY <1>1, <1>2, <2>2, <3>1, FilesRemembered, rows[r].files \subseteq removed' \cup Stale
  <2>6. QED
    BY <1>6, <2>3, <2>4, <2>5
<1>7. QED
  BY <1>3, <1>4, <1>5, <1>6

LEMMA FileInvNext == ComposerTypeOK /\ FileInv /\ [ComposerNext]_composerVars => FileInv'
<1> SUFFICES ASSUME ComposerTypeOK, FileInv, [ComposerNext]_composerVars PROVE FileInv'
  OBVIOUS
<1>1. CASE \E c \in Slots : Asks(c)
  BY <1>1, FilesOfAsks
<1>2. CASE \E c \in Slots : ServeUpload(c)
  BY <1>2, FilesOfServeUpload
<1>3. CASE \A c \in Slots : ~Asks(c) /\ ~ServeUpload(c)
  <2>1. \A b \in Slots : GoesOn(b)
    BY <1>3, CallsGoOn
  <2>2. QED
    BY <1>3, <2>1, FilesOfPage, FilesOfServer, FilesOfCron DEF ComposerNext, Asks
<1>4. QED
  BY <1>1, <1>2, <1>3

(***************************************************************************)
(* A send fails for lack of a file only when the author removed the file, an *)
(* earlier send used it up, or it is older than the sweep allows, however  *)
(* many windows, requests and dispatchers there are (send.ts resolves every *)
(* attachment before it mails).                                            *)
(***************************************************************************)
THEOREM MissingFilesExplained == ComposerSpec => []RefusedFilesExplained
<1>1. FileInv => RefusedFilesExplained
  BY DEF FileInv, FilesAccounted, RefusedFilesExplained, Old
<1>2. QED
  BY <1>1, ComposerTypeInit, ComposerTypeNext, FileInvInit, FileInvNext, PTL DEF ComposerSpec

-----------------------------------------------------------------------------
(***************************************************************************)
(* The mails.  Every press pays for a mail that is out, for a request that *)
(* waits to be served or for a row that waits to be dispatched.            *)
(***************************************************************************)
Awaits(call, m) ==
  call.kind \in Sending /\ call.step = "asked" /\ call.letter = m.letter /\ call.files = m.files
CallsFor(m) == {c \in Slots : Awaits(calls[c], m)}

Lies(row, m) == row.status = "pending" /\ ~row.out /\ row.letter = m.letter /\ row.files = m.files
RowsFor(m) == {r \in DOMAIN rows : Lies(rows[r], m)}

PaidBy(m) ==
  /\ IsFiniteSet(CallsFor(m)) /\ IsFiniteSet(RowsFor(m))
  /\ Times(m, mailed) + Cardinality(CallsFor(m)) + Cardinality(RowsFor(m)) <= Times(m, pressed)

Loads == [letter : 1 .. MaxLetters, files : SUBSET Files]
MailsPaid == \A m \in Loads : PaidBy(m)

LEMMA MailsPaidInit == ComposerInit => MailsPaid
<1> SUFFICES ASSUME ComposerInit, NEW m \in Loads PROVE PaidBy(m)
  BY DEF MailsPaid
<1>1. CallsFor(m) = {} /\ RowsFor(m) = {}
  BY DEF ComposerInit, CallsFor, RowsFor, Awaits, NoCall, Sending, Queueing
<1>2. Times(m, mailed) = 0 /\ Times(m, pressed) = 0
  BY DEF ComposerInit, Times, EmptyBag, SetToBag
<1>3. IsFiniteSet({}) /\ Cardinality({}) = 0
  BY FS_EmptySet
<1>4. QED
  BY <1>1, <1>2, <1>3 DEF PaidBy

LEMMA RowsForFinite == ComposerTypeOK => \A m : IsFiniteSet(RowsFor(m))
<1> SUFFICES ASSUME ComposerTypeOK, NEW m PROVE IsFiniteSet(RowsFor(m))
  OBVIOUS
<1>1. RowsFor(m) \subseteq 1 .. Len(rows) /\ Len(rows) \in Nat
  BY DEF RowsFor, ComposerTypeOK
<1>2. IsFiniteSet(1 .. Len(rows))
  BY <1>1, FS_Interval
<1>3. QED
  BY <1>1, <1>2, FS_Subset

LEMMA TimesNat == ComposerTypeOK => \A m : Times(m, mailed) \in Nat /\ Times(m, pressed) \in Nat
BY DEF ComposerTypeOK, Times, IsABag

LEMMA Fewer ==
  ASSUME NEW S, NEW T, IsFiniteSet(S), T \subseteq S
  PROVE  /\ IsFiniteSet(T) /\ Cardinality(T) \in Nat /\ Cardinality(S) \in Nat
         /\ Cardinality(T) <= Cardinality(S)
BY FS_Subset, FS_CardinalityType

LEMMA OneMore ==
  ASSUME NEW S, NEW e, IsFiniteSet(S), e \notin S
  PROVE  /\ IsFiniteSet(S \cup {e}) /\ Cardinality(S \cup {e}) = Cardinality(S) + 1
         /\ Cardinality(S) \in Nat
BY FS_AddElement, FS_CardinalityType

LEMMA OneFewer ==
  ASSUME NEW S, NEW e, IsFiniteSet(S), e \in S
  PROVE  /\ IsFiniteSet(S \ {e}) /\ Cardinality(S \ {e}) + 1 = Cardinality(S)
         /\ Cardinality(S \ {e}) \in Nat
<1>1. IsFiniteSet(S \ {e}) /\ e \notin S \ {e} /\ (S \ {e}) \cup {e} = S
  BY FS_Subset
<1> DEFINE T == S \ {e}
<1>2. IsFiniteSet(T) /\ e \notin T
  BY <1>1
<1> HIDE DEF T
<1>3. Cardinality(T \cup {e}) = Cardinality(T) + 1 /\ Cardinality(T) \in Nat
  BY <1>2, OneMore
<1> USE DEF T
<1>4. QED
  BY <1>1, <1>3

LEMMA PaidStill ==
  ASSUME ComposerTypeOK, MailsPaid, NEW m \in Loads, mailed' = mailed, pressed' = pressed,
         CallsFor(m)' \subseteq CallsFor(m), RowsFor(m)' \subseteq RowsFor(m)
  PROVE  PaidBy(m)'
<1>1. PaidBy(m)
  BY DEF MailsPaid
<1>2. /\ IsFiniteSet(CallsFor(m)') /\ IsFiniteSet(RowsFor(m)')
      /\ Cardinality(CallsFor(m)') <= Cardinality(CallsFor(m))
      /\ Cardinality(RowsFor(m)') <= Cardinality(RowsFor(m))
      /\ Cardinality(CallsFor(m)) \in Nat /\ Cardinality(RowsFor(m)) \in Nat
      /\ Cardinality(CallsFor(m)') \in Nat /\ Cardinality(RowsFor(m)') \in Nat
  BY <1>1, Fewer DEF PaidBy
<1>3. Times(m, mailed) \in Nat /\ Times(m, pressed) \in Nat
  BY TimesNat
<1>4. QED
  BY <1>1, <1>2, <1>3 DEF PaidBy

LEMMA CallsForGoOn ==
  ASSUME NEW m, \A b \in Slots : GoesOn(b) PROVE CallsFor(m)' \subseteq CallsFor(m)
<1>1. NoCall.kind \notin Sending
  BY DEF NoCall, Sending, Queueing
<1>2. QED
  BY <1>1 DEF CallsFor, Awaits, GoesOn

LEMMA RowsForBecome ==
  ASSUME ComposerTypeOK, NEW m, NEW r \in DOMAIN rows, NEW s, NEW o, RowsBecome(r, s, o),
         s # "pending" \/ o = TRUE
  PROVE  RowsFor(m)' = RowsFor(m) \ {r}
BY DEF RowsFor, Lies, RowsBecome

LEMMA PaidPress ==
  ASSUME ComposerTypeOK, MailsPaid, NEW c \in Slots, Asks(c), NEW m \in Loads PROVE PaidBy(m)'
<1>0. UNCHANGED <<rows, mailed>> /\ RowsFor(m)' = RowsFor(m)
  BY AsksLeave DEF tables, RowsFor
<1>1. ASSUME NEW call, Ask(c, call), call.kind \notin Sending, pressed' = pressed PROVE PaidBy(m)'
  <2>1. CallsFor(m)' \subseteq CallsFor(m)
    BY <1>1, AskedIs DEF CallsFor, Awaits
  <2>2. QED
    BY <1>0, <1>1, <2>1, PaidStill
<1>2. ASSUME NEW kind \in Sending, NEW due \in Nat,
             Press(c, AskedFor(kind, {}, window.files, due)),
             Ask(c, AskedFor(kind, {}, window.files, due))
      PROVE  PaidBy(m)'
  <2>1. PICK call : call = AskedFor(kind, {}, window.files, due)
    OBVIOUS
  <2>2. PICK new : new = [letter |-> window.letter, files |-> window.files]
    OBVIOUS
  <2>3. calls'[c] = call /\ calls[c] = NoCall /\ \A b \in Slots \ {c} : calls'[b] = calls[b]
    BY <1>2, <2>1, AskedIs
  <2>4. pressed' = pressed (+) SetToBag({new})
    BY <1>2, <2>2 DEF Press
  <2>5. IsABag(pressed)
    BY DEF ComposerTypeOK
  <2>6. /\ Times(m, pressed) \in Nat
        /\ Times(m, pressed') = Times(m, pressed) + (IF m = new THEN 1 ELSE 0)
    BY <2>4, <2>5, BagAdds
  <2>7. c \notin CallsFor(m)
    BY <2>3 DEF CallsFor, Awaits, NoCall, Sending, Queueing
  <2>8. Awaits(call, m) <=> m = new
    BY <2>1, <2>2 DEF Awaits, AskedFor, Loads
  <2>9. PaidBy(m) /\ Times(m, mailed) \in Nat /\ Times(m, mailed') = Times(m, mailed)
    BY <1>0, TimesNat DEF MailsPaid
  <2>10. IsFiniteSet(CallsFor(m)) /\ IsFiniteSet(RowsFor(m))
    BY <2>9 DEF PaidBy
  <2>11. Cardinality(RowsFor(m)) \in Nat /\ Cardinality(CallsFor(m)) \in Nat
    BY <2>10, FS_CardinalityType
  <2>12. CASE m = new
    <3>1. CallsFor(m)' = CallsFor(m) \cup {c}
      BY <2>3, <2>8, <2>12 DEF CallsFor
    <3>2. IsFiniteSet(CallsFor(m)') /\ Cardinality(CallsFor(m)') = Cardinality(CallsFor(m)) + 1
      BY <2>7, <2>10, <3>1, OneMore
    <3>3. Times(m, pressed') = Times(m, pressed) + 1
      BY <2>6, <2>12
    <3>4. QED
      BY <1>0, <2>6, <2>9, <2>10, <2>11, <3>2, <3>3 DEF PaidBy
  <2>13. CASE m # new
    <3>1. CallsFor(m)' = CallsFor(m)
      BY <2>3, <2>7, <2>8, <2>13 DEF CallsFor
    <3>2. Times(m, pressed') = Times(m, pressed)
      BY <2>6, <2>13
    <3>3. QED
      BY <1>0, <2>9, <2>10, <3>1, <3>2 DEF PaidBy
  <2>14. QED
    BY <2>12, <2>13
<1>3. CASE Save(c) /\ Ask(c, AskedFor("save", window.seen, {}, 0))
  BY <1>1, <1>3 DEF AskedFor, Sending, Queueing, Save
<1>4. CASE PressUndo(c) /\ Ask(c, UndoCall(toast)) /\ toast \in DOMAIN rows
  BY <1>1, <1>4 DEF UndoCall, Sending, Queueing, PressUndo
<1>5. CASE \E f \in Files : Attach(c, f) /\ Ask(c, UploadCall(f))
  BY <1>1, <1>5 DEF UploadCall, Sending, Queueing, Attach
<1>6. QED
  BY <1>2, <1>3, <1>4, <1>5, AsksAre

\* A mail pays with the request or the row that waited for it.
LEMMA PaidOut ==
  ASSUME ComposerTypeOK, MailsPaid, NEW m \in Loads, NEW new, pressed' = pressed,
         mailed' = mailed (+) SetToBag({new}),
         CallsFor(m)' \subseteq CallsFor(m), RowsFor(m)' \subseteq RowsFor(m),
         m = new => (\E c \in CallsFor(m) : c \notin CallsFor(m)')
                    \/ (\E r \in RowsFor(m) : r \notin RowsFor(m)')
  PROVE  PaidBy(m)'
<1>1. PaidBy(m) /\ IsABag(mailed)
  BY DEF MailsPaid, ComposerTypeOK
<1>2. /\ IsFiniteSet(CallsFor(m)') /\ IsFiniteSet(RowsFor(m)')
      /\ Cardinality(CallsFor(m)') <= Cardinality(CallsFor(m))
      /\ Cardinality(RowsFor(m)') <= Cardinality(RowsFor(m))
      /\ Cardinality(CallsFor(m)) \in Nat /\ Cardinality(RowsFor(m)) \in Nat
      /\ Cardinality(CallsFor(m)') \in Nat /\ Cardinality(RowsFor(m)') \in Nat
  BY <1>1, Fewer DEF PaidBy
<1>3. /\ Times(m, mailed) \in Nat /\ Times(m, pressed) \in Nat
      /\ Times(m, mailed') = Times(m, mailed) + (IF m = new THEN 1 ELSE 0)
  BY <1>1, BagAdds, TimesNat
<1>4. CASE m # new
  BY <1>1, <1>2, <1>3, <1>4 DEF PaidBy
<1>5. ASSUME m = new, NEW c \in CallsFor(m), c \notin CallsFor(m)' PROVE PaidBy(m)'
  <2>1. CallsFor(m)' \subseteq CallsFor(m) \ {c} /\ IsFiniteSet(CallsFor(m))
    BY <1>1, <1>5 DEF PaidBy
  <2>2. IsFiniteSet(CallsFor(m) \ {c}) /\ Cardinality(CallsFor(m) \ {c}) + 1 = Cardinality(CallsFor(m))
        /\ Cardinality(CallsFor(m) \ {c}) \in Nat
    BY <1>5, <2>1, OneFewer
  <2>3. Cardinality(CallsFor(m)') <= Cardinality(CallsFor(m) \ {c})
    BY <2>1, <2>2, Fewer
  <2>4. QED
    BY <1>1, <1>2, <1>3, <1>5, <2>2, <2>3 DEF PaidBy
<1>6. ASSUME m = new, NEW r \in RowsFor(m), r \notin RowsFor(m)' PROVE PaidBy(m)'
  <2>1. RowsFor(m)' \subseteq RowsFor(m) \ {r} /\ IsFiniteSet(RowsFor(m))
    BY <1>1, <1>6 DEF PaidBy
  <2>2. IsFiniteSet(RowsFor(m) \ {r}) /\ Cardinality(RowsFor(m) \ {r}) + 1 = Cardinality(RowsFor(m))
        /\ Cardinality(RowsFor(m) \ {r}) \in Nat
    BY <1>6, <2>1, OneFewer
  <2>3. Cardinality(RowsFor(m)') <= Cardinality(RowsFor(m) \ {r})
    BY <2>1, <2>2, Fewer
  <2>4. QED
    BY <1>1, <1>2, <1>3, <1>6, <2>2, <2>3 DEF PaidBy
<1>7. QED
  BY <1>4, <1>5, <1>6

LEMMA PaidServeSend ==
  ASSUME ComposerTypeOK, MailsPaid, NEW c \in Slots, ServeSend(c), NEW m \in Loads PROVE PaidBy(m)'
<1>1. /\ Answered(c, "mailed") /\ UNCHANGED <<rows, pressed>> /\ calls[c].kind = "send" /\ calls[c].step = "asked"
      /\ calls[c].files \subseteq DOMAIN uploads
      /\ mailed' = mailed (+) SetToBag({[letter |-> calls[c].letter, files |-> calls[c].files \cap DOMAIN uploads]})
  BY DEF ServeSend, IsAt, tables, Resolved, Missing, GoesOut
<1>2. PICK new : new = [letter |-> calls[c].letter, files |-> calls[c].files]
  OBVIOUS
<1>3. mailed' = mailed (+) SetToBag({new})
  <2>1. calls[c].files \cap DOMAIN uploads = calls[c].files
    BY <1>1
  <2>2. QED
    BY <1>1, <1>2, <2>1
<1>4. CallsFor(m)' \subseteq CallsFor(m) /\ RowsFor(m)' = RowsFor(m)
  BY <1>1, AnsweredGoesOn, CallsForGoOn DEF RowsFor
<1>5. c \notin CallsFor(m)'
  BY <1>1, AnsweredIs DEF CallsFor, Awaits
<1>6. m = new => c \in CallsFor(m)
  BY <1>1, <1>2 DEF CallsFor, Awaits, Sending
<1>7. QED
  BY <1>1, <1>3, <1>4, <1>5, <1>6, PaidOut

LEMMA PaidDispatch ==
  ASSUME ComposerTypeOK, MailsPaid, NEW r \in DOMAIN rows, Dispatch(r), NEW m \in Loads PROVE PaidBy(m)'
<1>1. /\ UNCHANGED <<calls, pressed>> /\ rows[r].status = "pending" /\ ~rows[r].out
      /\ rows[r].files \subseteq DOMAIN uploads
      /\ mailed' = mailed (+) SetToBag({[letter |-> rows[r].letter, files |-> rows[r].files \cap DOMAIN uploads]})
  BY DEF Dispatch, IsDue, requests, Resolved, Missing, GoesOut
<1>2. PICK new : new = [letter |-> rows[r].letter, files |-> rows[r].files]
  OBVIOUS
<1>3. mailed' = mailed (+) SetToBag({new})
  <2>1. rows[r].files \cap DOMAIN uploads = rows[r].files
    BY <1>1
  <2>2. QED
    BY <1>1, <1>2, <2>1
<1>4. CallsFor(m)' = CallsFor(m) /\ RowsFor(m)' = RowsFor(m) \ {r}
  BY <1>1, RowSteps, RowsForBecome DEF CallsFor
<1>5. m = new => r \in RowsFor(m)
  BY <1>1, <1>2 DEF RowsFor, Lies
<1>6. QED
  BY <1>1, <1>3, <1>4, <1>5, PaidOut

LEMMA PaidServeQueue ==
  ASSUME ComposerTypeOK, MailsPaid, NEW c \in Slots, ServeQueue(c), NEW m \in Loads PROVE PaidBy(m)'
<1>1. /\ UNCHANGED <<mailed, pressed>> /\ calls[c].kind \in Queueing /\ calls[c].step = "asked"
  BY DEF ServeQueue, IsAt, ghosts
<1>2. calls'[c].step = "ok"
  <2>1. calls'[c] = AnswerOf(c, calls[c].draft, Len(rows) + 1)
    BY QueuedGoesOn
  <2>2. QED
    BY <2>1 DEF AnswerOf
<1>3. CallsFor(m)' \subseteq CallsFor(m) /\ c \notin CallsFor(m)'
  BY <1>2, QueuedGoesOn, CallsForGoOn DEF CallsFor, Awaits
<1>4. Lies(QueuedRow(c), m) <=> c \in CallsFor(m)
  BY <1>1 DEF QueuedRow, Lies, CallsFor, Awaits, Sending
<1>5. RowsFor(m)' \subseteq RowsFor(m) \cup {Len(rows) + 1} /\ Len(rows) + 1 \notin RowsFor(m)
  BY QueuedIs DEF RowsFor
<1>6. /\ PaidBy(m) /\ Times(m, mailed) \in Nat /\ Times(m, pressed) \in Nat
      /\ IsFiniteSet(CallsFor(m)) /\ IsFiniteSet(RowsFor(m))
  BY TimesNat DEF MailsPaid, PaidBy
<1>7. CASE c \notin CallsFor(m)
  <2>1. RowsFor(m)' \subseteq RowsFor(m)
    BY <1>4, <1>5, <1>7, QueuedIs DEF RowsFor
  <2>2. QED
    BY <1>1, <1>3, <2>1, PaidStill
<1>8. CASE c \in CallsFor(m)
  <2>1. /\ IsFiniteSet(CallsFor(m) \ {c}) /\ Cardinality(CallsFor(m) \ {c}) + 1 = Cardinality(CallsFor(m))
        /\ Cardinality(CallsFor(m) \ {c}) \in Nat
    BY <1>6, <1>8, OneFewer
  <2>2. /\ CallsFor(m)' \subseteq CallsFor(m) \ {c}
    BY <1>3
  <2>3. /\ IsFiniteSet(CallsFor(m)') /\ Cardinality(CallsFor(m)') <= Cardinality(CallsFor(m) \ {c})
        /\ Cardinality(CallsFor(m)') \in Nat
    BY <2>1, <2>2, Fewer
  <2>4. /\ IsFiniteSet(RowsFor(m) \cup {Len(rows) + 1})
        /\ Cardinality(RowsFor(m) \cup {Len(rows) + 1}) = Cardinality(RowsFor(m)) + 1
        /\ Cardinality(RowsFor(m)) \in Nat
    BY <1>5, <1>6, OneMore
  <2>5. /\ IsFiniteSet(RowsFor(m)') /\ Cardinality(RowsFor(m)') \in Nat
        /\ Cardinality(RowsFor(m)') <= Cardinality(RowsFor(m) \cup {Len(rows) + 1})
    BY <1>5, <2>4, Fewer
  <2>6. QED
    BY <1>1, <1>6, <2>1, <2>3, <2>4, <2>5 DEF PaidBy
<1>9. QED
  BY <1>7, <1>8

\* Every other step mails nothing, presses nothing and adds nothing that waits.
LEMMA PaidElse ==
  ASSUME ComposerTypeOK, MailsPaid, ComposerNext \/ UNCHANGED composerVars,
         \A c \in Slots : ~Asks(c) /\ ~ServeSend(c) /\ ~ServeQueue(c),
         \A r \in DOMAIN rows : ~Dispatch(r), NEW m \in Loads
  PROVE  PaidBy(m)'
<1>1. UNCHANGED <<mailed, pressed>>
  BY DEF ComposerNext, Asks, OpenBlank, OpenDraft, Open, Type, Discard, SweepTempUploads,
     Clock, DropDraft,
         DropUpload, RemoveAttachment, Cancel, DispatchMisses, DispatchRejected, DispatchSettles,
         DispatchBreaks, ServePost, ServePatch, PatchMisses, ServeUpload, QueueTooLate, SendMisses,
         SettleSend, Claim, Restore, Fail, Break, LoseAnswer, SaveDone, UploadDone, SendDone, UndoDone,
         Refused, composerVars, ghosts
<1>2. CallsFor(m)' \subseteq CallsFor(m)
  <2>1. CASE \A c \in Slots : ~ServeUpload(c)
    BY <2>1, CallsGoOn, CallsForGoOn
  <2>2. ASSUME NEW c \in Slots, ServeUpload(c) PROVE CallsFor(m)' \subseteq CallsFor(m)
    BY <2>2, AnsweredIs DEF ServeUpload, CallsFor, Awaits
  <2>3. QED
    BY <2>1, <2>2
<1>3. RowsFor(m)' \subseteq RowsFor(m)
  <2>1. CASE rows' = rows
    BY <2>1 DEF RowsFor
  <2>2. ASSUME NEW r \in DOMAIN rows, NEW s, NEW o, RowsBecome(r, s, o), s # "pending" \/ o = TRUE
        PROVE  RowsFor(m)' \subseteq RowsFor(m)
    BY <2>2, RowsForBecome
  <2>3. ASSUME NEW c \in Slots, Claim(c) PROVE RowsFor(m)' \subseteq RowsFor(m)
    <3>1. PICK r \in DOMAIN rows : r = calls[c].row
      BY <2>3, LetterOf DEF Claim, IsAt
    <3>2. rows' = rows \/ rows' = [rows EXCEPT ![r].status = "cancelled"]
      BY <2>3, <3>1 DEF Claim
    <3>3. CASE rows' = [rows EXCEPT ![r].status = "cancelled"]
      <4>1. RowsBecome(r, "cancelled", rows[r].out)
        BY <3>3, RowsStatus
      <4>2. QED
        BY <4>1, RowsForBecome
    <3>4. QED
      BY <2>1, <3>2, <3>3
  <2>4. ASSUME NEW r \in DOMAIN rows,
               Cancel(r) \/ DispatchMisses(r) \/ DispatchRejected(r) \/ DispatchSettles(r) \/ DispatchBreaks(r)
        PROVE  RowsFor(m)' \subseteq RowsFor(m)
    BY <2>2, <2>4, RowSteps
  <2>5. rows' = rows \/ (\E c \in Slots : Claim(c))
          \/ \E r \in DOMAIN rows :
               Cancel(r) \/ DispatchMisses(r) \/ DispatchRejected(r) \/ DispatchSettles(r) \/ DispatchBreaks(r)
    BY DEF ComposerNext, Asks, OpenBlank, OpenDraft, Open, Type, Discard, SweepTempUploads,
       Clock, DropDraft,
         DropUpload, RemoveAttachment, ServePost, ServePatch, PatchMisses, ServeUpload, QueueTooLate, SendMisses,
         SettleSend, Restore, Fail, Break, LoseAnswer, SaveDone, UploadDone, SendDone, UndoDone,
         Refused, composerVars, tables
  <2>6. QED
    BY <2>1, <2>3, <2>4, <2>5
<1>4. QED
  BY <1>1, <1>2, <1>3, PaidStill

LEMMA MailsPaidNext == ComposerTypeOK /\ MailsPaid /\ [ComposerNext]_composerVars => MailsPaid'
<1> SUFFICES ASSUME ComposerTypeOK, MailsPaid, ComposerNext \/ UNCHANGED composerVars, NEW m \in Loads
             PROVE  PaidBy(m)'
  BY DEF MailsPaid, Loads
<1>1. QED
  BY PaidPress, PaidServeSend, PaidServeQueue, PaidDispatch, PaidElse

LEMMA PaidMailsArePressed == ComposerTypeOK /\ MailsPaid => MailsArePressed
<1> SUFFICES ASSUME ComposerTypeOK, MailsPaid PROVE MailsArePressed
  OBVIOUS
<1>1. \A m \in DOMAIN mailed : m \in DOMAIN pressed /\ mailed[m] <= pressed[m]
  <2> SUFFICES ASSUME NEW m \in DOMAIN mailed PROVE m \in DOMAIN pressed /\ mailed[m] <= pressed[m]
    OBVIOUS
  <2>1. m \in Loads
    <3>1. m \in Loaded /\ typed \in 0 .. MaxLetters /\ MaxLetters \in Nat
      BY Bounds DEF ComposerTypeOK, BagToSet
    <3>2. Written \subseteq 1 .. MaxLetters
      BY <3>1 DEF Written
    <3>3. QED
      BY <3>1, <3>2 DEF Loads, Loaded
  <2>2. PaidBy(m) /\ Times(m, mailed) \in Nat /\ Times(m, pressed) \in Nat
    BY <2>1, TimesNat DEF MailsPaid
  <2>3. Cardinality(CallsFor(m)) \in Nat /\ Cardinality(RowsFor(m)) \in Nat
    BY <2>2, FS_CardinalityType DEF PaidBy
  <2>4. Times(m, mailed) <= Times(m, pressed)
    BY <2>2, <2>3 DEF PaidBy
  <2>5. mailed[m] \in Nat /\ mailed[m] > 0
    BY DEF ComposerTypeOK, IsABag
  <2>6. QED
    BY <2>4, <2>5 DEF Times
<1>2. QED
  BY <1>1 DEF MailsArePressed, \sqsubseteq

(***************************************************************************)
(* What goes out is what Send was pressed for, at most once per press and  *)
(* with every file the window showed.                                      *)
(***************************************************************************)
THEOREM MailsWerePressed == ComposerSpec => []MailsArePressed
<1>1. ComposerInit => ComposerTypeOK /\ MailsPaid
  BY ComposerTypeInit, MailsPaidInit
<1>2. ComposerTypeOK /\ MailsPaid /\ [ComposerNext]_composerVars => ComposerTypeOK' /\ MailsPaid'
  BY ComposerTypeNext, MailsPaidNext
<1>3. ComposerTypeOK /\ MailsPaid => MailsArePressed
  BY PaidMailsArePressed
<1>4. QED
  BY <1>1, <1>2, <1>3, PTL DEF ComposerSpec

-----------------------------------------------------------------------------
(***************************************************************************)
(* The letters: where a letter the author wants is kept, and why every step *)
(* keeps it there or moves it to where it is kept next.                    *)
(***************************************************************************)
Keepers == Sending \cup {"save", "undo"}
Stored(x) == x \in Range(drafts) \cup MailedLetters
Carries(call, x) == call.kind \in Keepers /\ call.letter = x /\ call.step # "ok"
Shows(x) == window.open /\ window.letter = x
Elsewhere(x) ==
  \/ Stored(x)
  \/ \E r \in DOMAIN rows : RowHolds(r, x)
  \/ \E c \in Slots : Carries(calls[c], x)

\* What was answered is stored, or waits in the row of the answer,
AnswersStored ==
  \A c \in Slots : calls[c].kind \in Keepers /\ calls[c].step = "ok" /\ calls[c].letter \in wanted =>
    \/ Stored(calls[c].letter)
    \/ calls[c].kind \in Queueing /\ RowHolds(calls[c].row, calls[c].letter)

\* which no undo can claim before the answer came.
Queued(call) == call.kind \in Queueing /\ call.step = "ok"
RowsOfAnswers ==
  \A c \in Slots : Queued(calls[c]) =>
    /\ calls[c].row \in DOMAIN rows /\ calls[c].row # toast
    /\ rows[calls[c].row].letter = calls[c].letter
    /\ \A b \in Slots \ {c} : Queued(calls[b]) \/ calls[b].kind = "undo" => calls[b].row # calls[c].row

MailsKnown ==
  /\ \A c \in Slots : calls[c].step = "mailed" => calls[c].letter \in MailedLetters
  /\ \A r \in DOMAIN rows : rows[r].out => rows[r].letter \in MailedLetters

UndosKnown ==
  \A c \in Slots : calls[c].kind = "undo" => calls[c].n = 0 /\ calls[c].letter = rows[calls[c].row].letter

\* The author gave up what a window or its save showed before the letter they hold now.
WindowKnown ==
  /\ window.open => window.n # 0
  /\ \A x \in wanted \cap window.seen : x = window.letter
  /\ \A c \in Slots :
       /\ calls[c].kind = "save" => \A x \in wanted \cap calls[c].seen : x = calls[c].letter
       /\ calls[c].kind \in Keepers /\ OfWindow(c) /\ calls[c].letter \in wanted => calls[c].letter = window.letter

LetterInv ==
  /\ \A x \in wanted : Shows(x) \/ Elsewhere(x)
  /\ AnswersStored /\ RowsOfAnswers /\ MailsKnown /\ UndosKnown /\ WindowKnown

LEMMA LetterInvInit == ComposerInit => LetterInv
<1> SUFFICES ASSUME ComposerInit PROVE LetterInv
  OBVIOUS
<1>1. /\ wanted = {} /\ \A c \in Slots : calls[c] = NoCall
      /\ rows = <<>> /\ ~window.open
  BY DEF ComposerInit
<1>2. NoCall.kind = "none" /\ NoCall.step = "asked"
  BY DEF NoCall
<1>3. DOMAIN rows = {}
  BY <1>1
<1>4. RowsOfAnswers /\ UndosKnown /\ MailsKnown
  BY <1>1, <1>2, <1>3 DEF RowsOfAnswers, Queued, Queueing, UndosKnown, MailsKnown
<1>5. AnswersStored /\ WindowKnown
  BY <1>1, <1>2 DEF AnswersStored, WindowKnown
<1>6. QED
  BY <1>1, <1>4, <1>5 DEF LetterInv

\* What is outside the window is kept elsewhere, whatever answers are still to come.
LEMMA OutsideIsElsewhere ==
  ASSUME ComposerTypeOK, LetterInv, NEW x \in wanted, OutsideWindow(x) PROVE Elsewhere(x)
<1>1. CASE \E c \in UnderWay(Sending \cup {"save", "undo"}) : calls[c].letter = x
  <2>1. PICK c \in Slots : calls[c].kind \in Keepers /\ calls[c].letter = x
    BY <1>1 DEF UnderWay, Keepers
  <2>2. CASE calls[c].step = "ok"
    <3>1. Stored(x) \/ (calls[c].kind \in Queueing /\ RowHolds(calls[c].row, x))
      BY <2>1, <2>2 DEF LetterInv, AnswersStored
    <3>2. calls[c].kind \in Queueing => calls[c].row \in DOMAIN rows
      BY <2>2 DEF LetterInv, RowsOfAnswers, Queued
    <3>3. QED
      BY <3>1, <3>2 DEF Elsewhere
  <2>3. CASE calls[c].step # "ok"
    BY <2>1, <2>3 DEF Elsewhere, Carries
  <2>4. QED
    BY <2>2, <2>3
<1>2. QED
  BY <1>1 DEF OutsideWindow, Elsewhere, Stored

CallStep(c) ==
  \/ Asks(c)
  \/ ServePost(c) \/ ServePatch(c) \/ PatchMisses(c) \/ ServeUpload(c)
  \/ ServeQueue(c) \/ QueueTooLate(c)
  \/ ServeSend(c) \/ SendMisses(c) \/ SettleSend(c)
  \/ Claim(c) \/ Restore(c)
  \/ Fail(c) \/ Break(c) \/ LoseAnswer(c)
  \/ SaveDone(c) \/ UploadDone(c) \/ SendDone(c) \/ UndoDone(c) \/ Refused(c)

\* A call changes only in a step of its own.
LEMMA CallChanges ==
  ASSUME ComposerTypeOK, ComposerNext \/ UNCHANGED composerVars, NEW c \in Slots
  PROVE  calls'[c] = calls[c] \/ CallStep(c)
<1>1. calls \in [Slots -> Calls]
  BY DEF ComposerTypeOK
<1>2. ASSUME NEW b \in Slots, b # c, CallStep(b) PROVE calls'[c] = calls[c]
  <2>1. CASE Asks(b)
    BY <1>2, <2>1, AsksAre, AskedIs
  <2>2. CASE ServePost(b) \/ Restore(b) \/ ServeQueue(b)
    BY <1>1, <1>2, <2>2 DEF ServePost, Restore, ServeQueue
  <2>3. CASE ServePatch(b) \/ PatchMisses(b) \/ ServeUpload(b) \/ QueueTooLate(b) \/ ServeSend(b) \/ SendMisses(b)
             \/ SettleSend(b) \/ Claim(b) \/ Fail(b) \/ Break(b) \/ LoseAnswer(b)
    BY <1>1, <1>2, <2>3 DEF ServePatch, PatchMisses, ServeUpload, QueueTooLate, ServeSend,
       SendMisses,
                            SettleSend, Claim, Fail, Break, LoseAnswer, Answered
  <2>4. CASE SaveDone(b) \/ UploadDone(b) \/ SendDone(b) \/ UndoDone(b) \/ Refused(b)
    BY <1>1, <1>2, <2>4 DEF SaveDone, UploadDone, SendDone, UndoDone, Refused, Done
  <2>5. QED
    BY <1>2, <2>1, <2>2, <2>3, <2>4 DEF CallStep
<1>3. CASE \E b \in Slots : CallStep(b)
  BY <1>2, <1>3
<1>4. CASE \A b \in Slots : ~CallStep(b)
  BY <1>4 DEF CallStep, Asks, ComposerNext, OpenBlank, OpenDraft, Open, Type, Discard,
     SweepTempUploads, Clock,
              DropDraft, DropUpload, RemoveAttachment, Cancel, Dispatch, DispatchMisses, DispatchRejected,
              DispatchSettles, DispatchBreaks, requests, composerVars
<1>5. QED
  BY <1>3, <1>4

\* Whatever happens, a call keeps its kind, its window and its letter until it is forgotten.
Continues(c) ==
  \/ calls'[c] = NoCall
  \/ /\ calls'[c].kind = calls[c].kind /\ calls'[c].n = calls[c].n
     /\ calls'[c].seen = calls[c].seen /\ calls'[c].letter = calls[c].letter

LEMMA CallContinues ==
  ASSUME ComposerTypeOK, ComposerNext \/ UNCHANGED composerVars, NEW c \in Slots
  PROVE  Continues(c) \/ Asks(c)
<1>1. CASE \A b \in Slots : ~Asks(b) /\ ~ServeUpload(b)
  BY <1>1, CallsGoOn DEF GoesOn, Continues
<1>2. ASSUME NEW b \in Slots, Asks(b), b # c PROVE Continues(c)
  BY <1>2, AsksAre, AskedIs DEF Continues
<1>3. ASSUME NEW b \in Slots, ServeUpload(b) PROVE Continues(c)
  BY <1>3, AnsweredIs DEF Continues, ServeUpload
<1>4. QED
  BY <1>1, <1>2, <1>3

\* The steps that answer a call, and what the call is then.
LEMMA CallAnswered ==
  ASSUME ComposerTypeOK, ComposerNext \/ UNCHANGED composerVars, NEW c \in Slots,
         calls'[c].step = "ok", calls'[c].kind \in Keepers
  PROVE  \/ calls'[c] = calls[c]
         \/ ServePost(c) \/ ServePatch(c) \/ Restore(c) \/ ServeQueue(c) \/ SettleSend(c)
<1>1. CASE Asks(c)
  <2>1. calls'[c].step = "asked"
    <3>1. PICK call : Ask(c, call) /\ call.step = "asked"
      <4>1. /\ \A kind, seen, files, due : AskedFor(kind, seen, files, due).step = "asked"
            /\ \A row : UndoCall(row).step = "asked"
            /\ \A f : UploadCall(f).step = "asked"
        BY DEF AskedFor, UndoCall, UploadCall
      <4>2. QED
        BY <1>1, <4>1, AsksAre
    <3>2. QED
      BY <3>1, AskedIs
  <2>2. QED
    BY <2>1
<1>2. CASE ServeUpload(c)
  BY <1>2, AnsweredIs DEF ServeUpload, IsAt, Keepers, Sending, Queueing
<1>3. CASE PatchMisses(c) \/ QueueTooLate(c) \/ SendMisses(c) \/ Fail(c) \/ Break(c) \/ LoseAnswer(c)
  BY <1>3, AnsweredIs DEF PatchMisses, QueueTooLate, SendMisses, Fail, Break, LoseAnswer
<1>4. CASE ServeSend(c)
  BY <1>4, AnsweredIs DEF ServeSend
<1>5. CASE Claim(c)
  BY <1>5, AnsweredIs DEF Claim
<1>6. CASE SaveDone(c) \/ UploadDone(c) \/ SendDone(c) \/ UndoDone(c) \/ Refused(c)
  <2>1. calls'[c] = NoCall
    BY <1>6, DoneIs DEF SaveDone, UploadDone, SendDone, UndoDone, Refused
  <2>2. QED
    BY <2>1 DEF NoCall
<1>7. QED
  BY <1>1, <1>2, <1>3, <1>4, <1>5, <1>6, CallChanges DEF CallStep

LEMMA WantedNext ==
  ASSUME ComposerTypeOK, ComposerNext \/ UNCHANGED composerVars
  PROVE  \/ wanted' \subseteq wanted /\ typed' = typed
         \/ Type
<1> USE DEF ghosts, composerVars, fileNotes
<1>1. CASE UNCHANGED composerVars \/ SweepTempUploads \/ Clock
           \/ \E f \in Files : RemoveAttachment(f) \/ DropUpload(f)
  BY <1>1 DEF SweepTempUploads, Clock, RemoveAttachment, DropUpload
<1>2. CASE OpenBlank \/ Discard \/ (\E d \in DOMAIN drafts : OpenDraft(d)) \/ \E d \in dropping : DropDraft(d)
  BY <1>2 DEF OpenBlank, OpenDraft, Open, Discard, DropDraft
<1>3. ASSUME NEW c \in Slots, CallStep(c) PROVE wanted' \subseteq wanted /\ typed' = typed
  <2>1. CASE Asks(c)
    BY <2>1, AsksLeave
  <2>2. CASE ServePost(c) \/ ServePatch(c) \/ PatchMisses(c) \/ ServeUpload(c) \/ ServeQueue(c) \/ QueueTooLate(c)
             \/ ServeSend(c) \/ SendMisses(c)
    BY <2>2 DEF ServePost, ServePatch, PatchMisses, ServeUpload, ServeQueue, QueueTooLate,
       ServeSend, SendMisses
  <2>3. CASE SettleSend(c) \/ Claim(c) \/ Restore(c) \/ Fail(c) \/ Break(c) \/ LoseAnswer(c)
    BY <2>3 DEF SettleSend, Settle, Claim, Restore, Fail, Break, LoseAnswer
  <2>4. CASE SaveDone(c) \/ UploadDone(c) \/ SendDone(c) \/ UndoDone(c) \/ Refused(c)
    BY <2>4 DEF SaveDone, UploadDone, SendDone, UndoDone, Refused
  <2>5. QED
    BY <1>3, <2>1, <2>2, <2>3, <2>4 DEF CallStep
<1>4. ASSUME NEW r \in DOMAIN rows,
             Cancel(r) \/ Dispatch(r) \/ DispatchMisses(r) \/ DispatchRejected(r)
               \/ DispatchSettles(r) \/ DispatchBreaks(r)
      PROVE  wanted' \subseteq wanted /\ typed' = typed
  BY <1>4 DEF Cancel, Dispatch, DispatchMisses, DispatchRejected, DispatchSettles, Settle,
     DispatchBreaks
<1>5. QED
  BY <1>1, <1>2, <1>3, <1>4 DEF ComposerNext, CallStep, Asks

\* A letter that is wanted after the step was wanted before, or is the one just typed.
LEMMA WantedWas ==
  ASSUME ComposerTypeOK, ComposerNext \/ UNCHANGED composerVars, NEW x \in wanted'
  PROVE  \/ x \in wanted /\ x \in Written
         \/ Type /\ x = typed + 1 /\ Shows(x)' /\ typed \in Nat
<1>1. typed \in Nat /\ wanted \subseteq Written /\ WindowTyped
  BY TypeParts, Bounds DEF ComposerTypeOK
<1>2. CASE Type
  BY <1>1, <1>2 DEF Type, Shows, WindowTyped
<1>3. CASE wanted' \subseteq wanted
  BY <1>1, <1>3
<1>4. QED
  BY <1>2, <1>3, WantedNext

\* The bag of the mails only grows.
LEMMA MailsStay ==
  ASSUME ComposerTypeOK, ComposerNext \/ UNCHANGED composerVars
  PROVE  /\ MailedLetters \subseteq MailedLetters'
         /\ \A c \in Slots : ServeSend(c) => calls[c].letter \in MailedLetters'
         /\ \A r \in DOMAIN rows : Dispatch(r) => rows[r].letter \in MailedLetters'
<1>1. ASSUME NEW x \in Written, NEW files \in SUBSET Files, GoesOut(x, files), pressed' = pressed, typed' = typed
      PROVE  MailedLetters \subseteq MailedLetters' /\ x \in MailedLetters'
  <2>1. BagToSet(mailed') = BagToSet(mailed) \cup {[letter |-> x, files |-> files \cap DOMAIN uploads]}
    BY <1>1, BagsGoOut
  <2>2. PICK new : new = [letter |-> x, files |-> files \cap DOMAIN uploads]
    OBVIOUS
  <2>3. BagToSet(mailed') = BagToSet(mailed) \cup {new} /\ new.letter = x
    BY <2>1, <2>2
  <2>4. MailedLetters' = {m.letter : m \in BagToSet(mailed')}
    BY DEF MailedLetters
  <2>5. QED
    BY <2>3, <2>4 DEF MailedLetters
<1>2. ASSUME NEW c \in Slots, ServeSend(c)
      PROVE  MailedLetters \subseteq MailedLetters' /\ calls[c].letter \in MailedLetters'
  <2>1. calls[c].letter \in Written /\ calls[c].files \in SUBSET Files
    BY <1>2, LetterOf DEF ServeSend, IsAt, Sending
  <2>2. GoesOut(calls[c].letter, calls[c].files) /\ pressed' = pressed /\ typed' = typed
    BY <1>2 DEF ServeSend
  <2>3. QED
    BY <1>1, <2>1, <2>2
<1>3. ASSUME NEW r \in DOMAIN rows, Dispatch(r)
      PROVE  MailedLetters \subseteq MailedLetters' /\ rows[r].letter \in MailedLetters'
  <2>1. rows[r].letter \in Written /\ rows[r].files \in SUBSET Files
    BY RowTyped DEF Rows
  <2>2. GoesOut(rows[r].letter, rows[r].files) /\ pressed' = pressed /\ typed' = typed
    BY <1>3 DEF Dispatch
  <2>3. QED
    BY <1>1, <2>1, <2>2
<1>4. CASE (\A c \in Slots : ~ServeSend(c)) /\ \A r \in DOMAIN rows : ~Dispatch(r)
  <2>1. mailed' = mailed
    <3>1. CASE \E c \in Slots : Asks(c)
      BY <3>1, AsksLeave
    <3>2. CASE \A c \in Slots : ~Asks(c)
      BY <1>4, <3>2 DEF ComposerNext, Asks, OpenBlank, OpenDraft, Open, Type, Discard,
         SweepTempUploads, Clock,
         DropDraft, DropUpload, RemoveAttachment, Cancel, DispatchMisses, DispatchRejected, DispatchSettles,
         DispatchBreaks, ServePost, ServePatch, PatchMisses, ServeUpload, ServeQueue, QueueTooLate, SendMisses,
         SettleSend, Claim, Restore, Fail, Break, LoseAnswer, SaveDone, UploadDone, SendDone, UndoDone,
         Refused, composerVars, ghosts
    <3>3. QED
      BY <3>1, <3>2
  <2>2. QED
    BY <1>4, <2>1 DEF MailedLetters
<1>5. QED
  BY <1>2, <1>3, <1>4

\* A draft keeps its letter, unless nobody wants the letter any more or it is mailed.
LEMMA DraftsStay ==
  ASSUME ComposerTypeOK, LetterInv, ComposerNext \/ UNCHANGED composerVars, NEW d \in DOMAIN drafts,
         drafts[d] \in wanted'
  PROVE  \/ d \in DOMAIN drafts' /\ drafts'[d] = drafts[d]
         \/ drafts[d] \in MailedLetters
<1>1. ASSUME NEW x, NEW e, NEW files, Settle(x, e, files), x \in MailedLetters
      PROVE  \/ d \in DOMAIN drafts' /\ drafts'[d] = drafts[d]
             \/ drafts[d] \in MailedLetters
  <2>1. CASE d = e
    BY <1>1, <2>1 DEF Settle
  <2>2. CASE d # e
    <3>1. DOMAIN drafts' = DOMAIN drafts \ {e} /\ \A b \in DOMAIN drafts \ {e} : drafts'[b] = drafts[b]
      BY <1>1, WithoutIs DEF Settle
    <3>2. QED
      BY <2>2, <3>1
  <2>3. QED
    BY <2>1, <2>2
<1>2. ASSUME NEW c \in Slots, SettleSend(c) PROVE Settle(calls[c].letter, calls[c].draft, calls[c].files)
                                                  /\ calls[c].letter \in MailedLetters
  BY <1>2 DEF SettleSend, IsAt, LetterInv, MailsKnown
<1>3. ASSUME NEW r \in DOMAIN rows, DispatchSettles(r)
      PROVE  Settle(rows[r].letter, rows[r].draft, rows[r].files) /\ rows[r].letter \in MailedLetters
  BY <1>3 DEF DispatchSettles, LetterInv, MailsKnown
<1>4. ASSUME NEW e \in dropping, DropDraft(e) PROVE d \in DOMAIN drafts' /\ drafts'[d] = drafts[d]
  <2>1. DOMAIN drafts' = DOMAIN drafts \ {e} /\ \A b \in DOMAIN drafts \ {e} : drafts'[b] = drafts[b]
    BY <1>4, WithoutIs DEF DropDraft
  <2>2. d # e
    BY <1>4 DEF DropDraft
  <2>3. QED
    BY <2>1, <2>2
<1>5. ASSUME NEW c \in Slots, ServePost(c) \/ Restore(c) PROVE d \in DOMAIN drafts' /\ drafts'[d] = drafts[d]
  <2>1. PICK x \in Written : NewDraft(x)
    BY <1>5, LetterOf, RowTyped DEF ServePost, Restore, IsAt, Rows
  <2>2. QED
    BY <2>1, NewDraftIs
<1>6. ASSUME NEW c \in Slots, ServePatch(c) PROVE d \in DOMAIN drafts' /\ drafts'[d] = drafts[d]
  <2>1. drafts' = [drafts EXCEPT ![calls[c].draft] = calls[c].letter]
        /\ wanted' = wanted \ ({drafts[calls[c].draft]} \ calls[c].seen) /\ calls[c].kind = "save"
    BY <1>6 DEF ServePatch, IsAt
  <2>2. CASE d = calls[c].draft
    <3>1. drafts[d] \in wanted \cap calls[c].seen
      BY <2>1, <2>2
    <3>2. drafts[d] = calls[c].letter
      BY <2>1, <3>1 DEF LetterInv, WindowKnown
    <3>3. QED
      BY <2>1, <2>2, <3>2
  <2>3. CASE d # calls[c].draft
    BY <2>1, <2>3
  <2>4. QED
    BY <2>2, <2>3
<1>7. CASE drafts' = drafts
  BY <1>7
<1>8. \/ drafts' = drafts
      \/ \E c \in Slots : SettleSend(c) \/ ServePost(c) \/ Restore(c) \/ ServePatch(c)
      \/ \E r \in DOMAIN rows : DispatchSettles(r)
      \/ \E e \in dropping : DropDraft(e)
  <2>1. CASE \E c \in Slots : Asks(c)
    BY <2>1, AsksLeave DEF tables
  <2>2. CASE \A c \in Slots : ~Asks(c)
    BY <2>2 DEF ComposerNext, Asks, OpenBlank, OpenDraft, Open, Type, Discard,
       SweepTempUploads, Clock,
         DropUpload, RemoveAttachment, Cancel, Dispatch, DispatchMisses, DispatchRejected,
         DispatchBreaks, PatchMisses, ServeUpload, ServeQueue, QueueTooLate, ServeSend, SendMisses,
         Claim, Fail, Break, LoseAnswer, SaveDone, UploadDone, SendDone, UndoDone,
         Refused, composerVars, tables
  <2>3. QED
    BY <2>1, <2>2
<1>9. QED
  BY <1>1, <1>2, <1>3, <1>4, <1>5, <1>6, <1>7, <1>8

LEMMA StoredStays ==
  ASSUME ComposerTypeOK, LetterInv, ComposerNext \/ UNCHANGED composerVars, NEW x \in wanted', Stored(x)
  PROVE  Stored(x)'
<1>1. CASE x \in MailedLetters
  BY <1>1, MailsStay DEF Stored
<1>2. CASE x \in Range(drafts)
  <2>1. PICK d \in DOMAIN drafts : drafts[d] = x
    BY <1>2 DEF Range
  <2>2. CASE d \in DOMAIN drafts' /\ drafts'[d] = x
    BY <2>2 DEF Stored, Range
  <2>3. CASE x \in MailedLetters
    BY <1>1, <2>3
  <2>4. QED
    BY <2>1, <2>2, <2>3, DraftsStay
<1>3. QED
  BY <1>1, <1>2 DEF Stored

\* A row goes on to hold its letter, unless it is stored, unwanted or claimed by an undo.
LEMMA RowsStay ==
  ASSUME ComposerTypeOK, LetterInv, ComposerNext \/ UNCHANGED composerVars, NEW x \in wanted',
         NEW r \in DOMAIN rows, RowHolds(r, x)
  PROVE  \/ r \in DOMAIN rows' /\ RowHolds(r, x)'
         \/ Stored(x)'
         \/ \E c \in Slots : Claim(c) /\ calls[c].kind = "undo" /\ calls[c].row = r
<1>1. CASE rows' = rows
  BY <1>1 DEF RowHolds
<1>2. ASSUME NEW c \in Slots, ServeQueue(c) PROVE r \in DOMAIN rows' /\ RowHolds(r, x)'
  <2>1. r \in DOMAIN rows' /\ rows'[r] = rows[r]
    BY <1>2, QueuedIs
  <2>2. QED
    BY <2>1 DEF RowHolds
<1>3. ASSUME NEW q \in DOMAIN rows, NEW s, NEW o, RowsBecome(q, s, o), r # q \/ s = rows[r].status
      PROVE  r \in DOMAIN rows' /\ RowHolds(r, x)'
  BY <1>3 DEF RowsBecome, RowHolds
<1>4. ASSUME NEW c \in Slots, Claim(c)
      PROVE  \/ r \in DOMAIN rows' /\ RowHolds(r, x)'
             \/ calls[c].kind = "undo" /\ calls[c].row = r
  <2>1. PICK q \in DOMAIN rows : q = calls[c].row /\ calls[c].kind = "undo"
    BY <1>4, LetterOf DEF Claim, IsAt
  <2>2. rows' = rows \/ rows' = [rows EXCEPT ![q].status = "cancelled"]
    BY <1>4, <2>1 DEF Claim
  <2>3. CASE rows' = [rows EXCEPT ![q].status = "cancelled"] /\ q # r
    <3>1. RowsBecome(q, "cancelled", rows[q].out)
      BY <2>3, RowsStatus
    <3>2. QED
      BY <1>3, <2>3, <3>1
  <2>4. CASE rows' = rows
    BY <2>4 DEF RowHolds
  <2>5. QED
    BY <2>1, <2>2, <2>3, <2>4
<1>5. ASSUME NEW q \in DOMAIN rows,
             Cancel(q) \/ Dispatch(q) \/ DispatchMisses(q) \/ DispatchRejected(q)
               \/ DispatchSettles(q) \/ DispatchBreaks(q)
      PROVE  (r \in DOMAIN rows' /\ RowHolds(r, x)') \/ Stored(x)'
  <2>1. PICK s, o : RowsBecome(q, s, o)
    BY <1>5, RowSteps
  <2>2. CASE q # r
    BY <1>3, <2>1, <2>2
  <2>3. CASE q = r
    <3>1. rows[q].letter = x /\ rows[q].kind \in Queueing
      BY <2>3, RowTyped DEF RowHolds, Rows
    <3>2. CASE Cancel(q)
      <4>1. x \in Range(drafts)
        BY <3>1, <3>2 DEF Cancel
      <4>2. QED
        BY <4>1, StoredStays DEF Stored
    <3>3. CASE Dispatch(q)
      BY <1>3, <2>3, <3>3, RowSteps
    <3>4. CASE DispatchMisses(q) \/ DispatchRejected(q)
      <4>1. rows[q].kind = "later"
        BY <3>1, <3>4 DEF DispatchMisses, DispatchRejected, Unlisted, Queueing
      <4>2. RowsBecome(q, "failed", rows[q].out)
        BY <3>4, RowSteps
      <4>3. QED
        BY <2>3, <3>1, <4>1, <4>2 DEF RowsBecome, RowHolds
    <3>5. CASE DispatchSettles(q) \/ DispatchBreaks(q)
      <4>1. x \in MailedLetters
        BY <3>1, <3>5 DEF DispatchSettles, DispatchBreaks, LetterInv, MailsKnown
      <4>2. QED
        BY <4>1, StoredStays DEF Stored
    <3>6. QED
      BY <1>5, <3>2, <3>3, <3>4, <3>5
  <2>4. QED
    BY <2>2, <2>3
<1>6. \/ rows' = rows
      \/ \E c \in Slots : ServeQueue(c) \/ Claim(c)
      \/ \E q \in DOMAIN rows :
           Cancel(q) \/ Dispatch(q) \/ DispatchMisses(q) \/ DispatchRejected(q)
             \/ DispatchSettles(q) \/ DispatchBreaks(q)
  <2>1. CASE \E c \in Slots : Asks(c)
    BY <2>1, AsksLeave DEF tables
  <2>2. CASE \A c \in Slots : ~Asks(c)
    BY <2>2 DEF ComposerNext, Asks, OpenBlank, OpenDraft, Open, Type, Discard,
       SweepTempUploads, Clock,
         DropDraft, DropUpload, RemoveAttachment, ServePost, ServePatch, PatchMisses, ServeUpload,
         QueueTooLate, ServeSend, SendMisses, SettleSend,
         Restore, Fail, Break, LoseAnswer, SaveDone, UploadDone, SendDone, UndoDone,
         Refused, composerVars, tables
  <2>3. QED
    BY <2>1, <2>2
<1>7. QED
  BY <1>1, <1>2, <1>4, <1>5, <1>6

\* The steps of a call that still carries its letter.
LEMMA CarriesStays ==
  ASSUME ComposerTypeOK, LetterInv, ComposerNext \/ UNCHANGED composerVars, NEW x \in wanted',
         NEW c \in Slots, Carries(calls[c], x)
  PROVE  Elsewhere(x)' \/ Shows(x)'
<1> USE DEF Carries
<1>0. calls[c].kind \in Keepers /\ calls[c].letter = x /\ calls[c].step # "ok"
  OBVIOUS
<1>1. ASSUME NEW s \in {"mailed", "claimed", "refused"}, Answered(c, s) PROVE Elsewhere(x)'
  <2>1. Carries(calls'[c], x)
    BY <1>1, AnsweredIs
  <2>2. QED
    BY <2>1 DEF Elsewhere
<1>2. CASE calls'[c] = calls[c]
  <2>1. Carries(calls'[c], x)
    BY <1>2
  <2>2. QED
    BY <2>1 DEF Elsewhere
<1>3. CASE Asks(c)
  <2>1. calls[c] = NoCall
    BY <1>3, AsksAre, AskedIs
  <2>2. QED
    BY <2>1 DEF NoCall, Keepers, Sending, Queueing
<1>4. CASE ServePost(c)
  <2>1. NewDraft(x) /\ x \in Written
    BY <1>4, LetterOf DEF ServePost, IsAt
  <2>2. x \in Range(drafts')
    BY <2>1, NewDraftIs DEF Range
  <2>3. QED
    BY <2>2 DEF Elsewhere, Stored
<1>5. CASE ServePatch(c)
  <2>1. drafts' = [drafts EXCEPT ![calls[c].draft] = x] /\ calls[c].draft \in DOMAIN drafts
    BY <1>5 DEF ServePatch
  <2>2. x \in Range(drafts')
    BY <2>1 DEF Range
  <2>3. QED
    BY <2>2 DEF Elsewhere, Stored
<1>6. CASE PatchMisses(c) \/ QueueTooLate(c) \/ SendMisses(c) \/ Fail(c) \/ Break(c) \/ LoseAnswer(c)
  BY <1>1, <1>6 DEF PatchMisses, QueueTooLate, SendMisses, Fail, Break, LoseAnswer
<1>7. CASE ServeSend(c)
  BY <1>1, <1>7 DEF ServeSend
<1>8. CASE Claim(c)
  BY <1>1, <1>8 DEF Claim
<1>9. CASE ServeQueue(c)
  <2>1. PICK q : q = Len(rows) + 1
    OBVIOUS
  <2>2. q \in DOMAIN rows' /\ rows'[q] = QueuedRow(c)
    BY <1>9, <2>1, QueuedIs
  <2>3. rows'[q].letter = x /\ rows'[q].status = "pending"
    BY <2>2 DEF QueuedRow
  <2>4. RowHolds(q, x)'
    BY <2>3 DEF RowHolds
  <2>5. QED
    BY <2>2, <2>4 DEF Elsewhere
<1>10. CASE SettleSend(c)
  <2>1. x \in MailedLetters
    BY <1>10 DEF SettleSend, IsAt, LetterInv, MailsKnown
  <2>2. QED
    BY <2>1, StoredStays DEF Stored, Elsewhere
<1>11. CASE Restore(c)
  <2>1. PICK y \in Written : NewDraft(y) /\ y = x
    <3>1. rows[calls[c].row].letter = x /\ NewDraft(rows[calls[c].row].letter)
      BY <1>11 DEF Restore, IsAt, LetterInv, UndosKnown
    <3>2. x \in Written
      BY <1>11, LetterOf DEF Restore, IsAt
    <3>3. QED
      BY <3>1, <3>2
  <2>2. x \in Range(drafts')
    BY <2>1, NewDraftIs DEF Range
  <2>3. QED
    BY <2>2 DEF Elsewhere, Stored
<1>12. CASE Refused(c)
  <2>1. OfWindow(c) /\ window' = window
    BY <1>12 DEF Refused, aside, page
  <2>2. x \in wanted
    BY <1>12 DEF Refused
  <2>3. window.letter = x
    BY <2>1, <2>2 DEF LetterInv, WindowKnown
  <2>4. QED
    BY <2>1, <2>3 DEF Shows, OfWindow
<1>13. CASE ServeUpload(c) \/ SaveDone(c) \/ UploadDone(c) \/ SendDone(c) \/ UndoDone(c)
  BY <1>13 DEF ServeUpload, SaveDone, UploadDone, SendDone, UndoDone, IsAt, Keepers, Sending,
     Queueing
<1>14. QED
  BY <1>2, <1>3, <1>4, <1>5, <1>6, <1>7, <1>8, <1>9, <1>10, <1>11, <1>12, <1>13,
     CallChanges DEF CallStep

\* What the window shows.
LEMMA ShowsStays ==
  ASSUME ComposerTypeOK, ComposerNext \/ UNCHANGED composerVars, NEW x \in wanted', x \in wanted, Shows(x)
  PROVE  Shows(x)' \/ OutsideWindow(x)
<1> USE DEF Shows
<1>0. x # 0 /\ WindowTyped /\ x # typed + 1
  BY TypeParts DEF ComposerTypeOK, Written
<1>1. CASE window' = window
  BY <1>1
<1>2. CASE wanted' = wanted \ OnlyInWindow
  BY <1>0, <1>2 DEF OnlyInWindow
<1>3. CASE Type \/ Discard
  <2>1. x \notin wanted'
    BY <1>0, <1>3 DEF Type, Discard
  <2>2. QED
    BY <2>1
<1>4. CASE (\E f \in Files : RemoveAttachment(f)) \/ \E c \in Slots : SaveDone(c) \/ UploadDone(c)
  <2>1. window'.open = window.open /\ window'.letter = window.letter
    BY <1>0, <1>4 DEF RemoveAttachment, SaveDone, UploadDone, WindowTyped
  <2>2. QED
    BY <2>1
<1>5. \/ window' = window \/ wanted' = wanted \ OnlyInWindow \/ Type \/ Discard
      \/ (\E f \in Files : RemoveAttachment(f)) \/ \E c \in Slots : SaveDone(c) \/ UploadDone(c)
  <2>1. CASE \E c \in Slots : Asks(c)
    BY <2>1, AsksLeave DEF aside, page
  <2>2. CASE \A c \in Slots : ~Asks(c)
    BY <2>2 DEF ComposerNext, Asks, OpenBlank, OpenDraft, Open, SweepTempUploads, Clock,
         DropDraft, DropUpload, ServePost, ServePatch, PatchMisses, ServeUpload, ServeQueue,
         QueueTooLate, ServeSend, SendMisses, SettleSend, Claim,
         Restore, Fail, Break, LoseAnswer, SendDone, UndoDone,
         Refused, Cancel, Dispatch, DispatchMisses, DispatchRejected, DispatchSettles, DispatchBreaks,
         composerVars, aside, page
  <2>3. QED
    BY <2>1, <2>2
<1>6. QED
  BY <1>1, <1>2, <1>3, <1>4, <1>5

LEMMA ElsewhereStays ==
  ASSUME ComposerTypeOK, LetterInv, ComposerNext \/ UNCHANGED composerVars, NEW x \in wanted', Elsewhere(x)
  PROVE  Elsewhere(x)' \/ Shows(x)'
<1>1. CASE Stored(x)
  BY <1>1, StoredStays DEF Elsewhere
<1>2. ASSUME NEW r \in DOMAIN rows, RowHolds(r, x) PROVE Elsewhere(x)'
  <2>1. CASE (r \in DOMAIN rows' /\ RowHolds(r, x)') \/ Stored(x)'
    BY <2>1 DEF Elsewhere
  <2>2. ASSUME NEW c \in Slots, Claim(c), calls[c].kind = "undo", calls[c].row = r PROVE Elsewhere(x)'
    <3>1. calls[c].letter = x
      BY <1>2, <2>2 DEF LetterInv, UndosKnown, RowHolds
    <3>2. PICK s \in {"claimed", "refused"} : Answered(c, s)
      BY <2>2 DEF Claim
    <3>3. Carries(calls'[c], x)
      BY <2>2, <3>1, <3>2, AnsweredIs DEF Carries, Keepers
    <3>4. QED
      BY <3>3 DEF Elsewhere
  <2>3. QED
    BY <1>2, <2>1, <2>2, RowsStay
<1>3. ASSUME NEW c \in Slots, Carries(calls[c], x) PROVE Elsewhere(x)' \/ Shows(x)'
  BY <1>3, CarriesStays
<1>4. QED
  BY <1>1, <1>2, <1>3 DEF Elsewhere

LEMMA LettersStay ==
  ASSUME ComposerTypeOK, LetterInv, ComposerNext \/ UNCHANGED composerVars, NEW x \in wanted'
  PROVE  Shows(x)' \/ Elsewhere(x)'
<1>1. CASE Type /\ Shows(x)'
  BY <1>1
<1>2. CASE x \in wanted
  <2>1. CASE Elsewhere(x)
    BY <2>1, ElsewhereStays
  <2>2. CASE Shows(x)
    BY <1>2, <2>1, <2>2, ShowsStays, OutsideIsElsewhere
  <2>3. QED
    BY <1>2, <2>1, <2>2 DEF LetterInv
<1>3. QED
  BY <1>1, <1>2, WantedWas

\* Answers go on to be stored.
LEMMA AnswersStoredNext ==
  ASSUME ComposerTypeOK, LetterInv, ComposerNext \/ UNCHANGED composerVars PROVE AnswersStored'
<1> SUFFICES ASSUME NEW c \in Slots, calls'[c].kind \in Keepers, calls'[c].step = "ok",
                    NEW x \in wanted', calls'[c].letter = x, NEW q, calls'[c].row = q
             PROVE  Stored(x)' \/ (calls'[c].kind \in Queueing /\ RowHolds(q, x)')
  BY DEF AnswersStored, RowHolds
<1>0. Continues(c) \/ Asks(c)
  BY CallContinues
<1>1. CASE calls'[c] = calls[c]
  <2>1. x \in wanted
    <3>1. x \in Written
      BY <1>1, LetterOf DEF Keepers
    <3>2. CASE Type /\ x = typed + 1 /\ typed \in Nat
      BY <3>1, <3>2 DEF Written
    <3>3. QED
      BY <3>2, WantedWas
  <2>2. Stored(x) \/ (calls[c].kind \in Queueing /\ RowHolds(calls[c].row, x))
    BY <1>1, <2>1 DEF LetterInv, AnswersStored
  <2>3. CASE Stored(x)
    BY <2>3, StoredStays
  <2>4. CASE calls[c].kind \in Queueing /\ RowHolds(calls[c].row, x)
    <3>1. PICK r \in DOMAIN rows : r = calls[c].row
      BY <1>1, <2>4 DEF LetterInv, RowsOfAnswers, Queued
    <3>2. ASSUME NEW b \in Slots, calls[b].kind = "undo", calls[b].row = r PROVE FALSE
      <4>1. b # c
        BY <2>4, <3>2 DEF Queueing
      <4>2. QED
        BY <1>1, <2>4, <3>1, <3>2, <4>1 DEF LetterInv, RowsOfAnswers, Queued
    <3>3. RowHolds(r, x)
      BY <2>4, <3>1
    <3>4. RowHolds(r, x)' \/ Stored(x)'
      BY <3>2, <3>3, RowsStay
    <3>5. calls'[c].row = r
      BY <1>1, <3>1
    <3>6. QED
      BY <1>1, <2>4, <3>4, <3>5
  <2>5. QED
    BY <2>2, <2>3, <2>4
<1>2. CASE ServePost(c) \/ Restore(c)
  <2>1. calls[c].kind \in {"save", "undo"} /\ calls'[c].letter = calls[c].letter
    <3>1. calls[c].kind \in {"save", "undo"} /\ calls[c].kind # "upload"
          /\ calls' = [calls EXCEPT ![c].step = "ok", ![c].draft = made']
      BY <1>2 DEF ServePost, Restore, IsAt
    <3>2. calls'[c] = AnswerOf(c, made', calls[c].row)
      BY <3>1, MadeDraftGoesOn
    <3>3. QED
      BY <3>1, <3>2 DEF AnswerOf
  <2>2. NewDraft(x) /\ x \in Written
    <3>1. calls[c].letter = x /\ x \in Written
      BY <2>1, LetterOf
    <3>2. CASE ServePost(c)
      BY <3>1, <3>2 DEF ServePost
    <3>3. CASE Restore(c)
      BY <3>1, <3>3 DEF Restore, IsAt, LetterInv, UndosKnown
    <3>4. QED
      BY <1>2, <3>1, <3>2, <3>3
  <2>3. x \in Range(drafts')
    BY <2>2, NewDraftIs DEF Range
  <2>4. QED
    BY <2>3 DEF Stored
<1>3. CASE ServePatch(c)
  <2>1. calls'[c].letter = calls[c].letter
    BY <1>3, AnsweredIs DEF ServePatch
  <2>2. drafts' = [drafts EXCEPT ![calls[c].draft] = x] /\ calls[c].draft \in DOMAIN drafts
    BY <1>3, <2>1 DEF ServePatch
  <2>3. x \in Range(drafts')
    BY <2>2 DEF Range
  <2>4. QED
    BY <2>3 DEF Stored
<1>4. CASE ServeQueue(c)
  <2>1. PICK i : i = Len(rows) + 1
    OBVIOUS
  <2>2. rows'[i] = QueuedRow(c) /\ calls'[c] = AnswerOf(c, calls[c].draft, i)
    BY <1>4, <2>1, QueuedIs, QueuedGoesOn
  <2>3. q = i /\ calls'[c].kind = calls[c].kind /\ calls'[c].letter = calls[c].letter
    BY <2>2 DEF AnswerOf
  <2>4. rows'[q].letter = x /\ rows'[q].status = "pending"
    BY <2>2, <2>3 DEF QueuedRow
  <2>5. calls[c].kind \in Queueing
    BY <1>4 DEF ServeQueue, IsAt
  <2>6. QED
    BY <2>3, <2>4, <2>5 DEF RowHolds
<1>5. CASE SettleSend(c)
  <2>1. calls'[c].letter = calls[c].letter
    BY <1>5, AnsweredIs DEF SettleSend
  <2>2. x \in MailedLetters
    BY <1>5, <2>1 DEF SettleSend, IsAt, LetterInv, MailsKnown
  <2>3. QED
    BY <2>2, StoredStays DEF Stored
<1>6. QED
  BY <1>1, <1>2, <1>3, <1>4, <1>5, CallAnswered

\* Rows keep their letters.
LEMMA RowLetters ==
  ASSUME ComposerTypeOK, ComposerNext \/ UNCHANGED composerVars, NEW r \in DOMAIN rows
  PROVE  /\ r \in DOMAIN rows' /\ rows'[r].letter = rows[r].letter
         /\ rows'[r].out => rows[r].out \/ Dispatch(r)
<1>1. CASE rows' = rows
  BY <1>1
<1>2. ASSUME NEW c \in Slots, ServeQueue(c) PROVE r \in DOMAIN rows' /\ rows'[r] = rows[r]
  BY <1>2, QueuedIs
<1>3. ASSUME NEW c \in Slots, Claim(c), rows' # rows
      PROVE  r \in DOMAIN rows' /\ rows'[r].letter = rows[r].letter /\ rows'[r].out = rows[r].out
  <2>1. PICK q \in DOMAIN rows : q = calls[c].row
    BY <1>3, LetterOf DEF Claim, IsAt
  <2>2. rows' = [rows EXCEPT ![q].status = "cancelled"]
    BY <1>3, <2>1 DEF Claim
  <2>3. RowsBecome(q, "cancelled", rows[q].out)
    BY <2>2, RowsStatus
  <2>4. QED
    BY <2>3 DEF RowsBecome
<1>4. ASSUME NEW q \in DOMAIN rows,
             Cancel(q) \/ Dispatch(q) \/ DispatchMisses(q) \/ DispatchRejected(q)
               \/ DispatchSettles(q) \/ DispatchBreaks(q)
      PROVE  /\ r \in DOMAIN rows' /\ rows'[r].letter = rows[r].letter
             /\ rows'[r].out => rows[r].out \/ Dispatch(r)
  <2>1. PICK s, o : RowsBecome(q, s, o) /\ (o = rows[q].out \/ o = FALSE \/ Dispatch(q))
    BY <1>4, RowSteps
  <2>2. QED
    BY <2>1 DEF RowsBecome
<1>5. \/ rows' = rows
      \/ \E c \in Slots : ServeQueue(c) \/ Claim(c)
      \/ \E q \in DOMAIN rows :
           Cancel(q) \/ Dispatch(q) \/ DispatchMisses(q) \/ DispatchRejected(q)
             \/ DispatchSettles(q) \/ DispatchBreaks(q)
  <2>1. CASE \E c \in Slots : Asks(c)
    BY <2>1, AsksLeave DEF tables
  <2>2. CASE \A c \in Slots : ~Asks(c)
    BY <2>2 DEF ComposerNext, Asks, OpenBlank, OpenDraft, Open, Type, Discard,
       SweepTempUploads, Clock,
         DropDraft, DropUpload, RemoveAttachment, ServePost, ServePatch, PatchMisses, ServeUpload,
         QueueTooLate, ServeSend, SendMisses, SettleSend,
         Restore, Fail, Break, LoseAnswer, SaveDone, UploadDone, SendDone, UndoDone,
         Refused, composerVars, tables
  <2>3. QED
    BY <2>1, <2>2
<1>6. QED
  BY <1>1, <1>2, <1>3, <1>4, <1>5

\* Only an answered request to hold a letter moves the toast.
LEMMA ToastNext ==
  ASSUME ComposerTypeOK, ComposerNext \/ UNCHANGED composerVars
  PROVE  \/ toast' = toast \/ toast' = 0
         \/ \E c \in Slots : Queued(calls[c]) /\ toast' = calls[c].row /\ calls'[c] = NoCall
<1>1. ASSUME NEW c \in Slots, SendDone(c)
      PROVE  toast' = toast \/ (Queued(calls[c]) /\ toast' = calls[c].row /\ calls'[c] = NoCall)
  BY <1>1, DoneIs DEF SendDone, IsAt, Queued, Queueing
<1>2. CASE \E c \in Slots : Asks(c)
  BY <1>2, AsksLeave DEF aside, page
<1>3. CASE \A c \in Slots : ~Asks(c) /\ ~SendDone(c)
  BY <1>3 DEF ComposerNext, Asks, OpenBlank, OpenDraft, Open, Type, Discard, SweepTempUploads,
     Clock,
         DropDraft, DropUpload, RemoveAttachment, ServePost, ServePatch, PatchMisses, ServeUpload, ServeQueue,
         QueueTooLate, ServeSend, SendMisses, SettleSend, Claim,
         Restore, Fail, Break, LoseAnswer, SaveDone, UploadDone, UndoDone,
         Refused, Cancel, Dispatch, DispatchMisses, DispatchRejected, DispatchSettles, DispatchBreaks,
         composerVars, aside, page
<1>4. QED
  BY <1>1, <1>2, <1>3

\* A call that was queued was queued before, or its row is new; a call to undo asks for the toast.
LEMMA RowsOfCalls ==
  ASSUME ComposerTypeOK, ComposerNext \/ UNCHANGED composerVars, NEW c \in Slots
  PROVE  /\ Queued(calls'[c]) =>
              \/ calls'[c] = calls[c]
              \/ /\ calls'[c].row = Len(rows) + 1 /\ ServeQueue(c) /\ Len(rows) + 1 \in DOMAIN rows'
                 /\ rows'[Len(rows) + 1].letter = calls'[c].letter
         /\ calls'[c].kind = "undo" =>
              \/ calls[c].kind = "undo" /\ calls'[c].row = calls[c].row
                 /\ calls'[c].letter = calls[c].letter /\ calls'[c].n = calls[c].n
              \/ /\ PressUndo(c) /\ toast \in DOMAIN rows /\ calls'[c].row = toast
                 /\ calls'[c].letter = rows[toast].letter /\ calls'[c].n = 0
<1>1. ASSUME Queued(calls'[c]), calls'[c] # calls[c]
      PROVE  /\ calls'[c].row = Len(rows) + 1 /\ ServeQueue(c) /\ Len(rows) + 1 \in DOMAIN rows'
             /\ rows'[Len(rows) + 1].letter = calls'[c].letter
  <2>1. calls'[c].step = "ok" /\ calls'[c].kind \in Keepers
    BY <1>1 DEF Queued, Keepers, Sending
  <2>2. ServePost(c) \/ ServePatch(c) \/ Restore(c) \/ ServeQueue(c) \/ SettleSend(c)
    BY <1>1, <2>1, CallAnswered
  <2>3. calls'[c].kind = calls[c].kind
    <3>1. ~Asks(c)
      <4>1. calls[c] # NoCall
        BY <2>2 DEF ServePost, ServePatch, Restore, ServeQueue, SettleSend, IsAt, NoCall,
           Queueing
      <4>2. QED
        BY <4>1, AsksAre, AskedIs
    <3>2. QED
      BY <1>1, <3>1, CallContinues DEF Continues, NoCall, Queued, Queueing
  <2>4. ServeQueue(c)
    BY <1>1, <2>2, <2>3 DEF ServePost, ServePatch, Restore, SettleSend, IsAt, Queued, Queueing
  <2>5. PICK q : q = Len(rows) + 1
    OBVIOUS
  <2>6. q \in DOMAIN rows' /\ rows'[q] = QueuedRow(c) /\ calls'[c] = AnswerOf(c, calls[c].draft, q)
    BY <2>4, <2>5, QueuedIs, QueuedGoesOn
  <2>7. calls'[c].row = q /\ rows'[q].letter = calls'[c].letter
    BY <2>6 DEF AnswerOf, QueuedRow
  <2>8. QED
    BY <2>4, <2>5, <2>6, <2>7
<1>2. ASSUME calls'[c].kind = "undo"
      PROVE  \/ calls[c].kind = "undo" /\ calls'[c].row = calls[c].row
                /\ calls'[c].letter = calls[c].letter /\ calls'[c].n = calls[c].n
             \/ /\ PressUndo(c) /\ toast \in DOMAIN rows /\ calls'[c].row = toast
                /\ calls'[c].letter = rows[toast].letter /\ calls'[c].n = 0
  <2>1. CASE Asks(c)
    <3>1. CASE PressUndo(c) /\ Ask(c, UndoCall(toast)) /\ toast \in DOMAIN rows
      <4>1. calls'[c] = UndoCall(toast)
        BY <3>1, AskedIs
      <4>2. QED
        BY <3>1, <4>1 DEF UndoCall
    <3>2. CASE Ask(c, AskedFor("save", window.seen, {}, 0))
      <4>1. calls'[c] = AskedFor("save", window.seen, {}, 0)
        BY <3>2, AskedIs
      <4>2. QED
        BY <1>2, <4>1 DEF AskedFor
    <3>3. ASSUME NEW kind \in Sending, NEW due \in Nat, Ask(c, AskedFor(kind, {}, window.files, due)) PROVE FALSE
      <4>1. calls'[c] = AskedFor(kind, {}, window.files, due)
        BY <3>3, AskedIs
      <4>2. QED
        BY <1>2, <4>1 DEF AskedFor, Sending, Queueing
    <3>4. ASSUME NEW f \in Files, Ask(c, UploadCall(f)) PROVE FALSE
      <4>1. calls'[c] = UploadCall(f)
        BY <3>4, AskedIs
      <4>2. QED
        BY <1>2, <4>1 DEF UploadCall
    <3>5. QED
      BY <2>1, <3>1, <3>2, <3>3, <3>4, AsksAre
  <2>2. CASE ~Asks(c)
    <3>1. calls'[c] # NoCall
      BY <1>2 DEF NoCall
    <3>2. calls[c].kind = "undo" /\ calls'[c].letter = calls[c].letter /\ calls'[c].n = calls[c].n
      BY <1>2, <2>2, <3>1, CallContinues DEF Continues
    <3>3. calls'[c].row = calls[c].row
      <4>1. CASE calls'[c] = calls[c]
        BY <4>1
      <4>2. CASE Restore(c)
        <5>1. calls' = [calls EXCEPT ![c].step = "ok", ![c].draft = made']
          BY <4>2 DEF Restore
        <5>2. calls'[c] = AnswerOf(c, made', calls[c].row)
          BY <3>2, <5>1, MadeDraftGoesOn
        <5>3. QED
          BY <5>2 DEF AnswerOf
      <4>3. CASE Claim(c) \/ Fail(c) \/ Break(c) \/ LoseAnswer(c)
        BY <4>3, AnsweredIs DEF Claim, Fail, Break, LoseAnswer
      <4>4. CASE UndoDone(c) \/ Refused(c)
        BY <3>1, <4>4, DoneIs DEF UndoDone, Refused
      <4>5. QED
        BY <2>2, <3>2, <4>1, <4>2, <4>3, <4>4, CallChanges DEF CallStep, ServePost, ServePatch,
           PatchMisses,
           ServeUpload, ServeQueue, QueueTooLate, ServeSend, SendMisses, SettleSend, SaveDone, UploadDone,
           SendDone, IsAt, Sending, Queueing
    <3>4. QED
      BY <3>2, <3>3
  <2>3. QED
    BY <2>1, <2>2
<1>3. QED
  BY <1>1, <1>2

LEMMA RowsOfAnswersNext ==
  ASSUME ComposerTypeOK, LetterInv, ComposerNext \/ UNCHANGED composerVars PROVE RowsOfAnswers'
<1> SUFFICES ASSUME NEW c \in Slots, Queued(calls'[c]), NEW q, q = calls'[c].row
             PROVE  /\ q \in DOMAIN rows' /\ q # toast'
                    /\ rows'[q].letter = calls'[c].letter
                    /\ \A b \in Slots \ {c} : Queued(calls'[b]) \/ calls'[b].kind = "undo" => calls'[b].row # q
  BY DEF RowsOfAnswers, Queued
<1>0. toast \in 0 .. Len(rows) /\ Len(rows) \in Nat /\ DOMAIN rows = 1 .. Len(rows)
  BY DEF ComposerTypeOK
<1>1. \A b \in Slots : Queued(calls[b]) =>
        /\ calls[b].row \in DOMAIN rows /\ calls[b].row # toast
        /\ rows[calls[b].row].letter = calls[b].letter
        /\ \A d \in Slots \ {b} : Queued(calls[d]) \/ calls[d].kind = "undo" => calls[d].row # calls[b].row
  BY DEF LetterInv, RowsOfAnswers
<1>2. \A b \in Slots : calls[b].kind = "undo" => calls[b].row \in DOMAIN rows
  BY LetterOf
<1>3. CASE calls'[c] = calls[c]
  <2>1. /\ Queued(calls[c]) /\ q = calls[c].row /\ q \in DOMAIN rows /\ q # toast
        /\ rows[q].letter = calls'[c].letter
    BY <1>1, <1>3
  <2>2. q \in DOMAIN rows' /\ rows'[q].letter = calls'[c].letter
    BY <2>1, RowLetters
  <2>3. q # toast'
    <3>1. CASE toast' = toast \/ toast' = 0
      BY <1>0, <2>1, <3>1
    <3>2. ASSUME NEW b \in Slots, Queued(calls[b]), toast' = calls[b].row, calls'[b] = NoCall PROVE q # toast'
      <4>1. b # c
        BY <3>2 DEF Queued, NoCall, Queueing
      <4>2. QED
        BY <1>1, <2>1, <3>2, <4>1
    <3>3. QED
      BY <3>1, <3>2, ToastNext
  <2>4. ASSUME NEW b \in Slots \ {c}, Queued(calls'[b]) \/ calls'[b].kind = "undo" PROVE calls'[b].row # q
    <3>1. CASE Queued(calls'[b])
      BY <1>0, <1>1, <2>1, <3>1, RowsOfCalls
    <3>2. CASE calls'[b].kind = "undo"
      BY <1>1, <2>1, <3>2, RowsOfCalls
    <3>3. QED
      BY <2>4, <3>1, <3>2
  <2>5. QED
    BY <2>2, <2>3, <2>4
<1>4. CASE calls'[c] # calls[c]
  <2>1. /\ q = Len(rows) + 1 /\ ServeQueue(c) /\ q \in DOMAIN rows'
        /\ rows'[q].letter = calls'[c].letter
    BY <1>4, RowsOfCalls
  <2>2. \A b \in Slots \ {c} : calls'[b] = calls[b]
    BY <2>1, QueuedGoesOn
  <2>3. q \notin DOMAIN rows /\ toast' = toast
    BY <1>0, <2>1 DEF ServeQueue, aside, page
  <2>4. QED
    BY <1>0, <1>1, <1>2, <2>1, <2>2, <2>3
<1>5. QED
  BY <1>3, <1>4

LEMMA RowsDomain ==
  ASSUME ComposerTypeOK, ComposerNext \/ UNCHANGED composerVars, \A c \in Slots : ~ServeQueue(c)
  PROVE  DOMAIN rows' = DOMAIN rows
<1>1. CASE rows' = rows
  BY <1>1
<1>2. ASSUME NEW c \in Slots, Claim(c), rows' # rows PROVE DOMAIN rows' = DOMAIN rows
  BY <1>2, LetterOf DEF Claim, IsAt
<1>3. ASSUME NEW q \in DOMAIN rows,
             Cancel(q) \/ Dispatch(q) \/ DispatchMisses(q) \/ DispatchRejected(q)
               \/ DispatchSettles(q) \/ DispatchBreaks(q)
      PROVE  DOMAIN rows' = DOMAIN rows
  BY <1>3, RowSteps DEF RowsBecome
<1>4. CASE \E c \in Slots : Asks(c)
  BY <1>1, <1>4, AsksLeave DEF tables
<1>5. CASE \A c \in Slots : ~Asks(c)
  BY <1>1, <1>2, <1>3, <1>5 DEF ComposerNext, Asks, OpenBlank, OpenDraft, Open, Type, Discard,
     SweepTempUploads, Clock,
         DropDraft, DropUpload, RemoveAttachment, ServePost, ServePatch, PatchMisses, ServeUpload,
         QueueTooLate, ServeSend, SendMisses, SettleSend,
         Restore, Fail, Break, LoseAnswer, SaveDone, UploadDone, SendDone, UndoDone,
         Refused, composerVars, tables
<1>6. QED
  BY <1>4, <1>5

LEMMA MailsKnownNext ==
  ASSUME ComposerTypeOK, LetterInv, ComposerNext \/ UNCHANGED composerVars PROVE MailsKnown'
<1>1. ASSUME NEW c \in Slots, calls'[c].step = "mailed" PROVE calls'[c].letter \in MailedLetters'
  <2>1. CASE calls'[c] = calls[c]
    BY <1>1, <2>1, MailsStay DEF LetterInv, MailsKnown
  <2>2. CASE ServeSend(c)
    <3>1. calls'[c].letter = calls[c].letter
      BY <2>2, AnsweredIs DEF ServeSend
    <3>2. QED
      BY <2>2, <3>1, MailsStay
  <2>3. CASE CallStep(c) /\ ~ServeSend(c)
    <3>1. CASE Asks(c)
      <4>1. PICK call : Ask(c, call) /\ call.step = "asked"
        <5>1. /\ \A kind, seen, files, due : AskedFor(kind, seen, files, due).step = "asked"
              /\ \A row : UndoCall(row).step = "asked"
              /\ \A f : UploadCall(f).step = "asked"
          BY DEF AskedFor, UndoCall, UploadCall
        <5>2. QED
          BY <3>1, <5>1, AsksAre
      <4>2. QED
        BY <1>1, <4>1, AskedIs
    <3>2. ASSUME NEW s \in {"ok", "refused", "claimed"}, Answered(c, s) PROVE FALSE
      BY <1>1, <3>2, AnsweredIs
    <3>3. CASE ServePatch(c) \/ PatchMisses(c) \/ ServeUpload(c) \/ QueueTooLate(c) \/ SendMisses(c)
               \/ SettleSend(c) \/ Claim(c) \/ Fail(c) \/ Break(c) \/ LoseAnswer(c)
      BY <3>2, <3>3 DEF ServePatch, PatchMisses, ServeUpload, QueueTooLate, SendMisses,
         SettleSend, Claim, Fail,
                        Break, LoseAnswer
    <3>4. CASE ServePost(c) \/ Restore(c)
      <4>1. PICK d : calls' = [calls EXCEPT ![c].step = "ok", ![c].draft = d]
        BY <3>4 DEF ServePost, Restore
      <4>2. calls[c].kind # "upload"
        BY <3>4 DEF ServePost, Restore, IsAt
      <4>3. calls'[c] = AnswerOf(c, d, calls[c].row)
        BY <4>1, <4>2, MadeDraftGoesOn
      <4>4. QED
        BY <1>1, <4>3 DEF AnswerOf
    <3>5. CASE ServeQueue(c)
      <4>1. calls'[c] = AnswerOf(c, calls[c].draft, Len(rows) + 1)
        BY <3>5, QueuedGoesOn
      <4>2. QED
        BY <1>1, <4>1 DEF AnswerOf
    <3>6. CASE SaveDone(c) \/ UploadDone(c) \/ SendDone(c) \/ UndoDone(c) \/ Refused(c)
      <4>1. calls'[c] = NoCall
        BY <3>6, DoneIs DEF SaveDone, UploadDone, SendDone, UndoDone, Refused
      <4>2. QED
        BY <1>1, <4>1 DEF NoCall
    <3>7. QED
      BY <2>3, <3>1, <3>3, <3>4, <3>5, <3>6 DEF CallStep
  <2>4. QED
    BY <2>1, <2>2, <2>3, CallChanges
<1>2. ASSUME NEW r \in DOMAIN rows', rows'[r].out PROVE rows'[r].letter \in MailedLetters'
  <2>1. CASE r \in DOMAIN rows
    BY <1>2, <2>1, RowLetters, MailsStay DEF LetterInv, MailsKnown
  <2>2. CASE r \notin DOMAIN rows
    <3>1. CASE \E c \in Slots : ServeQueue(c)
      <4>1. PICK c \in Slots : ServeQueue(c)
        BY <3>1
      <4>2. rows'[r] = QueuedRow(c)
        BY <2>2, <4>1, QueuedIs
      <4>3. QED
        BY <1>2, <4>2 DEF QueuedRow
    <3>2. CASE \A c \in Slots : ~ServeQueue(c)
      BY <2>2, <3>2, RowsDomain
    <3>3. QED
      BY <3>1, <3>2
  <2>3. QED
    BY <2>1, <2>2
<1>3. QED
  BY <1>1, <1>2 DEF MailsKnown

LEMMA UndosKnownNext ==
  ASSUME ComposerTypeOK, LetterInv, ComposerNext \/ UNCHANGED composerVars PROVE UndosKnown'
<1> SUFFICES ASSUME NEW c \in Slots, calls'[c].kind = "undo"
             PROVE  calls'[c].n = 0 /\ calls'[c].letter = rows'[calls'[c].row].letter
  BY DEF UndosKnown
<1>1. CASE calls[c].kind = "undo" /\ calls'[c].row = calls[c].row
           /\ calls'[c].letter = calls[c].letter /\ calls'[c].n = calls[c].n
  <2>1. PICK r \in DOMAIN rows : r = calls[c].row
    BY <1>1, LetterOf
  <2>2. rows'[r].letter = rows[r].letter
    BY RowLetters
  <2>3. QED
    BY <1>1, <2>1, <2>2 DEF LetterInv, UndosKnown
<1>2. CASE /\ PressUndo(c) /\ toast \in DOMAIN rows /\ calls'[c].row = toast
           /\ calls'[c].letter = rows[toast].letter /\ calls'[c].n = 0
  BY <1>2, RowLetters
<1>3. QED
  BY <1>1, <1>2, RowsOfCalls

\* A window that is open after the step is the one before, edited or not, or a new one.
LEMMA WindowNext ==
  ASSUME ComposerTypeOK, ComposerNext \/ UNCHANGED composerVars, window'.open
  PROVE  \/ window'.n = window.n /\ window.open /\ window'.letter = window.letter /\ window'.seen = window.seen
         \/ /\ Type /\ window'.n = window.n /\ window.open /\ window'.letter = typed + 1
            /\ window'.seen = window.seen \cup {typed + 1}
         \/ window'.n = window.n + 1 /\ window'.seen = {window'.letter} \ {0}
<1>0. WindowTyped
  BY TypeParts
<1>1. CASE window' = window
  BY <1>1
<1>2. CASE Type
  BY <1>0, <1>2 DEF Type, WindowTyped
<1>3. CASE OpenBlank \/ (\E d \in DOMAIN drafts : OpenDraft(d)) \/ \E c \in Slots : UndoDone(c)
  <2>1. PICK letter, draft : Show(letter, draft)
    BY <1>3 DEF OpenBlank, OpenDraft, Open, UndoDone
  <2>2. QED
    BY <2>1 DEF Show
<1>4. CASE Discard \/ \E c \in Slots : SendDone(c)
  <2>1. window' = Closed
    BY <1>4 DEF Discard, SendDone
  <2>2. QED
    BY <2>1, ClosedIs
<1>5. CASE (\E f \in Files : RemoveAttachment(f)) \/ \E c \in Slots : SaveDone(c) \/ UploadDone(c)
  BY <1>0, <1>5 DEF RemoveAttachment, SaveDone, UploadDone, WindowTyped
<1>6. QED
  <2>1. CASE \E c \in Slots : Asks(c)
    BY <1>1, <2>1, AsksLeave DEF aside, page
  <2>2. CASE \A c \in Slots : ~Asks(c)
    <3>1. window' = window \/ Type \/ OpenBlank \/ (\E d \in DOMAIN drafts : OpenDraft(d)) \/ Discard
          \/ (\E f \in Files : RemoveAttachment(f))
          \/ \E c \in Slots : UndoDone(c) \/ SendDone(c) \/ SaveDone(c) \/ UploadDone(c)
      BY <2>2 DEF ComposerNext, Asks, SweepTempUploads, Clock,
         DropDraft, DropUpload, ServePost, ServePatch, PatchMisses, ServeUpload, ServeQueue,
         QueueTooLate, ServeSend, SendMisses, SettleSend, Claim,
         Restore, Fail, Break, LoseAnswer,
         Refused, Cancel, Dispatch, DispatchMisses, DispatchRejected, DispatchSettles, DispatchBreaks,
         composerVars, aside, page
    <3>2. QED
      BY <1>1, <1>2, <1>3, <1>4, <1>5, <3>1
  <2>3. QED
    BY <2>1, <2>2

LEMMA ClosedWindow ==
  ASSUME ComposerTypeOK, ComposerNext \/ UNCHANGED composerVars, ~window'.open
  PROVE  (window'.seen = window.seen /\ window'.letter = window.letter) \/ window'.seen = {}
<1>0. WindowTyped
  BY TypeParts
<1>1. CASE window' = window
  BY <1>1
<1>2. CASE Type \/ \E f \in Files : RemoveAttachment(f)
  BY <1>0, <1>2 DEF Type, RemoveAttachment, WindowTyped
<1>3. CASE OpenBlank \/ (\E d \in DOMAIN drafts : OpenDraft(d)) \/ \E c \in Slots : UndoDone(c)
  BY <1>3 DEF OpenBlank, OpenDraft, Open, UndoDone, Show
<1>4. CASE Discard \/ \E c \in Slots : SendDone(c)
  <2>1. window' = Closed
    BY <1>4 DEF Discard, SendDone
  <2>2. QED
    BY <2>1, ClosedIs
<1>5. CASE \E c \in Slots : SaveDone(c) \/ UploadDone(c)
  BY <1>0, <1>5 DEF SaveDone, UploadDone, WindowTyped
<1>6. CASE \E c \in Slots : Asks(c)
  BY <1>1, <1>6, AsksLeave DEF aside, page
<1>7. CASE \A c \in Slots : ~Asks(c)
  <2>1. window' = window \/ Type \/ OpenBlank \/ (\E d \in DOMAIN drafts : OpenDraft(d)) \/ Discard
          \/ (\E f \in Files : RemoveAttachment(f))
          \/ \E c \in Slots : UndoDone(c) \/ SendDone(c) \/ SaveDone(c) \/ UploadDone(c)
    BY <1>7 DEF ComposerNext, Asks, SweepTempUploads, Clock,
         DropDraft, DropUpload, ServePost, ServePatch, PatchMisses, ServeUpload, ServeQueue,
         QueueTooLate, ServeSend, SendMisses, SettleSend, Claim,
         Restore, Fail, Break, LoseAnswer,
         Refused, Cancel, Dispatch, DispatchMisses, DispatchRejected, DispatchSettles, DispatchBreaks,
         composerVars, aside, page
  <2>2. QED
    BY <1>1, <1>2, <1>3, <1>4, <1>5, <2>1
<1>8. QED
  BY <1>6, <1>7

\* What the author's requests say of the window that makes them.
LEMMA AsksOfWindow ==
  ASSUME ComposerTypeOK, NEW c \in Slots, Asks(c)
  PROVE  /\ window' = window
         /\ calls'[c].kind = "save" => calls'[c].seen = window.seen /\ calls'[c].letter = window.letter
         /\ calls'[c].kind \in Keepers => calls'[c].letter = window.letter \/ calls'[c].n = 0
<1>1. window' = window
  BY AsksLeave DEF aside, page
<1>2. CASE PressUndo(c) /\ Ask(c, UndoCall(toast)) /\ toast \in DOMAIN rows
  <2>1. calls'[c] = UndoCall(toast)
    BY <1>2, AskedIs
  <2>2. QED
    BY <1>1, <2>1 DEF UndoCall
<1>3. CASE Ask(c, AskedFor("save", window.seen, {}, 0))
  <2>1. calls'[c] = AskedFor("save", window.seen, {}, 0)
    BY <1>3, AskedIs
  <2>2. QED
    BY <1>1, <2>1 DEF AskedFor
<1>4. ASSUME NEW kind \in Sending, NEW due \in Nat, Ask(c, AskedFor(kind, {}, window.files, due))
      PROVE  calls'[c].kind # "save" /\ calls'[c].letter = window.letter
  <2>1. calls'[c] = AskedFor(kind, {}, window.files, due)
    BY <1>4, AskedIs
  <2>2. QED
    BY <2>1 DEF AskedFor, Sending, Queueing
<1>5. ASSUME NEW f \in Files, Ask(c, UploadCall(f)) PROVE calls'[c].kind = "upload"
  <2>1. calls'[c] = UploadCall(f)
    BY <1>5, AskedIs
  <2>2. QED
    BY <2>1 DEF UploadCall
<1>6. QED
  BY <1>1, <1>2, <1>3, <1>4, <1>5, AsksAre DEF Keepers, Sending, Queueing

LEMMA WindowKnownNext ==
  ASSUME ComposerTypeOK, LetterInv, ComposerNext \/ UNCHANGED composerVars PROVE WindowKnown'
<1>0. /\ WindowTyped /\ window.n \in Nat /\ typed \in Nat
      /\ \A c \in Slots : calls[c].n \in Nat /\ calls[c].n <= window.n /\ calls[c].seen \subseteq Written
      /\ \A c \in Slots : calls[c].kind \in Keepers => calls[c].letter \in Written
  <2>1. WindowTyped /\ window.n \in Nat /\ typed \in Nat
    BY TypeParts, Bounds DEF WindowTyped, ComposerTypeOK
  <2>2. \A c \in Slots : calls[c].n \in Nat /\ calls[c].n <= window.n /\ calls[c].seen \subseteq Written
    BY <2>1, LetterOf DEF Calls
  <2>3. QED
    BY <2>1, <2>2, LetterOf DEF Keepers
<1>1. \A x \in wanted' : x \in wanted \/ (Type /\ x = typed + 1 /\ x \notin Written)
  BY <1>0, WantedWas DEF Written
<1>2. WindowKnown
  BY DEF LetterInv
<1>3. window'.open => window'.n # 0
  BY <1>0, <1>2, WindowNext DEF WindowKnown
<1>4. ASSUME NEW x \in wanted' \cap window'.seen PROVE x = window'.letter
  <2>1. CASE window'.open
    <3>1. CASE window'.n = window.n /\ window.open /\ window'.letter = window.letter /\ window'.seen = window.seen
      <4>1. x \in wanted
        BY <1>0, <1>1, <1>4, <3>1 DEF WindowTyped, Written
      <4>2. QED
        BY <1>2, <1>4, <3>1, <4>1 DEF WindowKnown
    <3>2. CASE /\ Type /\ window'.n = window.n /\ window.open /\ window'.letter = typed + 1
               /\ window'.seen = window.seen \cup {typed + 1}
      <4>1. x = typed + 1 \/ (x \in wanted /\ x \in window.seen /\ x # window.letter)
        BY <1>1, <1>4, <3>2 DEF Type
      <4>2. QED
        BY <1>2, <3>2, <4>1 DEF WindowKnown
    <3>3. CASE window'.n = window.n + 1 /\ window'.seen = {window'.letter} \ {0}
      BY <1>4, <3>3
    <3>4. QED
      BY <2>1, <3>1, <3>2, <3>3, WindowNext
  <2>2. CASE ~window'.open
    <3>1. (window'.seen = window.seen /\ window'.letter = window.letter) \/ window'.seen = {}
      BY <1>0, <2>2, ClosedWindow
    <3>2. CASE window'.seen = window.seen /\ window'.letter = window.letter
      <4>1. x \in wanted
        BY <1>0, <1>1, <1>4, <3>2 DEF WindowTyped
      <4>2. QED
        BY <1>2, <1>4, <3>2, <4>1 DEF WindowKnown
    <3>3. QED
      BY <1>4, <3>1, <3>2
  <2>3. QED
    BY <2>1, <2>2
<1>5. ASSUME NEW c \in Slots, calls'[c].kind = "save", NEW x \in wanted' \cap calls'[c].seen
      PROVE  x = calls'[c].letter
  <2>1. CASE Asks(c)
    <3>1. x \in window.seen /\ calls'[c].letter = window.letter /\ wanted' = wanted
      BY <1>5, <2>1, AsksOfWindow, AsksLeave
    <3>2. QED
      BY <1>2, <1>5, <3>1 DEF WindowKnown
  <2>2. CASE ~Asks(c)
    <3>1. calls[c].kind = "save" /\ calls'[c].seen = calls[c].seen /\ calls'[c].letter = calls[c].letter
      BY <1>5, <2>2, CallContinues DEF Continues, NoCall
    <3>2. x \in wanted
      BY <1>0, <1>1, <1>5, <3>1
    <3>3. QED
      BY <1>2, <1>5, <3>1, <3>2 DEF WindowKnown
  <2>3. QED
    BY <2>1, <2>2
<1>6. ASSUME NEW c \in Slots, calls'[c].kind \in Keepers, window'.open, calls'[c].n = window'.n,
             calls'[c].letter \in wanted'
      PROVE  calls'[c].letter = window'.letter
  <2>1. CASE Asks(c)
    BY <1>3, <1>6, <2>1, AsksOfWindow
  <2>2. CASE ~Asks(c)
    <3>1. calls[c].kind \in Keepers /\ calls'[c].n = calls[c].n /\ calls'[c].letter = calls[c].letter
      BY <1>6, <2>2, CallContinues DEF Continues, NoCall, Keepers, Sending, Queueing
    <3>2. calls[c].letter \in wanted
      BY <1>0, <1>1, <1>6, <3>1
    <3>3. window'.n # window.n + 1
      BY <1>0, <1>6, <3>1
    <3>4. window'.n = window.n /\ window.open
      BY <1>6, <3>3, WindowNext
    <3>5. calls[c].letter = window.letter
      BY <1>2, <1>6, <3>1, <3>2, <3>4 DEF WindowKnown, OfWindow
    <3>6. CASE Type
      BY <1>0, <1>6, <3>1, <3>5, <3>6 DEF Type, Written
    <3>7. QED
      BY <1>6, <3>1, <3>3, <3>5, <3>6, WindowNext
  <2>3. QED
    BY <2>1, <2>2
<1>7. QED
  BY <1>3, <1>4, <1>5, <1>6 DEF WindowKnown, OfWindow

LEMMA LetterInvNext == ComposerTypeOK /\ LetterInv /\ [ComposerNext]_composerVars => LetterInv'
<1> SUFFICES ASSUME ComposerTypeOK, LetterInv, ComposerNext \/ UNCHANGED composerVars PROVE LetterInv'
  OBVIOUS
<1>1. \A x \in wanted' : Shows(x)' \/ Elsewhere(x)'
  BY LettersStay
<1>2. QED
  BY <1>1, AnswersStoredNext, RowsOfAnswersNext, MailsKnownNext, UndosKnownNext,
     WindowKnownNext DEF LetterInv

(***************************************************************************)
(* No letter the author still wants is lost: it is in the window, in a draft, *)
(* in the queue, under way or mailed.                                      *)
(***************************************************************************)
THEOREM LettersAreKept == ComposerSpec => []LettersKept
<1>1. LetterInv => LettersKept
  BY DEF LetterInv, LettersKept, Shows, Elsewhere, OutsideWindow, Stored, Carries, Keepers,
     UnderWay
<1>2. QED
  BY <1>1, ComposerTypeInit, ComposerTypeNext, LetterInvInit, LetterInvNext,
     PTL DEF ComposerSpec

-----------------------------------------------------------------------------
(***************************************************************************)
(* The drafts of a letter that no send left behind: every place that knows *)
(* a draft of it knows the same one, a send that knows none is of a letter *)
(* that has none, and what still knows a draft of a letter that is out is  *)
(* covered by a sender that will delete it.                                *)
(***************************************************************************)
Filing(call, x) == call.kind = "save" /\ call.step \in {"asked", "ok"} /\ call.letter = x
Leaving(call, x) == call.kind \in Sending /\ call.step \in {"asked", "mailed"} /\ call.letter = x
Standing(row, x) == row.letter = x /\ (row.status = "pending" \/ row.out)

Holds(d, x) == d \in DOMAIN drafts /\ drafts[d] = x
SavedAs(x, d) == \E c \in Slots : Filing(calls[c], x) /\ calls[c].draft = d
SentAs(x, d) ==
  \/ \E c \in Slots : Leaving(calls[c], x) /\ calls[c].draft = d
  \/ \E r \in DOMAIN rows : Standing(rows[r], x) /\ rows[r].draft = d
ShownAs(x, d) == Shows(x) /\ window.draft = d
IdOf(x, d) == d # 0 /\ (Holds(d, x) \/ SavedAs(x, d) \/ SentAs(x, d) \/ ShownAs(x, d))

OneDraft(x) == \A d, e \in 1 .. MaxDrafts : IdOf(x, d) /\ IdOf(x, e) => d = e

\* A send that knows no draft is of a letter that has none,
Blind(x) == SentAs(x, 0) =>
  /\ \A d \in 1 .. MaxDrafts : ~IdOf(x, d)
  /\ \A c \in Slots : ~Filing(calls[c], x)
Sighted(x) == ShownAs(x, 0) => \A d \in 1 .. MaxDrafts : ~SentAs(x, d)

\* and so is a first save.
FirstSave(x) == \A c \in Slots : Filing(calls[c], x) /\ calls[c].draft = 0 =>
  /\ \A d \in 1 .. MaxDrafts : ~IdOf(x, d)
  /\ ~SentAs(x, 0) /\ x \notin MailedLetters
  /\ \A b \in Slots \ {c} : ~Filing(calls[b], x)

\* What still knows a draft of a letter that is out will see it deleted.
CoveredBy(x, d) ==
  \/ \E c \in Slots : /\ calls[c].kind = "send" /\ calls[c].step = "mailed"
                      /\ calls[c].letter = x /\ calls[c].draft = d
  \/ \E r \in DOMAIN rows : rows[r].out /\ rows[r].letter = x /\ rows[r].draft = d
MailCovers(x) == x \in MailedLetters =>
  \A d \in DOMAIN drafts : Holds(d, x) \/ SavedAs(x, d) \/ ShownAs(x, d) => CoveredBy(x, d)

\* A window that knows no draft of its letter made every request about it, and awaits the answers.
OwnCalls(x) == ShownAs(x, 0) =>
  \A c \in Slots : calls[c].kind \in Sending \cup {"save"} /\ calls[c].letter = x => OfWindow(c)
AnswerComes(x) == ShownAs(x, 0) /\ (x \in MailedLetters \/ \E r \in DOMAIN rows : Standing(rows[r], x)) =>
  \E c \in Slots : calls[c].kind \in Sending /\ calls[c].letter = x /\ OfWindow(c) /\ calls[c].step \in {"mailed", "ok"}
SaveComes(x) == ShownAs(x, 0) /\ (\E d \in DOMAIN drafts : Holds(d, x)) =>
  \E c \in Slots : calls[c].kind = "save" /\ calls[c].step = "ok" /\ calls[c].letter = x
NotBoth(x) == ShownAs(x, 0) /\ ShownOn({"save"}) # {} =>
  \A c \in Slots : ~(calls[c].kind \in Sending /\ calls[c].letter = x)

\* A letter waits in one place to be sent, and in none when an undo has it.
Waiting(call, x) == call.kind \in Sending /\ call.step = "asked" /\ call.letter = x
InQueue(row, x) == row.letter = x /\ row.status = "pending"
OneSender(x) ==
  /\ \A b, c \in Slots : Waiting(calls[b], x) /\ Waiting(calls[c], x) => b = c
  /\ \A q, r \in DOMAIN rows : InQueue(rows[q], x) /\ InQueue(rows[r], x) => q = r
  /\ \A c \in Slots, r \in DOMAIN rows : ~(Waiting(calls[c], x) /\ InQueue(rows[r], x))
  /\ \A c \in Slots : calls[c].kind = "undo" /\ calls[c].letter = x /\ calls[c].step = "claimed" =>
       /\ \A b \in Slots : ~Waiting(calls[b], x)
       /\ \A r \in DOMAIN rows : ~InQueue(rows[r], x)

SavesOfWindow ==
  /\ \A b, c \in ShownOn({"save"}) : b = c
  /\ \A c \in ShownOn({"save"}) : calls[c].step \in {"asked", "ok"} =>
       calls[c].draft = window.draft \/ (window.draft = 0 /\ calls[c].step = "ok")
  /\ \A c \in Slots : calls[c].kind = "save" /\ calls[c].step = "ok" => calls[c].draft # 0

DraftsOf(x) ==
  /\ OneDraft(x) /\ Blind(x) /\ Sighted(x) /\ FirstSave(x) /\ MailCovers(x)
  /\ AnswerComes(x) /\ SaveComes(x) /\ NotBoth(x) /\ OneSender(x)

DraftInv ==
  /\ SavesOfWindow
  /\ \A x \in Written : OwnCalls(x)
  /\ \A x \in Written \ tangled : DraftsOf(x)

LEMMA DraftInvInit == ComposerInit => DraftInv
<1> SUFFICES ASSUME ComposerInit PROVE DraftInv
  OBVIOUS
<1>1. Written = {}
  BY DEF ComposerInit, Written
<1>2. \A c \in Slots : calls[c].kind = "none"
  BY DEF ComposerInit, NoCall
<1>3. SavesOfWindow
  BY <1>2 DEF SavesOfWindow, ShownOn, UnderWay
<1>4. QED
  BY <1>1, <1>3 DEF DraftInv

-----------------------------------------------------------------------------
\* A request to save or to send keeps its draft, but for the first save.
CallKeeps(c) == calls'[c].kind \in Sending \cup {"save"} =>
  /\ calls'[c].kind = calls[c].kind /\ calls'[c].n = calls[c].n
  /\ calls'[c].letter = calls[c].letter /\ calls'[c].draft = calls[c].draft
  /\ calls'[c].step = "asked" => calls[c].step = "asked"
  /\ calls'[c].step = "mailed" => calls[c].step \in {"asked", "mailed"}
  /\ calls'[c].step = "ok" => calls[c].step \in {"asked", "mailed", "ok"}

LEMMA CallKeepsNext ==
  ASSUME ComposerTypeOK, ComposerNext \/ UNCHANGED composerVars, NEW c \in Slots
  PROVE  CallKeeps(c) \/ Asks(c) \/ ServePost(c)
<1>1. ASSUME NEW s \in {"ok", "mailed", "claimed", "refused"}, Answered(c, s),
             s = "ok" => calls[c].step \in {"asked", "mailed"},
             s = "mailed" => calls[c].step = "asked"
      PROVE  CallKeeps(c)
  BY <1>1, AnsweredIs DEF CallKeeps
<1>2. CASE calls'[c] = calls[c]
  BY <1>2 DEF CallKeeps
<1>3. CASE ServePatch(c) \/ PatchMisses(c) \/ ServeUpload(c) \/ QueueTooLate(c) \/ ServeSend(c) \/ SendMisses(c)
           \/ SettleSend(c) \/ Claim(c) \/ Fail(c) \/ Break(c) \/ LoseAnswer(c)
  <2>1. CASE ServePatch(c) \/ ServeUpload(c) \/ SettleSend(c)
    BY <1>1, <2>1 DEF ServePatch, ServeUpload, SettleSend, IsAt
  <2>2. CASE ServeSend(c)
    BY <1>1, <2>2 DEF ServeSend, IsAt
  <2>3. CASE Claim(c)
    BY <1>1, <2>3 DEF Claim
  <2>4. CASE PatchMisses(c) \/ QueueTooLate(c) \/ SendMisses(c) \/ Fail(c) \/ Break(c) \/ LoseAnswer(c)
    BY <1>1, <2>4 DEF PatchMisses, QueueTooLate, SendMisses, Fail, Break, LoseAnswer
  <2>5. QED
    BY <1>3, <2>1, <2>2, <2>3, <2>4
<1>4. CASE Restore(c)
  <2>1. calls[c].kind = "undo" /\ calls' = [calls EXCEPT ![c].step = "ok", ![c].draft = made']
    BY <1>4 DEF Restore, IsAt
  <2>2. calls'[c] = AnswerOf(c, made', calls[c].row)
    BY <2>1, MadeDraftGoesOn
  <2>3. calls'[c].kind = "undo"
    BY <2>1, <2>2 DEF AnswerOf
  <2>4. QED
    BY <2>3 DEF CallKeeps, Sending, Queueing
<1>5. CASE ServeQueue(c)
  <2>1. calls'[c] = AnswerOf(c, calls[c].draft, Len(rows) + 1) /\ calls[c].step = "asked"
    BY <1>5, QueuedGoesOn DEF ServeQueue, IsAt
  <2>2. /\ calls'[c].kind = calls[c].kind /\ calls'[c].n = calls[c].n
        /\ calls'[c].letter = calls[c].letter /\ calls'[c].draft = calls[c].draft
        /\ calls'[c].step = "ok"
    BY <2>1 DEF AnswerOf
  <2>3. QED
    BY <2>1, <2>2 DEF CallKeeps
<1>6. CASE SaveDone(c) \/ UploadDone(c) \/ SendDone(c) \/ UndoDone(c) \/ Refused(c)
  <2>1. calls'[c] = NoCall
    BY <1>6, DoneIs DEF SaveDone, UploadDone, SendDone, UndoDone, Refused
  <2>2. QED
    BY <2>1 DEF NoCall, CallKeeps, Sending, Queueing
<1>7. QED
  BY <1>2, <1>3, <1>4, <1>5, <1>6, CallChanges DEF CallStep

\* The requests to send.
Pressing(c) == \E kind \in Sending, due \in Nat : Press(c, AskedFor(kind, {}, window.files, due))

\* What the author asks for about a letter.
LEMMA AsksKeep ==
  ASSUME ComposerTypeOK, NEW c \in Slots, Asks(c)
  PROVE  \/ /\ Save(c) /\ calls'[c].kind = "save" /\ calls'[c].step = "asked" /\ calls'[c].n = window.n
            /\ calls'[c].letter = window.letter /\ calls'[c].draft = window.draft
         \/ /\ Pressing(c) /\ calls'[c].kind \in Sending /\ calls'[c].step = "asked" /\ calls'[c].n = window.n
            /\ calls'[c].letter = window.letter /\ calls'[c].draft = window.draft
         \/ calls'[c].kind \notin Sending \cup {"save"} /\ calls'[c].step = "asked"
<1>1. CASE Save(c) /\ Ask(c, AskedFor("save", window.seen, {}, 0))
  <2>1. calls'[c] = AskedFor("save", window.seen, {}, 0)
    BY <1>1, AskedIs
  <2>2. QED
    BY <1>1, <2>1 DEF AskedFor
<1>2. ASSUME NEW kind \in Sending, NEW due \in Nat, Press(c, AskedFor(kind, {}, window.files, due)),
             Ask(c, AskedFor(kind, {}, window.files, due))
      PROVE  /\ Pressing(c) /\ calls'[c].kind \in Sending /\ calls'[c].step = "asked" /\ calls'[c].n = window.n
             /\ calls'[c].letter = window.letter /\ calls'[c].draft = window.draft
  <2>1. calls'[c] = AskedFor(kind, {}, window.files, due)
    BY <1>2, AskedIs
  <2>2. Pressing(c)
    BY <1>2 DEF Pressing
  <2>3. QED
    BY <2>1, <2>2 DEF AskedFor
<1>3. CASE Ask(c, UndoCall(toast))
  <2>1. calls'[c] = UndoCall(toast)
    BY <1>3, AskedIs
  <2>2. QED
    BY <2>1 DEF UndoCall, Sending, Queueing
<1>4. ASSUME NEW f \in Files, Ask(c, UploadCall(f))
      PROVE  calls'[c].kind \notin Sending \cup {"save"} /\ calls'[c].step = "asked"
  <2>1. calls'[c] = UploadCall(f)
    BY <1>4, AskedIs
  <2>2. QED
    BY <2>1 DEF UploadCall, Sending, Queueing
<1>5. QED
  BY <1>1, <1>2, <1>3, <1>4, AsksAre

LEMMA ServePostIs ==
  ASSUME ComposerTypeOK, NEW c \in Slots, ServePost(c)
  PROVE  /\ calls[c].kind = "save" /\ calls[c].step = "asked" /\ calls[c].draft = 0
         /\ calls'[c].kind = "save" /\ calls'[c].step = "ok" /\ calls'[c].n = calls[c].n
         /\ calls'[c].letter = calls[c].letter /\ calls'[c].draft = made'
         /\ NewDraft(calls[c].letter) /\ calls[c].letter \in Written
<1>1. calls[c].kind = "save" /\ calls[c].step = "asked" /\ calls[c].draft = 0 /\ NewDraft(calls[c].letter)
      /\ calls' = [calls EXCEPT ![c].step = "ok", ![c].draft = made']
  BY DEF ServePost, IsAt
<1>2. calls'[c] = AnswerOf(c, made', calls[c].row) /\ calls[c].letter \in Written
  BY <1>1, MadeDraftGoesOn, LetterOf
<1>3. QED
  BY <1>1, <1>2 DEF AnswerOf

\* How the requests about a letter come to be.
LEMMA FilingNext ==
  ASSUME ComposerTypeOK, ComposerNext \/ UNCHANGED composerVars, NEW c \in Slots, NEW x,
         Filing(calls'[c], x)
  PROVE  \/ Filing(calls[c], x) /\ calls'[c].draft = calls[c].draft /\ calls'[c].n = calls[c].n
         \/ /\ Save(c) /\ window.letter = x /\ calls'[c].draft = window.draft /\ calls'[c].n = window.n
            /\ calls'[c].step = "asked"
         \/ ServePost(c) /\ calls[c].letter = x /\ calls'[c].draft = made'
<1>1. CASE Asks(c)
  BY <1>1, AsksKeep DEF Filing, Sending, Queueing
<1>2. CASE ServePost(c)
  BY <1>2, ServePostIs DEF Filing
<1>3. CASE CallKeeps(c)
  <2>1. CASE calls'[c].step = "ok"
    <3>1. calls[c].step # "mailed"
      <4>1. calls[c].kind = "save"
        BY <1>3 DEF Filing, CallKeeps
      <4>2. QED
        BY <4>1 DEF ComposerTypeOK
    <3>2. QED
      BY <1>3, <2>1, <3>1 DEF Filing, CallKeeps
  <2>2. CASE calls'[c].step = "asked"
    BY <1>3, <2>2 DEF Filing, CallKeeps
  <2>3. QED
    BY <2>1, <2>2 DEF Filing
<1>4. QED
  BY <1>1, <1>2, <1>3, CallKeepsNext

LEMMA SendingNext ==
  ASSUME ComposerTypeOK, ComposerNext \/ UNCHANGED composerVars, NEW c \in Slots,
         calls'[c].kind \in Sending
  PROVE  \/ calls[c].kind \in Sending /\ CallKeeps(c) /\ calls'[c].letter = calls[c].letter
            /\ calls'[c].draft = calls[c].draft /\ calls'[c].n = calls[c].n
         \/ /\ Pressing(c) /\ calls'[c].letter = window.letter
            /\ calls'[c].draft = window.draft /\ calls'[c].n = window.n /\ calls'[c].step = "asked"
<1>1. CASE Asks(c)
  BY <1>1, AsksKeep DEF Sending, Queueing
<1>2. CASE ServePost(c)
  BY <1>2, ServePostIs DEF Sending, Queueing
<1>3. CASE CallKeeps(c)
  BY <1>3 DEF CallKeeps
<1>4. QED
  BY <1>1, <1>2, <1>3, CallKeepsNext

LEMMA LeavingNext ==
  ASSUME ComposerTypeOK, ComposerNext \/ UNCHANGED composerVars, NEW c \in Slots, NEW x
  PROVE  /\ Leaving(calls'[c], x) =>
              \/ Leaving(calls[c], x) /\ calls'[c].draft = calls[c].draft
              \/ Pressing(c) /\ window.letter = x /\ calls'[c].draft = window.draft
         /\ Waiting(calls'[c], x) => Waiting(calls[c], x) \/ (Pressing(c) /\ window.letter = x)
BY SendingNext DEF Leaving, Waiting, CallKeeps

\* The steps that change a row.
LEMMA RowsChange ==
  ASSUME ComposerNext \/ UNCHANGED composerVars
  PROVE  \/ rows' = rows
         \/ \E c \in Slots : ServeQueue(c) \/ Claim(c)
         \/ \E q \in DOMAIN rows :
              Cancel(q) \/ Dispatch(q) \/ DispatchMisses(q) \/ DispatchRejected(q)
                \/ DispatchSettles(q) \/ DispatchBreaks(q)
<1>1. CASE \E c \in Slots : Asks(c)
  BY <1>1, AsksLeave DEF tables
<1>2. CASE \A c \in Slots : ~Asks(c)
  BY <1>2 DEF ComposerNext, Asks, OpenBlank, OpenDraft, Open, Type, Discard, SweepTempUploads,
     Clock,
       DropDraft, DropUpload, RemoveAttachment, ServePost, ServePatch, PatchMisses, ServeUpload,
       QueueTooLate, ServeSend, SendMisses, SettleSend,
       Restore, Fail, Break, LoseAnswer, SaveDone, UploadDone, SendDone, UndoDone,
       Refused, composerVars, tables
<1>3. QED
  BY <1>1, <1>2

\* How the rows of a letter come to stand and to wait.
LEMMA StandingNext ==
  ASSUME ComposerTypeOK, ComposerNext \/ UNCHANGED composerVars, NEW r \in DOMAIN rows'
  PROVE  \/ /\ r \in DOMAIN rows
            /\ rows'[r].letter = rows[r].letter /\ rows'[r].draft = rows[r].draft
            /\ rows'[r].status = "pending" => rows[r].status = "pending"
            /\ rows'[r].out => rows[r].out \/ (Dispatch(r) /\ rows[r].status = "pending")
         \/ \E c \in Slots :
              /\ ServeQueue(c) /\ calls[c].kind \in Sending /\ calls[c].step = "asked"
              /\ rows'[r].letter = calls[c].letter /\ rows'[r].draft = calls[c].draft
              /\ r \notin DOMAIN rows /\ ~rows'[r].out
<1>1. CASE rows' = rows
  BY <1>1
<1>2. ASSUME NEW c \in Slots, ServeQueue(c)
      PROVE  \/ r \in DOMAIN rows /\ rows'[r] = rows[r]
             \/ /\ calls[c].kind \in Sending /\ calls[c].step = "asked"
                /\ rows'[r].letter = calls[c].letter /\ rows'[r].draft = calls[c].draft
                /\ r \notin DOMAIN rows /\ ~rows'[r].out
  <2>1. calls[c].kind \in Sending /\ calls[c].step = "asked"
    BY <1>2 DEF ServeQueue, IsAt, Sending
  <2>2. CASE r \in DOMAIN rows
    BY <1>2, <2>2, QueuedIs
  <2>3. CASE r \notin DOMAIN rows
    <3>1. rows'[r] = QueuedRow(c)
      BY <1>2, <2>3, QueuedIs
    <3>2. QED
      BY <2>1, <2>3, <3>1 DEF QueuedRow
  <2>4. QED
    BY <2>2, <2>3
<1>3. ASSUME NEW q \in DOMAIN rows, NEW s, NEW o, RowsBecome(q, s, o),
             s = "pending" => rows[q].status = "pending",
             o = TRUE => rows[q].out \/ (Dispatch(q) /\ rows[q].status = "pending")
      PROVE  /\ r \in DOMAIN rows
             /\ rows'[r].letter = rows[r].letter /\ rows'[r].draft = rows[r].draft
             /\ rows'[r].status = "pending" => rows[r].status = "pending"
             /\ rows'[r].out => rows[r].out \/ (Dispatch(r) /\ rows[r].status = "pending")
  <2>1. r \in DOMAIN rows /\ rows'[r].out \in BOOLEAN
    <3>1. DOMAIN rows' = DOMAIN rows /\ rows' \in Seq(Rows)
      BY <1>3 DEF RowsBecome
    <3>2. r \in DOMAIN rows /\ rows'[r] \in Rows
      BY <3>1
    <3>3. QED
      BY <3>2 DEF Rows
  <2>2. CASE r # q
    BY <1>3, <2>1, <2>2 DEF RowsBecome
  <2>3. CASE r = q
    BY <1>3, <2>1, <2>3 DEF RowsBecome
  <2>4. QED
    BY <2>2, <2>3
<1>4. ASSUME NEW c \in Slots, Claim(c), rows' # rows
      PROVE  /\ r \in DOMAIN rows
             /\ rows'[r].letter = rows[r].letter /\ rows'[r].draft = rows[r].draft
             /\ rows'[r].status = "pending" => rows[r].status = "pending"
             /\ rows'[r].out => rows[r].out \/ (Dispatch(r) /\ rows[r].status = "pending")
  <2>1. PICK q \in DOMAIN rows : q = calls[c].row
    BY <1>4, LetterOf DEF Claim, IsAt
  <2>2. rows' = [rows EXCEPT ![q].status = "cancelled"]
    BY <1>4, <2>1 DEF Claim
  <2>3. RowsBecome(q, "cancelled", rows[q].out)
    BY <2>2, RowsStatus
  <2>4. QED
    BY <1>3, <2>3
<1>5. ASSUME NEW q \in DOMAIN rows,
             Cancel(q) \/ Dispatch(q) \/ DispatchMisses(q) \/ DispatchRejected(q)
               \/ DispatchSettles(q) \/ DispatchBreaks(q)
      PROVE  /\ r \in DOMAIN rows
             /\ rows'[r].letter = rows[r].letter /\ rows'[r].draft = rows[r].draft
             /\ rows'[r].status = "pending" => rows[r].status = "pending"
             /\ rows'[r].out => rows[r].out \/ (Dispatch(r) /\ rows[r].status = "pending")
  <2>1. CASE Dispatch(q)
    <3>1. rows[q].status = "pending" /\ RowsBecome(q, rows[q].status, TRUE)
      BY <2>1, RowSteps DEF Dispatch, IsDue
    <3>2. QED
      BY <1>3, <2>1, <3>1
  <2>2. CASE ~Dispatch(q)
    <3>1. PICK s, o : /\ RowsBecome(q, s, o) /\ s # "pending" /\ (o = rows[q].out \/ o = FALSE)
      BY <1>5, <2>2, RowSteps
    <3>2. QED
      BY <1>3, <3>1
  <2>3. QED
    BY <2>1, <2>2
<1>6. QED
  BY <1>1, <1>2, <1>4, <1>5, RowsChange

LEMMA RestoreIs ==
  ASSUME ComposerTypeOK, LetterInv, NEW c \in Slots, Restore(c)
  PROVE  /\ calls[c].kind = "undo" /\ calls[c].step = "claimed" /\ calls[c].letter \in Written
         /\ NewDraft(calls[c].letter)
         /\ calls[c].letter \notin tangled' =>
              /\ calls[c].letter \notin Range(drafts) \cup MailedLetters \cup {window.letter}
              /\ \A b \in Slots : ~(calls[b].kind = "save" /\ calls[b].letter = calls[c].letter)
         /\ UNCHANGED <<window, rows, mailed>>
<1>1. calls[c].kind = "undo" /\ calls[c].step = "claimed"
  BY DEF Restore, IsAt
<1>2. calls[c].letter \in Written /\ calls[c].letter = rows[calls[c].row].letter
  BY <1>1, LetterOf DEF LetterInv, UndosKnown
<1>3. QED
  BY <1>1, <1>2 DEF Restore, UnderWay, aside, page

\* How a draft comes to hold a letter, and that no id comes back.
LEMMA HoldsNext ==
  ASSUME ComposerTypeOK, LetterInv, ComposerNext \/ UNCHANGED composerVars, NEW x, NEW d, Holds(d, x)'
  PROVE  /\ d \in DOMAIN drafts \/ (d = made' /\ made' # made)
         /\ \/ Holds(d, x)
            \/ \E c \in Slots : ServePost(c) /\ calls[c].letter = x /\ d = made'
            \/ \E c \in Slots : ServePatch(c) /\ calls[c].letter = x /\ d = calls[c].draft
            \/ \E c \in Slots : Restore(c) /\ calls[c].letter = x /\ d = made'
<1> USE DEF Holds
<1>1. CASE drafts' = drafts
  BY <1>1
<1>2. ASSUME NEW S, drafts' = Without(drafts, S) PROVE Holds(d, x) /\ d \in DOMAIN drafts
  <2>1. DOMAIN drafts' = DOMAIN drafts \ S /\ \A e \in DOMAIN drafts \ S : drafts'[e] = drafts[e]
    BY <1>2, WithoutIs
  <2>2. QED
    BY <2>1
<1>3. ASSUME NEW y \in Written, NewDraft(y)
      PROVE  (d \in DOMAIN drafts /\ Holds(d, x)) \/ (d = made' /\ made' # made /\ y = x)
  BY <1>3, NewDraftIs
<1>4. ASSUME NEW c \in Slots, ServePatch(c)
      PROVE  d \in DOMAIN drafts /\ (Holds(d, x) \/ (calls[c].letter = x /\ d = calls[c].draft))
  BY <1>4 DEF ServePatch
<1>5. \/ drafts' = drafts
      \/ \E c \in Slots : SettleSend(c) \/ ServePost(c) \/ Restore(c) \/ ServePatch(c)
      \/ \E r \in DOMAIN rows : DispatchSettles(r)
      \/ \E e \in dropping : DropDraft(e)
  <2>1. CASE \E c \in Slots : Asks(c)
    BY <2>1, AsksLeave DEF tables
  <2>2. CASE \A c \in Slots : ~Asks(c)
    BY <2>2 DEF ComposerNext, Asks, OpenBlank, OpenDraft, Open, Type, Discard,
       SweepTempUploads, Clock,
         DropUpload, RemoveAttachment, Cancel, Dispatch, DispatchMisses, DispatchRejected,
         DispatchBreaks, PatchMisses, ServeUpload, ServeQueue, QueueTooLate, ServeSend, SendMisses,
         Claim, Fail, Break, LoseAnswer, SaveDone, UploadDone, SendDone, UndoDone,
         Refused, composerVars, tables
  <2>3. QED
    BY <2>1, <2>2
<1>6. CASE (\E c \in Slots : SettleSend(c)) \/ (\E r \in DOMAIN rows : DispatchSettles(r))
           \/ \E e \in dropping : DropDraft(e)
  BY <1>2, <1>6 DEF SettleSend, DispatchSettles, Settle, DropDraft
<1>7. CASE \E c \in Slots : ServePost(c)
  BY <1>3, <1>7, ServePostIs
<1>8. CASE \E c \in Slots : Restore(c)
  BY <1>3, <1>8, RestoreIs
<1>9. QED
  BY <1>1, <1>4, <1>5, <1>6, <1>7, <1>8

\* How the window comes to show a letter that was written before.
LEMMA ShowsNext ==
  ASSUME ComposerTypeOK, ComposerNext \/ UNCHANGED composerVars, NEW x \in Written, Shows(x)'
  PROVE  \/ Shows(x) /\ window'.n = window.n /\ window'.draft = window.draft
         \/ \E d \in DOMAIN drafts : OpenDraft(d) /\ drafts[d] = x /\ window'.draft = d /\ d # 0
         \/ \E c \in Slots : /\ SaveDone(c) /\ OfWindow(c) /\ Shows(x) /\ window'.n = window.n
                             /\ window'.draft = calls[c].draft
<1> USE DEF Shows
<1>0. WindowTyped /\ x # 0 /\ x # typed + 1
  BY TypeParts DEF Written, ComposerTypeOK
<1>1. CASE window' = window
  BY <1>1
<1>2. CASE Type
  BY <1>0, <1>2 DEF Type, WindowTyped
<1>3. CASE OpenBlank \/ \E c \in Slots : UndoDone(c)
  <2>1. window'.letter = 0
    BY <1>3 DEF OpenBlank, Open, UndoDone, Show
  <2>2. QED
    BY <1>0, <2>1
<1>4. ASSUME NEW d \in DOMAIN drafts, OpenDraft(d) PROVE drafts[d] = x /\ window'.draft = d /\ d # 0
  <2>1. window'.letter = drafts[d] /\ window'.draft = d
    BY <1>4 DEF OpenDraft, Open, Show
  <2>2. d # 0
    BY DEF ComposerTypeOK
  <2>3. QED
    BY <2>1, <2>2
<1>5. CASE Discard \/ \E c \in Slots : SendDone(c)
  <2>1. window' = Closed
    BY <1>5 DEF Discard, SendDone
  <2>2. QED
    BY <2>1, ClosedIs
<1>6. CASE (\E f \in Files : RemoveAttachment(f)) \/ \E c \in Slots : UploadDone(c)
  BY <1>0, <1>6 DEF RemoveAttachment, UploadDone, WindowTyped
<1>7. ASSUME NEW c \in Slots, SaveDone(c)
      PROVE  \/ Shows(x) /\ window'.n = window.n /\ window'.draft = window.draft
             \/ OfWindow(c) /\ Shows(x) /\ window'.n = window.n /\ window'.draft = calls[c].draft
  BY <1>0, <1>7 DEF SaveDone, WindowTyped
<1>8. CASE \E c \in Slots : Asks(c)
  BY <1>1, <1>8, AsksLeave DEF aside, page
<1>9. CASE \A c \in Slots : ~Asks(c)
  <2>1. window' = window \/ Type \/ OpenBlank \/ (\E d \in DOMAIN drafts : OpenDraft(d)) \/ Discard
          \/ (\E f \in Files : RemoveAttachment(f))
          \/ \E c \in Slots : UndoDone(c) \/ SendDone(c) \/ SaveDone(c) \/ UploadDone(c)
    BY <1>9 DEF ComposerNext, Asks, SweepTempUploads, Clock,
         DropDraft, DropUpload, ServePost, ServePatch, PatchMisses, ServeUpload, ServeQueue,
         QueueTooLate, ServeSend, SendMisses, SettleSend, Claim,
         Restore, Fail, Break, LoseAnswer,
         Refused, Cancel, Dispatch, DispatchMisses, DispatchRejected, DispatchSettles, DispatchBreaks,
         composerVars, aside, page
  <2>2. QED
    BY <1>1, <1>2, <1>3, <1>4, <1>5, <1>6, <1>7, <2>1
<1>10. QED
  BY <1>8, <1>9

\* How a letter comes to be mailed.
LEMMA MailedNext ==
  ASSUME ComposerTypeOK, ComposerNext \/ UNCHANGED composerVars, NEW x \in MailedLetters'
  PROVE  \/ x \in MailedLetters
         \/ \E c \in Slots : ServeSend(c) /\ calls[c].letter = x
         \/ \E r \in DOMAIN rows : Dispatch(r) /\ rows[r].letter = x
<1>1. ASSUME NEW y \in Written, NEW files \in SUBSET Files, GoesOut(y, files), pressed' = pressed, typed' = typed
      PROVE  x \in MailedLetters \/ x = y
  <2>1. PICK new : new = [letter |-> y, files |-> files \cap DOMAIN uploads]
    OBVIOUS
  <2>2. BagToSet(mailed') = BagToSet(mailed) \cup {new} /\ new.letter = y
    BY <1>1, <2>1, BagsGoOut
  <2>3. MailedLetters' = {m.letter : m \in BagToSet(mailed')}
    BY DEF MailedLetters
  <2>4. QED
    BY <2>2, <2>3 DEF MailedLetters
<1>2. ASSUME NEW c \in Slots, ServeSend(c) PROVE x \in MailedLetters \/ calls[c].letter = x
  <2>1. calls[c].letter \in Written /\ calls[c].files \in SUBSET Files
    BY <1>2, LetterOf DEF ServeSend, IsAt, Sending
  <2>2. GoesOut(calls[c].letter, calls[c].files) /\ pressed' = pressed /\ typed' = typed
    BY <1>2 DEF ServeSend
  <2>3. QED
    BY <1>1, <2>1, <2>2
<1>3. ASSUME NEW r \in DOMAIN rows, Dispatch(r) PROVE x \in MailedLetters \/ rows[r].letter = x
  <2>1. rows[r].letter \in Written /\ rows[r].files \in SUBSET Files
    BY RowTyped DEF Rows
  <2>2. GoesOut(rows[r].letter, rows[r].files) /\ pressed' = pressed /\ typed' = typed
    BY <1>3 DEF Dispatch
  <2>3. QED
    BY <1>1, <2>1, <2>2
<1>4. CASE (\A c \in Slots : ~ServeSend(c)) /\ \A r \in DOMAIN rows : ~Dispatch(r)
  <2>1. mailed' = mailed
    <3>1. CASE \E c \in Slots : Asks(c)
      BY <3>1, AsksLeave
    <3>2. CASE \A c \in Slots : ~Asks(c)
      BY <1>4, <3>2 DEF ComposerNext, Asks, OpenBlank, OpenDraft, Open, Type, Discard,
         SweepTempUploads, Clock,
         DropDraft, DropUpload, RemoveAttachment, Cancel, DispatchMisses, DispatchRejected, DispatchSettles,
         DispatchBreaks, ServePost, ServePatch, PatchMisses, ServeUpload, ServeQueue, QueueTooLate, SendMisses,
         SettleSend, Claim, Restore, Fail, Break, LoseAnswer, SaveDone, UploadDone, SendDone, UndoDone,
         Refused, composerVars, ghosts
    <3>3. QED
      BY <3>1, <3>2
  <2>2. QED
    BY <2>1 DEF MailedLetters
<1>5. QED
  BY <1>2, <1>3, <1>4

\* A step, and a letter whose draft its sends know before and after it.
DraftStep == ComposerTypeOK /\ LetterInv /\ DraftInv /\ (ComposerNext \/ UNCHANGED composerVars)
Free(x) == x \in Written /\ x \notin tangled'

LEMMA TangledStays ==
  ASSUME ComposerNext \/ UNCHANGED composerVars PROVE tangled \subseteq tangled'
<1>1. CASE \E c \in Slots : Asks(c)
  BY <1>1 DEF Asks, Save, SendNow, Hold, Schedule, Press, Attach, PressUndo
<1>2. CASE \A c \in Slots : ~Asks(c)
  BY <1>2 DEF ComposerNext, Asks, OpenBlank, OpenDraft, Open, Type, Discard, SweepTempUploads,
     Clock,
         DropDraft, DropUpload, RemoveAttachment, Cancel, Dispatch, DispatchMisses, DispatchRejected, DispatchSettles,
         DispatchBreaks, ServePost, ServePatch, PatchMisses, ServeUpload, ServeQueue, QueueTooLate, ServeSend, SendMisses,
         SettleSend, Claim, Restore, Fail, Break, LoseAnswer, SaveDone, UploadDone, SendDone, UndoDone,
         Refused, composerVars, ghosts
<1>3. QED
  BY <1>1, <1>2

LEMMA FreeIs ==
  ASSUME DraftStep, NEW x, Free(x)
  PROVE  /\ ComposerTypeOK /\ LetterInv /\ (ComposerNext \/ UNCHANGED composerVars) /\ SavesOfWindow
         /\ x \in Written /\ OwnCalls(x)
         /\ OneDraft(x) /\ Blind(x) /\ Sighted(x) /\ FirstSave(x) /\ MailCovers(x)
         /\ AnswerComes(x) /\ SaveComes(x) /\ NotBoth(x) /\ OneSender(x)
BY TangledStays DEF DraftStep, Free, DraftInv, DraftsOf

\* What an untangled press and an untangled save tell of the rest.
LEMMA PressIs ==
  ASSUME ComposerTypeOK, NEW c \in Slots, Pressing(c)
  PROVE  /\ Shows(window.letter) /\ window.letter # 0 /\ window.letter \in Written
         /\ calls[c] = NoCall /\ calls'[c].kind \in Sending /\ calls'[c].step = "asked"
         /\ \A b \in Slots \ {c} : calls'[b] = calls[b]
         /\ UNCHANGED <<window, made, rows, drafts, mailed>>
         /\ window.letter \notin tangled' =>
              /\ window.draft = 0 => \A b \in Slots : ~(calls[b].kind = "save" /\ OfWindow(b))
              /\ \A b \in Slots : ~(calls[b].kind \in Sending \cup {"undo"} /\ calls[b].letter = window.letter)
              /\ \A r \in DOMAIN rows : ~InQueue(rows[r], window.letter)
<1>1. PICK kind \in Sending, due \in Nat : Press(c, AskedFor(kind, {}, window.files, due))
  BY DEF Pressing
<1>2. /\ window.open /\ window.letter # 0 /\ Ask(c, AskedFor(kind, {}, window.files, due))
      /\ UNCHANGED <<aside, tables, mailed>>
      /\ tangled' = IF (window.draft = 0 /\ ShownOn({"save"}) # {}) \/ OnItsWay(window.letter)
                    THEN tangled \cup {window.letter} ELSE tangled
  BY <1>1 DEF Press
<1>3. AskedFor(kind, {}, window.files, due).kind \in Sending /\ AskedFor(kind, {}, window.files, due).step = "asked"
  BY DEF AskedFor
<1>4. /\ calls[c] = NoCall /\ calls'[c].kind \in Sending /\ calls'[c].step = "asked"
      /\ \A b \in Slots \ {c} : calls'[b] = calls[b]
  BY <1>2, <1>3, AskedIs
<1>5. UNCHANGED <<window, made, rows, drafts, mailed>>
  BY <1>2 DEF aside, page, tables
<1>6. ASSUME window.letter \notin tangled'
      PROVE  ~(window.draft = 0 /\ ShownOn({"save"}) # {}) /\ ~OnItsWay(window.letter)
  BY <1>2, <1>6
<1>7. ASSUME window.letter \notin tangled', window.draft = 0, NEW b \in Slots
      PROVE  ~(calls[b].kind = "save" /\ OfWindow(b))
  BY <1>6, <1>7 DEF ShownOn, UnderWay
<1>8. ASSUME window.letter \notin tangled'
      PROVE  /\ \A b \in Slots : ~(calls[b].kind \in Sending \cup {"undo"} /\ calls[b].letter = window.letter)
             /\ \A r \in DOMAIN rows : ~InQueue(rows[r], window.letter)
  BY <1>6, <1>8 DEF OnItsWay, UnderWay, InQueue
<1>9. window.letter \in Written /\ Shows(window.letter)
  BY <1>2, WindowLetter DEF Shows
<1>10. QED
  BY <1>2, <1>4, <1>5, <1>7, <1>8, <1>9

LEMMA SaveIs ==
  ASSUME ComposerTypeOK, NEW c \in Slots, Save(c)
  PROVE  /\ Shows(window.letter) /\ window.letter # 0 /\ window.letter \in Written
         /\ calls[c] = NoCall /\ calls'[c].kind = "save" /\ calls'[c].step = "asked"
         /\ calls'[c].letter = window.letter /\ calls'[c].draft = window.draft
         /\ \A b \in Slots \ {c} : calls'[b] = calls[b]
         /\ UNCHANGED <<window, made, rows, drafts, mailed>>
         /\ \A b \in Slots : ~(calls[b].kind = "save" /\ OfWindow(b))
         /\ window.letter \notin tangled' /\ window.draft = 0 =>
              \A b \in Slots : ~(calls[b].kind \in Sending /\ OfWindow(b))
<1>1. /\ window.open /\ window.letter # 0 /\ Ask(c, AskedFor("save", window.seen, {}, 0))
      /\ ShownOn({"save"}) = {} /\ UNCHANGED <<aside, tables, mailed>>
      /\ tangled' = IF window.draft = 0 /\ ShownOn(Sending) # {}
                    THEN tangled \cup {window.letter} ELSE tangled
  BY CallsOfTheWindow DEF Save
<1>2. AskedFor("save", window.seen, {}, 0) =
        [kind |-> "save", step |-> "asked", n |-> window.n, seen |-> window.seen, letter |-> window.letter,
         draft |-> window.draft, files |-> {}, due |-> 0, row |-> 0]
  BY DEF AskedFor
<1>3. /\ calls[c] = NoCall /\ calls'[c].kind = "save" /\ calls'[c].step = "asked"
      /\ calls'[c].letter = window.letter /\ calls'[c].draft = window.draft
      /\ \A b \in Slots \ {c} : calls'[b] = calls[b]
  BY <1>1, <1>2, AskedIs
<1>4. UNCHANGED <<window, made, rows, drafts, mailed>>
  BY <1>1 DEF aside, page, tables
<1>5. \A b \in Slots : ~(calls[b].kind = "save" /\ OfWindow(b))
  BY <1>1 DEF ShownOn, UnderWay
<1>6. window.letter \notin tangled' /\ window.draft = 0 =>
         \A b \in Slots : ~(calls[b].kind \in Sending /\ OfWindow(b))
  BY <1>1 DEF ShownOn, UnderWay
<1>7. window.letter \in Written /\ Shows(window.letter)
  BY <1>1, WindowLetter DEF Shows
<1>8. QED
  BY <1>1, <1>3, <1>4, <1>5, <1>6, <1>7

\* The author makes one request at a time.
LEMMA OneAsk ==
  ASSUME ComposerTypeOK, NEW b \in Slots, NEW c \in Slots, Pressing(b) \/ Save(b), Pressing(c) \/ Save(c)
  PROVE  b = c /\ ~(Pressing(b) /\ Save(c))
<1>1. NoCall.kind = "none"
  BY DEF NoCall
<1>2. calls[b] = NoCall /\ calls'[b].kind # "none" /\ \A a \in Slots \ {b} : calls'[a] = calls[a]
  BY PressIs, SaveIs DEF Sending, Queueing
<1>3. calls[c] = NoCall /\ calls'[c].kind # "none"
  BY PressIs, SaveIs DEF Sending, Queueing
<1>4. b = c
  BY <1>1, <1>2, <1>3
<1>5. ~(Pressing(b) /\ Save(c))
  BY <1>4, PressIs, SaveIs DEF Sending, Queueing
<1>6. QED
  BY <1>4, <1>5

-----------------------------------------------------------------------------
\* How a send, a save and a window come to know a draft.
LEMMA SentNext ==
  ASSUME DraftStep, NEW x, Free(x), NEW d, SentAs(x, d)'
  PROVE  SentAs(x, d) \/ \E c \in Slots : Pressing(c) /\ window.letter = x /\ ShownAs(x, d)
<1>0. ComposerTypeOK /\ (ComposerNext \/ UNCHANGED composerVars)
  BY FreeIs
<1>1. ASSUME NEW c \in Slots, Leaving(calls'[c], x), calls'[c].draft = d
      PROVE  SentAs(x, d) \/ (Pressing(c) /\ window.letter = x /\ ShownAs(x, d))
  <2>1. \/ Leaving(calls[c], x) /\ calls[c].draft = d
        \/ Pressing(c) /\ window.letter = x /\ window.draft = d
    BY <1>0, <1>1, LeavingNext
  <2>2. QED
    BY <1>0, <2>1, PressIs DEF SentAs, ShownAs
<1>2. ASSUME NEW r \in DOMAIN rows', Standing(rows'[r], x), rows'[r].draft = d PROVE SentAs(x, d)
  <2>1. CASE /\ r \in DOMAIN rows
             /\ rows'[r].letter = rows[r].letter /\ rows'[r].draft = rows[r].draft
             /\ rows'[r].status = "pending" => rows[r].status = "pending"
             /\ rows'[r].out => rows[r].out \/ (Dispatch(r) /\ rows[r].status = "pending")
    <3>1. Standing(rows[r], x) /\ rows[r].draft = d
      BY <1>2, <2>1 DEF Standing
    <3>2. QED
      BY <2>1, <3>1 DEF SentAs
  <2>2. ASSUME NEW c \in Slots, calls[c].kind \in Sending /\ calls[c].step = "asked",
               rows'[r].letter = calls[c].letter /\ rows'[r].draft = calls[c].draft
        PROVE  SentAs(x, d)
    BY <1>2, <2>2 DEF SentAs, Leaving, Standing
  <2>3. QED
    BY <1>0, <2>1, <2>2, StandingNext
<1>3. QED
  BY <1>1, <1>2 DEF SentAs

LEMMA SavedNext ==
  ASSUME DraftStep, NEW x, Free(x), NEW d, SavedAs(x, d)'
  PROVE  \/ SavedAs(x, d) \/ ShownAs(x, d)
         \/ \E c \in Slots : ServePost(c) /\ calls[c].letter = x /\ d = made'
<1>0. ComposerTypeOK /\ (ComposerNext \/ UNCHANGED composerVars)
  BY FreeIs
<1>1. PICK c \in Slots : Filing(calls'[c], x) /\ calls'[c].draft = d
  BY DEF SavedAs
<1>2. \/ Filing(calls[c], x) /\ calls'[c].draft = calls[c].draft
      \/ Save(c) /\ window.letter = x /\ calls'[c].draft = window.draft
      \/ ServePost(c) /\ calls[c].letter = x /\ calls'[c].draft = made'
  BY <1>0, <1>1, FilingNext
<1>3. QED
  BY <1>0, <1>1, <1>2, SaveIs DEF SavedAs, ShownAs

\* A letter without draft, request or mail.
Unknown(x) ==
  /\ \A d \in 1 .. MaxDrafts : ~IdOf(x, d)
  /\ ~SentAs(x, 0) /\ x \notin MailedLetters
Unsaved(x) == Unknown(x) /\ \A b \in Slots : ~Filing(calls[b], x)

LEMMA Ids == ComposerTypeOK => made \in Nat /\ MaxDrafts \in Nat /\ made <= MaxDrafts
BY Bounds DEF ComposerTypeOK

LEMMA IdsBounded ==
  ASSUME ComposerTypeOK, NEW x, NEW d, IdOf(x, d) PROVE d \in 1 .. made /\ d \in 1 .. MaxDrafts
<1>1. ASSUME NEW c \in Slots, calls[c].draft = d PROVE d \in 0 .. made
  BY <1>1 DEF ComposerTypeOK, Calls
<1>2. ASSUME NEW r \in DOMAIN rows, rows[r].draft = d PROVE d \in 0 .. made
  BY <1>2, RowTyped DEF Rows
<1>3. window.draft \in 0 .. made
  BY DEF ComposerTypeOK
<1>4. ASSUME Holds(d, x) PROVE d \in 0 .. made
  BY <1>4 DEF ComposerTypeOK, Holds
<1>5. d \in 0 .. made /\ d # 0
  BY <1>1, <1>2, <1>3, <1>4 DEF IdOf, SavedAs, SentAs, ShownAs
<1>6. QED
  BY <1>5, Ids

\* A first save and an undo make the only draft of a letter,
LEMMA PostIsFirst ==
  ASSUME DraftStep, NEW x, Free(x), NEW c \in Slots, ServePost(c), calls[c].letter = x
  PROVE  Unknown(x) /\ \A b \in Slots \ {c} : ~Filing(calls[b], x)
<1>1. Filing(calls[c], x) /\ calls[c].draft = 0
  BY FreeIs, ServePostIs DEF Filing
<1>2. QED
  BY <1>1, FreeIs DEF FirstSave, Unknown

LEMMA RestoreIsOnly ==
  ASSUME DraftStep, NEW x, Free(x), NEW c \in Slots, Restore(c), calls[c].letter = x
  PROVE  Unsaved(x) /\ ~Shows(x)
<1>0. ComposerTypeOK /\ LetterInv /\ OneSender(x) /\ MailsKnown
  BY FreeIs DEF LetterInv
<1>1. /\ x \notin Range(drafts) \cup MailedLetters \cup {window.letter}
      /\ \A b \in Slots : ~(calls[b].kind = "save" /\ calls[b].letter = x)
      /\ calls[c].kind = "undo" /\ calls[c].step = "claimed"
  BY <1>0, RestoreIs DEF Free
<1>2. (\A b \in Slots : ~Waiting(calls[b], x)) /\ \A r \in DOMAIN rows : ~InQueue(rows[r], x)
  BY <1>0, <1>1 DEF OneSender
<1>3. ASSUME NEW d PROVE ~SentAs(x, d)
  <2>1. \A b \in Slots : ~Leaving(calls[b], x)
    BY <1>0, <1>1, <1>2 DEF Leaving, Waiting, MailsKnown
  <2>2. \A r \in DOMAIN rows : ~Standing(rows[r], x)
    BY <1>0, <1>1, <1>2 DEF Standing, InQueue, MailsKnown
  <2>3. QED
    BY <2>1, <2>2 DEF SentAs
<1>4. (\A b \in Slots : ~Filing(calls[b], x)) /\ \A d : ~SavedAs(x, d)
  BY <1>1 DEF Filing, SavedAs
<1>5. ~Shows(x) /\ \A d : ~ShownAs(x, d)
  BY <1>1 DEF Shows, ShownAs
<1>6. \A d : ~Holds(d, x)
  BY <1>1 DEF Holds, Range
<1>7. QED
  BY <1>1, <1>3, <1>4, <1>5, <1>6 DEF Unsaved, Unknown, IdOf

\* What a window that knows no draft of its letter tells of the letter, when nobody saves it
LEMMA BlankUnsaved ==
  ASSUME DraftStep, NEW x, Free(x), ShownAs(x, 0),
         \A b \in Slots : ~(calls[b].kind = "save" /\ calls[b].letter = x /\ OfWindow(b))
  PROVE  (\A d \in 1 .. MaxDrafts : ~IdOf(x, d)) /\ \A b \in Slots : ~Filing(calls[b], x)
<1>0. ComposerTypeOK /\ OwnCalls(x) /\ SaveComes(x) /\ Sighted(x)
  BY FreeIs
<1>1. \A b \in Slots : ~(calls[b].kind = "save" /\ calls[b].letter = x)
  BY <1>0 DEF OwnCalls
<1>2. (\A b \in Slots : ~Filing(calls[b], x)) /\ \A d : ~SavedAs(x, d)
  BY <1>1 DEF Filing, SavedAs
<1>3. \A d : ~Holds(d, x)
  BY <1>0, <1>1 DEF SaveComes, Holds
<1>4. \A d \in 1 .. MaxDrafts : ~SentAs(x, d)
  BY <1>0 DEF Sighted
<1>5. \A d : ShownAs(x, d) => d = 0
  BY DEF ShownAs
<1>6. QED
  BY <1>2, <1>3, <1>4, <1>5 DEF IdOf

\* or sends it.
LEMMA BlankUnsent ==
  ASSUME DraftStep, NEW x, Free(x), ShownAs(x, 0),
         \A b \in Slots : ~(calls[b].kind \in Sending /\ calls[b].letter = x /\ OfWindow(b))
  PROVE  ~SentAs(x, 0) /\ x \notin MailedLetters
<1>0. ComposerTypeOK /\ OwnCalls(x) /\ AnswerComes(x)
  BY FreeIs
<1>1. \A b \in Slots : ~(calls[b].kind \in Sending /\ calls[b].letter = x)
  BY <1>0 DEF OwnCalls
<1>2. x \notin MailedLetters /\ \A r \in DOMAIN rows : ~Standing(rows[r], x)
  BY <1>0, <1>1 DEF AnswerComes
<1>3. \A b \in Slots : ~Leaving(calls[b], x)
  BY <1>1 DEF Leaving
<1>4. QED
  BY <1>2, <1>3 DEF SentAs

LEMMA SaveIsFirst ==
  ASSUME DraftStep, NEW x, Free(x), NEW c \in Slots, Save(c), window.letter = x, window.draft = 0
  PROVE  Unsaved(x)
<1>0. ComposerTypeOK
  BY FreeIs
<1>1. /\ ShownAs(x, 0)
      /\ \A b \in Slots : ~(calls[b].kind = "save" /\ OfWindow(b))
      /\ \A b \in Slots : ~(calls[b].kind \in Sending /\ OfWindow(b))
  BY <1>0, SaveIs DEF Free, ShownAs
<1>2. (\A d \in 1 .. MaxDrafts : ~IdOf(x, d)) /\ \A b \in Slots : ~Filing(calls[b], x)
  BY <1>1, BlankUnsaved
<1>3. ~SentAs(x, 0) /\ x \notin MailedLetters
  BY <1>1, BlankUnsent
<1>4. QED
  BY <1>2, <1>3 DEF Unsaved, Unknown

LEMMA PressIsBlank ==
  ASSUME DraftStep, NEW x, Free(x), NEW c \in Slots, Pressing(c), window.letter = x, window.draft = 0
  PROVE  (\A d \in 1 .. MaxDrafts : ~IdOf(x, d)) /\ \A b \in Slots : ~Filing(calls[b], x)
<1>0. ComposerTypeOK
  BY FreeIs
<1>1. ShownAs(x, 0) /\ \A b \in Slots : ~(calls[b].kind = "save" /\ OfWindow(b))
  BY <1>0, PressIs DEF Free, ShownAs
<1>2. QED
  BY <1>1, BlankUnsaved

Found(x, d) == Holds(d, x) \/ SavedAs(x, d) \/ ShownAs(x, d)

\* The answer to a save names the draft of the letter shown, or the letter was typed since.
LEMMA SaveDoneIs ==
  ASSUME DraftStep, NEW x, Free(x), NEW c \in Slots, SaveDone(c), OfWindow(c), Shows(x),
         ~Found(x, calls[c].draft)
  PROVE  Unsaved(x) /\ ShownAs(x, 0)
<1>0. ComposerTypeOK /\ OwnCalls(x) /\ AnswerComes(x) /\ SaveComes(x) /\ NotBoth(x) /\ Sighted(x) /\ SavesOfWindow
  BY FreeIs
<1>1. calls[c].kind = "save" /\ calls[c].step = "ok" /\ c \in ShownOn({"save"})
  BY DEF SaveDone, IsAt, ShownOn, UnderWay
<1>2. calls[c].draft # 0
  BY <1>0, <1>1 DEF SavesOfWindow
<1>3. window.draft = 0
  BY <1>0, <1>1, <1>2 DEF SavesOfWindow, Found, ShownAs
<1>4. calls[c].letter # x
  BY <1>1 DEF Found, SavedAs, Filing
<1>5. ShownAs(x, 0)
  BY <1>3 DEF ShownAs
<1>6. \A b \in Slots : ~(calls[b].kind = "save" /\ calls[b].letter = x /\ OfWindow(b))
  BY <1>0, <1>1, <1>4 DEF SavesOfWindow, ShownOn, UnderWay
<1>7. \A b \in Slots : ~(calls[b].kind \in Sending /\ calls[b].letter = x)
  BY <1>0, <1>1, <1>5 DEF NotBoth
<1>8. (\A d \in 1 .. MaxDrafts : ~IdOf(x, d)) /\ \A b \in Slots : ~Filing(calls[b], x)
  BY <1>5, <1>6, BlankUnsaved
<1>9. ~SentAs(x, 0) /\ x \notin MailedLetters
  BY <1>5, <1>7, BlankUnsent
<1>10. QED
  BY <1>5, <1>8, <1>9 DEF Unsaved, Unknown

-----------------------------------------------------------------------------
\* Where a draft of a letter comes from.
NewFound(x, d) ==
  \/ /\ d = made' /\ made' # made /\ window' = window
     /\ \/ \E c \in Slots : ServePost(c) /\ calls[c].letter = x
        \/ Unsaved(x) /\ ~Shows(x)
  \/ /\ d = window'.draft /\ d # 0 /\ made' = made /\ Unsaved(x) /\ ShownAs(x, 0)
     /\ \E c \in Slots : SaveDone(c) /\ OfWindow(c)

LEMMA NewIsUnknown ==
  ASSUME DraftStep, NEW x, Free(x), NEW d, NewFound(x, d) PROVE Unknown(x)
BY PostIsFirst DEF NewFound, Unsaved

LEMMA FoundNext ==
  ASSUME DraftStep, NEW x, Free(x), NEW d, d # 0, Found(x, d)' PROVE Found(x, d) \/ NewFound(x, d)
<1>0. ComposerTypeOK /\ LetterInv /\ (ComposerNext \/ UNCHANGED composerVars) /\ x \in Written
  BY FreeIs
<1>1. ASSUME NEW c \in Slots, ServePost(c), calls[c].letter = x, d = made' PROVE NewFound(x, d)
  <2>1. NewDraft(calls[c].letter) /\ calls[c].letter \in Written
    BY <1>0, <1>1, ServePostIs
  <2>2. made' # made
    BY <1>0, <2>1, NewDraftIs
  <2>3. window' = window
    BY <1>1 DEF ServePost, aside, page
  <2>4. QED
    BY <1>1, <2>2, <2>3 DEF NewFound
<1>2. ASSUME NEW c \in Slots, Restore(c), calls[c].letter = x, d = made' PROVE NewFound(x, d)
  <2>1. NewDraft(calls[c].letter) /\ calls[c].letter \in Written /\ window' = window
    BY <1>0, <1>2, RestoreIs
  <2>2. made' # made
    BY <1>0, <2>1, NewDraftIs
  <2>3. Unsaved(x) /\ ~Shows(x)
    BY <1>2, RestoreIsOnly
  <2>4. QED
    BY <1>2, <2>1, <2>2, <2>3 DEF NewFound
<1>3. CASE Holds(d, x)'
  <2>1. ASSUME NEW c \in Slots, ServePatch(c), calls[c].letter = x, d = calls[c].draft PROVE Found(x, d)
    BY <2>1 DEF ServePatch, IsAt, Found, SavedAs, Filing
  <2>2. \/ Holds(d, x)
        \/ \E c \in Slots : ServePost(c) /\ calls[c].letter = x /\ d = made'
        \/ \E c \in Slots : ServePatch(c) /\ calls[c].letter = x /\ d = calls[c].draft
        \/ \E c \in Slots : Restore(c) /\ calls[c].letter = x /\ d = made'
    BY <1>0, <1>3, HoldsNext
  <2>3. QED
    BY <1>1, <1>2, <2>1, <2>2 DEF Found
<1>4. CASE SavedAs(x, d)'
  BY <1>1, <1>4, SavedNext DEF Found
<1>5. CASE ShownAs(x, d)'
  <2>1. Shows(x)' /\ window'.draft = d
    BY <1>5 DEF ShownAs
  <2>2. CASE Shows(x) /\ window'.draft = window.draft
    BY <2>1, <2>2 DEF Found, ShownAs
  <2>3. ASSUME NEW e \in DOMAIN drafts, drafts[e] = x, window'.draft = e PROVE Found(x, d)
    BY <2>1, <2>3 DEF Found, Holds
  <2>4. ASSUME NEW c \in Slots, SaveDone(c), OfWindow(c), Shows(x), window'.draft = calls[c].draft
        PROVE  Found(x, d) \/ NewFound(x, d)
    <3>1. made' = made
      BY <2>4 DEF SaveDone, tables
    <3>2. QED
      BY <2>1, <2>4, <3>1, SaveDoneIs DEF NewFound
  <2>5. QED
    BY <1>0, <2>1, <2>2, <2>3, <2>4, ShowsNext
<1>6. QED
  BY <1>3, <1>4, <1>5 DEF Found

LEMMA IdNext ==
  ASSUME DraftStep, NEW x, Free(x), NEW d, IdOf(x, d)' PROVE IdOf(x, d) \/ NewFound(x, d)
<1>1. d # 0 /\ (Found(x, d)' \/ SentAs(x, d)')
  BY DEF IdOf, Found
<1>2. CASE Found(x, d)'
  BY <1>1, <1>2, FoundNext DEF IdOf, Found
<1>3. CASE SentAs(x, d)'
  BY <1>1, <1>3, SentNext DEF IdOf
<1>4. QED
  BY <1>1, <1>2, <1>3

LEMMA ShownBlank ==
  ASSUME DraftStep, NEW x, Free(x), ShownAs(x, 0)' PROVE ShownAs(x, 0) /\ window'.n = window.n /\ window'.open
<1>0. ComposerTypeOK /\ (ComposerNext \/ UNCHANGED composerVars) /\ x \in Written /\ SavesOfWindow
  BY FreeIs
<1>1. Shows(x)' /\ window'.draft = 0 /\ window'.open
  BY DEF ShownAs, Shows
<1>2. ASSUME NEW c \in Slots, SaveDone(c) PROVE calls[c].draft # 0
  BY <1>0, <1>2 DEF SaveDone, IsAt, SavesOfWindow
<1>3. QED
  BY <1>0, <1>1, <1>2, ShowsNext DEF ShownAs

-----------------------------------------------------------------------------
LEMMA OneDraftNext == ASSUME DraftStep, NEW x, Free(x) PROVE OneDraft(x)'
<1> SUFFICES ASSUME NEW d \in 1 .. MaxDrafts, NEW e \in 1 .. MaxDrafts, IdOf(x, d)', IdOf(x, e)'
             PROVE  d = e
  BY DEF OneDraft
<1>0. ComposerTypeOK /\ OneDraft(x)
  BY FreeIs
<1>1. CASE IdOf(x, d) /\ IdOf(x, e)
  BY <1>0, <1>1 DEF OneDraft
<1>2. CASE NewFound(x, d) \/ NewFound(x, e)
  <2>1. \A f \in 1 .. MaxDrafts : ~IdOf(x, f)
    BY <1>2, NewIsUnknown DEF Unknown
  <2>2. NewFound(x, d) /\ NewFound(x, e)
    BY <2>1, IdNext
  <2>3. QED
    BY <2>2 DEF NewFound
<1>3. QED
  BY <1>1, <1>2, IdNext

LEMMA BlindNext == ASSUME DraftStep, NEW x, Free(x) PROVE Blind(x)'
<1>0. ComposerTypeOK /\ (ComposerNext \/ UNCHANGED composerVars) /\ Blind(x)
  BY FreeIs
<1>1. CASE SentAs(x, 0)
  <2>1. (\A d \in 1 .. MaxDrafts : ~IdOf(x, d)) /\ \A b \in Slots : ~Filing(calls[b], x)
    BY <1>0, <1>1 DEF Blind
  <2>2. \A d \in 1 .. MaxDrafts : ~IdOf(x, d)'
    BY <1>1, <2>1, IdNext, NewIsUnknown DEF Unknown
  <2>3. ASSUME NEW c \in Slots, Filing(calls'[c], x) PROVE FALSE
    <3>1. CASE Save(c) /\ window.letter = x
      <4>1. CASE window.draft = 0
        BY <1>1, <3>1, <4>1, SaveIsFirst DEF Unsaved, Unknown
      <4>2. CASE window.draft # 0
        <5>1. PICK e : e = window.draft
          OBVIOUS
        <5>2. IdOf(x, e)
          BY <1>0, <3>1, <4>2, <5>1, SaveIs DEF IdOf, ShownAs
        <5>3. QED
          BY <1>0, <2>1, <5>2, IdsBounded
      <4>3. QED
        BY <4>1, <4>2
    <3>2. CASE ServePost(c) /\ calls[c].letter = x
      BY <1>1, <3>2, PostIsFirst DEF Unknown
    <3>3. QED
      BY <1>0, <2>1, <2>3, <3>1, <3>2, FilingNext
  <2>4. QED
    BY <2>2, <2>3 DEF Blind
<1>2. ASSUME NEW c \in Slots, Pressing(c), window.letter = x, ShownAs(x, 0) PROVE Blind(x)'
  <2>1. (\A d \in 1 .. MaxDrafts : ~IdOf(x, d)) /\ \A b \in Slots : ~Filing(calls[b], x)
    BY <1>2, PressIsBlank DEF ShownAs
  <2>2. window' = window /\ made' = made
    BY <1>0, <1>2, PressIs
  <2>3. \A d \in 1 .. MaxDrafts : ~IdOf(x, d)'
    BY <1>2, <2>1, <2>2, IdNext DEF NewFound, ShownAs
  <2>4. ASSUME NEW b \in Slots, Filing(calls'[b], x) PROVE FALSE
    <3>1. CASE Save(b)
      BY <1>0, <1>2, <3>1, OneAsk
    <3>2. CASE ServePost(b)
      <4>1. made' # made
        BY <1>0, <3>2, ServePostIs, NewDraftIs
      <4>2. QED
        BY <2>2, <4>1
    <3>3. QED
      BY <1>0, <2>1, <2>4, <3>1, <3>2, FilingNext
  <2>5. QED
    BY <2>3, <2>4 DEF Blind
<1>3. CASE ~SentAs(x, 0)'
  BY <1>3 DEF Blind
<1>4. QED
  BY <1>1, <1>2, <1>3, SentNext

LEMMA SightedNext == ASSUME DraftStep, NEW x, Free(x) PROVE Sighted(x)'
<1> SUFFICES ASSUME ShownAs(x, 0)', NEW d \in 1 .. MaxDrafts, SentAs(x, d)' PROVE FALSE
  BY DEF Sighted
<1>1. ShownAs(x, 0) /\ Sighted(x)
  BY ShownBlank, FreeIs
<1>2. ~SentAs(x, d) /\ ~ShownAs(x, d)
  BY <1>1 DEF Sighted, ShownAs
<1>3. QED
  BY <1>2, SentNext

LEMMA MadeGrows ==
  ASSUME ComposerTypeOK, ComposerNext \/ UNCHANGED composerVars
  PROVE  made \in Nat /\ made' \in Nat /\ made <= made'
<1>0. made \in Nat
  BY DEF ComposerTypeOK
<1>1. made' = made \/ made' = made + 1
  <2>1. CASE \E c \in Slots : Asks(c)
    BY <2>1, AsksLeave DEF tables
  <2>2. CASE \A c \in Slots : ~Asks(c)
    BY <2>2 DEF ComposerNext, Asks, OpenBlank, OpenDraft, Open, Type, Discard,
       SweepTempUploads, Clock,
         DropDraft, DropUpload, RemoveAttachment, Cancel, Dispatch, DispatchMisses, DispatchRejected, DispatchSettles,
         DispatchBreaks, ServePost, ServePatch, PatchMisses, ServeUpload, ServeQueue, QueueTooLate, ServeSend, SendMisses,
         SettleSend, Claim, Restore, Fail, Break, LoseAnswer, SaveDone, UploadDone, SendDone, UndoDone,
         Refused, composerVars, tables, NewDraft
  <2>3. QED
    BY <2>1, <2>2
<1>2. QED
  BY <1>0, <1>1

LEMMA NewlyMailed ==
  ASSUME DraftStep, NEW x, Free(x), x \in MailedLetters', x \notin MailedLetters
  PROVE  \E d : SentAs(x, d) /\ CoveredBy(x, d)'
<1>0. ComposerTypeOK /\ (ComposerNext \/ UNCHANGED composerVars)
  BY FreeIs
<1>1. ASSUME NEW c \in Slots, ServeSend(c), calls[c].letter = x PROVE \E d : SentAs(x, d) /\ CoveredBy(x, d)'
  <2>1. PICK d : d = calls[c].draft
    OBVIOUS
  <2>2. calls[c].kind = "send" /\ calls[c].step = "asked" /\ Answered(c, "mailed")
    BY <1>1 DEF ServeSend, IsAt
  <2>3. /\ calls'[c].kind = "send" /\ calls'[c].step = "mailed" /\ calls'[c].letter = x /\ calls'[c].draft = d
    BY <1>0, <1>1, <2>1, <2>2, AnsweredIs
  <2>4. SentAs(x, d)
    BY <1>1, <2>1, <2>2 DEF SentAs, Leaving, Sending
  <2>5. CoveredBy(x, d)'
    BY <2>3 DEF CoveredBy
  <2>6. QED
    BY <2>4, <2>5
<1>2. ASSUME NEW r \in DOMAIN rows, Dispatch(r), rows[r].letter = x PROVE \E d : SentAs(x, d) /\ CoveredBy(x, d)'
  <2>1. PICK d : d = rows[r].draft
    OBVIOUS
  <2>2. rows[r].status = "pending" /\ RowsBecome(r, rows[r].status, TRUE)
    BY <1>0, <1>2, RowSteps DEF Dispatch, IsDue
  <2>3. r \in DOMAIN rows' /\ rows'[r].out /\ rows'[r].letter = x /\ rows'[r].draft = d
    BY <1>2, <2>1, <2>2 DEF RowsBecome
  <2>4. SentAs(x, d)
    BY <1>2, <2>1, <2>2 DEF SentAs, Standing
  <2>5. CoveredBy(x, d)'
    BY <2>3 DEF CoveredBy
  <2>6. QED
    BY <2>4, <2>5
<1>3. QED
  BY <1>0, <1>1, <1>2, MailedNext

LEMMA FirstSaveNext == ASSUME DraftStep, NEW x, Free(x) PROVE FirstSave(x)'
<1> SUFFICES ASSUME NEW c \in Slots, Filing(calls'[c], x), calls'[c].draft = 0
             PROVE  /\ \A d \in 1 .. MaxDrafts : ~IdOf(x, d)'
                    /\ ~SentAs(x, 0)' /\ x \notin MailedLetters'
                    /\ \A b \in Slots \ {c} : ~Filing(calls'[b], x)
  BY DEF FirstSave
<1>0. ComposerTypeOK /\ (ComposerNext \/ UNCHANGED composerVars) /\ FirstSave(x) /\ OwnCalls(x) /\ SavesOfWindow
  BY FreeIs
<1>1. ~ServePost(c)
  <2>1. ASSUME ServePost(c) PROVE FALSE
    <3>1. calls'[c].draft = made' /\ made' # 0
      BY <1>0, <2>1, ServePostIs, NewDraftIs
    <3>2. QED
      BY <3>1
  <2>2. QED
    BY <2>1
<1>2. \/ Filing(calls[c], x) /\ calls[c].draft = 0
      \/ Save(c) /\ window.letter = x /\ window.draft = 0
  BY <1>0, <1>1, FilingNext
<1>3. Unknown(x) /\ \A b \in Slots \ {c} : ~Filing(calls[b], x)
  BY <1>0, <1>2, SaveIsFirst DEF FirstSave, Unsaved, Unknown
<1>4. ASSUME NEW b \in Slots, ServePost(b), calls[b].letter = x PROVE FALSE
  <2>1. Filing(calls[b], x)
    BY <1>0, <1>4, ServePostIs DEF Filing
  <2>2. b = c
    BY <1>3, <2>1
  <2>3. QED
    BY <1>1, <1>4, <2>2
<1>5. ASSUME NEW d \in 1 .. MaxDrafts, IdOf(x, d)' PROVE FALSE
  <2>1. NewFound(x, d)
    BY <1>3, <1>5, IdNext DEF Unknown
  <2>2. Unsaved(x) /\ (window' # window \/ ~Shows(x))
    BY <1>4, <2>1 DEF NewFound, ShownAs
  <2>3. QED
    BY <1>0, <1>2, <2>2, SaveIs DEF Unsaved
<1>6. ~SentAs(x, 0)'
  <2>1. ASSUME NEW b \in Slots, Pressing(b), window.letter = x, ShownAs(x, 0) PROVE FALSE
    <3>1. ~Save(c)
      BY <1>0, <2>1, OneAsk
    <3>2. ~Filing(calls[c], x)
      BY <2>1, PressIsBlank DEF ShownAs
    <3>3. QED
      BY <1>2, <3>1, <3>2
  <2>2. QED
    BY <1>3, <2>1, SentNext DEF Unknown
<1>7. x \notin MailedLetters'
  <2>1. ASSUME NEW d, SentAs(x, d) PROVE FALSE
    <3>1. CASE d = 0
      BY <1>3, <2>1, <3>1 DEF Unknown
    <3>2. CASE d # 0
      BY <1>0, <1>3, <2>1, <3>2, IdsBounded DEF Unknown, IdOf
    <3>3. QED
      BY <3>1, <3>2
  <2>2. QED
    BY <1>3, <2>1, NewlyMailed DEF Unknown
<1>8. ASSUME NEW b \in Slots \ {c}, Filing(calls'[b], x) PROVE FALSE
  <2>1. Save(b) /\ window.letter = x
    BY <1>0, <1>3, <1>4, <1>8, FilingNext
  <2>2. Filing(calls[c], x)
    BY <1>0, <1>2, <2>1, <1>8, OneAsk
  <2>3. window.draft # 0
    BY <2>1, <2>2, SaveIsFirst DEF Unsaved
  <2>4. PICK e : e = window.draft
    OBVIOUS
  <2>5. IdOf(x, e)
    BY <1>0, <2>1, <2>3, <2>4, SaveIs DEF IdOf, ShownAs
  <2>6. QED
    BY <1>0, <1>3, <2>5, IdsBounded DEF Unknown
<1>9. QED
  BY <1>5, <1>6, <1>7, <1>8

-----------------------------------------------------------------------------
\* What covers a draft of a letter covers it until it is deleted, or the letter is tangled.
LEMMA CoverStays ==
  ASSUME DraftStep, NEW x, Free(x), NEW d, CoveredBy(x, d), d \in DOMAIN drafts' PROVE CoveredBy(x, d)'
<1>0. ComposerTypeOK /\ (ComposerNext \/ UNCHANGED composerVars) /\ x \notin tangled' /\ x # 0
  BY FreeIs DEF Free, Written
<1>1. ASSUME NEW c \in Slots, calls[c].kind = "send", calls[c].step = "mailed", calls[c].letter = x, calls[c].draft = d
      PROVE  CoveredBy(x, d)'
  <2>1. ~SettleSend(c)
    <3>1. ASSUME SettleSend(c) PROVE FALSE
      <4>1. drafts' = Without(drafts, {d})
        BY <1>1, <3>1 DEF SettleSend, Settle
      <4>2. DOMAIN drafts' = DOMAIN drafts \ {d}
        BY <4>1, WithoutIs
      <4>3. QED
        BY <4>2
    <3>2. QED
      BY <3>1
  <2>2. ~Break(c)
    BY <1>0, <1>1 DEF Break
  <2>3. ~Asks(c)
    <3>1. ASSUME Asks(c) PROVE calls[c] = NoCall
      BY <1>0, <3>1, AsksAre, AskedIs
    <3>2. QED
      BY <1>1, <3>1 DEF NoCall
  <2>4. calls'[c] = calls[c]
    BY <1>0, <1>1, <2>1, <2>2, <2>3, CallChanges
       DEF CallStep, ServePost, ServePatch, PatchMisses, ServeUpload, ServeQueue, QueueTooLate, ServeSend, SendMisses,
           Claim, Restore, Fail, LoseAnswer, SaveDone, UploadDone, SendDone, UndoDone, Refused, IsAt
  <2>5. QED
    BY <1>1, <2>4 DEF CoveredBy
<1>2. ASSUME NEW r \in DOMAIN rows, rows[r].out, rows[r].letter = x, rows[r].draft = d
      PROVE  CoveredBy(x, d)'
  <2>1. r \in DOMAIN rows' /\ rows'[r].letter = x /\ rows'[r].draft = d /\ rows'[r].out
    <3>1. CASE rows' = rows
      BY <1>2, <3>1
    <3>2. ASSUME NEW c \in Slots, ServeQueue(c) PROVE r \in DOMAIN rows' /\ rows'[r] = rows[r]
      BY <1>0, <1>2, <3>2, QueuedIs
    <3>3. ASSUME NEW q \in DOMAIN rows, NEW s, NEW o, RowsBecome(q, s, o), q # r \/ o = TRUE
          PROVE  r \in DOMAIN rows' /\ rows'[r].letter = x /\ rows'[r].draft = d /\ rows'[r].out
      BY <1>2, <3>3 DEF RowsBecome
    <3>4. ASSUME NEW c \in Slots, Claim(c), rows' # rows
          PROVE  r \in DOMAIN rows' /\ rows'[r].letter = x /\ rows'[r].draft = d /\ rows'[r].out
      <4>1. PICK q \in DOMAIN rows : q = calls[c].row
        BY <1>0, <3>4, LetterOf DEF Claim, IsAt
      <4>2. rows' = [rows EXCEPT ![q].status = "cancelled"]
        BY <3>4, <4>1 DEF Claim
      <4>3. RowsBecome(q, "cancelled", rows[q].out)
        BY <1>0, <4>2, RowsStatus
      <4>4. rows[r].out = TRUE
        BY <1>0, <1>2, RowTyped DEF Rows
      <4>5. QED
        BY <3>3, <4>3, <4>4
    <3>5. ASSUME NEW q \in DOMAIN rows,
                 Cancel(q) \/ Dispatch(q) \/ DispatchMisses(q) \/ DispatchRejected(q)
                   \/ DispatchSettles(q) \/ DispatchBreaks(q)
          PROVE  r \in DOMAIN rows' /\ rows'[r].letter = x /\ rows'[r].draft = d /\ rows'[r].out
      <4>1. rows[r].out = TRUE
        BY <1>0, <1>2, RowTyped DEF Rows
      <4>2. CASE q = r
        <5>1. ~DispatchSettles(q)
          <6>1. ASSUME DispatchSettles(q) PROVE FALSE
            <7>1. drafts' = Without(drafts, {d})
              BY <1>2, <4>2, <6>1 DEF DispatchSettles, Settle
            <7>2. DOMAIN drafts' = DOMAIN drafts \ {d}
              BY <7>1, WithoutIs
            <7>3. QED
              BY <7>2
          <6>2. QED
            BY <6>1
        <5>2. ~DispatchBreaks(q)
          BY <1>0, <1>2, <4>2 DEF DispatchBreaks
        <5>3. \E s : RowsBecome(q, s, TRUE)
          BY <1>0, <3>5, <4>1, <4>2, <5>1, <5>2, RowSteps
        <5>4. QED
          BY <3>3, <5>3
      <4>3. CASE q # r
        BY <1>0, <3>3, <3>5, <4>3, RowSteps
      <4>4. QED
        BY <4>2, <4>3
    <3>6. QED
      BY <1>0, <1>2, <3>1, <3>2, <3>4, <3>5, RowsChange
  <2>2. QED
    BY <2>1 DEF CoveredBy
<1>3. QED
  BY <1>1, <1>2 DEF CoveredBy

LEMMA MailCoversNext == ASSUME DraftStep, NEW x, Free(x) PROVE MailCovers(x)'
<1> SUFFICES ASSUME x \in MailedLetters', NEW d \in DOMAIN drafts', Found(x, d)' PROVE CoveredBy(x, d)'
  BY DEF MailCovers, Found
<1>0. /\ ComposerTypeOK /\ (ComposerNext \/ UNCHANGED composerVars) /\ MailCovers(x)
      /\ OneDraft(x) /\ Blind(x)
  BY FreeIs
<1>1. ComposerTypeOK'
  BY <1>0, ComposerTypeNext
<1>2. d # 0
  BY <1>1 DEF ComposerTypeOK
<1>3. CASE x \in MailedLetters
  <2>1. Found(x, d)
    BY <1>2, <1>3, FoundNext, NewIsUnknown DEF Unknown
  <2>2. d \in DOMAIN drafts
    <3>1. PICK y : Holds(d, y)'
      BY DEF Holds
    <3>2. d \in DOMAIN drafts \/ (d = made' /\ made' # made)
      BY <1>0, <3>1, HoldsNext, FreeIs
    <3>3. d \in 1 .. made
      BY <1>0, <1>2, <2>1, IdsBounded DEF IdOf, Found
    <3>4. CASE d = made' /\ made' # made
      <4>1. made <= made' /\ made \in Nat /\ made' \in Nat
        BY <1>0, <1>1, MadeGrows
      <4>2. QED
        BY <3>3, <3>4, <4>1
    <3>5. QED
      BY <3>2, <3>4
  <2>3. CoveredBy(x, d)
    BY <1>0, <1>3, <2>1, <2>2 DEF MailCovers, Found
  <2>4. QED
    BY <2>3, CoverStays
<1>4. CASE x \notin MailedLetters
  <2>1. PICK e : SentAs(x, e) /\ CoveredBy(x, e)'
    BY <1>4, NewlyMailed
  <2>2. Found(x, d)
    <3>1. ASSUME Unknown(x) PROVE FALSE
      <4>1. CASE e = 0
        BY <2>1, <3>1, <4>1 DEF Unknown
      <4>2. CASE e # 0
        BY <1>0, <2>1, <3>1, <4>2, IdsBounded DEF Unknown, IdOf
      <4>3. QED
        BY <4>1, <4>2
    <3>2. QED
      BY <1>2, <3>1, FoundNext, NewIsUnknown
  <2>3. IdOf(x, d) /\ d \in 1 .. MaxDrafts
    BY <1>0, <1>2, <2>2, IdsBounded DEF IdOf, Found
  <2>4. e # 0
    BY <1>0, <2>1, <2>3 DEF Blind
  <2>5. IdOf(x, e) /\ e \in 1 .. MaxDrafts
    BY <1>0, <2>1, <2>4, IdsBounded DEF IdOf
  <2>6. d = e
    BY <1>0, <2>3, <2>5 DEF OneDraft
  <2>7. QED
    BY <2>1, <2>6
<1>5. QED
  BY <1>3, <1>4

\* A window learns its draft from the answer to a save.
LEMMA WindowDraft ==
  ASSUME ComposerTypeOK, ComposerNext \/ UNCHANGED composerVars, window'.open, window'.n = window.n
  PROVE  window'.draft = window.draft \/ \E c \in Slots : SaveDone(c) /\ window' # window
<1>0. WindowTyped
  BY TypeParts
<1>1. CASE window' = window
  BY <1>1
<1>2. CASE Type \/ (\E f \in Files : RemoveAttachment(f)) \/ \E c \in Slots : UploadDone(c)
  BY <1>0, <1>2 DEF Type, RemoveAttachment, UploadDone, WindowTyped
<1>3. CASE OpenBlank \/ (\E d \in DOMAIN drafts : OpenDraft(d)) \/ \E c \in Slots : UndoDone(c)
  <2>1. window'.n = window.n + 1
    BY <1>3 DEF OpenBlank, OpenDraft, Open, UndoDone, Show
  <2>2. QED
    BY <1>0, <2>1 DEF WindowTyped
<1>4. CASE Discard \/ \E c \in Slots : SendDone(c)
  <2>1. window' = Closed
    BY <1>4 DEF Discard, SendDone
  <2>2. QED
    BY <2>1, ClosedIs
<1>5. CASE \E c \in Slots : Asks(c)
  BY <1>1, <1>5, AsksLeave DEF aside, page
<1>6. CASE \A c \in Slots : ~Asks(c)
  <2>1. window' = window \/ Type \/ OpenBlank \/ (\E d \in DOMAIN drafts : OpenDraft(d)) \/ Discard
          \/ (\E f \in Files : RemoveAttachment(f))
          \/ \E c \in Slots : UndoDone(c) \/ SendDone(c) \/ SaveDone(c) \/ UploadDone(c)
    BY <1>6 DEF ComposerNext, Asks, SweepTempUploads, Clock,
         DropDraft, DropUpload, ServePost, ServePatch, PatchMisses, ServeUpload, ServeQueue,
         QueueTooLate, ServeSend, SendMisses, SettleSend, Claim,
         Restore, Fail, Break, LoseAnswer,
         Refused, Cancel, Dispatch, DispatchMisses, DispatchRejected, DispatchSettles, DispatchBreaks,
         composerVars, aside, page
  <2>2. QED
    BY <1>1, <1>2, <1>3, <1>4, <2>1
<1>7. QED
  BY <1>5, <1>6

\* An answer to a send closes the window, fails and tangles the letter, or is still to come.
LEMMA SendAnswerStays ==
  ASSUME ComposerTypeOK, ComposerNext \/ UNCHANGED composerVars, NEW c \in Slots,
         calls[c].kind \in Sending, calls[c].step \in {"mailed", "ok"}, calls[c].letter \notin tangled',
         window'.open
  PROVE  /\ calls'[c].kind \in Sending /\ calls'[c].step \in {"mailed", "ok"}
         /\ calls'[c].letter = calls[c].letter /\ calls'[c].n = calls[c].n
<1>1. ~Asks(c)
  <2>1. ASSUME Asks(c) PROVE calls[c] = NoCall
    BY <2>1, AsksAre, AskedIs
  <2>2. QED
    BY <2>1 DEF NoCall
<1>2. ~Break(c) /\ ~LoseAnswer(c)
  <2>1. calls[c].letter # 0
    BY LetterOf DEF Written
  <2>2. QED
    BY <2>1 DEF Break, LoseAnswer
<1>3. ~SendDone(c)
  <2>1. ASSUME SendDone(c) PROVE FALSE
    BY <2>1, ClosedIs DEF SendDone
  <2>2. QED
    BY <2>1
<1>4. calls'[c] = calls[c] \/ SettleSend(c)
  BY <1>1, <1>2, <1>3, CallChanges
     DEF CallStep, ServePost, ServePatch, PatchMisses, ServeUpload, ServeQueue, QueueTooLate, ServeSend, SendMisses,
         Claim, Restore, Fail, SaveDone, UploadDone, UndoDone, Refused, IsAt, Sending, Queueing
<1>5. CASE SettleSend(c)
  BY <1>5, AnsweredIs DEF SettleSend
<1>6. QED
  BY <1>4, <1>5

LEMMA AnswerComesNext == ASSUME DraftStep, NEW x, Free(x) PROVE AnswerComes(x)'
<1> SUFFICES ASSUME ShownAs(x, 0)', x \in MailedLetters' \/ \E r \in DOMAIN rows' : Standing(rows'[r], x)
             PROVE  \E c \in Slots : /\ calls'[c].kind \in Sending /\ calls'[c].letter = x /\ OfWindow(c)'
                                     /\ calls'[c].step \in {"mailed", "ok"}
  BY DEF AnswerComes
<1>0. /\ ComposerTypeOK /\ (ComposerNext \/ UNCHANGED composerVars) /\ AnswerComes(x) /\ OwnCalls(x)
      /\ x \notin tangled'
  BY FreeIs DEF Free
<1>1. ShownAs(x, 0) /\ window'.n = window.n /\ window'.open
  BY ShownBlank
<1>2. CASE x \in MailedLetters \/ \E r \in DOMAIN rows : Standing(rows[r], x)
  <2>1. PICK c \in Slots : /\ calls[c].kind \in Sending /\ calls[c].letter = x /\ OfWindow(c)
                           /\ calls[c].step \in {"mailed", "ok"}
    BY <1>0, <1>1, <1>2 DEF AnswerComes
  <2>2. /\ calls'[c].kind \in Sending /\ calls'[c].step \in {"mailed", "ok"}
        /\ calls'[c].letter = x /\ calls'[c].n = calls[c].n
    BY <1>0, <1>1, <2>1, SendAnswerStays
  <2>3. OfWindow(c)'
    BY <1>1, <2>1, <2>2 DEF OfWindow
  <2>4. QED
    BY <2>2, <2>3
<1>3. ASSUME NEW c \in Slots, ServeSend(c), calls[c].letter = x
      PROVE  /\ calls'[c].kind \in Sending /\ calls'[c].letter = x /\ OfWindow(c)'
             /\ calls'[c].step \in {"mailed", "ok"}
  <2>1. calls[c].kind \in Sending /\ Answered(c, "mailed")
    BY <1>3 DEF ServeSend, IsAt, Sending
  <2>2. OfWindow(c)
    BY <1>0, <1>1, <1>3, <2>1 DEF OwnCalls
  <2>3. QED
    BY <1>0, <1>1, <1>3, <2>1, <2>2, AnsweredIs DEF OfWindow
<1>4. ASSUME NEW c \in Slots, ServeQueue(c), calls[c].kind \in Sending, calls[c].letter = x
      PROVE  /\ calls'[c].kind \in Sending /\ calls'[c].letter = x /\ OfWindow(c)'
             /\ calls'[c].step \in {"mailed", "ok"}
  <2>1. calls'[c] = AnswerOf(c, calls[c].draft, Len(rows) + 1)
    BY <1>0, <1>4, QueuedGoesOn
  <2>2. /\ calls'[c].kind = calls[c].kind /\ calls'[c].letter = x /\ calls'[c].n = calls[c].n
        /\ calls'[c].step = "ok"
    BY <1>4, <2>1 DEF AnswerOf
  <2>3. OfWindow(c)
    BY <1>0, <1>1, <1>4 DEF OwnCalls
  <2>4. QED
    BY <1>1, <1>4, <2>2, <2>3 DEF OfWindow
<1>5. CASE ~(x \in MailedLetters \/ \E r \in DOMAIN rows : Standing(rows[r], x))
  <2>1. ASSUME NEW r \in DOMAIN rows', Standing(rows'[r], x)
        PROVE  \E c \in Slots : ServeQueue(c) /\ calls[c].kind \in Sending /\ calls[c].letter = x
    <3>1. CASE /\ r \in DOMAIN rows
               /\ rows'[r].letter = rows[r].letter
               /\ rows'[r].status = "pending" => rows[r].status = "pending"
               /\ rows'[r].out => rows[r].out \/ rows[r].status = "pending"
      BY <1>5, <2>1, <3>1 DEF Standing
    <3>2. QED
      BY <1>0, <2>1, <3>1, StandingNext DEF Standing
  <2>2. ASSUME x \in MailedLetters' PROVE \E c \in Slots : ServeSend(c) /\ calls[c].letter = x
    <3>1. ASSUME NEW r \in DOMAIN rows, Dispatch(r), rows[r].letter = x PROVE Standing(rows[r], x)
      BY <3>1 DEF Dispatch, IsDue, Standing
    <3>2. QED
      BY <1>0, <1>5, <2>2, <3>1, MailedNext
  <2>3. QED
    BY <1>3, <1>4, <2>1, <2>2
<1>6. QED
  BY <1>2, <1>5

LEMMA OwnCallsNext == ASSUME DraftStep, NEW x, x \in Written PROVE OwnCalls(x)'
<1> SUFFICES ASSUME ShownAs(x, 0)', NEW c \in Slots, calls'[c].kind \in Sending \cup {"save"}, calls'[c].letter = x
             PROVE  OfWindow(c)'
  BY DEF OwnCalls
<1>0. ComposerTypeOK /\ (ComposerNext \/ UNCHANGED composerVars) /\ OwnCalls(x) /\ SavesOfWindow
  BY DEF DraftStep, DraftInv
<1>1. ShownAs(x, 0) /\ window'.n = window.n /\ window'.open
  <2>1. Shows(x)' /\ window'.draft = 0 /\ window'.open
    BY DEF ShownAs, Shows
  <2>2. ASSUME NEW b \in Slots, SaveDone(b) PROVE calls[b].draft # 0
    BY <1>0, <2>2 DEF SaveDone, IsAt, SavesOfWindow
  <2>3. QED
    BY <1>0, <2>1, <2>2, ShowsNext DEF ShownAs
<1>2. CASE CallKeeps(c)
  BY <1>0, <1>1, <1>2 DEF CallKeeps, OwnCalls, OfWindow
<1>3. CASE Asks(c)
  BY <1>0, <1>1, <1>3, AsksKeep DEF OfWindow
<1>4. CASE ServePost(c)
  <2>1. calls[c].kind = "save" /\ calls[c].letter = x /\ calls'[c].n = calls[c].n
    BY <1>0, <1>4, ServePostIs
  <2>2. QED
    BY <1>0, <1>1, <2>1 DEF OwnCalls, OfWindow
<1>5. QED
  BY <1>0, <1>2, <1>3, <1>4, CallKeepsNext

\* An answered save stays until the window learns the draft, unless it fails and tangles the letter.
LEMMA SavedStays ==
  ASSUME ComposerTypeOK, ComposerNext \/ UNCHANGED composerVars, NEW c \in Slots,
         calls[c].kind = "save", calls[c].step = "ok", calls[c].letter \notin tangled'
  PROVE  calls'[c] = calls[c] \/ SaveDone(c)
<1>1. ~Asks(c)
  <2>1. ASSUME Asks(c) PROVE calls[c] = NoCall
    BY <2>1, AsksAre, AskedIs
  <2>2. QED
    BY <2>1 DEF NoCall
<1>2. ~LoseAnswer(c)
  <2>1. calls[c].letter # 0
    BY LetterOf DEF Written
  <2>2. QED
    BY <2>1 DEF LoseAnswer
<1>3. QED
  BY <1>1, <1>2, CallChanges
     DEF CallStep, ServePost, ServePatch, PatchMisses, ServeUpload, ServeQueue, QueueTooLate, ServeSend, SendMisses,
         SettleSend, Claim, Restore, Fail, Break, UploadDone, SendDone, UndoDone, Refused, IsAt, Sending, Queueing

LEMMA SaveComesNext == ASSUME DraftStep, NEW x, Free(x) PROVE SaveComes(x)'
<1> SUFFICES ASSUME ShownAs(x, 0)', NEW d, Holds(d, x)'
             PROVE  \E c \in Slots : calls'[c].kind = "save" /\ calls'[c].step = "ok" /\ calls'[c].letter = x
  BY DEF SaveComes
<1>0. /\ ComposerTypeOK /\ LetterInv /\ (ComposerNext \/ UNCHANGED composerVars) /\ SaveComes(x) /\ OwnCalls(x)
      /\ SavesOfWindow /\ x \notin tangled'
  BY FreeIs DEF Free
<1>1. ShownAs(x, 0) /\ window'.n = window.n /\ window'.open /\ window'.draft = 0 /\ Shows(x)
  BY ShownBlank DEF ShownAs
<1>2. CASE Holds(d, x)
  <2>1. PICK c \in Slots : calls[c].kind = "save" /\ calls[c].step = "ok" /\ calls[c].letter = x
    BY <1>0, <1>1, <1>2 DEF SaveComes, Holds
  <2>2. OfWindow(c) /\ calls[c].draft # 0
    BY <1>0, <1>1, <2>1 DEF OwnCalls, SavesOfWindow
  <2>3. ~SaveDone(c)
    <3>1. ASSUME SaveDone(c) PROVE FALSE
      <4>1. window' = [window EXCEPT !.draft = calls[c].draft]
        BY <2>2, <3>1 DEF SaveDone
      <4>2. window'.draft = calls[c].draft
        BY <1>0, <4>1 DEF ComposerTypeOK
      <4>3. QED
        BY <1>1, <2>2, <4>2
    <3>2. QED
      BY <3>1
  <2>4. calls'[c] = calls[c]
    BY <1>0, <2>1, <2>3, SavedStays
  <2>5. QED
    BY <2>1, <2>4
<1>3. ASSUME NEW c \in Slots, ServePost(c), calls[c].letter = x
      PROVE  calls'[c].kind = "save" /\ calls'[c].step = "ok" /\ calls'[c].letter = x
  BY <1>0, <1>3, ServePostIs
<1>4. ASSUME NEW c \in Slots, ServePatch(c), calls[c].letter = x
      PROVE  calls'[c].kind = "save" /\ calls'[c].step = "ok" /\ calls'[c].letter = x
  <2>1. calls[c].kind = "save" /\ Answered(c, "ok")
    BY <1>4 DEF ServePatch, IsAt
  <2>2. QED
    BY <1>0, <1>4, <2>1, AnsweredIs
<1>5. ASSUME NEW c \in Slots, Restore(c), calls[c].letter = x PROVE FALSE
  BY <1>1, <1>5, RestoreIsOnly
<1>6. QED
  BY <1>0, <1>2, <1>3, <1>4, <1>5, HoldsNext

\* The saves of a window were asked for in it.
LEMMA ShownSaves ==
  ASSUME ComposerTypeOK, ComposerNext \/ UNCHANGED composerVars, NEW c \in Slots,
         calls'[c].kind = "save", window'.open, calls'[c].n = window'.n
  PROVE  \/ /\ calls[c].kind = "save" /\ OfWindow(c) /\ window'.n = window.n
            /\ CallKeeps(c) \/ ServePost(c)
         \/ Save(c)
<1>1. CASE Asks(c)
  BY <1>1, AsksKeep DEF Sending, Queueing
<1>2. CASE CallKeeps(c) \/ ServePost(c)
  <2>1. calls[c].kind = "save" /\ calls'[c].n = calls[c].n
    BY <1>2, ServePostIs DEF CallKeeps
  <2>2. calls[c].n \in 0 .. window.n /\ window.n \in Nat
    BY LetterOf DEF Calls, ComposerTypeOK
  <2>3. window.open /\ window'.n = window.n
    BY <2>1, <2>2, WindowNext
  <2>4. QED
    BY <1>2, <2>1, <2>3 DEF OfWindow
<1>3. QED
  BY <1>1, <1>2, CallKeepsNext

LEMMA NotBothNext == ASSUME DraftStep, NEW x, Free(x) PROVE NotBoth(x)'
<1> SUFFICES ASSUME ShownAs(x, 0)', NEW b \in Slots, calls'[b].kind = "save", OfWindow(b)',
                    NEW c \in Slots, calls'[c].kind \in Sending, calls'[c].letter = x
             PROVE  FALSE
  BY DEF NotBoth, ShownOn, UnderWay
<1>0. ComposerTypeOK /\ (ComposerNext \/ UNCHANGED composerVars) /\ NotBoth(x) /\ OwnCalls(x)
  BY FreeIs
<1>1. ShownAs(x, 0) /\ window.letter = x /\ window.draft = 0
  BY ShownBlank DEF ShownAs, Shows
<1>2. (calls[b].kind = "save" /\ OfWindow(b)) \/ Save(b)
  BY <1>0, ShownSaves DEF OfWindow
<1>3. (calls[c].kind \in Sending /\ calls[c].letter = x) \/ Pressing(c)
  BY <1>0, SendingNext
<1>4. ~(Save(b) /\ Pressing(c))
  BY <1>0, OneAsk
<1>5. CASE calls[b].kind = "save" /\ OfWindow(b)
  <2>1. CASE calls[c].kind \in Sending /\ calls[c].letter = x
    BY <1>0, <1>1, <1>5, <2>1 DEF NotBoth, ShownOn, UnderWay
  <2>2. CASE Pressing(c)
    BY <1>0, <1>1, <1>5, <2>2, PressIs DEF Free
  <2>3. QED
    BY <1>3, <2>1, <2>2
<1>6. CASE Save(b)
  <2>1. calls[c].kind \in Sending /\ calls[c].letter = x
    BY <1>3, <1>4, <1>6
  <2>2. OfWindow(c)
    BY <1>0, <1>1, <2>1 DEF OwnCalls
  <2>3. QED
    BY <1>0, <1>1, <1>6, <2>1, <2>2, SaveIs DEF Free
<1>7. QED
  BY <1>2, <1>5, <1>6

LEMMA SavesOfWindowNext == ASSUME DraftStep PROVE SavesOfWindow'
<1>0. ComposerTypeOK /\ (ComposerNext \/ UNCHANGED composerVars) /\ SavesOfWindow
  BY DEF DraftStep, DraftInv
<1>1. ASSUME NEW b \in Slots, NEW c \in Slots, calls'[b].kind = "save", calls'[c].kind = "save",
             OfWindow(b)', OfWindow(c)'
      PROVE  b = c
  <2>1. (calls[b].kind = "save" /\ OfWindow(b)) \/ Save(b)
    BY <1>0, <1>1, ShownSaves DEF OfWindow
  <2>2. (calls[c].kind = "save" /\ OfWindow(c)) \/ Save(c)
    BY <1>0, <1>1, ShownSaves DEF OfWindow
  <2>3. CASE Save(b) \/ Save(c)
    BY <1>0, <2>1, <2>2, <2>3, SaveIs, OneAsk
  <2>4. CASE ~Save(b) /\ ~Save(c)
    BY <1>0, <2>1, <2>2, <2>4 DEF SavesOfWindow, ShownOn, UnderWay
  <2>5. QED
    BY <2>3, <2>4
<1>2. ASSUME NEW c \in Slots, calls'[c].kind = "save", calls'[c].step = "ok" PROVE calls'[c].draft # 0
  <2>1. CASE Asks(c)
    BY <1>0, <1>2, <2>1, AsksKeep
  <2>2. CASE ServePost(c)
    BY <1>0, <2>2, ServePostIs, NewDraftIs
  <2>3. CASE calls'[c] = calls[c]
    BY <1>0, <1>2, <2>3 DEF SavesOfWindow
  <2>4. CASE ServePatch(c)
    <3>1. calls[c].draft \in DOMAIN drafts /\ Answered(c, "ok")
      BY <2>4 DEF ServePatch
    <3>2. calls[c].draft # 0 /\ calls'[c].draft = calls[c].draft
      BY <1>0, <3>1, AnsweredIs DEF ComposerTypeOK
    <3>3. QED
      BY <3>2
  <2>5. CASE ServeQueue(c) \/ Restore(c) \/ SettleSend(c)
    <3>1. calls[c].kind # "save" /\ calls[c].kind # "none"
      BY <2>5 DEF ServeQueue, Restore, SettleSend, IsAt, Queueing
    <3>2. calls'[c] = NoCall \/ calls'[c].kind = calls[c].kind \/ Asks(c)
      BY <1>0, CallContinues DEF Continues
    <3>3. QED
      BY <1>2, <2>1, <3>1, <3>2 DEF NoCall
  <2>6. QED
    BY <1>0, <1>2, <2>2, <2>3, <2>4, <2>5, CallAnswered DEF Keepers
<1>3. ASSUME NEW c \in Slots, calls'[c].kind = "save", OfWindow(c)', calls'[c].step \in {"asked", "ok"}
      PROVE  calls'[c].draft = window'.draft \/ (window'.draft = 0 /\ calls'[c].step = "ok")
  <2>1. CASE Save(c)
    BY <1>0, <2>1, SaveIs
  <2>2. CASE calls[c].kind = "save" /\ OfWindow(c) /\ window'.n = window.n /\ (CallKeeps(c) \/ ServePost(c))
    <3>1. window'.draft = window.draft
      <4>1. ASSUME NEW b \in Slots, SaveDone(b) PROVE window' = window
        <5>1. calls'[b] = NoCall /\ calls[b].kind = "save"
          BY <1>0, <4>1, DoneIs DEF SaveDone, IsAt
        <5>2. b # c
          BY <1>3, <5>1 DEF NoCall
        <5>3. ~OfWindow(b)
          BY <1>0, <2>2, <5>1, <5>2 DEF SavesOfWindow, ShownOn, UnderWay
        <5>4. QED
          BY <4>1, <5>3 DEF SaveDone
      <4>2. QED
        BY <1>0, <1>3, <2>2, <4>1, WindowDraft DEF OfWindow
    <3>2. CASE CallKeeps(c)
      <4>1. calls'[c].draft = calls[c].draft
        BY <1>3, <3>2 DEF CallKeeps
      <4>2. calls[c].step \in {"asked", "ok"} /\ (calls[c].step = "ok" => calls'[c].step = "ok")
        <5>1. calls[c].step # "mailed"
          BY <1>0, <2>2, LetterOf DEF ComposerTypeOK
        <5>2. QED
          BY <1>3, <3>2, <5>1 DEF CallKeeps
      <4>3. QED
        BY <1>0, <2>2, <3>1, <4>1, <4>2 DEF SavesOfWindow, ShownOn, UnderWay
    <3>3. CASE ServePost(c)
      BY <1>0, <2>2, <3>1, <3>3, ServePostIs DEF SavesOfWindow, ShownOn, UnderWay
    <3>4. QED
      BY <2>2, <3>2, <3>3
  <2>3. QED
    BY <1>0, <1>3, <2>1, <2>2, ShownSaves DEF OfWindow
<1>4. QED
  BY <1>1, <1>2, <1>3 DEF SavesOfWindow, ShownOn, UnderWay

\* How a row comes to wait, and an undo to have claimed one.
LEMMA InQueueNext ==
  ASSUME DraftStep, NEW x, Free(x), NEW r \in DOMAIN rows', InQueue(rows'[r], x)
  PROVE  \/ r \in DOMAIN rows /\ InQueue(rows[r], x)
         \/ \E c \in Slots : ServeQueue(c) /\ Waiting(calls[c], x) /\ r = Len(rows) + 1
<1>0. ComposerTypeOK /\ (ComposerNext \/ UNCHANGED composerVars)
  BY FreeIs
<1>1. ASSUME NEW c \in Slots, ServeQueue(c), r \notin DOMAIN rows PROVE r = Len(rows) + 1
  BY <1>0, <1>1, QueuedIs
<1>2. QED
  BY <1>0, <1>1, StandingNext DEF InQueue, Waiting

LEMMA ClaimedNext ==
  ASSUME DraftStep, NEW x, Free(x), NEW c \in Slots,
         calls'[c].kind = "undo", calls'[c].step = "claimed", calls'[c].letter = x
  PROVE  \/ calls[c].kind = "undo" /\ calls[c].letter = x /\ calls[c].step = "claimed"
         \/ \E q \in DOMAIN rows : /\ Claim(c) /\ InQueue(rows[q], x)
                                   /\ RowsBecome(q, "cancelled", rows[q].out)
<1>0. ComposerTypeOK /\ LetterInv /\ (ComposerNext \/ UNCHANGED composerVars)
  BY FreeIs
<1>1. ~Asks(c)
  <2>1. ASSUME Asks(c) PROVE calls'[c].step = "asked"
    BY <1>0, <2>1, AsksKeep
  <2>2. QED
    BY <2>1
<1>2. CASE Claim(c)
  <2>1. calls[c].kind = "undo"
    BY <1>2 DEF Claim, IsAt
  <2>2. PICK q \in DOMAIN rows : q = calls[c].row
    BY <1>0, <2>1, LetterOf
  <2>3. calls'[c] # NoCall
    BY DEF NoCall
  <2>4. calls[c].letter = x
    BY <1>0, <1>1, <2>3, CallContinues DEF Continues
  <2>5. rows[q].letter = x
    BY <1>0, <2>1, <2>2, <2>4 DEF LetterInv, UndosKnown
  <2>6. CASE rows[q].status = "pending"
    <3>1. rows' = [rows EXCEPT ![q].status = "cancelled"]
      BY <1>2, <2>2, <2>6 DEF Claim
    <3>2. RowsBecome(q, "cancelled", rows[q].out)
      BY <1>0, <3>1, RowsStatus
    <3>3. QED
      BY <1>2, <2>5, <2>6, <3>2 DEF InQueue
  <2>7. CASE rows[q].status # "pending"
    <3>1. Answered(c, "refused")
      BY <1>2, <2>2, <2>7 DEF Claim
    <3>2. QED
      BY <1>0, <3>1, AnsweredIs
  <2>8. QED
    BY <2>6, <2>7
<1>3. CASE calls'[c] = calls[c]
  BY <1>3
<1>4. CASE ServePost(c) \/ Restore(c) \/ ServeQueue(c)
  <2>1. calls'[c].step = "ok"
    <3>1. CASE ServePost(c)
      BY <1>0, <3>1, ServePostIs
    <3>2. CASE Restore(c)
      <4>1. calls[c].kind # "upload" /\ calls' = [calls EXCEPT ![c].step = "ok", ![c].draft = made']
        BY <3>2 DEF Restore, IsAt
      <4>2. calls'[c] = AnswerOf(c, made', calls[c].row)
        BY <1>0, <4>1, MadeDraftGoesOn
      <4>3. QED
        BY <4>2 DEF AnswerOf
    <3>3. CASE ServeQueue(c)
      <4>1. calls'[c] = AnswerOf(c, calls[c].draft, Len(rows) + 1)
        BY <1>0, <3>3, QueuedGoesOn
      <4>2. QED
        BY <4>1 DEF AnswerOf
    <3>4. QED
      BY <1>4, <3>1, <3>2, <3>3
  <2>2. QED
    BY <2>1
<1>5. CASE ServePatch(c) \/ PatchMisses(c) \/ ServeUpload(c) \/ QueueTooLate(c) \/ ServeSend(c) \/ SendMisses(c)
           \/ SettleSend(c) \/ Fail(c) \/ Break(c) \/ LoseAnswer(c)
  <2>1. Answered(c, "ok") \/ Answered(c, "mailed") \/ Answered(c, "refused")
    BY <1>5 DEF ServePatch, PatchMisses, ServeUpload, QueueTooLate, ServeSend, SendMisses,
       SettleSend, Fail, Break,
                LoseAnswer
  <2>2. QED
    BY <1>0, <2>1, AnsweredIs
<1>6. CASE SaveDone(c) \/ UploadDone(c) \/ SendDone(c) \/ UndoDone(c) \/ Refused(c)
  <2>1. calls'[c] = NoCall
    BY <1>0, <1>6, DoneIs DEF SaveDone, UploadDone, SendDone, UndoDone, Refused
  <2>2. QED
    BY <2>1 DEF NoCall
<1>7. QED
  BY <1>0, <1>1, <1>2, <1>3, <1>4, <1>5, <1>6, CallChanges DEF CallStep

\* A press finds the letter nowhere on its way.
LEMMA PressFindsNone ==
  ASSUME DraftStep, NEW x, Free(x), NEW c \in Slots, Pressing(c), window.letter = x
  PROVE  /\ \A b \in Slots : ~Waiting(calls[b], x) /\ ~(calls[b].kind = "undo" /\ calls[b].letter = x)
         /\ \A r \in DOMAIN rows : ~InQueue(rows[r], x)
         /\ rows' = rows
<1>1. ComposerTypeOK /\ x \notin tangled'
  BY FreeIs DEF Free
<1>2. QED
  BY <1>1, PressIs DEF Waiting

LEMMA OneSenderNext == ASSUME DraftStep, NEW x, Free(x) PROVE OneSender(x)'
<1>0. ComposerTypeOK /\ (ComposerNext \/ UNCHANGED composerVars) /\ OneSender(x)
  BY FreeIs
<1>1. ASSUME NEW b \in Slots, Waiting(calls'[b], x)
      PROVE  Waiting(calls[b], x) \/ (Pressing(b) /\ window.letter = x)
  BY <1>0, <1>1, LeavingNext
<1>2. ASSUME NEW c \in Slots, ServeQueue(c) PROVE ~Waiting(calls'[c], x)
  <2>1. calls'[c] = AnswerOf(c, calls[c].draft, Len(rows) + 1)
    BY <1>0, <1>2, QueuedGoesOn
  <2>2. QED
    BY <2>1 DEF AnswerOf, Waiting
<1>3. ASSUME NEW b \in Slots, NEW c \in Slots, Waiting(calls'[b], x), Waiting(calls'[c], x)
      PROVE  b = c
  <2>1. CASE Waiting(calls[b], x) /\ Waiting(calls[c], x)
    BY <1>0, <2>1 DEF OneSender
  <2>2. CASE Pressing(b) /\ Pressing(c)
    BY <1>0, <2>2, OneAsk
  <2>3. QED
    BY <1>1, <1>3, <2>1, <2>2, PressFindsNone
<1>4. ASSUME NEW q \in DOMAIN rows', NEW r \in DOMAIN rows', InQueue(rows'[q], x), InQueue(rows'[r], x)
      PROVE  q = r
  <2>1. CASE q \in DOMAIN rows /\ InQueue(rows[q], x) /\ r \in DOMAIN rows /\ InQueue(rows[r], x)
    BY <1>0, <2>1 DEF OneSender
  <2>2. QED
    BY <1>0, <1>4, <2>1, InQueueNext DEF OneSender
<1>5. ASSUME NEW c \in Slots, NEW r \in DOMAIN rows', Waiting(calls'[c], x), InQueue(rows'[r], x)
      PROVE  FALSE
  <2>1. CASE r \in DOMAIN rows /\ InQueue(rows[r], x)
    BY <1>0, <1>1, <1>5, <2>1, PressFindsNone DEF OneSender
  <2>2. ASSUME NEW b \in Slots, ServeQueue(b), Waiting(calls[b], x) PROVE FALSE
    BY <1>0, <1>1, <1>2, <1>5, <2>2, PressFindsNone DEF OneSender
  <2>3. QED
    BY <1>5, <2>1, <2>2, InQueueNext
<1>6. ASSUME NEW c \in Slots, calls'[c].kind = "undo", calls'[c].letter = x, calls'[c].step = "claimed"
      PROVE  /\ \A b \in Slots : ~Waiting(calls'[b], x)
             /\ \A r \in DOMAIN rows' : ~InQueue(rows'[r], x)
  <2>1. CASE calls[c].kind = "undo" /\ calls[c].letter = x /\ calls[c].step = "claimed"
    <3>1. (\A b \in Slots : ~Waiting(calls[b], x)) /\ \A r \in DOMAIN rows : ~InQueue(rows[r], x)
      BY <1>0, <2>1 DEF OneSender
    <3>2. \A b \in Slots : ~Waiting(calls'[b], x)
      BY <1>1, <2>1, <3>1, PressFindsNone
    <3>3. \A r \in DOMAIN rows' : ~InQueue(rows'[r], x)
      BY <3>1, InQueueNext
    <3>4. QED
      BY <3>2, <3>3
  <2>2. ASSUME NEW q \in DOMAIN rows, Claim(c), InQueue(rows[q], x), RowsBecome(q, "cancelled", rows[q].out)
        PROVE  /\ \A b \in Slots : ~Waiting(calls'[b], x)
               /\ \A r \in DOMAIN rows' : ~InQueue(rows'[r], x)
    <3>1. \A b \in Slots : ~Waiting(calls[b], x)
      BY <1>0, <2>2 DEF OneSender
    <3>2. \A b \in Slots : ~Waiting(calls'[b], x)
      BY <1>1, <2>2, <3>1, PressFindsNone
    <3>3. ASSUME NEW r \in DOMAIN rows', InQueue(rows'[r], x) PROVE FALSE
      <4>1. r \in DOMAIN rows /\ InQueue(rows[r], x)
        BY <3>1, <3>3, InQueueNext
      <4>2. r = q
        BY <1>0, <2>2, <4>1 DEF OneSender
      <4>3. rows'[r].status = "cancelled"
        BY <2>2, <4>1, <4>2 DEF RowsBecome
      <4>4. QED
        BY <3>3, <4>3 DEF InQueue
    <3>4. QED
      BY <3>2, <3>3
  <2>3. QED
    BY <1>6, <2>1, <2>2, ClaimedNext
<1>7. QED
  BY <1>3, <1>4, <1>5, <1>6 DEF OneSender

-----------------------------------------------------------------------------
\* Nobody has a letter that was just typed.
LEMMA TypedIsFresh ==
  ASSUME ComposerTypeOK, Type, NEW x, x = typed + 1
  PROVE  DraftsOf(x)' /\ OwnCalls(x)'
<1>1. UNCHANGED <<calls, drafts, rows, mailed>> /\ typed \in Nat
  BY DEF Type, requests, tables, ComposerTypeOK
<1>2. \A c \in Slots : calls'[c].letter # x
  BY <1>1 DEF ComposerTypeOK, Calls
<1>3. \A r \in DOMAIN rows' : rows'[r].letter # x
  BY <1>1, RowTyped DEF Rows, Written
<1>4. \A d \in DOMAIN drafts' : drafts'[d] # x
  BY <1>1 DEF ComposerTypeOK, Written
<1>5. x \notin MailedLetters'
  <2>1. MailedLetters' = MailedLetters /\ MailedLetters \subseteq Written
    BY <1>1 DEF MailedLetters, ComposerTypeOK, Loaded
  <2>2. QED
    BY <1>1, <2>1 DEF Written
<1>6. /\ \A c \in Slots : ~Filing(calls'[c], x) /\ ~Leaving(calls'[c], x) /\ ~Waiting(calls'[c], x)
      /\ \A r \in DOMAIN rows' : ~Standing(rows'[r], x) /\ ~InQueue(rows'[r], x)
  BY <1>2, <1>3 DEF Filing, Leaving, Waiting, Standing, InQueue
<1>7. \A d : ~Holds(d, x)' /\ ~SavedAs(x, d)' /\ ~SentAs(x, d)'
  BY <1>4, <1>6 DEF Holds, SavedAs, SentAs
<1>8. OneDraft(x)'
  BY <1>7 DEF OneDraft, IdOf, ShownAs
<1>9. Blind(x)' /\ Sighted(x)' /\ FirstSave(x)'
  BY <1>6, <1>7 DEF Blind, Sighted, FirstSave
<1>10. MailCovers(x)'
  BY <1>5 DEF MailCovers
<1>11. AnswerComes(x)' /\ SaveComes(x)'
  BY <1>4, <1>5, <1>6 DEF AnswerComes, SaveComes, Holds
<1>12. NotBoth(x)' /\ OwnCalls(x)'
  BY <1>2 DEF NotBoth, OwnCalls
<1>13. OneSender(x)'
  BY <1>2, <1>6 DEF OneSender
<1>14. QED
  BY <1>8, <1>9, <1>10, <1>11, <1>12, <1>13 DEF DraftsOf

LEMMA WrittenNext ==
  ASSUME ComposerTypeOK, ComposerNext \/ UNCHANGED composerVars, NEW x \in Written'
  PROVE  x \in Written \/ (Type /\ x = typed + 1)
<1>1. CASE Type
  <2>1. typed' = typed + 1 /\ typed \in Nat
    BY <1>1 DEF Type, ComposerTypeOK
  <2>2. x \in 1 .. typed + 1
    BY <2>1 DEF Written
  <2>3. QED
    BY <1>1, <2>1, <2>2 DEF Written
<1>2. CASE ~Type
  <2>1. typed' = typed
    BY <1>2, WantedNext
  <2>2. QED
    BY <2>1 DEF Written
<1>3. QED
  BY <1>1, <1>2

LEMMA DraftInvNext == ComposerTypeOK /\ LetterInv /\ DraftInv /\ [ComposerNext]_composerVars => DraftInv'
<1> SUFFICES ASSUME ComposerTypeOK, LetterInv, DraftInv, ComposerNext \/ UNCHANGED composerVars
             PROVE  DraftInv'
  OBVIOUS
<1>1. DraftStep
  BY DEF DraftStep
<1>2. ASSUME NEW x \in Written' PROVE OwnCalls(x)'
  <2>1. CASE x \in Written
    BY <1>1, <2>1, OwnCallsNext
  <2>2. CASE Type /\ x = typed + 1
    BY <2>2, TypedIsFresh
  <2>3. QED
    BY <2>1, <2>2, WrittenNext
<1>3. ASSUME NEW x \in Written', x \notin tangled' PROVE DraftsOf(x)'
  <2>1. CASE x \in Written
    <3>1. Free(x)
      BY <1>3, <2>1 DEF Free
    <3>2. /\ OneDraft(x)' /\ Blind(x)' /\ Sighted(x)' /\ FirstSave(x)' /\ MailCovers(x)'
      BY <1>1, <3>1, OneDraftNext, BlindNext, SightedNext, FirstSaveNext, MailCoversNext
    <3>3. /\ AnswerComes(x)' /\ SaveComes(x)' /\ NotBoth(x)' /\ OneSender(x)'
      BY <1>1, <3>1, AnswerComesNext, SaveComesNext, NotBothNext, OneSenderNext
    <3>4. QED
      BY <3>2, <3>3 DEF DraftsOf
  <2>2. CASE Type /\ x = typed + 1
    BY <2>2, TypedIsFresh
  <2>3. QED
    BY <2>1, <2>2, WrittenNext
<1>4. SavesOfWindow'
  BY <1>1, SavesOfWindowNext
<1>5. QED
  BY <1>2, <1>3, <1>4 DEF DraftInv

LEMMA DraftInvGone == ComposerTypeOK /\ DraftInv => DraftsOfSentGone
<1> SUFFICES ASSUME ComposerTypeOK, DraftInv, NEW d \in DOMAIN drafts, drafts[d] \in MailedLetters \ tangled
             PROVE  \/ \E c \in UnderWay({"send"}) : calls[c].step = "mailed" /\ calls[c].draft = d
                    \/ \E r \in DOMAIN rows : rows[r].out /\ rows[r].draft = d
  BY DEF DraftsOfSentGone
<1>1. PICK x : x = drafts[d]
  OBVIOUS
<1>2. x \in Written \ tangled /\ x \in MailedLetters /\ Holds(d, x)
  BY <1>1 DEF ComposerTypeOK, Holds
<1>3. CoveredBy(x, d)
  BY <1>2 DEF DraftInv, DraftsOf, MailCovers
<1>4. QED
  BY <1>3 DEF CoveredBy, UnderWay

(***************************************************************************)
(* Once a letter went out and its send settled no draft of it is left, unless *)
(* the draft was made behind the back of the send, the answer was lost or the *)
(* handler died after mailing.                                             *)
(***************************************************************************)
THEOREM DraftsOfTheSentGo == ComposerSpec => []DraftsOfSentGone
<1>1. ComposerInit => ComposerTypeOK /\ LetterInv /\ DraftInv
  BY ComposerTypeInit, LetterInvInit, DraftInvInit
<1>2. ComposerTypeOK /\ LetterInv /\ DraftInv /\ [ComposerNext]_composerVars
      => (ComposerTypeOK /\ LetterInv /\ DraftInv)'
  BY ComposerTypeNext, LetterInvNext, DraftInvNext
<1>3. ComposerTypeOK /\ LetterInv /\ DraftInv => DraftsOfSentGone
  BY DraftInvGone
<1>4. QED
  BY <1>1, <1>2, <1>3, PTL DEF ComposerSpec
=============================================================================
