---------------------------- MODULE BookingProofs ----------------------------
(***************************************************************************)
(* Bookings for any number of rows, requests and calendars, and any grid   *)
(* of start times: their types, that a cancelled booking stays cancelled,  *)
(* that bookings keep apart unless their checks missed each other, how     *)
(* many calendar events are out of reach of cancel and reschedule, and     *)
(* that the stores agree on a booking that nothing went wrong with.        *)
(***************************************************************************)
EXTENDS Booking, FiniteSetTheorems, TLAPS

Pcs == {"idle", "insert", "write", "link", "remind",
        "cancel", "delete", "clear", "regret",
        "check", "move", "reremind", "retell", "rerow"}

Request == [pc : Pcs, bk : Bookings \cup {NoBooking}, at : Times,
            todo : SUBSET Cals, cal : SUBSET Cals]

Row == [status : {"free", "confirmed", "cancelled"}, start : Times]
Mail == [kind : {"none", "invited", "cancelled"}, at : Times]

ReqOK == req \in [Requests -> Request]

StoresOK ==
    /\ row \in [Bookings -> Row]
    /\ entry \in [Bookings -> [Cals -> Times]]
    /\ link \in [Bookings -> SUBSET Cals]
    /\ reminder \in [Bookings -> SUBSET Grid]
    /\ told \in [Bookings -> Mail]
    /\ tokens \subseteq Bookings
    /\ linked \subseteq Cals
    /\ saving \subseteq Cals
    /\ crossed \subseteq SUBSET Bookings
    /\ mishaps \in 0 .. MaxMishaps
    /\ edits \in 0 .. MaxEdits

(***************************************************************************)
(* A request that runs is about a booking, and from its check on it        *)
(* carries a start time of the grid.                                       *)
(***************************************************************************)
Timed == {"insert", "write", "link", "remind", "move", "reremind", "retell", "rerow"}

BusyOK ==
    \A q \in Requests :
        /\ ~At(q, "idle") => Bk(q) \in Bookings
        /\ req[q].pc \in Timed => req[q].at \in Grid

Typed == ReqOK /\ StoresOK /\ BusyOK

LEMMA Carried ==
    ASSUME Typed, NEW q \in Requests, ~At(q, "idle")
    PROVE  /\ Bk(q) \in Bookings
           /\ req[q].pc \in Timed => req[q].at \in Grid
           /\ req[q].todo \subseteq Cals
           /\ req[q].cal \subseteq Cals
  BY DEF Typed, BusyOK, ReqOK, Request

LEMMA InitTyped == Init => Typed
  BY BoundsAssumption, BookingsAssumption
     DEF Init, Typed, ReqOK, StoresOK, BusyOK, Request, Row, Mail, Pcs, Times, Timed, At, Bk,
         IdleReq, NoMail

LEMMA GotoOK ==
    ASSUME ReqOK, NEW q \in Requests, NEW p \in Pcs, Goto(q, p)
    PROVE  ReqOK'
  BY DEF ReqOK, Request, Goto

LEMMA DoneOK ==
    ASSUME ReqOK, NEW q \in Requests, Done(q)
    PROVE  ReqOK'
  BY DEF ReqOK, Request, Done, IdleReq, Times, Pcs

LEMMA MishapOK == Typed /\ Mishap => mishaps' \in 0 .. MaxMishaps
  BY BoundsAssumption DEF Typed, StoresOK, Mishap

(***************************************************************************)
(* Every step keeps the requests of their type.                            *)
(***************************************************************************)
LEMMA ReqStep == Typed /\ [Next]_vars => ReqOK'
<1> SUFFICES ASSUME Typed, [Next]_vars
             PROVE  ReqOK'
  OBVIOUS
<1>a. ReqOK /\ link \in [Bookings -> SUBSET Cals] /\ linked \subseteq Cals
  BY DEF Typed, StoresOK
<1> USE DEF Pcs
<1>1. CASE UNCHANGED vars
  BY <1>1, <1>a DEF vars, ReqOK
<1>2. ASSUME NEW q \in Requests, NEW b \in Bookings, NEW s \in Grid, Check(q, b, s)
      PROVE  ReqOK'
  BY <1>2, <1>a DEF Check, ReqOK, Request, IdleReq, Times, At
<1>3. ASSUME NEW q \in Requests, Insert(q)
      PROVE  ReqOK'
  BY <1>3, <1>a, GotoOK DEF Insert
<1>4. ASSUME NEW q \in Requests, NEW c \in Cals, WriteEntry(q, c)
      PROVE  ReqOK'
  BY <1>4, <1>a DEF WriteEntry, ReqOK, Request, IdleReq, Times, At
<1>5. ASSUME NEW q \in Requests, LinkEntry(q)
      PROVE  ReqOK'
  <2>1. req' = [req EXCEPT ![q].pc = "write", ![q].cal = {}]
    BY <1>5 DEF LinkEntry
  <2> QED
    BY <1>a, <2>1 DEF ReqOK, Request
<1>6. ASSUME NEW q \in Requests, Confirm(q)
      PROVE  ReqOK'
  BY <1>6, <1>a, GotoOK DEF Confirm
<1>7. ASSUME NEW q \in Requests, Remind(q)
      PROVE  ReqOK'
  BY <1>7, <1>a, DoneOK DEF Remind
<1>8. ASSUME NEW q \in Requests, NEW b \in Bookings, ReadToCancel(q, b)
      PROVE  ReqOK'
  BY <1>8, <1>a DEF ReadToCancel, ReqOK, Request, IdleReq, Times, At
<1>9. ASSUME NEW q \in Requests, MarkCancelled(q)
      PROVE  ReqOK'
  <2>1. link[Bk(q)] \subseteq Cals
    BY <1>9, <1>a, Carried DEF MarkCancelled, At
  <2> QED
    BY <1>9, <1>a, <2>1 DEF MarkCancelled, ReqOK, Request
<1>10. ASSUME NEW q \in Requests, NEW c \in Cals, DeleteEntry(q, c)
      PROVE  ReqOK'
  BY <1>10, <1>a DEF DeleteEntry, ReqOK, Request, IdleReq, Times, At
<1>11. ASSUME NEW q \in Requests, ClearReminders(q)
      PROVE  ReqOK'
  BY <1>11, <1>a, GotoOK DEF ClearReminders
<1>12. ASSUME NEW q \in Requests, TellCancelled(q)
      PROVE  ReqOK'
  BY <1>12, <1>a, DoneOK DEF TellCancelled
<1>13. ASSUME NEW q \in Requests, NEW b \in Bookings, ReadToMove(q, b)
      PROVE  ReqOK'
  BY <1>13, <1>a DEF ReadToMove, ReqOK, Request, IdleReq, Times, At
<1>14. ASSUME NEW q \in Requests, NEW s \in Grid, CheckMove(q, s)
      PROVE  ReqOK'
  <2>1. link[Bk(q)] \subseteq Cals
    BY <1>14, <1>a, Carried DEF CheckMove, At
  <2>2. s \in Times /\ Bk(q) \in Bookings
    BY <1>14, Carried DEF Times, CheckMove, At
  <2> QED
    BY <1>14, <1>a, <2>1, <2>2 DEF CheckMove, ReqOK, Request
<1>15. ASSUME NEW q \in Requests, RefuseMove(q)
      PROVE  ReqOK'
  BY <1>15, <1>a, DoneOK DEF RefuseMove
<1>16. ASSUME NEW q \in Requests, NEW c \in Cals, MoveEntry(q, c)
      PROVE  ReqOK'
  BY <1>16, <1>a DEF MoveEntry, ReqOK, Request, IdleReq, Times, At
<1>17. ASSUME NEW q \in Requests, Unremind(q)
      PROVE  ReqOK'
  BY <1>17, <1>a, GotoOK DEF Unremind
<1>18. ASSUME NEW q \in Requests, Reremind(q)
      PROVE  ReqOK'
  BY <1>18, <1>a, GotoOK DEF Reremind
<1>19. ASSUME NEW q \in Requests, TellMoved(q)
      PROVE  ReqOK'
  BY <1>19, <1>a, GotoOK DEF TellMoved
<1>20. ASSUME NEW q \in Requests, MoveRow(q)
      PROVE  ReqOK'
  BY <1>20, <1>a, DoneOK DEF MoveRow
<1>21. ASSUME NEW q \in Requests, NEW c \in Cals, EntryFails(q, c)
      PROVE  ReqOK'
  BY <1>21, <1>a DEF EntryFails, ReqOK, Request, IdleReq, Times, At
<1>22. ASSUME NEW q \in Requests, Dies(q)
      PROVE  ReqOK'
  BY <1>22, <1>a, DoneOK DEF Dies
<1>23. CASE SaveLink
  BY <1>23, <1>a DEF SaveLink, ReqOK
<1>24. ASSUME NEW c \in Cals, InsertCal(c)
      PROVE  ReqOK'
  BY <1>24, <1>a DEF InsertCal, ReqOK
<1> QED
  BY <1>1, <1>2, <1>3, <1>4, <1>5, <1>6, <1>7, <1>8, <1>9, <1>10, <1>11, <1>12, <1>13,
     <1>14, <1>15, <1>16, <1>17, <1>18, <1>19, <1>20, <1>21, <1>22, <1>23, <1>24
     DEF Next, Create, Cancel, Reschedule

LEMMA BusyStep == Typed /\ [Next]_vars => BusyOK'
<1> SUFFICES ASSUME Typed, [Next]_vars
             PROVE  BusyOK'
  OBVIOUS
<1> USE DEF Typed, ReqOK, Request, Pcs, Goto, Done, IdleReq, Times, BusyOK, At, Bk, Timed, StoresOK
<1>1. CASE UNCHANGED vars
  BY <1>1 DEF vars, stores, settings
<1>2. ASSUME NEW q \in Requests, NEW b \in Bookings, NEW s \in Grid, Check(q, b, s)
      PROVE  BusyOK'
  BY <1>2 DEF Check
<1>3. ASSUME NEW q \in Requests, Insert(q)
      PROVE  BusyOK'
  BY <1>3 DEF Insert
<1>4. ASSUME NEW q \in Requests, NEW c \in Cals, WriteEntry(q, c)
      PROVE  BusyOK'
  BY <1>4 DEF WriteEntry
<1>5. ASSUME NEW q \in Requests, LinkEntry(q)
      PROVE  BusyOK'
  BY <1>5 DEF LinkEntry
<1>6. ASSUME NEW q \in Requests, Confirm(q)
      PROVE  BusyOK'
  BY <1>6 DEF Confirm
<1>7. ASSUME NEW q \in Requests, Remind(q)
      PROVE  BusyOK'
  BY <1>7 DEF Remind
<1>8. ASSUME NEW q \in Requests, NEW b \in Bookings, ReadToCancel(q, b)
      PROVE  BusyOK'
  BY <1>8 DEF ReadToCancel
<1>9. ASSUME NEW q \in Requests, MarkCancelled(q)
      PROVE  BusyOK'
  BY <1>9 DEF MarkCancelled
<1>10. ASSUME NEW q \in Requests, NEW c \in Cals, DeleteEntry(q, c)
      PROVE  BusyOK'
  BY <1>10 DEF DeleteEntry
<1>11. ASSUME NEW q \in Requests, ClearReminders(q)
      PROVE  BusyOK'
  BY <1>11 DEF ClearReminders
<1>12. ASSUME NEW q \in Requests, TellCancelled(q)
      PROVE  BusyOK'
  BY <1>12 DEF TellCancelled
<1>13. ASSUME NEW q \in Requests, NEW b \in Bookings, ReadToMove(q, b)
      PROVE  BusyOK'
  BY <1>13 DEF ReadToMove
<1>14. ASSUME NEW q \in Requests, NEW s \in Grid, CheckMove(q, s)
      PROVE  BusyOK'
  BY <1>14 DEF CheckMove
<1>15. ASSUME NEW q \in Requests, RefuseMove(q)
      PROVE  BusyOK'
  BY <1>15 DEF RefuseMove, stores, settings
<1>16. ASSUME NEW q \in Requests, NEW c \in Cals, MoveEntry(q, c)
      PROVE  BusyOK'
  BY <1>16 DEF MoveEntry
<1>17. ASSUME NEW q \in Requests, Unremind(q)
      PROVE  BusyOK'
  BY <1>17 DEF Unremind
<1>18. ASSUME NEW q \in Requests, Reremind(q)
      PROVE  BusyOK'
  BY <1>18 DEF Reremind
<1>19. ASSUME NEW q \in Requests, TellMoved(q)
      PROVE  BusyOK'
  BY <1>19 DEF TellMoved
<1>20. ASSUME NEW q \in Requests, MoveRow(q)
      PROVE  BusyOK'
  BY <1>20 DEF MoveRow
<1>21. ASSUME NEW q \in Requests, NEW c \in Cals, EntryFails(q, c)
      PROVE  BusyOK'
  BY <1>21 DEF EntryFails
<1>22. ASSUME NEW q \in Requests, Dies(q)
      PROVE  BusyOK'
  BY <1>22 DEF Dies
<1>23. CASE SaveLink
  BY <1>23 DEF SaveLink, stores, settings
<1>24. ASSUME NEW c \in Cals, InsertCal(c)
      PROVE  BusyOK'
  BY <1>24 DEF InsertCal, stores, settings
<1> QED
  BY <1>1, <1>2, <1>3, <1>4, <1>5, <1>6, <1>7, <1>8, <1>9, <1>10, <1>11, <1>12, <1>13,
     <1>14, <1>15, <1>16, <1>17, <1>18, <1>19, <1>20, <1>21, <1>22, <1>23, <1>24
     DEF Next, Create, Cancel, Reschedule

(***************************************************************************)
(* Every step keeps the stores of their types.                             *)
(***************************************************************************)
LEMMA StoresStep == Typed /\ [Next]_vars => StoresOK'
<1> SUFFICES ASSUME Typed, [Next]_vars
             PROVE  StoresOK'
  OBVIOUS
<1>0. StoresOK
  BY DEF Typed
<1> USE <1>0, MishapOK, Carried DEF StoresOK, stores, settings
<1>1. CASE UNCHANGED vars
  BY <1>1 DEF vars, stores, settings
<1>2. ASSUME NEW q \in Requests, NEW b \in Bookings, NEW s \in Grid, Check(q, b, s)
      PROVE  StoresOK'
  BY <1>2 DEF Check, At, Crossings, PastCheck
<1>3. ASSUME NEW q \in Requests, Insert(q)
      PROVE  StoresOK'
  BY <1>3 DEF Insert, At, Row, Times, Timed
<1>4. ASSUME NEW q \in Requests, NEW c \in Cals, WriteEntry(q, c)
      PROVE  StoresOK'
  BY <1>4 DEF WriteEntry, At, Times, Timed
<1>5. ASSUME NEW q \in Requests, LinkEntry(q)
      PROVE  StoresOK'
  BY <1>5 DEF LinkEntry, At
<1>6. ASSUME NEW q \in Requests, Confirm(q)
      PROVE  StoresOK'
  BY <1>6 DEF Confirm, At, Timed, Mail, Invited, Times
<1>7. ASSUME NEW q \in Requests, Remind(q)
      PROVE  StoresOK'
  BY <1>7 DEF Remind, At, Timed
<1>8. ASSUME NEW q \in Requests, NEW b \in Bookings, ReadToCancel(q, b)
      PROVE  StoresOK'
  BY <1>8 DEF ReadToCancel, At
<1>9. ASSUME NEW q \in Requests, MarkCancelled(q)
      PROVE  StoresOK'
  BY <1>9 DEF MarkCancelled, At, Row
<1>10. ASSUME NEW q \in Requests, NEW c \in Cals, DeleteEntry(q, c)
      PROVE  StoresOK'
  BY <1>10 DEF DeleteEntry, At, Times
<1>11. ASSUME NEW q \in Requests, ClearReminders(q)
      PROVE  StoresOK'
  BY <1>11 DEF ClearReminders, At
<1>12. ASSUME NEW q \in Requests, TellCancelled(q)
      PROVE  StoresOK'
  BY <1>12 DEF TellCancelled, At, Mail, Cancelled, Times
<1>13. ASSUME NEW q \in Requests, NEW b \in Bookings, ReadToMove(q, b)
      PROVE  StoresOK'
  BY <1>13 DEF ReadToMove, At
<1>14. ASSUME NEW q \in Requests, NEW s \in Grid, CheckMove(q, s)
      PROVE  StoresOK'
  BY <1>14 DEF CheckMove, At, Crossings, PastCheck
<1>15. ASSUME NEW q \in Requests, RefuseMove(q)
      PROVE  StoresOK'
  BY <1>15 DEF RefuseMove, At
<1>16. ASSUME NEW q \in Requests, NEW c \in Cals, MoveEntry(q, c)
      PROVE  StoresOK'
  BY <1>16 DEF MoveEntry, At, Times, Timed
<1>17. ASSUME NEW q \in Requests, Unremind(q)
      PROVE  StoresOK'
  BY <1>17 DEF Unremind, At
<1>18. ASSUME NEW q \in Requests, Reremind(q)
      PROVE  StoresOK'
  BY <1>18 DEF Reremind, At, Timed
<1>19. ASSUME NEW q \in Requests, TellMoved(q)
      PROVE  StoresOK'
  <2>1. Bk(q) \in Bookings /\ Invited(req[q].at) \in Mail
    BY <1>19, Carried DEF TellMoved, At, Timed, Mail, Invited, Times
  <2> QED
    BY <1>19, <2>1 DEF TellMoved, At
<1>20. ASSUME NEW q \in Requests, MoveRow(q)
      PROVE  StoresOK'
  BY <1>20 DEF MoveRow, At, Row, Times, Timed
<1>21. ASSUME NEW q \in Requests, NEW c \in Cals, EntryFails(q, c)
      PROVE  StoresOK'
  BY <1>21 DEF EntryFails, At
<1>22. ASSUME NEW q \in Requests, Dies(q)
      PROVE  StoresOK'
  BY <1>22 DEF Dies, At
<1>23. CASE SaveLink
  BY <1>23, BoundsAssumption DEF SaveLink, At
<1>24. ASSUME NEW c \in Cals, InsertCal(c)
      PROVE  StoresOK'
  BY <1>24 DEF InsertCal, At
<1> QED
  BY <1>1, <1>2, <1>3, <1>4, <1>5, <1>6, <1>7, <1>8, <1>9, <1>10, <1>11, <1>12, <1>13,
     <1>14, <1>15, <1>16, <1>17, <1>18, <1>19, <1>20, <1>21, <1>22, <1>23, <1>24
     DEF Next, Create, Cancel, Reschedule
LEMMA TypedStep == Typed /\ [Next]_vars => Typed'
  BY ReqStep, BusyStep, StoresStep DEF Typed

LEMMA TypedIsTypeOK == Typed => TypeOK
  BY DEF Typed, ReqOK, StoresOK, TypeOK, Request, Row, Mail, Pcs

(***************************************************************************)
(* Type correctness of the bookings, requests and stores.                  *)
(***************************************************************************)
THEOREM BookingTypeCorrect == Spec => []TypeOK
  BY InitTyped, TypedStep, TypedIsTypeOK, PTL DEF Spec

-----------------------------------------------------------------------------
(***************************************************************************)
(* A row is inserted once: while its request is about to, it is free, its  *)
(* tokens are not out and no other request is about it.  From then on it   *)
(* is never free again, and stands at a time of the grid.                  *)
(***************************************************************************)
InsertsFresh ==
    \A q \in Requests : At(q, "insert") =>
        /\ row[Bk(q)].status = "free"
        /\ Bk(q) \notin tokens
        /\ \A p \in Requests : Bk(p) = Bk(q) => p = q

Inserted == Pcs \ {"idle", "insert"}

RowsWritten ==
    /\ \A q \in Requests : req[q].pc \in Inserted => row[Bk(q)].status # "free"
    /\ \A b \in tokens : row[b].status # "free"
    /\ \A b \in Bookings : row[b].status # "free" => row[b].start \in Grid

Fresh == InsertsFresh /\ RowsWritten

LEMMA InitFresh == Init => Fresh
  BY DEF Init, Fresh, InsertsFresh, RowsWritten, Inserted, Pcs, At, Bk, IdleReq

LEMMA FreshStep == Typed /\ Fresh /\ [Next]_vars => Fresh'
<1> SUFFICES ASSUME Typed, Fresh, [Next]_vars
             PROVE  Fresh'
  OBVIOUS
<1>0. /\ req \in [Requests -> Request]
      /\ row \in [Bookings -> Row]
      /\ tokens \subseteq Bookings
      /\ BusyOK
      /\ NoBooking \notin Bookings
  BY BookingsAssumption DEF Typed, ReqOK, StoresOK
<1> USE DEF Fresh, InsertsFresh, RowsWritten, Inserted, Pcs, At, Bk, BusyOK, Timed, Goto, Done,
            IdleReq, Request, Row
<1>1. CASE UNCHANGED vars
  BY <1>1, <1>0 DEF vars, stores, settings
<1>2. ASSUME NEW q \in Requests, NEW b \in Bookings, NEW s \in Grid, Check(q, b, s)
      PROVE  Fresh'
  BY <1>2, <1>0 DEF Check, stores, settings, Claimed, Bk
<1>3. ASSUME NEW q \in Requests, Insert(q)
      PROVE  Fresh'
  BY <1>3, <1>0 DEF Insert, stores, settings
<1>4. ASSUME NEW q \in Requests, NEW c \in Cals, WriteEntry(q, c)
      PROVE  Fresh'
  BY <1>4, <1>0 DEF WriteEntry, stores, settings
<1>5. ASSUME NEW q \in Requests, LinkEntry(q)
      PROVE  Fresh'
  BY <1>5, <1>0 DEF LinkEntry, stores, settings
<1>6. ASSUME NEW q \in Requests, Confirm(q)
      PROVE  Fresh'
  BY <1>6, <1>0 DEF Confirm, stores, settings
<1>7. ASSUME NEW q \in Requests, Remind(q)
      PROVE  Fresh'
  BY <1>7, <1>0 DEF Remind, stores, settings
<1>8. ASSUME NEW q \in Requests, NEW b \in Bookings, ReadToCancel(q, b)
      PROVE  Fresh'
  BY <1>8, <1>0 DEF ReadToCancel, stores, settings
<1>9. ASSUME NEW q \in Requests, MarkCancelled(q)
      PROVE  Fresh'
  BY <1>9, <1>0 DEF MarkCancelled, stores, settings
<1>10. ASSUME NEW q \in Requests, NEW c \in Cals, DeleteEntry(q, c)
      PROVE  Fresh'
  BY <1>10, <1>0 DEF DeleteEntry, stores, settings
<1>11. ASSUME NEW q \in Requests, ClearReminders(q)
      PROVE  Fresh'
  BY <1>11, <1>0 DEF ClearReminders, stores, settings
<1>12. ASSUME NEW q \in Requests, TellCancelled(q)
      PROVE  Fresh'
  BY <1>12, <1>0 DEF TellCancelled, stores, settings
<1>13. ASSUME NEW q \in Requests, NEW b \in Bookings, ReadToMove(q, b)
      PROVE  Fresh'
  BY <1>13, <1>0 DEF ReadToMove, stores, settings
<1>14. ASSUME NEW q \in Requests, NEW s \in Grid, CheckMove(q, s)
      PROVE  Fresh'
  BY <1>14, <1>0 DEF CheckMove, stores, settings
<1>15. ASSUME NEW q \in Requests, RefuseMove(q)
      PROVE  Fresh'
  BY <1>15, <1>0 DEF RefuseMove, stores, settings
<1>16. ASSUME NEW q \in Requests, NEW c \in Cals, MoveEntry(q, c)
      PROVE  Fresh'
  BY <1>16, <1>0 DEF MoveEntry, stores, settings
<1>17. ASSUME NEW q \in Requests, Unremind(q)
      PROVE  Fresh'
  BY <1>17, <1>0 DEF Unremind, stores, settings
<1>18. ASSUME NEW q \in Requests, Reremind(q)
      PROVE  Fresh'
  BY <1>18, <1>0 DEF Reremind, stores, settings
<1>19. ASSUME NEW q \in Requests, TellMoved(q)
      PROVE  Fresh'
  BY <1>19, <1>0 DEF TellMoved, stores, settings
<1>20. ASSUME NEW q \in Requests, MoveRow(q)
      PROVE  Fresh'
  BY <1>20, <1>0 DEF MoveRow, stores, settings
<1>21. ASSUME NEW q \in Requests, NEW c \in Cals, EntryFails(q, c)
      PROVE  Fresh'
  BY <1>21, <1>0 DEF EntryFails, stores, settings
<1>22. ASSUME NEW q \in Requests, Dies(q)
      PROVE  Fresh'
  BY <1>22, <1>0 DEF Dies, stores, settings
<1>23. CASE SaveLink
  BY <1>23, <1>0 DEF SaveLink, stores, settings
<1>24. ASSUME NEW c \in Cals, InsertCal(c)
      PROVE  Fresh'
  BY <1>24, <1>0 DEF InsertCal, stores, settings
<1> QED
  BY <1>1, <1>2, <1>3, <1>4, <1>5, <1>6, <1>7, <1>8, <1>9, <1>10, <1>11, <1>12, <1>13,
     <1>14, <1>15, <1>16, <1>17, <1>18, <1>19, <1>20, <1>21, <1>22, <1>23, <1>24
     DEF Next, Create, Cancel, Reschedule

(***************************************************************************)
(* The only steps on the row of a booking that is cancelled move its start *)
(* or mark it again; nothing inserts it a second time.                     *)
(***************************************************************************)
LEMMA CancelledStep ==
    Typed /\ Fresh /\ [Next]_vars =>
        \A b \in Bookings : row[b].status = "cancelled" => row'[b].status = "cancelled"
<1> SUFFICES ASSUME Typed, Fresh, [Next]_vars, NEW b \in Bookings, row[b].status = "cancelled"
             PROVE  row'[b].status = "cancelled"
  OBVIOUS
<1>0. row \in [Bookings -> Row]
  BY DEF Typed, StoresOK
<1>1. ASSUME NEW q \in Requests, Insert(q)
      PROVE  row'[b].status = "cancelled"
  BY <1>0, <1>1 DEF Insert, Fresh, InsertsFresh, Row
<1>2. ASSUME NEW q \in Requests, MarkCancelled(q) \/ MoveRow(q)
      PROVE  row'[b].status = "cancelled"
  BY <1>0, <1>2 DEF MarkCancelled, MoveRow, Row
<1>3. CASE UNCHANGED row
  BY <1>3
<1>4. UNCHANGED row \/ \E q \in Requests : Insert(q) \/ MarkCancelled(q) \/ MoveRow(q)
  BY DEF Next, Create, Cancel, Reschedule, vars, stores, settings, Check, WriteEntry, LinkEntry,
         Confirm, Remind, ReadToCancel, DeleteEntry, ClearReminders, TellCancelled, ReadToMove,
         CheckMove, RefuseMove, MoveEntry, Unremind, Reremind, TellMoved, EntryFails, Dies,
         SaveLink, InsertCal
<1> QED
  BY <1>1, <1>2, <1>3, <1>4

(***************************************************************************)
(* A cancelled booking stays cancelled, whatever the requests about it and *)
(* however they interleave.                                                *)
(***************************************************************************)
THEOREM CancelledBookingsStay == Spec => CancelledIsFinal
<1>1. Typed /\ Fresh /\ [Next]_vars => (Typed /\ Fresh)'
  BY TypedStep, FreshStep
<1>2. Typed /\ Fresh /\ [Next]_vars =>
        [\A b \in Bookings : row[b].status = "cancelled" => row'[b].status = "cancelled"]_vars
  BY CancelledStep
<1> QED
  BY <1>1, <1>2, InitTyped, InitFresh, PTL DEF Spec, CancelledIsFinal

-----------------------------------------------------------------------------
(***************************************************************************)
(* Between its check and its row a request promises a time that no other   *)
(* check sees.  What it is close to, a booking or the promise of another   *)
(* request, is crossed with it.                                            *)
(***************************************************************************)
PromiseKept(q) ==
    \A d \in Confirmed :
        d # Bk(q) /\ Near(req[q].at, row[d].start) => {Bk(q), d} \in crossed

PromisesCrossed ==
    \A q, p \in PastCheck : Bk(q) # Bk(p) => {Bk(q), Bk(p)} \in crossed

Apart ==
    /\ BookingsApart
    /\ \A q \in PastCheck : PromiseKept(q)
    /\ PromisesCrossed

LEMMA NearSymmetric ==
    ASSUME NEW s \in Int, NEW t \in Int
    PROVE  Near(s, t) <=> Near(t, s)
  BY DEF Near

(***************************************************************************)
(* A slot that is available is near no confirmed booking.                  *)
(***************************************************************************)
LEMMA AvailableIsApart ==
    ASSUME Typed, Fresh, NEW s \in Grid, Available(s), NEW d \in Confirmed
    PROVE  ~Near(s, row[d].start)
<1>1. s \in Int /\ row[d].start \in Int
  BY GridAssumption DEF Confirmed, Fresh, RowsWritten
<1>2. Slot(row[d].start) \in Busy(linked)
  <2> DEFINE M == UNION {Meetings[c] \cup {Slot(t) : t \in Standing(c)} : c \in linked}
             B == {Slot(row[b].start) : b \in Confirmed}
  <2>1. Slot(row[d].start) \in B
    OBVIOUS
  <2>2. Busy(linked) = M \cup B
    BY DEF Busy
  <2> HIDE DEF M, B
  <2> QED
    BY <2>1, <2>2
<1>3. ~Overlaps(s - BufferBefore, s + Duration + BufferAfter,
                row[d].start, row[d].start + Duration)
  BY <1>2 DEF Available, Free, Slot
<1> QED
  BY <1>1, <1>3, SlotAssumption DEF Overlaps, Near, Gap

LEMMA InitApart == Init => Apart
  BY DEF Init, Apart, BookingsApart, Confirmed, PromiseKept, PromisesCrossed, PastCheck, IdleReq

(***************************************************************************)
(* A check that succeeds adds a promise near no row, and crosses it with   *)
(* every other promise.                                                    *)
(***************************************************************************)
LEMMA CheckApart ==
    ASSUME Typed, Fresh, Apart, NEW q \in Requests, NEW b \in Bookings, NEW s \in Grid,
           NEW p \in {"insert", "move"}, Available(s),
           req'[q].pc = p, req'[q].bk = b, req'[q].at = s,
           \A r \in Requests \ {q} : req'[r] = req[r],
           crossed' = crossed \cup Crossings(b), UNCHANGED row, q \notin PastCheck
    PROVE  Apart'
<1>1. PastCheck' = PastCheck \cup {q}
  BY DEF PastCheck
<1>2. Confirmed' = Confirmed
  BY DEF Confirmed
<1>3. BookingsApart'
  BY <1>2 DEF Apart, BookingsApart
<1>4. \A r \in PastCheck : Bk(r)' = Bk(r) /\ req'[r].at = req[r].at
  BY DEF PastCheck, Bk
<1>5. \A r \in PastCheck : PromiseKept(r)'
  BY <1>2, <1>4 DEF Apart, PromiseKept
<1>6. PromiseKept(q)'
  BY <1>2, AvailableIsApart DEF PromiseKept
<1>7. \A r \in PastCheck : {b, Bk(r)} \in crossed'
  BY DEF Crossings
<1>8. Bk(q)' = b
  BY DEF Bk
<1>9. PromisesCrossed'
  <2> SUFFICES ASSUME NEW r \in PastCheck', NEW t \in PastCheck', Bk(r)' # Bk(t)'
               PROVE  {Bk(r)', Bk(t)'} \in crossed'
    BY DEF PromisesCrossed
  <2>1. CASE r \in PastCheck /\ t \in PastCheck
    BY <2>1, <1>4 DEF Apart, PromisesCrossed
  <2>2. CASE r = q /\ t \in PastCheck
    BY <2>2, <1>4, <1>7, <1>8
  <2>3. CASE r \in PastCheck /\ t = q
    <3>1. {b, Bk(r)} = {Bk(r), b}
      OBVIOUS
    <3> QED
      BY <2>3, <3>1, <1>4, <1>7, <1>8
  <2> QED
    BY <1>1, <2>1, <2>2, <2>3
<1> QED
  BY <1>1, <1>3, <1>5, <1>6, <1>9 DEF Apart

(***************************************************************************)
(* A promise that becomes a row, by an insert or a move, is near only what *)
(* it is crossed with.                                                     *)
(***************************************************************************)
LEMMA KeepApart ==
    ASSUME Typed, Fresh, Apart, NEW q \in PastCheck,
           row' \in [Bookings -> Row], row'[Bk(q)].start = req[q].at,
           \A b \in Bookings \ {Bk(q)} : row'[b] = row[b],
           PastCheck' \subseteq PastCheck,
           \A r \in PastCheck' : Bk(r)' = Bk(r) /\ req'[r].at = req[r].at,
           UNCHANGED crossed
    PROVE  Apart'
<1>1. q \in Requests /\ Bk(q) \in Bookings /\ req[q].at \in Int
  BY Carried, GridAssumption DEF PastCheck, At, Timed
<1>2. \A d \in Confirmed' : d # Bk(q) => d \in Confirmed /\ row'[d] = row[d]
  BY DEF Confirmed
<1>3. \A d \in Confirmed : row[d].start \in Int
  BY GridAssumption DEF Confirmed, Fresh, RowsWritten
<1>4. \A d \in Confirmed' : d # Bk(q) /\ Near(req[q].at, row[d].start) => {Bk(q), d} \in crossed
  BY <1>2 DEF Apart, PromiseKept
<1>5. BookingsApart'
  <2> SUFFICES ASSUME NEW b \in Confirmed', NEW d \in Confirmed', b # d,
                      Near(row'[b].start, row'[d].start)
               PROVE  {b, d} \in crossed
    BY DEF BookingsApart
  <2>1. CASE b # Bk(q) /\ d # Bk(q)
    BY <2>1, <1>2 DEF Apart, BookingsApart
  <2>2. CASE b = Bk(q)
    BY <2>2, <1>2, <1>4
  <2>3. CASE d = Bk(q)
    <3>1. Near(req[q].at, row[b].start)
      BY <2>3, <1>1, <1>2, <1>3, NearSymmetric
    <3>2. {d, b} \in crossed
      BY <2>3, <3>1, <1>4
    <3>3. {d, b} = {b, d}
      OBVIOUS
    <3> QED
      BY <3>2, <3>3
  <2> QED
    BY <2>1, <2>2, <2>3
<1>6. \A r \in PastCheck' : PromiseKept(r)'
  <2> SUFFICES ASSUME NEW r \in PastCheck', NEW d \in Confirmed', d # Bk(r),
                      Near(req[r].at, row'[d].start)
               PROVE  {Bk(r), d} \in crossed
    BY DEF PromiseKept
  <2>1. CASE d # Bk(q)
    BY <2>1, <1>2 DEF Apart, PromiseKept
  <2>2. CASE d = Bk(q)
    BY <2>2 DEF Apart, PromisesCrossed
  <2> QED
    BY <2>1, <2>2
<1>7. PromisesCrossed'
  BY DEF Apart, PromisesCrossed
<1> QED
  BY <1>5, <1>6, <1>7 DEF Apart

(***************************************************************************)
(* Any other step makes no promise and no row.                             *)
(***************************************************************************)
LEMMA OtherApart ==
    ASSUME Apart, PastCheck' \subseteq PastCheck,
           \A r \in PastCheck' : Bk(r)' = Bk(r) /\ req'[r].at = req[r].at,
           Confirmed' \subseteq Confirmed,
           \A b \in Confirmed' : row'[b].start = row[b].start,
           crossed \subseteq crossed'
    PROVE  Apart'
<1>1. BookingsApart'
  BY DEF Apart, BookingsApart
<1>2. \A r \in PastCheck' : PromiseKept(r)'
  BY DEF Apart, PromiseKept
<1>3. PromisesCrossed'
  BY DEF Apart, PromisesCrossed
<1> QED
  BY <1>1, <1>2, <1>3 DEF Apart

LEMMA ApartStep == Typed /\ Fresh /\ Apart /\ [Next]_vars => Apart'
<1> SUFFICES ASSUME Typed, Fresh, Apart, [Next]_vars
             PROVE  Apart'
  OBVIOUS
<1>0. req \in [Requests -> Request] /\ row \in [Bookings -> Row]
  BY DEF Typed, ReqOK, StoresOK
<1>w. row' \in [Bookings -> Row]
  BY StoresStep DEF StoresOK
<1> USE DEF PastCheck, Bk, At, Goto, Done, IdleReq, Confirmed, Request, Row, Pcs
<1>1. CASE UNCHANGED vars
  BY <1>1, <1>0, OtherApart DEF vars, stores, settings
<1>2. ASSUME NEW q \in Requests, NEW b \in Bookings, NEW s \in Grid, Check(q, b, s)
      PROVE  Apart'
  BY <1>2, <1>0, Carried, CheckApart DEF Check, stores, settings
<1>3. ASSUME NEW q \in Requests, Insert(q)
      PROVE  Apart'
  BY <1>3, <1>0, <1>w, Carried, KeepApart DEF Insert
<1>4. ASSUME NEW q \in Requests, NEW c \in Cals, WriteEntry(q, c)
      PROVE  Apart'
  BY <1>4, <1>0, OtherApart DEF WriteEntry, stores, settings
<1>5. ASSUME NEW q \in Requests, LinkEntry(q)
      PROVE  Apart'
  BY <1>5, <1>0, OtherApart DEF LinkEntry, stores, settings
<1>6. ASSUME NEW q \in Requests, Confirm(q)
      PROVE  Apart'
  BY <1>6, <1>0, OtherApart DEF Confirm, stores, settings
<1>7. ASSUME NEW q \in Requests, Remind(q)
      PROVE  Apart'
  BY <1>7, <1>0, OtherApart DEF Remind, stores, settings
<1>8. ASSUME NEW q \in Requests, NEW b \in Bookings, ReadToCancel(q, b)
      PROVE  Apart'
  BY <1>8, <1>0, OtherApart DEF ReadToCancel, stores, settings
<1>9. ASSUME NEW q \in Requests, MarkCancelled(q)
      PROVE  Apart'
  BY <1>9, <1>0, OtherApart DEF MarkCancelled, stores, settings
<1>10. ASSUME NEW q \in Requests, NEW c \in Cals, DeleteEntry(q, c)
      PROVE  Apart'
  BY <1>10, <1>0, OtherApart DEF DeleteEntry, stores, settings
<1>11. ASSUME NEW q \in Requests, ClearReminders(q)
      PROVE  Apart'
  BY <1>11, <1>0, OtherApart DEF ClearReminders, stores, settings
<1>12. ASSUME NEW q \in Requests, TellCancelled(q)
      PROVE  Apart'
  BY <1>12, <1>0, OtherApart DEF TellCancelled, stores, settings
<1>13. ASSUME NEW q \in Requests, NEW b \in Bookings, ReadToMove(q, b)
      PROVE  Apart'
  BY <1>13, <1>0, OtherApart DEF ReadToMove, stores, settings
<1>14. ASSUME NEW q \in Requests, NEW s \in Grid, CheckMove(q, s)
      PROVE  Apart'
  BY <1>14, <1>0, Carried, CheckApart DEF CheckMove, stores, settings
<1>15. ASSUME NEW q \in Requests, RefuseMove(q)
      PROVE  Apart'
  BY <1>15, <1>0, OtherApart DEF RefuseMove, stores, settings
<1>16. ASSUME NEW q \in Requests, NEW c \in Cals, MoveEntry(q, c)
      PROVE  Apart'
  BY <1>16, <1>0, OtherApart DEF MoveEntry, stores, settings
<1>17. ASSUME NEW q \in Requests, Unremind(q)
      PROVE  Apart'
  BY <1>17, <1>0, OtherApart DEF Unremind, stores, settings
<1>18. ASSUME NEW q \in Requests, Reremind(q)
      PROVE  Apart'
  BY <1>18, <1>0, OtherApart DEF Reremind, stores, settings
<1>19. ASSUME NEW q \in Requests, TellMoved(q)
      PROVE  Apart'
  BY <1>19, <1>0, OtherApart DEF TellMoved, stores, settings
<1>20. ASSUME NEW q \in Requests, MoveRow(q)
      PROVE  Apart'
  BY <1>20, <1>0, <1>w, Carried, KeepApart DEF MoveRow
<1>21. ASSUME NEW q \in Requests, NEW c \in Cals, EntryFails(q, c)
      PROVE  Apart'
  BY <1>21, <1>0, OtherApart DEF EntryFails, stores, settings
<1>22. ASSUME NEW q \in Requests, Dies(q)
      PROVE  Apart'
  BY <1>22, <1>0, OtherApart DEF Dies, stores, settings
<1>23. CASE SaveLink
  BY <1>23, <1>0, OtherApart DEF SaveLink, stores, settings
<1>24. ASSUME NEW c \in Cals, InsertCal(c)
      PROVE  Apart'
  BY <1>24, <1>0, OtherApart DEF InsertCal, stores, settings
<1> QED
  BY <1>1, <1>2, <1>3, <1>4, <1>5, <1>6, <1>7, <1>8, <1>9, <1>10, <1>11, <1>12, <1>13,
     <1>14, <1>15, <1>16, <1>17, <1>18, <1>19, <1>20, <1>21, <1>22, <1>23, <1>24
     DEF Next, Create, Cancel, Reschedule

(***************************************************************************)
(* Two confirmed bookings overlap, or come closer than the smaller buffer, *)
(* only if the check of one ran while the other was past its check and not *)
(* yet in its row: for every number of bookings and requests, every length *)
(* of slot, any buffers and any calendars.                                 *)
(***************************************************************************)
THEOREM BookingsKeepApart == Spec => []BookingsApart
<1>1. Typed /\ Fresh /\ Apart /\ [Next]_vars => (Typed /\ Fresh /\ Apart)'
  BY TypedStep, FreshStep, ApartStep
<1>2. Apart => BookingsApart
  BY DEF Apart
<1> QED
  BY <1>1, <1>2, InitTyped, InitFresh, InitApart, PTL DEF Spec

-----------------------------------------------------------------------------
(***************************************************************************)
(* The events that are about to be recorded, at most one for each request  *)
(* between its write and the row of it.                                    *)
(***************************************************************************)
Linking == {q \in Requests : At(q, "link")}
Unlinked == {p \in Orphans : \A q \in Linking : p[1] = Bk(q) => p[2] \notin req[q].cal}

OneInHand == \A q \in Linking : \E c \in Cals : req[q].cal = {c}

Counted ==
    /\ OneInHand
    /\ IsFiniteSet(Unlinked)
    /\ Cardinality(Unlinked) <= mishaps

LEMMA InitCounted == Init => Counted
<1> SUFFICES ASSUME Init
             PROVE  Counted
  OBVIOUS
<1>1. Unlinked = {}
  BY DEF Init, Unlinked, Orphans
<1>2. OneInHand
  BY DEF Init, OneInHand, Linking, At, IdleReq
<1> QED
  BY <1>1, <1>2, FS_EmptySet DEF Init, Counted

(***************************************************************************)
(* A step that leaves no further event behind keeps the count, and so does *)
(* one that leaves one behind and is a mishap.                             *)
(***************************************************************************)
LEMMA NoneLost ==
    ASSUME Typed, Counted, OneInHand', Unlinked' \subseteq Unlinked,
           mishaps' \in Nat, mishaps <= mishaps'
    PROVE  Counted'
<1>1. IsFiniteSet(Unlinked') /\ Cardinality(Unlinked') <= Cardinality(Unlinked)
  BY FS_Subset DEF Counted
<1>2. Cardinality(Unlinked) \in Nat /\ Cardinality(Unlinked') \in Nat
  BY <1>1, FS_CardinalityType DEF Counted
<1> QED
  BY <1>1, <1>2, BoundsAssumption DEF Counted, Typed, StoresOK

LEMMA OneLost ==
    ASSUME Typed, Counted, OneInHand', NEW p, Unlinked' \subseteq Unlinked \cup {p},
           mishaps' = mishaps + 1
    PROVE  Counted'
<1>1. /\ IsFiniteSet(Unlinked \cup {p})
      /\ Cardinality(Unlinked \cup {p}) <= Cardinality(Unlinked) + 1
  <2>1. Cardinality(Unlinked) \in Nat
    BY FS_CardinalityType DEF Counted
  <2> QED
    BY <2>1, FS_AddElement DEF Counted
<1>2. /\ IsFiniteSet(Unlinked')
      /\ Cardinality(Unlinked') <= Cardinality(Unlinked \cup {p})
  BY <1>1, FS_Subset
<1>3. /\ Cardinality(Unlinked) \in Nat
      /\ Cardinality(Unlinked') \in Nat
      /\ Cardinality(Unlinked \cup {p}) \in Nat
  BY <1>1, <1>2, FS_CardinalityType DEF Counted
<1> QED
  BY <1>1, <1>2, <1>3, BoundsAssumption DEF Counted, Typed, StoresOK

LEMMA Undisturbed ==
    ASSUME Typed, Counted, Linking' = Linking, \A q \in Linking : req'[q] = req[q],
           Orphans' \subseteq Orphans, mishaps' \in Nat, mishaps <= mishaps'
    PROVE  Counted'
<1>1. OneInHand'
  BY DEF Counted, OneInHand
<1>2. Unlinked' \subseteq Unlinked
  BY DEF Unlinked, Bk
<1> QED
  BY <1>1, <1>2, NoneLost

LEMMA CountedStep == Typed /\ Counted /\ [Next]_vars => Counted'
<1> SUFFICES ASSUME Typed, Counted, [Next]_vars
             PROVE  Counted'
  OBVIOUS
<1>0. /\ req \in [Requests -> Request]
      /\ entry \in [Bookings -> [Cals -> Times]]
      /\ link \in [Bookings -> SUBSET Cals]
      /\ BusyOK
      /\ OneInHand
      /\ mishaps \in Nat
  BY BoundsAssumption DEF Typed, ReqOK, StoresOK, Counted
<1> USE DEF Bk, At, Goto, Done, IdleReq, Request, Linking, OneInHand, Unlinked, Orphans,
            Mishap, BusyOK
<1>1. CASE UNCHANGED vars
  BY <1>1, <1>0, NoneLost DEF vars, stores, settings
<1>2. ASSUME NEW q \in Requests, NEW b \in Bookings, NEW s \in Grid, Check(q, b, s)
      PROVE  Counted'
  BY <1>2, <1>0, NoneLost DEF Check, stores, settings
<1>3. ASSUME NEW q \in Requests, Insert(q)
      PROVE  Counted'
  <2>1. Linking' = Linking /\ \A r \in Linking : req'[r] = req[r]
    BY <1>3, <1>0 DEF Insert
  <2>2. Orphans' \subseteq Orphans
    BY <1>3, <1>0 DEF Insert
  <2> QED
    BY <1>3, <1>0, <2>1, <2>2, Undisturbed DEF Insert
<1>4. ASSUME NEW q \in Requests, NEW c \in Cals, WriteEntry(q, c)
      PROVE  Counted'
  BY <1>4, <1>0, NoneLost DEF WriteEntry, stores, settings
<1>5. ASSUME NEW q \in Requests, LinkEntry(q)
      PROVE  Counted'
  <2>1. PICK c \in Cals : req[q].cal = {c}
    BY <1>5, <1>0 DEF LinkEntry
  <2>2. Linking' = Linking \ {q} /\ \A r \in Linking \ {q} : req'[r] = req[r]
    BY <1>5, <1>0 DEF LinkEntry
  <2>3. OneInHand'
    BY <1>0, <2>2
  <2>4. CASE link' = [link EXCEPT ![Bk(q)] = @ \cup req[q].cal] /\ UNCHANGED mishaps
    <3>1. Unlinked' \subseteq Unlinked
      BY <1>5, <1>0, <2>2, <2>4 DEF LinkEntry
    <3> QED
      BY <1>0, <2>3, <2>4, <3>1, NoneLost
  <2>5. CASE Mishap /\ UNCHANGED link
    <3>1. Unlinked' \subseteq Unlinked \cup {<<Bk(q), c>>}
      BY <1>5, <1>0, <2>1, <2>2, <2>5 DEF LinkEntry
    <3> QED
      BY <2>3, <2>5, <3>1, OneLost
  <2> QED
    BY <1>5, <2>4, <2>5 DEF LinkEntry
<1>6. ASSUME NEW q \in Requests, Confirm(q)
      PROVE  Counted'
  BY <1>6, <1>0, NoneLost DEF Confirm, stores, settings
<1>7. ASSUME NEW q \in Requests, Remind(q)
      PROVE  Counted'
  BY <1>7, <1>0, NoneLost DEF Remind, stores, settings
<1>8. ASSUME NEW q \in Requests, NEW b \in Bookings, ReadToCancel(q, b)
      PROVE  Counted'
  BY <1>8, <1>0, NoneLost DEF ReadToCancel, stores, settings
<1>9. ASSUME NEW q \in Requests, MarkCancelled(q)
      PROVE  Counted'
  <2>1. Linking' = Linking /\ \A r \in Linking : req'[r] = req[r]
    BY <1>9, <1>0 DEF MarkCancelled
  <2>2. Orphans' \subseteq Orphans
    BY <1>9, <1>0 DEF MarkCancelled
  <2> QED
    BY <1>9, <1>0, <2>1, <2>2, Undisturbed DEF MarkCancelled
<1>10. ASSUME NEW q \in Requests, NEW c \in Cals, DeleteEntry(q, c)
      PROVE  Counted'
  <2>1. Linking' = Linking /\ \A r \in Linking : req'[r] = req[r]
    BY <1>10, <1>0 DEF DeleteEntry
  <2>2. Orphans' \subseteq Orphans
    BY <1>10, <1>0 DEF DeleteEntry
  <2> QED
    BY <1>10, <1>0, <2>1, <2>2, Undisturbed DEF DeleteEntry
<1>11. ASSUME NEW q \in Requests, ClearReminders(q)
      PROVE  Counted'
  BY <1>11, <1>0, NoneLost DEF ClearReminders, stores, settings
<1>12. ASSUME NEW q \in Requests, TellCancelled(q)
      PROVE  Counted'
  BY <1>12, <1>0, NoneLost DEF TellCancelled, stores, settings
<1>13. ASSUME NEW q \in Requests, NEW b \in Bookings, ReadToMove(q, b)
      PROVE  Counted'
  BY <1>13, <1>0, NoneLost DEF ReadToMove, stores, settings
<1>14. ASSUME NEW q \in Requests, NEW s \in Grid, CheckMove(q, s)
      PROVE  Counted'
  BY <1>14, <1>0, NoneLost DEF CheckMove, stores, settings
<1>15. ASSUME NEW q \in Requests, RefuseMove(q)
      PROVE  Counted'
  BY <1>15, <1>0, NoneLost DEF RefuseMove, stores, settings
<1>16. ASSUME NEW q \in Requests, NEW c \in Cals, MoveEntry(q, c)
      PROVE  Counted'
  <2>1. Linking' = Linking /\ \A r \in Linking : req'[r] = req[r]
    BY <1>16, <1>0 DEF MoveEntry
  <2>2. Orphans' \subseteq Orphans
    BY <1>16, <1>0 DEF MoveEntry
  <2> QED
    BY <1>16, <1>0, <2>1, <2>2, Undisturbed DEF MoveEntry
<1>17. ASSUME NEW q \in Requests, Unremind(q)
      PROVE  Counted'
  BY <1>17, <1>0, NoneLost DEF Unremind, stores, settings
<1>18. ASSUME NEW q \in Requests, Reremind(q)
      PROVE  Counted'
  BY <1>18, <1>0, NoneLost DEF Reremind, stores, settings
<1>19. ASSUME NEW q \in Requests, TellMoved(q)
      PROVE  Counted'
  BY <1>19, <1>0, NoneLost DEF TellMoved, stores, settings
<1>20. ASSUME NEW q \in Requests, MoveRow(q)
      PROVE  Counted'
  BY <1>20, <1>0, NoneLost DEF MoveRow, stores, settings
<1>21. ASSUME NEW q \in Requests, NEW c \in Cals, EntryFails(q, c)
      PROVE  Counted'
  <2>1. Linking' = Linking /\ \A r \in Linking : req'[r] = req[r]
    BY <1>21, <1>0 DEF EntryFails
  <2>2. Orphans' \subseteq Orphans
    BY <1>21, <1>0 DEF EntryFails, stores
  <2> QED
    BY <1>21, <1>0, <2>1, <2>2, Undisturbed DEF EntryFails
<1>22. ASSUME NEW q \in Requests, Dies(q)
      PROVE  Counted'
  <2>1. CASE ~At(q, "link")
    <3>1. Linking' = Linking /\ \A r \in Linking : req'[r] = req[r]
      BY <1>22, <1>0, <2>1 DEF Dies
    <3>2. Orphans' \subseteq Orphans
      BY <1>22, <1>0 DEF Dies, stores
    <3> QED
      BY <1>22, <1>0, <3>1, <3>2, Undisturbed DEF Dies
  <2>2. CASE At(q, "link")
    <3>1. PICK c \in Cals : req[q].cal = {c}
      BY <2>2, <1>0
    <3>2. Linking' = Linking \ {q} /\ \A r \in Linking \ {q} : req'[r] = req[r]
      BY <1>22, <1>0 DEF Dies
    <3>3. OneInHand'
      BY <1>0, <3>2
    <3>4. Unlinked' \subseteq Unlinked \cup {<<Bk(q), c>>}
      BY <1>22, <1>0, <3>1, <3>2 DEF Dies, stores
    <3> QED
      BY <1>22, <3>3, <3>4, OneLost DEF Dies
  <2> QED
    BY <2>1, <2>2
<1>23. CASE SaveLink
  BY <1>23, <1>0, NoneLost DEF SaveLink, stores, settings
<1>24. ASSUME NEW c \in Cals, InsertCal(c)
      PROVE  Counted'
  BY <1>24, <1>0, NoneLost DEF InsertCal, stores, settings
<1> QED
  BY <1>1, <1>2, <1>3, <1>4, <1>5, <1>6, <1>7, <1>8, <1>9, <1>10, <1>11, <1>12, <1>13,
     <1>14, <1>15, <1>16, <1>17, <1>18, <1>19, <1>20, <1>21, <1>22, <1>23, <1>24
     DEF Next, Create, Cancel, Reschedule

(***************************************************************************)
(* There are at most as many pending events as requests that hold one.     *)
(***************************************************************************)
LEMMA FewPending ==
    ASSUME Typed, OneInHand
    PROVE  /\ IsFiniteSet(Orphans \ Unlinked)
           /\ Cardinality(Orphans \ Unlinked) <= Cardinality(Linking)
<1> DEFINE f == [q \in Linking |-> <<Bk(q), CHOOSE c \in Cals : req[q].cal = {c}>>]
           P == {f[q] : q \in Linking}
<1>1. IsFiniteSet(Linking)
  BY BookingsAssumption, FS_Subset DEF Linking
<1>2. f \in Surjection(Linking, P)
  BY DEF Surjection
<1>3. IsFiniteSet(P) /\ Cardinality(P) <= Cardinality(Linking)
  BY <1>1, <1>2, FS_Surjection
<1>4. Orphans \ Unlinked \subseteq P
  <2> SUFFICES ASSUME NEW p \in Orphans, NEW q \in Linking, p[1] = Bk(q), p[2] \in req[q].cal
               PROVE  p \in P
    BY DEF Unlinked
  <2>1. PICK c \in Cals : req[q].cal = {c}
    BY DEF OneInHand
  <2>2. (CHOOSE d \in Cals : req[q].cal = {d}) = c
    BY <2>1
  <2>3. p = <<Bk(q), c>>
    BY <2>1 DEF Orphans
  <2> QED
    BY <2>2, <2>3
<1>5. IsFiniteSet(Orphans \ Unlinked) /\ Cardinality(Orphans \ Unlinked) <= Cardinality(P)
  BY <1>3, <1>4, FS_Subset
<1>6. /\ Cardinality(Orphans \ Unlinked) \in Nat
      /\ Cardinality(P) \in Nat
      /\ Cardinality(Linking) \in Nat
  BY <1>1, <1>3, <1>5, FS_CardinalityType
<1> HIDE DEF P
<1> QED
  BY <1>3, <1>5, <1>6

LEMMA CountedIsEnough == Typed /\ Counted => OrphansByMishap
<1> SUFFICES ASSUME Typed, Counted
             PROVE  OrphansByMishap
  OBVIOUS
<1> DEFINE P == Orphans \ Unlinked
<1>1. IsFiniteSet(P) /\ Cardinality(P) <= Cardinality(Linking)
  BY FewPending DEF Counted
<1>2. Orphans = Unlinked \cup P
  BY DEF Unlinked
<1>3. /\ IsFiniteSet(Orphans)
      /\ Cardinality(Orphans) = Cardinality(Unlinked) + Cardinality(P)
                                  - Cardinality(Unlinked \cap P)
  BY <1>1, <1>2, FS_Union DEF Counted
<1>4. Unlinked \cap P = {}
  OBVIOUS
<1>5. IsFiniteSet(Linking)
  BY BookingsAssumption, FS_Subset DEF Linking
<1>6. /\ Cardinality(Unlinked) \in Nat
      /\ Cardinality(P) \in Nat
      /\ Cardinality(Linking) \in Nat
      /\ mishaps \in Nat
  BY <1>1, <1>5, FS_CardinalityType, BoundsAssumption DEF Counted, Typed, StoresOK
<1>7. Cardinality(Unlinked \cap P) = 0
  BY <1>4, FS_EmptySet
<1> HIDE DEF P
<1>8. Cardinality(Orphans) <= mishaps + Cardinality(Linking)
  BY <1>1, <1>3, <1>6, <1>7 DEF Counted
<1> QED
  BY <1>8 DEF OrphansByMishap, Linking

(***************************************************************************)
(* The events that cancel and reschedule will not find are at most as many *)
(* as the mishaps so far, and the writes being recorded.                   *)
(***************************************************************************)
THEOREM OrphansAreFew == Spec => []OrphansByMishap
<1>1. Typed /\ Counted /\ [Next]_vars => (Typed /\ Counted)'
  BY TypedStep, CountedStep
<1> QED
  BY <1>1, InitTyped, InitCounted, CountedIsEnough, PTL DEF Spec

-----------------------------------------------------------------------------
(***************************************************************************)
(* How far a request has come with the stores of its booking, and what a   *)
(* booking no request is about looks like: nothing has failed so far, and  *)
(* no two requests about it ran at once.                                   *)
(***************************************************************************)
Hosts == Cals \ OthersCals

\* At most one request is about a booking that is not marked as crossed.
Alone ==
    /\ \A q \in Requests : At(q, "idle") => Bk(q) = NoBooking
    /\ \A p, q \in Requests :
          Bk(p) = Bk(q) /\ Bk(p) \in Bookings /\ {Bk(p)} \notin crossed => p = q

\* A request that read the link before it was first saved knows every calendar.
Whole == edits = 0 => linked = Cals

Placed(b, c, s) == entry[b][c] = s \/ (edits > 0 /\ entry[b][c] = NoTime)
Recorded(b, also) == \A c \in Cals : entry[b][c] = NoTime \/ c \in link[b] \/ c \in also
NotYet(b) == row[b].status = "free" /\ \A c \in Cals : entry[b][c] = NoTime
Stands(b) == row[b].status = "confirmed" /\ MovedTogether(b)

Peace(b) ==
    /\ Recorded(b, {})
    /\ row[b].status = "free" => NotYet(b)
    /\ MovedTogether(b)
    /\ GoneEverywhere(b)

Creating(q) ==
    LET b == Bk(q) s == req[q].at IN
    /\ At(q, "insert") => NotYet(b) /\ \A c \in Hosts : c \in req[q].todo \/ edits > 0
    /\ req[q].pc \in {"write", "link", "remind"} =>
         /\ row[b].status = "confirmed" /\ row[b].start = s
         /\ \A c \in Hosts : c \in req[q].todo \/ Placed(b, c, s)
    /\ At(q, "remind") => req[q].todo = {} /\ told[b] = Invited(s)

Cancelling(q) ==
    LET b == Bk(q) IN
    /\ req[q].pc \in {"cancel", "check"} => Stands(b)
    /\ req[q].pc \in {"delete", "regret"} =>
         /\ row[b].status = "cancelled"
         /\ \A c \in Hosts : c \in req[q].todo \/ entry[b][c] = NoTime
    /\ At(q, "regret") => req[q].todo = {} /\ reminder[b] = {}

Moving(q) ==
    LET b == Bk(q) s == req[q].at IN
    /\ req[q].pc \in {"move", "reremind", "retell", "rerow"} =>
         /\ row[b].status = "confirmed" /\ row[b].start \in Grid
         /\ \A c \in Hosts : IF c \in req[q].todo THEN Placed(b, c, row[b].start)
                                                  ELSE Placed(b, c, s)
    /\ req[q].pc \in {"reremind", "retell", "rerow"} => req[q].todo = {}
    /\ At(q, "reremind") => reminder[b] = {}
    /\ req[q].pc \in {"retell", "rerow"} => reminder[b] = {s}
    /\ At(q, "rerow") => told[b] = Invited(s)

Stage(q) ==
    /\ Recorded(Bk(q), IF At(q, "link") THEN req[q].cal ELSE {})
    /\ Creating(q) /\ Cancelling(q) /\ Moving(q)

Smooth(b) == mishaps = 0 /\ {b} \notin crossed

Track ==
    \A b \in Bookings : Smooth(b) =>
        /\ Quiet(b) => Peace(b)
        /\ \A q \in Requests : Bk(q) = b => Stage(q)

LEMMA InitTrack == Init => Alone /\ Whole /\ Track
  BY BookingsAssumption
     DEF Init, Alone, Whole, Track, Smooth, Quiet, Peace, Recorded, NotYet, MovedTogether,
         GoneEverywhere, At, Bk, IdleReq

LEMMA AloneStep == Typed /\ Alone /\ [Next]_vars => Alone'
<1> SUFFICES ASSUME Typed, Alone, [Next]_vars
             PROVE  Alone'
  OBVIOUS
<1> USE BookingsAssumption, Carried DEF Alone, Typed, ReqOK, Request, At, Bk, Goto, Done, IdleReq
<1>1. CASE UNCHANGED vars
  BY <1>1 DEF vars
<1>2. ASSUME NEW q \in Requests, NEW b \in Bookings, NEW s \in Grid, Check(q, b, s)
      PROVE  Alone'
  BY <1>2 DEF Check, Crossings, Claimed
<1>3. ASSUME NEW q \in Requests, Insert(q)
      PROVE  Alone'
  BY <1>3 DEF Insert
<1>4. ASSUME NEW q \in Requests, NEW c \in Cals, WriteEntry(q, c)
      PROVE  Alone'
  BY <1>4 DEF WriteEntry
<1>5. ASSUME NEW q \in Requests, LinkEntry(q)
      PROVE  Alone'
  BY <1>5 DEF LinkEntry
<1>6. ASSUME NEW q \in Requests, Confirm(q)
      PROVE  Alone'
  BY <1>6 DEF Confirm
<1>7. ASSUME NEW q \in Requests, Remind(q)
      PROVE  Alone'
  BY <1>7 DEF Remind
<1>8. ASSUME NEW q \in Requests, NEW b \in Bookings, ReadToCancel(q, b)
      PROVE  Alone'
  BY <1>8 DEF ReadToCancel, Claimed
<1>9. ASSUME NEW q \in Requests, MarkCancelled(q)
      PROVE  Alone'
  BY <1>9 DEF MarkCancelled
<1>10. ASSUME NEW q \in Requests, NEW c \in Cals, DeleteEntry(q, c)
      PROVE  Alone'
  BY <1>10 DEF DeleteEntry
<1>11. ASSUME NEW q \in Requests, ClearReminders(q)
      PROVE  Alone'
  BY <1>11 DEF ClearReminders
<1>12. ASSUME NEW q \in Requests, TellCancelled(q)
      PROVE  Alone'
  BY <1>12 DEF TellCancelled
<1>13. ASSUME NEW q \in Requests, NEW b \in Bookings, ReadToMove(q, b)
      PROVE  Alone'
  BY <1>13 DEF ReadToMove, Claimed
<1>14. ASSUME NEW q \in Requests, NEW s \in Grid, CheckMove(q, s)
      PROVE  Alone'
  BY <1>14 DEF CheckMove, Crossings
<1>15. ASSUME NEW q \in Requests, RefuseMove(q)
      PROVE  Alone'
  BY <1>15 DEF RefuseMove
<1>16. ASSUME NEW q \in Requests, NEW c \in Cals, MoveEntry(q, c)
      PROVE  Alone'
  BY <1>16 DEF MoveEntry
<1>17. ASSUME NEW q \in Requests, Unremind(q)
      PROVE  Alone'
  BY <1>17 DEF Unremind
<1>18. ASSUME NEW q \in Requests, Reremind(q)
      PROVE  Alone'
  BY <1>18 DEF Reremind
<1>19. ASSUME NEW q \in Requests, TellMoved(q)
      PROVE  Alone'
  BY <1>19 DEF TellMoved
<1>20. ASSUME NEW q \in Requests, MoveRow(q)
      PROVE  Alone'
  BY <1>20 DEF MoveRow
<1>21. ASSUME NEW q \in Requests, NEW c \in Cals, EntryFails(q, c)
      PROVE  Alone'
  BY <1>21 DEF EntryFails
<1>22. ASSUME NEW q \in Requests, Dies(q)
      PROVE  Alone'
  BY <1>22 DEF Dies
<1>23. CASE SaveLink
  BY <1>23 DEF SaveLink
<1>24. ASSUME NEW c \in Cals, InsertCal(c)
      PROVE  Alone'
  BY <1>24 DEF InsertCal
<1> QED
  BY <1>1, <1>2, <1>3, <1>4, <1>5, <1>6, <1>7, <1>8, <1>9, <1>10, <1>11, <1>12, <1>13, <1>14,
     <1>15, <1>16, <1>17, <1>18, <1>19, <1>20, <1>21, <1>22, <1>23, <1>24
     DEF Next, Create, Cancel, Reschedule

\* A step of q about b0 alone.
StepOn(q, b0) ==
    /\ Bk(q) \in {b0, NoBooking} /\ Bk(q)' \in {b0, NoBooking}
    /\ Bk(q) = b0 \/ Bk(q)' = b0
    /\ \A p \in Requests : p # q => req'[p] = req[p]
    /\ \A b \in Bookings : b # b0 =>
         /\ row'[b] = row[b] /\ entry'[b] = entry[b] /\ link'[b] = link[b]
         /\ reminder'[b] = reminder[b] /\ told'[b] = told[b]
    /\ edits' = edits /\ crossed \subseteq crossed'
    /\ mishaps' = 0 => mishaps = 0

\* What the step must show of its booking.
Arrives(q, b) == Smooth(b) => IF Bk(q) = b THEN Stage(q) ELSE Peace(b)

\* The other bookings look as before.
LEMMA OnlyOne ==
    ASSUME Typed, Alone, Alone', Track, NEW q \in Requests, NEW b0 \in Bookings,
           StepOn(q, b0), Arrives(q, b0)'
    PROVE  Track'
<1> SUFFICES ASSUME NEW b \in Bookings, Smooth(b)'
             PROVE  /\ Quiet(b)' => Peace(b)'
                    /\ \A p \in Requests : Bk(p)' = b => Stage(p)'
  BY DEF Track, Smooth, Quiet, Peace, Recorded, NotYet, MovedTogether, GoneEverywhere, Placed,
         Bk, Stage, Creating, Cancelling, Moving, Stands, At
<1> USE BookingsAssumption
<1>0. Smooth(b)
  BY DEF StepOn, Smooth
<1>1. CASE b # b0
  <2>1. /\ row'[b] = row[b] /\ entry'[b] = entry[b] /\ link'[b] = link[b]
        /\ reminder'[b] = reminder[b] /\ told'[b] = told[b] /\ edits' = edits
    BY <1>1 DEF StepOn
  <2>2. ASSUME NEW p \in Requests, Bk(p)' = b
        PROVE  p # q /\ req'[p] = req[p] /\ Bk(p) = b
    BY <1>1, <2>2 DEF StepOn, Bk
  <2>3. ASSUME Quiet(b)'
        PROVE  Quiet(b)
    BY <1>1, <2>3 DEF StepOn, Quiet, Bk
  <2>4. Quiet(b)' => Peace(b)'
    BY <1>0, <2>1, <2>3
       DEF Track, Peace, Recorded, NotYet, MovedTogether, GoneEverywhere
  <2>5. ASSUME NEW p \in Requests, Bk(p)' = b
        PROVE  Stage(p)'
    <3>1. Stage(p)
      BY <1>0, <2>2, <2>5 DEF Track
    <3> QED
      BY <2>1, <2>2, <2>5, <3>1
         DEF Stage, Recorded, Creating, Cancelling, Moving, NotYet, Placed, Stands,
             MovedTogether, At, Bk
  <2> QED
    BY <2>4, <2>5
<1>2. CASE b = b0 /\ Bk(q)' = b0
  <2>1. ~Quiet(b)' /\ Stage(q)'
    BY <1>2 DEF Quiet, Arrives
  <2>2. ASSUME NEW p \in Requests, Bk(p)' = b
        PROVE  p = q
    BY <1>2, <2>2 DEF Alone, Smooth
  <2> QED
    BY <2>1, <2>2
<1>3. CASE b = b0 /\ Bk(q)' # b0
  <2>1. Bk(q) = b0 /\ Peace(b)'
    BY <1>3 DEF StepOn, Arrives
  <2>2. ASSUME NEW p \in Requests, Bk(p)' = b
        PROVE  FALSE
    <3>1. p # q /\ Bk(p) = b
      BY <1>3, <2>2 DEF StepOn, Bk
    <3> QED
      BY <1>0, <1>3, <2>1, <3>1 DEF Alone, Smooth
  <2> QED
    BY <2>1, <2>2
<1> QED
  BY <1>1, <1>2, <1>3

LEMMA WholeStep == Typed /\ Whole /\ [Next]_vars => Whole'
<1>1. CASE SaveLink
  BY <1>1, BoundsAssumption DEF SaveLink, Whole, Typed, StoresOK
<1>2. ASSUME Typed, Whole, [Next]_vars, ~SaveLink
      PROVE  edits' = edits /\ linked \subseteq linked' /\ linked' \subseteq Cals
  BY <1>2
     DEF Typed, StoresOK, Whole, Next, Create, Cancel, Reschedule, vars, settings, Check, Insert,
         WriteEntry, LinkEntry, Confirm, Remind, ReadToCancel, MarkCancelled, DeleteEntry,
         ClearReminders, TellCancelled, ReadToMove, CheckMove, RefuseMove, MoveEntry, Unremind,
         Reremind, TellMoved, MoveRow, EntryFails, Dies, InsertCal
<1> QED
  BY <1>1, <1>2 DEF Whole

LEMMA SavingKeeps ==
    ASSUME Typed, Track, UNCHANGED <<stores, req, crossed, mishaps>>,
           edits' = edits \/ edits' > 0
    PROVE  Track'
<1> SUFFICES ASSUME NEW b \in Bookings, Smooth(b)'
             PROVE  /\ Quiet(b)' => Peace(b)'
                    /\ \A q \in Requests : Bk(q)' = b => Stage(q)'
  BY DEF Track, Smooth, Quiet, Peace, Recorded, NotYet, MovedTogether, GoneEverywhere, Placed,
         Bk, Stage, Creating, Cancelling, Moving, Stands, At, stores
<1>1. /\ UNCHANGED <<row, entry, link, reminder, told, req>> /\ Smooth(b) /\ Quiet(b)' = Quiet(b)
      /\ edits > 0 => edits' > 0
  BY DEF Smooth, stores, Quiet, Bk
<1>2. Quiet(b)' => Peace(b)'
  BY <1>1 DEF Track, Peace, Recorded, NotYet, MovedTogether, GoneEverywhere
<1>3. ASSUME NEW q \in Requests, Bk(q)' = b
      PROVE  Stage(q)'
  <2>1. Bk(q) = b /\ Stage(q)
    BY <1>1, <1>3 DEF Track, Bk
  <2>2. /\ Creating(q)' /\ Cancelling(q)'
    BY <1>1, <2>1 DEF Stage, Creating, Cancelling, NotYet, Placed, Stands, MovedTogether, At, Bk
  <2>3. Moving(q)'
    BY <1>1, <2>1 DEF Stage, Moving, Placed, At, Bk
  <2> QED
    BY <1>1, <2>1, <2>2, <2>3 DEF Stage, Recorded, At, Bk
<1> QED
  BY <1>2, <1>3

LEMMA TrackStep ==
    Typed /\ Alone /\ Alone' /\ Whole /\ Track /\ [Next]_vars => Track'
<1> SUFFICES ASSUME Typed, Alone, Alone', Whole, Track, [Next]_vars
             PROVE  Track'
  OBVIOUS
<1> USE BookingsAssumption
<1>t. /\ ReqOK /\ StoresOK /\ mishaps \in Nat /\ edits \in Nat
  BY BoundsAssumption DEF Typed, StoresOK
<1>1. CASE UNCHANGED vars
  BY <1>1, SavingKeeps DEF vars, stores, settings
<1>2. ASSUME NEW q \in Requests, NEW b \in Bookings, NEW s \in Grid, Check(q, b, s)
      PROVE  Track'
  <2>1. At(q, "idle") /\ Bk(q) = NoBooking
    BY <1>2 DEF Check, Alone
  <2>2. StepOn(q, b)
    BY <1>2, <1>t, <2>1 DEF Check, StepOn, Bk, ReqOK, Request, IdleReq, stores, settings,
       Crossings
  <2>3. Arrives(q, b)'
    <3> SUFFICES ASSUME Smooth(b)'
                 PROVE  Stage(q)'
      BY <1>2, <1>t, <2>1 DEF Check, Arrives, Bk, ReqOK, Request, IdleReq
    <3>1. Smooth(b) /\ Quiet(b)
      BY <1>2, <2>1 DEF Check, Smooth, Quiet, Claimed, Bk
    <3>2. Peace(b)
      BY <3>1 DEF Track
    <3> QED
      BY <1>2, <1>t, <3>2 DEF Check, Whole, ReqOK, Request, Stage, Recorded, Creating,
         Cancelling, Moving, NotYet, Placed, Stands, Peace, MovedTogether, GoneEverywhere,
         Hosts, At, Bk, Goto, Done, IdleReq, Mishap, stores, settings, Smooth, Orphans
  <2> QED
    BY <2>2, <2>3, OnlyOne
<1>3. ASSUME NEW q \in Requests, Insert(q)
      PROVE  Track'
  <2>1. ~At(q, "idle") /\ Bk(q) \in Bookings
    BY <1>3, Carried DEF Insert, At
  <2>0. PICK b \in Bookings : b = Bk(q)
    BY <2>1
  <2>2. StepOn(q, b)
    BY <1>3, <1>t, <2>0, <2>1 DEF Insert, StepOn, Bk, At, Goto, Done, ReqOK, Request, IdleReq,
       StoresOK, Mishap, stores, settings
  <2>3. ASSUME Smooth(b)'
        PROVE  Stage(q)
    BY <2>0, <2>2, <2>3 DEF Track, Smooth, StepOn
  <2>4. Arrives(q, b)'
    BY <1>3, <1>t, <2>0, <2>1, <2>3, Carried DEF Arrives, Insert, ReqOK, Request, StoresOK,
       Stage, Recorded, Creating, Cancelling, Moving, NotYet, Placed, Stands, Peace,
       MovedTogether, GoneEverywhere, Hosts, At, Bk, Goto, Done, IdleReq, Mishap, stores,
       settings, Smooth, Orphans
  <2> QED
    BY <2>2, <2>4, OnlyOne
<1>4. ASSUME NEW q \in Requests, NEW c \in Cals, WriteEntry(q, c)
      PROVE  Track'
  <2>1. ~At(q, "idle") /\ Bk(q) \in Bookings
    BY <1>4, Carried DEF WriteEntry, At
  <2>0. PICK b \in Bookings : b = Bk(q)
    BY <2>1
  <2>2. StepOn(q, b)
    BY <1>4, <1>t, <2>0, <2>1 DEF WriteEntry, StepOn, Bk, At, Goto, Done, ReqOK, Request,
       IdleReq, StoresOK, Mishap, stores, settings
  <2>3. ASSUME Smooth(b)'
        PROVE  Stage(q)
    BY <2>0, <2>2, <2>3 DEF Track, Smooth, StepOn
  <2>4. Arrives(q, b)'
    BY <1>4, <1>t, <2>0, <2>1, <2>3, Carried DEF Arrives, WriteEntry, ReqOK, Request, StoresOK,
       Stage, Recorded, Creating, Cancelling, Moving, NotYet, Placed, Stands, Peace,
       MovedTogether, GoneEverywhere, Hosts, At, Bk, Goto, Done, IdleReq, Mishap, stores,
       settings, Smooth, Orphans
  <2> QED
    BY <2>2, <2>4, OnlyOne
<1>5. ASSUME NEW q \in Requests, LinkEntry(q)
      PROVE  Track'
  <2>1. ~At(q, "idle") /\ Bk(q) \in Bookings
    BY <1>5, Carried DEF LinkEntry, At
  <2>0. PICK b \in Bookings : b = Bk(q)
    BY <2>1
  <2>2. StepOn(q, b)
    BY <1>5, <1>t, <2>0, <2>1 DEF LinkEntry, StepOn, Bk, At, Goto, Done, ReqOK, Request,
       IdleReq, StoresOK, Mishap, stores, settings
  <2>3. ASSUME Smooth(b)'
        PROVE  Stage(q)
    BY <2>0, <2>2, <2>3 DEF Track, Smooth, StepOn
  <2>4. Arrives(q, b)'
    BY <1>5, <1>t, <2>0, <2>1, <2>3, Carried DEF Arrives, LinkEntry, ReqOK, Request, StoresOK,
       Stage, Recorded, Creating, Cancelling, Moving, NotYet, Placed, Stands, Peace,
       MovedTogether, GoneEverywhere, Hosts, At, Bk, Goto, Done, IdleReq, Mishap, stores,
       settings, Smooth, Orphans
  <2> QED
    BY <2>2, <2>4, OnlyOne
<1>6. ASSUME NEW q \in Requests, Confirm(q)
      PROVE  Track'
  <2>1. ~At(q, "idle") /\ Bk(q) \in Bookings
    BY <1>6, Carried DEF Confirm, At
  <2>0. PICK b \in Bookings : b = Bk(q)
    BY <2>1
  <2>2. StepOn(q, b)
    BY <1>6, <1>t, <2>0, <2>1 DEF Confirm, StepOn, Bk, At, Goto, Done, ReqOK, Request, IdleReq,
       StoresOK, Mishap, stores, settings, Invited
  <2>3. ASSUME Smooth(b)'
        PROVE  Stage(q)
    BY <2>0, <2>2, <2>3 DEF Track, Smooth, StepOn
  <2>4. Arrives(q, b)'
    BY <1>6, <1>t, <2>0, <2>1, <2>3, Carried DEF Arrives, Confirm, ReqOK, Request, StoresOK,
       Stage, Recorded, Creating, Cancelling, Moving, NotYet, Placed, Stands, Peace,
       MovedTogether, GoneEverywhere, Hosts, At, Bk, Goto, Done, IdleReq, Mishap, stores,
       settings, Smooth, Orphans, Invited
  <2> QED
    BY <2>2, <2>4, OnlyOne
<1>7. ASSUME NEW q \in Requests, Remind(q)
      PROVE  Track'
  <2>1. ~At(q, "idle") /\ Bk(q) \in Bookings
    BY <1>7, Carried DEF Remind, At
  <2>0. PICK b \in Bookings : b = Bk(q)
    BY <2>1
  <2>2. StepOn(q, b)
    BY <1>7, <1>t, <2>0, <2>1 DEF Remind, StepOn, Bk, At, Goto, Done, ReqOK, Request, IdleReq,
       StoresOK, Mishap, stores, settings
  <2>3. ASSUME Smooth(b)'
        PROVE  Stage(q)
    BY <2>0, <2>2, <2>3 DEF Track, Smooth, StepOn
  <2>4. Arrives(q, b)'
    BY <1>7, <1>t, <2>0, <2>1, <2>3, Carried DEF Arrives, Remind, ReqOK, Request, StoresOK,
       Stage, Recorded, Creating, Cancelling, Moving, NotYet, Placed, Stands, Peace,
       MovedTogether, GoneEverywhere, Hosts, At, Bk, Goto, Done, IdleReq, Mishap, stores,
       settings, Smooth, Orphans
  <2> QED
    BY <2>2, <2>4, OnlyOne
<1>8. ASSUME NEW q \in Requests, NEW b \in Bookings, ReadToCancel(q, b)
      PROVE  Track'
  <2>1. At(q, "idle") /\ Bk(q) = NoBooking
    BY <1>8 DEF ReadToCancel, Alone
  <2>2. StepOn(q, b)
    BY <1>8, <1>t, <2>1 DEF ReadToCancel, StepOn, Bk, ReqOK, Request, IdleReq, stores, settings
  <2>3. Arrives(q, b)'
    <3> SUFFICES ASSUME Smooth(b)'
                 PROVE  Stage(q)'
      BY <1>8, <1>t, <2>1 DEF ReadToCancel, Arrives, Bk, ReqOK, Request, IdleReq
    <3>1. Smooth(b) /\ Quiet(b)
      BY <1>8, <2>1 DEF ReadToCancel, Smooth, Quiet, Claimed, Bk
    <3>2. Peace(b)
      BY <3>1 DEF Track
    <3> QED
      BY <1>8, <1>t, <3>2 DEF ReadToCancel, Whole, ReqOK, Request, Stage, Recorded, Creating,
         Cancelling, Moving, NotYet, Placed, Stands, Peace, MovedTogether, GoneEverywhere,
         Hosts, At, Bk, Goto, Done, IdleReq, Mishap, stores, settings, Smooth, Orphans
  <2> QED
    BY <2>2, <2>3, OnlyOne
<1>9. ASSUME NEW q \in Requests, MarkCancelled(q)
      PROVE  Track'
  <2>1. ~At(q, "idle") /\ Bk(q) \in Bookings
    BY <1>9, Carried DEF MarkCancelled, At
  <2>0. PICK b \in Bookings : b = Bk(q)
    BY <2>1
  <2>2. StepOn(q, b)
    BY <1>9, <1>t, <2>0, <2>1 DEF MarkCancelled, StepOn, Bk, At, Goto, Done, ReqOK, Request,
       IdleReq, StoresOK, Mishap, stores, settings
  <2>3. ASSUME Smooth(b)'
        PROVE  Stage(q)
    BY <2>0, <2>2, <2>3 DEF Track, Smooth, StepOn
  <2>4. Arrives(q, b)'
    BY <1>9, <1>t, <2>0, <2>1, <2>3, Carried DEF Arrives, MarkCancelled, ReqOK, Request,
       StoresOK, Stage, Recorded, Creating, Cancelling, Moving, NotYet, Placed, Stands, Peace,
       MovedTogether, GoneEverywhere, Hosts, At, Bk, Goto, Done, IdleReq, Mishap, stores,
       settings, Smooth, Orphans
  <2> QED
    BY <2>2, <2>4, OnlyOne
<1>10. ASSUME NEW q \in Requests, NEW c \in Cals, DeleteEntry(q, c)
      PROVE  Track'
  <2>1. ~At(q, "idle") /\ Bk(q) \in Bookings
    BY <1>10, Carried DEF DeleteEntry, At
  <2>0. PICK b \in Bookings : b = Bk(q)
    BY <2>1
  <2>2. StepOn(q, b)
    BY <1>10, <1>t, <2>0, <2>1 DEF DeleteEntry, StepOn, Bk, At, Goto, Done, ReqOK, Request,
       IdleReq, StoresOK, Mishap, stores, settings
  <2>3. ASSUME Smooth(b)'
        PROVE  Stage(q)
    BY <2>0, <2>2, <2>3 DEF Track, Smooth, StepOn
  <2>4. Arrives(q, b)'
    BY <1>10, <1>t, <2>0, <2>1, <2>3, Carried DEF Arrives, DeleteEntry, ReqOK, Request,
       StoresOK, Stage, Recorded, Creating, Cancelling, Moving, NotYet, Placed, Stands, Peace,
       MovedTogether, GoneEverywhere, Hosts, At, Bk, Goto, Done, IdleReq, Mishap, stores,
       settings, Smooth, Orphans
  <2> QED
    BY <2>2, <2>4, OnlyOne
<1>11. ASSUME NEW q \in Requests, ClearReminders(q)
      PROVE  Track'
  <2>1. ~At(q, "idle") /\ Bk(q) \in Bookings
    BY <1>11, Carried DEF ClearReminders, At
  <2>0. PICK b \in Bookings : b = Bk(q)
    BY <2>1
  <2>2. StepOn(q, b)
    BY <1>11, <1>t, <2>0, <2>1 DEF ClearReminders, StepOn, Bk, At, Goto, Done, ReqOK, Request,
       IdleReq, StoresOK, Mishap, stores, settings
  <2>3. ASSUME Smooth(b)'
        PROVE  Stage(q)
    BY <2>0, <2>2, <2>3 DEF Track, Smooth, StepOn
  <2>4. Arrives(q, b)'
    BY <1>11, <1>t, <2>0, <2>1, <2>3, Carried DEF Arrives, ClearReminders, ReqOK, Request,
       StoresOK, Stage, Recorded, Creating, Cancelling, Moving, NotYet, Placed, Stands, Peace,
       MovedTogether, GoneEverywhere, Hosts, At, Bk, Goto, Done, IdleReq, Mishap, stores,
       settings, Smooth, Orphans
  <2> QED
    BY <2>2, <2>4, OnlyOne
<1>12. ASSUME NEW q \in Requests, TellCancelled(q)
      PROVE  Track'
  <2>1. ~At(q, "idle") /\ Bk(q) \in Bookings
    BY <1>12, Carried DEF TellCancelled, At
  <2>0. PICK b \in Bookings : b = Bk(q)
    BY <2>1
  <2>2. StepOn(q, b)
    BY <1>12, <1>t, <2>0, <2>1 DEF TellCancelled, StepOn, Bk, At, Goto, Done, ReqOK, Request,
       IdleReq, StoresOK, Mishap, stores, settings
  <2>3. ASSUME Smooth(b)'
        PROVE  Stage(q)
    BY <2>0, <2>2, <2>3 DEF Track, Smooth, StepOn
  <2>4. Arrives(q, b)'
    BY <1>12, <1>t, <2>0, <2>1, <2>3, Carried DEF Arrives, TellCancelled, ReqOK, Request,
       StoresOK, Stage, Recorded, Creating, Cancelling, Moving, NotYet, Placed, Stands, Peace,
       MovedTogether, GoneEverywhere, Hosts, At, Bk, Goto, Done, IdleReq, Mishap, stores,
       settings, Smooth, Orphans
  <2> QED
    BY <2>2, <2>4, OnlyOne
<1>13. ASSUME NEW q \in Requests, NEW b \in Bookings, ReadToMove(q, b)
      PROVE  Track'
  <2>1. At(q, "idle") /\ Bk(q) = NoBooking
    BY <1>13 DEF ReadToMove, Alone
  <2>2. StepOn(q, b)
    BY <1>13, <1>t, <2>1 DEF ReadToMove, StepOn, Bk, ReqOK, Request, IdleReq, stores, settings
  <2>3. Arrives(q, b)'
    <3> SUFFICES ASSUME Smooth(b)'
                 PROVE  Stage(q)'
      BY <1>13, <1>t, <2>1 DEF ReadToMove, Arrives, Bk, ReqOK, Request, IdleReq
    <3>1. Smooth(b) /\ Quiet(b)
      BY <1>13, <2>1 DEF ReadToMove, Smooth, Quiet, Claimed, Bk
    <3>2. Peace(b)
      BY <3>1 DEF Track
    <3> QED
      BY <1>13, <1>t, <3>2 DEF ReadToMove, Whole, ReqOK, Request, Stage, Recorded, Creating,
         Cancelling, Moving, NotYet, Placed, Stands, Peace, MovedTogether, GoneEverywhere,
         Hosts, At, Bk, Goto, Done, IdleReq, Mishap, stores, settings, Smooth, Orphans
  <2> QED
    BY <2>2, <2>3, OnlyOne
<1>14. ASSUME NEW q \in Requests, NEW s \in Grid, CheckMove(q, s)
      PROVE  Track'
  <2>1. ~At(q, "idle") /\ Bk(q) \in Bookings
    BY <1>14, Carried DEF CheckMove, At
  <2>0. PICK b \in Bookings : b = Bk(q)
    BY <2>1
  <2>2. StepOn(q, b)
    BY <1>14, <1>t, <2>0, <2>1 DEF CheckMove, StepOn, Bk, At, Goto, Done, ReqOK, Request,
       IdleReq, StoresOK, Mishap, stores, settings, Crossings
  <2>3. ASSUME Smooth(b)'
        PROVE  Stage(q)
    BY <2>0, <2>2, <2>3 DEF Track, Smooth, StepOn
  <2>4. Arrives(q, b)'
    <3> SUFFICES ASSUME Smooth(b)'
                 PROVE  Stage(q)'
      BY <1>14, <1>t, <2>0 DEF Arrives, CheckMove, Bk, ReqOK, Request
    <3>1. Stage(q) /\ At(q, "check")
      BY <2>3, <1>14 DEF CheckMove
    <3>2. Stands(b) /\ Recorded(b, {})
      BY <2>0, <3>1 DEF Stage, Cancelling, At
    <3>3. row[b].start \in Grid /\ row[b].start # NoTime
      BY <3>2, <1>t, GridAssumption DEF Stands, MovedTogether, StoresOK
    <3>4. \A c \in Hosts : Placed(b, c, row[b].start)
      BY <3>2 DEF Stands, MovedTogether, Placed, Hosts
    <3>5. \A c \in Hosts \ link[b] : edits > 0 /\ entry[b][c] = NoTime
      BY <3>2, <3>3, <3>4 DEF Recorded, Placed, Hosts
    <3>6. /\ req'[q].pc = "move" /\ req'[q].at = s /\ req'[q].todo = link[b] /\ req'[q].bk = b
          /\ UNCHANGED <<row, entry, link, reminder, told, edits>>
      BY <1>14, <1>t, <2>0 DEF CheckMove, ReqOK, Request, Bk, stores, settings
    <3>7. Recorded(b, {})' /\ Moving(q)'
      BY <3>2, <3>3, <3>4, <3>5, <3>6 DEF Recorded, Moving, At, Bk, Placed, Stands
    <3> QED
      BY <3>6, <3>7 DEF Stage, Creating, Cancelling, At, Bk
  <2> QED
    BY <2>2, <2>4, OnlyOne
<1>15. ASSUME NEW q \in Requests, RefuseMove(q)
      PROVE  Track'
  <2>1. ~At(q, "idle") /\ Bk(q) \in Bookings
    BY <1>15, Carried DEF RefuseMove, At
  <2>0. PICK b \in Bookings : b = Bk(q)
    BY <2>1
  <2>2. StepOn(q, b)
    BY <1>15, <1>t, <2>0, <2>1 DEF RefuseMove, StepOn, Bk, At, Goto, Done, ReqOK, Request,
       IdleReq, StoresOK, Mishap, stores, settings
  <2>3. ASSUME Smooth(b)'
        PROVE  Stage(q)
    BY <2>0, <2>2, <2>3 DEF Track, Smooth, StepOn
  <2>4. Arrives(q, b)'
    BY <1>15, <1>t, <2>0, <2>1, <2>3, Carried DEF Arrives, RefuseMove, ReqOK, Request,
       StoresOK, Stage, Recorded, Creating, Cancelling, Moving, NotYet, Placed, Stands, Peace,
       MovedTogether, GoneEverywhere, Hosts, At, Bk, Goto, Done, IdleReq, Mishap, stores,
       settings, Smooth, Orphans
  <2> QED
    BY <2>2, <2>4, OnlyOne
<1>16. ASSUME NEW q \in Requests, NEW c \in Cals, MoveEntry(q, c)
      PROVE  Track'
  <2>1. ~At(q, "idle") /\ Bk(q) \in Bookings
    BY <1>16, Carried DEF MoveEntry, At
  <2>0. PICK b \in Bookings : b = Bk(q)
    BY <2>1
  <2>2. StepOn(q, b)
    BY <1>16, <1>t, <2>0, <2>1 DEF MoveEntry, StepOn, Bk, At, Goto, Done, ReqOK, Request,
       IdleReq, StoresOK, Mishap, stores, settings
  <2>3. ASSUME Smooth(b)'
        PROVE  Stage(q)
    BY <2>0, <2>2, <2>3 DEF Track, Smooth, StepOn
  <2>4. Arrives(q, b)'
    <3> SUFFICES ASSUME Smooth(b)'
                 PROVE  Stage(q)'
      BY <1>16, <1>t, <2>0 DEF Arrives, MoveEntry, Bk, ReqOK, Request
    <3>1. Stage(q) /\ At(q, "move")
      BY <2>3, <1>16 DEF MoveEntry
    <3>2. /\ Recorded(b, {}) /\ row[b].status = "confirmed" /\ row[b].start \in Grid
          /\ row[b].start # NoTime
          /\ \A d \in Hosts : IF d \in req[q].todo THEN Placed(b, d, row[b].start)
                                                  ELSE Placed(b, d, req[q].at)
      BY <2>0, <3>1, GridAssumption DEF Stage, Moving, At, Bk
    <3>3. /\ req'[q].pc = "move" /\ req'[q].at = req[q].at /\ req'[q].todo = req[q].todo \ {c}
          /\ req'[q].bk = b /\ UNCHANGED <<row, link, reminder, told, edits>>
      BY <1>16, <1>t, <2>0, <3>1 DEF MoveEntry, ReqOK, Request, Bk, At, stores, settings
    <3>4. /\ \A d \in Cals : d # c => entry'[b][d] = entry[b][d]
          /\ entry'[b][c] = IF c \in OthersCals \/ entry[b][c] = NoTime THEN entry[b][c]
                            ELSE req[q].at
      BY <1>16, <1>t, <2>0 DEF MoveEntry, StoresOK
    <3>5. Recorded(b, {})'
      BY <3>2, <3>3, <3>4 DEF Recorded
    <3>6. Placed(b, c, req[q].at)' \/ c \in OthersCals
      BY <1>16, <3>2, <3>3, <3>4 DEF Placed, MoveEntry, Hosts
    <3>7. Moving(q)'
      BY <3>2, <3>3, <3>4, <3>6 DEF Moving, At, Bk, Placed, Hosts
    <3> QED
      BY <3>3, <3>5, <3>7 DEF Stage, Creating, Cancelling, At, Bk
  <2> QED
    BY <2>2, <2>4, OnlyOne
<1>17. ASSUME NEW q \in Requests, Unremind(q)
      PROVE  Track'
  <2>1. ~At(q, "idle") /\ Bk(q) \in Bookings
    BY <1>17, Carried DEF Unremind, At
  <2>0. PICK b \in Bookings : b = Bk(q)
    BY <2>1
  <2>2. StepOn(q, b)
    BY <1>17, <1>t, <2>0, <2>1 DEF Unremind, StepOn, Bk, At, Goto, Done, ReqOK, Request,
       IdleReq, StoresOK, Mishap, stores, settings
  <2>3. ASSUME Smooth(b)'
        PROVE  Stage(q)
    BY <2>0, <2>2, <2>3 DEF Track, Smooth, StepOn
  <2>4. Arrives(q, b)'
    BY <1>17, <1>t, <2>0, <2>1, <2>3, Carried DEF Arrives, Unremind, ReqOK, Request, StoresOK,
       Stage, Recorded, Creating, Cancelling, Moving, NotYet, Placed, Stands, Peace,
       MovedTogether, GoneEverywhere, Hosts, At, Bk, Goto, Done, IdleReq, Mishap, stores,
       settings, Smooth, Orphans
  <2> QED
    BY <2>2, <2>4, OnlyOne
<1>18. ASSUME NEW q \in Requests, Reremind(q)
      PROVE  Track'
  <2>1. ~At(q, "idle") /\ Bk(q) \in Bookings
    BY <1>18, Carried DEF Reremind, At
  <2>0. PICK b \in Bookings : b = Bk(q)
    BY <2>1
  <2>2. StepOn(q, b)
    BY <1>18, <1>t, <2>0, <2>1 DEF Reremind, StepOn, Bk, At, Goto, Done, ReqOK, Request,
       IdleReq, StoresOK, Mishap, stores, settings
  <2>3. ASSUME Smooth(b)'
        PROVE  Stage(q)
    BY <2>0, <2>2, <2>3 DEF Track, Smooth, StepOn
  <2>4. Arrives(q, b)'
    BY <1>18, <1>t, <2>0, <2>1, <2>3, Carried DEF Arrives, Reremind, ReqOK, Request, StoresOK,
       Stage, Recorded, Creating, Cancelling, Moving, NotYet, Placed, Stands, Peace,
       MovedTogether, GoneEverywhere, Hosts, At, Bk, Goto, Done, IdleReq, Mishap, stores,
       settings, Smooth, Orphans
  <2> QED
    BY <2>2, <2>4, OnlyOne
<1>19. ASSUME NEW q \in Requests, TellMoved(q)
      PROVE  Track'
  <2>1. ~At(q, "idle") /\ Bk(q) \in Bookings
    BY <1>19, Carried DEF TellMoved, At
  <2>0. PICK b \in Bookings : b = Bk(q)
    BY <2>1
  <2>2. StepOn(q, b)
    BY <1>19, <1>t, <2>0, <2>1 DEF TellMoved, StepOn, Bk, At, Goto, Done, ReqOK, Request,
       IdleReq, StoresOK, Mishap, stores, settings, Invited
  <2>3. ASSUME Smooth(b)'
        PROVE  Stage(q)
    BY <2>0, <2>2, <2>3 DEF Track, Smooth, StepOn
  <2>4. Arrives(q, b)'
    BY <1>19, <1>t, <2>0, <2>1, <2>3, Carried DEF Arrives, TellMoved, ReqOK, Request, StoresOK,
       Stage, Recorded, Creating, Cancelling, Moving, NotYet, Placed, Stands, Peace,
       MovedTogether, GoneEverywhere, Hosts, At, Bk, Goto, Done, IdleReq, Mishap, stores,
       settings, Smooth, Orphans, Invited
  <2> QED
    BY <2>2, <2>4, OnlyOne
<1>20. ASSUME NEW q \in Requests, MoveRow(q)
      PROVE  Track'
  <2>1. ~At(q, "idle") /\ Bk(q) \in Bookings
    BY <1>20, Carried DEF MoveRow, At
  <2>0. PICK b \in Bookings : b = Bk(q)
    BY <2>1
  <2>2. StepOn(q, b)
    BY <1>20, <1>t, <2>0, <2>1 DEF MoveRow, StepOn, Bk, At, Goto, Done, ReqOK, Request,
       IdleReq, StoresOK, Mishap, stores, settings
  <2>3. ASSUME Smooth(b)'
        PROVE  Stage(q)
    BY <2>0, <2>2, <2>3 DEF Track, Smooth, StepOn
  <2>4. Arrives(q, b)'
    BY <1>20, <1>t, <2>0, <2>1, <2>3, Carried DEF Arrives, MoveRow, ReqOK, Request, StoresOK,
       Stage, Recorded, Creating, Cancelling, Moving, NotYet, Placed, Stands, Peace,
       MovedTogether, GoneEverywhere, Hosts, At, Bk, Goto, Done, IdleReq, Mishap, stores,
       settings, Smooth, Orphans
  <2> QED
    BY <2>2, <2>4, OnlyOne
<1>21. ASSUME NEW q \in Requests, NEW c \in Cals, EntryFails(q, c)
      PROVE  Track'
  <2>1. ~At(q, "idle") /\ Bk(q) \in Bookings
    BY <1>21, Carried DEF EntryFails, At
  <2>0. PICK b \in Bookings : b = Bk(q)
    BY <2>1
  <2>2. StepOn(q, b)
    BY <1>21, <1>t, <2>0, <2>1 DEF EntryFails, StepOn, Bk, At, Goto, Done, ReqOK, Request,
       IdleReq, StoresOK, Mishap, stores, settings
  <2>3. ASSUME Smooth(b)'
        PROVE  Stage(q)
    BY <2>0, <2>2, <2>3 DEF Track, Smooth, StepOn
  <2>4. Arrives(q, b)'
    BY <1>21, <1>t, <2>0, <2>1, <2>3, Carried DEF Arrives, EntryFails, ReqOK, Request,
       StoresOK, Stage, Recorded, Creating, Cancelling, Moving, NotYet, Placed, Stands, Peace,
       MovedTogether, GoneEverywhere, Hosts, At, Bk, Goto, Done, IdleReq, Mishap, stores,
       settings, Smooth, Orphans
  <2> QED
    BY <2>2, <2>4, OnlyOne
<1>22. ASSUME NEW q \in Requests, Dies(q)
      PROVE  Track'
  <2>1. ~At(q, "idle") /\ Bk(q) \in Bookings
    BY <1>22, Carried DEF Dies, At
  <2>0. PICK b \in Bookings : b = Bk(q)
    BY <2>1
  <2>2. StepOn(q, b)
    BY <1>22, <1>t, <2>0, <2>1 DEF Dies, StepOn, Bk, At, Goto, Done, ReqOK, Request, IdleReq,
       StoresOK, Mishap, stores, settings
  <2>3. ASSUME Smooth(b)'
        PROVE  Stage(q)
    BY <2>0, <2>2, <2>3 DEF Track, Smooth, StepOn
  <2>4. Arrives(q, b)'
    BY <1>22, <1>t, <2>0, <2>1, <2>3, Carried DEF Arrives, Dies, ReqOK, Request, StoresOK,
       Stage, Recorded, Creating, Cancelling, Moving, NotYet, Placed, Stands, Peace,
       MovedTogether, GoneEverywhere, Hosts, At, Bk, Goto, Done, IdleReq, Mishap, stores,
       settings, Smooth, Orphans
  <2> QED
    BY <2>2, <2>4, OnlyOne
<1>23. CASE SaveLink
  BY <1>23, <1>t, SavingKeeps DEF SaveLink
<1>24. ASSUME NEW c \in Cals, InsertCal(c)
      PROVE  Track'
  BY <1>24, SavingKeeps DEF InsertCal
<1> QED
  BY <1>1, <1>2, <1>3, <1>4, <1>5, <1>6, <1>7, <1>8, <1>9, <1>10, <1>11, <1>12, <1>13, <1>14,
     <1>15, <1>16, <1>17, <1>18, <1>19, <1>20, <1>21, <1>22, <1>23, <1>24
     DEF Next, Create, Cancel, Reschedule

(***************************************************************************)
(* A booking that nothing went wrong with is the same in the table, on the *)
(* host's calendars, among the reminders and in its invitee's mailbox, for *)
(* any number of calendars, of other bookings and of requests about them.  *)
(***************************************************************************)
THEOREM BookingsAgree == Spec => []StoresAgree
<1>1. Init => Typed /\ Alone /\ Whole /\ Track
  BY InitTyped, InitTrack
<1>2. Typed /\ Alone /\ Whole /\ Track /\ [Next]_vars => (Typed /\ Alone /\ Whole /\ Track)'
  BY TypedStep, AloneStep, WholeStep, TrackStep
<1>3. Track => StoresAgree
  BY DEF Track, StoresAgree, Smooth, Peace
<1> QED
  BY <1>1, <1>2, <1>3, PTL DEF Spec
=============================================================================
