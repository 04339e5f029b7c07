------------------------- MODULE ScheduledSendProofs -------------------------
(***************************************************************************)
(* The scheduled-send pipeline for any number of rows, overlapping ticks,  *)
(* undo requests and failures: its types, what the status column says      *)
(* about the mail, and that it implements OutgoingMail, whose bound on the *)
(* copies of a message it therefore inherits.                              *)
(***************************************************************************)
EXTENDS ScheduledSend, TLAPS

(***************************************************************************)
(* A tick holds a row exactly while the dispatcher is past its status      *)
(* check, and an undo request holds one from its SELECT to its answer.     *)
(***************************************************************************)
HeldRows ==
    /\ \A t \in Ticks : tick[t].pc \in HasRow <=> tick[t].row # None
    /\ \A c \in Clients : undo[c].pc # "idle" => undo[c].row \in Rows

LEMMA TypeInit == Init => TypeOK
  BY BoundsAssumption DEF Init, TypeOK, Statuses, TickStates, IdleTick, IdleUndo

LEMMA TypeNext == TypeOK /\ HeldRows /\ [Next]_vars => TypeOK'
<1> SUFFICES ASSUME TypeOK, HeldRows, [Next]_vars
             PROVE  TypeOK'
  OBVIOUS
<1> USE BoundsAssumption DEF TypeOK, Statuses, TickStates, rowVars
<1>1. CASE UNCHANGED vars
  BY <1>1 DEF vars
<1>2. CASE Clock
  BY <1>2 DEF Clock
<1>3. ASSUME NEW r \in Rows, NEW at \in 0 .. MaxTime, Schedule(r, at)
     PROVE  TypeOK'
  BY <1>3 DEF Schedule
<1>4. ASSUME NEW r \in Rows, Cancel(r)
     PROVE  TypeOK'
  BY <1>4 DEF Cancel
<1>5. ASSUME NEW c \in Clients, NEW r \in Rows, UndoSelect(c, r)
     PROVE  TypeOK'
  BY <1>5 DEF UndoSelect
<1>6. ASSUME NEW c \in Clients, UndoClaim(c)
     PROVE  TypeOK'
  BY <1>6 DEF UndoClaim, IdleUndo
<1>7. ASSUME NEW c \in Clients, UndoDraft(c)
     PROVE  TypeOK'
  <2>1. undo[c].row \in Rows /\ drafts[undo[c].row] + 1 \in Nat
    BY <1>7 DEF UndoDraft, HeldRows
  <2>2. QED
    BY <1>7, <2>1 DEF UndoDraft, IdleUndo
<1>8. ASSUME NEW t \in Ticks, CronTick(t)
     PROVE  TypeOK'
  BY <1>8 DEF CronTick, DueBatch, Due
<1>9. ASSUME NEW t \in Ticks, NEW r \in Rows, NextRow(t, r)
     PROVE  TypeOK'
  BY <1>9 DEF NextRow
<1>10. ASSUME NEW t \in Ticks, TickDone(t)
     PROVE  TypeOK'
  BY <1>10 DEF TickDone, IdleTick
<1>11. ASSUME NEW t \in Ticks, SendRejected(t)
     PROVE  TypeOK'
  BY <1>11 DEF SendRejected
<1>12. ASSUME NEW t \in Ticks, MailAccepted(t)
     PROVE  TypeOK'
  <2>1. tick[t].row \in Rows /\ mails[tick[t].row] + 1 \in Nat
    BY <1>12 DEF MailAccepted, HeldRows, HasRow
  <2>2. QED
    BY <1>12, <2>1 DEF MailAccepted
<1>13. ASSUME NEW t \in Ticks, Persisted(t)
     PROVE  TypeOK'
  BY <1>13 DEF Persisted
<1>14. ASSUME NEW t \in Ticks, MarkSent(t)
     PROVE  TypeOK'
  BY <1>14 DEF MarkSent, BackToLoop
<1>15. ASSUME NEW t \in Ticks, MarkFailed(t)
     PROVE  TypeOK'
  BY <1>15 DEF MarkFailed, BackToLoop
<1>16. ASSUME NEW c \in Clients, UndoDies(c)
     PROVE  TypeOK'
  BY <1>16 DEF UndoDies, Mishap, IdleUndo
<1>17. ASSUME NEW t \in Ticks, ThrowsAfterMail(t)
     PROVE  TypeOK'
  BY <1>17 DEF ThrowsAfterMail, Mishap
<1>18. ASSUME NEW t \in Ticks, RequestDies(t)
     PROVE  TypeOK'
  BY <1>18 DEF RequestDies, Mishap, BackToLoop
<1>19. ASSUME NEW t \in Ticks, TickDies(t)
     PROVE  TypeOK'
  BY <1>19 DEF TickDies, Mishap, IdleTick
<1>20. QED
  BY <1>1, <1>2, <1>3, <1>4, <1>5, <1>6, <1>7, <1>8, <1>9, <1>10, <1>11, <1>12, <1>13, <1>14, <1>15, <1>16, <1>17, <1>18, <1>19
  DEF Next, Author, UndoStep, TickStep, Failure

LEMMA HeldInit == Init => HeldRows
  BY DEF Init, HeldRows, HasRow, IdleTick, IdleUndo

LEMMA HeldNext == TypeOK /\ HeldRows /\ [Next]_vars => HeldRows'
<1> SUFFICES ASSUME TypeOK, HeldRows, [Next]_vars
             PROVE  HeldRows'
  OBVIOUS
<1> USE NoneAssumption DEF TypeOK, HeldRows, HasRow, TickStates, rowVars
<1>1. CASE UNCHANGED vars
  BY <1>1 DEF vars
<1>2. CASE Clock
  BY <1>2 DEF Clock
<1>3. ASSUME NEW r \in Rows, NEW at \in 0 .. MaxTime, Schedule(r, at)
     PROVE  HeldRows'
  BY <1>3 DEF Schedule
<1>4. ASSUME NEW r \in Rows, Cancel(r)
     PROVE  HeldRows'
  BY <1>4 DEF Cancel
<1>5. ASSUME NEW c \in Clients, NEW r \in Rows, UndoSelect(c, r)
     PROVE  HeldRows'
  BY <1>5 DEF UndoSelect
<1>6. ASSUME NEW c \in Clients, UndoClaim(c)
     PROVE  HeldRows'
  BY <1>6 DEF UndoClaim, IdleUndo
<1>7. ASSUME NEW c \in Clients, UndoDraft(c)
     PROVE  HeldRows'
  BY <1>7 DEF UndoDraft, IdleUndo
<1>8. ASSUME NEW t \in Ticks, CronTick(t)
     PROVE  HeldRows'
  BY <1>8 DEF CronTick, DueBatch, Due
<1>9. ASSUME NEW t \in Ticks, NEW r \in Rows, NextRow(t, r)
     PROVE  HeldRows'
  BY <1>9 DEF NextRow
<1>10. ASSUME NEW t \in Ticks, TickDone(t)
     PROVE  HeldRows'
  BY <1>10 DEF TickDone, IdleTick
<1>11. ASSUME NEW t \in Ticks, SendRejected(t)
     PROVE  HeldRows'
  BY <1>11 DEF SendRejected
<1>12. ASSUME NEW t \in Ticks, MailAccepted(t)
     PROVE  HeldRows'
  BY <1>12 DEF MailAccepted
<1>13. ASSUME NEW t \in Ticks, Persisted(t)
     PROVE  HeldRows'
  BY <1>13 DEF Persisted
<1>14. ASSUME NEW t \in Ticks, MarkSent(t)
     PROVE  HeldRows'
  BY <1>14 DEF MarkSent, BackToLoop
<1>15. ASSUME NEW t \in Ticks, MarkFailed(t)
     PROVE  HeldRows'
  BY <1>15 DEF MarkFailed, BackToLoop
<1>16. ASSUME NEW c \in Clients, UndoDies(c)
     PROVE  HeldRows'
  BY <1>16 DEF UndoDies, Mishap, IdleUndo
<1>17. ASSUME NEW t \in Ticks, ThrowsAfterMail(t)
     PROVE  HeldRows'
  BY <1>17 DEF ThrowsAfterMail, Mishap
<1>18. ASSUME NEW t \in Ticks, RequestDies(t)
     PROVE  HeldRows'
  BY <1>18 DEF RequestDies, Mishap, BackToLoop
<1>19. ASSUME NEW t \in Ticks, TickDies(t)
     PROVE  HeldRows'
  BY <1>19 DEF TickDies, Mishap, IdleTick
<1>20. QED
  BY <1>1, <1>2, <1>3, <1>4, <1>5, <1>6, <1>7, <1>8, <1>9, <1>10, <1>11, <1>12, <1>13, <1>14, <1>15, <1>16, <1>17, <1>18, <1>19
  DEF Next, Author, UndoStep, TickStep, Failure

(***************************************************************************)
(* Every value the pipeline stores is of its type: the status column never *)
(* leaves the CHECK constraint of migration 0008.                          *)
(***************************************************************************)
THEOREM TypeCorrect == Spec => [](TypeOK /\ HeldRows)
<1>1. TypeOK /\ HeldRows /\ [Next]_vars => TypeOK' /\ HeldRows'
  BY TypeNext, HeldNext
<1>2. QED
  BY <1>1, TypeInit, HeldInit, PTL DEF Spec

-----------------------------------------------------------------------------
(* What the status column and the clock say about the mail.                *)

MailedIsRecorded ==
    /\ \A t \in Ticks : tick[t].pc \in MailIsOut => mails[tick[t].row] > 0
    /\ SentWasMailed

LEMMA MailedNext ==
    TypeOK /\ HeldRows /\ MailedIsRecorded /\ [Next]_vars => MailedIsRecorded'
<1> SUFFICES ASSUME TypeOK, HeldRows, MailedIsRecorded, [Next]_vars
             PROVE  MailedIsRecorded'
  OBVIOUS
<1> USE NoneAssumption DEF TypeOK, HeldRows, HasRow, MailIsOut, MailedIsRecorded,
                           SentWasMailed, Statuses, TickStates, rowVars
<1>1. CASE UNCHANGED vars
  BY <1>1 DEF vars
<1>2. CASE Clock
  BY <1>2 DEF Clock
<1>3. ASSUME NEW r \in Rows, NEW at \in 0 .. MaxTime, Schedule(r, at)
     PROVE  MailedIsRecorded'
  BY <1>3 DEF Schedule
<1>4. ASSUME NEW r \in Rows, Cancel(r)
     PROVE  MailedIsRecorded'
  BY <1>4 DEF Cancel
<1>5. ASSUME NEW c \in Clients, NEW r \in Rows, UndoSelect(c, r)
     PROVE  MailedIsRecorded'
  BY <1>5 DEF UndoSelect
<1>6. ASSUME NEW c \in Clients, UndoClaim(c)
     PROVE  MailedIsRecorded'
  BY <1>6 DEF UndoClaim, IdleUndo
<1>7. ASSUME NEW c \in Clients, UndoDraft(c)
     PROVE  MailedIsRecorded'
  BY <1>7 DEF UndoDraft, IdleUndo
<1>8. ASSUME NEW t \in Ticks, CronTick(t)
     PROVE  MailedIsRecorded'
  BY <1>8 DEF CronTick, DueBatch, Due
<1>9. ASSUME NEW t \in Ticks, NEW r \in Rows, NextRow(t, r)
     PROVE  MailedIsRecorded'
  BY <1>9 DEF NextRow
<1>10. ASSUME NEW t \in Ticks, TickDone(t)
     PROVE  MailedIsRecorded'
  BY <1>10 DEF TickDone, IdleTick
<1>11. ASSUME NEW t \in Ticks, SendRejected(t)
     PROVE  MailedIsRecorded'
  BY <1>11 DEF SendRejected
<1>12. ASSUME NEW t \in Ticks, MailAccepted(t)
     PROVE  MailedIsRecorded'
  BY <1>12 DEF MailAccepted
<1>13. ASSUME NEW t \in Ticks, Persisted(t)
     PROVE  MailedIsRecorded'
  BY <1>13 DEF Persisted
<1>14. ASSUME NEW t \in Ticks, MarkSent(t)
     PROVE  MailedIsRecorded'
  BY <1>14 DEF MarkSent, BackToLoop
<1>15. ASSUME NEW t \in Ticks, MarkFailed(t)
     PROVE  MailedIsRecorded'
  BY <1>15 DEF MarkFailed, BackToLoop
<1>16. ASSUME NEW c \in Clients, UndoDies(c)
     PROVE  MailedIsRecorded'
  BY <1>16 DEF UndoDies, Mishap, IdleUndo
<1>17. ASSUME NEW t \in Ticks, ThrowsAfterMail(t)
     PROVE  MailedIsRecorded'
  BY <1>17 DEF ThrowsAfterMail, Mishap
<1>18. ASSUME NEW t \in Ticks, RequestDies(t)
     PROVE  MailedIsRecorded'
  BY <1>18 DEF RequestDies, Mishap, BackToLoop
<1>19. ASSUME NEW t \in Ticks, TickDies(t)
     PROVE  MailedIsRecorded'
  BY <1>19 DEF TickDies, Mishap, IdleTick
<1>20. QED
  BY <1>1, <1>2, <1>3, <1>4, <1>5, <1>6, <1>7, <1>8, <1>9, <1>10, <1>11, <1>12, <1>13, <1>14, <1>15, <1>16, <1>17, <1>18, <1>19
  DEF Next, Author, UndoStep, TickStep, Failure

(***************************************************************************)
(* A row reads 'sent' only if it was mailed: MarkSent is reached through   *)
(* MailAccepted alone, and nothing takes a mail back.                      *)
(***************************************************************************)
THEOREM SentIsMailed == Spec => []SentWasMailed
<1>1. Init => MailedIsRecorded
  BY DEF Init, MailedIsRecorded, SentWasMailed, IdleTick, MailIsOut
<1>2. TypeOK /\ HeldRows /\ MailedIsRecorded /\ [Next]_vars => MailedIsRecorded'
  BY MailedNext
<1>3. MailedIsRecorded => SentWasMailed
  BY DEF MailedIsRecorded
<1>4. QED
  BY <1>1, <1>2, <1>3, TypeCorrect, PTL DEF Spec

\* A row a tick knows of is due, and stays so: no row is scheduled twice.
KnownIsDue ==
    /\ \A t \in Ticks :
          /\ \A r \in tick[t].queue : status[r] # "absent" /\ due[r] <= now
          /\ tick[t].row # None => status[tick[t].row] # "absent" /\ due[tick[t].row] <= now
    /\ \A r \in Rows : mails[r] > 0 => status[r] # "absent" /\ due[r] <= now

LEMMA DueNext == TypeOK /\ HeldRows /\ KnownIsDue /\ [Next]_vars => KnownIsDue'
<1> SUFFICES ASSUME TypeOK, HeldRows, KnownIsDue, [Next]_vars
             PROVE  KnownIsDue'
  OBVIOUS
<1> USE NoneAssumption, BoundsAssumption
    DEF TypeOK, HeldRows, HasRow, KnownIsDue, Statuses, TickStates, rowVars
<1>1. CASE UNCHANGED vars
  BY <1>1 DEF vars
<1>2. CASE Clock
  BY <1>2 DEF Clock
<1>3. ASSUME NEW r \in Rows, NEW at \in 0 .. MaxTime, Schedule(r, at)
     PROVE  KnownIsDue'
  BY <1>3 DEF Schedule
<1>4. ASSUME NEW r \in Rows, Cancel(r)
     PROVE  KnownIsDue'
  BY <1>4 DEF Cancel
<1>5. ASSUME NEW c \in Clients, NEW r \in Rows, UndoSelect(c, r)
     PROVE  KnownIsDue'
  BY <1>5 DEF UndoSelect
<1>6. ASSUME NEW c \in Clients, UndoClaim(c)
     PROVE  KnownIsDue'
  BY <1>6 DEF UndoClaim, IdleUndo
<1>7. ASSUME NEW c \in Clients, UndoDraft(c)
     PROVE  KnownIsDue'
  BY <1>7 DEF UndoDraft, IdleUndo
<1>8. ASSUME NEW t \in Ticks, CronTick(t)
     PROVE  KnownIsDue'
  BY <1>8 DEF CronTick, DueBatch, Due
<1>9. ASSUME NEW t \in Ticks, NEW r \in Rows, NextRow(t, r)
     PROVE  KnownIsDue'
  BY <1>9 DEF NextRow
<1>10. ASSUME NEW t \in Ticks, TickDone(t)
     PROVE  KnownIsDue'
  BY <1>10 DEF TickDone, IdleTick
<1>11. ASSUME NEW t \in Ticks, SendRejected(t)
     PROVE  KnownIsDue'
  BY <1>11 DEF SendRejected
<1>12. ASSUME NEW t \in Ticks, MailAccepted(t)
     PROVE  KnownIsDue'
  BY <1>12 DEF MailAccepted
<1>13. ASSUME NEW t \in Ticks, Persisted(t)
     PROVE  KnownIsDue'
  BY <1>13 DEF Persisted
<1>14. ASSUME NEW t \in Ticks, MarkSent(t)
     PROVE  KnownIsDue'
  BY <1>14 DEF MarkSent, BackToLoop
<1>15. ASSUME NEW t \in Ticks, MarkFailed(t)
     PROVE  KnownIsDue'
  BY <1>15 DEF MarkFailed, BackToLoop
<1>16. ASSUME NEW c \in Clients, UndoDies(c)
     PROVE  KnownIsDue'
  BY <1>16 DEF UndoDies, Mishap, IdleUndo
<1>17. ASSUME NEW t \in Ticks, ThrowsAfterMail(t)
     PROVE  KnownIsDue'
  BY <1>17 DEF ThrowsAfterMail, Mishap
<1>18. ASSUME NEW t \in Ticks, RequestDies(t)
     PROVE  KnownIsDue'
  BY <1>18 DEF RequestDies, Mishap, BackToLoop
<1>19. ASSUME NEW t \in Ticks, TickDies(t)
     PROVE  KnownIsDue'
  BY <1>19 DEF TickDies, Mishap, IdleTick
<1>20. QED
  BY <1>1, <1>2, <1>3, <1>4, <1>5, <1>6, <1>7, <1>8, <1>9, <1>10, <1>11, <1>12, <1>13, <1>14, <1>15, <1>16, <1>17, <1>18, <1>19
  DEF Next, Author, UndoStep, TickStep, Failure

(***************************************************************************)
(* No message goes out before its scheduled_for, although only the SELECT  *)
(* of a tick compares it with the clock and ticks keep their lists.        *)
(***************************************************************************)
THEOREM NothingEarly == Spec => []NeverEarly
<1>1. Init => KnownIsDue
  BY DEF Init, KnownIsDue, IdleTick
<1>2. TypeOK /\ HeldRows /\ KnownIsDue /\ [Next]_vars => KnownIsDue'
  BY DueNext
<1>3. KnownIsDue => NeverEarly
  BY DEF KnownIsDue, NeverEarly
<1>4. QED
  BY <1>1, <1>2, <1>3, TypeCorrect, PTL DEF Spec

-----------------------------------------------------------------------------
(* The conditional UPDATEs of the two withdrawals.                         *)

Withdrawn(r) == status[r] \notin {"absent", "pending"}
Drafting(c, r) == undo[c].pc = "drafting" /\ undo[c].row = r

WithdrawnOnce ==
    /\ OneWithdrawalWins
    /\ \A r \in Rows : drafts[r] > 0 \/ r \in discarded => Withdrawn(r)
    /\ \A c \in Clients, r \in Rows :
          Drafting(c, r) => /\ Withdrawn(r)
                            /\ drafts[r] = 0
                            /\ r \notin discarded
                            /\ \A d \in Clients : Drafting(d, r) => d = c

LEMMA WithdrawnNext ==
    TypeOK /\ HeldRows /\ WithdrawnOnce /\ [Next]_vars => WithdrawnOnce'
<1> SUFFICES ASSUME TypeOK, HeldRows, WithdrawnOnce, [Next]_vars
             PROVE  WithdrawnOnce'
  OBVIOUS
<1> USE NoneAssumption
    DEF TypeOK, HeldRows, HasRow, WithdrawnOnce, OneWithdrawalWins, Withdrawn,
        Drafting, Statuses, TickStates, rowVars
<1>1. CASE UNCHANGED vars
  BY <1>1 DEF vars
<1>2. CASE Clock
  BY <1>2 DEF Clock
<1>3. ASSUME NEW r \in Rows, NEW at \in 0 .. MaxTime, Schedule(r, at)
     PROVE  WithdrawnOnce'
  BY <1>3 DEF Schedule
<1>4. ASSUME NEW r \in Rows, Cancel(r)
     PROVE  WithdrawnOnce'
  BY <1>4 DEF Cancel
<1>5. ASSUME NEW c \in Clients, NEW r \in Rows, UndoSelect(c, r)
     PROVE  WithdrawnOnce'
  BY <1>5 DEF UndoSelect
<1>6. ASSUME NEW c \in Clients, UndoClaim(c)
     PROVE  WithdrawnOnce'
  BY <1>6 DEF UndoClaim, IdleUndo
<1>7. ASSUME NEW c \in Clients, UndoDraft(c)
     PROVE  WithdrawnOnce'
  BY <1>7 DEF UndoDraft, IdleUndo
<1>8. ASSUME NEW t \in Ticks, CronTick(t)
     PROVE  WithdrawnOnce'
  BY <1>8 DEF CronTick, DueBatch, Due
<1>9. ASSUME NEW t \in Ticks, NEW r \in Rows, NextRow(t, r)
     PROVE  WithdrawnOnce'
  BY <1>9 DEF NextRow
<1>10. ASSUME NEW t \in Ticks, TickDone(t)
     PROVE  WithdrawnOnce'
  BY <1>10 DEF TickDone, IdleTick
<1>11. ASSUME NEW t \in Ticks, SendRejected(t)
     PROVE  WithdrawnOnce'
  BY <1>11 DEF SendRejected
<1>12. ASSUME NEW t \in Ticks, MailAccepted(t)
     PROVE  WithdrawnOnce'
  BY <1>12 DEF MailAccepted
<1>13. ASSUME NEW t \in Ticks, Persisted(t)
     PROVE  WithdrawnOnce'
  BY <1>13 DEF Persisted
<1>14. ASSUME NEW t \in Ticks, MarkSent(t)
     PROVE  WithdrawnOnce'
  BY <1>14 DEF MarkSent, BackToLoop
<1>15. ASSUME NEW t \in Ticks, MarkFailed(t)
     PROVE  WithdrawnOnce'
  BY <1>15 DEF MarkFailed, BackToLoop
<1>16. ASSUME NEW c \in Clients, UndoDies(c)
     PROVE  WithdrawnOnce'
  BY <1>16 DEF UndoDies, Mishap, IdleUndo
<1>17. ASSUME NEW t \in Ticks, ThrowsAfterMail(t)
     PROVE  WithdrawnOnce'
  BY <1>17 DEF ThrowsAfterMail, Mishap
<1>18. ASSUME NEW t \in Ticks, RequestDies(t)
     PROVE  WithdrawnOnce'
  BY <1>18 DEF RequestDies, Mishap, BackToLoop
<1>19. ASSUME NEW t \in Ticks, TickDies(t)
     PROVE  WithdrawnOnce'
  BY <1>19 DEF TickDies, Mishap, IdleTick
<1>20. QED
  BY <1>1, <1>2, <1>3, <1>4, <1>5, <1>6, <1>7, <1>8, <1>9, <1>10, <1>11, <1>12, <1>13, <1>14, <1>15, <1>16, <1>17, <1>18, <1>19
  DEF Next, Author, UndoStep, TickStep, Failure

(***************************************************************************)
(* However many requests withdraw a row, one of them wins: at most one     *)
(* draft is made out of it, and none once a DELETE was answered ok.        *)
(***************************************************************************)
THEOREM OneWithdrawal == Spec => []OneWithdrawalWins
<1>1. Init => WithdrawnOnce
  BY DEF Init, WithdrawnOnce, OneWithdrawalWins, Drafting, IdleUndo
<1>2. TypeOK /\ HeldRows /\ WithdrawnOnce /\ [Next]_vars => WithdrawnOnce'
  BY WithdrawnNext
<1>3. WithdrawnOnce => OneWithdrawalWins
  BY DEF WithdrawnOnce
<1>4. QED
  BY <1>1, <1>2, <1>3, TypeCorrect, PTL DEF Spec

-----------------------------------------------------------------------------
(* A settled row stays settled.                                            *)

LEMMA SettledStep ==
    ASSUME TypeOK, HeldRows, [Next]_vars, NEW n \in Rows,
           Settled(n)
    PROVE  ~InFlight(n)' /\ mails'[n] = mails[n] /\ status'[n] = status[n]
<1> USE NoneAssumption
    DEF TypeOK, HeldRows, HasRow, Settled, InFlight, Statuses, TickStates, rowVars
<1>1. CASE UNCHANGED vars
  BY <1>1 DEF vars
<1>2. CASE Clock
  BY <1>2 DEF Clock
<1>3. ASSUME NEW r \in Rows, NEW at \in 0 .. MaxTime, Schedule(r, at)
     PROVE  ~InFlight(n)' /\ mails'[n] = mails[n] /\ status'[n] = status[n]
  BY <1>3 DEF Schedule
<1>4. ASSUME NEW r \in Rows, Cancel(r)
     PROVE  ~InFlight(n)' /\ mails'[n] = mails[n] /\ status'[n] = status[n]
  BY <1>4 DEF Cancel
<1>5. ASSUME NEW c \in Clients, NEW r \in Rows, UndoSelect(c, r)
     PROVE  ~InFlight(n)' /\ mails'[n] = mails[n] /\ status'[n] = status[n]
  BY <1>5 DEF UndoSelect
<1>6. ASSUME NEW c \in Clients, UndoClaim(c)
     PROVE  ~InFlight(n)' /\ mails'[n] = mails[n] /\ status'[n] = status[n]
  BY <1>6 DEF UndoClaim, IdleUndo
<1>7. ASSUME NEW c \in Clients, UndoDraft(c)
     PROVE  ~InFlight(n)' /\ mails'[n] = mails[n] /\ status'[n] = status[n]
  BY <1>7 DEF UndoDraft, IdleUndo
<1>8. ASSUME NEW t \in Ticks, CronTick(t)
     PROVE  ~InFlight(n)' /\ mails'[n] = mails[n] /\ status'[n] = status[n]
  BY <1>8 DEF CronTick, DueBatch, Due
<1>9. ASSUME NEW t \in Ticks, NEW r \in Rows, NextRow(t, r)
     PROVE  ~InFlight(n)' /\ mails'[n] = mails[n] /\ status'[n] = status[n]
  BY <1>9 DEF NextRow
<1>10. ASSUME NEW t \in Ticks, TickDone(t)
     PROVE  ~InFlight(n)' /\ mails'[n] = mails[n] /\ status'[n] = status[n]
  BY <1>10 DEF TickDone, IdleTick
<1>11. ASSUME NEW t \in Ticks, SendRejected(t)
     PROVE  ~InFlight(n)' /\ mails'[n] = mails[n] /\ status'[n] = status[n]
  BY <1>11 DEF SendRejected
<1>12. ASSUME NEW t \in Ticks, MailAccepted(t)
     PROVE  ~InFlight(n)' /\ mails'[n] = mails[n] /\ status'[n] = status[n]
  BY <1>12 DEF MailAccepted
<1>13. ASSUME NEW t \in Ticks, Persisted(t)
     PROVE  ~InFlight(n)' /\ mails'[n] = mails[n] /\ status'[n] = status[n]
  BY <1>13 DEF Persisted
<1>14. ASSUME NEW t \in Ticks, MarkSent(t)
     PROVE  ~InFlight(n)' /\ mails'[n] = mails[n] /\ status'[n] = status[n]
  BY <1>14 DEF MarkSent, BackToLoop
<1>15. ASSUME NEW t \in Ticks, MarkFailed(t)
     PROVE  ~InFlight(n)' /\ mails'[n] = mails[n] /\ status'[n] = status[n]
  BY <1>15 DEF MarkFailed, BackToLoop
<1>16. ASSUME NEW c \in Clients, UndoDies(c)
     PROVE  ~InFlight(n)' /\ mails'[n] = mails[n] /\ status'[n] = status[n]
  BY <1>16 DEF UndoDies, Mishap, IdleUndo
<1>17. ASSUME NEW t \in Ticks, ThrowsAfterMail(t)
     PROVE  ~InFlight(n)' /\ mails'[n] = mails[n] /\ status'[n] = status[n]
  BY <1>17 DEF ThrowsAfterMail, Mishap
<1>18. ASSUME NEW t \in Ticks, RequestDies(t)
     PROVE  ~InFlight(n)' /\ mails'[n] = mails[n] /\ status'[n] = status[n]
  BY <1>18 DEF RequestDies, Mishap, BackToLoop
<1>19. ASSUME NEW t \in Ticks, TickDies(t)
     PROVE  ~InFlight(n)' /\ mails'[n] = mails[n] /\ status'[n] = status[n]
  BY <1>19 DEF TickDies, Mishap, IdleTick
<1>20. QED
  BY <1>1, <1>2, <1>3, <1>4, <1>5, <1>6, <1>7, <1>8, <1>9, <1>10, <1>11, <1>12, <1>13, <1>14, <1>15, <1>16, <1>17, <1>18, <1>19
  DEF Next, Author, UndoStep, TickStep, Failure

(***************************************************************************)
(* A withdrawn or finalised row that no dispatcher holds past its status   *)
(* check is neither mailed nor rewritten any more.                         *)
(***************************************************************************)
THEOREM SettledForGood == Spec => SettledStaysSettled
<1>1. TypeOK /\ HeldRows /\ [Next]_vars =>
        [\A r \in Rows :
            Settled(r) => /\ ~InFlight(r)'
                          /\ mails'[r] = mails[r]
                          /\ status'[r] = status[r]]_vars
  BY SettledStep
<1>2. QED
  BY <1>1, TypeCorrect, PTL DEF Spec, SettledStaysSettled

-----------------------------------------------------------------------------
(* The refinement of OutgoingMail.                                         *)

LEMMA MailInit == Init => Mail!Init
<1> SUFFICES ASSUME Init
             PROVE  Mail!Init
  OBVIOUS
<1>1. \A t \in Ticks : tick[t].row = None /\ (tick[t].pc \in MailIsOut) = FALSE
  BY DEF Init, IdleTick, MailIsOut
<1>2. MailAttempt = [t \in Ticks |-> Mail!NoAttempt]
  BY <1>1 DEF MailAttempt, Mail!NoAttempt
<1>3. MailPhase = [r \in Rows |-> "new"]
  BY DEF Init, MailPhase
<1>4. QED
  BY <1>2, <1>3 DEF Init, Mail!Init

(***************************************************************************)
(* What the mapping makes of the writes: a status that stays, one that is  *)
(* finalised, ticks that keep their attempts, one tick that changes its.   *)
(***************************************************************************)
LEMMA PhaseKept == status' = status => MailPhase' = MailPhase
  BY DEF MailPhase

LEMMA PhaseClosed ==
    ASSUME TypeOK, NEW r \in Rows, NEW s \in {"sent", "failed", "cancelled"},
           status' = [status EXCEPT ![r] = s]
    PROVE  MailPhase' = [MailPhase EXCEPT ![r] = "closed"]
  BY DEF TypeOK, MailPhase

LEMMA AttemptsKept ==
    ASSUME \A t \in Ticks :
              /\ tick'[t].row = tick[t].row
              /\ (tick'[t].pc \in MailIsOut) = (tick[t].pc \in MailIsOut)
    PROVE  MailAttempt' = MailAttempt
  BY DEF MailAttempt

LEMMA AttemptChanged ==
    ASSUME TypeOK, NEW t \in Ticks, NEW p \in TickStates, NEW q, NEW r,
           tick' = [tick EXCEPT ![t] = [pc |-> p, queue |-> q, row |-> r]]
    PROVE  /\ p \in MailIsOut =>
                MailAttempt' = [MailAttempt EXCEPT ![t] = [msg |-> r, out |-> TRUE]]
           /\ p \notin MailIsOut =>
                MailAttempt' = [MailAttempt EXCEPT ![t] = [msg |-> r, out |-> FALSE]]
<1>1. MailAttempt' = [MailAttempt EXCEPT ![t] = [msg |-> r, out |-> p \in MailIsOut]]
  BY DEF TypeOK, MailAttempt
<1>2. ASSUME p \in MailIsOut
      PROVE  (p \in MailIsOut) = TRUE
  BY <1>2
<1>3. ASSUME p \notin MailIsOut
      PROVE  (p \in MailIsOut) = FALSE
  BY <1>3
<1>4. QED
  BY <1>1, <1>2, <1>3, Zenon

LEMMA AttemptIs ==
    ASSUME NEW t \in Ticks
    PROVE  /\ tick[t].pc \in MailIsOut =>
                MailAttempt[t] = [msg |-> tick[t].row, out |-> TRUE]
           /\ tick[t].pc \notin MailIsOut =>
                MailAttempt[t] = [msg |-> tick[t].row, out |-> FALSE]
<1>1. MailAttempt[t] = [msg |-> tick[t].row, out |-> tick[t].pc \in MailIsOut]
  BY DEF MailAttempt
<1>2. ASSUME tick[t].pc \in MailIsOut
      PROVE  (tick[t].pc \in MailIsOut) = TRUE
  BY <1>2
<1>3. ASSUME tick[t].pc \notin MailIsOut
      PROVE  (tick[t].pc \in MailIsOut) = FALSE
  BY <1>3
<1>4. QED
  BY <1>1, <1>2, <1>3, Zenon

LEMMA LoopingHasNoAttempt ==
    ASSUME TypeOK, NEW t \in Ticks, NEW p \in {"idle", "looping"}, NEW q,
           tick' = [tick EXCEPT ![t] = [pc |-> p, queue |-> q, row |-> None]]
    PROVE  MailAttempt' = [MailAttempt EXCEPT ![t] = Mail!NoAttempt]
<1>1. p \in TickStates /\ p \notin MailIsOut
  BY DEF TickStates, MailIsOut
<1>2. QED
  BY <1>1, AttemptChanged DEF Mail!NoAttempt

LEMMA PhaseIs ==
    ASSUME NEW r \in Rows
    PROVE  /\ status[r] = "pending" => MailPhase[r] = "open"
           /\ status[r] = "absent" => MailPhase[r] = "new"
  BY DEF MailPhase

LEMMA MailStep ==
    TypeOK /\ HeldRows /\ [Next]_vars => [Mail!Next]_(Mail!vars)
<1> SUFFICES ASSUME TypeOK, HeldRows, [Next]_vars
             PROVE  Mail!Next \/ UNCHANGED Mail!vars
  OBVIOUS
<1> USE NoneAssumption DEF HeldRows, HasRow, MailIsOut, rowVars
<1>1. CASE UNCHANGED vars
  BY <1>1 DEF vars, Mail!vars, MailPhase, MailAttempt
<1>2. CASE Clock
  BY <1>2 DEF Clock, Mail!vars, MailPhase, MailAttempt
<1>3. ASSUME NEW r \in Rows, NEW at \in 0 .. MaxTime, Schedule(r, at)
      PROVE  Mail!Next
  <2>1. MailPhase' = [MailPhase EXCEPT ![r] = "open"]
    BY <1>3 DEF Schedule, MailPhase, TypeOK
  <2>2. MailAttempt' = MailAttempt /\ mails' = mails /\ mishaps' = mishaps
    BY <1>3, AttemptsKept DEF Schedule
  <2>3. Mail!Submit(r)
    BY <1>3, <2>1, <2>2, PhaseIs DEF Schedule, Mail!Submit
  <2>4. QED
    BY <2>3 DEF Mail!Next
<1>4. ASSUME NEW r \in Rows, Cancel(r)
      PROVE  Mail!Next
  <2>1. MailPhase' = [MailPhase EXCEPT ![r] = "closed"]
    BY <1>4, PhaseClosed DEF Cancel
  <2>2. MailAttempt' = MailAttempt /\ mails' = mails /\ mishaps' = mishaps
    BY <1>4, AttemptsKept DEF Cancel
  <2>3. Mail!Withdraw(r)
    BY <1>4, <2>1, <2>2, PhaseIs DEF Cancel, Mail!Withdraw
  <2>4. QED
    BY <2>3 DEF Mail!Next
<1>5. ASSUME NEW c \in Clients, NEW r \in Rows, UndoSelect(c, r)
      PROVE  UNCHANGED Mail!vars
  BY <1>5, PhaseKept, AttemptsKept DEF UndoSelect, Mail!vars
<1>6. ASSUME NEW c \in Clients, UndoClaim(c)
      PROVE  Mail!Next \/ UNCHANGED Mail!vars
  <2> DEFINE r == undo[c].row
  <2>1. r \in Rows
    BY <1>6 DEF UndoClaim
  <2>2. MailAttempt' = MailAttempt /\ mails' = mails /\ mishaps' = mishaps
    BY <1>6, AttemptsKept DEF UndoClaim
  <2>3. CASE status[r] = "pending"
    <3>1. MailPhase' = [MailPhase EXCEPT ![r] = "closed"]
      BY <1>6, <2>1, <2>3, PhaseClosed DEF UndoClaim
    <3>2. Mail!Withdraw(r)
      BY <2>1, <2>2, <2>3, <3>1, PhaseIs DEF Mail!Withdraw
    <3>3. QED
      BY <2>1, <3>2 DEF Mail!Next
  <2>4. CASE status[r] # "pending"
    BY <1>6, <2>2, <2>4, PhaseKept DEF UndoClaim, Mail!vars
  <2>5. QED
    BY <2>3, <2>4
<1>7. ASSUME NEW c \in Clients, UndoDraft(c)
      PROVE  UNCHANGED Mail!vars
  BY <1>7, PhaseKept, AttemptsKept DEF UndoDraft, Mail!vars
<1>8. ASSUME NEW t \in Ticks, CronTick(t)
      PROVE  UNCHANGED Mail!vars
  <2>1. \A u \in Ticks : /\ tick'[u].row = tick[u].row
                         /\ (tick'[u].pc \in MailIsOut) = (tick[u].pc \in MailIsOut)
    BY <1>8 DEF CronTick, TypeOK
  <2>2. QED
    BY <1>8, <2>1, PhaseKept, AttemptsKept DEF CronTick, Mail!vars
<1>9. ASSUME NEW t \in Ticks, NEW r \in Rows, NextRow(t, r)
      PROVE  Mail!Next \/ UNCHANGED Mail!vars
  <2>1. MailPhase' = MailPhase /\ mails' = mails /\ mishaps' = mishaps
    BY <1>9, PhaseKept DEF NextRow
  <2>2. CASE status[r] = "pending"
    <3>1. tick[t].row = None /\ tick[t].pc \notin MailIsOut
      BY <1>9 DEF NextRow
    <3>2. MailAttempt[t] = Mail!NoAttempt
      BY <3>1, AttemptIs DEF Mail!NoAttempt
    <3>3. MailAttempt' = [MailAttempt EXCEPT ![t] = [msg |-> r, out |-> FALSE]]
      <4>1. tick' = [tick EXCEPT ![t] =
                [pc |-> "sending", queue |-> tick[t].queue \ {r}, row |-> r]]
        BY <1>9, <2>2 DEF NextRow
      <4>2. "sending" \in TickStates /\ "sending" \notin MailIsOut
        BY DEF TickStates
      <4>3. QED
        BY <4>1, <4>2, AttemptChanged
    <3>4. Mail!Begin(t, r)
      BY <2>1, <2>2, <3>2, <3>3, PhaseIs DEF Mail!Begin
    <3>5. QED
      BY <3>4 DEF Mail!Next
  <2>3. CASE status[r] # "pending"
    <3>1. \A u \in Ticks : /\ tick'[u].row = tick[u].row
                           /\ (tick'[u].pc \in MailIsOut) = (tick[u].pc \in MailIsOut)
      BY <1>9, <2>3 DEF NextRow, TypeOK
    <3>2. QED
      BY <2>1, <3>1, AttemptsKept DEF Mail!vars
  <2>4. QED
    BY <2>2, <2>3
<1>10. ASSUME NEW t \in Ticks, TickDone(t)
       PROVE  UNCHANGED Mail!vars
  <2>1. \A u \in Ticks : /\ tick'[u].row = tick[u].row
                         /\ (tick'[u].pc \in MailIsOut) = (tick[u].pc \in MailIsOut)
    BY <1>10 DEF TickDone, IdleTick, TypeOK
  <2>2. QED
    BY <1>10, <2>1, PhaseKept, AttemptsKept DEF TickDone, Mail!vars
<1>11. ASSUME NEW t \in Ticks, SendRejected(t)
       PROVE  UNCHANGED Mail!vars
  <2>1. \A u \in Ticks : /\ tick'[u].row = tick[u].row
                         /\ (tick'[u].pc \in MailIsOut) = (tick[u].pc \in MailIsOut)
    BY <1>11 DEF SendRejected, TypeOK
  <2>2. QED
    BY <1>11, <2>1, PhaseKept, AttemptsKept DEF SendRejected, Mail!vars
<1>12. ASSUME NEW t \in Ticks, MailAccepted(t)
       PROVE  Mail!Next
  <2> DEFINE r == tick[t].row
  <2>1. r \in Rows /\ tick[t].pc = "sending"
    BY <1>12 DEF MailAccepted, TypeOK
  <2>2. MailAttempt[t] = [msg |-> r, out |-> FALSE]
    BY <2>1, AttemptIs
  <2>3. tick' = [tick EXCEPT ![t] =
            [pc |-> "persisting", queue |-> tick[t].queue, row |-> r]]
    <3>1. tick[t] = [pc |-> tick[t].pc, queue |-> tick[t].queue, row |-> r]
      BY DEF TypeOK
    <3>2. [tick[t] EXCEPT !.pc = "persisting"]
            = [pc |-> "persisting", queue |-> tick[t].queue, row |-> r]
      BY <3>1
    <3>3. tick' = [tick EXCEPT ![t] = [tick[t] EXCEPT !.pc = "persisting"]]
      BY <1>12 DEF MailAccepted
    <3>4. QED
      BY <3>2, <3>3
  <2>4. MailAttempt' = [MailAttempt EXCEPT ![t] = [msg |-> r, out |-> TRUE]]
    <3>1. "persisting" \in TickStates /\ "persisting" \in MailIsOut
      BY DEF TickStates
    <3> HIDE DEF r
    <3>2. QED
      BY <2>3, <3>1, AttemptChanged
  <2>5. MailPhase' = MailPhase /\ mails' = [mails EXCEPT ![r] = @ + 1] /\ mishaps' = mishaps
    BY <1>12, PhaseKept DEF MailAccepted
  <2>6. Mail!HandOver(t, r)
    BY <2>2, <2>4, <2>5 DEF Mail!HandOver
  <2>7. QED
    BY <2>1, <2>6 DEF Mail!Next
<1>13. ASSUME NEW t \in Ticks, Persisted(t)
       PROVE  UNCHANGED Mail!vars
  <2>1. \A u \in Ticks : /\ tick'[u].row = tick[u].row
                         /\ (tick'[u].pc \in MailIsOut) = (tick[u].pc \in MailIsOut)
    BY <1>13 DEF Persisted, TypeOK
  <2>2. QED
    BY <1>13, <2>1, PhaseKept, AttemptsKept DEF Persisted, Mail!vars
<1>14. ASSUME NEW t \in Ticks, MarkSent(t) \/ MarkFailed(t)
       PROVE  Mail!Next
  <2> DEFINE r == tick[t].row
  <2>1. r \in Rows
    BY <1>14 DEF MarkSent, MarkFailed, TypeOK
  <2>2. MailPhase' = [MailPhase EXCEPT ![r] = "closed"]
    BY <1>14, <2>1, PhaseClosed DEF MarkSent, MarkFailed
  <2>3. BackToLoop(t) /\ mails' = mails /\ mishaps' = mishaps
    BY <1>14 DEF MarkSent, MarkFailed
  <2>4. MailAttempt' = [MailAttempt EXCEPT ![t] = Mail!NoAttempt]
    BY <2>3, LoopingHasNoAttempt DEF BackToLoop
  <2>5. MailAttempt[t].msg = r
    BY DEF MailAttempt
  <2>6. Mail!Close(t, r)
    BY <2>2, <2>3, <2>4, <2>5 DEF Mail!Close
  <2>7. QED
    BY <2>1, <2>6 DEF Mail!Next
<1>15. ASSUME NEW c \in Clients, UndoDies(c)
       PROVE  Mail!Next
  <2>1. MailPhase' = MailPhase /\ MailAttempt' = MailAttempt
    BY <1>15, PhaseKept, AttemptsKept DEF UndoDies
  <2>2. Mail!Hiccup
    BY <1>15, <2>1 DEF UndoDies, Mishap, Mail!Hiccup
  <2>3. QED
    BY <2>2 DEF Mail!Next
<1>16. ASSUME NEW t \in Ticks, ThrowsAfterMail(t)
       PROVE  Mail!Next
  <2>1. \A u \in Ticks : /\ tick'[u].row = tick[u].row
                         /\ (tick'[u].pc \in MailIsOut) = (tick[u].pc \in MailIsOut)
    BY <1>16 DEF ThrowsAfterMail, TypeOK
  <2>2. Mail!Hiccup
    BY <1>16, <2>1, PhaseKept, AttemptsKept DEF ThrowsAfterMail, Mishap, Mail!Hiccup
  <2>3. QED
    BY <2>2 DEF Mail!Next
<1>17. ASSUME NEW t \in Ticks, RequestDies(t) \/ TickDies(t)
       PROVE  Mail!Next
  <2>1. MailPhase' = MailPhase /\ mails' = mails /\ mishaps' = mishaps + 1
    BY <1>17, PhaseKept DEF RequestDies, TickDies, Mishap
  <2>2. MailAttempt' = [MailAttempt EXCEPT ![t] = Mail!NoAttempt]
    <3>1. CASE RequestDies(t)
      BY <3>1, LoopingHasNoAttempt DEF RequestDies, BackToLoop
    <3>2. CASE TickDies(t)
      BY <3>2, LoopingHasNoAttempt DEF TickDies, IdleTick
    <3>3. QED
      BY <1>17, <3>1, <3>2
  <2>3. CASE tick[t].row = None
    <3>1. tick[t].pc \notin MailIsOut
      BY <2>3
    <3>2. MailAttempt[t] = Mail!NoAttempt
      BY <2>3, <3>1, AttemptIs DEF Mail!NoAttempt
    <3>3. MailAttempt' = MailAttempt
      BY <2>2, <3>2 DEF MailAttempt
    <3>4. Mail!Hiccup
      BY <2>1, <3>3 DEF Mail!Hiccup
    <3>5. QED
      BY <3>4 DEF Mail!Next
  <2>4. CASE tick[t].row # None
    <3>1. tick[t].row \in Rows
      BY <2>4 DEF TypeOK
    <3>2. CASE tick[t].pc \in MailIsOut
      <4>1. MailAttempt[t] = [msg |-> tick[t].row, out |-> TRUE]
        BY <3>2, AttemptIs
      <4>2. Mail!Slip(t, tick[t].row)
        BY <2>1, <2>2, <4>1 DEF Mail!Slip
      <4>3. QED
        BY <3>1, <4>2 DEF Mail!Next
    <3>3. CASE tick[t].pc \notin MailIsOut
      <4>1. MailAttempt[t] = [msg |-> tick[t].row, out |-> FALSE]
        BY <3>3, AttemptIs
      <4>2. Mail!Abandon(t, tick[t].row)
        BY <2>1, <2>2, <4>1 DEF Mail!Abandon
      <4>3. QED
        BY <3>1, <4>2 DEF Mail!Next
    <3>4. QED
      BY <3>2, <3>3
  <2>5. QED
    BY <2>3, <2>4
<1>18. QED
  BY <1>1, <1>2, <1>3, <1>4, <1>5, <1>6, <1>7, <1>8, <1>9, <1>10, <1>11,
     <1>12, <1>13, <1>14, <1>15, <1>16, <1>17
  DEF Next, Author, UndoStep, TickStep, Failure

(***************************************************************************)
(* The scheduled-send pipeline implements the abstract queue of outgoing   *)
(* mail, for every set of rows, ticks and requests and every batch size.   *)
(***************************************************************************)
THEOREM ScheduledImplementsMail == Spec => ImplementsOutgoingMail
<1>1. TypeOK /\ HeldRows /\ [Next]_vars => [Mail!Next]_(Mail!vars)
  BY MailStep
<1>2. QED
  BY <1>1, MailInit, TypeCorrect, PTL DEF Spec, ImplementsOutgoingMail, Mail!Spec

(***************************************************************************)
(* A scheduled message is mailed at most once per tick that can run at the *)
(* same time plus once per mishap: OutgoingBounded, through the mapping.   *)
(***************************************************************************)
Bound == INSTANCE OutgoingMailProofs WITH
    Msgs <- Rows, Workers <- Ticks, phase <- MailPhase, attempt <- MailAttempt

THEOREM ScheduledCopiesBounded == Spec => []CopiesBounded
<1>0. Bound!Cardinality(Ticks) = Cardinality(Ticks)
  BY DEF Bound!Cardinality, Cardinality
<1>1. Bound!IsFiniteSet(Ticks)
  BY TicksAssumption DEF Bound!IsFiniteSet, IsFiniteSet
<1>2. Bound!Spec => []Bound!CopiesBounded
  BY <1>1, NoneAssumption, Bound!OutgoingBounded DEF Bound!Sensible
<1>3. Mail!Spec => Bound!Spec
  BY DEF Mail!Spec, Mail!Init, Mail!Next, Mail!vars, Mail!NoAttempt, Mail!Submit,
         Mail!Withdraw, Mail!Begin, Mail!HandOver, Mail!Close, Mail!Abandon,
         Mail!Slip, Mail!Hiccup,
         Bound!Spec, Bound!Init, Bound!Next, Bound!vars, Bound!NoAttempt, Bound!Submit,
         Bound!Withdraw, Bound!Begin, Bound!HandOver, Bound!Close, Bound!Abandon,
         Bound!Slip, Bound!Hiccup
<1>4. Bound!CopiesBounded => CopiesBounded
  BY <1>0 DEF Bound!CopiesBounded, CopiesBounded
<1>5. QED
  BY <1>2, <1>3, <1>4, ScheduledImplementsMail, PTL DEF ImplementsOutgoingMail
=============================================================================
