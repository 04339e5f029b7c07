---------------------------- MODULE OutboxProofs ----------------------------
(***************************************************************************)
(* The outbox for any number of messages, keys and failures: its types,    *)
(* that a row is not forgotten before it is mailed, that a failed row is   *)
(* final, and that it implements OutgoingMail with one worker, so that a   *)
(* row is mailed at most once plus once for each mishap.                   *)
(***************************************************************************)
EXTENDS Outbox, FiniteSetTheorems, TLAPS

(***************************************************************************)
(* The loop has a row exactly while it awaits the answer for it, that row  *)
(* reads 'sending', and the rest of its snapshot is still pending: nobody  *)
(* but the loop touches a row once it is in the store.                     *)
(***************************************************************************)
LoopHolds ==
    /\ sw.row # None <=> sw.pc \in {"posting", "accepted"}
    /\ sw.row # None => status[sw.row] = "sending"
    /\ sw.pc = "accepted" => posted[sw.row] > 0
    /\ \A i \in sw.queue : status[i] = "pending"

LEMMA TypeInit == Init => TypeOK
  BY IdsAssumption, BoundsAssumption
  DEF Init, TypeOK, Statuses, ComposerStates, IdleSw

LEMMA TypeNext == TypeOK /\ LoopHolds /\ [Next]_vars => TypeOK'
<1> SUFFICES ASSUME TypeOK, LoopHolds, [Next]_vars
             PROVE  TypeOK'
  OBVIOUS
<1> USE IdsAssumption, NoMsgAssumption, BoundsAssumption
    DEF TypeOK, Statuses, ComposerStates, LoopHolds, rowVars, pageVars, mailVars
<1>1. CASE UNCHANGED vars
  BY <1>1 DEF vars
<1>2. ASSUME NEW m \in Msgs, Press(m)
      PROVE  TypeOK'
  BY <1>2 DEF Press
<1>3. ASSUME NEW m \in Msgs, PostAccepted(m)
      PROVE  TypeOK'
  BY <1>3 DEF PostAccepted
<1>4. ASSUME NEW m \in Msgs, PostOk(m)
      PROVE  TypeOK'
  BY <1>4 DEF PostOk
<1>5. ASSUME NEW m \in Msgs, PostRejected(m)
      PROVE  TypeOK'
  BY <1>5 DEF PostRejected, Mishap
<1>6. ASSUME NEW m \in Msgs, PostFails(m)
      PROVE  TypeOK'
  BY <1>6 DEF PostFails, Mishap
<1>7. ASSUME NEW m \in Msgs, AckTimeout(m)
      PROVE  TypeOK'
  BY <1>7 DEF AckTimeout
<1>8. ASSUME NEW m \in Msgs, NEW i \in Ids, Enqueue(m, i)
      PROVE  TypeOK'
  BY <1>8 DEF Enqueue, Fresh
<1>9. ASSUME NEW i \in Ids, Ack(i)
      PROVE  TypeOK'
  BY <1>9 DEF Ack
<1>10. ASSUME NEW m \in Msgs, EnqueueFails(m)
      PROVE  TypeOK'
  BY <1>10 DEF EnqueueFails, Mishap
<1>11. CASE Flush
  BY <1>11 DEF Flush, Pending, IdleSw
<1>12. ASSUME NEW i \in Ids, TakeRow(i)
      PROVE  TypeOK'
  BY <1>12 DEF TakeRow
<1>13. CASE FlushDone
  BY <1>13 DEF FlushDone, IdleSw
<1>14. CASE MailAccepted
  <2>1. sw.row \in Ids /\ posted[sw.row] + 1 \in Nat
    BY <1>14 DEF MailAccepted
  <2>2. QED
    BY <1>14, <2>1 DEF MailAccepted
<1>15. CASE Delivered
  BY <1>15 DEF Delivered, Settle, NextInLoop
<1>16. CASE Refused
  BY <1>16 DEF Refused, Settle, NextInLoop
<1>17. CASE Deferred
  BY <1>17 DEF Deferred, Settle, NextInLoop, NothingIsOut, Mishap
<1>18. CASE Blip
  BY <1>18 DEF Blip, Settle, IdleSw, NothingIsOut, Mishap
<1>19. CASE Killed
  BY <1>19 DEF Killed, Mishap, IdleSw
<1>20. QED
  BY <1>1, <1>2, <1>3, <1>4, <1>5, <1>6, <1>7, <1>8, <1>9, <1>10,
     <1>11, <1>12, <1>13, <1>14, <1>15, <1>16, <1>17, <1>18, <1>19
  DEF Next, Page, Queue, Worker

LEMMA LoopInit == Init => LoopHolds
  BY DEF Init, LoopHolds, IdleSw

LEMMA LoopNext == TypeOK /\ LoopHolds /\ [Next]_vars => LoopHolds'
<1> SUFFICES ASSUME TypeOK, LoopHolds, [Next]_vars
             PROVE  LoopHolds'
  OBVIOUS
<1> USE IdsAssumption, NoMsgAssumption, BoundsAssumption
    DEF TypeOK, Statuses, ComposerStates, LoopHolds, rowVars, pageVars, mailVars
<1>1. CASE UNCHANGED vars
  BY <1>1 DEF vars
<1>2. ASSUME NEW m \in Msgs, Press(m)
      PROVE  LoopHolds'
  BY <1>2 DEF Press
<1>3. ASSUME NEW m \in Msgs, PostAccepted(m)
      PROVE  LoopHolds'
  BY <1>3 DEF PostAccepted
<1>4. ASSUME NEW m \in Msgs, PostOk(m)
      PROVE  LoopHolds'
  BY <1>4 DEF PostOk
<1>5. ASSUME NEW m \in Msgs, PostRejected(m)
      PROVE  LoopHolds'
  BY <1>5 DEF PostRejected, Mishap
<1>6. ASSUME NEW m \in Msgs, PostFails(m)
      PROVE  LoopHolds'
  BY <1>6 DEF PostFails, Mishap
<1>7. ASSUME NEW m \in Msgs, AckTimeout(m)
      PROVE  LoopHolds'
  BY <1>7 DEF AckTimeout
<1>8. ASSUME NEW m \in Msgs, NEW i \in Ids, Enqueue(m, i)
      PROVE  LoopHolds'
  BY <1>8 DEF Enqueue, Fresh
<1>9. ASSUME NEW i \in Ids, Ack(i)
      PROVE  LoopHolds'
  BY <1>9 DEF Ack
<1>10. ASSUME NEW m \in Msgs, EnqueueFails(m)
      PROVE  LoopHolds'
  BY <1>10 DEF EnqueueFails, Mishap
<1>11. CASE Flush
  BY <1>11 DEF Flush, Pending, IdleSw
<1>12. ASSUME NEW i \in Ids, TakeRow(i)
      PROVE  LoopHolds'
  BY <1>12 DEF TakeRow
<1>13. CASE FlushDone
  BY <1>13 DEF FlushDone, IdleSw
<1>14. CASE MailAccepted
  BY <1>14 DEF MailAccepted
<1>15. CASE Delivered
  BY <1>15 DEF Delivered, Settle, NextInLoop
<1>16. CASE Refused
  BY <1>16 DEF Refused, Settle, NextInLoop
<1>17. CASE Deferred
  BY <1>17 DEF Deferred, Settle, NextInLoop, NothingIsOut, Mishap
<1>18. CASE Blip
  BY <1>18 DEF Blip, Settle, IdleSw, NothingIsOut, Mishap
<1>19. CASE Killed
  BY <1>19 DEF Killed, Mishap, IdleSw
<1>20. QED
  BY <1>1, <1>2, <1>3, <1>4, <1>5, <1>6, <1>7, <1>8, <1>9, <1>10,
     <1>11, <1>12, <1>13, <1>14, <1>15, <1>16, <1>17, <1>18, <1>19
  DEF Next, Page, Queue, Worker

(***************************************************************************)
(* Type correctness of the composer and the outbox, and that the loop owns *)
(* the row it reads 'sending'.                                             *)
(***************************************************************************)
THEOREM OutboxTypeCorrect == Spec => [](TypeOK /\ LoopHolds)
<1>1. Init => TypeOK /\ LoopHolds
  BY TypeInit, LoopInit
<1>2. TypeOK /\ LoopHolds /\ [Next]_vars => (TypeOK /\ LoopHolds)'
  BY TypeNext, LoopNext
<1>3. QED
  BY <1>1, <1>2, PTL DEF Spec

-----------------------------------------------------------------------------
(* Nothing is forgotten, and what failed stays failed.                     *)

LEMMA GoneNext == TypeOK /\ LoopHolds /\ GoneWasMailed /\ [Next]_vars => GoneWasMailed'
<1> SUFFICES ASSUME TypeOK, LoopHolds, GoneWasMailed, [Next]_vars
             PROVE  GoneWasMailed'
  OBVIOUS
<1> USE IdsAssumption, NoMsgAssumption, BoundsAssumption
    DEF TypeOK, Statuses, ComposerStates, LoopHolds, rowVars, pageVars, mailVars, GoneWasMailed
<1>1. CASE UNCHANGED vars
  BY <1>1 DEF vars
<1>2. ASSUME NEW m \in Msgs, Press(m)
      PROVE  GoneWasMailed'
  BY <1>2 DEF Press
<1>3. ASSUME NEW m \in Msgs, PostAccepted(m)
      PROVE  GoneWasMailed'
  BY <1>3 DEF PostAccepted
<1>4. ASSUME NEW m \in Msgs, PostOk(m)
      PROVE  GoneWasMailed'
  BY <1>4 DEF PostOk
<1>5. ASSUME NEW m \in Msgs, PostRejected(m)
      PROVE  GoneWasMailed'
  BY <1>5 DEF PostRejected, Mishap
<1>6. ASSUME NEW m \in Msgs, PostFails(m)
      PROVE  GoneWasMailed'
  BY <1>6 DEF PostFails, Mishap
<1>7. ASSUME NEW m \in Msgs, AckTimeout(m)
      PROVE  GoneWasMailed'
  BY <1>7 DEF AckTimeout
<1>8. ASSUME NEW m \in Msgs, NEW i \in Ids, Enqueue(m, i)
      PROVE  GoneWasMailed'
  BY <1>8 DEF Enqueue, Fresh
<1>9. ASSUME NEW i \in Ids, Ack(i)
      PROVE  GoneWasMailed'
  BY <1>9 DEF Ack
<1>10. ASSUME NEW m \in Msgs, EnqueueFails(m)
      PROVE  GoneWasMailed'
  BY <1>10 DEF EnqueueFails, Mishap
<1>11. CASE Flush
  BY <1>11 DEF Flush, Pending, IdleSw
<1>12. ASSUME NEW i \in Ids, TakeRow(i)
      PROVE  GoneWasMailed'
  BY <1>12 DEF TakeRow
<1>13. CASE FlushDone
  BY <1>13 DEF FlushDone, IdleSw
<1>14. CASE MailAccepted
  BY <1>14 DEF MailAccepted
<1>15. CASE Delivered
  BY <1>15 DEF Delivered, Settle, NextInLoop
<1>16. CASE Refused
  BY <1>16 DEF Refused, Settle, NextInLoop
<1>17. CASE Deferred
  BY <1>17 DEF Deferred, Settle, NextInLoop, NothingIsOut, Mishap
<1>18. CASE Blip
  BY <1>18 DEF Blip, Settle, IdleSw, NothingIsOut, Mishap
<1>19. CASE Killed
  BY <1>19 DEF Killed, Mishap, IdleSw
<1>20. QED
  BY <1>1, <1>2, <1>3, <1>4, <1>5, <1>6, <1>7, <1>8, <1>9, <1>10,
     <1>11, <1>12, <1>13, <1>14, <1>15, <1>16, <1>17, <1>18, <1>19
  DEF Next, Page, Queue, Worker

(***************************************************************************)
(* A row leaves the store only after the mail service has accepted its     *)
(* mail.                                                                   *)
(***************************************************************************)
THEOREM NothingForgotten == Spec => []GoneWasMailed
<1>1. Init => GoneWasMailed
  BY DEF Init, GoneWasMailed
<1>2. TypeOK /\ LoopHolds /\ GoneWasMailed /\ [Next]_vars => GoneWasMailed'
  BY GoneNext
<1>3. QED
  BY <1>1, <1>2, OutboxTypeCorrect, PTL DEF Spec

FailedKept ==
    \A i \in Ids : status[i] = "failed" =>
        status'[i] = "failed" /\ sw'.row # i /\ posted'[i] = posted[i]

LEMMA FailedStep == TypeOK /\ LoopHolds /\ [Next]_vars => FailedKept
<1> SUFFICES ASSUME TypeOK, LoopHolds, [Next]_vars
             PROVE  FailedKept
  OBVIOUS
<1> USE IdsAssumption, NoMsgAssumption, BoundsAssumption
    DEF TypeOK, Statuses, ComposerStates, LoopHolds, rowVars, pageVars, mailVars, FailedKept
<1>1. CASE UNCHANGED vars
  BY <1>1 DEF vars
<1>2. ASSUME NEW m \in Msgs, Press(m)
      PROVE  FailedKept
  BY <1>2 DEF Press
<1>3. ASSUME NEW m \in Msgs, PostAccepted(m)
      PROVE  FailedKept
  BY <1>3 DEF PostAccepted
<1>4. ASSUME NEW m \in Msgs, PostOk(m)
      PROVE  FailedKept
  BY <1>4 DEF PostOk
<1>5. ASSUME NEW m \in Msgs, PostRejected(m)
      PROVE  FailedKept
  BY <1>5 DEF PostRejected, Mishap
<1>6. ASSUME NEW m \in Msgs, PostFails(m)
      PROVE  FailedKept
  BY <1>6 DEF PostFails, Mishap
<1>7. ASSUME NEW m \in Msgs, AckTimeout(m)
      PROVE  FailedKept
  BY <1>7 DEF AckTimeout
<1>8. ASSUME NEW m \in Msgs, NEW i \in Ids, Enqueue(m, i)
      PROVE  FailedKept
  BY <1>8 DEF Enqueue, Fresh
<1>9. ASSUME NEW i \in Ids, Ack(i)
      PROVE  FailedKept
  BY <1>9 DEF Ack
<1>10. ASSUME NEW m \in Msgs, EnqueueFails(m)
      PROVE  FailedKept
  BY <1>10 DEF EnqueueFails, Mishap
<1>11. CASE Flush
  BY <1>11 DEF Flush, Pending, IdleSw
<1>12. ASSUME NEW i \in Ids, TakeRow(i)
      PROVE  FailedKept
  BY <1>12 DEF TakeRow
<1>13. CASE FlushDone
  BY <1>13 DEF FlushDone, IdleSw
<1>14. CASE MailAccepted
  BY <1>14 DEF MailAccepted
<1>15. CASE Delivered
  BY <1>15 DEF Delivered, Settle, NextInLoop
<1>16. CASE Refused
  BY <1>16 DEF Refused, Settle, NextInLoop
<1>17. CASE Deferred
  BY <1>17 DEF Deferred, Settle, NextInLoop, NothingIsOut, Mishap
<1>18. CASE Blip
  BY <1>18 DEF Blip, Settle, IdleSw, NothingIsOut, Mishap
<1>19. CASE Killed
  BY <1>19 DEF Killed, Mishap, IdleSw
<1>20. QED
  BY <1>1, <1>2, <1>3, <1>4, <1>5, <1>6, <1>7, <1>8, <1>9, <1>10,
     <1>11, <1>12, <1>13, <1>14, <1>15, <1>16, <1>17, <1>18, <1>19
  DEF Next, Page, Queue, Worker

(***************************************************************************)
(* A row the server refused is neither posted again nor put back.          *)
(***************************************************************************)
THEOREM FailedForGood == Spec => FailedIsFinal
<1>1. TypeOK /\ LoopHolds /\ [Next]_vars =>
        [\A i \in Ids : status[i] = "failed" =>
            /\ status'[i] = "failed"
            /\ sw'.row # i
            /\ posted'[i] = posted[i]]_vars
  BY FailedStep DEF FailedKept
<1>2. QED
  BY <1>1, OutboxTypeCorrect, PTL DEF Spec, FailedIsFinal

-----------------------------------------------------------------------------
(* The refinement of OutgoingMail.                                         *)

LEMMA MailInit == Init => Mail!Init
<1> SUFFICES ASSUME Init
             PROVE  Mail!Init
  OBVIOUS
<1>1. MailPhase = [i \in Ids |-> "new"]
  BY DEF Init, MailPhase
<1>2. sw.row = None /\ (sw.pc = "accepted") = FALSE
  BY DEF Init, IdleSw
<1>3. MailAttempt = [w \in {"sw"} |-> Mail!NoAttempt]
  BY <1>2 DEF MailAttempt, Mail!NoAttempt
<1>4. QED
  BY <1>1, <1>3 DEF Init, Mail!Init

(***************************************************************************)
(* The attempt of the only worker, before and after a step.                *)
(***************************************************************************)
LEMMA AttemptIs ==
    /\ sw.pc = "accepted" => MailAttempt["sw"] = [msg |-> sw.row, out |-> TRUE]
    /\ sw.pc # "accepted" => MailAttempt["sw"] = [msg |-> sw.row, out |-> FALSE]
<1>1. MailAttempt["sw"] = [msg |-> sw.row, out |-> sw.pc = "accepted"]
  BY DEF MailAttempt
<1>2. ASSUME sw.pc = "accepted" PROVE (sw.pc = "accepted") = TRUE
  BY <1>2
<1>3. ASSUME sw.pc # "accepted" PROVE (sw.pc = "accepted") = FALSE
  BY <1>3
<1>4. QED
  BY <1>1, <1>2, <1>3, Zenon

LEMMA AttemptBecomes ==
    ASSUME NEW r, NEW b \in BOOLEAN, sw'.row = r, (sw'.pc = "accepted") = b
    PROVE  MailAttempt' = [MailAttempt EXCEPT !["sw"] = [msg |-> r, out |-> b]]
  BY DEF MailAttempt

LEMMA AttemptKept == sw' = sw => MailAttempt' = MailAttempt
  BY DEF MailAttempt

LEMMA PhaseKept == status' = status => MailPhase' = MailPhase
  BY DEF MailPhase

\* pending to sending and back: the message stays open.
LEMMA PhaseOpen ==
    ASSUME TypeOK, NEW i \in Ids, status[i] \in {"pending", "sending"},
           NEW s \in {"pending", "sending"}, status' = [status EXCEPT ![i] = s]
    PROVE  MailPhase' = MailPhase
<1>1. \A j \in Ids : \/ status'[j] = status[j]
                     \/ status'[j] \in {"pending", "sending"} /\ status[j] \in {"pending", "sending"}
  BY DEF TypeOK
<1>2. \A j \in Ids : MailPhase'[j] = MailPhase[j]
  BY <1>1 DEF MailPhase
<1>3. QED
  BY <1>2 DEF MailPhase

LEMMA PhaseClosed ==
    ASSUME TypeOK, NEW i \in Ids, NEW s \in {"failed", "gone"},
           status' = [status EXCEPT ![i] = s]
    PROVE  MailPhase' = [MailPhase EXCEPT ![i] = "closed"]
  BY DEF TypeOK, MailPhase

\* The loop gives its row up, before or after the mail was accepted.
LEMMA GivesUp ==
    ASSUME TypeOK, LoopHolds, MailPhase' = MailPhase, posted' = posted,
           sw'.row = None, sw'.pc \in {"idle", "looping"},
           \/ sw.pc = "posting" /\ mishaps' \in {mishaps, mishaps + 1}
           \/ sw.pc = "accepted" /\ mishaps' = mishaps + 1
    PROVE  Mail!Next
<1>1. sw.row \in Ids
  BY IdsAssumption DEF LoopHolds, TypeOK
<1>2. (sw'.pc = "accepted") = FALSE
  OBVIOUS
<1>3. MailAttempt' = [MailAttempt EXCEPT !["sw"] = Mail!NoAttempt]
  BY <1>2, AttemptBecomes DEF Mail!NoAttempt
<1>4. CASE sw.pc = "posting"
  <2>1. MailAttempt["sw"] = [msg |-> sw.row, out |-> FALSE]
    BY <1>4, AttemptIs
  <2>2. Mail!Abandon("sw", sw.row)
    BY <1>3, <1>4, <2>1 DEF Mail!Abandon
  <2>3. QED
    BY <1>1, <2>2 DEF Mail!Next
<1>5. CASE sw.pc = "accepted"
  <2>1. MailAttempt["sw"] = [msg |-> sw.row, out |-> TRUE]
    BY <1>5, AttemptIs
  <2>2. Mail!Slip("sw", sw.row)
    BY <1>3, <1>5, <2>1 DEF Mail!Slip
  <2>3. QED
    BY <1>1, <2>2 DEF Mail!Next
<1>6. QED
  BY <1>4, <1>5

\* The row is deleted or refused.
LEMMA Closes ==
    ASSUME TypeOK, LoopHolds, NEW s \in {"failed", "gone"}, Settle(s), NextInLoop,
           sw.pc \in {"posting", "accepted"}, posted' = posted, mishaps' = mishaps
    PROVE  Mail!Next
<1>1. sw.row \in Ids
  BY IdsAssumption DEF LoopHolds, TypeOK
<1>2. MailPhase' = [MailPhase EXCEPT ![sw.row] = "closed"]
  BY <1>1, PhaseClosed DEF Settle
<1>3. sw'.row = None /\ (sw'.pc = "accepted") = FALSE
  BY DEF NextInLoop
<1>4. MailAttempt' = [MailAttempt EXCEPT !["sw"] = Mail!NoAttempt]
  BY <1>3, AttemptBecomes DEF Mail!NoAttempt
<1>5. MailAttempt["sw"].msg = sw.row
  BY AttemptIs
<1>6. Mail!Close("sw", sw.row)
  BY <1>2, <1>4, <1>5 DEF Mail!Close
<1>7. QED
  BY <1>1, <1>6 DEF Mail!Next

LEMMA PageStep ==
    ASSUME status' = status, sw' = sw, posted' = posted,
           mishaps \in Nat, mishaps' = mishaps \/ Mishap
    PROVE  Mail!Next \/ UNCHANGED Mail!vars
<1>1. MailPhase' = MailPhase /\ MailAttempt' = MailAttempt
  BY PhaseKept, AttemptKept
<1>2. CASE mishaps' = mishaps
  BY <1>1, <1>2 DEF Mail!vars
<1>3. CASE Mishap
  <2>1. Mail!Hiccup
    BY <1>1, <1>3 DEF Mishap, Mail!Hiccup
  <2>2. QED
    BY <2>1 DEF Mail!Next
<1>4. QED
  BY <1>2, <1>3

LEMMA MailStep == TypeOK /\ LoopHolds /\ [Next]_vars => [Mail!Next]_(Mail!vars)
<1> SUFFICES ASSUME TypeOK, LoopHolds, [Next]_vars
             PROVE  Mail!Next \/ UNCHANGED Mail!vars
  OBVIOUS
<1> USE DEF rowVars, pageVars, mailVars
<1>0. mishaps \in Nat
  BY BoundsAssumption DEF TypeOK
<1>1. CASE UNCHANGED vars
  BY <1>0, <1>1, PageStep DEF vars
<1>2. ASSUME NEW m \in Msgs, Press(m)
      PROVE  Mail!Next \/ UNCHANGED Mail!vars
  BY <1>0, <1>2, PageStep DEF Press
<1>3. ASSUME NEW m \in Msgs, PostAccepted(m)
      PROVE  Mail!Next \/ UNCHANGED Mail!vars
  BY <1>0, <1>3, PageStep DEF PostAccepted
<1>4. ASSUME NEW m \in Msgs, PostOk(m)
      PROVE  Mail!Next \/ UNCHANGED Mail!vars
  BY <1>0, <1>4, PageStep DEF PostOk
<1>5. ASSUME NEW m \in Msgs, PostRejected(m)
      PROVE  Mail!Next \/ UNCHANGED Mail!vars
  BY <1>0, <1>5, PageStep DEF PostRejected
<1>6. ASSUME NEW m \in Msgs, PostFails(m)
      PROVE  Mail!Next \/ UNCHANGED Mail!vars
  BY <1>0, <1>6, PageStep DEF PostFails
<1>7. ASSUME NEW m \in Msgs, AckTimeout(m)
      PROVE  Mail!Next \/ UNCHANGED Mail!vars
  BY <1>0, <1>7, PageStep DEF AckTimeout
<1>8. ASSUME NEW m \in Msgs, NEW i \in Ids, Enqueue(m, i)
      PROVE  Mail!Next
  <2>1. MailPhase' = [MailPhase EXCEPT ![i] = "open"]
    BY <1>8 DEF Enqueue, MailPhase, TypeOK
  <2>2. MailPhase[i] = "new"
    BY <1>8 DEF Enqueue, Fresh, MailPhase
  <2>3. Mail!Submit(i)
    BY <1>8, <2>1, <2>2, AttemptKept DEF Enqueue, Mail!Submit
  <2>4. QED
    BY <2>3 DEF Mail!Next
<1>9. ASSUME NEW i \in Ids, Ack(i)
      PROVE  Mail!Next \/ UNCHANGED Mail!vars
  BY <1>0, <1>9, PageStep DEF Ack
<1>10. ASSUME NEW m \in Msgs, EnqueueFails(m)
      PROVE  Mail!Next \/ UNCHANGED Mail!vars
  BY <1>0, <1>10, PageStep DEF EnqueueFails
<1>11. CASE Flush
  <2>1. sw.row = None /\ sw'.row = None
    BY <1>11 DEF Flush, LoopHolds
  <2>2. (sw'.pc = "accepted") = FALSE /\ (sw.pc = "accepted") = FALSE
    BY <1>11 DEF Flush
  <2>3. MailAttempt' = MailAttempt
    BY <2>1, <2>2 DEF MailAttempt
  <2>4. QED
    BY <1>11, <2>3, PhaseKept DEF Flush, Mail!vars
<1>12. ASSUME NEW i \in Ids, TakeRow(i)
      PROVE  Mail!Next
  <2>1. status[i] = "pending"
    BY <1>12 DEF TakeRow, LoopHolds
  <2>2. MailPhase' = MailPhase /\ MailPhase[i] = "open"
    BY <1>12, <2>1, PhaseOpen DEF TakeRow, MailPhase
  <2>3. sw'.row = i /\ (sw'.pc = "accepted") = FALSE
    BY <1>12 DEF TakeRow
  <2>4. MailAttempt' = [MailAttempt EXCEPT !["sw"] = [msg |-> i, out |-> FALSE]]
    BY <2>3, AttemptBecomes
  <2>5. MailAttempt["sw"] = Mail!NoAttempt
    BY <1>12, AttemptIs DEF TakeRow, LoopHolds, Mail!NoAttempt
  <2>6. Mail!Begin("sw", i)
    BY <1>12, <2>2, <2>4, <2>5 DEF TakeRow, Mail!Begin
  <2>7. QED
    BY <2>6 DEF Mail!Next
<1>13. CASE FlushDone
  <2>1. sw.row = None /\ sw'.row = None
    BY <1>13 DEF FlushDone, LoopHolds, IdleSw
  <2>2. (sw'.pc = "accepted") = FALSE /\ (sw.pc = "accepted") = FALSE
    BY <1>13 DEF FlushDone, IdleSw
  <2>3. MailAttempt' = MailAttempt
    BY <2>1, <2>2 DEF MailAttempt
  <2>4. QED
    BY <1>13, <2>3, PhaseKept DEF FlushDone, Mail!vars
<1>14. CASE MailAccepted
  <2>1. sw.row \in Ids /\ sw.pc = "posting"
    BY <1>14, IdsAssumption DEF MailAccepted, LoopHolds, TypeOK
  <2>2. sw'.row = sw.row /\ (sw'.pc = "accepted") = TRUE
    BY <1>14 DEF MailAccepted, TypeOK
  <2>3. MailAttempt' = [MailAttempt EXCEPT !["sw"] = [msg |-> sw.row, out |-> TRUE]]
    BY <2>2, AttemptBecomes
  <2>4. MailAttempt["sw"] = [msg |-> sw.row, out |-> FALSE]
    BY <2>1, AttemptIs
  <2>5. Mail!HandOver("sw", sw.row)
    BY <1>14, <2>3, <2>4, PhaseKept DEF MailAccepted, Mail!HandOver
  <2>6. QED
    BY <2>1, <2>5 DEF Mail!Next
<1>15. CASE Delivered
  BY <1>15, Closes DEF Delivered
<1>16. CASE Refused
  BY <1>16, Closes DEF Refused
<1>17. CASE Deferred
  <2>1. sw.row \in Ids /\ status[sw.row] = "sending"
    BY <1>17, IdsAssumption DEF Deferred, NothingIsOut, LoopHolds, TypeOK
  <2>2. MailPhase' = MailPhase
    BY <1>17, <2>1, PhaseOpen DEF Deferred, Settle
  <2>3. QED
    BY <1>17, <2>2, GivesUp DEF Deferred, NothingIsOut, NextInLoop, Mishap
<1>18. CASE Blip
  <2>1. sw.row \in Ids /\ status[sw.row] = "sending"
    BY <1>18, IdsAssumption DEF Blip, NothingIsOut, LoopHolds, TypeOK
  <2>2. MailPhase' = MailPhase
    BY <1>18, <2>1, PhaseOpen DEF Blip, Settle
  <2>3. QED
    BY <1>18, <2>2, GivesUp DEF Blip, NothingIsOut, IdleSw, Mishap
<1>19. CASE Killed
  <2>1. MailPhase' = MailPhase
    BY <1>19, PhaseKept DEF Killed
  <2>2. CASE sw.row # None
    BY <1>19, <2>1, <2>2, GivesUp DEF Killed, IdleSw, Mishap, LoopHolds
  <2>3. CASE sw.row = None
    <3>1. (sw'.pc = "accepted") = FALSE /\ (sw.pc = "accepted") = FALSE
      BY <1>19, <2>3 DEF Killed, IdleSw, LoopHolds
    <3>2. MailAttempt' = MailAttempt
      BY <1>19, <2>3, <3>1 DEF Killed, IdleSw, MailAttempt
    <3>3. Mail!Hiccup
      BY <1>19, <2>1, <3>2 DEF Killed, Mishap, Mail!Hiccup
    <3>4. QED
      BY <3>3 DEF Mail!Next
  <2>4. QED
    BY <2>2, <2>3
<1>20. QED
  BY <1>1, <1>2, <1>3, <1>4, <1>5, <1>6, <1>7, <1>8, <1>9, <1>10,
     <1>11, <1>12, <1>13, <1>14, <1>15, <1>16, <1>17, <1>18, <1>19
  DEF Next, Page, Queue, Worker

(***************************************************************************)
(* The outbox implements the abstract queue of outgoing mail, the flush    *)
(* loop being its only worker.                                             *)
(***************************************************************************)
THEOREM OutboxImplementsMail == Spec => ImplementsOutgoingMail
<1>1. TypeOK /\ LoopHolds /\ [Next]_vars => [Mail!Next]_(Mail!vars)
  BY MailStep
<1>2. QED
  BY <1>1, MailInit, OutboxTypeCorrect,
     PTL DEF Spec, ImplementsOutgoingMail, Mail!Spec
-----------------------------------------------------------------------------
(* What the author was told, and how often his mail goes out.              *)

\* A key that is not used yet carries no message and has mailed none.
Unwritten == \A i \in Ids : status[i] = "absent" => payload[i] = NoMsg /\ posted[i] = 0

LEMMA UnwrittenNext == TypeOK /\ LoopHolds /\ Unwritten /\ [Next]_vars => Unwritten'
<1> SUFFICES ASSUME TypeOK, LoopHolds, Unwritten, [Next]_vars
             PROVE  Unwritten'
  OBVIOUS
<1> USE IdsAssumption, NoMsgAssumption, BoundsAssumption
    DEF TypeOK, Statuses, ComposerStates, LoopHolds, rowVars, pageVars, mailVars, Unwritten
<1>1. CASE UNCHANGED vars
  BY <1>1 DEF vars
<1>2. ASSUME NEW m \in Msgs, Press(m)
      PROVE  Unwritten'
  BY <1>2 DEF Press
<1>3. ASSUME NEW m \in Msgs, PostAccepted(m)
      PROVE  Unwritten'
  BY <1>3 DEF PostAccepted
<1>4. ASSUME NEW m \in Msgs, PostOk(m)
      PROVE  Unwritten'
  BY <1>4 DEF PostOk
<1>5. ASSUME NEW m \in Msgs, PostRejected(m)
      PROVE  Unwritten'
  BY <1>5 DEF PostRejected, Mishap
<1>6. ASSUME NEW m \in Msgs, PostFails(m)
      PROVE  Unwritten'
  BY <1>6 DEF PostFails, Mishap
<1>7. ASSUME NEW m \in Msgs, AckTimeout(m)
      PROVE  Unwritten'
  BY <1>7 DEF AckTimeout
<1>8. ASSUME NEW m \in Msgs, NEW i \in Ids, Enqueue(m, i)
      PROVE  Unwritten'
  BY <1>8 DEF Enqueue, Fresh
<1>9. ASSUME NEW i \in Ids, Ack(i)
      PROVE  Unwritten'
  BY <1>9 DEF Ack
<1>10. ASSUME NEW m \in Msgs, EnqueueFails(m)
      PROVE  Unwritten'
  BY <1>10 DEF EnqueueFails, Mishap
<1>11. CASE Flush
  BY <1>11 DEF Flush, Pending, IdleSw
<1>12. ASSUME NEW i \in Ids, TakeRow(i)
      PROVE  Unwritten'
  BY <1>12 DEF TakeRow
<1>13. CASE FlushDone
  BY <1>13 DEF FlushDone, IdleSw
<1>14. CASE MailAccepted
  BY <1>14 DEF MailAccepted
<1>15. CASE Delivered
  BY <1>15 DEF Delivered, Settle, NextInLoop
<1>16. CASE Refused
  BY <1>16 DEF Refused, Settle, NextInLoop
<1>17. CASE Deferred
  BY <1>17 DEF Deferred, Settle, NextInLoop, NothingIsOut, Mishap
<1>18. CASE Blip
  BY <1>18 DEF Blip, Settle, IdleSw, NothingIsOut, Mishap
<1>19. CASE Killed
  BY <1>19 DEF Killed, Mishap, IdleSw
<1>20. QED
  BY <1>1, <1>2, <1>3, <1>4, <1>5, <1>6, <1>7, <1>8, <1>9, <1>10,
     <1>11, <1>12, <1>13, <1>14, <1>15, <1>16, <1>17, <1>18, <1>19
  DEF Next, Page, Queue, Worker

(***************************************************************************)
(* Messages nobody has any more whose author waits or was told "Queued".   *)
(* One that waits counts already: the ack that turns all waits into        *)
(* "Queued" cannot be charged to a mishap of its own.                      *)
(***************************************************************************)
Lost == {m \in Msgs : composer[m] \in {"handing", "queued"} /\ ~Kept(m)}

LostCounted == IsFiniteSet(Lost) /\ Cardinality(Lost) <= mishaps

\* As long as nothing is forgotten, any row keeps its message.
LEMMA KeptIs ==
    ASSUME TypeOK, GoneWasMailed
    PROVE  \A m \in Msgs : Kept(m) <=> transit[m] > 0 \/ \E i \in Ids : payload[i] = m
  BY DEF TypeOK, GoneWasMailed, Kept, RowsOf

\* A message is lost in one step only: its hand-over fails.
FewLost ==
    \/ Lost' \subseteq Lost /\ mishaps' >= mishaps
    \/ mishaps' = mishaps + 1 /\ \E m \in Msgs : Lost' \subseteq Lost \cup {m}

LEMMA LostStep == TypeOK /\ LoopHolds /\ GoneWasMailed /\ Unwritten /\ [Next]_vars => FewLost
<1> SUFFICES ASSUME TypeOK, LoopHolds, GoneWasMailed, Unwritten, [Next]_vars
             PROVE  FewLost
  OBVIOUS
<1> USE IdsAssumption, NoMsgAssumption, BoundsAssumption
    DEF TypeOK, Statuses, ComposerStates, LoopHolds, rowVars, pageVars, mailVars,
        GoneWasMailed, FewLost, Lost, Kept, RowsOf
<1>1. CASE UNCHANGED vars
  BY <1>1 DEF vars
<1>2. ASSUME NEW m \in Msgs, Press(m)
      PROVE  FewLost
  BY <1>2 DEF Press
<1>3. ASSUME NEW m \in Msgs, PostAccepted(m)
      PROVE  FewLost
  BY <1>3 DEF PostAccepted
<1>4. ASSUME NEW m \in Msgs, PostOk(m)
      PROVE  FewLost
  BY <1>4 DEF PostOk
<1>5. ASSUME NEW m \in Msgs, PostRejected(m)
      PROVE  FewLost
  BY <1>5 DEF PostRejected, Mishap
<1>6. ASSUME NEW m \in Msgs, PostFails(m)
      PROVE  FewLost
  BY <1>6 DEF PostFails, Mishap
<1>7. ASSUME NEW m \in Msgs, AckTimeout(m)
      PROVE  FewLost
  BY <1>7 DEF AckTimeout
<1>8. ASSUME NEW m \in Msgs, NEW i \in Ids, Enqueue(m, i)
      PROVE  FewLost
  <2>1. payload[i] = NoMsg
    BY <1>8 DEF Enqueue, Fresh, Unwritten
  <2>2. \A n \in Msgs : Kept(n) => Kept(n)'
    BY <1>8, <2>1 DEF Enqueue
  <2>3. QED
    BY <1>8, <2>2 DEF Enqueue
<1>9. ASSUME NEW i \in Ids, Ack(i)
      PROVE  FewLost
  BY <1>9 DEF Ack
<1>10. ASSUME NEW m \in Msgs, EnqueueFails(m)
      PROVE  FewLost
  <2>1. \A n \in Msgs : n # m => (Kept(n) <=> Kept(n)')
    BY <1>10 DEF EnqueueFails
  <2>2. Lost' \subseteq Lost \cup {m} /\ mishaps' = mishaps + 1
    BY <1>10, <2>1 DEF EnqueueFails, Mishap
  <2>3. QED
    BY <2>2
<1>11. CASE Flush
  BY <1>11 DEF Flush, Pending, IdleSw
<1>12. ASSUME NEW i \in Ids, TakeRow(i)
      PROVE  FewLost
  BY <1>12 DEF TakeRow
<1>13. CASE FlushDone
  BY <1>13 DEF FlushDone, IdleSw
<1>14. CASE MailAccepted
  BY <1>14 DEF MailAccepted
<1>15. CASE Delivered
  BY <1>15 DEF Delivered, Settle, NextInLoop
<1>16. CASE Refused
  BY <1>16 DEF Refused, Settle, NextInLoop
<1>17. CASE Deferred
  BY <1>17 DEF Deferred, Settle, NextInLoop, NothingIsOut, Mishap
<1>18. CASE Blip
  BY <1>18 DEF Blip, Settle, IdleSw, NothingIsOut, Mishap
<1>19. CASE Killed
  BY <1>19 DEF Killed, Mishap, IdleSw
<1>20. QED
  BY <1>1, <1>2, <1>3, <1>4, <1>5, <1>6, <1>7, <1>8, <1>9, <1>10,
     <1>11, <1>12, <1>13, <1>14, <1>15, <1>16, <1>17, <1>18, <1>19
  DEF Next, Page, Queue, Worker

LEMMA LostNext ==
    TypeOK /\ LoopHolds /\ GoneWasMailed /\ Unwritten /\ LostCounted /\ [Next]_vars
      => LostCounted'
<1> SUFFICES ASSUME TypeOK, LoopHolds, GoneWasMailed, Unwritten, LostCounted, [Next]_vars
             PROVE  LostCounted'
  OBVIOUS
<1>1. FewLost
  BY LostStep
<1>2. mishaps \in Nat /\ Cardinality(Lost) \in Nat
  BY BoundsAssumption, FS_CardinalityType DEF TypeOK, LostCounted
<1>3. CASE Lost' \subseteq Lost /\ mishaps' >= mishaps
  <2>1. IsFiniteSet(Lost') /\ Cardinality(Lost') <= Cardinality(Lost)
    BY <1>3, FS_Subset DEF LostCounted
  <2>2. Cardinality(Lost') \in Nat /\ mishaps' \in Nat
    BY <1>2, <1>3, <2>1, FS_CardinalityType, TypeNext, BoundsAssumption DEF TypeOK
  <2>3. QED
    BY <1>2, <1>3, <2>1, <2>2 DEF LostCounted
<1>4. ASSUME mishaps' = mishaps + 1, NEW m \in Msgs, Lost' \subseteq Lost \cup {m}
      PROVE  LostCounted'
  <2>1. IsFiniteSet(Lost \cup {m}) /\ Cardinality(Lost \cup {m}) <= Cardinality(Lost) + 1
    BY <1>2, FS_AddElement DEF LostCounted
  <2>2. IsFiniteSet(Lost') /\ Cardinality(Lost') <= Cardinality(Lost \cup {m})
    BY <1>4, <2>1, FS_Subset
  <2>3. Cardinality(Lost') \in Nat /\ Cardinality(Lost \cup {m}) \in Nat
    BY <2>1, <2>2, FS_CardinalityType
  <2>4. QED
    BY <1>2, <1>4, <2>1, <2>2, <2>3 DEF LostCounted
<1>5. QED
  BY <1>1, <1>3, <1>4 DEF FewLost

LEMMA LostFew == TypeOK /\ LostCounted => LostByMishap
<1> SUFFICES ASSUME TypeOK, LostCounted
             PROVE  LostByMishap
  OBVIOUS
<1> DEFINE Told == {m \in Msgs : composer[m] = "queued" /\ ~Kept(m)}
<1>1. Told \subseteq Lost
  BY DEF Lost
<1>2. Cardinality(Told) <= Cardinality(Lost) /\ IsFiniteSet(Told)
  BY <1>1, FS_Subset DEF LostCounted
<1>3. Cardinality(Told) \in Nat /\ Cardinality(Lost) \in Nat /\ mishaps \in Nat
  BY <1>2, FS_CardinalityType, BoundsAssumption DEF LostCounted, TypeOK
<1>4. Cardinality(Told) <= mishaps
  BY <1>2, <1>3 DEF LostCounted
<1>5. QED
  BY <1>4 DEF LostByMishap

(***************************************************************************)
(* The author who was told "Queued" has his message on its way, in the     *)
(* store or mailed, except for at most one message per mishap.             *)
(***************************************************************************)
THEOREM QueuedIsKept == Spec => []LostByMishap
<1>1. Init => Unwritten /\ LostCounted
  <2>1. Init => Lost = {}
    BY DEF Init, Lost
  <2>2. QED
    BY <2>1, FS_EmptySet DEF Init, Unwritten, LostCounted
<1>2. TypeOK /\ LoopHolds /\ GoneWasMailed /\ Unwritten /\ LostCounted /\ [Next]_vars
        => Unwritten' /\ LostCounted'
  BY UnwrittenNext, LostNext
<1>3. TypeOK /\ LostCounted => LostByMishap
  BY LostFew
<1>4. QED
  BY <1>1, <1>2, <1>3, OutboxTypeCorrect, NothingForgotten, PTL DEF Spec

-----------------------------------------------------------------------------
(* Copies.                                                                 *)

\* Rows that may still be mailed: pending, or posted and not accepted yet.
Unsettled(m) ==
    {i \in RowsOf(m) : status[i] = "pending" \/ (sw.row = i /\ sw.pc = "posting")}

\* What may yet become a copy is charged to a press of Send as well.
Tries(m) ==
    Copies(m) + Cardinality(Unsettled(m)) + transit[m]
      + (IF composer[m] = "posting" THEN 1 ELSE 0)

PaidFor(m) == IsFiniteSet(MailsOut(m)) /\ Tries(m) <= presses[m] + mishaps
Paid == \A m \in Msgs : PaidFor(m)

LEMMA UnsettledFinite ==
    ASSUME NEW m PROVE IsFiniteSet(Unsettled(m)) /\ Cardinality(Unsettled(m)) \in Nat
<1>1. Unsettled(m) \subseteq Ids
  BY DEF Unsettled, RowsOf
<1>2. QED
  BY <1>1, IdsAssumption, FS_Subset, FS_CardinalityType

\* A row that nothing was posted from, and one that is posted once more.
LEMMA MailsKept ==
    ASSUME TypeOK, NEW m, posted' = posted,
           \A i \in Ids : (payload[i] = m <=> payload'[i] = m) \/ posted[i] = 0
    PROVE  MailsOut(m)' = MailsOut(m)
  BY DEF TypeOK, MailsOut, RowsOf

LEMMA MailsGrow ==
    ASSUME TypeOK, NEW m, NEW r \in Ids, payload' = payload, IsFiniteSet(MailsOut(m)),
           posted' = [posted EXCEPT ![r] = @ + 1]
    PROVE  /\ IsFiniteSet(MailsOut(m)')
           /\ payload[r] # m => MailsOut(m)' = MailsOut(m)
           /\ payload[r] = m => Cardinality(MailsOut(m)') = Cardinality(MailsOut(m)) + 1
<1>1. CASE payload[r] # m
  <2>1. MailsOut(m)' = MailsOut(m)
    BY <1>1 DEF TypeOK, MailsOut, RowsOf
  <2>2. QED
    BY <1>1, <2>1
<1>2. CASE payload[r] = m
  <2> DEFINE p == <<r, posted[r] + 1>>
  <2>1. posted[r] \in Nat /\ posted'[r] = posted[r] + 1 /\ \A i \in Ids \ {r} : posted'[i] = posted[i]
    BY DEF TypeOK
  <2>2. 1 .. posted[r] + 1 = (1 .. posted[r]) \cup {posted[r] + 1} /\ posted[r] + 1 \notin 1 .. posted[r]
    BY <2>1
  <2>3. MailsOut(m)' = MailsOut(m) \cup {p}
    <3>1. ASSUME NEW x \in MailsOut(m)' PROVE x \in MailsOut(m) \cup {p}
      BY <1>2, <2>1, <2>2 DEF MailsOut, RowsOf
    <3>2. ASSUME NEW x \in MailsOut(m) PROVE x \in MailsOut(m)'
      BY <1>2, <2>1, <2>2 DEF MailsOut, RowsOf
    <3>3. p \in MailsOut(m)'
      BY <1>2, <2>1, <2>2 DEF MailsOut, RowsOf
    <3>4. QED
      BY <3>1, <3>2, <3>3
  <2>4. p \notin MailsOut(m)
    BY <2>1, <2>2 DEF MailsOut, RowsOf
  <2>5. IsFiniteSet(MailsOut(m) \cup {p}) /\ Cardinality(MailsOut(m) \cup {p}) = Cardinality(MailsOut(m)) + 1
    <3> HIDE DEF p
    <3>1. QED
      BY <2>4, FS_AddElement
  <2>6. QED
    BY <1>2, <2>3, <2>5
<1>3. QED
  BY <1>1, <1>2

\* At most one element more.
LEMMA Grow ==
    ASSUME NEW S, IsFiniteSet(S), NEW T, NEW x, T \subseteq S \cup {x}
    PROVE  Cardinality(T) \in Nat /\ Cardinality(T) <= Cardinality(S) + 1
<1>1. IsFiniteSet(S \cup {x}) /\ Cardinality(S) \in Nat /\ Cardinality(S \cup {x}) <= Cardinality(S) + 1
  <2>1. /\ IsFiniteSet(S \cup {x}) /\ Cardinality(S) \in Nat
        /\ x \in S => Cardinality(S \cup {x}) = Cardinality(S)
        /\ x \notin S => Cardinality(S \cup {x}) = Cardinality(S) + 1
    BY FS_AddElement, FS_CardinalityType
  <2>2. QED
    BY <2>1
<1>2. IsFiniteSet(T) /\ Cardinality(T) <= Cardinality(S \cup {x})
  BY <1>1, FS_Subset
<1>3. Cardinality(T) \in Nat /\ Cardinality(S \cup {x}) \in Nat
  BY <1>1, <1>2, FS_CardinalityType
<1>4. QED
  BY <1>1, <1>2, <1>3

LEMMA OneLess ==
    ASSUME NEW S, IsFiniteSet(S), NEW x \in S
    PROVE  Cardinality(S \ {x}) = Cardinality(S) - 1
  BY FS_RemoveElement

LEMMA PaidNext ==
    TypeOK /\ LoopHolds /\ Unwritten /\ Paid /\ [Next]_vars => Paid'
<1> SUFFICES ASSUME TypeOK, LoopHolds, Unwritten, Paid, [Next]_vars, NEW m \in Msgs
             PROVE  PaidFor(m)'
  BY DEF Paid
<1> USE IdsAssumption, NoMsgAssumption, BoundsAssumption
    DEF TypeOK, Statuses, ComposerStates, LoopHolds, rowVars, pageVars, mailVars
<1>a. IsFiniteSet(Unsettled(m)) /\ Cardinality(Unsettled(m)) \in Nat
  BY UnsettledFinite
<1>b. PaidFor(m) /\ Cardinality(MailsOut(m)) \in Nat /\ Cardinality(Unsettled(m)) \in Nat
  BY <1>a, FS_CardinalityType DEF Paid, PaidFor
<1>1. CASE UNCHANGED vars
  <2>1. MailsOut(m)' = MailsOut(m)
    BY <1>1, MailsKept DEF vars
  <2>2. Unsettled(m)' = Unsettled(m)
    BY <1>1 DEF vars, Unsettled, RowsOf
  <2>3. QED
    BY <1>1, <1>b, <2>1, <2>2 DEF vars, PaidFor, Tries, Copies
<1>2. ASSUME NEW n \in Msgs, Press(n)
      PROVE  PaidFor(m)'
  <2>1. MailsOut(m)' = MailsOut(m)
    BY <1>2, MailsKept DEF Press
  <2>2. Unsettled(m)' = Unsettled(m)
    BY <1>2 DEF Press, Unsettled, RowsOf
  <2>3. QED
    BY <1>2, <1>b, <2>1, <2>2 DEF Press, PaidFor, Tries, Copies
<1>3. ASSUME NEW n \in Msgs, PostAccepted(n)
      PROVE  PaidFor(m)'
  <2>1. MailsOut(m)' = MailsOut(m)
    BY <1>3, MailsKept DEF PostAccepted
  <2>2. Unsettled(m)' = Unsettled(m)
    BY <1>3 DEF PostAccepted, Unsettled, RowsOf
  <2>3. QED
    BY <1>3, <1>b, <2>1, <2>2 DEF PostAccepted, PaidFor, Tries, Copies
<1>4. ASSUME NEW n \in Msgs, PostOk(n)
      PROVE  PaidFor(m)'
  <2>1. MailsOut(m)' = MailsOut(m)
    BY <1>4, MailsKept DEF PostOk
  <2>2. Unsettled(m)' = Unsettled(m)
    BY <1>4 DEF PostOk, Unsettled, RowsOf
  <2>3. QED
    BY <1>4, <1>b, <2>1, <2>2 DEF PostOk, PaidFor, Tries, Copies
<1>5. ASSUME NEW n \in Msgs, PostRejected(n)
      PROVE  PaidFor(m)'
  <2>1. MailsOut(m)' = MailsOut(m)
    BY <1>5, MailsKept DEF PostRejected, Mishap
  <2>2. Unsettled(m)' = Unsettled(m)
    BY <1>5 DEF PostRejected, Mishap, Unsettled, RowsOf
  <2>3. QED
    BY <1>5, <1>b, <2>1, <2>2 DEF PostRejected, Mishap, PaidFor, Tries, Copies
<1>6. ASSUME NEW n \in Msgs, PostFails(n)
      PROVE  PaidFor(m)'
  <2>1. MailsOut(m)' = MailsOut(m)
    BY <1>6, MailsKept DEF PostFails, Mishap
  <2>2. Unsettled(m)' = Unsettled(m)
    BY <1>6 DEF PostFails, Mishap, Unsettled, RowsOf
  <2>3. QED
    BY <1>6, <1>b, <2>1, <2>2 DEF PostFails, Mishap, PaidFor, Tries, Copies
<1>7. ASSUME NEW n \in Msgs, AckTimeout(n)
      PROVE  PaidFor(m)'
  <2>1. MailsOut(m)' = MailsOut(m)
    BY <1>7, MailsKept DEF AckTimeout
  <2>2. Unsettled(m)' = Unsettled(m)
    BY <1>7 DEF AckTimeout, Unsettled, RowsOf
  <2>3. QED
    BY <1>7, <1>b, <2>1, <2>2 DEF AckTimeout, PaidFor, Tries, Copies
<1>8. ASSUME NEW n \in Msgs, NEW i \in Ids, Enqueue(n, i)
      PROVE  PaidFor(m)'
  <2>1. payload[i] = NoMsg /\ posted[i] = 0 /\ status[i] = "absent" /\ sw.row # i
    BY <1>8 DEF Enqueue, Fresh, Unwritten
  <2>2. MailsOut(m)' = MailsOut(m)
    BY <1>8, <2>1, MailsKept DEF Enqueue
  <2>3. CASE n # m
    <3>1. Unsettled(m)' = Unsettled(m)
      BY <1>8, <2>1, <2>3 DEF Enqueue, Unsettled, RowsOf
    <3>2. QED
      BY <1>8, <1>b, <2>2, <2>3, <3>1 DEF Enqueue, PaidFor, Tries, Copies
  <2>4. CASE n = m
    <3>1. Unsettled(m)' \subseteq Unsettled(m) \cup {i}
      BY <1>8, <2>1 DEF Enqueue, Unsettled, RowsOf
    <3>2. Cardinality(Unsettled(m)') \in Nat /\ Cardinality(Unsettled(m)') <= Cardinality(Unsettled(m)) + 1
      BY <1>a, <3>1, Grow
    <3>3. QED
      BY <1>8, <1>b, <2>2, <2>4, <3>2 DEF Enqueue, PaidFor, Tries, Copies
  <2>5. QED
    BY <2>3, <2>4
<1>9. ASSUME NEW i \in Ids, Ack(i)
      PROVE  PaidFor(m)'
  <2>1. MailsOut(m)' = MailsOut(m)
    BY <1>9, MailsKept DEF Ack
  <2>2. Unsettled(m)' = Unsettled(m)
    BY <1>9 DEF Ack, Unsettled, RowsOf
  <2>3. QED
    BY <1>9, <1>b, <2>1, <2>2 DEF Ack, PaidFor, Tries, Copies
<1>10. ASSUME NEW n \in Msgs, EnqueueFails(n)
      PROVE  PaidFor(m)'
  <2>1. MailsOut(m)' = MailsOut(m)
    BY <1>10, MailsKept DEF EnqueueFails, Mishap
  <2>2. Unsettled(m)' = Unsettled(m)
    BY <1>10 DEF EnqueueFails, Mishap, Unsettled, RowsOf
  <2>3. QED
    BY <1>10, <1>b, <2>1, <2>2 DEF EnqueueFails, Mishap, PaidFor, Tries, Copies
<1>11. CASE Flush
  <2>1. MailsOut(m)' = MailsOut(m)
    BY <1>11, MailsKept DEF Flush, Pending, IdleSw
  <2>2. Unsettled(m)' = Unsettled(m)
    BY <1>11 DEF Flush, Pending, IdleSw, Unsettled, RowsOf
  <2>3. QED
    BY <1>11, <1>b, <2>1, <2>2 DEF Flush, Pending, IdleSw, PaidFor, Tries, Copies
<1>12. ASSUME NEW i \in Ids, TakeRow(i)
      PROVE  PaidFor(m)'
  <2>1. MailsOut(m)' = MailsOut(m)
    BY <1>12, MailsKept DEF TakeRow
  <2>2. Unsettled(m)' = Unsettled(m)
    BY <1>12 DEF TakeRow, Unsettled, RowsOf
  <2>3. QED
    BY <1>12, <1>b, <2>1, <2>2 DEF TakeRow, PaidFor, Tries, Copies
<1>13. CASE FlushDone
  <2>1. MailsOut(m)' = MailsOut(m)
    BY <1>13, MailsKept DEF FlushDone, IdleSw
  <2>2. Unsettled(m)' = Unsettled(m)
    BY <1>13 DEF FlushDone, IdleSw, Unsettled, RowsOf
  <2>3. QED
    BY <1>13, <1>b, <2>1, <2>2 DEF FlushDone, IdleSw, PaidFor, Tries, Copies
<1>14. CASE MailAccepted
  <2>1. sw.row \in Ids /\ status[sw.row] = "sending"
    BY <1>14 DEF MailAccepted
  <2>2. /\ IsFiniteSet(MailsOut(m)')
        /\ payload[sw.row] # m => MailsOut(m)' = MailsOut(m)
        /\ payload[sw.row] = m => Cardinality(MailsOut(m)') = Cardinality(MailsOut(m)) + 1
    BY <1>14, <1>b, <2>1, MailsGrow DEF MailAccepted, PaidFor
  <2>3. CASE payload[sw.row] # m
    <3>1. Unsettled(m)' = Unsettled(m)
      BY <1>14, <2>1, <2>3 DEF MailAccepted, Unsettled, RowsOf
    <3>2. QED
      BY <1>14, <1>b, <2>2, <2>3, <3>1 DEF MailAccepted, PaidFor, Tries, Copies
  <2>4. CASE payload[sw.row] = m
    <3>1. Unsettled(m)' = Unsettled(m) \ {sw.row} /\ sw.row \in Unsettled(m)
      BY <1>14, <2>1, <2>4 DEF MailAccepted, Unsettled, RowsOf
    <3>2. Cardinality(Unsettled(m)') = Cardinality(Unsettled(m)) - 1
      BY <1>a, <3>1, OneLess
    <3>3. QED
      BY <1>14, <1>a, <1>b, <2>2, <2>4, <3>2 DEF MailAccepted, PaidFor, Tries, Copies
  <2>5. QED
    BY <2>3, <2>4
<1>15. CASE Delivered
  <2>1. MailsOut(m)' = MailsOut(m)
    BY <1>15, MailsKept DEF Delivered, Settle, NextInLoop
  <2>2. Unsettled(m)' = Unsettled(m)
    BY <1>15 DEF Delivered, Settle, NextInLoop, Unsettled, RowsOf
  <2>3. QED
    BY <1>15, <1>b, <2>1, <2>2 DEF Delivered, Settle, NextInLoop, PaidFor, Tries, Copies
<1>16. CASE Refused
  <2>1. MailsOut(m)' = MailsOut(m)
    BY <1>16, MailsKept DEF Refused, Settle, NextInLoop
  <2>2. Unsettled(m)' \subseteq Unsettled(m)
    BY <1>16 DEF Refused, Settle, NextInLoop, Unsettled, RowsOf
  <2>3. Cardinality(Unsettled(m)') \in Nat /\ Cardinality(Unsettled(m)') <= Cardinality(Unsettled(m))
    BY <1>a, <2>2, FS_Subset, FS_CardinalityType
  <2>4. QED
    BY <1>16, <1>b, <2>1, <2>3 DEF Refused, Settle, NextInLoop, PaidFor, Tries, Copies
<1>17. CASE Deferred
  <2>1. MailsOut(m)' = MailsOut(m)
    BY <1>17, MailsKept DEF Deferred, Settle, NextInLoop, NothingIsOut, Mishap
  <2>2. CASE sw.pc = "posting"
    <3>1. Unsettled(m)' = Unsettled(m)
      BY <1>17, <2>2 DEF Deferred, Settle, NextInLoop, NothingIsOut, Mishap, Unsettled, RowsOf
    <3>2. QED
      BY <1>17, <1>b, <2>1, <2>2, <3>1 DEF Deferred, Settle, NextInLoop, NothingIsOut, Mishap, PaidFor, Tries, Copies
  <2>3. CASE sw.pc = "accepted"
    <3>1. Unsettled(m)' \subseteq Unsettled(m) \cup {sw.row}
      BY <1>17, <2>3 DEF Deferred, Settle, NextInLoop, NothingIsOut, Mishap, Unsettled, RowsOf
    <3>2. Cardinality(Unsettled(m)') \in Nat /\ Cardinality(Unsettled(m)') <= Cardinality(Unsettled(m)) + 1
      BY <1>a, <3>1, Grow
    <3>3. QED
      BY <1>17, <1>b, <2>1, <2>3, <3>2 DEF Deferred, Settle, NextInLoop, NothingIsOut, Mishap, PaidFor, Tries, Copies
  <2>4. QED
    BY <1>17, <2>2, <2>3 DEF Deferred, Settle, NextInLoop, NothingIsOut, Mishap
<1>18. CASE Blip
  <2>1. MailsOut(m)' = MailsOut(m)
    BY <1>18, MailsKept DEF Blip, Settle, IdleSw, NothingIsOut, Mishap
  <2>2. CASE sw.pc = "posting"
    <3>1. Unsettled(m)' = Unsettled(m)
      BY <1>18, <2>2 DEF Blip, Settle, IdleSw, NothingIsOut, Mishap, Unsettled, RowsOf
    <3>2. QED
      BY <1>18, <1>b, <2>1, <2>2, <3>1 DEF Blip, Settle, IdleSw, NothingIsOut, Mishap, PaidFor, Tries, Copies
  <2>3. CASE sw.pc = "accepted"
    <3>1. Unsettled(m)' \subseteq Unsettled(m) \cup {sw.row}
      BY <1>18, <2>3 DEF Blip, Settle, IdleSw, NothingIsOut, Mishap, Unsettled, RowsOf
    <3>2. Cardinality(Unsettled(m)') \in Nat /\ Cardinality(Unsettled(m)') <= Cardinality(Unsettled(m)) + 1
      BY <1>a, <3>1, Grow
    <3>3. QED
      BY <1>18, <1>b, <2>1, <2>3, <3>2 DEF Blip, Settle, IdleSw, NothingIsOut, Mishap, PaidFor, Tries, Copies
  <2>4. QED
    BY <1>18, <2>2, <2>3 DEF Blip, Settle, IdleSw, NothingIsOut, Mishap
<1>19. CASE Killed
  <2>1. MailsOut(m)' = MailsOut(m)
    BY <1>19, MailsKept DEF Killed, Mishap, IdleSw
  <2>2. Unsettled(m)' \subseteq Unsettled(m)
    BY <1>19 DEF Killed, Mishap, IdleSw, Unsettled, RowsOf
  <2>3. Cardinality(Unsettled(m)') \in Nat /\ Cardinality(Unsettled(m)') <= Cardinality(Unsettled(m))
    BY <1>a, <2>2, FS_Subset, FS_CardinalityType
  <2>4. QED
    BY <1>19, <1>b, <2>1, <2>3 DEF Killed, Mishap, IdleSw, PaidFor, Tries, Copies
<1>20. QED
  BY <1>1, <1>2, <1>3, <1>4, <1>5, <1>6, <1>7, <1>8, <1>9, <1>10,
     <1>11, <1>12, <1>13, <1>14, <1>15, <1>16, <1>17, <1>18, <1>19
  DEF Next, Page, Queue, Worker

LEMMA PaidEnough == TypeOK /\ Paid => OneCopyPerPress
<1> SUFFICES ASSUME TypeOK, Paid, NEW m \in Msgs
             PROVE  Copies(m) <= presses[m] + mishaps
  BY DEF OneCopyPerPress
<1>1. Cardinality(Unsettled(m)) \in Nat /\ Cardinality(MailsOut(m)) \in Nat
  BY UnsettledFinite, FS_CardinalityType DEF Paid, PaidFor
<1>2. QED
  BY <1>1, BoundsAssumption DEF Paid, PaidFor, Tries, Copies, TypeOK

(***************************************************************************)
(* A message is mailed at most once for each time its author pressed Send, *)
(* directly and out of all its rows together, plus once for each mishap.   *)
(***************************************************************************)
THEOREM PressesBoundCopies == Spec => []OneCopyPerPress
<1>1. Init => Unwritten /\ Paid
  <2> SUFFICES ASSUME Init, NEW m \in Msgs
               PROVE  Unwritten /\ PaidFor(m)
    BY DEF Paid, Init, Unwritten
  <2>1. MailsOut(m) = {} /\ Unsettled(m) = {}
    BY NoMsgAssumption DEF Init, MailsOut, Unsettled, RowsOf
  <2>2. QED
    BY <2>1, FS_EmptySet DEF Init, Unwritten, PaidFor, Tries, Copies
<1>2. TypeOK /\ LoopHolds /\ Unwritten /\ Paid /\ [Next]_vars => Unwritten' /\ Paid'
  BY UnwrittenNext, PaidNext
<1>3. TypeOK /\ Paid => OneCopyPerPress
  BY PaidEnough
<1>4. QED
  BY <1>1, <1>2, <1>3, OutboxTypeCorrect, PTL DEF Spec
=============================================================================
