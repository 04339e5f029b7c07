---------------------------- MODULE ScheduledSend ----------------------------
(***************************************************************************)
(* Scheduled send and undo send: the rows of scheduled_messages, the cron  *)
(* ticks of the email worker that find the due ones, the dispatcher of the *)
(* web worker that sends one row, and the author who cancels or undoes.    *)
(*                                                                         *)
(* A tick (cron.ts, dispatchDueScheduled) lists at most DispatchBatch due  *)
(* rows and asks the dispatcher for one after the other; Cloudflare starts *)
(* a tick every minute whether or not the last one is done, so several of  *)
(* them run at once.  The dispatcher (dispatch-scheduled/route.ts) reads   *)
(* the row's status, sends, and writes the outcome without looking at the  *)
(* status again.  The request of a tick to the dispatcher is part of the   *)
(* tick here: the tick awaits it.                                          *)
(***************************************************************************)
EXTENDS Naturals, FiniteSets

CONSTANTS
    Rows,           \* ids of scheduled_messages
    Ticks,          \* cron ticks that can be running at the same time
    Clients,        \* undo requests that can be running at the same time
    None,           \* no row
    DispatchBatch,  \* DISPATCH_BATCH, 25 in the code
    MaxTime,        \* bound on the clock
    MaxMishaps      \* bound on the failures of D1, of a worker or of a request

ASSUME TicksAssumption == IsFiniteSet(Ticks)
ASSUME RowsAssumption == IsFiniteSet(Rows)
ASSUME NoneAssumption == None \notin Rows
ASSUME BoundsAssumption ==
    /\ DispatchBatch \in Nat \ {0}
    /\ MaxTime \in Nat
    /\ MaxMishaps \in Nat

VARIABLES
    status,     \* scheduled_messages.status, "absent" before the INSERT
    due,        \* scheduled_messages.scheduled_for
    now,        \* unixepoch()
    tick,       \* per tick: where it is, the rows left of its list, its row
    undo,       \* per undo request: where it is and its row
    drafts,     \* drafts created out of a row by undo
    discarded,  \* rows whose DELETE was answered ok
    mails,      \* per row: how often env.EMAIL.send accepted it
    mishaps     \* failures so far

rowVars == <<status, due>>
vars == <<status, due, now, tick, undo, drafts, discarded, mails, mishaps>>

Statuses == {"absent", "pending", "sent", "failed", "cancelled"}

(***************************************************************************)
(* A tick is idle, or in the loop over its rows, or awaits the dispatcher  *)
(* on one of them: past the status check and not yet accepted by the mail  *)
(* service ("sending"), accepted and being persisted ("persisting"),       *)
(* returned from sendMessage ("marking"), or in the catch block, before    *)
(* ("rejected") or after ("threw") the mail service accepted it.           *)
(***************************************************************************)
TickStates == {"idle", "looping", "sending", "rejected",
               "persisting", "marking", "threw"}
HasRow == {"sending", "rejected", "persisting", "marking", "threw"}
MailIsOut == {"persisting", "marking", "threw"}

IdleTick == [pc |-> "idle", queue |-> {}, row |-> None]
IdleUndo == [pc |-> "idle", row |-> None]

TypeOK ==
    /\ status \in [Rows -> Statuses]
    /\ due \in [Rows -> 0 .. MaxTime]
    /\ now \in 0 .. MaxTime
    /\ tick \in [Ticks -> [pc : TickStates, queue : SUBSET Rows, row : Rows \cup {None}]]
    /\ undo \in [Clients -> [pc : {"idle", "claiming", "drafting"}, row : Rows \cup {None}]]
    /\ drafts \in [Rows -> Nat]
    /\ discarded \subseteq Rows
    /\ mails \in [Rows -> Nat]
    /\ mishaps \in 0 .. MaxMishaps

Init ==
    /\ status = [r \in Rows |-> "absent"]
    /\ due = [r \in Rows |-> 0]
    /\ now = 0
    /\ tick = [t \in Ticks |-> IdleTick]
    /\ undo = [c \in Clients |-> IdleUndo]
    /\ drafts = [r \in Rows |-> 0]
    /\ discarded = {}
    /\ mails = [r \in Rows |-> 0]
    /\ mishaps = 0

Mishap ==
    /\ mishaps < MaxMishaps
    /\ mishaps' = mishaps + 1

Clock ==
    /\ now < MaxTime
    /\ now' = now + 1
    /\ UNCHANGED <<status, due, tick, undo, drafts, discarded, mails, mishaps>>

-----------------------------------------------------------------------------
(* The author: POST /api/scheduled, DELETE and POST undo.                  *)

Schedule(r, at) ==
    /\ status[r] = "absent"
    /\ at > now
    /\ status' = [status EXCEPT ![r] = "pending"]
    /\ due' = [due EXCEPT ![r] = at]
    /\ UNCHANGED <<now, tick, undo, drafts, discarded, mails, mishaps>>

\* One conditional UPDATE; a row that is no longer pending answers 404.
Cancel(r) ==
    /\ status[r] = "pending"
    /\ status' = [status EXCEPT ![r] = "cancelled"]
    /\ discarded' = discarded \cup {r}
    /\ UNCHANGED <<due, now, tick, undo, drafts, mails, mishaps>>

UndoSelect(c, r) ==
    /\ undo[c].pc = "idle"
    /\ status[r] = "pending"
    /\ undo' = [undo EXCEPT ![c] = [pc |-> "claiming", row |-> r]]
    /\ UNCHANGED <<rowVars, now, tick, drafts, discarded, mails, mishaps>>

\* Mutant of UndoClaim: the UPDATE lost its AND status = 'pending'.
UndoClaimUnconditional(c) ==
    /\ undo[c].pc = "claiming"
    /\ status' = [status EXCEPT ![undo[c].row] = "cancelled"]
    /\ undo' = [undo EXCEPT ![c].pc = "drafting"]
    /\ UNCHANGED <<due, now, tick, drafts, discarded, mails, mishaps>>

UndoClaim(c) ==
    LET r == undo[c].row IN
    /\ undo[c].pc = "claiming"
    /\ \/ /\ status[r] = "pending"
          /\ status' = [status EXCEPT ![r] = "cancelled"]
          /\ undo' = [undo EXCEPT ![c].pc = "drafting"]
       \/ /\ status[r] # "pending"          \* 0 changes: 409 already_finalised
          /\ undo' = [undo EXCEPT ![c] = IdleUndo]
          /\ UNCHANGED status
    /\ UNCHANGED <<due, now, tick, drafts, discarded, mails, mishaps>>

UndoDraft(c) ==
    /\ undo[c].pc = "drafting"
    /\ drafts' = [drafts EXCEPT ![undo[c].row] = @ + 1]
    /\ undo' = [undo EXCEPT ![c] = IdleUndo]
    /\ UNCHANGED <<rowVars, now, tick, discarded, mails, mishaps>>

\* createDraft throws, or the request dies before it gets there.
UndoDies(c) ==
    /\ undo[c].pc # "idle"
    /\ Mishap
    /\ undo' = [undo EXCEPT ![c] = IdleUndo]
    /\ UNCHANGED <<rowVars, now, tick, drafts, discarded, mails>>

-----------------------------------------------------------------------------
(* The cron tick and, inside it, the dispatcher.                           *)

Due == {r \in Rows : status[r] = "pending" /\ due[r] <= now}

\* ORDER BY scheduled_for ASC LIMIT DISPATCH_BATCH, ties in any order.
DueBatch(Q) ==
    /\ Q \subseteq Due
    /\ Q # {}
    /\ Cardinality(Q) <= DispatchBatch
    /\ Q = Due \/ Cardinality(Q) = DispatchBatch
    /\ \A r \in Q, s \in Due \ Q : due[r] <= due[s]

CronTick(t) ==
    /\ tick[t].pc = "idle"
    /\ \E Q \in SUBSET Rows :
          /\ DueBatch(Q)
          /\ tick' = [tick EXCEPT ![t] = [pc |-> "looping", queue |-> Q, row |-> None]]
    /\ UNCHANGED <<rowVars, now, undo, drafts, discarded, mails, mishaps>>

\* Mutant of NextRow: the dispatcher trusts the list of the tick.
NextRowUnchecked(t, r) ==
    /\ tick[t].pc = "looping"
    /\ r \in tick[t].queue
    /\ tick' = [tick EXCEPT ![t] =
          [pc |-> "sending", queue |-> @.queue \ {r}, row |-> r]]
    /\ UNCHANGED <<rowVars, now, undo, drafts, discarded, mails, mishaps>>

\* The next row of the list: the dispatcher reads its status.
NextRow(t, r) ==
    /\ tick[t].pc = "looping"
    /\ r \in tick[t].queue
    /\ \A s \in tick[t].queue : due[r] <= due[s]
    /\ \/ /\ status[r] = "pending"
          /\ tick' = [tick EXCEPT ![t] =
                [pc |-> "sending", queue |-> @.queue \ {r}, row |-> r]]
       \/ /\ status[r] # "pending"          \* answered skipped
          /\ tick' = [tick EXCEPT ![t].queue = @ \ {r}]
    /\ UNCHANGED <<rowVars, now, undo, drafts, discarded, mails, mishaps>>

TickDone(t) ==
    /\ tick[t].pc = "looping"
    /\ tick[t].queue = {}
    /\ tick' = [tick EXCEPT ![t] = IdleTick]
    /\ UNCHANGED <<rowVars, now, undo, drafts, discarded, mails, mishaps>>

\* An unusable payload, an expired confidential message, or a SendError
\* raised by sendMessage up to and including a refusal of env.EMAIL.send.
SendRejected(t) ==
    /\ tick[t].pc = "sending"
    /\ tick' = [tick EXCEPT ![t].pc = "rejected"]
    /\ UNCHANGED <<rowVars, now, undo, drafts, discarded, mails, mishaps>>

MailAccepted(t) ==
    /\ tick[t].pc = "sending"
    /\ tick' = [tick EXCEPT ![t].pc = "persisting"]
    /\ mails' = [mails EXCEPT ![tick[t].row] = @ + 1]
    /\ UNCHANGED <<rowVars, now, undo, drafts, discarded, mishaps>>

Persisted(t) ==
    /\ tick[t].pc = "persisting"
    /\ tick' = [tick EXCEPT ![t].pc = "marking"]
    /\ UNCHANGED <<rowVars, now, undo, drafts, discarded, mails, mishaps>>

\* The archive put, the mail DB lookup or batch, the control batch or the
\* UPDATE to 'sent' throws: the catch block cannot tell the mail is out.
ThrowsAfterMail(t) ==
    /\ tick[t].pc \in {"persisting", "marking"}
    /\ Mishap
    /\ tick' = [tick EXCEPT ![t].pc = "threw"]
    /\ UNCHANGED <<rowVars, now, undo, drafts, discarded, mails>>

BackToLoop(t) ==
    tick' = [tick EXCEPT ![t] =
        [pc |-> "looping", queue |-> @.queue, row |-> None]]

MarkSent(t) ==
    /\ tick[t].pc = "marking"
    /\ status' = [status EXCEPT ![tick[t].row] = "sent"]
    /\ BackToLoop(t)
    /\ UNCHANGED <<due, now, undo, drafts, discarded, mails, mishaps>>

\* Mutant of MarkFailed: a refused send is left for the next tick.
MarkFailedForgotten(t) ==
    /\ tick[t].pc \in {"rejected", "threw"}
    /\ BackToLoop(t)
    /\ UNCHANGED <<rowVars, now, undo, drafts, discarded, mails, mishaps>>

MarkFailed(t) ==
    /\ tick[t].pc \in {"rejected", "threw"}
    /\ status' = [status EXCEPT ![tick[t].row] = "failed"]
    /\ BackToLoop(t)
    /\ UNCHANGED <<due, now, undo, drafts, discarded, mails, mishaps>>

\* The request dies or markFailed throws; the tick logs it and goes on.
RequestDies(t) ==
    /\ tick[t].pc \in HasRow
    /\ Mishap
    /\ BackToLoop(t)
    /\ UNCHANGED <<rowVars, now, undo, drafts, discarded, mails>>

\* The tick itself is cut off, and its request to the dispatcher with it.
TickDies(t) ==
    /\ tick[t].pc # "idle"
    /\ Mishap
    /\ tick' = [tick EXCEPT ![t] = IdleTick]
    /\ UNCHANGED <<rowVars, now, undo, drafts, discarded, mails>>

-----------------------------------------------------------------------------

UndoStep(c) ==
    \/ UndoClaim(c)
    \/ UndoDraft(c)

TickStep(t) ==
    \/ CronTick(t)
    \/ \E r \in Rows : NextRow(t, r)
    \/ TickDone(t)
    \/ SendRejected(t)
    \/ MailAccepted(t)
    \/ Persisted(t)
    \/ MarkSent(t)
    \/ MarkFailed(t)

Failure ==
    \/ \E c \in Clients : UndoDies(c)
    \/ \E t \in Ticks : ThrowsAfterMail(t) \/ RequestDies(t) \/ TickDies(t)

Author ==
    \/ \E r \in Rows, at \in 0 .. MaxTime : Schedule(r, at)
    \/ \E r \in Rows : Cancel(r)
    \/ \E c \in Clients, r \in Rows : UndoSelect(c, r)

Next ==
    \/ Clock
    \/ Author
    \/ \E c \in Clients : UndoStep(c)
    \/ \E t \in Ticks : TickStep(t)
    \/ Failure

Spec == Init /\ [][Next]_vars

(***************************************************************************)
(* The cron trigger fires every minute and a running tick or request is    *)
(* scheduled again and again; nobody forces the author or a failure.       *)
(***************************************************************************)
Fairness ==
    /\ \A t \in Ticks : WF_vars(TickStep(t))
    /\ \A c \in Clients : WF_vars(UndoStep(c))

FairSpec == Spec /\ Fairness

-----------------------------------------------------------------------------
(* What the design promises.                                               *)

\* Some dispatcher is past its status check of row r.
InFlight(r) == \E t \in Ticks : tick[t].row = r

(***************************************************************************)
(* A row the author withdrew, or the dispatcher finalised, while no        *)
(* dispatcher was past its status check stays as it is for good: it is     *)
(* never mailed, never rewritten and never taken up again.  The lists of   *)
(* the ticks still running may hold it, but the status check in front of   *)
(* sendMessage stops them (dispatch-scheduled/route.ts).                   *)
(***************************************************************************)
Settled(r) == status[r] \notin {"absent", "pending"} /\ ~InFlight(r)

SettledStaysSettled ==
    [][\A r \in Rows :
          Settled(r) => /\ ~InFlight(r)'
                        /\ mails'[r] = mails[r]
                        /\ status'[r] = status[r]]_vars

(***************************************************************************)
(* A row reads 'sent' in the author's history only if the mail service has *)
(* accepted it at least once, whichever of the overlapping dispatchers,    *)
(* failures and cancellations wrote the status last.                       *)
(***************************************************************************)
SentWasMailed == \A r \in Rows : status[r] = "sent" => mails[r] > 0

\* Nothing is mailed before its scheduled_for: only the tick's SELECT
\* looks at the time, the dispatcher does not.
NeverEarly == \A r \in Rows : mails[r] > 0 => due[r] <= now

(***************************************************************************)
(* However many tabs press Undo and Cancel on one row, exactly one request *)
(* wins: there is at most one draft made out of a row, and none of a row   *)
(* whose DELETE was answered ok (the conditional UPDATEs of both routes).  *)
(***************************************************************************)
OneWithdrawalWins ==
    \A r \in Rows : drafts[r] <= 1 /\ (r \in discarded => drafts[r] = 0)

(***************************************************************************)
(* A message is mailed at most once per tick that can run at the same time *)
(* plus once per mishap, however rows, ticks and undo requests interleave. *)
(***************************************************************************)
CopiesBounded == \A r \in Rows : mails[r] <= Cardinality(Ticks) + mishaps

(***************************************************************************)
(* Every due row is eventually finalised: mailed, failed or withdrawn,     *)
(* although a tick takes at most DispatchBatch rows and may die.           *)
(***************************************************************************)
DueIsFinalised ==
    \A r \in Rows :
        (status[r] = "pending" /\ due[r] <= now)
            ~> (status[r] \in {"sent", "failed", "cancelled"})

(***************************************************************************)
(* The queue implements OutgoingMail: a row is a message, a tick a worker, *)
(* and an attempt lasts from the dispatcher's status check to its answer.  *)
(***************************************************************************)
MailPhase ==
    [r \in Rows |-> CASE status[r] = "absent" -> "new"
                      [] status[r] = "pending" -> "open"
                      [] OTHER -> "closed"]

MailAttempt ==
    [t \in Ticks |-> [msg |-> tick[t].row, out |-> tick[t].pc \in MailIsOut]]

Mail == INSTANCE OutgoingMail WITH
    Msgs <- Rows, Workers <- Ticks, phase <- MailPhase, attempt <- MailAttempt

ImplementsOutgoingMail == Mail!Spec
=============================================================================
