------------------------------- MODULE Outbox -------------------------------
(***************************************************************************)
(* Sending from the composer, and the outbox of the service worker that    *)
(* takes over when the network fails.                                      *)
(*                                                                         *)
(* The composer posts a message itself; if the fetch throws it hands the   *)
(* payload to the service worker (sw-client.ts, queueSend) and waits two   *)
(* seconds for an ack.  The worker (sw.js) adds a row to an IndexedDB      *)
(* store and drains the store, one row after the other, in flushOutbox:    *)
(* on every page load, on 'online', on a Background Sync and after each    *)
(* new row.  The browser may kill the worker at any await; what survives   *)
(* is the store, not the loop nor the `flushing' flag.                     *)
(***************************************************************************)
EXTENDS Naturals, FiniteSets

CONSTANTS
    Msgs,           \* messages composed in one page
    Ids,            \* keys of the object store: 1 .. MaxRows, autoIncrement
    NoMsg,          \* payload of a key not yet used
    None,           \* no row
    MaxPresses,     \* bound on how often Send is pressed on a message
    MaxMishaps      \* bound on the failures that follow an accepted mail,
                    \* on the kills of the worker and on failing writes

ASSUME IdsAssumption == Ids \subseteq Nat /\ IsFiniteSet(Ids) /\ None \notin Ids
ASSUME NoMsgAssumption == NoMsg \notin Msgs
ASSUME BoundsAssumption == MaxPresses \in Nat /\ MaxMishaps \in Nat

VARIABLES
    status,     \* per key: the row's status, "absent" before, "gone" after
    payload,    \* per key: the message the row carries
    sw,         \* the flush loop: where it is, its snapshot, its row
    composer,   \* per message: what its author sees
    transit,    \* per message: queue-sends that have not reached the worker
    acks,       \* rows that are added and whose ack is not out yet
    presses,    \* per message: how often Send was pressed
    posted,     \* per key: mails accepted out of the row
    direct,     \* per message: mails accepted from the composer itself
    mishaps

rowVars == <<status, payload>>
pageVars == <<composer, transit, acks, presses>>
mailVars == <<posted, direct>>
vars == <<status, payload, sw, composer, transit, acks, presses, posted, direct, mishaps>>

Statuses == {"absent", "pending", "sending", "failed", "gone"}

(***************************************************************************)
(* The loop is idle (flushing = false), between two rows, or awaits the    *)
(* answer for its row: before ("posting") or after ("accepted") the server *)
(* handed the mail over.                                                   *)
(***************************************************************************)
IdleSw == [pc |-> "idle", queue |-> {}, row |-> None]

\* "handing": queue-send is posted and the two seconds run.
ComposerStates == {"editing", "posting", "accepted", "handing", "sent",
                   "queued", "unavailable"}

TypeOK ==
    /\ status \in [Ids -> Statuses]
    /\ payload \in [Ids -> Msgs \cup {NoMsg}]
    /\ sw \in [pc : {"idle", "looping", "posting", "accepted"},
               queue : SUBSET Ids, row : Ids \cup {None}]
    /\ composer \in [Msgs -> ComposerStates]
    /\ transit \in [Msgs -> Nat]
    /\ acks \subseteq Ids
    /\ presses \in [Msgs -> 0 .. MaxPresses]
    /\ posted \in [Ids -> Nat]
    /\ direct \in [Msgs -> Nat]
    /\ mishaps \in 0 .. MaxMishaps

Init ==
    /\ status = [i \in Ids |-> "absent"]
    /\ payload = [i \in Ids |-> NoMsg]
    /\ sw = IdleSw
    /\ composer = [m \in Msgs |-> "editing"]
    /\ transit = [m \in Msgs |-> 0]
    /\ acks = {}
    /\ presses = [m \in Msgs |-> 0]
    /\ posted = [i \in Ids |-> 0]
    /\ direct = [m \in Msgs |-> 0]
    /\ mishaps = 0

Mishap ==
    /\ mishaps < MaxMishaps
    /\ mishaps' = mishaps + 1

-----------------------------------------------------------------------------
(* The composer.                                                           *)

Press(m) ==
    /\ composer[m] \in {"editing", "unavailable"}
    /\ presses[m] < MaxPresses
    /\ presses' = [presses EXCEPT ![m] = @ + 1]
    /\ composer' = [composer EXCEPT ![m] = "posting"]
    /\ UNCHANGED <<rowVars, sw, transit, acks, mailVars, mishaps>>

PostAccepted(m) ==
    /\ composer[m] = "posting"
    /\ composer' = [composer EXCEPT ![m] = "accepted"]
    /\ direct' = [direct EXCEPT ![m] = @ + 1]
    /\ UNCHANGED <<rowVars, sw, transit, acks, presses, posted, mishaps>>

PostOk(m) ==
    /\ composer[m] = "accepted"
    /\ composer' = [composer EXCEPT ![m] = "sent"]
    /\ UNCHANGED <<rowVars, sw, transit, acks, presses, mailVars, mishaps>>

\* A 4xx or 5xx answer is shown; a 5xx may follow an accepted mail.
PostRejected(m) ==
    /\ \/ composer[m] = "posting" /\ UNCHANGED mishaps
       \/ composer[m] = "accepted" /\ Mishap
    /\ composer' = [composer EXCEPT ![m] = "editing"]
    /\ UNCHANGED <<rowVars, sw, transit, acks, presses, mailVars>>

\* Mutant of PostFails: queueSend resolves before it posts to the worker.
PostFailsUnsent(m) ==
    /\ composer[m] = "posting"
    /\ composer' = [composer EXCEPT ![m] = "queued"]
    /\ UNCHANGED <<rowVars, sw, transit, acks, presses, mailVars, mishaps>>

\* The fetch throws: the payload goes to the service worker.
PostFails(m) ==
    /\ \/ composer[m] = "posting" /\ UNCHANGED mishaps
       \/ composer[m] = "accepted" /\ Mishap
    /\ composer' = [composer EXCEPT ![m] = "handing"]
    /\ transit' = [transit EXCEPT ![m] = @ + 1]
    /\ UNCHANGED <<rowVars, sw, acks, presses, mailVars>>

\* No ack within two seconds: queueSend resolves null and the composer
\* shows "You're offline. Try again when you have a connection."
AckTimeout(m) ==
    /\ composer[m] = "handing"
    /\ composer' = [composer EXCEPT ![m] = "unavailable"]
    /\ UNCHANGED <<rowVars, sw, transit, acks, presses, mailVars, mishaps>>

-----------------------------------------------------------------------------
(* The service worker.                                                     *)

Fresh(i) == status[i] = "absent" /\ \A j \in Ids : status[j] = "absent" => i <= j

\* queue-send: addOutbox commits a row.
Enqueue(m, i) ==
    /\ transit[m] > 0
    /\ Fresh(i)
    /\ status' = [status EXCEPT ![i] = "pending"]
    /\ payload' = [payload EXCEPT ![i] = m]
    /\ transit' = [transit EXCEPT ![m] = @ - 1]
    /\ acks' = acks \cup {i}
    /\ UNCHANGED <<sw, composer, presses, mailVars, mishaps>>

\* The ack is posted to the page as a whole and names no message: every
\* queueSend that still waits takes it for its own.
Ack(i) ==
    /\ i \in acks
    /\ acks' = acks \ {i}
    /\ composer' = [m \in Msgs |-> IF composer[m] = "handing" THEN "queued"
                                  ELSE composer[m]]
    /\ UNCHANGED <<rowVars, sw, transit, presses, mailVars, mishaps>>

\* addOutbox throws (quota), or no worker hears the message.
EnqueueFails(m) ==
    /\ transit[m] > 0
    /\ Mishap
    /\ transit' = [transit EXCEPT ![m] = @ - 1]
    /\ UNCHANGED <<rowVars, sw, composer, acks, presses, mailVars>>

\* Mutant of Pending: failed rows are tried again.
PendingOrFailed == {i \in Ids : status[i] \in {"pending", "failed"}}

Pending == {i \in Ids : status[i] = "pending"}

Flush ==
    /\ sw.pc = "idle"
    /\ Pending # {}
    /\ sw' = [pc |-> "looping", queue |-> Pending, row |-> None]
    /\ UNCHANGED <<rowVars, pageVars, mailVars, mishaps>>

\* createdAt order, which is the order of the keys.
TakeRow(i) ==
    /\ sw.pc = "looping"
    /\ i \in sw.queue
    /\ \A j \in sw.queue : i <= j
    /\ status' = [status EXCEPT ![i] = "sending"]
    /\ sw' = [pc |-> "posting", queue |-> sw.queue \ {i}, row |-> i]
    /\ UNCHANGED <<payload, pageVars, mailVars, mishaps>>

\* Mutant of FlushDone: the finally block does not reset the flag.
FlushDoneFlagKept ==
    /\ sw.pc = "looping"
    /\ sw.queue = {}
    /\ UNCHANGED vars

FlushDone ==
    /\ sw.pc = "looping"
    /\ sw.queue = {}
    /\ sw' = IdleSw
    /\ UNCHANGED <<rowVars, pageVars, mailVars, mishaps>>

MailAccepted ==
    /\ sw.pc = "posting"
    /\ sw' = [sw EXCEPT !.pc = "accepted"]
    /\ posted' = [posted EXCEPT ![sw.row] = @ + 1]
    /\ UNCHANGED <<rowVars, pageVars, direct, mishaps>>

NextInLoop == sw' = [pc |-> "looping", queue |-> sw.queue, row |-> None]
Settle(s) == status' = [status EXCEPT ![sw.row] = s]

\* Mutant of Delivered: the row is put back although the answer was ok.
DeliveredKept ==
    /\ sw.pc = "accepted"
    /\ Settle("pending")
    /\ NextInLoop
    /\ UNCHANGED <<payload, pageVars, mailVars, mishaps>>

\* res.ok: the row is deleted.
Delivered ==
    /\ sw.pc = "accepted"
    /\ Settle("gone")
    /\ NextInLoop
    /\ UNCHANGED <<payload, pageVars, mailVars, mishaps>>

\* 4xx: the row is marked failed for good.  The server raises it before
\* the mail service has accepted the mail.
Refused ==
    /\ sw.pc = "posting"
    /\ Settle("failed")
    /\ NextInLoop
    /\ UNCHANGED <<payload, pageVars, mailVars, mishaps>>

NothingIsOut ==
    \/ sw.pc = "posting" /\ UNCHANGED mishaps
    \/ sw.pc = "accepted" /\ Mishap

\* 5xx: back to pending, and on to the next row of the snapshot.
Deferred ==
    /\ NothingIsOut
    /\ Settle("pending")
    /\ NextInLoop
    /\ UNCHANGED <<payload, pageVars, mailVars>>

\* The fetch or deleteOutbox throws: back to pending, and the loop ends.
Blip ==
    /\ NothingIsOut
    /\ Settle("pending")
    /\ sw' = IdleSw
    /\ UNCHANGED <<payload, pageVars, mailVars>>

\* The browser kills the worker, or a write to the store throws outside
\* the try block: the loop is over, the row is left as it is.
Killed ==
    /\ sw.pc # "idle" \/ acks # {}
    /\ Mishap
    /\ sw' = IdleSw
    /\ acks' = {}
    /\ UNCHANGED <<rowVars, composer, transit, presses, mailVars>>

-----------------------------------------------------------------------------

Page(m) ==
    \/ Press(m)
    \/ PostAccepted(m)
    \/ PostOk(m)
    \/ PostRejected(m)
    \/ PostFails(m)
    \/ AckTimeout(m)

Queue(m) ==
    \/ \E i \in Ids : Enqueue(m, i)
    \/ EnqueueFails(m)

Worker ==
    \/ \E i \in Ids : Ack(i)
    \/ Flush
    \/ \E i \in Ids : TakeRow(i)
    \/ FlushDone
    \/ MailAccepted
    \/ Delivered
    \/ Refused
    \/ Deferred
    \/ Blip
    \/ Killed

Next ==
    \/ \E m \in Msgs : Page(m) \/ Queue(m)
    \/ Worker

Spec == Init /\ [][Next]_vars

(***************************************************************************)
(* A running worker goes on, and flushes are triggered again and again: a  *)
(* mounted page asks for one (OfflineIndicator.tsx).  The network is fair: *)
(* a row posted over and over again is accepted or refused in the end.     *)
(***************************************************************************)
Answered == MailAccepted \/ Refused
Proceeds ==
    \/ Flush
    \/ \E i \in Ids : TakeRow(i)
    \/ FlushDone
    \/ Delivered

FairSpec ==
    /\ Spec
    /\ WF_vars(Proceeds)
    /\ SF_vars(Answered)

-----------------------------------------------------------------------------
(* What the outbox promises.                                               *)

(***************************************************************************)
(* A row leaves the store only after the mail service has accepted its     *)
(* mail: no answer, blip or kill makes the outbox forget a message.        *)
(***************************************************************************)
GoneWasMailed == \A i \in Ids : status[i] = "gone" => posted[i] > 0

RowsOf(m) == {i \in Ids : payload[i] = m}

Kept(m) ==
    \/ transit[m] > 0
    \/ \E i \in RowsOf(m) : status[i] # "gone" \/ posted[i] > 0

(***************************************************************************)
(* The author who was told "Queued" (ComposeProvider.tsx) can rely on it   *)
(* but for mishaps: his message is on its way to the store, in the store,  *)
(* or it has been mailed.                                                  *)
(***************************************************************************)
LostByMishap ==
    Cardinality({m \in Msgs : composer[m] = "queued" /\ ~Kept(m)}) <= mishaps

\* One pair for each mail that was accepted out of a row of the message.
MailsOut(m) == UNION {{i} \X (1 .. posted[i]) : i \in RowsOf(m)}

Copies(m) == direct[m] + Cardinality(MailsOut(m))

(***************************************************************************)
(* A message is mailed at most once for each time its author pressed Send, *)
(* directly and out of all its rows together, plus once for each mishap.   *)
(***************************************************************************)
OneCopyPerPress == \A m \in Msgs : Copies(m) <= presses[m] + mishaps

(***************************************************************************)
(* A row is stranded that reads 'sending' while no loop has it.            *)
(***************************************************************************)
Stranded(i) == status[i] = "sending" /\ sw.row # i

(***************************************************************************)
(* A failed row is final: it is neither posted again nor put back.         *)
(***************************************************************************)
FailedIsFinal ==
    [][\A i \in Ids : status[i] = "failed" =>
          /\ status'[i] = "failed"
          /\ sw'.row # i
          /\ posted'[i] = posted[i]]_vars

(***************************************************************************)
(* A pending row is eventually mailed and deleted, or refused, unless a    *)
(* kill in the middle of its post strands it.                              *)
(***************************************************************************)
PendingIsSettled ==
    \A i \in Ids :
        status[i] = "pending" ~> (status[i] \in {"gone", "failed"} \/ Stranded(i))

(***************************************************************************)
(* The outbox implements OutgoingMail with the loop as its only worker.    *)
(***************************************************************************)
MailPhase ==
    [i \in Ids |-> CASE status[i] = "absent" -> "new"
                     [] status[i] \in {"pending", "sending"} -> "open"
                     [] OTHER -> "closed"]

MailAttempt == [w \in {"sw"} |-> [msg |-> sw.row, out |-> sw.pc = "accepted"]]

Mail == INSTANCE OutgoingMail WITH
    Msgs <- Ids, Workers <- {"sw"}, phase <- MailPhase,
    attempt <- MailAttempt, mails <- posted

ImplementsOutgoingMail == Mail!Spec
=============================================================================
