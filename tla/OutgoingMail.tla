---------------------------- MODULE OutgoingMail ----------------------------
(***************************************************************************)
(* What a queue of outgoing mail promises, whoever drains it.  A message   *)
(* is submitted once, is open while somebody may still try to send it, and *)
(* is closed for good by the end of an attempt or by its author.  A worker *)
(* attempts one message at a time; an attempt starts only on an open       *)
(* message and hands at most one copy to the mail service.  An attempt     *)
(* that has handed its copy over and is lost before it closes the message  *)
(* is a mishap: the message stays open and will be tried again.            *)
(*                                                                         *)
(* ScheduledSend (scheduled_messages, drained by the cron ticks) and       *)
(* Outbox (the service worker's IndexedDB queue) both implement it.        *)
(***************************************************************************)
EXTENDS Naturals, FiniteSets

CONSTANTS
    Msgs,       \* the messages that can be submitted
    Workers,    \* the drains that can run at the same time
    None        \* no message

\* What the theorems ask of the constants.
Sensible == IsFiniteSet(Workers) /\ None \notin Msgs

VARIABLES
    phase,      \* Msgs -> "new" | "open" | "closed"
    attempt,    \* Workers -> the message tried and whether its copy is out
    mails,      \* Msgs -> copies the mail service has accepted
    mishaps     \* how often an attempt went wrong

vars == <<phase, attempt, mails, mishaps>>

Phases == {"new", "open", "closed"}
Attempts == [msg : Msgs \cup {None}, out : BOOLEAN]
NoAttempt == [msg |-> None, out |-> FALSE]

TypeOK ==
    /\ phase \in [Msgs -> Phases]
    /\ attempt \in [Workers -> Attempts]
    /\ mails \in [Msgs -> Nat]
    /\ mishaps \in Nat

Init ==
    /\ phase = [m \in Msgs |-> "new"]
    /\ attempt = [w \in Workers |-> NoAttempt]
    /\ mails = [m \in Msgs |-> 0]
    /\ mishaps = 0

Submit(m) ==
    /\ phase[m] = "new"
    /\ phase' = [phase EXCEPT ![m] = "open"]
    /\ UNCHANGED <<attempt, mails, mishaps>>

\* The author takes the message back before anyone closed it.
Withdraw(m) ==
    /\ phase[m] = "open"
    /\ phase' = [phase EXCEPT ![m] = "closed"]
    /\ UNCHANGED <<attempt, mails, mishaps>>

Begin(w, m) ==
    /\ attempt[w] = NoAttempt
    /\ phase[m] = "open"
    /\ attempt' = [attempt EXCEPT ![w] = [msg |-> m, out |-> FALSE]]
    /\ UNCHANGED <<phase, mails, mishaps>>

HandOver(w, m) ==
    /\ attempt[w] = [msg |-> m, out |-> FALSE]
    /\ attempt' = [attempt EXCEPT ![w] = [msg |-> m, out |-> TRUE]]
    /\ mails' = [mails EXCEPT ![m] = @ + 1]
    /\ UNCHANGED <<phase, mishaps>>

Close(w, m) ==
    /\ attempt[w].msg = m
    /\ phase' = [phase EXCEPT ![m] = "closed"]
    /\ attempt' = [attempt EXCEPT ![w] = NoAttempt]
    /\ UNCHANGED <<mails, mishaps>>

\* Nothing was handed over: giving up is harmless, mishap or not.
Abandon(w, m) ==
    /\ attempt[w] = [msg |-> m, out |-> FALSE]
    /\ attempt' = [attempt EXCEPT ![w] = NoAttempt]
    /\ mishaps' \in {mishaps, mishaps + 1}
    /\ UNCHANGED <<phase, mails>>

\* The copy is out and the attempt is lost: only a mishap does that.
Slip(w, m) ==
    /\ attempt[w] = [msg |-> m, out |-> TRUE]
    /\ attempt' = [attempt EXCEPT ![w] = NoAttempt]
    /\ mishaps' = mishaps + 1
    /\ UNCHANGED <<phase, mails>>

\* Something else went wrong, in an attempt that goes on or outside any.
Hiccup ==
    /\ mishaps' = mishaps + 1
    /\ UNCHANGED <<phase, attempt, mails>>

Next ==
    \/ \E m \in Msgs : Submit(m) \/ Withdraw(m)
    \/ \E w \in Workers, m \in Msgs :
          \/ Begin(w, m)
          \/ HandOver(w, m)
          \/ Close(w, m)
          \/ Abandon(w, m)
          \/ Slip(w, m)
    \/ Hiccup

Spec == Init /\ [][Next]_vars

-----------------------------------------------------------------------------

Trying(m) == {w \in Workers : attempt[w] = [msg |-> m, out |-> FALSE]}
Out(m) == {w \in Workers : attempt[w] = [msg |-> m, out |-> TRUE]}

(***************************************************************************)
(* No message is mailed more often than there are drains that can hold it  *)
(* at once, plus the mishaps: with one drain and no mishap, at most once.  *)
(***************************************************************************)
CopiesBounded == \A m \in Msgs : mails[m] <= Cardinality(Workers) + mishaps

(***************************************************************************)
(* Why: while a message is open every copy belongs to a running attempt or *)
(* to a mishap; once it is closed, no new attempt starts and those still   *)
(* trying are all that can add to it.                                      *)
(***************************************************************************)
CopiesAccounted ==
    \A m \in Msgs :
        IF phase[m] = "closed"
        THEN mails[m] + Cardinality(Trying(m)) <= Cardinality(Workers) + mishaps
        ELSE mails[m] <= Cardinality(Out(m)) + mishaps
=============================================================================
