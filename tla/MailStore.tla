------------------------------ MODULE MailStore ------------------------------
(***************************************************************************)
(* How a message gets into the mailbox and out of it: the email worker's   *)
(* delivery (thread.ts, store.ts, rules.ts), the store half of a send      *)
(* (send.ts), the thread routes (threads/[id], threads-mutate.ts) and the  *)
(* cron sweep of deleted blobs.                                            *)
(*                                                                         *)
(* Four stores hold a message and no transaction spans two of them: the    *)
(* mail database of its thread (threads, messages), the control database   *)
(* (threads_index, thread_locations), the R2 buckets, and r2_tombstones,   *)
(* the queue of blobs to delete.  An attempt is one run of a worker for    *)
(* one message; a mail transfer agent that was refused makes another.      *)
(* The UUID of the message row, of its blobs and of the thread it may open *)
(* is the attempt itself.  All mail is of one mailbox and of one fortnight.*)
(***************************************************************************)
EXTENDS Naturals, FiniteSets

CONSTANTS
    Attempts, Requests,
    Mails,          \* Message-IDs
    MailOf,         \* the mail an attempt stores
    Sent,           \* mails the user sends; the others are delivered
    Parent,         \* the mail it answers (In-Reply-To), or NoId
    Subject,        \* its normalised subject
    RulesOf,        \* what the first filter rule it matches may do
    Blocked,        \* mails from blocked senders
    Bulk,           \* mails the owner has archived on arrival (auto_archive_marketing)
    MailDbs, Primary,
    Ops,            \* what users ask of threads
    NoId,
    SweepBatch,     \* tombstones a sweep takes (R2_TOMBSTONE_BATCH)
    Undeletable,    \* messages whose blobs R2 fails to delete every time
    MaxMishaps      \* bound on killed workers and failed calls

ASSUME MailsAssumption ==
    /\ MailOf \in [Attempts -> Mails]
    /\ Parent \in [Mails -> Mails \cup {NoId}]
    /\ RulesOf \in [Mails -> SUBSET {"none", "read", "archive", "delete"}]
ASSUME OpsAssumption ==
    Ops \subseteq {"read", "open", "unread", "archive", "unarchive", "mute", "unmute", "delete"}
ASSUME NoIdAssumption == NoId \notin Attempts \cup Mails \cup MailDbs
ASSUME PrimaryAssumption == Primary \in MailDbs
ASSUME SweepAssumption == SweepBatch \in Nat \ {0} /\ Undeletable \subseteq Attempts
ASSUME BoundsAssumption == IsFiniteSet(Attempts) /\ MaxMishaps \in Nat

VARIABLES
    threads,    \* per thread: the mail database with its row
    home,       \* per message: the thread of its row
    unreadRows, \* messages with read = 0
    location,   \* per thread: its row in thread_locations
    listed,     \* threads with a row in threads_index
    entry,      \* per thread: that row
    blobs,      \* messages whose raw mail, html and attachments are in R2
    tombs,      \* the rows of r2_tombstones: a message with its blobs, queued_at
    clock,      \* when the next ones are queued
    pc, thread, fresh, db, hush, \* per attempt: its step, its thread, whether it
                \* opens it, the mail database, and whether it must not surface,
    keys, todo, left, leftUnread, \* and what its rule deletes, marks and counted
    rpc, op, on, held, marks, \* per request: its step, operation and thread, the
                \* keys it deletes and what it still marks
    sweep,      \* the cron sweep: the rows it listed, and those done
    mishaps

mail == <<threads, home, unreadRows>>
index == <<location, listed, entry>>
r2 == <<blobs, tombs, clock>>
found == <<thread, fresh, db, hush>>
rule == <<keys, todo, left, leftUnread>>
att == <<pc, found, rule>>
req == <<rpc, op, on, held, marks>>
vars == <<mail, index, r2, att, req, sweep, mishaps>>

Entries == [count : Nat, unread : Nat, archived : BOOLEAN, muted : BOOLEAN]
Blank == [count |-> 0, unread |-> 0, archived |-> FALSE, muted |-> FALSE]
Tombs == [at : Nat, key : Attempts]
Sweeps == [runs : BOOLEAN, list : SUBSET Tombs, done : SUBSET Tombs]
NoSweep == [runs |-> FALSE, list |-> {}, done |-> {}]

RulePcs == {"rule", "marking", "dropRow", "countLeft", "dropThread", "dropIndex",
            "readStats", "writeStats"}
Over == {"refused", "duplicate", "pushed", "quiet", "sent"}
AttemptPcs == {"start", "subject", "place", "screen", "dupCheck", "put", "insert",
               "register", "upsert", "push", "notify"} \cup RulePcs \cup Over
RequestPcs == {"idle", "update", "marking", "keys", "dropThread", "dropIndex",
               "done", "failed"}

TypeOK ==
    /\ threads \in [Attempts -> MailDbs \cup {NoId}]
    /\ home \in [Attempts -> Attempts \cup {NoId}]
    /\ unreadRows \subseteq Attempts
    /\ location \in [Attempts -> MailDbs \cup {NoId}]
    /\ listed \subseteq Attempts
    /\ entry \in [Attempts -> Entries]
    /\ blobs \subseteq Attempts
    /\ tombs \subseteq Tombs
    /\ clock \in Nat
    /\ pc \in [Attempts -> AttemptPcs]
    /\ thread \in [Attempts -> Attempts \cup {NoId}]
    /\ fresh \in [Attempts -> BOOLEAN]
    /\ db \in [Attempts -> MailDbs \cup {NoId}]
    /\ hush \in [Attempts -> BOOLEAN]
    /\ keys \in [Attempts -> SUBSET Attempts]
    /\ todo \in [Attempts -> SUBSET {"index", "mail"}]
    /\ left \in [Attempts -> Nat]
    /\ leftUnread \in [Attempts -> Nat]
    /\ rpc \in [Requests -> RequestPcs]
    /\ op \in [Requests -> Ops \cup {"none"}]
    /\ on \in [Requests -> Attempts \cup {NoId}]
    /\ held \in [Requests -> SUBSET Attempts]
    /\ marks \in [Requests -> SUBSET {"index", "mail"}]
    /\ sweep \in Sweeps
    /\ mishaps \in 0 .. MaxMishaps

Init ==
    /\ threads = [t \in Attempts |-> NoId]
    /\ home = [m \in Attempts |-> NoId]
    /\ unreadRows = {}
    /\ location = [t \in Attempts |-> NoId]
    /\ listed = {}
    /\ entry = [t \in Attempts |-> Blank]
    /\ blobs = {}
    /\ tombs = {}
    /\ clock = 0
    /\ pc = [a \in Attempts |-> "start"]
    /\ thread = [a \in Attempts |-> NoId]
    /\ fresh = [a \in Attempts |-> FALSE]
    /\ db = [a \in Attempts |-> NoId]
    /\ hush = [a \in Attempts |-> FALSE]
    /\ keys = [a \in Attempts |-> {}]
    /\ todo = [a \in Attempts |-> {}]
    /\ left = [a \in Attempts |-> 0]
    /\ leftUnread = [a \in Attempts |-> 0]
    /\ rpc = [r \in Requests |-> "idle"]
    /\ op = [r \in Requests |-> "none"]
    /\ on = [r \in Requests |-> NoId]
    /\ held = [r \in Requests |-> {}]
    /\ marks = [r \in Requests |-> {}]
    /\ sweep = NoSweep
    /\ mishaps = 0

IsSent(a) == MailOf[a] \in Sent
AutoArchive(a) == fresh[a] /\ MailOf[a] \in Bulk
RowsOf(t) == {m \in Attempts : home[m] = t}
UnreadOf(t) == RowsOf(t) \cap unreadRows
Stored(m) == home[m] # NoId
Resolved(t) == IF location[t] = NoId THEN Primary ELSE location[t]

To(a, step) == pc' = [pc EXCEPT ![a] = step] /\ UNCHANGED <<found, rule>>
ReqTo(r, step) == rpc' = [rpc EXCEPT ![r] = step] /\ UNCHANGED <<op, on, held, marks>>
Mishap == mishaps < MaxMishaps /\ mishaps' = mishaps + 1

-----------------------------------------------------------------------------
(* Finding the thread.                                                     *)

Threaded(a, t, opens, step) ==
    /\ pc' = [pc EXCEPT ![a] = step]
    /\ thread' = [thread EXCEPT ![a] = t]
    /\ fresh' = [fresh EXCEPT ![a] = opens]
    /\ UNCHANGED <<db, hush, rule>>

AfterThread(a) == IF IsSent(a) THEN "put" ELSE "place"

\* In-Reply-To and References, over every mail database.
FindParent(a) ==
    /\ pc[a] = "start"
    /\ LET parents == {p \in Attempts : Stored(p) /\ MailOf[p] = Parent[MailOf[a]]}
       IN  \/ \E p \in parents : Threaded(a, home[p], FALSE, AfterThread(a))
           \/ /\ parents = {}
              /\ IF IsSent(a) THEN Threaded(a, a, TRUE, "put") ELSE To(a, "subject")
    /\ UNCHANGED <<mail, index, r2, req, sweep, mishaps>>

\* Otherwise a recent thread of the same subject, or a thread of its own.
FindSubject(a) ==
    /\ pc[a] = "subject"
    /\ LET alike == {t \in Attempts : threads[t] # NoId
                                      /\ Subject[MailOf[t]] = Subject[MailOf[a]]}
       IN  \/ \E t \in alike : Threaded(a, t, FALSE, "place")
           \/ alike = {} /\ Threaded(a, a, TRUE, "place")
    /\ UNCHANGED <<mail, index, r2, req, sweep, mishaps>>

-----------------------------------------------------------------------------
(* Choosing the mail database.                                             *)

Placed(a, d) ==
    /\ pc' = [pc EXCEPT ![a] = IF IsSent(a) THEN "insert" ELSE "screen"]
    /\ db' = [db EXCEPT ![a] = d]
    /\ UNCHANGED <<thread, fresh, hush, rule>>

\* The caps the size estimates are below; the cron refreshes them at any time.
Levels == [MailDbs -> {"soft", "hard", "none"}]

\* The emptiest database below its soft cap, or else below its hard cap.
Roomy(level) ==
    LET below(cap) == {d \in MailDbs : level[d] = cap}
    IN  IF below("soft") # {} THEN below("soft") ELSE below("hard")

PlaceNew(a) ==
    /\ pc[a] = "place" /\ fresh[a]
    /\ \E level \in Levels : \E d \in Roomy(level) : Placed(a, d)
    /\ UNCHANGED <<mail, index, r2, req, sweep, mishaps>>

\* The web worker resolves another database only if an earlier call of the
\* same isolate cached its row; the email worker never does.
PlaceKnown(a) ==
    /\ pc[a] = "place" /\ ~fresh[a]
    /\ location[thread[a]] = NoId \/ IsSent(a)
    /\ Placed(a, Resolved(thread[a]))
    /\ UNCHANGED <<mail, index, r2, req, sweep, mishaps>>

\* Mutant: the throw is caught, and the transfer agent is told all is well.
PlaceSwallows(a) ==
    /\ pc[a] = "place"
    /\ IF fresh[a] THEN \E level \in Levels : Roomy(level) = {}
                       ELSE location[thread[a]] # NoId
    /\ To(a, "quiet")
    /\ UNCHANGED <<mail, index, r2, req, sweep, mishaps>>

PlaceThrows(a) ==
    /\ pc[a] = "place"
    /\ IF fresh[a] THEN \E level \in Levels : Roomy(level) = {}
                       ELSE location[thread[a]] # NoId
    /\ To(a, "refused")
    /\ UNCHANGED <<mail, index, r2, req, sweep, mishaps>>

-----------------------------------------------------------------------------
(* Storing the message.                                                    *)

\* A muted thread or a blocked sender; a failed look-up counts as not muted.
Screen(a) ==
    /\ pc[a] = "screen"
    /\ LET t == thread[a]
           muted == ~fresh[a] /\ t \in listed /\ entry[t].muted
           blocked == MailOf[a] \in Blocked
           screened(quiet) ==
               /\ pc' = [pc EXCEPT ![a] = "dupCheck"]
               /\ hush' = [hush EXCEPT ![a] = quiet]
               /\ UNCHANGED <<thread, fresh, db, rule>>
       IN  \/ screened(muted \/ blocked) /\ UNCHANGED mishaps
           \/ muted /\ screened(blocked) /\ Mishap
    /\ UNCHANGED <<mail, index, r2, req, sweep>>

\* Copies of the mail in one mail database.
CopiesIn(a, d) ==
    {m \in Attempts : Stored(m) /\ MailOf[m] = MailOf[a] /\ threads[home[m]] = d}

\* Mutant: a duplicate refreshes the row of its thread in threads_index.
CheckDuplicateReindexes(a) ==
    /\ pc[a] = "dupCheck"
    /\ To(a, IF CopiesIn(a, db[a]) # {} THEN "upsert" ELSE "put")
    /\ UNCHANGED <<mail, index, r2, req, sweep, mishaps>>

CheckDuplicate(a) ==
    /\ pc[a] = "dupCheck"
    /\ To(a, IF CopiesIn(a, db[a]) # {} THEN "duplicate" ELSE "put")
    /\ UNCHANGED <<mail, index, r2, req, sweep, mishaps>>

Put(a) ==
    /\ pc[a] = "put"
    /\ blobs' = blobs \cup {a}
    /\ To(a, IF IsSent(a) THEN "place" ELSE "insert")
    /\ UNCHANGED <<mail, index, tombs, clock, req, sweep, mishaps>>

\* The thread row is there (foreign key) and the Message-ID is not (unique).
Insertable(a) ==
    /\ fresh[a] \/ threads[thread[a]] = db[a]
    /\ CopiesIn(a, db[a]) = {}

Insert(a) ==
    /\ pc[a] = "insert"
    /\ Insertable(a)
    /\ threads' = IF fresh[a] THEN [threads EXCEPT ![a] = db[a]] ELSE threads
    /\ home' = [home EXCEPT ![a] = thread[a]]
    /\ unreadRows' = IF IsSent(a) THEN unreadRows ELSE unreadRows \cup {a}
    /\ To(a, IF fresh[a] /\ db[a] # Primary THEN "register" ELSE "upsert")
    /\ UNCHANGED <<index, r2, req, sweep, mishaps>>

InsertThrows(a) ==
    /\ pc[a] = "insert"
    /\ ~Insertable(a)
    /\ To(a, "refused")
    /\ UNCHANGED <<mail, index, r2, req, sweep, mishaps>>

-----------------------------------------------------------------------------
(* The control database.                                                   *)

Register(a) ==
    /\ pc[a] = "register"
    /\ location' = IF location[a] = NoId THEN [location EXCEPT ![a] = db[a]]
                                         ELSE location
    /\ To(a, "upsert")
    /\ UNCHANGED <<mail, listed, entry, r2, req, sweep, mishaps>>

AfterUpsert(a) ==
    IF IsSent(a) THEN "sent" ELSE IF hush[a] THEN "quiet" ELSE "rule"

\* A delivery archives the thread or brings it back; a send leaves it.
Indexed(a) ==
    LET t == thread[a]
        quiet == hush[a] \/ AutoArchive(a)
        old == IF t \in listed THEN entry[t] ELSE Blank
    IN  [count |-> old.count + 1,
         unread |-> IF IsSent(a) \/ quiet THEN old.unread ELSE old.unread + 1,
         archived |-> IF IsSent(a) THEN old.archived ELSE quiet,
         muted |-> old.muted]

\* Mutant: mail that must not surface only updates a row that is there.
UpsertSurfacing(a) ==
    /\ pc[a] = "upsert"
    /\ listed' = IF hush[a] THEN listed ELSE listed \cup {thread[a]}
    /\ entry' = [entry EXCEPT ![thread[a]] = Indexed(a)]
    /\ To(a, AfterUpsert(a))
    /\ UNCHANGED <<mail, location, r2, req, sweep, mishaps>>

Upsert(a) ==
    /\ pc[a] = "upsert"
    /\ listed' = listed \cup {thread[a]}
    /\ entry' = [entry EXCEPT ![thread[a]] = Indexed(a)]
    /\ To(a, AfterUpsert(a))
    /\ UNCHANGED <<mail, location, r2, req, sweep, mishaps>>

\* Either failure is logged, and the delivery goes on.
RegisterFails(a) ==
    /\ pc[a] = "register"
    /\ Mishap
    /\ To(a, "upsert")
    /\ UNCHANGED <<mail, index, r2, req, sweep>>

UpsertFails(a) ==
    /\ pc[a] = "upsert"
    /\ Mishap
    /\ To(a, AfterUpsert(a))
    /\ UNCHANGED <<mail, index, r2, req, sweep>>

-----------------------------------------------------------------------------
(* Filter rules and the push.                                              *)

Reading(a, rest) ==
    /\ pc' = [pc EXCEPT ![a] = IF rest = {} THEN "push" ELSE "marking"]
    /\ todo' = [todo EXCEPT ![a] = rest]
    /\ UNCHANGED <<found, keys, left, leftUnread>>

\* UPDATE threads_index; no row, no change.
Reindex(t, new) ==
    entry' = IF t \in listed THEN [entry EXCEPT ![t] = new] ELSE entry

RuleNone(a) ==
    /\ pc[a] = "rule" /\ "none" \in RulesOf[MailOf[a]]
    /\ To(a, "push")
    /\ UNCHANGED <<mail, index, r2, req, sweep, mishaps>>

RuleRead(a) ==
    /\ pc[a] = "rule" /\ "read" \in RulesOf[MailOf[a]]
    /\ Reading(a, {"index", "mail"})
    /\ UNCHANGED <<mail, index, r2, req, sweep, mishaps>>

RuleArchive(a) ==
    /\ pc[a] = "rule" /\ "archive" \in RulesOf[MailOf[a]]
    /\ LET t == thread[a]
       IN  Reindex(t, [entry[t] EXCEPT !.archived = TRUE, !.unread = 0])
    /\ Reading(a, {"mail"})
    /\ UNCHANGED <<mail, location, listed, r2, req, sweep, mishaps>>

RuleMarksIndex(a) ==
    /\ pc[a] = "marking" /\ "index" \in todo[a]
    /\ Reindex(thread[a], [entry[thread[a]] EXCEPT !.unread = 0])
    /\ Reading(a, todo[a] \ {"index"})
    /\ UNCHANGED <<mail, location, listed, r2, req, sweep, mishaps>>

RuleMarksMail(a) ==
    /\ pc[a] = "marking" /\ "mail" \in todo[a]
    /\ unreadRows' = unreadRows \ RowsOf(thread[a])
    /\ Reading(a, todo[a] \ {"mail"})
    /\ UNCHANGED <<threads, home, index, r2, req, sweep, mishaps>>

\* hardDelete: the keys of this message, if its row is still there, ...
RuleDelete(a) ==
    /\ pc[a] = "rule" /\ "delete" \in RulesOf[MailOf[a]]
    /\ pc' = [pc EXCEPT ![a] = "dropRow"]
    /\ keys' = [keys EXCEPT ![a] = {m \in {a} : Stored(m)}]
    /\ UNCHANGED <<found, todo, left, leftUnread, mail, index, r2, req, sweep, mishaps>>

\* ... its row, ...
RuleDropsRow(a) ==
    /\ pc[a] = "dropRow"
    /\ home' = [home EXCEPT ![a] = NoId]
    /\ unreadRows' = unreadRows \ {a}
    /\ To(a, "countLeft")
    /\ UNCHANGED <<threads, index, r2, req, sweep, mishaps>>

\* ... what is left of the thread, ...
RuleCounts(a) ==
    /\ pc[a] = "countLeft"
    /\ To(a, IF RowsOf(thread[a]) = {} THEN "dropThread" ELSE "readStats")
    /\ UNCHANGED <<mail, index, r2, req, sweep, mishaps>>

\* DELETE FROM threads takes every message of the thread with it.
Cascade(t) ==
    /\ threads' = [threads EXCEPT ![t] = NoId]
    /\ home' = [m \in Attempts |-> IF home[m] = t THEN NoId ELSE home[m]]
    /\ unreadRows' = unreadRows \ RowsOf(t)

\* The rows of one batch get one queued_at.
Queue(gone) ==
    /\ tombs' = tombs \cup {[at |-> clock, key |-> k] : k \in gone}
    /\ clock' = clock + 1

\* The control batch of both deletions.
Unlist(t, gone) ==
    /\ Queue(gone)
    /\ location' = [location EXCEPT ![t] = NoId]
    /\ listed' = listed \ {t}
    /\ entry' = [entry EXCEPT ![t] = Blank]

RuleDropsThread(a) ==
    /\ pc[a] = "dropThread"
    /\ Cascade(thread[a])
    /\ To(a, "dropIndex")
    /\ UNCHANGED <<index, r2, req, sweep, mishaps>>

RuleDropsIndex(a) ==
    /\ pc[a] = "dropIndex"
    /\ Unlist(thread[a], keys[a])
    /\ To(a, "push")
    /\ UNCHANGED <<mail, blobs, req, sweep, mishaps>>

\* ... or, if the thread goes on, its counters, from the rows that are left.
RuleReadsStats(a) ==
    /\ pc[a] = "readStats"
    /\ pc' = [pc EXCEPT ![a] = "writeStats"]
    /\ left' = [left EXCEPT ![a] = Cardinality(RowsOf(thread[a]))]
    /\ leftUnread' = [leftUnread EXCEPT ![a] = Cardinality(UnreadOf(thread[a]))]
    /\ UNCHANGED <<found, keys, todo, mail, index, r2, req, sweep, mishaps>>

RuleWritesStats(a) ==
    /\ pc[a] = "writeStats"
    /\ LET t == thread[a]
       IN  Reindex(t, [entry[t] EXCEPT !.count = left[a], !.unread = leftUnread[a]])
    /\ Queue(keys[a])
    /\ To(a, "push")
    /\ UNCHANGED <<mail, location, listed, blobs, req, sweep, mishaps>>

\* A rule that throws is logged; the push then asks nobody.
RuleFails(a) ==
    /\ pc[a] \in RulePcs
    /\ Mishap
    /\ To(a, "notify")
    /\ UNCHANGED <<mail, index, r2, req, sweep>>

Push(a) ==
    /\ pc[a] \in {"push", "notify"}
    /\ LET t == thread[a]
           gone == pc[a] = "push" /\ (t \in listed => entry[t].archived)
       IN  To(a, IF AutoArchive(a) \/ gone THEN "quiet" ELSE "pushed")
    /\ UNCHANGED <<mail, index, r2, req, sweep, mishaps>>

\* The worker is killed or a call throws: the transfer agent is refused.
Die(a) ==
    /\ pc[a] \notin Over \cup {"start"}
    /\ Mishap
    /\ To(a, "refused")
    /\ UNCHANGED <<mail, index, r2, req, sweep>>

-----------------------------------------------------------------------------
(* The thread routes.                                                      *)

FirstStep(o) == CASE o = "delete" -> "keys" [] o = "open" -> "marking" [] OTHER -> "update"

\* userCanAccessThread reads threads_index.
Ask(r) ==
    /\ rpc[r] = "idle"
    /\ \E o \in Ops :
          /\ rpc' = [rpc EXCEPT ![r] = FirstStep(o)]
          /\ op' = [op EXCEPT ![r] = o]
          /\ marks' = [marks EXCEPT ![r] = IF o = "open" THEN {"index", "mail"} ELSE {}]
    /\ \E t \in listed : on' = [on EXCEPT ![r] = t]
    /\ UNCHANGED <<held, mail, index, r2, att, sweep, mishaps>>

Patched(e, o) ==
    CASE o = "read"      -> [e EXCEPT !.unread = 0]
      [] o = "unread"    -> [e EXCEPT !.unread = IF @ = 0 THEN 1 ELSE @]
      [] o = "archive"   -> [e EXCEPT !.archived = TRUE]
      [] o = "unarchive" -> [e EXCEPT !.archived = FALSE]
      [] o = "mute"      -> [e EXCEPT !.muted = TRUE]
      [] o = "unmute"    -> [e EXCEPT !.muted = FALSE]

Marking(r, rest) ==
    /\ rpc' = [rpc EXCEPT ![r] = IF rest = {} THEN "done" ELSE "marking"]
    /\ marks' = [marks EXCEPT ![r] = rest]
    /\ UNCHANGED <<op, on, held>>

Patch(r) ==
    /\ rpc[r] = "update"
    /\ Reindex(on[r], Patched(entry[on[r]], op[r]))
    /\ Marking(r, IF op[r] = "read" THEN {"mail"} ELSE {})
    /\ UNCHANGED <<mail, location, listed, r2, att, sweep, mishaps>>

MarkIndex(r) ==
    /\ rpc[r] = "marking" /\ "index" \in marks[r]
    /\ Reindex(on[r], [entry[on[r]] EXCEPT !.unread = 0])
    /\ Marking(r, marks[r] \ {"index"})
    /\ UNCHANGED <<mail, location, listed, r2, att, sweep, mishaps>>

\* The rows of a thread in the database it resolves to.
Found(t) == IF threads[t] = Resolved(t) THEN RowsOf(t) ELSE {}

MarkMail(r) ==
    /\ rpc[r] = "marking" /\ "mail" \in marks[r]
    /\ unreadRows' = unreadRows \ Found(on[r])
    /\ Marking(r, marks[r] \ {"mail"})
    /\ UNCHANGED <<threads, home, index, r2, att, sweep, mishaps>>

\* A cold isolate cannot resolve a database other than the primary.
Unresolved(r) ==
    /\ \/ rpc[r] = "keys"
       \/ /\ rpc[r] = "marking"
          /\ marks[r] = IF op[r] = "open" THEN {"index", "mail"} ELSE {"mail"}
    /\ location[on[r]] # NoId
    /\ ReqTo(r, "failed")
    /\ UNCHANGED <<mail, index, r2, att, sweep, mishaps>>

\* Mutant: the tombstones are queued before the rows are deleted.
ReadKeysAndQueue(r) ==
    /\ rpc[r] = "keys"
    /\ rpc' = [rpc EXCEPT ![r] = "dropThread"]
    /\ held' = [held EXCEPT ![r] = Found(on[r])]
    /\ Queue(Found(on[r]))
    /\ UNCHANGED <<mail, index, blobs, op, on, marks, att, sweep, mishaps>>

ReadKeys(r) ==
    /\ rpc[r] = "keys"
    /\ rpc' = [rpc EXCEPT ![r] = "dropThread"]
    /\ held' = [held EXCEPT ![r] = Found(on[r])]
    /\ UNCHANGED <<op, on, marks, mail, index, r2, att, sweep, mishaps>>

DropThread(r) ==
    /\ rpc[r] = "dropThread"
    /\ IF threads[on[r]] = Resolved(on[r])
       THEN Cascade(on[r]) ELSE UNCHANGED mail
    /\ ReqTo(r, "dropIndex")
    /\ UNCHANGED <<index, r2, att, sweep, mishaps>>

DropIndex(r) ==
    /\ rpc[r] = "dropIndex"
    /\ Unlist(on[r], held[r])
    /\ ReqTo(r, "done")
    /\ UNCHANGED <<mail, blobs, att, sweep, mishaps>>

RequestDies(r) ==
    /\ rpc[r] \notin {"idle", "done", "failed"}
    /\ Mishap
    /\ ReqTo(r, "failed")
    /\ UNCHANGED <<mail, index, r2, att, sweep>>

-----------------------------------------------------------------------------
(* The cron.                                                               *)

\* The oldest rows; those of one batch come in any order.
Page(rows) ==
    /\ Cardinality(rows) <= SweepBatch
    /\ Cardinality(rows) = SweepBatch \/ rows = tombs
    /\ \A r \in rows, s \in tombs \ rows : r.at <= s.at

\* Mutant: ORDER BY queued_at DESC.
SweepStartNewest ==
    /\ ~sweep.runs /\ tombs # {}
    /\ \E rows \in SUBSET tombs :
          /\ Cardinality(rows) <= SweepBatch
          /\ Cardinality(rows) = SweepBatch \/ rows = tombs
          /\ \A r \in rows, s \in tombs \ rows : r.at >= s.at
          /\ sweep' = [runs |-> TRUE, list |-> rows, done |-> {}]
    /\ UNCHANGED <<mail, index, r2, att, req, mishaps>>

SweepStart ==
    /\ ~sweep.runs /\ tombs # {}
    /\ \E rows \in SUBSET tombs :
          Page(rows) /\ sweep' = [runs |-> TRUE, list |-> rows, done |-> {}]
    /\ UNCHANGED <<mail, index, r2, att, req, mishaps>>

SweepBlob(r) ==
    /\ r \in sweep.list /\ r.key \notin Undeletable
    /\ blobs' = blobs \ {r.key}
    /\ sweep' = [sweep EXCEPT !.list = @ \ {r}, !.done = @ \cup {r}]
    /\ UNCHANGED <<mail, index, tombs, clock, att, req, mishaps>>

\* The failure is logged, and the row keeps its place in the queue.
SweepBlobFails(r) ==
    /\ r \in sweep.list
    /\ IF r.key \in Undeletable THEN UNCHANGED mishaps ELSE Mishap
    /\ sweep' = [sweep EXCEPT !.list = @ \ {r}]
    /\ UNCHANGED <<mail, index, r2, att, req>>

SweepClear ==
    /\ sweep.runs /\ sweep.list = {}
    /\ tombs' = tombs \ sweep.done
    /\ sweep' = NoSweep
    /\ UNCHANGED <<mail, index, blobs, clock, att, req, mishaps>>

SweepDies ==
    /\ sweep.runs
    /\ Mishap
    /\ sweep' = NoSweep
    /\ UNCHANGED <<mail, index, r2, att, req>>

-----------------------------------------------------------------------------

Storing(a) ==
    \/ FindParent(a) \/ FindSubject(a) \/ PlaceNew(a) \/ PlaceKnown(a) \/ PlaceThrows(a)
    \/ Screen(a) \/ CheckDuplicate(a) \/ Put(a) \/ Insert(a) \/ InsertThrows(a)
    \/ Register(a) \/ Upsert(a) \/ RegisterFails(a) \/ UpsertFails(a)

Filtering(a) ==
    \/ RuleNone(a) \/ RuleRead(a) \/ RuleArchive(a) \/ RuleMarksIndex(a)
    \/ RuleMarksMail(a) \/ RuleDelete(a) \/ RuleDropsRow(a) \/ RuleCounts(a)
    \/ RuleDropsThread(a) \/ RuleDropsIndex(a) \/ RuleReadsStats(a)
    \/ RuleWritesStats(a) \/ RuleFails(a) \/ Push(a)

Serving(r) ==
    \/ Patch(r) \/ MarkIndex(r) \/ MarkMail(r) \/ Unresolved(r)
    \/ ReadKeys(r) \/ DropThread(r) \/ DropIndex(r)

Sweeping ==
    \/ SweepStart \/ SweepClear
    \/ \E r \in sweep.list : SweepBlob(r) \/ SweepBlobFails(r)

Next ==
    \/ \E a \in Attempts : Storing(a) \/ Filtering(a) \/ Die(a)
    \/ \E r \in Requests : Ask(r) \/ Serving(r) \/ RequestDies(r)
    \/ Sweeping \/ SweepDies

Spec == Init /\ [][Next]_vars

\* A worker that was started runs until it is done or killed, and the cron
\* runs every minute.
FairSpec ==
    /\ Spec
    /\ \A a \in Attempts : WF_vars(pc[a] # "start" /\ (Storing(a) \/ Filtering(a)))
    /\ \A r \in Requests : WF_vars(Serving(r))
    /\ WF_vars(SweepStart) /\ WF_vars(SweepClear)
    /\ WF_vars(\E r \in sweep.list : SweepBlob(r) \/ SweepBlobFails(r))

-----------------------------------------------------------------------------
(* Properties.                                                             *)

\* The raw mail, the body and the attachments of a message in the mailbox are
\* in R2 and on no list of blobs to delete: the deletions queue the keys of
\* rows they have dropped, never of rows a late answer still shows.
StoredHasBlobs ==
    \A m \in Attempts :
        Stored(m) => m \in blobs /\ \A r \in tombs \cup sweep.list : r.key # m

\* Copies of one mail are in different mail databases: the look-up that finds
\* a retry or a second delivery is backed by the unique index of its database.
CopiesApart ==
    \A a, b \in Attempts :
        /\ a # b /\ Stored(a) /\ Stored(b) /\ MailOf[a] = MailOf[b]
        => threads[home[a]] # threads[home[b]]

\* A thread somebody deletes or deleted, or a rule took a message from.
Erasing(t) ==
    \/ \E r \in Requests : op[r] = "delete" /\ on[r] = t
    \/ \E a \in Attempts : keys[a] # {} /\ thread[a] = t

Kept(a) == Stored(a) \/ Erasing(thread[a])

\* Mail is taken off the sender only when a copy is in the mailbox, or was
\* until a rule or a user deleted its thread; also when the delivery is
\* answered as a duplicate of one that is still running, or that died.
AcceptedIsStored ==
    \A a \in Attempts :
        pc[a] \in Over \ {"refused"} =>
            \E b \in Attempts : MailOf[b] = MailOf[a] /\ thread[b] # NoId /\ Kept(b)

Indexing(t) == {a \in Attempts : thread[a] = t /\ pc[a] \in {"register", "upsert"}}

\* Where nothing was deleted and nothing failed, the row of a thread in
\* threads_index counts the messages of the thread, those aside whose
\* deliveries are about to be counted; a thread with no row has no others.
IndexCounts ==
    mishaps = 0 =>
        \A t \in Attempts : ~Erasing(t) =>
            Cardinality(RowsOf(t)) =
                Cardinality(Indexing(t)) + (IF t \in listed THEN entry[t].count ELSE 0)

\* A message of which nothing failed is listed, and can be opened, in the end.
StoredIsListed ==
    \A m \in Attempts :
        (Stored(m) /\ mishaps = 0) ~>
            (~Stored(m) \/ home[m] \in listed \/ mishaps > 0 \/ Erasing(home[m]))

\* Rows that keep row r out of every sweep: R2 fails to delete their blobs,
\* and SweepBatch of them are queued no later than it.
Stuck(r) ==
    \/ r.key \in Undeletable
    \/ Cardinality({s \in tombs : s.key \in Undeletable /\ s.at <= r.at}) >= SweepBatch

\* "Failures bump attempts and stay queued for retry" (0010_r2_tombstones.sql:11):
\* blobs queued for deletion are deleted in the end, after sweeps that failed or died
\* and behind rows that fail every time, as long as those are fewer than a sweep takes.
QueuedIsSwept ==
    \A m \in Attempts :
        (\E r \in tombs : r.key = m /\ ~Stuck(r)) ~> (m \notin blobs)

\* Does not hold: rows that fail every time stay at the head of the queue, and once
\* there are SweepBatch of them no later row is ever listed.
DeletableIsSwept ==
    \A m \in Attempts \ Undeletable : (\E r \in tombs : r.key = m) ~> (m \notin blobs)

\* "Hard delete this single message (NOT the whole thread)" (rules.ts:198): does not
\* hold, when a message arrives between the rule's count and its DELETE.
RuleDeletesOwnMessage ==
    [][\A a \in Attempts : RuleDropsThread(a) => home' = home]_vars
=============================================================================
