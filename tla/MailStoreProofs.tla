--------------------------- MODULE MailStoreProofs ---------------------------
(***************************************************************************)
(* The mail store for any number of attempts, requests, mail databases and *)
(* mishaps: its types, and that no message in the mailbox ever loses its   *)
(* blobs, whatever is deleted and swept around it.  In the second half the *)
(* import of mail of any age: a letter is stored once.                     *)
(***************************************************************************)
EXTENDS MailStore, MboxImport, FiniteSetTheorems, SequenceTheorems, TLAPS

BeforeInsert == {"start", "subject", "place", "screen", "dupCheck", "put", "insert"}

\* Before its insert a message is in no row, and neither it nor the thread it
\* may open is known to anyone else.
Unwritten ==
    \A a \in Attempts : pc[a] \in BeforeInsert =>
        /\ home[a] = NoId /\ threads[a] = NoId /\ location[a] = NoId
        /\ a \notin listed /\ \A w \in tombs \cup sweep.list : w.key # a
        /\ \A b \in Attempts : a \notin keys[b] /\ (b # a => thread[b] # a)
        /\ \A r \in Requests : a \notin held[r] /\ on[r] # a

\* What an attempt has found and put by the time it inserts.
Ready ==
    \A a \in Attempts :
        /\ fresh[a] => thread[a] = a
        /\ pc[a] = "insert" => a \in blobs /\ db[a] # NoId /\ thread[a] # NoId
        /\ pc[a] = "place" /\ IsSent(a) => a \in blobs
        /\ pc[a] \in {"start", "subject"} => db[a] = NoId /\ thread[a] = NoId
        /\ pc[a] = "subject" => ~IsSent(a)
        /\ pc[a] \in {"screen", "dupCheck"} => db[a] # NoId /\ ~IsSent(a)
        /\ pc[a] = "put" /\ ~IsSent(a) => db[a] # NoId
        /\ pc[a] \notin {"start", "subject", "refused"} => thread[a] # NoId
        /\ pc[a] \in BeforeInsert \cup {"register", "upsert", "rule", "marking"} => keys[a] = {}

\* A request is about a thread, and a patch carries out one of the operations
\* on its row of threads_index.
Asked ==
    \A r \in Requests :
        /\ rpc[r] # "idle" => on[r] # NoId
        /\ rpc[r] = "idle" => op[r] = "none"
        /\ rpc[r] = "update" => op[r] \in Ops \ {"open", "delete"}

\* A thread that still has to be registered is in another database than the
\* primary, where nobody finds it.
Unregistered ==
    \A t \in Attempts : pc[t] = "register" =>
        /\ threads[t] = db[t] /\ db[t] \notin {NoId, Primary}
        /\ thread[t] = t /\ location[t] = NoId /\ t \notin listed
        /\ \A r \in Requests : on[r] # t
        /\ \A a \in Attempts \ {t} : thread[a] = t =>
              /\ db[a] \in {NoId, Primary}
              /\ pc[a] \in BeforeInsert \cup {"refused", "duplicate"}

\* Rows hang off a thread row, and a registered thread is where it is said to be.
Rooted ==
    \A t \in Attempts :
        /\ home[t] # NoId => threads[home[t]] # NoId
        /\ threads[t] # NoId /\ location[t] # NoId => location[t] = threads[t]

\* A deletion queues the blobs of messages that are gone.
Deleting ==
    /\ \A a \in Attempts :
          /\ keys[a] \subseteq {a}
          /\ pc[a] \in {"countLeft", "dropThread", "dropIndex", "readStats", "writeStats"}
                => home[a] = NoId
          /\ pc[a] = "dropIndex" => threads[thread[a]] = NoId
          /\ pc[a] \in RulePcs => thread[a] # NoId
    /\ \A r \in Requests :
          LET t == on[r] IN
          /\ rpc[r] = "dropThread" => \A m \in held[r] :
                home[m] # NoId => home[m] = t /\ threads[t] = Resolved(t)
          /\ rpc[r] = "dropIndex" =>
                /\ \A m \in held[r] : home[m] = NoId
                /\ threads[t] = NoId \/ location[t] = NoId

\* A row stays in the thread its attempt found, ...
Settled ==
    /\ \A a \in Attempts :
          /\ home[a] # NoId => home[a] = thread[a]
          /\ pc[a] \in {"dropRow", "countLeft", "dropThread"} /\ keys[a] = {} => home[a] = NoId
    /\ \A r \in Requests : rpc[r] \in {"keys", "dropThread", "dropIndex"} => op[r] = "delete"

\* ... and whoever takes it away is on record as erasing that thread.
NotStoring == {"start", "subject", "place", "screen", "dupCheck", "put", "insert",
            "refused", "duplicate"}
AllKept == \A a \in Attempts : pc[a] \notin NotStoring => Kept(a)

IInv ==
    /\ TypeOK /\ Unwritten /\ Ready /\ Asked /\ Unregistered /\ Rooted /\ Deleting
    /\ Settled /\ AllKept /\ StoredHasBlobs /\ CopiesApart /\ AcceptedIsStored

LEMMA Counting == \A S \in SUBSET Attempts : Cardinality(S) \in Nat
  BY BoundsAssumption, FS_Subset, FS_CardinalityType

LEMMA ReindexType ==
    ASSUME TypeOK, NEW t, NEW new, t \in listed => new \in Entries, Reindex(t, new)
    PROVE  entry' \in [Attempts -> Entries]
  BY DEF TypeOK, Reindex

LEMMA IndexedType ==
    ASSUME TypeOK, NEW a \in Attempts PROVE Indexed(a) \in Entries
<1>1. Blank \in Entries
  BY DEF Blank, Entries
<1> DEFINE old == IF thread[a] \in listed THEN entry[thread[a]] ELSE Blank
<1>2. old \in Entries
  BY <1>1 DEF TypeOK
<1>3. old.count + 1 \in Nat /\ old.unread + 1 \in Nat /\ old.unread \in Nat
  BY <1>2 DEF Entries
<1>4. old.archived \in BOOLEAN /\ old.muted \in BOOLEAN
  BY <1>2, Zenon DEF Entries
<1> DEFINE quiet == hush[a] \/ AutoArchive(a)
<1>5. quiet \in BOOLEAN
  OBVIOUS
<1>6. (IF IsSent(a) \/ quiet THEN old.unread ELSE old.unread + 1) \in Nat
  BY <1>3
<1>7. (IF IsSent(a) THEN old.archived ELSE quiet) \in BOOLEAN
  BY <1>4, <1>5, Zenon
<1> HIDE DEF old, quiet
<1>8. [count |-> old.count + 1,
       unread |-> IF IsSent(a) \/ quiet THEN old.unread ELSE old.unread + 1,
       archived |-> IF IsSent(a) THEN old.archived ELSE quiet,
       muted |-> old.muted] \in Entries
  BY <1>3, <1>4, <1>6, <1>7, Zenon DEF Entries
<1> QED
  BY <1>8, Zenon DEF Indexed, old, quiet

LEMMA EntriesPatched ==
    ASSUME NEW e \in Entries, NEW n \in Nat, NEW k \in Nat
    PROVE  /\ [e EXCEPT !.unread = n] \in Entries
           /\ [e EXCEPT !.archived = TRUE, !.unread = n] \in Entries
           /\ [e EXCEPT !.count = k, !.unread = n] \in Entries
  BY DEF Entries

LEMMA PatchedType ==
    ASSUME NEW e \in Entries, NEW o \in Ops, o \notin {"open", "delete"}
    PROVE  Patched(e, o) \in Entries
<1>1. o \in {"read", "unread", "archive", "unarchive", "mute", "unmute"}
  BY OpsAssumption
<1> QED
  BY <1>1 DEF Patched, Entries

LEMMA QueueType ==
    ASSUME TypeOK, NEW gone, gone \subseteq Attempts, Queue(gone)
    PROVE  tombs' \subseteq Tombs /\ clock' \in Nat
  BY DEF TypeOK, Queue, Tombs

LEMMA TypeNext == TypeOK /\ Ready /\ Asked /\ [Next]_vars => TypeOK'
<1> SUFFICES ASSUME TypeOK, Ready, Asked, [Next]_vars
             PROVE  TypeOK'
  OBVIOUS
<1> USE BoundsAssumption, PrimaryAssumption, MailsAssumption, OpsAssumption
    DEF TypeOK, mail, index, r2, att, req, found, rule, AttemptPcs, RequestPcs, RulePcs, Over
<1>1. CASE UNCHANGED vars
  BY <1>1 DEF vars
<1>2. ASSUME NEW a \in Attempts, FindParent(a) PROVE TypeOK'
  <2>1. ASSUME NEW p \in Attempts, Stored(p), Threaded(a, home[p], FALSE, AfterThread(a))
        PROVE  TypeOK'
    <3>1. home[p] \in Attempts /\ AfterThread(a) \in AttemptPcs
      BY <2>1 DEF Stored, AfterThread
    <3> QED
      BY <1>2, <2>1, <3>1 DEF FindParent, Threaded
  <2>2. CASE Threaded(a, a, TRUE, "put")
    BY <1>2, <2>2 DEF FindParent, Threaded
  <2>3. CASE To(a, "subject")
    BY <1>2, <2>3 DEF FindParent, To
  <2> QED
    BY <1>2, <2>1, <2>2, <2>3, Zenon DEF FindParent
<1>3. ASSUME NEW a \in Attempts, FindSubject(a) PROVE TypeOK'
  <2>1. ASSUME NEW t \in Attempts, NEW opens \in BOOLEAN, Threaded(a, t, opens, "place")
        PROVE  TypeOK'
    BY <1>3, <2>1 DEF FindSubject, Threaded
  <2> QED
    BY <1>3, <2>1, Zenon DEF FindSubject
<1>4. ASSUME NEW a \in Attempts, PlaceNew(a) PROVE TypeOK'
  BY <1>4 DEF PlaceNew, Placed, Roomy
<1>5. ASSUME NEW a \in Attempts, PlaceKnown(a) PROVE TypeOK'
  <2>1. Resolved(thread[a]) \in MailDbs \cup {NoId}
    BY <1>5 DEF PlaceKnown, Resolved, Ready
  <2> QED
    BY <1>5, <2>1 DEF PlaceKnown, Placed
<1>6. ASSUME NEW a \in Attempts, PlaceThrows(a) PROVE TypeOK'
  BY <1>6 DEF PlaceThrows, To
<1>7. ASSUME NEW a \in Attempts, Screen(a) PROVE TypeOK'
  <2> DEFINE muted == ~fresh[a] /\ thread[a] \in listed /\ entry[thread[a]].muted
             blocked == MailOf[a] \in Blocked
  <2>1. \/ hush' = [hush EXCEPT ![a] = muted \/ blocked]
        \/ hush' = [hush EXCEPT ![a] = blocked]
    BY <1>7, Zenon DEF Screen
  <2>2. (muted \/ blocked) \in BOOLEAN /\ blocked \in BOOLEAN
    OBVIOUS
  <2>3. hush' \in [Attempts -> BOOLEAN]
    <3> HIDE DEF muted, blocked
    <3>1. ASSUME NEW quiet \in BOOLEAN, hush' = [hush EXCEPT ![a] = quiet]
          PROVE  hush' \in [Attempts -> BOOLEAN]
      BY <3>1
    <3> QED
      BY <2>1, <2>2, <3>1, Zenon
  <2>4. pc' = [pc EXCEPT ![a] = "dupCheck"] /\ UNCHANGED <<thread, fresh, db, rule>>
    BY <1>7, Zenon DEF Screen
  <2>5. UNCHANGED <<mail, index, r2, req, sweep>> /\ mishaps' \in 0 .. MaxMishaps
    BY <1>7 DEF Screen, Mishap
  <2> QED
    BY <2>3, <2>4, <2>5
<1>8. ASSUME NEW a \in Attempts, CheckDuplicate(a) PROVE TypeOK'
  BY <1>8 DEF CheckDuplicate, To
<1>9. ASSUME NEW a \in Attempts, Put(a) PROVE TypeOK'
  BY <1>9 DEF Put, To
<1>10. ASSUME NEW a \in Attempts, Insert(a) PROVE TypeOK'
  BY <1>10 DEF Insert, To, Insertable
<1>11. ASSUME NEW a \in Attempts, InsertThrows(a) PROVE TypeOK'
  BY <1>11 DEF InsertThrows, To
<1>12. ASSUME NEW a \in Attempts, Register(a) PROVE TypeOK'
  BY <1>12 DEF Register, To
<1>13. ASSUME NEW a \in Attempts, Upsert(a) PROVE TypeOK'
  <2>1. entry' \in [Attempts -> Entries]
    BY <1>13, IndexedType DEF Upsert
  <2>2. listed' \subseteq Attempts
    BY <1>13 DEF Upsert, Ready
  <2> QED
    BY <1>13, <2>1, <2>2 DEF Upsert, To, AfterUpsert
<1>14. ASSUME NEW a \in Attempts, RegisterFails(a) PROVE TypeOK'
  BY <1>14 DEF RegisterFails, To, Mishap
<1>15. ASSUME NEW a \in Attempts, UpsertFails(a) PROVE TypeOK'
  BY <1>15 DEF UpsertFails, To, Mishap, AfterUpsert
<1>16. ASSUME NEW a \in Attempts, RuleNone(a) PROVE TypeOK'
  BY <1>16 DEF RuleNone, To
<1>17. ASSUME NEW a \in Attempts, RuleRead(a) PROVE TypeOK'
  BY <1>17 DEF RuleRead, Reading
<1>18. ASSUME NEW a \in Attempts, RuleArchive(a) PROVE TypeOK'
  <2>1. thread[a] \in listed => [entry[thread[a]] EXCEPT !.archived = TRUE, !.unread = 0] \in Entries
    BY EntriesPatched
  <2>2. Reindex(thread[a], [entry[thread[a]] EXCEPT !.archived = TRUE, !.unread = 0])
    BY <1>18 DEF RuleArchive
  <2>3. entry' \in [Attempts -> Entries]
    BY <2>1, <2>2, ReindexType
  <2> QED
    BY <1>18, <2>3 DEF RuleArchive, Reading
<1>19. ASSUME NEW a \in Attempts, RuleMarksIndex(a) PROVE TypeOK'
  <2>1. thread[a] \in listed => [entry[thread[a]] EXCEPT !.unread = 0] \in Entries
    BY EntriesPatched
  <2>2. Reindex(thread[a], [entry[thread[a]] EXCEPT !.unread = 0])
    BY <1>19 DEF RuleMarksIndex
  <2>3. entry' \in [Attempts -> Entries]
    BY <2>1, <2>2, ReindexType
  <2> QED
    BY <1>19, <2>3 DEF RuleMarksIndex, Reading
<1>20. ASSUME NEW a \in Attempts, RuleMarksMail(a) PROVE TypeOK'
  BY <1>20 DEF RuleMarksMail, Reading, RowsOf
<1>21. ASSUME NEW a \in Attempts, RuleDelete(a) PROVE TypeOK'
  BY <1>21 DEF RuleDelete
<1>22. ASSUME NEW a \in Attempts, RuleDropsRow(a) PROVE TypeOK'
  BY <1>22 DEF RuleDropsRow, To
<1>23. ASSUME NEW a \in Attempts, RuleCounts(a) PROVE TypeOK'
  BY <1>23 DEF RuleCounts, To
<1>24. ASSUME NEW a \in Attempts, RuleDropsThread(a) PROVE TypeOK'
  BY <1>24 DEF RuleDropsThread, To, Cascade, RowsOf
<1>25. ASSUME NEW a \in Attempts, RuleDropsIndex(a) PROVE TypeOK'
  <2>1. Blank \in Entries
    BY DEF Blank, Entries
  <2>2. tombs' \subseteq Tombs /\ clock' \in Nat
    BY <1>25, QueueType DEF RuleDropsIndex, Unlist
  <2> QED
    BY <1>25, <2>1, <2>2 DEF RuleDropsIndex, To, Unlist
<1>26. ASSUME NEW a \in Attempts, RuleReadsStats(a) PROVE TypeOK'
  <2>1. Cardinality(RowsOf(thread[a])) \in Nat /\ Cardinality(UnreadOf(thread[a])) \in Nat
    BY Counting DEF RowsOf, UnreadOf
  <2> QED
    BY <1>26, <2>1 DEF RuleReadsStats
<1>27. ASSUME NEW a \in Attempts, RuleWritesStats(a) PROVE TypeOK'
  <2>1. thread[a] \in listed => [entry[thread[a]] EXCEPT !.count = left[a], !.unread = leftUnread[a]] \in Entries
    BY EntriesPatched
  <2>2. Reindex(thread[a], [entry[thread[a]] EXCEPT !.count = left[a], !.unread = leftUnread[a]])
    BY <1>27 DEF RuleWritesStats, Queue
  <2>3. entry' \in [Attempts -> Entries]
    BY <2>1, <2>2, ReindexType
  <2>4. tombs' \subseteq Tombs /\ clock' \in Nat
    BY <1>27, QueueType DEF RuleWritesStats
  <2> QED
    BY <1>27, <2>3, <2>4 DEF RuleWritesStats, To
<1>28. ASSUME NEW a \in Attempts, RuleFails(a) PROVE TypeOK'
  BY <1>28 DEF RuleFails, To, Mishap
<1>29. ASSUME NEW a \in Attempts, Push(a) PROVE TypeOK'
  BY <1>29 DEF Push, To
<1>30. ASSUME NEW a \in Attempts, Die(a) PROVE TypeOK'
  BY <1>30 DEF Die, To, Mishap
<1>31. ASSUME NEW r \in Requests, Ask(r) PROVE TypeOK'
  BY <1>31 DEF Ask, FirstStep
<1>32. ASSUME NEW r \in Requests, Patch(r) PROVE TypeOK'
  <2>1. on[r] \in listed => Patched(entry[on[r]], op[r]) \in Entries
    BY <1>32, PatchedType DEF Patch, Asked
  <2>2. Reindex(on[r], Patched(entry[on[r]], op[r]))
    BY <1>32 DEF Patch
  <2>3. entry' \in [Attempts -> Entries]
    BY <2>1, <2>2, ReindexType
  <2> QED
    BY <1>32, <2>3 DEF Patch, Marking
<1>33. ASSUME NEW r \in Requests, MarkIndex(r) PROVE TypeOK'
  <2>1. on[r] \in listed => [entry[on[r]] EXCEPT !.unread = 0] \in Entries
    BY EntriesPatched
  <2>2. Reindex(on[r], [entry[on[r]] EXCEPT !.unread = 0])
    BY <1>33 DEF MarkIndex
  <2>3. entry' \in [Attempts -> Entries]
    BY <2>1, <2>2, ReindexType
  <2> QED
    BY <1>33, <2>3 DEF MarkIndex, Marking
<1>34. ASSUME NEW r \in Requests, MarkMail(r) PROVE TypeOK'
  BY <1>34 DEF MarkMail, Marking, Found, RowsOf
<1>35. ASSUME NEW r \in Requests, Unresolved(r) PROVE TypeOK'
  BY <1>35 DEF Unresolved, ReqTo
<1>36. ASSUME NEW r \in Requests, ReadKeys(r) PROVE TypeOK'
  BY <1>36 DEF ReadKeys, Found, RowsOf
<1>37. ASSUME NEW r \in Requests, DropThread(r) PROVE TypeOK'
  <2>1. CASE Cascade(on[r])
    BY <1>37, <2>1 DEF DropThread, ReqTo, Cascade
  <2>2. CASE UNCHANGED mail
    BY <1>37, <2>2 DEF DropThread, ReqTo
  <2> QED
    BY <1>37, <2>1, <2>2, Zenon DEF DropThread
<1>38. ASSUME NEW r \in Requests, DropIndex(r) PROVE TypeOK'
  <2>1. Blank \in Entries
    BY DEF Blank, Entries
  <2>2. tombs' \subseteq Tombs /\ clock' \in Nat
    BY <1>38, QueueType DEF DropIndex, Unlist
  <2> QED
    BY <1>38, <2>1, <2>2 DEF DropIndex, ReqTo, Unlist
<1>39. ASSUME NEW r \in Requests, RequestDies(r) PROVE TypeOK'
  BY <1>39 DEF RequestDies, ReqTo, Mishap
<1>40. CASE SweepStart
  <2>1. sweep' \in Sweeps
    BY <1>40 DEF SweepStart, Sweeps, Page
  <2> QED
    BY <1>40, <2>1 DEF SweepStart, Page
<1>41. ASSUME NEW k \in sweep.list, SweepBlob(k) PROVE TypeOK'
  <2>1. k \in Tombs
    BY <1>41 DEF Sweeps
  <2>2. sweep' \in Sweeps
    BY <1>41, <2>1 DEF SweepBlob, Sweeps
  <2> QED
    BY <1>41, <2>2 DEF SweepBlob
<1>42. ASSUME NEW k \in sweep.list, SweepBlobFails(k) PROVE TypeOK'
  <2>1. sweep' \in Sweeps
    BY <1>42 DEF SweepBlobFails, Sweeps
  <2>2. mishaps' \in 0 .. MaxMishaps
    BY <1>42 DEF SweepBlobFails, Mishap
  <2> QED
    BY <1>42, <2>1, <2>2 DEF SweepBlobFails
<1>43. CASE SweepClear
  <2>1. NoSweep \in Sweeps
    BY DEF NoSweep, Sweeps
  <2> QED
    BY <1>43, <2>1 DEF SweepClear
<1>44. CASE SweepDies
  <2>1. NoSweep \in Sweeps
    BY DEF NoSweep, Sweeps
  <2>2. mishaps' \in 0 .. MaxMishaps
    BY <1>44 DEF SweepDies, Mishap
  <2> QED
    BY <1>44, <2>1, <2>2 DEF SweepDies
<1>45. QED
  BY <1>1, <1>2, <1>3, <1>4, <1>5, <1>6, <1>7, <1>8, <1>9, <1>10, <1>11, <1>12, <1>13,
     <1>14, <1>15, <1>16, <1>17, <1>18, <1>19, <1>20, <1>21, <1>22, <1>23, <1>24, <1>25,
     <1>26, <1>27, <1>28, <1>29, <1>30, <1>31, <1>32, <1>33, <1>34, <1>35, <1>36, <1>37,
     <1>38, <1>39, <1>40, <1>41, <1>42, <1>43, <1>44
  DEF Next, Storing, Filtering, Serving, Sweeping

LEMMA ReadyNext ==
    TypeOK /\ Ready /\ Unwritten /\ [Next]_vars
    => Ready'
<1> SUFFICES ASSUME TypeOK, Ready, Unwritten, [Next]_vars
             PROVE  Ready'
  OBVIOUS
<1> USE NoIdAssumption, PrimaryAssumption
    DEF TypeOK, mail, index, r2, att, req, found, rule, Stored, RulePcs, Ready, Unwritten, BeforeInsert, Over
<1>1. CASE UNCHANGED vars
  BY <1>1 DEF vars
<1>2. ASSUME NEW a \in Attempts, FindParent(a) PROVE Ready'
  <2>1. ASSUME NEW p \in Attempts, Stored(p), Threaded(a, home[p], FALSE, AfterThread(a))
        PROVE  Ready'
    BY <1>2, <2>1 DEF FindParent, Threaded, AfterThread
  <2>2. CASE Threaded(a, a, TRUE, "put") /\ IsSent(a)
    BY <1>2, <2>2 DEF FindParent, Threaded
  <2>3. CASE To(a, "subject") /\ ~IsSent(a)
    BY <1>2, <2>3 DEF FindParent, To
  <2> QED
    BY <1>2, <2>1, <2>2, <2>3, Zenon DEF FindParent
<1>3. ASSUME NEW a \in Attempts, FindSubject(a) PROVE Ready'
  <2>1. ASSUME NEW t \in Attempts, threads[t] # NoId, Threaded(a, t, FALSE, "place")
        PROVE  Ready'
    BY <1>3, <2>1 DEF FindSubject, Threaded
  <2>2. CASE Threaded(a, a, TRUE, "place")
    BY <1>3, <2>2 DEF FindSubject, Threaded
  <2> QED
    BY <1>3, <2>1, <2>2, Zenon DEF FindSubject
<1>4. ASSUME NEW a \in Attempts, Insert(a) PROVE Ready'
  BY <1>4 DEF Insert, To, Insertable
<1>5. ASSUME NEW a \in Attempts, RuleDelete(a) PROVE Ready'
  BY <1>5 DEF RuleDelete
<1>6. ASSUME NEW a \in Attempts, RuleDropsRow(a) PROVE Ready'
  BY <1>6 DEF RuleDropsRow, To
<1>7. ASSUME NEW a \in Attempts, RuleCounts(a) PROVE Ready'
  BY <1>7 DEF RuleCounts, To
<1>8. ASSUME NEW a \in Attempts, RuleDropsThread(a) PROVE Ready'
  BY <1>8 DEF RuleDropsThread, To, Cascade, RowsOf
<1>9. ASSUME NEW a \in Attempts, RuleDropsIndex(a) PROVE Ready'
  BY <1>9 DEF RuleDropsIndex, To, Unlist, Queue, Blank
<1>10. ASSUME NEW a \in Attempts,
             \/ PlaceNew(a) \/ PlaceKnown(a) \/ PlaceThrows(a) \/ Screen(a)
             \/ CheckDuplicate(a) \/ Put(a)
      PROVE  Ready'
  BY <1>10
  DEF PlaceNew, Placed, Roomy, PlaceKnown, Resolved, PlaceThrows, To, Screen, Mishap,
      CheckDuplicate, Put
<1>11. ASSUME NEW a \in Attempts,
             \/ InsertThrows(a) \/ Register(a) \/ Upsert(a) \/ RegisterFails(a)
             \/ UpsertFails(a) \/ RuleNone(a)
      PROVE  Ready'
  BY <1>11
  DEF InsertThrows, To, Register, Upsert, AfterUpsert, RegisterFails, Mishap, UpsertFails,
      RuleNone
<1>12. ASSUME NEW a \in Attempts,
             \/ RuleRead(a) \/ RuleArchive(a) \/ RuleMarksIndex(a) \/ RuleMarksMail(a)
             \/ RuleReadsStats(a) \/ RuleWritesStats(a)
      PROVE  Ready'
  BY <1>12
  DEF RuleRead, Reading, RuleArchive, Reindex, RuleMarksIndex, RuleMarksMail, RowsOf,
      RuleReadsStats, RuleWritesStats, To, Queue
<1>13. ASSUME NEW a \in Attempts,
             RuleFails(a) \/ Push(a) \/ Die(a)
      PROVE  Ready'
  BY <1>13
  DEF RuleFails, To, Mishap, Push, Die
<1>14. ASSUME NEW r \in Requests, Ask(r) PROVE Ready'
  BY <1>14 DEF Ask, FirstStep
<1>15. ASSUME NEW r \in Requests, ReadKeys(r) PROVE Ready'
  BY <1>15 DEF ReadKeys, Found, RowsOf
<1>16. ASSUME NEW r \in Requests, DropThread(r) PROVE Ready'
  BY <1>16 DEF DropThread, ReqTo, Cascade, RowsOf
<1>17. ASSUME NEW r \in Requests, DropIndex(r) PROVE Ready'
  BY <1>17 DEF DropIndex, ReqTo, Unlist, Queue, Blank
<1>18. ASSUME NEW r \in Requests,
             Patch(r) \/ MarkIndex(r) \/ MarkMail(r) \/ Unresolved(r) \/ RequestDies(r)
      PROVE  Ready'
  BY <1>18
  DEF Patch, Reindex, Marking, MarkIndex, MarkMail, Found, RowsOf, Unresolved, ReqTo,
      RequestDies, Mishap
<1>19. ASSUME NEW k \in sweep.list, SweepBlob(k) PROVE Ready'
  BY <1>19 DEF SweepBlob
<1>20. ASSUME NEW k \in sweep.list, SweepBlobFails(k) PROVE Ready'
  BY <1>20 DEF SweepBlobFails, Mishap
<1>21. CASE SweepClear
  BY <1>21 DEF SweepClear, NoSweep
<1>22. CASE SweepDies
  BY <1>22 DEF SweepDies, Mishap, NoSweep
<1>23. CASE SweepStart
  BY <1>23 DEF SweepStart, Page
<1>24. QED
  BY <1>1, <1>2, <1>3, <1>4, <1>5, <1>6, <1>7, <1>8, <1>9, <1>10, <1>11, <1>12, <1>13,
     <1>14, <1>15, <1>16, <1>17, <1>18, <1>19, <1>20, <1>21, <1>22, <1>23
  DEF Next, Storing, Filtering, Serving, Sweeping

LEMMA AskedNext ==
    TypeOK /\ Asked /\ [Next]_vars
    => Asked'
<1> SUFFICES ASSUME TypeOK, Asked, [Next]_vars
             PROVE  Asked'
  OBVIOUS
<1> USE NoIdAssumption, PrimaryAssumption
    DEF TypeOK, Asked, mail, index, r2, att, req, found, rule
<1>1. CASE UNCHANGED vars
  BY <1>1 DEF vars
<1>2. ASSUME NEW a \in Attempts, Insert(a) PROVE Asked'
  BY <1>2 DEF Insert, To, Insertable
<1>3. ASSUME NEW a \in Attempts, RuleDelete(a) PROVE Asked'
  BY <1>3 DEF RuleDelete
<1>4. ASSUME NEW a \in Attempts, RuleDropsRow(a) PROVE Asked'
  BY <1>4 DEF RuleDropsRow, To
<1>5. ASSUME NEW a \in Attempts, RuleCounts(a) PROVE Asked'
  BY <1>5 DEF RuleCounts, To
<1>6. ASSUME NEW a \in Attempts, RuleDropsThread(a) PROVE Asked'
  BY <1>6 DEF RuleDropsThread, To, Cascade, RowsOf
<1>7. ASSUME NEW a \in Attempts, RuleDropsIndex(a) PROVE Asked'
  BY <1>7 DEF RuleDropsIndex, To, Unlist, Queue, Blank
<1>8. ASSUME NEW a \in Attempts,
             \/ FindParent(a) \/ FindSubject(a) \/ PlaceNew(a) \/ PlaceKnown(a)
             \/ PlaceThrows(a) \/ Screen(a)
      PROVE  Asked'
  BY <1>8
  DEF FindParent, Threaded, AfterThread, FindSubject, PlaceNew, Placed, Roomy, PlaceKnown,
      Resolved, PlaceThrows, To, Screen, Mishap
<1>9. ASSUME NEW a \in Attempts,
             \/ CheckDuplicate(a) \/ Put(a) \/ InsertThrows(a) \/ Register(a) \/ Upsert(a)
             \/ RegisterFails(a)
      PROVE  Asked'
  BY <1>9
  DEF CheckDuplicate, To, Put, InsertThrows, Register, Upsert, AfterUpsert, RegisterFails,
      Mishap
<1>10. ASSUME NEW a \in Attempts,
             \/ UpsertFails(a) \/ RuleNone(a) \/ RuleRead(a) \/ RuleArchive(a)
             \/ RuleMarksIndex(a) \/ RuleMarksMail(a)
      PROVE  Asked'
  BY <1>10
  DEF UpsertFails, To, Mishap, AfterUpsert, RuleNone, RuleRead, Reading, RuleArchive,
      Reindex, RuleMarksIndex, RuleMarksMail, RowsOf
<1>11. ASSUME NEW a \in Attempts,
             \/ RuleReadsStats(a) \/ RuleWritesStats(a) \/ RuleFails(a) \/ Push(a)
             \/ Die(a)
      PROVE  Asked'
  BY <1>11
  DEF RuleReadsStats, RuleWritesStats, Queue, To, Reindex, RuleFails, Mishap, Push, Die
<1>12. ASSUME NEW r \in Requests, Ask(r) PROVE Asked'
  BY <1>12 DEF Ask, FirstStep
<1>13. ASSUME NEW r \in Requests, ReadKeys(r) PROVE Asked'
  BY <1>13 DEF ReadKeys, Found, RowsOf
<1>14. ASSUME NEW r \in Requests, DropThread(r) PROVE Asked'
  BY <1>14 DEF DropThread, ReqTo, Cascade, RowsOf
<1>15. ASSUME NEW r \in Requests, DropIndex(r) PROVE Asked'
  BY <1>15 DEF DropIndex, ReqTo, Unlist, Queue, Blank
<1>16. ASSUME NEW r \in Requests,
             Patch(r) \/ MarkIndex(r) \/ MarkMail(r) \/ Unresolved(r) \/ RequestDies(r)
      PROVE  Asked'
  BY <1>16
  DEF Patch, Reindex, Marking, MarkIndex, MarkMail, Found, RowsOf, Unresolved, ReqTo,
      RequestDies, Mishap
<1>17. ASSUME NEW k \in sweep.list, SweepBlob(k) PROVE Asked'
  BY <1>17 DEF SweepBlob
<1>18. ASSUME NEW k \in sweep.list, SweepBlobFails(k) PROVE Asked'
  BY <1>18 DEF SweepBlobFails, Mishap
<1>19. CASE SweepClear
  BY <1>19 DEF SweepClear, NoSweep
<1>20. CASE SweepDies
  BY <1>20 DEF SweepDies, Mishap, NoSweep
<1>21. CASE SweepStart
  BY <1>21 DEF SweepStart, Page
<1>22. QED
  BY <1>1, <1>2, <1>3, <1>4, <1>5, <1>6, <1>7, <1>8, <1>9, <1>10, <1>11, <1>12, <1>13,
     <1>14, <1>15, <1>16, <1>17, <1>18, <1>19, <1>20, <1>21
  DEF Next, Storing, Filtering, Serving, Sweeping

LEMMA UnwrittenNext ==
    TypeOK /\ Ready /\ Asked /\ Unwritten /\ Rooted /\ [Next]_vars
    => Unwritten'
<1> SUFFICES ASSUME TypeOK, Ready, Asked, Unwritten, Rooted, [Next]_vars
             PROVE  Unwritten'
  OBVIOUS
<1> USE NoIdAssumption, PrimaryAssumption
    DEF TypeOK, mail, index, r2, att, req, found, rule, Stored, RulePcs, Ready, Asked, Unwritten, Rooted, BeforeInsert, Over
<1>1. CASE UNCHANGED vars
  BY <1>1 DEF vars
<1>2. ASSUME NEW a \in Attempts, FindParent(a) PROVE Unwritten'
  <2>1. ASSUME NEW p \in Attempts, Stored(p), Threaded(a, home[p], FALSE, AfterThread(a))
        PROVE  Unwritten'
    BY <1>2, <2>1 DEF FindParent, Threaded, AfterThread
  <2>2. CASE Threaded(a, a, TRUE, "put") /\ IsSent(a)
    BY <1>2, <2>2 DEF FindParent, Threaded
  <2>3. CASE To(a, "subject") /\ ~IsSent(a)
    BY <1>2, <2>3 DEF FindParent, To
  <2> QED
    BY <1>2, <2>1, <2>2, <2>3, Zenon DEF FindParent
<1>3. ASSUME NEW a \in Attempts, FindSubject(a) PROVE Unwritten'
  <2>1. ASSUME NEW t \in Attempts, threads[t] # NoId, Threaded(a, t, FALSE, "place")
        PROVE  Unwritten'
    BY <1>3, <2>1 DEF FindSubject, Threaded
  <2>2. CASE Threaded(a, a, TRUE, "place")
    BY <1>3, <2>2 DEF FindSubject, Threaded
  <2> QED
    BY <1>3, <2>1, <2>2, Zenon DEF FindSubject
<1>4. ASSUME NEW a \in Attempts, Insert(a) PROVE Unwritten'
  BY <1>4 DEF Insert, To, Insertable
<1>5. ASSUME NEW a \in Attempts, RuleDelete(a) PROVE Unwritten'
  BY <1>5 DEF RuleDelete
<1>6. ASSUME NEW a \in Attempts, RuleDropsRow(a) PROVE Unwritten'
  BY <1>6 DEF RuleDropsRow, To
<1>7. ASSUME NEW a \in Attempts, RuleCounts(a) PROVE Unwritten'
  BY <1>7 DEF RuleCounts, To
<1>8. ASSUME NEW a \in Attempts, RuleDropsThread(a) PROVE Unwritten'
  BY <1>8 DEF RuleDropsThread, To, Cascade, RowsOf
<1>9. ASSUME NEW a \in Attempts, RuleDropsIndex(a) PROVE Unwritten'
  BY <1>9 DEF RuleDropsIndex, To, Unlist, Queue, Blank
<1>10. ASSUME NEW a \in Attempts,
             \/ PlaceNew(a) \/ PlaceKnown(a) \/ PlaceThrows(a) \/ Screen(a)
             \/ CheckDuplicate(a) \/ Put(a)
      PROVE  Unwritten'
  BY <1>10
  DEF PlaceNew, Placed, Roomy, PlaceKnown, Resolved, PlaceThrows, To, Screen, Mishap,
      CheckDuplicate, Put
<1>11. ASSUME NEW a \in Attempts,
             \/ InsertThrows(a) \/ Register(a) \/ Upsert(a) \/ RegisterFails(a)
             \/ UpsertFails(a) \/ RuleNone(a)
      PROVE  Unwritten'
  BY <1>11
  DEF InsertThrows, To, Register, Upsert, AfterUpsert, RegisterFails, Mishap, UpsertFails,
      RuleNone
<1>12. ASSUME NEW a \in Attempts,
             \/ RuleRead(a) \/ RuleArchive(a) \/ RuleMarksIndex(a) \/ RuleMarksMail(a)
             \/ RuleReadsStats(a) \/ RuleWritesStats(a)
      PROVE  Unwritten'
  BY <1>12
  DEF RuleRead, Reading, RuleArchive, Reindex, RuleMarksIndex, RuleMarksMail, RowsOf,
      RuleReadsStats, RuleWritesStats, To, Queue
<1>13. ASSUME NEW a \in Attempts,
             RuleFails(a) \/ Push(a) \/ Die(a)
      PROVE  Unwritten'
  BY <1>13
  DEF RuleFails, To, Mishap, Push, Die
<1>14. ASSUME NEW r \in Requests, Ask(r) PROVE Unwritten'
  BY <1>14 DEF Ask, FirstStep
<1>15. ASSUME NEW r \in Requests, ReadKeys(r) PROVE Unwritten'
  BY <1>15 DEF ReadKeys, Found, RowsOf
<1>16. ASSUME NEW r \in Requests, DropThread(r) PROVE Unwritten'
  BY <1>16 DEF DropThread, ReqTo, Cascade, RowsOf
<1>17. ASSUME NEW r \in Requests, DropIndex(r) PROVE Unwritten'
  BY <1>17 DEF DropIndex, ReqTo, Unlist, Queue, Blank
<1>18. ASSUME NEW r \in Requests,
             Patch(r) \/ MarkIndex(r) \/ MarkMail(r) \/ Unresolved(r) \/ RequestDies(r)
      PROVE  Unwritten'
  BY <1>18
  DEF Patch, Reindex, Marking, MarkIndex, MarkMail, Found, RowsOf, Unresolved, ReqTo,
      RequestDies, Mishap
<1>19. ASSUME NEW k \in sweep.list, SweepBlob(k) PROVE Unwritten'
  BY <1>19 DEF SweepBlob
<1>20. ASSUME NEW k \in sweep.list, SweepBlobFails(k) PROVE Unwritten'
  BY <1>20 DEF SweepBlobFails, Mishap
<1>21. CASE SweepClear
  BY <1>21 DEF SweepClear, NoSweep
<1>22. CASE SweepDies
  BY <1>22 DEF SweepDies, Mishap, NoSweep
<1>23. CASE SweepStart
  BY <1>23 DEF SweepStart, Page
<1>24. QED
  BY <1>1, <1>2, <1>3, <1>4, <1>5, <1>6, <1>7, <1>8, <1>9, <1>10, <1>11, <1>12, <1>13,
     <1>14, <1>15, <1>16, <1>17, <1>18, <1>19, <1>20, <1>21, <1>22, <1>23
  DEF Next, Storing, Filtering, Serving, Sweeping

LEMMA RootedNext ==
    TypeOK /\ Ready /\ Unwritten /\ Rooted /\ Unregistered /\ [Next]_vars
    => Rooted'
<1> SUFFICES ASSUME TypeOK, Ready, Unwritten, Rooted, Unregistered, [Next]_vars
             PROVE  Rooted'
  OBVIOUS
<1> USE NoIdAssumption, PrimaryAssumption
    DEF TypeOK, mail, index, r2, att, req, found, rule, Stored, RulePcs, Ready, Unwritten, Rooted, Unregistered, BeforeInsert, Over
<1>1. CASE UNCHANGED vars
  BY <1>1 DEF vars
<1>2. ASSUME NEW a \in Attempts, FindParent(a) PROVE Rooted'
  <2>1. ASSUME NEW p \in Attempts, Stored(p), Threaded(a, home[p], FALSE, AfterThread(a))
        PROVE  Rooted'
    BY <1>2, <2>1 DEF FindParent, Threaded, AfterThread
  <2>2. CASE Threaded(a, a, TRUE, "put") /\ IsSent(a)
    BY <1>2, <2>2 DEF FindParent, Threaded
  <2>3. CASE To(a, "subject") /\ ~IsSent(a)
    BY <1>2, <2>3 DEF FindParent, To
  <2> QED
    BY <1>2, <2>1, <2>2, <2>3, Zenon DEF FindParent
<1>3. ASSUME NEW a \in Attempts, FindSubject(a) PROVE Rooted'
  <2>1. ASSUME NEW t \in Attempts, threads[t] # NoId, Threaded(a, t, FALSE, "place")
        PROVE  Rooted'
    BY <1>3, <2>1 DEF FindSubject, Threaded
  <2>2. CASE Threaded(a, a, TRUE, "place")
    BY <1>3, <2>2 DEF FindSubject, Threaded
  <2> QED
    BY <1>3, <2>1, <2>2, Zenon DEF FindSubject
<1>4. ASSUME NEW a \in Attempts, PlaceNew(a) PROVE Rooted'
  BY <1>4 DEF PlaceNew, Placed, Roomy
<1>5. ASSUME NEW a \in Attempts, PlaceKnown(a) PROVE Rooted'
  BY <1>5 DEF PlaceKnown, Placed, Resolved
<1>6. ASSUME NEW a \in Attempts, PlaceThrows(a) PROVE Rooted'
  BY <1>6 DEF PlaceThrows, To
<1>7. ASSUME NEW a \in Attempts, Screen(a) PROVE Rooted'
  BY <1>7 DEF Screen, Mishap
<1>8. ASSUME NEW a \in Attempts, CheckDuplicate(a) PROVE Rooted'
  BY <1>8 DEF CheckDuplicate, To
<1>9. ASSUME NEW a \in Attempts, Put(a) PROVE Rooted'
  BY <1>9 DEF Put, To
<1>10. ASSUME NEW a \in Attempts, Insert(a) PROVE Rooted'
  BY <1>10 DEF Insert, To, Insertable
<1>11. ASSUME NEW a \in Attempts, InsertThrows(a) PROVE Rooted'
  BY <1>11 DEF InsertThrows, To
<1>12. ASSUME NEW a \in Attempts, Register(a) PROVE Rooted'
  BY <1>12 DEF Register, To
<1>13. ASSUME NEW a \in Attempts, Upsert(a) PROVE Rooted'
  BY <1>13 DEF Upsert, To, AfterUpsert
<1>14. ASSUME NEW a \in Attempts, RegisterFails(a) PROVE Rooted'
  BY <1>14 DEF RegisterFails, To, Mishap
<1>15. ASSUME NEW a \in Attempts, UpsertFails(a) PROVE Rooted'
  BY <1>15 DEF UpsertFails, To, Mishap, AfterUpsert
<1>16. ASSUME NEW a \in Attempts, RuleNone(a) PROVE Rooted'
  BY <1>16 DEF RuleNone, To
<1>17. ASSUME NEW a \in Attempts, RuleRead(a) PROVE Rooted'
  BY <1>17 DEF RuleRead, Reading
<1>18. ASSUME NEW a \in Attempts, RuleArchive(a) PROVE Rooted'
  BY <1>18 DEF RuleArchive, Reading, Reindex
<1>19. ASSUME NEW a \in Attempts, RuleMarksIndex(a) PROVE Rooted'
  BY <1>19 DEF RuleMarksIndex, Reading, Reindex
<1>20. ASSUME NEW a \in Attempts, RuleMarksMail(a) PROVE Rooted'
  BY <1>20 DEF RuleMarksMail, Reading, RowsOf
<1>21. ASSUME NEW a \in Attempts, RuleDelete(a) PROVE Rooted'
  BY <1>21 DEF RuleDelete
<1>22. ASSUME NEW a \in Attempts, RuleDropsRow(a) PROVE Rooted'
  BY <1>22 DEF RuleDropsRow, To
<1>23. ASSUME NEW a \in Attempts, RuleCounts(a) PROVE Rooted'
  BY <1>23 DEF RuleCounts, To
<1>24. ASSUME NEW a \in Attempts, RuleDropsThread(a) PROVE Rooted'
  BY <1>24 DEF RuleDropsThread, To, Cascade, RowsOf
<1>25. ASSUME NEW a \in Attempts, RuleDropsIndex(a) PROVE Rooted'
  BY <1>25 DEF RuleDropsIndex, To, Unlist, Queue, Blank
<1>26. ASSUME NEW a \in Attempts, RuleReadsStats(a) PROVE Rooted'
  BY <1>26 DEF RuleReadsStats
<1>27. ASSUME NEW a \in Attempts, RuleWritesStats(a) PROVE Rooted'
  BY <1>27 DEF RuleWritesStats, Queue, To, Reindex
<1>28. ASSUME NEW a \in Attempts, RuleFails(a) PROVE Rooted'
  BY <1>28 DEF RuleFails, To, Mishap
<1>29. ASSUME NEW a \in Attempts, Push(a) PROVE Rooted'
  BY <1>29 DEF Push, To
<1>30. ASSUME NEW a \in Attempts, Die(a) PROVE Rooted'
  BY <1>30 DEF Die, To, Mishap
<1>31. ASSUME NEW r \in Requests, Ask(r) PROVE Rooted'
  BY <1>31 DEF Ask, FirstStep
<1>32. ASSUME NEW r \in Requests, Patch(r) PROVE Rooted'
  BY <1>32 DEF Patch, Reindex, Marking
<1>33. ASSUME NEW r \in Requests, MarkIndex(r) PROVE Rooted'
  BY <1>33 DEF MarkIndex, Marking, Reindex
<1>34. ASSUME NEW r \in Requests, MarkMail(r) PROVE Rooted'
  BY <1>34 DEF MarkMail, Marking, Found, RowsOf
<1>35. ASSUME NEW r \in Requests, Unresolved(r) PROVE Rooted'
  BY <1>35 DEF Unresolved, ReqTo
<1>36. ASSUME NEW r \in Requests, ReadKeys(r) PROVE Rooted'
  BY <1>36 DEF ReadKeys, Found, RowsOf
<1>37. ASSUME NEW r \in Requests, DropThread(r) PROVE Rooted'
  BY <1>37 DEF DropThread, ReqTo, Cascade, RowsOf
<1>38. ASSUME NEW r \in Requests, DropIndex(r) PROVE Rooted'
  BY <1>38 DEF DropIndex, ReqTo, Unlist, Queue, Blank
<1>39. ASSUME NEW r \in Requests, RequestDies(r) PROVE Rooted'
  BY <1>39 DEF RequestDies, ReqTo, Mishap
<1>40. CASE SweepStart
  BY <1>40 DEF SweepStart, Page
<1>41. ASSUME NEW k \in sweep.list, SweepBlob(k) PROVE Rooted'
  BY <1>41 DEF SweepBlob
<1>42. ASSUME NEW k \in sweep.list, SweepBlobFails(k) PROVE Rooted'
  BY <1>42 DEF SweepBlobFails, Mishap
<1>43. CASE SweepClear
  BY <1>43 DEF SweepClear, NoSweep
<1>44. CASE SweepDies
  BY <1>44 DEF SweepDies, Mishap, NoSweep
<1>45. QED
  BY <1>1, <1>2, <1>3, <1>4, <1>5, <1>6, <1>7, <1>8, <1>9, <1>10, <1>11, <1>12, <1>13,
     <1>14, <1>15, <1>16, <1>17, <1>18, <1>19, <1>20, <1>21, <1>22, <1>23, <1>24, <1>25,
     <1>26, <1>27, <1>28, <1>29, <1>30, <1>31, <1>32, <1>33, <1>34, <1>35, <1>36, <1>37,
     <1>38, <1>39, <1>40, <1>41, <1>42, <1>43, <1>44
  DEF Next, Storing, Filtering, Serving, Sweeping

LEMMA UnregisteredNext ==
    TypeOK /\ Ready /\ Asked /\ Unwritten /\ Rooted /\ Unregistered /\ [Next]_vars
    => Unregistered'
<1> SUFFICES ASSUME TypeOK, Ready, Asked, Unwritten, Rooted, Unregistered, [Next]_vars
             PROVE  Unregistered'
  OBVIOUS
<1> USE NoIdAssumption, PrimaryAssumption
    DEF TypeOK, mail, index, r2, att, req, found, rule, Stored, RulePcs, Ready, Asked, Unwritten, Rooted, Unregistered, BeforeInsert, Over
<1>1. CASE UNCHANGED vars
  BY <1>1 DEF vars
<1>2. ASSUME NEW a \in Attempts, FindParent(a) PROVE Unregistered'
  <2>1. ASSUME NEW p \in Attempts, Stored(p), Threaded(a, home[p], FALSE, AfterThread(a))
        PROVE  Unregistered'
    BY <1>2, <2>1 DEF FindParent, Threaded, AfterThread
  <2>2. CASE Threaded(a, a, TRUE, "put") /\ IsSent(a)
    BY <1>2, <2>2 DEF FindParent, Threaded
  <2>3. CASE To(a, "subject") /\ ~IsSent(a)
    BY <1>2, <2>3 DEF FindParent, To
  <2> QED
    BY <1>2, <2>1, <2>2, <2>3, Zenon DEF FindParent
<1>3. ASSUME NEW a \in Attempts, FindSubject(a) PROVE Unregistered'
  <2>1. ASSUME NEW t \in Attempts, threads[t] # NoId, Threaded(a, t, FALSE, "place")
        PROVE  Unregistered'
    BY <1>3, <2>1 DEF FindSubject, Threaded
  <2>2. CASE Threaded(a, a, TRUE, "place")
    BY <1>3, <2>2 DEF FindSubject, Threaded
  <2> QED
    BY <1>3, <2>1, <2>2, Zenon DEF FindSubject
<1>4. ASSUME NEW a \in Attempts, PlaceNew(a) PROVE Unregistered'
  BY <1>4 DEF PlaceNew, Placed, Roomy
<1>5. ASSUME NEW a \in Attempts, PlaceKnown(a) PROVE Unregistered'
  BY <1>5 DEF PlaceKnown, Placed, Resolved
<1>6. ASSUME NEW a \in Attempts, PlaceThrows(a) PROVE Unregistered'
  BY <1>6 DEF PlaceThrows, To
<1>7. ASSUME NEW a \in Attempts, Screen(a) PROVE Unregistered'
  BY <1>7 DEF Screen, Mishap
<1>8. ASSUME NEW a \in Attempts, CheckDuplicate(a) PROVE Unregistered'
  BY <1>8 DEF CheckDuplicate, To
<1>9. ASSUME NEW a \in Attempts, Put(a) PROVE Unregistered'
  BY <1>9 DEF Put, To
<1>10. ASSUME NEW a \in Attempts, Insert(a) PROVE Unregistered'
  BY <1>10 DEF Insert, To, Insertable
<1>11. ASSUME NEW a \in Attempts, InsertThrows(a) PROVE Unregistered'
  BY <1>11 DEF InsertThrows, To
<1>12. ASSUME NEW a \in Attempts, Register(a) PROVE Unregistered'
  BY <1>12 DEF Register, To
<1>13. ASSUME NEW a \in Attempts, Upsert(a) PROVE Unregistered'
  BY <1>13 DEF Upsert, To, AfterUpsert
<1>14. ASSUME NEW a \in Attempts, RegisterFails(a) PROVE Unregistered'
  BY <1>14 DEF RegisterFails, To, Mishap
<1>15. ASSUME NEW a \in Attempts, UpsertFails(a) PROVE Unregistered'
  BY <1>15 DEF UpsertFails, To, Mishap, AfterUpsert
<1>16. ASSUME NEW a \in Attempts, RuleNone(a) PROVE Unregistered'
  BY <1>16 DEF RuleNone, To
<1>17. ASSUME NEW a \in Attempts, RuleRead(a) PROVE Unregistered'
  BY <1>17 DEF RuleRead, Reading
<1>18. ASSUME NEW a \in Attempts, RuleArchive(a) PROVE Unregistered'
  BY <1>18 DEF RuleArchive, Reading, Reindex
<1>19. ASSUME NEW a \in Attempts, RuleMarksIndex(a) PROVE Unregistered'
  BY <1>19 DEF RuleMarksIndex, Reading, Reindex
<1>20. ASSUME NEW a \in Attempts, RuleMarksMail(a) PROVE Unregistered'
  BY <1>20 DEF RuleMarksMail, Reading, RowsOf
<1>21. ASSUME NEW a \in Attempts, RuleDelete(a) PROVE Unregistered'
  BY <1>21 DEF RuleDelete
<1>22. ASSUME NEW a \in Attempts, RuleDropsRow(a) PROVE Unregistered'
  BY <1>22 DEF RuleDropsRow, To
<1>23. ASSUME NEW a \in Attempts, RuleCounts(a) PROVE Unregistered'
  BY <1>23 DEF RuleCounts, To
<1>24. ASSUME NEW a \in Attempts, RuleDropsThread(a) PROVE Unregistered'
  BY <1>24 DEF RuleDropsThread, To, Cascade, RowsOf
<1>25. ASSUME NEW a \in Attempts, RuleDropsIndex(a) PROVE Unregistered'
  BY <1>25 DEF RuleDropsIndex, To, Unlist, Queue, Blank
<1>26. ASSUME NEW a \in Attempts, RuleReadsStats(a) PROVE Unregistered'
  BY <1>26 DEF RuleReadsStats
<1>27. ASSUME NEW a \in Attempts, RuleWritesStats(a) PROVE Unregistered'
  BY <1>27 DEF RuleWritesStats, Queue, To, Reindex
<1>28. ASSUME NEW a \in Attempts, RuleFails(a) PROVE Unregistered'
  BY <1>28 DEF RuleFails, To, Mishap
<1>29. ASSUME NEW a \in Attempts, Push(a) PROVE Unregistered'
  BY <1>29 DEF Push, To
<1>30. ASSUME NEW a \in Attempts, Die(a) PROVE Unregistered'
  BY <1>30 DEF Die, To, Mishap
<1>31. ASSUME NEW r \in Requests, Ask(r) PROVE Unregistered'
  BY <1>31 DEF Ask, FirstStep
<1>32. ASSUME NEW r \in Requests, Patch(r) PROVE Unregistered'
  BY <1>32 DEF Patch, Reindex, Marking
<1>33. ASSUME NEW r \in Requests, MarkIndex(r) PROVE Unregistered'
  BY <1>33 DEF MarkIndex, Marking, Reindex
<1>34. ASSUME NEW r \in Requests, MarkMail(r) PROVE Unregistered'
  BY <1>34 DEF MarkMail, Marking, Found, RowsOf
<1>35. ASSUME NEW r \in Requests, Unresolved(r) PROVE Unregistered'
  BY <1>35 DEF Unresolved, ReqTo
<1>36. ASSUME NEW r \in Requests, ReadKeys(r) PROVE Unregistered'
  BY <1>36 DEF ReadKeys, Found, RowsOf
<1>37. ASSUME NEW r \in Requests, DropThread(r) PROVE Unregistered'
  BY <1>37 DEF DropThread, ReqTo, Cascade, RowsOf
<1>38. ASSUME NEW r \in Requests, DropIndex(r) PROVE Unregistered'
  BY <1>38 DEF DropIndex, ReqTo, Unlist, Queue, Blank
<1>39. ASSUME NEW r \in Requests, RequestDies(r) PROVE Unregistered'
  BY <1>39 DEF RequestDies, ReqTo, Mishap
<1>40. CASE SweepStart
  BY <1>40 DEF SweepStart, Page
<1>41. ASSUME NEW k \in sweep.list, SweepBlob(k) PROVE Unregistered'
  BY <1>41 DEF SweepBlob
<1>42. ASSUME NEW k \in sweep.list, SweepBlobFails(k) PROVE Unregistered'
  BY <1>42 DEF SweepBlobFails, Mishap
<1>43. CASE SweepClear
  BY <1>43 DEF SweepClear, NoSweep
<1>44. CASE SweepDies
  BY <1>44 DEF SweepDies, Mishap, NoSweep
<1>45. QED
  BY <1>1, <1>2, <1>3, <1>4, <1>5, <1>6, <1>7, <1>8, <1>9, <1>10, <1>11, <1>12, <1>13,
     <1>14, <1>15, <1>16, <1>17, <1>18, <1>19, <1>20, <1>21, <1>22, <1>23, <1>24, <1>25,
     <1>26, <1>27, <1>28, <1>29, <1>30, <1>31, <1>32, <1>33, <1>34, <1>35, <1>36, <1>37,
     <1>38, <1>39, <1>40, <1>41, <1>42, <1>43, <1>44
  DEF Next, Storing, Filtering, Serving, Sweeping

LEMMA DeletingNext ==
    TypeOK /\ Ready /\ Asked /\ Unwritten /\ Rooted /\ Unregistered /\ Deleting /\ [Next]_vars
    => Deleting'
<1> SUFFICES ASSUME TypeOK, Ready, Asked, Unwritten, Rooted, Unregistered, Deleting, [Next]_vars
             PROVE  Deleting'
  OBVIOUS
<1> USE NoIdAssumption, PrimaryAssumption
    DEF TypeOK, mail, index, r2, att, req, found, rule, Stored, RulePcs, Ready, Asked, Unwritten, Rooted, Unregistered, Deleting, Resolved, BeforeInsert, Over
<1>1. CASE UNCHANGED vars
  BY <1>1 DEF vars
<1>2. ASSUME NEW a \in Attempts, FindParent(a) PROVE Deleting'
  <2>1. ASSUME NEW p \in Attempts, Stored(p), Threaded(a, home[p], FALSE, AfterThread(a))
        PROVE  Deleting'
    BY <1>2, <2>1 DEF FindParent, Threaded, AfterThread
  <2>2. CASE Threaded(a, a, TRUE, "put") /\ IsSent(a)
    BY <1>2, <2>2 DEF FindParent, Threaded
  <2>3. CASE To(a, "subject") /\ ~IsSent(a)
    BY <1>2, <2>3 DEF FindParent, To
  <2> QED
    BY <1>2, <2>1, <2>2, <2>3, Zenon DEF FindParent
<1>3. ASSUME NEW a \in Attempts, FindSubject(a) PROVE Deleting'
  <2>1. ASSUME NEW t \in Attempts, threads[t] # NoId, Threaded(a, t, FALSE, "place")
        PROVE  Deleting'
    BY <1>3, <2>1 DEF FindSubject, Threaded
  <2>2. CASE Threaded(a, a, TRUE, "place")
    BY <1>3, <2>2 DEF FindSubject, Threaded
  <2> QED
    BY <1>3, <2>1, <2>2, Zenon DEF FindSubject
<1>4. ASSUME NEW a \in Attempts, Insert(a) PROVE Deleting'
  BY <1>4 DEF Insert, To, Insertable
<1>5. ASSUME NEW a \in Attempts, RuleDelete(a) PROVE Deleting'
  BY <1>5 DEF RuleDelete
<1>6. ASSUME NEW a \in Attempts, RuleDropsRow(a) PROVE Deleting'
  BY <1>6 DEF RuleDropsRow, To
<1>7. ASSUME NEW a \in Attempts, RuleCounts(a) PROVE Deleting'
  BY <1>7 DEF RuleCounts, To
<1>8. ASSUME NEW a \in Attempts, RuleDropsThread(a) PROVE Deleting'
  BY <1>8 DEF RuleDropsThread, To, Cascade, RowsOf
<1>9. ASSUME NEW a \in Attempts, RuleDropsIndex(a) PROVE Deleting'
  BY <1>9 DEF RuleDropsIndex, To, Unlist, Queue, Blank
<1>10. ASSUME NEW a \in Attempts,
             \/ PlaceNew(a) \/ PlaceKnown(a) \/ PlaceThrows(a) \/ Screen(a)
             \/ CheckDuplicate(a) \/ Put(a)
      PROVE  Deleting'
  BY <1>10
  DEF PlaceNew, Placed, Roomy, PlaceKnown, Resolved, PlaceThrows, To, Screen, Mishap,
      CheckDuplicate, Put
<1>11. ASSUME NEW a \in Attempts,
             \/ InsertThrows(a) \/ Register(a) \/ Upsert(a) \/ RegisterFails(a)
             \/ UpsertFails(a) \/ RuleNone(a)
      PROVE  Deleting'
  BY <1>11
  DEF InsertThrows, To, Register, Upsert, AfterUpsert, RegisterFails, Mishap, UpsertFails,
      RuleNone
<1>12. ASSUME NEW a \in Attempts,
             \/ RuleRead(a) \/ RuleArchive(a) \/ RuleMarksIndex(a) \/ RuleMarksMail(a)
             \/ RuleReadsStats(a) \/ RuleWritesStats(a)
      PROVE  Deleting'
  BY <1>12
  DEF RuleRead, Reading, RuleArchive, Reindex, RuleMarksIndex, RuleMarksMail, RowsOf,
      RuleReadsStats, RuleWritesStats, To, Queue
<1>13. ASSUME NEW a \in Attempts,
             RuleFails(a) \/ Push(a) \/ Die(a)
      PROVE  Deleting'
  BY <1>13
  DEF RuleFails, To, Mishap, Push, Die
<1>14. ASSUME NEW r \in Requests, Ask(r) PROVE Deleting'
  BY <1>14 DEF Ask, FirstStep
<1>15. ASSUME NEW r \in Requests, ReadKeys(r) PROVE Deleting'
  BY <1>15 DEF ReadKeys, Found, RowsOf
<1>16. ASSUME NEW r \in Requests, DropThread(r) PROVE Deleting'
  BY <1>16 DEF DropThread, ReqTo, Cascade, RowsOf
<1>17. ASSUME NEW r \in Requests, DropIndex(r) PROVE Deleting'
  BY <1>17 DEF DropIndex, ReqTo, Unlist, Queue, Blank
<1>18. ASSUME NEW r \in Requests,
             Patch(r) \/ MarkIndex(r) \/ MarkMail(r) \/ Unresolved(r) \/ RequestDies(r)
      PROVE  Deleting'
  BY <1>18
  DEF Patch, Reindex, Marking, MarkIndex, MarkMail, Found, RowsOf, Unresolved, ReqTo,
      RequestDies, Mishap
<1>19. ASSUME NEW k \in sweep.list, SweepBlob(k) PROVE Deleting'
  BY <1>19 DEF SweepBlob
<1>20. ASSUME NEW k \in sweep.list, SweepBlobFails(k) PROVE Deleting'
  BY <1>20 DEF SweepBlobFails, Mishap
<1>21. CASE SweepClear
  BY <1>21 DEF SweepClear, NoSweep
<1>22. CASE SweepDies
  BY <1>22 DEF SweepDies, Mishap, NoSweep
<1>23. CASE SweepStart
  BY <1>23 DEF SweepStart, Page
<1>24. QED
  BY <1>1, <1>2, <1>3, <1>4, <1>5, <1>6, <1>7, <1>8, <1>9, <1>10, <1>11, <1>12, <1>13,
     <1>14, <1>15, <1>16, <1>17, <1>18, <1>19, <1>20, <1>21, <1>22, <1>23
  DEF Next, Storing, Filtering, Serving, Sweeping

LEMMA StoredHasBlobsNext ==
    TypeOK /\ Ready /\ Unwritten /\ Rooted /\ Deleting /\ StoredHasBlobs /\ [Next]_vars
    => StoredHasBlobs'
<1> SUFFICES ASSUME TypeOK, Ready, Unwritten, Rooted, Deleting, StoredHasBlobs, [Next]_vars
             PROVE  StoredHasBlobs'
  OBVIOUS
<1> USE NoIdAssumption, PrimaryAssumption
    DEF TypeOK, mail, index, r2, att, req, found, rule, Stored, RulePcs, Ready, Unwritten, Rooted, Deleting, StoredHasBlobs, BeforeInsert, Over
<1>1. CASE UNCHANGED vars
  BY <1>1 DEF vars
<1>2. ASSUME NEW a \in Attempts, FindParent(a) PROVE StoredHasBlobs'
  <2>1. ASSUME NEW p \in Attempts, Stored(p), Threaded(a, home[p], FALSE, AfterThread(a))
        PROVE  StoredHasBlobs'
    BY <1>2, <2>1 DEF FindParent, Threaded, AfterThread
  <2>2. CASE Threaded(a, a, TRUE, "put") /\ IsSent(a)
    BY <1>2, <2>2 DEF FindParent, Threaded
  <2>3. CASE To(a, "subject") /\ ~IsSent(a)
    BY <1>2, <2>3 DEF FindParent, To
  <2> QED
    BY <1>2, <2>1, <2>2, <2>3, Zenon DEF FindParent
<1>3. ASSUME NEW a \in Attempts, FindSubject(a) PROVE StoredHasBlobs'
  <2>1. ASSUME NEW t \in Attempts, threads[t] # NoId, Threaded(a, t, FALSE, "place")
        PROVE  StoredHasBlobs'
    BY <1>3, <2>1 DEF FindSubject, Threaded
  <2>2. CASE Threaded(a, a, TRUE, "place")
    BY <1>3, <2>2 DEF FindSubject, Threaded
  <2> QED
    BY <1>3, <2>1, <2>2, Zenon DEF FindSubject
<1>4. ASSUME NEW a \in Attempts, Insert(a) PROVE StoredHasBlobs'
  BY <1>4 DEF Insert, To, Insertable
<1>5. ASSUME NEW a \in Attempts, RuleDelete(a) PROVE StoredHasBlobs'
  BY <1>5 DEF RuleDelete
<1>6. ASSUME NEW a \in Attempts, RuleDropsRow(a) PROVE StoredHasBlobs'
  BY <1>6 DEF RuleDropsRow, To
<1>7. ASSUME NEW a \in Attempts, RuleCounts(a) PROVE StoredHasBlobs'
  BY <1>7 DEF RuleCounts, To
<1>8. ASSUME NEW a \in Attempts, RuleDropsThread(a) PROVE StoredHasBlobs'
  BY <1>8 DEF RuleDropsThread, To, Cascade, RowsOf
<1>9. ASSUME NEW a \in Attempts, RuleDropsIndex(a) PROVE StoredHasBlobs'
  BY <1>9 DEF RuleDropsIndex, To, Unlist, Queue, Blank
<1>10. ASSUME NEW a \in Attempts,
             \/ PlaceNew(a) \/ PlaceKnown(a) \/ PlaceThrows(a) \/ Screen(a)
             \/ CheckDuplicate(a) \/ Put(a)
      PROVE  StoredHasBlobs'
  BY <1>10
  DEF PlaceNew, Placed, Roomy, PlaceKnown, Resolved, PlaceThrows, To, Screen, Mishap,
      CheckDuplicate, Put
<1>11. ASSUME NEW a \in Attempts,
             \/ InsertThrows(a) \/ Register(a) \/ Upsert(a) \/ RegisterFails(a)
             \/ UpsertFails(a) \/ RuleNone(a)
      PROVE  StoredHasBlobs'
  BY <1>11
  DEF InsertThrows, To, Register, Upsert, AfterUpsert, RegisterFails, Mishap, UpsertFails,
      RuleNone
<1>12. ASSUME NEW a \in Attempts,
             \/ RuleRead(a) \/ RuleArchive(a) \/ RuleMarksIndex(a) \/ RuleMarksMail(a)
             \/ RuleReadsStats(a) \/ RuleWritesStats(a)
      PROVE  StoredHasBlobs'
  BY <1>12
  DEF RuleRead, Reading, RuleArchive, Reindex, RuleMarksIndex, RuleMarksMail, RowsOf,
      RuleReadsStats, RuleWritesStats, To, Queue
<1>13. ASSUME NEW a \in Attempts,
             RuleFails(a) \/ Push(a) \/ Die(a)
      PROVE  StoredHasBlobs'
  BY <1>13
  DEF RuleFails, To, Mishap, Push, Die
<1>14. ASSUME NEW r \in Requests, Ask(r) PROVE StoredHasBlobs'
  BY <1>14 DEF Ask, FirstStep
<1>15. ASSUME NEW r \in Requests, ReadKeys(r) PROVE StoredHasBlobs'
  BY <1>15 DEF ReadKeys, Found, RowsOf
<1>16. ASSUME NEW r \in Requests, DropThread(r) PROVE StoredHasBlobs'
  BY <1>16 DEF DropThread, ReqTo, Cascade, RowsOf
<1>17. ASSUME NEW r \in Requests, DropIndex(r) PROVE StoredHasBlobs'
  BY <1>17 DEF DropIndex, ReqTo, Unlist, Queue, Blank
<1>18. ASSUME NEW r \in Requests,
             Patch(r) \/ MarkIndex(r) \/ MarkMail(r) \/ Unresolved(r) \/ RequestDies(r)
      PROVE  StoredHasBlobs'
  BY <1>18
  DEF Patch, Reindex, Marking, MarkIndex, MarkMail, Found, RowsOf, Unresolved, ReqTo,
      RequestDies, Mishap
<1>19. ASSUME NEW k \in sweep.list, SweepBlob(k) PROVE StoredHasBlobs'
  BY <1>19 DEF SweepBlob
<1>20. ASSUME NEW k \in sweep.list, SweepBlobFails(k) PROVE StoredHasBlobs'
  BY <1>20 DEF SweepBlobFails, Mishap
<1>21. CASE SweepClear
  BY <1>21 DEF SweepClear, NoSweep
<1>22. CASE SweepDies
  BY <1>22 DEF SweepDies, Mishap, NoSweep
<1>23. CASE SweepStart
  BY <1>23 DEF SweepStart, Page
<1>24. QED
  BY <1>1, <1>2, <1>3, <1>4, <1>5, <1>6, <1>7, <1>8, <1>9, <1>10, <1>11, <1>12, <1>13,
     <1>14, <1>15, <1>16, <1>17, <1>18, <1>19, <1>20, <1>21, <1>22, <1>23
  DEF Next, Storing, Filtering, Serving, Sweeping

LEMMA SettledNext ==
    TypeOK /\ Ready /\ Asked /\ Unwritten /\ Rooted /\ Settled /\ [Next]_vars
    => Settled'
<1> SUFFICES ASSUME TypeOK, Ready, Asked, Unwritten, Rooted, Settled, [Next]_vars
             PROVE  Settled'
  OBVIOUS
<1> USE NoIdAssumption, PrimaryAssumption
    DEF TypeOK, mail, index, r2, att, req, found, rule, Stored, RulePcs, Ready, Asked, Unwritten, BeforeInsert, Over, Rooted, Settled, RowsOf
<1>1. CASE UNCHANGED vars
  BY <1>1 DEF vars
<1>2. ASSUME NEW a \in Attempts, FindParent(a) PROVE Settled'
  <2>1. ASSUME NEW p \in Attempts, Stored(p), Threaded(a, home[p], FALSE, AfterThread(a))
        PROVE  Settled'
    BY <1>2, <2>1 DEF FindParent, Threaded, AfterThread
  <2>2. CASE Threaded(a, a, TRUE, "put") /\ IsSent(a)
    BY <1>2, <2>2 DEF FindParent, Threaded
  <2>3. CASE To(a, "subject") /\ ~IsSent(a)
    BY <1>2, <2>3 DEF FindParent, To
  <2> QED
    BY <1>2, <2>1, <2>2, <2>3, Zenon DEF FindParent
<1>3. ASSUME NEW a \in Attempts, FindSubject(a) PROVE Settled'
  <2>1. ASSUME NEW t \in Attempts, threads[t] # NoId, Threaded(a, t, FALSE, "place")
        PROVE  Settled'
    BY <1>3, <2>1 DEF FindSubject, Threaded
  <2>2. CASE Threaded(a, a, TRUE, "place")
    BY <1>3, <2>2 DEF FindSubject, Threaded
  <2> QED
    BY <1>3, <2>1, <2>2, Zenon DEF FindSubject
<1>4. ASSUME NEW a \in Attempts, Insert(a) PROVE Settled'
  BY <1>4 DEF Insert, To, Insertable
<1>5. ASSUME NEW a \in Attempts, RuleDelete(a) PROVE Settled'
  BY <1>5 DEF RuleDelete
<1>6. ASSUME NEW a \in Attempts, RuleDropsRow(a) PROVE Settled'
  BY <1>6 DEF RuleDropsRow, To
<1>7. ASSUME NEW a \in Attempts, RuleCounts(a) PROVE Settled'
  BY <1>7 DEF RuleCounts, To
<1>8. ASSUME NEW a \in Attempts, RuleDropsThread(a) PROVE Settled'
  BY <1>8 DEF RuleDropsThread, To, Cascade, RowsOf
<1>9. ASSUME NEW a \in Attempts, RuleDropsIndex(a) PROVE Settled'
  BY <1>9 DEF RuleDropsIndex, To, Unlist, Queue, Blank
<1>10. ASSUME NEW a \in Attempts,
             \/ PlaceNew(a) \/ PlaceKnown(a) \/ PlaceThrows(a) \/ Screen(a)
             \/ CheckDuplicate(a) \/ Put(a)
      PROVE  Settled'
  BY <1>10
  DEF PlaceNew, Placed, Roomy, PlaceKnown, Resolved, PlaceThrows, To, Screen, Mishap,
      CheckDuplicate, Put
<1>11. ASSUME NEW a \in Attempts,
             \/ InsertThrows(a) \/ Register(a) \/ Upsert(a) \/ RegisterFails(a)
             \/ UpsertFails(a) \/ RuleNone(a)
      PROVE  Settled'
  BY <1>11
  DEF InsertThrows, To, Register, Upsert, AfterUpsert, RegisterFails, Mishap, UpsertFails,
      RuleNone
<1>12. ASSUME NEW a \in Attempts,
             \/ RuleRead(a) \/ RuleArchive(a) \/ RuleMarksIndex(a) \/ RuleMarksMail(a)
             \/ RuleReadsStats(a) \/ RuleWritesStats(a)
      PROVE  Settled'
  BY <1>12
  DEF RuleRead, Reading, RuleArchive, Reindex, RuleMarksIndex, RuleMarksMail, RowsOf,
      RuleReadsStats, RuleWritesStats, To, Queue
<1>13. ASSUME NEW a \in Attempts,
             RuleFails(a) \/ Push(a) \/ Die(a)
      PROVE  Settled'
  BY <1>13
  DEF RuleFails, To, Mishap, Push, Die
<1>14. ASSUME NEW r \in Requests, Ask(r) PROVE Settled'
  BY <1>14 DEF Ask, FirstStep
<1>15. ASSUME NEW r \in Requests, ReadKeys(r) PROVE Settled'
  BY <1>15 DEF ReadKeys, Found, RowsOf
<1>16. ASSUME NEW r \in Requests, DropThread(r) PROVE Settled'
  BY <1>16 DEF DropThread, ReqTo, Cascade, RowsOf
<1>17. ASSUME NEW r \in Requests, DropIndex(r) PROVE Settled'
  BY <1>17 DEF DropIndex, ReqTo, Unlist, Queue, Blank
<1>18. ASSUME NEW r \in Requests,
             Patch(r) \/ MarkIndex(r) \/ MarkMail(r) \/ Unresolved(r) \/ RequestDies(r)
      PROVE  Settled'
  BY <1>18
  DEF Patch, Reindex, Marking, MarkIndex, MarkMail, Found, RowsOf, Unresolved, ReqTo,
      RequestDies, Mishap
<1>19. ASSUME NEW k \in sweep.list, SweepBlob(k) PROVE Settled'
  BY <1>19 DEF SweepBlob
<1>20. ASSUME NEW k \in sweep.list, SweepBlobFails(k) PROVE Settled'
  BY <1>20 DEF SweepBlobFails, Mishap
<1>21. CASE SweepClear
  BY <1>21 DEF SweepClear, NoSweep
<1>22. CASE SweepDies
  BY <1>22 DEF SweepDies, Mishap, NoSweep
<1>23. CASE SweepStart
  BY <1>23 DEF SweepStart, Page
<1>24. QED
  BY <1>1, <1>2, <1>3, <1>4, <1>5, <1>6, <1>7, <1>8, <1>9, <1>10, <1>11, <1>12, <1>13,
     <1>14, <1>15, <1>16, <1>17, <1>18, <1>19, <1>20, <1>21, <1>22, <1>23
  DEF Next, Storing, Filtering, Serving, Sweeping

\* A thread is found once.
LEMMA ThreadStays ==
    ASSUME TypeOK, Ready,
           NEW b \in Attempts, thread[b] # NoId, [Next]_vars
    PROVE  thread'[b] = thread[b]
<1> USE NoIdAssumption, PrimaryAssumption
    DEF TypeOK, mail, index, r2, att, req, found, rule, Stored, RulePcs, Ready, BeforeInsert, Over
<1>1. CASE UNCHANGED vars
  BY <1>1 DEF vars
<1>2. ASSUME NEW a \in Attempts, FindParent(a) PROVE thread'[b] = thread[b]
  <2>1. ASSUME NEW p \in Attempts, Stored(p), Threaded(a, home[p], FALSE, AfterThread(a))
        PROVE  thread'[b] = thread[b]
    BY <1>2, <2>1 DEF FindParent, Threaded, AfterThread
  <2>2. CASE Threaded(a, a, TRUE, "put") /\ IsSent(a)
    BY <1>2, <2>2 DEF FindParent, Threaded
  <2>3. CASE To(a, "subject") /\ ~IsSent(a)
    BY <1>2, <2>3 DEF FindParent, To
  <2> QED
    BY <1>2, <2>1, <2>2, <2>3, Zenon DEF FindParent
<1>3. ASSUME NEW a \in Attempts, FindSubject(a) PROVE thread'[b] = thread[b]
  <2>1. ASSUME NEW t \in Attempts, threads[t] # NoId, Threaded(a, t, FALSE, "place")
        PROVE  thread'[b] = thread[b]
    BY <1>3, <2>1 DEF FindSubject, Threaded
  <2>2. CASE Threaded(a, a, TRUE, "place")
    BY <1>3, <2>2 DEF FindSubject, Threaded
  <2> QED
    BY <1>3, <2>1, <2>2, Zenon DEF FindSubject
<1>4. ASSUME NEW a \in Attempts, Insert(a) PROVE thread'[b] = thread[b]
  BY <1>4 DEF Insert, To, Insertable
<1>5. ASSUME NEW a \in Attempts, RuleDelete(a) PROVE thread'[b] = thread[b]
  BY <1>5 DEF RuleDelete
<1>6. ASSUME NEW a \in Attempts, RuleDropsRow(a) PROVE thread'[b] = thread[b]
  BY <1>6 DEF RuleDropsRow, To
<1>7. ASSUME NEW a \in Attempts, RuleCounts(a) PROVE thread'[b] = thread[b]
  BY <1>7 DEF RuleCounts, To
<1>8. ASSUME NEW a \in Attempts, RuleDropsThread(a) PROVE thread'[b] = thread[b]
  BY <1>8 DEF RuleDropsThread, To, Cascade, RowsOf
<1>9. ASSUME NEW a \in Attempts, RuleDropsIndex(a) PROVE thread'[b] = thread[b]
  BY <1>9 DEF RuleDropsIndex, To, Unlist, Queue, Blank
<1>10. ASSUME NEW a \in Attempts,
             \/ PlaceNew(a) \/ PlaceKnown(a) \/ PlaceThrows(a) \/ Screen(a)
             \/ CheckDuplicate(a) \/ Put(a)
      PROVE  thread'[b] = thread[b]
  BY <1>10
  DEF PlaceNew, Placed, Roomy, PlaceKnown, Resolved, PlaceThrows, To, Screen, Mishap,
      CheckDuplicate, Put
<1>11. ASSUME NEW a \in Attempts,
             \/ InsertThrows(a) \/ Register(a) \/ Upsert(a) \/ RegisterFails(a)
             \/ UpsertFails(a) \/ RuleNone(a)
      PROVE  thread'[b] = thread[b]
  BY <1>11
  DEF InsertThrows, To, Register, Upsert, AfterUpsert, RegisterFails, Mishap, UpsertFails,
      RuleNone
<1>12. ASSUME NEW a \in Attempts,
             \/ RuleRead(a) \/ RuleArchive(a) \/ RuleMarksIndex(a) \/ RuleMarksMail(a)
             \/ RuleReadsStats(a) \/ RuleWritesStats(a)
      PROVE  thread'[b] = thread[b]
  BY <1>12
  DEF RuleRead, Reading, RuleArchive, Reindex, RuleMarksIndex, RuleMarksMail, RowsOf,
      RuleReadsStats, RuleWritesStats, To, Queue
<1>13. ASSUME NEW a \in Attempts,
             RuleFails(a) \/ Push(a) \/ Die(a)
      PROVE  thread'[b] = thread[b]
  BY <1>13
  DEF RuleFails, To, Mishap, Push, Die
<1>14. ASSUME NEW r \in Requests, Ask(r) PROVE thread'[b] = thread[b]
  BY <1>14 DEF Ask, FirstStep
<1>15. ASSUME NEW r \in Requests, ReadKeys(r) PROVE thread'[b] = thread[b]
  BY <1>15 DEF ReadKeys, Found, RowsOf
<1>16. ASSUME NEW r \in Requests, DropThread(r) PROVE thread'[b] = thread[b]
  BY <1>16 DEF DropThread, ReqTo, Cascade, RowsOf
<1>17. ASSUME NEW r \in Requests, DropIndex(r) PROVE thread'[b] = thread[b]
  BY <1>17 DEF DropIndex, ReqTo, Unlist, Queue, Blank
<1>18. ASSUME NEW r \in Requests,
             Patch(r) \/ MarkIndex(r) \/ MarkMail(r) \/ Unresolved(r) \/ RequestDies(r)
      PROVE  thread'[b] = thread[b]
  BY <1>18
  DEF Patch, Reindex, Marking, MarkIndex, MarkMail, Found, RowsOf, Unresolved, ReqTo,
      RequestDies, Mishap
<1>19. ASSUME NEW k \in sweep.list, SweepBlob(k) PROVE thread'[b] = thread[b]
  BY <1>19 DEF SweepBlob
<1>20. ASSUME NEW k \in sweep.list, SweepBlobFails(k) PROVE thread'[b] = thread[b]
  BY <1>20 DEF SweepBlobFails, Mishap
<1>21. CASE SweepClear
  BY <1>21 DEF SweepClear, NoSweep
<1>22. CASE SweepDies
  BY <1>22 DEF SweepDies, Mishap, NoSweep
<1>23. CASE SweepStart
  BY <1>23 DEF SweepStart, Page
<1>24. QED
  BY <1>1, <1>2, <1>3, <1>4, <1>5, <1>6, <1>7, <1>8, <1>9, <1>10, <1>11, <1>12, <1>13,
     <1>14, <1>15, <1>16, <1>17, <1>18, <1>19, <1>20, <1>21, <1>22, <1>23
  DEF Next, Storing, Filtering, Serving, Sweeping

\* An erased thread stays on record.
LEMMA ErasingStays ==
    ASSUME TypeOK, Ready, Asked,
           NEW e \in Attempts, Erasing(e), [Next]_vars
    PROVE  Erasing(e)'
<1> USE NoIdAssumption, PrimaryAssumption
    DEF TypeOK, mail, index, r2, att, req, found, rule, Stored, RulePcs, Ready, Asked, Erasing, BeforeInsert, Over
<1>1. CASE UNCHANGED vars
  BY <1>1 DEF vars
<1>2. ASSUME NEW a \in Attempts, FindParent(a) PROVE Erasing(e)'
  <2>1. ASSUME NEW p \in Attempts, Stored(p), Threaded(a, home[p], FALSE, AfterThread(a))
        PROVE  Erasing(e)'
    BY <1>2, <2>1 DEF FindParent, Threaded, AfterThread
  <2>2. CASE Threaded(a, a, TRUE, "put") /\ IsSent(a)
    BY <1>2, <2>2 DEF FindParent, Threaded
  <2>3. CASE To(a, "subject") /\ ~IsSent(a)
    BY <1>2, <2>3 DEF FindParent, To
  <2> QED
    BY <1>2, <2>1, <2>2, <2>3, Zenon DEF FindParent
<1>3. ASSUME NEW a \in Attempts, FindSubject(a) PROVE Erasing(e)'
  <2>1. ASSUME NEW t \in Attempts, threads[t] # NoId, Threaded(a, t, FALSE, "place")
        PROVE  Erasing(e)'
    BY <1>3, <2>1 DEF FindSubject, Threaded
  <2>2. CASE Threaded(a, a, TRUE, "place")
    BY <1>3, <2>2 DEF FindSubject, Threaded
  <2> QED
    BY <1>3, <2>1, <2>2, Zenon DEF FindSubject
<1>4. ASSUME NEW a \in Attempts, Insert(a) PROVE Erasing(e)'
  BY <1>4 DEF Insert, To, Insertable
<1>5. ASSUME NEW a \in Attempts, RuleDelete(a) PROVE Erasing(e)'
  BY <1>5 DEF RuleDelete
<1>6. ASSUME NEW a \in Attempts, RuleDropsRow(a) PROVE Erasing(e)'
  BY <1>6 DEF RuleDropsRow, To
<1>7. ASSUME NEW a \in Attempts, RuleCounts(a) PROVE Erasing(e)'
  BY <1>7 DEF RuleCounts, To
<1>8. ASSUME NEW a \in Attempts, RuleDropsThread(a) PROVE Erasing(e)'
  BY <1>8 DEF RuleDropsThread, To, Cascade, RowsOf
<1>9. ASSUME NEW a \in Attempts, RuleDropsIndex(a) PROVE Erasing(e)'
  BY <1>9 DEF RuleDropsIndex, To, Unlist, Queue, Blank
<1>10. ASSUME NEW a \in Attempts,
             \/ PlaceNew(a) \/ PlaceKnown(a) \/ PlaceThrows(a) \/ Screen(a)
             \/ CheckDuplicate(a) \/ Put(a)
      PROVE  Erasing(e)'
  BY <1>10
  DEF PlaceNew, Placed, Roomy, PlaceKnown, Resolved, PlaceThrows, To, Screen, Mishap,
      CheckDuplicate, Put
<1>11. ASSUME NEW a \in Attempts,
             \/ InsertThrows(a) \/ Register(a) \/ Upsert(a) \/ RegisterFails(a)
             \/ UpsertFails(a) \/ RuleNone(a)
      PROVE  Erasing(e)'
  BY <1>11
  DEF InsertThrows, To, Register, Upsert, AfterUpsert, RegisterFails, Mishap, UpsertFails,
      RuleNone
<1>12. ASSUME NEW a \in Attempts,
             \/ RuleRead(a) \/ RuleArchive(a) \/ RuleMarksIndex(a) \/ RuleMarksMail(a)
             \/ RuleReadsStats(a) \/ RuleWritesStats(a)
      PROVE  Erasing(e)'
  BY <1>12
  DEF RuleRead, Reading, RuleArchive, Reindex, RuleMarksIndex, RuleMarksMail, RowsOf,
      RuleReadsStats, RuleWritesStats, To, Queue
<1>13. ASSUME NEW a \in Attempts,
             RuleFails(a) \/ Push(a) \/ Die(a)
      PROVE  Erasing(e)'
  BY <1>13
  DEF RuleFails, To, Mishap, Push, Die
<1>14. ASSUME NEW r \in Requests, Ask(r) PROVE Erasing(e)'
  BY <1>14 DEF Ask, FirstStep
<1>15. ASSUME NEW r \in Requests, ReadKeys(r) PROVE Erasing(e)'
  BY <1>15 DEF ReadKeys, Found, RowsOf
<1>16. ASSUME NEW r \in Requests, DropThread(r) PROVE Erasing(e)'
  BY <1>16 DEF DropThread, ReqTo, Cascade, RowsOf
<1>17. ASSUME NEW r \in Requests, DropIndex(r) PROVE Erasing(e)'
  BY <1>17 DEF DropIndex, ReqTo, Unlist, Queue, Blank
<1>18. ASSUME NEW r \in Requests,
             Patch(r) \/ MarkIndex(r) \/ MarkMail(r) \/ Unresolved(r) \/ RequestDies(r)
      PROVE  Erasing(e)'
  BY <1>18
  DEF Patch, Reindex, Marking, MarkIndex, MarkMail, Found, RowsOf, Unresolved, ReqTo,
      RequestDies, Mishap
<1>19. ASSUME NEW k \in sweep.list, SweepBlob(k) PROVE Erasing(e)'
  BY <1>19 DEF SweepBlob
<1>20. ASSUME NEW k \in sweep.list, SweepBlobFails(k) PROVE Erasing(e)'
  BY <1>20 DEF SweepBlobFails, Mishap
<1>21. CASE SweepClear
  BY <1>21 DEF SweepClear, NoSweep
<1>22. CASE SweepDies
  BY <1>22 DEF SweepDies, Mishap, NoSweep
<1>23. CASE SweepStart
  BY <1>23 DEF SweepStart, Page
<1>24. QED
  BY <1>1, <1>2, <1>3, <1>4, <1>5, <1>6, <1>7, <1>8, <1>9, <1>10, <1>11, <1>12, <1>13,
     <1>14, <1>15, <1>16, <1>17, <1>18, <1>19, <1>20, <1>21, <1>22, <1>23
  DEF Next, Storing, Filtering, Serving, Sweeping

\* A row leaves with its thread, or by a rule of its own.
LEMMA RowsLeave ==
    ASSUME TypeOK, Ready, Asked, Rooted, Settled, AllKept,
           NEW b \in Attempts, home[b] # NoId, [Next]_vars
    PROVE  home'[b] # NoId \/ Erasing(thread[b])
<1> USE NoIdAssumption, PrimaryAssumption
    DEF TypeOK, mail, index, r2, att, req, found, rule, Stored, RulePcs, Ready, Asked, Settled, AllKept, Kept, NotStoring, Erasing, RowsOf, BeforeInsert, Over
<1>1. CASE UNCHANGED vars
  BY <1>1 DEF vars
<1>2. ASSUME NEW a \in Attempts, FindParent(a) PROVE home'[b] # NoId \/ Erasing(thread[b])
  <2>1. ASSUME NEW p \in Attempts, Stored(p), Threaded(a, home[p], FALSE, AfterThread(a))
        PROVE  home'[b] # NoId \/ Erasing(thread[b])
    BY <1>2, <2>1 DEF FindParent, Threaded, AfterThread
  <2>2. CASE Threaded(a, a, TRUE, "put") /\ IsSent(a)
    BY <1>2, <2>2 DEF FindParent, Threaded
  <2>3. CASE To(a, "subject") /\ ~IsSent(a)
    BY <1>2, <2>3 DEF FindParent, To
  <2> QED
    BY <1>2, <2>1, <2>2, <2>3, Zenon DEF FindParent
<1>3. ASSUME NEW a \in Attempts, FindSubject(a) PROVE home'[b] # NoId \/ Erasing(thread[b])
  <2>1. ASSUME NEW t \in Attempts, threads[t] # NoId, Threaded(a, t, FALSE, "place")
        PROVE  home'[b] # NoId \/ Erasing(thread[b])
    BY <1>3, <2>1 DEF FindSubject, Threaded
  <2>2. CASE Threaded(a, a, TRUE, "place")
    BY <1>3, <2>2 DEF FindSubject, Threaded
  <2> QED
    BY <1>3, <2>1, <2>2, Zenon DEF FindSubject
<1>4. ASSUME NEW a \in Attempts, Insert(a) PROVE home'[b] # NoId \/ Erasing(thread[b])
  BY <1>4 DEF Insert, To, Insertable
<1>5. ASSUME NEW a \in Attempts, RuleDelete(a) PROVE home'[b] # NoId \/ Erasing(thread[b])
  BY <1>5 DEF RuleDelete
<1>6. ASSUME NEW a \in Attempts, RuleDropsRow(a) PROVE home'[b] # NoId \/ Erasing(thread[b])
  BY <1>6 DEF RuleDropsRow, To
<1>7. ASSUME NEW a \in Attempts, RuleCounts(a) PROVE home'[b] # NoId \/ Erasing(thread[b])
  BY <1>7 DEF RuleCounts, To
<1>8. ASSUME NEW a \in Attempts, RuleDropsThread(a)
      PROVE  home'[b] # NoId \/ Erasing(thread[b])
  BY <1>8 DEF RuleDropsThread, To, Cascade, RowsOf
<1>9. ASSUME NEW a \in Attempts, RuleDropsIndex(a) PROVE home'[b] # NoId \/ Erasing(thread[b])
  BY <1>9 DEF RuleDropsIndex, To, Unlist, Queue, Blank
<1>10. ASSUME NEW a \in Attempts,
             \/ PlaceNew(a) \/ PlaceKnown(a) \/ PlaceThrows(a) \/ Screen(a)
             \/ CheckDuplicate(a) \/ Put(a)
      PROVE  home'[b] # NoId \/ Erasing(thread[b])
  BY <1>10
  DEF PlaceNew, Placed, Roomy, PlaceKnown, Resolved, PlaceThrows, To, Screen, Mishap,
      CheckDuplicate, Put
<1>11. ASSUME NEW a \in Attempts,
             \/ InsertThrows(a) \/ Register(a) \/ Upsert(a) \/ RegisterFails(a)
             \/ UpsertFails(a) \/ RuleNone(a)
      PROVE  home'[b] # NoId \/ Erasing(thread[b])
  BY <1>11
  DEF InsertThrows, To, Register, Upsert, AfterUpsert, RegisterFails, Mishap, UpsertFails,
      RuleNone
<1>12. ASSUME NEW a \in Attempts,
             \/ RuleRead(a) \/ RuleArchive(a) \/ RuleMarksIndex(a) \/ RuleMarksMail(a)
             \/ RuleReadsStats(a) \/ RuleWritesStats(a)
      PROVE  home'[b] # NoId \/ Erasing(thread[b])
  BY <1>12
  DEF RuleRead, Reading, RuleArchive, Reindex, RuleMarksIndex, RuleMarksMail, RowsOf,
      RuleReadsStats, RuleWritesStats, To, Queue
<1>13. ASSUME NEW a \in Attempts,
             RuleFails(a) \/ Push(a) \/ Die(a)
      PROVE  home'[b] # NoId \/ Erasing(thread[b])
  BY <1>13
  DEF RuleFails, To, Mishap, Push, Die
<1>14. ASSUME NEW r \in Requests, Ask(r) PROVE home'[b] # NoId \/ Erasing(thread[b])
  BY <1>14 DEF Ask, FirstStep
<1>15. ASSUME NEW r \in Requests, ReadKeys(r) PROVE home'[b] # NoId \/ Erasing(thread[b])
  BY <1>15 DEF ReadKeys, Found, RowsOf
<1>16. ASSUME NEW r \in Requests, DropThread(r) PROVE home'[b] # NoId \/ Erasing(thread[b])
  BY <1>16 DEF DropThread, ReqTo, Cascade, RowsOf
<1>17. ASSUME NEW r \in Requests, DropIndex(r) PROVE home'[b] # NoId \/ Erasing(thread[b])
  BY <1>17 DEF DropIndex, ReqTo, Unlist, Queue, Blank
<1>18. ASSUME NEW r \in Requests,
             Patch(r) \/ MarkIndex(r) \/ MarkMail(r) \/ Unresolved(r) \/ RequestDies(r)
      PROVE  home'[b] # NoId \/ Erasing(thread[b])
  BY <1>18
  DEF Patch, Reindex, Marking, MarkIndex, MarkMail, Found, RowsOf, Unresolved, ReqTo,
      RequestDies, Mishap
<1>19. ASSUME NEW k \in sweep.list, SweepBlob(k) PROVE home'[b] # NoId \/ Erasing(thread[b])
  BY <1>19 DEF SweepBlob
<1>20. ASSUME NEW k \in sweep.list, SweepBlobFails(k) PROVE home'[b] # NoId \/ Erasing(thread[b])
  BY <1>20 DEF SweepBlobFails, Mishap
<1>21. CASE SweepClear
  BY <1>21 DEF SweepClear, NoSweep
<1>22. CASE SweepDies
  BY <1>22 DEF SweepDies, Mishap, NoSweep
<1>23. CASE SweepStart
  BY <1>23 DEF SweepStart, Page
<1>24. QED
  BY <1>1, <1>2, <1>3, <1>4, <1>5, <1>6, <1>7, <1>8, <1>9, <1>10, <1>11, <1>12, <1>13,
     <1>14, <1>15, <1>16, <1>17, <1>18, <1>19, <1>20, <1>21, <1>22, <1>23
  DEF Next, Storing, Filtering, Serving, Sweeping

\* What is stored was inserted.
LEMMA LeavesByInsert ==
    ASSUME TypeOK, Ready,
           NEW b \in Attempts,  pc[b] \in NotStoring, pc'[b] \notin NotStoring, [Next]_vars
    PROVE  home'[b] # NoId
<1> USE NoIdAssumption, PrimaryAssumption
    DEF TypeOK, mail, index, r2, att, req, found, rule, Stored, RulePcs, Ready, BeforeInsert, NotStoring, Over
<1>1. CASE UNCHANGED vars
  BY <1>1 DEF vars
<1>2. ASSUME NEW a \in Attempts, FindParent(a) PROVE home'[b] # NoId
  <2>1. ASSUME NEW p \in Attempts, Stored(p), Threaded(a, home[p], FALSE, AfterThread(a))
        PROVE  home'[b] # NoId
    BY <1>2, <2>1 DEF FindParent, Threaded, AfterThread
  <2>2. CASE Threaded(a, a, TRUE, "put") /\ IsSent(a)
    BY <1>2, <2>2 DEF FindParent, Threaded
  <2>3. CASE To(a, "subject") /\ ~IsSent(a)
    BY <1>2, <2>3 DEF FindParent, To
  <2> QED
    BY <1>2, <2>1, <2>2, <2>3, Zenon DEF FindParent
<1>3. ASSUME NEW a \in Attempts, FindSubject(a) PROVE home'[b] # NoId
  <2>1. ASSUME NEW t \in Attempts, threads[t] # NoId, Threaded(a, t, FALSE, "place")
        PROVE  home'[b] # NoId
    BY <1>3, <2>1 DEF FindSubject, Threaded
  <2>2. CASE Threaded(a, a, TRUE, "place")
    BY <1>3, <2>2 DEF FindSubject, Threaded
  <2> QED
    BY <1>3, <2>1, <2>2, Zenon DEF FindSubject
<1>4. ASSUME NEW a \in Attempts, Insert(a) PROVE home'[b] # NoId
  BY <1>4 DEF Insert, To, Insertable
<1>5. ASSUME NEW a \in Attempts, RuleDelete(a) PROVE home'[b] # NoId
  BY <1>5 DEF RuleDelete
<1>6. ASSUME NEW a \in Attempts, RuleDropsRow(a) PROVE home'[b] # NoId
  BY <1>6 DEF RuleDropsRow, To
<1>7. ASSUME NEW a \in Attempts, RuleCounts(a) PROVE home'[b] # NoId
  BY <1>7 DEF RuleCounts, To
<1>8. ASSUME NEW a \in Attempts, RuleDropsThread(a) PROVE home'[b] # NoId
  BY <1>8 DEF RuleDropsThread, To, Cascade, RowsOf
<1>9. ASSUME NEW a \in Attempts, RuleDropsIndex(a) PROVE home'[b] # NoId
  BY <1>9 DEF RuleDropsIndex, To, Unlist, Queue, Blank
<1>10. ASSUME NEW a \in Attempts,
             \/ PlaceNew(a) \/ PlaceKnown(a) \/ PlaceThrows(a) \/ Screen(a)
             \/ CheckDuplicate(a) \/ Put(a)
      PROVE  home'[b] # NoId
  BY <1>10
  DEF PlaceNew, Placed, Roomy, PlaceKnown, Resolved, PlaceThrows, To, Screen, Mishap,
      CheckDuplicate, Put
<1>11. ASSUME NEW a \in Attempts,
             \/ InsertThrows(a) \/ Register(a) \/ Upsert(a) \/ RegisterFails(a)
             \/ UpsertFails(a) \/ RuleNone(a)
      PROVE  home'[b] # NoId
  BY <1>11
  DEF InsertThrows, To, Register, Upsert, AfterUpsert, RegisterFails, Mishap, UpsertFails,
      RuleNone
<1>12. ASSUME NEW a \in Attempts,
             \/ RuleRead(a) \/ RuleArchive(a) \/ RuleMarksIndex(a) \/ RuleMarksMail(a)
             \/ RuleReadsStats(a) \/ RuleWritesStats(a)
      PROVE  home'[b] # NoId
  BY <1>12
  DEF RuleRead, Reading, RuleArchive, Reindex, RuleMarksIndex, RuleMarksMail, RowsOf,
      RuleReadsStats, RuleWritesStats, To, Queue
<1>13. ASSUME NEW a \in Attempts,
             RuleFails(a) \/ Push(a) \/ Die(a)
      PROVE  home'[b] # NoId
  BY <1>13
  DEF RuleFails, To, Mishap, Push, Die
<1>14. ASSUME NEW r \in Requests, Ask(r) PROVE home'[b] # NoId
  BY <1>14 DEF Ask, FirstStep
<1>15. ASSUME NEW r \in Requests, ReadKeys(r) PROVE home'[b] # NoId
  BY <1>15 DEF ReadKeys, Found, RowsOf
<1>16. ASSUME NEW r \in Requests, DropThread(r) PROVE home'[b] # NoId
  BY <1>16 DEF DropThread, ReqTo, Cascade, RowsOf
<1>17. ASSUME NEW r \in Requests, DropIndex(r) PROVE home'[b] # NoId
  BY <1>17 DEF DropIndex, ReqTo, Unlist, Queue, Blank
<1>18. ASSUME NEW r \in Requests,
             Patch(r) \/ MarkIndex(r) \/ MarkMail(r) \/ Unresolved(r) \/ RequestDies(r)
      PROVE  home'[b] # NoId
  BY <1>18
  DEF Patch, Reindex, Marking, MarkIndex, MarkMail, Found, RowsOf, Unresolved, ReqTo,
      RequestDies, Mishap
<1>19. ASSUME NEW k \in sweep.list, SweepBlob(k) PROVE home'[b] # NoId
  BY <1>19 DEF SweepBlob
<1>20. ASSUME NEW k \in sweep.list, SweepBlobFails(k) PROVE home'[b] # NoId
  BY <1>20 DEF SweepBlobFails, Mishap
<1>21. CASE SweepClear
  BY <1>21 DEF SweepClear, NoSweep
<1>22. CASE SweepDies
  BY <1>22 DEF SweepDies, Mishap, NoSweep
<1>23. CASE SweepStart
  BY <1>23 DEF SweepStart, Page
<1>24. QED
  BY <1>1, <1>2, <1>3, <1>4, <1>5, <1>6, <1>7, <1>8, <1>9, <1>10, <1>11, <1>12, <1>13,
     <1>14, <1>15, <1>16, <1>17, <1>18, <1>19, <1>20, <1>21, <1>22, <1>23
  DEF Next, Storing, Filtering, Serving, Sweeping

\* The answer duplicate is given to a copy of a row.
LEMMA DuplicateOf ==
    ASSUME TypeOK, Ready,
           NEW b \in Attempts, pc[b] # "duplicate", pc'[b] = "duplicate", [Next]_vars
    PROVE  \E m \in Attempts : MailOf[m] = MailOf[b] /\ home[m] # NoId
<1> USE NoIdAssumption, PrimaryAssumption
    DEF TypeOK, mail, index, r2, att, req, found, rule, Stored, RulePcs, Ready, BeforeInsert, Over, CopiesIn
<1>1. CASE UNCHANGED vars
  BY <1>1 DEF vars
<1>2. ASSUME NEW a \in Attempts, FindParent(a)
      PROVE  \E m \in Attempts : MailOf[m] = MailOf[b] /\ home[m] # NoId
  <2>1. ASSUME NEW p \in Attempts, Stored(p), Threaded(a, home[p], FALSE, AfterThread(a))
        PROVE  \E m \in Attempts : MailOf[m] = MailOf[b] /\ home[m] # NoId
    BY <1>2, <2>1 DEF FindParent, Threaded, AfterThread
  <2>2. CASE Threaded(a, a, TRUE, "put") /\ IsSent(a)
    BY <1>2, <2>2 DEF FindParent, Threaded
  <2>3. CASE To(a, "subject") /\ ~IsSent(a)
    BY <1>2, <2>3 DEF FindParent, To
  <2> QED
    BY <1>2, <2>1, <2>2, <2>3, Zenon DEF FindParent
<1>3. ASSUME NEW a \in Attempts, FindSubject(a)
      PROVE  \E m \in Attempts : MailOf[m] = MailOf[b] /\ home[m] # NoId
  <2>1. ASSUME NEW t \in Attempts, threads[t] # NoId, Threaded(a, t, FALSE, "place")
        PROVE  \E m \in Attempts : MailOf[m] = MailOf[b] /\ home[m] # NoId
    BY <1>3, <2>1 DEF FindSubject, Threaded
  <2>2. CASE Threaded(a, a, TRUE, "place")
    BY <1>3, <2>2 DEF FindSubject, Threaded
  <2> QED
    BY <1>3, <2>1, <2>2, Zenon DEF FindSubject
<1>4. ASSUME NEW a \in Attempts, Insert(a)
      PROVE  \E m \in Attempts : MailOf[m] = MailOf[b] /\ home[m] # NoId
  BY <1>4 DEF Insert, To, Insertable
<1>5. ASSUME NEW a \in Attempts, RuleDelete(a)
      PROVE  \E m \in Attempts : MailOf[m] = MailOf[b] /\ home[m] # NoId
  BY <1>5 DEF RuleDelete
<1>6. ASSUME NEW a \in Attempts, RuleDropsRow(a)
      PROVE  \E m \in Attempts : MailOf[m] = MailOf[b] /\ home[m] # NoId
  BY <1>6 DEF RuleDropsRow, To
<1>7. ASSUME NEW a \in Attempts, RuleCounts(a)
      PROVE  \E m \in Attempts : MailOf[m] = MailOf[b] /\ home[m] # NoId
  BY <1>7 DEF RuleCounts, To
<1>8. ASSUME NEW a \in Attempts, RuleDropsThread(a)
      PROVE  \E m \in Attempts : MailOf[m] = MailOf[b] /\ home[m] # NoId
  BY <1>8 DEF RuleDropsThread, To, Cascade, RowsOf
<1>9. ASSUME NEW a \in Attempts, RuleDropsIndex(a)
      PROVE  \E m \in Attempts : MailOf[m] = MailOf[b] /\ home[m] # NoId
  BY <1>9 DEF RuleDropsIndex, To, Unlist, Queue, Blank
<1>10. ASSUME NEW a \in Attempts,
             \/ PlaceNew(a) \/ PlaceKnown(a) \/ PlaceThrows(a) \/ Screen(a)
             \/ CheckDuplicate(a) \/ Put(a)
      PROVE  \E m \in Attempts : MailOf[m] = MailOf[b] /\ home[m] # NoId
  BY <1>10
  DEF PlaceNew, Placed, Roomy, PlaceKnown, Resolved, PlaceThrows, To, Screen, Mishap,
      CheckDuplicate, Put
<1>11. ASSUME NEW a \in Attempts,
             \/ InsertThrows(a) \/ Register(a) \/ Upsert(a) \/ RegisterFails(a)
             \/ UpsertFails(a) \/ RuleNone(a)
      PROVE  \E m \in Attempts : MailOf[m] = MailOf[b] /\ home[m] # NoId
  BY <1>11
  DEF InsertThrows, To, Register, Upsert, AfterUpsert, RegisterFails, Mishap, UpsertFails,
      RuleNone
<1>12. ASSUME NEW a \in Attempts,
             \/ RuleRead(a) \/ RuleArchive(a) \/ RuleMarksIndex(a) \/ RuleMarksMail(a)
             \/ RuleReadsStats(a) \/ RuleWritesStats(a)
      PROVE  \E m \in Attempts : MailOf[m] = MailOf[b] /\ home[m] # NoId
  BY <1>12
  DEF RuleRead, Reading, RuleArchive, Reindex, RuleMarksIndex, RuleMarksMail, RowsOf,
      RuleReadsStats, RuleWritesStats, To, Queue
<1>13. ASSUME NEW a \in Attempts,
             RuleFails(a) \/ Push(a) \/ Die(a)
      PROVE  \E m \in Attempts : MailOf[m] = MailOf[b] /\ home[m] # NoId
  BY <1>13
  DEF RuleFails, To, Mishap, Push, Die
<1>14. ASSUME NEW r \in Requests, Ask(r)
      PROVE  \E m \in Attempts : MailOf[m] = MailOf[b] /\ home[m] # NoId
  BY <1>14 DEF Ask, FirstStep
<1>15. ASSUME NEW r \in Requests, ReadKeys(r)
      PROVE  \E m \in Attempts : MailOf[m] = MailOf[b] /\ home[m] # NoId
  BY <1>15 DEF ReadKeys, Found, RowsOf
<1>16. ASSUME NEW r \in Requests, DropThread(r)
      PROVE  \E m \in Attempts : MailOf[m] = MailOf[b] /\ home[m] # NoId
  BY <1>16 DEF DropThread, ReqTo, Cascade, RowsOf
<1>17. ASSUME NEW r \in Requests, DropIndex(r)
      PROVE  \E m \in Attempts : MailOf[m] = MailOf[b] /\ home[m] # NoId
  BY <1>17 DEF DropIndex, ReqTo, Unlist, Queue, Blank
<1>18. ASSUME NEW r \in Requests,
             Patch(r) \/ MarkIndex(r) \/ MarkMail(r) \/ Unresolved(r) \/ RequestDies(r)
      PROVE  \E m \in Attempts : MailOf[m] = MailOf[b] /\ home[m] # NoId
  BY <1>18
  DEF Patch, Reindex, Marking, MarkIndex, MarkMail, Found, RowsOf, Unresolved, ReqTo,
      RequestDies, Mishap
<1>19. ASSUME NEW k \in sweep.list, SweepBlob(k)
      PROVE  \E m \in Attempts : MailOf[m] = MailOf[b] /\ home[m] # NoId
  BY <1>19 DEF SweepBlob
<1>20. ASSUME NEW k \in sweep.list, SweepBlobFails(k)
      PROVE  \E m \in Attempts : MailOf[m] = MailOf[b] /\ home[m] # NoId
  BY <1>20 DEF SweepBlobFails, Mishap
<1>21. CASE SweepClear
  BY <1>21 DEF SweepClear, NoSweep
<1>22. CASE SweepDies
  BY <1>22 DEF SweepDies, Mishap, NoSweep
<1>23. CASE SweepStart
  BY <1>23 DEF SweepStart, Page
<1>24. QED
  BY <1>1, <1>2, <1>3, <1>4, <1>5, <1>6, <1>7, <1>8, <1>9, <1>10, <1>11, <1>12, <1>13,
     <1>14, <1>15, <1>16, <1>17, <1>18, <1>19, <1>20, <1>21, <1>22, <1>23
  DEF Next, Storing, Filtering, Serving, Sweeping

LEMMA KeptStays ==
    ASSUME TypeOK, Ready, Asked, Rooted, Settled, AllKept,
           NEW b \in Attempts, thread[b] # NoId, Kept(b), [Next]_vars
    PROVE  Kept(b)'
<1>1. thread[b] \in Attempts /\ thread'[b] = thread[b]
  BY ThreadStays DEF TypeOK
<1>2. CASE Erasing(thread[b])
  <2>1. Erasing(thread[b])'
    <3>1. ASSUME NEW t \in Attempts, Erasing(t) PROVE Erasing(t)'
      BY <3>1, ErasingStays
    <3>2. PICK t \in Attempts : t = thread[b]
      BY <1>1
    <3>3. Erasing(t)'
      BY <1>2, <3>1, <3>2
    <3> QED
      BY <1>1, <3>2, <3>3 DEF Erasing
  <2> QED
    BY <2>1 DEF Kept
<1>3. CASE Stored(b) /\ ~Erasing(thread[b])
  BY <1>3, RowsLeave DEF Stored, Kept
<1> QED
  BY <1>2, <1>3 DEF Kept

LEMMA AllKeptNext ==
    TypeOK /\ Ready /\ Asked /\ Rooted /\ Settled /\ AllKept /\ [Next]_vars => AllKept'
<1> SUFFICES ASSUME TypeOK, Ready, Asked, Rooted, Settled, AllKept, [Next]_vars,
                    NEW a \in Attempts, pc'[a] \notin NotStoring
             PROVE  Kept(a)'
  BY DEF AllKept, NotStoring
<1>1. CASE pc[a] \in NotStoring
  BY <1>1, LeavesByInsert DEF Kept, Stored
<1>2. CASE pc[a] \notin NotStoring
  BY <1>2, KeptStays DEF AllKept, Ready, NotStoring
<1> QED
  BY <1>1, <1>2

LEMMA AcceptedNext ==
    TypeOK /\ Ready /\ Asked /\ Rooted /\ Settled /\ AllKept /\ AcceptedIsStored
    /\ AllKept' /\ Ready' /\ [Next]_vars => AcceptedIsStored'
<1> SUFFICES ASSUME TypeOK, Ready, Asked, Rooted, Settled, AllKept, AcceptedIsStored,
                    AllKept', Ready', [Next]_vars,
                    NEW a \in Attempts, pc'[a] \in Over \ {"refused"}
             PROVE  \E b \in Attempts : MailOf[b] = MailOf[a] /\ thread'[b] # NoId /\ Kept(b)'
  BY Zenon DEF AcceptedIsStored
<1>1. ASSUME NEW b \in Attempts, MailOf[b] = MailOf[a], thread[b] # NoId, Kept(b)
      PROVE  MailOf[b] = MailOf[a] /\ thread'[b] # NoId /\ Kept(b)'
  BY <1>1, KeptStays, ThreadStays
<1>2. CASE pc'[a] # "duplicate"
  BY <1>2 DEF AllKept, Ready, NotStoring, Over
<1>3. CASE pc[a] = "duplicate"
  BY <1>1, <1>3 DEF AcceptedIsStored, Over
<1>4. CASE pc[a] # "duplicate" /\ pc'[a] = "duplicate"
  <2>1. PICK m \in Attempts : MailOf[m] = MailOf[a] /\ home[m] # NoId
    BY <1>4, DuplicateOf
  <2>2. thread[m] # NoId /\ Kept(m)
    BY <2>1 DEF Settled, Kept, Stored
  <2> QED
    BY <1>1, <2>1, <2>2
<1> QED
  BY <1>2, <1>3, <1>4

LEMMA CopiesApartNext ==
    TypeOK /\ Ready /\ Unwritten /\ Rooted /\ CopiesApart /\ [Next]_vars
    => CopiesApart'
<1> SUFFICES ASSUME TypeOK, Ready, Unwritten, Rooted, CopiesApart, [Next]_vars
             PROVE  CopiesApart'
  OBVIOUS
<1> USE NoIdAssumption, PrimaryAssumption
    DEF TypeOK, mail, index, r2, att, req, found, rule, Stored, RulePcs, Ready, Unwritten, Rooted, CopiesApart, CopiesIn, BeforeInsert, Over
<1>1. CASE UNCHANGED vars
  BY <1>1 DEF vars
<1>2. ASSUME NEW a \in Attempts, FindParent(a) PROVE CopiesApart'
  <2>1. ASSUME NEW p \in Attempts, Stored(p), Threaded(a, home[p], FALSE, AfterThread(a))
        PROVE  CopiesApart'
    BY <1>2, <2>1 DEF FindParent, Threaded, AfterThread
  <2>2. CASE Threaded(a, a, TRUE, "put") /\ IsSent(a)
    BY <1>2, <2>2 DEF FindParent, Threaded
  <2>3. CASE To(a, "subject") /\ ~IsSent(a)
    BY <1>2, <2>3 DEF FindParent, To
  <2> QED
    BY <1>2, <2>1, <2>2, <2>3, Zenon DEF FindParent
<1>3. ASSUME NEW a \in Attempts, FindSubject(a) PROVE CopiesApart'
  <2>1. ASSUME NEW t \in Attempts, threads[t] # NoId, Threaded(a, t, FALSE, "place")
        PROVE  CopiesApart'
    BY <1>3, <2>1 DEF FindSubject, Threaded
  <2>2. CASE Threaded(a, a, TRUE, "place")
    BY <1>3, <2>2 DEF FindSubject, Threaded
  <2> QED
    BY <1>3, <2>1, <2>2, Zenon DEF FindSubject
<1>4. ASSUME NEW a \in Attempts, Insert(a) PROVE CopiesApart'
  BY <1>4 DEF Insert, To, Insertable
<1>5. ASSUME NEW a \in Attempts, RuleDelete(a) PROVE CopiesApart'
  BY <1>5 DEF RuleDelete
<1>6. ASSUME NEW a \in Attempts, RuleDropsRow(a) PROVE CopiesApart'
  BY <1>6 DEF RuleDropsRow, To
<1>7. ASSUME NEW a \in Attempts, RuleCounts(a) PROVE CopiesApart'
  BY <1>7 DEF RuleCounts, To
<1>8. ASSUME NEW a \in Attempts, RuleDropsThread(a) PROVE CopiesApart'
  BY <1>8 DEF RuleDropsThread, To, Cascade, RowsOf
<1>9. ASSUME NEW a \in Attempts, RuleDropsIndex(a) PROVE CopiesApart'
  BY <1>9 DEF RuleDropsIndex, To, Unlist, Queue, Blank
<1>10. ASSUME NEW a \in Attempts,
             \/ PlaceNew(a) \/ PlaceKnown(a) \/ PlaceThrows(a) \/ Screen(a)
             \/ CheckDuplicate(a) \/ Put(a)
      PROVE  CopiesApart'
  BY <1>10
  DEF PlaceNew, Placed, Roomy, PlaceKnown, Resolved, PlaceThrows, To, Screen, Mishap,
      CheckDuplicate, Put
<1>11. ASSUME NEW a \in Attempts,
             \/ InsertThrows(a) \/ Register(a) \/ Upsert(a) \/ RegisterFails(a)
             \/ UpsertFails(a) \/ RuleNone(a)
      PROVE  CopiesApart'
  BY <1>11
  DEF InsertThrows, To, Register, Upsert, AfterUpsert, RegisterFails, Mishap, UpsertFails,
      RuleNone
<1>12. ASSUME NEW a \in Attempts,
             \/ RuleRead(a) \/ RuleArchive(a) \/ RuleMarksIndex(a) \/ RuleMarksMail(a)
             \/ RuleReadsStats(a) \/ RuleWritesStats(a)
      PROVE  CopiesApart'
  BY <1>12
  DEF RuleRead, Reading, RuleArchive, Reindex, RuleMarksIndex, RuleMarksMail, RowsOf,
      RuleReadsStats, RuleWritesStats, To, Queue
<1>13. ASSUME NEW a \in Attempts,
             RuleFails(a) \/ Push(a) \/ Die(a)
      PROVE  CopiesApart'
  BY <1>13
  DEF RuleFails, To, Mishap, Push, Die
<1>14. ASSUME NEW r \in Requests, Ask(r) PROVE CopiesApart'
  BY <1>14 DEF Ask, FirstStep
<1>15. ASSUME NEW r \in Requests, ReadKeys(r) PROVE CopiesApart'
  BY <1>15 DEF ReadKeys, Found, RowsOf
<1>16. ASSUME NEW r \in Requests, DropThread(r) PROVE CopiesApart'
  BY <1>16 DEF DropThread, ReqTo, Cascade, RowsOf
<1>17. ASSUME NEW r \in Requests, DropIndex(r) PROVE CopiesApart'
  BY <1>17 DEF DropIndex, ReqTo, Unlist, Queue, Blank
<1>18. ASSUME NEW r \in Requests,
             Patch(r) \/ MarkIndex(r) \/ MarkMail(r) \/ Unresolved(r) \/ RequestDies(r)
      PROVE  CopiesApart'
  BY <1>18
  DEF Patch, Reindex, Marking, MarkIndex, MarkMail, Found, RowsOf, Unresolved, ReqTo,
      RequestDies, Mishap
<1>19. ASSUME NEW k \in sweep.list, SweepBlob(k) PROVE CopiesApart'
  BY <1>19 DEF SweepBlob
<1>20. ASSUME NEW k \in sweep.list, SweepBlobFails(k) PROVE CopiesApart'
  BY <1>20 DEF SweepBlobFails, Mishap
<1>21. CASE SweepClear
  BY <1>21 DEF SweepClear, NoSweep
<1>22. CASE SweepDies
  BY <1>22 DEF SweepDies, Mishap, NoSweep
<1>23. CASE SweepStart
  BY <1>23 DEF SweepStart, Page
<1>24. QED
  BY <1>1, <1>2, <1>3, <1>4, <1>5, <1>6, <1>7, <1>8, <1>9, <1>10, <1>11, <1>12, <1>13,
     <1>14, <1>15, <1>16, <1>17, <1>18, <1>19, <1>20, <1>21, <1>22, <1>23
  DEF Next, Storing, Filtering, Serving, Sweeping

LEMMA InitInv == Init => IInv
<1> SUFFICES ASSUME Init
             PROVE  IInv
  OBVIOUS
<1> USE NoIdAssumption, BoundsAssumption DEF Init
<1>1. Blank \in Entries /\ NoSweep \in Sweeps
  BY DEF Blank, Entries, NoSweep, Sweeps
<1>2. TypeOK
  BY <1>1 DEF TypeOK, AttemptPcs, RequestPcs, RulePcs, Over
<1>3. Unwritten /\ Ready /\ Asked /\ Unregistered /\ Rooted
  BY DEF Unwritten, Ready, Asked, Unregistered, Rooted, NoSweep
<1>4. Deleting /\ Settled /\ AllKept
  BY DEF Deleting, Settled, AllKept, NotStoring, RulePcs
<1>5. StoredHasBlobs /\ CopiesApart /\ AcceptedIsStored
  BY DEF StoredHasBlobs, CopiesApart, AcceptedIsStored, Stored, Over
<1> QED
  BY <1>2, <1>3, <1>4, <1>5 DEF IInv

LEMMA InvNext == IInv /\ [Next]_vars => IInv'
  BY TypeNext, ReadyNext, AskedNext, UnwrittenNext, RootedNext, UnregisteredNext, DeletingNext,
     SettledNext, AllKeptNext, AcceptedNext, StoredHasBlobsNext, CopiesApartNext DEF IInv

LEMMA InvHolds == Spec => []IInv
  BY InitInv, InvNext, PTL DEF Spec

\* The types of the mail store.
THEOREM TypeCorrect == Spec => []TypeOK
<1>1. IInv => TypeOK
  BY DEF IInv
<1> QED
  BY <1>1, InvHolds, PTL

\* No message in the mailbox loses its blobs (store.ts, threads-mutate.ts, rules.ts and
\* the cron's sweep of r2_tombstones), however deliveries, deletions, sweeps and crashes
\* interleave.
THEOREM MessagesKeepTheirBlobs == Spec => []StoredHasBlobs
<1>1. IInv => StoredHasBlobs
  BY DEF IInv
<1> QED
  BY <1>1, InvHolds, PTL

\* No mail database ever holds two copies of one mail (store.ts, checkDuplicate and the
\* unique index of 0001_init.sql).
THEOREM NoCopiesInOneDatabase == Spec => []CopiesApart
<1>1. IInv => CopiesApart
  BY DEF IInv
<1> QED
  BY <1>1, InvHolds, PTL

\* Mail taken off the sender is stored, or its thread was erased by a user or a rule
\* (index.ts, email), whatever worker is killed on the way.
THEOREM AcceptedMailIsStored == Spec => []AcceptedIsStored
<1>1. IInv => AcceptedIsStored
  BY DEF IInv
<1> QED
  BY <1>1, InvHolds, PTL

-----------------------------------------------------------------------------
(* The counters of threads_index.                                          *)

CountOf(t) == IF t \in listed THEN entry[t].count ELSE 0

(***************************************************************************)
(* What a step does to the account of a thread nobody erases: nothing, or  *)
(* a message is stored and waits to be counted, or one of those is.        *)
(***************************************************************************)
SameCount(t) ==
    RowsOf(t)' = RowsOf(t) /\ Indexing(t)' = Indexing(t) /\ CountOf(t)' = CountOf(t)
Enters(t, a) ==
    /\ a \notin RowsOf(t) /\ RowsOf(t)' = RowsOf(t) \cup {a}
    /\ a \notin Indexing(t) /\ Indexing(t)' = Indexing(t) \cup {a}
    /\ CountOf(t)' = CountOf(t)
IsCounted(t, a) ==
    /\ RowsOf(t)' = RowsOf(t)
    /\ a \in Indexing(t) /\ Indexing(t)' = Indexing(t) \ {a}
    /\ CountOf(t)' = CountOf(t) + 1
Account(t) == SameCount(t) \/ \E a \in Attempts : Enters(t, a) \/ IsCounted(t, a)

\* A rule that deletes has its thread on record, whether or not its message was
\* still there.
LEMMA RuleErases ==
    ASSUME Settled, AllKept, Deleting, NEW a \in Attempts,
           pc[a] \in {"dropRow", "countLeft", "dropThread", "dropIndex", "readStats", "writeStats"}
    PROVE  Erasing(thread[a])
<1>1. CASE keys[a] # {}
  BY <1>1 DEF Erasing
<1>2. CASE keys[a] = {}
  <2>1. home[a] = NoId
    BY <1>2 DEF Settled, Deleting
  <2>2. Kept(a)
    BY DEF AllKept, NotStoring
  <2> QED
    BY <2>1, <2>2 DEF Kept, Stored
<1> QED
  BY <1>1, <1>2

LEMMA PatchKeepsCount ==
    ASSUME NEW e \in Entries, NEW o \in Ops \ {"open", "delete"}
    PROVE  Patched(e, o).count = e.count
  BY OpsAssumption DEF Entries, Patched

LEMMA ReindexKeepsCount ==
    ASSUME TypeOK, NEW s, NEW t \in Attempts, NEW new,
           s \in listed => new.count = entry[s].count, Reindex(s, new), listed' = listed
    PROVE  CountOf(t)' = CountOf(t)
  BY DEF TypeOK, Reindex, CountOf

LEMMA UnreadKeepsCount ==
    ASSUME NEW e \in Entries, NEW n \in Nat
    PROVE  /\ [e EXCEPT !.unread = n].count = e.count
           /\ [e EXCEPT !.archived = TRUE, !.unread = n].count = e.count
  BY DEF Entries

LEMMA Uncounted ==
    ASSUME NEW t \in Attempts, UNCHANGED home, CountOf(t)' = CountOf(t),
           \A b \in Attempts :
               /\ pc[b] \in {"register", "upsert"} <=> pc'[b] \in {"register", "upsert"}
               /\ pc[b] \in {"register", "upsert"} => thread'[b] = thread[b]
    PROVE  SameCount(t)
  BY DEF SameCount, RowsOf, Indexing

LEMMA Untouched ==
    ASSUME NEW t \in Attempts, UNCHANGED <<home, listed, entry>>,
           \A b \in Attempts :
               /\ pc[b] \in {"register", "upsert"} <=> pc'[b] \in {"register", "upsert"}
               /\ pc[b] \in {"register", "upsert"} => thread'[b] = thread[b]
    PROVE  SameCount(t)
  BY Uncounted DEF CountOf

LEMMA AccountStep ==
    ASSUME IInv, NEW t \in Attempts, ~Erasing(t), mishaps' = 0, [Next]_vars
    PROVE  Account(t)
<1> SUFFICES Account(t)
  OBVIOUS
<1>a. TypeOK /\ Ready /\ Asked /\ Unwritten /\ Settled /\ AllKept /\ Deleting
  BY DEF IInv
<1>b. mishaps \in Nat
  BY BoundsAssumption, <1>a DEF TypeOK
<1> USE <1>a, <1>b, NoIdAssumption, PrimaryAssumption
    DEF mail, index, r2, att, req, found, rule, RulePcs, BeforeInsert, Over
<1>1. CASE UNCHANGED vars
  BY <1>1 DEF vars, Account, SameCount, RowsOf, Indexing, CountOf
<1>2. ASSUME NEW a \in Attempts, FindParent(a) PROVE Account(t)
  <2>1. UNCHANGED <<home, listed, entry>> /\ pc[a] = "start"
    BY <1>2 DEF FindParent
  <2> DEFINE Moves == /\ \A b \in Attempts \ {a} : pc'[b] = pc[b] /\ thread'[b] = thread[b]
                      /\ pc'[a] \notin {"register", "upsert"}
  <2>2. ASSUME NEW p \in Attempts, Threaded(a, home[p], FALSE, AfterThread(a))
        PROVE  Moves
    BY <2>2 DEF TypeOK, Threaded, AfterThread
  <2>3. ASSUME Threaded(a, a, TRUE, "put") PROVE Moves
    BY <2>3 DEF TypeOK, Threaded
  <2>4. ASSUME To(a, "subject") PROVE Moves
    BY <2>4 DEF TypeOK, To
  <2>5. Moves
    BY <1>2, <2>2, <2>3, <2>4, Zenon DEF FindParent
  <2> QED
    BY <2>1, <2>5, Untouched DEF Account
<1>3. ASSUME NEW a \in Attempts, FindSubject(a) PROVE Account(t)
  <2>1. UNCHANGED <<home, listed, entry>> /\ pc[a] = "subject"
    BY <1>3 DEF FindSubject
  <2> DEFINE Moves == /\ \A b \in Attempts \ {a} : pc'[b] = pc[b] /\ thread'[b] = thread[b]
                      /\ pc'[a] \notin {"register", "upsert"}
  <2>2. ASSUME NEW s \in Attempts, NEW opens, Threaded(a, s, opens, "place")
        PROVE  Moves
    BY <2>2 DEF TypeOK, Threaded
  <2>3. Moves
    BY <1>3, <2>2, Zenon DEF FindSubject
  <2> QED
    BY <2>1, <2>3, Untouched DEF Account
<1>4. ASSUME NEW a \in Attempts, PlaceNew(a) PROVE Account(t)
  <2>1. UNCHANGED <<home, listed, entry>>
    BY <1>4 DEF PlaceNew, Placed, Roomy
  <2>2. \A b \in Attempts :
            /\ pc[b] \in {"register", "upsert"} <=> pc'[b] \in {"register", "upsert"}
            /\ pc[b] \in {"register", "upsert"} => thread'[b] = thread[b]
    BY <1>4 DEF PlaceNew, Placed, Roomy, TypeOK
  <2> QED
    BY <2>1, <2>2, Untouched DEF Account
<1>5. ASSUME NEW a \in Attempts, PlaceKnown(a) PROVE Account(t)
  <2>1. UNCHANGED <<home, listed, entry>>
    BY <1>5 DEF PlaceKnown, Placed, Resolved
  <2>2. \A b \in Attempts :
            /\ pc[b] \in {"register", "upsert"} <=> pc'[b] \in {"register", "upsert"}
            /\ pc[b] \in {"register", "upsert"} => thread'[b] = thread[b]
    BY <1>5 DEF PlaceKnown, Placed, Resolved, TypeOK
  <2> QED
    BY <2>1, <2>2, Untouched DEF Account
<1>6. ASSUME NEW a \in Attempts, PlaceThrows(a) PROVE Account(t)
  <2>1. UNCHANGED <<home, listed, entry>>
    BY <1>6 DEF PlaceThrows, To
  <2>2. \A b \in Attempts :
            /\ pc[b] \in {"register", "upsert"} <=> pc'[b] \in {"register", "upsert"}
            /\ pc[b] \in {"register", "upsert"} => thread'[b] = thread[b]
    BY <1>6 DEF PlaceThrows, To, TypeOK
  <2> QED
    BY <2>1, <2>2, Untouched DEF Account
<1>7. ASSUME NEW a \in Attempts, Screen(a) PROVE Account(t)
  <2>1. UNCHANGED <<home, listed, entry>>
    BY <1>7 DEF Screen, Mishap
  <2>2. \A b \in Attempts :
            /\ pc[b] \in {"register", "upsert"} <=> pc'[b] \in {"register", "upsert"}
            /\ pc[b] \in {"register", "upsert"} => thread'[b] = thread[b]
    BY <1>7 DEF Screen, Mishap, TypeOK
  <2> QED
    BY <2>1, <2>2, Untouched DEF Account
<1>8. ASSUME NEW a \in Attempts, CheckDuplicate(a) PROVE Account(t)
  <2>1. UNCHANGED <<home, listed, entry>>
    BY <1>8 DEF CheckDuplicate, To
  <2>2. \A b \in Attempts :
            /\ pc[b] \in {"register", "upsert"} <=> pc'[b] \in {"register", "upsert"}
            /\ pc[b] \in {"register", "upsert"} => thread'[b] = thread[b]
    BY <1>8 DEF CheckDuplicate, To, TypeOK
  <2> QED
    BY <2>1, <2>2, Untouched DEF Account
<1>9. ASSUME NEW a \in Attempts, Put(a) PROVE Account(t)
  <2>1. UNCHANGED <<home, listed, entry>>
    BY <1>9 DEF Put, To
  <2>2. \A b \in Attempts :
            /\ pc[b] \in {"register", "upsert"} <=> pc'[b] \in {"register", "upsert"}
            /\ pc[b] \in {"register", "upsert"} => thread'[b] = thread[b]
    BY <1>9 DEF Put, To, TypeOK
  <2> QED
    BY <2>1, <2>2, Untouched DEF Account
<1>10. ASSUME NEW a \in Attempts, Insert(a) PROVE Account(t)
  <2>1. home[a] = NoId /\ thread[a] \in Attempts /\ UNCHANGED <<listed, entry, thread>>
    BY <1>10 DEF Insert, To, Unwritten, Ready, TypeOK
  <2>2. home' = [home EXCEPT ![a] = thread[a]] /\ pc'[a] \in {"register", "upsert"}
          /\ \A b \in Attempts \ {a} : pc'[b] = pc[b]
    BY <1>10 DEF Insert, To, TypeOK
  <2>3. CASE thread[a] = t
    <3>1. Enters(t, a)
      BY <1>10, <2>1, <2>2, <2>3 DEF Insert, Enters, RowsOf, Indexing, CountOf, TypeOK
    <3> QED
      BY <3>1 DEF Account
  <2>4. CASE thread[a] # t
    <3>1. SameCount(t)
      BY <1>10, <2>1, <2>2, <2>4 DEF Insert, SameCount, RowsOf, Indexing, CountOf, TypeOK
    <3> QED
      BY <3>1 DEF Account
  <2> QED
    BY <2>3, <2>4
<1>11. ASSUME NEW a \in Attempts, InsertThrows(a) PROVE Account(t)
  <2>1. UNCHANGED <<home, listed, entry>>
    BY <1>11 DEF InsertThrows, To
  <2>2. \A b \in Attempts :
            /\ pc[b] \in {"register", "upsert"} <=> pc'[b] \in {"register", "upsert"}
            /\ pc[b] \in {"register", "upsert"} => thread'[b] = thread[b]
    BY <1>11 DEF InsertThrows, To, TypeOK
  <2> QED
    BY <2>1, <2>2, Untouched DEF Account
<1>12. ASSUME NEW a \in Attempts, Register(a) PROVE Account(t)
  <2>1. UNCHANGED <<home, listed, entry>>
    BY <1>12 DEF Register, To
  <2>2. \A b \in Attempts :
            /\ pc[b] \in {"register", "upsert"} <=> pc'[b] \in {"register", "upsert"}
            /\ pc[b] \in {"register", "upsert"} => thread'[b] = thread[b]
    BY <1>12 DEF Register, To, TypeOK
  <2> QED
    BY <2>1, <2>2, Untouched DEF Account
<1>13. ASSUME NEW a \in Attempts, Upsert(a) PROVE Account(t)
  <2>1. /\ UNCHANGED <<home, thread>> /\ pc[a] = "upsert" /\ thread[a] \in Attempts
        /\ pc'[a] \notin {"register", "upsert"}
        /\ \A b \in Attempts \ {a} : pc'[b] = pc[b]
    BY <1>13 DEF Upsert, To, AfterUpsert, Ready, TypeOK
  <2>2. /\ listed' = listed \cup {thread[a]}
        /\ entry' = [entry EXCEPT ![thread[a]] = Indexed(a)]
        /\ Indexed(a).count = CountOf(thread[a]) + 1
    BY <1>13 DEF Upsert, Indexed, CountOf, Blank
  <2>3. CASE thread[a] = t
    <3>1. CountOf(t)' = CountOf(t) + 1
      BY <2>2, <2>3 DEF CountOf, TypeOK
    <3>2. IsCounted(t, a)
      BY <2>1, <2>3, <3>1 DEF IsCounted, RowsOf, Indexing
    <3> QED
      BY <3>2 DEF Account
  <2>4. CASE thread[a] # t
    <3>1. SameCount(t)
      BY <2>1, <2>2, <2>4 DEF SameCount, RowsOf, Indexing, CountOf, TypeOK
    <3> QED
      BY <3>1 DEF Account
  <2> QED
    BY <2>3, <2>4
<1>14. ASSUME NEW a \in Attempts, RegisterFails(a) PROVE Account(t)
  BY <1>14 DEF RegisterFails, Mishap
<1>15. ASSUME NEW a \in Attempts, UpsertFails(a) PROVE Account(t)
  BY <1>15 DEF UpsertFails, Mishap
<1>16. ASSUME NEW a \in Attempts, RuleNone(a) PROVE Account(t)
  <2>1. UNCHANGED <<home, listed, entry>>
    BY <1>16 DEF RuleNone, To
  <2>2. \A b \in Attempts :
            /\ pc[b] \in {"register", "upsert"} <=> pc'[b] \in {"register", "upsert"}
            /\ pc[b] \in {"register", "upsert"} => thread'[b] = thread[b]
    BY <1>16 DEF RuleNone, To, TypeOK
  <2> QED
    BY <2>1, <2>2, Untouched DEF Account
<1>17. ASSUME NEW a \in Attempts, RuleRead(a) PROVE Account(t)
  <2>1. UNCHANGED <<home, listed, entry>>
    BY <1>17 DEF RuleRead, Reading
  <2>2. \A b \in Attempts :
            /\ pc[b] \in {"register", "upsert"} <=> pc'[b] \in {"register", "upsert"}
            /\ pc[b] \in {"register", "upsert"} => thread'[b] = thread[b]
    BY <1>17 DEF RuleRead, Reading, TypeOK
  <2> QED
    BY <2>1, <2>2, Untouched DEF Account
<1>18. ASSUME NEW a \in Attempts, RuleArchive(a) PROVE Account(t)
  <2>1. thread[a] \in listed => [entry[thread[a]] EXCEPT !.archived = TRUE, !.unread = 0].count = entry[thread[a]].count
    BY UnreadKeepsCount DEF TypeOK
  <2>2. Reindex(thread[a], [entry[thread[a]] EXCEPT !.archived = TRUE, !.unread = 0]) /\ UNCHANGED <<home, listed>>
    BY <1>18 DEF RuleArchive
  <2>3. CountOf(t)' = CountOf(t)
    BY <2>1, <2>2, ReindexKeepsCount
  <2>4. \A b \in Attempts :
            /\ pc[b] \in {"register", "upsert"} <=> pc'[b] \in {"register", "upsert"}
            /\ pc[b] \in {"register", "upsert"} => thread'[b] = thread[b]
    BY <1>18 DEF RuleArchive, Reading, TypeOK
  <2> QED
    BY <2>2, <2>3, <2>4, Uncounted DEF Account
<1>19. ASSUME NEW a \in Attempts, RuleMarksIndex(a) PROVE Account(t)
  <2>1. thread[a] \in listed => [entry[thread[a]] EXCEPT !.unread = 0].count = entry[thread[a]].count
    BY UnreadKeepsCount DEF TypeOK
  <2>2. Reindex(thread[a], [entry[thread[a]] EXCEPT !.unread = 0]) /\ UNCHANGED <<home, listed>>
    BY <1>19 DEF RuleMarksIndex
  <2>3. CountOf(t)' = CountOf(t)
    BY <2>1, <2>2, ReindexKeepsCount
  <2>4. \A b \in Attempts :
            /\ pc[b] \in {"register", "upsert"} <=> pc'[b] \in {"register", "upsert"}
            /\ pc[b] \in {"register", "upsert"} => thread'[b] = thread[b]
    BY <1>19 DEF RuleMarksIndex, Reading, TypeOK
  <2> QED
    BY <2>2, <2>3, <2>4, Uncounted DEF Account
<1>20. ASSUME NEW a \in Attempts, RuleMarksMail(a) PROVE Account(t)
  <2>1. UNCHANGED <<home, listed, entry>>
    BY <1>20 DEF RuleMarksMail, Reading, RowsOf
  <2>2. \A b \in Attempts :
            /\ pc[b] \in {"register", "upsert"} <=> pc'[b] \in {"register", "upsert"}
            /\ pc[b] \in {"register", "upsert"} => thread'[b] = thread[b]
    BY <1>20 DEF RuleMarksMail, Reading, RowsOf, TypeOK
  <2> QED
    BY <2>1, <2>2, Untouched DEF Account
<1>21. ASSUME NEW a \in Attempts, RuleDelete(a) PROVE Account(t)
  <2>1. UNCHANGED <<home, listed, entry>>
    BY <1>21 DEF RuleDelete
  <2>2. \A b \in Attempts :
            /\ pc[b] \in {"register", "upsert"} <=> pc'[b] \in {"register", "upsert"}
            /\ pc[b] \in {"register", "upsert"} => thread'[b] = thread[b]
    BY <1>21 DEF RuleDelete, TypeOK
  <2> QED
    BY <2>1, <2>2, Untouched DEF Account
<1>22. ASSUME NEW a \in Attempts, RuleDropsRow(a) PROVE Account(t)
  <2>1. thread[a] # t
    BY <1>22, RuleErases DEF RuleDropsRow
  <2>2. \A m \in Attempts : home[m] = t <=> home'[m] = t
    BY <1>22, <2>1 DEF RuleDropsRow, To, Settled, TypeOK
  <2>3. listed' \cap {t} = listed \cap {t} /\ entry'[t] = entry[t]
    BY <1>22, <2>1 DEF RuleDropsRow, To, TypeOK
  <2>4. \A b \in Attempts :
            /\ pc[b] \in {"register", "upsert"} <=> pc'[b] \in {"register", "upsert"}
            /\ pc[b] \in {"register", "upsert"} => thread'[b] = thread[b]
    BY <1>22 DEF RuleDropsRow, To, TypeOK
  <2> QED
    BY <2>2, <2>3, <2>4 DEF Account, SameCount, RowsOf, Indexing, CountOf, TypeOK
<1>23. ASSUME NEW a \in Attempts, RuleCounts(a) PROVE Account(t)
  <2>1. UNCHANGED <<home, listed, entry>>
    BY <1>23 DEF RuleCounts, To
  <2>2. \A b \in Attempts :
            /\ pc[b] \in {"register", "upsert"} <=> pc'[b] \in {"register", "upsert"}
            /\ pc[b] \in {"register", "upsert"} => thread'[b] = thread[b]
    BY <1>23 DEF RuleCounts, To, TypeOK
  <2> QED
    BY <2>1, <2>2, Untouched DEF Account
<1>24. ASSUME NEW a \in Attempts, RuleDropsThread(a) PROVE Account(t)
  <2>1. thread[a] # t
    BY <1>24, RuleErases DEF RuleDropsThread
  <2>2. \A m \in Attempts : home[m] = t <=> home'[m] = t
    BY <1>24, <2>1 DEF RuleDropsThread, To, Cascade, Settled, TypeOK
  <2>3. listed' \cap {t} = listed \cap {t} /\ entry'[t] = entry[t]
    BY <1>24, <2>1 DEF RuleDropsThread, To, Cascade, TypeOK
  <2>4. \A b \in Attempts :
            /\ pc[b] \in {"register", "upsert"} <=> pc'[b] \in {"register", "upsert"}
            /\ pc[b] \in {"register", "upsert"} => thread'[b] = thread[b]
    BY <1>24 DEF RuleDropsThread, To, Cascade, TypeOK
  <2> QED
    BY <2>2, <2>3, <2>4 DEF Account, SameCount, RowsOf, Indexing, CountOf, TypeOK
<1>25. ASSUME NEW a \in Attempts, RuleDropsIndex(a) PROVE Account(t)
  <2>1. thread[a] # t
    BY <1>25, RuleErases DEF RuleDropsIndex
  <2>2. \A m \in Attempts : home[m] = t <=> home'[m] = t
    BY <1>25, <2>1 DEF RuleDropsIndex, To, Unlist, Queue, Settled, TypeOK
  <2>3. listed' \cap {t} = listed \cap {t} /\ entry'[t] = entry[t]
    BY <1>25, <2>1 DEF RuleDropsIndex, To, Unlist, Queue, TypeOK
  <2>4. \A b \in Attempts :
            /\ pc[b] \in {"register", "upsert"} <=> pc'[b] \in {"register", "upsert"}
            /\ pc[b] \in {"register", "upsert"} => thread'[b] = thread[b]
    BY <1>25 DEF RuleDropsIndex, To, Unlist, Queue, TypeOK
  <2> QED
    BY <2>2, <2>3, <2>4 DEF Account, SameCount, RowsOf, Indexing, CountOf, TypeOK
<1>26. ASSUME NEW a \in Attempts, RuleReadsStats(a) PROVE Account(t)
  <2>1. UNCHANGED <<home, listed, entry>>
    BY <1>26 DEF RuleReadsStats
  <2>2. \A b \in Attempts :
            /\ pc[b] \in {"register", "upsert"} <=> pc'[b] \in {"register", "upsert"}
            /\ pc[b] \in {"register", "upsert"} => thread'[b] = thread[b]
    BY <1>26 DEF RuleReadsStats, TypeOK
  <2> QED
    BY <2>1, <2>2, Untouched DEF Account
<1>27. ASSUME NEW a \in Attempts, RuleWritesStats(a) PROVE Account(t)
  <2>1. thread[a] # t
    BY <1>27, RuleErases DEF RuleWritesStats, Queue
  <2>2. \A m \in Attempts : home[m] = t <=> home'[m] = t
    BY <1>27, <2>1 DEF RuleWritesStats, Queue, To, Reindex, Settled, TypeOK
  <2>3. listed' \cap {t} = listed \cap {t} /\ entry'[t] = entry[t]
    BY <1>27, <2>1 DEF RuleWritesStats, Queue, To, Reindex, TypeOK
  <2>4. \A b \in Attempts :
            /\ pc[b] \in {"register", "upsert"} <=> pc'[b] \in {"register", "upsert"}
            /\ pc[b] \in {"register", "upsert"} => thread'[b] = thread[b]
    BY <1>27 DEF RuleWritesStats, Queue, To, Reindex, TypeOK
  <2> QED
    BY <2>2, <2>3, <2>4 DEF Account, SameCount, RowsOf, Indexing, CountOf, TypeOK
<1>28. ASSUME NEW a \in Attempts, RuleFails(a) PROVE Account(t)
  BY <1>28 DEF RuleFails, Mishap
<1>29. ASSUME NEW a \in Attempts, Push(a) PROVE Account(t)
  <2>1. UNCHANGED <<home, listed, entry>>
    BY <1>29 DEF Push, To
  <2>2. \A b \in Attempts :
            /\ pc[b] \in {"register", "upsert"} <=> pc'[b] \in {"register", "upsert"}
            /\ pc[b] \in {"register", "upsert"} => thread'[b] = thread[b]
    BY <1>29 DEF Push, To, TypeOK
  <2> QED
    BY <2>1, <2>2, Untouched DEF Account
<1>30. ASSUME NEW a \in Attempts, Die(a) PROVE Account(t)
  BY <1>30 DEF Die, Mishap
<1>31. ASSUME NEW r \in Requests, Ask(r) PROVE Account(t)
  BY <1>31 DEF Ask, FirstStep, Account, SameCount, RowsOf, Indexing, CountOf
<1>32. ASSUME NEW r \in Requests, Patch(r) PROVE Account(t)
  <2>1. on[r] \in listed => Patched(entry[on[r]], op[r]).count = entry[on[r]].count
    BY <1>32, PatchKeepsCount DEF Patch, Asked, TypeOK
  <2>2. Reindex(on[r], Patched(entry[on[r]], op[r])) /\ UNCHANGED <<home, listed>>
    BY <1>32 DEF Patch
  <2>3. CountOf(t)' = CountOf(t)
    BY <2>1, <2>2, ReindexKeepsCount
  <2>4. \A b \in Attempts :
            /\ pc[b] \in {"register", "upsert"} <=> pc'[b] \in {"register", "upsert"}
            /\ pc[b] \in {"register", "upsert"} => thread'[b] = thread[b]
    BY <1>32 DEF Patch, Marking, TypeOK
  <2> QED
    BY <2>2, <2>3, <2>4, Uncounted DEF Account
<1>33. ASSUME NEW r \in Requests, MarkIndex(r) PROVE Account(t)
  <2>1. on[r] \in listed => [entry[on[r]] EXCEPT !.unread = 0].count = entry[on[r]].count
    BY UnreadKeepsCount DEF TypeOK
  <2>2. Reindex(on[r], [entry[on[r]] EXCEPT !.unread = 0]) /\ UNCHANGED <<home, listed>>
    BY <1>33 DEF MarkIndex
  <2>3. CountOf(t)' = CountOf(t)
    BY <2>1, <2>2, ReindexKeepsCount
  <2>4. \A b \in Attempts :
            /\ pc[b] \in {"register", "upsert"} <=> pc'[b] \in {"register", "upsert"}
            /\ pc[b] \in {"register", "upsert"} => thread'[b] = thread[b]
    BY <1>33 DEF MarkIndex, Marking, TypeOK
  <2> QED
    BY <2>2, <2>3, <2>4, Uncounted DEF Account
<1>34. ASSUME NEW r \in Requests, MarkMail(r) PROVE Account(t)
  BY <1>34 DEF MarkMail, Marking, Found, RowsOf, Account, SameCount, Indexing, CountOf
<1>35. ASSUME NEW r \in Requests, Unresolved(r) PROVE Account(t)
  BY <1>35 DEF Unresolved, ReqTo, Account, SameCount, RowsOf, Indexing, CountOf
<1>36. ASSUME NEW r \in Requests, ReadKeys(r) PROVE Account(t)
  BY <1>36 DEF ReadKeys, Found, RowsOf, Account, SameCount, Indexing, CountOf
<1>37. ASSUME NEW r \in Requests, DropThread(r) PROVE Account(t)
  <2>1. on[r] # t
    BY <1>37 DEF DropThread, Settled, Erasing
  <2>2. \A m \in Attempts : home[m] = t <=> home'[m] = t
    BY <1>37, <2>1 DEF DropThread, ReqTo, Cascade, TypeOK
  <2>3. listed' \cap {t} = listed \cap {t} /\ entry'[t] = entry[t]
    BY <1>37, <2>1 DEF DropThread, ReqTo, Cascade, TypeOK
  <2> QED
    BY <1>37, <2>2, <2>3 DEF DropThread, ReqTo, Cascade, Account, SameCount, RowsOf, Indexing, CountOf, TypeOK
<1>38. ASSUME NEW r \in Requests, DropIndex(r) PROVE Account(t)
  <2>1. on[r] # t
    BY <1>38 DEF DropIndex, Settled, Erasing
  <2>2. \A m \in Attempts : home[m] = t <=> home'[m] = t
    BY <1>38, <2>1 DEF DropIndex, ReqTo, Unlist, Queue, TypeOK
  <2>3. listed' \cap {t} = listed \cap {t} /\ entry'[t] = entry[t]
    BY <1>38, <2>1 DEF DropIndex, ReqTo, Unlist, Queue, TypeOK
  <2> QED
    BY <1>38, <2>2, <2>3 DEF DropIndex, ReqTo, Unlist, Queue, Account, SameCount, RowsOf, Indexing, CountOf, TypeOK
<1>39. ASSUME NEW r \in Requests, RequestDies(r) PROVE Account(t)
  BY <1>39 DEF RequestDies, Mishap
<1>40. CASE SweepStart
  BY <1>40 DEF SweepStart, Account, SameCount, RowsOf, Indexing, CountOf, Page
<1>41. ASSUME NEW k \in sweep.list, SweepBlob(k) PROVE Account(t)
  BY <1>41 DEF SweepBlob, Account, SameCount, RowsOf, Indexing, CountOf
<1>42. ASSUME NEW k \in sweep.list, SweepBlobFails(k) PROVE Account(t)
  BY <1>42 DEF SweepBlobFails, Mishap, Account, SameCount, RowsOf, Indexing, CountOf
<1>43. CASE SweepClear
  BY <1>43 DEF SweepClear, Account, SameCount, RowsOf, Indexing, CountOf
<1>44. CASE SweepDies
  BY <1>44 DEF SweepDies, Mishap
<1>45. QED
  BY <1>1, <1>2, <1>3, <1>4, <1>5, <1>6, <1>7, <1>8, <1>9, <1>10, <1>11, <1>12, <1>13,
     <1>14, <1>15, <1>16, <1>17, <1>18, <1>19, <1>20, <1>21, <1>22, <1>23, <1>24, <1>25,
     <1>26, <1>27, <1>28, <1>29, <1>30, <1>31, <1>32, <1>33, <1>34, <1>35, <1>36, <1>37,
     <1>38, <1>39, <1>40, <1>41, <1>42, <1>43, <1>44
  DEF Next, Storing, Filtering, Serving, Sweeping

\* One element more, and one less.
LEMMA OneMore ==
    ASSUME NEW S, IsFiniteSet(S), NEW x, x \notin S
    PROVE  Cardinality(S \cup {x}) = Cardinality(S) + 1
  BY FS_AddElement

LEMMA OneLess ==
    ASSUME NEW S, IsFiniteSet(S), NEW x \in S
    PROVE  Cardinality(S \ {x}) = Cardinality(S) - 1
  BY FS_RemoveElement

LEMMA MishapsGrow == 
    ASSUME TypeOK, [Next]_vars, mishaps' = 0 PROVE mishaps = 0
<1> USE BoundsAssumption DEF TypeOK, vars
<1>1. CASE UNCHANGED vars
  BY <1>1 DEF vars
<1>2. ASSUME NEW a \in Attempts, FindParent(a) PROVE mishaps = 0
  BY <1>2 DEF FindParent
<1>3. ASSUME NEW a \in Attempts, FindSubject(a) PROVE mishaps = 0
  BY <1>3 DEF FindSubject
<1>4. ASSUME NEW a \in Attempts, PlaceNew(a) PROVE mishaps = 0
  BY <1>4 DEF PlaceNew
<1>5. ASSUME NEW a \in Attempts, PlaceKnown(a) PROVE mishaps = 0
  BY <1>5 DEF PlaceKnown
<1>6. ASSUME NEW a \in Attempts, PlaceThrows(a) PROVE mishaps = 0
  BY <1>6 DEF PlaceThrows
<1>7. ASSUME NEW a \in Attempts, Screen(a) PROVE mishaps = 0
  BY <1>7 DEF Screen, Mishap
<1>8. ASSUME NEW a \in Attempts, CheckDuplicate(a) PROVE mishaps = 0
  BY <1>8 DEF CheckDuplicate
<1>9. ASSUME NEW a \in Attempts, Put(a) PROVE mishaps = 0
  BY <1>9 DEF Put
<1>10. ASSUME NEW a \in Attempts, Insert(a) PROVE mishaps = 0
  BY <1>10 DEF Insert
<1>11. ASSUME NEW a \in Attempts, InsertThrows(a) PROVE mishaps = 0
  BY <1>11 DEF InsertThrows
<1>12. ASSUME NEW a \in Attempts, Register(a) PROVE mishaps = 0
  BY <1>12 DEF Register
<1>13. ASSUME NEW a \in Attempts, Upsert(a) PROVE mishaps = 0
  BY <1>13 DEF Upsert
<1>14. ASSUME NEW a \in Attempts, RegisterFails(a) PROVE mishaps = 0
  BY <1>14 DEF RegisterFails, Mishap
<1>15. ASSUME NEW a \in Attempts, UpsertFails(a) PROVE mishaps = 0
  BY <1>15 DEF UpsertFails, Mishap
<1>16. ASSUME NEW a \in Attempts, RuleNone(a) PROVE mishaps = 0
  BY <1>16 DEF RuleNone
<1>17. ASSUME NEW a \in Attempts, RuleRead(a) PROVE mishaps = 0
  BY <1>17 DEF RuleRead
<1>18. ASSUME NEW a \in Attempts, RuleArchive(a) PROVE mishaps = 0
  BY <1>18 DEF RuleArchive
<1>19. ASSUME NEW a \in Attempts, RuleMarksIndex(a) PROVE mishaps = 0
  BY <1>19 DEF RuleMarksIndex
<1>20. ASSUME NEW a \in Attempts, RuleMarksMail(a) PROVE mishaps = 0
  BY <1>20 DEF RuleMarksMail
<1>21. ASSUME NEW a \in Attempts, RuleDelete(a) PROVE mishaps = 0
  BY <1>21 DEF RuleDelete
<1>22. ASSUME NEW a \in Attempts, RuleDropsRow(a) PROVE mishaps = 0
  BY <1>22 DEF RuleDropsRow
<1>23. ASSUME NEW a \in Attempts, RuleCounts(a) PROVE mishaps = 0
  BY <1>23 DEF RuleCounts
<1>24. ASSUME NEW a \in Attempts, RuleDropsThread(a) PROVE mishaps = 0
  BY <1>24 DEF RuleDropsThread
<1>25. ASSUME NEW a \in Attempts, RuleDropsIndex(a) PROVE mishaps = 0
  BY <1>25 DEF RuleDropsIndex
<1>26. ASSUME NEW a \in Attempts, RuleReadsStats(a) PROVE mishaps = 0
  BY <1>26 DEF RuleReadsStats
<1>27. ASSUME NEW a \in Attempts, RuleWritesStats(a) PROVE mishaps = 0
  BY <1>27 DEF RuleWritesStats, Queue
<1>28. ASSUME NEW a \in Attempts, RuleFails(a) PROVE mishaps = 0
  BY <1>28 DEF RuleFails, Mishap
<1>29. ASSUME NEW a \in Attempts, Push(a) PROVE mishaps = 0
  BY <1>29 DEF Push
<1>30. ASSUME NEW a \in Attempts, Die(a) PROVE mishaps = 0
  BY <1>30 DEF Die, Mishap
<1>31. ASSUME NEW r \in Requests, Ask(r) PROVE mishaps = 0
  BY <1>31 DEF Ask
<1>32. ASSUME NEW r \in Requests, Patch(r) PROVE mishaps = 0
  BY <1>32 DEF Patch
<1>33. ASSUME NEW r \in Requests, MarkIndex(r) PROVE mishaps = 0
  BY <1>33 DEF MarkIndex
<1>34. ASSUME NEW r \in Requests, MarkMail(r) PROVE mishaps = 0
  BY <1>34 DEF MarkMail
<1>35. ASSUME NEW r \in Requests, Unresolved(r) PROVE mishaps = 0
  BY <1>35 DEF Unresolved
<1>36. ASSUME NEW r \in Requests, ReadKeys(r) PROVE mishaps = 0
  BY <1>36 DEF ReadKeys
<1>37. ASSUME NEW r \in Requests, DropThread(r) PROVE mishaps = 0
  BY <1>37 DEF DropThread
<1>38. ASSUME NEW r \in Requests, DropIndex(r) PROVE mishaps = 0
  BY <1>38 DEF DropIndex
<1>39. ASSUME NEW r \in Requests, RequestDies(r) PROVE mishaps = 0
  BY <1>39 DEF RequestDies, Mishap
<1>40. CASE SweepStart
  BY <1>40 DEF SweepStart, Page
<1>41. ASSUME NEW k \in sweep.list, SweepBlob(k) PROVE mishaps = 0
  BY <1>41 DEF SweepBlob
<1>42. ASSUME NEW k \in sweep.list, SweepBlobFails(k) PROVE mishaps = 0
  BY <1>42 DEF SweepBlobFails, Mishap
<1>43. CASE SweepClear
  BY <1>43 DEF SweepClear
<1>44. CASE SweepDies
  BY <1>44 DEF SweepDies, Mishap
<1>45. QED
  BY <1>1, <1>2, <1>3, <1>4, <1>5, <1>6, <1>7, <1>8, <1>9, <1>10, <1>11, <1>12, <1>13,
     <1>14, <1>15, <1>16, <1>17, <1>18, <1>19, <1>20, <1>21, <1>22, <1>23, <1>24, <1>25,
     <1>26, <1>27, <1>28, <1>29, <1>30, <1>31, <1>32, <1>33, <1>34, <1>35, <1>36, <1>37,
     <1>38, <1>39, <1>40, <1>41, <1>42, <1>43, <1>44
  DEF Next, Storing, Filtering, Serving, Sweeping

LEMMA IndexCountsNext == IInv /\ IndexCounts /\ [Next]_vars => IndexCounts'
<1> SUFFICES ASSUME IInv, IndexCounts, [Next]_vars, mishaps' = 0,
                    NEW t \in Attempts, ~Erasing(t)'
             PROVE  Cardinality(RowsOf(t)') = Cardinality(Indexing(t)') + CountOf(t)'
  BY DEF IndexCounts, CountOf
<1>1. ~Erasing(t)
  BY ErasingStays DEF IInv
<1>2. mishaps = 0
  BY MishapsGrow DEF IInv
<1>3. Cardinality(RowsOf(t)) = Cardinality(Indexing(t)) + CountOf(t)
  BY <1>1, <1>2 DEF IndexCounts, CountOf
<1>4. Account(t)
  BY <1>1, AccountStep
<1>5. /\ IsFiniteSet(RowsOf(t)) /\ Cardinality(RowsOf(t)) \in Nat
      /\ IsFiniteSet(Indexing(t)) /\ Cardinality(Indexing(t)) \in Nat
  BY BoundsAssumption, FS_Subset, FS_CardinalityType DEF RowsOf, Indexing
<1>6. CountOf(t) \in Nat
  BY DEF IInv, TypeOK, Entries, CountOf
<1>7. CASE SameCount(t)
  BY <1>3, <1>7 DEF SameCount
<1>8. ASSUME NEW a \in Attempts, Enters(t, a)
      PROVE  Cardinality(RowsOf(t)') = Cardinality(Indexing(t)') + CountOf(t)'
  <2>1. Cardinality(RowsOf(t)') = Cardinality(RowsOf(t)) + 1
    BY <1>5, <1>8, OneMore DEF Enters
  <2>2. Cardinality(Indexing(t)') = Cardinality(Indexing(t)) + 1
    BY <1>5, <1>8, OneMore DEF Enters
  <2> QED
    BY <1>3, <1>5, <1>6, <1>8, <2>1, <2>2 DEF Enters
<1>9. ASSUME NEW a \in Attempts, IsCounted(t, a)
      PROVE  Cardinality(RowsOf(t)') = Cardinality(Indexing(t)') + CountOf(t)'
  <2>1. Cardinality(Indexing(t)') = Cardinality(Indexing(t)) - 1
    BY <1>5, <1>9, OneLess DEF IsCounted
  <2> QED
    BY <1>3, <1>5, <1>6, <1>9, <2>1 DEF IsCounted
<1> QED
  BY <1>4, <1>7, <1>8, <1>9 DEF Account

\* Where nothing was deleted and nothing failed, the row of a thread in threads_index
\* counts its messages, but for those a delivery or a send is about to count (store.ts,
\* send.ts): no interleaving of deliveries, answers and patches loses one.
THEOREM IndexCountsMessages == Spec => []IndexCounts
<1>1. Init => IndexCounts
  <2> SUFFICES ASSUME Init, NEW t \in Attempts
               PROVE  Cardinality(RowsOf(t)) = Cardinality(Indexing(t)) + CountOf(t)
    BY DEF IndexCounts, CountOf
  <2>1. RowsOf(t) = {} /\ Indexing(t) = {} /\ CountOf(t) = 0
    BY NoIdAssumption DEF Init, RowsOf, Indexing, CountOf
  <2> QED
    BY <2>1, FS_EmptySet
<1> QED
  BY <1>1, IndexCountsNext, InvHolds, PTL DEF Spec
-----------------------------------------------------------------------------
(* The import of mbox files.                                               *)

(***************************************************************************)
(* What a look-up has found, said of the messages that were stored when it *)
(* began: those do not change, so it stays true.                           *)
(***************************************************************************)
NoParent(l, since, j) ==
    \A r \in 1 .. since : stored[r].letter \in Answers[l] => stored[r].store # Stores[j]

NoAlike(l, since, base, j) ==
    \A t, r \in 1 .. since :
        /\ stored[t].thread = t /\ Topic[stored[t].letter] = Topic[l]
        /\ stored[r].thread = t /\ Written[stored[r].letter] + Fortnight >= base
        => stored[t].store # Stores[j]

FoundParent(l, since, t, n) ==
    \E i \in DOMAIN Stores :
        /\ stored[t].store = Stores[i]
        /\ \A j \in 1 .. i - 1 : NoParent(l, since, j)
        /\ \E r \in 1 .. n : stored[r].letter \in Answers[l] /\ stored[r].thread = t

FoundAlike(l, since, base, t, n) ==
    /\ \A j \in DOMAIN Stores : NoParent(l, since, j)
    /\ Topic[stored[t].letter] = Topic[l]
    /\ \E i \in DOMAIN Stores :
        /\ stored[t].store = Stores[i]
        /\ \A j \in 1 .. i - 1 : NoAlike(l, since, base, j)
        /\ \E r \in 1 .. n : stored[r].thread = t /\ Written[stored[r].letter] + Fortnight >= base

FoundNone(l, since, base) ==
    \A j \in DOMAIN Stores : NoParent(l, since, j) /\ NoAlike(l, since, base, j)

BaseFits(kind, l, since, base) ==
    IF kind = "import" THEN base = Written[l]
                       ELSE \A r \in 1 .. since : stored[r].base <= base

Known(kind, l, since, base, opens, t, n) ==
    \/ opens /\ FoundNone(l, since, base) /\ BaseFits(kind, l, since, base)
    \/ /\ ~opens /\ t \in 1 .. n /\ stored[t].thread = t
       /\ \/ FoundParent(l, since, t, n)
          \/ FoundAlike(l, since, base, t, n) /\ BaseFits(kind, l, since, base)

\* How a stored message came to its thread.
Traced(d) ==
    LET m == stored[d]
    IN  /\ stored[m.thread].thread = m.thread
        /\ m.base <= today
        /\ Known(m.by, m.letter, m.since, m.base, m.thread = d, m.thread, d - 1)

\* What a loader has found so far.
Searched(v, l) ==
    /\ v.at = "parent" => ~v.opens /\ \A j \in 1 .. v.i - 1 : NoParent(l, v.since, j)
    /\ v.at = "subject" =>
        /\ ~v.opens
        /\ \A j \in DOMAIN Stores : NoParent(l, v.since, j)
        /\ \A j \in 1 .. v.i - 1 : NoAlike(l, v.since, v.base, j)
        /\ v.i # 1 => BaseFits(v.kind, l, v.since, v.base)
    /\ v.at \in {"place", "duplicate", "insert"} =>
          Known(v.kind, l, v.since, v.base, v.opens, v.thread, Len(stored))
    /\ v.at = "register" => v.thread \in 1 .. Len(stored)

Knows(v) ==
    /\ v.since <= Len(stored) /\ v.base <= today
    /\ \A k \in 1 .. Len(v.file) : Written[v.file[k]] <= today
    /\ Searched(v, Head(v.file))

ImportInv ==
    /\ ImportTypeOK
    /\ \A w \in Loaders : loader[w] # Resting => Knows(loader[w])
    /\ \A d \in 1 .. Len(stored) : Traced(d)

LEMMA StoredTyped ==
    ASSUME ImportTypeOK
    PROVE  /\ Len(stored) \in Nat /\ Rows = 1 .. Len(stored)
           /\ \A r \in 1 .. Len(stored) :
                /\ stored[r] \in Messages
                /\ stored[r].thread \in 1 .. r /\ stored[r].since < r
                /\ stored[r].store = stored[stored[r].thread].store
                /\ \E j \in DOMAIN Stores : stored[r].store = Stores[j]
<1>1. stored \in Seq(Messages)
  BY DEF ImportTypeOK
<1>2. Len(stored) \in Nat /\ Rows = 1 .. Len(stored)
  BY <1>1, LenProperties DEF Rows
<1>3. ASSUME NEW r \in 1 .. Len(stored)
      PROVE  stored[r] \in Messages /\ \E j \in DOMAIN Stores : stored[r].store = Stores[j]
  <2>1. stored[r] \in Messages
    BY <1>1, <1>3, ElementOfSeq
  <2>2. stored[r].store \in {FirstStore} \cup Overflow
    BY <2>1 DEF Messages
  <2>3. QED
    BY <2>1, <2>2, LettersAssumption DEF FirstStore, Overflow
<1>4. QED
  BY <1>2, <1>3 DEF ImportTypeOK

Beside(t, c) == stored[t].store = stored[c].store
Quieter(c, t, n) == ~ \E r \in 1 .. n : stored[c].since < r /\ stored[r].thread = t

(***************************************************************************)
(* Two look-ups of one letter: the second began when the first copy was    *)
(* stored, and ends in the database that holds it, but for the exceptions. *)
(***************************************************************************)
LEMMA Meets ==
    ASSUME ImportTypeOK, NEW c \in 1 .. Len(stored), NEW l, l = stored[c].letter, Traced(c),
           NEW kind, NEW since \in Nat, c <= since, since <= Len(stored), NEW base \in Nat,
           NEW opens, NEW t, NEW n, n = Len(stored), Known(kind, l, since, base, opens, t, n),
           kind # "import" => Written[l] + Fortnight >= base,
           ~(kind = "import" /\ base = Written[l] /\ base < stored[c].base),
           Quieter(c, t, n)
    PROVE  ~opens /\ Beside(t, c)
<1>0. /\ n \in Nat /\ c \in Nat
      /\ \A r \in 1 .. n :
                /\ stored[r] \in Messages
                /\ stored[r].thread \in 1 .. r /\ stored[r].since < r
                /\ stored[r].store = stored[stored[r].thread].store
                /\ \E j \in DOMAIN Stores : stored[r].store = Stores[j]
  BY StoredTyped
<1>1. PICK s \in Nat, b \in Nat, T \in 1 .. c, S \in {stored[c].store} :
        /\ s = stored[c].since /\ b = stored[c].base /\ T = stored[c].thread /\ S = stored[c].store
        /\ s < c /\ stored[T].store = S
  BY <1>0 DEF Messages
<1>2. l \in Letters /\ Written[l] \in Nat /\ Fortnight \in Nat
  BY <1>0, LettersAssumption, ImportBounds DEF Messages
<1>3. stored[T].thread = T
  BY <1>1 DEF Traced
<1>4. \A r \in 1 .. n : stored[r].thread = t => r <= s
  BY <1>0, <1>1 DEF Quieter
<1>5. BaseFits(kind, l, since, base) => b <= base /\ Written[l] + Fortnight >= base
  BY <1>0, <1>1, <1>2 DEF BaseFits
<1>6. CASE FoundParent(l, s, T, c - 1)
  <2>1. PICK i \in DOMAIN Stores, p \in 1 .. c - 1 :
          /\ S = Stores[i] /\ \A j \in 1 .. i - 1 : NoParent(l, s, j)
          /\ stored[p].letter \in Answers[l] /\ stored[p].thread = T
    BY <1>1, <1>6 DEF FoundParent
  <2>2. stored[p].store = Stores[i] /\ p \in 1 .. since
    BY <1>0, <1>1, <2>1
  <2>3. ~NoParent(l, since, i)
    BY <2>1, <2>2 DEF NoParent
  <2>4. ~opens /\ FoundParent(l, since, t, n)
    BY <2>3 DEF Known, FoundNone, FoundAlike
  <2>5. PICK k \in DOMAIN Stores, q \in 1 .. n :
          /\ stored[t].store = Stores[k] /\ \A j \in 1 .. k - 1 : NoParent(l, since, j)
          /\ stored[q].letter \in Answers[l] /\ stored[q].thread = t
    BY <2>4 DEF FoundParent
  <2>6. i \in Nat /\ k \in Nat /\ i >= 1 /\ k >= 1
    BY LettersAssumption
  <2>7. ~(i < k)
    BY <2>3, <2>5, <2>6
  <2>8. stored[q].store = Stores[k] /\ q \in 1 .. s
    BY <1>0, <1>1, <1>4, <2>5
  <2>9. ~NoParent(l, s, k)
    BY <2>5, <2>8 DEF NoParent
  <2>10. ~(k < i)
    BY <2>1, <2>6, <2>9
  <2>11. QED
    BY <1>1, <2>1, <2>4, <2>5, <2>6, <2>7, <2>10 DEF Beside
<1>7. ASSUME NEW opened,
             \/ opened /\ T = c /\ FoundNone(l, s, b)
             \/ ~opened /\ FoundAlike(l, s, b, T, c - 1)
      PROVE  ~opens /\ Beside(t, c)
  <2>1. /\ \A j \in DOMAIN Stores : NoParent(l, s, j)
        /\ Topic[stored[T].letter] = Topic[l]
    BY <1>7 DEF FoundNone, FoundAlike
  <2>2. ~FoundParent(l, since, t, n)
    <3> SUFFICES ASSUME FoundParent(l, since, t, n)
                 PROVE  FALSE
      OBVIOUS
    <3>1. PICK k \in DOMAIN Stores, q \in 1 .. n :
            stored[t].store = Stores[k] /\ stored[q].letter \in Answers[l] /\ stored[q].thread = t
      BY DEF FoundParent
    <3>2. stored[q].store = Stores[k] /\ q \in 1 .. s
      BY <1>0, <1>1, <1>4, <3>1
    <3>3. QED
      BY <2>1, <3>1, <3>2 DEF NoParent
  <2>3. BaseFits(kind, l, since, base)
    BY <2>2 DEF Known
  <2>4. PICK i \in DOMAIN Stores : S = Stores[i]
    BY <1>0, <1>1
  <2>5. ~NoAlike(l, since, base, i)
    <3>1. T \in 1 .. since /\ c \in 1 .. since
      BY <1>0, <1>1
    <3>2. stored[c].thread = T /\ Written[stored[c].letter] + Fortnight >= base
      BY <1>1, <1>5, <2>3
    <3>3. QED
      BY <1>1, <1>3, <2>1, <2>4, <3>1, <3>2 DEF NoAlike
  <2>6. ~opens /\ stored[t].thread = t /\ FoundAlike(l, since, base, t, n)
    BY <2>2, <2>5 DEF Known, FoundNone
  <2>7. PICK k \in DOMAIN Stores, q \in 1 .. n :
          /\ stored[t].store = Stores[k] /\ \A j \in 1 .. k - 1 : NoAlike(l, since, base, j)
          /\ stored[q].thread = t /\ Written[stored[q].letter] + Fortnight >= base
    BY <2>6 DEF FoundAlike
  <2>8. q \in 1 .. s /\ t \in 1 .. s /\ stored[q].letter \in Letters
    BY <1>0, <1>1, <1>4, <2>7 DEF Messages
  <2>9. Written[stored[q].letter] + Fortnight >= b
    <3>1. Written[stored[q].letter] \in Nat
      BY <2>8, LettersAssumption
    <3>2. QED
      BY <1>1, <1>2, <1>5, <2>3, <2>7, <3>1
  <2>10. Topic[stored[t].letter] = Topic[l]
    BY <2>6 DEF FoundAlike
  <2>11. ~NoAlike(l, s, b, k)
    BY <2>6, <2>7, <2>8, <2>9, <2>10 DEF NoAlike
  <2>12. ~opened /\ FoundAlike(l, s, b, T, c - 1)
    BY <1>7, <2>11 DEF FoundNone
  <2>13. PICK m \in DOMAIN Stores : S = Stores[m] /\ \A j \in 1 .. m - 1 : NoAlike(l, s, b, j)
    BY <1>1, <2>12 DEF FoundAlike
  <2>14. ~NoAlike(l, since, base, m)
    BY <2>4, <2>5, <2>13 DEF NoAlike
  <2>15. m \in Nat /\ k \in Nat /\ m >= 1 /\ k >= 1
    BY LettersAssumption
  <2>16. ~(m < k) /\ ~(k < m)
    BY <2>7, <2>11, <2>13, <2>14, <2>15
  <2>17. QED
    BY <1>1, <2>6, <2>7, <2>13, <2>15, <2>16 DEF Beside
<1>8. \/ FoundParent(l, s, T, c - 1)
      \/ T = c /\ FoundNone(l, s, b)
      \/ T # c /\ FoundAlike(l, s, b, T, c - 1)
  BY <1>1 DEF Traced, Known
<1>9. QED
  BY <1>6, <1>7, <1>8

-----------------------------------------------------------------------------
(* What was found stays found.                                             *)

Grows ==
    /\ Len(stored) \in Nat /\ Len(stored)' \in Nat /\ Len(stored) <= Len(stored)'
    /\ \A r \in 1 .. Len(stored) : stored'[r] = stored[r]

LEMMA KnownStays ==
    ASSUME Grows, NEW kind, NEW l, NEW since \in Nat, since <= Len(stored), NEW base, NEW opens, NEW t,
           NEW n \in Nat, n <= Len(stored), NEW m \in Nat, n <= m, Known(kind, l, since, base, opens, t, n)
    PROVE  Known(kind, l, since, base, opens, t, m)'
<1>1. \A r \in 1 .. since : stored'[r] = stored[r]
  BY DEF Grows
<1>2. \A r \in 1 .. n : stored'[r] = stored[r] /\ r \in 1 .. m
  BY DEF Grows
<1>3. \A j : NoParent(l, since, j) => NoParent(l, since, j)'
  BY <1>1 DEF NoParent
<1>4. \A j : NoAlike(l, since, base, j) => NoAlike(l, since, base, j)'
  BY <1>1 DEF NoAlike
<1>5. BaseFits(kind, l, since, base) => BaseFits(kind, l, since, base)'
  BY <1>1 DEF BaseFits
<1>6. ASSUME t \in 1 .. n, FoundParent(l, since, t, n)
      PROVE  FoundParent(l, since, t, m)'
  BY <1>2, <1>3, <1>6 DEF FoundParent
<1>7. ASSUME t \in 1 .. n, FoundAlike(l, since, base, t, n)
      PROVE  FoundAlike(l, since, base, t, m)'
  BY <1>2, <1>3, <1>4, <1>7 DEF FoundAlike
<1>8. FoundNone(l, since, base) => FoundNone(l, since, base)'
  BY <1>3, <1>4 DEF FoundNone
<1>9. QED
  BY <1>2, <1>5, <1>6, <1>7, <1>8 DEF Known

LEMMA KnowsStays ==
    ASSUME Grows, NEW v \in Working, Knows(v), today \in Nat, today' \in Nat, today <= today'
    PROVE  Knows(v)'
<1>1. v.since \in Nat /\ v.base \in Nat /\ v.i \in Nat /\ Len(v.file) \in Nat
  BY LenProperties, LettersAssumption DEF Working
<1>2. PICK n \in Nat, m \in Nat : n = Len(stored) /\ m = Len(stored)' /\ n <= m
  BY DEF Grows
<1>3. PICK l : l = Head(v.file)
  OBVIOUS
<1>4. v.since <= n /\ v.base <= today /\ Searched(v, l)
  BY <1>2, <1>3 DEF Knows
<1>5. \A r \in 1 .. v.since : stored'[r] = stored[r]
  BY <1>1, <1>2, <1>4 DEF Grows
<1>6. \A j : NoParent(l, v.since, j) => NoParent(l, v.since, j)'
  BY <1>5 DEF NoParent
<1>7. \A j : NoAlike(l, v.since, v.base, j) => NoAlike(l, v.since, v.base, j)'
  BY <1>5 DEF NoAlike
<1>8. BaseFits(v.kind, l, v.since, v.base) => BaseFits(v.kind, l, v.since, v.base)'
  BY <1>5 DEF BaseFits
<1>9. Known(v.kind, l, v.since, v.base, v.opens, v.thread, n)
        => Known(v.kind, l, v.since, v.base, v.opens, v.thread, m)'
  BY <1>1, <1>2, <1>4, KnownStays
<1>10. Searched(v, l)'
  <2>1. v.at = "parent" => ~v.opens /\ \A j \in 1 .. v.i - 1 : NoParent(l, v.since, j)'
    BY <1>4, <1>6 DEF Searched
  <2>2. v.at = "subject" =>
        /\ ~v.opens
        /\ \A j \in DOMAIN Stores : NoParent(l, v.since, j)'
        /\ \A j \in 1 .. v.i - 1 : NoAlike(l, v.since, v.base, j)'
        /\ v.i # 1 => BaseFits(v.kind, l, v.since, v.base)'
    BY <1>4, <1>6, <1>7, <1>8 DEF Searched
  <2>3. v.at \in {"place", "duplicate", "insert"} =>
          Known(v.kind, l, v.since, v.base, v.opens, v.thread, m)'
    BY <1>2, <1>4, <1>9 DEF Searched
  <2>4. v.at = "register" => v.thread \in 1 .. m
    BY <1>2, <1>4 DEF Searched
  <2>5. Known(v.kind, l, v.since, v.base, v.opens, v.thread, m)' =
          Known(v.kind, l, v.since, v.base, v.opens, v.thread, Len(stored))'
    BY <1>2
  <2>6. QED
    BY <1>2, <2>1, <2>2, <2>3, <2>4, <2>5 DEF Searched
<1>11. \A k \in 1 .. Len(v.file) : Written[v.file[k]] <= today'
  <2> TAKE k \in 1 .. Len(v.file)
  <2>1. v.file[k] \in Letters
    BY ElementOfSeq DEF Working
  <2>2. Written[v.file[k]] \in Nat /\ Written[v.file[k]] <= today
    BY <2>1, LettersAssumption DEF Knows
  <2>3. QED
    BY <2>2
<1>12. v.since <= Len(stored)' /\ v.base <= today'
  BY <1>1, <1>2, <1>4
<1>13. QED
  BY <1>3, <1>10, <1>11, <1>12 DEF Knows

LEMMA TracedStays ==
    ASSUME ImportTypeOK, Grows, NEW d \in 1 .. Len(stored), Traced(d),
           today \in Nat, today' \in Nat, today <= today'
    PROVE  Traced(d)'
<1>1. /\ stored[d] \in Messages /\ stored[d].thread \in 1 .. d /\ stored[d].since < d /\ d \in Nat
      /\ Len(stored) \in Nat
  BY StoredTyped
<1>2. PICK m \in Messages : m = stored[d]
  BY <1>1
<1>3. stored'[d] = m /\ m.since \in Nat /\ m.since <= Len(stored) /\ m.base \in Nat /\ m.thread \in 1 .. d
  BY <1>1, <1>2 DEF Grows, Messages
<1>4. /\ stored[m.thread].thread = m.thread /\ m.base <= today
      /\ Known(m.by, m.letter, m.since, m.base, m.thread = d, m.thread, d - 1)
  BY <1>2 DEF Traced
<1>5. PICK n \in Nat : n = d - 1 /\ n <= Len(stored)
  BY <1>1
<1>6. Known(m.by, m.letter, m.since, m.base, m.thread = d, m.thread, n)'
  BY <1>3, <1>4, <1>5, KnownStays
<1>7. stored'[m.thread] = stored[m.thread]
  BY <1>1, <1>3 DEF Grows
<1>8. m.base <= today'
  BY <1>3, <1>4
<1>9. QED
  BY <1>3, <1>4, <1>5, <1>6, <1>7, <1>8 DEF Traced

-----------------------------------------------------------------------------
(* The steps of a loader.                                                  *)

\* What a step leaves of a loader: it rests, or knows what it has found.
Apt(v) == v = Resting \/ (v \in Working /\ Knows(v))

LEMMA AtWork ==
    ASSUME ImportInv, NEW w \in Loaders, loader[w].kind # "none"
    PROVE  /\ loader[w] \in Working /\ Knows(loader[w]) /\ loader[w] # Resting
           /\ Head(loader[w].file) \in Letters
<1>1. loader[w] \in Working \cup {Resting}
  BY DEF ImportInv, ImportTypeOK
<1>2. loader[w] # Resting
  BY DEF Resting
<1>3. loader[w] \in Working /\ Knows(loader[w])
  BY <1>1, <1>2 DEF ImportInv
<1>4. loader[w].file \in Seq(Letters) /\ loader[w].file # <<>>
  BY <1>3 DEF Working
<1>5. QED
  BY <1>2, <1>3, <1>4, HeadTailProperties

LEMMA StartingApt ==
    ASSUME NEW kind \in {"import", "delivery"}, NEW file \in Seq(Letters), file # <<>>,
           NEW warm \in SUBSET Overflow, NEW rows \in Nat, rows <= Len(stored'), today' \in Nat,
           \A k \in 1 .. Len(file) : Written[file[k]] <= today'
    PROVE  Apt(Starting(kind, file, warm, rows))'
<1>1. PICK v : v = Starting(kind, file, warm, rows)
  OBVIOUS
<1>2. 1 \in 1 .. Len(Stores) /\ FirstStore \in {FirstStore} \cup Overflow
  BY LettersAssumption
<1>3. v.at \in {"parent", "subject"} /\ v.at \in LoadSteps
  BY <1>1 DEF Starting, LoadSteps
<1>4. FALSE \in BOOLEAN
  OBVIOUS
<1>5. v \in Working
  BY <1>1, <1>2, <1>3, <1>4 DEF Starting, Working
<1>6. /\ v.since = rows /\ v.base = 0 /\ v.file = file /\ v.i = 1 /\ v.opens = FALSE
      /\ v.at = "subject" => Answers[Head(file)] = {}
  BY <1>1 DEF Starting
<1>7. v.at = "subject" => \A j \in DOMAIN Stores : NoParent(Head(file), rows, j)'
  BY <1>6 DEF NoParent
<1>8. Searched(v, Head(file))'
  BY <1>3, <1>6, <1>7 DEF Searched
<1>9. Knows(v)'
  BY <1>6, <1>8 DEF Knows
<1>10. QED
  BY <1>1, <1>5, <1>9 DEF Apt

LEMMA GoesOnApt ==
    ASSUME ImportInv, NEW w \in Loaders, loader[w].kind # "none", GoesOn(w),
           Len(stored') \in Nat, today' = today, today \in Nat
    PROVE  \E v : loader' = [loader EXCEPT ![w] = v] /\ Apt(v)'
<1>1. PICK u \in Working : u = loader[w] /\ Knows(u)
  BY AtWork
<1>2. PICK n \in Nat : n = Len(stored')
  OBVIOUS
<1>3. loader' = [loader EXCEPT ![w] = IF Len(u.file) = 1 THEN Resting
                                      ELSE Starting(u.kind, Tail(u.file), u.warm, n)]
  BY <1>1, <1>2 DEF GoesOn
<1>4. u.file \in Seq(Letters) /\ u.file # <<>>
  BY <1>1 DEF Working
<1>5. CASE Len(u.file) = 1
  BY <1>3, <1>5 DEF Apt
<1>6. CASE Len(u.file) # 1
  <2>1. PICK rest \in Seq(Letters) :
          /\ rest = Tail(u.file) /\ Len(rest) = Len(u.file) - 1
          /\ \A k \in 1 .. Len(rest) : rest[k] = u.file[k + 1]
    <3>1. /\ Tail(u.file) \in Seq(Letters) /\ Len(Tail(u.file)) = Len(u.file) - 1
          /\ \A k \in 1 .. Len(Tail(u.file)) : Tail(u.file)[k] = u.file[k + 1]
      BY <1>4, HeadTailProperties
    <3>2. QED
      BY <3>1
  <2>2. Len(u.file) \in Nat /\ Len(rest) \in Nat /\ Len(rest) # 0
    BY <1>4, <1>6, <2>1, LenProperties
  <2>3. rest # <<>>
    BY <2>2, EmptySeq
  <2>4. \A k \in 1 .. Len(rest) : Written[rest[k]] <= today'
    <3> TAKE k \in 1 .. Len(rest)
    <3>1. k + 1 \in 1 .. Len(u.file)
      BY <2>1, <2>2
    <3>2. QED
      BY <1>1, <2>1, <3>1 DEF Knows
  <2>5. u.kind \in {"import", "delivery"} /\ u.warm \in SUBSET Overflow
    BY <1>1 DEF Working
  <2>6. PICK v : v = Starting(u.kind, rest, u.warm, n)
    OBVIOUS
  <2>7. Apt(v)'
    <3>1. n <= Len(stored') /\ today' \in Nat
      BY <1>2
    <3>2. Apt(Starting(u.kind, rest, u.warm, n))'
      BY <2>3, <2>4, <2>5, <3>1, StartingApt
    <3>3. QED
      BY <2>6, <3>2
  <2>8. QED
    BY <1>3, <1>6, <2>1, <2>6, <2>7
<1>7. QED
  BY <1>5, <1>6

\* A step that stores nothing.
Quiet == stored' = stored /\ today' = today

LEMMA QuietApt ==
    ASSUME ImportInv, Quiet, NEW v \in Working, Knows(v)
    PROVE  Apt(v)'
<1>1. Len(stored) \in Nat /\ today \in Nat
  BY StoredTyped, ImportBounds DEF ImportInv, ImportTypeOK
<1>2. Grows
  BY <1>1 DEF Grows, Quiet
<1>3. QED
  BY <1>1, <1>2, KnowsStays DEF Quiet, Apt

LEMMA LookUpParentApt ==
    ASSUME ImportInv, NEW w \in Loaders, LookUpParent(w)
    PROVE  Quiet /\ \E v : loader' = [loader EXCEPT ![w] = v] /\ Apt(v)'
<1>1. Quiet /\ Busy(w, "parent")
  BY DEF LookUpParent, Quiet
<1>2. PICK u \in Working : u = loader[w] /\ Knows(u) /\ u.at = "parent" /\ Head(u.file) \in Letters
  BY <1>1, AtWork DEF Busy
<1>3. PICK l \in Letters : l = Head(u.file)
  BY <1>2
<1>4. /\ u.since \in Nat /\ u.since <= Len(stored) /\ u.i \in 1 .. Len(Stores)
      /\ ~u.opens /\ \A j \in 1 .. u.i - 1 : NoParent(l, u.since, j)
      /\ u.base <= today /\ \A k \in 1 .. Len(u.file) : Written[u.file[k]] <= today
  BY <1>2, <1>3 DEF Knows, Searched, Working
<1>5. /\ Len(stored) \in Nat /\ Rows = 1 .. Len(stored) /\ Len(Stores) \in Nat
      /\ DOMAIN Stores = 1 .. Len(Stores)
  BY StoredTyped, LettersAssumption DEF ImportInv
<1>6. ASSUME NEW r \in Rows, stored[r].store = Stores[u.i], stored[r].letter \in Answers[l],
             loader' = [loader EXCEPT ![w].thread = stored[r].thread, ![w].at = "place", ![w].i = 1]
      PROVE  \E v : loader' = [loader EXCEPT ![w] = v] /\ Apt(v)'
  <2>1. PICK t \in 1 .. Len(stored) : t = stored[r].thread
    BY <1>5, <1>6, StoredTyped DEF ImportInv
  <2>2. stored[t].thread = t /\ stored[t].store = Stores[u.i]
    BY <1>5, <1>6, <2>1, StoredTyped DEF ImportInv, Traced
  <2>3. PICK v : v = [u EXCEPT !.thread = t, !.at = "place", !.i = 1]
    OBVIOUS
  <2>4. loader' = [loader EXCEPT ![w] = v]
    BY <1>2, <1>6, <2>1, <2>3 DEF ImportInv, ImportTypeOK
  <2>5. /\ v.at = "place" /\ v.thread = t /\ v.since = u.since /\ v.base = u.base /\ v.file = u.file
        /\ v.kind = u.kind /\ v.opens = u.opens
    BY <2>3 DEF Working
  <2>6. v \in Working
    <3>1. t \in Nat /\ 1 \in 1 .. Len(Stores) /\ "place" \in LoadSteps
      BY <1>5, <2>1, LettersAssumption DEF LoadSteps
    <3>2. QED
      BY <2>3, <3>1 DEF Working
  <2>7. FoundParent(l, u.since, t, Len(stored))
    BY <1>4, <1>5, <1>6, <2>1, <2>2 DEF FoundParent
  <2>8. Known(v.kind, l, v.since, v.base, v.opens, v.thread, Len(stored))
    BY <1>4, <1>5, <2>1, <2>2, <2>5, <2>7 DEF Known
  <2>9. Knows(v)
    BY <1>3, <1>4, <2>5, <2>8 DEF Knows, Searched
  <2>10. QED
    BY <1>1, <2>4, <2>6, <2>9, QuietApt
<1>7. ASSUME \A r \in Rows : stored[r].letter \in Answers[l] => stored[r].store # Stores[u.i],
             Onwards(w, [loader[w] EXCEPT !.at = "subject", !.i = 1])
      PROVE  \E v : loader' = [loader EXCEPT ![w] = v] /\ Apt(v)'
  <2>1. NoParent(l, u.since, u.i)
    BY <1>4, <1>5, <1>7 DEF NoParent
  <2>2. \A j \in 1 .. u.i : NoParent(l, u.since, j)
    BY <1>4, <1>5, <2>1
  <2>3. CASE u.i < Len(Stores)
    <3>1. PICK v : v = [u EXCEPT !.i = u.i + 1]
      OBVIOUS
    <3>2. loader' = [loader EXCEPT ![w] = v]
      BY <1>2, <1>7, <2>3, <3>1 DEF Onwards, ImportInv, ImportTypeOK
    <3>3. /\ v.at = "parent" /\ v.i = u.i + 1 /\ v.since = u.since /\ v.base = u.base /\ v.file = u.file
          /\ v.opens = u.opens
      BY <1>2, <3>1 DEF Working
    <3>4. v \in Working
      BY <1>4, <1>5, <2>3, <3>1 DEF Working
    <3>5. Knows(v)
      BY <1>3, <1>4, <1>5, <2>2, <3>3 DEF Knows, Searched
    <3>6. QED
      BY <1>1, <3>2, <3>4, <3>5, QuietApt
  <2>4. CASE ~(u.i < Len(Stores))
    <3>1. PICK v : v = [u EXCEPT !.at = "subject", !.i = 1]
      OBVIOUS
    <3>2. loader' = [loader EXCEPT ![w] = v]
      BY <1>2, <1>7, <2>4, <3>1 DEF Onwards
    <3>3. /\ v.at = "subject" /\ v.i = 1 /\ v.since = u.since /\ v.base = u.base /\ v.file = u.file
          /\ v.opens = u.opens
      BY <1>2, <3>1 DEF Working
    <3>4. v \in Working
      <4>1. 1 \in 1 .. Len(Stores) /\ "subject" \in LoadSteps
        BY LettersAssumption DEF LoadSteps
      <4>2. QED
        BY <3>1, <4>1 DEF Working
    <3>5. Knows(v)
      BY <1>3, <1>4, <1>5, <2>2, <2>4, <3>3 DEF Knows, Searched
    <3>6. QED
      BY <1>1, <3>2, <3>4, <3>5, QuietApt
  <2>5. QED
    BY <2>3, <2>4
<1>8. QED
  <2>1. \/ \E r \in Rows : /\ stored[r].store = Stores[u.i] /\ stored[r].letter \in Answers[l]
                           /\ loader' = [loader EXCEPT ![w].thread = stored[r].thread, ![w].at = "place", ![w].i = 1]
        \/ /\ {r \in Rows : stored[r].store = Stores[u.i] /\ stored[r].letter \in Answers[l]} = {}
           /\ Onwards(w, [loader[w] EXCEPT !.at = "subject", !.i = 1])
    BY <1>2, <1>3 DEF LookUpParent, LetterOf, Joins
  <2>2. QED
    BY <1>1, <1>6, <1>7, <2>1

LEMMA LookUpSubjectApt ==
    ASSUME ImportInv, NEW w \in Loaders, LookUpSubject(w)
    PROVE  Quiet /\ \E v : loader' = [loader EXCEPT ![w] = v] /\ Apt(v)'
<1>1. Quiet /\ Busy(w, "subject")
  BY DEF LookUpSubject, Quiet
<1>2. PICK u \in Working : u = loader[w] /\ Knows(u) /\ u.at = "subject" /\ Head(u.file) \in Letters
  BY <1>1, AtWork DEF Busy
<1>3. PICK l \in Letters : l = Head(u.file)
  BY <1>2
<1>4. /\ u.since \in Nat /\ u.since <= Len(stored) /\ u.i \in 1 .. Len(Stores) /\ u.base \in Nat
      /\ ~u.opens /\ \A j \in DOMAIN Stores : NoParent(l, u.since, j)
      /\ \A j \in 1 .. u.i - 1 : NoAlike(l, u.since, u.base, j)
      /\ u.i # 1 => BaseFits(u.kind, l, u.since, u.base)
      /\ u.base <= today /\ \A k \in 1 .. Len(u.file) : Written[u.file[k]] <= today
      /\ u.kind \in {"import", "delivery"}
  BY <1>2, <1>3 DEF Knows, Searched, Working
<1>5. /\ Len(stored) \in Nat /\ Rows = 1 .. Len(stored) /\ Len(Stores) \in Nat
      /\ DOMAIN Stores = 1 .. Len(Stores)
      /\ today \in Nat
  BY StoredTyped, LettersAssumption, ImportBounds DEF ImportInv, ImportTypeOK
<1>6. Written[l] \in Nat /\ Written[l] <= today
  <2>1. u.file \in Seq(Letters) /\ u.file # <<>>
    BY <1>2 DEF Working
  <2>2. Len(u.file) \in Nat \ {0} /\ l = u.file[1]
    BY <1>3, <2>1, EmptySeq
  <2>3. QED
    BY <1>3, <1>4, <2>2, LettersAssumption
<1>7. PICK day : day = IF u.i = 1 THEN BaseDay(w) ELSE u.base
  OBVIOUS
<1>8. day \in Nat /\ day <= today /\ BaseFits(u.kind, l, u.since, day)
  <2>1. CASE u.i # 1
    BY <1>4, <1>7, <2>1
  <2>2. CASE u.i = 1 /\ u.kind = "import"
    <3>1. day = Written[l]
      BY <1>2, <1>3, <1>7, <2>2 DEF BaseDay, LetterOf
    <3>2. QED
      BY <1>6, <2>2, <3>1 DEF BaseFits
  <2>3. CASE u.i = 1 /\ u.kind # "import"
    <3>1. day = today
      BY <1>2, <1>7, <2>3 DEF BaseDay
    <3>2. \A r \in 1 .. u.since : stored[r].base <= today
      BY <1>4, <1>5 DEF ImportInv, Traced
    <3>3. QED
      BY <1>5, <2>3, <3>1, <3>2 DEF BaseFits
  <2>4. QED
    BY <2>1, <2>2, <2>3
<1>9. \A j \in 1 .. u.i - 1 : NoAlike(l, u.since, day, j)
  BY <1>4, <1>5, <1>7
<1>10. PICK alike : alike = Recent(Topic[l], day, Stores[u.i])
  OBVIOUS
<1>11. ASSUME NEW t \in alike,
              loader' = [loader EXCEPT ![w].thread = t, ![w].at = "place", ![w].base = day]
       PROVE  \E v : loader' = [loader EXCEPT ![w] = v] /\ Apt(v)'
  <2>1. /\ t \in 1 .. Len(stored) /\ stored[t].thread = t /\ stored[t].store = Stores[u.i]
        /\ Topic[stored[t].letter] = Topic[l]
        /\ \E r \in 1 .. Len(stored) : stored[r].thread = t /\ Written[stored[r].letter] + Fortnight >= day
    BY <1>5, <1>10, <1>11 DEF Recent
  <2>2. PICK v : v = [u EXCEPT !.thread = t, !.at = "place", !.base = day]
    OBVIOUS
  <2>3. loader' = [loader EXCEPT ![w] = v]
    BY <1>2, <1>11, <2>2 DEF ImportInv, ImportTypeOK
  <2>4. /\ v.at = "place" /\ v.thread = t /\ v.since = u.since /\ v.base = day /\ v.file = u.file
        /\ v.kind = u.kind /\ v.opens = u.opens
    BY <2>2 DEF Working
  <2>5. v \in Working
    <3>1. t \in Nat /\ "place" \in LoadSteps
      BY <2>1 DEF LoadSteps
    <3>2. QED
      BY <1>8, <2>2, <3>1 DEF Working
  <2>6. FoundAlike(l, u.since, day, t, Len(stored))
    BY <1>4, <1>5, <1>9, <2>1 DEF FoundAlike
  <2>7. Known(v.kind, l, v.since, v.base, v.opens, v.thread, Len(stored))
    BY <1>4, <1>8, <2>1, <2>4, <2>6 DEF Known
  <2>8. Knows(v)
    BY <1>3, <1>4, <1>8, <2>4, <2>7 DEF Knows, Searched
  <2>9. QED
    BY <1>1, <2>3, <2>5, <2>8, QuietApt
<1>12. ASSUME alike = {}
       PROVE  \A j \in 1 .. u.i : NoAlike(l, u.since, day, j)
  <2>1. NoAlike(l, u.since, day, u.i)
    <3> SUFFICES ASSUME NEW t \in 1 .. u.since, NEW r \in 1 .. u.since,
                        stored[t].thread = t, Topic[stored[t].letter] = Topic[l],
                        stored[r].thread = t, Written[stored[r].letter] + Fortnight >= day,
                        stored[t].store = Stores[u.i]
                 PROVE  FALSE
      BY DEF NoAlike
    <3>1. t \in Rows /\ r \in Rows
      BY <1>4, <1>5
    <3>2. t \in alike
      BY <1>10, <3>1 DEF Recent
    <3>3. QED
      BY <1>12, <3>2
  <2>2. QED
    BY <1>4, <1>5, <1>9, <2>1
<1>13. ASSUME alike = {}, u.i < Len(Stores),
              loader' = [loader EXCEPT ![w].i = @ + 1, ![w].base = day]
       PROVE  \E v : loader' = [loader EXCEPT ![w] = v] /\ Apt(v)'
  <2>1. PICK v : v = [u EXCEPT !.i = u.i + 1, !.base = day]
    OBVIOUS
  <2>2. loader' = [loader EXCEPT ![w] = v]
    BY <1>2, <1>13, <2>1 DEF ImportInv, ImportTypeOK
  <2>3. /\ v.at = "subject" /\ v.i = u.i + 1 /\ v.since = u.since /\ v.base = day /\ v.file = u.file
        /\ v.kind = u.kind /\ v.opens = u.opens
    BY <1>2, <2>1 DEF Working
  <2>4. v \in Working
    <3>1. u.i + 1 \in 1 .. Len(Stores)
      BY <1>4, <1>5, <1>13
    <3>2. QED
      BY <1>8, <2>1, <3>1 DEF Working
  <2>5. Searched(v, l)
    BY <1>4, <1>5, <1>8, <1>12, <1>13, <2>3 DEF Searched
  <2>6. Knows(v)
    BY <1>3, <1>4, <1>8, <2>3, <2>5 DEF Knows
  <2>7. QED
    BY <1>1, <2>2, <2>4, <2>6, QuietApt
<1>14. ASSUME alike = {}, ~(u.i < Len(Stores)),
              loader' = [loader EXCEPT ![w].opens = TRUE, ![w].at = "place", ![w].base = day]
       PROVE  \E v : loader' = [loader EXCEPT ![w] = v] /\ Apt(v)'
  <2>1. PICK v : v = [u EXCEPT !.opens = TRUE, !.at = "place", !.base = day]
    OBVIOUS
  <2>2. loader' = [loader EXCEPT ![w] = v]
    BY <1>2, <1>14, <2>1 DEF ImportInv, ImportTypeOK
  <2>3. /\ v.at = "place" /\ v.since = u.since /\ v.base = day /\ v.file = u.file
        /\ v.kind = u.kind /\ v.opens = TRUE
    BY <2>1 DEF Working
  <2>4. v \in Working
    <3>1. TRUE \in BOOLEAN /\ "place" \in LoadSteps
      BY DEF LoadSteps
    <3>2. QED
      BY <1>8, <2>1, <3>1 DEF Working
  <2>5. FoundNone(l, u.since, day)
    BY <1>4, <1>5, <1>12, <1>14 DEF FoundNone
  <2>6. Known(v.kind, l, v.since, v.base, v.opens, v.thread, Len(stored))
    BY <1>8, <2>3, <2>5 DEF Known
  <2>7. Knows(v)
    BY <1>3, <1>4, <1>8, <2>3, <2>6 DEF Knows, Searched
  <2>8. QED
    BY <1>1, <2>2, <2>4, <2>7, QuietApt
<1>15. QED
  <2>1. \/ \E t \in alike : loader' = [loader EXCEPT ![w].thread = t, ![w].at = "place", ![w].base = day]
        \/ /\ alike = {} /\ u.i < Len(Stores)
           /\ loader' = [loader EXCEPT ![w].i = @ + 1, ![w].base = day]
        \/ /\ alike = {} /\ ~(u.i < Len(Stores))
           /\ loader' = [loader EXCEPT ![w].opens = TRUE, ![w].at = "place", ![w].base = day]
    BY <1>2, <1>3, <1>7, <1>10 DEF LookUpSubject, LetterOf
  <2>2. QED
    BY <1>1, <1>11, <1>13, <1>14, <2>1

\* The database is chosen; what was found is kept.
LEMMA PlaceApt ==
    ASSUME ImportInv, NEW w \in Loaders, PlaceOpening(w) \/ PlaceJoining(w)
    PROVE  Quiet /\ \E v : loader' = [loader EXCEPT ![w] = v] /\ Apt(v)'
<1>1. Quiet /\ Busy(w, "place")
  BY DEF PlaceOpening, PlaceJoining, Quiet
<1>2. PICK u \in Working : u = loader[w] /\ Knows(u) /\ u.at = "place"
  BY <1>1, AtWork DEF Busy
<1>3. \E d \in {FirstStore} \cup Overflow, warm \in SUBSET Overflow :
         loader' = [loader EXCEPT ![w] = [u EXCEPT !.store = d, !.at = "duplicate", !.warm = warm]]
  <2>1. CASE PlaceOpening(w)
    <3>1. PICK d \in {FirstStore} \cup Overflow :
            loader' = [loader EXCEPT ![w].store = d, ![w].at = "duplicate",
                                     ![w].warm = @ \cup ({d} \cap Overflow)]
      BY <2>1 DEF PlaceOpening
    <3>2. u.warm \cup ({d} \cap Overflow) \in SUBSET Overflow
      BY <1>2 DEF Working
    <3>3. loader' = [loader EXCEPT ![w] = [u EXCEPT !.store = d, !.at = "duplicate",
                                                    !.warm = u.warm \cup ({d} \cap Overflow)]]
      BY <1>2, <3>1 DEF ImportInv, ImportTypeOK
    <3>4. QED
      BY <3>2, <3>3
  <2>2. CASE PlaceJoining(w)
    <3>1. PICK d : /\ d = SiteOf(u.thread)
                   /\ loader' = [loader EXCEPT ![w].store = d, ![w].at = "duplicate"]
      BY <1>2, <2>2 DEF PlaceJoining
    <3>2. d \in {FirstStore} \cup Overflow
      <4>1. sited \subseteq 1 .. Len(stored)
        BY StoredTyped DEF ImportInv, ImportTypeOK
      <4>2. u.thread \in sited => stored[u.thread].store \in {FirstStore} \cup Overflow
        BY <4>1, StoredTyped DEF ImportInv, Messages
      <4>3. QED
        BY <3>1, <4>2 DEF SiteOf
    <3>3. u = [u EXCEPT !.warm = u.warm] /\ u.warm \in SUBSET Overflow
      BY <1>2 DEF Working
    <3>4. [u EXCEPT !.store = d, !.at = "duplicate"] = [u EXCEPT !.store = d, !.at = "duplicate", !.warm = u.warm]
      BY <1>2 DEF Working
    <3>5. loader' = [loader EXCEPT ![w] = [u EXCEPT !.store = d, !.at = "duplicate"]]
      BY <1>2, <3>1 DEF ImportInv, ImportTypeOK
    <3>6. QED
      BY <3>2, <3>3, <3>4, <3>5
  <2>3. QED
    BY <2>1, <2>2
<1>4. PICK d \in {FirstStore} \cup Overflow, warm \in SUBSET Overflow :
         loader' = [loader EXCEPT ![w] = [u EXCEPT !.store = d, !.at = "duplicate", !.warm = warm]]
  BY <1>3
<1>5. PICK v : v = [u EXCEPT !.store = d, !.at = "duplicate", !.warm = warm]
  OBVIOUS
<1>6. /\ v.at = "duplicate" /\ v.since = u.since /\ v.base = u.base /\ v.file = u.file
      /\ v.kind = u.kind /\ v.opens = u.opens /\ v.thread = u.thread
  BY <1>5 DEF Working
<1>7. v \in Working
  <2>1. "duplicate" \in LoadSteps
    BY DEF LoadSteps
  <2>2. QED
    BY <1>5, <2>1 DEF Working
<1>8. Knows(v)
  BY <1>2, <1>6 DEF Knows, Searched
<1>9. QED
  BY <1>1, <1>4, <1>5, <1>7, <1>8, QuietApt

LEMMA FindDuplicateApt ==
    ASSUME ImportInv, NEW w \in Loaders, FindDuplicate(w)
    PROVE  Quiet /\ \E v : loader' = [loader EXCEPT ![w] = v] /\ Apt(v)'
<1>1. Quiet /\ Busy(w, "duplicate")
  BY DEF FindDuplicate, Quiet
<1>2. PICK u \in Working : u = loader[w] /\ Knows(u) /\ u.at = "duplicate"
  BY <1>1, AtWork DEF Busy
<1>3. CASE GoesOn(w)
  <2>1. Len(stored') \in Nat /\ today \in Nat
    BY <1>1, StoredTyped, ImportBounds DEF ImportInv, ImportTypeOK, Quiet
  <2>2. QED
    BY <1>1, <1>3, <2>1, GoesOnApt DEF Quiet, Busy
<1>4. CASE loader' = [loader EXCEPT ![w].at = "insert"]
  <2>1. PICK v : v = [u EXCEPT !.at = "insert"]
    OBVIOUS
  <2>2. loader' = [loader EXCEPT ![w] = v]
    BY <1>2, <1>4, <2>1 DEF ImportInv, ImportTypeOK
  <2>3. /\ v.at = "insert" /\ v.since = u.since /\ v.base = u.base /\ v.file = u.file
        /\ v.kind = u.kind /\ v.opens = u.opens /\ v.thread = u.thread
    BY <2>1 DEF Working
  <2>4. v \in Working
    <3>1. "insert" \in LoadSteps
      BY DEF LoadSteps
    <3>2. QED
      BY <2>1, <3>1 DEF Working
  <2>5. Knows(v)
    BY <1>2, <2>3 DEF Knows, Searched
  <2>6. QED
    BY <1>1, <2>2, <2>4, <2>5, QuietApt
<1>5. QED
  BY <1>1, <1>3, <1>4 DEF FindDuplicate

\* A letter is over: stored elsewhere, refused, failed, or its thread registered.
LEMMA OverApt ==
    ASSUME ImportInv, NEW w \in Loaders,
           PlaceFails(w) \/ StoreThrows(w) \/ RegisterSite(w) \/ LetterFails(w) \/ Killed(w)
    PROVE  Quiet /\ \E v : loader' = [loader EXCEPT ![w] = v] /\ Apt(v)'
<1>1. Quiet /\ loader[w].kind # "none"
  BY DEF PlaceFails, StoreThrows, RegisterSite, LetterFails, Killed, Quiet, Busy
<1>2. Len(stored') \in Nat /\ today \in Nat
  BY <1>1, StoredTyped, ImportBounds DEF ImportInv, ImportTypeOK, Quiet
<1>3. CASE GoesOn(w)
  BY <1>1, <1>2, <1>3, GoesOnApt DEF Quiet
<1>4. CASE loader' = [loader EXCEPT ![w] = Resting]
  BY <1>1, <1>4 DEF Apt
<1>5. QED
  BY <1>1, <1>3, <1>4 DEF PlaceFails, StoreThrows, RegisterSite, LetterFails, Killed

LEMMA BeginsApt ==
    ASSUME ImportInv, NEW w \in Loaders, Import(w) \/ Deliver(w)
    PROVE  Quiet /\ \E v : loader' = [loader EXCEPT ![w] = v] /\ Apt(v)'
<1>1. PICK kind \in {"import", "delivery"}, file \in Seq(Letters) : file # <<>> /\ Begins(w, kind, file)
  <2>1. CASE Import(w)
    BY <2>1, LettersAssumption DEF Import
  <2>2. CASE Deliver(w)
    <3>1. PICK l \in Letters : Begins(w, "delivery", <<l>>)
      BY <2>2 DEF Deliver
    <3>2. <<l>> \in Seq(Letters) /\ <<l>> # <<>>
      OBVIOUS
    <3>3. QED
      BY <3>1, <3>2
  <2>3. QED
    BY <2>1, <2>2
<1>2. Quiet /\ loader' = [loader EXCEPT ![w] = Starting(kind, file, {}, Len(stored))]
  BY <1>1 DEF Begins, Quiet
<1>3. Len(stored) \in Nat /\ today \in Nat
  BY StoredTyped, ImportBounds DEF ImportInv, ImportTypeOK
<1>4. \A k \in 1 .. Len(file) : Written[file[k]] <= today'
  BY <1>1, <1>2, LenProperties DEF Begins, Quiet
<1>5. PICK n \in Nat : n = Len(stored)
  BY <1>3
<1>6. Apt(Starting(kind, file, {}, n))'
  BY <1>1, <1>2, <1>3, <1>4, <1>5, StartingApt DEF Quiet
<1>7. PICK v : v = Starting(kind, file, {}, n)
  OBVIOUS
<1>8. QED
  BY <1>2, <1>5, <1>6, <1>7

\* The row a letter becomes.
LEMMA StoreRow ==
    ASSUME ImportInv, NEW w \in Loaders, Store(w)
    PROVE  \E u \in Working, m \in Messages :
              /\ u = loader[w] /\ Knows(u) /\ u.at = "insert" /\ Storable(w)
              /\ stored' = Append(stored, m) /\ today' = today
              /\ m.letter = Head(u.file) /\ m.store = u.store /\ m.since = u.since
              /\ m.base = u.base /\ m.by = u.kind
              /\ u.opens => m.thread = Len(stored) + 1
              /\ ~u.opens => m.thread = u.thread
              /\ \/ GoesOn(w)
                 \/ loader' = [loader EXCEPT ![w] = [u EXCEPT !.at = "register", !.thread = m.thread]]
<1>1. PICK u \in Working : u = loader[w] /\ Knows(u) /\ Head(u.file) \in Letters /\ u.at = "insert"
  BY AtWork DEF Store, Busy
<1>2. PICK t : t = IF u.opens THEN Len(stored) + 1 ELSE u.thread
  OBVIOUS
<1>3. PICK m : m = [letter |-> Head(u.file), thread |-> t, store |-> u.store,
                    since |-> u.since, base |-> u.base, by |-> u.kind]
  OBVIOUS
<1>4. t \in Nat
  BY <1>1, <1>2, StoredTyped DEF ImportInv, Working
<1>5. m \in Messages
  BY <1>1, <1>3, <1>4 DEF Working, Messages
<1>6. stored' = Append(stored, m) /\ today' = today /\ Storable(w)
  BY <1>1, <1>2, <1>3 DEF Store, LetterOf
<1>7. \/ GoesOn(w)
      \/ loader' = [loader EXCEPT ![w].at = "register", ![w].thread = t]
  BY <1>1, <1>2 DEF Store
<1>8. ASSUME loader' = [loader EXCEPT ![w].at = "register", ![w].thread = t]
      PROVE  loader' = [loader EXCEPT ![w] = [u EXCEPT !.at = "register", !.thread = t]]
  BY <1>1, <1>8 DEF ImportInv, ImportTypeOK
<1>9. QED
  BY <1>1, <1>2, <1>3, <1>5, <1>6, <1>7, <1>8

LEMMA Appended ==
    ASSUME ImportTypeOK, NEW m \in Messages, stored' = Append(stored, m)
    PROVE  /\ stored' \in Seq(Messages) /\ Len(stored) \in Nat /\ Len(stored') = Len(stored) + 1
           /\ stored'[Len(stored) + 1] = m
           /\ \A r \in 1 .. Len(stored) : stored'[r] = stored[r]
           /\ Rows = 1 .. Len(stored) /\ Rows' = 1 .. Len(stored) + 1
           /\ Grows
<1>1. stored \in Seq(Messages) /\ Len(stored) \in Nat /\ Rows = 1 .. Len(stored)
  BY StoredTyped DEF ImportTypeOK
<1>2. /\ stored' \in Seq(Messages) /\ Len(stored') = Len(stored) + 1
      /\ stored'[Len(stored) + 1] = m
      /\ \A r \in 1 .. Len(stored) : stored'[r] = stored[r]
  BY <1>1, AppendProperties
<1>3. Rows' = 1 .. Len(stored) + 1
  BY <1>2, LenProperties DEF Rows
<1>4. QED
  BY <1>1, <1>2, <1>3 DEF Grows

LEMMA StoreApt ==
    ASSUME ImportInv, NEW w \in Loaders, Store(w)
    PROVE  /\ Grows /\ today' = today
           /\ \E v : loader' = [loader EXCEPT ![w] = v] /\ Apt(v)'
           /\ stored' \in Seq(Messages) /\ Len(stored') = Len(stored) + 1
           /\ \E d \in {Len(stored) + 1} :
                  /\ stored'[d].thread \in 1 .. d /\ stored'[d].since < d
                  /\ stored'[d].store = stored'[stored'[d].thread].store
                  /\ Traced(d)'
<1>1. PICK u \in Working, m \in Messages :
              /\ u = loader[w] /\ Knows(u) /\ u.at = "insert" /\ Storable(w)
              /\ stored' = Append(stored, m) /\ today' = today
              /\ m.letter = Head(u.file) /\ m.store = u.store /\ m.since = u.since
              /\ m.base = u.base /\ m.by = u.kind
              /\ u.opens => m.thread = Len(stored) + 1
              /\ ~u.opens => m.thread = u.thread
              /\ \/ GoesOn(w)
                 \/ loader' = [loader EXCEPT ![w] = [u EXCEPT !.at = "register", !.thread = m.thread]]
  BY StoreRow
<1>2. /\ stored' \in Seq(Messages) /\ Len(stored) \in Nat /\ Len(stored') = Len(stored) + 1
      /\ stored'[Len(stored) + 1] = m
      /\ \A r \in 1 .. Len(stored) : stored'[r] = stored[r]
      /\ Rows = 1 .. Len(stored) /\ Rows' = 1 .. Len(stored) + 1
      /\ Grows
  BY <1>1, Appended DEF ImportInv
<1>3. PICK n \in Nat, d \in Nat : n = Len(stored) /\ d = n + 1 /\ d = Len(stored')
  BY <1>2
<1>4. PICK l : l = Head(u.file)
  OBVIOUS
<1>5. /\ u.since \in Nat /\ u.base \in Nat /\ u.opens \in BOOLEAN /\ u.thread \in Nat
      /\ u.since <= n /\ u.base <= today /\ today \in Nat
      /\ Known(u.kind, l, u.since, u.base, u.opens, u.thread, n)
  BY <1>1, <1>3, <1>4, ImportBounds DEF Working, Knows, Searched, ImportInv, ImportTypeOK
<1>6. ~u.opens => u.thread \in 1 .. n /\ stored[u.thread].thread = u.thread
  BY <1>5 DEF Known
<1>7. m.thread \in 1 .. d /\ m.since < d
  BY <1>1, <1>3, <1>5, <1>6
<1>8. m.store = stored'[m.thread].store
  BY <1>1, <1>2, <1>3, <1>6 DEF Storable
<1>9. Traced(d)'
  <2>1. stored'[d] = m
    BY <1>2, <1>3
  <2>2. stored'[m.thread].thread = m.thread
    BY <1>1, <1>2, <1>3, <1>6, <2>1
  <2>3. Known(u.kind, l, u.since, u.base, u.opens, u.thread, n)'
    BY <1>2, <1>3, <1>5, KnownStays
  <2>4. Known(m.by, m.letter, m.since, m.base, m.thread = d, m.thread, n)'
    <3>1. CASE u.opens
      <4>1. m.thread = d
        BY <1>1, <1>3, <3>1
      <4>2. QED
        BY <1>1, <1>4, <2>3, <3>1, <4>1 DEF Known
    <3>2. CASE ~u.opens
      <4>1. m.thread = u.thread /\ m.thread # d
        BY <1>1, <1>3, <1>6, <3>2
      <4>2. QED
        BY <1>1, <1>4, <2>3, <3>2, <4>1 DEF Known
    <3>3. QED
      BY <3>1, <3>2
  <2>5. m.base <= today'
    BY <1>1, <1>5
  <2>6. n = d - 1
    BY <1>3
  <2>7. QED
    BY <2>1, <2>2, <2>4, <2>5, <2>6 DEF Traced
<1>10. \E v : loader' = [loader EXCEPT ![w] = v] /\ Apt(v)'
  <2>1. CASE GoesOn(w)
    <3>1. loader[w].kind # "none"
      BY DEF Store, Busy
    <3>2. QED
      BY <1>1, <1>2, <1>5, <2>1, <3>1, GoesOnApt
  <2>2. CASE loader' = [loader EXCEPT ![w] = [u EXCEPT !.at = "register", !.thread = m.thread]]
    <3>1. PICK v : v = [u EXCEPT !.at = "register", !.thread = m.thread]
      OBVIOUS
    <3>2. /\ v.at = "register" /\ v.thread = m.thread /\ v.since = u.since /\ v.base = u.base
          /\ v.file = u.file
      BY <3>1 DEF Working
    <3>3. v \in Working
      <4>1. m.thread \in Nat /\ "register" \in LoadSteps
        BY <1>7 DEF LoadSteps
      <4>2. QED
        BY <3>1, <4>1 DEF Working
    <3>4. Searched(v, l)'
      BY <1>3, <1>7, <3>2 DEF Searched
    <3>5. v.since <= Len(stored') /\ v.base <= today'
      BY <1>1, <1>3, <1>5, <3>2
    <3>6. \A k \in 1 .. Len(v.file) : Written[v.file[k]] <= today'
      BY <1>1, <3>2 DEF Knows
    <3>7. Knows(v)'
      BY <1>4, <3>2, <3>4, <3>5, <3>6 DEF Knows
    <3>8. QED
      BY <2>2, <3>1, <3>3, <3>7 DEF Apt
  <2>3. QED
    BY <1>1, <2>1, <2>2
<1>11. /\ stored'[d].thread \in 1 .. d /\ stored'[d].since < d
       /\ stored'[d].store = stored'[stored'[d].thread].store
  BY <1>2, <1>3, <1>7, <1>8
<1>12. QED
  BY <1>1, <1>2, <1>3, <1>9, <1>10, <1>11

-----------------------------------------------------------------------------
(* The invariant.                                                          *)

LEMMA AptKeeps ==
    ASSUME ImportInv, Grows, today' = today, NEW w \in Loaders, NEW v,
           loader' = [loader EXCEPT ![w] = v], Apt(v)'
    PROVE  /\ loader' \in [Loaders -> Working \union {Resting}]
           /\ \A x \in Loaders : loader'[x] # Resting => Knows(loader[x])'
<1>1. loader \in [Loaders -> Working \union {Resting}] /\ today \in Nat
  BY ImportBounds DEF ImportInv, ImportTypeOK
<1>2. v \in Working \cup {Resting}
  BY DEF Apt
<1>3. loader' \in [Loaders -> Working \union {Resting}]
  BY <1>1, <1>2
<1>4. ASSUME NEW x \in Loaders, loader'[x] # Resting
      PROVE  Knows(loader[x])'
  <2>1. CASE x = w
    BY <1>1, <1>4, <2>1 DEF Apt
  <2>2. CASE x # w
    <3>1. PICK u \in Working : u = loader[x] /\ u = loader'[x] /\ Knows(u)
      BY <1>1, <1>4, <2>2 DEF ImportInv
    <3>2. Knows(u)'
      BY <1>1, <3>1, KnowsStays
    <3>3. QED
      BY <3>1, <3>2
  <2>3. QED
    BY <2>1, <2>2
<1>5. QED
  BY <1>3, <1>4


\* The counters and thread_locations.
LEMMA CountsKeep ==
    ASSUME ImportInv, NEW w \in Loaders, Loading(w)
    PROVE  sited' \subseteq Rows /\ jobs' \in 0 .. MaxJobs /\ failures' \in 0 .. MaxFailures
<1>1. /\ sited \subseteq Rows /\ jobs \in 0 .. MaxJobs /\ failures \in 0 .. MaxFailures
      /\ MaxJobs \in Nat /\ MaxFailures \in Nat /\ Rows = 1 .. Len(stored)
  BY StoredTyped, ImportBounds DEF ImportInv, ImportTypeOK
<1>2. CASE Import(w) \/ Deliver(w)
  <2>1. /\ sited' = sited /\ failures' = failures /\ stored' = stored
        /\ jobs < MaxJobs /\ jobs' = jobs + 1
    BY <1>2 DEF Import, Deliver, Begins
  <2>2. QED
    BY <1>1, <2>1
<1>3. CASE LetterFails(w) \/ Killed(w)
  <2>1. /\ sited' = sited /\ jobs' = jobs /\ stored' = stored
        /\ failures < MaxFailures /\ failures' = failures + 1
    BY <1>3 DEF LetterFails, Killed, Fails
  <2>2. QED
    BY <1>1, <2>1
<1>4. CASE RegisterSite(w)
  <2>1. loader[w] \in Working /\ Knows(loader[w]) /\ loader[w].at = "register"
    BY <1>4, AtWork DEF RegisterSite, Busy
  <2>2. loader[w].thread \in Rows
    BY <1>1, <2>1 DEF Knows, Searched
  <2>3. QED
    BY <1>1, <1>4, <2>2 DEF RegisterSite
<1>5. CASE \/ LookUpParent(w) \/ LookUpSubject(w)
           \/ PlaceOpening(w) \/ PlaceJoining(w) \/ PlaceFails(w)
           \/ FindDuplicate(w) \/ Store(w) \/ StoreThrows(w)
  <2>1. UNCHANGED <<sited, jobs, failures>>
    BY <1>5 DEF LookUpParent, LookUpSubject, PlaceOpening, PlaceJoining, PlaceFails, FindDuplicate,
                Store, StoreThrows
  <2>2. QED
    BY <1>1, <2>1
<1>6. QED
  BY <1>2, <1>3, <1>4, <1>5 DEF Loading

\* A step that stores nothing.
LEMMA QuietKeeps ==
    ASSUME ImportInv, NEW w \in Loaders, Loading(w), Quiet,
           \E v : loader' = [loader EXCEPT ![w] = v] /\ Apt(v)'
    PROVE  ImportInv'
<1>1. Len(stored) \in Nat /\ today \in Nat /\ Rows = 1 .. Len(stored)
  BY StoredTyped, ImportBounds DEF ImportInv, ImportTypeOK
<1>2. Grows /\ Rows' = Rows
  BY <1>1 DEF Grows, Quiet, Rows
<1>3. PICK v : loader' = [loader EXCEPT ![w] = v] /\ Apt(v)'
  OBVIOUS
<1>4. /\ loader' \in [Loaders -> Working \union {Resting}]
      /\ \A x \in Loaders : loader'[x] # Resting => Knows(loader[x])'
  BY <1>2, <1>3, AptKeeps DEF Quiet
<1>5. ImportTypeOK'
  BY <1>2, <1>4, CountsKeep DEF ImportInv, ImportTypeOK, Quiet
<1>6. ASSUME NEW d \in 1 .. Len(stored)
      PROVE  Traced(d)'
  BY <1>1, <1>2, TracedStays DEF ImportInv, Quiet
<1>7. Len(stored') = Len(stored)
  BY DEF Quiet
<1>8. QED
  BY <1>4, <1>5, <1>6, <1>7 DEF ImportInv

LEMMA StoreKeeps ==
    ASSUME ImportInv, NEW w \in Loaders, Store(w)
    PROVE  ImportInv'
<1>1. /\ Grows /\ today' = today
      /\ \E v : loader' = [loader EXCEPT ![w] = v] /\ Apt(v)'
      /\ stored' \in Seq(Messages) /\ Len(stored') = Len(stored) + 1
      /\ \E d \in {Len(stored) + 1} :
            /\ stored'[d].thread \in 1 .. d /\ stored'[d].since < d
            /\ stored'[d].store = stored'[stored'[d].thread].store
            /\ Traced(d)'
  BY StoreApt
<1>2. /\ Len(stored) \in Nat /\ today \in Nat /\ today \in 0 .. LastDay /\ Rows = 1 .. Len(stored)
      /\ \A r \in 1 .. Len(stored) :
            /\ stored[r].thread \in 1 .. r /\ stored[r].since < r
            /\ stored[r].store = stored[stored[r].thread].store
  BY StoredTyped, ImportBounds DEF ImportInv, ImportTypeOK
<1>3. PICK n \in Nat, d \in Nat :
         /\ n = Len(stored) /\ d = n + 1 /\ d = Len(stored')
         /\ stored'[d].thread \in 1 .. d /\ stored'[d].since < d
         /\ stored'[d].store = stored'[stored'[d].thread].store
         /\ Traced(d)'
  BY <1>1, <1>2
<1>4. Rows' = 1 .. d
  BY <1>1, <1>3, LenProperties DEF Rows
<1>5. PICK v : loader' = [loader EXCEPT ![w] = v] /\ Apt(v)'
  BY <1>1
<1>6. /\ loader' \in [Loaders -> Working \union {Resting}]
      /\ \A x \in Loaders : loader'[x] # Resting => Knows(loader[x])'
  BY <1>1, <1>5, AptKeeps
<1>7. ASSUME NEW r \in 1 .. d
      PROVE  /\ stored'[r].thread \in 1 .. r /\ stored'[r].since < r
             /\ stored'[r].store = stored'[stored'[r].thread].store
  <2>1. CASE r = d
    BY <1>3, <2>1
  <2>2. CASE r \in 1 .. n
    <3>1. PICK t \in 1 .. r : t = stored[r].thread
      BY <1>2, <1>3, <2>2
    <3>2. t \in 1 .. n
      BY <2>2, <3>1
    <3>3. stored'[r] = stored[r] /\ stored'[t] = stored[t]
      BY <1>1, <1>3, <2>2, <3>2 DEF Grows
    <3>4. QED
      BY <1>2, <1>3, <2>2, <3>1, <3>3
  <2>3. QED
    BY <1>3, <2>1, <2>2
<1>8. sited' \subseteq Rows' /\ jobs' \in 0 .. MaxJobs /\ failures' \in 0 .. MaxFailures
  BY <1>2, <1>3, <1>4, CountsKeep DEF Loading
<1>9. ImportTypeOK'
  BY <1>1, <1>2, <1>4, <1>6, <1>7, <1>8 DEF ImportTypeOK
<1>10. ASSUME NEW r \in 1 .. d
       PROVE  Traced(r)'
  <2>1. CASE r = d
    BY <1>3, <2>1
  <2>2. CASE r \in 1 .. n
    <3>1. r \in 1 .. Len(stored) /\ Traced(r)
      BY <1>3, <2>2 DEF ImportInv
    <3>2. ImportTypeOK
      BY DEF ImportInv
    <3>3. QED
      BY <1>1, <1>2, <3>1, <3>2, TracedStays
  <2>3. QED
    BY <1>3, <2>1, <2>2
<1>11. QED
  BY <1>3, <1>6, <1>9, <1>10 DEF ImportInv

\* Only the clock moves, or nothing does.
LEMMA IdleKeeps ==
    ASSUME ImportInv, UNCHANGED <<stored, sited, loader, jobs, failures>>,
           today' = today \/ (today < LastDay /\ today' = today + 1)
    PROVE  ImportInv'
<1>1. /\ Len(stored) \in Nat /\ today \in 0 .. LastDay /\ LastDay \in Nat /\ Rows = 1 .. Len(stored)
      /\ stored' = stored /\ loader' = loader /\ sited' = sited /\ jobs' = jobs /\ failures' = failures
      /\ today' = today \/ (today < LastDay /\ today' = today + 1)
  BY StoredTyped, ImportBounds DEF ImportInv, ImportTypeOK
<1>2. Grows /\ Rows' = Rows
  BY <1>1 DEF Grows, Rows
<1>3. today' \in 0 .. LastDay /\ today \in Nat /\ today' \in Nat /\ today <= today'
  BY <1>1
<1>4. ImportTypeOK'
  BY <1>1, <1>2, <1>3 DEF ImportInv, ImportTypeOK
<1>5. ASSUME NEW x \in Loaders, loader'[x] # Resting
      PROVE  Knows(loader[x])'
  <2>1. PICK u \in Working : u = loader[x] /\ u = loader'[x] /\ Knows(u)
    BY <1>1, <1>5 DEF ImportInv, ImportTypeOK
  <2>2. Knows(u)'
    BY <1>1, <1>2, <1>3, <2>1, KnowsStays
  <2>3. QED
    BY <2>1, <2>2
<1>6. ASSUME NEW d \in 1 .. Len(stored)
      PROVE  Traced(d)'
  BY <1>1, <1>2, <1>3, TracedStays DEF ImportInv
<1>7. Len(stored') = Len(stored)
  BY <1>1
<1>8. QED
  BY <1>4, <1>5, <1>6, <1>7 DEF ImportInv

LEMMA ImportInvInit == LoadInit => ImportInv
<1> SUFFICES ASSUME LoadInit
             PROVE  ImportInv
  OBVIOUS
<1>1. stored = <<>> /\ Len(stored) = 0 /\ Rows = {} /\ stored \in Seq(Messages)
  BY DEF LoadInit, Rows
<1>2. 0 \in 0 .. LastDay /\ 0 \in 0 .. MaxJobs /\ 0 \in 0 .. MaxFailures
  BY ImportBounds
<1>3. ImportTypeOK
  BY <1>1, <1>2 DEF LoadInit, ImportTypeOK
<1>4. QED
  BY <1>1, <1>3 DEF ImportInv, LoadInit

LEMMA ImportInvStep == ImportInv /\ [LoadNext]_loadVars => ImportInv'
<1> SUFFICES ASSUME ImportInv, [LoadNext]_loadVars
             PROVE  ImportInv'
  OBVIOUS
<1>1. ASSUME NEW w \in Loaders, Loading(w)
      PROVE  ImportInv'
  <2>1. CASE Store(w)
    BY <2>1, StoreKeeps
  <2>2. CASE LookUpParent(w)
    BY <1>1, <2>2, LookUpParentApt, QuietKeeps
  <2>3. CASE LookUpSubject(w)
    BY <1>1, <2>3, LookUpSubjectApt, QuietKeeps
  <2>4. CASE PlaceOpening(w) \/ PlaceJoining(w)
    BY <1>1, <2>4, PlaceApt, QuietKeeps
  <2>5. CASE FindDuplicate(w)
    BY <1>1, <2>5, FindDuplicateApt, QuietKeeps
  <2>6. CASE PlaceFails(w) \/ StoreThrows(w) \/ RegisterSite(w) \/ LetterFails(w) \/ Killed(w)
    BY <1>1, <2>6, OverApt, QuietKeeps
  <2>7. CASE Import(w) \/ Deliver(w)
    BY <1>1, <2>7, BeginsApt, QuietKeeps
  <2>8. QED
    BY <1>1, <2>1, <2>2, <2>3, <2>4, <2>5, <2>6, <2>7 DEF Loading
<1>2. CASE Passes
  BY <1>2, IdleKeeps DEF Passes
<1>3. CASE UNCHANGED loadVars
  BY <1>3, IdleKeeps DEF loadVars
<1>4. QED
  BY <1>1, <1>2, <1>3 DEF LoadNext

THEOREM ImportKeepsTypes == LoadSpec => []ImportTypeOK
<1>1. LoadSpec => []ImportInv
  BY ImportInvInit, ImportInvStep, PTL DEF LoadSpec
<1>2. ImportInv => ImportTypeOK
  BY DEF ImportInv
<1>3. QED
  BY <1>1, <1>2, PTL

-----------------------------------------------------------------------------
(* Stored once.                                                            *)

LEMMA OnceStays ==
    ASSUME ImportInv, ImportedOnce, stored' = stored
    PROVE  ImportedOnce'
BY DEF ImportedOnce, Rows, Crossed, Belated, LooksBack, DrawnAway

LEMMA StoredOnce ==
    ASSUME ImportInv, ImportedOnce, NEW w \in Loaders, Store(w)
    PROVE  ImportedOnce'
<1>1. PICK u \in Working, m \in Messages :
              /\ u = loader[w] /\ Knows(u) /\ u.at = "insert" /\ Storable(w)
              /\ stored' = Append(stored, m)
              /\ m.letter = Head(u.file) /\ m.store = u.store /\ m.since = u.since
              /\ m.base = u.base /\ m.by = u.kind
              /\ u.opens => m.thread = Len(stored) + 1
              /\ ~u.opens => m.thread = u.thread
  BY StoreRow
<1>2. PICK n \in Nat, d \in Nat : n = Len(stored) /\ d = n + 1
  BY StoredTyped DEF ImportInv
<1>3. /\ stored'[d] = m /\ \A r \in 1 .. n : stored'[r] = stored[r]
      /\ Rows = 1 .. n /\ Rows' = 1 .. d
  BY <1>1, <1>2, Appended DEF ImportInv
<1>4. ASSUME NEW a \in 1 .. n, NEW b \in 1 .. n, a < b, stored[a].letter = stored[b].letter
      PROVE  Crossed(a, b)' \/ Belated(b)' \/ LooksBack(a, b)' \/ DrawnAway(a, b)'
  <2>1. stored'[a] = stored[a] /\ stored'[b] = stored[b]
    BY <1>3
  <2>2. DrawnAway(a, b) => DrawnAway(a, b)'
    BY <1>2, <1>3, <2>1 DEF DrawnAway
  <2>3. Crossed(a, b) \/ Belated(b) \/ LooksBack(a, b) \/ DrawnAway(a, b)
    BY <1>3, <1>4 DEF ImportedOnce
  <2>4. QED
    BY <2>1, <2>2, <2>3 DEF Crossed, Belated, LooksBack
<1>5. ASSUME NEW c \in 1 .. n, stored[c].letter = m.letter,
             ~Crossed(c, d)', ~Belated(d)', ~LooksBack(c, d)', ~DrawnAway(c, d)'
      PROVE  FALSE
  <2>1. /\ u.since \in Nat /\ u.base \in Nat /\ u.since <= n
        /\ Known(u.kind, m.letter, u.since, u.base, u.opens, u.thread, n)
    BY <1>1, <1>2 DEF Working, Knows, Searched
  <2>2. c <= u.since
    BY <1>1, <1>3, <1>5, <2>1 DEF Crossed
  <2>3. u.kind # "import" => Written[m.letter] + Fortnight >= u.base
    <3>1. m.letter \in Letters /\ u.kind \in {"import", "delivery"}
      BY DEF Messages, Working
    <3>2. Written[m.letter] \in Nat /\ Fortnight \in Nat
      BY <3>1, LettersAssumption, ImportBounds
    <3>3. u.kind # "import" => ~(Written[m.letter] + Fortnight < u.base)
      BY <1>1, <1>3, <1>5, <3>1 DEF Belated
    <3>4. QED
      BY <2>1, <3>2, <3>3
  <2>4. ~(u.kind = "import" /\ u.base = Written[m.letter] /\ u.base < stored[c].base)
    BY <1>1, <1>3, <1>5 DEF LooksBack
  <2>5. ~ \E r \in 1 .. n : stored[c].since < r /\ stored[r].thread = m.thread
    BY <1>2, <1>3, <1>5 DEF DrawnAway
  <2>6. Known(u.kind, m.letter, u.since, u.base, u.opens, m.thread, n)
    BY <1>1, <2>1 DEF Known
  <2>7. Traced(c) /\ ImportTypeOK
    BY <1>2 DEF ImportInv
  <2>8. ~u.opens /\ stored[m.thread].store = stored[c].store
    <3>1. PICK kind \in {u.kind}, l \in {m.letter}, since \in {u.since}, base \in {u.base},
               opens \in {u.opens}, t \in {m.thread} : TRUE
      OBVIOUS
    <3>2. /\ c \in 1 .. Len(stored) /\ l = stored[c].letter /\ c <= since /\ since <= Len(stored)
          /\ n = Len(stored) /\ Known(kind, l, since, base, opens, t, n)
          /\ kind # "import" => Written[l] + Fortnight >= base
      BY <1>2, <1>5, <2>1, <2>2, <2>3, <2>6, <3>1
    <3>3. /\ ~(kind = "import" /\ base = Written[l] /\ base < stored[c].base)
          /\ Quieter(c, t, n)
      BY <2>4, <2>5, <3>1 DEF Quieter
    <3>4. since \in Nat /\ base \in Nat
      BY <2>1, <3>1
    <3>5. ~opens /\ Beside(t, c)
      BY <2>7, <3>2, <3>3, <3>4, Meets
    <3>6. u.opens \in BOOLEAN
      BY DEF Working
    <3>7. QED
      BY <3>1, <3>5, <3>6 DEF Beside
  <2>9. stored[c].store = u.store /\ stored[c].letter = LetterOf(w)
    BY <1>1, <1>5, <2>8 DEF Storable, LetterOf
  <2>10. QED
    BY <1>1, <1>3, <2>9 DEF Storable, CopyIn
<1>6. SUFFICES ASSUME NEW a \in Rows', NEW b \in Rows', a < b, stored'[a].letter = stored'[b].letter
               PROVE  Crossed(a, b)' \/ Belated(b)' \/ LooksBack(a, b)' \/ DrawnAway(a, b)'
  BY DEF ImportedOnce
<1>7. CASE b \in 1 .. n
  BY <1>2, <1>3, <1>4, <1>6, <1>7
<1>8. CASE b = d
  BY <1>2, <1>3, <1>5, <1>6, <1>8
<1>9. QED
  BY <1>2, <1>3, <1>6, <1>7, <1>8

\* A letter is stored once, whatever the number of databases, jobs and files:
\* "Re-running an import skips duplicates" (import-mbox.ts), and the exceptions
\* are the four the property names.
THEOREM LettersAreStoredOnce == LoadSpec => []ImportedOnce
<1>1. LoadInit => ImportedOnce
  BY DEF LoadInit, ImportedOnce, Rows
<1>2. ImportInv /\ ImportedOnce /\ [LoadNext]_loadVars => ImportedOnce'
  <2> SUFFICES ASSUME ImportInv, ImportedOnce, [LoadNext]_loadVars
               PROVE  ImportedOnce'
    OBVIOUS
  <2>1. ASSUME NEW w \in Loaders, Loading(w)
        PROVE  ImportedOnce'
    <3>1. Store(w) \/ stored' = stored
      BY <2>1 DEF Loading, Import, Deliver, Begins, LookUpParent, LookUpSubject, PlaceOpening,
                  PlaceJoining, PlaceFails, FindDuplicate, StoreThrows, RegisterSite, LetterFails,
                  Killed
    <3>2. QED
      BY <3>1, StoredOnce, OnceStays
  <2>2. CASE Passes \/ UNCHANGED loadVars
    BY <2>2, OnceStays DEF Passes, loadVars
  <2>3. QED
    BY <2>1, <2>2 DEF LoadNext
<1>3. QED
  BY ImportInvInit, ImportInvStep, <1>1, <1>2, PTL DEF LoadSpec
=============================================================================
