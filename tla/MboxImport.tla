------------------------------ MODULE MboxImport ------------------------------
(***************************************************************************)
(* Mail of any age that enters one mailbox over several mail databases:    *)
(* the import of mbox files (import-mbox.ts) beside deliveries (thread.ts, *)
(* store.ts).  MailStore has the rest of a delivery, and mail of one       *)
(* fortnight; here letters have dates, the look-up of a thread reads one   *)
(* database after the other, and the only guard against a second copy is   *)
(* in the database the look-up ended in.                                   *)
(*                                                                         *)
(* Messages are numbered in the order they are stored; a thread is the     *)
(* number of the message that opened it.  Nothing is deleted here, and an  *)
(* export is one of the files.  Every letter has a Message-ID: where it is *)
(* missing each parse draws another.  Blobs and threads_index are in       *)
(* MailStore.                                                              *)
(***************************************************************************)
EXTENDS Naturals, Sequences, FiniteSetsExt

CONSTANTS
    Loaders,      \* imports and deliveries that can be under way at once
    Letters,
    Topic,        \* the normalised subject of a letter
    Written,      \* its date
    Answers,      \* the letters it refers to (References, In-Reply-To)
    Files,        \* the mbox files a user has
    Stores,       \* the mail databases in the order of registration
    Fortnight,    \* how old a thread may be that a subject continues
    LastDay, MaxJobs, MaxFailures \* bounds on the clock, the jobs, and failed calls

ASSUME LettersAssumption ==
    /\ Written \in [Letters -> Nat]
    /\ Answers \in [Letters -> SUBSET Letters]
    /\ \A file \in Files : file \in Seq(Letters) \ {<<>>}
    /\ Len(Stores) \in Nat \ {0} /\ DOMAIN Stores = 1 .. Len(Stores)
ASSUME ImportBounds == {Fortnight, LastDay, MaxJobs, MaxFailures} \subseteq Nat

VARIABLES
    stored,   \* the rows of messages, with the job that wrote each
    sited,    \* threads with a row in thread_locations
    loader,   \* per loader: its job, its step and what the steps before found
    today, jobs, failures

loadVars == <<stored, sited, loader, today, jobs, failures>>

Rows == DOMAIN stored
FirstStore == Stores[1]
Overflow == {Stores[i] : i \in 2 .. Len(Stores)}
Resting == [kind |-> "none"]
LoadSteps == {"parent", "subject", "place", "duplicate", "insert", "register"}

Working == [kind : {"import", "delivery"}, file : Seq(Letters) \ {<<>>}, at : LoadSteps,
            i : 1 .. Len(Stores), since : Nat, base : Nat, opens : BOOLEAN,
            thread : Nat, store : {FirstStore} \union Overflow, warm : SUBSET Overflow]

Messages == [letter : Letters, thread : Nat, store : {FirstStore} \union Overflow,
             since : Nat, base : Nat, by : {"import", "delivery"}]

ImportTypeOK ==
    /\ stored \in Seq(Messages)
    /\ \A r \in Rows :
          /\ stored[r].thread \in 1 .. r /\ stored[r].since < r
          /\ stored[r].store = stored[stored[r].thread].store
    /\ sited \subseteq Rows
    /\ loader \in [Loaders -> Working \union {Resting}]
    /\ today \in 0 .. LastDay /\ jobs \in 0 .. MaxJobs /\ failures \in 0 .. MaxFailures

LoadInit ==
    /\ stored = <<>> /\ sited = {}
    /\ loader = [w \in Loaders |-> Resting]
    /\ today = 0 /\ jobs = 0 /\ failures = 0

\* A letter is looked up by what it answers, if it answers anything.
Starting(kind, file, warm, rows) ==
    [kind |-> kind, file |-> file, i |-> 1, since |-> rows, base |-> 0, opens |-> FALSE,
     at |-> IF Answers[Head(file)] = {} THEN "subject" ELSE "parent",
     thread |-> 0, store |-> FirstStore, warm |-> warm]

\* With the letter in hand stored, known or refused, the file goes on.
GoesOn(w) ==
    loader' = [loader EXCEPT ![w] =
        IF Len(@.file) = 1 THEN Resting
        ELSE Starting(@.kind, Tail(@.file), @.warm, Len(stored'))]

Busy(w, step) == loader[w].kind # "none" /\ loader[w].at = step
LetterOf(w) == Head(loader[w].file)
Fails == failures < MaxFailures /\ failures' = failures + 1

-----------------------------------------------------------------------------
(* Jobs.                                                                   *)

Begins(w, kind, file) ==
    /\ loader[w] = Resting /\ jobs < MaxJobs
    /\ \A i \in DOMAIN file : Written[file[i]] <= today
    /\ loader' = [loader EXCEPT ![w] = Starting(kind, file, {}, Len(stored))]
    /\ jobs' = jobs + 1
    /\ UNCHANGED <<stored, sited, today, failures>>

Import(w) == \E file \in Files : Begins(w, "import", file)
Deliver(w) == \E l \in Letters : Begins(w, "delivery", <<l>>)

Passes ==
    /\ today < LastDay
    /\ today' = today + 1
    /\ UNCHANGED <<stored, sited, loader, jobs, failures>>

-----------------------------------------------------------------------------
(* Finding the thread: one query per database and question.                *)

Joins(w, t) == loader' = [loader EXCEPT ![w].thread = t, ![w].at = "place", ![w].i = 1]

Onwards(w, whenAll) ==
    IF loader[w].i < Len(Stores)
    THEN loader' = [loader EXCEPT ![w].i = @ + 1]
    ELSE loader' = [loader EXCEPT ![w] = whenAll]

LookUpParent(w) ==
    /\ Busy(w, "parent")
    /\ LET parents == {r \in Rows : /\ stored[r].store = Stores[loader[w].i]
                                    /\ stored[r].letter \in Answers[LetterOf(w)]}
       IN  \/ \E r \in parents : Joins(w, stored[r].thread)
           \/ /\ parents = {}
              /\ Onwards(w, [loader[w] EXCEPT !.at = "subject", !.i = 1])
    /\ UNCHANGED <<stored, sited, today, jobs, failures>>

LastMessageAt(t) ==
    Max({Written[stored[r].letter] : r \in {q \in Rows : stored[q].thread = t}})

\* Threads of the topic in a database that had mail in the fortnight before a
\* day, or after it.
Recent(topic, day, d) ==
    {t \in Rows : /\ stored[t].thread = t /\ stored[t].store = d
                  /\ Topic[stored[t].letter] = topic
                  /\ \E r \in Rows : /\ stored[r].thread = t
                                    /\ Written[stored[r].letter] + Fortnight >= day}

\* Mutant: an import counts the fortnight from now, as a delivery does.
BaseDayIsToday(w) == today

\* An import counts the fortnight from the letter's date, a delivery from now.
BaseDay(w) == IF loader[w].kind = "import" THEN Written[LetterOf(w)] ELSE today

LookUpSubject(w) ==
    /\ Busy(w, "subject")
    /\ LET day == IF loader[w].i = 1 THEN BaseDay(w) ELSE loader[w].base
           alike == Recent(Topic[LetterOf(w)], day, Stores[loader[w].i])
           latest == {t \in alike : \A u \in alike : LastMessageAt(u) <= LastMessageAt(t)}
       IN  \/ \E t \in latest :
                loader' = [loader EXCEPT ![w].thread = t, ![w].at = "place", ![w].base = day]
           \/ /\ alike = {}
              /\ IF loader[w].i < Len(Stores)
                 THEN loader' = [loader EXCEPT ![w].i = @ + 1, ![w].base = day]
                 ELSE loader' = [loader EXCEPT ![w].opens = TRUE, ![w].at = "place",
                                               ![w].base = day]
    /\ UNCHANGED <<stored, sited, today, jobs, failures>>

-----------------------------------------------------------------------------
(* Choosing the database.                                                  *)

\* A new thread goes to the emptiest one with room: any, as sizes change.
PlaceOpening(w) ==
    /\ Busy(w, "place") /\ loader[w].opens
    /\ \E d \in {FirstStore} \union Overflow :
          loader' = [loader EXCEPT ![w].store = d, ![w].at = "duplicate",
                                   ![w].warm = @ \union ({d} \cap Overflow)]
    /\ UNCHANGED <<stored, sited, today, jobs, failures>>

SiteOf(t) == IF t \in sited THEN stored[t].store ELSE FirstStore

\* The web worker knows another database than the first if this request or an
\* earlier one of its isolate chose it; the email worker never does.
PlaceJoining(w) ==
    /\ Busy(w, "place") /\ ~loader[w].opens
    /\ LET d == SiteOf(loader[w].thread)
       IN  /\ d = FirstStore \/ loader[w].kind = "import"
           /\ loader' = [loader EXCEPT ![w].store = d, ![w].at = "duplicate"]
    /\ UNCHANGED <<stored, sited, today, jobs, failures>>

\* All databases are full, or this one cannot be resolved: an import counts an
\* error, a delivery is refused.
PlaceFails(w) ==
    /\ Busy(w, "place")
    /\ ~loader[w].opens => SiteOf(loader[w].thread) \notin {FirstStore} \union loader[w].warm
    /\ UNCHANGED <<stored, sited, today, jobs, failures>>
    /\ GoesOn(w)

-----------------------------------------------------------------------------
(* Storing the letter.                                                     *)

CopyIn(l, d) == \E r \in Rows : stored[r].letter = l /\ stored[r].store = d

FindDuplicate(w) ==
    /\ Busy(w, "duplicate")
    /\ UNCHANGED <<stored, sited, today, jobs, failures>>
    /\ IF CopyIn(LetterOf(w), loader[w].store)
       THEN GoesOn(w)
       ELSE loader' = [loader EXCEPT ![w].at = "insert"]

\* The foreign key and the unique index of the database.
Storable(w) ==
    /\ ~loader[w].opens => stored[loader[w].thread].store = loader[w].store
    /\ ~CopyIn(LetterOf(w), loader[w].store)

Store(w) ==
    /\ Busy(w, "insert") /\ Storable(w)
    /\ LET new == Len(stored) + 1
           t == IF loader[w].opens THEN new ELSE loader[w].thread
       IN  /\ stored' = Append(stored,
                 [letter |-> LetterOf(w), thread |-> t, store |-> loader[w].store,
                  since |-> loader[w].since, base |-> loader[w].base, by |-> loader[w].kind])
           /\ IF loader[w].opens /\ loader[w].store # FirstStore
              THEN loader' = [loader EXCEPT ![w].at = "register", ![w].thread = t]
              ELSE GoesOn(w)
    /\ UNCHANGED <<sited, today, jobs, failures>>

StoreThrows(w) ==
    /\ Busy(w, "insert") /\ ~Storable(w)
    /\ UNCHANGED <<stored, sited, today, jobs, failures>>
    /\ GoesOn(w)

RegisterSite(w) ==
    /\ Busy(w, "register")
    /\ sited' = sited \union {loader[w].thread}
    /\ UNCHANGED <<stored, today, jobs, failures>>
    /\ GoesOn(w)

\* A call before the insert throws, or the registration does, which is caught.
LetterFails(w) ==
    /\ loader[w].kind # "none"
    /\ Fails
    /\ UNCHANGED <<stored, sited, today, jobs>>
    /\ GoesOn(w)

Killed(w) ==
    /\ loader[w].kind # "none"
    /\ Fails
    /\ loader' = [loader EXCEPT ![w] = Resting]
    /\ UNCHANGED <<stored, sited, today, jobs>>

-----------------------------------------------------------------------------

Loading(w) ==
    \/ Import(w) \/ Deliver(w)
    \/ LookUpParent(w) \/ LookUpSubject(w)
    \/ PlaceOpening(w) \/ PlaceJoining(w) \/ PlaceFails(w)
    \/ FindDuplicate(w) \/ Store(w) \/ StoreThrows(w) \/ RegisterSite(w)
    \/ LetterFails(w) \/ Killed(w)

LoadNext == Passes \/ \E w \in Loaders : Loading(w)
LoadSpec == LoadInit /\ [][LoadNext]_loadVars

-----------------------------------------------------------------------------
(* Properties.                                                             *)

\* Copy d was looked up while copy c was not stored yet.
Crossed(c, d) == stored[d].since < c

\* A delivery of mail dated a fortnight ago does not find its thread by subject.
Belated(d) ==
    stored[d].by = "delivery" /\ Written[stored[d].letter] + Fortnight < stored[d].base

\* Since copy c was looked up, other mail came to the thread copy d is in.
DrawnAway(c, d) ==
    \E r \in Rows : stored[c].since < r /\ r < d /\ stored[r].thread = stored[d].thread

\* A delivery counts the fortnight from the day it comes, an import from the
\* letter's date, so that copy d found a thread that was too old for copy c.
LooksBack(c, d) ==
    /\ stored[d].by = "import" /\ stored[d].base = Written[stored[d].letter]
    /\ stored[d].base < stored[c].base

\* "Re-running an import skips duplicates": a letter is stored once, whatever
\* databases there are, unless two jobs stored it at the same time, it was
\* delivered with an old date, an import looked less far back than the delivery
\* before it, or mail that came since draws it to a thread in another database.
ImportedOnce ==
    \A c, d \in Rows :
        c < d /\ stored[c].letter = stored[d].letter
            => Crossed(c, d) \/ Belated(d) \/ LooksBack(c, d) \/ DrawnAway(c, d)
=============================================================================
