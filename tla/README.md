# orange-inbox: a TLA+ verification project

orange-inbox is a mail client and calendar on Cloudflare Workers: an email worker that takes delivered
mail and runs the cron, a web worker with the API, pages and public booking routes, a service worker
in the browser, and between them D1 databases and R2 buckets that no transaction spans. What goes wrong
in such a program goes wrong between two awaits. This directory holds TLA+ models of the parts where
that matters, TLC runs on small instances, and theorems checked by TLAPS for every instance.

Paths below are relative to the repository; `lib/` is `web/src/lib/`, `api/` is `web/src/app/api/`.

## 1. Inventory

| part | state | operations | hard behaviour | what makes it correct |
|---|---|---|---|---|
| **Scheduled send, undo send** (`api/scheduled`, `api/internal/dispatch-scheduled`, cron) | `scheduled_messages`, drafts | schedule, cancel, undo, a tick's list, dispatch of one row | ticks overlap; undo races the dispatcher; a dispatcher dies after the mail is out | never early; 'sent' means mailed; one withdrawal wins; a final row stays final; copies bounded; a due row is finalised |
| **Offline outbox** (`public/sw.js`, `lib/sw-client.ts`, `ComposeProvider.tsx`) | IndexedDB rows, the `flushing` flag, what the author sees | post, hand over, ack or timeout, enqueue, flush, page load, sync | the browser kills the worker at any await; late acks; blips after an accepted mail | no row is forgotten unmailed; "Queued" can be relied on; copies bounded; a refused row is final; pending rows are settled |
| **Availability of booking links** (`lib/booking-availability.ts`) | busy windows, rules, overrides, the clock | list slots of a range, check one slot | clock changes, buffers over the edge of a range, stale pages | an accepted slot is free; page and commit agree; slots lie in the opening hours |
| **Bookings** (`p/api/book/*`, `lib/booking.ts`, `lib/booking-fulfill.ts`) | `bookings`, calendar events and their links, reminders, the invitee's mail | book, cancel, reschedule, save of the link | check and insert apart; fan-out to several calendars that fail singly; races of cancel and reschedule | double booking bounded; stores agree; cancelled is final; no event without a record |
| **Mail store** (`email-worker/src/{index,thread,store,mail-db,rules,cron}.ts`, `lib/{send,mail-db,threads-mutate}.ts`, `api/threads/[id]`) | threads and messages in several mail databases; `threads_index`, `thread_locations`; R2 blobs; `r2_tombstones` | deliver, send, patch and delete threads, rule actions, sweep | retries by the sender's server, killed workers, rule against delivery, deletion against delivery | accepted mail is stored; no blob of a visible message is deleted; copies in different databases; the index counts |
| **Meeting invitations** (`api/calendar/events/*`, `api/messages/[id]/rsvp`, `lib/calendar.ts`, `store.ts`, `ics-parse.ts`) | the organizer's event and attendees, the attendees' copies, mail in transit | create, patch (calendar, UID), delete, save attendees, receive, open a thread, answer | mails overtake each other; promotion races an answer; saves overlap; a UID changes under its invitation | what is shown was mailed; promotion takes no answer back; one UID; invitees hear of the deletion |
| **Reminders** (`lib/reminders.ts`, `api/internal/dispatch-reminders`, `api/push/*`, `sw.js`) | `calendar_event_reminders`, `calendar_reminders_sent`, notifications on a device | seed, set, list due, push, stamp, snooze, move an event | push before stamp; overlapping ticks; a band of 60 s; a snooze before the stamp | pushes are accounted for; a snooze survives; no reminder is passed over |
| **Recurring events** (`lib/calendar.ts`, `lib/rrule-parse.ts`, `api/calendar/events/*`, `CalendarEventForm.tsx`, the grids) | `calendar_events`, RRULEs, overrides, open forms | expand a window, save, drag, resize, override, split, delete | a form holds old values; a split reads before its batch; edges of windows, COUNT, UNTIL, short months | windows list what the rule says; the split halves give the whole |
| **Mailboxes, members, assignments** (`api/mailboxes/[id]/members/*`, `lib/assignments.ts`) | roles, one assignment row per thread | invite, change role, remove, assign, resolve, reopen | check and write in two statements; two owners, two resolvers | an owner remains; resolved is what the resolver saw; assignees are members |
| **Kanban boards** (`lib/kanban.ts`, `KanbanBoardClient.tsx`) | columns, cards, the open page | seed, create, delete, reorder, move; optimistic page with roll-back | second seeder; roll-back of a snapshot over newer changes | a deleted column stays gone; the page agrees with the board |
| **Inbox page** (`ThreadList.tsx`, `ThreadActions.tsx`, `UndoToast.tsx`, `TriageDeck.tsx`, `DismissedThreadsProvider.tsx`) | rows listed and hidden, the toolbar's copy of the flags, toasts, the deck; `threads_index` | swipe, bulk, archive, delete, star, mute, undo of each, deal and decide cards | shown before the server answers; undo overtakes; a delete that waits for a toast; answers after the page went on | a thread is where it was last put; hidden only for that; the flags shown are the server's; no card passed over |
| **Composer** (`ComposeProvider.tsx`, `api/drafts/*`, `api/uploads/*`, `api/scheduled/*`) | the window, drafts, staged uploads, held rows | write, autosave, attach, send, hold, undo, schedule, discard, sweep | answers meet a window that was edited, closed or replaced | what was written is somewhere; only what was pressed goes out; no draft of a sent letter |
| **Import of mbox files** (`lib/import-mbox.ts`, `api/import/mbox`) | the same threads and messages; `thread_locations` | for each letter of a file: look up its thread, choose a database, look for a copy, store, register | the file again, deliveries of the same mail beside it, a look-up over several databases, a lost registration | a letter is stored once |
| Automatic replies, push, share links, lists and search, contacts and labels, sign-in and tokens, Google calendars, export, other pages | see `PROJECT.json` | | single statements, pure functions or outside services | unit tests |

How they interact. The cron of the email worker calls the web worker over HTTP for scheduled mail and
reminders, and sweeps tombstones itself. The web worker's `sendMessage` stores what it mails in the same
mail databases a delivery uses. The composer posts to the web worker or hands the message to the service
worker. A booking asks the availability engine and then writes calendars. An invitation travels as mail
between the calendar of one user and the mail store of another, and opening a thread promotes it. The
composer feeds the scheduled queue and the outbox; members of a mailbox share its board and assignments. The
inbox page sends the thread routes their requests; what a DELETE does in the stores is in `MailStore`. An import
writes the tables a delivery does.

## 2. Modules

| module | what it models |
|---|---|
| `OutgoingMail` | abstract: messages that workers try to mail, each attempt may put one copy out; a copy is accounted for by a running attempt or a mishap until the message is closed |
| `ScheduledSend` | rows, ticks, dispatcher, cancel, undo; implements `OutgoingMail` with a tick as worker |
| `Outbox` | composer, hand-over and flush loop; implements `OutgoingMail` with the loop as only worker |
| `Composer` | one author's window, its calls under way, drafts, uploads, held and scheduled rows, the sweep |
| `SlotRules` | overlap and the buffer rule, shared by the two booking modules |
| `Availability` | slot computation over a moving clock, a zone with one change, changing meetings |
| `Booking` | the three public routes await by await, and the host's save of the link |
| `MailStore` | deliveries, sends, thread routes, rule actions, sweep |
| `MboxImport` | imports and deliveries of letters with dates, one query per database and question |
| `IcsMethod` | how METHOD is written and what the parser's depth counter finds |
| `Invitations` | organizer's and readers' requests, mail between them; uses `IcsMethod` |
| `Reminders` | reminder rows, the ledger, dispatcher runs, snoozes and the writes of forms |
| `Recurrence` | rules, `expandRRule`, the recurrence set of RFC 5545, and for which rules the two are one |
| `EventSeries` | forms, grids, overrides and splits on one calendar; uses `Recurrence` |
| `MailboxAccess` | members with roles and the assignment of a thread, as check-then-write requests |
| `TeamBoard` | extends `MailboxAccess` by the board and its open page |
| `InboxPage` | list, thread toolbar and triage deck of one tab over the flags of the threads |
| `MCPages` | one tab with either the board or the inbox: `TeamBoard` and `InboxPage` in one instance |
| `MCStores`, `MCCalendar` | either `MailStore` or `MboxImport`, either `Availability` or `EventSeries` in one instance |
| `MC*` | instances for TLC: concrete functions for the constants and symmetry sets |
| `*Proofs` | theorems: `OutgoingMailProofs`, `ScheduledSendProofs`, `OutboxProofs`, `BookingProofs` of the module they are named for; `MailStoreProofs` also of `MboxImport`; `LettersProofs` of `Invitations` and `Composer`; `CalendarProofs` of `Availability`, `Reminders` and `EventSeries`; `PagesProofs` of `MailboxAccess`, `TeamBoard` and `InboxPage` |

Correspondence. A request, tick, delivery or loop is a process; each of its awaits that reads or writes
shared state is an action with the guard of the code around it, so processes interleave exactly where
the program can. A row is a function value indexed by its key. `pc` (or the `pc` field of `tick`, `sw`,
`req`) is the place in the handler; the other per-process variables are the locals that survive an await.
Failures are actions of their own (`Dies`, `Fails`, `Throws`, `Refused`), bounded by `MaxMishaps`, which
`mishaps` counts. A definition whose comment calls it a mutant, or a bug, is a deliberately wrong variant
of the one after it and no part of any specification: it shows that a property would notice.

- `ScheduledSend`: `CronTick` is the tick's SELECT of at most `DispatchBatch` due rows, `NextRow` the
  dispatcher's status check, `MailAccepted`/`SendRejected` the answer of `EMAIL.send`, `Persisted`,
  `MarkSent`, `MarkFailed` what follows. `UndoSelect`, `UndoClaim`, `UndoDraft` are the steps of an undo.
- `Outbox`: `Enqueue` is `addOutbox`, `Ack` the `queued` message, `Flush` the snapshot of pending rows,
  `Pending` the write of 'sending'; `Delivered`, `Refused`, `Blip` the three ways `flushOutbox` goes on.
  A killed worker loses the loop and the flag, never the store.
- `Availability`: `Slots` is `computeAvailableSlots`, `IsSlotAvailable` the commit check with its own
  range, `ZonedToEpoch` the conversion with its one correction pass. Time is in ticks of one offset unit.
- `Booking`: a request's `pc` names the store it writes next; `todo` are the calendars its loop has left.
- `MailStore`: an attempt is one run of a worker for one message, and its identity stands for the UUIDs it
  draws. `SweepStart` is the sweep's SELECT of the `SweepBatch` oldest tombstones; `tombs` are rows with the time
  they were queued, `SweepBlobFails` leaves its row where it is, and the blobs of `Undeletable` messages fail every
  time. `Put` is the R2 writes, `Insert` the batch into the mail database, `Register` and `Upsert` the
  bookkeeping in the control database. `Erasing(t)` is not state of the program: it reads off which
  deletions of a thread were asked for.
- `MboxImport`: `LookUpParent` and `LookUpSubject` are one query each, of the import's `findOrCreateThread` and the
  delivery's, which differ in `BaseDay`; `Store` is the batch. A job's record holds the letters still to come and
  what the steps for the first of them found. A row remembers the job that wrote it and when its look-up began.
- `Invitations`: `PutAttendees`, `StampUid`, `WriteRoster`, `SendRequest` are the awaits of the PUT;
  `DeleteEvent`, `ListAttendees`, `SendCancel`, `DropEvent` those of the DELETE; `OpenThread` and
  `Promote` the look-up and the upsert of `promoteInvitesForThread`; `Answer`, `SaveAnswer`,
  `NoRowToUpdate`, `InsertAnswer` those of the RSVP route. A REQUEST and a CANCEL are told from a REPLY
  only by `Reads`, which is `IcsMethod`'s parser. `smooth` is a history variable: no two saves of the
  event overlapped, failed or broke off so far, and none replaced or cleared a UID; `PatchEvent` is the PATCH with
  all it may do to the mailbox and the UID. `owed` and `given` record who was invited and who answered.

- `Reminders`: `List` is a run's SELECT with its band and LIMIT, `HandOver` the push left to `waitUntil`, `Stamp`
  one row of the ledger. `Snooze` is the button's POST, `Move`, `WipeRows`, `InsertRow` the statements a form or
  a grid sends.
- `EventSeries`: `SubmitNew`, `SubmitEdit`, `SaveRule`, `SaveChips` are the form's requests, `Drag` and `Resize`
  the grids', `Override`, `CancelOne` the override route, `SplitRead` and `SplitBatch` the two halves of a split.
  `Instances` is `listCalendarEvents`; `Recurrence!ExpandRRule` is `expandRRule`, `Occurrences` the definition
  of the RFC it is compared with. The two count weeks differently: the expander from Sunday, the RFC from the rule's
  WKST, which the form never writes, and so from Monday. `Tuned` names the rules for which that makes no difference.
- `MailboxAccess`, `TeamBoard`: a request is sent (`Ask*`), checked (`Check*`) and written (`Write*`); the page's
  requests carry a snapshot of what it showed, which `Revert` puts back when the server refuses.
- `InboxPage`: a deed of the user shows its effect and puts a call under way (`Swipe`, `Archive`, `Toggle`, ...);
  `Serve`, `Forbid` and `Fail` are the server and the network, `*Done` the code after the `fetch`, whose
  `from` tells whether the toolbar it was sent from is still mounted. `counting` is the timer of a toast,
  `lingers` the dismissal 800 ms after it ran out, `flying` the cards whose timer has yet to send. "starred"
  stands for star, pin and follow-up. `want`, `odd`, `dealt`, `decided` and `hasty` are history.
- `Composer`: a letter is the number of an edit. A call is a request under way: `Serve*` is the server's part,
  `*Done`, `Refused` and `Fail` the callback of the window, which may meet another window than it left.
  `wanted`, `pressed`, `mailed` and `tangled` are history.

## 3. Runs

| run | properties | shows |
|---|---|---|
| `scheduled_send` | OneWithdrawalWins, ImplementsOutgoingMail, DueIsFinalised | two ticks, two rows, undo, cancel and one failure: safety, refinement and liveness of the pipeline |
| `outbox` | LostByMishap, OneCopyPerPress, ImplementsOutgoingMail, PendingIsSettled | two messages over two keys under a kill, a timeout or a blip |
| `calendar` | CommitIsFree, PageAgreesWithCommit, OffersOpenHours; ListingFollowsRule, SplitLosesNothing | the commit check, the page and the opening hours over a clock change, with single and recurring meetings; or forms, drags, overrides and splits over three short months |
| `booking_safety` | BookingsApart, OrphansByMishap, StoresAgree, CancelledIsFinal | two bookings, two requests, two calendars of which one is a colleague's, a save of the link, one failure |
| `booking_double` | **violated**: NoDoubleBooking | two visitors get the same slot, against "Race-safe single-slot check used at booking commit" |
| `mail_store` | AcceptedIsStored, IndexCounts; ImportedOnce | one mail delivered twice and its answer, a rule, a user, two databases; or two files and deliveries of their letters, three jobs of which two overlap, and one failure |
| `mail_crash` | StoredIsListed, QueuedIsSwept, StoredHasBlobs | a delivery and the delivered answer, every rule and request, one killed worker anywhere, a sweep of one tombstone at a time and a message whose blobs cannot be deleted; liveness of index and sweep |
| `invitations` | ShownWasMailed, DeletedIsAnnounced, AnswerStays | an event saved, patched, deleted, opened and answered by interleaved requests |
| `invitations_uid` | **violated**: UidIsLocked | a PATCH clears the UID of an invited event, against "Write-once: once the event has a UID" |
| `reminders` | PushesAccounted, SnoozeKept, SeenInBand | two overlapping runs, LIMIT 1, a snooze, a save and a failure |
| `pages` | OwnerRemains, ResolvedAsSeen, PageAgrees, DeletedStaysGone; LastWishStands, HiddenIsDone, FlagsAgree, CardsAreDecided | the board with four requests of which two overlap and lost answers; or the inbox with four deeds, two requests under way, one failure and one arrival |
| `composer` | LettersKept, MailsArePressed, DraftsOfSentGone, RefusedFilesExplained | one author, two calls under way, drafts, a file, undo, schedule, sweep, one failure |

Many properties have the form "this holds unless that race or failure happened". The exceptions are the races the
code leaves open, named one by one through history variables; each was found by TLC as a counterexample of the
unconditional form, and the mutants show that the conditional form still notices a plausible bug. Such a property
marks how far a hazard reaches; it does not say that the hazard is absent. Properties that
are stated in a module and listed in no run are refuted by TLC and explain section 5 (`OverlapsAreListed`,
`EveryListingFollowsRule`, `OnlyTakenOff` of `EventSeries`, `RuleDeletesOwnMessage`, `DeletableIsSwept` of `MailStore`,
`OnlyInvitesMakeEvents` of `Invitations`),
or are implied by listed ones or proved (section 4); the type invariants are of the latter kind.

Three exceptions came out of the proofs, which reach further than a run's bounds. `LooksBack` of `MboxImport`: a
delivery counts the fortnight from its own day, an import from the letter's date, so that an import may find a
thread that was too old for the delivery before it. `tangled` of `Composer` is set by `Restore` as well when a save
of the letter is under way, which then stands beside the restored draft. `DatesInOrder` of `Availability`: page and
commit agree where the clocks change within one day and windows lie within one; otherwise the days of a range, which
the page walks by the wall clock, may leave a slot out that the commit check finds.

Bounds and why they are enough. Two of everything that races (ticks, messages, requests, deliveries of
one mail), a third where the second needs one to race against (the answer to a mail delivered twice), one failure
where failures are counted, since properties that tolerate mishaps count them and the interesting question is what
one alone can do. The clock of `ScheduledSend` has three instants: before, at and after a due time.
`DispatchBatch` is 1 with two rows so that the LIMIT leaves one over, and so is the `Limit` of `Reminders`, whose
five instants hold a start before, in and after the band. `Availability` has three days of eight ticks, one with a
clock change and one with a break, ranges that begin and end inside meetings and windows, and meetings that recur,
that last over a day and that were moved. `Invitations` has one attendee, two UIDs and two answers, and two
mails: an invitation with its answer or its cancellation, or two invitations, in every order, while any request may
draw or be given a UID. `SweepBatch` is 1, so that one tombstone that cannot be deleted is a full batch of them.
`EventSeries` has months of five, four and four days, so that a month can lack the day of a start, weeks of three and
years of two months, rules of every second week that are in tune, and a `Cap` of four candidates, so that the hard cap of the expander bites. `TeamBoard` has a board seeded with two columns and
limited to three, so that both bounds are one step away; four requests are two races one after the other.
`MboxImport` has a fortnight of one day and letters over three, so that a subject may or may not continue a thread,
an answer whose subject is another, so that parent and subject lead to different databases, and three jobs: store,
draw away, store again.
`InboxPage` has two threads and two requests, so that a deed meets the answer to another one on the same thread or
on its neighbour, and four deeds: act, undo, open or leave, and once more. `MCPages` picks the page at the start, as
a tab shows one at a time: the two share nothing but the run; nor do the two halves of `MCStores` and of `MCCalendar`.
`Composer` needs two letters, drafts and windows for an answer to meet the wrong one.

Symmetry is used only in runs without liveness properties (`Twins` swaps the two deliveries of one mail,
which the constants treat alike). Deadlock checking is off: in every model authors, visitors and failures may
simply stop acting, and the bounds make the others stop as well.

Fairness, where a run has liveness:
- `ScheduledSend`: weak fairness of each tick's and each undo's own steps. The cron trigger fires every
  minute and a started request runs on; authors and failures are not forced.
- `Outbox`: weak fairness of the loop's own steps and strong fairness of `Answered`, the server's answer
  to a row posted again and again: a network that always fails settles nothing.
- `MailStore`: weak fairness of started attempts, requests and the sweep's steps; the start of a delivery
  is not forced. A sweep's deletion may fail at random only as a mishap; that of an `Undeletable` blob always fails.
  `QueuedIsSwept` therefore leaves out the rows behind a full batch of those (`Stuck`), and without that exception
  (`DeletableIsSwept`) TLC refutes it.

## 4. Proofs

TLAPS proves these for every value of the constants that satisfies the modules' ASSUMEs. `PROJECT.json`
lists each theorem. Every invariant, action property and refinement of the passing runs is among them.

- `OutgoingMailProofs`: types, the account of copies, and `OutgoingBounded`: a message is mailed at most
  once per worker plus once per mishap. The one hypothesis on the constants is `Sensible`, which both
  implementations discharge.
- `ScheduledSendProofs`: the inductive invariant is `TypeOK /\ HeldRows` (a tick holds a row exactly
  between the dispatcher's check and its answer) with the parts of the properties; without it a step that
  marks a row could belong to no attempt. `ScheduledImplementsMail` maps every step to a step or stutter of
  `OutgoingMail`, and `ScheduledCopiesBounded` is `OutgoingBounded` seen through the mapping; the run checks the
  refinement, which implies it.
- `OutboxProofs`: `LoopHolds` says that the row in hand reads 'sending' and the rest of the snapshot is
  still pending; it is what lets `Delivered` delete the row it mailed. `OutboxImplementsMail` is the
  refinement with one worker. `QueuedIsKept` cannot count the messages an author believes queued and nobody has,
  because one ack turns every waiting composer to 'queued' at once: `LostCounted` counts the waiting ones as well,
  so that a message is lost only where a hand-over fails, and each such step is a mishap. `PressesBoundCopies`:
  `Tries` charges a press with what may still become a copy (a post of the page, a hand-over, a row that is
  pending or posted) next to the copies that are out; every step moves a try on, and a mishap adds at most one.
- `CalendarProofs`, of three modules.
  `ZonedIsExact` (one correction pass finds an instant for every wall time the zone shows) and `AcceptedIsFree`, for
  all rules, meetings, zones, durations and buffers up to a day. `OffersAreInHours` follows a slot of the page's grid
  back to its window on one side of the clock change (`OneSide`); `WindowsAssumption` says what `parseWeekly` leaves:
  windows end after they start. `PageMatchesCommit` needs that a slot's instant shows the date its window is of
  (`SlotOnDate`) and that later instants show no earlier dates (`DatesGoOn`), so that the commit check, which reads
  the days around a slot, walks the very window the page offered it from; both rest on `DatesInOrder`.
  Reminders: `RemindersInv` is a budget. `Spent` counts pushes made and those runs have in hand (`Pushing`); it never
  exceeds one plus what snoozes and excused listings paid, and a row that is still due and in nobody's hand has one
  push to spare (`Budgeted`) -- without the second half a listing could not be paid for. `SnoozesSafe` adds that no
  run holds a row whose snooze is promised.
  Series: `SeriesInv` types rows, forms and splits: every rule on record has an interval and a UNTIL that a form or a split can
  give it. `ExpandsAsMeant` shows, frequency by frequency, that the candidates of `expandRRule` are the days that
  fit the rule in the reading of the RFC, with weeks from Monday and months of any lengths, if the rule is in tune
  with its start (`Tuned`; `MondayWeekOfDay` relates the two ways to count weeks), and
  `CappedAsMeant` that COUNT, UNTIL and the hard cap keep the same ones. `SplitsLoseNothing` rests on `FitsFromDay`:
  from the day of a split on, the rule fits the same days when it is counted from there.
- `BookingProofs`: `Typed` and `Fresh` (a request writes the row it was given and nobody else holds) carry
  `Apart`: two confirmed rows are apart, or crossed; a slot in hand is apart from every row that was there when
  it was checked (`PromiseKept`), or crossed. An insert then only turns a promise into a row. `Counted` bounds
  the events no row names by the mishaps, with at most one in the hands of a request that is about to record
  it (`OneInHand`): each step that writes an event writes the link next, and only a mishap parts the two.
  `BookingsAgree`: `Stage` says for each step of each route which stores have been told already, and `Peace` what they
  say when no request is about the booking (`Quiet`); `Alone` (one request per uncrossed booking) lets a step ignore
  the others, and `Whole` says that a request knows every calendar until the link is saved.
- `MailStoreProofs`: `IInv` ties a step to what it has found. `Unwritten`: nobody knows a message before its
  insert. `Ready`: what an attempt holds at each step. `Rooted`: rows hang off thread rows, and a
  registered thread is where it is said to be. `Deleting`: keys are queued for rows that are gone.
  `Settled` and `AllKept`: who takes a row away is on record. From these: messages keep their blobs, one
  database holds no two copies, accepted mail is stored. `IndexCountsMessages` is the books of a thread:
  every step leaves its rows, those still to be counted and its counter alone, or adds a row that waits to be
  counted, or counts one (`Account`); the steps that would break it belong to an erasure that is on record.
  `MboxImport`: a stored message never changes, so what a look-up found out about the messages there were when it began
  stays true. `Traced` keeps that for each stored message, `Knows` for each look-up under way, database by database.
  `LettersAreStoredOnce` then compares two copies of one letter: the look-up of the later one must have passed over the
  earlier, and the four ways it can are the four exceptions of the property.
- `LettersProofs`, of two modules.
  Invitations: `Talking`: a reader's request knows its user and invitation, and has mailed the
  answer it saves. `Calm`: while saves do not overlap at most one runs and what it read still holds.
  `Mails` and `Owes`: all mail carries the row's UID, and only listed addresses are owed a cancellation.
  `smooth` ends with a PATCH that touches a set UID, as it ends with a failure: `UidIsLocked`, which would make that
  clause needless, is refuted. These proofs never expand `Reads`, so they hold for this parser and for one that finds
  every METHOD. `NoAnswerIsRecorded` does expand it (`NoMethodIsRead`): the calendars the builders write have their
  METHOD one BEGIN deep, the parser looks at depth 0, so the organizer's list never shows an answer.
  Composer: `ComposerTypes` says what a call of each kind carries. `FileInv`: files in use were uploaded once, and an
  upload that is gone was removed or is old. `MailsPaid`: per letter and files, mails that are out, sends that wait
  and rows that wait are together at most the presses. `LetterInv`: a wanted letter is shown or elsewhere, an
  answered call has left it where the answer says, and no undo claims a row whose answer is still to come.
  `DraftInv`, of letters that are not tangled: all places that know a draft of a letter know the same one, a send that
  knows none is of a letter that has none, and what still knows a draft of a letter that is out has a sender
  beside it that will delete it. The first yields `LettersAreKept`, the second `DraftsOfTheSentGo`.
- `PagesProofs`, of three modules.
  `MailboxAccess`: a request that has passed its check says what it checked. `RequestsOK`:
  its target is a user, its caller asked. `OwnersGuarded`: while one taking of ownership is past its check another
  owner remains, unless two are and the race is on record. `ResolvesGuarded`: a resolve to be written read the present
  assignment, or the record shows the crossing. `AssignsGuarded`: who is to be assigned is a member or was
  removed. Without the guards the write of a checked request is not covered by the property it must keep.
  `TeamBoard`: `BoardEffect` says what a step of the board leaves of members and requests, so that
  the same invariant holds of `Spec`. `DeletedStaysGone` needs `SeedsGuarded` as well: a board that was read with
  columns still has some, one being seeded has lost none yet, a checked deletion leaves another column, unless
  the crossing is on record; the property alone says nothing of the seeder that is about to write.
  `PageShowsBoard`: `PageFollows` says for each request the page may await that until its write the board is as the
  page showed it before the deed, and after it as the page shows it now (`Awaits`); a reorder between two of its
  updates has its own clause (`Halfway`). What agreement means is `Agrees` over a list of columns (`Lists`), with a lemma
  per way a list changes; `GreatestThereIs` gives MAX(position) for the next column. Writes by others are mishaps.
  `InboxPage`: `InboxTyped`, and `Numbered`: each opening of the toolbar has a number of its own, so an answer cannot
  mistake a later opening for the one it left. `TopFlies`: until the deck is touched the card that flies is the top
  one. `FlagFollows`: at most one request about a flag, of the open toolbar, which shows what it asked for.
  `WishFollows`: at most one request files a thread, it asks for what the user last wished, and a thread no request is
  about is where it was wished, but for the excuses on record.

Only model-checked: liveness under fairness (`DueIsFinalised`, `PendingIsSettled`, `StoredIsListed`, `QueuedIsSwept`),
which the prover does not do, and `NoDoubleBooking` and `UidIsLocked`, which are violated. Only proved, as the runs check what implies
them or what is harder: `OneUid`, `NothingRecorded`, `AssignedToMembers`, `CopiesBounded`, `CopiesApart` and the type invariants. ENABLED
and what a recursion computes for every input are out of the prover's reach: the modules that are proved
about use sets and CHOOSE where the code loops, and the hand a deck deals is the sequence of its threads that keeps
the deck's order (`Hands`) rather than a filter, which would take an operator as a parameter.

## 5. What the code does against its comments

Two are runs (section 3). The others were found while modelling; they follow from the actions of the modules:

- Two overlapping ticks mail a scheduled message twice (`email-worker/src/cron.ts` calls its steps "each
  idempotent"); the copies are bounded, not single. An undo that claims a row behind the dispatcher's
  status check makes a draft of a message that goes out (`undo/route.ts` speaks of no "stale draft").
- `sw.js`: a row that was 'sending' when the worker was killed is never listed again, although "Queued --
  will send when online"; the page side of `listOutbox` has no caller, so a failed row never resurfaces.
  A deferred row is overtaken (`sw.js:197`), against "preserves user-intended order". An author told
  "unavailable" after two seconds may find the message queued as well. An ack is matched to no message.
- Where the clocks change across midnight, or a window ends after it (`parseHHMM` takes any hour up to 24:59), the
  page may miss slots the commit check accepts: its days are cut by the wall clock. The page offers slots whose buffer reaches over the edge of the range into a meeting it did not read.
  A buffer is added to one of two neighbouring bookings only. While the host saves a link its calendars
  vanish one by one, and a slot is checked against the rest.
- Cancel and reschedule change a colleague's event with the host's id, which matches no row, against "every
  calendar the booking touched". A racing cancel and reschedule leave calendars and row apart.
  `resolveHostMailbox` is given other mailboxes by cancel and reschedule than by the booking, so it may
  choose another organizer. `booking_reminders` are never dispatched.
- Deleting a thread removes it in one database and queues its tombstones in another: a worker killed in
  between leaves blobs no list names, against `0010_r2_tombstones.sql:5`. An answer to a thread in an
  overflow database is refused by the email worker however often it is delivered (`mail-db.ts:161`). The
  unique index spans one database, so two copies of one mail can live in two. The "sweeper" that comments
  of `store.ts` and `send.ts` let reconcile the index does not exist; the hard cap of `0009_mail_dbs.sql`
  is not enforced. A delete rule takes the whole thread, also a message that arrived while it counted
  (`email-worker/src/rules.ts:198`). The sweep takes the fifty oldest tombstones and leaves those it could not delete
  (`cron.ts:160`): fifty that fail every time keep all later blobs in R2 for good.
- Importing a file again stores mail twice where there is more than one mail database, against "re-running an import
  skips duplicates" (`import-mbox.ts:14`): a later letter of the same file with the same subject opens a thread in
  another database, the look-up prefers it, and the duplicate check asks only that database. A letter without a
  Message-ID gets a new one each time. An import looks back a fortnight from the letter's date, a delivery from its
  own day: what the one leaves in a thread of its own, the other may join to an older one. Old mail becomes the last message its thread shows (`mail-db.ts:264`). A
  lost registration sends every later letter of the thread to the primary, where the foreign key refuses it.
- PATCH of an event guards its UID against null only (`events/[id]/route.ts:111`): `""` is stored as it is, a number
  as NULL, and another string replaces it, against "Write-once" (`:36`) and "once stamped, never clear via PATCH"
  (`:108`). A later DELETE mails no CANCEL, or one with a UID no invitee has.
- Two first saves of an event's attendees draw two UIDs, against "Existing UID is preserved"
  (`attendees/route.ts:87`). A dropped attendee is never told (`:96`), and a save mails the time it read before a
  concurrent PATCH (`:70`). Each save resets the answers on record, and two saves without an edit between them
  repeat the SEQUENCE. The parser never finds METHOD (`ics-parse.ts:89`, `ics-parse.test.ts:76`): no answer
  reaches the organizer's list, though `store.ts:306` means it to, and a REPLY or a CANCEL becomes an event; if it did, a CANCEL that arrives before its invitation is opened would have nothing
  to mark.
- Reminders are pushed before they are stamped: overlapping runs push twice, against "won't double-fire"
  (`cron.ts:120`) and "collides instead of double-firing" (`lib/reminders.ts:167`). A backlog is drained only
  within the band of 60 s, against "gets drained over multiple ticks" (`:123`). A stamp clears a snooze made
  meanwhile. An event that is moved after its reminder went out is not reminded of again; a series is reminded
  of once, at the start of its master.
- `expandRRule` does not pad the lower end of a window (`calendar.ts:242`, comment at 178): an instance that is
  running when the window begins is missing from views, free-busy and the booking check. The form writes
  `MONTHLY;BYDAY=2MO`, which the expander ignores. It counts the weeks of an INTERVAL from Sunday (`:369`), RFC 5545
  from Monday unless WKST says otherwise: a rule of every second week, Sunday and Tuesday, is listed on other days
  than a calendar that follows the RFC shows. A `BYMONTHDAY` before the day of the seed lists an instance
  before the start. Grids and form PATCH the master with the times of a later instance. A split drops COUNT and
  UNTIL, doubles days when an earlier split follows, and loses overrides from its day on. The form PUTs lists it
  has not fetched yet (`CalendarEventForm.tsx:604`). The cap of 1500 counts from the seed.
  `rrule-parse.ts` "MUST produce the same string", but a bare `FREQ=MONTHLY` comes back with BYMONTHDAY.
- Two deletions empty a board and it is seeded again, against "Never re-seeds" and "keeps >= 1 column"
  (`kanban.ts:76`); a late seeder brings a deleted default back, and a seeder that breaks off leaves a part for
  good. A reorder accepts duplicates, against "exactly a permutation" (`:385`), and moves unplaced cards behind
  the page's back. The page rolls whole snapshots back over newer changes. A removed member keeps assignments.
  The check on the last owner and the resolve are each apart from their write.
- Composer: an undo restores a draft that a blank window then overwrites or discards; the restored draft has lost
  its attachments and stands beside the original, or beside the draft that a save under way is about to write. Edits to the draft of a pending row are deleted when it is
  dispatched. ⌘Enter is not guarded while a send runs, and a send during an upload goes out without the file. The
  close of an older send closes a newer window. A failed undo-send row is listed nowhere. Uploads are swept after
  a day although a scheduled message still needs them (`scheduled/route.ts:62`). A draft that is opened again
  gets its signature once more.
- Inbox page: a row that was archived and gets new mail leaves the archive and stays hidden until the scope
  changes. The cross of a delete toast, leaving the thread, or the late dismissal of a toast that ran out before
  drops the delete and leaves the row hidden, although the toast said "Conversation deleted". Rows of a bulk
  action stay hidden when their requests failed (`ThreadList.tsx:90` says so), and so does a row whose request
  was lost or whose undo was refused. Unarchiving on /inbox/all hides the row. A swipe on an archived row and its undo
  unarchive it. An undo may overtake the archive it undoes. The undo of a muting ignores its answer. Two
  presses while a card of the deck flies pass over the next card, and an undo in that time drops another one.
- Deleting a mailbox tombstones and cascades in the primary database only (`api/mailboxes/[id]/route.ts:101`).
  Marking a thread read writes index and rows in the order opposite to a delivery's (`api/threads/[id]/route.ts:140`),
  so the two may disagree on what is unread. Lists by category or quadrant cut the union of all databases at 1000
  ids, against "we truncate to the first N (most-recent" (`lib/queries.ts:221`): the order is per database.

## 6. Not modelled

Pure text functions (parsing, classification, formatting), single-statement CRUD, reads, outside services
and rendering; `PROJECT.json` gives the reason per part. Within the modelled parts: labels, read marks beyond the
counters of `MailStore`, the cadence of follow-ups; which rule matches; the deletion of whole mailboxes; RDATE,
EXDATE and times of day of events, and SEQUENCE; names of columns; aliases, templates and confidential mode of the
composer; the categories and quadrants that narrow a list; Google calendars except as steps that may fail. Most of
the code that is left is the settings, the sidebar, forms and grids, and queries: large, but with one actor and
one statement at a time.

## 7. Plan

Done, in the order of the plan: the two queues of outgoing mail and what they promise (`OutgoingMail`); booking
links; the mail store; invitations; then reminders, series of events, mailboxes with their boards and assignments,
the composer, the inbox page, and the import; proofs of every safety property the passing runs check.

Left, by what it would add: the deletion of a mailbox, composed with `MailStore`; the cool-down of automatic
replies; lists over several databases with their limits.
