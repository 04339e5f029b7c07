------------------------------ MODULE Composer ------------------------------
(***************************************************************************)
(* The composer of one author: the window (ComposeProvider.tsx), the       *)
(* drafts and staged uploads it keeps on the server, and the ways a letter *)
(* leaves it: sent at once, held for Undo Send or scheduled.               *)
(*                                                                         *)
(* A letter is a number: every edit makes a new one, 0 is an empty window. *)
(* The window has a counter (instanceKey); what it asks of the server is a *)
(* call that is under way while the author goes on, so answers meet a      *)
(* window that was edited, closed or replaced.  Overlapping dispatchers    *)
(* of one row are ScheduledSend's matter and requests that the network     *)
(* loses before they are sent are Outbox's.                                *)
(***************************************************************************)
EXTENDS Naturals, Sequences, Bags, Functions

CONSTANTS
    Slots,       \* calls that can be under way at once
    Files,       \* files the author may attach
    UploadTTL,   \* TEMP_UPLOADS_TTL_S, a day in the code
    MaxLetters,  \* bound on the edits
    MaxDrafts,   \* bound on the drafts created
    MaxRows,     \* bound on the rows of scheduled_messages
    MaxOpens,    \* bound on the windows opened
    MaxDeeds,    \* bound on what the author does, over all
    MaxTime,     \* bound on the clock
    MaxMishaps   \* bound on failures of the server and of the network

ASSUME ComposerAssumption ==
    /\ UploadTTL \in Nat
    /\ {MaxLetters, MaxDrafts, MaxOpens, MaxTime} \subseteq Nat

VARIABLES
    window,    \* args, instanceKey and the state of ComposeModal
    toast,     \* the row of the Undo Send toast, 0 for none
    calls,     \* requests under way and their answers
    dropping,  \* drafts whose DELETE nobody awaits
    unfiling,  \* uploads whose DELETE nobody awaits
    drafts,    \* table drafts, id to letter
    made,      \* drafts ever created
    uploads,   \* table temp_uploads, file to created_at
    rows,      \* table scheduled_messages
    now,
    \* what the properties remember:
    typed,     \* letters ever written
    wanted,    \* letters neither given up by the author nor taken by a hazard named below
    pressed,   \* bag of [letter, files] for which Send was pressed
    mailed,    \* bag of [letter, files] that went out
    tangled,   \* letters whose draft no send can know
    stamped,   \* when each file was uploaded
    removed,   \* files the author removed or a send used up
    refused,   \* files for lack of which a send failed
    deeds,     \* deeds of the author
    mishaps

page == <<window, toast>>
requests == <<calls, dropping, unfiling>>
aside == <<page, dropping, unfiling>>
tables == <<drafts, made, uploads, rows>>
fileNotes == <<stamped, removed, refused>>
ghosts == <<typed, wanted, pressed, mailed, tangled, fileNotes, deeds, mishaps>>
composerVars == <<page, requests, tables, now, ghosts>>

NoCall == [kind |-> "none", step |-> "asked", n |-> 0, seen |-> {},
           letter |-> 0, draft |-> 0, files |-> {}, due |-> 0, row |-> 0]
Queueing == {"hold", "later"}
Sending == {"send"} \cup Queueing

Written == 1 .. typed
Calls == [kind : {"none", "save", "upload", "undo"} \cup Sending,
          step : {"asked", "mailed", "claimed", "ok", "refused"},
          n : 0 .. window.n, seen : SUBSET Written, letter : 0 .. typed, draft : 0 .. made,
          files : SUBSET Files, due : Nat, row : 0 .. Len(rows)]
Rows == [letter : Written, draft : 0 .. made, files : SUBSET Files, due : Nat, kind : Queueing,
         status : {"pending", "sent", "failed", "cancelled"}, out : BOOLEAN]
Loaded == [letter : Written, files : SUBSET Files]

ComposerTypeOK ==
    /\ typed \in 0 .. MaxLetters /\ made \in 0 .. MaxDrafts /\ now \in 0 .. MaxTime
    /\ window \in [n : 0 .. MaxOpens, open : BOOLEAN, seen : SUBSET Written,
                   letter : 0 .. typed, draft : 0 .. made, files : SUBSET Files]
    /\ toast \in 0 .. Len(rows)
    /\ calls \in [Slots -> Calls]
    /\ \A c \in Slots : calls[c].kind \in Sending \cup {"save", "undo"} => calls[c].letter # 0
    /\ \A c \in Slots :
        /\ calls[c].kind = "undo" => calls[c].row # 0
        /\ calls[c].step = "mailed" => calls[c].kind = "send"
        /\ calls[c].step = "claimed" => calls[c].kind = "undo"
    /\ DOMAIN drafts \subseteq 1 .. made /\ drafts \in [DOMAIN drafts -> Written]
    /\ DOMAIN uploads \subseteq Files /\ uploads \in [DOMAIN uploads -> 0 .. now]
    /\ DOMAIN stamped \subseteq Files /\ stamped \in [DOMAIN stamped -> 0 .. now]
    /\ rows \in Seq(Rows)
    /\ wanted \cup tangled \subseteq Written
    /\ IsABag(pressed) /\ IsABag(mailed)
    /\ BagToSet(pressed) \cup BagToSet(mailed) \subseteq Loaded

ComposerInit ==
    /\ window = [n |-> 0, open |-> FALSE, seen |-> {}, letter |-> 0, draft |-> 0, files |-> {}]
    /\ toast = 0
    /\ calls = [c \in Slots |-> NoCall]
    /\ dropping = {} /\ unfiling = {}
    /\ drafts = <<>> /\ made = 0 /\ uploads = <<>> /\ rows = <<>>
    /\ now = 0
    /\ typed = 0 /\ wanted = {} /\ tangled = {}
    /\ pressed = EmptyBag /\ mailed = EmptyBag
    /\ stamped = <<>> /\ removed = {} /\ refused = {}
    /\ deeds = 0 /\ mishaps = 0

Deed == deeds < MaxDeeds /\ deeds' = deeds + 1
Mishap == mishaps < MaxMishaps /\ mishaps' = mishaps + 1

MailedLetters == {m.letter : m \in BagToSet(mailed)}
UnderWay(kinds) == {c \in Slots : calls[c].kind \in kinds}
OfWindow(c) == window.open /\ calls[c].n = window.n
ShownOn(kinds) == {c \in UnderWay(kinds) : OfWindow(c)}

\* The Scheduled page lists pending and finished rows, but not those of Undo Send.
RowHolds(r, x) ==
    /\ rows[r].letter = x
    /\ rows[r].status = "pending" \/ (rows[r].status = "failed" /\ rows[r].kind = "later")

OutsideWindow(x) ==
    \/ x \in Range(drafts) \cup MailedLetters
    \/ \E c \in UnderWay(Sending \cup {"save", "undo"}) : calls[c].letter = x
    \/ \E r \in DOMAIN rows : RowHolds(r, x)

\* Letters that are gone once the window shows something else.
OnlyInWindow == {x \in {window.letter} \ {0} : window.open /\ ~OutsideWindow(x)}

Without(f, S) == Restrict(f, DOMAIN f \ S)

-----------------------------------------------------------------------------
(* The author.                                                             *)

Show(letter, draft) ==
    /\ window.n < MaxOpens
    /\ window' = [n |-> window.n + 1, open |-> TRUE, seen |-> {letter} \ {0},
                  letter |-> letter, draft |-> draft, files |-> {}]

\* Opening replaces what the window shows; an unsaved letter is left behind.
Open(letter, draft) ==
    /\ Deed
    /\ Show(letter, draft)
    /\ wanted' = wanted \ OnlyInWindow
    /\ UNCHANGED <<toast, requests, tables, now, typed, pressed, mailed, tangled, fileNotes, mishaps>>

OpenBlank == Open(0, 0)
OpenDraft(d) == d \in DOMAIN drafts /\ Open(drafts[d], d)

Type ==
    /\ Deed
    /\ window.open
    /\ typed < MaxLetters
    /\ typed' = typed + 1
    /\ window' = [window EXCEPT !.letter = typed', !.seen = @ \cup {typed'}]
    /\ wanted' = (wanted \ {window.letter}) \cup {typed'}
    /\ UNCHANGED <<toast, requests, tables, now, pressed, mailed, tangled, fileNotes, mishaps>>

Ask(c, call) ==
    /\ calls[c] = NoCall
    /\ calls' = [calls EXCEPT ![c] = call]

CallOf(kind) ==
    [NoCall EXCEPT !.kind = kind, !.n = window.n, !.letter = window.letter, !.draft = window.draft]
SaveCall == [CallOf("save") EXCEPT !.seen = window.seen]
SendCall(kind) == [CallOf(kind) EXCEPT !.files = window.files]

\* A draft made while the letter is being sent without one is unknown to the send.
Save(c) ==
    /\ Deed
    /\ window.open /\ window.letter # 0
    /\ ShownOn({"save"}) = {}
    /\ Ask(c, SaveCall)
    /\ tangled' = IF window.draft = 0 /\ ShownOn(Sending) # {}
                  THEN tangled \cup {window.letter} ELSE tangled
    /\ UNCHANGED <<aside, tables, now, typed, wanted, pressed, mailed, fileNotes, mishaps>>

\* The letter is on its way already, or on its way back: a second press, by Ctrl+Enter or out of a
\* draft.
OnItsWay(x) ==
    \/ \E c \in UnderWay(Sending \cup {"undo"}) : calls[c].letter = x
    \/ \E r \in DOMAIN rows : rows[r].letter = x /\ rows[r].status = "pending"

Press(c, call) ==
    /\ Deed
    /\ window.open /\ window.letter # 0
    /\ Ask(c, call)
    /\ pressed' = pressed (+) SetToBag({[letter |-> window.letter, files |-> window.files]})
    /\ tangled' = IF (window.draft = 0 /\ ShownOn({"save"}) # {}) \/ OnItsWay(window.letter)
                  THEN tangled \cup {window.letter} ELSE tangled
    /\ UNCHANGED <<aside, tables, now, typed, wanted, mailed, fileNotes, mishaps>>

\* submit without and with Undo Send; Ctrl+Enter does not look at isSending.
SendNow(c) == Press(c, SendCall("send"))

Hold(c) ==
    /\ now < MaxTime
    /\ Press(c, [SendCall("hold") EXCEPT !.due = now + 1])

Schedule(c, at) ==
    /\ ShownOn(Sending) = {}
    /\ at > now
    /\ Press(c, [SendCall("later") EXCEPT !.due = at])

Attach(c, f) ==
    /\ Deed
    /\ window.open
    /\ ShownOn({"upload"}) = {}
    /\ f \notin DOMAIN stamped
    /\ \A b \in UnderWay({"upload"}) : calls[b].files # {f}
    /\ Ask(c, [NoCall EXCEPT !.kind = "upload", !.n = window.n, !.files = {f}])
    /\ UNCHANGED <<aside, tables, now, typed, wanted, pressed, mailed, tangled, fileNotes, mishaps>>

RemoveAttachment(f) ==
    /\ Deed
    /\ window.open /\ f \in window.files
    /\ window' = [window EXCEPT !.files = @ \ {f}]
    /\ unfiling' = unfiling \cup {f}
    /\ removed' = removed \cup {f}
    /\ UNCHANGED <<toast, calls, dropping, tables, now, typed, wanted, pressed, mailed, tangled, stamped, refused, mishaps>>

Closed == [window EXCEPT !.open = FALSE, !.seen = {}, !.letter = 0, !.draft = 0, !.files = {}]

\* Discard deletes the draft by its id: one the window never showed goes unseen.
Discard ==
    LET draft == {window.draft} \cap DOMAIN drafts
        saved == {drafts[d] : d \in draft}
    IN  /\ Deed
        /\ window.open
        /\ window' = Closed
        /\ dropping' = dropping \cup ({window.draft} \ {0})
        /\ unfiling' = unfiling \cup window.files
        /\ removed' = removed \cup window.files
        /\ wanted' = wanted \ ({window.letter} \cup saved)
        /\ UNCHANGED <<toast, calls, tables, now, typed, pressed, mailed, tangled, stamped, refused, mishaps>>

PressUndo(c) ==
    /\ Deed
    /\ toast # 0
    /\ UnderWay({"undo"}) = {}
    /\ Ask(c, [NoCall EXCEPT !.kind = "undo", !.row = toast, !.letter = rows[toast].letter])
    /\ UNCHANGED <<aside, tables, now, typed, wanted, pressed, mailed, tangled, fileNotes, mishaps>>

\* DELETE on the Scheduled page, which does not list the rows of Undo Send.
Cancel(r) ==
    /\ Deed
    /\ rows[r].kind = "later" /\ rows[r].status = "pending"
    /\ rows' = [rows EXCEPT ![r].status = "cancelled"]
    /\ wanted' = IF rows[r].letter \in Range(drafts) THEN wanted ELSE wanted \ {rows[r].letter}
    /\ UNCHANGED <<page, requests, drafts, made, uploads, now, typed, pressed, mailed, tangled, fileNotes, mishaps>>

-----------------------------------------------------------------------------
(* The server.                                                             *)

Answered(c, step) == calls' = [calls EXCEPT ![c].step = step]
IsAt(c, kinds, step) == calls[c].kind \in kinds /\ calls[c].step = step

NewDraft(letter) ==
    /\ made < MaxDrafts
    /\ made' = made + 1
    /\ drafts' = [d \in DOMAIN drafts \cup {made'} |-> IF d = made' THEN letter ELSE drafts[d]]

ServePost(c) ==
    /\ IsAt(c, {"save"}, "asked") /\ calls[c].draft = 0
    /\ NewDraft(calls[c].letter)
    /\ calls' = [calls EXCEPT ![c].step = "ok", ![c].draft = made']
    /\ UNCHANGED <<aside, uploads, rows, now, ghosts>>

\* The draft may hold by now what the window of the save never showed.
ServePatch(c) ==
    LET d == calls[c].draft
    IN  /\ IsAt(c, {"save"}, "asked")
        /\ d \in DOMAIN drafts
        /\ drafts' = [drafts EXCEPT ![d] = calls[c].letter]
        /\ Answered(c, "ok")
        /\ wanted' = wanted \ ({drafts[d]} \ calls[c].seen)
        /\ UNCHANGED <<aside, made, uploads, rows, now, typed, pressed, mailed, tangled, fileNotes, deeds, mishaps>>

PatchMisses(c) ==
    /\ IsAt(c, {"save"}, "asked")
    /\ calls[c].draft \notin {0} \cup DOMAIN drafts
    /\ Answered(c, "refused")
    /\ UNCHANGED <<aside, tables, now, ghosts>>

ServeUpload(c) ==
    /\ IsAt(c, {"upload"}, "asked")
    /\ uploads' = [f \in DOMAIN uploads \cup calls[c].files |-> IF f \in calls[c].files THEN now ELSE uploads[f]]
    /\ stamped' = [f \in DOMAIN stamped \cup calls[c].files |-> IF f \in calls[c].files THEN now ELSE stamped[f]]
    /\ Answered(c, "ok")
    /\ UNCHANGED <<aside, drafts, made, rows, now, typed, wanted, pressed, mailed, tangled, removed, refused, deeds, mishaps>>

ServeQueue(c) ==
    /\ IsAt(c, Queueing, "asked")
    /\ calls[c].due > now
    /\ Len(rows) < MaxRows
    /\ rows' = Append(rows, [letter |-> calls[c].letter, draft |-> calls[c].draft, files |-> calls[c].files,
                             due |-> calls[c].due, kind |-> calls[c].kind, status |-> "pending", out |-> FALSE])
    /\ calls' = [calls EXCEPT ![c].step = "ok", ![c].row = Len(rows')]
    /\ UNCHANGED <<aside, drafts, made, uploads, now, ghosts>>

QueueTooLate(c) ==
    /\ IsAt(c, Queueing, "asked")
    /\ calls[c].due <= now
    /\ Answered(c, "refused")
    /\ UNCHANGED <<aside, tables, now, ghosts>>

\* Mutant of Resolved: an attachment that is not found is left out of the mail.
ResolvedAnyway(files) == TRUE

\* sendMessage resolves every attachment before it mails.
Missing(files) == files \ DOMAIN uploads
Resolved(files) == Missing(files) = {}

GoesOut(letter, files) == mailed' = mailed (+) SetToBag({[letter |-> letter, files |-> files \cap DOMAIN uploads]})

\* Its last batch deletes the draft, whatever it says by now, and the rows of the files.
Settle(letter, draft, files) ==
    /\ drafts' = Without(drafts, {draft})
    /\ uploads' = Without(uploads, files)
    /\ removed' = removed \cup files
    /\ wanted' = wanted \ ({drafts[d] : d \in {draft} \cap DOMAIN drafts} \ {letter})

ServeSend(c) ==
    /\ IsAt(c, {"send"}, "asked")
    /\ Resolved(calls[c].files)
    /\ GoesOut(calls[c].letter, calls[c].files)
    /\ Answered(c, "mailed")
    /\ UNCHANGED <<aside, tables, now, typed, wanted, pressed, tangled, fileNotes, deeds, mishaps>>

SendMisses(c) ==
    /\ IsAt(c, {"send"}, "asked")
    /\ ~Resolved(calls[c].files)
    /\ refused' = refused \cup Missing(calls[c].files)
    /\ Answered(c, "refused")
    /\ UNCHANGED <<aside, tables, now, typed, wanted, pressed, mailed, tangled, stamped, removed, deeds, mishaps>>

SettleSend(c) ==
    /\ IsAt(c, {"send"}, "mailed")
    /\ Settle(calls[c].letter, calls[c].draft, calls[c].files)
    /\ Answered(c, "ok")
    /\ UNCHANGED <<aside, made, rows, now, typed, pressed, mailed, tangled, stamped, refused, deeds, mishaps>>

Claim(c) ==
    LET r == calls[c].row
    IN  /\ IsAt(c, {"undo"}, "asked")
        /\ IF rows[r].status = "pending"
           THEN rows' = [rows EXCEPT ![r].status = "cancelled"] /\ Answered(c, "claimed")
           ELSE Answered(c, "refused") /\ UNCHANGED rows
        /\ UNCHANGED <<aside, drafts, made, uploads, now, ghosts>>

\* The draft the letter had stays beside the restored one, the window may show it again, a save
\* of it may be under way, and a dispatcher may have mailed it.
Restore(c) ==
    LET r == calls[c].row
    IN  /\ IsAt(c, {"undo"}, "claimed")
        /\ NewDraft(rows[r].letter)
        /\ calls' = [calls EXCEPT ![c].step = "ok", ![c].draft = made']
        /\ tangled' = IF \/ rows[r].letter \in Range(drafts) \cup MailedLetters \cup {window.letter}
                         \/ \E b \in UnderWay({"save"}) : calls[b].letter = rows[r].letter
                      THEN tangled \cup {rows[r].letter} ELSE tangled
        /\ UNCHANGED <<aside, uploads, rows, now, typed, wanted, pressed, mailed, fileNotes, deeds, mishaps>>

DropDraft(d) ==
    /\ d \in dropping
    /\ dropping' = dropping \ {d}
    /\ drafts' = Without(drafts, {d})
    /\ wanted' = wanted \ {drafts[e] : e \in {d} \cap DOMAIN drafts}
    /\ UNCHANGED <<page, calls, unfiling, made, uploads, rows, now, typed, pressed, mailed, tangled, fileNotes, deeds, mishaps>>

DropUpload(f) ==
    /\ f \in unfiling
    /\ unfiling' = unfiling \ {f}
    /\ uploads' = Without(uploads, {f})
    /\ UNCHANGED <<page, calls, dropping, drafts, made, rows, now, ghosts>>

\* A request fails before it wrote anything.
Fail(c) ==
    /\ calls[c].kind # "none" /\ calls[c].step = "asked"
    /\ Mishap
    /\ Answered(c, "refused")
    /\ UNCHANGED <<aside, tables, now, typed, wanted, pressed, mailed, tangled, fileNotes, deeds>>

\* A handler dies halfway: the letter is out with its draft in place, or taken back with no draft yet.
Break(c) ==
    /\ calls[c].step \in {"mailed", "claimed"}
    /\ Mishap
    /\ Answered(c, "refused")
    /\ tangled' = IF calls[c].step = "mailed" THEN tangled \cup {calls[c].letter} ELSE tangled
    /\ wanted' = IF calls[c].step = "claimed" THEN wanted \ {calls[c].letter} ELSE wanted
    /\ UNCHANGED <<aside, tables, now, typed, pressed, mailed, fileNotes, deeds>>

\* The answer to a request that was carried out does not arrive.
LoseAnswer(c) ==
    /\ calls[c].kind \notin {"none", "send"} /\ calls[c].step = "ok"
    /\ Mishap
    /\ Answered(c, "refused")
    /\ tangled' = tangled \cup ({calls[c].letter} \ {0})
    /\ UNCHANGED <<aside, tables, now, typed, wanted, pressed, mailed, fileNotes, deeds>>

-----------------------------------------------------------------------------
(* Back on the page.                                                       *)

Done(c) == calls' = [calls EXCEPT ![c] = NoCall]

\* Mutant of SaveDone: the window does not remember the draft it created.
SaveDoneForgets(c) ==
    /\ IsAt(c, {"save"}, "ok")
    /\ Done(c)
    /\ UNCHANGED <<page, dropping, unfiling, tables, now, ghosts>>

SaveDone(c) ==
    /\ IsAt(c, {"save"}, "ok")
    /\ window' = IF OfWindow(c) THEN [window EXCEPT !.draft = calls[c].draft] ELSE window
    /\ Done(c)
    /\ UNCHANGED <<toast, dropping, unfiling, tables, now, ghosts>>

UploadDone(c) ==
    /\ IsAt(c, {"upload"}, "ok")
    /\ window' = IF OfWindow(c) THEN [window EXCEPT !.files = @ \cup calls[c].files] ELSE window
    /\ Done(c)
    /\ UNCHANGED <<toast, dropping, unfiling, tables, now, ghosts>>

\* onClose is setArgs(null): it closes the window that is open now, edited or replaced since.
SendDone(c) ==
    /\ IsAt(c, Sending, "ok")
    /\ window' = Closed
    /\ toast' = IF calls[c].kind = "hold" THEN calls[c].row ELSE toast
    /\ wanted' = wanted \ OnlyInWindow
    /\ Done(c)
    /\ UNCHANGED <<dropping, unfiling, tables, now, typed, pressed, mailed, tangled, fileNotes, deeds, mishaps>>

\* The provider opens a window with nothing but the id of the restored draft.
UndoDone(c) ==
    /\ IsAt(c, {"undo"}, "ok")
    /\ Show(0, calls[c].draft)
    /\ toast' = 0
    /\ wanted' = wanted \ OnlyInWindow
    /\ Done(c)
    /\ UNCHANGED <<dropping, unfiling, tables, now, typed, pressed, mailed, tangled, fileNotes, deeds, mishaps>>

\* Mutant of Refused: the window closes whatever the answer was.
RefusedCloses(c) ==
    /\ calls[c].step = "refused"
    /\ Done(c)
    /\ window' = Closed
    /\ UNCHANGED <<toast, dropping, unfiling, tables, now, ghosts>>

\* The error is shown in the window that asked; nobody sees it once that is gone.
Refused(c) ==
    /\ calls[c].step = "refused"
    /\ Done(c)
    /\ wanted' = IF OfWindow(c) THEN wanted ELSE wanted \ {calls[c].letter}
    /\ UNCHANGED <<aside, tables, now, typed, pressed, mailed, tangled, fileNotes, deeds, mishaps>>

-----------------------------------------------------------------------------
(* The cron trigger: the dispatcher of a due row, and the sweep.           *)

IsDue(r) == rows[r].status = "pending" /\ rows[r].due <= now /\ ~rows[r].out

\* Nothing shows the author a failed row of Undo Send.
Unlisted(r) == IF rows[r].kind = "hold" THEN {rows[r].letter} ELSE {}

Dispatch(r) ==
    /\ IsDue(r)
    /\ Resolved(rows[r].files)
    /\ GoesOut(rows[r].letter, rows[r].files)
    /\ rows' = [rows EXCEPT ![r].out = TRUE]
    /\ UNCHANGED <<page, requests, drafts, made, uploads, now, typed, wanted, pressed, tangled, fileNotes, deeds, mishaps>>

DispatchMisses(r) ==
    /\ IsDue(r)
    /\ ~Resolved(rows[r].files)
    /\ refused' = refused \cup Missing(rows[r].files)
    /\ rows' = [rows EXCEPT ![r].status = "failed"]
    /\ wanted' = wanted \ Unlisted(r)
    /\ UNCHANGED <<page, requests, drafts, made, uploads, now, typed, pressed, mailed, tangled, stamped, removed, deeds, mishaps>>

DispatchRejected(r) ==
    /\ IsDue(r)
    /\ Mishap
    /\ rows' = [rows EXCEPT ![r].status = "failed"]
    /\ wanted' = wanted \ Unlisted(r)
    /\ UNCHANGED <<page, requests, drafts, made, uploads, now, typed, pressed, mailed, tangled, fileNotes, deeds>>

DispatchSettles(r) ==
    /\ rows[r].out
    /\ Settle(rows[r].letter, rows[r].draft, rows[r].files)
    /\ rows' = [rows EXCEPT ![r].out = FALSE, ![r].status = "sent"]
    /\ UNCHANGED <<page, requests, made, now, typed, pressed, mailed, tangled, stamped, refused, deeds, mishaps>>

DispatchBreaks(r) ==
    /\ rows[r].out
    /\ Mishap
    /\ rows' = [rows EXCEPT ![r].out = FALSE, ![r].status = "failed"]
    /\ tangled' = tangled \cup {rows[r].letter}
    /\ UNCHANGED <<page, requests, drafts, made, uploads, now, typed, wanted, pressed, mailed, fileNotes, deeds>>

\* Mutant of Stale: the cutoff is now.
StaleAtOnce == {f \in DOMAIN uploads : uploads[f] < now}

Stale == {f \in DOMAIN uploads : uploads[f] + UploadTTL < now}

SweepTempUploads ==
    /\ Stale # {}
    /\ uploads' = Without(uploads, Stale)
    /\ UNCHANGED <<page, requests, drafts, made, rows, now, ghosts>>

Clock ==
    /\ now < MaxTime
    /\ now' = now + 1
    /\ UNCHANGED <<page, requests, tables, ghosts>>

ComposerNext ==
    \/ OpenBlank \/ Type \/ Discard \/ SweepTempUploads \/ Clock
    \/ \E d \in DOMAIN drafts : OpenDraft(d)
    \/ \E d \in dropping : DropDraft(d)
    \/ \E f \in Files : RemoveAttachment(f) \/ DropUpload(f)
    \/ \E c \in Slots :
        \/ Save(c) \/ SendNow(c) \/ Hold(c) \/ PressUndo(c)
        \/ \E at \in 1 .. MaxTime : Schedule(c, at)
        \/ \E f \in Files : Attach(c, f)
        \/ ServePost(c) \/ ServePatch(c) \/ PatchMisses(c) \/ ServeUpload(c)
        \/ ServeQueue(c) \/ QueueTooLate(c)
        \/ ServeSend(c) \/ SendMisses(c) \/ SettleSend(c)
        \/ Claim(c) \/ Restore(c)
        \/ Fail(c) \/ Break(c) \/ LoseAnswer(c)
        \/ SaveDone(c) \/ UploadDone(c) \/ SendDone(c) \/ UndoDone(c) \/ Refused(c)
    \/ \E r \in DOMAIN rows :
        \/ Cancel(r) \/ Dispatch(r) \/ DispatchMisses(r) \/ DispatchRejected(r)
        \/ DispatchSettles(r) \/ DispatchBreaks(r)

ComposerSpec == ComposerInit /\ [][ComposerNext]_composerVars

-----------------------------------------------------------------------------
(* A letter the author still wants is in the window, in a draft, in the    *)
(* queue, on its way or mailed, unless a window that was replaced, a blank *)
(* window after undo, a dispatch of an edited draft or a dead handler took *)
(* it: no failure and no race beyond those loses what was written.         *)
LettersKept ==
    \A x \in wanted : (window.open /\ window.letter = x) \/ OutsideWindow(x)

(* What goes out is what Send was pressed for, once per press and with     *)
(* every file the window showed (send.ts:168-218).                         *)
MailsArePressed == mailed \sqsubseteq pressed

(* Once a letter went out and its send settled, no draft invites the       *)
(* author to send it again, unless the draft was made behind the back of   *)
(* the send, the answer was lost or the handler died after mailing.        *)
DraftsOfSentGone ==
    \A d \in DOMAIN drafts :
        \/ drafts[d] \notin MailedLetters \ tangled
        \/ \E c \in UnderWay({"send"}) : calls[c].step = "mailed" /\ calls[c].draft = d
        \/ \E r \in DOMAIN rows : rows[r].out /\ rows[r].draft = d

(* A send fails for lack of a file only when the author removed the file,  *)
(* an earlier send used it up, or it is older than the sweep allows.       *)
RefusedFilesExplained ==
    \A f \in refused : f \in removed \/ (f \in DOMAIN stamped /\ stamped[f] + UploadTTL < now)

=============================================================================
