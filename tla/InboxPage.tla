------------------------------ MODULE InboxPage ------------------------------
(***************************************************************************)
(* One open inbox page: the list of threads (ThreadList.tsx), the toolbar  *)
(* of the thread that is open (ThreadActions.tsx with UndoToast.tsx) and   *)
(* the triage deck (TriageDeck.tsx), over the flags of the threads on the  *)
(* server (api/threads/[id]/route.ts).                                     *)
(*                                                                         *)
(* A row disappears at once, by an id in a set that list and toolbar share *)
(* (DismissedThreadsProvider.tsx), and the request follows: an archive is  *)
(* sent and can be reversed, a delete waits for its toast.  Requests are   *)
(* served in any order, may fail, and their answers meet a page that has   *)
(* gone on.                                                                *)
(*                                                                         *)
(* The animation of a row that leaves, labels and read marks are left out; *)
(* "starred" stands for star, pin and follow-up, which are the same code.  *)
(* The steps of a DELETE are in MailStore.                                 *)
(***************************************************************************)
EXTENDS Naturals, Sequences, SequencesExt

CONSTANTS
    Conversations,
    DeckOrder,   \* the threads that are not marketing, as the deck is dealt
    Slots,       \* requests that can be under way at once
    MaxDeeds,    \* bound on what the user does
    MaxFailures,  \* bound on requests that fail
    MaxArrivals  \* bound on new messages

ASSUME DeckAssumption == DeckOrder \in Seq(Conversations) /\ IsFiniteSet(Conversations)
ASSUME PageBounds == MaxDeeds \in Nat /\ MaxFailures \in Nat /\ MaxArrivals \in Nat

VARIABLES
    flags,      \* threads_index: archived, starred and muted of each thread
    gone,       \* threads that were deleted
    scope,      \* which list the page shows
    listed,     \* the rows it was given
    dismissed,  \* the ids it hides
    swipe,      \* the list's undo toast, and whether its button was pressed
    unmute,     \* the thread and flag of the toast "Conversation muted"
    view,       \* the toolbar of the open thread
    deck,       \* the triage deck
    calls,      \* slot -> request under way
    \* what the properties remember:
    want,       \* what the user last asked for each thread
    odd,        \* thread -> what happened that may keep the wish from coming true
    dealt,      \* the cards the deck was dealt
    decided,    \* those the user acted on
    hasty,      \* the deck was touched while a card was flying
    deeds, failures, arrivals

server == <<flags, gone>>
list == <<scope, listed, dismissed, swipe, unmute>>
history == <<want, odd, dealt, decided, hasty, deeds, failures, arrivals>>
inboxVars == <<server, list, view, deck, calls, history>>

Scopes == {"mailbox", "all", "archived"}
Flags == {"starred", "muted"}
NoThread == "no thread"
ASSUME NoThreadAssumption == NoThread \notin Conversations
Idle == [kind |-> "none"]
NoToast == [thread |-> NoThread, used |-> FALSE]
Closed == [thread |-> NoThread]
Plain == [archived |-> FALSE, starred |-> FALSE, muted |-> FALSE]

\* listThreads: the mailbox hides archived and muted threads.
Belongs(t, s) ==
    /\ t \notin gone
    /\ s = "mailbox" => ~flags[t].archived /\ ~flags[t].muted
    /\ s = "archived" => flags[t].archived
Listing(s) == {t \in Conversations : Belongs(t, s)}
Visible == listed \ dismissed

\* The quadrants of the triage deck hide archived and muted threads, and deal
\* the rest in the order of the deck.
Rank(t) == CHOOSE i \in DOMAIN DeckOrder : DeckOrder[i] = t
Hands ==
    {s \in SetToSeqs({t \in Range(DeckOrder) : Belongs(t, "mailbox")}) :
        \A i, j \in DOMAIN s : i < j => Rank(s[i]) < Rank(s[j])}

InboxInit ==
    /\ flags = [t \in Conversations |-> Plain]
    /\ gone = {}
    /\ scope = "mailbox" /\ listed = Conversations /\ dismissed = {}
    /\ swipe = NoToast /\ unmute = <<NoThread, FALSE>>
    /\ view = Closed
    /\ deck = [open |-> FALSE, loading |-> FALSE, loads |-> 0, cards |-> <<>>, starred |-> {},
               flying |-> <<>>, undo |-> NoThread]
    /\ calls = [c \in Slots |-> Idle]
    /\ want = [t \in Conversations |-> "nothing"]
    /\ odd = [t \in Conversations |-> {}]
    /\ dealt = {} /\ decided = {} /\ hasty = FALSE
    /\ deeds = 0 /\ failures = 0 /\ arrivals = 0

-----------------------------------------------------------------------------
(***************************************************************************)
(* Requests.                                                               *)
(***************************************************************************)
Placing == {"swipe", "swipeUndo", "bulk", "bulkDelete", "toolbar", "toolbarUndo", "delete", "deck"}
Deleting == {"bulkDelete", "delete"}
Flagging == {"flag", "flagUndo"}

Opened == IF view = Closed THEN 0 ELSE view.opened
Call(kind, t, field, value) ==
    [kind |-> kind, thread |-> t, field |-> field, value |-> value, step |-> "asked",
     from |-> Opened]
Under(kinds) == {c \in Slots : calls[c].kind \in kinds}
About(t, kinds) == {c \in Under(kinds) : calls[c].thread = t}
Bulk == {"bulk", "bulkDelete"}

Deed == deeds < MaxDeeds /\ deeds' = deeds + 1
Mark(t, why) == odd' = [odd EXCEPT ![t] = @ \cup why]

\* The thread whose delete waits for the toast of the toolbar.
Doomed ==
    IF view # Closed /\ view.pending = "delete" /\ view.counting THEN {view.thread} ELSE {}
\* A wish about a thread while another one is still being carried out.
Crossing(t) == IF About(t, Placing) = {} /\ t \notin Doomed THEN {} ELSE {"crossed"}

Ask(c, request) == calls[c] = Idle /\ calls' = [calls EXCEPT ![c] = request]
\* What is deleted cannot be wished back.
Wish(t, wish) == want' = IF t \in gone THEN want ELSE [want EXCEPT ![t] = wish]
Place(c, kind, t, archived, wish) ==
    /\ Ask(c, Call(kind, t, "archived", archived))
    /\ Wish(t, wish)

\* PATCH and DELETE of the route; a thread that is gone is refused.
Serve(c) ==
    LET r == calls[c] IN
    /\ r # Idle /\ r.step = "asked" /\ r.thread \notin gone
    /\ IF r.kind \in Deleting
         THEN gone' = gone \cup {r.thread} /\ UNCHANGED flags
         ELSE flags' = [flags EXCEPT ![r.thread][r.field] = r.value] /\ UNCHANGED gone
    /\ calls' = [calls EXCEPT ![c] = IF r.kind = "deck" THEN Idle ELSE [r EXCEPT !.step = "ok"]]
    /\ UNCHANGED <<list, view, deck, history>>

Forbid(c) ==
    LET r == calls[c] IN
    /\ r # Idle /\ r.step = "asked" /\ r.thread \in gone
    /\ calls' = [calls EXCEPT ![c] =
                   IF r.kind = "deck" THEN Idle ELSE [r EXCEPT !.step = "refused"]]
    /\ UNCHANGED <<server, list, view, deck, history>>

\* The server fails, or the network before or after the server's part.
\* Where the page answers a refusal by showing the row or the flag again,
\* nothing but the wish suffers.
TakenBack == {"swipe", "toolbar", "delete"}
Damage(kind, answer) ==
    CASE kind = "flag" -> {}
      [] kind = "flagUndo" -> {"flag failed"}
      [] kind \in TakenBack /\ answer = "refused" -> {"refused"}
      [] OTHER -> {"failed"}
Fail(c, answer) ==
    LET r == calls[c] IN
    /\ failures < MaxFailures /\ failures' = failures + 1
    /\ r # Idle
    /\ r.step = "asked" \/ (r.step = "ok" /\ answer = "lost")
    /\ calls' = [calls EXCEPT ![c] =
                   IF r.kind = "deck" THEN Idle ELSE [r EXCEPT !.step = answer]]
    /\ Mark(r.thread, Damage(r.kind, answer))
    /\ UNCHANGED <<server, list, view, deck, want, dealt, decided, hasty, deeds, arrivals>>

Answered(c, kinds, step) == calls[c].kind \in kinds /\ calls[c].step = step
Done(c) == calls' = [calls EXCEPT ![c] = Idle]

\* A new message takes a thread out of the archive, but puts a muted one in.
Arrive(t) ==
    /\ arrivals < MaxArrivals /\ arrivals' = arrivals + 1
    /\ t \notin gone
    /\ flags' = [flags EXCEPT ![t].archived = flags[t].muted]
    /\ Mark(t, {"arrived"})
    /\ UNCHANGED <<gone, list, view, deck, calls, want, dealt, decided, hasty, deeds, failures>>

-----------------------------------------------------------------------------
(***************************************************************************)
(* The list.                                                               *)
(***************************************************************************)
Refresh ==
    /\ listed' = Listing(scope)
    /\ UNCHANGED <<server, scope, dismissed, swipe, unmute, view, deck, calls, history>>

\* A new scope clears what was hidden, and an open toolbar with its toast.
Abandon == odd' = [t \in Conversations |-> IF t \in Doomed THEN odd[t] \cup {"closed"} ELSE odd[t]]
GoTo(s, opens) ==
    /\ scope' = s /\ view' = opens
    /\ IF s = scope
         THEN UNCHANGED <<listed, dismissed>>
         ELSE listed' = Listing(s) /\ dismissed' = {}
Navigate(s) ==
    /\ Deed /\ ~deck.open
    /\ GoTo(s, Closed) /\ Abandon
    /\ s # scope \/ view # Closed
    /\ swipe' \in {swipe, NoToast}
    /\ UNCHANGED <<server, unmute, deck, calls, want, dealt, decided, hasty, failures,
                   arrivals>>

\* archiveOneFromSwipe
Swipe(c, t) ==
    /\ Deed /\ ~deck.open /\ t \in Visible
    /\ dismissed' = dismissed \cup {t}
    /\ Place(c, "swipe", t, TRUE, IF flags[t].archived THEN "still out" ELSE "out")
    /\ Mark(t, Crossing(t))
    /\ UNCHANGED <<server, scope, listed, swipe, unmute, view, deck, dealt, decided, hasty,
                   failures, arrivals>>

SwipeDone(c) ==
    LET t == calls[c].thread IN
    /\ \/ /\ Answered(c, {"swipe"}, "ok")
          /\ swipe' = [thread |-> t, used |-> FALSE] /\ UNCHANGED dismissed
       \/ Answered(c, {"swipe"}, "refused") /\ dismissed' = dismissed \ {t} /\ UNCHANGED swipe
       \/ Answered(c, {"swipe"}, "lost") /\ UNCHANGED <<dismissed, swipe>>
    /\ Done(c)
    /\ UNCHANGED <<server, scope, listed, unmute, view, deck, history>>

\* undoSwipeArchive takes the thread out of the archive, wherever it was before.
UndoSwipe(c) ==
    LET t == swipe.thread
        kept == t # NoThread /\ want[t] = "still out"
    IN  /\ Deed /\ ~deck.open /\ t # NoThread /\ ~swipe.used
        /\ swipe' = [swipe EXCEPT !.used = TRUE]
        /\ Place(c, "swipeUndo", t, FALSE, IF kept THEN "out" ELSE "in")
        /\ Mark(t, Crossing(t) \cup (IF kept THEN {"refiled"} ELSE {}))
        /\ UNCHANGED <<server, scope, listed, dismissed, unmute, view, deck, dealt, decided,
                       hasty, failures, arrivals>>

UndoSwipeDone(c) ==
    LET t == calls[c].thread IN
    /\ calls[c].kind = "swipeUndo" /\ calls[c].step # "asked"
    /\ swipe' = IF calls[c].step = "lost" THEN swipe ELSE NoToast
    /\ dismissed' = IF calls[c].step = "ok" THEN dismissed \ {t} ELSE dismissed
    /\ Done(c)
    /\ UNCHANGED <<server, scope, listed, unmute, view, deck, history>>

\* The toast runs out or is closed.
SwipeToastGone ==
    /\ swipe # NoToast /\ swipe' = NoToast
    /\ UNCHANGED <<server, scope, listed, dismissed, unmute, view, deck, calls, history>>

\* runBulk: all requests at once, and nothing is shown again when some fail.
BulkAsk(S, kind, wish) ==
    /\ Deed /\ ~deck.open /\ S # {} /\ S \subseteq Visible /\ Under(Bulk) = {}
    /\ dismissed' = dismissed \cup S
    /\ \E slot \in Injection(S, {c \in Slots : calls[c] = Idle}) :
        calls' = [c \in Slots |->
             IF \E t \in S : slot[t] = c
               THEN Call(kind, CHOOSE t \in S : slot[t] = c, "archived", TRUE)
               ELSE calls[c]]
    /\ want' = [t \in Conversations |-> IF t \in S \ gone THEN wish ELSE want[t]]
    /\ odd' = [t \in Conversations |->
                 IF t \in S THEN odd[t] \cup Crossing(t) ELSE odd[t]]
    /\ UNCHANGED <<server, scope, listed, swipe, unmute, view, deck, dealt, decided, hasty,
                   failures, arrivals>>
BulkArchive(S) == BulkAsk(S, "bulk", "out")
BulkDelete(S) == BulkAsk(S, "bulkDelete", "deleted")

BulkDone ==
    /\ Under(Bulk) # {} /\ \A c \in Under(Bulk) : calls[c].step # "asked"
    /\ calls' = [c \in Slots |-> IF c \in Under(Bulk) THEN Idle ELSE calls[c]]
    /\ UNCHANGED <<server, list, view, deck, history>>

-----------------------------------------------------------------------------
(***************************************************************************)
(* The toolbar of the open thread.                                         *)
(***************************************************************************)
Toolbar(t) ==
    [thread |-> t, archived |-> flags[t].archived, starred |-> flags[t].starred,
     muted |-> flags[t].muted, pending |-> "none", was |-> FALSE, counting |-> FALSE,
     lingers |-> FALSE, opened |-> deeds + 1]

\* A thread may be opened while a request about its flags is under way.
Late(t) == IF About(t, Flagging) = {} THEN {} ELSE {"flag crossed"}

OpenThread(t) ==
    /\ Deed /\ ~deck.open /\ view = Closed
    /\ t \in Visible /\ t \notin gone
    /\ view' = Toolbar(t)
    /\ Mark(t, Late(t))
    /\ UNCHANGED <<server, list, deck, calls, want, dealt, decided, hasty, failures, arrivals>>

CanAct == Deed /\ view # Closed /\ view.pending = "none"
CanSettle == view # Closed /\ view.counting
\* setPending(null)
Settled == [view EXCEPT !.pending = "none", !.counting = FALSE]
\* The toolbar the request was sent from is still there.
StillOpen(c) == view # Closed /\ view.opened = calls[c].from
Gives(c, step) == calls[c].step = step

\* archive: it dismisses the row in either direction.
Archive(c) ==
    LET t == view.thread IN
    /\ CanAct
    /\ view' = [view EXCEPT !.archived = ~@, !.pending = "archive",
                            !.was = view.archived, !.counting = TRUE]
    /\ dismissed' = dismissed \cup {t}
    /\ Place(c, "toolbar", t, ~view.archived, IF view.archived THEN "in" ELSE "out")
    /\ Mark(t, Crossing(t))
    /\ UNCHANGED <<server, scope, listed, swipe, unmute, deck, dealt, decided, hasty,
                   failures, arrivals>>

ArchiveDone(c) ==
    LET t == calls[c].thread IN
    /\ calls[c].kind = "toolbar" /\ calls[c].step # "asked"
    /\ IF Gives(c, "refused")
         THEN /\ dismissed' = dismissed \ {t}
              /\ view' = IF StillOpen(c)
                           THEN [Settled EXCEPT !.archived = ~calls[c].value]
                           ELSE view
         ELSE UNCHANGED <<dismissed, view>>
    /\ Done(c)
    /\ UNCHANGED <<server, scope, listed, swipe, unmute, deck, history>>

\* UndoToast.undo, for both toasts of the toolbar.
UndoArchive(c) ==
    /\ Deed /\ CanSettle /\ view.pending = "archive"
    /\ view' = [view EXCEPT !.counting = FALSE]
    /\ Place(c, "toolbarUndo", view.thread, view.was, IF view.was THEN "out" ELSE "in")
    /\ Mark(view.thread, Crossing(view.thread))
    /\ UNCHANGED <<server, list, deck, dealt, decided, hasty, failures, arrivals>>

UndoArchiveDone(c) ==
    LET t == calls[c].thread IN
    /\ calls[c].kind = "toolbarUndo" /\ calls[c].step # "asked"
    /\ dismissed' = IF Gives(c, "ok") THEN dismissed \ {t} ELSE dismissed
    /\ view' = IF ~StillOpen(c) \/ Gives(c, "lost") THEN view
               ELSE IF Gives(c, "ok")
                 THEN [Settled EXCEPT !.archived = calls[c].value]
                 ELSE Settled
    /\ Done(c)
    /\ UNCHANGED <<server, scope, listed, swipe, unmute, deck, history>>

\* commitArchive: the toast ran out.
CommitArchive ==
    /\ CanSettle /\ view.pending = "archive"
    /\ IF view.archived
         THEN GoTo("all", Closed)
         ELSE /\ view' = [Settled EXCEPT !.lingers = TRUE]
              /\ UNCHANGED <<scope, listed, dismissed>>
    /\ UNCHANGED <<server, swipe, unmute, deck, calls, history>>

\* deleteThread: the DELETE waits for the toast.
Delete ==
    /\ CanAct
    /\ view' = [view EXCEPT !.pending = "delete", !.counting = TRUE]
    /\ dismissed' = dismissed \cup {view.thread}
    /\ Wish(view.thread, "deleted")
    /\ Mark(view.thread, Crossing(view.thread))
    /\ UNCHANGED <<server, scope, listed, swipe, unmute, deck, calls, dealt, decided, hasty,
                   failures, arrivals>>

\* Mutant: the toast goes on counting.
UndoDeleteCounts ==
    /\ Deed /\ CanSettle /\ view.pending = "delete"
    /\ dismissed' = dismissed \ {view.thread}
    /\ Wish(view.thread, "nothing")
    /\ UNCHANGED <<server, scope, listed, swipe, unmute, view, deck, calls, odd, dealt, decided,
                   hasty, failures, arrivals>>

\* Mutant: the row is not shown again.
UndoDeleteHides ==
    /\ Deed /\ CanSettle /\ view.pending = "delete"
    /\ view' = Settled
    /\ Wish(view.thread, "nothing")
    /\ UNCHANGED <<server, list, deck, calls, odd, dealt, decided, hasty, failures, arrivals>>

UndoDelete ==
    /\ Deed /\ CanSettle /\ view.pending = "delete"
    /\ view' = Settled
    /\ dismissed' = dismissed \ {view.thread}
    /\ Wish(view.thread, "nothing")
    /\ UNCHANGED <<server, scope, listed, swipe, unmute, deck, calls, odd, dealt, decided,
                   hasty, failures, arrivals>>

CommitDelete(c) ==
    /\ CanSettle /\ view.pending = "delete"
    /\ view' = [view EXCEPT !.counting = FALSE]
    /\ Ask(c, Call("delete", view.thread, "archived", TRUE))
    /\ UNCHANGED <<server, list, deck, want, odd, dealt, decided, hasty, deeds, failures,
                   arrivals>>

DeleteDone(c) ==
    LET t == calls[c].thread IN
    /\ calls[c].kind = "delete" /\ calls[c].step # "asked"
    /\ CASE Gives(c, "ok") -> GoTo("all", Closed) /\ Abandon
         [] Gives(c, "refused") ->
              /\ dismissed' = dismissed \ {t}
              /\ view' = IF StillOpen(c) THEN [Settled EXCEPT !.lingers = TRUE] ELSE view
              /\ UNCHANGED <<scope, listed, odd>>
         [] OTHER ->
              /\ view' = IF StillOpen(c) THEN [view EXCEPT !.lingers = TRUE] ELSE view
              /\ UNCHANGED <<scope, listed, dismissed, odd>>
    /\ Done(c)
    /\ UNCHANGED <<server, swipe, unmute, deck, want, dealt, decided, hasty, deeds, failures,
                   arrivals>>

\* A toast that ran out is dismissed a little later, or another one in its place.
LateDismiss ==
    /\ view # Closed /\ view.lingers
    /\ view' = [Settled EXCEPT !.lingers = FALSE]
    /\ Abandon
    /\ UNCHANGED <<server, list, deck, calls, want, dealt, decided, hasty, deeds, failures, arrivals>>

\* The toast's cross: the timer goes with it.
CloseToast ==
    /\ Deed /\ view # Closed /\ view.pending # "none"
    /\ view' = Settled
    /\ Abandon
    /\ UNCHANGED <<server, list, deck, calls, want, dealt, decided, hasty, failures, arrivals>>

\* toggleStar, toggleMute and their like: shown at once, taken back when refused.
FlagOf(t, f) == {c \in About(t, Flagging) : calls[c].field = f}
MarkFlag(t, f) == Mark(t, IF FlagOf(t, f) = {} THEN {} ELSE {"flag crossed"})

Toggle(c, f) ==
    /\ CanAct /\ \A d \in FlagOf(view.thread, f) : calls[d].kind = "flag" => ~StillOpen(d)
    /\ view' = [view EXCEPT ![f] = ~@]
    /\ Ask(c, Call("flag", view.thread, f, ~view[f]))
    /\ MarkFlag(view.thread, f)
    /\ UNCHANGED <<server, list, deck, want, dealt, decided, hasty, failures, arrivals>>

\* Mutant: a refused change stays on the screen.
ToggleStays(c) ==
    /\ calls[c].kind = "flag" /\ calls[c].step # "asked"
    /\ Done(c)
    /\ UNCHANGED <<server, list, view, deck, history>>

\* A muting can be undone from its toast; an answer that is lost shows the error page.
ToggleDone(c) ==
    LET f == calls[c].field IN
    /\ calls[c].kind = "flag" /\ calls[c].step # "asked"
    /\ CASE Gives(c, "ok") ->
              /\ unmute' = IF f = "muted" THEN <<calls[c].thread, calls[c].value>> ELSE unmute
              /\ UNCHANGED <<view, odd>>
         [] Gives(c, "refused") ->
              /\ view' = IF StillOpen(c) THEN [view EXCEPT ![f] = ~calls[c].value] ELSE view
              /\ UNCHANGED <<unmute, odd>>
         [] OTHER ->
              IF StillOpen(c) THEN view' = Closed /\ Abandon /\ UNCHANGED unmute
                              ELSE UNCHANGED <<view, unmute, odd>>
    /\ Done(c)
    /\ UNCHANGED <<server, scope, listed, dismissed, swipe, deck, want, dealt, decided,
                   hasty, deeds, failures, arrivals>>

\* The toast's Undo outlives the toolbar it came from, and does not look at the answer.
UndoMute(c) ==
    LET t == unmute[1] IN
    /\ Deed /\ t # NoThread
    /\ Ask(c, Call("flagUndo", t, "muted", ~unmute[2]))
    /\ view' = IF view # Closed /\ view.thread = t THEN [view EXCEPT !.muted = ~unmute[2]] ELSE view
    /\ unmute' = <<NoThread, FALSE>>
    /\ MarkFlag(t, "muted")
    /\ UNCHANGED <<server, scope, listed, dismissed, swipe, deck, want, dealt, decided,
                   hasty, failures, arrivals>>

UndoMuteDone(c) ==
    /\ calls[c].kind = "flagUndo" /\ calls[c].step # "asked"
    /\ Done(c)
    /\ UNCHANGED <<server, list, view, deck, history>>

UnmuteToastGone ==
    /\ unmute[1] # NoThread /\ unmute' = <<NoThread, FALSE>>
    /\ UNCHANGED <<server, scope, listed, dismissed, swipe, view, deck, calls, history>>

-----------------------------------------------------------------------------
(***************************************************************************)
(* The triage deck.                                                        *)
(***************************************************************************)
Touched == hasty' = (hasty \/ deck.flying # <<>>)

OpenDeck ==
    /\ Deed /\ ~deck.open
    /\ deck' = [deck EXCEPT !.open = TRUE, !.loading = TRUE, !.loads = @ + 1,
                            !.undo = NoThread]
    /\ Touched
    /\ UNCHANGED <<server, list, view, calls, want, odd, dealt, decided, failures, arrivals>>

\* A late answer of an earlier opening deals again.
Dealt(hand) ==
    /\ deck.loads > 0
    /\ deck' = [deck EXCEPT !.loading = FALSE, !.loads = @ - 1, !.cards = hand,
                            !.starred = {t \in Conversations : flags[t].starred}]
    /\ dealt' = Range(hand) /\ decided' = {}
    /\ hasty' = (deck.flying # <<>>)
    /\ UNCHANGED <<server, list, view, calls, want, odd, deeds, arrivals>>
LoadDeck == (\E hand \in Hands : Dealt(hand)) /\ UNCHANGED failures
LoadFails == failures < MaxFailures /\ failures' = failures + 1 /\ Dealt(<<>>)

CloseDeck ==
    /\ Deed /\ deck.open
    /\ deck' = [deck EXCEPT !.open = FALSE]
    /\ UNCHANGED <<server, list, view, calls, want, odd, dealt, decided, hasty, failures,
                   arrivals>>

OnTop == deck.open /\ ~deck.loading /\ deck.cards # <<>>

\* commit: the card flies for a moment before anything is sent.
Commit(action) ==
    /\ Deed /\ OnTop
    /\ deck' = [deck EXCEPT !.flying = Append(@, <<Head(deck.cards), action>>)]
    /\ Touched
    /\ UNCHANGED <<server, list, view, calls, want, odd, dealt, decided, failures, arrivals>>

Reply ==
    /\ Deed /\ OnTop
    /\ deck' = [deck EXCEPT !.open = FALSE]
    /\ GoTo("all", IF Head(deck.cards) \in gone THEN Closed ELSE Toolbar(Head(deck.cards)))
    /\ odd' = [t \in Conversations |-> odd[t] \cup (IF t \in Doomed THEN {"closed"} ELSE {})
                                       \cup (IF t = Head(deck.cards) THEN Late(t) ELSE {})]
    /\ UNCHANGED <<server, swipe, unmute, calls, want, dealt, decided, hasty, failures,
                   arrivals>>

\* The timer of commit: the request, and then the deck moves on by one card.
Advance(d) == [d EXCEPT !.cards = IF @ = <<>> THEN @ ELSE Tail(@), !.flying = Tail(@)]
Land(c) ==
    LET t == Head(deck.flying)[1]
        action == Head(deck.flying)[2]
    IN  /\ deck.flying # <<>>
        /\ decided' = decided \cup {t}
        /\ CASE action = "archive" ->
                  /\ Place(c, "deck", t, TRUE, "out")
                  /\ Mark(t, Crossing(t))
                  /\ deck' = [Advance(deck) EXCEPT !.undo = t]
             [] action = "star" ->
                  /\ Ask(c, [Call("deck", t, "starred", t \notin deck.starred) EXCEPT !.from = 0])
                  /\ Mark(t, {"flag elsewhere"})
                  /\ deck' = Advance(deck)
                  /\ UNCHANGED want
             [] OTHER -> deck' = Advance(deck) /\ UNCHANGED <<calls, want, odd>>
        /\ UNCHANGED <<server, list, view, dealt, hasty, deeds, failures, arrivals>>

\* Mutant: the card does not come back.
UndoDeckForgets(c) ==
    /\ Deed /\ deck.open /\ deck.undo # NoThread
    /\ Place(c, "deck", deck.undo, FALSE, "in")
    /\ Mark(deck.undo, Crossing(deck.undo))
    /\ deck' = [deck EXCEPT !.undo = NoThread]
    /\ decided' = decided \ {deck.undo}
    /\ Touched
    /\ UNCHANGED <<server, list, view, dealt, failures, arrivals>>

UndoDeck(c) ==
    /\ Deed /\ deck.open /\ deck.undo # NoThread
    /\ Place(c, "deck", deck.undo, FALSE, "in")
    /\ Mark(deck.undo, Crossing(deck.undo))
    /\ deck' = [deck EXCEPT !.cards = <<deck.undo>> \o @, !.undo = NoThread]
    /\ decided' = decided \ {deck.undo}
    /\ Touched
    /\ UNCHANGED <<server, list, view, dealt, failures, arrivals>>

-----------------------------------------------------------------------------
Answers ==
    \E c \in Slots :
        \/ Serve(c) \/ Forbid(c) \/ \E answer \in {"refused", "lost"} : Fail(c, answer)
        \/ SwipeDone(c) \/ UndoSwipeDone(c) \/ ArchiveDone(c) \/ UndoArchiveDone(c)
        \/ DeleteDone(c) \/ ToggleDone(c) \/ UndoMuteDone(c)
ListDeeds ==
    \/ \E s \in Scopes : Navigate(s)
    \/ \E c \in Slots : UndoSwipe(c) \/ \E t \in Conversations : Swipe(c, t)
    \/ \E S \in SUBSET Conversations : BulkArchive(S) \/ BulkDelete(S)
    \/ BulkDone \/ SwipeToastGone \/ Refresh
ToolbarDeeds ==
    \/ \E t \in Conversations : OpenThread(t)
    \/ Delete \/ UndoDelete \/ CommitArchive \/ CloseToast \/ LateDismiss \/ UnmuteToastGone
    \/ \E c \in Slots : \/ Archive(c) \/ UndoArchive(c) \/ CommitDelete(c) \/ UndoMute(c)
                        \/ \E f \in Flags : Toggle(c, f)
DeckDeeds ==
    \/ OpenDeck \/ LoadDeck \/ LoadFails \/ CloseDeck \/ Reply
    \/ \E action \in {"archive", "keep", "star"} : Commit(action)
    \/ \E c \in Slots : Land(c) \/ UndoDeck(c)
InboxNext == Answers \/ ListDeeds \/ ToolbarDeeds \/ DeckDeeds \/ \E t \in Conversations : Arrive(t)

InboxSpec == InboxInit /\ [][InboxNext]_inboxVars

-----------------------------------------------------------------------------
PageTypeOK ==
    /\ flags \in [Conversations -> [archived : BOOLEAN, starred : BOOLEAN, muted : BOOLEAN]]
    /\ gone \cup listed \cup dismissed \cup dealt \cup decided \subseteq Conversations
    /\ scope \in Scopes /\ swipe.thread \in Conversations \cup {NoThread}
    /\ unmute \in (Conversations \cup {NoThread}) \X BOOLEAN
    /\ view # Closed =>
        view.thread \in Conversations /\ view.pending \in {"none", "archive", "delete"}
    /\ deck.cards \in Seq(Conversations)
    /\ \A c \in Slots : calls[c] # Idle =>
        /\ calls[c].kind \in Placing \cup Flagging
        /\ calls[c].step \in {"asked", "ok", "refused", "lost"}

\* Nothing about the thread is under way, in a toast that counts or in the air.
AtRest(t) ==
    /\ \A c \in Slots : calls[c] # Idle => calls[c].thread # t
    /\ t \notin Doomed
    /\ \A i \in 1 .. Len(deck.flying) : deck.flying[i][1] # t
CameTrue(t) ==
    /\ t \in gone <=> want[t] = "deleted"
    /\ want[t] \in {"out", "still out"} => flags[t].archived
    /\ want[t] = "in" => ~flags[t].archived
Excuses == {"failed", "crossed", "arrived", "closed", "refiled"}

(***************************************************************************)
(* Once all is at rest a thread is where the user last put it, and deleted *)
(* only if that was the last wish, unless a request failed, two about it   *)
(* crossed, a message arrived, a delete toast was closed before it ran out *)
(* (by its cross or by leaving the page), or an undo of a swipe took out   *)
(* what had been in the archive before.                                    *)
(***************************************************************************)
LastWishStands ==
    \A t \in Conversations :
        AtRest(t) => CameTrue(t) \/ odd[t] \cap (Excuses \cup {"refused"}) # {}

(***************************************************************************)
(* A row that the list hides from what the server gave it was archived,    *)
(* brought back or deleted by the user, unless one of the above happened:  *)
(* it is in view again after a refusal, but not where the request was an   *)
(* undo, one of many or the deck's, or where no answer came.               *)
(***************************************************************************)
HiddenIsDone ==
    \A t \in listed \cap dismissed :
        AtRest(t) => (want[t] # "nothing" /\ CameTrue(t)) \/ odd[t] \cap Excuses # {}

(***************************************************************************)
(* The open toolbar shows the flags the server has, also after a request   *)
(* that failed, unless two requests about a flag crossed, an undo of a     *)
(* muting failed unnoticed, or the deck changed a star meanwhile.          *)
(***************************************************************************)
FlagsAgree ==
    view # Closed /\ view.thread \notin gone =>
        \A f \in Flags :
            FlagOf(view.thread, f) = {} =>
                \/ view[f] = flags[view.thread][f]
                \/ odd[view.thread] \cap {"flag failed", "flag crossed", "flag elsewhere"} # {}

(***************************************************************************)
(* A card that has left the deck was decided on: none is passed over,      *)
(* unless the deck was touched while another card was flying out.          *)
(***************************************************************************)
CardsAreDecided ==
    deck.open /\ ~deck.loading /\ ~hasty => dealt \ Range(deck.cards) \subseteq decided
=============================================================================
