------------------------------ MODULE TeamBoard ------------------------------
(***************************************************************************)
(* The Kanban board of a mailbox (src/web/src/lib/kanban.ts), shared by    *)
(* its members (MailboxAccess), and one open page of it, which shows every *)
(* change before the server confirms it and takes it back when the server  *)
(* refuses (components/KanbanBoardClient.tsx).                             *)
(*                                                                         *)
(* Names of columns and cards are left out: nothing decides on them.       *)
(* Columns created in the same second tie, and come in any order.          *)
(*                                                                         *)
(* used, races and mishaps are not in the code: they record which columns  *)
(* ever existed, which writes crossed, and why a page may be out of step.  *)
(***************************************************************************)
EXTENDS MailboxAccess, SequencesExt

CONSTANTS
    Threads,        \* threads of the mailbox that are not archived
    Columns,        \* every column id there can be
    Defaults,       \* sequence: the ids of the columns a board is seeded with
    MaxColumns      \* the most columns a board may have

NoColumn == "no column"

ASSUME BoardAssumption ==
    /\ NoColumn \notin Columns
    /\ \A i \in 1 .. Len(Defaults) : Defaults[i] \in Columns
    /\ MaxColumns \in Nat /\ Len(Defaults) < MaxColumns

VARIABLES
    position,       \* kanban_columns: the columns there are -> their position
    placed,         \* thread_kanban: thread -> its column, NoColumn without a row
    used,           \* columns that exist or existed
    shown,          \* the columns the page shows, in order
    cards,          \* thread -> the column the page shows it in
    open,           \* the page has been loaded
    mishaps         \* why the page may show something else than the board

boardVars == <<position, placed, used>>
pageVars == <<shown, cards, open, mishaps>>
memberVars == <<role, assignee, claim, closed, removed>>
vars == <<accessVars, boardVars, pageVars>>

Present == DOMAIN position

\* The results ORDER BY position, created_at may give.
Listings ==
    {s \in SetToSeqs(Present) :
        \A i, j \in 1 .. Len(s) : i < j => position[s[i]] <= position[s[j]]}

First(s) == IF s = <<>> THEN NoColumn ELSE s[1]

\* Where loadBoard puts a card: its column if that is else the first.
ColumnOf(t, columns) ==
    IF placed[t] \in Range(columns) THEN placed[t] ELSE First(columns)

BoardInit ==
    /\ AccessInit
    /\ position = <<>>
    /\ placed = [t \in Threads |-> NoColumn]
    /\ used = {}
    /\ shown = <<>>
    /\ cards = [t \in Threads |-> NoColumn]
    /\ open = FALSE
    /\ mishaps = {}

-----------------------------------------------------------------------------
(* Requests: of anybody by the API, or of the page, which remembers what   *)
(* it showed.  Only a request of the page waits for an answer.             *)

BoardOps == {"move", "create", "delete", "reorder"}

Ended(w, answer) == IF job[w].page THEN answer ELSE "idle"

Waiting == {v \in Workers : at[v] # "idle" /\ job[v].page}

Mishap(condition, kind) ==
    mishaps' = IF condition THEN mishaps \union {kind} ELSE mishaps

\* Somebody else writes while the page is loading or open.
Foreign(w) == ~job[w].page /\ (open \/ Waiting # {})

\* An id is left for a new column (the ids are bounded here, not in the code).
Spare ==
    Cardinality({v \in Workers : at[v] # "idle" /\ job[v].op = "create"})
        < Cardinality(Columns \ (used \union Range(Defaults)))

AskBoard(w) ==
    /\ \E u \in Users :
          \/ Send(w, Request("load", u, Nobody, "none"))
          \/ \E t \in Threads, c \in used : Send(w, Request("move", u, t, c))
          \/ Spare /\ Send(w, Request("create", u, Nobody, "none"))
          \/ \E c \in used : Send(w, Request("delete", u, Nobody, c))
          \/ \E s \in SetToSeqs(Present) \ {<<>>} : Send(w, Request("reorder", u, Nobody, s))
    /\ UNCHANGED <<memberVars, races, boardVars, pageVars>>

PageAsks(w, request) ==
    /\ Send(w, [request EXCEPT !.page = TRUE,
                               !.before = [shown |-> shown, cards |-> cards]])
    /\ Mishap(Waiting # {}, "overlap")
    /\ UNCHANGED <<memberVars, races, boardVars, open>>

PageLoad(w) ==
    /\ ~open /\ Waiting = {}
    /\ PageAsks(w, Request("load", Creator, Nobody, "none"))
    /\ UNCHANGED <<shown, cards>>

\* moveCard: dropping a card on the column it is shown in asks for nothing.
PageMove(w) ==
    \E t \in Threads, c \in Range(shown) \ {NoColumn} :
        /\ open /\ cards[t] # c
        /\ cards' = [cards EXCEPT ![t] = c]
        /\ PageAsks(w, Request("move", Creator, t, c))
        /\ UNCHANGED shown

PageCreate(w) ==
    /\ open /\ Spare
    /\ PageAsks(w, Request("create", Creator, Nobody, "none"))
    /\ UNCHANGED <<shown, cards>>

\* deleteColumn: the cards of the column go to the first that is left.  The
\* page shows a column once, so the filter takes out one place.
PageDelete(w) ==
    \E i \in 1 .. Len(shown) :
        LET c == shown[i]
            left == RemoveAt(shown, i)
        IN  /\ open /\ Len(shown) > 1
            /\ shown' = left
            /\ cards' = [t \in Threads |-> IF cards[t] = c THEN First(left) ELSE cards[t]]
            /\ PageAsks(w, Request("delete", Creator, Nobody, c))

\* reorderColumn: a column is taken out and put back where another is.
PageReorder(w) ==
    \E i, j \in 1 .. Len(shown) :
        /\ open /\ i # j
        /\ shown' = InsertAt(RemoveAt(shown, i), j, shown[i])
        /\ PageAsks(w, Request("reorder", Creator, Nobody, shown'))
        /\ UNCHANGED cards

-----------------------------------------------------------------------------
(* The checks of lib/kanban.ts, each followed by its write in a later step. *)

Checked(w, op, granted, number) ==
    /\ job[w].op = op
    /\ Learns(w, "sent", IF granted THEN "write" ELSE Ended(w, "failed"),
              job[w], number)
    /\ UNCHANGED <<memberVars, races, boardVars, pageVars, served>>

\* moveThread: the caller sees the thread's mailbox, the column is on its board.
CheckMove(w) ==
    Checked(w, "move", job[w].by \in Members /\ job[w].to \in Present, 0)

\* createColumn: the limit and the next position come from one listing.
CheckCreate(w) ==
    Checked(w, "create",
            job[w].by \in Members /\ Cardinality(Present) < MaxColumns,
            IF Present = {} THEN 0 ELSE Max({position[c] : c \in Present}) + 1)

\* deleteColumn: the last column stays.
CheckDelete(w) ==
    Checked(w, "delete",
            /\ job[w].to \in Present
            /\ job[w].by \in Members
            /\ Cardinality(Present) > 1,
            0)

\* reorderColumns: as many ids as columns, each of them known.
CheckReorder(w) ==
    Checked(w, "reorder",
            /\ job[w].by \in Members
            /\ Len(job[w].to) = Cardinality(Present)
            /\ Range(job[w].to) \subseteq Present,
            1)

\* Mutant: every opening seeds the board.
CheckLoadSeeds(w) ==
    /\ job[w].op = "load"
    /\ \E s \in Listings :
          Learns(w, "sent", IF job[w].by \notin Members THEN "idle" ELSE "seed",
                 [job[w] EXCEPT !.listed = s], 1)
    /\ UNCHANGED <<memberVars, races, boardVars, pageVars, served>>

\* loadBoard and ensureBoard: an empty board is seeded, and listed again.
CheckLoad(w) ==
    /\ job[w].op = "load"
    /\ \E s \in Listings :
          Learns(w, "sent", IF job[w].by \notin Members THEN "idle"
                            ELSE IF Present = {} THEN "seed" ELSE "cards",
                 [job[w] EXCEPT !.listed = s], 1)
    /\ UNCHANGED <<memberVars, races, boardVars, pageVars, served>>

-----------------------------------------------------------------------------
(* The writes.                                                             *)

WithColumn(c, p) ==
    [x \in Present \union {c} |-> IF x \in Present THEN position[x] ELSE p]

\* INSERT OR IGNORE of one default column after the other.
SeedColumn(w) ==
    LET i == saw[w]
    IN  /\ i <= Len(Defaults)
        /\ Learns(w, "seed", "seed", job[w], i + 1)
        /\ position' = WithColumn(Defaults[i], i - 1)
        /\ used' = used \union {Defaults[i]}
        /\ Mishap(Foreign(w), "foreign")
        /\ UNCHANGED <<memberVars, races, placed, shown, cards, open, served>>

ListSeeded(w) ==
    /\ saw[w] > Len(Defaults)
    /\ \E s \in Listings : Learns(w, "seed", "cards", [job[w] EXCEPT !.listed = s], saw[w])
    /\ UNCHANGED <<memberVars, races, position, placed, used, pageVars, served>>

\* The cards are read after the columns, and the page is shown.
LoadCards(w) ==
    /\ Goes(w, "cards", "idle")
    /\ IF job[w].page
       THEN /\ open' = TRUE
            /\ shown' = job[w].listed
            /\ cards' = [t \in Threads |-> ColumnOf(t, job[w].listed)]
       ELSE UNCHANGED <<open, shown, cards>>
    /\ UNCHANGED <<memberVars, races, boardVars, mishaps, served>>

\* The foreign key refuses a column that is gone by now.
WriteMove(w) ==
    LET kept == job[w].to \in Present
    IN  /\ job[w].op = "move"
        /\ Goes(w, "write", Ended(w, IF kept THEN "ok" ELSE "failed"))
        /\ placed' = IF kept THEN [placed EXCEPT ![job[w].target] = job[w].to] ELSE placed
        /\ Mishap(Foreign(w), "foreign")
        /\ UNCHANGED <<memberVars, races, position, used,
                       shown, cards, open, served>>

WriteCreate(w) ==
    \E c \in Columns \ (used \union Range(Defaults)) :
        /\ job[w].op = "create"
        /\ Learns(w, "write", Ended(w, "ok"), [job[w] EXCEPT !.listed = <<c>>], saw[w])
        /\ position' = WithColumn(c, saw[w])
        /\ used' = used \union {c}
        /\ Mishap(Foreign(w), "foreign")
        /\ UNCHANGED <<memberVars, races, placed, shown, cards, open, served>>

\* Deleting a column takes the placements in it along (ON DELETE CASCADE).
WriteDelete(w) ==
    LET c == job[w].to
    IN  /\ job[w].op = "delete"
        /\ Goes(w, "write", Ended(w, "ok"))
        /\ position' = Restrict(position, Present \ {c})
        /\ placed' = [t \in Threads |-> IF placed[t] = c THEN NoColumn ELSE placed[t]]
        /\ races' = races \union (IF Crossed(w, {"delete"}) THEN {"deletes"} ELSE {})
                          \union (IF \E v \in Workers : at[v] = "seed" THEN {"seed"} ELSE {})
        /\ Mishap(Foreign(w), "foreign")
        /\ UNCHANGED <<memberVars, used, shown, cards, open, served>>

\* One UPDATE for each column; one that is gone is not found.  Cards without
\* a placement follow the first column, which the page does not know.
WriteReorder(w) ==
    LET order == job[w].to
        i == saw[w]
        last == i = Len(order)
    IN  /\ job[w].op = "reorder"
        /\ Learns(w, "write", IF last THEN Ended(w, "ok") ELSE "write",
                  job[w], i + 1)
        /\ position' = [c \in Present |-> IF c = order[i] THEN i - 1 ELSE position[c]]
        /\ mishaps' = mishaps \union (IF Foreign(w) THEN {"foreign"} ELSE {})
                              \union (IF \E t \in Threads : placed[t] = NoColumn
                                      THEN {"unplaced"} ELSE {})
        /\ UNCHANGED <<memberVars, races, placed, used,
                       shown, cards, open, served>>

-----------------------------------------------------------------------------
(* Failures, and the answer at the page.                                   *)

\* The request does not arrive, or the handler breaks off before a write.
Break(w) ==
    /\ job[w].op \in BoardOps \union {"load"}
    /\ \/ Goes(w, "sent", Ended(w, IF job[w].op = "load" THEN "idle" ELSE "failed"))
       \/ Goes(w, "write", Ended(w, "failed"))
       \/ Goes(w, "seed", "idle")
    /\ Mishap(at[w] = "write" /\ job[w].op = "reorder" /\ saw[w] > 1, "halfway")
    /\ UNCHANGED <<memberVars, races, boardVars, shown, cards, open, served>>

\* The server did it, and the page takes it back.
LoseAnswer(w) ==
    /\ Goes(w, "ok", "failed")
    /\ Mishap(TRUE, "lost")
    /\ UNCHANGED <<memberVars, races, boardVars, shown, cards, open, served>>

Succeed(w) ==
    /\ Goes(w, "ok", "idle")
    /\ shown' = IF job[w].op = "create" THEN shown \o job[w].listed ELSE shown
    /\ UNCHANGED <<memberVars, races, boardVars, cards, open, mishaps, served>>

\* Mutant: a refused move stays on the page.
RevertColumns(w) ==
    LET old == job[w].before
        op == job[w].op
    IN  /\ Goes(w, "failed", "idle")
        /\ shown' = IF op \in {"delete", "reorder"} THEN old.shown ELSE shown
        /\ cards' = IF op = "delete" THEN old.cards ELSE cards
        /\ UNCHANGED <<memberVars, races, boardVars, open, mishaps, served>>

\* A move puts back its card, a reorder the columns, a delete both: as they
\* were when the request was sent, whatever was done since.
Revert(w) ==
    LET old == job[w].before
        op == job[w].op
    IN  /\ Goes(w, "failed", "idle")
        /\ shown' = IF op \in {"delete", "reorder"} THEN old.shown ELSE shown
        /\ cards' = CASE op = "delete" -> old.cards
                      [] op = "move" -> [cards EXCEPT ![job[w].target] = old.cards[job[w].target]]
                      [] OTHER -> cards
        /\ UNCHANGED <<memberVars, races, boardVars, open, mishaps, served>>

BoardNext ==
    \E w \in Workers :
        \/ AskBoard(w)
        \/ PageLoad(w) \/ PageMove(w) \/ PageCreate(w) \/ PageDelete(w) \/ PageReorder(w)
        \/ CheckMove(w) \/ CheckCreate(w) \/ CheckDelete(w) \/ CheckReorder(w) \/ CheckLoad(w)
        \/ SeedColumn(w) \/ ListSeeded(w) \/ LoadCards(w)
        \/ WriteMove(w) \/ WriteCreate(w) \/ WriteDelete(w) \/ WriteReorder(w)
        \/ Break(w) \/ LoseAnswer(w) \/ Succeed(w) \/ Revert(w)

\* The routes of the members and of the board serve the same mailbox.
Next == (AccessNext /\ UNCHANGED <<boardVars, pageVars>>) \/ BoardNext

Spec == BoardInit /\ [][Next]_vars

-----------------------------------------------------------------------------
BoardTypeOK ==
    /\ AccessTypeOK
    /\ \A c \in Present : position[c] \in Nat
    /\ \A t \in Threads : placed[t] \in Present \union {NoColumn}
    /\ Present \subseteq used /\ used \subseteq Columns

\* "Never re-seeds": a deleted column comes back only where a deletion
\* crossed a first opening, or two deletions emptied the board.
DeletedStaysGone ==
    [][\A c \in used \ Present : c \in Present'
            => races \intersect {"seed", "deletes"} # {}]_vars

\* With no request of its own under way, the page shows the columns in the
\* board's order and every card where a reload would, unless another hand
\* wrote, two of its requests overlapped, an answer was lost, a reorder broke
\* off, or a reorder moved the cards that have no placement.
PageAgrees ==
    open /\ Waiting = {} /\ mishaps = {} =>
        /\ shown \in Listings
        /\ \A t \in Threads :
              ColumnOf(t, shown) = IF cards[t] \in Range(shown) THEN cards[t] ELSE First(shown)
=============================================================================
