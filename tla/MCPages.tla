------------------------------- MODULE MCPages -------------------------------
(* The two pages of a tab that change before the server has answered: the  *)
(* kanban board, with a creator and one more person, one card, two         *)
(* columns to start with and three at most; and the inbox, with two        *)
(* conversations, both in the triage deck.  A tab shows one of them; the   *)
(* stores of the other rest meanwhile.                                     *)
EXTENDS TeamBoard, InboxPage

CONSTANTS u1, u2, t1, d1, d2, n1, n2, w1, w2, m1, m2

VARIABLE page

MCDefaults == <<d1, d2>>
MCDeck == <<m1, m2>>
Interchangeable ==
    Permutations({n1, n2}) \union Permutations({w1, w2}) \union Permutations(Slots)

PagesInit == BoardInit /\ InboxInit /\ page \in {"board", "inbox"}
PagesNext ==
    /\ UNCHANGED page
    /\ \/ page = "board" /\ Next /\ UNCHANGED inboxVars
       \/ page = "inbox" /\ InboxNext /\ UNCHANGED vars
PagesSpec == PagesInit /\ [][PagesNext]_<<page, vars, inboxVars>>
=============================================================================
