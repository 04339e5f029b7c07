-------------------------- MODULE MCScheduledSend --------------------------
(* ScheduledSend on small sets of rows, ticks and undo requests.           *)
EXTENDS ScheduledSend, TLC

\* Rows, ticks and undo requests are told apart by nothing but their state.
Symmetry ==
    Permutations(Rows) \cup Permutations(Ticks) \cup Permutations(Clients)

=============================================================================
