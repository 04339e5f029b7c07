---------------------------- MODULE MCReminders ----------------------------
(* Reminders with one event of two reminders and two dispatcher runs.      *)
EXTENDS Reminders, TLC

Symmetry == Permutations(Runs)

=============================================================================
