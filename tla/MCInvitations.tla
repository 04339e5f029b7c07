----------------------------- MODULE MCInvitations -----------------------------
(* One organizer, one attendee, two requests at a time. Two mails are enough for   *)
(* an invitation with its answer or its cancellation, in every order of arrival.   *)
EXTENDS Invitations, TLC

TheBox == [u \in Users |-> CHOOSE a \in Addresses : TRUE]

Symmetry == Permutations(Uids) \cup Permutations(Answers) \cup Permutations(Requests)
================================================================================
