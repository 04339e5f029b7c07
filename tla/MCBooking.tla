----------------------------- MODULE MCBooking -----------------------------
(* Booking over a short day: two slots closer than the buffers, and a      *)
(* meeting of the host that begins as the buffer of the second ends.       *)
EXTENDS Booking, TLC

CONSTANTS c1, c2

MCMeetings == (c1 :> {[start |-> 6, end |-> 7]}) @@ (c2 :> {})

\* Bookings and requests are told apart by nothing but their state.
Symmetry == Permutations(Bookings) \cup Permutations(Requests)
=============================================================================
