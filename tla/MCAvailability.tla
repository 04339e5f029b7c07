--------------------------- MODULE MCAvailability ---------------------------
(* Availability over three short days, with the clocks set back in the     *)
(* morning of the second, in a zone behind UTC.                            *)
EXTENDS Availability

MinusThree == -3
MinusTwo == -2

MCDates == 0 .. 2

\* A break on the first day.
MCRules == [d \in 0 .. 6 |->
    CASE d = 0 -> {[open |-> 1, close |-> 4], [open |-> 5, close |-> 8]}
      [] d = 1 -> {[open |-> 3, close |-> 7]}
      [] OTHER -> {[open |-> 0, close |-> 3]}]

MCOverrides == {{}, {[open |-> 3, close |-> 7]}}

\* A single meeting, an instance of a weekly one, one that lasts longer than a
\* day, and one that was moved to the second day.
MCMeetings ==
    {[start |-> 5, end |-> 7, series |-> FALSE, seed |-> 5],
     [start |-> 18, end |-> 21, series |-> TRUE, seed |-> 18],
     [start |-> 9, end |-> 18, series |-> TRUE, seed |-> 9],
     [start |-> 14, end |-> 15, series |-> TRUE, seed |-> 2]}

MCRanges ==
    {[from |-> 3, to |-> 11], [from |-> 10, to |-> 18], [from |-> 4, to |-> 24]}

\* The clocks change in the daytime here, and the windows end by midnight.
ASSUME DaytimeChange == DatesInOrder
=============================================================================
