----------------------------- MODULE MCCalendar -----------------------------
(* Either the slots of MCAvailability or the series of MCEventSeries, next  *)
(* to which the booking page stays shut.                                    *)
EXTENDS MCAvailability, MCEventSeries

VARIABLE story

CalendarInit ==
    /\ Init /\ SeriesInit
    /\ story \in {"slots", "series"}
    /\ story = "series" =>
          override = [d \in Dates |-> {}] /\ range = [from |-> 3, to |-> 11]
CalendarNext ==
    /\ UNCHANGED story
    /\ \/ story = "slots" /\ Next /\ UNCHANGED seriesVars
       \/ story = "series" /\ SeriesNext /\ UNCHANGED vars
CalendarSpec == CalendarInit /\ [][CalendarNext]_<<story, vars, seriesVars>>
=============================================================================
