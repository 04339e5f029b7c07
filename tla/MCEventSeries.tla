---------------------------- MODULE MCEventSeries ----------------------------
(* EventSeries over three months of five, four and four days, weeks of     *)
(* three days and years of two months; the start typed is the last day of  *)
(* the first month and a Monday.                                           *)
EXTENDS EventSeries, TLC

MCFirsts == <<0, 5, 9, 13>>
MCCustoms ==
    {[Bare("MONTHLY") EXCEPT !.count = 2],
     [Bare("WEEKLY") EXCEPT !.interval = 2, !.byday = {1, 2}]}

Symmetry == Permutations(Ids)
=============================================================================
