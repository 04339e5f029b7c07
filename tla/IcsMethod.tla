------------------------------- MODULE IcsMethod -------------------------------
(* The METHOD of a calendar attachment: how the two builders write it, and what  *)
(* the email worker's parser finds. A calendar is a sequence of property lines;  *)
(* only the lines that open, close or name the method matter here.               *)
EXTENDS Integers, Sequences, FiniteSets

CONSTANT None

Line(name, value) == [name |-> name, value |-> value]

\* wrapCalendar and buildReplyIcs: METHOD stands inside the VCALENDAR.
Calendar(method) ==
  << Line("BEGIN", "VCALENDAR"), Line("METHOD", method),
     Line("BEGIN", "VEVENT"), Line("DTSTART", ""), Line("END", "VEVENT"),
     Line("END", "VCALENDAR") >>

Count(lines, n, name) == Cardinality({m \in 1..(n - 1) : lines[m].name = name})

\* The parser's depth when it comes to line n: every BEGIN counts, VCALENDAR's too.
Depth(lines, n) == Count(lines, n, "BEGIN") - Count(lines, n, "END")

\* It takes METHOD at depth 0 only, the last one if there are several.
TopLevelMethods(lines) ==
  {n \in DOMAIN lines : lines[n].name = "METHOD" /\ Depth(lines, n) = 0}

MethodRead(lines) ==
  LET found == TopLevelMethods(lines)
  IN  IF found = {} THEN None
      ELSE lines[CHOOSE n \in found : \A m \in found : m <= n].value
================================================================================
