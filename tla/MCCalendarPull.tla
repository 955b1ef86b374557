-------------------------- MODULE MCCalendarPull --------------------------
(* The calendar holds one event when it is connected.  A second, if there  *)
(* is one, starts in more than 30 days until a day has passed.             *)
EXTENDS CalendarPull

CONSTANT e1

McOrder == [e \in Events |-> IF e = e1 THEN 0 ELSE 1]
McBefore == <<[event |-> e1, op |-> "add"]>>
=============================================================================
