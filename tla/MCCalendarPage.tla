--------------------------- MODULE MCCalendarPage ---------------------------
(* A small instance of CalendarPage for TLC. *)
EXTENDS CalendarPage, TLC

Symmetric == Permutations(Hosts) \cup Permutations(Clicks)
=============================================================================
