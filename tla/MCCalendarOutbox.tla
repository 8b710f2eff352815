-------------------------- MODULE MCCalendarOutbox --------------------------
(***************************************************************************)
(* Small instances of CalendarOutbox, whose drains run in one process.     *)
(***************************************************************************)
EXTENDS CalendarOutbox, TLC

CONSTANT process

CalendarsAlike == Permutations(Calendars)
SameProcess == [w \in Workers |-> process]
=============================================================================
