---------------------------- MODULE MCCalendarCache ----------------------------
EXTENDS CalendarCache

\* A short booking, and a later one that begins while the first is under way.
TwoBookings == {[start |-> 3, end |-> 5], [start |-> 4, end |-> 6]}
OneBooking == {[start |-> 3, end |-> 5]}
=============================================================================
