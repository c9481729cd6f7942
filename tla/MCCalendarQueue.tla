--------------------------- MODULE MCCalendarQueue ---------------------------
(* Small calendars for CalendarQueue. *)
EXTENDS CalendarQueue

\* Two events of one day, one of the next year.
TwoYears == {0, 24, 7 * Unit}
\* Three days of which the first and the last share a bucket.
ThreeDays == {24, Unit, 2 * Unit}

\* Few events, told apart in every way; more events mixed with the work of the
\* scheduler; enough events for the calendar to grow and shrink.
Order  == [level |-> TwoYears, fine |-> {-2, -1}, dest |-> {1, 2}, atBegin |-> 0,
           maxEvents |-> 3, maxPut |-> 3, maxTaken |-> 2]
Mixed  == [level |-> ThreeDays, fine |-> {-1}, dest |-> {1}, atBegin |-> 0,
           maxEvents |-> 6, maxPut |-> 6, maxTaken |-> 2]
Resizing == [level |-> TwoYears, fine |-> {-1}, dest |-> {1}, atBegin |-> 9,
             maxEvents |-> 9, maxPut |-> 9, maxTaken |-> 1]
SmallUses == {Order, Mixed, Resizing}
=============================================================================
