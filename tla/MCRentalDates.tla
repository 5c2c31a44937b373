--------------------------- MODULE MCRentalDates ---------------------------
EXTENDS RentalDates

Rules(lead, after, max) == [lead |-> lead, after |-> after, max |-> max]

\* The defaults, and the corners of what the shops table allows.
Corners == {Rules(2, 1, 7), Rules(0, 0, 14), Rules(0, 0, 1), Rules(5, 3, 14)}
\* Always open, closed on Sundays, open on Saturdays only, never open.
SomeWeekdays == {{}, {6}, {0, 1, 2, 3, 4, 6}, 0..6}
\* Closures of one day, of two weeks less or plus a day, and of exactly two.
SomeRanges == {<<10, 10>>, <<9, 21>>, <<9, 22>>, <<9, 23>>, <<24, 26>>}
==============================================================================
