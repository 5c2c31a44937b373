----------------------------- MODULE MCBookings -----------------------------
EXTENDS Shopfront, TLC

CONSTANTS b1, b2, b3, s1, s2, job

\* Every item is a copy of one style, in one size.
Copies == [i \in Items |-> "dress"]
\* Every other item is of a second style.
Mixed == [i \in Items |-> IF i % 2 = 1 THEN "dress" ELSE "gown"]

\* A day; that day and a much later one; two days whose buffers just do not meet;
\* and a day between them, whose buffers meet those of both.
Day0 == {<<0, 0>>}
Days05 == {<<0, 0>>, <<5, 5>>}
Days02 == {<<0, 0>>, <<2, 2>>}
Days012 == Days02 \cup {<<1, 1>>}

RowSymmetry == Permutations(Ids)
\* Any session may run a handler or a job, so sessions are interchangeable.
FullSymmetry == Permutations(Ids) \cup Permutations(WebSessions)
==============================================================================
