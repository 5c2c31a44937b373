---------------------------- MODULE ItemCalendar ----------------------------
(***************************************************************************)
(* What the booking engine promises about the dresses, without statuses,   *)
(* handlers or transactions: a calendar in which each booking holds one    *)
(* item for one range of days, or nothing, and no two hold the same item   *)
(* on the same day.                                                        *)
(***************************************************************************)
EXTENDS Integers

CONSTANTS Holders, Items

VARIABLE held   \* what each booking holds

Nothing == [item |-> 0]
Claim == [item : Items, first : Int, last : Int]

Meets(c, d) == c.item = d.item /\ c.first <= d.last /\ d.first <= c.last

\* c can be granted to booking b beside everything the others hold.
Free(table, b, c) ==
  \A o \in Holders \ {b} : table[o] # Nothing => ~Meets(c, table[o])

Init == held = [b \in Holders |-> Nothing]

\* Some bookings give up what they hold: returned, cancelled, expired.
Release(S) ==
  held' = [b \in Holders |-> IF b \in S THEN Nothing ELSE held[b]]

\* Booking b takes an item for a range of days, in the place of what it held
\* and of the bookings S that make way for it.
Take(b, S) ==
  LET cleared == [o \in Holders |-> IF o \in S THEN Nothing ELSE held[o]]
      claim == held'[b]
  IN /\ claim \in Claim
     /\ Free(cleared, b, claim)
     /\ held' = [cleared EXCEPT ![b] = claim]

Next == \E S \in SUBSET Holders : Release(S) \/ \E b \in Holders : Take(b, S)

Spec == Init /\ [][Next]_held

NeverShared ==
  \A b, o \in Holders : b # o /\ held[b] # Nothing /\ held[o] # Nothing
                           => ~Meets(held[b], held[o])
==============================================================================
