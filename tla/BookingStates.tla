---------------------------- MODULE BookingStates ----------------------------
(***************************************************************************)
(* The vocabulary of the bookings table (models/bookings.py) and the table *)
(* of allowed status changes (booking/states.py).                          *)
(***************************************************************************)

Kinds == {"online", "walk_in", "phone", "block"}

Statuses == {"hold", "pending_shop", "confirmed", "at_risk", "picked_up",
             "completed", "not_returned", "no_show", "declined", "expired",
             "cancelled_by_renter", "cancelled_by_shop"}

\* The statuses that occupy the item: the WHERE of the exclusion constraint.
ACTIVE_STATUSES == {"hold", "pending_shop", "confirmed", "picked_up"}

TRANSITIONS ==
  [src \in Statuses |->
     CASE src = "hold" -> {"pending_shop", "confirmed", "expired"}
       [] src = "pending_shop" -> {"confirmed", "declined", "cancelled_by_shop",
                                   "cancelled_by_renter"}
       [] src = "confirmed" -> {"at_risk", "picked_up", "no_show",
                                "cancelled_by_renter", "cancelled_by_shop"}
       [] src = "at_risk" -> {"confirmed", "cancelled_by_shop"}
       [] src = "picked_up" -> {"completed", "not_returned"}
       [] src = "not_returned" -> {"completed"}
       [] OTHER -> {}]

CanTransition(src, dst) == dst \in TRANSITIONS[src]

\* What a walk-in may push aside, and what staff may move to another item.
OVERRIDABLE == {"pending_shop", "confirmed"}
SWAPPABLE == {"pending_shop", "confirmed", "at_risk"}

\* The statuses the buttons of a booking page lead to.
StaffTargets == {"confirmed", "declined", "cancelled_by_shop", "picked_up",
                 "no_show", "completed"}
==============================================================================
