------------------------------ MODULE Shopfront ------------------------------
(***************************************************************************)
(* What the pages show of the bookings: search and the dress page to       *)
(* renters, the board of today, the calendar and the booking page to staff.*)
(* Each page decides with a query of its own, so each is an operator on    *)
(* the committed tables of Bookings; the properties compare them with each *)
(* other and with what the handlers then do.                               *)
(***************************************************************************)
EXTENDS Bookings

------------------------------------------------------------------------------
(* Search and the dress page.  A renter's day fixes the rental dates       *)
(* (RentalDates), so both are asked about a span of Spans.                 *)

\* _range of search.py: the days a rental of the span would block.
Window(span) == [first |-> span[1] - PrepDays, last |-> span[2] + CleaningDays]

\* Mutant of BusyIn: the buffers around the stored bookings are forgotten.
OutIn(i, w) == \E b \in Ids : /\ Active(bookings[b])
                              /\ bookings[b].item = i
                              /\ bookings[b].pickup <= w.last
                              /\ w.first <= bookings[b].return

\* _free: the item has an active booking whose blocked range meets the window.
BusyIn(i, w) == \E b \in Ids : /\ Active(bookings[b])
                               /\ bookings[b].item = i
                               /\ First(bookings[b]) <= w.last
                               /\ w.first <= Last(bookings[b])

\* No shop can hand a dress out in the past: the page says so instead of cards.
DateUnreachable(span) == span[1] < today

\* search: the styles with an active item, in this size, free in the window.
Found(span) == {StyleOf[i] : i \in {j \in Items : /\ items[j] = "active"
                                                  /\ ~DateUnreachable(span)
                                                  /\ ~BusyIn(j, Window(span))}}

\* size_options: the sizes the search form lists at all.
SizeOptions == {StyleOf[i] : i \in {j \in Items : items[j] = "active"}}

\* style_availability: the sizes of the dress page, and which of them are free.
PageSizes == SizeOptions
FreeOnPage(span) ==
  {style \in PageSizes :
     /\ ~DateUnreachable(span)
     /\ FreeItems(NewRow("online", "confirmed", NoItem, style, span,
                         PrepDays, CleaningDays, today)) # {}}

\* The table once a renter's request for item i has been stored as b.
Requested(b, i, span) ==
  [bookings EXCEPT ![b] = NewRow("online", "pending_shop", i, StyleOf[i], span,
                                 PrepDays, CleaningDays, today)]

------------------------------------------------------------------------------
(* The pages of the shop's staff.                                          *)

OnBoard == {b \in Ids : bookings[b] # NoRow /\ bookings[b].kind # "block"}

Pending(r) == r.status = "pending_shop"
AtRisk(r) == r.status = "at_risk"
PickupToday(r) == r.status = "confirmed" /\ r.pickup = today
ReturnToday(r) == r.status = "picked_up" /\ r.return = today
OverduePickup(r) == r.status = "confirmed" /\ r.pickup < today

\* Mutant of OverdueReturn: a booking leaves the list once it is flagged.
OverdueStillOut(r) == r.status = "picked_up" /\ r.return < today
OverdueReturn(r) == r.status \in {"picked_up", "not_returned"} /\ r.return < today

\* today_board: six lists.
TodayBoard ==
  <<{b \in OnBoard : Pending(bookings[b])},
    {b \in OnBoard : AtRisk(bookings[b])},
    {b \in OnBoard : PickupToday(bookings[b])},
    {b \in OnBoard : ReturnToday(bookings[b])},
    {b \in OnBoard : OverduePickup(bookings[b])},
    {b \in OnBoard : OverdueReturn(bookings[b])}>>

\* week_calendar: the bookings that the cell of a dress and a day may show.  Its
\* filter on Style.deleted_at passes everything: no code writes that column.
CalendarItems == {i \in Items : items[i] # "retired"}
Cell(i, day) == {b \in Ids : /\ Active(bookings[b])
                             /\ bookings[b].item = i
                             /\ First(bookings[b]) <= day
                             /\ day <= Last(bookings[b])}

\* ACTIONS and BLOCK_ACTIONS, each button by the status it leads to.
Buttons(r) ==
  IF r.kind = "block"
  THEN IF r.status = "confirmed" THEN {"cancelled_by_shop"} ELSE {}
  ELSE CASE r.status = "pending_shop" -> {"confirmed", "declined"}
         [] r.status = "confirmed" -> {"picked_up", "no_show", "cancelled_by_shop"}
         [] r.status = "at_risk" -> {"cancelled_by_shop"}
         [] r.status \in {"picked_up", "not_returned"} -> {"completed"}
         [] OTHER -> {}

\* Mutant of SwapCandidates: the buffers of the booking are left out.
CandidatesOnRentalDays(b) ==
  {i \in Items : /\ items[i] = "active"
                 /\ i # bookings[b].item
                 /\ ~BusyIn(i, [first |-> bookings[b].pickup, last |-> bookings[b].return])}

\* The page lists the nearest candidates: those of the same style first.
MAX_CANDIDATES == 20
Nearer(i, j, style) ==
  IF StyleOf[i] = style <=> StyleOf[j] = style THEN i < j ELSE StyleOf[i] = style

\* swap_candidates, on the page of a booking that may be swapped.
SwapCandidates(b) ==
  LET free == {i \in Items :
                 /\ items[i] = "active"
                 /\ i # bookings[b].item
                 /\ ~BusyIn(i, [first |-> First(bookings[b]), last |-> Last(bookings[b])])}
  IN {i \in free :
        Cardinality({j \in free : Nearer(j, i, bookings[b].style)}) < MAX_CANDIDATES}

\* _booking_page: candidates are listed for online and staff bookings only.
Offered(b) ==
  IF bookings[b].kind # "block" /\ bookings[b].status \in SWAPPABLE
  THEN SwapCandidates(b) ELSE {}

\* The table once the offered item has been taken.
Swapped(b, i) ==
  [bookings EXCEPT ![b].item = i, ![b].style = StyleOf[i],
                   ![b].status = IF @ = "at_risk" THEN "confirmed" ELSE @]

------------------------------------------------------------------------------
(* Properties.                                                             *)

\* No booking falls between the pages of staff: one that needs them, because it
\* waits for a reply, has lost its dress, is due or is late, stands in exactly
\* one list of the board, also after the job has flagged it; every other active
\* one has the cells of its dress in the calendar, all of its days, to itself.
StaffSeeEveryBooking ==
  \A b \in Ids : bookings[b] # NoRow =>
    LET r == bookings[b]
        lists == {n \in DOMAIN TodayBoard : b \in TodayBoard[n]}
        inPlay == r.kind # "block" /\ TRANSITIONS[r.status] # {}
        ahead == \/ r.status = "confirmed" /\ r.pickup > today
                 \/ r.status = "picked_up" /\ r.return > today
    IN /\ inPlay => IF ahead THEN lists = {} ELSE Cardinality(lists) = 1
       /\ ~inPlay => lists = {}
       /\ Active(r) /\ r.item \in CalendarItems =>
            \A day \in First(r) .. Last(r) : Cell(r.item, day) = {b}

\* With one handler at a time, what the pages offer can be done: on the page of a
\* booking every button leads along TRANSITIONS, every item offered for a swap can
\* be stored without a conflict, and a booking of a customer that is not over has a
\* button (shop_bookings.ACTIONS, staff.swap_candidates); a dress that search finds
\* or its page shows free has an active item on which the request can be stored
\* (search.search, availability.style_availability).
OffersCanBeTaken ==
  /\ \A b \in Ids : bookings[b] # NoRow =>
       LET r == bookings[b]
       IN /\ Buttons(r) \subseteq TRANSITIONS[r.status]
          /\ r.kind # "block" /\ TRANSITIONS[r.status] # {} => Buttons(r) # {}
          /\ \A i \in Offered(b) : NotExcluded(Swapped(b, i), b)
  /\ \A span \in Spans : \A style \in Found(span) \cup FreeOnPage(span) :
       \E i \in Items : /\ items[i] = "active" /\ StyleOf[i] = style
                        /\ \A b \in Unused : NotExcluded(Requested(b, i, span), b)
==============================================================================
