--------------------------- MODULE ShopfrontProofs ---------------------------
(***************************************************************************)
(* Proofs about what the pages show of the bookings, and about what the    *)
(* handlers promise when one works at a time, for any number of bookings,  *)
(* items, sessions, days and dates.                                        *)
(***************************************************************************)
EXTENDS Shopfront, BookingsProofs, FiniteSetTheorems

USE ItemsAssumption, IdsAssumption, SpansAssumption, GapsAssumption,
    DaysAssumption, AttemptsAssumption, RequestAssumption

------------------------------------------------------------------------------
(* Search and the dress page.                                              *)

\* The query of search and the one of the dress page look for the same bookings.
LEMMA SameQuery ==
  ASSUME NEW i, NEW style, NEW span
  PROVE  Overlapping([NewRow("online", "confirmed", NoItem, style, span, PrepDays,
                             CleaningDays, today) EXCEPT !.item = i]) = {}
           <=> ~BusyIn(i, Window(span))
  BY DEF Overlapping, NewRow, Clash, First, Last, BusyIn, Window

\* A style is on the page as free exactly if one of its items is active and free.
LEMMA PageIsFree ==
  ASSUME NEW style, NEW span
  PROVE  FreeItems(NewRow("online", "confirmed", NoItem, style, span, PrepDays,
                          CleaningDays, today))
           = {i \in Items : /\ items[i] = "active"
                            /\ StyleOf[i] = style
                            /\ ~BusyIn(i, Window(span))}
<1> DEFINE row == NewRow("online", "confirmed", NoItem, style, span, PrepDays,
                         CleaningDays, today)
<1>1. row.style = style
  BY DEF NewRow
<1>2. \A i \in Items : Overlapping([row EXCEPT !.item = i]) = {} <=> ~BusyIn(i, Window(span))
  BY SameQuery
<1> QED
  <2> HIDE DEF row
  <2>1. FreeItems(row) = {i \in Items : /\ items[i] = "active"
                                        /\ StyleOf[i] = style
                                        /\ ~BusyIn(i, Window(span))}
    BY <1>1, <1>2 DEF FreeItems
  <2> QED
    BY <2>1 DEF row

\* A free item takes the request: the window of the query is the range that the
\* constraint compares.
LEMMA RequestFits ==
  ASSUME TypeOK, NEW i \in Items, NEW span, ~BusyIn(i, Window(span)), NEW b \in Unused
  PROVE  NotExcluded(Requested(b, i, span), b)
<1> DEFINE row == NewRow("online", "pending_shop", i, StyleOf[i], span,
                         PrepDays, CleaningDays, today)
<1>1. /\ b \in Ids /\ Requested(b, i, span)[b] = row
      /\ \A c \in Ids \ {b} : Requested(b, i, span)[c] = bookings[c]
  BY DEF Requested, TypeOK, Unused
<1>2. /\ row.item = i /\ First(row) = Window(span).first /\ Last(row) = Window(span).last
  BY DEF NewRow, First, Last, Window
<1> HIDE DEF row
<1>3. SUFFICES ASSUME NEW c \in Ids \ {b}, Active(bookings[c]), Clash(row, bookings[c])
               PROVE  FALSE
  BY <1>1 DEF NotExcluded
<1> QED
  BY <1>2, <1>3 DEF Clash, BusyIn

\* What search finds or the dress page shows free can be requested.
LEMMA ShownCanBeRequested ==
  ASSUME TypeOK, NEW span, NEW style \in Found(span) \cup FreeOnPage(span)
  PROVE  \E i \in Items : /\ items[i] = "active" /\ StyleOf[i] = style
                          /\ \A b \in Unused : NotExcluded(Requested(b, i, span), b)
<1>1. PICK i \in Items : items[i] = "active" /\ StyleOf[i] = style /\ ~BusyIn(i, Window(span))
  <2>1. CASE style \in Found(span)
    BY <2>1 DEF Found
  <2>2. CASE style \in FreeOnPage(span)
    <3> DEFINE free == FreeItems(NewRow("online", "confirmed", NoItem, style, span, PrepDays,
                                        CleaningDays, today))
    <3>1. free # {}
      BY <2>2 DEF FreeOnPage
    <3>2. free = {i \in Items : /\ items[i] = "active"
                                /\ StyleOf[i] = style
                                /\ ~BusyIn(i, Window(span))}
      BY PageIsFree
    <3> HIDE DEF free
    <3> QED
      BY <3>1, <3>2
  <2> QED
    BY <2>1, <2>2
<1> QED
  BY <1>1, RequestFits
------------------------------------------------------------------------------
(* What a handler decides, by the tables it has just read.                 *)

\* A move decided on what is stored: it changes the status along TRANSITIONS, to
\* not_returned only after the grace days, and to at_risk only for a row to insert
\* that is in the way.
Decided(b, m, insert) ==
  /\ m.from = bookings[b].status /\ m.fromItem = bookings[b].item
  /\ m.to # m.from => CanTransition(m.from, m.to)
  /\ m.to = "not_returned" => today > bookings[b].return + NOT_RETURNED_GRACE_DAYS
  /\ m.to = "at_risk" => /\ m.toItem = m.fromItem
                         /\ insert # NoRow
                         /\ Clash(bookings[b], insert)

Fresh(w) == \A b \in Moved(w) : Decided(b, w.moves[b], w.insert)

\* A booking enters the table in one of three statuses.
Enters(w) == w.insert # NoRow => w.insert.status \in {"pending_shop", "confirmed", "picked_up"}

\* A session at rest has nothing in hand.
Rests(w) ==
  w.phase \in {"idle", "refused"} => Moved(w) = {} /\ w.holds = {} /\ w.insert = NoRow

\* A step of one session that writes nothing: it leaves fresh work in hand.
Decides(s) ==
  \E w : /\ tx' = [tx EXCEPT ![s] = w]
         /\ UNCHANGED <<bookings, event, alerts, today>>
         /\ Fresh(w) /\ Rests(w) /\ (Enters(tx[s]) => Enters(w))

\* Every handler that reads and writes decides, if its moves and its row do.
LEMMA BeginDecides ==
  ASSUME NEW s \in Sessions, NEW moves, NEW insert, Begin(s, moves, insert),
         \A b \in Ids : moves[b] # NoMove => Decided(b, moves[b], insert),
         insert # NoRow => insert.status \in {"pending_shop", "confirmed", "picked_up"}
  PROVE  Decides(s)
<1> DEFINE w == [Idle EXCEPT !.phase = "writing", !.moves = moves, !.insert = insert]
<1>1. w.moves = moves /\ w.insert = insert /\ w.phase = "writing"
  BY DEF Idle
<1>2. tx' = [tx EXCEPT ![s] = w] /\ UNCHANGED <<bookings, event, alerts, today>>
  BY DEF Begin
<1> HIDE DEF w
<1>3. Fresh(w) /\ Rests(w) /\ Enters(w)
  BY <1>1 DEF Fresh, Rests, Enters, Moved
<1> QED
  BY <1>2, <1>3 DEF Decides

\* A button of the booking page decides.
LEMMA BookingActionDecides ==
  ASSUME TypeOK, NEW s \in Sessions, NEW b \in Ids, NEW to \in StaffTargets,
         BookingAction(s, b, to)
  PROVE  Decides(s)
<1> DEFINE move == Relabel(b, to, {})
           moves == [NoMoves EXCEPT ![b] = move]
<1>1. Begin(s, moves, NoRow) /\ CanTransition(bookings[b].status, to)
  BY DEF BookingAction
<1>2. Decided(b, move, NoRow)
  BY <1>1 DEF Decided, Relabel, StaffTargets
<1>3. \A c \in Ids : moves[c] # NoMove => c = b /\ moves[c] = move
  <2> HIDE DEF move
  <2> QED
    BY DEF NoMoves
<1> QED
  <2> HIDE DEF moves
  <2>1. \A c \in Ids : moves[c] # NoMove => Decided(c, moves[c], NoRow)
    BY <1>2, <1>3
  <2> QED
    BY <1>1, <2>1, BeginDecides

\* A swap decides.
LEMMA SwapItemDecides ==
  ASSUME TypeOK, NEW s \in Sessions, NEW b \in Ids, NEW i \in Items, SwapItem(s, b, i)
  PROVE  Decides(s)
<1> DEFINE to == IF bookings[b].status = "at_risk" THEN "confirmed" ELSE bookings[b].status
           move == [Relabel(b, to, {}) EXCEPT !.toItem = i]
           moves == [NoMoves EXCEPT ![b] = move]
<1>1. Begin(s, moves, NoRow) /\ bookings[b].status \in SWAPPABLE
  BY DEF SwapItem
<1>2. move.to = to /\ move.from = bookings[b].status /\ move.fromItem = bookings[b].item
  BY DEF Relabel
<1>3. CanTransition("at_risk", "confirmed")
  BY DEF CanTransition, TRANSITIONS, Statuses
<1>4. Decided(b, move, NoRow)
  <2> HIDE DEF move
  <2> QED
    BY <1>1, <1>2, <1>3 DEF Decided, SWAPPABLE
<1>5. \A c \in Ids : moves[c] # NoMove => c = b /\ moves[c] = move
  <2> HIDE DEF move
  <2> QED
    BY DEF NoMoves
<1> QED
  <2> HIDE DEF moves
  <2>1. \A c \in Ids : moves[c] # NoMove => Decided(c, moves[c], NoRow)
    BY <1>4, <1>5
  <2> QED
    BY <1>1, <2>1, BeginDecides

\* A walk-in decides: what it pushes aside is in its way.
LEMMA WalkInDecides ==
  ASSUME TypeOK, NEW s \in Sessions, NEW i \in Items, NEW span \in Spans,
         NEW now \in BOOLEAN, WalkIn(s, i, span, now)
  PROVE  Decides(s)
<1> DEFINE row == NewRow("walk_in", IF now THEN "picked_up" ELSE "confirmed", i,
                         StyleOf[i], span, PrepDays, CleaningDays, 0)
           conflicts == Overlapping(row)
           moves == [c \in Ids |-> IF c \in conflicts THEN Displace(c) ELSE NoMove]
<1>1. Begin(s, moves, row) /\ \A c \in conflicts : bookings[c].status \in OVERRIDABLE
  BY DEF WalkIn
<1>2. row # NoRow /\ row.status \in {"pending_shop", "confirmed", "picked_up"}
  BY DEF NewRow, NoRow
<1>3. CanTransition("pending_shop", "declined") /\ CanTransition("confirmed", "at_risk")
  BY DEF CanTransition, TRANSITIONS, Statuses
<1>4. ASSUME NEW c \in conflicts PROVE Decided(c, Displace(c), row)
  <2>1. Clash(bookings[c], row) /\ bookings[c].status \in OVERRIDABLE
    BY <1>1 DEF Overlapping
  <2> HIDE DEF row
  <2> QED
    BY <1>2, <1>3, <2>1 DEF Decided, Displace, Relabel, OVERRIDABLE
<1>5. \A c \in Ids : moves[c] # NoMove => c \in conflicts /\ moves[c] = Displace(c)
  <2> HIDE DEF conflicts
  <2> QED
    OBVIOUS
<1> QED
  <2> HIDE DEF moves, row, conflicts
  <2>1. \A c \in Ids : moves[c] # NoMove => Decided(c, moves[c], row)
    BY <1>4, <1>5
  <2> QED
    BY <1>1, <1>2, <2>1, BeginDecides

\* A block decides, and moves nothing.
LEMMA BlockItemDecides ==
  ASSUME TypeOK, NEW s \in Sessions, NEW i \in Items, NEW span \in Spans,
         BlockItem(s, i, span)
  PROVE  Decides(s)
<1> DEFINE row == NewRow("block", "confirmed", i, StyleOf[i], span, 0, 0, 0)
<1>1. Begin(s, NoMoves, row)
  BY DEF BlockItem
<1>2. row.status = "confirmed"
  BY DEF NewRow
<1>3. \A c \in Ids : NoMoves[c] = NoMove
  BY DEF NoMoves
<1> QED
  <2> HIDE DEF row
  <2> QED
    BY <1>1, <1>2, <1>3, BeginDecides

\* A job decides if each of its rows may go where it sends them.
LEMMA RunJobDecides ==
  ASSUME TypeOK, NEW s \in Sessions, NEW rows, NEW to, NEW alert, NEW src,
         RunJob(s, rows, to, alert),
         \A b \in rows : bookings[b].status = src,
         CanTransition(src, to), to # "at_risk",
         to = "not_returned" =>
           \A b \in rows : today > bookings[b].return + NOT_RETURNED_GRACE_DAYS
  PROVE  Decides(s)
<1> DEFINE moves == [b \in Ids |-> IF b \in rows THEN Relabel(b, to, alert) ELSE NoMove]
<1>1. Begin(s, moves, NoRow)
  BY DEF RunJob
<1>2. ASSUME NEW b \in rows PROVE Decided(b, Relabel(b, to, alert), NoRow)
  BY DEF Decided, Relabel
<1>3. \A c \in Ids : moves[c] # NoMove => c \in rows /\ moves[c] = Relabel(c, to, alert)
  OBVIOUS
<1> QED
  <2> HIDE DEF moves
  <2>1. \A c \in Ids : moves[c] # NoMove => Decided(c, moves[c], NoRow)
    BY <1>2, <1>3
  <2> QED
    BY <1>1, <2>1, BeginDecides

\* The three jobs decide: the grace days are in the query of the last.
LEMMA JobsDecide ==
  ASSUME TypeOK, NEW s \in Sessions, Jobs(s) PROVE Decides(s)
<1>1. /\ CanTransition("pending_shop", "cancelled_by_shop")
      /\ CanTransition("confirmed", "no_show")
      /\ CanTransition("picked_up", "not_returned")
  BY DEF CanTransition, TRANSITIONS, Statuses
<1>2. CASE ExpireStaleRequests(s)
  <2>1. \A b \in StaleRequests : bookings[b].status = "pending_shop"
    BY DEF StaleRequests
  <2>2. RunJob(s, StaleRequests, "cancelled_by_shop", {"request_expired_admin"})
    BY <1>2 DEF ExpireStaleRequests
  <2> QED
    BY <1>1, <2>1, <2>2, RunJobDecides
<1>3. CASE MarkNoShows(s)
  <2>1. \A b \in MissedPickups : bookings[b].status = "confirmed"
    BY DEF MissedPickups
  <2>2. RunJob(s, MissedPickups, "no_show", {})
    BY <1>3 DEF MarkNoShows
  <2> QED
    BY <1>1, <2>1, <2>2, RunJobDecides
<1>4. CASE MarkNotReturned(s)
  <2>1. ASSUME NEW b \in Overdue
        PROVE  /\ bookings[b].status = "picked_up"
               /\ today > bookings[b].return + NOT_RETURNED_GRACE_DAYS
    <3>1. /\ bookings[b].status = "picked_up" /\ b \in Ids
          /\ bookings[b].return < today - NOT_RETURNED_GRACE_DAYS
      BY DEF Overdue
    <3>2. bookings[b].return \in Int /\ today \in Int
      BY <3>1 DEF TypeOK, Row, NoRow
    <3> QED
      BY <3>1, <3>2 DEF NOT_RETURNED_GRACE_DAYS
  <2>2. RunJob(s, Overdue, "not_returned", {})
    BY <1>4 DEF MarkNotReturned
  <2> QED
    BY <1>1, <2>1, <2>2, RunJobDecides
<1> QED
  BY <1>2, <1>3, <1>4 DEF Jobs
\* The search of a request decides: it has a row to insert and moves nothing.
LEMMA RequestDecides ==
  ASSUME TypeOK, NEW s \in Sessions, NEW style \in Styles, NEW span \in Spans,
         NEW status \in RequestStatuses, RequestDress(s, style, span, status)
  PROVE  Decides(s)
<1> DEFINE row == NewRow("online", status, NoItem, style, span, PrepDays, CleaningDays, today)
           free == FreeItems(row)
           w == [Idle EXCEPT !.phase = "locking", !.tries = 1,
                             !.free = free, !.insert = row]
<1>1. tx' = [tx EXCEPT ![s] = w] /\ UNCHANGED <<bookings, event, alerts, today>>
  BY DEF RequestDress
<1>2. row.status \in {"pending_shop", "confirmed"}
  BY DEF NewRow
<1> HIDE DEF row, free
<1>3. w.phase = "locking" /\ w.insert = row /\ Moved(w) = {}
  BY DEF Idle, NoMoves, Moved
<1> HIDE DEF w
<1>4. Fresh(w) /\ Rests(w) /\ Enters(w)
  BY <1>2, <1>3 DEF Fresh, Rests, Enters
<1> QED
  BY <1>1, <1>4 DEF Decides

\* A session that comes to rest decides nothing.
LEMMA IdleDecides ==
  ASSUME NEW s \in Sessions, NEW w \in {Idle, [Idle EXCEPT !.phase = "refused"]},
         tx' = [tx EXCEPT ![s] = w], UNCHANGED <<bookings, event, alerts, today>>
  PROVE  Decides(s)
<1>1. w.insert = NoRow /\ w.holds = {} /\ Moved(w) = {}
  BY DEF Idle, NoMoves, Moved
<1>2. Fresh(w) /\ Rests(w) /\ Enters(w)
  BY <1>1 DEF Fresh, Rests, Enters
<1> QED
  BY <1>2 DEF Decides

\* A request that takes its lock moves nothing, and its row only gets an item.
LEMMA LockItemDecides ==
  ASSUME TypeOK, LockInv, NEW s \in Sessions, LockItem(s) PROVE Decides(s)
<1>1. PICK i \in Items :
        tx' = [tx EXCEPT ![s].phase = "writing", ![s].free = {},
                         ![s].holds = @ \cup {i}, ![s].insert.item = i]
  <2>1. PICK skipped \in SUBSET MayBeLocked(s) : \E i \in Lockable(s, skipped) :
          tx' = [tx EXCEPT ![s].phase = "writing", ![s].free = {},
                           ![s].holds = @ \cup {i}, ![s].insert.item = i]
    BY DEF LockItem
  <2>2. UnitOK(tx[s])
    BY UnitTyped
  <2>3. Lockable(s, skipped) \subseteq Items
    BY <2>2 DEF UnitOK, Tx, Lockable
  <2> QED
    BY <2>1, <2>3
<1>2. /\ tx[s].tries > 0 /\ tx[s].insert \in Draft /\ tx[s] \in Tx
      /\ tx \in [Sessions -> Tx]
      /\ UNCHANGED <<bookings, event, alerts, today>>
  BY UnitTyped DEF LockItem, UnitOK, Tx, TypeOK
<1> DEFINE row == [tx[s].insert EXCEPT !.item = i]
           w == [tx[s] EXCEPT !.phase = "writing", !.free = {}, !.holds = @ \cup {i},
                              !.insert = row]
<1>3. tx' = [tx EXCEPT ![s] = w]
  BY <1>1, <1>2, ZenonT(60)
<1>4. row.status = tx[s].insert.status
  BY <1>2 DEF Draft
<1>5. tx[s].insert # NoRow
  BY <1>2, UnitTyped DEF UnitOK
<1> HIDE DEF row
<1>6. w.phase = "writing" /\ w.insert = row /\ w.moves = tx[s].moves
  BY <1>2 DEF Tx
<1> HIDE DEF w
<1>7. Moved(w) = {}
  BY <1>2, <1>6 DEF LockInv, Moved
<1>8. Fresh(w) /\ Rests(w) /\ (Enters(tx[s]) => Enters(w))
  BY <1>4, <1>5, <1>6, <1>7 DEF Fresh, Rests, Enters
<1> QED
  BY <1>2, <1>3, <1>8 DEF Decides

\* Nor does a request that goes round again, or gives up.
LEMMA RetryDecides ==
  ASSUME TypeOK, LockInv, NEW s \in Sessions, Retry(s) PROVE Decides(s)
<1>1. CASE ~(tx[s].tries < MaxAttempts)
  BY <1>1, IdleDecides DEF Retry
<1>2. CASE tx[s].tries < MaxAttempts
  <2>1. UnitOK(tx[s]) /\ tx[s].phase = "writing" /\ tx[s].tries > 0 /\ tx[s].insert \in Row
    BY UnitTyped DEF UnitOK, Retry, Refuted
  <2> DEFINE free == FreeItems(tx[s].insert)
             row == [tx[s].insert EXCEPT !.item = NoItem]
             w == [tx[s] EXCEPT !.phase = "locking", !.tries = tx[s].tries + 1, !.free = free,
                                !.insert = row]
  <2>2. row.status = tx[s].insert.status /\ tx[s].insert # NoRow
    BY <2>1, StoredRow DEF Row
  <2>3. tx' = [tx EXCEPT ![s] = w] /\ UNCHANGED <<bookings, event, alerts, today>>
    BY <1>2 DEF Retry
  <2> HIDE DEF row, free
  <2>4. w.phase = "locking" /\ w.insert = row /\ w.moves = tx[s].moves
    BY <2>1 DEF UnitOK, Tx
  <2> HIDE DEF w
  <2>5. Moved(w) = {}
    BY <2>1, <2>4 DEF LockInv, Moved
  <2>6. Fresh(w) /\ Rests(w) /\ (Enters(tx[s]) => Enters(w))
    BY <2>2, <2>4, <2>5 DEF Fresh, Rests, Enters
  <2> QED
    BY <2>3, <2>6 DEF Decides
<1> QED
  BY <1>1, <1>2

\* Midnight and the item status leave all work in hand as it is.
Waits ==
  /\ UNCHANGED <<bookings, event, alerts>> /\ today' >= today
  /\ \A s \in Sessions : /\ tx'[s].phase = tx[s].phase /\ tx'[s].holds = tx[s].holds
                         /\ tx'[s].moves = tx[s].moves /\ tx'[s].insert = tx[s].insert

\* Every step is a commit, a decision of one session, or leaves all work in hand.
LEMMA StepShape ==
  ASSUME TypeOK, LockInv, [Next]_vars
  PROVE  (\E s \in Sessions : Commit(s)) \/ (\E s \in Sessions : Decides(s)) \/ Waits
<1>1. ASSUME NEW s \in Sessions, Web(s) PROVE Decides(s)
  <2>1. ASSUME NEW style \in Styles, NEW span \in Spans, NEW status \in RequestStatuses,
               RequestDress(s, style, span, status)
        PROVE  Decides(s)
    BY <2>1, RequestDecides
  <2>2. ASSUME NEW i \in Items, NEW span \in Spans, NEW now \in BOOLEAN,
               WalkIn(s, i, span, now)
        PROVE  Decides(s)
    BY <2>2, WalkInDecides
  <2>3. ASSUME NEW i \in Items, NEW span \in Spans, BlockItem(s, i, span) PROVE Decides(s)
    BY <2>3, BlockItemDecides
  <2>4. ASSUME NEW b \in Ids, NEW to \in StaffTargets, BookingAction(s, b, to)
        PROVE  Decides(s)
    BY <2>4, BookingActionDecides
  <2>5. ASSUME NEW b \in Ids, NEW i \in Items, SwapItem(s, b, i) PROVE Decides(s)
    BY <2>5, SwapItemDecides
  <2> QED
    BY <1>1, <2>1, <2>2, <2>3, <2>4, <2>5 DEF Web
<1>2. ASSUME NEW s \in Sessions, NoAvailability(s) \/ Reject(s) \/ Abort(s) PROVE Decides(s)
  BY <1>2, IdleDecides DEF NoAvailability, Reject, Abort
<1>3. ASSUME NEW i \in Items, NEW status \in ItemStates, SetItemStatus(i, status)
      PROVE  Waits
  BY <1>3 DEF SetItemStatus, Waits, TypeOK
<1>4. ASSUME Tick PROVE Waits
  <2>1. today' >= today /\ UNCHANGED <<bookings, event, alerts>>
    BY <1>4 DEF Tick, TypeOK
  <2>2. ASSUME NEW s \in Sessions
        PROVE  /\ tx'[s].phase = tx[s].phase /\ tx'[s].holds = tx[s].holds
               /\ tx'[s].moves = tx[s].moves /\ tx'[s].insert = tx[s].insert
    <3>1. tx'[s] = tx[s] \/ tx'[s] = [tx[s] EXCEPT !.overnight = TRUE]
      BY <1>4 DEF Tick
    <3>2. tx[s] \in Tx
      BY DEF TypeOK
    <3> QED
      BY <3>1, <3>2 DEF Tx
  <2> QED
    BY <2>1, <2>2 DEF Waits
<1>5. CASE UNCHANGED vars
  BY <1>5 DEF vars, Waits, TypeOK
<1> QED
  BY <1>1, <1>2, <1>3, <1>4, <1>5, JobsDecide, LockItemDecides, RetryDecides
     DEF Next, Finish
------------------------------------------------------------------------------
(* What a commit makes of the table, booking by booking.                   *)

\* What is written on a stored booking: the status the move changes, the item it
\* changes, and never the days or the kind.
Written(b, m) ==
  /\ bookings'[b].status = (IF m.to = m.from THEN bookings[b].status ELSE m.to)
  /\ m.toItem = m.fromItem => bookings'[b].item = bookings[b].item
  /\ event'[b] = [from |-> m.from, to |-> m.to]

SameDays(b) ==
  /\ bookings'[b].kind = bookings[b].kind
  /\ bookings'[b].pickup = bookings[b].pickup /\ bookings'[b].return = bookings[b].return
  /\ bookings'[b].prep = bookings[b].prep /\ bookings'[b].cleaning = bookings[b].cleaning

\* A commit writes its moves on stored bookings and its row on an unused one.
LEMMA CommitWrites ==
  ASSUME TypeOK, NEW s \in Sessions, Commit(s)
  PROVE  \E n \in NewIds(tx[s]) :
           /\ n \in Ids => bookings[n] = NoRow /\ bookings'[n] = tx[s].insert
                           /\ tx[s].insert \in Row
           /\ \A b \in Ids : bookings[b] # NoRow =>
                /\ SameDays(b)
                /\ b \in Moved(tx[s]) => Written(b, tx[s].moves[b])
                /\ b \notin Moved(tx[s]) => bookings'[b] = bookings[b]
           /\ \A b \in Ids : bookings[b] = NoRow /\ b # n => bookings'[b] = NoRow
<1>1. PICK n \in NewIds(tx[s]) :
        /\ bookings' = After(tx[s], n)
        /\ event' = [b \in Ids |->
                       IF b = n THEN FirstEvent(tx[s].insert)
                       ELSE IF b \in Moved(tx[s])
                            THEN [from |-> tx[s].moves[b].from, to |-> tx[s].moves[b].to]
                            ELSE event[b]]
  BY DEF Commit
<1>2. UnitOK(tx[s]) /\ tx[s].phase = "writing" /\ bookings \in [Ids -> Row \cup {NoRow}]
  BY UnitTyped DEF Commit, TypeOK
<1>3. n \in Ids => bookings[n] = NoRow /\ tx[s].insert \in Row
  BY <1>2 DEF UnitOK, NewIds, Unused
<1>4. n \in Ids => bookings'[n] = tx[s].insert
  BY <1>1 DEF After
<1>5. ASSUME NEW b \in Ids, bookings[b] # NoRow
      PROVE  /\ SameDays(b)
             /\ b \in Moved(tx[s]) => Written(b, tx[s].moves[b])
             /\ b \notin Moved(tx[s]) => bookings'[b] = bookings[b]
  <2>1. b # n /\ bookings[b] \in Row
    BY <1>2, <1>3, <1>5
  <2>2. CASE b \notin Moved(tx[s])
    <3>1. bookings'[b] = bookings[b]
      BY <1>1, <2>1, <2>2 DEF After
    <3> QED
      BY <2>2, <3>1 DEF SameDays
  <2>3. CASE b \in Moved(tx[s])
    <3> DEFINE m == tx[s].moves[b]
    <3>1. /\ bookings'[b] = Apply(bookings[b], m)
          /\ event'[b] = [from |-> m.from, to |-> m.to]
      BY <1>1, <2>1, <2>3 DEF After
    <3> HIDE DEF m
    <3>2. SameDays(b) /\ Written(b, m)
      BY <2>1, <3>1 DEF Apply, Row, SameDays, Written
    <3> QED
      BY <2>3, <3>2 DEF m
  <2> QED
    BY <2>2, <2>3
<1>6. \A b \in Ids : bookings[b] = NoRow /\ b # n => bookings'[b] = NoRow
  BY <1>1, <1>2 DEF After, UnitOK
<1> QED
  BY <1>3, <1>4, <1>5, <1>6

------------------------------------------------------------------------------
(* What the pages rely on.                                                 *)

\* A dress is flagged as missing only when it is late, and no booking is a hold:
\* of what is stored, and of what each unit of work would make of it.
FlaggedLate(b) == today > bookings[b].return + NOT_RETURNED_GRACE_DAYS

LateUnit(w) ==
  \A b \in Moved(w) : w.moves[b].to # w.moves[b].from =>
    /\ w.moves[b].to # "hold"
    /\ w.moves[b].to = "not_returned" => FlaggedLate(b)

PageInv ==
  /\ \A b \in Ids : /\ bookings[b].status # "hold"
                    /\ bookings[b].status = "not_returned" => FlaggedLate(b)
  /\ \A s \in Sessions : LateUnit(tx[s]) /\ Enters(tx[s])

\* Nothing leads to a hold.
LEMMA NoWayToHold == ASSUME NEW src \in Statuses PROVE ~CanTransition(src, "hold")
  BY DEF CanTransition, TRANSITIONS, Statuses

\* A decision keeps what the pages rely on.
LEMMA DecideKeepsPages ==
  ASSUME TypeOK, TypeOK', PageInv, NEW s \in Sessions, Decides(s) PROVE PageInv'
<1>1. PICK w : /\ tx' = [tx EXCEPT ![s] = w]
               /\ UNCHANGED <<bookings, event, alerts, today>>
               /\ Fresh(w) /\ Rests(w) /\ (Enters(tx[s]) => Enters(w))
  BY DEF Decides
<1>2. tx'[s] = w /\ \A t \in Sessions \ {s} : tx'[t] = tx[t]
  BY <1>1 DEF TypeOK
<1>3. \A b \in Moved(w) : bookings[b] \in Row
  BY <1>1, <1>2 DEF TypeOK, Moved
<1>4. LateUnit(w) /\ Enters(w)
  <2>1. \A b \in Moved(w) : bookings[b].status \in Statuses
    BY <1>3 DEF Row
  <2> QED
    BY <1>1, <2>1, NoWayToHold DEF LateUnit, Fresh, Decided, FlaggedLate, PageInv
<1>5. \A t \in Sessions : LateUnit(tx'[t]) /\ Enters(tx'[t])
  BY <1>2, <1>4 DEF PageInv
<1>6. \A t \in Sessions : (LateUnit(tx[t]) /\ Enters(tx[t]))'
  BY <1>1, <1>5 DEF LateUnit, Enters, FlaggedLate, Moved
<1> QED
  BY <1>1, <1>6 DEF PageInv, FlaggedLate

\* So does a commit: it changes no return day.
LEMMA CommitKeepsPages ==
  ASSUME TypeOK, PageInv, NEW s \in Sessions, Commit(s) PROVE PageInv'
<1>1. PICK n \in NewIds(tx[s]) :
        /\ n \in Ids => bookings[n] = NoRow /\ bookings'[n] = tx[s].insert
                        /\ tx[s].insert \in Row
        /\ \A b \in Ids : bookings[b] # NoRow =>
             /\ SameDays(b)
             /\ b \in Moved(tx[s]) => Written(b, tx[s].moves[b])
             /\ b \notin Moved(tx[s]) => bookings'[b] = bookings[b]
        /\ \A b \in Ids : bookings[b] = NoRow /\ b # n => bookings'[b] = NoRow
  BY CommitWrites
<1>2. /\ today' = today /\ tx'[s] = Idle
      /\ \A t \in Sessions \ {s} : tx'[t] = tx[t]
  BY DEF Commit, TypeOK
<1>3. \A b \in Ids : bookings[b] # NoRow => (FlaggedLate(b) <=> FlaggedLate(b)')
  BY <1>1, <1>2 DEF SameDays, FlaggedLate
<1>4. ASSUME NEW b \in Ids
      PROVE  /\ bookings'[b].status # "hold"
             /\ bookings'[b].status = "not_returned" => FlaggedLate(b)'
  <2>1. CASE bookings[b] = NoRow /\ b # n
    BY <1>1, <2>1 DEF NoRow
  <2>2. CASE b = n
    <3>1. bookings'[b] = tx[s].insert /\ tx[s].insert # NoRow
      BY <1>1, <2>2, StoredRow
    <3> QED
      BY <3>1 DEF PageInv, Enters
  <2>3. CASE bookings[b] # NoRow
    <3>1. CASE b \notin Moved(tx[s])
      BY <1>1, <1>3, <2>3, <3>1 DEF PageInv
    <3>2. CASE b \in Moved(tx[s])
      <4> DEFINE m == tx[s].moves[b]
      <4>1. bookings'[b].status = IF m.to = m.from THEN bookings[b].status ELSE m.to
        BY <1>1, <2>3, <3>2 DEF Written
      <4>2. m.to # m.from => /\ m.to # "hold"
                             /\ m.to = "not_returned" => FlaggedLate(b)
        BY <3>2 DEF PageInv, LateUnit
      <4>3. FlaggedLate(b) <=> FlaggedLate(b)'
        BY <1>3, <2>3
      <4> HIDE DEF m
      <4> QED
        BY <4>1, <4>2, <4>3 DEF PageInv
    <3> QED
      BY <3>1, <3>2
  <2> QED
    BY <2>1, <2>2, <2>3
<1>5. ASSUME NEW t \in Sessions PROVE (LateUnit(tx[t]) /\ Enters(tx[t]))'
  <2>1. CASE t = s
    BY <1>2, <2>1, IdleTyped DEF LateUnit, Enters, Moved
  <2>2. CASE t # s
    <3>1. \A b \in Moved(tx[t]) : b \in Ids /\ bookings[b] # NoRow
      BY DEF TypeOK, Moved
    <3>2. tx'[t] = tx[t]
      BY <1>2, <2>2
    <3> QED
      BY <1>3, <3>1, <3>2 DEF PageInv, LateUnit, Enters, Moved
  <2> QED
    BY <2>1, <2>2
<1> QED
  BY <1>4, <1>5 DEF PageInv

\* And the passing of days: what was late is later.
LEMMA WaitKeepsPages ==
  ASSUME TypeOK, PageInv, today' \in Nat, Waits PROVE PageInv'
<1>1. ASSUME NEW b \in Ids, bookings[b] # NoRow, FlaggedLate(b) PROVE FlaggedLate(b)'
  <2>1. bookings[b].return \in Int /\ today \in Int /\ bookings' = bookings
    BY <1>1 DEF TypeOK, Row, Waits
  <2> QED
    BY <1>1, <2>1 DEF FlaggedLate, Waits, NOT_RETURNED_GRACE_DAYS
<1>2. \A b \in Ids : /\ bookings'[b].status # "hold"
                     /\ bookings'[b].status = "not_returned" => FlaggedLate(b)'
  BY <1>1 DEF PageInv, Waits, NoRow
<1>3. ASSUME NEW t \in Sessions PROVE (LateUnit(tx[t]) /\ Enters(tx[t]))'
  <2>1. tx'[t].moves = tx[t].moves /\ tx'[t].insert = tx[t].insert
    BY DEF Waits
  <2>2. \A b \in Moved(tx[t]) : b \in Ids /\ bookings[b] # NoRow
    BY DEF TypeOK, Moved
  <2>3. LateUnit(tx[t]) /\ Enters(tx[t])
    BY DEF PageInv
  <2>4. Moved(tx[t])' = Moved(tx[t])
    BY <2>1 DEF Moved
  <2> QED
    BY <1>1, <2>1, <2>2, <2>3, <2>4 DEF LateUnit, Enters
<1> QED
  BY <1>2, <1>3 DEF PageInv

\* What the pages rely on is always true.
LEMMA PageInvariant == Spec => [](TypeOK /\ NoDoubleBooking /\ PageInv)
<1>1. Init => TypeOK /\ LockInv /\ NoDoubleBooking /\ PageInv
  <2>1. Init => NoDoubleBooking
    BY DEF Init, NoDoubleBooking, Active, NoRow, ACTIVE_STATUSES
  <2>2. Init => PageInv
    BY IdleTyped DEF Init, PageInv, NoRow, LateUnit, Enters, Moved
  <2> QED
    BY <2>1, <2>2, InitTyped, InitLocks
<1>2. ASSUME TypeOK, LockInv, NoDoubleBooking, PageInv, [Next]_vars
      PROVE  (TypeOK /\ LockInv /\ NoDoubleBooking /\ PageInv)'
  <2>1. TypeOK'
    BY <1>2, TypeStep
  <2>2. today' \in Nat
    BY <2>1 DEF TypeOK
  <2>3. PageInv'
    BY <1>2, <2>1, <2>2, StepShape, DecideKeepsPages, CommitKeepsPages, WaitKeepsPages
  <2> QED
    BY <1>2, <2>1, <2>3, LockStep, ExclusionStep
<1> QED
  BY <1>1, <1>2, PTL DEF Spec
------------------------------------------------------------------------------
(* The board and the calendar.                                             *)

\* The lists of the board a booking stands in, by their number.
Lists(b) == {n \in DOMAIN TodayBoard : b \in TodayBoard[n]}

\* Which list of the board takes which booking.
LEMMA BoardLists ==
  ASSUME NEW b \in OnBoard, NEW n
  PROVE  n \in Lists(b) <=> \/ n = 1 /\ Pending(bookings[b])
                            \/ n = 2 /\ AtRisk(bookings[b])
                            \/ n = 3 /\ PickupToday(bookings[b])
                            \/ n = 4 /\ ReturnToday(bookings[b])
                            \/ n = 5 /\ OverduePickup(bookings[b])
                            \/ n = 6 /\ OverdueReturn(bookings[b])
<1>1. DOMAIN TodayBoard = 1..6
  BY DEF TodayBoard
<1>2. /\ b \in TodayBoard[1] <=> Pending(bookings[b])
      /\ b \in TodayBoard[2] <=> AtRisk(bookings[b])
      /\ b \in TodayBoard[3] <=> PickupToday(bookings[b])
      /\ b \in TodayBoard[4] <=> ReturnToday(bookings[b])
      /\ b \in TodayBoard[5] <=> OverduePickup(bookings[b])
      /\ b \in TodayBoard[6] <=> OverdueReturn(bookings[b])
  BY DEF TodayBoard
<1>3. \A k : k \in 1..6 <=> k = 1 \/ k = 2 \/ k = 3 \/ k = 4 \/ k = 5 \/ k = 6
  OBVIOUS
<1> QED
  BY <1>1, <1>2, <1>3 DEF Lists

\* A block is on no list.
LEMMA BlocksOffBoard ==
  ASSUME NEW b \in Ids, b \notin OnBoard PROVE Lists(b) = {}
<1>1. DOMAIN TodayBoard = 1..6
  BY DEF TodayBoard
<1>2. \A n \in 1..6 : b \notin TodayBoard[n]
  BY DEF TodayBoard
<1> QED
  BY <1>1, <1>2 DEF Lists

\* What TRANSITIONS says of each status: which bookings are still in play.
LEMMA InPlay ==
  ASSUME NEW status \in Statuses
  PROVE  TRANSITIONS[status] # {} <=> status \in {"hold", "pending_shop", "confirmed",
                                                  "at_risk", "picked_up", "not_returned"}
  BY DEF TRANSITIONS, Statuses

Ahead(r) == \/ r.status = "confirmed" /\ r.pickup > today
            \/ r.status = "picked_up" /\ r.return > today

\* A booking of a customer in play that is not ahead is in exactly one list, and
\* the others are in none.
LEMMA OneList ==
  ASSUME TypeOK, PageInv, NEW b \in OnBoard
  PROVE  IF TRANSITIONS[bookings[b].status] # {} /\ ~Ahead(bookings[b])
         THEN \E n : Lists(b) = {n}
         ELSE Lists(b) = {}
<1> DEFINE r == bookings[b]
<1>1. b \in Ids /\ r \in Row /\ today \in Int
  BY DEF OnBoard, TypeOK
<1>2. r.status \in Statuses /\ r.pickup \in Int /\ r.return \in Int
  BY <1>1 DEF Row
<1>3. \A n : n \in Lists(b) <=> \/ n = 1 /\ Pending(r)
                                \/ n = 2 /\ AtRisk(r)
                                \/ n = 3 /\ PickupToday(r)
                                \/ n = 4 /\ ReturnToday(r)
                                \/ n = 5 /\ OverduePickup(r)
                                \/ n = 6 /\ OverdueReturn(r)
  BY BoardLists
<1>4. r.status # "hold" /\ (r.status = "not_returned" => r.return < today)
  BY <1>1, <1>2 DEF PageInv, FlaggedLate, NOT_RETURNED_GRACE_DAYS
<1>5. TRANSITIONS[r.status] # {} <=> r.status \in {"hold", "pending_shop", "confirmed",
                                                   "at_risk", "picked_up", "not_returned"}
  BY <1>2, InPlay
<1> HIDE DEF r
<1>6. ASSUME TRANSITIONS[r.status] # {} /\ ~Ahead(r) PROVE \E n : Lists(b) = {n}
  <2>1. CASE r.status = "pending_shop"
    <3>1. \A n : n \in Lists(b) <=> n = 1
      BY <1>3, <2>1 DEF Pending, AtRisk, PickupToday, ReturnToday, OverduePickup, OverdueReturn
    <3>2. Lists(b) = {1}
      BY <3>1, Zenon
    <3> QED
      BY <3>2
  <2>2. CASE r.status = "at_risk"
    <3>1. \A n : n \in Lists(b) <=> n = 2
      BY <1>3, <2>2 DEF Pending, AtRisk, PickupToday, ReturnToday, OverduePickup, OverdueReturn
    <3>2. Lists(b) = {2}
      BY <3>1, Zenon
    <3> QED
      BY <3>2
  <2>3. CASE r.status = "confirmed"
    <3>1. r.pickup = today \/ r.pickup < today
      BY <1>1, <1>2, <1>6, <2>3 DEF Ahead
    <3>2. CASE r.pickup = today
      <4>1. \A n : n \in Lists(b) <=> n = 3
        BY <1>1, <1>2, <1>3, <2>3, <3>2
           DEF Pending, AtRisk, PickupToday, ReturnToday, OverduePickup, OverdueReturn
      <4>2. Lists(b) = {3}
        BY <4>1, Zenon
      <4> QED
        BY <4>2
    <3>3. CASE r.pickup < today
      <4>1. \A n : n \in Lists(b) <=> n = 5
        BY <1>1, <1>2, <1>3, <2>3, <3>3
           DEF Pending, AtRisk, PickupToday, ReturnToday, OverduePickup, OverdueReturn
      <4>2. Lists(b) = {5}
        BY <4>1, Zenon
      <4> QED
        BY <4>2
    <3> QED
      BY <3>1, <3>2, <3>3
  <2>4. CASE r.status \in {"picked_up", "not_returned"}
    <3>1. (r.status = "picked_up" /\ r.return = today) \/ r.return < today
      BY <1>1, <1>2, <1>4, <1>6, <2>4 DEF Ahead
    <3>2. CASE r.status = "picked_up" /\ r.return = today
      <4>1. \A n : n \in Lists(b) <=> n = 4
        BY <1>1, <1>2, <1>3, <3>2
           DEF Pending, AtRisk, PickupToday, ReturnToday, OverduePickup, OverdueReturn
      <4>2. Lists(b) = {4}
        BY <4>1, Zenon
      <4> QED
        BY <4>2
    <3>3. CASE r.return < today
      <4>1. \A n : n \in Lists(b) <=> n = 6
        BY <1>1, <1>2, <1>3, <2>4, <3>3
           DEF Pending, AtRisk, PickupToday, ReturnToday, OverduePickup, OverdueReturn
      <4>2. Lists(b) = {6}
        BY <4>1, Zenon
      <4> QED
        BY <4>2
    <3> QED
      BY <3>1, <3>2, <3>3
  <2> QED
    BY <1>4, <1>5, <1>6, <2>1, <2>2, <2>3, <2>4
<1>7. ASSUME ~(TRANSITIONS[r.status] # {} /\ ~Ahead(r)) PROVE Lists(b) = {}
  <2>1. CASE TRANSITIONS[r.status] = {}
    <3>1. \A n : n \notin Lists(b)
      BY <1>3, <1>5, <2>1
         DEF Pending, AtRisk, PickupToday, ReturnToday, OverduePickup, OverdueReturn
    <3> QED
      BY <3>1
  <2>2. CASE Ahead(r)
    <3>1. \A n : n \notin Lists(b)
      BY <1>1, <1>2, <1>3, <2>2
         DEF Ahead, Pending, AtRisk, PickupToday, ReturnToday, OverduePickup, OverdueReturn
    <3> QED
      BY <3>1
  <2> QED
    BY <1>7, <2>1, <2>2
<1> QED
  BY <1>6, <1>7 DEF r

\* An active booking has the cells of its dress to itself: another one in them
\* would be a double booking.
LEMMA OwnCells ==
  ASSUME TypeOK, NoDoubleBooking, NEW b \in Ids, Active(bookings[b]),
         NEW day \in First(bookings[b]) .. Last(bookings[b])
  PROVE  Cell(bookings[b].item, day) = {b}
<1>1. \A c \in Ids : Active(bookings[c]) => First(bookings[c]) \in Int /\ Last(bookings[c]) \in Int
  BY DEF TypeOK, Row, First, Last, Active, NoRow, ACTIVE_STATUSES
<1>2. day \in Int /\ First(bookings[b]) <= day /\ day <= Last(bookings[b])
  BY <1>1
<1>3. b \in Cell(bookings[b].item, day)
  BY <1>2 DEF Cell
<1>4. ASSUME NEW c \in Cell(bookings[b].item, day), c # b PROVE FALSE
  <2>1. /\ c \in Ids /\ Active(bookings[c]) /\ bookings[c].item = bookings[b].item
        /\ First(bookings[c]) <= day /\ day <= Last(bookings[c])
    BY DEF Cell
  <2>2. First(bookings[c]) <= Last(bookings[b]) /\ First(bookings[b]) <= Last(bookings[c])
    BY <1>1, <1>2, <2>1
  <2> QED
    BY <1>4, <2>1, <2>2 DEF NoDoubleBooking, Clash
<1> QED
  BY <1>3, <1>4

\* The pages of staff show every booking.
LEMMA AllSeen == ASSUME TypeOK, NoDoubleBooking, PageInv PROVE StaffSeeEveryBooking
<1> SUFFICES ASSUME NEW b \in Ids, bookings[b] # NoRow
             PROVE  LET r == bookings[b]
                        inPlay == r.kind # "block" /\ TRANSITIONS[r.status] # {}
                    IN /\ inPlay => IF Ahead(r) THEN Lists(b) = {}
                                    ELSE Cardinality(Lists(b)) = 1
                       /\ ~inPlay => Lists(b) = {}
                       /\ Active(r) /\ r.item \in CalendarItems =>
                            \A day \in First(r) .. Last(r) : Cell(r.item, day) = {b}
  BY DEF StaffSeeEveryBooking, Lists, Ahead
<1>1. CASE bookings[b].kind = "block"
  <2>1. Lists(b) = {}
    BY <1>1, BlocksOffBoard DEF OnBoard
  <2> QED
    BY <1>1, <2>1, OwnCells
<1>2. CASE bookings[b].kind # "block"
  <2>1. b \in OnBoard
    BY <1>2 DEF OnBoard
  <2>2. \A n : Cardinality({n}) = 1
    BY FS_Singleton
  <2>3. IF TRANSITIONS[bookings[b].status] # {} /\ ~Ahead(bookings[b])
        THEN \E n : Lists(b) = {n} ELSE Lists(b) = {}
    BY <2>1, OneList
  <2>4. TRANSITIONS[bookings[b].status] # {} /\ ~Ahead(bookings[b])
          => Cardinality(Lists(b)) = 1
    BY <2>2, <2>3
  <2> QED
    BY <1>2, <2>3, <2>4, OwnCells
<1> QED
  BY <1>1, <1>2

(* Every booking that needs the staff stands in one list of their board, and every
   one that holds a dress has its days in the calendar to itself (booking/board.py),
   whatever the handlers and jobs did. *)
THEOREM EveryBookingIsSeen == Spec => []StaffSeeEveryBooking
  BY PageInvariant, AllSeen, PTL

------------------------------------------------------------------------------
(* The offers of the booking page.                                         *)

\* Every button leads along TRANSITIONS, and who is in play has one.
LEMMA ButtonsLead ==
  ASSUME NEW r \in Row, r.status # "hold"
  PROVE  /\ Buttons(r) \subseteq TRANSITIONS[r.status]
         /\ r.kind # "block" /\ TRANSITIONS[r.status] # {} => Buttons(r) # {}
<1>1. r.status \in Statuses
  BY DEF Row
<1> QED
  BY <1>1 DEF Buttons, TRANSITIONS, Statuses

\* An item offered for a swap is free of everything the booking would meet there.
LEMMA SwapFits ==
  ASSUME TypeOK, NEW b \in Ids, NEW i \in Offered(b), bookings[b] # NoRow
  PROVE  NotExcluded(Swapped(b, i), b)
<1>1. /\ i \in Items /\ bookings[b] \in Row
      /\ ~BusyIn(i, [first |-> First(bookings[b]), last |-> Last(bookings[b])])
  BY DEF Offered, SwapCandidates, TypeOK
<1>2. /\ Swapped(b, i)[b].item = i
      /\ First(Swapped(b, i)[b]) = First(bookings[b])
      /\ Last(Swapped(b, i)[b]) = Last(bookings[b])
      /\ \A c \in Ids \ {b} : Swapped(b, i)[c] = bookings[c]
  BY <1>1 DEF Swapped, First, Last, Row, TypeOK
<1>3. SUFFICES ASSUME NEW c \in Ids \ {b}, Active(bookings[c]),
                      Clash(Swapped(b, i)[b], bookings[c])
               PROVE  FALSE
  BY <1>2 DEF NotExcluded
<1>4. /\ bookings[c].item = i
      /\ First(bookings[b]) <= Last(bookings[c]) /\ First(bookings[c]) <= Last(bookings[b])
  BY <1>2, <1>3 DEF Clash
<1> QED
  BY <1>1, <1>3, <1>4 DEF BusyIn

(* What the page of a booking (web/shop_bookings.py), search and the page of a
   dress offer the engine would do, as long as nobody comes between: it holds of
   the committed tables of every reachable state, however many handlers and jobs
   overlap. *)
THEOREM OffersAreGood == Spec => []OffersCanBeTaken
<1>1. ASSUME TypeOK, PageInv PROVE OffersCanBeTaken
  <2>1. ASSUME NEW b \in Ids, bookings[b] # NoRow
        PROVE  LET r == bookings[b]
               IN /\ Buttons(r) \subseteq TRANSITIONS[r.status]
                  /\ r.kind # "block" /\ TRANSITIONS[r.status] # {} => Buttons(r) # {}
                  /\ \A i \in Offered(b) : NotExcluded(Swapped(b, i), b)
    <3>1. bookings[b] \in Row /\ bookings[b].status # "hold"
      BY <1>1, <2>1 DEF TypeOK, PageInv
    <3> QED
      BY <1>1, <2>1, <3>1, ButtonsLead, SwapFits
  <2>2. ASSUME NEW span \in Spans, NEW style \in Found(span) \cup FreeOnPage(span)
        PROVE  \E i \in Items : /\ items[i] = "active" /\ StyleOf[i] = style
                                /\ \A b \in Unused : NotExcluded(Requested(b, i, span), b)
    BY <1>1, <2>2, ShownCanBeRequested
  <2> QED
    BY <2>1, <2>2 DEF OffersCanBeTaken
<1> QED
  BY <1>1, PageInvariant, PTL
------------------------------------------------------------------------------
(* One handler at a time.  Several of the engine's promises hold only if   *)
(* no handler starts before the last one has ended: its database has no    *)
(* lock or version check for them.  They are proved for the behaviours in  *)
(* which any number of sessions take turns, which is what one session does *)
(* by itself.                                                              *)

TakeTurns == \A s, t \in Sessions : ~Ready(s) /\ ~Ready(t) => s = t

\* One session takes turns with itself, so the theorems below are about the run
\* with a single session, and about any number that do not overlap.
LEMMA OneSessionTakesTurns == ASSUME \A s, t \in Sessions : s = t PROVE TakeTurns
  BY DEF TakeTurns

\* While handlers take turns, what each has in hand is still what it read, and
\* those at rest have nothing in hand.
FreshInv == \A s \in Sessions : Fresh(tx[s]) /\ Rests(tx[s])

\* A session at rest has nothing in hand, so nothing stale.
LEMMA IdleFresh ==
  /\ Moved(Idle) = {} /\ Idle.holds = {} /\ Idle.insert = NoRow
  /\ Fresh(Idle) /\ Rests(Idle)
<1>1. Idle.holds = {}
  BY DEF Idle
<1> QED
  BY <1>1, IdleTyped DEF Fresh, Rests

\* What others have read is kept fresh by a step of one session that writes nothing.
LEMMA DecideStaysFresh ==
  ASSUME TypeOK, FreshInv, NEW s \in Sessions, Decides(s) PROVE FreshInv'
<1>1. PICK w : /\ tx' = [tx EXCEPT ![s] = w]
               /\ UNCHANGED <<bookings, event, alerts, today>>
               /\ Fresh(w) /\ Rests(w)
  BY DEF Decides
<1>2. tx'[s] = w /\ \A t \in Sessions \ {s} : tx'[t] = tx[t]
  BY <1>1 DEF TypeOK
<1>3. \A t \in Sessions : Fresh(tx'[t]) /\ Rests(tx'[t])
  BY <1>1, <1>2 DEF FreshInv
<1> QED
  BY <1>1, <1>3 DEF FreshInv, Fresh, Rests, Moved, Decided, Clash, First, Last

\* A commit changes what others may have read, but nobody else has read anything.
LEMMA CommitStaysFresh ==
  ASSUME TypeOK, FreshInv, TakeTurns, NEW s \in Sessions, Commit(s) PROVE FreshInv'
<1>1. tx[s].phase = "writing" /\ tx'[s] = Idle /\ \A t \in Sessions \ {s} : tx'[t] = tx[t]
  BY DEF Commit, TypeOK
<1>2. \A t \in Sessions \ {s} : Ready(t)
  BY <1>1 DEF TakeTurns, Ready
<1>3. ASSUME NEW t \in Sessions
      PROVE  Moved(tx'[t]) = {} /\ tx'[t].holds = {} /\ tx'[t].insert = NoRow
  <2>1. CASE t = s
    BY <1>1, <2>1, IdleFresh
  <2>2. CASE t # s
    BY <1>1, <1>2, <2>2 DEF FreshInv, Rests, Ready
  <2> QED
    BY <2>1, <2>2
<1> QED
  BY <1>3 DEF FreshInv, Fresh, Rests, Moved

\* Days that pass make nothing that was read stale but its age, which grows.
LEMMA WaitStaysFresh ==
  ASSUME TypeOK, FreshInv, today' \in Nat, Waits PROVE FreshInv'
<1>1. ASSUME NEW b \in Ids, bookings[b] # NoRow,
             today > bookings[b].return + NOT_RETURNED_GRACE_DAYS
      PROVE  today' > bookings[b].return + NOT_RETURNED_GRACE_DAYS
  <2>1. bookings[b].return \in Int /\ today \in Int
    BY <1>1 DEF TypeOK, Row
  <2> QED
    BY <1>1, <2>1 DEF Waits, NOT_RETURNED_GRACE_DAYS
<1>2. ASSUME NEW t \in Sessions PROVE (Fresh(tx[t]) /\ Rests(tx[t]))'
  <2>1. /\ tx'[t].phase = tx[t].phase /\ tx'[t].holds = tx[t].holds
        /\ tx'[t].moves = tx[t].moves /\ tx'[t].insert = tx[t].insert
        /\ bookings' = bookings
    BY DEF Waits
  <2>2. Moved(tx[t])' = Moved(tx[t])
    BY <2>1 DEF Moved
  <2>3. Rests(tx[t])'
    BY <2>1, <2>2 DEF FreshInv, Rests
  <2>4. ASSUME NEW b \in Moved(tx[t])
        PROVE  Decided(b, tx[t].moves[b], tx[t].insert)'
    <3>1. b \in Ids /\ bookings[b] # NoRow
      BY DEF TypeOK, Moved
    <3>2. Decided(b, tx[t].moves[b], tx[t].insert)
      BY DEF FreshInv, Fresh
    <3> QED
      BY <1>1, <2>1, <3>1, <3>2 DEF Decided, Clash, First, Last
  <2> QED
    BY <2>1, <2>2, <2>3, <2>4 DEF Fresh
<1> QED
  BY <1>2 DEF FreshInv

\* Handlers that take turns always write what they have freshly read.
LEMMA FreshInvariant ==
  Spec /\ []TakeTurns => [](TypeOK /\ LockInv /\ FreshInv)
<1>1. Init => TypeOK /\ LockInv /\ FreshInv
  <2>1. Init => FreshInv
    BY IdleFresh DEF Init, FreshInv
  <2> QED
    BY <2>1, InitTyped, InitLocks
<1>2. ASSUME TypeOK, LockInv, FreshInv, TakeTurns, [Next]_vars
      PROVE  (TypeOK /\ LockInv /\ FreshInv)'
  <2>1. TypeOK'
    BY <1>2, TypeStep
  <2>2. today' \in Nat
    BY <2>1 DEF TypeOK
  <2> QED
    BY <1>2, <2>1, <2>2, StepShape, DecideStaysFresh, CommitStaysFresh, WaitStaysFresh,
       LockStep
<1> QED
  BY <1>1, <1>2, PTL DEF Spec

\* The changes of status of a commit are those its moves name, decided on what is
\* stored now.
LEMMA ChangedByMove ==
  ASSUME TypeOK, FreshInv, NEW s \in Sessions, Commit(s), NEW b \in Ids, Changes(b)
  PROVE  \E n \in NewIds(tx[s]), m \in Move :
           /\ n \in Ids => bookings[n] = NoRow /\ bookings'[n] = tx[s].insert
                           /\ tx[s].insert \in Row
           /\ SameDays(b) /\ Written(b, m) /\ Decided(b, m, tx[s].insert) /\ m.to # m.from
<1>1. PICK n \in NewIds(tx[s]) :
        /\ n \in Ids => bookings[n] = NoRow /\ bookings'[n] = tx[s].insert
                        /\ tx[s].insert \in Row
        /\ \A c \in Ids : bookings[c] # NoRow =>
             /\ SameDays(c)
             /\ c \in Moved(tx[s]) => Written(c, tx[s].moves[c])
             /\ c \notin Moved(tx[s]) => bookings'[c] = bookings[c]
  BY CommitWrites
<1> DEFINE m == tx[s].moves[b]
<1>2. b \in Moved(tx[s]) /\ bookings[b] # NoRow
  BY <1>1 DEF Changes
<1>3. SameDays(b) /\ Written(b, m)
  BY <1>1, <1>2
<1>4. Decided(b, m, tx[s].insert)
  BY <1>2 DEF FreshInv, Fresh
<1>5. m \in Move
  BY <1>2, UnitTyped DEF UnitOK, Tx, Moved
<1> HIDE DEF m
<1>6. m.to # m.from
  BY <1>3 DEF Written, Changes
<1> QED
  BY <1>1, <1>3, <1>4, <1>5, <1>6

\* A step that changes a booking is a commit.
LEMMA ChangeIsCommit ==
  ASSUME [Next]_vars, NEW b \in Ids, Changes(b) PROVE \E s \in Sessions : Commit(s)
<1>1. bookings' # bookings
  BY DEF Changes
<1> QED
  BY <1>1, OnlyCommitWrites DEF vars

(* While handlers take turns, a status changes along TRANSITIONS, and the timeline
   has the status left and the status reached (transition). *)
THEOREM ChangesAllowedInTurn == Spec /\ []TakeTurns => ChangesAreAllowedAndRecorded
<1> DEFINE Allowed ==
      \A b \in Ids : Changes(b) =>
        /\ CanTransition(bookings[b].status, bookings'[b].status)
        /\ event'[b] = [from |-> bookings[b].status, to |-> bookings'[b].status]
<1>1. ASSUME TypeOK, FreshInv, [Next]_vars PROVE Allowed
  <2>1. SUFFICES ASSUME NEW b \in Ids, Changes(b)
                 PROVE  /\ CanTransition(bookings[b].status, bookings'[b].status)
                        /\ event'[b] = [from |-> bookings[b].status,
                                        to |-> bookings'[b].status]
    OBVIOUS
  <2>2. PICK s \in Sessions : Commit(s)
    BY <1>1, <2>1, ChangeIsCommit
  <2>3. PICK m \in Move : /\ Written(b, m) /\ Decided(b, m, tx[s].insert) /\ m.to # m.from
    BY <1>1, <2>1, <2>2, ChangedByMove
  <2> QED
    BY <2>3 DEF Written, Decided
<1>2. [](TypeOK /\ LockInv /\ FreshInv) /\ [][Next]_vars => [][Allowed]_vars
  <2> HIDE DEF Allowed
  <2> QED
    BY <1>1, PTL
<1>3. [][Allowed]_vars => ChangesAreAllowedAndRecorded
  BY PTL DEF ChangesAreAllowedAndRecorded
<1> QED
  BY <1>2, <1>3, FreshInvariant, PTL DEF Spec

(* While handlers take turns, a dress that was handed over keeps its days until it
   is returned, or overdue beyond the grace days (mark_no_shows, mark_not_returned). *)
THEOREM HeldUntilReturnedInTurn == Spec /\ []TakeTurns => HandedOverStaysHeld
<1> DEFINE StaysHeld ==
      \A b \in Ids : Changes(b) /\ bookings[b].status = "picked_up" =>
        \/ bookings'[b].status = "completed"
        \/ /\ bookings'[b].status = "not_returned"
           /\ today > bookings[b].return + NOT_RETURNED_GRACE_DAYS
<1>1. ASSUME TypeOK, FreshInv, [Next]_vars PROVE StaysHeld
  <2>1. SUFFICES ASSUME NEW b \in Ids, Changes(b), bookings[b].status = "picked_up"
                 PROVE  \/ bookings'[b].status = "completed"
                        \/ /\ bookings'[b].status = "not_returned"
                           /\ today > bookings[b].return + NOT_RETURNED_GRACE_DAYS
    OBVIOUS
  <2>2. PICK s \in Sessions : Commit(s)
    BY <1>1, <2>1, ChangeIsCommit
  <2>3. PICK m \in Move : /\ Written(b, m) /\ Decided(b, m, tx[s].insert) /\ m.to # m.from
    BY <1>1, <2>1, <2>2, ChangedByMove
  <2>4. \A to : CanTransition("picked_up", to) => to \in {"completed", "not_returned"}
    BY DEF CanTransition, TRANSITIONS, Statuses
  <2> QED
    BY <2>1, <2>3, <2>4 DEF Written, Decided
<1>2. [](TypeOK /\ LockInv /\ FreshInv) /\ [][Next]_vars => [][StaysHeld]_vars
  <2> HIDE DEF StaysHeld
  <2> QED
    BY <1>1, PTL
<1>3. [][StaysHeld]_vars => HandedOverStaysHeld
  BY PTL DEF HandedOverStaysHeld
<1> QED
  BY <1>2, <1>3, FreshInvariant, PTL DEF Spec

(* While handlers take turns, an override displaces only bookings in the way of
   the row it stores (create_staff_booking). *)
THEOREM DisplacesWhatIsInTheWayInTurn == Spec /\ []TakeTurns => DisplacedOnlyInTheWay
<1> DEFINE InTheWay ==
      \A b \in Ids : Changes(b) /\ bookings'[b].status = "at_risk" =>
        \E n \in Ids : Stored(n) /\ Clash(bookings'[b], bookings'[n])
<1>1. ASSUME TypeOK, FreshInv, [Next]_vars PROVE InTheWay
  <2>1. SUFFICES ASSUME NEW b \in Ids, Changes(b), bookings'[b].status = "at_risk"
                 PROVE  \E n \in Ids : Stored(n) /\ Clash(bookings'[b], bookings'[n])
    OBVIOUS
  <2>2. PICK s \in Sessions : Commit(s)
    BY <1>1, <2>1, ChangeIsCommit
  <2>3. PICK n \in NewIds(tx[s]), m \in Move :
          /\ n \in Ids => bookings[n] = NoRow /\ bookings'[n] = tx[s].insert
                          /\ tx[s].insert \in Row
          /\ SameDays(b) /\ Written(b, m) /\ Decided(b, m, tx[s].insert) /\ m.to # m.from
    BY <1>1, <2>1, <2>2, ChangedByMove
  <2>4. /\ tx[s].insert # NoRow /\ Clash(bookings[b], tx[s].insert)
        /\ bookings'[b].item = bookings[b].item
    BY <2>1, <2>3 DEF Written, Decided
  <2>5. n \in Ids
    BY <2>4 DEF NewIds, Unused
  <2>6. Stored(n) /\ bookings'[n] = tx[s].insert
    BY <2>3, <2>4, <2>5 DEF Stored
  <2>7. Clash(bookings'[b], tx[s].insert)
    BY <2>3, <2>4 DEF Clash, First, Last, SameDays
  <2> QED
    BY <2>5, <2>6, <2>7
<1>2. [](TypeOK /\ LockInv /\ FreshInv) /\ [][Next]_vars => [][InTheWay]_vars
  <2> HIDE DEF InTheWay
  <2> QED
    BY <1>1, PTL
<1>3. [][InTheWay]_vars => DisplacedOnlyInTheWay
  BY PTL DEF DisplacedOnlyInTheWay
<1> QED
  BY <1>2, <1>3, FreshInvariant, PTL DEF Spec
==============================================================================
