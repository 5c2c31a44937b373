--------------------------- MODULE BookingsProofs ---------------------------
(***************************************************************************)
(* Proofs about the booking engine, for any number of bookings, items,     *)
(* sessions, days and dates: that its state is well formed; what the       *)
(* constraints of the bookings table and the row locks guarantee; what is  *)
(* true of bookings put at risk; and that the engine implements the        *)
(* abstract calendar of ItemCalendar.                                      *)
(***************************************************************************)
EXTENDS Bookings, TLAPS

USE ItemsAssumption, IdsAssumption, SpansAssumption, GapsAssumption,
    DaysAssumption, AttemptsAssumption, RequestAssumption

\* A stored row is not the unused one, and is a draft that has its item.
LEMMA StoredRow == ASSUME NEW r \in Row PROVE r # NoRow /\ r \in Draft
  BY DEF Row, Draft, NoRow, Statuses

\* TRANSITIONS leads from statuses to statuses.
LEMMA TransitionStatus ==
  ASSUME NEW src \in Statuses, NEW dst, CanTransition(src, dst) PROVE dst \in Statuses
  BY DEF CanTransition, TRANSITIONS, Statuses

\* A session at rest moves no row and inserts none.
LEMMA IdleTyped == Idle \in Tx /\ Moved(Idle) = {} /\ Idle.insert = NoRow
  BY DEF Idle, Tx, NoMoves, Moved

\* What a move makes of a stored row is a stored row again.
LEMMA AppliedRow ==
  ASSUME NEW r \in Row, NEW m \in Move PROVE Apply(r, m) \in Row
  BY DEF Row, Move, Apply, Styles

\* A change of status of a stored row is a well-formed move of it.
LEMMA RelabelTyped ==
  ASSUME NEW b \in Ids, bookings[b] \in Row, NEW to \in Statuses, NEW alert \in SUBSET Alerts
  PROVE Relabel(b, to, alert) \in Move /\ Relabel(b, to, alert).from = bookings[b].status
  BY DEF Relabel, Move, Row

\* What TypeOK says of one unit of work.
UnitOK(w) ==
  /\ w \in Tx
  /\ w.phase = "locking" => w.tries > 0
  /\ w.tries > 0 => w.insert # NoRow
  /\ w.phase = "writing" => w.insert \in Row \cup {NoRow}
  /\ \A b \in Moved(w) : bookings[b] # NoRow

\* TypeOK says of each unit of work what UnitOK says.
LEMMA UnitTyped == ASSUME TypeOK, NEW s \in Sessions PROVE UnitOK(tx[s])
  BY DEF TypeOK, UnitOK

\* A step that changes only one unit of work keeps TypeOK if the new one is typed.
LEMMA UnitReplaced ==
  ASSUME TypeOK, NEW s \in Sessions, NEW w, UnitOK(w), tx' = [tx EXCEPT ![s] = w],
         UNCHANGED <<bookings, event, alerts, items, today>>
  PROVE  TypeOK'
<1>1. tx' \in [Sessions -> Tx]
  BY DEF TypeOK, UnitOK
<1>2. ASSUME NEW t \in Sessions PROVE UnitOK(tx'[t])
  BY UnitTyped DEF TypeOK
<1>3. \A t \in Sessions : UnitOK(tx[t])'
  BY <1>2 DEF UnitOK, Moved
<1> QED
  BY <1>1, <1>3 DEF TypeOK, UnitOK

\* Read steps: a unit of work made of moves of stored rows and of one row to
\* insert keeps TypeOK.  One lemma per handler then shows what it hands to Begin.
LEMMA BeginTyped ==
  ASSUME TypeOK, NEW s \in Sessions, NEW insert \in Row \cup {NoRow},
         NEW moves \in [Ids -> Move \cup {NoMove}],
         \A b \in Ids : moves[b] # NoMove => bookings[b] # NoRow,
         Begin(s, moves, insert)
  PROVE  TypeOK'
<1> DEFINE w == [Idle EXCEPT !.phase = "writing", !.moves = moves, !.insert = insert]
<1>1. /\ w \in Tx /\ w.insert = insert /\ w.moves = moves /\ w.phase = "writing"
      /\ w.tries = 0
  BY StoredRow, IdleTyped DEF Tx, Idle, NoRow
<1>2. UnitOK(w)
  BY <1>1 DEF UnitOK, Moved
<1>3. tx' = [tx EXCEPT ![s] = w] /\ UNCHANGED <<bookings, event, alerts, items, today>>
  BY DEF Begin
<1> QED
  <2> HIDE DEF w
  <2> QED
    BY <1>2, <1>3, UnitReplaced

\* A button of the booking page (web/shop_bookings.py) keeps TypeOK.
LEMMA BookingActionTyped ==
  ASSUME TypeOK, NEW s \in Sessions, NEW b \in Ids, NEW to \in Statuses,
         BookingAction(s, b, to)
  PROVE  TypeOK'
<1> DEFINE moves == [NoMoves EXCEPT ![b] = Relabel(b, to, {})]
<1>1. bookings[b] \in Row
  BY DEF TypeOK, BookingAction
<1>2. Relabel(b, to, {}) \in Move
  BY <1>1, RelabelTyped
<1>3. /\ moves \in [Ids -> Move \cup {NoMove}]
      /\ \A c \in Ids : moves[c] # NoMove => bookings[c] # NoRow
  BY <1>1, <1>2, StoredRow DEF NoMoves
<1>4. Begin(s, moves, NoRow)
  BY DEF BookingAction
<1> QED
  BY <1>3, <1>4, BeginTyped

\* A swap (swap_item) keeps TypeOK.
LEMMA SwapItemTyped ==
  ASSUME TypeOK, NEW s \in Sessions, NEW b \in Ids, NEW i \in Items, SwapItem(s, b, i)
  PROVE  TypeOK'
<1> DEFINE to == IF bookings[b].status = "at_risk" THEN "confirmed" ELSE bookings[b].status
           move == [Relabel(b, to, {}) EXCEPT !.toItem = i]
           moves == [NoMoves EXCEPT ![b] = move]
<1>1. bookings[b] \in Row
  BY DEF TypeOK, SwapItem, SWAPPABLE, NoRow
<1>2. to \in Statuses
  BY <1>1 DEF Row, Statuses
<1>3. move \in Move
  <2> HIDE DEF to
  <2>1. Relabel(b, to, {}) \in Move
    BY <1>1, <1>2, RelabelTyped
  <2> QED
    BY <2>1 DEF Move
<1>4. /\ moves \in [Ids -> Move \cup {NoMove}]
      /\ \A c \in Ids : moves[c] # NoMove => bookings[c] # NoRow
  <2> HIDE DEF move
  <2> QED
    BY <1>1, <1>3, StoredRow DEF NoMoves
<1>5. Begin(s, moves, NoRow)
  BY DEF SwapItem
<1> QED
  BY <1>4, <1>5, BeginTyped

\* A walk-in and the bookings it pushes aside (create_staff_booking) keep TypeOK.
LEMMA WalkInTyped ==
  ASSUME TypeOK, NEW s \in Sessions, NEW i \in Items, NEW span \in Spans,
         NEW now \in BOOLEAN, WalkIn(s, i, span, now)
  PROVE  TypeOK'
<1> DEFINE row == NewRow("walk_in", IF now THEN "picked_up" ELSE "confirmed", i,
                         StyleOf[i], span, PrepDays, CleaningDays, 0)
           conflicts == Overlapping(row)
           moves == [c \in Ids |-> IF c \in conflicts THEN Displace(c) ELSE NoMove]
<1>1. row \in Row
  BY DEF NewRow, Row, Kinds, Statuses, Styles
<1>2. \A c \in conflicts : bookings[c] \in Row
  BY DEF Overlapping, Active, ACTIVE_STATUSES, TypeOK, NoRow
<1>3. conflicts \in SUBSET Ids
  BY DEF Overlapping
<1>4. ASSUME NEW c \in conflicts PROVE Displace(c) \in Move
  BY <1>2, <1>3, <1>4 DEF Displace, Relabel, Move, Row, Statuses, Alerts
<1>5. /\ moves \in [Ids -> Move \cup {NoMove}]
      /\ \A c \in Ids : moves[c] # NoMove => bookings[c] # NoRow
  <2> HIDE DEF conflicts
  <2> QED
    BY <1>2, <1>3, <1>4, StoredRow
<1>6. Begin(s, moves, row)
  BY DEF WalkIn
<1> QED
  BY <1>1, <1>5, <1>6, BeginTyped

\* The unit of work that changes no stored row.
LEMMA NoMovesTyped ==
  /\ NoMoves \in [Ids -> Move \cup {NoMove}]
  /\ \A b \in Ids : NoMoves[b] = NoMove
  BY DEF NoMoves

\* A block (create_block) keeps TypeOK.
LEMMA BlockItemTyped ==
  ASSUME TypeOK, NEW s \in Sessions, NEW i \in Items, NEW span \in Spans,
         BlockItem(s, i, span)
  PROVE  TypeOK'
<1> DEFINE row == NewRow("block", "confirmed", i, StyleOf[i], span, 0, 0, 0)
<1>1. row \in Row
  BY DEF NewRow, Row, Kinds, Statuses, Styles
<1>2. Begin(s, NoMoves, row)
  BY DEF BlockItem
<1> QED
  BY <1>1, <1>2, NoMovesTyped, BeginTyped

\* A job over any set of stored rows keeps TypeOK.
LEMMA RunJobTyped ==
  ASSUME TypeOK, NEW s \in Sessions, NEW rows \in SUBSET Ids, NEW to \in Statuses,
         NEW alert \in SUBSET Alerts, \A b \in rows : bookings[b] \in Row,
         RunJob(s, rows, to, alert)
  PROVE  TypeOK'
<1> DEFINE moves == [b \in Ids |-> IF b \in rows THEN Relabel(b, to, alert) ELSE NoMove]
<1>1. ASSUME NEW b \in rows PROVE Relabel(b, to, alert) \in Move
  BY RelabelTyped
<1>2. /\ moves \in [Ids -> Move \cup {NoMove}]
      /\ \A b \in Ids : moves[b] # NoMove => bookings[b] # NoRow
  BY <1>1, StoredRow
<1>3. Begin(s, moves, NoRow)
  BY DEF RunJob
<1> QED
  BY <1>2, <1>3, BeginTyped

\* The three booking jobs (jobs.py) keep TypeOK: each picks stored rows only.
LEMMA JobsTyped ==
  ASSUME TypeOK, NEW s \in Sessions, Jobs(s) PROVE TypeOK'
<1>1. ASSUME NEW rows \in SUBSET Ids, NEW src \in Statuses,
             \A b \in rows : bookings[b].status = src
      PROVE  \A b \in rows : bookings[b] \in Row
  BY <1>1 DEF TypeOK, NoRow, Statuses
<1>2. CASE ExpireStaleRequests(s)
  <2>1. /\ StaleRequests \in SUBSET Ids
        /\ \A b \in StaleRequests : bookings[b].status = "pending_shop"
    BY DEF StaleRequests
  <2>2. \A b \in StaleRequests : bookings[b] \in Row
    BY <1>1, <2>1 DEF Statuses
  <2>3. RunJob(s, StaleRequests, "cancelled_by_shop", {"request_expired_admin"})
    BY <1>2 DEF ExpireStaleRequests
  <2> QED
    BY <2>1, <2>2, <2>3, RunJobTyped DEF Statuses, Alerts
<1>3. CASE MarkNoShows(s)
  <2>1. /\ MissedPickups \in SUBSET Ids
        /\ \A b \in MissedPickups : bookings[b].status = "confirmed"
    BY DEF MissedPickups
  <2>2. \A b \in MissedPickups : bookings[b] \in Row
    BY <1>1, <2>1 DEF Statuses
  <2>3. RunJob(s, MissedPickups, "no_show", {})
    BY <1>3 DEF MarkNoShows
  <2>4. "no_show" \in Statuses /\ {} \in SUBSET Alerts
    BY DEF Statuses
  <2> QED
    BY <2>1, <2>2, <2>3, <2>4, RunJobTyped
<1>4. CASE MarkNotReturned(s)
  <2>1. /\ Overdue \in SUBSET Ids
        /\ \A b \in Overdue : bookings[b].status = "picked_up"
    BY DEF Overdue
  <2>2. \A b \in Overdue : bookings[b] \in Row
    BY <1>1, <2>1 DEF Statuses
  <2>3. RunJob(s, Overdue, "not_returned", {})
    BY <1>4 DEF MarkNotReturned
  <2>4. "not_returned" \in Statuses /\ {} \in SUBSET Alerts
    BY DEF Statuses
  <2> QED
    BY <2>1, <2>2, <2>3, <2>4, RunJobTyped
<1> QED
  BY <1>2, <1>3, <1>4 DEF Jobs

\* The search of create_request keeps TypeOK.
LEMMA RequestTyped ==
  ASSUME TypeOK, NEW s \in Sessions, NEW style \in Styles, NEW span \in Spans,
         NEW status \in RequestStatuses, RequestDress(s, style, span, status)
  PROVE  TypeOK'
<1> DEFINE row == NewRow("online", status, NoItem, style, span, PrepDays, CleaningDays, today)
           free == FreeItems(row)
           w == [Idle EXCEPT !.phase = "locking", !.tries = 1,
                             !.free = free, !.insert = row]
<1>1. row \in Draft /\ row # NoRow
  BY DEF NewRow, Draft, Kinds, Statuses, TypeOK, NoRow
<1>2. free \in SUBSET Items /\ 1 \in 0..MaxAttempts
  BY DEF FreeItems
<1>3. tx' = [tx EXCEPT ![s] = w] /\ UNCHANGED <<bookings, event, alerts, items, today>>
  BY DEF RequestDress
<1>4. UnitOK(w)
  <2> HIDE DEF row, free
  <2>1. w \in Tx
    BY <1>1, <1>2, IdleTyped DEF Tx, Idle
  <2>2. w.tries = 1 /\ w.phase = "locking" /\ w.insert = row /\ w.moves = NoMoves
    BY DEF Idle
  <2> QED
    BY <1>1, <2>1, <2>2, NoMovesTyped DEF UnitOK, Moved
<1> QED
  <2> HIDE DEF w
  <2> QED
    BY <1>3, <1>4, UnitReplaced

\* A draft becomes a row once it has an item.
LEMMA Drafted ==
  ASSUME NEW r \in Draft, NEW i \in Items
  PROVE  [r EXCEPT !.item = i] \in Row /\ [r EXCEPT !.item = i].item = i
  BY DEF Draft, Row

\* Taking the lock on an item (create_request) keeps TypeOK.
LEMMA LockItemTyped ==
  ASSUME TypeOK, NEW s \in Sessions, LockItem(s) PROVE TypeOK'
<1>1. PICK skipped \in SUBSET MayBeLocked(s) : \E i \in Lockable(s, skipped) :
        tx' = [tx EXCEPT ![s].phase = "writing", ![s].free = {},
                         ![s].holds = @ \cup {i}, ![s].insert.item = i]
  BY DEF LockItem
<1>2. PICK i \in Lockable(s, skipped) :
        tx' = [tx EXCEPT ![s].phase = "writing", ![s].free = {},
                         ![s].holds = @ \cup {i}, ![s].insert.item = i]
  BY <1>1
<1>3. UnitOK(tx[s]) /\ tx[s].phase = "locking" /\ tx \in [Sessions -> Tx]
  BY UnitTyped DEF LockItem, TypeOK
<1>4. /\ i \in Items
      /\ tx[s].insert \in Draft /\ tx[s].holds \in SUBSET Items
      /\ tx[s].tries \in 0..MaxAttempts
      /\ tx[s].moves \in [Ids -> Move \cup {NoMove}] /\ tx[s].overnight \in BOOLEAN
  BY <1>3 DEF UnitOK, Tx, Lockable
<1> DEFINE row == [tx[s].insert EXCEPT !.item = i]
           w == [tx[s] EXCEPT !.phase = "writing", !.free = {}, !.holds = @ \cup {i},
                              !.insert = row]
<1>5. tx' = [tx EXCEPT ![s] = w]
  BY <1>2, ZenonT(60)
<1>6. row \in Row /\ row \in Draft /\ row # NoRow
  BY <1>4, Drafted, StoredRow
<1>7. w \in Tx /\ w.phase = "writing" /\ w.insert = row /\ w.moves = tx[s].moves
  <2> HIDE DEF row
  <2> QED
    BY <1>3, <1>4, <1>6, ZenonT(60) DEF Tx
<1>8. UnitOK(w)
  <2> HIDE DEF w
  <2> QED
    BY <1>3, <1>6, <1>7 DEF UnitOK, Moved
<1>9. UNCHANGED <<bookings, event, alerts, items, today>>
  BY DEF LockItem
<1> QED
  <2> HIDE DEF w
  <2> QED
    BY <1>5, <1>8, <1>9, UnitReplaced

\* A session that comes to rest, refused or not, keeps TypeOK.
LEMMA IdleAgain ==
  ASSUME TypeOK, NEW s \in Sessions,
         NEW w \in {Idle, [Idle EXCEPT !.phase = "refused"]},
         tx' = [tx EXCEPT ![s] = w],
         UNCHANGED <<bookings, event, alerts, items, today>>
  PROVE  TypeOK'
<1>1. w \in Tx /\ w.phase \in {"idle", "refused"} /\ w.tries = 0 /\ w.moves = NoMoves
  <2>1. CASE w = Idle
    BY <2>1, IdleTyped DEF Idle
  <2>2. CASE w = [Idle EXCEPT !.phase = "refused"]
    BY <2>2, IdleTyped DEF Tx, Idle
  <2> QED
    BY <2>1, <2>2
<1>2. UnitOK(w)
  BY <1>1, NoMovesTyped DEF UnitOK, Moved
<1> QED
  BY <1>2, UnitReplaced

\* Another round of create_request, or its last refusal, keeps TypeOK.
LEMMA RetryTyped == ASSUME TypeOK, NEW s \in Sessions, Retry(s) PROVE TypeOK'
<1>1. CASE ~(tx[s].tries < MaxAttempts)
  BY <1>1, IdleAgain DEF Retry
<1>2. CASE tx[s].tries < MaxAttempts
  <2>1. UnitOK(tx[s]) /\ tx[s].phase = "writing" /\ tx[s].tries > 0 /\ tx[s].insert \in Row
    BY UnitTyped DEF UnitOK, Retry, Refuted
  <2> DEFINE free == FreeItems(tx[s].insert)
             row == [tx[s].insert EXCEPT !.item = NoItem]
             w == [tx[s] EXCEPT !.phase = "locking", !.tries = @ + 1, !.free = free,
                                !.insert = row]
  <2>2. free \in SUBSET Items /\ row \in Draft /\ row # NoRow
    BY <2>1 DEF FreeItems, Row, Draft, NoRow, Statuses
  <2>3. tx' = [tx EXCEPT ![s] = w] /\ UNCHANGED <<bookings, event, alerts, items, today>>
    BY <1>2 DEF Retry
  <2>4. /\ w \in Tx /\ w.phase = "locking" /\ w.insert = row /\ w.moves = tx[s].moves
        /\ w.tries > 0
    <3> HIDE DEF free, row
    <3>1. tx[s] \in Tx /\ tx[s].tries + 1 \in 0..MaxAttempts /\ tx[s].tries + 1 > 0
      BY <1>2, <2>1 DEF UnitOK, Tx
    <3> QED
      BY <2>2, <3>1 DEF Tx
  <2>5. UnitOK(w)
    <3> HIDE DEF w
    <3> QED
      BY <2>1, <2>2, <2>4 DEF UnitOK, Moved
  <2> QED
    <3> HIDE DEF w
    <3> QED
      BY <2>3, <2>5, UnitReplaced
<1> QED
  BY <1>1, <1>2

\* The tables after a unit of work is written: every row is still a booking or
\* unused, and a booking stays a booking.
LEMMA AfterTyped ==
  ASSUME TypeOK, NEW s \in Sessions, tx[s].phase = "writing", NEW n \in NewIds(tx[s])
  PROVE  /\ After(tx[s], n) \in [Ids -> Row \cup {NoRow}]
         /\ \A b \in Ids : bookings[b] # NoRow => After(tx[s], n)[b] # NoRow
<1>1. UnitOK(tx[s])
  BY UnitTyped
<1>2. n \in Ids => tx[s].insert \in Row /\ tx[s].insert # NoRow /\ bookings[n] = NoRow
  BY <1>1 DEF UnitOK, NewIds, Unused
<1>3. ASSUME NEW b \in Moved(tx[s])
      PROVE  /\ tx[s].moves[b] \in Move /\ bookings[b] \in Row
             /\ Apply(bookings[b], tx[s].moves[b]) \in Row
  <2>1. bookings[b] \in Row /\ tx[s].moves[b] \in Move
    BY <1>1 DEF TypeOK, UnitOK, Tx, Moved
  <2> QED
    BY <2>1, AppliedRow
<1>4. ASSUME NEW b \in Ids
      PROVE  /\ After(tx[s], n)[b] \in Row \cup {NoRow}
             /\ bookings[b] # NoRow => After(tx[s], n)[b] # NoRow
  BY <1>2, <1>3, StoredRow DEF TypeOK, After
<1> QED
  BY <1>4 DEF After

\* The write keeps TypeOK: the tables, the events, the alerts and the work of
\* the other sessions, whose bookings are still there.
LEMMA CommitTyped == ASSUME TypeOK, NEW s \in Sessions, Commit(s) PROVE TypeOK'
<1> DEFINE w == tx[s]
<1>1. PICK n \in NewIds(w) :
        /\ bookings' = After(w, n)
        /\ event' = [b \in Ids |->
                       IF b = n THEN FirstEvent(w.insert)
                       ELSE IF b \in Moved(w)
                            THEN [from |-> w.moves[b].from, to |-> w.moves[b].to]
                            ELSE event[b]]
        /\ alerts' = [b \in Ids |->
                        IF b = n
                        THEN IF w.insert.kind = "online" THEN {"new_request"} ELSE {}
                        ELSE IF b \in Moved(w)
                             THEN alerts[b] \cup w.moves[b].alert
                             ELSE alerts[b]]
  BY DEF Commit
<1>2. /\ UnitOK(w) /\ w.phase = "writing"
      /\ tx' = [tx EXCEPT ![s] = Idle] /\ UNCHANGED <<items, today>>
  BY UnitTyped DEF Commit
<1>3. /\ bookings' \in [Ids -> Row \cup {NoRow}]
      /\ \A b \in Ids : bookings[b] # NoRow => bookings'[b] # NoRow
  BY <1>1, <1>2, AfterTyped
<1>4. n \in Ids => w.insert \in Row
  BY <1>2 DEF UnitOK, NewIds, Unused
<1>5. \A b \in Moved(w) : w.moves[b] \in Move
  BY <1>2 DEF UnitOK, Tx, Moved
<1>6. event' \in [Ids -> Event \cup {NoEvent}]
  <2>1. ASSUME NEW b \in Ids PROVE event'[b] \in Event \cup {NoEvent}
    BY <1>1, <1>4, <1>5 DEF TypeOK, FirstEvent, Event, Row, Move, Statuses
  <2> QED
    BY <1>1, <2>1
<1>7. alerts' \in [Ids -> SUBSET Alerts]
  <2>1. ASSUME NEW b \in Ids PROVE alerts'[b] \in SUBSET Alerts
    BY <1>1, <1>5 DEF TypeOK, Alerts, Move
  <2> QED
    BY <1>1, <2>1
<1>8. ASSUME NEW t \in Sessions PROVE UnitOK(tx[t])'
  <2>1. CASE t = s
    <3>1. tx'[t] = Idle
      BY <1>2, <2>1 DEF TypeOK
    <3> QED
      BY <3>1, IdleTyped DEF UnitOK, Moved, Idle
  <2>2. CASE t # s
    <3>1. tx'[t] = tx[t] /\ UnitOK(tx[t])
      BY <1>2, <2>2, UnitTyped DEF TypeOK
    <3> QED
      BY <1>3, <3>1 DEF UnitOK, Moved
  <2> QED
    BY <2>1, <2>2
<1>9. tx' \in [Sessions -> Tx]
  BY <1>2, IdleTyped DEF TypeOK
<1> QED
  BY <1>2, <1>3, <1>6, <1>7, <1>8, <1>9 DEF TypeOK, UnitOK

\* Every step of the engine keeps every row, unit of work and event well formed.
LEMMA TypeStep == ASSUME TypeOK, [Next]_vars PROVE TypeOK'
<1>1. ASSUME NEW s \in Sessions, Web(s) PROVE TypeOK'
  <2>1. ASSUME NEW style \in Styles, NEW span \in Spans, NEW status \in RequestStatuses,
               RequestDress(s, style, span, status)
        PROVE  TypeOK'
    BY <2>1, RequestTyped
  <2>2. ASSUME NEW i \in Items, NEW span \in Spans, NEW now \in BOOLEAN,
               WalkIn(s, i, span, now)
        PROVE  TypeOK'
    BY <2>2, WalkInTyped
  <2>3. ASSUME NEW i \in Items, NEW span \in Spans, BlockItem(s, i, span) PROVE TypeOK'
    BY <2>3, BlockItemTyped
  <2>4. ASSUME NEW b \in Ids, NEW to \in StaffTargets, BookingAction(s, b, to)
        PROVE  TypeOK'
    BY <2>4, BookingActionTyped DEF StaffTargets, Statuses
  <2>5. ASSUME NEW b \in Ids, NEW i \in Items, SwapItem(s, b, i) PROVE TypeOK'
    BY <2>5, SwapItemTyped
  <2> QED
    BY <1>1, <2>1, <2>2, <2>3, <2>4, <2>5 DEF Web
<1>2. ASSUME NEW s \in Sessions, Finish(s) \/ Abort(s) PROVE TypeOK'
  <2>1. CASE NoAvailability(s) \/ Reject(s) \/ Abort(s)
    BY <2>1, IdleAgain DEF NoAvailability, Reject, Abort
  <2> QED
    BY <1>2, <2>1, LockItemTyped, CommitTyped, RetryTyped DEF Finish
<1>3. ASSUME NEW i \in Items, NEW status \in ItemStates, SetItemStatus(i, status)
      PROVE  TypeOK'
  BY <1>3 DEF SetItemStatus, TypeOK, Moved
<1>4. CASE Tick
  <2>1. today' \in Nat /\ UNCHANGED <<bookings, event, alerts, items>>
    BY <1>4 DEF Tick, TypeOK
  <2>2. ASSUME NEW s \in Sessions PROVE UnitOK(tx'[s])
    <3>1. CASE Ready(s)
      BY <1>4, <3>1, UnitTyped DEF Tick
    <3>2. CASE ~Ready(s)
      <4>1. UnitOK(tx[s]) /\ tx'[s] = [tx[s] EXCEPT !.overnight = TRUE]
        BY <1>4, <3>2, UnitTyped DEF Tick
      <4> QED
        BY <4>1 DEF UnitOK, Tx, Moved
    <3> QED
      BY <3>1, <3>2
  <2>3. tx' \in [Sessions -> Tx]
    BY <1>4, <2>2 DEF Tick, UnitOK
  <2>4. \A s \in Sessions : UnitOK(tx[s])'
    BY <2>1, <2>2 DEF UnitOK, Moved
  <2> QED
    BY <2>1, <2>3, <2>4 DEF TypeOK, UnitOK
<1>5. CASE UNCHANGED vars
  BY <1>5 DEF vars, TypeOK, Moved
<1> QED
  BY <1>1, <1>2, <1>3, <1>4, <1>5, JobsTyped DEF Next

\* The empty tables are well formed.
LEMMA InitTyped == ASSUME Init PROVE TypeOK
<1>1. /\ bookings \in [Ids -> Row \cup {NoRow}]
      /\ event \in [Ids -> Event \cup {NoEvent}]
      /\ alerts \in [Ids -> SUBSET Alerts]
      /\ items \in [Items -> ItemStates \cup {"active"}]
      /\ today \in Nat
  BY DEF Init
<1>2. tx \in [Sessions -> Tx] /\ \A s \in Sessions : tx[s] = Idle
  BY IdleTyped DEF Init
<1>3. Idle.phase = "idle" /\ Idle.tries = 0
  BY DEF Idle
<1> QED
  BY <1>1, <1>2, <1>3, IdleTyped DEF TypeOK

\* In every reachable state the tables hold well-formed rows, and what each
\* handler is about to write refers to stored bookings and to the shop's items.
THEOREM TypeCorrect == Spec => []TypeOK
<1>1. Init => TypeOK
  BY InitTyped
<1> QED
  BY <1>1, TypeStep, PTL DEF Spec

------------------------------------------------------------------------------
(* The table changes in Commit alone.                                      *)

\* No step but a commit changes a booking.
LEMMA OnlyCommitWrites ==
  ASSUME Next PROVE UNCHANGED bookings \/ \E s \in Sessions : Commit(s)
<1>1. ASSUME NEW s \in Sessions, Web(s) PROVE UNCHANGED bookings
  BY <1>1 DEF Web, RequestDress, WalkIn, BlockItem, BookingAction, SwapItem, Begin
<1>2. ASSUME NEW s \in Sessions, Jobs(s) PROVE UNCHANGED bookings
  BY <1>2 DEF Jobs, ExpireStaleRequests, MarkNoShows, MarkNotReturned, RunJob, Begin
<1>3. ASSUME NEW s \in Sessions, Finish(s), ~Commit(s) PROVE UNCHANGED bookings
  BY <1>3 DEF Finish, LockItem, NoAvailability, Reject, Retry
<1>4. ASSUME NEW s \in Sessions, Abort(s) PROVE UNCHANGED bookings
  BY <1>4 DEF Abort
<1>5. ASSUME NEW i \in Items, NEW status \in ItemStates, SetItemStatus(i, status)
      PROVE  UNCHANGED bookings
  BY <1>5 DEF SetItemStatus
<1>6. ASSUME Tick PROVE UNCHANGED bookings
  BY <1>6 DEF Tick
<1> QED
  BY <1>1, <1>2, <1>3, <1>4, <1>5, <1>6 DEF Next

\* A committed unit of work passed both constraints on each row it touched, and
\* left every other row as it was.
LEMMA CommitChecked ==
  ASSUME NEW s \in Sessions, Commit(s)
  PROVE  \E n \in NewIds(tx[s]) :
           /\ bookings' = After(tx[s], n)
           /\ \A b \in Touched(tx[s], n) : /\ NotExcluded(bookings', b)
                                           /\ ItemHasStyle(bookings', b)
           /\ \A b \in Ids \ Touched(tx[s], n) : bookings'[b] = bookings[b]
  BY DEF Commit, Storable, Touched, After

\* Two rows clash either way round.
LEMMA ClashSymmetric == ASSUME NEW r, NEW q, Clash(r, q) PROVE Clash(q, r)
  BY DEF Clash

\* The exclusion constraint, checked on the rows a commit touches, is enough for
\* all of them: two rows it did not touch did not clash before.
LEMMA ExclusionStep ==
  ASSUME NoDoubleBooking, [Next]_vars PROVE NoDoubleBooking'
<1>1. CASE UNCHANGED bookings
  BY <1>1 DEF NoDoubleBooking, Clash, First, Last, Active
<1>2. ASSUME NEW s \in Sessions, Commit(s) PROVE NoDoubleBooking'
  <2>1. PICK n \in NewIds(tx[s]) :
          /\ \A b \in Touched(tx[s], n) : NotExcluded(bookings', b)
          /\ \A b \in Ids \ Touched(tx[s], n) : bookings'[b] = bookings[b]
    BY <1>2, CommitChecked
  <2>2. SUFFICES ASSUME NEW b \in Ids, NEW c \in Ids, b # c,
                        Active(bookings'[b]), Active(bookings'[c])
                 PROVE  ~Clash(bookings'[b], bookings'[c])
    BY DEF NoDoubleBooking, Clash, First, Last, Active
  <2>3. CASE b \in Touched(tx[s], n)
    BY <2>1, <2>2, <2>3 DEF NotExcluded
  <2>4. CASE c \in Touched(tx[s], n)
    BY <2>1, <2>2, <2>4, ClashSymmetric DEF NotExcluded
  <2>5. CASE b \notin Touched(tx[s], n) /\ c \notin Touched(tx[s], n)
    <3>1. bookings'[b] = bookings[b] /\ bookings'[c] = bookings[c]
      BY <2>1, <2>5
    <3> QED
      BY <2>2, <3>1 DEF NoDoubleBooking
  <2> QED
    BY <2>3, <2>4, <2>5
<1> QED
  BY <1>1, <1>2, OnlyCommitWrites DEF vars

\* No dress is ever promised to two people on overlapping days, whatever the
\* handlers and jobs decided on and in whatever order they committed.
THEOREM NeverDoubleBooked == Spec => []NoDoubleBooking
<1>1. Init => NoDoubleBooking
  BY DEF Init, NoDoubleBooking, Active, NoRow, ACTIVE_STATUSES
<1> QED
  BY <1>1, ExclusionStep, PTL DEF Spec

\* So is the foreign key on item and style.
LEMMA StyleStep ==
  ASSUME StyleMatchesItem, [Next]_vars PROVE StyleMatchesItem'
<1>1. CASE UNCHANGED bookings
  BY <1>1 DEF StyleMatchesItem
<1>2. ASSUME NEW s \in Sessions, Commit(s) PROVE StyleMatchesItem'
  <2>1. PICK n \in NewIds(tx[s]) :
          /\ \A b \in Touched(tx[s], n) : ItemHasStyle(bookings', b)
          /\ \A b \in Ids \ Touched(tx[s], n) : bookings'[b] = bookings[b]
    BY <1>2, CommitChecked
  <2> QED
    BY <2>1 DEF StyleMatchesItem, ItemHasStyle
<1> QED
  BY <1>1, <1>2, OnlyCommitWrites DEF vars

\* Every booking is of the style its item is a copy of, however swaps overlap.
THEOREM StylesMatch == Spec => []StyleMatchesItem
<1>1. Init => StyleMatchesItem
  BY DEF Init, StyleMatchesItem
<1> QED
  BY <1>1, StyleStep, PTL DEF Spec

------------------------------------------------------------------------------
(* Row locks.                                                              *)

\* The discipline behind NoRowLockCycle: only requests hold item rows, no two hold
\* the same, and a request about to insert references nothing but a row it holds.
LockInv ==
  /\ \A s, t \in Sessions : s # t => tx[s].holds \cap tx[t].holds = {}
  /\ \A s \in Sessions :
       /\ tx[s].holds # {} => tx[s].tries > 0
       /\ tx[s].tries > 0 => Moved(tx[s]) = {}
       /\ tx[s].tries > 0 /\ tx[s].phase = "writing" => tx[s].insert.item \in tx[s].holds

LockOK(w) ==
  /\ w.holds # {} => w.tries > 0
  /\ w.tries > 0 => Moved(w) = {}
  /\ w.tries > 0 /\ w.phase = "writing" => w.insert.item \in w.holds

\* Replacing one unit of work keeps LockInv if the rows it newly holds are free.
LEMMA LockReplaced ==
  ASSUME TypeOK, LockInv, NEW s \in Sessions, NEW w, LockOK(w),
         tx' = [tx EXCEPT ![s] = w],
         \A t \in Sessions \ {s} : w.holds \cap tx[t].holds = {}
  PROVE  LockInv'
<1>1. tx'[s] = w /\ \A t \in Sessions \ {s} : tx'[t] = tx[t]
  BY DEF TypeOK
<1>2. \A t \in Sessions : LockOK(tx'[t])
  BY <1>1 DEF LockInv, LockOK
<1>3. \A t, u \in Sessions : t # u => tx'[t].holds \cap tx'[u].holds = {}
  BY <1>1 DEF LockInv
<1> QED
  BY <1>2, <1>3 DEF LockInv, LockOK, Moved

\* A unit of work that holds no lock and is not a request keeps LockInv.
LEMMA NoHoldsReplaced ==
  ASSUME TypeOK, LockInv, NEW s \in Sessions, NEW w, w.holds = {}, w.tries = 0,
         tx' = [tx EXCEPT ![s] = w]
  PROVE  LockInv'
<1>1. LockOK(w)
  BY DEF LockOK
<1>2. \A t \in Sessions \ {s} : w.holds \cap tx[t].holds = {}
  OBVIOUS
<1> QED
  BY <1>1, <1>2, LockReplaced

\* The handlers and jobs that only read and write hold no item rows.
LEMMA BeginLocks ==
  ASSUME TypeOK, LockInv, NEW s \in Sessions, NEW moves, NEW insert, Begin(s, moves, insert)
  PROVE  LockInv'
<1> DEFINE w == [Idle EXCEPT !.phase = "writing", !.moves = moves, !.insert = insert]
<1>1. w.holds = {} /\ w.tries = 0
  BY DEF Idle
<1>2. tx' = [tx EXCEPT ![s] = w]
  BY DEF Begin
<1> QED
  <2> HIDE DEF w
  <2> QED
    BY <1>1, <1>2, NoHoldsReplaced

\* A request that has only searched holds none either.
LEMMA RequestLocks ==
  ASSUME TypeOK, LockInv, NEW s \in Sessions, NEW style, NEW span, NEW status,
         RequestDress(s, style, span, status)
  PROVE  LockInv'
<1> DEFINE row == NewRow("online", status, NoItem, style, span, PrepDays, CleaningDays, today)
           free == FreeItems(row)
           w == [Idle EXCEPT !.phase = "locking", !.tries = 1,
                             !.free = free, !.insert = row]
<1>1. tx' = [tx EXCEPT ![s] = w]
  BY DEF RequestDress
<1>2. w.holds = {} /\ w.phase = "locking" /\ w.moves = NoMoves
  <2> HIDE DEF row, free
  <2> QED
    BY DEF Idle
<1>3. LockOK(w)
  <2> HIDE DEF w
  <2> QED
    BY <1>2, NoMovesTyped DEF LockOK, Moved
<1> QED
  <2> HIDE DEF w
  <2> QED
    BY <1>1, <1>2, <1>3, LockReplaced

\* A request locks a row no other session holds, and inserts for that row.
LEMMA LockItemLocks ==
  ASSUME TypeOK, LockInv, NEW s \in Sessions, LockItem(s) PROVE LockInv'
<1>1. PICK skipped \in SUBSET MayBeLocked(s) : \E i \in Lockable(s, skipped) :
        tx' = [tx EXCEPT ![s].phase = "writing", ![s].free = {},
                         ![s].holds = @ \cup {i}, ![s].insert.item = i]
  BY DEF LockItem
<1>2. PICK i \in Lockable(s, skipped) :
        tx' = [tx EXCEPT ![s].phase = "writing", ![s].free = {},
                         ![s].holds = @ \cup {i}, ![s].insert.item = i]
  BY <1>1
<1>3. UnitOK(tx[s]) /\ tx[s].phase = "locking"
  BY UnitTyped DEF LockItem
<1>4. /\ i \in Items /\ tx[s] \in Tx /\ tx[s].insert \in Draft
      /\ tx[s].tries > 0 /\ ~LockedByOther(s, i)
  BY <1>3 DEF UnitOK, Tx, Lockable
<1> DEFINE row == [tx[s].insert EXCEPT !.item = i]
           w == [tx[s] EXCEPT !.phase = "writing", !.free = {}, !.holds = @ \cup {i},
                              !.insert = row]
<1>5. tx' = [tx EXCEPT ![s] = w]
  BY <1>2, ZenonT(60)
<1>6. row.item = i
  BY <1>4, Drafted
<1>7. /\ w.insert = row /\ w.moves = tx[s].moves /\ w.tries = tx[s].tries
      /\ w.holds = tx[s].holds \cup {i}
  <2> HIDE DEF row
  <2> QED
    BY <1>4 DEF Tx
<1>8. LockOK(w)
  <2> HIDE DEF w, row
  <2> QED
    BY <1>4, <1>6, <1>7 DEF LockOK, LockInv, Moved
<1>9. \A t \in Sessions \ {s} : w.holds \cap tx[t].holds = {}
  <2> HIDE DEF w
  <2> QED
    BY <1>4, <1>7 DEF LockInv, LockedByOther
<1> QED
  <2> HIDE DEF w
  <2> QED
    BY <1>5, <1>8, <1>9, LockReplaced

\* A request that goes round again keeps the rows it has locked.
LEMMA RetryLocks ==
  ASSUME TypeOK, LockInv, NEW s \in Sessions, Retry(s) PROVE LockInv'
<1>1. CASE ~(tx[s].tries < MaxAttempts)
  <2> DEFINE w == [Idle EXCEPT !.phase = "refused"]
  <2>1. w.holds = {} /\ w.tries = 0
    BY DEF Idle
  <2>2. tx' = [tx EXCEPT ![s] = w]
    BY <1>1 DEF Retry
  <2> HIDE DEF w
  <2> QED
    BY <2>1, <2>2, NoHoldsReplaced
<1>2. CASE tx[s].tries < MaxAttempts
  <2> DEFINE free == FreeItems(tx[s].insert)
             row == [tx[s].insert EXCEPT !.item = NoItem]
             w == [tx[s] EXCEPT !.phase = "locking", !.tries = tx[s].tries + 1,
                                !.free = free, !.insert = row]
  <2>1. tx' = [tx EXCEPT ![s] = w]
    BY <1>2 DEF Retry
  <2>2. tx[s] \in Tx /\ tx[s].tries > 0 /\ tx[s].tries + 1 > 0
    BY UnitTyped DEF UnitOK, Tx, Retry
  <2>3. /\ w.holds = tx[s].holds /\ w.phase = "locking" /\ w.moves = tx[s].moves
        /\ w.tries > 0
    <3> HIDE DEF free, row
    <3> QED
      BY <2>2 DEF Tx
  <2>4. LockOK(w) /\ \A t \in Sessions \ {s} : w.holds \cap tx[t].holds = {}
    <3> HIDE DEF w
    <3> QED
      BY <2>2, <2>3 DEF LockOK, LockInv, Moved
  <2> HIDE DEF w
  <2> QED
    BY <2>1, <2>4, LockReplaced
<1> QED
  BY <1>1, <1>2

\* Every step keeps LockInv.
LEMMA LockStep == ASSUME TypeOK, LockInv, [Next]_vars PROVE LockInv'
<1>1. ASSUME NEW s \in Sessions, Web(s) PROVE LockInv'
  BY <1>1, BeginLocks, RequestLocks DEF Web, WalkIn, BlockItem, BookingAction, SwapItem
<1>2. ASSUME NEW s \in Sessions, Jobs(s) PROVE LockInv'
  BY <1>2, BeginLocks DEF Jobs, ExpireStaleRequests, MarkNoShows, MarkNotReturned, RunJob
<1>3. ASSUME NEW s \in Sessions, Finish(s) \/ Abort(s) PROVE LockInv'
  <2>1. /\ Idle.holds = {} /\ Idle.tries = 0
        /\ [Idle EXCEPT !.phase = "refused"].holds = {}
        /\ [Idle EXCEPT !.phase = "refused"].tries = 0
    BY DEF Idle
  <2>2. CASE Commit(s) \/ Reject(s) \/ Abort(s)
    BY <2>1, <2>2, NoHoldsReplaced DEF Commit, Reject, Abort
  <2>3. CASE NoAvailability(s)
    BY <2>1, <2>3, NoHoldsReplaced DEF NoAvailability
  <2> QED
    BY <1>3, <2>2, <2>3, LockItemLocks, RetryLocks DEF Finish
<1>4. CASE Tick
  <2>1. ASSUME NEW s \in Sessions
        PROVE  /\ tx'[s].phase = tx[s].phase /\ tx'[s].holds = tx[s].holds
               /\ tx'[s].tries = tx[s].tries /\ tx'[s].moves = tx[s].moves
               /\ tx'[s].insert = tx[s].insert
    <3>1. tx[s] \in Tx /\ tx'[s] \in {tx[s], [tx[s] EXCEPT !.overnight = TRUE]}
      BY <1>4 DEF Tick, TypeOK
    <3> QED
      BY <3>1 DEF Tx
  <2> QED
    BY <2>1 DEF LockInv, Moved
<1>5. ASSUME NEW i \in Items, NEW status \in ItemStates, SetItemStatus(i, status)
      PROVE  LockInv'
  BY <1>5 DEF SetItemStatus, LockInv, Moved
<1>6. CASE UNCHANGED vars
  BY <1>6 DEF vars, LockInv, Moved
<1> QED
  BY <1>1, <1>2, <1>3, <1>4, <1>5, <1>6 DEF Next

\* A request that is ready to write refers to rows it holds itself, so it waits
\* for nobody.
LEMMA LocksPreventCycles == ASSUME TypeOK, LockInv PROVE NoRowLockCycle
<1>1. SUFFICES ASSUME NEW t \in Sessions, tx[t].holds # {}, tx[t].phase = "writing"
               PROVE  Unblocked(t)
  BY DEF NoRowLockCycle
<1>2. /\ tx[t].insert # NoRow /\ Moved(tx[t]) = {}
      /\ tx[t].insert.item \in tx[t].holds
  BY <1>1, UnitTyped DEF LockInv, UnitOK
<1>3. ItemsReferenced(tx[t]) \subseteq tx[t].holds
  BY <1>2 DEF ItemsReferenced
<1> QED
  BY <1>3 DEF Unblocked, LockedByOther, LockInv

\* Nobody holds a row at the start.
LEMMA InitLocks == Init => LockInv
<1>1. Idle.holds = {} /\ Idle.tries = 0
  BY DEF Idle
<1> QED
  BY <1>1, IdleTyped DEF Init, LockInv

\* Handlers never wait for each other in a circle over item rows, however many
\* run: a request that others wait for has nothing left to wait for.
THEOREM NoCircularRowLockWait == Spec => []NoRowLockCycle
<1>1. Init => LockInv
  BY InitLocks
<1>2. TypeOK /\ LockInv => NoRowLockCycle
  BY LocksPreventCycles
<1>3. TypeOK /\ LockInv /\ [Next]_vars => LockInv'
  BY LockStep
<1> QED
  BY <1>1, <1>2, <1>3, TypeCorrect, PTL DEF Spec

------------------------------------------------------------------------------
(* Bookings put at risk.                                                   *)

\* A unit of work that puts bookings at risk does so to online ones, tells the
\* admin, and inserts the walk-in they give way to.
UnitRisk(w) ==
  /\ w.insert.status # "at_risk"
  /\ \A b \in Moved(w) : w.moves[b].to = "at_risk" =>
       /\ bookings[b].kind = "online" /\ "booking_at_risk_admin" \in w.moves[b].alert
       /\ w.insert # NoRow /\ w.insert.kind = "walk_in"

RiskInv == \A s \in Sessions : UnitRisk(tx[s])

\* A session at rest puts nothing at risk.
LEMMA IdleRisk == UnitRisk(Idle) /\ UnitRisk([Idle EXCEPT !.phase = "refused"])
<1>1. Moved(Idle) = {} /\ Moved([Idle EXCEPT !.phase = "refused"]) = {}
  BY DEF Idle, NoMoves, Moved
<1>2. /\ Idle.insert.status = "unused"
      /\ [Idle EXCEPT !.phase = "refused"].insert.status = "unused"
  BY DEF Idle, NoRow
<1> QED
  BY <1>1, <1>2 DEF UnitRisk

\* Replacing one unit of work keeps RiskInv.
LEMMA RiskReplaced ==
  ASSUME TypeOK, RiskInv, NEW s \in Sessions, NEW w, UnitRisk(w),
         tx' = [tx EXCEPT ![s] = w], UNCHANGED bookings
  PROVE  RiskInv'
<1>1. tx'[s] = w /\ \A t \in Sessions \ {s} : tx'[t] = tx[t]
  BY DEF TypeOK
<1> QED
  BY <1>1 DEF RiskInv, UnitRisk, Moved

\* A handler that has read keeps it if what it is about to write does.
LEMMA BeginRisk ==
  ASSUME TypeOK, RiskInv, NEW s \in Sessions, NEW moves, NEW insert,
         insert.status # "at_risk",
         \A b \in Ids : moves[b].to = "at_risk" =>
           /\ bookings[b].kind = "online" /\ "booking_at_risk_admin" \in moves[b].alert
           /\ insert # NoRow /\ insert.kind = "walk_in",
         Begin(s, moves, insert)
  PROVE  RiskInv'
<1> DEFINE w == [Idle EXCEPT !.phase = "writing", !.moves = moves, !.insert = insert]
<1>1. w.moves = moves /\ w.insert = insert
  BY DEF Idle
<1>2. tx' = [tx EXCEPT ![s] = w] /\ UNCHANGED bookings
  BY DEF Begin
<1> HIDE DEF w
<1>3. UnitRisk(w)
  BY <1>1 DEF UnitRisk, Moved
<1> QED
  BY <1>2, <1>3, RiskReplaced

\* No button of the staff and no swap puts a booking at risk.
LEMMA StaffRisk ==
  ASSUME TypeOK, RiskInv, NEW s \in Sessions, NEW b \in Ids,
         \/ \E to \in StaffTargets : BookingAction(s, b, to)
         \/ \E i \in Items : SwapItem(s, b, i)
  PROVE  RiskInv'
<1>1. NoRow.status # "at_risk"
  BY DEF NoRow
<1>2. ASSUME NEW to \in StaffTargets, BookingAction(s, b, to) PROVE RiskInv'
  <2> DEFINE moves == [NoMoves EXCEPT ![b] = Relabel(b, to, {})]
  <2>1. \A c \in Ids : moves[c].to # "at_risk"
    BY DEF NoMoves, NoMove, Relabel, StaffTargets
  <2>2. Begin(s, moves, NoRow)
    BY <1>2 DEF BookingAction
  <2> HIDE DEF moves
  <2> QED
    BY <1>1, <2>1, <2>2, BeginRisk
<1>3. ASSUME NEW i \in Items, SwapItem(s, b, i) PROVE RiskInv'
  <2> DEFINE seen == bookings[b]
             to == IF seen.status = "at_risk" THEN "confirmed" ELSE seen.status
             moves == [NoMoves EXCEPT ![b] = [Relabel(b, to, {}) EXCEPT !.toItem = i]]
  <2>1. to # "at_risk"
    OBVIOUS
  <2>2. Begin(s, moves, NoRow)
    BY <1>3 DEF SwapItem
  <2> HIDE DEF to
  <2>3. \A c \in Ids : moves[c].to # "at_risk"
    BY <2>1 DEF NoMoves, NoMove, Relabel
  <2> HIDE DEF moves
  <2> QED
    BY <1>1, <2>2, <2>3, BeginRisk
<1> QED
  BY <1>2, <1>3

\* A walk-in puts online bookings at risk, and the admin is told of each.
LEMMA WalkInRisk ==
  ASSUME TypeOK, RiskInv, NEW s \in Sessions, NEW i \in Items, NEW span \in Spans,
         NEW now \in BOOLEAN, WalkIn(s, i, span, now)
  PROVE  RiskInv'
<1> DEFINE row == NewRow("walk_in", IF now THEN "picked_up" ELSE "confirmed", i,
                         StyleOf[i], span, PrepDays, CleaningDays, 0)
           conflicts == Overlapping(row)
           moves == [c \in Ids |-> IF c \in conflicts THEN Displace(c) ELSE NoMove]
<1>1. row.status # "at_risk" /\ row # NoRow /\ row.kind = "walk_in"
  BY DEF NewRow, NoRow
<1>2. Begin(s, moves, row) /\ \A c \in conflicts : bookings[c].kind = "online"
  BY DEF WalkIn
<1> HIDE DEF row
<1>3. \A c \in Ids : moves[c].to = "at_risk" =>
         bookings[c].kind = "online" /\ "booking_at_risk_admin" \in moves[c].alert
  <2> HIDE DEF conflicts
  <2> QED
    BY <1>2 DEF Displace, Relabel, NoMove
<1> HIDE DEF moves
<1> QED
  BY <1>1, <1>2, <1>3, BeginRisk

\* A request and a block put nothing at risk.
LEMMA WebRisk == ASSUME TypeOK, RiskInv, NEW s \in Sessions, Web(s) PROVE RiskInv'
<1>1. ASSUME NEW style \in Styles, NEW span \in Spans, NEW status \in RequestStatuses,
             RequestDress(s, style, span, status)
      PROVE  RiskInv'
  <2> DEFINE row == NewRow("online", status, NoItem, style, span, PrepDays, CleaningDays,
                           today)
             free == FreeItems(row)
             w == [Idle EXCEPT !.phase = "locking", !.tries = 1,
                               !.free = free, !.insert = row]
  <2>1. tx' = [tx EXCEPT ![s] = w] /\ UNCHANGED bookings
    BY <1>1 DEF RequestDress
  <2>2. row.status # "at_risk"
    BY DEF NewRow
  <2> HIDE DEF row, free
  <2>3. w.insert = row /\ Moved(w) = {}
    BY DEF Idle, NoMoves, Moved
  <2> HIDE DEF w
  <2> QED
    BY <2>1, <2>2, <2>3, RiskReplaced DEF UnitRisk
<1>2. ASSUME NEW i \in Items, NEW span \in Spans, BlockItem(s, i, span) PROVE RiskInv'
  <2> DEFINE row == NewRow("block", "confirmed", i, StyleOf[i], span, 0, 0, 0)
  <2>1. row.status # "at_risk" /\ \A c \in Ids : NoMoves[c].to # "at_risk"
    BY DEF NewRow, NoMoves, NoMove
  <2>2. Begin(s, NoMoves, row)
    BY <1>2 DEF BlockItem
  <2> HIDE DEF row
  <2> QED
    BY <2>1, <2>2, BeginRisk
<1> QED
  BY <1>1, <1>2, StaffRisk, WalkInRisk DEF Web

\* Nor does a job.
LEMMA JobRisk ==
  ASSUME TypeOK, RiskInv, NEW s \in Sessions, NEW rows, NEW to, to # "at_risk", NEW alert,
         RunJob(s, rows, to, alert)
  PROVE  RiskInv'
<1> DEFINE moves == [b \in Ids |-> IF b \in rows THEN Relabel(b, to, alert) ELSE NoMove]
<1>1. NoRow.status # "at_risk" /\ \A c \in Ids : moves[c].to # "at_risk"
  BY DEF NoRow, NoMove, Relabel
<1>2. Begin(s, moves, NoRow)
  BY DEF RunJob
<1> HIDE DEF moves
<1> QED
  BY <1>1, <1>2, BeginRisk

\* A request that locks or goes round again inserts a row of the same status.
LEMMA RequestRisk ==
  ASSUME TypeOK, RiskInv, NEW s \in Sessions, LockItem(s) \/ NoAvailability(s) \/ Retry(s)
  PROVE  RiskInv'
<1>1. CASE LockItem(s)
  <2>1. PICK skipped \in SUBSET MayBeLocked(s) : \E i \in Lockable(s, skipped) :
          tx' = [tx EXCEPT ![s].phase = "writing", ![s].free = {},
                           ![s].holds = @ \cup {i}, ![s].insert.item = i]
    BY <1>1 DEF LockItem
  <2>2. PICK i \in Lockable(s, skipped) :
          tx' = [tx EXCEPT ![s].phase = "writing", ![s].free = {},
                           ![s].holds = @ \cup {i}, ![s].insert.item = i]
    BY <2>1
  <2>3. /\ tx[s] \in Tx /\ tx[s].insert \in Draft /\ UnitRisk(tx[s]) /\ UNCHANGED bookings
        /\ tx[s].insert # NoRow
    BY <1>1, UnitTyped DEF LockItem, UnitOK, Tx, RiskInv
  <2> DEFINE row == [tx[s].insert EXCEPT !.item = i]
             w == [tx[s] EXCEPT !.phase = "writing", !.free = {}, !.holds = @ \cup {i},
                                !.insert = row]
  <2>4. tx' = [tx EXCEPT ![s] = w]
    BY <2>2, ZenonT(60)
  <2>5. row.status = tx[s].insert.status /\ row.kind = tx[s].insert.kind /\ row # NoRow
    BY <2>3 DEF Draft, NoRow
  <2>6. w.insert = row /\ w.moves = tx[s].moves
    <3> HIDE DEF row
    <3> QED
      BY <2>3 DEF Tx
  <2> HIDE DEF w, row
  <2>7. UnitRisk(w)
    BY <2>3, <2>5, <2>6 DEF UnitRisk, Moved
  <2> QED
    BY <2>3, <2>4, <2>7, RiskReplaced
<1>2. CASE NoAvailability(s) \/ (Retry(s) /\ ~(tx[s].tries < MaxAttempts))
  <2>1. tx' = [tx EXCEPT ![s] = [Idle EXCEPT !.phase = "refused"]] /\ UNCHANGED bookings
    BY <1>2 DEF NoAvailability, Retry
  <2> QED
    BY <2>1, IdleRisk, RiskReplaced
<1>3. CASE Retry(s) /\ tx[s].tries < MaxAttempts
  <2> DEFINE free == FreeItems(tx[s].insert)
             row == [tx[s].insert EXCEPT !.item = NoItem]
             w == [tx[s] EXCEPT !.phase = "locking", !.tries = tx[s].tries + 1,
                                !.free = free, !.insert = row]
  <2>1. tx' = [tx EXCEPT ![s] = w] /\ UNCHANGED bookings
    BY <1>3 DEF Retry
  <2>2. /\ tx[s] \in Tx /\ tx[s].insert \in Draft /\ UnitRisk(tx[s])
        /\ tx[s].insert # NoRow
    BY <1>3, UnitTyped DEF Retry, UnitOK, Tx, RiskInv
  <2>3. row.status = tx[s].insert.status /\ row.kind = tx[s].insert.kind /\ row # NoRow
    BY <2>2 DEF Draft, NoRow
  <2>4. w.insert = row /\ w.moves = tx[s].moves
    <3> HIDE DEF row, free
    <3> QED
      BY <2>2 DEF Tx
  <2> HIDE DEF w, row, free
  <2>5. UnitRisk(w)
    BY <2>2, <2>3, <2>4 DEF UnitRisk, Moved
  <2> QED
    BY <2>1, <2>5, RiskReplaced
<1> QED
  BY <1>1, <1>2, <1>3

\* What a commit does to a stored booking: it keeps its kind, its alerts only
\* grow, and it is put at risk only by its unit of work, with the walk-in.
LEMMA CommitRisk ==
  ASSUME TypeOK, RiskInv, NEW s \in Sessions, Commit(s)
  PROVE  /\ RiskInv'
         /\ AtRiskIsKnown => AtRiskIsKnown'
         /\ \A b \in Ids : Changes(b) /\ bookings'[b].status = "at_risk" =>
              \E n \in Ids : Stored(n) /\ bookings'[n].kind = "walk_in"
<1> DEFINE w == tx[s]
<1>1. PICK n \in NewIds(w) :
        /\ bookings' = After(w, n)
        /\ alerts' = [b \in Ids |->
                        IF b = n
                        THEN IF w.insert.kind = "online" THEN {"new_request"} ELSE {}
                        ELSE IF b \in Moved(w)
                             THEN alerts[b] \cup w.moves[b].alert
                             ELSE alerts[b]]
  BY DEF Commit
<1>2. /\ UnitOK(w) /\ UnitRisk(w) /\ tx' = [tx EXCEPT ![s] = Idle]
      /\ w.moves \in [Ids -> Move \cup {NoMove}]
  BY UnitTyped DEF Commit, RiskInv, UnitOK, Tx
<1>3. /\ n \in Ids => n \in Unused /\ w.insert # NoRow
      /\ w.insert # NoRow => n \in Ids /\ n \in Unused
  BY DEF NewIds, Unused
<1>4. ASSUME NEW b \in Moved(w)
      PROVE  /\ bookings[b] \in Row /\ w.moves[b] \in Move
             /\ Apply(bookings[b], w.moves[b]).kind = bookings[b].kind
             /\ Apply(bookings[b], w.moves[b]).status \in
                    {bookings[b].status, w.moves[b].to}
  <2>1. bookings[b] \in Row /\ w.moves[b] \in Move
    BY <1>2, <1>4 DEF UnitOK, TypeOK, Moved
  <2> QED
    BY <2>1 DEF Apply, Row
<1>5. ASSUME NEW b \in Ids, bookings[b] # NoRow
      PROVE  /\ bookings'[b].kind = bookings[b].kind /\ b # n
             /\ alerts[b] \subseteq alerts'[b]
             /\ \/ bookings'[b].status = bookings[b].status
                \/ /\ b \in Moved(w) /\ bookings'[b].status = w.moves[b].to
                   /\ alerts'[b] = alerts[b] \cup w.moves[b].alert
  <2>1. b # n
    BY <1>3, <1>5 DEF Unused
  <2>2. bookings'[b] = IF b \in Moved(w) THEN Apply(bookings[b], w.moves[b]) ELSE bookings[b]
    BY <1>1, <2>1 DEF After
  <2>3. alerts'[b] = IF b \in Moved(w) THEN alerts[b] \cup w.moves[b].alert ELSE alerts[b]
    BY <1>1, <2>1
  <2> QED
    BY <1>4, <2>1, <2>2, <2>3
<1>6. ASSUME NEW b \in Ids, bookings[b] = NoRow
      PROVE  bookings'[b] = NoRow \/ bookings'[b] = w.insert
  <2>1. b \notin Moved(w)
    BY <1>2, <1>6 DEF UnitOK
  <2> QED
    BY <1>1, <1>6, <2>1 DEF After
<1>7. RiskInv'
  <2>1. tx'[s] = Idle /\ \A t \in Sessions \ {s} : tx'[t] = tx[t]
    BY <1>2 DEF TypeOK
  <2>2. Moved(Idle) = {} /\ Idle.insert.status # "at_risk"
    BY DEF Idle, NoMoves, NoRow, Moved
  <2>3. ASSUME NEW t \in Sessions \ {s} PROVE UnitRisk(tx[t])'
    <3>1. UnitRisk(tx[t]) /\ \A b \in Moved(tx[t]) : b \in Ids /\ bookings[b] # NoRow
      BY UnitTyped DEF RiskInv, UnitOK, Moved
    <3> QED
      BY <1>5, <2>1, <3>1 DEF UnitRisk, Moved
  <2>4. UnitRisk(tx[s])'
    BY <2>1, <2>2 DEF UnitRisk, Moved
  <2> QED
    BY <2>3, <2>4 DEF RiskInv
<1>8. AtRiskIsKnown => AtRiskIsKnown'
  <2> SUFFICES ASSUME AtRiskIsKnown, NEW b \in Ids, bookings'[b].status = "at_risk"
               PROVE  /\ bookings'[b].kind = "online"
                      /\ "booking_at_risk_admin" \in alerts'[b]
    BY DEF AtRiskIsKnown
  <2>1. bookings[b] # NoRow
    BY <1>2, <1>6 DEF UnitRisk, NoRow
  <2> QED
    BY <1>2, <1>5, <2>1 DEF AtRiskIsKnown, UnitRisk
<1>9. ASSUME NEW b \in Ids, Changes(b), bookings'[b].status = "at_risk"
      PROVE  \E k \in Ids : Stored(k) /\ bookings'[k].kind = "walk_in"
  <2>1. w.insert # NoRow /\ w.insert.kind = "walk_in"
    BY <1>2, <1>5, <1>9 DEF Changes, UnitRisk
  <2>2. n \in Ids /\ bookings[n] = NoRow /\ bookings'[n] = w.insert
    BY <1>1, <1>3, <2>1 DEF Unused, After
  <2> QED
    BY <2>1, <2>2 DEF Stored
<1> QED
  BY <1>7, <1>8, <1>9

\* Every step keeps RiskInv.
LEMMA RiskStep == ASSUME TypeOK, RiskInv, [Next]_vars PROVE RiskInv'
<1>1. ASSUME NEW s \in Sessions, Jobs(s) PROVE RiskInv'
  BY <1>1, JobRisk DEF Jobs, ExpireStaleRequests, MarkNoShows, MarkNotReturned
<1>2. ASSUME NEW s \in Sessions, Finish(s) \/ Abort(s) PROVE RiskInv'
  <2>1. CASE Reject(s) \/ Abort(s)
    BY <2>1, IdleRisk, RiskReplaced DEF Reject, Abort
  <2> QED
    BY <1>2, <2>1, RequestRisk, CommitRisk DEF Finish
<1>3. CASE Tick
  <2>1. ASSUME NEW s \in Sessions
        PROVE  tx'[s].moves = tx[s].moves /\ tx'[s].insert = tx[s].insert
    <3>1. tx[s] \in Tx /\ tx'[s] \in {tx[s], [tx[s] EXCEPT !.overnight = TRUE]}
      BY <1>3 DEF Tick, TypeOK
    <3> QED
      BY <3>1 DEF Tx
  <2> QED
    BY <1>3, <2>1 DEF Tick, RiskInv, UnitRisk, Moved
<1>4. ASSUME NEW i \in Items, NEW status \in ItemStates, SetItemStatus(i, status)
      PROVE  RiskInv'
  BY <1>4 DEF SetItemStatus, RiskInv, UnitRisk, Moved
<1>5. CASE UNCHANGED vars
  BY <1>5 DEF vars, RiskInv, UnitRisk, Moved
<1> QED
  BY <1>1, <1>2, <1>3, <1>4, <1>5, WebRisk DEF Next

\* The alerts change in Commit alone, too.
LEMMA OnlyCommitAlerts ==
  ASSUME Next PROVE UNCHANGED <<bookings, alerts>> \/ \E s \in Sessions : Commit(s)
<1>1. ASSUME NEW s \in Sessions, Web(s) PROVE UNCHANGED <<bookings, alerts>>
  BY <1>1 DEF Web, RequestDress, WalkIn, BlockItem, BookingAction, SwapItem, Begin
<1>2. ASSUME NEW s \in Sessions, Jobs(s) PROVE UNCHANGED <<bookings, alerts>>
  BY <1>2 DEF Jobs, ExpireStaleRequests, MarkNoShows, MarkNotReturned, RunJob, Begin
<1>3. ASSUME NEW s \in Sessions, Finish(s), ~Commit(s) PROVE UNCHANGED <<bookings, alerts>>
  BY <1>3 DEF Finish, LockItem, NoAvailability, Reject, Retry
<1>4. ASSUME NEW s \in Sessions, Abort(s) PROVE UNCHANGED <<bookings, alerts>>
  BY <1>4 DEF Abort
<1> QED
  BY <1>1, <1>2, <1>3, <1>4 DEF Next, SetItemStatus, Tick

\* Nothing is put at risk at the start.
LEMMA InitRisk == Init => RiskInv /\ AtRiskIsKnown
  BY IdleRisk DEF Init, RiskInv, AtRiskIsKnown, UnitRisk, NoRow, Moved

\* RiskInv holds in every reachable state.
LEMMA RiskInvariant == Spec => []RiskInv
<1>1. Init => RiskInv
  BY InitRisk
<1>2. TypeOK /\ RiskInv /\ [Next]_vars => RiskInv'
  BY RiskStep
<1> QED
  BY <1>1, <1>2, TypeCorrect, PTL DEF Spec

\* Only customers who reserved online are put at risk, and the admin has been
\* told of every one of them (create_staff_booking).
THEOREM RiskIsKnown == Spec => []AtRiskIsKnown
<1>1. Init => AtRiskIsKnown
  BY InitRisk
<1>2. TypeOK /\ RiskInv /\ AtRiskIsKnown /\ [Next]_vars => AtRiskIsKnown'
  <2> SUFFICES ASSUME TypeOK, RiskInv, AtRiskIsKnown, [Next]_vars PROVE AtRiskIsKnown'
    OBVIOUS
  <2>1. CASE UNCHANGED <<bookings, alerts>>
    BY <2>1 DEF AtRiskIsKnown
  <2> QED
    BY <2>1, CommitRisk, OnlyCommitAlerts DEF vars
<1> QED
  BY <1>1, <1>2, TypeCorrect, RiskInvariant, PTL DEF Spec

\* No booking is put at risk by an override that is then refused: the walk-in it
\* gives way to is stored in the same step (create_walk_in).
THEOREM NeverDisplacedAlone == Spec => DisplacedOnlyTogether
<1>1. TypeOK /\ RiskInv /\ [Next]_vars =>
        [\A b \in Ids : Changes(b) /\ bookings'[b].status = "at_risk" =>
           \E n \in Ids : Stored(n) /\ bookings'[n].kind = "walk_in"]_vars
  <2> SUFFICES ASSUME TypeOK, RiskInv, Next, NEW b \in Ids, Changes(b),
                      bookings'[b].status = "at_risk"
               PROVE  \E n \in Ids : Stored(n) /\ bookings'[n].kind = "walk_in"
    OBVIOUS
  <2>1. PICK s \in Sessions : Commit(s)
    BY OnlyCommitWrites DEF Changes
  <2> QED
    BY <2>1, CommitRisk
<1> QED
  BY <1>1, TypeCorrect, RiskInvariant, PTL DEF Spec, DisplacedOnlyTogether

------------------------------------------------------------------------------
(* What one unit of work may do to the calendar.                           *)

\* A unit of work takes at most one item: it changes a single booking, or all
\* the bookings it changes give up what they hold.
Gives(w) ==
  \A b \in Moved(w) : w.moves[b].to \notin ACTIVE_STATUSES
                      /\ w.moves[b].to # w.moves[b].from

Single(w) == w.insert = NoRow /\ \A b, c \in Moved(w) : b = c

OneTaker == \A s \in Sessions : Gives(tx[s]) \/ Single(tx[s])

\* Replacing one unit of work keeps OneTaker if the new one gives or takes once.
LEMMA TakerReplaced ==
  ASSUME TypeOK, OneTaker, NEW s \in Sessions, NEW w, Gives(w) \/ Single(w),
         tx' = [tx EXCEPT ![s] = w]
  PROVE  OneTaker'
<1>1. tx'[s] = w /\ \A t \in Sessions \ {s} : tx'[t] = tx[t]
  BY DEF TypeOK
<1>2. \A t \in Sessions : Gives(tx'[t]) \/ Single(tx'[t])
  BY <1>1 DEF OneTaker
<1> QED
  BY <1>2 DEF OneTaker, Gives, Single, Moved

\* A handler whose moves give up dresses, with at most one row to insert.
LEMMA BeginTakes ==
  ASSUME TypeOK, OneTaker, NEW s \in Sessions, NEW insert \in Row \cup {NoRow},
         NEW moves \in [Ids -> Move \cup {NoMove}], Begin(s, moves, insert),
         \/ \A b \in Ids : moves[b] # NoMove =>
              moves[b].to \notin ACTIVE_STATUSES /\ moves[b].to # moves[b].from
         \/ /\ insert = NoRow
            /\ \A b, c \in Ids : moves[b] # NoMove /\ moves[c] # NoMove => b = c
  PROVE  OneTaker'
<1> DEFINE w == [Idle EXCEPT !.phase = "writing", !.moves = moves, !.insert = insert]
<1>1. w.moves = moves /\ w.insert = insert
  BY DEF Idle
<1>2. tx' = [tx EXCEPT ![s] = w]
  BY DEF Begin
<1>3. Gives(w) \/ Single(w)
  <2> HIDE DEF w
  <2> QED
    BY <1>1 DEF Gives, Single, Moved
<1> QED
  <2> HIDE DEF w
  <2> QED
    BY <1>2, <1>3, TakerReplaced

------------------------------------------------------------------------------
(* From the table to the calendar.                                         *)

\* What a booking holds, when it holds something, is what its row says.
LEMMA Held ==
  ASSUME TypeOK', NEW b \in Ids, Holding'[b] # Calendar!Nothing
  PROVE  /\ Active(bookings'[b])
         /\ Holding'[b].item = bookings'[b].item
         /\ Holding'[b].first = First(bookings'[b])
         /\ Holding'[b].last = Last(bookings'[b])
<1>1. Active(bookings'[b])
  BY DEF Holding, Active, Calendar!Nothing, NoItem
<1> QED
  BY <1>1 DEF Holding, Active, First, Last

\* What an active row holds is a claim of the abstract calendar.
LEMMA Claimed ==
  ASSUME TypeOK', NEW b \in Ids, Active(bookings'[b])
  PROVE  Holding'[b] \in Calendar!Claim /\ Holding'[b] # Calendar!Nothing
<1>1. bookings'[b] \in Row
  BY DEF Active, ACTIVE_STATUSES, TypeOK, NoRow
<1>2. Holding'[b] = [item |-> bookings'[b].item, first |-> First(bookings'[b]),
                     last |-> Last(bookings'[b])]
  BY DEF Holding, Active, First, Last
<1>3. /\ bookings'[b].item \in Items /\ First(bookings'[b]) \in Int
      /\ Last(bookings'[b]) \in Int
  BY <1>1 DEF Row, First, Last
<1>4. Holding'[b] \in Calendar!Claim
  <2> DEFINE i == bookings'[b].item
             f == First(bookings'[b])
             l == Last(bookings'[b])
  <2>1. Holding'[b] = [item |-> i, first |-> f, last |-> l]
    BY <1>2
  <2>2. i \in Items /\ f \in Int /\ l \in Int
    BY <1>3
  <2> HIDE DEF i, f, l
  <2> QED
    BY <2>1, <2>2 DEF Calendar!Claim
<1>5. Holding'[b].item # 0 /\ Calendar!Nothing.item = 0
  <2>1. Holding'[b].item = bookings'[b].item
    BY <1>2
  <2>2. bookings'[b].item # 0
    BY <1>3
  <2> QED
    BY <2>1, <2>2 DEF Calendar!Nothing
<1> QED
  BY <1>4, <1>5

\* Who holds what is a function of the bookings table.
LEMMA HoldingKept ==
  ASSUME UNCHANGED bookings PROVE UNCHANGED Holding
  BY DEF Holding, Active, First, Last

\* A booking that did not change holds what it held.
LEMMA HeldSame ==
  ASSUME NEW b \in Ids, bookings'[b] = bookings[b] PROVE Holding'[b] = Holding[b]
  BY DEF Holding, Active, First, Last

\* When every booking that changed holds nothing afterwards, the calendar saw a
\* release.
LEMMA Released ==
  ASSUME TypeOK', NEW S \in SUBSET Ids,
         \A b \in S : ~Active(bookings'[b]),
         \A b \in Ids \ S : Holding'[b] = Holding[b]
  PROVE  Calendar!Next
<1>1. \A b \in S : Holding'[b] = Calendar!Nothing
  BY DEF Holding, Active, Calendar!Nothing, NoItem
<1>2. Holding' = [b \in Ids |-> IF b \in S THEN Calendar!Nothing ELSE Holding[b]]
  BY <1>1 DEF Holding
<1>3. Calendar!Release(S)
  BY <1>2 DEF Calendar!Release
<1> QED
  BY <1>3 DEF Calendar!Next

\* When one booking that passed the exclusion constraint took an item and the
\* others that changed hold nothing, the calendar saw that booking take it.
LEMMA Taken ==
  ASSUME TypeOK', NEW b \in Ids, NEW S \in SUBSET (Ids \ {b}),
         Active(bookings'[b]), NotExcluded(bookings', b),
         \A o \in S : ~Active(bookings'[o]),
         \A o \in Ids \ (S \cup {b}) : bookings'[o] = bookings[o]
  PROVE  Calendar!Next
<1> DEFINE cleared == [o \in Ids |-> IF o \in S THEN Calendar!Nothing ELSE Holding[o]]
<1>1. \A o \in S : Holding'[o] = Calendar!Nothing
  BY DEF Holding, Active, Calendar!Nothing, NoItem
<1>2. \A o \in Ids \ {b} : cleared[o] = Holding'[o]
  BY <1>1, HeldSame
<1>3. Holding' = [cleared EXCEPT ![b] = Holding'[b]]
  BY <1>2 DEF Holding
<1>4. Holding'[b] \in Calendar!Claim /\ Holding'[b] # Calendar!Nothing
  BY Claimed
<1>5. ASSUME NEW o \in Ids \ {b}, cleared[o] # Calendar!Nothing
      PROVE  ~Calendar!Meets(Holding'[b], cleared[o])
  <2>1. cleared[o] = Holding'[o] /\ Holding'[o] # Calendar!Nothing
    BY <1>2, <1>5
  <2>2. /\ Active(bookings'[o])
        /\ Holding'[o].item = bookings'[o].item
        /\ Holding'[o].first = First(bookings'[o])
        /\ Holding'[o].last = Last(bookings'[o])
    BY <2>1, Held
  <2>3. /\ Holding'[b].item = bookings'[b].item
        /\ Holding'[b].first = First(bookings'[b])
        /\ Holding'[b].last = Last(bookings'[b])
    BY <1>4, Held
  <2>4. ~Clash(bookings'[b], bookings'[o])
    BY <2>2 DEF NotExcluded
  <2> QED
    BY <2>1, <2>2, <2>3, <2>4 DEF Calendar!Meets, Clash
<1>6. Calendar!Free(cleared, b, Holding'[b])
  BY <1>5 DEF Calendar!Free
<1>7. Calendar!Take(b, S)
  BY <1>3, <1>4, <1>6 DEF Calendar!Take
<1> QED
  BY <1>7 DEF Calendar!Next

------------------------------------------------------------------------------
(* Commit, and every other step.                                           *)

\* A commit is a Release or a Take of the abstract calendar.
LEMMA CommitImplements ==
  ASSUME TypeOK, TypeOK', OneTaker, NEW s \in Sessions, Commit(s)
  PROVE  Calendar!Next
<1> DEFINE w == tx[s]
<1>1. PICK n \in NewIds(w) :
        /\ bookings' = After(w, n)
        /\ \A b \in Touched(w, n) : NotExcluded(bookings', b)
        /\ \A b \in Ids \ Touched(w, n) : bookings'[b] = bookings[b]
  BY CommitChecked
<1>2. UnitOK(w) /\ w.phase = "writing"
  BY UnitTyped DEF Commit
<1>3. n \notin Moved(w) /\ (n \in Ids => bookings[n] = NoRow /\ w.insert # NoRow)
  <2>1. \A b \in Moved(w) : b \in Ids /\ bookings[b] # NoRow
    BY <1>2 DEF UnitOK, Moved
  <2>2. n \in Ids => bookings[n] = NoRow /\ w.insert # NoRow
    BY <1>1 DEF NewIds, Unused
  <2> QED
    BY <2>1, <2>2
<1>4. Moved(w) \in SUBSET Ids /\ Touched(w, n) = Moved(w) \cup {b \in Ids : b = n}
  BY DEF Moved, Touched
<1>5. CASE Gives(w)
  <2>1. ASSUME NEW b \in Moved(w) PROVE ~Active(bookings'[b])
    <3>1. bookings'[b] = Apply(bookings[b], w.moves[b])
      BY <1>1, <1>3, <1>4 DEF After
    <3>2. bookings[b] \in Row
      BY <1>2 DEF UnitOK, TypeOK, Moved
    <3>3. bookings'[b].status = w.moves[b].to
      BY <1>5, <3>1, <3>2 DEF Apply, Row, Gives
    <3> QED
      BY <1>5, <3>3 DEF Gives, Active
  <2>2. CASE n \in Ids /\ Active(bookings'[n])
    <3>1. /\ Moved(w) \in SUBSET (Ids \ {n}) /\ NotExcluded(bookings', n)
          /\ \A o \in Ids \ (Moved(w) \cup {n}) : bookings'[o] = bookings[o]
      BY <1>1, <1>3, <1>4, <2>2
    <3> QED
      BY <2>1, <2>2, <3>1, Taken
  <2>3. CASE ~(n \in Ids /\ Active(bookings'[n]))
    <3>1. ASSUME NEW b \in Ids \ Moved(w) PROVE Holding'[b] = Holding[b]
      <4>1. CASE b = n
        <5>1. ~Active(bookings[b]) /\ ~Active(bookings'[b])
          BY <1>3, <2>3, <4>1 DEF Active, NoRow, ACTIVE_STATUSES
        <5> QED
          BY <5>1 DEF Holding, Active
      <4>2. CASE b # n
        BY <1>1, <1>4, <3>1, <4>2, HeldSame
      <4> QED
        BY <4>1, <4>2
    <3> QED
      BY <1>4, <2>1, <3>1, Released
  <2> QED
    BY <2>2, <2>3
<1>6. CASE Single(w)
  <2>1. n \notin Ids
    BY <1>3, <1>6 DEF Single
  <2>2. CASE \E b \in Moved(w) : Active(bookings'[b])
    <3>1. PICK b \in Moved(w) : Active(bookings'[b])
      BY <2>2
    <3>2. /\ NotExcluded(bookings', b) /\ b \in Ids
          /\ \A o \in Ids \ ({} \cup {b}) : bookings'[o] = bookings[o]
      BY <1>1, <1>4, <1>6, <2>1 DEF Single
    <3>3. {} \in SUBSET (Ids \ {b})
      OBVIOUS
    <3> QED
      BY <3>1, <3>2, <3>3, Taken
  <2>3. CASE \A b \in Moved(w) : ~Active(bookings'[b])
    <3>1. \A b \in Ids \ Moved(w) : Holding'[b] = Holding[b]
      BY <1>1, <1>4, <2>1, HeldSame
    <3> QED
      BY <1>4, <2>3, <3>1, Released
  <2> QED
    BY <2>2, <2>3
<1> QED
  BY <1>5, <1>6 DEF OneTaker

\* Every step of a handler, a job or the clock keeps the units of work to one
\* taker each.
LEMMA TakerStep ==
  ASSUME TypeOK, LockInv, OneTaker, [Next]_vars PROVE OneTaker'
<1>1. ASSUME NEW s \in Sessions, Web(s) PROVE OneTaker'
  <2>1. ASSUME NEW style \in Styles, NEW span \in Spans, NEW status \in RequestStatuses,
               RequestDress(s, style, span, status)
        PROVE  OneTaker'
    <3> DEFINE row == NewRow("online", status, NoItem, style, span, PrepDays,
                             CleaningDays, today)
               free == FreeItems(row)
               w == [Idle EXCEPT !.phase = "locking", !.tries = 1,
                                 !.free = free, !.insert = row]
    <3>1. tx' = [tx EXCEPT ![s] = w]
      BY <2>1 DEF RequestDress
    <3>2. w.moves = NoMoves
      <4> HIDE DEF row, free
      <4> QED
        BY DEF Idle
    <3> HIDE DEF w
    <3>3. Gives(w)
      BY <3>2, NoMovesTyped DEF Gives, Moved
    <3> QED
      BY <3>1, <3>3, TakerReplaced
  <2>2. ASSUME NEW i \in Items, NEW span \in Spans, NEW now \in BOOLEAN,
               WalkIn(s, i, span, now)
        PROVE  OneTaker'
    <3> DEFINE row == NewRow("walk_in", IF now THEN "picked_up" ELSE "confirmed", i,
                             StyleOf[i], span, PrepDays, CleaningDays, 0)
               conflicts == Overlapping(row)
               moves == [c \in Ids |-> IF c \in conflicts THEN Displace(c) ELSE NoMove]
    <3>1. row \in Row
      BY <2>2 DEF NewRow, Row, Kinds, Statuses, Styles
    <3>2. Begin(s, moves, row) /\ \A c \in conflicts : bookings[c].status \in OVERRIDABLE
      BY <2>2 DEF WalkIn
    <3>3. \A c \in conflicts : c \in Ids /\ bookings[c] \in Row
      BY DEF Overlapping, Active, ACTIVE_STATUSES, TypeOK, NoRow
    <3> HIDE DEF conflicts, row
    <3>4. ASSUME NEW c \in conflicts
          PROVE  /\ Displace(c) \in Move
                 /\ Displace(c).to \notin ACTIVE_STATUSES
                 /\ Displace(c).to # Displace(c).from
      BY <3>2, <3>3, <3>4
         DEF Displace, Relabel, Move, Row, Statuses, Alerts, ACTIVE_STATUSES, OVERRIDABLE
    <3>5. /\ moves \in [Ids -> Move \cup {NoMove}]
          /\ \A c \in Ids : moves[c] # NoMove =>
               moves[c].to \notin ACTIVE_STATUSES /\ moves[c].to # moves[c].from
      BY <3>4
    <3> QED
      BY <3>1, <3>2, <3>5, BeginTakes
  <2>3. ASSUME NEW i \in Items, NEW span \in Spans, BlockItem(s, i, span) PROVE OneTaker'
    <3> DEFINE row == NewRow("block", "confirmed", i, StyleOf[i], span, 0, 0, 0)
    <3>1. row \in Row /\ Begin(s, NoMoves, row)
      BY <2>3 DEF NewRow, Row, Kinds, Statuses, Styles, BlockItem
    <3> QED
      BY <3>1, NoMovesTyped, BeginTakes
  <2>4. ASSUME NEW b \in Ids, NEW move \in Move,
               Begin(s, [NoMoves EXCEPT ![b] = move], NoRow)
        PROVE  OneTaker'
    <3> DEFINE moves == [NoMoves EXCEPT ![b] = move]
    <3>1. /\ moves \in [Ids -> Move \cup {NoMove}]
          /\ \A c \in Ids : moves[c] # NoMove => c = b
      BY NoMovesTyped DEF NoMoves
    <3> QED
      BY <2>4, <3>1, BeginTakes
  <2>5. ASSUME NEW b \in Ids, NEW to \in StaffTargets, BookingAction(s, b, to)
        PROVE  OneTaker'
    <3>1. Relabel(b, to, {}) \in Move
      BY <2>5, RelabelTyped DEF BookingAction, TypeOK, StaffTargets, Statuses
    <3> QED
      BY <2>4, <2>5, <3>1 DEF BookingAction
  <2>6. ASSUME NEW b \in Ids, NEW i \in Items, SwapItem(s, b, i) PROVE OneTaker'
    <3> DEFINE to == IF bookings[b].status = "at_risk" THEN "confirmed"
                     ELSE bookings[b].status
               move == [Relabel(b, to, {}) EXCEPT !.toItem = i]
    <3>1. bookings[b] \in Row
      BY <2>6 DEF TypeOK, SwapItem, SWAPPABLE, NoRow
    <3>2. to \in Statuses
      BY <3>1 DEF Row, Statuses
    <3>3. move \in Move
      <4> HIDE DEF to
      <4>1. Relabel(b, to, {}) \in Move
        BY <3>1, <3>2, RelabelTyped
      <4> QED
        BY <4>1 DEF Move
    <3>4. Begin(s, [NoMoves EXCEPT ![b] = move], NoRow)
      BY <2>6 DEF SwapItem
    <3> QED
      BY <2>4, <3>3, <3>4
  <2> QED
    BY <1>1, <2>1, <2>2, <2>3, <2>5, <2>6 DEF Web
<1>2. ASSUME NEW s \in Sessions, NEW rows \in SUBSET Ids, NEW src \in Statuses,
             NEW to \in Statuses \ ACTIVE_STATUSES, NEW alert \in SUBSET Alerts,
             src # to, \A b \in rows : bookings[b].status = src, RunJob(s, rows, to, alert)
      PROVE  OneTaker'
  <2> DEFINE moves == [b \in Ids |-> IF b \in rows THEN Relabel(b, to, alert) ELSE NoMove]
  <2>1. ASSUME NEW b \in rows
        PROVE  /\ Relabel(b, to, alert) \in Move
               /\ Relabel(b, to, alert).to = to /\ Relabel(b, to, alert).from = src
    <3>1. bookings[b] \in Row
      BY <1>2 DEF TypeOK, NoRow, Statuses
    <3> QED
      BY <1>2, <3>1, RelabelTyped DEF Relabel
  <2>2. /\ moves \in [Ids -> Move \cup {NoMove}]
        /\ \A b \in Ids : moves[b] # NoMove =>
             moves[b].to \notin ACTIVE_STATUSES /\ moves[b].to # moves[b].from
    BY <1>2, <2>1
  <2>3. Begin(s, moves, NoRow)
    BY <1>2 DEF RunJob
  <2> QED
    BY <2>2, <2>3, BeginTakes
<1>3. ASSUME NEW s \in Sessions, Jobs(s) PROVE OneTaker'
  <2>1. /\ {"request_expired_admin"} \in SUBSET Alerts /\ {} \in SUBSET Alerts
        /\ {"cancelled_by_shop", "no_show", "not_returned"} \subseteq
             Statuses \ ACTIVE_STATUSES
        /\ {"pending_shop", "confirmed", "picked_up"} \subseteq Statuses
    BY DEF Alerts, Statuses, ACTIVE_STATUSES
  <2>2. CASE ExpireStaleRequests(s)
    <3>1. /\ StaleRequests \in SUBSET Ids
          /\ \A b \in StaleRequests : bookings[b].status = "pending_shop"
      BY DEF StaleRequests
    <3>2. RunJob(s, StaleRequests, "cancelled_by_shop", {"request_expired_admin"})
      BY <2>2 DEF ExpireStaleRequests
    <3> QED
      BY <1>2, <2>1, <3>1, <3>2
  <2>3. CASE MarkNoShows(s)
    <3>1. /\ MissedPickups \in SUBSET Ids
          /\ \A b \in MissedPickups : bookings[b].status = "confirmed"
      BY DEF MissedPickups
    <3>2. RunJob(s, MissedPickups, "no_show", {})
      BY <2>3 DEF MarkNoShows
    <3> QED
      BY <1>2, <2>1, <3>1, <3>2
  <2>4. CASE MarkNotReturned(s)
    <3>1. /\ Overdue \in SUBSET Ids
          /\ \A b \in Overdue : bookings[b].status = "picked_up"
      BY DEF Overdue
    <3>2. RunJob(s, Overdue, "not_returned", {})
      BY <2>4 DEF MarkNotReturned
    <3> QED
      BY <1>2, <2>1, <3>1, <3>2
  <2> QED
    BY <1>3, <2>2, <2>3, <2>4 DEF Jobs
<1>4. ASSUME NEW s \in Sessions, NEW w, w.moves = NoMoves, tx' = [tx EXCEPT ![s] = w]
      PROVE  OneTaker'
  <2>1. Gives(w)
    BY <1>4, NoMovesTyped DEF Gives, Moved
  <2> QED
    BY <1>4, <2>1, TakerReplaced
<1>5. ASSUME NEW s \in Sessions, Finish(s) \/ Abort(s) PROVE OneTaker'
  <2>1. Idle.moves = NoMoves /\ [Idle EXCEPT !.phase = "refused"].moves = NoMoves
    BY DEF Idle
  <2>2. CASE Commit(s) \/ Reject(s) \/ Abort(s)
    BY <1>4, <2>1, <2>2 DEF Commit, Reject, Abort
  <2>3. CASE NoAvailability(s)
    BY <1>4, <2>1, <2>3 DEF NoAvailability
  <2>4. CASE LockItem(s) \/ Retry(s)
    <3>1. Gives(tx[s]) /\ tx[s] \in Tx
      BY <2>4, UnitTyped DEF LockItem, Retry, UnitOK, LockInv, Gives
    <3>2. \/ tx'[s].moves = tx[s].moves
          \/ tx'[s].moves = NoMoves
      <4>1. CASE LockItem(s)
        <5>1. \E i : tx' = [tx EXCEPT ![s].phase = "writing", ![s].free = {},
                                      ![s].holds = @ \cup {i}, ![s].insert.item = i]
          BY <4>1 DEF LockItem
        <5> QED
          BY <3>1, <5>1 DEF TypeOK, Tx
      <4>2. CASE Retry(s)
        <5> DEFINE free == FreeItems(tx[s].insert)
                   again == [tx[s] EXCEPT !.phase = "locking", !.tries = tx[s].tries + 1,
                               !.free = free, !.insert.item = NoItem]
                   given == [Idle EXCEPT !.phase = "refused"]
        <5>1. tx' = [tx EXCEPT ![s] = IF tx[s].tries < MaxAttempts THEN again ELSE given]
          BY <4>2 DEF Retry
        <5>2. again.moves = tx[s].moves
          <6> HIDE DEF free
          <6> QED
            BY <3>1 DEF Tx
        <5> HIDE DEF again, given
        <5>3. tx'[s] \in {again, given}
          BY <5>1 DEF TypeOK
        <5> QED
          BY <2>1, <5>2, <5>3 DEF given
      <4> QED
        BY <2>4, <4>1, <4>2
    <3>3. ASSUME NEW t \in Sessions \ {s} PROVE tx'[t] = tx[t]
      <4>1. CASE LockItem(s)
        <5>1. \E i : tx' = [tx EXCEPT ![s].phase = "writing", ![s].free = {},
                                      ![s].holds = @ \cup {i}, ![s].insert.item = i]
          BY <4>1 DEF LockItem
        <5> QED
          BY <5>1 DEF TypeOK
      <4>2. CASE Retry(s)
        BY <4>2 DEF Retry, TypeOK
      <4> QED
        BY <2>4, <4>1, <4>2
    <3>4. Gives(tx'[s])
      BY <3>1, <3>2, NoMovesTyped DEF Gives, Moved
    <3>5. \A t \in Sessions : Gives(tx'[t]) \/ Single(tx'[t])
      BY <3>3, <3>4 DEF OneTaker
    <3> QED
      BY <3>5 DEF OneTaker, Gives, Single, Moved
  <2> QED
    BY <1>5, <2>2, <2>3, <2>4 DEF Finish
<1>6. CASE Tick
  <2>1. ASSUME NEW s \in Sessions
        PROVE  tx'[s].moves = tx[s].moves /\ tx'[s].insert = tx[s].insert
    <3>1. tx[s] \in Tx /\ tx'[s] \in {tx[s], [tx[s] EXCEPT !.overnight = TRUE]}
      BY <1>6 DEF Tick, TypeOK
    <3> QED
      BY <3>1 DEF Tx
  <2> QED
    BY <2>1 DEF OneTaker, Gives, Single, Moved
<1>7. ASSUME NEW i \in Items, NEW status \in ItemStates, SetItemStatus(i, status)
      PROVE  OneTaker'
  BY <1>7 DEF SetItemStatus, OneTaker, Gives, Single, Moved
<1>8. CASE UNCHANGED vars
  BY <1>8 DEF vars, OneTaker, Gives, Single, Moved
<1> QED
  BY <1>1, <1>3, <1>5, <1>6, <1>7, <1>8 DEF Next

\* Every other step leaves the calendar as it is.
LEMMA StepImplements ==
  ASSUME TypeOK, TypeOK', OneTaker, [Next]_vars PROVE [Calendar!Next]_Holding
<1>1. CASE UNCHANGED bookings
  BY <1>1, HoldingKept
<1>2. ASSUME NEW s \in Sessions, Commit(s) PROVE Calendar!Next
  BY <1>2, CommitImplements
<1> QED
  BY <1>1, <1>2, OnlyCommitWrites DEF vars

\* Whatever handlers, jobs and the clock do, the dresses see a calendar in which
\* each step releases some bookings or grants one that fits beside the others.
THEOREM EngineImplementsCalendar == Spec => ImplementsCalendar
<1>1. Init => Calendar!Init
  BY DEF Init, Calendar!Init, Holding, Active, ACTIVE_STATUSES, NoRow, NoItem,
         Calendar!Nothing
<1>2. Init => TypeOK /\ LockInv /\ OneTaker
  <2>1. ASSUME Init PROVE OneTaker
    BY <2>1, IdleTyped DEF Init, OneTaker, Gives
  <2> QED
    BY <2>1, InitTyped, InitLocks
<1>3. TypeOK /\ LockInv /\ OneTaker /\ [Next]_vars
        => TypeOK' /\ LockInv' /\ OneTaker' /\ [Calendar!Next]_Holding
  BY TypeStep, LockStep, TakerStep, StepImplements
<1> QED
  BY <1>1, <1>2, <1>3, PTL DEF Spec, ImplementsCalendar, Calendar!Spec
==============================================================================
