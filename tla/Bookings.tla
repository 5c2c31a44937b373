------------------------------ MODULE Bookings ------------------------------
(***************************************************************************)
(* The booking engine: the bookings of one shop, the transactions of the   *)
(* web handlers and of the background jobs, and the calendar day.          *)
(*                                                                         *)
(* A handler runs in one READ COMMITTED transaction: it reads rows, decides*)
(* on what it read, and writes and commits later.  Between the two, other  *)
(* sessions commit.  So every operation is two steps: one that reads the   *)
(* committed tables and leaves a unit of work in tx[s], and Commit(s),     *)
(* which writes it.  The ORM writes only the columns the handler changed,  *)
(* by primary key and with no version check, so a unit of work decided on  *)
(* a stale row still lands.                                                *)
(***************************************************************************)
EXTENDS BookingStates, Integers, FiniteSets

CONSTANTS
  Ids,              \* the rows the bookings table may come to hold (a bound)
  Items,            \* the shop's dresses, by primary key
  StyleOf,          \* the style, in one size, each of them is a copy of
  Spans,            \* the <<pickup, return>> pairs people ask for (a bound)
  WebSessions,      \* request handlers that may run at once
  JobSessions,      \* scheduler or cron workers that may run at once
  PrepDays, CleaningDays,
  RequestStatuses,  \* what a request is stored as: the booking modes in use
  ItemStates,       \* the item statuses staff use
  SlaDays,          \* request_sla_hours, in days
  MaxAttempts,      \* max_attempts of create_request
  Horizon,          \* the last day of the model (a bound)
  LastBookingDay    \* the last day a booking is entered (a bound)

NO_SHOW_GRACE_DAYS == 1
NOT_RETURNED_GRACE_DAYS == 3

Sessions == WebSessions \cup JobSessions
Styles == {StyleOf[i] : i \in Items}

NoItem == 0
NoId == 0
NoRow == [status |-> "unused"]

ASSUME ItemsAssumption == Items \subseteq Nat \ {0}
ASSUME IdsAssumption == NoId \notin Ids
ASSUME SpansAssumption == Spans \subseteq Int \X Int
ASSUME GapsAssumption == PrepDays \in Nat /\ CleaningDays \in Nat
ASSUME DaysAssumption == SlaDays \in Nat /\ Horizon \in Nat /\ LastBookingDay \in Nat
ASSUME AttemptsAssumption == MaxAttempts \in Nat \ {0}
ASSUME RequestAssumption == RequestStatuses \subseteq {"pending_shop", "confirmed"}

VARIABLES
  bookings,   \* the bookings table, committed
  event,      \* the newest timeline event of each booking
  alerts,     \* the notification templates queued about each booking
  items,      \* the status of each item
  today,
  tx          \* the unit of work of each session

vars == <<bookings, event, alerts, items, today, tx>>

------------------------------------------------------------------------------
(* Rows, and what a unit of work holds.                                    *)

Row == [kind : Kinds, status : Statuses, item : Items, style : Styles,
        pickup : Int, return : Int, prep : Nat, cleaning : Nat, created : Nat]

\* A request's row before the loop has picked an item for it.
Draft == [kind : Kinds, status : Statuses, item : Items \cup {NoItem}, style : Styles,
          pickup : Int, return : Int, prep : Nat, cleaning : Nat, created : Nat]

Event == [from : Statuses \cup {"none"}, to : Statuses]
NoEvent == [from |-> "none", to |-> "none"]

Alerts == {"new_request", "booking_at_risk_admin", "request_expired_admin"}

\* One UPDATE with its event: what the handler saw, and what it makes of it.
Move == [from : Statuses, to : Statuses, fromItem : Items, toItem : Items,
         alert : SUBSET Alerts]

NoMove == [to |-> "none"]
NoMoves == [b \in Ids |-> NoMove]
Moved(w) == {b \in Ids : w.moves[b] # NoMove}

Idle == [phase |-> "idle", free |-> {}, holds |-> {}, tries |-> 0,
         moves |-> NoMoves, insert |-> NoRow, overnight |-> FALSE]

\* blocked_range, the computed column.
First(r) == r.pickup - r.prep
Last(r) == r.return + r.cleaning

Active(r) == r.status \in ACTIVE_STATUSES

Clash(r, q) == /\ r.item = q.item
               /\ First(r) <= Last(q)
               /\ First(q) <= Last(r)

\* Mutant of Overlapping: any active booking of the item is taken for a conflict.
OverlappingAnyDay(r) ==
  {b \in Ids : Active(bookings[b]) /\ bookings[b].item = r.item}

\* overlapping_bookings: the active bookings in the way of row r.
Overlapping(r) == {b \in Ids : Active(bookings[b]) /\ Clash(bookings[b], r)}

\* free_items_stmt, for the dates and the style of row r.
FreeItems(r) == {i \in Items : /\ items[i] = "active"
                               /\ StyleOf[i] = r.style
                               /\ Overlapping([r EXCEPT !.item = i]) = {}}

Unused == {b \in Ids : bookings[b] = NoRow}

NewRow(kind, status, i, style, span, prep, cleaning, created) ==
  [kind |-> kind, status |-> status, item |-> i, style |-> style,
   pickup |-> span[1], return |-> span[2], prep |-> prep, cleaning |-> cleaning,
   created |-> created]

------------------------------------------------------------------------------
(* A session at rest reads the tables and decides.                         *)

Ready(s) == tx[s].phase \in {"idle", "refused"}

\* The bound on the table leaves a row for every insert under way.
Room == /\ today <= LastBookingDay
        /\ Cardinality({s \in Sessions : tx[s].insert # NoRow}) < Cardinality(Unused)

Begin(s, moves, insert) ==
  /\ Ready(s)
  /\ tx' = [tx EXCEPT ![s] = [Idle EXCEPT !.phase = "writing", !.moves = moves,
                                          !.insert = insert]]
  /\ UNCHANGED <<bookings, event, alerts, items, today>>

Relabel(b, to, alert) ==
  [from |-> bookings[b].status, to |-> to, fromItem |-> bookings[b].item,
   toItem |-> bookings[b].item, alert |-> alert]

\* Mutant of BookingAction: the button is not checked against TRANSITIONS.
UncheckedAction(s, b, to) ==
  /\ s \in WebSessions
  /\ bookings[b] # NoRow
  /\ bookings[b].status # to
  /\ Begin(s, [NoMoves EXCEPT ![b] = Relabel(b, to, {})], NoRow)

\* accept, decline, cancel, picked-up, no-show, returned: one button, one target.
BookingAction(s, b, to) ==
  /\ s \in WebSessions
  /\ bookings[b] # NoRow
  /\ CanTransition(bookings[b].status, to)
  /\ Begin(s, [NoMoves EXCEPT ![b] = Relabel(b, to, {})], NoRow)

\* swap_item: an at-risk booking becomes confirmed again, others keep their status.
SwapItem(s, b, i) ==
  /\ s \in WebSessions
  /\ items[i] = "active"
  /\ bookings[b].status \in SWAPPABLE
  /\ LET seen == bookings[b]
         to == IF seen.status = "at_risk" THEN "confirmed" ELSE seen.status
     IN Begin(s, [NoMoves EXCEPT ![b] = [Relabel(b, to, {}) EXCEPT !.toItem = i]], NoRow)

\* Mutant of Displace: nobody is told.
DisplaceSilently(b) ==
  Relabel(b, IF bookings[b].status = "pending_shop" THEN "declined" ELSE "at_risk", {})

Displace(b) ==
  IF bookings[b].status = "pending_shop"
  THEN Relabel(b, "declined", {})
  ELSE Relabel(b, "at_risk", {"booking_at_risk_admin"})

\* Mutant of WalkIn: the bookings in the way are displaced and committed first.
DisplaceFirst(s, i, span, pickedUpNow) ==
  LET row == NewRow("walk_in", "confirmed", i, StyleOf[i], span, PrepDays, CleaningDays, 0)
      conflicts == Overlapping(row)
  IN /\ s \in WebSessions
     /\ \A c \in conflicts : /\ bookings[c].kind = "online"
                             /\ bookings[c].status \in OVERRIDABLE
     /\ Begin(s, [c \in Ids |-> IF c \in conflicts THEN Displace(c) ELSE NoMove],
              IF conflicts = {} THEN row ELSE NoRow)

\* create_staff_booking; staff give a reason when bookings are in the way.
WalkIn(s, i, span, pickedUpNow) ==
  LET status == IF pickedUpNow THEN "picked_up" ELSE "confirmed"
      row == NewRow("walk_in", status, i, StyleOf[i], span, PrepDays, CleaningDays, 0)
      conflicts == Overlapping(row)
  IN /\ s \in WebSessions
     /\ Room
     /\ \A c \in conflicts : /\ bookings[c].kind = "online"
                             /\ bookings[c].status \in OVERRIDABLE
     /\ Begin(s, [c \in Ids |-> IF c \in conflicts THEN Displace(c) ELSE NoMove], row)

\* create_block: a block has no buffers and never pushes a booking aside.
BlockItem(s, i, span) ==
  LET row == NewRow("block", "confirmed", i, StyleOf[i], span, 0, 0, 0)
  IN /\ s \in WebSessions
     /\ Room
     /\ Overlapping(row) = {}
     /\ Begin(s, NoMoves, row)

------------------------------------------------------------------------------
(* create_request: search, lock a free item, insert, at most MaxAttempts   *)
(* times.  The statement that searches sees a snapshot; the lock it takes  *)
(* on the item row comes later.                                            *)

RequestDress(s, style, span, status) ==
  LET row == NewRow("online", status, NoItem, style, span, PrepDays, CleaningDays, today)
  IN /\ s \in WebSessions
     /\ Ready(s)
     /\ Room
     /\ today <= span[1]
     /\ tx' = [tx EXCEPT ![s] = [Idle EXCEPT !.phase = "locking", !.tries = 1,
                                             !.free = FreeItems(row), !.insert = row]]
     /\ UNCHANGED <<bookings, event, alerts, items, today>>

LockedByOther(s, i) == \E t \in Sessions \ {s} : i \in tx[t].holds

\* The items whose rows a unit of work locks through the foreign key.
ItemsReferenced(w) ==
  {w.moves[b].toItem : b \in {c \in Moved(w) : w.moves[c].toItem # w.moves[c].fromItem}}
    \cup (IF w.insert = NoRow THEN {} ELSE {w.insert.item})

\* Another session's write is on its way: its row lock may be there already.
MayBeLocked(s) ==
  UNION {ItemsReferenced(tx[t]) : t \in {u \in Sessions \ {s} : tx[u].phase = "writing"}}

\* Mutant of Lockable: FOR SHARE, which two requests may hold at once.
SharedLockable(s, skipped) ==
  {i \in tx[s].free : items[i] = "active"} \ skipped

\* SKIP LOCKED: what is left of the snapshot once locked rows are passed over.
Lockable(s, skipped) ==
  {i \in tx[s].free : items[i] = "active" /\ ~LockedByOther(s, i)} \ skipped

\* Mutant of LockItem: the row to insert is not given the item.
LockWithoutItem(s) ==
  /\ tx[s].phase = "locking"
  /\ Lockable(s, {}) # {}
  /\ tx' = [tx EXCEPT ![s].phase = "writing", ![s].free = {}]
  /\ UNCHANGED <<bookings, event, alerts, items, today>>

LockItem(s) ==
  /\ tx[s].phase = "locking"
  /\ \E skipped \in SUBSET MayBeLocked(s) :
       \E i \in Lockable(s, skipped) :
         /\ \A j \in Lockable(s, skipped) : i <= j
         /\ tx' = [tx EXCEPT ![s].phase = "writing", ![s].free = {},
                             ![s].holds = @ \cup {i}, ![s].insert.item = i]
  /\ UNCHANGED <<bookings, event, alerts, items, today>>

NoAvailability(s) ==
  /\ tx[s].phase = "locking"
  /\ \E skipped \in SUBSET MayBeLocked(s) : Lockable(s, skipped) = {}
  /\ tx' = [tx EXCEPT ![s] = [Idle EXCEPT !.phase = "refused"]]
  /\ UNCHANGED <<bookings, event, alerts, items, today>>

------------------------------------------------------------------------------
(* The write.                                                              *)

\* Only the columns the handler changed, from what it had loaded, are written.
Apply(r, m) ==
  [r EXCEPT !.status = IF m.to = m.from THEN @ ELSE m.to,
            !.item = IF m.toItem = m.fromItem THEN @ ELSE m.toItem,
            !.style = IF StyleOf[m.toItem] = StyleOf[m.fromItem] THEN @
                      ELSE StyleOf[m.toItem]]

NewIds(w) == IF w.insert = NoRow THEN {NoId} ELSE Unused
Touched(w, n) == Moved(w) \cup {b \in Ids : b = n}

After(w, n) == [b \in Ids |-> IF b = n THEN w.insert
                              ELSE IF b \in Moved(w)
                                   THEN Apply(bookings[b], w.moves[b])
                                   ELSE bookings[b]]

\* Mutants of NotExcluded: ranges that leave out their last day, and a check
\* that rows already stored escape.
HalfOpenNotExcluded(table, b) ==
  Active(table[b]) =>
    \A c \in Ids \ {b} : ~ /\ Active(table[c])
                            /\ table[b].item = table[c].item
                            /\ First(table[b]) < Last(table[c])
                            /\ First(table[c]) < Last(table[b])
InsertNotExcluded(table, b) ==
  Active(table[b]) /\ bookings[b] = NoRow =>
    \A c \in Ids \ {b} : ~(Active(table[c]) /\ Clash(table[b], table[c]))

\* ex_bookings_item_overlap, checked on each row written.
NotExcluded(table, b) ==
  Active(table[b]) => \A c \in Ids \ {b} : ~(Active(table[c]) /\ Clash(table[b], table[c]))

\* Mutant of ItemHasStyle: a foreign key on the item alone.
ItemExists(table, b) == table[b].item \in Items

\* fk_bookings_item_style_shop.
ItemHasStyle(table, b) == StyleOf[table[b].item] = table[b].style

Storable(w, n) == \A b \in Touched(w, n) : /\ NotExcluded(After(w, n), b)
                                           /\ ItemHasStyle(After(w, n), b)

\* record_created, followed by the hand-over event of a picked-up-now walk-in.
FirstEvent(r) == IF r.status = "picked_up"
                 THEN [from |-> "confirmed", to |-> "picked_up"]
                 ELSE [from |-> "none", to |-> r.status]

\* A foreign-key check waits for a request that holds the item's row.
Unblocked(s) == \A i \in ItemsReferenced(tx[s]) : ~LockedByOther(s, i)

Commit(s) ==
  LET w == tx[s]
  IN /\ w.phase = "writing"
     /\ Unblocked(s)
     /\ \E n \in NewIds(w) :
          /\ Storable(w, n)
          /\ bookings' = After(w, n)
          /\ event' = [b \in Ids |->
                         IF b = n THEN FirstEvent(w.insert)
                         ELSE IF b \in Moved(w)
                              THEN [from |-> w.moves[b].from, to |-> w.moves[b].to]
                              ELSE event[b]]
          /\ alerts' = [b \in Ids |->
                          IF b = n
                          THEN IF w.insert.kind = "online" THEN {"new_request"} ELSE {}
                          ELSE IF b \in Moved(w)
                               THEN alerts[b] \cup w.moves[b].alert
                               ELSE alerts[b]]
     /\ tx' = [tx EXCEPT ![s] = Idle]
     /\ UNCHANGED <<items, today>>

Refuted(s) == /\ tx[s].phase = "writing"
              /\ Unblocked(s)
              /\ \E n \in NewIds(tx[s]) : ~Storable(tx[s], n)

\* ItemConflict, or an integrity error nobody handles: the handler rolls back.
Reject(s) ==
  /\ Refuted(s)
  /\ tx[s].tries = 0
  /\ tx' = [tx EXCEPT ![s] = Idle]
  /\ UNCHANGED <<bookings, event, alerts, items, today>>

\* The loop of create_request goes round; item rows it locked stay locked.
Retry(s) ==
  /\ Refuted(s)
  /\ tx[s].tries > 0
  /\ LET again == [tx[s] EXCEPT !.phase = "locking", !.tries = tx[s].tries + 1,
                                !.free = FreeItems(tx[s].insert), !.insert.item = NoItem]
     IN tx' = [tx EXCEPT ![s] = IF tx[s].tries < MaxAttempts THEN again
                                ELSE [Idle EXCEPT !.phase = "refused"]]
  /\ UNCHANGED <<bookings, event, alerts, items, today>>

\* A crash, a lost connection or a deadlock victim: nothing of the work remains.
Abort(s) ==
  /\ ~Ready(s)
  /\ tx' = [tx EXCEPT ![s] = Idle]
  /\ UNCHANGED <<bookings, event, alerts, items, today>>

------------------------------------------------------------------------------
(* Background jobs, items and the clock.                                   *)

\* Mutant of StaleRequests: the job looks for holds.
StaleHolds == {b \in Ids : /\ bookings[b].status = "hold"
                           /\ bookings[b].created < today - SlaDays}

StaleRequests == {b \in Ids : /\ bookings[b].status = "pending_shop"
                              /\ bookings[b].created < today - SlaDays}

\* Mutant of MissedPickups: staff bookings are left alone.
MissedOnlinePickups == {b \in Ids : /\ bookings[b].status = "confirmed"
                                    /\ bookings[b].kind = "online"
                                    /\ bookings[b].pickup < today - NO_SHOW_GRACE_DAYS}

MissedPickups == {b \in Ids : /\ bookings[b].status = "confirmed"
                              /\ bookings[b].kind # "block"
                              /\ bookings[b].pickup < today - NO_SHOW_GRACE_DAYS}

\* Mutant of Overdue: no grace.
OverdueAtOnce == {b \in Ids : /\ bookings[b].status = "picked_up"
                              /\ bookings[b].return < today}

Overdue == {b \in Ids : /\ bookings[b].status = "picked_up"
                        /\ bookings[b].return < today - NOT_RETURNED_GRACE_DAYS}

RunJob(s, rows, to, alert) ==
  /\ s \in JobSessions
  /\ rows # {}
  /\ Begin(s, [b \in Ids |-> IF b \in rows THEN Relabel(b, to, alert) ELSE NoMove],
           NoRow)

ExpireStaleRequests(s) ==
  RunJob(s, StaleRequests, "cancelled_by_shop", {"request_expired_admin"})
MarkNoShows(s) == RunJob(s, MissedPickups, "no_show", {})
MarkNotReturned(s) == RunJob(s, Overdue, "not_returned", {})

\* set_item_status: bookings of the item are only reported, not changed.  Setting
\* the status an item has already is no step.
SetItemStatus(i, status) ==
  /\ items[i] # status
  /\ \A s \in Sessions : i \notin tx[s].holds
  /\ items' = [items EXCEPT ![i] = status]
  /\ UNCHANGED <<bookings, event, alerts, today, tx>>

\* Midnight may fall into a handler's transaction, but none lasts a whole day.
Tick ==
  /\ today < Horizon
  /\ \A s \in Sessions : ~tx[s].overnight
  /\ today' = today + 1
  /\ tx' = [s \in Sessions |-> IF Ready(s) THEN tx[s]
                               ELSE [tx[s] EXCEPT !.overnight = TRUE]]
  /\ UNCHANGED <<bookings, event, alerts, items>>

------------------------------------------------------------------------------

Init ==
  /\ bookings = [b \in Ids |-> NoRow]
  /\ event = [b \in Ids |-> NoEvent]
  /\ alerts = [b \in Ids |-> {}]
  /\ items = [i \in Items |-> "active"]
  /\ today = 0
  /\ tx = [s \in Sessions |-> Idle]

Web(s) ==
  \/ \E style \in Styles, span \in Spans, status \in RequestStatuses :
       RequestDress(s, style, span, status)
  \/ \E i \in Items, span \in Spans :
       \/ \E now \in BOOLEAN : WalkIn(s, i, span, now)
       \/ BlockItem(s, i, span)
  \/ \E b \in Ids :
       \/ \E to \in StaffTargets : BookingAction(s, b, to)
       \/ \E i \in Items : SwapItem(s, b, i)

Jobs(s) == ExpireStaleRequests(s) \/ MarkNoShows(s) \/ MarkNotReturned(s)

Finish(s) == LockItem(s) \/ NoAvailability(s) \/ Commit(s) \/ Reject(s) \/ Retry(s)

Next ==
  \/ \E s \in Sessions : Web(s) \/ Jobs(s) \/ Finish(s) \/ Abort(s)
  \/ \E i \in Items, status \in ItemStates : SetItemStatus(i, status)
  \/ Tick

Spec == Init /\ [][Next]_vars
------------------------------------------------------------------------------
(* Properties.                                                             *)

Tx == [phase : {"idle", "refused", "locking", "writing"}, free : SUBSET Items,
       holds : SUBSET Items, tries : 0..MaxAttempts,
       moves : [Ids -> Move \cup {NoMove}],
       insert : Draft \cup {NoRow}, overnight : BOOLEAN]

\* Every row is a well-formed booking with an item of the shop, and a unit of
\* work about to be written has an item for the row it inserts and touches
\* stored bookings only; a request that looks for an item has its row ready
\* (booking/requests.py, booking/staff.py, jobs.py).
TypeOK ==
  /\ bookings \in [Ids -> Row \cup {NoRow}]
  /\ event \in [Ids -> Event \cup {NoEvent}]
  /\ alerts \in [Ids -> SUBSET Alerts]
  /\ items \in [Items -> ItemStates \cup {"active"}]
  /\ today \in Nat
  /\ tx \in [Sessions -> Tx]
  /\ \A s \in Sessions :
       /\ tx[s].phase = "locking" => tx[s].tries > 0
       /\ tx[s].tries > 0 => tx[s].insert # NoRow
       /\ tx[s].phase = "writing" => tx[s].insert \in Row \cup {NoRow}
       /\ \A b \in Moved(tx[s]) : bookings[b] # NoRow

\* No dress is promised to two people at once, buffers included: whatever the
\* order in which requests, walk-ins, blocks, swaps, replies and jobs commit,
\* and however stale what they read (the constraint ex_bookings_item_overlap).
NoDoubleBooking ==
  \A b, c \in Ids : b # c /\ Active(bookings[b]) /\ Active(bookings[c])
                       => ~Clash(bookings[b], bookings[c])

\* A booking's style is its item's style, also when two swaps of one booking
\* overlap and each writes only the columns it saw change (swap_item).
StyleMatchesItem ==
  \A b \in Ids : bookings[b] # NoRow => bookings[b].style = StyleOf[bookings[b].item]

\* A customer whose booking is at risk reserved online, and the admin has been
\* told about that booking (create_staff_booking, notify_admin).
AtRiskIsKnown ==
  \A b \in Ids : bookings[b].status = "at_risk" =>
    bookings[b].kind = "online" /\ "booking_at_risk_admin" \in alerts[b]

\* The item rows that requests lock never make handlers wait in a circle: who
\* waits for a request's item rows waits for a request that waits for nobody's
\* (create_request after a retry holds more than one).  What the exclusion check
\* waits for is the database's: it picks a victim, and that is Abort.
NoRowLockCycle ==
  \A s \in Sessions : tx[s].phase = "writing" /\ ~Unblocked(s) =>
    \A t \in Sessions \ {s} : tx[t].holds # {} /\ tx[t].phase = "writing" => Unblocked(t)

Changes(b) == /\ bookings[b] # NoRow
              /\ bookings'[b].status # bookings[b].status

Stored(b) == bookings[b] = NoRow /\ bookings'[b] # NoRow

\* A booking is put at risk only together with the walk-in it gives way to:
\* never by an override that is then refused (create_staff_booking with the
\* rollback of create_walk_in).
DisplacedOnlyTogether ==
  [][\A b \in Ids : Changes(b) /\ bookings'[b].status = "at_risk" =>
       \E n \in Ids : Stored(n) /\ bookings'[n].kind = "walk_in"]_vars

\* With one handler at a time, the walk-in a booking gives way to has taken its
\* item on its dates: an override never displaces a booking not in its way.
DisplacedOnlyInTheWay ==
  [][\A b \in Ids : Changes(b) /\ bookings'[b].status = "at_risk" =>
       \E n \in Ids : Stored(n) /\ Clash(bookings'[b], bookings'[n])]_vars

\* With one handler at a time, a status changes only along TRANSITIONS, and the
\* event written with it names the status left and the status reached: so no
\* booking leaves a terminal status, and its timeline has no gap (timeline.py).
ChangesAreAllowedAndRecorded ==
  [][\A b \in Ids : Changes(b) =>
       /\ CanTransition(bookings[b].status, bookings'[b].status)
       /\ event'[b] = [from |-> bookings[b].status, to |-> bookings'[b].status]]_vars

\* A dress that was handed over keeps its place in the calendar until it is
\* returned or overdue beyond the grace days: no reply, no walk-in and no job
\* releases it before that.
HandedOverStaysHeld ==
  [][\A b \in Ids : Changes(b) /\ bookings[b].status = "picked_up" =>
       \/ bookings'[b].status = "completed"
       \/ /\ bookings'[b].status = "not_returned"
          /\ today > bookings[b].return + NOT_RETURNED_GRACE_DAYS]_vars

\* A dress that never came back is not promised to the next customer.
MissingDressIsNotPromised ==
  [][\A b, c \in Ids : Stored(b) /\ bookings'[b].kind = "online"
                          /\ bookings[c].status = "not_returned"
                          => bookings'[b].item # bookings[c].item]_vars

------------------------------------------------------------------------------
(* The abstract calendar: what each booking holds.                         *)

Holding == [b \in Ids |-> IF Active(bookings[b])
                          THEN [item |-> bookings[b].item,
                                first |-> First(bookings[b]), last |-> Last(bookings[b])]
                          ELSE [item |-> NoItem]]

Calendar == INSTANCE ItemCalendar WITH Holders <- Ids, held <- Holding

\* Every step of every handler and job is, for the dresses, one release of some
\* bookings or one grant that fits beside what all the others hold.
ImplementsCalendar == Calendar!Spec

------------------------------------------------------------------------------
(* Liveness.                                                               *)

\* The clock and the handlers go on; the schedule starts every job again and
\* again (scheduler.py, the cron of docs/deploy.md), and its transactions do
\* not fail for ever.
Fairness ==
  /\ WF_vars(Tick)
  /\ \A s \in Sessions : WF_vars(Finish(s))
  /\ \A s \in JobSessions : /\ SF_vars(ExpireStaleRequests(s))
                             /\ SF_vars(MarkNoShows(s))
                             /\ SF_vars(MarkNotReturned(s))
                             /\ SF_vars(Commit(s))

FairSpec == Spec /\ Fairness

\* No request waits for ever: the shop answers, or the SLA job cancels it.
RequestsAreAnswered ==
  \A b \in Ids : bookings[b].status = "pending_shop" ~> bookings[b].status # "pending_shop"

\* A dress nobody picks up is released, and one nobody brings back is flagged.
BookingsMoveOn ==
  \A b \in Ids :
    /\ bookings[b].status = "picked_up" ~> bookings[b].status # "picked_up"
    /\ (bookings[b].status = "confirmed" /\ bookings[b].kind # "block")
         ~> bookings[b].status # "confirmed"
==============================================================================
