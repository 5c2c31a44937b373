---------------------------- MODULE RentalDates ----------------------------
(***************************************************************************)
(* The dates a renter never has to think about: from the day of the event  *)
(* and the shop's rules to the days of pickup and return.  The owner edits *)
(* the rules and the closures while renters ask; search, the page of a     *)
(* dress and create_request all answer with the same two functions.        *)
(* Days are integers, day 0 is a Monday.                                   *)
(***************************************************************************)
EXTENDS Integers, FiniteSets

CONSTANTS
  Settings,     \* the rules the owner may save (a bound)
  Weekdays,     \* the sets of weekdays the owner may close on (a bound)
  Ranges,       \* the closures the owner may enter, as <<first, last>> (a bound)
  MaxClosures,  \* how many of them at once (a bound)
  Events,       \* the event days renters ask about (a bound)
  LastToday     \* the last day of the model (a bound)

\* The CHECK constraints of the shops table.
SettingsAllowed == [lead : 0..5, after : 0..3, max : 1..14]

ASSUME SettingsAssumption == Settings \subseteq SettingsAllowed
ASSUME RangesAssumption == Ranges \subseteq Int \X Int
ASSUME EventsAssumption == Events \subseteq Int
ASSUME WeekdaysAssumption == Weekdays \subseteq SUBSET (0..6)

VARIABLES
  rules,           \* pickup_lead_days, return_after_days, max_rental_days
  closedWeekdays,  \* the weekdays the shop is closed
  closures,        \* the ranges of days it is closed besides
  today,
  answer           \* the answer to the latest question, while the rules stand

vars == <<rules, closedWeekdays, closures, today, answer>>

\* Mutant of MAX_ROLL_DAYS: one day fewer.
SHORT_ROLL_DAYS == 13
MAX_ROLL_DAYS == 14

IsOpen(day) == /\ day % 7 \notin closedWeekdays
               /\ \A c \in closures : ~(c[1] <= day /\ day <= c[2])

\* Mutant of Roll: any open day within reach.
AnyOpenDay(day, step) ==
  {day + step * n : n \in {k \in 0..MAX_ROLL_DAYS - 1 : IsOpen(day + step * k)}}

\* The first open day from a day on, in one direction; none is no_open_day.
Roll(day, step) ==
  {day + step * n : n \in {k \in 0..MAX_ROLL_DAYS - 1 :
                             /\ IsOpen(day + step * k)
                             /\ \A j \in 0..k - 1 : ~IsOpen(day + step * j)}}

\* Mutant of DerivedDates: the pickup day rolls towards the event.
RolledForward(event) ==
  {[pickup |-> p, return |-> r] : p \in Roll(event - rules.lead, 1),
                                  r \in Roll(event + rules.after, 1)}

\* derive_rental_dates
DerivedDates(event) ==
  {[pickup |-> p, return |-> r] : p \in Roll(event - rules.lead, -1),
                                  r \in Roll(event + rules.after, 1)}

\* validate_rental_dates: the first objection counts.
Verdict(d, event) ==
  IF d.pickup < today THEN "pickup_in_past"
  ELSE IF d.return < d.pickup THEN "return_before_pickup"
  ELSE IF d.return - d.pickup > rules.max THEN "too_long"
  ELSE IF ~(d.pickup <= event /\ event <= d.return) THEN "event_outside_rental"
  ELSE IF ~IsOpen(d.pickup) THEN "pickup_closed"
  ELSE IF ~IsOpen(d.return) THEN "return_closed"
  ELSE "ok"

\* Both functions in turn.
Replies(event) ==
  IF DerivedDates(event) = {}
  THEN {[verdict |-> "no_open_day", event |-> event]}
  ELSE {[verdict |-> Verdict(d, event), event |-> event,
         pickup |-> d.pickup, return |-> d.return] : d \in DerivedDates(event)}

NoAnswer == [verdict |-> "none"]

\* A renter asks about a day: by search, on the page of a dress, by a request.
Ask(event) ==
  /\ answer' \in Replies(event)
  /\ UNCHANGED <<rules, closedWeekdays, closures, today>>

SaveSettings(new, closed) ==
  /\ rules' = new
  /\ closedWeekdays' = closed
  /\ answer' = NoAnswer
  /\ UNCHANGED <<closures, today>>

AddClosure(range) ==
  /\ range[1] <= range[2]
  /\ Cardinality(closures) < MaxClosures
  /\ closures' = closures \cup {range}
  /\ answer' = NoAnswer
  /\ UNCHANGED <<rules, closedWeekdays, today>>

DeleteClosure(range) ==
  /\ range \in closures
  /\ closures' = closures \ {range}
  /\ answer' = NoAnswer
  /\ UNCHANGED <<rules, closedWeekdays, today>>

Tick ==
  /\ today < LastToday
  /\ today' = today + 1
  /\ answer' = NoAnswer
  /\ UNCHANGED <<rules, closedWeekdays, closures>>

Init ==
  /\ rules \in Settings
  /\ closedWeekdays = {}
  /\ closures = {}
  /\ today = 0
  /\ answer = NoAnswer

Next ==
  \/ \E event \in Events : Ask(event)
  \/ \E new \in Settings, closed \in Weekdays : SaveSettings(new, closed)
  \/ \E range \in Ranges : AddClosure(range) \/ DeleteClosure(range)
  \/ Tick

Spec == Init /\ [][Next]_vars
------------------------------------------------------------------------------
(* Properties.                                                             *)

\* A stay that leaves the dress with the renter as early and as long as the
\* rules ask, on days the shop is open, and no longer than a rental may be.
Stay(event, p, r) ==
  /\ p <= event - rules.lead /\ event + rules.after <= r
  /\ r - p <= rules.max
  /\ IsOpen(p) /\ IsOpen(r)

\* Derived dates can only be refused for being in the past or too long: the
\* other objections of validate_rental_dates never fire on them, so the page
\* never shows a renter an error about a day she did not choose.
DerivedDatesFit ==
  answer.verdict \in {"none", "ok", "no_open_day", "pickup_in_past", "too_long"}

\* The dates found are the tightest: every stay the rules allow covers them, so
\* no other choice would keep the dress from others for a shorter time.
DatesAreTightest ==
  answer.verdict \in {"ok", "too_long", "pickup_in_past"} =>
    \A p \in answer.event - rules.lead - 15 .. answer.event - rules.lead,
       r \in answer.event + rules.after .. answer.event + rules.after + 15 :
      Stay(answer.event, p, r) => p <= answer.pickup /\ answer.return <= r

\* A renter told "no_open_day" or "too_long" is not turned away by the limit of
\* the search for an open day: no stay the rules allow exists at all. It holds
\* because MAX_ROLL_DAYS reaches exactly as far as the longest rental.
RefusalIsFinal ==
  answer.verdict \in {"no_open_day", "too_long"} =>
    \A p \in answer.event - rules.lead - 15 .. answer.event - rules.lead,
       r \in answer.event + rules.after .. answer.event + rules.after + 15 :
      ~Stay(answer.event, p, r)
==============================================================================
