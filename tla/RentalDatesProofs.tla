------------------------- MODULE RentalDatesProofs -------------------------
(***************************************************************************)
(* The dates derived for a renter, proved for every rule the shops table   *)
(* admits, any closures and any day.                                       *)
(***************************************************************************)
EXTENDS RentalDates, WellFoundedInduction, TLAPS

\* What the settings page keeps, and what the latest answer was computed from.
TypeOK ==
  /\ rules \in SettingsAllowed
  /\ closures \subseteq Int \X Int
  /\ closedWeekdays \subseteq 0..6
  /\ today \in Int

AnswerOK == answer = NoAnswer \/ \E event \in Events : answer \in Replies(event)

IInv == TypeOK /\ AnswerOK

\* The replies depend on the rules, the closures and the day only.
LEMMA RepliesSame ==
  ASSUME UNCHANGED <<rules, closedWeekdays, closures, today>>, NEW event \in Events
  PROVE  Replies(event)' = Replies(event)
  BY DEF Replies, DerivedDates, Verdict, Roll, IsOpen

\* The answer that stands is one the code gives for the rules that stand.
LEMMA Inductive == ASSUME IInv, [Next]_vars PROVE IInv'
<1>1. CASE \E event \in Events : Ask(event)
  <2>1. TypeOK'
    BY <1>1 DEF Ask, IInv, TypeOK
  <2>2. PICK event \in Events : Ask(event)
    BY <1>1
  <2>3. answer' \in Replies(event)'
    BY <2>2, RepliesSame DEF Ask
  <2> QED
    BY <2>1, <2>3 DEF IInv, AnswerOK
<1>2. ASSUME NEW new \in Settings, NEW closed \in Weekdays, SaveSettings(new, closed)
      PROVE  IInv'
  BY <1>2, SettingsAssumption, WeekdaysAssumption
     DEF SaveSettings, IInv, TypeOK, AnswerOK, NoAnswer
<1>3. ASSUME NEW range \in Ranges, AddClosure(range) \/ DeleteClosure(range) PROVE IInv'
  BY <1>3, RangesAssumption DEF AddClosure, DeleteClosure, IInv, TypeOK, AnswerOK, NoAnswer
<1>4. CASE Tick
  BY <1>4 DEF Tick, IInv, TypeOK, AnswerOK, NoAnswer
<1>5. CASE UNCHANGED vars
  <2>1. \A event \in Events : Replies(event)' = Replies(event)
    BY <1>5, RepliesSame DEF vars
  <2> QED
    BY <1>5, <2>1 DEF vars, IInv, TypeOK, AnswerOK, NoAnswer
<1> QED
  BY <1>1, <1>2, <1>3, <1>4, <1>5 DEF Next

\* No question has been asked yet.
LEMMA Initial == ASSUME Init PROVE IInv
  BY SettingsAssumption DEF Init, IInv, TypeOK, AnswerOK

------------------------------------------------------------------------------
(* The first open day.                                                     *)

\* A set of offsets that is not empty has a least one.
LEMMA LeastOffset ==
  ASSUME NEW T, T \subseteq Nat, T # {}
  PROVE  \E n \in T : \A m \in T : n <= m
<1>1. PICK n \in T : \A m \in T : <<m, n>> \notin OpToRel(<, Nat)
  BY WFMin, NatLessThanWellFounded
<1>2. \A m \in T : ~(m < n)
  BY <1>1 DEF OpToRel
<1> QED
  BY <1>2

\* Rolling fails only if the shop is closed on every day within reach.
LEMMA RollReaches ==
  ASSUME NEW day \in Int, NEW step \in Int, Roll(day, step) = {},
         NEW k \in 0..MAX_ROLL_DAYS - 1
  PROVE  ~IsOpen(day + step * k)
<1> DEFINE T == {n \in 0..MAX_ROLL_DAYS - 1 : IsOpen(day + step * n)}
<1>1. SUFFICES ASSUME T # {} PROVE FALSE
  OBVIOUS
<1>2. T \subseteq Nat
  BY DEF MAX_ROLL_DAYS
<1>3. PICK n \in T : \A m \in T : n <= m
  BY <1>1, <1>2, LeastOffset
<1>4. ASSUME NEW j \in 0..n - 1 PROVE ~IsOpen(day + step * j)
  <2>1. n \in 0..13 /\ j \in 0..MAX_ROLL_DAYS - 1 /\ j < n
    BY <1>3 DEF MAX_ROLL_DAYS
  <2>2. j \notin T
    BY <1>3, <2>1
  <2> QED
    BY <2>1, <2>2
<1>5. day + step * n \in Roll(day, step)
  BY <1>3, <1>4 DEF Roll
<1> QED
  BY <1>5

\* The day found is open, lies in the direction of the roll, and every day passed
\* over is closed.
LEMMA RolledDay ==
  ASSUME NEW day \in Int, NEW step \in {-1, 1}, NEW d \in Roll(day, step)
  PROVE  /\ d \in Int /\ IsOpen(d)
         /\ step = -1 => d <= day /\ \A p \in Int : p <= day /\ IsOpen(p) => p <= d
         /\ step = 1 => day <= d /\ \A r \in Int : day <= r /\ IsOpen(r) => d <= r
<1>1. PICK n \in 0..MAX_ROLL_DAYS - 1 :
        /\ d = day + step * n /\ IsOpen(day + step * n)
        /\ \A j \in 0..n - 1 : ~IsOpen(day + step * j)
  BY DEF Roll
<1>2. n \in Nat
  BY DEF MAX_ROLL_DAYS
<1>3. CASE step = -1
  <2>1. d = day - n
    BY <1>1, <1>2, <1>3
  <2>2. ASSUME NEW p \in Int, p <= day, IsOpen(p), p > d PROVE FALSE
    <3>1. day - p \in 0..n - 1 /\ day + step * (day - p) = p
      BY <1>2, <1>3, <2>1, <2>2
    <3> QED
      BY <1>1, <2>2, <3>1
  <2> QED
    BY <1>1, <1>2, <1>3, <2>1, <2>2
<1>4. CASE step = 1
  <2>1. d = day + n
    BY <1>1, <1>2, <1>4
  <2>2. ASSUME NEW r \in Int, day <= r, IsOpen(r), r < d PROVE FALSE
    <3>1. r - day \in 0..n - 1 /\ day + step * (r - day) = r
      BY <1>2, <1>4, <2>1, <2>2
    <3> QED
      BY <1>1, <2>2, <3>1
  <2> QED
    BY <1>1, <1>2, <1>4, <2>1, <2>2
<1> QED
  BY <1>3, <1>4

------------------------------------------------------------------------------
(* The answer.                                                             *)

\* An answer with dates holds dates derived for its event.
LEMMA Answered ==
  ASSUME IInv, answer # NoAnswer
  PROVE  /\ answer.event \in Int
         /\ \/ answer.verdict = "no_open_day" /\ DerivedDates(answer.event) = {}
            \/ /\ answer.pickup \in Roll(answer.event - rules.lead, -1)
               /\ answer.return \in Roll(answer.event + rules.after, 1)
               /\ answer.verdict = Verdict([pickup |-> answer.pickup,
                                            return |-> answer.return], answer.event)
<1>1. PICK event \in Events : answer \in Replies(event)
  BY DEF IInv, AnswerOK
<1>2. event \in Int
  BY EventsAssumption
<1>3. CASE DerivedDates(event) = {}
  BY <1>1, <1>2, <1>3 DEF Replies
<1>4. CASE DerivedDates(event) # {}
  <2>1. PICK d \in DerivedDates(event) :
          answer = [verdict |-> Verdict(d, event), event |-> event,
                    pickup |-> d.pickup, return |-> d.return]
    BY <1>1, <1>4 DEF Replies
  <2>2. /\ d = [pickup |-> answer.pickup, return |-> answer.return]
        /\ d.pickup \in Roll(event - rules.lead, -1)
        /\ d.return \in Roll(event + rules.after, 1)
    BY <2>1 DEF DerivedDates
  <2> QED
    BY <1>2, <2>1, <2>2
<1> QED
  BY <1>3, <1>4

\* The dates of an answer: open days around the event, as tight as can be.
LEMMA Dated ==
  ASSUME IInv, answer # NoAnswer, answer.verdict # "no_open_day"
  PROVE  /\ answer.event \in Int /\ answer.pickup \in Int /\ answer.return \in Int
         /\ answer.pickup <= answer.event - rules.lead
         /\ answer.event + rules.after <= answer.return
         /\ IsOpen(answer.pickup) /\ IsOpen(answer.return)
         /\ \A p \in Int : p <= answer.event - rules.lead /\ IsOpen(p) => p <= answer.pickup
         /\ \A r \in Int : answer.event + rules.after <= r /\ IsOpen(r) => answer.return <= r
         /\ answer.verdict = Verdict([pickup |-> answer.pickup, return |-> answer.return],
                                     answer.event)
<1>1. /\ answer.event \in Int
      /\ answer.pickup \in Roll(answer.event - rules.lead, -1)
      /\ answer.return \in Roll(answer.event + rules.after, 1)
      /\ answer.verdict = Verdict([pickup |-> answer.pickup, return |-> answer.return],
                                  answer.event)
  BY Answered
<1>2. answer.event - rules.lead \in Int /\ answer.event + rules.after \in Int
  BY <1>1 DEF IInv, TypeOK, SettingsAllowed
<1> QED
  BY <1>1, <1>2, RolledDay

\* Rolled dates lie on open days around the event.
LEMMA Fits == ASSUME IInv PROVE DerivedDatesFit
<1>1. CASE answer = NoAnswer
  BY <1>1 DEF NoAnswer, DerivedDatesFit
<1>2. CASE answer # NoAnswer /\ answer.verdict # "no_open_day"
  <2>1. /\ answer.pickup <= answer.event /\ answer.event <= answer.return
        /\ answer.event \in Int /\ answer.pickup \in Int /\ answer.return \in Int
    BY <1>2, Dated DEF IInv, TypeOK, SettingsAllowed
  <2> QED
    BY <1>2, <2>1, Dated DEF Verdict, DerivedDatesFit
<1> QED
  BY <1>1, <1>2 DEF DerivedDatesFit

\* A stay the rules allow starts and ends on open days, so the first open day
\* found in either direction lies inside it.
LEMMA Tightest == ASSUME IInv PROVE DatesAreTightest
<1>1. SUFFICES ASSUME answer # NoAnswer, answer.verdict # "no_open_day",
                      NEW p \in Int, NEW r \in Int, Stay(answer.event, p, r)
               PROVE  p <= answer.pickup /\ answer.return <= r
  <2>1. CASE answer = NoAnswer
    BY <2>1 DEF DatesAreTightest, NoAnswer
  <2>2. CASE answer # NoAnswer /\ answer.verdict = "no_open_day"
    BY <2>2 DEF DatesAreTightest
  <2>3. CASE answer # NoAnswer /\ answer.verdict # "no_open_day"
    <3>1. answer.event \in Int /\ rules.lead \in Int /\ rules.after \in Int
      BY <2>3, Dated DEF IInv, TypeOK, SettingsAllowed
    <3> QED
      BY <1>1, <2>3, <3>1 DEF DatesAreTightest
  <2> QED
    BY <2>1, <2>2, <2>3
<1> QED
  BY <1>1, Dated DEF Stay

\* A stay that exists has open days within the longest rental, which the search
\* for an open day reaches.
LEMMA Final == ASSUME IInv PROVE RefusalIsFinal
<1>1. rules.lead \in 0..5 /\ rules.after \in 0..3 /\ rules.max \in 1..14
  BY DEF IInv, TypeOK, SettingsAllowed
<1>2. SUFFICES ASSUME answer # NoAnswer, answer.verdict \in {"no_open_day", "too_long"},
                      answer.event \in Int,
                      NEW p \in Int, NEW r \in Int, Stay(answer.event, p, r)
               PROVE  FALSE
  <2>1. CASE answer = NoAnswer
    BY <2>1 DEF RefusalIsFinal, NoAnswer
  <2>2. CASE answer # NoAnswer
    <3>1. answer.event \in Int
      BY <2>2, Answered
    <3> QED
      BY <1>1, <1>2, <2>2, <3>1 DEF RefusalIsFinal
  <2> QED
    BY <2>1, <2>2
<1> DEFINE e == answer.event
<1>3. /\ p <= e - rules.lead /\ e + rules.after <= r /\ r - p <= rules.max
      /\ IsOpen(p) /\ IsOpen(r)
  BY <1>2 DEF Stay
<1>4. CASE answer.verdict = "too_long"
  <2>1. p <= answer.pickup /\ answer.return <= r
    BY <1>2, <1>3, <1>4, Dated
  <2>2. answer.return - answer.pickup > rules.max
    BY <1>2, <1>4, Dated DEF Verdict
  <2> QED
    BY <1>1, <1>2, <1>3, <1>4, <2>1, <2>2, Dated
<1>5. CASE answer.verdict = "no_open_day"
  <2>1. DerivedDates(e) = {}
    <3>1. CASE answer.pickup \in Roll(e - rules.lead, -1) /\ answer.return \in Roll(e + rules.after, 1)
               /\ answer.verdict = Verdict([pickup |-> answer.pickup, return |-> answer.return], e)
      BY <1>5, <3>1 DEF Verdict
    <3> QED
      BY <1>2, <3>1, Answered
  <2>2. Roll(e - rules.lead, -1) = {} \/ Roll(e + rules.after, 1) = {}
    <3>1. ASSUME NEW d \in Roll(e - rules.lead, -1), NEW f \in Roll(e + rules.after, 1)
          PROVE  FALSE
      <4>1. [pickup |-> d, return |-> f] \in DerivedDates(e)
        BY DEF DerivedDates
      <4> QED
        BY <2>1, <4>1
    <3> QED
      BY <3>1
  <2>3. CASE Roll(e - rules.lead, -1) = {}
    <3>1. ASSUME NEW k \in 0..13 PROVE ~IsOpen(e - rules.lead + (-1) * k)
      <4>1. e - rules.lead \in Int /\ -1 \in Int /\ k \in 0..MAX_ROLL_DAYS - 1
        BY <1>1, <1>2 DEF MAX_ROLL_DAYS
      <4> QED
        BY <2>3, <4>1, RollReaches
    <3>2. ASSUME e - rules.lead - p \in 0..13 PROVE FALSE
      <4>1. e - rules.lead + (-1) * (e - rules.lead - p) = p
        BY <1>1, <1>2
      <4> QED
        BY <1>3, <3>1, <3>2, <4>1
    <3>3. e - rules.lead - p >= 14
      BY <1>1, <1>2, <1>3, <3>2
    <3>4. rules.lead = 0 /\ r = e
      BY <1>1, <1>2, <1>3, <3>3
    <3>5. ~IsOpen(e)
      BY <1>2, <3>1, <3>4
    <3> QED
      BY <1>3, <3>4, <3>5
  <2>4. CASE Roll(e + rules.after, 1) = {}
    <3>1. ASSUME NEW k \in 0..13 PROVE ~IsOpen(e + rules.after + 1 * k)
      <4>1. e + rules.after \in Int /\ 1 \in Int /\ k \in 0..MAX_ROLL_DAYS - 1
        BY <1>1, <1>2 DEF MAX_ROLL_DAYS
      <4> QED
        BY <2>4, <4>1, RollReaches
    <3>2. ASSUME r - (e + rules.after) \in 0..13 PROVE FALSE
      <4>1. e + rules.after + 1 * (r - (e + rules.after)) = r
        BY <1>1, <1>2
      <4> QED
        BY <1>3, <3>1, <3>2, <4>1
    <3>3. r - (e + rules.after) >= 14
      BY <1>1, <1>2, <1>3, <3>2
    <3>4. rules.after = 0 /\ p = e
      BY <1>1, <1>2, <1>3, <3>3
    <3>5. ~IsOpen(e)
      BY <1>2, <3>1, <3>4
    <3> QED
      BY <1>3, <3>4, <3>5
  <2> QED
    BY <2>2, <2>3, <2>4
<1> QED
  BY <1>2, <1>4, <1>5

\* For any rules the shops table admits, any closures and any event day, the
\* dates derived are never refused except for being past or too long.
THEOREM DerivedDatesAlwaysFit == Spec => []DerivedDatesFit
<1>1. Init => IInv
  BY Initial
<1>2. IInv /\ [Next]_vars => IInv'
  BY Inductive
<1>3. IInv => DerivedDatesFit
  BY Fits
<1> QED
  BY <1>1, <1>2, <1>3, PTL DEF Spec

\* No stay the rules allow is shorter than the one derived.
THEOREM DerivedDatesAreTightest == Spec => []DatesAreTightest
<1>1. Init => IInv
  BY Initial
<1>2. IInv /\ [Next]_vars => IInv'
  BY Inductive
<1>3. IInv => DatesAreTightest
  BY Tightest
<1> QED
  BY <1>1, <1>2, <1>3, PTL DEF Spec

\* A renter is refused for want of an open day, or for length, only if no stay
\* the rules allow exists: MAX_ROLL_DAYS is far enough for every shop.
THEOREM RefusalsAreFinal == Spec => []RefusalIsFinal
<1>1. Init => IInv
  BY Initial
<1>2. IInv /\ [Next]_vars => IInv'
  BY Inductive
<1>3. IInv => RefusalIsFinal
  BY Final
<1> QED
  BY <1>1, <1>2, <1>3, PTL DEF Spec
==============================================================================
