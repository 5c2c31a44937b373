------------------------------- MODULE Outbox -------------------------------
(***************************************************************************)
(* The outbox: messages that handlers queue in their own transactions      *)
(* (notify/outbox.py), and the delivery job (jobs.py) that the scheduler   *)
(* thread and the cron endpoint may run at the same time.                  *)
(*                                                                         *)
(* A run of the job locks a batch of queued rows, hands them to the mail   *)
(* and Telegram providers one by one, and only then commits what became of *)
(* them.  The providers do not take part in the transaction: what they     *)
(* have accepted stays accepted when the run is rolled back.               *)
(***************************************************************************)
EXTENDS Integers, FiniteSets

CONSTANTS
  Messages,    \* the notifications, by primary key (a bound)
  Workers,     \* where the job may run: the scheduler thread, a cron request
  Limit,       \* the size of a batch
  MaxMishaps   \* how many runs die, and answers get lost (a bound)

MAX_ATTEMPTS == 5

ASSUME MessagesAssumption == Messages \subseteq Nat
ASSUME BoundsAssumption == Limit \in Nat \ {0} /\ MaxMishaps \in Nat

VARIABLES
  status,      \* the notifications table, committed
  attempts,
  batch,       \* the rows each worker's transaction has locked
  accepted,    \* of those, the ones the provider has taken
  raised,      \* and the ones whose sending raised an exception
  delivered,   \* how often the provider has taken each message
  unrecorded,  \* how often without the table ever saying so
  mishaps

vars == <<status, attempts, batch, accepted, raised, delivered, unrecorded, mishaps>>

Queued == {m \in Messages : status[m] = "queued"}
Locked == UNION {batch[w] : w \in Workers}
Left(w) == batch[w] \ (accepted[w] \cup raised[w])

\* A row in id order is handed to its provider after all the earlier ones.
IsNext(w, m) == m \in Left(w) /\ \A n \in Left(w) : m <= n

\* enqueue: the message is there once the handler has committed.
Enqueue(m) ==
  /\ status[m] = "absent"
  /\ status' = [status EXCEPT ![m] = "queued"]
  /\ UNCHANGED <<attempts, batch, accepted, raised, delivered, unrecorded, mishaps>>

OldestOf(rows) == {m \in rows : Cardinality({n \in rows : n < m}) < Limit}

\* Mutant of Select: the rows are read without FOR UPDATE.
SelectUnlocked(w) ==
  /\ batch[w] = {}
  /\ Queued # {}
  /\ batch' = [batch EXCEPT ![w] = OldestOf(Queued)]
  /\ UNCHANGED <<status, attempts, accepted, raised, delivered, unrecorded, mishaps>>

\* The oldest queued rows that no other run has locked.
Select(w) ==
  /\ batch[w] = {}
  /\ Queued \ Locked # {}
  /\ batch' = [batch EXCEPT ![w] = OldestOf(Queued \ Locked)]
  /\ UNCHANGED <<status, attempts, accepted, raised, delivered, unrecorded, mishaps>>

Accept(w, m) ==
  /\ IsNext(w, m)
  /\ accepted' = [accepted EXCEPT ![w] = @ \cup {m}]
  /\ delivered' = [delivered EXCEPT ![m] = @ + 1]
  /\ UNCHANGED <<status, attempts, batch, raised, unrecorded, mishaps>>

\* Rendering fails, the provider says no, or does not answer.
Refuse(w, m) ==
  /\ IsNext(w, m)
  /\ raised' = [raised EXCEPT ![w] = @ \cup {m}]
  /\ UNCHANGED <<status, attempts, batch, accepted, delivered, unrecorded, mishaps>>

\* The provider takes the message, and its answer does not arrive in time.
LoseAnswer(w, m) ==
  /\ IsNext(w, m)
  /\ mishaps < MaxMishaps
  /\ mishaps' = mishaps + 1
  /\ raised' = [raised EXCEPT ![w] = @ \cup {m}]
  /\ delivered' = [delivered EXCEPT ![m] = @ + 1]
  /\ unrecorded' = [unrecorded EXCEPT ![m] = @ + 1]
  /\ UNCHANGED <<status, attempts, batch, accepted>>

\* Mutants of Outcome: one failure too many is allowed; an exception does not
\* keep the row from being marked as sent.
OutcomeLate(w, m) ==
  IF m \in accepted[w] THEN "sent"
  ELSE IF attempts[m] + 1 > MAX_ATTEMPTS THEN "failed" ELSE "queued"
OutcomeAlwaysSent(w, m) ==
  IF m \in accepted[w] \/ attempts[m] + 1 < MAX_ATTEMPTS THEN "sent" ELSE "failed"

Outcome(w, m) ==
  IF m \in accepted[w] THEN "sent"
  ELSE IF attempts[m] + 1 >= MAX_ATTEMPTS THEN "failed" ELSE "queued"

\* Mutant of Tried: only a success is counted as an attempt.
TriedIfSent(w, m) == IF m \in accepted[w] THEN attempts[m] + 1 ELSE attempts[m]

Tried(w, m) == attempts[m] + 1

\* The whole batch has been handed over: what became of it is committed.
Record(w) ==
  /\ batch[w] # {} /\ Left(w) = {}
  /\ status' = [m \in Messages |-> IF m \in batch[w] THEN Outcome(w, m) ELSE status[m]]
  /\ attempts' = [m \in Messages |-> IF m \in batch[w] THEN Tried(w, m) ELSE attempts[m]]
  /\ batch' = [batch EXCEPT ![w] = {}]
  /\ accepted' = [accepted EXCEPT ![w] = {}]
  /\ raised' = [raised EXCEPT ![w] = {}]
  /\ UNCHANGED <<delivered, unrecorded, mishaps>>

\* The process dies, or the commit fails: the table forgets the run, attempts
\* included, and the providers do not.
RollBack(w) ==
  /\ batch[w] # {}
  /\ mishaps < MaxMishaps
  /\ mishaps' = mishaps + 1
  /\ unrecorded' = [m \in Messages |-> IF m \in accepted[w] THEN unrecorded[m] + 1
                                       ELSE unrecorded[m]]
  /\ batch' = [batch EXCEPT ![w] = {}]
  /\ accepted' = [accepted EXCEPT ![w] = {}]
  /\ raised' = [raised EXCEPT ![w] = {}]
  /\ UNCHANGED <<status, attempts, delivered>>

Init ==
  /\ status = [m \in Messages |-> "absent"]
  /\ attempts = [m \in Messages |-> 0]
  /\ batch = [w \in Workers |-> {}]
  /\ accepted = [w \in Workers |-> {}]
  /\ raised = [w \in Workers |-> {}]
  /\ delivered = [m \in Messages |-> 0]
  /\ unrecorded = [m \in Messages |-> 0]
  /\ mishaps = 0

Send(w) == \E m \in Messages : Accept(w, m) \/ Refuse(w, m) \/ LoseAnswer(w, m)

Next ==
  \/ \E m \in Messages : Enqueue(m)
  \/ \E w \in Workers : Select(w) \/ Send(w) \/ Record(w) \/ RollBack(w)

Spec == Init /\ [][Next]_vars

\* The schedule starts the job again and again, and each send ends: the
\* providers' clients have timeouts (notify/senders.py).
Fairness == \A w \in Workers : WF_vars(Select(w)) /\ WF_vars(Send(w)) /\ WF_vars(Record(w))

FairSpec == Spec /\ Fairness
------------------------------------------------------------------------------
(* Properties.                                                             *)

Settled == {"sent", "failed"}

\* The tables and the runs are well formed, and no row counts more attempts than
\* deliver_notifications allows.
TypeOK ==
  /\ status \in [Messages -> {"absent", "queued"} \cup Settled]
  /\ attempts \in [Messages -> 0..MAX_ATTEMPTS]
  /\ batch \in [Workers -> SUBSET Messages]
  /\ accepted \in [Workers -> SUBSET Messages]
  /\ raised \in [Workers -> SUBSET Messages]
  /\ delivered \in [Messages -> Nat]
  /\ unrecorded \in [Messages -> Nat]
  /\ mishaps \in 0..MaxMishaps

\* A message reaches its reader a second time only because a run died, or an
\* answer was lost, after the provider had taken it: two runs at the same time,
\* or a retry, are not enough.
DuplicatesAreMishaps == \A m \in Messages : delivered[m] <= unrecorded[m] + 1

\* What the admin's page calls sent has been taken by the provider, in a run
\* that was not rolled back.
SentIsDelivered ==
  \A m \in Messages : status[m] = "sent" => delivered[m] = unrecorded[m] + 1

\* A message is given up after MAX_ATTEMPTS recorded failures, neither earlier
\* nor later.
GivenUpInTime ==
  \A m \in Messages : /\ status[m] = "queued" => attempts[m] < MAX_ATTEMPTS
                      /\ status[m] = "failed" => attempts[m] = MAX_ATTEMPTS

\* A message that was sent or given up is never taken up again, nor is the
\* verdict on it overwritten by a run that had read it earlier.
SettledForGood ==
  [][\A m \in Messages : status[m] \in Settled => status'[m] = status[m]]_vars

\* Every message queued is sent or given up in the end, also behind a batch of
\* messages that cannot be delivered.
EveryMessageSettles ==
  \A m \in Messages : status[m] = "queued" ~> status[m] \in Settled
==============================================================================
