---------------------------- MODULE OutboxProofs ----------------------------
(***************************************************************************)
(* What the outbox guarantees for any number of messages, workers and      *)
(* mishaps.                                                                *)
(***************************************************************************)
EXTENDS Outbox, TLAPS

USE MessagesAssumption, BoundsAssumption

\* Each run works on rows of its own, all of them still queued, and has an
\* answer only for rows of its batch.
BatchOK ==
  \A w \in Workers :
    /\ accepted[w] \subseteq batch[w] /\ raised[w] \subseteq batch[w]
    /\ accepted[w] \cap raised[w] = {}
    /\ \A m \in batch[w] : status[m] = "queued"
    /\ \A v \in Workers \ {w} : batch[v] \cap batch[w] = {}

\* In the hands of a provider, and the table does not know yet.
Pending(m) == \E w \in Workers : m \in accepted[w]

\* Every acceptance is recorded, pending or lost.
CountOK ==
  \A m \in Messages :
    /\ status[m] = "sent" \/ Pending(m) => delivered[m] = unrecorded[m] + 1
    /\ ~(status[m] = "sent" \/ Pending(m)) => delivered[m] = unrecorded[m]

\* A message nobody has queued yet has not been tried.
FreshOK == \A m \in Messages : status[m] = "absent" => attempts[m] = 0

IInv == TypeOK /\ BatchOK /\ CountOK /\ GivenUpInTime /\ FreshOK

\* The empty table.
LEMMA Initial == ASSUME Init PROVE IInv
  BY DEF Init, IInv, TypeOK, BatchOK, CountOK, Pending, GivenUpInTime, FreshOK, Settled, MAX_ATTEMPTS

\* Queueing a message keeps IInv: nobody has it yet.
LEMMA EnqueueKeeps == ASSUME IInv, NEW m \in Messages, Enqueue(m) PROVE IInv'
<1>1. status' \in [Messages -> {"absent", "queued"} \cup Settled]
  BY DEF IInv, TypeOK, Enqueue, Settled
<1>2. \A n \in Messages : status[n] # "absent" => status'[n] = status[n]
  BY DEF IInv, TypeOK, Enqueue
<1>3. status'[m] = "queued" /\ \A n \in Messages \ {m} : status'[n] = status[n]
  BY DEF IInv, TypeOK, Enqueue
<1>4. BatchOK'
  BY <1>2 DEF IInv, TypeOK, BatchOK, Enqueue
<1>5. CountOK'
  BY <1>3 DEF IInv, CountOK, Pending, Enqueue
<1>6. GivenUpInTime' /\ FreshOK'
  BY <1>3 DEF IInv, GivenUpInTime, FreshOK, Enqueue, MAX_ATTEMPTS
<1> QED
  BY <1>1, <1>4, <1>5, <1>6 DEF IInv, TypeOK, Enqueue

\* The rows a run locks are queued and nobody else's.
LEMMA SelectKeeps == ASSUME IInv, NEW w \in Workers, Select(w) PROVE IInv'
<1>1. /\ OldestOf(Queued \ Locked) \in SUBSET Messages
      /\ \A m \in OldestOf(Queued \ Locked) : status[m] = "queued"
      /\ \A v \in Workers : batch[v] \cap OldestOf(Queued \ Locked) = {}
  BY DEF OldestOf, Queued, Locked
<1>2. /\ batch' \in [Workers -> SUBSET Messages]
      /\ batch'[w] = OldestOf(Queued \ Locked)
      /\ \A v \in Workers \ {w} : batch'[v] = batch[v]
  <2> HIDE DEF OldestOf
  <2> QED
    BY <1>1, ZenonT(60) DEF Select, IInv, TypeOK
<1>3. accepted[w] = {} /\ raised[w] = {}
  BY DEF IInv, BatchOK, Select
<1>4. BatchOK'
  <2>1. status' = status /\ accepted' = accepted /\ raised' = raised
    BY DEF Select
  <2>2. BatchOK
    BY DEF IInv
  <2> HIDE DEF IInv
  <2>3. ASSUME NEW v \in Workers
        PROVE  /\ accepted'[v] \subseteq batch'[v] /\ raised'[v] \subseteq batch'[v]
               /\ accepted'[v] \cap raised'[v] = {}
               /\ \A m \in batch'[v] : status'[m] = "queued"
    <3>1. CASE v = w
      BY <1>1, <1>2, <1>3, <2>1, <3>1
    <3>2. CASE v # w
      BY <1>2, <2>1, <2>2, <2>3, <3>2 DEF BatchOK
    <3> QED
      BY <3>1, <3>2
  <2>4. ASSUME NEW v \in Workers, NEW u \in Workers \ {v} PROVE batch'[u] \cap batch'[v] = {}
    <3>1. CASE v = w
      BY <1>1, <1>2, <2>4, <3>1
    <3>2. CASE u = w
      BY <1>1, <1>2, <2>4, <3>2
    <3>3. CASE v # w /\ u # w
      BY <1>2, <2>2, <2>4, <3>3 DEF BatchOK
    <3> QED
      BY <3>1, <3>2, <3>3
  <2> QED
    BY <2>3, <2>4 DEF BatchOK
<1> QED
  BY <1>2, <1>4 DEF Select, IInv, TypeOK, CountOK, Pending, GivenUpInTime, FreshOK

\* A message is handed over once by a run, and by one run only.
LEMMA SendKeeps == ASSUME IInv, NEW w \in Workers, Send(w) PROVE IInv'
<1>1. PICK m \in Messages : Accept(w, m) \/ Refuse(w, m) \/ LoseAnswer(w, m)
  BY DEF Send
<1>2. /\ m \in batch[w] /\ m \notin accepted[w] /\ m \notin raised[w]
      /\ status[m] = "queued" /\ ~Pending(m)
  BY <1>1 DEF Accept, Refuse, LoseAnswer, IsNext, Left, IInv, BatchOK, Pending
<1>3. delivered[m] = unrecorded[m] /\ delivered[m] \in Nat
  BY <1>2 DEF IInv, CountOK, TypeOK
<1>4. CASE Accept(w, m)
  <2>1. /\ accepted' \in [Workers -> SUBSET Messages]
        /\ accepted'[w] = accepted[w] \cup {m}
        /\ \A v \in Workers \ {w} : accepted'[v] = accepted[v]
        /\ delivered' \in [Messages -> Nat]
        /\ delivered'[m] = delivered[m] + 1
        /\ \A n \in Messages \ {m} : delivered'[n] = delivered[n]
    BY <1>4, <1>3 DEF Accept, IInv, TypeOK
  <2>2. \A n \in Messages : Pending(n)' <=> n = m \/ Pending(n)
    BY <2>1 DEF Pending
  <2>3. CountOK'
    BY <1>2, <1>3, <1>4, <2>1, <2>2 DEF Accept, IInv, CountOK
  <2>4. BatchOK'
    BY <1>2, <1>4, <2>1 DEF Accept, IInv, BatchOK
  <2> QED
    BY <1>4, <2>1, <2>3, <2>4 DEF Accept, IInv, TypeOK, GivenUpInTime, FreshOK
<1>5. CASE Refuse(w, m)
  <2>1. /\ raised' \in [Workers -> SUBSET Messages]
        /\ raised'[w] = raised[w] \cup {m}
        /\ \A v \in Workers \ {w} : raised'[v] = raised[v]
    BY <1>5 DEF Refuse, IInv, TypeOK
  <2>2. BatchOK'
    BY <1>2, <1>5, <2>1 DEF Refuse, IInv, BatchOK
  <2> QED
    BY <1>5, <2>1, <2>2 DEF Refuse, IInv, TypeOK, CountOK, Pending, GivenUpInTime, FreshOK
<1>6. CASE LoseAnswer(w, m)
  <2>1. /\ raised' \in [Workers -> SUBSET Messages]
        /\ raised'[w] = raised[w] \cup {m}
        /\ \A v \in Workers \ {w} : raised'[v] = raised[v]
    BY <1>6 DEF LoseAnswer, IInv, TypeOK
  <2>2. /\ delivered' \in [Messages -> Nat] /\ unrecorded' \in [Messages -> Nat]
        /\ delivered'[m] = delivered[m] + 1 /\ unrecorded'[m] = unrecorded[m] + 1
        /\ \A n \in Messages \ {m} : /\ delivered'[n] = delivered[n]
                                     /\ unrecorded'[n] = unrecorded[n]
    BY <1>6, <1>3 DEF LoseAnswer, IInv, TypeOK
  <2>3. BatchOK'
    BY <1>2, <1>6, <2>1 DEF LoseAnswer, IInv, BatchOK
  <2>4. CountOK'
    BY <1>2, <1>3, <1>6, <2>2 DEF LoseAnswer, IInv, CountOK, Pending
  <2>5. mishaps' \in 0..MaxMishaps
    BY <1>6 DEF LoseAnswer, IInv, TypeOK
  <2> QED
    BY <1>6, <2>1, <2>2, <2>3, <2>4, <2>5
    DEF LoseAnswer, IInv, TypeOK, GivenUpInTime, FreshOK
<1> QED
  BY <1>1, <1>4, <1>5, <1>6

\* A worker that comes to rest lets go of its rows only.
LEMMA Released ==
  ASSUME IInv, NEW w \in Workers, batch' = [batch EXCEPT ![w] = {}],
         accepted' = [accepted EXCEPT ![w] = {}], raised' = [raised EXCEPT ![w] = {}]
  PROVE  /\ batch' \in [Workers -> SUBSET Messages]
         /\ accepted' \in [Workers -> SUBSET Messages]
         /\ raised' \in [Workers -> SUBSET Messages]
         /\ batch'[w] = {} /\ accepted'[w] = {} /\ raised'[w] = {}
         /\ \A v \in Workers \ {w} : /\ batch'[v] = batch[v]
                                     /\ accepted'[v] = accepted[v]
                                     /\ raised'[v] = raised[v]
         /\ \A m \in Messages : Pending(m)' <=> Pending(m) /\ m \notin accepted[w]
<1>1. /\ batch' \in [Workers -> SUBSET Messages]
      /\ accepted' \in [Workers -> SUBSET Messages]
      /\ raised' \in [Workers -> SUBSET Messages]
      /\ batch'[w] = {} /\ accepted'[w] = {} /\ raised'[w] = {}
      /\ \A v \in Workers \ {w} : /\ batch'[v] = batch[v]
                                  /\ accepted'[v] = accepted[v]
                                  /\ raised'[v] = raised[v]
  BY DEF IInv, TypeOK
<1>2. \A v \in Workers \ {w} : accepted[v] \cap accepted[w] = {}
  BY DEF IInv, BatchOK
<1>3. \A m \in Messages : Pending(m)' <=> Pending(m) /\ m \notin accepted[w]
  BY <1>1, <1>2 DEF Pending
<1> QED
  BY <1>1, <1>3

\* The verdicts a run records are true of the rows it had locked.
LEMMA RecordKeeps == ASSUME IInv, NEW w \in Workers, Record(w) PROVE IInv'
<1>1. batch[w] = accepted[w] \cup raised[w]
  BY DEF Record, Left, IInv, BatchOK
<1>2. \A m \in batch[w] : /\ m \in Messages /\ status[m] = "queued"
                          /\ attempts[m] \in 0..MAX_ATTEMPTS - 1
  BY DEF IInv, TypeOK, BatchOK, GivenUpInTime, MAX_ATTEMPTS
<1>3. \A m \in batch[w] :
        /\ attempts'[m] = attempts[m] + 1
        /\ \/ m \in accepted[w] /\ status'[m] = "sent"
           \/ /\ m \notin accepted[w]
              /\ \/ status'[m] = "failed" /\ attempts'[m] = MAX_ATTEMPTS
                 \/ status'[m] = "queued" /\ attempts'[m] < MAX_ATTEMPTS
  BY <1>2 DEF Record, Outcome, Tried, MAX_ATTEMPTS
<1>4. \A m \in Messages \ batch[w] : status'[m] = status[m] /\ attempts'[m] = attempts[m]
  BY DEF Record
<1>5. \A m \in Messages : m \in accepted[w] => m \in batch[w]
  BY <1>1
<1>6. /\ status' \in [Messages -> {"absent", "queued"} \cup Settled]
      /\ attempts' \in [Messages -> 0..MAX_ATTEMPTS]
  <2>1. \A m \in Messages : /\ status'[m] \in {"absent", "queued"} \cup Settled
                            /\ attempts'[m] \in 0..MAX_ATTEMPTS
    BY <1>2, <1>3, <1>4 DEF IInv, TypeOK, Settled, MAX_ATTEMPTS
  <2>2. /\ status' = [m \in Messages |-> status'[m]]
        /\ attempts' = [m \in Messages |-> attempts'[m]]
    BY DEF Record
  <2> QED
    BY <2>1, <2>2
<1>7. BatchOK'
  <2>1. \A v \in Workers \ {w} : batch[v] \cap batch[w] = {}
    BY DEF IInv, BatchOK
  <2> QED
    BY <1>4, <2>1, Released DEF Record, IInv, TypeOK, BatchOK
<1>8. CountOK'
  <2>1. SUFFICES ASSUME NEW m \in Messages
                 PROVE  /\ status'[m] = "sent" \/ Pending(m)' => delivered[m] = unrecorded[m] + 1
                        /\ ~(status'[m] = "sent" \/ Pending(m)') => delivered[m] = unrecorded[m]
    BY DEF Record, CountOK
  <2>2. Pending(m)' <=> Pending(m) /\ m \notin accepted[w]
    BY Released DEF Record
  <2>3. m \in accepted[w] => Pending(m)
    BY DEF Pending
  <2>4. m \in batch[w] /\ m \notin accepted[w] => ~Pending(m)
    BY <1>1 DEF Pending, IInv, BatchOK
  <2>5. CASE m \in batch[w]
    BY <1>2, <1>3, <2>2, <2>3, <2>4, <2>5 DEF IInv, CountOK
  <2>6. CASE m \notin batch[w]
    BY <1>4, <1>5, <2>2, <2>6 DEF IInv, CountOK
  <2> QED
    BY <2>5, <2>6
<1>9. GivenUpInTime' /\ FreshOK'
  BY <1>3, <1>4 DEF IInv, GivenUpInTime, FreshOK
<1> QED
  BY <1>6, <1>7, <1>8, <1>9, Released DEF Record, IInv, TypeOK

\* A run that dies leaves the table alone, and each of its acceptances is lost.
LEMMA RollBackKeeps == ASSUME IInv, NEW w \in Workers, RollBack(w) PROVE IInv'
<1>1. /\ unrecorded' \in [Messages -> Nat]
      /\ \A m \in Messages : unrecorded'[m] = IF m \in accepted[w] THEN unrecorded[m] + 1
                                              ELSE unrecorded[m]
  BY DEF RollBack, IInv, TypeOK
<1>2. mishaps' \in 0..MaxMishaps
  BY DEF RollBack, IInv, TypeOK
<1>3. BatchOK'
  <2>1. /\ status' = status
        /\ batch'[w] = {} /\ accepted'[w] = {} /\ raised'[w] = {}
        /\ \A v \in Workers \ {w} : /\ batch'[v] = batch[v]
                                    /\ accepted'[v] = accepted[v]
                                    /\ raised'[v] = raised[v]
    BY Released DEF RollBack
  <2> QED
    BY <2>1 DEF IInv, BatchOK
<1>4. CountOK'
  <2>1. SUFFICES ASSUME NEW m \in Messages
                 PROVE  /\ status[m] = "sent" \/ Pending(m)' => delivered[m] = unrecorded'[m] + 1
                        /\ ~(status[m] = "sent" \/ Pending(m)') => delivered[m] = unrecorded'[m]
    BY DEF RollBack, CountOK
  <2>2. Pending(m)' <=> Pending(m) /\ m \notin accepted[w]
    BY Released DEF RollBack
  <2>3. CASE m \in accepted[w]
    <3>1. Pending(m) /\ status[m] # "sent"
      BY <2>3 DEF Pending, IInv, BatchOK
    <3> QED
      BY <1>1, <2>2, <2>3, <3>1 DEF IInv, CountOK
  <2>4. CASE m \notin accepted[w]
    BY <1>1, <2>2, <2>4 DEF IInv, CountOK
  <2> QED
    BY <2>3, <2>4
<1> QED
  BY <1>1, <1>2, <1>3, <1>4, Released
  DEF RollBack, IInv, TypeOK, GivenUpInTime, FreshOK

\* Every step of the handlers and of the runs keeps IInv.
LEMMA Inductive == ASSUME IInv, [Next]_vars PROVE IInv'
<1>1. CASE Next
  BY <1>1, EnqueueKeeps, SelectKeeps, SendKeeps, RecordKeeps, RollBackKeeps DEF Next
<1>2. CASE UNCHANGED vars
  BY <1>2 DEF vars, IInv, TypeOK, BatchOK, CountOK, Pending, GivenUpInTime, FreshOK
<1> QED
  BY <1>1, <1>2

\* In every reachable state of the outbox the acceptances of a message are the
\* recorded one, the pending one and the lost ones.
THEOREM CountsAgree == Spec => []IInv
  BY Initial, Inductive, PTL DEF Spec

\* However many runs deliver at once and however often sending fails, a message
\* arrives at most once for the table, and once more for each mishap.
THEOREM NoDuplicateWithoutMishap == Spec => []DuplicatesAreMishaps
<1>1. IInv => DuplicatesAreMishaps
  BY DEF IInv, TypeOK, CountOK, DuplicatesAreMishaps
<1> QED
  BY <1>1, CountsAgree, PTL

\* A message recorded as sent has been taken by its provider.
THEOREM SentWasDelivered == Spec => []SentIsDelivered
<1>1. IInv => SentIsDelivered
  BY DEF IInv, CountOK, SentIsDelivered
<1> QED
  BY <1>1, CountsAgree, PTL

\* A message is given up after exactly MAX_ATTEMPTS recorded failures.
THEOREM GivesUpInTime == Spec => []GivenUpInTime
<1>1. IInv => GivenUpInTime
  BY DEF IInv
<1> QED
  BY <1>1, CountsAgree, PTL

\* The verdict on a message is final: a run only writes to rows it has locked,
\* and those are queued until it does.
THEOREM VerdictsAreFinal == Spec => SettledForGood
<1>1. ASSUME IInv, [Next]_vars
      PROVE  [\A m \in Messages : status[m] \in Settled => status'[m] = status[m]]_vars
  <2>1. SUFFICES ASSUME Next, NEW m \in Messages, status[m] \in Settled
                 PROVE  status'[m] = status[m]
    BY <1>1 DEF vars
  <2>2. status[m] # "absent" /\ status[m] # "queued"
    BY <2>1 DEF Settled
  <2>3. \A w \in Workers : m \notin batch[w]
    BY <1>1, <2>2 DEF IInv, BatchOK
  <2>4. ASSUME NEW n \in Messages, Enqueue(n) PROVE status'[m] = status[m]
    BY <1>1, <2>2, <2>4 DEF Enqueue, IInv, TypeOK
  <2>5. ASSUME NEW w \in Workers, Record(w) PROVE status'[m] = status[m]
    BY <2>3, <2>5 DEF Record
  <2>6. ASSUME NEW w \in Workers, Select(w) \/ Send(w) \/ RollBack(w)
        PROVE  status'[m] = status[m]
    BY <2>6 DEF Select, Send, Accept, Refuse, LoseAnswer, RollBack
  <2> QED
    BY <2>1, <2>4, <2>5, <2>6 DEF Next
<1> QED
  BY <1>1, CountsAgree, PTL DEF Spec, SettledForGood
==============================================================================
