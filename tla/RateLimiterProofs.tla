--------------------------- MODULE RateLimiterProofs ---------------------------
(***************************************************************************)
(* What the sliding windows guarantee for any number of threads, any limit *)
(* and any window.                                                         *)
(***************************************************************************)
EXTENDS RateLimiter, SequenceTheorems, FiniteSetTheorems, WellFoundedInduction, TLAPS

USE RateLimiterAssumption

Pass == [at : Nat, real : Nat]
AllowWork == [op : {"allow"}, at : Nat]
ServeWork == [op : {"serve"}]
Work == {Idle} \cup AllowWork \cup ServeWork

\* A queue holds the moments of the last calls that were let through, in order.
QueueOf(q, t) ==
    /\ Len(q) <= Len(t)
    /\ \A n \in 1 .. Len(q) : q[n] = t[n + (Len(t) - Len(q))].at
\* The calls whose moments are in the window that ends at m.
Counted(t, m) == {n \in DOMAIN t : t[n].at \in m - Window + 1 .. m}

-----------------------------------------------------------------------------
(* Queues and windows. *)

\* A bounded set of numbers has a greatest one.
LEMMA GreatestOf ==
    ASSUME NEW T, T \subseteq Nat, T # {}, NEW bound \in Nat, \A n \in T : n <= bound
    PROVE  \E n \in T : \A m \in T : m <= n
<1> DEFINE D == {k \in Nat : bound - k \in T}
<1>1. D \subseteq Nat /\ D # {}
  <2>1. PICK n \in T : TRUE
    OBVIOUS
  <2>2. bound - n \in Nat /\ bound - (bound - n) = n
    OBVIOUS
  <2> QED
    BY <2>1, <2>2
<1>2. PICK k \in D : \A j \in D : <<j, k>> \notin OpToRel(<, Nat)
  BY <1>1, WFMin, NatLessThanWellFounded
<1>3. \A j \in D : ~(j < k)
  BY <1>1, <1>2 DEF OpToRel
<1>4. ASSUME NEW m \in T PROVE m <= bound - k
  <2>1. m \in Nat /\ bound - m \in Nat /\ bound - (bound - m) = m
    BY <1>4
  <2>2. ~(bound - m < k)
    BY <1>3, <1>4, <2>1
  <2> QED
    BY <2>1, <2>2
<1> QED
  BY <1>4

\* A trim cuts off the front of a queue, all of it out of the window, and the
\* moment it leaves in front is inside.
LEMMA TrimCuts ==
    ASSUME NEW q \in Seq(Nat), NEW at \in Nat
    PROVE  \E j \in 0 .. Len(q) :
              /\ Trim(q, at) = SubSeq(q, j + 1, Len(q))
              /\ \A n \in 1 .. j : q[n] <= at - Window
              /\ j < Len(q) => q[j + 1] > at - Window
<1> DEFINE old == {n \in DOMAIN q : \A m \in 1 .. n : q[m] <= at - Window}
<1>1. Len(q) \in Nat /\ DOMAIN q = 1 .. Len(q) /\ \A n \in 1 .. Len(q) : q[n] \in Nat
  BY LenProperties, ElementOfSeq
<1>2. Trim(q, at) = SubSeq(q, Cardinality(old) + 1, Len(q))
  BY DEF Trim
<1>3. CASE old = {}
  <2>1. Cardinality(old) = 0
    BY <1>3, FS_EmptySet
  <2>2. ASSUME 0 < Len(q) PROVE q[1] > at - Window
    <3>1. 1 \in DOMAIN q /\ 1 .. 1 = {1}
      BY <1>1, <2>2
    <3>2. ~(q[1] <= at - Window)
      BY <1>3, <3>1
    <3> QED
      BY <1>1, <2>2, <3>2
  <2>3. Trim(q, at) = SubSeq(q, 0 + 1, Len(q))
    BY <1>2, <2>1
  <2>4. /\ 0 \in 0 .. Len(q) /\ \A n \in 1 .. 0 : q[n] <= at - Window
        /\ 0 < Len(q) => q[0 + 1] > at - Window
    BY <1>1, <2>2
  <2> HIDE DEF old
  <2> QED
    BY <2>3, <2>4
<1>4. CASE old # {}
  <2>1. old \subseteq Nat /\ \A n \in old : n <= Len(q)
    BY <1>1
  <2>2. PICK j \in old : \A n \in old : n <= j
    <3> HIDE DEF old
    <3> QED
      BY <1>1, <1>4, <2>1, GreatestOf
  <2>3. j \in 1 .. Len(q) /\ \A n \in 1 .. j : q[n] <= at - Window
    BY <1>1, <2>2
  <2>4. old = 1 .. j
    BY <1>1, <2>2, <2>3
  <2>5. Cardinality(old) = j
    <3> HIDE DEF old
    <3> QED
      BY <2>3, <2>4, FS_Interval
  <2>6. ASSUME j < Len(q) PROVE q[j + 1] > at - Window
    <3>1. j + 1 \in DOMAIN q /\ j + 1 \notin old
      BY <1>1, <2>3, <2>4, <2>6
    <3>2. PICK m \in 1 .. j + 1 : ~(q[m] <= at - Window)
      BY <3>1
    <3>3. m = j + 1
      BY <2>3, <3>2
    <3> QED
      BY <1>1, <2>3, <2>6, <3>2, <3>3
  <2> HIDE DEF old
  <2>7. Trim(q, at) = SubSeq(q, j + 1, Len(q))
    BY <1>2, <2>5
  <2>8. j \in 0 .. Len(q)
    BY <1>1, <2>3
  <2> QED
    BY <2>3, <2>6, <2>7, <2>8
<1> QED
  BY <1>3, <1>4

\* A trimmed queue is shorter and still holds the last moments.
LEMMA TrimOfQueue ==
    ASSUME NEW q \in Seq(Nat), NEW t \in Seq(Pass), QueueOf(q, t), NEW at \in Nat
    PROVE  /\ Trim(q, at) \in Seq(Nat) /\ Len(Trim(q, at)) \in 0 .. Len(q)
           /\ QueueOf(Trim(q, at), t)
           /\ \A n \in 1 .. Len(t) - Len(Trim(q, at)) :
                 n <= Len(t) - Len(q) \/ t[n].at <= at - Window
           /\ Len(Trim(q, at)) > 0 => Trim(q, at)[1] > at - Window
<1>1. PICK j \in 0 .. Len(q) :
              /\ Trim(q, at) = SubSeq(q, j + 1, Len(q))
              /\ \A n \in 1 .. j : q[n] <= at - Window
              /\ j < Len(q) => q[j + 1] > at - Window
  BY TrimCuts
<1> DEFINE r == Trim(q, at)
<1>2. /\ Len(q) \in Nat /\ \A n \in 1 .. Len(q) : q[n] \in Nat
      /\ Len(t) \in Nat /\ j \in Nat /\ Len(q) <= Len(t)
  BY LenProperties, ElementOfSeq DEF QueueOf
<1>3. /\ r \in Seq(Nat) /\ Len(r) = Len(q) - j /\ \A n \in 1 .. Len(q) - j : r[n] = q[n + j]
  <2>1. \A n \in j + 1 .. Len(q) : q[n] \in Nat
    BY <1>2
  <2>2. /\ SubSeq(q, j + 1, Len(q)) \in Seq(Nat)
        /\ Len(SubSeq(q, j + 1, Len(q))) =
             IF j + 1 <= Len(q) THEN Len(q) - (j + 1) + 1 ELSE 0
        /\ \A n \in 1 .. Len(q) - (j + 1) + 1 :
             SubSeq(q, j + 1, Len(q))[n] = q[(j + 1) + n - 1]
    BY <1>2, <2>1, SubSeqProperties
  <2>3. Len(r) = Len(q) - j
    BY <1>1, <1>2, <2>2
  <2>4. \A n \in 1 .. Len(q) - j : r[n] = q[n + j]
    BY <1>1, <1>2, <2>2
  <2> QED
    BY <1>1, <2>2, <2>3, <2>4
<1> HIDE DEF r
<1>4. QueueOf(r, t)
  <2> SUFFICES ASSUME NEW n \in 1 .. Len(r) PROVE r[n] = t[n + (Len(t) - Len(r))].at
    BY <1>2, <1>3 DEF QueueOf
  <2>1. n + j \in 1 .. Len(q) /\ (n + j) + (Len(t) - Len(q)) = n + (Len(t) - Len(r))
    BY <1>2, <1>3
  <2> QED
    BY <1>2, <1>3, <2>1 DEF QueueOf
<1>5. ASSUME NEW n \in 1 .. Len(t) - Len(r), ~(n <= Len(t) - Len(q))
      PROVE  t[n].at <= at - Window
  <2> DEFINE i == n - (Len(t) - Len(q))
  <2>1. i \in 1 .. j /\ i \in 1 .. Len(q) /\ i + (Len(t) - Len(q)) = n
    BY <1>2, <1>3, <1>5
  <2>2. q[i] = t[n].at
    BY <2>1 DEF QueueOf
  <2> QED
    BY <1>1, <2>1, <2>2
<1>6. ASSUME Len(r) > 0 PROVE r[1] > at - Window
  <2>1. j < Len(q) /\ 1 \in 1 .. Len(q) - j /\ 1 + j = j + 1
    BY <1>2, <1>3, <1>6
  <2> QED
    BY <1>1, <1>3, <2>1
<1> QED
  BY <1>2, <1>3, <1>4, <1>5, <1>6 DEF r

\* A call that is let through joins its queue and the history.
LEMMA JoinsQueue ==
    ASSUME NEW q \in Seq(Nat), NEW t \in Seq(Pass), QueueOf(q, t), NEW pass \in Pass
    PROVE  /\ Append(q, pass.at) \in Seq(Nat) /\ Append(t, pass) \in Seq(Pass)
           /\ Len(Append(q, pass.at)) = Len(q) + 1 /\ Len(Append(t, pass)) = Len(t) + 1
           /\ QueueOf(Append(q, pass.at), Append(t, pass))
           /\ Append(t, pass)[Len(t) + 1] = pass
           /\ \A n \in 1 .. Len(t) : Append(t, pass)[n] = t[n]
<1>1. pass.at \in Nat /\ Len(q) \in Nat /\ Len(t) \in Nat /\ Len(q) <= Len(t)
  BY LenProperties DEF Pass, QueueOf
<1> DEFINE r == Append(q, pass.at)
           u == Append(t, pass)
<1>2. /\ r \in Seq(Nat) /\ Len(r) = Len(q) + 1 /\ r[Len(q) + 1] = pass.at
      /\ \A n \in 1 .. Len(q) : r[n] = q[n]
  BY <1>1, AppendProperties
<1>3. /\ u \in Seq(Pass) /\ Len(u) = Len(t) + 1 /\ u[Len(t) + 1] = pass
      /\ \A n \in 1 .. Len(t) : u[n] = t[n]
  BY <1>1, AppendProperties
<1> HIDE DEF r, u
<1>4. ASSUME NEW n \in 1 .. Len(r) PROVE r[n] = u[n + (Len(u) - Len(r))].at
  <2>1. Len(u) - Len(r) = Len(t) - Len(q)
    BY <1>1, <1>2, <1>3
  <2>2. CASE n = Len(q) + 1
    <3>1. n + (Len(u) - Len(r)) = Len(t) + 1
      BY <1>1, <2>1, <2>2
    <3> QED
      BY <1>2, <1>3, <2>2, <3>1
  <2>3. CASE n # Len(q) + 1
    <3>1. n \in 1 .. Len(q) /\ n + (Len(t) - Len(q)) \in 1 .. Len(t)
      BY <1>1, <1>2, <2>3
    <3>2. r[n] = t[n + (Len(t) - Len(q))].at
      BY <1>2, <3>1 DEF QueueOf
    <3> QED
      BY <1>3, <2>1, <3>1, <3>2
  <2> QED
    BY <2>2, <2>3
<1>5. QueueOf(r, u)
  BY <1>1, <1>2, <1>3, <1>4 DEF QueueOf
<1> QED
  BY <1>2, <1>3, <1>5 DEF r, u

\* The calls of a window are finitely many.
LEMMA CountedIsFinite ==
    ASSUME NEW t \in Seq(Pass), NEW m \in Nat
    PROVE  IsFiniteSet(Counted(t, m)) /\ Cardinality(Counted(t, m)) \in Nat
<1>1. Len(t) \in Nat /\ Counted(t, m) \in SUBSET (1 .. Len(t))
  BY LenProperties DEF Counted
<1>2. IsFiniteSet(1 .. Len(t))
  BY <1>1, FS_Interval
<1>3. IsFiniteSet(Counted(t, m))
  BY <1>1, <1>2, FS_Subset
<1> QED
  BY <1>3, FS_CardinalityType

\* When no call of the window has left the queue, they are no more than it holds.
LEMMA CountedAreQueued ==
    ASSUME NEW q \in Seq(Nat), NEW t \in Seq(Pass), QueueOf(q, t), NEW m \in Nat,
           \A n \in 1 .. Len(t) - Len(q) : t[n].at \notin m - Window + 1 .. m
    PROVE  Cardinality(Counted(t, m)) <= Len(q)
<1> DEFINE d == Len(t) - Len(q)
<1>1. /\ Len(q) \in Nat /\ Len(t) \in Nat /\ Len(q) <= Len(t) /\ DOMAIN t = 1 .. Len(t)
  BY LenProperties DEF QueueOf
<1>2. Counted(t, m) \in SUBSET (d + 1 .. Len(t))
  BY <1>1 DEF Counted
<1>3. IsFiniteSet(d + 1 .. Len(t)) /\ Cardinality(d + 1 .. Len(t)) = Len(q)
  <2>1. d + 1 \in Int /\ Len(t) \in Int
    BY <1>1
  <2> HIDE DEF d
  <2>2. /\ IsFiniteSet(d + 1 .. Len(t))
        /\ Cardinality(d + 1 .. Len(t)) = IF d + 1 > Len(t) THEN 0 ELSE Len(t) - (d + 1) + 1
    BY <2>1, FS_Interval
  <2> QED
    BY <1>1, <2>2 DEF d
<1> HIDE DEF d
<1> QED
  BY <1>2, <1>3, FS_Subset

\* A call that is let through counts in the windows its moment is in.
LEMMA CountedAppend ==
    ASSUME NEW t \in Seq(Pass), NEW pass \in Pass, NEW m \in Nat
    PROVE  /\ pass.at \notin m - Window + 1 .. m => Counted(Append(t, pass), m) = Counted(t, m)
           /\ Cardinality(Counted(Append(t, pass), m)) <= Cardinality(Counted(t, m)) + 1
<1> DEFINE u == Append(t, pass)
           n == Len(t) + 1
<1>1. /\ Len(t) \in Nat /\ DOMAIN t = 1 .. Len(t) /\ DOMAIN u = 1 .. n
      /\ u[n] = pass /\ \A i \in 1 .. Len(t) : u[i] = t[i]
  <2>1. u \in Seq(Pass) /\ Len(u) = n
    BY AppendProperties
  <2> QED
    BY <2>1, LenProperties, AppendProperties
<1>2. n \notin DOMAIN t /\ DOMAIN u = DOMAIN t \cup {n} /\ \A i \in DOMAIN t : u[i] = t[i]
  BY <1>1
<1> HIDE DEF u, n
<1>3. Counted(u, m) \subseteq Counted(t, m) \cup {n}
  BY <1>2 DEF Counted
<1>4. pass.at \notin m - Window + 1 .. m => Counted(u, m) = Counted(t, m)
  BY <1>1, <1>2 DEF Counted
<1>5. IsFiniteSet(Counted(t, m)) /\ Cardinality(Counted(t, m)) \in Nat
  BY CountedIsFinite
<1>6. /\ IsFiniteSet(Counted(t, m) \cup {n})
      /\ Cardinality(Counted(t, m) \cup {n}) <= Cardinality(Counted(t, m)) + 1
      /\ Cardinality(Counted(t, m) \cup {n}) \in Nat
  <2>1. /\ IsFiniteSet(Counted(t, m) \cup {n})
        /\ Cardinality(Counted(t, m) \cup {n}) =
             IF n \in Counted(t, m) THEN Cardinality(Counted(t, m))
                                    ELSE Cardinality(Counted(t, m)) + 1
    BY <1>5, FS_AddElement
  <2> QED
    BY <1>5, <2>1
<1>7. IsFiniteSet(Counted(u, m)) /\ Cardinality(Counted(u, m)) \in Nat
      /\ Cardinality(Counted(u, m)) <= Cardinality(Counted(t, m) \cup {n})
  BY <1>3, <1>6, FS_Subset, FS_CardinalityType
<1> QED
  BY <1>4, <1>5, <1>6, <1>7 DEF u
-----------------------------------------------------------------------------
(* The inductive invariant. *)

TypeInv ==
    /\ now \in 0 .. MaxTime
    /\ events \in [Limiters -> Seq(Nat)]
    /\ through \in [Limiters -> Seq(Pass)]
    /\ call \in [Threads -> Work]
    /\ \A k \in Limiters : Len(through[k]) = 0 \/ Threads # {}

\* The clock only runs on: what was let through later was let through at a later
\* moment, though the moment that counts may have been read before.
TimeInv ==
    /\ \A k \in Limiters : \A n \in DOMAIN through[k] :
          /\ through[k][n].at <= through[k][n].real /\ through[k][n].real <= now
          /\ \A m \in 1 .. n : through[k][m].real <= through[k][n].real
    /\ \A w \in Threads : call[w].op = "allow" => call[w].at <= now

QueueInv == \A k \in Limiters : QueueOf(events[k], through[k])

BaseInv == TypeInv /\ TimeInv /\ QueueInv

Limit == MaxEvents + Cardinality(Threads) - 1
Dropped(k) == 1 .. Len(through[k]) - Len(events[k])
Asking(m) == {w \in Threads : call[w].op = "allow" /\ call[w].at <= m}
Serving == {w \in Threads : call[w].op = "serve"}
\* Every call of the window that ends at m is still queued.
Kept(m) == \A n \in Dropped("login") : through["login"][n].at \notin m - Window + 1 .. m

\* Either the queue still knows all the calls of a window, or the window has
\* passed, and there is room in it for everybody who may still be counted in it.
LoginInv ==
    /\ Len(events["login"]) <= MaxEvents
    /\ \A m \in 0 .. MaxTime :
          \/ Kept(m)
          \/ /\ m < now
             /\ Cardinality(Counted(through["login"], m)) + Cardinality(Asking(m)) <= Limit

\* Everybody who is being served has room in the queue, and what has left the queue
\* has left the window.
RequestInv ==
    /\ Len(events["request"]) + Cardinality(Serving) <= Limit
    /\ \A n \in Dropped("request") : through["request"][n].at <= now - Window
    /\ \A m \in 0 .. MaxTime : Cardinality(Counted(through["request"], m)) <= Limit

IInv == BaseInv /\ LoginInv /\ RequestInv

\* What a thread is in the middle of tells which kind of work it is.
LEMMA KindOfWork ==
    ASSUME NEW work \in Work
    PROVE  /\ work.op = "allow" => work \in AllowWork /\ work.at \in Nat
           /\ work.op = "serve" => work \in ServeWork
           /\ work = Idle <=> work.op = "idle"
  BY DEF Work, AllowWork, ServeWork, Idle

\* What the type invariant says of either limiter.
LEMMA QueuesAndHistory ==
    ASSUME BaseInv, NEW k \in Limiters
    PROVE  /\ events[k] \in Seq(Nat) /\ Len(events[k]) \in Nat
           /\ through[k] \in Seq(Pass) /\ Len(through[k]) \in Nat
           /\ DOMAIN through[k] = 1 .. Len(through[k])
           /\ \A n \in 1 .. Len(through[k]) : through[k][n] \in Pass
           /\ QueueOf(events[k], through[k]) /\ Len(events[k]) <= Len(through[k])
<1>1. events[k] \in Seq(Nat) /\ through[k] \in Seq(Pass) /\ QueueOf(events[k], through[k])
  BY DEF BaseInv, TypeInv, QueueInv
<1> QED
  BY <1>1, LenProperties, ElementOfSeq DEF QueueOf

\* A set of threads is finite, and one thread less is one less.
LEMMA ThreadSets ==
    ASSUME NEW S \in SUBSET Threads
    PROVE  /\ IsFiniteSet(S) /\ Cardinality(S) \in Nat /\ Cardinality(S) <= Cardinality(Threads)
           /\ Cardinality(Threads) \in Nat
           /\ \A w \in S : Cardinality(S \ {w}) = Cardinality(S) - 1
           /\ \A w : w \notin S => Cardinality(S \ {w}) = Cardinality(S)
                                   /\ Cardinality(S \cup {w}) = Cardinality(S) + 1
<1>1. IsFiniteSet(S) /\ Cardinality(S) <= Cardinality(Threads)
  BY FS_Subset
<1>2. Cardinality(S) \in Nat /\ Cardinality(Threads) \in Nat
  BY <1>1, FS_CardinalityType
<1>3. ASSUME NEW w \in S PROVE Cardinality(S \ {w}) = Cardinality(S) - 1
  BY <1>1, <1>3, FS_RemoveElement
<1>4. ASSUME NEW w, w \notin S
      PROVE  Cardinality(S \ {w}) = Cardinality(S) /\ Cardinality(S \cup {w}) = Cardinality(S) + 1
  <2>1. S \ {w} = S
    BY <1>4
  <2>2. Cardinality(S \cup {w}) = IF w \in S THEN Cardinality(S) ELSE Cardinality(S) + 1
    BY <1>1, FS_AddElement
  <2> QED
    BY <1>4, <2>1, <2>2
<1> QED
  BY <1>1, <1>2, <1>3, <1>4

\* Types, moments and queues, when a queue is trimmed.
LEMMA TrimKeepsBase ==
    ASSUME BaseInv, NEW k \in Limiters, NEW at \in Nat,
           events' = [events EXCEPT ![k] = Trim(events[k], at)],
           now' = now, through' = through, call' \in [Threads -> Work],
           \A w \in Threads : call'[w].op = "allow" => call'[w].at <= now
    PROVE  BaseInv'
<1>1. /\ events[k] \in Seq(Nat) /\ through[k] \in Seq(Pass) /\ QueueOf(events[k], through[k])
  BY QueuesAndHistory
<1>2. Trim(events[k], at) \in Seq(Nat) /\ QueueOf(Trim(events[k], at), through[k])
  BY <1>1, TrimOfQueue
<1>3. /\ events'[k] = Trim(events[k], at) /\ \A j \in Limiters \ {k} : events'[j] = events[j]
      /\ events' \in [Limiters -> Seq(Nat)]
  BY <1>2 DEF BaseInv, TypeInv
<1>4. QueueInv'
  BY <1>2, <1>3 DEF BaseInv, QueueInv
<1> QED
  BY <1>3, <1>4 DEF BaseInv, TypeInv, TimeInv

\* The same when a call is let through after the trim.
LEMMA LetThroughKeepsBase ==
    ASSUME BaseInv, NEW k \in Limiters, NEW at \in Nat, at <= now, Threads # {},
           Queue(k, Append(Trim(events[k], at), at)), LetThrough(k, at), now' = now,
           call' \in [Threads -> Work],
           \A w \in Threads : call'[w].op = "allow" => call'[w].at <= now
    PROVE  BaseInv'
<1> DEFINE pass == [at |-> at, real |-> now]
           q == Trim(events[k], at)
<1>1. /\ events[k] \in Seq(Nat) /\ through[k] \in Seq(Pass) /\ QueueOf(events[k], through[k])
      /\ Len(through[k]) \in Nat /\ DOMAIN through[k] = 1 .. Len(through[k])
  BY QueuesAndHistory
<1>2. q \in Seq(Nat) /\ QueueOf(q, through[k])
  BY <1>1, TrimOfQueue
<1>3. now \in Nat /\ pass \in Pass /\ pass.at = at /\ pass.real = now
  BY DEF BaseInv, TypeInv, Pass
<1>4. /\ events' = [events EXCEPT ![k] = Append(q, pass.at)]
      /\ through' = [through EXCEPT ![k] = Append(through[k], pass)]
  BY DEF Queue, LetThrough
<1> HIDE DEF pass, q
<1>5. /\ Append(q, pass.at) \in Seq(Nat) /\ Append(through[k], pass) \in Seq(Pass)
      /\ QueueOf(Append(q, pass.at), Append(through[k], pass))
      /\ Len(Append(through[k], pass)) = Len(through[k]) + 1
      /\ Append(through[k], pass)[Len(through[k]) + 1] = pass
      /\ \A n \in 1 .. Len(through[k]) : Append(through[k], pass)[n] = through[k][n]
  BY <1>1, <1>2, <1>3, JoinsQueue
<1>6. /\ events'[k] = Append(q, pass.at) /\ \A j \in Limiters \ {k} : events'[j] = events[j]
      /\ events' \in [Limiters -> Seq(Nat)]
      /\ through'[k] = Append(through[k], pass)
      /\ \A j \in Limiters \ {k} : through'[j] = through[j]
      /\ through' \in [Limiters -> Seq(Pass)]
  BY <1>4, <1>5 DEF BaseInv, TypeInv
<1>7. QueueInv'
  BY <1>5, <1>6 DEF BaseInv, QueueInv
<1>8. TypeInv'
  BY <1>6 DEF BaseInv, TypeInv
<1>9. ASSUME NEW j \in Limiters, NEW n \in DOMAIN through'[j]
      PROVE  /\ through'[j][n].at <= through'[j][n].real /\ through'[j][n].real <= now'
             /\ \A m \in 1 .. n : through'[j][m].real <= through'[j][n].real
  <2>1. CASE j # k
    BY <1>6, <1>9, <2>1 DEF BaseInv, TimeInv
  <2>2. CASE j = k
    <3>1. DOMAIN through'[k] = 1 .. Len(through[k]) + 1
      <4>1. through'[k] \in Seq(Pass) /\ Len(through'[k]) = Len(through[k]) + 1
        BY <1>5, <1>6
      <4> QED
        BY <4>1, LenProperties
    <3>2. CASE n = Len(through[k]) + 1
      <4>1. through'[k][n] = pass
        BY <1>5, <1>6, <3>2
      <4>2. ASSUME NEW m \in 1 .. n PROVE through'[k][m].real <= now
        <5>1. CASE m = n
          BY <1>3, <4>1, <5>1
        <5>2. CASE m # n
          <6>1. m \in 1 .. Len(through[k])
            BY <1>1, <3>2, <5>2
          <6>2. through'[k][m] = through[k][m]
            BY <1>5, <1>6, <6>1
          <6> QED
            BY <1>1, <6>1, <6>2 DEF BaseInv, TimeInv
        <5> QED
          BY <5>1, <5>2
      <4> QED
        BY <1>3, <2>2, <4>1, <4>2
    <3>3. CASE n # Len(through[k]) + 1
      <4>1. n \in 1 .. Len(through[k]) /\ \A m \in 1 .. n : m \in 1 .. Len(through[k])
        <5>1. Len(through[k]) \in Nat
          BY <1>1
        <5>2. n \in 1 .. Len(through[k]) + 1
          BY <1>9, <2>2, <3>1
        <5> QED
          BY <5>1, <5>2, <3>3, SMTT(30)
      <4>2. through'[k][n] = through[k][n] /\ \A m \in 1 .. n : through'[k][m] = through[k][m]
        BY <1>5, <1>6, <4>1
      <4> QED
        BY <1>1, <2>2, <4>1, <4>2 DEF BaseInv, TimeInv
    <3> QED
      BY <3>2, <3>3
  <2> QED
    BY <2>1, <2>2
<1>10. TimeInv'
  BY <1>9 DEF TimeInv
<1> QED
  BY <1>7, <1>8, <1>10 DEF BaseInv

-----------------------------------------------------------------------------
(* The queue of the login forms. *)

LEMMA LimitIsNumber == Limit \in Int
<1>1. Cardinality(Threads) \in Nat
  BY FS_CardinalityType
<1> QED
  BY <1>1 DEF Limit

LEMMA LimiterNames == "login" \in Limiters /\ "request" \in Limiters
  BY DEF Limiters

\* A step that leaves the queue alone and in which nobody asks for a moment that
\* has passed.
LEMMA LoginUntouched ==
    ASSUME BaseInv, LoginInv, now' \in Nat, now <= now',
           events'["login"] = events["login"], through'["login"] = through["login"],
           \A w \in Threads : call'[w].op = "allow" => call'[w] = call[w] \/ call'[w].at = now
    PROVE  LoginInv'
<1>1. now \in Nat
  BY DEF BaseInv, TypeInv
<1>2. ASSUME NEW m \in 0 .. MaxTime
      PROVE  \/ Kept(m)'
             \/ /\ m < now'
                /\ Cardinality(Counted(through["login"], m)') + Cardinality(Asking(m)') <= Limit
  <2>1. Counted(through["login"], m)' = Counted(through["login"], m)
    BY DEF Counted
  <2>2. CASE Kept(m)
    BY <2>2 DEF Kept, Dropped
  <2>3. CASE ~Kept(m)
    <3>1. m < now /\ Cardinality(Counted(through["login"], m)) + Cardinality(Asking(m)) <= Limit
      BY <2>3 DEF LoginInv
    <3>2. Asking(m)' \subseteq Asking(m)
      BY <1>1, <1>2, <3>1 DEF Asking
    <3>3. Asking(m) \in SUBSET Threads /\ IsFiniteSet(Threads)
      BY DEF Asking
    <3>4. IsFiniteSet(Asking(m)) /\ Cardinality(Asking(m)) \in Nat
      BY <3>3, ThreadSets
    <3>5. /\ Cardinality(Asking(m)') <= Cardinality(Asking(m))
          /\ Cardinality(Asking(m)') \in Nat
      BY <3>2, <3>4, FS_Subset, FS_CardinalityType
    <3>6. Cardinality(Counted(through["login"], m)) \in Nat /\ Limit \in Int
      <4>1. through["login"] \in Seq(Pass)
        BY LimiterNames, QueuesAndHistory
      <4> QED
        BY <1>2, <4>1, LimitIsNumber, CountedIsFinite
    <3> QED
      BY <1>1, <1>2, <2>1, <3>1, <3>4, <3>5, <3>6
  <2> QED
    BY <2>2, <2>3
<1> QED
  BY <1>2 DEF LoginInv, Limit

\* What a trim does to a window: either it still keeps all its calls, or the
\* thread that trims has read a moment after it, and cannot be counted in it.
LEMMA LoginTrimmed ==
    ASSUME BaseInv, LoginInv, NEW w \in Threads, call[w].op = "allow", NEW m \in 0 .. MaxTime
    PROVE  LET at == call[w].at
               q == Trim(events["login"], at)
               t == through["login"]
           IN  \/ \A n \in 1 .. Len(t) - Len(q) : t[n].at \notin m - Window + 1 .. m
               \/ /\ m < now
                  /\ Cardinality(Counted(t, m)) + Cardinality(Asking(m) \ {w})
                        + (IF at <= m THEN 1 ELSE 0) <= Limit
<1> DEFINE at == call[w].at
           q == Trim(events["login"], at)
           t == through["login"]
<1>1. now \in Nat /\ at \in Nat /\ at <= now /\ call[w] \in Work
  BY KindOfWork DEF BaseInv, TypeInv, TimeInv
<1>2. /\ events["login"] \in Seq(Nat) /\ t \in Seq(Pass) /\ QueueOf(events["login"], t)
      /\ Len(events["login"]) \in Nat /\ Len(t) \in Nat
      /\ \A n \in 1 .. Len(t) : t[n] \in Pass
  BY LimiterNames, QueuesAndHistory
<1>3. /\ Len(q) \in Nat /\ Len(q) <= Len(events["login"])
      /\ \A n \in 1 .. Len(t) - Len(q) :
            n <= Len(t) - Len(events["login"]) \/ t[n].at <= at - Window
  <2>1. /\ Len(q) \in 0 .. Len(events["login"])
        /\ \A n \in 1 .. Len(t) - Len(q) :
              n <= Len(t) - Len(events["login"]) \/ t[n].at <= at - Window
    BY <1>1, <1>2, TrimOfQueue
  <2> HIDE DEF q, t, at
  <2> QED
    BY <1>2, <2>1
<1>4. Cardinality(Counted(t, m)) \in Nat
  BY <1>2, CountedIsFinite
<1>5. Asking(m) \in SUBSET Threads /\ (w \in Asking(m) <=> at <= m)
  BY DEF Asking
<1>6. /\ Cardinality(Asking(m)) \in Nat /\ Cardinality(Threads) \in Nat
      /\ w \in Asking(m) => Cardinality(Asking(m) \ {w}) = Cardinality(Asking(m)) - 1
      /\ w \notin Asking(m) => Cardinality(Asking(m) \ {w}) = Cardinality(Asking(m))
  BY <1>5, ThreadSets
<1>7. at = call[w].at /\ t = through["login"]
  OBVIOUS
<1> HIDE DEF at, q, t
<1>8. CASE Kept(m) /\ ~\A n \in 1 .. Len(t) - Len(q) : t[n].at \notin m - Window + 1 .. m
  <2>1. PICK n \in 1 .. Len(t) - Len(q) : t[n].at \in m - Window + 1 .. m
    BY <1>8
  <2>2. n \in 1 .. Len(t) /\ t[n].at \in Nat
    BY <1>2, <1>3, <2>1 DEF Pass
  <2>3. t[n].at <= at - Window
    BY <1>2, <1>3, <1>7, <1>8, <2>1, <2>2 DEF Kept, Dropped
  <2>4. m < at
    BY <1>1, <2>1, <2>2, <2>3
  <2>5. Cardinality(Counted(t, m)) <= Len(events["login"]) /\ Len(events["login"]) <= MaxEvents
    <3>1. \A i \in 1 .. Len(t) - Len(events["login"]) : t[i].at \notin m - Window + 1 .. m
      BY <1>7, <1>8 DEF Kept, Dropped
    <3>2. Cardinality(Counted(t, m)) <= Len(events["login"])
      BY <1>2, <3>1, CountedAreQueued
    <3> QED
      BY <3>2 DEF LoginInv
  <2>6. Cardinality(Asking(m) \ {w}) <= Cardinality(Threads) - 1
        /\ Cardinality(Asking(m) \ {w}) \in Nat
    <3>1. Asking(m) \ {w} \in SUBSET (Threads \ {w})
      BY <1>5
    <3>2. /\ IsFiniteSet(Threads \ {w})
          /\ Cardinality(Threads \ {w}) = IF w \in Threads THEN Cardinality(Threads) - 1
                                          ELSE Cardinality(Threads)
      BY FS_RemoveElement
    <3>3. /\ Cardinality(Asking(m) \ {w}) <= Cardinality(Threads \ {w})
          /\ Cardinality(Asking(m) \ {w}) \in Nat
      BY <3>1, <3>2, FS_Subset, FS_CardinalityType
    <3> QED
      BY <3>2, <3>3
  <2>7. Cardinality(Counted(t, m)) + Cardinality(Asking(m) \ {w}) <= Limit
    BY <1>2, <1>4, <1>6, <2>5, <2>6 DEF Limit
  <2>8. /\ m < now
        /\ Cardinality(Counted(t, m)) + Cardinality(Asking(m) \ {w})
              + (IF at <= m THEN 1 ELSE 0) <= Limit
    BY <1>1, <1>4, <2>4, <2>6, <2>7
  <2> QED
    BY <2>8 DEF at, q, t
<1>9. CASE ~Kept(m)
  <2>1. m < now /\ Cardinality(Counted(t, m)) + Cardinality(Asking(m)) <= Limit
    BY <1>7, <1>9 DEF LoginInv
  <2>2. Limit \in Int
    BY <1>6 DEF Limit
  <2>3. Cardinality(Counted(t, m)) + Cardinality(Asking(m) \ {w})
             + (IF at <= m THEN 1 ELSE 0) <= Limit
    <3>1. CASE at <= m
      BY <1>4, <1>5, <1>6, <2>1, <2>2, <3>1
    <3>2. CASE ~(at <= m)
      BY <1>4, <1>5, <1>6, <2>1, <2>2, <3>2
    <3> QED
      BY <3>1, <3>2
  <2> QED
    BY <2>1, <2>3 DEF at, q, t
<1> QED
  BY <1>8, <1>9 DEF at, q, t

\* Who turns a call away has only trimmed the queue.
LEMMA LoginTurnAway ==
    ASSUME BaseInv, LoginInv, NEW w \in Threads, TurnAway(w)
    PROVE  LoginInv'
<1> DEFINE at == call[w].at
           q == Trim(events["login"], at)
           t == through["login"]
<1>1. call[w] \in Work /\ at \in Nat /\ call[w].op = "allow" /\ events["login"] \in Seq(Nat)
      /\ t \in Seq(Pass) /\ QueueOf(events["login"], t) /\ Len(events["login"]) \in Nat
  BY KindOfWork, LimiterNames, QueuesAndHistory DEF BaseInv, TypeInv, TurnAway
<1>2. events'["login"] = q /\ through'["login"] = t /\ now' = now
      /\ call' = [call EXCEPT ![w] = Idle] /\ call \in [Threads -> Work]
  BY LimiterNames DEF TurnAway, Queue, Turns, BaseInv, TypeInv
<1>3. Len(q) \in 0 .. Len(events["login"])
  BY <1>1, TrimOfQueue
<1>4. ASSUME NEW m \in 0 .. MaxTime
      PROVE  \/ Kept(m)'
             \/ /\ m < now'
                /\ Cardinality(Counted(through["login"], m)') + Cardinality(Asking(m)') <= Limit
  <2>1. Asking(m)' = Asking(m) \ {w}
    BY <1>2 DEF Asking, Idle
  <2>2. Counted(through["login"], m)' = Counted(t, m)
    BY <1>2 DEF Counted
  <2>3. \/ \A n \in 1 .. Len(t) - Len(q) : t[n].at \notin m - Window + 1 .. m
        \/ /\ m < now
           /\ Cardinality(Counted(t, m)) + Cardinality(Asking(m) \ {w})
                 + (IF at <= m THEN 1 ELSE 0) <= Limit
    BY <1>1, LoginTrimmed
  <2>4. Cardinality(Counted(t, m)) \in Nat /\ Cardinality(Asking(m) \ {w}) \in Nat /\ Limit \in Int
    <3>1. Asking(m) \ {w} \in SUBSET Threads
      BY DEF Asking
    <3>2. Cardinality(Asking(m) \ {w}) \in Nat
      BY <3>1, ThreadSets
    <3>3. Cardinality(Counted(t, m)) \in Nat
      <4>1. t \in Seq(Pass) /\ m \in Nat
        BY <1>1
      <4> HIDE DEF t, q, at
      <4> QED
        BY <4>1, CountedIsFinite
    <3> QED
      BY <3>2, <3>3, LimitIsNumber
  <2> HIDE DEF at, q, t
  <2>5. CASE \A n \in 1 .. Len(t) - Len(q) : t[n].at \notin m - Window + 1 .. m
    BY <1>2, <2>5 DEF Kept, Dropped
  <2>6. CASE /\ m < now
             /\ Cardinality(Counted(t, m)) + Cardinality(Asking(m) \ {w})
                   + (IF at <= m THEN 1 ELSE 0) <= Limit
    BY <1>2, <2>1, <2>2, <2>4, <2>6
  <2> QED
    BY <2>3, <2>5, <2>6
<1> HIDE DEF at, q, t
<1>5. Len(events'["login"]) <= MaxEvents
  BY <1>1, <1>2, <1>3 DEF LoginInv
<1> QED
  BY <1>4, <1>5 DEF LoginInv, Limit

\* Who is let through finds room in the queue, and counts in no window but those
\* that kept a place for it.
LEMMA LoginAllow ==
    ASSUME BaseInv, LoginInv, NEW w \in Threads, Allow(w)
    PROVE  LoginInv'
<1> DEFINE at == call[w].at
           q == Trim(events["login"], at)
           t == through["login"]
           pass == [at |-> at, real |-> now]
<1>1. call[w] \in Work /\ at \in Nat /\ at <= now /\ now \in Nat /\ call[w].op = "allow"
      /\ t \in Seq(Pass) /\ QueueOf(events["login"], t) /\ events["login"] \in Seq(Nat)
      /\ Len(t) \in Nat
  <2>1. /\ t \in Seq(Pass) /\ QueueOf(events["login"], t) /\ events["login"] \in Seq(Nat)
        /\ Len(t) \in Nat
    BY LimiterNames, QueuesAndHistory
  <2>2. call[w] \in Work /\ call[w].op = "allow" /\ now \in Nat
    BY DEF BaseInv, TypeInv, Allow
  <2>3. at \in Nat /\ at <= now
    BY <2>2, KindOfWork DEF BaseInv, TimeInv
  <2> QED
    BY <2>1, <2>2, <2>3
<1>2. pass \in Pass /\ pass.at = at
  BY <1>1 DEF Pass
<1>3. /\ q \in Seq(Nat) /\ Len(q) \in Nat /\ Len(q) < MaxEvents /\ QueueOf(q, t)
  <2>1. q \in Seq(Nat) /\ Len(q) \in Nat /\ QueueOf(q, t)
    BY <1>1, TrimOfQueue, LenProperties
  <2> QED
    BY <2>1 DEF Allow, Full
<1>4. /\ events'["login"] = Append(q, pass.at) /\ through'["login"] = Append(t, pass)
      /\ now' = now /\ call' = [call EXCEPT ![w] = Idle] /\ call \in [Threads -> Work]
  BY LimiterNames DEF Allow, Queue, LetThrough, Turns, BaseInv, TypeInv
<1> HIDE DEF pass
<1>5. /\ Len(Append(q, pass.at)) = Len(q) + 1 /\ Len(Append(t, pass)) = Len(t) + 1
      /\ \A n \in 1 .. Len(t) : Append(t, pass)[n] = t[n]
      /\ Append(t, pass) \in Seq(Pass)
  BY <1>1, <1>2, <1>3, JoinsQueue
<1>6. ASSUME NEW m \in 0 .. MaxTime
      PROVE  \/ Kept(m)'
             \/ /\ m < now'
                /\ Cardinality(Counted(through["login"], m)') + Cardinality(Asking(m)') <= Limit
  <2>1. Asking(m)' = Asking(m) \ {w}
    BY <1>4 DEF Asking, Idle
  <2>2. Counted(through["login"], m)' = Counted(Append(t, pass), m)
    BY <1>4 DEF Counted
  <2>3. \/ \A n \in 1 .. Len(t) - Len(q) : t[n].at \notin m - Window + 1 .. m
        \/ /\ m < now
           /\ Cardinality(Counted(t, m)) + Cardinality(Asking(m) \ {w})
                 + (IF at <= m THEN 1 ELSE 0) <= Limit
    BY <1>1, LoginTrimmed
  <2>4. /\ Cardinality(Counted(t, m)) \in Nat /\ Cardinality(Asking(m) \ {w}) \in Nat
        /\ Limit \in Int /\ Cardinality(Counted(Append(t, pass), m)) \in Nat
    <3>1. Asking(m) \ {w} \in SUBSET Threads
      BY DEF Asking
    <3>2. Cardinality(Asking(m) \ {w}) \in Nat
      BY <3>1, ThreadSets
    <3>3. Cardinality(Counted(t, m)) \in Nat
      <4>1. t \in Seq(Pass) /\ m \in Nat
        BY <1>1, <1>6
      <4> HIDE DEF t, q, at
      <4> QED
        BY <4>1, CountedIsFinite
    <3>4. Cardinality(Counted(Append(t, pass), m)) \in Nat
      <4> DEFINE u == Append(t, pass)
      <4>1. u \in Seq(Pass)
        BY <1>5
      <4> HIDE DEF u
      <4>2. Cardinality(Counted(u, m)) \in Nat
        BY <1>6, <4>1, CountedIsFinite
      <4> QED
        BY <4>2 DEF u
    <3> QED
      BY <3>2, <3>3, <3>4, LimitIsNumber
  <2>5. /\ at > m => Counted(Append(t, pass), m) = Counted(t, m)
        /\ Cardinality(Counted(Append(t, pass), m)) <= Cardinality(Counted(t, m)) + 1
    <3>1. at > m => pass.at \notin m - Window + 1 .. m
      BY <1>1, <1>2
    <3> QED
      BY <1>1, <1>2, <3>1, CountedAppend
  <2> HIDE DEF at, q, t
  <2>6. CASE \A n \in 1 .. Len(t) - Len(q) : t[n].at \notin m - Window + 1 .. m
    <3>1. Len(through'["login"]) - Len(events'["login"]) = Len(t) - Len(q)
      BY <1>1, <1>3, <1>4, <1>5
    <3>2. \A n \in 1 .. Len(t) - Len(q) : through'["login"][n] = t[n]
      BY <1>1, <1>3, <1>4, <1>5
    <3> QED
      BY <2>6, <3>1, <3>2 DEF Kept, Dropped
  <2>7. CASE /\ m < now
             /\ Cardinality(Counted(t, m)) + Cardinality(Asking(m) \ {w})
                   + (IF at <= m THEN 1 ELSE 0) <= Limit
    <3>1. CASE at <= m
      BY <1>4, <2>1, <2>2, <2>4, <2>5, <2>7, <3>1
    <3>2. CASE at > m
      BY <1>1, <1>4, <2>1, <2>2, <2>4, <2>5, <2>7, <3>2
    <3> QED
      BY <1>1, <1>6, <3>1, <3>2
  <2> QED
    BY <2>3, <2>6, <2>7
<1> HIDE DEF at, q, t
<1>7. Len(events'["login"]) <= MaxEvents
  BY <1>3, <1>4, <1>5
<1> QED
  BY <1>6, <1>7 DEF LoginInv, Limit

-----------------------------------------------------------------------------
(* The queue of the request form. *)

\* A step that leaves the queue alone and serves nobody new.
LEMMA RequestUntouched ==
    ASSUME BaseInv, RequestInv, now' \in Nat, now <= now',
           events'["request"] = events["request"], through'["request"] = through["request"],
           \A w \in Threads : call'[w].op = "serve" => call[w].op = "serve"
    PROVE  RequestInv'
<1>1. now \in Nat /\ Len(events["request"]) \in Nat /\ Len(through["request"]) \in Nat
      /\ \A n \in 1 .. Len(through["request"]) : through["request"][n] \in Pass
  BY LimiterNames, QueuesAndHistory DEF BaseInv, TypeInv
<1>2. Serving' \subseteq Serving /\ Serving \in SUBSET Threads
  BY DEF Serving
<1>3. IsFiniteSet(Serving) /\ Cardinality(Serving) \in Nat
  BY <1>2, ThreadSets
<1>4. Cardinality(Serving') <= Cardinality(Serving) /\ Cardinality(Serving') \in Nat
  BY <1>2, <1>3, FS_Subset, FS_CardinalityType
<1>5. Len(events'["request"]) + Cardinality(Serving') <= Limit
  BY <1>1, <1>3, <1>4, LimitIsNumber DEF RequestInv
<1>6. \A n \in Dropped("request")' : through'["request"][n].at <= now' - Window
  <2> SUFFICES ASSUME NEW n \in Dropped("request") PROVE through["request"][n].at <= now' - Window
    BY DEF Dropped
  <2>1. n \in 1 .. Len(through["request"])
    BY <1>1 DEF Dropped
  <2>2. through["request"][n].at \in Nat /\ through["request"][n].at <= now - Window
    BY <1>1, <2>1 DEF Pass, RequestInv
  <2> QED
    BY <1>1, <2>2
<1>7. \A m \in 0 .. MaxTime : Cardinality(Counted(through["request"], m)') <= Limit
  BY DEF RequestInv, Counted
<1> QED
  BY <1>5, <1>6, <1>7 DEF RequestInv, Limit, Counted

\* What a trim leaves: what it cut off is out of the window of now.
LEMMA RequestTrimmed ==
    ASSUME BaseInv, RequestInv
    PROVE  LET q == Trim(events["request"], now)
               t == through["request"]
           IN  /\ q \in Seq(Nat) /\ Len(q) \in Nat /\ Len(q) <= Len(events["request"])
               /\ QueueOf(q, t)
               /\ \A n \in 1 .. Len(t) - Len(q) : t[n].at <= now - Window
<1> DEFINE q == Trim(events["request"], now)
           t == through["request"]
<1>1. now \in Nat /\ events["request"] \in Seq(Nat) /\ t \in Seq(Pass)
      /\ QueueOf(events["request"], t) /\ Len(events["request"]) \in Nat /\ Len(t) \in Nat
  BY LimiterNames, QueuesAndHistory DEF BaseInv, TypeInv
<1>2. /\ q \in Seq(Nat) /\ Len(q) \in 0 .. Len(events["request"]) /\ QueueOf(q, t)
      /\ \A n \in 1 .. Len(t) - Len(q) :
            n <= Len(t) - Len(events["request"]) \/ t[n].at <= now - Window
  BY <1>1, TrimOfQueue
<1>3. t = through["request"]
  OBVIOUS
<1> HIDE DEF q, t
<1>4. ASSUME NEW n \in 1 .. Len(t) - Len(q) PROVE t[n].at <= now - Window
  <2>1. CASE n <= Len(t) - Len(events["request"])
    BY <1>1, <1>3, <1>4, <2>1 DEF RequestInv, Dropped
  <2> QED
    BY <1>2, <2>1
<1>5. Len(q) \in Nat /\ Len(q) <= Len(events["request"])
  BY <1>1, <1>2
<1> QED
  BY <1>2, <1>4, <1>5 DEF q, t

\* blocked only trims, and serves a thread when there is room.
LEMMA RequestAskBlocked ==
    ASSUME BaseInv, RequestInv, NEW w \in Threads, AskBlocked(w)
    PROVE  RequestInv'
<1> DEFINE q == Trim(events["request"], now)
           t == through["request"]
<1>1. /\ Len(q) \in Nat /\ Len(q) <= Len(events["request"])
      /\ \A n \in 1 .. Len(t) - Len(q) : t[n].at <= now - Window
      /\ Len(events["request"]) \in Nat
  BY RequestTrimmed, LimiterNames, QueuesAndHistory
<1>2. events'["request"] = q /\ through'["request"] = t /\ now' = now
      /\ call \in [Threads -> Work] /\ call[w].op = "idle"
  BY LimiterNames DEF AskBlocked, Queue, BaseInv, TypeInv, Idle
<1>3. Full(q) => call' = call
  BY DEF AskBlocked
<1>4. ~Full(q) => call' = [call EXCEPT ![w] = [op |-> "serve"]]
  BY DEF AskBlocked, Turns
<1> HIDE DEF q, t
<1>5. Serving \in SUBSET Threads /\ w \notin Serving
  BY <1>2 DEF Serving
<1>6. Cardinality(Serving) \in Nat /\ Cardinality(Threads) \in Nat
      /\ Cardinality(Serving \cup {w}) = Cardinality(Serving) + 1
  BY <1>5, ThreadSets
<1>7. Len(events'["request"]) + Cardinality(Serving') <= Limit
  <2>1. CASE Full(q)
    <3>1. Serving' = Serving
      BY <1>3, <2>1 DEF Serving
    <3> QED
      BY <1>1, <1>2, <1>6, <3>1, LimitIsNumber DEF RequestInv
  <2>2. CASE ~Full(q)
    <3>1. Serving' = Serving \cup {w}
      BY <1>2, <1>4, <2>2 DEF Serving
    <3>2. Serving \cup {w} \in SUBSET Threads
      BY <1>5
    <3>3. Cardinality(Serving \cup {w}) <= Cardinality(Threads)
      BY <3>2, ThreadSets
    <3>4. Len(q) < MaxEvents
      BY <1>1, <2>2 DEF Full
    <3> QED
      BY <1>1, <1>2, <1>6, <3>1, <3>3, <3>4 DEF Limit
  <2> QED
    BY <2>1, <2>2
<1>8. \A n \in Dropped("request")' : through'["request"][n].at <= now' - Window
  BY <1>1, <1>2 DEF Dropped
<1>9. \A m \in 0 .. MaxTime : Cardinality(Counted(through["request"], m)') <= Limit
  BY <1>2 DEF RequestInv, Counted, t
<1> QED
  BY <1>7, <1>8, <1>9 DEF RequestInv, Limit, Counted

\* A booking that is recorded takes the place that was kept for it.
LEMMA RequestRecord ==
    ASSUME BaseInv, RequestInv, NEW w \in Threads, Record(w)
    PROVE  RequestInv'
<1> DEFINE q == Trim(events["request"], now)
           t == through["request"]
           pass == [at |-> now, real |-> now]
<1>1. /\ q \in Seq(Nat) /\ Len(q) \in Nat /\ Len(q) <= Len(events["request"]) /\ QueueOf(q, t)
      /\ \A n \in 1 .. Len(t) - Len(q) : t[n].at <= now - Window
  BY RequestTrimmed
<1>2. now \in 0 .. MaxTime /\ t \in Seq(Pass) /\ Len(t) \in Nat /\ Len(events["request"]) \in Nat
      /\ Len(events["request"]) <= Len(t)
      /\ \A n \in 1 .. Len(t) : t[n] \in Pass
  BY LimiterNames, QueuesAndHistory DEF BaseInv, TypeInv
<1>3. pass \in Pass /\ pass.at = now
  BY <1>2 DEF Pass
<1>4. /\ events'["request"] = Append(q, pass.at) /\ through'["request"] = Append(t, pass)
      /\ now' = now /\ call' = [call EXCEPT ![w] = Idle] /\ call \in [Threads -> Work]
      /\ call[w].op = "serve"
  BY LimiterNames DEF Record, Queue, LetThrough, Turns, BaseInv, TypeInv
<1>5. t = through["request"]
  OBVIOUS
<1> HIDE DEF q, t, pass
<1> DEFINE r == Append(q, pass.at)
           u == Append(t, pass)
<1>6. /\ r \in Seq(Nat) /\ u \in Seq(Pass) /\ Len(r) = Len(q) + 1 /\ Len(u) = Len(t) + 1
      /\ QueueOf(r, u) /\ \A n \in 1 .. Len(t) : u[n] = t[n]
  BY <1>1, <1>2, <1>3, JoinsQueue
<1>7. ASSUME NEW m \in 0 .. MaxTime, m < now PROVE Counted(u, m) = Counted(t, m)
  <2>1. pass.at \notin m - Window + 1 .. m
    BY <1>2, <1>3, <1>7
  <2> QED
    BY <1>2, <1>3, <1>7, <2>1, CountedAppend
<1>8. events'["request"] = r /\ through'["request"] = u
  BY <1>4
<1> HIDE DEF r, u
<1>9. Serving \in SUBSET Threads /\ w \in Serving /\ Serving' = Serving \ {w}
  BY <1>4 DEF Serving, Idle
<1>10. Cardinality(Serving) \in Nat /\ Cardinality(Serving') = Cardinality(Serving) - 1
       /\ Cardinality(Serving') \in Nat
  <2>1. Cardinality(Serving \ {w}) = Cardinality(Serving) - 1 /\ Cardinality(Serving) \in Nat
    BY <1>9, ThreadSets
  <2>2. Serving \ {w} \in SUBSET Threads
    BY <1>9
  <2>3. Cardinality(Serving \ {w}) \in Nat
    BY <2>2, ThreadSets
  <2> QED
    BY <1>9, <2>1, <2>3
<1>11. Len(events'["request"]) + Cardinality(Serving') <= Limit
  BY <1>1, <1>2, <1>6, <1>8, <1>10, LimitIsNumber, SMTT(30) DEF RequestInv
<1>12. \A n \in 1 .. Len(u) - Len(r) : n \in 1 .. Len(t) /\ u[n].at <= now - Window
  <2>1. Len(u) - Len(r) = Len(t) - Len(q)
    BY <1>1, <1>2, <1>6
  <2>2. \A n \in 1 .. Len(t) - Len(q) : n \in 1 .. Len(t)
    BY <1>1, <1>2
  <2> QED
    BY <1>1, <1>6, <2>1, <2>2
<1>13. ASSUME NEW m \in 0 .. MaxTime PROVE Cardinality(Counted(u, m)) <= Limit
  <2>1. CASE m < now
    BY <1>5, <1>7, <2>1 DEF RequestInv
  <2>2. CASE ~(m < now)
    <3>1. ASSUME NEW n \in 1 .. Len(u) - Len(r) PROVE u[n].at \notin m - Window + 1 .. m
      <4>1. n \in 1 .. Len(t) /\ u[n] = t[n] /\ t[n].at \in Nat
        BY <1>2, <1>6, <1>12, <3>1 DEF Pass
      <4> QED
        BY <1>2, <1>12, <1>13, <2>2, <3>1, <4>1, SMTT(30)
    <3>2. Cardinality(Counted(u, m)) <= Len(r) /\ Cardinality(Counted(u, m)) \in Nat
      <4>1. Cardinality(Counted(u, m)) <= Len(r)
        <5>1. m \in Nat
          BY <1>13
        <5> QED
          BY <1>6, <3>1, <5>1, CountedAreQueued
      <4> QED
        BY <1>6, <1>13, <4>1, CountedIsFinite
    <3> QED
      BY <1>1, <1>6, <1>8, <1>10, <1>11, <3>2, LimitIsNumber
  <2> QED
    BY <2>1, <2>2
<1>14. \A n \in Dropped("request")' : through'["request"][n].at <= now' - Window
  BY <1>4, <1>8, <1>12 DEF Dropped
<1>15. \A m \in 0 .. MaxTime : Cardinality(Counted(through["request"], m)') <= Limit
  BY <1>8, <1>13 DEF Counted
<1> QED
  BY <1>11, <1>14, <1>15 DEF RequestInv, Limit, Counted

-----------------------------------------------------------------------------
(* The invariant is inductive. *)

LEMMA NextKeeps == ASSUME IInv, [Next]_vars PROVE IInv'
<1> USE DEF IInv
<1>1. now \in Nat /\ call \in [Threads -> Work] /\ Idle \in Work
      /\ \A w \in Threads : call[w] \in Work
  BY DEF BaseInv, TypeInv, Work
<1>2. ASSUME UNCHANGED vars PROVE IInv'
  <2>1. BaseInv'
    BY <1>2 DEF vars, BaseInv, TypeInv, TimeInv, QueueInv
  <2> QED
    BY <1>1, <1>2, <2>1, LoginUntouched, RequestUntouched DEF vars
<1>3. ASSUME Tick PROVE IInv'
  <2>1. now' = now + 1 /\ now < MaxTime /\ UNCHANGED <<events, call, through>>
    BY <1>3 DEF Tick
  <2>2. TypeInv' /\ QueueInv'
    BY <1>1, <2>1 DEF BaseInv, TypeInv, QueueInv
  <2>3. TimeInv'
    <3>1. \A w \in Threads : call[w].op = "allow" => call[w].at \in Nat
      BY <1>1, KindOfWork
    <3>2. \A k \in Limiters : \A n \in DOMAIN through[k] : through[k][n].real \in Nat
      BY QueuesAndHistory DEF Pass
    <3> QED
      BY <1>1, <2>1, <3>1, <3>2 DEF BaseInv, TimeInv
  <2>4. now' \in Nat /\ now <= now'
    BY <1>1, <2>1
  <2> QED
    BY <2>1, <2>2, <2>3, <2>4, LoginUntouched, RequestUntouched DEF BaseInv
<1>4. ASSUME NEW w \in Threads, AskAllow(w) PROVE IInv'
  <2> DEFINE step == [op |-> "allow", at |-> now]
  <2>1. step \in Work /\ step.op = "allow" /\ step.at = now
    BY <1>1 DEF Work, AllowWork
  <2> HIDE DEF step
  <2>2. /\ call' \in [Threads -> Work] /\ call'[w] = step
        /\ \A v \in Threads \ {w} : call'[v] = call[v]
        /\ UNCHANGED <<now, events, through>>
    BY <1>1, <1>4, <2>1 DEF AskAllow, Turns, step
  <2>3. BaseInv'
    <3>1. \A v \in Threads : call'[v].op = "allow" => call'[v].at <= now
      BY <1>1, <2>1, <2>2 DEF BaseInv, TimeInv
    <3> QED
      BY <2>2, <3>1 DEF BaseInv, TypeInv, TimeInv, QueueInv
  <2> QED
    BY <1>1, <2>1, <2>2, <2>3, LoginUntouched, RequestUntouched
<1>5. ASSUME NEW w \in Threads, Allow(w) \/ TurnAway(w) PROVE IInv'
  <2> DEFINE at == call[w].at
  <2>1. at \in Nat /\ at <= now /\ now' = now
    BY <1>1, <1>5, KindOfWork DEF BaseInv, TimeInv, Allow, TurnAway
  <2>2. /\ call' \in [Threads -> Work] /\ call'[w] = Idle
        /\ \A v \in Threads \ {w} : call'[v] = call[v]
    BY <1>1, <1>5 DEF Allow, TurnAway, Turns
  <2>3. /\ \A v \in Threads : call'[v].op = "allow" => call'[v].at <= now
        /\ \A v \in Threads : call'[v].op = "serve" => call[v].op = "serve"
    BY <2>2 DEF BaseInv, TimeInv, Idle
  <2>4. events'["request"] = events["request"] /\ through'["request"] = through["request"]
    BY <1>5 DEF Allow, TurnAway, Queue, LetThrough, Limiters, BaseInv, TypeInv
  <2>5. RequestInv'
    BY <1>1, <2>1, <2>3, <2>4, RequestUntouched
  <2>6. CASE Allow(w)
    <3>1. Queue("login", Append(Trim(events["login"], at), at)) /\ LetThrough("login", at)
      BY <2>6 DEF Allow
    <3> HIDE DEF at
    <3>2. BaseInv'
      BY <2>1, <2>2, <2>3, <3>1, LetThroughKeepsBase, LimiterNames
    <3> QED
      BY <2>5, <2>6, <3>2, LoginAllow
  <2>7. CASE TurnAway(w)
    <3>1. events' = [events EXCEPT !["login"] = Trim(events["login"], at)] /\ through' = through
      BY <2>7 DEF TurnAway, Queue
    <3> HIDE DEF at
    <3>2. BaseInv'
      BY <2>1, <2>2, <2>3, <3>1, TrimKeepsBase, LimiterNames
    <3> QED
      BY <2>5, <2>7, <3>2, LoginTurnAway
  <2> QED
    BY <1>5, <2>6, <2>7
<1>6. ASSUME NEW w \in Threads, AskBlocked(w) PROVE IInv'
  <2>1. /\ events' = [events EXCEPT !["request"] = Trim(events["request"], now)]
        /\ through' = through /\ now' = now
        /\ call' = call \/ call' = [call EXCEPT ![w] = [op |-> "serve"]]
    BY <1>6 DEF AskBlocked, Queue, Turns
  <2>2. [op |-> "serve"] \in Work
    BY DEF Work, ServeWork
  <2>3. /\ call' \in [Threads -> Work]
        /\ \A v \in Threads : call'[v].op = "allow" => call'[v] = call[v]
    BY <1>1, <2>1, <2>2
  <2>4. \A v \in Threads : call'[v].op = "allow" => call'[v].at <= now
    BY <2>3 DEF BaseInv, TimeInv
  <2>5. BaseInv'
    BY <1>1, <2>1, <2>3, <2>4, TrimKeepsBase, LimiterNames
  <2>6. events'["login"] = events["login"] /\ through'["login"] = through["login"]
    BY <2>1 DEF Limiters, BaseInv, TypeInv
  <2>7. LoginInv'
    BY <1>1, <2>1, <2>3, <2>6, LoginUntouched
  <2> QED
    BY <1>6, <2>5, <2>7, RequestAskBlocked
<1>7. ASSUME NEW w \in Threads, Refuse(w) PROVE IInv'
  <2>1. /\ call' \in [Threads -> Work] /\ call'[w] = Idle
        /\ \A v \in Threads \ {w} : call'[v] = call[v]
        /\ UNCHANGED <<now, events, through>>
    BY <1>1, <1>7 DEF Refuse, Turns
  <2>2. /\ \A v \in Threads : call'[v].op = "allow" => call'[v] = call[v]
        /\ \A v \in Threads : call'[v].op = "serve" => call[v].op = "serve"
    BY <2>1 DEF Idle
  <2>3. BaseInv'
    BY <2>1, <2>2 DEF BaseInv, TypeInv, TimeInv, QueueInv
  <2> QED
    BY <1>1, <2>1, <2>2, <2>3, LoginUntouched, RequestUntouched
<1>8. ASSUME NEW w \in Threads, Record(w) PROVE IInv'
  <2>1. /\ Queue("request", Append(Trim(events["request"], now), now))
        /\ LetThrough("request", now) /\ now' = now
    BY <1>8 DEF Record
  <2>2. /\ call' \in [Threads -> Work] /\ call'[w] = Idle
        /\ \A v \in Threads \ {w} : call'[v] = call[v]
    BY <1>1, <1>8 DEF Record, Turns
  <2>3. \A v \in Threads : call'[v].op = "allow" => call'[v] = call[v] /\ call'[v].at <= now
    BY <2>2 DEF BaseInv, TimeInv, Idle
  <2>4. BaseInv'
    BY <1>1, <1>8, <2>1, <2>2, <2>3, LetThroughKeepsBase, LimiterNames
  <2>5. events'["login"] = events["login"] /\ through'["login"] = through["login"]
    BY <2>1 DEF Queue, LetThrough, Limiters, BaseInv, TypeInv
  <2>6. LoginInv'
    BY <1>1, <2>1, <2>3, <2>5, LoginUntouched
  <2> QED
    BY <1>8, <2>4, <2>6, RequestRecord
<1> QED
  BY <1>2, <1>3, <1>4, <1>5, <1>6, <1>7, <1>8 DEF Next

\* Before anybody asks, the queues are empty.
LEMMA Initial == Init => IInv
<1> SUFFICES ASSUME Init PROVE IInv
  OBVIOUS
<1>1. /\ now = 0 /\ events = [k \in Limiters |-> <<>>] /\ through = [k \in Limiters |-> <<>>]
      /\ \A w \in Threads : call[w] = Idle
      /\ call \in [Threads -> Work]
  BY DEF Init, Work
<1>2. /\ <<>> \in Seq(Nat) /\ <<>> \in Seq(Pass) /\ Len(<<>>) = 0 /\ DOMAIN <<>> = {}
  BY EmptySeq
<1>3. Idle.op = "idle"
  BY DEF Idle
<1>4. Cardinality(Threads) \in Nat
  BY FS_CardinalityType
<1>5. BaseInv
  <2>1. TypeInv
    BY <1>1, <1>2 DEF TypeInv
  <2>2. TimeInv
    BY <1>1, <1>2, <1>3 DEF TimeInv
  <2>3. QueueInv
    BY <1>1, <1>2 DEF QueueInv, QueueOf
  <2> QED
    BY <2>1, <2>2, <2>3 DEF BaseInv
<1>6. /\ events["login"] = <<>> /\ through["login"] = <<>>
      /\ events["request"] = <<>> /\ through["request"] = <<>>
  BY <1>1, LimiterNames
<1>7. LoginInv
  <2>1. \A m \in 0 .. MaxTime : Kept(m)
    BY <1>2, <1>6 DEF Kept, Dropped
  <2> QED
    BY <1>2, <1>6, <2>1 DEF LoginInv
<1>8. RequestInv
  <2>1. Serving = {}
    BY <1>1, <1>3 DEF Serving
  <2>2. \A m \in 0 .. MaxTime : Counted(through["request"], m) = {}
    BY <1>2, <1>6 DEF Counted
  <2>3. Cardinality({}) = 0
    BY FS_EmptySet
  <2> QED
    <3>1. Len(events["request"]) + Cardinality(Serving) <= Limit
      BY <1>2, <1>4, <1>6, <2>1, <2>3 DEF Limit
    <3>2. Dropped("request") = {}
      BY <1>2, <1>6 DEF Dropped
    <3>3. \A m \in 0 .. MaxTime : Cardinality(Counted(through["request"], m)) <= Limit
      BY <1>4, <2>2, <2>3 DEF Limit
    <3> QED
      BY <3>1, <3>2, <3>3 DEF RequestInv
<1> QED
  BY <1>5, <1>7, <1>8 DEF IInv

\* The invariant holds in every reachable state.
LEMMA Invariant == Spec => []IInv
<1>1. Init => IInv
  BY Initial
<1>2. IInv /\ [Next]_vars => IInv'
  BY NextKeeps
<1> QED
  BY <1>1, <1>2, PTL DEF Spec

-----------------------------------------------------------------------------
\* Members of a sequence that are in a smaller set make it a sequence of that.
LEMMA SequenceOfFewer ==
    ASSUME NEW S, NEW T, NEW s \in Seq(S), \A n \in 1 .. Len(s) : s[n] \in T
    PROVE  s \in Seq(T)
<1>1. Len(s) \in Nat /\ s \in [1 .. Len(s) -> S]
  BY LenProperties
<1>2. s \in [1 .. Len(s) -> T]
  BY <1>1
<1> QED
  BY <1>1, <1>2, SeqDef

(* The queues hold moments that have passed, no more of them than were let through,
   for any number of threads (_trim, allow and record). *)
THEOREM TypeCorrect == Spec => []TypeOK
<1>1. IInv => TypeOK
  <2> SUFFICES ASSUME IInv PROVE TypeOK
    OBVIOUS
  <2>1. now \in 0 .. MaxTime /\ BaseInv
    BY DEF IInv, BaseInv, TypeInv
  <2>2. ASSUME NEW k \in Limiters
        PROVE  /\ through[k] \in Seq([at : 0 .. now, real : 0 .. now])
               /\ events[k] \in Seq(0 .. now) /\ Len(events[k]) <= Len(through[k])
    <3>1. /\ events[k] \in Seq(Nat) /\ Len(events[k]) \in Nat
          /\ through[k] \in Seq(Pass) /\ Len(through[k]) \in Nat
          /\ DOMAIN through[k] = 1 .. Len(through[k])
          /\ \A n \in 1 .. Len(through[k]) : through[k][n] \in Pass
          /\ QueueOf(events[k], through[k]) /\ Len(events[k]) <= Len(through[k])
      BY <2>1, QueuesAndHistory
    <3>2. ASSUME NEW n \in 1 .. Len(through[k])
          PROVE  through[k][n] \in [at : 0 .. now, real : 0 .. now]
      <4>1. through[k][n].at <= through[k][n].real /\ through[k][n].real <= now
        BY <2>1, <3>1, <3>2 DEF BaseInv, TimeInv
      <4> QED
        BY <2>1, <3>1, <3>2, <4>1 DEF Pass
    <3>3. ASSUME NEW n \in 1 .. Len(events[k]) PROVE events[k][n] \in 0 .. now
      <4>1. /\ n + (Len(through[k]) - Len(events[k])) \in 1 .. Len(through[k])
            /\ events[k][n] = through[k][n + (Len(through[k]) - Len(events[k]))].at
        <5>1. n + (Len(through[k]) - Len(events[k])) \in 1 .. Len(through[k])
          <6> DEFINE l == Len(through[k])
                     e == Len(events[k])
          <6>1. l \in Nat /\ e \in Nat /\ e <= l /\ n \in 1 .. e
            BY <3>1, <3>3
          <6> HIDE DEF l, e
          <6>2. n + (l - e) \in 1 .. l
            BY <6>1
          <6> QED
            BY <6>2 DEF l, e
        <5>2. events[k][n] = through[k][n + (Len(through[k]) - Len(events[k]))].at
          BY <3>1, <3>3 DEF QueueOf
        <5> QED
          BY <5>1, <5>2
      <4> QED
        BY <3>2, <4>1
    <3> QED
      BY <3>1, <3>2, <3>3, SequenceOfFewer
  <2>3. /\ events \in [Limiters -> Seq(0 .. now)]
        /\ through \in [Limiters -> Seq([at : 0 .. now, real : 0 .. now])]
    BY <2>1, <2>2 DEF BaseInv, TypeInv
  <2> QED
    BY <2>1, <2>2, <2>3 DEF TypeOK, BaseInv, TimeInv
<1> QED
  BY <1>1, Invariant, PTL

(* The limits hold up to the requests under way, for any number of threads, any
   limit and any window (allow reads the clock before the lock; blocked and record
   are calls of their own). *)
THEOREM LimitsHold == Spec => []ThroughPerWindow
<1>1. IInv => ThroughPerWindow
  <2> SUFFICES ASSUME IInv, NEW k \in Limiters, NEW m \in 0 .. MaxTime
               PROVE  Cardinality(Counted(through[k], m)) <= Limit
    BY DEF ThroughPerWindow, Counted, Limit
  <2>1. CASE k = "request"
    BY <2>1 DEF IInv, RequestInv
  <2>2. CASE k = "login"
    <3>1. /\ events["login"] \in Seq(Nat) /\ Len(events["login"]) \in Nat
          /\ through["login"] \in Seq(Pass) /\ DOMAIN through["login"] = 1 .. Len(through["login"])
          /\ QueueOf(events["login"], through["login"])
      BY LimiterNames, QueuesAndHistory DEF IInv
    <3>2. Cardinality(Counted(through["login"], m)) \in Nat
      BY <3>1, CountedIsFinite
    <3>3. CASE Kept(m) /\ Len(through["login"]) # 0
      <4>1. Cardinality(Counted(through["login"], m)) <= Len(events["login"])
        <5>1. m \in Nat /\ \A n \in 1 .. Len(through["login"]) - Len(events["login"]) :
                                through["login"][n].at \notin m - Window + 1 .. m
          BY <3>3 DEF Kept, Dropped
        <5> QED
          BY <3>1, <5>1, CountedAreQueued
      <4>2. Threads # {}
        BY <3>3, LimiterNames DEF IInv, BaseInv, TypeInv
      <4>3. Cardinality(Threads) \in Nat \ {0}
        BY <4>2, FS_CardinalityType, FS_EmptySet
      <4>4. Len(events["login"]) <= MaxEvents
        BY DEF IInv, LoginInv
      <4> QED
        BY <2>2, <3>1, <3>2, <4>1, <4>3, <4>4 DEF Limit
    <3>4. CASE Len(through["login"]) = 0
      <4>1. Counted(through["login"], m) = {}
        BY <3>1, <3>4 DEF Counted
      <4>2. Cardinality(Threads) \in Nat
        BY FS_CardinalityType
      <4> QED
        BY <2>2, <4>1, <4>2, FS_EmptySet DEF Limit
    <3>5. CASE ~Kept(m)
      <4>1. Cardinality(Counted(through["login"], m)) + Cardinality(Asking(m)) <= Limit
        BY <3>5 DEF IInv, LoginInv
      <4>2. Cardinality(Asking(m)) \in Nat
        <5>1. Asking(m) \in SUBSET Threads
          BY DEF Asking
        <5> QED
          BY <5>1, ThreadSets
      <4> QED
        BY <2>2, <3>2, <4>1, <4>2, LimitIsNumber
    <3> QED
      BY <3>3, <3>4, <3>5
  <2> QED
    BY <2>1, <2>2 DEF Limiters
<1> QED
  BY <1>1, Invariant, PTL

\* A queue that is full after its trim: so many were let through in the window.
LEMMA FullForAReason ==
    ASSUME IInv, NEW k \in Limiters, NEW at \in Nat, Full(Trim(events[k], at))
    PROVE  Since(k, at - Window) >= MaxEvents
<1> DEFINE q == Trim(events[k], at)
           t == through[k]
           first == Len(t) - Len(q) + 1
           late == {n \in DOMAIN t : t[n].real > at - Window}
<1>1. /\ events[k] \in Seq(Nat) /\ t \in Seq(Pass) /\ Len(t) \in Nat
      /\ DOMAIN t = 1 .. Len(t) /\ \A n \in 1 .. Len(t) : t[n] \in Pass
      /\ QueueOf(events[k], t)
  BY QueuesAndHistory DEF IInv
<1>2. q \in Seq(Nat) /\ QueueOf(q, t) /\ Len(q) \in Nat /\ (Len(q) > 0 => q[1] > at - Window)
  <2>1. /\ q \in Seq(Nat) /\ QueueOf(q, t) /\ (Len(q) > 0 => q[1] > at - Window)
    BY <1>1, TrimOfQueue
  <2> QED
    BY <2>1, LenProperties
<1>3. Len(q) >= MaxEvents
  BY DEF Full
<1>4. \A n \in 1 .. Len(t) : /\ t[n].at <= t[n].real
                             /\ \A m \in 1 .. n : t[m].real <= t[n].real
  BY <1>1 DEF IInv, BaseInv, TimeInv
<1>5. Since(k, at - Window) = Cardinality(late)
  BY DEF Since
<1> HIDE DEF q, t
<1>6. first \in 1 .. Len(t) /\ t[first].at > at - Window /\ Len(q) <= Len(t)
  <2>1. Len(q) > 0 /\ Len(q) <= Len(t) /\ 1 \in 1 .. Len(q)
    BY <1>2, <1>3 DEF QueueOf
  <2>2. q[1] = t[1 + (Len(t) - Len(q))].at
    BY <2>1, <1>2 DEF QueueOf
  <2>3. 1 + (Len(t) - Len(q)) = first /\ first \in 1 .. Len(t)
    BY <1>1, <1>2, <2>1
  <2> QED
    BY <1>2, <2>1, <2>2, <2>3
<1>7. first .. Len(t) \subseteq late
  <2> SUFFICES ASSUME NEW n \in first .. Len(t) PROVE n \in DOMAIN t /\ t[n].real > at - Window
    OBVIOUS
  <2>1. n \in 1 .. Len(t) /\ first \in 1 .. n
    BY <1>1, <1>6
  <2>2. t[first].at <= t[first].real /\ t[first].real <= t[n].real
    BY <1>4, <1>6, <2>1
  <2>3. t[first].at \in Nat /\ t[first].real \in Nat /\ t[n].real \in Nat
    BY <1>1, <1>6, <2>1 DEF Pass
  <2> QED
    BY <1>1, <1>6, <2>1, <2>2, <2>3
<1>8. IsFiniteSet(late) /\ Cardinality(late) \in Nat
  <2>1. IsFiniteSet(1 .. Len(t)) /\ late \in SUBSET (1 .. Len(t))
    BY <1>1, FS_Interval
  <2>2. IsFiniteSet(late)
    BY <2>1, FS_Subset
  <2> QED
    BY <2>2, FS_CardinalityType
<1>9. Cardinality(first .. Len(t)) = Len(q)
  <2>1. Cardinality(first .. Len(t)) = IF first > Len(t) THEN 0 ELSE Len(t) - first + 1
    BY <1>1, <1>6, FS_Interval
  <2> QED
    BY <1>1, <1>2, <1>6, <2>1
<1> HIDE DEF first, late
<1>10. Cardinality(first .. Len(t)) <= Cardinality(late)
  BY <1>7, <1>8, FS_Subset
<1> QED
  BY <1>2, <1>3, <1>5, <1>8, <1>9, <1>10

(* Whoever is turned away, at the login door or before the request form, found
   MaxEvents calls let through since a window before the moment it had read
   (allow and blocked). *)
THEOREM NobodyIsLockedOut == Spec => TurnedAwayWithReason
<1>1. IInv /\ [Next]_vars =>
        [\A w \in Threads :
          /\ TurnAway(w) => Since("login", call[w].at - Window) >= MaxEvents
          /\ (call[w] = Idle /\ call' = call /\ AskBlocked(w)) =>
                 Since("request", now - Window) >= MaxEvents]_vars
  <2> SUFFICES ASSUME IInv, NEW w \in Threads
               PROVE  /\ TurnAway(w) => Since("login", call[w].at - Window) >= MaxEvents
                      /\ (call[w] = Idle /\ call' = call /\ AskBlocked(w)) =>
                             Since("request", now - Window) >= MaxEvents
    OBVIOUS
  <2>1. now \in Nat /\ call[w] \in Work /\ call \in [Threads -> Work]
    BY DEF IInv, BaseInv, TypeInv
  <2>2. ASSUME TurnAway(w) PROVE Since("login", call[w].at - Window) >= MaxEvents
    <3>1. call[w].at \in Nat /\ Full(Trim(events["login"], call[w].at))
      BY <2>1, <2>2, KindOfWork DEF TurnAway
    <3> QED
      BY <3>1, FullForAReason, LimiterNames
  <2>3. ASSUME call[w] = Idle, call' = call, AskBlocked(w)
        PROVE  Since("request", now - Window) >= MaxEvents
    <3>1. Full(Trim(events["request"], now))
      BY <2>1, <2>3 DEF AskBlocked, Turns, Idle
    <3> QED
      BY <2>1, <3>1, FullForAReason, LimiterNames
  <2> QED
    BY <2>2, <2>3
<1> QED
  BY <1>1, Invariant, PTL DEF Spec, TurnedAwayWithReason
================================================================================
