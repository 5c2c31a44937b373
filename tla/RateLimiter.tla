----------------------------- MODULE RateLimiter ------------------------------
(***************************************************************************)
(* The in-process sliding windows of src/src/twirl/ratelimit.py, for one   *)
(* address, and the two ways handlers use them.  The login forms ask       *)
(* allow, which reads the clock before it takes the lock.  The request     *)
(* form of the storefront asks blocked, serves the request, and records    *)
(* it only when a booking was made: three steps with others in between.    *)
(***************************************************************************)
EXTENDS Integers, Sequences, FiniteSets

CONSTANTS Threads,    \* the threads that serve requests of this address
          MaxEvents,  \* max_events, of either limiter
          Window,     \* window_seconds
          MaxTime,    \* bound: the clock
          MaxThrough  \* bound: calls that were let through

ASSUME RateLimiterAssumption ==
    /\ MaxEvents \in Nat \ {0} /\ Window \in Nat \ {0}
    /\ MaxTime \in Nat /\ MaxThrough \in Nat
    /\ IsFiniteSet(Threads)

VARIABLES now,     \* the clock
          events,  \* the queue of moments of either limiter
          call,    \* what every thread is in the middle of
          through  \* the calls let through: the moment that counts for each, and
                   \* the real one (history)

vars == <<now, events, call, through>>

Limiters == {"login", "request"}
Idle == [op |-> "idle"]

Init ==
    /\ now = 0
    /\ events = [k \in Limiters |-> <<>>]
    /\ call = [w \in Threads |-> Idle]
    /\ through = [k \in Limiters |-> <<>>]

\* Mutant of Trim: a moment at the very edge of the window stays.
TrimLate(queue, at) ==
    LET old == {n \in DOMAIN queue : \A m \in 1 .. n : queue[m] < at - Window}
    IN SubSeq(queue, Cardinality(old) + 1, Len(queue))
\* Drop moments from the front as long as they have left the window.
Trim(queue, at) ==
    LET old == {n \in DOMAIN queue : \A m \in 1 .. n : queue[m] <= at - Window}
    IN SubSeq(queue, Cardinality(old) + 1, Len(queue))
\* Mutant of Full: one event more is let through.
FullLate(queue) == Len(queue) > MaxEvents
Full(queue) == Len(queue) >= MaxEvents

Turns(w, step) == call' = [call EXCEPT ![w] = step]
LetThrough(k, at) ==
    /\ Len(through[k]) < MaxThrough
    /\ through' = [through EXCEPT ![k] = Append(@, [at |-> at, real |-> now])]
Queue(k, queue) == events' = [events EXCEPT ![k] = queue]

\* allow, before the lock: the clock is read.
AskAllow(w) ==
    /\ call[w] = Idle
    /\ Turns(w, [op |-> "allow", at |-> now])
    /\ UNCHANGED <<now, events, through>>

\* allow, with the lock: the handler goes on, and the call counts at once.
Allow(w) ==
    LET queue == Trim(events["login"], call[w].at) IN
    /\ call[w].op = "allow"
    /\ ~Full(queue)
    /\ Queue("login", Append(queue, call[w].at))
    /\ LetThrough("login", call[w].at)
    /\ Turns(w, Idle)
    /\ UNCHANGED now

\* Mutant of TurnAway: a call that is turned away counts as well.
TurnAwayCounted(w) ==
    LET queue == Trim(events["login"], call[w].at) IN
    /\ call[w].op = "allow"
    /\ Full(queue)
    /\ Queue("login", Append(queue, call[w].at))
    /\ Turns(w, Idle)
    /\ UNCHANGED <<now, through>>
TurnAway(w) ==
    LET queue == Trim(events["login"], call[w].at) IN
    /\ call[w].op = "allow"
    /\ Full(queue)
    /\ Queue("login", queue)
    /\ Turns(w, Idle)
    /\ UNCHANGED <<now, through>>

\* blocked: nothing is counted; when it says no the form is served.
AskBlocked(w) ==
    LET queue == Trim(events["request"], now) IN
    /\ call[w] = Idle
    /\ Queue("request", queue)
    /\ IF Full(queue) THEN UNCHANGED call ELSE Turns(w, [op |-> "serve"])
    /\ UNCHANGED <<now, through>>

\* A form with a mistake, or a dress that is taken, counts for nothing.
Refuse(w) ==
    /\ call[w].op = "serve"
    /\ Turns(w, Idle)
    /\ UNCHANGED <<now, events, through>>

\* The booking is committed; record counts it.
Record(w) ==
    /\ call[w].op = "serve"
    /\ LetThrough("request", now)
    /\ Queue("request", Append(Trim(events["request"], now), now))
    /\ Turns(w, Idle)
    /\ UNCHANGED now

Tick ==
    /\ now < MaxTime /\ now' = now + 1
    /\ UNCHANGED <<events, call, through>>

Next ==
    \/ \E w \in Threads :
          AskAllow(w) \/ Allow(w) \/ TurnAway(w) \/ AskBlocked(w) \/ Refuse(w) \/ Record(w)
    \/ Tick

Spec == Init /\ [][Next]_vars
-----------------------------------------------------------------------------
Since(k, moment) == Cardinality({n \in DOMAIN through[k] : through[k][n].real > moment})

(* The queues hold moments that have passed, no more of them than were let
   through. *)
TypeOK ==
    /\ now \in 0 .. MaxTime
    /\ events \in [Limiters -> Seq(0 .. now)]
    /\ through \in [Limiters -> Seq([at : 0 .. now, real : 0 .. now])]
    /\ \A k \in Limiters : Len(events[k]) <= Len(through[k])
    /\ \A w \in Threads : call[w].op = "allow" => call[w].at <= now

(* The limits hold up to the requests under way: of the calls whose moments lie
   in one window a limiter lets MaxEvents through, and beyond them at most one
   for each other thread, which had read the clock, or was told that it is not
   blocked, before. *)
ThroughPerWindow ==
    \A k \in Limiters, m \in 0 .. MaxTime :
        Cardinality({n \in DOMAIN through[k] :
                        through[k][n].at \in m - Window + 1 .. m})
            <= MaxEvents + Cardinality(Threads) - 1

(* Nobody is locked out for nothing, though moments may be queued out of order
   and trimmed late: a call that is turned away found MaxEvents others let
   through since the window before the moment it had read began; some of them
   may have come after that moment, while it waited for the lock. *)
TurnedAwayWithReason ==
    [][\A w \in Threads :
          /\ TurnAway(w) => Since("login", call[w].at - Window) >= MaxEvents
          /\ (call[w] = Idle /\ call' = call /\ AskBlocked(w)) =>
                 Since("request", now - Window) >= MaxEvents]_vars
=============================================================================
