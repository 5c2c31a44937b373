-------------------------------- MODULE SignIn --------------------------------
(***************************************************************************)
(* Signing in with a code sent to a phone (src/src/twirl/otp.py behind     *)
(* web/auth.py and the first pages of web/onboarding.py), for one phone    *)
(* and the browsers of its owner.  Requests overlap: sending reads the     *)
(* past codes, stores a new one and sends the message before it commits;   *)
(* checking reads the live codes, then waits for the lock on the newest of *)
(* them.  A browser waits for one answer before it sends the next request. *)
(* What the limiter in front of the login door turns away changes nothing  *)
(* here; see RateLimiter.                                                  *)
(*                                                                         *)
(* Time is counted in units that keep the order of the code's constants:   *)
(* RESEND_AFTER < CODE_TTL < one hour.                                     *)
(***************************************************************************)
EXTENDS Integers, Sequences, FiniteSets

CONSTANTS Browsers,
          ResendAfter,  \* RESEND_AFTER
          CodeTtl,      \* CODE_TTL
          Hour,         \* the hour of MAX_SENDS_PER_HOUR
          MaxSends,     \* MAX_SENDS_PER_HOUR
          MaxAttempts,  \* MAX_ATTEMPTS
          MaxTime,      \* bound: the clock
          MaxCodes,     \* bound: codes sent
          MaxDeaths     \* bound: requests that die

ASSUME SignInAssumption ==
    /\ ResendAfter \in Nat /\ CodeTtl \in Nat /\ Hour \in Nat
    /\ MaxSends \in Nat \ {0} /\ MaxAttempts \in Nat \ {0}
    /\ MaxTime \in Nat /\ MaxCodes \in Nat /\ MaxDeaths \in Nat
    /\ IsFiniteSet(Browsers)

VARIABLES now,      \* the clock
          codes,    \* the codes by id, the lost and the uncommitted ones too
          provider, \* the phone belongs to a provider who is not blocked
          cookie,   \* the session of every browser
          request,  \* the request every browser waits for
          deaths    \* requests that died (bound)

vars == <<now, codes, provider, cookie, request, deaths>>

Purposes == {"signup", "login"}
\* guesses: comparisons made with this code (history).
Code == [purpose : Purposes, at : 0 .. MaxTime, attempts : 0 .. MaxAttempts,
         used : BOOLEAN, row : {"open", "stored", "lost"}, guesses : Nat]
\* The phone the sign-up or the login page waits for, and who is signed in.
Session == [signup : BOOLEAN, login : BOOLEAN, uid : BOOLEAN]
Cleared == [signup |-> FALSE, login |-> FALSE, uid |-> FALSE]
SignedIn == [signup |-> FALSE, login |-> FALSE, uid |-> TRUE]
Remembering(session, purpose) ==
    [signup |-> session.signup \/ purpose = "signup",
     login |-> session.login \/ purpose = "login", uid |-> session.uid]
Idle == [op |-> "idle"]

Init ==
    /\ now = 0 /\ codes = <<>> /\ provider \in BOOLEAN
    /\ cookie = [b \in Browsers |-> Cleared]
    /\ request = [b \in Browsers |-> Idle]
    /\ deaths = 0

Answers(b, session) ==
    /\ request' = [request EXCEPT ![b] = Idle]
    /\ cookie' = [cookie EXCEPT ![b] = session]
-----------------------------------------------------------------------------
(* Sending (issue_code and send_code). *)

Stored == {c \in DOMAIN codes : codes[c].row = "stored"}
\* Newest first: by created_at, then by id.
Newer(c, d) == codes[c].at > codes[d].at \/ (codes[c].at = codes[d].at /\ c >= d)
NewestOf(S) == CHOOSE c \in S : \A d \in S : Newer(c, d)

TooSoon == Stored # {} /\ codes[NewestOf(Stored)].at + ResendAfter > now
SentLastHour == {c \in Stored : codes[c].at > now - Hour}
\* Mutant of TooMany: the limit is found out one message too late.
TooManyByOne == Cardinality(SentLastHour) > MaxSends
TooMany == Cardinality(SentLastHour) >= MaxSends

\* Mutant of NewCode: the row can be read before its request commits.
NewCodeAtOnce(purpose) ==
    [purpose |-> purpose, at |-> now, attempts |-> 0, used |-> FALSE,
     row |-> "stored", guesses |-> 0]
NewCode(purpose) ==
    [purpose |-> purpose, at |-> now, attempts |-> 0, used |-> FALSE,
     row |-> "open", guesses |-> 0]

\* issue_code and the message; early is the session when it was too soon, many
\* the session when there were too many, sent the one after the commit.
Issue(b, purpose, early, many, sent) ==
    /\ request[b] = Idle
    /\ \/ TooSoon /\ Answers(b, early) /\ UNCHANGED codes
       \/ ~TooSoon /\ TooMany /\ Answers(b, many) /\ UNCHANGED codes
       \/ /\ ~TooSoon /\ ~TooMany /\ Len(codes) < MaxCodes
          /\ codes' = Append(codes, NewCode(purpose))
          /\ request' = [request EXCEPT ![b] =
                 [op |-> "send", code |-> Len(codes) + 1, session |-> sent]]
          /\ UNCHANGED cookie
    /\ UNCHANGED <<now, provider, deaths>>

\* The phone form of the wizard: only "too many" leaves the cookie as it was.
SubmitPhone(b) ==
    LET asked == Remembering(cookie[b], "signup") IN
    Issue(b, "signup", asked, cookie[b], asked)

\* The phone form of the login door writes the cookie first of all.
LogInPhone(b) ==
    LET asked == Remembering(cookie[b], "login") IN
    \/ provider /\ Issue(b, "login", asked, asked, asked)
    \/ /\ ~provider /\ request[b] = Idle /\ Answers(b, asked)
       /\ UNCHANGED <<now, codes, provider, deaths>>

Resend(b) ==
    \/ /\ cookie[b].signup /\ ~cookie[b].uid
       /\ Issue(b, "signup", cookie[b], cookie[b], cookie[b])
    \/ /\ cookie[b].login /\ provider
       /\ Issue(b, "login", cookie[b], cookie[b], cookie[b])

CommitSend(b) ==
    /\ request[b].op = "send"
    /\ codes' = [codes EXCEPT ![request[b].code].row = "stored"]
    /\ Answers(b, request[b].session)
    /\ UNCHANGED <<now, provider, deaths>>
-----------------------------------------------------------------------------
(* Checking (verify_code). *)

Live(purpose) ==
    {c \in Stored : /\ codes[c].purpose = purpose /\ ~codes[c].used
                    /\ codes[c].at + CodeTtl > now}

StartCheck(b, purpose) ==
    /\ request[b] = Idle
    /\ request' = [request EXCEPT ![b] =
           [op |-> "check", purpose |-> purpose, seen |-> Live(purpose)]]
    /\ UNCHANGED <<now, codes, provider, cookie, deaths>>

SubmitCode(b) == cookie[b].signup /\ ~cookie[b].uid /\ StartCheck(b, "signup")
LogInCode(b) == cookie[b].login /\ StartCheck(b, "login")

\* Mutant of StillLive: the rows are taken as they were first read.
AsFirstSeen(seen) == seen
\* With its lock the row is looked at again: a code consumed meanwhile is
\* passed over, and the next one that was seen takes its place.
StillLive(seen) == {c \in seen : ~codes[c].used}

\* Mutant of MayGuess: a code that is out of attempts is compared all the same.
MayGuessAlways(c) == c \in DOMAIN codes
MayGuess(c) == codes[c].attempts < MaxAttempts

\* Every comparison counts, right or wrong; the right one consumes the code.
Guessed(c, right) ==
    [codes EXCEPT ![c].attempts = IF @ < MaxAttempts THEN @ + 1 ELSE @,
                  ![c].used = @ \/ right,
                  ![c].guesses = @ + 1]

Refuse(b) ==
    LET live == StillLive(request[b].seen) IN
    /\ request[b].op = "check"
    /\ live # {} => ~MayGuess(NewestOf(live))
    /\ Answers(b, cookie[b])
    /\ UNCHANGED <<now, codes, provider, deaths>>

\* The guess is right or wrong for the newest live code, whatever it was sent
\* for; the login door lets in a provider only, the sign-up door makes one.
Check(b, right) ==
    LET live == StillLive(request[b].seen) IN
    /\ request[b].op = "check"
    /\ live # {} /\ MayGuess(NewestOf(live))
    /\ codes' = Guessed(NewestOf(live), right)
    /\ Answers(b, IF right /\ (provider \/ request[b].purpose = "signup")
                      THEN SignedIn ELSE cookie[b])
    /\ UNCHANGED <<now, provider, deaths>>
-----------------------------------------------------------------------------
LogOut(b) ==
    /\ request[b] = Idle
    /\ Answers(b, Cleared)
    /\ UNCHANGED <<now, codes, provider, deaths>>

\* A request dies: its code is not stored, though the message has been sent.
Die(b) ==
    /\ request[b] # Idle /\ deaths < MaxDeaths
    /\ codes' = IF request[b].op = "send"
                    THEN [codes EXCEPT ![request[b].code].row = "lost"] ELSE codes
    /\ request' = [request EXCEPT ![b] = Idle]
    /\ deaths' = deaths + 1
    /\ UNCHANGED <<now, provider, cookie>>

Tick ==
    /\ now < MaxTime /\ now' = now + 1
    /\ UNCHANGED <<codes, provider, cookie, request, deaths>>

Handler(b) ==
    \/ SubmitPhone(b) \/ LogInPhone(b) \/ Resend(b) \/ CommitSend(b)
    \/ SubmitCode(b) \/ LogInCode(b)
    \/ Refuse(b)
    \/ \E right \in BOOLEAN : Check(b, right)
    \/ LogOut(b) \/ Die(b)

Next == Tick \/ \E b \in Browsers : Handler(b)

Spec == Init /\ [][Next]_vars
-----------------------------------------------------------------------------
(* Codes, cookies and requests have their shape; a code somebody is about to
   commit is open and nobody else's. *)
TypeOK ==
    /\ now \in 0 .. MaxTime /\ provider \in BOOLEAN /\ deaths \in 0 .. MaxDeaths
    /\ codes \in Seq(Code) /\ Len(codes) <= MaxCodes
    /\ cookie \in [Browsers -> Session]
    /\ \A b \in Browsers : request[b].op = "check" => request[b].seen \subseteq DOMAIN codes
    /\ \A b \in Browsers : request[b].op = "send" =>
          /\ request[b].code \in DOMAIN codes
          /\ codes[request[b].code].row = "open"
          /\ \A a \in Browsers \ {b} :
                request[a].op = "send" => request[a].code # request[b].code

(* Nobody is signed in for nothing, and a code signs in once: with every
   browser that becomes signed in exactly one stored code is consumed, two
   requests that hold the same right code included. *)
SignInConsumesACode ==
    [][\A b \in Browsers : ~cookie[b].uid /\ cookie'[b].uid =>
          \E c \in Stored :
              /\ ~codes[c].used /\ codes'[c].used
              /\ \A d \in DOMAIN codes \ {c} : codes'[d].used = codes[d].used]_vars

(* However many requests guess at once, no code is compared with more than
   MaxAttempts guesses: no attempt is lost to another one. *)
GuessesBounded == \A c \in DOMAIN codes : codes[c].guesses <= MaxAttempts

(* In any hour the phone gets MaxSends messages, and beyond them at most one
   for each other browser that was asking at the same time and one for each
   send that died before its code was stored. *)
SendsPerHour ==
    \A t \in 0 .. MaxTime :
        Cardinality({c \in DOMAIN codes : codes[c].at \in t - Hour + 1 .. t})
            <= MaxSends + Cardinality(Browsers) - 1 + deaths
=============================================================================
