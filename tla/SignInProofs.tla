----------------------------- MODULE SignInProofs -----------------------------
(***************************************************************************)
(* What signing in with codes guarantees for any number of browsers,       *)
(* codes, guesses and deaths.                                              *)
(***************************************************************************)
EXTENDS SignIn, SequenceTheorems, FiniteSetTheorems, WellFoundedInduction, TLAPS

USE SignInAssumption

\* What a browser may be waiting for.
SendWork == [op : {"send"}, code : Nat, session : Session]
CheckWork == [op : {"check"}, purpose : Purposes, seen : SUBSET Nat]
Work == {Idle} \cup SendWork \cup CheckWork

ClockOK == now \in 0 .. MaxTime /\ provider \in BOOLEAN /\ deaths \in 0 .. MaxDeaths
CodesOK == codes \in Seq(Code) /\ Len(codes) <= MaxCodes
CookiesOK == cookie \in [Browsers -> Session]

\* Every comparison has cost an attempt.
CountsOK == \A c \in DOMAIN codes : codes[c].guesses = codes[c].attempts

\* A browser that waits for a code to be sent keeps its cookie meanwhile, and its
\* code is open and its own; what a check has seen is stored and stays so.
RequestsOK ==
    /\ request \in [Browsers -> Work]
    /\ \A b \in Browsers : request[b].op = "check" => request[b].seen \subseteq Stored
    /\ \A b \in Browsers : request[b].op = "send" =>
          /\ request[b].code \in DOMAIN codes
          /\ codes[request[b].code].row = "open"
          /\ request[b].session.uid = cookie[b].uid
          /\ \A a \in Browsers \ {b} :
                request[a].op = "send" => request[a].code # request[b].code

IInv == ClockOK /\ CodesOK /\ CookiesOK /\ CountsOK /\ RequestsOK

\* What a browser is waiting for tells which kind of work it is.
LEMMA KindOfWork ==
    ASSUME NEW work \in Work
    PROVE  /\ work.op = "send" => work \in SendWork
           /\ work.op = "check" => work \in CheckWork
           /\ work = Idle <=> work.op = "idle"
  BY DEF Work, SendWork, CheckWork, Idle

\* The codes are numbered from one.
LEMMA CodeNumbers ==
    ASSUME CodesOK
    PROVE  /\ Len(codes) \in Nat /\ DOMAIN codes = 1 .. Len(codes)
           /\ \A c \in DOMAIN codes : codes[c] \in Code
  BY LenProperties, ElementOfSeq DEF CodesOK

\* A bounded set of numbers has a greatest one.
LEMMA GreatestOf ==
    ASSUME NEW T, T \subseteq Nat, T # {}, NEW bound \in Nat, \A n \in T : n <= bound
    PROVE  \E n \in T : \A m \in T : m <= n
<1> DEFINE D == {k \in Nat : bound - k \in T}
<1>1. D \subseteq Nat /\ D # {}
  <2>1. PICK n \in T : TRUE
    OBVIOUS
  <2>2. bound - n \in Nat /\ bound - (bound - n) = n
    OBVIOUS
  <2> QED
    BY <2>1, <2>2
<1>2. PICK k \in D : \A j \in D : <<j, k>> \notin OpToRel(<, Nat)
  BY <1>1, WFMin, NatLessThanWellFounded
<1>3. \A j \in D : ~(j < k)
  BY <1>1, <1>2 DEF OpToRel
<1>4. ASSUME NEW m \in T PROVE m <= bound - k
  <2>1. m \in Nat /\ bound - m \in Nat /\ bound - (bound - m) = m
    BY <1>4
  <2>2. ~(bound - m < k)
    BY <1>3, <1>4, <2>1
  <2> QED
    BY <2>1, <2>2
<1> QED
  BY <1>4

\* Among codes there is a newest one: of those created last the one with the
\* greatest id.
LEMMA NewestExists ==
    ASSUME CodesOK, NEW S, S \subseteq DOMAIN codes, S # {} PROVE NewestOf(S) \in S
<1> DEFINE Times == {t \in 0 .. MaxTime : \E c \in S : codes[c].at = t}
<1>1. \A c \in S : c \in Nat /\ c <= Len(codes) /\ codes[c].at \in 0 .. MaxTime
  BY CodeNumbers DEF Code
<1>2. PICK t \in Times : \A u \in Times : u <= t
  <2>1. Times # {} /\ Times \subseteq Nat /\ \A u \in Times : u <= MaxTime
    BY <1>1
  <2> HIDE DEF Times
  <2> QED
    BY <2>1, GreatestOf
<1> DEFINE Last == {c \in S : codes[c].at = t}
<1>3. PICK c \in Last : \A d \in Last : d <= c
  <2>1. Last # {} /\ Last \subseteq Nat /\ Len(codes) \in Nat
        /\ \A d \in Last : d <= Len(codes)
    BY <1>1, <1>2, CodeNumbers
  <2> HIDE DEF Last
  <2> QED
    BY <2>1, GreatestOf
<1>4. ASSUME NEW d \in S PROVE Newer(c, d)
  <2>1. /\ codes[d].at \in Times /\ codes[d].at <= t /\ codes[c].at = t
        /\ codes[d].at \in Nat /\ t \in Nat /\ c \in Nat /\ d \in Nat
    BY <1>1, <1>2, <1>3
  <2>2. CASE codes[d].at = t
    BY <1>3, <2>1, <2>2 DEF Newer
  <2>3. CASE codes[d].at # t
    BY <2>1, <2>3 DEF Newer
  <2> QED
    BY <2>2, <2>3
<1> QED
  BY <1>3, <1>4 DEF NewestOf

\* A step that only answers a browser keeps the invariant, if the answer is a
\* session.
LEMMA AnswerKeeps ==
    ASSUME IInv, NEW b \in Browsers, NEW session \in Session, Answers(b, session),
           UNCHANGED <<now, codes, provider>>, deaths' \in 0 .. MaxDeaths
    PROVE  IInv'
<1>1. /\ request'[b] = Idle /\ \A a \in Browsers \ {b} : request'[a] = request[a]
      /\ \A a \in Browsers \ {b} : cookie'[a] = cookie[a]
      /\ request' \in [Browsers -> Work] /\ cookie' \in [Browsers -> Session]
  BY DEF Answers, IInv, RequestsOK, CookiesOK, Work
<1>2. RequestsOK'
  BY <1>1 DEF IInv, RequestsOK, Stored, Idle
<1>3. (ClockOK /\ CodesOK /\ CountsOK /\ CookiesOK)'
  BY <1>1 DEF IInv, ClockOK, CodesOK, CountsOK, CookiesOK
<1> QED
  BY <1>2, <1>3 DEF IInv

\* Sending a code, or refusing to, keeps the invariant; nobody is signed in by it.
LEMMA IssueKeeps ==
    ASSUME IInv, NEW b \in Browsers, NEW purpose \in Purposes,
           NEW early \in Session, NEW many \in Session, NEW sent \in Session,
           sent.uid = cookie[b].uid, Issue(b, purpose, early, many, sent)
    PROVE  IInv'
<1>1. CASE Answers(b, early) /\ UNCHANGED <<now, codes, provider, deaths>>
  BY <1>1, AnswerKeeps DEF IInv, ClockOK
<1>2. CASE Answers(b, many) /\ UNCHANGED <<now, codes, provider, deaths>>
  BY <1>2, AnswerKeeps DEF IInv, ClockOK
<1>3. CASE /\ Len(codes) < MaxCodes /\ codes' = Append(codes, NewCode(purpose))
           /\ request' = [request EXCEPT ![b] =
                 [op |-> "send", code |-> Len(codes) + 1, session |-> sent]]
           /\ UNCHANGED <<now, cookie, provider, deaths>>
  <2> DEFINE n == Len(codes) + 1
             work == [op |-> "send", code |-> n, session |-> sent]
             new == NewCode(purpose)
  <2>1. new \in Code /\ new.row = "open" /\ new.guesses = new.attempts
    BY DEF IInv, ClockOK, NewCode, Code
  <2> HIDE DEF new
  <2>2. /\ Len(codes) \in Nat /\ DOMAIN codes = 1 .. Len(codes)
        /\ codes' = Append(codes, new) /\ codes \in Seq(Code)
    BY <1>3, CodeNumbers DEF IInv, CodesOK, new
  <2>3. /\ codes' \in Seq(Code) /\ Len(codes') = n /\ DOMAIN codes' = 1 .. n
        /\ codes'[n] = new /\ \A c \in DOMAIN codes : codes'[c] = codes[c]
    BY <2>1, <2>2, AppendProperties, LenProperties
  <2>4. CodesOK' /\ CountsOK'
    BY <1>3, <2>1, <2>2, <2>3 DEF IInv, CodesOK, CountsOK
  <2>5. work \in Work /\ work.op = "send" /\ work.code = n /\ work.session = sent
    BY <2>2 DEF Work, SendWork
  <2> HIDE DEF work
  <2>6. /\ request'[b] = work /\ request' \in [Browsers -> Work]
        /\ \A a \in Browsers \ {b} : request'[a] = request[a]
    BY <1>3, <2>5 DEF IInv, RequestsOK, work
  <2>7. Stored \subseteq Stored'
    BY <2>2, <2>3 DEF Stored
  <2>8. n \notin DOMAIN codes /\ n \in DOMAIN codes' /\ DOMAIN codes \subseteq DOMAIN codes'
    BY <2>2, <2>3
  <2> HIDE DEF n
  <2>9. RequestsOK'
    <3>1. ASSUME NEW a \in Browsers, request'[a].op = "check"
          PROVE  request'[a].seen \subseteq Stored'
      BY <2>5, <2>6, <2>7, <3>1 DEF IInv, RequestsOK
    <3>2. ASSUME NEW a \in Browsers, request'[a].op = "send"
          PROVE  /\ request'[a].code \in DOMAIN codes'
                 /\ codes'[request'[a].code].row = "open"
                 /\ request'[a].session.uid = cookie'[a].uid
      <4>1. CASE a = b
        BY <1>3, <2>1, <2>3, <2>5, <2>6, <2>8, <4>1
      <4>2. CASE a # b
        BY <1>3, <2>3, <2>6, <2>8, <3>2, <4>2 DEF IInv, RequestsOK
      <4> QED
        BY <4>1, <4>2
    <3>3. ASSUME NEW a \in Browsers, NEW d \in Browsers \ {a},
                 request'[a].op = "send", request'[d].op = "send"
          PROVE  request'[a].code # request'[d].code
      BY <2>5, <2>6, <2>8, <3>3 DEF IInv, RequestsOK
    <3> QED
      BY <2>6, <3>1, <3>2, <3>3 DEF RequestsOK
  <2> QED
    BY <1>3, <2>4, <2>9 DEF IInv, ClockOK, CookiesOK
<1> QED
  BY <1>1, <1>2, <1>3 DEF Issue

\* The requests that may send a code.
LEMMA AskingKeeps ==
    ASSUME IInv, NEW b \in Browsers, SubmitPhone(b) \/ LogInPhone(b) \/ Resend(b)
    PROVE  IInv'
<1>1. cookie[b] \in Session
  BY DEF IInv, CookiesOK
<1>2. ASSUME NEW purpose \in Purposes
      PROVE  /\ Remembering(cookie[b], purpose) \in Session
             /\ Remembering(cookie[b], purpose).uid = cookie[b].uid
  BY <1>1 DEF Remembering, Session
<1>3. "signup" \in Purposes /\ "login" \in Purposes
  BY DEF Purposes
<1>4. CASE SubmitPhone(b)
  BY <1>1, <1>2, <1>3, <1>4, IssueKeeps DEF SubmitPhone
<1>5. CASE LogInPhone(b)
  BY <1>1, <1>2, <1>3, <1>5, IssueKeeps, AnswerKeeps DEF LogInPhone, IInv, ClockOK
<1>6. CASE Resend(b)
  BY <1>1, <1>3, <1>6, IssueKeeps DEF Resend
<1> QED
  BY <1>4, <1>5, <1>6

\* A change of one code that nobody is about to commit, and that stays in its
\* row, keeps the invariant.
LEMMA CodeChangeKeeps ==
    ASSUME NEW c, NEW new, c \in DOMAIN codes, new \in Code, new.guesses = new.attempts,
           c \in Stored => new.row = "stored",
           codes' = [codes EXCEPT ![c] = new],
           NEW b, b \in Browsers, NEW session, session \in Session, Answers(b, session),
           \A a \in Browsers \ {b} : request[a].op = "send" => request[a].code # c,
           IInv, now' = now, provider' = provider, deaths' \in 0 .. MaxDeaths
    PROVE  IInv'
<1>1. /\ request'[b] = Idle /\ \A a \in Browsers \ {b} : request'[a] = request[a]
      /\ \A a \in Browsers \ {b} : cookie'[a] = cookie[a]
      /\ request' \in [Browsers -> Work] /\ cookie' \in [Browsers -> Session]
  BY DEF Answers, IInv, RequestsOK, CookiesOK, Work
<1>2. /\ codes' \in Seq(Code) /\ Len(codes') = Len(codes) /\ DOMAIN codes' = DOMAIN codes
      /\ codes'[c] = new /\ \A d \in DOMAIN codes \ {c} : codes'[d] = codes[d]
  BY ExceptSeq DEF IInv, CodesOK
<1>3. CodesOK' /\ CountsOK'
  BY <1>2 DEF IInv, CodesOK, CountsOK
<1>4. Stored \subseteq Stored'
  BY <1>2 DEF Stored
<1>5. RequestsOK'
  <2>1. Idle.op = "idle"
    BY DEF Idle
  <2>2. ASSUME NEW a \in Browsers, request'[a].op = "check"
        PROVE  request'[a].seen \subseteq Stored'
    BY <1>1, <1>4, <2>1, <2>2 DEF IInv, RequestsOK
  <2>3. ASSUME NEW a \in Browsers, request'[a].op = "send"
        PROVE  /\ a # b /\ request'[a].code \in DOMAIN codes'
               /\ codes'[request'[a].code].row = "open"
               /\ request'[a].session.uid = cookie'[a].uid
    BY <1>1, <1>2, <2>1, <2>3 DEF IInv, RequestsOK
  <2>4. ASSUME NEW a \in Browsers, NEW d \in Browsers \ {a},
               request'[a].op = "send", request'[d].op = "send"
        PROVE  request'[a].code # request'[d].code
    BY <1>1, <2>3, <2>4 DEF IInv, RequestsOK
  <2> QED
    BY <1>1, <2>2, <2>3, <2>4 DEF RequestsOK
<1> QED
  BY <1>1, <1>3, <1>5 DEF IInv, ClockOK, CookiesOK

\* Committing a code, or losing it, concerns nobody else's.
LEMMA SendEndsKeep ==
    ASSUME IInv, NEW b \in Browsers, NEW session \in Session, request[b].op = "send",
           NEW row \in {"stored", "lost"},
           codes' = [codes EXCEPT ![request[b].code].row = row],
           Answers(b, session), UNCHANGED <<now, provider>>, deaths' \in 0 .. MaxDeaths
    PROVE  IInv'
<1> DEFINE c == request[b].code
           new == [codes[c] EXCEPT !.row = row]
<1>1. c \in DOMAIN codes /\ codes[c] \in Code /\ codes[c].row = "open"
  BY CodeNumbers DEF IInv, RequestsOK
<1>2. new \in Code /\ new.guesses = new.attempts
  BY <1>1 DEF Code, IInv, CountsOK
<1>3. c \notin Stored
  BY <1>1 DEF Stored
<1>4. \A a \in Browsers \ {b} : request[a].op = "send" => request[a].code # c
  BY DEF IInv, RequestsOK
<1>5. codes' = [codes EXCEPT ![c] = new]
  OBVIOUS
<1> HIDE DEF new, c
<1> QED
  BY <1>1, <1>2, <1>3, <1>4, <1>5, CodeChangeKeeps

\* The code a check compares is stored, unused and has attempts left; it is the
\* only one that changes.
LEMMA CheckedCode ==
    ASSUME IInv, NEW b \in Browsers, NEW right \in BOOLEAN, Check(b, right)
    PROVE  \E c \in Stored :
              /\ ~codes[c].used /\ codes[c].attempts < MaxAttempts
              /\ codes' = Guessed(c, right)
<1> DEFINE live == StillLive(request[b].seen)
<1>1. live \subseteq Stored /\ live # {} /\ live \subseteq DOMAIN codes
  BY DEF Check, IInv, RequestsOK, StillLive, Stored
<1>2. NewestOf(live) \in live
  BY <1>1, NewestExists DEF IInv
<1>3. ~codes[NewestOf(live)].used
  BY <1>2 DEF StillLive
<1>4. MayGuess(NewestOf(live)) /\ codes' = Guessed(NewestOf(live), right)
  BY DEF Check
<1> HIDE DEF live
<1> QED
  BY <1>1, <1>2, <1>3, <1>4 DEF MayGuess

\* Checking a code keeps the invariant.
LEMMA CheckKeeps ==
    ASSUME IInv, NEW b \in Browsers, NEW right \in BOOLEAN, Check(b, right)
    PROVE  IInv'
<1>1. PICK c \in Stored : /\ ~codes[c].used /\ codes[c].attempts < MaxAttempts
                          /\ codes' = Guessed(c, right)
  BY CheckedCode
<1> DEFINE new == [codes[c] EXCEPT !.attempts = IF @ < MaxAttempts THEN @ + 1 ELSE @,
                                   !.used = @ \/ right, !.guesses = @ + 1]
<1>2. c \in DOMAIN codes /\ codes[c] \in Code /\ codes[c].row = "stored"
  BY CodeNumbers DEF Stored, IInv
<1>3. codes[c].guesses = codes[c].attempts
  BY <1>2 DEF IInv, CountsOK
<1>4. codes' = [codes EXCEPT ![c] = new]
  BY <1>1 DEF Guessed
<1>5. new \in Code /\ new.guesses = new.attempts /\ new.row = "stored"
  <2>1. /\ codes[c].attempts \in 0 .. MaxAttempts /\ codes[c].attempts + 1 \in 0 .. MaxAttempts
        /\ codes[c].guesses \in Nat /\ (codes[c].used \/ right) \in BOOLEAN
    BY <1>1, <1>2 DEF Code
  <2>2. /\ new.attempts = codes[c].attempts + 1 /\ new.guesses = codes[c].guesses + 1
        /\ new.row = codes[c].row
    BY <1>1, <1>2 DEF Code
  <2>3. new \in Code
    <3> DEFINE attempts == IF codes[c].attempts < MaxAttempts
                           THEN codes[c].attempts + 1 ELSE codes[c].attempts
               used == codes[c].used \/ right
               guesses == codes[c].guesses + 1
    <3>1. attempts \in 0 .. MaxAttempts /\ used \in BOOLEAN /\ guesses \in Nat
      BY <1>1, <2>1
    <3>2. new = [codes[c] EXCEPT !.attempts = attempts, !.used = used, !.guesses = guesses]
      OBVIOUS
    <3> HIDE DEF new, attempts, used, guesses
    <3> QED
      BY <1>2, <3>1, <3>2 DEF Code
  <2> QED
    BY <1>2, <1>3, <2>2, <2>3
<1>6. \A a \in Browsers \ {b} : request[a].op = "send" => request[a].code # c
  BY <1>2 DEF IInv, RequestsOK
<1>7. PICK session \in Session : Answers(b, session)
  BY DEF Check, IInv, CookiesOK, Session, SignedIn
<1>8. UNCHANGED <<now, provider>> /\ deaths' \in 0 .. MaxDeaths
  BY DEF Check, IInv, ClockOK
<1> HIDE DEF new
<1> QED
  BY <1>2, <1>4, <1>5, <1>6, <1>7, <1>8, CodeChangeKeeps

\* Reading the live codes keeps the invariant.
LEMMA StartCheckKeeps ==
    ASSUME IInv, NEW b \in Browsers, NEW purpose \in Purposes, StartCheck(b, purpose)
    PROVE  IInv'
<1> DEFINE work == [op |-> "check", purpose |-> purpose, seen |-> Live(purpose)]
<1>1. Live(purpose) \subseteq Stored /\ Live(purpose) \subseteq Nat
  BY CodeNumbers DEF Live, Stored, IInv
<1>2. work \in Work /\ work.op = "check" /\ work.seen \subseteq Stored
  BY <1>1 DEF Work, CheckWork
<1>3. request' = [request EXCEPT ![b] = work]
      /\ UNCHANGED <<now, codes, provider, cookie, deaths>>
  BY DEF StartCheck
<1> HIDE DEF work
<1>4. /\ request'[b] = work /\ \A a \in Browsers \ {b} : request'[a] = request[a]
      /\ request' \in [Browsers -> Work]
  BY <1>2, <1>3 DEF IInv, RequestsOK
<1>5. Stored' = Stored
  BY <1>3 DEF Stored
<1>6. RequestsOK'
  BY <1>2, <1>3, <1>4, <1>5 DEF IInv, RequestsOK
<1> QED
  BY <1>3, <1>6 DEF IInv, ClockOK, CodesOK, CookiesOK, CountsOK

\* A request that dies keeps it.
LEMMA DieKeeps == ASSUME IInv, NEW b \in Browsers, Die(b) PROVE IInv'
<1>1. Answers(b, cookie[b]) /\ cookie[b] \in Session /\ deaths' \in 0 .. MaxDeaths
      /\ UNCHANGED <<now, provider>>
  BY DEF Die, Answers, IInv, CookiesOK, ClockOK
<1>2. CASE request[b].op = "send"
  BY <1>1, <1>2, SendEndsKeep DEF Die
<1>3. CASE request[b].op # "send"
  BY <1>1, <1>3, AnswerKeeps DEF Die
<1> QED
  BY <1>2, <1>3

\* The invariant is inductive.
LEMMA NextKeeps == ASSUME IInv, [Next]_vars PROVE IInv'
<1>1. CASE UNCHANGED vars
  BY <1>1 DEF vars, IInv, ClockOK, CodesOK, CookiesOK, CountsOK, RequestsOK, Stored
<1>2. CASE Tick
  <2>1. now' \in 0 .. MaxTime /\ UNCHANGED <<codes, provider, cookie, request, deaths>>
    BY <1>2 DEF Tick, IInv, ClockOK
  <2> QED
    BY <2>1 DEF IInv, ClockOK, CodesOK, CookiesOK, CountsOK, RequestsOK, Stored
<1>3. ASSUME NEW b \in Browsers, Handler(b) PROVE IInv'
  <2>1. cookie[b] \in Session /\ Cleared \in Session /\ deaths \in 0 .. MaxDeaths
    BY DEF IInv, CookiesOK, ClockOK, Cleared, Session
  <2>2. CASE SubmitPhone(b) \/ LogInPhone(b) \/ Resend(b)
    BY <2>2, AskingKeeps
  <2>3. CASE CommitSend(b)
    <3>1. request[b].session \in Session
      BY <2>3, KindOfWork DEF CommitSend, IInv, RequestsOK, SendWork
    <3> QED
      BY <2>1, <2>3, <3>1, SendEndsKeep DEF CommitSend
  <2>4. CASE SubmitCode(b) \/ LogInCode(b)
    BY <2>4, StartCheckKeeps DEF SubmitCode, LogInCode, Purposes
  <2>5. CASE Refuse(b)
    BY <2>1, <2>5, AnswerKeeps DEF Refuse
  <2>6. ASSUME NEW right \in BOOLEAN, Check(b, right) PROVE IInv'
    BY <2>6, CheckKeeps
  <2>7. CASE LogOut(b)
    BY <2>1, <2>7, AnswerKeeps DEF LogOut
  <2>8. CASE Die(b)
    BY <2>8, DieKeeps
  <2> QED
    BY <1>3, <2>2, <2>3, <2>4, <2>5, <2>6, <2>7, <2>8 DEF Handler
<1> QED
  BY <1>1, <1>2, <1>3 DEF Next

\* Before any code is sent the invariant holds.
LEMMA Initial == Init => IInv
<1> SUFFICES ASSUME Init PROVE IInv
  OBVIOUS
<1>1. codes = <<>> /\ <<>> \in Seq(Code) /\ Len(<<>>) = 0 /\ DOMAIN <<>> = {}
  BY EmptySeq DEF Init
<1>2. CodesOK /\ CountsOK
  BY <1>1 DEF CodesOK, CountsOK
<1>3. ClockOK /\ CookiesOK
  BY DEF Init, ClockOK, CookiesOK, Cleared, Session
<1>4. RequestsOK
  <2>1. \A b \in Browsers : request[b] = Idle /\ request[b].op = "idle"
    BY DEF Init, Idle
  <2>2. request \in [Browsers -> Work]
    BY DEF Init, Work
  <2> QED
    BY <2>1, <2>2 DEF RequestsOK
<1> QED
  BY <1>2, <1>3, <1>4 DEF IInv

\* The invariant holds in every reachable state.
LEMMA Invariant == Spec => []IInv
<1>1. Init => IInv
  BY Initial
<1>2. IInv /\ [Next]_vars => IInv'
  BY NextKeeps
<1> QED
  BY <1>1, <1>2, PTL DEF Spec

(* Codes, cookies and requests keep their shape, and no two browsers ever wait
   for the same code to be sent, for any number of browsers and codes. *)
THEOREM TypeCorrect == Spec => []TypeOK
<1>1. IInv => TypeOK
  BY DEF IInv, ClockOK, CodesOK, CookiesOK, RequestsOK, Stored, TypeOK
<1> QED
  BY <1>1, Invariant, PTL

(* However many browsers guess at once, a code is compared with at most
   MaxAttempts guesses (verify_code and its row lock). *)
THEOREM GuessesAreBounded == Spec => []GuessesBounded
<1>1. IInv => GuessesBounded
  <2> SUFFICES ASSUME IInv, NEW c \in DOMAIN codes PROVE codes[c].guesses <= MaxAttempts
    BY DEF GuessesBounded
  <2> QED
    BY CodeNumbers DEF IInv, CountsOK, Code
<1> QED
  BY <1>1, Invariant, PTL

\* Only a right guess signs a browser in.
LEMMA OnlyCheckSignsIn ==
    ASSUME IInv, Next, NEW b \in Browsers, ~cookie[b].uid, cookie'[b].uid
    PROVE  Check(b, TRUE)
<1>1. cookie \in [Browsers -> Session] /\ cookie[b] \in Session
  BY DEF IInv, CookiesOK
<1>2. ASSUME NEW purpose PROVE ~Remembering(cookie[b], purpose).uid
  BY DEF Remembering
<1>3. PICK a \in Browsers : Handler(a)
  BY DEF Next, Tick
<1>4. ASSUME NEW session, Answers(a, session) PROVE a = b /\ session.uid
  BY <1>1, <1>4 DEF Answers
<1>5. cookie' # cookie
  OBVIOUS
<1>6. ~SubmitPhone(a) /\ ~LogInPhone(a) /\ ~Resend(a)
  BY <1>2, <1>4, <1>5 DEF SubmitPhone, LogInPhone, Resend, Issue
<1>7. ~CommitSend(a)
  BY <1>4 DEF CommitSend, IInv, RequestsOK
<1>8. ~SubmitCode(a) /\ ~LogInCode(a) /\ ~Die(a)
  BY <1>5 DEF SubmitCode, LogInCode, StartCheck, Die
<1>9. ~Refuse(a) /\ ~LogOut(a)
  BY <1>4 DEF Refuse, LogOut, Cleared
<1>10. PICK right \in BOOLEAN : Check(a, right)
  BY <1>3, <1>6, <1>7, <1>8, <1>9 DEF Handler
<1>11. a = b /\ right
  BY <1>4, <1>10 DEF Check
<1> QED
  BY <1>10, <1>11

(* With every browser that becomes signed in exactly one stored code is consumed
   (verify_code), so no code signs in twice. *)
THEOREM SigningInConsumesACode == Spec => SignInConsumesACode
<1>1. IInv /\ [Next]_vars =>
        [\A b \in Browsers : ~cookie[b].uid /\ cookie'[b].uid =>
          \E c \in Stored :
              /\ ~codes[c].used /\ codes'[c].used
              /\ \A d \in DOMAIN codes \ {c} : codes'[d].used = codes[d].used]_vars
  <2> SUFFICES ASSUME IInv, Next, NEW b \in Browsers, ~cookie[b].uid, cookie'[b].uid
               PROVE  \E c \in Stored :
                        /\ ~codes[c].used /\ codes'[c].used
                        /\ \A d \in DOMAIN codes \ {c} : codes'[d].used = codes[d].used
    OBVIOUS
  <2>1. Check(b, TRUE)
    BY OnlyCheckSignsIn
  <2>2. PICK c \in Stored : ~codes[c].used /\ codes' = Guessed(c, TRUE)
    BY <2>1, CheckedCode
  <2>3. c \in DOMAIN codes /\ codes[c] \in Code
    BY CodeNumbers DEF Stored, IInv
  <2>4. codes'[c].used /\ \A d \in DOMAIN codes \ {c} : codes'[d] = codes[d]
    BY <2>2, <2>3 DEF Guessed, Code
  <2> QED
    BY <2>2, <2>4
<1> QED
  BY <1>1, Invariant, PTL DEF Spec, SignInConsumesACode
-----------------------------------------------------------------------------
(* How many messages an hour brings. *)

Lost == {c \in DOMAIN codes : codes[c].row = "lost"}
Open == {c \in DOMAIN codes : codes[c].row = "open"}
SentAround(t) == {c \in DOMAIN codes : codes[c].at \in t - Hour + 1 .. t}

\* Every open code has a browser that waits for it, every lost one a death, and
\* no code is newer than the clock.
SendingOK ==
    /\ \A c \in Open : \E b \in Browsers : request[b].op = "send" /\ request[b].code = c
    /\ Cardinality(Lost) <= deaths
    /\ \A c \in DOMAIN codes : codes[c].at <= now

\* What belongs to different members of a finite set is no more than they are.
LEMMA NoMoreThanOwners ==
    ASSUME NEW T, IsFiniteSet(T), NEW owned, NEW S,
           \A s \in S : \E t \in T : owned[t] = s
    PROVE  IsFiniteSet(S) /\ Cardinality(S) <= Cardinality(T)
<1> DEFINE owner == [s \in S |-> CHOOSE t \in T : owned[t] = s]
<1>1. \A s \in S : owner[s] \in T /\ owned[owner[s]] = s
  OBVIOUS
<1>2. owner \in [S -> T]
  BY <1>1
<1> HIDE DEF owner
<1>3. owner \in Injection(S, T)
  BY <1>1, <1>2 DEF Injection, IsInjective
<1> QED
  BY <1>3, FS_Injection

\* The codes are finitely many, and so are those of any kind.
LEMMA FinitelyMany ==
    ASSUME CodesOK, NEW S, S \subseteq DOMAIN codes
    PROVE  IsFiniteSet(S) /\ Cardinality(S) \in Nat
<1>1. Len(codes) \in Nat /\ S \in SUBSET (1 .. Len(codes))
  BY CodeNumbers
<1>2. IsFiniteSet(S)
  BY <1>1, FS_Interval, FS_Subset
<1> QED
  BY <1>2, FS_CardinalityType

\* A union is no larger than its parts together.
LEMMA UnionBound ==
    ASSUME NEW S, NEW T, IsFiniteSet(S), IsFiniteSet(T)
    PROVE  /\ IsFiniteSet(S \cup T) /\ Cardinality(S) \in Nat /\ Cardinality(T) \in Nat
           /\ Cardinality(S \cup T) \in Nat
           /\ Cardinality(S \cup T) <= Cardinality(S) + Cardinality(T)
<1>1. IsFiniteSet(S \cap T)
  BY FS_Intersection
<1>2. /\ Cardinality(S) \in Nat /\ Cardinality(T) \in Nat /\ Cardinality(S \cap T) \in Nat
  BY <1>1, FS_CardinalityType
<1>3. /\ IsFiniteSet(S \cup T)
      /\ Cardinality(S \cup T) = Cardinality(S) + Cardinality(T) - Cardinality(S \cap T)
  BY FS_Union
<1>4. Cardinality(S \cup T) \in Nat
  BY <1>3, FS_CardinalityType
<1> QED
  BY <1>2, <1>3, <1>4

\* One element more counts for at most one.
LEMMA OneMore ==
    ASSUME NEW S, NEW x, IsFiniteSet(S)
    PROVE  /\ IsFiniteSet(S \cup {x}) /\ Cardinality(S) \in Nat
           /\ Cardinality(S \cup {x}) \in Nat /\ Cardinality(S \cup {x}) <= Cardinality(S) + 1
<1>1. IsFiniteSet({x}) /\ Cardinality({x}) = 1
  BY FS_Singleton
<1> QED
  BY <1>1, UnionBound

\* A step that sends nothing and changes no row.
Quiet ==
    /\ DOMAIN codes' = DOMAIN codes
    /\ \A c \in DOMAIN codes : codes'[c].at = codes[c].at /\ codes'[c].row = codes[c].row
    /\ \A b \in Browsers : request[b].op = "send" => request'[b] = request[b]
    /\ deaths' >= deaths /\ now' >= now

\* A step that ends the sending of a code.
SendEnds(b, row) ==
    /\ request[b].op = "send"
    /\ codes' = [codes EXCEPT ![request[b].code].row = row]
    /\ \A a \in Browsers \ {b} : request'[a] = request[a]
    /\ deaths' = (IF row = "lost" THEN deaths + 1 ELSE deaths) /\ now' = now

\* A step that sends one.
SendStarts(b) ==
    /\ request[b] = Idle /\ ~TooMany
    /\ \E purpose \in Purposes : codes' = Append(codes, NewCode(purpose))
    /\ request'[b].op = "send" /\ request'[b].code = Len(codes) + 1
    /\ \A a \in Browsers \ {b} : request'[a] = request[a]
    /\ deaths' = deaths /\ now' = now

\* Every step is one of these.
LEMMA KindOfStep ==
    ASSUME IInv, [Next]_vars
    PROVE  \/ Quiet
           \/ \E b \in Browsers, row \in {"stored", "lost"} : SendEnds(b, row)
           \/ \E b \in Browsers : SendStarts(b)
<1>1. now \in Nat /\ deaths \in Nat /\ request \in [Browsers -> Work]
  BY DEF IInv, ClockOK, RequestsOK
<1>2. CASE UNCHANGED vars
  BY <1>1, <1>2 DEF vars, Quiet
<1>3. CASE Tick
  BY <1>1, <1>3 DEF Tick, Quiet
<1>4. ASSUME NEW b \in Browsers, Handler(b)
      PROVE  Quiet \/ SendStarts(b) \/ \E row \in {"stored", "lost"} : SendEnds(b, row)
  <2>1. ASSUME NEW session, Answers(b, session), request[b].op # "send", codes' = codes,
               now' = now, deaths' >= deaths
        PROVE  Quiet
    BY <1>1, <2>1 DEF Answers, Quiet
  <2>2. Idle.op = "idle"
    BY DEF Idle
  <2>3. ASSUME NEW purpose \in Purposes, NEW early, NEW many, NEW sent,
               Issue(b, purpose, early, many, sent)
        PROVE  Quiet \/ SendStarts(b)
    BY <1>1, <2>1, <2>2, <2>3 DEF Issue, SendStarts
  <2>4. CASE SubmitPhone(b) \/ LogInPhone(b) \/ Resend(b)
    BY <1>1, <2>1, <2>2, <2>3, <2>4 DEF SubmitPhone, LogInPhone, Resend, Purposes
  <2>5. CASE CommitSend(b)
    BY <1>1, <2>5 DEF CommitSend, Answers, SendEnds
  <2>6. CASE SubmitCode(b) \/ LogInCode(b)
    BY <1>1, <2>2, <2>6 DEF SubmitCode, LogInCode, StartCheck, Quiet
  <2>7. CASE Refuse(b) \/ LogOut(b)
    BY <1>1, <2>1, <2>2, <2>7 DEF Refuse, LogOut
  <2>8. ASSUME NEW right \in BOOLEAN, Check(b, right) PROVE Quiet
    <3>1. PICK c \in Stored : codes' = Guessed(c, right)
      BY <2>8, CheckedCode
    <3>2. \A d \in DOMAIN codes : codes[d] \in Code
      BY CodeNumbers DEF IInv
    <3>3. /\ DOMAIN codes' = DOMAIN codes
          /\ \A d \in DOMAIN codes : codes'[d].at = codes[d].at /\ codes'[d].row = codes[d].row
      BY <3>1, <3>2 DEF Guessed, Code, Stored
    <3> QED
      BY <1>1, <2>8, <3>3 DEF Check, Answers, Quiet
  <2>9. CASE Die(b)
    <3>1. CASE request[b].op = "send"
      BY <1>1, <2>9, <3>1 DEF Die, SendEnds
    <3>2. CASE request[b].op # "send"
      BY <1>1, <2>9, <3>2 DEF Die, Quiet
    <3> QED
      BY <3>1, <3>2
  <2> QED
    BY <1>4, <2>4, <2>5, <2>6, <2>7, <2>8, <2>9 DEF Handler
<1> QED
  BY <1>2, <1>3, <1>4 DEF Next

\* What a quiet step leaves as it was.
LEMMA QuietKeeps ==
    ASSUME IInv, IInv', SendingOK, SendsPerHour, Quiet PROVE SendingOK' /\ SendsPerHour'
<1>1. Open' = Open /\ Lost' = Lost /\ \A t \in 0 .. MaxTime : SentAround(t)' = SentAround(t)
  BY DEF Quiet, Open, Lost, SentAround
<1>2. /\ now \in Nat /\ now' \in Nat /\ deaths \in Nat /\ deaths' \in Nat
      /\ Cardinality(Lost) \in Nat /\ \A t \in 0 .. MaxTime : Cardinality(SentAround(t)) \in Nat
  BY FinitelyMany DEF IInv, ClockOK, Lost, SentAround
<1>3. \A c \in DOMAIN codes : codes[c].at \in Nat
  BY CodeNumbers DEF IInv, Code
<1>4. SendingOK'
  BY <1>1, <1>2, <1>3 DEF SendingOK, Quiet
<1>5. Cardinality(Browsers) \in Nat
  BY FS_CardinalityType
<1>6. SendsPerHour'
  BY <1>1, <1>2, <1>5 DEF SendsPerHour, SentAround, Quiet
<1> QED
  BY <1>4, <1>6

\* A code that is committed or lost is not open any more; a death pays for the
\* one that is lost.
LEMMA SendEndsKeepsSending ==
    ASSUME IInv, IInv', SendingOK, SendsPerHour,
           NEW b \in Browsers, NEW row \in {"stored", "lost"}, SendEnds(b, row)
    PROVE  SendingOK' /\ SendsPerHour'
<1> DEFINE c == request[b].code
<1>1. /\ c \in DOMAIN codes /\ codes[c] \in Code /\ codes[c].row = "open"
      /\ \A d \in DOMAIN codes : codes[d] \in Code
  BY CodeNumbers DEF IInv, RequestsOK, SendEnds
<1>2. codes' = [codes EXCEPT ![c] = [codes[c] EXCEPT !.row = row]]
  BY DEF SendEnds
<1> HIDE DEF c
<1>3. /\ DOMAIN codes' = DOMAIN codes /\ codes'[c].row = row
      /\ \A d \in DOMAIN codes \ {c} : codes'[d] = codes[d]
      /\ \A d \in DOMAIN codes : codes'[d].at = codes[d].at /\ codes[d].at \in Nat
  BY <1>1, <1>2 DEF Code
<1>4. /\ Open' = Open \ {c} /\ \A t \in 0 .. MaxTime : SentAround(t)' = SentAround(t)
      /\ Lost' = (IF row = "lost" THEN Lost \cup {c} ELSE Lost) /\ c \notin Lost
  BY <1>1, <1>3 DEF Open, Lost, SentAround
<1>5. /\ now' = now /\ deaths \in Nat /\ IsFiniteSet(Lost)
      /\ Cardinality(Lost) \in Nat /\ \A t \in 0 .. MaxTime : Cardinality(SentAround(t)) \in Nat
  BY FinitelyMany DEF IInv, ClockOK, Lost, SentAround, SendEnds
<1>6. Cardinality(Lost') <= deaths'
  <2>1. /\ Cardinality(Lost \cup {c}) \in Nat /\ Cardinality(Lost \cup {c}) <= Cardinality(Lost) + 1
        /\ Cardinality(Lost) <= deaths
    BY <1>5, OneMore DEF SendingOK
  <2>2. row = "lost" => deaths' = deaths + 1
    BY DEF SendEnds
  <2>3. row # "lost" => deaths' = deaths
    BY DEF SendEnds
  <2> QED
    BY <1>4, <1>5, <2>1, <2>2, <2>3
<1>7. SendingOK'
  <2>1. ASSUME NEW d \in Open' PROVE \E a \in Browsers : request'[a].op = "send" /\ request'[a].code = d
    <3>1. PICK a \in Browsers : request[a].op = "send" /\ request[a].code = d
      BY <1>4 DEF SendingOK
    <3>2. a # b
      BY <1>4, <3>1 DEF c
    <3> QED
      BY <3>1, <3>2 DEF SendEnds
  <2> QED
    BY <1>3, <1>5, <1>6, <2>1 DEF SendingOK
<1>8. Cardinality(Browsers) \in Nat
  BY FS_CardinalityType
<1>9. SendsPerHour'
  BY <1>4, <1>5, <1>8 DEF SendsPerHour, SentAround, SendEnds
<1> QED
  BY <1>7, <1>9

\* Every code of the last hour is stored, and then it was counted; or open, and
\* then it belongs to another browser; or lost, and then somebody died.
LEMMA RoomForOneMore ==
    ASSUME IInv, SendingOK, NEW b \in Browsers, SendStarts(b), NEW t \in 0 .. MaxTime, now <= t
    PROVE  Cardinality(SentAround(t)) + 1 <= MaxSends + Cardinality(Browsers) - 1 + deaths
<1>1. /\ SentLastHour \subseteq DOMAIN codes /\ Lost \subseteq DOMAIN codes
      /\ Open \subseteq DOMAIN codes /\ SentAround(t) \subseteq DOMAIN codes
  BY DEF SentLastHour, Stored, Lost, Open, SentAround
<1>2. /\ IsFiniteSet(SentLastHour) /\ IsFiniteSet(Open) /\ IsFiniteSet(Lost)
      /\ Cardinality(SentLastHour) \in Nat /\ Cardinality(Open) \in Nat
      /\ Cardinality(Lost) \in Nat /\ Cardinality(SentAround(t)) \in Nat
  BY <1>1, FinitelyMany DEF IInv
<1>3. SentAround(t) \subseteq (SentLastHour \cup Open) \cup Lost
  <2> SUFFICES ASSUME NEW c \in SentAround(t), c \notin Open, c \notin Lost
               PROVE  c \in SentLastHour
    OBVIOUS
  <2>1. c \in DOMAIN codes /\ codes[c] \in Code /\ codes[c].at >= t - Hour + 1 /\ now \in Nat
    BY CodeNumbers DEF SentAround, IInv, ClockOK
  <2>2. codes[c].row = "stored"
    BY <2>1 DEF Code, Open, Lost
  <2>3. codes[c].at > now - Hour
    BY <2>1 DEF Code
  <2> QED
    BY <2>1, <2>2, <2>3 DEF SentLastHour, Stored
<1>4. Cardinality(SentLastHour) < MaxSends
  BY <1>2 DEF SendStarts, TooMany
<1>5. IsFiniteSet(Browsers \ {b}) /\ Cardinality(Browsers \ {b}) = Cardinality(Browsers) - 1
      /\ Cardinality(Browsers) \in Nat
  BY FS_RemoveElement, FS_CardinalityType
<1>6. Cardinality(Open) <= Cardinality(Browsers) - 1
  <2> DEFINE owned == [a \in Browsers |-> request[a].code]
  <2>1. \A c \in Open : \E a \in Browsers \ {b} : owned[a] = c
    BY DEF SendingOK, SendStarts, Idle
  <2> HIDE DEF owned
  <2> QED
    BY <1>5, <2>1, NoMoreThanOwners
<1>7. /\ IsFiniteSet(SentLastHour \cup Open)
      /\ Cardinality(SentLastHour \cup Open) <= Cardinality(SentLastHour) + Cardinality(Open)
      /\ Cardinality(SentLastHour \cup Open) \in Nat
  BY <1>2, UnionBound
<1>8. /\ IsFiniteSet((SentLastHour \cup Open) \cup Lost)
      /\ Cardinality((SentLastHour \cup Open) \cup Lost)
            <= Cardinality(SentLastHour \cup Open) + Cardinality(Lost)
      /\ Cardinality((SentLastHour \cup Open) \cup Lost) \in Nat
  BY <1>2, <1>7, UnionBound
<1>9. Cardinality(SentAround(t)) <= Cardinality((SentLastHour \cup Open) \cup Lost)
  BY <1>3, <1>8, FS_Subset
<1>10. Cardinality(Lost) <= deaths /\ deaths \in Nat
  BY DEF SendingOK, IInv, ClockOK
<1> QED
  BY <1>2, <1>4, <1>5, <1>6, <1>7, <1>8, <1>9, <1>10

\* A new code is its browser's and in no window that has passed.
LEMMA SendStartsKeeps ==
    ASSUME IInv, IInv', SendingOK, SendsPerHour, NEW b \in Browsers, SendStarts(b)
    PROVE  SendingOK' /\ SendsPerHour'
<1> DEFINE n == Len(codes) + 1
<1>1. PICK purpose \in Purposes : codes' = Append(codes, NewCode(purpose))
  BY DEF SendStarts
<1> DEFINE new == NewCode(purpose)
<1>2. new \in Code /\ new.row = "open" /\ new.at = now /\ now \in Nat
  BY DEF IInv, ClockOK, NewCode, Code
<1>3. codes' = Append(codes, new)
  BY <1>1
<1> HIDE DEF new
<1>4. Len(codes) \in Nat /\ DOMAIN codes = 1 .. Len(codes) /\ codes \in Seq(Code)
      /\ \A c \in DOMAIN codes : codes[c] \in Code
  BY CodeNumbers DEF IInv, CodesOK
<1>5. /\ codes' \in Seq(Code) /\ Len(codes') = n /\ DOMAIN codes' = 1 .. n
      /\ codes'[n] = new /\ \A c \in DOMAIN codes : codes'[c] = codes[c]
  BY <1>2, <1>3, <1>4, AppendProperties, LenProperties
<1>6. n \notin DOMAIN codes /\ DOMAIN codes' = DOMAIN codes \cup {n}
  BY <1>4, <1>5
<1>7. request'[b].op = "send" /\ request'[b].code = n
  BY DEF SendStarts
<1> HIDE DEF n
<1>8. Lost' = Lost /\ Open' = Open \cup {n}
  BY <1>2, <1>5, <1>6 DEF Lost, Open
<1>9. SendingOK'
  <2>1. ASSUME NEW c \in Open' PROVE \E a \in Browsers : request'[a].op = "send" /\ request'[a].code = c
    <3>1. CASE c = n
      BY <1>7, <3>1
    <3>2. CASE c # n
      <4>1. PICK a \in Browsers : request[a].op = "send" /\ request[a].code = c
        BY <1>8, <3>2 DEF SendingOK
      <4>2. a # b
        BY <4>1 DEF SendStarts, Idle
      <4> QED
        BY <4>1, <4>2 DEF SendStarts
    <3> QED
      BY <3>1, <3>2
  <2>2. \A c \in DOMAIN codes' : codes'[c].at <= now'
    BY <1>2, <1>5, <1>6 DEF SendingOK, SendStarts
  <2>3. Cardinality(Lost') <= deaths'
    BY <1>8 DEF SendingOK, SendStarts
  <2> QED
    BY <2>1, <2>2, <2>3 DEF SendingOK
<1>10. ASSUME NEW t \in 0 .. MaxTime
       PROVE  Cardinality(SentAround(t)') <= MaxSends + Cardinality(Browsers) - 1 + deaths'
  <2>1. SentAround(t) \subseteq DOMAIN codes
    BY DEF SentAround
  <2>2. IsFiniteSet(SentAround(t)) /\ Cardinality(SentAround(t)) \in Nat
    BY <2>1, FinitelyMany DEF IInv
  <2>3. Cardinality(SentAround(t)) <= MaxSends + Cardinality(Browsers) - 1 + deaths
    BY DEF SendsPerHour, SentAround
  <2>4. CASE t < now
    <3>1. codes'[n].at \notin t - Hour + 1 .. t
      BY <1>2, <1>5, <1>10, <2>4
    <3>2. \A c \in DOMAIN codes' : codes'[c].at \in t - Hour + 1 .. t <=>
                                      c \in DOMAIN codes /\ codes[c].at \in t - Hour + 1 .. t
      BY <1>5, <1>6, <3>1
    <3>3. SentAround(t)' = SentAround(t)
      BY <1>6, <3>2 DEF SentAround
    <3> QED
      BY <2>3, <3>3 DEF SendStarts
  <2>5. CASE now <= t
    <3>1. SentAround(t)' \subseteq SentAround(t) \cup {n}
      BY <1>5, <1>6 DEF SentAround
    <3>2. /\ IsFiniteSet(SentAround(t) \cup {n})
          /\ Cardinality(SentAround(t) \cup {n}) <= Cardinality(SentAround(t)) + 1
          /\ Cardinality(SentAround(t) \cup {n}) \in Nat
      BY <2>2, OneMore
    <3>3. Cardinality(SentAround(t)') <= Cardinality(SentAround(t) \cup {n})
      BY <3>1, <3>2, FS_Subset
    <3>4. Cardinality(SentAround(t)') \in Nat
      BY <3>1, <3>2, FS_Subset, FS_CardinalityType
    <3>5. Cardinality(SentAround(t)) + 1 <= MaxSends + Cardinality(Browsers) - 1 + deaths
      BY <2>5, RoomForOneMore
    <3>6. Cardinality(Browsers) \in Nat /\ deaths' = deaths /\ deaths \in Nat
      BY FS_CardinalityType DEF SendStarts, IInv, ClockOK
    <3> QED
      BY <2>2, <3>2, <3>3, <3>4, <3>5, <3>6
  <2> QED
    BY <1>2, <2>4, <2>5
<1>11. SendsPerHour'
  BY <1>10 DEF SendsPerHour, SentAround
<1> QED
  BY <1>9, <1>11

(* In any hour the phone gets MaxSends messages, beyond them at most one for each
   other browser asking at the same time and one for each death (issue_code reads
   the past codes before the new one is committed). *)
THEOREM SendsAreLimited == Spec => []SendsPerHour
<1>1. Init => SendingOK /\ SendsPerHour
  <2> SUFFICES ASSUME Init PROVE SendingOK /\ SendsPerHour
    OBVIOUS
  <2>1. DOMAIN codes = {} /\ deaths = 0 /\ Lost = {}
    BY EmptySeq DEF Init, Lost
  <2>2. SendingOK
    BY <2>1, FS_EmptySet DEF SendingOK, Open
  <2>3. Cardinality(Browsers) \in Nat
    BY FS_CardinalityType
  <2>4. ASSUME NEW t \in 0 .. MaxTime
        PROVE  Cardinality(SentAround(t)) <= MaxSends + Cardinality(Browsers) - 1 + deaths
    <3>1. SentAround(t) = {}
      BY <2>1 DEF SentAround
    <3> QED
      BY <2>1, <2>3, <3>1, FS_EmptySet
  <2> QED
    BY <2>2, <2>4 DEF SendsPerHour, SentAround
<1>2. IInv /\ IInv' /\ SendingOK /\ SendsPerHour /\ [Next]_vars => SendingOK' /\ SendsPerHour'
  BY KindOfStep, QuietKeeps, SendEndsKeepsSending, SendStartsKeeps
<1> QED
  BY <1>1, <1>2, Invariant, PTL DEF Spec
===============================================================================
