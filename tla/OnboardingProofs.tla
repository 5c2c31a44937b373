-------------------------- MODULE OnboardingProofs ---------------------------
(***************************************************************************)
(* What the wizard guarantees for any number of browsers, dresses, pieces, *)
(* sizes and days, and any number of edits beside it.                      *)
(***************************************************************************)
EXTENDS Onboarding, FiniteSetTheorems, SequenceTheorems, WellFoundedInduction, TLAPS

USE OnboardingAssumption

-----------------------------------------------------------------------------
(* The redirects. *)

\* Where the steps stand.
LEMMA OrderOfSteps ==
    /\ Order["fork"] = 1 /\ Order["phone"] = 2 /\ Order["code"] = 3
    /\ Order["profile"] = 4 /\ Order["dress"] = 5 /\ Order["price"] = 6
    /\ Order["review"] = 7 /\ Order["done"] = 8
    /\ Steps = {"fork", "phone", "code", "profile", "dress", "price", "review", "done"}
  BY DEF Order, Steps

\* A step that is ahead leads back, one that is not is opened.
LEMMA Guarded ==
    ASSUME NEW d \in Devices, NEW step \in Steps, Reached(d) \in Steps
    PROVE  GuardedPage(d, step) \in {step, Reached(d)}
  BY DEF GuardedPage

\* The pages by their step.
LEMMA Pages ==
    ASSUME NEW d \in Devices
    PROVE  /\ Answer(d, "fork") = IF User(d) THEN ForkPage ELSE "fork"
           /\ Answer(d, "phone") = PhonePage(d)
           /\ Answer(d, "code") = CodePage(d)
           /\ Answer(d, "profile") = GuardedPage(d, "profile")
           /\ Answer(d, "dress") = GuardedPage(d, "dress")
           /\ Answer(d, "price") = DraftPage(d, "price")
           /\ Answer(d, "review") = DraftPage(d, "review")
           /\ Answer(d, "done") = DonePage(d)
  BY DEF Answer

\* Nobody is signed in: the furthest step depends on the cookie only, and no
\* step leads past it.
LEMMA StrangerRedirects ==
    ASSUME NEW d \in Devices, ~User(d), NEW step \in Steps
    PROVE  /\ Reached(d) \in {"fork", "phone", "code"}
           /\ Answer(d, Reached(d)) = Reached(d)
           /\ Answer(d, step) \in {step, "fork", Reached(d)}
           /\ Answer(d, "fork") = "fork"
<1>1. StyleId(d) = 0
  BY DEF StyleId, Shop
<1>2. CASE Path(d) = "none"
  <2>1. Reached(d) = "fork"
    BY <1>2 DEF Reached
  <2>2. \A s \in Steps \ {"fork"} : ~MayOpen(d, s)
    BY <2>1, OrderOfSteps DEF MayOpen
  <2> QED
    BY <1>1, <1>2, <2>1, <2>2, Pages, OrderOfSteps
    DEF PhonePage, CodePage, GuardedPage, DraftPage, DonePage
<1>3. CASE Path(d) # "none"
  <2>1. /\ cookie[d].pending => Reached(d) = "code"
        /\ ~cookie[d].pending => Reached(d) = "phone"
    BY <1>3 DEF Reached
  <2>2. /\ ~cookie[d].pending => ~MayOpen(d, "code")
        /\ MayOpen(d, "phone")
        /\ cookie[d].pending => MayOpen(d, "code")
        /\ \A s \in Steps \ {"fork", "phone", "code"} : ~MayOpen(d, s)
    BY <2>1, OrderOfSteps DEF MayOpen
  <2> QED
    BY <1>1, <1>3, <2>1, <2>2, OrderOfSteps, Pages
    DEF PhonePage, CodePage, GuardedPage, DraftPage, DonePage
<1> QED
  BY <1>2, <1>3

\* Signed in without a shop: the profile is as far as it goes.
LEMMA NewcomerRedirects ==
    ASSUME NEW d \in Devices, User(d), ~HasShop, NEW step \in Steps
    PROVE  /\ Reached(d) \in {"fork", "profile"}
           /\ Answer(d, "fork") = "fork"
           /\ Answer(d, "profile") = Reached(d)
           /\ Answer(d, step) \in {step, "fork", "profile"}
<1>1. StyleId(d) = 0 /\ ForkPage = "fork"
  BY DEF StyleId, Shop, ForkPage
<1>2. CASE Path(d) = "none"
  <2>1. Reached(d) = "fork"
    BY <1>2 DEF Reached
  <2>2. \A s \in Steps \ {"fork"} : ~MayOpen(d, s)
    BY <2>1, OrderOfSteps DEF MayOpen
  <2> QED
    BY <1>1, <1>2, <2>1, <2>2, Pages, OrderOfSteps
    DEF PhonePage, CodePage, GuardedPage, DraftPage, DonePage
<1>3. CASE Path(d) # "none"
  <2>1. Reached(d) = "profile"
    BY <1>3 DEF Reached
  <2>2. /\ MayOpen(d, "profile")
        /\ \A s \in {"dress", "price", "review"} : ~MayOpen(d, s)
    BY <2>1, OrderOfSteps DEF MayOpen
  <2> QED
    BY <1>1, <1>3, <2>1, <2>2, Pages, OrderOfSteps
    DEF PhonePage, CodePage, GuardedPage, DraftPage, DonePage
<1> QED
  BY <1>2, <1>3

\* Signed in with a shop: the profile is always open, and what has been reached
\* is shown when it is asked for.
LEMMA OwnerRedirects ==
    ASSUME NEW d \in Devices, User(d), HasShop, NEW step \in Steps
    PROVE  /\ Reached(d) \in {"profile", "dress", "price", "review", "done"}
           /\ Answer(d, "fork") \in {"fork", "dress"}
           /\ Answer(d, "profile") = "profile"
           /\ Answer(d, Reached(d)) = Reached(d)
           /\ Answer(d, "dress") \in {"dress", "profile"}
           /\ Answer(d, step) \in {step, "profile", "dress", Reached(d), "404"}
<1> DEFINE st == StyleId(d)
<1>1. Shop(d) /\ Path(d) # "none"
  BY DEF Shop, Path, HasShop
<1>2. CASE Path(d) # shop.kind
  <2>1. Reached(d) = "profile"
    BY <1>2 DEF Reached
  <2>2. /\ MayOpen(d, "profile")
        /\ \A s \in {"dress", "price", "review"} : ~MayOpen(d, s)
    BY <2>1, OrderOfSteps DEF MayOpen
  <2> QED
    BY <1>1, <2>1, <2>2, Pages, OrderOfSteps
    DEF ForkPage, PhonePage, CodePage, GuardedPage, DraftPage, DonePage
<1>3. CASE Path(d) = shop.kind
  <2>1. Reached(d) = Listed(st)
    BY <1>3 DEF Reached
  <2>2. /\ Listed(st) \in {"dress", "price", "review", "done"}
        /\ Listed(st) = "done" => st # 0 /\ styles[st].published
        /\ Listed(st) \in {"price", "review"} => HasDraft(d)
    BY DEF Listed, HasDraft
  <2>3. /\ MayOpen(d, "profile") /\ MayOpen(d, "dress")
        /\ MayOpen(d, Reached(d))
        /\ Reached(d) = "dress" => ~MayOpen(d, "price") /\ ~MayOpen(d, "review")
        /\ Reached(d) = "price" => ~MayOpen(d, "review")
    BY <2>1, <2>2, OrderOfSteps DEF MayOpen
  <2>4. /\ GuardedPage(d, "profile") = "profile"
        /\ GuardedPage(d, "dress") = "dress"
        /\ DraftPage(d, "price") \in {"price", "404", Reached(d)}
        /\ DraftPage(d, "review") \in {"review", "404", Reached(d)}
        /\ Reached(d) \in {"price", "review"} => DraftPage(d, Reached(d)) = Reached(d)
    BY <2>1, <2>2, <2>3 DEF GuardedPage, DraftPage
  <2>5. /\ ForkPage \in {"fork", "dress"} /\ PhonePage(d) = "profile"
        /\ CodePage(d) = "profile" /\ DonePage(d) \in {"done", Reached(d)}
        /\ Reached(d) = "done" => DonePage(d) = "done"
    BY <1>1, <2>1, <2>2 DEF ForkPage, PhonePage, CodePage, DonePage
  <2> QED
    BY <2>1, <2>2, <2>4, <2>5, Pages, OrderOfSteps
<1> QED
  BY <1>2, <1>3

\* A page that is not found is one of a dress that has been listed.
LEMMA NotFoundIsListed ==
    ASSUME NEW d \in Devices, NEW step \in Steps, Answer(d, step) = "404"
    PROVE  step \in {"price", "review"} /\ Reached(d) = "done"
<1>1. Reached(d) \in Steps
  BY OrderOfSteps DEF Reached, Listed
<1>2. /\ ForkPage # "404" /\ PhonePage(d) # "404" /\ CodePage(d) # "404"
      /\ \A s \in Steps : GuardedPage(d, s) # "404"
      /\ DonePage(d) # "404"
  BY <1>1, OrderOfSteps DEF ForkPage, PhonePage, CodePage, GuardedPage, DonePage
<1>3. step \in {"price", "review"} /\ Answer(d, step) = DraftPage(d, step)
  BY <1>2, Pages, OrderOfSteps
<1>4. MayOpen(d, step) /\ ~HasDraft(d)
  BY <1>2, <1>3, OrderOfSteps DEF DraftPage
<1>5. Reached(d) \in {"price", "review", "done"}
  BY <1>1, <1>3, <1>4, OrderOfSteps DEF MayOpen
<1>6. Reached(d) = Listed(StyleId(d))
  BY <1>5 DEF Reached
<1> QED
  BY <1>3, <1>4, <1>5, <1>6 DEF Listed, HasDraft

\* The guards never send anybody round in a circle or to "not found", whatever
\* the cookies and the tables hold.
LEMMA RedirectsAlwaysEnd == RedirectsEnd
<1> SUFFICES ASSUME NEW d \in Devices, NEW step \in Steps
             PROVE  LET there == Answer(d, step) IN
                    \/ there = step
                    \/ there = "404" /\ step \in {"price", "review"} /\ Reached(d) = "done"
                    \/ there \in Steps /\ Answer(d, there) = there
                    \/ /\ there \in Steps /\ Answer(d, there) \in Steps
                       /\ Answer(d, Answer(d, there)) = Answer(d, there)
  BY DEF RedirectsEnd
<1>0. CASE Answer(d, step) = "404"
  BY <1>0, NotFoundIsListed
<1>1. CASE Answer(d, step) # "404" /\ ~User(d)
  BY <1>1, StrangerRedirects, OrderOfSteps
<1>2. CASE Answer(d, step) # "404" /\ User(d) /\ ~HasShop
  BY <1>2, NewcomerRedirects, OrderOfSteps
<1>3. CASE Answer(d, step) # "404" /\ User(d) /\ HasShop
  BY <1>3, OwnerRedirects, OrderOfSteps
<1> QED
  BY <1>0, <1>1, <1>2, <1>3
-----------------------------------------------------------------------------
(* Types. *)

\* A sequence of the pieces that are missing exists.
LEMMA MissingInASequence ==
    ASSUME NEW S, IsFiniteSet(S)
    PROVE  SetToSeq(S) \in Seq(S)
<1>1. Cardinality(S) \in Nat /\ ExistsBijection(1 .. Cardinality(S), S)
  BY FS_CardinalityType
<1>2. PICK f \in [1 .. Cardinality(S) -> S] : IsInjective(f)
  BY <1>1 DEF ExistsBijection, Bijection, Injection
<1>3. SetToSeq(S) \in [1 .. Cardinality(S) -> S]
  BY <1>2 DEF SetToSeq
<1> QED
  BY <1>1, <1>3, SeqDef

CookiesOK ==
    /\ cookie \in [Devices -> Session]
    /\ \A d \in Devices :
          cookie[d].style <= (IF cookie[d].user THEN Len(styles) ELSE 0)
ShopOK == shop \in [kind : Kinds \cup {"none"}, status : ShopStatuses] /\ blocked \in BOOLEAN
StylesOK == styles \in Seq(Style) /\ Len(styles) <= MaxStyles
ItemsOK ==
    /\ items \in Seq(Item) /\ Len(items) <= MaxItems
    /\ \A i \in DOMAIN items : items[i].style \in DOMAIN styles
DataOK == ShopOK /\ StylesOK /\ ItemsOK /\ CookiesOK

\* What the request of browser d works on is there.
RequestOK(d) ==
    /\ work[d].op \in {"dress", "price", "review"} =>
          HasShop /\ work[d].style = cookie[d].style
    /\ work[d].op \in {"dress", "price"} =>
          \A i \in work[d].pieces :
              i \in DOMAIN items /\ items[i].style = work[d].style
WorkOK == work \in [Devices -> Request] /\ \A d \in Devices : RequestOK(d)

\* A save that is not crossed has found every day that is stored for the
\* pieces it has done.
FoundAll(d) ==
    work[d].op = "price" =>
        /\ work[d].pieces # {} /\ work[d].left \subseteq work[d].pieces
        /\ ~work[d].crossed =>
              \A i \in work[d].pieces \ work[d].left : items[i].held \subseteq work[d].seen[i]

\* Two saves that change the price of a dress do not do its pieces side by side.
OneHolder ==
    \A d, e \in Devices :
        d # e /\ work[d].op = "price" => ~(HoldsRow(d, work[d].style) /\ HoldsRow(e, work[d].style))

DatesOK == (\A d \in Devices : FoundAll(d)) /\ OneHolder

IInv == DataOK /\ WorkOK /\ DatesOK /\ edits \in 0 .. MaxEdits

\* Nothing but a cookie is written.
LEMMA CookieKeeps ==
    ASSUME DataOK, NEW d \in Devices, NEW c \in Session,
           c.style <= (IF c.user THEN Len(styles) ELSE 0),
           cookie' = [cookie EXCEPT ![d] = c],
           UNCHANGED <<shop, blocked, styles, items>>
    PROVE  DataOK'
<1>1. CookiesOK'
  BY DEF DataOK, CookiesOK
<1>2. ShopOK' /\ StylesOK' /\ ItemsOK'
  BY DEF DataOK, ShopOK, StylesOK, ItemsOK
<1> QED
  BY <1>1, <1>2 DEF DataOK

\* Dresses are written or added.
LEMMA StylesKeep ==
    ASSUME DataOK, ShopOK', styles' \in Seq(Style),
           Len(styles) <= Len(styles'), Len(styles') <= MaxStyles,
           UNCHANGED items,
           CookiesOK'
    PROVE  DataOK'
<1>1. DOMAIN styles \subseteq DOMAIN styles'
  BY LenProperties DEF DataOK, StylesOK
<1>2. ItemsOK'
  BY <1>1 DEF DataOK, ItemsOK
<1> QED
  BY <1>2 DEF DataOK, StylesOK

\* The cookies stay good while the dresses become more.
LEMMA CookiesStay ==
    ASSUME DataOK, styles' \in Seq(Style), Len(styles) <= Len(styles'), UNCHANGED cookie
    PROVE  CookiesOK'
<1>1. Len(styles) \in Nat /\ Len(styles') \in Nat
  BY LenProperties DEF DataOK, StylesOK
<1>2. \A d \in Devices : cookie[d].style \in Nat
  BY DEF DataOK, CookiesOK, Session
<1> QED
  BY <1>1, <1>2 DEF DataOK, CookiesOK

\* Only pieces are written or added.
LEMMA ItemsKeep ==
    ASSUME DataOK, items' \in Seq(Item), Len(items') <= MaxItems,
           \A i \in DOMAIN items' :
               items'[i].style \in DOMAIN styles,
           UNCHANGED <<shop, blocked, styles, cookie>>
    PROVE  DataOK'
<1>1. ItemsOK'
  BY DEF DataOK, ItemsOK
<1> QED
  BY <1>1 DEF DataOK, ShopOK, StylesOK, CookiesOK

\* The steps that write nothing but the cookie of their browser.
LEMMA CookieSteps ==
    ASSUME DataOK, NEW d \in Devices,
           \/ \E path \in Kinds : ChoosePath(d, path)
           \/ SubmitPhone(d) \/ SubmitCode(d) \/ LogIn(d) \/ LogOut(d) \/ ListAnother(d)
    PROVE  DataOK'
<1> DEFINE c == cookie[d]
<1>1. /\ c \in Session /\ Len(styles) \in Nat
      /\ c.style <= (IF c.user THEN Len(styles) ELSE 0)
  BY LenProperties DEF DataOK, CookiesOK, StylesOK
<1>0. ASSUME NEW new \in Session, new.style = 0, cookie' = [cookie EXCEPT ![d] = new],
             UNCHANGED <<shop, blocked, styles, items>>
      PROVE  DataOK'
  <2>1. new.style <= (IF new.user THEN Len(styles) ELSE 0)
    BY <1>1, <1>0
  <2> QED
    BY <1>0, <2>1, CookieKeeps
<1>2. ASSUME NEW path \in Kinds, ChoosePath(d, path) PROVE DataOK'
  <2>1. cookie' = [cookie EXCEPT ![d] = [c EXCEPT !.path = path]]
    BY <1>2 DEF ChoosePath, Remember
  <2>2. /\ [c EXCEPT !.path = path] \in Session
        /\ [c EXCEPT !.path = path].style = c.style
        /\ [c EXCEPT !.path = path].user = c.user
    BY <1>1, <1>2 DEF Session
  <2> QED
    BY <1>1, <1>2, <2>1, <2>2, CookieKeeps DEF ChoosePath
<1>3. CASE SubmitPhone(d)
  <2>1. cookie' = [cookie EXCEPT ![d] = [c EXCEPT !.pending = TRUE]]
    BY <1>3 DEF SubmitPhone, Remember
  <2>2. /\ [c EXCEPT !.pending = TRUE] \in Session
        /\ [c EXCEPT !.pending = TRUE].style = c.style
        /\ [c EXCEPT !.pending = TRUE].user = c.user
    BY <1>1 DEF Session
  <2> QED
    BY <1>1, <1>3, <2>1, <2>2, CookieKeeps DEF SubmitPhone
<1>4. CASE ListAnother(d)
  <2>1. cookie' = [cookie EXCEPT ![d] = [c EXCEPT !.style = 0]]
    BY <1>4 DEF ListAnother, Remember
  <2>2. /\ [c EXCEPT !.style = 0] \in Session
        /\ [c EXCEPT !.style = 0].style = 0
    BY <1>1 DEF Session
  <2> QED
    BY <1>0, <1>4, <2>1, <2>2 DEF ListAnother
<1>5. 0 \in 0 .. MaxStyles
  OBVIOUS
<1>cleared. \A u \in BOOLEAN, path \in Kinds \cup {"none"} :
          LET new == [path |-> path, pending |-> FALSE, user |-> u, style |-> 0]
          IN  new \in Session /\ new.style = 0
  BY <1>5 DEF Session
<1>6. CASE SubmitCode(d)
  <2>1. c.path \in Kinds \cup {"none"}
    BY <1>1 DEF Session
  <2>2. SignedIn(d) \in Session /\ SignedIn(d).style = 0
    BY <1>5, <2>1 DEF SignedIn, Cleared, Session
  <2> QED
    BY <1>0, <1>6, <2>2 DEF SubmitCode
<1>7. CASE LogIn(d)
  <2>2. /\ [Cleared EXCEPT !.user = TRUE] \in Session
        /\ [Cleared EXCEPT !.user = TRUE].style = 0
    BY <1>5 DEF Cleared, Session
  <2> QED
    BY <1>0, <1>7, <2>2 DEF LogIn
<1>8. CASE LogOut(d)
  <2>1. Cleared \in Session /\ Cleared.style = 0
    BY <1>cleared DEF Cleared
  <2> QED
    BY <1>0, <1>8, <2>1 DEF LogOut
<1> QED
  BY <1>2, <1>3, <1>4, <1>6, <1>7, <1>8

\* The profile, and the administrator, write the shop and nothing else.
LEMMA ShopSteps ==
    ASSUME DataOK, shop' \in [kind : Kinds \cup {"none"}, status : ShopStatuses],
           blocked' \in BOOLEAN, UNCHANGED <<styles, items, cookie>>
    PROVE  DataOK'
  BY DEF DataOK, ShopOK, StylesOK, ItemsOK, CookiesOK

\* Which request a browser has under way shows in what it is doing.
LEMMA KindOfRequest ==
    ASSUME WorkOK, NEW d \in Devices
    PROVE  /\ work[d].op = "none" <=> Free(d)
           /\ work[d].op = "profile" => work[d] \in ProfileWork
           /\ work[d].op = "dress" => work[d] \in DressWork
           /\ work[d].op = "price" => work[d] \in PriceWork
           /\ work[d].op = "review" => work[d] \in ReviewWork
<1>1. work[d] \in Request
  BY DEF WorkOK
<1> QED
  BY <1>1 DEF Request, Idle, ProfileWork, DressWork, PriceWork, ReviewWork, Free

\* The dress a request works on is one of the shop's.
LEMMA DressOfRequest ==
    ASSUME DataOK, WorkOK, NEW d \in Devices, work[d].op \in {"dress", "price", "review"}
    PROVE  work[d].style \in DOMAIN styles /\ HasShop /\ work[d].style = cookie[d].style
<1>1. /\ DOMAIN styles = 1 .. Len(styles) /\ Len(styles) \in Nat
      /\ cookie[d].style <= (IF cookie[d].user THEN Len(styles) ELSE 0)
  BY LenProperties DEF DataOK, StylesOK, CookiesOK
<1>2. work[d].style \in 1 .. MaxStyles
  BY KindOfRequest DEF DressWork, PriceWork, ReviewWork
<1>3. HasShop /\ work[d].style = cookie[d].style
  BY DEF WorkOK, RequestOK
<1> QED
  BY <1>1, <1>2, <1>3

\* Saving the profile keeps the data in shape.
LEMMA SaveProfileKeeps ==
    ASSUME DataOK, WorkOK, NEW d \in Devices, SaveProfile(d) PROVE DataOK'
<1>1. work[d].kind \in Kinds
  BY KindOfRequest DEF SaveProfile, ProfileWork
<1>2. shop \in [kind : Kinds \cup {"none"}, status : ShopStatuses] /\ blocked \in BOOLEAN
  BY DEF DataOK, ShopOK
<1>3. shop' \in [kind : Kinds \cup {"none"}, status : ShopStatuses]
  BY <1>1, <1>2 DEF SaveProfile, ShopStatuses
<1> QED
  BY <1>2, <1>3, ShopSteps DEF SaveProfile

\* Steps of a request that store nothing.
LEMMA LoadsKeep ==
    ASSUME DataOK, UNCHANGED <<shop, blocked, styles, items, cookie>> PROVE DataOK'
  BY DEF DataOK, ShopOK, StylesOK, ItemsOK, CookiesOK

\* A new dress has its shape.
LEMMA NewStyleIsAStyle ==
    ASSUME NEW priced \in BOOLEAN, NEW published \in BOOLEAN
    PROVE  NewStyle(priced, published) \in Style
  BY DEF NewStyle, Style

\* Adding a dress keeps the others.
LEMMA AppendStyle ==
    ASSUME DataOK, NEW new \in Style
    PROVE  /\ Append(styles, new) \in Seq(Style)
           /\ Len(Append(styles, new)) = Len(styles) + 1
           /\ \A st \in DOMAIN styles : Append(styles, new)[st] = styles[st]
           /\ Len(styles) \in Nat
  BY DEF DataOK, StylesOK

\* Writing one dress keeps the others.
LEMMA WriteStyle ==
    ASSUME DataOK, NEW st \in DOMAIN styles, NEW new \in Style
    PROVE  /\ [styles EXCEPT ![st] = new] \in Seq(Style)
           /\ Len([styles EXCEPT ![st] = new]) = Len(styles)
           /\ \A other \in DOMAIN styles : [styles EXCEPT ![st] = new][other]
                                            = IF other = st THEN new ELSE styles[other]
           /\ Len(styles) \in Nat
<1>1. styles \in Seq(Style) /\ DOMAIN styles = 1 .. Len(styles) /\ Len(styles) \in Nat
  BY LenProperties DEF DataOK, StylesOK
<1> QED
  BY <1>1, ExceptSeq

\* A set of numbers below a bound that is not empty has a greatest one.
LEMMA GreatestOf ==
    ASSUME NEW T, T \subseteq Nat, T # {}, NEW bound \in Nat, \A n \in T : n <= bound
    PROVE  \E n \in T : \A m \in T : m <= n
<1> DEFINE D == {k \in Nat : bound - k \in T}
<1>1. D \subseteq Nat /\ D # {}
  <2>1. PICK n \in T : TRUE
    OBVIOUS
  <2>2. bound - n \in Nat /\ bound - (bound - n) = n
    OBVIOUS
  <2> QED
    BY <2>1, <2>2
<1>2. PICK k \in D : \A j \in D : <<j, k>> \notin OpToRel(<, Nat)
  BY <1>1, WFMin, NatLessThanWellFounded
<1>3. \A j \in D : ~(j < k)
  BY <1>1, <1>2 DEF OpToRel
<1>4. ASSUME NEW m \in T PROVE m <= bound - k
  <2>1. m \in Nat /\ bound - m \in Nat /\ bound - (bound - m) = m
    BY <1>4
  <2>2. ~(bound - m < k)
    BY <1>3, <1>4, <2>1
  <2> QED
    BY <2>1, <2>2
<1> QED
  BY <1>4

\* A dress of the wizard is one of the shop's.
LEMMA DraftExists ==
    ASSUME DataOK, NEW d \in Devices, HasDraft(d)
    PROVE  /\ StyleId(d) \in DOMAIN styles
           /\ styles[StyleId(d)] \in Style
<1>1. DOMAIN styles = 1 .. Len(styles) /\ Len(styles) \in Nat
  BY LenProperties DEF DataOK, StylesOK
<1>2. StyleId(d) = cookie[d].style /\ StyleId(d) # 0
  BY DEF HasDraft, StyleId
<1>3. cookie[d].style \in Nat /\ cookie[d].style <= Len(styles)
  BY <1>1 DEF DataOK, CookiesOK, Session
<1>4. StyleId(d) \in DOMAIN styles
  BY <1>1, <1>2, <1>3
<1> QED
  BY <1>1, <1>4, ElementOfSeq DEF DataOK, StylesOK

\* Writing a dress keeps the data in shape.
LEMMA WriteKeeps ==
    ASSUME DataOK, ShopOK', NEW st \in DOMAIN styles, NEW new \in Style,
           styles' = [styles EXCEPT ![st] = new],
           UNCHANGED <<items, cookie>>
    PROVE  DataOK'
<1>1. /\ styles' \in Seq(Style) /\ Len(styles') = Len(styles) /\ Len(styles) \in Nat
  BY WriteStyle
<1>2. Len(styles) <= MaxStyles
  BY DEF DataOK, StylesOK
<1>3. CookiesOK'
  BY <1>1, CookiesStay
<1> QED
  BY <1>1, <1>2, <1>3, StylesKeep

\* Photos come and go.
LEMMA ChangePhotosKeeps ==
    ASSUME DataOK, NEW d \in Devices, ChangePhotos(d) PROVE DataOK'
<1> DEFINE st == StyleId(d)
           new == [styles[st] EXCEPT !.photos = ~styles[st].photos]
<1>1. st \in DOMAIN styles /\ styles[st] \in Style
  BY DraftExists DEF ChangePhotos
<1>2. new \in Style
  BY <1>1 DEF Style
<1>3. styles' = [styles EXCEPT ![st] = new]
  BY DEF ChangePhotos
<1>4. ShopOK'
  BY DEF ChangePhotos, DataOK, ShopOK
<1> QED
  BY <1>1, <1>2, <1>3, <1>4, WriteKeeps DEF ChangePhotos

\* The dress is published, and the shop if it was a draft.
LEMMA SaveReviewKeeps ==
    ASSUME DataOK, WorkOK, NEW d \in Devices, SaveReview(d) PROVE DataOK'
<1> DEFINE st == work[d].style
           new == [styles[st] EXCEPT !.published = TRUE]
<1>1. st \in DOMAIN styles /\ styles[st] \in Style
  <2>1. st \in DOMAIN styles
    BY DressOfRequest DEF SaveReview
  <2> QED
    BY <2>1, ElementOfSeq, LenProperties DEF DataOK, StylesOK
<1>2. new \in Style
  BY <1>1 DEF Style
<1>3. styles' = [styles EXCEPT ![st] = new]
  BY DEF SaveReview
<1>4. ShopOK'
  BY DEF SaveReview, DataOK, ShopOK, ShopStatuses
<1> QED
  BY <1>1, <1>2, <1>3, <1>4, WriteKeeps DEF SaveReview

\* The dashboard gives a dress a price or lists it.
LEMMA UpdateStyleKeeps ==
    ASSUME DataOK, NEW d \in Devices, NEW st \in DOMAIN styles,
           NEW priced \in BOOLEAN, NEW published \in BOOLEAN,
           UpdateStyle(d, st, priced, published)
    PROVE  DataOK'
<1> DEFINE new == [styles[st] EXCEPT !.priced = priced, !.published = published]
<1>1. styles[st] \in Style
  BY ElementOfSeq, LenProperties DEF DataOK, StylesOK
<1>2. new \in Style
  BY <1>1 DEF Style
<1>3. styles' = [styles EXCEPT ![st] = new]
  BY DEF UpdateStyle
<1>4. ShopOK'
  BY DEF UpdateStyle, DataOK, ShopOK
<1> QED
  BY <1>2, <1>3, <1>4, WriteKeeps DEF UpdateStyle

\* The dashboard adds a dress.
LEMMA CreateStyleKeeps ==
    ASSUME DataOK, NEW d \in Devices, NEW priced \in BOOLEAN, NEW published \in BOOLEAN,
           CreateStyle(d, priced, published)
    PROVE  DataOK'
<1>1. /\ styles' \in Seq(Style) /\ Len(styles') = Len(styles) + 1 /\ Len(styles) \in Nat
      /\ \A st \in DOMAIN styles : styles'[st] = styles[st]
  BY AppendStyle, NewStyleIsAStyle DEF CreateStyle
<1>2. Len(styles) < MaxStyles /\ UNCHANGED <<shop, blocked, items, cookie>>
  BY DEF CreateStyle
<1>3. CookiesOK' /\ ShopOK'
  BY <1>1, <1>2, CookiesStay DEF DataOK, ShopOK
<1> QED
  BY <1>1, <1>2, <1>3, StylesKeep

\* The wizard takes up a draft or makes one.
LEMMA OpenDressKeeps ==
    ASSUME DataOK, NEW d \in Devices, OpenDress(d) PROVE DataOK'
<1> DEFINE c == cookie[d]
<1>1. /\ DOMAIN styles = 1 .. Len(styles) /\ Len(styles) \in Nat /\ Len(styles) <= MaxStyles
      /\ c \in Session /\ c.user
  BY LenProperties DEF DataOK, StylesOK, CookiesOK, OpenDress, User
<1>2. ASSUME NEW st \in 1 .. Len(styles'), Len(styles') \in Nat, Len(styles') <= MaxStyles,
             Len(styles) <= Len(styles'), Remember(d, "style", st)
      PROVE  CookiesOK'
  <2>1. cookie' = [cookie EXCEPT ![d] = [c EXCEPT !.style = st]]
    BY <1>2 DEF Remember
  <2>2. /\ [c EXCEPT !.style = st] \in Session /\ [c EXCEPT !.style = st].style = st
        /\ [c EXCEPT !.style = st].user
    BY <1>1, <1>2 DEF Session
  <2>3. \A other \in Devices : cookie[other].style \in Nat
    BY DEF DataOK, CookiesOK, Session
  <2> QED
    BY <1>1, <1>2, <2>1, <2>2, <2>3 DEF DataOK, CookiesOK
<1>3. CASE Drafts # {}
  <2>1. Remember(d, "style", Newest(Drafts)) /\ UNCHANGED <<styles, items, shop, blocked>>
    BY <1>3 DEF OpenDress
  <2>2. PICK st \in Drafts : \A other \in Drafts : other <= st
    <3>1. Drafts \subseteq Nat /\ \A other \in Drafts : other <= Len(styles)
      BY <1>1 DEF Drafts
    <3> QED
      BY <1>1, <1>3, <3>1, GreatestOf
  <2>3. Newest(Drafts) \in Drafts
    BY <2>2 DEF Newest
  <2>4. CookiesOK'
    BY <1>1, <1>2, <2>1, <2>3 DEF Drafts
  <2> QED
    BY <2>1, <2>4 DEF DataOK, ShopOK, StylesOK, ItemsOK
<1>4. CASE Drafts = {}
  <2>1. /\ Len(styles) < MaxStyles /\ styles' = Append(styles, NewStyle(FALSE, FALSE))
        /\ Remember(d, "style", Len(styles')) /\ UNCHANGED <<items, shop, blocked>>
    BY <1>4 DEF OpenDress
  <2>2. /\ styles' \in Seq(Style) /\ Len(styles') = Len(styles) + 1
        /\ \A st \in DOMAIN styles : styles'[st] = styles[st]
    BY <2>1, AppendStyle, NewStyleIsAStyle
  <2>3. CookiesOK'
    BY <1>1, <1>2, <2>1, <2>2
  <2>4. ShopOK'
    BY <2>1 DEF DataOK, ShopOK
  <2> QED
    BY <1>1, <2>1, <2>2, <2>3, <2>4, StylesKeep
<1> QED
  BY <1>3, <1>4

\* Writing one piece keeps the data in shape.
LEMMA WriteItemKeeps ==
    ASSUME DataOK, NEW i \in DOMAIN items, NEW new \in Item,
           new.style = items[i].style,
           items' = [items EXCEPT ![i] = new],
           UNCHANGED <<shop, blocked, styles, cookie>>
    PROVE  DataOK'
<1>1. /\ items \in Seq(Item) /\ DOMAIN items = 1 .. Len(items) /\ Len(items) \in Nat
      /\ Len(items) <= MaxItems
      /\ \A j \in DOMAIN items :
            items[j].style \in DOMAIN styles
  BY LenProperties DEF DataOK, ItemsOK
<1>2. /\ items' \in Seq(Item) /\ Len(items') = Len(items)
      /\ \A j \in 1 .. Len(items) : items'[j] = IF j = i THEN new ELSE items[j]
  BY <1>1, ExceptSeq
<1>3. DOMAIN items' = DOMAIN items
  BY <1>1
<1> QED
  BY <1>1, <1>2, <1>3, ItemsKeep

\* The dashboard retires a piece or takes it back.
LEMMA SetItemStatusKeeps ==
    ASSUME DataOK, NEW d \in Devices, NEW i \in DOMAIN items, SetItemStatus(d, i)
    PROVE  DataOK'
<1> DEFINE new == [items[i] EXCEPT !.active = ~items[i].active]
<1>1. items[i] \in Item
  BY ElementOfSeq, LenProperties DEF DataOK, ItemsOK
<1>2. /\ new \in Item /\ new.style = items[i].style
  BY <1>1 DEF Item
<1>3. items' = [items EXCEPT ![i] = new]
  BY DEF SetItemStatus
<1> QED
  BY <1>2, <1>3, WriteItemKeeps DEF SetItemStatus

\* A renter takes a piece for a day.
LEMMA BookKeeps ==
    ASSUME DataOK, NEW i \in DOMAIN items, NEW day \in Days, Book(i, day)
    PROVE  DataOK'
<1> DEFINE new == [items[i] EXCEPT !.booked = items[i].booked \cup {day}]
<1>1. items[i] \in Item
  BY ElementOfSeq, LenProperties DEF DataOK, ItemsOK
<1>2. /\ new \in Item /\ new.style = items[i].style
  BY <1>1 DEF Item
<1>3. items' = [items EXCEPT ![i] = new]
  BY DEF Book
<1> QED
  BY <1>2, <1>3, WriteItemKeeps DEF Book

\* The number of a dress is one of those an item may carry.
LEMMA StyleNumbers ==
    ASSUME DataOK PROVE DOMAIN styles \subseteq 1 .. MaxStyles
  BY LenProperties DEF DataOK, StylesOK

\* The dashboard adds a piece.
LEMMA AddItemKeeps ==
    ASSUME DataOK, NEW d \in Devices, NEW st \in DOMAIN styles, NEW size \in Sizes,
           AddItem(d, st, size)
    PROVE  DataOK'
<1> DEFINE new == NewItem(st, size)
<1>1. new \in Item /\ new.style = st
  BY StyleNumbers DEF NewItem, Item
<1>2. /\ items \in Seq(Item) /\ DOMAIN items = 1 .. Len(items) /\ Len(items) \in Nat
      /\ \A j \in DOMAIN items :
            items[j].style \in DOMAIN styles
  BY LenProperties DEF DataOK, ItemsOK
<1>3. items' = Append(items, new) /\ Len(items) < MaxItems
  BY DEF AddItem
<1>4. /\ items' \in Seq(Item) /\ Len(items') = Len(items) + 1
      /\ DOMAIN items' = 1 .. Len(items) + 1
      /\ items'[Len(items) + 1] = new
      /\ \A j \in 1 .. Len(items) : items'[j] = items[j]
  BY <1>1, <1>2, <1>3
<1>5. \A j \in DOMAIN items' : j = Len(items) + 1 \/ j \in 1 .. Len(items)
  BY <1>2, <1>4
<1>6. \A j \in DOMAIN items' :
          items'[j].style \in DOMAIN styles
  BY <1>1, <1>2, <1>4, <1>5
<1> QED
  BY <1>2, <1>3, <1>4, <1>6, ItemsKeep DEF AddItem

\* Saving price and dates writes the pieces one by one.
LEMMA SavePriceKeeps ==
    ASSUME DataOK, WorkOK, NEW d \in Devices, SavePrice(d)
    PROVE  /\ DataOK'
           /\ DOMAIN items' = DOMAIN items
           /\ \A j \in DOMAIN items :
                 /\ items'[j].style = items[j].style /\ items'[j].active = items[j].active
                 /\ items'[j].booked = items[j].booked
                 /\ j \notin work[d].pieces => items'[j] = items[j]
                 /\ j \in work[d].pieces =>
                       items'[j].held = NotFound(work[d], j) \cup work[d].days
<1> DEFINE w == work[d]
<1>1. w \in PriceWork /\ w.style \in DOMAIN styles
  BY KindOfRequest, DressOfRequest DEF SavePrice
<1>2. styles[w.style] \in Style
  BY <1>1, ElementOfSeq, LenProperties DEF DataOK, StylesOK
<1>3. /\ items \in Seq(Item) /\ DOMAIN items = 1 .. Len(items) /\ Len(items) \in Nat
      /\ Len(items) <= MaxItems
      /\ \A j \in DOMAIN items : items[j].style \in DOMAIN styles
  BY LenProperties DEF DataOK, ItemsOK
<1>4. /\ DOMAIN items' = DOMAIN items
      /\ \A j \in DOMAIN items :
            items'[j] = IF j \in w.pieces
                        THEN [items[j] EXCEPT !.held = NotFound(w, j) \cup w.days]
                        ELSE items[j]
      /\ UNCHANGED <<shop, blocked, cookie>>
  BY DEF SavePrice
<1>5. ASSUME NEW j \in DOMAIN items
      PROVE  /\ items'[j] \in Item /\ items'[j].style = items[j].style
             /\ items'[j].active = items[j].active /\ items'[j].booked = items[j].booked
             /\ j \notin w.pieces => items'[j] = items[j]
             /\ j \in w.pieces => items'[j].held = NotFound(w, j) \cup w.days
  <2>1. items[j] \in Item
    BY <1>3, <1>5, ElementOfSeq
  <2>2. w.days \in SUBSET Days
    BY <1>1 DEF PriceWork
  <2>3. NotFound(w, j) \cup w.days \in SUBSET Days
    BY <2>1, <2>2 DEF NotFound, Item
  <2> HIDE DEF w
  <2> QED
    BY <1>4, <1>5, <2>1, <2>3, ZenonT(60) DEF Item
<1>6. items' \in Seq(Item) /\ Len(items') = Len(items)
  <2>1. items' \in [1 .. Len(items) -> Item]
    BY <1>3, <1>4, <1>5 DEF SavePrice
  <2> QED
    BY <1>3, <2>1
<1>7. /\ styles' \in Seq(Style) /\ Len(styles') = Len(styles) /\ Len(styles) \in Nat
      /\ DOMAIN styles' = DOMAIN styles
  <2>1. CASE w.changes
    <3> DEFINE priced == [styles[w.style] EXCEPT !.priced = TRUE]
    <3>1. priced \in Style
      BY <1>2 DEF Style
    <3>2. styles' = [styles EXCEPT ![w.style] = priced]
      BY <2>1 DEF SavePrice
    <3> QED
      BY <1>1, <3>1, <3>2, WriteStyle
  <2>2. CASE ~w.changes
    <3>1. styles' = styles
      BY <2>2 DEF SavePrice
    <3> QED
      BY <3>1, LenProperties DEF DataOK, StylesOK
  <2> QED
    BY <2>1, <2>2
<1>8. ItemsOK'
  BY <1>3, <1>4, <1>5, <1>6, <1>7 DEF ItemsOK
<1>9. CookiesOK' /\ StylesOK' /\ ShopOK'
  BY <1>4, <1>7, CookiesStay DEF DataOK, StylesOK, ShopOK
<1> QED
  BY <1>4, <1>5, <1>8, <1>9 DEF DataOK

\* The sizes of a dress: pieces are retired or added, no dates are touched.
LEMMA SetDressKeeps ==
    ASSUME DataOK, NEW st \in DOMAIN styles, NEW pieces, NEW chosen \in SUBSET Sizes,
           SetDress(st, pieces, chosen), UNCHANGED <<shop, blocked, cookie>>
    PROVE  /\ DataOK'
           /\ \A j \in DOMAIN items :
                 /\ j \in DOMAIN items' /\ items'[j].style = items[j].style
                 /\ items'[j].held = items[j].held
<1> DEFINE added == SetToSeq(Missing(pieces, chosen))
           kept == [i \in DOMAIN items |->
                       IF i \in Dropped(pieces, chosen)
                           THEN [items[i] EXCEPT !.active = FALSE] ELSE items[i]]
           new == [n \in DOMAIN added |-> NewItem(st, added[n])]
           named == [styles[st] EXCEPT !.category = TRUE]
<1>1. styles[st] \in Style
  BY ElementOfSeq, LenProperties DEF DataOK, StylesOK
<1>2. named \in Style
  BY <1>1 DEF Style
<1>3. styles' = [styles EXCEPT ![st] = named]
  BY DEF SetDress
<1>4. /\ styles' \in Seq(Style) /\ Len(styles') = Len(styles) /\ Len(styles) \in Nat
      /\ DOMAIN styles' = DOMAIN styles
  <2>1. /\ styles' \in Seq(Style) /\ Len(styles') = Len(styles) /\ Len(styles) \in Nat
        /\ \A other \in DOMAIN styles :
              styles'[other] = IF other = st THEN named ELSE styles[other]
    BY <1>2, <1>3, WriteStyle
  <2>2. DOMAIN styles' = DOMAIN styles
    BY <1>3
  <2> QED
    BY <1>2, <2>1, <2>2
<1>5. /\ items \in Seq(Item) /\ DOMAIN items = 1 .. Len(items) /\ Len(items) \in Nat
      /\ \A j \in DOMAIN items :
            items[j].style \in DOMAIN styles
  BY LenProperties DEF DataOK, ItemsOK
<1>6. /\ added \in Seq(Sizes) /\ Len(added) \in Nat /\ DOMAIN added = 1 .. Len(added)
  <2>1. Missing(pieces, chosen) \subseteq Sizes
    BY DEF Missing
  <2>2. IsFiniteSet(Missing(pieces, chosen))
    BY <2>1, FS_Subset
  <2>3. added \in Seq(Missing(pieces, chosen))
    BY <2>2, MissingInASequence
  <2>4. added \in Seq(Sizes)
    BY <2>1, <2>3, SeqMonotonic
  <2> QED
    BY <2>4, LenProperties
<1>7. \A n \in 1 .. Len(added) :
          new[n] \in Item /\ new[n].style = st
  <2>1. ASSUME NEW n \in 1 .. Len(added)
        PROVE  new[n] \in Item /\ new[n].style = st
    <3>1. added[n] \in Sizes /\ new[n] = NewItem(st, added[n])
      BY <1>6, <2>1, ElementOfSeq
    <3>2. st \in 1 .. MaxStyles
      BY StyleNumbers
    <3> HIDE DEF new
    <3> QED
      BY <3>1, <3>2 DEF NewItem, Item
  <2> QED
    BY <2>1
<1>8. ASSUME NEW j \in 1 .. Len(items)
      PROVE  /\ kept[j] \in Item /\ kept[j].style = items[j].style
             /\ kept[j].held = items[j].held
  <2>1. items[j] \in Item
    BY <1>5, <1>8, ElementOfSeq
  <2>2. kept[j] = IF j \in Dropped(pieces, chosen)
                  THEN [items[j] EXCEPT !.active = FALSE] ELSE items[j]
    BY <1>5, <1>8
  <2> HIDE DEF kept
  <2> QED
    BY <2>1, <2>2 DEF Item
<1>9. new \in Seq(Item) /\ Len(new) = Len(added)
  <2>1. new \in [1 .. Len(added) -> Item]
    BY <1>6, <1>7
  <2> HIDE DEF new, added
  <2> QED
    BY <1>6, <2>1
<1>10. kept \in Seq(Item) /\ Len(kept) = Len(items)
  <2>1. kept \in [1 .. Len(items) -> Item]
    BY <1>5, <1>8
  <2> HIDE DEF kept
  <2> QED
    BY <1>5, <2>1
<1>11. items' = kept \o new /\ Len(items) + Len(added) <= MaxItems
  BY DEF SetDress
<1> HIDE DEF kept, new, added
<1>12. /\ items' \in Seq(Item) /\ Len(items') = Len(items) + Len(added)
       /\ \A j \in 1 .. Len(items) + Len(added) :
             items'[j] = IF j <= Len(items) THEN kept[j] ELSE new[j - Len(items)]
  <2>1. /\ kept \o new \in Seq(Item)
        /\ Len(kept \o new) = Len(kept) + Len(new)
        /\ \A j \in 1 .. Len(kept) + Len(new) :
              (kept \o new)[j] = IF j <= Len(kept) THEN kept[j] ELSE new[j - Len(kept)]
    BY <1>9, <1>10, ConcatProperties
  <2> QED
    BY <1>9, <1>10, <1>11, <2>1
<1>13. DOMAIN items' = 1 .. Len(items) + Len(added)
  BY <1>12, LenProperties
<1>14. ASSUME NEW j \in DOMAIN items'
       PROVE  items'[j].style \in DOMAIN styles
  <2>1. CASE j <= Len(items)
    <3>1. j \in 1 .. Len(items) /\ items'[j] = kept[j]
      BY <1>5, <1>6, <1>12, <1>13, <1>14, <2>1
    <3> QED
      BY <1>5, <1>8, <3>1
  <2>2. CASE ~(j <= Len(items))
    <3>1. j - Len(items) \in 1 .. Len(added) /\ items'[j] = new[j - Len(items)]
      BY <1>5, <1>6, <1>12, <1>13, <1>14, <2>2
    <3> QED
      BY <1>7, <3>1
  <2> QED
    BY <2>1, <2>2
<1>15. ASSUME NEW j \in DOMAIN items
       PROVE  /\ j \in DOMAIN items' /\ items'[j].style = items[j].style
              /\ items'[j].held = items[j].held
  <2>1. j \in 1 .. Len(items) + Len(added) /\ j <= Len(items) /\ j \in 1 .. Len(items)
    BY <1>5, <1>6, <1>15
  <2> QED
    BY <1>8, <1>12, <1>13, <2>1
<1>16. ItemsOK'
  BY <1>4, <1>5, <1>6, <1>11, <1>12, <1>14 DEF ItemsOK
<1>17. CookiesOK' /\ StylesOK' /\ ShopOK'
  BY <1>4, CookiesStay DEF DataOK, StylesOK, ShopOK
<1> QED
  BY <1>15, <1>16, <1>17 DEF DataOK

\* The steps of a browser keep the data in shape.
LEMMA WizardKeeps ==
    ASSUME DataOK, WorkOK, NEW d \in Devices, Wizard(d) PROVE DataOK'
<1>1. ASSUME NEW chosen \in SUBSET Sizes, LoadDress(d, chosen) PROVE DataOK'
  BY <1>1, LoadsKeep DEF LoadDress, Start
<1>2. ASSUME NEW days \in SUBSET Days, NEW changes \in BOOLEAN, LoadPrice(d, days, changes)
      PROVE  DataOK'
  BY <1>2, LoadsKeep DEF LoadPrice, Start
<1>3. CASE LoadProfile(d) \/ FindShop(d) \/ ReplaceBlocks(d) \/ LoadReview(d) \/ RollBack(d)
  BY <1>3, LoadsKeep DEF LoadProfile, FindShop, ReplaceBlocks, LoadReview, RollBack, Start
<1>4. CASE SaveDress(d)
  <2>1. work[d].style \in DOMAIN styles /\ work[d].chosen \in SUBSET Sizes
    BY <1>4, KindOfRequest, DressOfRequest DEF SaveDress, DressWork
  <2> QED
    BY <1>4, <2>1, SetDressKeeps DEF SaveDress
<1> QED
  BY <1>1, <1>2, <1>3, <1>4, CookieSteps, SaveProfileKeeps, OpenDressKeeps,
     ChangePhotosKeeps, SavePriceKeeps, SaveReviewKeeps DEF Wizard

\* What happens beside the wizard keeps them in shape.
LEMMA BesideKeeps ==
    ASSUME DataOK, (\E d \in Devices : Behind(d)) \/ Renters \/ Administrator
    PROVE  DataOK'
<1>1. ASSUME NEW d \in Devices, Behind(d) PROVE DataOK'
  BY <1>1, CreateStyleKeeps, UpdateStyleKeeps, AddItemKeeps, SetItemStatusKeeps DEF Behind
<1>2. ASSUME Renters PROVE DataOK'
  BY <1>2, BookKeeps DEF Renters
<1>3. ASSUME Administrator PROVE DataOK'
  <2>1. blocked \in BOOLEAN /\ shop \in [kind : Kinds \cup {"none"}, status : ShopStatuses]
    BY DEF DataOK, ShopOK
  <2>2. ASSUME NEW kind \in Kinds, NEW status \in ShopStatuses, AdminSavesShop(kind, status)
        PROVE  DataOK'
    <3>1. shop' \in [kind : Kinds \cup {"none"}, status : ShopStatuses]
      BY <2>2 DEF AdminSavesShop
    <3> QED
      BY <2>1, <2>2, <3>1, ShopSteps DEF AdminSavesShop
  <2>3. ASSUME AdminBlocks PROVE DataOK'
    BY <2>1, <2>3, ShopSteps DEF AdminBlocks
  <2> QED
    BY <1>3, <2>2, <2>3 DEF Administrator
<1> QED
  BY <1>1, <1>2, <1>3

-----------------------------------------------------------------------------
(* The requests under way. *)

\* What every step but the commit of a price leaves alone.
Stays ==
    /\ HasShop => HasShop'
    /\ \A e \in Devices : ~Free(e) => cookie'[e] = cookie[e]
    /\ \A i \in DOMAIN items : i \in DOMAIN items' /\ items'[i].style = items[i].style
HeldStays == \A i \in DOMAIN items : items'[i].held = items[i].held

\* Pieces as they are.
LEMMA SamePieces ==
    ASSUME items' = items
    PROVE  /\ \A i \in DOMAIN items : i \in DOMAIN items' /\ items'[i].style = items[i].style
           /\ HeldStays
  BY DEF HeldStays

\* A cookie is written by a browser that has no form under way.
LEMMA CookieOfFree ==
    ASSUME DataOK, NEW d \in Devices, Free(d), NEW c, cookie' = [cookie EXCEPT ![d] = c]
    PROVE  \A e \in Devices : ~Free(e) => cookie'[e] = cookie[e]
  BY DEF DataOK, CookiesOK

\* The steps of a browser.
LEMMA WizardStays ==
    ASSUME DataOK, WorkOK, NEW d \in Devices, Wizard(d)
    PROVE  Stays /\ (HeldStays \/ SavePrice(d))
<1>1. CASE \/ \E path \in Kinds : ChoosePath(d, path)
           \/ SubmitPhone(d) \/ SubmitCode(d) \/ LogIn(d) \/ LogOut(d) \/ ListAnother(d)
           \/ OpenDress(d)
  <2>1. Free(d) /\ shop' = shop /\ items' = items
    BY <1>1 DEF ChoosePath, SubmitPhone, SubmitCode, LogIn, LogOut, ListAnother, OpenDress
  <2>2. \E c : cookie' = [cookie EXCEPT ![d] = c]
    BY <1>1 DEF ChoosePath, SubmitPhone, SubmitCode, LogIn, LogOut, ListAnother, OpenDress,
        Remember
  <2> QED
    BY <2>1, <2>2, CookieOfFree, SamePieces DEF Stays, HasShop
<1>2. CASE \/ LoadProfile(d) \/ FindShop(d) \/ ChangePhotos(d)
           \/ \E chosen \in SUBSET Sizes : LoadDress(d, chosen)
           \/ \E days \in SUBSET Days, changes \in BOOLEAN : LoadPrice(d, days, changes)
           \/ ReplaceBlocks(d) \/ LoadReview(d) \/ RollBack(d)
  <2>1. shop' = shop /\ items' = items /\ cookie' = cookie
    BY <1>2 DEF LoadProfile, FindShop, ChangePhotos, LoadDress, LoadPrice, ReplaceBlocks,
        LoadReview, RollBack, Start
  <2> QED
    BY <2>1, SamePieces DEF Stays, HasShop
<1>3. CASE SaveProfile(d)
  <2>1. work[d].kind \in Kinds
    BY <1>3, KindOfRequest DEF SaveProfile, ProfileWork
  <2>2. /\ shop'.kind = work[d].kind \/ shop' = shop
        /\ items' = items /\ cookie' = cookie
    BY <1>3 DEF SaveProfile, DataOK, ShopOK
  <2> QED
    BY <2>1, <2>2, SamePieces DEF Stays, HasShop, Kinds
<1>4. CASE SaveReview(d)
  <2>1. shop'.kind = shop.kind /\ items' = items /\ cookie' = cookie
    BY <1>4 DEF SaveReview, DataOK, ShopOK
  <2> QED
    BY <2>1, SamePieces DEF Stays, HasShop
<1>5. CASE SaveDress(d)
  <2>1. work[d].style \in DOMAIN styles /\ work[d].chosen \in SUBSET Sizes
    BY <1>5, KindOfRequest, DressOfRequest DEF SaveDress, DressWork
  <2> QED
    BY <1>5, <2>1, SetDressKeeps DEF SaveDress, Stays, HeldStays, HasShop
<1>6. CASE SavePrice(d)
  <2>1. shop' = shop /\ cookie' = cookie
    BY <1>6 DEF SavePrice
  <2> QED
    BY <1>6, <2>1, SavePriceKeeps DEF Stays, HasShop
<1> QED
  BY <1>1, <1>2, <1>3, <1>4, <1>5, <1>6 DEF Wizard

\* Beside the wizard a piece may be written, but not its dress or its blocks.
LEMMA PieceWritten ==
    ASSUME DataOK, NEW i \in DOMAIN items, NEW new, new.style = items[i].style,
           new.held = items[i].held, items' = [items EXCEPT ![i] = new]
    PROVE  /\ \A j \in DOMAIN items : j \in DOMAIN items' /\ items'[j].style = items[j].style
           /\ HeldStays
  BY DEF DataOK, ItemsOK, HeldStays

\* What happens beside the wizard.
LEMMA BesideStays ==
    ASSUME DataOK, (\E d \in Devices : Behind(d)) \/ Renters \/ Administrator
    PROVE  Stays /\ HeldStays /\ work' = work
<1>1. ASSUME NEW d \in Devices, Behind(d) PROVE Stays /\ HeldStays /\ work' = work
  <2>1. CASE \/ \E priced, published \in BOOLEAN : CreateStyle(d, priced, published)
             \/ \E st \in DOMAIN styles, priced, published \in BOOLEAN :
                   UpdateStyle(d, st, priced, published)
    <3>1. shop' = shop /\ cookie' = cookie /\ items' = items /\ work' = work
      BY <2>1 DEF CreateStyle, UpdateStyle
    <3> QED
      BY <3>1, SamePieces DEF Stays, HasShop
  <2>2. ASSUME NEW st \in DOMAIN styles, NEW size \in Sizes, AddItem(d, st, size)
        PROVE  Stays /\ HeldStays /\ work' = work
    <3>1. /\ shop' = shop /\ cookie' = cookie /\ work' = work
          /\ items' = Append(items, NewItem(st, size))
      BY <2>2 DEF AddItem
    <3>2. items \in Seq(Item) /\ NewItem(st, size) \in Item
      BY StyleNumbers DEF DataOK, ItemsOK, NewItem, Item
    <3>3. \A i \in DOMAIN items : i \in DOMAIN items' /\ items'[i] = items[i]
      BY <3>1, <3>2
    <3> QED
      BY <3>1, <3>3 DEF Stays, HeldStays, HasShop
  <2>3. ASSUME NEW i \in DOMAIN items, SetItemStatus(d, i)
        PROVE  Stays /\ HeldStays /\ work' = work
    <3> DEFINE new == [items[i] EXCEPT !.active = ~items[i].active]
    <3>1. items[i] \in Item
      BY ElementOfSeq, LenProperties DEF DataOK, ItemsOK
    <3>2. new.style = items[i].style /\ new.held = items[i].held
      BY <3>1 DEF Item
    <3>3. /\ items' = [items EXCEPT ![i] = new]
          /\ shop' = shop /\ cookie' = cookie /\ work' = work
      BY <2>3 DEF SetItemStatus
    <3> HIDE DEF new
    <3> QED
      BY <3>2, <3>3, PieceWritten DEF Stays, HasShop
  <2> QED
    BY <1>1, <2>1, <2>2, <2>3 DEF Behind
<1>2. ASSUME NEW i \in DOMAIN items, NEW day \in Days, Book(i, day)
      PROVE  Stays /\ HeldStays /\ work' = work
  <2> DEFINE new == [items[i] EXCEPT !.booked = items[i].booked \cup {day}]
  <2>1. items[i] \in Item
    BY ElementOfSeq, LenProperties DEF DataOK, ItemsOK
  <2>2. new.style = items[i].style /\ new.held = items[i].held
    BY <2>1 DEF Item
  <2>3. /\ items' = [items EXCEPT ![i] = new]
        /\ shop' = shop /\ cookie' = cookie /\ work' = work
    BY <1>2 DEF Book
  <2> HIDE DEF new
  <2> QED
    BY <2>2, <2>3, PieceWritten DEF Stays, HasShop
<1>3. ASSUME Administrator PROVE Stays /\ HeldStays /\ work' = work
  <2>1. /\ HasShop => HasShop'
        /\ cookie' = cookie /\ items' = items /\ work' = work
    BY <1>3 DEF Administrator, AdminSavesShop, AdminBlocks, HasShop, Kinds
  <2> QED
    BY <2>1, SamePieces DEF Stays
<1> QED
  BY <1>1, <1>2, <1>3 DEF Renters

\* What a step may do to the request of browser e.
Loaded(e) ==
    \/ LoadProfile(e)
    \/ \E chosen \in SUBSET Sizes : LoadDress(e, chosen)
    \/ \E days \in SUBSET Days, changes \in BOOLEAN : LoadPrice(e, days, changes)
    \/ LoadReview(e)

LEMMA RequestStep ==
    ASSUME WorkOK, NEW d \in Devices, Wizard(d), NEW e \in Devices
    PROVE  \/ work'[e] = work[e] /\ ~SavePrice(d)
           \/ work'[e] = Idle
           \/ Loaded(e) \/ FindShop(e) \/ ReplaceBlocks(e)
           \/ d # e /\ SavePrice(d) /\ work'[e] = Beside(d, e)
<1>1. DOMAIN work = Devices
  BY DEF WorkOK
<1>2. CASE Loaded(d) \/ FindShop(d) \/ ReplaceBlocks(d)
  <2>1. e = d \/ work'[e] = work[e]
    BY <1>1, <1>2 DEF Loaded, LoadProfile, LoadDress, LoadPrice, LoadReview, FindShop,
        ReplaceBlocks, Start
  <2>2. CASE SavePrice(d)
    BY <1>1, <2>2 DEF SavePrice
  <2> QED
    BY <1>2, <2>1, <2>2
<1>3. CASE SavePrice(d)
  BY <1>3 DEF SavePrice
<1>4. CASE (SaveProfile(d) \/ SaveDress(d) \/ SaveReview(d) \/ RollBack(d)) /\ ~SavePrice(d)
  BY <1>1, <1>4 DEF SaveProfile, SaveDress, SaveReview, RollBack, Finish
<1>5. CASE /\ \/ \E path \in Kinds : ChoosePath(d, path)
              \/ SubmitPhone(d) \/ SubmitCode(d) \/ LogIn(d) \/ LogOut(d) \/ ListAnother(d)
              \/ OpenDress(d) \/ ChangePhotos(d)
           /\ ~SavePrice(d)
  BY <1>5 DEF ChoosePath, SubmitPhone, SubmitCode, LogIn, LogOut, ListAnother, OpenDress,
      ChangePhotos
<1> QED
  BY <1>2, <1>3, <1>4, <1>5 DEF Wizard, Loaded

\* The commit of one save leaves of another what it is about.
LEMMA BesideShape ==
    ASSUME WorkOK, NEW d \in Devices, NEW e \in Devices, work[d].op = "price"
    PROVE  /\ Beside(d, e) \in Request
           /\ Beside(d, e).op = work[e].op
           /\ work[e].op = "price" =>
                 /\ Beside(d, e).style = work[e].style /\ Beside(d, e).pieces = work[e].pieces
                 /\ Beside(d, e).left = work[e].left
                 /\ Beside(d, e).changes = work[e].changes
           /\ work[e].op # "price" => Beside(d, e) = work[e]
<1>1. work[e] \in Request /\ work[d] \in PriceWork
  BY KindOfRequest DEF WorkOK
<1>2. CASE work[e].op # "price"
  BY <1>1, <1>2 DEF Beside
<1>3. CASE work[e].op = "price"
  <2>1. work[e] \in PriceWork
    BY <1>3, KindOfRequest
  <2> DEFINE seen == [i \in Pieces |-> work[e].seen[i] \ work[d].seen[i]]
             crossed == work[e].crossed \/ ~(work[d].changes /\ work[e].changes)
             new == [work[e] EXCEPT !.seen = seen, !.crossed = crossed]
  <2>2. seen \in [Pieces -> SUBSET Days] /\ crossed \in BOOLEAN
    BY <1>1, <2>1 DEF PriceWork
  <2>3. Beside(d, e) = new \/ Beside(d, e) = work[e]
    BY <1>3 DEF Beside
  <2> HIDE DEF seen, crossed
  <2>4. /\ new \in PriceWork /\ new.op = "price" /\ new.style = work[e].style
        /\ new.pieces = work[e].pieces /\ new.left = work[e].left
        /\ new.changes = work[e].changes
    BY <2>1, <2>2 DEF PriceWork
  <2> HIDE DEF new
  <2> QED
    BY <1>1, <1>3, <2>3, <2>4 DEF Request
<1> QED
  BY <1>2, <1>3

\* The pieces of a dress that count.
LEMMA ActiveArePieces ==
    ASSUME DataOK, NEW st
    PROVE  /\ ActiveItems(st) \in SUBSET Pieces
           /\ \A i \in ActiveItems(st) : i \in DOMAIN items /\ items[i].style = st
<1>1. DOMAIN items = 1 .. Len(items) /\ Len(items) \in Nat /\ Len(items) <= MaxItems
  BY LenProperties DEF DataOK, ItemsOK
<1> QED
  BY <1>1 DEF ActiveItems, Pieces

\* A form that was loaded is a request on what the cookie names.
LEMMA LoadedIsARequest ==
    ASSUME DataOK, WorkOK, NEW e \in Devices, Loaded(e)
    PROVE  /\ work'[e] \in Request /\ RequestOK(e)'
           /\ work'[e].op = "price" =>
                 /\ work'[e].pieces # {} /\ work'[e].left = work'[e].pieces
<1>1. DOMAIN work = Devices
  BY DEF WorkOK
<1>2. CASE LoadProfile(e)
  <2> DEFINE new == [op |-> "profile", kind |-> Path(e), seen |-> shop.kind,
                     draft |-> shop.status = "draft"]
  <2>1. work'[e] = new
    BY <1>1, <1>2 DEF LoadProfile, Start
  <2>2. shop.kind \in Kinds \cup {"none"} /\ cookie[e].path \in Kinds \cup {"none"}
    BY DEF DataOK, ShopOK, CookiesOK, Session
  <2>3. Path(e) # "none"
    BY <1>2, OrderOfSteps DEF LoadProfile, MayOpen, Reached, Path, Shop, HasShop
  <2>4. Path(e) \in Kinds
    BY <2>2, <2>3 DEF Path
  <2>5. new \in ProfileWork /\ new.op = "profile"
    BY <2>2, <2>4 DEF ProfileWork
  <2> HIDE DEF new
  <2> QED
    BY <2>1, <2>5 DEF Request, RequestOK
<1>3. ASSUME NEW st, st = StyleId(e), HasDraft(e), UNCHANGED <<shop, cookie, items>>,
             work'[e].op \in {"dress", "price", "review"}, work'[e].style = st,
             work'[e].op \in {"dress", "price"} => work'[e].pieces = ActiveItems(st)
      PROVE  RequestOK(e)'
  <2>1. HasShop' /\ st = cookie'[e].style
    BY <1>3 DEF HasDraft, StyleId, Shop, HasShop
  <2>2. ASSUME work'[e].op \in {"dress", "price"}, NEW i \in work'[e].pieces
        PROVE  i \in DOMAIN items' /\ items'[i].style = st
    BY <1>3, <2>2, ActiveArePieces
  <2> QED
    BY <1>3, <2>1, <2>2 DEF RequestOK
<1>4. ASSUME HasDraft(e) PROVE StyleId(e) \in 1 .. MaxStyles
  BY <1>4, DraftExists, StyleNumbers
<1>5. ActiveItems(StyleId(e)) \in SUBSET Pieces
  BY ActiveArePieces
<1>6. ASSUME NEW chosen \in SUBSET Sizes, LoadDress(e, chosen)
      PROVE  work'[e] \in Request /\ RequestOK(e)' /\ work'[e].op # "price"
  <2> DEFINE new == [op |-> "dress", style |-> StyleId(e), chosen |-> chosen,
                     pieces |-> ActiveItems(StyleId(e))]
  <2>1. /\ HasDraft(e) /\ chosen # {}
        /\ work'[e] = new /\ UNCHANGED <<shop, cookie, items>>
    BY <1>1, <1>6 DEF LoadDress, DressFits, Start
  <2>2. /\ new \in DressWork /\ new.op = "dress" /\ new.style = StyleId(e)
        /\ new.pieces = ActiveItems(StyleId(e))
    BY <1>4, <1>5, <2>1 DEF DressWork
  <2> HIDE DEF new
  <2>3. RequestOK(e)'
    BY <1>3, <2>1, <2>2
  <2> QED
    BY <2>1, <2>2, <2>3 DEF Request
<1>7. ASSUME NEW days \in SUBSET Days, NEW changes \in BOOLEAN, LoadPrice(e, days, changes)
      PROVE  /\ work'[e] \in Request /\ RequestOK(e)'
             /\ work'[e].pieces # {} /\ work'[e].left = work'[e].pieces
  <2> DEFINE none == [i \in Pieces |-> {}]
             new == [op |-> "price", style |-> StyleId(e), days |-> days, changes |-> changes,
                     pieces |-> ActiveItems(StyleId(e)), left |-> ActiveItems(StyleId(e)),
                     seen |-> none, crossed |-> FALSE]
  <2>1. HasDraft(e) /\ work'[e] = new /\ UNCHANGED <<shop, cookie, items>>
    BY <1>1, <1>7 DEF LoadPrice, Start
  <2>2. none \in [Pieces -> SUBSET Days]
    OBVIOUS
  <2> HIDE DEF none
  <2>3. /\ new \in PriceWork /\ new.op = "price" /\ new.style = StyleId(e)
        /\ new.pieces = ActiveItems(StyleId(e)) /\ new.left = new.pieces
    BY <1>4, <1>5, <2>1, <2>2 DEF PriceWork
  <2> HIDE DEF new
  <2>4. RequestOK(e)'
    BY <1>3, <2>1, <2>3
  <2>5. ActiveItems(StyleId(e)) # {}
    <3>1. Reached(e) = Listed(StyleId(e)) /\ Listed(StyleId(e)) \in {"price", "review", "done"}
      BY <1>7, <2>1, OrderOfSteps DEF LoadPrice, MayOpen, Reached, Listed, HasDraft, StyleId, Shop
    <3> QED
      BY <2>1, <3>1 DEF Listed, HasDraft
  <2> QED
    BY <2>1, <2>3, <2>4, <2>5 DEF Request
<1>8. CASE LoadReview(e)
  <2> DEFINE new == [op |-> "review", style |-> StyleId(e), draft |-> IsDraft]
  <2>1. HasDraft(e) /\ work'[e] = new /\ UNCHANGED <<shop, cookie, items>>
    BY <1>1, <1>8 DEF LoadReview, Start
  <2>2. new \in ReviewWork /\ new.op = "review" /\ new.style = StyleId(e)
    BY <1>4, <2>1 DEF ReviewWork, IsDraft, HasShop
  <2> HIDE DEF new
  <2>3. RequestOK(e)'
    BY <1>3, <2>1, <2>2
  <2> QED
    BY <2>1, <2>2, <2>3 DEF Request
<1>9. ASSUME LoadProfile(e) \/ LoadReview(e) PROVE work'[e].op # "price"
  BY <1>1, <1>9 DEF LoadProfile, LoadReview, Start
<1> QED
  BY <1>2, <1>6, <1>7, <1>8, <1>9 DEF Loaded

\* Looking up the blocks of a piece.
LEMMA LookedUp ==
    ASSUME DataOK, WorkOK, NEW e \in Devices, FoundAll(e), ReplaceBlocks(e)
    PROVE  \E i \in work[e].left :
               /\ work[e] \in PriceWork /\ work'[e] \in PriceWork
               /\ i \in DOMAIN items
               /\ \A other \in Devices : other # e => work'[other] = work[other]
               /\ work'[e].op = "price" /\ work'[e].style = work[e].style
               /\ work'[e].changes = work[e].changes /\ work'[e].pieces = work[e].pieces
               /\ work'[e].crossed = work[e].crossed
               /\ work'[e].left = work[e].left \ {i}
               /\ work'[e].seen[i] = items[i].held
               /\ \A j \in Pieces : j # i => work'[e].seen[j] = work[e].seen[j]
<1>1. PICK i \in work[e].left :
          work' = [work EXCEPT ![e].left = @ \ {i}, ![e].seen[i] = items[i].held]
  BY DEF ReplaceBlocks
<1>2. work[e] \in PriceWork /\ DOMAIN work = Devices
  BY KindOfRequest DEF ReplaceBlocks, WorkOK
<1>3. i \in Pieces /\ work[e].left \in SUBSET Pieces /\ work[e].seen \in [Pieces -> SUBSET Days]
  BY <1>2 DEF PriceWork
<1> DEFINE seen == [work[e].seen EXCEPT ![i] = items[i].held]
           left == work[e].left \ {i}
           new == [work[e] EXCEPT !.left = left, !.seen = seen]
<1>4. work'[e] = new /\ \A other \in Devices : other # e => work'[other] = work[other]
  BY <1>1, <1>2
<1>5. i \in DOMAIN items /\ items[i].held \in SUBSET Days
  <2>1. i \in DOMAIN items
    BY <1>1 DEF WorkOK, RequestOK, ReplaceBlocks, FoundAll
  <2>2. items[i] \in Item
    BY <2>1, ElementOfSeq, LenProperties DEF DataOK, ItemsOK
  <2> QED
    BY <2>1, <2>2 DEF Item
<1>6. /\ seen \in [Pieces -> SUBSET Days] /\ left \in SUBSET Pieces
      /\ seen[i] = items[i].held /\ \A j \in Pieces : j # i => seen[j] = work[e].seen[j]
  BY <1>3, <1>5
<1>7. left = work[e].left \ {i}
  OBVIOUS
<1> HIDE DEF seen, left
<1>8. /\ new \in PriceWork /\ new.op = "price" /\ new.style = work[e].style
      /\ new.changes = work[e].changes /\ new.pieces = work[e].pieces
      /\ new.crossed = work[e].crossed /\ new.left = left /\ new.seen = seen
  BY <1>2, <1>6 DEF PriceWork
<1> HIDE DEF new
<1> QED
  BY <1>2, <1>4, <1>5, <1>6, <1>7, <1>8
\* The shop that a profile finds after all.
LEMMA ShopFound ==
    ASSUME DataOK, WorkOK, NEW e \in Devices, FindShop(e)
    PROVE  work'[e] \in Request /\ work'[e].op = "profile"
<1> DEFINE new == [work[e] EXCEPT !.seen = shop.kind]
<1>1. work[e] \in ProfileWork /\ work[e].op = "profile"
  BY KindOfRequest DEF FindShop
<1>2. shop.kind \in Kinds \cup {"none"}
  BY DEF DataOK, ShopOK
<1>3. work'[e] = new
  BY DEF FindShop, WorkOK
<1>4. new \in ProfileWork /\ new.op = "profile"
  BY <1>1, <1>2 DEF ProfileWork
<1> HIDE DEF new
<1> QED
  BY <1>3, <1>4 DEF Request

\* A request that is about the same dress and the same pieces stays good.
LEMMA SameRequest ==
    ASSUME WorkOK, Stays, NEW e \in Devices, ~Free(e), work'[e].op = work[e].op,
           work[e].op \in {"dress", "price", "review"} => work'[e].style = work[e].style,
           work[e].op \in {"dress", "price"} => work'[e].pieces = work[e].pieces
    PROVE  RequestOK(e)'
  BY DEF WorkOK, RequestOK, Stays

\* Every step leaves good requests.
LEMMA RequestsStayGood ==
    ASSUME DataOK, WorkOK, DatesOK, NEW d \in Devices, Wizard(d), NEW e \in Devices
    PROVE  work'[e] \in Request /\ RequestOK(e)'
<1>1. Stays /\ work[e] \in Request
  BY WizardStays DEF WorkOK
<1>2. CASE work'[e] = Idle
  BY <1>2 DEF Request, RequestOK, Idle
<1>3. CASE Loaded(e)
  BY <1>3, LoadedIsARequest
<1>4. CASE FindShop(e)
  BY <1>4, ShopFound DEF RequestOK
<1>5. CASE ReplaceBlocks(e)
  <2>1. /\ work'[e] \in PriceWork /\ work'[e].op = "price" /\ work[e].op = "price"
        /\ work'[e].style = work[e].style /\ work'[e].pieces = work[e].pieces
    BY <1>5, LookedUp DEF DatesOK, ReplaceBlocks
  <2>2. ~Free(e)
    BY <2>1, KindOfRequest
  <2> QED
    BY <1>1, <2>1, <2>2, SameRequest DEF Request
<1>6. CASE work'[e] = work[e] /\ work'[e] # Idle
  <2>1. ~Free(e)
    BY <1>6 DEF Free
  <2> QED
    BY <1>1, <1>6, <2>1, SameRequest
<1>7. CASE SavePrice(d) /\ work'[e] = Beside(d, e) /\ work'[e] # Idle
  <2>1. /\ Beside(d, e) \in Request /\ Beside(d, e).op = work[e].op
        /\ work[e].op = "price" => /\ Beside(d, e).style = work[e].style
                                   /\ Beside(d, e).pieces = work[e].pieces
        /\ work[e].op # "price" => Beside(d, e) = work[e]
    BY <1>7, BesideShape DEF SavePrice
  <2>2. ~Free(e)
    BY <1>7, <2>1 DEF Free, Idle
  <2> QED
    BY <1>1, <1>7, <2>1, <2>2, SameRequest
<1> QED
  BY <1>2, <1>3, <1>4, <1>5, <1>6, <1>7, RequestStep

\* The requests are still one for each browser.
LEMMA OneRequestEach ==
    ASSUME WorkOK, NEW d \in Devices, Wizard(d),
           \A e \in Devices : work'[e] \in Request
    PROVE  work' \in [Devices -> Request]
<1>1. CASE work' = work
  BY <1>1 DEF WorkOK
<1>2. ASSUME NEW r, work' = [work EXCEPT ![d] = r] PROVE work' \in [Devices -> Request]
  BY <1>2 DEF WorkOK
<1>3. CASE SavePrice(d)
  BY <1>3 DEF SavePrice
<1>4. CASE Loaded(d) \/ SaveProfile(d) \/ SaveDress(d) \/ SaveReview(d) \/ RollBack(d)
  BY <1>2, <1>4 DEF Loaded, LoadProfile, LoadDress, LoadPrice, LoadReview, Start, SaveProfile,
      SaveDress, SaveReview, RollBack, Finish
<1>5. CASE FindShop(d)
  BY <1>2, <1>5 DEF FindShop
<1>6. CASE ReplaceBlocks(d)
  <2>1. \E r : work' = [work EXCEPT ![d] = r]
    BY <1>6 DEF ReplaceBlocks
  <2> QED
    BY <1>2, <2>1
<1> QED
  BY <1>1, <1>3, <1>4, <1>5, <1>6 DEF Wizard, Loaded, ChoosePath, SubmitPhone, SubmitCode,
      LogIn, LogOut, ListAnother, OpenDress, ChangePhotos

LEMMA WorkKept ==
    ASSUME DataOK, WorkOK, DatesOK, NEW d \in Devices, Wizard(d) PROVE WorkOK'
  BY RequestsStayGood, OneRequestEach DEF WorkOK
-----------------------------------------------------------------------------
(* The busy days. *)

\* Saves of different dresses have no piece in common.
LEMMA OtherPieces ==
    ASSUME WorkOK, NEW d \in Devices, NEW e \in Devices,
           work[d].op = "price", work[e].op = "price", work[d].style # work[e].style
    PROVE  work[d].pieces \cap work[e].pieces = {}
  BY DEF WorkOK, RequestOK

\* What has been found stays found while no blocks are stored.
LEMMA StillFound ==
    ASSUME WorkOK, NEW e \in Devices, FoundAll(e), HeldStays, work'[e] = work[e]
    PROVE  FoundAll(e)'
<1> SUFFICES ASSUME work[e].op = "price", ~work[e].crossed,
                    NEW i \in work[e].pieces \ work[e].left
             PROVE  items'[i].held \subseteq work[e].seen[i]
  BY DEF FoundAll
<1>1. i \in DOMAIN items /\ items[i].held \subseteq work[e].seen[i]
  BY DEF FoundAll, WorkOK, RequestOK
<1> QED
  BY <1>1 DEF HeldStays

\* The blocks of one more piece are found.
LEMMA OneMoreFound ==
    ASSUME DataOK, WorkOK, NEW e \in Devices, FoundAll(e), ReplaceBlocks(e)
    PROVE  FoundAll(e)'
<1>1. PICK i \in work[e].left :
               /\ work[e] \in PriceWork /\ work'[e].op = "price"
               /\ work'[e].pieces = work[e].pieces
               /\ work'[e].crossed = work[e].crossed
               /\ work'[e].left = work[e].left \ {i}
               /\ work'[e].seen[i] = items[i].held
               /\ \A j \in Pieces : j # i => work'[e].seen[j] = work[e].seen[j]
  BY LookedUp
<1>2. /\ work[e].pieces # {} /\ work[e].left \subseteq work[e].pieces
      /\ work[e].pieces \subseteq Pieces /\ items' = items
  BY <1>1 DEF FoundAll, ReplaceBlocks, PriceWork
<1>3. ASSUME ~work[e].crossed, NEW j \in work[e].pieces \ (work[e].left \ {i})
      PROVE  items[j].held \subseteq work'[e].seen[j]
  <2>1. CASE j = i
    BY <1>1, <2>1
  <2>2. CASE j # i
    BY <1>1, <1>2, <1>3, <2>2 DEF FoundAll, ReplaceBlocks
  <2> QED
    BY <2>1, <2>2
<1> QED
  BY <1>1, <1>2, <1>3 DEF FoundAll

\* The commit of another save: either it excludes this one by the row of the
\* dress, or this one is crossed, or it wrote other pieces.
LEMMA FoundBeside ==
    ASSUME DataOK, WorkOK, DatesOK, NEW d \in Devices, NEW e \in Devices, d # e,
           SavePrice(d), work'[e] = Beside(d, e)
    PROVE  FoundAll(e)'
<1>1. /\ work[d].op = "price" /\ work[d].left = {} /\ FoundAll(d) /\ FoundAll(e)
      /\ work[d] \in PriceWork
  BY KindOfRequest DEF SavePrice, DatesOK
<1>2. /\ work'[e].op = work[e].op
      /\ work[e].op = "price" =>
            work'[e].pieces = work[e].pieces /\ work'[e].left = work[e].left
      /\ work[e].op # "price" => work'[e] = work[e]
  BY <1>1, BesideShape
<1> SUFFICES ASSUME work[e].op = "price", ~work'[e].crossed,
                    NEW i \in work[e].pieces \ work[e].left
             PROVE  items'[i].held \subseteq work'[e].seen[i]
  BY <1>1, <1>2 DEF FoundAll
<1>3. /\ work[e] \in PriceWork /\ i \in DOMAIN items
      /\ work[e].crossed \in BOOLEAN
  BY KindOfRequest DEF WorkOK, RequestOK, PriceWork
<1>4. CASE work[e].style = work[d].style
  <2>1. work'[e].crossed = (work[e].crossed \/ ~(work[d].changes /\ work[e].changes))
    <3> DEFINE seen == [j \in Pieces |-> work[e].seen[j] \ work[d].seen[j]]
               crossed == work[e].crossed \/ ~(work[d].changes /\ work[e].changes)
    <3>1. work'[e] = [work[e] EXCEPT !.seen = seen, !.crossed = crossed]
      BY <1>4 DEF Beside
    <3> HIDE DEF seen
    <3>2. [work[e] EXCEPT !.seen = seen, !.crossed = crossed].crossed = crossed
      BY <1>3 DEF PriceWork
    <3> QED
      BY <3>1, <3>2
  <2>2. work[d].changes /\ work[e].changes
    BY <2>1
  <2>3. HoldsRow(d, work[d].style) /\ HoldsRow(e, work[d].style)
    BY <1>1, <1>4, <2>2 DEF HoldsRow, FoundAll
  <2> QED
    BY <1>1, <2>3 DEF DatesOK, OneHolder
<1>5. CASE work[e].style # work[d].style
  <2>1. i \notin work[d].pieces
    BY <1>1, <1>5, OtherPieces
  <2>2. items'[i] = items[i]
    BY <1>3, <2>1, SavePriceKeeps
  <2>3. work'[e] = work[e]
    BY <1>5 DEF Beside
  <2> QED
    BY <1>1, <2>2, <2>3 DEF FoundAll
<1> QED
  BY <1>4, <1>5

LEMMA DaysStayFound ==
    ASSUME DataOK, WorkOK, DatesOK, NEW d \in Devices, Wizard(d), NEW e \in Devices
    PROVE  FoundAll(e)'
<1>1. CASE work'[e] = work[e] /\ ~SavePrice(d)
  BY <1>1, WizardStays, StillFound DEF DatesOK
<1>2. CASE work'[e] = Idle
  BY <1>2 DEF FoundAll, Idle
<1>3. CASE Loaded(e)
  BY <1>3, LoadedIsARequest DEF FoundAll
<1>4. CASE FindShop(e)
  BY <1>4, ShopFound DEF FoundAll
<1>5. CASE ReplaceBlocks(e)
  BY <1>5, OneMoreFound DEF DatesOK
<1>6. CASE d # e /\ SavePrice(d) /\ work'[e] = Beside(d, e)
  BY <1>6, FoundBeside
<1> QED
  BY <1>1, <1>2, <1>3, <1>4, <1>5, <1>6, RequestStep

\* Whoever comes to hold the row of a dress held it before or found it free.
LEMMA HowRowsAreTaken ==
    ASSUME DataOK, WorkOK, DatesOK, NEW d \in Devices, Wizard(d), NEW e \in Devices,
           NEW st, HoldsRow(e, st)'
    PROVE  HoldsRow(e, st) \/ (ReplaceBlocks(e) /\ MayWriteRow(e, st))
<1>1. /\ work'[e].op = "price" /\ work'[e].style = st /\ work'[e].changes
      /\ work'[e].left # work'[e].pieces
  BY DEF HoldsRow
<1>2. CASE work'[e] = work[e] \/ work'[e] = Idle
  BY <1>1, <1>2 DEF HoldsRow, Idle
<1>3. CASE Loaded(e)
  BY <1>1, <1>3, LoadedIsARequest
<1>4. CASE FindShop(e)
  BY <1>1, <1>4, ShopFound
<1>5. CASE ReplaceBlocks(e)
  <2>1. /\ work[e].op = "price" /\ work'[e].style = work[e].style
        /\ work'[e].changes = work[e].changes
    BY <1>5, LookedUp DEF DatesOK, ReplaceBlocks
  <2> QED
    BY <1>1, <1>5, <2>1 DEF ReplaceBlocks, HoldsRow
<1>6. CASE d # e /\ SavePrice(d) /\ work'[e] = Beside(d, e)
  <2>1. work[d].op = "price"
    BY <1>6 DEF SavePrice
  <2> QED
    BY <1>1, <1>6, <2>1, BesideShape DEF HoldsRow
<1> QED
  BY <1>2, <1>3, <1>4, <1>5, <1>6, RequestStep

\* Looking up blocks touches the request of one browser only.
LEMMA RowOfTheOther ==
    ASSUME WorkOK, NEW d \in Devices, NEW e \in Devices, d # e, NEW st,
           ReplaceBlocks(d), HoldsRow(e, st)'
    PROVE  HoldsRow(e, st) /\ ~ReplaceBlocks(e)
<1>1. DOMAIN work = Devices
  BY DEF WorkOK
<1>2. work'[e] = work[e]
  BY <1>1 DEF ReplaceBlocks
<1>3. ASSUME ReplaceBlocks(e) PROVE FALSE
  <2>1. PICK i \in work[e].left :
            work' = [work EXCEPT ![e].left = @ \ {i}, ![e].seen[i] = items[i].held]
    BY <1>3 DEF ReplaceBlocks
  <2>2. work[e] \in PriceWork
    BY <1>3, KindOfRequest DEF ReplaceBlocks
  <2>3. work'[e].left = work[e].left \ {i}
    BY <1>1, <2>1, <2>2 DEF PriceWork
  <2> QED
    BY <1>2, <2>3
<1> QED
  BY <1>2, <1>3 DEF HoldsRow

LEMMA StillOneHolder ==
    ASSUME DataOK, WorkOK, DatesOK, NEW b \in Devices, Wizard(b) PROVE OneHolder'
<1> SUFFICES ASSUME NEW d \in Devices, NEW e \in Devices, d # e, NEW st, st = work'[d].style,
                    HoldsRow(d, st)', HoldsRow(e, st)'
             PROVE  FALSE
  BY DEF OneHolder
<1>1. /\ HoldsRow(d, st) \/ (ReplaceBlocks(d) /\ MayWriteRow(d, st))
      /\ HoldsRow(e, st) \/ (ReplaceBlocks(e) /\ MayWriteRow(e, st))
  BY HowRowsAreTaken
<1>2. ReplaceBlocks(d) => HoldsRow(e, st) /\ ~ReplaceBlocks(e)
  BY RowOfTheOther
<1>3. ReplaceBlocks(e) => HoldsRow(d, st) /\ ~ReplaceBlocks(d)
  BY RowOfTheOther
<1>4. ~(HoldsRow(d, st) /\ HoldsRow(e, st))
  BY DEF DatesOK, OneHolder, HoldsRow
<1> QED
  BY <1>1, <1>2, <1>3, <1>4 DEF MayWriteRow

\* Beside the wizard no request is touched and no block is stored.
LEMMA BesideKeepsWork ==
    ASSUME DataOK, WorkOK, DatesOK, Stays, HeldStays, work' = work
    PROVE  WorkOK' /\ DatesOK'
<1>1. \A e \in Devices : RequestOK(e)'
  <2> SUFFICES ASSUME NEW e \in Devices PROVE RequestOK(e)'
    OBVIOUS
  <2>1. CASE Free(e)
    BY <2>1 DEF Free, Idle, RequestOK
  <2>2. CASE ~Free(e)
    BY <2>2, SameRequest
  <2> QED
    BY <2>1, <2>2
<1>2. \A e \in Devices : FoundAll(e)'
  BY StillFound DEF DatesOK
<1>3. OneHolder'
  BY DEF DatesOK, OneHolder, HoldsRow
<1> QED
  BY <1>1, <1>2, <1>3 DEF WorkOK, DatesOK

\* Every step keeps the invariant.
LEMMA NextKeeps == ASSUME IInv, [Next]_vars PROVE IInv'
<1>1. DataOK /\ WorkOK /\ DatesOK /\ edits \in 0 .. MaxEdits
  BY DEF IInv
<1>2. CASE UNCHANGED vars
  <2>1. /\ UNCHANGED <<shop, blocked, styles, items, cookie>> /\ work' = work /\ edits' = edits
    BY <1>2 DEF vars
  <2>2. Stays /\ HeldStays
    BY <2>1, SamePieces DEF Stays, HasShop
  <2> QED
    BY <1>1, <2>1, <2>2, LoadsKeep, BesideKeepsWork DEF IInv
<1>3. ASSUME NEW d \in Devices, Wizard(d), UNCHANGED edits PROVE IInv'
  <2>1. DataOK' /\ WorkOK'
    BY <1>1, <1>3, WizardKeeps, WorkKept
  <2>2. DatesOK'
    BY <1>1, <1>3, DaysStayFound, StillOneHolder DEF DatesOK
  <2> QED
    BY <1>1, <1>3, <2>1, <2>2 DEF IInv
<1>4. ASSUME edits < MaxEdits, edits' = edits + 1,
             (\E d \in Devices : Behind(d)) \/ Renters \/ Administrator
      PROVE  IInv'
  <2>1. edits' \in 0 .. MaxEdits
    BY <1>1, <1>4
  <2>2. DataOK' /\ Stays /\ HeldStays /\ work' = work
    BY <1>1, <1>4, BesideKeeps, BesideStays
  <2> QED
    BY <1>1, <2>1, <2>2, BesideKeepsWork DEF IInv
<1> QED
  BY <1>2, <1>3, <1>4 DEF Next

\* Before anybody has come.
LEMMA Initial == ASSUME Init PROVE IInv
<1>1. styles \in Seq(Style) /\ items \in Seq(Item) /\ Len(styles) = 0 /\ Len(items) = 0
  BY EmptySeq DEF Init
<1>2. 0 \in 0 .. MaxStyles /\ 0 \in 0 .. MaxEdits
  OBVIOUS
<1>3. CookiesOK
  BY <1>1, <1>2 DEF Init, CookiesOK, Session, Cleared
<1>4. ShopOK /\ StylesOK
  <2>1. /\ shop = [kind |-> "none", status |-> "draft"] /\ blocked = FALSE
        /\ "none" \in Kinds \cup {"none"} /\ "draft" \in ShopStatuses
    BY DEF Init, ShopStatuses
  <2>2. ShopOK
    BY <2>1 DEF ShopOK
  <2> QED
    BY <1>1, <2>2 DEF StylesOK
<1>5. ItemsOK
  BY <1>1 DEF Init, ItemsOK
<1>6. WorkOK /\ DatesOK
  <2>1. \A d \in Devices : work[d] = Idle
    BY DEF Init
  <2>2. WorkOK
    BY <2>1 DEF Init, WorkOK, RequestOK, Request, Idle
  <2> QED
    BY <2>1, <2>2 DEF DatesOK, FoundAll, OneHolder, Idle
<1> QED
  BY <1>2, <1>3, <1>4, <1>5, <1>6 DEF Init, IInv, DataOK

\* The invariant holds in every reachable state.
LEMMA Invariant == Spec => []IInv
<1>1. Init => IInv
  BY Initial
<1>2. IInv /\ [Next]_vars => IInv'
  BY NextKeeps
<1> QED
  BY <1>1, <1>2, PTL DEF Spec

(* Shop, dresses, pieces, cookies and requests under way keep their shape, a
   cookie names only dresses that exist and a request works on the dress of its
   cookie, for any number of browsers, dresses and pieces. *)
THEOREM TypeCorrect == Spec => []TypeOK
<1>1. IInv => TypeOK
  BY DEF IInv, DataOK, ShopOK, StylesOK, ItemsOK, CookiesOK, WorkOK, RequestOK, TypeOK
<1> QED
  BY <1>1, Invariant, PTL

(* The redirects of the guards (_guard, Flow.reached) end at a page that is
   shown, and only the price and the summary of a listed dress are missing,
   for every state of cookies and tables. *)
THEOREM RedirectsNeverCircle == Spec => []RedirectsEnd
<1>1. RedirectsEnd
  BY RedirectsAlwaysEnd
<1> QED
  BY <1>1, PTL

\* The commit of a price writes every piece the request had loaded.
LEMMA CommitWritesAll ==
    ASSUME DataOK, WorkOK, DatesOK, NEW d \in Devices, SavePrice(d), ~work[d].crossed,
           NEW i \in work[d].pieces
    PROVE  items'[i].held = work[d].days /\ items'[i].booked \cap work[d].days = {}
<1>1. i \in DOMAIN items
  BY DEF WorkOK, RequestOK, SavePrice
<1>2. items[i].held \subseteq work[d].seen[i]
  BY DEF DatesOK, FoundAll, SavePrice
<1>3. NotFound(work[d], i) = {}
  BY <1>2 DEF NotFound
<1>4. /\ items'[i].held = NotFound(work[d], i) \cup work[d].days
      /\ items'[i].booked = items[i].booked
  BY <1>1, SavePriceKeeps
<1>5. items[i].booked \cap work[d].days = {}
  BY DEF SavePrice
<1> QED
  BY <1>3, <1>4, <1>5

(* A saved price step replaces the busy days (set_price_and_dates) on every
   piece it had loaded, however many saves of however many browsers overlap,
   unless another save of the dress that it does not exclude by the row of the
   dress was committed in between. *)
THEOREM DatesReplaced == Spec => DatesAreReplaced
<1>1. IInv /\ [Next]_vars =>
          [\A d \in Devices :
              (work'[d] # work[d] /\ ~Free(d) /\ SavePrice(d) /\ ~work[d].crossed) =>
                  \A i \in work[d].pieces :
                      /\ items'[i].held = work[d].days
                      /\ items'[i].booked \cap work[d].days = {}]_vars
  BY CommitWritesAll DEF IInv
<1> QED
  BY <1>1, Invariant, PTL DEF Spec, DatesAreReplaced
-----------------------------------------------------------------------------
(* The path of a published shop. *)

\* There is no published shop without a kind, and a profile form that was loaded
\* after publication has the path of the shop.
PathOK ==
    /\ ~HasShop => shop.status = "draft"
    /\ \A d \in Devices :
          work[d].op = "profile" /\ ~work[d].draft => work[d].kind = work[d].seen

\* The shop stays a draft until it is there.
LEMMA NoShopIsPublished ==
    ASSUME DataOK, WorkOK, PathOK, [Next]_vars
    PROVE  ~HasShop' => shop'.status = "draft"
<1>1. ASSUME NEW d \in Devices, SaveReview(d) PROVE HasShop /\ shop'.kind = shop.kind
  BY <1>1, DressOfRequest DEF SaveReview, DataOK, ShopOK
<1>2. ASSUME NEW d \in Devices, SaveProfile(d) PROVE shop' = shop \/ HasShop'
  <2>1. work[d].kind \in Kinds /\ shop \in [kind : Kinds \cup {"none"}, status : ShopStatuses]
    BY <1>2, KindOfRequest DEF SaveProfile, ProfileWork, DataOK, ShopOK
  <2> QED
    BY <1>2, <2>1 DEF SaveProfile, HasShop, Kinds
<1>3. ASSUME Administrator PROVE shop' = shop \/ HasShop'
  BY <1>3 DEF Administrator, AdminSavesShop, AdminBlocks, HasShop, Kinds
<1>4. \/ shop' = shop \/ Administrator
      \/ \E d \in Devices : SaveProfile(d) \/ SaveReview(d)
  BY DEF Next, vars, Wizard, Behind, Renters, ChoosePath, SubmitPhone, SubmitCode, LogIn, LogOut,
      ListAnother, LoadProfile, FindShop, OpenDress, ChangePhotos, LoadDress, SaveDress, LoadPrice,
      ReplaceBlocks, SavePrice, LoadReview, RollBack, Start, CreateStyle, UpdateStyle, AddItem,
      SetItemStatus, Book
<1> QED
  BY <1>1, <1>2, <1>3, <1>4 DEF PathOK, HasShop

\* A profile form that comes after publication is loaded with the shop's path.
LEMMA LoadedOnThePath ==
    ASSUME WorkOK, PathOK, NEW d \in Devices, LoadProfile(d), ~work'[d].draft
    PROVE  work'[d].kind = work'[d].seen
<1>1. work'[d] = [op |-> "profile", kind |-> Path(d), seen |-> shop.kind,
                  draft |-> shop.status = "draft"]
  BY DEF LoadProfile, Start, WorkOK
<1>2. shop.status # "draft" /\ Shop(d)
  <2>1. work'[d].draft = (shop.status = "draft")
    BY <1>1
  <2> QED
    BY <2>1 DEF PathOK, LoadProfile, Shop
<1> QED
  BY <1>1, <1>2 DEF Path

\* Every step keeps the paths.
LEMMA PathsKept == ASSUME IInv, PathOK, [Next]_vars PROVE PathOK'
<1>1. DataOK /\ WorkOK
  BY DEF IInv
<1>2. ASSUME NEW e \in Devices, work'[e] = work[e]
      PROVE  work'[e].op = "profile" /\ ~work'[e].draft => work'[e].kind = work'[e].seen
  BY <1>2 DEF PathOK
<1>3. ASSUME NEW d \in Devices, Wizard(d), NEW e \in Devices,
             work'[e].op = "profile", ~work'[e].draft
      PROVE  work'[e].kind = work'[e].seen
  <2>1. CASE Loaded(e)
    <3>1. LoadProfile(e)
      BY <1>1, <1>3, <2>1 DEF Loaded, LoadDress, LoadPrice, LoadReview, Start, WorkOK
    <3> QED
      BY <1>1, <1>3, <3>1, LoadedOnThePath
  <2>2. CASE FindShop(e)
    <3>1. work[e] \in ProfileWork /\ work[e].seen = "none"
      BY <1>1, <2>2, KindOfRequest DEF FindShop
    <3>2. work[e].draft
      BY <2>2, <3>1 DEF PathOK, FindShop, ProfileWork, Kinds
    <3>3. work'[e].draft = work[e].draft
      BY <1>1, <2>2 DEF FindShop, WorkOK
    <3> QED
      BY <1>3, <3>2, <3>3
  <2>3. CASE ReplaceBlocks(e)
    BY <1>1, <1>3, <2>3, LookedUp DEF IInv, DatesOK
  <2>4. CASE d # e /\ SavePrice(d) /\ work'[e] = Beside(d, e)
    <3>1. work'[e] = work[e]
      BY <1>1, <1>3, <2>4, BesideShape DEF SavePrice
    <3> QED
      BY <1>2, <1>3, <3>1
  <2>5. CASE work'[e] = Idle
    BY <1>3, <2>5 DEF Idle
  <2> QED
    BY <1>1, <1>2, <1>3, <2>1, <2>2, <2>3, <2>4, <2>5, RequestStep
<1>4. ASSUME (\E d \in Devices : Behind(d)) \/ Renters \/ Administrator \/ UNCHANGED vars
      PROVE  work' = work
  BY <1>4 DEF vars, Behind, Renters, Administrator, CreateStyle, UpdateStyle, AddItem,
      SetItemStatus, Book, AdminSavesShop, AdminBlocks
<1>5. \A e \in Devices :
          work'[e].op = "profile" /\ ~work'[e].draft => work'[e].kind = work'[e].seen
  BY <1>2, <1>3, <1>4 DEF Next
<1>6. ~HasShop' => shop'.status = "draft"
  BY <1>1, NoShopIsPublished
<1> QED
  BY <1>5, <1>6 DEF PathOK

\* Without the administrator only a profile form changes the path of a shop.
LEMMA ProfileChangesThePath ==
    ASSUME DataOK, WorkOK, [Next]_vars, HasShop, edits \in 0 .. MaxEdits, edits' = edits,
           shop'.kind # shop.kind
    PROVE  \E d \in Devices : SaveProfile(d)
<1>1. ASSUME NEW d \in Devices, SaveReview(d) PROVE shop'.kind = shop.kind
  BY <1>1 DEF SaveReview, DataOK, ShopOK
<1>2. edits' # edits + 1
  OBVIOUS
<1> QED
  BY <1>1, <1>2 DEF Next, vars, Wizard, ChoosePath, SubmitPhone, SubmitCode, LogIn, LogOut,
      ListAnother, LoadProfile, FindShop, OpenDress, ChangePhotos, LoadDress, SaveDress, LoadPrice,
      ReplaceBlocks, SavePrice, LoadReview, RollBack, Start

(* A published shop keeps its path (choose_path, Flow.path): without the
   administrator only a profile form loaded before the publication changes it,
   for any number of browsers and whatever is in their cookies. *)
THEOREM PathOfPublishedShopKept == Spec => PublishedShopKeepsItsPath
<1>1. Init => PathOK
  BY DEF Init, PathOK, HasShop, Idle
<1>2. IInv /\ PathOK /\ [Next]_vars => PathOK'
  BY PathsKept
<1>3. IInv /\ PathOK /\ [Next]_vars =>
          [HasShop /\ ~IsDraft /\ edits' = edits /\ shop'.kind # shop.kind =>
              \E d \in Devices : SaveProfile(d) /\ work[d].draft]_vars
  <2> SUFFICES ASSUME IInv, PathOK, [Next]_vars, HasShop, edits' = edits, shop'.kind # shop.kind
               PROVE  \E d \in Devices : SaveProfile(d) /\ work[d].draft
    OBVIOUS
  <2>1. PICK d \in Devices : SaveProfile(d)
    BY ProfileChangesThePath DEF IInv
  <2>2. work[d].op = "profile" /\ work[d].kind # work[d].seen
    BY <2>1 DEF SaveProfile, HasShop
  <2>3. work[d].draft
    BY <2>2 DEF PathOK
  <2> QED
    BY <2>1, <2>3
<1> QED
  BY <1>1, <1>2, <1>3, Invariant, PTL DEF Spec, PublishedShopKeepsItsPath
-----------------------------------------------------------------------------
(* A step that was saved leads on.                                           *)

\* The fields of shops and cookies a page looks at.
LEMMA SeenByOwner ==
    ASSUME NEW d \in Devices, HasDraft(d)
    PROVE  User(d) /\ HasShop /\ Shop(d) /\ StyleId(d) # 0
  BY DEF HasDraft, StyleId, Shop

\* Whoever may open the dress step is on the path of the shop.
LEMMA OnThePath ==
    ASSUME NEW d \in Devices, HasDraft(d), NEW step \in {"dress", "price", "review"},
           MayOpen(d, step)
    PROVE  Path(d) = shop.kind /\ Reached(d) = Listed(StyleId(d))
<1>1. User(d) /\ HasShop
  BY SeenByOwner
<1> QED
  BY <1>1, OrderOfSteps DEF MayOpen, Reached

\* A save that leaves shop, block and cookie alone leaves the path alone.
LEMMA StaysOnThePath ==
    ASSUME NEW d \in Devices, NEW st, User(d), HasShop, Path(d) = shop.kind, st = StyleId(d),
           UNCHANGED <<blocked, cookie>>, shop'.kind = shop.kind,
           shop'.status # "draft" \/ shop' = shop
    PROVE  User(d)' /\ HasShop' /\ StyleId(d)' = st /\ Reached(d)' = Listed(st)'
<1>1. User(d)' /\ HasShop' /\ Shop(d)' /\ Shop(d)
  BY DEF User, HasShop, Shop
<1>2. StyleId(d)' = st
  BY <1>1 DEF StyleId
<1>3. Path(d)' = shop'.kind
  BY <1>1 DEF Path
<1>4. ActiveItems(StyleId(d))' = ActiveItems(st)'
  BY <1>2 DEF ActiveItems
<1>5. Listed(StyleId(d))' = Listed(st)'
  BY <1>2, <1>4 DEF Listed
<1> QED
  BY <1>1, <1>2, <1>3, <1>5 DEF Reached

\* Signing in leads past the fork: the path chosen before is put back.
LEMMA CodeLeadsOn ==
    ASSUME DataOK, NEW d \in Devices, SubmitCode(d), ~blocked
    PROVE  Answer(d, IF HasShop THEN "dress" ELSE "profile")' # "fork"
<1>1. /\ cookie'[d] = SignedIn(d) /\ UNCHANGED <<shop, blocked>> /\ ~User(d)
  BY DEF SubmitCode, DataOK, CookiesOK
<1>2. Path(d) # "none" /\ Path(d) = cookie[d].path
  <2>1. Path(d) = cookie[d].path
    BY <1>1 DEF Path, Shop
  <2>2. Path(d) # "none"
    BY <1>1, OrderOfSteps DEF SubmitCode, MayOpen, Reached
  <2> QED
    BY <2>1, <2>2
<1>3. cookie'[d].user = TRUE /\ cookie'[d].path = cookie[d].path
  BY <1>1 DEF SignedIn, Cleared
<1>4. User(d)' /\ HasShop' = HasShop
  BY <1>1, <1>3 DEF User, HasShop
<1>5. CASE HasShop
  <2>1. Reached(d)' \in {"profile", "dress", "price", "review", "done"}
    BY <1>4, <1>5 DEF Reached, Listed
  <2>2. Answer(d, "dress")' = GuardedPage(d, "dress")'
    BY DEF Answer
  <2>3. HasShop'
    BY <1>4, <1>5
  <2>4. Answer(d, IF HasShop THEN "dress" ELSE "profile")' = Answer(d, "dress")'
    BY <2>3 DEF Answer
  <2> QED
    BY <2>1, <2>2, <2>4 DEF GuardedPage
<1>6. CASE ~HasShop
  <2>1. Path(d)' # "none"
    BY <1>2, <1>3, <1>4, <1>6 DEF Path, Shop
  <2>2. Reached(d)' = "profile"
    BY <1>4, <1>6, <2>1 DEF Reached
  <2>3. Answer(d, "profile")' = GuardedPage(d, "profile")'
    BY DEF Answer
  <2>4. ~HasShop'
    BY <1>4, <1>6
  <2>5. Answer(d, IF HasShop THEN "dress" ELSE "profile")' = Answer(d, "profile")'
    BY <2>4 DEF Answer
  <2> QED
    BY <2>2, <2>3, <2>5 DEF GuardedPage
<1> QED
  BY <1>5, <1>6

\* A saved profile confirms the path, so the dress step is open.
LEMMA ProfileLeadsOn ==
    ASSUME DataOK, WorkOK, NEW d \in Devices, SaveProfile(d), Undisturbed(d)
    PROVE  Answer(d, "dress")' = "dress"
<1> DEFINE kind == work[d].kind
<1>1. /\ User(d) /\ UNCHANGED <<blocked, cookie>> /\ kind \in Kinds
      /\ Path(d) = kind /\ shop.kind = work[d].seen
  BY KindOfRequest DEF SaveProfile, Undisturbed, ProfileWork
<1>2. shop'.kind = kind /\ (HasShop => shop'.status = shop.status)
  <2>1. shop \in [kind : Kinds \cup {"none"}, status : ShopStatuses]
    BY DEF DataOK, ShopOK
  <2> QED
    BY <1>1, <2>1 DEF SaveProfile, HasShop
<1>3. User(d)' /\ HasShop' /\ Shop(d)'
  BY <1>1, <1>2 DEF User, HasShop, Shop, Kinds
<1>4. Path(d)' = shop'.kind
  BY <1>1, <1>2, <1>3 DEF Path, Shop
<1>5. Reached(d)' \in {"dress", "price", "review", "done"}
  BY <1>3, <1>4 DEF Reached, Listed
<1>6. MayOpen(d, "dress")'
  BY <1>5, OrderOfSteps DEF MayOpen, Order
<1>7. Answer(d, "dress")' = GuardedPage(d, "dress")'
  BY DEF Answer
<1> QED
  BY <1>6, <1>7 DEF GuardedPage

\* A dress that was saved in some size has an active piece.
LEMMA SavedDressHasAPiece ==
    ASSUME DataOK, NEW st \in DOMAIN styles, NEW chosen \in SUBSET Sizes, chosen # {},
           NEW pieces, pieces = ActiveItems(st), SetDress(st, pieces, chosen)
    PROVE  ActiveItems(st)' # {}
<1> DEFINE added == SetToSeq(Missing(pieces, chosen))
           kept == [i \in DOMAIN items |->
                       IF i \in Dropped(pieces, chosen)
                           THEN [items[i] EXCEPT !.active = FALSE] ELSE items[i]]
           new == [n \in DOMAIN added |-> NewItem(st, added[n])]
<1>1. items \in Seq(Item) /\ DOMAIN items = 1 .. Len(items) /\ Len(items) \in Nat
  BY LenProperties DEF DataOK, ItemsOK
<1>2. /\ added \in Seq(Missing(pieces, chosen)) /\ DOMAIN added = 1 .. Len(added)
      /\ Len(added) \in Nat /\ IsFiniteSet(Missing(pieces, chosen))
  <2>1. Missing(pieces, chosen) \subseteq Sizes
    BY DEF Missing
  <2>2. IsFiniteSet(Missing(pieces, chosen))
    BY <2>1, FS_Subset
  <2>3. added \in Seq(Missing(pieces, chosen))
    BY <2>2, MissingInASequence
  <2> QED
    BY <2>2, <2>3, LenProperties
<1>3. DOMAIN kept = 1 .. Len(items) /\ DOMAIN new = 1 .. Len(added)
  BY <1>1, <1>2
<1> DEFINE A == UNION {{kept[i]} : i \in DOMAIN items}
           B == UNION {{new[n]} : n \in DOMAIN added}
<1>4. kept \in Seq(A) /\ Len(kept) = Len(items)
  <2>1. kept \in [1 .. Len(items) -> A]
    BY <1>1
  <2> HIDE DEF kept, A
  <2> QED
    BY <1>1, <2>1
<1>5. new \in Seq(B) /\ Len(new) = Len(added)
  <2>1. new \in [1 .. Len(added) -> B]
    BY <1>2
  <2> HIDE DEF new, B, added
  <2> QED
    BY <1>2, <2>1
<1>6. items' = kept \o new
  BY DEF SetDress
<1>7. \A i \in DOMAIN items : i \notin Dropped(pieces, chosen) => kept[i] = items[i]
  OBVIOUS
<1>8. \A n \in DOMAIN added : new[n].style = st /\ new[n].active = TRUE
  BY DEF NewItem
<1> HIDE DEF kept, new, added, A, B
<1>9. kept \in Seq(A \cup B) /\ new \in Seq(A \cup B)
  BY <1>4, <1>5, SeqMonotonic, Zenon
<1>10. /\ \A j \in 1 .. Len(items) + Len(added) :
             items'[j] = IF j <= Len(items) THEN kept[j] ELSE new[j - Len(items)]
       /\ DOMAIN items' = 1 .. Len(items) + Len(added)
  <2>1. /\ kept \o new \in Seq(A \cup B)
        /\ Len(kept \o new) = Len(kept) + Len(new)
        /\ \A j \in 1 .. Len(kept) + Len(new) :
              (kept \o new)[j] = IF j <= Len(kept) THEN kept[j] ELSE new[j - Len(kept)]
    BY <1>9, ConcatProperties
  <2>2. DOMAIN items' = 1 .. Len(items')
    BY <1>6, <2>1, LenProperties
  <2> QED
    BY <1>4, <1>5, <1>6, <2>1, <2>2
<1>11. PICK size \in chosen : TRUE
  OBVIOUS
<1>12. CASE size \in Missing(pieces, chosen)
  <2>1. Cardinality(Missing(pieces, chosen)) \in Nat /\ Cardinality(Missing(pieces, chosen)) # 0
    BY <1>2, <1>12, FS_CardinalityType, FS_EmptySet
  <2>2. Len(added) # 0
    <3>1. ASSUME Len(added) = 0 PROVE FALSE
      <4>1. ExistsBijection(1 .. Cardinality(Missing(pieces, chosen)), Missing(pieces, chosen))
        BY <1>2, FS_CardinalityType
      <4>2. PICK f \in [1 .. Cardinality(Missing(pieces, chosen)) -> Missing(pieces, chosen)] :
                IsInjective(f)
        BY <4>1 DEF ExistsBijection, Bijection, Injection
      <4>3. added \in [1 .. Cardinality(Missing(pieces, chosen)) -> Missing(pieces, chosen)]
        BY <4>2 DEF SetToSeq, added
      <4>4. 1 .. 0 = 1 .. Cardinality(Missing(pieces, chosen))
        BY <1>2, <3>1, <4>3
      <4> QED
        BY <2>1, <4>4
    <3> QED
      BY <3>1
  <2> DEFINE j == Len(items) + 1
  <2>3. j \in 1 .. Len(items) + Len(added) /\ ~(j <= Len(items)) /\ j - Len(items) = 1
        /\ 1 \in DOMAIN added
    BY <1>1, <1>2, <2>2
  <2>4. items'[j] = new[1] /\ j \in DOMAIN items'
    <3> HIDE DEF j
    <3> QED
      BY <1>10, <2>3
  <2>5. items'[j].style = st /\ items'[j].active = TRUE
    BY <1>8, <2>3, <2>4
  <2> QED
    <3> PICK k : k = j
      OBVIOUS
    <3>1. k \in DOMAIN items' /\ items'[k].style = st /\ items'[k].active = TRUE
      BY <2>4, <2>5
    <3> QED
      BY <3>1 DEF ActiveItems
<1>13. CASE size \notin Missing(pieces, chosen)
  <2>1. PICK i \in Current(pieces) : items[i].size = size
    BY <1>11, <1>13 DEF Missing
  <2>2. /\ i \in DOMAIN items /\ items[i].style = st /\ items[i].active
        /\ i \notin Dropped(pieces, chosen)
    BY <1>11, <2>1 DEF Current, ActiveItems, Dropped
  <2>3. kept[i] = items[i]
    BY <1>7, <2>2
  <2>4. i \in DOMAIN items' /\ items'[i] = kept[i]
    BY <1>1, <1>2, <1>10, <2>2
  <2> QED
    BY <2>2, <2>3, <2>4 DEF ActiveItems
<1> QED
  BY <1>12, <1>13

\* A saved dress opens the price step.
LEMMA DressLeadsOn ==
    ASSUME DataOK, WorkOK, NEW d \in Devices, SaveDress(d), Undisturbed(d)
    PROVE  Answer(d, "price")' = "price"
<1> PICK st : st = StyleId(d)
  OBVIOUS
<1>0. /\ MayOpen(d, "dress") /\ HasDraft(d) /\ work[d] \in DressWork
      /\ work[d].style = st /\ ActiveItems(st) = work[d].pieces
  <2>1. work[d].op = "dress" /\ work[d].style = cookie[d].style
    BY DressOfRequest DEF SaveDress
  <2>2. HasDraft(d) /\ MayOpen(d, "dress") /\ ActiveItems(work[d].style) = work[d].pieces
    BY <2>1 DEF Undisturbed
  <2> QED
    BY <2>1, <2>2, KindOfRequest DEF HasDraft, StyleId
<1>1. /\ User(d) /\ HasShop /\ st # 0 /\ Path(d) = shop.kind
      /\ st \in DOMAIN styles /\ styles[st] \in Style /\ ~styles[st].published
  BY <1>0, SeenByOwner, OnThePath, DraftExists DEF HasDraft
<1>2. PICK chosen \in SUBSET Sizes :
          /\ SetDress(st, work[d].pieces, chosen) /\ chosen # {}
          /\ UNCHANGED <<shop, blocked, cookie>>
  BY <1>0 DEF SaveDress, DressWork
<1>3. User(d)' /\ StyleId(d)' = st /\ Reached(d)' = Listed(st)'
  BY <1>1, <1>2, StaysOnThePath
<1>4. ActiveItems(st)' # {}
  BY <1>0, <1>1, <1>2, SavedDressHasAPiece
<1>5. styles'[st].category = TRUE /\ ~styles'[st].published
  BY <1>1, <1>2 DEF SetDress, Style
<1>6. Listed(st)' \in {"price", "review"}
  BY <1>1, <1>4, <1>5 DEF Listed
<1>7. MayOpen(d, "price")'
  BY <1>3, <1>6, OrderOfSteps DEF MayOpen, Order
<1>8. HasDraft(d)'
  BY <1>1, <1>3, <1>5 DEF HasDraft
<1>9. Answer(d, "price")' = DraftPage(d, "price")'
  BY DEF Answer
<1> QED
  BY <1>7, <1>8, <1>9 DEF DraftPage, GuardedPage

\* A saved price opens the review.
LEMMA PriceLeadsOn ==
    ASSUME DataOK, WorkOK, NEW d \in Devices, SavePrice(d), Undisturbed(d)
    PROVE  Answer(d, "review")' = "review"
<1> PICK st : st = StyleId(d)
  OBVIOUS
<1>0. /\ MayOpen(d, "price") /\ HasDraft(d) /\ work[d].style = st
      /\ work[d].changes \/ styles[st].priced
  <2>1. work[d].op = "price" /\ work[d].style = cookie[d].style
    BY DressOfRequest DEF SavePrice
  <2>2. /\ HasDraft(d) /\ MayOpen(d, "price")
        /\ work[d].changes \/ styles[work[d].style].priced
    BY <2>1 DEF Undisturbed
  <2> QED
    BY <2>1, <2>2 DEF HasDraft, StyleId
<1>1. /\ User(d) /\ HasShop /\ st # 0 /\ Path(d) = shop.kind /\ Reached(d) = Listed(st)
      /\ st \in DOMAIN styles /\ styles[st] \in Style /\ ~styles[st].published
  BY <1>0, SeenByOwner, OnThePath, DraftExists DEF HasDraft
<1>2. /\ UNCHANGED <<shop, blocked, cookie>>
      /\ styles' = IF work[d].changes THEN [styles EXCEPT ![st].priced = TRUE] ELSE styles
  BY <1>0 DEF SavePrice
<1>3. User(d)' /\ StyleId(d)' = st /\ Reached(d)' = Listed(st)'
  BY <1>1, <1>2, StaysOnThePath
<1>4. styles[st].category /\ ActiveItems(st) # {}
  BY <1>0, <1>1, OrderOfSteps DEF MayOpen, Listed
<1>5. /\ styles'[st].category = styles[st].category /\ styles'[st].priced = TRUE
      /\ ~styles'[st].published
  BY <1>0, <1>1, <1>2 DEF Style
<1>6. ActiveItems(st)' # {}
  <2>1. PICK i \in DOMAIN items : items[i].style = st /\ items[i].active
    BY <1>4 DEF ActiveItems
  <2>2. i \in DOMAIN items' /\ items'[i].style = st /\ items'[i].active
    BY <2>1, SavePriceKeeps
  <2> QED
    BY <2>2 DEF ActiveItems
<1>7. Listed(st)' = "review"
  BY <1>1, <1>4, <1>5, <1>6 DEF Listed
<1>8. MayOpen(d, "review")'
  BY <1>3, <1>7, OrderOfSteps DEF MayOpen, Order
<1>9. HasDraft(d)'
  BY <1>1, <1>3, <1>5 DEF HasDraft
<1>10. Answer(d, "review")' = DraftPage(d, "review")'
  BY DEF Answer
<1> QED
  BY <1>8, <1>9, <1>10 DEF DraftPage, GuardedPage

\* A published dress has its last page.
LEMMA ReviewLeadsOn ==
    ASSUME DataOK, WorkOK, NEW d \in Devices, SaveReview(d), Undisturbed(d)
    PROVE  Answer(d, "done")' = "done"
<1> PICK st : st = work[d].style
  OBVIOUS
<1>1. /\ User(d) /\ HasShop /\ st = cookie[d].style /\ st # 0
      /\ st \in DOMAIN styles /\ styles[st] \in Style
  <2>1. st \in DOMAIN styles /\ HasShop /\ st = cookie[d].style
    BY DressOfRequest DEF SaveReview
  <2>2. styles[st] \in Style /\ st # 0
    BY <2>1, StyleNumbers, ElementOfSeq, LenProperties DEF DataOK, StylesOK
  <2> QED
    BY <2>1, <2>2 DEF Undisturbed
<1>2. /\ styles' = [styles EXCEPT ![st].published = TRUE]
      /\ shop'.kind = shop.kind /\ UNCHANGED <<blocked, cookie>>
  BY DEF SaveReview, DataOK, ShopOK
<1>3. StyleId(d)' = st
  BY <1>1, <1>2 DEF StyleId, Shop, User, HasShop
<1>4. styles'[st].published = TRUE
  BY <1>1, <1>2 DEF Style
<1>5. Answer(d, "done")' = DonePage(d)'
  BY DEF Answer
<1> QED
  BY <1>1, <1>3, <1>4, <1>5 DEF DonePage

(* A step of the wizard that was saved leads on: the page its handler redirects
   to is shown (_go, _guard), unless another request has changed what this one
   had loaded, for any number of browsers, dresses, pieces and edits beside the
   wizard. *)
THEOREM EverySavedStepLeadsOn == Spec => SavedStepsLeadOn
<1> DEFINE
      LeadsOn(d) ==
          /\ (cookie'[d] # cookie[d] /\ ~blocked /\ SubmitCode(d)) =>
                 Answer(d, IF HasShop THEN "dress" ELSE "profile")' # "fork"
          /\ (work'[d] # work[d] /\ ~Free(d) /\ Undisturbed(d)) =>
                /\ SaveProfile(d) => Answer(d, "dress")' = "dress"
                /\ SaveDress(d) => Answer(d, "price")' = "price"
                /\ SavePrice(d) => Answer(d, "review")' = "review"
                /\ SaveReview(d) => Answer(d, "done")' = "done"
<1>1. IInv => \A d \in Devices : LeadsOn(d)
  <2> SUFFICES ASSUME IInv, NEW d \in Devices PROVE LeadsOn(d)
    OBVIOUS
  <2>1. DataOK /\ WorkOK
    BY DEF IInv
  <2> QED
    BY <2>1, CodeLeadsOn, ProfileLeadsOn, DressLeadsOn, PriceLeadsOn, ReviewLeadsOn
<1>2. IInv /\ [Next]_vars => [edits' = edits => \A d \in Devices : LeadsOn(d)]_vars
  BY <1>1
<1>3. Spec => [][edits' = edits => \A d \in Devices : LeadsOn(d)]_vars
  BY <1>2, Invariant, PTL DEF Spec
<1> QED
  BY <1>3 DEF SavedStepsLeadOn
=============================================================================
