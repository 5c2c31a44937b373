------------------------------ MODULE Onboarding ------------------------------
(***************************************************************************)
(* The wizard that takes a provider from a phone number to a published     *)
(* first listing (src/src/twirl/web/onboarding.py over onboarding.py),     *)
(* for one provider who may use several browsers.  The database holds the  *)
(* shop, its dresses, their pieces and the days they are blocked; every    *)
(* browser only remembers, in its cookie, the path, whether a phone waits  *)
(* for its code, who is signed in and which dress is being listed.  Every  *)
(* page works out from both how far the provider has got and redirects     *)
(* when it is not its turn.                                                *)
(*                                                                         *)
(* A form that decides on what it has loaded (profile, dress, price,       *)
(* review) is taken apart into the read and the write, in READ COMMITTED   *)
(* and without a version check: work holds the requests in the middle.  A  *)
(* browser has one form under way at a time.  The handlers that race for   *)
(* photos, codes and the single draft are taken apart in Catalogue.        *)
(*                                                                         *)
(* Some browsers (Owners) also use the dashboard, which edits the same     *)
(* dresses behind the wizard's back; the administrator edits the shop.     *)
(***************************************************************************)
EXTENDS Naturals, FiniteSets, Sequences, SequencesExt

CONSTANTS Devices,    \* the browsers the provider uses
          Owners,     \* those of them used for the dashboard as well
          Sizes,      \* sizes a dress may be listed in
          Days,       \* days that can be marked busy or booked
          MaxStyles,  \* bound: dresses of the shop
          MaxItems,   \* bound: pieces of all dresses
          MaxEdits    \* bound: what happens beside the wizard

ASSUME OnboardingAssumption ==
    /\ Owners \subseteq Devices /\ IsFiniteSet(Sizes)
    /\ MaxStyles \in Nat /\ MaxItems \in Nat /\ MaxEdits \in Nat

VARIABLES shop,     \* its kind, "none" while there is no shop, and its status
          blocked,  \* the administrator has blocked the provider
          styles,   \* the dresses, by id
          items,    \* the pieces, by id
          cookie,   \* the signed session of every browser
          work,     \* what the request of a browser has loaded and not yet saved
          edits     \* how often something happened beside the wizard (bound)

vars == <<shop, blocked, styles, items, cookie, work, edits>>

Kinds == {"salon", "individual"}
ShopStatuses == {"draft", "published", "suspended"}

Style == [category : BOOLEAN, priced : BOOLEAN, photos : BOOLEAN, published : BOOLEAN]
\* held: the days of the wizard's blocks; booked: days a renter has.
Item == [style : 1 .. MaxStyles, size : Sizes, active : BOOLEAN,
         held : SUBSET Days, booked : SUBSET Days]
Session == [path : Kinds \cup {"none"}, pending : BOOLEAN,
            user : BOOLEAN, style : 0 .. MaxStyles]
Cleared == [path |-> "none", pending |-> FALSE, user |-> FALSE, style |-> 0]

\* The forms between their read and their write.  profile: the kind to save,
\* the kind loaded and whether the shop was then still a draft (history), as one
\* that is not there yet will be; dress: the sizes chosen and the active pieces loaded;
\* price: the busy days, whether the price differs from the one loaded, the
\* pieces loaded, those still to do and the days of the blocks found on the
\* others; review: whether the shop was loaded as a draft.
\* crossed: a save that does not exclude this one by the row of the dress
\* was committed since this one began to read (history, no column).
Pieces == 1 .. MaxItems
Idle == [op |-> "none"]
ProfileWork == [op : {"profile"}, kind : Kinds, seen : Kinds \cup {"none"},
                draft : BOOLEAN]
DressWork == [op : {"dress"}, style : 1 .. MaxStyles, chosen : (SUBSET Sizes) \ {{}},
              pieces : SUBSET Pieces]
PriceWork == [op : {"price"}, style : 1 .. MaxStyles, days : SUBSET Days,
              changes : BOOLEAN, pieces : SUBSET Pieces, left : SUBSET Pieces,
              seen : [Pieces -> SUBSET Days], crossed : BOOLEAN]
ReviewWork == [op : {"review"}, style : 1 .. MaxStyles, draft : BOOLEAN]
Request == {Idle} \cup ProfileWork \cup DressWork \cup PriceWork \cup ReviewWork

Init ==
    /\ shop = [kind |-> "none", status |-> "draft"]
    /\ blocked = FALSE
    /\ styles = <<>> /\ items = <<>>
    /\ cookie = [d \in Devices |-> Cleared]
    /\ work = [d \in Devices |-> Idle]
    /\ edits = 0

-----------------------------------------------------------------------------
(* What a request sees (_flow) and how far the provider has got. *)

Order == [fork |-> 1, phone |-> 2, code |-> 3, profile |-> 4,
          dress |-> 5, price |-> 6, review |-> 7, done |-> 8]
Steps == DOMAIN Order

HasShop == shop.kind # "none"
IsDraft == HasShop /\ shop.status = "draft"

User(d) == cookie[d].user /\ ~blocked
Shop(d) == User(d) /\ HasShop
\* Mutant of Path: the cookie outlives the draft.
PathOfCookie(d) ==
    IF Shop(d) /\ cookie[d].path = "none" THEN shop.kind ELSE cookie[d].path

Path(d) ==
    IF Shop(d) /\ (cookie[d].path = "none" \/ shop.status # "draft")
        THEN shop.kind ELSE cookie[d].path
StyleId(d) == IF Shop(d) THEN cookie[d].style ELSE 0

ActiveItems(st) == {i \in DOMAIN items : items[i].style = st /\ items[i].active}

\* Mutant of Listed: whether the dress is listed is asked last.
ListedLast(st) ==
    IF st = 0 THEN "dress"
    ELSE IF ~styles[st].category \/ ActiveItems(st) = {} THEN "dress"
    ELSE IF ~styles[st].priced THEN "price"
    ELSE IF styles[st].published THEN "done" ELSE "review"

\* How far the listing of a dress has got.
Listed(st) ==
    IF st = 0 THEN "dress"
    ELSE IF styles[st].published THEN "done"
    ELSE IF ~styles[st].category \/ ActiveItems(st) = {} THEN "dress"
    ELSE IF ~styles[st].priced THEN "price" ELSE "review"

\* A draft whose path was changed has its profile to confirm first.
Reached(d) ==
    IF User(d)
    THEN IF HasShop
         THEN IF Path(d) = shop.kind THEN Listed(StyleId(d)) ELSE "profile"
         ELSE IF Path(d) = "none" THEN "fork" ELSE "profile"
    ELSE IF Path(d) = "none" THEN "fork"
    ELSE IF cookie[d].pending THEN "code" ELSE "phone"

\* _guard: the step is not ahead of the provider.
MayOpen(d, step) == Order[step] <= Order[Reached(d)]
\* _draft_style_or_404
HasDraft(d) == StyleId(d) # 0 /\ ~styles[StyleId(d)].published

(***************************************************************************)
(* Answer(d, step) is what a GET of the step leads to: the step itself     *)
(* when its page is shown, another step when the answer is a redirect.     *)
(***************************************************************************)
ForkPage == IF HasShop /\ ~IsDraft THEN "dress" ELSE "fork"
PhonePage(d) ==
    IF Path(d) = "none" THEN "fork" ELSE IF User(d) THEN "profile" ELSE "phone"
GuardedPage(d, step) == IF MayOpen(d, step) THEN step ELSE Reached(d)
CodePage(d) == IF User(d) THEN "profile" ELSE GuardedPage(d, "code")
DraftPage(d, step) ==
    IF MayOpen(d, step) /\ ~HasDraft(d) THEN "404" ELSE GuardedPage(d, step)
DonePage(d) ==
    IF StyleId(d) = 0 \/ ~styles[StyleId(d)].published THEN Reached(d) ELSE "done"

Answer(d, step) ==
    CASE step = "fork"                -> IF User(d) THEN ForkPage ELSE "fork"
      [] step = "phone"               -> PhonePage(d)
      [] step = "code"                -> CodePage(d)
      [] step \in {"profile", "dress"} -> GuardedPage(d, step)
      [] step \in {"price", "review"} -> DraftPage(d, step)
      [] step = "done"                -> DonePage(d)
-----------------------------------------------------------------------------
(* Requests that take one step: path, phone, code, and the way in and out. *)

Free(d) == work[d] = Idle
Remember(d, field, value) == cookie' = [cookie EXCEPT ![d][field] = value]

ChoosePath(d, path) ==
    /\ Free(d) /\ (~Shop(d) \/ IsDraft)
    /\ Remember(d, "path", path)
    /\ UNCHANGED <<shop, blocked, styles, items, work>>

\* The form of the phone step asks for a path but not that nobody is signed in.
SubmitPhone(d) ==
    /\ Free(d) /\ Path(d) # "none"
    /\ Remember(d, "pending", TRUE)
    /\ UNCHANGED <<shop, blocked, styles, items, work>>

\* Mutant of SignedIn: the path is not put back.
SignedInOnly(d) == [Cleared EXCEPT !.user = TRUE]

\* login_user clears the session, so the handler puts the chosen path back.
SignedIn(d) == [Cleared EXCEPT !.user = TRUE, !.path = cookie[d].path]
SubmitCode(d) ==
    /\ Free(d) /\ ~User(d) /\ MayOpen(d, "code")
    /\ cookie' = [cookie EXCEPT ![d] = SignedIn(d)]
    /\ UNCHANGED <<shop, blocked, styles, items, work>>

\* The door for those who have a shop already (web/auth.py).
LogIn(d) ==
    /\ Free(d) /\ HasShop /\ ~blocked
    /\ cookie' = [cookie EXCEPT ![d] = [Cleared EXCEPT !.user = TRUE]]
    /\ UNCHANGED <<shop, blocked, styles, items, work>>

\* Mutant of LogOut: only the user is taken out of the session.
LogOutUserOnly(d) ==
    /\ Free(d)
    /\ cookie' = [cookie EXCEPT ![d].user = FALSE]
    /\ UNCHANGED <<shop, blocked, styles, items, work>>

LogOut(d) ==
    /\ Free(d)
    /\ cookie' = [cookie EXCEPT ![d] = Cleared]
    /\ UNCHANGED <<shop, blocked, styles, items, work>>

ListAnother(d) ==
    /\ Free(d)
    /\ Remember(d, "style", 0)
    /\ UNCHANGED <<shop, blocked, styles, items, work>>
-----------------------------------------------------------------------------
(* A form is loaded, and later saved or rolled back as a whole. *)

Start(d, request) ==
    /\ Free(d)
    /\ work' = [work EXCEPT ![d] = request]
    /\ UNCHANGED <<shop, blocked, styles, items, cookie>>
Finish(d) == work' = [work EXCEPT ![d] = Idle]

\* A conflict with a renter's booking, a violated constraint or a lost connection.
RollBack(d) ==
    /\ ~Free(d)
    /\ Finish(d)
    /\ UNCHANGED <<shop, blocked, styles, items, cookie>>

LoadProfile(d) ==
    /\ User(d) /\ MayOpen(d, "profile")
    /\ Start(d, [op |-> "profile", kind |-> Path(d), seen |-> shop.kind,
                 draft |-> shop.status = "draft"])

\* save_provider asks for the shop again: one that was missing may be there by
\* now, one that was loaded is not loaded afresh.
FindShop(d) ==
    /\ work[d].op = "profile" /\ work[d].seen = "none" /\ HasShop
    /\ work' = [work EXCEPT ![d].seen = shop.kind]
    /\ UNCHANGED <<shop, blocked, styles, items, cookie>>

\* A new shop is a draft, and the only one of its owner; of an old one the
\* kind is written if it differs from the kind loaded.
SaveProfile(d) ==
    /\ work[d].op = "profile"
    /\ \/ work[d].seen = "none" /\ ~HasShop
          /\ shop' = [kind |-> work[d].kind, status |-> "draft"]
       \/ work[d].seen \notin {"none", work[d].kind}
          /\ shop' = [shop EXCEPT !.kind = work[d].kind]
       \/ work[d].seen = work[d].kind /\ UNCHANGED shop
    /\ Finish(d)
    /\ UNCHANGED <<blocked, styles, items, cookie>>
-----------------------------------------------------------------------------
(* The dress: its draft, its photos and its sizes. *)

NewStyle(priced, published) ==
    [category |-> FALSE, priced |-> priced, photos |-> FALSE, published |-> published]
NewItem(st, size) ==
    [style |-> st, size |-> size, active |-> TRUE, held |-> {}, booked |-> {}]

Drafts == {st \in DOMAIN styles : ~styles[st].published}
Newest(S) == CHOOSE st \in S : \A other \in S : other <= st

OpenDress(d) ==
    /\ Free(d) /\ User(d) /\ MayOpen(d, "dress") /\ ~HasDraft(d)
    /\ IF Drafts # {}
       THEN Remember(d, "style", Newest(Drafts)) /\ UNCHANGED styles
       ELSE /\ Len(styles) < MaxStyles
            /\ styles' = Append(styles, NewStyle(FALSE, FALSE))
            /\ Remember(d, "style", Len(styles'))
    /\ UNCHANGED <<shop, blocked, items, work>>

\* photo_upload and photo_delete: there are enough photos, or no longer.  The
\* page sends them beside its form.
ChangePhotos(d) ==
    /\ HasDraft(d)
    /\ styles' = [styles EXCEPT ![StyleId(d)].photos = ~@]
    /\ UNCHANGED <<shop, blocked, items, cookie, work>>

\* dress_errors: enough photos, at least one size, one size for individuals.
DressFits(d, chosen) ==
    /\ styles[StyleId(d)].photos
    /\ chosen # {}
    /\ Path(d) = "individual" => Cardinality(chosen) = 1

LoadDress(d, chosen) ==
    /\ MayOpen(d, "dress") /\ HasDraft(d) /\ DressFits(d, chosen)
    /\ Start(d, [op |-> "dress", style |-> StyleId(d), chosen |-> chosen,
                 pieces |-> ActiveItems(StyleId(d))])

\* The piece set_dress knows by its size: of two, the newer one.
Current(pieces) ==
    {i \in pieces : \A j \in pieces : items[j].size = items[i].size => j <= i}
Dropped(pieces, chosen) == {i \in Current(pieces) : items[i].size \notin chosen}
Missing(pieces, chosen) == chosen \ {items[i].size : i \in Current(pieces)}

\* set_dress: pieces of other sizes are retired, never deleted.
SetDress(st, pieces, chosen) ==
    LET added == SetToSeq(Missing(pieces, chosen)) IN
    /\ Len(items) + Len(added) <= MaxItems
    /\ styles' = [styles EXCEPT ![st].category = TRUE]
    /\ items' = [i \in DOMAIN items |->
                    IF i \in Dropped(pieces, chosen)
                        THEN [items[i] EXCEPT !.active = FALSE] ELSE items[i]]
                \o [n \in DOMAIN added |-> NewItem(st, added[n])]

SaveDress(d) ==
    /\ work[d].op = "dress"
    /\ SetDress(work[d].style, work[d].pieces, work[d].chosen)
    /\ Finish(d)
    /\ UNCHANGED <<shop, blocked, cookie>>
-----------------------------------------------------------------------------
(* Price and busy dates: the pieces one by one, in one transaction. *)

\* A price that is there may be sent again; a first price is always a change.
LoadPrice(d, days, changes) ==
    /\ MayOpen(d, "price") /\ HasDraft(d)
    /\ styles[StyleId(d)].priced \/ changes
    /\ Start(d, [op |-> "price", style |-> StyleId(d), days |-> days, changes |-> changes,
                 pieces |-> ActiveItems(StyleId(d)), left |-> ActiveItems(StyleId(d)),
                 seen |-> [i \in Pieces |-> {}], crossed |-> FALSE])

\* Mutant of HoldsRow: the price is stored after the dates.
HoldsRowAtTheEnd(e, st) ==
    /\ work[e].op = "price" /\ work[e].style = st
    /\ work[e].changes /\ work[e].left = {}

\* The first query for blocks flushes a changed price, which locks the row of
\* the dress until the transaction ends.
HoldsRow(e, st) ==
    /\ work[e].op = "price" /\ work[e].style = st
    /\ work[e].changes /\ work[e].left # work[e].pieces
MayWriteRow(d, st) == \A e \in Devices \ {d} : ~HoldsRow(e, st)

\* The blocks of the next piece are looked up and cancelled, and the new days
\* tried against what else is stored for it.
ReplaceBlocks(d) ==
    LET w == work[d] IN
    /\ w.op = "price" /\ w.left # {}
    /\ w.changes /\ w.left = w.pieces => MayWriteRow(d, w.style)
    /\ \E i \in w.left :
          /\ \A other \in w.left : i <= other
          /\ items[i].booked \cap w.days = {}
          /\ work' = [work EXCEPT ![d].left = @ \ {i}, ![d].seen[i] = items[i].held]
    /\ UNCHANGED <<shop, blocked, styles, items, cookie>>

\* The blocks of piece i that request w has not found stay.
NotFound(w, i) == items[i].held \ w.seen[i]

\* What the commit of d changes for the save e has under way: blocks d has
\* cancelled are gone, whatever e does to them.
Beside(d, e) ==
    IF work[e].op = "price" /\ work[e].pieces \ work[e].left # {} /\ work[e].style = work[d].style
    THEN [work[e] EXCEPT
             !.seen = [i \in Pieces |-> @[i] \ work[d].seen[i]],
             !.crossed = @ \/ ~(work[d].changes /\ work[e].changes)]
    ELSE work[e]

\* Mutant of SavePrice: pieces on which the days are taken are passed over.
SaveSomeDates(d) ==
    LET w == work[d] IN
    /\ w.op = "price" /\ w.left = {}
    /\ styles' = IF w.changes THEN [styles EXCEPT ![w.style].priced = TRUE] ELSE styles
    /\ items' = [i \in DOMAIN items |->
                    IF i \in w.pieces /\ w.days \cap (NotFound(w, i) \cup items[i].booked) = {}
                        THEN [items[i] EXCEPT !.held = NotFound(w, i) \cup w.days]
                        ELSE items[i]]
    /\ work' = [e \in Devices |-> IF e = d THEN Idle ELSE Beside(d, e)]
    /\ UNCHANGED <<shop, blocked, cookie>>

\* The constraint keeps two bookings of a piece off one day; one conflict and
\* nothing is saved.
SavePrice(d) ==
    LET w == work[d] IN
    /\ w.op = "price" /\ w.left = {}
    /\ \A i \in w.pieces : w.days \cap (NotFound(w, i) \cup items[i].booked) = {}
    /\ styles' = IF w.changes THEN [styles EXCEPT ![w.style].priced = TRUE] ELSE styles
    /\ items' = [i \in DOMAIN items |->
                    IF i \in w.pieces
                        THEN [items[i] EXCEPT !.held = NotFound(w, i) \cup w.days]
                        ELSE items[i]]
    /\ work' = [e \in Devices |-> IF e = d THEN Idle ELSE Beside(d, e)]
    /\ UNCHANGED <<shop, blocked, cookie>>
-----------------------------------------------------------------------------
(* Publication. *)

Complete(st) ==
    /\ styles[st].category /\ styles[st].priced /\ styles[st].photos
    /\ ActiveItems(st) # {}

LoadReview(d) ==
    /\ MayOpen(d, "review") /\ HasDraft(d) /\ Complete(StyleId(d))
    /\ Start(d, [op |-> "review", style |-> StyleId(d), draft |-> IsDraft])

\* A shop that was loaded as a draft is published, whatever it is by now.
SaveReview(d) ==
    /\ work[d].op = "review" /\ MayWriteRow(d, work[d].style)
    /\ styles' = [styles EXCEPT ![work[d].style].published = TRUE]
    /\ shop' = [shop EXCEPT !.status = IF work[d].draft THEN "published" ELSE @]
    /\ Finish(d)
    /\ UNCHANGED <<blocked, items, cookie>>
-----------------------------------------------------------------------------
(* What happens beside the wizard. *)

Dashboard(d) == d \in Owners /\ Shop(d)

CreateStyle(d, priced, published) ==
    /\ Dashboard(d) /\ Len(styles) < MaxStyles
    /\ styles' = Append(styles, NewStyle(priced, published))
    /\ UNCHANGED <<shop, blocked, items, cookie, work>>

UpdateStyle(d, st, priced, published) ==
    /\ Dashboard(d) /\ \A e \in Devices : ~HoldsRow(e, st)
    /\ styles' = [styles EXCEPT ![st].priced = priced, ![st].published = published]
    /\ UNCHANGED <<shop, blocked, items, cookie, work>>

AddItem(d, st, size) ==
    /\ Dashboard(d) /\ Len(items) < MaxItems
    /\ items' = Append(items, NewItem(st, size))
    /\ UNCHANGED <<shop, blocked, styles, cookie, work>>

SetItemStatus(d, i) ==
    /\ Dashboard(d)
    /\ items' = [items EXCEPT ![i].active = ~@]
    /\ UNCHANGED <<shop, blocked, styles, cookie, work>>

\* A renter takes an active piece of a listed dress on a free day.
Book(i, day) ==
    /\ shop.status = "published" /\ HasShop
    /\ items[i].active /\ styles[items[i].style].published
    /\ day \notin items[i].held \cup items[i].booked
    /\ items' = [items EXCEPT ![i].booked = @ \cup {day}]
    /\ UNCHANGED <<shop, blocked, styles, cookie, work>>

\* The administrator's form offers kind and status side by side.
AdminSavesShop(kind, status) ==
    /\ HasShop
    /\ shop' = [kind |-> kind, status |-> status]
    /\ UNCHANGED <<blocked, styles, items, cookie, work>>

AdminBlocks ==
    /\ blocked' = ~blocked
    /\ UNCHANGED <<shop, styles, items, cookie, work>>
-----------------------------------------------------------------------------
Wizard(d) ==
    \/ \E path \in Kinds : ChoosePath(d, path)
    \/ SubmitPhone(d)
    \/ SubmitCode(d)
    \/ LogIn(d)
    \/ LogOut(d)
    \/ ListAnother(d)
    \/ LoadProfile(d)
    \/ FindShop(d)
    \/ SaveProfile(d)
    \/ OpenDress(d)
    \/ ChangePhotos(d)
    \/ \E chosen \in SUBSET Sizes : LoadDress(d, chosen)
    \/ SaveDress(d)
    \/ \E days \in SUBSET Days, changes \in BOOLEAN : LoadPrice(d, days, changes)
    \/ ReplaceBlocks(d)
    \/ SavePrice(d)
    \/ LoadReview(d)
    \/ SaveReview(d)
    \/ RollBack(d)

Behind(d) ==
    \/ \E priced, published \in BOOLEAN : CreateStyle(d, priced, published)
    \/ \E st \in DOMAIN styles, priced, published \in BOOLEAN :
          UpdateStyle(d, st, priced, published)
    \/ \E st \in DOMAIN styles, size \in Sizes : AddItem(d, st, size)
    \/ \E i \in DOMAIN items : SetItemStatus(d, i)

Administrator ==
    \/ \E kind \in Kinds, status \in ShopStatuses : AdminSavesShop(kind, status)
    \/ AdminBlocks

Renters == \E i \in DOMAIN items, day \in Days : Book(i, day)

Next ==
    \/ /\ \E d \in Devices : Wizard(d)
       /\ UNCHANGED edits
    \/ /\ edits < MaxEdits /\ edits' = edits + 1
       /\ \/ \E d \in Devices : Behind(d)
          \/ Renters
          \/ Administrator

Spec == Init /\ [][Next]_vars
-----------------------------------------------------------------------------
(* The shop, the dresses, the pieces, the cookies and the requests under way
   have their shape; a cookie names a dress only if it exists and somebody is
   signed in, and a request works on the dress its cookie names. *)
TypeOK ==
    /\ shop \in [kind : Kinds \cup {"none"}, status : ShopStatuses]
    /\ blocked \in BOOLEAN /\ edits \in 0 .. MaxEdits
    /\ styles \in Seq(Style) /\ Len(styles) <= MaxStyles
    /\ items \in Seq(Item) /\ Len(items) <= MaxItems
    /\ \A i \in DOMAIN items : items[i].style \in DOMAIN styles
    /\ cookie \in [Devices -> Session]
    /\ \A d \in Devices :
          cookie[d].style <= (IF cookie[d].user THEN Len(styles) ELSE 0)
    /\ work \in [Devices -> Request]
    /\ \A d \in Devices :
          /\ work[d].op \in {"dress", "price", "review"} =>
                HasShop /\ work[d].style = cookie[d].style
          /\ work[d].op \in {"dress", "price"} =>
                \A i \in work[d].pieces :
                    i \in DOMAIN items /\ items[i].style = work[d].style

(* Every step is guarded and resumable: opening any step shows its page or
   leads in at most two redirects to a page that is shown, never round in a
   circle and never to "not found".  Asked for itself, a page is "not found" in
   one case only: the price and the summary of a dress that has been listed. *)
RedirectsEnd ==
    \A d \in Devices, step \in Steps :
        LET there == Answer(d, step) IN
        \/ there = step
        \/ there = "404" /\ step \in {"price", "review"} /\ Reached(d) = "done"
        \/ there \in Steps /\ Answer(d, there) = there
        \/ /\ there \in Steps /\ Answer(d, there) \in Steps
           /\ Answer(d, Answer(d, there)) = Answer(d, there)

(* What a request has loaded is still so when it saves. *)
Undisturbed(d) ==
    LET w == work[d] IN
    /\ User(d)
    /\ w.op = "profile" => Path(d) = w.kind /\ shop.kind = w.seen
    /\ w.op = "dress" =>
          MayOpen(d, "dress") /\ HasDraft(d) /\ ActiveItems(w.style) = w.pieces
    /\ w.op = "price" =>
          MayOpen(d, "price") /\ HasDraft(d) /\ (w.changes \/ styles[w.style].priced)

(* A step that was saved leads on: after the profile, the dress, the price and
   the summary the page the handler redirects to is shown, unless another
   request has changed in between what this one had loaded, and signing in
   does not lead back to the fork, whatever was edited elsewhere before. *)
SavedStepsLeadOn ==
    [][edits' = edits => \A d \in Devices :
          /\ (cookie'[d] # cookie[d] /\ ~blocked /\ SubmitCode(d)) =>
                 Answer(d, IF HasShop THEN "dress" ELSE "profile")' # "fork"
          /\ (work'[d] # work[d] /\ ~Free(d) /\ Undisturbed(d)) =>
                /\ SaveProfile(d) => Answer(d, "dress")' = "dress"
                /\ SaveDress(d) => Answer(d, "price")' = "price"
                /\ SavePrice(d) => Answer(d, "review")' = "review"
                /\ SaveReview(d) => Answer(d, "done")' = "done"]_vars

(* A saved price step replaces the busy days: every piece it had loaded carries
   exactly the days of that step and no renter has one of them, however many
   saves overlap.  It may leave days of another save standing only if one of
   the two did not change the price, so that neither waited for the row of the
   dress. *)
DatesAreReplaced ==
    [][\A d \in Devices :
          (work'[d] # work[d] /\ ~Free(d) /\ SavePrice(d) /\ ~work[d].crossed) =>
              \A i \in work[d].pieces :
                  /\ items'[i].held = work[d].days
                  /\ items'[i].booked \cap work[d].days = {}]_vars

(* A published shop keeps its path (choose_path, Flow.path), whatever old cookie
   a browser comes with: without the administrator its kind is only changed by a
   profile form that was loaded before the shop was published, and saved after. *)
PublishedShopKeepsItsPath ==
    [][HasShop /\ ~IsDraft /\ edits' = edits /\ shop'.kind # shop.kind =>
          \E d \in Devices : SaveProfile(d) /\ work[d].draft]_vars
=============================================================================
