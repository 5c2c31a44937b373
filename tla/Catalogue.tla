------------------------------ MODULE Catalogue -------------------------------
(***************************************************************************)
(* The dresses of one shop and their photos (src/src/twirl/catalog.py, the *)
(* pages of web/shop_catalog.py and the photo handlers of the wizard) as   *)
(* requests that overlap.  A request first reads, under READ COMMITTED,    *)
(* and writes when it commits; the files of a photo live in a storage that *)
(* knows no transactions: they are put before the row is committed and     *)
(* deleted before the row is.  A request may die at any point: the process *)
(* stops, the connection is lost, the storage fails.                       *)
(***************************************************************************)
EXTENDS Naturals, FiniteSets, Sequences

CONSTANTS Sessions,   \* requests served at the same time
          Images,     \* photos, each a row and its files
          MinPhotos,  \* MIN_PHOTOS: a dress goes online with at least so many
          MaxPhotos,  \* MAX_IMAGES_PER_STYLE
          MaxStyles,  \* bound: dresses of the shop
          MaxDeaths   \* bound: requests that die

ASSUME CatalogueAssumption ==
    /\ MinPhotos \in Nat /\ MaxPhotos \in Nat /\ MinPhotos <= MaxPhotos
    /\ MaxStyles \in Nat /\ MaxDeaths \in Nat
    /\ IsFiniteSet(Sessions) /\ IsFiniteSet(Images)

VARIABLES styles,     \* the committed dresses, in the order of their ids
          images,     \* the committed rows of photos
          files,      \* the photos whose files are in the storage
          tx,         \* what every session is in the middle of
          doomed,     \* photos whose deletion has begun (history)
          overlapped, \* two requests have ever been open at once (history)
          deaths      \* requests that died (bound)

vars == <<styles, images, files, tx, doomed, overlapped, deaths>>

\* How a dress is listed: not at all, by the wizard or by the dashboard.
Listings == {"no", "wizard", "dashboard"}
\* fresh: it has never been listed (history).
Style == [code : 1 .. MaxStyles, made : {"wizard", "dashboard"},
          listed : Listings, fresh : BOOLEAN]

NoImage == [style |-> 0, position |-> 0]
Idle == [op |-> "idle"]

Init ==
    /\ styles = <<>>
    /\ images = [i \in Images |-> NoImage]
    /\ files = {}
    /\ tx = [s \in Sessions |-> Idle]
    /\ doomed = {}
    /\ overlapped = FALSE
    /\ deaths = 0

Live == {i \in Images : images[i] # NoImage}
PhotosOf(st) == {i \in Live : images[i].style = st}
Unlisted == {st \in DOMAIN styles : styles[st].listed = "no"}
Codes == {styles[st].code : st \in DOMAIN styles}

\* The first free number above the count of the dresses.
NextCode == CHOOSE n \in Len(styles) + 1 .. 2 * Len(styles) + 1 :
                /\ n \notin Codes
                /\ \A m \in Len(styles) + 1 .. n - 1 : m \in Codes

Begin(s, work) ==
    /\ tx[s] = Idle
    /\ tx' = [tx EXCEPT ![s] = work]
    /\ overlapped' = (overlapped \/ \E t \in Sessions \ {s} : tx[t] # Idle)
End(s) == tx' = [tx EXCEPT ![s] = Idle]
-----------------------------------------------------------------------------
(* Dresses: the wizard's draft, the dashboard's form, publication. *)

NewStyle(made, listed) ==
    [op |-> "style", style |-> [code |-> NextCode, made |-> made,
                                listed |-> listed, fresh |-> listed = "no"]]

\* Any unlisted dress is picked up again; only without one a draft is made.
OpenDraft(s) ==
    /\ Unlisted = {} /\ Len(styles) < MaxStyles
    /\ Begin(s, NewStyle("wizard", "no"))
    /\ UNCHANGED <<styles, images, files, doomed, deaths>>

CreateStyle(s, listed) ==
    /\ Len(styles) < MaxStyles /\ listed # "wizard"
    /\ Begin(s, NewStyle("dashboard", listed))
    /\ UNCHANGED <<styles, images, files, doomed, deaths>>

\* Mutant of CodeIsFree: nothing makes codes unique in their shop.
AnyCode(code) == code \in Nat
\* The unique constraint of shop and code.
CodeIsFree(code) == code \notin Codes

\* The row is stored, or the request fails on the constraint.
StoreStyle(s) ==
    /\ tx[s].op = "style"
    /\ styles' = IF CodeIsFree(tx[s].style.code)
                     THEN Append(styles, tx[s].style) ELSE styles
    /\ End(s)
    /\ UNCHANGED <<images, files, doomed, overlapped, deaths>>

\* The wizard counts the photos, then writes that the dress is published.
Publish(s, st) ==
    /\ st \in Unlisted /\ Cardinality(PhotosOf(st)) >= MinPhotos
    /\ Begin(s, [op |-> "list", style |-> st, listed |-> "wizard"])
    /\ UNCHANGED <<styles, images, files, doomed, deaths>>

\* The dashboard's form counts nothing; an unchanged column is not written.
UpdateStyle(s, st) ==
    /\ st \in DOMAIN styles
    /\ Begin(s, [op |-> "list", style |-> st,
                 listed |-> IF st \in Unlisted THEN "dashboard" ELSE "no"])
    /\ UNCHANGED <<styles, images, files, doomed, deaths>>

StoreListing(s) ==
    /\ tx[s].op = "list"
    /\ styles' = [styles EXCEPT ![tx[s].style].listed = tx[s].listed,
                                ![tx[s].style].fresh = FALSE]
    /\ End(s)
    /\ UNCHANGED <<images, files, doomed, overlapped, deaths>>
-----------------------------------------------------------------------------
(* Uploads: the files first, the rows when the request commits. *)

Rows(s) == IF tx[s].op = "upload" THEN tx[s].rows ELSE {}
InFlight == {row[1] : row \in UNION {Rows(s) : s \in Sessions}}
            \cup {tx[s].image : s \in {t \in Sessions : tx[t].op = "delete"}}
Unused == Images \ (Live \cup files \cup InFlight \cup doomed)

\* A request counts the committed rows and its own.
MayAdd(st, own) == Cardinality(PhotosOf(st)) + own < MaxPhotos

\* Mutant of Put: the files are left for later.
PutNothing(i) == files' = files
Put(i) == files' = files \cup {i}

SaveImage(st, own, i) ==
    /\ MayAdd(st, own) /\ i \in Unused
    /\ Put(i)

\* The wizard takes one photo of a draft, the dashboard several of any dress.
Upload(s, st, many, i) ==
    /\ st \in DOMAIN styles
    /\ many \/ st \in Unlisted
    /\ SaveImage(st, 0, i)
    /\ Begin(s, [op |-> "upload", style |-> st, many |-> many,
                 rows |-> {<<i, Cardinality(PhotosOf(st))>>}])
    /\ UNCHANGED <<styles, images, doomed, deaths>>

UploadAnother(s, i) ==
    LET own == Cardinality(tx[s].rows)
        position == Cardinality(PhotosOf(tx[s].style)) + own IN
    /\ tx[s].op = "upload" /\ tx[s].many
    /\ SaveImage(tx[s].style, own, i)
    /\ tx' = [tx EXCEPT ![s].rows = @ \cup {<<i, position>>}]
    /\ UNCHANGED <<styles, images, doomed, overlapped, deaths>>

StoreImages(s) ==
    /\ tx[s].op = "upload"
    /\ images' = [i \in Images |->
            IF \E row \in tx[s].rows : row[1] = i
            THEN LET row == CHOOSE row \in tx[s].rows : row[1] = i
                 IN [style |-> tx[s].style, position |-> row[2]]
            ELSE images[i]]
    /\ End(s)
    /\ UNCHANGED <<styles, files, doomed, overlapped, deaths>>
-----------------------------------------------------------------------------
(* Deletions: the files, the row, then the positions of the others. *)

\* The row is locked by the request that has deleted it and not committed.
LockedBy(t, i) == tx[t].op = "delete" /\ tx[t].gone /\ tx[t].image = i

StartDelete(s, i) ==
    /\ i \in Live /\ images[i].style \in Unlisted
    /\ Begin(s, [op |-> "delete", style |-> images[i].style, image |-> i,
                 gone |-> FALSE, moves |-> <<>>])
    /\ files' = files \ {i}
    /\ doomed' = doomed \cup {i}
    /\ UNCHANGED <<styles, images, deaths>>

\* The orders the remaining photos may come in: by position, ties either way.
Ranks(rest) ==
    {rank \in [rest -> 0 .. Cardinality(rest) - 1] :
        \A i, j \in rest : i # j =>
            /\ rank[i] # rank[j]
            /\ images[i].position < images[j].position => rank[i] < rank[j]}
\* Mutant of Moved: the gap in the positions is left.
NoneMoved(rank) == {}
Moved(rank) == {i \in DOMAIN rank : rank[i] # images[i].position}

\* Waits for whoever has the row; a row that is gone by then is only a warning.
DeleteRow(s) ==
    /\ tx[s].op = "delete" /\ ~tx[s].gone
    /\ \A t \in Sessions : ~LockedBy(t, tx[s].image)
    /\ \E rank \in Ranks(PhotosOf(tx[s].style) \ {tx[s].image}) :
          tx' = [tx EXCEPT ![s].gone = TRUE,
                           ![s].moves = [i \in Moved(rank) |-> rank[i]]]
    /\ UNCHANGED <<styles, images, files, doomed, overlapped, deaths>>

Waits(s, t) ==
    /\ s # t /\ tx[s].op = "delete" /\ tx[s].gone
    /\ \E i \in DOMAIN tx[s].moves : LockedBy(t, i)

\* Moving a row that another request has deleted fails the whole request.
FinishDelete(s) ==
    /\ tx[s].op = "delete" /\ tx[s].gone
    /\ \A t \in Sessions : ~Waits(s, t)
    /\ IF DOMAIN tx[s].moves \subseteq Live
       THEN /\ images' = [i \in Images |->
                    IF i = tx[s].image THEN NoImage
                    ELSE IF i \in DOMAIN tx[s].moves
                        THEN [images[i] EXCEPT !.position = tx[s].moves[i]]
                        ELSE images[i]]
            /\ doomed' = doomed \ {tx[s].image}
       ELSE UNCHANGED <<images, doomed>>
    /\ End(s)
    /\ UNCHANGED <<styles, files, overlapped, deaths>>

\* Two deletions that wait for each other: the database ends one of them.
LoseDeadlock(s) ==
    /\ \E t \in Sessions : Waits(s, t) /\ Waits(t, s)
    /\ End(s)
    /\ UNCHANGED <<styles, images, files, doomed, overlapped, deaths>>

\* The request dies: its rows are rolled back, the storage keeps its state.
Die(s) ==
    /\ tx[s] # Idle /\ deaths < MaxDeaths
    /\ deaths' = deaths + 1
    /\ End(s)
    /\ UNCHANGED <<styles, images, files, doomed, overlapped>>
-----------------------------------------------------------------------------
Dresses(s) ==
    \/ OpenDraft(s)
    \/ \E listed \in Listings : CreateStyle(s, listed)
    \/ StoreStyle(s)
    \/ \E st \in DOMAIN styles : Publish(s, st) \/ UpdateStyle(s, st)
    \/ StoreListing(s)

Photos(s) ==
    \/ \E st \in DOMAIN styles, many \in BOOLEAN, i \in Images : Upload(s, st, many, i)
    \/ \E i \in Images : UploadAnother(s, i) \/ StartDelete(s, i)
    \/ StoreImages(s)
    \/ DeleteRow(s)
    \/ FinishDelete(s)
    \/ LoseDeadlock(s)

Next == \E s \in Sessions : Dresses(s) \/ Photos(s) \/ Die(s)

Spec == Init /\ [][Next]_vars
-----------------------------------------------------------------------------
(* Rows have their shape and belong to dresses that exist. *)
TypeOK ==
    /\ styles \in Seq(Style) /\ Len(styles) <= MaxStyles
    /\ images \in [Images -> [style : 0 .. Len(styles), position : Nat]]
    /\ files \subseteq Images /\ doomed \subseteq Images
    /\ overlapped \in BOOLEAN /\ deaths \in 0 .. MaxDeaths
    /\ \A s \in Sessions : tx[s].op \in {"list", "upload", "delete"} =>
           tx[s].style \in DOMAIN styles

(* However many requests of the wizard overlap, the shop never gets a second
   draft beside one that was never listed: nothing in the code looks for this,
   it holds because both drafts would get the same code. *)
OneDraft ==
    \A a, b \in DOMAIN styles :
        /\ styles[a].made = "wizard" /\ styles[a].fresh
        /\ styles[b].made = "wizard" /\ styles[b].fresh
        => a = b

(* A photo is shown broken, a row without its files, only if its own deletion
   has begun and not come to its end: uploading, dying and losing against
   other requests never leave one. *)
BrokenPhotosWereBeingDeleted == Live \ files \subseteq doomed

(* As long as no two requests have overlapped, deaths included: the photos of
   a dress are numbered without gap or tie, they are at most MaxPhotos, and
   a dress listed by the wizard has at least MinPhotos. *)
PhotosInOrder ==
    ~overlapped => \A st \in DOMAIN styles :
        LET n == Cardinality(PhotosOf(st)) IN
        /\ {images[i].position : i \in PhotosOf(st)} = 0 .. n - 1
        /\ n <= MaxPhotos
        /\ styles[st].listed = "wizard" => n >= MinPhotos
=============================================================================
