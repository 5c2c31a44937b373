--------------------------- MODULE CatalogueProofs ----------------------------
(***************************************************************************)
(* What the catalogue guarantees for any number of overlapping requests,   *)
(* dresses, photos and deaths.                                             *)
(***************************************************************************)
EXTENDS Catalogue, FiniteSetTheorems, SequenceTheorems, TLAPS

USE CatalogueAssumption

\* What a request may be in the middle of.
StyleWork == [op : {"style"}, style : Style]
ListWork == [op : {"list"}, style : Nat, listed : Listings]
UploadWork == [op : {"upload"}, style : Nat, many : BOOLEAN, rows : SUBSET (Images \X Nat)]
DeleteWork == [op : {"delete"}, style : Nat, image : Images, gone : BOOLEAN,
               moves : UNION {[S -> Nat] : S \in SUBSET Images}]
Work == {Idle} \cup StyleWork \cup ListWork \cup UploadWork \cup DeleteWork

StylesOK == styles \in Seq(Style) /\ Len(styles) <= MaxStyles
ImagesOK ==
    /\ images \in [Images -> [style : 0 .. Len(styles), position : Nat]]
    /\ files \subseteq Images /\ doomed \subseteq Images
TxOK ==
    /\ tx \in [Sessions -> Work]
    /\ \A s \in Sessions : tx[s].op \in {"list", "upload", "delete"} =>
           tx[s].style \in DOMAIN styles
BoundsOK == overlapped \in BOOLEAN /\ deaths \in 0 .. MaxDeaths

\* A dress's code is its place in the shop, and what was never listed is not.
CodesOK ==
    \A n \in DOMAIN styles :
        styles[n].code = n /\ (styles[n].fresh => styles[n].listed = "no")

FreshDrafts == {n \in DOMAIN styles : styles[n].made = "wizard" /\ styles[n].fresh}

\* A dress about to be stored can still be stored only if nothing was stored
\* since its code was chosen; then there is no draft beside it.
PendingOK ==
    \A s \in Sessions : tx[s].op = "style" =>
        /\ tx[s].style.code \in 1 .. Len(styles) + 1
        /\ tx[s].style.fresh => tx[s].style.listed = "no"
        /\ tx[s].style.code = Len(styles) + 1 /\ tx[s].style.made = "wizard" =>
               FreshDrafts = {}

\* An uploaded photo has its files before its row, and one request only.
RowsOK ==
    \A s \in Sessions : tx[s].op = "upload" =>
        /\ IsFiniteSet(tx[s].rows)
        /\ \A row \in tx[s].rows :
              /\ row[1] \in files \ Live
              /\ \A t \in Sessions \ {s} : tx[t].op = "upload" =>
                    \A other \in tx[t].rows : other[1] # row[1]

IInv ==
    /\ StylesOK /\ ImagesOK /\ TxOK /\ BoundsOK
    /\ CodesOK /\ PendingOK /\ OneDraft
    /\ RowsOK /\ BrokenPhotosWereBeingDeleted

\* What a request is doing tells which kind of work it has.
LEMMA KindOfWork ==
    ASSUME NEW work \in Work
    PROVE  /\ work.op = "style" => work \in StyleWork
           /\ work.op = "list" => work \in ListWork
           /\ work.op = "upload" => work \in UploadWork
           /\ work.op = "delete" => work \in DeleteWork
           /\ work = Idle <=> work.op = "idle"
  BY DEF Work, StyleWork, ListWork, UploadWork, DeleteWork, Idle

\* With the codes 1 to n given, the next one is n + 1.
LEMMA NextCodeIsNext ==
    ASSUME StylesOK, CodesOK
    PROVE  NextCode = Len(styles) + 1 /\ Len(styles) \in Nat
<1>1. Len(styles) \in Nat /\ DOMAIN styles = 1 .. Len(styles)
  BY LenProperties DEF StylesOK
<1>2. Codes = 1 .. Len(styles)
  BY <1>1 DEF Codes, CodesOK
<1>3. ASSUME NEW n \in Len(styles) + 1 .. 2 * Len(styles) + 1
      PROVE  (n \notin Codes /\ \A m \in Len(styles) + 1 .. n - 1 : m \in Codes)
             <=> n = Len(styles) + 1
  <2>1. n # Len(styles) + 1 => Len(styles) + 1 \in Len(styles) + 1 .. n - 1
    BY <1>1
  <2> QED
    BY <1>1, <1>2, <2>1
<1>4. Len(styles) + 1 \in Len(styles) + 1 .. 2 * Len(styles) + 1
  BY <1>1
<1> QED
  BY <1>1, <1>3, <1>4 DEF NextCode

\* Only sessions change: the work of one of them.
LEMMA PhotosStay ==
    ASSUME IInv, NEW s \in Sessions, NEW work, work.op # "upload",
           tx' = [tx EXCEPT ![s] = work], UNCHANGED <<images, files, doomed>>
    PROVE  RowsOK' /\ BrokenPhotosWereBeingDeleted'
<1>1. Live' = Live
  BY DEF Live
<1>2. tx'[s] = work /\ \A t \in Sessions \ {s} : tx'[t] = tx[t]
  BY DEF IInv, TxOK
<1>3. RowsOK'
  BY <1>1, <1>2 DEF IInv, RowsOK
<1> QED
  BY <1>1, <1>3 DEF IInv, BrokenPhotosWereBeingDeleted

\* The work of one session changes, and it is not an upload.
LEMMA WorkKeeps ==
    ASSUME IInv, NEW s \in Sessions, NEW work \in Work, work.op # "upload",
           work.op \in {"list", "delete"} => work.style \in DOMAIN styles,
           work.op = "style" =>
               /\ work.style.code \in 1 .. Len(styles) + 1
               /\ work.style.fresh => work.style.listed = "no"
               /\ work.style.code = Len(styles) + 1 /\ work.style.made = "wizard" =>
                      FreshDrafts = {},
           tx' = [tx EXCEPT ![s] = work], BoundsOK',
           UNCHANGED <<styles, images, files, doomed>>
    PROVE  IInv'
<1>1. tx'[s] = work /\ \A t \in Sessions \ {s} : tx'[t] = tx[t]
  BY DEF IInv, TxOK
<1>2. TxOK'
  BY <1>1 DEF IInv, TxOK
<1>3. PendingOK'
  BY <1>1 DEF IInv, PendingOK, FreshDrafts
<1>4. RowsOK' /\ BrokenPhotosWereBeingDeleted'
  BY PhotosStay
<1>5. (StylesOK /\ ImagesOK /\ CodesOK /\ OneDraft)'
  BY DEF IInv, StylesOK, ImagesOK, CodesOK, OneDraft
<1> QED
  BY <1>2, <1>3, <1>4, <1>5 DEF IInv

\* A dress is about to be stored with the next code.
LEMMA NewStyleWork ==
    ASSUME IInv, Len(styles) < MaxStyles,
           NEW made \in {"wizard", "dashboard"}, NEW listed \in Listings
    PROVE  LET work == NewStyle(made, listed) IN
           /\ work \in Work /\ work.op = "style"
           /\ work.style.code = Len(styles) + 1 /\ Len(styles) \in Nat
           /\ work.style.made = made
           /\ work.style.fresh => work.style.listed = "no"
<1>1. NextCode = Len(styles) + 1 /\ Len(styles) \in Nat
  BY NextCodeIsNext DEF IInv
<1>2. NextCode \in 1 .. MaxStyles
  BY <1>1
<1> QED
  BY <1>1, <1>2 DEF NewStyle, Work, StyleWork, Style

\* Asking for the draft page begins a draft only where there is none.
LEMMA OpenDraftKeeps ==
    ASSUME IInv, NEW s \in Sessions, OpenDraft(s) PROVE IInv'
<1> DEFINE work == NewStyle("wizard", "no")
<1>1. FreshDrafts = {}
  BY DEF OpenDraft, IInv, CodesOK, FreshDrafts, Unlisted
<1>2. /\ work \in Work /\ work.op = "style"
      /\ work.style.code = Len(styles) + 1 /\ Len(styles) \in Nat
      /\ work.style.fresh => work.style.listed = "no"
  BY NewStyleWork DEF OpenDraft, Listings
<1>3. tx' = [tx EXCEPT ![s] = work] /\ UNCHANGED <<styles, images, files, doomed, deaths>>
  BY DEF OpenDraft, Begin
<1>4. BoundsOK'
  BY DEF OpenDraft, Begin, IInv, BoundsOK
<1>5. work.style.code \in 1 .. Len(styles) + 1
  BY <1>2
<1> HIDE DEF work
<1> QED
  BY <1>1, <1>2, <1>3, <1>4, <1>5, WorkKeeps

\* The dashboard's form begins a dress of its own.
LEMMA CreateStyleKeeps ==
    ASSUME IInv, NEW s \in Sessions, NEW listed \in Listings, CreateStyle(s, listed)
    PROVE  IInv'
<1> DEFINE work == NewStyle("dashboard", listed)
<1>1. /\ work \in Work /\ work.op = "style"
      /\ work.style.code = Len(styles) + 1 /\ Len(styles) \in Nat
      /\ work.style.made = "dashboard"
      /\ work.style.fresh => work.style.listed = "no"
  BY NewStyleWork DEF CreateStyle
<1>2. tx' = [tx EXCEPT ![s] = work] /\ UNCHANGED <<styles, images, files, doomed, deaths>>
  BY DEF CreateStyle, Begin
<1>3. BoundsOK'
  BY DEF CreateStyle, Begin, IInv, BoundsOK
<1>4. work.style.code \in 1 .. Len(styles) + 1
  BY <1>1
<1> HIDE DEF work
<1> QED
  BY <1>1, <1>2, <1>3, <1>4, WorkKeeps

\* Publishing and editing begin with what they found.
LEMMA BeginListingKeeps ==
    ASSUME IInv, NEW s \in Sessions, NEW st, Publish(s, st) \/ UpdateStyle(s, st)
    PROVE  IInv'
<1>1. DOMAIN styles \subseteq Nat /\ st \in DOMAIN styles
  BY LenProperties DEF IInv, StylesOK, Publish, UpdateStyle, Unlisted
<1>2. PICK listed \in Listings :
          /\ tx' = [tx EXCEPT ![s] = [op |-> "list", style |-> st, listed |-> listed]]
          /\ overlapped' \in BOOLEAN
  BY DEF Publish, UpdateStyle, Begin, Listings
<1> DEFINE work == [op |-> "list", style |-> st, listed |-> listed]
<1>3. work \in Work /\ work.op = "list" /\ work.style = st
  BY <1>1 DEF Work, ListWork
<1>4. BoundsOK' /\ UNCHANGED <<styles, images, files, doomed>>
  BY <1>2 DEF Publish, UpdateStyle, IInv, BoundsOK
<1>5. tx' = [tx EXCEPT ![s] = work]
  BY <1>2
<1> HIDE DEF work
<1> QED
  BY <1>1, <1>3, <1>4, <1>5, WorkKeeps

\* A request that ends without a trace.
LEMMA EndKeeps ==
    ASSUME IInv, NEW s \in Sessions, End(s), BoundsOK',
           UNCHANGED <<styles, images, files, doomed>>
    PROVE  IInv'
<1>1. Idle \in Work /\ Idle.op = "idle"
  BY DEF Work, Idle
<1> QED
  BY <1>1, WorkKeeps DEF End

\* The deletion of the row, before its commit.
LEMMA DeleteRowKeeps ==
    ASSUME IInv, NEW s \in Sessions, DeleteRow(s) PROVE IInv'
<1>1. tx[s] \in DeleteWork /\ tx[s].style \in DOMAIN styles
  BY KindOfWork DEF IInv, TxOK, DeleteRow
<1>2. PICK rank \in Ranks(PhotosOf(tx[s].style) \ {tx[s].image}) :
          tx' = [tx EXCEPT ![s].gone = TRUE, ![s].moves = [i \in Moved(rank) |-> rank[i]]]
  BY DEF DeleteRow
<1> DEFINE rest == PhotosOf(tx[s].style) \ {tx[s].image}
           moves == [i \in Moved(rank) |-> rank[i]]
           work == [tx[s] EXCEPT !.gone = TRUE, !.moves = moves]
<1>3. rest \subseteq Images /\ Cardinality(rest) \in Nat
  BY FS_Subset, FS_CardinalityType DEF PhotosOf, Live
<1>4. rank \in [rest -> 0 .. Cardinality(rest) - 1]
  BY <1>2 DEF Ranks
<1>5. moves \in [Moved(rank) -> Nat] /\ Moved(rank) \in SUBSET Images
  BY <1>3, <1>4 DEF Moved
<1>6. moves \in UNION {[S -> Nat] : S \in SUBSET Images}
  BY <1>5
<1> HIDE DEF moves
<1>7. work \in DeleteWork /\ work.op = "delete" /\ work.style = tx[s].style
  BY <1>1, <1>6 DEF DeleteWork
<1>8. tx' = [tx EXCEPT ![s] = work]
  BY <1>2 DEF moves
<1>9. BoundsOK' /\ UNCHANGED <<styles, images, files, doomed>>
  BY DEF DeleteRow, IInv, BoundsOK
<1>10. work \in Work
  BY <1>7 DEF Work
<1> HIDE DEF work
<1> QED
  BY <1>1, <1>7, <1>8, <1>9, <1>10, WorkKeeps

\* A dress is stored with the number that follows, or not at all; a draft that
\* is stored has none beside it.
LEMMA StoreStyleKeeps ==
    ASSUME IInv, NEW s \in Sessions, StoreStyle(s) PROVE IInv'
<1> DEFINE new == tx[s].style
           n == Len(styles)
<1>1. /\ tx[s] \in StyleWork /\ tx[s].op = "style" /\ new \in Style
      /\ n \in Nat /\ DOMAIN styles = 1 .. n
  BY KindOfWork, LenProperties DEF IInv, TxOK, StylesOK, StoreStyle, StyleWork
<1>2. CASE ~CodeIsFree(new.code)
  <2>1. styles' = styles /\ End(s) /\ UNCHANGED <<images, files, doomed>> /\ BoundsOK'
    BY <1>2 DEF StoreStyle, IInv, BoundsOK
  <2> QED
    BY <2>1, EndKeeps
<1>3. CASE CodeIsFree(new.code)
  <2>1. new.code = n + 1
    <3>1. Codes = 1 .. n
      BY <1>1 DEF IInv, CodesOK, Codes
    <3>2. new.code \in 1 .. n + 1
      BY <1>1 DEF IInv, PendingOK
    <3> QED
      BY <1>1, <1>3, <3>1, <3>2 DEF CodeIsFree
  <2>2. /\ styles' = Append(styles, new)
        /\ tx' = [tx EXCEPT ![s] = Idle] /\ UNCHANGED <<images, files, doomed, overlapped, deaths>>
    BY <1>3 DEF StoreStyle, End
  <2>3. /\ styles' \in Seq(Style) /\ Len(styles') = n + 1 /\ DOMAIN styles' = 1 .. n + 1
        /\ styles'[n + 1] = new /\ \A m \in 1 .. n : styles'[m] = styles[m]
    BY <1>1, <2>2 DEF IInv, StylesOK
  <2>4. StylesOK'
    BY <1>1, <2>1, <2>3 DEF StylesOK, Style
  <2>5. ImagesOK'
    BY <1>1, <2>2, <2>3 DEF IInv, ImagesOK
  <2>6. tx'[s] = Idle /\ Idle.op = "idle" /\ Idle \in Work
        /\ \A t \in Sessions \ {s} : tx'[t] = tx[t]
    BY <2>2 DEF IInv, TxOK, Idle, Work
  <2>7. TxOK'
    BY <1>1, <2>2, <2>3, <2>6 DEF IInv, TxOK
  <2>8. CodesOK'
    <3>1. ASSUME NEW m \in 1 .. n + 1
          PROVE  styles'[m].code = m /\ (styles'[m].fresh => styles'[m].listed = "no")
      <4>1. CASE m = n + 1
        BY <1>1, <2>1, <2>3, <4>1 DEF IInv, PendingOK
      <4>2. CASE m # n + 1
        BY <1>1, <2>3, <3>1, <4>2 DEF IInv, CodesOK
      <4> QED
        BY <4>1, <4>2
    <3> QED
      BY <2>3, <3>1 DEF CodesOK
  <2>9. new.made = "wizard" => FreshDrafts = {}
    BY <1>1, <2>1 DEF IInv, PendingOK
  <2>10. OneDraft'
    BY <1>1, <2>3, <2>9 DEF IInv, OneDraft, FreshDrafts
  <2>11. PendingOK'
    <3>1. ASSUME NEW t \in Sessions \ {s}, tx[t].op = "style"
          PROVE  /\ tx[t].style.code \in 1 .. n + 1
                 /\ tx[t].style.fresh => tx[t].style.listed = "no"
      BY <3>1 DEF IInv, PendingOK
    <3> QED
      BY <1>1, <2>3, <2>6, <3>1 DEF PendingOK
  <2>12. RowsOK' /\ BrokenPhotosWereBeingDeleted'
    BY <2>2, <2>6, PhotosStay
  <2> QED
    BY <2>2, <2>4, <2>5, <2>7, <2>8, <2>10, <2>11, <2>12 DEF IInv, BoundsOK
<1> QED
  BY <1>2, <1>3

\* A listing is written: the dress is no draft any more.
LEMMA StoreListingKeeps ==
    ASSUME IInv, NEW s \in Sessions, StoreListing(s) PROVE IInv'
<1> DEFINE st == tx[s].style
           new == [styles[st] EXCEPT !.listed = tx[s].listed, !.fresh = FALSE]
<1>1. /\ tx[s] \in ListWork /\ st \in DOMAIN styles
      /\ DOMAIN styles = 1 .. Len(styles) /\ Len(styles) \in Nat
  BY KindOfWork, LenProperties DEF IInv, TxOK, StylesOK, StoreListing
<1>2. styles[st] \in Style
  BY <1>1, ElementOfSeq DEF IInv, StylesOK
<1>3. /\ new \in Style /\ new.fresh = FALSE
      /\ new.code = styles[st].code /\ new.made = styles[st].made
  BY <1>1, <1>2 DEF Style, ListWork
<1>4. styles' = [styles EXCEPT ![st] = new]
  BY DEF StoreListing
<1> HIDE DEF new
<1>5. /\ styles' \in Seq(Style) /\ Len(styles') = Len(styles) /\ DOMAIN styles' = DOMAIN styles
      /\ \A m \in DOMAIN styles : styles'[m] = IF m = st THEN new ELSE styles[m]
  BY <1>1, <1>3, <1>4, ExceptSeq DEF IInv, StylesOK
<1>6. /\ tx' = [tx EXCEPT ![s] = Idle] /\ UNCHANGED <<images, files, doomed, overlapped, deaths>>
      /\ Idle.op = "idle" /\ Idle \in Work
  BY DEF StoreListing, End, Idle, Work
<1>7. tx'[s] = Idle /\ \A t \in Sessions \ {s} : tx'[t] = tx[t]
  BY <1>6 DEF IInv, TxOK
<1>8. StylesOK' /\ ImagesOK' /\ TxOK' /\ BoundsOK'
  BY <1>5, <1>6, <1>7 DEF IInv, StylesOK, ImagesOK, TxOK, BoundsOK
<1>9. CodesOK' /\ FreshDrafts' \subseteq FreshDrafts
  BY <1>3, <1>5 DEF IInv, CodesOK, FreshDrafts
<1>10. OneDraft'
  BY <1>3, <1>5 DEF IInv, OneDraft
<1>11. PendingOK'
  BY <1>5, <1>6, <1>7, <1>9 DEF IInv, PendingOK
<1>12. RowsOK' /\ BrokenPhotosWereBeingDeleted'
  BY <1>6, PhotosStay
<1> QED
  BY <1>8, <1>9, <1>10, <1>11, <1>12 DEF IInv

\* The dresses and what is pending of them do not depend on the photos.
LEMMA DressesStay ==
    ASSUME IInv, NEW s \in Sessions, NEW work, work.op # "style",
           tx' = [tx EXCEPT ![s] = work], UNCHANGED styles
    PROVE  (StylesOK /\ CodesOK /\ PendingOK /\ OneDraft)'
<1>1. tx'[s] = work /\ \A t \in Sessions \ {s} : tx'[t] = tx[t]
  BY DEF IInv, TxOK
<1> QED
  BY <1>1 DEF IInv, StylesOK, CodesOK, PendingOK, OneDraft, FreshDrafts

\* Work of the known kinds on a dress that exists.
LEMMA TxStays ==
    ASSUME IInv, NEW s \in Sessions, NEW work \in Work,
           work.op \in {"list", "upload", "delete"} => work.style \in DOMAIN styles,
           tx' = [tx EXCEPT ![s] = work], UNCHANGED styles
    PROVE  TxOK'
  BY DEF IInv, TxOK

\* The photos of a dress can be counted.
LEMMA PhotosAreCounted ==
    ASSUME NEW st PROVE Cardinality(PhotosOf(st)) \in Nat
<1>1. PhotosOf(st) \subseteq Images
  BY DEF PhotosOf, Live
<1> QED
  BY <1>1, FS_Subset, FS_CardinalityType

\* A request whose rows are its own and have their files.
LEMMA UploadWorkKeeps ==
    ASSUME IInv, NEW s \in Sessions, NEW work \in UploadWork, NEW i \in Unused,
           work.style \in DOMAIN styles, IsFiniteSet(work.rows),
           \A row \in work.rows :
               row[1] = i \/ (tx[s].op = "upload" /\ row \in tx[s].rows),
           files' = files \cup {i}, tx' = [tx EXCEPT ![s] = work], BoundsOK',
           UNCHANGED <<styles, images, doomed>>
    PROVE  IInv'
<1>1. work \in Work /\ work.op = "upload"
  BY DEF Work, UploadWork
<1>2. TxOK' /\ (StylesOK /\ CodesOK /\ PendingOK /\ OneDraft)'
  BY <1>1, TxStays, DressesStay
<1>3. /\ i \in Images /\ i \notin Live
      /\ \A t \in Sessions : tx[t].op = "upload" => \A row \in tx[t].rows : row[1] # i
  <2>1. i \in Images /\ i \notin Live /\ i \notin InFlight
    BY DEF Unused
  <2>2. ASSUME NEW t \in Sessions, tx[t].op = "upload", NEW row \in tx[t].rows
        PROVE  row[1] \in InFlight
    <3>1. row \in Rows(t)
      BY <2>2 DEF Rows
    <3>2. row \in UNION {Rows(u) : u \in Sessions}
      BY <3>1
    <3> QED
      BY <3>2 DEF InFlight
  <2> QED
    BY <2>1, <2>2
<1>4. ImagesOK'
  BY <1>3 DEF IInv, ImagesOK
<1>5. Live' = Live
  BY DEF Live
<1>6. tx'[s] = work /\ \A t \in Sessions \ {s} : tx'[t] = tx[t]
  BY DEF IInv, TxOK
<1>7. RowsOK'
  <2>1. ASSUME NEW t \in Sessions, tx'[t].op = "upload", NEW row \in tx'[t].rows
        PROVE  row[1] \in files' \ Live'
    BY <1>3, <1>5, <1>6, <2>1 DEF IInv, RowsOK
  <2>2. ASSUME NEW t \in Sessions, NEW u \in Sessions \ {t},
               tx'[t].op = "upload", NEW row \in tx'[t].rows,
               tx'[u].op = "upload", NEW other \in tx'[u].rows
        PROVE  other[1] # row[1]
    <3>1. CASE t = s
      BY <1>3, <1>6, <2>2, <3>1 DEF IInv, RowsOK
    <3>2. CASE u = s
      BY <1>3, <1>6, <2>2, <3>2 DEF IInv, RowsOK
    <3>3. CASE t # s /\ u # s
      BY <1>6, <2>2, <3>3 DEF IInv, RowsOK
    <3> QED
      BY <3>1, <3>2, <3>3
  <2>3. \A t \in Sessions : tx'[t].op = "upload" => IsFiniteSet(tx'[t].rows)
    BY <1>6 DEF IInv, RowsOK
  <2> QED
    BY <2>1, <2>2, <2>3 DEF RowsOK
<1>8. BrokenPhotosWereBeingDeleted'
  BY <1>5 DEF IInv, BrokenPhotosWereBeingDeleted
<1> QED
  BY <1>2, <1>4, <1>7, <1>8 DEF IInv

\* The first photo of a request.
LEMMA UploadKeeps ==
    ASSUME IInv, NEW s \in Sessions, NEW st \in DOMAIN styles, NEW many \in BOOLEAN,
           NEW i \in Images, Upload(s, st, many, i)
    PROVE  IInv'
<1> DEFINE work == [op |-> "upload", style |-> st, many |-> many,
                    rows |-> {<<i, Cardinality(PhotosOf(st))>>}]
<1>1. DOMAIN styles \subseteq Nat /\ Cardinality(PhotosOf(st)) \in Nat
  BY LenProperties, PhotosAreCounted DEF IInv, StylesOK
<1>2. /\ work \in UploadWork /\ work.style = st /\ \A row \in work.rows : row[1] = i
      /\ IsFiniteSet(work.rows)
  <2> DEFINE position == Cardinality(PhotosOf(st))
             rows == {<<i, position>>}
  <2>1. position \in Nat /\ IsFiniteSet(rows)
    BY <1>1, FS_Singleton
  <2> HIDE DEF position
  <2>2. rows \in SUBSET (Images \X Nat) /\ \A row \in rows : row[1] = i
    BY <2>1
  <2>3. work.style = st /\ work.rows = rows
    BY DEF position
  <2>4. work \in UploadWork
    <3>1. work = [op |-> "upload", style |-> st, many |-> many, rows |-> rows]
      BY DEF position
    <3> HIDE DEF rows
    <3> QED
      BY <1>1, <2>2, <3>1 DEF UploadWork
  <2> QED
    BY <2>1, <2>2, <2>3, <2>4
<1>3. /\ i \in Unused /\ files' = files \cup {i}
      /\ tx' = [tx EXCEPT ![s] = work] /\ UNCHANGED <<styles, images, doomed>>
  BY DEF Upload, SaveImage, Put, Begin
<1>4. BoundsOK'
  BY DEF Upload, Begin, IInv, BoundsOK
<1> HIDE DEF work
<1> QED
  BY <1>2, <1>3, <1>4, UploadWorkKeeps

\* One more photo of the same request.
LEMMA UploadAnotherKeeps ==
    ASSUME IInv, NEW s \in Sessions, NEW i \in Images, UploadAnother(s, i)
    PROVE  IInv'
<1> DEFINE rows == tx[s].rows
           position == Cardinality(PhotosOf(tx[s].style)) + Cardinality(rows)
           work == [tx[s] EXCEPT !.rows = rows \cup {<<i, position>>}]
<1>1. tx[s] \in UploadWork /\ tx[s].op = "upload" /\ tx[s].style \in DOMAIN styles
  BY KindOfWork DEF IInv, TxOK, UploadAnother
<1>2. /\ i \in Unused /\ files' = files \cup {i} /\ position < MaxPhotos
      /\ tx' = [tx EXCEPT ![s] = work] /\ UNCHANGED <<styles, images, doomed>>
  BY DEF UploadAnother, SaveImage, Put, MayAdd
<1>3. /\ IsFiniteSet(rows) /\ IsFiniteSet(rows \cup {<<i, position>>})
      /\ position \in Nat
  <2>1. IsFiniteSet(rows)
    BY <1>1 DEF IInv, RowsOK
  <2>2. Cardinality(rows) \in Nat /\ Cardinality(PhotosOf(tx[s].style)) \in Nat
    BY <2>1, FS_CardinalityType, PhotosAreCounted
  <2>3. IsFiniteSet(rows \cup {<<i, position>>})
    BY <2>1, FS_AddElement
  <2>4. position \in Nat
    <3> HIDE DEF rows
    <3> QED
      BY <2>2
  <2> QED
    BY <2>1, <2>3, <2>4
<1>4. /\ IsFiniteSet(work.rows) /\ work \in UploadWork /\ work.style = tx[s].style
      /\ \A row \in work.rows : row[1] = i \/ row \in rows
  <2>1. work.rows = rows \cup {<<i, position>>} /\ rows \in SUBSET (Images \X Nat)
    BY <1>1 DEF UploadWork
  <2>2. work \in UploadWork /\ work.style = tx[s].style
    BY <1>1, <1>3, <2>1 DEF UploadWork
  <2> QED
    BY <1>3, <2>1, <2>2
<1>5. BoundsOK'
  BY DEF UploadAnother, IInv, BoundsOK
<1> HIDE DEF work
<1> QED
  BY <1>1, <1>2, <1>4, <1>5, UploadWorkKeeps

\* The rows of an upload are committed: their files are there.
LEMMA StoreImagesKeeps ==
    ASSUME IInv, NEW s \in Sessions, StoreImages(s) PROVE IInv'
<1> DEFINE st == tx[s].style
           rows == tx[s].rows
           Chosen(i) == CHOOSE row \in rows : row[1] = i
<1>1. /\ tx[s] \in UploadWork /\ tx[s].op = "upload" /\ st \in DOMAIN styles
      /\ rows \in SUBSET (Images \X Nat)
      /\ DOMAIN styles = 1 .. Len(styles) /\ Len(styles) \in Nat
  BY KindOfWork, LenProperties DEF IInv, TxOK, StylesOK, StoreImages, UploadWork
<1>2. /\ tx' = [tx EXCEPT ![s] = Idle] /\ UNCHANGED <<styles, files, doomed, overlapped, deaths>>
      /\ Idle \in Work /\ Idle.op = "idle"
  BY DEF StoreImages, End, Idle, Work
<1>3. tx'[s] = Idle /\ \A t \in Sessions \ {s} : tx'[t] = tx[t]
  BY <1>2 DEF IInv, TxOK
<1>4. /\ DOMAIN images' = Images
      /\ \A i \in Images :
            images'[i] = IF \E row \in rows : row[1] = i
                         THEN [style |-> st, position |-> Chosen(i)[2]] ELSE images[i]
  BY DEF StoreImages
<1>5. ASSUME NEW i \in Images, \E row \in rows : row[1] = i
      PROVE  Chosen(i) \in rows /\ Chosen(i)[2] \in Nat
  <2>1. Chosen(i) \in rows
    BY <1>5
  <2> HIDE DEF Chosen
  <2> QED
    BY <1>1, <2>1
<1> HIDE DEF Chosen
<1>6. ASSUME NEW i \in Images
      PROVE  images'[i] \in [style : 0 .. Len(styles), position : Nat]
  <2>1. CASE \E row \in rows : row[1] = i
    BY <1>1, <1>4, <1>5, <2>1
  <2>2. CASE ~\E row \in rows : row[1] = i
    BY <1>4, <2>2 DEF IInv, ImagesOK
  <2> QED
    BY <2>1, <2>2
<1>7. ImagesOK'
  <2>1. images' \in [Images -> [style : 0 .. Len(styles), position : Nat]]
    BY <1>4, <1>6 DEF StoreImages
  <2> QED
    BY <1>2, <2>1 DEF IInv, ImagesOK
<1>8. ASSUME NEW i \in Live' PROVE i \in Live \/ (i \in files /\ \E row \in rows : row[1] = i)
  <2>1. i \in Images /\ images'[i] # NoImage
    BY DEF Live
  <2>2. CASE \E row \in rows : row[1] = i
    BY <1>1, <2>2 DEF IInv, RowsOK
  <2>3. CASE ~\E row \in rows : row[1] = i
    BY <1>4, <2>1, <2>3 DEF Live
  <2> QED
    BY <2>2, <2>3
<1>9. BrokenPhotosWereBeingDeleted'
  BY <1>2, <1>8 DEF IInv, BrokenPhotosWereBeingDeleted
<1>10. RowsOK'
  <2>1. ASSUME NEW t \in Sessions, tx'[t].op = "upload", NEW row \in tx'[t].rows
        PROVE  row[1] \in files' \ Live'
    <3>1. t # s /\ tx'[t] = tx[t]
      BY <1>2, <1>3, <2>1
    <3>2. row[1] \in files \ Live /\ \A other \in rows : other[1] # row[1]
      BY <1>1, <2>1, <3>1 DEF IInv, RowsOK
    <3> QED
      BY <1>2, <1>8, <3>2
  <2>2. ASSUME NEW t \in Sessions, tx'[t].op = "upload"
        PROVE  /\ t # s /\ tx'[t] = tx[t] /\ IsFiniteSet(tx'[t].rows)
    BY <1>2, <1>3, <2>2 DEF IInv, RowsOK
  <2> QED
    BY <2>1, <2>2 DEF IInv, RowsOK
<1>11. TxOK' /\ (StylesOK /\ CodesOK /\ PendingOK /\ OneDraft)'
  BY <1>2, TxStays, DressesStay
<1> QED
  BY <1>2, <1>7, <1>9, <1>10, <1>11 DEF IInv, BoundsOK

\* A deletion begins with the files: the photo is doomed from then on.
LEMMA StartDeleteKeeps ==
    ASSUME IInv, NEW s \in Sessions, NEW i \in Images, StartDelete(s, i) PROVE IInv'
<1> DEFINE st == images[i].style
           work == [op |-> "delete", style |-> st, image |-> i, gone |-> FALSE, moves |-> <<>>]
<1>1. DOMAIN styles \subseteq Nat /\ st \in DOMAIN styles /\ i \in Live
  BY LenProperties DEF IInv, StylesOK, StartDelete, Unlisted
<1>2. /\ tx' = [tx EXCEPT ![s] = work] /\ files' = files \ {i} /\ doomed' = doomed \cup {i}
      /\ overlapped' \in BOOLEAN /\ UNCHANGED <<styles, images, deaths>>
  BY DEF StartDelete, Begin
<1>3. work \in Work /\ work.op = "delete" /\ work.style = st
  <2>1. <<>> \in [{} -> Nat]
    OBVIOUS
  <2>2. <<>> \in UNION {[S -> Nat] : S \in SUBSET Images}
    BY <2>1
  <2> QED
    BY <1>1, <2>2 DEF Work, DeleteWork
<1> HIDE DEF work
<1>4. tx'[s] = work /\ \A t \in Sessions \ {s} : tx'[t] = tx[t]
  BY <1>2 DEF IInv, TxOK
<1>5. TxOK' /\ (StylesOK /\ CodesOK /\ PendingOK /\ OneDraft)'
  BY <1>1, <1>2, <1>3, TxStays, DressesStay
<1>6. Live' = Live /\ ImagesOK' /\ BoundsOK'
  BY <1>2 DEF Live, IInv, ImagesOK, BoundsOK
<1>7. RowsOK'
  BY <1>1, <1>2, <1>3, <1>4, <1>6 DEF IInv, RowsOK
<1>8. BrokenPhotosWereBeingDeleted'
  BY <1>2, <1>6 DEF IInv, BrokenPhotosWereBeingDeleted
<1> QED
  BY <1>5, <1>6, <1>7, <1>8 DEF IInv

\* A deletion that commits takes the row with it; one that fails leaves the
\* photo doomed.
LEMMA FinishDeleteKeeps ==
    ASSUME IInv, NEW s \in Sessions, FinishDelete(s) PROVE IInv'
<1> DEFINE gone == tx[s].image
           moves == tx[s].moves
<1>1. CASE ~(DOMAIN moves \subseteq Live)
  <2>1. End(s) /\ BoundsOK' /\ UNCHANGED <<styles, images, files, doomed>>
    BY <1>1 DEF FinishDelete, IInv, BoundsOK
  <2> QED
    BY <2>1, EndKeeps
<1>2. CASE DOMAIN moves \subseteq Live
  <2>1. /\ tx[s] \in DeleteWork /\ gone \in Images
        /\ \A i \in DOMAIN moves : moves[i] \in Nat
    <3>1. tx[s] \in DeleteWork
      BY KindOfWork DEF IInv, TxOK, FinishDelete
    <3>2. gone \in Images /\ \E S \in SUBSET Images : moves \in [S -> Nat]
      BY <3>1 DEF DeleteWork
    <3> QED
      BY <3>1, <3>2
  <2>2. /\ tx' = [tx EXCEPT ![s] = Idle] /\ doomed' = doomed \ {gone}
        /\ UNCHANGED <<styles, files, overlapped, deaths>>
        /\ Idle \in Work /\ Idle.op = "idle"
    BY <1>2 DEF FinishDelete, End, Idle, Work
  <2>3. /\ DOMAIN images' = Images
        /\ \A i \in Images :
              images'[i] = IF i = gone THEN NoImage
                           ELSE IF i \in DOMAIN moves
                               THEN [images[i] EXCEPT !.position = moves[i]] ELSE images[i]
    BY <1>2 DEF FinishDelete
  <2>4. ASSUME NEW i \in Images
        PROVE  images'[i] \in [style : 0 .. Len(styles), position : Nat]
    <3>1. /\ images[i] \in [style : 0 .. Len(styles), position : Nat]
          /\ NoImage \in [style : 0 .. Len(styles), position : Nat]
      BY LenProperties DEF IInv, ImagesOK, StylesOK, NoImage
    <3> QED
      BY <2>1, <2>3, <3>1
  <2>5. ImagesOK'
    <3>1. images' \in [Images -> [style : 0 .. Len(styles), position : Nat]]
      BY <1>2, <2>4 DEF FinishDelete
    <3> QED
      BY <2>2, <3>1 DEF IInv, ImagesOK
  <2>6. Live' \subseteq Live \ {gone}
    BY <1>2, <2>3 DEF Live
  <2>7. tx'[s] = Idle /\ \A t \in Sessions \ {s} : tx'[t] = tx[t]
    BY <2>2 DEF IInv, TxOK
  <2>8. RowsOK'
    BY <2>2, <2>6, <2>7 DEF IInv, RowsOK
  <2>9. BrokenPhotosWereBeingDeleted'
    BY <2>2, <2>6 DEF IInv, BrokenPhotosWereBeingDeleted
  <2>10. TxOK' /\ (StylesOK /\ CodesOK /\ PendingOK /\ OneDraft)'
    BY <2>2, TxStays, DressesStay
  <2> QED
    BY <2>2, <2>5, <2>8, <2>9, <2>10 DEF IInv, BoundsOK
<1> QED
  BY <1>1, <1>2
-----------------------------------------------------------------------------
\* The invariant is inductive.
LEMMA NextKeeps == ASSUME IInv, [Next]_vars PROVE IInv'
<1>1. CASE UNCHANGED vars
  <2>1. UNCHANGED <<styles, images, files, tx, doomed, overlapped, deaths>>
    BY <1>1 DEF vars
  <2>2. Live' = Live
    BY <2>1 DEF Live
  <2>3. (StylesOK /\ ImagesOK /\ TxOK /\ BoundsOK)'
    BY <2>1 DEF IInv, StylesOK, ImagesOK, TxOK, BoundsOK
  <2>4. (CodesOK /\ PendingOK /\ OneDraft)'
    BY <2>1 DEF IInv, CodesOK, PendingOK, OneDraft, FreshDrafts
  <2>5. (RowsOK /\ BrokenPhotosWereBeingDeleted)'
    BY <2>1, <2>2 DEF IInv, RowsOK, BrokenPhotosWereBeingDeleted
  <2> QED
    BY <2>3, <2>4, <2>5 DEF IInv
<1>2. ASSUME NEW s \in Sessions, Dresses(s) PROVE IInv'
  <2>1. CASE OpenDraft(s)
    BY <2>1, OpenDraftKeeps
  <2>2. ASSUME NEW listed \in Listings, CreateStyle(s, listed) PROVE IInv'
    BY <2>2, CreateStyleKeeps
  <2>3. CASE StoreStyle(s)
    BY <2>3, StoreStyleKeeps
  <2>4. ASSUME NEW st \in DOMAIN styles, Publish(s, st) \/ UpdateStyle(s, st) PROVE IInv'
    BY <2>4, BeginListingKeeps
  <2>5. CASE StoreListing(s)
    BY <2>5, StoreListingKeeps
  <2> QED
    BY <1>2, <2>1, <2>2, <2>3, <2>4, <2>5 DEF Dresses
<1>3. ASSUME NEW s \in Sessions, Photos(s) PROVE IInv'
  <2>1. ASSUME NEW st \in DOMAIN styles, NEW many \in BOOLEAN, NEW i \in Images,
               Upload(s, st, many, i)
        PROVE  IInv'
    BY <2>1, UploadKeeps
  <2>2. ASSUME NEW i \in Images, UploadAnother(s, i) PROVE IInv'
    BY <2>2, UploadAnotherKeeps
  <2>3. ASSUME NEW i \in Images, StartDelete(s, i) PROVE IInv'
    BY <2>3, StartDeleteKeeps
  <2>4. CASE StoreImages(s)
    BY <2>4, StoreImagesKeeps
  <2>5. CASE DeleteRow(s)
    BY <2>5, DeleteRowKeeps
  <2>6. CASE FinishDelete(s)
    BY <2>6, FinishDeleteKeeps
  <2>7. CASE LoseDeadlock(s)
    <3>1. End(s) /\ BoundsOK' /\ UNCHANGED <<styles, images, files, doomed>>
      BY <2>7 DEF LoseDeadlock, IInv, BoundsOK
    <3> QED
      BY <3>1, EndKeeps
  <2> QED
    BY <1>3, <2>1, <2>2, <2>3, <2>4, <2>5, <2>6, <2>7 DEF Photos
<1>4. ASSUME NEW s \in Sessions, Die(s) PROVE IInv'
  <2>1. End(s) /\ UNCHANGED <<styles, images, files, doomed>>
    BY <1>4 DEF Die
  <2>2. BoundsOK'
    BY <1>4 DEF Die, IInv, BoundsOK
  <2> QED
    BY <2>1, <2>2, EndKeeps
<1> QED
  BY <1>1, <1>2, <1>3, <1>4 DEF Next

\* The empty shop satisfies the invariant.
LEMMA Initial == Init => IInv
<1> SUFFICES ASSUME Init PROVE IInv
  OBVIOUS
<1>1. styles = <<>> /\ <<>> \in Seq(Style) /\ Len(<<>>) = 0 /\ DOMAIN <<>> = {}
  BY EmptySeq DEF Init
<1>2. StylesOK /\ CodesOK /\ OneDraft
  BY <1>1 DEF StylesOK, CodesOK, OneDraft
<1>3. Live = {}
  BY DEF Init, Live
<1>4. ImagesOK
  BY <1>1 DEF Init, ImagesOK, NoImage
<1>5. \A s \in Sessions : tx[s] = Idle /\ tx[s].op = "idle"
  BY DEF Init, Idle
<1>6. TxOK /\ PendingOK /\ RowsOK
  BY <1>5 DEF Init, TxOK, PendingOK, RowsOK, Work
<1>7. BoundsOK /\ BrokenPhotosWereBeingDeleted
  <2>1. deaths \in 0 .. MaxDeaths
    BY DEF Init
  <2>2. overlapped \in BOOLEAN
    BY Zenon DEF Init
  <2>3. BrokenPhotosWereBeingDeleted
    BY <1>3 DEF BrokenPhotosWereBeingDeleted
  <2> QED
    BY <2>1, <2>2, <2>3 DEF BoundsOK
<1> QED
  BY <1>2, <1>4, <1>6, <1>7 DEF IInv

\* The invariant holds in every reachable state.
LEMMA Invariant == Spec => []IInv
<1>1. Init => IInv
  BY Initial
<1>2. IInv /\ [Next]_vars => IInv'
  BY NextKeeps
<1> QED
  BY <1>1, <1>2, PTL DEF Spec

(* The rows of dresses and photos keep their shape, and every request works on
   a dress that exists, for any number of requests, dresses and photos. *)
THEOREM TypeCorrect == Spec => []TypeOK
<1>1. IInv => TypeOK
  BY DEF IInv, StylesOK, ImagesOK, TxOK, BoundsOK, TypeOK
<1> QED
  BY <1>1, Invariant, PTL

(* However many openings of the wizard overlap (ensure_wizard_style), two drafts
   never stand side by side before one of them is listed. *)
THEOREM NeverTwoDrafts == Spec => []OneDraft
<1>1. IInv => OneDraft
  BY DEF IInv
<1> QED
  BY <1>1, Invariant, PTL

(* A row of a photo without files is left only by a deletion of that photo which
   has not come to its end (save_style_image, delete_style_image). *)
THEOREM OnlyDoomedPhotosAreBroken == Spec => []BrokenPhotosWereBeingDeleted
<1>1. IInv => BrokenPhotosWereBeingDeleted
  BY DEF IInv
<1> QED
  BY <1>1, Invariant, PTL
-----------------------------------------------------------------------------
(* Requests that do not overlap: the photos of every dress stay in order.    *)

Solo == \A s, t \in Sessions : tx[s] # Idle /\ tx[t] # Idle => s = t

Positions(st) == {images[i].position : i \in PhotosOf(st)}
InOrder(st) ==
    /\ Positions(st) = 0 .. Cardinality(PhotosOf(st)) - 1
    /\ Cardinality(PhotosOf(st)) <= MaxPhotos
    /\ styles[st].listed = "wizard" => Cardinality(PhotosOf(st)) >= MinPhotos

\* The rows of an upload continue the numbers of the photos that are there.
UploadInOrder(w) ==
    LET n == Cardinality(PhotosOf(w.style))
        k == Cardinality(w.rows) IN
    /\ \A r, q \in w.rows : r[1] = q[1] => r = q
    /\ {r[2] : r \in w.rows} = n .. n + k - 1
    /\ n + k <= MaxPhotos

\* A deletion works on a photo of an unlisted dress, and gives the others ranks.
DeleteInOrder(w) ==
    /\ w.style \in Unlisted /\ w.image \in PhotosOf(w.style)
    /\ w.gone => \E rank \in Ranks(PhotosOf(w.style) \ {w.image}) :
                     /\ DOMAIN w.moves = Moved(rank)
                     /\ \A i \in Moved(rank) : w.moves[i] = rank[i]

WorkInOrder(w) ==
    /\ w.op = "style" => w.style.listed # "wizard"
    /\ w.op = "list" /\ w.listed = "wizard" =>
           Cardinality(PhotosOf(w.style)) >= MinPhotos
    /\ w.op = "upload" => UploadInOrder(w)
    /\ w.op = "delete" => DeleteInOrder(w)

OrderInv ==
    ~overlapped =>
        /\ Solo
        /\ \A st \in DOMAIN styles : InOrder(st)
        /\ \A s \in Sessions : WorkInOrder(tx[s])

\* Whoever is in the middle of something alone may go on or begin.
LEMMA WorkStaysInOrder ==
    ASSUME IInv, OrderInv, NEW s \in Sessions, NEW work,
           tx' = [tx EXCEPT ![s] = work], UNCHANGED <<styles, images>>,
           ~overlapped' => /\ ~overlapped /\ WorkInOrder(work)
                           /\ \A t \in Sessions \ {s} : tx[t] = Idle
    PROVE  OrderInv'
<1> SUFFICES ASSUME ~overlapped'
             PROVE  /\ Solo'
                    /\ \A st \in DOMAIN styles' : InOrder(st)'
                    /\ \A t \in Sessions : WorkInOrder(tx[t])'
  BY DEF OrderInv
<1>1. tx'[s] = work /\ \A t \in Sessions \ {s} : tx'[t] = tx[t]
  BY DEF IInv, TxOK
<1>2. Solo'
  BY <1>1 DEF Solo
<1>3. \A st \in DOMAIN styles' : InOrder(st)'
  <2>1. ASSUME NEW st \in DOMAIN styles PROVE InOrder(st)'
    <3>1. PhotosOf(st)' = PhotosOf(st)
      BY DEF PhotosOf, Live
    <3>2. Positions(st)' = Positions(st)
      BY <3>1 DEF Positions
    <3>3. InOrder(st)
      BY DEF OrderInv
    <3> QED
      BY <3>1, <3>2, <3>3 DEF InOrder
  <2> QED
    BY <2>1
<1>4. \A t \in Sessions : WorkInOrder(tx'[t])
  BY <1>1 DEF OrderInv
<1>5. ASSUME NEW t \in Sessions PROVE WorkInOrder(tx[t])'
  <2>1. PhotosOf(tx[t].style)' = PhotosOf(tx'[t].style) /\ Unlisted' = Unlisted
    BY DEF PhotosOf, Live, Unlisted
  <2>2. \A rank : Moved(rank)' = Moved(rank)
    BY DEF Moved
  <2>3. ASSUME NEW rest PROVE Ranks(rest)' = Ranks(rest)
    BY DEF Ranks
  <2>4. WorkInOrder(tx'[t])
    BY <1>4
  <2>5. tx'[t].op = "upload" => UploadInOrder(tx[t])'
    BY <2>1, <2>4 DEF WorkInOrder, UploadInOrder
  <2>6. tx'[t].op = "delete" => DeleteInOrder(tx[t])'
    <3>1. Ranks(PhotosOf(tx[t].style) \ {tx[t].image})'
            = Ranks(PhotosOf(tx'[t].style) \ {tx'[t].image})
      <4>1. (PhotosOf(tx[t].style) \ {tx[t].image})' = PhotosOf(tx'[t].style) \ {tx'[t].image}
        BY <2>1
      <4> QED
        BY <4>1, ZenonT(60) DEF Ranks
    <3> QED
      BY <2>1, <2>2, <2>4, <3>1 DEF WorkInOrder, DeleteInOrder
  <2> QED
    BY <2>1, <2>4, <2>5, <2>6 DEF WorkInOrder
<1> QED
  BY <1>2, <1>3, <1>5

\* Whoever ends leaves nobody in the middle of anything.
LEMMA EndStaysInOrder ==
    ASSUME IInv, OrderInv, NEW s \in Sessions, tx[s] # Idle, End(s), overlapped' = overlapped,
           ~overlapped => \A st \in DOMAIN styles' : InOrder(st)'
    PROVE  OrderInv'
<1> SUFFICES ASSUME ~overlapped
             PROVE  /\ Solo'
                    /\ \A t \in Sessions : WorkInOrder(tx[t])'
  BY DEF OrderInv
<1>1. tx'[s] = Idle /\ \A t \in Sessions \ {s} : tx'[t] = tx[t]
  BY DEF IInv, TxOK, End
<1>2. \A t \in Sessions : tx'[t] = Idle
  BY <1>1 DEF OrderInv, Solo
<1>3. Idle.op = "idle"
  BY DEF Idle
<1> QED
  BY <1>2, <1>3 DEF Solo, WorkInOrder

\* What Begin does.
LEMMA BeginAlone ==
    ASSUME NEW s \in Sessions, NEW work, Begin(s, work)
    PROVE  /\ tx' = [tx EXCEPT ![s] = work]
           /\ ~overlapped' => ~overlapped /\ \A t \in Sessions \ {s} : tx[t] = Idle
  BY DEF Begin

\* The first photo of an upload gets the number after the last.
LEMMA FirstRow ==
    ASSUME NEW st, NEW i, NEW work, MayAdd(st, 0),
           work.op = "upload", work.style = st,
           work.rows = {<<i, Cardinality(PhotosOf(st))>>}
    PROVE  WorkInOrder(work)
<1> DEFINE n == Cardinality(PhotosOf(st))
<1>1. n \in Nat /\ n < MaxPhotos /\ Cardinality(work.rows) = 1
  <2>1. n \in Nat
    BY PhotosAreCounted
  <2>2. Cardinality(work.rows) = 1
    BY FS_Singleton
  <2>3. n + 0 < MaxPhotos
    BY DEF MayAdd
  <2> HIDE DEF n
  <2>4. n < MaxPhotos
    BY <2>1, <2>3
  <2> QED
    BY <2>1, <2>2, <2>4
<1>2. {r[2] : r \in work.rows} = {n}
  OBVIOUS
<1> HIDE DEF n
<1>3. {n} = n .. n + 1 - 1 /\ n + 1 <= MaxPhotos
  BY <1>1
<1>4. \A r, q \in work.rows : r[1] = q[1] => r = q
  OBVIOUS
<1>5. UploadInOrder(work)
  BY <1>1, <1>2, <1>3, <1>4 DEF UploadInOrder, n
<1> QED
  BY <1>5 DEF WorkInOrder

\* Each further one the number after that.
LEMMA NextRow ==
    ASSUME IInv, NEW s \in Sessions, tx[s].op = "upload", UploadInOrder(tx[s]),
           NEW i \in Unused, NEW work, work.op = "upload", work.style = tx[s].style,
           NEW position,
           position = Cardinality(PhotosOf(tx[s].style)) + Cardinality(tx[s].rows),
           MayAdd(tx[s].style, Cardinality(tx[s].rows)),
           work.rows = tx[s].rows \cup {<<i, position>>}
    PROVE  WorkInOrder(work)
<1> DEFINE n == Cardinality(PhotosOf(tx[s].style))
           rows == tx[s].rows
           k == Cardinality(rows)
<1>1. IsFiniteSet(rows)
  BY DEF IInv, RowsOK
<1>2. n \in Nat /\ k \in Nat /\ n + k < MaxPhotos
  <2>1. n \in Nat
    BY PhotosAreCounted
  <2>2. k \in Nat
    <3> HIDE DEF rows
    <3> QED
      BY <1>1, FS_CardinalityType
  <2>3. n + k < MaxPhotos
    BY DEF MayAdd
  <2> QED
    BY <2>1, <2>2, <2>3
<1>3. \A row \in rows : row[1] # i
  <2>1. \A row \in rows : row \in Rows(s)
    BY DEF Rows
  <2>2. \A row \in rows : row[1] \in InFlight
    BY <2>1 DEF InFlight
  <2> QED
    BY <2>2 DEF Unused
<1>4. <<i, position>> \notin rows
  <2>1. <<i, position>>[1] = i
    OBVIOUS
  <2> QED
    BY <1>3, <2>1, SMTT(30)
<1>5. Cardinality(work.rows) = k + 1
  BY <1>1, <1>4, FS_AddElement, ZenonT(60)
<1>6. \A r, q \in work.rows : r[1] = q[1] => r = q
  BY <1>3 DEF UploadInOrder
<1>7. {r[2] : r \in work.rows} = {r[2] : r \in rows} \cup {position}
  <2>1. <<i, position>>[2] = position
    OBVIOUS
  <2>2. \A r : r \in work.rows <=> r \in rows \/ r = <<i, position>>
    OBVIOUS
  <2>3. \A p : (\E r \in work.rows : p = r[2]) <=> (\E r \in rows : p = r[2]) \/ p = position
    BY <2>1, <2>2
  <2> DEFINE all == {r[2] : r \in work.rows}
             old == {r[2] : r \in rows}
  <2>4. \A p : p \in all <=> \E r \in work.rows : p = r[2]
    OBVIOUS
  <2>5. \A p : p \in old <=> \E r \in rows : p = r[2]
    OBVIOUS
  <2> HIDE DEF all, old, rows
  <2>6. \A p : p \in all <=> p \in old \/ p = position
    BY <2>3, <2>4, <2>5
  <2>7. all = old \cup {position}
    BY <2>6
  <2> QED
    BY <2>7 DEF all, old
<1>8. {r[2] : r \in rows} = n .. n + k - 1
  BY DEF UploadInOrder
<1> HIDE DEF n, k
<1>9. (n .. n + k - 1) \cup {n + k} = n .. n + (k + 1) - 1 /\ n + (k + 1) <= MaxPhotos
  BY <1>2
<1>10. position = n + k
  BY DEF n, k
<1>11. {r[2] : r \in work.rows} = n .. n + (k + 1) - 1
  BY <1>7, <1>8, <1>9, <1>10
<1>12. UploadInOrder(work)
  BY <1>5, <1>6, <1>9, <1>11 DEF UploadInOrder, n
<1> QED
  BY <1>12 DEF WorkInOrder

\* The rows of an upload are committed: the dress has them as its last photos.
LEMMA StoreImagesInOrder ==
    ASSUME IInv, OrderInv, NEW s \in Sessions, StoreImages(s) PROVE OrderInv'
<1> DEFINE rows == tx[s].rows
           New == {r[1] : r \in rows}
<1>0. PICK st \in DOMAIN styles : st = tx[s].style
  BY DEF IInv, TxOK, StoreImages
<1>1. /\ tx[s] \in UploadWork /\ tx[s].op = "upload" /\ 0 \notin DOMAIN styles
      /\ rows \in SUBSET (Images \X Nat)
  BY KindOfWork, LenProperties DEF IInv, TxOK, StylesOK, StoreImages, UploadWork
<1>2. IsFiniteSet(rows) /\ \A row \in rows : row[1] \notin Live
  BY <1>1 DEF IInv, RowsOK
<1>3. End(s) /\ tx[s] # Idle /\ UNCHANGED <<styles, overlapped>>
  BY <1>1 DEF StoreImages, Idle
<1>4. SUFFICES ASSUME ~overlapped PROVE \A other \in DOMAIN styles : InOrder(other)'
  BY <1>3, EndStaysInOrder
<1>5. UploadInOrder(tx[s]) /\ \A other \in DOMAIN styles : InOrder(other)
  BY <1>1, <1>4 DEF OrderInv, WorkInOrder
<1>6. \A i \in Images : IF i \in New
                        THEN /\ images'[i].style = st
                             /\ <<i, images'[i].position>> \in rows
                        ELSE images'[i] = images[i]
  <2>1. ASSUME NEW i \in Images, i \in New
        PROVE  images'[i].style = st /\ <<i, images'[i].position>> \in rows
    <3> DEFINE row == CHOOSE r \in rows : r[1] = i
    <3>1. row \in rows /\ row[1] = i
      BY <2>1
    <3>2. images'[i] = [style |-> st, position |-> row[2]]
      BY <1>0, <2>1 DEF StoreImages
    <3> HIDE DEF row
    <3>3. row = <<i, row[2]>>
      BY <1>1, <3>1
    <3> QED
      BY <3>1, <3>2, <3>3
  <2>2. ASSUME NEW i \in Images, i \notin New PROVE images'[i] = images[i]
    BY <2>2 DEF StoreImages
  <2> QED
    BY <2>1, <2>2
<1>7. New \subseteq Images /\ \A i \in New : i \notin Live
  BY <1>1, <1>2
<1>8. \A r \in rows : r[1] \in New /\ r = <<r[1], r[2]>> /\ r[2] = images'[r[1]].position
  <2>1. \A r \in rows : r[1] \in New /\ r = <<r[1], r[2]>>
    BY <1>1
  <2>2. ASSUME NEW r \in rows PROVE r[2] = images'[r[1]].position
    <3>1. <<r[1], images'[r[1]].position>> \in rows
      BY <1>6, <1>7, <2>1
    <3>2. <<r[1], images'[r[1]].position>> = r
      BY <1>5, <3>1 DEF UploadInOrder
    <3> QED
      BY <3>2
  <2> QED
    BY <2>1, <2>2
<1>9. IsFiniteSet(New) /\ Cardinality(New) = Cardinality(rows)
  <2> DEFINE f == [r \in rows |-> r[1]]
  <2>1. f \in Surjection(rows, New)
    BY DEF Surjection
  <2>2. f \in Injection(rows, New)
    <3>1. f \in [rows -> New]
      OBVIOUS
    <3>2. \A r, q \in rows : f[r] = f[q] => r = q
      BY <1>5 DEF UploadInOrder
    <3> HIDE DEF f, New, rows
    <3> QED
      BY <3>1, <3>2 DEF Injection, IsInjective
  <2> HIDE DEF f, New
  <2>3. IsFiniteSet(New)
    BY <1>2, <2>1, FS_Surjection
  <2>4. Cardinality(New) = Cardinality(rows)
    BY <1>2, <2>1, <2>2, FS_Surjection
  <2> QED
    BY <2>3, <2>4
<1>10. Live' = Live \cup New
  <2> HIDE DEF New
  <2>1. \A i \in New : images'[i] # NoImage
    <3>1. NoImage.style = 0
      BY DEF NoImage
    <3> QED
      BY <1>0, <1>1, <1>6, <1>7, <3>1
  <2> QED
    BY <1>6, <1>7, <2>1 DEF Live
<1>11. PhotosOf(st)' = PhotosOf(st) \cup New
  <2> HIDE DEF New
  <2> QED
    BY <1>3, <1>6, <1>7, <1>10 DEF PhotosOf, Live
<1>12. ASSUME NEW other \in DOMAIN styles, other # st PROVE InOrder(other)'
  <2>1. PhotosOf(other)' = PhotosOf(other)
    <3> HIDE DEF New
    <3> QED
      BY <1>6, <1>7, <1>10, <1>12 DEF PhotosOf, Live
  <2>2. \A i \in PhotosOf(other) : images'[i] = images[i]
    BY <1>6, <1>7 DEF PhotosOf, Live
  <2>3. Positions(other)' = Positions(other)
    BY <2>1, <2>2 DEF Positions
  <2> QED
    BY <1>3, <1>5, <2>1, <2>3 DEF InOrder
<1>13. InOrder(st)'
  <2> DEFINE n == Cardinality(PhotosOf(st))
             k == Cardinality(rows)
  <2>1. n \in Nat /\ k \in Nat /\ IsFiniteSet(PhotosOf(st))
    <3>1. PhotosOf(st) \in SUBSET Images
      BY DEF PhotosOf, Live
    <3>2. IsFiniteSet(PhotosOf(st))
      BY <3>1, FS_Subset
    <3> QED
      BY <1>2, <3>2, PhotosAreCounted, FS_CardinalityType
  <2>2. PhotosOf(st) \cap New = {}
    BY <1>7 DEF PhotosOf
  <2>3. Cardinality(PhotosOf(st) \cup New) = n + k
    <3> HIDE DEF New
    <3>1. Cardinality(PhotosOf(st) \cup New)
            = Cardinality(PhotosOf(st)) + Cardinality(New) - Cardinality(PhotosOf(st) \cap New)
      BY <1>9, <2>1, FS_Union
    <3>2. Cardinality(PhotosOf(st) \cap New) = 0
      BY <2>2, FS_EmptySet
    <3> QED
      BY <1>9, <2>1, <3>1, <3>2
  <2>4. Positions(st)' = Positions(st) \cup {r[2] : r \in rows}
    <3>1. \A i \in PhotosOf(st) : images'[i] = images[i]
      BY <1>6, <1>7 DEF PhotosOf, Live
    <3>2. \A p : p \in Positions(st) <=> \E i \in PhotosOf(st) : p = images[i].position
      BY DEF Positions
    <3>3. \A p : p \in Positions(st)' <=> \E i \in PhotosOf(st) \cup New : p = images'[i].position
      BY <1>11 DEF Positions
    <3> DEFINE given == {r[2] : r \in rows}
    <3>4. \A p : p \in given <=> \E r \in rows : p = r[2]
      OBVIOUS
    <3>5. \A p : p \in given <=> \E i \in New : p = images'[i].position
      <4>1. ASSUME NEW i \in New PROVE images'[i].position \in given
        <5>1. <<i, images'[i].position>> \in rows
          BY <1>6, <1>7
        <5>2. <<i, images'[i].position>>[2] = images'[i].position
          OBVIOUS
        <5> HIDE DEF given, rows
        <5> QED
          BY <3>4, <5>1, <5>2
      <4> QED
        BY <1>8, <3>4, <4>1
    <3> HIDE DEF given, New
    <3>6. Positions(st)' = Positions(st) \cup given
      BY <3>1, <3>2, <3>3, <3>5
    <3> QED
      BY <3>6 DEF given
  <2>5. Positions(st) = 0 .. n - 1 /\ {r[2] : r \in rows} = n .. n + k - 1 /\ n + k <= MaxPhotos
    BY <1>0, <1>5 DEF InOrder, UploadInOrder
  <2>6. styles[st].listed = "wizard" => n >= MinPhotos
    BY <1>1, <1>5 DEF InOrder
  <2>7. Cardinality(PhotosOf(st)') = n + k
    BY <1>11, <2>3
  <2> HIDE DEF n, k
  <2>8. (0 .. n - 1) \cup (n .. n + k - 1) = 0 .. n + k - 1
    BY <2>1
  <2>9. Positions(st)' = 0 .. n + k - 1
    BY <2>4, <2>5, <2>8
  <2>10. n >= MinPhotos => n + k >= MinPhotos
    BY <2>1
  <2> DEFINE m == n + k
  <2>11. Positions(st)' = 0 .. m - 1 /\ m <= MaxPhotos
    <3>1. n + k - 1 = m - 1
      BY <2>1
    <3> QED
      BY <2>5, <2>9, <3>1
  <2>12. styles'[st].listed = "wizard" => m >= MinPhotos
    <3>1. styles' = styles
      BY <1>3
    <3> QED
      BY <2>6, <2>10, <3>1
  <2>13. Cardinality(PhotosOf(st)') = m
    BY <2>7
  <2> HIDE DEF m
  <2> QED
    BY <2>11, <2>12, <2>13 DEF InOrder
<1> QED
  BY <1>12, <1>13

\* Ranks give the photos that stay the numbers from nought, without gap or tie.
LEMMA RanksFill ==
    ASSUME NEW rest, IsFiniteSet(rest), NEW rank \in Ranks(rest)
    PROVE  {rank[i] : i \in rest} = 0 .. Cardinality(rest) - 1
<1> DEFINE n == Cardinality(rest)
<1>1. n \in Nat
  BY FS_CardinalityType
<1>2. IsFiniteSet(0 .. n - 1) /\ Cardinality(0 .. n - 1) = n
  <2> HIDE DEF n
  <2>1. 0 \in Int /\ n - 1 \in Int
    BY <1>1
  <2>2. IsFiniteSet(0 .. n - 1)
    BY <2>1, FS_Interval
  <2>3. Cardinality(0 .. n - 1) = IF 0 > n - 1 THEN 0 ELSE (n - 1) - 0 + 1
    BY <2>1, FS_Interval
  <2> QED
    BY <1>1, <2>2, <2>3
<1>3. rank \in Injection(rest, 0 .. n - 1)
  BY DEF Ranks, Injection, IsInjective
<1>4. rank \in Surjection(rest, 0 .. n - 1)
  <2> DEFINE T == 0 .. n - 1
  <2>1. IsFiniteSet(T) /\ Cardinality(T) = Cardinality(rest) /\ rank \in Injection(rest, T)
    BY <1>2, <1>3
  <2> HIDE DEF T
  <2>2. rank \in Surjection(rest, T)
    BY <2>1, FS_Injection
  <2> QED
    BY <2>2 DEF T
<1> QED
  <2> HIDE DEF n
  <2>1. \A i \in rest : rank[i] \in 0 .. n - 1
    BY <1>4 DEF Surjection
  <2>2. \A p \in 0 .. n - 1 : \E i \in rest : rank[i] = p
    BY <1>4 DEF Surjection
  <2>3. {rank[i] : i \in rest} = 0 .. n - 1
    BY <2>1, <2>2
  <2> QED
    BY <2>3 DEF n

\* A deletion takes the row, and the ranks of the others are their positions.
LEMMA FinishDeleteInOrder ==
    ASSUME IInv, OrderInv, NEW s \in Sessions, FinishDelete(s) PROVE OrderInv'
<1> DEFINE gone == tx[s].image
           moves == tx[s].moves
<1>0. PICK st \in DOMAIN styles : st = tx[s].style
  BY DEF IInv, TxOK, FinishDelete
<1>1. End(s) /\ tx[s] # Idle /\ UNCHANGED <<styles, overlapped>> /\ 0 \notin DOMAIN styles
  BY LenProperties DEF FinishDelete, Idle, IInv, StylesOK
<1>2. SUFFICES ASSUME ~overlapped PROVE \A other \in DOMAIN styles : InOrder(other)'
  BY <1>1, EndStaysInOrder
<1>3. CASE UNCHANGED images
  <2>1. ASSUME NEW other \in DOMAIN styles PROVE InOrder(other)'
    <3>1. PhotosOf(other)' = PhotosOf(other)
      BY <1>3 DEF PhotosOf, Live
    <3>2. Positions(other)' = Positions(other)
      BY <1>3, <3>1 DEF Positions
    <3>3. InOrder(other)
      BY <1>2 DEF OrderInv
    <3> QED
      BY <1>1, <3>1, <3>2, <3>3 DEF InOrder
  <2> QED
    BY <2>1
<1>4. CASE images' # images
  <2>1. /\ tx[s].op = "delete" /\ tx[s].gone /\ DOMAIN moves \subseteq Live
        /\ images' = [i \in Images |->
               IF i = gone THEN NoImage
               ELSE IF i \in DOMAIN moves THEN [images[i] EXCEPT !.position = moves[i]]
               ELSE images[i]]
    BY <1>4 DEF FinishDelete
  <2>2. DeleteInOrder(tx[s]) /\ \A other \in DOMAIN styles : InOrder(other)
    BY <1>2, <2>1 DEF OrderInv, WorkInOrder
  <2> DEFINE rest == PhotosOf(st) \ {gone}
  <2>3. /\ styles[st].listed = "no" /\ gone \in PhotosOf(st)
    BY <1>0, <2>2 DEF DeleteInOrder, Unlisted
  <2>4. PICK rank \in Ranks(rest) :
          DOMAIN moves = Moved(rank) /\ \A i \in Moved(rank) : moves[i] = rank[i]
    BY <1>0, <2>1, <2>2 DEF DeleteInOrder
  <2>5. /\ DOMAIN rank = rest /\ rest \subseteq Images /\ PhotosOf(st) \subseteq Images
        /\ \A i \in PhotosOf(st) : i \in Live /\ images[i].style = st
        /\ \A i \in Images : images[i] \in [style : 0 .. Len(styles), position : Nat]
    BY <2>4 DEF Ranks, PhotosOf, Live, IInv, ImagesOK
  <2>6. ASSUME NEW i \in rest PROVE images'[i].style = st /\ images'[i].position = rank[i]
    <3>1. CASE i \in Moved(rank)
      BY <2>1, <2>4, <2>5, <3>1
    <3>2. CASE i \notin Moved(rank)
      BY <2>1, <2>4, <2>5, <3>2 DEF Moved
    <3> QED
      BY <3>1, <3>2
  <2>7. \A i \in Images \ PhotosOf(st) : images'[i] = images[i]
    <3>1. DOMAIN moves \subseteq rest
      BY <2>4, <2>5 DEF Moved
    <3> QED
      BY <2>1, <2>3, <3>1
  <2>8. images'[gone] = NoImage
    BY <2>1, <2>3, <2>5
  <2>9. PhotosOf(st)' = rest
    <3>1. NoImage.style = 0
      BY DEF NoImage
    <3>2. \A i \in rest : images'[i] # NoImage
      BY <1>1, <2>6, <3>1
    <3>3. \A i \in Images \ PhotosOf(st) : i \notin Live' \/ images'[i].style # st
      BY <2>7 DEF PhotosOf, Live
    <3>4. \A i : i \in PhotosOf(st)' <=> i \in Images /\ images'[i] # NoImage /\ images'[i].style = st
      BY DEF PhotosOf, Live
    <3>5. \A i \in Images \ PhotosOf(st) : ~(images'[i] # NoImage /\ images'[i].style = st)
      BY <2>7 DEF PhotosOf, Live
    <3> QED
      BY <2>5, <2>6, <2>8, <3>2, <3>4, <3>5
  <2>10. ASSUME NEW other \in DOMAIN styles, other # st PROVE InOrder(other)'
    <3>1. \A i : i \in PhotosOf(other) <=> i \in Images /\ images[i] # NoImage /\ images[i].style = other
      BY DEF PhotosOf, Live
    <3>2. \A i : i \in PhotosOf(other)' <=> i \in Images /\ images'[i] # NoImage /\ images'[i].style = other
      BY DEF PhotosOf, Live
    <3>3. \A i \in PhotosOf(st) : images'[i] = NoImage \/ images'[i].style = st
      BY <2>6, <2>8
    <3>4. PhotosOf(other)' = PhotosOf(other)
      <4>1. NoImage.style = 0 /\ other # 0
        BY <1>1, <2>10 DEF NoImage
      <4>2. \A i \in PhotosOf(st) : i \notin PhotosOf(other)
        BY <2>5, <2>10, <3>1
      <4>3. \A i \in PhotosOf(st) : i \notin PhotosOf(other)'
        BY <2>10, <3>2, <3>3, <4>1
      <4>4. \A i \in Images \ PhotosOf(st) : i \in PhotosOf(other)' <=> i \in PhotosOf(other)
        BY <2>7, <3>1, <3>2
      <4>5. \A i : i \in PhotosOf(other)' <=> i \in PhotosOf(other)
        BY <3>1, <3>2, <4>2, <4>3, <4>4
      <4> QED
        BY <4>5
    <3>5. \A i \in PhotosOf(other) : images'[i] = images[i]
      BY <2>5, <2>7, <2>10, <3>1
    <3>6. Positions(other)' = Positions(other)
      BY <3>4, <3>5 DEF Positions
    <3>7. InOrder(other)
      BY <2>2
    <3> QED
      BY <1>1, <3>4, <3>6, <3>7 DEF InOrder
  <2>11. InOrder(st)'
    <3>1. IsFiniteSet(PhotosOf(st)) /\ Cardinality(PhotosOf(st)) \in Nat
      BY <2>5, FS_Subset, PhotosAreCounted
    <3>2. IsFiniteSet(rest)
      BY <3>1, FS_RemoveElement
    <3>3. Cardinality(rest) = Cardinality(PhotosOf(st)) - 1
      BY <2>3, <3>1, FS_RemoveElement
    <3>4. {rank[i] : i \in rest} = 0 .. Cardinality(rest) - 1
      <4> HIDE DEF rest
      <4> QED
        BY <2>4, <3>2, RanksFill
    <3>5. Positions(st)' = {rank[i] : i \in rest}
      <4> HIDE DEF rest
      <4> QED
        BY <2>6, <2>9 DEF Positions
    <3>6. Cardinality(PhotosOf(st)) <= MaxPhotos
      BY <2>2 DEF InOrder
    <3>7. Cardinality(rest) <= MaxPhotos
      <4> HIDE DEF rest
      <4> QED
        BY <3>1, <3>3, <3>6
    <3>8. Cardinality(PhotosOf(st)') = Cardinality(rest) /\ styles'[st].listed = "no"
      BY <1>1, <2>3, <2>9
    <3> HIDE DEF rest
    <3> QED
      BY <3>4, <3>5, <3>7, <3>8 DEF InOrder
  <2> QED
    BY <2>10, <2>11
<1> QED
  BY <1>3, <1>4

\* Beginning a dress: only the dashboard lists one at once.
LEMMA BeginStyleInOrder ==
    ASSUME IInv, OrderInv, NEW s \in Sessions,
           OpenDraft(s) \/ \E listed \in Listings : CreateStyle(s, listed)
    PROVE  OrderInv'
<1>1. PICK made \in {"wizard", "dashboard"}, listed \in Listings \ {"wizard"} :
          Begin(s, NewStyle(made, listed)) /\ UNCHANGED <<styles, images>>
  <2>1. CASE OpenDraft(s)
    BY <2>1 DEF OpenDraft, Listings
  <2>2. CASE \E listed \in Listings : CreateStyle(s, listed)
    BY <2>2 DEF CreateStyle
  <2> QED
    BY <2>1, <2>2
<1> DEFINE work == NewStyle(made, listed)
<1>2. WorkInOrder(work)
  BY <1>1 DEF WorkInOrder, NewStyle
<1>3. Begin(s, work)
  BY <1>1
<1> HIDE DEF work
<1> QED
  BY <1>1, <1>2, <1>3, BeginAlone, WorkStaysInOrder

\* The wizard has counted before it publishes; the dashboard never lists as
\* the wizard does.
LEMMA BeginListingInOrder ==
    ASSUME IInv, OrderInv, NEW s \in Sessions, NEW st, Publish(s, st) \/ UpdateStyle(s, st)
    PROVE  OrderInv'
<1>1. PICK listed \in Listings :
          /\ Begin(s, [op |-> "list", style |-> st, listed |-> listed])
          /\ listed = "wizard" => Cardinality(PhotosOf(st)) >= MinPhotos
          /\ UNCHANGED <<styles, images>>
  BY DEF Publish, UpdateStyle, Listings
<1> DEFINE work == [op |-> "list", style |-> st, listed |-> listed]
<1>2. WorkInOrder(work)
  BY <1>1 DEF WorkInOrder
<1>3. Begin(s, work)
  BY <1>1
<1> HIDE DEF work
<1> QED
  BY <1>1, <1>2, <1>3, BeginAlone, WorkStaysInOrder

\* The photos of a dress that no step touches.
LEMMA SamePhotos ==
    ASSUME NEW st \in DOMAIN styles, UNCHANGED images, InOrder(st),
           styles'[st].listed = "wizard" => Cardinality(PhotosOf(st)) >= MinPhotos
    PROVE  InOrder(st)'
<1>1. PhotosOf(st)' = PhotosOf(st)
  BY DEF PhotosOf, Live
<1>2. Positions(st)' = Positions(st)
  BY <1>1 DEF Positions
<1> QED
  BY <1>1, <1>2 DEF InOrder

\* A dress that is stored has no photos yet, and the wizard has not listed it.
LEMMA StoreStyleInOrder ==
    ASSUME IInv, OrderInv, NEW s \in Sessions, StoreStyle(s) PROVE OrderInv'
<1> DEFINE new == tx[s].style
           n == Len(styles)
<1>1. tx[s].op = "style" /\ tx[s] # Idle /\ End(s) /\ UNCHANGED <<images, overlapped>>
  BY DEF StoreStyle, Idle
<1>2. n \in Nat /\ DOMAIN styles = 1 .. n /\ new \in Style
  BY <1>1, KindOfWork, LenProperties DEF IInv, TxOK, StylesOK, StyleWork
<1>3. SUFFICES ASSUME ~overlapped PROVE \A st \in DOMAIN styles' : InOrder(st)'
  BY <1>1, EndStaysInOrder
<1>4. new.listed # "wizard" /\ \A st \in DOMAIN styles : InOrder(st)
  BY <1>1, <1>3 DEF OrderInv, WorkInOrder
<1>5. CASE styles' = styles
  BY <1>1, <1>4, <1>5, SamePhotos DEF InOrder
<1>6. CASE styles' = Append(styles, new)
  <2>1. /\ DOMAIN styles' = 1 .. n + 1 /\ styles'[n + 1] = new
        /\ \A m \in 1 .. n : styles'[m] = styles[m]
    BY <1>2, <1>6 DEF IInv, StylesOK
  <2>2. ASSUME NEW st \in DOMAIN styles PROVE InOrder(st)'
    BY <1>1, <1>2, <1>4, <2>1, SamePhotos DEF InOrder
  <2>3. PICK k \in Nat : k = n + 1
    BY <1>2
  <2>4. InOrder(k)'
    <3>1. k \notin 0 .. n
      BY <1>2, <2>3
    <3>2. \A i \in Images : images[i].style \in 0 .. n
      BY DEF IInv, ImagesOK
    <3>3. PhotosOf(k)' = {}
      BY <1>1, <3>1, <3>2 DEF PhotosOf, Live
    <3>4. Positions(k)' = {}
      BY <3>3 DEF Positions
    <3>5. Cardinality(PhotosOf(k)') = 0
      BY <3>3, FS_EmptySet
    <3>6. 0 .. 0 - 1 = {} /\ 0 <= MaxPhotos
      OBVIOUS
    <3>7. styles'[k].listed # "wizard"
      BY <1>4, <2>1, <2>3
    <3> QED
      BY <3>4, <3>5, <3>6, <3>7 DEF InOrder
  <2>5. DOMAIN styles' = DOMAIN styles \cup {k}
    BY <1>2, <2>1, <2>3
  <2> QED
    BY <2>2, <2>4, <2>5
<1> QED
  BY <1>5, <1>6 DEF StoreStyle

\* The listing that is written was counted when the request was alone.
LEMMA StoreListingInOrder ==
    ASSUME IInv, OrderInv, NEW s \in Sessions, StoreListing(s) PROVE OrderInv'
<1>0. PICK st \in DOMAIN styles : st = tx[s].style
  BY DEF IInv, TxOK, StoreListing
<1>1. tx[s].op = "list" /\ tx[s] # Idle /\ End(s) /\ UNCHANGED <<images, overlapped>>
  BY DEF StoreListing, Idle
<1>2. SUFFICES ASSUME ~overlapped PROVE \A other \in DOMAIN styles' : InOrder(other)'
  BY <1>1, EndStaysInOrder
<1>3. \A other \in DOMAIN styles : InOrder(other)
  BY <1>2 DEF OrderInv
<1>4. tx[s].listed = "wizard" => Cardinality(PhotosOf(st)) >= MinPhotos
  BY <1>0, <1>1, <1>2 DEF OrderInv, WorkInOrder
<1>5. styles[st] \in Style
  BY ElementOfSeq, LenProperties DEF IInv, StylesOK
<1>6. /\ DOMAIN styles' = DOMAIN styles /\ styles'[st].listed = tx[s].listed
      /\ \A other \in DOMAIN styles : other # st => styles'[other] = styles[other]
  BY <1>0, <1>5 DEF StoreListing, Style
<1>7. ASSUME NEW other \in DOMAIN styles PROVE InOrder(other)'
  <2>1. CASE other = st
    BY <1>1, <1>3, <1>4, <1>6, <2>1, SamePhotos
  <2>2. CASE other # st
    BY <1>1, <1>3, <1>6, <2>2, SamePhotos DEF InOrder
  <2> QED
    BY <2>1, <2>2
<1> QED
  BY <1>6, <1>7

\* An upload begins.
LEMMA UploadInOrderBegins ==
    ASSUME IInv, OrderInv, NEW s \in Sessions, NEW st, NEW many, NEW i,
           Upload(s, st, many, i)
    PROVE  OrderInv'
<1> DEFINE work == [op |-> "upload", style |-> st, many |-> many,
                    rows |-> {<<i, Cardinality(PhotosOf(st))>>}]
<1>1. /\ work.op = "upload" /\ work.style = st
      /\ work.rows = {<<i, Cardinality(PhotosOf(st))>>}
  OBVIOUS
<1>2. MayAdd(st, 0) /\ Begin(s, work) /\ UNCHANGED <<styles, images>>
  BY DEF Upload, SaveImage
<1> HIDE DEF work
<1>3. WorkInOrder(work)
  BY <1>1, <1>2, FirstRow
<1> QED
  BY <1>2, <1>3, BeginAlone, WorkStaysInOrder

\* An upload goes on: whoever is in the middle of one is alone.
LEMMA UploadAnotherInOrder ==
    ASSUME IInv, OrderInv, NEW s \in Sessions, NEW i, UploadAnother(s, i) PROVE OrderInv'
<1> DEFINE position == Cardinality(PhotosOf(tx[s].style)) + Cardinality(tx[s].rows)
           work == [tx[s] EXCEPT !.rows = tx[s].rows \cup {<<i, position>>}]
<1>1. tx[s] \in UploadWork /\ tx[s].op = "upload" /\ tx[s] # Idle
  BY KindOfWork DEF IInv, TxOK, UploadAnother, Idle
<1>2. /\ i \in Unused /\ MayAdd(tx[s].style, Cardinality(tx[s].rows))
      /\ tx' = [tx EXCEPT ![s] = work] /\ UNCHANGED <<styles, images, overlapped>>
  BY DEF UploadAnother, SaveImage
<1>3. /\ work.op = "upload" /\ work.style = tx[s].style
      /\ work.rows = tx[s].rows \cup {<<i, position>>}
  BY <1>1 DEF UploadWork
<1>4. position = Cardinality(PhotosOf(tx[s].style)) + Cardinality(tx[s].rows)
  OBVIOUS
<1> HIDE DEF work, position
<1>5. ASSUME ~overlapped
      PROVE  WorkInOrder(work) /\ \A t \in Sessions \ {s} : tx[t] = Idle
  <2>1. UploadInOrder(tx[s])
    BY <1>1, <1>5 DEF OrderInv, WorkInOrder
  <2>2. WorkInOrder(work)
    BY <1>1, <1>2, <1>3, <1>4, <2>1, NextRow
  <2>3. \A t \in Sessions \ {s} : tx[t] = Idle
    BY <1>1, <1>5 DEF OrderInv, Solo
  <2> QED
    BY <2>2, <2>3
<1> QED
  BY <1>2, <1>5, WorkStaysInOrder

\* A deletion begins on a photo that is there.
LEMMA StartDeleteInOrder ==
    ASSUME IInv, OrderInv, NEW s \in Sessions, NEW i \in Images, StartDelete(s, i)
    PROVE  OrderInv'
<1> DEFINE work == [op |-> "delete", style |-> images[i].style, image |-> i,
                    gone |-> FALSE, moves |-> <<>>]
<1>1. /\ Begin(s, work) /\ UNCHANGED <<styles, images>>
      /\ i \in Live /\ images[i].style \in Unlisted
  BY DEF StartDelete
<1>2. /\ work.op = "delete" /\ work.style = images[i].style /\ work.image = i
      /\ work.gone = FALSE
  OBVIOUS
<1> HIDE DEF work
<1>3. DeleteInOrder(work)
  BY <1>1, <1>2 DEF DeleteInOrder, PhotosOf
<1>4. WorkInOrder(work)
  BY <1>2, <1>3 DEF WorkInOrder
<1> QED
  BY <1>1, <1>4, BeginAlone, WorkStaysInOrder

\* The others are given their ranks when the row is deleted.
LEMMA DeleteRowInOrder ==
    ASSUME IInv, OrderInv, NEW s \in Sessions, DeleteRow(s) PROVE OrderInv'
<1>1. tx[s] \in DeleteWork /\ tx[s].op = "delete" /\ tx[s] # Idle
  BY KindOfWork DEF IInv, TxOK, DeleteRow, Idle
<1>2. PICK rank \in Ranks(PhotosOf(tx[s].style) \ {tx[s].image}) :
          tx' = [tx EXCEPT ![s].gone = TRUE, ![s].moves = [i \in Moved(rank) |-> rank[i]]]
  BY DEF DeleteRow
<1> DEFINE moves == [i \in Moved(rank) |-> rank[i]]
           work == [tx[s] EXCEPT !.gone = TRUE, !.moves = moves]
<1>3. DOMAIN moves = Moved(rank) /\ \A i \in Moved(rank) : moves[i] = rank[i]
  OBVIOUS
<1> HIDE DEF moves
<1>4. /\ work.op = "delete" /\ work.style = tx[s].style /\ work.image = tx[s].image
      /\ work.moves = moves
  BY <1>1 DEF DeleteWork
<1>5. tx' = [tx EXCEPT ![s] = work] /\ UNCHANGED <<styles, images, overlapped>>
  BY <1>2 DEF moves, DeleteRow
<1> HIDE DEF work
<1>6. ASSUME ~overlapped
      PROVE  WorkInOrder(work) /\ \A t \in Sessions \ {s} : tx[t] = Idle
  <2>1. DeleteInOrder(tx[s])
    BY <1>1, <1>6 DEF OrderInv, WorkInOrder
  <2>2. DeleteInOrder(work)
    BY <1>2, <1>3, <1>4, <2>1 DEF DeleteInOrder
  <2>3. \A t \in Sessions \ {s} : tx[t] = Idle
    BY <1>1, <1>6 DEF OrderInv, Solo
  <2> QED
    BY <1>4, <2>2, <2>3 DEF WorkInOrder
<1> QED
  BY <1>5, <1>6, WorkStaysInOrder

\* A request that ends without a trace leaves the photos as they are.
LEMMA EndInOrder ==
    ASSUME IInv, OrderInv, NEW s \in Sessions, tx[s] # Idle, End(s),
           UNCHANGED <<styles, images, overlapped>>
    PROVE  OrderInv'
<1>1. ~overlapped => \A st \in DOMAIN styles' : InOrder(st)'
  BY SamePhotos DEF OrderInv, InOrder
<1> QED
  BY <1>1, EndStaysInOrder

\* The photos stay in order, whatever step a request takes.
LEMMA NextKeepsOrder == ASSUME IInv, OrderInv, [Next]_vars PROVE OrderInv'
<1>1. CASE UNCHANGED vars
  <2>1. UNCHANGED <<styles, images, tx, overlapped>>
    BY <1>1 DEF vars
  <2>2. CASE Sessions = {}
    <3>1. ~overlapped => \A st \in DOMAIN styles' : InOrder(st)'
      BY <2>1, SamePhotos DEF OrderInv, InOrder
    <3> QED
      BY <2>1, <2>2, <3>1 DEF OrderInv, Solo
  <2>3. ASSUME NEW s \in Sessions, tx[s] # Idle PROVE OrderInv'
    <3>1. tx' = [tx EXCEPT ![s] = tx[s]]
      BY <2>1 DEF IInv, TxOK
    <3>2. ~overlapped => WorkInOrder(tx[s]) /\ \A t \in Sessions \ {s} : tx[t] = Idle
      BY <2>3 DEF OrderInv, Solo
    <3>3. PICK w : w = tx[s]
      OBVIOUS
    <3> QED
      BY <2>1, <3>1, <3>2, <3>3, WorkStaysInOrder
  <2>4. ASSUME NEW s \in Sessions, \A t \in Sessions : tx[t] = Idle PROVE OrderInv'
    <3>1. tx' = [tx EXCEPT ![s] = Idle]
      BY <2>1, <2>4 DEF IInv, TxOK
    <3>2. Idle.op = "idle"
      BY DEF Idle
    <3>3. WorkInOrder(Idle)
      BY <3>2 DEF WorkInOrder
    <3> QED
      BY <2>1, <2>4, <3>1, <3>3, WorkStaysInOrder
  <2> QED
    BY <2>2, <2>3, <2>4
<1>2. ASSUME NEW s \in Sessions, Dresses(s) PROVE OrderInv'
  <2>1. CASE OpenDraft(s) \/ \E listed \in Listings : CreateStyle(s, listed)
    BY <2>1, BeginStyleInOrder
  <2>2. CASE StoreStyle(s)
    BY <2>2, StoreStyleInOrder
  <2>3. ASSUME NEW st \in DOMAIN styles, Publish(s, st) \/ UpdateStyle(s, st) PROVE OrderInv'
    BY <2>3, BeginListingInOrder
  <2>4. CASE StoreListing(s)
    BY <2>4, StoreListingInOrder
  <2> QED
    BY <1>2, <2>1, <2>2, <2>3, <2>4 DEF Dresses
<1>3. ASSUME NEW s \in Sessions, Photos(s) PROVE OrderInv'
  <2>1. ASSUME NEW st \in DOMAIN styles, NEW many \in BOOLEAN, NEW i \in Images,
               Upload(s, st, many, i)
        PROVE  OrderInv'
    BY <2>1, UploadInOrderBegins
  <2>2. ASSUME NEW i \in Images, UploadAnother(s, i) PROVE OrderInv'
    BY <2>2, UploadAnotherInOrder
  <2>3. ASSUME NEW i \in Images, StartDelete(s, i) PROVE OrderInv'
    BY <2>3, StartDeleteInOrder
  <2>4. CASE StoreImages(s)
    BY <2>4, StoreImagesInOrder
  <2>5. CASE DeleteRow(s)
    BY <2>5, DeleteRowInOrder
  <2>6. CASE FinishDelete(s)
    BY <2>6, FinishDeleteInOrder
  <2>7. CASE LoseDeadlock(s)
    <3>1. tx[s] # Idle /\ End(s) /\ UNCHANGED <<styles, images, overlapped>>
      BY <2>7 DEF LoseDeadlock, Waits, Idle
    <3> QED
      BY <3>1, EndInOrder
  <2> QED
    BY <1>3, <2>1, <2>2, <2>3, <2>4, <2>5, <2>6, <2>7 DEF Photos
<1>4. ASSUME NEW s \in Sessions, Die(s) PROVE OrderInv'
  BY <1>4, EndInOrder DEF Die
<1> QED
  BY <1>1, <1>2, <1>3, <1>4 DEF Next

(* As long as no two requests overlap, however many die: the photos of every
   dress are numbered without gap or tie, there are at most MaxPhotos, and what
   the wizard has listed has at least MinPhotos (save_style_image,
   delete_style_image, publish), for any shop and any photos. *)
THEOREM PhotosStayInOrder == Spec => []PhotosInOrder
<1>1. Init => OrderInv
  <2> SUFFICES ASSUME Init PROVE OrderInv
    OBVIOUS
  <2>1. DOMAIN styles = {} /\ \A s \in Sessions : tx[s] = Idle
    BY EmptySeq DEF Init
  <2>2. Idle.op = "idle"
    BY DEF Idle
  <2> QED
    BY <2>1, <2>2 DEF OrderInv, Solo, WorkInOrder
<1>2. IInv /\ OrderInv /\ [Next]_vars => OrderInv'
  BY NextKeepsOrder
<1>3. OrderInv => PhotosInOrder
  BY DEF OrderInv, InOrder, Positions, PhotosInOrder
<1> QED
  BY <1>1, <1>2, <1>3, Invariant, PTL DEF Spec
=============================================================================
