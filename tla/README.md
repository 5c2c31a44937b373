# Twirl: a TLA+ verification of the dress-rental platform

Twirl is one FastAPI process over PostgreSQL. Shops list dresses, renters ask for
one on their event day, staff answer, hand dresses over and take them back, and
background jobs move what nobody moves. This directory holds TLA+ models of its
core, the TLC configurations that check them, and proofs checked by TLAPS.
Paths below are relative to `src/src/twirl/` unless they start with `docs/`.

## The system

| Component | State | Operations | Interacts with |
|---|---|---|---|
| Booking engine: `booking/{states,timeline,requests,staff}.py`, `models/bookings.py` | bookings, booking_events, item status | request, walk-in or phone booking (possibly displacing others), block, accept, decline, cancel, hand over, no-show, return, swap, item status | reads rental dates and availability; queues notifications in its own transaction |
| Booking jobs: `jobs.py`, `scheduler.py`, `web/internal.py` | none | expire stale requests, mark no-shows, mark not returned | same tables, no locks; started by the scheduler thread and by a cron call (`docs/deploy.md` deploys both) |
| Outbox: `notify/`, `models/notifications.py`, `jobs.deliver_notifications` | notifications | queue, deliver in batches, retry, give up | mail and Telegram providers, outside the transaction |
| Rental dates: `booking/{dates,rules}.py` | none | derive, validate | rules and closures of `web/shop_settings.py` |
| Shop settings: `web/shop_settings.py` | rules, weekdays, closures | save, add and delete closure | rental dates |
| Availability, search, storefront, board: `booking/{availability,board}.py`, `search.py`, `web/{storefront,shop_bookings}.py` | none | queries; the request form | bookings, items, rental dates |
| Phone codes, sign-in: `otp.py`, `web/{phone_auth,auth}.py` | phone_codes, web session | issue, resend, verify, log in and out | SMS provider, rate limiter |
| Rate limiter: `ratelimit.py` | event times per key, in memory | blocked, record, allow | sign-in, storefront |
| Catalogue, photos: `catalog.py`, `storage.py`, `web/shop_catalog.py` | styles, items, images, files | create, list, add items, photos | object storage, outside the transaction |
| Onboarding: `onboarding.py`, `web/onboarding.py` | shop, style, items, blocks, wizard position in the session | wizard steps, photos, busy dates, publish | catalogue, blocks, phone codes |
| Customers, codes: `customers.py`, `codes.py` | users, shop_customers | insert or ignore, draw a free code | booking engine |
| Administration, shell | shop kind and status, blocked users, configuration | approve, suspend, serve | everything |

What makes it hard: handlers and jobs run in READ COMMITTED transactions that
read, decide and write, with other transactions committing in between; the ORM
writes the columns that changed, by primary key, without a version check; a
GiST exclusion constraint is the only arbiter of the calendar; requests lock
item rows with `SKIP LOCKED`; the same job may run twice at once; providers and
the photo storage do not roll back; the wizard's position lives partly in the
cookie of one browser and partly in tables another browser, the dashboard and
the administrator change. Correctness per component:

- engine: no dress promised twice; statuses follow the table of transitions;
  a displaced booking is known to the admin and is displaced for a reason;
  a dress that is out stays blocked
- jobs: no booking waits for ever
- pages: staff see every booking that needs them, and what search, dress page
  and booking page offer can be done
- outbox: every message sent or given up, no duplicate without a mishap, honest verdicts
- dates: the tightest stay, refused only when none exists
- sign-in: a code signs in once, few guesses, few messages
- rate limiter: the limit holds but for requests under way, and nobody is turned
  away for nothing
- wizard: redirects end, saved steps lead on, a saved price step replaces the busy
  dates of all its pieces, a published shop keeps its path
- catalogue: one draft, photos have their files, positions without gaps

`PROJECT.json` lists every component with its status and every hazard at its line.

## Modules

| Module | Models |
|---|---|
| `BookingStates` | kinds, statuses, transitions, active statuses |
| `Bookings` | the booking engine and its jobs |
| `ItemCalendar` | abstract: who holds which item on which days |
| `Shopfront` | what search, dress page, board, calendar and booking page show, on top of `Bookings` |
| `RentalDates` | from event day to pickup and return |
| `Outbox` | queue and delivery of notifications |
| `SignIn` | codes sent to a phone, and the sessions they open |
| `RateLimiter` | sliding windows, and the handlers around them |
| `Catalogue` | dresses, drafts, photos and files under overlapping requests |
| `Onboarding` | the wizard from the phone number to the published listing |
| `MC*` | constants and symmetry for TLC |
| `BookingsProofs`, `ShopfrontProofs`, `RentalDatesProofs`, `OutboxProofs`, `SignInProofs`, `RateLimiterProofs`, `CatalogueProofs`, `OnboardingProofs` | theorems and proofs; `ShopfrontProofs` rests on `BookingsProofs` |

### Bookings

`bookings`, `event` (newest timeline event), `alerts` (templates queued about a
booking), `items` (status) are committed tables; `tx[s]` is the unit of work of
session `s`. Every handler is two steps: one reads the tables, applies the
handler's guards and fills `tx[s]` (`BookingAction`, `SwapItem`, `WalkIn`,
`BlockItem`, the three jobs through `RunJob`); `Commit(s)` writes. Between them
anything else may commit. A unit of work holds one `Move` per booking it
updates, with the values *loaded* and the values *wanted*; `Apply` writes a
column only where the two differ, as the ORM does. `Commit` requires
`NotExcluded` and `ItemHasStyle` (the two table constraints) of every row it
touches in the table it would leave; `Reject` is the roll-back when they fail.

`create_request` is `RequestDress` (search), `LockItem` / `NoAvailability`
(`FOR UPDATE SKIP LOCKED` over the rows found), `Commit` or `Retry` (the loop of
`max_attempts`). A statement that locks another session's uncommitted write may
or may not find the row locked: `skipped` ranges over the rows that may be.
`Unblocked` is the wait of a foreign-key check for a locked item row. `Abort` is
a crash, a lost connection or a deadlock victim.

What is abstracted: one shop; style stands for style and size; `walk_in` stands
for walk-in and phone, which differ in a label; prices, notes, references,
customers and reasons are left out (a reason is taken as given); the creation
time of a booking is its day and is kept for requests only, the sole rows whose
age is read; the 24-hour SLA has the granularity of a day; the publication
check of a style is taken as passed; `set_item_status` is one step, because it
reads nothing it decides on; midnight may fall in a transaction, but no
transaction lasts a whole day (`overnight`).

### ItemCalendar

One variable, `held`: an item and a range of days per booking, or nothing.
`Release` gives some up, `Take` gives one booking a free claim in place of what
it and the displaced bookings held. `Holding` in `Bookings` is the refinement
mapping: active bookings hold, others do not. An override with its displaced
bookings is one `Take`; a swap is a `Take` by a booking that had a claim.

### Shopfront

The pages change nothing, so each is an operator on the tables of `Bookings`:
`Found` and `SizeOptions` (search), `FreeOnPage` (dress page),
`TodayBoard` (its six lists), `Cell` (week calendar), `Buttons`,
`SwapCandidates`, `Offered` (booking page). A renter's day is one of `Spans`,
because it fixes the rental dates. City, category, price, order and paging of
search are left out, as are the words on the pages. `MCBookings` extends
`Shopfront`, so the pages are compared in the states the engine reaches: with the
handlers behind the buttons, and with the constraint a swap (`Swapped`) or a
request (`Requested`) meets. `week_calendar` skips deleted styles; no code deletes
one, so that filter passes everything.

### RentalDates

`Roll` is the set with the first open day in one direction within
`MAX_ROLL_DAYS`, empty for the exception; `DerivedDates` and `Verdict` are the
two functions of `dates.py`; `Ask` gives what search, the page of a dress and a
request are told. The owner's three forms change rules and closures in between,
which discards the answer.

### Outbox

`status` and `attempts` are the table; `batch[w]` are the rows worker `w` has
locked; `accepted` and `raised` what its run has in memory. `Accept`, `Refuse`
and `LoseAnswer` are the three ways a send can end (the last one: the provider
took the message and its answer did not come); `Record` commits a run,
`RollBack` is its death. `delivered` and `unrecorded` are history variables: how
often the provider took a message, and how often the table never said so.

### SignIn

One phone and the browsers of its owner. `codes` is the table with a code per
message, those included that were lost with their transaction. Sending reads
the past codes (`TooSoon`, `TooMany`), puts the message on its way and stores
the code at `CommitSend`; checking reads the live codes (`StartCheck`), waits for
the lock on the newest and looks at the rows again (`StillLive`, `Check`,
`Refuse`). The phone forms differ in when they write the cookie: `early` and
`many` of `Issue` are the sessions left when nothing is sent. `Die` is the
death of a request, after which a sent message has no row. `guesses` is a
history variable. A guess is right or wrong for a code by choice: which digits
it has does not matter. Time keeps the order RESEND_AFTER < CODE_TTL < one hour.

### RateLimiter

The window of one address in the limiter of the login forms (`allow`: the clock
is read in `AskAllow`, before the lock of `Allow` and `TurnAway`) and in that of
the request form (`AskBlocked`, the handler, `Record`). `through` is history:
which calls got through, with the moment that counts and the real one.

### Catalogue

`tx[s]` is what a request is in the middle of; `styles` and `images` are
committed rows, `files` the storage. A dress gets its code when the request
reads (`NextCode`) and its row when it commits (`StoreStyle`, with the unique
constraint). Uploads put files first and rows last, deletions delete the files,
then the row (`DeleteRow`, which waits for a lock), then close the gap
(`FinishDelete`, which fails as a whole if a row it moves is gone). Two
deletions may wait for each other (`Waits`, `LoseDeadlock`). `Die` takes the
rows of a request along and leaves the storage as it is. `doomed`,
`overlapped` and `fresh` are history.

### Onboarding

`cookie[d]` is the signed session of browser `d`; `Path`, `StyleId`, `Reached`
are what the code works out from it and the tables (`_flow`, `Flow.reached`), and
`Answer(d, step)` is what a GET leads to, page by page with the guards of each.
Forms that only change the cookie, and the page that opens a draft, are one step.
The four that decide on what they have loaded (profile, dress, price, review) are
a `Load`, which applies the guards, and a `Save`, which writes what the ORM would:
`work[d]` holds the request in the middle, as READ COMMITTED without a version
check leaves it. `FindShop` is the second query for the shop in `save_provider`.
The price step does its pieces one at a time (`ReplaceBlocks`): it remembers the
blocks it has found and cancelled (`seen`) and fails as a whole when a renter has
one of the days (`RollBack`). Its first query flushes a price that has changed,
which locks the row of the dress to the end of the transaction (`HoldsRow`); with
the price unchanged nothing is locked. `SavePrice` leaves the blocks the request
has not found (`NotFound`). `Beside` takes the blocks that a commit cancelled out
of what the other saves have found, and sets `crossed` (history, like the
`draft` of a profile) on those it did not exclude by the row. The forms of the
dashboard (`Behind`), the bookings of `Renters` and the `Administrator` are single
steps: they decide on nothing that the wizard changes, or write what they were
given. A browser has one form under way at a time. `LogIn` is the other door
(`SignIn` in one step, since the phone is the provider's own). Photos are a flag
(enough or not). Staff who cancel one of the wizard's blocks by hand are left out.

## Runs

| Run | Shows | Bounds |
|---|---|---|
| `bookings_alone` | what each operation promises undisturbed, and what the pages say: `TypeOK`, `StaffSeeEveryBooking`, `OffersCanBeTaken`, `DisplacedOnlyInTheWay`, `ChangesAreAllowedAndRecorded`, `HandedOverStaysHeld` | 1 session, 2 rows, 2 copies of a dress, days 0, 1 and 2 with a cleaning day, 5 days, items in repair |
| `bookings_concurrent` | what survives interleaving: `NoDoubleBooking`, `NoRowLockCycle`, `AtRiskIsKnown`, `ImplementsCalendar`, `DisplacedOnlyTogether` | 2 sessions, each handler or job, 2 rows, 2 copies, one range of days, 3 attempts |
| `bookings_swaps` | `StyleMatchesItem` under overlapping swaps | 2 sessions, 1 row, 3 dresses of 2 styles |
| `bookings_live` | `RequestsAreAnswered`, `BookingsMoveOn` | 1 handler, 1 job worker, 2 rows, 1 dress, no symmetry |
| `rental_dates` | `DerivedDatesFit`, `DatesAreTightest`, `RefusalIsFinal` | 4 rules at the corners of the CHECK constraints, 4 sets of weekdays, 2 of 5 closures, 11 event days |
| `outbox` | `DuplicatesAreMishaps`, `SentIsDelivered`, `GivenUpInTime`, `SettledForGood`, `EveryMessageSettles` | 3 messages, 2 workers, batches of 2, 1 mishap |
| `sign_in` | `TypeOK`, `GuessesBounded`, `SendsPerHour`, `SignInConsumesACode` | 2 browsers, 3 codes, 4 moments, 1 message an hour, 2 attempts, 1 death |
| `rate_limiter` | `TypeOK`, `ThroughPerWindow`, `TurnedAwayWithReason` | 2 threads, 2 events in a window of 2, 5 moments, 4 calls let through by either limiter |
| `catalogue` | `TypeOK`, `OneDraft`, `BrokenPhotosWereBeingDeleted`, `PhotosInOrder` | 2 requests at once, 2 dresses, 3 photos of which a dress takes 1 to 2, 1 death |
| `onboarding` | the wizard among overlapping forms and edits from outside: `TypeOK`, `RedirectsEnd`, `SavedStepsLeadOn`, `DatesAreReplaced`, `PublishedShopKeepsItsPath` | 2 browsers, both with the dashboard, 1 dress, 2 pieces, 1 size, 1 day, 1 event beside the wizard; `OneFormOrTwoPieces` |
| `bookings_handed_over`, `bookings_missing` | the disagreements below | as small as shows them |

Two rows and two sessions suffice where a property relates two bookings or two
units of work; two browsers, threads or requests where one acts between two
steps of another. An override that is refused takes a
third row, for the rival that is in its way: that case is not in
`bookings_concurrent`, where the override takes the second row, but in the
theorem `NeverDisplacedAlone`. In `onboarding` a dress is listed in one size and gets its second
piece from the dashboard or from two dress forms that overlap. The constraint
`OneFormOrTwoPieces` bounds how forms and events meet: while there is one piece,
an event beside the wizard meets one form under way; two forms and an event meet
on two pieces, of a salon that both browsers came to by the wizard; and nobody
signed in asks for another code. What lies outside, what `set_dress` does to
pieces of other sizes, and two or more edits, are covered by the theorems about
`Onboarding`, which have no constraint and leave sizes, pieces, browsers and
edits open. The constants MIN_PHOTOS,
MAX_IMAGES_PER_STYLE, MAX_SENDS_PER_HOUR, MAX_ATTEMPTS and the limits are small
in the runs, so that they are reached; the proofs leave them open. `Horizon`
reaches past the no-show and not-returned grace days in the runs whose
properties speak of them. `Ids`, `Spans`, `Horizon`, `LastBookingDay`,
`MaxClosures`, `LastToday`, `Events`, `Messages`, `MaxMishaps`, `MaxTime`,
`MaxCodes`, `MaxDeaths`, `MaxThrough`, `MaxStyles`, `MaxItems`, `MaxEdits` are
the bounds. `CHECK_DEADLOCK FALSE` stands where the model ends at its horizon
with its rows used up, with all messages settled, or with the clock at its last
moment. `SYMMETRY` permutes rows, sessions, browsers, threads, requests and photos
where all of them may do the same; the liveness runs have none.

Some properties hold only for handlers that do not overlap, and say so:
`DisplacedOnlyInTheWay`, `ChangesAreAllowedAndRecorded`, `HandedOverStaysHeld`
(one session in `bookings_alone`, sessions that take turns in the theorems) and
`PhotosInOrder` (`~overlapped`). The code has no lock for
them: the no-show job releases a dress handed over meanwhile (below), two uploads
at once give one position twice, and a deletion beside a publication leaves a
listing short of photos. `DatesAreReplaced` leaves out saves of a price step that
were `crossed`: two that overlap with an unchanged price leave the days of both.
`SavedStepsLeadOn` speaks of requests whose data nobody has changed in between
(`Undisturbed`), and `RedirectsEnd` leaves out two pages of a listed dress, which
answer 404.

### Disagreements

1. **A dress that was handed over is released** (`bookings_handed_over`,
   `HandedOverStaysHeld`). `transition` checks the status it loaded and writes
   without a version check. The no-show job reads a confirmed walk-in, staff
   press *Picked up* and commit, the job commits `no_show`: the dress is out and
   its days are free. `docs/superpowers/plans/2026-09-25-shop-calendar-backend.md:35`:
   "a dress handed over on the spot is `picked_up` immediately and never auto-released".
2. **A missing dress is promised** (`bookings_missing`,
   `MissingDressIsNotPromised`). `docs/twirl-requirements-spec.md:193`:
   "Item → `lost`; booking → `not_returned`"; `mark_not_returned` leaves the
   item active, and `not_returned` blocks no days.

### What the models also show

Four more places where the text and the code differ. The models have the
behaviour; no run states the text as a property.

- A request is refused for a dress that is only locked. `create_request` skips
  locked item rows whatever the days: while a booking of day 5 is being stored, a
  request for day 0 finds nothing (`LockItem`, `NoAvailability`).
  `docs/twirl-requirements-spec.md:293` calls a style available "if **any** of its
  active Items of that size has no overlapping active booking".
- A published shop may lose its path. One browser sends the profile of a draft
  whose path it has changed; before its `UPDATE` another publishes the shop, which
  then gets the other kind. `web/onboarding.py:289`: "a published shop keeps its
  path". `PublishedShopKeepsItsPath` says that it takes a form loaded before the
  publication, and no other does it.
- The price and the summary of a listed dress answer 404 where
  `web/onboarding.py:4-6` says that every step "redirects forward or back as
  needed": the exception in `RedirectsEnd`.
- A size added after the price step has no blocks, and the summary, which reads the
  first piece only, shows dates that it lacks.
  `docs/superpowers/plans/2026-09-25-provider-onboarding.md:25` says "stored as
  block bookings on every item"; `DatesAreReplaced` speaks of the pieces the price
  step had loaded.

### Fairness

`Bookings.FairSpec`: the clock goes on; a handler that can finish does (`WF`);
each job is started again and again and not for ever rolled back (`SF` of the
job and of its commit, because staff may keep disabling it). The schedule of
`scheduler.py` and the cron of `docs/deploy.md` justify both. `Outbox.FairSpec`:
runs start, sends end (provider clients have timeouts), runs commit; the number
of mishaps is bounded, so a run is not rolled back for ever.

The other modules state no fairness: nothing in them has to happen by itself.
Browsers may go away at any step, and a request that waits ends when its rival
commits or dies.

## Proofs

All theorems hold for every value of the constants that satisfies the named
assumptions next to them.

- `TypeCorrect`: `TypeOK` is inductive by itself. Its last conjunct carries the
  rest of the proofs: a unit of work about to be written has an item for its new
  row and touches bookings that exist. One lemma per handler, `BeginTyped` for
  what they share.
- `NeverDoubleBooked`, `StylesMatch`: only `Commit` writes bookings
  (`OnlyCommitWrites`); it checks the constraints on the rows it touches
  (`CommitChecked`), and two rows it leaves alone did not clash before. Nothing
  is needed about what handlers decided on: the constraint is the argument.
- `NoCircularRowLockWait`: `LockInv` says that row locks are exclusive and that a
  request ready to write refers to a row it holds. It says nothing of waits
  inside the exclusion check, which the model does not have.
- `RiskIsKnown`, `NeverDisplacedAlone`: a unit of work that moves a booking to
  `at_risk` moves an online one, carries the alert and inserts a walk-in
  (`UnitRisk`, kept by every read step); a commit never changes the kind of a
  stored row, so this is still true when it writes.
- `EngineImplementsCalendar`: with `OneTaker` (a unit of work gives up any number
  of dresses and takes at most one) every commit is a `Release` or a `Take`,
  every other step a stutter.
- `DerivedDatesAlwaysFit`, `DerivedDatesAreTightest`, `RefusalsAreFinal`: the
  standing answer is one the code gives for the standing rules (`IInv`); the
  first open day in a direction is the nearest; and 14 days of search reach as
  far as the longest rental of 14.
- `NoDuplicateWithoutMishap`, `SentWasDelivered`, `GivesUpInTime`,
  `VerdictsAreFinal`: runs lock disjoint sets of queued rows (`BatchOK`), so each
  acceptance is recorded once, pending in one run, or lost (`CountOK`).
- `GuessesAreBounded`, `SigningInConsumesACode` (`SignInProofs`): every comparison
  has cost an attempt (`CountsOK`); what a check has seen stays stored; a browser
  that waits for a message keeps its cookie, so only `Check` signs in; and of
  codes that were seen there is always a newest (`NewestExists`, by way of the
  least number principle).
- `NeverTwoDrafts`, `OnlyDoomedPhotosAreBroken` (`CatalogueProofs`): codes are the
  places of the dresses (`CodesOK`), so of two dresses waiting to be stored with
  the same code one fails, and one that can still be stored saw every dress
  there is (`PendingOK`); the files of an upload are there before its row and no
  other request works on them (`RowsOK`).
- `RedirectsNeverCircle` (`OnboardingProofs`): the redirects end for *every* state of
  cookies and tables, by cases on what `Reached` can be, so that theorem needs no
  invariant.
- `DatesReplaced`: `FoundAll` says that a save that was not crossed has found every
  day stored on the pieces it has done, so that what its commit leaves is exactly
  its own days. Another commit keeps that true (`FoundBeside`) because of
  `OneHolder`: of two saves of one dress that change the price, only one can have
  begun its pieces (`HowRowsAreTaken`, `StillOneHolder`), and one that does not
  change the price sets `crossed`. `RequestOK` ties a request to the dress of its
  cookie and to pieces of that dress; `CommitWritesAll` is the commit itself.
- `PathOfPublishedShopKept`: a profile form loaded after publication carries the
  path of the shop, whatever the cookie says (`LoadedOnThePath`), and saving what was
  loaded writes nothing (`PathOK`, kept by `PathsKept`).
- `EverySavedStepLeadsOn`: one lemma per form. The path chosen before is put back
  into the cookie (`CodeLeadsOn`); a saved profile makes the path that of the shop
  (`ProfileLeadsOn`); a saved dress has a piece, because each chosen size either
  has one that is not retired or is among the missing (`SavedDressHasAPiece`); the
  rest is what `Listed` then says of data that is `Undisturbed`.
- `SendsAreLimited` (`SignInProofs`): who has decided to send has counted the
  committed codes; those it could not see are in the hands of other browsers
  (`Open`) or lost with a death (`Lost`). `SendingOK` says that each open code has
  a browser and each lost one a death, so there is room for one more whenever
  another is sent (`RoomForOneMore`).
- `LimitsHold`, `NobodyIsLockedOut` (`RateLimiterProofs`): `IInv` has three parts.
  `BaseInv`: the clock, the queues, and that what `through` counts has passed.
  `LoginInv`: for every moment, the events that count for the window of that
  moment are still in the queue, or the window has passed and the threads that
  read the clock before still have room; `allow` reads the clock before its lock,
  so an old moment may be put behind newer ones. `RequestInv`: what the queue
  holds and the threads between `blocked` and `record` are together at most the
  limit and one for each other thread, and what was trimmed is out of the window.
- `EveryBookingIsSeen`, `OffersAreGood` (`ShopfrontProofs`) need `PageInv` on top of
  `NeverDoubleBooked`: no booking is or becomes a hold, a row enters the table as
  pending, confirmed or picked up, and `not_returned` is only written after its
  grace days, also by units of work that are stale. An item the queries call free
  takes the swap (`SwapFits`) and the request (`RequestFits`), because the
  constraint compares the same ranges.
- `ChangesAllowedInTurn`, `HeldUntilReturnedInTurn`,
  `DisplacesWhatIsInTheWayInTurn`: for all behaviours of `Spec` in which any number of
  sessions take turns (`TakeTurns`: at most one is between its read and its end;
  `OneSessionTakesTurns` says the run with one session is such a behaviour).
  `FreshInv` is the argument: what a session has in hand is what is stored
  (`Fresh`), what it decided still follows from it (`Decided`), and sessions at
  rest hold nothing (`Rests`). `StepShape` reduces every step to a commit, a
  decision or a wait. The hypothesis is needed: `bookings_handed_over` breaks the
  second one without it.
- `PhotosStayInOrder` (`CatalogueProofs`): `OrderInv` says, while nobody has
  overlapped, that one request at most is open (`Solo`), that every dress is in
  order, and that what the request is about to write continues that order: the
  rows of an upload carry the next numbers (`UploadInOrder`), a deletion has a
  rank for each photo that stays (`DeleteInOrder`), a publication has counted.
  Ranks without ties fill the numbers from nought (`RanksFill`, an injection
  between finite sets of one size).
- `TypeOK` of `Bookings`, `SignIn`, `RateLimiter`, `Catalogue` and `Onboarding` is
  proved as `TypeCorrect`.

Every invariant and every action property of the passing runs is proved. Only
model-checked: the liveness properties `RequestsAreAnswered`, `BookingsMoveOn` and
`EveryMessageSettles` (liveness under fairness and `ENABLED` are out of the
prover's reach, as is induction over data), and what the two violation runs
refute.

## Not modelled

- Customers and codes (`customers.py`, `codes.py`): insert-or-ignore statements
  and random codes tried at most twenty times. They decide nothing the other
  parts rely on; a clash that slips through fails one request on its unique
  constraint, as the dress codes of `Catalogue` do.
- The application shell: configuration, wiring, parsing, rendering, images.
- Of shop settings, names, contact channels and texts; of administration, the
  forms and lists beside kind, status and blocking.
- The waits inside the exclusion check (an insert waits for a conflicting
  uncommitted row): a commit step sees committed rows only, and a deadlock is an
  `Abort`.
- Multiple shops, phones and addresses: rows of two shops share no item, limits
  are kept by address and codes by phone, and nothing is checked across.

## Plan

Done, in order: `BookingStates`, `Bookings`, `ItemCalendar`; `RentalDates`;
`Outbox`; `Onboarding`, `Catalogue`; `SignIn`, `RateLimiter`; `Shopfront`; the
proofs named above. What is left:

1. A statement-level refinement of `Commit` (uncommitted rows, exclusion-check
   waits) to state which deadlocks exist.
2. Customers linked to shops, with two shops at once.
3. An abstract specification of the catalogue's photo order under requests that
   do overlap: how far the numbers can drift.
