# Formal models of the VTS backend

TLA+ models, model-checking configurations and machine-checked proofs for the
VTS backend (`src/`, NestJS on Node.js with PostgreSQL through TypeORM, Redis,
and an in-process event emitter): rides and parcel deliveries, driver
availability, merchants with their orders, stock, promotions and reviews,
vehicle rentals, mobile-money payments, driver trust and identity checks,
signing in, and the lists customers page through.

## How the program runs, and how the models cut it

One Node process serves every request. Nothing runs in parallel, but every
`await` lets another handler run, so **a handler is atomic only between two
awaits**. There are almost no database transactions and no row locks (checkout
and merchant reviews are the exceptions); correctness rests on conditional
`UPDATE`s, unique indexes and Redis commands, each atomic on its own. Event
listeners (`@OnEvent`) are started by `emit` and awaited by nobody, so they are
handlers of their own.

Every model is built the same way:

* a table is a function from ids to rows; a row keeps the columns some handler
  reads back, and the write-only ones (timestamps, addresses, prices) are left
  out;
* a handler in flight is a *call*: a record with a program counter and what the
  code holds in local variables (the loaded entity, the candidate list, ...).
  One action is the stretch of code between two awaits that touch shared state.
  Early checks that throw before anything changed are guards; later ones end
  the call;
* `repository.save(entity)` is two steps (module `TypeOrm`): TypeORM re-reads
  the row, then updates the columns in which the **whole loaded entity**
  differs from it. A stale entity therefore overwrites what others changed in
  between, including columns the handler never touched. Most of the hazards
  below come from this;
* `Calls` bounds how many handlers run at once. Slots are reused, so sequences
  of requests are unbounded; a bound of two or three limits only how many
  overlap.

## Inventory

| component | state | operations | hard behaviour | what makes it correct |
|---|---|---|---|---|
| rides (`modules/rides`) | `rides` table | request, dispatch (timer, merchant), accept, start, complete, cancel, offer to a driver who comes online | concurrent accepts, stale saves, overlapping timer ticks, calls that die | one winner, no way back to REQUESTED, planned deliveries released once and eventually, trust gate |
| driver presence (`modules/drivers`) | Redis geospatial set per vehicle type, a reference key per driver, `driver_profiles.is_available` | goOnline, goOffline, updateLocation, findNearby | three records changed by separate commands, overlapping calls of one driver | an offline driver is not found, a registered one is |
| matching | none (reads presence) | findCandidates | reads that are stale when used | only drivers of the ride's class, trusted enough |
| trust (`modules/trust`) | guarantors, companies, caps, `driver_profiles.trust_level` (materialised) | assign, verify, update, refresh, required level | the level is derived data, refreshed in later statements | the stored level is the derived one once refreshes are done; more value never needs less trust |
| kyc (`modules/kyc`) | documents, `driver_profiles.kyc_status` | edit the form, save a document, submit, review, reopen | event to trust after the role is granted, stale saves | nobody is approved without the documents, an approval stays |
| orders (`modules/orders`) | `orders`, their items and history | checkout, customer cancel, merchant transitions, follow the ride | order and ride are two rows kept in step by events nobody awaits | an order follows its ride and claims no progress the ride has not made; a charge is between zero and the full price |
| inventory (`modules/inventory`) | `products.stock`, movements | lock, reserve, setStock | row locks in checkout, none in the edits | the movements tell the stock; checkouts do not deadlock |
| merchants | merchants, catalogue, promotions, reviews, pictures | create, read, update, delete; planned deliveries; reviews under a row lock | load, check and save later; a file and a row that names it, which an edit may name as well | valid promotions, averages that agree with the reviews, no upload leaves a row that names a missing file |
| payments (`modules/payments`) | transactions, callback events; the provider's ledger outside | collect, pay out, refund, callback, query | lost answers, repeated callbacks, a callback route nobody can reach, idempotency keys, calls that die | money is requested once, refunded only if paid, PAID is true and final; what is settled becomes PAID (it does not) |
| rentals (`modules/rentals`) | vehicles, bookings | book, accept, start, complete, cancel, edit | count-then-insert, stale saves | units are not oversold, one driver, cash settled on completion |
| auth and otp | Redis codes, attempts and cooldowns; refresh-token hash | request, verify, refresh | read-verify-delete on Redis, keys that expire | a code signs in once and locks after too many tries, a refresh token is good for one use each time it is issued |
| ratings | ratings, `driver_profiles.rating_avg` | rate, recompute | aggregate computed and stored in separate statements; a driver is rated as a client as well | a rating leaves the average right |
| discovery | none (reads the tables of the others) | feed, activity | pages over lists that change, sources that fail, cursors coarser than the order | the pages are one list, and nothing is skipped |
| notifications, realtime, routing, geocoding, pricing, configuration | device tokens, sockets, rate cards | best-effort delivery, reads, pure functions | none decides anything another component reads | not modelled |

Interaction: a merchant's order requests a ride and follows it through
`RIDE_UPDATED`; checkout locks and reserves the stock that merchants edit, and
picks one of their promotions; rides ask matching, which reads presence and
trust; accept takes the driver out of presence; `DRIVER_ONLINE` makes rides
offer what is pending; `kyc.approved` makes trust refresh. Payments and rentals
stand alone.

## Modules

| module | models | state and actions in terms of the code |
|---|---|---|
| `TypeOrm` | `Repository.save` (library, from how the services use it) | `DirtyColumns` is the comparison after the `SELECT`, `SavedRow` the `UPDATE` |
| `Rides` | `rides.service.ts` whole | `rides` and `bookings` are the table, `due` the clock, `pool` the availability index, `offers` the drivers' screens, `level` the stored trust levels; `winners` and `dispatches` are history. `Request`, `OfferFind`, `Offer`, `DispatchRead`, `TimerTick`, `DispatchClaim`, `AcceptRead` ... `Withdraw`, `StartRead`, `CompleteRead`, `CancelRead`, `SaveReload`, `SaveWrite`, `GoOnline`, `OnlineFind`, `OnlineOffer` are the stretches of the handlers in source order |
| `RideClaim` | what accepting promises, abstractly | an item is published, held by one claimer for good or withdrawn |
| `RideMoves` | how a ride's status may move, for those who follow it | `SerialMovesAreLegal` shows that `Rides` moves so |
| `RidesSerial`, `OrdersSerial` | behaviours whose kind is chosen at the start: calls on one row follow one another, overlap, or (orders) die | a constraint on the steps of `Rides` and `Orders`, and the properties that only serial behaviours have |
| `Rentals` | `rentals.service.ts` | `book` is find, count, insert; accept is one conditional `UPDATE`; the rest load, check and save |
| `Payments` | `payments.service.ts` | `txs` the transactions, `inbox` the stored callback events, `ledger`, `sent`, `acked`, `requests` the provider outside the program; `thrown` is history. `CallbacksArrive` says whether a callback gets past the controller: as deployed it does not |
| `Orders` | `orders.service.ts` with the rides it requests | `orders` and `history` (newest row) are the tables, `rides` the part of the rides table an order depends on; `MoveRide` is the ride service emitting `RIDE_UPDATED`, which starts a listener call (`ListenerFind`, then the save) |
| `Presence` | `driver-presence.service.ts` with the three handlers of `drivers.service.ts` | `geo`, `ref` are the Redis keys, `profiles` the row; each Redis command is an action |
| `Stock` | `inventory.service.ts`, checkout's transaction and the merchant's edits of products | `products` is the table, `ledger` the sum and the newest balance of all of a product's movements, `dropped` and `torn` history: units that went when tracking ended, and products whose call stopped before its movement. `Lock` is one row of `SELECT ... FOR UPDATE`, in the order of the ids; what a checkout has `seen` is also what it has locked. `Reserve` commits, `Refuse` rolls back; `SetStockRead`, `SaveReload`, `SaveWrite`, `Record` are the stretches of `setStock()`, `Stop` the end of a call that fails |
| `Promotions` | a merchant's promotions and `bestPromotion()` | `UpdateRead` validates the loaded row with one field changed and saves it later; `BestDiscount` and `Charge` are the loop and the total of checkout |
| `Trust` | `kyc.service.ts` and `trust.service.ts` | `rows` are the tables of profiles, guarantors and companies; a call saves (`SaveReload`, `SaveWrite`) and then, if it changed what a level depends on, refreshes each driver concerned (`RefreshRead`, `ReadCompany`, `ReadGuarantor`, save). After an approval the role is granted first (`Grant`). A call may end anywhere (`Die`); `missed` has the drivers it was still to refresh. `undefined` columns are those `save()` skips |
| `TrustCaps` | the caps of the trust levels and `getRequiredTrustLevel()` | `UpdateConfig` is an administrator's edit, `RequiredLevel` the loop over the caps in the order of the levels |
| `Ratings` | `createReview()`, the merchant's edits of the row it locks, ratings of drivers | `ReviewBegin` locks the row, `ReviewInsert` and `ReviewCommit` follow; `SumRides`, `SumRentals`, `WriteAverage` are the statements of `recomputeDriverAverage()`. `Taken` are the driver's own trips as a client: rating the driver there adds to the sums and recomputes nothing |
| `Uploads` | pictures of stores, categories, products and drivers' documents | `disk` is the upload directory; a handler loads, saves, removes the old file or undoes the new one; an edit of a product may write any name into its `imageUrl` (`EditRead`). `blamed` marks files of requests that were turned down or died, or of documents that could not be saved, which the code does not promise to remove; `byHand` those that an edit named or let go of |
| `Accounts` | `otp.service.ts` and `auth.service.ts` for one person | `redis` has the pause, the code and the counter, each with its expiry (`Expire`); `Sign` gives a new token or the one of this second (`Tick` ends it), `StoreToken` its hash; `tally` counts what became of each code and token |
| `Pages` | `feed()`, `activity()`, `listReviews()` | a customer asks for a page, each source answers (`Answer`) or fails (`Fail`), and `Reply` sorts, drops what is up to the cursor and cuts; rows appear and vanish in between. `Truncated` is a review as its cursor knows it, to the millisecond; `Leaves` says which rows a query's take may leave out |
| `People` | rentals, trust, caps, ratings, files, accounts and pages side by side | one part moves in a behaviour (`PartSpec`); says which of its calls may overlap |
| `Market` | presence, stock and promotions side by side | the same |
| `...Props` | the properties of each module | |
| `RidesProofs`, `OrdersProofs`, `PaymentsProofs`, `RentalsProofs`, `TrustProofs`, `UploadsProofs`, `PeopleProofs`, `MarketProofs` | theorems | the last two: of the parts side by side, averages, signing in, pages, stock and promotions |
| `MCRides`, `MCRidesRace`, `MCOrders`, `MCPayments`, `MCPeople`, `MCMarket` | small instances | values of the constants, symmetry; `BoundedSpec` of `MCOrders`, `MCPeople` and `MCMarket` leaves out some overlaps and rows to keep the runs small |

Operators whose comment says *Mutant of X* are not part of any specification.
They record bugs the neighbouring definition could plausibly have had; putting
one in the place of X makes the property named in `PROJECT.json` fail, which
shows that the property depends on that line of the code.

## Runs

Every run switches deadlock checking off: users may stop sending requests.

| run | instance | shows |
|---|---|---|
| `rides_race` | one ride of any kind (at once, parcel, planned), two drivers, two calls and a timer tick | one winner, the claim, one dispatch and the trust gate under every interleaving (levels stand still); in serial behaviours legal moves and settled cash |
| `rides_due` | two planned parcels, batches of one, a level that moves, two calls that die | `DueIsDispatched` under fairness |
| `payments_once` | one key with its refund, three calls, callbacks of every status, lost answers, one call that dies | money is asked for once, refunds are of paid money, PAID is true and final, one applier per callback, if callbacks get in |
| `payments_found_settle` | one call, no answer lost, none dies, callbacks repeated until answered 200 | refutes "This endpoint is PUBLIC (no auth) - called by payment providers": no callback gets in, and a payment that settled stays PROCESSING |
| `payments_found_ack` | two calls, one dies | refutes "idempotent callback handling": the event row outlives the call that should have applied it |
| `orders_race` | two handlers that overlap on one order with two rides, or with one ride and a handler that dies, or, in serial behaviours, two orders and two rides | an order claims no progress its rides have not made; in serial behaviours it says what its ride says, a cancelled one has no ride, the history is a path and a completed trip is reported |
| `orders_found_cancelled` | one order, two overlapping handlers | refutes "customers cancel only while an order is pending" |
| `presence_found_ghost` | one driver, two calls | refutes "Removes a driver from availability" |
| `people` | rentals, trust, caps, ratings, files, accounts, pages: one of them moves, with two calls | fifteen properties of those seven parts, below (560,000 states) |
| `market` | presence, stock, promotions: one of them moves, with two calls | five properties of those three parts, below (230,000 states) |
| `trust_found_cleared` | one driver, one call, nothing overlaps | refutes "pass neither to clear both links": `assign()` turns null into `undefined`, which `save()` skips |
| `discovery_found_gap` | four merchants, one a page | refutes "paginates via an opaque cursor without gaps": each page asks for the nearest `limit * 3` again |

`people` and `market` put parts that share no state into one run. The variable
`part` is chosen at the start; the part it names takes its steps as its own
specification has them and the others keep their initial state, so the reachable
states are those of the parts side by side, and nothing is hidden by the
combination. Parts that do not move have one initial state, which keeps the
sides from multiplying. `MCPeople` leaves out, to keep the run small: where requests about a driver
overlap, assignments, changes of sponsors and calls that leave a level behind
(levels are a matter of serial behaviours there); where requests to sign in
overlap, deaths and a second code after the first token; reviews of a merchant in
behaviours that rate a driver; timelines with more than two ids of rides and one of
each other kind; edits that name more than one file by hand; and bookings by the
second driver. The theorems have them all.

| part | what it has | properties |
|---|---|---|
| rentals | one vehicle of one or two units, two bookings, calls that follow one another but for accepts | `NotOversold`, `RentalIsConsistent`, `ImplementsClaim` |
| trust | one driver, one guarantor, one company, one required document, calls that fail | `LevelIsDerived`, `ApprovalStays` (serial), `ApprovedHasDocuments` (overlapping too) |
| caps | three levels, caps and values out of three amounts | `RequiredLevelGrows` |
| ratings | a merchant of two orders, a driver of a ride and a rental who took another ride as a client | `MerchantMeanAgrees` (edits alone), `RatingHeals` |
| files | two pictures, one of them a product's, one document, three files, crashes | `PictureExists` (edits alone), `NoFileIsLost` (serial) |
| accounts | two codes, two tokens, seconds that pass, two tries, one death | `CodeIsGuarded`, `TokenIsUsedOnce` (once when serial, once per overlapping call else) |
| pages | up to three rows of any list, pages of one, milliseconds of two microseconds | `PagesInOrder`, `NoRowIsSkipped` |
| presence | one driver, two vehicle types, one call that dies | `RegisteredIsFound` |
| stock | two products of up to two units, calls that fail, tracking that ends and starts again with up to one unit dropped | `LedgerTellsStock`, `CheckoutEnds` |
| promotions | two promotions of any type, three moments | `PromotionsAreValid`, `ChargeIsFair` |

Why the bounds are enough. Rows of one table do not interact except through the
pool (rides), the count of active bookings (rentals), the locks of a checkout
(stock) and the sponsor two drivers share (trust, where a refresh is of one
driver at a time), so one ride, or as many bookings as oversell a unit plus one,
carries every interaction; two products suffice to lock in two orders. A lost
update needs a stale call and one that overtakes it; two calls and a tick, or
three calls, add a third that observes. Two drivers suffice to lose a claim; two
trust levels to fall short of one; three rows on pages of one to have a page
before, at and after a change. `CandidateLimit`, `BatchLimit`, `MaxAttempts` and
`Take` are 5, 50, 5 and `limit * 3` in the code; what matters is that they can be
smaller than what they select from, or reached.

### What overlapping calls break

Where a behaviour is *serial*, the calls on one row (or, in `people` and
`market`, of the part that moves) follow one another, and the property says what the
handlers do then, because the code does not do it otherwise: `start()`, `complete()` and
`cancel()` of rides and bookings check an entity and save it later, and `book()`
counts units before it inserts. Left free, TLC reaches

* a cancelled ride that is started, a completed one that is cancelled, and a unit
  booked twice ("Reject when every unit is already held by an active booking",
  `rentals.service.ts:167`);
* a driver on a trip who goes online and is found again (`rides.service.ts:283`),
  an offer that stays on the screen of a driver the second lookup does not return
  (`:287`), a trust level lowered between the gate and the claim (`:242`);
* a paid payout that is refunded (`payments.service.ts:144`);
* a reservation undone by a `setStock()` or a product edit that loaded the row
  before (`inventory.service.ts:26`), which is why `LedgerTellsStock` is stated
  for merchants' calls that are alone with their product;
* a promotion neither of two updates has checked (`merchants.service.ts:448`);
* a level computed from a sponsor that another call has just changed
  (`trust.service.ts:108`), and an approval taken back by a stale save of the form;
* the count and the average of a merchant overwritten by an edit that loaded the
  row before a review (`merchants.service.ts:303`), which is why edits are alone;
* a code that signs in twice and a refresh token that buys two pairs
  (`otp.service.ts:88`, `auth.service.ts:85`): `CodeIsGuarded` and
  `TokenIsUsedOnce` allow one per request that runs at the same time, no more;
* a driver's average that misses a rating which overlapped
  (`ratings.service.ts:157`): `RatingHeals` says a rating that none overtakes
  repairs it;
* a new file nobody names after two overlapping uploads to one slot.

Some exceptions need no overlap and are named in the properties themselves: a
product's `imageUrl` typed by hand may name a file that is missing or another
row's, whose next upload removes it (`merchants.service.ts:378`); two reviews of
one millisecond may be shown twice or skipped (`merchant-engagement.service.ts:71`,
TLC finds both when the exception is dropped); a refresh within the second of
the last issue gives the same token, good for another use (`auth.service.ts:139`);
units a merchant stops counting leave the ledger ahead of the stock
(`inventory.service.ts:32`), and a call that stops between a save and its
movement, or before a level is refreshed, leaves the second behind
(`inventory.service.ts:35`, `kyc.service.ts:185`).

No property of a run excludes these; they are what the handlers, as written,
leave to chance.

### Fairness

`LiveSpec` of `Rides` assumes that a call in flight takes its next step (an
awaited query answers) and that the timer keeps ticking (`setInterval`,
`rides.service.ts:69`). `Presence`, as part of `market`, assumes that calls in
flight go on and that a registered driver's positions keep arriving (the driver
application sends them while online). `Stock` assumes strong fairness of a call
in flight: PostgreSQL grants a row lock to those who wait in turn, so a checkout
that finds its next row free again and again gets it. `Orders` assumes that
handlers and listeners in flight go on. `Payments` assumes that calls in flight
go on and that the provider repeats a callback until it is answered 200, the
contract of its webhooks; that asks nothing of a callback the controller never
lets in, which is what `payments_found_settle` shows. No user is ever obliged to
send a request.

## What is proved

Every safety property that a passing run checks, invariant or action property,
is a theorem for all values of the constants. Eight modules hold the proofs:

| module | about | specification in the theorems |
|---|---|---|
| `RidesProofs` | any rides, clients, drivers, calls, timers, bookings, levels and limits | `Spec` of `Rides`; `EitherSpec` of `RidesSerial` |
| `OrdersProofs` | any orders, rides, users, calls and number of calls that die | `Spec` of `Orders`; `KindSpec` of `OrdersSerial` |
| `PaymentsProofs` | any keys, calls and notices, lost answers or not, any number of calls that die | `Spec` of `Payments` |
| `RentalsProofs` | any vehicles, bookings, users, calls and quantities | `Spec` of `Rentals` |
| `TrustProofs` | any drivers, sponsors, documents, calls, amounts and caps | `Spec` of `Trust`; `CapsSpec` of `TrustCaps` |
| `UploadsProofs` | any rows, files and uploads | `Spec` of `Uploads` |
| `PeopleProofs` | any finite number of calls, and any orders, trips, codes, tokens, files and rows | `PartSpec` of `People`, the parts side by side |
| `MarketProofs` | any products, quantities, promotions, prices, dates and calls | `PartSpec` of `Market` |

Bounds that only make an instance small are in the `MC...` modules. Where a
`BoundedSpec` leaves out some overlapping calls or some rows (`MCOrders`,
`MCPeople`, `MCMarket`), the theorem is about the specification without that
restriction, of which the bounded behaviours are some.

The assumptions are those named in the modules (`...Assumption`): `NULL` is no
id, levels, quantities, prices and limits are numbers of the right kind, calls
and timers are different slots, rides and rentals are finitely many and
different. TLC evaluates each of them on the runs.

The hypotheses of some theorems say when the code keeps the promise at all; each
comes with the counterexample that shows why, in "What overlapping calls break".
The run checks the property under the same one: `rides_race`
and `orders_race` choose at the start whether the behaviour is serial, and `people`
and `market` admit the overlaps that the hypothesis admits: there it is built into
`PartSpec` and the theorem says no more than that.

### Rides

| theorem | says |
|---|---|
| `TypeCorrect` | `Spec => []TypeOK` |
| `ClaimIsExclusive` | at most one driver wins a ride |
| `AcceptedIsAssigned` | an accepted ride has a driver |
| `DispatchIsOnce` | a planned delivery is released at most once and before it is claimed |
| `ClaimedForGood` | a ride that left REQUESTED never returns |
| `Implements` | `Spec` implements `RideClaim` under the mapping of `RidesProps` |
| `ScreensRespectTrust`, `TrustIsRespected` | while levels do not move (`~TrustMoves`), whoever is shown a parcel, or wins it, meets its requirement |
| `SerialTripsFit` | if calls on one ride follow one another, status, driver and cash fit: a trip has its driver and cash is settled exactly when it is done |
| `SerialMovesFollowTheRules` | if they do, no step moves a ride but along `RideMoves` |

The argument. `OneWinner` alone is not inductive: a stale save may write any
column of an old row. `Safe` adds what the code implicitly relies on: a ride
still REQUESTED has no winner and no driver; a call that is about to save holds
a copy whose driver is `NULL` or the winner, and whose status is never
"requested", so the save cannot reopen the ride; a copy with the status
"in_progress" or "completed" names the winner; and if the row is already
accepted while a copy without driver is about to be written, the copy cancels.
`Typed` adds to the types which fields a program counter needs. `Eligible`, for
trust, says every call past the gate or on the way to a screen is about a
trusted driver. `Alone`, for serial behaviours, says that the entity about to be
saved is the row, one legal move on (`Current`). Each invariant is proved by one
lemma per action and combined by the temporal prover.

`SerialMovesFollowTheRules` is what lets `Orders` be checked and proved with
rides that move along `RideMoves` in place of the whole ride service.

### Orders

| theorem | says |
|---|---|
| `TypeCorrect` | `Spec => []TypeOK` |
| `ProgressIsTrue` | an order claims no driver, pick-up or delivery that no ride of its own has had, and never points at another order's ride |
| `OrdersFollowRides` | if handlers and listeners of an order follow one another and none dies, an order that nobody works on says what its ride says |
| `CancelledOrdersHaveNoRide` | if they do, a cancelled order has no ride |
| `HistoriesArePaths` | if they do, each row of the history starts where the last one ended and is a step of the rules |

The argument. A stale save joins two versions of a row column by column, so
`Kept` speaks of each column alone (`Backs` of the status, `Owns` of the ride)
and of the copies that calls hold as well as of the rows. What either says stays
true because a ride never forgets its order or the statuses it has had
(`StaysGood`); a listener sets only the status its update is the evidence of
(`FollowsEvidence`), and what merchants and customers set claims nothing of a ride
(`AllowedClaimsNothing`). In serial behaviours `Alone` says of each order that it
is up to date with its ride and its history, or that one call is about it, and
then, by the place where the call is, what is missing (`Missing`): the status to
be saved, the row of the history, the ride to be requested or cancelled.

### Payments

| theorem | says |
|---|---|
| `TypeCorrect` | `Spec => []TypeOK` |
| `MoneyIsRequestedOnce` | the provider gets at most one request per transaction |
| `PaidIsPaidAtProvider` | a row that says PAID is PAID at the provider |
| `RefundsAreOfPaid` | a refund is requested only of a paid original |
| `CallbackHasOneApplier` | of overlapping deliveries of a callback one applies it |
| `PaidForGood` | PAID is final, as long as the provider has told only what is final and no save of an answer of its has thrown |

The argument. `PaidIsReal` is not inductive: `save()` writes only the columns
that differ from the row it read again, so a status could be joined to another
call's reference. `IInv` says why it is not. `OneSetter`: a row without a
reference has at most one call between the provider and the write, because the
unique index let one call insert it. Every call that starts from a callback or
a query holds the reference the row has (`CallGood`), so a save either sets the
first reference, and then the row was not PAID, or changes none. `Backed` says
of rows and of copies in flight that PAID is PAID at the provider and that a
reference is known there; `SentGood` says it of callbacks; the provider never
unpays. `RowGood` ties the count of requests to the row and to the ledger, so
the provider never has an entry to overwrite. One lemma per action; `QuietStep`
and `BusyStep` carry what all share, and `StaysGood` shows that a step of one
call leaves the others good.

For `PaidForGood`, `Sticky` adds that a row or a copy may be behind the provider
and never ahead of it, so what is saved over a row that has its reference is a
last word. The two conditions of `Steady` are needed: a PROCESSING notice that comes after
PAID is applied, and a save that throws in the `try` block is answered by the
`catch` with FAILED. That they hold after a step means that they held before
(`SteadyBefore`), so the invariant may assume them.

The theorems hold whether callbacks arrive or not.

### Rentals

| theorem | says |
|---|---|
| `TypeCorrect` | `Spec => []TypeOK` |
| `Implements` | `Spec` implements `RideClaim`: one driver takes a booking and it is never on offer again |
| `RentalsFit` | if requests on one booking follow one another, status, driver and settlement fit each other |
| `UnitsAreThere` | if those on one vehicle do, no booking takes a unit that is not there |

The argument. A stale save may write any status over any other, so the statuses
themselves jump. `Kept` says what no save can do: the status of a copy that is
about to be saved is one of a booking taken or closed (`Good`), and a save that
leaves the status out has seen the row in such a status (`Informed`), so a row
never returns to REQUESTED; a booking on offer has no winner and a booking has at
most one (`WonOnce`). Every action either moves a call alone (`CallMoves`) or one
row forward (`RowMoves`). `Alone` adds, for `[]OneAtATime`, that a save is one
step ahead of its row (`Ahead`; only the driver may have changed meanwhile, and
only if the save cancels) and that the count a booking took is still true, or
too high, when it inserts (`Counted`).

### Trust

| theorem | says |
|---|---|
| `TrustGrowsWithValue` | whatever caps an administrator enters, a dearer parcel never requires less trust |
| `ApprovedByDocuments` | however requests, listeners and stale saves interleave, nobody is approved without the required documents |
| `LevelsAreDerived` | if they follow one another, once nobody works each driver's level is that of the present documents and sponsors, but for drivers whom a failed call was to refresh |
| `ApprovalIsForGood` | if they do, no step takes an approval back |

The argument. The first needs only that every level has a cap: the smallest level
that covers a value covers every smaller one. For the second, a stale save may
write an old approval, so the invariant speaks of copies too: every row and every
loaded profile that says approved was approved with the documents there
(`Backed`), and documents are replaced but never removed, so what was backed stays
backed. For the third, `Derived` says which drivers' levels the call at work is
still to see to (`Due`), or that a call which failed has left behind (`missed`): those linked to the sponsor it has changed, those it has
yet to refresh; and that what it has read of the sponsors on its way is so. The
run has one driver; the theorem has any number who share sponsors.

### Uploads

| theorem | says |
|---|---|
| `PicturesExist` | if edits do not overlap uploads to their row, the picture a row names is on the disk, unless an edit named it or let go of it by hand |
| `NothingIsLost` | if uploads follow one another, once nobody works the disk holds the files that rows name, but for those of requests that died or were turned down, of documents that could not be saved, and of edits by hand |

The argument is about who mentions a file. The file of an upload whose row is not
saved yet is on the disk and nobody else mentions it (`Apart`); no two rows name
one file (`RowsApart`), files named by hand excepted; and the file that an upload is about to remove was its
row's, is so no more, and is no other row's (`Good`). So a file that goes is named
by no row, and a row that changes names a file that is there. The invariant needs
that no picture is a document, because a document is removed before its row is
saved. `Swept` adds, for uploads that follow one another, that the disk holds
what the rows name, plus the file only the call knows (`Extra`), less the document
it has removed already (`Gone`).

### People: averages, signing in, pages, and the parts side by side

| theorem | says |
|---|---|
| `MeansAgree` (`AverageIsTrue` of `Ratings` alone) | if the merchant's edits are alone, as `PartSpec` has them, count and average are those of the reviews, however these overlap |
| `AveragesHeal` | a client's rating that no other one overtakes leaves the driver's average that of all ratings the driver has got, as driver or as client, whatever overlapped or died before |
| `CodesAreGuarded` | a one-time code is accepted at most once per overlapping call, and locked after the allowed wrong tries, but for those under way or dead |
| `TokensAreUsedOnce` | each time it is issued, a refresh token buys at most one pair per overlapping call; tokens of one second are the same |
| `PagesAreOneList` | all pages together are one list in order, and nothing is shown twice, but for reviews of one millisecond |
| `RowsAreShown` | a row that was there all the time is in a page, if no query failed or was cut short and it is not one of several reviews of a millisecond |
| `PicturesExist`, `NothingIsLost`, `ApprovalsHaveDocuments`, `LevelsAreDerived`, `ApprovalsAreForGood` | what `UploadsProofs` and `TrustProofs` prove, of `PartSpec` |

Merchants: the review that has locked the row is the only one, and before its
commit it holds the count and the average as the commit will leave them; an edit
that is alone holds those of the row and writes them back (`MeanKept`).

Drivers: a call knows which ratings there were when it inserted its own, and if
there are no others, what it has summed is the sum over them (`Rates`). That the
sum over rides and the sum over rentals add up to that of all trips needs lemmas
about sums over finite sets: the fold of the community modules takes the elements
in an order of its own, and `SumsAgree` shows that any function with its recursion
is the one it computes.

Signing in: `Told` relates what is in Redis to the calls in flight: a code is set
once, the request that sets it is alone between the pause and the set, and a code
that was accepted is not there any more. `Counted` counts: how often a code was
accepted plus the calls that have read it and will accept it is at most the
number of calls that may overlap; every wrong try is in the counter, on its way
there, or died; and a counter at its limit has a call that will lock, or one died.
`HowManyMove` says how such a count changes when one call moves.

Pages: `Before` is a strict total order on the rows of one list (`BeforeIsAnOrder`),
so there is one way to sort what the queries have brought (`SortedIsInOrder`).
What the cursor does not tell apart are reviews of one millisecond, which
`Crowded` excepts. `Walks` says that what was shown is in order, that the cursor is the last row
shown, and that a row that was there all the time was shown or is ahead of the
cursor, and is brought by the queries that are out, or already was.

The parts: `People` moves one part at a time. `TrustProofs` and `UploadsProofs`
are instantiated with the variables of the part (`TrP`, `UpP`), their initial
states and steps are shown to be those of the part, and so their invariants are
invariants of `PartSpec`. `RentalsFit`, `UnitsAreThere`, `Implements` and
`TrustGrowsWithValue` are stated of `Rentals` and `TrustCaps`, which `People`
extends.

### Market: stock and promotions

| theorem | says |
|---|---|
| `LedgerStaysTrue` (`LedgerIsTrue` of `Stock` alone) | if merchants' calls are alone with their product, the newest movement of a counted product tells its stock and all of them add up to it and to what was dropped when tracking ended, whenever nobody works on it, but for products whose call stopped before its movement |
| `ChargesAreFair` | the loop of `bestPromotion()` finds a best promotion and checkout charges between zero and the full price |
| `PromotionsCanBeApplied` | if updates of a promotion follow one another, what they leave can be applied |

Stock: the invariant says what a call knows (`InOrder`): a checkout that
has locked a row has seen it as it is, and a merchant's call that is alone holds
the row it will overwrite, so its save makes the row its copy; once it must still
store a movement, the ledger tells the stock it remembers as the previous one.
`LocksExclude` keeps two checkouts from one row. `Told` says that the ledger of a
counted product is behind only while a movement is still to be stored; a call that
stops there leaves the product in `torn`, of which nothing is said any more.

Promotions: a discount is between zero and the subtotal, whatever type, minimum
and dates (`DiscountIsLimited`), and a pass of the loop keeps the better one
(`RoundBeats`); so the fold over any finite set of rows has one that no other
beats (`BestBeats`). An update that is alone validates the row it will write.

### Induction, and what stays with TLC

What a fold computes for every finite set, and that rows can be sorted, needs
induction over sets. The library's induction theorems take an operator as a
parameter, which the provers cannot instantiate; here it is by contradiction on
the smallest set for which the claim fails. `LeastNumber` gets it from the
library's `WFMin`, which is about sets, and `SmallestSet` from that.

Only model-checked:

* liveness: `DueIsDispatched`, `RegisteredIsFound`, `CheckoutEnds`,
  `SerialDeliveryIsReported`. They rest on fairness and `ENABLED`, which are beyond
  the prover. `RegisteredIsFound` is the only promise of `Presence` that the code
  keeps, so that module has no theorem;
* what the runs refute, six statements of docs and tests: a counterexample needs
  no proof.

## What the models leave out

* `RideOffer`, `RideStatus.NO_DRIVER`, `InventoryService.releaseOrder` and the
  quote from persisted rate cards are declared by the code and used by nothing.
  Because nothing calls `releaseOrder`, the units of a cancelled order do not come
  back.
* Distances, prices and routes: matching may return any few drivers of the pool.
  Pricing is a pure function of a distance and a rate card that nothing compares;
  routing is an external service with a fallback and keeps no state.
* `payments.controller.ts` hands the service a body; its own parsing is not
  modelled. What it does to callbacks is: the guard of the whole controller
  answers a provider 401, and as `main.ts` enables no raw body, a caller with a
  token is taken to have sent an empty one, for which the adapter makes up a
  reference nobody knows (404). `CallbacksArrive` is FALSE for the program as it
  is; the runs and theorems about the service's handler let callbacks in, to say
  what it does once the route is what its comment says. Nothing calls
  `queryTransaction()`; it is an action that no fairness obliges to run. A
  PROCESSING callback that arrives after PAID is applied by the code and moves the
  payment back, which `PaidSticks` excepts.
* The provider's ledger is durable and answers callbacks truthfully.
* A process crash loses the calls in flight and nothing else (`Abort`, `Crash`,
  `Die`): state is in PostgreSQL, Redis and the upload directory, whose durability
  is assumed.
* Signing in: `logout()` passes `undefined` to an update that skips it, so no
  token is withdrawn and nothing changes; the limiter of requests per minute, the
  verified flags and the array of roles are left out.
* Merchants: applications, favourites and the reads of the
  catalogue insert, delete or read single rows. Order analytics and the search are
  reads.
* Notifications, sockets, configuration, migrations and bootstrap: delivery is
  best effort and no decision reads it; the unique indexes the migrations create
  are part of the models whose tables they guard.

Known hazards outside the list of `PROJECT.json`, which no property here covers:
a `goOnline()` during a trip makes a driver available again (no code looks at
trips there); the reviews of a page are selected up to the take before the
cursor is applied, so those beyond the take are never reached; the fallback of
the spatial query never runs, because the query is returned without an await
inside the `try` (`merchants.service.ts:110`), and what it gives as its order is
a `Raw` condition and no distance, for which the model lets the take leave out
any merchant; two applications of one user may both be inserted; an approval
whose grant of the role fails leaves the driver approved without the role; a slow
failing message provider deletes the keys of a newer code.

## Where it could go on

1. Rides and orders in one specification: `Orders` has the ride service as the
   moves that `SerialMovesFollowTheRules` allows, and a refinement could say so
   for the two side by side.
2. An abstract specification of signing in and one of the stock, next to the
   counts that are proved now.
3. The composition of `Stock` with the rest of `Orders`, if the code comes to
   release the units of a cancelled order.
4. Sockets and device tokens, if a decision comes to depend on a delivery.
