# DishFlow: TLA+ models and proofs

DishFlow is an ordering system for restaurants: a mini program for customers, an
admin web app for staff, an HTTP API (`cmd/serve`) and a worker (`cmd/worker`),
over MySQL (InnoDB, REPEATABLE READ) and Redis. API and worker may run in several
replicas. This directory models the parts of it that keep state: the tables an order
lives in and the way money reaches them, what customers use on the way to an order,
and what staff and operators change behind it.

    tlc -config MCOrderStore_stock.cfg MCOrderStore    # one of the runs below
    tlapm Trading_proofs.tla                           # the proofs of one module

Paths below are relative to `src/`; `orders/` stands for `internal/orders/`, and so on.

## 1. Inventory

| Part | State | Operations | What is hard, and what must hold | Module |
|---|---|---|---|---|
| Order store (`orders/`) | `orders` (state, version, pickup_no, paid_at, release mark), `order_events` | Create, Cancel, Transition, StaffRefund, ReviewCancelRequest, MarkRefunded | Staff act from old screens; customer, staff, worker and provider race. A version must name one state; what an order holds must follow from its state. | OrderStore |
| Daily inventory (`inventory/`) | `daily_inventory`, `inventory_reservations` | reserve, move to sold, release, Adjust | Counters kept beside the rows they count; nothing is sold twice. | OrderStore |
| Pickup slots (`orders/create.go`, `pickup/`) | `pickup_slot_capacity` | reserve, release, offer times | Released by two pieces of code. No place may leak, none be given twice; the times offered are those the store is open. | OrderStore, PickupSlots |
| Worker (`worker/`) | what it has claimed; `outbox` | claim, handle, mark, retry, give up; expiry job | Stops anywhere, runs in replicas, handles an event twice. Events take effect, once. | OrderStore, Trading, Points |
| Payments, callbacks (`payments/`, `callbacks/`, `customer/payments.go`) | `payments`, `webhook_events` | Prepay, ConfirmMockPayment, the provider's report | Repeated and late reports, ids of reports seen before, a lock that does not last, an order that changed meanwhile. Order and money must agree. | Trading |
| Refunds (`refunds/`, `customer/cancel.go`, `admin/orders.go`) | `refunds` | Create, MarkSuccess | Three transactions in a row; the process stops in between. No payment goes back twice. | Trading |
| Points, memberships (`members/`) | balance, `member_points_ledger`, member numbers | Join, AwardPoints, ReversePoints, AdjustPoints | The balance is read without a lock and written as an absolute value; joining is several statements. | Points |
| Quotes, idempotency (`pricing/quote.go`, `reliability/`, `orders/create.go`) | quotes in Redis, `idempotency_keys` | preview, look up, create, delete | Requests overlap, are cut off and come again. One order per quote, one answer per key. | Checkout |
| Promotions, coupons (`marketing/`) | templates, `customer_coupons` | Claim, use at payment | One coupon in two quotes and two orders; events of orders that were cancelled meanwhile. | Checkout, Pricing |
| Pricing (`pricing/`) | none | Validate, Price | Ties, thresholds, discounts beyond the price. | Pricing |
| Customer login (`customerauth/`) | `customers`, `customer_sessions` | login | Two first logins of one person. | Bearer |
| Menu, recycle bin (`menu/`, import in `export/`) | categories, dishes, batches | create, change, delete, restore, import | Deletions that decide without a lock; a bin with a window counted in whole days. | Menu |
| Dining tables (`tables/`) | `table_token`, code | create, rotate, resolve | Rotations that overlap. | Tables |
| Purchase lists (`materials/`) | list, items, version, trail | AddItem, Submit, Complete, ... | Two members of staff decide on one version. | PurchaseList |
| Platform (`platform/`) | stores, `shop_members`, applications | approve, reject, assign an owner, page | Reviews and assignments overlap; a failed one is rolled back. | Platform |
| Sessions (`authn/`) | `admin_sessions` | login, renew, logout, gates | Renewal from an old row; a role read before it is used. | Sessions |
| Migration tool (`cmd/migrate`) | schema, `schema_migrations` | up, down, redo | DDL commits by itself; the tool stops anywhere, or runs twice. | Migrate |
| Connection pool (`storage/db.go`, `export/`) | connections in use | query, end of rows | A request that asks for a connection while it holds some. | ConnPool |
| Printing, mini program, admin app, HTTP plumbing, configuration, analytics, audit | | | No protocol between actors (section 7). | none |

How they interact: the API calls the stores, each in transactions of its own; payments
and refunds reach the order only through rows of `outbox`, which the worker claims; the
order store moves inventory and slots in the transaction of the order; a quote is the
only link from a price to an order; points and coupons follow the worker's event. What
staff change (menu, tables, settings) reaches customers by being read again.

`PROJECT.json` lists the parts with their status, and under `hazards` the places in the
code that are hard to test, with the properties that would catch them going wrong.

## 2. Plan, and what is done of it

1. **OrderStore**, its promise **StockPromise**, **OrderStore_proofs**: done.
2. **Trading** (extends OrderStore), its promise **MoneyPromise**, **Trading_proofs**: done.
3. **Points**, **Checkout** (quotes, keys, coupons), **Pricing**, **PickupSlots**,
   **ConnPool**, **Bearer**, checked together as **MCShop**, all with proofs (the third
   to fifth in **Shop_proofs**): done.
4. **Menu**, **Tables**, **PurchaseList**, **Platform**, **Sessions**, **Migrate**,
   checked together as **MCBackOffice**, all with proofs: done.
5. Not done: failing statements inside the expiry job; several stores and dates; a
   refinement from Checkout's creation to OrderStore's (Checkout lets the transaction be
   refused for stock at any time instead).

## 3. What is modelled

### OrderStore

One store, one business date. A variable is a column (`ost` is
`orders.fulfillment_state`; the others are named in the module). Transactions lock the
rows they change and hold the locks until they commit, so a committed transaction is one
action. Two things are not:

- The expiry job reads the unpaid orders with a plain SELECT, then updates. It is
  `ReleaseScan`, then `ReleaseCommit` or `ReleaseAbort`, and anything may commit between.
  The updates of `ReleaseCommit` read current rows, as InnoDB's do.
- Staff load an order (`Load`) and act on it later (`Transition`) with the version they saw.

| Actions | Code |
|---|---|
| Create (NextPickupNo, HasStock, ReserveInventory, ReservePickupSlot) | `orders/create.go` Store.Create and its helpers; failure is a guard, since it rolls back |
| CancelUnpaid, CancelPaid, RequestCancel | `orders/cancel.go` Store.Cancel by state |
| ReleaseInventory, ReleasePickupCapacity, MarkRefunded, StaffRefund, ReviewCancelRequest | `orders/cancel.go` |
| Load, Transition, CanTransition | `orders/query.go`, `orders/statemachine.go` |
| Adjust | `inventory/store.go`; one portion up or down at a time |
| PaymentSuccess | the transaction of `worker.go` onPaymentSuccess |
| ReleaseScan, ReleaseCommit, ReleaseAbort | `worker.go` releaseExpiredOrders |
| Expire | the clock passes `expires_at` |

The sum over reservation rows is a cardinality (`Total`): one element per portion. That
keeps the module free of recursion, so that it can be proved about.
`StockPromise` says what all this promises about stock without any counter: a cart is not
taken, reserved, sold or given back, and what is taken fits the target.

### Trading

Extends OrderStore with `payments`, `refunds`, `outbox`, the requests the API is handling
(`call`, one record per request with its next transaction) and the events a worker has
claimed (`batch`, `outcome`). In OrderStore a payment or a refund may arrive at any moment;
here `PaymentSuccess` and `MarkRefunded` happen only as `HandlePayment` and `HandleRefund`.

| Actions | Code |
|---|---|
| PrepayRead, PrepayInsert | `customer/payments.go` Prepay, `payments/store.go` Prepay |
| ConfirmRead, ConfirmCommit | ConfirmMockPayment. The `FOR UPDATE` runs outside the transaction, so its lock ends with the statement |
| WechatPayTransaction (MarkSuccess, SkipSeen) | `callbacks/callbacks.go`, `payments/store.go` MarkSuccess; writes an event also when MarkSuccess changed nothing |
| CancelOrder, RefundCreate, RefundSettle | `customer/cancel.go`: three transactions, `CallDies` between any two |
| Claim, HandlePayment, HandleRefund, HandleFails, MarkEvent, MarkLost, WorkerDies, BecomeDue | `worker.go` processOutbox and what it calls |

`due` stands for `next_attempt_at` being past: the lease of five minutes and the backoff
both make a row not due, and `BecomeDue` makes it due again at any later time. That covers
every timing, a worker slower than its own lease included.

A report carries an id (`ReportIds`) or none (`NoId`). `seen` holds the ids recorded in
`webhook_events`, a table of all stores and days, so some may be there from the start: used
by orders that are not in the instance. `MarkSuccess` of an id that was seen returns before
it looks at the payment (`SkipSeen`), and the handler writes its event all the same. In dev
mode the id comes from the body; in production it is the serial of the provider's
certificate, the same for all orders, but that path answers 503 before it gets there, since
`loadWechatCreds` never finds credentials.

`MoneyPromise` says what all this promises about money without any request or retry: the
money of an order is announced and comes in, is booked, falls due to the customer, is on
its way back, is back, and the order is closed, each at most once and none before what it
needs. An announcement is all a booking needs (see run `unpaid`); what goes back has come
in. Trading's seven sets of orders (`Books`) are read off `outbox`, `payments`, `refunds`
and the order, four tables that no transaction changes together.

### What customers use

| Module | What a step is | Code |
|---|---|---|
| Points | Joining is five statements and four steps (read, bind the phone, count, insert); a worker's award or reversal reads the balance (`BeginAward`, `BeginReverse`), for a reversal also what the order earned (`LookupEarned`), then writes (`AwardPoints`, `ReversePoints`), or is given up; an adjustment is one transaction under a lock. Events come any number of times, in any order. | `members/store.go`, `worker.go` 165-185 |
| Checkout | A creation is: quote looked up in Redis; time and key read in the snapshot; INSERTs and commit; quote deleted and answer given. Any request may be cut off between two steps (`CallEnds`), which also stands for a refusal of stock. Unique keys are guards; the width of a token and of a key are numbers. An order is cancelled while unpaid (`CancelOrder`) or told of a payment (`PayOrder`), any number of times and in any order; the coupon is used up by the event, not by the payment, as in `worker.go` 202-245. | `customer/orders.go`, `orders/create.go`, `pricing/quote.go`, `marketing/store.go`, `worker.go` |
| Pricing | `Validate`, `Price`, `Discount`, `hashCart` as functions; one step asks them, with any input (`PriceAsked`) or with the input the preview builds (`PreviewAsked`). | `pricing/engine.go`, `pricing/calc.go`, `customer/pricing.go` |
| PickupSlots | `GenerateSlots` as a function over minutes; one step asks for a day. | `pickup/slots.go`, `storefront/pickup.go` |
| ConnPool | A request is the sequence of its queries (+1) and ends of rows (-1). | `export/store.go`, `menu/dishes.go`, `storage/db.go` |
| Bearer | A login looks its person up, inserts where there is none, and issues a token. | `customerauth/` |

The customer side of the API sits behind the check of that token, which as written lets no
token in (section 6). The other modules take a request as authenticated, as the tests do.

### What staff and operators use

| Module | What a step is | Code |
|---|---|---|
| Menu | A deletion of a category reads the row (`DeleteCategory`) and writes later (`CommitDeleteCategory`); all else locks what it decides on and is one step. `alone` and `stray` are history: dishes last deleted on their own, dishes put under a category that is not there. | `menu/`, `admin/menu.go`, `export/store.go` import |
| Tables | A rotation writes the token and reads the row again: two steps. | `tables/store.go` |
| PurchaseList | A transition is one transaction under the lock of the list, with the version its caller expects. | `materials/store.go` |
| Platform | An approval takes the id of its store (`BeginApprove`), then commits or aborts; an assignment reads the memberships from its snapshot (`BeginAssign`), then demotes and writes. Pages are read one by one. | `platform/` |
| Sessions | The middleware is its statements: session, account and renewal, membership, role; logout, administrators and the clock come between. | `authn/`, `admin/session.go` |
| Migrate | A step is one statement of a script, or the recording of its version. The tool stops anywhere. A rollback is only started when no other tool runs; several `up` may. | `cmd/migrate/main.go` |

### How the components are put together

OrderStore and Trading are composed by extension: Trading's steps are OrderStore's, with
more around them. The components of the two tables above share no tables. `MCShop` and
`MCBackOffice` hold several of them; `part` is chosen at the start, one component moves
and the others stay as they began. Properties of one component are then checked over
all of its behaviours, without the product of unrelated states.

## 4. What is checked

Passing runs:

| Run | Instance | Properties | Shows |
|---|---|---|---|
| stock | 3 orders, 2 dishes, 2 portions each, target 0..3, one worker | StockLedger, NeverOversold, ImplementsPromise | Competing orders, adjustments, payments and releases: exact counters, nothing sold twice, the promise implemented. |
| lifecycle | 2 orders for one slot, a staff screen, two workers, fair expiry job | TypeOK, StockFollowsOrder, VersionNamesState, SlotNeverLeaks, SoldStockReturnsByRefundOnly, ExpiredStockReturned | Every state and interleaving of two orders: holdings follow the state, versions protect stale screens, no place of the slot is lost, unpaid stock comes back. No counter goes below zero, though the worker subtracts without GREATEST. |
| money | 1 order, 2 requests at a time, 1 worker, retries, reports with an id that may have been seen | ImplementsMoneyPromise, EventsMatchMoney | The money of the order goes one way, each step once, through crashes and repeated events; nothing goes back that did not come in; the outbox has an event for what came in and one for what went back. |
| delivery | 1 order for noon, 2 workers, staff | SentIsDone, ImplementsOrderStore | A SENT event took effect; everything is an OrderStore behaviour. |
| effect | 1 order, 1 worker, fair | MoneyTakesEffect | Money reaches the order or its event is FAILED. |
| shop | see Bounds | MemberNumbersGapless, PointsOncePerOrder, BalanceComesFromLedger; OneOrderPerQuote, AnswersOfAKeyAgree, CouponGoesWithItsOrder; OffersNeverAdd, OrderOfCartIrrelevant; OffersOpenTimesAsFree; OnlyExportsJam; OneCustomerPerPerson | What customers use keeps its word under overlapping, repeated and cut off requests. |
| backoffice | see Bounds | LiveDishHasCategory, RestoredWithItsBatch, BinClosesADayLate; OneOwner, OwnedStaysOwned, ApplicationOpensItsStore, PagingComplete; VersionDecidesOnce; CodesLeadToTheirTable; UsedSessionLasts, LogoutIsFinal, ActsWithinRole; RecordedIsWhole, RecordedInOrder | So does what staff and operators use. |

Runs that find the code away from its documents (quoted under `findings`):

| Run | Property | Shows |
|---|---|---|
| overbook | SlotNeverOverbooked | An order paid between scan and commit of the expiry job loses its slot and lives on; the slot is given away again. |
| kept | NoMoneyKept | An order is cancelled as unpaid while its payment waits in the outbox; the money stays. |
| unpaid | PaidWithPayment | A report whose id was seen with another order leaves the payment as it is and announces it; the order is paid without a payment. |
| quoted | ValidQuoteMakesOrder | A token of 97 characters does not fit CHAR(64), nor its key of 103 VARCHAR(100): no quote the server issues becomes an order. |
| ledger | BalanceIsLedgerSum | Two writes of the points that read one balance keep both entries and one of the changes: the balance is not what the ledger adds up to. |

Three properties of passing runs say what the code does instead of what its documents say,
and name the documents where they are defined: OffersOpenTimesAsFree (full slots are
offered), BinClosesADayLate (the bin closes up to a day late), OnlyExportsJam (the pool can
jam). They are checked because each bounds the divergence: nothing else is offered, nothing
comes back after that day, and no other request can stop the pool.

**Bounds of OrderStore and Trading.** `MaxQty`, `MaxTarget`: portions of a cart line and of
a target; two portions of two make both SKU-short and exact-fit carts. `MaxVersion`: a
version at which a cancellation may still be requested; the cycle ACCEPTED,
CANCEL_REQUESTED is the only one in the chart, so this bounds everything, and the runs
allow at least one round of it. `MaxDeliveries`: payment events an order may have before
the provider repeats its report; 1 with the confirmations of two requests gives several
events for one payment. `ReportIds`: one id, seen from the start or not, besides reports
without one; none in delivery and kept. `MaxAttempts`: 20 in the code, 0 or 1 in the runs;
attempts only count up to it. Batches (LIMIT 50 and 100) are larger than any instance. One order
suffices for most of Trading, whose handlers touch one order each; two workers or two
requests are what interferes.

**Bounds of MCShop** (about 990,000 states). *Points* (478,000): two customers and one
phone number, two orders, two workers, one adjustment that takes a point away, so that
two awards, an award and a reversal, and an award and an adjustment overlap; the last of
them makes a point up (run `ledger`). *Checkout* (495,000): two requests (`Calls`), one key
besides none, `MaxQuotes` 2, which may name one coupon, one template, `QuoteTTL` 0 and
`MaxMinute` 1, so that a quote runs out before, during and after its use. Here
`TokenColumn` and `KeyColumn` are as wide as the token needs (97, 103); run `quoted` has the
widths of the migrations. *Pricing* (8,100): every cart of at most two
lines of two SKUs with quantities at 0, 1, 3 and 100, options in every order, with four
lists of promotions and two coupons: none, a tie, a discount beyond the price.
*PickupSlots* (2,900): hours from midnight, to the end of the day, past it, and invalid;
steps of 4 (refused), 5 and 50 minutes, the last of which passes closing; leads up to a
day; no place, some or all of the first slot taken. *ConnPool* (6,050): 4 connections, two
exports of up to three each and two readers, so that two exports jam the pool as seventeen do
the 50 connections of the code, and a reader beside them does not. *Bearer* (38): two
people, two logins.

**Bounds of MCBackOffice** (about 980,000 states). *Menu* (401,000): two categories, two
dishes, two deletions at a time, `MaxBatches` 3 (a dish, its category, and an import or a
second deletion), `WindowDays` 0 with `DayTicks` 2 and `MaxClock` 2, so that a deletion is
restored after half a day, which counts as none, and no longer after a whole one.
*Platform* (274,000): two stores, accounts, applications and requests, one store on a
page. *Sessions* (302,000): one session, two requests, `IdleTTL` 2, `AbsTTL` 5,
`RenewSlack` 1, `MaxDelay` 1, `MaxTime` 4: a session runs out idle, one in use is renewed
up to its absolute end, and a slow request sets back the expiry that a later one has
written. *Tables* (1,900): two tables, two members of staff, `MaxTokens` 4. *Migrate*
(1,100): two tools, `LastVersion` 3, two tables each. *PurchaseList* (51): versions up to
`MaxExpected` 4, one more than a list can pass.

Each hazard listed for these needs two actors on one or two rows, which the instances
have; a third actor does again what one of the two does. Symmetry is over sets of
actors and ids whose members the modules only compare; none of these runs checks
liveness. CHECK_DEADLOCK FALSE, where a cfg has it, is because the system may really come
to rest: an order's life is over, or a component has used its ids, tokens and time.
None of the bounds matters to the proofs.

**Fairness.** `worker.Run` is a loop over tickers for as long as the process runs, and a
stopped worker is restarted: a scan that stays possible happens (WF). A claim, handling and
marking, and the commit of the expiry job, may be interrupted by a stop or a failure but not
every time (SF). Time passes (WF of `BecomeDue`, for each of the `EventIds` an instance can
write). API handlers, customers, staff and the provider promise nothing, and nothing is
assumed of them: no liveness is claimed of a request. MoneyTakesEffect allows FAILED,
since nothing in the code handles a FAILED event.

## 5. What is proved

All theorems hold for every value of the constants under the assumption of their module:
`OrderStoreAssumption` (finitely many orders, quantities in `0..MaxQty`, targets natural
numbers), `TradingAssumption`, and so on. `PricingAssumption`, `SlotsAssumption` and
`PoolAssumption` say what the schema and the parser say of prices, hours and offers, and
that requests are finitely many; `SessionsAssumption` that the slack of a renewal is more
than nothing; the others only that bounds are natural numbers and that
the value for "none" is no other. The bounds are part of the guards, and
any natural number will do.

`OrderStore_proofs`. The inductive invariant is `IInv`: TypeOK, StockLedger,
StockFollowsOrder, PickupNumbersGapless, and `Fresh` (no number, mark or version is left
on an order that was not created). None of the parts is inductive alone:
- TypeOK needs the ledger, since the worker's subtraction stays natural only because the
  rows it subtracts are counted in the counter;
- the ledger needs StockFollowsOrder for a creation, whose order must not hold anything yet.

The arithmetic of the ledger is in `TotalDiff`, `TotalAdd`, `TotalRemove`. Each action
falls under one of five kinds (creation, payment, giving back, batch release, moves of
state alone), with a lemma each. From the invariant follow NeverOversold
(a guard on the counters is a guard on the rows), SoldStockReturnsByRefundOnly,
VersionNamesState (with a version that only grows when the state changes), and `Implements`:
every step is one of StockPromise or a stutter. SlotNeverLeaks (`CapacityKept`) needs an
invariant of its own, `SlotInv`: with it, an order that was not created carries no mark of
a release and is in no scan, so that a creation always adds a holder of its slot. A batch
takes from the counter at least as many places as it marks orders, never fewer.

`Trading_proofs`.
- `ImplementsStore`: every step is a step of OrderStore or leaves its variables alone, so
  all theorems above carry over (`TradingKeepsPromise`).
- `SentAreDone`: SentIsDone is inductive with `Handled` (what was handled and is not yet
  marked took effect) and the fact that no OrderStore step takes an effect back
  (`EffectStays`).
- `MoneyAndOrder` (MoneyFollowsOrder: an order is paid only after its payment was announced,
  refunded only with a refund, and a refund is made only of a payment that succeeded, for
  an order that waits for it) and `MoneyAndEvents`: `MoneyInv` adds `OneRefund`. The code looks
  for an older refund without a lock and does not count one that succeeded; what keeps a
  payment from being refunded twice is that only the request that moved the order to
  REFUNDING creates a refund, and no state leads back from there. `OneRefund` says so. That
  a paid order has a payment is not among it, and is not true (`unpaid`).
- `KeepsMoneyPromise`: under `MoneyInv` and `IInv` every step is one of MoneyPromise or
  leaves the books alone. A step needs more than its own guard: a worker books only what an
  event announced, money falls due only for an order that is paid because
  StockFollowsOrder says so, and a refund is begun once because of `OneRefund`, and only of
  money that came in because `refunds.Store.Create` reads the payment, not the order.
- `MoneyIsRemembered`: money that did not take effect yet has an event that is not SENT.
  It is the safety half of MoneyTakesEffect; that such an event is handled some day is
  left to fairness and to TLC. `FairnessReachesEveryEvent` shows that no event is outside
  of that fairness: events of an order and confirmations under way are bounded together
  (`EventsBounded`), and the events of all orders are counted with an injection.

`Points_proofs`. `NumbersInv`: who is about to insert a membership has none and has
counted no more members than there are now; the unique key does the rest
(`MembersAreNumbered`). `LedgerInv`: the base a job of a worker has read is a balance the
account has had, and a reversal about to be written is covered by an entry of its order
that earned as much. With the first, no entry starts from nowhere (`EntriesStartFromBalances`); it
is all the code keeps, since the base may be an old one: what was recorded in between is
then undone in the balance, which loses points or makes some up (run `ledger`).
`OrdersEarnOnce` needs the second and the unique key of the ledger.

`Checkout_proofs`. `CheckoutInv`: types, `CallsHaveQuotes`, `KeysLeadToOrders`,
`AnswersAreRecorded` (what is or will be answered is in `idempotency_keys`) and the two
properties that are inductive with them. The key looked up in the snapshot proves
nothing about the INSERT; it is the unique keys at the INSERT that carry the proof.
`CouponUsedWhenTold` follows the coupon rather than the payment: an order that was told
of a payment has used its coupon, a paid order was told, and nothing else uses a coupon.

`Store_proofs` holds the three of one store. `MenuInv` adds to the types that a batch in
use was drawn (`BatchesAreUsed`, so that a new batch is nobody's), that a dish deleted on
its own shares its batch with no category (`AloneIsAlone`), and LiveDishHasCategory itself.
RestoredWithItsBatch and BinClosesADayLate are step properties from it. `TablesInv`: a table's token
only grows, so it is at least what any rotation under way has written. `PurchaseInv`: the
trail tells state, version and print (`TrailIsTrue`), from which VersionDecidesOnce.

`Platform_proofs`. Types (`PlatformTyped`) with the fact that an owner to be is an
account; `ApplicationsInv`: the id an open approval has taken is nobody else's;
`PagingInv`: what the reader has seen is what there was up to the cursor. The last of a
page is the greatest of a finite set, whose existence is proved from the well-foundedness
of the subset ordering. OneOwner and OwnedStaysOwned need nothing of other requests:
the demotion and the new owner are in one transaction.

`Sessions_proofs`. `TimesInv`: a session in use has the expiry it was last given or a
later one, and the row a request carries is not newer than the table's and at most
`MaxDelay` old (`RowIsFresh`); that is what makes a stale renewal harmless up to the
delay (`UseKeepsTheSession`). `RolesInv`: the role a request carries is one the account held
since it began. `LogoutStays`: a revoked row is not renewed. `BearerInv`: a login
that has found a customer has found the one of its person (`PersonIsOneCustomer`).

The same module has those of the migration tool. `MigrateInv`: a rollback runs alone,
what `up` has executed is there, and what a run has passed is recorded (or, for a
rollback, is not). The first fails as soon as somebody starts a rollback beside a running
tool, which is the assumption the model makes of operators.

`Shop_proofs` is about functions rather than protocols, over carts, offers and settings
of any length and size.
- The sums of a price are folds of the community modules. What they compute is shown by
  induction over the subsets of a finite set, with a *set* of subsets in the place of the
  predicate that the library's induction asks for (`SubsetInduction`): a sum is a number,
  does not depend on the order in which it is taken (`SumSplit`) and does not change when
  its members are renamed (`SumRenamed`).
- `OffersDoNotAdd`: with a promotion and a coupon the customer pays what the better of the
  two alone would leave, and never less than nothing, since the greater discount alone is
  taken and is cut to what there is to pay. It rests on `PricingAssumption`: prices of
  options, thresholds and discounts are not negative, as the CHECK constraints of
  `migrations/0002_menu.up.sql` and `0003_marketing.up.sql` say.
- `OrderOfCartDoesNotMatter`: two carts with the same lines and choices in another order
  count the same per line, group and option, so what passes the check in one order
  passes in the other, with the same amounts and summary.
- `OfferedAsFree`: the steps of a day are the numbers `n` with `opening + n * step` inside
  the hours; with the arithmetic of division the sequence that is built by counting is
  the set the property asks for, and since the seconds of `ReservedBySlot` never match a slot,
  every one has its whole capacity.
- `OnlyExportsStopThePool`: how many connections a request holds is the sum of the steps it
  has taken (`ExportHolds`, `ReaderHolds`). An export that asks for one more holds three at
  most, and a reader that asks holds none; so when every holder asks, all holders are
  exports, and there are more than a third as many as connections. No limit on the exports
  is assumed: with enough of them the pool does jam (section 6).

Only model-checked: ExpiredStockReturned and MoneyTakesEffect, since liveness under
fairness is beyond the prover. Every other property of a passing run is a theorem. The
type invariants of Trading, Menu and Platform, MoneyFollowsOrder, PickupNumbersGapless
and TrailTellsState are part of the inductive invariants above and proved for all
instances; no run repeats them.

## 6. Divergences without a run

Read off the code while modelling, or what a property above says in its own words.

Orders, money:
- A slot's row is made with capacity 1 where `prd-current/reservation-pickup.md:63` gives 5
  (`orders/create.go:292`, `CapacitySnapshot`).
- The release of a slot is not idempotent: an order cancelled between scan and commit of
  the expiry job gives its place back twice (`worker.go:302`, `reservation-pickup.md:89`).
- `PAID` to `CANCELLED` is open to staff (`statemachine.go:40`), off the documented chart;
  sold stock stays sold and no refund follows.
- A refund by staff, or a transition to REFUNDING, creates no refund (`cancel.go:250`,
  `complete-requirements-no-ios.md:275`); nor does a request that stops between the
  cancellation and the refund's creation (`customer/cancel.go:39`), since a repeated
  one only answers that the first is under way.
- In production the id of a report is the serial of a certificate (`callbacks.go:84`): once
  credentials are loaded, the first report marks its payment and all later ones are
  taken for repetitions of it, their orders paid without a payment.
- The review of a cancellation request is addressed by a refund that no step creates
  (`admin/orders.go:137`).

On the way to an order:
- Option groups are judged over the whole menu and cart, not per line (`engine.go:160`).
- The preview never loads the stock of the day: `AvailableQty` stays 0, which the engine
  takes for sold out, so every dish of limited stock is refused (`customer/pricing.go:114`,
  against `engine.go:39`).
- `VerifyToken` selects `issued_at`, which `customer_sessions` does not have
  (`customerauth/store.go:149`, `migrations/0001_identity.up.sql:84`): every token is answered 401.
- Promotions are never passed to the price. A coupon gives no discount, since the route of
  the preview has no session, yet it is marked USED by the event of a payment: also of an
  order that was cancelled before, and of one whose coupon gave nothing, where
  `complete-requirements-no-ios.md:211` has only a coupon that was applied be used up. Two
  orders may name one coupon and both be paid; the second finds it USED.
- A creation repeated after a lost answer is answered 410: the quote is gone before the key
  is looked at (`complete-requirements-no-ios.md:179`). A key used again with another
  quote gets the old order, and the new quote is deleted.
- `ReservedBySlot` keys times with seconds, `GenerateSlots` looks them up without: every
  slot offered shows its whole capacity, a full one too, against
  `complete-requirements-no-ios.md:163` (OffersOpenTimesAsFree); creation alone refuses it.
  The bound on days in advance is not enforced.
- The list of public coupons is always that of customer 0.
- A refund whose event is handled before the award leaves the points. Two customers may
  bind one phone number.

Back office:
- A restored dish is off sale and has no route that puts it on again.
- The age of a deletion is cut to whole days where the comment says rounded up: the window
  of 30 days lasts just under 31 (BinClosesADayLate).
- Two deletions of one category at once: the second overwrites the batch of the first, whose
  dishes no longer come back with it. The restoration of a category an import deleted brings
  back dishes of the others (`menu/store.go:219`).
- A PATCH that changes nothing affects no row and is answered 404.
- `AddMember`, `ChangeMemberRole`, `RemoveMember` and the decisions on join requests have no
  caller. An account may come to own two stores.
- `MarkPrinted` and `VoidList` have no route, and `Complete` asks for a printed list, so over
  HTTP it never succeeds. Items may be added in any state, and an empty list submitted.
- An `up` that was stopped inside a script cannot be resumed: the next one fails at the table
  that is there.
- Nothing limits exports, and seventeen at once may hold all 50 connections and wait for
  each other; then no request gets one until a client goes away (OnlyExportsJam).
- The public menu is two reads: one that an import comes between shows the old categories
  with none of their dishes (`storefront/store.go:143`).
- A store whose lower id commits after its page was read is on no page (`platform/store.go:136`).
- A handler may act under a role that was taken away after the gate read it (ActsWithinRole
  only bounds this to one request).

## 7. What is not modelled

- Printing: `EnqueueJob` has no caller and nothing sends a job. The mini program's cart (one
  thread on one phone) and both apps' pages. HTTP routing and encoding, configuration,
  password hashing, analytics, audit and the reads of `admin/` beside the actions: no protocol
  between actors. So are the public menu and the check of a customer's token, which only read.
  `seed` is data; `migrate status` and `splitStatements` only read.
- The map of login attempts, which requests share without a mutex: the runtime stops the
  process on a concurrent write, and there is no state after it to describe.
- Failure of a single statement inside the expiry job's loop, which the code skips; a batch
  commits whole or not at all.
- Events the worker has no handler for (`retry.query`): they are marked SENT with nothing done.
- Two cart lines of one SKU: the unique key of `inventory_reservations` makes the creation
  fail, so a cart is a function from SKU to quantity.
- Orders that cost nothing: Prepay writes no payment for them, so they cannot be paid.
- The AppID an import may overwrite, names and texts of rows, signatures, decryption, amounts
  of payments, log tables.
- Several stores or dates in one instance: every statement selects by store, and stock by date.
