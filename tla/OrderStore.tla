------------------------------ MODULE OrderStore ------------------------------
(***************************************************************************)
(* The tables an order lives in, at the level of committed transactions:   *)
(* orders, inventory_reservations, daily_inventory and                     *)
(* pickup_slot_capacity of one store on one business date.  Each action is *)
(* one transaction of internal/orders, internal/inventory or               *)
(* internal/worker.  They lock the rows they change and hold the locks to  *)
(* the end, so a committed transaction is one step; the one read that      *)
(* takes no lock (the scan of the expiry job) is a step of its own.        *)
(*                                                                         *)
(* Who calls a transaction, and when, belongs to the modules that extend   *)
(* this one: here a payment or a refund may be reported at any moment.     *)
(***************************************************************************)
EXTENDS Integers, FiniteSets

CONSTANTS
    Orders,         \* orders that may be placed, one per quote_token (uq_order_quote)
    Skus,           \* SKUs of the store
    Slots,          \* pickup times
    NoSlot,         \* scheduled_for of an immediate order
    Qty,            \* Qty[o][s]: portions of s in the cart of o
    MaxQty,         \* bound on the portions of one cart line
    SlotOf,         \* SlotOf[o]: the pickup time of o, or NoSlot
    DailyRows,      \* SKUs that have a daily_inventory row on the date
    InitialTarget,  \* target_qty of those rows
    MaxTarget,      \* bound on target_qty
    MaxVersion,     \* bound on the version at which a cancellation is requested
    Workers,        \* worker processes
    Staff           \* members of staff with an order on their screen

ASSUME OrderStoreAssumption ==
    /\ IsFiniteSet(Orders) /\ Orders # {}
    /\ MaxQty \in Nat
    /\ Qty \in [Orders -> [Skus -> 0..MaxQty]]
    /\ NoSlot \notin Slots
    /\ SlotOf \in [Orders -> Slots \cup {NoSlot}]
    /\ DailyRows \subseteq Skus
    /\ InitialTarget \in [Skus -> Nat]
    /\ MaxTarget \in Nat
    /\ MaxVersion \in Nat

VARIABLES
    ost,            \* orders.fulfillment_state, "NONE" before the row exists
    version,        \* orders.version
    pickupNo,       \* orders.pickup_no
    paid,           \* orders.paid_at is set, paid_cents = payable_cents
    released,       \* orders.pickup_capacity_released_at is set
    expired,        \* the clock has passed expires_at
    resv,           \* state of the order's inventory_reservations rows
    target, reserved, sold,   \* daily_inventory
    slotReserved,   \* pickup_slot_capacity.reserved_orders, 0 without a row
    scan,           \* scan[w]: expired orders read by worker w, not yet released
    screen          \* screen[m]: the order as staff member m last loaded it

orderVars == <<ost, version, pickupNo, paid, released>>
stockVars == <<resv, target, reserved, sold>>
vars == <<ost, version, pickupNo, paid, released, expired, resv, target,
          reserved, sold, slotReserved, scan, screen>>

OrderStates == {"NONE", "PENDING_PAYMENT", "PAID", "ACCEPTED", "PREPARING",
                "READY", "COMPLETED", "CANCELLED", "REFUNDING", "REFUNDED",
                "CANCEL_REQUESTED"}
ResvStates == {"NONE", "RESERVED", "FULFILLED", "RELEASED"}

(***************************************************************************)
(* Quantities.  Every UPDATE of inventory_reservations selects by order    *)
(* and state, so the rows of an order share one state.  A sum over rows is *)
(* the number of portions: one element <<order, i>> per portion.           *)
(***************************************************************************)
Portions(O, s) == {u \in O \X (1..MaxQty) : u[2] <= Qty[u[1]][s]}
Total(O, s) == Cardinality(Portions(O, s))
WithResv(st) == {o \in Orders : resv[o] = st}

\* GREATEST(0, a - b)
MinusFloor(a, b) == IF a > b THEN a - b ELSE 0

(***************************************************************************)
(* The table of transitions and CanTransition (statemachine.go).           *)
(***************************************************************************)
Transitions ==
    {<<"PAID", "ACCEPTED", "staff">>, <<"PAID", "CANCELLED", "system">>,
     <<"PAID", "REFUNDING", "system">>,
     <<"ACCEPTED", "PREPARING", "staff">>,
     <<"ACCEPTED", "CANCEL_REQUESTED", "customer">>,
     <<"ACCEPTED", "REFUNDING", "staff">>,
     <<"CANCEL_REQUESTED", "ACCEPTED", "staff">>,
     <<"CANCEL_REQUESTED", "REFUNDING", "staff">>,
     <<"PREPARING", "READY", "staff">>, <<"PREPARING", "REFUNDING", "staff">>,
     <<"READY", "COMPLETED", "staff">>, <<"READY", "REFUNDING", "staff">>,
     <<"COMPLETED", "REFUNDING", "staff">>}

CanTransition(from, to, actor) ==
    \/ /\ from = "PENDING_PAYMENT" /\ to = "CANCELLED"
       /\ actor \in {"customer", "system"}
    \/ \E t \in Transitions :
          /\ t[1] = from /\ t[2] = to
          /\ t[3] = "staff" => actor \in {"staff", "system"}

\* UPDATE orders SET fulfillment_state = to, version = version + 1
Advance(o, to) ==
    /\ ost' = [ost EXCEPT ![o] = to]
    /\ version' = [version EXCEPT ![o] = @ + 1]

-----------------------------------------------------------------------------
(***************************************************************************)
(* Creating an order (create.go).  The row of a slot is made with capacity *)
(* 1 when the slot is first used, whatever stores.pickup_slot_capacity is. *)
(***************************************************************************)
CapacitySnapshot == 1

Created == {o \in Orders : ost[o] # "NONE"}

\* MAX(pickup_no) + 1
NextPickupNo ==
    1 + (IF Created = {} THEN 0
         ELSE CHOOSE n \in {pickupNo[o] : o \in Created} :
                 \A o \in Created : pickupNo[o] <= n)

\* mutant of HasStock: forgets the portions already sold
HasStockUnsold(o) ==
    \A s \in Skus : Qty[o][s] > 0 =>
        s \in DailyRows /\ reserved[s] + Qty[o][s] <= target[s]

HasStock(o) ==
    \A s \in Skus : Qty[o][s] > 0 =>
        /\ s \in DailyRows
        /\ reserved[s] + sold[s] + Qty[o][s] <= target[s]

\* reserveInventory, for all lines of the cart
ReserveInventory(o) ==
    /\ HasStock(o)
    /\ reserved' = [s \in Skus |-> reserved[s] + Qty[o][s]]
    /\ resv' = [resv EXCEPT ![o] = "RESERVED"]
    /\ UNCHANGED <<target, sold>>

\* PICKUP_SLOT_FULL
SlotFull(o) ==
    SlotOf[o] # NoSlot /\ ~(slotReserved[SlotOf[o]] < CapacitySnapshot)

ReservePickupSlot(o) ==
    /\ ~SlotFull(o)
    /\ slotReserved' = IF SlotOf[o] = NoSlot THEN slotReserved
                       ELSE [slotReserved EXCEPT ![SlotOf[o]] = @ + 1]

Create(o) ==
    /\ ost[o] = "NONE"
    /\ ~expired[o]
    /\ ost' = [ost EXCEPT ![o] = "PENDING_PAYMENT"]
    /\ version' = [version EXCEPT ![o] = 1]
    /\ pickupNo' = [pickupNo EXCEPT ![o] = NextPickupNo]
    /\ ReserveInventory(o)
    /\ ReservePickupSlot(o)
    /\ UNCHANGED <<paid, released, expired, scan, screen>>

\* The quote, and with it the unpaid order, runs out after ten minutes.
Expire(o) ==
    /\ ~expired[o]
    /\ expired' = [expired EXCEPT ![o] = TRUE]
    /\ UNCHANGED <<orderVars, stockVars, slotReserved, scan, screen>>

-----------------------------------------------------------------------------
(***************************************************************************)
(* Giving back what an order holds (cancel.go).                            *)
(***************************************************************************)
\* mutant of ReleaseInventory: releases reserved rows only
ReleaseReservedOnly(o) ==
    /\ reserved' = [s \in Skus |->
          IF resv[o] = "RESERVED" THEN MinusFloor(reserved[s], Qty[o][s])
          ELSE reserved[s]]
    /\ resv' = [resv EXCEPT ![o] = IF @ = "RESERVED" THEN "RELEASED" ELSE @]
    /\ UNCHANGED <<target, sold>>

ReleaseInventory(o) ==
    /\ reserved' = [s \in Skus |->
          IF resv[o] = "RESERVED" THEN MinusFloor(reserved[s], Qty[o][s])
          ELSE reserved[s]]
    /\ sold' = [s \in Skus |->
          IF resv[o] = "FULFILLED" THEN MinusFloor(sold[s], Qty[o][s])
          ELSE sold[s]]
    /\ resv' = [resv EXCEPT ![o] =
          IF @ \in {"RESERVED", "FULFILLED"} THEN "RELEASED" ELSE @]
    /\ UNCHANGED target

\* mutant of ReleasePickupCapacity: sets the mark and leaves the counter
MarkPickupCapacity(o) ==
    /\ released' = [released EXCEPT ![o] = @ \/ SlotOf[o] # NoSlot]
    /\ UNCHANGED slotReserved

ReleasePickupCapacity(o) ==
    IF SlotOf[o] # NoSlot /\ ~released[o]
    THEN /\ released' = [released EXCEPT ![o] = TRUE]
         /\ slotReserved' = [slotReserved EXCEPT ![SlotOf[o]] = MinusFloor(@, 1)]
    ELSE UNCHANGED <<released, slotReserved>>

\* orders.Store.Cancel by state of the order
CancelUnpaid(o) ==
    /\ ost[o] = "PENDING_PAYMENT"
    /\ Advance(o, "CANCELLED")
    /\ ReleaseInventory(o)
    /\ ReleasePickupCapacity(o)
    /\ UNCHANGED <<pickupNo, paid, expired, scan, screen>>

CancelPaid(o) ==
    /\ ost[o] = "PAID"
    /\ Advance(o, "REFUNDING")
    /\ UNCHANGED <<pickupNo, paid, released, expired, stockVars,
                   slotReserved, scan, screen>>

RequestCancel(o) ==
    /\ ost[o] = "ACCEPTED"
    /\ version[o] < MaxVersion
    /\ Advance(o, "CANCEL_REQUESTED")
    /\ UNCHANGED <<pickupNo, paid, released, expired, stockVars,
                   slotReserved, scan, screen>>

Cancel(o) == CancelUnpaid(o) \/ CancelPaid(o) \/ RequestCancel(o)

MarkRefunded(o) ==
    /\ ost[o] = "REFUNDING"
    /\ Advance(o, "REFUNDED")
    /\ ReleaseInventory(o)
    /\ ReleasePickupCapacity(o)
    /\ UNCHANGED <<pickupNo, paid, expired, scan, screen>>

-----------------------------------------------------------------------------
(***************************************************************************)
(* Staff.  The board shows an order as it was when it was loaded; a        *)
(* transition carries the version that was shown.                          *)
(***************************************************************************)
Load(m, o) ==
    /\ ost[o] # "NONE"
    /\ screen' = [screen EXCEPT ![m] =
          [order |-> o, state |-> ost[o], version |-> version[o]]]
    /\ UNCHANGED <<orderVars, expired, stockVars, slotReserved, scan>>

Transition(m, to) ==
    LET o == screen[m].order IN
    /\ version[o] = screen[m].version
    /\ CanTransition(ost[o], to, "staff")
    /\ to = "CANCEL_REQUESTED" => version[o] < MaxVersion
    /\ Advance(o, to)
    /\ UNCHANGED <<pickupNo, paid, released, expired, stockVars,
                   slotReserved, scan, screen>>

StaffRefund(o) ==
    /\ CanTransition(ost[o], "REFUNDING", "staff")
    /\ Advance(o, "REFUNDING")
    /\ UNCHANGED <<pickupNo, paid, released, expired, stockVars,
                   slotReserved, scan, screen>>

\* mutant of ReviewCancelRequest: the version stays
ReviewSameVersion(o, approve) ==
    /\ ost[o] = "CANCEL_REQUESTED"
    /\ ost' = [ost EXCEPT ![o] = IF approve THEN "REFUNDING" ELSE "ACCEPTED"]
    /\ UNCHANGED <<version, pickupNo, paid, released, expired, stockVars,
                   slotReserved, scan, screen>>

ReviewCancelRequest(o, approve) ==
    /\ ost[o] = "CANCEL_REQUESTED"
    /\ Advance(o, IF approve THEN "REFUNDING" ELSE "ACCEPTED")
    /\ UNCHANGED <<pickupNo, paid, released, expired, stockVars,
                   slotReserved, scan, screen>>

\* mutant of Adjust: compares the new target with what is sold only
AdjustAgainstSold(s, delta) ==
    LET newTarget == target[s] + delta IN
    /\ s \in DailyRows /\ delta # 0
    /\ newTarget \in 0..MaxTarget
    /\ sold[s] <= newTarget
    /\ target' = [target EXCEPT ![s] = newTarget]
    /\ UNCHANGED <<orderVars, expired, resv, reserved, sold, slotReserved,
                   scan, screen>>

\* inventory.Store.Adjust
Adjust(s, delta) ==
    LET newTarget == target[s] + delta IN
    /\ s \in DailyRows /\ delta # 0
    /\ newTarget \in 0..MaxTarget
    /\ reserved[s] + sold[s] <= newTarget
    /\ target' = [target EXCEPT ![s] = newTarget]
    /\ UNCHANGED <<orderVars, expired, resv, reserved, sold, slotReserved,
                   scan, screen>>

-----------------------------------------------------------------------------
(***************************************************************************)
(* The worker (worker.go).  The transaction of onPaymentSuccess: it moves  *)
(* whatever is still reserved, and the state only of an unpaid order.      *)
(***************************************************************************)
\* mutant of PaymentSuccess: moves the stock at every delivery of the event
PaymentMovesAgain(o) ==
    /\ ost[o] # "NONE"
    /\ IF ost[o] = "PENDING_PAYMENT"
       THEN Advance(o, "PAID") /\ paid' = [paid EXCEPT ![o] = TRUE]
       ELSE UNCHANGED <<ost, version, paid>>
    /\ reserved' = [s \in Skus |-> reserved[s] - Qty[o][s]]
    /\ sold' = [s \in Skus |-> sold[s] + Qty[o][s]]
    /\ resv' = [resv EXCEPT ![o] = "FULFILLED"]
    /\ UNCHANGED <<pickupNo, released, expired, target, slotReserved, scan,
                   screen>>

PaymentSuccess(o) ==
    /\ ost[o] # "NONE"
    /\ IF ost[o] = "PENDING_PAYMENT"
       THEN Advance(o, "PAID") /\ paid' = [paid EXCEPT ![o] = TRUE]
       ELSE UNCHANGED <<ost, version, paid>>
    /\ IF resv[o] = "RESERVED"
       THEN /\ reserved' = [s \in Skus |-> reserved[s] - Qty[o][s]]
            /\ sold' = [s \in Skus |-> sold[s] + Qty[o][s]]
            /\ resv' = [resv EXCEPT ![o] = "FULFILLED"]
       ELSE UNCHANGED <<reserved, sold, resv>>
    /\ UNCHANGED <<pickupNo, released, expired, target, slotReserved, scan,
                   screen>>

\* mutant of ReleaseScan: the comparison with the clock is the wrong way round
ReleaseScanFresh(w) ==
    LET due == {o \in Orders : ost[o] = "PENDING_PAYMENT" /\ ~expired[o]} IN
    /\ scan[w] = {} /\ due # {}
    /\ scan' = [scan EXCEPT ![w] = due]
    /\ UNCHANGED <<orderVars, expired, stockVars, slotReserved, screen>>

\* releaseExpiredOrders, first the read without a lock ...
ReleaseScan(w) ==
    LET due == {o \in Orders : ost[o] = "PENDING_PAYMENT" /\ expired[o]} IN
    /\ scan[w] = {} /\ due # {}
    /\ scan' = [scan EXCEPT ![w] = due]
    /\ UNCHANGED <<orderVars, expired, stockVars, slotReserved, screen>>

\* mutants of StillReserved: the whole batch as it was read, and everything
\* of the batch that holds stock
AsScanned(batch) == batch
StillHolding(batch) == {o \in batch : resv[o] \in {"RESERVED", "FULFILLED"}}

\* The orders of a batch whose reservations the commit gives back: those
\* still RESERVED when the UPDATE runs, not when the scan did.
StillReserved(batch) == {o \in batch : resv[o] = "RESERVED"}

\* ... then the updates for every order read, all committed together
ReleaseCommit(w) ==
    LET batch == scan[w]
        held == StillReserved(batch)
        unpaid == {o \in batch : ost[o] = "PENDING_PAYMENT"}
    IN  /\ batch # {}
        /\ reserved' = [s \in Skus |-> reserved[s] - Total(held, s)]
        /\ resv' = [o \in Orders |-> IF o \in held THEN "RELEASED" ELSE resv[o]]
        /\ released' = [o \in Orders |->
              released[o] \/ (o \in batch /\ SlotOf[o] # NoSlot)]
        /\ slotReserved' = [t \in Slots |->
              MinusFloor(slotReserved[t], Cardinality({o \in batch : SlotOf[o] = t}))]
        /\ ost' = [o \in Orders |-> IF o \in unpaid THEN "CANCELLED" ELSE ost[o]]
        /\ version' = [o \in Orders |->
              IF o \in unpaid THEN version[o] + 1 ELSE version[o]]
        /\ scan' = [scan EXCEPT ![w] = {}]
        /\ UNCHANGED <<pickupNo, paid, expired, target, sold, screen>>

\* The worker stops, or its transaction is rolled back, before the commit.
ReleaseAbort(w) ==
    /\ scan[w] # {}
    /\ scan' = [scan EXCEPT ![w] = {}]
    /\ UNCHANGED <<orderVars, expired, stockVars, slotReserved, screen>>

-----------------------------------------------------------------------------
Init ==
    /\ ost = [o \in Orders |-> "NONE"]
    /\ version = [o \in Orders |-> 0]
    /\ pickupNo = [o \in Orders |-> 0]
    /\ paid = [o \in Orders |-> FALSE]
    /\ released = [o \in Orders |-> FALSE]
    /\ expired = [o \in Orders |-> FALSE]
    /\ resv = [o \in Orders |-> "NONE"]
    /\ target = InitialTarget
    /\ reserved = [s \in Skus |-> 0]
    /\ sold = [s \in Skus |-> 0]
    /\ slotReserved = [t \in Slots |-> 0]
    /\ scan = [w \in Workers |-> {}]
    /\ screen = [m \in Staff |->
          [order |-> CHOOSE o \in Orders : TRUE, state |-> "NONE", version |-> 0]]

Next ==
    \/ \E o \in Orders :
          \/ Create(o) \/ Expire(o) \/ Cancel(o) \/ PaymentSuccess(o)
          \/ MarkRefunded(o) \/ StaffRefund(o)
          \/ \E approve \in BOOLEAN : ReviewCancelRequest(o, approve)
    \/ \E m \in Staff :
          \/ \E o \in Orders : Load(m, o)
          \/ \E to \in OrderStates : Transition(m, to)
    \/ \E s \in Skus : \E delta \in {-1, 1} : Adjust(s, delta)
    \/ \E w \in Workers : ReleaseScan(w) \/ ReleaseCommit(w) \/ ReleaseAbort(w)

Spec == Init /\ [][Next]_vars

(***************************************************************************)
(* The expiry job runs on a ticker for as long as a worker runs: a scan    *)
(* that stays possible happens, and its transaction is not rolled back     *)
(* every single time.  Customers and staff promise nothing.                *)
(***************************************************************************)
FairSpec ==
    /\ Spec
    /\ \A w \in Workers : /\ WF_vars(ReleaseScan(w))
                          /\ SF_vars(ReleaseCommit(w))

-----------------------------------------------------------------------------
(***************************************************************************)
(* Properties.                                                             *)
(***************************************************************************)
Screens == [order : Orders, state : OrderStates, version : Nat]

\* Every column has its type; in particular no stock or slot counter goes
\* below zero, although the worker subtracts without GREATEST.
TypeOK ==
    /\ ost \in [Orders -> OrderStates]
    /\ version \in [Orders -> Nat]
    /\ pickupNo \in [Orders -> Nat]
    /\ paid \in [Orders -> BOOLEAN]
    /\ released \in [Orders -> BOOLEAN]
    /\ expired \in [Orders -> BOOLEAN]
    /\ resv \in [Orders -> ResvStates]
    /\ target \in [Skus -> Nat]
    /\ reserved \in [Skus -> Nat]
    /\ sold \in [Skus -> Nat]
    /\ slotReserved \in [Slots -> Nat]
    /\ scan \in [Workers -> SUBSET Orders]
    /\ screen \in [Staff -> Screens]

\* The two counters of daily_inventory are exactly what the reservation rows
\* add up to, in whatever order creations, payments, cancellations, refunds
\* and expiry batches commit.
StockLedger ==
    \A s \in Skus :
        /\ reserved[s] = Total(WithResv("RESERVED"), s)
        /\ sold[s] = Total(WithResv("FULFILLED"), s)

\* PRD 17.2: nothing is promised twice; reserved and sold portions never
\* exceed the target, whatever the interleaving with stock adjustments.
NeverOversold == \A s \in DailyRows : reserved[s] + sold[s] <= target[s]

\* What an order holds follows from its state: an unpaid order holds reserved
\* stock, a paid one that may still be cooked holds sold stock, and an order
\* refunded or cancelled unpaid holds nothing.
StockFollowsOrder ==
    \A o \in Orders :
        /\ ost[o] = "NONE" => resv[o] = "NONE"
        /\ ost[o] = "PENDING_PAYMENT" => resv[o] = "RESERVED" /\ ~paid[o]
        /\ ost[o] \in OrderStates \ {"NONE", "PENDING_PAYMENT", "CANCELLED", "REFUNDED"}
              => resv[o] = "FULFILLED" /\ paid[o]
        /\ ost[o] = "REFUNDED" => resv[o] = "RELEASED" /\ paid[o]
        /\ ost[o] = "CANCELLED" => resv[o] = IF paid[o] THEN "FULFILLED" ELSE "RELEASED"

\* Sold stock comes back only with the refund of its order: no cancellation
\* and no expiry batch that read the order before it was paid takes it away.
SoldStockReturnsByRefundOnly ==
    [][\A o \in Orders :
          resv[o] = "FULFILLED" /\ resv'[o] # "FULFILLED"
              => ost[o] = "REFUNDING" /\ ost'[o] = "REFUNDED"]_vars

Holders(t) == {o \in Created : SlotOf[o] = t /\ ~released[o]}

\* No pickup capacity is lost: a slot never counts more orders than hold it,
\* and never more than its capacity (PRD 17.2).
SlotNeverLeaks ==
    \A t \in Slots : /\ slotReserved[t] <= Cardinality(Holders(t))
                     /\ slotReserved[t] <= CapacitySnapshot

\* A version names one state of its order for ever, so a transition that
\* passes the version check acts on the very state the staff member saw.
VersionNamesState ==
    \A m \in Staff :
        LET seen == screen[m] IN
        /\ seen.version <= version[seen.order]
        /\ seen.version = version[seen.order] => seen.state = ost[seen.order]

\* Pickup numbers of the business date are 1, 2, 3, ... without a gap or a
\* repetition, although failed creations roll back.
PickupNumbersGapless ==
    {pickupNo[o] : o \in Created} = 1..Cardinality(Created)

\* An unpaid order that has run out does not keep its stock: some worker
\* releases it, unless it is paid first.
ExpiredStockReturned ==
    \A o \in Orders :
        (ost[o] = "PENDING_PAYMENT" /\ expired[o]) ~> (resv[o] # "RESERVED")

Promise == INSTANCE StockPromise WITH stake <- resv, target <- target

\* The counters implement the promise: every transaction of the code is a
\* step the promise allows, or does not touch the stock.
ImplementsPromise == Promise!Spec

-----------------------------------------------------------------------------
(***************************************************************************)
(* What the documents say and the code does not do.                        *)
(***************************************************************************)

\* prd-current/reservation-pickup.md 5.1: a slot has at most its capacity of
\* orders that are still to be picked up.
SlotNeverOverbooked ==
    \A t \in Slots :
        Cardinality({o \in Orders : SlotOf[o] = t /\ ost[o] \in
            {"PENDING_PAYMENT", "PAID", "ACCEPTED", "PREPARING", "READY"}})
            <= CapacitySnapshot
=============================================================================
