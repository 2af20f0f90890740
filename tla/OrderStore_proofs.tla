-------------------------- MODULE OrderStore_proofs --------------------------
(***************************************************************************)
(* Proofs about OrderStore, for every set of orders, SKUs, slots, workers  *)
(* and staff.                                                              *)
(***************************************************************************)
EXTENDS OrderStore, FiniteSetTheorems, TLAPS

(***************************************************************************)
(* Sums of portions.                                                       *)
(***************************************************************************)

\* The portions of a set of orders are finitely many.
LEMMA PortionsFinite ==
    ASSUME NEW O \in SUBSET Orders, NEW s \in Skus
    PROVE  IsFiniteSet(Portions(O, s))
<1>1. IsFiniteSet(Orders) /\ MaxQty \in Nat
  BY OrderStoreAssumption DEF OrderStoreAssumption
<1>2. IsFiniteSet(Orders \X (1..MaxQty))
  <2>1. IsFiniteSet(1..MaxQty)
    BY <1>1, FS_Interval
  <2> QED
    BY <1>1, <2>1, FS_Product
<1>3. Portions(O, s) \subseteq Orders \X (1..MaxQty)
  BY DEF Portions
<1> QED
  BY <1>2, <1>3, FS_Subset

\* A total is a natural number.
LEMMA TotalNat ==
    ASSUME NEW O \in SUBSET Orders, NEW s \in Skus
    PROVE  Total(O, s) \in Nat
BY PortionsFinite, FS_CardinalityType DEF Total

\* The total of one order is the quantity in its cart.
LEMMA TotalOne ==
    ASSUME NEW o \in Orders, NEW s \in Skus
    PROVE  Total({o}, s) = Qty[o][s]
<1> DEFINE q == Qty[o][s]
<1>1. q \in Nat /\ q <= MaxQty /\ MaxQty \in Nat
  BY OrderStoreAssumption DEF OrderStoreAssumption
<1>2. Portions({o}, s) = {o} \X (1..q)
  <2>1. ASSUME NEW u \in Portions({o}, s) PROVE u \in {o} \X (1..q)
    BY <1>1, <2>1 DEF Portions
  <2>2. ASSUME NEW u \in {o} \X (1..q) PROVE u \in Portions({o}, s)
    BY <1>1, <2>2 DEF Portions
  <2> QED
    BY <2>1, <2>2
<1>3. IsFiniteSet(1..q) /\ Cardinality(1..q) = q
  <2>1. 1 \in Int /\ q \in Int
    BY <1>1
  <2>2. Cardinality(1..q) = IF 1 > q THEN 0 ELSE q - 1 + 1
    BY <2>1, FS_Interval, Zenon
  <2>3. IsFiniteSet(1..q)
    BY <2>1, FS_Interval, Zenon
  <2>4. (IF 1 > q THEN 0 ELSE q - 1 + 1) = q
    BY <1>1
  <2> QED
    BY <2>2, <2>3, <2>4
<1>4. IsFiniteSet({o}) /\ Cardinality({o}) = 1
  BY FS_Singleton
<1>5. Cardinality({o} \X (1..q)) = 1 * q
  BY <1>3, <1>4, FS_Product, Zenon
<1>6. 1 * q = q
  BY <1>1
<1>7. Total({o}, s) = Cardinality({o} \X (1..q))
  BY <1>2 DEF Total
<1> QED
  BY <1>5, <1>6, <1>7, Zenon

\* Removing a part removes its total.
LEMMA TotalDiff ==
    ASSUME NEW O \in SUBSET Orders, NEW B \in SUBSET O, NEW s \in Skus
    PROVE  /\ Total(O \ B, s) = Total(O, s) - Total(B, s)
           /\ Total(B, s) <= Total(O, s)
<1>1. Portions(O \ B, s) = Portions(O, s) \ Portions(B, s)
  BY DEF Portions
<1>2. Portions(O, s) \cap Portions(B, s) = Portions(B, s)
  BY DEF Portions
<1>3. IsFiniteSet(Portions(O, s))
  BY PortionsFinite
<1>4. Cardinality(Portions(O, s) \ Portions(B, s))
        = Cardinality(Portions(O, s)) - Cardinality(Portions(B, s))
  BY <1>2, <1>3, FS_Difference
<1>5. Portions(B, s) \subseteq Portions(O, s)
  BY DEF Portions
<1>6. Cardinality(Portions(B, s)) <= Cardinality(Portions(O, s))
  BY <1>3, <1>5, FS_Subset
<1> QED
  BY <1>1, <1>4, <1>6 DEF Total

\* Adding an order adds what is in its cart; removing it takes it away.
LEMMA TotalAdd ==
    ASSUME NEW O \in SUBSET Orders, NEW o \in Orders, o \notin O, NEW s \in Skus
    PROVE  Total(O \cup {o}, s) = Total(O, s) + Qty[o][s]
<1> DEFINE P == O \cup {o}
<1>1. P \ {o} = O /\ {o} \in SUBSET P /\ P \in SUBSET Orders
  OBVIOUS
<1>2. Total(P \ {o}, s) = Total(P, s) - Total({o}, s)
  BY <1>1, TotalDiff
<1>3. Total(P, s) \in Nat /\ Total({o}, s) = Qty[o][s] /\ Total({o}, s) \in Nat
  BY <1>1, TotalNat, TotalOne
<1>4. Total(O, s) = Total(P, s) - Total({o}, s)
  BY <1>1, <1>2, Zenon
<1> HIDE DEF P
<1>5. Total(P, s) = Total(O, s) + Qty[o][s]
  BY <1>3, <1>4
<1> QED
  BY <1>5 DEF P

LEMMA TotalRemove ==
    ASSUME NEW O \in SUBSET Orders, NEW o \in O, NEW s \in Skus
    PROVE  /\ Total(O \ {o}, s) = Total(O, s) - Qty[o][s]
           /\ Qty[o][s] <= Total(O, s)
<1>1. o \in Orders /\ {o} \in SUBSET O
  OBVIOUS
<1>2. /\ Total(O \ {o}, s) = Total(O, s) - Total({o}, s)
      /\ Total({o}, s) <= Total(O, s)
  BY <1>1, TotalDiff, Zenon
<1>3. Total({o}, s) = Qty[o][s]
  BY <1>1, TotalOne
<1> QED
  BY <1>2, <1>3, Zenon

-----------------------------------------------------------------------------
(***************************************************************************)
(* The inductive invariant.  The ledger needs to know what each order      *)
(* holds, and the types of the counters need the ledger: the subtractions  *)
(* of the worker stay in Nat because the row still counts what they take.  *)
(***************************************************************************)
Fresh ==
    \A o \in Orders : ost[o] = "NONE" => version[o] = 0 /\ ~paid[o]

IInv ==
    /\ TypeOK /\ StockLedger /\ StockFollowsOrder
    /\ PickupNumbersGapless /\ Fresh

\* A quantity is a natural number.
LEMMA QtyNat ==
    ASSUME NEW o \in Orders, NEW s \in Skus
    PROVE  Qty[o][s] \in Nat
BY OrderStoreAssumption DEF OrderStoreAssumption

\* Counters that agree with the ledger are natural numbers.
LEMMA LedgerTypesNext ==
    ASSUME StockLedger', resv' \in [Orders -> ResvStates],
           reserved' = [s \in Skus |-> reserved'[s]],
           sold' = [s \in Skus |-> sold'[s]]
    PROVE  reserved' \in [Skus -> Nat] /\ sold' \in [Skus -> Nat]
<1>1. /\ WithResv("RESERVED")' \in SUBSET Orders
      /\ WithResv("FULFILLED")' \in SUBSET Orders
  BY DEF WithResv
<1>2. \A s \in Skus : reserved'[s] \in Nat /\ sold'[s] \in Nat
  BY <1>1, TotalNat DEF StockLedger
<1> QED
  BY <1>2

(***************************************************************************)
(* The four ways in which the stock moves, each against the ledger.        *)
(***************************************************************************)

\* A creation adds one cart to the reserved total.
LEMMA LedgerReserve ==
    ASSUME IInv, NEW o \in Orders, resv[o] = "NONE", ReserveInventory(o)
    PROVE  StockLedger'
<1>1. o \notin WithResv("RESERVED") /\ WithResv("RESERVED") \in SUBSET Orders
  BY DEF WithResv
<1>2. WithResv("RESERVED")' = WithResv("RESERVED") \cup {o}
  BY DEF WithResv, ReserveInventory, IInv, TypeOK
<1>3. WithResv("FULFILLED")' = WithResv("FULFILLED")
  BY DEF WithResv, ReserveInventory, IInv, TypeOK
<1>4. ASSUME NEW s \in Skus
      PROVE  reserved'[s] = Total(WithResv("RESERVED")', s)
  <2>1. Total(WithResv("RESERVED") \cup {o}, s) = Total(WithResv("RESERVED"), s) + Qty[o][s]
    BY <1>1, TotalAdd
  <2>2. reserved[s] = Total(WithResv("RESERVED"), s)
    BY DEF IInv, StockLedger
  <2>3. reserved'[s] = reserved[s] + Qty[o][s]
    BY DEF ReserveInventory
  <2> QED
    BY <1>2, <2>1, <2>2, <2>3, Zenon
<1>5. ASSUME NEW s \in Skus
      PROVE  sold'[s] = Total(WithResv("FULFILLED")', s)
  BY <1>3 DEF IInv, StockLedger, ReserveInventory
<1> QED
  BY <1>4, <1>5 DEF StockLedger

\* A release takes one cart from the total it is part of.
LEMMA LedgerRelease ==
    ASSUME IInv, NEW o \in Orders, resv[o] \in {"RESERVED", "FULFILLED"},
           ReleaseInventory(o)
    PROVE  StockLedger'
<1> DEFINE R == WithResv("RESERVED")
           F == WithResv("FULFILLED")
<1>1. R \in SUBSET Orders /\ F \in SUBSET Orders
  BY DEF WithResv
<1>2. ASSUME NEW s \in Skus
      PROVE  /\ reserved[s] = Total(R, s) /\ sold[s] = Total(F, s)
             /\ Qty[o][s] \in Nat /\ Total(R, s) \in Nat /\ Total(F, s) \in Nat
  BY <1>1, TotalNat, QtyNat DEF IInv, StockLedger
<1>3. CASE resv[o] = "RESERVED"
  <2>1. o \in R /\ R' = R \ {o} /\ F' = F
    BY <1>3 DEF WithResv, ReleaseInventory, IInv, TypeOK
  <2>2. ASSUME NEW s \in Skus
        PROVE  reserved'[s] = Total(R', s) /\ sold'[s] = Total(F', s)
    <3>1. Total(R \ {o}, s) = Total(R, s) - Qty[o][s] /\ Qty[o][s] <= Total(R, s)
      BY <1>1, <2>1, TotalRemove
    <3>2. reserved'[s] = MinusFloor(reserved[s], Qty[o][s]) /\ sold'[s] = sold[s]
      BY <1>3 DEF ReleaseInventory
    <3>3. MinusFloor(reserved[s], Qty[o][s]) = Total(R, s) - Qty[o][s]
      BY <1>2, <3>1 DEF MinusFloor
    <3> QED
      BY <1>2, <2>1, <3>1, <3>2, <3>3, Zenon
  <2> QED
    BY <2>2 DEF StockLedger
<1>4. CASE resv[o] = "FULFILLED"
  <2>1. o \in F /\ F' = F \ {o} /\ R' = R
    BY <1>4 DEF WithResv, ReleaseInventory, IInv, TypeOK
  <2>2. ASSUME NEW s \in Skus
        PROVE  reserved'[s] = Total(R', s) /\ sold'[s] = Total(F', s)
    <3>1. Total(F \ {o}, s) = Total(F, s) - Qty[o][s] /\ Qty[o][s] <= Total(F, s)
      BY <1>1, <2>1, TotalRemove
    <3>2. sold'[s] = MinusFloor(sold[s], Qty[o][s]) /\ reserved'[s] = reserved[s]
      BY <1>4 DEF ReleaseInventory
    <3>3. MinusFloor(sold[s], Qty[o][s]) = Total(F, s) - Qty[o][s]
      BY <1>2, <3>1 DEF MinusFloor
    <3> QED
      BY <1>2, <2>1, <3>1, <3>2, <3>3, Zenon
  <2> QED
    BY <2>2 DEF StockLedger
<1> QED
  BY <1>3, <1>4

\* A payment moves one cart from the reserved to the sold total, once.
LEMMA LedgerPayment ==
    ASSUME IInv, NEW o \in Orders, PaymentSuccess(o)
    PROVE  StockLedger'
<1> DEFINE R == WithResv("RESERVED")
           F == WithResv("FULFILLED")
<1>1. R \in SUBSET Orders /\ F \in SUBSET Orders
  BY DEF WithResv
<1>2. CASE resv[o] = "RESERVED"
  <2>1. o \in R /\ o \notin F /\ R' = R \ {o} /\ F' = F \cup {o}
    BY <1>2 DEF WithResv, PaymentSuccess, IInv, TypeOK
  <2>2. ASSUME NEW s \in Skus
        PROVE  reserved'[s] = Total(R', s) /\ sold'[s] = Total(F', s)
    <3>1. Total(R \ {o}, s) = Total(R, s) - Qty[o][s]
      BY <1>1, <2>1, TotalRemove
    <3>2. Total(F \cup {o}, s) = Total(F, s) + Qty[o][s]
      BY <1>1, <2>1, TotalAdd
    <3>3. reserved'[s] = reserved[s] - Qty[o][s] /\ sold'[s] = sold[s] + Qty[o][s]
      BY <1>2 DEF PaymentSuccess
    <3>4. reserved[s] = Total(R, s) /\ sold[s] = Total(F, s)
      BY DEF IInv, StockLedger
    <3> QED
      BY <2>1, <3>1, <3>2, <3>3, <3>4, Zenon
  <2> QED
    BY <2>2 DEF StockLedger
<1>3. CASE resv[o] # "RESERVED"
  BY <1>3 DEF PaymentSuccess, IInv, StockLedger, WithResv
<1> QED
  BY <1>2, <1>3

\* An expiry batch takes from the reserved total what of it is still reserved.
LEMMA LedgerBatch ==
    ASSUME IInv, NEW w \in Workers, ReleaseCommit(w)
    PROVE  StockLedger'
<1> DEFINE R == WithResv("RESERVED")
           H == StillReserved(scan[w])
<1>1. scan[w] \in SUBSET Orders
  BY DEF IInv, TypeOK
<1>2. R \in SUBSET Orders /\ H \in SUBSET R
  BY <1>1 DEF WithResv, StillReserved
<1>3. R' = R \ H
  BY <1>1 DEF WithResv, ReleaseCommit, StillReserved, IInv, TypeOK
<1>4. WithResv("FULFILLED")' = WithResv("FULFILLED")
  BY <1>1 DEF WithResv, ReleaseCommit, StillReserved, IInv, TypeOK
<1>5. ASSUME NEW s \in Skus
      PROVE  /\ reserved'[s] = Total(R', s)
             /\ sold'[s] = Total(WithResv("FULFILLED")', s)
  <2>1. Total(R \ H, s) = Total(R, s) - Total(H, s)
    BY <1>2, TotalDiff
  <2>2. reserved'[s] = reserved[s] - Total(H, s) /\ sold' = sold
    BY DEF ReleaseCommit
  <2>3. reserved[s] = Total(R, s) /\ sold[s] = Total(WithResv("FULFILLED"), s)
    BY DEF IInv, StockLedger
  <2> QED
    BY <1>3, <1>4, <2>1, <2>2, <2>3, Zenon
<1> QED
  BY <1>5 DEF StockLedger

-----------------------------------------------------------------------------
(***************************************************************************)
(* Five actions only move the order along its chart.                       *)
(***************************************************************************)
Holding == {"PAID", "ACCEPTED", "PREPARING", "READY", "COMPLETED",
            "CANCEL_REQUESTED", "REFUNDING"}

StateMove(o, to) ==
    /\ ost[o] \in Holding
    /\ to \in Holding \cup {"CANCELLED"}
    /\ Advance(o, to)
    /\ UNCHANGED <<pickupNo, paid, released, expired, stockVars,
                   slotReserved, scan, screen>>

Move(o) ==
    \/ CancelPaid(o) \/ RequestCancel(o) \/ StaffRefund(o)
    \/ \E approve \in BOOLEAN : ReviewCancelRequest(o, approve)
    \/ \E m \in Staff, to \in OrderStates : screen[m].order = o /\ Transition(m, to)

\* The table never leaves or enters an unpaid or a refunded state for staff.
LEMMA StaffTransitions ==
    ASSUME NEW from, NEW to, CanTransition(from, to, "staff")
    PROVE  from \in Holding /\ to \in Holding \cup {"CANCELLED"}
BY DEF CanTransition, Transitions, Holding

LEMMA MoveIsStateMove ==
    ASSUME NEW o \in Orders, Move(o)
    PROVE  \E to \in OrderStates : StateMove(o, to)
<1>1. CASE CancelPaid(o)
  BY <1>1 DEF CancelPaid, StateMove, Holding, OrderStates
<1>2. CASE RequestCancel(o)
  BY <1>2 DEF RequestCancel, StateMove, Holding, OrderStates
<1>3. CASE StaffRefund(o)
  BY <1>3, StaffTransitions DEF StaffRefund, StateMove, OrderStates
<1>4. ASSUME NEW approve \in BOOLEAN, ReviewCancelRequest(o, approve)
      PROVE  \E to \in OrderStates : StateMove(o, to)
  BY <1>4 DEF ReviewCancelRequest, StateMove, Holding, OrderStates
<1>5. ASSUME NEW m \in Staff, NEW to \in OrderStates,
             screen[m].order = o, Transition(m, to)
      PROVE  StateMove(o, to)
  BY <1>5, StaffTransitions DEF Transition, StateMove
<1> QED
  BY <1>1, <1>2, <1>3, <1>4, <1>5 DEF Move

\* A step of Next is one of these.
LEMMA NextCases ==
    ASSUME TypeOK, Next
    PROVE  \/ \E o \in Orders :
                \/ Create(o) \/ Expire(o) \/ CancelUnpaid(o) \/ PaymentSuccess(o)
                \/ MarkRefunded(o) \/ \E to \in OrderStates : StateMove(o, to)
           \/ \E m \in Staff, o \in Orders : Load(m, o)
           \/ \E s \in Skus, delta \in {-1, 1} : Adjust(s, delta)
           \/ \E w \in Workers : ReleaseScan(w) \/ ReleaseCommit(w) \/ ReleaseAbort(w)
<1>1. ASSUME NEW m \in Staff, NEW to \in OrderStates, Transition(m, to)
      PROVE  \E o \in Orders : Move(o)
  <2>1. screen[m].order \in Orders
    BY DEF TypeOK, Screens
  <2> QED
    BY <1>1, <2>1 DEF Move
<1>2. ASSUME NEW o \in Orders,
             \/ CancelPaid(o) \/ RequestCancel(o) \/ StaffRefund(o)
             \/ \E approve \in BOOLEAN : ReviewCancelRequest(o, approve)
      PROVE  Move(o)
  BY <1>2 DEF Move
<1> QED
  BY <1>1, <1>2, MoveIsStateMove DEF Next, Cancel

-----------------------------------------------------------------------------
(***************************************************************************)
(* The invariant holds initially and is kept by every step.                *)
(***************************************************************************)
LEMMA InitIInv == Init => IInv
<1> SUFFICES ASSUME Init PROVE IInv
  OBVIOUS
<1> USE OrderStoreAssumption DEF OrderStoreAssumption
<1>1. TypeOK
  <2>1. \E o \in Orders : TRUE
    OBVIOUS
  <2>2. (CHOOSE o \in Orders : TRUE) \in Orders
    BY <2>1
  <2> QED
    BY <2>2 DEF Init, TypeOK, OrderStates, ResvStates, Screens
<1>2. StockLedger
  <2>1. WithResv("RESERVED") = {} /\ WithResv("FULFILLED") = {}
    BY DEF Init, WithResv
  <2>2. ASSUME NEW s \in Skus PROVE Total({}, s) = 0
    <3>1. Portions({}, s) = {}
      BY DEF Portions
    <3> QED
      BY <3>1, FS_EmptySet DEF Total
  <2> QED
    BY <2>1, <2>2 DEF Init, StockLedger
<1>3. StockFollowsOrder /\ Fresh
  BY DEF Init, StockFollowsOrder, Fresh, OrderStates
<1>4. PickupNumbersGapless
  <2>1. Created = {}
    BY DEF Init, Created
  <2>2. Cardinality(Created) = 0
    BY <2>1, FS_EmptySet
  <2> QED
    BY <2>1, <2>2 DEF PickupNumbersGapless
<1> QED
  BY <1>1, <1>2, <1>3, <1>4 DEF IInv

\* Stock as it was is stock in balance.
LEMMA LedgerUnchanged ==
    ASSUME IInv, UNCHANGED <<resv, reserved, sold>>
    PROVE  StockLedger'
BY DEF IInv, StockLedger, WithResv

\* The next pickup number is one more than the number of orders created.
LEMMA NextPickupNoIs ==
    ASSUME TypeOK, PickupNumbersGapless
    PROVE  /\ Cardinality(Created) \in Nat
           /\ NextPickupNo = Cardinality(Created) + 1
<1> DEFINE n == Cardinality(Created)
           N == {pickupNo[o] : o \in Created}
           Last(k) == \A o \in Created : pickupNo[o] <= k
<1>1. IsFiniteSet(Created)
  BY OrderStoreAssumption, FS_Subset DEF OrderStoreAssumption, Created
<1>2. n \in Nat
  BY <1>1, FS_CardinalityType
<1>3. N = 1..n
  BY DEF PickupNumbersGapless
<1>4. CASE Created = {}
  BY <1>4, FS_EmptySet DEF NextPickupNo
<1>5. CASE Created # {}
  <2>1. N # {}
    BY <1>5
  <2> HIDE DEF n
  <2>2. n \in N /\ \A k \in N : k <= n
    BY <1>2, <1>3, <2>1
  <2>3. Last(n)
    BY <2>2
  <2>4. ASSUME NEW k \in N, Last(k) PROVE k = n
    <3>1. PICK o \in Created : pickupNo[o] = n
      BY <2>2
    <3>2. n <= k /\ k <= n /\ k \in 1..n
      BY <1>3, <2>2, <2>4, <3>1
    <3> QED
      BY <1>2, <3>2
  <2>5. (CHOOSE k \in N : Last(k)) = n
    BY <2>2, <2>3, <2>4
  <2>6. NextPickupNo = 1 + (CHOOSE k \in N : Last(k))
    BY <1>5 DEF NextPickupNo
  <2>7. NextPickupNo = 1 + n
    BY <2>5, <2>6, Zenon
  <2>8. NextPickupNo = n + 1
    BY <1>2, <2>7
  <2> QED
    BY <1>2, <2>8 DEF n
<1> QED
  BY <1>2, <1>4, <1>5

\* A creation continues the sequence, whatever was cancelled in between.
LEMMA CreateNumbers ==
    ASSUME TypeOK, PickupNumbersGapless, NEW o \in Orders, Create(o)
    PROVE  PickupNumbersGapless'
<1> DEFINE n == Cardinality(Created)
<1>1. n \in Nat /\ NextPickupNo = n + 1 /\ {pickupNo[i] : i \in Created} = 1..n
  BY NextPickupNoIs DEF PickupNumbersGapless
<1>2. o \notin Created /\ IsFiniteSet(Created)
  BY OrderStoreAssumption, FS_Subset DEF OrderStoreAssumption, Created, Create
<1>3. Created' = Created \cup {o}
  BY DEF Created, Create, TypeOK
<1>4. Cardinality(Created') = n + 1
  BY <1>2, <1>3, FS_AddElement
<1>5. pickupNo' = [pickupNo EXCEPT ![o] = n + 1]
  BY <1>1 DEF Create
<1> HIDE DEF n
<1>6. {pickupNo'[i] : i \in Created'} = {pickupNo[i] : i \in Created} \cup {n + 1}
  BY <1>2, <1>3, <1>5 DEF TypeOK, Created
<1>7. {pickupNo'[i] : i \in Created'} = 1..(n + 1)
  BY <1>1, <1>6
<1> QED
  BY <1>4, <1>7 DEF PickupNumbersGapless

\* No other transaction gives a number or unmakes an order.
LEMMA NumbersKept ==
    ASSUME PickupNumbersGapless, UNCHANGED pickupNo,
           \A o \in Orders : ost'[o] = "NONE" <=> ost[o] = "NONE"
    PROVE  PickupNumbersGapless'
<1>1. Created' = Created
  BY DEF Created
<1> QED
  BY <1>1 DEF PickupNumbersGapless

\* A batch leaves slot counters in Nat.
LEMMA BatchSlotNat ==
    ASSUME NEW B \in SUBSET Orders, NEW t \in Slots, NEW n \in Nat
    PROVE  MinusFloor(n, Cardinality({o \in B : SlotOf[o] = t})) \in Nat
<1>1. IsFiniteSet(Orders) /\ {o \in B : SlotOf[o] = t} \subseteq Orders
  BY OrderStoreAssumption DEF OrderStoreAssumption
<1>2. Cardinality({o \in B : SlotOf[o] = t}) \in Nat
  BY <1>1, FS_Subset, FS_CardinalityType
<1> QED
  BY <1>2 DEF MinusFloor

LEMMA CreateStep ==
    ASSUME IInv, NEW o \in Orders, Create(o)
    PROVE  IInv'
<1>1. resv[o] = "NONE" /\ ost[o] = "NONE" /\ ~paid[o]
  BY DEF Create, IInv, StockFollowsOrder, Fresh
<1>2. StockLedger'
  BY <1>1, LedgerReserve DEF Create
<1>3. resv' \in [Orders -> ResvStates]
  BY DEF IInv, TypeOK, Create, ReserveInventory, ResvStates
<1>4. reserved' \in [Skus -> Nat]
  BY QtyNat DEF IInv, TypeOK, Create, ReserveInventory
<1>5. NextPickupNo \in Nat
  BY NextPickupNoIs DEF IInv
<1>6. slotReserved' \in [Slots -> Nat]
  <2>1. CASE SlotOf[o] = NoSlot
    BY <2>1 DEF IInv, TypeOK, Create, ReservePickupSlot
  <2>2. CASE SlotOf[o] # NoSlot
    <3>1. slotReserved' = [slotReserved EXCEPT ![SlotOf[o]] = @ + 1]
      BY <2>2 DEF Create, ReservePickupSlot
    <3>2. SlotOf[o] \in Slots
      BY <2>2, OrderStoreAssumption DEF OrderStoreAssumption
    <3> QED
      BY <3>1, <3>2 DEF IInv, TypeOK
  <2> QED
    BY <2>1, <2>2
<1>7. TypeOK'
  BY <1>3, <1>4, <1>5, <1>6
  DEF IInv, TypeOK, Create, ReserveInventory, OrderStates
<1>8. StockFollowsOrder'
  BY <1>1 DEF IInv, TypeOK, StockFollowsOrder, Create, ReserveInventory, OrderStates
<1>9. Fresh'
  BY DEF IInv, TypeOK, Fresh, Create
<1>10. PickupNumbersGapless'
  BY CreateNumbers DEF IInv
<1> QED
  BY <1>2, <1>7, <1>8, <1>9, <1>10 DEF IInv

LEMMA PaymentStep ==
    ASSUME IInv, NEW o \in Orders, PaymentSuccess(o)
    PROVE  IInv'
<1>1. StockLedger'
  BY LedgerPayment
<1>2. resv' \in [Orders -> ResvStates]
  BY DEF IInv, TypeOK, PaymentSuccess, ResvStates
<1>3. reserved' \in [Skus -> Nat] /\ sold' \in [Skus -> Nat]
  <2>1. /\ reserved' = [s \in Skus |-> reserved'[s]]
        /\ sold' = [s \in Skus |-> sold'[s]]
    BY DEF IInv, TypeOK, PaymentSuccess
  <2> QED
    BY <1>1, <1>2, <2>1, LedgerTypesNext
<1>4. TypeOK'
  <2>1. CASE ost[o] = "PENDING_PAYMENT"
    <3>1. ost' \in [Orders -> OrderStates] /\ version' \in [Orders -> Nat]
      BY <2>1 DEF IInv, TypeOK, PaymentSuccess, Advance, OrderStates
    <3>2. paid' \in [Orders -> BOOLEAN]
      <4>1. paid' = [paid EXCEPT ![o] = TRUE] /\ paid \in [Orders -> BOOLEAN]
        BY <2>1 DEF IInv, TypeOK, PaymentSuccess
      <4> QED
        BY <4>1
    <3> QED
      BY <1>2, <1>3, <3>1, <3>2 DEF IInv, TypeOK, PaymentSuccess
  <2>2. CASE ost[o] # "PENDING_PAYMENT"
    BY <1>2, <1>3, <2>2 DEF IInv, TypeOK, PaymentSuccess
  <2> QED
    BY <2>1, <2>2
<1>5. StockFollowsOrder'
  BY DEF IInv, TypeOK, StockFollowsOrder, PaymentSuccess, Advance, OrderStates
<1>6. Fresh'
  BY DEF IInv, TypeOK, Fresh, PaymentSuccess, Advance
<1>7. PickupNumbersGapless'
  BY NumbersKept DEF IInv, TypeOK, PaymentSuccess, Advance
<1> QED
  BY <1>1, <1>4, <1>5, <1>6, <1>7 DEF IInv

\* An order that gives back its stock and its slot, on its way to state "to".
GiveBack(o, to) ==
    /\ \/ ost[o] = "PENDING_PAYMENT" /\ to = "CANCELLED"
       \/ ost[o] = "REFUNDING" /\ to = "REFUNDED"
    /\ Advance(o, to)
    /\ ReleaseInventory(o)
    /\ ReleasePickupCapacity(o)
    /\ UNCHANGED <<pickupNo, paid, expired, scan, screen>>

LEMMA GiveBackStep ==
    ASSUME IInv, NEW o \in Orders, NEW to, GiveBack(o, to)
    PROVE  IInv'
<1>1. resv[o] \in {"RESERVED", "FULFILLED"}
  BY DEF GiveBack, IInv, StockFollowsOrder, OrderStates
<1>2. StockLedger'
  BY <1>1, LedgerRelease DEF GiveBack
<1>3. resv' \in [Orders -> ResvStates]
  BY DEF IInv, TypeOK, GiveBack, ReleaseInventory, ResvStates
<1>4. reserved' \in [Skus -> Nat] /\ sold' \in [Skus -> Nat]
  <2>1. /\ reserved' = [s \in Skus |-> reserved'[s]]
        /\ sold' = [s \in Skus |-> sold'[s]]
    BY DEF GiveBack, ReleaseInventory
  <2> QED
    BY <1>2, <1>3, <2>1, LedgerTypesNext
<1>5. slotReserved' \in [Slots -> Nat] /\ released' \in [Orders -> BOOLEAN]
  <2>1. CASE SlotOf[o] # NoSlot /\ ~released[o]
    <3>1. slotReserved' = [slotReserved EXCEPT ![SlotOf[o]] = MinusFloor(@, 1)]
      BY <2>1 DEF GiveBack, ReleasePickupCapacity
    <3>2. SlotOf[o] \in Slots
      BY <2>1, OrderStoreAssumption DEF OrderStoreAssumption
    <3>3. slotReserved' \in [Slots -> Nat]
      BY <3>1, <3>2 DEF IInv, TypeOK, MinusFloor
    <3>4. released' \in [Orders -> BOOLEAN]
      <4>1. released' = [released EXCEPT ![o] = TRUE] /\ released \in [Orders -> BOOLEAN]
        BY <2>1 DEF IInv, TypeOK, GiveBack, ReleasePickupCapacity
      <4> QED
        BY <4>1
    <3> QED
      BY <3>3, <3>4
  <2>2. CASE ~(SlotOf[o] # NoSlot /\ ~released[o])
    BY <2>2 DEF IInv, TypeOK, GiveBack, ReleasePickupCapacity
  <2> QED
    BY <2>1, <2>2
<1>6. TypeOK'
  BY <1>3, <1>4, <1>5
  DEF IInv, TypeOK, GiveBack, ReleaseInventory, Advance, OrderStates
<1>7. StockFollowsOrder'
  BY <1>1
  DEF IInv, TypeOK, StockFollowsOrder, GiveBack, ReleaseInventory, Advance, OrderStates
<1>8. Fresh'
  <2>1. ost'[o] # "NONE"
    BY DEF IInv, TypeOK, GiveBack, Advance
  <2>2. ASSUME NEW i \in Orders, i # o
        PROVE  /\ ost'[i] = ost[i] /\ version'[i] = version[i]
               /\ paid'[i] = paid[i]
    BY <2>2 DEF IInv, TypeOK, GiveBack, Advance
  <2> QED
    BY <2>1, <2>2 DEF IInv, Fresh
<1>9. PickupNumbersGapless'
  BY NumbersKept DEF IInv, TypeOK, GiveBack, Advance
<1> QED
  BY <1>2, <1>6, <1>7, <1>8, <1>9 DEF IInv

LEMMA StateMoveStep ==
    ASSUME IInv, NEW o \in Orders, NEW to \in OrderStates, StateMove(o, to)
    PROVE  IInv'
<1>1. StockLedger'
  BY LedgerUnchanged DEF StateMove, stockVars
<1>2. TypeOK'
  BY DEF IInv, TypeOK, StateMove, Advance, stockVars
<1>3. StockFollowsOrder'
  BY DEF IInv, TypeOK, StockFollowsOrder, StateMove, Advance, stockVars, Holding, OrderStates
<1>4. Fresh'
  BY DEF IInv, TypeOK, Fresh, StateMove, Advance, Holding
<1>5. PickupNumbersGapless'
  BY NumbersKept DEF IInv, TypeOK, StateMove, Advance, Holding
<1> QED
  BY <1>1, <1>2, <1>3, <1>4, <1>5 DEF IInv

LEMMA BatchStep ==
    ASSUME IInv, NEW w \in Workers, ReleaseCommit(w)
    PROVE  IInv'
<1> DEFINE H == StillReserved(scan[w])
           U == {o \in scan[w] : ost[o] = "PENDING_PAYMENT"}
<1>1. scan[w] \in SUBSET Orders
  BY DEF IInv, TypeOK
<1>2. H = U
  BY <1>1 DEF IInv, TypeOK, StockFollowsOrder, StillReserved, OrderStates
<1>3. StockLedger'
  BY LedgerBatch
<1>4. resv' \in [Orders -> ResvStates]
  BY DEF IInv, TypeOK, ReleaseCommit, ResvStates
<1>5. reserved' \in [Skus -> Nat] /\ sold' \in [Skus -> Nat]
  <2>1. /\ reserved' = [s \in Skus |-> reserved'[s]]
        /\ sold' = [s \in Skus |-> sold'[s]]
    BY DEF IInv, TypeOK, ReleaseCommit
  <2> QED
    BY <1>3, <1>4, <2>1, LedgerTypesNext
<1>6. slotReserved' \in [Slots -> Nat]
  BY <1>1, BatchSlotNat DEF IInv, TypeOK, ReleaseCommit
<1>7. /\ ost' = [o \in Orders |-> IF o \in U THEN "CANCELLED" ELSE ost[o]]
      /\ resv' = [o \in Orders |-> IF o \in U THEN "RELEASED" ELSE resv[o]]
      /\ version' = [o \in Orders |-> IF o \in U THEN version[o] + 1 ELSE version[o]]
      /\ UNCHANGED <<pickupNo, paid, expired, target, sold, screen>>
      /\ scan' = [scan EXCEPT ![w] = {}]
      /\ released' \in [Orders -> BOOLEAN]
  BY <1>2 DEF ReleaseCommit, IInv, TypeOK
<1>8. \A o \in U : o \in Orders /\ ost[o] = "PENDING_PAYMENT"
  BY <1>1
<1> HIDE DEF U, H
<1>9. TypeOK'
  BY <1>4, <1>5, <1>6, <1>7 DEF IInv, TypeOK, OrderStates
<1>10. StockFollowsOrder'
  BY <1>7, <1>8 DEF IInv, TypeOK, StockFollowsOrder, OrderStates
<1>11. Fresh'
  BY <1>7, <1>8 DEF IInv, TypeOK, Fresh
<1>12. PickupNumbersGapless'
  BY <1>7, <1>8, NumbersKept DEF IInv
<1> QED
  BY <1>3, <1>9, <1>10, <1>11, <1>12 DEF IInv

\* Time, the staff's board, adjustments and the scan leave the orders alone.
LEMMA AsideStep ==
    ASSUME IInv,
           \/ \E o \in Orders : Expire(o)
           \/ \E m \in Staff, o \in Orders : Load(m, o)
           \/ \E s \in Skus, delta \in {-1, 1} : Adjust(s, delta)
           \/ \E w \in Workers : ReleaseScan(w) \/ ReleaseAbort(w)
           \/ UNCHANGED vars
    PROVE  IInv'
<1>1. UNCHANGED <<orderVars, resv, reserved, sold, slotReserved>>
  BY DEF Expire, Load, Adjust, ReleaseScan, ReleaseAbort, vars, orderVars, stockVars
<1>2. StockLedger'
  BY <1>1, LedgerUnchanged
<1>3. StockFollowsOrder' /\ Fresh' /\ PickupNumbersGapless'
  BY <1>1, NumbersKept DEF IInv, StockFollowsOrder, Fresh, orderVars
<1>4. TypeOK'
  <2>1. ASSUME NEW o \in Orders, Expire(o) PROVE TypeOK'
    BY <1>1, <2>1 DEF IInv, TypeOK, Expire, orderVars, stockVars
  <2>2. ASSUME NEW m \in Staff, NEW o \in Orders, Load(m, o) PROVE TypeOK'
    BY <1>1, <2>2 DEF IInv, TypeOK, Load, Screens, orderVars, stockVars
  <2>3. ASSUME NEW s \in Skus, NEW delta \in {-1, 1}, Adjust(s, delta) PROVE TypeOK'
    <3>1. target' \in [Skus -> Nat]
      BY <2>3, OrderStoreAssumption DEF OrderStoreAssumption, IInv, TypeOK, Adjust
    <3> QED
      BY <1>1, <2>3, <3>1 DEF IInv, TypeOK, Adjust, orderVars
  <2>4. ASSUME NEW w \in Workers, ReleaseScan(w) \/ ReleaseAbort(w) PROVE TypeOK'
    BY <1>1, <2>4 DEF IInv, TypeOK, ReleaseScan, ReleaseAbort, orderVars, stockVars
  <2>5. ASSUME UNCHANGED vars PROVE TypeOK'
    BY <2>5 DEF IInv, TypeOK, vars
  <2> QED
    BY <2>1, <2>2, <2>3, <2>4, <2>5
<1> QED
  BY <1>2, <1>3, <1>4 DEF IInv

LEMMA NextIInv == IInv /\ [Next]_vars => IInv'
<1> SUFFICES ASSUME IInv, [Next]_vars PROVE IInv'
  OBVIOUS
<1>1. CASE UNCHANGED vars
  BY <1>1, AsideStep
<1>2. CASE Next
  <2>1. TypeOK
    BY DEF IInv
  <2>2. ASSUME NEW o \in Orders, CancelUnpaid(o) \/ MarkRefunded(o) PROVE IInv'
    <3>1. GiveBack(o, "CANCELLED") \/ GiveBack(o, "REFUNDED")
      BY <2>2 DEF CancelUnpaid, MarkRefunded, GiveBack
    <3> QED
      BY <3>1, GiveBackStep
  <2> QED
    BY <1>2, <2>1, <2>2, NextCases, CreateStep, PaymentStep, StateMoveStep,
       BatchStep, AsideStep
<1> QED
  BY <1>1, <1>2

-----------------------------------------------------------------------------
(***************************************************************************)
(* The theorems.                                                           *)
(***************************************************************************)
THEOREM Invariance == Spec => []IInv
BY InitIInv, NextIInv, PTL DEF Spec

\* Types: no stock or slot counter ever goes below zero (worker.go subtracts
\* without GREATEST).
THEOREM TypeCorrect == Spec => []TypeOK
<1>1. IInv => TypeOK
  BY DEF IInv
<1> QED
  BY <1>1, Invariance, PTL

\* The counters of daily_inventory are the sums of the reservation rows.
THEOREM LedgerHolds == Spec => []StockLedger
<1>1. IInv => StockLedger
  BY DEF IInv
<1> QED
  BY <1>1, Invariance, PTL

\* What an order holds follows from its state.
THEOREM StockFollows == Spec => []StockFollowsOrder
<1>1. IInv => StockFollowsOrder
  BY DEF IInv
<1> QED
  BY <1>1, Invariance, PTL

\* Pickup numbers are 1, 2, 3, ... in the order of creation.
THEOREM PickupNumbers == Spec => []PickupNumbersGapless
<1>1. IInv => PickupNumbersGapless
  BY DEF IInv
<1> QED
  BY <1>1, Invariance, PTL

\* Sold stock comes back only with the refund of its order: an expiry batch
\* takes nothing from an order that was paid after the batch was read.
THEOREM SoldStock == Spec => SoldStockReturnsByRefundOnly
<1> DEFINE ByRefund ==
      \A o \in Orders : resv[o] = "FULFILLED" /\ resv'[o] # "FULFILLED"
                           => ost[o] = "REFUNDING" /\ ost'[o] = "REFUNDED"
<1>1. IInv /\ [Next]_vars => [ByRefund]_vars
  <2> SUFFICES ASSUME IInv, Next PROVE ByRefund
    OBVIOUS
  <2>1. ASSUME NEW o \in Orders, Create(o) PROVE ByRefund
    BY <2>1 DEF IInv, TypeOK, StockFollowsOrder, Create, ReserveInventory
  <2>2. ASSUME NEW o \in Orders, PaymentSuccess(o) PROVE ByRefund
    BY <2>2 DEF IInv, TypeOK, PaymentSuccess
  <2>3. ASSUME NEW o \in Orders, CancelUnpaid(o) PROVE ByRefund
    BY <2>3 DEF IInv, TypeOK, StockFollowsOrder, CancelUnpaid, ReleaseInventory
  <2>4. ASSUME NEW o \in Orders, MarkRefunded(o) PROVE ByRefund
    BY <2>4 DEF IInv, TypeOK, MarkRefunded, ReleaseInventory, Advance, OrderStates
  <2>5. ASSUME NEW w \in Workers, ReleaseCommit(w) PROVE ByRefund
    BY <2>5 DEF IInv, TypeOK, ReleaseCommit, StillReserved
  <2>6. ASSUME UNCHANGED resv PROVE ByRefund
    BY <2>6
  <2> QED
    BY <2>1, <2>2, <2>3, <2>4, <2>5, <2>6, NextCases
    DEF IInv, Expire, StateMove, Load, Adjust, ReleaseScan, ReleaseAbort, stockVars
<1>2. Spec => [][ByRefund]_vars
  BY <1>1, Invariance, PTL DEF Spec
<1> QED
  BY <1>2 DEF SoldStockReturnsByRefundOnly

\* Reserved and sold portions never exceed the day's target.  The invariant
\* beside it is the ledger: a release takes what was counted and no more.
THEOREM NoOversale == Spec => []NeverOversold
<1>1. Init => NeverOversold
  BY OrderStoreAssumption DEF OrderStoreAssumption, Init, NeverOversold
<1>2. IInv /\ IInv' /\ NeverOversold /\ [Next]_vars => NeverOversold'
  <2> SUFFICES ASSUME IInv, IInv', NeverOversold, [Next]_vars PROVE NeverOversold'
    OBVIOUS
  <2>1. ASSUME NEW s \in Skus
        PROVE  /\ reserved[s] \in Nat /\ sold[s] \in Nat /\ target[s] \in Nat
               /\ reserved'[s] \in Nat /\ sold'[s] \in Nat /\ target'[s] \in Nat
    BY DEF IInv, TypeOK
  <2>2. DailyRows \subseteq Skus
    BY OrderStoreAssumption DEF OrderStoreAssumption
  <2>3. ASSUME NEW o \in Orders, Create(o) PROVE NeverOversold'
    <3>1. ASSUME NEW s \in DailyRows
          PROVE  reserved'[s] + sold'[s] <= target'[s]
      <4>1. /\ reserved'[s] = reserved[s] + Qty[o][s]
            /\ sold' = sold /\ target' = target /\ HasStock(o)
        BY <2>2, <2>3 DEF Create, ReserveInventory
      <4>2. Qty[o][s] \in Nat /\ reserved[s] + sold[s] <= target[s]
        BY <2>2, QtyNat DEF NeverOversold
      <4>3. CASE Qty[o][s] > 0
        <5>1. reserved[s] + sold[s] + Qty[o][s] <= target[s]
          BY <2>2, <4>1, <4>3 DEF HasStock
        <5> QED
          BY <2>1, <2>2, <4>1, <4>2, <5>1
      <4>4. CASE Qty[o][s] = 0
        BY <2>1, <2>2, <4>1, <4>2, <4>4
      <4> QED
        BY <4>2, <4>3, <4>4
    <3> QED
      BY <3>1 DEF NeverOversold
  <2>4. ASSUME \A s \in Skus : /\ target'[s] = target[s]
                               /\ reserved'[s] + sold'[s] <= reserved[s] + sold[s]
        PROVE  NeverOversold'
    BY <2>1, <2>2, <2>4 DEF NeverOversold
  <2>5. ASSUME NEW o \in Orders, PaymentSuccess(o) PROVE NeverOversold'
    <3>1. ASSUME NEW s \in Skus
          PROVE  /\ target'[s] = target[s]
                 /\ reserved'[s] + sold'[s] = reserved[s] + sold[s]
      BY <2>1, <2>5, QtyNat DEF PaymentSuccess
    <3> QED
      BY <2>1, <2>4, <3>1
  <2>6. ASSUME NEW o \in Orders, CancelUnpaid(o) \/ MarkRefunded(o) PROVE NeverOversold'
    <3>1. ASSUME NEW s \in Skus
          PROVE  /\ target'[s] = target[s]
                 /\ reserved'[s] <= reserved[s] /\ sold'[s] <= sold[s]
      BY <2>1, <2>6, QtyNat DEF CancelUnpaid, MarkRefunded, ReleaseInventory, MinusFloor
    <3> QED
      BY <2>1, <2>4, <3>1
  <2>7. ASSUME NEW w \in Workers, ReleaseCommit(w) PROVE NeverOversold'
    <3>1. ASSUME NEW s \in Skus
          PROVE  /\ target'[s] = target[s] /\ sold'[s] = sold[s]
                 /\ reserved'[s] <= reserved[s]
      <4>1. StillReserved(scan[w]) \in SUBSET Orders
        BY DEF IInv, TypeOK, StillReserved
      <4>2. Total(StillReserved(scan[w]), s) \in Nat
        BY <4>1, TotalNat
      <4>3. /\ reserved'[s] = reserved[s] - Total(StillReserved(scan[w]), s)
            /\ target'[s] = target[s] /\ sold'[s] = sold[s]
        BY <2>7 DEF ReleaseCommit
      <4> QED
        BY <2>1, <4>2, <4>3
    <3> QED
      BY <2>1, <2>4, <3>1
  <2>8. ASSUME NEW i \in Skus, NEW delta \in {-1, 1}, Adjust(i, delta) PROVE NeverOversold'
    <3>1. ASSUME NEW s \in DailyRows
          PROVE  reserved'[s] + sold'[s] <= target'[s]
      <4>1. /\ target' = [target EXCEPT ![i] = target[i] + delta]
            /\ reserved[i] + sold[i] <= target[i] + delta
            /\ reserved' = reserved /\ sold' = sold
        BY <2>8 DEF Adjust
      <4>2. target \in [Skus -> Nat] /\ reserved[s] + sold[s] <= target[s]
        BY DEF IInv, TypeOK, NeverOversold
      <4>3. CASE s = i
        BY <2>2, <4>1, <4>2, <4>3
      <4>4. CASE s # i
        BY <2>2, <4>1, <4>2, <4>4
      <4> QED
        BY <4>3, <4>4
    <3> QED
      BY <3>1 DEF NeverOversold
  <2>9. ASSUME UNCHANGED <<target, reserved, sold>> PROVE NeverOversold'
    BY <2>9 DEF NeverOversold
  <2>10. CASE UNCHANGED vars
    BY <2>9, <2>10 DEF vars
  <2>11. CASE Next
    BY <2>3, <2>5, <2>6, <2>7, <2>8, <2>9, <2>11, NextCases
    DEF IInv, Expire, StateMove, Load, ReleaseScan, ReleaseAbort, stockVars
  <2> QED
    BY <2>10, <2>11
<1> QED
  BY <1>1, <1>2, Invariance, PTL DEF Spec

\* A version names one state of its order.  Creation is the delicate step: it
\* sets version 1, which no screen can hold because the row did not exist.
THEOREM VersionsNameStates == Spec => []VersionNamesState
<1> DEFINE Seen(m) ==
      LET seen == screen[m] IN
        /\ seen.version <= version[seen.order]
        /\ seen.version = version[seen.order] => seen.state = ost[seen.order]
<1>1. Init => VersionNamesState
  <2> SUFFICES ASSUME Init PROVE VersionNamesState
    OBVIOUS
  <2>1. (CHOOSE o \in Orders : TRUE) \in Orders
    BY OrderStoreAssumption DEF OrderStoreAssumption
  <2> QED
    BY <2>1 DEF Init, VersionNamesState
<1>2. IInv /\ IInv' /\ VersionNamesState /\ [Next]_vars => VersionNamesState'
  <2> SUFFICES ASSUME IInv, IInv', VersionNamesState, [Next]_vars,
                      NEW m \in Staff
               PROVE  Seen(m)'
    BY DEF VersionNamesState
  <2> DEFINE i == screen[m].order
  <2>1. /\ i \in Orders /\ screen[m].version \in Nat
        /\ version \in [Orders -> Nat] /\ version' \in [Orders -> Nat]
        /\ screen[m].version <= version[i]
        /\ screen[m].version = version[i] => screen[m].state = ost[i]
    BY DEF VersionNamesState, IInv, TypeOK, Screens
  \* It is enough that a changed order has a greater version.
  <2>2. ASSUME screen'[m] = screen[m],
               \/ ost'[i] = ost[i] /\ version'[i] = version[i]
               \/ version'[i] > version[i]
        PROVE  Seen(m)'
    BY <2>1, <2>2
  <2>3. ASSUME screen'[m] = screen[m], NEW o \in Orders, NEW to, Advance(o, to)
        PROVE  Seen(m)'
    BY <2>1, <2>2, <2>3 DEF Advance, IInv, TypeOK
  <2>4. ASSUME screen'[m] = screen[m], UNCHANGED <<ost, version>>
        PROVE  Seen(m)'
    BY <2>2, <2>4
  <2>5. ASSUME NEW o \in Orders, Create(o) PROVE Seen(m)'
    <3>1. version[o] = 0 /\ screen' = screen
      BY <2>5 DEF Create, IInv, Fresh
    <3>2. \/ ost'[i] = ost[i] /\ version'[i] = version[i]
          \/ version'[i] > version[i]
      BY <2>1, <2>5, <3>1 DEF Create, IInv, TypeOK
    <3> QED
      BY <2>2, <3>1, <3>2
  <2>6. ASSUME NEW o \in Orders, PaymentSuccess(o) PROVE Seen(m)'
    BY <2>3, <2>4, <2>6 DEF PaymentSuccess
  <2>7. ASSUME NEW o \in Orders, CancelUnpaid(o) \/ MarkRefunded(o) PROVE Seen(m)'
    BY <2>3, <2>7 DEF CancelUnpaid, MarkRefunded
  <2>8. ASSUME NEW o \in Orders, NEW to, StateMove(o, to) PROVE Seen(m)'
    BY <2>3, <2>8 DEF StateMove
  <2>9. ASSUME NEW n \in Staff, NEW o \in Orders, Load(n, o) PROVE Seen(m)'
    <3>1. CASE n = m
      <4>1. screen'[m] = [order |-> o, state |-> ost[o], version |-> version[o]]
        BY <2>9, <3>1 DEF Load, IInv, TypeOK
      <4>2. ost' = ost /\ version' = version
        BY <2>9 DEF Load, orderVars
      <4> QED
        BY <2>1, <4>1, <4>2
    <3>2. CASE n # m
      BY <2>4, <2>9, <3>2 DEF Load, orderVars, IInv, TypeOK
    <3> QED
      BY <3>1, <3>2
  <2>10. ASSUME NEW w \in Workers, ReleaseCommit(w) PROVE Seen(m)'
    BY <2>1, <2>2, <2>10 DEF ReleaseCommit, IInv, TypeOK
  <2>11. ASSUME \/ \E o \in Orders : Expire(o)
                \/ \E s \in Skus, delta \in {-1, 1} : Adjust(s, delta)
                \/ \E w \in Workers : ReleaseScan(w) \/ ReleaseAbort(w)
                \/ UNCHANGED vars
         PROVE  Seen(m)'
    BY <2>4, <2>11 DEF Expire, Adjust, ReleaseScan, ReleaseAbort, orderVars, vars
  <2> QED
    BY <2>5, <2>6, <2>7, <2>8, <2>9, <2>10, <2>11, NextCases DEF IInv
<1> QED
  BY <1>1, <1>2, Invariance, PTL DEF Spec

-----------------------------------------------------------------------------
(***************************************************************************)
(* Pickup capacity.  Beside the property itself: only an order that exists *)
(* is read by an expiry batch or carries the mark of a release.            *)
(***************************************************************************)
OnlyCreated ==
    /\ \A o \in Orders : ost[o] = "NONE" => ~released[o]
    /\ \A w \in Workers : scan[w] \subseteq Created

SlotInv == SlotNeverLeaks /\ OnlyCreated

\* The orders that hold a slot are finitely many.
LEMMA HoldersFinite ==
    ASSUME NEW t \in Slots
    PROVE  IsFiniteSet(Holders(t)) /\ Cardinality(Holders(t)) \in Nat
<1>1. IsFiniteSet(Orders) /\ Holders(t) \in SUBSET Orders
  BY OrderStoreAssumption DEF OrderStoreAssumption, Holders, Created
<1> QED
  BY <1>1, FS_Subset, FS_CardinalityType

\* A release that takes from the counter at least as many orders as stop
\* holding the slot leaks nothing.
LEMMA TakingIsSafe ==
    ASSUME NEW n \in Nat, NEW k \in Nat, NEW a \in Nat, NEW b \in Nat,
           n <= a, n <= CapacitySnapshot, b >= a - k
    PROVE  MinusFloor(n, k) <= b /\ MinusFloor(n, k) <= CapacitySnapshot
BY DEF MinusFloor, CapacitySnapshot

LEMMA SlotCreate ==
    ASSUME IInv, SlotInv, NEW o \in Orders, Create(o)
    PROVE  SlotInv'
<1>1. /\ ost[o] = "NONE" /\ ~released[o] /\ ost' = [ost EXCEPT ![o] = "PENDING_PAYMENT"]
      /\ released' = released /\ scan' = scan
  BY DEF Create, SlotInv, OnlyCreated
<1>2. Created' = Created \cup {o} /\ o \notin Created
  BY <1>1 DEF Created, IInv, TypeOK
<1>3. OnlyCreated'
  BY <1>1, <1>2 DEF SlotInv, OnlyCreated, IInv, TypeOK
<1>4. ASSUME NEW t \in Slots
      PROVE  slotReserved'[t] <= Cardinality(Holders(t)') /\ slotReserved'[t] <= CapacitySnapshot
  <2>1. /\ slotReserved \in [Slots -> Nat] /\ slotReserved[t] <= Cardinality(Holders(t))
        /\ slotReserved[t] <= CapacitySnapshot
    BY DEF IInv, TypeOK, SlotInv, SlotNeverLeaks
  <2>2. CASE SlotOf[o] = t
    <3>1. Holders(t)' = Holders(t) \cup {o} /\ o \notin Holders(t)
      BY <1>1, <1>2, <2>2 DEF Holders
    <3>2. Cardinality(Holders(t)') = Cardinality(Holders(t)) + 1
      BY <3>1, HoldersFinite, FS_AddElement
    <3>3. slotReserved[t] < CapacitySnapshot /\ slotReserved'[t] = slotReserved[t] + 1
      <4>1. t # NoSlot
        BY OrderStoreAssumption DEF OrderStoreAssumption
      <4> QED
        BY <2>1, <2>2, <4>1 DEF Create, ReservePickupSlot, SlotFull
    <3> QED
      BY <2>1, <3>2, <3>3, HoldersFinite DEF CapacitySnapshot
  <2>3. CASE SlotOf[o] # t
    <3>1. Holders(t)' = Holders(t)
      BY <1>1, <1>2, <2>3 DEF Holders
    <3>2. slotReserved'[t] = slotReserved[t]
      BY <2>1, <2>3 DEF Create, ReservePickupSlot
    <3> QED
      BY <2>1, <3>1, <3>2
  <2> QED
    BY <2>2, <2>3
<1> QED
  BY <1>3, <1>4 DEF SlotInv, SlotNeverLeaks

LEMMA SlotGiveBack ==
    ASSUME IInv, SlotInv, NEW o \in Orders, NEW to \in OrderStates \ {"NONE"}, GiveBack(o, to)
    PROVE  SlotInv'
<1>1. ost[o] # "NONE" /\ ost' = [ost EXCEPT ![o] = to] /\ scan' = scan
  BY DEF GiveBack, Advance
<1>2. Created' = Created
  BY <1>1 DEF Created, IInv, TypeOK
<1>3. CASE SlotOf[o] # NoSlot /\ ~released[o]
  <2>1. /\ released' = [released EXCEPT ![o] = TRUE]
        /\ slotReserved' = [slotReserved EXCEPT ![SlotOf[o]] = MinusFloor(slotReserved[SlotOf[o]], 1)]
    BY <1>3 DEF GiveBack, ReleasePickupCapacity
  <2>2. OnlyCreated'
    BY <1>1, <1>2, <2>1 DEF SlotInv, OnlyCreated, IInv, TypeOK
  <2>3. ASSUME NEW t \in Slots
        PROVE  slotReserved'[t] <= Cardinality(Holders(t)') /\ slotReserved'[t] <= CapacitySnapshot
    <3>1. /\ slotReserved \in [Slots -> Nat] /\ slotReserved[t] <= Cardinality(Holders(t))
          /\ slotReserved[t] <= CapacitySnapshot
      BY DEF IInv, TypeOK, SlotInv, SlotNeverLeaks
    <3>2. CASE SlotOf[o] = t
      <4>1. o \in Holders(t) /\ Holders(t)' = Holders(t) \ {o}
        BY <1>1, <1>2, <1>3, <2>1, <3>2 DEF Holders, Created, IInv, TypeOK
      <4>2. /\ Cardinality(Holders(t)') = Cardinality(Holders(t)) - 1
            /\ Cardinality(Holders(t)') \in Nat
        BY <4>1, HoldersFinite, FS_RemoveElement, FS_CardinalityType
      <4>3. slotReserved'[t] = MinusFloor(slotReserved[t], 1)
        BY <2>1, <3>1, <3>2
      <4> QED
        BY <3>1, <4>2, <4>3, HoldersFinite, TakingIsSafe
    <3>3. CASE SlotOf[o] # t
      <4>1. Holders(t)' = Holders(t)
        BY <1>2, <2>1, <3>3 DEF Holders, IInv, TypeOK
      <4>2. slotReserved'[t] = slotReserved[t]
        BY <2>1, <3>1, <3>3
      <4> QED
        BY <3>1, <4>1, <4>2
    <3> QED
      BY <3>2, <3>3
  <2> QED
    BY <2>2, <2>3 DEF SlotInv, SlotNeverLeaks
<1>4. CASE ~(SlotOf[o] # NoSlot /\ ~released[o])
  <2>1. released' = released /\ slotReserved' = slotReserved
    BY <1>4 DEF GiveBack, ReleasePickupCapacity
  <2>2. OnlyCreated'
    BY <1>1, <1>2, <2>1 DEF SlotInv, OnlyCreated, IInv, TypeOK
  <2> QED
    BY <1>2, <2>1, <2>2 DEF SlotInv, SlotNeverLeaks, Holders
<1> QED
  BY <1>3, <1>4

LEMMA SlotBatch ==
    ASSUME IInv, SlotInv, NEW w \in Workers, ReleaseCommit(w)
    PROVE  SlotInv'
<1>1. scan[w] \in SUBSET Orders /\ scan[w] \subseteq Created
  BY DEF SlotInv, OnlyCreated, IInv, TypeOK
<1>2. Created' = Created
  BY DEF ReleaseCommit, Created, IInv, TypeOK
<1>3. OnlyCreated'
  <2>1. ASSUME NEW o \in Orders, ost'[o] = "NONE" PROVE ~released'[o]
    <3>1. o \notin Created
      BY <1>2, <2>1 DEF Created
    <3> QED
      BY <1>1, <3>1 DEF SlotInv, OnlyCreated, Created, ReleaseCommit
  <2>2. ASSUME NEW v \in Workers PROVE scan'[v] \subseteq Created'
    BY <1>2 DEF SlotInv, OnlyCreated, ReleaseCommit, IInv, TypeOK
  <2> QED
    BY <2>1, <2>2 DEF OnlyCreated
<1>4. ASSUME NEW t \in Slots
      PROVE  slotReserved'[t] <= Cardinality(Holders(t)') /\ slotReserved'[t] <= CapacitySnapshot
  <2> DEFINE B == {o \in scan[w] : SlotOf[o] = t}
  <2>1. /\ slotReserved[t] \in Nat /\ slotReserved[t] <= Cardinality(Holders(t))
        /\ slotReserved[t] <= CapacitySnapshot
    BY DEF IInv, TypeOK, SlotInv, SlotNeverLeaks
  <2>2. slotReserved'[t] = MinusFloor(slotReserved[t], Cardinality(B))
    BY DEF ReleaseCommit
  <2>3. Holders(t)' = Holders(t) \ B
    <3>1. t # NoSlot
      BY OrderStoreAssumption DEF OrderStoreAssumption
    <3>2. ASSUME NEW o \in Orders
          PROVE  SlotOf[o] = t => (released'[o] <=> (released[o] \/ o \in B))
      BY <3>1 DEF ReleaseCommit
    <3>3. Created \in SUBSET Orders
      BY DEF Created
    <3> QED
      BY <1>2, <3>2, <3>3 DEF Holders
  <2>4. IsFiniteSet(B) /\ Cardinality(B) \in Nat
    <3>1. IsFiniteSet(Orders) /\ B \in SUBSET Orders
      BY <1>1, OrderStoreAssumption DEF OrderStoreAssumption
    <3> QED
      BY <3>1, FS_Subset, FS_CardinalityType
  <2> HIDE DEF B
  <2>5. /\ IsFiniteSet(Holders(t) \ B)
        /\ Cardinality(Holders(t) \ B) = Cardinality(Holders(t)) - Cardinality(Holders(t) \cap B)
    BY HoldersFinite, FS_Difference
  <2>6. /\ Cardinality(Holders(t) \cap B) <= Cardinality(B)
        /\ Cardinality(Holders(t) \cap B) \in Nat
    BY <2>4, FS_Intersection, FS_CardinalityType
  <2>7. Cardinality(Holders(t) \ B) \in Nat
    BY <2>5, FS_CardinalityType
  <2>8. Cardinality(Holders(t) \ B) >= Cardinality(Holders(t)) - Cardinality(B)
    BY <2>4, <2>5, <2>6, HoldersFinite
  <2> QED
    BY <2>1, <2>2, <2>3, <2>4, <2>7, <2>8, HoldersFinite, TakingIsSafe
<1> QED
  BY <1>3, <1>4 DEF SlotInv, SlotNeverLeaks

\* A step that neither creates an order nor touches marks and counters.
LEMMA SlotAside ==
    ASSUME SlotInv, Created' = Created, UNCHANGED <<released, slotReserved>>,
           \A w \in Workers : scan'[w] \subseteq Created
    PROVE  SlotInv'
<1>1. ASSUME NEW t \in Slots PROVE Holders(t)' = Holders(t)
  BY DEF Holders
<1>2. SlotNeverLeaks'
  BY <1>1 DEF SlotInv, SlotNeverLeaks
<1>3. ASSUME NEW o \in Orders, ost'[o] = "NONE" PROVE ost[o] = "NONE"
  BY <1>3 DEF Created
<1> QED
  BY <1>2, <1>3 DEF SlotInv, OnlyCreated

LEMMA SlotStep ==
    ASSUME IInv, SlotInv, [Next]_vars
    PROVE  SlotInv'
<1>1. ASSUME NEW o \in Orders, CancelUnpaid(o) PROVE SlotInv'
  BY <1>1, SlotGiveBack DEF CancelUnpaid, GiveBack, OrderStates
<1>2. ASSUME NEW o \in Orders, MarkRefunded(o) PROVE SlotInv'
  BY <1>2, SlotGiveBack DEF MarkRefunded, GiveBack, OrderStates
<1>3. \A w \in Workers : scan[w] \subseteq Created
  BY DEF SlotInv, OnlyCreated
<1>4. ASSUME NEW o \in Orders, PaymentSuccess(o) PROVE SlotInv'
  <2>1. Created' = Created
    BY <1>4 DEF PaymentSuccess, Created, Advance, IInv, TypeOK
  <2> QED
    BY <1>3, <1>4, <2>1, SlotAside DEF PaymentSuccess
<1>5. ASSUME NEW o \in Orders, NEW to \in OrderStates, StateMove(o, to) PROVE SlotInv'
  <2>1. Created' = Created
    BY <1>5 DEF StateMove, Holding, Created, Advance, IInv, TypeOK
  <2> QED
    BY <1>3, <1>5, <2>1, SlotAside DEF StateMove
<1>6. ASSUME UNCHANGED <<ost, released, slotReserved, scan>> PROVE SlotInv'
  BY <1>3, <1>6, SlotAside DEF Created
<1>7. ASSUME NEW w \in Workers, ReleaseScan(w) \/ ReleaseAbort(w) PROVE SlotInv'
  <2>1. \A v \in Workers : scan'[v] \subseteq Created
    BY <1>3, <1>7 DEF ReleaseScan, ReleaseAbort, Created, IInv, TypeOK
  <2> QED
    BY <1>7, <2>1, SlotAside DEF ReleaseScan, ReleaseAbort, orderVars, Created
<1>8. CASE UNCHANGED vars
  BY <1>6, <1>8 DEF vars
<1>9. CASE Next
  BY <1>1, <1>2, <1>4, <1>5, <1>6, <1>7, <1>9, SlotCreate, SlotBatch, NextCases
  DEF IInv, Expire, Load, Adjust, orderVars
<1> QED
  BY <1>8, <1>9

\* No pickup capacity is lost: two workers that release the same order take
\* its place twice from the counter, never once too few.
THEOREM CapacityKept == Spec => []SlotNeverLeaks
<1>1. Init => SlotInv
  <2> SUFFICES ASSUME Init PROVE SlotInv
    OBVIOUS
  <2>1. OnlyCreated
    BY DEF Init, OnlyCreated
  <2>2. SlotNeverLeaks
    BY HoldersFinite DEF Init, SlotNeverLeaks, CapacitySnapshot
  <2> QED
    BY <2>1, <2>2 DEF SlotInv
<1>2. IInv /\ SlotInv /\ [Next]_vars => SlotInv'
  BY SlotStep
<1>3. SlotInv => SlotNeverLeaks
  BY DEF SlotInv
<1> QED
  BY <1>1, <1>2, <1>3, Invariance, PTL DEF Spec

-----------------------------------------------------------------------------
(***************************************************************************)
(* The counters implement the promise.                                     *)
(***************************************************************************)

\* The promise counts portions as the ledger does.
LEMMA DemandIsTotal ==
    ASSUME NEW O \in SUBSET Orders, NEW s \in Skus
    PROVE  Promise!Demand(O, s) = Total(O, s)
BY DEF Promise!Demand, Total, Portions, Cardinality, Promise!Cardinality, IsFiniteSet, Promise!IsFiniteSet

\* What is taken of a SKU is what its two counters say.
LEMMA TakenIsCounted ==
    ASSUME IInv, NEW s \in Skus
    PROVE  Total(Promise!Taken, s) = reserved[s] + sold[s]
<1> DEFINE R == WithResv("RESERVED")
           F == WithResv("FULFILLED")
           T == Promise!Taken
<1>1. /\ T \in SUBSET Orders /\ F \in SUBSET T /\ F \in SUBSET Orders
      /\ R \in SUBSET Orders /\ T \ F = R
  BY DEF Promise!Taken, WithResv
<1>2. Total(T \ F, s) = Total(T, s) - Total(F, s)
  BY <1>1, TotalDiff
<1>3. Total(T, s) \in Nat /\ Total(F, s) \in Nat /\ Total(R, s) \in Nat
  BY <1>1, TotalNat
<1>4. reserved[s] = Total(R, s) /\ sold[s] = Total(F, s)
  BY DEF IInv, StockLedger
<1>5. Total(R, s) = Total(T, s) - Total(F, s)
  BY <1>1, <1>2, Zenon
<1> HIDE DEF R, F, T
<1>6. Total(T, s) = Total(R, s) + Total(F, s)
  BY <1>3, <1>5
<1> QED
  BY <1>4, <1>6 DEF T

LEMMA PromiseStep == IInv /\ [Next]_vars => [Promise!Next]_(Promise!vars)
<1> SUFFICES ASSUME IInv, [Next]_vars PROVE [Promise!Next]_(Promise!vars)
  OBVIOUS
<1> USE DEF Promise!vars
<1>1. ASSUME NEW o \in Orders, Create(o) PROVE Promise!Next
  <2>1. resv[o] = "NONE" /\ resv' = [resv EXCEPT ![o] = "RESERVED"] /\ target' = target
    BY <1>1 DEF Create, ReserveInventory, IInv, StockFollowsOrder
  <2>2. ASSUME NEW s \in Skus, Qty[o][s] > 0
        PROVE  Promise!Demand(Promise!Taken \cup {o}, s) <= target[s]
    <3>1. Promise!Taken \in SUBSET Orders /\ o \notin Promise!Taken
      BY <2>1 DEF Promise!Taken
    <3>2. Total(Promise!Taken \cup {o}, s) = reserved[s] + sold[s] + Qty[o][s]
      <4>1. Total(Promise!Taken \cup {o}, s) = Total(Promise!Taken, s) + Qty[o][s]
        BY <3>1, TotalAdd
      <4> QED
        BY <4>1, TakenIsCounted
    <3>3. Promise!Demand(Promise!Taken \cup {o}, s) = Total(Promise!Taken \cup {o}, s)
      BY <3>1, DemandIsTotal
    <3>4. reserved[s] + sold[s] + Qty[o][s] <= target[s]
      BY <1>1, <2>2 DEF Create, ReserveInventory, HasStock
    <3> QED
      BY <3>2, <3>3, <3>4, Zenon
  <2>3. Promise!Take(o)
    BY <2>1, <2>2 DEF Promise!Take
  <2> QED
    BY <2>3 DEF Promise!Next
<1>2. ASSUME NEW o \in Orders, PaymentSuccess(o) PROVE [Promise!Next]_(Promise!vars)
  <2>1. CASE resv[o] = "RESERVED"
    <3>1. Promise!Sell(o)
      BY <1>2, <2>1 DEF PaymentSuccess, Promise!Sell
    <3> QED
      BY <3>1 DEF Promise!Next
  <2>2. CASE resv[o] # "RESERVED"
    BY <1>2, <2>2 DEF PaymentSuccess
  <2> QED
    BY <2>1, <2>2
<1>3. ASSUME NEW o \in Orders, CancelUnpaid(o) \/ MarkRefunded(o) PROVE Promise!Next
  <2>1. resv[o] \in {"RESERVED", "FULFILLED"}
    BY <1>3 DEF CancelUnpaid, MarkRefunded, IInv, StockFollowsOrder, OrderStates
  <2>2. /\ resv' = [i \in Orders |-> IF i \in {o} THEN "RELEASED" ELSE resv[i]]
        /\ target' = target
    BY <1>3, <2>1 DEF CancelUnpaid, MarkRefunded, ReleaseInventory, IInv, TypeOK
  <2>3. Promise!Return({o})
    BY <2>1, <2>2 DEF Promise!Return
  <2>4. {o} \in SUBSET Orders
    OBVIOUS
  <2> QED
    BY <2>3, <2>4 DEF Promise!Next
<1>4. ASSUME NEW w \in Workers, ReleaseCommit(w) PROVE Promise!Next
  <2> DEFINE H == StillReserved(scan[w])
  <2>1. H \in SUBSET Orders /\ \A o \in H : resv[o] = "RESERVED"
    BY DEF StillReserved, IInv, TypeOK
  <2>2. /\ resv' = [o \in Orders |-> IF o \in H THEN "RELEASED" ELSE resv[o]]
        /\ target' = target
    BY <1>4 DEF ReleaseCommit
  <2> HIDE DEF H
  <2>3. Promise!Return(H)
    BY <2>1, <2>2 DEF Promise!Return
  <2> QED
    BY <2>1, <2>3 DEF Promise!Next
<1>5. ASSUME NEW s \in Skus, NEW delta \in {-1, 1}, Adjust(s, delta) PROVE Promise!Next
  <2>1. /\ target' = [target EXCEPT ![s] = target[s] + delta] /\ target \in [Skus -> Nat]
        /\ reserved[s] + sold[s] <= target[s] + delta /\ resv' = resv
    BY <1>5 DEF Adjust, IInv, TypeOK
  <2>2. target' = [target EXCEPT ![s] = target'[s]] /\ target'[s] = target[s] + delta
    BY <2>1
  <2>3. Promise!Demand(Promise!Taken, s) = reserved[s] + sold[s]
    <3>1. Promise!Taken \in SUBSET Orders
      BY DEF Promise!Taken
    <3> QED
      BY <3>1, DemandIsTotal, TakenIsCounted
  <2>4. Promise!Demand(Promise!Taken, s) <= target'[s]
    BY <2>1, <2>2, <2>3
  <2>5. Promise!Retarget(s)
    BY <2>1, <2>2, <2>4 DEF Promise!Retarget
  <2> QED
    BY <2>5 DEF Promise!Next
<1>6. ASSUME UNCHANGED <<resv, target>> PROVE [Promise!Next]_(Promise!vars)
  BY <1>6
<1>7. CASE UNCHANGED vars
  BY <1>6, <1>7 DEF vars
<1>8. CASE Next
  BY <1>1, <1>2, <1>3, <1>4, <1>5, <1>6, <1>8, NextCases
  DEF IInv, Expire, StateMove, Load, ReleaseScan, ReleaseAbort, stockVars
<1> QED
  BY <1>7, <1>8

\* Every transaction of the code is a step of the promise about stock, or
\* leaves the stock alone.
THEOREM Implements == Spec => ImplementsPromise
<1>1. Init => Promise!Init
  BY OrderStoreAssumption DEF OrderStoreAssumption, Init, Promise!Init
<1> QED
  BY <1>1, PromiseStep, Invariance, PTL DEF Spec, ImplementsPromise, Promise!Spec
=============================================================================
