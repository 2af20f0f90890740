----------------------------- MODULE StockPromise -----------------------------
(***************************************************************************)
(* What the order tables promise about stock, with no counter in sight:    *)
(* each order's cart is either not taken, reserved, sold or given back,    *)
(* and what is taken of a SKU fits the day's target.  OrderStore           *)
(* implements this with two counters per SKU.                              *)
(***************************************************************************)
EXTENDS Integers, FiniteSets

CONSTANTS Orders, Skus, Qty, MaxQty

VARIABLES stake, target

vars == <<stake, target>>

Taken == {o \in Orders : stake[o] \in {"RESERVED", "FULFILLED"}}

\* portions of s in the carts of the orders in O
Demand(O, s) == Cardinality({u \in O \X (1..MaxQty) : u[2] <= Qty[u[1]][s]})

Init ==
    /\ stake = [o \in Orders |-> "NONE"]
    /\ target \in [Skus -> Nat]

Take(o) ==
    /\ stake[o] = "NONE"
    /\ \A s \in Skus : Qty[o][s] > 0 => Demand(Taken \cup {o}, s) <= target[s]
    /\ stake' = [stake EXCEPT ![o] = "RESERVED"]
    /\ UNCHANGED target

Sell(o) ==
    /\ stake[o] = "RESERVED"
    /\ stake' = [stake EXCEPT ![o] = "FULFILLED"]
    /\ UNCHANGED target

\* A batch of reserved carts, or the cart of one refunded order, goes back.
Return(O) ==
    /\ \/ \A o \in O : stake[o] = "RESERVED"
       \/ \E o \in Orders : O = {o} /\ stake[o] = "FULFILLED"
    /\ stake' = [o \in Orders |-> IF o \in O THEN "RELEASED" ELSE stake[o]]
    /\ UNCHANGED target

\* The day's target of one SKU moves, but not below what is taken of it.
Retarget(s) ==
    /\ target' = [target EXCEPT ![s] = target'[s]]
    /\ Demand(Taken, s) <= target'[s]
    /\ UNCHANGED stake

Next ==
    \/ \E o \in Orders : Take(o) \/ Sell(o)
    \/ \E O \in SUBSET Orders : Return(O)
    \/ \E s \in Skus : Retarget(s)

Spec == Init /\ [][Next]_vars
=============================================================================
