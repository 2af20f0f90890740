-------------------------------- MODULE MCShop --------------------------------
(***************************************************************************)
(* Small instances of what the customers of a shop work with.  The         *)
(* components share no state here: a behaviour picks one of them and the   *)
(* others stay as they began.                                              *)
(***************************************************************************)
EXTENDS Points, Checkout, Pricing, PickupSlots, ConnPool, Bearer, TLC

CONSTANTS Parts, rice, tea, big, hot, size, extra

VARIABLES part

shopVars == <<pointsVars, checkoutVars, priced, offer, at, bearerVars, part>>

Init ==
    /\ part \in Parts
    /\ PointsInit /\ CheckoutInit /\ PricingInit /\ SlotsInit /\ PoolInit /\ BearerInit

Next ==
    \/ /\ part = "points" /\ PointsNext
       /\ UNCHANGED <<checkoutVars, priced, offer, at, bearerVars, part>>
    \/ /\ part = "checkout" /\ CheckoutNext
       /\ UNCHANGED <<pointsVars, priced, offer, at, bearerVars, part>>
    \/ /\ part = "pricing" /\ PricingNext
       /\ UNCHANGED <<pointsVars, checkoutVars, offer, at, bearerVars, part>>
    \/ /\ part = "slots" /\ SlotsNext
       /\ UNCHANGED <<pointsVars, checkoutVars, priced, at, bearerVars, part>>
    \/ /\ part = "pool" /\ PoolNext
       /\ UNCHANGED <<pointsVars, checkoutVars, priced, offer, bearerVars, part>>
    \/ /\ part = "bearer" /\ BearerNext
       /\ UNCHANGED <<pointsVars, checkoutVars, priced, offer, at, part>>

Spec == Init /\ [][Next]_shopVars

\* The components take their requests from one set.
Symmetry == Permutations(Calls)

\* Staff take a point away.
MCDeltas == {-1}

(***************************************************************************)
(* A menu of rice, of which two portions are left, and tea without limit;  *)
(* a choice of size and an extra.                                          *)
(***************************************************************************)
MCPrice == [i \in Items |-> IF i = rice THEN 10 ELSE 4]
MCPack == [i \in Items |-> IF i = rice THEN 1 ELSE 0]
MCMode == [i \in Items |-> IF i = rice THEN "DAILY" ELSE "UNLIMITED"]
MCLeft == [i \in Items |-> IF i = rice THEN 2 ELSE -1]
MCOptionPrice == [o \in Options |-> IF o = big THEN 3 ELSE 1]
MCOptionGroup == [o \in Options |-> IF o = big THEN size ELSE extra]
MCRule == [g \in Groups |-> [single |-> g = size, required |-> FALSE, min |-> 0, max |-> 1]]

Lines(qtys) == [item : Items, qty : qtys, opts : {<<>>, <<big>>, <<big, hot>>, <<hot, big>>}]
MCCarts == {<<>>} \cup {<<l>> : l \in Lines({0, 1, 3, 100})} \cup {<<l, m>> : l, m \in Lines({1, 3})}

Promotion(threshold, discount) == [threshold |-> threshold, discount |-> discount]
MCPromotions ==
    {<<>>, <<Promotion(10, 3)>>, <<Promotion(10, 3), Promotion(20, 5)>>, <<Promotion(4, 30)>>}
MCVouchers == {[min |-> 14, discount |-> 4], [min |-> 0, discount |-> 50]}

\* Hours that start at midnight, end before it, pass it, and are no hours.
Clock(h, m) == [hh |-> h, mm |-> m]
MCHours ==
    {[from |-> Clock(0, 0), to |-> Clock(2, 0)], [from |-> Clock(22, 30), to |-> Clock(23, 59)],
     [from |-> Clock(22, 0), to |-> Clock(1, 0)], [from |-> Clock(9, 0), to |-> Clock(24, 0)]}
=============================================================================
