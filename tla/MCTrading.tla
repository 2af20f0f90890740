------------------------------ MODULE MCTrading ------------------------------
(***************************************************************************)
(* Small instances of Trading: one dish, of which every order takes one    *)
(* portion and which has one portion for each order.                       *)
(***************************************************************************)
EXTENDS Trading

CONSTANTS noon

OneEach == [o \in Orders |-> [s \in Skus |-> 1]]
AtNoon == [o \in Orders |-> noon]
Immediate == [o \in Orders |-> NoSlot]
Target == [s \in Skus |-> Cardinality(Orders)]
=============================================================================
