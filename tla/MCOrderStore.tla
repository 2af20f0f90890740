----------------------------- MODULE MCOrderStore -----------------------------
(***************************************************************************)
(* Small instances of OrderStore: a target of two portions of each dish,   *)
(* so that o2 fills the day's rice alone and an adjustment refuses or      *)
(* admits another order.                                                   *)
(***************************************************************************)
EXTENDS OrderStore

CONSTANTS o1, o2, o3, rice, noodle, noon

\* Carts: o1 orders one rice, o2 two rice, o3 one of each.
CartQty ==
    [o \in Orders |-> [s \in Skus |->
        CASE s = rice /\ o = o2 -> 2
          [] s = rice -> 1
          [] s = noodle /\ o = o3 -> 1
          [] OTHER -> 0]]

AtNoon == [o \in Orders |-> noon]
Immediate == [o \in Orders |-> NoSlot]

TargetTwo == [s \in Skus |-> 2]
=============================================================================
