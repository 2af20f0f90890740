----------------------------- MODULE MoneyPromise -----------------------------
(***************************************************************************)
(* What payments and refunds promise about the money of an order, with no  *)
(* callback, event, retry or crash in sight: it is announced and comes in, *)
(* is booked to the order, falls due to the customer, is on its way back,  *)
(* is back, and the order is closed, each at most once and none before     *)
(* what it needs.  An announcement is enough for the booking, also when no *)
(* money came; what goes back has come in.  Trading implements this with   *)
(* four tables and three kinds of processes.                               *)
(***************************************************************************)
CONSTANT Orders

VARIABLES
    announced,  \* the orders whose money was said to have come in,
    taken,      \* those whose money came in,
    booked,     \* those it was booked to,
    owed,       \* those it is to go back to,
    begun,      \* those whose refund was begun,
    returned,   \* those whose money went back,
    settled     \* those that are closed as refunded

vars == <<announced, taken, booked, owed, begun, returned, settled>>

Init ==
    /\ announced = {} /\ taken = {} /\ booked = {}
    /\ owed = {} /\ begun = {} /\ returned = {} /\ settled = {}

AnnounceOnly(o) ==
    /\ o \notin announced
    /\ announced' = announced \cup {o}
    /\ UNCHANGED <<taken, booked, owed, begun, returned, settled>>

TakeMoney(o) ==
    /\ o \notin taken
    /\ taken' = taken \cup {o}
    /\ announced' = announced \cup {o}
    /\ UNCHANGED <<booked, owed, begun, returned, settled>>

Book(o) ==
    /\ o \in announced \ booked
    /\ booked' = booked \cup {o}
    /\ UNCHANGED <<announced, taken, owed, begun, returned, settled>>

Owe(o) ==
    /\ o \in booked \ owed
    /\ owed' = owed \cup {o}
    /\ UNCHANGED <<announced, taken, booked, begun, returned, settled>>

BeginReturn(o) ==
    /\ o \in (owed \cap taken) \ begun
    /\ begun' = begun \cup {o}
    /\ UNCHANGED <<announced, taken, booked, owed, returned, settled>>

GiveBack(o) ==
    /\ o \in begun \ returned
    /\ returned' = returned \cup {o}
    /\ UNCHANGED <<announced, taken, booked, owed, begun, settled>>

Settle(o) ==
    /\ o \in returned \ settled
    /\ settled' = settled \cup {o}
    /\ UNCHANGED <<announced, taken, booked, owed, begun, returned>>

Next == \E o \in Orders :
    AnnounceOnly(o) \/ TakeMoney(o) \/ Book(o) \/ Owe(o) \/ BeginReturn(o) \/ GiveBack(o) \/ Settle(o)

Spec == Init /\ [][Next]_vars
=============================================================================
