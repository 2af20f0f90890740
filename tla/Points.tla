-------------------------------- MODULE Points --------------------------------
(***************************************************************************)
(* Membership and points.  Joining is five statements with nothing locked; *)
(* the unique keys of customer_memberships decide.  A worker awards the    *)
(* points of a paid order, and takes back those of a refunded one, after   *)
(* the transaction of the event: it reads the balance without a lock and   *)
(* writes it back with a ledger entry in one transaction.  Staff adjust it *)
(* under the lock of the row.  Events are delivered any number of times.   *)
(***************************************************************************)
EXTENDS Integers, Sequences, FiniteSets

CONSTANTS
    Customers,      \* customers of the store
    Phones,         \* phone numbers (hash of country code and number)
    NoPhone,        \* of a customer who has given none
    Earners,        \* orders, all of them of customer Buyer
    Buyer,
    PaidCents,      \* paid_cents of such an order
    PointsPerYuan,  \* stores.points_per_yuan
    AdjustKeys,     \* Idempotency-Keys of adjustments
    Deltas,         \* amounts of adjustments
    Handlers        \* workers

ASSUME PointsAssumption ==
    /\ Buyer \in Customers
    /\ NoPhone \notin Phones
    /\ PaidCents \in Nat /\ PointsPerYuan \in Nat
    /\ Deltas \subseteq Int \ {0}

VARIABLES
    phone,          \* customers.phone_hash
    memberNo,       \* customer_memberships.member_no, 0 without a row
    joining,        \* joining[c]: [at, phone, no], c's Join under way
    balance,        \* points_balance of the buyer
    ledger,         \* member_points_ledger of the buyer
    paidOrders, refundedOrders,     \* orders whose event has been committed
    job             \* job[w]: [at, order, base, pts], the points w is about to write

joinVars == <<phone, memberNo, joining>>
accountVars == <<balance, ledger>>
pointsVars == <<joinVars, accountVars, paidOrders, refundedOrders, job>>

NotJoining == [at |-> "idle", phone |-> NoPhone, no |-> 0]
NoJob == [at |-> "idle", order |-> 0, base |-> 0, pts |-> 0]

PointsInit ==
    /\ phone = [c \in Customers |-> NoPhone]
    /\ memberNo = [c \in Customers |-> 0]
    /\ joining = [c \in Customers |-> NotJoining]
    /\ balance = 0
    /\ ledger = <<>>
    /\ paidOrders = {}
    /\ refundedOrders = {}
    /\ job = [w \in Handlers |-> NoJob]

Members == {c \in Customers : memberNo[c] # 0}

(***************************************************************************)
(* Joining.                                                                *)
(***************************************************************************)
JoinStep(c, r) ==
    /\ joining' = [joining EXCEPT ![c] = r]
    /\ UNCHANGED <<accountVars, paidOrders, refundedOrders, job>>

\* The SELECT for another customer with the number; a hit is ErrPhoneBound.
JoinMembership(c, p) ==
    /\ joining[c] = NotJoining
    /\ \A d \in Customers \ {c} : phone[d] # p
    /\ JoinStep(c, [NotJoining EXCEPT !.at = "bind", !.phone = p])
    /\ UNCHANGED <<phone, memberNo>>

\* The UPDATE of the customer.  A member already is answered as it is.
Join(c) ==
    /\ joining[c].at = "bind"
    /\ phone' = [phone EXCEPT ![c] = joining[c].phone]
    /\ JoinStep(c, IF c \in Members THEN NotJoining ELSE [joining[c] EXCEPT !.at = "count"])
    /\ UNCHANGED memberNo

allocateMemberNo(c) ==
    /\ joining[c].at = "count"
    /\ JoinStep(c, [joining[c] EXCEPT !.at = "insert", !.no = Cardinality(Members) + 1])
    /\ UNCHANGED <<phone, memberNo>>

\* uq_cm_store_member_no: a number taken meanwhile fails the request.
InsertAnyNumber(c) ==
    /\ joining[c].at = "insert"
    /\ memberNo' = [memberNo EXCEPT ![c] = joining[c].no]
    /\ JoinStep(c, NotJoining)
    /\ UNCHANGED phone
InsertMembership(c) ==
    /\ joining[c].at = "insert"
    /\ memberNo' = IF \E d \in Members : memberNo[d] = joining[c].no THEN memberNo
                   ELSE [memberNo EXCEPT ![c] = joining[c].no]
    /\ JoinStep(c, NotJoining)
    /\ UNCHANGED phone

(***************************************************************************)
(* The ledger.  uq_mpl_idem takes a type and key once (the keys of awards  *)
(* and reversals are made of order and refund); chk_mpl_delta_nonzero and  *)
(* chk_cm_points refuse an empty entry and a negative balance.  A refused  *)
(* entry takes its transaction back.                                       *)
(***************************************************************************)
Entry(type, key, delta, after) == [type |-> type, key |-> key, delta |-> delta, after |-> after]
Recorded(type, key) == \E i \in 1..Len(ledger) : ledger[i].type = type /\ ledger[i].key = key
Earned(o) == IF Recorded("EARN", o)
             THEN (CHOOSE e \in {ledger[i] : i \in 1..Len(ledger)} : e.type = "EARN" /\ e.key = o).delta
             ELSE 0

RecordAnyway(e) ==
    /\ balance' = e.after
    /\ ledger' = Append(ledger, e)
RecordInTwoStatements(e) ==
    /\ balance' = e.after
    /\ ledger' = IF Recorded(e.type, e.key) \/ e.delta = 0 THEN ledger ELSE Append(ledger, e)
Record(e) ==
    IF Recorded(e.type, e.key) \/ e.delta = 0 THEN UNCHANGED accountVars
    ELSE RecordAnyway(e)

AdjustPoints(key, delta) ==
    /\ balance + delta >= 0
    /\ Record(Entry("ADJUST", key, delta, balance + delta))
    /\ UNCHANGED <<joinVars, paidOrders, refundedOrders, job>>

\* The membership is looked up before; it never goes away.
PointsAdjustment ==
    /\ Buyer \in Members
    /\ \E key \in AdjustKeys, delta \in Deltas : AdjustPoints(key, delta)

(***************************************************************************)
(* The worker.                                                             *)
(***************************************************************************)
OrderPaid(o) ==
    /\ paidOrders' = paidOrders \cup {o}
    /\ UNCHANGED <<joinVars, accountVars, refundedOrders, job>>
OrderRefunded(o) ==
    /\ o \in paidOrders
    /\ refundedOrders' = refundedOrders \cup {o}
    /\ UNCHANGED <<joinVars, accountVars, paidOrders, job>>

Work(w, j) ==
    /\ job' = [job EXCEPT ![w] = j]
    /\ UNCHANGED <<joinVars, paidOrders, refundedOrders>>

\* Paid cents are cut to whole yuan first.
Points == (PaidCents \div 100) * PointsPerYuan

\* Reads the membership; who is not a member gets nothing, now or later.
BeginAward(w, o) ==
    /\ job[w] = NoJob
    /\ o \in paidOrders
    /\ Points > 0
    /\ Buyer \in Members
    /\ Work(w, [at |-> "award", order |-> o, base |-> balance, pts |-> Points])
    /\ UNCHANGED accountVars
AwardPoints(w) ==
    /\ job[w].at = "award"
    /\ Record(Entry("EARN", job[w].order, job[w].pts, job[w].base + job[w].pts))
    /\ Work(w, NoJob)

BeginReverse(w, o) ==
    /\ job[w] = NoJob
    /\ o \in refundedOrders
    /\ Buyer \in Members
    /\ Work(w, [at |-> "lookup", order |-> o, base |-> balance, pts |-> 0])
    /\ UNCHANGED accountVars

\* What the order earned, cut to the balance read before it.
TakeAllEarned(w) ==
    /\ job[w].at = "lookup"
    /\ Work(w, IF Earned(job[w].order) = 0 THEN NoJob
               ELSE [job[w] EXCEPT !.at = "reverse", !.pts = Earned(job[w].order)])
    /\ UNCHANGED accountVars
LookupEarned(w) ==
    LET pts == Earned(job[w].order) IN
    /\ job[w].at = "lookup"
    /\ Work(w, IF pts = 0 THEN NoJob
               ELSE [job[w] EXCEPT !.at = "reverse", !.pts = IF pts > job[w].base THEN job[w].base ELSE pts])
    /\ UNCHANGED accountVars
ReversePoints(w) ==
    /\ job[w].at = "reverse"
    /\ Record(Entry("REVERSE", job[w].order, -job[w].pts, job[w].base - job[w].pts))
    /\ Work(w, NoJob)

\* The worker stops; the event is delivered again.
AbandonJob(w) ==
    /\ job[w] # NoJob
    /\ Work(w, NoJob)
    /\ UNCHANGED accountVars

PointsNext ==
    \/ \E c \in Customers : \/ \E p \in Phones : JoinMembership(c, p)
                            \/ Join(c) \/ allocateMemberNo(c) \/ InsertMembership(c)
    \/ PointsAdjustment
    \/ \E o \in Earners : OrderPaid(o) \/ OrderRefunded(o)
    \/ \E w \in Handlers : \/ \E o \in Earners : BeginAward(w, o) \/ BeginReverse(w, o)
                           \/ AwardPoints(w) \/ LookupEarned(w) \/ ReversePoints(w)
                           \/ AbandonJob(w)

PointsSpec == PointsInit /\ [][PointsNext]_pointsVars

(***************************************************************************)
(* Properties.                                                             *)
(***************************************************************************)
\* The member numbers of the store are 1, 2, 3, ... without gap or
\* repetition, although they are counted without a lock (members/store.go:113).
MemberNumbersGapless ==
    /\ \A c, d \in Members : memberNo[c] = memberNo[d] => c = d
    /\ \A c \in Members : memberNo[c] \in 1..Cardinality(Members)

\* However often and in whatever order events are delivered: an order earns
\* once, a refund takes back once, only what was earned before it, and never
\* more than that (members/store.go:219-230).
PointsOncePerOrder ==
    /\ \A i, j \in 1..Len(ledger) :
         ledger[i].type = ledger[j].type /\ ledger[i].key = ledger[j].key => i = j
    /\ \A j \in 1..Len(ledger) : ledger[j].type = "REVERSE" =>
         \E i \in 1..(j - 1) : /\ ledger[i].type = "EARN" /\ ledger[i].key = ledger[j].key
                               /\ ledger[j].delta + ledger[i].delta >= 0

\* The balance is the one of the last entry and never negative.  An
\* adjustment, made under the lock, starts from the balance the entry before
\* it left; an award or a take-back starts from some balance the account has
\* had, not always the latest (members/store.go:193, 226): what was recorded
\* in between is then undone in the balance, whether it gave points or took
\* them (BalanceIsLedgerSum).
BalanceComesFromLedger ==
    LET before(i) == IF i = 1 THEN 0 ELSE ledger[i - 1].after IN
    /\ balance = IF ledger = <<>> THEN 0 ELSE ledger[Len(ledger)].after
    /\ \A i \in 1..Len(ledger) :
         /\ ledger[i].after >= 0
         /\ ledger[i].type = "ADJUST" => ledger[i].after - ledger[i].delta = before(i)
         /\ ledger[i].after - ledger[i].delta \in {0} \cup {ledger[j].after : j \in 1..(i - 1)}

(***************************************************************************)
(* What the requirements say of the ledger: every change of the balance is *)
(* in it, so that the balance is the sum of its entries.                   *)
(***************************************************************************)
LedgerSum ==
    LET sum[n \in 0..Len(ledger)] == IF n = 0 THEN 0 ELSE sum[n - 1] + ledger[n].delta
    IN sum[Len(ledger)]

\* The points of a member are what the ledger adds up to
\* (complete-requirements-no-ios.md:221).  Not so in the code: two writes
\* that read the same balance keep both entries and one of the changes.
BalanceIsLedgerSum == balance = LedgerSum
=============================================================================
