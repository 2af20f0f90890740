---------------------------- MODULE Trading_proofs ----------------------------
(***************************************************************************)
(* Seen from the order tables, Trading does nothing OrderStore does not    *)
(* allow; what is proved of OrderStore therefore holds of Trading.         *)
(***************************************************************************)
EXTENDS Trading, OrderStore_proofs, WellFoundedInduction

-----------------------------------------------------------------------------
(***************************************************************************)
(* What the steps are built from.                                          *)
(***************************************************************************)

\* A nonempty set of claims has a first one.
LEMMA FirstIsClaimed ==
    ASSUME TradingTypeOK, NEW w \in Workers, batch[w] # {}
    PROVE  /\ First(w) \in batch[w]
           /\ First(w).id \in DOMAIN outbox
           /\ First(w).attempts \in Nat
           /\ outbox[First(w).id] \in Rows
<1> DEFINE ids == {b.id : b \in batch[w]}
<1>1. batch[w] \subseteq Claims /\ \A b \in batch[w] : b.id <= Len(outbox)
  BY DEF TradingTypeOK
<1>2. ids \subseteq Nat /\ ids # {}
  BY <1>1 DEF Claims
<1>3. \E n \in ids : \A m \in ids : ~(<<m, n>> \in OpToRel(<, Nat))
  <2> DEFINE R == OpToRel(<, Nat)
  <2>1. IsWellFoundedOn(R, Nat)
    BY NatLessThanWellFounded
  <2> HIDE DEF R, ids
  <2>2. \E n \in ids : \A m \in ids : ~(<<m, n>> \in R)
    BY <1>2, <2>1, WFMin
  <2> QED
    BY <2>2 DEF R
<1>4. \E n \in ids : \A m \in ids : n <= m
  <2>1. ASSUME NEW m \in Nat, NEW n \in Nat, ~(<<m, n>> \in OpToRel(<, Nat))
        PROVE  n <= m
    <3>1. <<m, n>> \in Nat \X Nat /\ <<m, n>>[1] = m /\ <<m, n>>[2] = n
      OBVIOUS
    <3>2. ~(m < n)
      BY <2>1, <3>1 DEF OpToRel
    <3> QED
      BY <3>2
  <2> HIDE DEF ids
  <2> QED
    BY <1>2, <1>3, <2>1
<1>6. \E b \in batch[w] : \A d \in batch[w] : b.id <= d.id
  BY <1>4
<1>7. First(w) \in batch[w]
  BY <1>6 DEF First
<1>8. First(w).id \in DOMAIN outbox /\ First(w).attempts \in Nat
  BY <1>1, <1>7 DEF Claims, TradingTypeOK
<1>9. outbox[First(w).id] \in Rows
  BY <1>8 DEF TradingTypeOK
<1> QED
  BY <1>7, <1>8, <1>9

\* A transaction of OrderStore that goes on beside the money.
LEMMA StoreStepIsNext == StoreStep => Next
<1> SUFFICES ASSUME StoreStep PROVE Next
  OBVIOUS
<1>1. CASE \E o \in Orders : Create(o) \/ Expire(o) \/ StaffRefund(o)
  BY <1>1 DEF Next
<1>2. CASE \E m \in Staff : \/ \E o \in Orders : Load(m, o)
                            \/ \E to \in OrderStates : Transition(m, to)
  BY <1>2 DEF Next
<1>3. CASE \E s \in Skus : \E delta \in {-1, 1} : Adjust(s, delta)
  BY <1>3 DEF Next
<1>4. CASE \E w \in Workers : \/ batch[w] = {} /\ ReleaseScan(w)
                              \/ ReleaseCommit(w) \/ ReleaseAbort(w)
  BY <1>4 DEF Next
<1> QED
  BY <1>1, <1>2, <1>3, <1>4 DEF StoreStep

\* Every step of Trading is a step of OrderStore, or leaves its tables alone.
LEMMA TradingStepIsNext ==
    ASSUME TradingTypeOK, [TradingNext]_allVars
    PROVE  [Next]_vars
<1>1. ASSUME NEW c \in Calls, CallStep(c) PROVE [Next]_vars
  <2>1. ASSUME NEW o \in Orders, CancelOrder(c, o) PROVE Next
    BY <2>1 DEF CancelOrder, Next, Cancel
  <2> QED
    BY <1>1, <2>1 DEF CallStep, PrepayRead, ConfirmRead, PrepayInsert, ConfirmCommit,
                      RefundCreate, RefundSettle, CallDies
<1>2. ASSUME NEW w \in Workers, WorkerStep(w) PROVE [Next]_vars
  <2>1. CASE HandlePayment(w)
    <3>1. outbox[First(w).id] \in Rows
      BY <2>1, FirstIsClaimed DEF HandlePayment, Handling
    <3> QED
      BY <2>1, <3>1 DEF HandlePayment, Next, Rows
  <2>2. CASE HandleRefund(w)
    <3>1. outbox[First(w).id] \in Rows
      BY <2>2, FirstIsClaimed DEF HandleRefund, Handling
    <3> QED
      BY <2>2, <3>1 DEF HandleRefund, Next, Rows
  <2> QED
    BY <1>2, <2>1, <2>2 DEF WorkerStep, Claim, HandleFails, MarkEvent, MarkLost, WorkerDies
<1>3. ASSUME NEW o \in Orders, NEW id, WechatPayTransaction(o, id) PROVE [Next]_vars
  BY <1>3 DEF WechatPayTransaction
<1>4. ASSUME NEW i, BecomeDue(i) PROVE [Next]_vars
  BY <1>4 DEF BecomeDue
<1>5. CASE UNCHANGED allVars
  BY <1>5 DEF allVars
<1> QED
  BY <1>1, <1>2, <1>3, <1>4, <1>5, StoreStepIsNext DEF TradingNext

-----------------------------------------------------------------------------
(***************************************************************************)
(* Types.                                                                  *)
(***************************************************************************)
Money == /\ pay \in [Orders -> {"NONE", "PREPAY_CREATED", "SUCCESS"}]
         /\ seen \subseteq ReportIds
         /\ refund \in [Orders -> {"NONE", "CREATED", "SUCCESS"}]
Requests == call \in [Calls -> [op : Ops, order : Orders]]
Events == /\ outbox \in Seq(Rows)
          /\ batch \in [Workers -> SUBSET Claims]
          /\ \A w \in Workers : \A b \in batch[w] : b.id <= Len(outbox)
          /\ outcome \in [Workers -> {"none", "ok", "error"}]
          /\ \A w \in Workers : outcome[w] # "none" => batch[w] # {}

LEMMA TypesInParts == /\ TradingTypeOK <=> Money /\ Requests /\ Events
                      /\ TradingTypeOK' <=> Money' /\ Requests' /\ Events'
BY DEF TradingTypeOK, Money, Requests, Events

\* An event is written after those that are there.
LEMMA AppendEvent ==
    ASSUME outbox \in Seq(Rows),
           NEW type \in {"payment.success", "refund.success"}, NEW o \in Orders,
           outbox' = Append(outbox, Event(type, o))
    PROVE  /\ outbox' \in Seq(Rows)
           /\ Len(outbox') = Len(outbox) + 1
           /\ Len(outbox) \in Nat
           /\ \A i \in DOMAIN outbox : outbox'[i] = outbox[i]
           /\ outbox'[Len(outbox) + 1] = Event(type, o)
<1>1. Event(type, o) \in Rows
  BY DEF Event, Rows
<1> QED
  BY <1>1

\* A row of the outbox is replaced by a row.
LEMMA ChangeRow ==
    ASSUME outbox \in Seq(Rows), NEW i \in DOMAIN outbox, NEW e \in Rows,
           outbox' = [outbox EXCEPT ![i] = e]
    PROVE  outbox' \in Seq(Rows) /\ Len(outbox') = Len(outbox)
OBVIOUS

LEMMA IdleTyped == Idle \in [op : Ops, order : Orders]
<1>1. (CHOOSE o \in Orders : TRUE) \in Orders
  BY OrderStoreAssumption DEF OrderStoreAssumption
<1> QED
  BY <1>1 DEF Idle, Ops

LEMMA RequestTyped ==
    ASSUME Requests, NEW c \in Calls, NEW op \in Ops, NEW o \in Orders,
           Request(c, op, o) \/ Done(c)
    PROVE  Requests'
BY IdleTyped DEF Requests, Request, Done

LEMMA EventsGrow ==
    ASSUME Events, outbox' \in Seq(Rows), Len(outbox') >= Len(outbox),
           UNCHANGED <<batch, outcome>>
    PROVE  Events'
<1>1. ASSUME NEW w \in Workers, NEW b \in batch[w] PROVE b.id <= Len(outbox')
  <2>1. b \in Claims /\ b.id <= Len(outbox)
    BY DEF Events
  <2>2. b.id \in Nat /\ Len(outbox) \in Nat /\ Len(outbox') \in Nat
    BY <2>1 DEF Claims, Events
  <2> QED
    BY <2>1, <2>2
<1> QED
  BY <1>1 DEF Events

\* What a worker does to the row it has handled.
LEMMA MarkedRow ==
    ASSUME NEW e \in Rows, NEW n \in Nat
    PROVE  /\ MarkSent(e) \in Rows /\ BumpAttempt(e, n) \in Rows
           /\ MarkSent(e).type = e.type /\ MarkSent(e).order = e.order
           /\ BumpAttempt(e, n).type = e.type /\ BumpAttempt(e, n).order = e.order
           /\ BumpAttempt(e, n).status = "SENT" => e.status = "SENT"
<1>1. n + 1 \in Nat
  OBVIOUS
<1>2. ASSUME NEW k \in Nat
      PROVE  [e EXCEPT !.status = "FAILED", !.attempts = k, !.due = FALSE] \in Rows
  BY DEF Rows
<1>3. ASSUME NEW k \in Nat PROVE [e EXCEPT !.attempts = k, !.due = FALSE] \in Rows
  BY DEF Rows
<1>4. BumpAttempt(e, n) \in Rows
  BY <1>1, <1>2, <1>3, Zenon DEF BumpAttempt
<1>5. MarkSent(e) \in Rows
  BY DEF MarkSent, Rows
<1>6. /\ MarkSent(e).type = e.type /\ MarkSent(e).order = e.order
      /\ BumpAttempt(e, n).type = e.type /\ BumpAttempt(e, n).order = e.order
      /\ BumpAttempt(e, n).status = "SENT" => e.status = "SENT"
  BY DEF MarkSent, BumpAttempt, Rows
<1> QED
  BY <1>4, <1>5, <1>6

\* MarkEvent without the detail of the row.
LEMMA MarkEventIs ==
    ASSUME TradingTypeOK, NEW w \in Workers, MarkEvent(w)
    PROVE  LET i == First(w).id IN
           /\ i \in DOMAIN outbox
           /\ \E e \in Rows :
                 /\ outbox' = [outbox EXCEPT ![i] = e]
                 /\ e.type = outbox[i].type /\ e.order = outbox[i].order
                 /\ e.status = "SENT" => outcome[w] = "ok" \/ outbox[i].status = "SENT"
<1> DEFINE b == First(w)
<1>1. batch[w] # {}
  BY DEF MarkEvent, TradingTypeOK
<1>2. b.id \in DOMAIN outbox /\ b.attempts \in Nat /\ outbox[b.id] \in Rows
  BY <1>1, FirstIsClaimed
<1> DEFINE row == outbox[b.id]
           e == IF outcome[w] = "ok" THEN MarkSent(row) ELSE BumpAttempt(row, b.attempts)
<1>3. outbox' = [outbox EXCEPT ![b.id] = e]
  BY DEF MarkEvent
<1>4. /\ e \in Rows /\ e.type = row.type /\ e.order = row.order
      /\ e.status = "SENT" => outcome[w] = "ok" \/ row.status = "SENT"
  BY <1>2, MarkedRow
<1> HIDE DEF e, b
<1> QED
  BY <1>2, <1>3, <1>4 DEF b

\* The payment of o is announced, whatever became of it.
Announced(o) ==
    /\ Announce(o)
    /\ pay' = pay \/ pay' = [pay EXCEPT ![o] = "SUCCESS"]
    /\ UNCHANGED <<vars, refund, batch, outcome>>

\* A report of the provider announces a payment and asks nothing of a request.
LEMMA ReportAnnounces ==
    ASSUME NEW o \in Orders, NEW id, WechatPayTransaction(o, id)
    PROVE  /\ Announced(o) /\ UNCHANGED call
           /\ seen \subseteq ReportIds => seen' \subseteq ReportIds
           /\ Cardinality(EventsOf("payment.success", o)) < MaxDeliveries
BY DEF WechatPayTransaction, MarkSuccess, SkipSeen, MarkPaid, Announced

LEMMA AnnouncedTyped ==
    ASSUME TradingTypeOK, NEW o \in Orders, Announced(o), seen' \subseteq ReportIds
    PROVE  Money' /\ Events'
<1>1. Money'
  BY DEF Announced, Money, TradingTypeOK
<1>2. outbox' \in Seq(Rows) /\ Len(outbox') >= Len(outbox)
  BY AppendEvent DEF Announced, Announce, TradingTypeOK
<1> QED
  BY <1>1, <1>2, EventsGrow, TypesInParts DEF Announced

LEMMA CallTyped ==
    ASSUME TradingTypeOK, NEW c \in Calls, CallStep(c)
    PROVE  TradingTypeOK'
<1> USE TypesInParts
<1>1. ASSUME UNCHANGED <<outbox, batch, outcome>> PROVE Events'
  BY <1>1 DEF Events
<1>2. ASSUME UNCHANGED <<pay, seen, refund>> PROVE Money'
  BY <1>2 DEF Money
<1>3. call[c].order \in Orders
  BY DEF Requests
<1>4. ASSUME NEW o \in Orders, PrepayRead(c, o) \/ ConfirmRead(c, o) PROVE TradingTypeOK'
  BY <1>1, <1>2, <1>4, RequestTyped DEF PrepayRead, ConfirmRead, Ops
<1>5. ASSUME NEW o \in Orders, CancelOrder(c, o) PROVE TradingTypeOK'
  <2>1. Requests'
    BY <1>5, RequestTyped DEF CancelOrder, Ops, Requests
  <2> QED
    BY <1>1, <1>2, <1>5, <2>1 DEF CancelOrder
<1>6. CASE PrepayInsert(c)
  <2>1. Money'
    BY <1>6 DEF PrepayInsert, Money
  <2> QED
    BY <1>1, <1>3, <1>6, <2>1, RequestTyped DEF PrepayInsert, Ops
<1>7. CASE ConfirmCommit(c)
  <2>1. Announced(call[c].order) /\ seen' \subseteq ReportIds
    BY <1>7 DEF ConfirmCommit, MarkPaid, Announced, Money
  <2> QED
    BY <1>3, <1>7, <2>1, AnnouncedTyped, RequestTyped DEF ConfirmCommit, Ops
<1>8. CASE RefundCreate(c)
  <2>1. Money' /\ Requests'
    BY <1>3, <1>8, RequestTyped DEF RefundCreate, Money, Ops
  <2> QED
    BY <1>1, <1>8, <2>1 DEF RefundCreate
<1>9. CASE RefundSettle(c)
  <2>1. Money'
    BY <1>9 DEF RefundSettle, Money
  <2>2. outbox' \in Seq(Rows) /\ Len(outbox') >= Len(outbox)
    BY <1>3, <1>9, AppendEvent DEF RefundSettle, TradingTypeOK
  <2> QED
    BY <1>3, <1>9, <2>1, <2>2, EventsGrow, RequestTyped DEF RefundSettle, Ops
<1>10. CASE CallDies(c)
  BY <1>1, <1>2, <1>3, <1>10, RequestTyped DEF CallDies, Ops
<1> QED
  BY <1>4, <1>5, <1>6, <1>7, <1>8, <1>9, <1>10 DEF CallStep

LEMMA WorkerTyped ==
    ASSUME TradingTypeOK, NEW w \in Workers, WorkerStep(w)
    PROVE  TradingTypeOK'
<1> USE TypesInParts
<1>1. ASSUME UNCHANGED <<pay, seen, refund, call>> PROVE Money' /\ Requests'
  BY <1>1 DEF Money, Requests
<1>2. CASE Claim(w)
  <2> DEFINE due == {i \in DOMAIN outbox : outbox[i].status = "PENDING" /\ outbox[i].due}
             claims == {[id |-> i, attempts |-> outbox[i].attempts] : i \in due}
  <2>1. /\ batch' = [batch EXCEPT ![w] = claims] /\ outcome' = outcome
        /\ outbox' = [i \in DOMAIN outbox |->
                         IF i \in due THEN [outbox[i] EXCEPT !.due = FALSE] ELSE outbox[i]]
        /\ batch[w] = {}
    BY <1>2 DEF Claim
  <2>2. outbox \in Seq(Rows) /\ due \subseteq 1..Len(outbox) /\ Len(outbox) \in Nat
    BY DEF TradingTypeOK
  <2>3. ASSUME NEW i \in 1..Len(outbox)
        PROVE  /\ outbox[i] \in Rows /\ [outbox[i] EXCEPT !.due = FALSE] \in Rows
               /\ [id |-> i, attempts |-> outbox[i].attempts] \in Claims
    <3>1. outbox[i] \in Rows
      BY <2>2
    <3>2. ASSUME NEW e \in Rows PROVE [e EXCEPT !.due = FALSE] \in Rows
      BY DEF Rows
    <3> QED
      BY <2>2, <3>1, <3>2 DEF Rows, Claims
  <2>4. claims \in SUBSET Claims /\ \A b \in claims : b.id <= Len(outbox)
    <3> HIDE DEF due
    <3>1. ASSUME NEW i \in due
          PROVE  /\ [id |-> i, attempts |-> outbox[i].attempts] \in Claims
                 /\ i <= Len(outbox)
      <4>1. i \in 1..Len(outbox)
        BY <2>2, Zenon
      <4>2. i <= Len(outbox)
        BY <2>2, <4>1
      <4> QED
        BY <2>3, <4>1, <4>2, Zenon
    <3>2. ASSUME NEW b \in claims PROVE b \in Claims /\ b.id <= Len(outbox)
      <4>1. PICK i \in due : b = [id |-> i, attempts |-> outbox[i].attempts]
        OBVIOUS
      <4>2. b.id = i
        BY <4>1
      <4> QED
        BY <3>1, <4>1, <4>2
    <3> HIDE DEF claims
    <3> QED
      BY <3>2
  <2> HIDE DEF due, claims
  <2>6. outbox' \in Seq(Rows) /\ Len(outbox') = Len(outbox)
    <3>1. DOMAIN outbox = 1..Len(outbox)
      BY <2>2
    <3>2. outbox' \in [1..Len(outbox) -> Rows]
      BY <2>1, <2>3, <3>1
    <3> QED
      BY <2>2, <3>2
  <2>5. Events'
    BY <2>1, <2>4, <2>6 DEF Events
  <2> QED
    BY <1>1, <1>2, <2>5 DEF Claim
<1>3. CASE HandlePayment(w) \/ HandleRefund(w) \/ HandleFails(w)
  <2>1. Events'
    BY <1>3 DEF HandlePayment, HandleRefund, HandleFails, Handling, Events
  <2> QED
    BY <1>1, <1>3, <2>1 DEF HandlePayment, HandleRefund, HandleFails
<1>4. CASE MarkEvent(w)
  <2>1. outbox' \in Seq(Rows) /\ Len(outbox') = Len(outbox)
    BY <1>4, MarkEventIs, ChangeRow DEF TradingTypeOK
  <2>2. Events'
    BY <1>4, <2>1 DEF MarkEvent, Events
  <2> QED
    BY <1>1, <1>4, <2>2 DEF MarkEvent
<1>5. CASE MarkLost(w) \/ WorkerDies(w)
  <2>1. Events'
    BY <1>5 DEF MarkLost, WorkerDies, Events
  <2> QED
    BY <1>1, <1>5, <2>1 DEF MarkLost, WorkerDies
<1> QED
  BY <1>2, <1>3, <1>4, <1>5 DEF WorkerStep

LEMMA TypeStep == TradingTypeOK /\ [TradingNext]_allVars => TradingTypeOK'
<1> SUFFICES ASSUME TradingTypeOK, [TradingNext]_allVars PROVE TradingTypeOK'
  OBVIOUS
<1>1. ASSUME UNCHANGED tradeVars PROVE TradingTypeOK'
  BY <1>1 DEF tradeVars, TradingTypeOK
<1>2. ASSUME NEW o \in Orders, NEW id, WechatPayTransaction(o, id) PROVE TradingTypeOK'
  <2>1. Announced(o) /\ UNCHANGED call /\ seen' \subseteq ReportIds
    BY <1>2, ReportAnnounces DEF TradingTypeOK
  <2>2. Requests'
    BY <2>1, TypesInParts DEF Requests
  <2> QED
    BY <2>1, <2>2, AnnouncedTyped, TypesInParts
<1>3. ASSUME NEW i \in DOMAIN outbox, BecomeDue(i) PROVE TradingTypeOK'
  <2>1. outbox[i] \in Rows /\ outbox \in Seq(Rows)
    BY DEF TradingTypeOK
  <2>2. [outbox[i] EXCEPT !.due = TRUE] \in Rows
    BY <2>1 DEF Rows
  <2>3. outbox' \in Seq(Rows) /\ Len(outbox') = Len(outbox)
    BY <1>3, <2>1, <2>2 DEF BecomeDue
  <2> QED
    BY <1>3, <2>3 DEF BecomeDue, TradingTypeOK
<1> QED
  BY <1>1, <1>2, <1>3, CallTyped, WorkerTyped DEF TradingNext, StoreStep, allVars

LEMMA TypeInit == TradingInit => TradingTypeOK
BY IdleTyped DEF TradingInit, TradingTypeOK

\* Every column of payments, refunds and outbox and every local of a handler
\* keeps its type; a claim is always of a row that exists.
THEOREM TradingTypeCorrect == TradingSpec => []TradingTypeOK
BY TypeInit, TypeStep, PTL DEF TradingSpec

\* Payments and refunds, with their retries and crashes, do to the order
\* tables nothing but what OrderStore allows.
THEOREM ImplementsStore == TradingSpec => ImplementsOrderStore
<1>1. TradingInit => Init
  BY DEF TradingInit
<1> QED
  BY <1>1, TradingStepIsNext, TradingTypeCorrect, PTL DEF TradingSpec, ImplementsOrderStore, Spec

-----------------------------------------------------------------------------
(***************************************************************************)
(* An order only goes on: what an event was to bring about stays so.       *)
(***************************************************************************)
Onward(o) ==
    /\ ost[o] \in {"REFUNDING", "REFUNDED"} => ost'[o] \in {"REFUNDING", "REFUNDED"}
    /\ ost[o] = "REFUNDED" => ost'[o] = "REFUNDED"
    /\ ost[o] \notin {"NONE", "PENDING_PAYMENT"} => ost'[o] \notin {"NONE", "PENDING_PAYMENT"}

LEMMA OrdersGoOn ==
    ASSUME TypeOK, [Next]_vars, NEW o \in Orders
    PROVE  Onward(o)
<1> USE DEF Onward
<1>1. ASSUME UNCHANGED ost PROVE Onward(o)
  BY <1>1
<1>2. ASSUME NEW p \in Orders, NEW to \in OrderStates, ost' = [ost EXCEPT ![p] = to],
             \/ ost[p] \in {"NONE", "PENDING_PAYMENT"}
             \/ ost[p] \notin {"REFUNDING", "REFUNDED"} /\ to \notin {"NONE", "PENDING_PAYMENT"}
             \/ ost[p] = "REFUNDING" /\ to = "REFUNDED"
      PROVE  Onward(o)
  BY <1>2 DEF TypeOK
<1>3. ASSUME NEW p \in Orders,
             \/ Create(p) \/ CancelUnpaid(p) \/ CancelPaid(p) \/ RequestCancel(p)
             \/ MarkRefunded(p) \/ \E approve \in BOOLEAN : ReviewCancelRequest(p, approve)
      PROVE  Onward(o)
  BY <1>2, <1>3 DEF Create, CancelUnpaid, CancelPaid, RequestCancel, MarkRefunded,
                    ReviewCancelRequest, Advance, OrderStates
<1>4. ASSUME NEW p \in Orders, PaymentSuccess(p) PROVE Onward(o)
  BY <1>1, <1>2, <1>4 DEF PaymentSuccess, Advance, OrderStates
<1>5. ASSUME NEW from, NEW to, CanTransition(from, to, "staff")
      PROVE  from \notin {"REFUNDING", "REFUNDED"} /\ to \in OrderStates
             /\ to \notin {"NONE", "PENDING_PAYMENT"}
  BY <1>5 DEF CanTransition, Transitions, OrderStates
<1>6. ASSUME NEW p \in Orders, StaffRefund(p) PROVE Onward(o)
  BY <1>2, <1>5, <1>6 DEF StaffRefund, Advance
<1>7. ASSUME NEW m \in Staff, NEW to \in OrderStates, Transition(m, to) PROVE Onward(o)
  <2>1. screen[m].order \in Orders
    BY DEF TypeOK, Screens
  <2> QED
    BY <1>2, <1>5, <1>7, <2>1 DEF Transition, Advance
<1>8. ASSUME NEW w \in Workers, ReleaseCommit(w) PROVE Onward(o)
  BY <1>8 DEF ReleaseCommit
<1> QED
  BY <1>1, <1>3, <1>4, <1>6, <1>7, <1>8
  DEF Next, Cancel, Expire, Load, Adjust, ReleaseScan, ReleaseAbort, vars, orderVars

\* The transactions beside the money neither pay nor refund an order.
LEMMA OthersDoNotPay ==
    ASSUME TypeOK, StoreStep \/ \E c \in Calls, p \in Orders : CancelOrder(c, p)
    PROVE  /\ paid' = paid
           /\ \A o \in Orders : ost'[o] = "REFUNDED" => ost[o] = "REFUNDED"
<1> DEFINE Apart == paid' = paid /\ \A o \in Orders : ost'[o] = "REFUNDED" => ost[o] = "REFUNDED"
<1> SUFFICES Apart
  OBVIOUS
<1>1. ASSUME NEW p \in Orders, NEW to, to # "REFUNDED", ost' = [ost EXCEPT ![p] = to], paid' = paid
      PROVE  Apart
  BY <1>1 DEF TypeOK
<1>2. ASSUME NEW from, NEW to, CanTransition(from, to, "staff") PROVE to # "REFUNDED"
  BY <1>2 DEF CanTransition, Transitions
<1>3. ASSUME NEW p \in Orders, Create(p) \/ StaffRefund(p) PROVE Apart
  BY <1>1, <1>3 DEF Create, StaffRefund, Advance
<1>4. ASSUME NEW m \in Staff, NEW to \in OrderStates, Transition(m, to) PROVE Apart
  <2>1. screen[m].order \in Orders
    BY DEF TypeOK, Screens
  <2> QED
    BY <1>1, <1>2, <1>4, <2>1 DEF Transition, Advance
<1>5. ASSUME NEW w \in Workers, ReleaseCommit(w) PROVE Apart
  BY <1>5 DEF ReleaseCommit
<1>6. ASSUME NEW c \in Calls, NEW p \in Orders, CancelOrder(c, p) PROVE Apart
  BY <1>1, <1>6 DEF CancelOrder, CancelUnpaid, RequestCancel, CancelPaid, Advance
<1>7. ASSUME UNCHANGED <<ost, paid>> PROVE Apart
  BY <1>7
<1> HIDE DEF Apart
<1> QED
  BY <1>3, <1>4, <1>5, <1>6, <1>7
  DEF StoreStep, Expire, Load, Adjust, ReleaseScan, ReleaseAbort, orderVars

-----------------------------------------------------------------------------
(***************************************************************************)
(* An event marked SENT took effect: it was handled, and since then its    *)
(* order only went on.                                                     *)
(***************************************************************************)
Effect(e) == IF e.type = "refund.success" THEN ost[e.order] = "REFUNDED"
             ELSE ost[e.order] \notin {"NONE", "PENDING_PAYMENT"}

\* What a worker has handled and not marked has taken effect, too.
Handled == \A w \in Workers : outcome[w] = "ok" => Effect(outbox[First(w).id])

SentInv == TypeOK /\ TradingTypeOK /\ SentIsDone /\ Handled

\* The outbox keeps its rows and what they say; a new row is PENDING.
Kept ==
    /\ \A i \in DOMAIN outbox :
          /\ i \in DOMAIN outbox'
          /\ outbox'[i].type = outbox[i].type /\ outbox'[i].order = outbox[i].order
    /\ \A i \in DOMAIN outbox' \ DOMAIN outbox : outbox'[i].status = "PENDING"

\* Only MarkEvent marks a row SENT.
NoneSent == \A i \in DOMAIN outbox : outbox'[i].status = "SENT" => outbox[i].status = "SENT"

LEMMA AppendKeeps ==
    ASSUME TradingTypeOK, NEW type \in {"payment.success", "refund.success"}, NEW o \in Orders,
           outbox' = Append(outbox, Event(type, o))
    PROVE  Kept /\ NoneSent
<1>1. /\ outbox \in Seq(Rows) /\ outbox' \in Seq(Rows) /\ Len(outbox) \in Nat
      /\ Len(outbox') = Len(outbox) + 1
      /\ \A i \in DOMAIN outbox : outbox'[i] = outbox[i]
      /\ outbox'[Len(outbox) + 1].status = "PENDING"
  <2>1. outbox \in Seq(Rows)
    BY DEF TradingTypeOK
  <2>2. Event(type, o).status = "PENDING"
    BY DEF Event
  <2> QED
    BY <2>1, <2>2, AppendEvent
<1>2. DOMAIN outbox = 1..Len(outbox) /\ DOMAIN outbox' = 1..(Len(outbox) + 1)
  BY <1>1
<1> QED
  BY <1>1, <1>2 DEF Kept, NoneSent

LEMMA ChangeKeeps ==
    ASSUME TradingTypeOK, NEW i \in DOMAIN outbox, NEW e,
           e.type = outbox[i].type, e.order = outbox[i].order,
           outbox' = [outbox EXCEPT ![i] = e]
    PROVE  Kept /\ \A j \in DOMAIN outbox \ {i} : outbox'[j] = outbox[j]
BY DEF Kept

LEMMA ClaimKeeps ==
    ASSUME TradingTypeOK, NEW w \in Workers, Claim(w)
    PROVE  Kept /\ NoneSent
<1>1. ASSUME NEW e \in Rows
      PROVE  LET d == [e EXCEPT !.due = FALSE] IN
             d.type = e.type /\ d.order = e.order /\ d.status = e.status
  BY DEF Rows
<1>2. /\ DOMAIN outbox' = DOMAIN outbox
      /\ \A i \in DOMAIN outbox : outbox'[i] \in {outbox[i], [outbox[i] EXCEPT !.due = FALSE]}
  BY DEF Claim
<1>3. \A i \in DOMAIN outbox : outbox[i] \in Rows
  BY DEF TradingTypeOK
<1> QED
  BY <1>1, <1>2, <1>3 DEF Kept, NoneSent

LEMMA DueKeeps ==
    ASSUME TradingTypeOK, NEW i \in DOMAIN outbox, BecomeDue(i)
    PROVE  Kept /\ NoneSent
<1> DEFINE d == [outbox[i] EXCEPT !.due = TRUE]
<1>1. outbox[i] \in Rows
  BY DEF TradingTypeOK
<1>2. d.type = outbox[i].type /\ d.order = outbox[i].order /\ d.status = outbox[i].status
  BY <1>1 DEF Rows
<1>3. outbox' = [outbox EXCEPT ![i] = d]
  BY DEF BecomeDue
<1> HIDE DEF d
<1>4. Kept /\ \A j \in DOMAIN outbox \ {i} : outbox'[j] = outbox[j]
  BY <1>2, <1>3, ChangeKeeps
<1>5. outbox'[i] = d
  BY <1>3
<1> QED
  BY <1>2, <1>4, <1>5 DEF NoneSent

\* What has taken effect stays so.
LEMMA EffectStays ==
    ASSUME TypeOK, TradingTypeOK, [Next]_vars, Kept, NEW i \in DOMAIN outbox,
           Effect(outbox[i])
    PROVE  Effect(outbox[i])'
<1>1. outbox[i].order \in Orders
  <2>1. outbox \in Seq(Rows)
    BY DEF TradingTypeOK
  <2>2. outbox[i] \in Rows
    BY <2>1
  <2> QED
    BY <2>2 DEF Rows
<1>2. outbox'[i].type = outbox[i].type /\ outbox'[i].order = outbox[i].order
  BY DEF Kept
<1>3. Onward(outbox[i].order)
  BY <1>1, OrdersGoOn
<1> QED
  BY <1>2, <1>3 DEF Effect, Onward

LEMMA SentStays ==
    ASSUME SentInv, [Next]_vars, Kept, NoneSent
    PROVE  SentIsDone'
<1>1. ASSUME NEW i \in DOMAIN outbox', outbox'[i].status = "SENT"
      PROVE  Effect(outbox[i])'
  <2>1. i \in DOMAIN outbox /\ outbox[i].status = "SENT"
    BY <1>1 DEF Kept, NoneSent
  <2>2. Effect(outbox[i])
    BY <2>1 DEF SentInv, SentIsDone, Effect
  <2> QED
    BY <2>1, <2>2, EffectStays DEF SentInv
<1> QED
  BY <1>1 DEF SentIsDone, Effect

LEMMA HandledStays ==
    ASSUME SentInv, [Next]_vars, Kept, NEW v \in Workers,
           batch'[v] = batch[v], outcome'[v] = outcome[v], outcome[v] = "ok"
    PROVE  Effect(outbox[First(v).id])'
<1>1. batch[v] # {}
  BY DEF SentInv, TradingTypeOK
<1>2. First(v).id \in DOMAIN outbox
  BY <1>1, FirstIsClaimed DEF SentInv
<1>3. Effect(outbox[First(v).id])
  BY DEF SentInv, Handled
<1>4. First(v)' = First(v)
  BY DEF First
<1>5. PICK i : i = First(v).id
  OBVIOUS
<1>6. First(v)'.id = i
  BY <1>4, <1>5
<1>7. Effect(outbox[i])'
  BY <1>2, <1>3, <1>5, EffectStays DEF SentInv
<1> QED
  BY <1>6, <1>7 DEF Effect

LEMMA SentInvKept ==
    ASSUME SentInv, [Next]_vars, Kept, NoneSent, UNCHANGED <<batch, outcome>>
    PROVE  SentIsDone' /\ Handled'
BY SentStays, HandledStays DEF Handled

\* The steps of a worker; w is the one that takes it.
LEMMA WorkerSent ==
    ASSUME SentInv, NEW w \in Workers, WorkerStep(w), [Next]_vars
    PROVE  SentIsDone' /\ Handled'
<1>1. /\ batch \in [Workers -> SUBSET Claims]
      /\ outcome \in [Workers -> {"none", "ok", "error"}]
      /\ outcome[w] # "none" => batch[w] # {}
      /\ outbox \in Seq(Rows)
      /\ TradingTypeOK
  BY DEF SentInv, TradingTypeOK
<1>2. ASSUME Kept,
             \A v \in Workers \ {w} : batch'[v] = batch[v] /\ outcome'[v] = outcome[v],
             outcome'[w] = "ok" => Effect(outbox[First(w).id])'
      PROVE  Handled'
  BY <1>2, HandledStays DEF Handled
<1>3. ASSUME outbox' = outbox PROVE Kept /\ NoneSent
  BY <1>3 DEF Kept, NoneSent
<1>4. CASE Claim(w)
  <2>1. Kept /\ NoneSent
    BY <1>1, <1>4, ClaimKeeps
  <2>2. \A v \in Workers \ {w} : batch'[v] = batch[v] /\ outcome'[v] = outcome[v]
    BY <1>1, <1>4 DEF Claim
  <2>3. outcome'[w] = outcome[w] /\ outcome[w] # "ok"
    BY <1>1, <1>4 DEF Claim, SentInv, TradingTypeOK
  <2> QED
    BY <1>2, <2>1, <2>2, <2>3, SentStays
<1>5. CASE HandlePayment(w) \/ HandleRefund(w) \/ HandleFails(w)
  <2>1. /\ UNCHANGED <<outbox, batch>> /\ Handling(w)
        /\ \A v \in Workers \ {w} : outcome'[v] = outcome[v]
    BY <1>1, <1>5 DEF HandlePayment, HandleRefund, HandleFails
  <2>2. PICK e : e = outbox[First(w).id]
    OBVIOUS
  <2>3. e \in Rows /\ outbox[First(w).id]' = e
    <3>1. First(w)' = First(w)
      BY <2>1 DEF First
    <3>2. outbox[First(w).id] \in Rows
      BY <1>1, <2>1, FirstIsClaimed DEF Handling
    <3> QED
      BY <2>1, <2>2, <3>1, <3>2
  <2>4. outcome'[w] = "ok" => Effect(e)'
    <3>1. e.order \in Orders /\ ost \in [Orders -> OrderStates]
      BY <2>3 DEF Rows, SentInv, TypeOK
    <3>2. CASE HandlePayment(w)
      <4>1. e.type = "payment.success" /\ PaymentSuccess(e.order)
        BY <2>2, <3>2 DEF HandlePayment
      <4>2. ost'[e.order] \notin {"NONE", "PENDING_PAYMENT"}
        BY <3>1, <4>1 DEF PaymentSuccess, Advance
      <4> QED
        BY <4>1, <4>2 DEF Effect
    <3>3. CASE HandleRefund(w)
      <4>1. /\ e.type = "refund.success"
            /\ MarkRefunded(e.order) \/ (ost[e.order] = "REFUNDED" /\ UNCHANGED vars)
        BY <2>2, <3>3 DEF HandleRefund
      <4>2. ost'[e.order] = "REFUNDED"
        BY <3>1, <4>1 DEF MarkRefunded, Advance, vars
      <4> QED
        BY <4>1, <4>2 DEF Effect
    <3>4. CASE HandleFails(w)
      BY <1>1, <3>4 DEF HandleFails
    <3> QED
      BY <1>5, <3>2, <3>3, <3>4
  <2>5. Kept /\ NoneSent
    BY <1>3, <2>1
  <2> QED
    BY <1>2, <2>1, <2>3, <2>4, <2>5, SentStays DEF Effect
<1>6. CASE MarkEvent(w)
  <2>1. PICK i \in DOMAIN outbox, e \in Rows :
           /\ i = First(w).id
           /\ outbox' = [outbox EXCEPT ![i] = e]
           /\ e.type = outbox[i].type /\ e.order = outbox[i].order
           /\ e.status = "SENT" => outcome[w] = "ok" \/ outbox[i].status = "SENT"
    BY <1>1, <1>6, MarkEventIs
  <2>2. Kept /\ \A j \in DOMAIN outbox \ {i} : outbox'[j] = outbox[j]
    BY <1>1, <2>1, ChangeKeeps
  <2>3. outbox'[i] = e /\ DOMAIN outbox' = DOMAIN outbox
    BY <2>1
  <2>4. ASSUME NEW j \in DOMAIN outbox, outbox'[j].status = "SENT" PROVE Effect(outbox[j])'
    <3>1. Effect(outbox[j])
      <4>1. CASE outbox[j].status = "SENT"
        BY <4>1 DEF SentInv, SentIsDone, Effect
      <4>2. CASE outbox[j].status # "SENT"
        <5>1. j = i /\ outcome[w] = "ok"
          BY <2>1, <2>2, <2>3, <2>4, <4>2
        <5> QED
          BY <2>1, <5>1 DEF SentInv, Handled
      <4> QED
        BY <4>1, <4>2
    <3> QED
      BY <1>1, <2>2, <3>1, EffectStays DEF SentInv
  <2>5. SentIsDone'
    BY <2>3, <2>4 DEF SentIsDone, Effect
  <2>6. /\ \A v \in Workers \ {w} : batch'[v] = batch[v] /\ outcome'[v] = outcome[v]
        /\ outcome'[w] = "none"
    BY <1>1, <1>6 DEF MarkEvent
  <2> QED
    BY <1>2, <2>2, <2>5, <2>6
<1>7. CASE MarkLost(w) \/ WorkerDies(w)
  <2>1. /\ \A v \in Workers \ {w} : batch'[v] = batch[v] /\ outcome'[v] = outcome[v]
        /\ outcome'[w] = "none" /\ outbox' = outbox
    BY <1>1, <1>7 DEF MarkLost, WorkerDies
  <2> QED
    BY <1>2, <1>3, <2>1, SentStays
<1> QED
  BY <1>4, <1>5, <1>6, <1>7 DEF WorkerStep

LEMMA SentStep == SentInv /\ [TradingNext]_allVars => SentIsDone' /\ Handled'
<1> SUFFICES ASSUME SentInv, [TradingNext]_allVars PROVE SentIsDone' /\ Handled'
  OBVIOUS
<1>1. [Next]_vars /\ TradingTypeOK
  BY TradingStepIsNext DEF SentInv
<1>2. ASSUME UNCHANGED <<outbox, batch, outcome>> PROVE SentIsDone' /\ Handled'
  <2>1. Kept /\ NoneSent
    BY <1>2 DEF Kept, NoneSent
  <2> QED
    BY <1>1, <1>2, <2>1, SentInvKept
<1>3. ASSUME NEW type \in {"payment.success", "refund.success"}, NEW o \in Orders,
             outbox' = Append(outbox, Event(type, o)), UNCHANGED <<batch, outcome>>
      PROVE  SentIsDone' /\ Handled'
  BY <1>1, <1>3, AppendKeeps, SentInvKept
<1>4. ASSUME NEW i \in DOMAIN outbox, BecomeDue(i) PROVE SentIsDone' /\ Handled'
  BY <1>1, <1>4, DueKeeps, SentInvKept DEF BecomeDue
<1>5. ASSUME NEW o \in Orders, NEW id, WechatPayTransaction(o, id) PROVE SentIsDone' /\ Handled'
  BY <1>3, <1>5, ReportAnnounces DEF Announced, Announce
<1>6. ASSUME NEW c \in Calls, CallStep(c) PROVE SentIsDone' /\ Handled'
  <2>1. call[c].order \in Orders
    BY <1>1 DEF TradingTypeOK
  <2>2. CASE ConfirmCommit(c)
    BY <1>3, <2>1, <2>2 DEF ConfirmCommit, MarkPaid, Announce
  <2>3. CASE RefundSettle(c)
    BY <1>3, <2>1, <2>3 DEF RefundSettle
  <2> QED
    BY <1>2, <1>6, <2>2, <2>3
    DEF CallStep, PrepayRead, PrepayInsert, ConfirmRead, CancelOrder, RefundCreate, CallDies
<1> QED
  BY <1>1, <1>2, <1>4, <1>5, <1>6, WorkerSent
  DEF TradingNext, StoreStep, tradeVars, allVars

\* What is proved of OrderStore holds here.
LEMMA StoreInvariant == TradingSpec => []IInv
BY ImplementsStore, Invariance, PTL DEF ImplementsOrderStore

\* An event marked SENT has taken effect, whoever marked it and however often
\* it was claimed, handled, lost and delivered again.
THEOREM SentAreDone == TradingSpec => []SentIsDone
<1>1. TradingInit => SentIsDone /\ Handled
  BY DEF TradingInit, SentIsDone, Handled
<1>2. IInv => TypeOK
  BY DEF IInv
<1>3. IInv /\ TradingTypeOK /\ SentIsDone /\ Handled => SentInv
  BY <1>2 DEF SentInv
<1> QED
  BY <1>1, <1>3, SentStep, StoreInvariant, TradingTypeCorrect, PTL DEF TradingSpec

-----------------------------------------------------------------------------
(***************************************************************************)
(* The money.  At most one request refunds an order, and what it has found *)
(* is still so when it writes: this is what keeps refunds apart although   *)
(* the look for an older refund takes no lock.                             *)
(***************************************************************************)
Refunds(c) == call[c].op \in {"refund", "settle"}

OneRefund ==
    /\ \A c \in Calls : Refunds(c) =>
          /\ ost[call[c].order] \in {"REFUNDING", "REFUNDED"}
          /\ refund[call[c].order] = IF call[c].op = "refund" THEN "NONE" ELSE "CREATED"
    /\ \A c, d \in Calls :
          Refunds(c) /\ Refunds(d) /\ call[c].order = call[d].order => c = d

\* EventsMatchMoney without counting.
MoneyHasEvents ==
    \A o \in Orders :
        /\ pay[o] = "SUCCESS" => EventsOf("payment.success", o) # {}
        /\ refund[o] = "SUCCESS" => \E i : EventsOf("refund.success", o) = {i}
        /\ refund[o] # "SUCCESS" => EventsOf("refund.success", o) = {}

MoneyInv == TypeOK /\ TradingTypeOK /\ MoneyFollowsOrder /\ MoneyHasEvents /\ OneRefund

LEMMA EventsCounted == MoneyHasEvents => EventsMatchMoney
<1> SUFFICES ASSUME MoneyHasEvents, NEW o \in Orders
             PROVE  /\ pay[o] = "SUCCESS" => EventsOf("payment.success", o) # {}
                    /\ Cardinality(EventsOf("refund.success", o)) =
                          IF refund[o] = "SUCCESS" THEN 1 ELSE 0
  BY DEF EventsMatchMoney
<1>1. CASE refund[o] = "SUCCESS"
  BY <1>1, FS_Singleton DEF MoneyHasEvents
<1>2. CASE refund[o] # "SUCCESS"
  BY <1>2, FS_EmptySet DEF MoneyHasEvents
<1> QED
  BY <1>1, <1>2 DEF MoneyHasEvents

\* Marking, claiming and waiting change no event.
LEMMA SameEvents ==
    ASSUME Kept, DOMAIN outbox' = DOMAIN outbox, NEW type, NEW o
    PROVE  EventsOf(type, o)' = EventsOf(type, o)
BY DEF Kept, EventsOf

\* No event is forgotten.
LEMMA EventsStay ==
    ASSUME Kept, NEW type, NEW o
    PROVE  EventsOf(type, o) \subseteq EventsOf(type, o)'
BY DEF Kept, EventsOf

\* Writing an event adds it to those of its kind.
LEMMA OneMoreEvent ==
    ASSUME TradingTypeOK, NEW type \in {"payment.success", "refund.success"}, NEW o \in Orders,
           outbox' = Append(outbox, Event(type, o))
    PROVE  /\ EventsOf(type, o)' = EventsOf(type, o) \cup {Len(outbox) + 1}
           /\ \A t, p : (t # type \/ p # o) => EventsOf(t, p)' = EventsOf(t, p)
<1>1. outbox \in Seq(Rows)
  BY DEF TradingTypeOK
<1>2. /\ outbox' \in Seq(Rows) /\ Len(outbox') = Len(outbox) + 1 /\ Len(outbox) \in Nat
      /\ \A i \in DOMAIN outbox : outbox'[i] = outbox[i]
      /\ outbox'[Len(outbox) + 1] = Event(type, o)
  BY <1>1, AppendEvent
<1>3. DOMAIN outbox = 1..Len(outbox) /\ DOMAIN outbox' = 1..(Len(outbox) + 1)
  BY <1>1, <1>2
<1>4. Event(type, o).type = type /\ Event(type, o).order = o
  BY DEF Event
<1>5. /\ DOMAIN outbox' = DOMAIN outbox \cup {Len(outbox) + 1}
      /\ Len(outbox) + 1 \notin DOMAIN outbox
  BY <1>2, <1>3
<1> QED
  BY <1>2, <1>4, <1>5 DEF EventsOf

LEMMA AnnounceAdds ==
    ASSUME TradingTypeOK, NEW o \in Orders, Announced(o)
    PROVE  /\ \E n : EventsOf("payment.success", o)' = EventsOf("payment.success", o) \cup {n}
           /\ EventsOf("payment.success", o)' # {}
           /\ \A p : p # o => EventsOf("payment.success", p)' = EventsOf("payment.success", p)
           /\ \A p : EventsOf("refund.success", p)' = EventsOf("refund.success", p)
<1>1. outbox' = Append(outbox, Event("payment.success", o))
  BY DEF Announced, Announce
<1>2. "payment.success" \in {"payment.success", "refund.success"}
  OBVIOUS
<1>3. /\ EventsOf("payment.success", o)' = EventsOf("payment.success", o) \cup {Len(outbox) + 1}
      /\ \A t, p : (t # "payment.success" \/ p # o) => EventsOf(t, p)' = EventsOf(t, p)
  BY <1>1, <1>2, OneMoreEvent
<1>4. EventsOf("payment.success", o)' # {}
  BY <1>3
<1> QED
  BY <1>3, <1>4

\* The order moves and the money does not.
LEMMA OrderMoves ==
    ASSUME MoneyInv, UNCHANGED <<pay, refund>>, Kept, \A o \in Orders : Onward(o),
           \A o \in Orders : paid'[o] => EventsOf("payment.success", o) # {},
           \A o \in Orders : ost'[o] = "REFUNDED" => refund[o] = "SUCCESS"
    PROVE  MoneyFollowsOrder'
<1>1. \A o \in Orders : EventsOf("payment.success", o) # {} => EventsOf("payment.success", o)' # {}
  BY EventsStay
<1> QED
  BY <1>1 DEF MoneyInv, MoneyFollowsOrder, Onward

LEMMA EventsRest ==
    ASSUME MoneyInv, UNCHANGED <<pay, refund>>, Kept, DOMAIN outbox' = DOMAIN outbox
    PROVE  MoneyHasEvents'
<1>1. \A o : /\ EventsOf("payment.success", o)' = EventsOf("payment.success", o)
             /\ EventsOf("refund.success", o)' = EventsOf("refund.success", o)
  BY SameEvents
<1> QED
  BY <1>1 DEF MoneyInv, MoneyHasEvents

\* Requests go on, or end, and start no refund.
LEMMA CallsRest ==
    ASSUME MoneyInv, UNCHANGED refund, \A o \in Orders : Onward(o),
           \A c \in Calls : call'[c] = call[c] \/ ~Refunds(c)'
    PROVE  OneRefund'
<1>1. \A c \in Calls : Refunds(c)' => call'[c] = call[c] /\ Refunds(c)
  BY DEF Refunds
<1>2. \A c \in Calls : call[c].order \in Orders
  BY DEF MoneyInv, TradingTypeOK
<1>3. ASSUME NEW c \in Calls, Refunds(c)'
      PROVE  /\ ost'[call'[c].order] \in {"REFUNDING", "REFUNDED"}
             /\ refund'[call'[c].order] = IF call'[c].op = "refund" THEN "NONE" ELSE "CREATED"
  BY <1>1, <1>2, <1>3 DEF MoneyInv, OneRefund, Onward
<1>4. ASSUME NEW c \in Calls, NEW d \in Calls, Refunds(c)', Refunds(d)',
             call'[c].order = call'[d].order
      PROVE  c = d
  BY <1>1, <1>4 DEF MoneyInv, OneRefund
<1> QED
  BY <1>3, <1>4 DEF OneRefund

\* The event is written, with the payment marked or without.
LEMMA AnnouncedMoney ==
    ASSUME MoneyInv, NEW o \in Orders, Announced(o),
           \A c \in Calls : call'[c] = call[c] \/ ~Refunds(c)'
    PROVE  MoneyFollowsOrder' /\ MoneyHasEvents' /\ OneRefund'
<1>1. UNCHANGED <<vars, refund>> /\ \A p \in Orders : Onward(p)
  BY DEF Announced, vars, Onward
<1>2. /\ TradingTypeOK /\ MoneyHasEvents /\ MoneyFollowsOrder
      /\ pay \in [Orders -> {"NONE", "PREPAY_CREATED", "SUCCESS"}]
  BY DEF MoneyInv, TradingTypeOK
<1>3. UNCHANGED <<paid, ost, refund>>
  BY <1>1 DEF vars, orderVars
<1>4. /\ EventsOf("payment.success", o)' # {}
      /\ \A p : p # o => EventsOf("payment.success", p)' = EventsOf("payment.success", p)
      /\ \A p : EventsOf("refund.success", p)' = EventsOf("refund.success", p)
  BY <1>2, AnnounceAdds
<1>5. ASSUME NEW p \in Orders
      PROVE  /\ pay[p] = "SUCCESS" => pay'[p] = "SUCCESS"
             /\ pay'[p] = "SUCCESS" => EventsOf("payment.success", p)' # {}
             /\ paid[p] => EventsOf("payment.success", p)' # {}
  <2>1. p # o => pay'[p] = pay[p]
    BY <1>2 DEF Announced
  <2>2. pay[p] = "SUCCESS" => pay'[p] = "SUCCESS"
    BY <1>2 DEF Announced
  <2>3. p # o /\ (pay[p] = "SUCCESS" \/ paid[p]) => EventsOf("payment.success", p)' # {}
    BY <1>2, <1>4 DEF MoneyHasEvents, MoneyFollowsOrder
  <2> QED
    BY <1>4, <2>1, <2>2, <2>3
<1>6. MoneyHasEvents'
  BY <1>2, <1>3, <1>4, <1>5 DEF MoneyHasEvents
<1>7. MoneyFollowsOrder'
  BY <1>2, <1>3, <1>5 DEF MoneyFollowsOrder
<1> QED
  BY <1>1, <1>6, <1>7, CallsRest

LEMMA CallMoney ==
    ASSUME MoneyInv, NEW c \in Calls, CallStep(c), [Next]_vars
    PROVE  MoneyFollowsOrder' /\ MoneyHasEvents' /\ OneRefund'
<1>1. /\ call \in [Calls -> [op : Ops, order : Orders]] /\ call[c].order \in Orders
      /\ pay \in [Orders -> {"NONE", "PREPAY_CREATED", "SUCCESS"}]
      /\ refund \in [Orders -> {"NONE", "CREATED", "SUCCESS"}]
      /\ TypeOK /\ TradingTypeOK /\ MoneyFollowsOrder /\ MoneyHasEvents /\ OneRefund
  BY DEF MoneyInv, TradingTypeOK
<1>2. \A o \in Orders : Onward(o)
  BY <1>1, OrdersGoOn
<1>3. ASSUME UNCHANGED outbox PROVE Kept /\ DOMAIN outbox' = DOMAIN outbox
  BY <1>3 DEF Kept
<1>4. ASSUME NEW op \in {"prepay", "confirm"}, NEW o \in Orders, Request(c, op, o) \/ Done(c)
      PROVE  \A d \in Calls : call'[d] = call[d] \/ ~Refunds(d)'
  BY <1>1, <1>4 DEF Request, Done, Idle, Refunds
<1>5. ASSUME UNCHANGED <<vars, pay, refund, outbox>>,
             \A d \in Calls : call'[d] = call[d] \/ ~Refunds(d)'
      PROVE  MoneyFollowsOrder' /\ MoneyHasEvents' /\ OneRefund'
  <2>1. MoneyFollowsOrder'
    BY <1>1, <1>5 DEF MoneyFollowsOrder, vars, EventsOf
  <2> QED
    BY <1>2, <1>3, <1>5, <2>1, EventsRest, CallsRest
<1>6. CASE PrepayInsert(c)
  <2>1. pay' = [pay EXCEPT ![call[c].order] = IF @ = "NONE" THEN "PREPAY_CREATED" ELSE @]
    BY <1>6 DEF PrepayInsert
  <2>2. \A o \in Orders : pay'[o] = "SUCCESS" <=> pay[o] = "SUCCESS"
    BY <1>1, <2>1
  <2>3. \A t, o : EventsOf(t, o)' = EventsOf(t, o)
    BY <1>6 DEF PrepayInsert, EventsOf
  <2>4. MoneyFollowsOrder' /\ MoneyHasEvents'
    BY <1>1, <1>6, <2>2, <2>3 DEF PrepayInsert, MoneyFollowsOrder, MoneyHasEvents, vars
  <2> QED
    BY <1>1, <1>2, <1>4, <1>6, <2>4, CallsRest DEF PrepayInsert
<1>7. CASE ConfirmCommit(c)
  <2>1. Announced(call[c].order)
    BY <1>7 DEF ConfirmCommit, MarkPaid, Announced
  <2> QED
    BY <1>1, <1>4, <1>7, <2>1, AnnouncedMoney DEF ConfirmCommit
<1>8. ASSUME NEW o \in Orders, PrepayRead(c, o) \/ ConfirmRead(c, o)
      PROVE  MoneyFollowsOrder' /\ MoneyHasEvents' /\ OneRefund'
  BY <1>4, <1>5, <1>8 DEF PrepayRead, ConfirmRead
<1>9. CASE CallDies(c)
  BY <1>1, <1>4, <1>5, <1>9 DEF CallDies
<1>10. ASSUME NEW o \in Orders, CancelOrder(c, o)
       PROVE  MoneyFollowsOrder' /\ MoneyHasEvents' /\ OneRefund'
  <2>1. /\ UNCHANGED <<pay, refund, outbox>> /\ paid' = paid
        /\ \A p \in Orders : ost'[p] = "REFUNDED" => ost[p] = "REFUNDED"
    BY <1>1, <1>10, OthersDoNotPay DEF CancelOrder
  <2>2. MoneyFollowsOrder' /\ MoneyHasEvents'
    BY <1>1, <1>2, <1>3, <2>1, OrderMoves, EventsRest DEF MoneyFollowsOrder
  <2>3. CASE UNCHANGED call
    BY <1>2, <2>1, <2>2, <2>3, CallsRest
  <2>4. CASE CancelPaid(o) /\ Request(c, "refund", o)
    <3>1. ost[o] = "PAID" /\ refund[o] = "NONE" /\ ost'[o] = "REFUNDING"
      BY <1>1, <2>4 DEF CancelPaid, Advance, MoneyFollowsOrder, TypeOK
    <3>2. \A d \in Calls : Refunds(d) => call[d].order # o
      BY <1>1, <3>1 DEF OneRefund
    <3>3. /\ call'[c].op = "refund" /\ call'[c].order = o
          /\ \A d \in Calls : d # c => call'[d] = call[d]
      BY <1>1, <2>4 DEF Request
    <3>4. \A d \in Calls : d # c /\ Refunds(d)' => Refunds(d) /\ call'[d] = call[d]
      BY <3>3 DEF Refunds
    <3>5. ASSUME NEW d \in Calls, Refunds(d)'
          PROVE  /\ ost'[call'[d].order] \in {"REFUNDING", "REFUNDED"}
                 /\ refund'[call'[d].order] = IF call'[d].op = "refund" THEN "NONE" ELSE "CREATED"
      <4>1. call[d].order \in Orders
        BY <1>1
      <4> QED
        BY <1>1, <1>2, <2>1, <3>1, <3>3, <3>4, <3>5, <4>1 DEF OneRefund, Onward
    <3>6. ASSUME NEW d \in Calls, NEW f \in Calls, Refunds(d)', Refunds(f)',
                 call'[d].order = call'[f].order
          PROVE  d = f
      BY <1>1, <3>2, <3>3, <3>4, <3>6 DEF OneRefund
    <3> QED
      BY <2>2, <3>5, <3>6 DEF OneRefund
  <2> QED
    BY <1>10, <2>3, <2>4 DEF CancelOrder
<1>11. CASE RefundCreate(c)
  <2> DEFINE o == call[c].order
  <2>1. call[c].op = "refund" /\ Refunds(c) /\ refund[o] = "NONE"
        /\ ost[o] \in {"REFUNDING", "REFUNDED"}
    BY <1>1, <1>11 DEF RefundCreate, Refunds, OneRefund
  <2>2. CASE pay[o] = "SUCCESS"
    <3>1. /\ refund' = [refund EXCEPT ![o] = "CREATED"]
          /\ call' = [call EXCEPT ![c] = [op |-> "settle", order |-> o]]
          /\ UNCHANGED <<vars, pay, outbox>>
      BY <1>11, <2>1, <2>2 DEF RefundCreate, Request
    <3>2. PICK p \in Orders : p = o
      BY <1>1
    <3> HIDE DEF o
    <3>3. MoneyFollowsOrder'
      <4>1. ost[p] # "REFUNDED"
        BY <1>1, <2>1, <3>2 DEF MoneyFollowsOrder
      <4> QED
        BY <1>1, <2>1, <2>2, <3>1, <3>2, <4>1 DEF MoneyFollowsOrder, vars, EventsOf
    <3>4. \A t, q : EventsOf(t, q)' = EventsOf(t, q)
      BY <3>1 DEF EventsOf
    <3>5. MoneyHasEvents'
      BY <1>1, <2>1, <3>1, <3>2, <3>4 DEF MoneyHasEvents
    <3>6. /\ call'[c].op = "settle" /\ call'[c].order = p
          /\ \A d \in Calls : d # c => call'[d] = call[d]
      BY <1>1, <3>1, <3>2
    <3>7. \A d \in Calls : Refunds(d)' => Refunds(d) /\ call'[d].order = call[d].order
      BY <2>1, <3>2, <3>6 DEF Refunds, o
    <3>8. \A d \in Calls : d # c /\ Refunds(d) => call[d].order # p
      BY <1>1, <2>1, <3>2 DEF OneRefund, o
    <3>9. ASSUME NEW d \in Calls, Refunds(d)'
          PROVE  /\ ost'[call'[d].order] \in {"REFUNDING", "REFUNDED"}
                 /\ refund'[call'[d].order] = IF call'[d].op = "refund" THEN "NONE" ELSE "CREATED"
      <4>1. CASE d = c
        BY <1>1, <2>1, <3>1, <3>2, <3>6, <4>1 DEF vars
      <4>2. CASE d # c
        <5>1. Refunds(d) /\ call'[d] = call[d] /\ call[d].order # p /\ call[d].order \in Orders
          BY <1>1, <3>6, <3>7, <3>8, <3>9, <4>2
        <5> QED
          BY <1>1, <3>1, <3>2, <5>1 DEF OneRefund, vars
      <4> QED
        BY <4>1, <4>2
    <3>10. ASSUME NEW d \in Calls, NEW f \in Calls, Refunds(d)', Refunds(f)',
                  call'[d].order = call'[f].order
           PROVE  d = f
      BY <1>1, <3>7, <3>10 DEF OneRefund
    <3> QED
      BY <3>3, <3>5, <3>9, <3>10 DEF OneRefund
  <2>3. CASE pay[o] # "SUCCESS"
    BY <1>1, <1>4, <1>5, <1>11, <2>3 DEF RefundCreate
  <2> QED
    BY <2>2, <2>3
<1>12. CASE RefundSettle(c)
  <2>1. PICK o \in Orders : o = call[c].order
    BY <1>1
  <2>2. /\ Refunds(c) /\ refund[o] = "CREATED" /\ ost[o] \in {"REFUNDING", "REFUNDED"}
    BY <1>1, <1>12, <2>1 DEF RefundSettle, Refunds, OneRefund
  <2>3. /\ refund' = [refund EXCEPT ![o] = "SUCCESS"]
        /\ outbox' = Append(outbox, Event("refund.success", o))
        /\ Done(c) /\ UNCHANGED <<vars, pay>>
    BY <1>12, <2>1 DEF RefundSettle
  <2>4. /\ EventsOf("refund.success", o)' = EventsOf("refund.success", o) \cup {Len(outbox) + 1}
        /\ \A p : p # o => EventsOf("refund.success", p)' = EventsOf("refund.success", p)
        /\ \A p : EventsOf("payment.success", p)' = EventsOf("payment.success", p)
    BY <1>1, <2>3, OneMoreEvent
  <2>5. EventsOf("refund.success", o)' = {Len(outbox) + 1}
    BY <1>1, <2>2, <2>4 DEF MoneyHasEvents
  <2>6. MoneyHasEvents'
    BY <1>1, <2>3, <2>4, <2>5 DEF MoneyHasEvents
  <2>7. MoneyFollowsOrder'
    BY <1>1, <2>2, <2>3, <2>4 DEF MoneyFollowsOrder, vars
  <2>8. \A d \in Calls : Refunds(d)' => d # c /\ Refunds(d) /\ call'[d] = call[d]
    BY <1>1, <2>3 DEF Done, Idle, Refunds
  <2>9. ASSUME NEW d \in Calls, Refunds(d)'
        PROVE  /\ ost'[call'[d].order] \in {"REFUNDING", "REFUNDED"}
               /\ refund'[call'[d].order] = IF call'[d].op = "refund" THEN "NONE" ELSE "CREATED"
    <3>1. d # c /\ Refunds(d) /\ call'[d] = call[d]
      BY <2>8, <2>9
    <3>2. call[d].order # o /\ call[d].order \in Orders
      BY <1>1, <2>1, <2>2, <3>1 DEF OneRefund
    <3> QED
      BY <1>1, <2>3, <3>1, <3>2 DEF OneRefund, vars
  <2>10. ASSUME NEW d \in Calls, NEW f \in Calls, Refunds(d)', Refunds(f)',
                call'[d].order = call'[f].order
         PROVE  d = f
    BY <1>1, <2>8, <2>10 DEF OneRefund
  <2> QED
    BY <2>6, <2>7, <2>9, <2>10 DEF OneRefund
<1> QED
  BY <1>6, <1>7, <1>8, <1>9, <1>10, <1>11, <1>12 DEF CallStep

LEMMA WorkerMoney ==
    ASSUME MoneyInv, NEW w \in Workers, WorkerStep(w), [Next]_vars
    PROVE  MoneyFollowsOrder' /\ MoneyHasEvents' /\ OneRefund'
<1>1. TypeOK /\ TradingTypeOK /\ MoneyFollowsOrder /\ MoneyHasEvents
  BY DEF MoneyInv
<1>2. \A o \in Orders : Onward(o)
  BY <1>1, OrdersGoOn
<1>3. UNCHANGED <<pay, refund, call>>
  BY DEF WorkerStep, Claim, HandlePayment, HandleRefund, HandleFails, MarkEvent, MarkLost, WorkerDies
<1>4. OneRefund'
  BY <1>2, <1>3, CallsRest
<1>5. ASSUME UNCHANGED outbox PROVE MoneyHasEvents'
  <2>1. Kept /\ DOMAIN outbox' = DOMAIN outbox
    BY <1>5 DEF Kept
  <2> QED
    BY <1>3, <2>1, EventsRest
<1>6. ASSUME UNCHANGED vars, Kept PROVE MoneyFollowsOrder'
  BY <1>1, <1>2, <1>3, <1>6, OrderMoves DEF MoneyFollowsOrder, vars
<1>7. CASE HandlePayment(w) \/ HandleRefund(w)
  <2>1. PICK e : e = outbox[First(w).id]
    OBVIOUS
  <2>2. First(w).id \in DOMAIN outbox /\ e \in Rows
    BY <1>1, <1>7, <2>1, FirstIsClaimed DEF HandlePayment, HandleRefund, Handling
  <2>3. e.order \in Orders /\ First(w).id \in EventsOf(e.type, e.order)
    BY <2>1, <2>2 DEF Rows, EventsOf
  <2>4. /\ \A o \in Orders : paid'[o] => EventsOf("payment.success", o) # {}
        /\ \A o \in Orders : ost'[o] = "REFUNDED" => refund[o] = "SUCCESS"
    <3>1. CASE HandlePayment(w)
      <4>1. e.type = "payment.success" /\ PaymentSuccess(e.order)
        BY <2>1, <3>1 DEF HandlePayment
      <4>2. EventsOf("payment.success", e.order) # {}
        BY <2>3, <4>1
      <4> QED
        BY <1>1, <2>3, <4>1, <4>2 DEF PaymentSuccess, Advance, TypeOK, MoneyFollowsOrder
    <3>2. CASE HandleRefund(w)
      <4>1. /\ e.type = "refund.success"
            /\ MarkRefunded(e.order) \/ UNCHANGED vars
        BY <2>1, <3>2 DEF HandleRefund
      <4>2. refund[e.order] = "SUCCESS"
        BY <1>1, <2>3, <4>1 DEF MoneyHasEvents
      <4> QED
        BY <1>1, <2>3, <4>1, <4>2 DEF MarkRefunded, Advance, TypeOK, MoneyFollowsOrder, vars
    <3> QED
      BY <1>7, <3>1, <3>2
  <2>5. MoneyFollowsOrder'
    <3>1. Kept
      BY <1>7 DEF HandlePayment, HandleRefund, Kept
    <3> QED
      BY <1>2, <1>3, <2>4, <3>1, OrderMoves
  <2> QED
    BY <1>4, <1>5, <1>7, <2>5 DEF HandlePayment, HandleRefund
<1>8. CASE HandleFails(w) \/ MarkLost(w) \/ WorkerDies(w)
  <2>1. Kept
    BY <1>8 DEF HandleFails, MarkLost, WorkerDies, Kept
  <2> QED
    BY <1>4, <1>5, <1>6, <1>8, <2>1 DEF HandleFails, MarkLost, WorkerDies
<1>9. CASE Claim(w)
  <2>1. Kept /\ DOMAIN outbox' = DOMAIN outbox
    BY <1>1, <1>9, ClaimKeeps DEF Claim
  <2> QED
    BY <1>3, <1>4, <1>6, <1>9, <2>1, EventsRest DEF Claim
<1>10. CASE MarkEvent(w)
  <2>1. Kept /\ DOMAIN outbox' = DOMAIN outbox
    BY <1>1, <1>10, MarkEventIs, ChangeKeeps
  <2> QED
    BY <1>3, <1>4, <1>6, <1>10, <2>1, EventsRest DEF MarkEvent
<1> QED
  BY <1>7, <1>8, <1>9, <1>10 DEF WorkerStep

LEMMA MoneyStep ==
    MoneyInv /\ [TradingNext]_allVars => MoneyFollowsOrder' /\ MoneyHasEvents' /\ OneRefund'
<1> SUFFICES ASSUME MoneyInv, [TradingNext]_allVars
             PROVE  MoneyFollowsOrder' /\ MoneyHasEvents' /\ OneRefund'
  OBVIOUS
<1>1. TypeOK /\ TradingTypeOK /\ [Next]_vars
  BY TradingStepIsNext DEF MoneyInv
<1>2. \A o \in Orders : Onward(o)
  BY <1>1, OrdersGoOn
<1>3. ASSUME UNCHANGED tradeVars, paid' = paid,
             \A o \in Orders : ost'[o] = "REFUNDED" => ost[o] = "REFUNDED"
      PROVE  MoneyFollowsOrder' /\ MoneyHasEvents' /\ OneRefund'
  <2>1. Kept /\ DOMAIN outbox' = DOMAIN outbox
    BY <1>3 DEF Kept, tradeVars
  <2>2. MoneyFollowsOrder'
    BY <1>2, <1>3, <2>1, OrderMoves DEF tradeVars, MoneyInv, MoneyFollowsOrder
  <2> QED
    BY <1>2, <1>3, <2>1, <2>2, EventsRest, CallsRest DEF tradeVars
<1>4. CASE StoreStep
  BY <1>1, <1>3, <1>4, OthersDoNotPay DEF StoreStep
<1>5. CASE UNCHANGED allVars
  BY <1>3, <1>5 DEF allVars, vars
<1>6. ASSUME NEW o \in Orders, NEW id, WechatPayTransaction(o, id)
      PROVE  MoneyFollowsOrder' /\ MoneyHasEvents' /\ OneRefund'
  BY <1>6, ReportAnnounces, AnnouncedMoney
<1>7. ASSUME NEW i \in DOMAIN outbox, BecomeDue(i)
      PROVE  MoneyFollowsOrder' /\ MoneyHasEvents' /\ OneRefund'
  <2>1. Kept /\ DOMAIN outbox' = DOMAIN outbox
    BY <1>1, <1>7, DueKeeps DEF BecomeDue
  <2>2. MoneyFollowsOrder'
    BY <1>2, <1>7, <2>1, OrderMoves DEF BecomeDue, MoneyInv, MoneyFollowsOrder, vars
  <2> QED
    BY <1>2, <1>7, <2>1, <2>2, EventsRest, CallsRest DEF BecomeDue
<1> QED
  BY <1>1, <1>4, <1>5, <1>6, <1>7, CallMoney, WorkerMoney DEF TradingNext

LEMMA MoneyInvariant == TradingSpec => [](MoneyFollowsOrder /\ MoneyHasEvents /\ OneRefund)
<1>1. TradingInit => MoneyFollowsOrder /\ MoneyHasEvents /\ OneRefund
  <2> SUFFICES ASSUME TradingInit PROVE MoneyFollowsOrder /\ MoneyHasEvents /\ OneRefund
    OBVIOUS
  <2>1. \A t, o : EventsOf(t, o) = {}
    BY DEF TradingInit, EventsOf
  <2>2. \A c \in Calls : ~Refunds(c)
    BY DEF TradingInit, Refunds, Idle
  <2> QED
    BY <2>1, <2>2 DEF TradingInit, Init, MoneyFollowsOrder, MoneyHasEvents, OneRefund
<1>2. IInv /\ TradingTypeOK /\ MoneyFollowsOrder /\ MoneyHasEvents /\ OneRefund => MoneyInv
  BY DEF IInv, MoneyInv
<1> QED
  BY <1>1, <1>2, MoneyStep, StoreInvariant, TradingTypeCorrect, PTL DEF TradingSpec

\* An order is paid only after its payment was announced, a refund is made only
\* of a payment that succeeded and for an order that waits for it, and an order
\* is refunded only with a refund.
THEOREM MoneyAndOrder == TradingSpec => []MoneyFollowsOrder
BY MoneyInvariant, PTL

\* Money that came in has an event, and money that went back exactly one.
THEOREM MoneyAndEvents == TradingSpec => []EventsMatchMoney
BY MoneyInvariant, EventsCounted, PTL

-----------------------------------------------------------------------------
(***************************************************************************)
(* Seen from the money: every transaction is a step of MoneyPromise, or    *)
(* leaves the books as they are.                                           *)
(***************************************************************************)
Owed(o) == ost[o] \in {"REFUNDING", "REFUNDED"}

BooksInv == IInv /\ MoneyInv

\* Nothing in the books changes.
LEMMA BooksRest ==
    ASSUME UNCHANGED <<paid, refund>>,
           \A o \in Orders : EventsOf("payment.success", o)' # {} <=> EventsOf("payment.success", o) # {},
           \A o \in Orders : pay'[o] = "SUCCESS" <=> pay[o] = "SUCCESS",
           \A o \in Orders : Owed(o)' = Owed(o),
           \A o \in Orders : ost'[o] = "REFUNDED" <=> ost[o] = "REFUNDED"
    PROVE  UNCHANGED Books!vars
BY DEF Books!vars, Owed

LEMMA SameAnnounced ==
    ASSUME Kept, DOMAIN outbox' = DOMAIN outbox
    PROVE  \A o \in Orders : EventsOf("payment.success", o)' = EventsOf("payment.success", o)
BY SameEvents

\* The transactions beside the money let it fall due for one order at most,
\* one that is paid and neither cancelled nor refunded.
LEMMA OthersOwe ==
    ASSUME TypeOK, StoreStep \/ \E c \in Calls, p \in Orders : CancelOrder(c, p)
    PROVE  \/ \A o \in Orders : Owed(o)' = Owed(o)
           \/ \E p \in Orders :
                 /\ ost[p] \notin {"NONE", "PENDING_PAYMENT", "CANCELLED", "REFUNDING", "REFUNDED"}
                 /\ ost' = [ost EXCEPT ![p] = "REFUNDING"]
<1> DEFINE Same == \A o \in Orders : Owed(o)' = Owed(o)
           Due(p) == /\ ost[p] \notin {"NONE", "PENDING_PAYMENT", "CANCELLED",
                                       "REFUNDING", "REFUNDED"}
                     /\ ost' = [ost EXCEPT ![p] = "REFUNDING"]
<1> SUFFICES Same \/ \E p \in Orders : Due(p)
  OBVIOUS
<1>1. ASSUME NEW p \in Orders, NEW to, ~Owed(p), to \notin {"REFUNDING", "REFUNDED"},
             ost' = [ost EXCEPT ![p] = to]
      PROVE  Same
  BY <1>1 DEF TypeOK, Owed
<1>2. ASSUME NEW from, NEW to, CanTransition(from, to, "staff")
      PROVE  /\ from \notin {"NONE", "PENDING_PAYMENT", "CANCELLED", "REFUNDING", "REFUNDED"}
             /\ to # "REFUNDED"
  BY <1>2 DEF CanTransition, Transitions
<1>3. ASSUME NEW p \in Orders, NEW to, CanTransition(ost[p], to, "staff"), Advance(p, to)
      PROVE  Same \/ Due(p)
  BY <1>1, <1>2, <1>3 DEF Advance, Owed
<1>4. ASSUME NEW p \in Orders, Create(p) PROVE Same
  BY <1>1, <1>4 DEF Create, Owed
<1>5. ASSUME NEW p \in Orders, StaffRefund(p) PROVE Same \/ Due(p)
  BY <1>3, <1>5 DEF StaffRefund
<1>6. ASSUME NEW m \in Staff, NEW to \in OrderStates, Transition(m, to)
      PROVE  Same \/ Due(screen[m].order)
  BY <1>3, <1>6 DEF Transition, TypeOK, Screens
<1>7. \A m \in Staff : screen[m].order \in Orders
  BY DEF TypeOK, Screens
<1>8. ASSUME NEW w \in Workers, ReleaseCommit(w) PROVE Same
  BY <1>8 DEF ReleaseCommit, Owed
<1>9. ASSUME NEW c \in Calls, NEW p \in Orders, CancelOrder(c, p) PROVE Same \/ Due(p)
  BY <1>1, <1>9 DEF CancelOrder, CancelUnpaid, RequestCancel, CancelPaid, Advance, Owed
<1>10. ASSUME UNCHANGED ost PROVE Same
  BY <1>10 DEF Owed
<1> HIDE DEF Same, Due
<1> QED
  BY <1>4, <1>5, <1>6, <1>7, <1>8, <1>9, <1>10
  DEF StoreStep, Expire, Load, Adjust, ReleaseScan, ReleaseAbort, orderVars

LEMMA OthersKeepBooks ==
    ASSUME BooksInv, UNCHANGED <<pay, refund, outbox>>, [Next]_vars,
           StoreStep \/ \E c \in Calls, p \in Orders : CancelOrder(c, p)
    PROVE  [Books!Next]_(Books!vars)
<1>1. TypeOK /\ StockFollowsOrder
  BY DEF BooksInv, IInv
<1>2. /\ paid' = paid
      /\ \A o \in Orders : ost'[o] = "REFUNDED" <=> ost[o] = "REFUNDED"
      /\ \A o \in Orders : EventsOf("payment.success", o)' = EventsOf("payment.success", o)
  BY <1>1, OthersDoNotPay, OrdersGoOn DEF Onward, EventsOf
<1>3. CASE \A o \in Orders : Owed(o)' = Owed(o)
  BY <1>2, <1>3, BooksRest
<1>4. ASSUME NEW p \in Orders,
             ost[p] \notin {"NONE", "PENDING_PAYMENT", "CANCELLED", "REFUNDING", "REFUNDED"},
             ost' = [ost EXCEPT ![p] = "REFUNDING"]
      PROVE  Books!Next
  <2>1. paid[p] /\ ~Owed(p)
    BY <1>1, <1>4 DEF StockFollowsOrder, TypeOK, Owed
  <2>2. /\ Owed(p)'
        /\ \A o \in Orders : o # p => Owed(o)' = Owed(o)
    BY <1>1, <1>4 DEF TypeOK, Owed
  <2>3. {o \in Orders : Owed(o)}' = {o \in Orders : Owed(o)} \cup {p}
    BY <2>2
  <2>4. Books!Owe(p)
    BY <1>2, <2>1, <2>3 DEF Books!Owe, Owed
  <2> QED
    BY <2>4 DEF Books!Next
<1> QED
  BY <1>1, <1>3, <1>4, OthersOwe

LEMMA AnnouncedKeepsBooks ==
    ASSUME BooksInv, NEW o \in Orders, Announced(o)
    PROVE  [Books!Next]_(Books!vars)
<1> DEFINE said == {p \in Orders : EventsOf("payment.success", p) # {}}
           taken == {p \in Orders : pay[p] = "SUCCESS"}
<1>1. /\ pay \in [Orders -> {"NONE", "PREPAY_CREATED", "SUCCESS"}]
      /\ TradingTypeOK /\ MoneyHasEvents
  BY DEF BooksInv, MoneyInv, TradingTypeOK
<1>2. said' = said \cup {o}
  <2>1. /\ EventsOf("payment.success", o)' # {}
        /\ \A p : p # o => EventsOf("payment.success", p)' = EventsOf("payment.success", p)
    BY <1>1, AnnounceAdds
  <2> QED
    BY <2>1
<1>3. UNCHANGED <<paid, refund, ost>>
  BY DEF Announced, vars, orderVars
<1>4. CASE taken' = taken
  <2>1. CASE o \in said
    BY <1>2, <1>3, <1>4, <2>1 DEF Books!vars
  <2>2. CASE o \notin said
    <3>1. Books!AnnounceOnly(o)
      BY <1>2, <1>3, <1>4, <2>2 DEF Books!AnnounceOnly
    <3> QED
      BY <3>1 DEF Books!Next
  <2> QED
    BY <2>1, <2>2
<1>5. CASE taken' # taken
  <2>1. o \notin taken /\ taken' = taken \cup {o}
    BY <1>1, <1>5 DEF Announced
  <2>2. Books!TakeMoney(o)
    BY <1>2, <1>3, <2>1 DEF Books!TakeMoney
  <2> QED
    BY <2>2 DEF Books!Next
<1> QED
  BY <1>4, <1>5

LEMMA CallKeepsBooks ==
    ASSUME BooksInv, NEW c \in Calls, CallStep(c), [Next]_vars
    PROVE  [Books!Next]_(Books!vars)
<1>1. /\ call[c].order \in Orders
      /\ pay \in [Orders -> {"NONE", "PREPAY_CREATED", "SUCCESS"}]
      /\ refund \in [Orders -> {"NONE", "CREATED", "SUCCESS"}]
      /\ OneRefund
  BY DEF BooksInv, MoneyInv, TradingTypeOK
<1>2. ASSUME UNCHANGED <<vars, pay, refund, outbox>> PROVE UNCHANGED Books!vars
  BY <1>2, BooksRest DEF vars, Owed, EventsOf
<1>3. ASSUME NEW o \in Orders, PrepayRead(c, o) \/ ConfirmRead(c, o)
      PROVE  [Books!Next]_(Books!vars)
  BY <1>2, <1>3 DEF PrepayRead, ConfirmRead
<1>4. ASSUME NEW o \in Orders, CancelOrder(c, o) PROVE [Books!Next]_(Books!vars)
  BY <1>4, OthersKeepBooks DEF CancelOrder
<1>5. CASE PrepayInsert(c)
  <2>1. \A o \in Orders : pay'[o] = "SUCCESS" <=> pay[o] = "SUCCESS"
    BY <1>1, <1>5 DEF PrepayInsert
  <2> QED
    BY <1>5, <2>1, BooksRest DEF PrepayInsert, vars, Owed, EventsOf
<1>6. CASE ConfirmCommit(c)
  BY <1>1, <1>6, AnnouncedKeepsBooks DEF ConfirmCommit, MarkPaid, Announced
<1>7. CASE RefundCreate(c)
  <2>1. PICK o \in Orders : o = call[c].order
    BY <1>1
  <2>2. refund[o] = "NONE" /\ Owed(o)
    BY <1>1, <1>7, <2>1 DEF RefundCreate, Refunds, OneRefund, Owed
  <2>3. CASE pay[o] = "SUCCESS"
    <3>1. refund' = [refund EXCEPT ![o] = "CREATED"] /\ UNCHANGED <<vars, pay, outbox>>
      BY <1>7, <2>1, <2>2, <2>3 DEF RefundCreate
    <3>2. /\ {p \in Orders : refund'[p] # "NONE"} = {p \in Orders : refund[p] # "NONE"} \cup {o}
          /\ {p \in Orders : refund'[p] = "SUCCESS"} = {p \in Orders : refund[p] = "SUCCESS"}
      BY <1>1, <2>2, <3>1
    <3>3. Books!BeginReturn(o)
      BY <2>2, <2>3, <3>1, <3>2 DEF Books!BeginReturn, vars, Owed, EventsOf
    <3> QED
      BY <3>3 DEF Books!Next
  <2>4. CASE pay[o] # "SUCCESS"
    BY <1>2, <1>7, <2>1, <2>4 DEF RefundCreate
  <2> QED
    BY <2>3, <2>4
<1>8. CASE RefundSettle(c)
  <2>1. PICK o \in Orders : o = call[c].order
    BY <1>1
  <2>2. refund[o] = "CREATED"
    BY <1>1, <1>8, <2>1 DEF RefundSettle, Refunds, OneRefund
  <2>3. refund' = [refund EXCEPT ![o] = "SUCCESS"] /\ UNCHANGED <<vars, pay>>
    BY <1>8, <2>1 DEF RefundSettle
  <2>4. /\ {p \in Orders : refund'[p] # "NONE"} = {p \in Orders : refund[p] # "NONE"}
        /\ {p \in Orders : refund'[p] = "SUCCESS"} = {p \in Orders : refund[p] = "SUCCESS"} \cup {o}
    BY <1>1, <2>2, <2>3
  <2>5. {p \in Orders : EventsOf("payment.success", p) # {}}'
            = {p \in Orders : EventsOf("payment.success", p) # {}}
    <3>1. outbox' = Append(outbox, Event("refund.success", o)) /\ TradingTypeOK
      BY <1>8, <2>1 DEF RefundSettle, BooksInv, MoneyInv
    <3>2. \A p : EventsOf("payment.success", p)' = EventsOf("payment.success", p)
      BY <3>1, OneMoreEvent
    <3> QED
      BY <3>2
  <2>6. Books!GiveBack(o)
    BY <2>2, <2>3, <2>4, <2>5 DEF Books!GiveBack, vars
  <2> QED
    BY <2>6 DEF Books!Next
<1>9. CASE CallDies(c)
  BY <1>2, <1>9 DEF CallDies
<1> QED
  BY <1>3, <1>4, <1>5, <1>6, <1>7, <1>8, <1>9 DEF CallStep

LEMMA WorkerKeepsBooks ==
    ASSUME BooksInv, NEW w \in Workers, WorkerStep(w)
    PROVE  [Books!Next]_(Books!vars)
<1>1. /\ TradingTypeOK /\ TypeOK /\ MoneyHasEvents /\ StockFollowsOrder
      /\ ost \in [Orders -> OrderStates] /\ paid \in [Orders -> BOOLEAN]
  BY DEF BooksInv, IInv, MoneyInv, TypeOK
<1>2. ASSUME UNCHANGED <<vars, pay, refund>>, Kept, DOMAIN outbox' = DOMAIN outbox
      PROVE  UNCHANGED Books!vars
  BY <1>2, SameAnnounced, BooksRest DEF vars, Owed
<1>3. ASSUME HandlePayment(w) \/ HandleRefund(w)
      PROVE  LET e == outbox[First(w).id] IN
             /\ e.order \in Orders
             /\ e.type = "payment.success" => EventsOf("payment.success", e.order) # {}
             /\ e.type = "refund.success" => refund[e.order] = "SUCCESS"
  <2>1. First(w).id \in DOMAIN outbox /\ outbox[First(w).id] \in Rows
    BY <1>1, <1>3, FirstIsClaimed DEF HandlePayment, HandleRefund, Handling
  <2>2. PICK i, e : i = First(w).id /\ e = outbox[i]
    OBVIOUS
  <2>3. e.order \in Orders /\ i \in EventsOf(e.type, e.order)
    BY <2>1, <2>2 DEF Rows, EventsOf
  <2>4. /\ e.type = "payment.success" => EventsOf("payment.success", e.order) # {}
        /\ e.type = "refund.success" => refund[e.order] = "SUCCESS"
    BY <1>1, <2>3 DEF MoneyHasEvents
  <2> QED
    BY <2>2, <2>3, <2>4
<1>4. CASE HandlePayment(w)
  <2>1. PICK o \in Orders : o = outbox[First(w).id].order
    BY <1>3, <1>4
  <2>2. /\ EventsOf("payment.success", o) # {} /\ PaymentSuccess(o)
        /\ UNCHANGED <<pay, refund, outbox>>
    BY <1>3, <1>4, <2>1 DEF HandlePayment
  <2>3. CASE ost[o] = "PENDING_PAYMENT"
    <3>1. /\ ost' = [ost EXCEPT ![o] = "PAID"] /\ paid' = [paid EXCEPT ![o] = TRUE]
          /\ ~paid[o]
      BY <1>1, <2>2, <2>3 DEF PaymentSuccess, Advance, StockFollowsOrder
    <3>2. {p \in Orders : paid'[p]} = {p \in Orders : paid[p]} \cup {o}
      BY <1>1, <3>1
    <3>3. /\ {p \in Orders : ost'[p] \in {"REFUNDING", "REFUNDED"}}
                = {p \in Orders : ost[p] \in {"REFUNDING", "REFUNDED"}}
          /\ {p \in Orders : ost'[p] = "REFUNDED"} = {p \in Orders : ost[p] = "REFUNDED"}
      BY <1>1, <2>3, <3>1
    <3>4. Books!Book(o)
      BY <2>2, <3>1, <3>2, <3>3 DEF Books!Book, EventsOf
    <3> QED
      BY <3>4 DEF Books!Next
  <2>4. CASE ost[o] # "PENDING_PAYMENT"
    BY <2>2, <2>4, BooksRest DEF PaymentSuccess, Owed, EventsOf
  <2> QED
    BY <2>3, <2>4
<1>5. CASE HandleRefund(w)
  <2>1. PICK o \in Orders : o = outbox[First(w).id].order
    BY <1>3, <1>5
  <2>2. /\ refund[o] = "SUCCESS" /\ UNCHANGED <<pay, refund, outbox>>
        /\ MarkRefunded(o) \/ UNCHANGED vars
    BY <1>3, <1>5, <2>1 DEF HandleRefund
  <2>3. CASE MarkRefunded(o)
    <3>1. ost[o] = "REFUNDING" /\ ost' = [ost EXCEPT ![o] = "REFUNDED"] /\ paid' = paid
      BY <2>3 DEF MarkRefunded, Advance
    <3>2. /\ {p \in Orders : ost'[p] = "REFUNDED"} = {p \in Orders : ost[p] = "REFUNDED"} \cup {o}
          /\ \A p \in Orders : Owed(p)' = Owed(p)
      BY <1>1, <3>1 DEF Owed
    <3>3. Books!Settle(o)
      BY <2>2, <3>1, <3>2 DEF Books!Settle, Owed, EventsOf
    <3> QED
      BY <3>3 DEF Books!Next
  <2>4. CASE UNCHANGED vars
    BY <1>2, <2>2, <2>4 DEF Kept
  <2> QED
    BY <2>2, <2>3, <2>4
<1>6. CASE Claim(w)
  BY <1>1, <1>2, <1>6, ClaimKeeps DEF Claim
<1>7. CASE MarkEvent(w)
  BY <1>1, <1>2, <1>7, MarkEventIs, ChangeKeeps DEF MarkEvent
<1>8. CASE HandleFails(w) \/ MarkLost(w) \/ WorkerDies(w)
  BY <1>2, <1>8 DEF HandleFails, MarkLost, WorkerDies, Kept
<1> QED
  BY <1>4, <1>5, <1>6, <1>7, <1>8 DEF WorkerStep

LEMMA BooksStep == BooksInv /\ [TradingNext]_allVars => [Books!Next]_(Books!vars)
<1> SUFFICES ASSUME BooksInv, [TradingNext]_allVars PROVE [Books!Next]_(Books!vars)
  OBVIOUS
<1>1. [Next]_vars
  BY TradingStepIsNext DEF BooksInv, MoneyInv
<1>2. ASSUME UNCHANGED <<vars, pay, refund>>, Kept, DOMAIN outbox' = DOMAIN outbox
      PROVE  UNCHANGED Books!vars
  BY <1>2, SameAnnounced, BooksRest DEF vars, Owed
<1>3. CASE StoreStep
  BY <1>1, <1>3, OthersKeepBooks DEF StoreStep, tradeVars
<1>4. ASSUME NEW o \in Orders, NEW id, WechatPayTransaction(o, id) PROVE [Books!Next]_(Books!vars)
  BY <1>4, ReportAnnounces, AnnouncedKeepsBooks
<1>5. ASSUME NEW i \in DOMAIN outbox, BecomeDue(i) PROVE [Books!Next]_(Books!vars)
  BY <1>2, <1>5, DueKeeps DEF BecomeDue, BooksInv, MoneyInv
<1>6. CASE UNCHANGED allVars
  BY <1>2, <1>6 DEF allVars, tradeVars, Kept
<1> QED
  BY <1>1, <1>3, <1>4, <1>5, <1>6, CallKeepsBooks, WorkerKeepsBooks DEF TradingNext

\* The money of every order goes the way of MoneyPromise, for any number of
\* orders, requests, workers, reports of the provider and crashes.
THEOREM KeepsMoneyPromise == TradingSpec => ImplementsMoneyPromise
<1>1. TradingInit => Books!Init
  BY DEF TradingInit, Init, Books!Init, EventsOf
<1>2. IInv /\ TradingTypeOK /\ MoneyFollowsOrder /\ MoneyHasEvents /\ OneRefund => BooksInv
  BY DEF IInv, MoneyInv, BooksInv
<1> QED
  BY <1>1, <1>2, BooksStep, StoreInvariant, TradingTypeCorrect, MoneyInvariant, PTL
  DEF TradingSpec, ImplementsMoneyPromise, Books!Spec

-----------------------------------------------------------------------------
(***************************************************************************)
(* What is left to the worker's fairness in MoneyTakesEffect.              *)
(***************************************************************************)
\* Money that came in and has not reached its order, and money that went back
\* and has not closed it, has an event that is still to be handled or was
\* given up: nothing marks it SENT before it took effect, and no crash of a
\* worker, no repeated delivery and no lost mark makes it forgotten.
MoneyRemembered ==
    \A o \in Orders :
        /\ pay[o] = "SUCCESS" /\ ost[o] \in {"NONE", "PENDING_PAYMENT"} =>
              \E i \in EventsOf("payment.success", o) : outbox[i].status # "SENT"
        /\ refund[o] = "SUCCESS" /\ ost[o] # "REFUNDED" =>
              \E i \in EventsOf("refund.success", o) : outbox[i].status # "SENT"

THEOREM MoneyIsRemembered == TradingSpec => []MoneyRemembered
<1>1. SentIsDone /\ MoneyHasEvents => MoneyRemembered
  <2> SUFFICES ASSUME SentIsDone, MoneyHasEvents, NEW o \in Orders
               PROVE  /\ pay[o] = "SUCCESS" /\ ost[o] \in {"NONE", "PENDING_PAYMENT"} =>
                            \E i \in EventsOf("payment.success", o) : outbox[i].status # "SENT"
                      /\ refund[o] = "SUCCESS" /\ ost[o] # "REFUNDED" =>
                            \E i \in EventsOf("refund.success", o) : outbox[i].status # "SENT"
    BY DEF MoneyRemembered
  <2>1. ASSUME NEW type, NEW i \in EventsOf(type, o)
        PROVE  i \in DOMAIN outbox /\ outbox[i].type = type /\ outbox[i].order = o
    BY <2>1 DEF EventsOf
  <2>2. ASSUME pay[o] = "SUCCESS", ost[o] \in {"NONE", "PENDING_PAYMENT"}
        PROVE  \E i \in EventsOf("payment.success", o) : outbox[i].status # "SENT"
    <3>1. PICK i : i \in EventsOf("payment.success", o)
      BY <2>2 DEF MoneyHasEvents
    <3> QED
      BY <2>1, <2>2, <3>1 DEF SentIsDone
  <2>3. ASSUME refund[o] = "SUCCESS", ost[o] # "REFUNDED"
        PROVE  \E i \in EventsOf("refund.success", o) : outbox[i].status # "SENT"
    <3>1. PICK i : i \in EventsOf("refund.success", o)
      BY <2>3 DEF MoneyHasEvents
    <3> QED
      BY <2>1, <2>3, <3>1 DEF SentIsDone
  <2> QED
    BY <2>2, <2>3
<1> QED
  BY <1>1, SentAreDone, MoneyInvariant, PTL

(***************************************************************************)
(* How many events there can be.  A confirmation reads the payment open,   *)
(* so once the payment succeeded only the requests under way may still add *)
(* an event, and the provider while there are few.                         *)
(***************************************************************************)
Confirming(o) == {c \in Calls : call[c].op = "confirm" /\ call[c].order = o}

EventsBounded ==
    \A o \in Orders :
        Cardinality(EventsOf("payment.success", o)) + Cardinality(Confirming(o))
            <= MaxDeliveries + Cardinality(Calls)

\* Only the provider announces a payment that has not succeeded.
FewUnpaid ==
    \A o \in Orders :
        pay[o] # "SUCCESS" => Cardinality(EventsOf("payment.success", o)) <= MaxDeliveries

BoundInv == MoneyInv /\ EventsBounded /\ FewUnpaid

\* Events and requests are counted.
LEMMA EventsAreFinite ==
    ASSUME TradingTypeOK, IsFiniteSet(Calls), NEW type, NEW o
    PROVE  /\ IsFiniteSet(EventsOf(type, o)) /\ Cardinality(EventsOf(type, o)) \in Nat
           /\ IsFiniteSet(Confirming(o)) /\ Cardinality(Confirming(o)) \in Nat
           /\ Cardinality(Confirming(o)) <= Cardinality(Calls)
           /\ Cardinality(Calls) \in Nat
<1>1. outbox \in Seq(Rows)
  BY DEF TradingTypeOK
<1>2. EventsOf(type, o) \subseteq 1..Len(outbox) /\ Len(outbox) \in Nat
  BY <1>1 DEF EventsOf
<1>3. IsFiniteSet(1..Len(outbox))
  BY <1>2, FS_Interval
<1>4. IsFiniteSet(EventsOf(type, o))
  BY <1>2, <1>3, FS_Subset
<1>5. Confirming(o) \in SUBSET Calls
  BY DEF Confirming
<1> QED
  BY <1>4, <1>5, FS_Subset, FS_CardinalityType

\* No event of the payment is written and no confirmation begun.
LEMMA BoundRests ==
    ASSUME BoundInv, TradingTypeOK', IsFiniteSet(Calls),
           \A o \in Orders : EventsOf("payment.success", o)' = EventsOf("payment.success", o),
           \A o \in Orders : Confirming(o)' \subseteq Confirming(o)
    PROVE  EventsBounded'
<1> SUFFICES ASSUME NEW o \in Orders
             PROVE  Cardinality(EventsOf("payment.success", o))' + Cardinality(Confirming(o))'
                        <= MaxDeliveries + Cardinality(Calls)
  BY DEF EventsBounded
<1> DEFINE e == Cardinality(EventsOf("payment.success", o))
           k == Cardinality(Confirming(o))
<1>1. TradingTypeOK /\ MaxDeliveries \in Nat
  BY TradingAssumption DEF BoundInv, MoneyInv, TradingAssumption
<1>2. e' = e
  OBVIOUS
<1>3. k' \in Nat /\ k' <= k
  <2>1. IsFiniteSet(Confirming(o))
    BY <1>1, EventsAreFinite
  <2>2. PICK S \in SUBSET Confirming(o) : S = Confirming(o)'
    OBVIOUS
  <2>3. Cardinality(S) <= k /\ Cardinality(S) \in Nat
    BY <2>1, FS_Subset, FS_CardinalityType
  <2>4. k' = Cardinality(S)
    BY <2>2
  <2> QED
    BY <2>3, <2>4
<1>4. e \in Nat /\ k \in Nat /\ Cardinality(Calls) \in Nat
  BY <1>1, EventsAreFinite
<1>5. e + k <= MaxDeliveries + Cardinality(Calls)
  BY DEF BoundInv, EventsBounded
<1> HIDE DEF e, k
<1>6. e' + k' <= MaxDeliveries + Cardinality(Calls)
  BY <1>1, <1>2, <1>3, <1>4, <1>5
<1> QED
  BY <1>6 DEF e, k

\* The payment of o gets an event: from a confirmation, which is over then,
\* or while there are few.
LEMMA BoundOnPayment ==
    ASSUME BoundInv, TradingTypeOK', IsFiniteSet(Calls), NEW o \in Orders, Announced(o),
           \A p \in Orders : Confirming(p)' \subseteq Confirming(p),
           \/ Cardinality(EventsOf("payment.success", o)) < MaxDeliveries
           \/ \E c \in Confirming(o) : Confirming(o)' = Confirming(o) \ {c}
    PROVE  EventsBounded'
<1>1. /\ TradingTypeOK /\ MaxDeliveries \in Nat
      /\ EventsBounded
  BY TradingAssumption DEF BoundInv, MoneyInv, TradingAssumption
<1>2. PICK n : /\ EventsOf("payment.success", o)' = EventsOf("payment.success", o) \cup {n}
               /\ \A p : p # o => EventsOf("payment.success", p)' = EventsOf("payment.success", p)
  BY <1>1, AnnounceAdds
<1> DEFINE e(p) == Cardinality(EventsOf("payment.success", p))
           k(p) == Cardinality(Confirming(p))
<1>3. \A p : e(p) \in Nat /\ k(p) \in Nat /\ k(p) <= Cardinality(Calls)
      /\ IsFiniteSet(EventsOf("payment.success", p)) /\ IsFiniteSet(Confirming(p))
  BY <1>1, EventsAreFinite
<1>4. Cardinality(Calls) \in Nat
  BY FS_CardinalityType
<1>5. \A p \in Orders : k(p)' \in Nat /\ k(p)' <= k(p)
  <2> SUFFICES ASSUME NEW p \in Orders PROVE k(p)' \in Nat /\ k(p)' <= k(p)
    OBVIOUS
  <2>1. PICK S \in SUBSET Confirming(p) : S = Confirming(p)'
    OBVIOUS
  <2>2. Cardinality(S) <= k(p) /\ Cardinality(S) \in Nat
    BY <1>3, FS_Subset, FS_CardinalityType
  <2>3. k(p)' = Cardinality(S)
    BY <2>1
  <2> QED
    BY <2>2, <2>3
<1>6. e(o)' \in Nat /\ e(o)' <= e(o) + 1
  <2>1. PICK E : E = EventsOf("payment.success", o)
    OBVIOUS
  <2>2. IsFiniteSet(E) /\ Cardinality(E) \in Nat /\ e(o) = Cardinality(E)
    BY <1>3, <2>1
  <2>3. /\ Cardinality(E \cup {n}) = IF n \in E THEN Cardinality(E) ELSE Cardinality(E) + 1
    BY <2>2, FS_AddElement
  <2>4. e(o)' = Cardinality(E \cup {n})
    BY <1>2, <2>1
  <2> QED
    BY <2>2, <2>3, <2>4
<1>7. \A p \in Orders : e(p) + k(p) <= MaxDeliveries + Cardinality(Calls)
  BY <1>1 DEF EventsBounded
<1>8. ASSUME NEW c \in Confirming(o), Confirming(o)' = Confirming(o) \ {c}
      PROVE  k(o)' + 1 = k(o)
  <2>1. Cardinality(Confirming(o) \ {c}) = k(o) - 1
    BY <1>3, FS_RemoveElement
  <2>2. k(o)' = Cardinality(Confirming(o) \ {c})
    BY <1>8
  <2> QED
    BY <1>3, <2>1, <2>2
<1>9. ASSUME NEW p \in Orders PROVE e(p)' + k(p)' <= MaxDeliveries + Cardinality(Calls)
  <2>1. CASE p # o
    <3>1. e(p)' = e(p)
      BY <1>2, <2>1
    <3> HIDE DEF e, k
    <3> QED
      BY <1>1, <1>3, <1>4, <1>5, <1>7, <3>1
  <2>2. CASE p = o
    <3>1. CASE e(o) < MaxDeliveries
      <4> HIDE DEF e, k
      <4> QED
        BY <1>1, <1>3, <1>4, <1>5, <1>6, <2>2, <3>1
    <3>2. CASE k(o)' + 1 = k(o)
      <4> HIDE DEF e, k
      <4> QED
        BY <1>1, <1>3, <1>4, <1>5, <1>6, <1>7, <2>2, <3>2
    <3> QED
      BY <1>8, <3>1, <3>2
  <2> QED
    BY <2>1, <2>2
<1> QED
  BY <1>9 DEF EventsBounded

LEMMA BoundStep ==
    ASSUME BoundInv, IsFiniteSet(Calls), [TradingNext]_allVars
    PROVE  EventsBounded'
<1>1. /\ TradingTypeOK /\ MoneyHasEvents /\ MaxDeliveries \in Nat
      /\ call \in [Calls -> [op : Ops, order : Orders]]
  BY TradingAssumption DEF BoundInv, MoneyInv, TradingTypeOK, TradingAssumption
<1>2. TradingTypeOK'
  BY <1>1, TypeStep
<1>3. ASSUME UNCHANGED outbox, \A o \in Orders : Confirming(o)' \subseteq Confirming(o)
      PROVE  EventsBounded'
  BY <1>2, <1>3, BoundRests DEF EventsOf
<1>4. ASSUME UNCHANGED call PROVE \A o \in Orders : Confirming(o)' \subseteq Confirming(o)
  BY <1>4 DEF Confirming
<1>5. ASSUME NEW c \in Calls, NEW op, op # "confirm", NEW p, Request(c, op, p) \/ Done(c)
      PROVE  \A o \in Orders : Confirming(o)' \subseteq Confirming(o) \ {c}
  BY <1>1, <1>5 DEF Request, Done, Idle, Confirming
<1>6. ASSUME UNCHANGED call, Kept, DOMAIN outbox' = DOMAIN outbox PROVE EventsBounded'
  BY <1>2, <1>4, <1>6, SameEvents, BoundRests
<1>7. CASE StoreStep \/ UNCHANGED allVars
  BY <1>3, <1>4, <1>7 DEF StoreStep, allVars, tradeVars
<1>8. ASSUME NEW o \in Orders, NEW id, WechatPayTransaction(o, id) PROVE EventsBounded'
  BY <1>2, <1>4, <1>8, ReportAnnounces, BoundOnPayment
<1>9. ASSUME NEW i \in DOMAIN outbox, BecomeDue(i) PROVE EventsBounded'
  BY <1>1, <1>6, <1>9, DueKeeps DEF BecomeDue
<1>10. ASSUME NEW c \in Calls, CallStep(c) PROVE EventsBounded'
  <2>1. CASE \E o \in Orders : PrepayRead(c, o) \/ CancelOrder(c, o)
    BY <1>3, <1>4, <1>5, <2>1 DEF PrepayRead, CancelOrder
  <2>2. CASE PrepayInsert(c) \/ RefundCreate(c) \/ CallDies(c)
    <3>1. "settle" # "confirm"
      OBVIOUS
    <3> QED
      BY <1>3, <1>5, <2>2, <3>1 DEF PrepayInsert, RefundCreate, CallDies
  <2>3. CASE ConfirmCommit(c)
    <3>1. PICK o \in Orders : o = call[c].order
      BY <1>1
    <3>2. c \in Confirming(o) /\ Announced(o) /\ Done(c)
      BY <2>3, <3>1 DEF ConfirmCommit, Confirming, MarkPaid, Announced
    <3>3. Confirming(o)' = Confirming(o) \ {c}
      BY <1>1, <3>2 DEF Done, Idle, Confirming
    <3>4. \A q \in Orders : Confirming(q)' \subseteq Confirming(q)
      BY <1>1, <3>2 DEF Done, Idle, Confirming
    <3> QED
      BY <1>2, <3>2, <3>3, <3>4, BoundOnPayment
  <2>4. CASE RefundSettle(c)
    <3>1. \A q \in Orders : Confirming(q)' \subseteq Confirming(q)
      BY <1>1, <2>4 DEF RefundSettle, Done, Idle, Confirming
    <3>2. outbox' = Append(outbox, Event("refund.success", call[c].order)) /\ call[c].order \in Orders
      BY <1>1, <2>4 DEF RefundSettle
    <3>3. \A q \in Orders : EventsOf("payment.success", q)' = EventsOf("payment.success", q)
      BY <1>1, <3>2, OneMoreEvent
    <3> QED
      BY <1>2, <3>1, <3>3, BoundRests
  <2>5. ASSUME NEW o \in Orders, ConfirmRead(c, o) PROVE EventsBounded'
    <3>1. /\ pay[o] # "SUCCESS" /\ UNCHANGED outbox
          /\ \A q \in Orders : q # o => Confirming(q)' \subseteq Confirming(q)
      BY <1>1, <2>5 DEF ConfirmRead, Request, Confirming
    <3>2. \A q : EventsOf("payment.success", q)' = EventsOf("payment.success", q)
      BY <3>1 DEF EventsOf
    <3>3. ASSUME NEW q \in Orders
          PROVE  Cardinality(EventsOf("payment.success", q))' + Cardinality(Confirming(q))'
                     <= MaxDeliveries + Cardinality(Calls)
      <4> DEFINE e == Cardinality(EventsOf("payment.success", q))
                 k == Cardinality(Confirming(q))
      <4>1. e' = e
        BY <3>2
      <4>2. PICK S : S = Confirming(q)'
        OBVIOUS
      <4>3. k' = Cardinality(S) /\ S \subseteq Calls
        BY <4>2 DEF Confirming
      <4>4. e \in Nat /\ k \in Nat /\ Cardinality(Calls) \in Nat
            /\ IsFiniteSet(Confirming(q))
        BY <1>1, EventsAreFinite
      <4>5. Cardinality(S) \in Nat /\ Cardinality(S) <= Cardinality(Calls)
        BY <4>3, FS_Subset, FS_CardinalityType
      <4>6. CASE q = o
        <5>1. e <= MaxDeliveries
          BY <3>1, <4>6 DEF BoundInv, FewUnpaid
        <5> HIDE DEF e, k
        <5>2. e' + k' <= MaxDeliveries + Cardinality(Calls)
          BY <1>1, <4>1, <4>3, <4>4, <4>5, <5>1
        <5> QED
          BY <5>2 DEF e, k
      <4>7. CASE q # o
        <5>1. S \in SUBSET Confirming(q)
          BY <3>1, <4>2, <4>7
        <5>2. Cardinality(S) <= k
          BY <4>4, <5>1, FS_Subset
        <5>3. e + k <= MaxDeliveries + Cardinality(Calls)
          BY DEF BoundInv, EventsBounded
        <5> HIDE DEF e, k
        <5>4. e' + k' <= MaxDeliveries + Cardinality(Calls)
          BY <1>1, <4>1, <4>3, <4>4, <4>5, <5>2, <5>3
        <5> QED
          BY <5>4 DEF e, k
      <4> QED
        BY <4>6, <4>7
    <3> QED
      BY <3>3 DEF EventsBounded
  <2> QED
    BY <1>10, <2>1, <2>2, <2>3, <2>4, <2>5 DEF CallStep
<1>11. ASSUME NEW w \in Workers, WorkerStep(w) PROVE EventsBounded'
  <2>1. CASE Claim(w)
    BY <1>1, <1>6, <2>1, ClaimKeeps DEF Claim
  <2>2. CASE MarkEvent(w)
    BY <1>1, <1>6, <2>2, MarkEventIs, ChangeKeeps DEF MarkEvent
  <2> QED
    BY <1>3, <1>4, <1>11, <2>1, <2>2
    DEF WorkerStep, HandlePayment, HandleRefund, HandleFails, MarkLost, WorkerDies
<1> QED
  BY <1>7, <1>8, <1>9, <1>10, <1>11 DEF TradingNext

LEMMA UnpaidStep ==
    ASSUME BoundInv, IsFiniteSet(Calls), [TradingNext]_allVars
    PROVE  FewUnpaid'
<1>1. /\ TradingTypeOK /\ MaxDeliveries \in Nat
      /\ call \in [Calls -> [op : Ops, order : Orders]]
      /\ pay \in [Orders -> {"NONE", "PREPAY_CREATED", "SUCCESS"}]
  BY TradingAssumption DEF BoundInv, MoneyInv, TradingTypeOK, TradingAssumption
<1>2. ASSUME \A o \in Orders : pay[o] = "SUCCESS" => pay'[o] = "SUCCESS",
             \A o \in Orders : pay'[o] # "SUCCESS" =>
                EventsOf("payment.success", o)' = EventsOf("payment.success", o)
      PROVE  FewUnpaid'
  BY <1>2 DEF BoundInv, FewUnpaid
<1>3. ASSUME UNCHANGED <<pay, outbox>> PROVE FewUnpaid'
  BY <1>2, <1>3 DEF EventsOf
<1>4. ASSUME UNCHANGED pay, Kept, DOMAIN outbox' = DOMAIN outbox PROVE FewUnpaid'
  BY <1>2, <1>4, SameAnnounced
<1>5. ASSUME NEW o \in Orders, NEW id, WechatPayTransaction(o, id) PROVE FewUnpaid'
  <2>1. /\ Announced(o) /\ Cardinality(EventsOf("payment.success", o)) < MaxDeliveries
    BY <1>5, ReportAnnounces
  <2>2. PICK n : /\ EventsOf("payment.success", o)' = EventsOf("payment.success", o) \cup {n}
                 /\ \A p : p # o => EventsOf("payment.success", p)' = EventsOf("payment.success", p)
    BY <1>1, <2>1, AnnounceAdds
  <2>3. Cardinality(EventsOf("payment.success", o))' <= MaxDeliveries
    <3>1. PICK E : E = EventsOf("payment.success", o)
      OBVIOUS
    <3>2. IsFiniteSet(E) /\ Cardinality(E) \in Nat /\ Cardinality(E) < MaxDeliveries
      BY <1>1, <2>1, <3>1, EventsAreFinite
    <3>3. Cardinality(E \cup {n}) \in {Cardinality(E), Cardinality(E) + 1}
      BY <3>2, FS_AddElement
    <3>4. Cardinality(EventsOf("payment.success", o))' = Cardinality(E \cup {n})
      BY <2>2, <3>1
    <3> QED
      BY <1>1, <3>2, <3>3, <3>4
  <2>4. \A p \in Orders : p # o => pay'[p] = pay[p]
    BY <1>1, <2>1 DEF Announced
  <2> QED
    BY <2>2, <2>3, <2>4 DEF BoundInv, FewUnpaid
<1>6. ASSUME NEW c \in Calls, CallStep(c) PROVE FewUnpaid'
  <2>1. call[c].order \in Orders
    BY <1>1
  <2>2. CASE PrepayInsert(c)
    BY <1>1, <1>2, <2>1, <2>2 DEF PrepayInsert, EventsOf
  <2>3. CASE ConfirmCommit(c)
    <3>1. PICK o \in Orders : o = call[c].order
      BY <2>1
    <3>2. /\ pay' = [pay EXCEPT ![o] = "SUCCESS"]
          /\ outbox' = Append(outbox, Event("payment.success", o))
      BY <2>3, <3>1 DEF ConfirmCommit, MarkPaid, Announce
    <3>3. \A p : p # o => EventsOf("payment.success", p)' = EventsOf("payment.success", p)
      BY <1>1, <3>2, OneMoreEvent
    <3>4. \A p \in Orders : pay'[p] # "SUCCESS" => p # o
      BY <1>1, <3>2
    <3> QED
      BY <1>1, <1>2, <3>2, <3>3, <3>4
  <2>4. CASE RefundSettle(c)
    <3>1. outbox' = Append(outbox, Event("refund.success", call[c].order)) /\ UNCHANGED pay
      BY <2>4 DEF RefundSettle
    <3>2. \A p : EventsOf("payment.success", p)' = EventsOf("payment.success", p)
      BY <1>1, <2>1, <3>1, OneMoreEvent
    <3> QED
      BY <1>2, <3>1, <3>2
  <2> QED
    BY <1>3, <1>6, <2>2, <2>3, <2>4
    DEF CallStep, PrepayRead, ConfirmRead, CancelOrder, RefundCreate, CallDies
<1>7. ASSUME NEW w \in Workers, WorkerStep(w) PROVE FewUnpaid'
  <2>1. CASE Claim(w)
    BY <1>1, <1>4, <2>1, ClaimKeeps DEF Claim
  <2>2. CASE MarkEvent(w)
    BY <1>1, <1>4, <2>2, MarkEventIs, ChangeKeeps DEF MarkEvent
  <2> QED
    BY <1>3, <1>7, <2>1, <2>2
    DEF WorkerStep, HandlePayment, HandleRefund, HandleFails, MarkLost, WorkerDies
<1>8. ASSUME NEW i \in DOMAIN outbox, BecomeDue(i) PROVE FewUnpaid'
  BY <1>1, <1>4, <1>8, DueKeeps DEF BecomeDue
<1> QED
  BY <1>3, <1>5, <1>6, <1>7, <1>8 DEF TradingNext, StoreStep, tradeVars, allVars

\* A set whose members number k at most is counted with 1..k.
LEMMA NumberedWithin ==
    ASSUME NEW S, IsFiniteSet(S), NEW k \in Nat, Cardinality(S) <= k
    PROVE  \E g \in [S -> 1..k] : \A x, y \in S : g[x] = g[y] => x = y
<1>1. PICK f : f \in Bijection(1..Cardinality(S), S)
  BY FS_CardinalityType DEF ExistsBijection
<1>2. Cardinality(S) \in Nat
  BY FS_CardinalityType
<1> DEFINE n == Cardinality(S)
           g == [x \in S |-> CHOOSE i \in 1..n : f[i] = x]
<1>3. \A x \in S : \E i \in 1..n : f[i] = x
  BY <1>1 DEF Bijection, Surjection
<1> HIDE DEF n
<1>4. \A x \in S : g[x] \in 1..n /\ f[g[x]] = x
  BY <1>3
<1>5. 1..n \subseteq 1..k
  BY <1>2 DEF n
<1>6. g \in [S -> 1..k]
  BY <1>4, <1>5
<1> HIDE DEF g
<1>7. \A x, y \in S : g[x] = g[y] => x = y
  BY <1>4
<1> QED
  BY <1>6, <1>7

\* The outbox holds the events of the orders and no more.
LEMMA OutboxIsCounted ==
    ASSUME TradingTypeOK, MoneyHasEvents, EventsBounded, IsFiniteSet(Calls)
    PROVE  DOMAIN outbox \subseteq EventIds
<1> DEFINE K == MaxDeliveries + Cardinality(Calls) + 1
           Of(o) == {i \in DOMAIN outbox : outbox[i].order = o}
<1>1. /\ outbox \in Seq(Rows) /\ MaxDeliveries \in Nat /\ Cardinality(Calls) \in Nat
      /\ IsFiniteSet(Orders)
  BY TradingAssumption, OrderStoreAssumption, FS_CardinalityType
  DEF TradingTypeOK, TradingAssumption, OrderStoreAssumption
<1>2. /\ DOMAIN outbox = 1..Len(outbox) /\ Len(outbox) \in Nat /\ K \in Nat
      /\ \A i \in DOMAIN outbox : outbox[i] \in Rows
  BY <1>1
<1>3. ASSUME NEW o \in Orders PROVE IsFiniteSet(Of(o)) /\ Cardinality(Of(o)) <= K
  <2>1. PICK P, R : P = EventsOf("payment.success", o) /\ R = EventsOf("refund.success", o)
    OBVIOUS
  <2>2. /\ IsFiniteSet(P) /\ IsFiniteSet(R) /\ Cardinality(P) \in Nat
        /\ Cardinality(Confirming(o)) \in Nat
    BY <2>1, EventsAreFinite
  <2>3. Cardinality(P) <= MaxDeliveries + Cardinality(Calls)
    <3>1. Cardinality(P) + Cardinality(Confirming(o)) <= MaxDeliveries + Cardinality(Calls)
      BY <2>1 DEF EventsBounded
    <3> QED
      BY <1>1, <2>2, <3>1
  <2>4. Cardinality(R) \in {0, 1}
    BY <2>1, EventsCounted DEF EventsMatchMoney
  <2>5. Of(o) = P \cup R
    <3>1. \A i \in DOMAIN outbox : outbox[i].type \in {"payment.success", "refund.success"}
      BY <1>2 DEF Rows
    <3> QED
      BY <2>1, <3>1 DEF EventsOf
  <2>6. /\ IsFiniteSet(P \cup R) /\ Cardinality(P \cap R) \in Nat
        /\ Cardinality(P \cup R) = Cardinality(P) + Cardinality(R) - Cardinality(P \cap R)
    BY <2>2, FS_Union, FS_Intersection, FS_CardinalityType
  <2>7. Cardinality(P \cup R) <= K
    BY <1>1, <2>2, <2>3, <2>4, <2>6
  <2> QED
    BY <2>5, <2>6, <2>7
<1> HIDE DEF K, Of
<1> DEFINE numbers(o) == CHOOSE g \in [Of(o) -> 1..K] : \A x, y \in Of(o) : g[x] = g[y] => x = y
           place == [i \in DOMAIN outbox |-> <<outbox[i].order, numbers(outbox[i].order)[i]>>]
<1>4. ASSUME NEW o \in Orders
      PROVE  /\ numbers(o) \in [Of(o) -> 1..K]
             /\ \A x, y \in Of(o) : numbers(o)[x] = numbers(o)[y] => x = y
  <2>1. \E g \in [Of(o) -> 1..K] : \A x, y \in Of(o) : g[x] = g[y] => x = y
    BY <1>2, <1>3, NumberedWithin
  <2> QED
    BY <2>1
<1> HIDE DEF numbers
<1>5. \A i \in DOMAIN outbox : outbox[i].order \in Orders /\ i \in Of(outbox[i].order)
  BY <1>2 DEF Rows, Of
<1>6. \A i \in DOMAIN outbox : numbers(outbox[i].order)[i] \in 1..K
  BY <1>4, <1>5
<1>7. place \in [DOMAIN outbox -> Orders \X (1..K)]
  BY <1>5, <1>6
<1>8. \A i, j \in DOMAIN outbox : place[i] = place[j] => i = j
  <2> SUFFICES ASSUME NEW i \in DOMAIN outbox, NEW j \in DOMAIN outbox, place[i] = place[j]
               PROVE  i = j
    OBVIOUS
  <2>1. PICK o \in Orders : o = outbox[i].order
    BY <1>5
  <2>2. o = outbox[j].order /\ numbers(o)[i] = numbers(o)[j]
    BY <2>1
  <2> QED
    BY <1>4, <1>5, <2>1, <2>2
<1> HIDE DEF place
<1>9. place \in Injection(DOMAIN outbox, Orders \X (1..K))
  BY <1>7, <1>8 DEF Injection, IsInjective
<1>10. /\ IsFiniteSet(Orders \X (1..K))
       /\ Cardinality(Orders \X (1..K)) = Cardinality(Orders) * K
  <2>1. IsFiniteSet(1..K) /\ Cardinality(1..K) = K
    BY <1>2, FS_Interval
  <2> QED
    BY <1>1, <2>1, FS_Product
<1>11. Cardinality(DOMAIN outbox) <= Cardinality(Orders) * K
  BY <1>9, <1>10, FS_Injection
<1>12. Cardinality(1..Len(outbox)) = Len(outbox)
  BY <1>2, FS_Interval
<1>13. Len(outbox) <= Cardinality(Orders) * K
  BY <1>2, <1>11, <1>12
<1>14. Cardinality(Orders) * K \in Nat
  BY <1>1, <1>2, FS_CardinalityType
<1>15. 1..Len(outbox) \subseteq 1..(Cardinality(Orders) * K)
  BY <1>2, <1>13, <1>14
<1> QED
  BY <1>2, <1>15 DEF EventIds, K

\* FairTrading lets the time of every event pass that an instance can ever
\* write, so that MoneyTakesEffect rests on no event being left out.
THEOREM FairnessReachesEveryEvent ==
    ASSUME IsFiniteSet(Calls)
    PROVE  TradingSpec => [](DOMAIN outbox \subseteq EventIds)
<1>1. TradingInit => EventsBounded /\ FewUnpaid
  <2> SUFFICES ASSUME TradingInit, NEW o \in Orders
               PROVE  /\ Cardinality(EventsOf("payment.success", o)) + Cardinality(Confirming(o))
                            <= MaxDeliveries + Cardinality(Calls)
                      /\ Cardinality(EventsOf("payment.success", o)) <= MaxDeliveries
    BY DEF EventsBounded, FewUnpaid
  <2>1. EventsOf("payment.success", o) = {} /\ Confirming(o) = {}
    BY DEF TradingInit, EventsOf, Confirming, Idle
  <2>2. Cardinality({}) = 0 /\ Cardinality(Calls) \in Nat /\ MaxDeliveries \in Nat
    BY FS_EmptySet, FS_CardinalityType, TradingAssumption DEF TradingAssumption
  <2>3. /\ Cardinality(EventsOf("payment.success", o)) = 0
        /\ Cardinality(Confirming(o)) = 0
    BY <2>1, <2>2, Zenon
  <2> QED
    BY <2>2, <2>3
<1>2. /\ IInv /\ TradingTypeOK /\ MoneyFollowsOrder /\ MoneyHasEvents /\ OneRefund => MoneyInv
  BY DEF IInv, MoneyInv
<1>3. MoneyInv /\ EventsBounded /\ FewUnpaid /\ [TradingNext]_allVars => EventsBounded' /\ FewUnpaid'
  BY BoundStep, UnpaidStep DEF BoundInv
<1>4. TradingTypeOK /\ MoneyHasEvents /\ EventsBounded => DOMAIN outbox \subseteq EventIds
  BY OutboxIsCounted
<1> QED
  BY <1>1, <1>2, <1>3, <1>4, StoreInvariant, TradingTypeCorrect, MoneyInvariant, PTL
  DEF TradingSpec

\* Payments, refunds, retries and crashes sell nothing twice: the stock keeps
\* its promise under the program that drives it.
THEOREM TradingKeepsPromise == TradingSpec => ImplementsPromise /\ []NeverOversold
BY ImplementsStore, Implements, NoOversale, PTL DEF ImplementsOrderStore
===============================================================================
