-------------------------------- MODULE Trading --------------------------------
(***************************************************************************)
(* How money moves an order.  OrderStore lets a payment or a refund arrive *)
(* at any moment; here they arrive the way the program sends them: an API  *)
(* handler or the provider's callback marks the payment and leaves an      *)
(* event in the outbox in the same transaction, a worker claims the event  *)
(* for five minutes, handles it and marks it, and may die in between.      *)
(* Handlers of the API are several transactions long and may die too.      *)
(***************************************************************************)
EXTENDS OrderStore, Sequences

CONSTANTS
    Calls,          \* requests the API handles at the same time
    MaxDeliveries,  \* bound on payment events of an order before a callback repeats
    MaxAttempts,    \* attempts after which an event is given up (20 in the code)
    ReportIds,      \* provider_event_id of the provider's reports
    NoId            \* of a report without one

ASSUME TradingAssumption ==
    /\ MaxDeliveries \in Nat
    /\ MaxAttempts \in Nat
    /\ NoId \notin ReportIds

VARIABLES
    pay,            \* payments.status of the order, "NONE" without a row
    seen,           \* webhook_events: ids of the reports that marked a payment
    refund,         \* refunds.status of the order, "NONE" without a row
    outbox,         \* rows of outbox by id
    batch,          \* batch[w]: [id, attempts] of the rows w has claimed and not marked
    outcome,        \* outcome[w]: what became of the first row of batch[w]
    call            \* call[c]: the handler's next transaction

tradeVars == <<pay, seen, refund, outbox, batch, outcome, call>>
allVars == <<vars, tradeVars>>

\* A row of outbox; due stands for next_attempt_at in the past, and counts
\* for a PENDING row only.
Event(type, o) == [type |-> type, order |-> o, status |-> "PENDING",
                   due |-> TRUE, attempts |-> 0]
Idle == [op |-> "idle", order |-> CHOOSE o \in Orders : TRUE]
Request(c, op, o) == call' = [call EXCEPT ![c] = [op |-> op, order |-> o]]
Done(c) == call' = [call EXCEPT ![c] = Idle]

EventsOf(type, o) ==
    {i \in DOMAIN outbox : outbox[i].type = type /\ outbox[i].order = o}

-----------------------------------------------------------------------------
(***************************************************************************)
(* Paying (customer/payments.go, payments/store.go, callbacks.go).         *)
(***************************************************************************)
\* The handler reads the order ...
PrepayRead(c, o) ==
    /\ call[c] = Idle
    /\ ost[o] = "PENDING_PAYMENT"
    /\ Request(c, "prepay", o)
    /\ UNCHANGED <<vars, pay, seen, refund, outbox, batch, outcome>>

\* ... and inserts the payment; a row that is there keeps its status
PrepayInsert(c) ==
    LET o == call[c].order IN
    /\ call[c].op = "prepay"
    /\ pay' = [pay EXCEPT ![o] = IF @ = "NONE" THEN "PREPAY_CREATED" ELSE @]
    /\ Done(c)
    /\ UNCHANGED <<vars, seen, refund, outbox, batch, outcome>>

\* The order and the payment are read; neither lock outlives its statement.
\* One step for both reads: the payment only moves forward, so the later
\* commit sees every mixture of the two.
ConfirmRead(c, o) ==
    /\ call[c] = Idle
    /\ ost[o] = "PENDING_PAYMENT"
    /\ pay[o] = "PREPAY_CREATED"
    /\ Request(c, "confirm", o)
    /\ UNCHANGED <<vars, pay, seen, refund, outbox, batch, outcome>>

Announce(o) == outbox' = Append(outbox, Event("payment.success", o))

\* The payment is marked and the event written, whatever happened since.
MarkPaid(o) ==
    /\ pay' = [pay EXCEPT ![o] = "SUCCESS"]
    /\ Announce(o)

ConfirmCommit(c) ==
    /\ call[c].op = "confirm"
    /\ MarkPaid(call[c].order)
    /\ Done(c)
    /\ UNCHANGED <<vars, seen, refund, batch, outcome>>

\* MarkSuccess of a report whose id has not been seen: the payment has a row,
\* and the id is recorded with the change it makes.
MarkSuccess(o, id) ==
    /\ id \notin seen
    /\ pay[o] # "NONE"
    /\ MarkPaid(o)
    /\ seen' = IF pay[o] = "SUCCESS" THEN seen ELSE seen \cup ({id} \cap ReportIds)

\* MarkSuccess of a report whose id has been seen, be it with another order:
\* the payment is not looked at.
SkipSeen(o, id) ==
    /\ id \in seen
    /\ Announce(o)
    /\ UNCHANGED <<pay, seen>>

\* The provider reports a payment, at any time and any number of times (in dev
\* mode, where the body names the id; in production the handler answers 503,
\* since nothing loads its credentials, and the id would be the serial of the
\* certificate).  The state of the order is not looked at, and the event is
\* written whatever MarkSuccess did.  Two reports of one id that overlap may
\* both miss it; the second is then like one without an id.
WechatPayTransaction(o, id) ==
    /\ ost[o] # "NONE"
    /\ Cardinality(EventsOf("payment.success", o)) < MaxDeliveries
    /\ MarkSuccess(o, id) \/ SkipSeen(o, id)
    /\ UNCHANGED <<vars, refund, batch, outcome, call>>

-----------------------------------------------------------------------------
(***************************************************************************)
(* Cancelling and refunding (customer/cancel.go, refunds/store.go).        *)
(***************************************************************************)
CancelOrder(c, o) ==
    /\ call[c] = Idle
    /\ \/ (CancelUnpaid(o) \/ RequestCancel(o)) /\ UNCHANGED call
       \/ CancelPaid(o) /\ Request(c, "refund", o)
    /\ UNCHANGED <<pay, seen, refund, outbox, batch, outcome>>

\* mutants of RefundCreate: any payment of the order is refunded, and the refund is settled by a second request as well
RefundAny(c) ==
    LET o == call[c].order IN
    /\ call[c].op = "refund"
    /\ IF refund[o] # "CREATED"
       THEN refund' = [refund EXCEPT ![o] = "CREATED"] /\ Request(c, "settle", o)
       ELSE UNCHANGED refund /\ Done(c)
    /\ UNCHANGED <<vars, pay, seen, outbox, batch, outcome>>
RefundTwice(c) ==
    LET o == call[c].order IN
    /\ call[c].op = "refund"
    /\ refund' = [refund EXCEPT ![o] = "SUCCESS"]
    /\ outbox' = Append(outbox, Event("refund.success", o))
    /\ Request(c, "settle", o)
    /\ UNCHANGED <<vars, pay, seen, batch, outcome>>

\* refunds.Store.Create, for the payment that succeeded
RefundCreate(c) ==
    LET o == call[c].order IN
    /\ call[c].op = "refund"
    /\ IF pay[o] = "SUCCESS" /\ refund[o] # "CREATED"
       THEN refund' = [refund EXCEPT ![o] = "CREATED"] /\ Request(c, "settle", o)
       ELSE UNCHANGED refund /\ Done(c)
    /\ UNCHANGED <<vars, pay, seen, outbox, batch, outcome>>

\* refunds.Store.MarkSuccess and the event, in one transaction
RefundSettle(c) ==
    LET o == call[c].order IN
    /\ call[c].op = "settle"
    /\ refund' = [refund EXCEPT ![o] = "SUCCESS"]
    /\ outbox' = Append(outbox, Event("refund.success", o))
    /\ Done(c)
    /\ UNCHANGED <<vars, pay, seen, batch, outcome>>

\* The API process stops, or the statement fails.
CallDies(c) ==
    /\ call[c] # Idle
    /\ Done(c)
    /\ UNCHANGED <<vars, pay, seen, refund, outbox, batch, outcome>>

-----------------------------------------------------------------------------
(***************************************************************************)
(* The outbox (worker.go).  A worker is one goroutine: it does not start   *)
(* the expiry job while it has events in hand, nor the reverse.            *)
(***************************************************************************)
\* The rows are claimed, and their next attempt put off by five minutes, in
\* one transaction; handling comes after it.
Claim(w) ==
    LET due == {i \in DOMAIN outbox : outbox[i].status = "PENDING" /\ outbox[i].due} IN
    /\ batch[w] = {} /\ scan[w] = {}
    /\ due # {}
    /\ batch' = [batch EXCEPT ![w] = {[id |-> i, attempts |-> outbox[i].attempts] : i \in due}]
    /\ outbox' = [i \in DOMAIN outbox |->
                     IF i \in due THEN [outbox[i] EXCEPT !.due = FALSE] ELSE outbox[i]]
    /\ UNCHANGED <<vars, pay, seen, refund, outcome, call>>

\* the row with the least id in the batch of w
First(w) == CHOOSE b \in batch[w] : \A d \in batch[w] : b.id <= d.id

Handling(w) == batch[w] # {} /\ outcome[w] = "none"

HandlePayment(w) ==
    /\ Handling(w)
    /\ LET e == outbox[First(w).id] IN
         /\ e.type = "payment.success"
         /\ PaymentSuccess(e.order)
    /\ outcome' = [outcome EXCEPT ![w] = "ok"]
    /\ UNCHANGED <<pay, seen, refund, outbox, batch, call>>

\* mutant of HandleRefund: moves the order and forgets what it holds
RefundStateOnly(w) ==
    /\ Handling(w)
    /\ LET e == outbox[First(w).id] IN
         /\ e.type = "refund.success"
         /\ Advance(e.order, "REFUNDED")
    /\ outcome' = [outcome EXCEPT ![w] = "ok"]
    /\ UNCHANGED <<pickupNo, paid, released, expired, stockVars, slotReserved,
                   scan, screen, pay, seen, refund, outbox, batch, call>>

\* MarkRefunded succeeds at once for an order that is REFUNDED already
HandleRefund(w) ==
    /\ Handling(w)
    /\ LET e == outbox[First(w).id] IN
         /\ e.type = "refund.success"
         /\ MarkRefunded(e.order) \/ (ost[e.order] = "REFUNDED" /\ UNCHANGED vars)
    /\ outcome' = [outcome EXCEPT ![w] = "ok"]
    /\ UNCHANGED <<pay, seen, refund, outbox, batch, call>>

\* The handler returns an error and its transaction is rolled back.
HandleFails(w) ==
    /\ Handling(w)
    /\ outcome' = [outcome EXCEPT ![w] = "error"]
    /\ UNCHANGED <<vars, pay, seen, refund, outbox, batch, call>>

\* markOutboxSent
MarkSent(e) == [e EXCEPT !.status = "SENT", !.due = FALSE]

\* mutants of BumpAttempt: gives up by marking the row SENT, and never gives up
GiveUpSent(e, attempts) ==
    IF attempts >= MaxAttempts THEN MarkSent(e)
    ELSE [e EXCEPT !.attempts = attempts + 1, !.due = FALSE]
NeverGiveUp(e, attempts) == [e EXCEPT !.due = FALSE]

\* bumpOutboxAttempt, with the attempts read at the claim
BumpAttempt(e, attempts) ==
    IF attempts >= MaxAttempts
    THEN [e EXCEPT !.status = "FAILED", !.attempts = attempts + 1, !.due = FALSE]
    ELSE [e EXCEPT !.attempts = attempts + 1, !.due = FALSE]

MarkEvent(w) ==
    LET b == First(w) IN
    /\ outcome[w] # "none"
    /\ outbox' = [outbox EXCEPT ![b.id] =
                     IF outcome[w] = "ok" THEN MarkSent(@) ELSE BumpAttempt(@, b.attempts)]
    /\ batch' = [batch EXCEPT ![w] = @ \ {b}]
    /\ outcome' = [outcome EXCEPT ![w] = "none"]
    /\ UNCHANGED <<vars, pay, seen, refund, call>>

\* The update of the row fails, and nobody looks at its error.
MarkLost(w) ==
    /\ outcome[w] # "none"
    /\ batch' = [batch EXCEPT ![w] = @ \ {First(w)}]
    /\ outcome' = [outcome EXCEPT ![w] = "none"]
    /\ UNCHANGED <<vars, pay, seen, refund, outbox, call>>

\* The worker process stops; what it had claimed stays put off.
WorkerDies(w) ==
    /\ batch[w] # {}
    /\ batch' = [batch EXCEPT ![w] = {}]
    /\ outcome' = [outcome EXCEPT ![w] = "none"]
    /\ UNCHANGED <<vars, pay, seen, refund, outbox, call>>

\* next_attempt_at of a waiting row has passed
BecomeDue(i) ==
    /\ i \in DOMAIN outbox
    /\ outbox[i].status = "PENDING" /\ ~outbox[i].due
    /\ outbox' = [outbox EXCEPT ![i].due = TRUE]
    /\ UNCHANGED <<vars, pay, seen, refund, batch, outcome, call>>

-----------------------------------------------------------------------------
(***************************************************************************)
(* What goes on as in OrderStore.  ReviewCancelRequest is not among it:    *)
(* its handler finds the order by a row of refunds, and an order with one  *)
(* is in REFUNDING or REFUNDED (MoneyFollowsOrder), where a review changes *)
(* nothing.  RequestCancel writes no row that the handler could find.      *)
(***************************************************************************)
StoreStep ==
    /\ \/ \E o \in Orders : Create(o) \/ Expire(o) \/ StaffRefund(o)
       \/ \E m \in Staff :
             \/ \E o \in Orders : Load(m, o)
             \/ \E to \in OrderStates : Transition(m, to)
       \/ \E s \in Skus : \E delta \in {-1, 1} : Adjust(s, delta)
       \/ \E w \in Workers :
             \/ batch[w] = {} /\ ReleaseScan(w)
             \/ ReleaseCommit(w) \/ ReleaseAbort(w)
    /\ UNCHANGED tradeVars

WorkerStep(w) ==
    \/ Claim(w) \/ HandlePayment(w) \/ HandleRefund(w) \/ HandleFails(w)
    \/ MarkEvent(w) \/ MarkLost(w) \/ WorkerDies(w)

CallStep(c) ==
    \/ \E o \in Orders : PrepayRead(c, o) \/ ConfirmRead(c, o) \/ CancelOrder(c, o)
    \/ PrepayInsert(c) \/ ConfirmCommit(c) \/ RefundCreate(c) \/ RefundSettle(c)
    \/ CallDies(c)

\* webhook_events is one table for all stores and days: orders that are not
\* in the model may have used an id.
TradingInit ==
    /\ Init
    /\ pay = [o \in Orders |-> "NONE"]
    /\ seen \in SUBSET ReportIds
    /\ refund = [o \in Orders |-> "NONE"]
    /\ outbox = <<>>
    /\ batch = [w \in Workers |-> {}]
    /\ outcome = [w \in Workers |-> "none"]
    /\ call = [c \in Calls |-> Idle]

TradingNext ==
    \/ StoreStep
    \/ \E o \in Orders, id \in ReportIds \cup {NoId} : WechatPayTransaction(o, id)
    \/ \E c \in Calls : CallStep(c)
    \/ \E w \in Workers : WorkerStep(w)
    \/ \E i \in DOMAIN outbox : BecomeDue(i)

TradingSpec == TradingInit /\ [][TradingNext]_allVars

(***************************************************************************)
(* The worker's tickers run for ever and time passes.  A worker may die    *)
(* and a handler may fail again and again, but a worker that keeps getting *)
(* hold of an event also finishes with it some time.  The API and the      *)
(* people promise nothing.                                                 *)
(***************************************************************************)
\* A confirmation reads the payment open, so a call confirms an order once.
EventIds == 1..(Cardinality(Orders) * (MaxDeliveries + Cardinality(Calls) + 1))

Handle(w) == HandlePayment(w) \/ HandleRefund(w) \/ HandleFails(w)

FairTrading ==
    /\ TradingSpec
    /\ \A w \in Workers :
          SF_allVars(Claim(w)) /\ SF_allVars(Handle(w)) /\ SF_allVars(MarkEvent(w))
          /\ SF_allVars(ReleaseCommit(w) /\ UNCHANGED tradeVars)
    /\ \A i \in EventIds : WF_allVars(BecomeDue(i))

-----------------------------------------------------------------------------
(***************************************************************************)
(* Properties.                                                             *)
(***************************************************************************)
Rows == [type : {"payment.success", "refund.success"}, order : Orders,
         status : {"PENDING", "SENT", "FAILED"}, due : BOOLEAN, attempts : Nat]
Claims == [id : Nat \ {0}, attempts : Nat]
Ops == {"idle", "prepay", "confirm", "refund", "settle"}

\* Every column and every local of a handler has its type; a claim is of a
\* row that exists.
TradingTypeOK ==
    /\ pay \in [Orders -> {"NONE", "PREPAY_CREATED", "SUCCESS"}]
    /\ seen \subseteq ReportIds
    /\ refund \in [Orders -> {"NONE", "CREATED", "SUCCESS"}]
    /\ outbox \in Seq(Rows)
    /\ batch \in [Workers -> SUBSET Claims]
    /\ \A w \in Workers : \A b \in batch[w] : b.id <= Len(outbox)
    /\ outcome \in [Workers -> {"none", "ok", "error"}]
    /\ \A w \in Workers : outcome[w] # "none" => batch[w] # {}
    /\ call \in [Calls -> [op : Ops, order : Orders]]

\* The order and the money agree although they are moved by different
\* transactions of different processes: an order is paid only after its
\* payment was announced, a refund is made only of a payment that succeeded
\* and for an order that waits for it, and an order is refunded only with a
\* refund.  That an order is paid only with a payment does not hold
\* (PaidWithPayment).
MoneyFollowsOrder ==
    \A o \in Orders :
        /\ paid[o] => EventsOf("payment.success", o) # {}
        /\ refund[o] # "NONE" => pay[o] = "SUCCESS" /\ ost[o] \in {"REFUNDING", "REFUNDED"}
        /\ ost[o] = "REFUNDED" => refund[o] = "SUCCESS"

\* What the tables say of the money of the orders.
Books == INSTANCE MoneyPromise WITH
    announced <- {o \in Orders : EventsOf("payment.success", o) # {}},
    taken <- {o \in Orders : pay[o] = "SUCCESS"},
    booked <- {o \in Orders : paid[o]},
    owed <- {o \in Orders : ost[o] \in {"REFUNDING", "REFUNDED"}},
    begun <- {o \in Orders : refund[o] # "NONE"},
    returned <- {o \in Orders : refund[o] = "SUCCESS"},
    settled <- {o \in Orders : ost[o] = "REFUNDED"}

\* The money of an order goes one way and each step once: nothing is booked
\* that was not announced, no refund is begun twice, of money that never came
\* in (though the order says it is paid), or for an order that nobody is to
\* get money back for, none is undone, and no order is closed as refunded
\* before its money is back, however requests, reports and deliveries of
\* events overlap, die and repeat.
ImplementsMoneyPromise == Books!Spec

\* The outbox forgets nothing: money that came in has an event, and money
\* that went back has exactly one.
EventsMatchMoney ==
    \A o \in Orders :
        /\ pay[o] = "SUCCESS" => EventsOf("payment.success", o) # {}
        /\ Cardinality(EventsOf("refund.success", o)) =
              IF refund[o] = "SUCCESS" THEN 1 ELSE 0

\* An event marked SENT has taken effect, whoever marked it and however often
\* it was claimed, handled and dropped before.
SentIsDone ==
    \A i \in DOMAIN outbox :
        LET e == outbox[i] IN
        e.status = "SENT" =>
            IF e.type = "refund.success" THEN ost[e.order] = "REFUNDED"
            ELSE ost[e.order] \notin {"NONE", "PENDING_PAYMENT"}

\* Seen from the order tables, payments, refunds, retries and crashes are
\* nothing but steps OrderStore allows, so what holds there holds here.
ImplementsOrderStore == Spec

\* Money that came in or went back reaches the order, or its event is FAILED
\* after the last attempt; workers may die and handlers may fail on the way.
MoneyTakesEffect ==
    \A o \in Orders :
        /\ pay[o] = "SUCCESS" ~>
              \/ ost[o] # "PENDING_PAYMENT"
              \/ \E i \in EventsOf("payment.success", o) : outbox[i].status = "FAILED"
        /\ refund[o] = "SUCCESS" ~>
              \/ ost[o] = "REFUNDED"
              \/ \E i \in EventsOf("refund.success", o) : outbox[i].status = "FAILED"

-----------------------------------------------------------------------------
(***************************************************************************)
(* What the documents say and the code does not do.                        *)
(***************************************************************************)

\* PRD 14.2: what was processed successfully has updated payment and order in
\* one transaction; MarkSuccess takes an id it has seen for such a report and
\* reports success.  An order that is paid has a payment that succeeded.
PaidWithPayment == \A o \in Orders : paid[o] => pay[o] = "SUCCESS"

\* PRD 4.10: an unpaid order is cancelled only after the provider was asked,
\* so that no order is cancelled whose customer has paid.
NoMoneyKept == \A o \in Orders : ~(ost[o] = "CANCELLED" /\ pay[o] = "SUCCESS")
===============================================================================
