------------------------------- MODULE Checkout -------------------------------
(***************************************************************************)
(* From a price to an order: quotes kept for ten minutes in Redis, coupons *)
(* claimed by customers, idempotency keys, and the creation of an order,   *)
(* which looks the quote up, works in a transaction of MySQL and deletes   *)
(* the quote afterwards.  Requests overlap and may be cut off anywhere; a  *)
(* client that has no answer asks again.  What an order does to stock and  *)
(* slots is the order store's; here the transaction may be refused for it. *)
(***************************************************************************)
EXTENDS Integers, Sequences

CONSTANTS
    Shoppers,       \* customers who claim coupons
    Templates,      \* coupon templates
    NoCoupon,       \* of a quote without a coupon
    Calls,          \* creations of an order that overlap
    Keys,           \* Idempotency-Keys of clients
    NoKey,          \* of a request without one
    MaxQuotes,      \* bound on the quotes
    QuoteTTL, TemplateEnds,     \* life of a quote, end of the templates, in ticks
    MaxMinute,      \* bound on the clock
    TokenColumn,    \* width of orders.quote_token
    KeyColumn       \* width of idempotency_keys.idem_key

ASSUME CheckoutAssumption ==
    /\ MaxQuotes \in Nat /\ MaxMinute \in Nat
    /\ QuoteTTL \in Nat /\ TemplateEnds \in Nat
    /\ TokenColumn \in Nat /\ KeyColumn \in Nat
    /\ NoCoupon \notin Shoppers \X Templates
    /\ NoKey \notin Keys

VARIABLES
    minute,
    offered,        \* templates there are
    couponState,    \* customer_coupons.status by <<customer, template>>, "NONE" without a row
    quotes,         \* quotes issued: [live, until, coupon]; live: Redis still has it
    placed,         \* orders: [quote, coupon, state, told]; told (history): the worker has
                    \* handled a payment.success of the order
    idem,           \* idempotency_keys of "order-create": [key, order]
    calling,        \* calling[c]: [at, quote, key, order]
    answers         \* history: [key, order] of the 201s, quotes that failed for their widths

couponVars == <<offered, couponState>>
orderVars == <<placed, idem>>
checkoutVars == <<minute, couponVars, quotes, orderVars, calling, answers>>

Coupons == Shoppers \X Templates
QuoteIds == 1..Len(quotes)
NotCalling == [at |-> "idle", quote |-> 0, key |-> NoKey, order |-> 0]

CheckoutInit ==
    /\ minute = 0
    /\ offered = {}
    /\ couponState = [c \in Coupons |-> "NONE"]
    /\ quotes = <<>>
    /\ placed = <<>>
    /\ idem = {}
    /\ calling = [c \in Calls |-> NotCalling]
    /\ answers = [made |-> {}, failed |-> {}]

(***************************************************************************)
(* Coupons.                                                                *)
(***************************************************************************)
CreateCouponTemplate(t) ==
    /\ t \notin offered
    /\ offered' = offered \cup {t}
    /\ UNCHANGED <<minute, couponState, quotes, orderVars, calling, answers>>

\* One per customer and template: a second INSERT is "already claimed".
Claim(s, t) ==
    /\ t \in offered
    /\ minute <= TemplateEnds
    /\ couponState[<<s, t>>] = "NONE"
    /\ couponState' = [couponState EXCEPT ![<<s, t>>] = "AVAILABLE"]
    /\ UNCHANGED <<minute, offered, quotes, orderVars, calling, answers>>

Claimed == {c \in Coupons : couponState[c] # "NONE"}

(***************************************************************************)
(* Quotes.  The route of the preview has no session, so the coupon of the  *)
(* request is not looked at and gives no discount; the quote names it.     *)
(***************************************************************************)
PricingPreview(coupon) ==
    /\ Len(quotes) < MaxQuotes
    /\ quotes' = Append(quotes, [live |-> TRUE, until |-> minute + QuoteTTL, coupon |-> coupon])
    /\ UNCHANGED <<minute, couponVars, orderVars, calling, answers>>

Lookup(q) == quotes[q].live /\ minute <= quotes[q].until

(***************************************************************************)
(* The creation of an order.                                               *)
(***************************************************************************)
\* A token is 32 hexadecimal digits, a point and a signature of 64.
TokenWidth == 97
KeyWidth(key) == IF key \in Keys THEN 1 ELSE Len("quote:") + TokenWidth
\* Without a key the quote is the key.
IdemKey(q, key) == IF key = NoKey THEN q ELSE key

Proceed(c, r) == calling' = [calling EXCEPT ![c] = r]

\* POST /orders: the quote is looked up in Redis.
CreateOrder(c, q, key) ==
    /\ calling[c] = NotCalling
    /\ Lookup(q)
    /\ Proceed(c, [at |-> "quoted", quote |-> q, key |-> IdemKey(q, key), order |-> 0])
    /\ UNCHANGED <<minute, couponVars, quotes, orderVars, answers>>

\* The transaction begins: the time again, and the key, in its snapshot.
LookupKey(c) ==
    LET r == calling[c] IN
    /\ r.at = "quoted"
    /\ Proceed(c, IF minute > quotes[r.quote].until THEN NotCalling          \* 410
                  ELSE IF \E i \in idem : i.key = r.key
                  THEN [r EXCEPT !.at = "made", !.order = (CHOOSE i \in idem : i.key = r.key).order]
                  ELSE [r EXCEPT !.at = "begun"])
    /\ UNCHANGED <<minute, couponVars, quotes, orderVars, answers>>

FitsColumns(r) == TokenWidth <= TokenColumn /\ KeyWidth(r.key) <= KeyColumn
\* uq_order_quote and uq_idem_subject_key.
QuoteTaken(q) == \E o \in 1..Len(placed) : placed[o].quote = q
KeyTaken(key) == \E i \in idem : i.key = key

\* The INSERTs and the commit.
Insert(c) ==
    LET r == calling[c] IN
    /\ placed' = Append(placed, [quote |-> r.quote, coupon |-> quotes[r.quote].coupon,
                                 state |-> "PENDING_PAYMENT", told |-> FALSE])
    /\ idem' = idem \cup {[key |-> r.key, order |-> Len(placed) + 1]}
    /\ Proceed(c, [r EXCEPT !.at = "made", !.order = Len(placed) + 1])
CreateWithoutQuoteKey(c) ==
    LET r == calling[c] IN
    /\ r.at = "begun"
    /\ FitsColumns(r) /\ ~KeyTaken(r.key)
    /\ Insert(c)
    /\ UNCHANGED <<minute, couponVars, quotes, answers>>
CreateWithoutIdemKey(c) ==
    LET r == calling[c] IN
    /\ r.at = "begun"
    /\ FitsColumns(r) /\ ~QuoteTaken(r.quote)
    /\ Insert(c)
    /\ UNCHANGED <<minute, couponVars, quotes, answers>>
Create(c) ==
    LET r == calling[c] IN
    /\ r.at = "begun"
    /\ FitsColumns(r) /\ ~QuoteTaken(r.quote) /\ ~KeyTaken(r.key)
    /\ Insert(c)
    /\ UNCHANGED <<minute, couponVars, quotes, answers>>

\* An INSERT fails: nothing is left, and the answer is the error.  What the
\* unique keys refuse is not counted as failed.
InsertFails(c) ==
    LET r == calling[c] IN
    /\ r.at = "begun"
    /\ ~FitsColumns(r) \/ QuoteTaken(r.quote) \/ KeyTaken(r.key)
    /\ Proceed(c, NotCalling)
    /\ answers' = [answers EXCEPT !.failed = @ \cup {q \in {r.quote} : ~QuoteTaken(q) /\ ~KeyTaken(r.key)}]
    /\ UNCHANGED <<minute, couponVars, quotes, orderVars>>

\* The stock or the slot is used up (409), or the request is cut off.
CallEnds(c) ==
    /\ calling[c] # NotCalling
    /\ Proceed(c, NotCalling)
    /\ UNCHANGED <<minute, couponVars, quotes, orderVars, answers>>

\* The quote of the request is deleted, and the order answered.
DeleteQuote(c) ==
    LET r == calling[c] IN
    /\ r.at = "made"
    /\ quotes' = [quotes EXCEPT ![r.quote].live = FALSE]
    /\ answers' = [answers EXCEPT !.made = @ \cup {[key |-> r.key, order |-> r.order]}]
    /\ Proceed(c, NotCalling)
    /\ UNCHANGED <<minute, couponVars, orderVars>>

(***************************************************************************)
(* Cancellation, payment in the transaction of the worker, and time.       *)
(***************************************************************************)
\* The customer or the expiry job cancels what is not paid; the coupon is left
\* alone.  So is it when a paid order is refunded, which is not followed here.
CancelOrder(o) ==
    /\ placed[o].state = "PENDING_PAYMENT"
    /\ placed' = [placed EXCEPT ![o].state = "CANCELLED"]
    /\ UNCHANGED <<minute, couponVars, quotes, idem, calling, answers>>

\* An order that waits for its payment is paid, any other is left alone.
MarkPaid(o) ==
    placed' = [placed EXCEPT ![o].state = IF @ = "PENDING_PAYMENT" THEN "PAID" ELSE @,
                             ![o].told = TRUE]
UseCoupon(c) ==
    couponState' = IF c \in Coupons /\ couponState[c] = "AVAILABLE"
                   THEN [couponState EXCEPT ![c] = "USED"] ELSE couponState

\* mutant of PayOrder: the coupon is used by an order that gets paid only
PayPendingOnly(o) ==
    /\ MarkPaid(o)
    /\ IF placed[o].state = "PENDING_PAYMENT" THEN UseCoupon(placed[o].coupon) ELSE UNCHANGED couponState
    /\ UNCHANGED <<minute, offered, quotes, idem, calling, answers>>

\* A payment.success of the order is handled, for the first time or again.  The
\* coupon is used whether or not the order was still to be paid.
PayOrder(o) ==
    /\ MarkPaid(o)
    /\ UseCoupon(placed[o].coupon)
    /\ UNCHANGED <<minute, offered, quotes, idem, calling, answers>>

MinutePasses ==
    /\ minute < MaxMinute
    /\ minute' = minute + 1
    /\ UNCHANGED <<couponVars, quotes, orderVars, calling, answers>>

CheckoutNext ==
    \/ \E t \in Templates : CreateCouponTemplate(t) \/ \E s \in Shoppers : Claim(s, t)
    \/ \E coupon \in Claimed \cup {NoCoupon} : PricingPreview(coupon)
    \/ \E c \in Calls : \/ \E q \in QuoteIds, key \in Keys \cup {NoKey} : CreateOrder(c, q, key)
                        \/ LookupKey(c) \/ Create(c) \/ InsertFails(c) \/ DeleteQuote(c) \/ CallEnds(c)
    \/ \E o \in 1..Len(placed) : CancelOrder(o) \/ PayOrder(o)
    \/ MinutePasses

CheckoutSpec == CheckoutInit /\ [][CheckoutNext]_checkoutVars

(***************************************************************************)
(* Properties.                                                             *)
(***************************************************************************)
\* A quote makes one order at most (orders/create.go:92), whatever keys the
\* overlapping and repeated requests for it carry, also when the quote is
\* looked up before another request deletes it.
OneOrderPerQuote ==
    \A o, p \in 1..Len(placed) : placed[o].quote = placed[p].quote => o = p

\* Requests with one key are answered with one order, which is there, also
\* when both looked the key up before either had inserted it
\* (orders/create.go:113-123, 205-210).
AnswersOfAKeyAgree ==
    \A a, b \in answers.made : /\ a.order \in 1..Len(placed)
                               /\ a.key = b.key => a.order = b.order

\* A coupon is used exactly when the payment of an order that names it has
\* been handled, be the order paid by it or cancelled long before; it stays so
\* however many orders name it, are cancelled and are told of again, and
\* however often it is claimed.  No paid order leaves its coupon for another.
CouponGoesWithItsOrder ==
    \A c \in Coupons :
        /\ couponState[c] = "USED" <=> \E o \in 1..Len(placed) : placed[o].coupon = c /\ placed[o].told
        /\ \A o \in 1..Len(placed) :
              placed[o].coupon = c /\ placed[o].state = "PAID" => couponState[c] = "USED"

\* "Creating an order trusts a valid quote_token" (pricing/quote.go:117): a
\* request whose quote is valid, and whose quote and key have no order yet,
\* does not end in an error of an INSERT.
ValidQuoteMakesOrder == answers.failed = {}
=============================================================================
