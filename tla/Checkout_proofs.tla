--------------------------- MODULE Checkout_proofs ---------------------------
(***************************************************************************)
(* Proofs about Checkout, for every set of customers, templates, calls and *)
(* keys, every number of quotes and every width of the columns.            *)
(***************************************************************************)
EXTENDS Checkout, TLAPS

(***************************************************************************)
(* The inductive invariant.                                                *)
(***************************************************************************)
AnyCoupon == Coupons \cup {NoCoupon}
AnyKey == Keys \cup {NoKey} \cup Nat
QuoteRows == [live : BOOLEAN, until : Nat, coupon : AnyCoupon]
OrderRows == [quote : Nat, coupon : AnyCoupon, state : {"PENDING_PAYMENT", "PAID", "CANCELLED"},
              told : BOOLEAN]
IdemRows == [key : AnyKey, order : Nat]
CallRows == [at : {"idle", "quoted", "begun", "made"}, quote : Nat, key : AnyKey, order : Nat]

CheckoutTypeOK ==
    /\ minute \in Nat
    /\ couponState \in [Coupons -> {"NONE", "AVAILABLE", "USED"}]
    /\ quotes \in Seq(QuoteRows)
    /\ placed \in Seq(OrderRows)
    /\ idem \in SUBSET IdemRows
    /\ calling \in [Calls -> CallRows]
    /\ answers \in [made : SUBSET IdemRows, failed : SUBSET Nat]

\* A call that goes on has a quote that was issued.
CallsHaveQuotes == \A c \in Calls : calling[c].at # "idle" => calling[c].quote \in QuoteIds

\* idempotency_keys leads each key to one order, which is there.
KeysLeadToOrders ==
    /\ \A i \in idem : i.order \in 1..Len(placed)
    /\ \A i, j \in idem : i.key = j.key => i.order = j.order

\* What is or will be answered is recorded.
AnswersAreRecorded ==
    /\ \A c \in Calls : calling[c].at = "made" =>
         [key |-> calling[c].key, order |-> calling[c].order] \in idem
    /\ answers.made \subseteq idem

\* An order is paid by the handling of its payment, and a coupon an order
\* names has been claimed.
PaidIsTold == \A o \in 1..Len(placed) : placed[o].state = "PAID" => placed[o].told
NamedIsClaimed ==
    /\ \A q \in 1..Len(quotes) : quotes[q].coupon \in Coupons => couponState[quotes[q].coupon] # "NONE"
    /\ \A o \in 1..Len(placed) : placed[o].coupon \in Coupons => couponState[placed[o].coupon] # "NONE"
UsedWhenTold ==
    \A c \in Coupons :
        couponState[c] = "USED" <=> \E o \in 1..Len(placed) : placed[o].coupon = c /\ placed[o].told
CouponInv == PaidIsTold /\ NamedIsClaimed /\ UsedWhenTold

CheckoutInv ==
    /\ CheckoutTypeOK
    /\ CallsHaveQuotes
    /\ KeysLeadToOrders
    /\ AnswersAreRecorded
    /\ OneOrderPerQuote
    /\ CouponInv

(***************************************************************************)
(* Initially.                                                              *)
(***************************************************************************)
LEMMA CheckoutInitInv == CheckoutInit => CheckoutInv
<1> SUFFICES ASSUME CheckoutInit PROVE CheckoutInv
  OBVIOUS
<1> USE DEF CheckoutInit
<1>1. CheckoutTypeOK
  BY DEF CheckoutTypeOK, NotCalling, CallRows, AnyKey
<1>2. CallsHaveQuotes /\ KeysLeadToOrders /\ AnswersAreRecorded
  BY DEF CallsHaveQuotes, KeysLeadToOrders, AnswersAreRecorded, NotCalling
<1>3. OneOrderPerQuote /\ CouponInv
  BY DEF OneOrderPerQuote, CouponInv, PaidIsTold, NamedIsClaimed, UsedWhenTold
<1> QED
  BY <1>1, <1>2, <1>3 DEF CheckoutInv

(***************************************************************************)
(* Steps.  Those of the calls first.                                       *)
(***************************************************************************)
\* A call that is set to a row of its type, whose quote was issued and whose
\* order, if it is made, is recorded, breaks nothing.
LEMMA ProceedInv ==
    ASSUME CheckoutInv, NEW c \in Calls, NEW r \in CallRows,
           r.at # "idle" => r.quote \in QuoteIds,
           r.at = "made" => [key |-> r.key, order |-> r.order] \in idem,
           Proceed(c, r), UNCHANGED <<minute, couponVars, quotes, orderVars>>,
           answers'.made = answers.made, answers' \in [made : SUBSET IdemRows, failed : SUBSET Nat]
    PROVE  CheckoutInv'
<1> USE DEF CheckoutInv, Proceed, couponVars, orderVars
<1>1. calling' \in [Calls -> CallRows] /\ \A d \in Calls : calling'[d] = IF d = c THEN r ELSE calling[d]
  BY DEF CheckoutTypeOK
<1>2. CheckoutTypeOK'
  BY <1>1 DEF CheckoutTypeOK
<1>3. CallsHaveQuotes'
  BY <1>1 DEF CallsHaveQuotes, QuoteIds
<1>4. KeysLeadToOrders'
  BY DEF KeysLeadToOrders
<1>5. AnswersAreRecorded'
  BY <1>1 DEF AnswersAreRecorded
<1>6. OneOrderPerQuote' /\ CouponInv'
  BY DEF OneOrderPerQuote, CouponInv, PaidIsTold, NamedIsClaimed, UsedWhenTold
<1> QED
  BY <1>2, <1>3, <1>4, <1>5, <1>6

\* A call may end.
LEMMA IdleCall == NotCalling \in CallRows /\ NotCalling.at = "idle"
BY DEF NotCalling, CallRows, AnyKey

LEMMA CreateOrderInv ==
    ASSUME CheckoutInv, NEW c \in Calls, NEW q \in QuoteIds, NEW key \in Keys \cup {NoKey},
           CreateOrder(c, q, key)
    PROVE  CheckoutInv'
<1> DEFINE r == [at |-> "quoted", quote |-> q, key |-> IdemKey(q, key), order |-> 0]
<1>1. q \in Nat
  BY DEF CheckoutInv, CheckoutTypeOK, QuoteIds
<1>2. r \in CallRows
  BY <1>1 DEF CallRows, IdemKey, AnyKey
<1>3. answers' = answers /\ Proceed(c, r) /\ UNCHANGED <<minute, couponVars, quotes, orderVars>>
  BY DEF CreateOrder
<1> QED
  BY <1>2, <1>3, ProceedInv DEF CheckoutInv, CheckoutTypeOK

LEMMA LookupKeyInv ==
    ASSUME CheckoutInv, NEW c \in Calls, LookupKey(c)
    PROVE  CheckoutInv'
<1> DEFINE r == calling[c]
           found == CHOOSE i \in idem : i.key = r.key
           s == [r EXCEPT !.at = "made", !.order = found.order]
           t == [r EXCEPT !.at = "begun"]
<1>1. r \in CallRows /\ r.at = "quoted" /\ r.quote \in QuoteIds
  BY DEF LookupKey, CheckoutInv, CheckoutTypeOK, CallsHaveQuotes
<1>2. answers' = answers /\ UNCHANGED <<minute, couponVars, quotes, orderVars>>
  BY DEF LookupKey
<1>3. answers \in [made : SUBSET IdemRows, failed : SUBSET Nat]
  BY DEF CheckoutInv, CheckoutTypeOK
<1>4. CASE Proceed(c, NotCalling)
  BY <1>2, <1>3, <1>4, IdleCall, ProceedInv
<1>5. CASE /\ \E i \in idem : i.key = r.key
           /\ Proceed(c, s)
  <2>1. found \in idem /\ found.key = r.key
    BY <1>5
  <2>2. idem \subseteq IdemRows
    BY DEF CheckoutInv, CheckoutTypeOK
  <2>3. found \in IdemRows
    BY <2>1, <2>2
  <2>4. found.order \in Nat /\ found = [key |-> r.key, order |-> found.order]
    BY <2>1, <2>3 DEF IdemRows
  <2>5. /\ s \in CallRows /\ s.quote = r.quote /\ s.at = "made"
        /\ s.key = r.key /\ s.order = found.order
    BY <1>1, <2>4 DEF CallRows
  <2> HIDE DEF s, found
  <2> QED
    BY <1>1, <1>2, <1>3, <1>5, <2>1, <2>4, <2>5, ProceedInv
<1>6. CASE Proceed(c, t)
  <2>1. t \in CallRows /\ t.quote = r.quote /\ t.at = "begun"
    BY <1>1 DEF CallRows
  <2> HIDE DEF t
  <2> QED
    BY <1>1, <1>2, <1>3, <1>6, <2>1, ProceedInv
<1> QED
  BY <1>4, <1>5, <1>6 DEF LookupKey

LEMMA InsertFailsInv ==
    ASSUME CheckoutInv, NEW c \in Calls, InsertFails(c)
    PROVE  CheckoutInv'
<1>1. calling[c] \in CallRows
  BY DEF CheckoutInv, CheckoutTypeOK
<1>2. calling[c].quote \in Nat
  BY <1>1 DEF CallRows
<1>3. answers \in [made : SUBSET IdemRows, failed : SUBSET Nat]
  BY DEF CheckoutInv, CheckoutTypeOK
<1>4. /\ answers'.made = answers.made
      /\ answers' \in [made : SUBSET IdemRows, failed : SUBSET Nat]
  BY <1>2, <1>3 DEF InsertFails
<1> QED
  BY <1>4, IdleCall, ProceedInv DEF InsertFails

LEMMA CallEndsInv ==
    ASSUME CheckoutInv, NEW c \in Calls, CallEnds(c)
    PROVE  CheckoutInv'
BY IdleCall, ProceedInv DEF CallEnds, CheckoutInv, CheckoutTypeOK

\* The INSERTs: the unique keys of the tables keep the quote's order and the
\* key's order one.
LEMMA CreateInv ==
    ASSUME CheckoutInv, NEW c \in Calls, Create(c)
    PROVE  CheckoutInv'
<1> DEFINE r == calling[c]
           n == Len(placed) + 1
           order == [quote |-> r.quote, coupon |-> quotes[r.quote].coupon,
                     state |-> "PENDING_PAYMENT", told |-> FALSE]
           row == [key |-> r.key, order |-> n]
           s == [r EXCEPT !.at = "made", !.order = n]
<1>1. /\ r \in CallRows /\ r.quote \in 1..Len(quotes)
      /\ placed \in Seq(OrderRows) /\ quotes \in Seq(QuoteRows) /\ idem \subseteq IdemRows
      /\ calling \in [Calls -> CallRows]
  BY DEF Create, CheckoutInv, CheckoutTypeOK, CallsHaveQuotes, QuoteIds
<1>2. n \in Nat /\ quotes[r.quote] \in QuoteRows
  BY <1>1
<1>3. order \in OrderRows /\ row \in IdemRows
  BY <1>1, <1>2 DEF OrderRows, IdemRows, CallRows, QuoteRows
<1>4. s \in CallRows /\ s.quote = r.quote /\ s.at = "made" /\ s.key = r.key /\ s.order = n
  BY <1>1, <1>2 DEF CallRows
<1>5. /\ placed' = Append(placed, order)
      /\ idem' = idem \cup {row}
      /\ calling' = [calling EXCEPT ![c] = s]
      /\ ~QuoteTaken(r.quote) /\ ~KeyTaken(r.key)
      /\ UNCHANGED <<minute, couponState, quotes, answers>>
  BY DEF Create, Insert, Proceed, couponVars
<1>6. /\ placed' \in Seq(OrderRows) /\ Len(placed') = n
      /\ \A o \in 1..Len(placed) : placed'[o] = placed[o]
      /\ placed'[n] = order
  BY <1>1, <1>3, <1>5
<1>7. /\ order.quote = r.quote /\ order.coupon = quotes[r.quote].coupon
      /\ order.state = "PENDING_PAYMENT" /\ order.told = FALSE
      /\ row.key = r.key /\ row.order = n
  OBVIOUS
<1>8. calling' \in [Calls -> CallRows] /\ \A d \in Calls : calling'[d] = IF d = c THEN s ELSE calling[d]
  BY <1>1, <1>4, <1>5
<1> HIDE DEF order, row, s
<1>9. CheckoutTypeOK'
  BY <1>3, <1>5, <1>6, <1>8 DEF CheckoutInv, CheckoutTypeOK
<1>10. CallsHaveQuotes'
  BY <1>1, <1>4, <1>5, <1>8 DEF CheckoutInv, CallsHaveQuotes, QuoteIds
<1>11. KeysLeadToOrders'
  <2>1. \A i \in idem' : i.order \in 1..Len(placed')
    BY <1>1, <1>5, <1>6, <1>7 DEF CheckoutInv, KeysLeadToOrders
  <2>2. \A i, j \in idem' : i.key = j.key => i.order = j.order
    BY <1>5, <1>7 DEF CheckoutInv, KeysLeadToOrders, KeyTaken
  <2> QED
    BY <2>1, <2>2 DEF KeysLeadToOrders
<1>12. AnswersAreRecorded'
  <2>1. [key |-> s.key, order |-> s.order] \in idem'
    BY <1>4, <1>5 DEF row
  <2> QED
    BY <2>1, <1>5, <1>8 DEF CheckoutInv, AnswersAreRecorded
<1>13. OneOrderPerQuote'
  BY <1>1, <1>5, <1>6, <1>7 DEF CheckoutInv, OneOrderPerQuote, QuoteTaken
<1>14. CouponInv'
  BY <1>1, <1>5, <1>6, <1>7 DEF CheckoutInv, CouponInv, PaidIsTold, NamedIsClaimed, UsedWhenTold
<1> QED
  BY <1>9, <1>10, <1>11, <1>12, <1>13, <1>14 DEF CheckoutInv

LEMMA DeleteQuoteInv ==
    ASSUME CheckoutInv, NEW c \in Calls, DeleteQuote(c)
    PROVE  CheckoutInv'
<1> DEFINE r == calling[c]
           row == [key |-> r.key, order |-> r.order]
<1>1. /\ r \in CallRows /\ r.at = "made" /\ r.quote \in 1..Len(quotes)
      /\ quotes \in Seq(QuoteRows) /\ calling \in [Calls -> CallRows]
  BY DEF DeleteQuote, CheckoutInv, CheckoutTypeOK, CallsHaveQuotes, QuoteIds
<1>2. row \in idem /\ idem \subseteq IdemRows
  BY <1>1 DEF CheckoutInv, CheckoutTypeOK, AnswersAreRecorded
<1>3. /\ quotes' = [quotes EXCEPT ![r.quote].live = FALSE]
      /\ answers' = [answers EXCEPT !.made = @ \cup {row}]
      /\ calling' = [calling EXCEPT ![c] = NotCalling]
      /\ UNCHANGED <<minute, couponState, placed, idem>>
  BY DEF DeleteQuote, Proceed, couponVars, orderVars
<1>4. /\ quotes' \in Seq(QuoteRows) /\ Len(quotes') = Len(quotes)
      /\ \A q \in 1..Len(quotes) : quotes'[q].coupon = quotes[q].coupon
  <2> DEFINE gone == [quotes[r.quote] EXCEPT !.live = FALSE]
  <2>1. gone \in QuoteRows
    <3>1. \A q \in QuoteRows : [q EXCEPT !.live = FALSE] \in QuoteRows
      BY DEF QuoteRows
    <3>2. quotes[r.quote] \in QuoteRows
      BY <1>1
    <3> QED
      BY <3>1, <3>2
  <2>2. quotes' = [quotes EXCEPT ![r.quote] = gone]
    BY <1>3
  <2>3. gone.coupon = quotes[r.quote].coupon
    <3>1. quotes[r.quote] \in QuoteRows
      BY <1>1
    <3> QED
      BY <3>1 DEF QuoteRows
  <2> HIDE DEF gone
  <2> QED
    BY <1>1, <2>1, <2>2, <2>3
<1>5. calling' \in [Calls -> CallRows] /\ \A d \in Calls : calling'[d] = IF d = c THEN NotCalling ELSE calling[d]
  BY <1>1, <1>3, IdleCall
<1> HIDE DEF row
<1>6. answers' \in [made : SUBSET IdemRows, failed : SUBSET Nat] /\ answers'.made = answers.made \cup {row}
  BY <1>2, <1>3 DEF CheckoutInv, CheckoutTypeOK
<1>7. CheckoutTypeOK'
  BY <1>3, <1>4, <1>5, <1>6 DEF CheckoutInv, CheckoutTypeOK
<1>8. CallsHaveQuotes'
  BY <1>4, <1>5, IdleCall DEF CheckoutInv, CallsHaveQuotes, QuoteIds
<1>9. KeysLeadToOrders' /\ OneOrderPerQuote' /\ CouponInv'
  BY <1>3, <1>4 DEF CheckoutInv, KeysLeadToOrders, OneOrderPerQuote, CouponInv, PaidIsTold, NamedIsClaimed,
     UsedWhenTold
<1>10. AnswersAreRecorded'
  BY <1>2, <1>3, <1>5, <1>6, IdleCall DEF CheckoutInv, AnswersAreRecorded
<1> QED
  BY <1>7, <1>8, <1>9, <1>10 DEF CheckoutInv

\* A claim finds no row of the coupon, so it is not one that was used.
LEMMA ClaimInv ==
    ASSUME CheckoutInv, NEW s \in Shoppers, NEW t \in Templates, Claim(s, t)
    PROVE  CheckoutInv'
<1>1. /\ <<s, t>> \in Coupons /\ couponState[<<s, t>>] = "NONE"
      /\ couponState' = [couponState EXCEPT ![<<s, t>>] = "AVAILABLE"]
      /\ UNCHANGED <<minute, quotes, placed, idem, calling, answers>>
  BY DEF Claim, Coupons, orderVars
<1>2. /\ couponState' \in [Coupons -> {"NONE", "AVAILABLE", "USED"}]
      /\ \A c \in Coupons : (couponState'[c] = "USED") <=> (couponState[c] = "USED")
      /\ \A c \in Coupons : couponState[c] # "NONE" => couponState'[c] # "NONE"
  <2>1. couponState \in [Coupons -> {"NONE", "AVAILABLE", "USED"}]
    BY DEF CheckoutInv, CheckoutTypeOK
  <2>2. \A c \in Coupons : couponState'[c] = IF c = <<s, t>> THEN "AVAILABLE" ELSE couponState[c]
    BY <1>1, <2>1
  <2>3. couponState' \in [Coupons -> {"NONE", "AVAILABLE", "USED"}]
    BY <1>1, <2>1
  <2>4. ASSUME NEW c \in Coupons
        PROVE  /\ (couponState'[c] = "USED") <=> (couponState[c] = "USED")
               /\ couponState[c] # "NONE" => couponState'[c] # "NONE"
    <3>1. CASE c = <<s, t>>
      <4>1. couponState[c] = "NONE" /\ couponState'[c] = "AVAILABLE"
        BY <1>1, <2>2, <3>1, Zenon
      <4> QED
        BY <4>1
    <3>2. CASE c # <<s, t>>
      <4>1. couponState'[c] = couponState[c]
        BY <2>2, <3>2, Zenon
      <4> QED
        BY <4>1
    <3> QED
      BY <3>1, <3>2
  <2> QED
    BY <2>3, <2>4, Zenon
<1>3. CheckoutTypeOK' /\ CallsHaveQuotes' /\ KeysLeadToOrders' /\ AnswersAreRecorded'
  BY <1>1, <1>2 DEF CheckoutInv, CheckoutTypeOK, CallsHaveQuotes, QuoteIds, KeysLeadToOrders, AnswersAreRecorded
<1>4. OneOrderPerQuote' /\ PaidIsTold'
  BY <1>1 DEF CheckoutInv, OneOrderPerQuote, CouponInv, PaidIsTold
<1>5. NamedIsClaimed'
  BY <1>1, <1>2 DEF CheckoutInv, CouponInv, NamedIsClaimed
<1>6. UsedWhenTold'
  <2>1. ASSUME NEW c \in Coupons
        PROVE  couponState'[c] = "USED" <=> \E o \in 1..Len(placed) : placed[o].coupon = c /\ placed[o].told
    BY <1>2 DEF CheckoutInv, CouponInv, UsedWhenTold
  <2> QED
    BY <1>1, <2>1 DEF UsedWhenTold
<1> QED
  BY <1>3, <1>4, <1>5, <1>6 DEF CheckoutInv, CouponInv

LEMMA PricingPreviewInv ==
    ASSUME CheckoutInv, NEW coupon \in Claimed \cup {NoCoupon}, PricingPreview(coupon)
    PROVE  CheckoutInv'
<1> DEFINE quote == [live |-> TRUE, until |-> minute + QuoteTTL, coupon |-> coupon]
<1>1. quote \in QuoteRows
  BY CheckoutAssumption DEF CheckoutInv, CheckoutTypeOK, QuoteRows, AnyCoupon, Claimed
<1>2. /\ quotes' = Append(quotes, quote)
      /\ UNCHANGED <<minute, couponState, placed, idem, calling, answers>>
  BY DEF PricingPreview, couponVars, orderVars
<1>6. quote.coupon \in Coupons => couponState[quote.coupon] # "NONE"
  <2>1. NoCoupon \notin Coupons
    BY CheckoutAssumption DEF CheckoutAssumption, Coupons
  <2>2. coupon \in Coupons => coupon \in Claimed
    BY <2>1
  <2>3. quote.coupon = coupon
    OBVIOUS
  <2> QED
    BY <2>2, <2>3 DEF Claimed
<1> HIDE DEF quote
<1>3. /\ quotes' \in Seq(QuoteRows) /\ Len(quotes') = Len(quotes) + 1 /\ Len(quotes) \in Nat
      /\ \A q \in 1..Len(quotes) : quotes'[q] = quotes[q]
      /\ quotes'[Len(quotes) + 1] = quote
  BY <1>1, <1>2 DEF CheckoutInv, CheckoutTypeOK
<1>4. CheckoutTypeOK' /\ CallsHaveQuotes'
  BY <1>2, <1>3 DEF CheckoutInv, CheckoutTypeOK, CallsHaveQuotes, QuoteIds
<1>5. KeysLeadToOrders' /\ AnswersAreRecorded' /\ OneOrderPerQuote'
  BY <1>2 DEF CheckoutInv, KeysLeadToOrders, AnswersAreRecorded, OneOrderPerQuote
<1>7. CouponInv'
  BY <1>2, <1>3, <1>6 DEF CheckoutInv, CouponInv, PaidIsTold, NamedIsClaimed, UsedWhenTold
<1> QED
  BY <1>4, <1>5, <1>7 DEF CheckoutInv

\* An order is changed and keeps its quote and its coupon.
LEMMA ChangeOrder ==
    ASSUME CheckoutInv, NEW o \in 1..Len(placed), NEW r \in OrderRows,
           r.quote = placed[o].quote, r.coupon = placed[o].coupon,
           placed' = [placed EXCEPT ![o] = r],
           couponState' \in [Coupons -> {"NONE", "AVAILABLE", "USED"}],
           UNCHANGED <<minute, quotes, idem, calling, answers>>
    PROVE  /\ CheckoutTypeOK' /\ CallsHaveQuotes' /\ KeysLeadToOrders' /\ AnswersAreRecorded'
           /\ OneOrderPerQuote'
           /\ Len(placed') = Len(placed)
           /\ \A p \in 1..Len(placed) : placed'[p] = IF p = o THEN r ELSE placed[p]
<1>1. /\ placed' \in Seq(OrderRows) /\ Len(placed') = Len(placed)
      /\ \A p \in 1..Len(placed) : placed'[p] = IF p = o THEN r ELSE placed[p]
  BY DEF CheckoutInv, CheckoutTypeOK
<1>2. CheckoutTypeOK' /\ CallsHaveQuotes' /\ KeysLeadToOrders' /\ AnswersAreRecorded'
  BY <1>1 DEF CheckoutInv, CheckoutTypeOK, CallsHaveQuotes, QuoteIds, KeysLeadToOrders, AnswersAreRecorded
<1>3. OneOrderPerQuote'
  BY <1>1 DEF CheckoutInv, OneOrderPerQuote
<1> QED
  BY <1>1, <1>2, <1>3

\* A cancellation does not touch the coupon.
LEMMA CancelOrderInv ==
    ASSUME CheckoutInv, NEW o \in 1..Len(placed), CancelOrder(o)
    PROVE  CheckoutInv'
<1> DEFINE r == [placed[o] EXCEPT !.state = "CANCELLED"]
<1>1. placed[o] \in OrderRows /\ couponState \in [Coupons -> {"NONE", "AVAILABLE", "USED"}]
  BY DEF CheckoutInv, CheckoutTypeOK
<1>2. /\ r \in OrderRows /\ r.state = "CANCELLED" /\ r.told = placed[o].told
      /\ r.quote = placed[o].quote /\ r.coupon = placed[o].coupon
  BY <1>1 DEF OrderRows
<1>3. /\ placed' = [placed EXCEPT ![o] = r]
      /\ UNCHANGED <<minute, couponState, quotes, idem, calling, answers>>
  BY DEF CancelOrder, couponVars
<1> HIDE DEF r
<1>4. /\ CheckoutTypeOK' /\ CallsHaveQuotes' /\ KeysLeadToOrders' /\ AnswersAreRecorded'
      /\ OneOrderPerQuote' /\ Len(placed') = Len(placed)
      /\ \A p \in 1..Len(placed) : placed'[p] = IF p = o THEN r ELSE placed[p]
  BY <1>1, <1>2, <1>3, ChangeOrder
<1>5. CouponInv'
  BY <1>2, <1>3, <1>4 DEF CheckoutInv, CouponInv, PaidIsTold, NamedIsClaimed, UsedWhenTold
<1> QED
  BY <1>4, <1>5 DEF CheckoutInv

\* The handling of a payment marks the order, if it waits for it, and uses its
\* coupon in one transaction.
LEMMA PayOrderInv ==
    ASSUME CheckoutInv, NEW o \in 1..Len(placed), PayOrder(o)
    PROVE  CheckoutInv'
<1> DEFINE c == placed[o].coupon
           r == [placed[o] EXCEPT !.state = IF @ = "PENDING_PAYMENT" THEN "PAID" ELSE @, !.told = TRUE]
<1>1. placed[o] \in OrderRows /\ couponState \in [Coupons -> {"NONE", "AVAILABLE", "USED"}]
  BY DEF CheckoutInv, CheckoutTypeOK
<1>2. r \in OrderRows /\ r.told = TRUE /\ r.quote = placed[o].quote /\ r.coupon = c
  BY <1>1 DEF OrderRows
<1>3. /\ placed' = [placed EXCEPT ![o] = r]
      /\ couponState' = IF c \in Coupons /\ couponState[c] = "AVAILABLE"
                        THEN [couponState EXCEPT ![c] = "USED"] ELSE couponState
      /\ UNCHANGED <<minute, quotes, idem, calling, answers>>
  BY DEF PayOrder, MarkPaid, UseCoupon
<1> HIDE DEF r
<1>4. c \in Coupons => couponState[c] \in {"AVAILABLE", "USED"}
  BY <1>1 DEF CheckoutInv, CouponInv, NamedIsClaimed
<1>5. /\ couponState' \in [Coupons -> {"NONE", "AVAILABLE", "USED"}]
      /\ \A d \in Coupons : couponState'[d] = IF d = c THEN "USED" ELSE couponState[d]
  BY <1>1, <1>3, <1>4
<1>6. /\ CheckoutTypeOK' /\ CallsHaveQuotes' /\ KeysLeadToOrders' /\ AnswersAreRecorded'
      /\ OneOrderPerQuote' /\ Len(placed') = Len(placed)
      /\ \A p \in 1..Len(placed) : placed'[p] = IF p = o THEN r ELSE placed[p]
  BY <1>2, <1>3, <1>5, ChangeOrder
<1>7. PaidIsTold'
  BY <1>2, <1>6 DEF CheckoutInv, CouponInv, PaidIsTold
<1>8. NamedIsClaimed'
  BY <1>2, <1>3, <1>5, <1>6 DEF CheckoutInv, CouponInv, NamedIsClaimed
<1>9. UsedWhenTold'
  <2> SUFFICES ASSUME NEW d \in Coupons
               PROVE  couponState'[d] = "USED" <=>
                        \E p \in 1..Len(placed) : placed'[p].coupon = d /\ placed'[p].told
    BY <1>6 DEF UsedWhenTold
  <2>1. CASE d = c
    BY <2>1, <1>2, <1>5, <1>6
  <2>2. CASE d # c
    BY <2>2, <1>2, <1>5, <1>6 DEF CheckoutInv, CouponInv, UsedWhenTold
  <2> QED
    BY <2>1, <2>2
<1> QED
  BY <1>6, <1>7, <1>8, <1>9 DEF CheckoutInv, CouponInv

(***************************************************************************)
(* The theorems.                                                           *)
(***************************************************************************)
LEMMA CheckoutStepInv == CheckoutInv /\ [CheckoutNext]_checkoutVars => CheckoutInv'
<1> SUFFICES ASSUME CheckoutInv, [CheckoutNext]_checkoutVars PROVE CheckoutInv'
  OBVIOUS
<1> USE DEF couponVars, orderVars
<1>1. ASSUME NEW t \in Templates, CreateCouponTemplate(t) PROVE CheckoutInv'
  BY <1>1 DEF CreateCouponTemplate, CheckoutInv, CheckoutTypeOK, CallsHaveQuotes, QuoteIds, KeysLeadToOrders,
              AnswersAreRecorded, OneOrderPerQuote, CouponInv, PaidIsTold, NamedIsClaimed, UsedWhenTold
<1>2. CASE MinutePasses
  BY <1>2 DEF MinutePasses, CheckoutInv, CheckoutTypeOK, CallsHaveQuotes, QuoteIds, KeysLeadToOrders,
              AnswersAreRecorded, OneOrderPerQuote, CouponInv, PaidIsTold, NamedIsClaimed, UsedWhenTold
<1>3. CASE UNCHANGED checkoutVars
  BY <1>3 DEF checkoutVars, CheckoutInv, CheckoutTypeOK, CallsHaveQuotes, QuoteIds, KeysLeadToOrders,
              AnswersAreRecorded, OneOrderPerQuote, CouponInv, PaidIsTold, NamedIsClaimed, UsedWhenTold
<1>4. ASSUME NEW coupon \in Claimed \cup {NoCoupon}, PricingPreview(coupon) PROVE CheckoutInv'
  BY <1>4, PricingPreviewInv
<1> QED
  BY <1>1, <1>2, <1>3, <1>4, ClaimInv, CreateOrderInv, LookupKeyInv, CreateInv, InsertFailsInv,
     DeleteQuoteInv, CallEndsInv, CancelOrderInv, PayOrderInv DEF CheckoutNext

\* The invariant that carries the proof holds for any number of requests.
THEOREM CheckoutInvariant == CheckoutSpec => []CheckoutInv
BY CheckoutInitInv, CheckoutStepInv, PTL DEF CheckoutSpec

\* A quote makes one order at most, whatever requests for it overlap, are
\* repeated or carry different keys: uq_order_quote decides.
THEOREM QuoteMakesOneOrder == CheckoutSpec => []OneOrderPerQuote
<1>1. CheckoutInv => OneOrderPerQuote
  BY DEF CheckoutInv
<1> QED
  BY <1>1, CheckoutInvariant, PTL

\* All 201s for one Idempotency-Key name one order, which is there: a key that
\* was looked up too early meets uq_idem_subject_key, and the answer is given
\* after the commit only.
THEOREM KeyIsAnsweredAlike == CheckoutSpec => []AnswersOfAKeyAgree
<1>1. CheckoutInv => AnswersOfAKeyAgree
  BY DEF CheckoutInv, KeysLeadToOrders, AnswersAreRecorded, AnswersOfAKeyAgree
<1> QED
  BY <1>1, CheckoutInvariant, PTL

\* A coupon is used exactly when the payment of an order that names it has been
\* handled, also of an order cancelled before, and every paid order has used the
\* coupon it names.
THEOREM CouponUsedWhenTold == CheckoutSpec => []CouponGoesWithItsOrder
<1>1. CheckoutInv => CouponGoesWithItsOrder
  BY DEF CheckoutInv, CouponInv, PaidIsTold, UsedWhenTold, CouponGoesWithItsOrder
<1> QED
  BY <1>1, CheckoutInvariant, PTL
=============================================================================
