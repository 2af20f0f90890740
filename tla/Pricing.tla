-------------------------------- MODULE Pricing --------------------------------
(***************************************************************************)
(* The price of a cart: the check of the cart, the amounts, and the choice *)
(* between the best promotion and the coupon.  The engine is a function of *)
(* its input; the preview builds that input from the public menu.  Each    *)
(* SKU is that of a dish of its own.  Why a cart is refused is left out.   *)
(***************************************************************************)
EXTENDS Integers, Sequences, FiniteSets, Functions

CONSTANTS
    Items,          \* SKUs on the menu
    Options,        \* option items on the menu
    Groups,         \* option groups of the dishes on the menu
    ItemPrice, ItemPack, ItemMode,      \* price_cents, packaging_fee_cents, inventory_mode
    ItemLeft,       \* target - reserved - sold of the day, -1 without limit
    OptionPrice, OptionGroup,           \* price_modifier_cents, option_group_id
    GroupRule,      \* [item, single, required, min, max] by group
    Carts,          \* carts a client may send: sequences of [item, qty, opts]
    Promotions,     \* sequences of [threshold, discount] in force
    Vouchers,       \* coupons: [min, discount]
    NoVoucher

\* What CreateProduct lets into the menu, and the CHECKs of the tables.
ValidGroup(g) == g.min >= 0 /\ g.max >= 1 /\ g.min <= g.max

ASSUME PricingAssumption ==
    /\ \A i \in Items : ItemPrice[i] \in Nat /\ ItemPack[i] \in Nat /\ ItemLeft[i] \in Int
    /\ \A o \in Options : OptionPrice[o] \in Nat /\ OptionGroup[o] \in Groups
    /\ \A g \in Groups : ValidGroup(GroupRule[g])
    /\ \A v \in Vouchers : v.min \in Nat /\ v.discount \in Nat \ {0}
    /\ NoVoucher \notin Vouchers
    /\ \A promos \in Promotions :
         /\ promos \in Seq(Range(promos))
         /\ \A i \in DOMAIN promos : promos[i].threshold \in Nat /\ promos[i].discount \in Nat
    /\ \A cart \in Carts :
         /\ cart \in Seq(Range(cart))
         /\ \A l \in DOMAIN cart : cart[l].opts \in Seq(Range(cart[l].opts))

VARIABLES priced    \* the last call of the engine: [asked, in, out], asked by the preview or not

NotPriced == [asked |-> "none"]
PricingInit == priced = NotPriced

(***************************************************************************)
(* The check of the cart.                                                  *)
(***************************************************************************)
Chosen(cart, g) ==
    {o \in Options : OptionGroup[o] = g /\ \E l \in DOMAIN cart : o \in Range(cart[l].opts)}

\* Every group of the menu, over all lines of the cart.
validateOptionGroups(cart) ==
    \A g \in Groups :
        /\ GroupRule[g].required => Chosen(cart, g) # {}
        /\ Cardinality(Chosen(cart, g)) <= IF GroupRule[g].single THEN 1 ELSE GroupRule[g].max

Validate(in) ==
    /\ in.scenario = "DINE_IN" => in.table /\ ~in.scheduled
    /\ in.cart # <<>>
    /\ \A l \in DOMAIN in.cart :
         LET line == in.cart[l] IN
         /\ line.qty \in 1..99
         /\ line.item \in Items
         /\ ItemMode[line.item] = "DAILY" /\ in.left[line.item] >= 0 => line.qty <= in.left[line.item]
         /\ Range(line.opts) \subseteq Options
    /\ validateOptionGroups(in.cart)

(***************************************************************************)
(* The amounts.                                                            *)
(***************************************************************************)
SumOf(s, f(_)) == SumFunction([i \in DOMAIN s |-> f(s[i])])
Unit(line) == ItemPrice[line.item] + SumOf(line.opts, LAMBDA o : OptionPrice[o])
ItemAmount(cart) == SumOf(cart, LAMBDA line : Unit(line) * line.qty)
PackagingFee(in) ==
    IF in.scenario = "PICKUP" THEN SumOf(in.cart, LAMBDA line : ItemPack[line.item] * line.qty) ELSE 0

\* The greatest discount among the promotions whose threshold is reached.
PromotionDiscount(promos, base) ==
    LET D == {0} \cup {promos[i].discount : i \in {j \in DOMAIN promos : base >= promos[j].threshold}}
    IN CHOOSE d \in D : \A e \in D : e <= d
CouponDiscount(coupon, base) ==
    IF coupon = NoVoucher THEN 0 ELSE IF base < coupon.min THEN 0 ELSE coupon.discount

\* The greater one; the promotion when they are equal.
Stacked(in, base) ==
    [kind |-> "both", cents |-> PromotionDiscount(in.promos, base) + CouponDiscount(in.coupon, base)]
Discount(in, base) ==
    LET p == PromotionDiscount(in.promos, base)
        c == CouponDiscount(in.coupon, base) IN
    IF p >= c /\ p > 0 THEN [kind |-> "promotion", cents |-> p]
    ELSE IF c > 0 THEN [kind |-> "coupon", cents |-> c]
    ELSE [kind |-> "none", cents |-> 0]

\* Cut to what there is to pay.
Price(in) ==
    IF ~Validate(in) THEN [ok |-> FALSE]
    ELSE LET gross == ItemAmount(in.cart) + PackagingFee(in)
             d == Discount(in, ItemAmount(in.cart))
             cut == IF d.cents > gross THEN gross ELSE d.cents
         IN [ok |-> TRUE, gross |-> gross, kind |-> d.kind, discount |-> cut, payable |-> gross - cut]

\* The summary of a cart that its quote carries: SKU, quantity and the sorted
\* options of each line, the lines sorted.
LineAsSent(line) == line
LineSummary(line) ==
    [item |-> line.item, qty |-> line.qty,
     opts |-> [o \in Options |-> Cardinality({i \in DOMAIN line.opts : line.opts[i] = o})]]
hashCart(cart) ==
    [s \in {LineSummary(cart[l]) : l \in DOMAIN cart} |->
        Cardinality({l \in DOMAIN cart : LineSummary(cart[l]) = s})]

(***************************************************************************)
(* Calls.                                                                  *)
(***************************************************************************)
\* The engine with any promotions and coupon in force and the stock of the day.
PriceAsked ==
    /\ priced = NotPriced
    /\ \E cart \in Carts, scenario \in {"DINE_IN", "PICKUP"}, promos \in Promotions,
          coupon \in Vouchers \cup {NoVoucher} :
         LET in == [cart |-> cart, scenario |-> scenario, table |-> TRUE, scheduled |-> FALSE,
                    promos |-> promos, coupon |-> coupon, left |-> ItemLeft]
         IN priced' = [asked |-> "engine", in |-> in, out |-> Price(in)]

\* What the preview passes to the engine: AvailableQty is left 0, promotions
\* are not read, and the route has no session to read a coupon with.
buildPricingInput(cart, scenario, scheduled) ==
    [cart |-> cart, scenario |-> scenario, table |-> TRUE, scheduled |-> scheduled,
     promos |-> <<>>, coupon |-> NoVoucher, left |-> [i \in Items |-> 0]]
PreviewAsked ==
    /\ priced = NotPriced
    /\ \E cart \in Carts, scenario \in {"DINE_IN", "PICKUP"}, scheduled \in BOOLEAN :
         LET in == buildPricingInput(cart, scenario, scheduled)
         IN priced' = [asked |-> "preview", in |-> in, out |-> Price(in)]

PricingNext == PriceAsked \/ PreviewAsked

PricingSpec == PricingInit /\ [][PricingNext]_priced

(***************************************************************************)
(* Properties.                                                             *)
(***************************************************************************)
Ok == priced.asked # "none" /\ priced.out.ok

Reordered(s, t, Same(_, _)) ==
    Len(s) = Len(t) /\ \E p \in Bijection(DOMAIN s, DOMAIN s) : \A i \in DOMAIN s : Same(s[i], t[p[i]])
SameLine(a, b) ==
    a.item = b.item /\ a.qty = b.qty /\ Reordered(a.opts, b.opts, LAMBDA o, q : o = q)

\* A coupon never makes a cart dearer and never adds to a promotion: with it
\* the customer pays what one of the two offers alone would leave, the lower
\* (pricing/calc.go:76-88), and not less than nothing; it counts as used only
\* where the promotion alone would have left more to pay.
OffersNeverAdd ==
    Ok => LET in == priced.in
              alone == Price([in EXCEPT !.coupon = NoVoucher]).payable
              voucher == Price([in EXCEPT !.promos = <<>>]).payable
              pay == priced.out.payable
          IN /\ pay = (IF alone <= voucher THEN alone ELSE voucher)
             /\ pay >= 0 /\ pay + priced.out.discount = priced.out.gross
             /\ priced.out.kind = "coupon" => pay < alone \/ pay = 0

\* The order in which a client sends lines and options changes neither the
\* price nor the summary in the quote (pricing/calc.go:131, customer/pricing.go:160).
OrderOfCartIrrelevant ==
    Ok => \A cart \in Carts : Reordered(cart, priced.in.cart, SameLine) =>
            /\ hashCart(cart) = hashCart(priced.in.cart)
            /\ Price([priced.in EXCEPT !.cart = cart]) = priced.out
=============================================================================
