--------------------------- MODULE PoolLiquidity ---------------------------
(***************************************************************************)
(* The liquidity create_pool asks the AMM for: what each of the two        *)
(* amounts offered is worth at the initial price, rounded down, and the    *)
(* smaller of the two.  Prices are square roots of prices in fixed point.  *)
(***************************************************************************)
EXTENDS Integers

CONSTANTS
    QuoteScale,     \* 2^128: the fixed point of the quote side
    MaxLiquidity,   \* 2^128 - 1: a liquidity is a u128
    MinSqrtPrice,   \* the pool's price range
    MaxSqrtPrice,
    BaseAmounts,    \* the offers an instance looks at
    QuoteAmounts,
    SqrtPrices

ASSUME PriceAssumption ==
    /\ QuoteScale \in Nat \ {0} /\ MaxLiquidity \in Nat
    /\ MinSqrtPrice \in Nat \ {0} /\ MaxSqrtPrice \in Nat
    /\ BaseAmounts \subseteq Nat /\ QuoteAmounts \subseteq Nat
    /\ SqrtPrices \subseteq Nat

VARIABLES
    offer,      \* what create_pool is about to ask for
    reply,      \* "none", "quoted" or "refused"
    liquidity   \* the answer, once quoted

liquidityVars == <<offer, reply, liquidity>>

Offers == [base : BaseAmounts, quote : QuoteAmounts, sqrtPrice : SqrtPrices]

(* get_initial_liquidity_from_delta_base and ..._quote.                    *)
LiquidityFromBase(o) ==
    (o.base * o.sqrtPrice * MaxSqrtPrice) \div (MaxSqrtPrice - o.sqrtPrice)

LiquidityFromQuote(o) ==
    (o.quote * QuoteScale) \div (o.sqrtPrice - MinSqrtPrice)

(* Below or above the range a difference underflows, at either end of it   *)
(* the divisor is zero: the call fails.                                    *)
InRange(o) == MinSqrtPrice < o.sqrtPrice /\ o.sqrtPrice < MaxSqrtPrice

(* A value fits a u128.  (Variant: off by one.)                            *)
FitsBelow(l) == l < MaxLiquidity

Fits(l) == l <= MaxLiquidity

(* Both sides are cast to u128 before they are compared, so the larger one *)
(* can make the call fail, too.                                            *)
Quotable(o) ==
    /\ InRange(o)
    /\ Fits(LiquidityFromBase(o))
    /\ Fits(LiquidityFromQuote(o))

(* The smaller of the two.  (Variant: the larger.)                         *)
LargerSide(o) ==
    LET b == LiquidityFromBase(o)
        q == LiquidityFromQuote(o)
    IN  IF b <= q THEN q ELSE b

LiquidityDelta(o) ==
    LET b == LiquidityFromBase(o)
        q == LiquidityFromQuote(o)
    IN  IF b <= q THEN b ELSE q

Init ==
    /\ offer \in Offers
    /\ reply = "none"
    /\ liquidity = 0

(* get_liquidity_delta, when it succeeds and when it returns an error.     *)
GetLiquidityDelta ==
    /\ reply = "none"
    /\ Quotable(offer)
    /\ liquidity' = LiquidityDelta(offer)
    /\ reply' = "quoted"
    /\ UNCHANGED offer

RefuseLiquidity ==
    /\ reply = "none"
    /\ ~Quotable(offer)
    /\ reply' = "refused"
    /\ UNCHANGED <<offer, liquidity>>

Next == GetLiquidityDelta \/ RefuseLiquidity

Spec == Init /\ [][Next]_liquidityVars

-----------------------------------------------------------------------------
(* The AMM's side: what a pool of liquidity l takes of each amount.  It    *)
(* rounds up, in favour of the pool.                                       *)
CeilDiv(a, n) == (a + n - 1) \div n

NeededBase(l, o) ==
    CeilDiv(l * (MaxSqrtPrice - o.sqrtPrice), o.sqrtPrice * MaxSqrtPrice)

NeededQuote(l, o) == CeilDiv(l * (o.sqrtPrice - MinSqrtPrice), QuoteScale)

Affordable(l, o) ==
    NeededBase(l, o) <= o.base /\ NeededQuote(l, o) <= o.quote

(* ix_launch_pool.rs:238 "minimum liquidity from both token amounts to     *)
(* ensure balanced pool": the liquidity asked for never needs more of      *)
(* either side than is offered, although the two roundings of the program  *)
(* and the two of the AMM go in opposite directions; and one unit more     *)
(* would.                                                                  *)
LargestAffordable ==
    reply = "quoted" =>
        /\ Affordable(liquidity, offer)
        /\ ~Affordable(liquidity + 1, offer)

(* A launch is refused its liquidity only for a price outside the range or *)
(* an amount that alone is worth more than a u128 of liquidity.            *)
RefusedForCause ==
    reply = "refused" /\ InRange(offer) =>
        \/ NeededBase(MaxLiquidity + 1, offer) <= offer.base
        \/ NeededQuote(MaxLiquidity + 1, offer) <= offer.quote
=============================================================================
