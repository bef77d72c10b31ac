------------------------ MODULE PoolLiquidityProofs ------------------------
(***************************************************************************)
(* The rounding of the liquidity formulas, for all amounts, prices and     *)
(* ranges.                                                                 *)
(***************************************************************************)
EXTENDS PoolLiquidity, TokenMathProofs

(* Rounding down finds the largest multiple of d within n.                 *)
LEMMA FloorIsLargest ==
    ASSUME NEW n \in Nat, NEW d \in Nat \ {0}, NEW l \in Nat
    PROVE  l <= n \div d <=> l * d <= n
<1> DEFINE q == n \div d
<1>1. q \in Nat /\ d * q <= n /\ n < d * q + d
    BY Quotient
<1> HIDE DEF q
<1>2. ASSUME l <= q PROVE l * d <= n
    <2>1. d * l <= d * q
        BY <1>1, <1>2, ProductMonotone
    <2> QED
        BY <1>1, <2>1
<1>3. ASSUME q + 1 <= l PROVE l * d > n
    <2>1. d * (q + 1) <= d * l
        BY <1>1, <1>3, ProductMonotone
    <2>2. d * (q + 1) = d * q + d
        BY <1>1
    <2>3. d * l = l * d
        OBVIOUS
    <2> QED
        BY <1>1, <2>1, <2>2, <2>3
<1>4. l <= q <=> l * d <= n
    BY <1>1, <1>2, <1>3
<1> QED
    BY <1>4 DEF q

(* Rounding up stays within m exactly if the unrounded quotient does.      *)
LEMMA CeilWithin ==
    ASSUME NEW a \in Nat, NEW n \in Nat \ {0}, NEW m \in Nat
    PROVE  CeilDiv(a, n) <= m <=> a <= m * n
<1> DEFINE c == (a + n - 1) \div n
<1>1. /\ a + n - 1 \in Nat
      /\ m + 1 \in Nat
    OBVIOUS
<1>2. m + 1 <= c <=> (m + 1) * n <= a + n - 1
    BY <1>1, FloorIsLargest
<1>3. c \in Nat
    BY <1>1, Quotient
<1>4. (m + 1) * n = m * n + n /\ m * n \in Nat
    OBVIOUS
<1> HIDE DEF c
<1>5. c <= m <=> a <= m * n
    BY <1>2, <1>3, <1>4
<1> QED
    BY <1>5 DEF c, CeilDiv

(* For a price inside the range, the divisors and factors of both sides    *)
(* are positive.                                                           *)
LEMMA RangePositive ==
    ASSUME NEW o \in Offers, InRange(o)
    PROVE  /\ o.base \in Nat /\ o.quote \in Nat
           /\ o.sqrtPrice \in Nat \ {0}
           /\ MaxSqrtPrice \in Nat \ {0}
           /\ MaxSqrtPrice - o.sqrtPrice \in Nat \ {0}
           /\ o.sqrtPrice - MinSqrtPrice \in Nat \ {0}
           /\ o.sqrtPrice * MaxSqrtPrice \in Nat \ {0}
           /\ o.base * o.sqrtPrice * MaxSqrtPrice \in Nat
           /\ o.quote * QuoteScale \in Nat
<1>1. /\ o.base \in Nat /\ o.quote \in Nat /\ o.sqrtPrice \in Nat
      /\ MinSqrtPrice \in Nat \ {0} /\ MaxSqrtPrice \in Nat
      /\ QuoteScale \in Nat \ {0}
    BY PriceAssumption DEF Offers
<1>2. o.sqrtPrice > 0 /\ MaxSqrtPrice > 0
    BY <1>1 DEF InRange
<1>3. o.sqrtPrice * 1 <= o.sqrtPrice * MaxSqrtPrice
    BY <1>1, <1>2, ProductMonotone
<1>4. o.sqrtPrice * MaxSqrtPrice \in Nat \ {0}
    BY <1>1, <1>2, <1>3
<1>5. o.base * o.sqrtPrice * MaxSqrtPrice \in Nat
      /\ o.quote * QuoteScale \in Nat
    BY <1>1
<1> QED
    BY <1>1, <1>2, <1>4, <1>5 DEF InRange

(* What the base and what the quote side pay for is what their formulas    *)
(* say.                                                                    *)
LEMMA BaseSide ==
    ASSUME NEW o \in Offers, InRange(o), NEW l \in Nat
    PROVE  NeededBase(l, o) <= o.base <=> l <= LiquidityFromBase(o)
<1> DEFINE d == MaxSqrtPrice - o.sqrtPrice
           n == o.sqrtPrice * MaxSqrtPrice
<1>1. o.base \in Nat /\ d \in Nat \ {0} /\ n \in Nat \ {0}
          /\ o.base * o.sqrtPrice * MaxSqrtPrice \in Nat
          /\ o.sqrtPrice \in Nat /\ MaxSqrtPrice \in Nat
    BY RangePositive
<1>2. l * d \in Nat
    BY <1>1
<1>3. NeededBase(l, o) <= o.base <=> l * d <= o.base * n
    BY <1>1, <1>2, CeilWithin DEF NeededBase
<1>4. o.base * n = o.base * o.sqrtPrice * MaxSqrtPrice
    BY <1>1
<1>5. l <= LiquidityFromBase(o)
          <=> l * d <= o.base * o.sqrtPrice * MaxSqrtPrice
    BY <1>1, FloorIsLargest DEF LiquidityFromBase
<1> QED
    BY <1>3, <1>4, <1>5

LEMMA QuoteSide ==
    ASSUME NEW o \in Offers, InRange(o), NEW l \in Nat
    PROVE  NeededQuote(l, o) <= o.quote <=> l <= LiquidityFromQuote(o)
<1> DEFINE d == o.sqrtPrice - MinSqrtPrice
<1>1. o.quote \in Nat /\ d \in Nat \ {0} /\ o.quote * QuoteScale \in Nat
          /\ QuoteScale \in Nat \ {0}
    BY RangePositive, PriceAssumption
<1>2. l * d \in Nat
    BY <1>1
<1>3. NeededQuote(l, o) <= o.quote <=> l * d <= o.quote * QuoteScale
    BY <1>1, <1>2, CeilWithin DEF NeededQuote
<1>4. l <= LiquidityFromQuote(o) <=> l * d <= o.quote * QuoteScale
    BY <1>1, FloorIsLargest DEF LiquidityFromQuote
<1> QED
    BY <1>3, <1>4

LEMMA SidesNat ==
    ASSUME NEW o \in Offers, InRange(o)
    PROVE  LiquidityFromBase(o) \in Nat /\ LiquidityFromQuote(o) \in Nat
BY RangePositive, Quotient DEF LiquidityFromBase, LiquidityFromQuote

(* For every price inside the range: the pool that is asked for can be     *)
(* paid with what is offered, and no larger one can, so the amounts the    *)
(* AMM takes never exceed the vaults create_pool has filled.               *)
THEOREM DeltaIsLargestAffordable ==
    ASSUME NEW o \in Offers, InRange(o), NEW l \in Nat
    PROVE  Affordable(l, o) <=> l <= LiquidityDelta(o)
BY BaseSide, QuoteSide, SidesNat DEF Affordable, LiquidityDelta

(* A pool with any liquidity takes something of both sides.                *)
THEOREM PoolTakesBothSides ==
    ASSUME NEW o \in Offers, InRange(o), NEW l \in Nat \ {0}
    PROVE  NeededBase(l, o) > 0 /\ NeededQuote(l, o) > 0
<1> DEFINE db == MaxSqrtPrice - o.sqrtPrice
           dq == o.sqrtPrice - MinSqrtPrice
           n  == o.sqrtPrice * MaxSqrtPrice
<1>1. db \in Nat \ {0} /\ dq \in Nat \ {0} /\ n \in Nat \ {0}
          /\ QuoteScale \in Nat \ {0}
    BY RangePositive, PriceAssumption
<1> HIDE DEF db, dq, n
<1>2. l * 1 <= l * db /\ l * 1 <= l * dq
    BY <1>1, ProductMonotone
<1>3. l * db \in Nat /\ l * dq \in Nat /\ l * db > 0 /\ l * dq > 0
    BY <1>1, <1>2
<1>4. ASSUME NEW a \in Nat, NEW k \in Nat \ {0}, a > 0
      PROVE  CeilDiv(a, k) > 0
    <2>1. CeilDiv(a, k) \in Nat
        BY Quotient DEF CeilDiv
    <2>2. CeilDiv(a, k) <= 0 <=> a <= 0 * k
        BY CeilWithin
    <2>3. 0 * k = 0
        OBVIOUS
    <2> QED
        BY <1>4, <2>1, <2>2, <2>3
<1>5. CeilDiv(l * db, n) > 0 /\ CeilDiv(l * dq, QuoteScale) > 0
    BY <1>1, <1>3, <1>4
<1> QED
    BY <1>5 DEF NeededBase, NeededQuote, db, dq, n

-----------------------------------------------------------------------------
Quoted ==
    /\ offer \in Offers
    /\ reply = "quoted" =>
           InRange(offer) /\ liquidity = LiquidityDelta(offer)

(* Whatever is quoted is the largest liquidity both offers pay for.        *)
THEOREM QuotesAreLargest == Spec => []LargestAffordable
<1>1. Init => Quoted
    BY DEF Init, Quoted
<1>2. Quoted /\ [Next]_liquidityVars => Quoted'
    BY DEF Quoted, Next, GetLiquidityDelta, RefuseLiquidity, Quotable,
           liquidityVars
<1>3. Quoted => LargestAffordable
    <2> SUFFICES ASSUME Quoted, reply = "quoted"
                 PROVE  /\ Affordable(liquidity, offer)
                        /\ ~Affordable(liquidity + 1, offer)
        BY DEF LargestAffordable
    <2>1. offer \in Offers /\ InRange(offer)
              /\ liquidity = LiquidityDelta(offer)
        BY DEF Quoted
    <2>2. LiquidityDelta(offer) \in Nat
        BY <2>1, SidesNat DEF LiquidityDelta
    <2>3. liquidity \in Nat /\ liquidity + 1 \in Nat
        BY <2>1, <2>2
    <2>4. Affordable(liquidity, offer) <=> liquidity <= LiquidityDelta(offer)
        BY <2>1, <2>3, DeltaIsLargestAffordable
    <2>5. Affordable(liquidity + 1, offer)
              <=> liquidity + 1 <= LiquidityDelta(offer)
        BY <2>1, <2>3, DeltaIsLargestAffordable
    <2> QED
        BY <2>1, <2>3, <2>4, <2>5
<1> QED
    BY <1>1, <1>2, <1>3, PTL DEF Spec

(* A refusal says that the offer is not quotable.                          *)
Refused == offer \in Offers /\ (reply = "refused" => ~Quotable(offer))

(* A launch is refused its liquidity only for a price outside the range,   *)
(* or because one of the two amounts alone pays for more liquidity than a  *)
(* u128 holds: no rounding of either formula ever causes a refusal.        *)
THEOREM RefusalsHaveCause == Spec => []RefusedForCause
<1>1. Init => Refused
    BY DEF Init, Refused
<1>2. Refused /\ [Next]_liquidityVars => Refused'
    BY DEF Refused, Next, GetLiquidityDelta, RefuseLiquidity, Quotable,
           InRange, Fits, LiquidityFromBase, LiquidityFromQuote,
           liquidityVars
<1>3. Refused => RefusedForCause
    <2> SUFFICES ASSUME Refused, reply = "refused", InRange(offer)
                 PROVE  \/ NeededBase(MaxLiquidity + 1, offer) <= offer.base
                        \/ NeededQuote(MaxLiquidity + 1, offer) <= offer.quote
        BY DEF RefusedForCause
    <2>1. offer \in Offers /\ MaxLiquidity + 1 \in Nat /\ MaxLiquidity \in Nat
        BY PriceAssumption DEF Refused
    <2>2. /\ LiquidityFromBase(offer) \in Nat
          /\ LiquidityFromQuote(offer) \in Nat
        BY <2>1, SidesNat
    <2>3. \/ ~(LiquidityFromBase(offer) <= MaxLiquidity)
          \/ ~(LiquidityFromQuote(offer) <= MaxLiquidity)
        BY DEF Refused, Quotable, Fits
    <2>4. \/ MaxLiquidity + 1 <= LiquidityFromBase(offer)
          \/ MaxLiquidity + 1 <= LiquidityFromQuote(offer)
        BY <2>1, <2>2, <2>3
    <2> QED
        BY <2>1, <2>4, BaseSide, QuoteSide
<1> QED
    BY <1>1, <1>2, <1>3, PTL DEF Spec
=============================================================================
