-------------------------- MODULE TokenMathProofs --------------------------
(***************************************************************************)
(* What the launch pad's arithmetic returns, for all amounts.              *)
(***************************************************************************)
EXTENDS TokenMath, TLAPS

(* A product of naturals is monotone in its second factor.                 *)
LEMMA ProductMonotone ==
    \A a, b, c \in Nat : b <= c => a * b <= a * c
<1> SUFFICES ASSUME NEW a \in Nat, NEW b \in Nat, NEW c \in Nat, b <= c
             PROVE  a * b <= a * c
    OBVIOUS
<1> DEFINE d == c - b
<1>1. d \in Nat /\ c = b + d
    OBVIOUS
<1>2. a * c = a * b + a * d
    BY <1>1
<1>3. a * d \in Nat /\ a * b \in Nat
    BY <1>1
<1> QED
    BY <1>2, <1>3

(* Integer division of naturals: the quotient is a natural, and times the  *)
(* divisor it does not exceed the dividend.                                *)
LEMMA Quotient ==
    \A a \in Nat, n \in Nat \ {0} :
        /\ a \div n \in Nat
        /\ n * (a \div n) <= a
        /\ a < n * (a \div n) + n
OBVIOUS

(* A fraction b/n of a, rounded down, is at most a.                        *)
LEMMA FractionBounded ==
    \A a, b \in Nat, n \in Nat \ {0} :
        b <= n => (a * b) \div n \in 0 .. a
<1> SUFFICES ASSUME NEW a \in Nat, NEW b \in Nat, NEW n \in Nat \ {0},
                    b <= n
             PROVE  (a * b) \div n \in 0 .. a
    OBVIOUS
<1> DEFINE q == (a * b) \div n
<1>1. a * b \in Nat /\ a * b <= a * n
    BY ProductMonotone
<1>2. q \in Nat /\ n * q <= a * b
    BY <1>1, Quotient
<1>3. ~(q >= a + 1)
    <2> SUFFICES ASSUME q >= a + 1 PROVE FALSE
        OBVIOUS
    <2>1. n * (a + 1) <= n * q
        BY <1>2, ProductMonotone
    <2>2. n * (a + 1) = a * n + n
        OBVIOUS
    <2> QED
        BY <2>1, <2>2, <1>1, <1>2
<1> QED
    BY <1>2, <1>3

(* Whatever rate is configured, even one above 100%, the fee is part of    *)
(* the refunded amount: fee and payment add up to it and neither is        *)
(* negative (ix_refund.rs checks this at run time).                        *)
THEOREM FeeWithinAmount ==
    \A amount, bps \in Nat : RefundFee(amount, bps) \in 0 .. amount
<1> SUFFICES ASSUME NEW amount \in Nat, NEW bps \in Nat
             PROVE  RefundFee(amount, bps) \in 0 .. amount
    OBVIOUS
<1>1. EffectiveFeeBps(bps) \in Nat /\ EffectiveFeeBps(bps) <= BasisPoints
    BY DEF EffectiveFeeBps, BasisPoints
<1> QED
    BY <1>1, FractionBounded DEF RefundFee, BasisPoints

(* The shares of n backers never add up to more than what is shared.       *)
THEOREM SharesWithinTotal ==
    \A total \in Nat, n \in Nat \ {0} :
        Share(total, n) \in Nat /\ n * Share(total, n) <= total
BY Quotient DEF Share

(* The tier is one of five percentages.                                    *)
LEMMA TierPctRange == \A bp : TierPct(bp) \in {0, 25, 50, 75, 100}
BY DEF TierPct

(* A snapshot never assigns a backer more than a full share.               *)
THEOREM AllocationWithinShare ==
    \A per \in Nat : \A bp : Allocation(per, TierPct(bp)) \in 0 .. per
<1> SUFFICES ASSUME NEW per \in Nat, NEW bp
             PROVE  Allocation(per, TierPct(bp)) \in 0 .. per
    OBVIOUS
<1>1. TierPct(bp) \in Nat /\ TierPct(bp) <= 100
    BY TierPctRange
<1> QED
    BY <1>1, FractionBounded DEF Allocation

(* Whoever holds what is expected is in the top tier, which is a full      *)
(* share: no rounding on the way takes a token of it.                      *)
THEOREM ExpectedHoldingEarnsAll ==
    \A per, cycle, actual \in Nat :
        LET expected == ExpectedHolding(per, cycle)
        IN  expected > 0 /\ actual >= expected =>
                Allocation(per, TierPct(HoldingBp(actual, expected))) = per
<1> SUFFICES ASSUME NEW per \in Nat, NEW cycle \in Nat, NEW actual \in Nat,
                    ExpectedHolding(per, cycle) > 0,
                    actual >= ExpectedHolding(per, cycle)
             PROVE  Allocation(per, TierPct(HoldingBp(actual,
                        ExpectedHolding(per, cycle)))) = per
    OBVIOUS
<1> DEFINE expected == ExpectedHolding(per, cycle)
           bp == (actual * 10000) \div expected
<1>1. expected \in Nat \ {0} /\ actual * 10000 >= expected * 10000
    BY DEF ExpectedHolding
<1>2. bp >= 10000
    <2> HIDE DEF expected
    <2>1. bp \in Nat /\ actual * 10000 < expected * bp + expected
        BY <1>1, Quotient
    <2>2. ~(bp <= 9999)
        <3> SUFFICES ASSUME bp <= 9999 PROVE FALSE
            OBVIOUS
        <3>1. expected * bp <= expected * 9999
            BY <1>1, <2>1, ProductMonotone
        <3> QED
            BY <1>1, <2>1, <3>1
    <2> QED
        BY <2>1, <2>2
<1>3. TierPct(HoldingBp(actual, expected)) = 100
    BY <1>2 DEF TierPct, HoldingBp, BasisPoints
<1>4. (per * 100) \div 100 = per
    OBVIOUS
<1> QED
    BY <1>3, <1>4 DEF Allocation

(* A reputation score is a percentage.                                     *)
THEOREM ReputationRange ==
    \A balance \in Nat, per \in Nat \ {0} :
        Reputation(balance, per) \in 0 .. FullReputation
<1> SUFFICES ASSUME NEW balance \in Nat, NEW per \in Nat \ {0}
             PROVE  Reputation(balance, per) \in 0 .. FullReputation
    OBVIOUS
<1>1. CASE balance >= per
    BY <1>1 DEF Reputation, FullReputation
<1>2. CASE balance < per
    <2>1. balance * FullReputation = FullReputation * balance
        BY DEF FullReputation
    <2>2. (FullReputation * balance) \div per \in 0 .. FullReputation
        BY <1>2, FractionBounded DEF FullReputation
    <2> QED
        BY <1>2, <2>1, <2>2 DEF Reputation
<1> QED
    BY <1>1, <1>2

(* The burn is a number of tokens, at most 100 per backer.                 *)
LEMMA BurnRange ==
    \A holders, reputation \in Nat :
        BurnAmount(holders, reputation) \in 0 .. holders * FullReputation
BY DEF BurnAmount, FullReputation
=============================================================================
