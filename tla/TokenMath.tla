----------------------------- MODULE TokenMath -----------------------------
(***************************************************************************)
(* The arithmetic of the launch pad: refund fees, shares of an airdrop,    *)
(* the tier a holder falls into, reputation and the burn.  All amounts are *)
(* whole tokens or lamports; `\div` is Rust's integer division, which      *)
(* rounds down.  The code's u64 saturation never bites for supplies below  *)
(* 2^64 / 10_000 whole tokens, so these operators work in Nat.             *)
(***************************************************************************)
EXTENDS Integers

BasisPoints == 10000

(* Share of the deposit the treasury keeps.  A rate above 100% is taken    *)
(* for an uninitialised field and treated as zero.                         *)
EffectiveFeeBps(bps) == IF bps > BasisPoints THEN 0 ELSE bps

RefundFee(amount, bps) == (amount * EffectiveFeeBps(bps)) \div BasisPoints

(* What one of n backers gets of an airdrop of `total` tokens.             *)
Share(total, n) == total \div n

(* The holding a snapshot expects of a backer in cycle `cycle`, and the    *)
(* one it sees: the balance plus a full share for every settled cycle the  *)
(* backer has not claimed yet.                                             *)
ExpectedHolding(per, cycle) == per * cycle

ActualHolding(balance, per, pending) == balance + per * pending

HoldingBp(actual, expected) == (actual * BasisPoints) \div expected

TierPct(bp) ==
    IF bp >= 10000 THEN 100
    ELSE IF bp >= 7500 THEN 75
    ELSE IF bp >= 5000 THEN 50
    ELSE IF bp >= 2500 THEN 25
    ELSE 0

Allocation(per, pct) == (per * pct) \div 100

(* How much of the initial airdrop an original holder still holds, in      *)
(* percent and capped at 100.  (Variant: without the cap.)                 *)
FullReputation == 100

UncappedReputation(balance, per) == (balance * FullReputation) \div per

Reputation(balance, per) ==
    IF balance >= per THEN FullReputation
    ELSE (balance * FullReputation) \div per

(* One token per missing point of reputation is burnt.                     *)
BurnAmount(holders, reputation) ==
    LET most == holders * FullReputation
    IN  IF reputation > most THEN 0 ELSE most - reputation
=============================================================================
