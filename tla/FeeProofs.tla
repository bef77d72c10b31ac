----------------------------- MODULE FeeProofs -----------------------------
(***************************************************************************)
(* Theorems about the program with fee collection (FeeSpec): whichever     *)
(* pools earn fees and are claimed, in whatever order and whatever the     *)
(* proposals do, the fees pass through and nothing else is disturbed.      *)
(***************************************************************************)
EXTENDS FeeCollection, LaunchpadProofs

(* No more is claimed than was earned.                                     *)
FeeTypeOK ==
    /\ feesEarned \in [Mints -> Sides]
    /\ feesClaimed \in [Mints -> Sides]
    /\ \A m \in Mints : /\ feesClaimed[m].a <= feesEarned[m].a
                        /\ feesClaimed[m].b <= feesEarned[m].b
    /\ feeIncome \in [Mints -> [Recipients -> Sides]]
    /\ tempWsol \subseteq Proposals \X Recipients

(* The two parts of a split are the whole, and the maker's is not larger.  *)
LEMMA SplitIsWhole ==
    ASSUME NEW n \in Nat
    PROVE  /\ SplitEven(n)["treasury"] \in Nat
           /\ SplitEven(n)["maker"] \in Nat
           /\ SplitEven(n)["treasury"] + SplitEven(n)["maker"] = n
           /\ SplitEven(n)["maker"] <= SplitEven(n)["treasury"]
BY DEF SplitEven

LEMMA PlusInSides ==
    ASSUME NEW x \in Sides, NEW y \in Sides
    PROVE  Plus(x, y) \in Sides
BY DEF Sides, Plus

LEMMA PendingInSides ==
    ASSUME FeeTypeOK, NEW m \in Mints
    PROVE  Pending(m) \in Sides
BY DEF FeeTypeOK, Pending, Sides

(* Whole tokens survive the way through base units.                        *)
LEMMA WholeTokensStay ==
    ASSUME NEW n \in Nat, NEW x \in Nat,
           NEW a \in Nat, NEW b \in Nat, a + b = x
    PROVE  (n * BaseUnits + x - a - b) \div BaseUnits = n
<1>1. BaseUnits \in Nat \ {0}
    BY AmountsAssumption
<1>2. n * BaseUnits \in Nat /\ n * BaseUnits = BaseUnits * n
    BY <1>1
<1>3. n * BaseUnits + x - a - b = n * BaseUnits
    BY <1>2
<1> DEFINE q == (n * BaseUnits) \div BaseUnits
<1>4. /\ q \in Nat
      /\ BaseUnits * q <= BaseUnits * n
      /\ BaseUnits * n < BaseUnits * q + BaseUnits
    BY <1>1, <1>2, Quotient
<1> HIDE DEF q
<1>5. ~(q >= n + 1)
    <2> SUFFICES ASSUME q >= n + 1 PROVE FALSE
        OBVIOUS
    <2>1. BaseUnits * (n + 1) <= BaseUnits * q
        BY <1>1, <1>4, ProductMonotone
    <2>2. BaseUnits * (n + 1) = BaseUnits * n + BaseUnits
        BY <1>1
    <2>3. BaseUnits * n \in Nat /\ BaseUnits * q \in Nat
        BY <1>1, <1>4
    <2> QED
        BY <1>1, <1>4, <2>1, <2>2, <2>3
<1>6. ~(n >= q + 1)
    <2> SUFFICES ASSUME n >= q + 1 PROVE FALSE
        OBVIOUS
    <2>1. BaseUnits * (q + 1) <= BaseUnits * n
        BY <1>1, <1>4, ProductMonotone
    <2>2. BaseUnits * (q + 1) = BaseUnits * q + BaseUnits
        BY <1>1, <1>4
    <2>3. BaseUnits * n \in Nat /\ BaseUnits * q \in Nat
        BY <1>1, <1>4
    <2> QED
        BY <1>1, <1>4, <2>1, <2>2, <2>3
<1>7. q = n
    BY <1>4, <1>5, <1>6
<1> QED
    BY <1>3, <1>7 DEF q

-----------------------------------------------------------------------------
(* What a claim does: the vaults keep what they held, and the vault        *)
(* authority gains the rent of the accounts it closes.                     *)
LEMMA ClaimPassesThrough ==
    ASSUME TypeOK, FeeTypeOK, NEW m \in Mints, ClaimPoolFee(m)
    PROVE  /\ tokenVault' = tokenVault
           /\ wsolVault' = wsolVault
           /\ vaultAuthority' = vaultAuthority
                  + TempRent * Cardinality(tempWsol \ tempWsol')
           /\ vaultAuthority' \in Nat /\ treasury' \in Nat
<1> DEFINE p == m[1]
           x == Pending(m)
           a == SplitEven(x.a)
           b == SplitEven(x.b)
           used == TempsFor(p, b)
<1>1. x \in Sides /\ x.a \in Nat /\ x.b \in Nat
    BY PendingInSides DEF Sides
<1>2. /\ a["treasury"] \in Nat /\ a["maker"] \in Nat
      /\ a["treasury"] + a["maker"] = x.a
      /\ b["treasury"] \in Nat /\ b["maker"] \in Nat
      /\ b["treasury"] + b["maker"] = x.b
    BY <1>1, SplitIsWhole
<1>3. /\ tokenVault' =
             [tokenVault EXCEPT ![m] =
                 (tokenVault[m] * BaseUnits + x.a - a["treasury"]
                      - a["maker"]) \div BaseUnits]
      /\ wsolVault' = wsolVault + x.b - b["treasury"] - b["maker"]
      /\ tempWsol' = tempWsol \ used /\ used \subseteq tempWsol
      /\ vaultAuthority' = vaultAuthority
             + (b["treasury"] + b["maker"] + TempRent * Cardinality(used))
             - b["treasury"] - b["maker"]
      /\ treasury' = treasury + b["treasury"]
    BY DEF ClaimPoolFee, Unwrapped
<1>4. Cardinality(used) \in Nat
    <2>1. IsFiniteSet(Recipients)
        <3>1. IsFiniteSet({"treasury"}) /\ IsFiniteSet({"maker"})
            BY FS_Singleton
        <3>2. Recipients = {"treasury"} \cup {"maker"}
            BY DEF Recipients
        <3> QED
            BY <3>1, <3>2, FS_Union
    <2>2. IsFiniteSet({p} \X Recipients)
        BY <2>1, FS_Singleton, FS_Product
    <2>3. used \in SUBSET ({p} \X Recipients)
        BY DEF TempsFor
    <2>4. IsFiniteSet(used)
        BY <2>2, <2>3, FS_Subset
    <2> QED
        BY <2>4, FS_CardinalityType
<1> HIDE DEF p, x, a, b, used
<1>5. tokenVault' = tokenVault
    <2>1. tokenVault \in [Mints -> Nat]
        BY DEF TypeOK
    <2>2. (tokenVault[m] * BaseUnits + x.a - a["treasury"] - a["maker"])
              \div BaseUnits = tokenVault[m]
        <3> DEFINE at == a["treasury"]
                   am == a["maker"]
                   n == tokenVault[m]
                   xa == x.a
        <3>1. n \in Nat /\ xa \in Nat /\ at \in Nat /\ am \in Nat
                  /\ at + am = xa
            BY <1>1, <1>2, <2>1
        <3> HIDE DEF at, am, n, xa
        <3>2. (n * BaseUnits + xa - at - am) \div BaseUnits = n
            BY <3>1, WholeTokensStay
        <3> QED
            BY <3>2 DEF at, am, n, xa
    <2> QED
        BY <1>3, <2>1, <2>2
<1>6. wsolVault' = wsolVault
    BY <1>1, <1>2, <1>3 DEF TypeOK
<1>7. tempWsol \ tempWsol' = used
    BY <1>3
<1>8. TempRent * Cardinality(used) \in Nat
    BY <1>4, FeeAssumption
<1>9. vaultAuthority' = vaultAuthority + TempRent * Cardinality(used)
    BY <1>2, <1>3, <1>8 DEF TypeOK
<1>10. vaultAuthority' \in Nat /\ treasury' \in Nat
    BY <1>2, <1>3, <1>8, <1>9 DEF TypeOK
<1> QED
    BY <1>5, <1>6, <1>7, <1>9, <1>10
-----------------------------------------------------------------------------
(* Collecting fees keeps the invariant of the program: a claim writes only *)
(* balances, and leaves those of the token vault as they were.             *)
FeeInv == LedgerInv /\ FeeTypeOK

LEMMA FeeInvInit == FeeInit => FeeInv /\ FeesAccounted
<1> SUFFICES ASSUME FeeInit PROVE FeeInv /\ FeesAccounted
    OBVIOUS
<1>1. LedgerInv
    BY LedgerInvInit DEF FeeInit
<1>2. NoFees \in Sides
    BY DEF NoFees, Sides
<1>3. FeeTypeOK
    BY <1>2, FeeAssumption DEF FeeInit, FeeTypeOK, NoFees
<1>4. FeesAccounted
    BY DEF FeeInit, FeesAccounted, NoFees, Plus, Recipients
<1> QED
    BY <1>1, <1>3, <1>4 DEF FeeInv

LEMMA EarnedStaysTyped ==
    ASSUME FeeTypeOK, NEW m \in Mints,
           NEW f \in [a : SwapFees, b : SwapFees], EarnFees(m, f)
    PROVE  FeeTypeOK'
<1>1. f \in Sides
    BY FeeAssumption DEF Sides
<1>2. Plus(feesEarned[m], f) \in Sides
    BY <1>1, PlusInSides DEF FeeTypeOK
<1>3. /\ feesEarned' = [feesEarned EXCEPT ![m] = Plus(feesEarned[m], f)]
      /\ UNCHANGED <<feesClaimed, feeIncome, tempWsol>>
    BY DEF EarnFees
<1>4. \A k \in Mints : /\ feesClaimed[k].a <= feesEarned'[k].a
                        /\ feesClaimed[k].b <= feesEarned'[k].b
    <2>1. /\ feesClaimed[m].a <= Plus(feesEarned[m], f).a
          /\ feesClaimed[m].b <= Plus(feesEarned[m], f).b
        <3>1. /\ feesEarned[m].a \in Nat /\ feesEarned[m].b \in Nat
              /\ feesClaimed[m].a \in Nat /\ feesClaimed[m].b \in Nat
              /\ feesClaimed[m].a <= feesEarned[m].a
              /\ feesClaimed[m].b <= feesEarned[m].b
              /\ f.a \in Nat /\ f.b \in Nat
            BY <1>1 DEF FeeTypeOK, Sides
        <3> QED
            BY <3>1 DEF Plus
    <2> QED
        BY <1>3, <2>1 DEF FeeTypeOK
<1> QED
    BY <1>2, <1>3, <1>4 DEF FeeTypeOK

LEMMA ClaimedStaysTyped ==
    ASSUME FeeTypeOK, NEW m \in Mints, ClaimPoolFee(m)
    PROVE  /\ FeeTypeOK'
           /\ feesClaimed'[m] = feesEarned[m]
<1> DEFINE x == Pending(m)
           a == SplitEven(x.a)
           b == SplitEven(x.b)
           paid == [r \in Recipients |-> [a |-> a[r], b |-> b[r]]]
<1>1. x \in Sides /\ x.a \in Nat /\ x.b \in Nat
    BY PendingInSides DEF Sides
<1>2. \A r \in Recipients : a[r] \in Nat /\ b[r] \in Nat
    BY <1>1, SplitIsWhole DEF Recipients
<1>3. /\ feesClaimed' = [feesClaimed EXCEPT ![m] = Plus(feesClaimed[m], x)]
      /\ feeIncome' = [feeIncome EXCEPT ![m] =
             [r \in Recipients |->
                 Plus(feeIncome[m][r], [a |-> a[r], b |-> b[r]])]]
      /\ feesEarned' = feesEarned
      /\ tempWsol' \subseteq tempWsol
    BY DEF ClaimPoolFee
<1>4. Plus(feesClaimed[m], x) = feesEarned[m]
    <2>1. /\ feesEarned[m] \in Sides /\ feesClaimed[m] \in Sides
          /\ feesClaimed[m].a <= feesEarned[m].a
          /\ feesClaimed[m].b <= feesEarned[m].b
        BY DEF FeeTypeOK
    <2>2. feesEarned[m] = [a |-> feesEarned[m].a, b |-> feesEarned[m].b]
        BY <2>1 DEF Sides
    <2> QED
        BY <2>1, <2>2 DEF Plus, Pending, Sides
<1>5. \A r \in Recipients :
          Plus(feeIncome[m][r], [a |-> a[r], b |-> b[r]]) \in Sides
    <2> TAKE r \in Recipients
    <2>1. feeIncome[m][r] \in Sides
        BY DEF FeeTypeOK
    <2>2. [a |-> a[r], b |-> b[r]] \in Sides
        BY <1>2 DEF Sides
    <2> QED
        BY <2>1, <2>2, PlusInSides
<1> HIDE DEF x, a, b
<1>6. /\ feesClaimed' \in [Mints -> Sides]
      /\ feeIncome' \in [Mints -> [Recipients -> Sides]]
    BY <1>3, <1>4, <1>5 DEF FeeTypeOK
<1>7. \A k \in Mints : /\ feesClaimed'[k].a <= feesEarned'[k].a
                        /\ feesClaimed'[k].b <= feesEarned'[k].b
    BY <1>3, <1>4 DEF FeeTypeOK, Sides
<1> QED
    BY <1>3, <1>4, <1>6, <1>7 DEF FeeTypeOK

LEMMA FeeInvNext == FeeInv /\ [FeeNext]_allVars => FeeInv'
<1> SUFFICES ASSUME FeeInv, [FeeNext]_allVars PROVE FeeInv'
    OBVIOUS
<1>0. LedgerInv /\ FeeTypeOK /\ TypeOK
    BY DEF FeeInv, LedgerInv, TypeInv
<1>1. CASE Next /\ UNCHANGED feeVars
    <2>1. FeeTypeOK'
        BY <1>0, <1>1 DEF feeVars, FeeTypeOK
    <2> QED
        BY <1>0, <1>1, <2>1, LedgerInvNext DEF FeeInv
<1>2. ASSUME NEW m \in Mints, NEW f \in [a : SwapFees, b : SwapFees],
             EarnFees(m, f)
      PROVE  FeeInv'
    <2>1. UNCHANGED vars
        BY <1>2 DEF EarnFees
    <2> QED
        BY <1>0, <1>2, <2>1, LedgerInvNext, EarnedStaysTyped DEF FeeInv
<1>3. ASSUME NEW m \in Mints, ClaimPoolFee(m) PROVE FeeInv'
    <2>1. /\ tokenVault' = tokenVault /\ wsolVault' = wsolVault
          /\ vaultAuthority' \in Nat /\ treasury' \in Nat
        BY <1>0, <1>3, ClaimPassesThrough
    <2>2. UNCHANGED <<environment, makerVars, backingVars, launchVars,
                      milestoneVars, rewardVars, mintable, metadata, supply,
                      tokenVault, holding, isRejected,
                      initialAirdropReceived, activeCount>>
        BY <1>3, <2>1 DEF ClaimPoolFee
    <2>5. accounts' \subseteq Mints \X Wallets
        <3>1. m[1] \in Proposals /\ Maker(m[1]) \in Wallets
            BY DEF Mints, Proposals, Maker, Wallets, Users
        <3>2. accounts \subseteq Mints \X Wallets
            BY <1>0 DEF LedgerInv, TypeInv, TypeOK
        <3>3. accounts' = accounts \cup {<<m, Maker(m[1])>>}
            BY <1>3 DEF ClaimPoolFee
        <3> QED
            BY <3>1, <3>2, <3>3
    <2>3. TypeInv'
        BY <1>0, <2>1, <2>2, <2>5
        DEF LedgerInv, TypeInv, TypeOK, VaultWithinSupply, environment,
            makerVars, backingVars, launchVars, milestoneVars, rewardVars
    <2>4. /\ BackersCounted' /\ OneDecision' /\ WeightedAreSettled'
          /\ SlotsNeverOvercounted' /\ Unborn' /\ NoMarks' /\ CycleOrder'
          /\ ReputationBounded' /\ LaunchableIsMintable'
        BY <1>0, <2>2
        DEF LedgerInv, BackersCounted, OneDecision, WeightedAreSettled,
            SettledBackers, SlotsNeverOvercounted, OpenBackings, Unborn,
            NoMarks, CycleOrder, ReputationBounded, LaunchableIsMintable,
            CurrentMint, environment, makerVars, backingVars, launchVars,
            milestoneVars, rewardVars, tokenVars
    <2> QED
        BY <1>0, <1>3, <2>3, <2>4, ClaimedStaysTyped DEF FeeInv, LedgerInv
<1>4. CASE UNCHANGED allVars
    <2>1. UNCHANGED vars /\ FeeTypeOK'
        BY <1>0, <1>4 DEF allVars, feeVars, FeeTypeOK
    <2> QED
        BY <1>0, <2>1, LedgerInvNext DEF FeeInv
<1> QED
    BY <1>1, <1>2, <1>3, <1>4 DEF FeeNext

LEMMA FeeInvariant == FeeSpec => []FeeInv
BY FeeInvInit, FeeInvNext, PTL DEF FeeSpec

(* A claim credits the treasury and the maker with all of what it takes.   *)
LEMMA FeesAccountedNext ==
    FeeInv /\ FeesAccounted /\ [FeeNext]_allVars => FeesAccounted'
<1> SUFFICES ASSUME FeeInv, FeesAccounted, [FeeNext]_allVars
             PROVE  FeesAccounted'
    OBVIOUS
<1>1. ASSUME NEW m \in Mints, ClaimPoolFee(m) PROVE FeesAccounted'
    <2> DEFINE x == Pending(m)
               a == SplitEven(x.a)
               b == SplitEven(x.b)
               was == feeIncome[m]
    <2>0. FeeTypeOK
        BY DEF FeeInv
    <2>1. x \in Sides /\ x.a \in Nat /\ x.b \in Nat
        BY <2>0, PendingInSides DEF Sides
    <2>2. /\ a["treasury"] \in Nat /\ a["maker"] \in Nat
          /\ a["treasury"] + a["maker"] = x.a
          /\ a["maker"] <= a["treasury"]
          /\ b["treasury"] \in Nat /\ b["maker"] \in Nat
          /\ b["treasury"] + b["maker"] = x.b
          /\ b["maker"] <= b["treasury"]
        BY <2>1, SplitIsWhole
    <2>3. /\ feesClaimed' =
                 [feesClaimed EXCEPT ![m] = Plus(feesClaimed[m], x)]
          /\ feeIncome' = [feeIncome EXCEPT ![m] =
                 [r \in Recipients |->
                     Plus(was[r], [a |-> a[r], b |-> b[r]])]]
        BY <1>1 DEF ClaimPoolFee
    <2>4. /\ was["treasury"] \in Sides /\ was["maker"] \in Sides
          /\ feesClaimed[m] = Plus(was["treasury"], was["maker"])
          /\ was["maker"].a <= was["treasury"].a
          /\ was["maker"].b <= was["treasury"].b
        BY <2>0 DEF FeeTypeOK, FeesAccounted, Recipients
    <2> HIDE DEF x, a, b, was
    <2>5. /\ feeIncome'[m]["treasury"] =
                 Plus(was["treasury"], [a |-> a["treasury"],
                                        b |-> b["treasury"]])
          /\ feeIncome'[m]["maker"] =
                 Plus(was["maker"], [a |-> a["maker"], b |-> b["maker"]])
          /\ feesClaimed'[m] = Plus(feesClaimed[m], x)
        BY <2>0, <2>3 DEF FeeTypeOK, Recipients
    <2>6. /\ was["treasury"].a \in Nat /\ was["treasury"].b \in Nat
          /\ was["maker"].a \in Nat /\ was["maker"].b \in Nat
        BY <2>4 DEF Sides
    <2>7. feesClaimed'[m] =
              Plus(feeIncome'[m]["treasury"], feeIncome'[m]["maker"])
        <3>1. /\ (was["treasury"].a + was["maker"].a) + x.a
                     = (was["treasury"].a + a["treasury"])
                           + (was["maker"].a + a["maker"])
              /\ (was["treasury"].b + was["maker"].b) + x.b
                     = (was["treasury"].b + b["treasury"])
                           + (was["maker"].b + b["maker"])
            BY <2>2, <2>6
        <3> QED
            BY <2>4, <2>5, <3>1 DEF Plus
    <2>8. /\ feeIncome'[m]["maker"].a <= feeIncome'[m]["treasury"].a
          /\ feeIncome'[m]["maker"].b <= feeIncome'[m]["treasury"].b
        BY <2>2, <2>4, <2>5, <2>6 DEF Plus
    <2>9. \A k \in Mints \ {m} :
              feesClaimed'[k] = feesClaimed[k] /\ feeIncome'[k] = feeIncome[k]
        BY <2>0, <2>3 DEF FeeTypeOK
    <2> QED
        BY <2>7, <2>8, <2>9 DEF FeesAccounted
<1>2. CASE UNCHANGED <<feesClaimed, feeIncome>>
    BY <1>2 DEF FeesAccounted
<1> QED
    BY <1>1, <1>2 DEF FeeNext, EarnFees, feeVars, allVars

(* Everything taken out of a pool reached the treasury or the maker.       *)
THEOREM FeesAreAccounted == FeeSpec => []FeesAccounted
<1>1. FeeInit => FeesAccounted
    BY FeeInvInit
<1> QED
    BY FeeInvariant, <1>1, FeesAccountedNext, PTL DEF FeeSpec

(* A claim takes nothing of the airdrop reserve, of the WSOL or of the     *)
(* escrow, and leaves nothing there but the rent of what it closed.        *)
THEOREM FeesPass == FeeSpec => FeesPassThrough
<1> DEFINE Pass ==
        feesClaimed' # feesClaimed =>
            /\ tokenVault' = tokenVault
            /\ wsolVault' = wsolVault
            /\ vaultAuthority' = vaultAuthority
                   + TempRent * Cardinality(tempWsol \ tempWsol')
<1>1. FeeInv /\ [FeeNext]_allVars => [Pass]_allVars
    <2> SUFFICES ASSUME FeeInv, FeeNext PROVE Pass
        OBVIOUS
    <2>1. ASSUME NEW m \in Mints, ClaimPoolFee(m) PROVE Pass
        <3>1. TypeOK /\ FeeTypeOK
            BY DEF FeeInv, LedgerInv, TypeInv
        <3> QED
            BY <2>1, <3>1, ClaimPassesThrough
    <2>2. CASE UNCHANGED feesClaimed
        BY <2>2
    <2> QED
        BY <2>1, <2>2 DEF FeeNext, EarnFees, feeVars
<1> QED
    BY FeeInvariant, <1>1, PTL DEF FeeSpec, FeesPassThrough

(* Collecting fees disturbs nothing: the properties the program has        *)
(* without it, it has with it.                                             *)
THEOREM LedgerUndisturbed ==
    FeeSpec => [](/\ BackersCounted /\ OneDecision /\ SlotsNeverOvercounted
                  /\ WeightedAreSettled /\ CycleOrder /\ ReputationBounded
                  /\ LaunchableIsMintable)
<1>1. FeeInv => /\ BackersCounted /\ OneDecision /\ SlotsNeverOvercounted
                /\ WeightedAreSettled /\ CycleOrder /\ ReputationBounded
                /\ LaunchableIsMintable
    BY DEF FeeInv, LedgerInv
<1> QED
    BY FeeInvariant, <1>1, PTL
=============================================================================
