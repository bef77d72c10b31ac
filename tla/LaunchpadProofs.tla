-------------------------- MODULE LaunchpadProofs --------------------------
(***************************************************************************)
(* Theorems about every instruction in every order (Spec), for every       *)
(* value of the constants.                                                 *)
(***************************************************************************)
EXTENDS Launchpad, TokenMathProofs, FiniteSetTheorems

(* The program never holds more of a token than exists, so a burn from its *)
(* vault can always be taken off the supply: what makes TypeOK inductive.  *)
VaultWithinSupply == \A m \in Mints : tokenVault[m] <= supply[m]

TypeInv == TypeOK /\ VaultWithinSupply

(* The initial state is well typed.                                        *)
LEMMA TypeInit == Init => TypeInv
BY WalletsAssumption, BoundsAssumption, AmountsAssumption
DEF Init, TypeInv, TypeOK, VaultWithinSupply, Users

(* The configuration's fields and what the actions compute from them are   *)
(* naturals.                                                               *)
LEMMA ConfigNat ==
    ASSUME TypeOK
    PROVE  /\ config \in Configs
           /\ config.amountToRaisePerUser \in Nat
           /\ config.totalMint \in Nat
           /\ config.totalPoolTokens \in Nat
           /\ config.makerTokenAmount \in Nat
           /\ config.totalAirdropAmountPerMilestone \in Nat
           /\ config.refundFeeBasisPoints \in Nat
BY AmountsAssumption DEF TypeOK, Configs

LEMMA PerBackerNat ==
    ASSUME TypeOK, NEW p \in Proposals, totalBackers[p] > 0
    PROVE  PerBacker(p) \in Nat
<1>1. totalBackers[p] \in Nat \ {0}
    BY DEF TypeOK
<1>2. config.totalAirdropAmountPerMilestone \in Nat
    BY ConfigNat
<1> QED
    BY <1>1, <1>2, SharesWithinTotal DEF PerBacker

(* A payment of n leaves one vault of the program, in whole tokens or in   *)
(* wrapped SOL, and never overdraws it.                                    *)
LEMMA PaymentKinds ==
    ASSUME TypeOK, NEW b \in Backers, NEW m \in Mints \cup {Wsol},
           NEW n \in Nat, PayFromVault(m, b, n)
    PROVE  /\ wsolVault' \in Nat
           /\ \/ /\ m \in Mints /\ m \in MintsWithVault
                 /\ tokenVault[m] >= n
                 /\ tokenVault' = [tokenVault EXCEPT ![m] = @ - n]
                 /\ holding' = [holding EXCEPT ![m][b] = @ + n]
                 /\ accounts' = accounts \cup {<<m, b>>}
                 /\ wsolVault' = wsolVault
              \/ UNCHANGED <<tokenVault, holding, accounts>>
<1>1. wsolVault \in Nat
    BY DEF TypeOK
<1>2. CASE m # Wsol
    BY <1>1, <1>2 DEF PayFromVault, PayTokens
<1>3. CASE m = Wsol
    <2>1. /\ wsolVault >= n * BaseUnits
          /\ wsolVault' = wsolVault - n * BaseUnits
          /\ UNCHANGED <<tokenVault, holding, accounts>>
        BY <1>3, WsolAssumption DEF PayFromVault, PayWsol
    <2>2. n * BaseUnits \in Nat
        BY AmountsAssumption
    <2> QED
        BY <1>1, <2>1, <2>2
<1> QED
    BY <1>2, <1>3

LEMMA PaymentTyped ==
    ASSUME TypeOK, NEW b \in Backers, NEW m \in Mints \cup {Wsol},
           NEW n \in Nat, PayFromVault(m, b, n)
    PROVE  /\ wsolVault' \in Nat
           /\ tokenVault' \in [Mints -> Nat]
           /\ \A k \in Mints : tokenVault'[k] <= tokenVault[k]
           /\ holding' \in [Mints -> [Wallets -> Nat]]
           /\ accounts' \subseteq Mints \X Wallets
<1>1. /\ tokenVault \in [Mints -> Nat] /\ accounts \subseteq Mints \X Wallets
      /\ holding \in [Mints -> [Wallets -> Nat]] /\ b \in Wallets
    BY DEF TypeOK, Wallets, Users
<1>2. CASE /\ m \in Mints
           /\ tokenVault[m] >= n
           /\ tokenVault' = [tokenVault EXCEPT ![m] = @ - n]
           /\ holding' = [holding EXCEPT ![m][b] = @ + n]
           /\ accounts' = accounts \cup {<<m, b>>}
    <2>1. /\ tokenVault' \in [Mints -> Nat]
          /\ \A k \in Mints : tokenVault'[k] <= tokenVault[k]
        BY <1>1, <1>2
    <2>2. holding' \in [Mints -> [Wallets -> Nat]]
        BY <1>1, <1>2
    <2>3. accounts' \subseteq Mints \X Wallets
        BY <1>1, <1>2
    <2> QED
        BY <2>1, <2>2, <2>3, PaymentKinds
<1>3. CASE UNCHANGED <<tokenVault, holding, accounts>>
    BY <1>1, <1>3, PaymentKinds
<1> QED
    BY <1>2, <1>3, PaymentKinds

(* A snapshot adds a percentage to the reputation.                         *)
LEMMA SnapshotReputationRange ==
    ASSUME TypeOK, NEW p \in Proposals, NEW b \in Backers,
           SnapshotBacker(p, b)
    PROVE  /\ SnapshotReputation(p, b) \in Nat
           /\ SnapshotReputation(p, b) <= FullReputation
<1>1. PerBacker(p) \in Nat /\ currentAirdropCycle[p] \in Nat
    BY PerBackerNat DEF SnapshotBacker, TypeOK
<1>2. PerBacker(p) # 0
    <2>1. ExpectedHolding(PerBacker(p), currentAirdropCycle[p]) > 0
        BY DEF SnapshotBacker
    <2>2. 0 * currentAirdropCycle[p] = 0
        BY <1>1
    <2> QED
        BY <2>1, <2>2 DEF ExpectedHolding
<1>3. holding[CurrentMint(p)][b] \in Nat
    BY DEF TypeOK, CurrentMint, Mints, Wallets, Users
<1>4. Reputation(holding[CurrentMint(p)][b], PerBacker(p))
          \in 0 .. FullReputation
    BY <1>1, <1>2, <1>3, ReputationRange
<1> QED
    BY <1>4 DEF SnapshotReputation, FullReputation

(* Every step keeps the state well typed: in particular no balance or      *)
(* counter the code subtracts from goes below zero.                        *)
LEMMA TypeNext == TypeInv /\ [Next]_vars => TypeOK'
<1> SUFFICES ASSUME TypeInv, [Next]_vars PROVE TypeOK'
    OBVIOUS
<1>0. TypeOK /\ VaultWithinSupply
    BY DEF TypeInv
<1> USE DEF TypeOK, environment, makerVars, backingVars, launchVars,
        milestoneVars, rewardVars, tokenVars
<1>1. CASE Tick
    BY <1>0, <1>1 DEF Tick
<1>2. ASSUME NEW c \in ConfigChoices, SetConfig(c) PROVE TypeOK'
    BY <1>0, <1>2 DEF SetConfig
<1>3. ASSUME NEW u \in Users, MintSoulboundToUser(u) PROVE TypeOK'
    BY <1>0, <1>3 DEF MintSoulboundToUser
<1>4. ASSUME NEW m \in Makers, CreateProposal(m) PROVE TypeOK'
    BY <1>0, <1>4, BoundsAssumption DEF CreateProposal, Proposals, Mints
<1>5. ASSUME NEW p \in Proposals, NEW b \in Backers, DepositSol(p, b)
      PROVE  TypeOK'
    BY <1>0, <1>5, AmountsAssumption DEF DepositSol, CreditedBacking, Configs
<1>6. ASSUME NEW p \in Proposals, RejectProposal(p) PROVE TypeOK'
    BY <1>0, <1>6 DEF RejectProposal
<1>7. ASSUME NEW p \in Proposals, NEW b \in Backers, Refund(p, b)
      PROVE  TypeOK'
    <2> DEFINE amount == config.amountToRaisePerUser
               fee == RefundFee(amount, config.refundFeeBasisPoints)
    <2>1. amount \in Nat /\ fee \in Nat
        <3>1. amount \in Nat /\ config.refundFeeBasisPoints \in Nat
            BY <1>0, ConfigNat
        <3> HIDE DEF TypeOK
        <3>2. fee \in 0 .. amount
            BY <3>1, FeeWithinAmount
        <3> QED
            BY <3>1, <3>2
    <2>2. vaultAuthority' \in Nat /\ treasury' \in Nat
        BY <1>0, <1>7, <2>1 DEF Refund, RefundedAmount
    <2>3. totalBacking' \in [Proposals -> Nat]
        BY <1>0, <1>7, <2>1 DEF Refund, RefundedAmount
    <2>4. activeCount' \in [Backers -> Nat]
        BY <1>0, <1>7 DEF Refund, ReleaseSlot
    <2>5. /\ backersOf' \in [Proposals -> SUBSET Backers]
          /\ initialAirdropReceived' \in [Proposals -> SUBSET Backers]
        BY <1>0, <1>7 DEF Refund
    <2>6. /\ depositAmount' \in [Proposals -> [Backers -> Nat]]
          /\ claimAmount' \in [Proposals -> [Backers -> Nat]]
          /\ settleCycle' \in [Proposals -> [Backers -> Nat]]
          /\ claimedUpto' \in [Proposals -> [Backers -> Nat]]
        BY <1>0, <1>7 DEF Refund
    <2> QED
        BY <1>0, <1>7, <2>2, <2>3, <2>4, <2>5, <2>6 DEF Refund
<1>8. ASSUME NEW p \in Proposals,
             NEW left \in [base : Leftovers, quote : Leftovers],
             CreatePool(p, left)
      PROVE  TypeOK'
    <2> DEFINE m == CurrentMint(p)
               stock == tokenVault[m] + config.totalMint
               base == config.totalPoolTokens - left.base
    <2>1. m \in Mints /\ Maker(p) \in Wallets /\ Market \in Wallets
        BY <1>0 DEF CurrentMint, Mints, Proposals, Maker, Wallets, Users
    <2>2. left.base \in Nat /\ left.quote \in Nat
        BY AmountsAssumption
    <2>3. base \in Nat /\ stock \in Nat
        BY <1>0, <1>8, <2>1, <2>2, ConfigNat DEF CreatePool, PoolTakes
    <2>4. LaunchCost(p) \in Nat
        BY <1>0, AmountsAssumption DEF LaunchCost
    <2>5. vaultAuthority' \in Nat /\ wsolVault' \in Nat
        BY <1>0, <1>8, <2>2, <2>4 DEF CreatePool
    <2>6. supply' \in [Mints -> Nat]
        BY <1>0, <1>8, <2>1, ConfigNat DEF CreatePool
    <2>7. tokenVault' \in [Mints -> Nat]
        BY <1>0, <1>8, <2>1, <2>3, ConfigNat DEF CreatePool, MintedStock
    <2>8. holding' \in [Mints -> [Wallets -> Nat]]
        <3>1. holding' = [holding EXCEPT
                             ![m][Maker(p)] = @ + config.makerTokenAmount,
                             ![m][Market] = @ + base]
            BY <1>8 DEF CreatePool
        <3>2. base \in Nat /\ config.makerTokenAmount \in Nat
            BY <1>0, <2>3, ConfigNat
        <3> HIDE DEF m, base
        <3> QED
            BY <1>0, <2>1, <3>1, <3>2
    <2>9. accounts' \subseteq Mints \X Wallets
        <3>1. accounts' = accounts \cup {<<m, Maker(p)>>, <<m, Market>>}
            BY <1>8 DEF CreatePool
        <3> HIDE DEF m
        <3> QED
            BY <1>0, <2>1, <3>1
    <2> QED
        BY <1>0, <1>8, <2>5, <2>6, <2>7, <2>8, <2>9 DEF CreatePool
<1>9. ASSUME NEW n \in TopUps, TopUpWsol(n) PROVE TypeOK'
    BY <1>0, <1>9, AmountsAssumption DEF TopUpWsol
<1>10. ASSUME NEW p \in Proposals, NEW b \in Backers,
              NEW m \in Mints \cup {Wsol},
              Airdrop(p, b, m)
       PROVE  TypeOK'
    <2>1. PerBacker(p) \in Nat
        BY <1>0, <1>10, PerBackerNat DEF Airdrop
    <2>2. /\ wsolVault' \in Nat /\ tokenVault' \in [Mints -> Nat]
          /\ holding' \in [Mints -> [Wallets -> Nat]]
          /\ accounts' \subseteq Mints \X Wallets
        <3> HIDE DEF TypeOK
        <3> QED
            BY <1>0, <1>10, <2>1, PaymentTyped DEF Airdrop
    <2>4. activeCount' \in [Backers -> Nat]
        BY <1>0, <1>10 DEF Airdrop, ReleaseSlot
    <2> QED
        BY <1>0, <1>10, <2>2, <2>4 DEF Airdrop, AirdropDue
<1>11. ASSUME NEW p \in Proposals, InitialiseMilestone(p) PROVE TypeOK'
    BY <1>0, <1>11 DEF InitialiseMilestone, CurrentMint, Mints
<1>12. ASSUME NEW p \in Proposals, NEW b \in Backers, SnapshotBacker(p, b)
       PROVE  TypeOK'
    <2>1. PerBacker(p) \in Nat /\ currentAirdropCycle[p] \in Nat
        BY <1>0, <1>12, PerBackerNat DEF SnapshotBacker
    <2>2. SnapshotUnits(p, b) \in Nat
        BY <2>1, AllocationWithinShare DEF SnapshotUnits
    <2>3. SnapshotReputation(p, b) \in Nat
        BY <1>0, <1>12, SnapshotReputationRange
    <2>4. claimAmount' \in [Proposals -> [Backers -> Nat]]
        BY <1>0, <1>12, <2>2 DEF SnapshotBacker
    <2>5. /\ milestoneUnitsAssigned' \in [Proposals -> Nat]
          /\ milestoneReputationSum' \in [Proposals -> Nat]
          /\ milestoneBackersWeighted' \in [Proposals -> Nat]
        BY <1>0, <1>12, <2>2, <2>3 DEF SnapshotBacker
    <2>6. settleCycle' \in [Proposals -> [Backers -> Nat]]
        BY <1>0, <1>12, <2>1 DEF SnapshotBacker
    <2> QED
        BY <1>0, <1>12, <2>4, <2>5, <2>6 DEF SnapshotBacker
<1>13. ASSUME NEW p \in Proposals, EndMilestone(p) PROVE TypeOK'
    <2> DEFINE m == CurrentMint(p)
               burn == MilestoneBurn(p)
    <2>1. m \in Mints
        BY <1>0 DEF CurrentMint, Mints
    <2>2. burn \in Nat
        BY <1>0, BurnRange DEF FullReputation, MilestoneBurn
    <2>3. burn <= supply[m]
        BY <1>0, <1>13, <2>1, <2>2 DEF EndMilestone, VaultWithinSupply
    <2> QED
        BY <1>0, <1>13, <2>1, <2>2, <2>3 DEF EndMilestone
<1>14. ASSUME NEW p \in Proposals, NEW b \in Backers,
              NEW m \in Mints \cup {Wsol},
              ClaimMilestoneReward(p, b, m)
       PROVE  TypeOK'
    <2>2. claimAmount[p][b] \in Nat /\ settleCycle[p][b] \in Nat
        BY <1>0
    <2>3. /\ wsolVault' \in Nat /\ tokenVault' \in [Mints -> Nat]
          /\ holding' \in [Mints -> [Wallets -> Nat]]
          /\ accounts' \subseteq Mints \X Wallets
        <3> HIDE DEF TypeOK
        <3> QED
            BY <1>0, <1>14, <2>2, PaymentTyped DEF ClaimMilestoneReward
    <2>5. /\ claimAmount' \in [Proposals -> [Backers -> Nat]]
          /\ claimedUpto' \in [Proposals -> [Backers -> Nat]]
        BY <1>0, <1>14, <2>2 DEF ClaimMilestoneReward, ClaimedMark
    <2> QED
        BY <1>0, <1>14, <2>3, <2>5 DEF ClaimMilestoneReward
<1>15. ASSUME NEW m \in Mints, NEW u \in Wallets, NEW v \in Wallets,
              NEW n \in TradeSizes, Trade(m, u, v, n)
       PROVE  TypeOK'
    <2>1. holding' \in [Mints -> [Wallets -> Nat]]
        <3>1. /\ u # v /\ holding[m][u] >= n /\ n \in Nat
              /\ holding' = [holding EXCEPT ![m][u] = @ - n,
                                           ![m][v] = @ + n]
            BY <1>15, AmountsAssumption DEF Trade
        <3>2. holding \in [Mints -> [Wallets -> Nat]]
            BY <1>0
        <3> HIDE DEF TypeOK
        <3> QED
            BY <3>1, <3>2
    <2>2. accounts' \subseteq Mints \X Wallets
        <3>1. accounts' = accounts \cup {<<m, v>>}
            BY <1>15 DEF Trade
        <3> QED
            BY <1>0, <3>1
    <2> QED
        BY <1>0, <1>15, <2>1, <2>2 DEF Trade
<1>19. ASSUME NEW m \in Mints, NEW w \in Keepers,
              OpenAccount(m, w) \/ CloseAccount(m, w)
       PROVE  TypeOK'
    <2>1. accounts' \subseteq Mints \X Wallets
        BY <1>0, <1>19, WalletsAssumption
        DEF OpenAccount, CloseAccount, Wallets, Users
    <2> QED
        BY <1>0, <1>19, <2>1 DEF OpenAccount, CloseAccount
<1>16. ASSUME NEW p \in Proposals, ResetPoolLaunch(p) PROVE TypeOK'
    <2>1. mintAccount[p] + 1 \in 0 .. MaxMints - 1
        BY <1>0, <1>16, BoundsAssumption DEF ResetPoolLaunch
    <2>2. mintAccount' \in [Proposals -> 0 .. MaxMints - 1]
        BY <1>0, <1>16, <2>1 DEF ResetPoolLaunch, NextMint
    <2>3. mintable' \subseteq Mints
        BY <1>0, <1>16, <2>1 DEF ResetPoolLaunch, Mints
    <2> QED
        BY <1>0, <1>16, <2>2, <2>3 DEF ResetPoolLaunch, OtherMilestones
<1>17. ASSUME NEW p \in Proposals, NEW b \in Backers, ResetAirdrop(p, b)
       PROVE  TypeOK'
    BY <1>0, <1>17 DEF ResetAirdrop
<1>18. CASE UNCHANGED vars
    BY <1>0, <1>18 DEF vars
<1> QED
    BY <1>1, <1>2, <1>3, <1>4, <1>5, <1>6, <1>7, <1>8, <1>9, <1>10, <1>11,
       <1>12, <1>13, <1>14, <1>15, <1>16, <1>17, <1>18, <1>19
    DEF Next, OperatingNext, FundingNext, LaunchNext, MilestoneNext,
        RepairNext

(* A vault only gains tokens that are minted, and what is burnt is in it.  *)
LEMMA VaultWithinSupplyNext ==
    TypeInv /\ [Next]_vars => VaultWithinSupply'
<1> SUFFICES ASSUME TypeInv, [Next]_vars PROVE VaultWithinSupply'
    OBVIOUS
<1>0. TypeOK /\ VaultWithinSupply
    BY DEF TypeInv
<1>1. ASSUME NEW p \in Proposals,
             NEW left \in [base : Leftovers, quote : Leftovers],
             CreatePool(p, left)
      PROVE  VaultWithinSupply'
    <2> DEFINE m == CurrentMint(p)
               stock == tokenVault[m] + config.totalMint
               base == config.totalPoolTokens - left.base
    <2>1. m \in Mints
        BY <1>0 DEF TypeOK, CurrentMint, Mints
    <2>2. left.base \in Nat /\ base > 0
        BY <1>1, AmountsAssumption DEF CreatePool, PoolTakes
    <2>3. supply' = [supply EXCEPT ![m] = supply[m] + config.totalMint]
        BY <1>1 DEF CreatePool
    <2>4. tokenVault' = [tokenVault EXCEPT ![m] =
                             stock - config.makerTokenAmount - base]
        BY <1>1 DEF CreatePool, MintedStock
    <2>5. base \in Nat /\ config.totalMint \in Nat
              /\ config.makerTokenAmount \in Nat
        <3>1. config.totalPoolTokens \in Nat
            BY <1>0, ConfigNat
        <3> QED
            BY <1>0, <2>2, <3>1, ConfigNat
    <2>6. /\ tokenVault \in [Mints -> Nat] /\ supply \in [Mints -> Nat]
          /\ \A k \in Mints : tokenVault[k] <= supply[k]
        BY <1>0 DEF TypeOK, VaultWithinSupply
    <2> HIDE DEF m, base
    <2>7. stock - config.makerTokenAmount - base
              <= supply[m] + config.totalMint
        BY <2>1, <2>5, <2>6
    <2> QED
        BY <2>1, <2>3, <2>4, <2>6, <2>7 DEF VaultWithinSupply
<1>2. ASSUME NEW p \in Proposals, NEW b \in Backers,
             NEW m \in Mints \cup {Wsol},
             Airdrop(p, b, m)
      PROVE  VaultWithinSupply'
    <2>1. PerBacker(p) \in Nat
        BY <1>0, <1>2, PerBackerNat DEF Airdrop
    <2> QED
        BY <1>0, <1>2, <2>1, PaymentTyped
        DEF Airdrop, TypeOK, VaultWithinSupply
<1>3. ASSUME NEW p \in Proposals, EndMilestone(p)
      PROVE  VaultWithinSupply'
    <2>1. MilestoneBurn(p) \in Nat
        BY <1>0, BurnRange DEF TypeOK, FullReputation, MilestoneBurn
    <2>2. CurrentMint(p) \in Mints
        BY <1>0 DEF TypeOK, CurrentMint, Mints
    <2> QED
        BY <1>0, <1>3, <2>1, <2>2 DEF EndMilestone, TypeOK, VaultWithinSupply
<1>4. ASSUME NEW p \in Proposals, NEW b \in Backers,
             NEW m \in Mints \cup {Wsol},
             ClaimMilestoneReward(p, b, m)
      PROVE  VaultWithinSupply'
    <2>1. claimAmount[p][b] \in Nat
        BY <1>0 DEF TypeOK
    <2>2. /\ tokenVault' \in [Mints -> Nat] /\ supply' = supply
          /\ \A k \in Mints : tokenVault'[k] <= tokenVault[k]
        BY <1>0, <1>4, <2>1, PaymentTyped DEF ClaimMilestoneReward
    <2> QED
        BY <1>0, <2>2 DEF TypeOK, VaultWithinSupply
<1>5. CASE UNCHANGED <<supply, tokenVault>>
    BY <1>0, <1>5 DEF VaultWithinSupply
<1> QED
    BY <1>1, <1>2, <1>3, <1>4, <1>5
    DEF Next, OperatingNext, FundingNext, LaunchNext, MilestoneNext,
        RepairNext, Tick, SetConfig, MintSoulboundToUser, CreateProposal,
        DepositSol, RejectProposal, Refund, TopUpWsol, InitialiseMilestone,
        SnapshotBacker, Trade, OpenAccount, CloseAccount, ResetPoolLaunch,
        ResetAirdrop, vars, tokenVars

(* In every state the program can reach, every counter and balance is of   *)
(* its type: nothing the code subtracts ever goes below zero, so its       *)
(* checked subtractions do not fail on any path that reaches them.         *)
THEOREM TypeCorrect == Spec => []TypeOK
<1>1. TypeInv /\ [Next]_vars => TypeInv'
    BY TypeNext, VaultWithinSupplyNext DEF TypeInv
<1>2. TypeInv => TypeOK
    BY DEF TypeInv
<1> QED
    BY TypeInit, <1>1, <1>2, PTL DEF Spec

-----------------------------------------------------------------------------
(* The sets whose sizes are counted are finite.                            *)
LEMMA BackersFinite ==
    ASSUME TypeOK, NEW p \in Proposals
    PROVE  /\ IsFiniteSet(backersOf[p])
           /\ Cardinality(backersOf[p]) \in Nat
<1>1. backersOf[p] \in SUBSET Backers
    BY DEF TypeOK
<1>2. IsFiniteSet(Backers)
    BY WalletsAssumption
<1>3. IsFiniteSet(backersOf[p])
    BY <1>1, <1>2, FS_Subset
<1> QED
    BY <1>3, FS_CardinalityType

LEMMA SettledFinite ==
    ASSUME TypeOK, NEW p \in Proposals
    PROVE  /\ IsFiniteSet(SettledBackers(p))
           /\ Cardinality(SettledBackers(p)) \in Nat
<1>1. SettledBackers(p) \in SUBSET backersOf[p]
    BY DEF SettledBackers
<1>2. IsFiniteSet(SettledBackers(p))
    BY <1>1, BackersFinite, FS_Subset
<1> QED
    BY <1>2, FS_CardinalityType

(* total_backers is the number of Backers accounts until the proposal is   *)
(* rejected.                                                               *)
LEMMA BackersCountedNext ==
    TypeInv /\ BackersCounted /\ [Next]_vars => BackersCounted'
<1> SUFFICES ASSUME TypeInv, BackersCounted, [Next]_vars
             PROVE  BackersCounted'
    OBVIOUS
<1>0. TypeOK
    BY DEF TypeInv
<1>1. ASSUME NEW p \in Proposals, NEW b \in Backers, DepositSol(p, b)
      PROVE  BackersCounted'
    <2>1. b \notin backersOf[p]
        BY <1>1 DEF DepositSol, NewBacker
    <2>2. Cardinality(backersOf[p] \cup {b}) = Cardinality(backersOf[p]) + 1
        <3>1. IsFiniteSet(backersOf[p])
            BY <1>0, BackersFinite
        <3> QED
            BY <2>1, <3>1, FS_AddElement
    <2> QED
        BY <1>0, <1>1, <2>2 DEF DepositSol, BackersCounted, TypeOK
<1>2. ASSUME NEW p \in Proposals, RejectProposal(p)
      PROVE  BackersCounted'
    BY <1>2 DEF RejectProposal, BackersCounted, backingVars
<1>3. ASSUME NEW p \in Proposals, NEW b \in Backers, Refund(p, b)
      PROVE  BackersCounted'
    BY <1>0, <1>3 DEF Refund, BackersCounted, TypeOK
<1>4. CASE UNCHANGED <<totalBackers, backersOf, isRejected>>
    BY <1>4 DEF BackersCounted
<1> QED
    BY <1>1, <1>2, <1>3, <1>4
    DEF Next, OperatingNext, FundingNext, LaunchNext, MilestoneNext,
        RepairNext, Tick, SetConfig, MintSoulboundToUser, CreateProposal,
        CreatePool, TopUpWsol, Airdrop, InitialiseMilestone, SnapshotBacker,
        EndMilestone, ClaimMilestoneReward, Trade, OpenAccount, CloseAccount,
        ResetPoolLaunch, ResetAirdrop, vars, backingVars

(* A proposal is never launched and rejected.                              *)
LEMMA OneDecisionNext ==
    TypeInv /\ OneDecision /\ [Next]_vars => OneDecision'
<1> SUFFICES ASSUME TypeInv, OneDecision, [Next]_vars
             PROVE  OneDecision'
    OBVIOUS
<1>1. ASSUME NEW p \in Proposals, RejectProposal(p)
      PROVE  OneDecision'
    BY <1>1 DEF RejectProposal, Undecided, OneDecision, launchVars
<1>2. ASSUME NEW p \in Proposals,
             NEW left \in [base : Leftovers, quote : Leftovers],
             CreatePool(p, left)
      PROVE  OneDecision'
    BY <1>2 DEF CreatePool, Launchable, OneDecision
<1>3. ASSUME NEW p \in Proposals, ResetPoolLaunch(p)
      PROVE  OneDecision'
    BY <1>3 DEF ResetPoolLaunch, OneDecision
<1>4. CASE UNCHANGED <<isPoolLaunched, isRejected>>
    BY <1>4 DEF OneDecision
<1> QED
    BY <1>1, <1>2, <1>3, <1>4
    DEF Next, OperatingNext, FundingNext, LaunchNext, MilestoneNext,
        RepairNext, Tick, SetConfig, MintSoulboundToUser, CreateProposal,
        DepositSol, Refund, TopUpWsol, Airdrop, InitialiseMilestone,
        SnapshotBacker, EndMilestone, ClaimMilestoneReward, Trade,
        OpenAccount, CloseAccount, ResetAirdrop, vars, launchVars

(* While a milestone runs, every backer it counts is settled in this cycle. *)
LEMMA WeightedAreSettledNext ==
    TypeInv /\ OneDecision /\ WeightedAreSettled /\ [Next]_vars
        => WeightedAreSettled'
<1> SUFFICES ASSUME TypeInv, OneDecision, WeightedAreSettled, [Next]_vars
             PROVE  WeightedAreSettled'
    OBVIOUS
<1>0. TypeOK
    BY DEF TypeInv
<1>a. \A q \in milestoneActive : q \in Proposals /\ q \in proposals
    BY <1>0 DEF TypeOK
<1>1. ASSUME NEW m \in Makers, CreateProposal(m)
      PROVE  WeightedAreSettled'
    <2>1. \A q \in milestoneActive : SettledBackers(q)' = SettledBackers(q)
        BY <1>0, <1>1, <1>a
        DEF CreateProposal, SettledBackers, TypeOK, backingVars, rewardVars
    <2> QED
        BY <1>1, <2>1 DEF CreateProposal, WeightedAreSettled
<1>2. ASSUME NEW p \in Proposals, NEW b \in Backers, DepositSol(p, b)
      PROVE  WeightedAreSettled'
    <2>1. p \notin milestoneActive
        BY <1>0, <1>2 DEF DepositSol, BackingOpen, TypeOK
    <2>2. \A q \in milestoneActive : SettledBackers(q)' = SettledBackers(q)
        BY <1>0, <1>2, <1>a, <2>1
        DEF DepositSol, SettledBackers, TypeOK, milestoneVars
    <2> QED
        BY <1>2, <2>2 DEF DepositSol, WeightedAreSettled, milestoneVars
<1>3. ASSUME NEW p \in Proposals, NEW b \in Backers, Refund(p, b)
      PROVE  WeightedAreSettled'
    <2>1. p \notin milestoneActive
        BY <1>0, <1>3 DEF Refund, OneDecision, TypeOK
    <2>2. \A q \in milestoneActive : SettledBackers(q)' = SettledBackers(q)
        BY <1>0, <1>3, <1>a, <2>1
        DEF Refund, SettledBackers, TypeOK, milestoneVars
    <2> QED
        BY <1>3, <2>2 DEF Refund, WeightedAreSettled, milestoneVars
<1>4. ASSUME NEW p \in Proposals, InitialiseMilestone(p)
      PROVE  WeightedAreSettled'
    <2>1. \A q \in Proposals : SettledBackers(q)' = SettledBackers(q)
        BY <1>4 DEF InitialiseMilestone, SettledBackers, backingVars,
                    rewardVars
    <2>2. Cardinality(SettledBackers(p)) \in Nat
        BY <1>0, SettledFinite
    <2> QED
        BY <1>0, <1>4, <1>a, <2>1, <2>2
        DEF InitialiseMilestone, WeightedAreSettled, TypeOK
<1>5. ASSUME NEW p \in Proposals, NEW b \in Backers, SnapshotBacker(p, b)
      PROVE  WeightedAreSettled'
    <2>1. b \in backersOf[p] /\ b \notin SettledBackers(p)
        BY <1>0, <1>5 DEF SnapshotBacker, Unsettled, SettledBackers, TypeOK
    <2>2. SettledBackers(p)' = SettledBackers(p) \cup {b}
        BY <1>0, <1>5, <2>1
        DEF SnapshotBacker, SettledBackers, TypeOK, backingVars
    <2>3. \A q \in milestoneActive \ {p} :
              SettledBackers(q)' = SettledBackers(q)
        BY <1>0, <1>5, <1>a
        DEF SnapshotBacker, SettledBackers, TypeOK, backingVars
    <2>4. /\ Cardinality(SettledBackers(p)) \in Nat
          /\ Cardinality(SettledBackers(p)')
                 = Cardinality(SettledBackers(p)) + 1
        BY <1>0, <2>1, <2>2, SettledFinite, FS_AddElement
    <2> QED
        BY <1>0, <1>5, <1>a, <2>3, <2>4
        DEF SnapshotBacker, WeightedAreSettled, TypeOK
<1>6. ASSUME NEW p \in Proposals, EndMilestone(p)
      PROVE  WeightedAreSettled'
    <2>1. \A q \in milestoneActive \ {p} :
              SettledBackers(q)' = SettledBackers(q)
        BY <1>0, <1>6, <1>a
        DEF EndMilestone, SettledBackers, TypeOK, backingVars, rewardVars
    <2> QED
        BY <1>6, <2>1 DEF EndMilestone, WeightedAreSettled
<1>7. ASSUME NEW p \in Proposals, ResetPoolLaunch(p)
      PROVE  WeightedAreSettled'
    BY <1>7 DEF ResetPoolLaunch, OtherMilestones, WeightedAreSettled,
                SettledBackers, backingVars, rewardVars
<1>8. CASE UNCHANGED <<milestoneActive, milestoneBackersWeighted, backersOf,
                       settleCycle, currentAirdropCycle>>
    BY <1>8 DEF WeightedAreSettled, SettledBackers
<1> QED
    BY <1>1, <1>2, <1>3, <1>4, <1>5, <1>6, <1>7, <1>8
    DEF Next, OperatingNext, FundingNext, LaunchNext, MilestoneNext,
        RepairNext, Tick, SetConfig, MintSoulboundToUser, RejectProposal,
        CreatePool, TopUpWsol, Airdrop, ClaimMilestoneReward, Trade,
        OpenAccount, CloseAccount, ResetAirdrop, vars, backingVars,
        milestoneVars, rewardVars

LEMMA OpenFinite ==
    ASSUME NEW b \in Backers
    PROVE  /\ IsFiniteSet(OpenBackings(b))
           /\ Cardinality(OpenBackings(b)) \in Nat
<1>1. IsFiniteSet(0 .. MaxProposals - 1)
    BY BoundsAssumption, FS_Interval
<1>2. IsFiniteSet(Proposals)
    BY <1>1, WalletsAssumption, FS_Product DEF Proposals
<1>3. OpenBackings(b) \in SUBSET Proposals
    BY DEF OpenBackings
<1>4. IsFiniteSet(OpenBackings(b))
    BY <1>2, <1>3, FS_Subset
<1> QED
    BY <1>4, FS_CardinalityType

(* active_count never exceeds the number of open backings.                 *)
LEMMA SlotsNeverOvercountedNext ==
    TypeInv /\ SlotsNeverOvercounted /\ [Next]_vars
        => SlotsNeverOvercounted'
<1> SUFFICES ASSUME TypeInv, SlotsNeverOvercounted, [Next]_vars
             PROVE  SlotsNeverOvercounted'
    OBVIOUS
<1>0. TypeOK
    BY DEF TypeInv
<1>1. ASSUME NEW p \in Proposals, NEW b \in Backers, DepositSol(p, b)
      PROVE  SlotsNeverOvercounted'
    <2>1. p \notin OpenBackings(b)
        BY <1>1 DEF DepositSol, NewBacker, OpenBackings
    <2>2. OpenBackings(b)' = OpenBackings(b) \cup {p}
        BY <1>0, <1>1 DEF DepositSol, OpenBackings, TypeOK
    <2>3. \A c \in Backers \ {b} : OpenBackings(c)' = OpenBackings(c)
        BY <1>0, <1>1 DEF DepositSol, OpenBackings, TypeOK
    <2>4. Cardinality(OpenBackings(b)') = Cardinality(OpenBackings(b)) + 1
        BY <2>1, <2>2, OpenFinite, FS_AddElement
    <2>5. activeCount' = [activeCount EXCEPT ![b] = @ + 1]
        BY <1>1 DEF DepositSol
    <2> QED
        BY <1>0, <2>3, <2>4, <2>5, OpenFinite
        DEF SlotsNeverOvercounted, TypeOK
<1>2. ASSUME NEW p \in Proposals, NEW b \in Backers,
             \/ Refund(p, b)
             \/ \E m \in Mints \cup {Wsol} : Airdrop(p, b, m)
      PROVE  SlotsNeverOvercounted'
    <2>1. /\ OpenBackings(b)' = OpenBackings(b) \ {p}
          /\ \A c \in Backers \ {b} : OpenBackings(c)' = OpenBackings(c)
        <3>1. CASE Refund(p, b)
            BY <1>0, <3>1 DEF Refund, OpenBackings, TypeOK
        <3>2. ASSUME NEW m \in Mints \cup {Wsol}, Airdrop(p, b, m)
              PROVE  /\ OpenBackings(b)' = OpenBackings(b) \ {p}
                     /\ \A c \in Backers \ {b} :
                            OpenBackings(c)' = OpenBackings(c)
            BY <1>0, <3>2 DEF Airdrop, OpenBackings, TypeOK, backingVars
        <3> QED
            BY <1>2, <3>1, <3>2
    <2>2. \A c \in Backers \ {b} : OpenBackings(c)' = OpenBackings(c)
        BY <2>1
    <2>3. /\ Cardinality(OpenBackings(b)') \in Nat
          /\ Cardinality(OpenBackings(b)') >= Cardinality(OpenBackings(b)) - 1
        <3>1. /\ IsFiniteSet(OpenBackings(b))
              /\ Cardinality(OpenBackings(b)) \in Nat
            BY OpenFinite
        <3>2. IsFiniteSet(OpenBackings(b) \ {p})
            BY <3>1, FS_RemoveElement
        <3>3. Cardinality(OpenBackings(b) \ {p}) \in Nat
            BY <3>2, FS_CardinalityType
        <3>4. Cardinality(OpenBackings(b) \ {p})
                  >= Cardinality(OpenBackings(b)) - 1
            BY <3>1, FS_RemoveElement
        <3> QED
            BY <2>1, <3>3, <3>4
    <2>4. activeCount' = [activeCount EXCEPT ![b] = ReleaseSlot(@)]
        BY <1>2 DEF Refund, Airdrop
    <2> QED
        BY <1>0, <2>2, <2>3, <2>4, OpenFinite
        DEF SlotsNeverOvercounted, TypeOK, ReleaseSlot
<1>3. ASSUME NEW p \in Proposals, NEW b \in Backers, ResetAirdrop(p, b)
      PROVE  SlotsNeverOvercounted'
    <2>1. OpenBackings(b)' = OpenBackings(b) \cup {p}
        BY <1>0, <1>3 DEF ResetAirdrop, OpenBackings, TypeOK, backingVars
    <2>2. \A c \in Backers \ {b} : OpenBackings(c)' = OpenBackings(c)
        BY <1>0, <1>3 DEF ResetAirdrop, OpenBackings, TypeOK, backingVars
    <2>3. /\ IsFiniteSet(OpenBackings(b))
          /\ Cardinality(OpenBackings(b)) \in Nat
        BY OpenFinite
    <2>4. /\ Cardinality(OpenBackings(b)') >= Cardinality(OpenBackings(b))
          /\ Cardinality(OpenBackings(b)') \in Nat
        <3>1. Cardinality(OpenBackings(b) \cup {p}) =
                  IF p \in OpenBackings(b) THEN Cardinality(OpenBackings(b))
                  ELSE Cardinality(OpenBackings(b)) + 1
            BY <2>3, FS_AddElement
        <3> QED
            BY <2>1, <2>3, <3>1
    <2>5. activeCount' = activeCount
        BY <1>3 DEF ResetAirdrop
    <2>6. ASSUME NEW c \in Backers
          PROVE  activeCount'[c] <= Cardinality(OpenBackings(c)')
        <3>1. /\ activeCount[c] \in Nat
              /\ activeCount[c] <= Cardinality(OpenBackings(c))
            BY <1>0 DEF TypeOK, SlotsNeverOvercounted
        <3>2. CASE c = b
            BY <2>3, <2>4, <2>5, <3>1, <3>2
        <3>3. CASE c # b
            BY <2>2, <2>5, <3>1, <3>3
        <3> QED
            BY <3>2, <3>3
    <2> QED
        BY <2>6 DEF SlotsNeverOvercounted
<1>4. CASE UNCHANGED <<activeCount, backersOf, initialAirdropReceived>>
    BY <1>4 DEF SlotsNeverOvercounted, OpenBackings
<1> QED
    BY <1>1, <1>2, <1>3, <1>4
    DEF Next, OperatingNext, FundingNext, LaunchNext, MilestoneNext,
        RepairNext, Tick, SetConfig, MintSoulboundToUser, CreateProposal,
        RejectProposal, CreatePool, TopUpWsol, InitialiseMilestone,
        SnapshotBacker, EndMilestone, ClaimMilestoneReward, Trade,
        OpenAccount, CloseAccount, ResetPoolLaunch, vars, backingVars

-----------------------------------------------------------------------------
(* Proposals that do not exist yet have no cycle, so the first one is not  *)
(* mistaken for the end of another.                                        *)
Unborn == \A p \in Proposals \ proposals : currentAirdropCycle[p] = 0

LEMMA UnbornNext == TypeInv /\ Unborn /\ [Next]_vars => Unborn'
<1> SUFFICES ASSUME TypeInv, Unborn, [Next]_vars PROVE Unborn'
    OBVIOUS
<1>0. TypeOK
    BY DEF TypeInv
<1>1. ASSUME NEW m \in Makers, CreateProposal(m) PROVE Unborn'
    BY <1>0, <1>1 DEF CreateProposal, Unborn, TypeOK
<1>2. ASSUME NEW p \in Proposals, EndMilestone(p) PROVE Unborn'
    BY <1>0, <1>2 DEF EndMilestone, Unborn, TypeOK, makerVars
<1>3. CASE UNCHANGED <<proposals, currentAirdropCycle>>
    BY <1>3 DEF Unborn
<1> QED
    BY <1>1, <1>2, <1>3
    DEF Next, OperatingNext, FundingNext, LaunchNext, MilestoneNext,
        RepairNext, Tick, SetConfig, MintSoulboundToUser, DepositSol,
        RejectProposal, Refund, CreatePool, TopUpWsol, Airdrop,
        InitialiseMilestone, SnapshotBacker, ClaimMilestoneReward, Trade,
        OpenAccount, CloseAccount, ResetPoolLaunch, ResetAirdrop, vars,
        makerVars, milestoneVars

-----------------------------------------------------------------------------
(* A wallet without a Backers account on p has no mark there: what makes a *)
(* deposit, which clears settle_cycle but not claimed_upto, keep the order *)
(* of the two.                                                             *)
NoMarks ==
    \A p \in Proposals : \A b \in Backers \ backersOf[p] :
        claimedUpto[p][b] = 0

LEMMA NoMarksNext == TypeInv /\ NoMarks /\ [Next]_vars => NoMarks'
<1> SUFFICES ASSUME TypeInv, NoMarks, [Next]_vars PROVE NoMarks'
    OBVIOUS
<1>0. TypeOK
    BY DEF TypeInv
<1>1. ASSUME NEW p \in Proposals, NEW b \in Backers, DepositSol(p, b)
      PROVE  NoMarks'
    BY <1>0, <1>1 DEF DepositSol, NoMarks, TypeOK
<1>2. ASSUME NEW p \in Proposals, NEW b \in Backers, Refund(p, b)
      PROVE  NoMarks'
    BY <1>0, <1>2 DEF Refund, NoMarks, TypeOK
<1>3. ASSUME NEW p \in Proposals, NEW b \in Backers,
             NEW m \in Mints \cup {Wsol},
             ClaimMilestoneReward(p, b, m)
      PROVE  NoMarks'
    BY <1>0, <1>3 DEF ClaimMilestoneReward, NoMarks, TypeOK, backingVars
<1>4. CASE UNCHANGED <<backersOf, claimedUpto>>
    BY <1>4 DEF NoMarks
<1> QED
    BY <1>1, <1>2, <1>3, <1>4
    DEF Next, OperatingNext, FundingNext, LaunchNext, MilestoneNext,
        RepairNext, Tick, SetConfig, MintSoulboundToUser, CreateProposal,
        RejectProposal, CreatePool, TopUpWsol, Airdrop, InitialiseMilestone,
        SnapshotBacker, EndMilestone, Trade, OpenAccount, CloseAccount,
        ResetPoolLaunch, ResetAirdrop, vars, backingVars, rewardVars

(* What was claimed was settled, and in a cycle that has begun.            *)
LEMMA CycleOrderNext ==
    TypeInv /\ Unborn /\ NoMarks /\ CycleOrder /\ [Next]_vars => CycleOrder'
<1> SUFFICES ASSUME TypeInv, Unborn, NoMarks, CycleOrder, [Next]_vars
             PROVE  CycleOrder'
    OBVIOUS
<1>0. TypeOK
    BY DEF TypeInv
<1>1. ASSUME NEW m \in Makers, CreateProposal(m) PROVE CycleOrder'
    <2> DEFINE new == <<m, proposalCount[m]>>
    <2>1. /\ new \notin proposals
          /\ currentAirdropCycle' = [currentAirdropCycle EXCEPT ![new] = 1]
          /\ settleCycle' = settleCycle /\ claimedUpto' = claimedUpto
        BY <1>1 DEF CreateProposal, rewardVars
    <2> HIDE DEF new
    <2>2. \A p \in Proposals : currentAirdropCycle[p] <= currentAirdropCycle'[p]
        BY <1>0, <2>1 DEF TypeOK, Unborn
    <2>3. \A p \in Proposals : currentAirdropCycle'[p] \in Nat
        BY <1>0, <2>1 DEF TypeOK
    <2> QED
        BY <1>0, <2>1, <2>2, <2>3 DEF CycleOrder, TypeOK
<1>2. ASSUME NEW p \in Proposals, NEW b \in Backers, DepositSol(p, b)
      PROVE  CycleOrder'
    <2>1. claimedUpto[p][b] = 0
        BY <1>2 DEF DepositSol, NewBacker, NoMarks
    <2> QED
        BY <1>0, <1>2, <2>1 DEF DepositSol, CycleOrder, TypeOK, milestoneVars
<1>3. ASSUME NEW p \in Proposals, NEW b \in Backers, Refund(p, b)
      PROVE  CycleOrder'
    BY <1>0, <1>3 DEF Refund, CycleOrder, TypeOK, milestoneVars
<1>4. ASSUME NEW p \in Proposals, NEW b \in Backers, SnapshotBacker(p, b)
      PROVE  CycleOrder'
    BY <1>0, <1>4 DEF SnapshotBacker, CycleOrder, TypeOK
<1>5. ASSUME NEW p \in Proposals, EndMilestone(p) PROVE CycleOrder'
    BY <1>0, <1>5 DEF EndMilestone, CycleOrder, TypeOK, rewardVars
<1>6. ASSUME NEW p \in Proposals, NEW b \in Backers,
             NEW m \in Mints \cup {Wsol},
             ClaimMilestoneReward(p, b, m)
      PROVE  CycleOrder'
    BY <1>0, <1>6
    DEF ClaimMilestoneReward, ClaimedMark, CycleOrder, TypeOK, milestoneVars
<1>7. CASE UNCHANGED <<claimedUpto, settleCycle, currentAirdropCycle>>
    BY <1>7 DEF CycleOrder
<1> QED
    BY <1>1, <1>2, <1>3, <1>4, <1>5, <1>6, <1>7
    DEF Next, OperatingNext, FundingNext, LaunchNext, MilestoneNext,
        RepairNext, Tick, SetConfig, MintSoulboundToUser, RejectProposal,
        CreatePool, TopUpWsol, Airdrop, InitialiseMilestone, Trade,
        OpenAccount, CloseAccount, ResetPoolLaunch, ResetAirdrop, vars,
        milestoneVars, rewardVars

(* The reputation summed up never exceeds 100 per counted backer.          *)
LEMMA ReputationBoundedNext ==
    TypeInv /\ ReputationBounded /\ [Next]_vars => ReputationBounded'
<1> SUFFICES ASSUME TypeInv, ReputationBounded, [Next]_vars
             PROVE  ReputationBounded'
    OBVIOUS
<1>0. TypeOK
    BY DEF TypeInv
<1>1. ASSUME NEW p \in Proposals, InitialiseMilestone(p)
      PROVE  ReputationBounded'
    BY <1>0, <1>1
    DEF InitialiseMilestone, ReputationBounded, TypeOK, FullReputation
<1>2. ASSUME NEW p \in Proposals, NEW b \in Backers, SnapshotBacker(p, b)
      PROVE  ReputationBounded'
    <2>1. /\ SnapshotReputation(p, b) \in Nat
          /\ SnapshotReputation(p, b) <= 100
        BY <1>0, <1>2, SnapshotReputationRange DEF FullReputation
    <2> QED
        BY <1>0, <1>2, <2>1
        DEF SnapshotBacker, ReputationBounded, TypeOK, FullReputation
<1>3. ASSUME NEW p \in Proposals, EndMilestone(p) PROVE ReputationBounded'
    BY <1>0, <1>3
    DEF EndMilestone, ReputationBounded, TypeOK, FullReputation
<1>4. CASE UNCHANGED <<milestoneReputationSum, milestoneBackersWeighted>>
    BY <1>4 DEF ReputationBounded
<1> QED
    BY <1>1, <1>2, <1>3, <1>4
    DEF Next, OperatingNext, FundingNext, LaunchNext, MilestoneNext,
        RepairNext, Tick, SetConfig, MintSoulboundToUser, CreateProposal,
        DepositSol, RejectProposal, Refund, CreatePool, TopUpWsol, Airdrop,
        ClaimMilestoneReward, Trade, OpenAccount, CloseAccount,
        ResetPoolLaunch, ResetAirdrop, vars, milestoneVars

(* A proposal that can be launched has a mint with an authority.           *)
LEMMA LaunchableIsMintableNext ==
    TypeInv /\ LaunchableIsMintable /\ [Next]_vars => LaunchableIsMintable'
<1> SUFFICES ASSUME TypeInv, LaunchableIsMintable, [Next]_vars
             PROVE  LaunchableIsMintable'
    OBVIOUS
<1>0. TypeOK
    BY DEF TypeInv
<1>1. ASSUME NEW m \in Makers, CreateProposal(m)
      PROVE  LaunchableIsMintable'
    BY <1>1 DEF CreateProposal, LaunchableIsMintable, CurrentMint, launchVars
<1>2. ASSUME NEW p \in Proposals,
             NEW left \in [base : Leftovers, quote : Leftovers],
             CreatePool(p, left)
      PROVE  LaunchableIsMintable'
    BY <1>2 DEF CreatePool, LaunchableIsMintable, CurrentMint, makerVars
<1>3. ASSUME NEW p \in Proposals, InitialiseMilestone(p)
      PROVE  LaunchableIsMintable'
    BY <1>3 DEF InitialiseMilestone, LaunchableIsMintable, CurrentMint,
                makerVars, launchVars
<1>4. ASSUME NEW p \in Proposals, ResetPoolLaunch(p)
      PROVE  LaunchableIsMintable'
    <2>1. p \in Proposals /\ mintAccount \in [Proposals -> 0 .. MaxMints - 1]
              /\ proposals \subseteq Proposals
        BY <1>0 DEF TypeOK
    <2>2. CurrentMint(p)' \in mintable'
        BY <1>4, <2>1 DEF ResetPoolLaunch, NextMint, CurrentMint
    <2>3. \A q \in proposals \ {p} : CurrentMint(q)' = CurrentMint(q)
        BY <1>4, <2>1 DEF ResetPoolLaunch, CurrentMint
    <2> QED
        BY <1>4, <2>2, <2>3
        DEF ResetPoolLaunch, LaunchableIsMintable, makerVars
<1>5. CASE UNCHANGED <<proposals, isPoolLaunched, mintAccount, mintable>>
    BY <1>5 DEF LaunchableIsMintable, CurrentMint
<1> QED
    BY <1>1, <1>2, <1>3, <1>4, <1>5
    DEF Next, OperatingNext, FundingNext, LaunchNext, MilestoneNext,
        RepairNext, Tick, SetConfig, MintSoulboundToUser, DepositSol,
        RejectProposal, Refund, TopUpWsol, Airdrop, SnapshotBacker,
        EndMilestone, ClaimMilestoneReward, Trade, OpenAccount, CloseAccount,
        ResetAirdrop, vars, makerVars, launchVars, tokenVars

-----------------------------------------------------------------------------
(* The inductive invariant of the program.                                 *)
LedgerInv ==
    /\ TypeInv
    /\ BackersCounted
    /\ OneDecision
    /\ WeightedAreSettled
    /\ SlotsNeverOvercounted
    /\ Unborn
    /\ NoMarks
    /\ CycleOrder
    /\ ReputationBounded
    /\ LaunchableIsMintable

LEMMA LedgerInvInit == Init => LedgerInv
<1> SUFFICES ASSUME Init PROVE LedgerInv
    OBVIOUS
<1>1. TypeInv
    BY TypeInit
<1>2. Cardinality({}) = 0
    BY FS_EmptySet
<1>3. BackersCounted
    BY <1>2 DEF Init, BackersCounted
<1>4. OneDecision /\ WeightedAreSettled /\ Unborn
    BY DEF Init, OneDecision, WeightedAreSettled, Unborn
<1>5. SlotsNeverOvercounted
    <2>1. \A b \in Backers : OpenBackings(b) = {}
        BY DEF Init, OpenBackings
    <2>2. ASSUME NEW b \in Backers
          PROVE  activeCount[b] <= Cardinality(OpenBackings(b))
        <3>1. activeCount[b] = 0
            BY DEF Init
        <3>2. OpenBackings(b) = {}
            BY <2>1
        <3> QED
            BY <1>2, <3>1, <3>2
    <2> QED
        BY <2>2 DEF SlotsNeverOvercounted
<1>6. NoMarks /\ LaunchableIsMintable
    BY DEF Init, NoMarks, LaunchableIsMintable
<1>7. CycleOrder /\ ReputationBounded
    BY DEF Init, CycleOrder, ReputationBounded, FullReputation
<1> QED
    BY <1>1, <1>3, <1>4, <1>5, <1>6, <1>7 DEF LedgerInv

LEMMA LedgerInvNext == LedgerInv /\ [Next]_vars => LedgerInv'
BY TypeNext, VaultWithinSupplyNext, BackersCountedNext, OneDecisionNext,
   WeightedAreSettledNext, SlotsNeverOvercountedNext, UnbornNext,
   NoMarksNext, CycleOrderNext, ReputationBoundedNext,
   LaunchableIsMintableNext
DEF LedgerInv, TypeInv

LEMMA LedgerInvariant == Spec => []LedgerInv
BY LedgerInvInit, LedgerInvNext, PTL DEF Spec

(* The counter a launch, the shares and end_milestone rely on is the       *)
(* number of Backers accounts, until a proposal is rejected.               *)
THEOREM BackersAreCounted == Spec => []BackersCounted
<1>1. LedgerInv => BackersCounted
    BY DEF LedgerInv
<1> QED
    BY LedgerInvariant, <1>1, PTL

(* No proposal is both launched and rejected, resets included.             *)
THEOREM DecidedOnce == Spec => []OneDecision
<1>1. LedgerInv => OneDecision
    BY DEF LedgerInv
<1> QED
    BY LedgerInvariant, <1>1, PTL

(* Nobody is kept from backing because of proposals that are over.         *)
THEOREM SlotsAreFreed == Spec => []SlotsNeverOvercounted
<1>1. LedgerInv => SlotsNeverOvercounted
    BY DEF LedgerInv
<1> QED
    BY LedgerInvariant, <1>1, PTL

(* end_milestone never counts a backer that is not settled.                *)
THEOREM WeightedBackersAreSettled == Spec => []WeightedAreSettled
<1>1. LedgerInv => WeightedAreSettled
    BY DEF LedgerInv
<1> QED
    BY LedgerInvariant, <1>1, PTL

(* A claim or a snapshot never runs ahead of the cycle.                    *)
THEOREM CyclesInOrder == Spec => []CycleOrder
<1>1. LedgerInv => CycleOrder
    BY DEF LedgerInv
<1> QED
    BY LedgerInvariant, <1>1, PTL

(* The burn of end_milestone never saturates.                              *)
THEOREM ReputationIsBounded == Spec => []ReputationBounded
<1>1. LedgerInv => ReputationBounded
    BY DEF LedgerInv
<1> QED
    BY LedgerInvariant, <1>1, PTL

(* The mint authority a milestone gives up is never needed again.          *)
THEOREM LaunchableCanBeMinted == Spec => []LaunchableIsMintable
<1>1. LedgerInv => LaunchableIsMintable
    BY DEF LedgerInv
<1> QED
    BY LedgerInvariant, <1>1, PTL

(* When end_milestone is accepted every backer has been settled in the     *)
(* cycle it ends: the counter bounds the settled backers from below, they  *)
(* are among the backers, and both counts are equal.                       *)
LEMMA EndIsComplete ==
    ASSUME LedgerInv, NEW p \in Proposals, EndMilestone(p)
    PROVE  SettledBackers(p) = backersOf[p]
<1>0. TypeOK
    BY DEF LedgerInv, TypeInv
<1>1. p \in milestoneActive /\ p \notin isRejected
          /\ milestoneBackersWeighted[p] = totalBackers[p]
    BY DEF EndMilestone, AllWeighted
<1>2. totalBackers[p] = Cardinality(backersOf[p])
    BY <1>1 DEF LedgerInv, BackersCounted
<1>3. Cardinality(backersOf[p]) <= Cardinality(SettledBackers(p))
    BY <1>1, <1>2 DEF LedgerInv, WeightedAreSettled
<1>4. IsFiniteSet(backersOf[p]) /\ SettledBackers(p) \in SUBSET backersOf[p]
    BY <1>0, BackersFinite DEF SettledBackers
<1>5. /\ Cardinality(backersOf[p]) \in Nat
      /\ Cardinality(SettledBackers(p)) \in Nat
    BY <1>0, BackersFinite, SettledFinite
<1>6. /\ Cardinality(SettledBackers(p)) <= Cardinality(backersOf[p])
      /\ Cardinality(SettledBackers(p)) = Cardinality(backersOf[p])
             => SettledBackers(p) = backersOf[p]
    BY <1>4, FS_Subset
<1> QED
    BY <1>3, <1>5, <1>6

(* A cycle ends only when every backer was settled in it, so no backer     *)
(* misses the rewards of a cycle.                                          *)
THEOREM CyclesEndComplete == Spec => CycleEndsComplete
<1> DEFINE Complete ==
        \A p \in Proposals :
            currentAirdropCycle[p] > 0
                /\ currentAirdropCycle'[p] # currentAirdropCycle[p]
            => SettledBackers(p) = backersOf[p]
<1>1. LedgerInv /\ [Next]_vars => [Complete]_vars
    <2> SUFFICES ASSUME LedgerInv, Next PROVE Complete
        BY DEF vars
    <2>0. TypeOK /\ Unborn
        BY DEF LedgerInv, TypeInv
    <2>1. ASSUME NEW m \in Makers, CreateProposal(m) PROVE Complete
        <3> DEFINE new == <<m, proposalCount[m]>>
        <3>1. new \notin proposals
              /\ currentAirdropCycle' = [currentAirdropCycle EXCEPT ![new] = 1]
            BY <2>1 DEF CreateProposal
        <3>2. currentAirdropCycle \in [Proposals -> Nat]
            BY <2>0 DEF TypeOK
        <3> SUFFICES ASSUME NEW p \in Proposals, currentAirdropCycle[p] > 0
                     PROVE  currentAirdropCycle'[p] = currentAirdropCycle[p]
            OBVIOUS
        <3>3. p # new
            BY <2>0, <3>1, <3>2 DEF Unborn
        <3> QED
            BY <3>1, <3>2, <3>3
    <2>2. ASSUME NEW p \in Proposals, EndMilestone(p) PROVE Complete
        <3>1. SettledBackers(p) = backersOf[p]
            BY <2>2, EndIsComplete
        <3>2. \A q \in Proposals \ {p} :
                  currentAirdropCycle'[q] = currentAirdropCycle[q]
            BY <2>0, <2>2 DEF EndMilestone, TypeOK
        <3> QED
            BY <3>1, <3>2
    <2>3. CASE currentAirdropCycle' = currentAirdropCycle
        BY <2>3
    <2> QED
        BY <2>1, <2>2, <2>3
        DEF Next, OperatingNext, FundingNext, LaunchNext, MilestoneNext,
            RepairNext, Tick, SetConfig, MintSoulboundToUser, DepositSol,
            RejectProposal, Refund, CreatePool, TopUpWsol, Airdrop,
            InitialiseMilestone, SnapshotBacker, ClaimMilestoneReward, Trade,
            OpenAccount, CloseAccount, ResetPoolLaunch, ResetAirdrop,
            milestoneVars
<1> QED
    BY LedgerInvariant, <1>1, PTL DEF Spec, CycleEndsComplete
=============================================================================
