-------------------------- MODULE OperatingProofs --------------------------
(***************************************************************************)
(* Theorems about the program without its repair tools (OperatingSpec),    *)
(* for every value of the constants.  Where a property needs a             *)
(* configuration value that stays, the theorem assumes it.                 *)
(***************************************************************************)
EXTENDS LaunchpadProofs, LaunchpadRefinement

(* The operator does not change the limit of open backings, and does not   *)
(* change the tokens a milestone distributes.                              *)
OneLimit ==
    \A c, d \in ConfigChoices : c.maxBackedProposals = d.maxBackedProposals

OneAirdrop ==
    \A c, d \in ConfigChoices :
        c.totalAirdropAmountPerMilestone = d.totalAirdropAmountPerMilestone

(* What holds of every instruction holds without the repair tools.         *)
LEMMA OperatingLedger == OperatingSpec => []LedgerInv
<1>1. [OperatingNext]_vars => [Next]_vars
    BY DEF Next
<1>2. LedgerInv /\ [OperatingNext]_vars => LedgerInv'
    BY <1>1, LedgerInvNext
<1> QED
    BY LedgerInvInit, <1>2, PTL DEF OperatingSpec

-----------------------------------------------------------------------------
(* Without reset_airdrop the flag of an airdrop is only set on launched    *)
(* proposals, so a refund always frees a slot that is still counted.       *)
AirdropsAfterLaunch ==
    \A p \in Proposals \ isPoolLaunched : initialAirdropReceived[p] = {}

LEMMA AirdropsAfterLaunchNext ==
    TypeInv /\ AirdropsAfterLaunch /\ [OperatingNext]_vars
        => AirdropsAfterLaunch'
<1> SUFFICES ASSUME TypeInv, AirdropsAfterLaunch, [OperatingNext]_vars
             PROVE  AirdropsAfterLaunch'
    OBVIOUS
<1>0. TypeOK
    BY DEF TypeInv
<1>1. ASSUME NEW p \in Proposals, NEW b \in Backers,
             DepositSol(p, b) \/ Refund(p, b)
      PROVE  AirdropsAfterLaunch'
    <2>1. /\ isPoolLaunched' = isPoolLaunched
          /\ initialAirdropReceived' =
                 [initialAirdropReceived EXCEPT ![p] = @ \ {b}]
        BY <1>1 DEF DepositSol, Refund, launchVars
    <2> QED
        BY <1>0, <2>1 DEF AirdropsAfterLaunch, TypeOK
<1>2. ASSUME NEW p \in Proposals,
             NEW left \in [base : Leftovers, quote : Leftovers],
             CreatePool(p, left)
      PROVE  AirdropsAfterLaunch'
    BY <1>0, <1>2 DEF CreatePool, AirdropsAfterLaunch, TypeOK
<1>3. ASSUME NEW p \in Proposals, NEW b \in Backers,
             NEW m \in Mints \cup {Wsol},
             Airdrop(p, b, m)
      PROVE  AirdropsAfterLaunch'
    BY <1>0, <1>3 DEF Airdrop, AirdropsAfterLaunch, TypeOK, launchVars
<1>4. CASE UNCHANGED <<isPoolLaunched, initialAirdropReceived>>
    BY <1>4 DEF AirdropsAfterLaunch
<1> QED
    BY <1>1, <1>2, <1>3, <1>4
    DEF OperatingNext, FundingNext, LaunchNext, MilestoneNext, Tick,
        SetConfig, MintSoulboundToUser, CreateProposal, RejectProposal,
        TopUpWsol, InitialiseMilestone, SnapshotBacker, EndMilestone,
        ClaimMilestoneReward, Trade, OpenAccount, CloseAccount, vars,
        launchVars

(* active_count is exact: a deposit adds one proposal to the open ones, a  *)
(* refund or an airdrop removes one that is there.                         *)
LEMMA SlotsExactNext ==
    TypeInv /\ OneDecision /\ AirdropsAfterLaunch /\ SlotsExact
            /\ [OperatingNext]_vars
        => SlotsExact'
<1> SUFFICES ASSUME TypeInv, OneDecision, AirdropsAfterLaunch, SlotsExact,
                    [OperatingNext]_vars
             PROVE  SlotsExact'
    OBVIOUS
<1>0. TypeOK
    BY DEF TypeInv
<1>1. ASSUME NEW p \in Proposals, NEW b \in Backers, DepositSol(p, b)
      PROVE  SlotsExact'
    <2>1. p \notin OpenBackings(b)
        BY <1>1 DEF DepositSol, NewBacker, OpenBackings
    <2>2. /\ OpenBackings(b)' = OpenBackings(b) \cup {p}
          /\ \A c \in Backers \ {b} : OpenBackings(c)' = OpenBackings(c)
        BY <1>0, <1>1 DEF DepositSol, OpenBackings, TypeOK
    <2>3. Cardinality(OpenBackings(b)') = Cardinality(OpenBackings(b)) + 1
        BY <2>1, <2>2, OpenFinite, FS_AddElement
    <2>4. activeCount' = [activeCount EXCEPT ![b] = @ + 1]
        BY <1>1 DEF DepositSol
    <2> QED
        BY <1>0, <2>2, <2>3, <2>4 DEF SlotsExact, TypeOK
<1>2. ASSUME NEW p \in Proposals, NEW b \in Backers,
             p \in OpenBackings(b),
             OpenBackings(b)' = OpenBackings(b) \ {p},
             \A c \in Backers \ {b} : OpenBackings(c)' = OpenBackings(c),
             activeCount' = [activeCount EXCEPT ![b] = ReleaseSlot(@)]
      PROVE  SlotsExact'
    <2>1. /\ IsFiniteSet(OpenBackings(b))
          /\ Cardinality(OpenBackings(b)) \in Nat
          /\ Cardinality(OpenBackings(b)) # 0
        BY <1>2, OpenFinite, FS_EmptySet
    <2>2. Cardinality(OpenBackings(b)') = Cardinality(OpenBackings(b)) - 1
        BY <1>2, <2>1, FS_RemoveElement
    <2>3. activeCount[b] = Cardinality(OpenBackings(b))
        BY DEF SlotsExact
    <2>4. activeCount'[b] = Cardinality(OpenBackings(b)')
        BY <1>0, <1>2, <2>1, <2>2, <2>3 DEF TypeOK, ReleaseSlot
    <2>5. \A c \in Backers \ {b} :
              activeCount'[c] = Cardinality(OpenBackings(c)')
        BY <1>0, <1>2 DEF TypeOK, SlotsExact
    <2> QED
        BY <2>4, <2>5 DEF SlotsExact
<1>3. ASSUME NEW p \in Proposals, NEW b \in Backers, Refund(p, b)
      PROVE  SlotsExact'
    <2>1. p \in OpenBackings(b)
        BY <1>3 DEF Refund, OneDecision, AirdropsAfterLaunch, OpenBackings
    <2>2. /\ OpenBackings(b)' = OpenBackings(b) \ {p}
          /\ \A c \in Backers \ {b} : OpenBackings(c)' = OpenBackings(c)
        BY <1>0, <1>3 DEF Refund, OpenBackings, TypeOK
    <2>3. activeCount' = [activeCount EXCEPT ![b] = ReleaseSlot(@)]
        BY <1>3 DEF Refund
    <2> QED
        BY <1>2, <2>1, <2>2, <2>3
<1>4. ASSUME NEW p \in Proposals, NEW b \in Backers,
             NEW m \in Mints \cup {Wsol},
             Airdrop(p, b, m)
      PROVE  SlotsExact'
    <2>1. p \in OpenBackings(b)
        BY <1>4 DEF Airdrop, AirdropDue, OpenBackings
    <2>2. /\ OpenBackings(b)' = OpenBackings(b) \ {p}
          /\ \A c \in Backers \ {b} : OpenBackings(c)' = OpenBackings(c)
        BY <1>0, <1>4 DEF Airdrop, OpenBackings, TypeOK, backingVars
    <2>3. activeCount' = [activeCount EXCEPT ![b] = ReleaseSlot(@)]
        BY <1>4 DEF Airdrop
    <2> QED
        BY <1>2, <2>1, <2>2, <2>3
<1>5. CASE UNCHANGED <<activeCount, backersOf, initialAirdropReceived>>
    BY <1>5 DEF SlotsExact, OpenBackings
<1> QED
    BY <1>1, <1>3, <1>4, <1>5
    DEF OperatingNext, FundingNext, LaunchNext, MilestoneNext, Tick,
        SetConfig, MintSoulboundToUser, CreateProposal, RejectProposal,
        CreatePool, TopUpWsol, InitialiseMilestone, SnapshotBacker,
        EndMilestone, ClaimMilestoneReward, Trade, OpenAccount, CloseAccount,
        vars, backingVars

LEMMA SlotsInit == Init => AirdropsAfterLaunch /\ SlotsExact
<1> SUFFICES ASSUME Init PROVE AirdropsAfterLaunch /\ SlotsExact
    OBVIOUS
<1>1. AirdropsAfterLaunch
    BY DEF Init, AirdropsAfterLaunch
<1>2. ASSUME NEW b \in Backers
      PROVE  activeCount[b] = Cardinality(OpenBackings(b))
    <2>1. OpenBackings(b) = {} /\ activeCount[b] = 0
        BY DEF Init, OpenBackings
    <2> QED
        BY <2>1, FS_EmptySet
<1> QED
    BY <1>1, <1>2 DEF SlotsExact

LEMMA SlotsInvariant == OperatingSpec => [](SlotsExact /\ AirdropsAfterLaunch)
<1>1. LedgerInv => TypeInv /\ OneDecision
    BY DEF LedgerInv
<1> QED
    BY OperatingLedger, <1>1, SlotsInit, SlotsExactNext,
       AirdropsAfterLaunchNext, PTL DEF OperatingSpec

(* Without the repair tools the per-backer counter of open backings is     *)
(* exact, although three instructions write it on an account of its own.   *)
THEOREM SlotsAreExact == OperatingSpec => []SlotsExact
BY SlotsInvariant, PTL

(* A counter is raised only below the limit, and the limit stays.          *)
CountWithinLimit ==
    \A b \in Backers : activeCount[b] <= config.maxBackedProposals

LEMMA CountWithinLimitNext ==
    ASSUME OneLimit
    PROVE  TypeInv /\ CountWithinLimit /\ [OperatingNext]_vars
               => CountWithinLimit'
<1> SUFFICES ASSUME TypeInv, CountWithinLimit, [OperatingNext]_vars
             PROVE  CountWithinLimit'
    OBVIOUS
<1>0. TypeOK
    BY DEF TypeInv
<1>1. config.maxBackedProposals \in Nat
    BY <1>0, AmountsAssumption DEF TypeOK, Configs
<1>2. ASSUME NEW c \in ConfigChoices, SetConfig(c)
      PROVE  CountWithinLimit'
    <2>1. c.maxBackedProposals = config.maxBackedProposals
        BY <1>0, OneLimit DEF OneLimit, TypeOK
    <2> QED
        BY <1>2, <2>1 DEF SetConfig, CountWithinLimit
<1>3. ASSUME NEW p \in Proposals, NEW b \in Backers, DepositSol(p, b)
      PROVE  CountWithinLimit'
    BY <1>0, <1>1, <1>3
    DEF DepositSol, SlotFree, CountWithinLimit, TypeOK, environment
<1>4. ASSUME NEW b \in Backers, config' = config,
             activeCount' = [activeCount EXCEPT ![b] = ReleaseSlot(@)]
      PROVE  CountWithinLimit'
    BY <1>0, <1>1, <1>4 DEF CountWithinLimit, TypeOK, ReleaseSlot
<1>5. CASE UNCHANGED <<config, activeCount>>
    BY <1>5 DEF CountWithinLimit
<1> QED
    BY <1>2, <1>3, <1>4, <1>5
    DEF OperatingNext, FundingNext, LaunchNext, MilestoneNext, Tick,
        MintSoulboundToUser, CreateProposal, RejectProposal, Refund,
        CreatePool, TopUpWsol, Airdrop, InitialiseMilestone, SnapshotBacker,
        EndMilestone, ClaimMilestoneReward, Trade, OpenAccount, CloseAccount,
        vars, environment

(* Nobody ever backs more proposals that wait for their launch than the    *)
(* limit, as long as the limit stays: each of them is an open backing, and *)
(* the counter that is compared with the limit counts those exactly.       *)
THEOREM LimitIsKept ==
    ASSUME OneLimit
    PROVE  OperatingSpec => []OpenWithinLimit
<1>1. Init => CountWithinLimit
    <2> SUFFICES ASSUME Init PROVE CountWithinLimit
        OBVIOUS
    <2>1. config.maxBackedProposals \in Nat
        BY AmountsAssumption DEF Init, Configs
    <2> QED
        BY <2>1 DEF Init, CountWithinLimit
<1>2. LedgerInv => TypeInv
    BY DEF LedgerInv
<1>3. OperatingSpec => []CountWithinLimit
    BY OperatingLedger, <1>1, <1>2, CountWithinLimitNext, PTL
    DEF OperatingSpec
<1>4. TypeInv /\ SlotsExact /\ AirdropsAfterLaunch /\ CountWithinLimit
          => OpenWithinLimit
    <2> SUFFICES ASSUME TypeInv, SlotsExact, AirdropsAfterLaunch,
                        CountWithinLimit, NEW b \in Backers
                 PROVE  Cardinality({p \in Proposals \ isPoolLaunched :
                                        b \in backersOf[p]})
                            <= config.maxBackedProposals
        BY DEF OpenWithinLimit
    <2> DEFINE waiting == {p \in Proposals \ isPoolLaunched :
                               b \in backersOf[p]}
    <2>1. waiting \in SUBSET OpenBackings(b)
        BY DEF AirdropsAfterLaunch, OpenBackings
    <2>2. Cardinality(waiting) <= Cardinality(OpenBackings(b))
              /\ IsFiniteSet(waiting)
        BY <2>1, OpenFinite, FS_Subset
    <2>3. /\ Cardinality(waiting) \in Nat
          /\ Cardinality(OpenBackings(b)) \in Nat
        BY <2>2, OpenFinite, FS_CardinalityType
    <2>4. /\ activeCount[b] = Cardinality(OpenBackings(b))
          /\ activeCount[b] <= config.maxBackedProposals
        BY DEF SlotsExact, CountWithinLimit
    <2>5. config.maxBackedProposals \in Nat
        BY AmountsAssumption DEF TypeInv, TypeOK, Configs
    <2> HIDE DEF waiting
    <2>6. Cardinality(waiting) <= config.maxBackedProposals
        BY <2>2, <2>3, <2>4, <2>5
    <2> QED
        BY <2>6 DEF waiting
<1> QED
    BY OperatingLedger, SlotsInvariant, <1>2, <1>3, <1>4, PTL

-----------------------------------------------------------------------------
(* With one stake for all configurations, the stake stays.                 *)
LEMMA StakeStays ==
    ASSUME OneStake, TypeOK, [OperatingNext]_vars
    PROVE  Stake \in Nat /\ Stake' = Stake
<1>1. Stake \in Nat
    BY ConfigNat DEF Stake
<1>2. CASE config' = config
    BY <1>1, <1>2 DEF Stake
<1>3. ASSUME NEW c \in ConfigChoices, SetConfig(c)
      PROVE  Stake' = Stake
    BY <1>3 DEF SetConfig, Stake, OneStake, TypeOK
<1> QED
    BY <1>1, <1>2, <1>3
    DEF OperatingNext, FundingNext, LaunchNext, MilestoneNext, Tick,
        MintSoulboundToUser, CreateProposal, DepositSol, RejectProposal,
        Refund, CreatePool, TopUpWsol, Airdrop, InitialiseMilestone,
        SnapshotBacker, EndMilestone, ClaimMilestoneReward, Trade,
        OpenAccount, CloseAccount, vars, environment

(* The number of backers after a deposit and after a refund.               *)
LEMMA OneBackerMore ==
    ASSUME TypeOK, NEW p \in Proposals, NEW b \in Backers, DepositSol(p, b)
    PROVE  /\ backersOf' = [backersOf EXCEPT ![p] = @ \cup {b}]
           /\ Cardinality(backersOf[p] \cup {b}) =
                  Cardinality(backersOf[p]) + 1
<1>1. b \notin backersOf[p]
    BY DEF DepositSol, NewBacker
<1>2. backersOf' = [backersOf EXCEPT ![p] = @ \cup {b}]
    BY DEF DepositSol
<1> QED
    BY <1>1, <1>2, BackersFinite, FS_AddElement

LEMMA OneBackerLess ==
    ASSUME TypeOK, NEW p \in Proposals, NEW b \in Backers, Refund(p, b)
    PROVE  /\ backersOf' = [backersOf EXCEPT ![p] = @ \ {b}]
           /\ Cardinality(backersOf[p] \ {b}) =
                  Cardinality(backersOf[p]) - 1
<1>1. b \in backersOf[p]
    BY DEF Refund
<1>2. backersOf' = [backersOf EXCEPT ![p] = @ \ {b}]
    BY DEF Refund
<1> QED
    BY <1>1, <1>2, BackersFinite, FS_RemoveElement

(* total_backing moves by one stake with every Backers account.            *)
LEMMA BackingMatchesNext ==
    ASSUME OneStake
    PROVE  TypeInv /\ BackingMatches /\ [OperatingNext]_vars
               => BackingMatches'
<1> SUFFICES ASSUME TypeInv, BackingMatches, [OperatingNext]_vars
             PROVE  BackingMatches'
    OBVIOUS
<1>0. TypeOK
    BY DEF TypeInv
<1>1. Stake \in Nat /\ Stake' = Stake
    BY <1>0, StakeStays
<1>2. ASSUME NEW p \in Proposals, NEW b \in Backers, DepositSol(p, b)
      PROVE  BackingMatches'
    <2>1. totalBacking' = [totalBacking EXCEPT ![p] = @ + Stake]
        BY <1>2 DEF DepositSol, CreditedBacking, Stake
    <2>2. Stake * (Cardinality(backersOf[p]) + 1)
              = Stake * Cardinality(backersOf[p]) + Stake
        BY <1>0, <1>1, BackersFinite
    <2>3. totalBacking'[p] = Stake * Cardinality(backersOf'[p])
        <3>1. totalBacking'[p] = Stake * Cardinality(backersOf[p]) + Stake
            BY <1>0, <2>1 DEF BackingMatches, TypeOK
        <3>2. Cardinality(backersOf'[p]) = Cardinality(backersOf[p]) + 1
            BY <1>0, <1>2, OneBackerMore DEF TypeOK
        <3> QED
            BY <2>2, <3>1, <3>2
    <2>4. \A q \in Proposals \ {p} :
              totalBacking'[q] = totalBacking[q] /\ backersOf'[q] = backersOf[q]
        <3>1. /\ totalBacking \in [Proposals -> Nat]
              /\ backersOf \in [Proposals -> SUBSET Backers]
            BY <1>0 DEF TypeOK
        <3> QED
            BY <1>0, <1>2, <2>1, <3>1, OneBackerMore
    <2> QED
        BY <1>1, <2>3, <2>4 DEF BackingMatches
<1>3. ASSUME NEW p \in Proposals, NEW b \in Backers, Refund(p, b)
      PROVE  BackingMatches'
    <2>1. totalBacking' = [totalBacking EXCEPT ![p] = @ - Stake]
        BY <1>3 DEF Refund, RefundedAmount, Stake
    <2>2. Stake * (Cardinality(backersOf[p]) - 1)
              = Stake * Cardinality(backersOf[p]) - Stake
        BY <1>0, <1>1, BackersFinite
    <2>3. totalBacking'[p] = Stake * Cardinality(backersOf'[p])
        <3>1. totalBacking'[p] = Stake * Cardinality(backersOf[p]) - Stake
            BY <1>0, <2>1 DEF BackingMatches, TypeOK
        <3>2. Cardinality(backersOf'[p]) = Cardinality(backersOf[p]) - 1
            BY <1>0, <1>3, OneBackerLess DEF TypeOK
        <3> QED
            BY <2>2, <3>1, <3>2
    <2>4. \A q \in Proposals \ {p} :
              totalBacking'[q] = totalBacking[q] /\ backersOf'[q] = backersOf[q]
        <3>1. /\ totalBacking \in [Proposals -> Nat]
              /\ backersOf \in [Proposals -> SUBSET Backers]
            BY <1>0 DEF TypeOK
        <3> QED
            BY <1>0, <1>3, <2>1, <3>1, OneBackerLess
    <2> QED
        BY <1>1, <2>3, <2>4 DEF BackingMatches
<1>4. CASE UNCHANGED <<totalBacking, backersOf>>
    BY <1>1, <1>4 DEF BackingMatches
<1> QED
    BY <1>2, <1>3, <1>4
    DEF OperatingNext, FundingNext, LaunchNext, MilestoneNext, Tick,
        SetConfig, MintSoulboundToUser, CreateProposal, RejectProposal,
        CreatePool, TopUpWsol, Airdrop, InitialiseMilestone, SnapshotBacker,
        EndMilestone, ClaimMilestoneReward, Trade, OpenAccount, CloseAccount,
        vars, backingVars

LEMMA BackingMatchesInit == Init => BackingMatches
<1> SUFFICES ASSUME Init, NEW p \in Proposals
             PROVE  totalBacking[p] = Stake * Cardinality(backersOf[p])
    BY DEF BackingMatches
<1>1. TypeOK
    BY TypeInit DEF TypeInv
<1>2. Stake \in Nat
    BY <1>1, ConfigNat DEF Stake
<1>3. totalBacking[p] = 0 /\ Cardinality(backersOf[p]) = 0
    BY FS_EmptySet DEF Init
<1> QED
    BY <1>2, <1>3

(* total_backing of every proposal, launched, open or partly refunded, is  *)
(* one stake per Backers account.                                          *)
THEOREM BackingIsExact ==
    ASSUME OneStake
    PROVE  OperatingSpec => []BackingMatches
<1>1. LedgerInv => TypeInv
    BY DEF LedgerInv
<1> QED
    BY OperatingLedger, <1>1, BackingMatchesInit, BackingMatchesNext, PTL
    DEF OperatingSpec

-----------------------------------------------------------------------------
LEMMA EscrowedFinite ==
    ASSUME TypeOK
    PROVE  /\ IsFiniteSet(Escrowed) /\ Cardinality(Escrowed) \in Nat
           /\ IsFiniteSet(isPoolLaunched)
           /\ Cardinality(isPoolLaunched) \in Nat
           /\ IsFiniteSet(Proposals) /\ Cardinality(Proposals) \in Nat
<1>1. IsFiniteSet(Proposals)
    <2>1. IsFiniteSet(0 .. MaxProposals - 1)
        BY BoundsAssumption, FS_Interval
    <2> QED
        BY <2>1, WalletsAssumption, FS_Product DEF Proposals
<1>2. IsFiniteSet(Proposals \X Backers)
    BY <1>1, WalletsAssumption, FS_Product
<1>3. Escrowed \in SUBSET (Proposals \X Backers)
    BY DEF Escrowed
<1>4. isPoolLaunched \in SUBSET Proposals
    BY DEF TypeOK
<1>5. IsFiniteSet(Escrowed) /\ IsFiniteSet(isPoolLaunched)
    BY <1>1, <1>2, <1>3, <1>4, FS_Subset
<1> QED
    BY <1>1, <1>5, FS_CardinalityType

(* What a deposit, a refund and a launch do to the deposits in the vault.  *)
LEMMA EscrowedAfterDeposit ==
    ASSUME TypeOK, NEW p \in Proposals, NEW b \in Backers, DepositSol(p, b)
    PROVE  Cardinality(Escrowed)' = Cardinality(Escrowed) + 1
<1>1. /\ backersOf \in [Proposals -> SUBSET Backers]
      /\ backersOf' = [backersOf EXCEPT ![p] = @ \cup {b}]
      /\ b \notin backersOf[p] /\ p \notin isPoolLaunched
      /\ isPoolLaunched' = isPoolLaunched
    BY DEF TypeOK, DepositSol, NewBacker, BackingOpen, launchVars
<1>2. Escrowed' = Escrowed \cup {<<p, b>>} /\ <<p, b>> \notin Escrowed
    BY <1>1 DEF Escrowed
<1> QED
    BY <1>2, EscrowedFinite, FS_AddElement

LEMMA EscrowedAfterRefund ==
    ASSUME TypeOK, OneDecision,
           NEW p \in Proposals, NEW b \in Backers, Refund(p, b)
    PROVE  Cardinality(Escrowed)' = Cardinality(Escrowed) - 1
<1>1. /\ backersOf \in [Proposals -> SUBSET Backers]
      /\ backersOf' = [backersOf EXCEPT ![p] = @ \ {b}]
      /\ b \in backersOf[p] /\ p \notin isPoolLaunched
      /\ isPoolLaunched' = isPoolLaunched
    BY DEF TypeOK, Refund, OneDecision, launchVars
<1>2. Escrowed' = Escrowed \ {<<p, b>>} /\ <<p, b>> \in Escrowed
    BY <1>1 DEF Escrowed
<1> QED
    BY <1>2, EscrowedFinite, FS_RemoveElement

LEMMA EscrowedAfterLaunch ==
    ASSUME TypeOK, NEW p \in Proposals,
           NEW left \in [base : Leftovers, quote : Leftovers],
           CreatePool(p, left)
    PROVE  /\ Cardinality(Escrowed)' =
                  Cardinality(Escrowed) - Cardinality(backersOf[p])
           /\ Cardinality(isPoolLaunched') = Cardinality(isPoolLaunched) + 1
<1> DEFINE gone == {p} \X backersOf[p]
<1>1. /\ backersOf \in [Proposals -> SUBSET Backers]
      /\ backersOf' = backersOf
      /\ p \notin isPoolLaunched
      /\ isPoolLaunched' = isPoolLaunched \cup {p}
    BY DEF TypeOK, CreatePool, Launchable, backingVars
<1>2. Escrowed' = Escrowed \ gone
    BY <1>1 DEF Escrowed
<1>3. Escrowed \cap gone = gone
    <2>1. ASSUME NEW b \in backersOf[p] PROVE <<p, b>> \in Escrowed
        BY <1>1 DEF Escrowed
    <2>2. \A e \in gone : \E b \in backersOf[p] : e = <<p, b>>
        OBVIOUS
    <2>3. \A e \in gone : e \in Escrowed
        BY <2>1, <2>2
    <2> HIDE DEF gone
    <2> QED
        BY <2>3
<1>4. Cardinality(gone) = 1 * Cardinality(backersOf[p])
    <2>1. IsFiniteSet({p}) /\ Cardinality({p}) = 1
        BY FS_Singleton
    <2>2. IsFiniteSet(backersOf[p])
        BY BackersFinite
    <2> QED
        BY <2>1, <2>2, FS_Product
<1>5. Cardinality(gone) = Cardinality(backersOf[p])
    BY <1>4, BackersFinite
<1> HIDE DEF gone
<1>6. Cardinality(Escrowed)' = Cardinality(Escrowed) - Cardinality(gone)
    BY <1>2, <1>3, EscrowedFinite, FS_Difference
<1>7. Cardinality(isPoolLaunched') = Cardinality(isPoolLaunched) + 1
    BY <1>1, EscrowedFinite, FS_AddElement
<1> QED
    BY <1>5, <1>6, <1>7

LEMMA VaultAccountingNext ==
    ASSUME OneStake
    PROVE  TypeInv /\ OneDecision /\ BackingMatches /\ VaultAccounting
                   /\ [OperatingNext]_vars
               => VaultAccounting'
<1> SUFFICES ASSUME TypeInv, OneDecision, BackingMatches, VaultAccounting,
                    [OperatingNext]_vars
             PROVE  VaultAccounting'
    OBVIOUS
<1>0. TypeOK
    BY DEF TypeInv
<1>1. Stake \in Nat /\ Stake' = Stake
    BY <1>0, StakeStays
<1> DEFINE S == Stake
           C == Cardinality(Escrowed)
           L == Cardinality(isPoolLaunched)
<1>2. C \in Nat /\ L \in Nat /\ PoolRent \in Nat /\ Float \in Nat
    BY <1>0, EscrowedFinite, AmountsAssumption
<1>3. vaultAuthority = Float + S * C - PoolRent * L
    BY DEF VaultAccounting
<1>4. ASSUME NEW p \in Proposals, NEW b \in Backers, DepositSol(p, b)
      PROVE  VaultAccounting'
    <2>1. vaultAuthority' = vaultAuthority + S
              /\ isPoolLaunched' = isPoolLaunched
        BY <1>4 DEF DepositSol, Stake, launchVars
    <2>2. C' = C + 1
        BY <1>0, <1>4, EscrowedAfterDeposit
    <2>3. S * (C + 1) = S * C + S
        BY <1>1, <1>2
    <2>4. L' = L
        BY <2>1
    <2> HIDE DEF S, C, L
    <2>5. vaultAuthority' = Float + S * C' - PoolRent * L'
        BY <1>1, <1>2, <1>3, <2>1, <2>2, <2>3, <2>4 DEF S
    <2> QED
        BY <1>1, <2>5 DEF VaultAccounting, S, C, L
<1>5. ASSUME NEW p \in Proposals, NEW b \in Backers, Refund(p, b)
      PROVE  VaultAccounting'
    <2>1. vaultAuthority' = vaultAuthority - S
              /\ isPoolLaunched' = isPoolLaunched
        BY <1>5 DEF Refund, RefundedAmount, Stake, launchVars
    <2>2. C' = C - 1
        BY <1>0, <1>5, EscrowedAfterRefund
    <2>3. S * (C - 1) = S * C - S
        BY <1>1, <1>2
    <2>4. L' = L
        BY <2>1
    <2> HIDE DEF S, C, L
    <2>5. vaultAuthority' = Float + S * C' - PoolRent * L'
        BY <1>1, <1>2, <1>3, <2>1, <2>2, <2>3, <2>4 DEF S
    <2> QED
        BY <1>1, <2>5 DEF VaultAccounting, S, C, L
<1>6. ASSUME NEW p \in Proposals,
             NEW left \in [base : Leftovers, quote : Leftovers],
             CreatePool(p, left)
      PROVE  VaultAccounting'
    <2> DEFINE K == Cardinality(backersOf[p])
    <2>1. vaultAuthority' = vaultAuthority - (S * K + PoolRent)
        BY <1>6 DEF CreatePool, LaunchCost, BackingMatches
    <2>2. C' = C - K /\ L' = L + 1
        BY <1>0, <1>6, EscrowedAfterLaunch
    <2>3. K \in Nat
        BY <1>0, BackersFinite
    <2> HIDE DEF K
    <2>4. /\ S * (C - K) = S * C - S * K
          /\ PoolRent * (L + 1) = PoolRent * L + PoolRent
          /\ S * C \in Nat /\ S * K \in Nat /\ PoolRent * L \in Nat
        BY <1>1, <1>2, <2>3
    <2> HIDE DEF S, C, L
    <2>5. vaultAuthority' = Float + S * C' - PoolRent * L'
        BY <1>2, <1>3, <2>1, <2>2, <2>4
    <2> QED
        BY <1>1, <2>5 DEF VaultAccounting, S, C, L
<1>7. CASE UNCHANGED <<vaultAuthority, backersOf, isPoolLaunched>>
    BY <1>1, <1>7 DEF VaultAccounting, Escrowed
<1> QED
    BY <1>4, <1>5, <1>6, <1>7
    DEF OperatingNext, FundingNext, LaunchNext, MilestoneNext, Tick,
        SetConfig, MintSoulboundToUser, CreateProposal, RejectProposal,
        TopUpWsol, Airdrop, InitialiseMilestone, SnapshotBacker,
        EndMilestone, ClaimMilestoneReward, Trade, OpenAccount, CloseAccount,
        vars, backingVars, launchVars

LEMMA VaultAccountingInit == Init => VaultAccounting
<1> SUFFICES ASSUME Init PROVE VaultAccounting
    OBVIOUS
<1>1. Stake \in Nat /\ PoolRent \in Nat /\ Float \in Nat
    BY TypeInit, ConfigNat, AmountsAssumption DEF TypeInv, Stake
<1>2. Escrowed = {} /\ isPoolLaunched = {} /\ vaultAuthority = Float
    BY DEF Init, Escrowed
<1>3. Cardinality(Escrowed) = 0 /\ Cardinality(isPoolLaunched) = 0
    BY <1>2, FS_EmptySet
<1> QED
    BY <1>1, <1>2, <1>3 DEF VaultAccounting

(* The pooled account holds its float and one stake per open deposit, and  *)
(* lacks the rent of every pool created.                                   *)
THEOREM VaultIsExact ==
    ASSUME OneStake
    PROVE  OperatingSpec => []VaultAccounting
<1>1. LedgerInv => TypeInv /\ OneDecision
    BY DEF LedgerInv
<1> QED
    BY OperatingLedger, BackingIsExact, <1>1, VaultAccountingInit,
       VaultAccountingNext, PTL
    DEF OperatingSpec

-----------------------------------------------------------------------------
(* The backers of a proposal without a pool are all in escrow.             *)
LEMMA EscrowedIncludes ==
    ASSUME TypeOK, NEW p \in Proposals, p \notin isPoolLaunched
    PROVE  Cardinality(backersOf[p]) <= Cardinality(Escrowed)
<1> DEFINE own == {p} \X backersOf[p]
<1>1. ASSUME NEW b \in backersOf[p] PROVE <<p, b>> \in Escrowed
    BY <1>1 DEF TypeOK, Escrowed
<1>2. \A e \in own : \E b \in backersOf[p] : e = <<p, b>>
    OBVIOUS
<1>3. \A e \in own : e \in Escrowed
    BY <1>1, <1>2
<1>4. IsFiniteSet({p}) /\ Cardinality({p}) = 1
    BY FS_Singleton
<1>5. IsFiniteSet(backersOf[p]) /\ Cardinality(backersOf[p]) \in Nat
    BY BackersFinite
<1>6. Cardinality(own) = 1 * Cardinality(backersOf[p])
    BY <1>4, <1>5, FS_Product
<1> HIDE DEF own
<1>7. Cardinality(own) <= Cardinality(Escrowed)
    BY <1>3, EscrowedFinite, FS_Subset
<1> QED
    BY <1>5, <1>6, <1>7

(* A proposal that is not launched leaves room for one more pool.          *)
LEMMA RoomForAPool ==
    ASSUME TypeOK, NEW p \in Proposals, p \notin isPoolLaunched
    PROVE  Cardinality(isPoolLaunched) + 1 <= Cardinality(Proposals)
<1>1. isPoolLaunched \in SUBSET Proposals
    BY DEF TypeOK
<1>2. isPoolLaunched \cup {p} \in SUBSET Proposals
    BY <1>1
<1>3. Cardinality(isPoolLaunched \cup {p}) = Cardinality(isPoolLaunched) + 1
    BY EscrowedFinite, FS_AddElement
<1> QED
    BY <1>2, <1>3, EscrowedFinite, FS_Subset

LEMMA AccountingCovers ==
    ASSUME TypeOK, OneDecision, BackingMatches, VaultAccounting
    PROVE  EscrowCovers
<1> SUFFICES ASSUME FloatSuffices
             PROVE  /\ \A p \in proposals :
                           Undecided(p) => CanPay(LaunchCost(p))
                    /\ \A p \in isRejected :
                           backersOf[p] # {} =>
                               CanPay(Stake) /\ totalBacking[p] >= Stake
    BY DEF EscrowCovers
<1> DEFINE S == Stake
           C == Cardinality(Escrowed)
           L == Cardinality(isPoolLaunched)
           N == Cardinality(Proposals)
<1>1. /\ S \in Nat /\ C \in Nat /\ L \in Nat /\ N \in Nat
      /\ PoolRent \in Nat /\ Float \in Nat /\ RentExempt \in Nat
    BY EscrowedFinite, ConfigNat, AmountsAssumption DEF Stake
<1>2. vaultAuthority = Float + S * C - PoolRent * L
    BY DEF VaultAccounting
<1>3. Float >= PoolRent * N + RentExempt
    BY DEF FloatSuffices
<1>4. proposals \subseteq Proposals /\ isRejected \subseteq proposals
    BY DEF TypeOK
<1>5. ASSUME NEW p \in proposals, Undecided(p)
      PROVE  CanPay(LaunchCost(p))
    <2> DEFINE K == Cardinality(backersOf[p])
    <2>1. p \in Proposals /\ p \notin isPoolLaunched
        BY <1>4, <1>5 DEF Undecided
    <2>2. K \in Nat /\ K <= C /\ L + 1 <= N
        BY <2>1, BackersFinite, EscrowedIncludes, RoomForAPool
    <2>3. LaunchCost(p) = S * K + PoolRent
        BY <2>1 DEF LaunchCost, BackingMatches
    <2> HIDE DEF S, C, L, N, K
    <2>4. S * K <= S * C /\ PoolRent * (L + 1) <= PoolRent * N
        BY <1>1, <2>2, ProductMonotone
    <2>5. PoolRent * (L + 1) = PoolRent * L + PoolRent
        BY <1>1
    <2>6. /\ S * K \in Nat /\ S * C \in Nat
          /\ PoolRent * L \in Nat /\ PoolRent * N \in Nat
        BY <1>1, <2>2
    <2>7. vaultAuthority - LaunchCost(p) >= RentExempt
        BY <1>1, <1>2, <1>3, <2>3, <2>4, <2>5, <2>6
    <2>8. LaunchCost(p) \in Nat /\ vaultAuthority \in Nat
        BY <1>1, <2>3, <2>6 DEF TypeOK
    <2> QED
        BY <1>1, <2>7, <2>8 DEF CanPay, RentOk
<1>6. ASSUME NEW p \in isRejected, backersOf[p] # {}
      PROVE  CanPay(Stake) /\ totalBacking[p] >= Stake
    <2> DEFINE K == Cardinality(backersOf[p])
    <2>1. p \in Proposals /\ p \notin isPoolLaunched
        BY <1>4, <1>6 DEF OneDecision
    <2>2. K \in Nat /\ K <= C /\ L + 1 <= N
        BY <2>1, BackersFinite, EscrowedIncludes, RoomForAPool
    <2>3. K # 0
        BY <1>6, <2>1, BackersFinite, FS_EmptySet
    <2>4. totalBacking[p] = S * K
        BY <2>1 DEF BackingMatches
    <2> HIDE DEF S, C, L, N, K
    <2>5. S * 1 <= S * K /\ S * K <= S * C /\ PoolRent * L <= PoolRent * N
        BY <1>1, <2>2, <2>3, ProductMonotone
    <2>6. /\ S * 1 = S /\ S * K \in Nat /\ S * C \in Nat
          /\ PoolRent * L \in Nat /\ PoolRent * N \in Nat
        BY <1>1, <2>2
    <2>7. vaultAuthority - S >= RentExempt /\ totalBacking[p] >= S
        BY <1>1, <1>2, <1>3, <2>4, <2>5, <2>6
    <2>8. vaultAuthority \in Nat
        BY DEF TypeOK
    <2>9. vaultAuthority >= S /\ RentOk(vaultAuthority - S)
        BY <1>1, <2>7, <2>8 DEF RentOk
    <2> QED
        BY <2>7, <2>9 DEF CanPay, S
<1> QED
    BY <1>5, <1>6

(* With a float that pays for every pool there can be, and one stake, no   *)
(* launch and no refund is ever refused for lack of lamports.              *)
THEOREM EscrowIsCovered ==
    ASSUME OneStake
    PROVE  OperatingSpec => []EscrowCovers
<1>1. LedgerInv => TypeOK /\ OneDecision
    BY DEF LedgerInv, TypeInv
<1> QED
    BY OperatingLedger, BackingIsExact, VaultIsExact, <1>1,
       AccountingCovers, PTL
=============================================================================
