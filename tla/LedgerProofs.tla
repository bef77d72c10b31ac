---------------------------- MODULE LedgerProofs ----------------------------
(***************************************************************************)
(* The tokens and deposits of the proposals, summed over their backers and *)
(* over all mints: theorems of the program without its repair tools, for   *)
(* every value of the constants.                                           *)
(***************************************************************************)
EXTENDS LaunchpadLedger, RefinementProofs, SumProofs

(* The operator does not change how the tokens are split, and does not     *)
(* change how many are minted.                                             *)
OneSplit ==
    \A c, d \in ConfigChoices :
        /\ c.makerTokenAmount = d.makerTokenAmount
        /\ c.totalPoolTokens = d.totalPoolTokens
        /\ c.totalAirdropAmountPerMilestone = d.totalAirdropAmountPerMilestone

OneSupply == \A c, d \in ConfigChoices : c.totalMint = d.totalMint

-----------------------------------------------------------------------------
(* Without a reset a proposal keeps its first mint, and no reward is       *)
(* assigned before the launch.                                             *)
OneMint == \A p \in Proposals : mintAccount[p] = 0

Pristine ==
    \A p \in Proposals \ isPoolLaunched : milestoneUnitsAssigned[p] = 0

(* Backing comes from backers, so a proposal that can pay into a pool has  *)
(* some, and dividing by their number is safe ever after.                  *)
BackingHasBackers ==
    \A p \in Proposals \ isRejected :
        totalBackers[p] = 0 => totalBacking[p] = 0

LaunchedHasBackers == \A p \in isPoolLaunched : totalBackers[p] > 0

AirdropsToBackers ==
    \A p \in Proposals : initialAirdropReceived[p] \subseteq backersOf[p]

CycleWithinMax == \A p \in Proposals : currentAirdropCycle[p] <= CycleMax

TokenInv ==
    /\ RoundInv /\ NoClaimsBefore /\ AirdropsAfterLaunch
    /\ OneMint /\ Pristine /\ BackingHasBackers /\ LaunchedHasBackers
    /\ AirdropsToBackers /\ CycleWithinMax

(* What was burnt is bounded by the cycles that ended, what was granted by *)
(* the snapshots taken.                                                    *)
BurntAtMost(p) ==
    supply[CurrentMint(p)]
        + FullReputation * Cardinality(Backers) * (currentAirdropCycle[p] - 1)
        >= config.totalMint

Snapshots(p) ==
    totalBackers[p] * (currentAirdropCycle[p] - 1)
        + (IF p \in milestoneActive THEN milestoneBackersWeighted[p] ELSE 0)

GrantedAtMost(p) ==
    milestoneUnitsAssigned[p] <= PerBacker(p) * Snapshots(p)

LEMMA TokenInit == Init => TokenInv
<1> SUFFICES ASSUME Init PROVE TokenInv
    OBVIOUS
<1>1. RoundInv /\ AirdropsAfterLaunch
    BY RoundInvInit, SlotsInit
<1>3. Pristine
    BY DEF Init, Pristine
<1>4. /\ NoClaimsBefore /\ OneMint /\ BackingHasBackers
      /\ LaunchedHasBackers /\ AirdropsToBackers
    BY DEF Init, NoClaimsBefore, OneMint, BackingHasBackers,
           LaunchedHasBackers, AirdropsToBackers
<1>5. CycleWithinMax
    BY BoundsAssumption DEF Init, CycleWithinMax
<1> QED
    BY <1>1, <1>3, <1>4, <1>5 DEF TokenInv

(* What the instructions do to the sets and counters above.                *)
LEMMA MintStays ==
    ASSUME OneMint, [OperatingNext]_vars
    PROVE  mintAccount' = mintAccount /\ OneMint'
<1>1. mintAccount' = mintAccount
    BY DEF OperatingNext, FundingNext, LaunchNext, MilestoneNext, Tick,
           SetConfig, MintSoulboundToUser, CreateProposal, DepositSol,
           RejectProposal, Refund, CreatePool, TopUpWsol, Airdrop,
           InitialiseMilestone, SnapshotBacker, EndMilestone,
           ClaimMilestoneReward, Trade, OpenAccount, CloseAccount, vars,
           launchVars
<1> QED
    BY <1>1 DEF OneMint

LEMMA LaunchIsStep ==
    ASSUME TypeOK, [OperatingNext]_vars, NEW p \in isPoolLaunched',
           p \notin isPoolLaunched
    PROVE  /\ p \in Proposals
           /\ \E left \in [base : Leftovers, quote : Leftovers] :
                  CreatePool(p, left)
<1>1. ASSUME NEW q \in Proposals,
             NEW left \in [base : Leftovers, quote : Leftovers],
             CreatePool(q, left)
      PROVE  p = q
    BY <1>1 DEF CreatePool
<1>2. isPoolLaunched' # isPoolLaunched
    OBVIOUS
<1>3. \E q \in Proposals, left \in [base : Leftovers, quote : Leftovers] :
          CreatePool(q, left)
    BY <1>2, EscrowSteps
    DEF CreateProposal, DepositSol, Refund, RejectProposal, launchVars
<1> QED
    BY <1>1, <1>3

LEMMA BackingHasBackersNext ==
    ASSUME TypeOK, BackingHasBackers, [OperatingNext]_vars
    PROVE  BackingHasBackers'
<1>1. ASSUME NEW p \in Proposals, NEW b \in Backers, DepositSol(p, b)
      PROVE  BackingHasBackers'
    BY <1>1 DEF DepositSol, BackingHasBackers, TypeOK
<1>2. ASSUME NEW p \in Proposals, NEW b \in Backers, Refund(p, b)
      PROVE  BackingHasBackers'
    BY <1>2 DEF Refund, BackingHasBackers, TypeOK
<1>3. CASE /\ UNCHANGED <<totalBackers, totalBacking>>
           /\ isRejected \subseteq isRejected'
    BY <1>3 DEF BackingHasBackers
<1> QED
    BY <1>1, <1>2, <1>3
    DEF OperatingNext, FundingNext, LaunchNext, MilestoneNext, Tick,
        SetConfig, MintSoulboundToUser, CreateProposal, RejectProposal,
        CreatePool, TopUpWsol, Airdrop, InitialiseMilestone, SnapshotBacker,
        EndMilestone, ClaimMilestoneReward, Trade, OpenAccount, CloseAccount,
        vars, backingVars

LEMMA LaunchedHasBackersNext ==
    ASSUME TypeOK, BackingHasBackers, LaunchedHasBackers,
           [OperatingNext]_vars
    PROVE  LaunchedHasBackers'
<1>1. ASSUME NEW p \in Proposals,
             NEW left \in [base : Leftovers, quote : Leftovers],
             CreatePool(p, left)
      PROVE  LaunchedHasBackers'
    <2>1. totalBacking[p] > 0
        <3>1. totalBacking[p] - left.quote > 0
            BY <1>1 DEF CreatePool, PoolTakes
        <3>2. left.quote \in Nat /\ totalBacking[p] \in Nat
            BY AmountsAssumption DEF TypeOK
        <3> QED
            BY <3>1, <3>2
    <2>2. p \notin isRejected
        BY <1>1 DEF CreatePool, Launchable
    <2>3. totalBackers[p] > 0
        BY <2>1, <2>2 DEF BackingHasBackers, TypeOK
    <2> QED
        BY <1>1, <2>3 DEF CreatePool, LaunchedHasBackers, backingVars
<1>2. ASSUME NEW p \in Proposals, NEW b \in Backers, DepositSol(p, b)
      PROVE  LaunchedHasBackers'
    BY <1>2 DEF DepositSol, LaunchedHasBackers, TypeOK, launchVars
<1>3. CASE UNCHANGED <<isPoolLaunched, totalBackers>>
    BY <1>3 DEF LaunchedHasBackers
<1> QED
    BY <1>1, <1>2, <1>3
    DEF OperatingNext, FundingNext, LaunchNext, MilestoneNext, Tick,
        SetConfig, MintSoulboundToUser, CreateProposal, RejectProposal,
        Refund, TopUpWsol, Airdrop, InitialiseMilestone, SnapshotBacker,
        EndMilestone, ClaimMilestoneReward, Trade, OpenAccount, CloseAccount,
        vars, backingVars, launchVars

LEMMA AirdropsToBackersNext ==
    ASSUME TypeOK, AirdropsToBackers, [OperatingNext]_vars
    PROVE  AirdropsToBackers'
<1>1. ASSUME NEW p \in Proposals, NEW b \in Backers,
             DepositSol(p, b) \/ Refund(p, b)
      PROVE  AirdropsToBackers'
    <2>1. /\ initialAirdropReceived' =
                 [initialAirdropReceived EXCEPT ![p] = @ \ {b}]
          /\ \/ backersOf' = [backersOf EXCEPT ![p] = @ \cup {b}]
             \/ backersOf' = [backersOf EXCEPT ![p] = @ \ {b}]
        BY <1>1 DEF DepositSol, Refund
    <2> QED
        BY <2>1 DEF AirdropsToBackers, TypeOK
<1>2. ASSUME NEW p \in Proposals, NEW b \in Backers,
             NEW m \in Mints \cup {Wsol},
             Airdrop(p, b, m)
      PROVE  AirdropsToBackers'
    BY <1>2 DEF Airdrop, AirdropDue, AirdropsToBackers, TypeOK, backingVars
<1>3. CASE UNCHANGED <<backersOf, initialAirdropReceived>>
    BY <1>3 DEF AirdropsToBackers
<1> QED
    BY <1>1, <1>2, <1>3
    DEF OperatingNext, FundingNext, LaunchNext, MilestoneNext, Tick,
        SetConfig, MintSoulboundToUser, CreateProposal, RejectProposal,
        CreatePool, TopUpWsol, InitialiseMilestone, SnapshotBacker,
        EndMilestone, ClaimMilestoneReward, Trade, OpenAccount, CloseAccount,
        vars, backingVars

LEMMA CycleWithinMaxNext ==
    ASSUME TypeOK, CycleWithinMax, [OperatingNext]_vars
    PROVE  CycleWithinMax'
<1>1. ASSUME NEW m \in Makers, CreateProposal(m) PROVE CycleWithinMax'
    <2>1. CycleMax \in Nat /\ 1 <= CycleMax
        BY BoundsAssumption
    <2> QED
        BY <1>1, <2>1 DEF CreateProposal, CycleWithinMax, TypeOK
<1>2. ASSUME NEW p \in Proposals, EndMilestone(p) PROVE CycleWithinMax'
    BY <1>2, BoundsAssumption DEF EndMilestone, CycleWithinMax, TypeOK
<1>3. CASE UNCHANGED currentAirdropCycle
    BY <1>3 DEF CycleWithinMax
<1> QED
    BY <1>1, <1>2, <1>3, RoundSteps
    DEF DepositSol, Refund, SnapshotBacker, InitialiseMilestone,
        milestoneVars

LEMMA PristineNext ==
    ASSUME TypeOK, Pristine, [OperatingNext]_vars
    PROVE  Pristine'
<1>1. isPoolLaunched \subseteq isPoolLaunched'
    BY EscrowSteps
    DEF CreateProposal, DepositSol, Refund, RejectProposal, CreatePool,
        launchVars
<1>2. ASSUME NEW p \in Proposals, NEW b \in Backers, SnapshotBacker(p, b)
      PROVE  Pristine'
    BY <1>1, <1>2 DEF SnapshotBacker, Pristine, TypeOK
<1>3. CASE UNCHANGED milestoneUnitsAssigned
    BY <1>1, <1>3 DEF Pristine
<1> QED
    BY <1>2, <1>3
    DEF OperatingNext, FundingNext, LaunchNext, MilestoneNext, Tick,
        SetConfig, MintSoulboundToUser, CreateProposal, DepositSol,
        RejectProposal, Refund, CreatePool, TopUpWsol, Airdrop,
        InitialiseMilestone, EndMilestone, ClaimMilestoneReward, Trade,
        OpenAccount, CloseAccount, vars, milestoneVars

LEMMA TokenInvNext == TokenInv /\ [OperatingNext]_vars => TokenInv'
<1> SUFFICES ASSUME TokenInv, [OperatingNext]_vars PROVE TokenInv'
    OBVIOUS
<1>1. TypeInv /\ TypeOK
    BY DEF TokenInv, RoundInv, LedgerInv, TypeInv
<1> QED
    BY <1>1, RoundInvNext, NoClaimsBeforeNext, AirdropsAfterLaunchNext,
       MintStays, PristineNext, BackingHasBackersNext,
       LaunchedHasBackersNext, AirdropsToBackersNext, CycleWithinMaxNext
    DEF TokenInv

LEMMA TokenInvariant == OperatingSpec => []TokenInv
BY TokenInit, TokenInvNext, PTL DEF OperatingSpec

-----------------------------------------------------------------------------
(* The books of a launched proposal: which steps write in them.            *)
Untouched(p) ==
    /\ supply'[CurrentMint(p)] = supply[CurrentMint(p)]
    /\ claimAmount'[p] = claimAmount[p]
    /\ initialAirdropReceived'[p] = initialAirdropReceived[p]
    /\ milestoneUnitsAssigned'[p] = milestoneUnitsAssigned[p]
    /\ milestoneBackersWeighted'[p] = milestoneBackersWeighted[p]
    /\ currentAirdropCycle'[p] = currentAirdropCycle[p]
    /\ p \in milestoneActive' <=> p \in milestoneActive

BookStep(p) ==
    \/ \E b \in backersOf[p], m \in Mints \cup {Wsol} : Airdrop(p, b, m)
    \/ \E b \in backersOf[p] : SnapshotBacker(p, b)
    \/ \E b \in backersOf[p], m \in Mints \cup {Wsol} :
           ClaimMilestoneReward(p, b, m)
    \/ InitialiseMilestone(p)
    \/ EndMilestone(p)

LEMMA BookSteps ==
    ASSUME TypeOK, OneDecision, OneMint, [OperatingNext]_vars,
           NEW p \in isPoolLaunched
    PROVE  BookStep(p) \/ Untouched(p)
<1>0. /\ p \in Proposals /\ p \in proposals /\ p \notin isRejected
      /\ CurrentMint(p) = <<p, 0>> /\ CurrentMint(p) \in Mints
      /\ supply \in [Mints -> Nat]
      /\ claimAmount \in [Proposals -> [Backers -> Nat]]
      /\ initialAirdropReceived \in [Proposals -> SUBSET Backers]
      /\ milestoneUnitsAssigned \in [Proposals -> Nat]
      /\ milestoneBackersWeighted \in [Proposals -> Nat]
      /\ currentAirdropCycle \in [Proposals -> Nat]
    BY DEF TypeOK, OneDecision, OneMint, CurrentMint, Mints
<1>1. ASSUME NEW q \in Makers, CreateProposal(q) PROVE Untouched(p)
    BY <1>0, <1>1 DEF CreateProposal, Untouched, rewardVars
<1>2. ASSUME NEW q \in Proposals, NEW b \in Backers,
             DepositSol(q, b) \/ Refund(q, b)
      PROVE  Untouched(p)
    <2>1. q # p
        BY <1>0, <1>2 DEF DepositSol, BackingOpen, Refund
    <2> QED
        BY <1>0, <1>2, <2>1
        DEF DepositSol, Refund, Untouched, tokenVars, milestoneVars
<1>3. ASSUME NEW q \in Proposals,
             NEW left \in [base : Leftovers, quote : Leftovers],
             CreatePool(q, left)
      PROVE  Untouched(p)
    <2>1. q # p
        BY <1>3 DEF CreatePool, Launchable
    <2>2. CurrentMint(q) # CurrentMint(p)
        BY <2>1 DEF CurrentMint
    <2>3. supply' = [supply EXCEPT ![CurrentMint(q)] =
                         supply[CurrentMint(q)] + config.totalMint]
        BY <1>3 DEF CreatePool
    <2> QED
        BY <1>0, <1>3, <2>2, <2>3
        DEF CreatePool, Untouched, milestoneVars, rewardVars
<1>4. ASSUME NEW q \in Proposals, NEW b \in Backers,
             NEW m \in Mints \cup {Wsol},
             Airdrop(q, b, m) \/ ClaimMilestoneReward(q, b, m)
      PROVE  BookStep(p) \/ Untouched(p)
    <2>1. b \in backersOf[q]
        BY <1>4 DEF Airdrop, AirdropDue, ClaimMilestoneReward
    <2>2. CASE q = p
        BY <1>4, <2>1, <2>2 DEF BookStep
    <2>3. CASE q # p
        BY <1>0, <1>4, <2>3
        DEF Airdrop, ClaimMilestoneReward, Untouched, milestoneVars,
            rewardVars
    <2> QED
        BY <2>2, <2>3
<1>5. ASSUME NEW q \in Proposals, NEW b \in Backers, SnapshotBacker(q, b)
      PROVE  BookStep(p) \/ Untouched(p)
    <2>1. b \in backersOf[q]
        BY <1>5 DEF SnapshotBacker
    <2>2. CASE q = p
        BY <1>5, <2>1, <2>2 DEF BookStep
    <2>3. CASE q # p
        BY <1>0, <1>5, <2>3 DEF SnapshotBacker, Untouched, tokenVars
    <2> QED
        BY <2>2, <2>3
<1>6. ASSUME NEW q \in Proposals, InitialiseMilestone(q)
      PROVE  BookStep(p) \/ Untouched(p)
    <2>1. CASE q = p
        BY <1>6, <2>1 DEF BookStep
    <2>2. CASE q # p
        BY <1>0, <1>6, <2>2 DEF InitialiseMilestone, Untouched, rewardVars
    <2> QED
        BY <2>1, <2>2
<1>7. ASSUME NEW q \in Proposals, EndMilestone(q)
      PROVE  BookStep(p) \/ Untouched(p)
    <2>1. CASE q = p
        BY <1>7, <2>1 DEF BookStep
    <2>2. CASE q # p
        <3> DEFINE m == CurrentMint(q)
        <3>1. m # CurrentMint(p)
            BY <2>2 DEF CurrentMint
        <3>2. supply' = [supply EXCEPT ![m] = supply[m] - MilestoneBurn(q)]
            BY <1>7 DEF EndMilestone
        <3> HIDE DEF m
        <3>3. supply'[CurrentMint(p)] = supply[CurrentMint(p)]
            BY <1>0, <3>1, <3>2
        <3> QED
            BY <1>0, <1>7, <2>2, <3>3
            DEF EndMilestone, Untouched, rewardVars
    <2> QED
        BY <2>1, <2>2
<1>8. CASE UNCHANGED <<supply, claimAmount,
                       initialAirdropReceived, milestoneVars>>
    BY <1>8 DEF Untouched, milestoneVars
<1> QED
    BY <1>1, <1>2, <1>3, <1>4, <1>5, <1>6, <1>7, <1>8
    DEF OperatingNext, FundingNext, LaunchNext, MilestoneNext, Tick,
        SetConfig, MintSoulboundToUser, RejectProposal, TopUpWsol, Trade,
        OpenAccount, CloseAccount, vars, tokenVars, rewardVars

(* The backers of a launched proposal stay, and with one split of the      *)
(* tokens so does everything computed from the configuration.              *)
LEMMA LaunchedStays ==
    ASSUME TypeOK, OneDecision, [OperatingNext]_vars,
           NEW p \in isPoolLaunched
    PROVE  /\ backersOf'[p] = backersOf[p]
           /\ totalBackers'[p] = totalBackers[p]
<1>0. /\ p \in Proposals /\ p \notin isRejected
      /\ backersOf \in [Proposals -> SUBSET Backers]
      /\ totalBackers \in [Proposals -> Nat]
    BY DEF TypeOK, OneDecision
<1>1. ASSUME NEW q \in Proposals, NEW b \in Backers,
             DepositSol(q, b) \/ Refund(q, b)
      PROVE  /\ backersOf'[p] = backersOf[p]
             /\ totalBackers'[p] = totalBackers[p]
    <2>1. q # p
        BY <1>0, <1>1 DEF DepositSol, BackingOpen, Refund
    <2> QED
        BY <1>0, <1>1, <2>1 DEF DepositSol, Refund
<1>2. CASE UNCHANGED <<backersOf, totalBackers>>
    BY <1>2
<1> QED
    BY <1>1, <1>2
    DEF OperatingNext, FundingNext, LaunchNext, MilestoneNext, Tick,
        SetConfig, MintSoulboundToUser, CreateProposal, RejectProposal,
        CreatePool, TopUpWsol, Airdrop, InitialiseMilestone, SnapshotBacker,
        EndMilestone, ClaimMilestoneReward, Trade, OpenAccount, CloseAccount,
        vars, backingVars

LEMMA SplitStays ==
    ASSUME OneSplit, TypeOK, TypeOK'
    PROVE  /\ config.makerTokenAmount \in Nat
           /\ config.totalPoolTokens \in Nat
           /\ config.totalAirdropAmountPerMilestone \in Nat
           /\ config'.makerTokenAmount = config.makerTokenAmount
           /\ config'.totalPoolTokens = config.totalPoolTokens
           /\ config'.totalAirdropAmountPerMilestone
                  = config.totalAirdropAmountPerMilestone
BY ConfigNat DEF OneSplit, TypeOK

(* The share of a launched proposal, whose number of backers is known.     *)
LEMMA LaunchedShare ==
    ASSUME TokenInv, NEW p \in isPoolLaunched
    PROVE  /\ p \in Proposals /\ totalBackers[p] = Cardinality(backersOf[p])
           /\ totalBackers[p] \in Nat \ {0} /\ PerBacker(p) \in Nat
           /\ CurrentMint(p) \in Mints
           /\ IsFiniteSet(backersOf[p]) /\ backersOf[p] \subseteq Backers
           /\ claimAmount[p] \in [Backers -> Nat]
           /\ OutstandingClaims(p) \in Nat
           /\ IsFiniteSet(initialAirdropReceived[p])
           /\ Cardinality(initialAirdropReceived[p]) \in Nat
<1>0. /\ TypeOK /\ p \in Proposals /\ p \notin isRejected
      /\ backersOf[p] \subseteq Backers
      /\ claimAmount[p] \in [Backers -> Nat]
      /\ CurrentMint(p) \in Mints
    BY DEF TokenInv, RoundInv, LedgerInv, TypeInv, TypeOK, OneDecision,
           CurrentMint, Mints
<1>1. totalBackers[p] = Cardinality(backersOf[p]) /\ totalBackers[p] > 0
    BY <1>0 DEF TokenInv, RoundInv, LedgerInv, BackersCounted,
                LaunchedHasBackers
<1>2. IsFiniteSet(backersOf[p]) /\ totalBackers[p] \in Nat \ {0}
    BY <1>0, <1>1, BackersFinite
<1>3. PerBacker(p) \in Nat
    BY <1>0, <1>1, PerBackerNat
<1>4. OutstandingClaims(p) \in Nat
    BY <1>0, <1>2, SumNat DEF OutstandingClaims
<1>5. initialAirdropReceived[p] \in SUBSET backersOf[p]
    BY <1>0 DEF TokenInv, AirdropsToBackers
<1>6. /\ IsFiniteSet(initialAirdropReceived[p])
      /\ Cardinality(initialAirdropReceived[p]) \in Nat
    BY <1>2, <1>5, FS_Subset, FS_CardinalityType
<1> QED
    BY <1>0, <1>1, <1>2, <1>3, <1>4, <1>6

(* The sum of the claims follows the one claim that changes.               *)
LEMMA ClaimsMove ==
    ASSUME TokenInv, NEW p \in isPoolLaunched, NEW b \in backersOf[p],
           NEW v \in Nat, backersOf'[p] = backersOf[p],
           claimAmount' = [claimAmount EXCEPT ![p][b] = v]
    PROVE  OutstandingClaims(p)' + claimAmount[p][b]
               = OutstandingClaims(p) + v
<1>1. /\ p \in Proposals /\ IsFiniteSet(backersOf[p])
      /\ backersOf[p] \subseteq Backers
      /\ claimAmount[p] \in [Backers -> Nat]
    BY LaunchedShare
<1>2. claimAmount'[p] = [claimAmount[p] EXCEPT ![b] = v]
    BY <1>1 DEF TokenInv, RoundInv, LedgerInv, TypeInv, TypeOK
<1>3. SumFunctionOnSet([claimAmount[p] EXCEPT ![b] = v], backersOf[p])
          + claimAmount[p][b]
          = SumFunctionOnSet(claimAmount[p], backersOf[p]) + v
    BY <1>1, SumUpdate
<1> QED
    BY <1>2, <1>3 DEF OutstandingClaims

-----------------------------------------------------------------------------
(* What the launch of p may have put in circulation, step by step.  No     *)
(* more is claimed than was assigned, so it is a natural number.           *)
ClaimsGranted ==
    \A p \in isPoolLaunched :
        OutstandingClaims(p) <= milestoneUnitsAssigned[p]

EntitledSum ==
    SumFunctionOnSet([p \in isPoolLaunched |-> Entitled(p)], isPoolLaunched)

Still(p) ==
    /\ claimAmount'[p] = claimAmount[p]
    /\ initialAirdropReceived'[p] = initialAirdropReceived[p]
    /\ milestoneUnitsAssigned'[p] = milestoneUnitsAssigned[p]

LEMMA EntitledNat ==
    ASSUME TokenInv, ClaimsGranted, NEW p \in isPoolLaunched
    PROVE  Entitled(p) \in Nat
<1> DEFINE k == Cardinality(initialAirdropReceived[p])
<1>1. /\ PerBacker(p) \in Nat /\ k \in Nat /\ OutstandingClaims(p) \in Nat
      /\ milestoneUnitsAssigned[p] \in Nat
      /\ config.makerTokenAmount \in Nat /\ config.totalPoolTokens \in Nat
    BY LaunchedShare, ConfigNat
    DEF TokenInv, RoundInv, LedgerInv, TypeInv, TypeOK
<1>2. OutstandingClaims(p) <= milestoneUnitsAssigned[p]
    BY DEF ClaimsGranted
<1> HIDE DEF k
<1>3. PerBacker(p) * k \in Nat
    BY <1>1
<1> QED
    BY <1>1, <1>2, <1>3 DEF Entitled, k

LEMMA LaunchedFinite ==
    ASSUME TypeOK
    PROVE  /\ IsFiniteSet(isPoolLaunched) /\ isPoolLaunched \subseteq Proposals
           /\ IsFiniteSet(Mints)
<1>1. IsFiniteSet(Proposals) /\ isPoolLaunched \subseteq Proposals
    BY EscrowedFinite DEF TypeOK
<1>2. IsFiniteSet(0 .. MaxMints - 1)
    BY BoundsAssumption, FS_Interval
<1> QED
    BY <1>1, <1>2, FS_Subset, FS_Product DEF Mints

(* The parts of Entitled(p) before and after a step.                       *)
LEMMA EntitledParts ==
    ASSUME OneSplit, TokenInv, TokenInv', [OperatingNext]_vars,
           NEW p \in isPoolLaunched
    PROVE  /\ p \in Proposals /\ backersOf[p] \subseteq Backers
           /\ backersOf'[p] = backersOf[p]
           /\ claimAmount[p] \in [Backers -> Nat]
           /\ config.makerTokenAmount \in Nat
           /\ config.totalPoolTokens \in Nat
           /\ config'.makerTokenAmount = config.makerTokenAmount
           /\ config'.totalPoolTokens = config.totalPoolTokens
           /\ PerBacker(p) \in Nat /\ PerBacker(p)' = PerBacker(p)
           /\ Cardinality(initialAirdropReceived[p]) \in Nat
           /\ IsFiniteSet(initialAirdropReceived[p])
           /\ milestoneUnitsAssigned[p] \in Nat
           /\ OutstandingClaims(p) \in Nat /\ OutstandingClaims(p)' \in Nat
<1>0. TypeOK /\ TypeOK' /\ OneDecision
    BY DEF TokenInv, RoundInv, LedgerInv, TypeInv
<1>1. /\ p \in Proposals /\ PerBacker(p) \in Nat
      /\ IsFiniteSet(backersOf[p]) /\ backersOf[p] \subseteq Backers
      /\ claimAmount[p] \in [Backers -> Nat]
      /\ OutstandingClaims(p) \in Nat
      /\ IsFiniteSet(initialAirdropReceived[p])
      /\ Cardinality(initialAirdropReceived[p]) \in Nat
    BY LaunchedShare
<1>2. /\ backersOf'[p] = backersOf[p] /\ totalBackers'[p] = totalBackers[p]
    BY <1>0, LaunchedStays
<1>3. OutstandingClaims(p)' \in Nat
    <2>1. claimAmount'[p] \in [Backers -> Nat]
        BY <1>0, <1>1 DEF TypeOK
    <2>2. SumFunctionOnSet(claimAmount'[p], backersOf[p]) \in Nat
        BY <1>1, <2>1, SumNat
    <2> QED
        BY <1>2, <2>2 DEF OutstandingClaims
<1>4. /\ config.makerTokenAmount \in Nat /\ config.totalPoolTokens \in Nat
      /\ config'.makerTokenAmount = config.makerTokenAmount
      /\ config'.totalPoolTokens = config.totalPoolTokens
      /\ PerBacker(p)' = PerBacker(p)
    BY <1>0, <1>2, SplitStays DEF PerBacker
<1>5. milestoneUnitsAssigned[p] \in Nat
    BY <1>0, <1>1 DEF TypeOK
<1> QED
    BY <1>1, <1>2, <1>3, <1>4, <1>5

LEMMA EntitledStays ==
    ASSUME OneSplit, TokenInv, TokenInv', [OperatingNext]_vars,
           NEW p \in isPoolLaunched, Still(p)
    PROVE  /\ Entitled(p)' = Entitled(p)
           /\ OutstandingClaims(p)' = OutstandingClaims(p)
<1>1. OutstandingClaims(p)' = OutstandingClaims(p)
    BY EntitledParts DEF Still, OutstandingClaims
<1> QED
    BY <1>1, EntitledParts DEF Still, Entitled

LEMMA EntitledByAirdrop ==
    ASSUME OneSplit, TokenInv, TokenInv', [OperatingNext]_vars,
           NEW p \in isPoolLaunched, NEW b \in backersOf[p],
           NEW m \in Mints \cup {Wsol}, Airdrop(p, b, m)
    PROVE  /\ Entitled(p)' = Entitled(p) + PerBacker(p)
           /\ OutstandingClaims(p)' = OutstandingClaims(p)
           /\ milestoneUnitsAssigned' = milestoneUnitsAssigned
<1> DEFINE k == Cardinality(initialAirdropReceived[p])
           owed == OutstandingClaims(p)
           per == PerBacker(p)
           rest == config.makerTokenAmount + config.totalPoolTokens
           units == milestoneUnitsAssigned[p]
<1>1. /\ initialAirdropReceived' =
             [initialAirdropReceived EXCEPT ![p] = @ \cup {b}]
      /\ b \notin initialAirdropReceived[p]
      /\ milestoneUnitsAssigned' = milestoneUnitsAssigned
      /\ claimAmount' = claimAmount
    BY DEF Airdrop, AirdropDue, milestoneVars, rewardVars
<1>2. owed' = owed
    BY <1>1, EntitledParts DEF OutstandingClaims
<1>3. k' = k + 1
    <2>1. initialAirdropReceived'[p] = initialAirdropReceived[p] \cup {b}
        BY <1>1, EntitledParts
        DEF TokenInv, RoundInv, LedgerInv, TypeInv, TypeOK
    <2> QED
        BY <1>1, <2>1, EntitledParts, FS_AddElement
<1>4. /\ rest \in Nat /\ rest' = rest /\ per \in Nat /\ per' = per
      /\ k \in Nat /\ units \in Nat /\ owed \in Nat
    BY EntitledParts
<1>5. Entitled(p) = rest + per * k + units - owed
          /\ Entitled(p)' = rest' + per' * k' + units' - owed'
    BY DEF Entitled
<1> HIDE DEF k, owed, per, rest, units
<1>6. per * (k + 1) = per * k + per /\ per * k \in Nat
    BY <1>4
<1>7. units' = units
    BY <1>1 DEF units
<1>8. Entitled(p)' = Entitled(p) + per
    BY <1>2, <1>3, <1>4, <1>5, <1>6, <1>7
<1> QED
    BY <1>1, <1>2, <1>8 DEF per, owed

LEMMA EntitledByClaim ==
    ASSUME OneSplit, TokenInv, TokenInv', [OperatingNext]_vars,
           NEW p \in isPoolLaunched, NEW b \in backersOf[p],
           NEW m \in Mints \cup {Wsol}, ClaimMilestoneReward(p, b, m)
    PROVE  /\ Entitled(p)' = Entitled(p) + claimAmount[p][b]
           /\ OutstandingClaims(p)' <= OutstandingClaims(p)
           /\ milestoneUnitsAssigned' = milestoneUnitsAssigned
<1> DEFINE share == PerBacker(p) * Cardinality(initialAirdropReceived[p])
           owed == OutstandingClaims(p)
           rest == config.makerTokenAmount + config.totalPoolTokens
           units == milestoneUnitsAssigned[p]
           claim == claimAmount[p][b]
<1>1. /\ initialAirdropReceived' = initialAirdropReceived
      /\ claimAmount' = [claimAmount EXCEPT ![p][b] = 0]
      /\ milestoneUnitsAssigned' = milestoneUnitsAssigned
    BY DEF ClaimMilestoneReward, milestoneVars
<1>2. owed' + claim = owed + 0
    BY <1>1, EntitledParts, ClaimsMove
<1>3. /\ rest \in Nat /\ rest' = rest /\ units \in Nat
      /\ owed \in Nat /\ owed' \in Nat /\ claim \in Nat
    BY EntitledParts
<1>4. share \in Nat /\ share' = share
    BY <1>1, EntitledParts
<1>5. Entitled(p) = rest + share + units - owed
          /\ Entitled(p)' = rest' + share' + units' - owed'
    BY DEF Entitled
<1> HIDE DEF share, owed, rest, units, claim
<1>6. units' = units
    BY <1>1 DEF units
<1>7. Entitled(p)' = Entitled(p) + claim /\ owed' <= owed
    BY <1>2, <1>3, <1>4, <1>5, <1>6
<1> QED
    BY <1>1, <1>7 DEF claim, owed

LEMMA EntitledBySnapshot ==
    ASSUME OneSplit, TokenInv, TokenInv', [OperatingNext]_vars,
           NEW p \in isPoolLaunched, NEW b \in backersOf[p],
           SnapshotBacker(p, b)
    PROVE  /\ Entitled(p)' = Entitled(p)
           /\ OutstandingClaims(p)' - milestoneUnitsAssigned'[p]
                  = OutstandingClaims(p) - milestoneUnitsAssigned[p]
<1> DEFINE share == PerBacker(p) * Cardinality(initialAirdropReceived[p])
           owed == OutstandingClaims(p)
           rest == config.makerTokenAmount + config.totalPoolTokens
           granted == SnapshotUnits(p, b)
           units == milestoneUnitsAssigned[p]
           claim == claimAmount[p][b]
<1>1. /\ initialAirdropReceived' = initialAirdropReceived
      /\ claimAmount' = [claimAmount EXCEPT ![p][b] = claim + granted]
      /\ milestoneUnitsAssigned' =
             [milestoneUnitsAssigned EXCEPT ![p] = @ + granted]
    BY DEF SnapshotBacker
<1>2. granted \in Nat /\ claim \in Nat /\ claim + granted \in Nat
    BY EntitledParts, AllocationWithinShare DEF SnapshotUnits
<1>3. /\ rest \in Nat /\ rest' = rest /\ units \in Nat
      /\ owed \in Nat /\ owed' \in Nat
    BY EntitledParts
<1>4. share \in Nat /\ share' = share
    BY <1>1, EntitledParts
<1>5. Entitled(p) = rest + share + units - owed
          /\ Entitled(p)' = rest' + share' + units' - owed'
    BY DEF Entitled
<1>6. units' = units + granted
    BY <1>1, EntitledParts
    DEF TokenInv, RoundInv, LedgerInv, TypeInv, TypeOK
<1> HIDE DEF granted
<1>7. owed' + claim = owed + (claim + granted)
    BY <1>1, <1>2, EntitledParts, ClaimsMove
<1> HIDE DEF share, owed, rest, units, claim
<1>8. Entitled(p)' = Entitled(p) /\ owed' - units' = owed - units
    BY <1>2, <1>3, <1>4, <1>5, <1>6, <1>7
<1> QED
    BY <1>8 DEF owed, units

(* One proposal becomes entitled to n more tokens, the others stay.        *)
LEMMA EntitledSumMoves ==
    ASSUME TokenInv, ClaimsGranted, isPoolLaunched' = isPoolLaunched,
           NEW p \in isPoolLaunched, NEW n \in Nat,
           Entitled(p)' = Entitled(p) + n,
           \A q \in isPoolLaunched \ {p} : Entitled(q)' = Entitled(q)
    PROVE  EntitledSum' = EntitledSum + n /\ EntitledSum \in Nat
<1> DEFINE L == isPoolLaunched
           f == [q \in L |-> Entitled(q)]
           g == [q \in L |-> Entitled(q)']
<1>1. f \in [L -> Nat] /\ \A q \in L : f[q] \in Nat
    BY EntitledNat
<1>2. IsFiniteSet(L)
    BY LaunchedFinite DEF TokenInv, RoundInv, LedgerInv, TypeInv
<1>3. f[p] = Entitled(p) /\ f[p] \in Nat
    BY <1>1
<1>4. g = [f EXCEPT ![p] = Entitled(p) + n]
    OBVIOUS
<1>5. EntitledSum = SumFunctionOnSet(f, L)
          /\ EntitledSum' = SumFunctionOnSet(g, L)
    BY DEF EntitledSum
<1>6. SumFunctionOnSet(f, L) \in Nat
    BY <1>1, <1>2, SumNat
<1> HIDE DEF f, g, L
<1>7. Entitled(p) + n \in Nat /\ p \in L
    BY <1>3 DEF L
<1>8. SumFunctionOnSet(g, L) + f[p]
          = SumFunctionOnSet(f, L) + (Entitled(p) + n)
    <2> DEFINE v == Entitled(p) + n
    <2>1. v \in Nat
        BY <1>7
    <2> HIDE DEF v
    <2>2. SumFunctionOnSet([f EXCEPT ![p] = v], L) + f[p]
              = SumFunctionOnSet(f, L) + v
        BY <1>1, <1>2, <1>7, <2>1, SumUpdateAll
    <2> QED
        BY <1>4, <2>2 DEF v
<1>9. SumFunctionOnSet(g, L) \in Nat
    <2>1. \A q \in L : g[q] \in Nat
        BY <1>1, <1>4, <1>7
    <2> QED
        BY <1>2, <2>1, SumNat
<1> QED
    BY <1>3, <1>5, <1>6, <1>8, <1>9

LEMMA EntitledSumStays ==
    ASSUME isPoolLaunched' = isPoolLaunched,
           \A q \in isPoolLaunched : Entitled(q)' = Entitled(q)
    PROVE  EntitledSum' = EntitledSum
<1>1. [q \in isPoolLaunched' |-> Entitled(q)']
          = [q \in isPoolLaunched |-> Entitled(q)]
    OBVIOUS
<1> QED
    BY <1>1 DEF EntitledSum

LEMMA EntitledAtLaunch ==
    ASSUME OneSplit, TokenInv, TokenInv', ClaimsGranted,
           [OperatingNext]_vars, NEW p \in Proposals,
           NEW left \in [base : Leftovers, quote : Leftovers],
           CreatePool(p, left)
    PROVE  /\ ClaimsGranted'
           /\ EntitledSum' = EntitledSum
                  + (config.makerTokenAmount + config.totalPoolTokens)
           /\ EntitledSum \in Nat
<1> DEFINE L == isPoolLaunched
           M == isPoolLaunched'
           f == [q \in L |-> Entitled(q)]
           g == [q \in M |-> Entitled(q)']
           n == config.makerTokenAmount + config.totalPoolTokens
<1>0. /\ TypeOK /\ TypeOK' /\ p \notin L /\ M = L \cup {p}
      /\ n \in Nat /\ config' = config
    BY ConfigNat
    DEF TokenInv, RoundInv, LedgerInv, TypeInv, CreatePool, Launchable,
        environment
<1>1. /\ milestoneUnitsAssigned' = milestoneUnitsAssigned
      /\ initialAirdropReceived' = initialAirdropReceived
      /\ claimAmount' = claimAmount /\ backersOf' = backersOf
    BY DEF CreatePool, milestoneVars, rewardVars, backingVars
<1>2. milestoneUnitsAssigned[p] = 0 /\ initialAirdropReceived[p] = {}
    BY <1>0 DEF TokenInv, Pristine, AirdropsAfterLaunch
<1>3. OutstandingClaims(p)' = 0
    <2>1. /\ IsFiniteSet(backersOf[p]) /\ Cardinality(backersOf[p]) \in Nat
          /\ \A b \in backersOf[p] : claimAmount[p][b] = 0
        BY <1>0, BackersFinite DEF TokenInv, NoClaimsBefore, TypeOK
    <2>2. SumFunctionOnSet(claimAmount[p], backersOf[p])
              = 0 * Cardinality(backersOf[p])
        BY <2>1, SumOfEquals
    <2> QED
        BY <1>1, <2>1, <2>2 DEF OutstandingClaims
<1>4. \A q \in L : Still(q)
    BY <1>1 DEF Still
<1>5. \A q \in L : /\ Entitled(q)' = Entitled(q)
                   /\ OutstandingClaims(q)' = OutstandingClaims(q)
    BY <1>4, EntitledStays
<1>6. ClaimsGranted'
    <2> SUFFICES ASSUME NEW q \in M
                 PROVE  OutstandingClaims(q)' <= milestoneUnitsAssigned'[q]
        BY DEF ClaimsGranted
    <2>1. CASE q = p
        BY <1>1, <1>2, <1>3, <2>1
    <2>2. CASE q \in L
        BY <1>1, <1>5, <2>2 DEF ClaimsGranted
    <2> QED
        BY <1>0, <2>1, <2>2
<1>7. Entitled(p)' = n
    <2>1. PerBacker(p)' \in Nat
        <3>1. totalBackers'[p] \in Nat \ {0}
            BY <1>0 DEF TokenInv, LaunchedHasBackers, TypeOK
        <3>2. config'.totalAirdropAmountPerMilestone \in Nat
            BY <1>0, AmountsAssumption DEF TypeOK, Configs
        <3> QED
            BY <3>1, <3>2, SharesWithinTotal DEF PerBacker
    <2>2. Cardinality(initialAirdropReceived'[p]) = 0
        BY <1>1, <1>2, FS_EmptySet
    <2>3. PerBacker(p)' * Cardinality(initialAirdropReceived'[p]) = 0
        BY <2>1, <2>2
    <2>4. milestoneUnitsAssigned'[p] = 0
        BY <1>1, <1>2
    <2> QED
        BY <1>0, <1>3, <2>3, <2>4 DEF Entitled
<1>8. /\ IsFiniteSet(L) /\ IsFiniteSet(M)
    <2>1. IsFiniteSet(L)
        BY <1>0, LaunchedFinite
    <2> QED
        BY <1>0, <2>1, FS_AddElement
<1>9. /\ \A q \in L : f[q] \in Nat /\ g[q] = f[q]
      /\ \A q \in M : g[q] \in Nat
      /\ g[p] = n
    BY <1>0, <1>5, <1>7, EntitledNat
<1>10. EntitledSum = SumFunctionOnSet(f, L)
           /\ EntitledSum' = SumFunctionOnSet(g, M)
    BY DEF EntitledSum
<1> HIDE DEF f, g, L, M, n
<1>11. SumFunctionOnSet(f, L) \in Nat
    BY <1>8, <1>9, SumNat
<1>12. SumFunctionOnSet(g, M) = g[p] + SumFunctionOnSet(g, L)
    <2>1. p \in M /\ M \ {p} = L
        BY <1>0
    <2>2. SumFunctionOnSet(g, M) = g[p] + SumFunctionOnSet(g, M \ {p})
        BY <1>8, <1>9, <2>1, SumWithout
    <2> QED
        BY <2>1, <2>2
<1>13. SumFunctionOnSet(g, L) = SumFunctionOnSet(f, L)
    BY <1>8, <1>9, SumEqual
<1>14. EntitledSum' = EntitledSum + n /\ EntitledSum \in Nat
    BY <1>0, <1>9, <1>10, <1>11, <1>12, <1>13
<1> QED
    BY <1>6, <1>14 DEF n

-----------------------------------------------------------------------------
(* What is in circulation, step by step: it grows by what one vault of a   *)
(* launched token pays.                                                    *)
LEMMA CirculatingMoves ==
    ASSUME TypeInv, TypeInv', NEW m \in Mints, NEW n \in Nat,
           supply'[m] - tokenVault'[m] = supply[m] - tokenVault[m] + n,
           \A k \in Mints \ {m} :
               supply'[k] = supply[k] /\ tokenVault'[k] = tokenVault[k]
    PROVE  Circulating' = Circulating + n /\ Circulating \in Nat
<1> DEFINE f == [k \in Mints |-> supply[k] - tokenVault[k]]
           g == [k \in Mints |-> supply'[k] - tokenVault'[k]]
           v == f[m] + n
<1>1. f \in [Mints -> Nat] /\ \A k \in Mints : f[k] \in Nat
    BY DEF TypeInv, TypeOK, VaultWithinSupply
<1>2. IsFiniteSet(Mints)
    BY LaunchedFinite DEF TypeInv
<1>3. g = [f EXCEPT ![m] = v]
    OBVIOUS
<1>4. Circulating = SumFunctionOnSet(f, Mints)
          /\ Circulating' = SumFunctionOnSet(g, Mints)
    BY DEF Circulating
<1>5. v \in Nat /\ f[m] \in Nat /\ v = f[m] + n
    BY <1>1
<1> HIDE DEF f, g, v
<1>6. SumFunctionOnSet([f EXCEPT ![m] = v], Mints) + f[m]
          = SumFunctionOnSet(f, Mints) + v
    BY <1>1, <1>2, <1>5, SumUpdateAll
<1>7. /\ SumFunctionOnSet(f, Mints) \in Nat
      /\ SumFunctionOnSet(g, Mints) \in Nat
    <2>1. \A k \in Mints : g[k] \in Nat
        BY <1>1, <1>3, <1>5
    <2> QED
        BY <1>1, <1>2, <2>1, SumNat
<1> QED
    BY <1>3, <1>4, <1>5, <1>6, <1>7

LEMMA CirculatingStays ==
    ASSUME TypeInv,
           \A k \in Mints :
               supply'[k] - tokenVault'[k] = supply[k] - tokenVault[k]
    PROVE  Circulating' = Circulating /\ Circulating \in Nat
<1>1. [k \in Mints |-> supply'[k] - tokenVault'[k]]
          = [k \in Mints |-> supply[k] - tokenVault[k]]
    OBVIOUS
<1>2. Circulating \in Nat
    <2> DEFINE f == [k \in Mints |-> supply[k] - tokenVault[k]]
    <2>1. IsFiniteSet(Mints) /\ \A k \in Mints : f[k] \in Nat
        BY LaunchedFinite DEF TypeInv, TypeOK, VaultWithinSupply
    <2> HIDE DEF f
    <2>2. SumFunctionOnSet(f, Mints) \in Nat
        BY <2>1, SumNat
    <2> QED
        BY <2>2 DEF Circulating, f
<1> QED
    BY <1>1, <1>2 DEF Circulating

(* A payment of n leaves at most n tokens more in circulation: n from a    *)
(* vault of a launched token, none when it is made in wrapped SOL.         *)
LEMMA CirculatingByPayment ==
    ASSUME TypeInv, TypeInv', NEW b \in Backers,
           NEW m \in Mints \cup {Wsol}, NEW n \in Nat,
           PayFromVault(m, b, n), supply' = supply
    PROVE  Circulating' <= Circulating + n /\ Circulating \in Nat
               /\ Circulating' \in Nat
<1>0. TypeOK
    BY DEF TypeInv
<1>1. CASE /\ m \in Mints /\ tokenVault[m] >= n
           /\ tokenVault' = [tokenVault EXCEPT ![m] = @ - n]
    <2>1. supply[m] \in Nat /\ tokenVault[m] \in Nat
        BY <1>0, <1>1 DEF TypeOK
    <2>2. /\ supply'[m] - tokenVault'[m] = supply[m] - tokenVault[m] + n
          /\ \A k \in Mints \ {m} :
                 supply'[k] = supply[k] /\ tokenVault'[k] = tokenVault[k]
        BY <1>0, <1>1, <2>1 DEF TypeOK
    <2>3. Circulating' = Circulating + n /\ Circulating \in Nat
        BY <1>1, <2>2, CirculatingMoves
    <2> QED
        BY <2>3
<1>2. CASE tokenVault' = tokenVault
    BY <1>2, CirculatingStays
<1> QED
    BY <1>0, <1>1, <1>2, PaymentKinds

LEMMA CirculatingAtLaunch ==
    ASSUME TypeInv, TypeInv', NEW p \in Proposals,
           NEW left \in [base : Leftovers, quote : Leftovers],
           CreatePool(p, left)
    PROVE  /\ Circulating \in Nat /\ Circulating' \in Nat
           /\ Circulating' <= Circulating
                  + (config.makerTokenAmount + config.totalPoolTokens)
<1> DEFINE m == CurrentMint(p)
           n == config.makerTokenAmount + (config.totalPoolTokens - left.base)
<1>1. /\ TypeOK /\ m \in Mints
      /\ supply[m] \in Nat /\ tokenVault[m] \in Nat
      /\ config.totalMint \in Nat /\ config.makerTokenAmount \in Nat
      /\ config.totalPoolTokens \in Nat /\ left.base \in Nat
    BY ConfigNat, AmountsAssumption
    DEF TypeInv, TypeOK, CurrentMint, Mints
<1>2. config.totalPoolTokens - left.base > 0
    BY DEF CreatePool, PoolTakes
<1> DEFINE stock == tokenVault[m] + config.totalMint
           base == config.totalPoolTokens - left.base
<1>3. supply' = [supply EXCEPT ![m] = supply[m] + config.totalMint]
    BY DEF CreatePool
<1>4. tokenVault' = [tokenVault EXCEPT ![m] =
                         stock - config.makerTokenAmount - base]
    BY DEF CreatePool, MintedStock
<1> HIDE DEF m
<1>5. /\ supply'[m] = supply[m] + config.totalMint
      /\ tokenVault'[m] = tokenVault[m] + config.totalMint
                              - config.makerTokenAmount
                              - (config.totalPoolTokens - left.base)
      /\ \A k \in Mints \ {m} :
             supply'[k] = supply[k] /\ tokenVault'[k] = tokenVault[k]
    BY <1>1, <1>3, <1>4 DEF TypeOK
<1>6. n \in Nat /\ n <= config.makerTokenAmount + config.totalPoolTokens
    BY <1>1, <1>2
<1>7. supply'[m] - tokenVault'[m] = supply[m] - tokenVault[m] + n
    BY <1>1, <1>5
<1> HIDE DEF n
<1>8. Circulating' = Circulating + n /\ Circulating \in Nat
    BY <1>1, <1>5, <1>6, <1>7, CirculatingMoves
<1> QED
    BY <1>1, <1>6, <1>8

LEMMA CirculatingAtEnd ==
    ASSUME TypeInv, NEW p \in Proposals, EndMilestone(p)
    PROVE  Circulating' = Circulating /\ Circulating \in Nat
<1> DEFINE m == CurrentMint(p)
           burn == MilestoneBurn(p)
<1>1. TypeOK /\ m \in Mints
    BY DEF TypeInv, TypeOK, CurrentMint, Mints
<1>b. burn \in Nat
    BY <1>1, BurnRange DEF TypeOK, MilestoneBurn, FullReputation
<1>2. /\ supply' = [supply EXCEPT ![m] = @ - burn]
      /\ tokenVault' = [tokenVault EXCEPT ![m] = @ - burn]
    BY DEF EndMilestone
<1> HIDE DEF m, burn
<1>3. \A k \in Mints :
          supply'[k] - tokenVault'[k] = supply[k] - tokenVault[k]
    BY <1>1, <1>b, <1>2 DEF TypeOK
<1> QED
    BY <1>3, CirculatingStays

-----------------------------------------------------------------------------
(* The steps that write in the books of a launched proposal, and that only *)
(* its own books are written in.                                           *)
LEMMA LedgerSteps ==
    ASSUME TypeOK, OneDecision, OneMint, [OperatingNext]_vars
    PROVE  \/ \E p \in Proposals,
                 left \in [base : Leftovers, quote : Leftovers] :
                  CreatePool(p, left)
           \/ \E p \in isPoolLaunched : \E b \in backersOf[p],
                 m \in Mints \cup {Wsol} :
                  Airdrop(p, b, m) \/ ClaimMilestoneReward(p, b, m)
           \/ \E p \in isPoolLaunched : \E b \in backersOf[p] :
                  SnapshotBacker(p, b)
           \/ \E p \in isPoolLaunched : EndMilestone(p)
           \/ /\ UNCHANGED <<supply, tokenVault, isPoolLaunched>>
              /\ \A p \in isPoolLaunched : Still(p)
<1> DEFINE Launch == \E p \in Proposals,
                        left \in [base : Leftovers, quote : Leftovers] :
                            CreatePool(p, left)
           Pay == \E p \in isPoolLaunched : \E b \in backersOf[p],
                     m \in Mints \cup {Wsol} :
                         Airdrop(p, b, m) \/ ClaimMilestoneReward(p, b, m)
           Grant == \E p \in isPoolLaunched : \E b \in backersOf[p] :
                        SnapshotBacker(p, b)
           End == \E p \in isPoolLaunched : EndMilestone(p)
           Same == UNCHANGED <<supply, tokenVault, isPoolLaunched>>
<1>1. ASSUME ~Launch, ~Pay, ~Grant, ~End, NEW p \in isPoolLaunched
      PROVE  Still(p)
    <2>1. BookStep(p) => InitialiseMilestone(p)
        BY <1>1 DEF BookStep
    <2>2. CASE InitialiseMilestone(p)
        BY <2>2 DEF InitialiseMilestone, Still, rewardVars
    <2>3. CASE Untouched(p)
        BY <2>3 DEF Untouched, Still
    <2> QED
        BY <2>1, <2>2, <2>3, BookSteps
<1>2. ASSUME NEW p \in Proposals, NEW b \in Backers,
             NEW m \in Mints \cup {Wsol},
             Airdrop(p, b, m) \/ ClaimMilestoneReward(p, b, m)
      PROVE  Pay
    <2>1. p \in isPoolLaunched /\ b \in backersOf[p]
        BY <1>2 DEF Airdrop, AirdropDue, ClaimMilestoneReward
    <2> QED
        BY <1>2, <2>1
<1>3. ASSUME NEW p \in Proposals, NEW b \in Backers, SnapshotBacker(p, b)
      PROVE  Grant
    BY <1>3 DEF SnapshotBacker
<1>4. ASSUME NEW p \in Proposals, EndMilestone(p) PROVE End
    BY <1>4 DEF EndMilestone
<1> HIDE DEF Pay, Grant, End
<1>5. Launch \/ Pay \/ Grant \/ End \/ Same
    BY <1>2, <1>3, <1>4
    DEF OperatingNext, FundingNext, LaunchNext, MilestoneNext, Tick,
        SetConfig, MintSoulboundToUser, CreateProposal, DepositSol,
        RejectProposal, Refund, TopUpWsol, InitialiseMilestone, Trade,
        OpenAccount, CloseAccount, vars, launchVars, tokenVars
<1> HIDE DEF Launch, Same
<1>6. Launch \/ Pay \/ Grant \/ End
          \/ (Same /\ \A p \in isPoolLaunched : Still(p))
    BY <1>1, <1>5
<1> QED
    BY <1>6 DEF Launch, Pay, Grant, End, Same

LEMMA OthersStill ==
    ASSUME TypeOK, NEW p \in Proposals, NEW b \in Backers,
           \/ \E m \in Mints \cup {Wsol} :
                  Airdrop(p, b, m) \/ ClaimMilestoneReward(p, b, m)
           \/ SnapshotBacker(p, b)
    PROVE  /\ isPoolLaunched' = isPoolLaunched
           /\ \A q \in isPoolLaunched \ {p} : Still(q)
<1>1. /\ claimAmount \in [Proposals -> [Backers -> Nat]]
      /\ initialAirdropReceived \in [Proposals -> SUBSET Backers]
      /\ milestoneUnitsAssigned \in [Proposals -> Nat]
      /\ isPoolLaunched \subseteq Proposals
    BY DEF TypeOK
<1>2. ASSUME NEW m \in Mints \cup {Wsol},
             Airdrop(p, b, m) \/ ClaimMilestoneReward(p, b, m)
      PROVE  /\ isPoolLaunched' = isPoolLaunched
             /\ \A q \in isPoolLaunched \ {p} : Still(q)
    BY <1>1, <1>2
    DEF Airdrop, ClaimMilestoneReward, Still, launchVars, milestoneVars,
        rewardVars
<1>3. CASE SnapshotBacker(p, b)
    BY <1>1, <1>3 DEF SnapshotBacker, Still, launchVars
<1> QED
    BY <1>2, <1>3

LEMMA DistributionNext ==
    ASSUME OneSplit, TokenInv, TokenInv', ClaimsGranted,
           Circulating <= EntitledSum, [OperatingNext]_vars
    PROVE  ClaimsGranted' /\ Circulating' <= EntitledSum'
<1>0. TypeInv /\ TypeInv' /\ TypeOK /\ OneDecision /\ OneMint
          /\ isPoolLaunched \subseteq Proposals
          /\ \A p \in isPoolLaunched : backersOf[p] \subseteq Backers
    BY DEF TokenInv, RoundInv, LedgerInv, TypeInv, TypeOK
<1>1. ASSUME NEW p \in Proposals,
             NEW left \in [base : Leftovers, quote : Leftovers],
             CreatePool(p, left)
      PROVE  ClaimsGranted' /\ Circulating' <= EntitledSum'
    <2>1. /\ Circulating \in Nat /\ Circulating' \in Nat
          /\ Circulating' <= Circulating
                 + (config.makerTokenAmount + config.totalPoolTokens)
        BY <1>0, <1>1, CirculatingAtLaunch
    <2>2. /\ ClaimsGranted'
          /\ EntitledSum' = EntitledSum
                 + (config.makerTokenAmount + config.totalPoolTokens)
          /\ EntitledSum \in Nat
        BY <1>1, EntitledAtLaunch
    <2>3. config.makerTokenAmount + config.totalPoolTokens \in Nat
        BY <1>0, ConfigNat
    <2> QED
        BY <2>1, <2>2, <2>3
<1>2. ASSUME NEW p \in isPoolLaunched, NEW b \in backersOf[p],
             NEW m \in Mints \cup {Wsol}, NEW n \in Nat,
             Airdrop(p, b, m) \/ ClaimMilestoneReward(p, b, m),
             PayFromVault(m, b, n), supply' = supply,
             Entitled(p)' = Entitled(p) + n,
             OutstandingClaims(p)' <= OutstandingClaims(p),
             milestoneUnitsAssigned' = milestoneUnitsAssigned
      PROVE  ClaimsGranted' /\ Circulating' <= EntitledSum'
    <2>1. /\ isPoolLaunched' = isPoolLaunched
          /\ \A q \in isPoolLaunched \ {p} : Still(q)
        BY <1>0, <1>2, OthersStill
    <2>2. \A q \in isPoolLaunched \ {p} :
              /\ Entitled(q)' = Entitled(q)
              /\ OutstandingClaims(q)' = OutstandingClaims(q)
        BY <2>1, EntitledStays
    <2>3. EntitledSum' = EntitledSum + n /\ EntitledSum \in Nat
        BY <1>2, <2>1, <2>2, EntitledSumMoves
    <2>4. Circulating' <= Circulating + n /\ Circulating \in Nat
              /\ Circulating' \in Nat
        BY <1>0, <1>2, CirculatingByPayment
    <2>5. ASSUME NEW q \in isPoolLaunched
          PROVE  OutstandingClaims(q)' <= milestoneUnitsAssigned'[q]
        <3>1. /\ OutstandingClaims(q)' <= OutstandingClaims(q)
              /\ OutstandingClaims(q) <= milestoneUnitsAssigned[q]
              /\ OutstandingClaims(q) \in Nat /\ OutstandingClaims(q)' \in Nat
              /\ milestoneUnitsAssigned[q] \in Nat
            BY <1>2, <2>2, EntitledParts DEF ClaimsGranted
        <3> QED
            BY <1>2, <3>1
    <2> QED
        BY <2>1, <2>3, <2>4, <2>5 DEF ClaimsGranted
<1>3. ASSUME NEW p \in isPoolLaunched, NEW b \in backersOf[p],
             NEW m \in Mints \cup {Wsol},
             Airdrop(p, b, m) \/ ClaimMilestoneReward(p, b, m)
      PROVE  ClaimsGranted' /\ Circulating' <= EntitledSum'
    <2>1. CASE Airdrop(p, b, m)
        <3>1. /\ PerBacker(p) \in Nat /\ OutstandingClaims(p) \in Nat
              /\ PayFromVault(m, b, PerBacker(p)) /\ supply' = supply
            BY <2>1, EntitledParts DEF Airdrop
        <3> QED
            BY <1>2, <2>1, <3>1, EntitledByAirdrop
    <2>2. CASE ClaimMilestoneReward(p, b, m)
        <3>1. /\ claimAmount[p][b] \in Nat /\ supply' = supply
              /\ PayFromVault(m, b, claimAmount[p][b])
            BY <1>0, <2>2 DEF ClaimMilestoneReward, TypeOK
        <3> QED
            BY <1>2, <2>2, <3>1, EntitledByClaim
    <2> QED
        BY <1>3, <2>1, <2>2
<1>4. ASSUME NEW p \in isPoolLaunched, NEW b \in backersOf[p],
             SnapshotBacker(p, b)
      PROVE  ClaimsGranted' /\ Circulating' <= EntitledSum'
    <2>1. /\ isPoolLaunched' = isPoolLaunched
          /\ \A q \in isPoolLaunched \ {p} : Still(q)
        BY <1>0, <1>4, OthersStill
    <2>2. \A q \in isPoolLaunched \ {p} :
              /\ Entitled(q)' = Entitled(q)
              /\ OutstandingClaims(q)' = OutstandingClaims(q)
        BY <2>1, EntitledStays
    <2>3. /\ Entitled(p)' = Entitled(p)
          /\ OutstandingClaims(p)' - milestoneUnitsAssigned'[p]
                 = OutstandingClaims(p) - milestoneUnitsAssigned[p]
        BY <1>4, EntitledBySnapshot
    <2>4. EntitledSum' = EntitledSum
        BY <2>1, <2>2, <2>3, EntitledSumStays
    <2>5. Circulating' = Circulating
        <3>1. supply' = supply /\ tokenVault' = tokenVault
            BY <1>4 DEF SnapshotBacker, tokenVars
        <3> QED
            BY <1>0, <3>1, CirculatingStays
    <2>6. ASSUME NEW q \in isPoolLaunched
          PROVE  OutstandingClaims(q)' <= milestoneUnitsAssigned'[q]
        <3>0. /\ OutstandingClaims(q) <= milestoneUnitsAssigned[q]
              /\ OutstandingClaims(q) \in Nat /\ OutstandingClaims(q)' \in Nat
              /\ milestoneUnitsAssigned[q] \in Nat
              /\ milestoneUnitsAssigned'[q] \in Nat
            BY <1>0, EntitledParts DEF ClaimsGranted, TypeInv, TypeOK
        <3>1. CASE q = p
            BY <2>3, <3>0, <3>1
        <3>2. CASE q # p
            BY <2>1, <2>2, <3>0, <3>2 DEF Still
        <3> QED
            BY <3>1, <3>2
    <2> QED
        BY <2>1, <2>4, <2>5, <2>6 DEF ClaimsGranted
<1>5. ASSUME isPoolLaunched' = isPoolLaunched, Circulating' = Circulating,
             \A q \in isPoolLaunched : Still(q)
      PROVE  ClaimsGranted' /\ Circulating' <= EntitledSum'
    <2>1. \A q \in isPoolLaunched :
              /\ Entitled(q)' = Entitled(q)
              /\ OutstandingClaims(q)' = OutstandingClaims(q)
              /\ milestoneUnitsAssigned'[q] = milestoneUnitsAssigned[q]
        BY <1>5, EntitledStays DEF Still
    <2>2. EntitledSum' = EntitledSum
        BY <1>5, <2>1, EntitledSumStays
    <2> QED
        BY <1>5, <2>1, <2>2 DEF ClaimsGranted
<1>6. ASSUME NEW p \in isPoolLaunched, EndMilestone(p)
      PROVE  ClaimsGranted' /\ Circulating' <= EntitledSum'
    <2>1. /\ isPoolLaunched' = isPoolLaunched
          /\ \A q \in isPoolLaunched : Still(q)
        BY <1>6 DEF EndMilestone, Still, launchVars, rewardVars
    <2>2. Circulating' = Circulating
        BY <1>0, <1>6, CirculatingAtEnd
    <2> QED
        BY <1>5, <2>1, <2>2
<1>7. CASE /\ UNCHANGED <<supply, tokenVault, isPoolLaunched>>
           /\ \A p \in isPoolLaunched : Still(p)
    <2>1. Circulating' = Circulating
        BY <1>0, <1>7, CirculatingStays
    <2> QED
        BY <1>5, <1>7, <2>1
<1> QED
    BY <1>0, <1>1, <1>3, <1>4, <1>6, <1>7, LedgerSteps

DistributionInv == ClaimsGranted /\ Circulating <= EntitledSum

LEMMA DistributionInvariant ==
    ASSUME OneSplit
    PROVE  OperatingSpec => []DistributionInv
<1>1. ASSUME Init PROVE DistributionInv
    <2>1. /\ isPoolLaunched = {}
          /\ \A m \in Mints : supply[m] - tokenVault[m] = 0
        BY <1>1 DEF Init
    <2>2. EntitledSum = 0
        BY <2>1, SumOfNone DEF EntitledSum
    <2>3. Circulating = 0
        <3>1. TypeOK /\ IsFiniteSet(Mints) /\ Cardinality(Mints) \in Nat
            BY <1>1, TypeInit, LaunchedFinite, FS_CardinalityType
            DEF TypeInv
        <3>2. SumFunctionOnSet([m \in Mints |-> supply[m] - tokenVault[m]],
                               Mints) = 0 * Cardinality(Mints)
            BY <2>1, <3>1, SumOfEquals
        <3> QED
            BY <3>1, <3>2 DEF Circulating
    <2> QED
        BY <2>1, <2>2, <2>3 DEF DistributionInv, ClaimsGranted
<1>2. TokenInv /\ TokenInv' /\ DistributionInv /\ [OperatingNext]_vars
          => DistributionInv'
    BY DistributionNext DEF DistributionInv
<1> QED
    BY TokenInvariant, <1>1, <1>2, PTL DEF OperatingSpec

(* With one split of the tokens, the tokens of all mints outside the       *)
(* program's vaults left them for a reason: the makers' shares, the pools, *)
(* one share per initial airdrop, and the rewards assigned except those    *)
(* still to be claimed.  No order of airdrops, snapshots, claims and       *)
(* burns, and no choice of the vaults that pay, puts more in circulation.  *)
THEOREM DistributionIsExplained ==
    ASSUME OneSplit
    PROVE  OperatingSpec => []DistributionExplained
<1>1. DistributionInv => DistributionExplained
    BY DEF DistributionInv, DistributionExplained, EntitledSum
<1> QED
    BY DistributionInvariant, <1>1, PTL

-----------------------------------------------------------------------------
(* Each cycle burns at most 100 tokens per wallet that may back, and       *)
(* grants at most one share per snapshot.                                  *)
Burnable == FullReputation * Cardinality(Backers)

LEMMA BurnableNat ==
    ASSUME TokenInv, NEW p \in isPoolLaunched
    PROVE  /\ Burnable \in Nat
           /\ totalBackers[p] * FullReputation <= Burnable
<1>1. IsFiniteSet(Backers) /\ Cardinality(Backers) \in Nat
    BY WalletsAssumption, FS_CardinalityType
<1>2. /\ backersOf[p] \in SUBSET Backers
      /\ totalBackers[p] = Cardinality(backersOf[p])
      /\ totalBackers[p] \in Nat
    BY LaunchedShare
<1>3. totalBackers[p] <= Cardinality(Backers)
    BY <1>1, <1>2, FS_Subset
<1> QED
    BY <1>1, <1>2, <1>3 DEF Burnable, FullReputation

LEMMA BurntAtLaunch ==
    ASSUME TokenInv, NEW p \in Proposals,
           NEW left \in [base : Leftovers, quote : Leftovers],
           CreatePool(p, left)
    PROVE  BurntAtMost(p)'
<1> DEFINE m == CurrentMint(p)
           c == currentAirdropCycle[p]
<1>1. /\ TypeOK /\ m \in Mints /\ p \in proposals
      /\ p \notin isPoolLaunched
    BY DEF TokenInv, RoundInv, LedgerInv, TypeInv, TypeOK, CurrentMint,
           Mints, CreatePool, Launchable
<1>2. c \in Nat /\ c > 0
    BY <1>1 DEF TokenInv, RoundInv, Begun, TypeOK
<1>3. /\ supply' = [supply EXCEPT ![m] = supply[m] + config.totalMint]
      /\ CurrentMint(p)' = m /\ config' = config
      /\ currentAirdropCycle' = currentAirdropCycle
    BY DEF CreatePool, CurrentMint, milestoneVars, environment
<1>4. supply[m] \in Nat /\ config.totalMint \in Nat
    BY <1>1, ConfigNat DEF TypeOK
<1>5. supply'[m] = supply[m] + config.totalMint
    BY <1>1, <1>3 DEF TypeOK
<1>6. FullReputation * Cardinality(Backers) * (c - 1) \in Nat
    <2>1. Cardinality(Backers) \in Nat /\ c - 1 \in Nat
        BY <1>2, WalletsAssumption, FS_CardinalityType
    <2> QED
        BY <2>1 DEF FullReputation
<1> HIDE DEF m
<1> QED
    BY <1>3, <1>4, <1>5, <1>6 DEF BurntAtMost

LEMMA BurntNext ==
    ASSUME OneSupply, TokenInv, TokenInv', [OperatingNext]_vars,
           NEW p \in isPoolLaunched, BurntAtMost(p)
    PROVE  BurntAtMost(p)'
<1> DEFINE m == CurrentMint(p)
           c == currentAirdropCycle[p]
           K == FullReputation * Cardinality(Backers)
<1>1. TypeOK /\ TypeOK' /\ OneDecision /\ OneMint /\ p \in proposals
    BY DEF TokenInv, RoundInv, LedgerInv, TypeInv, TypeOK
<1>2. /\ p \in Proposals /\ m \in Mints /\ supply[m] \in Nat
      /\ c \in Nat /\ c > 0 /\ K \in Nat
      /\ totalBackers[p] * FullReputation <= K
    BY <1>1, LaunchedShare, BurnableNat
    DEF TypeOK, TokenInv, RoundInv, Begun, Burnable
<1>3. CurrentMint(p)' = m /\ config'.totalMint = config.totalMint
          /\ config.totalMint \in Nat
    BY <1>1, MintStays, ConfigNat DEF CurrentMint, OneSupply, TypeOK
<1>4. supply[m] + K * (c - 1) >= config.totalMint
    BY DEF BurntAtMost
<1> SUFFICES supply'[m] + K * (c' - 1) >= config.totalMint
    BY <1>3 DEF BurntAtMost
<1>5. CASE supply'[m] = supply[m] /\ c' = c
    BY <1>4, <1>5
<1>6. CASE EndMilestone(p)
    <2> DEFINE burn == MilestoneBurn(p)
    <2>1. /\ supply' = [supply EXCEPT ![m] = @ - burn]
          /\ currentAirdropCycle' = [currentAirdropCycle EXCEPT ![p] = @ + 1]
          /\ milestoneBackersWeighted[p] = totalBackers[p]
        BY <1>6 DEF EndMilestone, AllWeighted
    <2>2. burn \in 0 .. totalBackers[p] * FullReputation
        BY <1>1, <1>2, <2>1, BurnRange DEF TypeOK, MilestoneBurn
    <2> HIDE DEF burn
    <2>3. supply'[m] = supply[m] - burn /\ c' = c + 1
        BY <1>1, <1>2, <2>1 DEF TypeOK
    <2>4. burn \in Nat /\ burn <= K
        <3>1. totalBackers[p] * FullReputation \in Nat
            BY <1>1, <1>2 DEF TypeOK, FullReputation
        <3> QED
            BY <1>2, <2>2, <3>1
    <2> HIDE DEF m, c, K
    <2>5. K * ((c + 1) - 1) = K * (c - 1) + K /\ K * (c - 1) \in Nat
        BY <1>2
    <2> QED
        BY <1>2, <1>3, <1>4, <2>3, <2>4, <2>5
<1>7. BookStep(p) => EndMilestone(p) \/ (supply'[m] = supply[m] /\ c' = c)
    BY DEF BookStep, Airdrop, SnapshotBacker, ClaimMilestoneReward,
           InitialiseMilestone, milestoneVars, tokenVars
<1> HIDE DEF K
<1> QED
    BY <1>1, <1>5, <1>6, <1>7, BookSteps DEF Untouched

LEMMA GrantedAtLaunch ==
    ASSUME TokenInv, TokenInv', NEW p \in Proposals,
           NEW left \in [base : Leftovers, quote : Leftovers],
           CreatePool(p, left)
    PROVE  GrantedAtMost(p)'
<1>1. /\ TypeOK /\ TypeOK' /\ p \in proposals /\ p \notin isPoolLaunched
      /\ p \in isPoolLaunched'
    BY DEF TokenInv, RoundInv, LedgerInv, TypeInv, CreatePool, Launchable
<1>2. currentAirdropCycle[p] \in Nat /\ currentAirdropCycle[p] > 0
    BY <1>1 DEF TokenInv, RoundInv, Begun, TypeOK
<1>3. milestoneUnitsAssigned'[p] = 0
          /\ currentAirdropCycle'[p] = currentAirdropCycle[p]
    BY <1>1 DEF CreatePool, milestoneVars, TokenInv, Pristine
<1>4. totalBackers'[p] \in Nat \ {0}
          /\ milestoneBackersWeighted'[p] \in Nat
    BY <1>1 DEF TokenInv, LaunchedHasBackers, TypeOK
<1>5. PerBacker(p)' \in Nat
    <2>1. config'.totalAirdropAmountPerMilestone \in Nat
        BY <1>1, AmountsAssumption DEF TypeOK, Configs
    <2> QED
        BY <1>4, <2>1, SharesWithinTotal DEF PerBacker
<1>6. Snapshots(p)' \in Nat
    <2>1. currentAirdropCycle'[p] - 1 \in Nat
        BY <1>2, <1>3
    <2>2. totalBackers'[p] * (currentAirdropCycle'[p] - 1) \in Nat
        BY <1>4, <2>1
    <2> QED
        BY <1>4, <2>2 DEF Snapshots
<1>7. PerBacker(p)' * Snapshots(p)' \in Nat
    BY <1>5, <1>6
<1> QED
    BY <1>3, <1>7 DEF GrantedAtMost

LEMMA GrantedNext ==
    ASSUME OneSplit, TokenInv, TokenInv', [OperatingNext]_vars,
           NEW p \in isPoolLaunched, GrantedAtMost(p)
    PROVE  GrantedAtMost(p)'
<1> DEFINE per == PerBacker(p)
           n == totalBackers[p]
           c == currentAirdropCycle[p]
           w == milestoneBackersWeighted[p]
           s == Snapshots(p)
           units == milestoneUnitsAssigned[p]
<1>1. TypeOK /\ TypeOK' /\ OneDecision /\ OneMint /\ p \in proposals
    BY DEF TokenInv, RoundInv, LedgerInv, TypeInv, TypeOK
<1>2. /\ p \in Proposals /\ per \in Nat /\ n \in Nat \ {0}
      /\ c \in Nat /\ c > 0 /\ w \in Nat /\ units \in Nat
    BY <1>1, LaunchedShare DEF TypeOK, TokenInv, RoundInv, Begun
<1>3. n' = n /\ per' = per
    BY <1>1, LaunchedStays, SplitStays DEF PerBacker
<1>4. n * (c - 1) \in Nat /\ s \in Nat
    <2>1. c - 1 \in Nat
        BY <1>2
    <2>2. n * (c - 1) \in Nat
        BY <1>2, <2>1
    <2> QED
        BY <1>2, <2>2 DEF Snapshots
<1>5. units <= per * s
    BY DEF GrantedAtMost
<1> SUFFICES units' <= per * s'
    BY <1>3 DEF GrantedAtMost
<1>6. CASE /\ units' = units /\ c' = c /\ w' = w
           /\ p \in milestoneActive' <=> p \in milestoneActive
    <2>1. s' = s
        BY <1>3, <1>6 DEF Snapshots
    <2> QED
        BY <1>5, <1>6, <2>1
<1>7. ASSUME NEW b \in backersOf[p], SnapshotBacker(p, b)
      PROVE  units' <= per * s'
    <2>1. /\ milestoneUnitsAssigned' = [milestoneUnitsAssigned EXCEPT
                                           ![p] = @ + SnapshotUnits(p, b)]
          /\ milestoneBackersWeighted' = [milestoneBackersWeighted EXCEPT
                                             ![p] = @ + 1]
          /\ c' = c /\ p \in milestoneActive
          /\ milestoneActive' = milestoneActive
        BY <1>7 DEF SnapshotBacker
    <2>2. SnapshotUnits(p, b) \in 0 .. per
        BY <1>2, AllocationWithinShare DEF SnapshotUnits
    <2>3. units' = units + SnapshotUnits(p, b) /\ w' = w + 1
        BY <1>1, <1>2, <2>1 DEF TypeOK
    <2>4. s = n * (c - 1) + w /\ s' = n * (c - 1) + w'
        BY <1>3, <2>1 DEF Snapshots
    <2> HIDE DEF per, n, c, w, s, units
    <2>5. s' = s + 1
        BY <1>2, <1>4, <2>3, <2>4
    <2>6. per * (s + 1) = per * s + per /\ per * s \in Nat
        BY <1>2, <1>4
    <2> QED
        BY <1>2, <1>5, <2>2, <2>3, <2>5, <2>6
<1>8. CASE InitialiseMilestone(p)
    <2>1. /\ units' = units /\ c' = c /\ p \notin milestoneActive
          /\ p \in milestoneActive'
          /\ milestoneBackersWeighted' =
                 [milestoneBackersWeighted EXCEPT ![p] = 0]
        BY <1>8 DEF InitialiseMilestone
    <2>2. w' = 0
        BY <1>1, <1>2, <2>1 DEF TypeOK
    <2>3. s = n * (c - 1) + 0 /\ s' = n * (c - 1) + 0
        BY <1>3, <2>1, <2>2 DEF Snapshots
    <2> QED
        BY <1>5, <2>1, <2>3
<1>9. CASE EndMilestone(p)
    <2>1. /\ units' = units /\ w = n
          /\ currentAirdropCycle' = [currentAirdropCycle EXCEPT ![p] = @ + 1]
          /\ p \in milestoneActive /\ p \notin milestoneActive'
        BY <1>9 DEF EndMilestone, AllWeighted
    <2>2. c' = c + 1
        BY <1>1, <1>2, <2>1 DEF TypeOK
    <2>3. s = n * (c - 1) + w /\ s' = n * (c' - 1) + 0
        BY <1>3, <2>1 DEF Snapshots
    <2> HIDE DEF per, n, c, w, s, units
    <2>4. n * ((c + 1) - 1) = n * (c - 1) + n
        BY <1>2
    <2>5. s' = s
        BY <1>2, <1>4, <2>1, <2>2, <2>3, <2>4
    <2> QED
        BY <1>5, <2>1, <2>5
<1>10. BookStep(p) =>
           \/ \E b \in backersOf[p] : SnapshotBacker(p, b)
           \/ InitialiseMilestone(p)
           \/ EndMilestone(p)
           \/ UNCHANGED milestoneVars
    BY DEF BookStep, Airdrop, ClaimMilestoneReward
<1>11. UNCHANGED milestoneVars \/ Untouched(p) =>
           /\ units' = units /\ c' = c /\ w' = w
           /\ p \in milestoneActive' <=> p \in milestoneActive
    BY DEF Untouched, milestoneVars
<1> HIDE DEF per, n, c, w, s, units
<1> QED
    BY <1>1, <1>6, <1>7, <1>8, <1>9, <1>10, <1>11, BookSteps

Bounded ==
    \A p \in isPoolLaunched : BurntAtMost(p) /\ GrantedAtMost(p)

LEMMA BoundedInvariant ==
    ASSUME OneSplit, OneSupply
    PROVE  OperatingSpec => []Bounded
<1>1. Init => Bounded
    BY DEF Init, Bounded
<1>2. TokenInv /\ TokenInv' /\ Bounded /\ [OperatingNext]_vars => Bounded'
    <2> SUFFICES ASSUME TokenInv, TokenInv', Bounded,
                        [OperatingNext]_vars, NEW p \in isPoolLaunched'
                 PROVE  BurntAtMost(p)' /\ GrantedAtMost(p)'
        BY DEF Bounded
    <2>1. TypeOK
        BY DEF TokenInv, RoundInv, LedgerInv, TypeInv
    <2>2. CASE p \in isPoolLaunched
        BY <2>2, BurntNext, GrantedNext DEF Bounded
    <2>3. CASE p \notin isPoolLaunched
        BY <2>1, <2>3, LaunchIsStep, BurntAtLaunch, GrantedAtLaunch
    <2> QED
        BY <2>2, <2>3
<1> QED
    BY TokenInvariant, <1>1, <1>2, PTL DEF OperatingSpec

(* The budget in numbers: T minted, M cycles, a share of s to each of n    *)
(* backers out of A tokens a cycle, at most K burnt in a cycle.            *)
LEMMA BudgetArithmetic ==
    ASSUME NEW T \in Nat, NEW M \in Nat, NEW A \in Nat, NEW K \in Nat,
           NEW s \in Nat, NEW n \in Nat, NEW c \in Nat, c > 0, c <= M,
           NEW w \in Nat, w <= n, n * s <= A,
           NEW supplied \in Nat, supplied + K * (c - 1) >= T,
           NEW units \in Nat, units <= s * (n * (c - 1) + w),
           NEW rest \in Nat, T >= rest + (M + 1) * A + M * K
    PROVE  supplied - rest - units >= s * n + K
<1>1. c - 1 \in Nat /\ c - 1 <= M
    OBVIOUS
<1>2. K * (c - 1) + K <= K * M /\ K * (c - 1) \in Nat /\ K * M \in Nat
    <2>1. K * c <= K * M
        BY ProductMonotone
    <2>2. K * (c - 1) + K = K * c
        OBVIOUS
    <2> QED
        BY <1>1, <2>1, <2>2
<1>3. s * (n * (c - 1) + w) <= A * M
    <2>1. n * (c - 1) \in Nat /\ n * (c - 1) + n = n * c
        BY <1>1
    <2>2. n * c <= n * M /\ n * c \in Nat /\ n * M \in Nat
        BY ProductMonotone
    <2>3. n * (c - 1) + w \in Nat /\ n * (c - 1) + w <= n * M
        BY <2>1, <2>2
    <2>4. s * (n * (c - 1) + w) <= s * (n * M)
        BY <2>2, <2>3, ProductMonotone
    <2>5. s * (n * M) = M * (n * s) /\ n * s \in Nat
        OBVIOUS
    <2>6. M * (n * s) <= M * A
        BY <2>5, ProductMonotone
    <2>7. M * A = A * M /\ A * M \in Nat
              /\ s * (n * (c - 1) + w) \in Nat
        BY <2>3
    <2> QED
        BY <2>2, <2>4, <2>5, <2>6, <2>7
<1>4. (M + 1) * A = A * M + A /\ M * K = K * M /\ A * M \in Nat
    OBVIOUS
<1>5. s * n = n * s /\ n * s \in Nat /\ s * (n * (c - 1) + w) \in Nat
    BY <1>1
<1>6. units <= A * M
    BY <1>3, <1>4, <1>5
<1>7. supplied >= rest + A * M + A + K
    BY <1>2, <1>4
<1> QED
    BY <1>4, <1>5, <1>6, <1>7

(* What p's end of milestone burns is within the burn the budget allows.   *)
LEMMA BurnWithin ==
    ASSUME TokenInv, NEW p \in isPoolLaunched, p \in milestoneActive
    PROVE  MilestoneBurn(p) \in Nat /\ MilestoneBurn(p) <= Burnable
<1> DEFINE w == milestoneBackersWeighted[p]
           burn == MilestoneBurn(p)
<1>1. /\ p \in Proposals /\ TypeOK /\ WeightedAreSettled
      /\ w \in Nat /\ milestoneReputationSum[p] \in Nat
    BY DEF TokenInv, RoundInv, LedgerInv, TypeInv, TypeOK
<1>2. w <= totalBackers[p] /\ totalBackers[p] \in Nat
    <2>1. SettledBackers(p) \in SUBSET backersOf[p]
        BY DEF SettledBackers
    <2>2. /\ totalBackers[p] = Cardinality(backersOf[p])
          /\ totalBackers[p] \in Nat /\ IsFiniteSet(backersOf[p])
        BY LaunchedShare
    <2>3. /\ Cardinality(SettledBackers(p)) <= totalBackers[p]
          /\ Cardinality(SettledBackers(p)) \in Nat
        BY <1>1, <2>1, <2>2, FS_Subset, SettledFinite
    <2> QED
        BY <1>1, <2>2, <2>3 DEF WeightedAreSettled
<1>3. burn \in 0 .. w * FullReputation
    BY <1>1, BurnRange DEF MilestoneBurn
<1>4. /\ Burnable \in Nat
      /\ totalBackers[p] * FullReputation <= Burnable
    BY BurnableNat
<1> HIDE DEF w, burn
<1>5. burn \in Nat /\ burn <= Burnable
    BY <1>1, <1>2, <1>3, <1>4 DEF FullReputation
<1> QED
    BY <1>5 DEF burn

(* The mint of a launched proposal covers what has left the vaults for it, *)
(* what it owes its backers, and the burn of a milestone that runs.        *)
LEMMA BudgetCovers ==
    ASSUME TokenInv, Bounded, Budgeted, NEW p \in isPoolLaunched
    PROVE  /\ Owed(p) \in Nat
           /\ Entitled(p) + Owed(p) <= supply[CurrentMint(p)]
<1> DEFINE m == CurrentMint(p)
           s == PerBacker(p)
           n == totalBackers[p]
           a == Cardinality(initialAirdropReceived[p])
           due == Cardinality(backersOf[p] \ initialAirdropReceived[p])
           c == currentAirdropCycle[p]
           w == IF p \in milestoneActive
                THEN milestoneBackersWeighted[p] ELSE 0
           units == milestoneUnitsAssigned[p]
           claims == OutstandingClaims(p)
           burn == IF p \in milestoneActive THEN MilestoneBurn(p) ELSE 0
           A == config.totalAirdropAmountPerMilestone
           rest == config.makerTokenAmount + config.totalPoolTokens
           T == config.totalMint
<1>1. /\ TypeOK /\ WeightedAreSettled /\ p \in proposals
      /\ p \in Proposals /\ s \in Nat /\ n \in Nat \ {0}
      /\ n = Cardinality(backersOf[p]) /\ IsFiniteSet(backersOf[p])
      /\ a \in Nat /\ claims \in Nat /\ m \in Mints
      /\ IsFiniteSet(initialAirdropReceived[p])
    BY LaunchedShare DEF TokenInv, RoundInv, LedgerInv, TypeInv, TypeOK
<1>2. /\ T \in Nat /\ A \in Nat /\ rest \in Nat
      /\ config.makerTokenAmount \in Nat /\ config.totalPoolTokens \in Nat
      /\ supply[m] \in Nat
      /\ units \in Nat /\ c \in Nat /\ milestoneBackersWeighted[p] \in Nat
    BY <1>1, ConfigNat DEF TypeOK
<1>3. c > 0 /\ c <= CycleMax /\ CycleMax \in Nat
    BY <1>1, BoundsAssumption
    DEF TokenInv, RoundInv, Begun, CycleWithinMax
<1>4. w \in Nat /\ w <= n
    <2>1. CASE p \in milestoneActive
        <3>1. SettledBackers(p) \in SUBSET backersOf[p]
            BY DEF SettledBackers
        <3>2. /\ Cardinality(SettledBackers(p)) <= n
              /\ Cardinality(SettledBackers(p)) \in Nat
            BY <1>1, <3>1, FS_Subset, SettledFinite
        <3> QED
            BY <1>1, <1>2, <2>1, <3>2 DEF WeightedAreSettled
    <2>2. CASE p \notin milestoneActive
        BY <1>1, <2>2
    <2> QED
        BY <2>1, <2>2
<1>5. n * s <= A
    BY <1>1, <1>2, SharesWithinTotal DEF PerBacker
<1>6. /\ supply[m] + Burnable * (c - 1) >= T
      /\ units <= s * (n * (c - 1) + w)
    BY DEF Bounded, BurntAtMost, GrantedAtMost, Snapshots, Burnable
<1>7. Burnable \in Nat /\ burn \in Nat /\ burn <= Burnable
    BY BurnableNat, BurnWithin
<1>8. T >= rest + (CycleMax + 1) * A + CycleMax * Burnable
    <2>1. Cardinality(Backers) \in Nat
        BY WalletsAssumption, FS_CardinalityType
    <2>2. CycleMax * FullReputation * Cardinality(Backers)
              = CycleMax * Burnable
        BY <1>3, <2>1 DEF Burnable, FullReputation
    <2> QED
        BY <2>2 DEF Budgeted
<1>9. due = n - a /\ a <= n
    <2>1. initialAirdropReceived[p] \in SUBSET backersOf[p]
        BY <1>1 DEF TokenInv, AirdropsToBackers
    <2>2. a <= n
        BY <1>1, <2>1, FS_Subset
    <2>3. due = n - Cardinality(backersOf[p]
                                    \cap initialAirdropReceived[p])
        BY <1>1, FS_Difference
    <2>4. backersOf[p] \cap initialAirdropReceived[p]
              = initialAirdropReceived[p]
        BY <2>1
    <2> QED
        BY <2>2, <2>3, <2>4
<1>a. /\ Entitled(p) = config.makerTokenAmount + config.totalPoolTokens
                           + s * a + units - claims
      /\ Owed(p) = claims + s * due + burn
    BY DEF Entitled, Owed
<1> HIDE DEF m, s, n, a, due, c, w, units, claims, burn, A, T
<1>b. supply[m] - rest - units >= s * n + Burnable
    <2> HIDE DEF rest
    <2> QED
        BY <1>1, <1>2, <1>3, <1>4, <1>5, <1>6, <1>7, <1>8, BudgetArithmetic
<1>c. s * due = s * n - s * a /\ s * n \in Nat /\ s * a \in Nat
    BY <1>1, <1>9
<1>d. s * due \in Nat
    <2>1. n \in Nat /\ a \in Nat /\ due \in Nat
        BY <1>1, <1>9
    <2> QED
        BY <1>1, <2>1
<1>e. Owed(p) \in Nat
    BY <1>1, <1>7, <1>a, <1>d
<1>f. Entitled(p) + Owed(p) <= supply[m]
    BY <1>1, <1>2, <1>7, <1>a, <1>b, <1>c, <1>d
<1> QED
    BY <1>e, <1>f DEF m

(* What all mints issued is in the vaults or in circulation; each launched *)
(* proposal has a mint of its own, so the mints together cover what is in  *)
(* circulation and what is owed, and the vaults hold the difference.       *)
LEMMA VaultsCover ==
    ASSUME TokenInv, DistributionInv, Bounded
    PROVE  ClaimsFunded
<1> DEFINE L == isPoolLaunched
           out == [m \in Mints |-> supply[m] - tokenVault[m]]
           entitled == [p \in L |-> Entitled(p)]
           owed == [p \in L |-> Owed(p)]
           both == [p \in L |-> Entitled(p) + Owed(p)]
           key == [p \in L |-> CurrentMint(p)]
           minted == [p \in L |-> supply[key[p]]]
<1> SUFFICES ASSUME Budgeted
             PROVE  SumFunctionOnSet(tokenVault, Mints)
                        >= SumFunctionOnSet(owed, L)
    BY DEF ClaimsFunded
<1>1. TypeOK /\ VaultWithinSupply /\ OneMint
    BY DEF TokenInv, RoundInv, LedgerInv, TypeInv
<1>2. /\ IsFiniteSet(L) /\ L \subseteq Proposals /\ IsFiniteSet(Mints)
      /\ supply \in [Mints -> Nat] /\ tokenVault \in [Mints -> Nat]
    BY <1>1, LaunchedFinite DEF TypeOK
<1>3. \A m \in Mints : /\ tokenVault[m] \in Nat /\ out[m] \in Nat
                       /\ supply[m] = tokenVault[m] + out[m]
    BY <1>1, <1>2 DEF VaultWithinSupply
<1>4. \A p \in L : /\ entitled[p] \in Nat /\ owed[p] \in Nat
                   /\ both[p] = entitled[p] + owed[p]
    BY EntitledNat, BudgetCovers DEF DistributionInv
<1>5. /\ \A p \in L : key[p] \in Mints
      /\ \A p, q \in L : key[p] = key[q] => p = q
    BY <1>1, <1>2, LaunchedShare DEF CurrentMint, OneMint
<1>6. \A p \in L : /\ both[p] \in Nat /\ minted[p] \in Nat
                   /\ both[p] <= minted[p]
    BY <1>2, <1>4, <1>5, BudgetCovers
<1>7. Circulating = SumFunctionOnSet(out, Mints)
      /\ EntitledSum = SumFunctionOnSet(entitled, L)
    BY DEF Circulating, EntitledSum
<1> HIDE DEF L, out, entitled, owed, both, key
<1>8. SumFunctionOnSet(supply, Mints)
          = SumFunctionOnSet(tokenVault, Mints)
              + SumFunctionOnSet(out, Mints)
    BY <1>2, <1>3, SumOfParts
<1>9. SumFunctionOnSet(both, L)
          = SumFunctionOnSet(entitled, L) + SumFunctionOnSet(owed, L)
    BY <1>2, <1>4, SumOfParts
<1>a. \A m \in Mints : supply[m] \in Nat
    BY <1>2
<1>b. SumFunctionOnSet(minted, L) <= SumFunctionOnSet(supply, Mints)
    BY <1>2, <1>5, <1>a, SumOfSome
<1> HIDE DEF minted
<1>c. SumFunctionOnSet(both, L) <= SumFunctionOnSet(minted, L)
    BY <1>2, <1>6, SumWithin
<1>d. /\ SumFunctionOnSet(tokenVault, Mints) \in Nat
      /\ SumFunctionOnSet(out, Mints) \in Nat
      /\ SumFunctionOnSet(entitled, L) \in Nat
      /\ SumFunctionOnSet(owed, L) \in Nat
      /\ SumFunctionOnSet(both, L) \in Nat
      /\ SumFunctionOnSet(minted, L) \in Nat
      /\ SumFunctionOnSet(supply, Mints) \in Nat
    BY <1>2, <1>3, <1>4, <1>6, <1>a, SumNat
<1>e. SumFunctionOnSet(out, Mints) <= SumFunctionOnSet(entitled, L)
    BY <1>7 DEF DistributionInv
<1> QED
    BY <1>8, <1>9, <1>b, <1>c, <1>d, <1>e

(* With one split and one supply, a mint that suffices for the cycles      *)
(* there can be is enough for all that the proposals owe: the vaults       *)
(* together always hold every claim granted, every initial airdrop still   *)
(* due and the burns of the milestones that run, whichever vaults the      *)
(* callers of airdrop and claim made pay.                                  *)
THEOREM ClaimsAreFunded ==
    ASSUME OneSplit, OneSupply
    PROVE  OperatingSpec => []ClaimsFunded
<1> QED
    BY TokenInvariant, DistributionInvariant, BoundedInvariant, VaultsCover,
       PTL

-----------------------------------------------------------------------------
(* With one stake every open deposit is that stake, in every order of all  *)
(* instructions, the repair tools included.                                *)
StakedDeposits ==
    \A p \in Proposals : \A b \in backersOf[p] : depositAmount[p][b] = Stake

LEMMA StakeFixed ==
    ASSUME OneStake, TypeOK, TypeOK'
    PROVE  Stake' = Stake /\ Stake \in Nat
BY ConfigNat DEF OneStake, TypeOK, Stake

LEMMA StakedDepositsNext ==
    ASSUME OneStake, TypeOK, TypeOK', StakedDeposits, [Next]_vars
    PROVE  StakedDeposits'
<1>0. /\ Stake' = Stake
      /\ backersOf \in [Proposals -> SUBSET Backers]
      /\ depositAmount \in [Proposals -> [Backers -> Nat]]
    BY StakeFixed DEF TypeOK
<1>1. ASSUME NEW p \in Proposals, NEW b \in Backers, DepositSol(p, b)
      PROVE  StakedDeposits'
    <2>1. /\ backersOf' = [backersOf EXCEPT ![p] = @ \cup {b}]
          /\ depositAmount' = [depositAmount EXCEPT ![p][b] = Stake]
        BY <1>1 DEF DepositSol, Stake
    <2> QED
        BY <1>0, <2>1 DEF StakedDeposits
<1>2. ASSUME NEW p \in Proposals, NEW b \in Backers, Refund(p, b)
      PROVE  StakedDeposits'
    <2>1. /\ backersOf' = [backersOf EXCEPT ![p] = @ \ {b}]
          /\ depositAmount' = [depositAmount EXCEPT ![p][b] = 0]
        BY <1>2 DEF Refund
    <2> QED
        BY <1>0, <2>1 DEF StakedDeposits
<1>3. CASE UNCHANGED backingVars
    BY <1>0, <1>3 DEF StakedDeposits, backingVars
<1> QED
    BY <1>1, <1>2, <1>3
    DEF Next, OperatingNext, FundingNext, LaunchNext, MilestoneNext,
        RepairNext, Tick, SetConfig, MintSoulboundToUser, CreateProposal,
        RejectProposal, CreatePool, TopUpWsol, Airdrop, InitialiseMilestone,
        SnapshotBacker, EndMilestone, ClaimMilestoneReward, Trade,
        OpenAccount, CloseAccount, ResetPoolLaunch, ResetAirdrop, vars

LEMMA StakedDepositsInvariant ==
    ASSUME OneStake
    PROVE  Spec => []StakedDeposits
<1>1. Init => StakedDeposits
    BY DEF Init, StakedDeposits
<1>2. TypeOK /\ TypeOK' /\ StakedDeposits /\ [Next]_vars => StakedDeposits'
    BY StakedDepositsNext
<1> QED
    BY TypeCorrect, <1>1, <1>2, PTL DEF Spec

(* A refund takes exactly the backer's recorded deposit out of the vault   *)
(* as long as the operator does not change the stake: reading the amount   *)
(* from the configuration is the only reason it can be wrong.              *)
THEOREM StakeIsRefunded ==
    ASSUME OneStake
    PROVE  Spec => RefundReturnsDeposit
<1> DEFINE Returned == \A p \in Proposals : \A b \in backersOf[p] \ backersOf'[p] :
                           vaultAuthority - vaultAuthority' = depositAmount[p][b]
<1>1. TypeOK /\ StakedDeposits /\ [Next]_vars => [Returned]_vars
    <2> SUFFICES ASSUME TypeOK, StakedDeposits, [Next]_vars,
                        NEW p \in Proposals,
                        NEW b \in backersOf[p] \ backersOf'[p]
                 PROVE  vaultAuthority - vaultAuthority' = depositAmount[p][b]
        OBVIOUS
    <2>0. /\ backersOf \in [Proposals -> SUBSET Backers]
          /\ vaultAuthority \in Nat /\ Stake \in Nat
          /\ depositAmount[p][b] = Stake
        BY ConfigNat DEF TypeOK, Stake, StakedDeposits
    <2>1. ASSUME NEW q \in Proposals, NEW a \in Backers, DepositSol(q, a)
          PROVE  FALSE
        BY <2>0, <2>1 DEF DepositSol
    <2>2. ASSUME NEW q \in Proposals, NEW a \in Backers, Refund(q, a)
          PROVE  vaultAuthority - vaultAuthority' = depositAmount[p][b]
        BY <2>0, <2>2 DEF Refund, RefundedAmount, Stake
    <2>3. ~(UNCHANGED backersOf)
        OBVIOUS
    <2> QED
        BY <2>1, <2>2, <2>3
        DEF Next, OperatingNext, FundingNext, LaunchNext, MilestoneNext,
            RepairNext, Tick, SetConfig, MintSoulboundToUser, CreateProposal,
            RejectProposal, CreatePool, TopUpWsol, Airdrop,
            InitialiseMilestone, SnapshotBacker, EndMilestone,
            ClaimMilestoneReward, Trade, OpenAccount, CloseAccount,
            ResetPoolLaunch, ResetAirdrop, vars, backingVars
<1> QED
    BY TypeCorrect, StakedDepositsInvariant, <1>1, PTL
    DEF Spec, RefundReturnsDeposit

(* Without a reset of the launch, end_milestone is refused for a missing   *)
(* snapshot only while a snapshot is missing: the two counters it compares *)
(* are the sizes of the two sets of backers.                               *)
THEOREM RefusedForUnsettled == OperatingSpec => []RefusedOnlyIfUnsettled
<1>1. RoundInv /\ SettledAreWeighted => RefusedOnlyIfUnsettled
    <2> SUFFICES ASSUME RoundInv, SettledAreWeighted,
                        NEW p \in milestoneActive, ~AllWeighted(p)
                 PROVE  SettledBackers(p) # backersOf[p]
        BY DEF RefusedOnlyIfUnsettled
    <2>1. p \in Proposals /\ p \notin isRejected
        BY DEF RoundInv, LedgerInv, TypeInv, TypeOK, OneDecision
    <2>2. totalBackers[p] = Cardinality(backersOf[p])
        BY <2>1 DEF RoundInv, LedgerInv, BackersCounted
    <2>3. milestoneBackersWeighted[p] = Cardinality(SettledBackers(p))
        BY DEF SettledAreWeighted
    <2> QED
        BY <2>2, <2>3 DEF AllWeighted
<1> QED
    BY RoundInvariant, SettledBackersAreWeighted, <1>1, PTL

(* The deposits of the proposals without a pool add up to one stake per    *)
(* account in escrow.                                                      *)
LEMMA DepositsAreEscrowed ==
    ASSUME TypeOK, OneMint, StakedDeposits
    PROVE  LET open == {p \in Proposals \ isPoolLaunched : mintAccount[p] = 0}
           IN  SumFunctionOnSet([p \in open |-> DepositsOf(p)], open)
                   = Stake * Cardinality(Escrowed)
<1> DEFINE open == {p \in Proposals \ isPoolLaunched : mintAccount[p] = 0}
           deposits == [p \in open |-> DepositsOf(p)]
           number == [p \in open |-> Cardinality(backersOf[p])]
<1>1. open = Proposals \ isPoolLaunched
    BY DEF OneMint
<1>2. IsFiniteSet(open)
    BY EscrowedFinite, FS_Subset
<1>3. ASSUME NEW p \in open
      PROVE  /\ IsFiniteSet(backersOf[p]) /\ number[p] \in Nat
             /\ deposits[p] = Stake * number[p]
    <2>1. IsFiniteSet(backersOf[p]) /\ Cardinality(backersOf[p]) \in Nat
        BY BackersFinite
    <2>2. Stake \in Nat
        BY ConfigNat DEF Stake
    <2>3. \A b \in backersOf[p] : depositAmount[p][b] = Stake
        BY DEF StakedDeposits
    <2>4. DepositsOf(p) = Stake * Cardinality(backersOf[p])
        BY <2>1, <2>2, <2>3, SumOfEquals DEF DepositsOf
    <2> QED
        BY <2>1, <2>4
<1>4. Pairs(open, backersOf) = Escrowed
    <2>1. \A e \in Pairs(open, backersOf) : e \in Escrowed
        BY <1>1 DEF Pairs, Escrowed, TypeOK
    <2>2. \A e \in Escrowed : e \in Pairs(open, backersOf)
        <3> SUFFICES ASSUME NEW e \in Escrowed
                     PROVE  e \in Pairs(open, backersOf)
            OBVIOUS
        <3>1. /\ e = <<e[1], e[2]>> /\ e[1] \in open
              /\ e[2] \in backersOf[e[1]]
            BY <1>1 DEF Escrowed
        <3>2. e \in {e[1]} \X backersOf[e[1]]
            BY <3>1
        <3> HIDE DEF open
        <3> QED
            BY <3>1, <3>2 DEF Pairs
    <2> HIDE DEF open
    <2> QED
        BY <2>1, <2>2
<1>5. Cardinality(Escrowed) = SumFunctionOnSet(number, open)
    <2>1. \A p \in open : IsFiniteSet(backersOf[p])
        BY <1>3
    <2> HIDE DEF open
    <2> QED
        BY <1>2, <1>4, <2>1, PairsCounted
<1>6. SumFunctionOnSet(deposits, open)
          = Stake * SumFunctionOnSet(number, open)
    <2>1. \A p \in open : number[p] \in Nat /\ deposits[p] = Stake * number[p]
        BY <1>3
    <2>2. Stake \in Nat
        BY ConfigNat DEF Stake
    <2> HIDE DEF open, deposits, number
    <2> QED
        BY <1>2, <2>1, <2>2, SumOfMultiples
<1> QED
    BY <1>5, <1>6

(* With one stake, a float that pays for the pools and no reset, the vault *)
(* authority holds the deposits of every proposal that was never launched: *)
(* no launch, fee or refund of another proposal ever spends them.          *)
THEOREM DepositsAreHeld ==
    ASSUME OneStake, FloatSuffices
    PROVE  OperatingSpec => []UnlaunchedDepositsHeld
<1>1. OperatingSpec => []StakedDeposits
    <2>1. OperatingNext => Next
        BY DEF Next
    <2>2. OperatingSpec => Spec
        BY <2>1, PTL DEF OperatingSpec, Spec
    <2> QED
        BY <2>2, StakedDepositsInvariant, PTL
<1>2. TokenInv /\ StakedDeposits /\ VaultAccounting => UnlaunchedDepositsHeld
    <2> SUFFICES ASSUME TokenInv, StakedDeposits, VaultAccounting
                 PROVE  UnlaunchedDepositsHeld
        OBVIOUS
    <2> DEFINE held == Stake * Cardinality(Escrowed)
               rent == PoolRent * Cardinality(isPoolLaunched)
    <2>1. TypeOK /\ OneMint /\ isPoolLaunched \in SUBSET Proposals
        BY DEF TokenInv, RoundInv, LedgerInv, TypeInv, TypeOK
    <2>2. Cardinality(isPoolLaunched) <= Cardinality(Proposals)
        BY <2>1, EscrowedFinite, FS_Subset
    <2>3. /\ Cardinality(isPoolLaunched) \in Nat
          /\ Cardinality(Proposals) \in Nat
          /\ Cardinality(Escrowed) \in Nat
          /\ PoolRent \in Nat /\ Float \in Nat /\ RentExempt \in Nat
          /\ Stake \in Nat
        BY <2>1, EscrowedFinite, AmountsAssumption, ConfigNat DEF Stake
    <2>4. /\ rent <= PoolRent * Cardinality(Proposals)
          /\ rent \in Nat /\ PoolRent * Cardinality(Proposals) \in Nat
          /\ held \in Nat
        BY <2>2, <2>3, ProductMonotone
    <2>5. Float >= PoolRent * Cardinality(Proposals) + RentExempt
        BY DEF FloatSuffices
    <2>6. vaultAuthority = Float + held - rent
        BY DEF VaultAccounting
    <2> HIDE DEF held, rent
    <2>7. vaultAuthority >= held
        BY <2>3, <2>4, <2>5, <2>6
    <2> QED
        BY <2>1, <2>7, DepositsAreEscrowed DEF UnlaunchedDepositsHeld, held
<1> QED
    BY TokenInvariant, VaultIsExact, <1>1, <1>2, PTL

-----------------------------------------------------------------------------
(* No backer is ever more than one settlement behind its proposal: cycles  *)
(* are first opened by a launch, and end when everybody has been settled.  *)
FirstCycle ==
    \A p \in Proposals \ isPoolLaunched : currentAirdropCycle[p] <= 1

KeepsUp ==
    \A p \in Proposals : \A b \in backersOf[p] :
        currentAirdropCycle[p] <= settleCycle[p][b] + 1

LEMMA KeepsUpNext ==
    ASSUME TokenInv, FirstCycle, KeepsUp, [OperatingNext]_vars
    PROVE  FirstCycle' /\ KeepsUp'
<1>0. /\ backersOf \in [Proposals -> SUBSET Backers]
      /\ settleCycle \in [Proposals -> [Backers -> Nat]]
      /\ currentAirdropCycle \in [Proposals -> Nat]
      /\ milestoneActive \subseteq isPoolLaunched
      /\ RoundInv
    BY DEF TokenInv, RoundInv, LedgerInv, TypeInv, TypeOK
<1>1. isPoolLaunched \subseteq isPoolLaunched'
    BY DEF OperatingNext, FundingNext, LaunchNext, MilestoneNext, Tick,
           SetConfig, MintSoulboundToUser, CreateProposal, DepositSol,
           RejectProposal, Refund, CreatePool, TopUpWsol, Airdrop,
           InitialiseMilestone, SnapshotBacker, EndMilestone,
           ClaimMilestoneReward, Trade, OpenAccount, CloseAccount, vars,
           launchVars
<1> USE DEF FirstCycle, KeepsUp
<1>2. ASSUME NEW m \in Makers, CreateProposal(m)
      PROVE  FirstCycle' /\ KeepsUp'
    <2>1. /\ backersOf' = backersOf /\ settleCycle' = settleCycle
          /\ \E p : currentAirdropCycle' =
                         [currentAirdropCycle EXCEPT ![p] = 1]
        BY <1>2 DEF CreateProposal, backingVars, rewardVars
    <2> QED
        BY <1>0, <1>1, <2>1
<1>3. ASSUME NEW p \in Proposals, NEW b \in Backers, DepositSol(p, b)
      PROVE  FirstCycle' /\ KeepsUp'
    <2>1. /\ p \notin isPoolLaunched
          /\ backersOf' = [backersOf EXCEPT ![p] = @ \cup {b}]
          /\ settleCycle' = [settleCycle EXCEPT ![p][b] = 0]
          /\ currentAirdropCycle' = currentAirdropCycle
        BY <1>3 DEF DepositSol, BackingOpen, milestoneVars
    <2> QED
        BY <1>0, <1>1, <2>1
<1>4. ASSUME NEW p \in Proposals, NEW b \in Backers, Refund(p, b)
      PROVE  FirstCycle' /\ KeepsUp'
    <2>1. /\ backersOf' = [backersOf EXCEPT ![p] = @ \ {b}]
          /\ settleCycle' = [settleCycle EXCEPT ![p][b] = 0]
          /\ currentAirdropCycle' = currentAirdropCycle
        BY <1>4 DEF Refund, milestoneVars
    <2> QED
        BY <1>0, <1>1, <2>1
<1>5. ASSUME NEW p \in Proposals, NEW b \in Backers, SnapshotBacker(p, b)
      PROVE  FirstCycle' /\ KeepsUp'
    <2>1. /\ backersOf' = backersOf
          /\ settleCycle' =
                 [settleCycle EXCEPT ![p][b] = currentAirdropCycle[p]]
          /\ currentAirdropCycle' = currentAirdropCycle
        BY <1>5 DEF SnapshotBacker, backingVars
    <2> QED
        BY <1>0, <1>1, <2>1
<1>6. ASSUME NEW p \in Proposals, EndMilestone(p)
      PROVE  FirstCycle' /\ KeepsUp'
    <2>1. /\ p \in isPoolLaunched /\ SettledBackers(p) = backersOf[p]
          /\ backersOf' = backersOf /\ settleCycle' = settleCycle
          /\ currentAirdropCycle' =
                 [currentAirdropCycle EXCEPT ![p] = @ + 1]
        BY <1>0, <1>6, SettledAfterEnd
        DEF EndMilestone, backingVars, rewardVars
    <2>2. \A b \in backersOf[p] :
              settleCycle[p][b] = currentAirdropCycle[p]
        BY <2>1 DEF SettledBackers
    <2> QED
        BY <1>0, <1>1, <2>1, <2>2
<1>7. CASE UNCHANGED <<backersOf, settleCycle, currentAirdropCycle>>
    BY <1>1, <1>7
<1> QED
    BY <1>2, <1>3, <1>4, <1>5, <1>6, <1>7, RoundSteps
    DEF InitialiseMilestone, backingVars, rewardVars

LEMMA KeepsUpInvariant == OperatingSpec => []KeepsUp
<1>1. Init => FirstCycle /\ KeepsUp
    BY DEF Init, FirstCycle, KeepsUp
<1> QED
    BY TokenInvariant, KeepsUpNext, <1>1, PTL DEF OperatingSpec

(* Only a snapshot and a claim of b write b's rewards while p is launched, *)
(* and nothing takes back the record of its airdrop.                       *)
LEMMA RewardSteps ==
    ASSUME TypeOK, OneDecision, [OperatingNext]_vars,
           NEW p \in isPoolLaunched, NEW b \in backersOf[p]
    PROVE  /\ initialAirdropReceived[p] \subseteq initialAirdropReceived'[p]
           /\ \/ SnapshotBacker(p, b)
              \/ \E m \in Mints \cup {Wsol} : ClaimMilestoneReward(p, b, m)
              \/ /\ claimAmount'[p][b] = claimAmount[p][b]
                 /\ settleCycle'[p][b] = settleCycle[p][b]
                 /\ claimedUpto'[p][b] = claimedUpto[p][b]
<1> DEFINE Kept == initialAirdropReceived[p]
                       \subseteq initialAirdropReceived'[p]
           Same == /\ claimAmount'[p][b] = claimAmount[p][b]
                   /\ settleCycle'[p][b] = settleCycle[p][b]
                   /\ claimedUpto'[p][b] = claimedUpto[p][b]
           Good == Kept /\ (\/ SnapshotBacker(p, b)
                            \/ \E m \in Mints \cup {Wsol} :
                                   ClaimMilestoneReward(p, b, m)
                            \/ Same)
<1>0. /\ p \in Proposals /\ p \notin isRejected /\ b \in Backers
      /\ claimAmount \in [Proposals -> [Backers -> Nat]]
      /\ settleCycle \in [Proposals -> [Backers -> Nat]]
      /\ claimedUpto \in [Proposals -> [Backers -> Nat]]
      /\ initialAirdropReceived \in [Proposals -> SUBSET Backers]
    BY DEF TypeOK, OneDecision
<1>1. ASSUME NEW q \in Proposals, NEW a \in Backers,
             DepositSol(q, a) \/ Refund(q, a)
      PROVE  Good
    <2>1. q # p
        BY <1>0, <1>1 DEF DepositSol, BackingOpen, Refund
    <2> QED
        BY <1>0, <1>1, <2>1 DEF DepositSol, Refund
<1>2. ASSUME NEW q \in Proposals, NEW a \in Backers, SnapshotBacker(q, a)
      PROVE  Good
    <2>1. CASE q = p /\ a = b
        BY <1>2, <2>1 DEF SnapshotBacker
    <2>2. CASE q # p \/ a # b
        BY <1>0, <1>2, <2>2 DEF SnapshotBacker
    <2> QED
        BY <2>1, <2>2
<1>3. ASSUME NEW q \in Proposals, NEW a \in Backers,
             NEW m \in Mints \cup {Wsol},
             ClaimMilestoneReward(q, a, m)
      PROVE  Good
    <2>1. CASE q = p /\ a = b
        BY <1>0, <1>3, <2>1 DEF ClaimMilestoneReward
    <2>2. CASE q # p \/ a # b
        BY <1>0, <1>3, <2>2 DEF ClaimMilestoneReward
    <2> QED
        BY <2>1, <2>2
<1>4. ASSUME NEW q \in Proposals, NEW a \in Backers,
             NEW m \in Mints \cup {Wsol},
             Airdrop(q, a, m)
      PROVE  Good
    BY <1>0, <1>4 DEF Airdrop, rewardVars
<1>5. ASSUME UNCHANGED <<rewardVars, initialAirdropReceived>>
      PROVE  Good
    BY <1>5 DEF rewardVars
<1> HIDE DEF Good
<1>6. Good
    BY <1>1, <1>2, <1>3, <1>4, <1>5
    DEF OperatingNext, FundingNext, LaunchNext, MilestoneNext, Tick,
        SetConfig, MintSoulboundToUser, CreateProposal, RejectProposal,
        CreatePool, TopUpWsol, InitialiseMilestone, EndMilestone, Trade,
        OpenAccount, CloseAccount, vars
<1> QED
    BY <1>6 DEF Good

(* Shares of n and k cycles are shares of n + k cycles.                    *)
LEMMA SharesAdd ==
    \A per, n, k \in Nat :
        /\ per * n \in Nat
        /\ per * n + per * k = per * (n + k)
        /\ per * (n + 1) = per * n + per
OBVIOUS

(* A snapshot of a loyal backer grants a full share.                       *)
LEMMA LoyalSnapshot ==
    ASSUME TokenInv, KeepsUp, NEW p \in isPoolLaunched,
           NEW b \in backersOf[p], Loyal(p, b), SnapshotBacker(p, b)
    PROVE  /\ SnapshotUnits(p, b) = PerBacker(p)
           /\ currentAirdropCycle[p] = settleCycle[p][b] + 1
<1> DEFINE m == CurrentMint(p)
           per == PerBacker(p)
           cycle == currentAirdropCycle[p]
           mark == settleCycle[p][b]
           upto == claimedUpto[p][b]
           held == holding[m][b]
           pending == PendingClaim(p, b)
           actual == ActualHolding(held, per, pending)
<1>0. /\ TypeOK /\ CycleOrder /\ b \in Backers
      /\ p \in Proposals /\ per \in Nat /\ m \in Mints
    BY LaunchedShare DEF TokenInv, RoundInv, LedgerInv, TypeInv
<1>1. /\ cycle \in Nat /\ mark \in Nat /\ upto \in Nat /\ held \in Nat
      /\ upto <= mark /\ pending = mark - upto /\ pending \in Nat
    <2>1. /\ cycle \in Nat /\ mark \in Nat /\ upto \in Nat /\ held \in Nat
        BY <1>0 DEF TypeOK, Wallets, Users
    <2>2. upto <= mark
        BY <1>0 DEF CycleOrder
    <2>3. pending = mark - upto
        BY <1>0, PendingIsDifference
    <2> HIDE DEF cycle, mark, upto, held, pending
    <2> QED
        BY <2>1, <2>2, <2>3
<1>2. cycle = mark + 1 /\ ExpectedHolding(per, cycle) > 0
    BY <1>0, <1>1 DEF SnapshotBacker, Unsettled, KeepsUp
<1>3. held >= per * (upto + 1)
    BY DEF Loyal
<1> HIDE DEF m, per, cycle, mark, upto, held, pending
<1>4. per * (upto + 1) + per * pending = per * cycle
    <2>1. upto + 1 \in Nat /\ (upto + 1) + pending = cycle
        BY <1>1, <1>2
    <2> QED
        BY <1>0, <1>1, <2>1, SharesAdd
<1>5. actual \in Nat /\ actual >= ExpectedHolding(per, cycle)
    <2>1. per * pending \in Nat /\ per * (upto + 1) \in Nat
        BY <1>0, <1>1, SharesAdd
    <2> QED
        BY <1>1, <1>3, <1>4, <2>1 DEF ActualHolding, ExpectedHolding
<1>6. Allocation(per, TierPct(HoldingBp(actual,
                                        ExpectedHolding(per, cycle)))) = per
    <2> HIDE DEF actual
    <2> QED
        BY <1>0, <1>1, <1>2, <1>5, ExpectedHoldingEarnsAll
<1> QED
    BY <1>2, <1>6
    DEF SnapshotUnits, m, per, cycle, mark, held, pending

(* A backer that keeps its tokens stays loyal, and each snapshot grants it *)
(* a full share.                                                           *)
LEMMA LoyalNext ==
    ASSUME OneAirdrop, TokenInv, KeepsUp, [OperatingNext]_vars,
           NEW p \in isPoolLaunched, NEW b \in backersOf[p], Loyal(p, b),
           KeepsTokens(p, b)
    PROVE  /\ Loyal(p, b)'
           /\ settleCycle'[p][b] # settleCycle[p][b] =>
                  claimAmount'[p][b] = claimAmount[p][b] + PerBacker(p)
<1> DEFINE m == CurrentMint(p)
           per == PerBacker(p)
           mark == settleCycle[p][b]
           upto == claimedUpto[p][b]
           held == holding[m][b]
           claim == claimAmount[p][b]
           pending == PendingClaim(p, b)
<1>0. /\ TypeOK /\ CycleOrder /\ OneDecision /\ OneMint /\ RoundInv
      /\ b \in Backers /\ p \in Proposals /\ m \in Mints
    BY LaunchedShare DEF TokenInv, RoundInv, LedgerInv, TypeInv
<1>1. /\ per \in Nat /\ PerBacker(p)' = per /\ CurrentMint(p)' = m
    <2>1. backersOf[p] # {}
        OBVIOUS
    <2> QED
        BY <1>0, <2>1, ShareStays, MintStays DEF CurrentMint
<1>2. /\ mark \in Nat /\ upto \in Nat /\ held \in Nat /\ claim \in Nat
      /\ upto <= mark /\ pending = mark - upto /\ pending \in Nat
    <2>1. mark \in Nat /\ upto \in Nat /\ held \in Nat /\ claim \in Nat
        BY <1>0 DEF TypeOK, Wallets, Users
    <2>2. upto <= mark
        BY <1>0 DEF CycleOrder
    <2>3. pending = mark - upto
        BY <1>0, PendingIsDifference
    <2> HIDE DEF mark, upto, held, claim, pending
    <2> QED
        BY <2>1, <2>2, <2>3
<1>3. /\ b \in initialAirdropReceived[p]
      /\ held >= per * (upto + 1) /\ claim >= per * pending
    BY DEF Loyal
<1>4. b \in initialAirdropReceived'[p]
    BY <1>0, <1>3, RewardSteps
<1>k. /\ holding'[m][b] \in Nat /\ claimAmount'[p][b] \in Nat
      /\ holding'[m][b] + claimAmount'[p][b] >= held + claim
    <2>1. TypeOK'
        BY RoundInvNext, <1>0 DEF RoundInv, LedgerInv, TypeInv
    <2> QED
        BY <1>0, <2>1 DEF TypeOK, Wallets, Users, KeepsTokens
<1>5. CASE /\ claim' = claim /\ settleCycle'[p][b] = mark
           /\ claimedUpto'[p][b] = upto
    <2>1. PendingClaim(p, b)' = pending
        BY <1>5 DEF PendingClaim
    <2>2. holding'[m][b] >= per * (upto + 1)
        <3>1. holding'[m][b] + claim >= held + claim
            BY <1>5, <1>k
        <3>2. per * (upto + 1) \in Nat
            BY <1>1, <1>2, SharesAdd
        <3> HIDE DEF m, per, upto, held, claim
        <3> QED
            BY <1>2, <1>3, <1>k, <3>1, <3>2
    <2> QED
        BY <1>1, <1>3, <1>4, <1>5, <2>1, <2>2 DEF Loyal
<1>6. CASE SnapshotBacker(p, b)
    <2>1. /\ SnapshotUnits(p, b) = per
          /\ currentAirdropCycle[p] = mark + 1
        BY <1>6, LoyalSnapshot
    <2>2. /\ holding' = holding /\ claimedUpto' = claimedUpto
          /\ claimAmount'[p][b] = claim + per
          /\ settleCycle'[p][b] = mark + 1
        BY <1>0, <1>6, <2>1 DEF SnapshotBacker, tokenVars, TypeOK
    <2>3. PendingClaim(p, b)' = pending + 1
        <3>1. /\ settleCycle'[p][b] = mark + 1
              /\ claimedUpto'[p][b] = upto
            BY <2>2
        <3> QED
            BY <1>2, <3>1 DEF PendingClaim
    <2>4. per * (pending + 1) = per * pending + per /\ per * pending \in Nat
        BY <1>1, <1>2, SharesAdd
    <2>5. claim + per >= per * (pending + 1)
        <3> HIDE DEF claim, per, pending
        <3> QED
            BY <1>1, <1>2, <1>3, <2>4
    <2> QED
        BY <1>1, <1>3, <1>4, <2>2, <2>3, <2>5 DEF Loyal
<1>7. ASSUME NEW k \in Mints \cup {Wsol}, ClaimMilestoneReward(p, b, k)
      PROVE  /\ Loyal(p, b)'
             /\ settleCycle'[p][b] = mark
    <2>1. /\ claimAmount'[p][b] = 0
          /\ settleCycle'[p][b] = mark /\ claimedUpto'[p][b] = mark
        BY <1>0, <1>7 DEF ClaimMilestoneReward, ClaimedMark, TypeOK
    <2>k. holding'[m][b] >= held + claim
        BY <1>k, <2>1
    <2>2. PendingClaim(p, b)' = 0
        BY <1>2, <2>1 DEF PendingClaim
    <2>3. per * (upto + 1) + per * pending = per * (mark + 1)
        <3>1. upto + 1 \in Nat /\ (upto + 1) + pending = mark + 1
            BY <1>2
        <3> HIDE DEF per, upto, pending, mark
        <3> QED
            BY <1>1, <1>2, <3>1, SharesAdd
    <2>4. per * (upto + 1) \in Nat /\ per * pending \in Nat
        BY <1>1, <1>2, SharesAdd
    <2>5. held + claim >= per * (mark + 1)
        <3> HIDE DEF per, upto, pending, mark, held, claim
        <3> QED
            BY <1>2, <1>3, <2>3, <2>4
    <2>6. per * 0 = 0 /\ per * (mark + 1) \in Nat
        BY <1>1, <1>2, SharesAdd
    <2>7. holding'[m][b] >= per * (mark + 1)
        <3> HIDE DEF m, per, mark, held, claim
        <3> QED
            BY <1>2, <1>k, <2>5, <2>6, <2>k
    <2> QED
        BY <1>1, <1>4, <2>1, <2>2, <2>6, <2>7 DEF Loyal
<1> HIDE DEF m, per
<1> QED
    BY <1>0, <1>5, <1>6, <1>7, RewardSteps DEF m, per

(* A backer that got its airdrop before the first snapshot, sends no token *)
(* away and has its claims paid in the proposal's mint is granted a full   *)
(* share in every cycle, in any order of claims, snapshots, trades of      *)
(* others and ends of milestones, and whichever vaults other calls make    *)
(* pay, as long as the operator does not change the airdrop amount.        *)
THEOREM LoyalBackersAreRewarded ==
    ASSUME OneAirdrop
    PROVE  OperatingSpec => LoyaltyPays
<1> DEFINE Rewarded ==
        \A p \in isPoolLaunched : \A b \in backersOf[p] :
            Loyal(p, b) /\ KeepsTokens(p, b) =>
                /\ Loyal(p, b)'
                /\ settleCycle'[p][b] # settleCycle[p][b] =>
                       claimAmount'[p][b] = claimAmount[p][b] + PerBacker(p)
<1>1. TokenInv /\ KeepsUp /\ [OperatingNext]_vars => [Rewarded]_vars
    BY LoyalNext
<1> QED
    BY TokenInvariant, KeepsUpInvariant, <1>1, PTL
    DEF OperatingSpec, LoyaltyPays
=============================================================================
