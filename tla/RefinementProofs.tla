------------------------- MODULE RefinementProofs -------------------------
(***************************************************************************)
(* The program without its repair tools implements MilestoneRounds and     *)
(* Escrow, and what the invariants of these refinements say of its         *)
(* counters and claims.                                                    *)
(***************************************************************************)
EXTENDS OperatingProofs

(* Only a proposal that was created has backers, its first cycle has       *)
(* begun, and between milestones nobody is settled in the current cycle.   *)
NoBackersYet == \A p \in Proposals \ proposals : backersOf[p] = {}

Begun == \A p \in proposals : currentAirdropCycle[p] > 0

IdleUnsettled ==
    \A p \in Proposals \ milestoneActive : SettledBackers(p) = {}

RoundInv == LedgerInv /\ NoBackersYet /\ Begun /\ IdleUnsettled

(* What each instruction does to the settled backers.                      *)
LEMMA SettledStay ==
    ASSUME RoundInv,
           \/ \E m \in Makers : CreateProposal(m)
           \/ \E p \in Proposals, b \in Backers : DepositSol(p, b)
           \/ UNCHANGED <<backersOf, settleCycle, currentAirdropCycle>>
    PROVE  \A q \in Proposals : SettledBackers(q)' = SettledBackers(q)
<1>0. /\ backersOf \in [Proposals -> SUBSET Backers]
      /\ settleCycle \in [Proposals -> [Backers -> Nat]]
      /\ currentAirdropCycle \in [Proposals -> Nat]
      /\ proposals \subseteq Proposals
    BY DEF RoundInv, LedgerInv, TypeInv, TypeOK
<1>1. ASSUME NEW m \in Makers, CreateProposal(m), NEW q \in Proposals
      PROVE  SettledBackers(q)' = SettledBackers(q)
    <2> DEFINE new == <<m, proposalCount[m]>>
    <2>1. /\ new \notin proposals
          /\ currentAirdropCycle' = [currentAirdropCycle EXCEPT ![new] = 1]
          /\ settleCycle' = settleCycle /\ backersOf' = backersOf
        BY <1>1 DEF CreateProposal, rewardVars, backingVars
    <2> HIDE DEF new
    <2>2. CASE q = new
        <3>1. backersOf[q] = {}
            BY <2>1, <2>2 DEF RoundInv, NoBackersYet
        <3> QED
            BY <2>1, <3>1 DEF SettledBackers
    <2>3. CASE q # new
        BY <1>0, <2>1, <2>3 DEF SettledBackers
    <2> QED
        BY <2>2, <2>3
<1>2. ASSUME NEW p \in Proposals, NEW b \in Backers, DepositSol(p, b),
             NEW q \in Proposals
      PROVE  SettledBackers(q)' = SettledBackers(q)
    <2>1. /\ p \in proposals /\ b \notin backersOf[p]
          /\ backersOf' = [backersOf EXCEPT ![p] = @ \cup {b}]
          /\ settleCycle' = [settleCycle EXCEPT ![p][b] = 0]
          /\ currentAirdropCycle' = currentAirdropCycle
        BY <1>2 DEF DepositSol, NewBacker, milestoneVars
    <2>2. currentAirdropCycle[p] > 0
        BY <2>1 DEF RoundInv, Begun
    <2> QED
        BY <1>0, <2>1, <2>2 DEF SettledBackers
<1>3. CASE UNCHANGED <<backersOf, settleCycle, currentAirdropCycle>>
    BY <1>3 DEF SettledBackers
<1> QED
    BY <1>1, <1>2, <1>3

LEMMA SettledAfterRefund ==
    ASSUME RoundInv, NEW p \in Proposals, NEW b \in Backers, Refund(p, b)
    PROVE  /\ p \notin milestoneActive
           /\ \A q \in Proposals : SettledBackers(q)' = SettledBackers(q)
<1>0. /\ backersOf \in [Proposals -> SUBSET Backers]
      /\ settleCycle \in [Proposals -> [Backers -> Nat]]
      /\ milestoneActive \subseteq isPoolLaunched
      /\ isPoolLaunched \cap isRejected = {}
    BY DEF RoundInv, LedgerInv, TypeInv, TypeOK, OneDecision
<1>1. /\ p \in isRejected /\ b \in backersOf[p]
      /\ backersOf' = [backersOf EXCEPT ![p] = @ \ {b}]
      /\ settleCycle' = [settleCycle EXCEPT ![p][b] = 0]
      /\ currentAirdropCycle' = currentAirdropCycle
    BY DEF Refund, milestoneVars
<1>2. p \notin milestoneActive
    BY <1>0, <1>1
<1>3. SettledBackers(p) = {}
    BY <1>2 DEF RoundInv, IdleUnsettled
<1>4. SettledBackers(p)' = {}
    BY <1>0, <1>1, <1>3 DEF SettledBackers
<1>5. \A q \in Proposals \ {p} : SettledBackers(q)' = SettledBackers(q)
    BY <1>0, <1>1 DEF SettledBackers
<1> QED
    BY <1>2, <1>3, <1>4, <1>5

LEMMA SettledAfterSnapshot ==
    ASSUME RoundInv,
           NEW p \in Proposals, NEW b \in Backers, SnapshotBacker(p, b)
    PROVE  /\ b \in backersOf[p] \ SettledBackers(p)
           /\ SettledBackers(p)' = SettledBackers(p) \cup {b}
           /\ \A q \in Proposals \ {p} :
                  SettledBackers(q)' = SettledBackers(q)
<1>0. /\ backersOf \in [Proposals -> SUBSET Backers]
      /\ settleCycle \in [Proposals -> [Backers -> Nat]]
      /\ currentAirdropCycle \in [Proposals -> Nat]
    BY DEF RoundInv, LedgerInv, TypeInv, TypeOK
<1>1. /\ b \in backersOf[p] /\ currentAirdropCycle[p] > settleCycle[p][b]
      /\ settleCycle' =
             [settleCycle EXCEPT ![p][b] = currentAirdropCycle[p]]
      /\ backersOf' = backersOf
      /\ currentAirdropCycle' = currentAirdropCycle
    BY DEF SnapshotBacker, Unsettled, backingVars
<1> QED
    BY <1>0, <1>1 DEF SettledBackers

LEMMA SettledAfterEnd ==
    ASSUME RoundInv, NEW p \in Proposals, EndMilestone(p)
    PROVE  /\ SettledBackers(p) = backersOf[p]
           /\ SettledBackers(p)' = {}
           /\ \A q \in Proposals \ {p} :
                  SettledBackers(q)' = SettledBackers(q)
<1>0. /\ backersOf \in [Proposals -> SUBSET Backers]
      /\ settleCycle \in [Proposals -> [Backers -> Nat]]
      /\ currentAirdropCycle \in [Proposals -> Nat]
      /\ \A b \in Backers : settleCycle[p][b] <= currentAirdropCycle[p]
    BY DEF RoundInv, LedgerInv, TypeInv, TypeOK, CycleOrder
<1>1. /\ backersOf' = backersOf /\ settleCycle' = settleCycle
      /\ currentAirdropCycle' = [currentAirdropCycle EXCEPT ![p] = @ + 1]
    BY DEF EndMilestone, backingVars, rewardVars
<1>2. SettledBackers(p) = backersOf[p]
    BY EndIsComplete DEF RoundInv
<1>3. \A b \in backersOf[p] : settleCycle'[p][b] # currentAirdropCycle'[p]
    BY <1>0, <1>1
<1>4. SettledBackers(p)' = {}
    BY <1>1, <1>3 DEF SettledBackers
<1>5. \A q \in Proposals \ {p} : SettledBackers(q)' = SettledBackers(q)
    BY <1>0, <1>1 DEF SettledBackers
<1> QED
    BY <1>2, <1>4, <1>5
-----------------------------------------------------------------------------
(* The cases of a step, by what it does to the rounds.                     *)
LEMMA RoundSteps ==
    ASSUME [OperatingNext]_vars
    PROVE  \/ \E m \in Makers : CreateProposal(m)
           \/ \E p \in Proposals, b \in Backers :
                  DepositSol(p, b) \/ Refund(p, b) \/ SnapshotBacker(p, b)
           \/ \E p \in Proposals : InitialiseMilestone(p) \/ EndMilestone(p)
           \/ UNCHANGED <<proposals, backersOf, settleCycle,
                           currentAirdropCycle, milestoneActive,
                           milestoneBackersWeighted>>
<1> DEFINE Idle == UNCHANGED <<proposals, backersOf, settleCycle,
                               currentAirdropCycle, milestoneActive,
                               milestoneBackersWeighted>>
<1> USE DEF makerVars, backingVars, milestoneVars, rewardVars
<1>1. Tick \/ UNCHANGED vars => Idle
    BY DEF Tick, vars
<1>2. ASSUME FundingNext
      PROVE  \/ \E m \in Makers : CreateProposal(m)
             \/ \E p \in Proposals, b \in Backers :
                    DepositSol(p, b) \/ Refund(p, b)
             \/ Idle
    BY <1>2 DEF FundingNext, SetConfig, MintSoulboundToUser, RejectProposal
<1>3. LaunchNext => Idle
    BY DEF LaunchNext, CreatePool, TopUpWsol
<1>4. ASSUME MilestoneNext
      PROVE  \/ \E p \in Proposals, b \in Backers : SnapshotBacker(p, b)
             \/ \E p \in Proposals :
                    InitialiseMilestone(p) \/ EndMilestone(p)
             \/ Idle
    <2>1. ASSUME NEW p \in Proposals, NEW b \in Backers,
                 NEW m \in Mints \cup {Wsol},
                 Airdrop(p, b, m) \/ ClaimMilestoneReward(p, b, m)
          PROVE  Idle
        BY <2>1 DEF Airdrop, ClaimMilestoneReward
    <2>2. ASSUME NEW m \in Mints, NEW u \in Wallets, NEW v \in Wallets,
                 NEW n \in TradeSizes, Trade(m, u, v, n)
          PROVE  Idle
        BY <2>2 DEF Trade
    <2>3. ASSUME NEW m \in Mints, NEW w \in Keepers,
                 OpenAccount(m, w) \/ CloseAccount(m, w)
          PROVE  Idle
        BY <2>3 DEF OpenAccount, CloseAccount
    <2> HIDE DEF Idle
    <2> QED
        BY <1>4, <2>1, <2>2, <2>3 DEF MilestoneNext
<1> HIDE DEF Idle
<1>5. CASE Tick \/ UNCHANGED vars
    BY <1>1, <1>5 DEF Idle
<1>6. CASE FundingNext
    BY <1>2, <1>6 DEF Idle
<1>7. CASE LaunchNext
    BY <1>3, <1>7 DEF Idle
<1>8. CASE MilestoneNext
    BY <1>4, <1>8 DEF Idle
<1> QED
    BY <1>5, <1>6, <1>7, <1>8 DEF OperatingNext

LEMMA RoundInvInit == Init => RoundInv
<1> SUFFICES ASSUME Init PROVE RoundInv
    OBVIOUS
<1>1. LedgerInv
    BY LedgerInvInit
<1>2. NoBackersYet /\ Begun /\ IdleUnsettled
    BY DEF Init, NoBackersYet, Begun, IdleUnsettled, SettledBackers
<1> QED
    BY <1>1, <1>2 DEF RoundInv

LEMMA RoundInvNext == RoundInv /\ [OperatingNext]_vars => RoundInv'
<1> SUFFICES ASSUME RoundInv, [OperatingNext]_vars PROVE RoundInv'
    OBVIOUS
<1>0. /\ backersOf \in [Proposals -> SUBSET Backers]
      /\ currentAirdropCycle \in [Proposals -> Nat]
      /\ proposals \subseteq Proposals
      /\ milestoneActive \subseteq Proposals
      /\ milestoneActive \subseteq isPoolLaunched
    BY DEF RoundInv, LedgerInv, TypeInv, TypeOK
<1>1. LedgerInv'
    <2>1. [Next]_vars
        BY DEF Next
    <2> QED
        BY <2>1, LedgerInvNext DEF RoundInv
<1>2. (NoBackersYet /\ Begun)'
    <2> USE DEF RoundInv, NoBackersYet, Begun
    <2>1. ASSUME NEW m \in Makers, CreateProposal(m)
          PROVE  (NoBackersYet /\ Begun)'
        <3>1. m \in Makers /\ proposalCount[m] \in 0 .. MaxProposals - 1
            BY <2>1, BoundsAssumption
            DEF CreateProposal, LedgerInv, TypeInv, TypeOK
        <3>2. <<m, proposalCount[m]>> \in Proposals
            BY <3>1 DEF Proposals
        <3> QED
            BY <1>0, <2>1, <3>2 DEF CreateProposal, backingVars
    <2>2. ASSUME NEW p \in Proposals, NEW b \in Backers,
                 DepositSol(p, b) \/ Refund(p, b)
          PROVE  (NoBackersYet /\ Begun)'
        BY <1>0, <2>2 DEF DepositSol, Refund, makerVars, milestoneVars
    <2>3. ASSUME NEW p \in Proposals, EndMilestone(p)
          PROVE  (NoBackersYet /\ Begun)'
        BY <1>0, <2>3 DEF EndMilestone, makerVars, backingVars
    <2>4. CASE UNCHANGED <<proposals, backersOf, currentAirdropCycle>>
        BY <2>4
    <2> QED
        BY <2>1, <2>2, <2>3, <2>4, RoundSteps
        DEF SnapshotBacker, InitialiseMilestone, makerVars, backingVars,
            milestoneVars
<1>3. IdleUnsettled'
    <2> USE DEF RoundInv, IdleUnsettled
    <2>1. ASSUME NEW m \in Makers, CreateProposal(m) PROVE IdleUnsettled'
        BY <2>1, SettledStay DEF CreateProposal
    <2>2. ASSUME NEW p \in Proposals, NEW b \in Backers, DepositSol(p, b)
          PROVE  IdleUnsettled'
        BY <2>2, SettledStay DEF DepositSol, milestoneVars
    <2>3. ASSUME NEW p \in Proposals, NEW b \in Backers, Refund(p, b)
          PROVE  IdleUnsettled'
        BY <2>3, SettledAfterRefund DEF Refund, milestoneVars
    <2>4. ASSUME NEW p \in Proposals, NEW b \in Backers, SnapshotBacker(p, b)
          PROVE  IdleUnsettled'
        BY <2>4, SettledAfterSnapshot DEF SnapshotBacker
    <2>5. ASSUME NEW p \in Proposals, InitialiseMilestone(p)
          PROVE  IdleUnsettled'
        <3>1. UNCHANGED <<backersOf, settleCycle, currentAirdropCycle>>
            BY <2>5 DEF InitialiseMilestone, backingVars, rewardVars
        <3> QED
            BY <2>5, <3>1, SettledStay DEF InitialiseMilestone
    <2>6. ASSUME NEW p \in Proposals, EndMilestone(p) PROVE IdleUnsettled'
        BY <2>6, SettledAfterEnd DEF EndMilestone
    <2>7. CASE UNCHANGED <<backersOf, settleCycle, currentAirdropCycle,
                           milestoneActive>>
        BY <2>7, SettledStay
    <2> QED
        BY <2>1, <2>2, <2>3, <2>4, <2>5, <2>6, <2>7, RoundSteps
<1> QED
    BY <1>1, <1>2, <1>3 DEF RoundInv

LEMMA RoundInvariant == OperatingSpec => []RoundInv
BY RoundInvInit, RoundInvNext, PTL DEF OperatingSpec

(* Without the repair tools milestone_backers_weighted is the number of    *)
(* backers settled in this cycle, so a backer whose snapshot is refused as *)
(* already updated has been counted.                                       *)
LEMMA SettledAreWeightedNext ==
    RoundInv /\ SettledAreWeighted /\ [OperatingNext]_vars
        => SettledAreWeighted'
<1> SUFFICES ASSUME RoundInv, SettledAreWeighted, [OperatingNext]_vars
             PROVE  SettledAreWeighted'
    OBVIOUS
<1>0. /\ milestoneBackersWeighted \in [Proposals -> Nat]
      /\ milestoneActive \subseteq Proposals
      /\ TypeOK
    BY DEF RoundInv, LedgerInv, TypeInv, TypeOK
<1> USE DEF SettledAreWeighted
<1>1. ASSUME NEW m \in Makers, CreateProposal(m) PROVE SettledAreWeighted'
    BY <1>0, <1>1, SettledStay DEF CreateProposal
<1>2. ASSUME NEW p \in Proposals, NEW b \in Backers, DepositSol(p, b)
      PROVE  SettledAreWeighted'
    BY <1>0, <1>2, SettledStay DEF DepositSol, milestoneVars
<1>3. ASSUME NEW p \in Proposals, NEW b \in Backers, Refund(p, b)
      PROVE  SettledAreWeighted'
    BY <1>0, <1>3, SettledAfterRefund DEF Refund, milestoneVars
<1>4. ASSUME NEW p \in Proposals, NEW b \in Backers, SnapshotBacker(p, b)
      PROVE  SettledAreWeighted'
    <2>1. /\ SettledBackers(p)' = SettledBackers(p) \cup {b}
          /\ b \notin SettledBackers(p)
          /\ \A q \in Proposals \ {p} :
                 SettledBackers(q)' = SettledBackers(q)
        BY <1>4, SettledAfterSnapshot
    <2>2. Cardinality(SettledBackers(p)') = Cardinality(SettledBackers(p)) + 1
        BY <1>0, <2>1, SettledFinite, FS_AddElement
    <2>3. /\ milestoneActive' = milestoneActive
          /\ milestoneBackersWeighted' =
                 [milestoneBackersWeighted EXCEPT ![p] = @ + 1]
        BY <1>4 DEF SnapshotBacker
    <2> QED
        BY <1>0, <2>1, <2>2, <2>3
<1>5. ASSUME NEW p \in Proposals, InitialiseMilestone(p)
      PROVE  SettledAreWeighted'
    <2>1. \A q \in Proposals : SettledBackers(q)' = SettledBackers(q)
        <3>1. UNCHANGED <<backersOf, settleCycle, currentAirdropCycle>>
            BY <1>5 DEF InitialiseMilestone, backingVars, rewardVars
        <3> QED
            BY <3>1, SettledStay
    <2>2. Cardinality(SettledBackers(p)) = 0
        <3>1. SettledBackers(p) = {}
            BY <1>5 DEF InitialiseMilestone, RoundInv, IdleUnsettled
        <3> QED
            BY <3>1, FS_EmptySet
    <2>3. /\ milestoneActive' = milestoneActive \cup {p}
          /\ milestoneBackersWeighted' =
                 [milestoneBackersWeighted EXCEPT ![p] = 0]
        BY <1>5 DEF InitialiseMilestone
    <2> QED
        BY <1>0, <2>1, <2>2, <2>3
<1>6. ASSUME NEW p \in Proposals, EndMilestone(p) PROVE SettledAreWeighted'
    BY <1>0, <1>6, SettledAfterEnd DEF EndMilestone
<1>7. CASE UNCHANGED <<backersOf, settleCycle, currentAirdropCycle,
                       milestoneActive, milestoneBackersWeighted>>
    BY <1>0, <1>7, SettledStay
<1> QED
    BY <1>1, <1>2, <1>3, <1>4, <1>5, <1>6, <1>7, RoundSteps

(* Without the repair tools end_milestone's counter is exact in every      *)
(* reachable state.                                                        *)
THEOREM SettledBackersAreWeighted == OperatingSpec => []SettledAreWeighted
<1>1. Init => SettledAreWeighted
    BY DEF Init, SettledAreWeighted
<1> QED
    BY RoundInvariant, <1>1, SettledAreWeightedNext, PTL DEF OperatingSpec

-----------------------------------------------------------------------------
(* The milestones are rounds: a deposit or a refund enrols, a snapshot     *)
(* settles, and every other step leaves the rounds alone.                  *)
THEOREM MilestonesAreRounds == OperatingSpec => RoundsSpec
<1> DEFINE settledNow == [p \in Proposals |-> SettledBackers(p)]
<1>1. Init => R!Init
    BY DEF Init, R!Init, SettledBackers
<1>2. RoundInv /\ [OperatingNext]_vars => [R!Next]_R!roundVars
    <2> SUFFICES ASSUME RoundInv, [OperatingNext]_vars
                 PROVE  [R!Next]_R!roundVars
        OBVIOUS
    <2>0. /\ backersOf \in [Proposals -> SUBSET Backers]
          /\ milestoneActive \subseteq isPoolLaunched
          /\ backersOf' \in [Proposals -> SUBSET Backers]
        <3>1. RoundInv'
            BY RoundInvNext
        <3> QED
            BY <3>1 DEF RoundInv, LedgerInv, TypeInv, TypeOK
    <2>1. ASSUME NEW p \in Proposals, NEW b \in Backers,
                 DepositSol(p, b) \/ Refund(p, b)
          PROVE  R!Enrol(p)
        <3>1. \A q \in Proposals : SettledBackers(q)' = SettledBackers(q)
            BY <2>1, SettledStay, SettledAfterRefund
        <3>2. p \notin milestoneActive
            BY <2>0, <2>1, SettledAfterRefund DEF DepositSol, BackingOpen
        <3>3. /\ milestoneActive' = milestoneActive
              /\ backersOf' = [backersOf EXCEPT ![p] = backersOf'[p]]
            BY <2>0, <2>1 DEF DepositSol, Refund, milestoneVars
        <3>4. backersOf'[p] \in SUBSET Backers
            BY <2>0
        <3>5. settledNow' = settledNow
            BY <3>1
        <3> QED
            BY <3>2, <3>3, <3>4, <3>5 DEF R!Enrol
    <2>2. ASSUME NEW p \in Proposals, NEW b \in Backers,
                 SnapshotBacker(p, b)
          PROVE  R!Settle(p, b)
        <3>1. /\ p \in milestoneActive /\ milestoneActive' = milestoneActive
              /\ backersOf' = backersOf
            BY <2>2 DEF SnapshotBacker, backingVars
        <3>2. /\ b \in backersOf[p] \ settledNow[p]
              /\ settledNow' = [settledNow EXCEPT ![p] = @ \cup {b}]
            BY <2>2, SettledAfterSnapshot
        <3> QED
            BY <3>1, <3>2 DEF R!Settle
    <2>3. ASSUME NEW p \in Proposals, InitialiseMilestone(p)
          PROVE  R!Start(p)
        <3>1. /\ p \notin milestoneActive
              /\ milestoneActive' = milestoneActive \cup {p}
              /\ UNCHANGED <<backersOf, settleCycle, currentAirdropCycle>>
            BY <2>3 DEF InitialiseMilestone, backingVars, rewardVars
        <3>2. settledNow' = settledNow /\ settledNow[p] = {}
            BY <3>1, SettledStay DEF RoundInv, IdleUnsettled
        <3> QED
            BY <3>1, <3>2 DEF R!Start
    <2>4. ASSUME NEW p \in Proposals, EndMilestone(p)
          PROVE  R!Finish(p)
        <3>1. /\ p \in milestoneActive
              /\ milestoneActive' = milestoneActive \ {p}
              /\ backersOf' = backersOf
            BY <2>4 DEF EndMilestone, backingVars
        <3>2. /\ settledNow[p] = backersOf[p]
              /\ settledNow' = [settledNow EXCEPT ![p] = {}]
            BY <2>4, SettledAfterEnd
        <3> QED
            BY <3>1, <3>2 DEF R!Finish
    <2>5. ASSUME NEW m \in Makers, CreateProposal(m)
          PROVE  UNCHANGED R!roundVars
        <3>1. settledNow' = settledNow
            BY <2>5, SettledStay
        <3> QED
            BY <2>5, <3>1 DEF CreateProposal, R!roundVars, backingVars
    <2>6. CASE UNCHANGED <<backersOf, settleCycle, currentAirdropCycle,
                           milestoneActive>>
        <3>1. settledNow' = settledNow
            BY <2>6, SettledStay
        <3> QED
            BY <2>6, <3>1 DEF R!roundVars
    <2> QED
        BY <2>1, <2>2, <2>3, <2>4, <2>5, <2>6, RoundSteps DEF R!Next
<1> QED
    BY RoundInvariant, <1>1, <1>2, PTL DEF OperatingSpec, RoundsSpec, R!Spec
-----------------------------------------------------------------------------
(* What of the escrow the instructions touch: five of them, and each is    *)
(* one operation of Escrow; all others leave the escrow alone.             *)
LEMMA EscrowSteps ==
    ASSUME [OperatingNext]_vars
    PROVE  \/ \E m \in Makers : CreateProposal(m)
           \/ \E p \in Proposals, b \in Backers :
                  DepositSol(p, b) \/ Refund(p, b)
           \/ \E p \in Proposals :
                  \/ RejectProposal(p)
                  \/ \E left \in [base : Leftovers, quote : Leftovers] :
                         CreatePool(p, left)
           \/ UNCHANGED <<proposals, isPoolLaunched, isRejected, backersOf,
                           vaultAuthority>>
<1> DEFINE Idle == UNCHANGED <<proposals, isPoolLaunched, isRejected,
                               backersOf, vaultAuthority>>
<1> USE DEF makerVars, backingVars, launchVars
<1>1. Tick \/ UNCHANGED vars => Idle
    BY DEF Tick, vars
<1>2. ASSUME FundingNext
      PROVE  \/ \E m \in Makers : CreateProposal(m)
             \/ \E p \in Proposals, b \in Backers :
                    DepositSol(p, b) \/ Refund(p, b)
             \/ \E p \in Proposals : RejectProposal(p)
             \/ Idle
    BY <1>2 DEF FundingNext, SetConfig, MintSoulboundToUser
<1>3. ASSUME LaunchNext
      PROVE  \/ \E p \in Proposals,
                   left \in [base : Leftovers, quote : Leftovers] :
                    CreatePool(p, left)
             \/ Idle
    BY <1>3 DEF LaunchNext, TopUpWsol
<1>4. ASSUME MilestoneNext PROVE Idle
    <2>1. ASSUME NEW p \in Proposals, NEW b \in Backers,
                 NEW m \in Mints \cup {Wsol},
                 \/ Airdrop(p, b, m)
                 \/ SnapshotBacker(p, b)
                 \/ ClaimMilestoneReward(p, b, m)
          PROVE  Idle
        BY <2>1 DEF Airdrop, SnapshotBacker, ClaimMilestoneReward
    <2>2. ASSUME NEW p \in Proposals, InitialiseMilestone(p) \/ EndMilestone(p)
          PROVE  Idle
        BY <2>2 DEF InitialiseMilestone, EndMilestone
    <2>3. ASSUME NEW m \in Mints, NEW u \in Wallets, NEW v \in Wallets,
                 NEW n \in TradeSizes, Trade(m, u, v, n)
          PROVE  Idle
        BY <2>3 DEF Trade
    <2>6. ASSUME NEW m \in Mints, NEW w \in Keepers,
                 OpenAccount(m, w) \/ CloseAccount(m, w)
          PROVE  Idle
        BY <2>6 DEF OpenAccount, CloseAccount
    <2> HIDE DEF Idle
    <2>4. CASE \E p \in Proposals, b \in Backers, m \in Mints \cup {Wsol} :
                   Airdrop(p, b, m) \/ ClaimMilestoneReward(p, b, m)
        BY <2>1, <2>4
    <2>5. CASE \E p \in Proposals, b \in Backers : SnapshotBacker(p, b)
        <3>1. PICK p \in Proposals, b \in Backers : SnapshotBacker(p, b)
            BY <2>5
        <3> QED
            BY <3>1 DEF SnapshotBacker, Idle
    <2> QED
        BY <1>4, <2>2, <2>3, <2>4, <2>5, <2>6 DEF MilestoneNext
<1> HIDE DEF Idle
<1>5. CASE Tick \/ UNCHANGED vars
    BY <1>1, <1>5 DEF Idle
<1>6. CASE FundingNext
    BY <1>2, <1>6 DEF Idle
<1>7. CASE LaunchNext
    BY <1>3, <1>7 DEF Idle
<1>8. CASE MilestoneNext
    BY <1>4, <1>8 DEF Idle
<1> QED
    BY <1>5, <1>6, <1>7, <1>8 DEF OperatingNext

EscrowInv == RoundInv /\ BackingMatches

(* Every stake is held until it is spent on its own pool or refunded,      *)
(* once: the program with its pooled account and its counters implements   *)
(* the escrow that keeps a set of paying backers for each proposal.        *)
THEOREM BackersAreEscrowed ==
    ASSUME OneStake
    PROVE  OperatingSpec => EscrowSpec
<1> DEFINE phaseNow == [p \in Proposals |-> PhaseOf(p)]
           heldNow == [p \in Proposals |-> HeldFor(p)]
<1>1. Init => E!Init
    BY DEF Init, E!Init, PhaseOf, HeldFor
<1>2. EscrowInv /\ [OperatingNext]_vars => [E!Next]_E!escrowVars
    <2> SUFFICES ASSUME EscrowInv, [OperatingNext]_vars
                 PROVE  [E!Next]_E!escrowVars
        OBVIOUS
    <2>0. /\ TypeOK
          /\ backersOf \in [Proposals -> SUBSET Backers]
          /\ isPoolLaunched \cap isRejected = {}
          /\ isPoolLaunched \subseteq proposals
          /\ isRejected \subseteq proposals
          /\ proposals \subseteq Proposals
        BY DEF EscrowInv, RoundInv, LedgerInv, TypeInv, TypeOK, OneDecision
    <2>1. Stake = CommonStake
        <3>1. config \in ConfigChoices
            BY <2>0 DEF TypeOK
        <3>2. (CHOOSE c \in ConfigChoices : TRUE) \in ConfigChoices
            BY <3>1
        <3> QED
            BY <3>1, <3>2 DEF OneStake, Stake, CommonStake
    <2>2. ASSUME NEW m \in Makers, CreateProposal(m)
          PROVE  \E p \in Proposals : E!Open(p)
        <3> DEFINE new == <<m, proposalCount[m]>>
        <3>1. /\ new \notin proposals /\ proposals' = proposals \cup {new}
              /\ UNCHANGED <<isPoolLaunched, isRejected, backersOf,
                              vaultAuthority>>
              /\ m \in Makers /\ proposalCount[m] \in 0 .. MaxProposals - 1
            BY <2>0, <2>2, BoundsAssumption
            DEF CreateProposal, launchVars, backingVars, TypeOK
        <3>2. new \in Proposals
            BY <3>1 DEF Proposals
        <3> HIDE DEF new
        <3>3. /\ phaseNow[new] = "none"
              /\ phaseNow' = [phaseNow EXCEPT ![new] = "open"]
              /\ heldNow' = heldNow
            BY <2>0, <3>1, <3>2 DEF PhaseOf, HeldFor
        <3>4. E!Open(new)
            BY <3>1, <3>3 DEF E!Open, E!Move
        <3> QED
            BY <3>2, <3>4
    <2>3. ASSUME NEW p \in Proposals, NEW b \in Backers, DepositSol(p, b)
          PROVE  E!Pay(p, b)
        <3>1. /\ p \in proposals /\ b \notin backersOf[p]
              /\ p \notin isPoolLaunched /\ p \notin isRejected
              /\ backersOf' = [backersOf EXCEPT ![p] = @ \cup {b}]
              /\ vaultAuthority' = vaultAuthority + CommonStake
              /\ UNCHANGED <<proposals, isPoolLaunched, isRejected>>
            BY <2>1, <2>3
            DEF DepositSol, NewBacker, BackingOpen, Stake, launchVars,
                makerVars
        <3>2. /\ phaseNow[p] = "open" /\ phaseNow' = phaseNow
              /\ b \notin heldNow[p]
              /\ heldNow' = [heldNow EXCEPT ![p] = @ \cup {b}]
            BY <2>0, <3>1 DEF PhaseOf, HeldFor
        <3> QED
            BY <3>1, <3>2 DEF E!Pay
    <2>4. ASSUME NEW p \in Proposals, NEW b \in Backers, Refund(p, b)
          PROVE  E!Return(p, b)
        <3>1. /\ b \in backersOf[p]
              /\ p \notin isPoolLaunched /\ p \in isRejected
              /\ backersOf' = [backersOf EXCEPT ![p] = @ \ {b}]
              /\ vaultAuthority' = vaultAuthority - CommonStake
              /\ UNCHANGED <<proposals, isPoolLaunched, isRejected>>
            BY <2>0, <2>1, <2>4
            DEF Refund, RefundedAmount, Stake, launchVars, makerVars
        <3>2. /\ phaseNow[p] = "rejected" /\ phaseNow' = phaseNow
              /\ b \in heldNow[p]
              /\ heldNow' = [heldNow EXCEPT ![p] = @ \ {b}]
            BY <2>0, <3>1 DEF PhaseOf, HeldFor
        <3> QED
            BY <3>1, <3>2 DEF E!Return
    <2>5. ASSUME NEW p \in Proposals, RejectProposal(p)
          PROVE  E!Reject(p)
        <3>1. /\ p \in proposals
              /\ p \notin isPoolLaunched /\ p \notin isRejected
              /\ isRejected' = isRejected \cup {p}
              /\ UNCHANGED <<proposals, isPoolLaunched, backersOf,
                              vaultAuthority>>
            BY <2>5 DEF RejectProposal, Undecided, launchVars, makerVars,
                        backingVars
        <3>2. /\ phaseNow[p] = "open"
              /\ phaseNow' = [phaseNow EXCEPT ![p] = "rejected"]
              /\ heldNow' = heldNow
            BY <2>0, <3>1 DEF PhaseOf, HeldFor
        <3> QED
            BY <3>1, <3>2 DEF E!Reject, E!Move
    <2>6. ASSUME NEW p \in Proposals,
                 NEW left \in [base : Leftovers, quote : Leftovers],
                 CreatePool(p, left)
          PROVE  E!Launch(p)
        <3>1. /\ p \in proposals
              /\ p \notin isPoolLaunched /\ p \notin isRejected
              /\ isPoolLaunched' = isPoolLaunched \cup {p}
              /\ UNCHANGED <<proposals, isRejected, backersOf>>
            BY <2>6 DEF CreatePool, Launchable, makerVars, backingVars
        <3>2. vaultAuthority' = vaultAuthority
                  - (CommonStake * Cardinality(backersOf[p]) + PoolRent)
            BY <2>1, <2>6
            DEF CreatePool, LaunchCost, EscrowInv, BackingMatches
        <3>3. /\ phaseNow[p] = "open"
              /\ phaseNow' = [phaseNow EXCEPT ![p] = "launched"]
              /\ heldNow[p] = backersOf[p]
              /\ heldNow' = [heldNow EXCEPT ![p] = {}]
            BY <2>0, <3>1 DEF PhaseOf, HeldFor
        <3>4. E!Cardinality(heldNow[p]) = Cardinality(backersOf[p])
            <4>1. E!Cardinality(backersOf[p]) = Cardinality(backersOf[p])
                BY DEF E!Cardinality, Cardinality
            <4> QED
                BY <3>3, <4>1
        <3> QED
            BY <3>2, <3>3, <3>4 DEF E!Launch, E!Move
    <2>7. CASE UNCHANGED <<proposals, isPoolLaunched, isRejected, backersOf,
                           vaultAuthority>>
        BY <2>7 DEF E!escrowVars, PhaseOf, HeldFor
    <2> QED
        BY <2>2, <2>3, <2>4, <2>5, <2>6, <2>7, EscrowSteps DEF E!Next
<1> QED
    BY RoundInvariant, BackingIsExact, <1>1, <1>2, PTL
    DEF EscrowInv, OperatingSpec, EscrowSpec, E!Spec
-----------------------------------------------------------------------------
(* A claim exists only on a launched proposal.                             *)
NoClaimsBefore ==
    \A p \in Proposals \ isPoolLaunched : \A b \in Backers :
        claimAmount[p][b] = 0

LEMMA NoClaimsBeforeNext ==
    TypeInv /\ NoClaimsBefore /\ [OperatingNext]_vars => NoClaimsBefore'
<1> SUFFICES ASSUME TypeInv, NoClaimsBefore, [OperatingNext]_vars
             PROVE  NoClaimsBefore'
    OBVIOUS
<1>0. claimAmount \in [Proposals -> [Backers -> Nat]]
    BY DEF TypeInv, TypeOK
<1> USE DEF NoClaimsBefore
<1>1. ASSUME NEW p \in Proposals, NEW b \in Backers, Refund(p, b)
      PROVE  NoClaimsBefore'
    BY <1>0, <1>1 DEF Refund, launchVars
<1>2. ASSUME NEW p \in Proposals, NEW b \in Backers, SnapshotBacker(p, b)
      PROVE  NoClaimsBefore'
    BY <1>0, <1>2 DEF SnapshotBacker, launchVars
<1>3. ASSUME NEW p \in Proposals, NEW b \in Backers,
             NEW m \in Mints \cup {Wsol},
             ClaimMilestoneReward(p, b, m)
      PROVE  NoClaimsBefore'
    BY <1>0, <1>3 DEF ClaimMilestoneReward, launchVars
<1>4. CASE UNCHANGED claimAmount /\ isPoolLaunched \subseteq isPoolLaunched'
    BY <1>4
<1> QED
    BY <1>1, <1>2, <1>3, <1>4
    DEF OperatingNext, FundingNext, LaunchNext, MilestoneNext, Tick,
        SetConfig, MintSoulboundToUser, CreateProposal, DepositSol,
        RejectProposal, CreatePool, TopUpWsol, Airdrop, InitialiseMilestone,
        EndMilestone, Trade, OpenAccount, CloseAccount, vars, rewardVars,
        launchVars

(* A share per settled and unclaimed cycle, as a difference.               *)
LEMMA PendingIsDifference ==
    ASSUME TypeOK, CycleOrder, NEW p \in Proposals, NEW b \in Backers
    PROVE  /\ PendingClaim(p, b) = settleCycle[p][b] - claimedUpto[p][b]
           /\ PendingClaim(p, b) \in Nat
BY DEF TypeOK, CycleOrder, PendingClaim

(* The share of a launched proposal is a natural number, and stays.        *)
LEMMA ShareStays ==
    ASSUME OneAirdrop, RoundInv, [OperatingNext]_vars,
           NEW p \in isPoolLaunched, backersOf[p] # {}
    PROVE  PerBacker(p) \in Nat /\ PerBacker(p)' = PerBacker(p)
<1>0. /\ TypeOK /\ p \in Proposals /\ p \notin isRejected
      /\ totalBackers[p] = Cardinality(backersOf[p])
    BY DEF RoundInv, LedgerInv, TypeInv, TypeOK, OneDecision, BackersCounted
<1>1. totalBackers[p] > 0
    <2>1. /\ Cardinality(backersOf[p]) \in Nat
          /\ Cardinality(backersOf[p]) # 0
        BY <1>0, BackersFinite, FS_EmptySet
    <2> QED
        BY <1>0, <2>1
<1>2. PerBacker(p) \in Nat
    BY <1>0, <1>1, PerBackerNat
<1>3. totalBackers'[p] = totalBackers[p]
    <2>1. ASSUME NEW q \in Proposals, NEW b \in Backers, DepositSol(q, b)
          PROVE  totalBackers'[p] = totalBackers[p]
        <3>1. p # q /\ totalBackers' =
                            [totalBackers EXCEPT ![q] = @ + 1]
            BY <2>1 DEF DepositSol, BackingOpen
        <3> QED
            BY <1>0, <3>1 DEF TypeOK
    <2>2. CASE UNCHANGED totalBackers
        BY <2>2
    <2> QED
        BY <2>1, <2>2
        DEF OperatingNext, FundingNext, LaunchNext, MilestoneNext, Tick,
            SetConfig, MintSoulboundToUser, CreateProposal, RejectProposal,
            Refund, CreatePool, TopUpWsol, Airdrop, InitialiseMilestone,
            SnapshotBacker, EndMilestone, ClaimMilestoneReward, Trade,
            OpenAccount, CloseAccount, vars, backingVars
<1>4. config'.totalAirdropAmountPerMilestone
          = config.totalAirdropAmountPerMilestone
    <2>1. ASSUME NEW c \in ConfigChoices, SetConfig(c)
          PROVE  config'.totalAirdropAmountPerMilestone
                     = config.totalAirdropAmountPerMilestone
        BY <1>0, <2>1 DEF SetConfig, OneAirdrop, TypeOK
    <2>2. CASE UNCHANGED config
        BY <2>2
    <2> QED
        BY <2>1, <2>2
        DEF OperatingNext, FundingNext, LaunchNext, MilestoneNext, Tick,
            MintSoulboundToUser, CreateProposal, DepositSol, RejectProposal,
            Refund, CreatePool, TopUpWsol, Airdrop, InitialiseMilestone,
            SnapshotBacker, EndMilestone, ClaimMilestoneReward, Trade,
            OpenAccount, CloseAccount, vars, environment
<1> QED
    BY <1>2, <1>3, <1>4 DEF PerBacker

(* A snapshot adds at most a share and at least one settled cycle; a claim *)
(* takes the amount and the cycles to zero together.                       *)
LEMMA PendingCreditNext ==
    ASSUME OneAirdrop
    PROVE  RoundInv /\ NoClaimsBefore /\ PendingCreditCoversClaims
                    /\ [OperatingNext]_vars
               => PendingCreditCoversClaims'
<1> SUFFICES ASSUME RoundInv, NoClaimsBefore, PendingCreditCoversClaims,
                    [OperatingNext]_vars,
                    NEW q \in isPoolLaunched', NEW c \in backersOf'[q]
             PROVE  (claimAmount[q][c] <= PerBacker(q) * PendingClaim(q, c))'
    BY DEF PendingCreditCoversClaims
<1>0. /\ TypeOK /\ CycleOrder /\ TypeOK' /\ CycleOrder' /\ RoundInv'
      /\ q \in Proposals /\ c \in Backers
    <2>1. RoundInv'
        BY RoundInvNext
    <2> QED
        BY <2>1 DEF RoundInv, LedgerInv, TypeInv, TypeOK
<1>t. /\ claimAmount \in [Proposals -> [Backers -> Nat]]
      /\ settleCycle \in [Proposals -> [Backers -> Nat]]
      /\ claimedUpto \in [Proposals -> [Backers -> Nat]]
      /\ claimAmount'[q][c] \in Nat
      /\ settleCycle[q][c] \in Nat /\ claimedUpto[q][c] \in Nat
      /\ settleCycle'[q][c] \in Nat /\ claimedUpto'[q][c] \in Nat
      /\ claimedUpto'[q][c] <= settleCycle'[q][c]
      /\ claimedUpto[q][c] <= settleCycle[q][c]
    BY <1>0 DEF TypeOK, CycleOrder
<1> DEFINE pend == settleCycle[q][c] - claimedUpto[q][c]
<1>p. /\ PendingClaim(q, c) = pend /\ pend \in Nat
      /\ PendingClaim(q, c)' = pend' /\ pend' \in Nat
    BY <1>t DEF PendingClaim
<1>1. CASE q \notin isPoolLaunched
    <2>1. \E left \in [base : Leftovers, quote : Leftovers] :
              CreatePool(q, left)
        <3>1. ASSUME NEW p \in Proposals, p # q,
                     NEW left \in [base : Leftovers, quote : Leftovers],
                     CreatePool(p, left)
              PROVE  FALSE
            BY <1>1, <3>1 DEF CreatePool
        <3>2. isPoolLaunched' # isPoolLaunched
            BY <1>1
        <3> QED
            BY <3>1, <3>2, EscrowSteps
            DEF CreateProposal, DepositSol, Refund, RejectProposal,
                launchVars
    <2>2. claimAmount'[q][c] = 0
        BY <1>0, <1>1, <2>1 DEF CreatePool, NoClaimsBefore, rewardVars
    <2>3. PerBacker(q)' \in Nat
        <3>1. /\ q \notin isRejected'
              /\ totalBackers'[q] = Cardinality(backersOf'[q])
            BY <1>0 DEF RoundInv, LedgerInv, OneDecision, BackersCounted
        <3>2. backersOf'[q] \in SUBSET Backers
            BY <1>0 DEF TypeOK
        <3>3. IsFiniteSet(backersOf'[q])
            BY <3>2, WalletsAssumption, FS_Subset
        <3>4. /\ Cardinality(backersOf'[q]) \in Nat
              /\ Cardinality(backersOf'[q]) # 0
            BY <3>3, FS_CardinalityType, FS_EmptySet
        <3>5. config'.totalAirdropAmountPerMilestone \in Nat
            BY <1>0, AmountsAssumption DEF TypeOK, Configs
        <3> QED
            BY <3>1, <3>4, <3>5, SharesWithinTotal DEF PerBacker
    <2>4. PerBacker(q)' * pend' \in Nat
        BY <1>p, <2>3
    <2> QED
        BY <1>p, <2>2, <2>4
<1>2. CASE q \in isPoolLaunched
    <2>1. c \in backersOf[q]
        <3>1. \A p \in Proposals, b \in Backers :
                  DepositSol(p, b) => p # q
            BY <1>2 DEF DepositSol, BackingOpen
        <3>2. backersOf \in [Proposals -> SUBSET Backers]
            BY <1>0 DEF TypeOK
        <3>3. ASSUME NEW p \in Proposals, NEW b \in Backers,
                     DepositSol(p, b) \/ Refund(p, b)
              PROVE  c \in backersOf[q]
            BY <1>0, <3>1, <3>2, <3>3 DEF DepositSol, Refund
        <3>4. CASE UNCHANGED backersOf
            BY <3>4
        <3> QED
            BY <3>3, <3>4, RoundSteps
            DEF CreateProposal, SnapshotBacker, InitialiseMilestone,
                EndMilestone, backingVars
    <2> DEFINE per == PerBacker(q)
    <2>2. per \in Nat /\ per' = per
        BY <1>2, <2>1, ShareStays
    <2>3. claimAmount[q][c] <= per * pend
        BY <1>2, <1>p, <2>1 DEF PendingCreditCoversClaims
    <2> HIDE DEF per
    <2>4. CASE /\ claimAmount'[q][c] = claimAmount[q][c]
               /\ pend' = pend
        BY <1>p, <2>2, <2>3, <2>4 DEF per
    <2>5. CASE SnapshotBacker(q, c)
        <3>1. SnapshotUnits(q, c) \in 0 .. per
            BY <2>2, AllocationWithinShare DEF SnapshotUnits, per
        <3>2. claimAmount'[q][c] = claimAmount[q][c] + SnapshotUnits(q, c)
            BY <1>0, <1>t, <2>5 DEF SnapshotBacker
        <3>3. pend' >= pend + 1
            <4>1. /\ settleCycle' = [settleCycle EXCEPT ![q][c] =
                                         currentAirdropCycle[q]]
                  /\ claimedUpto' = claimedUpto
                  /\ currentAirdropCycle[q] > settleCycle[q][c]
                  /\ currentAirdropCycle[q] \in Nat
                BY <1>0, <2>5 DEF SnapshotBacker, Unsettled, TypeOK
            <4> QED
                BY <1>0, <1>t, <4>1
        <3> HIDE DEF pend
        <3>4. per * (pend + 1) = per * pend + per
            <4>1. pend \in Nat /\ per \in Nat
                BY <1>p, <2>2
            <4> QED
                BY <4>1
        <3>5. per * (pend + 1) <= per * pend'
            <4>1. /\ pend + 1 \in Nat /\ pend' \in Nat /\ per \in Nat
                  /\ pend + 1 <= pend'
                BY <1>p, <2>2, <3>3
            <4> QED
                BY <4>1, ProductMonotone
        <3>6. per * pend \in Nat /\ per * pend' \in Nat
            <4>1. pend \in Nat /\ pend' \in Nat /\ per \in Nat
                BY <1>p, <2>2
            <4>2. \A i, j \in Nat : i * j \in Nat
                OBVIOUS
            <4> QED
                BY <4>1, <4>2
        <3>c. claimAmount[q][c] \in Nat
            BY <1>0, <1>t
        <3>7. claimAmount'[q][c] <= per * pend'
            BY <2>2, <2>3, <3>1, <3>2, <3>4, <3>5, <3>6, <3>c
        <3> QED
            BY <1>p, <2>2, <3>7 DEF per
    <2>6. ASSUME NEW m \in Mints \cup {Wsol}, ClaimMilestoneReward(q, c, m)
          PROVE  (claimAmount[q][c] <= PerBacker(q) * PendingClaim(q, c))'
        <3>1. claimAmount'[q][c] = 0
            BY <1>0, <1>t, <2>6 DEF ClaimMilestoneReward
        <3>2. per * pend' \in Nat
            BY <1>p, <2>2
        <3> QED
            BY <1>p, <2>2, <3>1, <3>2 DEF per
    <2>7. ASSUME NEW p \in Proposals, NEW b \in Backers, Refund(p, b)
          PROVE  /\ claimAmount'[q][c] = claimAmount[q][c]
                 /\ pend' = pend
        <3>1. p # q
            BY <1>2, <2>7 DEF Refund, RoundInv, LedgerInv, OneDecision
        <3> QED
            BY <1>0, <1>t, <2>7, <3>1 DEF Refund
    <2>8. ASSUME NEW p \in Proposals, NEW b \in Backers, DepositSol(p, b)
          PROVE  /\ claimAmount'[q][c] = claimAmount[q][c]
                 /\ pend' = pend
        <3>1. p # q
            BY <1>2, <2>8 DEF DepositSol, BackingOpen
        <3> QED
            BY <1>0, <1>t, <2>8, <3>1 DEF DepositSol
    <2>9. ASSUME NEW p \in Proposals, NEW b \in Backers,
                 SnapshotBacker(p, b), p # q \/ b # c
          PROVE  /\ claimAmount'[q][c] = claimAmount[q][c]
                 /\ pend' = pend
        BY <1>0, <1>t, <2>9 DEF SnapshotBacker
    <2>10. ASSUME NEW p \in Proposals, NEW b \in Backers,
                  NEW m \in Mints \cup {Wsol},
                  ClaimMilestoneReward(p, b, m), p # q \/ b # c
           PROVE  /\ claimAmount'[q][c] = claimAmount[q][c]
                  /\ pend' = pend
        BY <1>0, <1>t, <2>10 DEF ClaimMilestoneReward
    <2>11. CASE UNCHANGED rewardVars
        BY <2>4, <2>11 DEF rewardVars
    <2> HIDE DEF pend
    <2> QED
        BY <2>4, <2>5, <2>6, <2>7, <2>8, <2>9, <2>10, <2>11
        DEF OperatingNext, FundingNext, LaunchNext, MilestoneNext, Tick,
            SetConfig, MintSoulboundToUser, CreateProposal, RejectProposal,
            CreatePool, TopUpWsol, Airdrop, InitialiseMilestone,
            EndMilestone, Trade, OpenAccount, CloseAccount, vars
<1> QED
    BY <1>1, <1>2

(* Not claiming never lowers a tier: what a snapshot credits a backer with *)
(* for pending claims is at least what the backer could have claimed.      *)
THEOREM CreditCoversClaims ==
    ASSUME OneAirdrop
    PROVE  OperatingSpec => []PendingCreditCoversClaims
<1>1. Init => NoClaimsBefore /\ PendingCreditCoversClaims
    BY DEF Init, NoClaimsBefore, PendingCreditCoversClaims
<1>2. RoundInv => TypeInv
    BY DEF RoundInv, LedgerInv
<1> QED
    BY RoundInvariant, <1>1, <1>2, NoClaimsBeforeNext, PendingCreditNext,
       PTL DEF OperatingSpec
=============================================================================
