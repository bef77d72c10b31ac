----------------------------- MODULE Launchpad -----------------------------
(***************************************************************************)
(* The whole program: its instructions composed, in any order their guards *)
(* allow, by any of the parties; and what must hold of the ledger.         *)
(*                                                                         *)
(* OperatingSpec leaves out the two repair tools of the chain service,     *)
(* reset_pool_launch and reset_airdrop; Spec has every instruction.        *)
(***************************************************************************)
EXTENDS Funding, PoolLaunch, Milestones

Tick ==
    /\ now < MaxTime
    /\ now' = now + 1
    /\ UNCHANGED <<config, members, makerVars, backingVars, launchVars,
                   milestoneVars, rewardVars, tokenVars, isRejected,
                   initialAirdropReceived, activeCount, vaultAuthority,
                   wsolVault, treasury>>

FundingNext ==
    \/ \E c \in ConfigChoices : SetConfig(c)
    \/ \E u \in Users : MintSoulboundToUser(u)
    \/ \E m \in Makers : CreateProposal(m)
    \/ \E p \in Proposals, b \in Backers : DepositSol(p, b)
    \/ \E p \in Proposals : RejectProposal(p)
    \/ \E p \in Proposals, b \in Backers : Refund(p, b)

LaunchNext ==
    \/ \E p \in Proposals, left \in [base : Leftovers, quote : Leftovers] :
           CreatePool(p, left)
    \/ \E n \in TopUps : TopUpWsol(n)

MilestoneNext ==
    \/ \E p \in Proposals, b \in Backers, m \in Mints \cup {Wsol} :
           Airdrop(p, b, m)
    \/ \E p \in Proposals : InitialiseMilestone(p)
    \/ \E p \in Proposals, b \in Backers : SnapshotBacker(p, b)
    \/ \E p \in Proposals : EndMilestone(p)
    \/ \E p \in Proposals, b \in Backers, m \in Mints \cup {Wsol} :
           ClaimMilestoneReward(p, b, m)
    \/ \E m \in Mints, u, v \in Wallets, n \in TradeSizes : Trade(m, u, v, n)
    \/ \E m \in Mints, w \in Keepers : OpenAccount(m, w) \/ CloseAccount(m, w)

RepairNext ==
    \/ \E p \in Proposals : ResetPoolLaunch(p)
    \/ \E p \in Proposals, b \in Backers : ResetAirdrop(p, b)

OperatingNext == Tick \/ FundingNext \/ LaunchNext \/ MilestoneNext

Next == OperatingNext \/ RepairNext

OperatingSpec == Init /\ [][OperatingNext]_vars

Spec == Init /\ [][Next]_vars

(* The refund instruction asks for no signature of the backer, so a crank  *)
(* that keeps submitting it is enough for each one to go through when it   *)
(* can.                                                                    *)
RefundFairness == \A p \in Proposals, b \in Backers : WF_vars(Refund(p, b))

(* The chain service keeps taking snapshots and ends the milestones it     *)
(* started.                                                                *)
MilestoneFairness ==
    \A p \in Proposals :
        /\ \A b \in Backers : WF_vars(SnapshotBacker(p, b))
        /\ WF_vars(EndMilestone(p))

FairOperatingSpec == OperatingSpec /\ RefundFairness /\ MilestoneFairness

FairSpec == Spec /\ RefundFairness /\ MilestoneFairness

-----------------------------------------------------------------------------
(* Accounts still counted against a backer's limit.                        *)
OpenBackings(b) ==
    {p \in Proposals : b \in backersOf[p] \ initialAirdropReceived[p]}

(* The backers of p a snapshot has settled in the current cycle.           *)
SettledBackers(p) ==
    {b \in backersOf[p] : settleCycle[p][b] = currentAirdropCycle[p]}

(* Deposits that are in the vault authority: those of a proposal without a *)
(* pool.                                                                   *)
Escrowed ==
    {e \in Proposals \X Backers :
        e[1] \notin isPoolLaunched /\ e[2] \in backersOf[e[1]]}

(* The counter a launch, the shares and end_milestone rely on is the       *)
(* number of Backers accounts, whatever deposits, resets and relaunches    *)
(* came before.  Refunds do not decrement it, but only happen once the     *)
(* proposal is rejected, from where no instruction reads it for a launch.  *)
BackersCounted ==
    \A p \in Proposals : p \notin isRejected =>
        totalBackers[p] = Cardinality(backersOf[p])

(* A proposal that has paid into a pool is never also open to refunds, and *)
(* a rejected one is never launched (again), even when a pool launch was   *)
(* reset in between.                                                       *)
OneDecision == isPoolLaunched \cap isRejected = {}

(* Without repair tools the per-backer counter of open backings, kept by   *)
(* deposit, refund and airdrop on an account of its own, is exact.         *)
SlotsExact ==
    \A b \in Backers : activeCount[b] = Cardinality(OpenBackings(b))

(* With them it may be too low but never too high: nobody is kept from     *)
(* backing because of proposals that are over.                             *)
SlotsNeverOvercounted ==
    \A b \in Backers : activeCount[b] <= Cardinality(OpenBackings(b))

(* ix_back_token.rs:103 "Check if backer has reached max backed            *)
(* proposals": no backer ever backs more proposals that wait for their     *)
(* launch than the limit.                                                  *)
OpenWithinLimit ==
    \A b \in Backers :
        Cardinality({p \in Proposals \ isPoolLaunched : b \in backersOf[p]})
            <= config.maxBackedProposals

(* A proposal that can be launched can also be minted for: the authority   *)
(* that a milestone gives up is never needed again, as a reset comes with  *)
(* a new mint.                                                             *)
LaunchableIsMintable ==
    \A p \in proposals \ isPoolLaunched : CurrentMint(p) \in mintable

(* A claim or snapshot never runs ahead of the cycle: what was claimed was *)
(* settled, and what was settled belongs to a cycle that has begun.        *)
CycleOrder ==
    \A p \in Proposals, b \in Backers :
        claimedUpto[p][b] <= settleCycle[p][b]
        /\ settleCycle[p][b] <= currentAirdropCycle[p]

(* Reputation never exceeds 100 per counted backer, so the burn of         *)
(* end_milestone never saturates at zero by accident.                      *)
ReputationBounded ==
    \A p \in Proposals :
        milestoneReputationSum[p]
            <= FullReputation * milestoneBackersWeighted[p]

(* While a milestone runs, the counter end_milestone waits on never counts *)
(* more than the backers that are settled in this cycle ...                *)
WeightedAreSettled ==
    \A p \in milestoneActive :
        milestoneBackersWeighted[p] <= Cardinality(SettledBackers(p))

(* ... and without a reset of the launch it counts exactly those: a        *)
(* backer whose snapshot is refused as already updated has been counted.   *)
SettledAreWeighted ==
    \A p \in milestoneActive :
        milestoneBackersWeighted[p] = Cardinality(SettledBackers(p))

(* errors.rs:62 "score of all backer not updated for current milestone":   *)
(* end_milestone is refused with this message only while some backer's     *)
(* snapshot is still to be taken.                                          *)
RefusedOnlyIfUnsettled ==
    \A p \in milestoneActive :
        ~AllWeighted(p) => SettledBackers(p) # backersOf[p]

(* A cycle ends only when every backer was settled in it, so no backer     *)
(* misses the rewards of a cycle, however snapshots, claims, resets and    *)
(* relaunches interleave.                                                  *)
CycleEndsComplete ==
    [][\A p \in Proposals :
          currentAirdropCycle[p] > 0
              /\ currentAirdropCycle'[p] # currentAirdropCycle[p]
          => SettledBackers(p) = backersOf[p]]_vars

(* A claim is never more than a full share per settled and unclaimed       *)
(* cycle, which is what the next snapshot credits the backer with: not     *)
(* claiming never lowers a tier.  (For a configuration that stays.)        *)
PendingCreditCoversClaims ==
    \A p \in isPoolLaunched : \A b \in backersOf[p] :
        claimAmount[p][b] <= PerBacker(p) * PendingClaim(p, b)

(* b still has, or is still owed, all that p ever gave it: the airdrop, a  *)
(* full share for every cycle claimed, and one for every cycle to claim.   *)
Loyal(p, b) ==
    /\ b \in initialAirdropReceived[p]
    /\ holding[CurrentMint(p)][b] >= PerBacker(p) * (claimedUpto[p][b] + 1)
    /\ claimAmount[p][b] >= PerBacker(p) * PendingClaim(p, b)

(* b's tokens of p, those it can claim included, do not become fewer in    *)
(* this step: b sends none away, and has no claim of p paid in another     *)
(* mint, which the program lets it name.                                   *)
KeepsTokens(p, b) ==
    LET m == CurrentMint(p)
    IN  holding'[m][b] + claimAmount'[p][b]
            >= holding[m][b] + claimAmount[p][b]

(* A loyal backer that keeps its tokens stays loyal, and every snapshot    *)
(* grants it a full share: the pending share a snapshot credits and the    *)
(* mark a claim sets keep up with the holding that is expected, however    *)
(* late the backer claims, and whichever vaults other calls make pay.      *)
(* (For a configuration that stays.)                                       *)
LoyaltyPays ==
    [][\A p \in isPoolLaunched : \A b \in backersOf[p] :
          Loyal(p, b) /\ KeepsTokens(p, b) =>
              /\ Loyal(p, b)'
              /\ settleCycle'[p][b] # settleCycle[p][b] =>
                     claimAmount'[p][b] = claimAmount[p][b] + PerBacker(p)]_vars

(* ix_refund.rs:59 "Calculate what was actually deposited (amount minus    *)
(* the fee that was deducted)": closing a backer's account takes exactly   *)
(* its recorded deposit out of the vault; the fee is a part of that which  *)
(* goes to the treasury.                                                   *)
RefundReturnsDeposit ==
    [][\A p \in Proposals : \A b \in backersOf[p] \ backersOf'[p] :
          vaultAuthority - vaultAuthority' = depositAmount[p][b]]_vars

(* The lamports of all proposals are in one account; with one amount per   *)
(* backer it holds what it started with, one deposit per backer of every   *)
(* proposal without a pool, and lacks the rent of every pool created.      *)
Stake == config.amountToRaisePerUser

VaultAccounting ==
    vaultAuthority = Float + Stake * Cardinality(Escrowed)
                           - PoolRent * Cardinality(isPoolLaunched)

(* total_backing of every proposal, launched, open or partly refunded, is  *)
(* one stake per Backers account.                                          *)
BackingMatches ==
    \A p \in Proposals : totalBacking[p] = Stake * Cardinality(backersOf[p])

(* The vault authority can pay n lamports and stay alive.                  *)
CanPay(n) == vaultAuthority >= n /\ RentOk(vaultAuthority - n)

(* With a float that pays for as many pools as there can be proposals, no  *)
(* launch and no refund is ever refused for lack of lamports, whatever     *)
(* other proposals have spent of the shared account before.                *)
FloatSuffices == Float >= PoolRent * Cardinality(Proposals) + RentExempt

EscrowCovers ==
    FloatSuffices =>
        /\ \A p \in proposals :
               Undecided(p) => CanPay(LaunchCost(p))
        /\ \A p \in isRejected :
               backersOf[p] # {} => CanPay(Stake) /\ totalBacking[p] >= Stake

(* A backer of a rejected proposal is paid back in the end.                *)
RejectedAreRefunded ==
    \A p \in Proposals, b \in Backers :
        p \in isRejected /\ b \in backersOf[p] ~> b \notin backersOf[p]

(* What can keep a running milestone of p from going on: shares rounded    *)
(* down to nothing, when a snapshot divides by zero; a backer to be        *)
(* settled that has no token account for a snapshot to read, because it    *)
(* never got one or closed it; and a vault without the tokens to burn,     *)
(* which airdrops and claims of other proposals may have taken.            *)
Blocked(p) ==
    \/ PerBacker(p) = 0
    \/ \E b \in backersOf[p] : Unsettled(p, b) /\ ~HasAccount(p, b)
    \/ tokenVault[CurrentMint(p)] < MilestoneBurn(p)

(* A milestone that is started ends, unless the cycle counter is at its    *)
(* limit or the milestone is blocked; and when what blocks it is gone, it  *)
(* ends or is blocked anew.                                                *)
MilestonesEnd ==
    \A p \in Proposals :
        p \in milestoneActive /\ currentAirdropCycle[p] < CycleMax
            ~> p \notin milestoneActive \/ Blocked(p)
=============================================================================
