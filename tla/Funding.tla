------------------------------ MODULE Funding ------------------------------
(***************************************************************************)
(* Memberships, proposals, deposits, rejection and refunds.  The lamports  *)
(* of all proposals are pooled in one account, the vault authority.        *)
(***************************************************************************)
EXTENDS LaunchpadState

(* set_config overwrites the only configuration account.                   *)
SetConfig(c) ==
    /\ config' = c
    /\ UNCHANGED <<members, now, makerVars, backingVars, launchVars,
                   milestoneVars, rewardVars, tokenVars, isRejected,
                   initialAirdropReceived, activeCount, vaultAuthority,
                   wsolVault, treasury>>

(* mint_soulbound_to_user mints one token to a wallet that has none and    *)
(* freezes the account, so a member stays one.                             *)
MintSoulboundToUser(u) ==
    /\ u \notin members
    /\ members' = members \cup {u}
    /\ UNCHANGED <<config, now, makerVars, backingVars, launchVars,
                   milestoneVars, rewardVars, tokenVars, isRejected,
                   initialAirdropReceived, activeCount, vaultAuthority,
                   wsolVault, treasury>>

(* create_proposal.  The proposal's address is derived from the maker and  *)
(* its proposal count, and `init` fails on an account that exists.  All    *)
(* other fields start as zero, as Init has them; the new mint belongs to   *)
(* the proposal.                                                           *)
CreateProposal(m) ==
    LET p == <<m, proposalCount[m]>>
    IN  /\ m \in members
        /\ proposalCount[m] < MaxProposals
        /\ p \notin proposals
        /\ proposals' = proposals \cup {p}
        /\ proposalCount' = [proposalCount EXCEPT ![m] = @ + 1]
        /\ timeStarted' = [timeStarted EXCEPT ![p] = now]
        /\ currentAirdropCycle' = [currentAirdropCycle EXCEPT ![p] = 1]
        /\ mintable' = mintable \cup {<<p, mintAccount[p]>>}
        /\ UNCHANGED <<environment, backingVars, launchVars, milestoneActive,
                       milestoneUnitsAssigned, milestoneBackersWeighted,
                       milestoneReputationSum, rewardVars, metadata, supply,
                       tokenVault, holding, accounts, isRejected,
                       initialAirdropReceived, activeCount, vaultAuthority,
                       wsolVault, treasury>>

(* p still takes deposits: inclusive of the last moment of the period.     *)
BackingOpen(p) ==
    /\ now - timeStarted[p] <= BackingPeriod
    /\ p \notin isRejected
    /\ p \notin isPoolLaunched
    /\ totalBackers[p] < MaximumBackers

(* b has room for one more proposal.  (Variant: the limit is off by one.)  *)
SlotFreeOrLast(b) == activeCount[b] <= config.maxBackedProposals

SlotFree(b) == activeCount[b] < config.maxBackedProposals

(* b has no Backers account on p: `init` fails on one that exists.         *)
(* (Variant: `init_if_needed`.)                                            *)
NewOrOldBacker(p, b) == TRUE

NewBacker(p, b) == b \notin backersOf[p]

(* What a deposit adds to total_backing: all of it.  (Variant: net of the  *)
(* fee a refund withholds.)                                                *)
NetBacking(amount) == amount - RefundFee(amount, config.refundFeeBasisPoints)

CreditedBacking(amount) == amount

(* deposit_sol.                                                            *)
DepositSol(p, b) ==
    LET amount == config.amountToRaisePerUser
    IN  /\ p \in proposals
        /\ b \in members
        /\ NewBacker(p, b)
        /\ b # Maker(p)
        /\ BackingOpen(p)
        /\ SlotFree(b)
        /\ RentOk(vaultAuthority + amount)
        /\ vaultAuthority' = vaultAuthority + amount
        /\ backersOf' = [backersOf EXCEPT ![p] = @ \cup {b}]
        /\ depositAmount' = [depositAmount EXCEPT ![p][b] = amount]
        /\ totalBacking' =
               [totalBacking EXCEPT ![p] = @ + CreditedBacking(amount)]
        /\ totalBackers' = [totalBackers EXCEPT ![p] = @ + 1]
        /\ initialAirdropReceived' =
               [initialAirdropReceived EXCEPT ![p] = @ \ {b}]
        /\ settleCycle' = [settleCycle EXCEPT ![p][b] = 0]
        /\ activeCount' = [activeCount EXCEPT ![b] = @ + 1]
        /\ UNCHANGED <<environment, makerVars, launchVars, milestoneVars,
                       claimAmount, claimedUpto, tokenVars, isRejected,
                       wsolVault, treasury>>

(* p may be rejected.  (Variant: a launched proposal too.)                 *)
UndecidedOrLaunched(p) == p \notin isRejected

Undecided(p) == p \notin isPoolLaunched /\ p \notin isRejected

(* reject_proposal, by the chain service.                                  *)
RejectProposal(p) ==
    /\ p \in proposals
    /\ Undecided(p)
    /\ isRejected' = isRejected \cup {p}
    /\ UNCHANGED <<environment, makerVars, backingVars, launchVars,
                   milestoneVars, rewardVars, tokenVars,
                   initialAirdropReceived, activeCount, vaultAuthority,
                   wsolVault, treasury>>

(* What a refund pays: today's configured amount, not the recorded         *)
(* deposit.  (Variant: what is left after the fee.)                        *)
RefundedNet(p, b) ==
    config.amountToRaisePerUser
        - RefundFee(config.amountToRaisePerUser, config.refundFeeBasisPoints)

RefundedAmount(p, b) == config.amountToRaisePerUser

(* refund.  Anyone may submit it for any backer; the fee goes to the       *)
(* treasury and the Backers account is closed, so its fields are gone.     *)
(* total_backers is not touched.                                           *)
Refund(p, b) ==
    LET amount == RefundedAmount(p, b)
        fee    == RefundFee(amount, config.refundFeeBasisPoints)
    IN  /\ p \in isRejected
        /\ b \in backersOf[p]
        /\ vaultAuthority >= amount
        /\ RentOk(vaultAuthority - amount)
        /\ totalBacking[p] >= amount
        /\ vaultAuthority' = vaultAuthority - amount
        /\ treasury' = treasury + fee
        /\ totalBacking' = [totalBacking EXCEPT ![p] = @ - amount]
        /\ activeCount' = [activeCount EXCEPT ![b] = ReleaseSlot(@)]
        /\ backersOf' = [backersOf EXCEPT ![p] = @ \ {b}]
        /\ depositAmount' = [depositAmount EXCEPT ![p][b] = 0]
        /\ initialAirdropReceived' =
               [initialAirdropReceived EXCEPT ![p] = @ \ {b}]
        /\ claimAmount' = [claimAmount EXCEPT ![p][b] = 0]
        /\ settleCycle' = [settleCycle EXCEPT ![p][b] = 0]
        /\ claimedUpto' = [claimedUpto EXCEPT ![p][b] = 0]
        /\ UNCHANGED <<environment, makerVars, launchVars, milestoneVars,
                       tokenVars, isRejected, totalBackers, wsolVault>>
=============================================================================
