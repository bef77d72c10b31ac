---------------------------- MODULE Milestones ----------------------------
(***************************************************************************)
(* What happens to a launched token: the initial airdrop, and milestones,  *)
(* in which the chain service takes a snapshot of every backer, one        *)
(* transaction per backer, while the token trades freely; rewards are      *)
(* claimed at any time.                                                    *)
(***************************************************************************)
EXTENDS LaunchpadState

(* b is still due the initial airdrop of p.  (Variant: the flag is not     *)
(* looked at.)                                                             *)
AlwaysDue(p, b) == b \in backersOf[p]

AirdropDue(p, b) == b \in backersOf[p] \ initialAirdropReceived[p]

(* A transfer of whole tokens from the program's vault of mint m to b,     *)
(* whose token account is created if there is none.                        *)
PayTokens(m, b, amount) ==
    /\ m \in MintsWithVault
    /\ tokenVault[m] >= amount
    /\ tokenVault' = [tokenVault EXCEPT ![m] = @ - amount]
    /\ holding' = [holding EXCEPT ![m][b] = @ + amount]
    /\ accounts' = accounts \cup {<<m, b>>}
    /\ UNCHANGED wsolVault

(* The same number of base units of WSOL.  Its vault is one more token     *)
(* vault of the program, and exists since the first launch.                *)
PayWsol(amount) ==
    /\ wsolVault >= amount * BaseUnits
    /\ wsolVault' = wsolVault - amount * BaseUnits
    /\ UNCHANGED <<tokenVault, holding, accounts>>

(* The caller of airdrop and of claim_milestone_reward names the mint.     *)
(* Any with a vault of the program will do: nothing ties it to the         *)
(* proposal.                                                               *)
PayFromVault(m, b, amount) ==
    \/ m # Wsol /\ PayTokens(m, b, amount)
    \/ m = Wsol /\ PayWsol(amount)

(* airdrop, submitted by anyone for any backer.                            *)
Airdrop(p, b, m) ==
    /\ p \in isPoolLaunched
    /\ AirdropDue(p, b)
    /\ totalBackers[p] > 0
    /\ PayFromVault(m, b, PerBacker(p))
    /\ initialAirdropReceived' =
           [initialAirdropReceived EXCEPT ![p] = @ \cup {b}]
    /\ activeCount' = [activeCount EXCEPT ![b] = ReleaseSlot(@)]
    /\ UNCHANGED <<environment, makerVars, backingVars, launchVars,
                   milestoneVars, rewardVars, mintable, metadata, supply,
                   isRejected, vaultAuthority, treasury>>

(* reset_airdrop clears the flag, whatever the state of the proposal, and  *)
(* leaves the backer's active count alone.                                 *)
ResetAirdrop(p, b) ==
    /\ p \in proposals
    /\ b \in backersOf[p]
    /\ initialAirdropReceived' =
           [initialAirdropReceived EXCEPT ![p] = @ \ {b}]
    /\ UNCHANGED <<environment, makerVars, backingVars, launchVars,
                   milestoneVars, rewardVars, tokenVars, isRejected,
                   activeCount, vaultAuthority, wsolVault, treasury>>

(* initialise_milestone: the first one writes the token's metadata, which  *)
(* needs the mint authority, and then gives up mint and freeze authority.  *)
InitialiseMilestone(p) ==
    LET m == CurrentMint(p)
    IN  /\ p \notin isRejected
        /\ p \in isPoolLaunched
        /\ p \notin milestoneActive
        /\ m \in metadata \/ m \in mintable
        /\ metadata' = metadata \cup {m}
        /\ mintable' = mintable \ {m}
        /\ milestoneActive' = milestoneActive \cup {p}
        /\ milestoneBackersWeighted' =
               [milestoneBackersWeighted EXCEPT ![p] = 0]
        /\ milestoneReputationSum' = [milestoneReputationSum EXCEPT ![p] = 0]
        /\ UNCHANGED <<environment, makerVars, backingVars, launchVars,
                       currentAirdropCycle, milestoneUnitsAssigned,
                       rewardVars, supply, tokenVault, holding, accounts,
                       isRejected, initialAirdropReceived, activeCount,
                       vaultAuthority, wsolVault, treasury>>

(* Settled cycles b has not claimed yet (a saturating difference).         *)
PendingClaim(p, b) ==
    IF settleCycle[p][b] > claimedUpto[p][b]
    THEN settleCycle[p][b] - claimedUpto[p][b]
    ELSE 0

(* The reward a snapshot of b grants, and the reputation it adds.          *)
SnapshotUnits(p, b) ==
    LET per    == PerBacker(p)
        actual == ActualHolding(holding[CurrentMint(p)][b], per,
                                PendingClaim(p, b))
        bp     == HoldingBp(actual,
                            ExpectedHolding(per, currentAirdropCycle[p]))
    IN  Allocation(per, TierPct(bp))

SnapshotReputation(p, b) ==
    IF b \in initialAirdropReceived[p]
    THEN Reputation(holding[CurrentMint(p)][b], PerBacker(p))
    ELSE 0

(* b has a token account for the current mint of p.                        *)
HasAccount(p, b) == <<CurrentMint(p), b>> \in accounts

(* b has not been settled in the current cycle of p.  (Variants: once more *)
(* in the same cycle; a cycle late.)                                       *)
UnsettledOrCurrent(p, b) == currentAirdropCycle[p] >= settleCycle[p][b]

UnsettledForTwo(p, b) == currentAirdropCycle[p] > settleCycle[p][b] + 1

Unsettled(p, b) == currentAirdropCycle[p] > settleCycle[p][b]

(* snapshot_backer_amount.  It reads the backer's account for the current  *)
(* mint, which must exist.  With a share of zero tokens the division by    *)
(* the expected holding panics and the transaction fails.                  *)
SnapshotBacker(p, b) ==
    LET units == SnapshotUnits(p, b)
    IN  /\ p \in isPoolLaunched
        /\ p \in milestoneActive
        /\ b \in backersOf[p]
        /\ HasAccount(p, b)
        /\ Unsettled(p, b)
        /\ totalBackers[p] > 0
        /\ ExpectedHolding(PerBacker(p), currentAirdropCycle[p]) > 0
        /\ claimAmount' = [claimAmount EXCEPT ![p][b] = @ + units]
        /\ milestoneUnitsAssigned' =
               [milestoneUnitsAssigned EXCEPT ![p] = @ + units]
        /\ milestoneReputationSum' =
               [milestoneReputationSum EXCEPT
                   ![p] = @ + SnapshotReputation(p, b)]
        /\ settleCycle' = [settleCycle EXCEPT ![p][b] =
                               currentAirdropCycle[p]]
        /\ milestoneBackersWeighted' =
               [milestoneBackersWeighted EXCEPT ![p] = @ + 1]
        /\ UNCHANGED <<environment, makerVars, backingVars, launchVars,
                       currentAirdropCycle, milestoneActive, claimedUpto,
                       tokenVars, isRejected, initialAirdropReceived,
                       activeCount, vaultAuthority, wsolVault, treasury>>

(* Every backer of p has been counted since the milestone started.         *)
(* (Variant: the backers a launch needs are enough.)                       *)
EnoughWeighted(p) == milestoneBackersWeighted[p] >= config.minBackers

AllWeighted(p) == milestoneBackersWeighted[p] = totalBackers[p]

MilestoneBurn(p) ==
    BurnAmount(milestoneBackersWeighted[p], milestoneReputationSum[p])

(* end_milestone burns a token per missing point of reputation and opens   *)
(* the next cycle; the counter is a u8.                                    *)
EndMilestone(p) ==
    LET m    == CurrentMint(p)
        burn == MilestoneBurn(p)
    IN  /\ p \in isPoolLaunched
        /\ p \notin isRejected
        /\ p \in milestoneActive
        /\ AllWeighted(p)
        /\ tokenVault[m] >= burn
        /\ currentAirdropCycle[p] < CycleMax
        /\ tokenVault' = [tokenVault EXCEPT ![m] = @ - burn]
        /\ supply' = [supply EXCEPT ![m] = @ - burn]
        /\ milestoneActive' = milestoneActive \ {p}
        /\ milestoneReputationSum' = [milestoneReputationSum EXCEPT ![p] = 0]
        /\ currentAirdropCycle' = [currentAirdropCycle EXCEPT ![p] = @ + 1]
        /\ UNCHANGED <<environment, makerVars, backingVars, launchVars,
                       milestoneUnitsAssigned, milestoneBackersWeighted,
                       rewardVars, mintable, metadata, holding, accounts,
                       isRejected, initialAirdropReceived, activeCount,
                       vaultAuthority, wsolVault, treasury>>

(* The cycle up to which a claim pays b: the last one b was settled in.    *)
(* (Variant: the current one.)                                             *)
ClaimedNow(p, b) == currentAirdropCycle[p]

ClaimedMark(p, b) == settleCycle[p][b]

(* claim_milestone_reward, signed by the backer.                           *)
ClaimMilestoneReward(p, b, m) ==
    /\ p \in isPoolLaunched
    /\ b \in backersOf[p]
    /\ PayFromVault(m, b, claimAmount[p][b])
    /\ claimAmount' = [claimAmount EXCEPT ![p][b] = 0]
    /\ claimedUpto' = [claimedUpto EXCEPT ![p][b] = ClaimedMark(p, b)]
    /\ UNCHANGED <<environment, makerVars, backingVars, launchVars,
                   milestoneVars, settleCycle, mintable, metadata, supply,
                   isRejected, initialAirdropReceived, activeCount,
                   vaultAuthority, treasury>>

(* A launched token is an ordinary token: n of it move from u to v, who    *)
(* gets an account for it if there is none.                                *)
Trade(m, u, v, n) ==
    /\ u # v
    /\ <<m, u>> \in accounts
    /\ holding[m][u] >= n
    /\ accounts' = accounts \cup {<<m, v>>}
    /\ holding' = [holding EXCEPT ![m][u] = @ - n, ![m][v] = @ + n]
    /\ UNCHANGED <<environment, makerVars, backingVars, launchVars,
                   milestoneVars, rewardVars, mintable, metadata, supply,
                   tokenVault, isRejected, initialAirdropReceived,
                   activeCount, vaultAuthority, wsolVault, treasury>>

(* Token accounts are the wallets' own: anybody may create an empty one,   *)
(* and its owner may close an empty one.                                   *)
OpenAccount(m, w) ==
    /\ m \in MintsWithVault
    /\ <<m, w>> \notin accounts
    /\ accounts' = accounts \cup {<<m, w>>}
    /\ UNCHANGED <<environment, makerVars, backingVars, launchVars,
                   milestoneVars, rewardVars, mintable, metadata, supply,
                   tokenVault, holding, isRejected, initialAirdropReceived,
                   activeCount, vaultAuthority, wsolVault, treasury>>

CloseAccount(m, w) ==
    /\ <<m, w>> \in accounts
    /\ holding[m][w] = 0
    /\ accounts' = accounts \ {<<m, w>>}
    /\ UNCHANGED <<environment, makerVars, backingVars, launchVars,
                   milestoneVars, rewardVars, mintable, metadata, supply,
                   tokenVault, holding, isRejected, initialAirdropReceived,
                   activeCount, vaultAuthority, wsolVault, treasury>>
=============================================================================
