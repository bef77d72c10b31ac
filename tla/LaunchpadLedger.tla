-------------------------- MODULE LaunchpadLedger --------------------------
(***************************************************************************)
(* Properties of the ledger that add up amounts over accounts.             *)
(***************************************************************************)
EXTENDS Launchpad, Functions

(* What p still owes its backers: claims granted and not yet paid.         *)
OutstandingClaims(p) == SumFunctionOnSet(claimAmount[p], backersOf[p])

DepositsOf(p) == SumFunctionOnSet(depositAmount[p], backersOf[p])

(* ix_reset_pool_launch.rs:81 "Check that WSOL vault has enough funds to   *)
(* cover the proposal's total_backing": the vault authority always holds   *)
(* the deposits of the proposals that were never launched.                 *)
UnlaunchedDepositsHeld ==
    LET open == {p \in Proposals \ isPoolLaunched : mintAccount[p] = 0}
    IN  vaultAuthority >=
            SumFunctionOnSet([p \in open |-> DepositsOf(p)], open)

(* Tokens outside the program's vaults, of all mints together.             *)
Circulating ==
    SumFunctionOnSet([m \in Mints |-> supply[m] - tokenVault[m]], Mints)

(* What the launch of p and all that followed may have put there: the      *)
(* maker's share, the pool, one share per initial airdrop, and the rewards *)
(* assigned except those still to be claimed.                              *)
Entitled(p) ==
    config.makerTokenAmount + config.totalPoolTokens
    + PerBacker(p) * Cardinality(initialAirdropReceived[p])
    + milestoneUnitsAssigned[p] - OutstandingClaims(p)

(* Whichever vault the callers of airdrop and claim make pay, no more      *)
(* tokens leave the vaults than launches, airdrops and claims account for: *)
(* a second airdrop to a backer or a claim paid twice would exceed it.     *)
DistributionExplained ==
    Circulating <=
        SumFunctionOnSet([p \in isPoolLaunched |-> Entitled(p)],
                         isPoolLaunched)

(* The tokens minted suffice for the maker, the pool, the initial airdrop  *)
(* and, for each cycle up to CycleMax, the rewards and a burn in full.     *)
Budgeted ==
    config.totalMint >=
        config.makerTokenAmount + config.totalPoolTokens
        + (CycleMax + 1) * config.totalAirdropAmountPerMilestone
        + CycleMax * FullReputation * Cardinality(Backers)

(* What p still needs: the claims granted, the airdrops to come, and, in a *)
(* milestone, the tokens its end would burn.                               *)
Owed(p) ==
    OutstandingClaims(p)
    + PerBacker(p) * Cardinality(backersOf[p] \ initialAirdropReceived[p])
    + (IF p \in milestoneActive THEN MilestoneBurn(p) ELSE 0)

(* With that budget the vaults together hold what all proposals owe, each  *)
(* burn included: a burn never takes tokens a backer is owed, and what one *)
(* vault lacks, as it has paid for another proposal, another one has.      *)
(* (No more than that: nothing keeps a caller from emptying one vault.)    *)
ClaimsFunded ==
    Budgeted =>
        SumFunctionOnSet(tokenVault, Mints) >=
            SumFunctionOnSet([p \in isPoolLaunched |-> Owed(p)],
                             isPoolLaunched)
=============================================================================
