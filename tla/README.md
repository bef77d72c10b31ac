# A model of the WEWE token launch pad

TLA+ modules, TLC configurations and TLAPS proofs for the Solana program in
`programs/wewe-token-launch-pad`. Paths below are relative to the program's
`src/` directory (`instructions/`, `state/`, `utils/`) unless they begin with
another directory of the repository.

## 1. The system

A maker creates a *proposal* for a token. Backers each deposit the same fixed
stake of SOL. Within three days the proposal either finds enough backers and
is *launched* (its token is minted, the stakes and a part of the tokens go to an
AMM pool) or is *rejected* and the stakes are refunded less a fee. After the
launch backers get an initial *airdrop*, and in later *milestones* a reward that
depends on how much of the token they still hold.

### Parties

* makers and backers: wallets, members once they hold the soulbound token;
* cranks: anyone may submit `refund` and `airdrop` for any backer, and names the
  mint an airdrop is paid in;
* the chain service: a fixed key that launches, rejects, runs milestones and
  uses the repair tools;
* the configure authority: a fixed key that sets the configuration;
* the AMM (Meteora DAMM v2) and the market for launched tokens.

### Components

| Component | State | Operations | What makes it correct |
|---|---|---|---|
| Configuration and membership (`ix_set_config`, `ix_mint_non_transferable_ft`) | one `Configs` account, frozen soulbound tokens | `set_config`, `mint_soulbound_to_user` | instructions that run later must not take today's values for yesterday's facts |
| Proposals, deposits, refunds (`ix_create_proposal`, `ix_back_token`, `ix_reject_proposal`, `ix_refund`) | `Proposal`, `MakerAccount`, `Backers`, `BackerProposalCount`, the lamports of the *vault authority* | `create_proposal`, `deposit_sol`, `reject_proposal`, `refund` | the pooled lamports cover every open deposit; counters equal the accounts they count; slots are bounded and freed; refunds happen |
| Pool launch (`ix_launch_pool`, `utils/pool_validation`) | `is_pool_launched`, the mint, the token and WSOL vaults | `create_pool` | a proposal is launched or rejected, never both; only its own escrow is spent |
| Milestones and rewards (`ix_airdrop`, `ix_start_milestone`, `ix_snapshot`, `ix_end_milestone`, `ix_claim_tokens`) | cycle, milestone counters, `claim_amount`, `settle_cycle`, `claimed_upto`, token vault and supply | `airdrop`, `initialise_milestone`, `snapshot_backer_amount`, `end_milestone`, `claim_milestone_reward` | each backer is settled once per cycle and paid once; a cycle ends only when all are settled, and it does end |
| Repair tools (`ix_reset_pool_launch`, `ix_reset_airdrop`) | as above | `reset_pool_launch`, `reset_airdrop` | what they leave alone must stay consistent with what they reset |
| Token arithmetic (in the handlers) | none | fees, shares, tiers, reputation, burn | bounds of each result |
| Pool fee collection (`ix_collect_pool_fees`) | temporary WSOL accounts; fees pass through the token vault, the WSOL vault and the vault authority | `claim_pool_fee` | all that is claimed is paid out, half and half; the vaults keep what is not a fee; pending fees are collected |
| Initial liquidity (`utils/pool_liqudity`) | none | `get_liquidity_delta` | asks for the largest pool both amounts pay for; fails for a reason only |
| Emergency unlock (`ix_emergency_unlock`) | none reachable | none: the entry point is commented out in `lib.rs:76-80` | |
| Signer checks, events, errors | none | | |

### How the components interact

All of them communicate through accounts. Three are shared by *all* proposals:
the configuration, the vault authority's lamports and the WSOL vault. So are, in
effect, the token vaults: `airdrop` and `claim_milestone_reward` pay from the vault of
whatever mint the call names (`ix_airdrop.rs:33-43`, `ix_claim_tokens.rs:33-43`),
another proposal's and WSOL included. A backer's
`BackerProposalCount` is shared by the proposals it backs. `airdrop` and
`refund`, which belong to different components, both free a slot there.
`total_backers`, written by deposits only, is what launches, shares, snapshots
and the end of a milestone rely on.

### What is hard about it

* **Interleaving.** A transaction is atomic, but a milestone is one transaction
  per backer, and deposits, trades, airdrops, claims, resets and changes of the
  configuration come in between, in any order.
* **Pooling.** An accounting error in one proposal is paid by another.
* **Rollback.** A failing instruction keeps none of its writes, also not those
  it made to record why it failed.
* **Sequences.** launch, reset, relaunch; airdrop, reset, airdrop.
* **Time.** A deposit is accepted at the very moment at which a launch may call
  the proposal expired.
* **Limits.** Slots, backers, the u8 cycle, the tokens in the vault, and the
  rule that a live account keeps its rent exemption or nothing.

`PROJECT.json` lists these one by one, each with the line where it bites and the
properties that watch it.

## 2. The modules

```
TokenMath <- LaunchpadState <- { Funding, PoolLaunch, Milestones } <- Launchpad

Launchpad <- LaunchpadLedger            Launchpad <- FeeCollection <- MCFees
Launchpad <- LaunchpadRefinement        Launchpad <- LaunchReply   <- MCLaunchReply
             (INSTANCEs Escrow, MilestoneRounds)
LaunchpadLedger, LaunchpadRefinement <- MCLaunchpad          PoolLiquidity

TokenMathProofs <- LaunchpadProofs <- OperatingProofs <- RefinementProofs
RefinementProofs, SumProofs, LaunchpadLedger <- LedgerProofs
                   LaunchpadProofs <- FeeProofs          PoolLiquidityProofs
```

| Module | What it models |
|---|---|
| `TokenMath` | the arithmetic of `refund`, `airdrop`, `snapshot_backer_amount` and `end_milestone` |
| `LaunchpadState` | constants, all accounts as variables, the initial state, `TypeOK` |
| `Funding` | `set_config`, `mint_soulbound_to_user`, `create_proposal`, `deposit_sol`, `reject_proposal`, `refund` |
| `PoolLaunch` | `create_pool`, `reset_pool_launch`, and WSOL sent to the vault from outside |
| `Milestones` | `airdrop`, `reset_airdrop`, the three milestone instructions, `claim_milestone_reward`; trades of a launched token, and wallets that open and close token accounts |
| `Launchpad` | the composition: `Next`, the specifications, fairness, and the properties |
| `LaunchpadLedger` | the properties that sum amounts over accounts (kept apart because they use the library's sums) |
| `LaunchReply` | what a caller of `create_pool` is told, next to what the ledger keeps |
| `FeeCollection` | the fees pools earn, `claim_pool_fee` and its temporary accounts, added to all of `Launchpad` |
| `PoolLiquidity` | `get_liquidity_delta`: two quotients, their casts and minimum, and what the AMM takes for the answer |
| `Escrow`, `MilestoneRounds` | abstract specifications: what backers are promised of their stakes, and what a milestone does |
| `LaunchpadRefinement` | the mappings under which `Launchpad` implements the two |
| `MCLaunchpad`, `MCLaunchReply`, `MCFees` | configurations and symmetry for TLC |
| `TokenMathProofs`, `LaunchpadProofs`, `OperatingProofs`, `RefinementProofs`, `LedgerProofs`, `FeeProofs`, `PoolLiquidityProofs` | theorems |
| `SumProofs` | lemmas about sums over finite sets |

One action is one whole instruction: its guard is the conjunction of the account
constraints, the `require!`s and what the called programs need (balances, the
mint authority, the rent rule); its primed variables are all its writes. An
instruction that fails is no step. State and code correspond as follows.

| Model | Code |
|---|---|
| `proposals`, `timeStarted`, `isRejected`, `isPoolLaunched`, `totalBackers`, `totalBacking`, `currentAirdropCycle`, `milestone...` | the fields of `Proposal`; flags are sets of proposals |
| `<<maker, k>>` in `Proposals` | the address derived from maker and `proposal_id` |
| `mintAccount[p] = g` | `Proposal.mint_account`: the g-th mint made for `p` (0 by `create_proposal`, later ones by resets) |
| `backersOf[p]` | the wallets whose `Backers` account on `p` exists; `init` fails on one that does, `close` removes it |
| `depositAmount`, `claimAmount`, `settleCycle`, `claimedUpto`, `initialAirdropReceived` | the fields of `Backers` |
| `activeCount` | `BackerProposalCount.active_count` |
| `vaultAuthority`, `wsolVault`, `treasury` | lamports of the vault authority, amount of the WSOL vault, fees received by the treasury |
| `mintable`, `metadata`, `supply`, `tokenVault`, `holding` | mints with an authority, metadata accounts, supply, the program's vault and the wallets' token accounts, in whole tokens |
| `accounts` | the wallets' token accounts that exist, one per wallet and mint; `init_if_needed` adds one |
| `MintsWithVault`, `Wsol` | the mints an `airdrop` or a claim can name: those of every proposal created, and WSOL, whose vault's amount is `wsolVault` |
| `members` | wallets whose soulbound account holds 1 |
| `feesEarned`, `feesClaimed`, `feeIncome` | what a pool owes its position, what claims have taken, what treasury and maker were sent; tokens in base units, WSOL in lamports |
| `tempWsol` | the temporary WSOL accounts that exist at the derived addresses |
| `offer`, `reply`, `liquidity` | arguments and result of `get_liquidity_delta`, called by `create_pool` |
| `Float` | lamports in the vault authority that are no deposit; the program pays rent from them |

Some operators come with a variant just before them (`SlotFreeOrLast` before
`SlotFree`, and so on). The variants are bugs one could have written; no action
uses them. Each property is known to fail when one of them takes the place of
the real operator, so the properties do watch the code.

### External parties

`Trade` (any holder moves tokens to any other, the AMM included), `OpenAccount` and
`CloseAccount` (a wallet in `Keepers` creates an empty token account or closes one),
`TopUpWsol` (WSOL sent to the WSOL vault) and `Tick` are not part of the program. `PoolTakes`
and the constants `Leftovers` and `PoolRent` stand for the AMM: it takes at most
what is offered, something of both sides, and charges rent to the payer, which
is the vault authority (`ix_launch_pool.rs:273`). `EarnFees` is a swap's fee.
`NeededBase` and `NeededQuote` are what the AMM takes for a liquidity, rounded up;
its source is not in the repository, so they are the inverse of the two formulas
quoted in `utils/pool_liqudity.rs:6` and `:20`.

`claim_pool_fee` counts in base units where the rest counts in whole tokens, as
the odd unit of a split is a base unit, and so does an airdrop or a claim paid in WSOL
(`PayWsol`); `BaseUnits` stands for `10^MINT_DECIMALS`.
It is the chain service's (`lib.rs:92`), although a comment in the handler
(`ix_collect_pool_fees.rs:179`) lets anyone call it. The handler needs temporary
WSOL accounts at addresses derived from the token program's id
(`ix_collect_pool_fees.rs:127-138`), which only the token program could create, and it
does not: nobody can supply them. Which ones exist is a constant, `TempAccounts`: none
for the program as it is (run `fees_stuck`). Run `fees` is hypothetical: it takes them
all to exist, to see whether the handler would do right with them.
That run also lets fees be earned on both sides (`CollectFeeMode`
0), where `create_pool` asks for mode 1: by the AMM's interface
(`idls/cp_amm.json:6594`) fees in WSOL only, although `ix_launch_pool.rs:265` calls
it "BothToken".

## 3. What is checked

| Run | Instance | Question |
|---|---|---|
| `funding` | 2 makers, one of whom backs; 3 backers, 1 slot each; limit of 2 backers per proposal; 2 configurations; deadline and one tick beyond; airdrops and claims in either mint; no repair tools | are the counters, limits and the pooled escrow exact, and do the vaults together cover what both proposals owe? |
| `milestones` | 1 proposal, 2 backers, 2 cycles, trades of 3/4 of a share; token accounts closed; the budget of `Budgeted` exactly | is each backer settled and paid once, are claims and burns funded, and does holding on pay? |
| `repair` | 1 proposal, 2 backers, 2 mints, 2 cycles, launches with a single backer allowed, AMM leaves 3 lamports, tokens for little more than one airdrop; all instructions | what survives the repair tools? |
| `liveness` | 2 proposals, 2 backers, 2 cycles, a float of just one pool rent; a configuration with fewer tokens than backers; tokens for little more than an airdrop; a backer that closes its account | is every backer of a rejected proposal paid back, and does every milestone end that is not blocked? |
| `liquidity` | a fixed point of 64, prices 1 to 17 around a range of 2 to 16, up to 5 and 4 units | is the quote the largest affordable, and is a refusal justified? |
| `fees` | 1 proposal with 2 mints, so 2 pools; fees of 0, 1, 3 of either side; all other instructions | is every fee paid out, and nothing else? |
| `fees_stuck` | 1 proposal, fees in WSOL, no temporary accounts | violation of `FeesAreCollected` |
| `refund_after_reconfig` | 2 stakes | violation of `RefundReturnsDeposit` |
| `relaunch_escrow` | 2 proposals, 2 mints | violation of `UnlaunchedDepositsHeld` |
| `reset_mid_milestone` | 1 proposal, 2 mints | violation of `RefusedOnlyIfUnsettled` |
| `reset_airdrop_slots` | up to 4 proposals, 1 slot | violation of `OpenWithinLimit` |
| `expired_launch` | 1 proposal | violation of `ToldIsRejected` |

The passing runs show, of `OperatingSpec` (everything but the repair tools):

* `SlotsExact`, `OpenWithinLimit`: `active_count` is the number of the accounts
  it stands for, and nobody exceeds the limit;
* `VaultAccounting`, `BackingMatches`: the pooled account is exactly float plus
  open deposits minus pool rents. The last term is a fact to know: each launch
  costs the pool rent, so without a float the last refund or launch fails;
* `EscrowCovers`: with a float for one pool per proposal, no launch and no refund
  ever lacks lamports, whatever was spent on other proposals before;
* `UnlaunchedDepositsHeld`, `RefundReturnsDeposit`, `RefusedOnlyIfUnsettled`: what
  findings 1 to 3 below refute holds without a change of the stake and without
  the repair tools. `UnlaunchedDepositsHeld` also needs a float for one pool per proposal
  (`FloatSuffices`, which holds in the run): otherwise the rents of pools come out of
  deposits;
* `EscrowSpec`: the program implements `Escrow`, where each proposal holds the set
  of backers that have paid, and a stake leaves the fund once, into its own
  pool or back to its backer. The program only keeps two counters and a sum of
  lamports;
* `RoundsSpec`: it implements `MilestoneRounds`, where a round settles everybody
  on the roll once and the roll stands still meanwhile. The program only counts
  snapshots and compares cycle numbers;
* `SettledAreWeighted`: a milestone's counter is the number of backers settled;
* `PendingCreditCoversClaims`: not claiming does not lower a tier;
* `LoyaltyPays`: a backer that has its airdrop before its first snapshot and keeps
  its tokens gets a full share in every cycle, however late it claims. To keep them
  (`KeepsTokens`) is to send none away and to have one's claims paid in the proposal's
  mint: a claim in another one moves `claimed_upto` without raising the balance that
  the next snapshot reads. The airdrop has to be there, too: nothing makes a milestone
  wait for it, a snapshot taken before it grants nothing, and once the backer claims,
  `claimed_upto` moves on although no share was received, so that later tiers are lower;
* `DistributionExplained`, `ClaimsFunded`: as any vault may pay for any proposal, both
  add up all proposals and all mints. What is outside the vaults is at most what launches,
  airdrops and claims account for, so nothing is paid twice; and with the budget stated in
  `Budgeted` the vaults together hold every claim, every airdrop to come and the
  burns of the milestones that run. The budget contains a full burn per cycle: a
  milestone that ends before the airdrops are sent burns 100 tokens for every backer
  not yet served, because such a backer adds no reputation and still counts as a holder
  (`ix_snapshot.rs:94`, `ix_end_milestone.rs:62`). No *single* vault is guaranteed
  anything: with two proposals, calls that name one mint leave its vault without what it
  owes, and the tokens they should have taken in the other. The same two statements made
  of one vault fail in `funding`. (A payment in WSOL takes nothing from these vaults, and
  settles what is owed all the same.);
* `MilestonesEnd`: see Fairness;

and, of `Spec` (every instruction):

* `OneDecision`, `BackersCounted`, `SlotsNeverOvercounted`,
  `LaunchableIsMintable`, `CycleOrder`, `ReputationBounded`,
  `WeightedAreSettled`, `CycleEndsComplete`: resets cannot make a proposal both
  launched and refundable, end a cycle without a backer, or take a launchable
  proposal's mint authority;
* with fee collection added: `FeesAccounted`, `FeesPassThrough`.

`LargestAffordable` and `RefusedForCause` are about `PoolLiquidity` alone: the
program rounds down and the AMM up, and still the liquidity is the very largest
both offers pay for. `create_pool` can be refused because the *larger* side does not
fit 128 bits, as both are cast before the smaller one is taken; `RefusedForCause`
says that this needs an amount which alone is worth more than a liquidity can be.

The violations are disagreements between the code and its own comments or
messages; `PROJECT.json` quotes each one:

1. `refund` pays the configured stake, not the recorded deposit.
2. A relaunch is paid from the shared escrow although the reset checks, and its
   comment speaks of, the WSOL vault.
3. A reset in the middle of a milestone leaves `end_milestone` waiting for
   snapshots that `snapshot_backer_amount` refuses.
4. `reset_airdrop` followed by an airdrop frees a slot twice.
5. `create_pool` rolls back its own rejection of an expired proposal, so the
   message that a refund may be claimed is wrong.
6. `claim_pool_fee` pays WSOL through temporary accounts that nobody can create, so
   pending fees are never collected. (Treasury and maker, to whom lamports
   are then sent, are not declared `mut` either, which a client that follows the
   program's interface would meet next.)

### Bounds

Every bound is a constant and appears in a guard or in a
type: `MaxProposals`, `MaxMints`, `MaxTime`, `MaxWsol`, and `MaxFees` of `FeeCollection`; `MaximumBackers` and
`CycleMax` are the code's 1000 and 255, made small. Two backers are the least
with which a snapshot can lie between another's snapshot and the end of a
milestone; three, of whom a proposal takes two, make a backer meet the limit.
Two proposals are what pooling and slots need. Two cycles are needed for a claim to be pending across
the end of a cycle. Two
mints allow one reset, the second of which repeats the first. The amounts are
chosen so that the tiers 0, 25, 50, 75 and 100 % and both outcomes of every
balance check occur. Fees of 1 and 3 make odd splits, one of which has no part for the maker, and a
limit of 4 lets a pool be claimed twice. In `funding` the float is the
least that `FloatSuffices` admits; the backing period is 0 ticks and one tick is allowed,
which has the deadline itself and a time after it. The two
makers' mints let calls of one proposal empty the vault of the other, and its 2300
tokens are the budget of one cycle. `Keepers`, the wallets that open and close token
accounts, are nobody there, as no property of the run depends on it, both backers in
`milestones` and `repair`, and one in `liveness`. The range of prices in `liquidity` has both ends,
and offers on either side of the largest liquidity. `BackerSymmetry` is used only in runs of invariants and
step properties with interchangeable backers, never with liveness.
`CHECK_DEADLOCK` is off throughout: the program acts only when called, so a
state in which all bounded calls have been made is an ordinary end.

### Fairness

`RefundFairness` assumes a `refund` that can go through for a backer eventually
does. The instruction asks for no signature but the payer's, so the crank of
anybody, in particular of the backer itself, suffices. `MilestoneFairness`
assumes the same of `snapshot_backer_amount` and `end_milestone`: the chain
service, which started the milestone, keeps submitting them. Nobody is assumed
to deposit, launch, reject, claim, trade or start a milestone. `FeeFairness` assumes a `claim_pool_fee` that stays possible
is eventually made; `fees_stuck` shows that this does not help. The first two properties
are checked without the repair tools (finding 3 refutes `MilestonesEnd` with
them). `liveness` has the least float with which `RejectedAreRefunded` holds: with
one lamport less, the rent of the other proposal's pool comes out of the deposits
and a refund is stuck.
`MilestonesEnd` says that a milestone that runs ends or is `Blocked`, and holds again from
whenever it is not: with the program's steps it ends, or is blocked anew. Three things
block it, and the run meets each: without any one of the exceptions the property fails.

* The share per backer is zero: the snapshot divides by zero (`ix_snapshot.rs:71`), and the
  milestone waits for another configuration.
* A backer still to be settled has no token account for the proposal's mint
  (`ix_snapshot.rs:31-35`): it has not had its airdrop, or closed its account. Anybody can
  create one, but nobody has to, so no fairness is assumed of it.
* The vault of the mint lacks the tokens to burn, which airdrops and claims of other
  proposals may have taken; the milestone waits until someone returns tokens.

It also excepts the last value of the cycle counter, a u8, which `end_milestone` cannot
increment.

## 4. What is proved

`LaunchpadProofs` proves, for any number of makers, backers, proposals, mints
and any amounts, about every instruction in every order (`Spec`):

| Theorem | Property |
|---|---|
| `TypeCorrect` | `TypeOK` |
| `BackersAreCounted` | `BackersCounted` |
| `DecidedOnce` | `OneDecision` |
| `SlotsAreFreed` | `SlotsNeverOvercounted` |
| `WeightedBackersAreSettled` | `WeightedAreSettled` |
| `CyclesInOrder` | `CycleOrder` |
| `ReputationIsBounded` | `ReputationBounded` |
| `LaunchableCanBeMinted` | `LaunchableIsMintable` |
| `CyclesEndComplete` | `CycleEndsComplete` |

The assumptions are those named in `LaunchpadState`: finite sets of wallets, a
market that is none of the users, and natural numbers for bounds and amounts.
TLC evaluates them on every run.

The argument. `TypeOK` alone is not inductive: `end_milestone` takes the burn off
the supply having only checked the vault. `TypeInv` adds `VaultWithinSupply`, no
vault holds more than exists. The inductive invariant `LedgerInv` is `TypeInv`
with the state properties of the table and two facts about what does not exist:
`Unborn`, a proposal not yet created has cycle 0, and `NoMarks`, a wallet without
a `Backers` account has no claimed cycle. `CycleOrder` needs both, because a
deposit clears `settle_cycle` but not `claimed_upto`. `WeightedAreSettled` needs
`OneDecision` (a refund would remove a settled backer from a running milestone) and the
fact that deposits are closed once a milestone can run. `CycleEndsComplete` follows from
the invariant: when `end_milestone` is accepted, as many backers are settled as are
counted, as many are counted as there are backers, and the settled are among the backers.

`OperatingProofs` and `RefinementProofs` are about `OperatingSpec`, the program
without its two repair tools:

| Theorem | Property | Needs |
|---|---|---|
| `SlotsAreExact` | `SlotsExact` | |
| `LimitIsKept` | `OpenWithinLimit` | one limit (`OneLimit`) |
| `BackingIsExact` | `BackingMatches` | one stake (`OneStake`) |
| `VaultIsExact` | `VaultAccounting` | one stake |
| `EscrowIsCovered` | `EscrowCovers` | one stake |
| `SettledBackersAreWeighted` | `SettledAreWeighted` | |
| `MilestonesAreRounds` | `RoundsSpec` | |
| `BackersAreEscrowed` | `EscrowSpec` | one stake |
| `CreditCoversClaims` | `PendingCreditCoversClaims` | one airdrop amount (`OneAirdrop`) |

A condition in the last column says that the operator may change the rest of the
configuration but not this field; each is needed (with two stakes, finding 1
breaks the accounting). The arguments start from `LedgerInv`, which holds without
the repair tools as well. `SlotsExact` also needs that an airdrop is only received once the
proposal is launched, so that a refund, which needs a rejection, frees a slot not
freed before. `VaultAccounting` counts the deposits of all proposals with one
cardinality of pairs, of which a launch removes one proposal's share; it
rests on `BackingMatches`, since what a launch takes is a counter and what the
sum loses is a set. `RoundInv` adds to `LedgerInv` that an uncreated proposal has no
backers, that a launched proposal's cycle has begun, and that between milestones no
backer carries the current cycle; the last is what makes the next round begin
afresh, and what `reset_pool_launch` breaks (finding 3). The two refinements then go
instruction by instruction: `EscrowSteps` and `RoundSteps` say which ones touch
the abstract state at all, and each of those is one abstract step.

`LedgerProofs` is about the tokens of the proposals and the deposits in the
vault, summed over the accounts:

| Theorem | Property | Specification | Needs |
|---|---|---|---|
| `DistributionIsExplained` | `DistributionExplained` | `OperatingSpec` | one split of the tokens (`OneSplit`) |
| `ClaimsAreFunded` | `ClaimsFunded` | `OperatingSpec` | one split, one number of tokens minted (`OneSupply`) |
| `LoyalBackersAreRewarded` | `LoyaltyPays` | `OperatingSpec` | one airdrop amount |
| `StakeIsRefunded` | `RefundReturnsDeposit` | `Spec` | one stake |
| `RefusedForUnsettled` | `RefusedOnlyIfUnsettled` | `OperatingSpec` | |
| `DepositsAreHeld` | `UnlaunchedDepositsHeld` | `OperatingSpec` | one stake, a float for one pool per proposal (`FloatSuffices`) |

The budget of `ClaimsFunded` is in the property itself. `TokenInv` collects what there
is to know of a launched proposal: without a reset it keeps its first mint (`OneMint`); no
reward is assigned before the launch (`Pristine`); it has backers (`LaunchedHasBackers`, because
what a pool takes came from deposits: `BackingHasBackers`), so its share is
defined; airdrops go to backers, and the cycle is at most `CycleMax`, which is at
least 1.

`DistributionExplained` compares two sums, of which a step moves one summand each:
`Circulating`, over the mints, and `EntitledSum`, over the launched proposals. They need
not belong together, as an airdrop of one proposal may come out of another's vault; what
the sums move by does (`CirculatingByPayment` with `EntitledByAirdrop` or
`EntitledByClaim`; a payment in WSOL raises only the second). For the summands to be natural
numbers the invariant `DistributionInv` adds `ClaimsGranted`: what is to be
claimed was assigned before.

For `ClaimsFunded` two bounds on each proposal are invariant, with one case per step of
`BookSteps` (the five instructions that write in the books of a launched proposal):
`BurntAtMost`, a full burn per cycle ended; and `GrantedAtMost`, a full share per
snapshot. From these `BudgetCovers` computes, for each proposal, that the supply of its
mint is at least what the proposal put in circulation and what it still owes, the burn
of a running milestone included; the rounding of shares only helps (`SharesWithinTotal`).
`VaultsCover` adds this up: different proposals have different mints (`SumOfSome`), the
supply of all mints is what the vaults hold and what circulates (`SumOfParts`), and
what circulates is bounded by `DistributionInv`, so what is left in the vaults is
at least what is owed.

`LoyaltyPays` rests on `KeepsUp`: no backer is more than one settlement behind its
proposal. It is inductive because a cycle ends only when all are settled and
deposits end before the second cycle (`FirstCycle`). Then what a loyal backer
holds and is credited with is at least the expected holding, which is the
top tier and a full share without any rounding (`ExpectedHoldingEarnsAll`). In a claim the
credit goes to zero, so `KeepsTokens` says that the balance rises by it.

The last three theorems are about properties that findings 1 to 3 refute: each names
the one cause of its finding. Without a change of the stake a refund is right in every
order of *all* instructions; without a reset `end_milestone` is refused for want of snapshots
only while some backer is unsettled in the cycle, and the deposits of unlaunched proposals are in the vault.
Likewise `LimitIsKept` for finding 4.

A sum is defined by a fold, and induction on a fold's data cannot be expressed to
the provers as an induction. `SumProofs` does it with a minimal counterexample: of
the subsets of a finite set for which a claim fails there is a smallest (the library's
theorem that the strict subsets of a finite set are well founded), and taking one
element out of it gives a smaller one. That yields that the sum is well defined
(`SumsUnique`), that any element may be taken out, how a sum moves with one account, that sums of parts add up, and
that a sum over some accounts is at most the sum over all;
`PairsCounted` relates the sum of set sizes to the one cardinality of pairs in
`VaultAccounting`.

`FeeProofs` is about every instruction with fee collection (`FeeSpec`):
`FeesAreAccounted` (`FeesAccounted`), `FeesPass` (`FeesPassThrough`), and
`LedgerUndisturbed`: the invariants of the first table hold with fees, too. The
invariant is `LedgerInv` with the types of the fee accounts; the claim's effect
on the vaults is shown to cancel out, for every unit and every amount.

`PoolLiquidityProofs` proves, for every fixed point, range and offer, that a
liquidity is affordable exactly if it is at most the quoted one
(`DeltaIsLargestAffordable`), hence `LargestAffordable` (`QuotesAreLargest`), that a
refusal has one of the causes named (`RefusalsHaveCause`, of `RefusedForCause`), and that a
pool with any liquidity takes something of both sides (`PoolTakesBothSides`), which
is why `PoolTakes` in `PoolLaunch` asks for both.

`TokenMathProofs` proves that the fee is within the refund for every rate,
that shares add up to no more than the total, that an allocation is within a
share and is all of it for whoever holds what is expected, and that a
reputation is a percentage. They rest on one lemma about quotients.

Every invariant and every action property of the passing runs is a theorem.
Model-checked only are the liveness properties `RejectedAreRefunded` and
`MilestonesEnd`, which need `ENABLED` and so are out of the prover's reach. The conditions
on the configuration (one stake, one split, ...) are assumptions about the constant
`ConfigChoices`: a singleton satisfies them all, and so does any set of
configurations that differ in other fields. What happens when these do change is
model-checked: `liveness` with two airdrop amounts, `refund_after_reconfig` with two stakes.
Of the properties refuted by a run, `FeesAreCollected` is about liveness, and
`ToldIsRejected` fails in the very instruction, so no condition on the others saves it.

## 5. What is not modelled

* Who signs. The models let the right party take each action at any time.
* A second token account of a wallet for the same mint (`snapshot_backer_amount` takes any
  account of the backer for the mint); burns by holders of a token; the wallets' WSOL.
* Lamports anybody may send to the vault authority, and tokens to a token vault: such gifts
  are no deposits, and the equality in `VaultAccounting` is about a vault without them.
* Names, symbols, URIs and events; decimals (amounts are whole tokens); lamports
  in users' wallets; rent of the users' own accounts.
* `launch_timestamp` and `emergency_unlocked`: read only by the unreachable
  emergency unlock.
* u64 overflow: a failing checked operation makes an instruction fail, and the
  saturating ones need more than 2^64 / 10000 whole tokens.
* The AMM's own state and its rounding of fees; a pool is known by its mint.
* Rent of a temporary WSOL account is one constant; who paid it is not tracked.
* Signer keys, events and error texts carry no state; `emergency_unlock` cannot be
  called. Nothing else of the program is left out.

## 6. Plan

Done, in this order: token arithmetic, funding, launch, milestones, their
composition, the repair tools, type correctness and the first inductive invariant;
the liquidity formula; fee collection, on top of everything else; `Escrow` and
`MilestoneRounds` with their refinements; the proofs about `OperatingSpec` and
`FeeSpec`; sums over accounts, the tokens of a launched proposal, and rewards.

Left: the ledger's token theorems for the program *with* its repair tools, where what
one mint's vault owes and what another pays must be told apart; runs of the
repair tools with several proposals; which parts of `EscrowSpec` survive a reset;
and amounts in base units throughout, so that the multiplications by
`10^MINT_DECIMALS` and their u64 limits come into view.
