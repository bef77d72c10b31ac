-------------------------- MODULE LaunchpadState --------------------------
(***************************************************************************)
(* The accounts the program keeps on chain, shared by all its              *)
(* instructions, and the constants that bound an instance.                 *)
(*                                                                         *)
(* A Solana transaction is atomic: an instruction that fails leaves every  *)
(* account as it was.  So an instruction is one action whose guard is the  *)
(* conjunction of everything that must succeed, and concurrency is the     *)
(* order in which the transactions of makers, backers, crankers and the    *)
(* chain service reach the ledger.                                         *)
(***************************************************************************)
EXTENDS TokenMath, FiniteSets

CONSTANTS
    Makers,          \* wallets that may create proposals
    Backers,         \* wallets that may back them; a maker may back others
    Market,          \* the AMM and all other holders of a launched token
    Wsol,            \* the mint of wrapped SOL
    Keepers,         \* wallets that open and close token accounts by hand
    InitialMembers,  \* wallets holding the soulbound token at the start
    MaxProposals,    \* bound: proposals per maker
    MaxMints,        \* bound: mints a proposal may go through
    ConfigChoices,   \* the configurations an operator may set
    BackingPeriod,   \* three days, in ticks of the clock
    MaxTime,         \* bound: ticks of the clock
    MaximumBackers,  \* MAXIMUM_BACKERS
    CycleMax,        \* largest airdrop cycle (255 in the code, a u8)
    Float,           \* lamports in the vault authority before any deposit
    RentExempt,      \* least balance a live system account may keep
    PoolRent,        \* lamports the AMM charges for a pool's accounts
    Leftovers,       \* amounts of either side the AMM may leave behind
    TopUps,          \* amounts of WSOL anyone may send to the WSOL vault
    MaxWsol,         \* bound: WSOL vault balance reached by top-ups
    TradeSizes,      \* amounts of a launched token that change hands
    BaseUnits        \* base units in a whole token: 10^MINT_DECIMALS

Users     == Makers \cup Backers
Wallets   == Users \cup {Market}
Proposals == Makers \X (0 .. MaxProposals - 1)
Mints     == Proposals \X (0 .. MaxMints - 1)

Configs ==
    [amountToRaisePerUser : Nat, totalMint : Nat, totalPoolTokens : Nat,
     makerTokenAmount : Nat, totalAirdropAmountPerMilestone : Nat,
     minBackers : Nat, maxBackedProposals : Nat, refundFeeBasisPoints : Nat]

ASSUME WalletsAssumption ==
    /\ IsFiniteSet(Makers) /\ IsFiniteSet(Backers)
    /\ Market \notin Makers \cup Backers
    /\ InitialMembers \subseteq Makers \cup Backers
    /\ Keepers \subseteq Makers \cup Backers

ASSUME WsolAssumption == Wsol \notin Mints

ASSUME BoundsAssumption ==
    /\ MaxProposals \in Nat \ {0} /\ MaxMints \in Nat \ {0}
    /\ BackingPeriod \in Nat /\ MaxTime \in Nat
    /\ MaximumBackers \in Nat /\ CycleMax \in Nat \ {0} /\ MaxWsol \in Nat

ASSUME AmountsAssumption ==
    /\ ConfigChoices \subseteq Configs
    /\ Float \in Nat /\ RentExempt \in Nat /\ PoolRent \in Nat
    /\ Leftovers \subseteq Nat /\ TopUps \subseteq Nat
    /\ TradeSizes \subseteq Nat /\ BaseUnits \in Nat \ {0}

VARIABLES
    config,        \* Configs: the single configuration account
    members,       \* wallets whose soulbound token account holds 1
    now,           \* the ledger's clock
    \* Proposal and MakerAccount
    proposalCount, proposals, timeStarted, isRejected, isPoolLaunched,
    totalBackers, totalBacking, mintAccount,
    currentAirdropCycle, milestoneActive, milestoneUnitsAssigned,
    milestoneBackersWeighted, milestoneReputationSum,
    \* Backers and BackerProposalCount
    backersOf,     \* backersOf[p]: who has an open Backers account on p
    depositAmount, initialAirdropReceived, claimAmount, settleCycle,
    claimedUpto, activeCount,
    \* lamports
    vaultAuthority, wsolVault, treasury,
    \* the launched tokens, per mint
    mintable, metadata, supply, tokenVault, holding,
    accounts       \* <<mint, wallet>>: the wallets' token accounts that exist

makerVars     == <<proposalCount, proposals, timeStarted>>
backingVars   == <<totalBackers, totalBacking, backersOf, depositAmount>>
launchVars    == <<isPoolLaunched, mintAccount>>
milestoneVars == <<currentAirdropCycle, milestoneActive,
                   milestoneUnitsAssigned, milestoneBackersWeighted,
                   milestoneReputationSum>>
rewardVars    == <<claimAmount, settleCycle, claimedUpto>>
tokenVars     == <<mintable, metadata, supply, tokenVault, holding, accounts>>
environment   == <<config, members, now>>

vars == <<makerVars, backingVars, launchVars, milestoneVars, rewardVars,
          tokenVars, environment, isRejected, initialAirdropReceived,
          activeCount, vaultAuthority, wsolVault, treasury>>

Maker(p)       == p[1]
CurrentMint(p) == <<p, mintAccount[p]>>
MintsOf(p)     == {<<p, g>> : g \in 0 .. mintAccount[p]}

(* A mint and the program's vault for it are created together, with the    *)
(* proposal or by a reset.                                                 *)
MintsWithVault == UNION {MintsOf(p) : p \in proposals}

(* A backer's share of one airdrop or milestone of p.                      *)
PerBacker(p) == Share(config.totalAirdropAmountPerMilestone, totalBackers[p])

(* The runtime refuses to leave a system account between zero and the rent *)
(* exemption.                                                              *)
RentOk(lamports) == lamports = 0 \/ lamports >= RentExempt

(* A BackerProposalCount is decremented unless it is zero already.         *)
(* (Variant: the decrement is forgotten.)                                  *)
KeepSlot(count) == count

ReleaseSlot(count) == IF count > 0 THEN count - 1 ELSE 0

-----------------------------------------------------------------------------
(* Before the first proposal: one configuration is set, the vault          *)
(* authority is funded, and some wallets have their soulbound token.       *)
Init ==
    /\ config \in ConfigChoices
    /\ members = InitialMembers
    /\ now = 0
    /\ proposalCount = [m \in Makers |-> 0]
    /\ proposals = {}
    /\ timeStarted = [p \in Proposals |-> 0]
    /\ isRejected = {}
    /\ isPoolLaunched = {}
    /\ totalBackers = [p \in Proposals |-> 0]
    /\ totalBacking = [p \in Proposals |-> 0]
    /\ mintAccount = [p \in Proposals |-> 0]
    /\ currentAirdropCycle = [p \in Proposals |-> 0]
    /\ milestoneActive = {}
    /\ milestoneUnitsAssigned = [p \in Proposals |-> 0]
    /\ milestoneBackersWeighted = [p \in Proposals |-> 0]
    /\ milestoneReputationSum = [p \in Proposals |-> 0]
    /\ backersOf = [p \in Proposals |-> {}]
    /\ depositAmount = [p \in Proposals |-> [b \in Backers |-> 0]]
    /\ initialAirdropReceived = [p \in Proposals |-> {}]
    /\ claimAmount = [p \in Proposals |-> [b \in Backers |-> 0]]
    /\ settleCycle = [p \in Proposals |-> [b \in Backers |-> 0]]
    /\ claimedUpto = [p \in Proposals |-> [b \in Backers |-> 0]]
    /\ activeCount = [b \in Backers |-> 0]
    /\ vaultAuthority = Float
    /\ wsolVault = 0
    /\ treasury = 0
    /\ mintable = {}
    /\ metadata = {}
    /\ supply = [m \in Mints |-> 0]
    /\ tokenVault = [m \in Mints |-> 0]
    /\ holding = [m \in Mints |-> [w \in Wallets |-> 0]]
    /\ accounts = {}

TypeOK ==
    /\ config \in ConfigChoices
    /\ members \subseteq Users
    /\ now \in Nat
    /\ proposalCount \in [Makers -> Nat]
    /\ proposals \subseteq Proposals
    /\ timeStarted \in [Proposals -> Nat]
    /\ isRejected \subseteq proposals
    /\ isPoolLaunched \subseteq proposals
    /\ totalBackers \in [Proposals -> Nat]
    /\ totalBacking \in [Proposals -> Nat]
    /\ mintAccount \in [Proposals -> 0 .. MaxMints - 1]
    /\ currentAirdropCycle \in [Proposals -> Nat]
    /\ milestoneActive \subseteq isPoolLaunched
    /\ milestoneUnitsAssigned \in [Proposals -> Nat]
    /\ milestoneBackersWeighted \in [Proposals -> Nat]
    /\ milestoneReputationSum \in [Proposals -> Nat]
    /\ backersOf \in [Proposals -> SUBSET Backers]
    /\ depositAmount \in [Proposals -> [Backers -> Nat]]
    /\ initialAirdropReceived \in [Proposals -> SUBSET Backers]
    /\ claimAmount \in [Proposals -> [Backers -> Nat]]
    /\ settleCycle \in [Proposals -> [Backers -> Nat]]
    /\ claimedUpto \in [Proposals -> [Backers -> Nat]]
    /\ activeCount \in [Backers -> Nat]
    /\ vaultAuthority \in Nat
    /\ wsolVault \in Nat
    /\ treasury \in Nat
    /\ mintable \subseteq Mints
    /\ metadata \subseteq Mints
    /\ supply \in [Mints -> Nat]
    /\ tokenVault \in [Mints -> Nat]
    /\ holding \in [Mints -> [Wallets -> Nat]]
    /\ accounts \subseteq Mints \X Wallets
=============================================================================
