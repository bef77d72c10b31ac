---------------------------- MODULE PoolLaunch ----------------------------
(***************************************************************************)
(* The launch of a funded proposal: its token is minted, the escrowed      *)
(* lamports become WSOL and both go to a new AMM pool; and the operator's  *)
(* tool that undoes the launch flag so that a pool can be created again.   *)
(***************************************************************************)
EXTENDS LaunchpadState

(* The AMM takes at most the two amounts offered, and leaves some of one   *)
(* side behind because the liquidity it is asked for is the smaller of the *)
(* two sides'.  A pool without liquidity is refused.                       *)
PoolTakes(base, quote) == base > 0 /\ quote > 0

(* p has the backers a launch needs.                                       *)
TargetMet(p) == totalBackers[p] >= config.minBackers

(* p may be launched: undecided, and with its backers.                     *)
Launchable(p) ==
    /\ p \notin isRejected
    /\ p \notin isPoolLaunched
    /\ TargetMet(p)

(* The token vault of p once the whole supply is minted into it.           *)
MintedStock(p) == tokenVault[CurrentMint(p)] + config.totalMint

(* The program's own check of the pool: something has left either vault.   *)
PoolValidated(base, quote) == base > 0 \/ quote > 0

(* What the launch of p takes out of the vault authority: the backing and, *)
(* as the vault authority pays for the pool's accounts, their rent.        *)
LaunchCost(p) == totalBacking[p] + PoolRent

(* create_pool, by the chain service; left.base and left.quote are what    *)
(* the AMM leaves.  A proposal that is past its period without the backers *)
(* it needs is marked rejected and the instruction then fails on that very *)
(* mark, so the ledger keeps nothing of it: such a call is not a step.     *)
CreatePool(p, left) ==
    LET m     == CurrentMint(p)
        stock == MintedStock(p)
        base  == config.totalPoolTokens - left.base
        quote == totalBacking[p] - left.quote
        maker == config.makerTokenAmount
    IN  /\ p \in proposals
        /\ Launchable(p)
        /\ m \in mintable
        /\ PoolTakes(base, quote) /\ PoolValidated(base, quote)
        /\ stock >= maker + base
        /\ vaultAuthority >= LaunchCost(p)
        /\ RentOk(vaultAuthority - LaunchCost(p))
        /\ supply' = [supply EXCEPT ![m] = @ + config.totalMint]
        /\ tokenVault' = [tokenVault EXCEPT ![m] = stock - maker - base]
        /\ holding' = [holding EXCEPT ![m][Maker(p)] = @ + maker,
                                      ![m][Market] = @ + base]
        /\ accounts' = accounts \cup {<<m, Maker(p)>>, <<m, Market>>}
        /\ vaultAuthority' = vaultAuthority - LaunchCost(p)
        /\ wsolVault' = wsolVault + left.quote
        /\ isPoolLaunched' = isPoolLaunched \cup {p}
        /\ UNCHANGED <<environment, makerVars, backingVars, mintAccount,
                       milestoneVars, rewardVars, mintable, metadata,
                       isRejected, initialAirdropReceived, activeCount,
                       treasury>>

(* The milestones still running after a reset of p.  (Variant: the flag is *)
(* left as it is.)                                                         *)
AllMilestones(p) == milestoneActive

OtherMilestones(p) == milestoneActive \ {p}

(* The mint a reset assigns to p: the one it creates.  (Variant: the       *)
(* assignment is forgotten.)                                               *)
SameMint(p) == mintAccount[p]

NextMint(p) == mintAccount[p] + 1

(* reset_pool_launch: only looks at the WSOL vault's balance, moves        *)
(* nothing, and gives the proposal a fresh mint.  Counters, the cycle and  *)
(* the backers' accounts stay as they are.                                 *)
ResetPoolLaunch(p) ==
    LET created == mintAccount[p] + 1
    IN  /\ p \in isPoolLaunched
        /\ wsolVault >= totalBacking[p]
        /\ created < MaxMints
        /\ isPoolLaunched' = isPoolLaunched \ {p}
        /\ milestoneActive' = OtherMilestones(p)
        /\ mintAccount' = [mintAccount EXCEPT ![p] = NextMint(p)]
        /\ mintable' = mintable \cup {<<p, created>>}
        /\ UNCHANGED <<environment, makerVars, backingVars,
                       currentAirdropCycle, milestoneUnitsAssigned,
                       milestoneBackersWeighted, milestoneReputationSum,
                       rewardVars, metadata, supply, tokenVault, holding,
                       accounts, isRejected, initialAirdropReceived,
                       activeCount, vaultAuthority, wsolVault, treasury>>

(* Anyone can send WSOL to the program's WSOL vault, which is how an       *)
(* operator makes a reset possible.                                        *)
TopUpWsol(n) ==
    /\ wsolVault + n <= MaxWsol
    /\ wsolVault' = wsolVault + n
    /\ UNCHANGED <<environment, makerVars, backingVars, launchVars,
                   milestoneVars, rewardVars, tokenVars, isRejected,
                   initialAirdropReceived, activeCount, vaultAuthority,
                   treasury>>
=============================================================================
