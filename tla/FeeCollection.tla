--------------------------- MODULE FeeCollection ---------------------------
(***************************************************************************)
(* The trading fees a pool earns and the chain service collects.  They     *)
(* pass through accounts that hold other things: the token vault with the  *)
(* airdrop reserve, the WSOL vault, and the vault authority with the       *)
(* escrow of all proposals.                                                *)
(***************************************************************************)
EXTENDS Launchpad

CONSTANTS
    CollectFeeMode,  \* what create_pool asks of the AMM: 1 in the code
    SwapFees,        \* what one swap may leave of either side
    MaxFees,         \* bound: fees a pool earns of either side
    TempRent,        \* lamports that keep a token account alive
    TempAccounts     \* the temporary WSOL accounts that exist; their
                     \* addresses are the token program's to create,
                     \* and nobody makes it, so there are none

Recipients == {"treasury", "maker"}

Sides == [a : Nat, b : Nat]

ASSUME FeeAssumption ==
    /\ CollectFeeMode \in {0, 1}
    /\ SwapFees \subseteq Nat /\ MaxFees \in Nat /\ TempRent \in Nat
    /\ TempAccounts \subseteq Proposals \X Recipients

VARIABLES
    feesEarned,   \* feesEarned[m]: fees of m's pool so far, in base units
                  \* of the token (a) and in lamports (b)
    feesClaimed,  \* what of it claims have taken out of the pool
    feeIncome,    \* feeIncome[m]: what each recipient was sent
    tempWsol      \* the temporary WSOL accounts that exist

feeVars == <<feesEarned, feesClaimed, feeIncome, tempWsol>>

allVars == <<vars, feeVars>>

NoFees == [a |-> 0, b |-> 0]

Plus(x, y) == [a |-> x.a + y.a, b |-> x.b + y.b]

(* Half for each, and the odd unit for the treasury.  (Variant: the odd    *)
(* unit is dropped.)                                                       *)
SplitDown(amount) == [treasury |-> amount \div 2, maker |-> amount \div 2]

SplitEven(amount) ==
    [treasury |-> (amount \div 2) + (amount % 2), maker |-> amount \div 2]

(* The temporary accounts of p through which a split of WSOL goes: one for *)
(* each part that is not zero.  A payment closes its account.              *)
TempsFor(p, split) ==
    {<<p, r>> : r \in {t \in Recipients : split[t] > 0}}

(* Closing them sends all their lamports to the vault authority.  The      *)
(* accounts hold their rent and the part just sent there.  (Variant: the   *)
(* maker's is not closed.)                                                 *)
UnwrappedTreasury(p, split) ==
    split["treasury"] + TempRent * Cardinality(TempsFor(p, split))

Unwrapped(p, split) ==
    split["treasury"] + split["maker"]
        + TempRent * Cardinality(TempsFor(p, split))

-----------------------------------------------------------------------------
FeeInit ==
    /\ Init
    /\ feesEarned = [m \in Mints |-> NoFees]
    /\ feesClaimed = [m \in Mints |-> NoFees]
    /\ feeIncome = [m \in Mints |-> [r \in Recipients |-> NoFees]]
    /\ tempWsol = TempAccounts

HasPool(m) == supply[m] > 0

(* A swap leaves a fee in the pool: in the token bought or, in mode 1,     *)
(* always in WSOL.                                                         *)
EarnFees(m, f) ==
    /\ HasPool(m)
    /\ f # NoFees
    /\ CollectFeeMode = 1 => f.a = 0
    /\ feesEarned[m].a + f.a <= MaxFees
    /\ feesEarned[m].b + f.b <= MaxFees
    /\ feesEarned' = [feesEarned EXCEPT ![m] = Plus(@, f)]
    /\ UNCHANGED <<vars, feesClaimed, feeIncome, tempWsol>>

(* What the AMM pays out on a claim: all that is pending.                  *)
Pending(m) ==
    [a |-> feesEarned[m].a - feesClaimed[m].a,
     b |-> feesEarned[m].b - feesClaimed[m].b]

(* claim_pool_fee, by the chain service, for the pool of mint m, which may *)
(* be an older mint of its proposal; the status of the proposal is not     *)
(* looked at.  The AMM pays into the two vaults; the token's parts go to   *)
(* token accounts, those of the WSOL are unwrapped and sent as lamports.   *)
(* With nothing pending the call returns early and is no step.             *)
ClaimPoolFee(m) ==
    LET p == m[1]
        x == Pending(m)
        a == SplitEven(x.a)
        b == SplitEven(x.b)
    IN  /\ p \in proposals
        /\ HasPool(m)
        /\ x # NoFees
        /\ TempsFor(p, b) \subseteq tempWsol
        /\ feesClaimed' = [feesClaimed EXCEPT ![m] = Plus(@, x)]
        /\ tokenVault' =
               [tokenVault EXCEPT ![m] =
                   (@ * BaseUnits + x.a - a["treasury"] - a["maker"])
                       \div BaseUnits]
        /\ wsolVault' = wsolVault + x.b - b["treasury"] - b["maker"]
        /\ tempWsol' = tempWsol \ TempsFor(p, b)
        /\ vaultAuthority' = vaultAuthority + Unwrapped(p, b)
                                 - b["treasury"] - b["maker"]
        /\ treasury' = treasury + b["treasury"]
        /\ feeIncome' =
               [feeIncome EXCEPT ![m] =
                   [r \in Recipients |->
                       Plus(@[r], [a |-> a[r], b |-> b[r]])]]
        /\ accounts' = accounts \cup {<<m, Maker(p)>>}
        /\ UNCHANGED <<environment, makerVars, backingVars, launchVars,
                       milestoneVars, rewardVars, mintable, metadata, supply,
                       holding, isRejected, initialAirdropReceived,
                       activeCount, feesEarned>>

FeeNext ==
    \/ Next /\ UNCHANGED feeVars
    \/ \E m \in Mints, f \in [a : SwapFees, b : SwapFees] : EarnFees(m, f)
    \/ \E m \in Mints : ClaimPoolFee(m)

FeeSpec == FeeInit /\ [][FeeNext]_allVars

(* The chain service keeps collecting.                                     *)
FeeFairness == \A m \in Mints : WF_allVars(ClaimPoolFee(m))

FairFeeSpec == FeeSpec /\ FeeFairness

-----------------------------------------------------------------------------
(* Everything taken out of a pool reached the treasury or the maker, whose *)
(* part is never the larger, whichever pools are claimed in whatever       *)
(* order.                                                                  *)
FeesAccounted ==
    \A m \in Mints :
        LET treasurys == feeIncome[m]["treasury"]
            makers    == feeIncome[m]["maker"]
        IN  /\ feesClaimed[m] = Plus(treasurys, makers)
            /\ makers.a <= treasurys.a /\ makers.b <= treasurys.b

(* Fees pass through: a claim leaves in no vault a part of a fee, and      *)
(* takes nothing of the airdrop reserve, of the WSOL or of the escrow.     *)
(* The vault authority gains the rent of the accounts that were closed.    *)
FeesPassThrough ==
    [][feesClaimed' # feesClaimed =>
          /\ tokenVault' = tokenVault
          /\ wsolVault' = wsolVault
          /\ vaultAuthority' = vaultAuthority
                 + TempRent * Cardinality(tempWsol \ tempWsol')]_allVars

(* tests/wewe-token-launch-pad.ts:1492 "Claims position fee and            *)
(* distributes tokens": fees that are pending are collected.               *)
FeesAreCollected ==
    \A m \in Mints :
        Pending(m) # NoFees ~> Pending(m) = NoFees
=============================================================================
