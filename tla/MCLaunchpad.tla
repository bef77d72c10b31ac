---------------------------- MODULE MCLaunchpad ----------------------------
(***************************************************************************)
(* Configurations and symmetry for TLC.                                    *)
(***************************************************************************)
EXTENDS LaunchpadLedger, LaunchpadRefinement, TLC

CONSTANTS w1, w2, b1, b2

(* A stake of 10 lamports, 10% refund fee, two backers to launch, 800       *)
(* tokens per milestone.  The tokens minted are the budget for two cycles. *)
BaseConfig ==
    [amountToRaisePerUser |-> 10, totalMint |-> 3200,
     totalPoolTokens |-> 300, makerTokenAmount |-> 100,
     totalAirdropAmountPerMilestone |-> 800, minBackers |-> 2,
     maxBackedProposals |-> 2, refundFeeBasisPoints |-> 1000]

OneConfig == {BaseConfig}

(* One open backing per backer, and the budget for a single cycle; the     *)
(* operator changes the launch target and the refund fee (to a value out   *)
(* of range), the stake stays.                                             *)
OneSlot == [BaseConfig EXCEPT !.maxBackedProposals = 1, !.totalMint = 2300]

SameStakeConfigs ==
    {OneSlot,
     [OneSlot EXCEPT !.minBackers = 1, !.refundFeeBasisPoints = 20000]}

OneSlotConfig == {OneSlot}

(* A launch needs a single backer, and one airdrop leaves fewer tokens in  *)
(* a vault than a burn may need; the operator sometimes sets fewer tokens  *)
(* per milestone than two backers.                                         *)
OneBacker == [BaseConfig EXCEPT !.minBackers = 1, !.totalMint = 1290]

ShareConfigs ==
    {OneBacker, [OneBacker EXCEPT !.totalAirdropAmountPerMilestone = 1]}

(* A launch needs a single backer, and the vault has tokens for little     *)
(* more than one airdrop.                                                  *)
ScarceConfig == {[BaseConfig EXCEPT !.minBackers = 1, !.totalMint = 1700]}

(* The operator changes the stake.                                         *)
TwoStakeConfigs ==
    {BaseConfig, [BaseConfig EXCEPT !.amountToRaisePerUser = 15]}

BackerSymmetry == Permutations({b1, b2})
=============================================================================
