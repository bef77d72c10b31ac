------------------------------- MODULE MCFees -------------------------------
(***************************************************************************)
(* Configurations for TLC: fee collection.                                 *)
(***************************************************************************)
EXTENDS FeeCollection

(* A stake of 10 lamports, no refund fee, one backer to launch; the tokens *)
(* minted last for two airdrops, and the WSOL of a top-up for one.         *)
SoloConfig ==
    {[amountToRaisePerUser |-> 10, totalMint |-> 410,
      totalPoolTokens |-> 300, makerTokenAmount |-> 100,
      totalAirdropAmountPerMilestone |-> 5, minBackers |-> 1,
      maxBackedProposals |-> 2, refundFeeBasisPoints |-> 0]}

(* Temporary WSOL accounts handed to the program from outside.             *)
AllTemps == Proposals \X Recipients

NoTemps == {}
=============================================================================
