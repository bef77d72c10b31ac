---------------------------- MODULE LaunchReply ----------------------------
(***************************************************************************)
(* The error a caller of create_pool gets, next to what the ledger keeps.  *)
(* An expired proposal without the backers it needs is marked rejected,    *)
(* the instruction then fails with ProposalRejected, and with the failure  *)
(* the mark is rolled back.                                                *)
(***************************************************************************)
EXTENDS Launchpad

VARIABLE toldRejected   \* proposals create_pool has called rejected

replyVars == <<vars, toldRejected>>

(* The condition under which create_pool sets is_rejected on its own.      *)
Expired(p) ==
    /\ now - timeStarted[p] >= BackingPeriod
    /\ ~TargetMet(p)

(* create_pool fails with ProposalRejected.                                *)
CreatePoolRejected(p) ==
    /\ p \in proposals
    /\ Expired(p) \/ p \in isRejected
    /\ toldRejected' = toldRejected \cup {p}
    /\ UNCHANGED vars

ReplyInit == Init /\ toldRejected = {}

ReplyNext ==
    \/ Next /\ UNCHANGED toldRejected
    \/ \E p \in Proposals : CreatePoolRejected(p)

ReplySpec == ReplyInit /\ [][ReplyNext]_replyVars

(* errors.rs:26 "This proposal has been rejected. You may claim your       *)
(* refund.": whoever is told so finds the proposal rejected, as refund     *)
(* requires.                                                               *)
ToldIsRejected == toldRejected \subseteq isRejected
=============================================================================
