------------------------ MODULE LaunchpadRefinement ------------------------
(***************************************************************************)
(* The program, without its repair tools and with one stake for everybody, *)
(* implements the escrow that backers are promised, and its milestones are *)
(* rounds that settle every backer once.                                   *)
(***************************************************************************)
EXTENDS Launchpad

(* The operator may change the configuration, but not the stake.           *)
OneStake ==
    \A c, d \in ConfigChoices : c.amountToRaisePerUser = d.amountToRaisePerUser

CommonStake == (CHOOSE c \in ConfigChoices : TRUE).amountToRaisePerUser

PhaseOf(p) ==
    IF p \in isPoolLaunched THEN "launched"
    ELSE IF p \in isRejected THEN "rejected"
    ELSE IF p \in proposals THEN "open"
    ELSE "none"

(* A launch turns the stakes into WSOL; the Backers accounts stay open.    *)
HeldFor(p) == IF p \in isPoolLaunched THEN {} ELSE backersOf[p]

E == INSTANCE Escrow WITH
         Stake <- CommonStake, Overhead <- PoolRent, Endowment <- Float,
         phase <- [p \in Proposals |-> PhaseOf(p)],
         held <- [p \in Proposals |-> HeldFor(p)],
         fund <- vaultAuthority

(* Every deposit is held in the vault authority until it is spent on its   *)
(* own pool or refunded, once: no order of deposits, launches, rejections  *)
(* and refunds of several proposals loses, doubles or crosses a stake.     *)
EscrowSpec == E!Spec

R == INSTANCE MilestoneRounds WITH
         running <- milestoneActive,
         roll <- backersOf,
         settled <- [p \in Proposals |-> SettledBackers(p)]

(* A milestone settles every backer once and ends when all are settled,    *)
(* although the program only counts snapshots (milestone_backers_weighted) *)
(* and compares cycle numbers (settle_cycle), and deposits and refunds     *)
(* change the set of backers.                                              *)
RoundsSpec == R!Spec
=============================================================================
