------------------------------- MODULE Escrow -------------------------------
(***************************************************************************)
(* What backers are promised: a stake is held from the moment it is paid   *)
(* until, once, it either goes into the pool of its own proposal, or comes *)
(* back because that proposal was rejected.  Stakes are fungible: one fund *)
(* holds them all, and pays an overhead for each pool.                     *)
(***************************************************************************)
EXTENDS Integers, FiniteSets

CONSTANTS Proposals, Backers, Stake, Overhead, Endowment

VARIABLES
    phase,   \* of each proposal
    held,    \* held[p]: the backers whose stake on p is in the fund
    fund

escrowVars == <<phase, held, fund>>

Phases == {"none", "open", "launched", "rejected"}

Init ==
    /\ phase = [p \in Proposals |-> "none"]
    /\ held = [p \in Proposals |-> {}]
    /\ fund = Endowment

Move(p, from, to) ==
    phase[p] = from /\ phase' = [phase EXCEPT ![p] = to]

Open(p) == Move(p, "none", "open") /\ UNCHANGED <<held, fund>>

Pay(p, b) ==
    /\ phase[p] = "open"
    /\ b \notin held[p]
    /\ held' = [held EXCEPT ![p] = @ \cup {b}]
    /\ fund' = fund + Stake
    /\ UNCHANGED phase

Launch(p) ==
    /\ Move(p, "open", "launched")
    /\ held' = [held EXCEPT ![p] = {}]
    /\ fund' = fund - (Stake * Cardinality(held[p]) + Overhead)

Reject(p) == Move(p, "open", "rejected") /\ UNCHANGED <<held, fund>>

Return(p, b) ==
    /\ phase[p] = "rejected"
    /\ b \in held[p]
    /\ held' = [held EXCEPT ![p] = @ \ {b}]
    /\ fund' = fund - Stake
    /\ UNCHANGED phase

Next ==
    \/ \E p \in Proposals : Open(p) \/ Launch(p) \/ Reject(p)
    \/ \E p \in Proposals, b \in Backers : Pay(p, b) \/ Return(p, b)

Spec == Init /\ [][Next]_escrowVars
=============================================================================
