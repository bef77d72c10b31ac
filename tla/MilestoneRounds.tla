-------------------------- MODULE MilestoneRounds --------------------------
(***************************************************************************)
(* What a milestone promises: a round settles every backer on the roll     *)
(* exactly once, in any order, and ends when all are settled; the roll     *)
(* does not change while a round runs; the next round begins afresh.       *)
(***************************************************************************)
CONSTANTS Proposals, Backers

VARIABLES
    running,   \* proposals with a round that runs
    roll,      \* roll[p]: who takes part
    settled    \* settled[p]: who has been settled in this round

roundVars == <<running, roll, settled>>

Init ==
    /\ running = {}
    /\ roll = [p \in Proposals |-> {}]
    /\ settled = [p \in Proposals |-> {}]

(* Between rounds backers come and go.                                     *)
Enrol(p) ==
    /\ p \notin running
    /\ \E who \in SUBSET Backers : roll' = [roll EXCEPT ![p] = who]
    /\ UNCHANGED <<running, settled>>

Start(p) ==
    /\ p \notin running
    /\ settled[p] = {}
    /\ running' = running \cup {p}
    /\ UNCHANGED <<roll, settled>>

Settle(p, b) ==
    /\ p \in running
    /\ b \in roll[p] \ settled[p]
    /\ settled' = [settled EXCEPT ![p] = @ \cup {b}]
    /\ UNCHANGED <<running, roll>>

Finish(p) ==
    /\ p \in running
    /\ settled[p] = roll[p]
    /\ running' = running \ {p}
    /\ settled' = [settled EXCEPT ![p] = {}]
    /\ UNCHANGED roll

Next ==
    \/ \E p \in Proposals : Enrol(p) \/ Start(p) \/ Finish(p)
    \/ \E p \in Proposals, b \in Backers : Settle(p, b)

Spec == Init /\ [][Next]_roundVars
=============================================================================
