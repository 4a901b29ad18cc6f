-------------------------- MODULE ElectionLifecycle --------------------------
(***************************************************************************)
(* What an election promises: it always has a winner among its blocks, its *)
(* state only changes as valid_change (election.rs) allows, except that a  *)
(* late vote may confirm an election that was given up, and once it is     *)
(* confirmed neither that nor the winner changes.                          *)
(***************************************************************************)
CONSTANT Hash

VARIABLES state, winner, blocks

Decided == state \in {"Confirmed", "ExpiredConfirmed"}

ValidChange(from, to) ==
    \/ from = "Passive" /\ to \in {"Active", "Confirmed", "ExpiredUnconfirmed", "Cancelled"}
    \/ from = "Active" /\ to \in {"Confirmed", "ExpiredUnconfirmed", "Cancelled"}
    \/ from = "Confirmed" /\ to = "ExpiredConfirmed"

Init == state = "Passive" /\ winner \in Hash /\ blocks = {winner}

(* A fork joins, perhaps in the place of another block.                    *)
Fork(h) ==
    /\ \E r \in {{}} \cup {{b} : b \in blocks \ {winner}} : blocks' = (blocks \ r) \cup {h}
    /\ UNCHANGED <<state, winner>>

ChangeWinner(h) ==
    /\ ~Decided /\ h \in blocks
    /\ winner' = h
    /\ UNCHANGED <<state, blocks>>

Confirm(h) ==
    /\ ~Decided /\ h \in blocks
    /\ state' = "Confirmed" /\ winner' = h
    /\ UNCHANGED blocks

Age(to) ==
    /\ to # "Confirmed" /\ ValidChange(state, to)
    /\ state' = to
    /\ UNCHANGED <<winner, blocks>>

Next ==
    \/ \E h \in Hash : Fork(h) \/ ChangeWinner(h) \/ Confirm(h)
    \/ \E to \in {"Active", "ExpiredConfirmed", "ExpiredUnconfirmed", "Cancelled"} : Age(to)

Spec == Init /\ [][Next]_<<state, winner, blocks>>
=============================================================================
