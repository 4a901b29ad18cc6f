----------------------------- MODULE MCElection -----------------------------
EXTENDS Election

CONSTANTS own, r1

WeightsOf(o, a) == [v \in Rep \cup {NotAnAccount} |->
    CASE v = own -> o [] v = r1 -> a [] OTHER -> 0]
StrongRemoteWeight == WeightsOf(1, 2)

(* The election starts with the middle hash: of its forks one is smaller   *)
(* and one is larger.                                                      *)
MCInit == Init /\ winner = 2
MCSpec == MCInit /\ [][Next]_vars /\ Fairness
=============================================================================
