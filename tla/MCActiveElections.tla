------------------------- MODULE MCActiveElections -------------------------
EXTENDS ActiveElections

EvenWeight == [v \in Rep \cup {NotAnAccount} |-> IF v \in Rep THEN 1 ELSE 0]
=============================================================================
