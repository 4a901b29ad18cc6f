-------------------------- MODULE MCBlockProcessor --------------------------
(***************************************************************************)
(* Small sets of blocks for the block processor.                           *)
(***************************************************************************)
EXTENDS BlockProcessor, MCBlocks

MCSource == {"live", "unchecked", "local", "forced"}
MCRank == [live |-> 1, unchecked |-> 5, local |-> 6, forced |-> 7]
MCPriority == [live |-> 1, unchecked |-> 2, local |-> 2, forced |-> 1]
MCMaxSize == [live |-> 2, unchecked |-> 2, local |-> 1, forced |-> 1]

(* A send, an epoch block that opens its destination before it receives,   *)
(* the block that receives it, which makes three kinds of gaps, and a fork *)
(* of the send that wins its election.                                     *)
ForkBlocks ==
    [G |-> GenesisOpen,
     s1 |-> State("G", "g", 2, "b", "g"),
     eb |-> EpochUpgrade(Zero, "b", 0, Zero),
     rb |-> State("eb", "b", 2, "s1", "b"),
     f1 |-> State("G", "g", 3, "a", "g")]
ForkHash == DOMAIN ForkBlocks
ForkDeliveries == [h \in ForkHash |-> IF h \in {"G", "f1", "s1"} THEN 0 ELSE 1]
ForkWinner == {"f1"}
=============================================================================
