---------------------------- MODULE MCWriteQueue ----------------------------
(* Bounded instances of WriteQueue: the node's writer threads by name.     *)
EXTENDS WriteQueue

CONSTANTS ConfirmationHeight, BlockProcessor, VotingFinal, Pruning, PeerCache

MCWriters == {ConfirmationHeight, BlockProcessor, VotingFinal, Pruning}
MCNotifiers == {ConfirmationHeight}
MCOutsiders == {PeerCache}

=============================================================================
