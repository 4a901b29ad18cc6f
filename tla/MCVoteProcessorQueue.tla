------------------------ MODULE MCVoteProcessorQueue ------------------------
(***************************************************************************)
(* Two channels; a representative of tier 1 votes through the second one.  *)
(***************************************************************************)
EXTENDS VoteProcessorQueue

MCSource == {"none_1", "tier1_2"}
MCRank == [none_1 |-> 1, tier1_2 |-> 2]
MCMaxSize == [none_1 |-> 2, tier1_2 |-> 1]
MCPriority == [none_1 |-> 1, tier1_2 |-> 2]
MCChannelOf == [none_1 |-> 1, tier1_2 |-> 2]
=============================================================================
