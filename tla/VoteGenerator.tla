---------------------------- MODULE VoteGenerator ----------------------------
(***************************************************************************)
(* The final votes of this node's own representatives for one root         *)
(* (node/src/consensus/vote_generation): the generator of final votes, the *)
(* final vote table and the replies of the request aggregator.  All        *)
(* representatives of the node vote alike, so that a vote is a hash.       *)
(* Votes that are not final bind nobody: the node may have sent one for    *)
(* any block at some time, and they are not recorded.                      *)
(***************************************************************************)
EXTENDS VotingWeight

VARIABLES
    ledgerBlock,    \* the block of this root that is in the ledger, or None
    cemented,       \* the cemented block of this root, or None
    finalStore,     \* the final vote table: the hash stored for this root
    requested,      \* vote_generation_queue
    candidates,     \* Queues::candidates, verified hashes to be broadcast
    replies,        \* Queues::requests, hashes a peer has asked for
    sent            \* every final vote ever sent

store == <<ledgerBlock, cemented, finalStore, sent>>
generator == <<requested, candidates, replies>>

GeneratorInit ==
    /\ finalStore = None /\ sent = {}
    /\ requested = {} /\ candidates = {} /\ replies = {}

(* After a restart the queues are empty.                                   *)
GeneratorStart == requested' = {} /\ candidates' = {} /\ replies' = {}

(* The final vote table is not consulted.                                  *)
ShouldVoteFinal_Unstored(h) == ledgerBlock = h

(* The block must be in the ledger, and the final vote table must hold no  *)
(* other hash for the root.                                                *)
ShouldVoteFinal(h) == ledgerBlock = h /\ finalStore \in {None, h}

(* process_batch: the hash is stored in the final vote table, and then     *)
(* waits to be broadcast.  The blocks it depends on may not be confirmed.  *)
VoteFinal(h) ==
    /\ h \in requested
    /\ requested' = requested \ {h}
    /\ \/ UNCHANGED <<finalStore, candidates>>
       \/ /\ ShouldVoteFinal(h)
          /\ finalStore' = h /\ candidates' = candidates \cup {h}
    /\ UNCHANGED <<ledgerBlock, cemented, replies, sent>>

(* VoteSpacing: nothing is sent if a vote for another block of the root    *)
(* was sent a moment ago.                                                  *)
Send(h) == sent' = sent \cup {h} \/ UNCHANGED sent

(* The generator's thread sends a verified vote, without another look at   *)
(* the ledger.                                                             *)
Broadcast(h) ==
    /\ h \in candidates
    /\ candidates' = candidates \ {h}
    /\ Send(h)
    /\ UNCHANGED <<ledgerBlock, cemented, finalStore, requested, replies>>

(* Any block of the ledger gets a final vote.                              *)
Request_Any ==
    \E h \in {ledgerBlock} \ {None} :
        /\ replies' = replies \cup {h}
        /\ UNCHANGED <<ledgerBlock, cemented, finalStore, requested, candidates, sent>>

(* A request of a peer: the aggregator asks for a final vote for the block *)
(* in the final vote table, or else for a cemented one; there is no answer *)
(* for a block that is neither.                                            *)
Request ==
    \E h \in {ledgerBlock} \ {None} :
        /\ h = finalStore \/ h = cemented
        /\ replies' = replies \cup {h}
        /\ UNCHANGED <<ledgerBlock, cemented, finalStore, requested, candidates, sent>>

(* reply: the vote is sent without asking the table or the ledger again.   *)
Reply(h) ==
    /\ h \in replies
    /\ replies' = replies \ {h}
    /\ Send(h)
    /\ UNCHANGED <<ledgerBlock, cemented, finalStore, requested, candidates>>
=============================================================================
