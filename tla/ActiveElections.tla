--------------------------- MODULE ActiveElections ---------------------------
(***************************************************************************)
(* The elections of one qualified root, one after the other: the           *)
(* schedulers that insert them, the request loop that erases them, the     *)
(* votes, the winner that is forced into the ledger, the workers that wait *)
(* for it there, the confirming set and this node's own final votes        *)
(* (node/src/consensus/active_elections.rs, vote_applier.rs,               *)
(* recently_confirmed_cache.rs).                                           *)
(*                                                                         *)
(* Of an election only the winner is kept, and whether it is confirmed     *)
(* or once had quorum; Election has the rest.  What the count of votes     *)
(* leads to is left open, except that a decision needs a quorum of final   *)
(* votes for the winner.                                                   *)
(***************************************************************************)
EXTENDS VoteGenerator, Sequences

CONSTANTS
    MaxElections,   \* how many elections the root has between two restarts
    MaxForced,      \* forced blocks waiting in the block processor
    MaxRetries      \* max_iterations of process_confirmed

VARIABLES
    elections,      \* the elections of this root, by number
    current,        \* the number of the one in roots, or 0
    recent,         \* the hash in the recently confirmed cache, or None
    erasing,        \* whether the request loop is about to erase the root
    forced,         \* the forced blocks in the queue of the block processor
    tasks,          \* process_confirmed on the workers
    confirming,     \* the confirming set
    decided,        \* every hash an election was confirmed with
    remoteFinal     \* the block each other representative votes final for

volatile == <<elections, current, recent, erasing, forced, tasks, confirming>>
activeVars == <<store, generator, volatile, decided, remoteFinal>>

NoElection == 0
Remote == Rep \ Own

ASSUME ActiveAssumption ==
    /\ MaxElections \in Nat \ {0} /\ MaxForced \in Nat /\ MaxRetries \in Nat
    /\ None \notin Hash

(* OnlineReps::quorum_delta is 67% of the weight that votes, so that two   *)
(* quorums have a representative in common.                                *)
ASSUME QuorumAssumption ==
    \A Q, R \in SUBSET Rep :
        WeightOf(Q) >= Delta /\ WeightOf(R) >= Delta => Q \cap R # {}

VolatileInit ==
    /\ elections = <<>> /\ current = NoElection /\ recent = None /\ erasing = FALSE
    /\ forced = <<>> /\ tasks = {} /\ confirming = {}

ActiveInit ==
    /\ ledgerBlock = None /\ cemented = None
    /\ GeneratorInit /\ VolatileInit
    /\ decided = {}
    /\ remoteFinal \in [Remote -> Hash]

-----------------------------------------------------------------------------
(* Votes                                                                   *)

(* confirm_once: the winner is remembered, handed to the confirming set    *)
(* and to a worker that waits for it to reach the ledger.                  *)
ConfirmOnce(n, e) ==
    /\ elections' = [elections EXCEPT ![n] = [e EXCEPT !.confirmed = TRUE]]
    /\ recent' = IF recent = None THEN e.winner ELSE recent
    /\ confirming' = confirming \cup {e.winner}
    /\ tasks' = tasks \cup {[hash |-> e.winner, iteration |-> 0]}
    /\ decided' = decided \cup {e.winner}

(* The representatives that vote final for h.                              *)
FinalFor(h) == {rep \in Remote : remoteFinal[rep] = h} \cup (IF h \in sent THEN Own ELSE {})

(* vote and confirm_if_quorum, in an election that may have been erased.   *)
(* A new winner is forced into the ledger; a final vote is asked for with  *)
(* the hash of the former winner.                                          *)
ApplyVote(n, leader, quorum) ==
    /\ ~elections[n].confirmed
    /\ LET e == elections[n]
           next == [e EXCEPT !.winner = leader, !.isQuorum = @ \/ quorum]
       IN /\ leader # e.winner => Len(forced) < MaxForced
          /\ forced' = IF leader # e.winner THEN Append(forced, leader) ELSE forced
          /\ requested' = IF quorum /\ ~e.isQuorum /\ Own # {}
                          THEN requested \cup {e.winner} ELSE requested
          /\ \/ /\ quorum /\ WeightOf(FinalFor(leader)) >= Delta
                /\ ConfirmOnce(n, next)
             \/ /\ elections' = [elections EXCEPT ![n] = next]
                /\ UNCHANGED <<recent, confirming, tasks, decided>>
    /\ UNCHANGED <<store, candidates, replies, current, erasing, remoteFinal>>

(* broadcast_vote, if enough time has passed since the last one: a final   *)
(* vote is asked for if the election is confirmed or has quorum.           *)
BroadcastVoteLocked(n) ==
    /\ \/ UNCHANGED requested
       \/ Own # {} /\ requested' = requested \cup {elections[n].winner}
    /\ UNCHANGED <<candidates, replies>>

-----------------------------------------------------------------------------
(* The schedulers                                                          *)

NewElection(h) == [winner |-> h, isQuorum |-> FALSE, confirmed |-> FALSE]

(* A scheduler inserts a block it has read some time ago.                  *)
Insert(h) ==
    /\ current = NoElection /\ recent = None /\ Len(elections) < MaxElections
    /\ elections' = Append(elections, NewElection(h))
    /\ current' = Len(elections) + 1
    /\ UNCHANGED <<store, generator, recent, erasing, forced, tasks, confirming, decided,
                   remoteFinal>>

InsertAgain ==
    /\ current # NoElection
    /\ BroadcastVoteLocked(current)
    /\ UNCHANGED <<store, volatile, decided, remoteFinal>>

-----------------------------------------------------------------------------
(* The request loop                                                        *)

(* request_confirm finds the election confirmed, cancelled or expired.     *)
RequestConfirm ==
    /\ current # NoElection /\ ~erasing
    /\ erasing' = TRUE
    /\ UNCHANGED <<store, generator, elections, current, recent, forced, tasks, confirming,
                   decided, remoteFinal>>

(* transition_time of an election that is still to run.                    *)
TransitionVote ==
    /\ current # NoElection
    /\ BroadcastVoteLocked(current)
    /\ UNCHANGED <<store, volatile, decided, remoteFinal>>

(* It erases whichever election of the root there is by now.               *)
LoopErase ==
    /\ erasing
    /\ current' = NoElection /\ erasing' = FALSE
    /\ UNCHANGED <<store, generator, elections, recent, forced, tasks, confirming, decided,
                   remoteFinal>>

-----------------------------------------------------------------------------
(* The block processor                                                     *)

ProcessorRest == UNCHANGED <<cemented, finalStore, sent, generator, elections, recent, erasing,
                             tasks, confirming, decided, remoteFinal>>

(* A block is inserted, or is a fork of the one in the ledger.             *)
ProcessLive(h) ==
    /\ ledgerBlock = None
    /\ ledgerBlock' = h
    /\ UNCHANGED <<current, forced>>
    /\ ProcessorRest

(* The rollback does not ask what is cemented.                             *)
ProcessForced_Always ==
    /\ forced # <<>>
    /\ ledgerBlock' = Head(forced)
    /\ forced' = Tail(forced)
    /\ UNCHANGED current
    /\ ProcessorRest

(* A forced block replaces its competitor, unless that is cemented; it may *)
(* turn out that it cannot be inserted.                                    *)
ProcessForced ==
    /\ forced # <<>>
    /\ ledgerBlock' \in IF cemented = None THEN {Head(forced), None} ELSE {ledgerBlock}
    /\ forced' = Tail(forced)
    /\ UNCHANGED current
    /\ ProcessorRest

(* The rollback of another block takes this one with it, and the election  *)
(* is erased.                                                              *)
CancelRolledBack ==
    /\ ledgerBlock # None /\ cemented = None
    /\ ledgerBlock' = None /\ current' = NoElection
    /\ UNCHANGED forced
    /\ ProcessorRest

-----------------------------------------------------------------------------
(* Cementing                                                               *)

CementRest == UNCHANGED <<ledgerBlock, finalStore, sent, generator, current, erasing, forced,
                          remoteFinal>>

(* process_confirmed on a worker: the winner may not be in the ledger yet. *)
RunTask(t) ==
    /\ t \in tasks
    /\ IF ledgerBlock = t.hash
       THEN /\ confirming' = confirming \cup {t.hash}
            /\ tasks' = tasks \ {t} /\ UNCHANGED recent
       ELSE IF t.iteration < MaxRetries
       THEN /\ tasks' = (tasks \ {t}) \cup {[t EXCEPT !.iteration = @ + 1]}
            /\ UNCHANGED <<confirming, recent>>
       ELSE /\ tasks' = tasks \ {t}
            /\ recent' = IF recent = t.hash THEN None ELSE recent
            /\ UNCHANGED confirming
    /\ UNCHANGED <<cemented, elections, decided>>
    /\ CementRest

(* The confirming set (ConfirmingSet.tla) cements a block that is in the   *)
(* ledger and forgets one that is not.                                     *)
Cement(h) ==
    /\ h \in confirming
    /\ confirming' = confirming \ {h}
    /\ cemented' = IF ledgerBlock = h THEN h ELSE cemented
    /\ UNCHANGED <<elections, recent, tasks, decided>>
    /\ CementRest

(* A block after this one is cemented, and this one with it.  Quorum voted *)
(* final for this block before.                                            *)
SuccessorCemented ==
    /\ ledgerBlock # None /\ cemented = None
    /\ WeightOf(FinalFor(ledgerBlock)) >= Delta
    /\ cemented' = ledgerBlock
    /\ UNCHANGED <<elections, recent, tasks, confirming, decided>>
    /\ CementRest

(* block_cemented, some time later: an election for the block that is      *)
(* still undecided is confirmed.                                           *)
TryConfirm ==
    /\ cemented # None /\ current # NoElection
    /\ elections[current].winner = cemented /\ ~elections[current].confirmed
    /\ ConfirmOnce(current, elections[current])
    /\ UNCHANGED cemented
    /\ CementRest

(* The recently confirmed cache is full of other roots.                    *)
Evict ==
    /\ recent # None /\ recent' = None
    /\ UNCHANGED <<cemented, elections, tasks, confirming, decided>>
    /\ CementRest

-----------------------------------------------------------------------------
(* The node stops or dies, and starts again with what is in the database.  *)
Restart ==
    /\ elections' = <<>> /\ current' = NoElection /\ recent' = None /\ erasing' = FALSE
    /\ forced' = <<>> /\ tasks' = {} /\ confirming' = {} /\ GeneratorStart
    /\ UNCHANGED <<store, decided, remoteFinal>>

Generate ==
    /\ Request \/ \E h \in Hash : VoteFinal(h) \/ Broadcast(h) \/ Reply(h)
    /\ UNCHANGED <<volatile, decided, remoteFinal>>

ActiveNext ==
    \/ \E n \in DOMAIN elections, h \in Hash, quorum \in BOOLEAN : ApplyVote(n, h, quorum)
    \/ \E h \in Hash : Insert(h) \/ ProcessLive(h)
    \/ InsertAgain \/ RequestConfirm \/ TransitionVote \/ LoopErase
    \/ ProcessForced \/ CancelRolledBack
    \/ \E t \in tasks : RunTask(t)
    \/ \E h \in confirming : Cement(h)
    \/ SuccessorCemented \/ TryConfirm \/ Evict \/ Restart \/ Generate

ActiveSpec == ActiveInit /\ [][ActiveNext]_activeVars

-----------------------------------------------------------------------------
(* Properties                                                              *)

(* Whatever happens between elections, restarts, rollbacks and evictions   *)
(* from the recently confirmed cache, all that was ever decided or         *)
(* cemented for a root is one block.                                       *)
Agreement == Cardinality(decided \cup ({cemented} \ {None})) <= 1

(* Two final votes of this node for different blocks of a root: however    *)
(* often the winner changes and the node restarts, there is one for the    *)
(* hash in the final vote table and at most one other, in a reply, for the *)
(* block that is cemented.                                                 *)
OwnFinalVotes == sent \subseteq {finalStore, cemented}

(* A cemented block stays in the ledger, although an election that was     *)
(* not told of it may still force a competitor.                            *)
CementedStays == cemented # None => ledgerBlock = cemented
=============================================================================
