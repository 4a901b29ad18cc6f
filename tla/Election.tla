------------------------------ MODULE Election ------------------------------
(***************************************************************************)
(* One election (node/src/consensus/election.rs) and the threads that lock *)
(* it: vote threads (vote_applier.rs), the request loop, the schedulers    *)
(* and the block processor that adds forks (active_elections.rs).          *)
(***************************************************************************)
EXTENDS VotingWeight

CONSTANTS
    Time,           \* timestamps of votes that are not final
    MaxBlocks       \* ELECTION_MAX_BLOCKS

VARIABLES
    state, winner, blocks,
    votes,          \* last_votes: the last vote of every voter
    finalWeight,    \* final_weight
    tally,          \* last_tally
    routed,         \* the hashes whose votes were ever routed to the election
    active,         \* whether it is in the roots of ActiveElections
    poisoned,       \* whether a thread panicked while it held the mutex
    loop,           \* what the request loop is about to do with it
    processor,      \* what the block processor does with a fork
    finalOf         \* the block each representative has voted final for, or None

counts == <<votes, finalWeight, tally>>
vars == <<state, winner, blocks, counts, routed, active, poisoned, loop, processor,
          finalOf>>

Final == 1000       \* u64::MAX, the timestamp of a final vote
NoVote == [time |-> 0, hash |-> 0]
Idle == [pc |-> "idle"]

ASSUME ElectionAssumption ==
    Time \subseteq 1..(Final - 1) /\ MaxBlocks \in Nat \ {0, 1} /\ None \notin Hash

(* A new election knows its block, and a vote of nobody for it.            *)
Init ==
    /\ state = "Passive" /\ winner \in Hash /\ blocks = {winner} /\ routed = {winner}
    /\ votes = [v \in Voter |-> IF v = NotAnAccount THEN [time |-> 0, hash |-> winner] ELSE NoVote]
    /\ finalWeight = 0 /\ tally = {}
    /\ active = TRUE /\ poisoned = FALSE /\ loop = "idle" /\ processor = Idle
    /\ finalOf = [rep \in Rep |-> None]

(* The winner, the state and the blocks are what the lifecycle is about.   *)
Lifecycle ==
    INSTANCE ElectionLifecycle WITH state <- state, winner <- winner, blocks <- blocks

IsConfirmed == state \in {"Confirmed", "ExpiredConfirmed"}

(* replace_by_weight may hold the mutex for ever, and whoever locks it     *)
(* after a panic panics too.                                               *)
Lockable == processor.pc # "hung" /\ ~poisoned

-----------------------------------------------------------------------------
(* tally_impl                                                              *)

Voters(ballots, h) == {v \in Voter : ballots[v].hash = h}

(* The timestamp is not looked at.                                         *)
FinalVoters_AnyTime(ballots, h) == Voters(ballots, h)

FinalVoters(ballots, h) == {v \in Voters(ballots, h) : ballots[v].time = Final}
BlockWeight(ballots, h) == WeightOf(Voters(ballots, h))
Tallied(ballots) == {ballots[v].hash : v \in Voter} \ {0}

(* The result is keyed by weight: of two blocks of the same weight one is  *)
(* forgotten, whichever the hash map lists first.                          *)
TallyKeys(ballots) == {BlockWeight(ballots, h) : h \in Tallied(ballots) \cap blocks}
First(keys) == IF keys = {} THEN 0 ELSE Max(keys)
Second(keys) == First(keys \ {First(keys)})
HaveQuorum(keys) == First(keys) - Second(keys) >= Delta
Leaders(ballots) ==
    LET most == First(TallyKeys(ballots))
    IN {h \in Tallied(ballots) \cap blocks : BlockWeight(ballots, h) = most}

(* The weight of the leader's final votes is stored if it has any.         *)
FinalCount(ballots, leader) ==
    IF FinalVoters(ballots, leader) # {} THEN WeightOf(FinalVoters(ballots, leader))
    ELSE finalWeight

Count(ballots, leader) ==
    /\ tally' = {<<h, BlockWeight(ballots, h)>> : h \in Tallied(ballots)}
    /\ finalWeight' = FinalCount(ballots, leader)

-----------------------------------------------------------------------------
(* Votes                                                                   *)

(* A vote replaces the last one of its representative if it is newer, or   *)
(* as new and for a larger hash.  One within the cooldown is ignored, as if *)
(* it had not come.                                                        *)
Accepts(rep, time, h) ==
    LET last == votes[rep]
    IN last = NoVote \/ last.time < time \/ (last.time = time /\ last.hash < h)

(* remove_votes: when the local vote history, a bounded cache, lists own   *)
(* votes for the former winner, the last votes of the own representatives  *)
(* are taken back, whatever they are for.                                  *)
WithoutOwnVotes(ballots) == [v \in Voter |-> IF v \in Own THEN NoVote ELSE ballots[v]]

Decide(ballots) ==
    \E leader \in Leaders(ballots), keys \in {TallyKeys(ballots)} :
        LET switch == SumSet(keys) >= Delta /\ leader # winner
        IN /\ Count(ballots, leader)
           /\ winner' = IF switch THEN leader ELSE winner
           /\ votes' \in IF switch THEN {ballots, WithoutOwnVotes(ballots)} ELSE {ballots}
           /\ state' = IF HaveQuorum(keys) /\ finalWeight' >= Delta THEN "Confirmed" ELSE state
           /\ UNCHANGED poisoned

(* confirm_if_quorum takes it for granted that the tally is not empty.     *)
(* After a fork was replaced it may be: votes for a block that is gone are *)
(* not in it.                                                              *)
ConfirmIfQuorum(ballots) ==
    IF Leaders(ballots) # {} THEN Decide(ballots)
    ELSE /\ Count(ballots, 0)
         /\ votes' = ballots /\ poisoned' = TRUE
         /\ UNCHANGED <<state, winner>>

(* A vote thread looks the election up in the router and applies the vote  *)
(* later, when the route may be gone and the election erased.  A           *)
(* representative votes final for one block only.  Votes after the         *)
(* confirmation are recorded but never counted, and left out.              *)
Vote(rep, time, h) ==
    /\ Lockable /\ ~IsConfirmed /\ h \in routed
    /\ IF time = Final
       THEN finalOf[rep] \in {None, h} /\ finalOf' = [finalOf EXCEPT ![rep] = h]
       ELSE UNCHANGED finalOf
    /\ Weight[rep] > 0 /\ Accepts(rep, time, h)
    /\ ConfirmIfQuorum([votes EXCEPT ![rep] = [time |-> time, hash |-> h]])
    /\ UNCHANGED <<blocks, routed, active, loop, processor>>

(* broadcast_vote asks for an own vote, and counts the votes to find out   *)
(* which.                                                                  *)
BroadcastVote ==
    \/ UNCHANGED <<tally, finalWeight>>
    \/ /\ Own # {} /\ ~IsConfirmed
       /\ \E leader \in IF Leaders(votes) = {} THEN {0} ELSE Leaders(votes) : Count(votes, leader)

(* insert, for a new election or one it finds.                             *)
Inserted ==
    /\ Lockable
    /\ BroadcastVote
    /\ UNCHANGED <<state, winner, blocks, votes, routed, active, poisoned, loop,
                   processor, finalOf>>

(* A full bucket cancels an election; a manual election becomes active at  *)
(* once.  Both hold the election, which may have been erased since.        *)
ChangeState(to) ==
    /\ Lockable /\ Lifecycle!ValidChange(state, to)
    /\ state' = to
    /\ UNCHANGED <<winner, blocks, counts, routed, active, poisoned, loop, processor, finalOf>>

Cancel == ChangeState("Cancelled")
TransitionActive == ChangeState("Active")

(* block_cemented: the winner was cemented with a block after it, for      *)
(* which quorum voted final on it.                                         *)
BlockCemented ==
    /\ Lockable /\ ~IsConfirmed
    /\ \E voters \in SUBSET {rep \in Rep : finalOf[rep] \in {None, winner}} :
          /\ WeightOf(voters) >= Delta
          /\ finalOf' = [rep \in Rep |-> IF rep \in voters THEN winner ELSE finalOf[rep]]
    /\ state' = "Confirmed"
    /\ UNCHANGED <<winner, blocks, counts, routed, active, poisoned, loop, processor>>

-----------------------------------------------------------------------------
(* The request loop                                                        *)

LoopRest == UNCHANGED <<winner, blocks, votes, routed, poisoned, processor, finalOf>>

(* request_confirm finds the election confirmed, and erases it.            *)
LoopCheck ==
    /\ loop = "idle" /\ active /\ Lockable
    /\ active' = ~IsConfirmed
    /\ loop' = IF IsConfirmed THEN "idle" ELSE "transition"
    /\ UNCHANGED <<state, tally, finalWeight>>
    /\ LoopRest

(* A cancelled election is left alone.                                     *)
TransitionTime_CancelledStays ==
    /\ loop = "transition" /\ Lockable
    /\ state \in {"Passive", "Active", "Cancelled"} /\ loop' = "idle"
    /\ UNCHANGED <<state, active, tally, finalWeight>>
    /\ LoopRest

(* transition_time: time may have come to become active, or to vote again. *)
TransitionTime ==
    /\ loop = "transition" /\ Lockable
    /\ \/ /\ state = "Passive" /\ state' \in {"Passive", "Active"}
          /\ UNCHANGED <<active, tally, finalWeight>>
       \/ /\ state = "Active" /\ BroadcastVote
          /\ UNCHANGED <<state, active>>
       \/ /\ state = "Confirmed" /\ state' = "ExpiredConfirmed" /\ active' = FALSE
          /\ UNCHANGED <<tally, finalWeight>>
       \/ /\ state = "Cancelled" /\ active' = FALSE
          /\ UNCHANGED <<state, tally, finalWeight>>
    /\ loop' = "idle"
    /\ LoopRest

(* The expired election is not erased.                                     *)
Expire_Kept ==
    /\ loop = "transition" /\ Lockable /\ state \in {"Passive", "Active"}
    /\ state' = "ExpiredUnconfirmed" /\ loop' = "idle"
    /\ UNCHANGED <<active, tally, finalWeight>>
    /\ LoopRest

(* The same when the time to live is over.                                 *)
Expire ==
    /\ loop = "transition" /\ Lockable /\ state \in {"Passive", "Active"}
    /\ state' = "ExpiredUnconfirmed" /\ active' = FALSE /\ loop' = "idle"
    /\ UNCHANGED <<tally, finalWeight>>
    /\ LoopRest

(* The rollback callback erases the election, whatever its state.          *)
RolledBack ==
    /\ processor = Idle /\ active /\ Lockable
    /\ active' = FALSE
    /\ UNCHANGED <<state, winner, blocks, counts, routed, poisoned, loop, processor, finalOf>>

-----------------------------------------------------------------------------
(* The block processor publishes a fork                                    *)

PublishRest == UNCHANGED <<state, winner, finalWeight, tally, active, poisoned, loop, finalOf>>

(* replace_by_weight with enough blocks in the tally, which is sorted by   *)
(* hash; inactive is the weight of the cached votes for the new block.     *)
ByHash(sorted) == CHOOSE t \in sorted : \A u \in sorted : u[1] <= t[1]

Replaced(inactive) ==
    LET first == ByHash(tally)
        second == ByHash(tally \ {first})
    IN IF inactive <= first[2] THEN None
       ELSE IF first[1] # winner THEN first[1]
       ELSE IF inactive > second[2] THEN second[1]
       ELSE None

(* replace_by_weight remembers the tally and the winner and gives the lock *)
(* back to look into the vote cache, of which any weight may come.  If     *)
(* the tally has too few blocks it locks the election twice.               *)
ReplaceByWeight(h) ==
    \E voters \in SUBSET Rep :
        LET inactive == WeightOf(voters)
        IN IF inactive = 0 THEN processor' = Idle
           ELSE IF Cardinality(tally) < MaxBlocks THEN processor' = [pc |-> "hung"]
           ELSE IF Replaced(inactive) = None THEN processor' = Idle
           ELSE processor' = [pc |-> "relock", block |-> h, replaced |-> Replaced(inactive)]

(* publish_block looks the election up, so that it may have been erased    *)
(* since, and connects a new block to it.                                  *)
Publish(h) ==
    /\ processor = Idle /\ Lockable /\ ~IsConfirmed /\ h \notin blocks
    /\ IF Cardinality(blocks) >= MaxBlocks
       THEN ReplaceByWeight(h) /\ UNCHANGED <<blocks, routed>>
       ELSE blocks' = blocks \cup {h} /\ routed' = routed \cup {h} /\ UNCHANGED processor
    /\ UNCHANGED votes
    /\ PublishRest

(* The block is removed even if it has become the winner.                  *)
Relock_Winner ==
    /\ processor.pc = "relock" /\ Lockable
    /\ blocks' = (blocks \ {processor.replaced}) \cup {processor.block}
    /\ routed' = routed \cup {processor.block}
    /\ processor' = Idle
    /\ UNCHANGED votes
    /\ PublishRest

(* The election is locked again and not asked again whether it is          *)
(* confirmed.  remove_block keeps the winner.                              *)
Relock ==
    /\ processor.pc = "relock" /\ Lockable
    /\ LET r == processor.replaced
       IN IF r = winner \/ r \notin blocks
          THEN blocks' = blocks \cup {processor.block} /\ UNCHANGED votes
          ELSE /\ blocks' = (blocks \ {r}) \cup {processor.block}
               /\ votes' = [v \in Voter |-> IF votes[v].hash = r THEN NoVote ELSE votes[v]]
    /\ routed' = routed \cup {processor.block}
    /\ processor' = Idle
    /\ PublishRest

-----------------------------------------------------------------------------
Next ==
    \/ \E rep \in Rep, time \in Time \cup {Final}, h \in Hash : Vote(rep, time, h)
    \/ Inserted \/ Cancel \/ TransitionActive \/ BlockCemented
    \/ LoopCheck \/ TransitionTime \/ Expire \/ RolledBack
    \/ \E h \in Hash : Publish(h)
    \/ Relock

Spec == Init /\ [][Next]_vars

Fairness ==
    /\ WF_vars(LoopCheck) /\ WF_vars(TransitionTime) /\ SF_vars(Expire)
    /\ WF_vars(Relock)

FairSpec == Spec /\ Fairness

-----------------------------------------------------------------------------
(* Properties                                                              *)

(* The election keeps the promises of ElectionLifecycle: state changes as  *)
(* valid_change allows, whichever thread makes them, there is always a     *)
(* winner among last_blocks, although replace_by_weight decides which      *)
(* block goes before it locks again, and a confirmed winner stays.         *)
ImplementsLifecycle == Lifecycle!Spec

(* confirm_once without a quorum of final votes for one block: the sum in  *)
(* final_weight may be old, but it once was the weight of voters who all   *)
(* voted final for the same block.                                         *)
FinalQuorum ==
    IsConfirmed => \E h \in Hash, voters \in SUBSET Rep :
                      /\ \A rep \in voters : finalOf[rep] = h
                      /\ WeightOf(voters) >= Delta

(* The request loop never reaches unreachable!() in transition_time: an    *)
(* election it found unconfirmed is not expired when it gets to it.        *)
LoopNeverPanics ==
    loop = "transition" => state \notin {"ExpiredConfirmed", "ExpiredUnconfirmed"}

(* Every election leaves ActiveElections, unless its mutex is never given  *)
(* back.                                                                   *)
ElectionEnds == <>(~active \/ ~Lockable)

=============================================================================
