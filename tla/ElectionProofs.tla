--------------------------- MODULE ElectionProofs ---------------------------
(***************************************************************************)
(* What holds of an election for any number of representatives, blocks and *)
(* votes: it implements ElectionLifecycle, it is only confirmed after a    *)
(* quorum of final votes for one block, and the request loop never finds   *)
(* it in a state it takes for impossible.  And of all the elections of a   *)
(* root: with restarts, rollbacks and evictions between them, one block is *)
(* decided and cemented, the node's own final votes stay with it, and it   *)
(* stays in the ledger.                                                    *)
(***************************************************************************)
EXTENDS Election, ActiveElections, FiniteSetTheorems, TLAPS

USE DEF Final, NoVote

(* Votes f that are final for one block, with a weight of at least Delta.  *)
Quorum(f) ==
    \E h \in Hash, voters \in SUBSET Rep :
        (\A rep \in voters : f[rep] = h) /\ WeightOf(voters) >= Delta

TypeOK ==
    /\ state \in {"Passive", "Active", "Confirmed", "ExpiredConfirmed", "ExpiredUnconfirmed",
                  "Cancelled"}
    /\ winner \in Hash /\ blocks \subseteq Hash /\ routed \subseteq Hash
    /\ votes \in [Voter -> [time : Nat, hash : Hash \cup {0}]]
    /\ finalOf \in [Rep -> Hash \cup {None}]
    /\ active \in BOOLEAN /\ loop \in {"idle", "transition"}
    /\ processor.pc = "relock" => processor.block \in Hash

(* The last votes of representatives are what they have cast, and only     *)
(* representatives vote.                                                   *)
Cast(ballots, f) ==
    \A v \in Voter : ballots[v].time = Final =>
        v \in Rep /\ ballots[v].hash \in Hash /\ f[v] = ballots[v].hash

(* What the request loop may still find is not expired.                    *)
NotExpired ==
    active \/ loop = "transition" => state \notin {"ExpiredConfirmed", "ExpiredUnconfirmed"}

IInv ==
    /\ TypeOK
    /\ winner \in blocks
    /\ Cast(votes, finalOf)
    /\ finalWeight >= Delta \/ IsConfirmed => Quorum(finalOf)
    /\ NotExpired

-----------------------------------------------------------------------------
(* Final votes are not taken back by those who cast them, so that a quorum *)
(* stays one.                                                              *)
LEMMA QuorumStays ==
    ASSUME NEW f, NEW g, Quorum(f), \A rep \in Rep : f[rep] \in Hash => g[rep] = f[rep]
    PROVE  Quorum(g)
<1>1. PICK h \in Hash, voters \in SUBSET Rep :
         (\A rep \in voters : f[rep] = h) /\ WeightOf(voters) >= Delta
  BY DEF Quorum
<1>2. \A rep \in voters : g[rep] = h
  BY <1>1
<1> QED
  BY <1>1, <1>2 DEF Quorum

(* What is counted as the final weight of a block is the weight of those   *)
(* who voted final for it.                                                 *)
LEMMA CountedIsQuorum ==
    ASSUME NEW ballots, NEW leader, NEW f, Cast(ballots, f),
           finalWeight >= Delta => Quorum(f), FinalCount(ballots, leader) >= Delta
    PROVE  Quorum(f)
<1>1. CASE FinalVoters(ballots, leader) = {}
  BY <1>1 DEF FinalCount
<1>2. CASE FinalVoters(ballots, leader) # {}
  <2>1. FinalVoters(ballots, leader) \in SUBSET Rep
    BY DEF FinalVoters, Voters, Cast
  <2>2. \A v \in FinalVoters(ballots, leader) : f[v] = leader
    BY DEF FinalVoters, Voters, Cast
  <2>3. leader \in Hash
    BY <1>2 DEF FinalVoters, Voters, Cast
  <2>4. FinalCount(ballots, leader) = WeightOf(FinalVoters(ballots, leader))
    BY <1>2 DEF FinalCount
  <2> QED
    BY <2>1, <2>2, <2>3, <2>4 DEF Quorum
<1> QED
  BY <1>1, <1>2

(* The request for an own vote counts, and decides nothing.                *)
LEMMA BroadcastCounts ==
    ASSUME IInv, BroadcastVote, UNCHANGED finalOf
    PROVE  finalWeight' >= Delta => Quorum(finalOf)
<1>1. CASE UNCHANGED <<tally, finalWeight>>
  BY <1>1 DEF IInv
<1>2. ASSUME NEW leader, Count(votes, leader), finalWeight' >= Delta
      PROVE  Quorum(finalOf)
  BY <1>2, CountedIsQuorum DEF Count, IInv
<1> QED
  BY <1>1, <1>2 DEF BroadcastVote

-----------------------------------------------------------------------------
(* Every action, one by one                                                *)

(* A new election is a new election of the life cycle.                      *)
LEMMA InitIInv == Init => IInv /\ Lifecycle!Init
<1> SUFFICES ASSUME Init PROVE IInv /\ Lifecycle!Init
  OBVIOUS
<1>1. 0 \in Nat /\ Hash \subseteq Nat /\ Delta \in Nat \ {0} /\ NotAnAccount \notin Rep
  BY WeightAssumption
<1>2. TypeOK
  BY <1>1 DEF Init, TypeOK, Idle, Voter
<1>3. Cast(votes, finalOf)
  BY DEF Init, Cast
<1>4. ~(finalWeight >= Delta) /\ ~IsConfirmed
  BY <1>1 DEF Init, IsConfirmed
<1> QED
  BY <1>2, <1>3, <1>4 DEF Init, IInv, NotExpired, Lifecycle!Init

(* A vote is recorded, counted and may decide the election.                *)
LEMMA VoteStep ==
    ASSUME IInv, NEW rep \in Rep, NEW time \in Time \cup {Final}, NEW h \in Hash,
           Vote(rep, time, h)
    PROVE  IInv' /\ [Lifecycle!Next]_<<state, winner, blocks>>
<1> DEFINE ballots == [votes EXCEPT ![rep] = [time |-> time, hash |-> h]]
<1>1. time \in Nat /\ rep \in Voter /\ None \notin Hash /\ 0 \notin Hash
  BY WeightAssumption, ElectionAssumption DEF Voter
<1>2. ballots \in [Voter -> [time : Nat, hash : Hash \cup {0}]]
  BY <1>1 DEF IInv, TypeOK
<1>3. finalOf' \in [Rep -> Hash \cup {None}]
  BY DEF Vote, IInv, TypeOK
<1>4. \A r \in Rep : finalOf[r] \in Hash => finalOf'[r] = finalOf[r]
  BY <1>1 DEF Vote, IInv, TypeOK
<1>5. Cast(ballots, finalOf')
  <2> SUFFICES ASSUME NEW v \in Voter, ballots[v].time = Final
               PROVE  v \in Rep /\ ballots[v].hash \in Hash /\ finalOf'[v] = ballots[v].hash
    BY DEF Cast
  <2>1. CASE v = rep
    <3>1. ballots[v] = [time |-> time, hash |-> h]
      BY <2>1, <1>1 DEF IInv, TypeOK
    <3> QED
      BY <2>1, <3>1 DEF Vote, IInv, TypeOK
  <2>2. CASE v # rep
    <3>1. ballots[v] = votes[v]
      BY <2>2 DEF IInv, TypeOK
    <3> QED
      BY <3>1, <1>4 DEF IInv, Cast
  <2> QED
    BY <2>1, <2>2
<1>6. finalWeight >= Delta => Quorum(finalOf')
  BY <1>4, QuorumStays DEF IInv
<1>7. ~IsConfirmed /\ ConfirmIfQuorum(ballots)
      /\ UNCHANGED <<blocks, routed, active, loop, processor>>
  BY DEF Vote
<1> HIDE DEF ballots
<1>8. ASSUME NEW leader, Count(ballots, leader), finalWeight' >= Delta
      PROVE  Quorum(finalOf')
  BY <1>5, <1>6, <1>8, CountedIsQuorum DEF Count
<1>9. CASE Leaders(ballots) = {}
  <2>1. Count(ballots, 0) /\ votes' = ballots /\ UNCHANGED <<state, winner>>
    BY <1>7, <1>9 DEF ConfirmIfQuorum
  <2>2. TypeOK'
    BY <1>2, <1>3, <1>7, <2>1 DEF IInv, TypeOK
  <2>3. ~IsConfirmed' /\ NotExpired'
    BY <1>7, <2>1 DEF IsConfirmed, IInv, NotExpired
  <2> QED
    BY <1>5, <1>7, <1>8, <2>1, <2>2, <2>3 DEF IInv
<1>10. CASE Leaders(ballots) # {}
  <2>1. PICK leader \in Leaders(ballots) :
           /\ Count(ballots, leader)
           /\ winner' \in {winner, leader}
           /\ votes' \in {ballots, WithoutOwnVotes(ballots)}
           /\ \/ UNCHANGED state
              \/ state' = "Confirmed" /\ finalWeight' >= Delta
    BY <1>7, <1>10 DEF ConfirmIfQuorum, Decide
  <2>2. leader \in blocks
    BY DEF Leaders
  <2>3. votes' \in [Voter -> [time : Nat, hash : Hash \cup {0}]]
    BY <1>2, <2>1 DEF WithoutOwnVotes
  <2>4. TypeOK'
    BY <1>3, <1>7, <2>1, <2>2, <2>3 DEF IInv, TypeOK
  <2>5. Cast(votes', finalOf')
    BY <1>5, <2>1 DEF Cast, WithoutOwnVotes
  <2>6. finalWeight' >= Delta \/ IsConfirmed' => Quorum(finalOf')
    BY <1>7, <1>8, <2>1 DEF IsConfirmed
  <2>7. NotExpired'
    BY <1>7, <2>1 DEF IInv, NotExpired
  <2>8. IInv'
    BY <1>7, <2>1, <2>2, <2>4, <2>5, <2>6, <2>7 DEF IInv
  <2>9. [Lifecycle!Next]_<<state, winner, blocks>>
    <3>1. ~Lifecycle!Decided
      BY <1>7 DEF IsConfirmed, Lifecycle!Decided
    <3>2. winner' \in Hash /\ winner' \in blocks
      BY <2>1, <2>2 DEF IInv, TypeOK
    <3>3. Lifecycle!ChangeWinner(winner') \/ Lifecycle!Confirm(winner')
      BY <1>7, <2>1, <3>1, <3>2 DEF Lifecycle!ChangeWinner, Lifecycle!Confirm
    <3> QED
      BY <3>2, <3>3 DEF Lifecycle!Next
  <2> QED
    BY <2>8, <2>9
<1> QED
  BY <1>9, <1>10

(* The schedulers, the buckets and the cementing of later blocks.          *)
LEMMA SchedulerStep ==
    ASSUME IInv, Inserted \/ Cancel \/ TransitionActive \/ BlockCemented
    PROVE  IInv' /\ [Lifecycle!Next]_<<state, winner, blocks>>
<1>1. CASE Inserted
  <2>1. TypeOK' /\ NotExpired'
    BY <1>1 DEF Inserted, IInv, TypeOK, NotExpired
  <2> QED
    BY <1>1, <2>1, BroadcastCounts DEF Inserted, IInv, IsConfirmed
<1>2. ASSUME NEW to \in {"Cancelled", "Active"}, ChangeState(to)
      PROVE  IInv' /\ [Lifecycle!Next]_<<state, winner, blocks>>
  <2>1. TypeOK' /\ NotExpired'
    BY <1>2 DEF ChangeState, counts, IInv, TypeOK, NotExpired
  <2>2. IInv'
    BY <1>2, <2>1 DEF ChangeState, counts, IInv, IsConfirmed
  <2>3. Lifecycle!Age(to)
    BY <1>2 DEF ChangeState, Lifecycle!Age
  <2> QED
    BY <2>2, <2>3 DEF Lifecycle!Next
<1>3. CASE BlockCemented
  <2>1. PICK voters \in SUBSET {rep \in Rep : finalOf[rep] \in {None, winner}} :
           /\ WeightOf(voters) >= Delta
           /\ finalOf' = [rep \in Rep |-> IF rep \in voters THEN winner ELSE finalOf[rep]]
    BY <1>3 DEF BlockCemented
  <2>2. UNCHANGED <<winner, blocks, counts, routed, active, poisoned, loop, processor>>
        /\ state' = "Confirmed" /\ ~IsConfirmed
    BY <1>3 DEF BlockCemented
  <2>3. winner \in Hash /\ None \notin Hash
    BY ElectionAssumption DEF IInv, TypeOK
  <2>4. Quorum(finalOf')
    BY <2>1, <2>3 DEF Quorum
  <2>5. \A rep \in Rep : finalOf[rep] \in Hash => finalOf'[rep] = finalOf[rep]
    BY <2>1, <2>3
  <2>6. Cast(votes', finalOf')
    BY <2>2, <2>5 DEF IInv, Cast, counts
  <2>7. TypeOK' /\ NotExpired'
    BY <2>1, <2>2, <2>3 DEF IInv, TypeOK, NotExpired, counts
  <2>8. Lifecycle!Confirm(winner)
    BY <2>2 DEF IInv, IsConfirmed, Lifecycle!Confirm, Lifecycle!Decided
  <2> QED
    BY <2>2, <2>3, <2>4, <2>6, <2>7, <2>8 DEF IInv, Lifecycle!Next
<1> QED
  BY <1>1, <1>2, <1>3 DEF Cancel, TransitionActive

(* The request loop and the rollback callback.                             *)
LEMMA LoopStep ==
    ASSUME IInv, LoopCheck \/ TransitionTime \/ Expire \/ RolledBack
    PROVE  IInv' /\ [Lifecycle!Next]_<<state, winner, blocks>>
<1>1. CASE LoopCheck
  <2>1. TypeOK'
    BY <1>1 DEF LoopCheck, LoopRest, IInv, TypeOK
  <2>2. NotExpired'
    BY <1>1 DEF LoopCheck, LoopRest, IInv, NotExpired, TypeOK
  <2> QED
    BY <1>1, <2>1, <2>2 DEF LoopCheck, LoopRest, IInv, IsConfirmed
<1>2. CASE TransitionTime
  <2>1. UNCHANGED <<winner, blocks, votes, routed, processor, finalOf>>
    BY <1>2 DEF TransitionTime, LoopRest
  <2>2. finalWeight' >= Delta => Quorum(finalOf)
    BY <1>2, <2>1, BroadcastCounts DEF TransitionTime, IInv
  <2>3. \/ UNCHANGED state
        \/ state = "Passive" /\ state' = "Active"
        \/ state = "Confirmed" /\ state' = "ExpiredConfirmed"
    BY <1>2 DEF TransitionTime
  <2>4. TypeOK'
    BY <1>2, <2>1, <2>3, Zenon DEF TransitionTime, IInv, TypeOK
  <2>5. NotExpired'
    BY <1>2, Zenon DEF TransitionTime, IInv, NotExpired
  <2>6. IInv'
    BY <2>1, <2>2, <2>3, <2>4, <2>5 DEF IInv, IsConfirmed
  <2>7. [Lifecycle!Next]_<<state, winner, blocks>>
    BY <2>1, <2>3 DEF Lifecycle!Next, Lifecycle!Age, Lifecycle!ValidChange
  <2> QED
    BY <2>6, <2>7
<1>3. CASE Expire
  <2>1. TypeOK' /\ NotExpired'
    BY <1>3, Zenon DEF Expire, LoopRest, IInv, TypeOK, NotExpired
  <2>2. IInv'
    BY <1>3, <2>1 DEF Expire, LoopRest, IInv, IsConfirmed
  <2>3. Lifecycle!Age("ExpiredUnconfirmed")
    BY <1>3 DEF Expire, LoopRest, Lifecycle!Age, Lifecycle!ValidChange
  <2> QED
    BY <2>2, <2>3 DEF Lifecycle!Next
<1>4. CASE RolledBack
  <2>1. TypeOK' /\ NotExpired'
    BY <1>4, Zenon DEF RolledBack, counts, IInv, TypeOK, NotExpired
  <2> QED
    BY <1>4, <2>1 DEF RolledBack, counts, IInv, IsConfirmed
<1> QED
  BY <1>1, <1>2, <1>3, <1>4

(* Forks join and replace each other.                                      *)
LEMMA PublishStep ==
    ASSUME IInv, Relock \/ \E h \in Hash : Publish(h)
    PROVE  IInv' /\ [Lifecycle!Next]_<<state, winner, blocks>>
<1>1. ASSUME NEW h \in Hash, Publish(h)
      PROVE  IInv' /\ [Lifecycle!Next]_<<state, winner, blocks>>
  <2>1. UNCHANGED <<state, winner, finalWeight, active, loop, finalOf, votes>>
    BY <1>1 DEF Publish, PublishRest
  <2>2. blocks' \in {blocks, blocks \cup {h}} /\ routed' \in {routed, routed \cup {h}}
    BY <1>1 DEF Publish
  <2>3. processor'.pc = "relock" => processor'.block \in Hash
    BY <1>1 DEF Publish, ReplaceByWeight, Idle
  <2>4. TypeOK' /\ NotExpired'
    BY <2>1, <2>2, <2>3 DEF IInv, TypeOK, NotExpired
  <2>5. IInv'
    BY <2>1, <2>2, <2>4 DEF IInv, IsConfirmed
  <2>6. [Lifecycle!Next]_<<state, winner, blocks>>
    <3>1. CASE blocks' = blocks
      BY <2>1, <3>1
    <3>2. CASE blocks' = blocks \cup {h}
      <4>1. Lifecycle!Fork(h)
        BY <2>1, <3>2, ZenonT(30) DEF Lifecycle!Fork
      <4> QED
        BY <4>1 DEF Lifecycle!Next
    <3> QED
      BY <2>2, <3>1, <3>2
  <2> QED
    BY <2>5, <2>6
<1>2. CASE Relock
  <2> DEFINE r == processor.replaced
             h == processor.block
  <2>1. UNCHANGED <<state, winner, finalWeight, active, loop, finalOf>>
        /\ routed' = routed \cup {h} /\ processor' = Idle /\ h \in Hash
    BY <1>2 DEF Relock, PublishRest, IInv, TypeOK
  <2>2. \E gone \in {{}} \cup {{b} : b \in blocks \ {winner}} : blocks' = (blocks \ gone) \cup {h}
    <3>1. CASE r = winner \/ r \notin blocks
      <4>1. blocks' = (blocks \ {}) \cup {h}
        BY <1>2, <3>1 DEF Relock
      <4> QED
        BY <4>1, Zenon
    <3>2. CASE r # winner /\ r \in blocks
      BY <1>2, <3>2, Zenon DEF Relock
    <3> QED
      BY <3>1, <3>2
  <2>3. \/ UNCHANGED votes
        \/ votes' = [v \in Voter |-> IF votes[v].hash = r THEN NoVote ELSE votes[v]]
    BY <1>2 DEF Relock
  <2>4. votes' \in [Voter -> [time : Nat, hash : Hash \cup {0}]] /\ Cast(votes', finalOf')
    BY <2>1, <2>3 DEF IInv, TypeOK, Cast
  <2>5. TypeOK' /\ NotExpired' /\ winner \in blocks'
    BY <2>1, <2>2, <2>4 DEF IInv, TypeOK, NotExpired, Idle
  <2>6. IInv'
    BY <2>1, <2>4, <2>5 DEF IInv, IsConfirmed
  <2>7. Lifecycle!Fork(h)
    BY <2>1, <2>2 DEF Lifecycle!Fork
  <2> QED
    BY <2>1, <2>6, <2>7 DEF Lifecycle!Next
<1> QED
  BY <1>1, <1>2

(* Every step keeps the invariant and is a step, or none, of the life       *)
(* cycle.                                                                   *)
LEMMA Step ==
    ASSUME IInv, [Next]_vars
    PROVE  IInv' /\ [Lifecycle!Next]_<<state, winner, blocks>>
<1>1. CASE UNCHANGED vars
  BY <1>1 DEF vars, counts, IInv, TypeOK, NotExpired, IsConfirmed, Cast
<1>2. CASE Next
  BY <1>2, VoteStep, SchedulerStep, LoopStep, PublishStep DEF Next
<1> QED
  BY <1>1, <1>2

-----------------------------------------------------------------------------
(* The inductive invariant holds of every behaviour of the election.       *)
THEOREM Inductive == Spec => []IInv
<1> QED
  BY InitIInv, Step, PTL DEF Spec

(* Whatever the threads do and however votes, forks and expiries meet, the *)
(* election is one of ElectionLifecycle: a winner among its blocks, only   *)
(* valid changes of state, and a confirmed winner for good.                *)
THEOREM LifecycleImplemented == Spec => ImplementsLifecycle
<1> QED
  BY InitIInv, Step, Inductive, PTL DEF Spec, ImplementsLifecycle, Lifecycle!Spec

(* No election is confirmed unless a quorum has voted final for one block  *)
(* of the root.                                                            *)
THEOREM ConfirmedByFinalQuorum == Spec => []FinalQuorum
<1>1. IInv => FinalQuorum
  BY DEF IInv, FinalQuorum, Quorum
<1> QED
  BY <1>1, Inductive, PTL

(* transition_time never reaches unreachable!().                           *)
THEOREM NeverUnreachable == Spec => []LoopNeverPanics
<1>1. IInv => LoopNeverPanics
  BY DEF IInv, NotExpired, LoopNeverPanics
<1> QED
  BY <1>1, Inductive, PTL

-----------------------------------------------------------------------------
(* The elections of one root.                                              *)

ElectionType == [winner : Hash, isQuorum : BOOLEAN, confirmed : BOOLEAN]
TaskType == [hash : Hash, iteration : Nat]

TypeInv ==
    /\ ledgerBlock \in Hash \cup {None} /\ cemented \in Hash \cup {None}
    /\ finalStore \in Hash \cup {None}
    /\ sent \subseteq Hash /\ requested \subseteq Hash /\ candidates \subseteq Hash
    /\ replies \subseteq Hash
    /\ elections \in Seq(ElectionType) /\ current \in {NoElection} \cup DOMAIN elections
    /\ forced \in Seq(Hash) /\ tasks \subseteq TaskType
    /\ confirming \subseteq decided /\ decided \subseteq Hash
    /\ \A t \in tasks : t.hash \in decided
    /\ remoteFinal \in [Remote -> Hash]

(* What waits to be sent was checked against the final vote table or is    *)
(* for the cemented block.                                                 *)
VotesChecked ==
    /\ candidates \subseteq {finalStore}
    /\ replies \subseteq {finalStore, cemented}

(* The representatives whose final vote for h cannot change any more: the  *)
(* node's own are bound by the final vote table.                           *)
Backers(h) ==
    {rep \in Remote : remoteFinal[rep] = h} \cup (IF finalStore = h THEN Own ELSE {})

Backed(h) == \E Q \in SUBSET Backers(h) : WeightOf(Q) >= Delta

DecidedBacked ==
    /\ \A h \in decided : Backed(h)
    /\ cemented # None => Backed(cemented)

ActiveInv == TypeInv /\ CementedStays /\ VotesChecked /\ OwnFinalVotes /\ DecidedBacked

-----------------------------------------------------------------------------

(* Nobody backs two blocks.                                                *)
LEMMA OneBacked ==
    ASSUME TypeInv, NEW g, NEW h, Backed(g), Backed(h)
    PROVE  g = h
<1>1. PICK Q \in SUBSET Backers(g) : WeightOf(Q) >= Delta
  BY DEF Backed
<1>2. PICK R \in SUBSET Backers(h) : WeightOf(R) >= Delta
  BY DEF Backed
<1>3. Q \in SUBSET Rep /\ R \in SUBSET Rep
  BY <1>1, <1>2, WeightAssumption DEF Backers, Remote
<1>4. PICK rep \in Q : rep \in R
  BY <1>1, <1>2, <1>3, QuorumAssumption
<1>5. rep \in Backers(g) /\ rep \in Backers(h)
  BY <1>4
<1> QED
  BY <1>5 DEF Backers, Remote

(* A backed block stays backed: votes of others never change, and the      *)
(* entry of the final vote table is never replaced.                        *)
LEMMA BackedStays ==
    ASSUME NEW h \in Hash, Backed(h), remoteFinal' = remoteFinal,
           finalStore' = finalStore \/ finalStore = None
    PROVE  Backed(h)'
<1>1. PICK Q \in SUBSET Backers(h) : WeightOf(Q) >= Delta
  BY DEF Backed
<1>2. Backers(h) \subseteq Backers(h)'
  BY ActiveAssumption DEF Backers
<1> QED
  BY <1>1, <1>2 DEF Backed

(* A quorum of final votes for a block backs it, also when the node's own  *)
(* vote for it was a reply about the cemented block.                       *)
LEMMA QuorumBacks ==
    ASSUME ActiveInv, NEW h \in Hash, WeightOf(FinalFor(h)) >= Delta
    PROVE  Backed(h)
<1>1. CASE h \in sent /\ h # finalStore
  BY <1>1, ActiveAssumption DEF ActiveInv, OwnFinalVotes, DecidedBacked
<1>2. CASE h \notin sent \/ h = finalStore
  <2>1. FinalFor(h) \subseteq Backers(h)
    BY <1>2 DEF FinalFor, Backers
  <2> QED
    BY <2>1 DEF Backed
<1> QED
  BY <1>1, <1>2

(* The actions of ActiveNext, without their bound variables.               *)
ApplyVoteStep == \E n \in DOMAIN elections, h \in Hash, quorum \in BOOLEAN : ApplyVote(n, h, quorum)
RunStep == \E t \in tasks : RunTask(t)
CementStep == \E h \in confirming : Cement(h)

(* Replacing an entry of a sequence keeps its length.                      *)
LEMMA SeqReplaced ==
    ASSUME NEW S, NEW s \in Seq(S), NEW i \in DOMAIN s, NEW x \in S
    PROVE  /\ [s EXCEPT ![i] = x] \in Seq(S)
           /\ DOMAIN [s EXCEPT ![i] = x] = DOMAIN s
OBVIOUS

(* The types of all actions but those of the generator are as the          *)
(* assignments say; the sequence of elections only grows.                  *)
LEMMA TypeStep ==
    ASSUME TypeInv, [ActiveNext]_activeVars
    PROVE  TypeInv'
<1> USE DEF TypeInv
<1>1. CASE ApplyVoteStep
  <2>1. PICK n \in DOMAIN elections, h \in Hash, quorum \in BOOLEAN : ApplyVote(n, h, quorum)
    BY <1>1 DEF ApplyVoteStep
  <2> DEFINE e == elections[n]
             next == [e EXCEPT !.winner = h, !.isQuorum = @ \/ quorum]
             done == [next EXCEPT !.confirmed = TRUE]
  <2>2. e \in ElectionType
    BY <2>1
  <2>3. next \in ElectionType /\ done \in ElectionType /\ next.winner = h
    BY <2>2, Zenon DEF ElectionType
  <2>4. /\ elections' \in Seq(ElectionType)
        /\ DOMAIN elections' = DOMAIN elections
    <3>1. elections' = [elections EXCEPT ![n] = next] \/ elections' = [elections EXCEPT ![n] = done]
      BY <2>1 DEF ApplyVote, ConfirmOnce
    <3> HIDE DEF next, done
    <3>2. elections \in Seq(ElectionType) /\ n \in DOMAIN elections
      BY <2>1
    <3>3. /\ [elections EXCEPT ![n] = next] \in Seq(ElectionType)
          /\ DOMAIN [elections EXCEPT ![n] = next] = DOMAIN elections
      BY <2>3, <3>2, SeqReplaced
    <3>4. /\ [elections EXCEPT ![n] = done] \in Seq(ElectionType)
          /\ DOMAIN [elections EXCEPT ![n] = done] = DOMAIN elections
      BY <2>3, <3>2, SeqReplaced
    <3> QED
      BY <3>1, <3>3, <3>4
  <2>5. e.winner \in Hash
    BY <2>2 DEF ElectionType
  <2>6. forced' \in Seq(Hash) /\ requested' \subseteq Hash
    BY <2>1, <2>5 DEF ApplyVote
  <2>7. /\ tasks' \subseteq TaskType /\ confirming' \subseteq decided' /\ decided' \subseteq Hash
        /\ \A t \in tasks' : t.hash \in decided'
    <3>1. CASE UNCHANGED <<recent, confirming, tasks, decided>>
      BY <3>1
    <3>2. CASE ConfirmOnce(n, next)
      <4>1. /\ tasks' = tasks \cup {[hash |-> h, iteration |-> 0]}
            /\ confirming' = confirming \cup {h} /\ decided' = decided \cup {h}
        BY <2>3, <3>2 DEF ConfirmOnce
      <4> QED
        BY <4>1 DEF TaskType
    <3> QED
      BY <2>1, <3>1, <3>2 DEF ApplyVote
  <2> QED
    BY <2>1, <2>4, <2>6, <2>7 DEF ApplyVote, store
<1>2. ASSUME NEW h \in Hash, Insert(h) \/ ProcessLive(h) PROVE TypeInv'
  <2>1. CASE Insert(h)
    BY <2>1 DEF Insert, NewElection, ElectionType, store, generator, NoElection
  <2>2. CASE ProcessLive(h)
    BY <2>2 DEF ProcessLive, ProcessorRest, generator
  <2> QED
    BY <1>2, <2>1, <2>2
<1>3. CASE InsertAgain \/ TransitionVote
  <2>1. current \in DOMAIN elections
    BY <1>3 DEF InsertAgain, TransitionVote
  <2>2. elections[current] \in ElectionType
    BY <2>1
  <2>3. elections[current].winner \in Hash
    BY <2>2 DEF ElectionType
  <2> QED
    BY <1>3, <2>3 DEF InsertAgain, TransitionVote, BroadcastVoteLocked, store, volatile
<1>4. CASE RequestConfirm \/ LoopErase
  BY <1>4 DEF RequestConfirm, LoopErase, store, generator, NoElection
<1>5. CASE ProcessForced \/ CancelRolledBack
  <2>1. CASE ProcessForced
    <3>1. Head(forced) \in Hash /\ Tail(forced) \in Seq(Hash)
      BY <2>1 DEF ProcessForced
    <3> QED
      BY <2>1, <3>1 DEF ProcessForced, ProcessorRest, generator
  <2>2. CASE CancelRolledBack
    BY <2>2 DEF CancelRolledBack, ProcessorRest, generator, NoElection
  <2> QED
    BY <1>5, <2>1, <2>2
<1>6. CASE RunStep
  <2>1. PICK t \in tasks : RunTask(t)
    BY <1>6 DEF RunStep
  <2>2. t \in TaskType /\ t.hash \in decided
    BY <2>1
  <2>3. /\ [t EXCEPT !.iteration = @ + 1] \in TaskType
        /\ [t EXCEPT !.iteration = @ + 1].hash = t.hash
    BY <2>2 DEF TaskType
  <2>4. /\ tasks' \subseteq tasks \cup {[t EXCEPT !.iteration = @ + 1]}
        /\ confirming' \subseteq confirming \cup {t.hash}
    BY <2>1 DEF RunTask
  <2>5. /\ tasks' \subseteq TaskType /\ confirming' \subseteq decided
        /\ \A u \in tasks' : u.hash \in decided
    BY <2>2, <2>3, <2>4, Zenon
  <2> QED
    BY <2>1, <2>5 DEF RunTask, CementRest, generator
<1>7. CASE CementStep
  BY <1>7 DEF CementStep, Cement, CementRest, generator
<1>8. CASE SuccessorCemented \/ Evict
  BY <1>8 DEF SuccessorCemented, Evict, CementRest, generator
<1>9. CASE TryConfirm
  <2> DEFINE e == elections[current]
             done == [e EXCEPT !.confirmed = TRUE]
  <2>1. current \in DOMAIN elections
    BY <1>9 DEF TryConfirm
  <2>2. done \in ElectionType /\ e.winner \in Hash
    <3>1. e \in ElectionType
      BY <2>1
    <3> QED
      BY <3>1, Zenon DEF ElectionType
  <2>3. elections' \in Seq(ElectionType) /\ DOMAIN elections' = DOMAIN elections
    <3>1. elections' = [elections EXCEPT ![current] = done]
      BY <1>9 DEF TryConfirm, ConfirmOnce
    <3> HIDE DEF done
    <3> QED
      BY <2>1, <2>2, <3>1
  <2>4. /\ tasks' = tasks \cup {[hash |-> e.winner, iteration |-> 0]}
        /\ confirming' = confirming \cup {e.winner} /\ decided' = decided \cup {e.winner}
    BY <1>9 DEF TryConfirm, ConfirmOnce
  <2>5. /\ tasks' \subseteq TaskType /\ confirming' \subseteq decided' /\ decided' \subseteq Hash
        /\ \A t \in tasks' : t.hash \in decided'
    BY <2>2, <2>4 DEF TaskType
  <2> QED
    BY <1>9, <2>3, <2>5 DEF TryConfirm, CementRest, generator
<1>10. CASE Restart
  BY <1>10 DEF Restart, GeneratorStart, store
<1>11. CASE Generate
  BY <1>11 DEF Generate, Request, VoteFinal, ShouldVoteFinal, Broadcast, Reply, Send, volatile
<1>12. CASE UNCHANGED activeVars
  BY <1>12 DEF activeVars, store, generator, volatile
<1> HIDE DEF TypeInv
<1> QED
  BY <1>1, <1>2, <1>3, <1>4, <1>5, <1>6, <1>7, <1>8, <1>9, <1>10, <1>11, <1>12, Zenon
     DEF ActiveNext, ApplyVoteStep, RunStep, CementStep

(* A step that leaves the final votes alone, cements at most the block     *)
(* that is in the ledger and keeps a cemented one, and decides backed      *)
(* blocks only.                                                            *)
LEMMA SafeStep ==
    ASSUME ActiveInv, TypeInv', remoteFinal' = remoteFinal, finalStore' = finalStore,
           sent' = sent, candidates' \subseteq candidates,
           replies' \subseteq replies \cup {finalStore, cemented},
           cemented # None => cemented' = cemented /\ ledgerBlock' = ledgerBlock,
           cemented' # None => cemented' = ledgerBlock' /\ Backed(cemented'),
           \A h \in decided' \ decided : Backed(h)
    PROVE  ActiveInv'
<1>1. \A h \in Hash : Backed(h) => Backed(h)'
  BY BackedStays
<1>2. /\ replies \subseteq {finalStore, cemented} /\ sent \subseteq {finalStore, cemented}
      /\ None \notin replies /\ None \notin sent
  BY ActiveAssumption DEF ActiveInv, VotesChecked, OwnFinalVotes, TypeInv
<1>3. CementedStays'
  BY DEF CementedStays
<1>4. VotesChecked' /\ OwnFinalVotes'
  <2>1. None \notin replies'
    BY ActiveAssumption DEF TypeInv
  <2> QED
    BY <1>2, <2>1 DEF ActiveInv, VotesChecked, OwnFinalVotes
<1>5. DecidedBacked'
  <2>1. \A h \in decided' : h \in Hash /\ Backed(h)
    BY DEF TypeInv, ActiveInv, DecidedBacked
  <2>2. cemented' # None => Backed(cemented)'
    <3> SUFFICES ASSUME cemented' # None PROVE Backed(cemented)'
      OBVIOUS
    <3>1. remoteFinal' = remoteFinal /\ finalStore' = finalStore
      OBVIOUS
    <3> QED
      BY <3>1 DEF Backed, Backers
  <2> QED
    BY <1>1, <2>1, <2>2 DEF DecidedBacked
<1> QED
  BY <1>3, <1>4, <1>5 DEF ActiveInv

(* The generator's steps: a hash is stored only where there is none yet    *)
(* or the same one, so that what was backed stays backed.                  *)
LEMMA GenerateStep ==
    ASSUME ActiveInv, TypeInv', Generate
    PROVE  ActiveInv'
<1>1. /\ remoteFinal' = remoteFinal /\ decided' = decided /\ cemented' = cemented
      /\ ledgerBlock' = ledgerBlock
  BY DEF Generate, Request, VoteFinal, Broadcast, Reply
<1>2. finalStore' = finalStore \/ finalStore = None
  BY DEF Generate, Request, VoteFinal, ShouldVoteFinal, Broadcast, Reply
<1>3. \A h \in Hash : Backed(h) => Backed(h)'
  BY <1>1, <1>2, BackedStays
<1>4. CementedStays'
  BY <1>1 DEF ActiveInv, CementedStays
<1>5. DecidedBacked'
  <2>1. \A h \in decided : Backed(h)'
    BY <1>3 DEF ActiveInv, DecidedBacked, TypeInv
  <2>2. cemented # None => \A h \in Hash : h = cemented => Backed(h)'
    BY <1>3 DEF ActiveInv, DecidedBacked
  <2>3. cemented # None => cemented \in Hash
    BY DEF ActiveInv, TypeInv
  <2>4. cemented' # None => Backed(cemented)'
    BY <1>1, <2>2, <2>3 DEF Backed, Backers
  <2> QED
    BY <1>1, <2>1, <2>4 DEF DecidedBacked
<1>6. VotesChecked' /\ OwnFinalVotes'
  <2>1. None \notin candidates /\ None \notin replies /\ None \notin sent
    BY ActiveAssumption DEF ActiveInv, TypeInv
  <2> QED
    BY <1>1, <2>1 DEF ActiveInv, VotesChecked, OwnFinalVotes, Generate, Request, VoteFinal,
                      ShouldVoteFinal, Broadcast, Reply, Send
<1> QED
  BY <1>4, <1>5, <1>6 DEF ActiveInv

(* Every step preserves the inductive invariant.                           *)
LEMMA InvStep ==
    ASSUME ActiveInv, [ActiveNext]_activeVars
    PROVE  ActiveInv'
<1> TypeInv /\ TypeInv'
  BY TypeStep DEF ActiveInv
<1>1. CASE ApplyVoteStep
  <2>1. PICK n \in DOMAIN elections, h \in Hash, quorum \in BOOLEAN : ApplyVote(n, h, quorum)
    BY <1>1 DEF ApplyVoteStep
  <2>2. decided' = decided \/ (decided' = decided \cup {h} /\ WeightOf(FinalFor(h)) >= Delta)
    <3>1. elections[n] \in ElectionType
      <4>1. elections \in Seq(ElectionType)
        BY Zenon DEF TypeInv
      <4> QED
        BY <4>1
    <3>2. [elections[n] EXCEPT !.winner = h, !.isQuorum = @ \/ quorum].winner = h
      BY <3>1 DEF ElectionType
    <3> QED
      BY <2>1, <3>2 DEF ApplyVote, ConfirmOnce
  <2>3. \A g \in decided' \ decided : Backed(g)
    BY <2>2, QuorumBacks
  <2> QED
    BY <2>1, <2>3, SafeStep DEF ApplyVote, store, ActiveInv, CementedStays, DecidedBacked
<1>2. ASSUME NEW h \in Hash, Insert(h) \/ ProcessLive(h) PROVE ActiveInv'
  BY <1>2, SafeStep, ActiveAssumption
     DEF Insert, ProcessLive, ProcessorRest, store, generator, ActiveInv, CementedStays, DecidedBacked
<1>3. CASE InsertAgain \/ TransitionVote \/ RequestConfirm \/ LoopErase
  BY <1>3, SafeStep
     DEF InsertAgain, TransitionVote, RequestConfirm, LoopErase, BroadcastVoteLocked, store, volatile,
         generator, ActiveInv, CementedStays, DecidedBacked
<1>4. CASE ProcessForced \/ CancelRolledBack
  BY <1>4, SafeStep
     DEF ProcessForced, CancelRolledBack, ProcessorRest, generator, ActiveInv, CementedStays, DecidedBacked
<1>5. CASE RunStep \/ Evict
  BY <1>5, SafeStep
     DEF RunStep, RunTask, Evict, CementRest, generator, ActiveInv, CementedStays, DecidedBacked
<1>6. CASE CementStep
  <2>1. PICK h \in confirming : Cement(h)
    BY <1>6 DEF CementStep
  <2>2. Backed(h)
    BY Zenon DEF TypeInv, ActiveInv, DecidedBacked
  <2> QED
    BY <2>1, <2>2, SafeStep
       DEF Cement, CementRest, generator, ActiveInv, CementedStays, DecidedBacked
<1>7. CASE SuccessorCemented
  <2>1. Backed(ledgerBlock)
    BY <1>7, QuorumBacks DEF SuccessorCemented, TypeInv
  <2> QED
    BY <1>7, <2>1, SafeStep
       DEF SuccessorCemented, CementRest, generator, ActiveInv, DecidedBacked
<1>8. CASE TryConfirm
  <2>1. decided' = decided \cup {cemented} /\ Backed(cemented)
    BY <1>8 DEF TryConfirm, ConfirmOnce, ActiveInv, DecidedBacked
  <2> QED
    BY <1>8, <2>1, SafeStep DEF TryConfirm, CementRest, generator, ActiveInv, CementedStays
<1>9. CASE Restart
  BY <1>9, SafeStep DEF Restart, GeneratorStart, store, ActiveInv, CementedStays, DecidedBacked
<1>10. CASE Generate
  BY <1>10, GenerateStep
<1>11. CASE UNCHANGED activeVars
  BY <1>11, SafeStep
     DEF activeVars, store, generator, volatile, ActiveInv, CementedStays, DecidedBacked
<1> QED
  BY <1>1, <1>2, <1>3, <1>4, <1>5, <1>6, <1>7, <1>8, <1>9, <1>10, <1>11
     DEF ActiveNext, ApplyVoteStep, RunStep, CementStep

(* A node that starts has decided, stored and sent nothing for the root.   *)
LEMMA InvInit == ActiveInit => ActiveInv
<1> SUFFICES ASSUME ActiveInit PROVE ActiveInv
  OBVIOUS
<1>1. TypeInv
  <2>1. /\ ledgerBlock = None /\ cemented = None /\ finalStore = None /\ sent = {}
        /\ requested = {} /\ candidates = {} /\ replies = {} /\ tasks = {}
        /\ confirming = {} /\ decided = {} /\ remoteFinal \in [Remote -> Hash]
        /\ current = NoElection /\ elections = <<>> /\ forced = <<>>
    BY Zenon DEF ActiveInit, GeneratorInit, VolatileInit
  <2>2. elections \in Seq(ElectionType)
    BY <2>1
  <2>3. forced \in Seq(Hash)
    BY <2>1
  <2> QED
    BY <2>1, <2>2, <2>3, Zenon DEF TypeInv
<1>2. VotesChecked /\ OwnFinalVotes
  BY DEF ActiveInit, GeneratorInit, VotesChecked, OwnFinalVotes
<1>3. CementedStays /\ DecidedBacked
  BY Zenon DEF ActiveInit, CementedStays, DecidedBacked
<1> QED
  BY <1>1, <1>2, <1>3 DEF ActiveInv

(* The inductive invariant holds in every state.                           *)
LEMMA InvAlways == ActiveSpec => []ActiveInv
  BY InvInit, InvStep, PTL DEF ActiveSpec

-----------------------------------------------------------------------------

(* All that ConfirmOnce ever decides for a root, and all that the          *)
(* confirming set cements, is one block, whatever elections, rollbacks,    *)
(* evictions and restarts come between.                                    *)
THEOREM OneBlockDecided == ActiveSpec => []Agreement
<1>1. ASSUME ActiveInv PROVE Agreement
  <2> DEFINE S == decided \cup ({cemented} \ {None})
  <2>1. \A h \in S : Backed(h)
    BY <1>1 DEF ActiveInv, DecidedBacked
  <2>2. \A g, h \in S : g = h
    BY <1>1, <2>1, OneBacked DEF ActiveInv
  <2>3. CASE S = {}
    BY <2>3, FS_EmptySet DEF Agreement
  <2>4. CASE S # {}
    <3>1. PICK h \in S : S = {h}
      BY <2>2, <2>4
    <3>2. Cardinality(S) = 1
      BY <3>1, FS_Singleton
    <3> QED
      BY <3>2 DEF Agreement
  <2> QED
    BY <2>3, <2>4
<1> QED
  BY <1>1, InvAlways, PTL

(* The final votes this node ever sends for a root are for the hash in the *)
(* final vote table and for the cemented block.                            *)
THEOREM FinalVotesBound == ActiveSpec => []OwnFinalVotes
<1>1. ActiveInv => OwnFinalVotes
  BY DEF ActiveInv
<1> QED
  BY <1>1, InvAlways, PTL

(* No forced block and no rollback takes a cemented block out of the       *)
(* ledger.                                                                 *)
THEOREM CementedNeverReplaced == ActiveSpec => []CementedStays
<1>1. ActiveInv => CementedStays
  BY DEF ActiveInv
<1> QED
  BY <1>1, InvAlways, PTL
=============================================================================
