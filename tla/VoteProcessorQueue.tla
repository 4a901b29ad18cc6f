------------------------- MODULE VoteProcessorQueue -------------------------
(***************************************************************************)
(* The queue of incoming votes and the threads that process them           *)
(* (node/src/consensus/vote_processor_queue.rs, vote_processor.rs): votes  *)
(* are queued per representative tier and channel, threads wait for them   *)
(* on a condition variable, the queues of dead channels are removed.       *)
(***************************************************************************)
EXTENDS FairQueue

CONSTANTS
    Channel, ChannelOf,   \* the channel of each source
    Thread,               \* the vote processing threads
    BatchSize,            \* VoteProcessorConfig::batch_size
    MaxVotes              \* bound: votes that ever arrive

ASSUME QueueAssumption == BatchSize \in Nat \ {0} /\ ChannelOf \in [Source -> Channel]

VARIABLES
    queue,      \* the fair queue; a vote is a number
    thread,     \* "ready", "waiting" on the condition, "processing", "done"
    batch,      \* the votes a thread is processing
    stopped,    \* "no", "set", and "notified" once all threads are woken
    notifying,  \* calls of vote() between the unlock and the notification
    arrived,    \* number of votes so far
    processed,  \* votes given to the vote router
    dropped,    \* votes that met a full queue or whose channel died
    overtaken   \* history: overtaken[s][t] counts the requests of t served
                \* since the head of s waits

vars == <<queue, thread, batch, stopped, notifying, arrived, processed, dropped, overtaken>>

Waiting == {t \in Thread : thread[t] = "waiting"}

None == [s \in Source |-> [t \in Source |-> 0]]

Init ==
    /\ queue = EmptyQueue
    /\ thread = [t \in Thread |-> "ready"] /\ batch = [t \in Thread |-> <<>>]
    /\ stopped = "no" /\ notifying = 0 /\ arrived = 0 /\ processed = {} /\ dropped = {}
    /\ overtaken = None

(* VoteProcessorQueue::vote: the thread to be notified is chosen after the *)
(* lock is released                                                        *)
Vote(s) ==
    /\ arrived < MaxVotes
    /\ arrived' = arrived + 1
    /\ queue' = PushItem(queue, s, arrived')
    /\ IF QueueLen(queue, s) < MaxSize[s]
       THEN notifying' = notifying + 1 /\ dropped' = dropped
       ELSE notifying' = notifying /\ dropped' = dropped \cup {arrived'}
    /\ UNCHANGED <<thread, batch, stopped, processed, overtaken>>

(* A thread is woken only for a full batch.                                *)
NotifyOne_FullBatch ==
    /\ notifying > 0
    /\ notifying' = notifying - 1
    /\ IF Waiting = {} \/ queue.total < BatchSize THEN thread' = thread
       ELSE \E t \in Waiting : thread' = [thread EXCEPT ![t] = "ready"]
    /\ UNCHANGED <<queue, batch, stopped, arrived, processed, dropped, overtaken>>

(* Condvar::notify_one: one of the waiting threads goes on                 *)
NotifyOne ==
    /\ notifying > 0
    /\ notifying' = notifying - 1
    /\ IF Waiting = {} THEN thread' = thread
       ELSE \E t \in Waiting : thread' = [thread EXCEPT ![t] = "ready"]
    /\ UNCHANGED <<queue, batch, stopped, arrived, processed, dropped, overtaken>>

(* History: who was served while who was waiting                           *)
Overtake(items) ==
    LET last(s) == {i \in DOMAIN items : items[i].source = s}
        since(s, t) == {i \in last(t) : \A j \in last(s) : j < i}
    IN [s \in Source |-> [t \in Source |->
            IF QueueLen(queue, s) = 0 THEN 0
            ELSE Cardinality(since(s, t)) + (IF last(s) = {} THEN overtaken[s][t] ELSE 0)]]

(* VoteProcessorQueue::wait_for_votes                                      *)
WaitForVotes(t) ==
    /\ thread[t] = "ready"
    /\ \/ /\ stopped # "no"
          /\ thread' = [thread EXCEPT ![t] = "done"]
          /\ UNCHANGED <<queue, batch, overtaken>>
       \/ /\ stopped = "no" /\ queue.total > 0
          /\ \E next \in {NextBatch(queue, BatchSize)} :
                /\ queue' = next.queue
                /\ batch' = [batch EXCEPT ![t] = next.items]
                /\ overtaken' = Overtake(next.items)
          /\ thread' = [thread EXCEPT ![t] = "processing"]
       \/ /\ stopped = "no" /\ queue.total = 0
          /\ thread' = [thread EXCEPT ![t] = "waiting"]
          /\ UNCHANGED <<queue, batch, overtaken>>
    /\ UNCHANGED <<stopped, notifying, arrived, processed, dropped>>

(* A batch taken before the stop is discarded.                             *)
VoteBlocking_Discards(t) ==
    /\ thread[t] = "processing"
    /\ processed' = IF stopped # "no" THEN processed
                    ELSE processed \cup {batch[t][i].item : i \in DOMAIN batch[t]}
    /\ batch' = [batch EXCEPT ![t] = <<>>]
    /\ thread' = [thread EXCEPT ![t] = "ready"]
    /\ UNCHANGED <<queue, stopped, notifying, arrived, dropped, overtaken>>

(* VoteProcessor::run gives every vote of the batch to the vote router     *)
VoteBlocking(t) ==
    /\ thread[t] = "processing"
    /\ processed' = processed \cup {batch[t][i].item : i \in DOMAIN batch[t]}
    /\ batch' = [batch EXCEPT ![t] = <<>>]
    /\ thread' = [thread EXCEPT ![t] = "ready"]
    /\ UNCHANGED <<queue, stopped, notifying, arrived, dropped, overtaken>>

(* VoteProcessorQueueCleanup: all queues of a dead channel go              *)
CleanUpDeadChannel(c) ==
    LET dead == {s \in Known(queue) : ChannelOf[s] = c}
        removed[S \in SUBSET dead] ==
            IF S = {} THEN queue
            ELSE LET s == First(S) IN RemoveSource(removed[S \ {s}], s)
    IN /\ dead # {}
       /\ queue' = removed[dead]
       /\ dropped' = dropped \cup UNION {{queue.queues[s][i] : i \in DOMAIN queue.queues[s]} :
                                            s \in dead}
       /\ overtaken' = None
       /\ UNCHANGED <<thread, batch, stopped, notifying, arrived, processed>>

(* VoteProcessorQueue::stop                                                *)
Stop ==
    /\ stopped = "no"
    /\ stopped' = "set"
    /\ UNCHANGED <<queue, thread, batch, notifying, arrived, processed, dropped, overtaken>>

NotifyStop ==
    /\ stopped = "set"
    /\ stopped' = "notified"
    /\ thread' = [t \in Thread |-> IF thread[t] = "waiting" THEN "ready" ELSE thread[t]]
    /\ UNCHANGED <<queue, batch, notifying, arrived, processed, dropped, overtaken>>

Next ==
    \/ \E s \in Source : Vote(s)
    \/ NotifyOne
    \/ \E t \in Thread : WaitForVotes(t) \/ VoteBlocking(t)
    \/ \E c \in Channel : CleanUpDeadChannel(c)
    \/ Stop \/ NotifyStop

Spec == Init /\ [][Next]_vars

(* Threads keep running: a call of vote() or stop() that has begun ends,   *)
(* and the processing threads go on whenever they can.                     *)
FairSpec ==
    /\ Spec
    /\ WF_vars(NotifyOne) /\ WF_vars(NotifyStop)
    /\ \A t \in Thread : WF_vars(WaitForVotes(t)) /\ WF_vars(VoteBlocking(t))

-----------------------------------------------------------------------------
(* Properties                                                              *)

TypeOK ==
    /\ Known(queue) \subseteq Source /\ queue.current \in Known(queue) \cup {NoSource}
    /\ thread \in [Thread -> {"ready", "waiting", "processing", "done"}]
    /\ processed \subseteq 1..MaxVotes /\ dropped \subseteq 1..MaxVotes

(* The turn goes round: while a request waits at the head of its queue,    *)
(* no other source is served more often than its priority says ("Allow up  *)
(* to `queue.priority' requests to be processed before moving to the next  *)
(* queue").  Removing a channel starts a new round.                        *)
FairTurns ==
    \A s, t \in Source :
        s # t /\ QueueLen(queue, s) > 0 => overtaken[s][t] <= Priority[t]

(* No vote is lost or processed twice, whatever threads, overfull queues   *)
(* and dead channels do.                                                   *)
Queued == UNION {{queue.queues[s][i] : i \in DOMAIN queue.queues[s]} : s \in Known(queue)}
InBatch(t) == {batch[t][i].item : i \in DOMAIN batch[t]}

EachVoteOnce ==
    /\ 1..arrived = Queued \cup (UNION {InBatch(t) : t \in Thread}) \cup processed \cup dropped
    /\ Queued \cap (processed \cup dropped) = {}
    /\ \A t \in Thread : InBatch(t) \cap (Queued \cup processed \cup dropped) = {}
    /\ \A t, u \in Thread : t # u => InBatch(t) \cap InBatch(u) = {}

(* A queued vote gets processed although every push wakes one thread only, *)
(* unless its channel dies or the node stops; and VoteProcessor::stop can  *)
(* join its threads: whatever they were doing, they all end.               *)
EventuallyProcessed ==
    /\ \A v \in 1..MaxVotes : v \in Queued ~> (v \in processed \cup dropped \/ stopped # "no")
    /\ stopped = "set" ~> \A t \in Thread : thread[t] = "done"

=============================================================================
