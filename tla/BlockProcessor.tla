--------------------------- MODULE BlockProcessor ---------------------------
(***************************************************************************)
(* The block processor (node/src/block_processing/block_processor.rs): a   *)
(* thread takes batches of blocks from a fair queue and adds them to the   *)
(* ledger.  Blocks with a gap wait in the unchecked map; a forced block    *)
(* first rolls back the block it competes with.  Between two blocks of a   *)
(* batch the thread may let other writers of the ledger in.                *)
(***************************************************************************)
EXTENDS Ledger, FairQueue, UncheckedMap

CONSTANTS
    MaxBatch,        \* the 256 blocks of a batch
    Caller,          \* threads that call add_blocking
    NoCaller,
    Deliveries,      \* bound: how often each block arrives from the network
    Winner,          \* blocks an election may force
    LocalBlock,      \* blocks that are created locally
    Cementable       \* blocks that may get cemented

ASSUME ProcessorAssumption ==
    /\ MaxBatch \in Nat \ {0} /\ Deliveries \in [Hash -> Nat] /\ NoCaller \notin Caller
    /\ Source = {"live", "unchecked", "local", "forced"}

VARIABLES
    queue,           \* requests by source
    requests,        \* requests of the batch that are still to do
    results,         \* requests of the batch that are done, with their status
    phase,           \* "idle", "batch", "forcing" a block, "done"
    caller,          \* "idle", "waiting", or the status add_blocking returns
    delivered,       \* how often each block has arrived
    forced,          \* the winners that were forced
    dropped,         \* history: some block was dropped
    halted

processing == <<queue, requests, results, phase, caller, delivered, forced, dropped,
                halted>>
processorVars == <<vars, uncheckedVars, processing>>

Request(h, source, c) == [hash |-> h, forced |-> source = "forced", caller |-> c]

-----------------------------------------------------------------------------
(* Adding blocks                                                           *)

(* BlockProcessorLoop::add_impl                                            *)
AddImpl(source, request) ==
    /\ queue' = PushItem(queue, source, request)
    /\ dropped' = (dropped \/ QueueLen(queue, source) >= MaxSize[source])

(* BlockProcessorLoop::add, for a block from the network                   *)
AddLive(h) ==
    /\ delivered[h] < Deliveries[h] /\ Block[h].work
    /\ delivered' = [delivered EXCEPT ![h] = @ + 1]
    /\ AddImpl("live", Request(h, "live", NoCaller))
    /\ UNCHANGED <<vars, uncheckedVars, requests, results, phase, caller, forced, halted>>

(* BlockProcessorLoop::add_blocking: whether the block was queued is not   *)
(* looked at                                                               *)
AddBlocking(c, h) ==
    /\ caller[c] = "idle" /\ h \in LocalBlock
    /\ caller' = [caller EXCEPT ![c] = "waiting"]
    /\ delivered' = [delivered EXCEPT ![h] = @ + 1]
    /\ AddImpl("local", Request(h, "local", c))
    /\ UNCHANGED <<vars, uncheckedVars, requests, results, phase, forced, halted>>

(* BlockProcessorLoop::force, the election winner                          *)
ForceBlock(h) ==
    /\ h \in Winner \ forced
    /\ forced' = forced \cup {h}
    /\ AddImpl("forced", Request(h, "forced", NoCaller))
    /\ UNCHANGED <<vars, uncheckedVars, requests, results, phase, caller, delivered,
                   halted>>

(* The satisfied observer of node.rs: BlockProcessorLoop::add              *)
HandOver ==
    /\ satisfied # <<>>
    /\ satisfied' = Tail(satisfied)
    /\ AddImpl("unchecked", Request(Head(satisfied).hash, "unchecked", NoCaller))
    /\ UNCHANGED <<vars, unchecked, buffer, backBuffer, requests, results, phase, caller,
                   delivered, forced, halted>>

(* BlockProcessorCleanup                                                   *)
CleanUpDeadChannel ==
    /\ "live" \in Known(queue)
    /\ dropped' = TRUE
    /\ queue' = RemoveSource(queue, "live")
    /\ UNCHANGED <<vars, uncheckedVars, requests, results, phase, caller, delivered, forced,
                   halted>>

-----------------------------------------------------------------------------
(* The thread                                                              *)

(* BlockProcessorLoop::next_batch                                          *)
TakeBlocks ==
    /\ phase = "idle" /\ ~halted /\ queue.total > 0
    /\ \E next \in {NextBatch(queue, MaxBatch)} :
          /\ queue' = next.queue
          /\ requests' = [i \in DOMAIN next.items |-> next.items[i].item]
    /\ phase' = "batch"
    /\ UNCHANGED <<vars, uncheckedVars, results, caller, delivered, forced, dropped,
                   halted>>

(* block_successor_by_qualified_root                                       *)
Competitor(h) ==
    IF Previous(h) # Zero
    THEN IF Previous(h) \in Stored THEN block[Previous(h)].successor ELSE Zero
    ELSE IF account[Block[h].account] # None THEN account[Block[h].account].open ELSE Zero

(* Only forks of open blocks are looked for.                               *)
HasCompetitor_Open(request) ==
    /\ request.forced /\ Previous(request.hash) = Zero
    /\ Competitor(request.hash) \notin {Zero, request.hash}

HasCompetitor(request) ==
    request.forced /\ Competitor(request.hash) \notin {Zero, request.hash}

(* BlockProcessorLoop::rollback_competitor                                 *)
RollbackCompetitor ==
    /\ phase = "batch" /\ requests # <<>> /\ HasCompetitor(Head(requests))
    /\ RollbackStart(Competitor(Head(requests).hash))
    /\ phase' = "forcing"
    /\ UNCHANGED <<uncheckedVars, queue, requests, results, caller, delivered, forced, dropped,
                   halted>>

(* When a dependent block is gone the caller returns as well.              *)
RollbackLoop_Returns ==
    /\ phase = "forcing"
    /\ \/ RollbackRemove \/ RollbackDependency \/ RollbackFail
       \/ /\ rollback # <<>> /\ Target \notin Stored
          /\ rollback' = <<>>
          /\ UNCHANGED <<tables, prune>>
    /\ UNCHANGED <<uncheckedVars, processing>>

(* Ledger::rollback                                                        *)
RollbackLoop ==
    /\ phase = "forcing"
    /\ RollbackRemove \/ RollbackDependency \/ RollbackReturn \/ RollbackFail
    /\ UNCHANGED <<uncheckedVars, processing>>

(* Only the block itself is triggered.                                     *)
Triggers_BlockOnly(h) == <<h>>

(* What the arrival of a block triggers: blocks that wait for it, and      *)
(* epoch open blocks that wait for something the account can receive       *)
Triggers(h) ==
    IF Type(h) = "send" \/ (Type(h) = "state" /\ IsSend(h) /\ NewEpoch(h) < 2)
    THEN <<h, DestinationOrLink(h)>> ELSE <<h>>

GapOf(h, status) ==
    CASE status = "GapPrevious" -> Previous(h)
      [] status = "GapSource" -> SourceOrLink(h)
      [] status = "GapEpochOpenPending" -> Block[h].account

IsGap(status) == status \in {"GapPrevious", "GapSource", "GapEpochOpenPending"}

(* BlockProcessorLoop::process_one                                         *)
ProcessOne ==
    /\ requests # <<>> /\ satisfied = <<>>
    /\ (phase = "batch" /\ ~HasCompetitor(Head(requests))) \/ (phase = "forcing" /\ rollback = <<>>)
    /\ \E h \in Hash : \E status \in {Validate(h)} :
          /\ h = Head(requests).hash
          /\ results' = Append(results, [request |-> Head(requests), status |-> status])
          /\ IF status = "Progress" THEN Process(h) ELSE UNCHANGED vars
          /\ buffer' = IF status = "Progress" THEN buffer \o Triggers(h) ELSE buffer
          /\ IF IsGap(status) THEN PutUnchecked(GapOf(h, status), h)
             ELSE unchecked' = unchecked
          /\ dropped' = (dropped \/ (\E e \in Elements(unchecked) : e \notin Elements(unchecked')))
    /\ requests' = Tail(requests)
    /\ phase' = "batch"
    /\ UNCHANGED <<backBuffer, satisfied, queue, caller, delivered, forced, halted>>

(* BlockProcessorContext::set_result                                       *)
SetResults ==
    [c \in Caller |->
        LET mine == {r \in Elements(results) : r.request.caller = c}
        IN IF mine = {} THEN caller[c] ELSE (CHOOSE r \in mine : TRUE).status]

(* BlockProcessorLoop::run, after a batch                                  *)
BatchProcessed ==
    /\ phase = "batch" /\ requests = <<>>
    /\ caller' = SetResults
    /\ results' = <<>>
    /\ phase' = "idle"
    /\ UNCHANGED <<vars, uncheckedVars, queue, requests, delivered, forced, dropped, halted>>

Halt ==
    /\ ~halted
    /\ halted' = TRUE
    /\ UNCHANGED <<vars, uncheckedVars, queue, requests, results, phase, caller, delivered, forced,
                   dropped>>

UncheckedThread ==
    /\ SwapBuffer \/ QueryImpl
    /\ UNCHANGED <<vars, processing>>

(* The confirming set cements blocks when it has the write queue.          *)
CementOther ==
    /\ phase # "forcing"
    /\ \E h \in Cementable : Cement(h)
    /\ UNCHANGED <<uncheckedVars, processing>>

ProcessorInit ==
    /\ Init /\ UncheckedInit
    /\ queue = EmptyQueue /\ requests = <<>> /\ results = <<>> /\ phase = "idle"
    /\ caller = [c \in Caller |-> "idle"]
    /\ delivered = [h \in Hash |-> 0] /\ forced = {} /\ dropped = FALSE /\ halted = FALSE

ThreadStep == TakeBlocks \/ RollbackCompetitor \/ RollbackLoop \/ ProcessOne \/ BatchProcessed

ProcessorNext ==
    \/ \E h \in Hash : AddLive(h) \/ ForceBlock(h) \/ \E c \in Caller : AddBlocking(c, h)
    \/ ThreadStep \/ Halt \/ CleanUpDeadChannel
    \/ UncheckedThread \/ HandOver
    \/ CementOther

ProcessorSpec == ProcessorInit /\ [][ProcessorNext]_processorVars

(* The two threads keep running.                                           *)
ProcessorFairSpec ==
    /\ ProcessorSpec
    /\ WF_processorVars(ThreadStep)
    /\ WF_processorVars(UncheckedThread) /\ WF_processorVars(HandOver)

-----------------------------------------------------------------------------
(* Properties                                                              *)

(* A forced block that is refused as a fork lost to a cemented block: any  *)
(* other competitor was rolled back for it, with all that depends on it.   *)
ForcedReplaces ==
    \A r \in Elements(results) :
        r.request.forced /\ r.status = "Fork" =>
            \E h \in Stored : Root(h) = Root(r.request.hash) /\ Confirmed(h)

(* All the processor does to the ledger is a sequence of ledger operations *)
(* that respect each other: no write happens in the middle of a rollback.  *)
ProcessorImplementsLedger == [][Next]_vars

(* Blocks may arrive in any order: once all have been delivered, all end   *)
(* up in the ledger, unless a full queue or the full unchecked map dropped *)
(* one, or a fork was forced; and a caller of add_blocking whose block was *)
(* queued gets its status.                                                 *)
AllDelivered == \A h \in Hash \ (Winner \cup {Genesis}) : delivered[h] > 0
CallerQueued(c) ==
    \E r \in Elements(requests) \cup {x.request : x \in Elements(results)}
             \cup UNION {Elements(queue.queues[s]) : s \in Known(queue)} : r.caller = c
EventuallyInLedger ==
    /\ AllDelivered ~> (Hash \ Winner \subseteq Stored \/ dropped \/ forced # {} \/ halted)
    /\ \A c \in Caller : CallerQueued(c) ~> (caller[c] # "waiting" \/ halted)

=============================================================================
