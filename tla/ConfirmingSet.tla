---------------------------- MODULE ConfirmingSet ----------------------------
(***************************************************************************)
(* The confirming set (node/src/cementation): blocks that won their        *)
(* election wait here until a thread cements them in batches, and the      *)
(* cemented blocks are handed to a worker that notifies the observers.     *)
(* The thread takes its turn in the write queue; whenever it lets go of it *)
(* (to refresh a long transaction, to notify) the other writers of the     *)
(* ledger may run.                                                         *)
(***************************************************************************)
EXTENDS BlockCementer

CONSTANTS
    Winners,                \* blocks that may win an election
    BatchSize,              \* ConfirmingSetConfig::batch_size
    MaxQueuedNotifications  \* ConfirmingSetConfig::max_queued_notifications

ASSUME ConfirmingSetAssumption ==
    Winners \subseteq Hash /\ BatchSize \in Nat /\ MaxQueuedNotifications \in Nat \ {0}

VARIABLES
    set,        \* hashes waiting, in order
    current,    \* hashes of the batch being cemented
    batch,      \* entries of the batch still to do, the current one first
    cemented,   \* cemented blocks not yet handed to the worker
    already,    \* hashes found cemented already
    tasks,      \* tasks queued at the notification worker
    running,    \* the task it is working on, or None
    notified,   \* blocks the observers were told of
    durable,    \* confirmation heights of the last commit
    stopped,
    pc          \* where the thread is

confirming == <<set, current, batch, cemented, already, tasks, running, notified,
                durable, stopped, pc>>
setVars == <<cementerVars, confirming>>

Members(s) == {s[i] : i \in DOMAIN s}

(* The thread is at the head of the write queue.                           *)
Guarded == pc \in {"loop", "step", "confirm", "walk"}

Contains(h) == h \in Members(set) \/ h \in current

-----------------------------------------------------------------------------

(* ConfirmingSetThread::add, OrderedEntries::insert                        *)
Add(h) ==
    /\ h \notin Members(set)
    /\ set' = Append(set, h)
    /\ UNCHANGED <<cementerVars, current, batch, cemented, already, tasks, running,
                   notified, durable, stopped, pc>>

Stop ==
    /\ ~stopped
    /\ stopped' = TRUE
    /\ UNCHANGED <<cementerVars, set, current, batch, cemented, already, tasks, running,
                   notified, durable, pc>>

(* ConfirmingSetImpl::next_batch pops entries until one is too many, and   *)
(* that one is dropped.                                                    *)
TakeBatch ==
    /\ pc = "idle" /\ ~stopped /\ set # <<>>
    /\ batch' = SubSeq(set, 1, IF Len(set) < BatchSize THEN Len(set) ELSE BatchSize)
    /\ set' = SubSeq(set, BatchSize + 2, Len(set))
    /\ current' = current \cup Members(batch')
    /\ pc' = "acquire"
    /\ UNCHANGED <<cementerVars, cemented, already, tasks, running, notified, durable,
                   stopped>>

(* run returns                                                             *)
ThreadExits ==
    /\ pc = "idle" /\ stopped
    /\ pc' = "done"
    /\ UNCHANGED <<cementerVars, set, current, batch, cemented, already, tasks, running,
                   notified, durable, stopped>>

(* WriteQueue::wait returns: at the start of the batch, after a refresh    *)
(* and after an intermediate notification                                  *)
Acquire ==
    /\ ~Busy
    /\ \/ pc = "acquire" /\ pc' = "loop"
       \/ pc = "refresh" /\ pc' = "step"
       \/ pc = "renew" /\ pc' = "confirm"
    /\ UNCHANGED <<cementerVars, set, current, batch, cemented, already, tasks, running,
                   notified, durable, stopped>>

(* The top of the loop: Ledger::refresh_if_needed commits and lets go of   *)
(* the write queue when the transaction has become old                     *)
Refresh ==
    /\ pc = "loop" /\ batch # <<>>
    /\ \/ pc' = "step" /\ durable' = durable
       \/ pc' = "refresh" /\ durable' = confirmation
    /\ UNCHANGED <<cementerVars, set, current, batch, cemented, already, tasks, running,
                   notified, stopped>>

(* run_batch returns early on shutdown, without a notification             *)
Abandon ==
    /\ pc = "step" /\ stopped
    /\ pc' = "idle" /\ durable' = confirmation
    /\ batch' = <<>> /\ cemented' = <<>> /\ already' = <<>>
    /\ UNCHANGED <<cementerVars, set, current, tasks, running, notified, stopped>>

(* The observers are notified before the transaction is committed.         *)
NotifyMaybe_Uncommitted ==
    /\ pc = "step" /\ ~stopped
    /\ pc' = IF Len(cemented) >= MaxBlocks THEN "notify" ELSE "confirm"
    /\ UNCHANGED <<cementerVars, set, current, batch, cemented, already, tasks, running,
                   notified, stopped, durable>>

(* notify_maybe                                                            *)
NotifyMaybe ==
    /\ pc = "step" /\ ~stopped
    /\ IF Len(cemented) >= MaxBlocks
       THEN pc' = "notify" /\ durable' = confirmation
       ELSE pc' = "confirm" /\ durable' = durable
    /\ UNCHANGED <<cementerVars, set, current, batch, cemented, already, tasks, running,
                   notified, stopped>>

AfterNotify == IF pc = "notify" THEN "renew" ELSE "already"

(* notify hands the blocks to the worker unless too many tasks are queued  *)
Notify ==
    /\ pc \in {"notify", "final"}
    /\ Len(tasks) < MaxQueuedNotifications
    /\ tasks' = Append(tasks, cemented) /\ cemented' = <<>>
    /\ pc' = AfterNotify
    /\ UNCHANGED <<cementerVars, set, current, batch, already, running, notified,
                   durable, stopped>>

(* notify gives up on shutdown while it waits for the worker               *)
NotifyAborted ==
    /\ pc \in {"notify", "final"}
    /\ Len(tasks) >= MaxQueuedNotifications /\ stopped
    /\ cemented' = <<>>
    /\ pc' = AfterNotify
    /\ UNCHANGED <<cementerVars, set, current, batch, already, tasks, running, notified,
                   durable, stopped>>

NextEntry == /\ batch' = Tail(batch) /\ pc' = "loop"

(* The block was rolled back while it waited, or confirm_max is called     *)
Confirm ==
    /\ pc = "confirm"
    /\ IF Head(batch) \notin Stored
       THEN NextEntry /\ UNCHANGED cementerVars
       ELSE ConfirmStart(Head(batch)) /\ pc' = "walk" /\ UNCHANGED batch
    /\ UNCHANGED <<set, current, cemented, already, tasks, running, notified, durable,
                   stopped>>

Walk ==
    /\ pc = "walk"
    /\ Visit
    /\ UNCHANGED confirming

(* Only the first of several walks is reported.                            *)
ConfirmReturned_LastOnly ==
    /\ pc = "walk" /\ target = Zero
    /\ cemented' = IF Confirmed(Head(batch)) THEN cemented \o result ELSE cemented
    /\ already' = IF result = <<>> THEN Append(already, Head(batch)) ELSE already
    /\ IF Confirmed(Head(batch)) THEN NextEntry ELSE pc' = "loop" /\ UNCHANGED batch
    /\ UNCHANGED <<cementerVars, set, current, tasks, running, notified, durable, stopped>>

(* confirm_max returned: go on with this block until it is cemented        *)
ConfirmReturned ==
    /\ pc = "walk" /\ target = Zero
    /\ cemented' = cemented \o result
    /\ already' = IF result = <<>> THEN Append(already, Head(batch)) ELSE already
    /\ IF Confirmed(Head(batch)) THEN NextEntry ELSE pc' = "loop" /\ UNCHANGED batch
    /\ UNCHANGED <<cementerVars, set, current, tasks, running, notified, durable, stopped>>

(* A few blocks are not worth a notification.                              *)
EndBatch_Lazy ==
    /\ pc = "loop" /\ batch = <<>>
    /\ pc' = IF Len(cemented) > MaxBlocks THEN "final" ELSE "already"
    /\ durable' = confirmation
    /\ UNCHANGED <<cementerVars, set, current, batch, cemented, already, tasks, running,
                   notified, stopped>>

(* All entries are done: the transaction is committed                      *)
EndBatch ==
    /\ pc = "loop" /\ batch = <<>>
    /\ pc' = "final" /\ durable' = confirmation
    /\ UNCHANGED <<cementerVars, set, current, batch, cemented, already, tasks, running,
                   notified, stopped>>

(* The already-cemented observers run on this thread; current is cleared   *)
NotifyAlready ==
    /\ pc = "already"
    /\ already' = <<>> /\ current' = {} /\ pc' = "idle"
    /\ UNCHANGED <<cementerVars, set, batch, cemented, tasks, running, notified, durable,
                   stopped>>

(* The notification worker                                                 *)
TakeTask ==
    /\ running = None /\ tasks # <<>>
    /\ running' = Head(tasks) /\ tasks' = Tail(tasks)
    /\ UNCHANGED <<cementerVars, set, current, batch, cemented, already, notified, durable,
                   stopped, pc>>

NotifyBatch ==
    /\ running # None
    /\ notified' = notified \o running /\ running' = None
    /\ UNCHANGED <<cementerVars, set, current, batch, cemented, already, tasks, durable,
                   stopped, pc>>

Worker == TakeTask \/ NotifyBatch

Thread ==
    \/ TakeBatch \/ ThreadExits \/ Refresh \/ Abandon \/ NotifyMaybe
    \/ Notify \/ NotifyAborted \/ Confirm \/ Walk \/ ConfirmReturned \/ EndBatch
    \/ NotifyAlready

LedgerLoop ==
    /\ ~Guarded
    /\ RollbackRemove \/ RollbackDependency \/ RollbackReturn \/ RollbackFail
       \/ PruneStep \/ PruneEnd \/ PruneInterrupted
    /\ UNCHANGED <<cementer, confirming>>

LedgerStart ==
    /\ ~Guarded
    /\ \E h \in Hash : Process(h) \/ RollbackStart(h) \/ PruneStart(h)
    /\ UNCHANGED <<cementer, confirming>>

SetInit ==
    /\ CementerInit
    /\ set = <<>> /\ current = {} /\ batch = <<>> /\ cemented = <<>> /\ already = <<>>
    /\ tasks = <<>> /\ running = None /\ notified = <<>>
    /\ durable = confirmation /\ stopped = FALSE /\ pc = "idle"

SetNext ==
    \/ \E h \in Winners : Add(h)
    \/ Stop \/ Thread \/ Acquire \/ Worker \/ LedgerLoop \/ LedgerStart

SetSpec == SetInit /\ [][SetNext]_setVars

(* The thread and the worker keep running, rollbacks and prunings end, and *)
(* the write queue serves the thread in its turn.                          *)
FairSetSpec ==
    /\ SetSpec
    /\ WF_setVars(Thread) /\ WF_setVars(Worker) /\ WF_setVars(LedgerLoop)
    /\ SF_setVars(Acquire)

-----------------------------------------------------------------------------
(* Properties                                                              *)

(* The cemented blocks on their way to the observers, the oldest first.    *)
Queued == LET first[n \in 0..Len(tasks)] == IF n = 0 THEN <<>> ELSE first[n - 1] \o tasks[n]
          IN first[Len(tasks)]
Pipeline ==
    notified \o (IF running = None THEN <<>> ELSE running) \o Queued \o cemented
        \o (IF pc = "walk" THEN result ELSE <<>>)

(* Until shutdown, every cemented block is on its way to the observers or  *)
(* has reached them, once and after the blocks it depends on, however many *)
(* walks, batches and intermediate notifications it takes.                 *)
CementedNotifiedOnce ==
    /\ \A i, j \in DOMAIN Pipeline : i < j =>
          /\ Pipeline[i] # Pipeline[j]
          /\ Pipeline[i] \in Stored => Pipeline[j] \notin DependentBlocks(Pipeline[i])
    /\ ~stopped => \A h \in Hash \ {Genesis} : Confirmed(h) => h \in Members(Pipeline)

(* A block that the observers hear of, as cemented or as already cemented, *)
(* is cemented, and the former durably: a node that dies right after the   *)
(* notification still has the block cemented when it comes back.           *)
NotifiedDurable ==
    /\ \A h \in Members(notified) \cup (IF running = None THEN {} ELSE Members(running)) :
          h \in pruned \/ block[h].height <= durable[block[h].account].height
    /\ \A h \in Members(already) : ConfirmedOrPruned(h)

(* A winner in the set is eventually cemented, unless it is not in the     *)
(* ledger for a time or the node stops; and the observers are told of a    *)
(* cemented winner, whatever the number of walks and notifications it took *)
(* and however full the queue of notifications was.                        *)
EventuallyNotified ==
    \A h \in Winners :
        /\ h \in Members(set) ~> (ConfirmedOrPruned(h) \/ h \notin Stored \/ stopped)
        /\ Confirmed(h) ~> (h \in Members(notified) \/ stopped)

(* "Added blocks will remain in this set until after ledger has them       *)
(* marked as confirmed." (ConfirmingSet::contains)                         *)
RemainUntilConfirmed ==
    [][\A h \in Hash : Contains(h) /\ ~Contains(h)' =>
          ConfirmedOrPruned(h)' \/ h \notin Stored']_setVars

=============================================================================
