----------------------------- MODULE WriteQueue -----------------------------
(***************************************************************************)
(* The ledger's write queue (ledger/src/write_queue.rs) together with the  *)
(* LMDB write transaction that every holder of a WriteGuard opens.  Each   *)
(* element of Writers is one long-lived thread with its own Writer tag     *)
(* (confirmation height, block processor, pruning, final voting).  LMDB    *)
(* admits one write transaction at a time; Outsiders are the threads that  *)
(* open one without passing through the queue (peer cache, online weight   *)
(* sampler).                                                               *)
(***************************************************************************)
EXTENDS Naturals, Sequences, FiniteSets

CONSTANTS
    Writers,      \* threads that call WriteQueue::wait
    Notifiers,    \* writers that run ConfirmingSetThread::notify_maybe
    Outsiders,    \* threads that call Ledger::rw_txn without a guard
    NoOwner       \* no LMDB write transaction is open

ASSUME WritersAssumption ==
    /\ Notifiers \subseteq Writers
    /\ Writers \cap Outsiders = {}
    /\ NoOwner \notin Writers \cup Outsiders

VARIABLES
    queue,        \* WriteQueueData::queue
    pc,           \* where each writer thread is
    tx            \* the thread that owns the LMDB write transaction

queueVars == <<queue, pc, tx>>

(* idle     : no guard, nothing queued, between two pieces of work         *)
(* again    : gave the guard up in the middle of its work, will wait again *)
(* waiting  : inside WriteQueue::wait                                      *)
(* guarded  : owns the guard, no transaction open                          *)
(* writing  : owns the guard and the transaction                           *)
(* committed: owns the guard, has committed what it wrote                  *)
(* draining : dropped the guard, the transaction is still open             *)
PC == {"idle", "again", "waiting", "guarded", "writing", "committed", "draining"}

HoldsGuard(w) == pc[w] \in {"guarded", "writing", "committed"}

Queued(w) == \E i \in 1..Len(queue) : queue[i] = w

QueueInit ==
    /\ queue = <<>>
    /\ pc = [w \in Writers |-> "idle"]
    /\ tx = NoOwner

(* WriteQueue::wait up to the condition variable.  The assertion that the  *)
(* tag is not queued yet is the invariant NoDoubleWait.                    *)
Wait(w) ==
    /\ pc[w] \in {"idle", "again"}
    /\ queue' = Append(queue, w)
    /\ pc' = [pc EXCEPT ![w] = "waiting"]
    /\ UNCHANGED tx

(* A wait_while that returns for any queued writer.                        *)
Acquire_AnyPosition(w) ==
    /\ pc[w] = "waiting"
    /\ Queued(w)
    /\ pc' = [pc EXCEPT ![w] = "guarded"]
    /\ UNCHANGED <<queue, tx>>

(* wait_while returns: the writer is at the front of the queue.            *)
Acquire(w) ==
    /\ pc[w] = "waiting"
    /\ queue # <<>> /\ Head(queue) = w
    /\ pc' = [pc EXCEPT ![w] = "guarded"]
    /\ UNCHANGED <<queue, tx>>

(* Ledger::rw_txn or LmdbWriteTransaction::renew: LMDB blocks until no     *)
(* other write transaction is open.                                        *)
Begin(w) ==
    /\ pc[w] \in {"guarded", "committed"}
    /\ tx = NoOwner
    /\ tx' = w
    /\ pc' = [pc EXCEPT ![w] = "writing"]
    /\ UNCHANGED queue

(* Transaction commit while the guard stays owned: the first half of       *)
(* refresh_if_needed, of a scope that ends, and of the cementer's and the  *)
(* pruner's own commit-and-renew.                                          *)
Commit(w) ==
    /\ pc[w] = "writing"
    /\ tx' = NoOwner
    /\ pc' = [pc EXCEPT ![w] = "committed"]
    /\ UNCHANGED queue

(* A finish callback that leaves the queue alone.                          *)
PopFront_Forgotten == UNCHANGED queue

(* The guard's finish callback: pop_front and notify_all.                  *)
PopFront == queue' = Tail(queue)

(* WriteGuard::release after the commit, either in the middle of the work  *)
(* (refresh_if_needed) or at its end.                                      *)
Release(w) ==
    /\ pc[w] = "committed"
    /\ PopFront
    /\ \E next \in {"idle", "again"} : pc' = [pc EXCEPT ![w] = next]
    /\ UNCHANGED tx

(* notify_maybe drops the guard before it commits the transaction.         *)
DropGuardEarly(w) ==
    /\ w \in Notifiers
    /\ pc[w] = "writing"
    /\ PopFront
    /\ pc' = [pc EXCEPT ![w] = "draining"]
    /\ UNCHANGED tx

(* A notify_maybe that waits again without committing.                     *)
CommitLate_Forgotten(w) ==
    /\ pc[w] = "draining"
    /\ pc' = [pc EXCEPT ![w] = "again"]
    /\ UNCHANGED <<queue, tx>>

(* ... then commits, notifies, and waits for the queue again.              *)
CommitLate(w) ==
    /\ pc[w] = "draining"
    /\ tx' = NoOwner
    /\ pc' = [pc EXCEPT ![w] = "again"]
    /\ UNCHANGED queue

(* A thread outside the queue opens and commits its own transaction.       *)
OutsiderBegin(o) ==
    /\ tx = NoOwner
    /\ tx' = o
    /\ UNCHANGED <<queue, pc>>

OutsiderCommit(o) ==
    /\ tx = o
    /\ tx' = NoOwner
    /\ UNCHANGED <<queue, pc>>

QueueNext ==
    \/ \E w \in Writers :
          \/ Wait(w) \/ Acquire(w) \/ Begin(w) \/ Commit(w) \/ Release(w)
          \/ DropGuardEarly(w) \/ CommitLate(w)
    \/ \E o \in Outsiders : OutsiderBegin(o) \/ OutsiderCommit(o)

QueueSpec == QueueInit /\ [][QueueNext]_queueVars

-----------------------------------------------------------------------------
(* Fairness.  A thread that can go on does.  A batch of work is finite, so *)
(* a writer that keeps committing and renewing releases in the end (strong *)
(* fairness of Release), and the threads outside the queue write rarely    *)
(* (minutes apart), so LMDB is again and again free for the guard's owner  *)
(* (strong fairness of Begin).  No thread has to start new work.           *)
Fairness ==
    /\ \A w \in Writers :
          /\ WF_queueVars(pc[w] = "again" /\ Wait(w))
          /\ WF_queueVars(Acquire(w))
          /\ SF_queueVars(Begin(w))
          /\ WF_queueVars(Commit(w))
          /\ SF_queueVars(Release(w))
          /\ WF_queueVars(CommitLate(w))
    /\ \A o \in Outsiders : WF_queueVars(OutsiderCommit(o))

QueueFairSpec == QueueSpec /\ Fairness

-----------------------------------------------------------------------------
(* Types of the queue, the program counters and the transaction's owner.   *)
TypeOK ==
    /\ queue \in Seq(Writers)
    /\ pc \in [Writers -> PC]
    /\ tx \in Writers \cup Outsiders \cup {NoOwner}

(* The assertion in WriteQueue::wait (write_queue.rs:85): a writer that is *)
(* about to wait is not in the queue already, whatever the order in which  *)
(* guards were dropped, refreshed and renewed before.                      *)
NoDoubleWait == \A w \in Writers : pc[w] \in {"idle", "again"} => ~Queued(w)

(* wait: "Blocks until we are at the head of the queue and blocks other    *)
(* waiters": every owner of a guard is the head of the queue, so no two    *)
(* writers ever own one.                                                   *)
GuardExclusive ==
    \A w \in Writers : HoldsGuard(w) => queue # <<>> /\ Head(queue) = w

(* No writer blocks in the queue while its LMDB transaction is open; it    *)
(* would block the head of the queue in rw_txn for ever.  A transaction is *)
(* open only while its owner writes or drains.                             *)
NoTxWhileWaiting ==
    \A w \in Writers : (tx = w) <=> (pc[w] \in {"writing", "draining"})

(* Every thread that waits is served: the guard of the thread before it is *)
(* dropped in the end, and nobody waits for somebody who waits for it.     *)
EveryWaiterServed ==
    \A w \in Writers : pc[w] = "waiting" ~> HoldsGuard(w)

=============================================================================
