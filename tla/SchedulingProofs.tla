-------------------------- MODULE SchedulingProofs --------------------------
(****************************************************************************)
(* Who gets its turn, and when.                                             *)
(*                                                                          *)
(* The write queue: one writer at a time, for any set of writer threads.    *)
(*                                                                          *)
(* The election schedulers: no block before the ones it depends on, for any *)
(* accounts, blocks, buckets and limits.                                    *)
(****************************************************************************)
EXTENDS WriteQueue, ElectionSchedulers, FiniteSetTheorems, WellFoundedInduction, TLAPS

(* The queue holds every waiting or guard-owning writer exactly once.      *)
QueueExact ==
    /\ \A i, j \in 1..Len(queue) : queue[i] = queue[j] => i = j
    /\ \A w \in Writers :
          Queued(w) <=> pc[w] \in {"waiting", "guarded", "writing", "committed"}

IInv == TypeOK /\ QueueExact /\ GuardExclusive /\ NoTxWhileWaiting

(* The initial queue is empty and nobody holds a guard or a transaction.   *)
LEMMA InitIInv == QueueInit => IInv
BY WritersAssumption
   DEF QueueInit, IInv, TypeOK, QueueExact, GuardExclusive, NoTxWhileWaiting,
       Queued, HoldsGuard, PC

(* What pop_front leaves: the entries after the first one.                 *)
LEMMA TailFacts ==
    ASSUME NEW q \in Seq(Writers), q # <<>>
    PROVE  /\ Tail(q) \in Seq(Writers)
           /\ Len(Tail(q)) = Len(q) - 1
           /\ \A i \in 1..Len(Tail(q)) : Tail(q)[i] = q[i + 1]
           /\ Len(q) \in Nat \ {0}
           /\ Head(q) = q[1]
OBVIOUS

(* A writer leaves the queue exactly when it is popped as its head.        *)
LEMMA PopQueued ==
    ASSUME IInv, NEW w \in Writers, HoldsGuard(w), PopFront,
           NEW v \in Writers
    PROVE  /\ queue' \in Seq(Writers)
           /\ \A i, j \in 1..Len(queue') : queue'[i] = queue'[j] => i = j
           /\ Queued(v)' <=> (Queued(v) /\ v # w)
           /\ v # w => ~HoldsGuard(v)
<1>1. queue \in Seq(Writers) /\ queue # <<>> /\ Head(queue) = w
  BY DEF IInv, TypeOK, GuardExclusive
<1>2. /\ queue' \in Seq(Writers)
      /\ Len(queue') = Len(queue) - 1
      /\ \A i \in 1..Len(queue') : queue'[i] = queue[i + 1]
      /\ Len(queue) \in Nat \ {0}
      /\ Head(queue) = queue[1]
  BY <1>1, TailFacts DEF PopFront
<1>3. \A i, j \in 1..Len(queue) : queue[i] = queue[j] => i = j
  BY DEF IInv, QueueExact
<1>4. ASSUME NEW i \in 1..Len(queue'), NEW j \in 1..Len(queue'), queue'[i] = queue'[j]
      PROVE  i = j
  <2>1. i \in Nat /\ j \in Nat /\ i + 1 \in 1..Len(queue) /\ j + 1 \in 1..Len(queue)
    BY <1>2
  <2>2. queue[i + 1] = queue[j + 1]
    BY <1>2, <1>4, Zenon
  <2>3. i + 1 = j + 1
    BY <1>3, <2>1, <2>2, Zenon
  <2> QED BY <2>1, <2>3
<1>5. Queued(v)' <=> (Queued(v) /\ v # w)
  <2>1. ASSUME Queued(v)' PROVE Queued(v) /\ v # w
    <3>1. PICK i \in 1..Len(queue') : queue'[i] = v
      BY <2>1 DEF Queued
    <3>2. i + 1 \in 1..Len(queue) /\ queue[i + 1] = v /\ i + 1 # 1 /\ 1 \in 1..Len(queue)
      BY <3>1, <1>2
    <3> QED BY <3>2, <1>1, <1>2, <1>3 DEF Queued
  <2>2. ASSUME Queued(v), v # w PROVE Queued(v)'
    <3>1. PICK i \in 1..Len(queue) : queue[i] = v
      BY <2>2 DEF Queued
    <3>2. i # 1 BY <3>1, <2>2, <1>1, <1>2
    <3>3. i - 1 \in 1..Len(queue') /\ queue'[i - 1] = queue[(i - 1) + 1] /\ (i - 1) + 1 = i
      BY <3>1, <3>2, <1>2
    <3> QED BY <3>1, <3>3 DEF Queued
  <2> QED BY <2>1, <2>2
<1>6. v # w => ~HoldsGuard(v)
  BY <1>1 DEF IInv, GuardExclusive
<1> QED BY <1>2, <1>4, <1>5, <1>6

(* Every step of a writer or of an outside thread keeps the invariant.     *)
LEMMA NextIInv == IInv /\ [QueueNext]_queueVars => IInv'
<1> SUFFICES ASSUME IInv, [QueueNext]_queueVars PROVE IInv'
  OBVIOUS
<1> USE WritersAssumption
<1>1. ASSUME NEW w \in Writers, Wait(w) PROVE IInv'
  <2>0. /\ pc \in [Writers -> PC] /\ queue \in Seq(Writers)
        /\ ~Queued(w) /\ pc' = [pc EXCEPT ![w] = "waiting"] /\ tx' = tx
        /\ pc[w] \in {"idle", "again"}
    BY <1>1 DEF IInv, TypeOK, QueueExact, Wait
  <2>1. /\ queue' \in Seq(Writers)
        /\ Len(queue') = Len(queue) + 1
        /\ \A i \in 1..Len(queue) : queue'[i] = queue[i]
        /\ queue'[Len(queue) + 1] = w
        /\ Len(queue) \in Nat
    BY <1>1, <2>0 DEF Wait
  <2>2. TypeOK'
    BY <2>0, <2>1 DEF IInv, TypeOK, PC
  <2>3. \A v \in Writers : Queued(v)' <=> Queued(v) \/ v = w
    <3> SUFFICES ASSUME NEW v \in Writers PROVE Queued(v)' <=> Queued(v) \/ v = w
      OBVIOUS
    <3>1. ASSUME Queued(v)' PROVE Queued(v) \/ v = w
      <4>1. PICK i \in 1..Len(queue') : queue'[i] = v BY <3>1 DEF Queued
      <4>2. i \in 1..Len(queue) \/ i = Len(queue) + 1 BY <2>1
      <4> QED BY <4>1, <4>2, <2>1 DEF Queued
    <3>2. ASSUME Queued(v) PROVE Queued(v)'
      <4>1. PICK i \in 1..Len(queue) : queue[i] = v BY <3>2 DEF Queued
      <4>2. i \in 1..Len(queue') BY <2>1
      <4> QED BY <4>1, <4>2, <2>1 DEF Queued
    <3>3. Queued(w)'
      <4>1. Len(queue) + 1 \in 1..Len(queue') BY <2>1
      <4> QED BY <4>1, <2>1 DEF Queued
    <3> QED BY <3>1, <3>2, <3>3
  <2>4. \A i, j \in 1..Len(queue') : queue'[i] = queue'[j] => i = j
    <3> SUFFICES ASSUME NEW i \in 1..Len(queue'), NEW j \in 1..Len(queue'),
                        queue'[i] = queue'[j]
                 PROVE  i = j
      OBVIOUS
    <3>1. /\ i \in 1..Len(queue) \/ i = Len(queue) + 1
          /\ j \in 1..Len(queue) \/ j = Len(queue) + 1
      BY <2>1
    <3>2. \A k \in 1..Len(queue) : queue[k] # w BY <2>0 DEF Queued
    <3> QED BY <3>1, <3>2, <2>1 DEF IInv, QueueExact
  <2>5. QueueExact'
    <3>1. \A v \in Writers : pc'[v] = IF v = w THEN "waiting" ELSE pc[v]
      BY <2>0
    <3> QED BY <3>1, <2>3, <2>4 DEF IInv, QueueExact
  <2>6. GuardExclusive'
    <3> SUFFICES ASSUME NEW v \in Writers, HoldsGuard(v)'
                 PROVE  queue' # <<>> /\ Head(queue') = v
      BY DEF GuardExclusive
    <3>1. v # w /\ HoldsGuard(v) BY <2>0 DEF HoldsGuard
    <3>2. queue # <<>> /\ Head(queue) = v BY <3>1 DEF IInv, GuardExclusive
    <3>3. Len(queue) \in Nat \ {0} /\ Head(queue) = queue[1] BY <3>2, <2>0, TailFacts
    <3>4. queue' # <<>> /\ Head(queue') = queue'[1] BY <2>1
    <3> QED BY <3>2, <3>3, <3>4, <2>1
  <2>7. NoTxWhileWaiting'
    BY <2>0 DEF IInv, NoTxWhileWaiting
  <2> QED BY <2>2, <2>5, <2>6, <2>7 DEF IInv
<1>2. ASSUME NEW w \in Writers, Acquire(w) PROVE IInv'
  BY <1>2 DEF IInv, TypeOK, QueueExact, GuardExclusive, NoTxWhileWaiting,
              Queued, HoldsGuard, PC, Acquire
<1>3. ASSUME NEW w \in Writers, Begin(w) PROVE IInv'
  BY <1>3 DEF IInv, TypeOK, QueueExact, GuardExclusive, NoTxWhileWaiting,
              Queued, HoldsGuard, PC, Begin
<1>4. ASSUME NEW w \in Writers, Commit(w) PROVE IInv'
  BY <1>4 DEF IInv, TypeOK, QueueExact, GuardExclusive, NoTxWhileWaiting,
              Queued, HoldsGuard, PC, Commit
<1>5. ASSUME NEW w \in Writers, HoldsGuard(w), PopFront,
             NEW p \in {"idle", "again", "draining"},
             pc' = [pc EXCEPT ![w] = p], tx' = tx,
             p = "draining" <=> pc[w] = "writing"
      PROVE  IInv'
  <2>1. \A v \in Writers : /\ Queued(v)' <=> (Queued(v) /\ v # w)
                           /\ v # w => ~HoldsGuard(v)
    BY <1>5, PopQueued
  <2>2. /\ queue' \in Seq(Writers)
        /\ \A i, j \in 1..Len(queue') : queue'[i] = queue'[j] => i = j
    BY <1>5, PopQueued
  <2>3. /\ pc \in [Writers -> PC] /\ pc' \in [Writers -> PC]
        /\ \A v \in Writers : pc'[v] = IF v = w THEN p ELSE pc[v]
    BY <1>5 DEF IInv, TypeOK, PC
  <2>4. TypeOK' BY <2>2, <2>3, <1>5 DEF IInv, TypeOK
  <2>5. QueueExact' BY <2>1, <2>2, <2>3 DEF IInv, QueueExact
  <2>6. GuardExclusive' BY <2>1, <2>3 DEF GuardExclusive, HoldsGuard
  <2>7. NoTxWhileWaiting'
    BY <2>3, <1>5 DEF IInv, NoTxWhileWaiting, HoldsGuard
  <2> QED BY <2>4, <2>5, <2>6, <2>7 DEF IInv
<1>6. ASSUME NEW w \in Writers, Release(w) PROVE IInv'
  BY <1>5, <1>6, Zenon DEF Release, HoldsGuard
<1>7. ASSUME NEW w \in Writers, DropGuardEarly(w) PROVE IInv'
  BY <1>5, <1>7, Zenon DEF DropGuardEarly, HoldsGuard
<1>8. ASSUME NEW w \in Writers, CommitLate(w) PROVE IInv'
  BY <1>8 DEF IInv, TypeOK, QueueExact, GuardExclusive, NoTxWhileWaiting,
              Queued, HoldsGuard, PC, CommitLate
<1>9. ASSUME NEW o \in Outsiders, OutsiderBegin(o) \/ OutsiderCommit(o) PROVE IInv'
  BY <1>9 DEF IInv, TypeOK, QueueExact, GuardExclusive, NoTxWhileWaiting,
              Queued, HoldsGuard, PC, OutsiderBegin, OutsiderCommit
<1>10. CASE UNCHANGED queueVars
  BY <1>10 DEF IInv, TypeOK, QueueExact, GuardExclusive, NoTxWhileWaiting,
               Queued, HoldsGuard, queueVars
<1> QED BY <1>1, <1>2, <1>3, <1>4, <1>6, <1>7, <1>8, <1>9, <1>10 DEF QueueNext

(* The strengthened invariant holds in every state of the write queue.     *)
LEMMA Invariance == QueueSpec => []IInv
BY InitIInv, NextIInv, PTL DEF QueueSpec

(* Guards are exclusive: whatever the number of writer threads and however *)
(* their refreshes and early releases interleave, the owner of a guard is  *)
(* the head of the queue.                                                  *)
THEOREM GuardExclusiveAlways == QueueSpec => []GuardExclusive
<1>1. IInv => GuardExclusive BY DEF IInv
<1> QED BY <1>1, Invariance, PTL

(* The assertion in WriteQueue::wait never fails.                          *)
THEOREM NoDoubleWaitAlways == QueueSpec => []NoDoubleWait
<1>1. IInv => NoDoubleWait BY DEF IInv, QueueExact, NoDoubleWait
<1> QED BY <1>1, Invariance, PTL

(* No thread waits for the queue with an LMDB write transaction open.      *)
THEOREM NoTxWhileWaitingAlways == QueueSpec => []NoTxWhileWaiting
<1>1. IInv => NoTxWhileWaiting BY DEF IInv
<1> QED BY <1>1, Invariance, PTL

-----------------------------------------------------------------------------
(* The election schedulers                                                  *)

EntryType == [time : Nat, block : Block]
StartedType ==
    [state : {"Active", "Confirmed", "Cancelled"},
     behavior : {"Priority", "Hinted", "Optimistic", "Manual"}, bucket : Nat]

BucketOK(b) ==
    /\ b = [queue |-> b.queue, elections |-> b.elections]
    /\ b.queue \subseteq EntryType

(* Where the thread of the priority scheduler is: it starts an election     *)
(* only from a bucket that still has a block.                               *)
ThreadOK(p, buckets) ==
    /\ p.pc \in {"check", "dozing", "asleep", "scan", "start", "record"}
    /\ p.pc \in {"scan", "start", "record"} => p.i \in Buckets
    /\ p.pc = "start" => buckets[p.i].queue # {}
    /\ p.pc = "record" => p = [pc |-> p.pc, i |-> p.i, root |-> p.root,
                               priority |-> p.priority, dead |-> p.dead]

LedgerOK ==
    /\ height \in [Account -> Nat] /\ \A a \in Account : height[a] <= Length[a]
    /\ modified \in [Account -> Nat] /\ clock \in Nat
    /\ confirmed \in [Account -> Nat]
    /\ \A n \in news : n.block \in Block

BucketsOK ==
    /\ bucket = [i \in Buckets |-> bucket[i]]
    /\ \A i \in Buckets : BucketOK(bucket[i])

ElectionsOK == elections \in [Active -> StartedType]

(* A block waits in a bucket only once its dependencies are confirmed, ...  *)
QueueReady == \A i \in Buckets : \A x \in bucket[i].queue : DependentsConfirmed(x.block)

(* ... and so it is when its election is started.                           *)
StartedReady ==
    \A b \in Active : elections[b].behavior = "Priority" => b \in Block /\ DependentsConfirmed(b)

SchedulerInv ==
    LedgerOK /\ BucketsOK /\ ElectionsOK /\ ThreadOK(priority, bucket) /\ QueueReady /\ StartedReady

-----------------------------------------------------------------------------
(* A set of naturals has a least element.                                   *)
LEMMA Least ==
    ASSUME NEW T, T \subseteq Nat, T # {}
    PROVE  \E x \in T : \A y \in T : x <= y
<1>1. PICK x \in T : \A y \in T : ~(<<y, x>> \in OpToRel(<, Nat))
  BY NatLessThanWellFounded, WFMin, Zenon
<1>2. ASSUME NEW y \in T PROVE x <= y
  <2>1. x \in Nat /\ y \in Nat /\ ~(<<y, x>> \in OpToRel(<, Nat))
    BY <1>1, <1>2, Zenon
  <2> QED
    BY <2>1 DEF OpToRel
<1> QED
  BY <1>2, Zenon

(* A bounded set of naturals has a maximum.                                 *)
LEMMA MaxBounded ==
    ASSUME NEW M \in Nat, NEW T, T \subseteq 0..M, T # {}
    PROVE  Max(T) \in T /\ \A y \in T : Max(T) >= y
<1>0. PICK D : D = {M - y : y \in T}
  BY Zenon
<1>1. D \subseteq Nat
  BY <1>0
<1>2. D # {}
  BY <1>0
<1>3. PICK d \in D : \A e \in D : d <= e
  BY <1>1, <1>2, Least, Zenon
<1>4. PICK x \in T : d = M - x
  BY <1>0, <1>3, Zenon
<1>5. ASSUME NEW y \in T PROVE x >= y
  <2>1. M - y \in D
    BY <1>0, <1>5, Zenon
  <2>2. d <= M - y
    BY <1>3, <2>1, Zenon
  <2>3. x \in 0..M /\ y \in 0..M
    BY <1>4, <1>5, Zenon
  <2> QED
    BY <1>4, <2>2, <2>3
<1> QED
  BY <1>5, Zenon DEF Max

(* The order of the entries of a bucket is strict, ...                      *)
LEMMA BeforeStrict ==
    ASSUME NEW x \in EntryType, NEW y \in EntryType
    PROVE  /\ ~Before(x, x)
           /\ Before(x, y) => ~Before(y, x)
<1>1. /\ x.time \in Nat /\ x.block \in Block /\ y.time \in Nat /\ y.block \in Block
  BY DEF EntryType
<1>2. PICK m, n : m = Order(x.block) /\ n = Order(y.block)
  BY Zenon
<1>3. m \in Nat /\ n \in Nat
  BY <1>1, <1>2, SchedulerAssumption, Zenon
<1>4. PICK s, t : s = x.time /\ t = y.time
  BY Zenon
<1>5. /\ Before(x, x) <=> s < s \/ (s = s /\ m < m)
      /\ Before(x, y) <=> s < t \/ (s = t /\ m < n)
      /\ Before(y, x) <=> t < s \/ (t = s /\ n < m)
  BY <1>2, <1>4, Zenon DEF Before
<1>6. s \in Nat /\ t \in Nat
  BY <1>1, <1>4, Zenon
<1> QED
  BY <1>3, <1>5, <1>6

(* ... and a queue that is not empty has a first entry.                     *)
LEMMA FirstExists ==
    ASSUME NEW Q, Q \subseteq EntryType, Q # {}
    PROVE  FirstEntry(Q) \in Q /\ \A y \in Q \ {FirstEntry(Q)} : Before(FirstEntry(Q), y)
<1>0. \A x \in Q : x.time \in Nat /\ x.block \in Block /\ x = [time |-> x.time, block |-> x.block]
  BY DEF EntryType
<1>1. PICK T : T = {x.time : x \in Q}
  BY Zenon
<1>2. T \subseteq Nat /\ T # {}
  BY <1>0, <1>1
<1>3. PICK t \in T : \A u \in T : t <= u
  BY <1>2, Least, Zenon
<1>4. PICK R : R = {Order(x.block) : x \in {y \in Q : y.time = t}}
  BY Zenon
<1>5. \A x \in Q : Order(x.block) \in Nat
  BY <1>0, SchedulerAssumption, Zenon
<1>6. R \subseteq Nat /\ R # {}
  BY <1>1, <1>3, <1>4, <1>5
<1>7. PICK r \in R : \A u \in R : r <= u
  BY <1>6, Least, Zenon
<1>8. PICK x \in Q : x.time = t /\ r = Order(x.block)
  BY <1>4, <1>7, Zenon
<1>9. ASSUME NEW y \in Q \ {x} PROVE Before(x, y)
  <2>1. t <= y.time /\ y.time \in Nat /\ t \in Nat
    BY <1>0, <1>1, <1>2, <1>3, <1>9, Zenon
  <2>2. CASE y.time = t
    <3>1. r <= Order(y.block) /\ r \in Nat /\ Order(y.block) \in Nat
      BY <1>4, <1>5, <1>6, <1>7, <1>9, <2>2, Zenon
    <3>2. y.block # x.block
      BY <1>0, <1>8, <1>9, <2>2, Zenon
    <3>3. Order(y.block) # r
      BY <1>0, <1>8, <1>9, <3>2, SchedulerAssumption, Zenon
    <3>4. r < Order(y.block)
      BY <3>1, <3>3
    <3> QED
      BY <1>8, <2>2, <3>4, Zenon DEF Before
  <2>3. CASE y.time # t
    <3>1. t < y.time
      BY <2>1, <2>3
    <3> QED
      BY <1>8, <3>1, Zenon DEF Before
  <2> QED
    BY <2>2, <2>3, Zenon
<1> QED
  BY <1>9, Zenon DEF FirstEntry

(* A bucket that is pushed to holds old and new entries and, once it has an *)
(* entry, does not get empty.                                               *)
LEMMA PushKeeps ==
    ASSUME NEW b, BucketOK(b), NEW entries, entries \subseteq EntryType
    PROVE  /\ BucketOK(Push(b, entries))
           /\ Push(b, entries).queue \subseteq b.queue \cup entries
           /\ b.queue # {} => Push(b, entries).queue # {}
<1>0. PICK all : all = b.queue \cup entries
  BY Zenon
<1>1. PICK q : q = {x \in all : Cardinality({y \in all : Before(y, x)}) < MaxBlocks}
  BY Zenon
<1>2. Push(b, entries) = [b EXCEPT !.queue = q]
  BY <1>0, <1>1, Zenon DEF Push
<1>3. b = [queue |-> b.queue, elections |-> b.elections]
  BY Zenon DEF BucketOK
<1>4. PICK p : p = Push(b, entries)
  BY Zenon
<1>5. p = [queue |-> p.queue, elections |-> p.elections] /\ p.queue = q
  BY <1>2, <1>3, <1>4
<1>6. q \subseteq all /\ all \subseteq EntryType
  BY <1>0, <1>1, Zenon DEF BucketOK
<1>7. ASSUME b.queue # {} PROVE q # {}
  <2>1. all # {}
    BY <1>0, <1>7
  <2>2. PICK x \in all : \A y \in all \ {x} : Before(x, y)
    BY <1>6, <2>1, FirstExists, Zenon
  <2>3. ASSUME NEW y \in all PROVE ~Before(y, x)
    <3>1. x \in EntryType /\ y \in EntryType
      BY <1>6, <2>2, <2>3, Zenon
    <3>2. CASE y = x
      BY <3>1, <3>2, BeforeStrict, Zenon
    <3>3. CASE y # x
      BY <2>2, <2>3, <3>1, <3>3, BeforeStrict, Zenon
    <3> QED
      BY <3>2, <3>3, Zenon
  <2>4. {y \in all : Before(y, x)} = {}
    BY <2>3, Zenon
  <2>5. Cardinality({y \in all : Before(y, x)}) < MaxBlocks
    <3>1. Cardinality({y \in all : Before(y, x)}) = 0
      BY <2>4, FS_EmptySet, Zenon
    <3> QED
      BY <3>1, SchedulerAssumption
  <2> QED
    BY <1>1, <2>2, <2>5, Zenon
<1> QED
  BY <1>0, <1>4, <1>5, <1>6, <1>7, Zenon DEF BucketOK

-----------------------------------------------------------------------------
(* What a block depends on is a block, except below its account.            *)
LEMMA DependencyType ==
    ASSUME NEW b \in Block, NEW d \in Dependencies(b)
    PROVE  d[1] \in Account /\ d[2] \in Nat
<1>0. \A x \in Block : x[1] \in Account /\ x[2] \in Nat \ {0}
  BY SchedulerAssumption DEF Block
<1>1. CASE d \in Source[b]
  BY <1>0, <1>1, SchedulerAssumption
<1>2. CASE d \notin Source[b]
  <2>1. b[2] > 1 /\ d = <<b[1], b[2] - 1>>
    BY <1>2 DEF Dependencies
  <2> QED
    BY <1>0, <2>1
<1> QED
  BY <1>1, <1>2, Zenon

(* Confirmation is final, so what is ready stays ready.                     *)
LEMMA StaysReady ==
    ASSUME confirmed \in [Account -> Nat], confirmed' \in [Account -> Nat],
           \A a \in Account : confirmed[a] <= confirmed'[a],
           NEW b \in Block, DependentsConfirmed(b)
    PROVE  DependentsConfirmed(b)'
<1> SUFFICES ASSUME NEW d \in Dependencies(b) PROVE d[2] <= confirmed'[d[1]]
  BY Zenon DEF DependentsConfirmed, IsConfirmed
<1>1. d[1] \in Account /\ d[2] \in Nat
  BY DependencyType, Zenon
<1>2. d[2] <= confirmed[d[1]]
  BY Zenon DEF DependentsConfirmed, IsConfirmed
<1>3. confirmed[d[1]] \in Nat /\ confirmed'[d[1]] \in Nat /\ confirmed[d[1]] <= confirmed'[d[1]]
  BY <1>1, Zenon
<1> QED
  BY <1>1, <1>2, <1>3

(* Without cementing, a block is as ready as before.                        *)
LEMMA SameReady ==
    ASSUME confirmed' = confirmed, NEW b
    PROVE  DependentsConfirmed(b)' <=> DependentsConfirmed(b)
BY Zenon DEF DependentsConfirmed, IsConfirmed

(* The thread of the scheduler may be woken, and buckets may fill.          *)
LEMMA ThreadKeeps ==
    ASSUME NEW p, NEW B, NEW C, ThreadOK(p, B),
           \A i \in Buckets : B[i].queue # {} => C[i].queue # {}
    PROVE  ThreadOK(p, C) /\ ThreadOK(Notified(p), C)
<1>1. ThreadOK(p, C)
  <2>1. p.pc = "start" => p.i \in Buckets
    BY DEF ThreadOK
  <2> QED
    BY <2>1, Zenon DEF ThreadOK
<1>2. Idle.pc = "check"
  BY DEF Idle
<1>3. ThreadOK(Idle, C)
  BY <1>2 DEF ThreadOK
<1> QED
  BY <1>1, <1>3, Zenon DEF Notified

(* Starting elections                                                       *)
LEMMA InsertKeeps ==
    ASSUME ElectionsOK, StartedReady, confirmed' = confirmed,
           NEW blocks, NEW behavior \in {"Priority", "Hinted", "Optimistic", "Manual"},
           NEW callback \in Nat, InsertAll(blocks, behavior, callback),
           behavior = "Priority" => \A b \in blocks : b \in Block /\ DependentsConfirmed(b)
    PROVE  ElectionsOK' /\ StartedReady'
<1>0. PICK e : e = [state |-> "Active", behavior |-> behavior, bucket |-> callback]
  BY Zenon
<1>1. e \in StartedType /\ e.behavior = behavior
  BY <1>0 DEF StartedType
<1>2. PICK D : D = Active \cup {x \in blocks : CanInsert(x)}
  BY Zenon
<1>3. elections' = [b \in D |-> IF b \in Active THEN elections[b] ELSE e]
  BY <1>0, <1>2, Zenon DEF InsertAll
<1>4. /\ Active' = D
      /\ \A b \in D : elections'[b] = IF b \in Active THEN elections[b] ELSE e
  BY <1>3, Zenon DEF Active
<1>5. ElectionsOK'
  BY <1>1, <1>3, <1>4, Zenon DEF ElectionsOK
<1>6. ASSUME NEW b \in D, elections'[b].behavior = "Priority"
      PROVE  b \in Block /\ DependentsConfirmed(b)
  <2>1. CASE b \in Active
    BY <1>4, <1>6, <2>1, Zenon DEF StartedReady
  <2>2. CASE b \notin Active
    BY <1>1, <1>2, <1>4, <1>6, <2>2, Zenon
  <2> QED
    BY <2>1, <2>2, Zenon
<1> QED
  BY <1>4, <1>5, <1>6, SameReady, Zenon DEF StartedReady

(* An election that is confirmed or cancelled                               *)
LEMMA StateKeeps ==
    ASSUME ElectionsOK, StartedReady, confirmed' = confirmed, NEW b \in Active,
           NEW v \in {"Active", "Confirmed", "Cancelled"},
           elections' = [elections EXCEPT ![b].state = v]
    PROVE  ElectionsOK' /\ StartedReady'
<1>0. PICK e : e = [elections[b] EXCEPT !.state = v]
  BY Zenon
<1>1. elections \in [Active -> StartedType]
  BY Zenon DEF ElectionsOK
<1>2. elections[b] \in StartedType /\ elections' = [elections EXCEPT ![b] = e]
  BY <1>0, <1>1, Zenon
<1>3. e \in StartedType /\ e.behavior = elections[b].behavior
  BY <1>0, <1>2 DEF StartedType
<1>4. /\ elections' \in [Active -> StartedType] /\ elections'[b] = e
      /\ \A x \in Active : x # b => elections'[x] = elections[x]
  BY <1>1, <1>2, <1>3, Zenon
<1>5. Active' = Active
  BY <1>4, Zenon DEF Active
<1>6. ElectionsOK'
  BY <1>4, <1>5, Zenon DEF ElectionsOK
<1>7. \A x \in Active : elections'[x].behavior = elections[x].behavior
  BY <1>3, <1>4, Zenon
<1> QED
  BY <1>5, <1>6, <1>7, SameReady, Zenon DEF StartedReady

(* An election that is erased                                               *)
LEMMA GoneKeeps ==
    ASSUME ElectionsOK, StartedReady, confirmed' = confirmed, NEW b,
           elections' = [x \in Active \ {b} |-> elections[x]]
    PROVE  ElectionsOK' /\ StartedReady'
<1>1. Active' = Active \ {b} /\ \A x \in Active' : elections'[x] = elections[x]
  BY Zenon DEF Active
<1>2. ElectionsOK'
  BY <1>1, Zenon DEF ElectionsOK
<1> QED
  BY <1>1, <1>2, SameReady, Zenon DEF StartedReady

-----------------------------------------------------------------------------
(* PriorityScheduler::activate pushes only blocks that are ready.           *)
LEMMA ActivateKeeps ==
    ASSUME BucketsOK, QueueReady, ThreadOK(priority, bucket), confirmed \in [Account -> Nat],
           NEW accounts, accounts \subseteq Account,
           NEW top \in [Account -> Nat], \A a \in Account : top[a] <= Length[a],
           NEW time \in [Account -> Nat], Activate(accounts, top, time)
    PROVE  /\ BucketsOK' /\ ThreadOK(priority', bucket')
           /\ \A i \in Buckets : \A x \in bucket'[i].queue : DependentsConfirmed(x.block)
<1>0. PICK ready : ready = {a \in accounts : confirmed[a] < top[a] /\ DependentsConfirmed(NextBlock(a))}
  BY Zenon
<1>1. PICK E : E = [i \in Buckets |-> {[time |-> time[a], block |-> NextBlock(a)] :
                                          a \in {x \in ready : BucketOf(NextBlock(x)) = i}}]
  BY Zenon
<1>2. /\ bucket' = [i \in Buckets |-> Push(bucket[i], E[i])]
      /\ priority' = priority \/ priority' = Notified(priority)
  BY <1>0, <1>1, Zenon DEF Activate, VacancyUpdated
<1>3. ASSUME NEW i \in Buckets, NEW x \in E[i]
      PROVE  x \in EntryType /\ DependentsConfirmed(x.block)
  <2>1. PICK a \in ready : x = [time |-> time[a], block |-> NextBlock(a)]
    BY <1>1, <1>3
  <2>2. /\ a \in Account /\ confirmed[a] < top[a] /\ DependentsConfirmed(NextBlock(a))
        /\ top[a] <= Length[a]
    BY <1>0, <2>1, Zenon
  <2>3. NextBlock(a) \in Block
    <3>1. Length[a] \in Nat /\ confirmed[a] \in Nat /\ top[a] \in Nat
      BY <2>2, SchedulerAssumption, Zenon
    <3>2. confirmed[a] + 1 \in 1..Length[a]
      BY <2>2, <3>1
    <3> QED
      BY <2>2, <3>2 DEF NextBlock, Block
  <2>4. x.time = time[a] /\ x.block = NextBlock(a) /\ time[a] \in Nat
    BY <2>1, <2>2
  <2> QED
    BY <2>1, <2>2, <2>3, <2>4 DEF EntryType
<1>4. ASSUME NEW i \in Buckets
      PROVE  /\ BucketOK(bucket'[i])
             /\ bucket'[i].queue \subseteq bucket[i].queue \cup E[i]
             /\ bucket[i].queue # {} => bucket'[i].queue # {}
  <2>1. BucketOK(bucket[i]) /\ E[i] \subseteq EntryType
    BY <1>3, <1>4, Zenon DEF BucketsOK
  <2>2. bucket'[i] = Push(bucket[i], E[i])
    BY <1>2, <1>4, Zenon
  <2>3. /\ BucketOK(Push(bucket[i], E[i]))
        /\ Push(bucket[i], E[i]).queue \subseteq bucket[i].queue \cup E[i]
        /\ bucket[i].queue # {} => Push(bucket[i], E[i]).queue # {}
    BY <2>1, PushKeeps, Zenon
  <2> QED
    BY <2>2, <2>3, Zenon
<1>5. BucketsOK'
  <2>1. bucket' = [i \in Buckets |-> bucket'[i]]
    BY <1>2, Zenon
  <2> QED
    BY <1>4, <2>1, Zenon DEF BucketsOK
<1>6. ThreadOK(priority', bucket')
  <2>1. PICK C : C = bucket'
    BY Zenon
  <2>2. ThreadOK(priority, C) /\ ThreadOK(Notified(priority), C)
    BY <1>4, <2>1, ThreadKeeps, Zenon
  <2> QED
    BY <1>2, <2>1, <2>2, Zenon
<1> QED
  BY <1>3, <1>4, <1>5, <1>6, Zenon DEF QueueReady

(* Steps that leave the buckets alone.                                      *)
LEMMA SameBuckets ==
    ASSUME BucketsOK, QueueReady, ThreadOK(priority, bucket), bucket' = bucket, confirmed' = confirmed,
           priority' = priority \/ priority' = Notified(priority)
    PROVE  BucketsOK' /\ QueueReady' /\ ThreadOK(priority', bucket')
<1>1. BucketsOK' /\ QueueReady'
  BY SameReady, Zenon DEF BucketsOK, QueueReady
<1>2. ThreadOK(priority, bucket) /\ ThreadOK(Notified(priority), bucket)
  BY ThreadKeeps, Zenon
<1> QED
  BY <1>1, <1>2, Zenon

(* A step that leaves the ledger alone.                                     *)
LEMMA SameLedger ==
    ASSUME LedgerOK, UNCHANGED <<height, modified, clock, confirmed, news>>
    PROVE  LedgerOK'
BY Zenon DEF LedgerOK

(* The thread of the priority scheduler                                     *)
LEMMA FirstBucket == 1 \in Buckets /\ \A i \in Buckets : i \in Nat
BY SchedulerAssumption DEF Buckets

(* After a bucket comes the next one, or the condition is looked at again.  *)
LEMMA AfterOK ==
    ASSUME NEW i \in Buckets, NEW B
    PROVE  ThreadOK(After(i), B)
BY DEF ThreadOK, After, Idle

(* The steps of PriorityScheduler::run up to Bucket::activate.              *)
LEMMA ThreadSteps ==
    ASSUME SchedulerInv, CheckPredicate \/ FallAsleep \/ Scan
    PROVE  SchedulerInv'
<1>1. UNCHANGED <<ledger, active, bucket>>
  BY Zenon DEF CheckPredicate, FallAsleep, Scan
<1>2. LedgerOK' /\ BucketsOK' /\ ElectionsOK' /\ QueueReady' /\ StartedReady'
  BY <1>1, SameReady, Zenon DEF SchedulerInv, LedgerOK, BucketsOK, ElectionsOK, QueueReady, StartedReady,
     ledger, active, Active
<1>3. ThreadOK(priority', bucket)
  <2>1. CASE CheckPredicate
    <3>1. priority' \in {[pc |-> "scan", i |-> 1], [pc |-> "dozing"]}
      BY <2>1, Zenon DEF CheckPredicate
    <3> QED
      BY <3>1, FirstBucket DEF ThreadOK
  <2>2. CASE FallAsleep
    <3>1. priority' = [pc |-> "asleep"]
      BY <2>2, Zenon DEF FallAsleep
    <3> QED
      BY <3>1 DEF ThreadOK
  <2>3. CASE Scan
    <3>0. PICK j : j = priority.i
      BY Zenon
    <3>1. j \in Buckets
      BY <2>3, <3>0 DEF Scan, SchedulerInv, ThreadOK
    <3>2. CASE Available(bucket[j], Vacancy("Priority"))
      <4>1. bucket[j].queue # {}
        BY <3>2, Zenon DEF Available
      <4>2. priority' = [pc |-> "start", i |-> j]
        BY <2>3, <3>0, <3>2, Zenon DEF Scan
      <4> QED
        BY <3>1, <4>1, <4>2 DEF ThreadOK
    <3>3. CASE ~Available(bucket[j], Vacancy("Priority"))
      BY <2>3, <3>0, <3>1, <3>3, AfterOK, Zenon DEF Scan
    <3> QED
      BY <3>2, <3>3, Zenon
  <2> QED
    BY <2>1, <2>2, <2>3, Zenon
<1> QED
  BY <1>1, <1>2, <1>3, Zenon DEF SchedulerInv

(* The first block of a bucket is ready when its election starts.           *)
LEMMA StartKeeps ==
    ASSUME SchedulerInv, Start
    PROVE  SchedulerInv'
<1>0. PICK i, first : i = priority.i /\ first = FirstEntry(bucket[i].queue)
  BY Zenon
<1>1. i \in Buckets /\ bucket[i].queue # {} /\ BucketOK(bucket[i]) /\ i \in Nat
  <2>1. i \in Buckets /\ bucket[i].queue # {}
    BY <1>0 DEF Start, SchedulerInv, ThreadOK
  <2> QED
    BY <2>1, FirstBucket, Zenon DEF SchedulerInv, BucketsOK
<1>2. first \in bucket[i].queue /\ first \in EntryType
  BY <1>0, <1>1, FirstExists, Zenon DEF BucketOK
<1>3. first.block \in Block /\ DependentsConfirmed(first.block)
  <2>1. first.block \in Block
    BY <1>2 DEF EntryType
  <2> QED
    BY <1>1, <1>2, <2>1, Zenon DEF SchedulerInv, QueueReady
<1>4. /\ bucket' = [bucket EXCEPT ![i] = PopFirst(bucket[i])]
      /\ InsertAll({first.block}, "Priority", i)
      /\ UNCHANGED ledger
  BY <1>0, Zenon DEF Start
<1>5. height' = height /\ modified' = modified /\ clock' = clock /\ confirmed' = confirmed /\ news' = news
  BY <1>4 DEF ledger
<1>6. LedgerOK'
  BY <1>5, SameLedger, Zenon DEF SchedulerInv
<1>7. ElectionsOK' /\ StartedReady'
  BY <1>1, <1>3, <1>4, <1>5, InsertKeeps, Zenon DEF SchedulerInv
<1>8. PICK b : b = PopFirst(bucket[i])
  BY Zenon
<1>9. BucketOK(b) /\ b.queue \subseteq bucket[i].queue
  <2>1. bucket[i] = [queue |-> bucket[i].queue, elections |-> bucket[i].elections]
    BY <1>1, Zenon DEF BucketOK
  <2>2. b.queue = bucket[i].queue \ {first} /\ b = [queue |-> b.queue, elections |-> b.elections]
    BY <1>0, <1>8, <2>1 DEF PopFirst
  <2> QED
    BY <1>1, <2>2, Zenon DEF BucketOK
<1>10. /\ bucket' = [j \in Buckets |-> bucket'[j]]
       /\ bucket'[i] = b /\ \A j \in Buckets : j # i => bucket'[j] = bucket[j]
  <2>1. bucket = [j \in Buckets |-> bucket[j]]
    BY Zenon DEF SchedulerInv, BucketsOK
  <2> QED
    BY <1>1, <1>4, <1>8, <2>1
<1>11. BucketsOK'
  BY <1>9, <1>10, Zenon DEF SchedulerInv, BucketsOK
<1>12. QueueReady'
  <2>1. \A j \in Buckets : bucket'[j].queue \subseteq bucket[j].queue
    BY <1>9, <1>10, Zenon
  <2> QED
    BY <1>5, <2>1, SameReady, Zenon DEF SchedulerInv, QueueReady
<1>13. ThreadOK(priority', bucket')
  <2>1. CASE priority' = After(i)
    BY <1>1, <2>1, AfterOK, Zenon
  <2>2. CASE priority' = [pc |-> "record", i |-> i, root |-> first.block,
                          priority |-> first.time, dead |-> FALSE]
    BY <1>1, <2>2 DEF ThreadOK
  <2> QED
    BY <1>0, <2>1, <2>2, Zenon DEF Start
<1> QED
  BY <1>6, <1>7, <1>11, <1>12, <1>13, Zenon DEF SchedulerInv

(* Only the elections of some buckets change.                               *)
LEMMA SameQueues ==
    ASSUME BucketsOK, QueueReady, confirmed' = confirmed,
           bucket' = [i \in Buckets |-> bucket'[i]],
           \A i \in Buckets : /\ bucket'[i].queue = bucket[i].queue
                              /\ bucket'[i] = [queue |-> bucket'[i].queue, elections |-> bucket'[i].elections]
    PROVE  /\ BucketsOK' /\ QueueReady'
           /\ \A p : ThreadOK(p, bucket) => ThreadOK(p, bucket') /\ ThreadOK(Notified(p), bucket')
<1>1. \A i \in Buckets : BucketOK(bucket'[i])
  BY Zenon DEF BucketsOK, BucketOK
<1>2. BucketsOK' /\ QueueReady'
  BY <1>1, SameReady, Zenon DEF BucketsOK, QueueReady
<1>3. PICK C : C = bucket'
  BY Zenon
<1>4. ASSUME NEW p, ThreadOK(p, bucket)
      PROVE  ThreadOK(p, C) /\ ThreadOK(Notified(p), C)
  <2>1. \A i \in Buckets : bucket[i].queue # {} => C[i].queue # {}
    BY <1>3, Zenon
  <2> QED
    BY <1>4, <2>1, ThreadKeeps, Zenon
<1> QED
  BY <1>2, <1>3, <1>4, Zenon

(* An entry that changes in one bucket's elections.                         *)
LEMMA OneBucket ==
    ASSUME BucketsOK, NEW i \in Buckets, NEW E,
           bucket' = [bucket EXCEPT ![i] = [bucket[i] EXCEPT !.elections = E]]
    PROVE  /\ bucket' = [j \in Buckets |-> bucket'[j]]
           /\ \A j \in Buckets :
                 /\ bucket'[j].queue = bucket[j].queue
                 /\ bucket'[j] = [queue |-> bucket'[j].queue, elections |-> bucket'[j].elections]
<1>1. /\ bucket = [j \in Buckets |-> bucket[j]]
      /\ \A j \in Buckets : bucket[j] = [queue |-> bucket[j].queue, elections |-> bucket[j].elections]
  BY Zenon DEF BucketsOK, BucketOK
<1>2. PICK b : b = [bucket[i] EXCEPT !.elections = E]
  BY Zenon
<1>3. b.queue = bucket[i].queue /\ b = [queue |-> b.queue, elections |-> b.elections]
  BY <1>1, <1>2
<1>4. /\ bucket' = [j \in Buckets |-> bucket'[j]]
      /\ bucket'[i] = b /\ \A j \in Buckets : j # i => bucket'[j] = bucket[j]
  BY <1>1, <1>2
<1> QED
  BY <1>1, <1>3, <1>4, Zenon

(* Recording the election leaves the queue of the bucket alone.             *)
LEMMA RecordKeeps ==
    ASSUME SchedulerInv, RecordElection
    PROVE  SchedulerInv'
<1>0. PICK i, E :
        /\ i = priority.i
        /\ bucket' = [bucket EXCEPT ![i] = [bucket[i] EXCEPT !.elections = E]]
        /\ priority' = After(i)
  BY Zenon DEF RecordElection, Record
<1>1. i \in Buckets
  BY <1>0 DEF RecordElection, SchedulerInv, ThreadOK
<1>2. /\ height' = height /\ modified' = modified /\ clock' = clock /\ confirmed' = confirmed
      /\ news' = news /\ elections' = elections
  BY DEF RecordElection, ledger, active
<1>3. LedgerOK'
  BY <1>2, SameLedger, Zenon DEF SchedulerInv
<1>4. ElectionsOK' /\ StartedReady'
  BY <1>2, SameReady, Zenon DEF SchedulerInv, ElectionsOK, StartedReady, Active
<1>5. BucketsOK' /\ QueueReady'
  BY <1>0, <1>1, <1>2, OneBucket, SameQueues, Zenon DEF SchedulerInv
<1>6. ThreadOK(priority', bucket')
  BY <1>0, <1>1, AfterOK, Zenon
<1> QED
  BY <1>3, <1>4, <1>5, <1>6, Zenon DEF SchedulerInv

(* PriorityScheduler::run_cleanup cancels an election at most.              *)
LEMMA UpdateKeeps ==
    ASSUME SchedulerInv, NEW i, Update(i)
    PROVE  SchedulerInv'
<1>1. /\ height' = height /\ modified' = modified /\ clock' = clock /\ confirmed' = confirmed
      /\ news' = news /\ bucket' = bucket /\ priority' = priority
  BY DEF Update, ledger
<1>2. LedgerOK'
  BY <1>1, SameLedger, Zenon DEF SchedulerInv
<1>3. BucketsOK' /\ QueueReady' /\ ThreadOK(priority', bucket')
  BY <1>1, SameBuckets, Zenon DEF SchedulerInv
<1>4. PICK x : elections' = IF x.dead \/ x.root \notin Active \/ elections[x.root].state # "Active"
                            THEN elections
                            ELSE [elections EXCEPT ![x.root].state = "Cancelled"]
  BY Zenon DEF Update
<1>5. ElectionsOK' /\ StartedReady'
  <2>1. CASE elections' = elections
    BY <1>1, <2>1, SameReady, Zenon DEF SchedulerInv, ElectionsOK, StartedReady, Active
  <2>2. CASE elections' # elections
    <3>1. PICK b : b = x.root
      BY Zenon
    <3>2. b \in Active /\ elections' = [elections EXCEPT ![b].state = "Cancelled"]
      BY <1>4, <2>2, <3>1, Zenon
    <3> QED
      BY <1>1, <3>2, StateKeeps, Zenon DEF SchedulerInv
  <2> QED
    BY <2>1, <2>2, Zenon
<1> QED
  BY <1>2, <1>3, <1>5, Zenon DEF SchedulerInv

(* The other schedulers start elections without a bucket.                   *)
LEMMA OtherInsert ==
    ASSUME SchedulerInv, UNCHANGED ledger, bucket' = bucket,
           NEW blocks, NEW behavior \in {"Hinted", "Optimistic", "Manual"},
           InsertAll(blocks, behavior, 0), NEW changed, VacancyUpdated(changed)
    PROVE  SchedulerInv'
<1>1. /\ height' = height /\ modified' = modified /\ clock' = clock /\ confirmed' = confirmed
      /\ news' = news
  BY DEF ledger
<1>2. priority' = priority \/ priority' = Notified(priority)
  BY Zenon DEF VacancyUpdated
<1>3. LedgerOK'
  BY <1>1, SameLedger, Zenon DEF SchedulerInv
<1>4. BucketsOK' /\ QueueReady' /\ ThreadOK(priority', bucket')
  BY <1>1, <1>2, SameBuckets, Zenon DEF SchedulerInv
<1>5. behavior # "Priority" /\ behavior \in {"Priority", "Hinted", "Optimistic", "Manual"} /\ 0 \in Nat
  OBVIOUS
<1>6. ElectionsOK' /\ StartedReady'
  BY <1>1, <1>5, InsertKeeps, Zenon DEF SchedulerInv
<1> QED
  BY <1>3, <1>4, <1>6, Zenon DEF SchedulerInv

(* Manual, optimistic and hinted elections are none of a bucket.            *)
LEMMA OtherSchedulers ==
    ASSUME SchedulerInv, RunManual \/ RunOptimistic \/ \E b, check : RunHinted(b, check)
    PROVE  SchedulerInv'
<1>1. CASE RunManual
  <2>1. UNCHANGED ledger /\ bucket' = bucket
    BY <1>1, Zenon DEF RunManual
  <2>2. PICK blocks, changed : InsertAll(blocks, "Manual", 0) /\ VacancyUpdated(changed)
    BY <1>1, Zenon DEF RunManual
  <2> QED
    BY <2>1, <2>2, OtherInsert, Zenon
<1>2. CASE RunOptimistic
  <2>1. UNCHANGED ledger /\ bucket' = bucket
    BY <1>2, Zenon DEF RunOptimistic
  <2>2. PICK blocks, changed : InsertAll(blocks, "Optimistic", 0) /\ VacancyUpdated(changed)
    BY <1>2, Zenon DEF RunOptimistic
  <2> QED
    BY <2>1, <2>2, OtherInsert, Zenon
<1>3. ASSUME NEW b, NEW check, RunHinted(b, check)
      PROVE  SchedulerInv'
  <2>1. UNCHANGED ledger /\ bucket' = bucket
    BY <1>3, Zenon DEF RunHinted
  <2>2. PICK blocks, changed : InsertAll(blocks, "Hinted", 0) /\ VacancyUpdated(changed)
    BY <1>3, Zenon DEF RunHinted
  <2> QED
    BY <2>1, <2>2, OtherInsert, Zenon
<1> QED
  BY <1>1, <1>2, <1>3, Zenon

(* Steps that touch neither the ledger nor the buckets nor an election.     *)
LEMMA QuietKeeps ==
    ASSUME SchedulerInv, UNCHANGED <<height, modified, clock, confirmed, news, elections, bucket>>,
           priority' = priority \/ priority' = Notified(priority)
    PROVE  SchedulerInv'
<1>1. LedgerOK'
  BY SameLedger, Zenon DEF SchedulerInv
<1>2. BucketsOK' /\ QueueReady' /\ ThreadOK(priority', bucket')
  BY SameBuckets, Zenon DEF SchedulerInv
<1>3. ElectionsOK' /\ StartedReady'
  BY SameReady, Zenon DEF SchedulerInv, ElectionsOK, StartedReady, Active
<1> QED
  BY <1>1, <1>2, <1>3, Zenon DEF SchedulerInv

(* VoteApplier::confirm_once changes the state of the election only.        *)
LEMMA ConfirmKeeps ==
    ASSUME SchedulerInv, NEW b, Confirm(b)
    PROVE  SchedulerInv'
<1>1. /\ UNCHANGED <<height, modified, clock, confirmed, news>>
      /\ bucket' = bucket /\ priority' = priority /\ confirmed' = confirmed
      /\ b \in Active /\ elections' = [elections EXCEPT ![b].state = "Confirmed"]
  BY Zenon DEF Confirm, ConfirmOnce
<1>2. LedgerOK'
  BY <1>1, SameLedger, Zenon DEF SchedulerInv
<1>3. BucketsOK' /\ QueueReady' /\ ThreadOK(priority', bucket')
  BY <1>1, SameBuckets, Zenon DEF SchedulerInv
<1>4. ElectionsOK' /\ StartedReady'
  BY <1>1, StateKeeps, Zenon DEF SchedulerInv
<1> QED
  BY <1>2, <1>3, <1>4, Zenon DEF SchedulerInv

-----------------------------------------------------------------------------
(* An election that is erased leaves the queues of the buckets alone.       *)
LEMMA EraseKeeps ==
    ASSUME SchedulerInv, confirmed' = confirmed, NEW b, NEW thread, Erase(b, thread)
    PROVE  BucketsOK' /\ QueueReady' /\ ThreadOK(priority', bucket') /\ ElectionsOK' /\ StartedReady'
<1>1. ElectionsOK' /\ StartedReady'
  <2>1. elections' = [x \in Active \ {b} |-> elections[x]]
    BY Zenon DEF Erase
  <2> QED
    BY <2>1, GoneKeeps, Zenon DEF SchedulerInv
<1>2. CASE elections[b].bucket = 0
  <2>1. bucket' = bucket /\ (priority' = priority \/ priority' = Notified(priority))
    BY <1>2, Zenon DEF Erase, VacancyUpdated
  <2> QED
    BY <1>1, <2>1, SameBuckets, Zenon DEF SchedulerInv
<1>3. CASE elections[b].bucket # 0
  <2>1. PICK E : \A i \in Buckets : bucket'[i] = [bucket[i] EXCEPT !.elections = E[i]]
    <3>1. PICK E : E = [i \in Buckets |-> {IF x.root = b THEN [x EXCEPT !.dead = TRUE] ELSE x :
                                             x \in bucket[i].elections}]
      BY Zenon
    <3>2. bucket' = [i \in Buckets |-> [bucket[i] EXCEPT !.elections =
                       {IF x.root = b THEN [x EXCEPT !.dead = TRUE] ELSE x : x \in bucket[i].elections}]]
      BY <1>3, Zenon DEF Erase
    <3>3. \A i \in Buckets : bucket'[i] = [bucket[i] EXCEPT !.elections = E[i]]
      BY <3>1, <3>2, Zenon
    <3> QED
      BY <3>3, Zenon
  <2>2. bucket' = [i \in Buckets |-> bucket'[i]]
    BY <1>3, Zenon DEF Erase
  <2>3. ASSUME NEW i \in Buckets
        PROVE  /\ bucket'[i].queue = bucket[i].queue
               /\ bucket'[i] = [queue |-> bucket'[i].queue, elections |-> bucket'[i].elections]
    <3>1. bucket[i] = [queue |-> bucket[i].queue, elections |-> bucket[i].elections]
      BY <2>3, Zenon DEF SchedulerInv, BucketsOK, BucketOK
    <3>2. PICK c, d, e : c = bucket'[i] /\ d = bucket[i] /\ e = E[i]
      BY Zenon
    <3>3. c = [d EXCEPT !.elections = e] /\ d = [queue |-> d.queue, elections |-> d.elections]
      BY <2>1, <2>3, <3>1, <3>2, Zenon
    <3>4. c.queue = d.queue /\ c = [queue |-> c.queue, elections |-> c.elections]
      BY <3>3
    <3> QED
      BY <3>2, <3>4, Zenon
  <2>4. BucketsOK' /\ QueueReady' /\ ThreadOK(priority, bucket')
    BY <2>2, <2>3, SameQueues, Zenon DEF SchedulerInv
  <2>5. ThreadOK(priority', bucket')
    <3>1. CASE priority.pc = "record" /\ priority.root = b
      <4>1. priority' = [priority EXCEPT !.dead = TRUE]
        BY <1>3, <3>1, Zenon DEF Erase
      <4>2. /\ priority = [pc |-> priority.pc, i |-> priority.i, root |-> priority.root,
                           priority |-> priority.priority, dead |-> priority.dead]
            /\ priority.i \in Buckets
        BY <3>1 DEF SchedulerInv, ThreadOK
      <4>3. PICK p, q : p = priority' /\ q = priority
        BY Zenon
      <4>4. /\ p = [q EXCEPT !.dead = TRUE] /\ q.pc = "record" /\ q.i \in Buckets
            /\ q = [pc |-> q.pc, i |-> q.i, root |-> q.root, priority |-> q.priority, dead |-> q.dead]
        BY <3>1, <4>1, <4>2, <4>3, Zenon
      <4>5. /\ p.pc = "record" /\ p.i \in Buckets
            /\ p = [pc |-> p.pc, i |-> p.i, root |-> p.root, priority |-> p.priority, dead |-> p.dead]
        BY <4>4
      <4>6. PICK C : C = bucket'
        BY Zenon
      <4>7. ThreadOK(p, C)
        BY <4>5 DEF ThreadOK
      <4> QED
        BY <4>3, <4>6, <4>7, Zenon
    <3>2. CASE ~(priority.pc = "record" /\ priority.root = b)
      <4>1. priority' = priority
        BY <1>3, <3>2, Zenon DEF Erase
      <4> QED
        BY <2>4, <4>1, Zenon
    <3> QED
      BY <3>1, <3>2, Zenon
  <2> QED
    BY <1>1, <2>4, <2>5, Zenon
<1> QED
  BY <1>2, <1>3, Zenon

(* request_confirm erases an election.                                      *)
LEMMA LoopEraseKeeps ==
    ASSUME SchedulerInv, NEW b, LoopErase(b)
    PROVE  SchedulerInv'
<1>1. UNCHANGED <<height, modified, clock, confirmed, news>> /\ confirmed' = confirmed
  BY Zenon DEF LoopErase, ledger
<1>2. Erase(b, "loop")
  BY Zenon DEF LoopErase
<1>3. LedgerOK'
  BY <1>1, SameLedger, Zenon DEF SchedulerInv
<1> QED
  BY <1>1, <1>2, <1>3, EraseKeeps, Zenon DEF SchedulerInv

(* A block that is rolled back was not confirmed: what is confirmed stays   *)
(* so.                                                                      *)
LEMMA RollBackKeeps ==
    ASSUME SchedulerInv, NEW a \in Account, RollBack(a)
    PROVE  SchedulerInv'
<1>1. /\ height[a] > confirmed[a] /\ height' = [height EXCEPT ![a] = @ - 1]
      /\ modified' = [modified EXCEPT ![a] = IF height[a] = 1 THEN 0 ELSE clock]
      /\ clock' = clock /\ confirmed' = confirmed /\ news' = news
  BY Zenon DEF RollBack
<1>2. LedgerOK'
  <2>1. /\ height \in [Account -> Nat] /\ modified \in [Account -> Nat] /\ clock \in Nat
        /\ confirmed \in [Account -> Nat] /\ \A x \in Account : height[x] <= Length[x]
        /\ height[a] \in Nat /\ confirmed[a] \in Nat
    BY Zenon DEF SchedulerInv, LedgerOK
  <2>2. height[a] - 1 \in Nat /\ height[a] - 1 <= Length[a]
    <3>1. Length[a] \in Nat /\ height[a] <= Length[a]
      BY <2>1, SchedulerAssumption, Zenon
    <3> QED
      BY <1>1, <2>1, <3>1
  <2>3. height' \in [Account -> Nat] /\ \A x \in Account : height'[x] <= Length[x]
    BY <1>1, <2>1, <2>2
  <2>4. modified' \in [Account -> Nat]
    BY <1>1, <2>1
  <2>5. \A n \in news : n.block \in Block
    BY Zenon DEF SchedulerInv, LedgerOK
  <2> QED
    BY <1>1, <2>1, <2>3, <2>4, <2>5, Zenon DEF LedgerOK
<1>3. CASE <<a, height[a]>> \in Active
  <2>1. PICK b : Erase(b, "processor")
    BY <1>3, Zenon DEF RollBack
  <2> QED
    BY <1>1, <1>2, <2>1, EraseKeeps, Zenon DEF SchedulerInv
<1>4. CASE <<a, height[a]>> \notin Active
  <2>1. elections' = elections /\ bucket' = bucket /\ priority' = priority
    BY <1>4, Zenon DEF RollBack
  <2>2. BucketsOK' /\ QueueReady' /\ ThreadOK(priority', bucket')
    BY <1>1, <2>1, SameBuckets, Zenon DEF SchedulerInv
  <2>3. ElectionsOK' /\ StartedReady'
    BY <1>1, <2>1, SameReady, Zenon DEF SchedulerInv, ElectionsOK, StartedReady, Active
  <2> QED
    BY <1>2, <2>2, <2>3, Zenon DEF SchedulerInv
<1> QED
  BY <1>3, <1>4, Zenon

(* The callback of a bucket forgets an election, and no block of the queue. *)
LEMMA RunCallbackKeeps ==
    ASSUME SchedulerInv, NEW thread, RunCallback(thread)
    PROVE  SchedulerInv'
<1>1. /\ UNCHANGED <<height, modified, clock, confirmed, news>>
      /\ confirmed' = confirmed /\ elections' = elections
      /\ priority' = priority \/ priority' = Notified(priority)
  BY Zenon DEF RunCallback, ledger, VacancyUpdated
<1>2. PICK e \in erased[thread] : bucket' = [i \in Buckets |->
                  IF i = e.bucket THEN EraseEntry(bucket[i], e.block) ELSE bucket[i]]
  BY Zenon DEF RunCallback
<1>3. bucket' = [i \in Buckets |-> bucket'[i]]
  BY <1>2, Zenon
<1>4. ASSUME NEW i \in Buckets
      PROVE  /\ bucket'[i].queue = bucket[i].queue
             /\ bucket'[i] = [queue |-> bucket'[i].queue, elections |-> bucket'[i].elections]
  <2>1. PICK c, d : c = bucket'[i] /\ d = bucket[i]
    BY Zenon
  <2>2. d = [queue |-> d.queue, elections |-> d.elections]
    BY <1>4, <2>1, Zenon DEF SchedulerInv, BucketsOK, BucketOK
  <2>3. c = d \/ \E E : c = [d EXCEPT !.elections = E]
    BY <1>2, <1>4, <2>1, Zenon DEF EraseEntry
  <2>4. c.queue = d.queue /\ c = [queue |-> c.queue, elections |-> c.elections]
    BY <2>2, <2>3
  <2> QED
    BY <2>1, <2>4, Zenon
<1>5. BucketsOK' /\ QueueReady' /\ ThreadOK(priority', bucket')
  BY <1>1, <1>3, <1>4, SameQueues, Zenon DEF SchedulerInv
<1>6. LedgerOK'
  BY <1>1, SameLedger, Zenon DEF SchedulerInv
<1>7. ElectionsOK' /\ StartedReady'
  BY <1>1, SameReady, Zenon DEF SchedulerInv, ElectionsOK, StartedReady, Active
<1> QED
  BY <1>5, <1>6, <1>7, Zenon DEF SchedulerInv

-----------------------------------------------------------------------------
(* Steps that activate accounts                                             *)
LEMMA ActivateStep ==
    ASSUME SchedulerInv, confirmed' = confirmed, LedgerOK', ElectionsOK', StartedReady',
           NEW accounts, accounts \subseteq Account,
           NEW top \in [Account -> Nat], \A a \in Account : top[a] <= Length[a],
           NEW time \in [Account -> Nat], Activate(accounts, top, time)
    PROVE  SchedulerInv'
<1>1. confirmed \in [Account -> Nat]
  BY Zenon DEF SchedulerInv, LedgerOK
<1>2. /\ BucketsOK' /\ ThreadOK(priority', bucket')
      /\ \A i \in Buckets : \A x \in bucket'[i].queue : DependentsConfirmed(x.block)
  BY <1>1, ActivateKeeps, Zenon DEF SchedulerInv
<1>3. QueueReady'
  BY <1>2, SameReady, Zenon DEF QueueReady
<1> QED
  BY <1>2, <1>3, Zenon DEF SchedulerInv

(* The backlog activates an account.                                        *)
LEMMA BacklogKeeps ==
    ASSUME SchedulerInv, NEW a \in Account, Backlog(a)
    PROVE  SchedulerInv'
<1>1. /\ UNCHANGED <<height, modified, clock, confirmed, news>> /\ confirmed' = confirmed
      /\ elections' = elections /\ Activate({a}, height, modified)
  BY Zenon DEF Backlog, ledger, active
<1>2. LedgerOK'
  BY <1>1, SameLedger, Zenon DEF SchedulerInv
<1>3. ElectionsOK' /\ StartedReady'
  BY <1>1, SameReady, Zenon DEF SchedulerInv, ElectionsOK, StartedReady, Active
<1>4. /\ height \in [Account -> Nat] /\ modified \in [Account -> Nat]
      /\ \A x \in Account : height[x] <= Length[x]
  BY Zenon DEF SchedulerInv, LedgerOK
<1>5. {a} \subseteq Account
  BY Zenon
<1> QED
  BY <1>1, <1>2, <1>3, <1>4, <1>5, ActivateStep, Zenon

(* A new block activates its account if it is ready.                        *)
LEMMA ArriveKeeps ==
    ASSUME SchedulerInv, NEW a \in Account, Arrive(a)
    PROVE  SchedulerInv'
<1>1. /\ height[a] < Length[a] /\ height' = [height EXCEPT ![a] = @ + 1]
      /\ clock' = clock + 1 /\ modified' = [modified EXCEPT ![a] = clock']
      /\ confirmed' = confirmed /\ news' = news /\ elections' = elections
  BY Zenon DEF Arrive, active
<1>2. PICK accounts : accounts \subseteq {a} /\ Activate(accounts, height', modified')
  <2>1. PICK A : A = IF DependentsConfirmed(<<a, height[a] + 1>>) THEN {a} ELSE {}
    BY Zenon
  <2>2. A \subseteq {a} /\ Activate(A, height', modified')
    BY <2>1, Zenon DEF Arrive
  <2> QED
    BY <2>2, Zenon
<1>3. /\ height \in [Account -> Nat] /\ modified \in [Account -> Nat] /\ clock \in Nat
      /\ confirmed \in [Account -> Nat] /\ \A x \in Account : height[x] <= Length[x]
      /\ height[a] \in Nat /\ Length[a] \in Nat /\ \A n \in news : n.block \in Block
  BY SchedulerAssumption, Zenon DEF SchedulerInv, LedgerOK
<1>4. /\ height' \in [Account -> Nat] /\ clock' \in Nat
      /\ \A x \in Account : height'[x] <= Length[x]
  BY <1>1, <1>3
<1>5. modified' \in [Account -> Nat]
  BY <1>1, <1>3, <1>4, Zenon
<1>6. LedgerOK'
  BY <1>1, <1>3, <1>4, <1>5, Zenon DEF LedgerOK
<1>7. ElectionsOK' /\ StartedReady'
  BY <1>1, SameReady, Zenon DEF SchedulerInv, ElectionsOK, StartedReady, Active
<1>8. accounts \subseteq Account
  BY <1>2, Zenon
<1>9. PICK top, time : top = height' /\ time = modified'
  BY Zenon
<1>10. /\ top \in [Account -> Nat] /\ time \in [Account -> Nat]
       /\ \A x \in Account : top[x] <= Length[x]
       /\ Activate(accounts, top, time)
  BY <1>2, <1>4, <1>5, <1>9, Zenon
<1> QED
  BY <1>1, <1>6, <1>7, <1>8, <1>10, ActivateStep, Zenon

(* A cemented block activates the accounts that may have become ready.      *)
LEMMA NotifyKeeps ==
    ASSUME SchedulerInv, NEW n \in news, NotifyCemented(n)
    PROVE  SchedulerInv'
<1>0. PICK b : b = n.block
  BY Zenon
<1>1. /\ UNCHANGED <<height, modified, clock, confirmed>> /\ confirmed' = confirmed /\ news' = news \ {n}
      /\ \/ elections' = elections
         \/ b \in Active /\ elections' = [elections EXCEPT ![b].state = "Confirmed"]
  BY <1>0, Zenon DEF NotifyCemented, ConfirmOnce
<1>2. PICK A : A = {b[1]} \cup {x[1] : x \in {y \in Block : b \in Source[y]}}
  BY Zenon
<1>3. Activate(A, height, modified) \/ Activate({}, height, modified)
  <2>2. Activate(IF n.source \/ b \in Active THEN A ELSE {}, height, modified)
    BY <1>0, <1>2, Zenon DEF NotifyCemented
  <2>3. CASE n.source \/ b \in Active
    BY <2>2, <2>3, Zenon
  <2>4. CASE ~(n.source \/ b \in Active)
    BY <2>2, <2>4, Zenon
  <2> QED
    BY <2>3, <2>4, Zenon
<1>4. /\ height \in [Account -> Nat] /\ modified \in [Account -> Nat]
      /\ \A x \in Account : height[x] <= Length[x]
      /\ \A x \in news : x.block \in Block
  BY Zenon DEF SchedulerInv, LedgerOK
<1>5. LedgerOK'
  <2>1. news' \subseteq news
    BY <1>1, Zenon
  <2> QED
    BY <1>1, <2>1, Zenon DEF SchedulerInv, LedgerOK
<1>6. ElectionsOK' /\ StartedReady'
  <2>1. CASE elections' = elections
    BY <1>1, <2>1, SameReady, Zenon DEF SchedulerInv, ElectionsOK, StartedReady, Active
  <2>2. CASE b \in Active /\ elections' = [elections EXCEPT ![b].state = "Confirmed"]
    BY <1>1, <2>2, StateKeeps, Zenon DEF SchedulerInv
  <2> QED
    BY <1>1, <2>1, <2>2, Zenon
<1>7. A \subseteq Account
  <2>1. \A x \in Block : x[1] \in Account
    BY DEF Block
  <2>2. b \in Block
    BY <1>0, <1>4, Zenon
  <2> QED
    BY <1>2, <2>1, <2>2, Zenon
<1>8. {} \subseteq Account
  BY Zenon
<1> QED
  BY <1>1, <1>3, <1>4, <1>5, <1>6, <1>7, <1>8, ActivateStep, Zenon

(* Cementing only raises the confirmation heights.                          *)
LEMMA CementKeeps ==
    ASSUME SchedulerInv, NEW b \in Block, Cement(b)
    PROVE  SchedulerInv'
<1>1. PICK new : /\ new \subseteq Block
                 /\ confirmed' = [a \in Account |->
                       Max({confirmed[a]} \cup {x[2] : x \in {y \in new : y[1] = a}})]
                 /\ news' = news \cup {[block |-> x, source |-> x = b] : x \in new}
  BY Zenon DEF Cement
<1>2. /\ height' = height /\ modified' = modified /\ clock' = clock /\ elections' = elections
      /\ bucket' = bucket /\ priority' = priority
  BY Zenon DEF Cement, active
<1>3. /\ height \in [Account -> Nat] /\ modified \in [Account -> Nat] /\ clock \in Nat
      /\ confirmed \in [Account -> Nat] /\ \A x \in Account : height[x] <= Length[x]
      /\ \A n \in news : n.block \in Block
  BY Zenon DEF SchedulerInv, LedgerOK
<1>4. ASSUME NEW a \in Account
      PROVE  confirmed'[a] \in Nat /\ confirmed[a] <= confirmed'[a]
  <2>0. PICK c, T : c = confirmed[a] /\ T = {c} \cup {x[2] : x \in {y \in new : y[1] = a}}
    BY Zenon
  <2>1. c \in Nat /\ Length[a] \in Nat
    BY <1>3, <1>4, <2>0, SchedulerAssumption, Zenon
  <2>2. ASSUME NEW x \in new, x[1] = a PROVE x[2] \in 0..(c + Length[a])
    <3>1. PICK d \in Account, h \in Nat : x = <<d, h>> /\ h \in 1..Length[d]
      BY <1>1, <2>2 DEF Block
    <3>2. d = a /\ x[2] = h
      BY <2>2, <3>1
    <3> QED
      BY <2>1, <3>1, <3>2
  <2>3. c \in 0..(c + Length[a]) /\ c + Length[a] \in Nat
    BY <2>1
  <2>4. T \subseteq 0..(c + Length[a]) /\ T # {} /\ c \in T
    BY <2>0, <2>2, <2>3, Zenon
  <2>5. Max(T) \in T /\ Max(T) >= c
    BY <2>3, <2>4, MaxBounded, Zenon
  <2>6. confirmed'[a] = Max(T)
    BY <1>1, <1>4, <2>0, Zenon
  <2>7. Max(T) \in 0..(c + Length[a])
    BY <2>4, <2>5, Zenon
  <2> QED
    BY <2>0, <2>1, <2>5, <2>6, <2>7
<1>5. confirmed' \in [Account -> Nat]
  BY <1>1, <1>4, Zenon
<1>6. \A n \in news' : n.block \in Block
  BY <1>1, <1>3
<1>7. LedgerOK'
  BY <1>2, <1>3, <1>5, <1>6, Zenon DEF LedgerOK
<1>8. BucketsOK' /\ ThreadOK(priority', bucket') /\ ElectionsOK'
  BY <1>2, Zenon DEF SchedulerInv, BucketsOK, ElectionsOK, Active
<1>9. QueueReady'
  <2>1. \A i \in Buckets : \A x \in bucket[i].queue : x.block \in Block /\ DependentsConfirmed(x.block)
    <3>1. \A x \in EntryType : x.block \in Block
      BY DEF EntryType
    <3> QED
      BY <3>1, Zenon DEF SchedulerInv, BucketsOK, BucketOK, QueueReady
  <2>2. \A x \in Block : DependentsConfirmed(x) => DependentsConfirmed(x)'
    BY <1>3, <1>4, <1>5, StaysReady, Zenon
  <2> QED
    BY <1>2, <2>1, <2>2, Zenon DEF QueueReady
<1>10. StartedReady'
  <2>2. \A x \in Block : DependentsConfirmed(x) => DependentsConfirmed(x)'
    BY <1>3, <1>4, <1>5, StaysReady, Zenon
  <2> QED
    BY <1>2, <2>2, Zenon DEF SchedulerInv, StartedReady, Active
<1> QED
  BY <1>7, <1>8, <1>9, <1>10, Zenon DEF SchedulerInv

-----------------------------------------------------------------------------
(* Nothing waits and nothing runs at the start.                             *)
LEMMA InitScheduler == Init => SchedulerInv
<1> SUFFICES ASSUME Init PROVE SchedulerInv
  BY Zenon
<1>1. LedgerOK
  <2>1. \A a \in Account : 0 <= Length[a]
    BY SchedulerAssumption
  <2> QED
    BY <2>1 DEF Init, LedgerOK
<1>2. bucket = [i \in Buckets |-> EmptyBucket] /\ priority = Idle
  BY Zenon DEF Init
<1>3. /\ EmptyBucket.queue = {}
      /\ EmptyBucket = [queue |-> EmptyBucket.queue, elections |-> EmptyBucket.elections]
  BY DEF EmptyBucket
<1>4. \A i \in Buckets : bucket[i] = EmptyBucket
  BY <1>2, Zenon
<1>5. BucketsOK /\ QueueReady
  <2>1. BucketOK(EmptyBucket)
    BY <1>3, Zenon DEF BucketOK
  <2> QED
    BY <1>2, <1>3, <1>4, <2>1, Zenon DEF BucketsOK, QueueReady
<1>6. Active = {} /\ ElectionsOK
  <2>1. elections = <<>>
    BY Zenon DEF Init
  <2>2. DOMAIN elections = {}
    BY <2>1
  <2>3. elections \in [{} -> StartedType]
    BY <2>1
  <2> QED
    BY <2>2, <2>3, Zenon DEF Active, ElectionsOK
<1>7. ThreadOK(priority, bucket)
  BY <1>2 DEF ThreadOK, Idle
<1> QED
  BY <1>1, <1>5, <1>6, <1>7, Zenon DEF SchedulerInv, StartedReady

(* Every step keeps the invariant.                                          *)
LEMMA NextScheduler == SchedulerInv /\ [Next]_vars => SchedulerInv'
<1> SUFFICES ASSUME SchedulerInv, [Next]_vars PROVE SchedulerInv'
  BY Zenon
<1>1. CASE UNCHANGED vars
  <2>1. /\ UNCHANGED <<height, modified, clock, confirmed, news, elections, bucket>>
        /\ priority' = priority
    BY <1>1, Zenon DEF vars, ledger, active
  <2> QED
    BY <2>1, QuietKeeps, Zenon
<1>2. CASE Scheduler
  BY <1>2, ThreadSteps, StartKeeps, RecordKeeps, Zenon DEF Scheduler
<1>3. CASE \E i \in Buckets : Update(i)
  BY <1>3, UpdateKeeps, Zenon
<1>4. CASE \E a \in Account : Arrive(a) \/ RollBack(a) \/ Backlog(a)
  BY <1>4, ArriveKeeps, RollBackKeeps, BacklogKeeps, Zenon
<1>5. CASE \E b \in Block : Confirm(b) \/ LoopErase(b) \/ Cement(b)
  BY <1>5, ConfirmKeeps, LoopEraseKeeps, CementKeeps, Zenon
<1>6. CASE \E b \in Block : ProcessConfirmed(b) \/ PushManual(b)
  <2>1. /\ UNCHANGED <<height, modified, clock, confirmed, news, elections, bucket>>
        /\ priority' = priority
    BY <1>6, Zenon DEF ProcessConfirmed, PushManual, ledger, active
  <2> QED
    BY <2>1, QuietKeeps, Zenon
<1>7. CASE \E t \in DOMAIN erased : RunCallback(t)
  BY <1>7, RunCallbackKeeps, Zenon
<1>8. CASE \E n \in news : NotifyCemented(n)
  BY <1>8, NotifyKeeps, Zenon
<1>9. CASE RunManual \/ RunOptimistic \/ \E b \in Block : \E check \in BOOLEAN : RunHinted(b, check)
  BY <1>9, OtherSchedulers, Zenon
<1>10. CASE OtherActivity
  <2>1. /\ UNCHANGED <<height, modified, clock, confirmed, news, elections, bucket>>
        /\ priority' = priority \/ priority' = Notified(priority)
    BY <1>10, Zenon DEF OtherActivity, VacancyUpdated, ledger, active
  <2> QED
    BY <2>1, QuietKeeps, Zenon
<1> QED
  BY <1>1, <1>2, <1>3, <1>4, <1>5, <1>6, <1>7, <1>8, <1>9, <1>10, Zenon DEF Next

(* When the priority scheduler runs an election, everything its block       *)
(* depends on is confirmed (PriorityScheduler::activate looks at            *)
(* dependents_confirmed), however long the block has waited in its bucket   *)
(* and whatever was rolled back or cemented meanwhile.                      *)
THEOREM DependenciesConfirmedFirst == Spec => []DependenciesFirst
<1>1. SchedulerInv => DependenciesFirst
  BY Zenon DEF SchedulerInv, StartedReady, DependenciesFirst
<1> QED
  BY <1>1, InitScheduler, NextScheduler, PTL DEF Spec
=============================================================================
