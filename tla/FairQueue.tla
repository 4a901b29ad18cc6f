------------------------------ MODULE FairQueue ------------------------------
(***************************************************************************)
(* FairQueue (node/src/transport/fair_queue.rs): one bounded FIFO queue    *)
(* per source, served in turn, a source's priority being the number of     *)
(* requests served before the next source is due.  The queue is a record   *)
(* and its operations are functions of it, because every user keeps it     *)
(* behind a mutex of its own.                                              *)
(***************************************************************************)
EXTENDS Naturals, Sequences, FiniteSets

CONSTANTS
    Source,      \* what requests are queued by: the keys of the BTreeMap
    Rank,        \* the position of each source in the order of the keys
    MaxSize,     \* max_size_query
    Priority,    \* priority_query
    NoSource     \* current_queue_key is None

ASSUME FairQueueAssumption ==
    /\ Rank \in [Source -> Nat] /\ MaxSize \in [Source -> Nat] /\ Priority \in [Source -> Nat]
    /\ \A s, t \in Source : Rank[s] = Rank[t] => s = t
    /\ NoSource \notin Source

EmptyQueue == [queues |-> <<>>, current |-> NoSource, counter |-> 0, total |-> 0]

Known(q) == DOMAIN q.queues

QueueLen(q, s) == IF s \in Known(q) THEN Len(q.queues[s]) ELSE 0

(* FairQueue::push: the request is dropped if the queue of its source is   *)
(* full                                                                    *)
PushItem(q, s, item) ==
    LET old == IF s \in Known(q) THEN q.queues[s] ELSE <<>>
        new == IF Len(old) < MaxSize[s] THEN Append(old, item) ELSE old
    IN [q EXCEPT !.queues = [k \in Known(q) \cup {s} |-> IF k = s THEN new ELSE q.queues[k]],
                 !.total = @ + Len(new) - Len(old)]

(* The current source is served once more than its priority allows.        *)
ShouldSeek_Late(q) ==
    \/ q.current \notin Known(q)
    \/ q.queues[q.current] = <<>>
    \/ q.counter > Priority[q.current]

ShouldSeek(q) ==
    \/ q.current \notin Known(q)
    \/ q.queues[q.current] = <<>>
    \/ q.counter >= Priority[q.current]

First(sources) == CHOOSE s \in sources : \A t \in sources : Rank[s] <= Rank[t]

(* FairQueue::seek_next: the next source, in the order of the keys and     *)
(* around its end, that has a request                                      *)
SeekNext(q) ==
    LET waiting == {s \in Known(q) : q.queues[s] # <<>>}
        after == {s \in waiting : q.current # NoSource /\ Rank[s] > Rank[q.current]}
    IN First(IF after # {} THEN after ELSE waiting)

(* FairQueue::next, when the queue is not empty: the source that is served *)
(* and the queue afterwards; the request served is the first of the source *)
NextSource(q) == IF ShouldSeek(q) THEN SeekNext(q) ELSE q.current

PopItem(q) ==
    LET s == NextSource(q)
    IN [queues |-> [q.queues EXCEPT ![s] = Tail(@)],
        current |-> s,
        counter |-> IF ShouldSeek(q) THEN 1 ELSE q.counter + 1,
        total |-> q.total - 1]

(* FairQueue::next_batch                                                   *)
NextBatch(q, max) ==
    LET count == IF q.total < max THEN q.total ELSE max
        taken[n \in 0..count] ==
            IF n = 0 THEN [queue |-> q, items |-> <<>>]
            ELSE LET before == taken[n - 1]
                     s == NextSource(before.queue)
                 IN [queue |-> PopItem(before.queue),
                     items |-> Append(before.items,
                                      [source |-> s, item |-> Head(before.queue.queues[s])])]
    IN taken[count]

(* FairQueue::remove                                                       *)
RemoveSource(q, s) ==
    IF s \notin Known(q) THEN q
    ELSE [q EXCEPT !.queues = [k \in Known(q) \ {s} |-> q.queues[k]],
                   !.total = @ - Len(q.queues[s]),
                   !.current = NoSource]

=============================================================================
