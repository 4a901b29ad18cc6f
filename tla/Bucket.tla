------------------------------- MODULE Bucket -------------------------------
(***************************************************************************)
(* A bucket of the priority scheduler (node/src/consensus/bucket.rs): the  *)
(* blocks that wait for an election, ordered by time, and the elections    *)
(* the bucket has started.  A bucket is a record, its operations are       *)
(* functions of it: every method locks the bucket's own mutex.             *)
(***************************************************************************)
EXTENDS Integers, FiniteSets

CONSTANTS
    MaxBlocks,      \* PriorityBucketConfig::max_blocks
    Reserved,       \* PriorityBucketConfig::reserved_elections
    MaxElections,   \* PriorityBucketConfig::max_elections
    Order(_)        \* the position of a block in the order of the hashes

EmptyBucket == [queue |-> {}, elections |-> {}]

(* The order of BlockEntry: by time, then by hash                          *)
Before(x, y) ==
    \/ x.time < y.time
    \/ x.time = y.time /\ Order(x.block) < Order(y.block)

FirstEntry(queue) == CHOOSE x \in queue : \A y \in queue \ {x} : Before(x, y)

(* Bucket::push of every entry: each time a full bucket drops its last     *)
(* entry, perhaps the new one, so that the first ones stay, in whatever    *)
(* order they came.                                                        *)
Push(b, entries) ==
    LET all == b.queue \cup entries
    IN [b EXCEPT !.queue =
            {x \in all : Cardinality({y \in all : Before(y, x)}) < MaxBlocks}]

PopFirst(b) == [b EXCEPT !.queue = @ \ {FirstEntry(@)}]

(* OrderedElections::lowest_priority: the smallest key, which is the time  *)
(* of the oldest block; 0 if there is none                                 *)
LowestPriority(b) ==
    IF b.elections = {} THEN 0
    ELSE (CHOOSE x \in b.elections : \A y \in b.elections : x.priority <= y.priority).priority

(* Bucket::available                                                       *)
Available(b, vacancy) ==
    LET count == Cardinality(b.elections)
    IN /\ b.queue # {}
       /\ IF count < Reserved \/ count < MaxElections THEN vacancy > 0
          ELSE /\ count > 0
               /\ FirstEntry(b.queue).time <= LowestPriority(b)
               /\ count < MaxElections * 2

(* Bucket::election_overfill                                               *)
Overfill(b, vacancy) ==
    LET count == Cardinality(b.elections)
    IN /\ count >= Reserved
       /\ count < MaxElections => vacancy < 0

(* BucketData::cancel_lowest_election takes one of these.                  *)
LowestEntries(b) == {x \in b.elections : x.priority = LowestPriority(b)}

(* OrderedElections::insert and erase, by root                             *)
EraseEntry(b, root) == [b EXCEPT !.elections = {x \in @ : x.root # root}]
Record(b, entry) == [b EXCEPT !.elections = EraseEntry(b, entry.root).elections \cup {entry}]
=============================================================================
