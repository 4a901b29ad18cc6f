---------------------------- MODULE UncheckedMap ----------------------------
(***************************************************************************)
(* UncheckedMap (node/src/block_processing/unchecked_map.rs): blocks that  *)
(* wait for a block or an account they depend on.  When the dependency     *)
(* arrives it is put into a buffer, and a thread hands the blocks that     *)
(* wait for it back to the block processor.                                *)
(***************************************************************************)
EXTENDS Naturals, Sequences, FiniteSets

CONSTANT MaxUnchecked   \* max_unchecked_blocks

ASSUME UncheckedAssumption == MaxUnchecked \in Nat

VARIABLES
    unchecked,   \* the waiting blocks, oldest first
    buffer,      \* dependencies that have arrived
    backBuffer,  \* the ones the thread is working on
    satisfied    \* blocks the thread hands over; it holds the lock until
                 \* they all are

uncheckedVars == <<unchecked, buffer, backBuffer, satisfied>>

Elements(s) == {s[i] : i \in DOMAIN s}

UncheckedInit ==
    unchecked = <<>> /\ buffer = <<>> /\ backBuffer = <<>> /\ satisfied = <<>>

(* UncheckedMap::put: at the limit the oldest entry is dropped             *)
PutUnchecked(dependency, h) ==
    LET entry == [dependency |-> dependency, hash |-> h]
        all == IF entry \in Elements(unchecked) THEN unchecked ELSE Append(unchecked, entry)
    IN unchecked' = IF Len(all) > MaxUnchecked THEN Tail(all) ELSE all

(* UncheckedMapThread::run takes the buffer when it has finished the last  *)
(* one                                                                     *)
SwapBuffer ==
    /\ backBuffer = <<>> /\ satisfied = <<>> /\ buffer # <<>>
    /\ backBuffer' = buffer
    /\ buffer' = <<>>
    /\ UNCHANGED <<unchecked, satisfied>>

(* The order of the keys: by hash, in some order of the hashes             *)
InKeyOrder(S) ==
    CHOOSE s \in [1..Cardinality(S) -> S] : \A i, j \in DOMAIN s : s[i] = s[j] => i = j

WaitingFor(dependency) == {e \in Elements(unchecked) : e.dependency = dependency}

(* UncheckedMapThread::query_impl: the entries found are deleted, whatever *)
(* becomes of them.  Nobody sees the map before all are handed over.       *)
QueryImpl ==
    /\ backBuffer # <<>> /\ satisfied = <<>>
    /\ satisfied' = InKeyOrder(WaitingFor(Head(backBuffer)))
    /\ unchecked' = SelectSeq(unchecked, LAMBDA e : e.dependency # Head(backBuffer))
    /\ backBuffer' = Tail(backBuffer)
    /\ UNCHANGED buffer

=============================================================================
