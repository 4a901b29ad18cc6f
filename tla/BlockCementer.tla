---------------------------- MODULE BlockCementer ----------------------------
(***************************************************************************)
(* BlockCementer::confirm (ledger/src/block_cementer.rs): the walk along   *)
(* the dependencies of a block that cements the lowest ones first, with a  *)
(* stack and a result of at most MaxBlocks entries.  One iteration of its  *)
(* loop is one step.  The caller holds the write queue for the whole walk, *)
(* so the other operations of the ledger run between walks only; the       *)
(* refresh of the transaction inside the loop lets no other writer in.     *)
(***************************************************************************)
EXTENDS Ledger

CONSTANT MaxBlocks    \* max_blocks

ASSUME MaxBlocksAssumption == MaxBlocks \in Nat \ {0}

VARIABLES
    target,     \* target_hash, Zero outside a call
    stack,
    result      \* blocks cemented by the current or the last call

cementer == <<target, stack, result>>
cementerVars == <<vars, cementer>>

Top == stack[Len(stack)]

Missing(d) == IF d # Zero /\ ~ConfirmedOrPruned(d) THEN <<d>> ELSE <<>>

(* The dependencies of a block that are pushed on the stack                *)
Unconfirmed(h) == Missing(Previous(h)) \o Missing(DependentLink(h))

(* push_back, and pop_front when the stack has grown past max_blocks       *)
Push(hashes) ==
    LET pushed == stack \o hashes
        excess == IF Len(pushed) > MaxBlocks THEN Len(pushed) - MaxBlocks ELSE 0
    IN SubSeq(pushed, excess + 1, Len(pushed))

(* Ledger::confirm_max                                                     *)
ConfirmStart(h) ==
    /\ ~Busy /\ target = Zero
    /\ h \in Stored
    /\ target' = h /\ stack' = <<h>> /\ result' = <<>>
    /\ UNCHANGED vars

(* The block on top is popped, and cemented unless it already is.  A block *)
(* that two others depend on may be on the stack twice.                    *)
CementTop ==
    /\ stack' = SubSeq(stack, 1, Len(stack) - 1)
    /\ IF ConfirmedOrPruned(Top)
       THEN UNCHANGED <<vars, result>>
       ELSE /\ confirmation' = [confirmation EXCEPT ![block[Top].account] =
                                   [height |-> block[Top].height, frontier |-> Top]]
            /\ count' = [count EXCEPT !.cemented = @ + 1]
            /\ result' = Append(result, Top)
            /\ UNCHANGED <<block, account, pending, pruned, weight, rollback, prune>>

(* The walk stops when the block is gone or enough blocks are cemented.    *)
WalkEnds == stack' = <<>> \/ target \notin Stored' \/ Len(result') >= MaxBlocks

(* One iteration of the loop                                               *)
Visit ==
    /\ target # Zero
    /\ Top \in Stored      \* get_block(..).unwrap()
    /\ \/ /\ Unconfirmed(Top) # <<>>
          /\ stack' = Push(Unconfirmed(Top))
          /\ UNCHANGED <<vars, result>>
       \/ /\ Unconfirmed(Top) = <<>>
          /\ CementTop
    /\ target' = IF WalkEnds THEN Zero ELSE target

CementerInit == Init /\ target = Zero /\ stack = <<>> /\ result = <<>>

=============================================================================
