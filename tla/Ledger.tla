------------------------------- MODULE Ledger -------------------------------
(***************************************************************************)
(* The ledger (ledger/src): the LMDB tables for blocks, accounts, pending  *)
(* entries, confirmation heights, pruned hashes and representative         *)
(* weights, the counters cached in memory, and the operations on them:     *)
(* process a block, roll a block back, cement a block, prune an account.   *)
(* Every operation runs inside one write transaction.  Rolling back and    *)
(* pruning are loops in the code; one iteration is one step here, and no   *)
(* other operation starts before the loop has ended.                       *)
(***************************************************************************)
EXTENDS Blocks, Sequences

CONSTANTS
    None,            \* an absent table entry
    PruningEnabled   \* the node flag enable_pruning

VARIABLES
    block,           \* block table: the sideband of every stored block
    account,         \* account table
    pending,         \* pending table: receivable sends
    confirmation,    \* confirmation height table
    pruned,          \* pruned table
    weight,          \* rep_weight table, 0 for an absent entry
    count,           \* LedgerCache: counters kept in memory
    rollback,        \* call stack of roll_back_block_and_successors
    prune            \* the hash pruning_action has reached, or Zero

tables == <<block, account, pending, confirmation, pruned, weight, count>>
vars == <<tables, rollback, prune>>

Epoch == 0..2

Sideband ==
    [account : Account, successor : Hash \cup {Zero}, balance : Nat,
     height : Nat, epoch : Epoch, sourceEpoch : Epoch, isSend : BOOLEAN]

AccountInfo ==
    [head : Hash, rep : Account \cup {Zero}, open : Hash, balance : Nat,
     blockCount : Nat, epoch : Epoch]

PendingEntry ==
    [account : Hash \cup Account \cup {Zero}, hash : Hash \cup Account \cup {Zero},
     source : Account \cup {Zero}, amount : Nat, epoch : Epoch]

ConfirmationHeightInfo == [height : Nat, frontier : Hash \cup {Zero}]

ASSUME LedgerAssumption ==
    /\ None \notin Sideband /\ None \notin AccountInfo /\ None \notin Hash
    /\ PruningEnabled \in BOOLEAN

-----------------------------------------------------------------------------
(* Reading the tables (ledger_set_any.rs, ledger_set_confirmed.rs)         *)

Stored == {h \in Hash : block[h] # None}

BlockExistsOrPruned(h) == h \in Stored \/ h \in pruned

(* SavedBlock::balance: from the block if it has the field                 *)
Balance(h) ==
    IF Type(h) \in {"send", "state"} THEN Block[h].balance ELSE block[h].balance

Receivable(a, h) == {p \in pending : p.account = a /\ p.hash = h}

(* LedgerSetConfirmed::block_exists                                        *)
Confirmed(h) ==
    h \in Stored /\ block[h].height <= confirmation[block[h].account].height

ConfirmedOrPruned(h) == h \in pruned \/ (h \in Hash /\ Confirmed(h))

(* No block of the account between two heights has been pruned: a walk     *)
(* along the previous links gets from one to the other                     *)
Unbroken(a, low, high) ==
    \A n \in low..high : \E x \in Stored : block[x].account = a /\ block[x].height = n

(* SavedBlock::dependent_blocks                                            *)
DependentLink(h) ==
    CASE Type(h) \in {"send", "change"} -> Zero
      [] Type(h) = "receive" -> Block[h].link
      [] Type(h) = "open" ->
           IF Block[h].account = GenesisAccount THEN Zero ELSE Block[h].link
      [] OTHER -> IF block[h].isSend \/ HasEpochLink(h) THEN Zero ELSE Block[h].link

DependentBlocks(h) == {Previous(h), DependentLink(h)} \ {Zero}

DependentsConfirmed(h) == \A d \in DependentBlocks(h) : ConfirmedOrPruned(d)

-----------------------------------------------------------------------------
(* The validator's view of a block (validator_factory.rs, helpers.rs)      *)

PreviousStored(h) == Previous(h) # Zero /\ block[Previous(h)] # None

AccountOf(h) ==
    IF Type(h) \in {"open", "state"} THEN Block[h].account
    ELSE IF PreviousStored(h) THEN block[Previous(h)].account ELSE Zero

AccountExists(h) == AccountOf(h) # Zero /\ account[AccountOf(h)] # None

OldInfo(h) == account[AccountOf(h)]

OldBalance(h) == IF AccountExists(h) THEN OldInfo(h).balance ELSE 0

PreviousBalance(h) == IF PreviousStored(h) THEN Balance(Previous(h)) ELSE 0

(* pending_receive_info, an entry or none                                  *)
PendingReceive(h) ==
    IF SourceOrLink(h) = Zero THEN {} ELSE Receivable(AccountOf(h), SourceOrLink(h))

PendingAmount(h) ==
    IF PendingReceive(h) = {} THEN 0 ELSE (CHOOSE p \in PendingReceive(h) : TRUE).amount

SourceEpoch(h) ==
    IF PendingReceive(h) = {} THEN 0 ELSE (CHOOSE p \in PendingReceive(h) : TRUE).epoch

SourceBlockExists(h) == SourceOrLink(h) \in Hash /\ BlockExistsOrPruned(SourceOrLink(h))

(* any_pending_exists: receivable_exists of the account                    *)
AnyPendingExists(h) == \E p \in pending : p.account = AccountOf(h)

IsSend(h) ==
    \/ Type(h) = "send"
    \/ Type(h) = "state" /\ AccountExists(h) /\ Block[h].balance < OldInfo(h).balance

IsReceive(h) ==
    \/ Type(h) \in {"receive", "open"}
    \/ /\ Type(h) = "state" /\ ~HasEpochLink(h)
       /\ AccountExists(h) =>
             Block[h].balance >= OldInfo(h).balance /\ Block[h].link # Zero

AmountReceived(h) ==
    CASE Type(h) \in {"receive", "open"} -> PendingAmount(h)
      [] Type(h) = "state" /\ PreviousBalance(h) < Block[h].balance ->
           Block[h].balance - PreviousBalance(h)
      [] OTHER -> 0

AmountSent(h) ==
    IF /\ AccountExists(h) /\ Type(h) \in {"send", "state"}
       /\ Block[h].balance < OldInfo(h).balance
    THEN OldInfo(h).balance - Block[h].balance
    ELSE 0

NewBalance(h) == OldBalance(h) + AmountReceived(h) - AmountSent(h)

IsEpochBlock(h) == HasEpochLink(h) /\ PreviousBalance(h) = Block[h].balance

NewEpoch(h) ==
    LET old == IF AccountExists(h) THEN OldInfo(h).epoch ELSE 0
    IN IF IsEpochBlock(h) THEN EpochOf[Block[h].link]
       ELSE IF SourceEpoch(h) > old THEN SourceEpoch(h) ELSE old

NewRepresentative(h) ==
    IF HasRepresentative(h) THEN Block[h].rep
    ELSE IF AccountExists(h) THEN OldInfo(h).rep ELSE Zero

-----------------------------------------------------------------------------
(* BlockValidator::validate: the rules in the order the code applies them  *)

(* epoch_block_pre_checks (epoch_block_rules.rs)                           *)
EpochPreCheck(h) ==
    IF HasEpochLink(h) /\ Block[h].signer \notin {Block[h].account, EpochSigner}
    THEN "BadSignature"
    ELSE IF HasEpochLink(h) /\ Previous(h) # Zero /\ ~PreviousStored(h)
    THEN "GapPrevious"
    ELSE "Progress"

(* common_rules.rs and open_block_rules.rs: position in the chain          *)
ChainRules(h) ==
    IF BlockExistsOrPruned(h) THEN "Old"
    ELSE IF Previous(h) # Zero /\ ~PreviousStored(h) THEN "GapPrevious"
    ELSE IF Previous(h) # Zero /\ ~ValidPredecessor(h, Type(Previous(h)))
    THEN "BlockPosition"
    ELSE IF Block[h].signer # (IF IsEpochBlock(h) THEN EpochSigner ELSE AccountOf(h))
    THEN "BadSignature"
    ELSE IF AccountOf(h) = Zero THEN "OpenedBurnAccount"
    ELSE IF ~IsOpen(h) /\ ~AccountExists(h) THEN "GapPrevious"
    ELSE IF AccountExists(h) /\ IsOpen(h) THEN "Fork"
    ELSE IF \/ AccountExists(h) /\ ~PreviousStored(h)
            \/ ~AccountExists(h) /\ Previous(h) # Zero
    THEN "GapPrevious"
    ELSE IF AccountExists(h) /\ Previous(h) # OldInfo(h).head THEN "Fork"
    ELSE "Progress"

(* The received amount is not compared with the pending one.               *)
AmountRules_AnyAmount(h) ==
    IF IsReceive(h) /\ ~SourceBlockExists(h) THEN "GapSource"
    ELSE IF IsReceive(h) /\ PendingReceive(h) = {} THEN "Unreceivable"
    ELSE "Progress"

(* open_block_rules.rs, receive_block_rules.rs, send_block_rules.rs        *)
AmountRules(h) ==
    IF Type(h) = "state" /\ IsOpen(h) /\ Block[h].link = Zero THEN "GapSource"
    ELSE IF Type(h) = "state" /\ Block[h].link = Zero /\ AmountReceived(h) # 0
    THEN "BalanceMismatch"
    ELSE IF IsReceive(h) /\ ~SourceBlockExists(h) THEN "GapSource"
    ELSE IF IsReceive(h) /\ PendingReceive(h) = {} THEN "Unreceivable"
    ELSE IF IsReceive(h) /\ AmountReceived(h) # PendingAmount(h) THEN "BalanceMismatch"
    ELSE IF Type(h) \in {"receive", "open"} /\ SourceEpoch(h) # 0 THEN "Unreceivable"
    ELSE IF ~Block[h].work THEN "InsufficientWork"
    ELSE IF Type(h) = "send" /\ PreviousBalance(h) < Block[h].balance
    THEN "NegativeSpend"
    ELSE "Progress"

(* ensure_valid_epoch_block (epoch_block_rules.rs)                         *)
EpochRules(h) ==
    IF ~IsEpochBlock(h) THEN "Progress"
    ELSE IF AccountExists(h) /\ Block[h].rep # OldInfo(h).rep
    THEN "RepresentativeMismatch"
    ELSE IF IsOpen(h) /\ Block[h].rep # Zero THEN "RepresentativeMismatch"
    ELSE IF IsOpen(h) /\ ~AnyPendingExists(h) THEN "GapEpochOpenPending"
    ELSE IF AccountExists(h) /\ EpochOf[Block[h].link] # OldInfo(h).epoch + 1
    THEN "BlockPosition"
    ELSE IF AccountExists(h) /\ NewBalance(h) # OldInfo(h).balance
    THEN "BalanceMismatch"
    ELSE "Progress"

Validate(h) ==
    IF EpochPreCheck(h) # "Progress" THEN EpochPreCheck(h)
    ELSE LET chain == ChainRules(h) IN
         IF chain # "Progress" THEN chain
         ELSE LET amount == AmountRules(h) IN
              IF amount # "Progress" THEN amount ELSE EpochRules(h)

-----------------------------------------------------------------------------
(* BlockInserter::insert with the instructions the validator creates       *)

NewSideband(h) ==
    [account |-> AccountOf(h), successor |-> Zero, balance |-> NewBalance(h),
     height |-> (IF AccountExists(h) THEN OldInfo(h).blockCount ELSE 0) + 1,
     epoch |-> NewEpoch(h), sourceEpoch |-> SourceEpoch(h), isSend |-> IsSend(h)]

NewAccountInfo(h) ==
    [head |-> h, rep |-> NewRepresentative(h),
     open |-> IF AccountExists(h) THEN OldInfo(h).open ELSE h,
     balance |-> NewBalance(h),
     blockCount |-> (IF AccountExists(h) THEN OldInfo(h).blockCount ELSE 0) + 1,
     epoch |-> NewEpoch(h)]

(* delete_received_pending_info                                            *)
ReceivedPending(h) ==
    IF IsReceive(h) THEN Receivable(AccountOf(h), SourceOrLink(h)) ELSE {}

(* new_pending_info                                                        *)
NewPending(h) ==
    IF IsSend(h)
    THEN {[account |-> DestinationOrLink(h), hash |-> h, source |-> AccountOf(h),
           amount |-> AmountSent(h),
           epoch |-> IF Type(h) = "send" THEN 0 ELSE NewEpoch(h)]}
    ELSE {}

(* LmdbPendingStore::put overwrites the entry with the same key            *)
PutPending(table, entries) ==
    {p \in table : \A q \in entries : p.account # q.account \/ p.hash # q.hash}
        \cup entries

(* LmdbBlockStore::put and update_predecessor                              *)
PutBlock(h, sideband) ==
    [x \in Hash |-> IF x = h THEN sideband
                    ELSE IF x = Previous(h) THEN [block[x] EXCEPT !.successor = h]
                    ELSE block[x]]

(* successor_clear is forgotten.                                           *)
DelBlock_KeepsSuccessor(h) == [block EXCEPT ![h] = None]

(* LmdbBlockStore::del and successor_clear                                 *)
DelBlock(h) ==
    [x \in Hash |-> IF x = h THEN None
                    ELSE IF x = Previous(h) THEN [block[x] EXCEPT !.successor = Zero]
                    ELSE block[x]]

(* Wrong when the representative stays the same.                           *)
MoveWeight_Exclusive(from, lost, to, gained) ==
    [r \in Account \cup {Zero} |->
        IF r = from THEN weight[r] - lost
        ELSE IF r = to THEN weight[r] + gained ELSE weight[r]]

(* representation_add_dual: the wrapping arithmetic of the code cancels    *)
MoveWeight(from, lost, to, gained) ==
    [r \in Account \cup {Zero} |->
        weight[r] - (IF r = from THEN lost ELSE 0) + (IF r = to THEN gained ELSE 0)]

Insert(h) ==
    LET a == AccountOf(h)
        new == NewAccountInfo(h)
    IN  /\ block' = PutBlock(h, NewSideband(h))
        /\ account' = [account EXCEPT ![a] = new]
        /\ pending' = PutPending(pending \ ReceivedPending(h), NewPending(h))
        /\ weight' = IF AccountExists(h)
                     THEN MoveWeight(OldInfo(h).rep, OldInfo(h).balance, new.rep, new.balance)
                     ELSE MoveWeight(Zero, 0, new.rep, new.balance)
        /\ count' = [count EXCEPT !.block = @ + 1,
                                  !.account = @ + IF AccountExists(h) THEN 0 ELSE 1]
        /\ UNCHANGED <<confirmation, pruned>>

Busy == rollback # <<>> \/ prune # Zero

(* Ledger::process of a block that passes every rule; a block that fails   *)
(* one leaves the ledger as it is.                                         *)
Process(h) ==
    /\ ~Busy
    /\ Validate(h) = "Progress"
    /\ Insert(h)
    /\ UNCHANGED <<rollback, prune>>

-----------------------------------------------------------------------------
(* Ledger::rollback (block_rollback/): one action per outcome of one       *)
(* iteration of the loop in roll_back_block_and_successors.  The last      *)
(* element of rollback is the block the innermost call removes; it works   *)
(* on the head of that block's account.                                    *)

Target == rollback[Len(rollback)]

HeadOf(h) == account[block[h].account].head

(* latest_block_for_destination                                            *)
DestinationHead(h) ==
    IF DestinationOrLink(h) \in Account /\ account[DestinationOrLink(h)] # None
    THEN account[DestinationOrLink(h)].head
    ELSE None

(* RepresentativeBlockFinder::find_rep_block: the latest block at or below *)
(* h in its chain that names a representative, Zero if there is none left  *)
RepresentativeBlock(h) ==
    LET named == {x \in Stored : /\ HasRepresentative(x)
                                 /\ block[x].account = block[h].account
                                 /\ block[x].height <= block[h].height
                                 /\ Unbroken(block[h].account, block[x].height, block[h].height)}
    IN IF h \notin Stored \/ named = {} THEN Zero
       ELSE CHOOSE x \in named : \A y \in named : block[y].height <= block[x].height

HeadBalance(h) == account[block[h].account].balance

BalanceBefore(h) == IF Previous(h) \in Stored THEN Balance(Previous(h)) ELSE 0

(* RollbackPlanner::block_sub_type; the other subtypes have no effect on   *)
(* the pending table                                                       *)
RollsBackSend(h) == HeadBalance(h) < BalanceBefore(h)
RollsBackReceive(h) == HeadBalance(h) > BalanceBefore(h)

(* The confirmed frontier itself may be rolled back.                       *)
PlanFails_BelowFrontier(h) ==
    \/ h \notin Stored
    \/ Previous(h) # Zero /\ Previous(h) \notin Stored
    \/ block[h].height < confirmation[block[h].account].height

(* A send that was received cannot be rolled back.                         *)
PlanFails_Received(h) ==
    \/ h \notin Stored
    \/ block[h].height <= confirmation[block[h].account].height
    \/ RollsBackSend(h) /\ Receivable(DestinationOrLink(h), h) = {}

(* ensure_block_is_not_confirmed, load_previous_block, "no latest block    *)
(* for destination": the ways a plan fails                                 *)
PlanFails(h) ==
    \/ h \notin Stored
    \/ Previous(h) # Zero /\ Previous(h) \notin Stored
    \/ block[h].height <= confirmation[block[h].account].height
    \/ /\ RollsBackSend(h) /\ Receivable(DestinationOrLink(h), h) = {}
       /\ DestinationHead(h) = None

(* The receive of the send is left alone.                                  *)
NeedsDependency_Never(h) == FALSE

(* RequestDependencyRollback                                               *)
NeedsDependency(h) ==
    RollsBackSend(h) /\ Receivable(DestinationOrLink(h), h) = {}

PreviousAccountInfo(h) ==
    LET info == account[block[h].account]
        rb == RepresentativeBlock(Previous(h))
    IN IF Previous(h) = Zero THEN None
       ELSE [head |-> Previous(h),
             rep |-> IF rb = Zero THEN info.rep ELSE Block[rb].rep,
             open |-> info.open, balance |-> BalanceBefore(h),
             blockCount |-> info.blockCount - 1, epoch |-> block[Previous(h)].epoch]

RestoredPending(h) ==
    [account |-> block[h].account, hash |-> SourceOrLink(h),
     source |-> IF SourceOrLink(h) \in Stored THEN block[SourceOrLink(h)].account ELSE Zero,
     amount |-> HeadBalance(h) - BalanceBefore(h), epoch |-> block[h].sourceEpoch]

(* RollbackInstructionsExecutor::execute                                   *)
Remove(h) ==
    LET a == block[h].account
        old == account[a]
    IN  /\ pending' =
              IF RollsBackSend(h) THEN pending \ Receivable(DestinationOrLink(h), h)
              ELSE IF RollsBackReceive(h) THEN PutPending(pending, {RestoredPending(h)})
              ELSE pending
        /\ account' = [account EXCEPT ![a] = PreviousAccountInfo(h)]
        /\ block' = DelBlock(h)
        /\ weight' =
              IF Previous(h) # Zero /\ RepresentativeBlock(Previous(h)) # Zero
              THEN MoveWeight(old.rep, old.balance,
                              Block[RepresentativeBlock(Previous(h))].rep, BalanceBefore(h))
              ELSE MoveWeight(old.rep, old.balance, Zero, 0)
        /\ count' = [count EXCEPT !.block = @ - 1,
                                  !.account = @ - IF Previous(h) = Zero THEN 1 ELSE 0]
        /\ UNCHANGED <<confirmation, pruned>>

RollbackStart(h) ==
    /\ ~Busy
    /\ h \in Stored
    /\ rollback' = <<h>>
    /\ UNCHANGED <<tables, prune>>

RollbackRemove ==
    /\ rollback # <<>> /\ Target \in Stored
    /\ ~PlanFails(HeadOf(Target)) /\ ~NeedsDependency(HeadOf(Target))
    /\ Remove(HeadOf(Target))
    /\ UNCHANGED <<rollback, prune>>

RollbackDependency ==
    /\ rollback # <<>> /\ Target \in Stored
    /\ ~PlanFails(HeadOf(Target)) /\ NeedsDependency(HeadOf(Target))
    /\ rollback' = Append(rollback, DestinationHead(HeadOf(Target)))
    /\ UNCHANGED <<tables, prune>>

RollbackReturn ==
    /\ rollback # <<>> /\ Target \notin Stored
    /\ rollback' = SubSeq(rollback, 1, Len(rollback) - 1)
    /\ UNCHANGED <<tables, prune>>

(* The loop tries again instead of returning the error.                    *)
RollbackFail_Retry ==
    /\ rollback # <<>> /\ Target \in Stored
    /\ PlanFails(HeadOf(Target))
    /\ UNCHANGED vars

(* An error unwinds every call; what was removed so far stays removed,     *)
(* because the write transaction is committed all the same.                *)
RollbackFail ==
    /\ rollback # <<>> /\ Target \in Stored
    /\ PlanFails(HeadOf(Target))
    /\ rollback' = <<>>
    /\ UNCHANGED <<tables, prune>>

-----------------------------------------------------------------------------
(* A block is cemented ahead of the blocks it depends on.                  *)
Cement_Ahead(h) ==
    /\ ~Busy
    /\ h \in Stored /\ ~Confirmed(h)
    /\ confirmation' = [confirmation EXCEPT ![block[h].account] =
                           [height |-> block[h].height, frontier |-> h]]
    /\ count' = [count EXCEPT !.cemented = @ + 1]
    /\ UNCHANGED <<block, account, pending, pruned, weight, rollback, prune>>

(* BlockCementer::confirm: the store update for one block.  The walk that  *)
(* finds the blocks is modelled in BlockCementer.tla.                      *)
Cement(h) ==
    /\ ~Busy
    /\ h \in Stored /\ ~Confirmed(h) /\ DependentsConfirmed(h)
    /\ confirmation' = [confirmation EXCEPT ![block[h].account] =
                           [height |-> block[h].height, frontier |-> h]]
    /\ count' = [count EXCEPT !.cemented = @ + 1]
    /\ UNCHANGED <<block, account, pending, pruned, weight, rollback, prune>>

(* The confirmation height is not looked at.                               *)
PruneStart_Unconfirmed(h) ==
    /\ PruningEnabled /\ ~Busy
    /\ h \in Stored
    /\ prune' = h
    /\ UNCHANGED <<tables, rollback>>

(* LedgerPruning::collect_ledger_pruning_targets walks down from the       *)
(* cemented frontier, not past a pruned block; the frontier itself is      *)
(* skipped ("depth == 0").                                                 *)
PruneStart(h) ==
    /\ PruningEnabled /\ ~Busy
    /\ h \in Stored /\ block[h].height < confirmation[block[h].account].height
    /\ Unbroken(block[h].account, block[h].height,
                confirmation[block[h].account].height)
    /\ prune' = h
    /\ UNCHANGED <<tables, rollback>>

(* Ledger::pruning_action, one iteration                                   *)
PruneStep ==
    /\ prune # Zero /\ prune # Genesis /\ prune \in Stored
    /\ block' = [block EXCEPT ![prune] = None]
    /\ pruned' = pruned \cup {prune}
    /\ count' = [count EXCEPT !.pruned = @ + 1]
    /\ prune' = Previous(prune)
    /\ UNCHANGED <<account, pending, confirmation, weight, rollback>>

PruneEnd ==
    /\ prune # Zero
    /\ prune = Genesis \/ prune \in pruned
    /\ prune' = Zero
    /\ UNCHANGED <<tables, rollback>>

(* The node dies after a batch was committed; the counters are computed    *)
(* anew (CachesMatchTables), blocks below the last pruned one stay.        *)
PruneInterrupted ==
    /\ prune # Zero
    /\ prune' = Zero
    /\ UNCHANGED <<tables, rollback>>

-----------------------------------------------------------------------------
(* Ledger::add_genesis_block and the counters of Ledger::initialize        *)
Init ==
    /\ block = [h \in Hash |->
          IF h = Genesis
          THEN [account |-> GenesisAccount, successor |-> Zero, balance |-> Supply,
                height |-> 1, epoch |-> 0, sourceEpoch |-> 0, isSend |-> FALSE]
          ELSE None]
    /\ account = [a \in Account |->
          IF a = GenesisAccount
          THEN [head |-> Genesis, rep |-> GenesisAccount, open |-> Genesis,
                balance |-> Supply, blockCount |-> 1, epoch |-> 0]
          ELSE None]
    /\ pending = {}
    /\ confirmation = [a \in Account |->
          IF a = GenesisAccount THEN [height |-> 1, frontier |-> Genesis]
          ELSE [height |-> 0, frontier |-> Zero]]
    /\ pruned = {}
    /\ weight = [r \in Account \cup {Zero} |-> IF r = GenesisAccount THEN Supply ELSE 0]
    /\ count = [block |-> 1, account |-> 1, cemented |-> 1, pruned |-> 0]
    /\ rollback = <<>>
    /\ prune = Zero

Next ==
    \/ \E h \in Hash : Process(h) \/ RollbackStart(h) \/ Cement(h) \/ PruneStart(h)
    \/ RollbackRemove \/ RollbackDependency \/ RollbackReturn \/ RollbackFail
    \/ PruneStep \/ PruneEnd \/ PruneInterrupted

Spec == Init /\ [][Next]_vars

-----------------------------------------------------------------------------
(* Properties                                                              *)

(* Types of the tables and of the two loops' cursors.                      *)
TypeOK ==
    /\ block \in [Hash -> Sideband \cup {None}]
    /\ account \in [Account -> AccountInfo \cup {None}]
    /\ pending \subseteq PendingEntry
    /\ confirmation \in [Account -> ConfirmationHeightInfo]
    /\ pruned \subseteq Hash
    /\ rollback \in Seq(Hash)
    /\ prune \in Hash \cup {Zero}

(* Every account's chain is intact whatever was processed, rolled back and *)
(* pruned: the head is stored and as high as the account's block count,    *)
(* every block continues the block before it, whose successor it is, and   *)
(* only a head has no successor.                                           *)
AccountIntact ==
    \A a \in Account : account[a] # None =>
        /\ account[a].head \in Stored
        /\ block[account[a].head].account = a
        /\ block[account[a].head].height = account[a].blockCount
        /\ Balance(account[a].head) = account[a].balance
        /\ block[account[a].head].successor = Zero
        /\ block[account[a].head].epoch = account[a].epoch

ChainIntact ==
    \A h \in Stored :
        /\ account[block[h].account] # None
        /\ block[h].successor = Zero => account[block[h].account].head = h
        /\ Previous(h) = Zero => block[h].height = 1
        /\ (Previous(h) # Zero /\ Previous(h) \notin pruned) =>
              /\ Previous(h) \in Stored
              /\ block[Previous(h)].account = block[h].account
              /\ block[Previous(h)].successor = h
              /\ block[h].height = block[Previous(h)].height + 1

LedgerIntact == AccountIntact /\ ChainIntact

(* The ledger never stores two blocks with the same root: of two forks at  *)
(* most one is in the ledger, before, during and after a rollback.         *)
NoFork == \A g, h \in Stored : Root(g) = Root(h) => g = h

(* A block never outlives a block it depends on: rolling back a send first *)
(* rolls back its receive.  BlockCementer::confirm relies on it when it    *)
(* unwraps every dependency it visits (block_cementer.rs:41).              *)
DependenciesPresent ==
    \A h \in Stored : \A d \in DependentBlocks(h) : d \in Stored \cup pruned

(* The cemented part of the ledger is closed under dependencies.           *)
ConfirmedClosed == \A h \in Stored : Confirmed(h) => DependentsConfirmed(h)

(* Cementing is for ever: no step un-cements a block or rolls it back, and *)
(* confirmation heights only grow ("Only unconfirmed blocks can be rolled  *)
(* back", rollback_planner.rs).                                            *)
CementedForever ==
    [][/\ \A h \in Hash : Confirmed(h) => (Confirmed(h) \/ h \in pruned)'
       /\ \A a \in Account : confirmation[a].height <= confirmation'[a].height]_vars

(* Ledger::rollback: "Rollback blocks until `block' doesn't exist or it    *)
(* tries to penetrate the confirmation height": only a cemented block is   *)
(* not rolled back, however far the rollback had to reach for its receives. *)
RollbackOutcome ==
    [][rollback # <<>> /\ rollback' = <<>> =>
          rollback[1] \notin Stored' \/ Confirmed(rollback[1])]_vars

(* Every rollback ends: following receives into other accounts never goes  *)
(* round in circles.                                                       *)
RollbackTerminates == rollback # <<>> ~> rollback = <<>>

RollbackProgress ==
    WF_vars(RollbackRemove \/ RollbackDependency \/ RollbackReturn \/ RollbackFail)

FairSpec == Spec /\ RollbackProgress

(* pruning_action never fails: its assertion that a block it deletes is    *)
(* cemented holds, and it never misses a block ("Error finding block for   *)
(* pruning", ledger.rs:562).                                               *)
PruningSafe ==
    prune # Zero => prune \in pruned \/ Confirmed(prune)

=============================================================================
