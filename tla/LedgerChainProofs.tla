------------------------- MODULE LedgerChainProofs -------------------------
(***************************************************************************)
(* The chain invariant of the ledger, and the proofs that inserting a      *)
(* block and removing the head of an account, as a rollback does, keep it. *)
(***************************************************************************)
EXTENDS Ledger, WellFoundedInduction, TLAPS

(* Heights: within an account they are different and end at the head.      *)
HeightUnique ==
    \A g, h \in Stored :
        block[g].account = block[h].account /\ block[g].height = block[h].height => g = h

HeightBound ==
    \A h \in Stored :
        1 <= block[h].height /\ block[h].height <= account[block[h].account].blockCount

(* A block is stored or pruned, never both.                                *)
PrunedGone == \A h \in pruned : h \notin Stored

OpensOwnAccount ==
    \A h \in Stored : Previous(h) = Zero => block[h].account = Block[h].account

(* The cemented part of a chain ends at or below the head.                 *)
FrontierBound ==
    \A a \in Account :
        /\ account[a] = None => confirmation[a].height = 0
        /\ account[a] # None => confirmation[a].height <= account[a].blockCount

(* Only cemented blocks stand on pruned ones.                              *)
PrunedBelow == \A h \in Stored : Previous(h) \in pruned => Confirmed(h)

PruneCursor ==
    prune # Zero =>
        \/ prune \in pruned
        \/ /\ prune \in Stored
           /\ block[prune].height < confirmation[block[prune].account].height

ChainInv ==
    /\ TypeOK /\ AccountIntact /\ ChainIntact /\ NoFork
    /\ HeightUnique /\ HeightBound /\ PrunedGone /\ OpensOwnAccount
    /\ FrontierBound /\ PrunedBelow /\ PruneCursor

-----------------------------------------------------------------------------

(* Zero and None are no hashes, accounts or table entries.                 *)
LEMMA Numbers ==
    /\ Zero \notin Hash /\ Zero \notin Account
    /\ None \notin Sideband /\ None \notin AccountInfo
BY BlocksAssumption, LedgerAssumption

(* No hash is the number of an account.                                    *)
LEMMA Disjoint == \A x \in Hash : x \notin Account
BY BlocksAssumption

(* The fields of a block.                                                  *)
LEMMA BlockContent ==
    \A h \in Hash :
        /\ Type(h) \in BlockType /\ Previous(h) \in Hash \cup {Zero}
        /\ Block[h].balance \in Nat
        /\ Block[h].account \in Account \cup {Zero} /\ Block[h].rep \in Account \cup {Zero}
        /\ SourceOrLink(h) \in Hash \cup Account \cup {Zero}
        /\ DestinationOrLink(h) \in Hash \cup Account \cup {Zero}
<1> SUFFICES ASSUME NEW h \in Hash
             PROVE  /\ Type(h) \in BlockType /\ Previous(h) \in Hash \cup {Zero}
                    /\ Block[h].balance \in Nat
                    /\ Block[h].account \in Account \cup {Zero}
                    /\ Block[h].rep \in Account \cup {Zero}
                    /\ SourceOrLink(h) \in Hash \cup Account \cup {Zero}
                    /\ DestinationOrLink(h) \in Hash \cup Account \cup {Zero}
  OBVIOUS
<1>1. Block[h] \in Content
  BY BlocksAssumption
<1> QED
  BY <1>1 DEF Content, Type, Previous, SourceOrLink, DestinationOrLink

(* The initial ledger holds the genesis block, cemented.                   *)
LEMMA InitInv == Init => ChainInv
<1> SUFFICES ASSUME Init PROVE ChainInv
  OBVIOUS
<1> USE BlocksAssumption, LedgerAssumption
<1>0. /\ Stored = {Genesis} /\ Genesis \in Hash /\ GenesisAccount \in Account
      /\ Type(Genesis) = "open" /\ Previous(Genesis) = Zero
  <2>1. [account |-> GenesisAccount, successor |-> Zero, balance |-> Supply,
         height |-> 1, epoch |-> 0, sourceEpoch |-> 0, isSend |-> FALSE] \in Sideband
    BY DEF Sideband, Epoch
  <2> QED
    BY <2>1, Zenon DEF Init, Stored, Previous, Type
<1>a. [head |-> Genesis, rep |-> GenesisAccount, open |-> Genesis,
       balance |-> Supply, blockCount |-> 1, epoch |-> 0] \in AccountInfo
  BY DEF AccountInfo, Epoch
<1>1. TypeOK
  BY <1>a DEF Init, TypeOK, Sideband, ConfirmationHeightInfo, Epoch
<1>2. AccountIntact
  BY <1>0, <1>a DEF Init, AccountIntact, Balance
<1>3. ChainIntact
  BY <1>0, <1>a DEF Init, ChainIntact
<1>4. NoFork /\ HeightUnique /\ HeightBound /\ PrunedGone
  BY <1>0 DEF Init, NoFork, HeightUnique, HeightBound, PrunedGone
<1>5. OpensOwnAccount /\ FrontierBound /\ PrunedBelow /\ PruneCursor
  BY <1>0, <1>a DEF Init, OpensOwnAccount, FrontierBound, PrunedBelow, PruneCursor
<1> QED
  BY <1>1, <1>2, <1>3, <1>4, <1>5 DEF ChainInv

-----------------------------------------------------------------------------
(* What BlockValidator::validate guarantees of a block it accepts: a new   *)
(* block that continues the head of its account or opens the account.      *)
LEMMA AcceptedBlock ==
    ASSUME ChainInv, NEW h \in Hash, Validate(h) = "Progress"
    PROVE  /\ h \notin Stored /\ h \notin pruned
           /\ AccountOf(h) \in Account
           /\ AccountExists(h) <=> account[AccountOf(h)] # None
           /\ AccountExists(h) =>
                 /\ Previous(h) = OldInfo(h).head
                 /\ Previous(h) # Zero /\ PreviousStored(h)
                 /\ Previous(h) \in Stored
           /\ ~AccountExists(h) =>
                 /\ Previous(h) = Zero
                 /\ Type(h) \in {"open", "state"}
                 /\ AccountOf(h) = Block[h].account
           /\ Type(h) = "send" => Block[h].balance <= PreviousBalance(h)
<1> USE BlocksAssumption, LedgerAssumption
<1>0. Block[h] \in Content /\ Previous(h) \in Hash \cup {Zero}
  BY DEF Content, Previous
<1>1. ChainRules(h) = "Progress" /\ AmountRules(h) = "Progress"
  BY DEF Validate
<1>2. /\ ~BlockExistsOrPruned(h)
      /\ Previous(h) # Zero => PreviousStored(h)
      /\ AccountOf(h) # Zero
      /\ ~AccountExists(h) => IsOpen(h) /\ Previous(h) = Zero
      /\ AccountExists(h) => ~IsOpen(h) /\ PreviousStored(h) /\ Previous(h) = OldInfo(h).head
  BY <1>1 DEF ChainRules
<1>3. AccountOf(h) \in Account
  BY <1>0, <1>2 DEF AccountOf, ChainInv, TypeOK, Sideband, Content, PreviousStored
<1>4. AccountExists(h) <=> account[AccountOf(h)] # None
  BY <1>2 DEF AccountExists
<1>5. AccountExists(h) => Previous(h) # Zero /\ Previous(h) \in Stored
  BY <1>0, <1>2 DEF PreviousStored, Stored
<1>6. ~AccountExists(h) => Type(h) \in {"open", "state"} /\ AccountOf(h) = Block[h].account
  BY <1>2 DEF IsOpen, AccountOf
<1>7. Type(h) = "send" => ~(PreviousBalance(h) < Block[h].balance)
  BY <1>1 DEF AmountRules
<1>8. PreviousBalance(h) \in Nat /\ Block[h].balance \in Nat
  <2>1. Block[h].balance \in Nat
    BY <1>0 DEF Content
  <2>2. CASE PreviousStored(h)
    <3>1. Previous(h) \in Hash /\ block[Previous(h)] \in Sideband
      BY <1>0, <2>2 DEF PreviousStored, ChainInv, TypeOK
    <3>2. Block[Previous(h)] \in Content
      BY <3>1
    <3> QED
      BY <2>1, <2>2, <3>1, <3>2 DEF PreviousBalance, Balance, Sideband, Content
  <2>3. CASE ~PreviousStored(h)
    BY <2>1, <2>3 DEF PreviousBalance
  <2> QED
    BY <2>2, <2>3
<1>9. Type(h) = "send" => Block[h].balance <= PreviousBalance(h)
  BY <1>7, <1>8
<1> QED
  BY <1>2, <1>3, <1>4, <1>5, <1>6, <1>9 DEF BlockExistsOrPruned

(* The balance an accepted block leaves: what the block says, where it     *)
(* says it, and never negative.                                            *)
LEMMA AcceptedBalance ==
    ASSUME ChainInv, NEW h \in Hash, Validate(h) = "Progress"
    PROVE  /\ NewBalance(h) \in Nat /\ AmountSent(h) \in Nat
           /\ Type(h) \in {"send", "state"} => NewBalance(h) = Block[h].balance
<1> USE Numbers
<1>0. Block[h].balance \in Nat /\ Type(h) \in BlockType
  BY BlockContent
<1>1. PendingAmount(h) \in Nat
  <2>1. ASSUME PendingReceive(h) # {} PROVE PendingAmount(h) \in Nat
    <3>1. PICK p \in PendingReceive(h) : p = CHOOSE q \in PendingReceive(h) : TRUE
      BY <2>1
    <3>2. p \in PendingEntry
      BY <3>1 DEF PendingReceive, Receivable, ChainInv, TypeOK
    <3> QED
      BY <2>1, <3>1, <3>2 DEF PendingAmount, PendingEntry
  <2> QED
    BY <2>1 DEF PendingAmount
<1>2. OldBalance(h) = PreviousBalance(h) /\ OldBalance(h) \in Nat
  <2>1. CASE AccountExists(h)
    <3>1. /\ AccountOf(h) \in Account /\ account[AccountOf(h)] # None
          /\ Previous(h) = account[AccountOf(h)].head /\ PreviousStored(h)
      BY <2>1, AcceptedBlock DEF OldInfo
    <3>2. account[AccountOf(h)] \in AccountInfo
      BY <3>1 DEF ChainInv, TypeOK
    <3>3. Balance(Previous(h)) = account[AccountOf(h)].balance
      BY <3>1 DEF ChainInv, AccountIntact
    <3> QED
      BY <2>1, <3>1, <3>2, <3>3 DEF OldBalance, PreviousBalance, OldInfo, AccountInfo
  <2>2. CASE ~AccountExists(h)
    BY <2>2, AcceptedBlock DEF OldBalance, PreviousBalance, PreviousStored
  <2> QED
    BY <2>1, <2>2
<1>3. Type(h) = "send" => Block[h].balance <= OldBalance(h)
  BY <1>2, AcceptedBlock
<1>4. ~AccountExists(h) => OldBalance(h) = 0 /\ AmountSent(h) = 0
  BY DEF OldBalance, AmountSent
<1>5. AccountExists(h) => OldBalance(h) = OldInfo(h).balance
  BY DEF OldBalance
<1>6. Type(h) = "send" => AccountExists(h)
  BY AcceptedBlock
<1>7. CASE Type(h) \in {"receive", "open", "change"}
  BY <1>0, <1>1, <1>2, <1>4, <1>7 DEF NewBalance, AmountReceived, AmountSent
<1>8. CASE Type(h) = "send"
  BY <1>0, <1>2, <1>3, <1>5, <1>6, <1>8 DEF NewBalance, AmountReceived, AmountSent
<1>9. CASE Type(h) = "state"
  BY <1>0, <1>2, <1>4, <1>5, <1>9 DEF NewBalance, AmountReceived, AmountSent
<1> QED
  BY <1>0, <1>7, <1>8, <1>9 DEF BlockType

(* The entries an accepted block writes are well formed.                   *)
LEMMA AcceptedEntries ==
    ASSUME ChainInv, NEW h \in Hash, Validate(h) = "Progress"
    PROVE  /\ NewSideband(h) \in Sideband
           /\ NewAccountInfo(h) \in AccountInfo
           /\ NewPending(h) \subseteq PendingEntry
<1> USE Numbers
<1>0. /\ h \in Hash /\ AccountOf(h) \in Account
      /\ AccountExists(h) => OldInfo(h) \in AccountInfo
  BY AcceptedBlock DEF ChainInv, TypeOK, OldInfo
<1>1. SourceEpoch(h) \in Epoch
  <2>1. ASSUME PendingReceive(h) # {} PROVE SourceEpoch(h) \in Epoch
    <3>1. PICK p \in PendingReceive(h) : p = CHOOSE q \in PendingReceive(h) : TRUE
      BY <2>1
    <3>2. p \in PendingEntry
      BY <3>1 DEF PendingReceive, Receivable, ChainInv, TypeOK
    <3> QED
      BY <2>1, <3>1, <3>2 DEF SourceEpoch, PendingEntry
  <2> QED
    BY <2>1 DEF SourceEpoch, Epoch
<1>2. NewEpoch(h) \in Epoch
  <2>1. IsEpochBlock(h) => EpochOf[Block[h].link] \in Epoch
    BY BlocksAssumption DEF IsEpochBlock, HasEpochLink, Epoch
  <2> QED
    BY <1>0, <1>1, <2>1 DEF NewEpoch, Epoch, AccountInfo
<1>3. NewRepresentative(h) \in Account \cup {Zero}
  BY <1>0, BlockContent DEF NewRepresentative, AccountInfo
<1>4. (IF AccountExists(h) THEN OldInfo(h).blockCount ELSE 0) + 1 \in Nat
  BY <1>0 DEF AccountInfo
<1>5. NewBalance(h) \in Nat /\ AmountSent(h) \in Nat
  BY AcceptedBalance
<1>6. IsSend(h) \in BOOLEAN
  BY DEF IsSend
<1>7. NewSideband(h) \in Sideband
  BY <1>0, <1>1, <1>2, <1>4, <1>5, <1>6 DEF NewSideband, Sideband
<1>8. NewAccountInfo(h) \in AccountInfo
  <2>1. (IF AccountExists(h) THEN OldInfo(h).open ELSE h) \in Hash
    BY <1>0 DEF AccountInfo
  <2> QED
    BY <1>0, <1>2, <1>3, <1>4, <1>5, <2>1 DEF NewAccountInfo, AccountInfo
<1>9. NewPending(h) \subseteq PendingEntry
  <2>1. DestinationOrLink(h) \in Hash \cup Account \cup {Zero}
    BY BlockContent
  <2> QED
    BY <1>0, <1>2, <1>5, <2>1 DEF NewPending, PendingEntry, Epoch
<1> QED
  BY <1>7, <1>8, <1>9

(* What Insert does to the block table.                                    *)
LEMMA InsertedBlocks ==
    ASSUME ChainInv, NEW h \in Hash, Validate(h) = "Progress", Insert(h)
    PROVE  /\ block' \in [Hash -> Sideband \cup {None}]
           /\ Stored' = Stored \cup {h}
           /\ block'[h] = NewSideband(h)
           /\ \A x \in Stored :
                 /\ x # h
                 /\ block'[x].account = block[x].account
                 /\ block'[x].height = block[x].height
                 /\ block'[x].balance = block[x].balance
                 /\ block'[x].epoch = block[x].epoch
                 /\ block'[x].isSend = block[x].isSend
                 /\ block'[x].successor =
                       IF x = Previous(h) THEN h ELSE block[x].successor
<1> USE Numbers
<1>1. h \notin Stored /\ NewSideband(h) \in Sideband
  BY AcceptedBlock, AcceptedEntries
<1>2. Previous(h) # Zero => Previous(h) \in Stored
  BY AcceptedBlock
<1>3. block \in [Hash -> Sideband \cup {None}]
  BY DEF ChainInv, TypeOK
<1>4. block' = PutBlock(h, NewSideband(h))
  BY DEF Insert
<1>5. ASSUME NEW x \in Hash, x # h, x = Previous(h)
      PROVE  /\ x \in Stored
             /\ block[x] \in Sideband
             /\ block'[x] = [block[x] EXCEPT !.successor = h]
             /\ block'[x] \in Sideband
  <2>1. x \in Stored /\ block[x] \in Sideband
    BY <1>2, <1>3, <1>5 DEF Stored
  <2>2. block'[x] = [block[x] EXCEPT !.successor = h]
    BY <1>4, <1>5 DEF PutBlock
  <2> QED
    BY <2>1, <2>2 DEF Sideband
<1>6. ASSUME NEW x \in Hash, x # h, x # Previous(h)
      PROVE  block'[x] = block[x]
  BY <1>4, <1>6 DEF PutBlock
<1>7. block'[h] = NewSideband(h)
  BY <1>4 DEF PutBlock
<1>8. block' \in [Hash -> Sideband \cup {None}]
  <2>1. DOMAIN block' = Hash /\ block' = [x \in Hash |-> block'[x]]
    BY <1>4 DEF PutBlock
  <2>2. \A x \in Hash : block'[x] \in Sideband \cup {None}
    BY <1>1, <1>3, <1>5, <1>6, <1>7, Zenon
  <2> QED
    BY <2>1, <2>2
<1>9. Stored' = Stored \cup {h}
  <2>1. \A x \in Hash : block'[x] # None <=> (block[x] # None \/ x = h)
    BY <1>1, <1>5, <1>6, <1>7, Zenon DEF Stored
  <2> QED
    BY <2>1 DEF Stored
<1>10. ASSUME NEW x \in Stored
       PROVE  /\ x # h
              /\ block'[x].account = block[x].account
              /\ block'[x].height = block[x].height
              /\ block'[x].balance = block[x].balance
              /\ block'[x].epoch = block[x].epoch
              /\ block'[x].isSend = block[x].isSend
              /\ block'[x].successor = IF x = Previous(h) THEN h ELSE block[x].successor
  <2>1. x \in Hash /\ x # h
    BY <1>1 DEF Stored
  <2>2. CASE x = Previous(h)
    <3>1. block[x] \in Sideband /\ block'[x] = [block[x] EXCEPT !.successor = h]
      BY <1>5, <2>1, <2>2
    <3>2. /\ block'[x].account = block[x].account
          /\ block'[x].height = block[x].height
          /\ block'[x].balance = block[x].balance
          /\ block'[x].epoch = block[x].epoch
          /\ block'[x].successor = h
      BY <3>1 DEF Sideband
    <3>3. block'[x].isSend = block[x].isSend
      BY <3>1 DEF Sideband
    <3> QED
      BY <2>1, <2>2, <3>2, <3>3
  <2>3. CASE x # Previous(h)
    BY <1>6, <2>1, <2>3
  <2> QED
    BY <2>1, <2>2, <2>3
<1> QED
  BY <1>7, <1>8, <1>9, <1>10

(* Ledger::process keeps the chains intact.                                *)
LEMMA ProcessInv ==
    ASSUME ChainInv, NEW h \in Hash, Process(h)
    PROVE  ChainInv'
<1> USE Numbers
<1> DEFINE a == AccountOf(h)
<1>1. /\ Validate(h) = "Progress" /\ Insert(h)
      /\ confirmation' = confirmation /\ pruned' = pruned
      /\ rollback' = rollback /\ prune' = prune
  BY DEF Process, Insert
<1>2. /\ h \notin Stored /\ h \notin pruned /\ a \in Account
      /\ AccountExists(h) <=> account[a] # None
      /\ AccountExists(h) => /\ Previous(h) = account[a].head
                             /\ Previous(h) # Zero /\ Previous(h) \in Stored
      /\ ~AccountExists(h) => Previous(h) = Zero /\ a = Block[h].account
  BY <1>1, AcceptedBlock DEF OldInfo
<1>3. /\ block' \in [Hash -> Sideband \cup {None}]
      /\ Stored' = Stored \cup {h} /\ block'[h] = NewSideband(h)
  BY <1>1, InsertedBlocks
<1>4. ASSUME NEW x \in Stored
      PROVE  /\ x \in Hash /\ x # h
             /\ block'[x].account = block[x].account
             /\ block'[x].height = block[x].height
             /\ block'[x].balance = block[x].balance
             /\ block'[x].epoch = block[x].epoch
             /\ block'[x].successor = IF x = Previous(h) THEN h ELSE block[x].successor
  BY <1>1, InsertedBlocks DEF Stored
<1>5. /\ account' = [account EXCEPT ![a] = NewAccountInfo(h)]
      /\ NewAccountInfo(h) \in AccountInfo /\ NewSideband(h) \in Sideband
      /\ account \in [Account -> AccountInfo \cup {None}]
  BY <1>1, AcceptedEntries DEF Insert, ChainInv, TypeOK
<1>6. /\ account'[a] = NewAccountInfo(h) /\ account'[a] # None
      /\ \A c \in Account : c # a => account'[c] = account[c]
  BY <1>2, <1>5, Zenon
<1>7. /\ block'[h].account = a /\ block'[h].successor = Zero
      /\ block'[h].height = NewAccountInfo(h).blockCount
      /\ block'[h].balance = NewAccountInfo(h).balance
      /\ block'[h].epoch = NewAccountInfo(h).epoch
      /\ NewAccountInfo(h).head = h
      /\ NewAccountInfo(h).balance = NewBalance(h)
  BY <1>3, SMTT(30) DEF NewSideband, NewAccountInfo
<1>8. /\ account[a] = None => NewAccountInfo(h).blockCount = 1
      /\ account[a] # None => /\ account[a] \in AccountInfo
                              /\ account[a].blockCount \in Nat
                              /\ NewAccountInfo(h).blockCount = account[a].blockCount + 1
  BY <1>2, <1>5, SMTT(30) DEF NewAccountInfo, OldInfo, AccountInfo
<1>9. \A x \in Stored : block[x].account \in Account /\ block[x].height \in Nat
  BY DEF ChainInv, TypeOK, Stored, Sideband
<1>10. TypeOK'
  <2>1. pending' \subseteq PendingEntry
    BY <1>1, AcceptedEntries DEF Insert, PutPending, ChainInv, TypeOK
  <2> QED
    BY <1>1, <1>2, <1>3, <1>5, <2>1, Zenon DEF TypeOK, ChainInv
<1>11. AccountIntact'
  <2> SUFFICES ASSUME NEW c \in Account, account'[c] # None
               PROVE  /\ account'[c].head \in Stored'
                      /\ block'[account'[c].head].account = c
                      /\ block'[account'[c].head].height = account'[c].blockCount
                      /\ Balance(account[c].head)' = account'[c].balance
                      /\ block'[account'[c].head].successor = Zero
                      /\ block'[account'[c].head].epoch = account'[c].epoch
    BY DEF AccountIntact
  <2>1. CASE c = a
    <3>1. Balance(account[c].head)' = NewBalance(h)
      BY <1>1, <1>6, <1>7, <2>1, AcceptedBalance, ZenonT(30) DEF Balance
    <3> QED
      BY <1>3, <1>6, <1>7, <2>1, <3>1, Zenon
  <2>2. CASE c # a
    <3>1. account'[c] = account[c] /\ account[c].head \in Stored
      BY <1>6, <2>2, Zenon DEF ChainInv, AccountIntact
    <3>2. account[c].head # Previous(h)
      <4>1. block[account[c].head].account = c /\ account[c].head \in Hash
        BY <3>1, Zenon DEF ChainInv, AccountIntact, Stored
      <4>2. account[a] # None => block[account[a].head].account = a
        BY <1>2, Zenon DEF ChainInv, AccountIntact
      <4> QED
        BY <1>2, <2>2, <4>1, <4>2
    <3>3. Balance(account[c].head)' = Balance(account[c].head)
      BY <1>4, <3>1, Zenon DEF Balance
    <3> QED
      BY <1>3, <1>4, <1>6, <2>2, <3>1, <3>2, <3>3, SMTT(30) DEF ChainInv, AccountIntact
  <2> QED
    BY <2>1, <2>2, Zenon
<1>12. ChainIntact'
  <2> SUFFICES ASSUME NEW x \in Stored'
               PROVE  /\ account'[block'[x].account] # None
                      /\ block'[x].successor = Zero => account'[block'[x].account].head = x
                      /\ Previous(x) = Zero => block'[x].height = 1
                      /\ (Previous(x) # Zero /\ Previous(x) \notin pruned') =>
                            /\ Previous(x) \in Stored'
                            /\ block'[Previous(x)].account = block'[x].account
                            /\ block'[Previous(x)].successor = x
                            /\ block'[x].height = block'[Previous(x)].height + 1
    BY Zenon DEF ChainIntact
  <2>1. CASE x = h
    <3>1. CASE account[a] = None
      BY <1>2, <1>6, <1>7, <1>8, <2>1, <3>1, Zenon
    <3>2. CASE account[a] # None
      <4>1. /\ Previous(h) \in Stored /\ block[Previous(h)].account = a
            /\ block[Previous(h)].height = account[a].blockCount
        BY <1>2, <3>2, Zenon DEF ChainInv, AccountIntact
      <4> QED
        BY <1>2, <1>3, <1>4, <1>6, <1>7, <1>8, <2>1, <3>2, <4>1, Zenon
    <3> QED
      BY <3>1, <3>2, Zenon
  <2>2. CASE x # h
    <3>1. x \in Stored
      BY <1>3, <2>2
    <3>2. account'[block'[x].account] # None
      BY <1>4, <1>6, <1>9, <3>1, SMTT(30) DEF ChainInv, ChainIntact
    <3>3. ASSUME block'[x].successor = Zero
          PROVE  account'[block'[x].account].head = x
      <4>1. x # Previous(h) /\ block[x].successor = Zero
        BY <1>4, <3>1, <3>3
      <4>2. account[block[x].account] # None /\ account[block[x].account].head = x
        BY <3>1, <4>1, Zenon DEF ChainInv, ChainIntact
      <4>3. block[x].account # a
        BY <1>2, <4>1, <4>2
      <4> QED
        BY <1>4, <1>6, <1>9, <3>1, <4>2, <4>3
    <3>4. Previous(x) = Zero => block'[x].height = 1
      BY <1>4, <3>1, Zenon DEF ChainInv, ChainIntact
    <3>5. ASSUME Previous(x) # Zero, Previous(x) \notin pruned'
          PROVE  /\ Previous(x) \in Stored'
                 /\ block'[Previous(x)].account = block'[x].account
                 /\ block'[Previous(x)].successor = x
                 /\ block'[x].height = block'[Previous(x)].height + 1
      <4>1. /\ Previous(x) \in Stored
            /\ block[Previous(x)].account = block[x].account
            /\ block[Previous(x)].successor = x
            /\ block[x].height = block[Previous(x)].height + 1
        BY <1>1, <3>1, <3>5, Zenon DEF ChainInv, ChainIntact
      <4>2. Previous(x) # Previous(h)
        <5>1. ASSUME Previous(x) = Previous(h) PROVE FALSE
          <6>1. account[a] # None /\ Previous(h) = account[a].head
            BY <1>2, <3>5, <5>1
          <6>2. block[Previous(h)].successor = Zero
            BY <1>2, <6>1, Zenon DEF ChainInv, AccountIntact
          <6> QED
            BY <3>1, <4>1, <5>1, <6>2, <1>4
        <5> QED
          BY <5>1
      <4> QED
        BY <1>3, <1>4, <3>1, <4>1, <4>2, Zenon
    <3> QED
      BY <3>2, <3>3, <3>4, <3>5, Zenon
  <2> QED
    BY <2>1, <2>2, Zenon
<1>13. NoFork'
  <2> SUFFICES ASSUME NEW x \in Stored, Root(x) = Root(h) PROVE FALSE
    BY <1>3 DEF NoFork, ChainInv
  <2>1. Previous(x) \in Hash \cup {Zero} /\ Block[x].account \in Account \cup {Zero}
    BY BlockContent DEF Stored
  <2>2. CASE account[a] = None
    <3>1. Previous(x) = Zero /\ Block[x].account = a
      BY <1>2, <2>1, <2>2, Disjoint, Zenon DEF Root
    <3> QED
      BY <2>2, <3>1, Zenon DEF ChainInv, OpensOwnAccount, ChainIntact
  <2>3. CASE account[a] # None
    <3>1. Previous(h) \in Hash /\ Previous(h) \in Stored /\ Previous(h) \notin pruned
      BY <1>2, <2>3, Zenon DEF Stored, ChainInv, PrunedGone
    <3>2. Previous(x) = Previous(h)
      <4>1. Previous(x) = Zero => block[x].account = Block[x].account
        BY DEF ChainInv, OpensOwnAccount
      <4> QED
        BY <1>9, <2>1, <3>1, <4>1, Disjoint DEF Root
    <3>3. block[Previous(h)].successor = x
      BY <3>1, <3>2, SMTT(30) DEF ChainInv, ChainIntact
    <3>4. block[Previous(h)].successor = Zero
      BY <1>2, <2>3, Zenon DEF ChainInv, AccountIntact
    <3> QED
      BY <1>4, <3>3, <3>4
  <2> QED
    BY <2>2, <2>3
<1>14. \A x \in Stored : block[x].account = a =>
          /\ account[a] # None
          /\ block[x].height <= account[a].blockCount
  BY Zenon DEF ChainInv, ChainIntact, HeightBound
<1>15. HeightUnique'
  <2>1. \A x \in Stored : block'[x].account = block'[h].account =>
           block'[x].height # block'[h].height
    BY <1>4, <1>7, <1>8, <1>9, <1>14, SMTT(30)
  <2>2. \A x, y \in Stored : block'[x].account = block'[y].account
           /\ block'[x].height = block'[y].height => x = y
    BY <1>4 DEF ChainInv, HeightUnique
  <2> QED
    BY <1>3, <2>1, <2>2 DEF HeightUnique
<1>16. HeightBound'
  <2>1. 1 <= block'[h].height /\ block'[h].height <= account'[block'[h].account].blockCount
    BY <1>6, <1>7, <1>8, SMTT(30)
  <2>2. ASSUME NEW x \in Stored
        PROVE  1 <= block'[x].height /\ block'[x].height <= account'[block'[x].account].blockCount
    <3>1. 1 <= block[x].height /\ block[x].height <= account[block[x].account].blockCount
      BY DEF ChainInv, HeightBound
    <3>2. CASE block[x].account = a
      BY <1>4, <1>6, <1>8, <1>9, <1>14, <3>1, <3>2, SMTT(30)
    <3>3. CASE block[x].account # a
      BY <1>4, <1>6, <1>9, <3>1, <3>3
    <3> QED
      BY <3>2, <3>3
  <2> QED
    BY <1>3, <2>1, <2>2 DEF HeightBound
<1>17. PrunedGone'
  BY <1>1, <1>2, <1>3, Zenon DEF ChainInv, PrunedGone
<1>18. OpensOwnAccount'
  BY <1>2, <1>3, <1>4, <1>7, ZenonT(60) DEF ChainInv, OpensOwnAccount
<1>19. FrontierBound'
  <2> SUFFICES ASSUME NEW c \in Account
               PROVE  /\ account'[c] = None => confirmation[c].height = 0
                      /\ account'[c] # None => confirmation[c].height <= account'[c].blockCount
    BY <1>1 DEF FrontierBound
  <2>1. confirmation[c].height \in Nat
    BY DEF ChainInv, TypeOK, ConfirmationHeightInfo
  <2> QED
    BY <1>2, <1>6, <1>8, <2>1, SMTT(30) DEF ChainInv, FrontierBound
<1>20. \A x \in Stored : Confirmed(x)' <=> Confirmed(x)
  BY <1>1, <1>3, <1>4 DEF Confirmed
<1>21. PrunedBelow'
  <2>1. Previous(h) \notin pruned
    BY <1>2 DEF ChainInv, PrunedGone, TypeOK
  <2> QED
    BY <1>1, <1>3, <1>20, <2>1 DEF ChainInv, PrunedBelow
<1>22. PruneCursor'
  BY <1>1, <1>3, <1>4 DEF ChainInv, PruneCursor
<1> QED
  BY <1>10, <1>11, <1>12, <1>13, <1>15, <1>16, <1>17, <1>18, <1>19, <1>21, <1>22 DEF ChainInv

-----------------------------------------------------------------------------
(* Removing the head of an account                                         *)

(* Neighbouring naturals.                                                  *)
LEMMA Neighbours ==
    /\ \A m, n \in Nat : m <= n /\ m # n => m < n
    /\ \A m, n \in Nat : ~(m <= n) => n < m
    /\ \A m, n \in Nat : m < n => m <= n - 1
    /\ \A m, n \in Nat : n = m + 1 => m = n - 1
    /\ \A n \in Nat : 1 <= n /\ n <= 1 => n = 1
    /\ \A n \in Nat : n < 1 => n = 0
OBVIOUS

(* A non-empty set of naturals has a least element.                        *)
LEMMA LeastNatural ==
    ASSUME NEW T, T \subseteq Nat, T # {}
    PROVE  \E x \in T : \A y \in T : x <= y
<1>1. PICK x \in T : \A y \in T : ~(<<y, x>> \in OpToRel(<, Nat))
  BY NatLessThanWellFounded, WFMin, Zenon
<1>2. ASSUME NEW y \in T PROVE x <= y
  <2>1. x \in Nat /\ y \in Nat /\ ~(<<y, x>> \in OpToRel(<, Nat))
    BY <1>1, Zenon
  <2> QED
    BY <2>1 DEF OpToRel
<1> QED
  BY <1>1, <1>2, Zenon

(* find_rep_block returns a stored block that names a representative.      *)
LEMMA RepresentativeBlockFound ==
    ASSUME ChainInv, NEW h \in Hash
    PROVE  RepresentativeBlock(h) # Zero => RepresentativeBlock(h) \in Stored
<1> USE Numbers
<1> DEFINE named == {x \in Stored : /\ HasRepresentative(x)
                                    /\ block[x].account = block[h].account
                                    /\ block[x].height <= block[h].height
                                    /\ Unbroken(block[h].account, block[x].height, block[h].height)}
           Above(x) == block[h].height - block[x].height
           T == {Above(x) : x \in named}
<1>1. SUFFICES ASSUME h \in Stored, named # {}
               PROVE  \E x \in named : \A y \in named : block[y].height <= block[x].height
  BY Zenon DEF RepresentativeBlock
<1>2. \A x \in Stored : block[x].height \in Nat
  BY DEF ChainInv, TypeOK, Stored, Sideband
<1>3. \A x \in named : x \in Stored /\ Above(x) \in Nat
  BY <1>1, <1>2
<1>4. T # {} /\ T \subseteq Nat
  BY <1>1, <1>3, Zenon
<1> HIDE DEF T
<1>5. PICK n \in T : \A k \in T : n <= k
  BY <1>4, LeastNatural, Zenon
<1>6. PICK x \in named : n = Above(x)
  BY <1>5, Zenon DEF T
<1>7. \A y \in named : Above(x) <= Above(y)
  BY <1>5, <1>6, Zenon DEF T
<1>8. \A y \in named : block[y].height <= block[x].height
  BY <1>1, <1>2, <1>3, <1>7, SMTT(20)
<1> QED
  BY <1>8, Zenon

(* The block a rollback removes is the head of its account and not         *)
(* cemented.                                                               *)
LEMMA RemovableHead ==
    ASSUME ChainInv, NEW t \in Stored, ~PlanFails(HeadOf(t))
    PROVE  LET h == HeadOf(t)
               a == block[h].account
           IN  /\ h \in Stored /\ h \in Hash /\ a \in Account
               /\ account[a] # None /\ account[a] \in AccountInfo
               /\ account[a].head = h /\ account[a].blockCount = block[h].height
               /\ block[h].successor = Zero
               /\ Previous(h) # Zero => Previous(h) \in Stored /\ Previous(h) \notin pruned
               /\ confirmation[a].height < block[h].height
<1> USE Numbers
<1> DEFINE b == block[t].account
<1>1. b \in Account /\ account[b] # None /\ account[b] \in AccountInfo
  BY SMTT(30) DEF ChainInv, ChainIntact, TypeOK, Stored, Sideband
<1>2. /\ HeadOf(t) = account[b].head /\ HeadOf(t) \in Stored
      /\ block[HeadOf(t)].account = b
      /\ account[b].blockCount = block[HeadOf(t)].height
      /\ block[HeadOf(t)].successor = Zero
  BY <1>1, Zenon DEF ChainInv, AccountIntact, HeadOf
<1>3. HeadOf(t) \in Hash /\ block[HeadOf(t)].height \in Nat /\ confirmation[b].height \in Nat
  BY <1>1, <1>2, Zenon DEF ChainInv, TypeOK, Stored, Sideband, ConfirmationHeightInfo
<1>4. /\ Previous(HeadOf(t)) # Zero => Previous(HeadOf(t)) \in Stored
      /\ ~(block[HeadOf(t)].height <= confirmation[b].height)
  BY <1>2, Zenon DEF PlanFails
<1>5. Previous(HeadOf(t)) \in Stored => Previous(HeadOf(t)) \notin pruned
  BY DEF ChainInv, PrunedGone
<1>6. confirmation[b].height < block[HeadOf(t)].height
  BY <1>3, <1>4, Neighbours, Zenon
<1> QED
  BY <1>1, <1>2, <1>3, <1>4, <1>5, <1>6, Zenon

(* What Remove does to the block and account tables.                       *)
LEMMA RemovedBlocks ==
    ASSUME ChainInv, NEW h \in Stored, Remove(h),
           account[block[h].account] \in AccountInfo,
           account[block[h].account].blockCount = block[h].height,
           Previous(h) # Zero => Previous(h) \in Stored /\ Previous(h) \notin pruned
    PROVE  /\ block' \in [Hash -> Sideband \cup {None}]
           /\ Stored' = Stored \ {h}
           /\ \A x \in Stored' :
                 /\ block'[x].account = block[x].account
                 /\ block'[x].height = block[x].height
                 /\ block'[x].balance = block[x].balance
                 /\ block'[x].epoch = block[x].epoch
                 /\ block'[x].isSend = block[x].isSend
                 /\ block'[x].successor =
                       IF x = Previous(h) THEN Zero ELSE block[x].successor
           /\ Previous(h) = Zero => PreviousAccountInfo(h) = None
           /\ Previous(h) # Zero => PreviousAccountInfo(h) \in AccountInfo
<1> USE Numbers
<1>1. block' = DelBlock(h)
  BY DEF Remove
<1>2. block \in [Hash -> Sideband \cup {None}] /\ h \in Hash
  BY DEF ChainInv, TypeOK, Stored
<1>3. block'[h] = None
  BY <1>1, <1>2 DEF DelBlock
<1>4. ASSUME NEW x \in Hash, x # h, x # Previous(h)
      PROVE  block'[x] = block[x]
  BY <1>1, <1>4 DEF DelBlock
<1>5. ASSUME NEW x \in Hash, x # h, x = Previous(h)
      PROVE  /\ x \in Stored /\ block[x] \in Sideband
             /\ block'[x] = [block[x] EXCEPT !.successor = Zero]
             /\ block'[x] \in Sideband
  <2>1. x \in Stored /\ block[x] \in Sideband
    BY <1>2, <1>5 DEF Stored
  <2>2. block'[x] = [block[x] EXCEPT !.successor = Zero]
    BY <1>1, <1>5 DEF DelBlock
  <2> QED
    BY <2>1, <2>2 DEF Sideband
<1>6. block' \in [Hash -> Sideband \cup {None}]
  <2>1. DOMAIN block' = Hash /\ block' = [x \in Hash |-> block'[x]]
    BY <1>1 DEF DelBlock
  <2>2. \A x \in Hash : block'[x] \in Sideband \cup {None}
    BY <1>2, <1>3, <1>4, <1>5, Zenon
  <2> QED
    BY <2>1, <2>2
<1>7. Stored' = Stored \ {h}
  <2>1. \A x \in Hash : block'[x] # None <=> (block[x] # None /\ x # h)
    BY <1>3, <1>4, <1>5, Zenon DEF Stored
  <2> QED
    BY <2>1 DEF Stored
<1>8. ASSUME NEW x \in Stored'
      PROVE  /\ block'[x].account = block[x].account
             /\ block'[x].height = block[x].height
             /\ block'[x].balance = block[x].balance
             /\ block'[x].epoch = block[x].epoch
             /\ block'[x].isSend = block[x].isSend
             /\ block'[x].successor = IF x = Previous(h) THEN Zero ELSE block[x].successor
  <2>1. x \in Hash /\ x # h
    BY <1>7 DEF Stored
  <2>2. CASE x = Previous(h)
    <3>1. block[x] \in Sideband /\ block'[x] = [block[x] EXCEPT !.successor = Zero]
      BY <1>5, <2>1, <2>2
    <3>2. /\ block'[x].account = block[x].account
          /\ block'[x].height = block[x].height
          /\ block'[x].balance = block[x].balance
          /\ block'[x].epoch = block[x].epoch
          /\ block'[x].successor = Zero
      BY <3>1 DEF Sideband
    <3>3. block'[x].isSend = block[x].isSend
      BY <3>1 DEF Sideband
    <3> QED
      BY <2>2, <3>2, <3>3, Zenon
  <2>3. CASE x # Previous(h)
    BY <1>4, <2>1, <2>3, Zenon
  <2> QED
    BY <2>2, <2>3, Zenon
<1>9. Previous(h) = Zero => PreviousAccountInfo(h) = None
  BY Zenon DEF PreviousAccountInfo
<1>10. ASSUME Previous(h) # Zero PROVE PreviousAccountInfo(h) \in AccountInfo
  <2> DEFINE info == account[block[h].account]
             rb == RepresentativeBlock(Previous(h))
  <2>1. Previous(h) \in Stored /\ Previous(h) \in Hash /\ block[Previous(h)] \in Sideband
    BY <1>2, <1>10 DEF Stored
  <2>2. rb # Zero => Block[rb].rep \in Account \cup {Zero}
    BY <2>1, RepresentativeBlockFound, BlockContent, Zenon DEF Stored
  <2>3. (IF rb = Zero THEN info.rep ELSE Block[rb].rep) \in Account \cup {Zero}
    BY <1>2, <2>2, Zenon DEF AccountInfo
  <2>4. BalanceBefore(h) \in Nat
    <3>1. Block[Previous(h)].balance \in Nat
      BY <2>1, BlockContent, Zenon
    <3> QED
      BY <2>1, <3>1 DEF BalanceBefore, Balance, Sideband
  <2>5. info.blockCount - 1 \in Nat
    BY <1>2, SMTT(30) DEF ChainInv, HeightBound, AccountInfo
  <2>6. block[Previous(h)].epoch \in Epoch /\ info.open \in Hash
    BY <2>1 DEF Sideband, AccountInfo
  <2> HIDE DEF info, rb
  <2>7. PreviousAccountInfo(h) =
           [head |-> Previous(h), rep |-> IF rb = Zero THEN info.rep ELSE Block[rb].rep,
            open |-> info.open, balance |-> BalanceBefore(h),
            blockCount |-> info.blockCount - 1, epoch |-> block[Previous(h)].epoch]
    BY <1>10, Zenon DEF PreviousAccountInfo, info, rb
  <2> QED
    BY <2>1, <2>3, <2>4, <2>5, <2>6, <2>7, SMTT(30) DEF AccountInfo
<1> QED
  BY <1>6, <1>7, <1>8, <1>9, <1>10, Zenon

(* Removing the head of an account keeps the chains intact.                *)
LEMMA RemoveInv ==
    ASSUME ChainInv, NEW t \in Stored, ~PlanFails(HeadOf(t)), Remove(HeadOf(t)),
           UNCHANGED <<rollback, prune>>
    PROVE  ChainInv'
<1> USE Numbers
<1> DEFINE h == HeadOf(t)
           a == block[h].account
<1>1. /\ h \in Stored /\ h \in Hash /\ a \in Account
      /\ account[a] # None /\ account[a] \in AccountInfo
      /\ account[a].head = h /\ account[a].blockCount = block[h].height
      /\ block[h].successor = Zero
      /\ Previous(h) # Zero => Previous(h) \in Stored /\ Previous(h) \notin pruned
      /\ confirmation[a].height < block[h].height
  BY RemovableHead, Zenon
<1>2. /\ Remove(h) /\ confirmation' = confirmation /\ pruned' = pruned
      /\ rollback' = rollback /\ prune' = prune
      /\ account' = [account EXCEPT ![a] = PreviousAccountInfo(h)]
  BY DEF Remove
<1> HIDE DEF h
<1>3. /\ block' \in [Hash -> Sideband \cup {None}] /\ Stored' = Stored \ {h}
      /\ Previous(h) = Zero => PreviousAccountInfo(h) = None
      /\ Previous(h) # Zero => PreviousAccountInfo(h) \in AccountInfo
  BY <1>1, <1>2, RemovedBlocks, Zenon
<1>4. ASSUME NEW x \in Stored'
      PROVE  /\ x \in Stored /\ x \in Hash /\ x # h
             /\ block'[x].account = block[x].account
             /\ block'[x].height = block[x].height
             /\ block'[x].balance = block[x].balance
             /\ block'[x].epoch = block[x].epoch
             /\ block'[x].successor = IF x = Previous(h) THEN Zero ELSE block[x].successor
  <2>1. x \in Stored /\ x \in Hash /\ x # h
    BY <1>3 DEF Stored
  <2> QED
    BY <1>1, <1>2, <2>1, RemovedBlocks, Zenon
<1>5. /\ account'[a] = PreviousAccountInfo(h)
      /\ \A c \in Account : c # a => account'[c] = account[c]
      /\ account \in [Account -> AccountInfo \cup {None}]
  BY <1>1, <1>2, Zenon DEF ChainInv, TypeOK
<1>6. \A x \in Stored : /\ block[x].account \in Account /\ block[x].height \in Nat
                        /\ x \in Hash /\ block[x] \in Sideband
  BY DEF ChainInv, TypeOK, Stored, Sideband
<1>7. Previous(h) # Zero =>
         /\ PreviousAccountInfo(h) # None
         /\ PreviousAccountInfo(h).head = Previous(h)
         /\ PreviousAccountInfo(h).balance = BalanceBefore(h)
         /\ PreviousAccountInfo(h).blockCount = block[h].height - 1
         /\ PreviousAccountInfo(h).epoch = block[Previous(h)].epoch
  BY <1>1, <1>3, Zenon DEF PreviousAccountInfo
<1>8. Previous(h) # Zero =>
         /\ Previous(h) \in Stored' /\ Previous(h) # h
         /\ block[Previous(h)].account = a
         /\ block[h].height = block[Previous(h)].height + 1
  <2>1. Previous(h) # Zero =>
           /\ Previous(h) \in Stored
           /\ block[Previous(h)].account = a
           /\ block[Previous(h)].successor = h
           /\ block[h].height = block[Previous(h)].height + 1
    BY <1>1, Zenon DEF ChainInv, ChainIntact
  <2> QED
    BY <1>1, <1>3, <1>6, <2>1, Zenon
<1>9. Previous(h) = Zero => \A x \in Stored' : block[x].account # a
  <2>1. ASSUME Previous(h) = Zero, NEW x \in Stored', block[x].account = a PROVE FALSE
    <3>1. block[h].height = 1
      BY <1>1, <2>1, Zenon DEF ChainInv, ChainIntact
    <3>2. 1 <= block[x].height /\ block[x].height <= account[a].blockCount
      BY <1>4, <2>1, Zenon DEF ChainInv, HeightBound
    <3>3. x = h
      <4>1. x \in Stored /\ block[x].height \in Nat /\ block[x].height <= 1
        BY <1>1, <1>4, <1>6, <3>1, <3>2, Zenon
      <4>2. block[x].height = block[h].height
        BY <3>1, <3>2, <4>1, Neighbours, Zenon
      <4> QED
        BY <1>1, <2>1, <4>1, <4>2, Zenon DEF ChainInv, HeightUnique
    <3> QED
      BY <1>4, <2>1, <3>3
  <2> QED
    BY <2>1
<1>10. \A x \in Stored' : block[x].account = a => block[x].height < block[h].height
  <2> SUFFICES ASSUME NEW x \in Stored', block[x].account = a
               PROVE  block[x].height < block[h].height
    OBVIOUS
  <2>1. x \in Stored /\ x # h /\ block[x].height \in Nat /\ block[h].height \in Nat
    BY <1>1, <1>4, <1>6, Zenon
  <2>2. block[x].height <= block[h].height
    BY <1>1, <2>1, Zenon DEF ChainInv, HeightBound
  <2>3. block[x].height # block[h].height
    BY <1>1, <2>1, Zenon DEF ChainInv, HeightUnique
  <2> QED
    BY <2>1, <2>2, <2>3, Neighbours, Zenon
<1>11. TypeOK'
  <2>1. RollsBackReceive(h) => RestoredPending(h) \in PendingEntry
    <3>1. SourceOrLink(h) \in Hash \cup Account \cup {Zero}
      BY <1>1, BlockContent, Zenon
    <3>2. HeadBalance(h) \in Nat
      BY <1>1, Zenon DEF HeadBalance, AccountInfo
    <3>3. BalanceBefore(h) \in Nat
      <4>1. CASE Previous(h) \in Stored
        <5>1. Block[Previous(h)].balance \in Nat
          BY <4>1, BlockContent DEF Stored
        <5> QED
          BY <1>6, <4>1, <5>1, Zenon DEF BalanceBefore, Balance, Sideband
      <4>2. CASE Previous(h) \notin Stored
        BY <4>2 DEF BalanceBefore
      <4> QED
        BY <4>1, <4>2
    <3>4. (IF SourceOrLink(h) \in Stored THEN block[SourceOrLink(h)].account ELSE Zero)
             \in Account \cup {Zero}
      BY <1>6
    <3>5. block[h].sourceEpoch \in Epoch
      BY <1>1, <1>6, Zenon DEF Sideband
    <3>6. RollsBackReceive(h) => HeadBalance(h) - BalanceBefore(h) \in Nat
      BY <3>2, <3>3 DEF RollsBackReceive
    <3> QED
      BY <1>1, <3>1, <3>4, <3>5, <3>6, Zenon DEF RestoredPending, PendingEntry
  <2>2. pending' \subseteq PendingEntry
    BY <1>2, <2>1 DEF Remove, PutPending, ChainInv, TypeOK
  <2>3. account' \in [Account -> AccountInfo \cup {None}]
    BY <1>2, <1>3, <1>5, Zenon
  <2> QED
    BY <1>2, <1>3, <2>2, <2>3, Zenon DEF ChainInv, TypeOK
<1>12. AccountIntact'
  <2> SUFFICES ASSUME NEW c \in Account, account'[c] # None
               PROVE  /\ account'[c].head \in Stored'
                      /\ block'[account'[c].head].account = c
                      /\ block'[account'[c].head].height = account'[c].blockCount
                      /\ Balance(account[c].head)' = account'[c].balance
                      /\ block'[account'[c].head].successor = Zero
                      /\ block'[account'[c].head].epoch = account'[c].epoch
    BY Zenon DEF AccountIntact
  <2>1. CASE c = a
    <3>1. Previous(h) # Zero
      BY <1>3, <1>5, <2>1, Zenon
    <3>2. Balance(account[c].head)' = BalanceBefore(h)
      BY <1>4, <1>5, <1>7, <1>8, <2>1, <3>1, Zenon DEF Balance, BalanceBefore
    <3>3. block[Previous(h)].height = block[h].height - 1
      <4>1. block[Previous(h)].height \in Nat /\ block[h].height \in Nat
        BY <1>1, <1>4, <1>6, <1>8, <3>1, Zenon
      <4> QED
        BY <1>8, <3>1, <4>1, Neighbours, Zenon
    <3>4. /\ account'[c].head = Previous(h) /\ account'[c].balance = BalanceBefore(h)
          /\ account'[c].blockCount = block[h].height - 1
          /\ account'[c].epoch = block[Previous(h)].epoch
      BY <1>5, <1>7, <2>1, <3>1, Zenon
    <3>5. /\ block'[Previous(h)].account = a /\ block'[Previous(h)].successor = Zero
          /\ block'[Previous(h)].height = block[Previous(h)].height
          /\ block'[Previous(h)].epoch = block[Previous(h)].epoch
      BY <1>4, <1>8, <3>1, Zenon
    <3> QED
      BY <1>8, <2>1, <3>1, <3>2, <3>3, <3>4, <3>5, Zenon
  <2>2. CASE c # a
    <3>1. /\ account'[c] = account[c] /\ account[c].head \in Stored
          /\ block[account[c].head].account = c
      BY <1>5, <2>2, Zenon DEF ChainInv, AccountIntact
    <3>2. account[c].head \in Stored' /\ account[c].head # Previous(h)
      BY <1>3, <1>8, <2>2, <3>1, <1>6, Zenon
    <3>3. Balance(account[c].head)' = Balance(account[c].head)
      BY <1>4, <3>1, <3>2, Zenon DEF Balance
    <3>4. /\ block[account[c].head].height = account[c].blockCount
          /\ Balance(account[c].head) = account[c].balance
          /\ block[account[c].head].successor = Zero
          /\ block[account[c].head].epoch = account[c].epoch
      BY <3>1, Zenon DEF ChainInv, AccountIntact
    <3>5. /\ block'[account[c].head].account = c
          /\ block'[account[c].head].height = account[c].blockCount
          /\ block'[account[c].head].successor = Zero
          /\ block'[account[c].head].epoch = account[c].epoch
      BY <1>4, <3>1, <3>2, <3>4, Zenon
    <3> QED
      BY <3>1, <3>2, <3>3, <3>4, <3>5, Zenon
  <2> QED
    BY <2>1, <2>2, Zenon
<1>13. ChainIntact'
  <2> SUFFICES ASSUME NEW x \in Stored'
               PROVE  /\ account'[block'[x].account] # None
                      /\ block'[x].successor = Zero => account'[block'[x].account].head = x
                      /\ Previous(x) = Zero => block'[x].height = 1
                      /\ (Previous(x) # Zero /\ Previous(x) \notin pruned') =>
                            /\ Previous(x) \in Stored'
                            /\ block'[Previous(x)].account = block'[x].account
                            /\ block'[Previous(x)].successor = x
                            /\ block'[x].height = block'[Previous(x)].height + 1
    BY Zenon DEF ChainIntact
  <2>1. account'[block'[x].account] # None
    <3>1. x \in Stored /\ block'[x].account = block[x].account /\ block[x].account \in Account
      BY <1>4, <1>6, Zenon
    <3>2. account'[block[x].account] # None
      <4>1. CASE block[x].account = a
        <5>1. Previous(h) # Zero
          BY <1>9, <4>1, Zenon
        <5>2. account'[a] # None
          BY <1>5, <1>7, <5>1, Zenon
        <5> QED
          BY <4>1, <5>2, Zenon
      <4>2. CASE block[x].account # a
        <5>1. account[block[x].account] # None
          BY <3>1, Zenon DEF ChainInv, ChainIntact
        <5> QED
          BY <1>5, <3>1, <4>2, <5>1, Zenon
      <4> QED
        BY <4>1, <4>2, Zenon
    <3> QED
      BY <3>1, <3>2, Zenon
  <2>2. ASSUME block'[x].successor = Zero PROVE account'[block'[x].account].head = x
    <3>1. CASE x = Previous(h)
      <4>1. Previous(h) # Zero
        BY <1>4, <3>1
      <4> QED
        BY <1>4, <1>5, <1>7, <1>8, <3>1, <4>1, ZenonT(30)
    <3>2. CASE x # Previous(h)
      <4>1. block[x].successor = Zero /\ account[block[x].account].head = x
        BY <1>4, <2>2, <3>2, Zenon DEF ChainInv, ChainIntact
      <4>2. block[x].account # a
        <5>1. x # h
          BY <1>4, Zenon
        <5> QED
          BY <1>1, <4>1, <5>1, Zenon
      <4>3. block'[x].account = block[x].account /\ block[x].account \in Account
        BY <1>4, <1>6, Zenon
      <4> QED
        BY <1>5, <4>1, <4>2, <4>3, Zenon
    <3> QED
      BY <3>1, <3>2, Zenon
  <2>3. Previous(x) = Zero => block'[x].height = 1
    BY <1>4, Zenon DEF ChainInv, ChainIntact
  <2>4. ASSUME Previous(x) # Zero, Previous(x) \notin pruned'
        PROVE  /\ Previous(x) \in Stored'
               /\ block'[Previous(x)].account = block'[x].account
               /\ block'[Previous(x)].successor = x
               /\ block'[x].height = block'[Previous(x)].height + 1
    <3>1. /\ Previous(x) \in Stored
          /\ block[Previous(x)].account = block[x].account
          /\ block[Previous(x)].successor = x
          /\ block[x].height = block[Previous(x)].height + 1
      BY <1>2, <1>4, <2>4, Zenon DEF ChainInv, ChainIntact
    <3>2. Previous(x) # h
      BY <1>1, <1>4, <3>1, Zenon
    <3>3. Previous(x) # Previous(h)
      <4>1. x # h
        BY <1>4, Zenon
      <4>2. Previous(h) # Zero => block[Previous(h)].successor = h
        BY <1>1, Zenon DEF ChainInv, ChainIntact
      <4> QED
        BY <2>4, <3>1, <4>1, <4>2, Zenon
    <3> QED
      BY <1>3, <1>4, <3>1, <3>2, <3>3, Zenon
  <2> QED
    BY <2>1, <2>2, <2>3, <2>4, Zenon
<1>14. NoFork'
  BY <1>4, Zenon DEF ChainInv, NoFork
<1>15. HeightUnique'
  BY <1>4, SMTT(30) DEF ChainInv, HeightUnique
<1>16. HeightBound'
  <2> SUFFICES ASSUME NEW x \in Stored'
               PROVE  /\ 1 <= block'[x].height
                      /\ block'[x].height <= account'[block'[x].account].blockCount
    BY DEF HeightBound
  <2>1. 1 <= block[x].height /\ block[x].height <= account[block[x].account].blockCount
    BY <1>4, Zenon DEF ChainInv, HeightBound
  <2>2. CASE block[x].account = a
    <3>1. block'[x].height = block[x].height /\ block'[x].account = a
      BY <1>4, <2>2, Zenon
    <3>2. account'[a].blockCount = block[h].height - 1
      BY <1>5, <1>7, <1>9, <2>2, Zenon
    <3>3. block[x].height \in Nat /\ block[h].height \in Nat /\ block[x].height < block[h].height
      BY <1>1, <1>4, <1>6, <1>10, <2>2, Zenon
    <3>4. block[x].height <= block[h].height - 1
      BY <3>3, Neighbours, Zenon
    <3> QED
      BY <2>1, <3>1, <3>2, <3>4, Zenon
  <2>3. CASE block[x].account # a
    BY <1>4, <1>5, <1>6, <2>1, <2>3, Zenon
  <2> QED
    BY <2>2, <2>3, Zenon
<1>17. PrunedGone' /\ OpensOwnAccount'
  BY <1>2, <1>4, Zenon DEF ChainInv, PrunedGone, OpensOwnAccount
<1>18. FrontierBound'
  <2> SUFFICES ASSUME NEW c \in Account
               PROVE  /\ account'[c] = None => confirmation[c].height = 0
                      /\ account'[c] # None => confirmation[c].height <= account'[c].blockCount
    BY <1>2, Zenon DEF FrontierBound
  <2>1. confirmation[c].height \in Nat
    BY DEF ChainInv, TypeOK, ConfirmationHeightInfo
  <2>2. CASE c # a
    BY <1>5, <2>2, Zenon DEF ChainInv, FrontierBound
  <2>3. CASE c = a /\ Previous(h) = Zero
    <3>1. block[h].height = 1
      BY <1>1, <2>3, Zenon DEF ChainInv, ChainIntact
    <3> QED
      BY <1>1, <1>3, <1>5, <2>1, <2>3, <3>1, Neighbours, Zenon
  <2>4. CASE c = a /\ Previous(h) # Zero
    <3>1. account'[c].blockCount = block[h].height - 1 /\ account'[c] # None
      BY <1>5, <1>7, <2>4, Zenon
    <3>2. confirmation[c].height < block[h].height /\ block[h].height \in Nat
      BY <1>1, <1>6, <2>4, Zenon
    <3>3. confirmation[c].height <= block[h].height - 1
      BY <2>1, <3>2, Neighbours, Zenon
    <3> QED
      BY <3>1, <3>3, Zenon
  <2> QED
    BY <2>2, <2>3, <2>4, Zenon
<1>19. \A x \in Stored' : Confirmed(x)' <=> Confirmed(x)
  BY <1>2, <1>4, Zenon DEF Confirmed
<1>20. PrunedBelow'
  BY <1>2, <1>4, <1>19, Zenon DEF ChainInv, PrunedBelow
<1>21. PruneCursor'
  <2> SUFFICES ASSUME prune # Zero, prune \notin pruned
               PROVE  /\ prune \in Stored'
                      /\ block'[prune].height < confirmation[block'[prune].account].height
    BY <1>2, Zenon DEF PruneCursor
  <2>1. prune \in Stored /\ block[prune].height < confirmation[block[prune].account].height
    BY Zenon DEF ChainInv, PruneCursor
  <2>2. confirmation[a].height \in Nat /\ block[h].height \in Nat
    BY <1>1, <1>6, Zenon DEF ChainInv, TypeOK, ConfirmationHeightInfo
  <2>3. prune # h
    BY <1>1, <2>1, <2>2, SMTT(30)
  <2> QED
    BY <1>3, <1>4, <2>1, <2>3, Zenon
<1> QED
  BY <1>11, <1>12, <1>13, <1>14, <1>15, <1>16, <1>17, <1>18, <1>20, <1>21 DEF ChainInv
=============================================================================
