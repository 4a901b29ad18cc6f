---------------------------- MODULE LedgerProofs ----------------------------
(***************************************************************************)
(* Proofs that the ledger keeps every chain intact, that cementing is for  *)
(* ever, that a rollback gets what it was asked for and that no block      *)
(* loses what it depends on, for any set of blocks, accounts and epochs.   *)
(***************************************************************************)
EXTENDS LedgerChainProofs

(* Cementing moves the frontier of one account up, not past its head.      *)
LEMMA CementInv ==
    ASSUME ChainInv, NEW h \in Hash, Cement(h)
    PROVE  /\ ChainInv'
           /\ \A x \in Hash : Confirmed(x) => Confirmed(x)'
           /\ \A c \in Account : confirmation[c].height <= confirmation'[c].height
<1> USE Numbers
<1> DEFINE a == block[h].account
<1>1. /\ h \in Stored /\ a \in Account /\ block[h].height \in Nat
      /\ block' = block /\ account' = account /\ pending' = pending
      /\ pruned' = pruned /\ rollback' = rollback /\ prune' = prune
      /\ confirmation' = [confirmation EXCEPT ![a] = [height |-> block[h].height, frontier |-> h]]
  BY DEF Cement, ChainInv, TypeOK, Stored, Sideband
<1>2. Stored' = Stored
  BY <1>1 DEF Stored
<1>3. \A c \in Account : confirmation[c].height \in Nat
  BY DEF ChainInv, TypeOK, ConfirmationHeightInfo
<1>4. /\ confirmation'[a].height = block[h].height
      /\ \A c \in Account : c # a => confirmation'[c] = confirmation[c]
      /\ confirmation' \in [Account -> ConfirmationHeightInfo]
  BY <1>1 DEF ChainInv, TypeOK, ConfirmationHeightInfo
<1>5. \A c \in Account : confirmation[c].height <= confirmation'[c].height
  BY <1>1, <1>3, <1>4 DEF Cement, Confirmed
<1>6. \A x \in Stored : block[x].account \in Account /\ block[x].height \in Nat
  BY DEF ChainInv, TypeOK, Stored, Sideband
<1>7. \A c \in Account : confirmation'[c].height \in Nat
  BY <1>4 DEF ConfirmationHeightInfo
<1>8. \A x \in Hash : Confirmed(x) => Confirmed(x)'
  BY <1>1, <1>2, <1>3, <1>5, <1>6, <1>7 DEF Confirmed
<1>9. TypeOK'
  BY <1>1, <1>4 DEF ChainInv, TypeOK
<1>10. AccountIntact' /\ ChainIntact' /\ NoFork' /\ HeightUnique' /\ HeightBound'
  <2>1. /\ block' = block /\ account' = account /\ pruned' = pruned /\ Stored' = Stored
        /\ AccountIntact /\ ChainIntact /\ NoFork /\ HeightUnique /\ HeightBound
    BY <1>1, <1>2 DEF ChainInv
  <2>2. AccountIntact'
    BY <2>1, Zenon DEF AccountIntact, Balance
  <2>3. ChainIntact'
    BY <2>1, Zenon DEF ChainIntact
  <2>4. NoFork' /\ HeightUnique' /\ HeightBound'
    BY <2>1, Zenon DEF NoFork, HeightUnique, HeightBound
  <2> QED
    BY <2>2, <2>3, <2>4
<1>11. PrunedGone' /\ OpensOwnAccount'
  BY <1>1, <1>2 DEF ChainInv, PrunedGone, OpensOwnAccount
<1>12. FrontierBound'
  <2>1. h \in Stored /\ a \in Account /\ account' = account
    BY <1>1
  <2>2. account[a] # None /\ block[h].height <= account[a].blockCount
    BY <2>1, Zenon DEF ChainInv, ChainIntact, HeightBound
  <2>3. FrontierBound
    BY DEF ChainInv
  <2>4. ASSUME NEW c \in Account
        PROVE  /\ account'[c] = None => confirmation'[c].height = 0
               /\ account'[c] # None => confirmation'[c].height <= account'[c].blockCount
    <3>1. CASE c = a
      BY <1>4, <2>1, <2>2, <3>1, Zenon
    <3>2. CASE c # a
      BY <1>4, <2>1, <2>3, <3>2, Zenon DEF FrontierBound
    <3> QED
      BY <3>1, <3>2
  <2> QED
    BY <2>4, Zenon DEF FrontierBound
<1>13. PrunedBelow'
  <2>1. \A x \in Stored : x \in Hash
    BY DEF Stored
  <2> QED
    BY <1>1, <1>2, <1>8, <2>1 DEF ChainInv, PrunedBelow
<1>14. PruneCursor'
  <2>1. block' = block /\ prune' = prune /\ pruned' = pruned
    BY <1>1
  <2>2. CASE prune \in Stored /\ block[prune].height < confirmation[block[prune].account].height
    <3>1. block[prune].account \in Account /\ block[prune].height \in Nat
      BY <1>6, <2>2, Zenon
    <3>2. block[prune].height < confirmation'[block[prune].account].height
      <4> DEFINE c == block[prune].account
      <4>1. /\ confirmation[c].height \in Nat /\ confirmation'[c].height \in Nat
            /\ confirmation[c].height <= confirmation'[c].height
        BY <1>3, <1>5, <1>7, <3>1, Zenon
      <4>2. block[prune].height < confirmation[c].height
        BY <2>2
      <4> HIDE DEF c
      <4>3. block[prune].height < confirmation'[c].height
        BY <3>1, <4>1, <4>2
      <4> QED
        BY <4>3 DEF c
    <3> QED
      BY <1>2, <2>1, <2>2, <3>2, Zenon DEF PruneCursor
  <2>3. CASE prune = Zero \/ prune \in pruned
    BY <2>1, <2>3, Zenon DEF PruneCursor
  <2> QED
    BY <2>2, <2>3 DEF ChainInv, PruneCursor
<1> QED
  BY <1>5, <1>8, <1>9, <1>10, <1>11, <1>12, <1>13, <1>14 DEF ChainInv

(* Deleting the block under the cursor of pruning_action leaves the head   *)
(* and the cemented frontier in place.                                     *)
LEMMA PruneStepInv ==
    ASSUME ChainInv, PruneStep
    PROVE  /\ ChainInv'
           /\ \A x \in Hash : Confirmed(x) => (Confirmed(x) \/ x \in pruned)'
<1> USE Numbers
<1>1. /\ prune \in Stored /\ prune \in Hash
      /\ block' = [block EXCEPT ![prune] = None]
      /\ pruned' = pruned \cup {prune} /\ prune' = Previous(prune)
      /\ account' = account /\ pending' = pending
      /\ confirmation' = confirmation /\ rollback' = rollback
  BY DEF PruneStep, Stored
<1>2. block[prune].height < confirmation[block[prune].account].height
  BY <1>1 DEF ChainInv, PruneCursor, PrunedGone, PruneStep
<1>3. Stored' = Stored \ {prune} /\ \A x \in Stored' : block'[x] = block[x]
  BY <1>1 DEF Stored, ChainInv, TypeOK
<1>4. \A x \in Stored : /\ block[x].account \in Account /\ block[x].height \in Nat
                        /\ confirmation[block[x].account].height \in Nat /\ x \in Hash
  BY DEF ChainInv, TypeOK, Stored, Sideband, ConfirmationHeightInfo
<1>5. Previous(prune) \in Hash \cup {Zero}
  BY <1>1, BlockContent
<1>6. \A c \in Account : account[c] # None => account[c].head # prune
  <2>1. ASSUME NEW c \in Account, account[c] # None, account[c].head = prune PROVE FALSE
    <3>1. block[prune].account = c /\ block[prune].height = account[c].blockCount
      BY <2>1 DEF ChainInv, AccountIntact
    <3>2. confirmation[c].height <= account[c].blockCount
      BY <2>1 DEF ChainInv, FrontierBound
    <3> QED
      BY <1>1, <1>2, <1>4, <3>1, <3>2
  <2> QED
    BY <2>1
<1>7. TypeOK'
  BY <1>1, <1>5 DEF ChainInv, TypeOK
<1>8. AccountIntact'
  <2> SUFFICES ASSUME NEW c \in Account, account[c] # None
               PROVE  /\ account[c].head \in Stored'
                      /\ block'[account[c].head].account = c
                      /\ block'[account[c].head].height = account[c].blockCount
                      /\ Balance(account[c].head)' = account[c].balance
                      /\ block'[account[c].head].successor = Zero
                      /\ block'[account[c].head].epoch = account[c].epoch
    BY <1>1 DEF AccountIntact
  <2>1. account[c].head \in Stored' /\ block'[account[c].head] = block[account[c].head]
    BY <1>3, <1>6 DEF ChainInv, AccountIntact
  <2>2. Balance(account[c].head)' = Balance(account[c].head)
    BY <1>1, <2>1 DEF Balance
  <2> QED
    BY <2>1, <2>2 DEF ChainInv, AccountIntact
<1>9. ChainIntact'
  <2> SUFFICES ASSUME NEW x \in Stored'
               PROVE  /\ account[block[x].account] # None
                      /\ block[x].successor = Zero => account[block[x].account].head = x
                      /\ Previous(x) = Zero => block[x].height = 1
                      /\ (Previous(x) # Zero /\ Previous(x) \notin pruned') =>
                            /\ Previous(x) \in Stored'
                            /\ block'[Previous(x)].account = block[x].account
                            /\ block'[Previous(x)].successor = x
                            /\ block[x].height = block'[Previous(x)].height + 1
    BY <1>1, <1>3 DEF ChainIntact
  <2>1. x \in Stored
    BY <1>3
  <2>2. Previous(x) \notin pruned' => Previous(x) # prune /\ Previous(x) \notin pruned
    BY <1>1
  <2> QED
    BY <1>3, <2>1, <2>2 DEF ChainInv, ChainIntact
<1>10. NoFork'
  BY <1>3 DEF ChainInv, NoFork
<1>11. HeightUnique' /\ HeightBound' /\ OpensOwnAccount'
  BY <1>1, <1>3 DEF ChainInv, HeightUnique, HeightBound, OpensOwnAccount
<1>12. PrunedGone' /\ FrontierBound'
  BY <1>1, <1>3 DEF ChainInv, PrunedGone, FrontierBound
<1>13. \A x \in Stored' : Confirmed(x) => Confirmed(x)'
  BY <1>1, <1>3 DEF Confirmed
<1>14. PrunedBelow'
  <2> SUFFICES ASSUME NEW x \in Stored', Previous(x) \in pruned' PROVE Confirmed(x)
    BY <1>13 DEF PrunedBelow
  <2>1. x \in Stored
    BY <1>3
  <2>2. CASE Previous(x) \in pruned
    BY <2>1, <2>2 DEF ChainInv, PrunedBelow
  <2>3. CASE Previous(x) = prune
    <3>1. /\ block[prune].account = block[x].account
          /\ block[x].height = block[prune].height + 1
      <4>1. Previous(x) # Zero /\ Previous(x) \notin pruned
        BY <1>1, <2>3 DEF ChainInv, PrunedGone
      <4> QED
        BY <2>1, <2>3, <4>1 DEF ChainInv, ChainIntact
    <3> QED
      BY <1>1, <1>2, <1>4, <2>1, <3>1 DEF Confirmed
  <2> QED
    BY <1>1, <2>2, <2>3
<1>15. PruneCursor'
  <2> SUFFICES ASSUME Previous(prune) # Zero, Previous(prune) \notin pruned'
               PROVE  /\ Previous(prune) \in Stored'
                      /\ block'[Previous(prune)].height
                            < confirmation[block'[Previous(prune)].account].height
    BY <1>1 DEF PruneCursor
  <2>1. /\ Previous(prune) \in Stored
        /\ block[Previous(prune)].account = block[prune].account
        /\ block[prune].height = block[Previous(prune)].height + 1
    BY <1>1 DEF ChainInv, ChainIntact
  <2> QED
    BY <1>1, <1>2, <1>3, <1>4, <2>1
<1>16. \A x \in Hash : Confirmed(x) => (Confirmed(x) \/ x \in pruned)'
  BY <1>1, <1>3, <1>13 DEF Confirmed
<1> QED
  BY <1>7, <1>8, <1>9, <1>10, <1>11, <1>12, <1>14, <1>15, <1>16 DEF ChainInv

-----------------------------------------------------------------------------
(* The steps that only move a loop's cursor.                               *)
LEMMA CursorInv ==
    ASSUME ChainInv, UNCHANGED tables, rollback' \in Seq(Hash),
           prune' \in Hash \cup {Zero}, PruneCursor'
    PROVE  ChainInv' /\ \A x \in Hash : Confirmed(x) => Confirmed(x)'
<1>1. /\ block' = block /\ account' = account /\ pending' = pending
      /\ confirmation' = confirmation /\ pruned' = pruned
  BY DEF tables
<1>2. Stored' = Stored
  BY <1>1 DEF Stored
<1>3. TypeOK'
  BY <1>1 DEF ChainInv, TypeOK
<1>4. AccountIntact' /\ ChainIntact' /\ NoFork' /\ HeightUnique' /\ HeightBound'
  BY <1>1, <1>2, ZenonT(30) DEF ChainInv, AccountIntact, ChainIntact, NoFork, HeightUnique,
                    HeightBound, Balance
<1>5. PrunedGone' /\ OpensOwnAccount' /\ FrontierBound'
  BY <1>1, <1>2 DEF ChainInv, PrunedGone, OpensOwnAccount, FrontierBound
<1>6. PrunedBelow' /\ \A x \in Hash : Confirmed(x) => Confirmed(x)'
  BY <1>1, <1>2 DEF ChainInv, PrunedBelow, Confirmed
<1> QED
  BY <1>3, <1>4, <1>5, <1>6 DEF ChainInv

CementedStep ==
    /\ \A h \in Hash : Confirmed(h) => (Confirmed(h) \/ h \in pruned)'
    /\ \A a \in Account : confirmation[a].height <= confirmation'[a].height

(* Every step of the ledger keeps the invariant and everything cemented.   *)
LEMMA NextInv ==
    ASSUME ChainInv, [Next]_vars
    PROVE  ChainInv' /\ CementedStep
<1> USE Numbers
<1>0. \A a \in Account : confirmation[a].height \in Nat
  BY DEF ChainInv, TypeOK, ConfirmationHeightInfo
<1>a. confirmation' = confirmation =>
         \A a \in Account : confirmation[a].height <= confirmation'[a].height
  BY <1>0
<1>b. rollback \in Seq(Hash) /\ prune \in Hash \cup {Zero} /\ PruneCursor
  BY DEF ChainInv, TypeOK
<1>c. UNCHANGED <<tables, prune>> => PruneCursor' /\ prune' = prune /\ confirmation' = confirmation
  BY <1>b DEF tables, PruneCursor, Stored
<1>1. ASSUME NEW h \in Hash, Process(h) PROVE ChainInv' /\ CementedStep
  <2>1. ChainInv'
    BY <1>1, ProcessInv
  <2>2. Validate(h) = "Progress" /\ Insert(h) /\ confirmation' = confirmation
    BY <1>1 DEF Process, Insert
  <2>3. \A x \in Stored : Confirmed(x)' <=> Confirmed(x)
    BY <2>2, InsertedBlocks DEF Confirmed
  <2> QED
    BY <1>a, <2>1, <2>2, <2>3 DEF CementedStep, Confirmed
<1>2. ASSUME NEW h \in Hash, RollbackStart(h) PROVE ChainInv' /\ CementedStep
  <2>1. rollback' \in Seq(Hash) /\ UNCHANGED <<tables, prune>>
    BY <1>2 DEF RollbackStart
  <2> QED
    BY <1>a, <1>b, <1>c, <2>1, CursorInv DEF CementedStep
<1>3. ASSUME NEW h \in Hash, Cement(h) PROVE ChainInv' /\ CementedStep
  BY <1>3, CementInv DEF CementedStep
<1>4. ASSUME NEW h \in Hash, PruneStart(h) PROVE ChainInv' /\ CementedStep
  <2>1. UNCHANGED <<tables, rollback>> /\ prune' = h /\ confirmation' = confirmation
    BY <1>4 DEF PruneStart, tables
  <2>2. PruneCursor'
    BY <1>4, <2>1 DEF PruneStart, PruneCursor, tables, Stored
  <2> QED
    BY <1>a, <1>b, <2>1, <2>2, CursorInv DEF CementedStep
<1>5. ASSUME RollbackRemove PROVE ChainInv' /\ CementedStep
  <2>1. /\ Target \in Stored /\ ~PlanFails(HeadOf(Target)) /\ Remove(HeadOf(Target))
        /\ UNCHANGED <<rollback, prune>> /\ confirmation' = confirmation
    BY <1>5 DEF RollbackRemove, Remove
  <2>2. ChainInv'
    BY <2>1, RemoveInv
  <2> DEFINE h == HeadOf(Target)
  <2>3. /\ h \in Stored /\ confirmation[block[h].account].height < block[h].height
        /\ account[block[h].account] \in AccountInfo
        /\ account[block[h].account].blockCount = block[h].height
        /\ Previous(h) # Zero => Previous(h) \in Stored /\ Previous(h) \notin pruned
        /\ block[h].account \in Account
    BY <2>1, RemovableHead, Zenon
  <2>4. Remove(h)
    BY <2>1
  <2> HIDE DEF h
  <2>5. block[h].height \in Nat
    BY <2>3 DEF ChainInv, TypeOK, Stored, Sideband
  <2>6. ~Confirmed(h)
    BY <1>0, <2>3, <2>5 DEF Confirmed
  <2>7. \A x \in Stored \ {h} : Confirmed(x)' <=> Confirmed(x)
    BY <2>1, <2>3, <2>4, RemovedBlocks, Zenon DEF Confirmed
  <2> QED
    BY <1>a, <2>1, <2>2, <2>6, <2>7 DEF CementedStep, Confirmed
<1>6. ASSUME RollbackDependency PROVE ChainInv' /\ CementedStep
  <2>1. UNCHANGED <<tables, prune>>
    BY <1>6 DEF RollbackDependency
  <2>2. DestinationHead(HeadOf(Target)) \in Hash
    BY <1>6, Zenon DEF RollbackDependency, NeedsDependency, PlanFails, DestinationHead,
                ChainInv, TypeOK, AccountInfo
  <2>3. rollback' \in Seq(Hash)
    BY <1>6, <1>b, <2>2 DEF RollbackDependency
  <2> QED
    BY <1>a, <1>b, <1>c, <2>1, <2>3, CursorInv DEF CementedStep
<1>7. ASSUME RollbackReturn PROVE ChainInv' /\ CementedStep
  <2>1. UNCHANGED <<tables, prune>> /\ rollback' = SubSeq(rollback, 1, Len(rollback) - 1)
    BY <1>7 DEF RollbackReturn
  <2>2. rollback' \in Seq(Hash)
    BY <1>7, <1>b, <2>1 DEF RollbackReturn
  <2> QED
    BY <1>a, <1>b, <1>c, <2>1, <2>2, CursorInv DEF CementedStep
<1>8. ASSUME RollbackFail PROVE ChainInv' /\ CementedStep
  <2>1. UNCHANGED <<tables, prune>> /\ rollback' \in Seq(Hash)
    BY <1>8 DEF RollbackFail
  <2> QED
    BY <1>a, <1>b, <1>c, <2>1, CursorInv DEF CementedStep
<1>9. ASSUME PruneStep PROVE ChainInv' /\ CementedStep
  <2>1. confirmation' = confirmation
    BY <1>9 DEF PruneStep
  <2> QED
    BY <1>9, <1>a, <2>1, PruneStepInv DEF CementedStep
<1>10. ASSUME PruneEnd \/ PruneInterrupted PROVE ChainInv' /\ CementedStep
  <2>1. UNCHANGED <<tables, rollback>> /\ prune' = Zero /\ confirmation' = confirmation
    BY <1>10 DEF PruneEnd, PruneInterrupted, tables
  <2>2. PruneCursor'
    BY <2>1 DEF PruneCursor
  <2> QED
    BY <1>a, <1>b, <2>1, <2>2, CursorInv DEF CementedStep
<1>11. ASSUME UNCHANGED vars PROVE ChainInv' /\ CementedStep
  <2>1. UNCHANGED <<tables, prune>> /\ rollback' \in Seq(Hash)
    BY <1>11, <1>b DEF vars
  <2> QED
    BY <1>a, <1>b, <1>c, <2>1, CursorInv DEF CementedStep
<1> QED
  BY <1>1, <1>2, <1>3, <1>4, <1>5, <1>6, <1>7, <1>8, <1>9, <1>10, <1>11 DEF Next

(* The chain invariant holds in every state of the ledger.                 *)
THEOREM ChainInvAlways == Spec => []ChainInv
BY InitInv, NextInv, PTL DEF Spec

(* The tables never hold a malformed entry: no negative balance, amount or *)
(* height, no unknown epoch.                                               *)
THEOREM TypeCorrect == Spec => []TypeOK
<1>1. ChainInv => TypeOK
  BY DEF ChainInv
<1> QED
  BY <1>1, ChainInvAlways, PTL

(* Whatever is processed, rolled back (even half way), cemented and pruned *)
(* (even interrupted), in any order, every account's chain is intact.      *)
THEOREM LedgerAlwaysIntact == Spec => []LedgerIntact
<1>1. ChainInv => LedgerIntact
  BY DEF ChainInv, LedgerIntact
<1> QED
  BY <1>1, ChainInvAlways, PTL

(* Two forks are never in the ledger together.                             *)
THEOREM NeverAFork == Spec => []NoFork
<1>1. ChainInv => NoFork
  BY DEF ChainInv
<1> QED
  BY <1>1, ChainInvAlways, PTL

(* No sequence of operations un-cements or rolls back a cemented block.    *)
THEOREM CementedStaysCemented == Spec => CementedForever
<1>1. ChainInv /\ [Next]_vars => CementedStep
  BY NextInv
<1>2. Spec => [][CementedStep]_vars
  BY <1>1, ChainInvAlways, PTL DEF Spec
<1> QED
  BY <1>2 DEF CementedForever, CementedStep

(* pruning_action never panics and its assertion never fails.              *)
THEOREM PruningIsSafe == Spec => []PruningSafe
<1>1. ChainInv => PruningSafe
  <2> SUFFICES ASSUME ChainInv, prune # Zero, prune \notin pruned PROVE Confirmed(prune)
    BY DEF PruningSafe
  <2>1. prune \in Stored /\ block[prune].height < confirmation[block[prune].account].height
    BY DEF ChainInv, PruneCursor
  <2>2. block[prune].height \in Nat /\ confirmation[block[prune].account].height \in Nat
    BY <2>1 DEF ChainInv, TypeOK, Stored, Sideband, ConfirmationHeightInfo
  <2> QED
    BY <2>1, <2>2 DEF Confirmed
<1> QED
  BY <1>1, ChainInvAlways, PTL

-----------------------------------------------------------------------------
(* A block that is confirmed after a step was confirmed before it, or is   *)
(* the one block that the step cements.                                    *)
LEMMA NewlyConfirmed ==
    ASSUME ChainInv, ChainInv', [Next]_vars, NEW x \in Hash, Confirmed(x)'
    PROVE  /\ Confirmed(x) \/ (Cement(x) /\ block' = block)
           /\ x \in Stored /\ block'[x].isSend = block[x].isSend
<1> USE Numbers
<1>0. \A y \in Stored : /\ block[y].account \in Account /\ block[y].height \in Nat /\ y \in Hash
                        /\ confirmation[block[y].account].height \in Nat
  BY DEF ChainInv, TypeOK, Stored, Sideband, ConfirmationHeightInfo
<1>1. ASSUME NEW h \in Hash, Process(h)
      PROVE  Confirmed(x) /\ x \in Stored /\ block'[x].isSend = block[x].isSend
  <2>1. Validate(h) = "Progress" /\ Insert(h) /\ confirmation' = confirmation
    BY <1>1 DEF Process, Insert
  <2>2. x # h
    <3>1. /\ block'[h].account = AccountOf(h)
          /\ block'[h].height = (IF AccountExists(h) THEN OldInfo(h).blockCount ELSE 0) + 1
      <4>1. block'[h] = NewSideband(h)
        BY <2>1, InsertedBlocks
      <4> QED
        BY <4>1, SMTT(30) DEF NewSideband
    <3>2. /\ AccountOf(h) \in Account
          /\ AccountExists(h) <=> account[AccountOf(h)] # None
      BY <2>1, AcceptedBlock, Zenon
    <3>3. AccountExists(h) => OldInfo(h).blockCount \in Nat
      BY <3>2 DEF OldInfo, ChainInv, TypeOK, AccountInfo
    <3>4. confirmation[AccountOf(h)].height \in Nat
      BY <3>2 DEF ChainInv, TypeOK, ConfirmationHeightInfo
    <3>5. confirmation[AccountOf(h)].height < block'[h].height
      BY <3>1, <3>2, <3>3, <3>4, SMTT(30) DEF ChainInv, FrontierBound, OldInfo
    <3>6. ASSUME x = h PROVE FALSE
      <4>1. block'[h].height <= confirmation[AccountOf(h)].height
        BY <2>1, <3>1, <3>6 DEF Confirmed
      <4> QED
        BY <3>1, <3>3, <3>4, <3>5, <4>1, SMTT(30)
    <3> QED
      BY <3>6
  <2>3. x \in Stored
    BY <2>1, <2>2, InsertedBlocks, SMTT(30) DEF Confirmed
  <2> QED
    BY <2>1, <2>3, InsertedBlocks DEF Confirmed
<1>2. ASSUME RollbackRemove
      PROVE  Confirmed(x) /\ x \in Stored /\ block'[x].isSend = block[x].isSend
  <2> DEFINE h == HeadOf(Target)
  <2>1. /\ Target \in Stored /\ ~PlanFails(h) /\ Remove(h) /\ confirmation' = confirmation
    BY <1>2, Zenon DEF RollbackRemove, Remove
  <2>2. /\ h \in Stored
        /\ account[block[h].account] \in AccountInfo
        /\ account[block[h].account].blockCount = block[h].height
        /\ Previous(h) # Zero => Previous(h) \in Stored /\ Previous(h) \notin pruned
    BY <2>1, RemovableHead, Zenon
  <2> HIDE DEF h
  <2>3. x \in Stored' /\ Stored' = Stored \ {h}
    BY <2>1, <2>2, RemovedBlocks, Zenon DEF Confirmed
  <2> QED
    BY <2>1, <2>2, <2>3, RemovedBlocks, Zenon DEF Confirmed
<1>3. ASSUME NEW h \in Hash, Cement(h)
      PROVE  /\ Confirmed(x) \/ x = h
             /\ block' = block /\ x \in Stored
  <2> DEFINE a == block[h].account
  <2>1. /\ block' = block /\ h \in Stored /\ ~Confirmed(h) /\ DependentsConfirmed(h)
        /\ confirmation' = [confirmation EXCEPT ![a] = [height |-> block[h].height, frontier |-> h]]
    BY <1>3 DEF Cement
  <2>2. x \in Stored
    BY <2>1 DEF Confirmed, Stored
  <2>3. ASSUME block[x].account = a, ~Confirmed(x) PROVE x = h
    <3>1. block[x].height <= block[h].height /\ ~(block[x].height <= confirmation[a].height)
      BY <1>0, <2>1, <2>2, <2>3, Zenon DEF Confirmed, ChainInv, TypeOK
    <3>2. confirmation[a].height \in Nat /\ block[h].height \in Nat /\ block[x].height \in Nat
      BY <1>0, <2>1, <2>2
    <3>3. block[h].height <= confirmation[a].height + 1
      <4>1. CASE Previous(h) = Zero
        <5>1. block[h].height = 1
          BY <2>1, <4>1, Zenon DEF ChainInv, ChainIntact
        <5> HIDE DEF a
        <5> QED
          BY <3>2, <5>1
      <4>2. CASE Previous(h) # Zero
        <5>1. Previous(h) \in DependentBlocks(h)
          BY <4>2 DEF DependentBlocks
        <5>2. Previous(h) \notin pruned
          BY <2>1 DEF ChainInv, PrunedBelow
        <5>3. Confirmed(Previous(h))
          BY <2>1, <5>1, <5>2, Zenon DEF DependentsConfirmed, ConfirmedOrPruned
        <5>4. /\ Previous(h) \in Stored /\ block[Previous(h)].account = a
              /\ block[h].height = block[Previous(h)].height + 1
          BY <2>1, <4>2, <5>2, Zenon DEF ChainInv, ChainIntact
        <5>5. /\ block[Previous(h)].height <= confirmation[a].height
              /\ block[Previous(h)].height \in Nat
          BY <1>0, <5>3, <5>4, Zenon DEF Confirmed
        <5> HIDE DEF a
        <5> QED
          BY <3>2, <5>4, <5>5
      <4> QED
        BY <4>1, <4>2, Zenon
    <3>4. block[x].height = block[h].height
      BY <3>1, <3>2, <3>3, SMTT(30)
    <3> QED
      BY <2>1, <2>2, <2>3, <3>4, Zenon DEF ChainInv, HeightUnique
  <2>4. ASSUME block[x].account # a PROVE Confirmed(x)
    BY <1>0, <2>1, <2>2, <2>4, Zenon DEF Confirmed, ChainInv, TypeOK
  <2> QED
    BY <2>1, <2>2, <2>3, <2>4
<1>4. ASSUME PruneStep
      PROVE  Confirmed(x) /\ x \in Stored /\ block'[x].isSend = block[x].isSend
  <2>1. /\ prune \in Stored /\ block' = [block EXCEPT ![prune] = None]
        /\ confirmation' = confirmation
    BY <1>4, Zenon DEF PruneStep
  <2>2. x \in Stored /\ block'[x] = block[x]
    BY <2>1, Zenon DEF Confirmed, Stored, ChainInv, TypeOK
  <2> QED
    BY <2>1, <2>2 DEF Confirmed
<1>5. ASSUME UNCHANGED tables
      PROVE  Confirmed(x) /\ x \in Stored /\ block'[x].isSend = block[x].isSend
  <2>1. block' = block /\ confirmation' = confirmation
    BY <1>5 DEF tables
  <2> QED
    BY <2>1 DEF Confirmed, Stored
<1>6. ASSUME NEW h \in Hash, RollbackStart(h) \/ PruneStart(h) PROVE UNCHANGED tables
  BY <1>6 DEF RollbackStart, PruneStart
<1>7. RollbackDependency \/ RollbackReturn \/ RollbackFail \/ PruneEnd \/ PruneInterrupted
         \/ UNCHANGED vars => UNCHANGED tables
  BY DEF RollbackDependency, RollbackReturn, RollbackFail, PruneEnd, PruneInterrupted, vars
<1> QED
  BY <1>1, <1>2, <1>3, <1>4, <1>5, <1>6, <1>7 DEF Next

(* Whatever a cemented block depends on is cemented or pruned.             *)
THEOREM ConfirmedAlwaysClosed == Spec => []ConfirmedClosed
<1> USE Numbers
<1>1. Init => ConfirmedClosed
  <2> SUFFICES ASSUME Init, NEW h \in Stored, NEW d \in DependentBlocks(h) PROVE FALSE
    BY DEF ConfirmedClosed, DependentsConfirmed
  <2>1. h = Genesis
    BY Zenon DEF Init, Stored
  <2>2. /\ Type(Genesis) = "open" /\ Previous(Genesis) = Zero
        /\ Block[Genesis].account = GenesisAccount
    BY BlocksAssumption DEF Type, Previous
  <2> QED
    BY <2>1, <2>2 DEF DependentBlocks, DependentLink
<1>2. ASSUME ChainInv, ChainInv', ConfirmedClosed, CementedStep, [Next]_vars
      PROVE  ConfirmedClosed'
  <2>1. pruned \subseteq pruned'
    BY <1>2, Zenon DEF Next, vars, tables, Process, Insert, RollbackStart, Cement, PruneStart,
                RollbackRemove, Remove, RollbackDependency, RollbackReturn, RollbackFail,
                PruneStep, PruneEnd, PruneInterrupted
  <2>2. \A d : ConfirmedOrPruned(d) => ConfirmedOrPruned(d)'
    BY <1>2, <2>1 DEF CementedStep, ConfirmedOrPruned
  <2> SUFFICES ASSUME NEW h \in Stored', Confirmed(h)', NEW d \in DependentBlocks(h)'
               PROVE  ConfirmedOrPruned(d)'
    BY DEF ConfirmedClosed, DependentsConfirmed
  <2>3. h \in Hash
    BY DEF Stored
  <2>4. /\ Confirmed(h) \/ Cement(h)
        /\ h \in Stored /\ block'[h].isSend = block[h].isSend
    BY <1>2, <2>3, NewlyConfirmed
  <2>5. d \in DependentBlocks(h)
    BY <2>4 DEF DependentBlocks, DependentLink
  <2>6. ConfirmedOrPruned(d)
    BY <1>2, <2>4, <2>5 DEF ConfirmedClosed, DependentsConfirmed, Cement
  <2> QED
    BY <2>2, <2>6, Zenon
<1>3. ChainInv /\ ConfirmedClosed /\ [Next]_vars => ChainInv' /\ ConfirmedClosed'
  BY <1>2, NextInv
<1> QED
  BY <1>1, <1>3, InitInv, PTL DEF Spec
-----------------------------------------------------------------------------
(* Payments.  What a rollback does to the pending table follows from the   *)
(* balances of a block and of the block before it, and not from what kind  *)
(* of block it is.                                                         *)

Lowers(h) == Previous(h) \in Stored /\ Balance(h) < Balance(Previous(h))
Raises(h) == BalanceBefore(h) < Balance(h)

(* Money that has left an account is in the pending table or was received  *)
(* by a block that is stored, until the send is cemented.                  *)
Received(h) ==
    \E r \in Stored : /\ DependentLink(r) = h /\ block[r].account = DestinationOrLink(h)
                      /\ Raises(r)

Pending(h) ==
    /\ Receivable(DestinationOrLink(h), h) # {}
    /\ \A p \in Receivable(DestinationOrLink(h), h) : 0 < p.amount

SendsCovered == \A h \in Stored : Lowers(h) => Confirmed(h) \/ Received(h) \/ Pending(h)

GenesisCemented == 0 < confirmation[GenesisAccount].height

(* A call of the rollback that another one has made works on a block that  *)
(* is not cemented.                                                        *)
StackUncemented == \A i \in 2..Len(rollback) : ~Confirmed(rollback[i])

PayInv == ChainInv /\ ConfirmedClosed /\ GenesisCemented /\ SendsCovered /\ StackUncemented

(* Balances are natural numbers.                                           *)
LEMMA BalanceType ==
    ASSUME ChainInv, NEW h \in Stored
    PROVE  Balance(h) \in Nat /\ BalanceBefore(h) \in Nat
<1>1. \A x \in Stored : Balance(x) \in Nat
  <2> SUFFICES ASSUME NEW x \in Stored PROVE Balance(x) \in Nat
    OBVIOUS
  <2>1. x \in Hash /\ block[x] \in Sideband
    BY DEF ChainInv, TypeOK, Stored
  <2>2. Block[x].balance \in Nat
    BY <2>1, BlockContent, Zenon
  <2> QED
    BY <2>1, <2>2 DEF Balance, Sideband
<1>2. Previous(h) \in Stored => BalanceBefore(h) \in Nat
  BY <1>1, Zenon DEF BalanceBefore
<1>3. Previous(h) \notin Stored => BalanceBefore(h) = 0
  BY Zenon DEF BalanceBefore
<1> QED
  BY <1>1, <1>2, <1>3

(* A block depends on its link, where it depends on anything but the block *)
(* before it.                                                              *)
LEMMA DependsOnLink ==
    ASSUME NEW r \in Hash, DependentLink(r) # Zero
    PROVE  DependentLink(r) = SourceOrLink(r)
<1>1. Type(r) \in BlockType
  BY BlockContent, Zenon
<1> QED
  BY <1>1 DEF DependentLink, SourceOrLink, BlockType

(* What a new block does to the balances, and what it may receive.         *)
LEMMA InsertedPayments ==
    ASSUME ChainInv, GenesisCemented, NEW h \in Hash, Validate(h) = "Progress", Insert(h)
    PROVE  /\ Balance(h)' = NewBalance(h) /\ BalanceBefore(h)' = OldBalance(h)
           /\ Lowers(h)' => IsSend(h) /\ 0 < AmountSent(h)
           /\ IsReceive(h) =>
                 /\ PendingReceive(h) # {}
                 /\ PendingReceive(h) = Receivable(AccountOf(h), SourceOrLink(h))
                 /\ SourceOrLink(h) \in Stored \cup pruned
                 /\ DependentLink(h)' = SourceOrLink(h)
                 /\ 0 < PendingAmount(h) => Raises(h)'
           /\ DependentLink(h)' # Zero => IsReceive(h)
           /\ IsSend(h) => DependentLink(h)' = Zero
<1> USE Numbers
<1>0. /\ Block[h].balance \in Nat /\ Type(h) \in BlockType
      /\ block'[h].isSend = IsSend(h) /\ block'[h].balance = NewBalance(h)
      /\ block'[h].account = AccountOf(h) /\ Stored' = Stored \cup {h} /\ h \notin Stored
  <2>1. block'[h] = NewSideband(h) /\ Stored' = Stored \cup {h}
    BY InsertedBlocks, Zenon
  <2>2. h \notin Stored
    BY AcceptedBlock, Zenon
  <2>3. /\ NewSideband(h).isSend = IsSend(h) /\ NewSideband(h).balance = NewBalance(h)
        /\ NewSideband(h).account = AccountOf(h)
    BY DEF NewSideband
  <2> QED
    BY <2>1, <2>2, <2>3, BlockContent, Zenon
<1>1. Balance(h)' = NewBalance(h)
  <2>1. Type(h) \in {"send", "state"} => NewBalance(h) = Block[h].balance
    BY AcceptedBalance, Zenon
  <2> QED
    BY <1>0, <2>1, Zenon DEF Balance
<1>2. BalanceBefore(h)' = OldBalance(h)
  <2>1. CASE AccountExists(h)
    <3>1. /\ AccountOf(h) \in Account /\ account[AccountOf(h)] # None
          /\ Previous(h) = account[AccountOf(h)].head /\ Previous(h) \in Stored
      BY <2>1, AcceptedBlock, Zenon DEF OldInfo
    <3>2. Balance(Previous(h)) = account[AccountOf(h)].balance
      BY <3>1, Zenon DEF ChainInv, AccountIntact
    <3>3. block'[Previous(h)].balance = block[Previous(h)].balance
      BY <3>1, InsertedBlocks, Zenon
    <3>4. Balance(Previous(h))' = Balance(Previous(h))
      BY <3>3, Zenon DEF Balance
    <3>5. Previous(h) \in Stored'
      BY <1>0, <3>1, Zenon
    <3> QED
      BY <2>1, <3>2, <3>4, <3>5, Zenon DEF BalanceBefore, OldBalance, OldInfo
  <2>2. CASE ~AccountExists(h)
    <3>1. Previous(h) = Zero
      BY <2>2, AcceptedBlock, Zenon
    <3>2. Previous(h) \notin Stored'
      BY <3>1 DEF Stored
    <3> QED
      BY <2>2, <3>2, Zenon DEF BalanceBefore, OldBalance
  <2> QED
    BY <2>1, <2>2, Zenon
<1>3. OldBalance(h) \in Nat /\ NewBalance(h) \in Nat /\ PendingAmount(h) \in Nat
  <2>1. NewBalance(h) \in Nat
    BY AcceptedBalance, Zenon
  <2>2. OldBalance(h) \in Nat
    BY AcceptedBlock DEF OldBalance, OldInfo, ChainInv, TypeOK, AccountInfo
  <2>3. ASSUME PendingReceive(h) # {} PROVE PendingAmount(h) \in Nat
    <3>1. PICK p \in PendingReceive(h) : p = CHOOSE q \in PendingReceive(h) : TRUE
      BY <2>3, Zenon
    <3>2. p \in PendingEntry
      BY <3>1 DEF PendingReceive, Receivable, ChainInv, TypeOK
    <3> QED
      BY <2>3, <3>1, <3>2 DEF PendingAmount, PendingEntry
  <2>4. PendingReceive(h) = {} => PendingAmount(h) = 0
    BY Zenon DEF PendingAmount
  <2> QED
    BY <2>1, <2>2, <2>3, <2>4
<1>4. ASSUME Lowers(h)' PROVE IsSend(h) /\ 0 < AmountSent(h)
  <2>1. NewBalance(h) < OldBalance(h)
    BY <1>1, <1>2, <1>4, Zenon DEF Lowers, BalanceBefore
  <2>2. AmountSent(h) # 0
    <3>1. CASE Type(h) = "state"
      BY <1>0, <1>3, <2>1, <3>1, AcceptedBalance, SMTT(30) DEF AmountSent, OldBalance
    <3>2. CASE Type(h) = "send"
      BY <1>0, <1>3, <2>1, <3>2, AcceptedBalance, SMTT(30) DEF AmountSent, OldBalance
    <3>3. CASE Type(h) \in {"receive", "open", "change"}
      BY <1>3, <2>1, <3>3 DEF NewBalance, AmountSent, AmountReceived
    <3> QED
      BY <1>0, <3>1, <3>2, <3>3 DEF BlockType
  <2>3. AmountSent(h) \in Nat
    BY AcceptedBalance, Zenon
  <2>4. IsSend(h)
    BY <2>2, Zenon DEF AmountSent, IsSend
  <2> QED
    BY <2>2, <2>3, <2>4
<1>5. ~(Type(h) = "open" /\ Block[h].account = GenesisAccount)
  <2> SUFFICES ASSUME Type(h) = "open", Block[h].account = GenesisAccount PROVE FALSE
    OBVIOUS
  <2>1. AccountOf(h) = GenesisAccount /\ GenesisAccount \in Account
    BY BlocksAssumption DEF AccountOf
  <2>2. account[GenesisAccount] # None
    <3>1. confirmation[GenesisAccount].height # 0
      BY DEF GenesisCemented
    <3> QED
      BY <2>1, <3>1, Zenon DEF ChainInv, FrontierBound
  <2>3. AccountExists(h)
    BY <2>1, <2>2 DEF AccountExists
  <2>4. Previous(h) = Zero
    BY BlocksAssumption DEF Type, Previous
  <2> QED
    BY <2>3, <2>4, AcceptedBlock, Zenon
<1>6. IsSend(h) => DependentLink(h)' = Zero
  BY <1>0, Zenon DEF IsSend, DependentLink
<1>7. ASSUME DependentLink(h)' # Zero PROVE IsReceive(h)
  <2>1. ~IsSend(h) /\ ~(Type(h) \in {"send", "change"})
    BY <1>0, <1>6, <1>7, Zenon DEF DependentLink
  <2>2. CASE Type(h) = "state"
    <3>1. ~HasEpochLink(h) /\ Block[h].link # Zero
      BY <1>7, <2>2 DEF DependentLink
    <3>2. AccountExists(h) => ~(Block[h].balance < OldInfo(h).balance)
      BY <2>1, <2>2, Zenon DEF IsSend
    <3>3. AccountExists(h) => OldInfo(h).balance \in Nat
      BY <1>3, Zenon DEF OldBalance
    <3>4. AccountExists(h) => Block[h].balance >= OldInfo(h).balance
      BY <1>0, <2>2, <3>2, <3>3, SMTT(30)
    <3> QED
      BY <2>2, <3>1, <3>4, Zenon DEF IsReceive
  <2>3. CASE Type(h) \in {"receive", "open"}
    BY <2>3 DEF IsReceive
  <2> QED
    BY <1>0, <2>1, <2>2, <2>3 DEF BlockType
<1>8. ASSUME IsReceive(h)
      PROVE  /\ PendingReceive(h) # {}
             /\ PendingReceive(h) = Receivable(AccountOf(h), SourceOrLink(h))
             /\ SourceOrLink(h) \in Stored \cup pruned
             /\ DependentLink(h)' = SourceOrLink(h)
             /\ 0 < PendingAmount(h) => Raises(h)'
  <2>1. AmountRules(h) = "Progress"
    BY Zenon DEF Validate
  <2>2. SourceBlockExists(h) /\ PendingReceive(h) # {} /\ AmountReceived(h) = PendingAmount(h)
    BY <1>8, <2>1 DEF AmountRules
  <2>3. PendingReceive(h) = Receivable(AccountOf(h), SourceOrLink(h))
    BY <2>2, Zenon DEF PendingReceive
  <2>4. SourceOrLink(h) \in Stored \cup pruned
    BY <2>2, Zenon DEF SourceBlockExists, BlockExistsOrPruned
  <2>5. ~IsSend(h) /\ Type(h) \in {"receive", "open", "state"}
        /\ (Type(h) = "state" => ~HasEpochLink(h))
    BY <1>0, <1>3, <1>8, SMTT(30) DEF IsReceive, IsSend, OldBalance
  <2>6. DependentLink(h)' = SourceOrLink(h)
    BY <1>0, <1>5, <2>5 DEF DependentLink, SourceOrLink
  <2>7. AmountSent(h) = 0
    BY <1>0, <2>5, Zenon DEF AmountSent, IsSend
  <2>8. NewBalance(h) = OldBalance(h) + PendingAmount(h)
    BY <1>3, <2>2, <2>7 DEF NewBalance
  <2>9. 0 < PendingAmount(h) => OldBalance(h) < NewBalance(h)
    BY <1>3, <2>8
  <2> QED
    BY <1>1, <1>2, <2>2, <2>3, <2>4, <2>6, <2>9, Zenon DEF Raises
<1> QED
  BY <1>1, <1>2, <1>4, <1>6, <1>7, <1>8, Zenon

(* What does not change for the blocks that a new block leaves alone.      *)
LEMMA InsertKeeps ==
    ASSUME ChainInv, NEW h \in Hash, Validate(h) = "Progress", Insert(h), NEW x \in Stored
    PROVE  /\ Previous(x) # h /\ x # h /\ x \in Stored'
           /\ Balance(x)' = Balance(x) /\ DependentLink(x)' = DependentLink(x)
           /\ block'[x].account = block[x].account /\ block'[x].isSend = block[x].isSend
           /\ Lowers(x)' <=> Lowers(x)
           /\ Raises(x)' <=> Raises(x)
           /\ Confirmed(x)' <=> Confirmed(x)
<1> USE Numbers
<1>1. /\ Stored' = Stored \cup {h} /\ confirmation' = confirmation
      /\ \A y \in Stored : /\ y # h
                           /\ block'[y].account = block[y].account
                           /\ block'[y].height = block[y].height
                           /\ block'[y].balance = block[y].balance
                           /\ block'[y].isSend = block[y].isSend
  BY InsertedBlocks, Zenon DEF Insert
<1>2. h \notin Stored /\ h \notin pruned /\ h # Zero
  BY AcceptedBlock, Zenon
<1>3. Previous(x) # h
  BY <1>2, Zenon DEF ChainInv, ChainIntact
<1>4. \A y \in Stored : Balance(y)' = Balance(y)
  BY <1>1, Zenon DEF Balance
<1>5. DependentLink(x)' = DependentLink(x)
  BY <1>1, Zenon DEF DependentLink
<1>6. Previous(x) \in Stored' <=> Previous(x) \in Stored
  BY <1>1, <1>3, Zenon
<1>7. Lowers(x)' <=> Lowers(x)
  BY <1>4, <1>6, Zenon DEF Lowers
<1>8. BalanceBefore(x)' = BalanceBefore(x)
  BY <1>4, <1>6, Zenon DEF BalanceBefore
<1>9. Raises(x)' <=> Raises(x)
  BY <1>4, <1>8, Zenon DEF Raises
<1>10. Confirmed(x)' <=> Confirmed(x)
  BY <1>1, Zenon DEF Confirmed
<1> QED
  BY <1>1, <1>3, <1>4, <1>5, <1>7, <1>9, <1>10, Zenon

(* The same for the blocks that a rollback leaves in the ledger; the block *)
(* it removes is a send or a receive by its balance.                       *)
LEMMA RemoveKeeps ==
    ASSUME ChainInv, NEW h \in Stored, Remove(h), account[block[h].account] # None,
           account[block[h].account] \in AccountInfo, account[block[h].account].head = h,
           account[block[h].account].blockCount = block[h].height,
           block[h].successor = Zero,
           Previous(h) # Zero => Previous(h) \in Stored /\ Previous(h) \notin pruned
    PROVE  /\ Stored' = Stored \ {h}
           /\ RollsBackSend(h) <=> Lowers(h)
           /\ RollsBackReceive(h) <=> Raises(h)
           /\ ~(Lowers(h) /\ Raises(h))
           /\ \A x \in Stored' :
                 /\ Previous(x) # h /\ x # h /\ x \in Stored
                 /\ Balance(x)' = Balance(x) /\ DependentLink(x)' = DependentLink(x)
                 /\ block'[x].account = block[x].account /\ block'[x].isSend = block[x].isSend
                 /\ Lowers(x)' <=> Lowers(x)
                 /\ Raises(x)' <=> Raises(x)
                 /\ Confirmed(x)' <=> Confirmed(x)
<1> USE Numbers
<1>1. /\ Stored' = Stored \ {h} /\ confirmation' = confirmation
      /\ \A y \in Stored' : /\ block'[y].account = block[y].account
                            /\ block'[y].height = block[y].height
                            /\ block'[y].balance = block[y].balance
                            /\ block'[y].isSend = block[y].isSend
  BY RemovedBlocks, Zenon DEF Remove
<1>2. h \notin pruned /\ h # Zero /\ h \in Hash
  BY DEF ChainInv, PrunedGone, Stored
<1>3. ASSUME NEW x \in Stored PROVE Previous(x) # h
  <2>1. x # Zero
    BY DEF Stored
  <2> QED
    BY <1>2, <1>3, <2>1, Zenon DEF ChainInv, ChainIntact
<1>4. \A y \in Stored' : Balance(y)' = Balance(y)
  BY <1>1, Zenon DEF Balance
<1>5. ASSUME NEW x \in Stored'
      PROVE  /\ Previous(x) # h /\ x # h /\ x \in Stored
             /\ Balance(x)' = Balance(x) /\ DependentLink(x)' = DependentLink(x)
             /\ block'[x].account = block[x].account /\ block'[x].isSend = block[x].isSend
             /\ Lowers(x)' <=> Lowers(x)
             /\ Raises(x)' <=> Raises(x)
             /\ Confirmed(x)' <=> Confirmed(x)
  <2>1. x \in Stored /\ x # h /\ Previous(x) # h
    BY <1>1, <1>3, Zenon
  <2>2. DependentLink(x)' = DependentLink(x)
    BY <1>1, Zenon DEF DependentLink
  <2>3. Previous(x) \in Stored' <=> Previous(x) \in Stored
    BY <1>1, <2>1, Zenon
  <2>4. Lowers(x)' <=> Lowers(x)
    BY <1>4, <2>3, Zenon DEF Lowers
  <2>5. BalanceBefore(x)' = BalanceBefore(x)
    BY <1>4, <2>3, Zenon DEF BalanceBefore
  <2>6. Raises(x)' <=> Raises(x)
    BY <1>4, <2>5, Zenon DEF Raises
  <2>7. Confirmed(x)' <=> Confirmed(x)
    BY <1>1, <2>1, Zenon DEF Confirmed
  <2> QED
    BY <1>1, <1>4, <2>1, <2>2, <2>4, <2>6, <2>7, Zenon
<1>6. HeadBalance(h) = Balance(h)
  <2>1. block[h].account \in Account
    BY DEF ChainInv, TypeOK, Stored, Sideband
  <2> QED
    BY <2>1, Zenon DEF ChainInv, AccountIntact, HeadBalance
<1>7. Balance(h) \in Nat /\ BalanceBefore(h) \in Nat
  BY BalanceType, Zenon
<1>8. RollsBackReceive(h) <=> Raises(h)
  BY <1>6, <1>7 DEF RollsBackReceive, Raises
<1>9. RollsBackSend(h) <=> Lowers(h)
  <2>1. Previous(h) \in Stored => BalanceBefore(h) = Balance(Previous(h))
    BY Zenon DEF BalanceBefore
  <2>2. Previous(h) \notin Stored => BalanceBefore(h) = 0
    BY Zenon DEF BalanceBefore
  <2> QED
    BY <1>6, <1>7, <2>1, <2>2 DEF RollsBackSend, Lowers
<1>10. ~(RollsBackSend(h) /\ RollsBackReceive(h))
  BY <1>6, <1>7 DEF RollsBackSend, RollsBackReceive
<1> QED
  BY <1>1, <1>5, <1>8, <1>9, <1>10, Zenon

(* Pruning a block can only hide that the next one has lowered the balance. *)
LEMMA PruneKeeps ==
    ASSUME ChainInv, PruneStep
    PROVE  /\ Stored' = Stored \ {prune} /\ Confirmed(prune) /\ prune \in Stored
           /\ \A x \in Stored' :
                 /\ x \in Stored /\ block'[x] = block[x]
                 /\ DependentLink(x)' = DependentLink(x)
                 /\ Lowers(x)' => Lowers(x)
                 /\ Lowers(x) => Lowers(x)' \/ Previous(x) = prune
                 /\ Raises(x) => Raises(x)'
                 /\ Confirmed(x)' <=> Confirmed(x)
<1> USE Numbers
<1>1. /\ prune \in Stored /\ prune \in Hash /\ prune # Zero
      /\ block' = [block EXCEPT ![prune] = None] /\ confirmation' = confirmation
  BY DEF PruneStep, Stored
<1>2. Stored' = Stored \ {prune} /\ \A x \in Stored' : block'[x] = block[x]
  BY <1>1 DEF Stored, ChainInv, TypeOK
<1>3. Confirmed(prune)
  <2>1. prune \in Stored /\ block[prune].height < confirmation[block[prune].account].height
    BY <1>1 DEF ChainInv, PruneCursor, PrunedGone
  <2>2. block[prune].height \in Nat /\ confirmation[block[prune].account].height \in Nat
    BY <2>1 DEF ChainInv, TypeOK, Stored, Sideband, ConfirmationHeightInfo
  <2> QED
    BY <2>1, <2>2 DEF Confirmed
<1>4. \A y \in Stored' : Balance(y)' = Balance(y)
  BY <1>2, Zenon DEF Balance
<1>5. ASSUME NEW x \in Stored'
      PROVE  /\ x \in Stored /\ DependentLink(x)' = DependentLink(x)
             /\ Lowers(x)' => Lowers(x)
             /\ Lowers(x) => Lowers(x)' \/ Previous(x) = prune
             /\ Raises(x) => Raises(x)'
             /\ Confirmed(x)' <=> Confirmed(x)
  <2>1. x \in Stored
    BY <1>2, Zenon
  <2>2. DependentLink(x)' = DependentLink(x)
    BY <1>2, Zenon DEF DependentLink
  <2>3. Lowers(x)' => Lowers(x)
    BY <1>2, <1>4, Zenon DEF Lowers
  <2>4. Lowers(x) => Lowers(x)' \/ Previous(x) = prune
    BY <1>2, <1>4, Zenon DEF Lowers
  <2>5. Raises(x) => Raises(x)'
    <3>1. CASE Previous(x) \in Stored'
      <4>1. BalanceBefore(x)' = BalanceBefore(x)
        BY <1>2, <1>4, <3>1, Zenon DEF BalanceBefore
      <4> QED
        BY <1>4, <4>1, Zenon DEF Raises
    <3>2. CASE Previous(x) \notin Stored'
      <4>1. BalanceBefore(x)' = 0
        BY <3>2, Zenon DEF BalanceBefore
      <4>2. Balance(x) \in Nat /\ BalanceBefore(x) \in Nat
        BY <2>1, BalanceType, Zenon
      <4>3. BalanceBefore(x) < Balance(x) => 0 < Balance(x)
        BY <4>2
      <4> QED
        BY <1>4, <4>1, <4>3, Zenon DEF Raises
    <3> QED
      BY <3>1, <3>2, Zenon
  <2>6. Confirmed(x)' <=> Confirmed(x)
    BY <1>1, <1>2, <2>1, Zenon DEF Confirmed
  <2> QED
    BY <2>1, <2>2, <2>3, <2>4, <2>5, <2>6, Zenon
<1> QED
  BY <1>1, <1>2, <1>3, <1>5, Zenon

-----------------------------------------------------------------------------
(* The pending entries under the keys that a new block does not touch.     *)
LEMMA InsertedPending ==
    ASSUME NEW h \in Hash, Insert(h)
    PROVE  /\ \A b, s : s # h /\ ~(IsReceive(h) /\ b = AccountOf(h) /\ s = SourceOrLink(h))
                           => Receivable(b, s)' = Receivable(b, s)
           /\ IsSend(h) => Receivable(DestinationOrLink(h), h)' = NewPending(h)
<1>1. pending' = PutPending(pending \ ReceivedPending(h), NewPending(h))
  BY Zenon DEF Insert
<1>2. \A q \in NewPending(h) : q.account = DestinationOrLink(h) /\ q.hash = h
  BY DEF NewPending
<1>3. \A p : p \in pending' <=> \/ p \in NewPending(h)
                               \/ /\ p \in pending /\ p \notin ReceivedPending(h)
                                  /\ \A q \in NewPending(h) : p.account # q.account \/ p.hash # q.hash
  BY <1>1, Zenon DEF PutPending
<1>4. ASSUME NEW b, NEW s, s # h, ~(IsReceive(h) /\ b = AccountOf(h) /\ s = SourceOrLink(h))
      PROVE  Receivable(b, s)' = Receivable(b, s)
  <2>1. ASSUME NEW p, p.account = b, p.hash = s PROVE p \in pending' <=> p \in pending
    <3>1. p \notin ReceivedPending(h)
      BY <1>4, <2>1, Zenon DEF ReceivedPending, Receivable
    <3> QED
      BY <1>2, <1>3, <1>4, <2>1, <3>1, Zenon
  <2>2. \A p : p \in Receivable(b, s)' <=> p \in Receivable(b, s)
    BY <2>1, Zenon DEF Receivable
  <2> QED
    BY <2>2, Zenon
<1>5. ASSUME IsSend(h) PROVE Receivable(DestinationOrLink(h), h)' = NewPending(h)
  <2>1. \A p : p \in Receivable(DestinationOrLink(h), h)'
                  <=> p \in pending' /\ p.account = DestinationOrLink(h) /\ p.hash = h
    BY Zenon DEF Receivable
  <2>2. \E q \in NewPending(h) : TRUE
    BY <1>5, Zenon DEF NewPending
  <2>3. \A p : p \in Receivable(DestinationOrLink(h), h)' <=> p \in NewPending(h)
    BY <1>2, <1>3, <2>1, <2>2, Zenon
  <2> QED
    BY <2>3, Zenon
<1> QED
  BY <1>4, <1>5, Zenon

(* The pending entries after a rollback has removed a block.               *)
LEMMA RemovedPending ==
    ASSUME NEW h \in Stored, Remove(h)
    PROVE  LET old == ~RollsBackSend(h) /\ RollsBackReceive(h) IN
           /\ \A b : old /\ b = block[h].account
                      => Receivable(b, SourceOrLink(h))' = {RestoredPending(h)}
           /\ \A b, s : s # h /\ ~(old /\ b = block[h].account /\ s = SourceOrLink(h))
                           => Receivable(b, s)' = Receivable(b, s)
           /\ RollsBackSend(h) => pending' = pending \ Receivable(DestinationOrLink(h), h)
           /\ ~RollsBackSend(h) /\ ~RollsBackReceive(h) => pending' = pending
<1> DEFINE old == ~RollsBackSend(h) /\ RollsBackReceive(h)
           q == RestoredPending(h)
<1>1. RollsBackSend(h) => pending' = pending \ Receivable(DestinationOrLink(h), h)
  BY Zenon DEF Remove
<1>2. ~RollsBackSend(h) /\ ~RollsBackReceive(h) => pending' = pending
  BY Zenon DEF Remove
<1>3. old => \A p : p \in pending' <=>
                p = q \/ (p \in pending /\ (p.account # q.account \/ p.hash # q.hash))
  BY Zenon DEF Remove, PutPending
<1>4. q.account = block[h].account /\ q.hash = SourceOrLink(h)
  BY DEF RestoredPending
<1> HIDE DEF q
<1>5. ASSUME old, NEW b, b = block[h].account PROVE Receivable(b, SourceOrLink(h))' = {q}
  <2>1. \A p : p \in Receivable(b, SourceOrLink(h))' <=>
           p \in pending' /\ p.account = b /\ p.hash = SourceOrLink(h)
    BY Zenon DEF Receivable
  <2>2. \A p : p \in Receivable(b, SourceOrLink(h))' <=> p = q
    BY <1>3, <1>4, <1>5, <2>1, Zenon
  <2> QED
    BY <2>2, Zenon
<1>6. ASSUME NEW b, NEW s, s # h, ~(old /\ b = block[h].account /\ s = SourceOrLink(h))
      PROVE  Receivable(b, s)' = Receivable(b, s)
  <2>1. ASSUME NEW p, p.account = b, p.hash = s PROVE p \in pending' <=> p \in pending
    BY <1>1, <1>2, <1>3, <1>4, <1>6, <2>1, Zenon DEF Receivable
  <2>2. \A p : p \in Receivable(b, s)' <=> p \in Receivable(b, s)
    BY <2>1, Zenon DEF Receivable
  <2> QED
    BY <2>2, Zenon
<1> QED
  BY <1>1, <1>2, <1>5, <1>6, Zenon DEF q

(* A new block is covered if it is a send, and takes the place of the      *)
(* entry that it receives.                                                 *)
LEMMA InsertCovers ==
    ASSUME ChainInv, GenesisCemented, SendsCovered, NEW h \in Hash,
           Validate(h) = "Progress", Insert(h)
    PROVE  SendsCovered'
<1> USE Numbers
<1>1. Stored' = Stored \cup {h} /\ block'[h].account = AccountOf(h)
  <2>1. block'[h] = NewSideband(h) /\ Stored' = Stored \cup {h}
    BY InsertedBlocks, Zenon
  <2> QED
    BY <2>1, SMTT(30) DEF NewSideband
<1>2. ASSUME Lowers(h)' PROVE Pending(h)'
  <2>1. IsSend(h) /\ 0 < AmountSent(h)
    BY <1>2, InsertedPayments, Zenon
  <2>2. Receivable(DestinationOrLink(h), h)' = NewPending(h)
    BY <2>1, InsertedPending, Zenon
  <2>3. \A p \in NewPending(h) : p.amount = AmountSent(h)
    BY <2>1 DEF NewPending
  <2>4. NewPending(h) # {}
    BY <2>1, Zenon DEF NewPending
  <2> QED
    BY <2>1, <2>2, <2>3, <2>4, Zenon DEF Pending
<1>3. ASSUME NEW x \in Stored, Lowers(x)'
      PROVE  Confirmed(x)' \/ Received(x)' \/ Pending(x)'
  <2>1. Lowers(x) /\ x # h /\ (Confirmed(x)' <=> Confirmed(x))
    BY <1>3, InsertKeeps, Zenon
  <2>2. CASE Confirmed(x)
    BY <2>1, <2>2, Zenon
  <2>3. CASE Received(x)
    <3>1. PICK r \in Stored : /\ DependentLink(r) = x /\ block[r].account = DestinationOrLink(x)
                              /\ Raises(r)
      BY <2>3, Zenon DEF Received
    <3>2. /\ r \in Stored' /\ DependentLink(r)' = x
          /\ block'[r].account = DestinationOrLink(x) /\ Raises(r)'
      BY <3>1, InsertKeeps, Zenon
    <3> QED
      BY <3>2, Zenon DEF Received
  <2>4. CASE Pending(x)
    <3>1. CASE IsReceive(h) /\ AccountOf(h) = DestinationOrLink(x) /\ SourceOrLink(h) = x
      <4>1. /\ PendingReceive(h) # {} /\ PendingReceive(h) = Receivable(AccountOf(h), SourceOrLink(h))
            /\ DependentLink(h)' = x
            /\ 0 < PendingAmount(h) => Raises(h)'
        BY <3>1, InsertedPayments, Zenon
      <4>2. \A p \in PendingReceive(h) : 0 < p.amount
        BY <2>4, <3>1, <4>1, Zenon DEF Pending
      <4>3. 0 < PendingAmount(h)
        <5>1. (CHOOSE p \in PendingReceive(h) : TRUE) \in PendingReceive(h)
          BY <4>1, Zenon
        <5> QED
          BY <4>1, <4>2, <5>1, Zenon DEF PendingAmount
      <4>4. h \in Stored' /\ block'[h].account = DestinationOrLink(x)
        BY <1>1, <3>1, Zenon
      <4> QED
        BY <4>1, <4>3, <4>4, Zenon DEF Received
    <3>2. CASE ~(IsReceive(h) /\ AccountOf(h) = DestinationOrLink(x) /\ SourceOrLink(h) = x)
      <4>1. Receivable(DestinationOrLink(x), x)' = Receivable(DestinationOrLink(x), x)
        BY <2>1, <3>2, InsertedPending, Zenon
      <4> QED
        BY <2>4, <4>1, Zenon DEF Pending
    <3> QED
      BY <3>1, <3>2, Zenon
  <2> QED
    BY <2>1, <2>2, <2>3, <2>4, Zenon DEF SendsCovered
<1> QED
  BY <1>1, <1>2, <1>3, Zenon DEF SendsCovered

(* Removing a receive puts the entry back that it had taken.               *)
LEMMA RemoveCovers ==
    ASSUME ChainInv, SendsCovered, NEW t \in Stored, ~PlanFails(HeadOf(t)), Remove(HeadOf(t))
    PROVE  SendsCovered'
<1> USE Numbers
<1> DEFINE h == HeadOf(t)
<1>0. /\ h \in Stored /\ Remove(h) /\ account[block[h].account] # None
      /\ account[block[h].account] \in AccountInfo /\ account[block[h].account].head = h
      /\ account[block[h].account].blockCount = block[h].height /\ block[h].successor = Zero
      /\ Previous(h) # Zero => Previous(h) \in Stored /\ Previous(h) \notin pruned
  BY RemovableHead, Zenon
<1> HIDE DEF h
<1>1. /\ Stored' = Stored \ {h}
      /\ RollsBackSend(h) <=> Lowers(h)
      /\ RollsBackReceive(h) <=> Raises(h)
      /\ ~(Lowers(h) /\ Raises(h))
      /\ \A x \in Stored' :
            /\ x # h /\ x \in Stored
            /\ DependentLink(x)' = DependentLink(x) /\ block'[x].account = block[x].account
            /\ Lowers(x)' <=> Lowers(x)
            /\ Raises(x)' <=> Raises(x)
            /\ Confirmed(x)' <=> Confirmed(x)
  BY <1>0, RemoveKeeps, Zenon
<1>2. Raises(h) => 0 < RestoredPending(h).amount
  <2>1. RestoredPending(h).amount = HeadBalance(h) - BalanceBefore(h)
    BY DEF RestoredPending
  <2>2. BalanceBefore(h) \in Nat /\ HeadBalance(h) \in Nat
    BY <1>0, BalanceType DEF HeadBalance, AccountInfo
  <2>3. Raises(h) => BalanceBefore(h) < HeadBalance(h)
    BY <1>1, <2>2 DEF RollsBackReceive
  <2> QED
    BY <2>1, <2>2, <2>3
<1> SUFFICES ASSUME NEW x \in Stored', Lowers(x)'
             PROVE  Confirmed(x)' \/ Received(x)' \/ Pending(x)'
  BY Zenon DEF SendsCovered
<1>3. x \in Stored /\ x # h /\ Lowers(x) /\ x # Zero
  BY <1>1 DEF Stored
<1>4. CASE Confirmed(x)
  BY <1>1, <1>4, Zenon
<1>5. ASSUME Raises(h), block[h].account = DestinationOrLink(x), SourceOrLink(h) = x
      PROVE  Pending(x)'
  <2>1. ~RollsBackSend(h) /\ RollsBackReceive(h)
    BY <1>1, <1>5, Zenon
  <2>2. Receivable(DestinationOrLink(x), x)' = {RestoredPending(h)}
    BY <1>0, <1>5, <2>1, RemovedPending, Zenon
  <2> QED
    BY <1>2, <1>5, <2>2, Zenon DEF Pending
<1>6. CASE Received(x)
  <2>1. PICK r \in Stored : /\ DependentLink(r) = x /\ block[r].account = DestinationOrLink(x)
                            /\ Raises(r)
    BY <1>6, Zenon DEF Received
  <2>2. CASE r = h
    <3>1. r \in Hash
      BY DEF Stored
    <3>2. SourceOrLink(h) = x
      BY <1>3, <2>1, <2>2, <3>1, DependsOnLink, Zenon
    <3> QED
      BY <1>5, <2>1, <2>2, <3>2, Zenon
  <2>3. CASE r # h
    <3>1. r \in Stored'
      BY <1>1, <2>3, Zenon
    <3>2. /\ DependentLink(r)' = x
          /\ block'[r].account = DestinationOrLink(x) /\ Raises(r)'
      BY <1>1, <2>1, <3>1, Zenon
    <3> QED
      BY <3>1, <3>2, Zenon DEF Received
  <2> QED
    BY <2>2, <2>3, Zenon
<1>7. CASE Pending(x)
  <2>1. CASE Raises(h) /\ block[h].account = DestinationOrLink(x) /\ SourceOrLink(h) = x
    BY <1>5, <2>1, Zenon
  <2>2. CASE ~(Raises(h) /\ block[h].account = DestinationOrLink(x) /\ SourceOrLink(h) = x)
    <3>1. \A b, s : s # h /\ ~(/\ ~RollsBackSend(h) /\ RollsBackReceive(h)
                              /\ b = block[h].account /\ s = SourceOrLink(h))
                       => Receivable(b, s)' = Receivable(b, s)
      BY <1>0, RemovedPending, Zenon
    <3>2. Receivable(DestinationOrLink(x), x)' = Receivable(DestinationOrLink(x), x)
      BY <1>1, <1>3, <2>2, <3>1, Zenon
    <3> QED
      BY <1>7, <3>2, Zenon DEF Pending
  <2> QED
    BY <2>1, <2>2, Zenon
<1> QED
  BY <1>3, <1>4, <1>6, <1>7, Zenon DEF SendsCovered

(* A receive is pruned only after its send was cemented.                   *)
LEMMA PruneCovers ==
    ASSUME ChainInv, ConfirmedClosed, SendsCovered, PruneStep
    PROVE  SendsCovered'
<1> USE Numbers
<1>1. /\ Stored' = Stored \ {prune} /\ Confirmed(prune) /\ prune \in Stored
      /\ \A x \in Stored' :
            /\ x \in Stored /\ block'[x] = block[x]
            /\ DependentLink(x)' = DependentLink(x)
            /\ Lowers(x)' => Lowers(x)
            /\ Raises(x) => Raises(x)'
            /\ Confirmed(x)' <=> Confirmed(x)
  BY PruneKeeps, Zenon
<1> SUFFICES ASSUME NEW x \in Stored', Lowers(x)'
             PROVE  Confirmed(x)' \/ Received(x)' \/ Pending(x)'
  BY Zenon DEF SendsCovered
<1>2. x \in Stored /\ Lowers(x) /\ x # Zero
  BY <1>1 DEF Stored
<1>3. CASE Confirmed(x)
  BY <1>1, <1>3, Zenon
<1>4. CASE Received(x)
  <2>1. PICK r \in Stored : /\ DependentLink(r) = x /\ block[r].account = DestinationOrLink(x)
                            /\ Raises(r)
    BY <1>4, Zenon DEF Received
  <2>2. CASE r = prune
    <3>1. x \in DependentBlocks(r)
      BY <1>2, <2>1, Zenon DEF DependentBlocks
    <3>2. ConfirmedOrPruned(x)
      BY <1>1, <2>2, <3>1, Zenon DEF ConfirmedClosed, DependentsConfirmed
    <3>3. Confirmed(x)
      BY <1>2, <3>2, Zenon DEF ConfirmedOrPruned, ChainInv, PrunedGone
    <3> QED
      BY <1>3, <3>3, Zenon
  <2>3. CASE r # prune
    <3>1. r \in Stored'
      BY <1>1, <2>3, Zenon
    <3>2. /\ DependentLink(r)' = x
          /\ block'[r].account = DestinationOrLink(x) /\ Raises(r)'
      BY <1>1, <2>1, <3>1, Zenon
    <3> QED
      BY <3>1, <3>2, Zenon DEF Received
  <2> QED
    BY <2>2, <2>3, Zenon
<1>5. CASE Pending(x)
  <2>1. pending' = pending
    BY Zenon DEF PruneStep
  <2> QED
    BY <1>5, <2>1, Zenon DEF Pending, Receivable
<1> QED
  BY <1>2, <1>3, <1>4, <1>5, Zenon DEF SendsCovered

(* A block that one of the same account stands on is cemented with it.     *)
LEMMA ConfirmedBelow ==
    ASSUME ChainInv, NEW x \in Stored, NEW y \in Stored, Confirmed(y),
           block[x].account = block[y].account, block[x].height <= block[y].height
    PROVE  Confirmed(x)
<1>1. /\ block[x].height \in Nat /\ block[y].height \in Nat
      /\ confirmation[block[y].account].height \in Nat
  BY DEF ChainInv, TypeOK, Stored, Sideband, ConfirmationHeightInfo
<1>2. block[y].height <= confirmation[block[y].account].height
  BY Zenon DEF Confirmed
<1>3. block[x].height <= confirmation[block[x].account].height
  BY <1>1, <1>2, SMTT(30)
<1> QED
  BY <1>3, Zenon DEF Confirmed

(* A head that cannot be planned for is cemented: a send that is not is    *)
(* pending, or was received and its destination has a head.                *)
LEMMA OnlyCementedFails ==
    ASSUME ChainInv, SendsCovered, NEW t \in Stored, PlanFails(HeadOf(t))
    PROVE  Confirmed(t)
<1> USE Numbers
<1> DEFINE h == HeadOf(t)
           a == block[t].account
<1>1. /\ a \in Account /\ account[a] # None /\ account[a].head = h
      /\ block[t].height <= account[a].blockCount
  <2>1. a \in Account
    BY DEF ChainInv, TypeOK, Stored, Sideband
  <2>2. account[a] # None
    BY Zenon DEF ChainInv, ChainIntact
  <2> QED
    BY <2>1, <2>2, Zenon DEF ChainInv, HeightBound, HeadOf
<1>2. /\ h \in Stored /\ block[h].account = a /\ block[h].height = account[a].blockCount
      /\ Balance(h) = account[a].balance /\ h \in Hash /\ h # Zero
  <2>1. /\ h \in Stored /\ block[h].account = a /\ block[h].height = account[a].blockCount
        /\ Balance(h) = account[a].balance
    BY <1>1, Zenon DEF ChainInv, AccountIntact
  <2> QED
    BY <2>1 DEF Stored
<1>3. PlanFails(h)
  OBVIOUS
<1> HIDE DEF h
<1>4. ASSUME Previous(h) # Zero, Previous(h) \notin Stored PROVE Confirmed(h)
  BY <1>2, <1>4, Zenon DEF ChainInv, ChainIntact, PrunedBelow
<1>5. ASSUME block[h].height <= confirmation[block[h].account].height PROVE Confirmed(h)
  BY <1>2, <1>5, Zenon DEF Confirmed
<1>6. ASSUME RollsBackSend(h), Receivable(DestinationOrLink(h), h) = {}, DestinationHead(h) = None
      PROVE  Confirmed(h)
  <2>1. Balance(h) < BalanceBefore(h)
    BY <1>2, <1>6, Zenon DEF RollsBackSend, HeadBalance
  <2>2. Lowers(h)
    <3>1. Balance(h) \in Nat
      BY <1>2, BalanceType, Zenon
    <3>2. Previous(h) \notin Stored => BalanceBefore(h) = 0
      BY Zenon DEF BalanceBefore
    <3>3. Previous(h) \in Stored
      BY <2>1, <3>1, <3>2
    <3> QED
      BY <2>1, <3>3, Zenon DEF Lowers, BalanceBefore
  <2>3. ~Received(h)
    <3> SUFFICES ASSUME Received(h) PROVE FALSE
      OBVIOUS
    <3>1. PICK r \in Stored : block[r].account = DestinationOrLink(h)
      BY Zenon DEF Received
    <3>2. block[r].account \in Account /\ account[block[r].account] # None
      <4>1. block[r] \in Sideband
        BY <3>1, Zenon DEF ChainInv, TypeOK, Stored
      <4>2. block[r].account \in Account
        BY <4>1 DEF Sideband
      <4> QED
        BY <3>1, <4>2, Zenon DEF ChainInv, ChainIntact
    <3>3. account[block[r].account].head \in Hash
      BY <3>2 DEF ChainInv, TypeOK, AccountInfo
    <3>4. DestinationHead(h) = account[block[r].account].head
      BY <3>1, <3>2, Zenon DEF DestinationHead
    <3> QED
      BY <1>6, <3>3, <3>4, LedgerAssumption, Zenon
  <2> QED
    BY <1>2, <1>6, <2>2, <2>3, Zenon DEF SendsCovered, Pending
<1>7. Confirmed(h)
  BY <1>2, <1>3, <1>4, <1>5, <1>6, Zenon DEF PlanFails
<1> QED
  BY <1>1, <1>2, <1>7, ConfirmedBelow, Zenon

(* The block a rollback turns to for a received send is not cemented:      *)
(* otherwise the receive would be, and with it the send.                   *)
LEMMA DestinationUncemented ==
    ASSUME ChainInv, ConfirmedClosed, SendsCovered, NEW t \in Stored,
           ~PlanFails(HeadOf(t)), NeedsDependency(HeadOf(t))
    PROVE  ~Confirmed(DestinationHead(HeadOf(t)))
<1> USE Numbers
<1> DEFINE h == HeadOf(t)
           d == DestinationHead(h)
<1>0. /\ h \in Stored /\ h \in Hash /\ block[h].account \in Account
      /\ account[block[h].account] # None /\ account[block[h].account].head = h
      /\ confirmation[block[h].account].height < block[h].height
  BY RemovableHead, Zenon
<1>1. RollsBackSend(h) /\ Receivable(DestinationOrLink(h), h) = {} /\ d # None
  BY Zenon DEF NeedsDependency, PlanFails
<1> HIDE DEF h
<1>2. Lowers(h)
  <2>1. Balance(h) < BalanceBefore(h)
    <3>1. HeadBalance(h) < BalanceBefore(h)
      BY <1>1, Zenon DEF RollsBackSend
    <3>2. AccountIntact
      BY Zenon DEF ChainInv
    <3>3. Balance(h) = account[block[h].account].balance
      BY <1>0, <3>2, Zenon DEF AccountIntact
    <3> QED
      BY <3>1, <3>3, Zenon DEF HeadBalance
  <2>2. Balance(h) \in Nat
    BY <1>0, BalanceType, Zenon
  <2>3. Previous(h) \notin Stored => BalanceBefore(h) = 0
    BY Zenon DEF BalanceBefore
  <2>4. Previous(h) \in Stored
    BY <2>1, <2>2, <2>3
  <2> QED
    BY <2>1, <2>4, Zenon DEF Lowers, BalanceBefore
<1>3. ~Confirmed(h) /\ h \notin pruned /\ h # Zero
  <2>1. confirmation[block[h].account].height \in Nat /\ block[h].height \in Nat
    BY <1>0 DEF ChainInv, TypeOK, Stored, Sideband, ConfirmationHeightInfo
  <2>2. ~(block[h].height <= confirmation[block[h].account].height)
    BY <1>0, <2>1
  <2> QED
    BY <1>0, <2>2, Zenon DEF Confirmed, ChainInv, PrunedGone
<1>4. PICK r \in Stored : DependentLink(r) = h /\ block[r].account = DestinationOrLink(h)
  BY <1>0, <1>1, <1>2, <1>3, Zenon DEF SendsCovered, Received, Pending
<1>5. ~Confirmed(r)
  <2>1. h \in DependentBlocks(r)
    BY <1>3, <1>4, Zenon DEF DependentBlocks
  <2> QED
    BY <1>3, <2>1, Zenon DEF ConfirmedClosed, DependentsConfirmed, ConfirmedOrPruned
<1>6. /\ block[r].account \in Account /\ account[block[r].account] # None
      /\ d = account[block[r].account].head
  <2>1. block[r].account \in Account
    BY DEF ChainInv, TypeOK, Stored, Sideband
  <2>2. account[block[r].account] # None
    BY Zenon DEF ChainInv, ChainIntact
  <2> QED
    BY <1>4, <2>1, <2>2, Zenon DEF DestinationHead
<1>7. d \in Stored /\ block[d].account = block[r].account /\ block[r].height <= block[d].height
  <2>1. /\ d \in Stored /\ block[d].account = block[r].account
        /\ block[d].height = account[block[r].account].blockCount
    BY <1>6, Zenon DEF ChainInv, AccountIntact
  <2> QED
    BY <2>1, Zenon DEF ChainInv, HeightBound
<1>8. ~Confirmed(d)
  BY <1>5, <1>7, ConfirmedBelow, Zenon
<1> QED
  BY <1>8 DEF h

(* Every step of the ledger keeps the payments covered.                    *)
LEMMA NextCovers ==
    ASSUME PayInv, [Next]_vars, ChainInv', CementedStep
    PROVE  GenesisCemented' /\ SendsCovered'
<1> USE Numbers DEF PayInv
<1>1. GenesisCemented'
  <2>1. GenesisAccount \in Account
    BY BlocksAssumption
  <2>2. /\ confirmation[GenesisAccount].height \in Nat /\ confirmation'[GenesisAccount].height \in Nat
        /\ confirmation[GenesisAccount].height <= confirmation'[GenesisAccount].height
    BY <2>1 DEF ChainInv, TypeOK, ConfirmationHeightInfo, CementedStep
  <2> QED
    BY <2>2 DEF GenesisCemented
<1>2. ASSUME NEW h \in Hash, Process(h) PROVE SendsCovered'
  <2>1. Validate(h) = "Progress" /\ Insert(h)
    BY <1>2, Zenon DEF Process
  <2> QED
    BY <2>1, InsertCovers, Zenon
<1>3. ASSUME RollbackRemove PROVE SendsCovered'
  <2>1. Target \in Stored /\ ~PlanFails(HeadOf(Target)) /\ Remove(HeadOf(Target))
    BY <1>3, Zenon DEF RollbackRemove
  <2> QED
    BY <2>1, RemoveCovers, Zenon
<1>4. ASSUME PruneStep PROVE SendsCovered'
  BY <1>4, PruneCovers, Zenon
<1>5. ASSUME block' = block, pending' = pending, \A x \in Hash : Confirmed(x) => Confirmed(x)'
      PROVE  SendsCovered'
  <2>1. Stored' = Stored /\ \A x \in Stored : x \in Hash
    BY <1>5, Zenon DEF Stored
  <2>2. \A x : /\ Balance(x)' = Balance(x) /\ DependentLink(x)' = DependentLink(x)
    BY <1>5, Zenon DEF Balance, DependentLink
  <2>3. \A x : BalanceBefore(x)' = BalanceBefore(x)
    BY <2>1, <2>2, Zenon DEF BalanceBefore
  <2>4. \A x : (Lowers(x)' <=> Lowers(x)) /\ (Raises(x)' <=> Raises(x))
    BY <2>1, <2>2, <2>3, Zenon DEF Lowers, Raises
  <2>5. \A x : Received(x) => Received(x)'
    BY <1>5, <2>1, <2>2, <2>4, Zenon DEF Received
  <2>6. \A x : Pending(x) => Pending(x)'
    BY <1>5, Zenon DEF Pending, Receivable
  <2> QED
    BY <1>5, <2>1, <2>4, <2>5, <2>6, Zenon DEF SendsCovered
<1>6. ASSUME UNCHANGED tables PROVE SendsCovered'
  <2>1. block' = block /\ pending' = pending /\ confirmation' = confirmation
    BY <1>6 DEF tables
  <2>2. \A x \in Hash : Confirmed(x) => Confirmed(x)'
    BY <2>1, Zenon DEF Confirmed, Stored
  <2> QED
    BY <1>5, <2>1, <2>2, Zenon
<1>7. ASSUME NEW h \in Hash, Cement(h) PROVE SendsCovered'
  <2>1. block' = block /\ pending' = pending
    BY <1>7, Zenon DEF Cement
  <2>2. \A x \in Hash : Confirmed(x) => Confirmed(x)'
    BY <1>7, CementInv, Zenon
  <2> QED
    BY <1>5, <2>1, <2>2, Zenon
<1>8. ASSUME NEW h \in Hash, RollbackStart(h) \/ PruneStart(h) PROVE UNCHANGED tables
  BY <1>8 DEF RollbackStart, PruneStart
<1>9. RollbackDependency \/ RollbackReturn \/ RollbackFail \/ PruneEnd \/ PruneInterrupted
         \/ UNCHANGED vars => UNCHANGED tables
  BY DEF RollbackDependency, RollbackReturn, RollbackFail, PruneEnd, PruneInterrupted, vars
<1> QED
  BY <1>1, <1>2, <1>3, <1>4, <1>6, <1>7, <1>8, <1>9 DEF Next

(* Returning from a call drops the last element of the stack.              *)
LEMMA Shortened ==
    ASSUME NEW S, NEW q \in Seq(S), q # <<>>
    PROVE  /\ Len(q) - 1 \in Nat /\ Len(q) - 1 <= Len(q)
           /\ Len(SubSeq(q, 1, Len(q) - 1)) = Len(q) - 1
           /\ \A i \in 1..(Len(q) - 1) : SubSeq(q, 1, Len(q) - 1)[i] = q[i]
<1>1. Len(q) - 1 \in Nat /\ Len(q) - 1 <= Len(q)
  OBVIOUS
<1>2. PICK n \in Nat : n = Len(q) - 1 /\ n <= Len(q)
  BY <1>1
<1>3. Len(SubSeq(q, 1, n)) = n
  BY <1>2
<1>4. \A i \in 1..n : SubSeq(q, 1, n)[i] = q[i]
  BY <1>2
<1> QED
  BY <1>1, <1>2, <1>3, <1>4

(* A rollback never works for another one on a cemented block.             *)
LEMMA NextStack ==
    ASSUME PayInv, [Next]_vars, ChainInv'
    PROVE  StackUncemented'
<1> USE Numbers DEF PayInv
<1>0. rollback \in Seq(Hash) /\ rollback' \in Seq(Hash)
  BY DEF ChainInv, TypeOK
<1>1. \A i \in 1..Len(rollback) : rollback[i] \in Hash
  BY <1>0
<1>2. ASSUME NEW x \in Hash, rollback # <<>>, ~Confirmed(x) PROVE ~Confirmed(x)'
  <2>1. ~Cement(x)
    BY <1>2, Zenon DEF Cement, Busy
  <2> QED
    BY <1>2, <2>1, NewlyConfirmed, Zenon
<1>3. ASSUME NEW n \in Nat, n <= Len(rollback), Len(rollback') = n,
             \A i \in 1..n : rollback'[i] = rollback[i]
      PROVE  StackUncemented'
  <2> SUFFICES ASSUME NEW i \in 2..n, NEW x, x = rollback[i] PROVE ~Confirmed(x)'
    <3>1. \A i \in 2..n : rollback'[i] = rollback[i]
      BY <1>3
    <3> QED
      BY <1>3, <3>1 DEF StackUncemented
  <2>1. i \in 2..Len(rollback) /\ i \in 1..Len(rollback) /\ rollback # <<>>
    BY <1>0, <1>3
  <2>2. ~Confirmed(x) /\ x \in Hash
    BY <1>1, <2>1, Zenon DEF StackUncemented
  <2> QED
    BY <1>2, <2>1, <2>2, Zenon
<1>4. ASSUME rollback' = rollback PROVE StackUncemented'
  <2>1. /\ Len(rollback) \in Nat /\ Len(rollback) <= Len(rollback) /\ Len(rollback') = Len(rollback)
        /\ \A i \in 1..Len(rollback) : rollback'[i] = rollback[i]
    BY <1>0, <1>4
  <2> QED
    BY <1>3, <2>1, Zenon
<1>5. ASSUME NEW h \in Hash, RollbackStart(h) PROVE StackUncemented'
  <2>1. rollback' = <<h>>
    BY <1>5, Zenon DEF RollbackStart
  <2> QED
    BY <2>1 DEF StackUncemented
<1>6. ASSUME RollbackDependency PROVE StackUncemented'
  <2> DEFINE n == Len(rollback)
  <2>0. PICK d : d = DestinationHead(HeadOf(Target))
    BY Zenon
  <2>1. /\ rollback # <<>> /\ Target \in Stored /\ ~PlanFails(HeadOf(Target))
        /\ NeedsDependency(HeadOf(Target)) /\ rollback' = Append(rollback, d)
        /\ UNCHANGED tables
    BY <1>6, <2>0, Zenon DEF RollbackDependency
  <2>2. ~Confirmed(d)
    BY <2>0, <2>1, DestinationUncemented, Zenon
  <2>3. /\ n \in Nat /\ Len(rollback') = n + 1 /\ rollback'[n + 1] = d
        /\ \A i \in 1..n : rollback'[i] = rollback[i]
    BY <1>0, <2>1
  <2>4. d \in Hash
    BY <1>0, <2>3
  <2>5. ~Confirmed(d)'
    BY <1>2, <2>1, <2>2, <2>4, Zenon
  <2> SUFFICES ASSUME NEW i \in 2..(n + 1), NEW x, x = rollback'[i] PROVE ~Confirmed(x)'
    BY <2>3 DEF StackUncemented
  <2>6. CASE i = n + 1
    BY <2>3, <2>5, <2>6, Zenon
  <2>7. CASE i # n + 1
    <3>1. i \in 2..n /\ i \in 1..n /\ x = rollback[i]
      BY <2>3, <2>7
    <3>2. ~Confirmed(x) /\ x \in Hash
      BY <1>1, <3>1, Zenon DEF StackUncemented
    <3> QED
      BY <1>2, <2>1, <3>2, Zenon
  <2> QED
    BY <2>6, <2>7, Zenon
<1>7. ASSUME RollbackReturn PROVE StackUncemented'
  <2>1. rollback # <<>> /\ rollback' = SubSeq(rollback, 1, Len(rollback) - 1)
    BY <1>7, Zenon DEF RollbackReturn
  <2>2. /\ Len(rollback) - 1 \in Nat /\ Len(rollback) - 1 <= Len(rollback)
        /\ Len(rollback') = Len(rollback) - 1
        /\ \A i \in 1..(Len(rollback) - 1) : rollback'[i] = rollback[i]
    BY <1>0, <2>1, Shortened, Zenon
  <2> QED
    BY <1>3, <2>2, Zenon
<1>8. ASSUME RollbackFail PROVE StackUncemented'
  <2>1. rollback' = <<>>
    BY <1>8, Zenon DEF RollbackFail
  <2> QED
    BY <2>1 DEF StackUncemented
<1>9. ASSUME NEW h \in Hash, Process(h) \/ Cement(h) \/ PruneStart(h) PROVE rollback' = rollback
  BY <1>9 DEF Process, Cement, PruneStart
<1>10. RollbackRemove \/ PruneStep \/ PruneEnd \/ PruneInterrupted \/ UNCHANGED vars
          => rollback' = rollback
  BY DEF RollbackRemove, PruneStep, PruneEnd, PruneInterrupted, vars
<1> QED
  BY <1>4, <1>5, <1>6, <1>7, <1>8, <1>9, <1>10 DEF Next

(* The genesis block is cemented and nothing has been sent.                *)
LEMMA InitPay == Init => GenesisCemented /\ SendsCovered /\ StackUncemented
<1> SUFFICES ASSUME Init PROVE GenesisCemented /\ SendsCovered /\ StackUncemented
  OBVIOUS
<1>1. GenesisCemented
  <2>1. confirmation[GenesisAccount] = [height |-> 1, frontier |-> Genesis]
    BY BlocksAssumption, Zenon DEF Init
  <2> QED
    BY <2>1 DEF GenesisCemented
<1>2. SendsCovered
  <2> SUFFICES ASSUME NEW h \in Stored, Lowers(h) PROVE FALSE
    BY Zenon DEF SendsCovered
  <2>1. h = Genesis
    BY Zenon DEF Init, Stored
  <2>2. Previous(Genesis) = Zero /\ Zero \notin Stored
    BY BlocksAssumption DEF Previous, Stored
  <2> QED
    BY <2>1, <2>2, Zenon DEF Lowers
<1>3. StackUncemented
  <2>1. rollback = <<>>
    BY Zenon DEF Init
  <2>2. 2..Len(rollback) = {}
    BY <2>1
  <2> QED
    BY <2>2, Zenon DEF StackUncemented
<1> QED
  BY <1>1, <1>2, <1>3, Zenon

(* Money sent is never lost: while a send is not cemented, the pending     *)
(* table or a stored receive accounts for it.                              *)
THEOREM PaymentsAlwaysCovered == Spec => []PayInv
<1>1. ASSUME PayInv, ConfirmedClosed', [Next]_vars PROVE PayInv'
  <2>1. ChainInv' /\ CementedStep
    BY <1>1, NextInv, Zenon DEF PayInv
  <2> QED
    BY <1>1, <2>1, NextCovers, NextStack, Zenon DEF PayInv
<1>2. Init /\ ConfirmedClosed => PayInv
  BY InitInv, InitPay, Zenon DEF PayInv
<1> QED
  BY <1>1, <1>2, ConfirmedAlwaysClosed, PTL DEF Spec

OutcomeStep ==
    rollback # <<>> /\ rollback' = <<>> => rollback[1] \notin Stored' \/ Confirmed(rollback[1])

(* A rollback ends with an error only at a cemented block.                 *)
LEMMA OutcomeHolds ==
    ASSUME PayInv, [Next]_vars
    PROVE  OutcomeStep
<1> USE Numbers
<1> SUFFICES ASSUME rollback # <<>>, rollback' = <<>>
             PROVE  rollback[1] \notin Stored' \/ Confirmed(rollback[1])
  BY DEF OutcomeStep
<1>1. rollback \in Seq(Hash) /\ Len(rollback) \in Nat /\ Len(rollback) # 0
  BY DEF PayInv, ChainInv, TypeOK
<1>2. CASE RollbackReturn
  <2>1. SubSeq(rollback, 1, Len(rollback) - 1) = <<>> /\ Target \notin Stored /\ block' = block
    BY <1>2 DEF RollbackReturn, tables
  <2>2. Len(rollback) = 1
    <3>1. Len(SubSeq(rollback, 1, Len(rollback) - 1)) = Len(rollback) - 1
      BY <1>1, Shortened, Zenon
    <3>2. Len(<<>>) = 0
      OBVIOUS
    <3>3. Len(rollback) - 1 = 0
      BY <2>1, <3>1, <3>2, Zenon
    <3> QED
      BY <1>1, <3>3
  <2>3. Stored' = Stored
    BY <2>1, Zenon DEF Stored
  <2> QED
    BY <2>1, <2>2, <2>3, Zenon DEF Target
<1>3. CASE RollbackFail
  <2>1. Target \in Stored /\ PlanFails(HeadOf(Target))
    BY <1>3, Zenon DEF RollbackFail
  <2>2. Confirmed(Target)
    BY <2>1, OnlyCementedFails, Zenon DEF PayInv
  <2>3. Len(rollback) \notin 2..Len(rollback)
    BY <2>2, Zenon DEF PayInv, StackUncemented, Target
  <2>4. Len(rollback) = 1
    <3>1. PICK n \in Nat : n = Len(rollback) /\ n # 0 /\ n \notin 2..n
      BY <1>1, <2>3, Zenon
    <3>2. n = 1
      BY <3>1
    <3> QED
      BY <3>1, <3>2, Zenon
  <2> QED
    BY <2>2, <2>4, Zenon DEF Target
<1>4. RollbackReturn \/ RollbackFail
  <2>1. ASSUME NEW h \in Hash, Process(h) \/ Cement(h) \/ PruneStart(h) PROVE rollback' = rollback
    BY <2>1 DEF Process, Cement, PruneStart
  <2>2. RollbackRemove \/ PruneStep \/ PruneEnd \/ PruneInterrupted \/ UNCHANGED vars
           => rollback' = rollback
    BY DEF RollbackRemove, PruneStep, PruneEnd, PruneInterrupted, vars
  <2>3. ASSUME NEW h \in Hash PROVE ~RollbackStart(h)
    BY Zenon DEF RollbackStart, Busy
  <2>4. ~RollbackDependency
    BY <1>1 DEF RollbackDependency
  <2> QED
    BY <2>1, <2>2, <2>3, <2>4 DEF Next
<1> QED
  BY <1>2, <1>3, <1>4, Zenon

(* A rollback removes the block it was asked for unless that block is      *)
(* cemented: there is no other way for it to fail.                         *)
THEOREM RollbackSucceeds == Spec => RollbackOutcome
<1>1. Spec => [][OutcomeStep]_vars
  BY OutcomeHolds, PaymentsAlwaysCovered, PTL DEF Spec
<1> QED
  BY <1>1 DEF RollbackOutcome, OutcomeStep

-----------------------------------------------------------------------------
(* Dependencies.  The planner sees from the balances alone whether a block *)
(* is a send, so that a legacy send of nothing is rolled back without a    *)
(* look at its receive (rollback_planner.rs).  The ledger without such     *)
(* blocks:                                                                 *)
NoEmptySend ==
    \A h \in Stored : Type(h) = "send" /\ Previous(h) \in Stored
                         => Balance(h) # Balance(Previous(h))

(* A send, as far as the block before it can still tell.                   *)
SendLike(h) == Previous(h) \in pruned \/ Lowers(h)

Unreceived(s) == \A r \in Stored : DependentLink(r) # s

(* An entry of the pending table is the entry of a send that no stored     *)
(* block has received.                                                     *)
PendingSound ==
    \A p \in pending : p.hash \in Hash =>
        /\ p.hash \in Stored \cup pruned /\ (p.hash \in Stored => SendLike(p.hash))
        /\ p.account = DestinationOrLink(p.hash)
        /\ Unreceived(p.hash)

(* A stored receive has its send to itself.                                *)
ReceiptSound ==
    \A r \in Stored : DependentLink(r) # Zero =>
        /\ DependentLink(r) \in Stored \cup pruned
        /\ DependentLink(r) \in Stored => SendLike(DependentLink(r))
        /\ block[r].account = DestinationOrLink(DependentLink(r))
        /\ \A q \in Stored : DependentLink(q) = DependentLink(r) => q = r

SendField ==
    \A h \in Stored : block[h].isSend /\ Type(h) = "state" => SendLike(h)

DepInv == PayInv /\ PendingSound /\ ReceiptSound /\ SendField

(* A new send that sends something lowers the balance.                     *)
LEMMA InsertedSend ==
    ASSUME ChainInv, GenesisCemented, NEW h \in Hash, Validate(h) = "Progress", Insert(h),
           NoEmptySend', IsSend(h)
    PROVE  Lowers(h)'
<1> USE Numbers
<1>1. Balance(h)' = NewBalance(h) /\ BalanceBefore(h)' = OldBalance(h) /\ Stored' = Stored \cup {h}
  BY InsertedPayments, InsertedBlocks, Zenon
<1>2. Type(h) \in {"send", "state"} => NewBalance(h) = Block[h].balance /\ Block[h].balance \in Nat
  BY AcceptedBalance, BlockContent, Zenon
<1>3. Type(h) \in {"send", "state"} /\ AccountExists(h)
  <2>1. ~AccountExists(h) => Type(h) \in {"open", "state"}
    BY AcceptedBlock, Zenon
  <2> QED
    BY <2>1 DEF IsSend
<1>4. Previous(h) \in Stored /\ Previous(h) \in Stored' /\ PreviousStored(h)
      /\ Previous(h) = account[AccountOf(h)].head /\ AccountOf(h) \in Account
      /\ account[AccountOf(h)] # None
  BY <1>1, <1>3, AcceptedBlock, Zenon DEF OldInfo
<1>5. Balance(Previous(h))' = OldBalance(h)
  BY <1>1, <1>4, Zenon DEF BalanceBefore
<1>6. OldBalance(h) = OldInfo(h).balance /\ OldBalance(h) = Balance(Previous(h))
  BY <1>3, <1>4, Zenon DEF OldBalance, OldInfo, ChainInv, AccountIntact
<1>7. OldBalance(h) \in Nat
  BY <1>4, <1>6, BalanceType, Zenon
<1>8. NewBalance(h) < OldBalance(h)
  <2>1. CASE Type(h) = "state"
    BY <1>2, <1>6, <2>1 DEF IsSend
  <2>2. CASE Type(h) = "send"
    <3>1. Block[h].balance <= OldBalance(h)
      BY <1>4, <1>6, <2>2, AcceptedBlock, Zenon DEF PreviousBalance
    <3>2. Balance(h)' # Balance(Previous(h))'
      BY <1>1, <1>4, <2>2, Zenon DEF NoEmptySend
    <3> QED
      BY <1>1, <1>2, <1>5, <1>7, <2>2, <3>1, <3>2, SMTT(30)
  <2> QED
    BY <1>3, <2>1, <2>2
<1> QED
  BY <1>1, <1>4, <1>5, <1>8, Zenon DEF Lowers

(* Inserting a block keeps entries and receives apart.                     *)
LEMMA InsertSound ==
    ASSUME DepInv, NEW h \in Hash, Validate(h) = "Progress", Insert(h), NoEmptySend'
    PROVE  PendingSound' /\ ReceiptSound' /\ SendField'
<1> USE Numbers
<1>a. ChainInv /\ GenesisCemented /\ PendingSound /\ ReceiptSound /\ SendField
  BY Zenon DEF DepInv, PayInv
<1>1. /\ Stored' = Stored \cup {h} /\ block'[h].account = AccountOf(h)
      /\ block'[h].isSend = IsSend(h) /\ pruned' = pruned
  <2>1. block'[h] = NewSideband(h) /\ Stored' = Stored \cup {h}
    BY <1>a, InsertedBlocks, Zenon
  <2> QED
    BY <2>1 DEF NewSideband, Insert
<1>2. h \notin Stored /\ h \notin pruned /\ h # Zero
  BY <1>a, AcceptedBlock, Zenon
<1>3. \A x \in Stored : /\ x # h /\ DependentLink(x)' = DependentLink(x)
                        /\ block'[x].account = block[x].account
                        /\ block'[x].isSend = block[x].isSend
                        /\ Lowers(x)' <=> Lowers(x)
  BY <1>a, InsertKeeps, Zenon
<1>4. /\ IsReceive(h) =>
            /\ PendingReceive(h) # {}
            /\ PendingReceive(h) = Receivable(AccountOf(h), SourceOrLink(h))
            /\ SourceOrLink(h) \in Stored \cup pruned
            /\ DependentLink(h)' = SourceOrLink(h)
      /\ DependentLink(h)' # Zero => IsReceive(h)
      /\ IsSend(h) => DependentLink(h)' = Zero
  BY <1>a, InsertedPayments, Zenon
<1>5. IsSend(h) => Lowers(h)'
  BY <1>a, InsertedSend, Zenon
<1>6. \A x \in Stored : SendLike(x) => SendLike(x)'
  BY <1>1, <1>3, Zenon DEF SendLike
<1>7. ASSUME IsReceive(h)
      PROVE  /\ SourceOrLink(h) \in Hash
             /\ SourceOrLink(h) \in Stored => SendLike(SourceOrLink(h))
             /\ AccountOf(h) = DestinationOrLink(SourceOrLink(h))
             /\ Unreceived(SourceOrLink(h))
  <2>1. PICK p \in Receivable(AccountOf(h), SourceOrLink(h)) : TRUE
    BY <1>4, <1>7, Zenon
  <2>2. p \in pending /\ p.account = AccountOf(h) /\ p.hash = SourceOrLink(h)
    BY <2>1, Zenon DEF Receivable
  <2>3. SourceOrLink(h) \in Hash
    BY <1>4, <1>7, <1>a DEF Stored, ChainInv, TypeOK
  <2> QED
    BY <1>a, <2>2, <2>3, Zenon DEF PendingSound
<1>8. ReceiptSound'
  <2> SUFFICES ASSUME NEW r \in Stored', NEW s, s = DependentLink(r)', s # Zero
               PROVE  /\ s \in Stored' \cup pruned'
                      /\ s \in Stored' => SendLike(s)'
                      /\ block'[r].account = DestinationOrLink(s)
                      /\ \A q \in Stored' : DependentLink(q)' = s => q = r
    BY Zenon DEF ReceiptSound
  <2>1. CASE r = h
    <3>1. IsReceive(h) /\ s = SourceOrLink(h) /\ s \in Stored \cup pruned /\ s # h
      BY <1>2, <1>4, <2>1, Zenon
    <3>2. ASSUME NEW q \in Stored, DependentLink(q)' = s PROVE FALSE
      BY <1>3, <1>7, <3>1, <3>2, Zenon DEF Unreceived
    <3> QED
      BY <1>1, <1>6, <1>7, <2>1, <3>1, <3>2, Zenon
  <2>2. CASE r \in Stored
    <3>1. /\ s = DependentLink(r) /\ s \in Stored \cup pruned
          /\ s \in Stored => SendLike(s)
          /\ block[r].account = DestinationOrLink(s)
          /\ \A q \in Stored : DependentLink(q) = s => q = r
      BY <1>3, <1>a, <2>2, Zenon DEF ReceiptSound
    <3>2. DependentLink(h)' # s
      BY <1>4, <1>7, <2>2, <3>1, Zenon DEF Unreceived
    <3>3. \A q \in Stored' : DependentLink(q)' = s => q = r
      BY <1>1, <1>3, <3>1, <3>2, Zenon
    <3> QED
      BY <1>1, <1>2, <1>3, <1>6, <2>2, <3>1, <3>3, Zenon
  <2> QED
    BY <1>1, <2>1, <2>2, Zenon
<1>9. PendingSound'
  <2> SUFFICES ASSUME NEW p \in pending', p.hash \in Hash
               PROVE  /\ p.hash \in Stored' \cup pruned'
                      /\ p.hash \in Stored' => SendLike(p.hash)'
                      /\ p.account = DestinationOrLink(p.hash)
                      /\ \A r \in Stored' : DependentLink(r)' # p.hash
    BY Zenon DEF PendingSound, Unreceived
  <2>1. \/ p \in NewPending(h)
        \/ p \in pending /\ p \notin ReceivedPending(h)
    BY Zenon DEF Insert, PutPending
  <2>2. CASE p \in NewPending(h)
    <3>1. IsSend(h)
      BY <2>2, SMTT(30) DEF NewPending
    <3>2. p.account = DestinationOrLink(h) /\ p.hash = h
      BY <2>2, SMTT(30) DEF NewPending
    <3>3. \A r \in Stored : DependentLink(r) # h
      BY <1>2, <1>a, Zenon DEF ReceiptSound
    <3>4. \A r \in Stored' : DependentLink(r)' # h
      BY <1>1, <1>2, <1>3, <1>4, <3>1, <3>3, Zenon
    <3>5. SendLike(h)'
      BY <1>5, <3>1, Zenon DEF SendLike
    <3> QED
      BY <1>1, <3>2, <3>4, <3>5, Zenon
  <2>3. CASE p \in pending /\ p \notin ReceivedPending(h)
    <3>1. /\ p.hash \in Stored \cup pruned
          /\ p.hash \in Stored => SendLike(p.hash)
          /\ p.account = DestinationOrLink(p.hash)
          /\ \A r \in Stored : DependentLink(r) # p.hash
      BY <1>a, <2>3, Zenon DEF PendingSound, Unreceived
    <3>2. DependentLink(h)' # p.hash
      <4> SUFFICES ASSUME DependentLink(h)' = p.hash PROVE FALSE
        OBVIOUS
      <4>1. IsReceive(h) /\ SourceOrLink(h) = p.hash
        BY <1>4, Zenon
      <4>2. p.account = AccountOf(h)
        BY <1>7, <3>1, <4>1, Zenon
      <4> QED
        BY <2>3, <4>1, <4>2, Zenon DEF ReceivedPending, Receivable
    <3>3. \A r \in Stored' : DependentLink(r)' # p.hash
      BY <1>1, <1>3, <3>1, <3>2, Zenon
    <3>4. p.hash # h
      BY <1>2, <3>1, Zenon
    <3> QED
      BY <1>1, <1>6, <3>1, <3>3, <3>4, Zenon
  <2> QED
    BY <2>1, <2>2, <2>3, Zenon
<1>10. SendField'
  <2>1. ASSUME NEW x \in Stored, block'[x].isSend, Type(x) = "state" PROVE SendLike(x)'
    BY <1>3, <1>6, <1>a, <2>1, Zenon DEF SendField
  <2>2. ASSUME block'[h].isSend PROVE SendLike(h)'
    BY <1>1, <1>5, <2>2, Zenon DEF SendLike
  <2> QED
    BY <1>1, <2>1, <2>2, Zenon DEF SendField
<1> QED
  BY <1>8, <1>9, <1>10, Zenon

(* Removing a block: a send goes only with its entry, which shows that no  *)
(* block has received it; a receive leaves the entry of its send behind.   *)
LEMMA RemoveSound ==
    ASSUME DepInv, NEW t \in Stored, ~PlanFails(HeadOf(t)), ~NeedsDependency(HeadOf(t)),
           Remove(HeadOf(t))
    PROVE  PendingSound' /\ ReceiptSound' /\ SendField'
<1> USE Numbers
<1>a. ChainInv /\ GenesisCemented /\ PendingSound /\ ReceiptSound /\ SendField
  BY Zenon DEF DepInv, PayInv
<1> DEFINE h == HeadOf(t)
<1>0. /\ h \in Stored /\ h \in Hash /\ Remove(h) /\ account[block[h].account] # None
      /\ account[block[h].account] \in AccountInfo /\ account[block[h].account].head = h
      /\ account[block[h].account].blockCount = block[h].height /\ block[h].successor = Zero
      /\ Previous(h) # Zero => Previous(h) \in Stored /\ Previous(h) \notin pruned
      /\ confirmation[block[h].account].height < block[h].height
      /\ ~NeedsDependency(h)
  BY <1>a, RemovableHead, Zenon
<1> HIDE DEF h
<1>1. /\ Stored' = Stored \ {h} /\ pruned' = pruned
      /\ RollsBackSend(h) <=> Lowers(h)
      /\ RollsBackReceive(h) <=> Raises(h)
      /\ ~(Lowers(h) /\ Raises(h))
      /\ \A x \in Stored' :
            /\ x # h /\ x \in Stored
            /\ DependentLink(x)' = DependentLink(x) /\ block'[x].account = block[x].account
            /\ block'[x].isSend = block[x].isSend
            /\ Lowers(x)' <=> Lowers(x)
  BY <1>0, <1>a, RemoveKeeps, Zenon DEF Remove
<1>2. h \notin pruned /\ h # Zero /\ Previous(h) \notin pruned
  BY <1>0, <1>a, Zenon DEF ChainInv, PrunedGone, TypeOK
<1>3. SendLike(h) => Lowers(h)
  BY <1>2, Zenon DEF SendLike
<1>4. \A x \in Stored' : SendLike(x) <=> SendLike(x)'
  BY <1>1, Zenon DEF SendLike
<1>5. ASSUME NEW r \in Stored, DependentLink(r) = h PROVE FALSE
  <2>1. Lowers(h)
    BY <1>0, <1>2, <1>3, <1>5, <1>a, Zenon DEF ReceiptSound
  <2>2. PICK p \in Receivable(DestinationOrLink(h), h) : TRUE
    BY <1>0, <1>1, <2>1, Zenon DEF NeedsDependency
  <2>3. p \in pending /\ p.hash = h
    BY <2>2, Zenon DEF Receivable
  <2> QED
    BY <1>0, <1>5, <1>a, <2>3, Zenon DEF PendingSound, Unreceived
<1>6. ReceiptSound'
  <2> SUFFICES ASSUME NEW r \in Stored', NEW s, s = DependentLink(r)', s # Zero
               PROVE  /\ s \in Stored' \cup pruned'
                      /\ s \in Stored' => SendLike(s)'
                      /\ block'[r].account = DestinationOrLink(s)
                      /\ \A q \in Stored' : DependentLink(q)' = s => q = r
    BY Zenon DEF ReceiptSound
  <2>1. r \in Stored /\ s = DependentLink(r)
    BY <1>1, Zenon
  <2>2. /\ s \in Stored \cup pruned
        /\ s \in Stored => SendLike(s)
        /\ block[r].account = DestinationOrLink(s)
        /\ \A q \in Stored : DependentLink(q) = s => q = r
    BY <1>a, <2>1, Zenon DEF ReceiptSound
  <2>3. s # h
    BY <1>5, <2>1, Zenon
  <2>4. s \in Stored' \cup pruned' /\ (s \in Stored' => SendLike(s)')
    BY <1>1, <1>4, <2>2, <2>3, Zenon
  <2>5. \A q \in Stored' : DependentLink(q)' = s => q = r
    BY <1>1, <2>2, Zenon
  <2> QED
    BY <1>1, <2>2, <2>4, <2>5, Zenon
<1>7. ASSUME Raises(h), NEW s \in Hash, s = SourceOrLink(h) PROVE DependentLink(h) = s
  <2>1. Type(h) \in BlockType
    BY <1>0, BlockContent, Zenon
  <2>2. ~(block[h].isSend /\ Type(h) = "state")
    BY <1>0, <1>1, <1>3, <1>7, <1>a, Zenon DEF SendField
  <2>3. ~HasEpochLink(h)
    <3>1. Block[h].link \in DOMAIN EpochOf => Block[h].link \in Account
      BY BlocksAssumption
    <3>2. Type(h) = "state" => Block[h].link \in Hash
      BY <1>7 DEF SourceOrLink
    <3> QED
      BY <3>1, <3>2, Disjoint, Zenon DEF HasEpochLink
  <2>4. ~(Type(h) = "open" /\ Block[h].account = GenesisAccount)
    <3> SUFFICES ASSUME Type(h) = "open", Block[h].account = GenesisAccount PROVE FALSE
      OBVIOUS
    <3>1. Previous(h) = Zero
      BY <1>0, BlocksAssumption DEF Type, Previous
    <3>2. block[h].account = GenesisAccount /\ block[h].height = 1
      BY <1>0, <1>a, <3>1, Zenon DEF ChainInv, OpensOwnAccount, ChainIntact
    <3>3. confirmation[GenesisAccount].height \in Nat
      BY <1>a, BlocksAssumption DEF ChainInv, TypeOK, ConfirmationHeightInfo
    <3>4. confirmation[GenesisAccount].height < 1
      BY <1>0, <3>2, Zenon
    <3> QED
      BY <1>a, <3>3, <3>4, SMTT(30) DEF GenesisCemented
  <2> QED
    BY <1>7, <2>1, <2>2, <2>3, <2>4 DEF DependentLink, SourceOrLink, BlockType
<1>8. PendingSound'
  <2> SUFFICES ASSUME NEW p \in pending', NEW s \in Hash, s = p.hash
               PROVE  /\ s \in Stored' \cup pruned'
                      /\ s \in Stored' => SendLike(s)'
                      /\ p.account = DestinationOrLink(s)
                      /\ \A r \in Stored' : DependentLink(r)' # s
    BY Zenon DEF PendingSound, Unreceived
  <2>1. CASE p \in pending
    <3>1. /\ s \in Stored \cup pruned
          /\ s \in Stored => SendLike(s)
          /\ p.account = DestinationOrLink(s)
          /\ \A r \in Stored : DependentLink(r) # s
      BY <1>a, <2>1, Zenon DEF PendingSound, Unreceived
    <3>2. s # h
      <4> SUFFICES ASSUME s = h PROVE FALSE
        OBVIOUS
      <4>1. RollsBackSend(h)
        BY <1>0, <1>1, <1>3, <3>1, Zenon
      <4>2. pending' = pending \ Receivable(DestinationOrLink(h), h)
        BY <1>0, <4>1, RemovedPending, Zenon
      <4>3. p \in Receivable(DestinationOrLink(h), h)
        BY <2>1, <3>1, Zenon DEF Receivable
      <4> QED
        BY <4>2, <4>3, Zenon
    <3>3. s \in Stored' \cup pruned' /\ (s \in Stored' => SendLike(s)')
      BY <1>1, <1>4, <3>1, <3>2, Zenon
    <3>4. \A r \in Stored' : DependentLink(r)' # s
      BY <1>1, <3>1, Zenon
    <3> QED
      BY <3>1, <3>3, <3>4, Zenon
  <2>2. CASE p \notin pending
    <3>1. Raises(h) /\ p = RestoredPending(h)
      BY <1>0, <1>1, <2>2, Zenon DEF Remove, PutPending
    <3>2. p.account = block[h].account /\ s = SourceOrLink(h)
      BY <3>1 DEF RestoredPending
    <3>3. DependentLink(h) = s /\ s # Zero
      BY <1>7, <3>1, <3>2, Zenon
    <3>4. /\ s \in Stored \cup pruned
          /\ s \in Stored => SendLike(s)
          /\ block[h].account = DestinationOrLink(s)
          /\ \A q \in Stored : DependentLink(q) = s => q = h
      BY <1>0, <1>a, <3>3, Zenon DEF ReceiptSound
    <3>5. s # h
      BY <1>0, <1>5, <3>3, Zenon
    <3>6. s \in Stored' \cup pruned' /\ (s \in Stored' => SendLike(s)')
      BY <1>1, <1>4, <3>4, <3>5, Zenon
    <3>7. \A r \in Stored' : DependentLink(r)' # s
      BY <1>1, <3>4, Zenon
    <3> QED
      BY <3>2, <3>4, <3>6, <3>7, Zenon
  <2> QED
    BY <2>1, <2>2, Zenon
<1>9. SendField'
  BY <1>1, <1>4, <1>a, Zenon DEF SendField
<1> QED
  BY <1>6, <1>8, <1>9, Zenon

(* Steps that neither insert nor remove a block.  Pruning one hides the    *)
(* balance before the next, which then stands on a pruned block.           *)
LEMMA OtherSound ==
    ASSUME DepInv, Stored' \subseteq Stored, Stored' \cup pruned' = Stored \cup pruned,
           pending' = pending, pruned \subseteq pruned',
           \A x \in Stored' : /\ block'[x].account = block[x].account
                              /\ block'[x].isSend = block[x].isSend
                              /\ Lowers(x) => Lowers(x)' \/ Previous(x) \in pruned'
    PROVE  PendingSound' /\ ReceiptSound' /\ SendField'
<1>a. PendingSound /\ ReceiptSound /\ SendField
  BY Zenon DEF DepInv, PayInv
<1>1. \A x \in Stored' : DependentLink(x)' = DependentLink(x)
  BY Zenon DEF DependentLink
<1>2. \A x \in Stored' : SendLike(x) => SendLike(x)'
  BY Zenon DEF SendLike
<1>3. ReceiptSound'
  <2> SUFFICES ASSUME NEW r \in Stored', NEW s, s = DependentLink(r)', s # Zero
               PROVE  /\ s \in Stored' \cup pruned'
                      /\ s \in Stored' => SendLike(s)'
                      /\ block'[r].account = DestinationOrLink(s)
                      /\ \A q \in Stored' : DependentLink(q)' = s => q = r
    BY Zenon DEF ReceiptSound
  <2>1. r \in Stored /\ s = DependentLink(r)
    BY <1>1, Zenon
  <2>2. /\ s \in Stored \cup pruned
        /\ s \in Stored => SendLike(s)
        /\ block[r].account = DestinationOrLink(s)
        /\ \A q \in Stored : DependentLink(q) = s => q = r
    BY <1>a, <2>1, Zenon DEF ReceiptSound
  <2>3. \A q \in Stored' : DependentLink(q)' = s => q = r
    BY <1>1, <2>2, Zenon
  <2>4. s \in Stored' => SendLike(s)'
    BY <1>2, <2>2, Zenon
  <2>5. s \in Stored' \cup pruned'
    BY <2>2, Zenon
  <2> QED
    BY <2>2, <2>3, <2>4, <2>5, Zenon
<1>4. PendingSound'
  <2> SUFFICES ASSUME NEW p \in pending, NEW s \in Hash, s = p.hash
               PROVE  /\ s \in Stored' \cup pruned'
                      /\ s \in Stored' => SendLike(s)'
                      /\ p.account = DestinationOrLink(s)
                      /\ \A r \in Stored' : DependentLink(r)' # s
    BY Zenon DEF PendingSound, Unreceived
  <2>1. /\ s \in Stored \cup pruned
        /\ s \in Stored => SendLike(s)
        /\ p.account = DestinationOrLink(s)
        /\ \A r \in Stored : DependentLink(r) # s
    BY <1>a, Zenon DEF PendingSound, Unreceived
  <2>2. \A r \in Stored' : DependentLink(r)' # s
    BY <1>1, <2>1, Zenon
  <2>3. s \in Stored' => SendLike(s)'
    BY <1>2, <2>1, Zenon
  <2>4. s \in Stored' \cup pruned'
    BY <2>1, Zenon
  <2> QED
    BY <2>1, <2>2, <2>3, <2>4, Zenon
<1>5. SendField'
  BY <1>2, <1>a, Zenon DEF SendField
<1> QED
  BY <1>3, <1>4, <1>5, Zenon

(* Every step keeps entries and receives apart.                            *)
LEMMA NextSound ==
    ASSUME DepInv, [Next]_vars, NoEmptySend'
    PROVE  PendingSound' /\ ReceiptSound' /\ SendField'
<1>a. ChainInv
  BY Zenon DEF DepInv, PayInv
<1>1. ASSUME NEW h \in Hash, Process(h) PROVE PendingSound' /\ ReceiptSound' /\ SendField'
  <2>1. Validate(h) = "Progress" /\ Insert(h)
    BY <1>1, Zenon DEF Process
  <2> QED
    BY <2>1, InsertSound, Zenon
<1>2. ASSUME RollbackRemove PROVE PendingSound' /\ ReceiptSound' /\ SendField'
  <2>1. /\ Target \in Stored /\ ~PlanFails(HeadOf(Target)) /\ ~NeedsDependency(HeadOf(Target))
        /\ Remove(HeadOf(Target))
    BY <1>2, Zenon DEF RollbackRemove
  <2> QED
    BY <2>1, RemoveSound, Zenon
<1>3. ASSUME PruneStep PROVE PendingSound' /\ ReceiptSound' /\ SendField'
  <2>1. pruned' = pruned \cup {prune} /\ pending' = pending
    BY <1>3, Zenon DEF PruneStep
  <2>2. /\ Stored' = Stored \ {prune} /\ prune \in Stored
        /\ \A x \in Stored' : block'[x] = block[x] /\ (Lowers(x) => Lowers(x)' \/ Previous(x) = prune)
    BY <1>3, <1>a, PruneKeeps, Zenon
  <2>3. /\ Stored' \subseteq Stored /\ Stored' \cup pruned' = Stored \cup pruned
        /\ pruned \subseteq pruned' /\ prune \in pruned'
    BY <2>1, <2>2, Zenon
  <2>4. \A x \in Stored' : /\ block'[x].account = block[x].account
                           /\ block'[x].isSend = block[x].isSend
                           /\ Lowers(x) => Lowers(x)' \/ Previous(x) \in pruned'
    BY <2>2, <2>3, Zenon
  <2> QED
    BY <2>1, <2>3, <2>4, OtherSound, Zenon
<1>4. ASSUME block' = block, pending' = pending, pruned' = pruned
      PROVE  PendingSound' /\ ReceiptSound' /\ SendField'
  <2>1. Stored' = Stored
    BY <1>4, Zenon DEF Stored
  <2>2. \A x : Balance(x)' = Balance(x)
    BY <1>4, Zenon DEF Balance
  <2>3. \A x : Lowers(x)' <=> Lowers(x)
    BY <2>1, <2>2, Zenon DEF Lowers
  <2>4. /\ Stored' \subseteq Stored /\ Stored' \cup pruned' = Stored \cup pruned
        /\ pruned \subseteq pruned'
    BY <1>4, <2>1, Zenon
  <2>5. \A x \in Stored' : /\ block'[x].account = block[x].account
                           /\ block'[x].isSend = block[x].isSend
                           /\ Lowers(x) => Lowers(x)' \/ Previous(x) \in pruned'
    BY <1>4, <2>3, Zenon
  <2> QED
    BY <1>4, <2>4, <2>5, OtherSound, Zenon
<1>5. ASSUME NEW h \in Hash, RollbackStart(h) \/ PruneStart(h) \/ Cement(h)
      PROVE  block' = block /\ pending' = pending /\ pruned' = pruned
  BY <1>5 DEF RollbackStart, PruneStart, Cement, tables
<1>6. RollbackDependency \/ RollbackReturn \/ RollbackFail \/ PruneEnd \/ PruneInterrupted
         \/ UNCHANGED vars => block' = block /\ pending' = pending /\ pruned' = pruned
  BY DEF RollbackDependency, RollbackReturn, RollbackFail, PruneEnd, PruneInterrupted, vars, tables
<1> QED
  BY <1>1, <1>2, <1>3, <1>4, <1>5, <1>6 DEF Next

(* A block never outlives a block it depends on, in a ledger without       *)
(* legacy sends of nothing.                                                *)
THEOREM DependenciesStay == Spec /\ []NoEmptySend => []DependenciesPresent
<1> USE Numbers
<1>1. Init => PendingSound /\ ReceiptSound /\ SendField
  <2> SUFFICES ASSUME Init PROVE PendingSound /\ ReceiptSound /\ SendField
    OBVIOUS
  <2>1. \A h \in Stored : h = Genesis
    BY Zenon DEF Init, Stored
  <2>2. Type(Genesis) = "open" /\ Block[Genesis].account = GenesisAccount
    BY BlocksAssumption DEF Type
  <2>3. \A h \in Stored : DependentLink(h) = Zero /\ Type(h) # "state"
    BY <2>1, <2>2 DEF DependentLink
  <2>4. pending = {}
    BY Zenon DEF Init
  <2> QED
    BY <2>3, <2>4, Zenon DEF PendingSound, ReceiptSound, SendField
<1>2. ASSUME PendingSound, ReceiptSound, SendField, PayInv, PayInv', [Next]_vars, NoEmptySend'
      PROVE  PendingSound' /\ ReceiptSound' /\ SendField'
  BY <1>2, NextSound, Zenon DEF DepInv
<1>3. Spec /\ []NoEmptySend => [](PayInv /\ ReceiptSound)
  BY <1>1, <1>2, PaymentsAlwaysCovered, PTL DEF Spec
<1>4. PayInv /\ ReceiptSound => DependenciesPresent
  <2> SUFFICES ASSUME ChainInv, ReceiptSound, NEW h \in Stored, NEW d \in DependentBlocks(h)
               PROVE  d \in Stored \cup pruned
    BY Zenon DEF PayInv, DependenciesPresent
  <2>1. d # Zero /\ (d = Previous(h) \/ d = DependentLink(h))
    BY Zenon DEF DependentBlocks
  <2>2. CASE d = Previous(h)
    BY <2>1, <2>2, Zenon DEF ChainInv, ChainIntact
  <2>3. CASE d = DependentLink(h)
    BY <2>1, <2>3, Zenon DEF ReceiptSound
  <2> QED
    BY <2>1, <2>2, <2>3, Zenon
<1> QED
  BY <1>3, <1>4, PTL

-----------------------------------------------------------------------------
(* The links that block_successor_by_qualified_root follows.               *)
SuccessorIntact ==
    \A x \in Stored : block[x].successor # Zero =>
        /\ block[x].successor \in Stored \cup pruned
        /\ Previous(block[x].successor) = x

OpenIntact ==
    \A a \in Account : account[a] # None =>
        /\ account[a].open \in Stored \cup pruned
        /\ Previous(account[a].open) = Zero /\ Block[account[a].open].account = a

(* A new block is the successor of the head, or opens its account.         *)
LEMMA InsertLinks ==
    ASSUME ChainInv, SuccessorIntact, OpenIntact, NEW h \in Hash,
           Validate(h) = "Progress", Insert(h)
    PROVE  SuccessorIntact' /\ OpenIntact'
<1> USE Numbers
<1>1. /\ Stored' = Stored \cup {h} /\ block'[h].successor = Zero /\ pruned' = pruned
      /\ \A x \in Stored : block'[x].successor = IF x = Previous(h) THEN h ELSE block[x].successor
  <2>1. /\ block'[h] = NewSideband(h) /\ Stored' = Stored \cup {h}
        /\ \A x \in Stored : block'[x].successor = IF x = Previous(h) THEN h ELSE block[x].successor
    BY InsertedBlocks, Zenon
  <2> QED
    BY <2>1 DEF NewSideband, Insert
<1>2. SuccessorIntact'
  <2> SUFFICES ASSUME NEW x \in Stored', NEW s, s = block'[x].successor, s # Zero
               PROVE  s \in Stored' \cup pruned' /\ Previous(s) = x
    BY Zenon DEF SuccessorIntact
  <2>1. x \in Stored
    BY <1>1, Zenon
  <2>2. CASE x = Previous(h)
    BY <1>1, <2>1, <2>2, Zenon
  <2>3. CASE x # Previous(h)
    BY <1>1, <2>1, <2>3, Zenon DEF SuccessorIntact
  <2> QED
    BY <2>2, <2>3, Zenon
<1>3. OpenIntact'
  <2> DEFINE a == AccountOf(h)
  <2>1. /\ a \in Account
        /\ AccountExists(h) <=> account[a] # None
        /\ ~AccountExists(h) => Previous(h) = Zero /\ a = Block[h].account
    BY AcceptedBlock, Zenon
  <2>2. account' = [account EXCEPT ![a] = NewAccountInfo(h)]
    BY Zenon DEF Insert
  <2>3. NewAccountInfo(h).open = IF AccountExists(h) THEN account[a].open ELSE h
    BY DEF NewAccountInfo, OldInfo
  <2> HIDE DEF a
  <2>4. account'[a] = NewAccountInfo(h) /\ \A b \in Account : b # a => account'[b] = account[b]
    BY <2>1, <2>2, Zenon DEF ChainInv, TypeOK
  <2> SUFFICES ASSUME NEW b \in Account, account'[b] # None, NEW o, o = account'[b].open
               PROVE  o \in Stored' \cup pruned' /\ Previous(o) = Zero /\ Block[o].account = b
    BY Zenon DEF OpenIntact
  <2>5. CASE b # a
    BY <1>1, <2>4, <2>5, Zenon DEF OpenIntact
  <2>6. CASE b = a /\ AccountExists(h)
    <3>1. account[a] # None /\ o = account[a].open
      BY <2>1, <2>3, <2>4, <2>6, Zenon
    <3>2. o \in Stored \cup pruned /\ Previous(o) = Zero /\ Block[o].account = a
      BY <2>1, <3>1, Zenon DEF OpenIntact
    <3> QED
      BY <1>1, <2>6, <3>2, Zenon
  <2>7. CASE b = a /\ ~AccountExists(h)
    BY <1>1, <2>1, <2>3, <2>4, <2>7, Zenon
  <2> QED
    BY <2>5, <2>6, <2>7, Zenon
<1> QED
  BY <1>2, <1>3, Zenon

(* Removing the head clears the link to it.                                *)
LEMMA RemoveLinks ==
    ASSUME ChainInv, SuccessorIntact, OpenIntact, NEW t \in Stored,
           ~PlanFails(HeadOf(t)), Remove(HeadOf(t))
    PROVE  SuccessorIntact' /\ OpenIntact'
<1> USE Numbers
<1> DEFINE h == HeadOf(t)
           a == block[h].account
<1>0. /\ h \in Stored /\ Remove(h) /\ account[a] # None /\ a \in Account
      /\ account[a] \in AccountInfo /\ account[a].blockCount = block[h].height
      /\ Previous(h) # Zero => Previous(h) \in Stored /\ Previous(h) \notin pruned
  BY RemovableHead, Zenon
<1> HIDE DEF h
<1>1. /\ Stored' = Stored \ {h} /\ pruned' = pruned
      /\ \A x \in Stored' : block'[x].successor = IF x = Previous(h) THEN Zero ELSE block[x].successor
  <2>1. /\ Stored' = Stored \ {h}
        /\ \A x \in Stored' : block'[x].successor = IF x = Previous(h) THEN Zero ELSE block[x].successor
    BY <1>0, RemovedBlocks, Zenon
  <2>2. pruned' = pruned
    BY <1>0, Zenon DEF Remove
  <2> QED
    BY <2>1, <2>2, Zenon
<1>2. SuccessorIntact'
  <2> SUFFICES ASSUME NEW x \in Stored', NEW s, s = block'[x].successor, s # Zero
               PROVE  s \in Stored' \cup pruned' /\ Previous(s) = x
    BY Zenon DEF SuccessorIntact
  <2>1. x \in Stored /\ x # Previous(h) /\ s = block[x].successor
    BY <1>1, Zenon
  <2>2. s \in Stored \cup pruned /\ Previous(s) = x
    BY <2>1, Zenon DEF SuccessorIntact
  <2> QED
    BY <1>1, <2>1, <2>2, Zenon
<1>3. OpenIntact'
  <2>1. account' = [account EXCEPT ![a] = PreviousAccountInfo(h)]
    BY <1>0, Zenon DEF Remove
  <2>2. /\ Previous(h) = Zero => PreviousAccountInfo(h) = None
        /\ Previous(h) # Zero => PreviousAccountInfo(h).open = account[a].open
    BY DEF PreviousAccountInfo
  <2>3. Previous(h) = Zero => a = Block[h].account
    BY <1>0, Zenon DEF ChainInv, OpensOwnAccount
  <2> HIDE DEF a
  <2>4. account'[a] = PreviousAccountInfo(h) /\ \A b \in Account : b # a => account'[b] = account[b]
    BY <1>0, <2>1, Zenon DEF ChainInv, TypeOK
  <2> SUFFICES ASSUME NEW b \in Account, account'[b] # None, NEW o, o = account'[b].open
               PROVE  o \in Stored' \cup pruned' /\ Previous(o) = Zero /\ Block[o].account = b
    BY Zenon DEF OpenIntact
  <2>5. CASE b # a
    <3>1. o \in Stored \cup pruned /\ Previous(o) = Zero /\ Block[o].account = b
      BY <2>4, <2>5, Zenon DEF OpenIntact
    <3>2. o # h
      BY <2>3, <2>5, <3>1, Zenon
    <3> QED
      BY <1>1, <3>1, <3>2, Zenon
  <2>6. CASE b = a
    <3>1. Previous(h) # Zero /\ o = account[a].open
      BY <2>2, <2>4, <2>6, Zenon
    <3>2. o \in Stored \cup pruned /\ Previous(o) = Zero /\ Block[o].account = b
      BY <1>0, <2>6, <3>1, Zenon DEF OpenIntact
    <3>3. o # h
      BY <3>1, <3>2, Zenon
    <3> QED
      BY <1>1, <3>2, <3>3, Zenon
  <2> QED
    BY <2>5, <2>6, Zenon
<1> QED
  BY <1>2, <1>3, Zenon

(* The links are right in every state of the ledger.                       *)
LEMMA LinksAlwaysIntact == Spec => [](SuccessorIntact /\ OpenIntact)
<1> USE Numbers
<1>1. Init => SuccessorIntact /\ OpenIntact
  <2> SUFFICES ASSUME Init PROVE SuccessorIntact /\ OpenIntact
    OBVIOUS
  <2>1. \A x \in Stored : x = Genesis
    BY Zenon DEF Init, Stored
  <2>2. Genesis \in Stored /\ block[Genesis].successor = Zero
    <3>1. block[Genesis] = [account |-> GenesisAccount, successor |-> Zero, balance |-> Supply,
                            height |-> 1, epoch |-> 0, sourceEpoch |-> 0, isSend |-> FALSE]
      BY BlocksAssumption, Zenon DEF Init
    <3>2. GenesisAccount \in Account /\ Supply \in Nat /\ Genesis \in Hash
      BY BlocksAssumption, Zenon
    <3>3. block[Genesis] \in Sideband /\ block[Genesis].successor = Zero
      BY <3>1, <3>2, SMTT(30) DEF Sideband, Epoch
    <3> QED
      BY <3>2, <3>3, LedgerAssumption, Zenon DEF Stored
  <2>3. ASSUME NEW a \in Account, account[a] # None PROVE a = GenesisAccount /\ account[a].open = Genesis
    BY <2>3 DEF Init
  <2>4. Previous(Genesis) = Zero /\ Block[Genesis].account = GenesisAccount
    BY BlocksAssumption DEF Previous
  <2> QED
    BY <2>1, <2>2, <2>3, <2>4, Zenon DEF SuccessorIntact, OpenIntact
<1>2. ASSUME ChainInv, SuccessorIntact, OpenIntact, [Next]_vars PROVE SuccessorIntact' /\ OpenIntact'
  <2>1. ASSUME NEW h \in Hash, Process(h) PROVE SuccessorIntact' /\ OpenIntact'
    BY <1>2, <2>1, InsertLinks, Zenon DEF Process
  <2>2. ASSUME RollbackRemove PROVE SuccessorIntact' /\ OpenIntact'
    BY <1>2, <2>2, RemoveLinks, Zenon DEF RollbackRemove
  <2>3. ASSUME PruneStep PROVE SuccessorIntact' /\ OpenIntact'
    <3>1. /\ Stored' \subseteq Stored /\ Stored' \cup pruned' = Stored \cup pruned
          /\ account' = account /\ \A x \in Stored' : block'[x] = block[x]
      <4>1. pruned' = pruned \cup {prune} /\ account' = account
        BY <2>3, Zenon DEF PruneStep
      <4>2. /\ Stored' = Stored \ {prune} /\ prune \in Stored
            /\ \A x \in Stored' : block'[x] = block[x]
        BY <1>2, <2>3, PruneKeeps, Zenon
      <4> QED
        BY <4>1, <4>2, Zenon
    <3>2. SuccessorIntact'
      BY <1>2, <3>1, Zenon DEF SuccessorIntact
    <3>3. OpenIntact'
      BY <1>2, <3>1, Zenon DEF OpenIntact
    <3> QED
      BY <3>2, <3>3, Zenon
  <2>4. ASSUME block' = block, account' = account, pruned' = pruned
        PROVE  SuccessorIntact' /\ OpenIntact'
    BY <1>2, <2>4, Zenon DEF SuccessorIntact, OpenIntact, Stored
  <2>5. ASSUME NEW h \in Hash, RollbackStart(h) \/ PruneStart(h) \/ Cement(h)
        PROVE  block' = block /\ account' = account /\ pruned' = pruned
    BY <2>5 DEF RollbackStart, PruneStart, Cement, tables
  <2>6. RollbackDependency \/ RollbackReturn \/ RollbackFail \/ PruneEnd \/ PruneInterrupted
           \/ UNCHANGED vars => block' = block /\ account' = account /\ pruned' = pruned
    BY DEF RollbackDependency, RollbackReturn, RollbackFail, PruneEnd, PruneInterrupted, vars, tables
  <2> QED
    BY <1>2, <2>1, <2>2, <2>3, <2>4, <2>5, <2>6 DEF Next
<1> QED
  BY <1>1, <1>2, ChainInvAlways, PTL DEF Spec
=============================================================================
