------------------------- MODULE LedgerWriterProofs -------------------------
(***************************************************************************)
(* The two writers of the ledger, the block processor and the confirming   *)
(* set with the walk it starts, each next to the others, do to the ledger  *)
(* only what Ledger.tla allows, so that all that is proved of the ledger   *)
(* holds for them; and a block the processor is forced to take gives way   *)
(* only to a cemented one.                                                 *)
(***************************************************************************)
EXTENDS ConfirmingSet, BlockProcessor, LedgerProofs, SequenceTheorems

-----------------------------------------------------------------------------
(* The block processor                                                     *)

(* Rolling back a competitor is a rollback of the ledger: the competitor   *)
(* is a stored block.                                                      *)
LEMMA CompetitorStep ==
    ASSUME RollbackCompetitor
    PROVE  Next
BY DEF RollbackCompetitor, RollbackStart, Stored, Next

(* Adding a block leaves the ledger alone unless the block passes every    *)
(* rule.                                                                   *)
LEMMA ProcessOneStep ==
    ASSUME ProcessOne
    PROVE  Next \/ UNCHANGED vars
<1>1. PICK h \in Hash : Process(h) \/ UNCHANGED vars
  BY DEF ProcessOne
<1> QED
  BY <1>1 DEF Next

(* Every step of the processor is a step of the ledger or leaves it alone. *)
LEMMA ProcessorStep ==
    ASSUME [ProcessorNext]_processorVars
    PROVE  [Next]_vars
<1>1. CASE \E h \in Hash : AddLive(h) \/ ForceBlock(h) \/ \E c \in Caller : AddBlocking(c, h)
  BY <1>1 DEF AddLive, ForceBlock, AddBlocking
<1>2. CASE RollbackCompetitor
  BY <1>2, CompetitorStep
<1>3. CASE RollbackLoop
  BY <1>3 DEF RollbackLoop, Next
<1>4. CASE ProcessOne
  BY <1>4, ProcessOneStep
<1>5. CASE TakeBlocks \/ BatchProcessed \/ Halt \/ CleanUpDeadChannel \/ UncheckedThread \/ HandOver
  BY <1>5 DEF TakeBlocks, BatchProcessed, Halt, CleanUpDeadChannel, UncheckedThread, HandOver
<1>6. CASE CementOther
  <2>1. PICK h \in Cementable : Cement(h)
    BY <1>6 DEF CementOther
  <2> QED
    BY <2>1, Zenon DEF Cement, Stored, Next
<1>7. CASE UNCHANGED processorVars
  BY <1>7 DEF processorVars
<1> QED
  BY <1>1, <1>2, <1>3, <1>4, <1>5, <1>6, <1>7 DEF ProcessorNext, ThreadStep

(* Whatever arrives, is forced, waits and is handed over, the processor    *)
(* does nothing to the ledger but complete ledger operations               *)
(* (ProcessorImplementsLedger), starting from the same initial state.      *)
THEOREM ProcessorImplements == ProcessorSpec => Init /\ ProcessorImplementsLedger
<1>1. ProcessorInit => Init
  BY DEF ProcessorInit
<1> QED
  BY <1>1, ProcessorStep, PTL DEF ProcessorSpec, ProcessorImplementsLedger

(* Blocks arriving in any order, forced rollbacks and concurrent cementing *)
(* keep the chains intact, never leave two forks in the ledger, keep the   *)
(* cemented part closed under dependencies and never undo cementing.       *)
THEOREM ProcessorKeepsLedger ==
    ProcessorSpec => [](LedgerIntact /\ NoFork /\ ConfirmedClosed) /\ CementedForever
<1>1. ProcessorSpec => Spec
  BY ProcessorImplements, PTL DEF Spec, ProcessorImplementsLedger
<1> QED
  BY <1>1, LedgerAlwaysIntact, NeverAFork, ConfirmedAlwaysClosed, CementedStaysCemented, PTL

-----------------------------------------------------------------------------
(* The confirming set                                                      *)

(* The write queue at work: a rollback or a pruning is never under way     *)
(* while the thread holds the guard, and a walk needs the guard.           *)
Exclusive ==
    /\ Guarded => ~Busy
    /\ target # Zero => pc = "walk"

(* A block with nothing to push has all its dependencies cemented.         *)
LEMMA NothingMissing ==
    ASSUME NEW h, Unconfirmed(h) = <<>>
    PROVE  DependentsConfirmed(h)
<1>1. ASSUME NEW d, NEW t, t = <<>> \/ \E e : t = <<e>>, <<d>> \o t = <<>>
      PROVE  FALSE
  BY <1>1
<1>2. ASSUME NEW d, NEW t, t = <<>> \/ \E e : t = <<e>>, t \o <<d>> = <<>>
      PROVE  FALSE
  BY <1>2
<1>3. ASSUME NEW d PROVE Missing(d) = <<>> \/ \E e : Missing(d) = <<e>>
  BY DEF Missing
<1>4. Missing(Previous(h)) = <<>>
  BY <1>1, <1>3 DEF Unconfirmed, Missing
<1>5. Missing(DependentLink(h)) = <<>>
  BY <1>2, <1>3 DEF Unconfirmed, Missing
<1>6. ASSUME NEW d, Missing(d) = <<>>, d # Zero
      PROVE  ConfirmedOrPruned(d)
  BY <1>6 DEF Missing
<1> QED
  BY <1>4, <1>5, <1>6 DEF DependentsConfirmed, DependentBlocks

(* One iteration of the walk cements a block or leaves the tables alone.   *)
LEMMA VisitIsCement ==
    ASSUME Visit, ~Busy
    PROVE  (\E h \in Hash : Cement(h)) \/ UNCHANGED vars
<1>1. CASE Unconfirmed(Top) # <<>>
  BY <1>1 DEF Visit
<1>2. CASE Unconfirmed(Top) = <<>> /\ ConfirmedOrPruned(Top)
  BY <1>2 DEF Visit, CementTop
<1>3. CASE Unconfirmed(Top) = <<>> /\ ~ConfirmedOrPruned(Top)
  <2>1. Top \in Hash /\ Top \in Stored /\ ~Confirmed(Top) /\ DependentsConfirmed(Top)
    BY <1>3, NothingMissing DEF Visit, ConfirmedOrPruned, Stored
  <2>2. Cement(Top)
    BY <1>3, <2>1 DEF Visit, CementTop, Cement
  <2> QED
    BY <2>1, <2>2
<1> QED
  BY <1>1, <1>2, <1>3

(* Every step of the confirming set is a step of the ledger or leaves the  *)
(* ledger alone.                                                           *)
LEMMA SetStep ==
    ASSUME Exclusive, [SetNext]_setVars
    PROVE  Exclusive' /\ [Next]_vars
<1>1. CASE \E h \in Winners : Add(h)
  BY <1>1 DEF Add, cementerVars, vars, cementer, Exclusive, Guarded, Busy
<1>2. CASE Stop \/ Worker
  BY <1>2 DEF Stop, Worker, TakeTask, NotifyBatch, cementerVars, vars, cementer, Exclusive,
              Guarded, Busy
<1>3. CASE Acquire
  BY <1>3 DEF Acquire, cementerVars, vars, cementer, Exclusive, Guarded, Busy
<1>4. CASE LedgerLoop
  <2>1. Next
    BY <1>4 DEF LedgerLoop, Next
  <2>2. Exclusive'
    BY <1>4 DEF LedgerLoop, cementer, confirming, Exclusive, Guarded
  <2> QED
    BY <2>1, <2>2
<1>5. CASE LedgerStart
  <2>1. Next
    BY <1>5 DEF LedgerStart, Next
  <2>2. Exclusive'
    BY <1>5 DEF LedgerStart, cementer, confirming, Exclusive, Guarded
  <2> QED
    BY <2>1, <2>2
<1>6. CASE Walk
  <2>1. [Next]_vars
    BY <1>6, VisitIsCement DEF Walk, Exclusive, Guarded, Next
  <2>2. ~Busy'
    BY <1>6 DEF Walk, Visit, CementTop, Exclusive, Guarded, Busy, vars
  <2>3. Exclusive'
    BY <1>6, <2>2 DEF Walk, confirming, Exclusive
  <2> QED
    BY <2>1, <2>3
<1>7. CASE Confirm
  <2>1. UNCHANGED vars
    BY <1>7 DEF Confirm, cementerVars, ConfirmStart
  <2>2. Exclusive'
    BY <1>7, <2>1 DEF Confirm, cementerVars, ConfirmStart, NextEntry, cementer, Exclusive,
                      Guarded, Busy, vars
  <2> QED
    BY <2>1, <2>2
<1>8. CASE TakeBatch \/ ThreadExits \/ Refresh \/ Abandon \/ NotifyMaybe \/ Notify
             \/ NotifyAborted \/ ConfirmReturned \/ EndBatch \/ NotifyAlready
  <2>1. UNCHANGED vars /\ target' = target /\ (Guarded' => Guarded)
    BY <1>8, Zenon DEF TakeBatch, ThreadExits, Refresh, Abandon, NotifyMaybe, Notify, NotifyAborted,
                AfterNotify, ConfirmReturned, NextEntry, EndBatch, NotifyAlready,
                cementerVars, cementer, Guarded
  <2>2. target = Zero
    BY <1>8, Zenon DEF TakeBatch, ThreadExits, Refresh, Abandon, NotifyMaybe, Notify, NotifyAborted,
                ConfirmReturned, EndBatch, NotifyAlready, Exclusive
  <2> QED
    BY <2>1, <2>2 DEF Exclusive, Busy, vars
<1>9. CASE UNCHANGED setVars
  BY <1>9 DEF setVars, cementerVars, cementer, confirming, vars, Exclusive, Guarded, Busy
<1> QED
  BY <1>1, <1>2, <1>3, <1>4, <1>5, <1>6, <1>7, <1>8, <1>9 DEF SetNext, Thread

(* The confirming set with its walks implements the ledger of Ledger.tla:  *)
(* it cements a block only after all the blocks it depends on.             *)
THEOREM SetImplementsLedger == SetSpec => Spec
<1>1. SetInit => Init /\ Exclusive
  BY DEF SetInit, CementerInit, Exclusive, Guarded
<1> QED
  BY <1>1, SetStep, PTL DEF SetSpec, Spec

(* While the confirming set cements in batches, between rollbacks,         *)
(* insertions and pruning, a cemented block stays cemented, whatever it    *)
(* depends on is cemented, and the chains stay intact.                     *)
THEOREM SetKeepsLedger ==
    SetSpec => [](LedgerIntact /\ ConfirmedClosed) /\ CementedForever
BY SetImplementsLedger, LedgerAlwaysIntact, ConfirmedAlwaysClosed, CementedStaysCemented, PTL

-----------------------------------------------------------------------------
(* What the observers hear of                                              *)

(* Cemented in the last commit, or pruned since.                           *)
Settled(h) ==
    \/ h \in pruned
    \/ h \in Stored /\ block[h].height <= durable[block[h].account].height

SetTypes ==
    /\ durable \in [Account -> ConfirmationHeightInfo]
    /\ batch \in Seq(Hash) /\ set \in Seq(Hash) /\ stack \in Seq(Hash \cup Account)
    /\ result \in Seq(Hash) /\ cemented \in Seq(Hash) /\ already \in Seq(Hash)
    /\ tasks \in Seq(Seq(Hash)) /\ running \in Seq(Hash) \cup {None}
    /\ notified \in Seq(Hash)

DurableBound == \A a \in Account : durable[a].height <= confirmation[a].height

(* Whatever has left the thread was committed; before that it is cemented. *)
ToldSettled ==
    /\ \A h \in Members(notified) : Settled(h)
    /\ running # None => \A h \in Members(running) : Settled(h)
    /\ \A i \in DOMAIN tasks : \A h \in Members(tasks[i]) : Settled(h)
    /\ pc \in {"notify", "final"} => \A h \in Members(cemented) : Settled(h)

HeldCemented ==
    /\ \A h \in Members(cemented) \cup Members(already) : ConfirmedOrPruned(h)
    /\ pc = "walk" => \A h \in Members(result) : ConfirmedOrPruned(h)

(* The walk: until it cements something, all on its stack but the block it *)
(* is for is uncemented, so that a walk without result had nothing to do.  *)
WalkInv ==
    /\ pc \in {"refresh", "step", "notify", "renew", "confirm", "walk"} => batch # <<>>
    /\ target # Zero =>
          /\ target = Head(batch) /\ target \in Stored /\ stack # <<>>
          /\ \A i \in DOMAIN stack :
                stack[i] = target \/ (result = <<>> => ~ConfirmedOrPruned(stack[i]))
    /\ pc = "walk" /\ target = Zero /\ result = <<>> => ConfirmedOrPruned(Head(batch))

SetInv ==
    ChainInv /\ Exclusive /\ SetTypes /\ DurableBound /\ ToldSettled /\ HeldCemented /\ WalkInv

(* A stored block keeps its place in its chain, and a pruned one stays     *)
(* pruned.                                                                 *)
LEMMA BlocksKept ==
    ASSUME ChainInv, [Next]_vars
    PROVE  /\ pruned \subseteq pruned'
           /\ \A h \in Stored : h \in Stored' =>
                 block'[h].account = block[h].account /\ block'[h].height = block[h].height
<1>1. ASSUME NEW g \in Hash, Process(g)
      PROVE  /\ pruned' = pruned
             /\ \A h \in Stored :
                   block'[h].account = block[h].account /\ block'[h].height = block[h].height
  <2>1. Validate(g) = "Progress" /\ Insert(g) /\ pruned' = pruned
    BY <1>1 DEF Process, Insert
  <2> QED
    BY <2>1, InsertedBlocks
<1>2. ASSUME RollbackRemove
      PROVE  /\ pruned' = pruned
             /\ \A h \in Stored' :
                   block'[h].account = block[h].account /\ block'[h].height = block[h].height
  <2> DEFINE g == HeadOf(Target)
  <2>1. Target \in Stored /\ ~PlanFails(g) /\ Remove(g) /\ pruned' = pruned
    BY <1>2 DEF RollbackRemove, Remove
  <2>2. /\ g \in Stored /\ account[block[g].account] \in AccountInfo
        /\ account[block[g].account].blockCount = block[g].height
        /\ Previous(g) # Zero => Previous(g) \in Stored /\ Previous(g) \notin pruned
    BY <2>1, RemovableHead, Zenon
  <2> HIDE DEF g
  <2> QED
    BY <2>1, <2>2, RemovedBlocks, Zenon
<1>3. ASSUME PruneStep
      PROVE  /\ pruned \subseteq pruned'
             /\ \A h \in Stored : h \in Stored' => block'[h] = block[h]
  BY <1>3 DEF PruneStep, Stored, ChainInv, TypeOK
<1>4. ASSUME block' = block, pruned' = pruned
      PROVE  pruned \subseteq pruned' /\ \A h \in Stored : block'[h] = block[h]
  BY <1>4
<1>5. ASSUME NEW g \in Hash, RollbackStart(g) \/ Cement(g) \/ PruneStart(g)
      PROVE  block' = block /\ pruned' = pruned
  BY <1>5 DEF RollbackStart, Cement, PruneStart, tables
<1>6. RollbackDependency \/ RollbackReturn \/ RollbackFail \/ PruneEnd \/ PruneInterrupted
         \/ UNCHANGED vars => block' = block /\ pruned' = pruned
  BY DEF RollbackDependency, RollbackReturn, RollbackFail, PruneEnd, PruneInterrupted, vars,
         tables
<1> QED
  BY <1>1, <1>2, <1>3, <1>4, <1>5, <1>6 DEF Next

(* Appending adds one member.                                              *)
LEMMA MembersAppend ==
    ASSUME NEW S, NEW s \in Seq(S), NEW x \in S
    PROVE  Append(s, x) \in Seq(S) /\ Members(Append(s, x)) = Members(s) \cup {x}
<1>1. Append(s, x) \in Seq(S) /\ Len(Append(s, x)) = Len(s) + 1
  OBVIOUS
<1>2. \A i \in 1..Len(s) : Append(s, x)[i] = s[i]
  OBVIOUS
<1>3. Append(s, x)[Len(s) + 1] = x
  OBVIOUS
<1> QED
  BY <1>1, <1>2, <1>3, SMTT(30) DEF Members

(* An entry of an extended sequence is the new one or one of the old.      *)
LEMMA AppendedAt ==
    ASSUME NEW S, NEW s \in Seq(S), NEW x \in S, NEW i \in DOMAIN Append(s, x)
    PROVE  Append(s, x)[i] = x \/ (i \in DOMAIN s /\ Append(s, x)[i] = s[i])
<1>1. i \in 1..Len(s) + 1
  OBVIOUS
<1>2. CASE i = Len(s) + 1
  BY <1>2
<1>3. CASE i \in 1..Len(s)
  BY <1>3, SMTT(30)
<1> QED
  BY <1>1, <1>2, <1>3, SMTT(30)

(* Concatenation loses no member and makes none.                           *)
LEMMA MembersConcat ==
    ASSUME NEW S, NEW s \in Seq(S), NEW t \in Seq(S)
    PROVE  s \o t \in Seq(S) /\ Members(s \o t) = Members(s) \cup Members(t)
<1>1. s \o t \in Seq(S) /\ Len(s \o t) = Len(s) + Len(t)
  OBVIOUS
<1>2. \A i \in 1..Len(s) + Len(t) :
         (s \o t)[i] = IF i <= Len(s) THEN s[i] ELSE t[i - Len(s)]
  OBVIOUS
<1>3. \A x \in Members(s \o t) : x \in Members(s) \cup Members(t)
  BY <1>1, <1>2 DEF Members
<1>4. \A x \in Members(s) : x \in Members(s \o t)
  BY <1>1, <1>2 DEF Members
<1>5. ASSUME NEW i \in 1..Len(t) PROVE t[i] \in Members(s \o t)
  <2>1. Len(s) + i \in 1..Len(s) + Len(t) /\ (s \o t)[Len(s) + i] = t[i]
    BY <1>2
  <2> QED
    BY <1>1, <2>1, SMTT(30) DEF Members
<1> QED
  BY <1>1, <1>3, <1>4, <1>5, SMTT(30) DEF Members

(* Taking the first element off.                                           *)
LEMMA MembersTail ==
    ASSUME NEW S, NEW s \in Seq(S), s # <<>>
    PROVE  /\ Tail(s) \in Seq(S) /\ Head(s) \in S
           /\ Head(s) \in Members(s) /\ Members(Tail(s)) \subseteq Members(s)
<1>1. Tail(s) \in Seq(S) /\ Len(Tail(s)) = Len(s) - 1 /\ Len(s) \in Nat \ {0}
  OBVIOUS
<1>2. \A i \in 1..Len(s) - 1 : Tail(s)[i] = s[i + 1]
  OBVIOUS
<1>3. Head(s) = s[1]
  OBVIOUS
<1> QED
  BY <1>1, <1>2, <1>3 DEF Members

(* A part of a sequence has only members of the whole.                     *)
LEMMA MembersSub ==
    ASSUME NEW S, NEW s \in Seq(S), NEW m \in Nat \ {0}, NEW n \in 0..Len(s)
    PROVE  SubSeq(s, m, n) \in Seq(S) /\ Members(SubSeq(s, m, n)) \subseteq Members(s)
<1>1. /\ SubSeq(s, m, n) \in Seq(S)
      /\ Len(SubSeq(s, m, n)) = IF m <= n THEN n - m + 1 ELSE 0
      /\ \A i \in 1..(n - m + 1) : SubSeq(s, m, n)[i] = s[m + i - 1]
  BY SubSeqProperties
<1> QED
  BY <1>1 DEF Members

(* What was cemented stays so, or is pruned.                               *)
LEMMA CementedKept ==
    ASSUME ChainInv, [Next]_vars, NEW h, ConfirmedOrPruned(h)
    PROVE  ConfirmedOrPruned(h)'
BY BlocksKept, NextInv DEF CementedStep, ConfirmedOrPruned

(* What was cemented in a commit stays so, or is pruned.                   *)
LEMMA SettledKept ==
    ASSUME ChainInv, [Next]_vars, SetTypes, SetTypes', DurableBound,
           \A a \in Account : durable[a].height <= durable'[a].height,
           NEW h, Settled(h)
    PROVE  Settled(h)'
<1>1. CASE h \in pruned
  BY <1>1, BlocksKept DEF Settled
<1>2. CASE h \in Stored /\ h \notin pruned
  <2> DEFINE a == block[h].account
  <2>1. h \in Hash /\ a \in Account /\ block[h].height \in Nat
    BY <1>2, Zenon DEF ChainInv, TypeOK, Stored, Sideband, SetTypes
  <2>2. /\ durable[a].height \in Nat /\ durable'[a].height \in Nat
        /\ confirmation[a].height \in Nat
    BY <2>1, Zenon DEF ChainInv, TypeOK, SetTypes, ConfirmationHeightInfo
  <2>3. block[h].height <= durable[a].height
    BY <1>2 DEF Settled
  <2>4. Confirmed(h)
    BY <1>2, <2>1, <2>2, <2>3, SMTT(30) DEF Confirmed, DurableBound
  <2>5. h \in Stored' \/ h \in pruned'
    BY <2>1, <2>4, NextInv DEF CementedStep, Confirmed
  <2>6. h \in Stored' => block'[h].account = a /\ block'[h].height = block[h].height
    BY <1>2, BlocksKept
  <2> QED
    BY <2>1, <2>2, <2>3, <2>5, <2>6, SMTT(30) DEF Settled
<1> QED
  BY <1>1, <1>2, Zenon DEF Settled

(* A commit settles all that is cemented.                                  *)
LEMMA CommitSettles ==
    ASSUME ChainInv, UNCHANGED vars, durable' = confirmation, NEW h, ConfirmedOrPruned(h)
    PROVE  Settled(h)'
BY Zenon DEF vars, tables, ConfirmedOrPruned, Confirmed, Settled, Stored

(* The dependencies a walk pushes are uncemented.                          *)
LEMMA PushedUncemented ==
    ASSUME NEW h \in Hash
    PROVE  /\ Unconfirmed(h) \in Seq(Hash \cup Account)
           /\ \A d \in Members(Unconfirmed(h)) : ~ConfirmedOrPruned(d)
<1> DEFINE U == Hash \cup Account
<1>1. Previous(h) \in U \cup {Zero} /\ DependentLink(h) \in U \cup {Zero}
  <2>1. Block[h] \in Content
    BY BlocksAssumption
  <2>2. Block[h].link \in Hash \cup Account \cup {Zero} /\ Block[h].previous \in Hash \cup {Zero}
    BY <2>1, Zenon DEF Content
  <2> QED
    BY <2>2 DEF DependentLink, Previous
<1>2. ASSUME NEW d \in U \cup {Zero}
      PROVE  Missing(d) \in Seq(U) /\ \A e \in Members(Missing(d)) : ~ConfirmedOrPruned(e)
  <2>1. CASE d # Zero /\ ~ConfirmedOrPruned(d)
    <3>1. Missing(d) = <<d>> /\ d \in U
      BY <1>2, <2>1 DEF Missing
    <3>2. <<d>> \in Seq(U) /\ DOMAIN <<d>> = 1..1 /\ <<d>>[1] = d
      BY <3>1
    <3>3. Members(<<d>>) = {d}
      BY <3>2 DEF Members
    <3> QED
      BY <2>1, <3>1, <3>2, <3>3
  <2>2. CASE ~(d # Zero /\ ~ConfirmedOrPruned(d))
    <3>1. Missing(d) = <<>>
      BY <2>2 DEF Missing
    <3>2. <<>> \in Seq(U) /\ Members(<<>>) = {}
      BY DEF Members
    <3> QED
      BY <3>1, <3>2
  <2> QED
    BY <2>1, <2>2
<1> HIDE DEF U
<1>3. /\ Missing(Previous(h)) \in Seq(U) /\ Missing(DependentLink(h)) \in Seq(U)
      /\ \A e \in Members(Missing(Previous(h))) \cup Members(Missing(DependentLink(h))) :
            ~ConfirmedOrPruned(e)
  BY <1>1, <1>2
<1>4. /\ Unconfirmed(h) \in Seq(U)
      /\ Members(Unconfirmed(h)) = Members(Missing(Previous(h)))
                                      \cup Members(Missing(DependentLink(h)))
  BY <1>3, MembersConcat DEF Unconfirmed
<1> QED
  BY <1>3, <1>4 DEF U

(* The bounded stack keeps the newest entries.                             *)
LEMMA Pushed ==
    ASSUME NEW U, stack \in Seq(U), NEW t \in Seq(U), t # <<>>
    PROVE  /\ Push(t) \in Seq(U) /\ Push(t) # <<>>
           /\ Members(Push(t)) \subseteq Members(stack) \cup Members(t)
<1> DEFINE s == stack \o t
           excess == IF Len(s) > MaxBlocks THEN Len(s) - MaxBlocks ELSE 0
<1>1. s \in Seq(U) /\ Members(s) = Members(stack) \cup Members(t)
  BY MembersConcat
<1>2. Len(s) \in Nat \ {0}
  OBVIOUS
<1>3. excess \in 0..Len(s) - 1
  BY <1>2, MaxBlocksAssumption
<1>4. Push(t) = SubSeq(s, excess + 1, Len(s))
  BY DEF Push
<1> HIDE DEF s, excess
<1>5. /\ SubSeq(s, excess + 1, Len(s)) \in Seq(U)
      /\ Members(SubSeq(s, excess + 1, Len(s))) \subseteq Members(s)
  BY <1>1, <1>2, <1>3, MembersSub
<1>6. Len(SubSeq(s, excess + 1, Len(s))) = Len(s) - excess
  BY <1>1, <1>2, <1>3
<1>7. Len(s) - excess # 0
  BY <1>2, <1>3
<1>8. ASSUME SubSeq(s, excess + 1, Len(s)) = <<>> PROVE FALSE
  <2>1. Len(<<>>) = Len(s) - excess
    BY <1>6, <1>8, Zenon
  <2> QED
    BY <1>7, <2>1
<1> QED
  BY <1>1, <1>4, <1>5, <1>8

(* The types of the confirming set's queues.                               *)
LEMMA SetTypesStep ==
    ASSUME SetTypes, ChainInv, WalkInv, [SetNext]_setVars
    PROVE  SetTypes'
<1>1. ASSUME NEW h \in Winners, Add(h) PROVE SetTypes'
  BY <1>1, ConfirmingSetAssumption DEF Add, SetTypes, cementerVars, cementer
<1>2. CASE Stop \/ Acquire \/ ThreadExits
  BY <1>2, Zenon DEF Stop, Acquire, ThreadExits, SetTypes, cementerVars, cementer
<1>3. CASE TakeBatch
  <2>1. BatchSize \in Nat /\ Len(set) \in Nat
    BY ConfirmingSetAssumption DEF SetTypes
  <2>2. /\ SubSeq(set, 1, IF Len(set) < BatchSize THEN Len(set) ELSE BatchSize) \in Seq(Hash)
        /\ SubSeq(set, BatchSize + 2, Len(set)) \in Seq(Hash)
    BY <2>1, MembersSub, SMTT(30) DEF SetTypes
  <2> QED
    BY <1>3, <2>2, Zenon DEF TakeBatch, SetTypes, cementerVars, cementer
<1>4. CASE Refresh \/ NotifyMaybe \/ EndBatch \/ Abandon \/ NotifyAlready \/ NotifyAborted
  <2>1. confirmation \in [Account -> ConfirmationHeightInfo]
    BY DEF ChainInv, TypeOK
  <2>2. /\ durable' \in {durable, confirmation}
        /\ stack' = stack /\ result' = result /\ set' = set /\ tasks' = tasks
        /\ running' = running /\ notified' = notified
        /\ batch' \in {batch, <<>>} /\ cemented' \in {cemented, <<>>} /\ already' \in {already, <<>>}
    BY <1>4, Zenon DEF Refresh, NotifyMaybe, EndBatch, Abandon, NotifyAlready, NotifyAborted,
                cementerVars, cementer
  <2>3. <<>> \in Seq(Hash)
    OBVIOUS
  <2> QED
    BY <2>1, <2>2, <2>3, Zenon DEF SetTypes
<1>5. CASE Notify
  <2>1. Append(tasks, cemented) \in Seq(Seq(Hash))
    BY DEF SetTypes
  <2> QED
    BY <1>5, <2>1 DEF Notify, SetTypes, cementerVars, cementer
<1>6. CASE Confirm
  <2>1. Head(batch) \in Hash /\ Tail(batch) \in Seq(Hash)
    BY <1>6, MembersTail, Zenon DEF Confirm, SetTypes, WalkInv
  <2>2. <<Head(batch)>> \in Seq(Hash \cup Account)
    BY <2>1
  <2>3. /\ durable' = durable /\ set' = set /\ cemented' = cemented /\ already' = already
        /\ tasks' = tasks /\ running' = running /\ notified' = notified
        /\ batch' \in {batch, Tail(batch)}
        /\ \/ stack' = stack /\ result' = result
           \/ stack' = <<Head(batch)>> /\ result' = <<>>
    BY <1>6 DEF Confirm, ConfirmStart, NextEntry, cementerVars, cementer
  <2>4. <<>> \in Seq(Hash)
    OBVIOUS
  <2> QED
    BY <2>1, <2>2, <2>3, <2>4, Zenon DEF SetTypes
<1>7. CASE Walk
  <2>1. Visit /\ Top \in Hash /\ UNCHANGED confirming
    BY <1>7, Zenon DEF Walk, Visit, Stored
  <2>2. stack' \in Seq(Hash \cup Account) /\ result' \in Seq(Hash)
    <3>1. CASE Unconfirmed(Top) # <<>> /\ stack' = Push(Unconfirmed(Top)) /\ result' = result
      BY <2>1, <3>1, PushedUncemented, Pushed, Zenon DEF SetTypes
    <3>2. CASE CementTop
      <4>1. result' \in {result, Append(result, Top)}
        BY <3>2 DEF CementTop
      <4>2. result' \in Seq(Hash)
        <5>1. result \in Seq(Hash)
          BY DEF SetTypes
        <5>2. Append(result, Top) \in Seq(Hash)
          BY <2>1, <5>1, MembersAppend
        <5> QED
          BY <4>1, <5>1, <5>2
      <4>3. stack' \in Seq(Hash \cup Account)
        BY <3>2, MembersSub, SMTT(30) DEF CementTop, SetTypes
      <4> QED
        BY <4>2, <4>3
    <3> QED
      BY <2>1, <3>1, <3>2 DEF Visit
  <2> QED
    BY <2>1, <2>2 DEF SetTypes, confirming
<1>8. CASE ConfirmReturned
  <2>1. Head(batch) \in Hash /\ Tail(batch) \in Seq(Hash)
    BY <1>8, MembersTail, Zenon DEF ConfirmReturned, SetTypes, WalkInv
  <2>2. cemented \o result \in Seq(Hash) /\ Append(already, Head(batch)) \in Seq(Hash)
    BY <2>1 DEF SetTypes
  <2> QED
    BY <1>8, <2>1, <2>2, Zenon DEF ConfirmReturned, NextEntry, SetTypes, cementerVars, cementer
<1>9. CASE TakeTask
  BY <1>9, SMTT(30) DEF TakeTask, SetTypes, cementerVars, cementer
<1>10. CASE NotifyBatch
  BY <1>10, SMTT(30) DEF NotifyBatch, SetTypes, cementerVars, cementer
<1>11. CASE LedgerLoop \/ LedgerStart \/ UNCHANGED setVars
  BY <1>11, Zenon DEF LedgerLoop, LedgerStart, SetTypes, setVars, cementerVars, cementer, confirming
<1> QED
  BY <1>1, <1>2, <1>3, <1>4, <1>5, <1>6, <1>7, <1>8, <1>9, <1>10, <1>11
     DEF SetNext, Thread, Worker

(* A commit makes durable what is cemented, never less than before.        *)
LEMMA DurableStep ==
    ASSUME SetInv, [Next]_vars, [SetNext]_setVars
    PROVE  /\ DurableBound'
           /\ \A a \in Account : durable[a].height <= durable'[a].height
<1>1. durable' = durable \/ (durable' = confirmation /\ confirmation' = confirmation)
  <2>1. ASSUME NEW h \in Winners, Add(h) PROVE durable' = durable
    BY <2>1 DEF Add
  <2>2. Stop \/ Acquire \/ ThreadExits \/ TakeBatch \/ Notify \/ NotifyAborted \/ Confirm \/ Walk
           \/ ConfirmReturned \/ NotifyAlready \/ Worker \/ LedgerLoop \/ LedgerStart
           \/ UNCHANGED setVars => durable' = durable
    BY Zenon DEF Stop, Acquire, ThreadExits, TakeBatch, Notify, NotifyAborted, Confirm, Walk,
           ConfirmReturned, NotifyAlready, Worker, TakeTask, NotifyBatch, LedgerLoop,
           LedgerStart, setVars, confirming
  <2>3. Refresh \/ NotifyMaybe \/ EndBatch \/ Abandon =>
           durable' = durable \/ (durable' = confirmation /\ confirmation' = confirmation)
    BY Zenon DEF Refresh, NotifyMaybe, EndBatch, Abandon, cementerVars, vars, tables
  <2> QED
    BY <2>1, <2>2, <2>3, Zenon DEF SetNext, Thread
<1>2. \A a \in Account : confirmation[a].height <= confirmation'[a].height
  BY NextInv, Zenon DEF SetInv, CementedStep
<1>3. ChainInv'
  BY NextInv DEF SetInv
<1>4. \A a \in Account : /\ durable[a].height \in Nat /\ confirmation[a].height \in Nat
                         /\ confirmation'[a].height \in Nat
  BY <1>3, Zenon DEF SetInv, SetTypes, ChainInv, TypeOK, ConfirmationHeightInfo
<1> QED
  BY <1>1, <1>2, <1>4, SMTT(30) DEF SetInv, DurableBound

(* What is on its way to the observers was committed first.                *)
LEMMA ToldStep ==
    ASSUME SetInv, [Next]_vars, SetTypes', [SetNext]_setVars
    PROVE  ToldSettled'
<1>1. \A h : Settled(h) => Settled(h)'
  BY DurableStep, SettledKept, Zenon DEF SetInv
<1>2. ASSUME notified' = notified, running' = running, tasks' = tasks,
             pc' \in {"notify", "final"} => pc \in {"notify", "final"} /\ cemented' = cemented
      PROVE  ToldSettled'
  BY <1>1, <1>2, Zenon DEF SetInv, ToldSettled
<1>3. ASSUME NEW h \in Winners, Add(h) PROVE ToldSettled'
  BY <1>2, <1>3, Zenon DEF Add
<1>4. CASE Stop \/ Acquire \/ ThreadExits \/ TakeBatch \/ Refresh \/ Abandon \/ NotifyAborted
           \/ Confirm \/ Walk \/ ConfirmReturned \/ NotifyAlready \/ LedgerLoop
           \/ LedgerStart \/ UNCHANGED setVars
  BY <1>2, <1>4, Zenon
     DEF Stop, Acquire, ThreadExits, TakeBatch, Refresh, Abandon, NotifyAborted, AfterNotify,
         Confirm, NextEntry, Walk, ConfirmReturned, NotifyAlready, LedgerLoop, LedgerStart,
         setVars, confirming
<1>5. CASE NotifyMaybe \/ EndBatch
  <2>1. /\ notified' = notified /\ running' = running /\ tasks' = tasks /\ UNCHANGED vars
        /\ cemented' = cemented
        /\ pc' \in {"notify", "final"} => durable' = confirmation
    BY <1>5, Zenon DEF NotifyMaybe, EndBatch, cementerVars
  <2>2. pc' \in {"notify", "final"} => \A h \in Members(cemented) : Settled(h)'
    BY <2>1, CommitSettles, Zenon DEF SetInv, HeldCemented
  <2> QED
    BY <1>1, <2>1, <2>2, Zenon DEF SetInv, ToldSettled
<1>6. CASE Notify
  <2>1. /\ notified' = notified /\ running' = running /\ tasks' = Append(tasks, cemented)
        /\ pc' \in {"renew", "already"} /\ pc \in {"notify", "final"}
    BY <1>6 DEF Notify, AfterNotify
  <2>2. \A h \in Members(cemented) : Settled(h)'
    BY <1>1, <2>1, Zenon DEF SetInv, ToldSettled
  <2>3. \A i \in DOMAIN tasks' : tasks'[i] = cemented \/ (i \in DOMAIN tasks /\ tasks'[i] = tasks[i])
    <3>1. tasks \in Seq(Seq(Hash)) /\ cemented \in Seq(Hash)
      BY Zenon DEF SetInv, SetTypes
    <3>2. \A i \in DOMAIN Append(tasks, cemented) :
             \/ Append(tasks, cemented)[i] = cemented
             \/ i \in DOMAIN tasks /\ Append(tasks, cemented)[i] = tasks[i]
      <4> DEFINE S == Seq(Hash)
      <4>1. tasks \in Seq(S) /\ cemented \in S
        BY <3>1
      <4> HIDE DEF S
      <4> QED
        BY <4>1, AppendedAt, SMTT(30)
    <3> QED
      BY <2>1, <3>2, Zenon
  <2> QED
    BY <1>1, <2>1, <2>2, <2>3, Zenon DEF SetInv, ToldSettled
<1>7. CASE TakeTask
  <2>1. /\ notified' = notified /\ running' = Head(tasks) /\ tasks' = Tail(tasks) /\ tasks # <<>>
        /\ pc' = pc /\ cemented' = cemented
    BY <1>7 DEF TakeTask
  <2>2. 1 \in DOMAIN tasks /\ Head(tasks) = tasks[1]
    BY <2>1, SMTT(30) DEF SetInv, SetTypes
  <2>3. \A i \in DOMAIN tasks' : i + 1 \in DOMAIN tasks /\ tasks'[i] = tasks[i + 1]
    BY <2>1, SMTT(30) DEF SetInv, SetTypes
  <2> QED
    BY <1>1, <2>1, <2>2, <2>3, Zenon DEF SetInv, ToldSettled
<1>8. CASE NotifyBatch
  <2>1. /\ notified' = notified \o running /\ running # None /\ running' = None
        /\ tasks' = tasks /\ pc' = pc /\ cemented' = cemented
    BY <1>8, Zenon DEF NotifyBatch
  <2>2. Members(notified') = Members(notified) \cup Members(running)
    <3>1. notified \in Seq(Hash) /\ running \in Seq(Hash)
      BY <2>1, Zenon DEF SetInv, SetTypes
    <3>2. Members(notified \o running) = Members(notified) \cup Members(running)
      BY <3>1, MembersConcat, Zenon
    <3> QED
      BY <2>1, <3>2, Zenon
  <2> QED
    BY <1>1, <2>1, <2>2, Zenon DEF SetInv, ToldSettled
<1> QED
  BY <1>3, <1>4, <1>5, <1>6, <1>7, <1>8 DEF SetNext, Thread, Worker

(* What the thread holds back is cemented, though maybe not committed.     *)
LEMMA HeldStep ==
    ASSUME SetInv, [Next]_vars, [SetNext]_setVars
    PROVE  HeldCemented'
<1>1. \A h : ConfirmedOrPruned(h) => ConfirmedOrPruned(h)'
  BY CementedKept DEF SetInv
<1>2. ASSUME cemented' \in {cemented, <<>>}, already' \in {already, <<>>},
             pc' = "walk" => pc = "walk" /\ result' = result
      PROVE  HeldCemented'
  <2>1. Members(<<>>) = {}
    BY DEF Members
  <2> QED
    BY <1>1, <1>2, <2>1, Zenon DEF SetInv, HeldCemented
<1>3. ASSUME NEW h \in Winners, Add(h) PROVE HeldCemented'
  BY <1>2, <1>3, Zenon DEF Add, cementerVars, cementer
<1>4. CASE Stop \/ Acquire \/ ThreadExits \/ TakeBatch \/ Refresh \/ Abandon \/ NotifyMaybe
           \/ Notify \/ NotifyAborted \/ EndBatch \/ NotifyAlready
  BY <1>2, <1>4, Zenon
     DEF Stop, Acquire, ThreadExits, TakeBatch, Refresh, Abandon, NotifyMaybe, Notify,
         NotifyAborted, AfterNotify, EndBatch, NotifyAlready, cementerVars, cementer
<1>5. CASE Worker \/ LedgerLoop \/ LedgerStart \/ UNCHANGED setVars
  BY <1>2, <1>5, Zenon
     DEF Worker, TakeTask, NotifyBatch, LedgerLoop, LedgerStart, setVars, confirming,
         cementerVars, cementer
<1>6. CASE Confirm
  <2>1. CASE pc' # "walk"
    BY <1>2, <1>6, <2>1 DEF Confirm
  <2>2. CASE pc' = "walk"
    <3>1. result' = <<>> /\ cemented' = cemented /\ already' = already
      BY <1>6, <2>2, Zenon DEF Confirm, NextEntry, ConfirmStart
    <3>2. Members(<<>>) = {}
      BY DEF Members
    <3> QED
      BY <1>1, <3>1, <3>2, Zenon DEF SetInv, HeldCemented
  <2> QED
    BY <2>1, <2>2
<1>7. CASE Walk
  <2>1. /\ Visit /\ Top \in Stored /\ Top \in Hash /\ ~Busy /\ pc = "walk" /\ pc' = pc
        /\ cemented' = cemented /\ already' = already
    BY <1>7, Zenon DEF Walk, Visit, Stored, confirming, SetInv, Exclusive, Guarded
  <2>2. CASE result' = result
    BY <1>2, <2>1, <2>2, Zenon
  <2>3. CASE result' # result
    <3>1. /\ result' = Append(result, Top)
          /\ confirmation' = [confirmation EXCEPT ![block[Top].account] =
                                 [height |-> block[Top].height, frontier |-> Top]]
          /\ block' = block
      BY <2>1, <2>3 DEF Visit, CementTop
    <3>2. Members(result') = Members(result) \cup {Top}
      BY <2>1, <3>1, MembersAppend, SMTT(30) DEF SetInv, SetTypes
    <3>3. block[Top].account \in Account /\ block[Top].height \in Nat
      BY <2>1, Zenon DEF Stored, SetInv, ChainInv, TypeOK, Sideband
    <3>4. \A x \in Hash : x = Top => ConfirmedOrPruned(x)'
      <4>1. confirmation'[block[Top].account].height = block[Top].height
        BY <3>1, <3>3, Zenon DEF SetInv, ChainInv, TypeOK
      <4>2. \A x \in Hash : x = Top => Confirmed(x)'
        BY <2>1, <3>1, <3>3, <4>1, SMTT(30) DEF Confirmed, Stored
      <4> QED
        BY <2>1, <4>2 DEF ConfirmedOrPruned
    <3> QED
      BY <1>1, <2>1, <3>2, <3>4, Zenon DEF SetInv, HeldCemented
  <2> QED
    BY <2>2, <2>3
<1>8. CASE ConfirmReturned
  <2>1. /\ pc = "walk" /\ target = Zero /\ pc' = "loop"
        /\ cemented' = cemented \o result
        /\ already' = IF result = <<>> THEN Append(already, Head(batch)) ELSE already
    BY <1>8, Zenon DEF ConfirmReturned, NextEntry
  <2>2. batch # <<>> /\ batch \in Seq(Hash)
    BY <2>1, Zenon DEF SetInv, WalkInv, SetTypes
  <2>3. Members(cemented') = Members(cemented) \cup Members(result)
    <3>1. cemented \in Seq(Hash) /\ result \in Seq(Hash)
      BY Zenon DEF SetInv, SetTypes
    <3>2. Members(cemented \o result) = Members(cemented) \cup Members(result)
      BY <3>1, MembersConcat, Zenon
    <3> QED
      BY <2>1, <3>2, Zenon
  <2>4. Members(Append(already, Head(batch))) = Members(already) \cup {Head(batch)}
    BY <2>2, MembersAppend, MembersTail, SMTT(30) DEF SetInv, SetTypes
  <2>5. result = <<>> => ConfirmedOrPruned(Head(batch))
    BY <2>1, Zenon DEF SetInv, WalkInv
  <2>6. \A h \in Members(already') : ConfirmedOrPruned(h)
    BY <2>1, <2>4, <2>5, Zenon DEF SetInv, HeldCemented
  <2>7. \A h \in Members(cemented') : ConfirmedOrPruned(h)
    BY <2>1, <2>3, Zenon DEF SetInv, HeldCemented
  <2> QED
    BY <1>1, <2>1, <2>6, <2>7, Zenon DEF HeldCemented
<1> QED
  BY <1>3, <1>4, <1>5, <1>6, <1>7, <1>8, Zenon DEF SetNext, Thread

(* A walk that cemented nothing found its block cemented.                  *)
LEMMA WalkStep ==
    ASSUME SetInv, Exclusive', [Next]_vars, [SetNext]_setVars
    PROVE  WalkInv'
<1> DEFINE Waiting == {"refresh", "step", "notify", "renew", "confirm", "walk"}
<1>1. ASSUME pc' # "walk", pc' \in Waiting => batch' # <<>>
      PROVE  WalkInv'
  BY <1>1, Zenon DEF Exclusive, WalkInv
<1>2. ASSUME UNCHANGED <<vars, cementer, pc, batch>> PROVE WalkInv'
  BY <1>2, Zenon DEF SetInv, WalkInv, ConfirmedOrPruned, Confirmed, Stored, vars, tables, cementer
<1>3. ASSUME NEW h \in Winners, Add(h) PROVE WalkInv'
  BY <1>2, <1>3, Zenon DEF Add, cementerVars
<1>4. CASE Stop \/ Worker \/ UNCHANGED setVars
  BY <1>2, <1>4, Zenon DEF Stop, Worker, TakeTask, NotifyBatch, setVars, cementerVars, confirming
<1>5. CASE LedgerLoop \/ LedgerStart
  BY <1>1, <1>5, Zenon DEF LedgerLoop, LedgerStart, Guarded, confirming, SetInv, WalkInv
<1>6. CASE TakeBatch \/ ThreadExits \/ Acquire \/ Refresh \/ Abandon \/ NotifyMaybe \/ Notify
           \/ NotifyAborted \/ EndBatch \/ NotifyAlready \/ ConfirmReturned
  <2>1. pc' # "walk"
    BY <1>6, Zenon DEF TakeBatch, ThreadExits, Acquire, Refresh, Abandon, NotifyMaybe, Notify,
                NotifyAborted, AfterNotify, EndBatch, NotifyAlready, ConfirmReturned, NextEntry
  <2>2. pc' \in Waiting => batch' = batch /\ (pc \in Waiting \/ batch # <<>>)
    BY <1>6, Zenon DEF TakeBatch, ThreadExits, Acquire, Refresh, Abandon, NotifyMaybe, Notify,
                NotifyAborted, AfterNotify, EndBatch, NotifyAlready, ConfirmReturned, NextEntry
  <2> QED
    BY <1>1, <2>1, <2>2, Zenon DEF SetInv, WalkInv
<1>7. CASE Confirm
  <2>1. CASE pc' = "loop"
    BY <1>1, <2>1, Zenon
  <2>2. CASE pc' # "loop"
    <3>1. /\ pc' = "walk" /\ batch' = batch /\ UNCHANGED vars
          /\ target' = Head(batch) /\ stack' = <<Head(batch)>> /\ Head(batch) \in Stored
      BY <1>7, <2>2, Zenon DEF Confirm, NextEntry, ConfirmStart
    <3>2. batch # <<>>
      BY <1>7, Zenon DEF Confirm, SetInv, WalkInv
    <3>3. Head(batch) \in Stored'
      BY <3>1, Zenon DEF vars, tables, Stored
    <3>4. stack' # <<>> /\ \A i \in DOMAIN stack' : stack'[i] = Head(batch)
      BY <3>1, SMTT(30)
    <3>5. target' # Zero
      BY <3>1, Numbers, Zenon DEF Stored
    <3> QED
      BY <3>1, <3>2, <3>3, <3>4, <3>5, Zenon DEF WalkInv
  <2> QED
    BY <1>7, <2>1, <2>2, Zenon DEF Confirm, NextEntry
<1>8. CASE Walk
  <2>1. /\ Visit /\ pc = "walk" /\ pc' = "walk" /\ batch' = batch /\ target # Zero
        /\ target = Head(batch) /\ batch # <<>> /\ target \in Stored
        /\ stack # <<>> /\ stack \in Seq(Hash \cup Account)
        /\ Top \in Hash /\ target' \in {Zero, target}
    BY <1>8, Zenon DEF Walk, Visit, confirming, SetInv, SetTypes, WalkInv, Stored
  <2>2. target \in Stored'
    BY <2>1, Zenon DEF Visit, CementTop, Stored, vars, tables
  <2>3. Top \in Members(stack)
    BY <2>1, SMTT(30) DEF Top, Members
  <2>4. \A x \in Members(stack) : x = target \/ (result = <<>> => ~ConfirmedOrPruned(x))
    BY <2>1, Zenon DEF SetInv, WalkInv, Members
  <2>5. target' # Zero => stack' # <<>>
    BY <2>1, Zenon DEF Visit, WalkEnds
  <2>6. CASE result' = result /\ result = <<>>
    <3>1. UNCHANGED vars /\ ~(Len(result') >= MaxBlocks)
      <4>1. Append(result, Top) # <<>>
        BY <2>6
      <4> QED
        BY <2>1, <2>6, <4>1, MaxBlocksAssumption DEF Visit, CementTop
    <3>2. \A x : ConfirmedOrPruned(x)' <=> ConfirmedOrPruned(x)
      BY <3>1, Zenon DEF vars, tables, ConfirmedOrPruned, Confirmed, Stored
    <3>3. CASE Unconfirmed(Top) # <<>> /\ stack' = Push(Unconfirmed(Top))
      <4>1. /\ stack' # <<>>
            /\ Members(stack') \subseteq Members(stack) \cup Members(Unconfirmed(Top))
        BY <2>1, <3>3, PushedUncemented, Pushed, Zenon
      <4>2. target' = target
        BY <2>1, <2>2, <3>1, <4>1, Zenon DEF Visit, WalkEnds
      <4>3. \A x \in Members(stack') : x = target \/ ~ConfirmedOrPruned(x)
        BY <2>1, <2>4, <2>6, <4>1, PushedUncemented, Zenon
      <4> QED
        BY <2>1, <2>2, <2>5, <3>2, <4>2, <4>3, Zenon DEF WalkInv, Members
    <3>4. CASE CementTop
      <4>1. ConfirmedOrPruned(Top) /\ stack' = SubSeq(stack, 1, Len(stack) - 1)
        <5>1. Append(result, Top) # <<>>
          BY <2>6
        <5> QED
          BY <2>6, <3>4, <5>1 DEF CementTop
      <4>2. ConfirmedOrPruned(target)
        BY <2>3, <2>4, <2>6, <4>1, Zenon
      <4>3. Members(stack') \subseteq Members(stack)
        BY <2>1, <4>1, MembersSub, SMTT(30)
      <4>4. \A x \in Members(stack') : x = target \/ ~ConfirmedOrPruned(x)
        BY <2>4, <2>6, <4>3, Zenon
      <4>5. ConfirmedOrPruned(Head(batch))'
        BY <2>1, <3>2, <4>2, Zenon
      <4> QED
        BY <2>1, <2>2, <2>5, <3>2, <4>4, <4>5, Zenon DEF WalkInv, Members
    <3> QED
      BY <2>1, <3>3, <3>4, Zenon DEF Visit
  <2>7. CASE result' # <<>>
    BY <2>1, <2>2, <2>5, <2>7, Zenon DEF WalkInv
  <2>8. result' = result \/ result' # <<>>
    <3>1. Append(result, Top) # <<>>
      <4>1. result \in Seq(Hash)
        BY Zenon DEF SetInv, SetTypes
      <4>2. Len(result) + 1 # 0 /\ Len(Append(result, Top)) = Len(result) + 1
        BY <2>1, <4>1, SMTT(30)
      <4>3. Len(<<>>) = 0
        OBVIOUS
      <4> QED
        BY <4>2, <4>3, Zenon
    <3> QED
      BY <2>1, <3>1 DEF Visit, CementTop
  <2> QED
    BY <2>6, <2>7, <2>8
<1> QED
  BY <1>3, <1>4, <1>5, <1>6, <1>7, <1>8, Zenon DEF SetNext, Thread

(* The inductive invariant of the confirming set holds in every state.     *)
LEMMA SetInvAlways == SetSpec => []SetInv
<1>1. SetInit => SetInv
  <2> SUFFICES ASSUME SetInit PROVE SetInv
    OBVIOUS
  <2>1. ChainInv /\ Exclusive
    BY InitInv, Zenon DEF SetInit, CementerInit, Exclusive, Guarded
  <2>2. Members(<<>>) = {}
    BY DEF Members
  <2>3. SetTypes /\ DurableBound
    BY <2>1, SMTT(30) DEF SetInit, CementerInit, SetTypes, DurableBound, ChainInv, TypeOK,
                ConfirmationHeightInfo
  <2>4. ToldSettled /\ HeldCemented /\ WalkInv
    BY <2>2, SMTT(30) DEF SetInit, CementerInit, ToldSettled, HeldCemented, WalkInv
  <2> QED
    BY <2>1, <2>3, <2>4 DEF SetInv
<1>2. SetInv /\ [SetNext]_setVars => SetInv'
  <2> SUFFICES ASSUME SetInv, [SetNext]_setVars PROVE SetInv'
    OBVIOUS
  <2>1. Exclusive' /\ [Next]_vars
    BY SetStep DEF SetInv
  <2>2. ChainInv'
    BY <2>1, NextInv DEF SetInv
  <2>3. SetTypes'
    BY SetTypesStep DEF SetInv
  <2> QED
    BY <2>1, <2>2, <2>3, DurableStep, ToldStep, HeldStep, WalkStep, Zenon DEF SetInv
<1> QED
  BY <1>1, <1>2, PTL DEF SetSpec

(* Every block the observers are told of was cemented in a commit before   *)
(* that (or is pruned since), and every block reported as already cemented *)
(* is, whatever the batch size, the bounds of the walk and the other       *)
(* writers do.                                                             *)
THEOREM NotificationsAreDurable == SetSpec => []NotifiedDurable
<1>1. SetInv => NotifiedDurable
  BY Zenon DEF SetInv, ToldSettled, HeldCemented, Settled, NotifiedDurable
<1> QED
  BY <1>1, SetInvAlways, PTL
-----------------------------------------------------------------------------
(* Forced blocks                                                           *)

(* A state block may name a block of another account as its previous       *)
(* block.  It is refused as a fork although nothing competes with it, so   *)
(* the block that is processed next is assumed not to be a winner of this  *)
(* kind.                                                                   *)
WinnersContinue ==
    requests # <<>> /\ Head(requests).forced =>
        \A h \in Hash : h = Head(requests).hash /\ Previous(h) \in Stored
                           => AccountOf(h) = block[Previous(h)].account

(* The block has a root: a block before it or an account.                  *)
Rooted(h) == Previous(h) # Zero \/ Block[h].account \in Account

(* The rollback has removed the competitor, or has met a cemented one.     *)
Overcome(h) == Competitor(h) # Zero => Confirmed(Competitor(h)) /\ Root(Competitor(h)) = Root(h)

Forcing ==
    phase = "forcing" =>
        \A h \in Hash : h = Head(requests).hash /\ Rooted(h) =>
            /\ rollback = <<>> => Overcome(h)
            /\ rollback # <<>> => /\ Competitor(h) \in {Zero, rollback[1]}
                                  /\ Root(rollback[1]) = Root(h)

Refused(r) == r.request.forced /\ r.status = "Fork"

CementedRival(h) == \E x \in Stored : Root(x) = Root(h) /\ Confirmed(x)

ForceInv ==
    /\ pruned = {}
    /\ \E S : results \in Seq(S)
    /\ Forcing
    /\ ForcedReplaces

LinkInv == PayInv /\ SuccessorIntact /\ OpenIntact

(* What block_successor_by_qualified_root finds has the same root.         *)
LEMMA CompetitorFound ==
    ASSUME LinkInv, pruned = {}, NEW h \in Hash, Rooted(h), Competitor(h) # Zero
    PROVE  Competitor(h) \in Stored /\ Root(Competitor(h)) = Root(h)
<1> USE Numbers
<1>1. CASE Previous(h) # Zero
  <2>1. Previous(h) \in Stored /\ Competitor(h) = block[Previous(h)].successor
    BY <1>1, Zenon DEF Competitor
  <2>2. Competitor(h) \in Stored /\ Previous(Competitor(h)) = Previous(h)
    BY <2>1, Zenon DEF LinkInv, SuccessorIntact
  <2> QED
    BY <1>1, <2>2, Zenon DEF Root
<1>2. CASE Previous(h) = Zero
  <2>1. /\ Block[h].account \in Account /\ account[Block[h].account] # None
        /\ Competitor(h) = account[Block[h].account].open
    BY <1>2, Zenon DEF Competitor, Rooted
  <2>2. /\ Competitor(h) \in Stored /\ Previous(Competitor(h)) = Zero
        /\ Block[Competitor(h)].account = Block[h].account
    BY <2>1, Zenon DEF LinkInv, OpenIntact
  <2> QED
    BY <1>2, <2>2, Zenon DEF Root
<1> QED
  BY <1>1, <1>2, Zenon

(* A block is refused as a fork only if something competes with it.        *)
LEMMA ForkCompetes ==
    ASSUME LinkInv, NEW h \in Hash, Validate(h) = "Fork",
           Previous(h) \in Stored => AccountOf(h) = block[Previous(h)].account
    PROVE  Rooted(h) /\ Competitor(h) \notin {Zero, h}
<1> USE Numbers
<1>a. ChainInv
  BY Zenon DEF LinkInv, PayInv
<1>0. ChainRules(h) = "Fork"
  <2>1. EpochPreCheck(h) # "Fork"
    BY DEF EpochPreCheck
  <2>2. AmountRules(h) # "Fork"
    BY DEF AmountRules
  <2>3. EpochRules(h) # "Fork"
    BY DEF EpochRules
  <2> QED
    BY <2>1, <2>2, <2>3, Zenon DEF Validate
<1>1. /\ h \notin Stored /\ h \notin pruned /\ AccountExists(h)
      /\ \/ IsOpen(h)
         \/ ~IsOpen(h) /\ PreviousStored(h) /\ Previous(h) # OldInfo(h).head
  BY <1>0 DEF ChainRules, BlockExistsOrPruned
<1>2. AccountOf(h) # Zero /\ account[AccountOf(h)] # None
  BY <1>1, Zenon DEF AccountExists
<1>3. CASE IsOpen(h)
  <2>1. Previous(h) = Zero /\ AccountOf(h) = Block[h].account
    BY <1>3, BlocksAssumption DEF IsOpen, AccountOf, Type, Previous
  <2>2. Block[h].account \in Account
    BY <1>2, <2>1, BlockContent
  <2>3. Competitor(h) = account[Block[h].account].open
    BY <1>2, <2>1, Zenon DEF Competitor
  <2>4. Competitor(h) \in Hash /\ Competitor(h) \in Stored \cup pruned
    <3>1. account[Block[h].account] # None /\ account[Block[h].account] \in AccountInfo
      BY <1>2, <1>a, <2>1, <2>2, Zenon DEF LinkInv, ChainInv, TypeOK
    <3>2. account[Block[h].account].open \in Hash
      BY <3>1 DEF AccountInfo
    <3>3. account[Block[h].account].open \in Stored \cup pruned
      BY <1>a, <2>2, <3>1, Zenon DEF LinkInv, OpenIntact
    <3> QED
      BY <2>3, <3>2, <3>3, Zenon
  <2> QED
    BY <1>1, <2>2, <2>4, Zenon DEF Rooted
<1>4. CASE ~IsOpen(h) /\ PreviousStored(h) /\ Previous(h) # OldInfo(h).head
  <2>1. Previous(h) # Zero /\ Previous(h) \in Stored
    BY <1>4, BlockContent DEF PreviousStored, Stored
  <2>2. Competitor(h) = block[Previous(h)].successor
    BY <2>1, Zenon DEF Competitor
  <2>3. Competitor(h) # Zero
    BY <1>4, <1>a, <2>1, <2>2, Zenon DEF ChainInv, ChainIntact, OldInfo
  <2>4. Competitor(h) # h
    BY <1>1, <2>1, <2>2, <2>3, Zenon DEF LinkInv, SuccessorIntact
  <2> QED
    BY <2>1, <2>3, <2>4, Zenon DEF Rooted
<1> QED
  BY <1>1, <1>3, <1>4, Zenon

(* While a rollback is under way a competitor can only disappear.          *)
LEMMA RemoveCompetitor ==
    ASSUME ChainInv, RollbackRemove, NEW h \in Hash, Rooted(h)
    PROVE  Competitor(h)' \in {Zero, Competitor(h)}
<1> USE Numbers
<1> DEFINE x == HeadOf(Target)
           a == block[x].account
<1>1. /\ x \in Stored /\ Remove(x) /\ account[a] # None /\ a \in Account
      /\ account[a] \in AccountInfo /\ account[a].blockCount = block[x].height
      /\ Previous(x) # Zero => Previous(x) \in Stored /\ Previous(x) \notin pruned
  BY RemovableHead, Zenon DEF RollbackRemove
<1> HIDE DEF x
<1>2. CASE Previous(h) # Zero
  <2>1. /\ Stored' = Stored \ {x}
        /\ \A y \in Stored' : block'[y].successor = IF y = Previous(x) THEN Zero ELSE block[y].successor
    BY <1>1, RemovedBlocks, Zenon
  <2>2. CASE Previous(h) \in Stored'
    <3>1. Previous(h) \in Stored
      BY <2>1, <2>2, Zenon
    <3>2. Competitor(h)' = block'[Previous(h)].successor
      BY <1>2, <2>2, Zenon DEF Competitor
    <3>3. Competitor(h) = block[Previous(h)].successor
      BY <1>2, <3>1, Zenon DEF Competitor
    <3> QED
      BY <2>1, <2>2, <3>2, <3>3, Zenon
  <2>3. CASE Previous(h) \notin Stored'
    BY <1>2, <2>3, Zenon DEF Competitor
  <2> QED
    BY <2>2, <2>3, Zenon
<1>3. CASE Previous(h) = Zero
  <2>1. Block[h].account \in Account
    BY <1>3, Zenon DEF Rooted
  <2>2. account' = [account EXCEPT ![a] = PreviousAccountInfo(x)]
    BY <1>1, Zenon DEF Remove
  <2>3. /\ Previous(x) = Zero => PreviousAccountInfo(x) = None
        /\ Previous(x) # Zero => PreviousAccountInfo(x).open = account[a].open
    BY DEF PreviousAccountInfo
  <2> HIDE DEF a
  <2>4. account'[a] = PreviousAccountInfo(x) /\ \A b \in Account : b # a => account'[b] = account[b]
    BY <1>1, <2>2, Zenon DEF ChainInv, TypeOK
  <2>5. CASE Block[h].account # a
    BY <1>3, <2>1, <2>4, <2>5, Zenon DEF Competitor
  <2>6. CASE Block[h].account = a /\ Previous(x) = Zero
    BY <1>3, <2>3, <2>4, <2>6, Zenon DEF Competitor
  <2>7. CASE Block[h].account = a /\ Previous(x) # Zero
    <3>1. Competitor(h) = account[a].open
      BY <1>1, <1>3, <2>7, Zenon DEF Competitor
    <3>2. Competitor(h)' \in {Zero, account'[a].open}
      BY <1>3, <2>7, Zenon DEF Competitor
    <3> QED
      BY <2>3, <2>4, <2>7, <3>1, <3>2, Zenon
  <2> QED
    BY <2>5, <2>6, <2>7, Zenon
<1> QED
  BY <1>2, <1>3, Zenon

(* What a call of the rollback does to the stack.                          *)
LEMMA RollbackBottom ==
    ASSUME ChainInv, RollbackRemove \/ RollbackDependency \/ RollbackReturn \/ RollbackFail,
           rollback' # <<>>
    PROVE  rollback # <<>> /\ rollback'[1] = rollback[1]
<1>0. rollback \in Seq(Hash)
  BY DEF ChainInv, TypeOK
<1>1. CASE RollbackRemove
  BY <1>1, Zenon DEF RollbackRemove
<1>2. CASE RollbackDependency
  <2>1. PICK d : rollback # <<>> /\ rollback' = Append(rollback, d)
    BY <1>2, Zenon DEF RollbackDependency
  <2>2. Append(rollback, d)[1] = rollback[1]
    BY <1>0, <2>1
  <2> QED
    BY <2>1, <2>2, Zenon
<1>3. CASE RollbackReturn
  <2>1. rollback # <<>> /\ rollback' = SubSeq(rollback, 1, Len(rollback) - 1)
    BY <1>3, Zenon DEF RollbackReturn
  <2>2. /\ Len(rollback) - 1 \in Nat /\ Len(rollback') = Len(rollback) - 1
        /\ \A i \in 1..(Len(rollback) - 1) : rollback'[i] = rollback[i]
    BY <1>0, <2>1, Shortened, Zenon
  <2>3. PICK n \in Nat : n = Len(rollback) - 1
    BY <2>2, Zenon
  <2>4. n # 0
    <3>1. rollback' \in Seq(Hash)
      BY <1>0, <2>1, <2>2
    <3>2. Len(rollback') = n
      BY <2>2, <2>3, Zenon
    <3> QED
      BY <3>1, <3>2
  <2>5. 1 \in 1..n
    BY <2>4
  <2> QED
    BY <2>1, <2>2, <2>3, <2>5, Zenon
<1>4. CASE RollbackFail
  BY <1>4, Zenon DEF RollbackFail
<1> QED
  BY <1>1, <1>2, <1>3, <1>4, Zenon

(* A cemented rival stays, as nothing is pruned here.                      *)
LEMMA RivalKept ==
    ASSUME CementedStep, pruned' = {}, NEW h, CementedRival(h)
    PROVE  CementedRival(h)'
<1>1. PICK x \in Stored : Root(x) = Root(h) /\ Confirmed(x)
  BY Zenon DEF CementedRival
<1>2. Confirmed(x)' /\ x \in Stored'
  <2>1. x \in Hash
    BY DEF Stored
  <2>2. Confirmed(x)'
    BY <1>1, <2>1, Zenon DEF CementedStep
  <2> QED
    BY <2>2, Zenon DEF Confirmed
<1> QED
  BY <1>1, <1>2, Zenon DEF CementedRival

(* The processor prunes nothing.                                           *)
LEMMA NothingPruned ==
    ASSUME [ProcessorNext]_processorVars
    PROVE  pruned' = pruned
<1>1. ASSUME UNCHANGED tables PROVE pruned' = pruned
  BY <1>1 DEF tables
<1>2. ASSUME UNCHANGED vars PROVE UNCHANGED tables
  BY <1>2 DEF vars
<1>3. CASE \E h \in Hash : AddLive(h) \/ ForceBlock(h) \/ \E c \in Caller : AddBlocking(c, h)
  BY <1>1, <1>2, <1>3, Zenon DEF AddLive, ForceBlock, AddBlocking
<1>4. CASE RollbackCompetitor
  BY <1>1, <1>4, Zenon DEF RollbackCompetitor, RollbackStart
<1>5. CASE RollbackLoop
  BY <1>1, <1>5, Zenon DEF RollbackLoop, RollbackRemove, Remove, RollbackDependency, RollbackReturn,
                           RollbackFail
<1>6. CASE ProcessOne
  <2>1. PICK h \in Hash : Process(h) \/ UNCHANGED vars
    BY <1>6 DEF ProcessOne
  <2> QED
    BY <1>1, <1>2, <2>1, Zenon DEF Process, Insert
<1>7. CASE TakeBlocks \/ BatchProcessed \/ Halt \/ CleanUpDeadChannel \/ UncheckedThread \/ HandOver
  <2>1. UNCHANGED vars
    BY <1>7 DEF TakeBlocks, BatchProcessed, Halt, CleanUpDeadChannel, UncheckedThread, HandOver
  <2> QED
    BY <1>1, <1>2, <2>1, Zenon
<1>8. CASE CementOther
  BY <1>8, Zenon DEF CementOther, Cement
<1>9. CASE UNCHANGED processorVars
  <2>1. UNCHANGED vars
    BY <1>9 DEF processorVars
  <2> QED
    BY <1>1, <1>2, <2>1, Zenon
<1> QED
  BY <1>3, <1>4, <1>5, <1>6, <1>7, <1>8, <1>9, Zenon DEF ProcessorNext, ThreadStep

(* The competitor of the block that is forced goes away, or is cemented.   *)
LEMMA ForcingStep ==
    ASSUME LinkInv, pruned = {}, Forcing, OutcomeStep, [ProcessorNext]_processorVars
    PROVE  Forcing'
<1>a. ChainInv
  BY Zenon DEF LinkInv, PayInv
<1>b. ASSUME UNCHANGED tables
      PROVE  /\ Stored' = Stored /\ \A h : Competitor(h)' = Competitor(h)
             /\ \A x : Confirmed(x)' <=> Confirmed(x)
  <2>1. block' = block /\ account' = account /\ confirmation' = confirmation
    BY <1>b DEF tables
  <2>2. Stored' = Stored
    BY <2>1, Zenon DEF Stored
  <2> QED
    BY <2>1, <2>2, Zenon DEF Competitor, Confirmed
<1>1. ASSUME UNCHANGED vars, requests' = requests, phase' = phase PROVE Forcing'
  <2>1. UNCHANGED tables /\ rollback' = rollback
    BY <1>1 DEF vars
  <2>2. \A h : Overcome(h) => Overcome(h)'
    BY <1>b, <2>1, Zenon DEF Overcome
  <2> QED
    BY <1>1, <1>b, <2>1, <2>2, Zenon DEF Forcing
<1>2. CASE \E h \in Hash : AddLive(h) \/ ForceBlock(h) \/ \E c \in Caller : AddBlocking(c, h)
  BY <1>1, <1>2, Zenon DEF AddLive, ForceBlock, AddBlocking
<1>3. CASE Halt \/ CleanUpDeadChannel \/ UncheckedThread \/ HandOver \/ UNCHANGED processorVars
  <2>1. UNCHANGED vars /\ requests' = requests /\ phase' = phase
    BY <1>3 DEF Halt, CleanUpDeadChannel, UncheckedThread, HandOver, processorVars, processing
  <2> QED
    BY <1>1, <2>1, Zenon
<1>4. CASE TakeBlocks \/ ProcessOne \/ BatchProcessed
  <2>1. phase' # "forcing"
    BY <1>4 DEF TakeBlocks, ProcessOne, BatchProcessed
  <2> QED
    BY <2>1, Zenon DEF Forcing
<1>5. CASE CementOther
  <2>1. phase' = phase /\ phase # "forcing"
    BY <1>5 DEF CementOther, processing
  <2> QED
    BY <2>1, Zenon DEF Forcing
<1>6. CASE RollbackCompetitor
  <2>1. /\ requests' = requests /\ HasCompetitor(Head(requests))
        /\ RollbackStart(Competitor(Head(requests).hash))
    BY <1>6 DEF RollbackCompetitor
  <2> SUFFICES ASSUME NEW h \in Hash, h = Head(requests).hash, Rooted(h)
               PROVE  /\ rollback' # <<>> /\ Competitor(h)' \in {Zero, rollback'[1]}
                      /\ Root(rollback'[1]) = Root(h)
    BY <2>1, Zenon DEF Forcing, Rooted
  <2>2. PICK c : c = Competitor(h)
    BY Zenon
  <2>3. rollback' = <<c>> /\ UNCHANGED tables /\ c # Zero
    BY <2>1, <2>2, Zenon DEF RollbackStart, HasCompetitor
  <2>4. rollback' # <<>> /\ rollback'[1] = c
    BY <2>3
  <2>5. Root(c) = Root(h)
    BY <2>2, <2>3, CompetitorFound, Zenon
  <2>6. Competitor(h)' = c
    BY <1>b, <2>2, <2>3, Zenon
  <2> QED
    BY <2>4, <2>5, <2>6, Zenon
<1>7. CASE RollbackLoop
  <2>1. /\ phase = "forcing" /\ requests' = requests
        /\ RollbackRemove \/ RollbackDependency \/ RollbackReturn \/ RollbackFail
    BY <1>7 DEF RollbackLoop, processing
  <2>2. rollback # <<>>
    BY <2>1, Zenon DEF RollbackRemove, RollbackDependency, RollbackReturn, RollbackFail
  <2> SUFFICES ASSUME NEW h \in Hash, h = Head(requests).hash, Rooted(h)
               PROVE  /\ rollback' = <<>> => Overcome(h)'
                      /\ rollback' # <<>> => /\ Competitor(h)' \in {Zero, rollback'[1]}
                                             /\ Root(rollback'[1]) = Root(h)
    BY <2>1, Zenon DEF Forcing, Rooted
  <2>3. PICK c : c = rollback[1]
    BY Zenon
  <2>4. Competitor(h) \in {Zero, c} /\ Root(c) = Root(h)
    BY <2>1, <2>2, <2>3, Zenon DEF Forcing
  <2>5. ~RollbackRemove => UNCHANGED tables
    BY <2>1, Zenon DEF RollbackDependency, RollbackReturn, RollbackFail
  <2>6. ASSUME rollback' # <<>>
        PROVE  Competitor(h)' \in {Zero, rollback'[1]} /\ Root(rollback'[1]) = Root(h)
    <3>1. rollback'[1] = c
      BY <1>a, <2>1, <2>3, <2>6, RollbackBottom, Zenon
    <3>2. Competitor(h)' \in {Zero, Competitor(h)}
      BY <1>a, <1>b, <2>5, RemoveCompetitor, Zenon
    <3> QED
      BY <2>4, <3>1, <3>2, Zenon
  <2>7. ASSUME rollback' = <<>> PROVE Overcome(h)'
    <3>1. ~RollbackRemove
      BY <2>2, <2>7, Zenon DEF RollbackRemove
    <3>2. /\ Stored' = Stored /\ Competitor(h)' = Competitor(h)
          /\ \A x : Confirmed(x)' <=> Confirmed(x)
      BY <1>b, <2>5, <3>1, Zenon
    <3>3. c \notin Stored \/ Confirmed(c)
      BY <2>2, <2>3, <2>7, <3>2, Zenon DEF OutcomeStep
    <3>4. ASSUME NEW d, d = Competitor(h), d # Zero PROVE Confirmed(d)' /\ Root(d) = Root(h)
      <4>1. d = c /\ d \in Stored /\ Root(d) = Root(h)
        BY <2>4, <3>4, CompetitorFound, Zenon
      <4> QED
        BY <3>2, <3>3, <4>1, Zenon
    <3> SUFFICES ASSUME NEW d, d = Competitor(h)', d # Zero PROVE Confirmed(d)' /\ Root(d) = Root(h)
      BY Zenon DEF Overcome
    <3> QED
      BY <3>2, <3>4, Zenon
  <2> QED
    BY <2>6, <2>7, Zenon
<1> QED
  BY <1>2, <1>3, <1>4, <1>5, <1>6, <1>7, Zenon DEF ProcessorNext, ThreadStep

(* The results of the batch.                                               *)
LEMMA ResultsStep ==
    ASSUME LinkInv, ForceInv, WinnersContinue, CementedStep, pruned' = {},
           [ProcessorNext]_processorVars
    PROVE  (\E S : results' \in Seq(S)) /\ ForcedReplaces'
<1>0. PICK S : results \in Seq(S)
  BY Zenon DEF ForceInv
<1>1. \A r \in Elements(results) : Refused(r) => CementedRival(r.request.hash)
  BY Zenon DEF ForceInv, ForcedReplaces, Refused, CementedRival
<1>2. ASSUME \A r \in Elements(results)' : Refused(r) => CementedRival(r.request.hash)
      PROVE  ForcedReplaces'
  <2> SUFFICES ASSUME NEW r \in Elements(results)', r.request.forced, r.status = "Fork",
                      NEW h, h = r.request.hash
               PROVE  CementedRival(h)'
    BY Zenon DEF ForcedReplaces, CementedRival
  <2> QED
    BY <1>2, RivalKept, Zenon DEF Refused
<1>3. ASSUME results' = results PROVE (\E T : results' \in Seq(T)) /\ ForcedReplaces'
  <2>1. Elements(results)' = Elements(results)
    BY <1>3, Zenon DEF Elements
  <2> QED
    BY <1>0, <1>1, <1>2, <1>3, <2>1, Zenon
<1>4. CASE BatchProcessed
  <2>1. results' = <<>>
    BY <1>4, Zenon DEF BatchProcessed
  <2>2. <<>> \in Seq(S) /\ DOMAIN <<>> = {}
    OBVIOUS
  <2>3. Elements(results)' = {}
    BY <2>1, <2>2, Zenon DEF Elements
  <2> QED
    BY <1>2, <2>1, <2>2, <2>3, Zenon
<1>5. CASE ProcessOne
  <2>1. PICK h \in Hash : /\ h = Head(requests).hash
                          /\ results' = Append(results, [request |-> Head(requests), status |-> Validate(h)])
    BY <1>5 DEF ProcessOne
  <2>2. PICK e : e = [request |-> Head(requests), status |-> Validate(h)]
    BY Zenon
  <2>3. e.request = Head(requests) /\ e.status = Validate(h)
    BY <2>2
  <2>0. PICK T : T = S \cup {e}
    BY Zenon
  <2>4. results' = Append(results, e) /\ results \in Seq(T) /\ e \in T
    BY <1>0, <2>0, <2>1, <2>2
  <2>5. Append(results, e) \in Seq(T) /\ Elements(Append(results, e)) = Elements(results) \cup {e}
    <3>1. /\ Append(results, e) \in Seq(T)
          /\ Members(Append(results, e)) = Members(results) \cup {e}
      BY <2>4, MembersAppend
    <3>2. \A s : Elements(s) = Members(s)
      BY Zenon DEF Elements, Members
    <3> QED
      BY <3>1, <3>2, Zenon
  <2>6. Elements(results)' = Elements(results) \cup {e}
    BY <2>4, <2>5, Zenon DEF Elements
  <2>7. Refused(e) => CementedRival(e.request.hash)
    <3> SUFFICES ASSUME Head(requests).forced, Validate(h) = "Fork" PROVE CementedRival(h)
      BY <2>1, <2>3, Zenon DEF Refused
    <3>1. requests # <<>>
      BY <1>5, Zenon DEF ProcessOne
    <3>2. Rooted(h) /\ Competitor(h) \notin {Zero, h}
      BY <2>1, <3>1, ForkCompetes, Zenon DEF WinnersContinue
    <3>3. phase = "forcing" /\ rollback = <<>>
      BY <1>5, <2>1, <3>2, Zenon DEF ProcessOne, HasCompetitor
    <3>4. Confirmed(Competitor(h)) /\ Root(Competitor(h)) = Root(h)
      BY <2>1, <3>2, <3>3, Zenon DEF ForceInv, Forcing, Overcome
    <3> QED
      BY <3>4, Zenon DEF CementedRival, Confirmed
  <2> QED
    BY <1>1, <1>2, <2>4, <2>5, <2>6, <2>7, Zenon
<1>6. CASE \E h \in Hash : AddLive(h) \/ ForceBlock(h) \/ \E c \in Caller : AddBlocking(c, h)
  BY <1>3, <1>6, Zenon DEF AddLive, ForceBlock, AddBlocking
<1>7. CASE \/ TakeBlocks \/ RollbackCompetitor \/ RollbackLoop \/ Halt \/ CleanUpDeadChannel
           \/ UncheckedThread \/ HandOver \/ CementOther \/ UNCHANGED processorVars
  <2>1. results' = results
    BY <1>7 DEF TakeBlocks, RollbackCompetitor, RollbackLoop, Halt, CleanUpDeadChannel, UncheckedThread,
                HandOver, CementOther, processorVars, processing
  <2> QED
    BY <1>3, <2>1, Zenon
<1> QED
  BY <1>4, <1>5, <1>6, <1>7, Zenon DEF ProcessorNext, ThreadStep

(* A forced block loses only against a cemented block: the rollback of any *)
(* other competitor is complete when the forced block is processed.        *)
THEOREM ForcedBlocksReplace == ProcessorSpec /\ []WinnersContinue => []ForcedReplaces
<1>1. ProcessorSpec => Spec
  BY ProcessorImplements, PTL DEF Spec, ProcessorImplementsLedger
<1>2. ProcessorSpec => []LinkInv
  <2>1. PayInv /\ SuccessorIntact /\ OpenIntact => LinkInv
    BY DEF LinkInv
  <2> QED
    BY <1>1, <2>1, PaymentsAlwaysCovered, LinksAlwaysIntact, PTL
<1>3. ProcessorInit => ForceInv
  <2> SUFFICES ASSUME ProcessorInit PROVE ForceInv
    OBVIOUS
  <2>1. pruned = {} /\ results = <<>> /\ phase = "idle"
    BY Zenon DEF ProcessorInit, Init
  <2>2. <<>> \in Seq({}) /\ DOMAIN <<>> = {}
    OBVIOUS
  <2>3. Elements(results) = {}
    BY <2>1, <2>2, Zenon DEF Elements
  <2>4. phase # "forcing"
    BY <2>1
  <2> QED
    BY <2>1, <2>2, <2>3, <2>4, Zenon DEF ForceInv, Forcing, ForcedReplaces
<1>4. ASSUME LinkInv, ForceInv, WinnersContinue, [ProcessorNext]_processorVars PROVE ForceInv'
  <2>1. [Next]_vars
    BY <1>4, ProcessorStep
  <2>2. PayInv /\ ChainInv
    BY <1>4, Zenon DEF LinkInv, PayInv
  <2>3. CementedStep /\ OutcomeStep
    BY <2>1, <2>2, NextInv, OutcomeHolds
  <2>4. pruned = {} /\ pruned' = {} /\ Forcing
    BY <1>4, NothingPruned, Zenon DEF ForceInv
  <2>5. Forcing'
    BY <1>4, <2>3, <2>4, ForcingStep
  <2>6. (\E S : results' \in Seq(S)) /\ ForcedReplaces'
    BY <1>4, <2>3, <2>4, ResultsStep
  <2> QED
    BY <2>4, <2>5, <2>6, Zenon DEF ForceInv
<1>5. ForceInv => ForcedReplaces
  BY DEF ForceInv
<1> QED
  BY <1>2, <1>3, <1>4, <1>5, PTL DEF ProcessorSpec
=============================================================================
