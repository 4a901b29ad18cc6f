-------------------------- MODULE ElectionSchedulers --------------------------
(***************************************************************************)
(* The schedulers that start elections (node/src/consensus): the priority  *)
(* scheduler and its buckets, the hinted, the optimistic and the manual    *)
(* scheduler, the backlog population that feeds them, and the container of *)
(* active elections they compete for.                                      *)
(*                                                                         *)
(* A block is <<account, height>> and stands for its root as well: forks   *)
(* are the subject of Election and ActiveElections.  The ledger is kept as *)
(* the height of every account and the height up to which it is confirmed. *)
(* Reading it in a transaction that is a little old gives nothing new: the *)
(* block that is read may as well be read in time and be queued until then.*)
(***************************************************************************)
EXTENDS Bucket, Sequences, FiniteSetsExt

CONSTANTS
    Account,
    Length,             \* how many blocks each account gets at most
    Source,             \* the blocks of other accounts a block depends on
    Balance,            \* the balance of the account after the block
    Minimum,            \* the minimum balance of every bucket, in order
    Size,               \* ActiveElectionsConfig::size
    HintedLimit,        \* the share of it for hinted elections
    OptimisticLimit,    \* and for optimistic ones
    MaxWinners,         \* ActiveElectionsConfig::max_election_winners
    GapThreshold,       \* OptimisticSchedulerConfig::gap_threshold
    MaxCandidates,      \* OptimisticSchedulerConfig::max_size
    MaxRecent,          \* ActiveElectionsConfig::confirmation_cache
    MaxClock,           \* bound: blocks that ever arrive
    MaxAsked,           \* bound: requests to the other schedulers
    Askable             \* bound: the accounts whose blocks they are for

Block == UNION {{<<a, h>> : h \in 1..Length[a]} : a \in Account}

(* Blocks have different hashes, and a bucket can hold one.                *)
ASSUME SchedulerAssumption ==
    /\ Length \in [Account -> Nat]
    /\ \A b \in Block : Source[b] \subseteq Block
    /\ \A b, c \in Block : Order(b) \in Nat /\ (Order(b) = Order(c) => b = c)
    /\ Minimum \in Seq(Nat) \ {<<>>} /\ Size \in Nat \ {0} /\ MaxBlocks \in Nat \ {0}

VARIABLES
    height,      \* the blocks of every account in the ledger
    modified,    \* AccountInfo::modified, the time of the last block
    clock,       \* the number of blocks that have arrived
    confirmed,   \* the confirmation height of every account
    confirming,  \* the confirming set
    news,        \* cemented blocks the observers have not heard of yet, and whether
                 \* their own election confirmed them
    elections,   \* the active elections, by block: state and behavior
    recent,      \* RecentlyConfirmedCache::sequential, the oldest root first
    winners,     \* the calls of process_confirmed that are still to be made
    bucket,      \* the buckets
    priority,    \* the thread of the priority scheduler
    erased,      \* callbacks of erased elections that are still to be run,
                 \* by the thread that erased the election
    candidates,  \* the queue of the optimistic scheduler
    manual,      \* the queue of the manual scheduler
    asked        \* counts the requests for the bound MaxAsked

ledger == <<height, modified, clock, confirmed, confirming, news>>
active == <<elections, recent, winners, erased>>
queues == <<candidates, manual, asked>>
vars == <<ledger, active, bucket, priority, queues>>

Buckets == DOMAIN Minimum
Idle == [pc |-> "check"]

Init ==
    /\ height = [a \in Account |-> 0] /\ modified = [a \in Account |-> 0] /\ clock = 0
    /\ confirmed = [a \in Account |-> 0] /\ confirming = {} /\ news = {}
    /\ elections = <<>> /\ recent = <<>> /\ winners = {} 
    /\ erased = [t \in {"loop", "processor"} |-> {}]
    /\ bucket = [i \in Buckets |-> EmptyBucket] /\ priority = Idle
    /\ candidates = <<>> /\ manual = <<>> /\ asked = 0

-----------------------------------------------------------------------------
(* The ledger as the schedulers see it                                     *)

InLedger(b) == b[2] <= height[b[1]]
IsConfirmed(b) == b[2] <= confirmed[b[1]]
Dependencies(b) == Source[b] \cup (IF b[2] > 1 THEN {<<b[1], b[2] - 1>>} ELSE {})
DependentsConfirmed(b) == \A d \in Dependencies(b) : IsConfirmed(d)

(* BTreeMap of the buckets by balance: PriorityScheduler::find_bucket      *)
FindBucket(balance) == Max({i \in Buckets : \A j \in 2..i : balance >= Minimum[j]})
PreviousBalance(b) == IF b[2] = 1 THEN 0 ELSE Balance[<<b[1], b[2] - 1>>]

-----------------------------------------------------------------------------
(* ActiveElections: how many elections there is room for                   *)

Active == DOMAIN elections
Count(behavior) == Cardinality({b \in Active : elections[b].behavior = behavior})

ElectionVacancy(behavior) ==
    CASE behavior = "Priority" -> Size - Cardinality(Active)
      [] behavior = "Hinted" -> HintedLimit - Count("Hinted")
      [] behavior = "Optimistic" -> OptimisticLimit - Count("Optimistic")

Vacancy(behavior) ==
    Min({ElectionVacancy(behavior), MaxWinners - Cardinality(confirming)})

(* ActiveElections::insert of several blocks, one after the other.  An     *)
(* election of a bucket has a callback.                                    *)
Recent(b) == \E i \in DOMAIN recent : recent[i] = b
CanInsert(b) == b \notin Active /\ ~Recent(b)

InsertAll(blocks, behavior, callback) ==
    elections' = [b \in Active \cup {x \in blocks : CanInsert(x)} |->
                    IF b \in Active THEN elections[b]
                    ELSE [state |-> "Active", behavior |-> behavior, bucket |-> callback]]

(* PriorityScheduler::notify without the mutex of the scheduler: only a    *)
(* thread that sleeps hears it.                                            *)
Notified(p) == IF p.pc = "asleep" THEN Idle ELSE p

(* vacancy_updated, if the container has changed                           *)
VacancyUpdated(changed) == priority' = IF changed THEN Notified(priority) ELSE priority

-----------------------------------------------------------------------------
(* The priority scheduler                                                  *)

NextBlock(a) == <<a, confirmed[a] + 1>>
BucketOf(b) == FindBucket(Max({Balance[b], PreviousBalance(b)}))

(* Slip: the blocks it depends on are not looked at.                       *)
Activate_AnyBlock(accounts, top, time) ==
    LET entries(i) == {[time |-> time[a], block |-> NextBlock(a)] :
                         a \in {x \in accounts : confirmed[x] < top[x] /\ BucketOf(NextBlock(x)) = i}}
    IN /\ bucket' = [i \in Buckets |-> Push(bucket[i], entries(i))]
       /\ VacancyUpdated(\E i \in Buckets : bucket'[i].queue \ bucket[i].queue # {})

(* PriorityScheduler::activate for some accounts of a ledger with the      *)
(* given heights and times: the first unconfirmed block is pushed into its *)
(* bucket if the blocks it depends on are confirmed.                       *)
Activate(accounts, top, time) ==
    LET ready == {a \in accounts : confirmed[a] < top[a] /\ DependentsConfirmed(NextBlock(a))}
        entries(i) == {[time |-> time[a], block |-> NextBlock(a)] :
                         a \in {x \in ready : BucketOf(NextBlock(x)) = i}}
    IN /\ bucket' = [i \in Buckets |-> Push(bucket[i], entries(i))]
       /\ VacancyUpdated(\E i \in Buckets : bucket'[i].queue \ bucket[i].queue # {})

(* PriorityScheduler::run: the condition is looked at with the mutex of    *)
(* the scheduler, which neither push nor notify takes.                     *)
CheckPredicate ==
    /\ priority.pc = "check"
    /\ priority' = IF \E i \in Buckets : Available(bucket[i], Vacancy("Priority"))
                   THEN [pc |-> "scan", i |-> 1] ELSE [pc |-> "dozing"]
    /\ UNCHANGED <<ledger, active, bucket, queues>>

FallAsleep ==
    /\ priority.pc = "dozing"
    /\ priority' = [pc |-> "asleep"]
    /\ UNCHANGED <<ledger, active, bucket, queues>>

After(i) == IF i + 1 \in Buckets THEN [pc |-> "scan", i |-> i + 1] ELSE Idle

Scan ==
    /\ priority.pc = "scan"
    /\ priority' = IF Available(bucket[priority.i], Vacancy("Priority"))
                   THEN [pc |-> "start", i |-> priority.i] ELSE After(priority.i)
    /\ UNCHANGED <<ledger, active, bucket, queues>>

(* Bucket::activate: the first block of the queue is taken, inserted into  *)
(* the active elections, whatever the vacancy is now, ...                  *)
Start ==
    /\ priority.pc = "start"
    /\ LET i == priority.i
           first == FirstEntry(bucket[i].queue)
       IN /\ bucket' = [bucket EXCEPT ![i] = PopFirst(@)]
          /\ InsertAll({first.block}, "Priority", i)
          /\ priority' = IF CanInsert(first.block)
                         THEN [pc |-> "record", i |-> i, root |-> first.block,
                               priority |-> first.time, dead |-> FALSE]
                         ELSE After(i)
    /\ UNCHANGED <<ledger, recent, winners, erased, queues>>

(* ... and recorded as an election of the bucket.                          *)
RecordElection ==
    /\ priority.pc = "record"
    /\ LET entry == [root |-> priority.root, priority |-> priority.priority,
                     dead |-> priority.dead, late |-> priority.dead]
       IN bucket' = [bucket EXCEPT ![priority.i] = Record(@, entry)]
    /\ priority' = After(priority.i)
    /\ UNCHANGED <<ledger, active, queues>>

(* PriorityScheduler::run_cleanup: Election::cancel has no effect on an    *)
(* election that is confirmed or erased already.                           *)
Update(i) ==
    /\ Overfill(bucket[i], Vacancy("Priority"))
    /\ \E x \in LowestEntries(bucket[i]) :
          elections' = IF x.dead \/ x.root \notin Active \/ elections[x.root].state # "Active"
                       THEN elections
                       ELSE [elections EXCEPT ![x.root].state = "Cancelled"]
    /\ UNCHANGED <<ledger, recent, winners, erased, bucket, priority, queues>>

-----------------------------------------------------------------------------
(* The other schedulers and the backlog                                    *)

CanAsk(a) == asked < MaxAsked /\ a \in Askable

(* ManualScheduler::push and run                                           *)
PushManual(b) ==
    /\ CanAsk(b[1]) /\ InLedger(b)
    /\ asked' = asked + 1
    /\ manual' = Append(manual, b)
    /\ UNCHANGED <<ledger, active, bucket, priority, candidates>>

RunManual ==
    /\ manual # <<>>
    /\ manual' = Tail(manual)
    /\ InsertAll({Head(manual)}, "Manual", 0)
    /\ VacancyUpdated(CanInsert(Head(manual)))
    /\ UNCHANGED <<ledger, recent, winners, erased, bucket, candidates, asked>>

(* BacklogPopulation activates one account after the other, for ever.      *)
(* OptimisticScheduler::activate takes accounts with a long unconfirmed    *)
(* chain or with nothing confirmed.                                        *)
Optimistic(a) ==
    /\ height[a] - confirmed[a] > GapThreshold \/ confirmed[a] = 0
    /\ \A i \in DOMAIN candidates : candidates[i] # a
    /\ Len(candidates) < MaxCandidates

Backlog(a) ==
    /\ confirmed[a] < height[a]
    /\ Activate({a}, height, modified)
    /\ \/ Optimistic(a) /\ CanAsk(a)
          /\ candidates' = Append(candidates, a) /\ asked' = asked + 1
       \/ ~(Optimistic(a) /\ CanAsk(a)) /\ UNCHANGED <<candidates, asked>>
    /\ UNCHANGED <<ledger, active, manual>>

(* OptimisticScheduler::run, once the delay of the first candidate is over *)
RunOptimistic ==
    /\ candidates # <<>> /\ Vacancy("Optimistic") > 0
    /\ candidates' = Tail(candidates)
    /\ LET head == <<Head(candidates), height[Head(candidates)]>>
           start == head[2] > 0 /\ (head \notin confirming \/ IsConfirmed(head))
       IN /\ InsertAll(IF start THEN {head} ELSE {}, "Optimistic", 0)
          /\ VacancyUpdated(start /\ CanInsert(head))
    /\ UNCHANGED <<ledger, recent, winners, erased, bucket, manual, asked>>

(* HintedScheduler::activate for a block with votes in the cache: unless   *)
(* they are final votes of a quorum, the walk goes down to the blocks      *)
(* whose dependencies are confirmed.                                       *)
Unsettled(b) == InLedger(b) /\ b \notin confirming /\ ~IsConfirmed(b)

RunHinted(b, check_dependents) ==
    LET walk[n \in Nat] ==
            IF n = 0 THEN {x \in {b} : Unsettled(x)}
            ELSE walk[n - 1] \cup {x \in UNION {Dependencies(y) : y \in walk[n - 1]} : Unsettled(x)}
        ready == IF check_dependents
                 THEN {x \in walk[Cardinality(Block)] : DependentsConfirmed(x)} ELSE walk[0]
    IN /\ CanAsk(b[1]) /\ asked' = asked + 1
       /\ Vacancy("Hinted") > 0 /\ ready # {}
       /\ InsertAll(ready, "Hinted", 0)
       /\ VacancyUpdated(\E x \in ready : CanInsert(x))
       /\ UNCHANGED <<ledger, recent, winners, erased, bucket, candidates, manual>>

-----------------------------------------------------------------------------
(* The block processor: a block enters the ledger and is activated by      *)
(* ProcessLiveDispatcher if what it depends on is confirmed, ...           *)
Arrive(a) ==
    /\ height[a] < Length[a] /\ clock < MaxClock /\ erased["processor"] = {}
    /\ LET b == <<a, height[a] + 1>>
       IN /\ \A d \in Dependencies(b) : InLedger(d)
          /\ height' = [height EXCEPT ![a] = @ + 1]
          /\ clock' = clock + 1
          /\ modified' = [modified EXCEPT ![a] = clock']
          /\ Activate(IF DependentsConfirmed(b) THEN {a} ELSE {}, height', modified')
    /\ UNCHANGED <<confirmed, confirming, news, active, queues>>

(* The election of a block is erased: ActiveElections::cleanup_election.   *)
(* The callback of the bucket and vacancy_updated come after the lock; an  *)
(* election without a bucket has only the latter.                          *)
Erase(b, thread) ==
    LET dead(x) == IF x.root = b THEN [x EXCEPT !.dead = TRUE] ELSE x
    IN /\ elections' = [x \in Active \ {b} |-> elections[x]]
       /\ IF elections[b].bucket = 0
          THEN VacancyUpdated(TRUE) /\ UNCHANGED <<erased, bucket>>
          ELSE /\ erased' = [erased EXCEPT ![thread] = {[block |-> b, bucket |-> elections[b].bucket]}]
               /\ bucket' = [i \in Buckets |->
                               [bucket[i] EXCEPT !.elections = {dead(x) : x \in @}]]
               /\ priority' = IF priority.pc = "record" /\ priority.root = b
                              THEN [priority EXCEPT !.dead = TRUE] ELSE priority

(* ... and a block that depends on the loser of a fork is rolled back.     *)
RollBack(a) ==
    /\ height[a] > confirmed[a] /\ erased["processor"] = {}
    /\ LET b == <<a, height[a]>>
       IN /\ \A x \in Block : InLedger(x) => b \notin Dependencies(x)
          /\ height' = [height EXCEPT ![a] = @ - 1]
          /\ modified' = [modified EXCEPT ![a] = IF height[a] = 1 THEN 0 ELSE clock]
          /\ IF b \in Active THEN Erase(b, "processor")
             ELSE UNCHANGED <<elections, erased, bucket, priority>>
    /\ UNCHANGED <<clock, confirmed, confirming, news, recent, winners, queues>>

-----------------------------------------------------------------------------
(* The life of an election                                                 *)

(* RecentlyConfirmedCache::put forgets the oldest root when it is full.    *)
Remember(b) ==
    LET longer == Append(recent, b)
    IN recent' = IF Recent(b) THEN recent
                 ELSE IF Len(longer) > MaxRecent THEN Tail(longer) ELSE longer

(* VoteApplier::confirm_once                                               *)
ConfirmOnce(b) ==
    /\ elections' = [elections EXCEPT ![b].state = "Confirmed"]
    /\ Remember(b)
    /\ confirming' = confirming \cup {b}
    /\ winners' = winners \cup {b}

Confirm(b) ==
    /\ b \in Active /\ elections[b].state = "Active"
    /\ ConfirmOnce(b)
    /\ UNCHANGED <<height, modified, clock, confirmed, news, erased, bucket, priority, queues>>

(* VoteApplier::process_confirmed hands the winner to the confirming set   *)
(* again; if the block does not get into the ledger in time its root is    *)
(* forgotten.                                                              *)
ProcessConfirmed(b) ==
    /\ b \in winners
    /\ winners' = winners \ {b}
    /\ \/ InLedger(b) /\ confirming' = confirming \cup {b} /\ UNCHANGED recent
       \/ ~InLedger(b) /\ recent' = SelectSeq(recent, LAMBDA x : x # b) /\ UNCHANGED confirming
    /\ UNCHANGED <<height, modified, clock, confirmed, news, elections, erased, bucket,
                   priority, queues>>

(* request_confirm erases elections that are confirmed, cancelled or too   *)
(* old.                                                                    *)
LoopErase(b) ==
    /\ b \in Active /\ erased["loop"] = {}
    /\ Erase(b, "loop")
    /\ UNCHANGED <<ledger, recent, winners, queues>>

(* Slip: the bucket is not told.                                           *)
RunCallback_Lost(thread) ==
    /\ erased[thread] # {}
    /\ VacancyUpdated(TRUE)
    /\ erased' = [erased EXCEPT ![thread] = {}]
    /\ UNCHANGED <<ledger, elections, recent, winners, bucket, queues>>

(* The callback of the bucket, by root, and vacancy_updated                *)
RunCallback(thread) ==
    \E e \in erased[thread] :
        /\ bucket' = [i \in Buckets |->
                        IF i = e.bucket THEN EraseEntry(bucket[i], e.block) ELSE bucket[i]]
        /\ VacancyUpdated(TRUE)
        /\ erased' = [erased EXCEPT ![thread] = {}]
        /\ UNCHANGED <<ledger, elections, recent, winners, queues>>

(* The confirming set cements a block and everything it depends on; a      *)
(* block that is not in the ledger any more is dropped.                    *)
Cement(b) ==
    LET below[n \in Nat] ==
            IF n = 0 THEN {b}
            ELSE below[n - 1] \cup UNION {Dependencies(x) : x \in below[n - 1]}
        new == IF InLedger(b)
               THEN {x \in Block : x \in below[Cardinality(Block)] /\ ~IsConfirmed(x)} ELSE {}
    IN /\ b \in confirming
       /\ confirming' = confirming \ {b}
       /\ confirmed' = [a \in Account |->
                          Max({confirmed[a]} \cup {x[2] : x \in {y \in new : y[1] = a}})]
       /\ news' = news \cup {[block |-> x, source |-> x = b] : x \in new}
       /\ UNCHANGED <<height, modified, clock, active, bucket, priority, queues>>

(* ActiveElections::block_cemented: an election for the block is           *)
(* confirmed, and if there was one the accounts that may have become ready *)
(* are activated.                                                          *)
NotifyCemented(n) ==
    LET b == n.block
        successors == {b[1]} \cup {x[1] : x \in {y \in Block : b \in Source[y]}}
        try == b \in Active /\ elections[b].state = "Active"
    IN /\ n \in news
       /\ news' = news \ {n}
       /\ IF try THEN ConfirmOnce(b) ELSE UNCHANGED <<elections, recent, confirming, winners>>
       /\ Activate(IF n.source \/ b \in Active THEN successors ELSE {}, height, modified)
       /\ UNCHANGED <<height, modified, clock, confirmed, erased, queues>>

(* vacancy_updated because of an election the model does not have          *)
OtherActivity ==
    /\ priority.pc = "asleep"
    /\ VacancyUpdated(TRUE)
    /\ UNCHANGED <<ledger, active, bucket, queues>>

-----------------------------------------------------------------------------
Scheduler == CheckPredicate \/ FallAsleep \/ Scan \/ Start \/ RecordElection

Next ==
    \/ Scheduler
    \/ \E i \in Buckets : Update(i)
    \/ \E a \in Account : Arrive(a) \/ RollBack(a) \/ Backlog(a)
    \/ \E b \in Block : Confirm(b) \/ ProcessConfirmed(b) \/ LoopErase(b) \/ Cement(b)
    \/ \E t \in DOMAIN erased : RunCallback(t)
    \/ \E n \in news : NotifyCemented(n)
    \/ \E b \in Block : PushManual(b) \/ \E check \in BOOLEAN : RunHinted(b, check)
    \/ RunManual \/ RunOptimistic \/ OtherActivity

Spec == Init /\ [][Next]_vars

(* Every thread runs, the backlog comes round, the network is alive (other *)
(* elections come and go), and an election that is started again and again *)
(* gets its votes.                                                         *)
FairSpec ==
    /\ Spec /\ WF_vars(Scheduler) /\ WF_vars(OtherActivity)
    /\ \A a \in Account : WF_vars(Backlog(a))
    /\ \A b \in Block : SF_vars(Confirm(b))
    /\ WF_vars(\E b \in Block : Cement(b))
    /\ WF_vars(\E n \in news : NotifyCemented(n))
    /\ WF_vars(\E b \in Block : LoopErase(b))
    /\ WF_vars(\E t \in DOMAIN erased : RunCallback(t))

-----------------------------------------------------------------------------
(* An entry of a bucket whose election is gone and whose callback has run  *)
(* already: Bucket::activate records the election after the insertion, so  *)
(* the callback may come first and find nothing.                           *)
Leaked ==
    \E i \in Buckets, x \in UNION {bucket[j].elections : j \in Buckets} :
        /\ x \in bucket[i].elections /\ x.late
        /\ \A t \in DOMAIN erased : \A e \in erased[t] : e.bucket # i \/ e.block # x.root

(* Confirmed by an election, dropped by the confirming set because it was  *)
(* rolled back, and in the ledger again: process_confirmed calls it limbo. *)
Limbo(b) == Recent(b) /\ ~IsConfirmed(b)

(* The priority scheduler starts elections bottom up (activate looks at    *)
(* dependents_confirmed): when an election of a bucket runs, everything    *)
(* its block depends on is confirmed, however long the block has waited in *)
(* the bucket and whatever was rolled back meanwhile.                      *)
DependenciesFirst ==
    \A b \in Active : elections[b].behavior = "Priority" => DependentsConfirmed(b)

(* Once no more blocks arrive, every block of the ledger is confirmed or   *)
(* rolled back: with the backlog coming round, no wakeup that is lost, no  *)
(* overwritten or cancelled election and no full bucket leaves one behind; *)
(* only a leaked bucket entry or the limbo may.                            *)
EventuallyConfirmed ==
    []<>(Leaked \/ \A b \in Block : InLedger(b) => IsConfirmed(b) \/ Limbo(b))
=============================================================================
