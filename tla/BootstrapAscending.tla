------------------------- MODULE BootstrapAscending -------------------------
(****************************************************************************)
(* The ascending bootstrap (node/src/bootstrap/ascending/mod.rs): threads   *)
(* that ask a peer for the blocks of an account with priority, for those of *)
(* the accounts a scan of the database finds, and for the account that      *)
(* holds the missing source of a blocked account; the handler of the        *)
(* answers; the observer of the block processor; and the timeout thread.    *)
(*                                                                          *)
(* The peer (bootstrap_server.rs) has a fixed ledger: Length[a] blocks of   *)
(* account a.  A block is <<account, height>>; Source gives the send a      *)
(* block receives.  Requests and answers may be lost, late or repeated: a   *)
(* tag whose answer never comes runs into the timeout, an answer without    *)
(* its tag is ignored, so the messages themselves need no state.            *)
(*                                                                          *)
(* Left out: the choice of the channel (peer_scoring.rs), the throttle of   *)
(* the scan, and the unchecked table, which would only retry a block sooner.*)
(****************************************************************************)
EXTENDS Integers, Sequences, FiniteSets, SequencesExt, AccountSets

CONSTANTS
  Length,      \* <<length of the chain of account 1, ...>>: the peer's ledger
  Source,      \* [set of blocks -> block]: the sends that blocks receive
  Genesis,     \* the account the node starts with
  Configs,     \* configurations: [scan, sets, live]
  MaxRequests, \* config.max_requests
  MaxPull,     \* config.max_pull_count: blocks in one answer
  MaxQueue,    \* bound of the block processor's queue for bootstrap blocks
  MaxBatch,    \* bound: blocks in a batch of the block processor
  Live         \* bound: the blocks that arrive from live traffic, once each

Account == 1 .. Len(Length)
NoBlock == <<0, 0>>

BlockType == Account \X (Nat \ {0})

(* A send is received by one block. *)
ASSUME PeerAssumption ==
  /\ Length \in Seq(Nat)
  /\ Genesis \in Account
  /\ MaxPull \in Nat /\ MaxQueue \in Nat
  /\ Live \subseteq BlockType
  /\ \A b \in DOMAIN Source : b \in BlockType /\ Source[b] \in BlockType
  /\ \A b, c \in DOMAIN Source : Source[b] = Source[c] => b = c

VARIABLES
  scan,  \* config.enable_database_scan
  sets,  \* the account sets
  tags,  \* the requests that wait for an answer, oldest first
  found, \* DatabaseScan::queue: accounts of the ledger <<0, a>>, receivers <<1, a>>
  queue, \* bootstrap blocks in the block processor
  results,   \* its batch: blocks that are processed but not notified yet
  phase,     \* "processing", "callbacks" or "inspect": where its batch is
  have,  \* [Account -> number of its blocks in the ledger]
  lost,  \* history: an account was trimmed from a full set
  live   \* live blocks that have come already or, in this configuration, never do

vars == <<scan, sets, tags, found, queue, results, phase, have, lost, live>>

Sends == {Source[b] : b \in DOMAIN Source}
Receiver(send) == (CHOOSE b \in DOMAIN Source : Source[b] = send)[1]
InLedger(b) == b[2] <= have[b[1]]
SourceOf(b) == IF b \in DOMAIN Source THEN Source[b] ELSE NoBlock

Tag(source, account, start, hash, count) ==
  [source |-> source, account |-> account, start |-> start, hash |-> hash, count |-> count]

Init ==
  \E c \in Configs :
    /\ scan = c.scan
    /\ sets = priority_set(EmptySets(c.sets), Genesis)
    /\ tags = <<>>
    /\ found = {}
    /\ queue = <<>>
    /\ results = <<>>
    /\ phase = "processing"
    /\ have = [a \in Account |-> IF a = Genesis THEN 1 ELSE 0]
    /\ lost = FALSE
    /\ live = Live \ c.live

(* Whether the step from s to t dropped an account for want of room. *)
Dropped(s, t) ==
  \E a \in DOMAIN s.prios \cup DOMAIN s.blocking : ~prioritized(t, a) /\ ~blocked(t, a)

----------------------------------------------------------------------------
(* Requests *)

(* The mutex is free: batch_processed holds it while it inspects a batch. *)
Unlocked == phase # "inspect"

(* wait_tags and wait_blockprocessor. *)
CanRequest == Unlocked /\ Len(tags) < MaxRequests /\ Len(queue) < MaxQueue

CountTags(a, source) ==
  Len(SelectSeq(tags, LAMBDA t : t.account = a /\ t.source = source))

Min2(a, b) == IF a < b THEN a ELSE b

(* create_blocks_request: from the head the ledger has now, or from the     *)
(* account if it has none.                                                  *)
request(source, a, count) ==
  tags' = Append(tags, Tag(source, a, have[a], <<a, have[a]>>, Min2(count, MaxPull)))

(* wait_priority: next_priority stamps the account in the same critical     *)
(* section; the pull count follows the priority, at least 2.                *)
run_one_priority ==
  /\ CanRequest
  /\ LET few == {a \in Account : CountTags(a, "priority") < 4}
     IN  \E a \in next_priority(sets, few) :
           LET p == sets.prios[a].priority \div 64
           IN  /\ request("priority", a, IF p < 2 THEN 2 ELSE p)
               /\ sets' = timestamp(sets, a, FALSE)
  /\ UNCHANGED <<scan, found, queue, results, phase, have, lost, live>>

(* A slip: only accounts that are open already are scanned. *)
Fill_Opened == {<<0, a>> : a \in {b \in Account : have[b] > 0}}

(* DatabaseScan::fill: the accounts of the ledger in order, then those with *)
(* something to receive in order.                                           *)
Fill ==
  LET opened == {a \in Account : have[a] > 0}
      pending == {t \in Sends : InLedger(t) /\ \A b \in DOMAIN Source : Source[b] = t => ~InLedger(b)}
  IN  {<<0, a>> : a \in opened} \cup {<<1, Receiver(t)>> : t \in pending}

Before(e, f) == e[1] < f[1] \/ (e[1] = f[1] /\ e[2] < f[2])

(* next_database pops accounts until one has no database request under way; *)
(* a queue without such an account is drained and filled again.             *)
Popped(S) ==
  LET Free(e) == CountTags(e[2], "database") = 0
  IN  {e \in S : Free(e) /\ \A f \in S : Before(f, e) => ~Free(f)}

run_one_database ==
  /\ scan /\ CanRequest
  /\ LET scanned == IF Popped(found) # {} THEN found ELSE Fill
     IN  \E e \in Popped(scanned) :
           /\ found' = {f \in scanned : Before(e, f)}
           /\ request("database", e[2], 2)
  /\ UNCHANGED <<scan, sets, queue, results, phase, have, lost, live>>

(* The account that holds the dependency is asked for. *)
run_one_blocking ==
  /\ CanRequest
  /\ LET asked == {tags[i].hash : i \in {j \in DOMAIN tags : tags[j].source = "blocking"}}
     IN  \E hash \in next_blocking(sets, asked) :
           tags' = Append(tags, Tag("blocking", ZERO_ACCOUNT, 0, hash, 0))
  /\ UNCHANGED <<scan, sets, found, queue, results, phase, have, lost, live>>

----------------------------------------------------------------------------
(* Answers *)

(* BootstrapServer::prepare_blocks sends the chain from the start block,    *)
(* which counts, or from the open block: the height of the last block sent. *)
LastSent(tag) ==
  LET first == IF tag.start = 0 THEN 1 ELSE tag.start
  IN  Min2(first + tag.count - 1, Length[tag.account])

(* No block, or only the one the pull started from. *)
NothingNew(tag) == LastSent(tag) <= tag.start

(* The block the node has is not processed again; the last one carries the  *)
(* callback that resets the timestamp.                                      *)
NewBlocks(tag) ==
  [i \in 1 .. LastSent(tag) - tag.start |->
     [block |-> <<tag.account, tag.start + i>>, last |-> tag.start + i = LastSent(tag)]]

(* A full queue of the block processor drops what does not fit. *)
Enqueue(blocks) ==
  queue' = queue \o SubSeq(blocks, 1, Min2(Len(blocks), MaxQueue - Len(queue)))

RemoveTag(i) == tags' = RemoveAt(tags, i)

process_blocks(i) ==
  /\ tags[i].source # "blocking"
  /\ IF NothingNew(tags[i])
     THEN sets' = priority_down(sets, tags[i].account) /\ UNCHANGED queue
     ELSE Enqueue(NewBlocks(tags[i])) /\ UNCHANGED sets
  /\ UNCHANGED lost

process_accounts(i) ==
  /\ tags[i].source = "blocking"
  /\ LET account == tags[i].hash[1]
         updated == dependency_update(sets, tags[i].hash, account)
     IN  /\ sets' = priority_set(updated, account)
         /\ lost' = (lost \/ Dropped(updated, sets'))
  /\ UNCHANGED queue

process(i) ==
  /\ Unlocked
  /\ RemoveTag(i)
  /\ process_blocks(i) \/ process_accounts(i)
  /\ UNCHANGED <<scan, found, results, phase, have, live>>

(* The answer fails verify_response, or never comes: the timeout thread     *)
(* removes tags from the front.                                             *)
Discard(i) ==
  /\ Unlocked
  /\ RemoveTag(i)
  /\ UNCHANGED <<scan, sets, found, queue, results, phase, have, lost, live>>

cleanup == tags # <<>> /\ Discard(1)

SyncDependencies ==
  /\ Unlocked
  /\ sets' = sync_dependencies(sets)
  /\ UNCHANGED <<scan, tags, found, queue, results, phase, have, lost, live>>

Cooldown(a) ==
  /\ prioritized(sets, a) /\ ~sets.prios[a].ready
  /\ sets' = timestamp(sets, a, TRUE)
  /\ UNCHANGED <<scan, tags, found, queue, results, phase, have, lost, live>>

----------------------------------------------------------------------------
(* The block processor and inspect, which its batch_processed calls *)

Status(b) ==
  CASE InLedger(b) -> "Old"
    [] b[2] > have[b[1]] + 1 -> "GapPrevious"
    [] SourceOf(b) # NoBlock /\ ~InLedger(SourceOf(b)) -> "GapSource"
    [] OTHER -> "Progress"

(* A slip: a send that arrives does not unblock its receiver. *)
inspect_KeepsBlocked(s, b, status, source) ==
  CASE status = "Progress" ->
         LET up == priority_up(unblock_any(s, b[1]), b[1])
         IN  IF b \in Sends THEN priority_set(up, Receiver(b)) ELSE up
    [] status = "GapSource" /\ source = "bootstrap" -> block(s, b[1], SourceOf(b))
    [] status = "GapPrevious" /\ source = "live"
         /\ ~priority_half_full(s) /\ ~blocked_half_full(s) -> priority_set(s, b[1])
    [] OTHER -> s

inspect(s, b, status, source) ==
  CASE status = "Progress" ->
         LET up == priority_up(unblock_any(s, b[1]), b[1])
         IN  IF b \in Sends
             THEN priority_set(unblock(up, Receiver(b), b), Receiver(b))
             ELSE up
    [] status = "GapSource" /\ source = "bootstrap" -> block(s, b[1], SourceOf(b))
    [] status = "GapPrevious" /\ source = "live"
         /\ ~priority_half_full(s) /\ ~blocked_half_full(s) -> priority_set(s, b[1])
    [] OTHER -> s

(* The block processor inserts a batch of blocks in one transaction.        *)
ProcessBlock(b, source, last) ==
  /\ phase = "processing" /\ Len(results) < MaxBatch
  /\ results' = Append(results, [block |-> b, status |-> Status(b), source |-> source, last |-> last])
  /\ have' = IF Status(b) = "Progress" THEN [have EXCEPT ![b[1]] = b[2]] ELSE have
  /\ UNCHANGED <<scan, sets, tags, found, phase, lost>>

BootstrapBlock ==
  /\ queue # <<>>
  /\ ProcessBlock(Head(queue).block, "bootstrap", Head(queue).last)
  /\ queue' = Tail(queue)
  /\ UNCHANGED live

LiveBlock(b) ==
  /\ b \notin live /\ live' = live \cup {b}
  /\ ProcessBlock(b, "live", FALSE)
  /\ UNCHANGED queue

(* Then it runs the callbacks, which reset the timestamp of the account so  *)
(* that more can be requested.                                              *)
TimestampReset ==
  /\ Unlocked
  /\ \E i \in DOMAIN results :
       /\ results[i].last /\ \A j \in 1 .. i - 1 : ~results[j].last
       /\ sets' = timestamp(sets, results[i].block[1], TRUE)
       /\ results' = [results EXCEPT ![i].last = FALSE]
  /\ phase' = "callbacks"
  /\ UNCHANGED <<scan, tags, found, queue, have, lost, live>>

(* And then the observer, which inspects the results one by one while it    *)
(* holds the mutex.                                                         *)
batch_processed ==
  /\ results # <<>> /\ \A i \in DOMAIN results : ~results[i].last
  /\ LET r == Head(results)
     IN  /\ sets' = inspect(sets, r.block, r.status, r.source)
         /\ lost' = (lost \/ Dropped(sets, sets'))
  /\ results' = Tail(results)
  /\ phase' = IF Len(results) = 1 THEN "processing" ELSE "inspect"
  /\ UNCHANGED <<scan, tags, found, queue, have, live>>

----------------------------------------------------------------------------
Next ==
  \/ run_one_priority
  \/ run_one_database
  \/ run_one_blocking
  \/ \E i \in DOMAIN tags : process(i) \/ Discard(i)
  \/ cleanup
  \/ SyncDependencies
  \/ \E a \in Account : Cooldown(a)
  \/ BootstrapBlock
  \/ TimestampReset
  \/ batch_processed
  \/ \E b \in Live : LiveBlock(b)

Spec == Init /\ [][Next]_vars

(* Every thread runs; the peer answers some of the requests for an account  *)
(* that are made again and again.                                           *)
FairSpec ==
  /\ Spec
  /\ WF_vars(run_one_blocking) /\ SF_vars(run_one_priority) /\ SF_vars(run_one_database)
  /\ SF_vars(BootstrapBlock) /\ WF_vars(TimestampReset)
  /\ WF_vars(batch_processed) /\ WF_vars(cleanup)
  /\ \A a \in Account :
       /\ WF_vars(Cooldown(a))
       /\ SF_vars(\E i \in DOMAIN tags : tags[i].account = a /\ process(i))
  /\ SF_vars(\E i \in DOMAIN tags : tags[i].source = "blocking" /\ process(i))

----------------------------------------------------------------------------
(* No account is both prioritised and blocked: unblock asserts it before it *)
(* inserts an entry, and an account in both would be asked for although its *)
(* next block cannot be inserted.                                           *)
PrioritizedXorBlocked == Disjoint(sets)

(* A blocked account waits for a block that is really missing, or whose     *)
(* arrival inspect has not been told of yet: however the source and the     *)
(* block that needs it are ordered, in one batch or in two, the account     *)
(* does not stay blocked on a block that is there.                          *)
BlockedOnMissing ==
  \A a \in DOMAIN sets.blocking :
    LET dependency == sets.blocking[a].dependency
    IN  InLedger(dependency) =>
          \E i \in DOMAIN results : results[i].block = dependency /\ results[i].status = "Progress"

Synced == \A a \in Account : have[a] >= Length[a]

(* The node gets every block the peer has.  With the scan of the database   *)
(* this holds whatever the account sets had to drop; without it, as long as *)
(* they dropped nothing.                                                    *)
EventuallySynced == <>(Synced \/ (~scan /\ lost))

============================================================================
