------------------------------ MODULE Wallets ------------------------------
(****************************************************************************)
(* The wallets of the node (node/src/wallets) over their key stores         *)
(* (store_lmdb/src/wallet_store.rs).                                        *)
(*                                                                          *)
(* Sends, receives and changes are queued by priority and carried out by    *)
(* one action thread, which makes the block, hands it to the block          *)
(* processor and waits for the answer.  A caller of send_action2,           *)
(* receive_action2 or change_action2 does the same on its own thread while  *)
(* it holds the wallets mutex, so two of them can build on the same head.   *)
(* send_sync queues the send and waits for it under the same mutex.         *)
(*                                                                          *)
(* Every write transaction on a key store is one step.  All amounts are 1   *)
(* and above receive_minimum.  Cached proof of work and the set of local    *)
(* representatives are left out.                                            *)
(****************************************************************************)
EXTENDS Integers, Sequences, FiniteSets, Functions

CONSTANTS
  Wallet,      \* wallet ids
  Account,     \* the accounts whose keys the wallets may hold
  Destination, \* where their sends go
  Caller,      \* threads of the RPC server
  SendId,      \* the ids that make a send idempotent
  Derived,     \* [Seed -> Seq(Account)]: the deterministic keys of a seed
  Password,    \* what users may enter besides the empty password
  Zero, Empty, \* the zero key of a new store and the key of the password ""
  External,    \* sends of others that may reach the ledger: a set of Receivable
  InitStore,   \* [Wallet -> store or Fresh]: the stores on disk at the start
  InitChain,   \* [Account -> Seq(Block)]
  Imported,    \* the store a JSON backup holds
  None, Fresh, Gone,
  MaxOps       \* bound: calls of the users and crashes in a behaviour

Seed == DOMAIN Derived

(* Key values of a store: KeyType::Adhoc, a watch-only entry (a zero key),  *)
(* or the index of a deterministic key.                                     *)
ADHOC == -1
WATCH == 0
Key == {ADHOC, WATCH} \cup UNION {DOMAIN Derived[s] : s \in Seed}

(* What is stored on disk, and what a send block and any block look like.   *)
Store ==
  [keys : UNION {[A -> Key] : A \in SUBSET Account}, seed : Seed, index : Nat,
   wrapped : Password \cup {Zero, Empty}]
SendBlock == [account : Account, height : Nat, kind : {"send"}, link : Destination]
Link == Destination \cup SendBlock \cup {r.hash : r \in External} \cup {None}
AnyBlock ==
  SendBlock \cup [account : Account, height : Nat, kind : {"receive", "change"}, link : Link]

ASSUME WalletAssumption ==
  /\ IsFiniteSet(Wallet) /\ IsFiniteSet(Account)
  /\ \A s \in Seed : Derived[s] \in Seq(Account)
  /\ External \subseteq [hash : {r.hash : r \in External}, account : Account]
  /\ InitStore \in [Wallet -> Store \cup {Fresh}] /\ Imported \in Store
  /\ InitChain \in [Account -> Seq(AnyBlock)]
  /\ None \notin SendBlock \cup Caller /\ Fresh \notin Store /\ Gone \notin Store

(* The order of the Amounts that serve as priorities: a receive has its     *)
(* amount, HIGH_PRIORITY is u128::MAX - 1, GENERATE_PRIORITY is u128::MAX.  *)
(* pop_first takes the smallest.                                            *)
RECEIVE_PRIORITY == 1
HIGH_PRIORITY == 2
GENERATE_PRIORITY == 3
Priority == {RECEIVE_PRIORITY, HIGH_PRIORITY, GENERATE_PRIORITY}

VARIABLES
  disk,       \* [Wallet -> store, Fresh or Gone]
  loaded,     \* the wallets map: [subset of Wallet -> password in memory]
  sendIds,    \* send_action_ids: [SendId -> block or None]
  holder,     \* the caller that waits while it holds the wallets mutex
  poisoned,   \* a thread panicked while it held the wallets mutex
  queue,      \* the actions: [Priority -> Seq(action)]
  batch,      \* what the action thread popped and has not run yet
  doing,      \* [Caller \cup {None} -> job]; None is the action thread
  stopped,
  chain,      \* the ledger: [Account -> Seq(block)]
  receivable, \* the pending table: [hash, account]
  confirmed,  \* confirmed sends, by entry of the pending table
  tasks,      \* receive_confirmed tasks of the wallet workers
  made,       \* history: [SendId -> the blocks made for it]
  ops

storeVars == <<disk, loaded, sendIds>>
mutexVars == <<holder, poisoned>>
threadVars == <<queue, batch, doing, stopped>>
ledgerVars == <<chain, receivable, confirmed, tasks>>
vars == <<storeVars, mutexVars, threadVars, ledgerVars, made, ops>>

Thread == None
Idle == [pc |-> "idle"]
Dead == [pc |-> "dead"]

----------------------------------------------------------------------------
(* Key stores *)

NewStore(s) == [keys |-> <<>>, seed |-> s, index |-> 1, wrapped |-> Zero]

live(w) == disk[w] \notin {Fresh, Gone}

valid_password(w) == loaded[w] = disk[w].wrapped

find(w, a) == a \in DOMAIN disk[w].keys

(* What fetch reads once the password is valid. *)
HasKey(store, a) ==
  /\ a \in DOMAIN store.keys
  /\ \/ store.keys[a] = ADHOC
     \/ /\ store.keys[a] \in DOMAIN Derived[store.seed]
        /\ Derived[store.seed][store.keys[a]] = a

fetch(w, a) == valid_password(w) /\ HasKey(disk[w], a)

With(f, a, v) == [b \in DOMAIN f \cup {a} |-> IF b = a THEN v ELSE f[b]]

Erase(keys, A) == [b \in DOMAIN keys \ A |-> keys[b]]

PutKey(store, a, key) == [store EXCEPT !.keys = With(@, a, key)]

(* The first index from the stored one whose account the store lacks. *)
NextIndex(store) ==
  LET free == {i \in DOMAIN Derived[store.seed] :
                 i >= store.index /\ Derived[store.seed][i] \notin DOMAIN store.keys}
  IN  IF free = {} THEN 0 ELSE CHOOSE i \in free : \A j \in free : i <= j

DeterministicInsert(store) ==
  LET i == NextIndex(store)
  IN  [PutKey(store, Derived[store.seed][i], i) EXCEPT !.index = i + 1]

(* A slip: deterministic_clear drops the ad-hoc keys as well. *)
set_seed_ClearsAll(store, s) == [store EXCEPT !.keys = <<>>, !.seed = s, !.index = 1]

(* set_seed with deterministic_clear. *)
set_seed(store, s) ==
  LET det == {a \in DOMAIN store.keys : store.keys[a] > 0}
  IN  [store EXCEPT !.keys = Erase(@, det), !.seed = s, !.index = 1]

(* move_keys: fetch from the source, insert_adhoc into the target, erase    *)
(* from the source, in this order.                                          *)
MoveKey(stores, source, target, a) ==
  LET put == [stores EXCEPT ![target] = PutKey(@, a, ADHOC)]
  IN  [put EXCEPT ![source].keys = Erase(@, {a})]

----------------------------------------------------------------------------
(* The action queue *)

Action(kind, w, a, link, id, by) ==
  [kind |-> kind, wallet |-> w, account |-> a, link |-> link, id |-> id, by |-> by]

(* The actions of a finite set, in the order a map happens to give them. *)
AnyOrder(S) == CHOOSE s \in Injection(1 .. Cardinality(S), S) : TRUE

queue_wallet_action(q, priority, actions) == [q EXCEPT ![priority] = @ \o actions]

QueueEmpty == \A p \in Priority : queue[p] = <<>>

pop_first == CHOOSE p \in Priority :
               queue[p] # <<>> /\ \A r \in Priority : queue[r] # <<>> => p <= r

----------------------------------------------------------------------------
(* The ledger as the wallets use it *)

Hash(block) == block

Balance(a) ==
  Len(SelectSeq(chain[a], LAMBDA b : b.kind = "receive"))
    - Len(SelectSeq(chain[a], LAMBDA b : b.kind = "send"))

Block(a, kind, link) ==
  [account |-> a, height |-> Len(chain[a]) + 1, kind |-> kind, link |-> link]

InLedger(b) == b.height \in DOMAIN chain[b.account] /\ chain[b.account][b.height] = b

Acceptable(b) ==
  /\ b.height = Len(chain[b.account]) + 1
  /\ b.kind = "send" => Balance(b.account) > 0
  /\ b.kind = "receive" => [hash |-> b.link, account |-> b.account] \in receivable

----------------------------------------------------------------------------
Init ==
  /\ disk = InitStore
  /\ loaded = [w \in {v \in Wallet : InitStore[v] # Fresh} |-> InitStore[w].wrapped]
  /\ sendIds = [i \in SendId |-> None]
  /\ holder = None
  /\ poisoned = FALSE
  /\ queue = [p \in Priority |-> <<>>]
  /\ batch = <<>>
  /\ doing = [t \in Caller \cup {Thread} |-> Idle]
  /\ stopped = FALSE
  /\ chain = InitChain
  /\ receivable = {}
  /\ confirmed = {}
  /\ tasks = {}
  /\ made = [i \in SendId |-> {}]
  /\ ops = 0

Call == ops < MaxOps /\ ops' = ops + 1

(* The wallets mutex can be taken; unwrap() on a poisoned one panics. *)
Lockable == holder = None /\ ~poisoned

Open(w) == Lockable /\ w \in DOMAIN loaded

----------------------------------------------------------------------------
(* Calls that change a key store: each takes the mutex, opens a write       *)
(* transaction and returns an error unless the wallet is unlocked.          *)

enter_initial_password(w, store) ==
  IF store.wrapped = Zero THEN [store EXCEPT !.wrapped = Empty] ELSE store

create(w, s) ==
  /\ Call /\ Lockable /\ disk[w] = Fresh
  /\ LET store == enter_initial_password(w, NewStore(s))
     IN  /\ disk' = [disk EXCEPT ![w] = store]
         /\ loaded' = With(loaded, w, store.wrapped)
  /\ UNCHANGED <<sendIds, mutexVars, threadVars, ledgerVars, made>>

(* The store is made on disk only; reload brings it into memory. *)
import(w) ==
  /\ Call /\ Lockable /\ disk[w] = Fresh
  /\ disk' = [disk EXCEPT ![w] = Imported]
  /\ UNCHANGED <<loaded, sendIds, mutexVars, threadVars, ledgerVars, made>>

(* guard.remove(id).unwrap() panics under the mutex for an unknown id. *)
destroy(w) ==
  /\ Call /\ Lockable
  /\ IF w \in DOMAIN loaded
     THEN /\ disk' = [disk EXCEPT ![w] = Gone]
          /\ loaded' = [v \in DOMAIN loaded \ {w} |-> loaded[v]]
          /\ UNCHANGED poisoned
     ELSE poisoned' = TRUE /\ UNCHANGED <<disk, loaded>>
  /\ UNCHANGED <<sendIds, holder, threadVars, ledgerVars, made>>

UpdateStore(w, store) ==
  /\ Call /\ Open(w) /\ valid_password(w)
  /\ disk' = [disk EXCEPT ![w] = store]
  /\ UNCHANGED <<loaded, sendIds, mutexVars, threadVars, ledgerVars, made>>

insert_adhoc2(w, a) == UpdateStore(w, PutKey(disk[w], a, ADHOC))

(* entry_put_raw overwrites a private key the store may hold. *)
insert_watch(w, a) == UpdateStore(w, PutKey(disk[w], a, WATCH))

deterministic_insert2(w) ==
  live(w) /\ NextIndex(disk[w]) # 0 /\ UpdateStore(w, DeterministicInsert(disk[w]))

deterministic_insert_at(w, i) ==
  /\ live(w) /\ i \in DOMAIN Derived[disk[w].seed]
  /\ UpdateStore(w, PutKey(disk[w], Derived[disk[w].seed][i], i))

(* The first account of the new seed is inserted, further ones if the       *)
(* ledger knows them (not modelled).                                        *)
change_seed(w, s) ==
  /\ live(w) /\ NextIndex(set_seed(disk[w], s)) # 0
  /\ UpdateStore(w, DeterministicInsert(set_seed(disk[w], s)))

remove_key(w, a) ==
  live(w) /\ find(w, a) /\ UpdateStore(w, [disk[w] EXCEPT !.keys = Erase(@, {a})])

(* For one account; move_keys stops at the first key it cannot fetch. *)
move_accounts(source, target, a) ==
  /\ Call /\ Open(source) /\ Open(target)
  /\ valid_password(source) /\ valid_password(target)
  /\ HasKey(disk[source], a)
  /\ disk' = MoveKey(disk, source, target, a)
  /\ UNCHANGED <<loaded, sendIds, mutexVars, threadVars, ledgerVars, made>>

lock(w) ==
  /\ Call /\ Open(w)
  /\ loaded' = [loaded EXCEPT ![w] = Zero]
  /\ UNCHANGED <<disk, sendIds, mutexVars, threadVars, ledgerVars, made>>

rekey(w, p) ==
  /\ Call /\ Open(w) /\ valid_password(w)
  /\ loaded' = [loaded EXCEPT ![w] = p]
  /\ disk' = [disk EXCEPT ![w].wrapped = p]
  /\ UNCHANGED <<sendIds, mutexVars, threadVars, ledgerVars, made>>

(* attempt_password keeps a wrong password, which locks the wallet; a right *)
(* one queues a search.                                                     *)
enter_password(w, p) ==
  /\ Call /\ Open(w)
  /\ loaded' = [loaded EXCEPT ![w] = p]
  /\ queue' = IF p = disk[w].wrapped
              THEN queue_wallet_action(queue, HIGH_PRIORITY,
                     <<Action("search", w, None, None, None, None)>>)
              ELSE queue
  /\ UNCHANGED <<disk, sendIds, mutexVars, batch, doing, stopped, ledgerVars, made>>

----------------------------------------------------------------------------
(* Calls that queue an action *)

send_async(w, a, dest, id) ==
  /\ Call /\ Open(w) /\ valid_password(w) /\ find(w, a)
  /\ queue' = queue_wallet_action(queue, HIGH_PRIORITY,
                <<Action("send", w, a, dest, id, None)>>)
  /\ UNCHANGED <<storeVars, mutexVars, batch, doing, stopped, ledgerVars, made>>

(* The RPC: the account is in the ledger; an unknown wallet panics.  No     *)
(* check of the password or of the account before the action runs.          *)
send_sync(c, w, a, dest, id) ==
  /\ Call /\ Lockable /\ doing[c] = Idle /\ chain[a] # <<>>
  /\ IF w \in DOMAIN loaded
     THEN /\ queue' = queue_wallet_action(queue, HIGH_PRIORITY,
                        <<Action("send", w, a, dest, id, c)>>)
          /\ doing' = [doing EXCEPT ![c] = [pc |-> "sync", wallet |-> w]]
          /\ holder' = c
          /\ UNCHANGED poisoned
     ELSE poisoned' = TRUE /\ UNCHANGED <<queue, doing, holder>>
  /\ UNCHANGED <<storeVars, batch, stopped, ledgerVars, made>>

(* The RPC: the pending entry exists; the mutex is not held while waiting.  *)
(* Its Amount::MAX puts the action behind every other.                      *)
receive_sync(c, w, r) ==
  /\ Call /\ Open(w) /\ doing[c] = Idle /\ r \in receivable
  /\ queue' = queue_wallet_action(queue, GENERATE_PRIORITY,
                <<Action("receive", w, r.account, r.hash, None, c)>>)
  /\ doing' = [doing EXCEPT ![c] = [pc |-> "sync", wallet |-> w]]
  /\ UNCHANGED <<storeVars, mutexVars, batch, stopped, ledgerVars, made>>

(* set_representative with update_existing_accounts: a change for every     *)
(* account the ledger knows.                                                *)
set_representative(w) ==
  /\ Call /\ Open(w) /\ valid_password(w)
  /\ LET known == {a \in DOMAIN disk[w].keys : chain[a] # <<>>}
     IN  queue' = queue_wallet_action(queue, HIGH_PRIORITY,
                    AnyOrder({Action("change", w, a, None, None, None) : a \in known}))
  /\ UNCHANGED <<storeVars, mutexVars, batch, doing, stopped, ledgerVars, made>>

(* send_action2, receive_action2 and change_action2: the caller acts itself *)
(* and keeps the mutex.  Only receive_action2 checks the wallet first.      *)
Direct(c, act) ==
  /\ Call /\ Open(act.wallet) /\ doing[c] = Idle
  /\ act.kind = "receive" => valid_password(act.wallet) /\ find(act.wallet, act.account)
  /\ doing' = [doing EXCEPT ![c] = [pc |-> "prepare", act |-> act]]
  /\ holder' = c
  /\ UNCHANGED <<storeVars, poisoned, queue, batch, stopped, ledgerVars, made>>

----------------------------------------------------------------------------
(* A slip: the search only looks at deterministic keys. *)
SearchActions_Deterministic(w) ==
  {Action("receive", w, r.account, r.hash, None, None) :
     r \in {q \in receivable \cap confirmed :
              find(w, q.account) /\ disk[w].keys[q.account] > 0}}

(* The receives a search queues: confirmed sends to accounts of the wallet  *)
(* that are not watch-only.                                                 *)
SearchActions(w) ==
  {Action("receive", w, r.account, r.hash, None, None) :
     r \in {q \in receivable \cap confirmed :
              find(w, q.account) /\ disk[w].keys[q.account] # WATCH}}

search_receivable(q, w) ==
  IF valid_password(w)
  THEN queue_wallet_action(q, RECEIVE_PRIORITY, AnyOrder(SearchActions(w))) ELSE q

(* A slip: an action that fails returns without its callback. *)
Ended_NoCallback(t, act) ==
  /\ doing' = [doing EXCEPT ![t] = Idle]
  /\ holder' = IF holder = t THEN None ELSE holder
  /\ UNCHANGED poisoned

(* Ends the job of t; a caller that held the mutex lets it go, and the      *)
(* callback wakes the caller that waits for a queued action.                *)
Ended(t, act) ==
  /\ doing' = [u \in DOMAIN doing |-> IF u \in {t, act.by} THEN Idle ELSE doing[u]]
  /\ holder' = IF holder \in {t, act.by} THEN None ELSE holder
  /\ UNCHANGED poisoned

(* An unwrap() fails: the action thread ends without the callback; a caller *)
(* fails its request and poisons the mutex it holds.                        *)
Panic(t) ==
  /\ doing' = [doing EXCEPT ![t] = IF t = Thread THEN Dead ELSE Idle]
  /\ poisoned' = (poisoned \/ (t # Thread /\ holder = t))
  /\ holder' = IF t # Thread /\ holder = t THEN None ELSE holder

Submit(t, act, b) ==
  /\ doing' = [doing EXCEPT ![t] = [pc |-> "wait", act |-> act, block |-> b]]
  /\ UNCHANGED mutexVars

StoredFor(act) == IF act.id = None THEN None ELSE sendIds[act.id]

Sendable(act) == valid_password(act.wallet) /\ Balance(act.account) > 0

(* A slip: the id is not stored with the block it made. *)
send_action_Unrecorded(t, act) ==
  \/ /\ StoredFor(act) # None
     /\ IF InLedger(StoredFor(act)) THEN Ended(t, act) ELSE Panic(t)
     /\ UNCHANGED <<sendIds, made>>
  \/ /\ StoredFor(act) = None /\ ~Sendable(act)
     /\ Ended(t, act)
     /\ UNCHANGED <<sendIds, made>>
  \/ /\ StoredFor(act) = None /\ Sendable(act)
     /\ IF fetch(act.wallet, act.account)
        THEN LET b == Block(act.account, "send", act.link)
             IN  /\ Submit(t, act, b)
                 /\ IF act.id = None
                    THEN UNCHANGED <<sendIds, made>>
                    ELSE /\ UNCHANGED sendIds
                         /\ made' = [made EXCEPT ![act.id] = @ \cup {b}]
        ELSE Panic(t) /\ UNCHANGED <<sendIds, made>>

(* send_action up to action_complete: prepare_send, and with an id          *)
(* prepare_send_with_id, whose hash is stored in the transaction that makes *)
(* the block, before the block processor sees it.                           *)
send_action(t, act) ==
  \/ /\ StoredFor(act) # None
     /\ IF InLedger(StoredFor(act)) THEN Ended(t, act) ELSE Panic(t)
     /\ UNCHANGED <<sendIds, made>>
  \/ /\ StoredFor(act) = None /\ ~Sendable(act)
     /\ Ended(t, act)
     /\ UNCHANGED <<sendIds, made>>
  \/ /\ StoredFor(act) = None /\ Sendable(act)
     /\ IF fetch(act.wallet, act.account)
        THEN LET b == Block(act.account, "send", act.link)
             IN  /\ Submit(t, act, b)
                 /\ IF act.id = None
                    THEN UNCHANGED <<sendIds, made>>
                    ELSE /\ sendIds' = [sendIds EXCEPT ![act.id] = Hash(b)]
                         /\ made' = [made EXCEPT ![act.id] = @ \cup {b}]
        ELSE Panic(t) /\ UNCHANGED <<sendIds, made>>

receive_action(t, act) ==
  /\ IF /\ [hash |-> act.link, account |-> act.account] \in receivable
        /\ fetch(act.wallet, act.account)
     THEN Submit(t, act, Block(act.account, "receive", act.link))
     ELSE Ended(t, act)
  /\ UNCHANGED <<sendIds, made>>

change_action(t, act) ==
  /\ IF /\ valid_password(act.wallet)
        /\ find(act.wallet, act.account)
        /\ chain[act.account] # <<>>
     THEN IF fetch(act.wallet, act.account)
          THEN Submit(t, act, Block(act.account, "change", None))
          ELSE Panic(t)
     ELSE Ended(t, act)
  /\ UNCHANGED <<sendIds, made>>

(* The action runs unlocked.  A wallet destroyed after live() was checked   *)
(* has no database any more, and db_handle() panics.                        *)
Prepare(t) ==
  /\ doing[t].pc = "prepare"
  /\ LET act == doing[t].act
     IN  IF ~live(act.wallet)
         THEN Panic(t) /\ UNCHANGED <<sendIds, made, queue>>
         ELSE \/ act.kind = "send" /\ send_action(t, act) /\ UNCHANGED queue
              \/ act.kind = "receive" /\ receive_action(t, act) /\ UNCHANGED queue
              \/ act.kind = "change" /\ change_action(t, act) /\ UNCHANGED queue
              \/ /\ act.kind = "search"
                 /\ queue' = search_receivable(queue, act.wallet)
                 /\ Ended(t, act)
                 /\ UNCHANGED <<sendIds, made>>
  /\ UNCHANGED <<disk, loaded, batch, stopped, ledgerVars, ops>>

(* The block processor answers add_blocking, and action_complete returns.   *)
(* A block that no longer fits the ledger is refused.                       *)
action_complete(t) ==
  /\ doing[t].pc = "wait"
  /\ LET b == doing[t].block
     IN  IF Acceptable(b)
         THEN /\ chain' = [chain EXCEPT ![b.account] = Append(@, b)]
              /\ receivable' =
                   CASE b.kind = "send" ->
                          receivable \cup {[hash |-> Hash(b), account |-> b.link]}
                     [] b.kind = "receive" ->
                          receivable \ {[hash |-> b.link, account |-> b.account]}
                     [] OTHER -> receivable
         ELSE UNCHANGED <<chain, receivable>>
  /\ Ended(t, doing[t].act)
  /\ UNCHANGED <<storeVars, queue, batch, stopped, confirmed, tasks, made, ops>>

(* The loop of the action thread: pop the actions of the least priority     *)
(* value, then run those whose wallet is live.                              *)
do_wallet_actions ==
  /\ ~stopped /\ doing[Thread] = Idle
  /\ \/ /\ batch = <<>> /\ ~QueueEmpty
        /\ batch' = queue[pop_first]
        /\ queue' = [queue EXCEPT ![pop_first] = <<>>]
        /\ UNCHANGED doing
     \/ /\ batch # <<>>
        /\ batch' = Tail(batch)
        /\ IF live(Head(batch).wallet)
           THEN doing' = [doing EXCEPT ![Thread] = [pc |-> "prepare", act |-> Head(batch)]]
           ELSE UNCHANGED doing
        /\ UNCHANGED queue
  /\ UNCHANGED <<storeVars, mutexVars, stopped, ledgerVars, made, ops>>

----------------------------------------------------------------------------
(* What reaches the wallets from the rest of the node *)

(* A send of someone else enters the ledger. *)
Arrive(r) ==
  /\ r \in External /\ r \notin receivable
  /\ \A i \in DOMAIN chain[r.account] : chain[r.account][i].link # r.hash
  /\ receivable' = receivable \cup {r}
  /\ UNCHANGED <<storeVars, mutexVars, threadVars, chain, confirmed, tasks, made, ops>>

(* The confirming set cements a send: its on_cemented observer queues       *)
(* receive_confirmed on the wallet workers, which finds no wallet for an    *)
(* account of others.                                                       *)
Cement(r) ==
  /\ r \in receivable \ confirmed /\ r.account \in Account
  /\ confirmed' = confirmed \cup {r}
  /\ tasks' = tasks \cup {r}
  /\ UNCHANGED <<storeVars, mutexVars, threadVars, chain, receivable, made, ops>>

(* Watch-only accounts and locked wallets are not told apart here. *)
receive_confirmed(r) ==
  /\ Lockable /\ r \in tasks
  /\ tasks' = tasks \ {r}
  /\ LET holders == {w \in DOMAIN loaded : find(w, r.account) /\ r \in receivable}
     IN  queue' = queue_wallet_action(queue, RECEIVE_PRIORITY,
                    AnyOrder({Action("receive", w, r.account, r.hash, None, None) : w \in holders}))
  /\ UNCHANGED <<storeVars, mutexVars, batch, doing, stopped, chain, receivable, confirmed,
                 made, ops>>

(* search_receivable_all of the node: reload, then a search of every        *)
(* wallet.  Its interval is minutes: the actions of one round are done      *)
(* before the next.                                                         *)
PeriodicSearch ==
  /\ Lockable /\ QueueEmpty /\ batch = <<>>
  /\ LET onDisk == {w \in Wallet : live(w)}
         now == [w \in onDisk |-> IF w \in DOMAIN loaded THEN loaded[w] ELSE Zero]
         found == UNION {SearchActions(w) :
                           w \in {v \in onDisk : now[v] = disk[v].wrapped}}
     IN  /\ loaded' = now
         /\ queue' = queue_wallet_action(queue, RECEIVE_PRIORITY, AnyOrder(found))
  /\ UNCHANGED <<disk, sendIds, mutexVars, batch, doing, stopped, ledgerVars, made, ops>>

stop ==
  /\ Call /\ ~stopped
  /\ stopped' = TRUE
  /\ queue' = [p \in Priority |-> <<>>]
  /\ UNCHANGED <<storeVars, mutexVars, batch, doing, ledgerVars, made>>

(* The process ends and starts again: initialize opens every store with a   *)
(* zero password, initialize2 tries the empty one.                          *)
Restart ==
  /\ Call
  /\ LET onDisk == {w \in Wallet : live(w)}
         unlocked == {w \in onDisk : disk[w].wrapped = Empty}
     IN  /\ disk' = [w \in Wallet |->
                       IF w \in onDisk THEN enter_initial_password(w, disk[w]) ELSE disk[w]]
         /\ loaded' = [w \in onDisk |-> Empty]
         /\ queue' = queue_wallet_action([p \in Priority |-> <<>>], HIGH_PRIORITY,
                       AnyOrder({Action("search", w, None, None, None, None) : w \in unlocked}))
  /\ holder' = None
  /\ poisoned' = FALSE
  /\ batch' = <<>>
  /\ doing' = [t \in DOMAIN doing |-> Idle]
  /\ stopped' = FALSE
  /\ tasks' = {}
  /\ UNCHANGED <<sendIds, chain, receivable, confirmed, made>>

----------------------------------------------------------------------------
StoreCall ==
  \E w \in Wallet :
     \/ \E s \in Seed : create(w, s) \/ change_seed(w, s)
     \/ import(w) \/ destroy(w) \/ deterministic_insert2(w) \/ lock(w)
     \/ \E i \in 1 .. 2 : deterministic_insert_at(w, i)
     \/ \E a \in Account :
           \/ insert_adhoc2(w, a) \/ insert_watch(w, a) \/ remove_key(w, a)
           \/ \E v \in Wallet : move_accounts(w, v, a)
     \/ \E p \in Password \cup {Empty} : rekey(w, p) \/ enter_password(w, p)

ActionCall ==
  \E w \in Wallet, c \in Caller :
     \/ set_representative(w)
     \/ \E r \in receivable :
           \/ receive_sync(c, w, r)
           \/ Direct(c, Action("receive", w, r.account, r.hash, None, c))
     \/ \E a \in Account :
           \/ Direct(c, Action("change", w, a, None, None, c))
           \/ \E dest \in Destination \ {a}, id \in SendId \cup {None} :
                 \/ send_async(w, a, dest, id)
                 \/ send_sync(c, w, a, dest, id)
                 \/ Direct(c, Action("send", w, a, dest, id, c))

Next ==
  \/ StoreCall
  \/ ActionCall
  \/ stop
  \/ Restart
  \/ do_wallet_actions
  \/ \E t \in DOMAIN doing : Prepare(t) \/ action_complete(t)
  \/ \E r \in receivable \cup External : Arrive(r) \/ Cement(r)
  \/ \E r \in tasks : receive_confirmed(r)
  \/ PeriodicSearch

Spec == Init /\ [][Next]_vars

(* The threads run, the block processor answers, and the node's timer       *)
(* repeats the search; nothing is assumed of users, crashes or the network. *)
FairSpec ==
  /\ Spec
  /\ WF_vars(do_wallet_actions \/ Prepare(Thread) \/ action_complete(Thread))
  /\ \A c \in Caller : WF_vars(Prepare(c) \/ action_complete(c))
  /\ WF_vars(PeriodicSearch)

----------------------------------------------------------------------------
(* However often a send with an id is asked for, by whichever thread, and   *)
(* wherever a crash falls, at most one block made for that id is in the     *)
(* ledger: the hash is stored with the block, before it is processed.       *)
OneSendPerId ==
  \A i \in SendId : Cardinality({b \in made[i] : InLedger(b)}) <= 1

Held(a) == \E w \in Wallet : live(w) /\ HasKey(disk[w], a)

(* What a user does that takes a private key from a wallet.                 *)
KeyTaken(a) ==
  \E w \in Wallet :
     \/ remove_key(w, a) \/ destroy(w) \/ insert_watch(w, a)
     \/ \E s \in Seed : change_seed(w, s) /\ disk[w].keys[a] > 0
     \/ move_accounts(w, w, a)

(* A private key leaves the disk only when a user removes it, destroys the  *)
(* wallet, watches the account, replaces the seed it derives from, or moves *)
(* it from a wallet to the same wallet: no rekey, lock, move, insertion or  *)
(* restart loses one.                                                       *)
KeysKept ==
  [][\A a \in Account : Held(a) /\ ~Held(a)' => KeyTaken(a)]_vars

(* A caller of send_sync or receive_sync gets an answer, unless the action  *)
(* thread panicked or was stopped or, for receive_sync, which waits without *)
(* the mutex, the wallet was destroyed and its actions are skipped.         *)
SyncReturns ==
  \A c \in Caller :
     []<>(doing[c].pc = "sync" => \/ ~live(doing[c].wallet)
                                  \/ doing[Thread] = Dead \/ stopped)

CanReceive(a) == \E w \in DOMAIN loaded : live(w) /\ fetch(w, a) /\ disk[w].keys[a] # WATCH

Running == doing[Thread] # Dead /\ ~stopped /\ ~poisoned

(* A confirmed send to an account of an unlocked wallet is received, though *)
(* its receive_confirmed task may be lost in a restart, find the wallet     *)
(* locked, or lose the race for the head of the account.                    *)
EventuallyReceived ==
  \A r \in External :
     []<>(r \in receivable \cap confirmed => ~CanReceive(r.account) \/ ~Running)

============================================================================
