---------------------------- MODULE WalletProofs ----------------------------
(****************************************************************************)
(* Sends with an id are made once, and keys leave the disk only where a     *)
(* user asks for it, for any number of wallets, accounts, callers, ids and  *)
(* seeds, with crashes and panics wherever they fall.                       *)
(****************************************************************************)
EXTENDS Wallets, FiniteSetTheorems, WellFoundedInduction, TLAPS

(* A queued action; only a send must name an account of the wallets and a   *)
(* destination.                                                             *)
ActionType ==
  {x \in [kind : {"send", "receive", "change", "search"}, wallet : Wallet,
          account : Account \cup Destination \cup {None}, link : Link,
          id : SendId \cup {None}, by : Caller \cup {None}] :
     x.kind = "send" => x.account \in Account /\ x.link \in Destination}

JobType ==
  {Idle, Dead} \cup [pc : {"sync"}, wallet : Wallet] \cup [pc : {"prepare"}, act : ActionType]
    \cup [pc : {"wait"}, act : ActionType, block : AnyBlock]

ReceivableType == [hash : Link, account : Account \cup Destination]

Memory == UNION {[W -> Password \cup {Zero, Empty}] : W \in SUBSET Wallet}

StoreTypes ==
  /\ disk \in [Wallet -> Store \cup {Fresh, Gone}]
  /\ loaded \in Memory

LedgerTypes ==
  /\ chain \in [Account -> Seq(AnyBlock)]
  /\ receivable \subseteq ReceivableType /\ IsFiniteSet(receivable)
  /\ tasks \subseteq ReceivableType

QueueTypes == queue \in [Priority -> Seq(ActionType)] /\ batch \in Seq(ActionType)

IdTypes == sendIds \in [SendId -> SendBlock \cup {None}] /\ made \in [SendId -> SUBSET SendBlock]

JobTypes == doing \in [Caller \cup {Thread} -> JobType]

TypeInv == StoreTypes /\ LedgerTypes /\ QueueTypes /\ IdTypes /\ JobTypes

(* A wallet in memory has its store on disk.                                *)
LoadedLive == \A w \in DOMAIN loaded : live(w)

(* The table of ids holds the one block that was ever made for an id.       *)
IdsBind ==
  \A i \in SendId : made[i] \subseteq IF sendIds[i] = None THEN {} ELSE {sendIds[i]}

IInv == TypeInv /\ LoadedLive /\ IdsBind
----------------------------------------------------------------------------
(* The operators                                                            *)

(* The elements of a finite set, put in a sequence.                         *)
LEMMA AnyOrderType ==
  ASSUME NEW T, NEW S \in SUBSET T, IsFiniteSet(S)
  PROVE  AnyOrder(S) \in Seq(T)
<1>1. Cardinality(S) \in Nat /\ ExistsBijection(1 .. Cardinality(S), S)
  BY FS_CardinalityType
<1>2. Injection(1 .. Cardinality(S), S) # {}
  BY <1>1 DEF ExistsBijection, Bijection
<1>3. AnyOrder(S) \in [1 .. Cardinality(S) -> S]
  BY <1>2 DEF AnyOrder, Injection
<1>4. AnyOrder(S) \in Seq(S)
  BY <1>1, <1>3
<1> QED
  BY <1>4

(* Queueing actions keeps the queues sequences of actions.                  *)
LEMMA QueuedType ==
  ASSUME NEW q \in [Priority -> Seq(ActionType)], NEW p \in Priority,
         NEW s \in Seq(ActionType)
  PROVE  queue_wallet_action(q, p, s) \in [Priority -> Seq(ActionType)]
<1> DEFINE A == Seq(ActionType)
<1>1. q[p] \o s \in A
  OBVIOUS
<1> HIDE DEF A
<1> QED
  BY <1>1 DEF queue_wallet_action, A

(* The same for a finite set of actions.                                    *)
LEMMA QueuedSetType ==
  ASSUME NEW q \in [Priority -> Seq(ActionType)], NEW p \in Priority,
         NEW S \in SUBSET ActionType, IsFiniteSet(S)
  PROVE  queue_wallet_action(q, p, AnyOrder(S)) \in [Priority -> Seq(ActionType)]
BY AnyOrderType, QueuedType

(* A store keeps its type when a key is put into it, and has the key.       *)
LEMMA PutKeyType ==
  ASSUME NEW store \in Store, NEW a \in Account, NEW key \in Key
  PROVE  /\ PutKey(store, a, key) \in Store
         /\ PutKey(store, a, key).seed = store.seed
         /\ DOMAIN PutKey(store, a, key).keys = DOMAIN store.keys \cup {a}
         /\ PutKey(store, a, key).keys[a] = key
         /\ \A b \in DOMAIN store.keys : b # a =>
               PutKey(store, a, key).keys[b] = store.keys[b]
<1>1. PICK A \in SUBSET Account : store.keys \in [A -> Key]
  BY DEF Store
<1> DEFINE K == With(store.keys, a, key)
<1>2. K \in [A \cup {a} -> Key]
  BY <1>1 DEF With
<1>3. K[a] = key /\ \A b \in A : b # a => K[b] = store.keys[b]
  BY <1>1 DEF With
<1>4. K \in UNION {[B -> Key] : B \in SUBSET Account}
  BY <1>2
<1>5. PutKey(store, a, key) = [store EXCEPT !.keys = K]
  BY DEF PutKey
<1> HIDE DEF K
<1> QED
  BY <1>1, <1>2, <1>3, <1>4, <1>5 DEF Store

(* Erasing keys leaves the others as they are.                              *)
LEMMA EraseType ==
  ASSUME NEW store \in Store, NEW E
  PROVE  /\ Erase(store.keys, E) \in UNION {[B -> Key] : B \in SUBSET Account}
         /\ DOMAIN Erase(store.keys, E) = DOMAIN store.keys \ E
         /\ \A b \in DOMAIN store.keys \ E : Erase(store.keys, E)[b] = store.keys[b]
<1>1. PICK A \in SUBSET Account : store.keys \in [A -> Key]
  BY DEF Store
<1>2. Erase(store.keys, E) \in [A \ E -> Key]
  BY <1>1 DEF Erase
<1> QED
  BY <1>1, <1>2 DEF Erase

(* The index the next deterministic key gets is one of the seed's, as there *)
(* is a least free one.                                                     *)
LEMMA NextIndexType ==
  ASSUME NEW store \in Store, NextIndex(store) # 0
  PROVE  /\ NextIndex(store) \in DOMAIN Derived[store.seed]
         /\ NextIndex(store) \in Nat /\ NextIndex(store) \in Key
         /\ Derived[store.seed][NextIndex(store)] \in Account
<1> DEFINE free == {i \in DOMAIN Derived[store.seed] :
                      i >= store.index /\ Derived[store.seed][i] \notin DOMAIN store.keys}
<1>1. store.seed \in Seed /\ Derived[store.seed] \in Seq(Account)
  BY WalletAssumption DEF Store
<1>2. DOMAIN Derived[store.seed] \subseteq Nat
  BY <1>1
<1>3. free # {}
  BY DEF NextIndex
<1>4. \E i \in free : \A j \in free : ~(<<j, i>> \in OpToRel(<, Nat))
  <2>1. free \subseteq Nat
    BY <1>2
  <2> HIDE DEF free
  <2> QED
    BY <1>3, <2>1, NatLessThanWellFounded, WFMin, Zenon
<1>5. \E i \in free : \A j \in free : i <= j
  <2>1. PICK i \in free : \A j \in free : ~(<<j, i>> \in OpToRel(<, Nat))
    BY <1>4, Zenon
  <2>2. ASSUME NEW j \in free PROVE i <= j
    <3>1. i \in Nat /\ j \in Nat
      BY <1>2
    <3>2. ~(<<j, i>> \in OpToRel(<, Nat))
      BY <2>1, Zenon
    <3>3. ~(j < i)
      BY <3>1, <3>2 DEF OpToRel
    <3> QED
      BY <3>1, <3>3
  <2> QED
    BY <2>2
<1>6. NextIndex(store) \in free
  BY <1>3, <1>5, Zenon DEF NextIndex
<1> QED
  BY <1>1, <1>2, <1>6 DEF Key

(* Putting a key of one account takes none from another.                    *)
LEMMA PutKeyKeeps ==
  ASSUME NEW store \in Store, NEW a \in Account, NEW key \in Key, NEW b,
         HasKey(store, b), b # a
  PROVE  HasKey(PutKey(store, a, key), b)
BY PutKeyType DEF HasKey

(* insert_adhoc takes no key and leaves the account with one.               *)
LEMMA PutAdhoc ==
  ASSUME NEW store \in Store, NEW a \in Account
  PROVE  /\ PutKey(store, a, ADHOC) \in Store
         /\ HasKey(PutKey(store, a, ADHOC), a)
         /\ \A b : HasKey(store, b) => HasKey(PutKey(store, a, ADHOC), b)
<1>1. ADHOC \in Key
  BY DEF Key
<1> QED
  BY <1>1, PutKeyType, PutKeyKeeps, SMTT(30) DEF HasKey

(* The key at an index of the seed can be read back, so that putting it     *)
(* loses none, even where it replaces another key of the same account.      *)
LEMMA PutDerived ==
  ASSUME NEW store \in Store, NEW i \in DOMAIN Derived[store.seed]
  PROVE  /\ PutKey(store, Derived[store.seed][i], i) \in Store
         /\ \A b : HasKey(store, b) => HasKey(PutKey(store, Derived[store.seed][i], i), b)
<1> DEFINE a == Derived[store.seed][i]
<1>1. store.seed \in Seed /\ Derived[store.seed] \in Seq(Account)
  BY WalletAssumption DEF Store
<1>2. a \in Account /\ i \in Key
  BY <1>1 DEF Key
<1>3. HasKey(PutKey(store, a, i), a)
  <2>1. /\ PutKey(store, a, i).seed = store.seed
        /\ a \in DOMAIN PutKey(store, a, i).keys
        /\ PutKey(store, a, i).keys[a] = i
    BY <1>2, PutKeyType
  <2> QED
    BY <2>1 DEF HasKey
<1> QED
  BY <1>2, <1>3, PutKeyType, PutKeyKeeps

(* The next deterministic key takes no other away.                          *)
LEMMA DeterministicInsertType ==
  ASSUME NEW store \in Store, NextIndex(store) # 0
  PROVE  /\ DeterministicInsert(store) \in Store
         /\ \A b : HasKey(store, b) => HasKey(DeterministicInsert(store), b)
<1> DEFINE i == NextIndex(store)
           put == PutKey(store, Derived[store.seed][i], i)
<1>1. i \in DOMAIN Derived[store.seed] /\ i \in Nat
  BY NextIndexType
<1>2. put \in Store /\ \A b : HasKey(store, b) => HasKey(put, b)
  BY <1>1, PutDerived
<1>3. DeterministicInsert(store) = [put EXCEPT !.index = i + 1]
  BY DEF DeterministicInsert
<1> HIDE DEF i, put
<1>4. DeterministicInsert(store) \in Store
  BY <1>1, <1>2, <1>3 DEF Store
<1>5. ASSUME NEW b, HasKey(put, b) PROVE HasKey(DeterministicInsert(store), b)
  BY <1>2, <1>3, <1>5 DEF Store, HasKey
<1> QED
  BY <1>2, <1>4, <1>5

(* A store is replaced field by field.                                      *)
LEMMA StoreReplaced ==
  ASSUME NEW store \in Store, NEW K, NEW s
  PROVE  [store EXCEPT !.keys = K, !.seed = s, !.index = 1]
           = [keys |-> K, seed |-> s, index |-> 1, wrapped |-> store.wrapped]
<1> DEFINE t == [store EXCEPT !.keys = K, !.seed = s, !.index = 1]
<1>1. DOMAIN store = {"keys", "seed", "index", "wrapped"}
  BY DEF Store
<1>2. DOMAIN t = DOMAIN store /\ t.keys = K /\ t.seed = s /\ t.index = 1
        /\ t.wrapped = store.wrapped
  BY <1>1
<1>3. t = [x \in DOMAIN store |-> t[x]]
  BY Zenon
<1> HIDE DEF t
<1>4. t = [keys |-> K, seed |-> s, index |-> 1, wrapped |-> store.wrapped]
  BY <1>1, <1>2, <1>3
<1> QED
  BY <1>4 DEF t

(* A new seed takes only the deterministic keys.                            *)
LEMMA SetSeedType ==
  ASSUME NEW store \in Store, NEW s \in Seed
  PROVE  /\ set_seed(store, s) \in Store
         /\ \A b : HasKey(store, b) /\ ~(store.keys[b] > 0) => HasKey(set_seed(store, s), b)
<1> DEFINE E == {a \in DOMAIN store.keys : store.keys[a] > 0}
           kept == Erase(store.keys, E)
<1>1. set_seed(store, s) = [keys |-> kept, seed |-> s, index |-> 1, wrapped |-> store.wrapped]
  <2>1. set_seed(store, s) = [store EXCEPT !.keys = kept, !.seed = s, !.index = 1]
    BY DEF set_seed
  <2> HIDE DEF kept
  <2> QED
    BY <2>1, StoreReplaced, Zenon
<1>2. /\ kept \in UNION {[B -> Key] : B \in SUBSET Account}
      /\ DOMAIN kept = DOMAIN store.keys \ E
      /\ \A b \in DOMAIN store.keys \ E : kept[b] = store.keys[b]
  BY EraseType, Zenon
<1>3. ASSUME NEW b, HasKey(store, b), ~(store.keys[b] > 0)
      PROVE  b \in DOMAIN kept /\ kept[b] = ADHOC
  <2>1. b \in DOMAIN kept /\ kept[b] = store.keys[b]
    BY <1>2, <1>3 DEF HasKey
  <2>2. Derived[store.seed] \in Seq(Account)
    BY WalletAssumption DEF Store
  <2>3. ASSUME store.keys[b] \in DOMAIN Derived[store.seed] PROVE store.keys[b] > 0
    BY <2>2, <2>3
  <2> QED
    BY <1>3, <2>1, <2>3 DEF HasKey
<1> HIDE DEF kept
<1>4. set_seed(store, s) \in Store
  <2>1. store.wrapped \in Password \cup {Zero, Empty}
    BY DEF Store
  <2> QED
    BY <1>1, <1>2, <2>1 DEF Store
<1>5. set_seed(store, s).keys = kept
  BY <1>1
<1> QED
  BY <1>3, <1>4, <1>5 DEF HasKey

(* Erasing one account's entry takes only that key.                         *)
LEMMA EraseKeeps ==
  ASSUME NEW store \in Store, NEW a
  PROVE  /\ [store EXCEPT !.keys = Erase(@, {a})] \in Store
         /\ \A b : HasKey(store, b) /\ b # a =>
               HasKey([store EXCEPT !.keys = Erase(@, {a})], b)
<1> DEFINE kept == Erase(store.keys, {a})
<1>1. /\ kept \in UNION {[B -> Key] : B \in SUBSET Account}
      /\ DOMAIN kept = DOMAIN store.keys \ {a}
      /\ \A b \in DOMAIN store.keys \ {a} : kept[b] = store.keys[b]
  BY EraseType, Zenon
<1> HIDE DEF kept
<1>2. [store EXCEPT !.keys = kept] \in Store
  BY <1>1 DEF Store
<1>3. /\ [store EXCEPT !.keys = kept].keys = kept
      /\ [store EXCEPT !.keys = kept].seed = store.seed
  BY DEF Store
<1> QED
  BY <1>1, <1>2, <1>3 DEF HasKey, kept

----------------------------------------------------------------------------
(* The key stores                                                           *)

(* A call for a send, a receive or a change only queues or starts it.       *)
LEMMA ActionCallFrame ==
  ASSUME ActionCall
  PROVE  UNCHANGED <<storeVars, ledgerVars, made>>
<1>1. ASSUME NEW c, NEW x, Direct(c, x) PROVE UNCHANGED <<storeVars, ledgerVars, made>>
  BY <1>1 DEF Direct
<1>2. ASSUME NEW w, set_representative(w) PROVE UNCHANGED <<storeVars, ledgerVars, made>>
  BY <1>2 DEF set_representative
<1>3. ASSUME NEW c, NEW w, NEW r, receive_sync(c, w, r)
      PROVE  UNCHANGED <<storeVars, ledgerVars, made>>
  BY <1>3 DEF receive_sync
<1>4. ASSUME NEW c, NEW w, NEW a, NEW d, NEW i, send_async(w, a, d, i) \/ send_sync(c, w, a, d, i)
      PROVE  UNCHANGED <<storeVars, ledgerVars, made>>
  BY <1>4 DEF send_async, send_sync
<1> QED
  BY <1>1, <1>2, <1>3, <1>4 DEF ActionCall

(* A call on a store leaves the ledger, the ids and the jobs alone.         *)
LEMMA StoreCallFrame ==
  ASSUME StoreCall
  PROVE  UNCHANGED <<sendIds, ledgerVars, made, doing>>
<1>1. ASSUME NEW w, NEW store, UpdateStore(w, store)
      PROVE  UNCHANGED <<sendIds, ledgerVars, made, doing>>
  BY <1>1 DEF UpdateStore, threadVars
<1> QED
  BY <1>1, ZenonT(30) DEF StoreCall, create, change_seed, import, destroy, deterministic_insert2, lock,
              deterministic_insert_at, insert_adhoc2, insert_watch, remove_key, move_accounts,
              rekey, enter_password, threadVars

(* Only the calls on a store, a restart and the reload of the periodic      *)
(* search change what is on disk or in memory.                              *)
LEMMA StoresUntouched ==
  ASSUME [Next]_vars
  PROVE  StoreCall \/ Restart \/ PeriodicSearch \/ UNCHANGED <<disk, loaded>>
<1>1. CASE ActionCall
  BY <1>1, ActionCallFrame DEF storeVars
<1>2. CASE stop \/ do_wallet_actions
  BY <1>2 DEF stop, do_wallet_actions, storeVars
<1>3. CASE \E t \in DOMAIN doing : Prepare(t) \/ action_complete(t)
  BY <1>3, Zenon DEF Prepare, action_complete, storeVars
<1>4. CASE \E r \in receivable \cup External : Arrive(r) \/ Cement(r)
  BY <1>4 DEF Arrive, Cement, storeVars
<1>5. CASE \E r \in tasks : receive_confirmed(r)
  BY <1>5 DEF receive_confirmed, storeVars
<1>6. CASE UNCHANGED vars
  BY <1>6 DEF vars, storeVars
<1> QED
  BY <1>1, <1>2, <1>3, <1>4, <1>5, <1>6 DEF Next

(* A store is no marker of a missing one.                                   *)
LEMMA StoreIsLive ==
  ASSUME NEW x \in Store
  PROVE  x \notin {Fresh, Gone}
BY WalletAssumption

(* The types of a memory that gets one wallet more or another password.     *)
LEMMA LoadedType ==
  ASSUME StoreTypes, NEW w \in Wallet, NEW p \in Password \cup {Zero, Empty}
  PROVE  /\ With(loaded, w, p) \in Memory
         /\ DOMAIN With(loaded, w, p) = DOMAIN loaded \cup {w}
         /\ w \in DOMAIN loaded => [loaded EXCEPT ![w] = p] \in Memory
         /\ DOMAIN [loaded EXCEPT ![w] = p] = DOMAIN loaded
<1>1. PICK W \in SUBSET Wallet : loaded \in [W -> Password \cup {Zero, Empty}]
  BY DEF StoreTypes, Memory
<1>2. With(loaded, w, p) \in [W \cup {w} -> Password \cup {Zero, Empty}]
  BY <1>1 DEF With
<1>3. w \in W => [loaded EXCEPT ![w] = p] \in [W -> Password \cup {Zero, Empty}]
  BY <1>1
<1>4. DOMAIN loaded = W /\ DOMAIN With(loaded, w, p) = W \cup {w}
        /\ DOMAIN [loaded EXCEPT ![w] = p] = W
  BY <1>1, <1>2
<1>5. With(loaded, w, p) \in Memory
  BY <1>2 DEF Memory
<1>6. w \in W => [loaded EXCEPT ![w] = p] \in Memory
  BY <1>3 DEF Memory
<1> QED
  BY <1>4, <1>5, <1>6

(* The wallets mutex is held over a loaded, hence stored, wallet.           *)
LEMMA OpenStore ==
  ASSUME IInv, NEW w \in DOMAIN loaded
  PROVE  w \in Wallet /\ live(w) /\ disk[w] \in Store
<1>1. w \in Wallet
  BY DEF IInv, TypeInv, StoreTypes, Memory
<1> QED
  BY <1>1 DEF IInv, LoadedLive, live, TypeInv, StoreTypes

(* Replacing the store of a loaded wallet by another store.                 *)
LEMMA ReplacedStore ==
  ASSUME IInv, NEW w \in Wallet, NEW store \in Store,
         disk' = [disk EXCEPT ![w] = store], loaded' = loaded
  PROVE  StoreTypes' /\ LoadedLive'
<1>1. StoreTypes'
  BY DEF IInv, TypeInv, StoreTypes
<1>2. LoadedLive'
  <2> SUFFICES ASSUME NEW v \in DOMAIN loaded PROVE disk'[v] \notin {Fresh, Gone}
    BY DEF LoadedLive, live
  <2>1. v \in Wallet /\ live(v)
    BY OpenStore
  <2> QED
    BY <2>1, StoreIsLive DEF live, IInv, TypeInv, StoreTypes
<1> QED
  BY <1>1, <1>2

(* The key a wallet holds is held afterwards if the replaced store has it.  *)
LEMMA ReplacedKeeps ==
  ASSUME IInv, NEW w \in Wallet, NEW store \in Store, disk' = [disk EXCEPT ![w] = store],
         NEW a, Held(a), live(w) /\ HasKey(disk[w], a) => HasKey(store, a)
  PROVE  Held(a)'
<1>1. PICK v \in Wallet : live(v) /\ HasKey(disk[v], a)
  BY DEF Held
<1>2. disk' \in [Wallet -> Store \cup {Fresh, Gone}] /\ disk'[w] = store
  BY DEF IInv, TypeInv, StoreTypes
<1>3. CASE v = w
  BY <1>1, <1>2, <1>3, StoreIsLive DEF Held, live
<1>4. CASE v # w
  <2>1. disk'[v] = disk[v]
    BY <1>4 DEF IInv, TypeInv, StoreTypes
  <2> QED
    BY <1>1, <2>1 DEF Held, live
<1> QED
  BY <1>3, <1>4

(* What a step does to the stores: their types, that what is loaded is on   *)
(* disk, and that only a user takes a key away.                             *)
StoresKept ==
  /\ StoreTypes' /\ LoadedLive'
  /\ \A a \in Account : Held(a) /\ ~Held(a)' => KeyTaken(a)

(* Calls that replace the store of one wallet.                              *)
LEMMA UpdateStep ==
  ASSUME IInv, NEW w \in Wallet, NEW store \in Store, UpdateStore(w, store),
         \A a \in Account : HasKey(disk[w], a) => HasKey(store, a) \/ KeyTaken(a)
  PROVE  StoresKept
<1>1. disk' = [disk EXCEPT ![w] = store] /\ loaded' = loaded
  BY DEF UpdateStore
<1>2. StoreTypes' /\ LoadedLive'
  BY <1>1, ReplacedStore, Zenon
<1>3. ASSUME NEW a \in Account, Held(a), ~Held(a)' PROVE KeyTaken(a)
  BY <1>1, <1>3, ReplacedKeeps, Zenon
<1> QED
  BY <1>2, <1>3 DEF StoresKept

(* Making a store where there was none.                                     *)
LEMMA NewStoreStep ==
  ASSUME IInv, NEW w \in Wallet, (\E s \in Seed : create(w, s)) \/ import(w)
  PROVE  StoresKept
<1>1. disk[w] = Fresh
  BY DEF create, import
<1>2. PICK store \in Store : /\ disk' = [disk EXCEPT ![w] = store]
                             /\ loaded' = loaded \/ loaded' = With(loaded, w, store.wrapped)
  <2>1. CASE import(w)
    BY <2>1, WalletAssumption, Zenon DEF import
  <2>2. ASSUME NEW s \in Seed, create(w, s)
        PROVE  \E store \in Store : /\ disk' = [disk EXCEPT ![w] = store]
                                    /\ loaded' = With(loaded, w, store.wrapped)
    <3> DEFINE store == enter_initial_password(w, NewStore(s))
    <3>1. store = [keys |-> <<>>, seed |-> s, index |-> 1, wrapped |-> Empty]
      BY DEF enter_initial_password, NewStore
    <3>2. <<>> \in [{} -> Key]
      OBVIOUS
    <3>3. store \in Store
      BY <3>1, <3>2, SMTT(30) DEF Store
    <3> QED
      BY <2>2, <3>3, Zenon DEF create
  <2> QED
    BY <2>1, <2>2
<1>3. store.wrapped \in Password \cup {Zero, Empty} /\ StoreTypes
  BY DEF Store, IInv, TypeInv
<1>4. /\ loaded' \in Memory
      /\ DOMAIN loaded' \subseteq DOMAIN loaded \cup {w}
  <2>1. /\ With(loaded, w, store.wrapped) \in Memory
        /\ DOMAIN With(loaded, w, store.wrapped) = DOMAIN loaded \cup {w}
    BY <1>3, LoadedType, Zenon
  <2> QED
    BY <1>2, <1>3, <2>1 DEF StoreTypes
<1>5. disk' \in [Wallet -> Store \cup {Fresh, Gone}]
  BY <1>2, <1>3 DEF StoreTypes
<1>6. LoadedLive'
  <2> SUFFICES ASSUME NEW v \in DOMAIN loaded' PROVE disk'[v] \notin {Fresh, Gone}
    BY Zenon DEF LoadedLive, live
  <2>1. CASE v = w
    BY <1>2, <1>3, <2>1, StoreIsLive, Zenon DEF StoreTypes
  <2>2. CASE v # w
    BY <1>2, <1>4, <2>2, OpenStore DEF live
  <2> QED
    BY <2>1, <2>2
<1>7. ASSUME NEW a \in Account, Held(a) PROVE Held(a)'
  BY <1>1, <1>2, <1>7, ReplacedKeeps, Zenon DEF live
<1> QED
  BY <1>4, <1>5, <1>6, <1>7, Zenon DEF StoresKept, StoreTypes

(* The calls on one store whose wallet is unlocked.                         *)
LEMMA OneStoreStep ==
  ASSUME IInv, NEW w \in Wallet,
         \/ deterministic_insert2(w) \/ \E i : deterministic_insert_at(w, i)
         \/ \E s \in Seed : change_seed(w, s)
         \/ \E a \in Account : insert_adhoc2(w, a) \/ insert_watch(w, a) \/ remove_key(w, a)
  PROVE  StoresKept
<1>1. w \in DOMAIN loaded
  BY Zenon DEF deterministic_insert2, deterministic_insert_at, change_seed, insert_adhoc2,
         insert_watch, remove_key, UpdateStore, Open
<1>2. disk[w] \in Store
  BY <1>1, OpenStore, Zenon
<1>3. CASE deterministic_insert2(w)
  BY <1>2, <1>3, DeterministicInsertType, UpdateStep DEF deterministic_insert2
<1>4. ASSUME NEW i, deterministic_insert_at(w, i) PROVE StoresKept
  <2>1. i \in DOMAIN Derived[disk[w].seed]
    BY <1>4, Zenon DEF deterministic_insert_at
  <2>2. UpdateStore(w, PutKey(disk[w], Derived[disk[w].seed][i], i))
    BY <1>4, Zenon DEF deterministic_insert_at
  <2> QED
    BY <1>2, <2>1, <2>2, PutDerived, UpdateStep, Zenon
<1>5. ASSUME NEW s \in Seed, change_seed(w, s) PROVE StoresKept
  <2> DEFINE cleared == set_seed(disk[w], s)
  <2>1. cleared \in Store /\ NextIndex(cleared) # 0
    BY <1>2, <1>5, SetSeedType, Zenon DEF change_seed
  <2>2. UpdateStore(w, DeterministicInsert(cleared))
    BY <1>5 DEF change_seed
  <2>3. ASSUME NEW a \in Account, HasKey(disk[w], a)
        PROVE  HasKey(cleared, a) \/ KeyTaken(a)
    BY <1>2, <1>5, <2>3, SetSeedType, Zenon DEF KeyTaken
  <2> HIDE DEF cleared
  <2> QED
    BY <2>1, <2>2, <2>3, DeterministicInsertType, UpdateStep
<1>6. ASSUME NEW a \in Account, insert_adhoc2(w, a) PROVE StoresKept
  BY <1>2, <1>6, PutAdhoc, UpdateStep DEF insert_adhoc2
<1>7. ASSUME NEW a \in Account, insert_watch(w, a) PROVE StoresKept
  <2>1. WATCH \in Key
    BY Zenon DEF Key
  <2>2. PutKey(disk[w], a, WATCH) \in Store
    BY <1>2, <2>1, PutKeyType, Zenon
  <2>3. ASSUME NEW b \in Account, HasKey(disk[w], b)
        PROVE  HasKey(PutKey(disk[w], a, WATCH), b) \/ KeyTaken(b)
    BY <1>2, <1>7, <2>1, <2>3, PutKeyKeeps, Zenon DEF KeyTaken
  <2> QED
    BY <1>7, <2>2, <2>3, UpdateStep DEF insert_watch
<1>8. ASSUME NEW a \in Account, remove_key(w, a) PROVE StoresKept
  <2> DEFINE store == [disk[w] EXCEPT !.keys = Erase(@, {a})]
  <2>1. store \in Store
    BY <1>2, EraseKeeps, Zenon
  <2>2. ASSUME NEW b \in Account, HasKey(disk[w], b)
        PROVE  HasKey(store, b) \/ KeyTaken(b)
    BY <1>2, <1>8, <2>2, EraseKeeps, Zenon DEF KeyTaken
  <2>3. UpdateStore(w, store)
    BY <1>8 DEF remove_key
  <2> HIDE DEF store
  <2> QED
    BY <2>1, <2>2, <2>3, UpdateStep
<1> QED
  BY <1>3, <1>4, <1>5, <1>6, <1>7, <1>8

(* destroy, lock, rekey and enter_password.                                 *)
LEMMA WalletStep ==
  ASSUME IInv, NEW w \in Wallet,
         \/ destroy(w) \/ lock(w)
         \/ \E p \in Password \cup {Empty} : rekey(w, p) \/ enter_password(w, p)
  PROVE  StoresKept
<1> USE DEF StoresKept
<1>1. CASE destroy(w)
  <2>1. StoreTypes' /\ LoadedLive'
    <3>1. CASE w \in DOMAIN loaded
      <4>1. disk' = [disk EXCEPT ![w] = Gone] /\ loaded' = [v \in DOMAIN loaded \ {w} |-> loaded[v]]
        BY <1>1, <3>1 DEF destroy
      <4>2. PICK W \in SUBSET Wallet : loaded \in [W -> Password \cup {Zero, Empty}]
        BY DEF IInv, TypeInv, StoreTypes, Memory
      <4>3. loaded' \in [W \ {w} -> Password \cup {Zero, Empty}]
        BY <4>1, <4>2
      <4>4. StoreTypes'
        BY <4>1, <4>3 DEF IInv, TypeInv, StoreTypes, Memory
      <4>5. ASSUME NEW v \in W \ {w} PROVE disk'[v] \notin {Fresh, Gone}
        BY <4>1, <4>2, OpenStore DEF live, IInv, TypeInv, StoreTypes
      <4> QED
        BY <4>3, <4>4, <4>5 DEF LoadedLive, live
    <3>2. CASE w \notin DOMAIN loaded
      BY <1>1, <3>2 DEF destroy, IInv, TypeInv, StoreTypes, LoadedLive, live
    <3> QED
      BY <3>1, <3>2
  <2> QED
    BY <1>1, <2>1, Zenon DEF KeyTaken
<1>2. ASSUME disk' = disk, loaded' \in Memory, DOMAIN loaded' = DOMAIN loaded
      PROVE  StoresKept
  BY <1>2 DEF IInv, TypeInv, StoreTypes, LoadedLive, live, Held
<1>3. StoreTypes
  BY DEF IInv, TypeInv
<1>4. CASE lock(w)
  <2>1. w \in DOMAIN loaded /\ disk' = disk /\ loaded' = [loaded EXCEPT ![w] = Zero]
    BY <1>4 DEF lock, Open
  <2>2. loaded' \in Memory /\ DOMAIN loaded' = DOMAIN loaded
    BY <1>3, <2>1, LoadedType, Zenon
  <2> QED
    BY <1>2, <2>1, <2>2
<1>5. ASSUME NEW p \in Password \cup {Empty}, enter_password(w, p) PROVE StoresKept
  <2>1. w \in DOMAIN loaded /\ disk' = disk /\ loaded' = [loaded EXCEPT ![w] = p]
    BY <1>5, Zenon DEF enter_password, Open
  <2>2. loaded' \in Memory /\ DOMAIN loaded' = DOMAIN loaded
    BY <1>3, <2>1, LoadedType, Zenon
  <2> QED
    BY <1>2, <2>1, <2>2
<1>6. ASSUME NEW p \in Password \cup {Empty}, rekey(w, p) PROVE StoresKept
  <2> DEFINE store == [disk[w] EXCEPT !.wrapped = p]
  <2>1. /\ w \in DOMAIN loaded /\ disk' = [disk EXCEPT ![w] = store]
        /\ loaded' = [loaded EXCEPT ![w] = p]
    BY <1>3, <1>6 DEF rekey, Open, StoreTypes
  <2>2. disk[w] \in Store
    BY <2>1, OpenStore
  <2>3. store \in Store /\ store.keys = disk[w].keys /\ store.seed = disk[w].seed
    BY <2>2 DEF Store
  <2>4. loaded' \in Memory /\ DOMAIN loaded' = DOMAIN loaded
    BY <1>3, <2>1, LoadedType, Zenon
  <2> HIDE DEF store
  <2>5. StoreTypes'
    BY <1>3, <2>1, <2>3, <2>4 DEF StoreTypes
  <2>6. ASSUME NEW v \in DOMAIN loaded PROVE disk'[v] \notin {Fresh, Gone}
    <3>1. v \in Wallet /\ live(v)
      BY OpenStore
    <3> QED
      BY <1>3, <2>1, <2>3, <3>1, StoreIsLive DEF live, StoreTypes
  <2>7. ASSUME NEW a \in Account, Held(a) PROVE Held(a)'
    BY <2>1, <2>3, <2>7, ReplacedKeeps, Zenon DEF HasKey
  <2> QED
    BY <2>4, <2>5, <2>6, <2>7, Zenon DEF LoadedLive, live
<1> QED
  BY <1>1, <1>4, <1>5, <1>6

(* A key is put into the target before it is taken from the source, so that *)
(* only a move within one wallet loses it.                                  *)
LEMMA MoveStep ==
  ASSUME IInv, NEW w \in Wallet, NEW v \in Wallet, NEW a \in Account, move_accounts(w, v, a)
  PROVE  StoresKept
<1> DEFINE target == PutKey(disk[v], a, ADHOC)
           put == [disk EXCEPT ![v] = target]
           source == [put[w] EXCEPT !.keys = Erase(@, {a})]
<1>1. w \in DOMAIN loaded /\ v \in DOMAIN loaded /\ loaded' = loaded
  BY Zenon DEF move_accounts, Open
<1>2. disk[w] \in Store /\ disk[v] \in Store /\ disk \in [Wallet -> Store \cup {Fresh, Gone}]
  BY <1>1, OpenStore, Zenon DEF IInv, TypeInv, StoreTypes
<1>3. disk' = [put EXCEPT ![w] = source]
  BY <1>2 DEF move_accounts, MoveKey
<1>4. target \in Store /\ HasKey(target, a) /\ \A b : HasKey(disk[v], b) => HasKey(target, b)
  BY <1>2, PutAdhoc
<1> HIDE DEF target
<1>5. put[w] \in Store /\ put[v] = target /\ \A u \in Wallet : u # v => put[u] = disk[u]
  BY <1>2, <1>4
<1>6. /\ put \in [Wallet -> Store \cup {Fresh, Gone}]
      /\ \A b : HasKey(disk[w], b) => HasKey(put[w], b)
  BY <1>2, <1>4, <1>5
<1> HIDE DEF put
<1>7. source \in Store /\ \A b : HasKey(put[w], b) /\ b # a => HasKey(source, b)
  BY <1>5, EraseKeeps, Zenon
<1> HIDE DEF source
<1>8. /\ disk' \in [Wallet -> Store \cup {Fresh, Gone}] /\ disk'[w] = source
      /\ \A u \in Wallet : u # w => disk'[u] = put[u]
  BY <1>3, <1>6, <1>7, Zenon
<1>9. StoreTypes'
  BY <1>1, <1>8, Zenon DEF IInv, TypeInv, StoreTypes
<1>10. ASSUME NEW u \in DOMAIN loaded PROVE disk'[u] \notin {Fresh, Gone}
  <2>1. u \in Wallet /\ disk[u] \in Store
    BY OpenStore, Zenon
  <2>2. disk'[u] \in Store
    BY <1>4, <1>5, <1>7, <1>8, <2>1, Zenon
  <2> QED
    BY <2>2, StoreIsLive, Zenon
<1>11. ASSUME NEW b \in Account, Held(b), ~Held(b)' PROVE KeyTaken(b)
  <2>1. PICK u \in Wallet : live(u) /\ HasKey(disk[u], b)
    BY <1>11, Zenon DEF Held
  <2>2. ASSUME NEW x \in Wallet, disk'[x] \in Store PROVE ~HasKey(disk'[x], b)
    BY <1>11, <2>2, StoreIsLive, Zenon DEF Held, live
  <2>3. disk[u] \in Store /\ disk'[u] \in Store
    BY <1>2, <1>4, <1>5, <1>7, <1>8, <2>1, Zenon DEF live
  <2>4. HasKey(put[u], b)
    BY <1>4, <1>5, <2>1, Zenon
  <2>5. u = w /\ b = a
    BY <1>7, <1>8, <2>2, <2>3, <2>4, Zenon
  <2>6. w = v
    BY <1>4, <1>5, <1>8, <2>2, <2>5, Zenon
  <2> QED
    BY <2>5, <2>6, Zenon DEF KeyTaken
<1> QED
  BY <1>1, <1>9, <1>10, <1>11, Zenon DEF StoresKept, LoadedLive, live

(* A reload and a restart find every store as it was, apart from the first  *)
(* password of a new one.                                                   *)
LEMMA ReloadStep ==
  ASSUME IInv, Restart \/ PeriodicSearch
  PROVE  StoresKept
<1>1. disk \in [Wallet -> Store \cup {Fresh, Gone}] /\ loaded \in Memory
  BY DEF IInv, TypeInv, StoreTypes
<1>2. CASE PeriodicSearch
  <2> DEFINE onDisk == {w \in Wallet : live(w)}
             now == [w \in onDisk |-> IF w \in DOMAIN loaded THEN loaded[w] ELSE Zero]
  <2>1. disk' = disk /\ loaded' = now
    BY <1>2, Zenon DEF PeriodicSearch
  <2>2. ASSUME NEW w \in DOMAIN loaded PROVE loaded[w] \in Password \cup {Zero, Empty}
    BY <1>1 DEF Memory
  <2>3. now \in [onDisk -> Password \cup {Zero, Empty}]
    BY <2>2
  <2>4. now \in Memory
    BY <2>3, Zenon DEF Memory
  <2>5. LoadedLive'
    BY <2>1, <2>3, Zenon DEF LoadedLive, live
  <2> QED
    BY <1>1, <2>1, <2>4, <2>5 DEF StoresKept, StoreTypes, Held, live
<1>3. CASE Restart
  <2> DEFINE onDisk == {w \in Wallet : live(w)}
             opened(w) == enter_initial_password(w, disk[w])
  <2>1. /\ disk' = [w \in Wallet |-> IF w \in onDisk THEN opened(w) ELSE disk[w]]
        /\ loaded' = [w \in onDisk |-> Empty]
    BY <1>3, Zenon DEF Restart
  <2>2. ASSUME NEW w \in onDisk
        PROVE  /\ opened(w) \in Store /\ opened(w).keys = disk[w].keys
               /\ opened(w).seed = disk[w].seed
    <3>1. disk[w] \in Store
      BY <1>1 DEF live
    <3> QED
      BY <3>1 DEF enter_initial_password, Store
  <2> HIDE DEF opened
  <2>3. loaded' \in Memory
    <3>1. loaded' \in [onDisk -> Password \cup {Zero, Empty}]
      BY <2>1
    <3> QED
      BY <3>1 DEF Memory
  <2>4. disk' \in [Wallet -> Store \cup {Fresh, Gone}]
    BY <1>1, <2>1, <2>2, Zenon
  <2>5. ASSUME NEW w \in onDisk PROVE disk'[w] \in Store /\ disk'[w] \notin {Fresh, Gone}
    BY <2>1, <2>2, StoreIsLive
  <2>6. LoadedLive'
    BY <2>1, <2>5 DEF LoadedLive, live
  <2>7. ASSUME NEW a \in Account, Held(a) PROVE Held(a)'
    <3>1. PICK w \in Wallet : live(w) /\ HasKey(disk[w], a)
      BY <2>7 DEF Held
    <3>2. HasKey(disk'[w], a)
      BY <2>1, <2>2, <3>1, Zenon DEF HasKey
    <3> QED
      BY <2>5, <3>1, <3>2 DEF Held, live
  <2> QED
    BY <2>3, <2>4, <2>6, <2>7 DEF StoresKept, StoreTypes
<1> QED
  BY <1>2, <1>3

(* Every step keeps the stores.                                             *)
LEMMA StoreStep ==
  ASSUME IInv, [Next]_vars
  PROVE  StoresKept
<1>1. CASE StoreCall
  <2>1. PICK w \in Wallet :
          \/ \E s \in Seed : create(w, s) \/ change_seed(w, s)
          \/ import(w) \/ destroy(w) \/ deterministic_insert2(w) \/ lock(w)
          \/ \E i \in 1 .. 2 : deterministic_insert_at(w, i)
          \/ \E a \in Account :
                \/ insert_adhoc2(w, a) \/ insert_watch(w, a) \/ remove_key(w, a)
                \/ \E v \in Wallet : move_accounts(w, v, a)
          \/ \E p \in Password \cup {Empty} : rekey(w, p) \/ enter_password(w, p)
    BY <1>1, Zenon DEF StoreCall
  <2> QED
    BY <2>1, NewStoreStep, OneStoreStep, WalletStep, MoveStep, Zenon
<1>2. CASE UNCHANGED <<disk, loaded>>
  BY <1>2 DEF StoresKept, IInv, TypeInv, StoreTypes, LoadedLive, live, Held
<1> QED
  BY <1>1, <1>2, StoresUntouched, ReloadStep

----------------------------------------------------------------------------
(* The queue of actions                                                     *)

(* What a function makes of a finite set is finite.                         *)
LEMMA ImageFinite ==
  ASSUME NEW S, IsFiniteSet(S), NEW f
  PROVE  IsFiniteSet({f[x] : x \in S})
<1> DEFINE T == {f[x] : x \in S}
           g == [x \in S |-> f[x]]
<1>1. g \in Surjection(S, T)
  BY DEF Surjection
<1> HIDE DEF g, T
<1>2. IsFiniteSet(T)
  BY <1>1, FS_Surjection
<1> QED
  BY <1>2, Zenon DEF T

(* An action other than a send.                                             *)
LEMMA OtherAction ==
  ASSUME NEW kind \in {"receive", "change", "search"}, NEW w \in Wallet,
         NEW a \in Account \cup Destination \cup {None}, NEW link \in Link,
         NEW by \in Caller \cup {None}
  PROVE  Action(kind, w, a, link, None, by) \in ActionType
BY Zenon DEF Action, ActionType

(* A send.                                                                  *)
LEMMA SendAction ==
  ASSUME NEW w \in Wallet, NEW a \in Account, NEW dest \in Destination,
         NEW id \in SendId \cup {None}, NEW by \in Caller \cup {None}
  PROVE  Action("send", w, a, dest, id, by) \in ActionType
BY Zenon DEF Action, ActionType, Link

(* The receives of a search are finitely many actions.                      *)
LEMMA SearchType ==
  ASSUME IInv, NEW w \in Wallet
  PROVE  SearchActions(w) \subseteq ActionType /\ IsFiniteSet(SearchActions(w))
<1> DEFINE S == {q \in receivable \cap confirmed :
                   find(w, q.account) /\ disk[w].keys[q.account] # WATCH}
           f == [r \in S |-> Action("receive", w, r.account, r.hash, None, None)]
<1>1. receivable \subseteq ReceivableType /\ IsFiniteSet(receivable)
  BY DEF IInv, TypeInv, LedgerTypes
<1>2. S \in SUBSET receivable
  BY Zenon
<1>3. SearchActions(w) = {f[r] : r \in S}
  BY Zenon DEF SearchActions
<1>4. \A r \in S : f[r] \in ActionType
  <2> SUFFICES ASSUME NEW r \in S PROVE f[r] \in ActionType
    BY Zenon
  <2>1. r.hash \in Link /\ r.account \in Account \cup Destination \cup {None}
    BY <1>1 DEF ReceivableType
  <2> QED
    BY <2>1, OtherAction, Zenon
<1> HIDE DEF S, f
<1>5. IsFiniteSet(S)
  BY <1>1, <1>2, FS_Subset
<1> QED
  BY <1>3, <1>4, <1>5, ImageFinite, SMTT(30)

(* The calls that queue one action.                                         *)
LEMMA CallQueues ==
  ASSUME IInv, ActionCall \/ \E w \in Wallet, p \in Password \cup {Empty} : enter_password(w, p)
  PROVE  QueueTypes'
<1>1. /\ queue \in [Priority -> Seq(ActionType)] /\ batch \in Seq(ActionType)
      /\ HIGH_PRIORITY \in Priority /\ GENERATE_PRIORITY \in Priority
  BY DEF IInv, TypeInv, QueueTypes, Priority
<1> SUFFICES queue' \in [Priority -> Seq(ActionType)] /\ batch' = batch
  BY <1>1 DEF QueueTypes
<1>2. ASSUME NEW p \in Priority, NEW x \in ActionType
      PROVE  queue_wallet_action(queue, p, <<x>>) \in [Priority -> Seq(ActionType)]
  <2>1. <<x>> \in Seq(ActionType)
    OBVIOUS
  <2> QED
    BY <1>1, <2>1, QueuedType, Zenon
<1>3. ASSUME NEW w \in Wallet, NEW p \in Password \cup {Empty}, enter_password(w, p)
      PROVE  queue' \in [Priority -> Seq(ActionType)] /\ batch' = batch
  <2>1. Action("search", w, None, None, None, None) \in ActionType
    BY OtherAction, Zenon DEF Link
  <2> QED
    BY <1>1, <1>2, <1>3, <2>1, Zenon DEF enter_password
<1>4. CASE ActionCall
  <2>1. PICK w \in Wallet, c \in Caller :
          \/ set_representative(w)
          \/ \E r \in receivable :
                \/ receive_sync(c, w, r)
                \/ Direct(c, Action("receive", w, r.account, r.hash, None, c))
          \/ \E a \in Account :
                \/ Direct(c, Action("change", w, a, None, None, c))
                \/ \E dest \in Destination \ {a}, id \in SendId \cup {None} :
                      \/ send_async(w, a, dest, id)
                      \/ send_sync(c, w, a, dest, id)
                      \/ Direct(c, Action("send", w, a, dest, id, c))
    BY <1>4, Zenon DEF ActionCall
  <2>2. CASE set_representative(w)
    <3> DEFINE known == {a \in DOMAIN disk[w].keys : chain[a] # <<>>}
               f == [a \in known |-> Action("change", w, a, None, None, None)]
               S == {f[a] : a \in known}
    <3>1. w \in DOMAIN loaded /\ batch' = batch
            /\ queue' = queue_wallet_action(queue, HIGH_PRIORITY, AnyOrder(S))
      BY <2>2, Zenon DEF set_representative, Open
    <3>2. known \in SUBSET Account
      <4>1. disk[w] \in Store
        BY <3>1, OpenStore, Zenon
      <4>2. DOMAIN disk[w].keys \subseteq Account
        BY <4>1, Zenon DEF Store
      <4> QED
        BY <4>2
    <3>3. \A a \in known : f[a] \in ActionType
      BY <3>2, OtherAction, Zenon DEF Link
    <3> HIDE DEF known, f
    <3>4. IsFiniteSet(known)
      BY <3>2, FS_Subset, WalletAssumption, Zenon
    <3>5. S \in SUBSET ActionType /\ IsFiniteSet(S)
      BY <3>3, <3>4, ImageFinite, Zenon
    <3> HIDE DEF S
    <3> QED
      BY <1>1, <3>1, <3>5, QueuedSetType, Zenon
  <2>3. ASSUME NEW r \in receivable, receive_sync(c, w, r)
        PROVE  queue' \in [Priority -> Seq(ActionType)] /\ batch' = batch
    <3>1. r.hash \in Link /\ r.account \in Account \cup Destination \cup {None}
      BY Zenon DEF IInv, TypeInv, LedgerTypes, ReceivableType
    <3>2. Action("receive", w, r.account, r.hash, None, c) \in ActionType
      BY <3>1, OtherAction
    <3> QED
      BY <1>1, <1>2, <2>3, <3>2, Zenon DEF receive_sync
  <2>4. ASSUME NEW x, Direct(c, x) PROVE queue' = queue /\ batch' = batch
    BY <2>4, Zenon DEF Direct
  <2>5. ASSUME NEW a \in Account, NEW dest \in Destination, NEW id \in SendId \cup {None},
               send_async(w, a, dest, id) \/ send_sync(c, w, a, dest, id)
        PROVE  queue' \in [Priority -> Seq(ActionType)] /\ batch' = batch
    <3>1. /\ Action("send", w, a, dest, id, None) \in ActionType
          /\ Action("send", w, a, dest, id, c) \in ActionType
      BY SendAction
    <3>2. \/ queue' = queue
          \/ queue' = queue_wallet_action(queue, HIGH_PRIORITY,
                        <<Action("send", w, a, dest, id, None)>>)
          \/ queue' = queue_wallet_action(queue, HIGH_PRIORITY,
                        <<Action("send", w, a, dest, id, c)>>)
      BY <2>5, Zenon DEF send_async, send_sync
    <3>3. batch' = batch
      BY <2>5, Zenon DEF send_async, send_sync
    <3> QED
      BY <1>1, <1>2, <3>1, <3>2, <3>3, Zenon
  <2> QED
    BY <1>1, <2>1, <2>2, <2>3, <2>4, <2>5, Zenon
<1> QED
  BY <1>3, <1>4

(* What the node itself queues: searches and receives of what arrived.      *)
LEMMA NodeQueues ==
  ASSUME IInv, Restart \/ PeriodicSearch \/ \E r \in tasks : receive_confirmed(r)
  PROVE  QueueTypes'
<1>1. /\ queue \in [Priority -> Seq(ActionType)] /\ batch \in Seq(ActionType)
      /\ HIGH_PRIORITY \in Priority /\ RECEIVE_PRIORITY \in Priority
  BY DEF IInv, TypeInv, QueueTypes, Priority
<1>2. CASE Restart
  <2> DEFINE unlocked == {w \in {v \in Wallet : live(v)} : disk[w].wrapped = Empty}
             f == [w \in unlocked |-> Action("search", w, None, None, None, None)]
             S == {f[w] : w \in unlocked}
             none == [p \in Priority |-> <<>>]
  <2>1. queue' = queue_wallet_action(none, HIGH_PRIORITY, AnyOrder(S)) /\ batch' = <<>>
    BY <1>2, Zenon DEF Restart
  <2>2. unlocked \in SUBSET Wallet /\ \A w \in unlocked : f[w] \in ActionType
    BY OtherAction, Zenon DEF Link
  <2>3. none \in [Priority -> Seq(ActionType)] /\ <<>> \in Seq(ActionType)
    OBVIOUS
  <2> HIDE DEF unlocked, f, none
  <2>4. IsFiniteSet(unlocked)
    BY <2>2, FS_Subset, WalletAssumption, Zenon
  <2>5. S \in SUBSET ActionType /\ IsFiniteSet(S)
    BY <2>2, <2>4, ImageFinite
  <2> HIDE DEF S
  <2> QED
    BY <1>1, <2>1, <2>3, <2>5, QueuedSetType, Zenon DEF QueueTypes
<1>3. CASE PeriodicSearch
  <2> DEFINE onDisk == {w \in Wallet : live(w)}
             now == [w \in onDisk |-> IF w \in DOMAIN loaded THEN loaded[w] ELSE Zero]
             W == {v \in onDisk : now[v] = disk[v].wrapped}
             f == [w \in W |-> SearchActions(w)]
             S == UNION {f[w] : w \in W}
  <2>1. queue' = queue_wallet_action(queue, RECEIVE_PRIORITY, AnyOrder(S)) /\ batch' = batch
    BY <1>3, Zenon DEF PeriodicSearch
  <2>2. W \in SUBSET Wallet
    BY Zenon
  <2>3. \A w \in W : f[w] \subseteq ActionType /\ IsFiniteSet(f[w])
    BY <2>2, SearchType, Zenon
  <2> HIDE DEF W, f
  <2>4. IsFiniteSet({f[w] : w \in W})
    <3>1. IsFiniteSet(W)
      BY <2>2, FS_Subset, WalletAssumption, Zenon
    <3> QED
      BY <3>1, ImageFinite, Zenon
  <2>5. S \in SUBSET ActionType /\ IsFiniteSet(S)
    BY <2>3, <2>4, FS_UNION, Zenon
  <2> HIDE DEF S
  <2> QED
    BY <1>1, <2>1, <2>5, QueuedSetType, Zenon DEF QueueTypes
<1>4. ASSUME NEW r \in tasks, receive_confirmed(r) PROVE QueueTypes'
  <2> DEFINE holders == {w \in DOMAIN loaded : find(w, r.account) /\ r \in receivable}
             f == [w \in holders |-> Action("receive", w, r.account, r.hash, None, None)]
             S == {f[w] : w \in holders}
  <2>1. queue' = queue_wallet_action(queue, RECEIVE_PRIORITY, AnyOrder(S)) /\ batch' = batch
    BY <1>4, Zenon DEF receive_confirmed
  <2>2. holders \in SUBSET Wallet
    BY OpenStore, Zenon
  <2>3. r.hash \in Link /\ r.account \in Account \cup Destination \cup {None}
    BY DEF IInv, TypeInv, LedgerTypes, ReceivableType
  <2>4. \A w \in holders : f[w] \in ActionType
    BY <2>2, <2>3, OtherAction
  <2> HIDE DEF holders, f
  <2>5. IsFiniteSet(holders)
    BY <2>2, FS_Subset, WalletAssumption
  <2>6. S \in SUBSET ActionType /\ IsFiniteSet(S)
    BY <2>4, <2>5, ImageFinite
  <2> HIDE DEF S
  <2> QED
    BY <1>1, <2>1, <2>6, QueuedSetType, Zenon DEF QueueTypes
<1> QED
  BY <1>2, <1>3, <1>4

(* Every step keeps the queue and the batch sequences of actions.           *)
LEMMA QueueStep ==
  ASSUME IInv, [Next]_vars
  PROVE  QueueTypes'
<1>1. /\ queue \in [Priority -> Seq(ActionType)] /\ batch \in Seq(ActionType)
      /\ RECEIVE_PRIORITY \in Priority
  BY DEF IInv, TypeInv, QueueTypes, Priority
<1>2. ASSUME queue' = queue, batch' = batch PROVE QueueTypes'
  BY <1>1, <1>2 DEF QueueTypes
<1>3. CASE StoreCall
  <2>1. ASSUME NEW w, NEW store, UpdateStore(w, store) PROVE queue' = queue /\ batch' = batch
    BY <2>1 DEF UpdateStore, threadVars
  <2>2. StoreCall => \/ \E w \in Wallet, p \in Password \cup {Empty} : enter_password(w, p)
                     \/ queue' = queue /\ batch' = batch
    BY <2>1, ZenonT(30) DEF StoreCall, create, change_seed, import, destroy, deterministic_insert2, lock,
                deterministic_insert_at, insert_adhoc2, insert_watch, remove_key, move_accounts,
                rekey, threadVars
  <2> QED
    BY <1>2, <1>3, <2>2, CallQueues
<1>4. CASE stop
  <2>1. <<>> \in Seq(ActionType)
    OBVIOUS
  <2> QED
    BY <1>1, <1>4, <2>1 DEF stop, QueueTypes
<1>5. CASE do_wallet_actions
  <2>1. CASE batch = <<>> /\ ~QueueEmpty /\ batch' = queue[pop_first]
               /\ queue' = [queue EXCEPT ![pop_first] = <<>>]
    <3>1. pop_first \in Priority
      <4>1. \E p \in Priority : queue[p] # <<>> /\ \A r \in Priority : queue[r] # <<>> => p <= r
        BY <2>1 DEF QueueEmpty, Priority, RECEIVE_PRIORITY, HIGH_PRIORITY, GENERATE_PRIORITY
      <4> QED
        BY <4>1 DEF pop_first
    <3>2. <<>> \in Seq(ActionType)
      OBVIOUS
    <3> QED
      BY <1>1, <2>1, <3>1, <3>2 DEF QueueTypes
  <2>2. CASE batch # <<>> /\ batch' = Tail(batch) /\ queue' = queue
    BY <1>1, <2>2 DEF QueueTypes
  <2> QED
    BY <1>5, <2>1, <2>2, Zenon DEF do_wallet_actions
<1>6. ASSUME NEW t \in DOMAIN doing, Prepare(t) PROVE QueueTypes'
  <2>1. batch' = batch
    BY <1>6, Zenon DEF Prepare
  <2>2. \/ queue' = queue
        \/ /\ doing[t].pc = "prepare" /\ doing[t].act.kind = "search"
           /\ queue' = search_receivable(queue, doing[t].act.wallet)
    BY <1>6, Zenon DEF Prepare
  <2>3. CASE /\ doing[t].pc = "prepare" /\ queue' = search_receivable(queue, doing[t].act.wallet)
    <3> DEFINE w == doing[t].act.wallet
    <3>1. doing[t] \in JobType /\ doing[t].pc = "prepare"
      BY <2>3 DEF IInv, TypeInv, JobTypes
    <3>2. w \in Wallet
      BY <3>1, SMTT(30) DEF JobType, Idle, Dead, ActionType
    <3>3. SearchActions(w) \in SUBSET ActionType /\ IsFiniteSet(SearchActions(w))
      BY <3>2, SearchType
    <3> HIDE DEF w
    <3>4. queue_wallet_action(queue, RECEIVE_PRIORITY, AnyOrder(SearchActions(w)))
             \in [Priority -> Seq(ActionType)]
      BY <1>1, <3>3, QueuedSetType, Zenon
    <3> QED
      BY <1>1, <2>1, <2>3, <3>4, Zenon DEF w, search_receivable, QueueTypes
  <2> QED
    BY <1>2, <2>1, <2>2, <2>3, Zenon
<1>7. ASSUME NEW t, action_complete(t) PROVE QueueTypes'
  BY <1>2, <1>7, Zenon DEF action_complete
<1>8. ASSUME NEW r, Arrive(r) \/ Cement(r) PROVE QueueTypes'
  BY <1>2, <1>8, Zenon DEF Arrive, Cement, threadVars
<1>9. CASE UNCHANGED vars
  BY <1>2, <1>9, Zenon DEF vars, threadVars
<1> QED
  BY <1>3, <1>4, <1>5, <1>6, <1>7, <1>8, <1>9, CallQueues, NodeQueues DEF Next

----------------------------------------------------------------------------
(* Blocks, jobs and ids                                                     *)

(* What a thread that prepares or waits is at.                              *)
LEMMA JobAct ==
  ASSUME IInv, NEW t \in DOMAIN doing
  PROVE  /\ t \in Caller \cup {Thread}
         /\ doing[t].pc = "prepare" => doing[t].act \in ActionType
         /\ doing[t].pc = "wait" => doing[t].act \in ActionType /\ doing[t].block \in AnyBlock
<1>1. t \in Caller \cup {Thread} /\ doing[t] \in JobType
  BY DEF IInv, TypeInv, JobTypes
<1> QED
  BY <1>1, SMTT(30) DEF JobType, Idle, Dead

(* Every step keeps the types of the ledger and of what waits in it.        *)
LEMMA LedgerStep ==
  ASSUME IInv, [Next]_vars
  PROVE  LedgerTypes'
<1>1. LedgerTypes
  BY DEF IInv, TypeInv
<1>2. ASSUME chain' = chain, receivable' = receivable, tasks' \subseteq tasks PROVE LedgerTypes'
  BY <1>1, <1>2 DEF LedgerTypes
<1>3. CASE StoreCall
  BY <1>2, <1>3, StoreCallFrame, Zenon DEF ledgerVars
<1>4. CASE ActionCall
  BY <1>2, <1>4, ActionCallFrame DEF ledgerVars
<1>5. CASE stop \/ Restart \/ do_wallet_actions \/ PeriodicSearch \/ UNCHANGED vars
  BY <1>2, <1>5, Zenon DEF stop, Restart, do_wallet_actions, PeriodicSearch, ledgerVars, vars
<1>6. ASSUME NEW t \in DOMAIN doing, Prepare(t) PROVE LedgerTypes'
  BY <1>2, <1>6, Zenon DEF Prepare, ledgerVars
<1>7. ASSUME NEW t \in DOMAIN doing, action_complete(t) PROVE LedgerTypes'
  <2> DEFINE b == doing[t].block
  <2>1. b \in AnyBlock /\ tasks' = tasks
    BY <1>7, JobAct, Zenon DEF action_complete
  <2>2. CASE ~Acceptable(b)
    BY <1>2, <1>7, <2>1, <2>2 DEF action_complete
  <2>3. CASE Acceptable(b)
    <3>1. /\ chain' = [chain EXCEPT ![b.account] = Append(@, b)]
          /\ receivable' =
               CASE b.kind = "send" -> receivable \cup {[hash |-> Hash(b), account |-> b.link]}
                 [] b.kind = "receive" -> receivable \ {[hash |-> b.link, account |-> b.account]}
                 [] OTHER -> receivable
      BY <1>7, <2>3, Zenon DEF action_complete
    <3> HIDE DEF b
    <3>2. b.account \in Account /\ b.kind \in {"send", "receive", "change"}
      BY <2>1, Zenon DEF AnyBlock, SendBlock
    <3>3. chain' \in [Account -> Seq(AnyBlock)]
      <4>1. Append(chain[b.account], b) \in Seq(AnyBlock)
        BY <1>1, <2>1, <3>2 DEF LedgerTypes
      <4> QED
        BY <1>1, <3>1, <3>2, <4>1 DEF LedgerTypes
    <3>4. CASE b.kind = "send"
      <4>1. b \in SendBlock
        BY <2>1, <3>4 DEF AnyBlock
      <4>2. [hash |-> Hash(b), account |-> b.link] \in ReceivableType
        BY <4>1, Zenon DEF ReceivableType, Hash, Link, SendBlock
      <4>3. receivable' = receivable \cup {[hash |-> Hash(b), account |-> b.link]}
        BY <3>1, <3>4
      <4>4. IsFiniteSet(receivable')
        BY <1>1, <4>3, FS_AddElement, Zenon DEF LedgerTypes
      <4> QED
        BY <1>1, <2>1, <3>3, <4>2, <4>3, <4>4, Zenon DEF LedgerTypes
    <3>5. CASE b.kind = "receive"
      <4>1. receivable' = receivable \ {[hash |-> b.link, account |-> b.account]}
        BY <3>1, <3>5
      <4>2. IsFiniteSet(receivable')
        BY <1>1, <4>1, FS_RemoveElement, Zenon DEF LedgerTypes
      <4> QED
        BY <1>1, <2>1, <3>3, <4>1, <4>2 DEF LedgerTypes
    <3>6. CASE b.kind = "change"
      BY <1>1, <2>1, <3>1, <3>3, <3>6 DEF LedgerTypes
    <3> QED
      BY <3>2, <3>4, <3>5, <3>6
  <2> QED
    BY <2>2, <2>3
<1>8. ASSUME NEW r, Arrive(r) PROVE LedgerTypes'
  <2>1. r \in External /\ receivable' = receivable \cup {r} /\ chain' = chain /\ tasks' = tasks
    BY <1>8, Zenon DEF Arrive
  <2>2. r \in ReceivableType
    BY <2>1, WalletAssumption DEF ReceivableType, Link
  <2>3. IsFiniteSet(receivable')
    BY <1>1, <2>1, FS_AddElement DEF LedgerTypes
  <2> QED
    BY <1>1, <2>1, <2>2, <2>3 DEF LedgerTypes
<1>9. ASSUME NEW r, Cement(r) PROVE LedgerTypes'
  BY <1>1, <1>9 DEF Cement, LedgerTypes
<1>10. ASSUME NEW r, receive_confirmed(r) PROVE LedgerTypes'
  BY <1>2, <1>10, Zenon DEF receive_confirmed
<1> QED
  BY <1>3, <1>4, <1>5, <1>6, <1>7, <1>8, <1>9, <1>10, Zenon DEF Next

(* The next block of an account of the wallets.                             *)
LEMMA BlockType ==
  ASSUME IInv, NEW a \in Account
  PROVE  /\ \A dest \in Destination : Block(a, "send", dest) \in SendBlock
         /\ \A kind \in {"receive", "change"}, link \in Link : Block(a, kind, link) \in AnyBlock
<1>1. Len(chain[a]) + 1 \in Nat
  BY DEF IInv, TypeInv, LedgerTypes
<1> QED
  BY <1>1, Zenon DEF Block, SendBlock, AnyBlock

(* A key can be read only for an account of a wallet.                       *)
LEMMA FetchedAccount ==
  ASSUME IInv, NEW w \in Wallet, live(w), NEW a, find(w, a)
  PROVE  a \in Account
<1>1. disk[w] \in Store
  BY DEF live, IInv, TypeInv, StoreTypes
<1> QED
  BY <1>1, Zenon DEF find, Store

(* However a job ends or goes on, it is one of the jobs.                    *)
LEMMA JobReplaced ==
  ASSUME IInv, NEW t \in DOMAIN doing, NEW act \in ActionType
  PROVE  /\ Ended(t, act) => JobTypes'
         /\ Panic(t) => JobTypes'
         /\ \A b \in AnyBlock : Submit(t, act, b) => JobTypes'
<1>1. doing \in [Caller \cup {Thread} -> JobType] /\ Idle \in JobType /\ Dead \in JobType
  BY Zenon DEF IInv, TypeInv, JobTypes, JobType
<1>2. Ended(t, act) => JobTypes'
  BY <1>1 DEF Ended, JobTypes
<1>3. Panic(t) => JobTypes'
  BY <1>1 DEF Panic, JobTypes
<1>4. ASSUME NEW b \in AnyBlock, Submit(t, act, b) PROVE JobTypes'
  <2>1. [pc |-> "wait", act |-> act, block |-> b] \in JobType
    BY Zenon DEF JobType
  <2> QED
    BY <1>1, <1>4, <2>1, Zenon DEF Submit, JobTypes
<1> QED
  BY <1>2, <1>3, <1>4, Zenon

(* The one step that makes a block: the block goes to the account the       *)
(* action is for, and a send with an id is stored under it.                 *)
LEMMA PrepareStep ==
  ASSUME IInv, NEW t \in DOMAIN doing, Prepare(t)
  PROVE  JobTypes' /\ IdTypes' /\ IdsBind'
<1> DEFINE act == doing[t].act
<1>1. act \in ActionType
  BY JobAct, Zenon DEF Prepare
<1>2. act.wallet \in Wallet /\ act.link \in Link
  BY <1>1, Zenon DEF ActionType
<1>3. IdTypes /\ IdsBind
  BY DEF IInv, TypeInv
<1>4. ASSUME UNCHANGED <<sendIds, made>> PROVE IdTypes' /\ IdsBind'
  BY <1>3, <1>4 DEF IdTypes, IdsBind
<1>5. CASE ~live(act.wallet)
  BY <1>1, <1>4, <1>5, JobReplaced, ZenonT(30) DEF Prepare
<1>6. CASE live(act.wallet) /\ act.kind = "search" /\ Ended(t, act) /\ UNCHANGED <<sendIds, made>>
  BY <1>1, <1>4, <1>6, JobReplaced, ZenonT(30)
<1>7. CASE live(act.wallet) /\ receive_action(t, act)
  <2> HIDE DEF act
  <2>1. UNCHANGED <<sendIds, made>>
    BY <1>7, Zenon DEF receive_action
  <2>2. CASE Ended(t, act)
    BY <1>1, <1>4, <2>1, <2>2, JobReplaced
  <2>3. CASE fetch(act.wallet, act.account) /\ Submit(t, act, Block(act.account, "receive", act.link))
    <3>1. act.account \in Account
      BY <1>2, <1>7, <2>3, FetchedAccount, Zenon DEF fetch, HasKey, find
    <3>2. Block(act.account, "receive", act.link) \in AnyBlock
      BY <1>2, <3>1, BlockType, Zenon
    <3> QED
      BY <1>1, <1>4, <2>1, <2>3, <3>2, JobReplaced, Zenon
  <2> QED
    BY <1>7, <2>2, <2>3, Zenon DEF receive_action
<1>8. CASE live(act.wallet) /\ change_action(t, act)
  <2> HIDE DEF act
  <2>1. UNCHANGED <<sendIds, made>>
    BY <1>8, Zenon DEF change_action
  <2>2. CASE Ended(t, act) \/ Panic(t)
    BY <1>1, <1>4, <2>1, <2>2, JobReplaced, Zenon
  <2>3. CASE find(act.wallet, act.account) /\ Submit(t, act, Block(act.account, "change", None))
    <3>1. act.account \in Account /\ None \in Link
      BY <1>2, <1>8, <2>3, FetchedAccount, Zenon DEF Link
    <3>2. Block(act.account, "change", None) \in AnyBlock
      BY <3>1, BlockType, Zenon
    <3> QED
      BY <1>1, <1>4, <2>1, <2>3, <3>2, JobReplaced, Zenon
  <2> QED
    BY <1>8, <2>2, <2>3, Zenon DEF change_action
<1>9. CASE live(act.wallet) /\ act.kind = "send" /\ send_action(t, act)
  <2> HIDE DEF act
  <2> DEFINE b == Block(act.account, "send", act.link)
  <2>1. act.account \in Account /\ act.link \in Destination /\ act.id \in SendId \cup {None}
    BY <1>1, <1>9, Zenon DEF ActionType
  <2>2. b \in SendBlock /\ b \in AnyBlock /\ b # None
    BY <2>1, BlockType, WalletAssumption, SMTT(30) DEF AnyBlock
  <2>3. CASE (Ended(t, act) \/ Panic(t)) /\ UNCHANGED <<sendIds, made>>
    BY <1>1, <1>4, <2>3, JobReplaced, Zenon
  <2>4. CASE Submit(t, act, b) /\ UNCHANGED <<sendIds, made>>
    BY <1>1, <1>4, <2>2, <2>4, JobReplaced, Zenon
  <2>5. CASE /\ StoredFor(act) = None /\ act.id # None /\ Submit(t, act, b)
             /\ sendIds' = [sendIds EXCEPT ![act.id] = b]
             /\ made' = [made EXCEPT ![act.id] = @ \cup {b}]
    <3>1. act.id \in SendId /\ sendIds[act.id] = None
      BY <2>1, <2>5, Zenon DEF StoredFor
    <3> HIDE DEF b
    <3>2. made[act.id] = {}
      BY <1>3, <3>1, Zenon DEF IdsBind
    <3>3. IdTypes'
      BY <1>3, <2>2, <2>5, <3>1, Zenon DEF IdTypes
    <3>4. made'[act.id] = {b} /\ sendIds'[act.id] = b
      BY <1>3, <2>5, <3>1, <3>2, Zenon DEF IdTypes
    <3>5. ASSUME NEW i \in SendId, i # act.id
          PROVE  made'[i] = made[i] /\ sendIds'[i] = sendIds[i]
      BY <1>3, <2>5, <3>5, Zenon DEF IdTypes
    <3>6. IdsBind'
      BY <1>3, <2>2, <3>4, <3>5, Zenon DEF IdsBind
    <3> QED
      BY <1>1, <2>2, <2>5, <3>3, <3>6, JobReplaced, Zenon
  <2> QED
    BY <1>9, <2>3, <2>4, <2>5, Zenon DEF send_action, Hash
<1> QED
  BY <1>5, <1>6, <1>7, <1>8, <1>9, ZenonT(30) DEF Prepare

(* Every step keeps the jobs, the ids and what was made for them.           *)
LEMMA JobStep ==
  ASSUME IInv, [Next]_vars
  PROVE  JobTypes' /\ IdTypes' /\ IdsBind'
<1>1. doing \in [Caller \cup {Thread} -> JobType] /\ Idle \in JobType /\ batch \in Seq(ActionType)
  BY Zenon DEF IInv, TypeInv, JobTypes, JobType, QueueTypes
<1>2. ASSUME UNCHANGED <<sendIds, made>> PROVE IdTypes' /\ IdsBind'
  BY <1>2, Zenon DEF IInv, TypeInv, IdTypes, IdsBind
<1>3. ASSUME doing' = doing, UNCHANGED <<sendIds, made>> PROVE JobTypes' /\ IdTypes' /\ IdsBind'
  BY <1>1, <1>2, <1>3 DEF JobTypes
<1>4. CASE StoreCall
  BY <1>3, <1>4, StoreCallFrame, Zenon
<1>5. CASE ActionCall
  <2>1. UNCHANGED <<sendIds, made>>
    BY <1>5, ActionCallFrame DEF storeVars
  <2>2. ASSUME NEW c \in Caller, NEW x \in ActionType, Direct(c, x) PROVE JobTypes'
    <3>1. [pc |-> "prepare", act |-> x] \in JobType
      BY Zenon DEF JobType
    <3> QED
      BY <1>1, <2>2, <3>1, Zenon DEF Direct, JobTypes
  <2>3. ASSUME NEW c \in Caller, NEW w \in Wallet,
               doing' = doing \/ doing' = [doing EXCEPT ![c] = [pc |-> "sync", wallet |-> w]]
        PROVE  JobTypes'
    <3>1. [pc |-> "sync", wallet |-> w] \in JobType
      BY Zenon DEF JobType
    <3> QED
      BY <1>1, <2>3, <3>1, Zenon DEF JobTypes
  <2>4. PICK w \in Wallet, c \in Caller :
          \/ set_representative(w)
          \/ \E r \in receivable :
                \/ receive_sync(c, w, r)
                \/ Direct(c, Action("receive", w, r.account, r.hash, None, c))
          \/ \E a \in Account :
                \/ Direct(c, Action("change", w, a, None, None, c))
                \/ \E dest \in Destination \ {a}, id \in SendId \cup {None} :
                      \/ send_async(w, a, dest, id)
                      \/ send_sync(c, w, a, dest, id)
                      \/ Direct(c, Action("send", w, a, dest, id, c))
    BY <1>5, Zenon DEF ActionCall
  <2>5. ASSUME NEW r \in receivable
        PROVE  Action("receive", w, r.account, r.hash, None, c) \in ActionType
    <3>1. r.hash \in Link /\ r.account \in Account \cup Destination \cup {None}
      BY DEF IInv, TypeInv, LedgerTypes, ReceivableType
    <3> QED
      BY <3>1, OtherAction, Zenon
  <2>6. \A a \in Account : Action("change", w, a, None, None, c) \in ActionType
    BY OtherAction, Zenon DEF Link
  <2>7. \A a \in Account, dest \in Destination, id \in SendId \cup {None} :
           Action("send", w, a, dest, id, c) \in ActionType
    BY SendAction
  <2>8. ASSUME \/ set_representative(w) \/ \E r : receive_sync(c, w, r)
               \/ \E a, dest, id : send_async(w, a, dest, id) \/ send_sync(c, w, a, dest, id)
        PROVE  JobTypes'
    BY <2>3, <2>8, Zenon DEF set_representative, receive_sync, send_async, send_sync
  <2>9. JobTypes'
    BY <2>2, <2>4, <2>5, <2>6, <2>7, <2>8, Zenon
  <2> QED
    BY <1>2, <2>1, <2>9, Zenon
<1>6. CASE Restart
  <2>1. doing' = [t \in DOMAIN doing |-> Idle] /\ UNCHANGED <<sendIds, made>>
    BY <1>6, Zenon DEF Restart
  <2>2. JobTypes'
    BY <1>1, <2>1 DEF JobTypes
  <2> QED
    BY <1>2, <2>1, <2>2
<1>7. CASE do_wallet_actions
  <2>1. UNCHANGED <<sendIds, made>>
    BY <1>7, Zenon DEF do_wallet_actions, storeVars
  <2>2. CASE doing' = doing
    BY <1>3, <2>1, <2>2, Zenon
  <2>3. CASE batch # <<>> /\ doing' = [doing EXCEPT ![Thread] = [pc |-> "prepare", act |-> Head(batch)]]
    <3>1. Head(batch) \in ActionType
      BY <1>1, <2>3, SMTT(30)
    <3>2. [pc |-> "prepare", act |-> Head(batch)] \in JobType
      BY <3>1, Zenon DEF JobType
    <3>3. JobTypes'
      BY <1>1, <2>3, <3>2, Zenon DEF JobTypes
    <3> QED
      BY <1>2, <2>1, <3>3, Zenon
  <2> QED
    BY <1>7, <2>2, <2>3, ZenonT(30) DEF do_wallet_actions
<1>8. ASSUME NEW t \in DOMAIN doing, action_complete(t) PROVE JobTypes' /\ IdTypes' /\ IdsBind'
  <2>1. Ended(t, doing[t].act) /\ UNCHANGED <<sendIds, made>> /\ doing[t].act \in ActionType
    BY <1>8, JobAct, Zenon DEF action_complete, storeVars
  <2> QED
    BY <1>2, <2>1, JobReplaced, Zenon
<1>9. ASSUME stop \/ PeriodicSearch \/ UNCHANGED vars \/ \E r : Arrive(r) \/ Cement(r) \/ receive_confirmed(r)
      PROVE  JobTypes' /\ IdTypes' /\ IdsBind'
  BY <1>3, <1>9, Zenon DEF stop, PeriodicSearch, Arrive, Cement, receive_confirmed, vars, storeVars,
                    threadVars
<1> QED
  BY <1>4, <1>5, <1>6, <1>7, <1>8, <1>9, PrepareStep, Zenon DEF Next

----------------------------------------------------------------------------
(* The theorems                                                             *)

(* The invariant holds at the start: nothing is queued and no id is stored. *)
LEMMA InvInit ==
  ASSUME Init
  PROVE  IInv
<1> DEFINE W == {v \in Wallet : InitStore[v] # Fresh}
<1>1. disk = InitStore /\ loaded = [w \in W |-> InitStore[w].wrapped]
  BY Zenon DEF Init
<1>2. InitStore \in [Wallet -> Store \cup {Fresh}]
  BY WalletAssumption, Zenon
<1>3. ASSUME NEW w \in W PROVE InitStore[w] \in Store /\ InitStore[w].wrapped \in Password \cup {Zero, Empty}
  BY <1>2, Zenon DEF Store
<1>4. loaded \in [W -> Password \cup {Zero, Empty}]
  BY <1>1, <1>3, Zenon
<1>5. StoreTypes
  BY <1>1, <1>2, <1>4, Zenon DEF StoreTypes, Memory
<1>6. LoadedLive
  BY <1>1, <1>3, StoreIsLive, Zenon DEF LoadedLive, live
<1>7. LedgerTypes
  BY FS_EmptySet, WalletAssumption, Zenon DEF Init, LedgerTypes
<1>8. QueueTypes /\ IdTypes /\ JobTypes /\ IdsBind
  BY SMTT(30) DEF Init, QueueTypes, IdTypes, JobTypes, JobType, IdsBind
<1> QED
  BY <1>5, <1>6, <1>7, <1>8, Zenon DEF IInv, TypeInv

(* The invariant holds in every state.                                      *)
LEMMA InvAlways == Spec => []IInv
<1>1. IInv /\ [Next]_vars => IInv'
  BY StoreStep, QueueStep, LedgerStep, JobStep, Zenon DEF StoresKept, IInv, TypeInv
<1> QED
  BY <1>1, InvInit, PTL DEF Spec

(* At most one block made for an id reaches the ledger, whichever threads   *)
(* run the send, however often it is asked for and wherever the node stops  *)
(* in between: at most one is ever made.                                    *)
THEOREM SentOnce == Spec => []OneSendPerId
<1>1. IInv => OneSendPerId
  <2> SUFFICES ASSUME IInv, NEW i \in SendId
               PROVE  Cardinality({b \in made[i] : InLedger(b)}) <= 1
    BY Zenon DEF OneSendPerId
  <2> DEFINE S == {b \in made[i] : InLedger(b)}
  <2>1. S = {} \/ \E x : S = {x}
    BY Zenon DEF IInv, IdsBind
  <2> HIDE DEF S
  <2>2. S = {} => Cardinality(S) = 0
    BY FS_EmptySet, Zenon
  <2>3. (\E x : S = {x}) => Cardinality(S) = 1
    BY FS_Singleton, Zenon
  <2>4. Cardinality(S) = 0 \/ Cardinality(S) = 1
    BY <2>1, <2>2, <2>3, Zenon
  <2>5. Cardinality(S) <= 1
    BY <2>4
  <2> QED
    BY <2>5, Zenon DEF S
<1> QED
  BY <1>1, InvAlways, PTL

(* A private key leaves the disk only when a user removes it, destroys its  *)
(* wallet, watches the account, changes the seed it derives from or moves   *)
(* it to the wallet it is in, for every set of wallets, seeds and keys.     *)
THEOREM KeysAreKept == Spec => KeysKept
<1>1. IInv /\ [Next]_vars => [\A a \in Account : Held(a) /\ ~Held(a)' => KeyTaken(a)]_vars
  BY StoreStep, Zenon DEF StoresKept
<1> QED
  BY <1>1, InvAlways, PTL DEF Spec, KeysKept
=============================================================================
