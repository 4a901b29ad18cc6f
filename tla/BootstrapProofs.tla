--------------------------- MODULE BootstrapProofs ---------------------------
(****************************************************************************)
(* The account sets stay disjoint, and no account stays blocked on a block  *)
(* that is there, for every ledger of the peer, every bound of the sets and *)
(* every batch.                                                             *)
(****************************************************************************)
EXTENDS BootstrapAscending, SequenceTheorems, TLAPS

EntryOK(e) ==
  /\ e = [priority |-> e.priority, ready |-> e.ready, rank |-> e.rank]
  /\ e.priority \in Nat

PriosOK(f) ==
  /\ f = [a \in DOMAIN f |-> f[a]]
  /\ \A a \in DOMAIN f : EntryOK(f[a])

BlockingOK(f) ==
  /\ f = [a \in DOMAIN f |-> f[a]]
  /\ \A a \in DOMAIN f :
       /\ f[a] = [dependency |-> f[a].dependency, account |-> f[a].account,
                  entry |-> f[a].entry, rank |-> f[a].rank]
       /\ EntryOK(f[a].entry)

SetsOK(s) ==
  /\ s = [prios |-> s.prios, blocking |-> s.blocking, config |-> s.config]
  /\ PriosOK(s.prios)
  /\ BlockingOK(s.blocking)
  /\ Disjoint(s)

(* f holds no account that g does not, each with the dependency it has in g.*)
Within(f, g) ==
  /\ DOMAIN f \subseteq DOMAIN g
  /\ \A a \in DOMAIN f : f[a].dependency = g[a].dependency

(* Keeps(t, s): t is well formed and blocks no account that s does not. *)
Keeps(t, s) == SetsOK(t) /\ Within(t.blocking, s.blocking)

----------------------------------------------------------------------------
(* Removing, inserting and trimming keep the entries well formed.           *)

(* An account leaves the priorities; the others stay.                       *)
LEMMA RemovePrios ==
    ASSUME NEW f, PriosOK(f), NEW a
    PROVE  /\ PriosOK(RemoveKey(f, a))
           /\ DOMAIN RemoveKey(f, a) = DOMAIN f \ {a}
<1>1. ASSUME NEW b \in DOMAIN f, NEW r
      PROVE  EntryOK([f[b] EXCEPT !.rank = r])
  BY DEF PriosOK, EntryOK
<1>2. CASE a \in DOMAIN f
  <2> DEFINE g == Without(f, a)
  <2>1. DOMAIN g = DOMAIN f \ {a} /\ g = [b \in DOMAIN g |-> g[b]]
    BY DEF Without
  <2>2. ASSUME NEW b \in DOMAIN g PROVE EntryOK(g[b])
    <3>1. g[b] = f[b] \/ g[b] = [f[b] EXCEPT !.rank = @ - 1]
      BY DEF Without
    <3> QED
      BY <3>1, <2>1, <1>1 DEF PriosOK
  <2> QED
    BY <1>2, <2>1, <2>2 DEF RemoveKey, PriosOK
<1>3. CASE a \notin DOMAIN f
  BY <1>3 DEF RemoveKey
<1> QED
  BY <1>2, <1>3

(* An account leaves the blocked ones; the others stay.                     *)
LEMMA RemoveBlocking ==
    ASSUME NEW f, BlockingOK(f), NEW a
    PROVE  /\ BlockingOK(RemoveKey(f, a))
           /\ DOMAIN RemoveKey(f, a) = DOMAIN f \ {a}
           /\ Within(RemoveKey(f, a), f)
<1>1. ASSUME NEW b \in DOMAIN f, NEW r
      PROVE  LET e == [f[b] EXCEPT !.rank = r]
             IN  /\ e = [dependency |-> e.dependency, account |-> e.account,
                         entry |-> e.entry, rank |-> e.rank]
                 /\ e.entry = f[b].entry /\ e.dependency = f[b].dependency
  BY DEF BlockingOK
<1>2. CASE a \in DOMAIN f
  <2> DEFINE g == Without(f, a)
  <2>1. DOMAIN g = DOMAIN f \ {a} /\ g = [b \in DOMAIN g |-> g[b]]
    BY DEF Without
  <2>2. ASSUME NEW b \in DOMAIN g
        PROVE  /\ g[b] = [dependency |-> g[b].dependency, account |-> g[b].account,
                          entry |-> g[b].entry, rank |-> g[b].rank]
               /\ g[b].entry = f[b].entry /\ g[b].dependency = f[b].dependency
    <3>1. g[b] = f[b] \/ g[b] = [f[b] EXCEPT !.rank = @ - 1]
      BY DEF Without
    <3> QED
      BY <3>1, <2>1, <1>1 DEF BlockingOK
  <2> QED
    BY <1>2, <2>1, <2>2 DEF RemoveKey, BlockingOK, Within
<1>3. CASE a \notin DOMAIN f
  BY <1>3 DEF RemoveKey, Within
<1> QED
  BY <1>2, <1>3

(* The rank of an entry may change.                                         *)
LEMMA RankEntry ==
    ASSUME NEW e, EntryOK(e), NEW r
    PROVE  EntryOK([e EXCEPT !.rank = r])
BY DEF EntryOK

(* An account is added to the priorities.                                   *)
LEMMA WithPrios ==
    ASSUME NEW f, PriosOK(f), NEW a, NEW e, EntryOK(e)
    PROVE  PriosOK(With(f, a, e)) /\ DOMAIN With(f, a, e) = DOMAIN f \cup {a}
<1>1. EntryOK([e EXCEPT !.rank = Cardinality(DOMAIN f) + 1])
  BY RankEntry
<1> QED
  BY <1>1 DEF With, PriosOK

(* The two tables of the sets are replaced.                                 *)
LEMMA Replaced ==
    ASSUME NEW s, SetsOK(s), NEW p, NEW q
    PROVE  [s EXCEPT !.prios = p, !.blocking = q] = [prios |-> p, blocking |-> q, config |-> s.config]
<1> DEFINE t == [s EXCEPT !.prios = p, !.blocking = q]
<1>1. DOMAIN s = {"prios", "blocking", "config"}
  BY DEF SetsOK
<1>2. DOMAIN t = DOMAIN s /\ t.prios = p /\ t.blocking = q /\ t.config = s.config
  BY <1>1
<1>3. t = [x \in DOMAIN s |-> t[x]]
  BY Zenon
<1> HIDE DEF t
<1>4. t = [prios |-> p, blocking |-> q, config |-> s.config]
  BY <1>1, <1>2, <1>3
<1> QED
  BY <1>4 DEF t

(* A set over its limit drops entries.                                      *)
LEMMA TrimKeeps ==
    ASSUME NEW s, SetsOK(s)
    PROVE  Keeps(trim_overflow(s), s)
<1> DEFINE p == Trimmed(s.prios, s.config.priorities_max)
           q == Trimmed(s.blocking, s.config.blocking_max)
<1>1. PriosOK(p) /\ DOMAIN p \subseteq DOMAIN s.prios
  BY RemovePrios, ZenonT(30) DEF SetsOK, Trimmed
<1>2. BlockingOK(q) /\ Within(q, s.blocking)
  <2>1. BlockingOK(s.blocking) /\ Within(s.blocking, s.blocking)
    BY DEF SetsOK, Within
  <2>2. q = s.blocking \/ \E a : q = RemoveKey(s.blocking, a)
    BY Zenon DEF Trimmed
  <2> QED
    BY <2>1, <2>2, RemoveBlocking, Zenon
<1>3. trim_overflow(s) = [prios |-> p, blocking |-> q, config |-> s.config]
  BY Replaced, Zenon DEF trim_overflow
<1> HIDE DEF p, q
<1> QED
  BY <1>1, <1>2, <1>3 DEF SetsOK, Keeps, Disjoint, Within

(* Keeping is transitive, ...                                               *)
LEMMA KeepsTransitive ==
    ASSUME NEW s, NEW t, NEW u, Keeps(t, s), Keeps(u, t)
    PROVE  Keeps(u, s)
BY DEF Keeps, Within

(* ... and holds of a step that does nothing.                               *)
LEMMA KeepsSelf ==
    ASSUME NEW s, SetsOK(s)
    PROVE  Keeps(s, s)
BY DEF Keeps, Within

(* New priorities that hold no blocked account. *)
LEMMA PriosKeep ==
    ASSUME NEW s, SetsOK(s), NEW p, PriosOK(p), DOMAIN p \cap DOMAIN s.blocking = {}
    PROVE  Keeps([s EXCEPT !.prios = p], s)
<1>1. [s EXCEPT !.prios = p] = [prios |-> p, blocking |-> s.blocking, config |-> s.config]
  BY DEF SetsOK
<1> QED
  BY <1>1 DEF SetsOK, Disjoint, Keeps, Within

(* An account that is not blocked becomes a priority.                       *)
LEMMA InsertKeeps ==
    ASSUME NEW s, SetsOK(s), NEW a, ~blocked(s, a), NEW e, EntryOK(e)
    PROVE  Keeps(trim_overflow([s EXCEPT !.prios = With(s.prios, a, e)]), s)
<1> DEFINE p == With(s.prios, a, e)
<1>1. Keeps([s EXCEPT !.prios = p], s)
  <2>1. PriosOK(p) /\ DOMAIN p = DOMAIN s.prios \cup {a}
    BY WithPrios, Zenon DEF SetsOK
  <2> HIDE DEF p
  <2> QED
    BY <2>1, PriosKeep DEF SetsOK, Disjoint, blocked
<1> QED
  BY <1>1, TrimKeeps, KeepsTransitive, ZenonT(30) DEF Keeps

(* The entry of a new priority.                                             *)
LEMMA NewEntry ==
    ASSUME NEW p \in Nat
    PROVE  EntryOK(Entry(p))
BY DEF EntryOK, Entry

(* Changing the priority or the timestamp of an entry. *)
LEMMA ChangeKeeps ==
    ASSUME NEW s, SetsOK(s), NEW a \in DOMAIN s.prios, NEW e, EntryOK(e)
    PROVE  Keeps([s EXCEPT !.prios[a] = e], s)
<1> DEFINE p == [s.prios EXCEPT ![a] = e]
<1>1. PriosOK(p) /\ DOMAIN p = DOMAIN s.prios
  BY DEF SetsOK, PriosOK
<1>2. Keeps([s EXCEPT !.prios = p], s)
  BY <1>1, PriosKeep DEF SetsOK, Disjoint
<1> QED
  BY <1>2

(* AccountSets::priority_set keeps the sets.                                *)
LEMMA PrioritySetKeeps ==
    ASSUME NEW s, SetsOK(s), NEW a
    PROVE  Keeps(priority_set(s, a), s)
<1>1. EntryOK(Entry(PRIORITY_INITIAL))
  BY NewEntry DEF PRIORITY_INITIAL
<1> QED
  BY <1>1, KeepsSelf, InsertKeeps DEF priority_set, Insert

(* AccountSets::priority_up keeps the sets.                                 *)
LEMMA PriorityUpKeeps ==
    ASSUME NEW s, SetsOK(s), NEW a
    PROVE  Keeps(priority_up(s, a), s)
<1>1. EntryOK(Entry(PRIORITY_INITIAL))
  BY NewEntry DEF PRIORITY_INITIAL
<1>2. ASSUME prioritized(s, a)
      PROVE  Keeps([s EXCEPT !.prios[a].priority = higher_priority(@)], s)
  <2> DEFINE e == [s.prios[a] EXCEPT !.priority = higher_priority(s.prios[a].priority)]
  <2>1. EntryOK(s.prios[a])
    BY <1>2 DEF SetsOK, PriosOK, prioritized
  <2>2. EntryOK(e)
    BY <2>1 DEF EntryOK, higher_priority, PRIORITY_INCREASE, PRIORITY_MAX
  <2> HIDE DEF e
  <2>3. Keeps([s EXCEPT !.prios[a] = e], s)
    BY <1>2, <2>2, ChangeKeeps DEF prioritized
  <2> QED
    BY <2>3 DEF e
<1> QED
  BY <1>1, <1>2, KeepsSelf, InsertKeeps DEF priority_up, Insert

(* AccountSets::priority_down keeps the sets.                               *)
LEMMA PriorityDownKeeps ==
    ASSUME NEW s, SetsOK(s), NEW a
    PROVE  Keeps(priority_down(s, a), s)
<1>1. Keeps([s EXCEPT !.prios = RemoveKey(@, a)], s)
  BY PriosKeep, RemovePrios, Zenon DEF SetsOK, Disjoint
<1>2. ASSUME prioritized(s, a)
      PROVE  Keeps([s EXCEPT !.prios[a].priority = @ \div 2], s)
  <2> DEFINE e == [s.prios[a] EXCEPT !.priority = s.prios[a].priority \div 2]
  <2>1. EntryOK(s.prios[a])
    BY <1>2 DEF SetsOK, PriosOK, prioritized
  <2>2. EntryOK(e)
    BY <2>1 DEF EntryOK
  <2> HIDE DEF e
  <2>3. Keeps([s EXCEPT !.prios[a] = e], s)
    BY <1>2, <2>2, ChangeKeeps DEF prioritized
  <2> QED
    BY <2>3 DEF e
<1> QED
  BY <1>1, <1>2, KeepsSelf DEF priority_down

(* A new timestamp changes no account of either set.                        *)
LEMMA TimestampKeeps ==
    ASSUME NEW s, SetsOK(s), NEW a, NEW ready
    PROVE  Keeps(timestamp(s, a, ready), s)
<1>1. ASSUME prioritized(s, a)
      PROVE  Keeps([s EXCEPT !.prios[a].ready = ready], s)
  <2> DEFINE e == [s.prios[a] EXCEPT !.ready = ready]
  <2>1. EntryOK(s.prios[a])
    BY <1>1 DEF SetsOK, PriosOK, prioritized
  <2>2. EntryOK(e)
    BY <2>1 DEF EntryOK
  <2> HIDE DEF e
  <2>3. Keeps([s EXCEPT !.prios[a] = e], s)
    BY <1>1, <2>2, ChangeKeeps DEF prioritized
  <2> QED
    BY <2>3 DEF e
<1> QED
  BY <1>1, KeepsSelf DEF timestamp

(* What is blocked by unblock is not the dependency that has arrived. *)
LEMMA UnblockAnyKeeps ==
    ASSUME NEW s, SetsOK(s), NEW a
    PROVE  Keeps(unblock_any(s, a), s) /\ (a # ZERO_ACCOUNT => ~blocked(unblock_any(s, a), a))
<1>1. CASE a = ZERO_ACCOUNT \/ ~blocked(s, a)
  BY <1>1, KeepsSelf DEF unblock_any
<1>2. CASE a # ZERO_ACCOUNT /\ blocked(s, a)
  <2> DEFINE p == With(s.prios, a, s.blocking[a].entry)
             q == RemoveKey(s.blocking, a)
             t == [s EXCEPT !.prios = p, !.blocking = q]
  <2>1. PriosOK(p) /\ DOMAIN p = DOMAIN s.prios \cup {a}
    BY <1>2, WithPrios, Zenon DEF SetsOK, BlockingOK, blocked
  <2>2. BlockingOK(q) /\ DOMAIN q = DOMAIN s.blocking \ {a} /\ Within(q, s.blocking)
    BY RemoveBlocking DEF SetsOK
  <2>3. unblock_any(s, a) = trim_overflow(t)
    BY <1>2 DEF unblock_any
  <2> HIDE DEF p, q
  <2>4. t = [prios |-> p, blocking |-> q, config |-> s.config]
    BY Replaced, Zenon
  <2>5. Keeps(t, s) /\ ~blocked(t, a)
    BY <2>1, <2>2, <2>4 DEF SetsOK, Disjoint, Keeps, blocked
  <2> HIDE DEF t
  <2>6. Keeps(trim_overflow(t), t)
    BY <2>5, TrimKeeps DEF Keeps
  <2>7. ~blocked(trim_overflow(t), a)
    BY <2>5, <2>6 DEF Keeps, Within, blocked
  <2> QED
    BY <1>2, <2>3, <2>5, <2>6, <2>7, KeepsTransitive
<1> QED
  BY <1>1, <1>2

(* After unblock(a, hash) the account a is not blocked on hash.             *)
LEMMA UnblockKeeps ==
    ASSUME NEW s, SetsOK(s), NEW a, NEW hash
    PROVE  /\ Keeps(unblock(s, a, hash), s)
           /\ a # ZERO_ACCOUNT /\ blocked(unblock(s, a, hash), a)
                => unblock(s, a, hash).blocking[a].dependency # hash
BY UnblockAnyKeeps, KeepsSelf DEF unblock

(* block adds at most one account, with the dependency it is given.         *)
LEMMA BlockEffect ==
    ASSUME NEW s, SetsOK(s), NEW a, NEW dependency
    PROVE  LET t == block(s, a, dependency)
           IN  /\ SetsOK(t)
               /\ DOMAIN t.blocking \subseteq DOMAIN s.blocking \cup {a}
               /\ \A c \in DOMAIN t.blocking :
                    t.blocking[c].dependency =
                      IF c \in DOMAIN s.blocking THEN s.blocking[c].dependency ELSE dependency
<1> DEFINE entry == IF prioritized(s, a) THEN s.prios[a] ELSE Entry(0)
           new == [dependency |-> dependency, account |-> ZERO_ACCOUNT, entry |-> entry, rank |-> 0]
           p == RemoveKey(s.prios, a)
           q == IF a \in DOMAIN s.blocking THEN s.blocking ELSE With(s.blocking, a, new)
           t == [s EXCEPT !.prios = p, !.blocking = q]
<1>1. PriosOK(p) /\ DOMAIN p = DOMAIN s.prios \ {a}
  BY RemovePrios DEF SetsOK
<1>2. EntryOK(entry)
  BY NewEntry DEF SetsOK, PriosOK, prioritized
<1>3. block(s, a, dependency) = trim_overflow(t)
  BY DEF block
<1> HIDE DEF entry
<1>4. /\ BlockingOK(q) /\ DOMAIN q = DOMAIN s.blocking \cup {a}
      /\ \A c \in DOMAIN q :
           q[c].dependency = IF c \in DOMAIN s.blocking THEN s.blocking[c].dependency ELSE dependency
  <2>1. CASE a \in DOMAIN s.blocking
    BY <2>1 DEF SetsOK
  <2>2. CASE a \notin DOMAIN s.blocking
    <3> DEFINE e == [new EXCEPT !.rank = Cardinality(DOMAIN s.blocking) + 1]
    <3>1. e = [dependency |-> dependency, account |-> ZERO_ACCOUNT, entry |-> entry,
               rank |-> Cardinality(DOMAIN s.blocking) + 1]
      OBVIOUS
    <3>2. q = [c \in DOMAIN s.blocking \cup {a} |-> IF c = a THEN e ELSE s.blocking[c]]
      BY <2>2 DEF With
    <3> HIDE DEF e, q
    <3> QED
      BY <1>2, <2>2, <3>1, <3>2, Zenon DEF BlockingOK, SetsOK
  <2> QED
    BY <2>1, <2>2, Zenon
<1> HIDE DEF p, q
<1>5. t = [prios |-> p, blocking |-> q, config |-> s.config]
  BY Replaced, Zenon
<1>6. SetsOK(t) /\ t.blocking = q
  BY <1>1, <1>4, <1>5 DEF SetsOK, Disjoint
<1> HIDE DEF t
<1>7. Keeps(trim_overflow(t), t)
  BY <1>6, TrimKeeps
<1> QED
  BY <1>3, <1>4, <1>6, <1>7 DEF Keeps, Within

(* AccountSets::dependency_update changes no dependency hash.               *)
LEMMA DependencyUpdateKeeps ==
    ASSUME NEW s, SetsOK(s), NEW hash, NEW account
    PROVE  Keeps(dependency_update(s, hash, account), s)
<1> DEFINE q == [b \in DOMAIN s.blocking |->
                   IF s.blocking[b].dependency = hash
                   THEN [s.blocking[b] EXCEPT !.account = account] ELSE s.blocking[b]]
<1>1. BlockingOK(q) /\ Within(q, s.blocking) /\ DOMAIN q = DOMAIN s.blocking
  <2>1. ASSUME NEW b \in DOMAIN s.blocking
        PROVE  /\ q[b] = [dependency |-> q[b].dependency, account |-> q[b].account,
                          entry |-> q[b].entry, rank |-> q[b].rank]
               /\ q[b].entry = s.blocking[b].entry
               /\ q[b].dependency = s.blocking[b].dependency
    BY DEF SetsOK, BlockingOK
  <2> QED
    BY <2>1, Zenon DEF SetsOK, BlockingOK, Within
<1>2. dependency_update(s, hash, account) = [s EXCEPT !.blocking = q]
  BY DEF dependency_update
<1> HIDE DEF q
<1>3. dependency_update(s, hash, account) = [prios |-> s.prios, blocking |-> q, config |-> s.config]
  BY <1>2 DEF SetsOK
<1> QED
  BY <1>1, <1>3 DEF SetsOK, Disjoint, Keeps

(* AccountSets::sync_dependencies adds priorities only.                     *)
LEMMA SyncKeeps ==
    ASSUME NEW s, SetsOK(s)
    PROVE  Keeps(sync_dependencies(s), s)
<1>1. PICK p, new :
        /\ new \cap (DOMAIN s.blocking \cup DOMAIN s.prios) = {}
        /\ DOMAIN p = DOMAIN s.prios \cup new
        /\ p = [b \in DOMAIN p |-> p[b]]
        /\ \A b \in DOMAIN p : IF b \in new THEN EntryOK(p[b]) ELSE p[b] = s.prios[b]
        /\ sync_dependencies(s) = trim_overflow([s EXCEPT !.prios = p])
  <2> DEFINE known == {s.blocking[b].account : b \in DOMAIN s.blocking} \ {ZERO_ACCOUNT}
             missing == known \ (DOMAIN s.blocking \cup DOMAIN s.prios)
             place(c) == Cardinality(DOMAIN s.prios) + Cardinality({d \in missing : d <= c})
             new == {c \in missing : place(c) <= s.config.priorities_max}
             p == [b \in DOMAIN s.prios \cup new |->
                     IF b \in new THEN [Entry(PRIORITY_INITIAL) EXCEPT !.rank = place(b)]
                     ELSE s.prios[b]]
  <2>1. ASSUME NEW r PROVE EntryOK([Entry(PRIORITY_INITIAL) EXCEPT !.rank = r])
    BY NewEntry, RankEntry DEF PRIORITY_INITIAL
  <2>2. sync_dependencies(s) = trim_overflow([s EXCEPT !.prios = p])
    BY DEF sync_dependencies
  <2>3. new \cap (DOMAIN s.blocking \cup DOMAIN s.prios) = {}
    OBVIOUS
  <2> HIDE DEF new, place
  <2>4. \A b \in DOMAIN p : IF b \in new THEN EntryOK(p[b]) ELSE p[b] = s.prios[b]
    BY <2>1, Zenon
  <2> QED
    BY <2>2, <2>3, <2>4, Zenon
<1>2. PriosOK(p)
  BY <1>1 DEF SetsOK, PriosOK
<1>3. Keeps([s EXCEPT !.prios = p], s)
  BY <1>1, <1>2, PriosKeep DEF SetsOK, Disjoint
<1> QED
  BY <1>1, <1>3, TrimKeeps, KeepsTransitive, Zenon DEF Keeps

----------------------------------------------------------------------------
(* What inspect does to the blocked accounts: a GapSource blocks the account*)
(* of the block on its source, and the Progress of a send leaves no receiver*)
(* blocked on it.                                                           *)
LEMMA InspectEffect ==
    ASSUME NEW s, SetsOK(s), NEW b, NEW status, NEW source
    PROVE  LET t == inspect(s, b, status, source)
           IN  /\ SetsOK(t)
               /\ status = "GapSource" =>
                    /\ DOMAIN t.blocking \subseteq DOMAIN s.blocking \cup {b[1]}
                    /\ \A c \in DOMAIN t.blocking : t.blocking[c].dependency =
                         IF c \in DOMAIN s.blocking THEN s.blocking[c].dependency ELSE SourceOf(b)
               /\ status # "GapSource" => Within(t.blocking, s.blocking)
               /\ status = "Progress" /\ b \in Sends /\ Receiver(b) # ZERO_ACCOUNT
                    /\ Receiver(b) \in DOMAIN t.blocking
                    => t.blocking[Receiver(b)].dependency # b
<1>1. CASE status = "Progress"
  <2> DEFINE u == unblock_any(s, b[1])
             up == priority_up(u, b[1])
             v == unblock(up, Receiver(b), b)
             w == priority_set(v, Receiver(b))
  <2>1. Keeps(up, s)
    BY UnblockAnyKeeps, PriorityUpKeeps, KeepsTransitive DEF Keeps
  <2>2. inspect(s, b, status, source) = IF b \in Sends THEN w ELSE up
    BY <1>1 DEF inspect
  <2> HIDE DEF up
  <2>3. /\ Keeps(v, up)
        /\ Receiver(b) # ZERO_ACCOUNT /\ blocked(v, Receiver(b))
             => v.blocking[Receiver(b)].dependency # b
    BY <2>1, UnblockKeeps DEF Keeps
  <2> HIDE DEF v
  <2>4. Keeps(w, v)
    BY <2>3, PrioritySetKeeps DEF Keeps
  <2> HIDE DEF w
  <2>5. Keeps(w, s)
    BY <2>1, <2>3, <2>4, KeepsTransitive
  <2>6. Receiver(b) # ZERO_ACCOUNT /\ Receiver(b) \in DOMAIN w.blocking
          => w.blocking[Receiver(b)].dependency # b
    BY <2>3, <2>4 DEF Keeps, Within, blocked
  <2> QED
    BY <1>1, <2>1, <2>2, <2>5, <2>6 DEF Keeps
<1>2. CASE status = "GapSource"
  <2>1. inspect(s, b, status, source) = block(s, b[1], SourceOf(b))
        \/ inspect(s, b, status, source) = s
    BY <1>2 DEF inspect
  <2> QED
    BY <1>2, <2>1, BlockEffect
<1>3. CASE status # "Progress" /\ status # "GapSource"
  <2>1. inspect(s, b, status, source) = priority_set(s, b[1])
        \/ inspect(s, b, status, source) = s
    BY <1>3 DEF inspect
  <2>2. Keeps(inspect(s, b, status, source), s)
    BY <2>1, PrioritySetKeeps, KeepsSelf
  <2> QED
    BY <1>3, <2>2 DEF Keeps
<1> QED
  BY <1>1, <1>2, <1>3, Zenon

----------------------------------------------------------------------------
QuerySource == {"priority", "database", "blocking"}
BlockStatus == {"Old", "GapPrevious", "GapSource", "Progress"}

TagType ==
  {t \in [source : QuerySource, account : 0 .. Len(Length), start : Nat, hash : (0 .. Len(Length)) \X Nat,
          count : Int] : t.source # "blocking" => t.account \in Account}

QueueType == [block : BlockType, last : BOOLEAN]
ResultType == [block : BlockType, status : BlockStatus, source : {"bootstrap", "live"}, last : BOOLEAN]

TypeInv ==
  /\ SetsOK(sets)
  /\ have \in [Account -> Nat]
  /\ tags \in Seq(TagType)
  /\ found \subseteq {0, 1} \X Account
  /\ queue \in Seq(QueueType) /\ Len(queue) <= MaxQueue
  /\ results \in Seq(ResultType)

(* An account is blocked on the source of one of its own blocks.            *)
BlockedFor ==
  \A a \in DOMAIN sets.blocking :
    \E b \in DOMAIN Source : b[1] = a /\ Source[b] = sets.blocking[a].dependency

Arrives(i, b) ==
  \E j \in DOMAIN results : j > i /\ results[j].block = b /\ results[j].status = "Progress"

(* The source that a result of the batch misses is missing still, or its    *)
(* arrival comes later in the batch.                                        *)
GapsOpen ==
  \A i \in DOMAIN results :
    results[i].status = "GapSource" =>
      /\ results[i].block \in DOMAIN Source
      /\ InLedger(Source[results[i].block]) => Arrives(i, Source[results[i].block])

(* BlockedOnMissing is not inductive: the result GapSource is applied after *)
(* the batch, when the source may be there.                                 *)
IInv == TypeInv /\ BlockedFor /\ GapsOpen /\ BlockedOnMissing

(* The assumptions of the model that the steps below use. *)
LEMMA AccountFacts ==
    /\ Len(Length) \in Nat
    /\ Account = 1 .. Len(Length)
    /\ \A a \in Account : Length[a] \in Nat
BY PeerAssumption DEF Account

(* A send is received by the account that Receiver names. *)
LEMMA ReceiverFact ==
    ASSUME NEW b \in DOMAIN Source
    PROVE  /\ Source[b] \in Sends
           /\ Receiver(Source[b]) = b[1]
           /\ b[1] \in Account /\ b[1] # ZERO_ACCOUNT
<1>1. \A c \in DOMAIN Source : Source[c] = Source[b] => c = b
  BY PeerAssumption
<1>2. (CHOOSE c \in DOMAIN Source : Source[c] = Source[b]) = b
  BY <1>1
<1>3. b \in BlockType
  BY PeerAssumption
<1>4. b[1] \in 1 .. Len(Length)
  BY <1>3, AccountFacts DEF BlockType
<1>5. Source[b] \in Sends
  BY DEF Sends
<1>6. Receiver(Source[b]) = b[1]
  BY <1>2, Zenon DEF Receiver
<1> QED
  BY <1>4, <1>5, <1>6, AccountFacts DEF ZERO_ACCOUNT

(* Only the genesis account is a priority at the start.                     *)
LEMMA InitInv ==
    ASSUME Init
    PROVE  IInv
<1>1. PICK c \in Configs : sets = priority_set(EmptySets(c.sets), Genesis)
  BY DEF Init
<1>2. SetsOK(EmptySets(c.sets)) /\ DOMAIN EmptySets(c.sets).blocking = {}
  BY Zenon DEF SetsOK, EmptySets, PriosOK, BlockingOK, Disjoint
<1>3. SetsOK(sets) /\ DOMAIN sets.blocking = {}
  BY <1>1, <1>2, PrioritySetKeeps DEF Keeps, Within
<1>4. tags = <<>> /\ found = {} /\ queue = <<>> /\ results = <<>>
  BY DEF Init
<1>5. have \in [Account -> Nat]
  BY DEF Init
<1>6. TypeInv
  BY <1>3, <1>4, <1>5, PeerAssumption DEF TypeInv
<1> QED
  BY <1>3, <1>4, <1>6 DEF IInv, BlockedFor, GapsOpen, BlockedOnMissing

(* Steps that leave the ledger and the batch alone. *)
LEMMA QuietStep ==
    ASSUME IInv, Keeps(sets', sets), have' = have, results' = results,
           tags' \in Seq(TagType), found' \subseteq {0, 1} \X Account,
           queue' \in Seq(QueueType), Len(queue') <= MaxQueue
    PROVE  IInv'
<1>1. TypeInv'
  BY DEF IInv, TypeInv, Keeps
<1>2. BlockedFor'
  BY DEF IInv, BlockedFor, Keeps, Within
<1>3. GapsOpen'
  BY Zenon DEF IInv, GapsOpen, Arrives, InLedger
<1>4. BlockedOnMissing'
  <2> SUFFICES ASSUME NEW a \in DOMAIN sets'.blocking,
                      LET d == sets'.blocking[a].dependency IN d[2] <= have'[d[1]]
               PROVE  \E i \in DOMAIN results' : /\ results'[i].block = sets'.blocking[a].dependency
                                                 /\ results'[i].status = "Progress"
    BY Zenon DEF BlockedOnMissing, InLedger
  <2>1. a \in DOMAIN sets.blocking /\ sets'.blocking[a].dependency = sets.blocking[a].dependency
    BY DEF Keeps, Within
  <2> QED
    BY <2>1, Zenon DEF IInv, BlockedOnMissing, InLedger
<1> QED
  BY <1>1, <1>2, <1>3, <1>4 DEF IInv

(* What is asked for gets a tag.                                            *)
LEMMA RequestType ==
    ASSUME TypeInv, NEW source \in QuerySource, NEW a \in Account, NEW count \in Int,
           request(source, a, count)
    PROVE  tags' \in Seq(TagType)
<1>1. Min2(count, MaxPull) \in Int
  BY PeerAssumption DEF Min2
<1>2. Tag(source, a, have[a], <<a, have[a]>>, Min2(count, MaxPull)) \in TagType
  BY <1>1, AccountFacts DEF Tag, TagType, TypeInv
<1> DEFINE t == Tag(source, a, have[a], <<a, have[a]>>, Min2(count, MaxPull))
<1>3. tags' = Append(tags, t) /\ t \in TagType /\ tags \in Seq(TagType)
  BY <1>2 DEF request, TypeInv
<1> HIDE DEF t
<1> QED
  BY <1>3, AppendProperties

(* A request for a priority account.                                        *)
LEMMA RunOnePriorityInv ==
    ASSUME IInv, run_one_priority
    PROVE  IInv'
<1>1. PICK a \in Account \cap DOMAIN sets.prios :
        /\ LET p == sets.prios[a].priority \div 64 IN request("priority", a, IF p < 2 THEN 2 ELSE p)
        /\ sets' = timestamp(sets, a, FALSE)
  BY Zenon DEF run_one_priority, next_priority
<1>2. sets.prios[a].priority \in Nat
  BY DEF IInv, TypeInv, SetsOK, PriosOK, EntryOK
<1>3. tags' \in Seq(TagType)
  <2> DEFINE p == sets.prios[a].priority \div 64
             count == IF p < 2 THEN 2 ELSE p
  <2>1. count \in Int /\ "priority" \in QuerySource /\ request("priority", a, count)
    BY <1>1, <1>2, SMTT(30) DEF QuerySource
  <2> HIDE DEF count
  <2> QED
    BY <2>1, RequestType DEF IInv
<1>4. Keeps(sets', sets)
  BY <1>1, TimestampKeeps, Zenon DEF IInv, TypeInv
<1> QED
  BY <1>3, <1>4, QuietStep, Zenon DEF run_one_priority, IInv, TypeInv

(* A request for an account of the database scan.                           *)
LEMMA RunOneDatabaseInv ==
    ASSUME IInv, run_one_database
    PROVE  IInv'
<1>1. Fill \subseteq {0, 1} \X Account
  BY ReceiverFact DEF Fill, Sends
<1>2. PICK scanned, e : /\ scanned = found \/ scanned = Fill
                        /\ e \in scanned
                        /\ found' = {f \in scanned : Before(e, f)}
                        /\ request("database", e[2], 2)
  BY Zenon DEF run_one_database, Popped
<1>3. e[2] \in Account /\ found' \subseteq {0, 1} \X Account
  BY <1>1, <1>2 DEF IInv, TypeInv
<1>4. tags' \in Seq(TagType)
  <2>1. "database" \in QuerySource /\ 2 \in Int
    BY DEF QuerySource
  <2> QED
    BY <1>2, <1>3, <2>1, RequestType DEF IInv
<1> QED
  BY <1>3, <1>4, QuietStep, KeepsSelf, Zenon DEF run_one_database, IInv, TypeInv

(* A request for a blocked account.                                         *)
LEMMA RunOneBlockingInv ==
    ASSUME IInv, run_one_blocking
    PROVE  IInv'
<1>1. PICK a \in DOMAIN sets.blocking :
        tags' = Append(tags, Tag("blocking", ZERO_ACCOUNT, 0, sets.blocking[a].dependency, 0))
  BY DEF run_one_blocking, next_blocking
<1>2. sets.blocking[a].dependency \in BlockType
  BY PeerAssumption DEF IInv, BlockedFor
<1>3. tags' \in Seq(TagType)
  <2>1. sets.blocking[a].dependency \in (0 .. Len(Length)) \X Nat
    BY <1>2, AccountFacts DEF BlockType
  <2>2. Tag("blocking", ZERO_ACCOUNT, 0, sets.blocking[a].dependency, 0) \in TagType
    BY <2>1, AccountFacts DEF Tag, TagType, QuerySource, ZERO_ACCOUNT
  <2> QED
    BY <1>1, <2>2 DEF IInv, TypeInv
<1> QED
  BY <1>3, QuietStep, KeepsSelf DEF run_one_blocking, IInv, TypeInv

(* A tag that is answered or timed out goes.                                *)
LEMMA RemoveTagType ==
    ASSUME TypeInv, NEW i \in DOMAIN tags, RemoveTag(i)
    PROVE  tags' \in Seq(TagType)
<1>1. tags \in Seq(TagType) /\ i \in 1 .. Len(tags) /\ Len(tags) \in Nat
  BY DEF TypeInv
<1>2. SubSeq(tags, 1, i - 1) \in Seq(TagType)
  BY <1>1, SubSeqProperties
<1>3. SubSeq(tags, i + 1, Len(tags)) \in Seq(TagType)
  BY <1>1, SubSeqProperties
<1> QED
  BY <1>2, <1>3, ConcatProperties DEF RemoveTag, RemoveAt

(* What is put into the queue are blocks, no more than fit. *)
LEMMA EnqueueType ==
    ASSUME TypeInv, NEW tag \in TagType, tag.source # "blocking", Enqueue(NewBlocks(tag)),
           ~NothingNew(tag)
    PROVE  queue' \in Seq(QueueType) /\ Len(queue') <= MaxQueue
<1> DEFINE new == NewBlocks(tag)
           n == Min2(Len(new), MaxQueue - Len(queue))
           part == SubSeq(new, 1, n)
<1>1. tag.account \in Account /\ tag.start \in Nat /\ tag.count \in Int
  BY DEF TagType
<1>2. LastSent(tag) \in Int
  BY <1>1, AccountFacts, SMTT(30) DEF LastSent, Min2
<1>3. LastSent(tag) - tag.start \in Nat
  BY <1>1, <1>2 DEF NothingNew
<1>4. new \in Seq(QueueType)
  <2>1. \A i \in 1 .. LastSent(tag) - tag.start :
          [block |-> <<tag.account, tag.start + i>>, last |-> tag.start + i = LastSent(tag)] \in QueueType
    BY <1>1, <1>2 DEF QueueType, BlockType
  <2>2. \A k \in Nat : [1 .. k -> QueueType] \subseteq Seq(QueueType)
    OBVIOUS
  <2>3. new \in [1 .. LastSent(tag) - tag.start -> QueueType]
    BY <2>1, Zenon DEF NewBlocks
  <2> QED
    BY <1>3, <2>2, <2>3
<1> HIDE DEF new
<1>5. queue \in Seq(QueueType) /\ Len(queue) \in Nat /\ Len(queue) <= MaxQueue /\ MaxQueue \in Nat
  BY PeerAssumption DEF TypeInv
<1>6. n \in 0 .. Len(new) /\ n <= MaxQueue - Len(queue)
  BY <1>4, <1>5 DEF Min2
<1> HIDE DEF n
<1>7. part \in Seq(QueueType) /\ Len(part) = n
  <2>1. 1 \in 1 .. Len(new) + 1 /\ n \in 1 - 1 .. Len(new)
    BY <1>4, <1>6
  <2> QED
    BY <1>4, <1>6, <2>1, SubSeqProperties
<1>8. queue' = queue \o part
  BY DEF Enqueue, new, n
<1> HIDE DEF part
<1> QED
  BY <1>5, <1>6, <1>7, <1>8, ConcatProperties

(* An answer to a request.                                                  *)
LEMMA ProcessInv ==
    ASSUME IInv, NEW i \in DOMAIN tags, process(i)
    PROVE  IInv'
<1>1. tags' \in Seq(TagType) /\ found' = found /\ have' = have /\ results' = results
  BY RemoveTagType DEF process, IInv
<1>2. SetsOK(sets) /\ tags[i] \in TagType
  BY DEF IInv, TypeInv
<1>3. CASE process_blocks(i)
  <2>1. tags[i].source # "blocking"
    BY <1>3 DEF process_blocks
  <2>2. CASE NothingNew(tags[i])
    <3>1. queue' = queue /\ Keeps(sets', sets)
      BY <1>2, <1>3, <2>2, PriorityDownKeeps DEF process_blocks
    <3> QED
      BY <1>1, <3>1, QuietStep, Zenon DEF IInv, TypeInv
  <2>3. CASE ~NothingNew(tags[i])
    <3>1. sets' = sets /\ Enqueue(NewBlocks(tags[i]))
      BY <1>3, <2>3 DEF process_blocks
    <3>2. queue' \in Seq(QueueType) /\ Len(queue') <= MaxQueue
      BY <1>2, <2>1, <2>3, <3>1, EnqueueType DEF IInv
    <3> QED
      BY <1>1, <1>2, <3>1, <3>2, KeepsSelf, QuietStep DEF IInv, TypeInv
  <2> QED
    BY <2>2, <2>3
<1>4. CASE process_accounts(i)
  <2>1. Keeps(sets', sets)
    BY <1>2, <1>4, DependencyUpdateKeeps, PrioritySetKeeps, KeepsTransitive, SMTT(30)
       DEF process_accounts, Keeps
  <2> QED
    BY <1>1, <1>4, <2>1, QuietStep, Zenon DEF IInv, TypeInv, process_accounts
<1> QED
  BY <1>3, <1>4 DEF process

(* An answer nobody waits for.                                              *)
LEMMA DiscardInv ==
    ASSUME IInv, NEW i \in DOMAIN tags, Discard(i)
    PROVE  IInv'
<1>1. tags' \in Seq(TagType)
  BY RemoveTagType DEF Discard, IInv
<1> QED
  BY <1>1, KeepsSelf, QuietStep, Zenon DEF Discard, IInv, TypeInv

(* Requests time out, dependencies are synchronised, cooldowns end.         *)
LEMMA TimerInv ==
    ASSUME IInv, cleanup \/ SyncDependencies \/ \E a \in Account : Cooldown(a)
    PROVE  IInv'
<1>1. CASE cleanup
  <2>1. 1 \in DOMAIN tags
    BY <1>1 DEF cleanup, IInv, TypeInv
  <2> QED
    BY <1>1, <2>1, DiscardInv DEF cleanup
<1>2. CASE SyncDependencies
  BY <1>2, SyncKeeps, QuietStep, Zenon DEF SyncDependencies, IInv, TypeInv
<1>3. CASE \E a \in Account : Cooldown(a)
  BY <1>3, TimestampKeeps, QuietStep, Zenon DEF Cooldown, IInv, TypeInv
<1> QED
  BY <1>1, <1>2, <1>3

(* The primed forms of the three conjuncts, with InLedger expanded.         *)
LEMMA PrimedInv ==
    ASSUME TypeInv', BlockedFor',
           \A i \in DOMAIN results' :
             results'[i].status = "GapSource" =>
               /\ results'[i].block \in DOMAIN Source
               /\ LET d == Source[results'[i].block]
                  IN  d[2] <= have'[d[1]] =>
                        \E j \in DOMAIN results' :
                          j > i /\ results'[j].block = d /\ results'[j].status = "Progress",
           \A a \in DOMAIN sets'.blocking :
             LET d == sets'.blocking[a].dependency
             IN  d[2] <= have'[d[1]] =>
                   \E i \in DOMAIN results' :
                     results'[i].block = d /\ results'[i].status = "Progress"
    PROVE  IInv'
BY Zenon DEF IInv, GapsOpen, BlockedOnMissing, InLedger, Arrives

(* What the block processor does with a block.                              *)
LEMMA ProcessBlockInv ==
    ASSUME IInv, NEW b \in BlockType, NEW source \in {"bootstrap", "live"}, NEW last \in BOOLEAN,
           ProcessBlock(b, source, last), queue' \in Seq(QueueType), Len(queue') <= MaxQueue
    PROVE  IInv'
<1> DEFINE r == [block |-> b, status |-> Status(b), source |-> source, last |-> last]
           n == Len(results)
<1>1. /\ have \in [Account -> Nat] /\ results \in Seq(ResultType) /\ n \in Nat
      /\ b[1] \in Account /\ b[2] \in Nat
  BY DEF IInv, TypeInv, BlockType
<1>2. Status(b) \in BlockStatus
  BY DEF Status, BlockStatus
<1>3. Status(b) = "Progress" => b[2] = have[b[1]] + 1
  BY <1>1 DEF Status, InLedger
<1>4. Status(b) = "GapSource" => b \in DOMAIN Source /\ ~InLedger(Source[b])
  BY DEF Status, SourceOf
<1>5. r \in ResultType
  BY <1>2, Zenon DEF ResultType
<1>6. results' = Append(results, r) /\ sets' = sets /\ tags' = tags /\ found' = found
  BY Zenon DEF ProcessBlock
<1>7. have' = IF Status(b) = "Progress" THEN [have EXCEPT ![b[1]] = b[2]] ELSE have
  BY Zenon DEF ProcessBlock
<1> HIDE DEF r
<1>8. /\ results' \in Seq(ResultType) /\ DOMAIN results' = 1 .. n + 1
      /\ \A i \in DOMAIN results : i \in DOMAIN results' /\ i <= n /\ results'[i] = results[i]
      /\ results'[n + 1] = r
      /\ \A i \in DOMAIN results' : i = n + 1 \/ i \in DOMAIN results
  BY <1>1, <1>5, <1>6, SMTT(30)
<1>9. r.block = b /\ r.status = Status(b)
  BY DEF r
<1>10. ASSUME NEW d \in BlockType, d[2] <= have'[d[1]]
       PROVE  InLedger(d) \/ (Status(b) = "Progress" /\ d = b)
  <2>1. d = <<d[1], d[2]>> /\ b = <<b[1], b[2]>> /\ d[1] \in Account /\ d[2] \in Nat
    BY DEF BlockType
  <2>2. CASE Status(b) = "Progress" /\ d[1] = b[1]
    <3>1. d[2] <= have[b[1]] + 1
      BY <1>1, <1>3, <1>7, <1>10, <2>1, <2>2
    <3> QED
      BY <1>1, <1>3, <2>1, <2>2, <3>1, SMTT(30) DEF InLedger
  <2>3. CASE ~(Status(b) = "Progress" /\ d[1] = b[1])
    BY <1>1, <1>7, <1>10, <2>1, <2>3 DEF InLedger
  <2> QED
    BY <2>2, <2>3
<1>11. TypeInv'
  BY <1>1, <1>6, <1>7, <1>8, Zenon DEF IInv, TypeInv
<1>12. BlockedFor'
  BY <1>6 DEF IInv, BlockedFor
<1>13. ASSUME NEW i \in DOMAIN results', results'[i].status = "GapSource"
       PROVE  /\ results'[i].block \in DOMAIN Source
              /\ LET d == Source[results'[i].block]
                 IN  d[2] <= have'[d[1]] =>
                       \E j \in DOMAIN results' :
                         j > i /\ results'[j].block = d /\ results'[j].status = "Progress"
  <2> DEFINE d == Source[results'[i].block]
  <2>1. CASE i = n + 1
    <3>1. results'[i].block = b /\ Status(b) = "GapSource"
      BY <1>8, <1>9, <1>13, <2>1
    <3>2. have' = have
      BY <1>7, <3>1
    <3> QED
      BY <1>4, <3>1, <3>2, Zenon DEF InLedger
  <2>2. CASE i \in DOMAIN results
    <3>1. results[i] = results'[i] /\ results[i].status = "GapSource"
      BY <1>8, <1>13, <2>2, Zenon
    <3>2. results[i].block \in DOMAIN Source
          /\ (InLedger(Source[results[i].block]) => Arrives(i, Source[results[i].block]))
      BY <2>2, <3>1 DEF IInv, GapsOpen
    <3>3. d \in BlockType
      BY <3>1, <3>2, PeerAssumption
    <3>4. CASE InLedger(d)
      BY <1>8, <3>1, <3>2, <3>4 DEF Arrives
    <3>5. CASE Status(b) = "Progress" /\ d = b
      <4>1. n + 1 \in DOMAIN results' /\ n + 1 > i
        BY <1>1, <1>8, <2>2
      <4> QED
        BY <1>8, <1>9, <3>1, <3>2, <3>5, <4>1, Zenon
    <3>6. CASE ~(d[2] <= have'[d[1]])
      BY <3>1, <3>2, <3>6, Zenon
    <3> QED
      BY <1>10, <3>3, <3>4, <3>5, <3>6, Zenon
  <2> QED
    BY <1>8, <2>1, <2>2, Zenon
<1>14. ASSUME NEW a \in DOMAIN sets'.blocking,
              LET d == sets'.blocking[a].dependency IN d[2] <= have'[d[1]]
       PROVE  \E i \in DOMAIN results' : /\ results'[i].block = sets'.blocking[a].dependency
                                          /\ results'[i].status = "Progress"
  <2> DEFINE d == sets.blocking[a].dependency
  <2>1. a \in DOMAIN sets.blocking /\ sets' = sets
    BY <1>6
  <2>2. d \in BlockType
    BY <2>1, PeerAssumption DEF IInv, BlockedFor
  <2>3. CASE InLedger(d)
    <3>1. \E i \in DOMAIN results : results[i].block = d /\ results[i].status = "Progress"
      BY <2>1, <2>3, Zenon DEF IInv, BlockedOnMissing
    <3> QED
      BY <1>8, <2>1, <3>1, Zenon
  <2>4. CASE Status(b) = "Progress" /\ d = b
    <3>1. n + 1 \in DOMAIN results'
      BY <1>1, <1>8
    <3> QED
      BY <1>8, <1>9, <2>1, <2>4, <3>1
  <2> QED
    BY <1>10, <1>14, <2>1, <2>2, <2>3, <2>4, Zenon
<1> QED
  BY <1>11, <1>12, <1>13, <1>14, PrimedInv, Zenon

(* The block processor takes a bootstrapped or a live block.                *)
LEMMA BlocksInv ==
    ASSUME IInv, BootstrapBlock \/ \E b \in Live : LiveBlock(b)
    PROVE  IInv'
<1>1. CASE BootstrapBlock
  <2>1. Head(queue) \in QueueType /\ queue' \in Seq(QueueType) /\ Len(queue') <= MaxQueue
    BY <1>1, PeerAssumption, SMTT(30) DEF BootstrapBlock, IInv, TypeInv
  <2>2. Head(queue).block \in BlockType /\ Head(queue).last \in BOOLEAN
    BY <2>1 DEF QueueType
  <2>3. ProcessBlock(Head(queue).block, "bootstrap", Head(queue).last)
    BY <1>1 DEF BootstrapBlock
  <2> QED
    BY <2>1, <2>2, <2>3, ProcessBlockInv
<1>2. ASSUME NEW b \in Live, LiveBlock(b) PROVE IInv'
  <2>1. b \in BlockType
    BY PeerAssumption
  <2>2. ProcessBlock(b, "live", FALSE) /\ queue' = queue
    BY <1>2, Zenon DEF LiveBlock
  <2>3. queue' \in Seq(QueueType) /\ Len(queue') <= MaxQueue
    BY <2>2 DEF IInv, TypeInv
  <2> QED
    BY <2>1, <2>2, <2>3, ProcessBlockInv, Zenon
<1> QED
  BY <1>1, <1>2

(* The timestamp of an account is reset.                                    *)
LEMMA TimestampResetInv ==
    ASSUME IInv, TimestampReset
    PROVE  IInv'
<1>1. PICK i \in DOMAIN results : /\ sets' = timestamp(sets, results[i].block[1], TRUE)
                                  /\ results' = [results EXCEPT ![i].last = FALSE]
  BY Zenon DEF TimestampReset
<1>2. results \in Seq(ResultType)
  BY DEF IInv, TypeInv
<1>3. /\ results' \in Seq(ResultType) /\ DOMAIN results' = DOMAIN results
      /\ \A j \in DOMAIN results : results'[j].block = results[j].block
                                    /\ results'[j].status = results[j].status
  <2> DEFINE e == [results[i] EXCEPT !.last = FALSE]
  <2>1. results[i] \in ResultType /\ results' = [results EXCEPT ![i] = e]
    BY <1>1, <1>2
  <2>2. e \in ResultType /\ e.block = results[i].block /\ e.status = results[i].status
    BY <2>1, Zenon DEF ResultType
  <2> HIDE DEF e
  <2> QED
    BY <1>2, <2>1, <2>2
<1>4. Keeps(sets', sets)
  BY <1>1, TimestampKeeps, Zenon DEF IInv, TypeInv
<1>5. have' = have /\ tags' = tags /\ found' = found /\ queue' = queue
  BY DEF TimestampReset
<1>6. TypeInv'
  BY <1>3, <1>4, <1>5, Zenon DEF IInv, TypeInv, Keeps
<1>7. BlockedFor'
  BY <1>4, ZenonT(30) DEF IInv, BlockedFor, Keeps, Within
<1>8. ASSUME NEW j \in DOMAIN results', results'[j].status = "GapSource"
      PROVE  /\ results'[j].block \in DOMAIN Source
             /\ LET d == Source[results'[j].block]
                IN  d[2] <= have'[d[1]] =>
                      \E k \in DOMAIN results' :
                        k > j /\ results'[k].block = d /\ results'[k].status = "Progress"
  BY <1>3, <1>5, <1>8, SMTT(30) DEF IInv, GapsOpen, Arrives, InLedger
<1>9. ASSUME NEW a \in DOMAIN sets'.blocking,
             LET d == sets'.blocking[a].dependency IN d[2] <= have'[d[1]]
      PROVE  \E k \in DOMAIN results' : /\ results'[k].block = sets'.blocking[a].dependency
                                         /\ results'[k].status = "Progress"
  <2>1. a \in DOMAIN sets.blocking /\ sets'.blocking[a].dependency = sets.blocking[a].dependency
    BY <1>4 DEF Keeps, Within
  <2> QED
    BY <1>3, <1>5, <1>9, <2>1, Zenon DEF IInv, BlockedOnMissing, InLedger
<1> QED
  BY <1>6, <1>7, <1>8, <1>9, PrimedInv, Zenon

(* The observer of processed blocks moves accounts between the sets.        *)
LEMMA BatchProcessedInv ==
    ASSUME IInv, batch_processed
    PROVE  IInv'
<1> DEFINE r == Head(results)
           b == r.block
<1>1. /\ results \in Seq(ResultType) /\ results # <<>> /\ results' = Tail(results)
      /\ sets' = inspect(sets, b, r.status, r.source)
      /\ have' = have /\ tags' = tags /\ found' = found /\ queue' = queue
  BY Zenon DEF IInv, TypeInv, batch_processed
<1>2. /\ 1 \in DOMAIN results /\ r = results[1] /\ results' \in Seq(ResultType)
      /\ \A i \in DOMAIN results' : i + 1 \in DOMAIN results /\ results'[i] = results[i + 1]
      /\ \A i \in DOMAIN results : i > 1 => i - 1 \in DOMAIN results' /\ results'[i - 1] = results[i]
      /\ \A i \in DOMAIN results : i \in Nat /\ i >= 1
      /\ \A i \in DOMAIN results' : i \in Nat /\ i >= 1
  BY <1>1, SMTT(30)
<1>3. SetsOK(sets)
  BY DEF IInv, TypeInv
<1> HIDE DEF r
<1>4. /\ SetsOK(sets')
      /\ r.status = "GapSource" =>
           /\ DOMAIN sets'.blocking \subseteq DOMAIN sets.blocking \cup {b[1]}
           /\ \A c \in DOMAIN sets'.blocking : sets'.blocking[c].dependency =
                IF c \in DOMAIN sets.blocking THEN sets.blocking[c].dependency ELSE SourceOf(b)
      /\ r.status # "GapSource" => Within(sets'.blocking, sets.blocking)
      /\ r.status = "Progress" /\ b \in Sends /\ Receiver(b) # ZERO_ACCOUNT
           /\ Receiver(b) \in DOMAIN sets'.blocking
           => sets'.blocking[Receiver(b)].dependency # b
  BY <1>1, <1>3, InspectEffect, SMTT(30)
<1>5. r.status = "GapSource" =>
        /\ b \in DOMAIN Source /\ SourceOf(b) = Source[b]
        /\ InLedger(Source[b]) => Arrives(1, Source[b])
  BY <1>2, Zenon DEF IInv, GapsOpen, SourceOf
<1>6. ASSUME NEW a \in DOMAIN sets'.blocking
      PROVE  \/ a \in DOMAIN sets.blocking
                  /\ sets'.blocking[a].dependency = sets.blocking[a].dependency
             \/ /\ r.status = "GapSource" /\ a = b[1]
                /\ sets'.blocking[a].dependency = Source[b]
  BY <1>4, <1>5, Zenon DEF Within
<1>7. TypeInv'
  BY <1>1, <1>2, <1>4, Zenon DEF IInv, TypeInv
<1>8. BlockedFor'
  <2> SUFFICES ASSUME NEW a \in DOMAIN sets'.blocking
               PROVE  \E c \in DOMAIN Source : c[1] = a /\ Source[c] = sets'.blocking[a].dependency
    BY Zenon DEF BlockedFor
  <2> QED
    BY <1>5, <1>6, ZenonT(30) DEF IInv, BlockedFor
<1>9. ASSUME NEW i \in DOMAIN results', results'[i].status = "GapSource"
      PROVE  /\ results'[i].block \in DOMAIN Source
             /\ LET d == Source[results'[i].block]
                IN  d[2] <= have'[d[1]] =>
                      \E j \in DOMAIN results' :
                        j > i /\ results'[j].block = d /\ results'[j].status = "Progress"
  <2> DEFINE d == Source[results'[i].block]
  <2>1. results'[i].block \in DOMAIN Source /\ (InLedger(d) => Arrives(i + 1, d))
    BY <1>2, <1>9, SMTT(30) DEF IInv, GapsOpen
  <2>2. ASSUME Arrives(i + 1, d)
        PROVE  \E j \in DOMAIN results' :
                 j > i /\ results'[j].block = d /\ results'[j].status = "Progress"
    <3>1. PICK j \in DOMAIN results : j > i + 1 /\ results[j].block = d /\ results[j].status = "Progress"
      BY <2>2, Zenon DEF Arrives
    <3>2. j - 1 \in DOMAIN results' /\ j - 1 > i /\ results'[j - 1] = results[j]
      BY <1>2, <3>1, SMTT(30)
    <3> QED
      BY <3>1, <3>2, Zenon
  <2> QED
    BY <1>1, <2>1, <2>2, Zenon DEF InLedger
<1>10. ASSUME NEW a \in DOMAIN sets'.blocking,
              LET d == sets'.blocking[a].dependency IN d[2] <= have'[d[1]]
       PROVE  \E i \in DOMAIN results' : /\ results'[i].block = sets'.blocking[a].dependency
                                          /\ results'[i].status = "Progress"
  <2> DEFINE d == sets'.blocking[a].dependency
  <2>1. InLedger(d)
    BY <1>1, <1>10, Zenon DEF InLedger
  <2>2. CASE a \in DOMAIN sets.blocking /\ d = sets.blocking[a].dependency
    <3>1. PICK i \in DOMAIN results : results[i].block = d /\ results[i].status = "Progress"
      BY <2>1, <2>2, Zenon DEF IInv, BlockedOnMissing
    <3>2. PICK c \in DOMAIN Source : c[1] = a /\ Source[c] = d
      BY <2>2, Zenon DEF IInv, BlockedFor
    <3>3. d \in Sends /\ Receiver(d) = a /\ a # ZERO_ACCOUNT
      BY <3>2, ReceiverFact, Zenon
    <3>4. i # 1
      BY <1>2, <1>4, <3>1, <3>3, Zenon
    <3> QED
      BY <1>2, <3>1, <3>4, SMTT(30)
  <2>3. CASE r.status = "GapSource" /\ d = Source[b]
    <3>1. PICK i \in DOMAIN results : i > 1 /\ results[i].block = d /\ results[i].status = "Progress"
      BY <1>5, <2>1, <2>3, Zenon DEF Arrives
    <3> QED
      BY <1>2, <3>1, Zenon
  <2> QED
    BY <1>6, <2>2, <2>3, Zenon
<1> QED
  BY <1>7, <1>8, <1>9, <1>10, PrimedInv, Zenon

(* Every step keeps the invariant.                                          *)
LEMMA NextInv ==
    ASSUME IInv, [Next]_vars
    PROVE  IInv'
<1>1. CASE Next
  BY <1>1, RunOnePriorityInv, RunOneDatabaseInv, RunOneBlockingInv, ProcessInv, DiscardInv,
     TimerInv, BlocksInv, TimestampResetInv, BatchProcessedInv DEF Next
<1>2. CASE UNCHANGED vars
  BY <1>2, KeepsSelf, QuietStep, Zenon DEF vars, IInv, TypeInv
<1> QED
  BY <1>1, <1>2

(* The inductive invariant holds in every state of the bootstrap.           *)
THEOREM InductiveInvariant == Spec => []IInv
BY InitInv, NextInv, PTL DEF Spec

(* No account is both prioritised and blocked, for every ledger of the peer *)
(* and every size of the account sets: the debug assertion in               *)
(* AccountSets::unblock never fires.                                        *)
THEOREM SetsDisjoint == Spec => []PrioritizedXorBlocked
<1>1. IInv => PrioritizedXorBlocked
  BY DEF IInv, TypeInv, SetsOK, PrioritizedXorBlocked
<1> QED
  BY <1>1, InductiveInvariant, PTL

(* No account stays blocked on a block that is in the ledger, whatever the  *)
(* order of blocks within a batch and however long the batch: inspect       *)
(* always sees the arrival of the source after the gap it closes.           *)
THEOREM BlockedAccountsMiss == Spec => []BlockedOnMissing
<1>1. IInv => BlockedOnMissing
  BY DEF IInv
<1> QED
  BY <1>1, InductiveInvariant, PTL
==============================================================================
