---------------------------- MODULE AccountSets ----------------------------
(****************************************************************************)
(* The account sets of the ascending bootstrap                              *)
(* (node/src/bootstrap/ascending/account_sets.rs with ordered_priorities.rs *)
(* and ordered_blocking.rs), as operators on a record                       *)
(*   [prios    |-> [set of accounts -> [priority, ready, rank]],            *)
(*    blocking |-> [set of accounts -> [dependency, account, entry, rank]], *)
(*    config   |-> [priorities_max, blocking_max]].                         *)
(* "rank" is the place in the order of insertion (the field sequenced) and  *)
(* "ready" says that the cooldown since the last request is over.  A        *)
(* Priority is kept in 1/64 so that it stays whole when it is halved.       *)
(****************************************************************************)
EXTENDS Integers, FiniteSets

CONSTANT
  PRIORITY_CUTOFF \* 9 in the code (0.15 lies between 9/64 and 10/64)

ZERO_ACCOUNT == 0
PRIORITY_INITIAL == 128
PRIORITY_INCREASE == 128
PRIORITY_MAX == 8192

EmptySets(config) ==
  [prios |-> [a \in {} |-> 0], blocking |-> [a \in {} |-> 0], config |-> config]

blocked(s, a) == a \in DOMAIN s.blocking
prioritized(s, a) == a \in DOMAIN s.prios

(* Removal closes the gap in the order; insertion is at the end. *)
Without(f, a) ==
  [b \in DOMAIN f \ {a} |-> IF f[b].rank > f[a].rank THEN [f[b] EXCEPT !.rank = @ - 1] ELSE f[b]]

RemoveKey(f, a) == IF a \in DOMAIN f THEN Without(f, a) ELSE f

With(f, a, e) ==
  [b \in DOMAIN f \cup {a} |->
     IF b = a THEN [e EXCEPT !.rank = Cardinality(DOMAIN f) + 1] ELSE f[b]]

Entry(p) == [priority |-> p, ready |-> TRUE, rank |-> 0]

(* pop_front while the set is too long.  Every operation adds at most one   *)
(* entry to each set, so at most one is popped.                             *)
Trimmed(f, max) ==
  IF Cardinality(DOMAIN f) > max
  THEN RemoveKey(f, CHOOSE a \in DOMAIN f : f[a].rank = 1)
  ELSE f

trim_overflow(s) ==
  [s EXCEPT !.prios = Trimmed(@, s.config.priorities_max),
            !.blocking = Trimmed(@, s.config.blocking_max)]

Insert(s, a, p) == [s EXCEPT !.prios = With(@, a, Entry(p))]

higher_priority(p) ==
  IF p + PRIORITY_INCREASE < PRIORITY_MAX THEN p + PRIORITY_INCREASE ELSE PRIORITY_MAX

priority_up(s, a) ==
  IF a = ZERO_ACCOUNT \/ blocked(s, a) THEN s
  ELSE IF prioritized(s, a)
  THEN [s EXCEPT !.prios[a].priority = higher_priority(@)]
  ELSE trim_overflow(Insert(s, a, PRIORITY_INITIAL))

priority_down(s, a) ==
  IF ~prioritized(s, a) THEN s
  ELSE IF s.prios[a].priority \div 2 <= PRIORITY_CUTOFF
  THEN [s EXCEPT !.prios = RemoveKey(@, a)]
  ELSE [s EXCEPT !.prios[a].priority = @ \div 2]

priority_set(s, a) ==
  IF a = ZERO_ACCOUNT \/ blocked(s, a) \/ prioritized(s, a) THEN s
  ELSE trim_overflow(Insert(s, a, PRIORITY_INITIAL))

(* A slip: a blocked account keeps its place among the priorities. *)
block_KeepsPriority(s, a, dependency) ==
  LET entry == IF prioritized(s, a) THEN s.prios[a] ELSE Entry(0)
      new == [dependency |-> dependency, account |-> ZERO_ACCOUNT, entry |-> entry, rank |-> 0]
  IN  trim_overflow([s EXCEPT !.blocking = IF a \in DOMAIN @ THEN @ ELSE With(@, a, new)])

(* OrderedBlocking::insert keeps the entry of an account that is blocked    *)
(* already, with its old dependency.                                        *)
block(s, a, dependency) ==
  LET entry == IF prioritized(s, a) THEN s.prios[a] ELSE Entry(0)
      new == [dependency |-> dependency, account |-> ZERO_ACCOUNT, entry |-> entry, rank |-> 0]
  IN  trim_overflow([s EXCEPT !.prios = RemoveKey(@, a),
                              !.blocking = IF a \in DOMAIN @ THEN @ ELSE With(@, a, new)])

(* unblock(account, None) *)
unblock_any(s, a) ==
  IF a = ZERO_ACCOUNT \/ ~blocked(s, a) THEN s
  ELSE trim_overflow([s EXCEPT !.prios = With(@, a, s.blocking[a].entry),
                               !.blocking = RemoveKey(@, a)])

(* unblock(account, Some(hash)): only if the dependency is fulfilled. *)
unblock(s, a, hash) ==
  IF blocked(s, a) THEN IF s.blocking[a].dependency = hash THEN unblock_any(s, a) ELSE s ELSE s

timestamp(s, a, ready) ==
  IF prioritized(s, a) THEN [s EXCEPT !.prios[a].ready = ready] ELSE s

dependency_update(s, hash, account) ==
  [s EXCEPT !.blocking =
     [b \in DOMAIN @ |-> IF @[b].dependency = hash THEN [@[b] EXCEPT !.account = account] ELSE @[b]]]

(* The accounts of known dependencies, in the order of the accounts, as far *)
(* as there is room.                                                        *)
sync_dependencies(s) ==
  LET known == {s.blocking[b].account : b \in DOMAIN s.blocking} \ {ZERO_ACCOUNT}
      missing == known \ (DOMAIN s.blocking \cup DOMAIN s.prios)
      len == Cardinality(DOMAIN s.prios)
      place(c) == len + Cardinality({d \in missing : d <= c})
      new == {c \in missing : place(c) <= s.config.priorities_max}
  IN  trim_overflow([s EXCEPT !.prios =
        [b \in DOMAIN @ \cup new |->
           IF b \in new THEN [Entry(PRIORITY_INITIAL) EXCEPT !.rank = place(b)] ELSE @[b]]])

(* The accounts next_priority may return: ready, not filtered out, and none *)
(* of a higher priority.  The order among equals is left open.              *)
next_priority(s, filter) ==
  LET free == {a \in DOMAIN s.prios \cap filter : s.prios[a].ready}
  IN  {a \in free : \A b \in free : s.prios[b].priority <= s.prios[a].priority}

(* The dependencies next_blocking may return: those whose account is not    *)
(* known yet.                                                               *)
next_blocking(s, asked) ==
  {s.blocking[b].dependency : b \in {c \in DOMAIN s.blocking : s.blocking[c].account = ZERO_ACCOUNT}}
    \ asked

priority_half_full(s) == Cardinality(DOMAIN s.prios) > s.config.priorities_max \div 2
blocked_half_full(s) == Cardinality(DOMAIN s.blocking) > s.config.blocking_max \div 2

(* What the debug assertion in unblock relies on: no account is both.       *)
Disjoint(s) == DOMAIN s.prios \cap DOMAIN s.blocking = {}
============================================================================
