----------------------------- MODULE LedgerSums -----------------------------
(***************************************************************************)
(* Properties of the ledger that add up table entries: the supply, the     *)
(* representative weights and the counters that Ledger::initialize         *)
(* computes from the tables when the node starts.                          *)
(***************************************************************************)
EXTENDS Ledger, FiniteSetsExt

Opened == {a \in Account : account[a] # None}

SumOver(S, f(_)) == MapThenSumSet(f, S)

(* The amounts in the account table and in the pending table add up to the *)
(* genesis supply: no processed, rolled back or half rolled back block     *)
(* creates or destroys money.                                              *)
SupplyConserved ==
    SumOver(Opened, LAMBDA a : account[a].balance)
        + SumOver(pending, LAMBDA p : p.amount) = Supply

(* Ledger::initialize: a representative's weight is the sum of the         *)
(* balances that name it.                                                  *)
DelegatedTo(r) ==
    SumOver({a \in Opened : account[a].rep = r}, LAMBDA a : account[a].balance)

(* Ledger::initialize: the counters recomputed after a restart             *)
Recount ==
    [block |-> SumOver(Opened, LAMBDA a : account[a].blockCount),
     account |-> Cardinality(Opened),
     cemented |-> SumOver(Account, LAMBDA a : confirmation[a].height),
     pruned |-> Cardinality(pruned)]

(* The representative weights and the counters kept in memory are those a  *)
(* restarted node would compute from the tables, and the block counter is  *)
(* the number of stored and pruned blocks: nothing drifts, whatever is     *)
(* processed, rolled back, cemented or pruned.                             *)
CachesMatchTables ==
    /\ \A r \in Account \cup {Zero} : weight[r] = DelegatedTo(r)
    /\ count = Recount
    /\ count.block = Cardinality(Stored) + Cardinality(pruned)

=============================================================================
