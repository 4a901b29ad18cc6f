---------------------------- MODULE VotingWeight ----------------------------
(***************************************************************************)
(* Representatives and their weight.  A hash is a natural number, because  *)
(* the code compares hashes; Hash holds the competing blocks of one        *)
(* qualified root.                                                         *)
(***************************************************************************)
EXTENDS Naturals, FiniteSets, FiniteSetsExt

CONSTANTS
    Hash,
    Rep,            \* representatives
    Own,            \* those of this node's wallets
    NotAnAccount,   \* HardenedConstants::not_an_account_key, of weight zero
    Weight,         \* the weight of every voter
    Delta,          \* OnlineReps::quorum_delta
    None            \* no hash

Voter == Rep \cup {NotAnAccount}

ASSUME WeightAssumption ==
    /\ Hash \subseteq Nat \ {0} /\ IsFiniteSet(Rep) /\ Own \subseteq Rep
    /\ NotAnAccount \notin Rep /\ Delta \in Nat \ {0}
    /\ Weight \in [Voter -> Nat] /\ Weight[NotAnAccount] = 0

Sum == [voters \in SUBSET Voter |-> MapThenSumSet(LAMBDA v : Weight[v], voters)]
WeightOf(voters) == Sum[voters]
=============================================================================
