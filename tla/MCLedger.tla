------------------------------ MODULE MCLedger ------------------------------
(***************************************************************************)
(* A small universe of blocks for the ledger: sends, receives and forks of *)
(* them, so that TLC processes the blocks in every legal order, rolls      *)
(* back any of them at any time and cements or prunes in between.          *)
(***************************************************************************)
EXTENDS LedgerSums, MCBlocks, TLC

(* The first send of the genesis account is a state block or a legacy one, *)
(* forks of each other: TLC explores both worlds and the way from one to   *)
(* the other.  With state blocks: two sends of the genesis account, a fork *)
(* of the second, a payment back, an epoch upgrade and an account opened   *)
(* by an epoch; the last eight blocks break a rule each.                   *)
StateBlocks ==
    [G |-> GenesisOpen,
     s1 |-> State("G", "g", 2, "a", "g"),
     s2 |-> State("s1", "g", 1, "b", "g"),
     s2f |-> State("s1", "g", 0, "a", "b"),
     oa |-> State(Zero, "a", 2, "s1", "b"),
     oaf |-> State(Zero, "a", 2, "s2f", "a"),
     ta |-> State("oa", "a", 1, "g", "b"),
     ea |-> EpochUpgrade("oa", "a", 2, "b"),
     ra |-> State("ea", "a", 4, "s2f", "a"),
     rg |-> State("s2", "g", 2, "ta", "g"),
     ob |-> State(Zero, "b", 1, "s2", "a"),
     eb |-> EpochUpgrade(Zero, "b", 0, Zero),
     rb |-> State("eb", "b", 1, "s2", "b"),
     burn |-> State("ta", "a", 0, Zero, "a"),
     toEpoch |-> State("ta", "a", 0, "epoch1", "b"),
     forged |-> [State("s1", "g", 0, "b", "g") EXCEPT !.signer = "b"],
     lazy |-> [State("s1", "g", 0, "b", "g") EXCEPT !.work = FALSE],
     greedy |-> State(Zero, "a", 3, "s1", "a"),
     foreign |-> State(Zero, "b", 2, "s1", "b"),
     twice |-> State("oa", "a", 4, "s1", "b"),
     ownEpoch |-> State("oa", "a", 2, "epoch1", "b"),
     repEpoch |-> EpochUpgrade("oa", "a", 2, "a"),
     oldType |-> LegacyChange("oa", "a", "a")]

(* With legacy blocks: two sends and a fork of the second, a state block    *)
(* that receives a legacy send, a negative spend and a second receive.      *)
LegacyBlocks ==
    [ls1 |-> LegacySend("G", "g", 3, "a"),
     lc1 |-> LegacyChange("ls1", "g", "b"),
     ls2 |-> LegacySend("lc1", "g", 1, "a"),
     ls2f |-> LegacySend("lc1", "g", 2, "b"),
     loa |-> LegacyOpen("a", "ls1", "b"),
     loaf |-> LegacyOpen("a", "ls2", "a"),
     lra |-> LegacyReceive("loa", "a", "ls2"),
     lca |-> LegacyChange("loa", "a", "a"),
     lob |-> State(Zero, "b", 1, "ls2f", "g"),
     negative |-> LegacySend("ls1", "g", 4, "a"),
     ltwice |-> LegacyReceive("loa", "a", "ls1")]

MCBlock == StateBlocks @@ LegacyBlocks
MCHash == DOMAIN MCBlock
=============================================================================
