--------------------------- MODULE MCConfirmingSet ---------------------------
(***************************************************************************)
(* Two accounts that pay each other: rf depends on s1 directly and through *)
(* tb and ob, so that a walk from rf has s1 on its stack twice and is      *)
(* longer than MaxBlocks.                                                  *)
(***************************************************************************)
EXTENDS ConfirmingSet, MCBlocks

PayBackBlocks ==
    [G |-> GenesisOpen,
     s1 |-> State("G", "g", 2, "b", "g"),
     ob |-> State(Zero, "b", 2, "s1", "b"),
     tb |-> State("ob", "b", 1, "g", "b"),
     rf |-> State("s1", "g", 3, "tb", "g")]
PayBackHash == DOMAIN PayBackBlocks
=============================================================================
