---- MODULE MCBootstrapAscending ----
(* Three accounts.  The genesis account sends to the other two.  Live       *)
(* traffic may bring a block of the second account, newer than what the     *)
(* peer has, before its source is there.  With a place for one account the  *)
(* sends push each other's receiver out, and only the scan finds it again.  *)
(* With three places nothing is lost, with two it depends.  The cutoff      *)
(* drops an account after one or two fruitless pulls, not after four.       *)
EXTENDS BootstrapAscending

MCLength == <<3, 1, 1>>
MCSource == [b \in {<<2, 1>>, <<3, 1>>} |-> <<1, b[1]>>]
MCLive == {<<2, 2>>}
MCConfig(database, places, blocks) ==
  [scan |-> database, live |-> blocks,
   sets |-> [priorities_max |-> places, blocking_max |-> places]]
MCConfigs == {MCConfig(TRUE, 1, MCLive), MCConfig(FALSE, 2, MCLive), MCConfig(FALSE, 3, {})}
====
