------------------------------ MODULE MCBlocks ------------------------------
(***************************************************************************)
(* The accounts of the small instances, and how their blocks are built.    *)
(***************************************************************************)
EXTENDS Blocks

MCAccount == {"g", "a", "b", "epoch1"}
MCEpochOf == [x \in {"epoch1"} |-> 1]

Make(type, prev, acc, bal, link, rep, signer) ==
    [type |-> type, previous |-> prev, account |-> acc, balance |-> bal,
     link |-> link, rep |-> rep, signer |-> signer, work |-> TRUE]

State(prev, acc, bal, link, rep) == Make("state", prev, acc, bal, link, rep, acc)
EpochUpgrade(prev, acc, bal, rep) ==
    Make("state", prev, acc, bal, "epoch1", rep, EpochSigner)
LegacySend(prev, signer, bal, dest) == Make("send", prev, Zero, bal, dest, Zero, signer)
LegacyReceive(prev, signer, source) == Make("receive", prev, Zero, 0, source, Zero, signer)
LegacyOpen(acc, source, rep) == Make("open", Zero, acc, 0, source, rep, acc)
LegacyChange(prev, signer, rep) == Make("change", prev, Zero, 0, Zero, rep, signer)

GenesisOpen == LegacyOpen("g", "g", "g")

=============================================================================
