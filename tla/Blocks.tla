------------------------------- MODULE Blocks -------------------------------
(***************************************************************************)
(* The blocks of the block lattice (core/src/blocks, core/src/epoch.rs).   *)
(* A block is named by its hash; what it says is the constant Block[hash], *)
(* because a hash commits to its content.  Accounts, representatives,      *)
(* hashes and links are all 256-bit numbers in the code, so a link may     *)
(* name an account (a send), a block (a receive) or an epoch.              *)
(***************************************************************************)
EXTENDS Naturals, FiniteSets

CONSTANTS
    Hash,            \* hashes of all the blocks that may ever be seen
    Account,         \* account numbers, epoch links among them
    Zero,            \* the number zero: no block, burn account, no link
    Block,           \* the content of each block
    Genesis,         \* hash of the genesis block
    GenesisAccount,
    Supply,          \* balance of the genesis block
    EpochOf,         \* the epoch that each epoch link upgrades to
    EpochSigner      \* the key that signs epoch blocks

BlockType == {"send", "receive", "open", "change", "state"}

(* link holds the destination of a legacy send, the source of a legacy     *)
(* receive or open, and the link of a state block; signer is the key whose *)
(* signature verifies, work says whether the proof of work suffices.       *)
Content ==
    [type : BlockType, previous : Hash \cup {Zero}, account : Account \cup {Zero},
     balance : Nat, link : Hash \cup Account \cup {Zero},
     rep : Account \cup {Zero}, signer : Account \cup {Zero, EpochSigner},
     work : BOOLEAN]

ASSUME BlocksAssumption ==
    /\ Zero \notin Hash \cup Account
    /\ Hash \cap Account = {}
    /\ Block \in [Hash -> Content]
    /\ Genesis \in Hash
    /\ GenesisAccount \in Account
    /\ Supply \in Nat \ {0}
    /\ DOMAIN EpochOf \subseteq Account
    /\ \A link \in DOMAIN EpochOf : EpochOf[link] \in 1..2
    /\ \A h \in Hash : Block[h].type = "open" => Block[h].previous = Zero
    /\ Block[Genesis].type = "open"
    /\ Block[Genesis].account = GenesisAccount
    /\ Block[Genesis].rep = GenesisAccount
    /\ Block[Genesis].link \notin Hash

Type(h) == Block[h].type

Previous(h) == Block[h].previous

(* Block::is_open                                                          *)
IsOpen(h) == Type(h) = "open" \/ (Type(h) = "state" /\ Previous(h) = Zero)

(* Block::source_or_link, Block::destination_or_link                       *)
SourceOrLink(h) ==
    IF Type(h) \in {"receive", "open", "state"} THEN Block[h].link ELSE Zero

DestinationOrLink(h) ==
    IF Type(h) \in {"send", "state"} THEN Block[h].link ELSE Zero

(* Epochs::is_epoch_link on the link field, which only state blocks have   *)
HasEpochLink(h) == Type(h) = "state" /\ Block[h].link \in DOMAIN EpochOf

(* BlockBase::valid_predecessor                                            *)
ValidPredecessor(h, type) ==
    CASE Type(h) = "state" -> TRUE
      [] Type(h) = "open" -> FALSE
      [] OTHER -> type # "state"

(* BlockBase::representative_field: which blocks name a representative     *)
HasRepresentative(h) == Type(h) \in {"open", "change", "state"}

(* Block::root: the previous block, or the account for an open block.      *)
(* Two blocks with the same root are forks of each other.                  *)
Root(h) == IF Previous(h) = Zero THEN Block[h].account ELSE Previous(h)

=============================================================================
