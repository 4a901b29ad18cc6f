---------------------------- MODULE NetworkInfo -----------------------------
(* NetworkInfo of every node: the channels a node knows, its running        *)
(* connection attempts and its permanent bans, behind one read-write lock.  *)
(* A TCP connection is a slot with two ends, the dialler's "out" and the    *)
(* listener's "in"; a node's channels are the ends it owns.  A node has an  *)
(* IP address of its own and listens on port 0; the ephemeral port of a     *)
(* connection is its slot.                                                  *)
EXTENDS Integers, FiniteSets

CONSTANTS Node, Slot, None, max_connections
VARIABLES
    socket,      \* per slot: who dialled whom, how far connecting and accepting are
    channel,     \* per end: ChannelInfo and the state of its response server
    attempts,    \* per node: AttemptContainer
    perma_bans   \* per node: PeerExclusion::perma_bans

End == Slot \X {"out", "in"}

SocketType ==
    [from : Node, to : Node, task : {"connecting", "remove_attempt", "done"},
     accept : {"no", "waiting", "done"}]

ChannelType ==
    [alive : BOOLEAN, mode : {"Undefined", "Realtime"}, node_id : Node \cup {None},
     peering_addr : (Node \X (Slot \cup {0})) \cup {None}, handshake_received : BOOLEAN,
     claimed : Node \cup {None}, pc : {"read", "check", "set", "done"}]

ASSUME NetworkAssumption == Slot \subseteq Nat /\ None \notin SocketType \cup ChannelType

Other(e) == <<e[1], IF e[2] = "out" THEN "in" ELSE "out">>
Owner(e) == IF e[2] = "out" THEN socket[e[1]].from ELSE socket[e[1]].to
Peer(e) == IF e[2] = "out" THEN socket[e[1]].to ELSE socket[e[1]].from
Listening(n) == <<n, 0>>
PeerAddr(e) == <<Peer(e), IF e[2] = "out" THEN 0 ELSE e[1]>>

NewChannel(e) ==
    [alive |-> TRUE, mode |-> "Undefined", node_id |-> None,
     peering_addr |-> IF e[2] = "out" THEN PeerAddr(e) ELSE None,
     handshake_received |-> FALSE, claimed |-> None, pc |-> "read"]

(* The channels in the map, and those that is_alive                         *)
Channels(n) == {e \in End : channel[e] # None /\ Owner(e) = n}
Alive(n) == {e \in Channels(n) : channel[e].alive}
Realtime(n) == {e \in Alive(n) : channel[e].mode = "Realtime"}

CountByDirection(n, side) == Cardinality({e \in Alive(n) : e[2] = side})
CountByIp(n, ip) == Cardinality({e \in Alive(n) : Peer(e) = ip})

ValidateNewConnection(n, ep, side, running, max_peers_per_ip) ==
    /\ CountByDirection(n, side) < max_connections[side]
    /\ ep \notin perma_bans[n]
    /\ CountByIp(n, ep[1]) + Cardinality({r \in running : r[1] = ep[1]}) < max_peers_per_ip
    /\ side = "out" =>
         \A e \in Alive(n) : ep \notin {PeerAddr(e), channel[e].peering_addr}

(* upgrade_to_realtime_connection checks and sets under the read lock: two  *)
(* channels may do so at once, a writer waits for both.                     *)
Reading(n) == \E e \in End : channel[e] # None /\ channel[e].pc = "set" /\ Owner(e) = n

FindNodeId(n, node) == {e \in Alive(n) : channel[e].node_id = node}
MayUpgrade(e) ==
    \A o \in FindNodeId(Owner(e), channel[e].claimed) : Peer(o) # Peer(e)

(* purge: remove_dead_channels.  A dead channel counts nowhere, so that it  *)
(* makes no difference that it stays until its response server has ended.   *)
DeadChannels(n) == {e \in Channels(n) : ~channel[e].alive /\ channel[e].pc = "done"}

=============================================================================
