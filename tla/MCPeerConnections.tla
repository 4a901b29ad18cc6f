------------------------- MODULE MCPeerConnections --------------------------
(* Two nodes and two connections at a time.  Only one node knows the other, *)
(* which hears of its own address in keepalives and dials itself; only one  *)
(* dials, and something takes too long; both dial, with one cookie and two  *)
(* channels per address, attempts included; the nodes belong to different   *)
(* networks.                                                                *)
EXTENDS PeerConnections

CONSTANTS a, b

Setting(cached, genesis, peers, held, reach, bound) ==
  [cached |-> cached, genesis |-> genesis, max_peers_per_ip |-> peers,
   max_cookies_per_ip |-> held, reachout |-> reach, faults |-> bound]
OneSided == a :> {b} @@ b :> {}
Mutual == a :> {b} @@ b :> {a}
Same == a :> 1 @@ b :> 1
Different == a :> 1 @@ b :> 2
MCConfigs ==
  {Setting(OneSided, Same, 4, 2, {b}, 0), Setting(OneSided, Same, 4, 2, {}, 1),
   Setting(Mutual, Same, 2, 1, {}, 0), Setting(OneSided, Different, 4, 2, {}, 0)}
MCMaxConnections == [side \in {"out", "in"} |-> 2]
=============================================================================
