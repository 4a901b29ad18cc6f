-------------------------- MODULE PeerConnections ---------------------------
(* How nodes get and keep connections to each other: PeerConnector and      *)
(* TcpListener make them, ResponseServer and HandshakeProcess turn them     *)
(* into realtime channels, keepalives spread addresses to dial, and the     *)
(* clean-up thread removes what is closed.  All nodes run this code.        *)
EXTENDS NetworkInfo, SynCookies, Sequences, TLC

CONSTANT Configs   \* settings of the nodes, and a bound on the faults

VARIABLES
    inbox,       \* per end: messages sent to it and not yet read
    latest_keepalives, \* per end: addresses of the last keepalive read there
    reachout,    \* per node: addresses the reachout loop has still to dial
    faults,
    config

info == <<socket, channel, attempts, perma_bans>>
gossip == <<latest_keepalives, reachout>>
vars == <<info, cookies, inbox, gossip, faults, config>>

Keepalive(peers) == [type |-> "keepalive", peers |-> peers]
Handshake(query, response) == [type |-> "handshake", query |-> query, response |-> response]
Response(n, cookie) == [node_id |-> n, cookie |-> cookie, genesis |-> config.genesis[n]]

(* A cookie is random: it stands for the end that drew it, before or after  *)
(* it received a handshake.                                                 *)
Init ==
    /\ config \in Configs
    /\ socket = [k \in Slot |-> None]
    /\ channel = [e \in End |-> None]
    /\ attempts = [n \in Node |-> {}]
    /\ perma_bans = [n \in Node |-> {}]
    /\ cookies = [n \in Node |-> [ep \in {} |-> None]]
    /\ inbox = [e \in End |-> <<>>]
    /\ latest_keepalives = [e \in End |-> None]
    /\ reachout = [n \in Node |-> {}]
    /\ faults = 0

----------------------------------------------------------------------------
Closed(c) == [c EXCEPT !.alive = FALSE, !.pc = "done"]

(* A slot whose ends are both done with can be used again, port included.   *)
Recycled(sockets, channels) ==
    [k \in Slot |->
        IF /\ sockets[k] # None /\ sockets[k].task = "done" /\ sockets[k].accept # "waiting"
           /\ channels[<<k, "out">>] = None /\ channels[<<k, "in">>] = None
        THEN None ELSE sockets[k]]

Valid(n, ep, side, running) ==
    ValidateNewConnection(n, ep, side, running, config.max_peers_per_ip)

FreeSlots == {k \in Slot : socket[k] = None}

(* connect_to validates, records the attempt and validates once more, the   *)
(* attempt counted, before it spawns the connecting task.                   *)
MayConnect(n, p) ==
    /\ Valid(n, Listening(p), "out", attempts[n])
    /\ Valid(n, Listening(p), "out", attempts[n] \cup {Listening(p)})

ConnectTo(n, p) ==
    /\ MayConnect(n, p)
    /\ FreeSlots # {}
    /\ attempts' = [attempts EXCEPT ![n] = @ \cup {Listening(p)}]
    /\ LET k == CHOOSE s \in FreeSlots : \A t \in FreeSlots : s <= t IN
       socket' = [socket EXCEPT
           ![k] = [from |-> n, to |-> p, task |-> "connecting", accept |-> "no"]]

(* PeerCacheConnector dials the stored peers again and again                *)
DialCached(n, p) ==
    /\ p \in config.cached[n]
    /\ ~Reading(n)
    /\ ConnectTo(n, p)
    /\ UNCHANGED <<channel, perma_bans, cookies, inbox, gossip, faults, config>>

(* ReachoutLoop takes a random keepalive, then dials its addresses          *)
PopKeepalive(n, e) ==
    /\ n \in config.reachout /\ reachout[n] = {}
    /\ socket[e[1]] # None /\ Owner(e) = n
    /\ latest_keepalives[e] # None
    /\ reachout' = [reachout EXCEPT ![n] = latest_keepalives[e]]
    /\ latest_keepalives' = [latest_keepalives EXCEPT ![e] = None]
    /\ UNCHANGED <<info, cookies, inbox, faults, config>>

DialReachout(n, p) ==
    /\ p \in reachout[n]
    /\ ~Reading(n)
    /\ reachout' = [reachout EXCEPT ![n] = @ \ {p}]
    /\ \/ ConnectTo(n, p)
       \/ ~MayConnect(n, p) /\ UNCHANGED <<socket, attempts>>
    /\ UNCHANGED <<channel, perma_bans, cookies, inbox, latest_keepalives, faults, config>>

(* connect_impl: the TCP connection is there, and the channel is added      *)
(* unless the limits refuse it by now.  Its response server first sends a   *)
(* query with a fresh cookie, or closes the channel if it can get none.     *)
AddOutbound(k) ==
    LET e == <<k, "out">>
        n == Owner(e)
        ep == PeerAddr(e)
        added == Valid(n, ep, "out", attempts[n])
        assigned == added /\ Assigns(n, ep, config.max_cookies_per_ip)
        cookie == <<e, FALSE>> IN
    /\ socket[k] # None /\ socket[k].task = "connecting"
    /\ ~Reading(n)
    /\ socket' = [socket EXCEPT ![k].task = "remove_attempt", ![k].accept = "waiting"]
    /\ channel' = [channel EXCEPT ![e] = CASE assigned -> NewChannel(e)
                                           [] added /\ ~assigned -> Closed(NewChannel(e))
                                           [] OTHER -> None]
    /\ cookies' = IF assigned THEN [cookies EXCEPT ![n] = Assigned(@, ep, cookie)] ELSE cookies
    /\ inbox' = IF assigned THEN [inbox EXCEPT ![Other(e)] = <<Handshake(cookie, None)>>]
                            ELSE inbox
    /\ UNCHANGED <<attempts, perma_bans, gossip, faults, config>>

ConnectFails(k) ==
    /\ socket[k] # None /\ socket[k].task = "connecting"
    /\ faults < config.faults
    /\ faults' = faults + 1
    /\ socket' = [socket EXCEPT ![k].task = "remove_attempt"]
    /\ UNCHANGED <<channel, attempts, perma_bans, cookies, inbox, gossip, config>>

RemoveAttempt(k) ==
    /\ socket[k] # None /\ socket[k].task = "remove_attempt"
    /\ ~Reading(socket[k].from)
    /\ attempts' = [attempts EXCEPT ![socket[k].from] = @ \ {Listening(socket[k].to)}]
    /\ socket' = Recycled([socket EXCEPT ![k].task = "done"], channel)
    /\ UNCHANGED <<channel, perma_bans, cookies, inbox, gossip, faults, config>>

(* TcpListener::run waits for an inbound slot, accepts and adds             *)
Accept(k) ==
    LET e == <<k, "in">>
        n == Owner(e)
        added == Valid(n, PeerAddr(e), "in", attempts[n]) IN
    /\ socket[k] # None /\ socket[k].accept = "waiting"
    /\ CountByDirection(n, "in") < max_connections["in"]
    /\ ~Reading(n)
    /\ channel' = IF added THEN [channel EXCEPT ![e] = NewChannel(e)] ELSE channel
    /\ inbox' = IF added THEN inbox ELSE [inbox EXCEPT ![e] = <<>>]
    /\ socket' = Recycled([socket EXCEPT ![k].accept = "done"], channel')
    /\ UNCHANGED <<attempts, perma_bans, cookies, gossip, faults, config>>

(* The stream of this end was dropped: closed, or refused by add            *)
Gone(e) ==
    IF channel[e] # None THEN ~channel[e].alive
    ELSE IF e[2] = "out" THEN socket[e[1]].task # "connecting"
         ELSE socket[e[1]].accept = "done"

Running(e, pc) == channel[e] # None /\ channel[e].pc = pc

(* What e sends reaches its peer's inbox                                    *)
Send(boxes, e, message) ==
    IF channel[e].alive /\ ~Gone(Other(e))
    THEN [boxes EXCEPT ![Other(e)] = Append(@, message)] ELSE boxes

----------------------------------------------------------------------------
(* Slip: a node does not notice that it talks to itself                     *)
VerifyResponse_NotOwn(n, response, ep, held) ==
    IF response.genesis # config.genesis[n] THEN "InvalidGenesis"
    ELSE IF ep \notin DOMAIN held THEN "MissingCookie"
    ELSE IF response.cookie # held[ep] THEN "InvalidSignature"
    ELSE "Realtime"

(* verify_response, against the cookies held once the query was answered    *)
VerifyResponse(n, response, ep, held) ==
    IF response.node_id = n THEN "OwnNodeId"
    ELSE IF response.genesis # config.genesis[n] THEN "InvalidGenesis"
    ELSE IF ep \notin DOMAIN held THEN "MissingCookie"
    ELSE IF response.cookie # held[ep] THEN "InvalidSignature"
    ELSE "Realtime"

(* process_handshake: a query is answered, with our own query if a cookie   *)
(* is to be had; then a response is verified.                               *)
ProcessHandshake(e, message) ==
    LET n == Owner(e)
        ep == PeerAddr(e)
        c == [channel[e] EXCEPT !.handshake_received = TRUE]
        asked == message.query # None
        own == asked /\ Assigns(n, ep, config.max_cookies_per_ip)
        cookie == <<e, TRUE>>
        held == IF own THEN Assigned(cookies[n], ep, cookie) ELSE cookies[n]
        reply == Handshake(IF own THEN cookie ELSE None, Response(n, message.query))
        status == IF message.response = None THEN "Handshake"
                  ELSE VerifyResponse(n, message.response, ep, held)
        banned == status = "OwnNodeId" /\ c.peering_addr # None
        goes_on == status \in {"Handshake", "Realtime"}
        box == [inbox EXCEPT ![e] = IF goes_on THEN Tail(@) ELSE <<>>]
    IN
    /\ banned => ~Reading(n)
    /\ inbox' = IF asked THEN Send(box, e, reply) ELSE box
    /\ cookies' = [cookies EXCEPT ![n] =
           IF status \in {"Handshake", "OwnNodeId", "InvalidGenesis"} THEN held
           ELSE Taken(held, ep)]
    /\ perma_bans' = IF banned
           THEN [perma_bans EXCEPT ![n] = @ \cup {c.peering_addr}] ELSE perma_bans
    /\ channel' = [channel EXCEPT ![e] =
           CASE status = "Handshake" -> c
             [] status = "Realtime" ->
                  [c EXCEPT !.claimed = message.response.node_id, !.pc = "check"]
             [] OTHER -> Closed(c)]
    /\ UNCHANGED <<socket, attempts>>

Abort(e) ==
    /\ channel' = [channel EXCEPT ![e] = Closed(@)]
    /\ inbox' = [inbox EXCEPT ![e] = <<>>]
    /\ UNCHANGED <<socket, attempts, perma_bans, cookies>>

(* Slip: a keepalive before the end of the handshake is skipped             *)
Receive_Skips(e) ==
    /\ Running(e, "read") /\ channel[e].alive /\ inbox[e] # <<>>
    /\ channel[e].mode = "Undefined"
    /\ LET message == Head(inbox[e]) IN
       \/ /\ message.type = "handshake"
          /\ message.query = None \/ ~channel[e].handshake_received
          /\ ProcessHandshake(e, message)
       \/ /\ message.type = "handshake"
          /\ message.query # None /\ channel[e].handshake_received
          /\ Abort(e)
       \/ /\ message.type = "keepalive"
          /\ inbox' = [inbox EXCEPT ![e] = Tail(@)]
          /\ UNCHANGED <<info, cookies>>
    /\ UNCHANGED <<gossip, faults, config>>

(* process_message while the channel is undefined: a handshake, of which    *)
(* only the first may be a query; anything else ends the connection.        *)
Receive(e) ==
    /\ Running(e, "read") /\ channel[e].alive /\ inbox[e] # <<>>
    /\ channel[e].mode = "Undefined"
    /\ LET message == Head(inbox[e]) IN
       \/ /\ message.type = "handshake"
          /\ message.query = None \/ ~channel[e].handshake_received
          /\ ProcessHandshake(e, message)
       \/ /\ message.type = "handshake"
          /\ message.query # None /\ channel[e].handshake_received
          /\ Abort(e)
       \/ /\ message.type = "keepalive"
          /\ Abort(e)
    /\ UNCHANGED <<gossip, faults, config>>

(* upgrade_to_realtime_connection: looks for the node id, then sets it.     *)
CheckUpgrade(e) ==
    /\ Running(e, "check")
    /\ \/ /\ MayUpgrade(e)
          /\ channel' = [channel EXCEPT ![e].pc = "set"]
          /\ UNCHANGED <<socket, attempts, perma_bans, cookies, inbox>>
       \/ /\ ~MayUpgrade(e)
          /\ Abort(e)
    /\ UNCHANGED <<gossip, faults, config>>

SetRealtime(e) ==
    /\ Running(e, "set")
    /\ channel' = [channel EXCEPT
           ![e] = [@ EXCEPT !.node_id = channel[e].claimed, !.mode = "Realtime", !.pc = "read"]]
    /\ UNCHANGED <<socket, attempts, perma_bans, cookies, inbox, gossip, faults, config>>

(* process_realtime: a keepalive is kept for the reachout loop, and the     *)
(* message handler learns where the sender listens.                         *)
ReceiveRealtime(e) ==
    LET message == Head(inbox[e]) IN
    /\ Running(e, "read") /\ channel[e].alive /\ inbox[e] # <<>>
    /\ channel[e].mode = "Realtime" /\ message.type = "keepalive"
    /\ inbox' = [inbox EXCEPT ![e] = Tail(@)]
    /\ latest_keepalives' = [latest_keepalives EXCEPT ![e] = message.peers]
    /\ channel' = [channel EXCEPT ![e].peering_addr = Listening(Peer(e))]
    /\ UNCHANGED <<socket, attempts, perma_bans, cookies, reachout, faults, config>>

(* read fails: the channel is closed, or the peer's stream is gone, with or *)
(* without what the peer had still queued.                                  *)
ReadFails(e) ==
    /\ Running(e, "read")
    /\ ~channel[e].alive \/ Gone(Other(e))
    /\ Abort(e)
    /\ UNCHANGED <<gossip, faults, config>>

(* KeepaliveLoop: the addresses of the realtime peers, random_fill_realtime. *)
(* One keepalive at a time is under way, and none that repeats the last one. *)
RealtimePeers(n) ==
    {channel[e].peering_addr[1] : e \in {r \in Realtime(n) : channel[r].peering_addr # None}}
Repeats(e, peers) ==
    LET c == channel[Other(e)] IN
    c # None => c.peering_addr # None /\ latest_keepalives[Other(e)] = peers

SendKeepalive(e) ==
    /\ channel[e] # None /\ e \in Realtime(Owner(e))
    /\ ~Gone(Other(e))
    /\ ~Repeats(e, RealtimePeers(Owner(e)))
    /\ \A i \in DOMAIN inbox[Other(e)] : inbox[Other(e)][i].type # "keepalive"
    /\ inbox' = Send(inbox, e, Keepalive(RealtimePeers(Owner(e))))
    /\ UNCHANGED <<info, cookies, gossip, faults, config>>

----------------------------------------------------------------------------
(* Nothing is on its way to e and its peer will send nothing: it has not    *)
(* accepted, or it waits itself.                                            *)
Silent(e) ==
    /\ inbox[e] = <<>> /\ inbox[Other(e)] = <<>>
    /\ channel[Other(e)] # None =>
         channel[Other(e)].pc = "read" /\ channel[Other(e)].mode = "Undefined"

(* ongoing_checkup and close_idle_channels: a silent channel times out.     *)
CheckupTimeout(e) ==
    /\ Running(e, "read") /\ channel[e].alive /\ channel[e].mode = "Undefined"
    /\ Silent(e)
    /\ channel' = [channel EXCEPT ![e].alive = FALSE]
    /\ UNCHANGED <<socket, attempts, perma_bans, cookies, inbox, gossip, faults, config>>

(* The same for a channel on which all is well but slow.                    *)
SlowChannel(e) ==
    /\ faults < config.faults
    /\ faults' = faults + 1
    /\ channel[e] # None /\ channel[e].alive
    /\ channel' = [channel EXCEPT ![e].alive = FALSE]
    /\ UNCHANGED <<socket, attempts, perma_bans, cookies, inbox, gossip, config>>

(* An endpoint whose cookie a handshake in progress still needs             *)
Awaited(n) ==
    {PeerAddr(e) : e \in {x \in End : /\ channel[x] # None /\ channel[x].alive
                                     /\ channel[x].mode = "Undefined" /\ Owner(x) = n}}

(* CleanupLoop: DeadChannelCleanup purges NetworkInfo and runs its steps,   *)
(* then the cookies of handshakes that came to nothing expire.              *)
CleanUp(n) ==
    LET dead == DeadChannels(n)
        stale == DOMAIN cookies[n] \ Awaited(n) IN
    /\ dead # {} \/ stale # {}
    /\ ~Reading(n)
    /\ channel' = [e \in End |-> IF e \in dead THEN None ELSE channel[e]]
    /\ latest_keepalives' = [e \in End |-> IF e \in dead THEN None ELSE latest_keepalives[e]]
    /\ socket' = Recycled(socket, channel')
    /\ cookies' = Purged(n, stale)
    /\ UNCHANGED <<attempts, perma_bans, inbox, reachout, faults, config>>

(* The clean-up comes round before a slow handshake is over.                *)
ExpireEarly(n) ==
    /\ faults < config.faults
    /\ faults' = faults + 1
    /\ DOMAIN cookies[n] # {}
    /\ cookies' = Purged(n, DOMAIN cookies[n])
    /\ UNCHANGED <<info, inbox, gossip, config>>

Connector(k) == AddOutbound(k) \/ RemoveAttempt(k)
ReachoutLoop(n) ==
    \/ \E e \in End : PopKeepalive(n, e)
    \/ \E p \in Node : DialReachout(n, p)
ResponseServer(e) ==
    Receive(e) \/ CheckUpgrade(e) \/ SetRealtime(e) \/ ReceiveRealtime(e) \/ ReadFails(e)
Fault ==
    \/ \E k \in Slot : ConnectFails(k)
    \/ \E e \in End : SlowChannel(e)
    \/ \E n \in Node : ExpireEarly(n)

Next ==
    \/ \E n \in Node : (\E p \in Node : DialCached(n, p)) \/ ReachoutLoop(n) \/ CleanUp(n)
    \/ \E k \in Slot : Connector(k) \/ Accept(k)
    \/ \E e \in End : ResponseServer(e) \/ SendKeepalive(e) \/ CheckupTimeout(e)
    \/ Fault

(* Every task and thread runs again, and a silent channel times out.        *)
Fairness ==
    /\ \A n \in Node :
          /\ WF_vars(\E p \in Node : DialCached(n, p))
          /\ WF_vars(ReachoutLoop(n)) /\ WF_vars(CleanUp(n))
    /\ \A k \in Slot : WF_vars(Connector(k)) /\ WF_vars(Accept(k))
    /\ \A e \in End : WF_vars(ResponseServer(e))
    /\ WF_vars(\E e \in End : SendKeepalive(e))
    /\ WF_vars(\E e \in End : CheckupTimeout(e))

Spec == Init /\ [][Next]_vars /\ Fairness

----------------------------------------------------------------------------
Linked(e) == channel[e] # None /\ channel[e].alive /\ channel[e].mode = "Realtime"

(* A realtime channel leads to another node of the same network, the one    *)
(* it names, and that node answered on this very connection.                *)
RealtimeVerified ==
    \A e \in End : Linked(e) =>
        /\ channel[e].node_id = Peer(e) /\ Peer(e) # Owner(e)
        /\ config.genesis[Peer(e)] = config.genesis[Owner(e)]
        /\ channel[Other(e)] # None => channel[Other(e)].handshake_received

(* A channel that is realtime on one side becomes so on the other, or is    *)
(* closed: no node counts for ever on a peer that never completed.          *)
HalfOpenResolved == \A e \in End : []<>(Linked(e) => Linked(Other(e)))

Joined(n, p) ==
    \E e \in End : Linked(e) /\ Linked(Other(e)) /\ Owner(e) = n /\ Peer(e) = p
(* Each has dialled the other, and neither connection is over.              *)
Crossed(n, p) ==
    \E i, j \in Slot : /\ socket[i] # None /\ socket[i].from = n /\ socket[i].to = p
                       /\ socket[j] # None /\ socket[j].from = p /\ socket[j].to = n
SelfDialled(n) == \E k \in Slot : socket[k] # None /\ socket[k].from = n /\ socket[k].to = n

(* A node that keeps dialling a peer of its network gets a realtime channel *)
(* to it again and again, unless the peer dials it at the same time; and a  *)
(* node stops dialling itself.                                              *)
EventuallyConnected ==
    /\ []<>(\A n, p \in Node :
              p \in config.cached[n] \ {n} /\ config.genesis[n] = config.genesis[p]
                  => Joined(n, p) \/ Crossed(n, p))
    /\ <>[](\A n \in Node : ~SelfDialled(n))

=============================================================================
