----------------------------- MODULE PeerProofs -----------------------------
(* Realtime channels lead to the node they name, for any number of nodes,   *)
(* connections and faults and any settings.                                 *)
EXTENDS PeerConnections, SequenceTheorems, WellFoundedInduction, TLAPS

Opposite(side) == IF side = "out" THEN "in" ELSE "out"
OwnerAt(s, side) == IF side = "out" THEN s.from ELSE s.to
PeerAt(s, side) == IF side = "out" THEN s.to ELSE s.from

(* This end has got its channel, or will never have one.                    *)
Made(s, side) == IF side = "out" THEN s.task # "connecting" ELSE s.accept = "done"

Messages(box) == {box[i] : i \in DOMAIN box}

(* The other end, with channel o, has had a handshake.                      *)
Answered(s, side, o) ==
    /\ Made(s, Opposite(side))
    /\ o # None => o.handshake_received

(* n is the node at the other end, which is of our network.                 *)
Genuine(s, side, n, genesis) ==
    /\ n = PeerAt(s, side) /\ n # OwnerAt(s, side)
    /\ genesis[n] = genesis[OwnerAt(s, side)]

IsResponse(m) == m.type = "handshake" /\ m.response # None

(* One end of connection s: its channel c, the channel o of the other end,  *)
(* and the messages under way to it.  Nothing is sent to an end that is     *)
(* done with, and what its peer says of itself is true.                     *)
EndInv(s, side, c, o, box, genesis) ==
    /\ s.accept = "no" => c = None /\ box = <<>>
    /\ Made(s, side) /\ c = None => box = <<>>
    /\ c # None =>
         /\ Made(s, side)
         /\ c.pc = "done" => ~c.alive /\ box = <<>>
         /\ c.pc \in {"check", "set"} => Genuine(s, side, c.claimed, genesis) /\ Answered(s, side, o)
         /\ c.mode = "Realtime" => Genuine(s, side, c.node_id, genesis) /\ Answered(s, side, o)
    /\ \A m \in Messages(box) : IsResponse(m) =>
         /\ m.response.node_id = PeerAt(s, side)
         /\ m.response.genesis = genesis[PeerAt(s, side)]
         /\ Answered(s, side, o)

SlotInv(s, e, c, o, box, genesis) ==
    /\ s = None => c = None /\ box = <<>>
    /\ s # None => /\ s.task = "connecting" => s.accept = "no"
                   /\ EndInv(s, e[2], c, o, box, genesis)

TypeInv ==
    /\ socket \in [Slot -> SocketType \cup {None}]
    /\ channel \in [End -> ChannelType \cup {None}]
    /\ inbox = [e \in End |-> inbox[e]]
    /\ \A e \in End : \E S : inbox[e] \in Seq(S)

PeerInv ==
    /\ TypeInv
    /\ \A e \in End :
         SlotInv(socket[e[1]], e, channel[e], channel[Other(e)], inbox[e], config.genesis)


At(e) == SlotInv(socket[e[1]], e, channel[e], channel[Other(e)], inbox[e], config.genesis)

-----------------------------------------------------------------------------
(* The two ends of a connection.                                            *)
LEMMA Ends ==
    ASSUME NEW e \in End
    PROVE  /\ e[1] \in Slot /\ e[2] \in {"out", "in"} /\ e = <<e[1], e[2]>>
           /\ Other(e) \in End /\ Other(Other(e)) = e /\ Other(e) # e
           /\ Other(e)[1] = e[1] /\ Other(e)[2] = Opposite(e[2])
           /\ Opposite(Opposite(e[2])) = e[2]
           /\ \A x \in End : x[1] = e[1] => x = e \/ x = Other(e)
           /\ Owner(e) = OwnerAt(socket[e[1]], e[2]) /\ Peer(e) = PeerAt(socket[e[1]], e[2])
BY DEF End, Other, Opposite, Owner, Peer, OwnerAt, PeerAt

(* A handshake once had is not forgotten: an end does not mind what else    *)
(* becomes of the other one.                                                *)
LEMMA OtherGrows ==
    ASSUME NEW s, NEW side, NEW c, NEW o, NEW p, NEW box, NEW g,
           EndInv(s, side, c, o, box, g),
           Answered(s, side, o) => Answered(s, side, p)
    PROVE  EndInv(s, side, c, p, box, g)
BY Zenon DEF EndInv

(* The least free slot is a free slot.                                      *)
LEMMA LeastFree ==
    ASSUME NEW T, T \subseteq Slot, T # {}
    PROVE  (CHOOSE s \in T : \A t \in T : s <= t) \in T
<1>1. T \subseteq Nat
  BY NetworkAssumption, Zenon
<1>2. PICK x \in T : \A y \in T : ~(<<y, x>> \in OpToRel(<, Nat))
  BY <1>1, NatLessThanWellFounded, WFMin, Zenon
<1>3. ASSUME NEW y \in T PROVE x <= y
  <2>1. x \in Nat /\ y \in Nat /\ ~(<<y, x>> \in OpToRel(<, Nat))
    BY <1>1, <1>2, <1>3, Zenon
  <2> QED
    BY <2>1 DEF OpToRel
<1> QED
  BY <1>3, Zenon

(* The messages of a sequence that is read or sent to.                      *)
LEMMA MessagesTail ==
    ASSUME NEW S, NEW s \in Seq(S), s # <<>>
    PROVE  Tail(s) \in Seq(S) /\ Messages(Tail(s)) \subseteq Messages(s) /\ Head(s) \in Messages(s)
<1>1. Tail(s) \in Seq(S) /\ Len(Tail(s)) = Len(s) - 1 /\ Len(s) \in Nat \ {0} /\ Head(s) = s[1]
  OBVIOUS
<1>2. \A i \in 1..Len(s) - 1 : Tail(s)[i] = s[i + 1]
  OBVIOUS
<1> QED
  BY <1>1, <1>2, SMTT(30) DEF Messages

(* A message that is sent joins the ones under way.                         *)
LEMMA MessagesAppend ==
    ASSUME NEW S, NEW s \in Seq(S), NEW x
    PROVE  /\ \E T : Append(s, x) \in Seq(T)
           /\ Messages(Append(s, x)) = Messages(s) \cup {x}
<1>0. PICK T : T = S \cup {x}
  BY Zenon
<1>1. s \in Seq(T) /\ x \in T
  BY <1>0
<1>2. Append(s, x) \in Seq(T) /\ Len(Append(s, x)) = Len(s) + 1
  BY <1>1
<1>3. \A i \in 1..Len(s) : Append(s, x)[i] = s[i]
  BY <1>1
<1>4. Append(s, x)[Len(s) + 1] = x
  BY <1>1
<1>5. Messages(Append(s, x)) = Messages(s) \cup {x}
  BY <1>1, <1>2, <1>3, <1>4, SMTT(30) DEF Messages
<1> QED
  BY <1>2, <1>5, Zenon

(* Nothing is under way in an empty inbox.                                  *)
LEMMA NoMessages == Messages(<<>>) = {} /\ \A S : <<>> \in Seq(S)
BY DEF Messages

-----------------------------------------------------------------------------
(* What is not touched keeps its invariant.                                 *)
LEMMA Untouched ==
    ASSUME PeerInv, NEW e \in End, config' = config,
           socket'[e[1]] = socket[e[1]], channel'[e] = channel[e],
           channel'[Other(e)] = channel[Other(e)], inbox'[e] = inbox[e]
    PROVE  At(e)'
BY Zenon DEF PeerInv, At

(* A step of one end of an open connection: its channel becomes c, what is  *)
(* under way to it b, and what is under way to the other end d.             *)
LEMMA EndStep ==
    ASSUME PeerInv, NEW e \in End, socket' = socket, config' = config, socket[e[1]] # None,
           NEW c \in ChannelType, NEW b, NEW d, \E S : b \in Seq(S), \E S : d \in Seq(S),
           channel' = [channel EXCEPT ![e] = c],
           inbox' = [[inbox EXCEPT ![e] = b] EXCEPT ![Other(e)] = d],
           EndInv(socket[e[1]], e[2], c, channel[Other(e)], b, config.genesis),
           EndInv(socket[e[1]], Opposite(e[2]), channel[Other(e)], c, d, config.genesis)
    PROVE  PeerInv'
<1>0. /\ Other(e) \in End /\ Other(Other(e)) = e /\ Other(e) # e
      /\ Other(e)[1] = e[1] /\ Other(e)[2] = Opposite(e[2])
      /\ \A x \in End : x # e /\ x # Other(e) => Other(x) \in End \ {e, Other(e)}
  <2>1. \A x \in End : Other(x) \in End /\ Other(Other(x)) = x
    BY Ends, Zenon
  <2> QED
    BY <2>1, Ends
<1>1. /\ socket \in [Slot -> SocketType \cup {None}]
      /\ channel \in [End -> ChannelType \cup {None}]
      /\ inbox = [x \in End |-> inbox[x]]
      /\ \A x \in End : \E S : inbox[x] \in Seq(S)
  BY Zenon DEF PeerInv, TypeInv
<1>2. /\ channel' \in [End -> ChannelType \cup {None}]
      /\ channel'[e] = c /\ \A x \in End : x # e => channel'[x] = channel[x]
  BY <1>1, Zenon
<1>3. /\ inbox' = [x \in End |-> inbox'[x]]
      /\ inbox'[e] = b /\ inbox'[Other(e)] = d
      /\ \A x \in End : x # e /\ x # Other(e) => inbox'[x] = inbox[x]
  BY <1>0, <1>1
<1>4. TypeInv'
  BY <1>1, <1>2, <1>3, Zenon DEF TypeInv
<1>5. At(e)'
  BY <1>0, <1>2, <1>3, Zenon DEF At, SlotInv, PeerInv
<1>6. At(Other(e))'
  BY <1>0, <1>2, <1>3, Zenon DEF At, SlotInv, PeerInv
<1>7. ASSUME NEW x \in End, x # e, x # Other(e) PROVE At(x)'
  BY <1>0, <1>2, <1>3, <1>7, Untouched, Zenon
<1> QED
  BY <1>4, <1>5, <1>6, <1>7, Zenon DEF PeerInv, At

(* A step of one end that sends nothing.                                    *)
LEMMA QuietStep ==
    ASSUME PeerInv, NEW e \in End, socket' = socket, config' = config, socket[e[1]] # None,
           channel[e] # None, NEW c \in ChannelType, NEW b, \E S : b \in Seq(S),
           channel[e].handshake_received => c.handshake_received,
           channel' = [channel EXCEPT ![e] = c],
           inbox' = [inbox EXCEPT ![e] = b],
           EndInv(socket[e[1]], e[2], c, channel[Other(e)], b, config.genesis)
    PROVE  PeerInv'
<1>0. /\ Other(e) \in End /\ Other(Other(e)) = e /\ Other(e) # e
      /\ Other(e)[1] = e[1] /\ Other(e)[2] = Opposite(e[2])
  BY Ends, Zenon
<1>1. \E S : inbox[Other(e)] \in Seq(S)
  BY <1>0, Zenon DEF PeerInv, TypeInv
<1>2. inbox' = [[inbox EXCEPT ![e] = b] EXCEPT ![Other(e)] = inbox[Other(e)]]
  BY <1>0 DEF PeerInv, TypeInv
<1>3. EndInv(socket[e[1]], Opposite(e[2]), channel[Other(e)], channel[e], inbox[Other(e)], config.genesis)
  BY <1>0, Zenon DEF PeerInv, SlotInv
<1>4. EndInv(socket[e[1]], Opposite(e[2]), channel[Other(e)], c, inbox[Other(e)], config.genesis)
  BY <1>3, OtherGrows, Zenon DEF Answered
<1> QED
  BY <1>1, <1>2, <1>4, EndStep, Zenon

(* What is known of a running response server.                              *)
LEMMA Open ==
    ASSUME PeerInv, NEW e \in End, channel[e] # None
    PROVE  /\ socket[e[1]] # None /\ socket[e[1]] \in SocketType
           /\ channel[e] \in ChannelType /\ \E S : inbox[e] \in Seq(S)
           /\ EndInv(socket[e[1]], e[2], channel[e], channel[Other(e)], inbox[e], config.genesis)
<1>1. /\ socket \in [Slot -> SocketType \cup {None}] /\ e[1] \in Slot
      /\ channel \in [End -> ChannelType \cup {None}]
  BY Ends, Zenon DEF PeerInv, TypeInv
<1> QED
  BY <1>1, Zenon DEF PeerInv, TypeInv, SlotInv

-----------------------------------------------------------------------------
(* The response server and the timeouts                                     *)

(* The fields of a channel that a step leaves alone.                        *)
LEMMA ChannelFields ==
    ASSUME NEW c \in ChannelType
    PROVE  /\ Closed(c) \in ChannelType /\ ~Closed(c).alive /\ Closed(c).pc = "done"
           /\ Closed(c).mode = c.mode /\ Closed(c).node_id = c.node_id
           /\ Closed(c).handshake_received = c.handshake_received
           /\ c.alive \in BOOLEAN /\ c.pc \in {"read", "check", "set", "done"} /\ c # None
BY NetworkAssumption DEF ChannelType, Closed

(* A channel that is closed has nothing left to read.                       *)
LEMMA ClosedInv ==
    ASSUME NEW s, NEW side, NEW c \in ChannelType, NEW o, NEW box, NEW g, c # None,
           EndInv(s, side, c, o, box, g)
    PROVE  EndInv(s, side, Closed(c), o, <<>>, g)
BY ChannelFields, NoMessages, Zenon DEF EndInv

(* ResponseServer::run ends: the channel is closed.                         *)
LEMMA AbortKeeps ==
    ASSUME PeerInv, NEW e \in End, channel[e] # None, Abort(e), config' = config
    PROVE  PeerInv'
<1>1. /\ channel' = [channel EXCEPT ![e] = Closed(channel[e])]
      /\ inbox' = [inbox EXCEPT ![e] = <<>>] /\ socket' = socket
  BY Zenon DEF Abort
<1>2. PICK c : c = Closed(channel[e])
  BY Zenon
<1>3. c \in ChannelType /\ c.handshake_received = channel[e].handshake_received
  BY <1>2, Open, ChannelFields, Zenon
<1>4. EndInv(socket[e[1]], e[2], c, channel[Other(e)], <<>>, config.genesis)
  BY <1>2, Open, ClosedInv, Zenon
<1> QED
  BY <1>1, <1>2, <1>3, <1>4, Open, NoMessages, QuietStep, Zenon

(* A channel is timed out.                                                  *)
LEMMA TimeoutKeeps ==
    ASSUME PeerInv, NEW e \in End, channel[e] # None, channel[e].alive,
           channel' = [channel EXCEPT ![e].alive = FALSE],
           UNCHANGED <<socket, inbox, config>>
    PROVE  PeerInv'
<1>0. PICK c : c = [channel[e] EXCEPT !.alive = FALSE]
  BY Zenon
<1>1. /\ c \in ChannelType /\ c # None /\ c.handshake_received = channel[e].handshake_received
      /\ c.pc = channel[e].pc /\ c.mode = channel[e].mode /\ c.node_id = channel[e].node_id
      /\ c.claimed = channel[e].claimed
  <2>1. channel[e] \in ChannelType
    BY Open, Zenon
  <2>2. /\ c \in ChannelType /\ c.handshake_received = channel[e].handshake_received
        /\ c.pc = channel[e].pc /\ c.mode = channel[e].mode /\ c.node_id = channel[e].node_id
        /\ c.claimed = channel[e].claimed
    BY <1>0, <2>1 DEF ChannelType
  <2> QED
    BY <2>2, ChannelFields, Zenon
<1>2. EndInv(socket[e[1]], e[2], channel[e], channel[Other(e)], inbox[e], config.genesis)
  BY Open, Zenon
<1>3. EndInv(socket[e[1]], e[2], c, channel[Other(e)], inbox[e], config.genesis)
  BY <1>1, <1>2, Zenon DEF EndInv
<1>4. channel' = [channel EXCEPT ![e] = c] /\ inbox' = [inbox EXCEPT ![e] = inbox[e]]
  BY <1>0 DEF PeerInv, TypeInv
<1> QED
  BY <1>1, <1>3, <1>4, Open, QuietStep, Zenon

(* The upgrade to realtime takes the node id of the answer that was         *)
(* verified.                                                                *)
LEMMA SetRealtimeKeeps ==
    ASSUME PeerInv, NEW e \in End, SetRealtime(e)
    PROVE  PeerInv'
<1>0. PICK c : c = [channel[e] EXCEPT !.node_id = channel[e].claimed, !.mode = "Realtime", !.pc = "read"]
  BY Zenon
<1>1. channel[e] # None /\ channel[e].pc = "set" /\ UNCHANGED <<socket, inbox, config>>
  BY Zenon DEF SetRealtime, Running
<1>2. /\ c \in ChannelType /\ c # None /\ c.handshake_received = channel[e].handshake_received
      /\ c.pc = "read" /\ c.mode = "Realtime" /\ c.node_id = channel[e].claimed
  <2>1. channel[e] \in ChannelType
    BY <1>1, Open, Zenon
  <2>2. /\ c \in ChannelType /\ c.handshake_received = channel[e].handshake_received
        /\ c.pc = "read" /\ c.mode = "Realtime" /\ c.node_id = channel[e].claimed
    BY <1>0, <2>1 DEF ChannelType
  <2> QED
    BY <2>2, ChannelFields, Zenon
<1>3. EndInv(socket[e[1]], e[2], channel[e], channel[Other(e)], inbox[e], config.genesis)
  BY <1>1, Open, Zenon
<1>4. "read" \notin {"check", "set", "done"} /\ "set" \in {"check", "set"}
  OBVIOUS
<1>5. EndInv(socket[e[1]], e[2], c, channel[Other(e)], inbox[e], config.genesis)
  BY <1>1, <1>2, <1>3, <1>4, Zenon DEF EndInv
<1>6. channel' = [channel EXCEPT ![e] = c] /\ inbox' = [inbox EXCEPT ![e] = inbox[e]]
  BY <1>0, <1>1 DEF SetRealtime, PeerInv, TypeInv
<1> QED
  BY <1>1, <1>2, <1>5, <1>6, Open, QuietStep, Zenon

(* NetworkInfo::upgrade_to_realtime_connection looks for another channel to *)
(* the same node.                                                           *)
LEMMA CheckUpgradeKeeps ==
    ASSUME PeerInv, NEW e \in End, CheckUpgrade(e)
    PROVE  PeerInv'
<1>1. channel[e] # None /\ channel[e].pc = "check" /\ config' = config
  BY Zenon DEF CheckUpgrade, Running
<1>2. CASE Abort(e)
  BY <1>1, <1>2, AbortKeeps, Zenon
<1>3. CASE channel' = [channel EXCEPT ![e].pc = "set"] /\ UNCHANGED <<socket, inbox>>
  <2>0. PICK c : c = [channel[e] EXCEPT !.pc = "set"]
    BY Zenon
  <2>1. /\ c \in ChannelType /\ c # None /\ c.handshake_received = channel[e].handshake_received
        /\ c.pc = "set" /\ c.mode = channel[e].mode /\ c.node_id = channel[e].node_id
        /\ c.claimed = channel[e].claimed
    <3>1. channel[e] \in ChannelType
      BY <1>1, Open, Zenon
    <3>2. /\ c \in ChannelType /\ c.handshake_received = channel[e].handshake_received
          /\ c.pc = "set" /\ c.mode = channel[e].mode /\ c.node_id = channel[e].node_id
          /\ c.claimed = channel[e].claimed
      BY <2>0, <3>1 DEF ChannelType
    <3> QED
      BY <3>2, ChannelFields, Zenon
  <2>2. EndInv(socket[e[1]], e[2], channel[e], channel[Other(e)], inbox[e], config.genesis)
    BY <1>1, Open, Zenon
  <2>3. "set" # "done" /\ "check" \in {"check", "set"}
    OBVIOUS
  <2>4. EndInv(socket[e[1]], e[2], c, channel[Other(e)], inbox[e], config.genesis)
    BY <1>1, <2>1, <2>2, <2>3, Zenon DEF EndInv
  <2>5. /\ channel' = [channel EXCEPT ![e] = c] /\ inbox' = [inbox EXCEPT ![e] = inbox[e]]
        /\ socket' = socket
    BY <1>3, <2>0 DEF PeerInv, TypeInv
  <2> QED
    BY <1>1, <2>1, <2>4, <2>5, Open, QuietStep, Zenon
<1> QED
  BY <1>2, <1>3, Zenon DEF CheckUpgrade

(* A message that is not a handshake changes neither mode nor node id.      *)
LEMMA ReceiveRealtimeKeeps ==
    ASSUME PeerInv, NEW e \in End, ReceiveRealtime(e)
    PROVE  PeerInv'
<1>0. PICK c : c = [channel[e] EXCEPT !.peering_addr = Listening(Peer(e))]
  BY Zenon
<1>1. channel[e] # None /\ channel[e].pc = "read" /\ inbox[e] # <<>> /\ socket' = socket /\ config' = config
  BY Zenon DEF ReceiveRealtime, Running
<1>2. Listening(Peer(e)) \in Node \X (Slot \cup {0})
  BY <1>1, Open, Ends DEF Listening, PeerAt, SocketType
<1>3. /\ c \in ChannelType /\ c # None /\ c.handshake_received = channel[e].handshake_received
      /\ c.pc = channel[e].pc /\ c.mode = channel[e].mode /\ c.node_id = channel[e].node_id
      /\ c.claimed = channel[e].claimed
  <2>1. channel[e] \in ChannelType
    BY <1>1, Open, Zenon
  <2>2. /\ c \in ChannelType /\ c.handshake_received = channel[e].handshake_received
        /\ c.pc = channel[e].pc /\ c.mode = channel[e].mode /\ c.node_id = channel[e].node_id
        /\ c.claimed = channel[e].claimed
    BY <1>0, <1>2, <2>1 DEF ChannelType
  <2> QED
    BY <2>2, ChannelFields, Zenon
<1>4. EndInv(socket[e[1]], e[2], channel[e], channel[Other(e)], inbox[e], config.genesis)
  BY <1>1, Open, Zenon
<1>5. (\E S : Tail(inbox[e]) \in Seq(S)) /\ Messages(Tail(inbox[e])) \subseteq Messages(inbox[e])
  BY <1>1, Open, MessagesTail, Zenon
<1>6. "read" # "done"
  OBVIOUS
<1>7. socket[e[1]].accept # "no"
  BY <1>1, <1>4, Zenon DEF EndInv
<1>8. EndInv(socket[e[1]], e[2], c, channel[Other(e)], Tail(inbox[e]), config.genesis)
  BY <1>1, <1>3, <1>4, <1>5, <1>6, <1>7, Zenon DEF EndInv
<1>9. channel' = [channel EXCEPT ![e] = c] /\ inbox' = [inbox EXCEPT ![e] = Tail(inbox[e])]
  BY <1>0, <1>1 DEF ReceiveRealtime, PeerInv, TypeInv
<1> QED
  BY <1>1, <1>3, <1>5, <1>8, <1>9, Open, QuietStep, Zenon

(* A message that e sends reaches an end that still reads, and a response   *)
(* in it is told by an end that has had a handshake.                        *)
LEMMA Reaches ==
    ASSUME PeerInv, NEW e \in End, channel[e] # None, ~Gone(Other(e)), NEW m,
           NEW c \in ChannelType, channel[e].handshake_received => c.handshake_received,
           IsResponse(m) => /\ m.response.node_id = Owner(e)
                            /\ m.response.genesis = config.genesis[Owner(e)]
                            /\ c.handshake_received
    PROVE  EndInv(socket[e[1]], Opposite(e[2]), channel[Other(e)], c,
                  Append(inbox[Other(e)], m), config.genesis)
<1> DEFINE s == socket[e[1]]
           o == channel[Other(e)]
           box == inbox[Other(e)]
<1>0. /\ Other(e) \in End /\ Other(Other(e)) = e
      /\ Other(e)[1] = e[1] /\ Other(e)[2] = Opposite(e[2]) /\ Opposite(Opposite(e[2])) = e[2]
  BY Ends, Zenon
<1>1. s # None /\ Made(s, e[2]) /\ s.accept # "no"
  BY Open, Zenon DEF EndInv
<1>2. EndInv(s, Opposite(e[2]), o, channel[e], box, config.genesis)
  BY <1>0, <1>1, Zenon DEF PeerInv, SlotInv
<1>3. EndInv(s, Opposite(e[2]), o, c, box, config.genesis)
  BY <1>2, OtherGrows, Zenon DEF Answered
<1>4. PICK b : b = Append(box, m)
  BY Zenon
<1>5. Messages(b) = Messages(box) \cup {m}
  BY <1>0, <1>4, MessagesAppend, Zenon DEF PeerInv, TypeInv
<1>6. IF o # None THEN o.alive ELSE ~Made(s, Opposite(e[2]))
  BY <1>0, Zenon DEF Gone, Made
<1>7. PeerAt(s, Opposite(e[2])) = Owner(e)
  BY Ends DEF PeerAt, OwnerAt, Opposite
<1>8. IsResponse(m) => /\ m.response.node_id = PeerAt(s, Opposite(e[2]))
                       /\ m.response.genesis = config.genesis[PeerAt(s, Opposite(e[2]))]
                       /\ Answered(s, Opposite(e[2]), c)
  BY <1>0, <1>1, <1>7, Zenon DEF Answered
<1> HIDE DEF s, o, box
<1>9. EndInv(s, Opposite(e[2]), o, c, b, config.genesis)
  BY <1>1, <1>3, <1>5, <1>6, <1>8, Zenon DEF EndInv
<1> QED
  BY <1>4, <1>9, Zenon DEF s, o, box

(* A keepalive is no handshake response.                                    *)
LEMMA SendKeepaliveKeeps ==
    ASSUME PeerInv, NEW e \in End, SendKeepalive(e)
    PROVE  PeerInv'
<1>0. PICK m : m = Keepalive(RealtimePeers(Owner(e)))
  BY Zenon
<1>1. /\ channel[e] # None /\ ~Gone(Other(e)) /\ inbox' = Send(inbox, e, m)
      /\ socket' = socket /\ channel' = channel /\ config' = config
  BY <1>0, Zenon DEF SendKeepalive, info
<1>2. ~IsResponse(m)
  BY <1>0 DEF IsResponse, Keepalive
<1>3. /\ channel[e] \in ChannelType /\ socket[e[1]] # None /\ \E S : inbox[e] \in Seq(S)
      /\ EndInv(socket[e[1]], e[2], channel[e], channel[Other(e)], inbox[e], config.genesis)
  BY <1>1, Open, Zenon
<1>4. CASE channel[e].alive
  <2>0. PICK d : d = Append(inbox[Other(e)], m)
    BY Zenon
  <2>1. Other(e) \in End /\ Other(e) # e
    BY Ends, Zenon
  <2>2. inbox' = [[inbox EXCEPT ![e] = inbox[e]] EXCEPT ![Other(e)] = d]
    BY <1>1, <1>4, <2>0, <2>1 DEF Send, PeerInv, TypeInv
  <2>3. channel' = [channel EXCEPT ![e] = channel[e]]
    BY <1>1 DEF PeerInv, TypeInv
  <2>4. \E S : d \in Seq(S)
    BY <2>0, <2>1, MessagesAppend, Zenon DEF PeerInv, TypeInv
  <2>5. EndInv(socket[e[1]], Opposite(e[2]), channel[Other(e)], channel[e], d, config.genesis)
    BY <1>1, <1>2, <1>3, <2>0, Reaches, Zenon
  <2> QED
    BY <1>1, <1>3, <2>2, <2>3, <2>4, <2>5, EndStep, Zenon
<1>5. CASE ~channel[e].alive
  BY <1>1, <1>5, Zenon DEF Send, PeerInv, TypeInv
<1> QED
  BY <1>4, <1>5, Zenon

(* Only the node at the other end, of our network and not ourselves, passes *)
(* verify_response, as the response came from there.                        *)
LEMMA VerifiedResponse ==
    ASSUME NEW n, NEW r, NEW ep, NEW held, VerifyResponse(n, r, ep, held) = "Realtime"
    PROVE  r.node_id # n /\ r.genesis = config.genesis[n]
BY DEF VerifyResponse

(* process_handshake: the channel becomes c, going on if it still reads, and *)
(* the answer to a query has the query q.                                   *)
Outcome(e, m, c, d, goes_on, box, q) ==
    /\ d = [channel[e] EXCEPT !.handshake_received = TRUE]
    /\ channel' = [channel EXCEPT ![e] = c]
    /\ goes_on \in BOOLEAN
    /\ box = [inbox EXCEPT ![e] = IF goes_on THEN Tail(inbox[e]) ELSE <<>>]
    /\ inbox' = IF m.query # None
                THEN Send(box, e, Handshake(q, Response(Owner(e), m.query))) ELSE box
    /\ \/ goes_on /\ c = d
       \/ /\ goes_on /\ m.response # None
          /\ m.response.node_id # Owner(e)
          /\ m.response.genesis = config.genesis[Owner(e)]
          /\ c = [d EXCEPT !.claimed = m.response.node_id, !.pc = "check"]
       \/ ~goes_on /\ c = Closed(d)

(* A handshake goes on, verifies the peer or closes the channel.            *)
LEMMA HandshakeOutcome ==
    ASSUME NEW e \in End, NEW m, ProcessHandshake(e, m)
    PROVE  \E c, d, goes_on, box, q : Outcome(e, m, c, d, goes_on, box, q)
<1> DEFINE n == Owner(e)
           ep == PeerAddr(e)
           d == [channel[e] EXCEPT !.handshake_received = TRUE]
           own == m.query # None /\ Assigns(n, ep, config.max_cookies_per_ip)
           cookie == <<e, TRUE>>
           held == IF own THEN Assigned(cookies[n], ep, cookie) ELSE cookies[n]
           status == IF m.response = None THEN "Handshake"
                     ELSE VerifyResponse(n, m.response, ep, held)
           goes_on == status \in {"Handshake", "Realtime"}
           box == [inbox EXCEPT ![e] = IF goes_on THEN Tail(inbox[e]) ELSE <<>>]
           q == IF own THEN cookie ELSE None
           c == CASE status = "Handshake" -> d
                  [] status = "Realtime" ->
                       [d EXCEPT !.claimed = m.response.node_id, !.pc = "check"]
                  [] OTHER -> Closed(d)
<1>1. /\ channel' = [channel EXCEPT ![e] = c]
      /\ inbox' = IF m.query # None
                  THEN Send(box, e, Handshake(q, Response(n, m.query))) ELSE box
  BY Zenon DEF ProcessHandshake
<1>3. CASE status = "Handshake"
  <2>1. goes_on /\ c = d
    BY <1>3
  <2> QED
    BY <1>1, <2>1, Zenon DEF Outcome
<1>4. CASE status = "Realtime"
  <2>1. "Handshake" # "Realtime"
    OBVIOUS
  <2>2. m.response # None /\ VerifyResponse(n, m.response, ep, held) = "Realtime"
    BY <1>4, <2>1, Zenon
  <2>3. m.response.node_id # n /\ m.response.genesis = config.genesis[n]
    <3> HIDE DEF n, ep, own, cookie, held
    <3> QED
      BY <2>2, VerifiedResponse
  <2>4. goes_on /\ c = [d EXCEPT !.claimed = m.response.node_id, !.pc = "check"]
    BY <1>4, <2>1
  <2> HIDE DEF n, ep, d, own, cookie, held, status, goes_on, box, q, c
  <2>5. d = [channel[e] EXCEPT !.handshake_received = TRUE]
    BY Zenon DEF d
  <2>6. box = [inbox EXCEPT ![e] = IF goes_on THEN Tail(inbox[e]) ELSE <<>>] /\ n = Owner(e)
    BY Zenon DEF box, n
  <2> QED
    BY <1>1, <2>2, <2>3, <2>4, <2>5, <2>6, Zenon DEF Outcome
<1>5. CASE status # "Handshake" /\ status # "Realtime"
  <2>1. ~goes_on /\ c = Closed(d)
    BY <1>5
  <2> QED
    BY <1>1, <2>1, Zenon DEF Outcome
<1> QED
  BY <1>3, <1>4, <1>5, Zenon

(* HandshakeProcess: whatever it answers, both ends of the connection keep  *)
(* the invariant.                                                           *)
LEMMA HandshakeKeeps ==
    ASSUME PeerInv, NEW e \in End, channel[e] # None, channel[e].pc = "read", inbox[e] # <<>>,
           NEW m, m = Head(inbox[e]), m.type = "handshake", ProcessHandshake(e, m),
           config' = config
    PROVE  PeerInv'
<1> DEFINE s == socket[e[1]]
           o == channel[Other(e)]
<1>0. PICK c, d, goes_on, box, q : Outcome(e, m, c, d, goes_on, box, q)
  BY HandshakeOutcome, Zenon
<1>1. /\ d = [channel[e] EXCEPT !.handshake_received = TRUE]
      /\ channel' = [channel EXCEPT ![e] = c]
      /\ goes_on \in BOOLEAN
      /\ box = [inbox EXCEPT ![e] = IF goes_on THEN Tail(inbox[e]) ELSE <<>>]
      /\ inbox' = IF m.query # None
                  THEN Send(box, e, Handshake(q, Response(Owner(e), m.query))) ELSE box
      /\ \/ goes_on /\ c = d
         \/ /\ goes_on /\ m.response # None
            /\ m.response.node_id # Owner(e)
            /\ m.response.genesis = config.genesis[Owner(e)]
            /\ c = [d EXCEPT !.claimed = m.response.node_id, !.pc = "check"]
         \/ ~goes_on /\ c = Closed(d)
  BY <1>0, Zenon DEF Outcome
<1>2. /\ Other(e) \in End /\ Other(e) # e /\ socket' = socket
      /\ Owner(e) = OwnerAt(s, e[2]) /\ Peer(e) = PeerAt(s, e[2]) /\ e[2] \in {"out", "in"}
  BY Ends, Zenon DEF ProcessHandshake
<1>3. /\ s # None /\ s \in SocketType /\ channel[e] \in ChannelType
      /\ EndInv(s, e[2], channel[e], o, inbox[e], config.genesis)
  BY Open, Zenon
<1>4. /\ \E S : Tail(inbox[e]) \in Seq(S)
      /\ Messages(Tail(inbox[e])) \subseteq Messages(inbox[e]) /\ m \in Messages(inbox[e])
  BY Open, MessagesTail, Zenon
<1>5. /\ d \in ChannelType /\ d # None /\ d.handshake_received
      /\ d.pc = "read" /\ d.mode = channel[e].mode /\ d.node_id = channel[e].node_id
  BY <1>1, <1>3, NetworkAssumption DEF ChannelType
<1>6. PICK b : b = IF goes_on THEN Tail(inbox[e]) ELSE <<>>
  BY Zenon
<1>7. (\E S : b \in Seq(S)) /\ Messages(b) \subseteq Messages(inbox[e])
  BY <1>4, <1>6, NoMessages, Zenon
<1>8. Made(s, e[2]) /\ s.accept # "no"
  BY <1>3, Zenon DEF EndInv
<1>9. "read" \notin {"check", "set", "done"} /\ "check" # "done"
  OBVIOUS
<1>10. EndInv(s, e[2], d, o, Tail(inbox[e]), config.genesis)
  BY <1>3, <1>4, <1>5, <1>8, <1>9, Zenon DEF EndInv
<1>11. /\ c \in ChannelType /\ c.handshake_received
       /\ EndInv(s, e[2], c, o, b, config.genesis)
  <2>1. CASE goes_on /\ c = d
    BY <1>5, <1>6, <1>10, <2>1, Zenon
  <2>2. CASE ~goes_on /\ c = Closed(d)
    BY <1>5, <1>6, <1>10, <2>2, ClosedInv, ChannelFields, Zenon
  <2>3. CASE /\ goes_on /\ m.response # None
             /\ m.response.node_id # Owner(e)
             /\ m.response.genesis = config.genesis[Owner(e)]
             /\ c = [d EXCEPT !.claimed = m.response.node_id, !.pc = "check"]
    <3>1. /\ m.response.node_id = PeerAt(s, e[2])
          /\ m.response.genesis = config.genesis[PeerAt(s, e[2])]
          /\ Answered(s, e[2], o)
      BY <1>3, <1>4, <2>3, Zenon DEF EndInv, IsResponse
    <3>2. m.response.node_id \in Node
      BY <1>2, <1>3, <3>1 DEF PeerAt, SocketType
    <3>3. /\ c \in ChannelType /\ c # None /\ c.handshake_received = d.handshake_received
          /\ c.pc = "check" /\ c.mode = d.mode /\ c.node_id = d.node_id
          /\ c.claimed = m.response.node_id
      <4>1. /\ c \in ChannelType /\ c.handshake_received = d.handshake_received
            /\ c.pc = "check" /\ c.mode = d.mode /\ c.node_id = d.node_id
            /\ c.claimed = m.response.node_id
        BY <1>5, <2>3, <3>2 DEF ChannelType
      <4> QED
        BY <4>1, ChannelFields, Zenon
    <3>4. Genuine(s, e[2], c.claimed, config.genesis)
      <4>1. c.claimed = PeerAt(s, e[2]) /\ c.claimed # OwnerAt(s, e[2])
        BY <1>2, <2>3, <3>1, <3>3, Zenon
      <4>2. config.genesis[c.claimed] = config.genesis[OwnerAt(s, e[2])]
        BY <1>2, <2>3, <3>1, <3>3, Zenon
      <4> QED
        BY <4>1, <4>2, Zenon DEF Genuine
    <3>5. EndInv(s, e[2], c, o, Tail(inbox[e]), config.genesis)
      BY <1>5, <1>8, <1>9, <1>10, <3>1, <3>3, <3>4, Zenon DEF EndInv
    <3> QED
      BY <1>5, <1>6, <2>3, <3>3, <3>5, Zenon
  <2> QED
    BY <1>1, <2>1, <2>2, <2>3, Zenon
<1>12. CASE m.query # None /\ channel[e].alive /\ ~Gone(Other(e))
  <2>0. PICK r : r = Handshake(q, Response(Owner(e), m.query))
    BY Zenon
  <2>1. r.response.node_id = Owner(e) /\ r.response.genesis = config.genesis[Owner(e)]
    BY <2>0 DEF Handshake, Response
  <2>2. PICK x : x = Append(inbox[Other(e)], r)
    BY Zenon
  <2>3. inbox' = [[inbox EXCEPT ![e] = b] EXCEPT ![Other(e)] = x]
    BY <1>1, <1>2, <1>6, <1>12, <2>0, <2>2 DEF Send, PeerInv, TypeInv
  <2>4. \E S : x \in Seq(S)
    BY <1>2, <2>2, MessagesAppend, Zenon DEF PeerInv, TypeInv
  <2>5. EndInv(s, Opposite(e[2]), o, c, x, config.genesis)
    BY <1>11, <1>12, <2>1, <2>2, Reaches, Zenon
  <2> QED
    BY <1>1, <1>2, <1>3, <1>7, <1>11, <2>3, <2>4, <2>5, EndStep, Zenon
<1>13. CASE ~(m.query # None /\ channel[e].alive /\ ~Gone(Other(e)))
  <2>1. inbox' = [inbox EXCEPT ![e] = b]
    BY <1>1, <1>6, <1>13, Zenon DEF Send
  <2> QED
    BY <1>1, <1>2, <1>3, <1>7, <1>11, <2>1, QuietStep, Zenon
<1> QED
  BY <1>12, <1>13, Zenon

(* The response server takes the first message of its inbox.                *)
LEMMA ReceiveKeeps ==
    ASSUME PeerInv, NEW e \in End, Receive(e)
    PROVE  PeerInv'
<1>1. channel[e] # None /\ channel[e].pc = "read" /\ inbox[e] # <<>> /\ config' = config
  BY Zenon DEF Receive, Running
<1>2. PICK m : m = Head(inbox[e])
  BY Zenon
<1>3. Abort(e) \/ (m.type = "handshake" /\ ProcessHandshake(e, m))
  BY <1>2, Zenon DEF Receive
<1> QED
  BY <1>1, <1>2, <1>3, AbortKeeps, HandshakeKeeps, Zenon

-----------------------------------------------------------------------------
(* Connections that begin, progress and end                                 *)

(* A connection that is over has left nothing behind, so that its slot can  *)
(* be used again.                                                           *)
LEMMA Recycling ==
    ASSUME NEW S \in [Slot -> SocketType \cup {None}], NEW C, NEW B, NEW g,
           \A e \in End : SlotInv(S[e[1]], e, C[e], C[Other(e)], B[e], g)
    PROVE  /\ Recycled(S, C) \in [Slot -> SocketType \cup {None}]
           /\ \A e \in End : SlotInv(Recycled(S, C)[e[1]], e, C[e], C[Other(e)], B[e], g)
<1>0. PICK R : R = Recycled(S, C)
  BY Zenon
<1>1. \A k \in Slot : \/ R[k] = S[k]
                      \/ /\ S[k] # None /\ S[k].task = "done" /\ S[k].accept # "waiting"
                         /\ C[<<k, "out">>] = None /\ C[<<k, "in">>] = None
                         /\ R[k] = None
  BY <1>0, Zenon DEF Recycled
<1>2. R \in [Slot -> SocketType \cup {None}]
  BY <1>0 DEF Recycled
<1>3. ASSUME NEW e \in End PROVE SlotInv(R[e[1]], e, C[e], C[Other(e)], B[e], g)
  <2>0. e[1] \in Slot /\ e[2] \in {"out", "in"} /\ e = <<e[1], e[2]>>
    BY <1>3, Ends, Zenon
  <2>1. CASE R[e[1]] = S[e[1]]
    BY <1>3, <2>1, Zenon
  <2>2. CASE /\ S[e[1]] # None /\ S[e[1]].task = "done" /\ S[e[1]].accept # "waiting"
             /\ C[<<e[1], "out">>] = None /\ C[<<e[1], "in">>] = None
             /\ R[e[1]] = None
    <3>1. C[e] = None
      BY <2>0, <2>2, Zenon
    <3>2. EndInv(S[e[1]], e[2], C[e], C[Other(e)], B[e], g)
      BY <1>3, <2>2, Zenon DEF SlotInv
    <3>3. S[e[1]].accept = "no" \/ Made(S[e[1]], e[2])
      BY <2>0, <2>2 DEF Made, SocketType
    <3>4. B[e] = <<>>
      BY <3>1, <3>2, <3>3, Zenon DEF EndInv
    <3> QED
      BY <2>2, <3>1, <3>4, Zenon DEF SlotInv
  <2> QED
    BY <1>1, <2>0, <2>1, <2>2, Zenon
<1> QED
  BY <1>0, <1>2, <1>3, Zenon

(* The connection's state as its two ends see it has not changed.           *)
LEMMA SameForEnd ==
    ASSUME NEW s, NEW t, NEW side, NEW c, NEW o, NEW box, NEW g,
           EndInv(s, side, c, o, box, g),
           t.accept = "no" => s.accept = "no", OwnerAt(t, side) = OwnerAt(s, side),
           PeerAt(t, side) = PeerAt(s, side), Made(t, side) <=> Made(s, side),
           Made(s, Opposite(side)) => Made(t, Opposite(side))
    PROVE  EndInv(t, side, c, o, box, g)
BY Zenon DEF EndInv, Answered, Genuine

(* A slot in use holds a socket.                                            *)
LEMMA Sockets ==
    ASSUME PeerInv, NEW k \in Slot, socket[k] # None
    PROVE  /\ socket[k] \in SocketType
           /\ \A t \in SocketType : t # None
BY NetworkAssumption, Zenon DEF PeerInv, TypeInv

(* A new connection finds its slot empty.                                   *)
LEMMA ConnectKeeps ==
    ASSUME PeerInv, NEW n \in Node, NEW p \in Node, ConnectTo(n, p),
           UNCHANGED <<channel, inbox, config>>
    PROVE  PeerInv'
<1>1. PICK k : k = CHOOSE s \in FreeSlots : \A t \in FreeSlots : s <= t
  BY Zenon
<1>2. k \in FreeSlots
  BY <1>1, LeastFree, Zenon DEF FreeSlots, ConnectTo
<1>3. PICK r : r = [from |-> n, to |-> p, task |-> "connecting", accept |-> "no"]
  BY Zenon
<1>4. r \in SocketType /\ r # None /\ r.accept = "no" /\ r.task = "connecting"
  BY <1>3, NetworkAssumption DEF SocketType
<1>5. socket' = [socket EXCEPT ![k] = r]
  BY <1>1, <1>3, Zenon DEF ConnectTo
<1>6. k \in Slot /\ socket[k] = None
  BY <1>2, Zenon DEF FreeSlots
<1>7. TypeInv'
  BY <1>4, <1>5, Zenon DEF PeerInv, TypeInv
<1>8. socket'[k] = r /\ \A j \in Slot : j # k => socket'[j] = socket[j]
  BY <1>5, <1>6, Zenon DEF PeerInv, TypeInv
<1>9. ASSUME NEW e \in End PROVE At(e)'
  <2>1. CASE e[1] # k
    BY <1>8, <2>1, Ends, Zenon DEF PeerInv, At
  <2>2. CASE e[1] = k
    <3>1. channel[e] = None /\ inbox[e] = <<>>
      BY <1>6, <2>2, Zenon DEF PeerInv, SlotInv
    <3>2. ~Made(r, e[2])
      BY <1>4, Ends DEF Made
    <3>3. EndInv(r, e[2], channel[e], channel[Other(e)], inbox[e], config.genesis)
      BY <1>4, <3>1, <3>2, NoMessages, Zenon DEF EndInv
    <3> QED
      BY <1>4, <1>8, <2>2, <3>3, Zenon DEF At, SlotInv
  <2> QED
    BY <2>1, <2>2, Zenon
<1> QED
  BY <1>7, <1>9, Zenon DEF PeerInv, At

(* An attempt that fails leaves both ends empty.                            *)
LEMMA ConnectFailsKeeps ==
    ASSUME PeerInv, NEW k \in Slot, ConnectFails(k)
    PROVE  PeerInv'
<1>1. /\ socket[k] # None /\ socket[k].task = "connecting"
      /\ socket' = [socket EXCEPT ![k].task = "remove_attempt"]
      /\ channel' = channel /\ inbox' = inbox /\ config' = config
  BY Zenon DEF ConnectFails
<1>2. PICK t : t = [socket[k] EXCEPT !.task = "remove_attempt"]
  BY Zenon
<1>3. /\ t \in SocketType /\ t # None /\ t.task = "remove_attempt" /\ t.accept = socket[k].accept
      /\ socket' = [socket EXCEPT ![k] = t]
  <2>1. socket[k] \in SocketType /\ socket' = [socket EXCEPT ![k] = t]
    BY <1>1, <1>2, Sockets, Zenon
  <2>2. t \in SocketType /\ t.task = "remove_attempt" /\ t.accept = socket[k].accept
    BY <1>2, <2>1 DEF SocketType
  <2> QED
    BY <1>1, <2>1, <2>2, Sockets, Zenon
<1>4. TypeInv'
  BY <1>1, <1>3, Zenon DEF PeerInv, TypeInv
<1>5. socket'[k] = t /\ \A j \in Slot : j # k => socket'[j] = socket[j]
  BY <1>3, Zenon DEF PeerInv, TypeInv
<1>6. ASSUME NEW e \in End PROVE At(e)'
  <2>1. CASE e[1] # k
    BY <1>1, <1>5, <2>1, Ends, Zenon DEF PeerInv, At
  <2>2. CASE e[1] = k
    <3>1. socket[k].accept = "no" /\ channel[e] = None /\ inbox[e] = <<>>
      BY <1>1, <2>2, Zenon DEF PeerInv, SlotInv, EndInv
    <3>2. EndInv(t, e[2], channel[e], channel[Other(e)], inbox[e], config.genesis)
      BY <3>1, NoMessages, Zenon DEF EndInv
    <3>3. "remove_attempt" # "connecting"
      OBVIOUS
    <3> QED
      BY <1>1, <1>3, <1>5, <2>2, <3>2, <3>3, Zenon DEF At, SlotInv
  <2> QED
    BY <2>1, <2>2, Zenon
<1> QED
  BY <1>4, <1>6, Zenon DEF PeerInv, At

(* Removing the attempt touches no channel.                                 *)
LEMMA RemoveAttemptKeeps ==
    ASSUME PeerInv, NEW k \in Slot, RemoveAttempt(k)
    PROVE  PeerInv'
<1>0. PICK S : S = [socket EXCEPT ![k].task = "done"]
  BY Zenon
<1>1. /\ socket[k] # None /\ socket[k].task = "remove_attempt" /\ socket' = Recycled(S, channel)
      /\ channel' = channel /\ inbox' = inbox /\ config' = config
  BY <1>0, Zenon DEF RemoveAttempt
<1>2. PICK t : t = [socket[k] EXCEPT !.task = "done"]
  BY Zenon
<1>3. /\ t \in SocketType /\ t # None /\ t.task = "done" /\ t.accept = socket[k].accept
      /\ t.from = socket[k].from /\ t.to = socket[k].to
      /\ S = [socket EXCEPT ![k] = t]
  <2>1. socket[k] \in SocketType /\ S = [socket EXCEPT ![k] = t]
    BY <1>0, <1>1, <1>2, Sockets, Zenon
  <2>2. /\ t \in SocketType /\ t.task = "done" /\ t.accept = socket[k].accept
        /\ t.from = socket[k].from /\ t.to = socket[k].to
    BY <1>2, <2>1 DEF SocketType
  <2> QED
    BY <1>1, <2>1, <2>2, Sockets, Zenon
<1>4. /\ S \in [Slot -> SocketType \cup {None}] /\ S[k] = t
      /\ \A j \in Slot : j # k => S[j] = socket[j]
  BY <1>3, Zenon DEF PeerInv, TypeInv
<1>5. ASSUME NEW e \in End
      PROVE  SlotInv(S[e[1]], e, channel[e], channel[Other(e)], inbox[e], config.genesis)
  <2>1. CASE e[1] # k
    BY <1>4, <2>1, Ends, Zenon DEF PeerInv
  <2>2. CASE e[1] = k
    <3>1. EndInv(socket[k], e[2], channel[e], channel[Other(e)], inbox[e], config.genesis)
      BY <1>1, <2>2, Zenon DEF PeerInv, SlotInv
    <3>2. \A side : Made(t, side) <=> Made(socket[k], side)
      BY <1>1, <1>3 DEF Made
    <3>3. \A side : OwnerAt(t, side) = OwnerAt(socket[k], side) /\ PeerAt(t, side) = PeerAt(socket[k], side)
      BY <1>3, Zenon DEF OwnerAt, PeerAt
    <3>4. EndInv(t, e[2], channel[e], channel[Other(e)], inbox[e], config.genesis)
      BY <1>3, <3>1, <3>2, <3>3, SameForEnd, Zenon
    <3>5. "done" # "connecting"
      OBVIOUS
    <3> QED
      BY <1>3, <1>4, <2>2, <3>4, <3>5, Zenon DEF SlotInv
  <2> QED
    BY <2>1, <2>2, Zenon
<1>6. socket' \in [Slot -> SocketType \cup {None}] /\ \A e \in End : At(e)'
  BY <1>1, <1>4, <1>5, Recycling, Zenon DEF At
<1> QED
  BY <1>1, <1>6, Zenon DEF PeerInv, TypeInv, At

(* What is removed had nothing left to read.                                *)
LEMMA CleanUpKeeps ==
    ASSUME PeerInv, NEW n \in Node, CleanUp(n)
    PROVE  PeerInv'
<1>0. PICK dead : dead = DeadChannels(n)
  BY Zenon
<1>1. /\ channel' = [e \in End |-> IF e \in dead THEN None ELSE channel[e]]
      /\ socket' = Recycled(socket, channel') /\ inbox' = inbox /\ config' = config
  BY <1>0, Zenon DEF CleanUp
<1>2. PICK C : C = [e \in End |-> IF e \in dead THEN None ELSE channel[e]]
  BY Zenon
<1>3. /\ channel' = C /\ socket' = Recycled(socket, C)
      /\ \A e \in End : C[e] = channel[e] \/ (C[e] = None /\ e \in dead)
  BY <1>1, <1>2, Zenon
<1>4. C \in [End -> ChannelType \cup {None}]
  BY <1>2, Zenon DEF PeerInv, TypeInv
<1>5. \A e \in dead : e \in End /\ channel[e] # None /\ channel[e].pc = "done"
  BY <1>0, Zenon DEF DeadChannels, Channels
<1>6. ASSUME NEW e \in End
      PROVE  SlotInv(socket[e[1]], e, C[e], C[Other(e)], inbox[e], config.genesis)
  <2>1. SlotInv(socket[e[1]], e, channel[e], channel[Other(e)], inbox[e], config.genesis)
    BY Zenon DEF PeerInv
  <2>2. Other(e) \in End
    BY Ends, Zenon
  <2>3. CASE socket[e[1]] = None
    BY <1>3, <2>1, <2>3, Zenon DEF SlotInv
  <2>4. CASE socket[e[1]] # None
    <3>1. EndInv(socket[e[1]], e[2], channel[e], channel[Other(e)], inbox[e], config.genesis)
      BY <2>1, <2>4, Zenon DEF SlotInv
    <3>2. EndInv(socket[e[1]], e[2], channel[e], C[Other(e)], inbox[e], config.genesis)
      BY <1>3, <2>2, <3>1, OtherGrows, Zenon DEF Answered
    <3>3. EndInv(socket[e[1]], e[2], C[e], C[Other(e)], inbox[e], config.genesis)
      <4>1. CASE C[e] = channel[e]
        BY <3>2, <4>1, Zenon
      <4>2. CASE C[e] = None /\ e \in dead
        <5>1. inbox[e] = <<>>
          BY <1>5, <3>1, <4>2, Zenon DEF EndInv
        <5> QED
          BY <3>2, <4>2, <5>1, Zenon DEF EndInv
      <4> QED
        BY <1>3, <4>1, <4>2, Zenon
    <3> QED
      BY <2>1, <2>4, <3>3, Zenon DEF SlotInv
  <2> QED
    BY <2>3, <2>4, Zenon
<1>7. socket' \in [Slot -> SocketType \cup {None}] /\ \A e \in End : At(e)'
  <2>1. socket \in [Slot -> SocketType \cup {None}]
    BY Zenon DEF PeerInv, TypeInv
  <2>2. /\ Recycled(socket, C) \in [Slot -> SocketType \cup {None}]
        /\ \A e \in End : SlotInv(Recycled(socket, C)[e[1]], e, C[e], C[Other(e)], inbox[e], config.genesis)
    BY <1>6, <2>1, Recycling, Zenon
  <2> QED
    BY <1>1, <1>3, <2>2, Zenon DEF At
<1> QED
  BY <1>1, <1>3, <1>4, <1>7, Zenon DEF PeerInv, TypeInv, At

(* The connection stands: the dialler's end gets its channel, or not, and   *)
(* the listener's may find a first query.                                   *)
LEMMA AddOutboundKeeps ==
    ASSUME PeerInv, NEW k \in Slot, AddOutbound(k)
    PROVE  PeerInv'
<1> DEFINE out == <<k, "out">>
           in == <<k, "in">>
<1>0. /\ out \in End /\ in \in End /\ Other(out) = in /\ Other(in) = out /\ out # in
      /\ out[1] = k /\ in[1] = k /\ out[2] = "out" /\ in[2] = "in"
      /\ \A e \in End : e[1] = k => e = out \/ e = in
      /\ \A e \in End : e[1] # k => e # out /\ e # in /\ Other(e) # out /\ Other(e) # in
      /\ \A e \in End : Other(e) \in End /\ e[1] \in Slot
  BY DEF End, Other
<1>1. /\ socket[k] # None /\ socket[k].task = "connecting" /\ config' = config
      /\ socket' = [socket EXCEPT ![k].task = "remove_attempt", ![k].accept = "waiting"]
  BY Zenon DEF AddOutbound
<1>2. /\ \E c : /\ c \in {NewChannel(out), Closed(NewChannel(out)), None}
                /\ channel' = [channel EXCEPT ![out] = c]
      /\ \E m : /\ \E cookie : m = Handshake(cookie, None)
                /\ inbox' = [inbox EXCEPT ![in] = <<m>>] \/ inbox' = inbox
  <2> DEFINE ep == PeerAddr(out)
             added == Valid(Owner(out), ep, "out", attempts[Owner(out)])
             assigned == added /\ Assigns(Owner(out), ep, config.max_cookies_per_ip)
             new == CASE assigned -> NewChannel(out)
                      [] added /\ ~assigned -> Closed(NewChannel(out))
                      [] OTHER -> None
             query == Handshake(<<out, FALSE>>, None)
  <2>1. /\ channel' = [channel EXCEPT ![out] = new]
        /\ inbox' = IF assigned THEN [inbox EXCEPT ![Other(out)] = <<query>>] ELSE inbox
    BY Zenon DEF AddOutbound
  <2>2. new \in {NewChannel(out), Closed(NewChannel(out)), None}
    <3> HIDE DEF assigned, added
    <3> QED
      OBVIOUS
  <2>3. inbox' = [inbox EXCEPT ![in] = <<query>>] \/ inbox' = inbox
    BY <1>0, <2>1, Zenon
  <2>4. \E cookie : query = Handshake(cookie, None)
    BY Zenon
  <2> HIDE DEF new, query, out, in
  <2>5. \E c : /\ c \in {NewChannel(out), Closed(NewChannel(out)), None}
               /\ channel' = [channel EXCEPT ![out] = c]
    BY <2>1, <2>2, Zenon
  <2>6. \E m : /\ \E cookie : m = Handshake(cookie, None)
               /\ inbox' = [inbox EXCEPT ![in] = <<m>>] \/ inbox' = inbox
    BY <2>3, <2>4, Zenon
  <2> QED
    BY <2>5, <2>6, Zenon
<1>c. PICK c : /\ c \in {NewChannel(out), Closed(NewChannel(out)), None}
               /\ channel' = [channel EXCEPT ![out] = c]
  BY <1>2, Zenon
<1>m. PICK m : /\ \E cookie : m = Handshake(cookie, None)
               /\ inbox' = [inbox EXCEPT ![in] = <<m>>] \/ inbox' = inbox
  BY <1>2, Zenon
<1>3. PICK t : t = [socket[k] EXCEPT !.task = "remove_attempt", !.accept = "waiting"]
  BY Zenon
<1>4. /\ t \in SocketType /\ t # None /\ t.task = "remove_attempt" /\ t.accept = "waiting"
      /\ socket' = [socket EXCEPT ![k] = t] /\ socket[k] \in SocketType
  <2>1. socket[k] \in SocketType
    BY <1>1, Sockets, Zenon
  <2>2. socket' = [socket EXCEPT ![k] = t]
    BY <1>1, <1>3
  <2>3. t \in SocketType /\ t.task = "remove_attempt" /\ t.accept = "waiting"
    BY <1>3, <2>1 DEF SocketType
  <2> QED
    BY <1>1, <2>1, <2>2, <2>3, Sockets, Zenon
<1> HIDE DEF out, in
<1>5. \A e \in End : e[1] = k => channel[e] = None /\ inbox[e] = <<>>
  BY <1>1, Zenon DEF PeerInv, SlotInv, EndInv
<1>6. /\ c \in ChannelType \cup {None}
      /\ (c # None => (c.pc = "done" => ~c.alive) /\ c.pc \in {"read", "done"} /\ c.mode = "Undefined")
  <2>1. NewChannel(out) \in ChannelType /\ NewChannel(out).pc = "read" /\ NewChannel(out).mode = "Undefined"
    BY <1>0, <1>4 DEF NewChannel, ChannelType, PeerAddr, Peer, SocketType
  <2>2. "read" # "done"
    OBVIOUS
  <2>3. CASE c = NewChannel(out)
    BY <2>1, <2>2, <2>3, Zenon
  <2>4. CASE c = Closed(NewChannel(out))
    BY <2>1, <2>4, ChannelFields, Zenon
  <2> QED
    BY <1>c, <2>3, <2>4, Zenon
<1>7. /\ channel' \in [End -> ChannelType \cup {None}]
      /\ channel'[out] = c /\ \A e \in End : e # out => channel'[e] = channel[e]
  BY <1>0, <1>c, <1>6, Zenon DEF PeerInv, TypeInv
<1>8. /\ inbox' = [e \in End |-> inbox'[e]]
      /\ inbox'[in] = <<m>> \/ inbox'[in] = inbox[in]
      /\ \A e \in End : e # in => inbox'[e] = inbox[e]
  <2>1. inbox = [e \in End |-> inbox[e]]
    BY Zenon DEF PeerInv, TypeInv
  <2> QED
    BY <1>0, <1>m, <2>1
<1>9. socket'[k] = t /\ \A j \in Slot : j # k => socket'[j] = socket[j]
  BY <1>4, Zenon DEF PeerInv, TypeInv
<1>10. (\E S : <<m>> \in Seq(S)) /\ Messages(<<m>>) = {m} /\ ~IsResponse(m)
  <2>1. <<m>> \in Seq({m}) /\ Messages(<<m>>) = {m}
    BY DEF Messages
  <2>2. m.response = None
    BY <1>m DEF Handshake
  <2> QED
    BY <2>1, <2>2, Zenon DEF IsResponse
<1>11. TypeInv'
  <2>1. \A e \in End : \E S : inbox'[e] \in Seq(S)
    BY <1>8, <1>10, Zenon DEF PeerInv, TypeInv
  <2>2. socket' \in [Slot -> SocketType \cup {None}]
    BY <1>4, Zenon DEF PeerInv, TypeInv
  <2> QED
    BY <1>7, <1>8, <2>1, <2>2, Zenon DEF TypeInv
<1>12. ASSUME NEW e \in End, e[1] # k PROVE At(e)'
  BY <1>0, <1>1, <1>7, <1>8, <1>9, <1>12, Untouched, Zenon
<1>13. /\ "waiting" # "no" /\ "waiting" # "done" /\ "remove_attempt" # "connecting"
       /\ "Undefined" # "Realtime" /\ {"read", "done"} \cap {"check", "set"} = {} /\ "in" # "out"
  OBVIOUS
<1>14. At(out)'
  <2>1. inbox'[out] = <<>>
    BY <1>0, <1>5, <1>8, Zenon
  <2>2. Made(t, "out")
    BY <1>4, <1>13, Zenon DEF Made
  <2>3. EndInv(t, "out", c, channel'[in], <<>>, config.genesis)
    BY <1>4, <1>6, <1>13, <2>2, NoMessages, Zenon DEF EndInv
  <2> QED
    BY <1>0, <1>1, <1>4, <1>7, <1>9, <1>13, <2>1, <2>3, Zenon DEF At, SlotInv
<1>15. At(in)'
  <2>1. channel'[in] = None
    BY <1>0, <1>5, <1>7, Zenon
  <2>2. ~Made(t, "in")
    BY <1>4, <1>13, Zenon DEF Made
  <2>3. \A x \in Messages(inbox'[in]) : ~IsResponse(x)
    BY <1>0, <1>5, <1>8, <1>10, NoMessages, Zenon
  <2>4. EndInv(t, "in", None, c, inbox'[in], config.genesis)
    BY <1>4, <1>13, <2>2, <2>3, Zenon DEF EndInv
  <2> QED
    BY <1>0, <1>1, <1>4, <1>7, <1>9, <1>13, <2>1, <2>4, Zenon DEF At, SlotInv
<1> QED
  BY <1>0, <1>11, <1>12, <1>14, <1>15, Zenon DEF PeerInv, At

(* The listener's end gets its channel, or drops what was sent to it.       *)
LEMMA AcceptKeeps ==
    ASSUME PeerInv, NEW k \in Slot, Accept(k)
    PROVE  PeerInv'
<1> DEFINE out == <<k, "out">>
           in == <<k, "in">>
<1>0. /\ out \in End /\ in \in End /\ Other(out) = in /\ Other(in) = out /\ out # in
      /\ out[1] = k /\ in[1] = k /\ out[2] = "out" /\ in[2] = "in"
      /\ \A e \in End : e[1] = k => e = out \/ e = in
      /\ \A e \in End : e[1] # k => e # out /\ e # in /\ Other(e) # out /\ Other(e) # in
      /\ \A e \in End : Other(e) \in End /\ e[1] \in Slot
  BY DEF End, Other
<1>1. PICK S : S = [socket EXCEPT ![k].accept = "done"]
  BY Zenon
<1>2. /\ socket[k] # None /\ socket[k].accept = "waiting" /\ config' = config
      /\ socket' = Recycled(S, channel')
      /\ \/ channel' = [channel EXCEPT ![in] = NewChannel(in)] /\ inbox' = inbox
         \/ channel' = channel /\ inbox' = [inbox EXCEPT ![in] = <<>>]
  BY <1>1, Zenon DEF Accept
<1>3. PICK t : t = [socket[k] EXCEPT !.accept = "done"]
  BY Zenon
<1>4. /\ t \in SocketType /\ t # None /\ t.accept = "done" /\ t.task = socket[k].task
      /\ t.from = socket[k].from /\ t.to = socket[k].to /\ socket[k] \in SocketType
      /\ S = [socket EXCEPT ![k] = t]
  <2>1. socket[k] \in SocketType /\ S = [socket EXCEPT ![k] = t]
    BY <1>1, <1>2, <1>3, Sockets, Zenon
  <2>2. /\ t \in SocketType /\ t.accept = "done" /\ t.task = socket[k].task
        /\ t.from = socket[k].from /\ t.to = socket[k].to
    BY <1>3, <2>1 DEF SocketType
  <2> QED
    BY <1>2, <2>1, <2>2, Sockets, Zenon
<1> HIDE DEF out, in
<1>5. /\ S \in [Slot -> SocketType \cup {None}] /\ S[k] = t
      /\ \A j \in Slot : j # k => S[j] = socket[j]
  BY <1>4, Zenon DEF PeerInv, TypeInv
<1>6. /\ "waiting" # "no" /\ "waiting" # "done" /\ "done" # "no" /\ "read" # "done"
      /\ "Undefined" # "Realtime" /\ "read" \notin {"check", "set"} /\ "in" # "out"
      /\ Opposite("out") = "in" /\ Opposite("in") = "out"
  BY DEF Opposite
<1>7. /\ EndInv(socket[k], "out", channel[out], channel[in], inbox[out], config.genesis)
      /\ EndInv(socket[k], "in", channel[in], channel[out], inbox[in], config.genesis)
      /\ socket[k].task # "connecting"
  BY <1>0, <1>2, <1>6, Zenon DEF PeerInv, SlotInv
<1>8. /\ \A side : OwnerAt(t, side) = OwnerAt(socket[k], side) /\ PeerAt(t, side) = PeerAt(socket[k], side)
      /\ Made(t, "out") <=> Made(socket[k], "out")
      /\ ~Made(socket[k], "in") /\ Made(t, "in")
  BY <1>2, <1>4, <1>6, Zenon DEF OwnerAt, PeerAt, Made
<1>9. channel[in] = None
  BY <1>7, <1>8, Zenon DEF EndInv
<1>10. EndInv(t, "out", channel[out], channel'[in], inbox[out], config.genesis)
  <2>1. ~Answered(socket[k], "out", channel[in])
    BY <1>6, <1>8, Zenon DEF Answered
  <2>2. EndInv(socket[k], "out", channel[out], channel'[in], inbox[out], config.genesis)
    BY <1>7, <2>1, OtherGrows, Zenon
  <2> QED
    BY <1>4, <1>6, <1>8, <2>2, SameForEnd, Zenon
<1>11. \A m \in Messages(inbox[in]) : IsResponse(m) =>
         /\ m.response.node_id = PeerAt(t, "in")
         /\ m.response.genesis = config.genesis[PeerAt(t, "in")]
         /\ Answered(t, "in", channel[out])
  BY <1>6, <1>7, <1>8, Zenon DEF EndInv, Answered
<1>12. /\ NewChannel(in) \in ChannelType /\ NewChannel(in) # None
       /\ NewChannel(in).pc = "read" /\ NewChannel(in).mode = "Undefined"
  <2>1. NewChannel(in) = [alive |-> TRUE, mode |-> "Undefined", node_id |-> None,
                          peering_addr |-> None, handshake_received |-> FALSE,
                          claimed |-> None, pc |-> "read"]
    BY <1>0, <1>6, Zenon DEF NewChannel
  <2>2. NewChannel(in) \in ChannelType
    BY <2>1 DEF ChannelType
  <2> QED
    BY <2>1, <2>2, ChannelFields
<1>13. EndInv(t, "in", NewChannel(in), channel[out], inbox[in], config.genesis)
  BY <1>4, <1>6, <1>8, <1>11, <1>12, Zenon DEF EndInv
<1>14. EndInv(t, "in", None, channel[out], <<>>, config.genesis)
  BY <1>4, <1>6, NoMessages, Zenon DEF EndInv
<1>15. /\ channel' \in [End -> ChannelType \cup {None}]
       /\ inbox' = [e \in End |-> inbox'[e]]
       /\ \A e \in End : \E T : inbox'[e] \in Seq(T)
       /\ \A e \in End : e # in => channel'[e] = channel[e] /\ inbox'[e] = inbox[e]
       /\ EndInv(t, "in", channel'[in], channel[out], inbox'[in], config.genesis)
  <2>1. CASE channel' = [channel EXCEPT ![in] = NewChannel(in)] /\ inbox' = inbox
    <3>1. channel \in [End -> ChannelType \cup {None}]
      BY Zenon DEF PeerInv, TypeInv
    <3>2. channel' \in [End -> ChannelType \cup {None}] /\ channel'[in] = NewChannel(in)
      BY <1>0, <1>12, <2>1, <3>1, Zenon
    <3> QED
      BY <1>0, <1>13, <2>1, <3>1, <3>2, Zenon DEF PeerInv, TypeInv
  <2>2. CASE channel' = channel /\ inbox' = [inbox EXCEPT ![in] = <<>>]
    <3>1. inbox = [e \in End |-> inbox[e]]
      BY Zenon DEF PeerInv, TypeInv
    <3>2. /\ inbox' = [e \in End |-> inbox'[e]] /\ inbox'[in] = <<>>
          /\ \A e \in End : e # in => inbox'[e] = inbox[e]
      BY <1>0, <2>2, <3>1
    <3>3. \A e \in End : \E T : inbox'[e] \in Seq(T)
      BY <3>2, NoMessages, Zenon DEF PeerInv, TypeInv
    <3> QED
      BY <1>9, <1>14, <2>2, <3>2, <3>3, Zenon DEF PeerInv, TypeInv
  <2> QED
    BY <1>2, <2>1, <2>2, Zenon
<1>16. ASSUME NEW e \in End
       PROVE  SlotInv(S[e[1]], e, channel'[e], channel'[Other(e)], inbox'[e], config.genesis)
  <2>1. CASE e[1] # k
    <3>1. e # in /\ Other(e) # in /\ Other(e) \in End /\ e[1] \in Slot
      BY <1>0, <2>1, Zenon
    <3>2. /\ S[e[1]] = socket[e[1]] /\ channel'[e] = channel[e]
          /\ channel'[Other(e)] = channel[Other(e)] /\ inbox'[e] = inbox[e]
      BY <1>5, <1>15, <2>1, <3>1, Zenon
    <3> QED
      BY <3>2, Zenon DEF PeerInv
  <2>2. CASE e = out
    <3>1. channel'[out] = channel[out] /\ inbox'[out] = inbox[out]
      BY <1>0, <1>15, Zenon
    <3>2. SlotInv(t, out, channel[out], channel'[in], inbox[out], config.genesis)
      BY <1>0, <1>4, <1>7, <1>10, Zenon DEF SlotInv
    <3> QED
      BY <1>0, <1>5, <2>2, <3>1, <3>2, Zenon
  <2>3. CASE e = in
    <3>1. channel'[out] = channel[out]
      BY <1>0, <1>15, Zenon
    <3>2. SlotInv(t, in, channel'[in], channel[out], inbox'[in], config.genesis)
      BY <1>0, <1>4, <1>7, <1>15, Zenon DEF SlotInv
    <3> QED
      BY <1>0, <1>5, <2>3, <3>1, <3>2, Zenon
  <2> QED
    BY <1>0, <2>1, <2>2, <2>3, Zenon
<1>17. PICK C, B : C = channel' /\ B = inbox'
  BY Zenon
<1>18. socket' \in [Slot -> SocketType \cup {None}] /\ \A e \in End : At(e)'
  <2>1. \A e \in End : SlotInv(S[e[1]], e, C[e], C[Other(e)], B[e], config.genesis)
    BY <1>16, <1>17, Zenon
  <2>2. socket' = Recycled(S, C)
    BY <1>2, <1>17, Zenon
  <2> QED
    BY <1>2, <1>5, <1>17, <2>1, <2>2, Recycling, Zenon DEF At
<1> QED
  BY <1>15, <1>18, Zenon DEF PeerInv, TypeInv, At

-----------------------------------------------------------------------------
(* No node knows a channel when it starts.                                  *)
LEMMA InitPeers == Init => PeerInv
<1> SUFFICES ASSUME Init PROVE PeerInv
  OBVIOUS
<1>1. /\ socket = [k \in Slot |-> None] /\ channel = [e \in End |-> None]
      /\ inbox = [e \in End |-> <<>>]
  BY Zenon DEF Init
<1>2. \A e \in End : e[1] \in Slot /\ Other(e) \in End
  BY Ends, Zenon
<1> QED
  BY <1>1, <1>2, NoMessages, Zenon DEF PeerInv, TypeInv, SlotInv

(* Every step of every node keeps the invariant.                            *)
LEMMA NextPeers == PeerInv /\ [Next]_vars => PeerInv'
<1> SUFFICES ASSUME PeerInv, [Next]_vars PROVE PeerInv'
  OBVIOUS
<1>1. ASSUME UNCHANGED <<socket, channel, inbox, config>> PROVE PeerInv'
  <2>1. socket' = socket /\ channel' = channel /\ inbox' = inbox /\ config' = config
    BY <1>1
  <2> QED
    BY <2>1, Zenon DEF PeerInv, TypeInv, Other, End
<1>2. CASE \E n \in Node, p \in Node : DialCached(n, p) \/ DialReachout(n, p)
  <2>1. PICK n \in Node, p \in Node : DialCached(n, p) \/ DialReachout(n, p)
    BY <1>2, Zenon
  <2>2. channel' = channel /\ inbox' = inbox /\ config' = config
    BY <2>1, Zenon DEF DialCached, DialReachout
  <2>3. ConnectTo(n, p) \/ socket' = socket
    BY <2>1, Zenon DEF DialCached, DialReachout
  <2> QED
    BY <1>1, <2>2, <2>3, ConnectKeeps, Zenon
<1>3. CASE \E n \in Node, e \in End : PopKeepalive(n, e)
  BY <1>1, <1>3, Zenon DEF PopKeepalive, info
<1>4. CASE \E n \in Node : CleanUp(n)
  BY <1>4, CleanUpKeeps, Zenon
<1>5. CASE \E k \in Slot : AddOutbound(k) \/ RemoveAttempt(k) \/ Accept(k) \/ ConnectFails(k)
  BY <1>5, AddOutboundKeeps, RemoveAttemptKeeps, AcceptKeeps, ConnectFailsKeeps, Zenon
<1>6. CASE \E e \in End : Receive(e) \/ CheckUpgrade(e) \/ SetRealtime(e) \/ ReceiveRealtime(e)
                          \/ SendKeepalive(e)
  BY <1>6, ReceiveKeeps, CheckUpgradeKeeps, SetRealtimeKeeps, ReceiveRealtimeKeeps,
     SendKeepaliveKeeps, Zenon
<1>7. CASE \E e \in End : ReadFails(e)
  BY <1>7, AbortKeeps, Zenon DEF ReadFails, Running
<1>8. CASE \E e \in End : CheckupTimeout(e) \/ SlowChannel(e)
  <2>1. PICK e \in End : CheckupTimeout(e) \/ SlowChannel(e)
    BY <1>8, Zenon
  <2>2. /\ channel[e] # None /\ channel[e].alive
        /\ channel' = [channel EXCEPT ![e].alive = FALSE]
        /\ UNCHANGED <<socket, inbox, config>>
    BY <2>1, Zenon DEF CheckupTimeout, SlowChannel, Running
  <2> QED
    BY <2>2, TimeoutKeeps, Zenon
<1>9. CASE \E n \in Node : ExpireEarly(n)
  BY <1>1, <1>9, Zenon DEF ExpireEarly, info
<1>10. CASE UNCHANGED vars
  BY <1>1, <1>10, Zenon DEF vars, info
<1> QED
  BY <1>2, <1>3, <1>4, <1>5, <1>6, <1>7, <1>8, <1>9, <1>10, Zenon
     DEF Next, Connector, ReachoutLoop, ResponseServer, Fault

(* A realtime channel is genuine.                                           *)
LEMMA PeersVerified == PeerInv => RealtimeVerified
<1> SUFFICES ASSUME PeerInv, NEW e \in End, Linked(e)
             PROVE  /\ channel[e].node_id = Peer(e) /\ Peer(e) # Owner(e)
                    /\ config.genesis[Peer(e)] = config.genesis[Owner(e)]
                    /\ channel[Other(e)] # None => channel[Other(e)].handshake_received
  BY Zenon DEF RealtimeVerified
<1>1. channel[e] # None /\ channel[e].mode = "Realtime"
  BY Zenon DEF Linked
<1>2. /\ Genuine(socket[e[1]], e[2], channel[e].node_id, config.genesis)
      /\ Answered(socket[e[1]], e[2], channel[Other(e)])
  BY <1>1, Open, Zenon DEF EndInv
<1> QED
  <2>1. Owner(e) = OwnerAt(socket[e[1]], e[2]) /\ Peer(e) = PeerAt(socket[e[1]], e[2])
    BY Ends, Zenon
  <2> QED
    BY <1>2, <2>1 DEF Genuine, Answered

(* However connections are made, crossed, refused, timed out, cleaned up    *)
(* and their slots used again, a realtime channel leads to another node of  *)
(* the same network, the one it names, which answered on this connection.   *)
THEOREM RealtimeChannelsVerified == Spec => []RealtimeVerified
<1>1. Init => PeerInv
  BY InitPeers
<1>2. PeerInv /\ [Next]_vars => PeerInv'
  BY NextPeers
<1>3. PeerInv => RealtimeVerified
  BY PeersVerified
<1> QED
  BY <1>1, <1>2, <1>3, PTL DEF Spec

=============================================================================
