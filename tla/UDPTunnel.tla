------------------------------ MODULE UDPTunnel -----------------------------
(***************************************************************************)
(* A SOCKS5 UDP association and its relay: UDPAssociation of               *)
(* cmd/client/main.go with its three goroutines (the TCP reader of         *)
(* handleSOCKS5UDP, loop, and the receiver of replies), and                *)
(* handleUDPStream of internal/relay/tcp.go with its two, joined by one    *)
(* stream.                                                                 *)
(*                                                                         *)
(* The stream delivers in order what is written before it breaks.  UDP     *)
(* itself, on both outer sides, is the environment.                        *)
(***************************************************************************)
EXTENDS Naturals, SequencesExt

CONSTANTS
  Sources,         \* UDP addresses on the client's side
  Targets,         \* addresses a SOCKS5 packet can name
  None,            \* no address
  MaxPackets,      \* bound: packets sent by the association
  MaxReplies       \* bound: datagrams arriving at the server's socket

ASSUME UDPAssumption ==
  /\ None \notin Sources \cup Targets
  /\ MaxPackets \in Nat /\ MaxReplies \in Nat

Goroutines == {"tcp", "loop", "receiver"}
Nobody == "nobody"

VARIABLES
  pc,              \* where the goroutines of the association are
  mu,              \* owner of UDPAssociation.mu
  clientUDPAddr,   \* UDPAssociation.clientUDPAddr
  closed,          \* UDPAssociation.closed
  receiving,       \* UDPAssociation.receiving
  target,          \* UDPAssociation.target
  sockets,         \* "open" until udpListener and tcpConn are closed
  pkt,             \* the packet loop is sending: [id, from, target, empty]
  stream,          \* the client's end of the stream: none, open or closed
  opened,          \* history: number of streams opened
  up,              \* chunks on the stream to the server
  down,            \* replies on the stream to the client
  broken,          \* the link of the stream has failed
  main,            \* where handleUDPStream is
  reader,          \* where its reading goroutine is
  chunk,           \* the chunk that goroutine is sending, as a sequence
  cancelled,       \* its ctx is cancelled
  udpAddr,         \* the target named in the stream's header
  served,          \* the server's end of the stream: none, open or closed
  replies,         \* history: number of datagrams that arrived
  accepted,        \* history: packets send took
  toTarget,        \* history: [pkt, addr] written to the server's socket
  delivered        \* history: addresses replies were sent to

assocVars == <<pc, mu, clientUDPAddr, closed, receiving, target, sockets, pkt>>
streamVars == <<stream, opened, up, down, broken, udpAddr>>
serverVars == <<main, reader, chunk, cancelled, served, replies>>
historyVars == <<accepted, toTarget, delivered>>
vars == <<assocVars, streamVars, serverVars, historyVars>>

NoPacket == [id |-> 0, from |-> None, target |-> None, empty |-> FALSE]

Init ==
  /\ pc = [g \in Goroutines |-> IF g = "receiver" THEN "off" ELSE "read"]
  /\ mu = Nobody
  /\ clientUDPAddr = None
  /\ closed = FALSE /\ receiving = FALSE /\ target = None
  /\ sockets = "open" /\ pkt = NoPacket
  /\ stream = "none" /\ opened = 0 /\ up = <<>> /\ down = <<>>
  /\ broken = FALSE /\ udpAddr = None
  /\ main = "off" /\ reader = "off" /\ chunk = <<>>
  /\ cancelled = FALSE /\ served = "none" /\ replies = 0
  /\ accepted = <<>> /\ toTarget = <<>> /\ delivered = <<>>

Goto(g, place) == pc' = [pc EXCEPT ![g] = place]
-----------------------------------------------------------------------------
(* loop and send *)

\* The first address to send anything owns the association.
Adopt(src) ==
  /\ clientUDPAddr \in {None, src}
  /\ clientUDPAddr' = src

\* A packet that is not dropped: it has the owner's address, can be parsed and
\* suits the IP strategy.
Receive(src) ==
  /\ pc["loop"] = "read"
  /\ sockets = "open"
  /\ mu = Nobody
  /\ Len(accepted) < MaxPackets
  /\ Adopt(src)
  /\ \/ \E t \in Targets, empty \in BOOLEAN :
          /\ pkt' = [id |-> Len(accepted) + 1, from |-> src, target |-> t,
                     empty |-> empty]
          /\ Goto("loop", "send")
     \/ UNCHANGED <<pkt, pc>>
  /\ UNCHANGED <<mu, closed, receiving, target, sockets, streamVars, serverVars,
                 historyVars>>

\* send after Close does nothing.
SendClosed ==
  /\ pc["loop"] = "send"
  /\ mu = Nobody
  /\ closed
  /\ Goto("loop", "read")
  /\ UNCHANGED <<mu, clientUDPAddr, closed, receiving, target, sockets, pkt,
                 streamVars, serverVars, historyVars>>

\* The first packet: the stream is opened, under mu.
SendFirst ==
  /\ pc["loop"] = "send"
  /\ mu = Nobody
  /\ ~closed /\ ~receiving
  /\ receiving' = TRUE
  /\ target' = pkt.target
  /\ mu' = "loop"
  /\ accepted' = Append(accepted, pkt)
  /\ Goto("loop", "open")
  /\ UNCHANGED <<clientUDPAddr, closed, sockets, pkt, streamVars, serverVars,
                 toTarget, delivered>>

\* A later packet: the target is noted and goes nowhere.
SendNext ==
  /\ pc["loop"] = "send"
  /\ mu = Nobody
  /\ ~closed /\ receiving
  /\ target' = pkt.target
  /\ accepted' = Append(accepted, pkt)
  /\ Goto("loop", "write")
  /\ UNCHANGED <<mu, clientUDPAddr, closed, receiving, sockets, pkt, streamVars,
                 serverVars, toTarget, delivered>>

\* openUDPStream: the server gets the stream with the target in its header.
OpenOk ==
  /\ pc["loop"] = "open"
  /\ ~broken
  /\ stream' = "open" /\ opened' = opened + 1 /\ udpAddr' = pkt.target
  /\ main' = "resolve" /\ served' = "open"
  /\ mu' = Nobody
  /\ pc' = [pc EXCEPT !["loop"] = "write", !["receiver"] = "read"]
  /\ UNCHANGED <<clientUDPAddr, closed, receiving, target, sockets, pkt, up,
                 down, broken, reader, chunk, cancelled, replies, historyVars>>

\* openUDPStream fails: the association is closed.
OpenFails ==
  /\ pc["loop"] = "open"
  /\ closed' = TRUE
  /\ mu' = Nobody
  /\ Goto("loop", "closing")
  /\ UNCHANGED <<clientUDPAddr, receiving, target, sockets, pkt, streamVars,
                 serverVars, historyVars>>

WriteOk ==
  /\ pc["loop"] = "write"
  /\ stream = "open" /\ ~broken
  /\ up' = Append(up, pkt)
  /\ Goto("loop", "read")
  /\ UNCHANGED <<mu, clientUDPAddr, closed, receiving, target, sockets, pkt,
                 stream, opened, down, broken, udpAddr, serverVars, historyVars>>

WriteFails ==
  /\ pc["loop"] = "write"
  /\ stream = "closed" \/ served = "closed" \/ broken
  /\ Goto("loop", "close")
  /\ UNCHANGED <<mu, clientUDPAddr, closed, receiving, target, sockets, pkt,
                 streamVars, serverVars, historyVars>>

\* ReadFromUDP fails.
LoopEnds ==
  /\ pc["loop"] = "read"
  /\ sockets = "closed"
  /\ Goto("loop", "over")
  /\ UNCHANGED <<mu, clientUDPAddr, closed, receiving, target, sockets, pkt,
                 streamVars, serverVars, historyVars>>
-----------------------------------------------------------------------------
(* The receiver, the TCP reader and Close *)

ReceiveReply ==
  /\ pc["receiver"] = "read"
  /\ stream = "open"
  /\ down # <<>>
  /\ down' = Tail(down)
  /\ Goto("receiver", "deliver")
  /\ UNCHANGED <<mu, clientUDPAddr, closed, receiving, target, sockets, pkt,
                 stream, opened, up, broken, udpAddr, serverVars, historyVars>>

\* handleUDPResponse; a reply that cannot be put into a packet is dropped.
Deliver ==
  /\ pc["receiver"] = "deliver"
  /\ mu = Nobody
  /\ \/ sockets = "open" /\ delivered' = Append(delivered, clientUDPAddr)
     \/ UNCHANGED delivered
  /\ Goto("receiver", "read")
  /\ UNCHANGED <<mu, clientUDPAddr, closed, receiving, target, sockets, pkt,
                 streamVars, serverVars, accepted, toTarget>>

StreamAtEnd == stream = "closed" \/ broken \/ (served = "closed" /\ down = <<>>)

ReceiverFails ==
  /\ pc["receiver"] = "read"
  /\ StreamAtEnd
  /\ Goto("receiver", "close")
  /\ UNCHANGED <<mu, clientUDPAddr, closed, receiving, target, sockets, pkt,
                 streamVars, serverVars, historyVars>>

\* The client ends its TCP connection, or it has been closed.
TcpEnds ==
  /\ pc["tcp"] = "read"
  /\ Goto("tcp", "close")
  /\ UNCHANGED <<mu, clientUDPAddr, closed, receiving, target, sockets, pkt,
                 streamVars, serverVars, historyVars>>

\* What a goroutine does after its call of Close.
After(g) == IF g = "loop" THEN "read" ELSE "over"

\* Close up to the unlock: the first call goes on.
CloseMark(g) ==
  /\ pc[g] = "close"
  /\ mu = Nobody
  /\ closed' = TRUE
  /\ Goto(g, IF closed THEN After(g) ELSE "closing")
  /\ UNCHANGED <<mu, clientUDPAddr, receiving, target, sockets, pkt, streamVars,
                 serverVars, historyVars>>

\* Mutant: the stream is left to the server.
CloseSocketsOnly(g) ==
  /\ pc[g] = "closing"
  /\ sockets' = "closed"
  /\ Goto(g, After(g))
  /\ UNCHANGED <<mu, clientUDPAddr, closed, receiving, target, pkt, streamVars,
                 serverVars, historyVars>>

\* The rest of Close: the stream and both sockets.
CloseRest(g) ==
  /\ pc[g] = "closing"
  /\ stream' = IF stream = "open" THEN "closed" ELSE stream
  /\ sockets' = "closed"
  /\ Goto(g, After(g))
  /\ UNCHANGED <<mu, clientUDPAddr, closed, receiving, target, pkt, opened, up,
                 down, broken, udpAddr, serverVars, historyVars>>
-----------------------------------------------------------------------------
(* handleUDPStream; leaving it closes the stream, the socket and ctx *)

ResolveOk ==
  /\ main = "resolve"
  /\ main' = "read" /\ reader' = "read"
  /\ UNCHANGED <<assocVars, streamVars, chunk, cancelled, served, replies,
                 historyVars>>

Leave ==
  /\ main' = "over"
  /\ served' = "closed"
  /\ cancelled' = TRUE
  /\ UNCHANGED <<assocVars, streamVars, reader, chunk, replies, historyVars>>

\* The socket or the target's address cannot be had.
ResolveFails == main = "resolve" /\ Leave

\* Mutant: an empty chunk takes the next one with it.
PastEmpty(s) ==
  IF Head(s).empty /\ Len(s) > 1 THEN <<<<>>, Tail(Tail(s))>>
  ELSE <<IF Head(s).empty THEN <<>> ELSE <<Head(s)>>, Tail(s)>>

\* The chunk to send, and what is left on the stream; an empty one is skipped.
NextChunk(s) == <<IF Head(s).empty THEN <<>> ELSE <<Head(s)>>, Tail(s)>>

ReadChunk ==
  /\ reader = "read"
  /\ up # <<>>
  /\ served = "open"
  /\ chunk' = NextChunk(up)[1]
  /\ up' = NextChunk(up)[2]
  /\ reader' = IF chunk' = <<>> THEN "read" ELSE "write"
  /\ UNCHANGED <<assocVars, stream, opened, down, broken, udpAddr, main,
                 cancelled, served, replies, historyVars>>

\* The stream has ended, or broke; the deferred cancel.
ReadFails ==
  /\ reader = "read"
  /\ served = "closed" \/ broken \/ (stream = "closed" /\ up = <<>>)
  /\ reader' = "over"
  /\ cancelled' = TRUE
  /\ UNCHANGED <<assocVars, streamVars, main, chunk, served, replies, historyVars>>

\* The datagram goes to the address resolved at the start.
SendToTarget ==
  /\ reader = "write"
  /\ main # "over"
  /\ toTarget' = Append(toTarget, [pkt |-> chunk[1], addr |-> udpAddr])
  /\ chunk' = <<>>
  /\ reader' = "read"
  /\ UNCHANGED <<assocVars, streamVars, main, cancelled, served, replies,
                 accepted, delivered>>

SendToTargetFails ==
  /\ reader = "write"
  /\ chunk' = <<>>
  /\ reader' = "over"
  /\ cancelled' = TRUE
  /\ UNCHANGED <<assocVars, streamVars, main, served, replies, historyVars>>

\* A datagram arrives at the server's socket, from anywhere.
TargetReplies ==
  /\ main = "read"
  /\ replies < MaxReplies
  /\ replies' = replies + 1
  /\ main' = "write"
  /\ UNCHANGED <<assocVars, streamVars, reader, chunk, cancelled, served,
                 historyVars>>

ReplyOk ==
  /\ main = "write"
  /\ ~broken
  /\ down' = IF stream = "open" THEN Append(down, replies) ELSE down
  /\ main' = "read"
  /\ UNCHANGED <<assocVars, stream, opened, up, broken, udpAddr, reader, chunk,
                 cancelled, served, replies, historyVars>>

ReplyFails == main = "write" /\ (broken \/ stream = "closed") /\ Leave

\* Mutant: it is not looked at while the stream is open.
QuietLeaveClosed == main = "read" /\ served = "closed" /\ Leave

\* Nothing arrived for five seconds: only now is ctx looked at.
QuietLeave == main = "read" /\ cancelled /\ Leave

\* The server's socket fails.
SocketFails == main = "read" /\ Leave

\* The websocket under the stream fails.
LinkBreaks ==
  /\ opened > 0
  /\ ~broken
  /\ broken' = TRUE
  /\ UNCHANGED <<assocVars, stream, opened, up, down, udpAddr, serverVars,
                 historyVars>>

LoopStep ==
  \/ SendClosed \/ SendFirst \/ SendNext
  \/ OpenOk \/ OpenFails \/ WriteOk \/ WriteFails \/ LoopEnds
ReceiverStep == ReceiveReply \/ Deliver \/ ReceiverFails
CloseStep(g) == CloseMark(g) \/ CloseRest(g)
MainStep == ResolveOk \/ ResolveFails \/ ReplyOk \/ ReplyFails \/ QuietLeave
ReaderStep == ReadChunk \/ ReadFails \/ SendToTarget \/ SendToTargetFails

Next ==
  \/ \E src \in Sources : Receive(src)
  \/ LoopStep \/ ReceiverStep \/ TcpEnds
  \/ \E g \in Goroutines : CloseStep(g)
  \/ MainStep \/ ReaderStep \/ TargetReplies \/ SocketFails \/ LinkBreaks

Spec == Init /\ [][Next]_vars

\* Every goroutine that can go on does.  The client need not send or end its
\* TCP connection until it has been closed, and no link has to break.
Fairness ==
  /\ WF_vars(LoopStep) /\ WF_vars(ReceiverStep)
  /\ \A g \in Goroutines : WF_vars(CloseStep(g))
  /\ WF_vars(sockets = "closed" /\ TcpEnds)
  /\ WF_vars(MainStep) /\ WF_vars(ReaderStep)

FairSpec == Spec /\ Fairness
-----------------------------------------------------------------------------
(* Properties *)

Packet == [id : 1 .. MaxPackets, from : Sources, target : Targets, empty : BOOLEAN]

\* Every variable has its type; one stream at most is opened.
TypeOK ==
  /\ pc \in [Goroutines -> {"off", "read", "send", "open", "write", "deliver",
                            "close", "closing", "over"}]
  /\ mu \in {Nobody, "loop"}
  /\ clientUDPAddr \in Sources \cup {None}
  /\ closed \in BOOLEAN /\ receiving \in BOOLEAN /\ broken \in BOOLEAN
  /\ target \in Targets \cup {None} /\ udpAddr \in Targets \cup {None}
  /\ sockets \in {"open", "closed"}
  /\ pkt \in Packet \cup {NoPacket}
  /\ stream \in {"none", "open", "closed"} /\ served \in {"none", "open", "closed"}
  /\ opened \in 0 .. 1
  /\ up \in Seq(Packet) /\ chunk \in Seq(Packet) /\ down \in Seq(Nat)
  /\ main \in {"off", "resolve", "read", "write", "over"}
  /\ reader \in {"off", "read", "write", "over"}
  /\ cancelled \in BOOLEAN /\ replies \in 0 .. MaxReplies
  /\ accepted \in Seq(Packet) /\ toTarget \in Seq([pkt : Packet, addr : Targets])
  /\ delivered \in Seq(Sources)

NotEmpty(s) ==
  FlattenSeq([i \in DOMAIN s |-> IF s[i].empty THEN <<>> ELSE <<s[i]>>])

InSend == IF pc["loop"] \in {"open", "write"} THEN <<pkt>> ELSE <<>>

\* The packets that are not empty reach the socket in order and once, and
\* until something fails none is missing.  All of them go to the target of the
\* first packet, whatever they named themselves.  One address owns the
\* association: nothing of another one is relayed, and every reply goes to it.
UploadOrdered ==
  LET sent == [i \in DOMAIN toTarget |-> toTarget[i].pkt]
  IN  /\ IsPrefix(sent, NotEmpty(accepted))
      /\ ~closed /\ ~broken /\ reader # "over" /\ main # "over" /\ pc["loop"] # "close" =>
           NotEmpty(accepted) = sent \o chunk \o NotEmpty(up \o InSend)
      /\ \A i \in DOMAIN toTarget : toTarget[i].addr = accepted[1].target
      /\ \A i \in DOMAIN toTarget : toTarget[i].pkt.from = clientUDPAddr
      /\ \A i \in DOMAIN delivered : delivered[i] = clientUDPAddr

\* When the goroutines of the association are gone, no stream is left open and
\* its sockets are closed.
NothingLeft ==
  (\A g \in Goroutines : pc[g] \in {"off", "over"}) =>
    closed /\ stream # "open" /\ sockets = "closed"

\* Whichever side or link ends first, the association and its relay end, once
\* the target is quiet.
BothEnd ==
  (closed \/ broken \/ main = "over") ~>
    /\ \A g \in Goroutines : pc[g] \in {"off", "over"}
    /\ main \in {"off", "over"} /\ reader \in {"off", "over"}
=============================================================================
