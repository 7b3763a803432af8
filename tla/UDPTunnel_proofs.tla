-------------------------- MODULE UDPTunnel_proofs --------------------------
(***************************************************************************)
(* Proofs about UDPTunnel: the type invariant, that nothing is left when   *)
(* the goroutines are gone, and what becomes of the packets an association *)
(* sends.                                                                  *)
(***************************************************************************)
EXTENDS UDPTunnel, SeqLemmas

\* Close: mu is held while the stream is being opened and at no other step, so
\* that Close comes before or after; what is closed stays closed.
CloseInv ==
  /\ mu = "loop" <=> pc["loop"] = "open"
  /\ pc["loop"] = "open" => ~closed
  /\ \A g \in Goroutines : pc[g] = "closing" => closed
  /\ sockets = "closed" => closed /\ stream # "open"
  /\ pc["loop"] = "over" => sockets = "closed"
  /\ pc["loop"] # "off"

\* Until the stream has been opened there is nothing of it.
OnceInv ==
  /\ ~receiving => accepted = <<>> /\ pc["loop"] \notin {"open", "write"}
  /\ pc["loop"] = "open" => accepted = <<pkt>>
  /\ ~receiving \/ pc["loop"] = "open" =>
       /\ opened = 0 /\ stream = "none" /\ served = "none"
       /\ main = "off" /\ pc["receiver"] = "off"
       /\ up = <<>> /\ toTarget = <<>> /\ delivered = <<>>
  /\ main \in {"off", "resolve"} <=> reader = "off" /\ main # "over"

\* The goroutine that reads holds one chunk while it sends it.
ChunkInv ==
  IF reader = "write" THEN Len(chunk) = 1 /\ ~chunk[1].empty ELSE chunk = <<>>

\* One address owns the association.
OwnerInv ==
  /\ clientUDPAddr = None => ~receiving /\ pc["loop"] # "send"
  /\ pc["loop"] \in {"send", "open", "write"} =>
       pkt \in Packet /\ pkt.from = clientUDPAddr
  /\ \A i \in DOMAIN accepted : accepted[i].from = clientUDPAddr
  /\ \A i \in DOMAIN up : up[i].from = clientUDPAddr
  /\ \A i \in DOMAIN chunk : chunk[i].from = clientUDPAddr
  /\ \A i \in DOMAIN toTarget : toTarget[i].pkt.from = clientUDPAddr
  /\ \A i \in DOMAIN delivered : delivered[i] = clientUDPAddr

\* What is named in the header of the stream is the target of the first packet.
TargetInv ==
  /\ receiving => accepted # <<>>
  /\ main # "off" => accepted # <<>> /\ udpAddr = accepted[1].target
  /\ \A i \in DOMAIN toTarget : toTarget[i].addr = accepted[1].target

\* loop has lost no packet that send took.
Sound == pc["loop"] # "close" /\ (closed => pc["loop"] = "write")

Sent == [i \in DOMAIN toTarget |-> toTarget[i].pkt]
ToSend == Sent \o chunk \o NotEmpty(up)

\* Where the packets are: what has been sent, is being sent and waits on the
\* stream are the first ones, and with the one loop holds all of them.
FlowInv ==
  /\ IsPrefix(Sent, NotEmpty(accepted))
  /\ reader # "over" => IsPrefix(ToSend, NotEmpty(accepted))
  /\ reader # "over" /\ Sound => NotEmpty(accepted) = ToSend \o NotEmpty(InSend)

IInv ==
  /\ TypeOK /\ CloseInv /\ OnceInv /\ ChunkInv /\ OwnerInv /\ TargetInv
  /\ FlowInv
-----------------------------------------------------------------------------
(* Sequences of packets *)

\* What an empty packet leaves and what another one does.
Kept(p) == IF p.empty THEN <<>> ELSE <<p>>
KeptOf == [p \in Packet |-> Kept(p)]

LEMMA KeptMakes == Makes(KeptOf, Packet, Packet)
  <1>1. \A p \in Packet : <<>> \in Seq(Packet) /\ <<p>> \in Seq(Packet)
    OBVIOUS
  <1> QED
    BY <1>1 DEF Makes, KeptOf, Kept

LEMMA NotEmptyJoined ==
  ASSUME NEW s \in Seq(Packet)
  PROVE  NotEmpty(s) = Joined(KeptOf, s)
  <1>1. \A i \in DOMAIN s : s[i] \in Packet
    OBVIOUS
  <1>2. [i \in DOMAIN s |-> IF s[i].empty THEN <<>> ELSE <<s[i]>>] =
          [i \in DOMAIN s |-> KeptOf[s[i]]]
    BY <1>1 DEF KeptOf, Kept
  <1> QED
    BY <1>2 DEF NotEmpty, Joined

LEMMA NotEmptyType ==
  ASSUME NEW s \in Seq(Packet)
  PROVE  NotEmpty(s) \in Seq(Packet)
  BY NotEmptyJoined, KeptMakes, JoinedType

LEMMA NotEmptyNothing == NotEmpty(<<>>) = <<>>
  <1>1. <<>> \in Seq(Packet)
    OBVIOUS
  <1> QED
    BY <1>1, NotEmptyJoined, JoinedEmpty

LEMMA NotEmptyOne ==
  ASSUME NEW p \in Packet
  PROVE  NotEmpty(<<p>>) = Kept(p)
  <1>1. NotEmpty(<<p>>) = Joined(KeptOf, <<p>>)
    <2>1. <<p>> \in Seq(Packet)
      OBVIOUS
    <2> QED
      BY <2>1, NotEmptyJoined
  <1>2. Joined(KeptOf, <<p>>) = KeptOf[p]
    BY KeptMakes, JoinedSingle
  <1> QED
    BY <1>1, <1>2 DEF KeptOf

LEMMA NotEmptyConcat ==
  ASSUME NEW s \in Seq(Packet), NEW t \in Seq(Packet)
  PROVE  NotEmpty(s \o t) = NotEmpty(s) \o NotEmpty(t)
  <1>1. s \o t \in Seq(Packet)
    BY ConcatProperties
  <1>2. Joined(KeptOf, s \o t) = Joined(KeptOf, s) \o Joined(KeptOf, t)
    BY KeptMakes, JoinedConcat
  <1> QED
    BY <1>1, <1>2, NotEmptyJoined

LEMMA NotEmptyAppend ==
  ASSUME NEW s \in Seq(Packet), NEW p \in Packet
  PROVE  NotEmpty(Append(s, p)) = NotEmpty(s) \o Kept(p)
  <1>1. Append(s, p) \in Seq(Packet)
    BY AppendProperties
  <1>2. Joined(KeptOf, Append(s, p)) = Joined(KeptOf, s) \o KeptOf[p]
    BY KeptMakes, JoinedAppend
  <1> QED
    BY <1>1, <1>2, NotEmptyJoined DEF KeptOf

LEMMA NotEmptyHead ==
  ASSUME NEW s \in Seq(Packet), s # <<>>
  PROVE  NotEmpty(s) = Kept(Head(s)) \o NotEmpty(Tail(s))
  <1>1. /\ Head(s) \in Packet /\ Tail(s) \in Seq(Packet)
        /\ Joined(KeptOf, s) = KeptOf[Head(s)] \o Joined(KeptOf, Tail(s))
    BY KeptMakes, JoinedHead
  <1> QED
    BY <1>1, NotEmptyJoined DEF KeptOf

LEMMA PacketAssoc ==
  \A s, t, u \in Seq(Packet) : (s \o t) \o u = s \o (t \o u)
  BY ConcatAssoc

Sending == [pkt : Packet, addr : Targets]

\* The packets of what has been sent.
LEMMA SentType ==
  ASSUME toTarget \in Seq(Sending)
  PROVE  Sent \in Seq(Packet)
  <1>1. DOMAIN toTarget = 1 .. Len(toTarget) /\ Len(toTarget) \in Nat
    OBVIOUS
  <1>2. \A i \in 1 .. Len(toTarget) : toTarget[i].pkt \in Packet
    <2>1. \A e \in Sending : e.pkt \in Packet
      BY DEF Sending
    <2>2. \A i \in 1 .. Len(toTarget) : toTarget[i] \in Sending
      OBVIOUS
    <2> QED
      BY <2>1, <2>2
  <1> QED
    BY <1>1, <1>2 DEF Sent

LEMMA SentAppend ==
  ASSUME toTarget \in Seq(Sending), NEW e \in Sending, toTarget' = Append(toTarget, e)
  PROVE  Sent' = Sent \o <<e.pkt>>
  <1> DEFINE p == e.pkt
  <1>1. /\ toTarget' \in Seq(Sending) /\ Len(toTarget') = Len(toTarget) + 1
        /\ \A i \in 1 .. Len(toTarget) : toTarget'[i] = toTarget[i]
        /\ toTarget'[Len(toTarget) + 1] = e
    BY AppendProperties
  <1>2. /\ DOMAIN toTarget = 1 .. Len(toTarget) /\ Len(toTarget) \in Nat
        /\ DOMAIN toTarget' = 1 .. Len(toTarget) + 1
    BY <1>1
  <1>3. p \in Packet /\ Sent \in Seq(Packet) /\ Len(Sent) = Len(toTarget)
    BY <1>2, SentType DEF Sending, Sent
  <1>4. Append(Sent, p) = Sent \o <<p>>
    BY <1>3, AppendIsConcat
  <1>5. /\ Append(Sent, p) \in Seq(Packet) /\ Len(Append(Sent, p)) = Len(toTarget) + 1
        /\ \A i \in 1 .. Len(toTarget) : Append(Sent, p)[i] = Sent[i]
        /\ Append(Sent, p)[Len(toTarget) + 1] = p
    BY <1>3, AppendProperties
  <1>6. Sent' \in Seq(Packet) /\ Len(Sent') = Len(toTarget) + 1
    <2>1. \A f \in Sending : f.pkt \in Packet
      BY DEF Sending
    <2>2. \A i \in 1 .. Len(toTarget) + 1 : toTarget'[i] \in Sending
      BY <1>1
    <2>3. \A i \in 1 .. Len(toTarget) + 1 : toTarget'[i].pkt \in Packet
      BY <2>1, <2>2
    <2> QED
      BY <1>2, <2>3 DEF Sent
  <1>7. ASSUME NEW i \in 1 .. Len(toTarget) + 1 PROVE Sent'[i] = Append(Sent, p)[i]
    <2>1. CASE i \in 1 .. Len(toTarget)
      BY <1>1, <1>2, <1>5, <2>1 DEF Sent
    <2>2. CASE i = Len(toTarget) + 1
      BY <1>1, <1>2, <1>5, <2>2 DEF Sent
    <2>3. i \in 1 .. Len(toTarget) \/ i = Len(toTarget) + 1
      BY <1>2
    <2> QED
      BY <2>1, <2>2, <2>3
  <1> HIDE DEF p
  <1>8. Sent' = Append(Sent, p)
    BY <1>5, <1>6, <1>7, SeqEqual
  <1> QED
    BY <1>4, <1>8 DEF p
-----------------------------------------------------------------------------
(* Types *)

LEMMA InitInv == Init => TypeOK /\ CloseInv /\ OnceInv /\ ChunkInv /\ OwnerInv /\ TargetInv
  <1> SUFFICES ASSUME Init
               PROVE  TypeOK /\ CloseInv /\ OnceInv /\ ChunkInv /\ OwnerInv /\ TargetInv
    OBVIOUS
  <1>1. DOMAIN <<>> = {}
    OBVIOUS
  <1>2. TypeOK
    <2>1. /\ <<>> \in Seq(Packet) /\ <<>> \in Seq(Nat) /\ <<>> \in Seq(Sources)
          /\ <<>> \in Seq([pkt : Packet, addr : Targets])
      OBVIOUS
    <2>2. 0 \in 0 .. MaxReplies
      BY UDPAssumption
    <2>3. pc \in [Goroutines -> {"off", "read", "send", "open", "write", "deliver",
                                 "close", "closing", "over"}]
      BY DEF Init, Goroutines
    <2>4. /\ up \in Seq(Packet) /\ chunk \in Seq(Packet) /\ down \in Seq(Nat)
          /\ accepted \in Seq(Packet) /\ delivered \in Seq(Sources)
          /\ toTarget \in Seq([pkt : Packet, addr : Targets])
      BY <2>1 DEF Init
    <2>5. /\ mu \in {Nobody, "loop"} /\ clientUDPAddr \in Sources \cup {None}
          /\ closed \in BOOLEAN /\ receiving \in BOOLEAN /\ broken \in BOOLEAN
          /\ target \in Targets \cup {None} /\ udpAddr \in Targets \cup {None}
          /\ sockets \in {"open", "closed"} /\ pkt \in Packet \cup {NoPacket}
      BY DEF Init
    <2>6. /\ stream \in {"none", "open", "closed"} /\ served \in {"none", "open", "closed"}
          /\ main \in {"off", "resolve", "read", "write", "over"}
          /\ reader \in {"off", "read", "write", "over"}
      BY DEF Init
    <2>7. opened \in 0 .. 1 /\ replies \in 0 .. MaxReplies
      <3>1. opened = 0 /\ replies = 0
        BY DEF Init
      <3> QED
        BY <2>2, <3>1
    <2>8. cancelled \in BOOLEAN
      BY DEF Init
    <2> QED
      BY <2>3, <2>4, <2>5, <2>6, <2>7, <2>8 DEF TypeOK
  <1>3. CloseInv /\ OnceInv /\ ChunkInv
    BY DEF Init, CloseInv, OnceInv, ChunkInv, Goroutines, Nobody
  <1>4. OwnerInv /\ TargetInv
    BY <1>1 DEF Init, OwnerInv, TargetInv, Goroutines
  <1> QED
    BY <1>2, <1>3, <1>4

LEMMA InitFlow == Init => FlowInv
  <1> SUFFICES ASSUME Init PROVE FlowInv
    OBVIOUS
  <1>1. Sent = <<>> /\ accepted = <<>> /\ chunk = <<>> /\ up = <<>> /\ InSend = <<>>
    BY DEF Init, Sent, InSend, Goroutines
  <1>2. ToSend = <<>> /\ NotEmpty(accepted) = <<>> /\ NotEmpty(InSend) = <<>>
    BY <1>1, NotEmptyNothing DEF ToSend
  <1>3. IsPrefix(<<>>, <<>>)
    <2>1. <<>> \in Seq(Packet) /\ Len(<<>>) <= Len(<<>>) /\ 1 .. Len(<<>>) = {}
      OBVIOUS
    <2> QED
      BY <2>1, PrefixPointwise
  <1> QED
    BY <1>1, <1>2, <1>3 DEF FlowInv

\* What the server writes to is an address.
LEMMA TargetKnown ==
  ASSUME TypeOK, OnceInv, TargetInv, reader = "write"
  PROVE  udpAddr \in Targets
  <1>1. accepted # <<>> /\ udpAddr = accepted[1].target
    BY DEF OnceInv, TargetInv, TypeOK
  <1>2. accepted[1] \in Packet
    <2>1. accepted \in Seq(Packet)
      BY DEF TypeOK
    <2> QED
      BY ONLY <1>1, <2>1
  <1> QED
    BY <1>1, <1>2 DEF Packet

LEMMA NextType == TypeOK /\ OnceInv /\ ChunkInv /\ OwnerInv /\ TargetInv /\ [Next]_vars => TypeOK'
  <1> SUFFICES ASSUME TypeOK, OnceInv, ChunkInv, OwnerInv, TargetInv, [Next]_vars PROVE TypeOK'
    OBVIOUS
  <1> USE DEF TypeOK, Goroutines, assocVars, streamVars, serverVars, historyVars
  <1>1. ASSUME NEW src \in Sources, Receive(src) PROVE TypeOK'
    <2>1. pkt' \in Packet \cup {NoPacket}
      <3>1. Len(accepted) + 1 \in 1 .. MaxPackets
        BY <1>1, UDPAssumption DEF Receive
      <3> QED
        BY <1>1, <3>1 DEF Receive, Packet
    <2>2. pc' \in [Goroutines -> {"off", "read", "send", "open", "write", "deliver",
                                  "close", "closing", "over"}]
      BY <1>1 DEF Receive, Goto
    <2> QED
      BY <1>1, <2>1, <2>2 DEF Receive, Adopt
  <1>2. ASSUME SendFirst \/ SendNext PROVE TypeOK'
    <2>1. pkt \in Packet /\ pkt.target \in Targets
      BY <1>2 DEF SendFirst, SendNext, OwnerInv, Packet
    <2>2. accepted' \in Seq(Packet)
      <3>1. accepted' = Append(accepted, pkt)
        BY <1>2 DEF SendFirst, SendNext
      <3> QED
        BY <2>1, <3>1, AppendProperties
    <2>3. CASE SendFirst
      BY <2>1, <2>2, <2>3 DEF SendFirst, Goto
    <2>4. CASE SendNext
      BY <2>1, <2>2, <2>4 DEF SendNext, Goto
    <2> QED
      BY <1>2, <2>3, <2>4
  <1>3. CASE SendClosed
    BY <1>3 DEF SendClosed, Goto
  <1>4. CASE OpenOk
    <2>1. pkt.target \in Targets /\ opened = 0
      BY <1>4 DEF OpenOk, OwnerInv, OnceInv, Packet
    <2>2. pc' \in [Goroutines -> {"off", "read", "send", "open", "write", "deliver",
                                  "close", "closing", "over"}]
      BY <1>4 DEF OpenOk
    <2> QED
      BY <1>4, <2>1, <2>2 DEF OpenOk
  <1>5. CASE OpenFails
    BY <1>5 DEF OpenFails, Goto
  <1>6. CASE WriteOk
    <2>1. up' \in Seq(Packet)
      BY <1>6, AppendProperties DEF WriteOk, OwnerInv
    <2> QED
      BY <1>6, <2>1 DEF WriteOk, Goto
  <1>7. CASE WriteFails
    BY <1>7 DEF WriteFails, Goto
  <1>8. CASE LoopEnds
    BY <1>8 DEF LoopEnds, Goto
  <1>9. CASE ReceiveReply
    <2>1. down' \in Seq(Nat)
      BY <1>9, HeadTailConcat DEF ReceiveReply
    <2> QED
      BY <1>9, <2>1 DEF ReceiveReply, Goto
  <1>10. CASE Deliver
    <2>1. clientUDPAddr \in Sources
      <3>1. receiving
        BY <1>10 DEF Deliver, OnceInv
      <3> QED
        BY <3>1 DEF OwnerInv
    <2>2. delivered' \in Seq(Sources)
      <3>1. delivered' = delivered \/ delivered' = Append(delivered, clientUDPAddr)
        BY <1>10 DEF Deliver
      <3>2. delivered \in Seq(Sources)
        OBVIOUS
      <3> QED
        BY ONLY <2>1, <3>1, <3>2, AppendProperties
    <2> QED
      BY <1>10, <2>2 DEF Deliver, Goto
  <1>11. ASSUME ReceiverFails \/ TcpEnds PROVE TypeOK'
    BY <1>11 DEF ReceiverFails, TcpEnds, Goto
  <1>12. ASSUME NEW g \in Goroutines, CloseMark(g) PROVE TypeOK'
    BY <1>12 DEF CloseMark, Goto, After
  <1>13. ASSUME NEW g \in Goroutines, CloseRest(g) PROVE TypeOK'
    BY <1>13 DEF CloseRest, Goto, After
  <1>14. CASE ResolveOk
    BY <1>14 DEF ResolveOk
  <1>15. ASSUME Leave PROVE TypeOK'
    BY <1>15 DEF Leave
  <1>16. CASE ReadChunk
    <2>1. Head(up) \in Packet /\ Tail(up) \in Seq(Packet)
      BY <1>16, HeadTailConcat DEF ReadChunk
    <2>2. <<>> \in Seq(Packet) /\ <<Head(up)>> \in Seq(Packet)
      BY <2>1
    <2>3. chunk' \in Seq(Packet) /\ up' \in Seq(Packet)
      BY <1>16, <2>1, <2>2 DEF ReadChunk, NextChunk
    <2> QED
      BY <1>16, <2>3 DEF ReadChunk
  <1>17. CASE ReadFails
    BY <1>17 DEF ReadFails
  <1>18. CASE SendToTarget
    <2>1. chunk[1] \in Packet
      <3>1. Len(chunk) = 1
        BY <1>18 DEF SendToTarget, ChunkInv
      <3>2. chunk \in Seq(Packet)
        OBVIOUS
      <3> QED
        BY ONLY <3>1, <3>2
    <2>2. udpAddr \in Targets
      BY <1>18, TargetKnown DEF SendToTarget
    <2>3. toTarget' \in Seq([pkt : Packet, addr : Targets])
      BY <1>18, <2>1, <2>2, AppendProperties DEF SendToTarget
    <2>4. <<>> \in Seq(Packet)
      OBVIOUS
    <2> QED
      BY <1>18, <2>3, <2>4 DEF SendToTarget
  <1>19. CASE SendToTargetFails
    <2>1. <<>> \in Seq(Packet)
      OBVIOUS
    <2> QED
      BY <1>19, <2>1 DEF SendToTargetFails
  <1>20. CASE TargetReplies
    <2>1. replies + 1 \in 0 .. MaxReplies
      BY <1>20, UDPAssumption DEF TargetReplies
    <2> QED
      BY <1>20, <2>1 DEF TargetReplies
  <1>21. CASE ReplyOk
    <2>1. down' \in Seq(Nat)
      <3>1. replies \in Nat
        BY UDPAssumption
      <3> QED
        BY <1>21, <3>1, AppendProperties DEF ReplyOk
    <2> QED
      BY <1>21, <2>1 DEF ReplyOk
  <1>22. CASE LinkBreaks
    BY <1>22 DEF LinkBreaks
  <1>23. CASE UNCHANGED vars
    BY <1>23 DEF vars
  <1> QED
    BY <1>1, <1>2, <1>3, <1>4, <1>5, <1>6, <1>7, <1>8, <1>9, <1>10, <1>11, <1>12, <1>13,
       <1>14, <1>15, <1>16, <1>17, <1>18, <1>19, <1>20, <1>21, <1>22, <1>23
    DEF Next, LoopStep, ReceiverStep, CloseStep, MainStep, ReaderStep, ResolveFails,
        ReplyFails, QuietLeave, SocketFails
-----------------------------------------------------------------------------
(* Close, and what there is of a stream *)

\* The steps of handleUDPStream, of its environment and of the link leave the
\* association alone.
ServerStep == MainStep \/ ReaderStep \/ TargetReplies \/ SocketFails \/ LinkBreaks

LEMMA ServerStepKeeps ==
  ASSUME ServerStep
  PROVE  UNCHANGED <<pc, mu, clientUDPAddr, closed, receiving, target, sockets, pkt,
                     stream, opened, udpAddr, accepted, delivered>>
  <1> USE DEF assocVars, streamVars, historyVars
  <1>1. ASSUME Leave
        PROVE  UNCHANGED <<pc, mu, clientUDPAddr, closed, receiving, target, sockets, pkt,
                           stream, opened, udpAddr, accepted, delivered>>
    BY <1>1 DEF Leave
  <1>2. CASE MainStep \/ SocketFails
    BY <1>1, <1>2
    DEF MainStep, SocketFails, ResolveOk, ResolveFails, ReplyOk, ReplyFails, QuietLeave
  <1>3. CASE ReaderStep
    BY <1>3 DEF ReaderStep, ReadChunk, ReadFails, SendToTarget, SendToTargetFails
  <1>4. CASE TargetReplies \/ LinkBreaks
    BY <1>4 DEF TargetReplies, LinkBreaks
  <1> QED
    BY <1>2, <1>3, <1>4 DEF ServerStep

LEMMA NextClose == TypeOK /\ OnceInv /\ CloseInv /\ [Next]_vars => CloseInv'
  <1> SUFFICES ASSUME TypeOK, OnceInv, CloseInv, [Next]_vars PROVE CloseInv'
    OBVIOUS
  <1>0. pc \in [{"tcp", "loop", "receiver"} -> {"off", "read", "send", "open", "write",
                                                "deliver", "close", "closing", "over"}]
    BY DEF TypeOK, Goroutines
  <1> USE DEF CloseInv, Goroutines, Goto, Nobody, streamVars
  <1>1. ASSUME NEW src \in Sources, Receive(src) PROVE CloseInv'
    BY <1>0, <1>1 DEF Receive
  <1>2. CASE SendClosed \/ SendNext \/ SendFirst
    BY <1>0, <1>2 DEF SendClosed, SendNext, SendFirst
  <1>3. CASE OpenOk
    BY <1>0, <1>3 DEF OpenOk
  <1>4. CASE OpenFails
    BY <1>0, <1>4 DEF OpenFails
  <1>5. CASE WriteOk \/ WriteFails \/ LoopEnds
    BY <1>0, <1>5 DEF WriteOk, WriteFails, LoopEnds
  <1>6. CASE ReceiveReply \/ Deliver \/ ReceiverFails \/ TcpEnds
    BY <1>0, <1>6 DEF ReceiveReply, Deliver, ReceiverFails, TcpEnds
  <1>7. ASSUME NEW g \in Goroutines, CloseMark(g) PROVE CloseInv'
    BY <1>0, <1>7 DEF CloseMark, After
  <1>8. ASSUME NEW g \in Goroutines, CloseRest(g) PROVE CloseInv'
    BY <1>0, <1>8 DEF CloseRest, After
  <1>9. CASE ServerStep
    BY <1>9, ServerStepKeeps
  <1>10. CASE UNCHANGED vars
    BY <1>10 DEF vars, assocVars
  <1> QED
    BY <1>1, <1>2, <1>3, <1>4, <1>5, <1>6, <1>7, <1>8, <1>9, <1>10
    DEF Next, LoopStep, ReceiverStep, CloseStep, ServerStep

LEMMA NextOnce == TypeOK /\ CloseInv /\ ChunkInv /\ OnceInv /\ [Next]_vars => OnceInv'
  <1> SUFFICES ASSUME TypeOK, CloseInv, ChunkInv, OnceInv, [Next]_vars PROVE OnceInv'
    OBVIOUS
  <1>0. pc \in [{"tcp", "loop", "receiver"} -> {"off", "read", "send", "open", "write",
                                                "deliver", "close", "closing", "over"}]
    BY DEF TypeOK, Goroutines
  <1> USE DEF OnceInv, Goroutines, Goto, streamVars, serverVars, historyVars
  <1>1. ASSUME NEW src \in Sources, Receive(src) PROVE OnceInv'
    BY <1>0, <1>1 DEF Receive
  <1>2. CASE SendClosed \/ SendNext
    BY <1>0, <1>2 DEF SendClosed, SendNext
  <1>3. CASE SendFirst
    <2>1. accepted' = <<pkt>> /\ pkt' = pkt
      BY <1>3 DEF SendFirst
    <2> QED
      BY <1>0, <1>3, <2>1 DEF SendFirst
  <1>4. CASE OpenOk
    <2>1. receiving' /\ reader' = "off" /\ main' = "resolve" /\ pc'["loop"] = "write"
      BY <1>0, <1>4 DEF OpenOk
    <2> QED
      BY <2>1
  <1>5. CASE OpenFails \/ WriteOk \/ WriteFails \/ LoopEnds
    BY <1>0, <1>5 DEF OpenFails, WriteOk, WriteFails, LoopEnds
  <1>6. CASE ReceiveReply \/ Deliver \/ ReceiverFails \/ TcpEnds
    BY <1>0, <1>6 DEF ReceiveReply, Deliver, ReceiverFails, TcpEnds
  <1>7. ASSUME NEW g \in Goroutines, CloseMark(g) \/ CloseRest(g) PROVE OnceInv'
    BY <1>0, <1>7 DEF CloseMark, CloseRest, After
  <1>8. CASE ServerStep
    <2>0. /\ UNCHANGED <<pc, receiving, pkt, stream, opened, accepted, delivered>>
      BY <1>8, ServerStepKeeps
    <2> USE DEF assocVars
    <2>1. ASSUME Leave, main # "off" PROVE OnceInv'
      BY <2>0, <2>1 DEF Leave
    <2>2. CASE MainStep \/ SocketFails \/ TargetReplies
      BY <2>0, <2>1, <2>2
      DEF MainStep, SocketFails, ResolveOk, ResolveFails, ReplyOk, ReplyFails, QuietLeave,
          TargetReplies
    <2>3. CASE ReaderStep
      <3>1. reader # "off" /\ reader' # "off" /\ UNCHANGED <<main, served>>
        BY <2>3 DEF ReaderStep, ReadChunk, ReadFails, SendToTarget, SendToTargetFails
      <3>2. receiving /\ pc["loop"] # "open"
        BY <3>1
      <3> QED
        BY <2>0, <3>1, <3>2
    <2>4. CASE LinkBreaks
      BY <2>0, <2>4 DEF LinkBreaks
    <2> QED
      BY <1>8, <2>2, <2>3, <2>4 DEF ServerStep
  <1>9. CASE UNCHANGED vars
    BY <1>9 DEF vars, assocVars
  <1> QED
    BY <1>1, <1>2, <1>3, <1>4, <1>5, <1>6, <1>7, <1>8, <1>9
    DEF Next, LoopStep, ReceiverStep, CloseStep, ServerStep

LEMMA NextChunkInv == TypeOK /\ OnceInv /\ ChunkInv /\ [Next]_vars => ChunkInv'
  <1> SUFFICES ASSUME TypeOK, OnceInv, ChunkInv, [Next]_vars PROVE ChunkInv'
    OBVIOUS
  <1> USE DEF ChunkInv, serverVars
  <1>1. ASSUME NEW src \in Sources, Receive(src) PROVE ChunkInv'
    BY <1>1 DEF Receive
  <1>2. CASE LoopStep
    BY <1>2
    DEF LoopStep, SendClosed, SendFirst, SendNext, OpenOk, OpenFails, WriteOk, WriteFails,
        LoopEnds
  <1>3. CASE ReceiverStep \/ TcpEnds
    BY <1>3 DEF ReceiverStep, ReceiveReply, Deliver, ReceiverFails, TcpEnds
  <1>4. ASSUME NEW g \in Goroutines, CloseStep(g) PROVE ChunkInv'
    BY <1>4 DEF CloseStep, CloseMark, CloseRest
  <1>5. CASE ServerStep
    <2>1. ASSUME Leave PROVE ChunkInv'
      BY <2>1 DEF Leave
    <2>2. CASE MainStep \/ SocketFails \/ TargetReplies \/ LinkBreaks
      BY <2>1, <2>2
      DEF MainStep, SocketFails, ResolveOk, ResolveFails, ReplyOk, ReplyFails, QuietLeave,
          TargetReplies, LinkBreaks, OnceInv
    <2>3. CASE ReadChunk
      <3>1. Head(up).empty \in BOOLEAN /\ Len(<<Head(up)>>) = 1 /\ <<Head(up)>>[1] = Head(up)
        <4>1. Head(up) \in Packet
          BY <2>3, HeadTailConcat DEF ReadChunk, TypeOK
        <4> QED
          BY <4>1 DEF Packet
      <3>2. chunk' = IF Head(up).empty THEN <<>> ELSE <<Head(up)>>
        BY <2>3 DEF ReadChunk, NextChunk
      <3>3. reader' = IF chunk' = <<>> THEN "read" ELSE "write"
        BY <2>3 DEF ReadChunk
      <3> QED
        BY <3>1, <3>2, <3>3
    <2>4. CASE ReadFails \/ SendToTarget \/ SendToTargetFails
      BY <2>4 DEF ReadFails, SendToTarget, SendToTargetFails
    <2> QED
      BY <1>5, <2>2, <2>3, <2>4 DEF ServerStep, ReaderStep
  <1>6. CASE UNCHANGED vars
    BY <1>6 DEF vars
  <1> QED
    BY <1>1, <1>2, <1>3, <1>4, <1>5, <1>6 DEF Next, ServerStep
-----------------------------------------------------------------------------
(* The owner and the target *)

\* Every item of an extended sequence has what all had and the new one has.
LEMMA FromAppend ==
  ASSUME NEW s \in Seq(Packet), NEW p \in Packet, NEW a,
         \A i \in DOMAIN s : s[i].from = a, p.from = a
  PROVE  \A i \in DOMAIN Append(s, p) : Append(s, p)[i].from = a
  <1>1. /\ Append(s, p) \in Seq(Packet) /\ Len(Append(s, p)) = Len(s) + 1
        /\ \A i \in 1 .. Len(s) : Append(s, p)[i] = s[i]
        /\ Append(s, p)[Len(s) + 1] = p
    BY AppendProperties
  <1>2. /\ DOMAIN s = 1 .. Len(s) /\ Len(s) \in Nat
        /\ DOMAIN Append(s, p) = 1 .. Len(s) + 1
    BY <1>1
  <1> TAKE i \in DOMAIN Append(s, p)
  <1>3. i \in 1 .. Len(s) \/ i = Len(s) + 1
    BY <1>2
  <1>4. CASE i \in 1 .. Len(s)
    BY <1>1, <1>2, <1>4
  <1>5. CASE i = Len(s) + 1
    BY <1>1, <1>5
  <1> QED
    BY <1>3, <1>4, <1>5

LEMMA FromTail ==
  ASSUME NEW s \in Seq(Packet), s # <<>>, NEW a, \A i \in DOMAIN s : s[i].from = a
  PROVE  /\ Head(s) \in Packet /\ Head(s).from = a
         /\ \A i \in DOMAIN Tail(s) : Tail(s)[i].from = a
  <1>1. Head(s) = s[1] /\ 1 \in DOMAIN s /\ Head(s) \in Packet
    OBVIOUS
  <1>2. ASSUME NEW i \in DOMAIN Tail(s) PROVE i + 1 \in DOMAIN s /\ Tail(s)[i] = s[i + 1]
    <2>1. /\ Tail(s) \in Seq(Packet) /\ Len(Tail(s)) = Len(s) - 1
          /\ DOMAIN Tail(s) = 1 .. Len(s) - 1 /\ DOMAIN s = 1 .. Len(s)
      OBVIOUS
    <2> QED
      BY <2>1
  <1> QED
    BY <1>1, <1>2

LEMMA NextOwner ==
  TypeOK /\ OnceInv /\ ChunkInv /\ OwnerInv /\ [Next]_vars => OwnerInv'
  <1> SUFFICES ASSUME TypeOK, OnceInv, ChunkInv, OwnerInv, [Next]_vars PROVE OwnerInv'
    OBVIOUS
  <1>0. pc \in [{"tcp", "loop", "receiver"} -> {"off", "read", "send", "open", "write",
                                                "deliver", "close", "closing", "over"}]
    BY DEF TypeOK, Goroutines
  <1> USE DEF Goroutines, Goto, streamVars, serverVars, historyVars
  <1>1. ASSUME NEW src \in Sources, Receive(src) PROVE OwnerInv'
    <2>1. clientUDPAddr' = src /\ src # None
      BY <1>1, UDPAssumption DEF Receive, Adopt
    <2>2. clientUDPAddr = src \/ clientUDPAddr = None
      BY <1>1 DEF Receive, Adopt
    <2>3. pc'["loop"] # "read" => pkt' \in Packet /\ pkt'.from = src
      <3>1. CASE UNCHANGED <<pkt, pc>>
        BY <1>1, <3>1 DEF Receive
      <3>2. CASE \E t \in Targets, empty \in BOOLEAN :
                   pkt' = [id |-> Len(accepted) + 1, from |-> src, target |-> t, empty |-> empty]
        <4>1. Len(accepted) + 1 \in 1 .. MaxPackets
          BY <1>1, UDPAssumption DEF Receive, TypeOK
        <4> QED
          BY <3>2, <4>1 DEF Packet
      <3> QED
        BY <1>1, <3>1, <3>2 DEF Receive
    <2>4. UNCHANGED <<receiving, accepted, up, chunk, toTarget, delivered>>
      BY <1>1 DEF Receive
    <2>5. CASE clientUDPAddr = src
      BY <2>1, <2>3, <2>4, <2>5 DEF OwnerInv
    <2>6. CASE clientUDPAddr = None
      <3>1. /\ accepted = <<>> /\ up = <<>> /\ toTarget = <<>> /\ delivered = <<>>
            /\ chunk = <<>>
        <4>1. ~receiving /\ reader = "off"
          BY <2>6 DEF OwnerInv, OnceInv
        <4> QED
          BY <4>1 DEF OnceInv, ChunkInv
      <3>2. DOMAIN <<>> = {}
        OBVIOUS
      <3> QED
        BY <2>1, <2>3, <2>4, <3>1, <3>2 DEF OwnerInv
    <2> QED
      BY <2>2, <2>5, <2>6
  <1>2. CASE SendFirst \/ SendNext
    <2>1. /\ pkt \in Packet /\ pkt.from = clientUDPAddr
          /\ accepted' = Append(accepted, pkt)
          /\ UNCHANGED <<clientUDPAddr, pkt, up, chunk, toTarget, delivered>>
      BY <1>2 DEF SendFirst, SendNext, OwnerInv
    <2>2. \A i \in DOMAIN accepted' : accepted'[i].from = clientUDPAddr
      BY <2>1, FromAppend DEF OwnerInv, TypeOK
    <2>3. clientUDPAddr # None
      BY <1>2 DEF SendFirst, SendNext, OwnerInv
    <2> QED
      BY <2>1, <2>2, <2>3 DEF OwnerInv
  <1>3. CASE SendClosed \/ OpenOk \/ OpenFails \/ WriteFails \/ LoopEnds
    BY <1>0, <1>3 DEF SendClosed, OpenOk, OpenFails, WriteFails, LoopEnds, OwnerInv
  <1>4. CASE WriteOk
    <2>1. /\ pkt \in Packet /\ pkt.from = clientUDPAddr
          /\ up' = Append(up, pkt) /\ pc'["loop"] = "read"
          /\ UNCHANGED <<clientUDPAddr, pkt, accepted, chunk, toTarget, delivered, receiving>>
      BY <1>0, <1>4 DEF WriteOk, OwnerInv
    <2>2. \A i \in DOMAIN up' : up'[i].from = clientUDPAddr
      BY <2>1, FromAppend DEF OwnerInv, TypeOK
    <2> QED
      BY <2>1, <2>2 DEF OwnerInv
  <1>5. CASE ReceiveReply \/ ReceiverFails \/ TcpEnds
    BY <1>0, <1>5 DEF ReceiveReply, ReceiverFails, TcpEnds, OwnerInv
  <1>6. CASE Deliver
    <2>1. clientUDPAddr \in Sources
      <3>1. receiving
        BY <1>6 DEF Deliver, OnceInv
      <3> QED
        BY <3>1 DEF OwnerInv, TypeOK
    <2>2. delivered' = delivered \/ delivered' = Append(delivered, clientUDPAddr)
      BY <1>6 DEF Deliver
    <2>3. \A i \in DOMAIN delivered' : delivered'[i] = clientUDPAddr
      <3>1. delivered \in Seq(Sources) /\ \A i \in DOMAIN delivered : delivered[i] = clientUDPAddr
        BY DEF TypeOK, OwnerInv
      <3> QED
        BY ONLY <2>1, <2>2, <3>1, AppendProperties
    <2> QED
      BY <1>0, <1>6, <2>3 DEF Deliver, OwnerInv
  <1>7. ASSUME NEW g \in Goroutines, CloseMark(g) \/ CloseRest(g) PROVE OwnerInv'
    BY <1>0, <1>7 DEF CloseMark, CloseRest, After, OwnerInv
  <1>8. CASE ServerStep
    <2>0. UNCHANGED <<pc, receiving, clientUDPAddr, pkt, accepted, delivered>>
      BY <1>8, ServerStepKeeps
    <2> SUFFICES /\ \A i \in DOMAIN up' : up'[i].from = clientUDPAddr
                 /\ \A i \in DOMAIN chunk' : chunk'[i].from = clientUDPAddr
                 /\ \A i \in DOMAIN toTarget' : toTarget'[i].pkt.from = clientUDPAddr
      BY <2>0 DEF OwnerInv
    <2>1. UNCHANGED <<up, chunk, toTarget>> \/ ReadChunk \/ SendToTarget \/ SendToTargetFails
      BY <1>8
      DEF ServerStep, MainStep, ReaderStep, SocketFails, TargetReplies, LinkBreaks, ResolveOk,
          ResolveFails, ReplyOk, ReplyFails, QuietLeave, Leave, ReadFails
    <2>2. CASE UNCHANGED <<up, chunk, toTarget>>
      BY <2>2 DEF OwnerInv
    <2>3. CASE ReadChunk
      <3>1. /\ up # <<>> /\ up' = Tail(up) /\ toTarget' = toTarget
            /\ chunk' = <<>> \/ chunk' = <<Head(up)>>
        BY <2>3 DEF ReadChunk, NextChunk
      <3>2. /\ Head(up).from = clientUDPAddr
            /\ \A i \in DOMAIN Tail(up) : Tail(up)[i].from = clientUDPAddr
        BY <3>1, FromTail DEF TypeOK, OwnerInv
      <3>3. \A i \in DOMAIN chunk' : chunk'[i] = Head(up)
        BY <3>1
      <3> QED
        BY <3>1, <3>2, <3>3 DEF OwnerInv
    <2>4. CASE SendToTarget
      <3>1. chunk \in Seq(Packet) /\ Len(chunk) = 1 /\ chunk[1].from = clientUDPAddr
        BY <2>4 DEF SendToTarget, ChunkInv, OwnerInv, TypeOK
      <3> DEFINE e == [pkt |-> chunk[1], addr |-> udpAddr]
      <3>2. toTarget' = Append(toTarget, e) /\ chunk' = <<>> /\ up' = up
        BY <2>4 DEF SendToTarget
      <3>3. ASSUME NEW i \in DOMAIN toTarget' PROVE toTarget'[i].pkt.from = clientUDPAddr
        <4>1. /\ DOMAIN toTarget = 1 .. Len(toTarget) /\ Len(toTarget) \in Nat
              /\ DOMAIN toTarget' = 1 .. Len(toTarget) + 1
              /\ \A k \in 1 .. Len(toTarget) : toTarget'[k] = toTarget[k]
              /\ toTarget'[Len(toTarget) + 1] = e
          BY <3>2 DEF TypeOK
        <4>2. e.pkt.from = clientUDPAddr
          BY <3>1
        <4>3. CASE i \in 1 .. Len(toTarget)
          BY <4>1, <4>3 DEF OwnerInv
        <4>4. CASE i = Len(toTarget) + 1
          BY <4>1, <4>2, <4>4
        <4>5. i \in 1 .. Len(toTarget) \/ i = Len(toTarget) + 1
          BY <4>1
        <4> QED
          BY <4>3, <4>4, <4>5
      <3>4. DOMAIN <<>> = {}
        OBVIOUS
      <3> QED
        BY <3>2, <3>3, <3>4 DEF OwnerInv
    <2>5. CASE SendToTargetFails
      <3>1. chunk' = <<>> /\ up' = up /\ toTarget' = toTarget /\ DOMAIN <<>> = {}
        BY <2>5 DEF SendToTargetFails
      <3> QED
        BY <3>1 DEF OwnerInv
    <2> QED
      BY <2>1, <2>2, <2>3, <2>4, <2>5
  <1>9. CASE UNCHANGED vars
    BY <1>9 DEF vars, assocVars, OwnerInv
  <1> QED
    BY <1>1, <1>2, <1>3, <1>4, <1>5, <1>6, <1>7, <1>8, <1>9
    DEF Next, LoopStep, ReceiverStep, CloseStep, ServerStep

LEMMA NextTarget ==
  TypeOK /\ OnceInv /\ ChunkInv /\ OwnerInv /\ TargetInv /\ [Next]_vars => TargetInv'
  <1> SUFFICES ASSUME TypeOK, OnceInv, ChunkInv, OwnerInv, TargetInv, [Next]_vars
               PROVE  TargetInv'
    OBVIOUS
  <1> USE DEF streamVars, serverVars, historyVars
  <1>1. CASE SendFirst \/ SendNext
    <2>1. pkt \in Packet /\ accepted' = Append(accepted, pkt) /\ UNCHANGED <<main, udpAddr, toTarget>>
      BY <1>1 DEF SendFirst, SendNext, OwnerInv
    <2>2. accepted' # <<>> /\ (accepted # <<>> => accepted'[1] = accepted[1])
      <3>1. accepted \in Seq(Packet)
        BY DEF TypeOK
      <3>2. accepted # <<>> => 1 \in 1 .. Len(accepted)
        BY ONLY <3>1
      <3> QED
        BY ONLY <2>1, <3>1, <3>2, AppendProperties
    <2>3. CASE SendFirst
      <3>1. main = "off" /\ toTarget = <<>> /\ DOMAIN <<>> = {}
        BY <2>3 DEF SendFirst, OnceInv
      <3> QED
        BY <2>1, <2>2, <3>1 DEF TargetInv
    <2>4. CASE SendNext
      <3>1. accepted # <<>>
        BY <2>4 DEF SendNext, TargetInv
      <3> QED
        BY <2>1, <2>2, <3>1 DEF TargetInv
    <2> QED
      BY <1>1, <2>3, <2>4
  <1>2. CASE OpenOk
    <2>1. /\ accepted = <<pkt>> /\ udpAddr' = pkt.target
          /\ UNCHANGED <<accepted, receiving, toTarget>>
      BY <1>2 DEF OpenOk, OnceInv
    <2>2. accepted # <<>> /\ accepted[1] = pkt
      BY <2>1
    <2> QED
      BY <2>1, <2>2 DEF TargetInv
  <1>3. CASE SendToTarget
    <2> DEFINE e == [pkt |-> chunk[1], addr |-> udpAddr]
    <2>1. /\ toTarget' = Append(toTarget, e)
          /\ UNCHANGED <<accepted, receiving, main, udpAddr>>
      BY <1>3 DEF SendToTarget, assocVars
    <2>2. /\ DOMAIN toTarget = 1 .. Len(toTarget) /\ Len(toTarget) \in Nat
          /\ DOMAIN toTarget' = 1 .. Len(toTarget) + 1
          /\ \A k \in 1 .. Len(toTarget) : toTarget'[k] = toTarget[k]
          /\ toTarget'[Len(toTarget) + 1] = e
      BY <2>1 DEF TypeOK
    <2>3. e.addr = accepted[1].target
      BY <1>3 DEF SendToTarget, OnceInv, TargetInv
    <2>4. ASSUME NEW i \in DOMAIN toTarget' PROVE toTarget'[i].addr = accepted[1].target
      <3>1. CASE i \in 1 .. Len(toTarget)
        BY <2>2, <3>1 DEF TargetInv
      <3>2. CASE i = Len(toTarget) + 1
        BY <2>2, <2>3, <3>2
      <3>3. i \in 1 .. Len(toTarget) \/ i = Len(toTarget) + 1
        BY <2>2
      <3> QED
        BY <3>1, <3>2, <3>3
    <2> QED
      BY <2>1, <2>4 DEF TargetInv
  <1>4. CASE UNCHANGED <<receiving, accepted, udpAddr, toTarget>> /\ (main = "off" => main' = "off")
    BY <1>4 DEF TargetInv
  <1>5. \/ SendFirst \/ SendNext \/ OpenOk \/ SendToTarget
        \/ UNCHANGED <<receiving, accepted, udpAddr, toTarget>> /\ (main = "off" => main' = "off")
    <2> USE DEF assocVars
    <2>1. ASSUME NEW src \in Sources, Receive(src)
          PROVE  UNCHANGED <<receiving, accepted, udpAddr, toTarget, main>>
      BY <2>1 DEF Receive
    <2>2. ASSUME LoopStep, ~SendFirst, ~SendNext, ~OpenOk
          PROVE  UNCHANGED <<receiving, accepted, udpAddr, toTarget, main>>
      BY <2>2 DEF LoopStep, SendClosed, OpenFails, WriteOk, WriteFails, LoopEnds
    <2>3. ASSUME ReceiverStep \/ TcpEnds
          PROVE  UNCHANGED <<receiving, accepted, udpAddr, toTarget, main>>
      BY <2>3 DEF ReceiverStep, ReceiveReply, Deliver, ReceiverFails, TcpEnds
    <2>4. ASSUME NEW g \in Goroutines, CloseStep(g)
          PROVE  UNCHANGED <<receiving, accepted, udpAddr, toTarget, main>>
      BY <2>4 DEF CloseStep, CloseMark, CloseRest
    <2>5. ASSUME ServerStep, ~SendToTarget
          PROVE  UNCHANGED <<receiving, accepted, udpAddr, toTarget>> /\ (main = "off" => main' = "off")
      BY <2>5
      DEF ServerStep, MainStep, ReaderStep, SocketFails, TargetReplies, LinkBreaks, ResolveOk,
          ResolveFails, ReplyOk, ReplyFails, QuietLeave, Leave, ReadChunk, ReadFails,
          SendToTargetFails
    <2> QED
      BY <2>1, <2>2, <2>3, <2>4, <2>5 DEF Next, ServerStep, vars
  <1> QED
    BY <1>1, <1>2, <1>3, <1>4, <1>5
-----------------------------------------------------------------------------
(* Where the packets are *)

LEMMA FlowType ==
  ASSUME TypeOK, OwnerInv
  PROVE  /\ Sent \in Seq(Packet) /\ NotEmpty(up) \in Seq(Packet)
         /\ NotEmpty(accepted) \in Seq(Packet) /\ Sent \o chunk \in Seq(Packet)
         /\ ToSend \in Seq(Packet)
         /\ InSend \in Seq(Packet) /\ NotEmpty(InSend) \in Seq(Packet)
  <1>1. Sent \in Seq(Packet)
    BY SentType DEF TypeOK, Sending
  <1>2. NotEmpty(up) \in Seq(Packet) /\ NotEmpty(accepted) \in Seq(Packet)
    BY NotEmptyType DEF TypeOK
  <1>3. InSend \in Seq(Packet)
    <2>1. <<>> \in Seq(Packet) /\ (pkt \in Packet => <<pkt>> \in Seq(Packet))
      OBVIOUS
    <2> QED
      BY <2>1 DEF InSend, OwnerInv
  <1>4. NotEmpty(InSend) \in Seq(Packet)
    BY <1>3, NotEmptyType
  <1>5. Sent \o chunk \in Seq(Packet)
    BY <1>1, ConcatProperties DEF TypeOK
  <1>6. ToSend \in Seq(Packet)
    <2>1. (Sent \o chunk) \o NotEmpty(up) \in Seq(Packet)
      BY <1>2, <1>5, ConcatProperties
    <2> QED
      BY <2>1 DEF ToSend
  <1> QED
    BY <1>1, <1>2, <1>3, <1>4, <1>5, <1>6

\* A step that moves no packet, and that loop or the reader does not lose one by.
LEMMA FlowKept ==
  ASSUME FlowInv, UNCHANGED <<toTarget, chunk, up, accepted>>,
         reader' # "over" => reader # "over",
         reader' # "over" /\ Sound' => Sound /\ InSend' = InSend
  PROVE  FlowInv'
  <1>1. Sent' = Sent /\ NotEmpty(accepted)' = NotEmpty(accepted)
    BY DEF Sent
  <1>2. ToSend' = ToSend /\ NotEmpty(up)' = NotEmpty(up)
    BY <1>1 DEF ToSend
  <1>3. InSend' = InSend => NotEmpty(InSend)' = NotEmpty(InSend)
    OBVIOUS
  <1> QED
    BY <1>1, <1>2, <1>3 DEF FlowInv

LEMMA KeptType ==
  ASSUME NEW p \in Packet
  PROVE  Kept(p) \in Seq(Packet)
  <1>1. <<>> \in Seq(Packet) /\ <<p>> \in Seq(Packet)
    OBVIOUS
  <1> QED
    BY <1>1 DEF Kept

LEMMA NextFlow ==
  IInv /\ [Next]_vars => FlowInv'
  <1> SUFFICES ASSUME TypeOK, CloseInv, OnceInv, ChunkInv, OwnerInv, TargetInv, FlowInv,
                      [Next]_vars
               PROVE  FlowInv'
    BY DEF IInv
  <1>0. /\ Sent \in Seq(Packet) /\ NotEmpty(up) \in Seq(Packet)
        /\ NotEmpty(accepted) \in Seq(Packet) /\ Sent \o chunk \in Seq(Packet)
        /\ ToSend \in Seq(Packet) /\ chunk \in Seq(Packet)
        /\ up \in Seq(Packet) /\ accepted \in Seq(Packet)
    BY FlowType DEF TypeOK
  <1>t. pc \in [{"tcp", "loop", "receiver"} -> {"off", "read", "send", "open", "write",
                                                "deliver", "close", "closing", "over"}]
    BY DEF TypeOK, Goroutines
  <1> DEFINE N == NotEmpty(accepted)
             T == ToSend
             U == NotEmpty(up)
             K == Kept(pkt)
             F == Sent \o chunk
  <1>1. ASSUME SendFirst \/ SendNext PROVE FlowInv'
    <2>1. /\ pkt \in Packet /\ accepted' = Append(accepted, pkt) /\ pkt' = pkt
          /\ pc["loop"] = "send" /\ ~closed /\ pc'["loop"] \in {"open", "write"}
          /\ UNCHANGED <<toTarget, chunk, up, reader>>
      BY <1>1, <1>t DEF SendFirst, SendNext, OwnerInv, Goto, serverVars, streamVars
    <2>2. NotEmpty(accepted') = N \o K /\ K \in Seq(Packet)
      BY <1>0, <2>1, NotEmptyAppend, KeptType
    <2>3. Sent' = Sent /\ ToSend' = T
      BY <2>1 DEF Sent, ToSend
    <2>4. InSend = <<>> /\ InSend' = <<pkt>> /\ Sound
      BY <2>1 DEF InSend, Sound
    <2>5. NotEmpty(InSend) = <<>> /\ NotEmpty(InSend') = K
      BY <2>1, <2>4, NotEmptyNothing, NotEmptyOne
    <2> HIDE DEF N, T, U, K
    <2>6. N \in Seq(Packet) /\ T \in Seq(Packet) /\ N \o K \in Seq(Packet)
      BY <1>0, <2>2, ConcatProperties DEF N, T
    <2>7. ASSUME NEW s \in Seq(Packet), IsPrefix(s, N) PROVE IsPrefix(s, N \o K)
      <3>1. IsPrefix(N, N \o K)
        BY <2>2, <2>6, PrefixOfConcat
      <3> QED
        BY <2>6, <2>7, <3>1, PrefixTransitive
    <2>8. IsPrefix(Sent', NotEmpty(accepted'))
      BY <1>0, <2>2, <2>3, <2>7 DEF FlowInv, N
    <2>9. ASSUME reader # "over"
          PROVE  IsPrefix(T, N \o K) /\ N \o K = T \o K
      <3>1. IsPrefix(T, N) /\ N = T \o <<>>
        BY <2>4, <2>5, <2>9 DEF FlowInv, N, T
      <3>2. N = T
        BY <2>6, <3>1, ConcatEmptySeq
      <3> QED
        BY <2>6, <2>7, <3>1, <3>2
    <2> QED
      BY <2>1, <2>2, <2>3, <2>5, <2>8, <2>9 DEF FlowInv
  <1>2. ASSUME WriteOk PROVE FlowInv'
    <2>1. /\ pkt \in Packet /\ up' = Append(up, pkt)
          /\ pc["loop"] = "write" /\ pc'["loop"] = "read"
          /\ UNCHANGED <<toTarget, chunk, accepted, reader>>
      BY <1>2, <1>t DEF WriteOk, OwnerInv, Goto, serverVars, historyVars
    <2>2. NotEmpty(up') = U \o K /\ K \in Seq(Packet)
      BY <1>0, <2>1, NotEmptyAppend, KeptType
    <2>3. Sent' = Sent /\ ToSend' = F \o (U \o K)
      BY <2>1, <2>2 DEF Sent, ToSend
    <2>4. InSend = <<pkt>> /\ InSend' = <<>> /\ Sound
      BY <2>1 DEF InSend, Sound
    <2>5. NotEmpty(InSend) = K /\ NotEmpty(InSend') = <<>>
      BY <2>1, <2>4, NotEmptyNothing, NotEmptyOne
    <2>6. F \o (U \o K) = T \o K
      <3>1. T = F \o U
        BY DEF ToSend
      <3>2. F \in Seq(Packet) /\ U \in Seq(Packet) /\ K \in Seq(Packet)
        BY <1>0, <2>2
      <3> HIDE DEF T, F, U, K
      <3>3. (F \o U) \o K = F \o (U \o K)
        BY ONLY <3>2, PacketAssoc, Zenon
      <3> QED
        BY <3>1, <3>3
    <2> HIDE DEF N, T, U, K, F
    <2>7. N \in Seq(Packet) /\ T \in Seq(Packet) /\ T \o K \in Seq(Packet)
      BY <1>0, <2>2, ConcatProperties DEF N, T
    <2>8. ASSUME reader # "over"
          PROVE  N = T \o K /\ IsPrefix(T \o K, N) /\ N = (T \o K) \o <<>>
      <3>1. N = T \o K
        BY <2>4, <2>5, <2>8 DEF FlowInv, N, T
      <3>2. N \o <<>> = N /\ <<>> \in Seq(Packet)
        BY <2>7, ConcatEmptySeq
      <3>3. IsPrefix(N, N \o <<>>)
        BY <2>7, <3>2, PrefixOfConcat
      <3> QED
        BY <3>1, <3>2, <3>3
    <2>9. NotEmpty(accepted') = N /\ ToSend' = T \o K
      BY <2>1, <2>3, <2>6 DEF N, F
    <2> QED
      BY <2>1, <2>3, <2>5, <2>8, <2>9 DEF FlowInv, N
  <1>3. ASSUME ReadChunk PROVE FlowInv'
    <2>1. /\ reader = "read" /\ chunk = <<>> /\ up # <<>> /\ up' = Tail(up)
          /\ chunk' = Kept(Head(up)) /\ reader' # "over"
          /\ UNCHANGED <<pc, closed, pkt, toTarget, accepted>>
      BY <1>3 DEF ReadChunk, NextChunk, Kept, ChunkInv, assocVars, historyVars
    <2> DEFINE C == Kept(Head(up))
               V == NotEmpty(Tail(up))
    <2>2. /\ U = C \o V /\ C \in Seq(Packet) /\ V \in Seq(Packet)
      <3>1. Head(up) \in Packet /\ Tail(up) \in Seq(Packet)
        BY <1>0, <2>1, HeadTailConcat
      <3> QED
        BY <1>0, <2>1, <3>1, NotEmptyHead, NotEmptyType, KeptType
    <2>3. Sent' = Sent /\ ToSend' = (Sent \o C) \o V
      BY <2>1 DEF Sent, ToSend
    <2>4. T = Sent \o (C \o V)
      <3>1. T = (Sent \o <<>>) \o U
        BY <2>1 DEF ToSend
      <3>2. Sent \o <<>> = Sent
        BY <1>0, ConcatEmptySeq
      <3> QED
        BY <2>2, <3>1, <3>2
    <2> HIDE DEF C, V, T, U
    <2>5. ToSend' = T
      <3>1. Sent \in Seq(Packet)
        BY <1>0
      <3>2. (Sent \o C) \o V = Sent \o (C \o V)
        BY ONLY <2>2, <3>1, PacketAssoc, Zenon
      <3> QED
        BY <2>3, <2>4, <3>2
    <2>6. InSend' = InSend /\ (Sound' => Sound) /\ NotEmpty(accepted)' = NotEmpty(accepted)
      BY <2>1 DEF InSend, Sound
    <2>7. NotEmpty(InSend)' = NotEmpty(InSend)
      BY <2>6
    <2> QED
      BY <2>1, <2>3, <2>5, <2>6, <2>7 DEF FlowInv, T
  <1>4. ASSUME SendToTarget PROVE FlowInv'
    <2>1. /\ reader = "write" /\ reader' = "read" /\ chunk' = <<>>
          /\ toTarget' = Append(toTarget, [pkt |-> chunk[1], addr |-> udpAddr])
          /\ UNCHANGED <<pc, closed, pkt, up, accepted>>
      BY <1>4 DEF SendToTarget, assocVars, streamVars
    <2>2. Len(chunk) = 1 /\ chunk = <<chunk[1]>> /\ chunk[1] \in Packet
      <3>1. Len(chunk) = 1
        BY <2>1 DEF ChunkInv
      <3>2. chunk \in Seq(Packet)
        BY <1>0
      <3> QED
        BY ONLY <3>1, <3>2
    <2>3. Sent' = Sent \o chunk
      <3> DEFINE e == [pkt |-> chunk[1], addr |-> udpAddr]
      <3>1. udpAddr \in Targets
        BY <2>1, TargetKnown
      <3>2. e \in Sending /\ toTarget \in Seq(Sending) /\ e.pkt = chunk[1]
        BY <2>2, <3>1 DEF Sending, TypeOK
      <3> HIDE DEF e
      <3>3. toTarget' = Append(toTarget, e)
        BY <2>1 DEF e
      <3> QED
        BY <2>2, <3>2, <3>3, SentAppend
    <2>4. ToSend' = T
      <3>1. ToSend' = ((Sent \o chunk) \o <<>>) \o U
        BY <2>1, <2>3 DEF ToSend
      <3>2. (Sent \o chunk) \o <<>> = Sent \o chunk
        BY <1>0, ConcatEmptySeq
      <3> QED
        BY <3>1, <3>2 DEF ToSend
    <2>5. IsPrefix(Sent \o chunk, N)
      <3>1. IsPrefix(Sent \o chunk, T) /\ IsPrefix(T, N)
        BY <1>0, <2>1, PrefixOfConcat DEF FlowInv, ToSend
      <3> QED
        BY <1>0, <3>1, PrefixTransitive
    <2>6. InSend' = InSend /\ (Sound' => Sound) /\ NotEmpty(accepted)' = NotEmpty(accepted)
      BY <2>1 DEF InSend, Sound
    <2>7. NotEmpty(InSend)' = NotEmpty(InSend)
      BY <2>6
    <2> HIDE DEF T
    <2> QED
      BY <2>1, <2>3, <2>4, <2>5, <2>6, <2>7 DEF FlowInv, T
  <1>5. ASSUME SendToTargetFails PROVE FlowInv'
    <2>1. reader' = "over" /\ UNCHANGED <<toTarget, accepted>>
      BY <1>5 DEF SendToTargetFails, historyVars
    <2> QED
      BY <2>1 DEF FlowInv, Sent
  <1>6. ASSUME UNCHANGED <<toTarget, chunk, up, accepted>>,
               reader' # "over" => reader # "over", Sound' => Sound /\ InSend' = InSend
        PROVE  FlowInv'
    BY <1>6, FlowKept
  <1> USE DEF streamVars, serverVars, historyVars
  <1>7. ASSUME NEW src \in Sources, Receive(src) PROVE FlowInv'
    <2>1. /\ UNCHANGED <<toTarget, chunk, up, accepted, reader, closed>>
          /\ pc["loop"] = "read" /\ pc'["loop"] \in {"read", "send"}
      BY <1>7, <1>t DEF Receive, Goto
    <2> QED
      BY <1>6, <2>1 DEF Sound, InSend
  <1>8. ASSUME OpenOk PROVE FlowInv'
    <2>1. /\ UNCHANGED <<toTarget, chunk, up, accepted, reader, closed, pkt>>
          /\ pc["loop"] = "open" /\ pc'["loop"] = "write" /\ ~closed
      BY <1>8, <1>t DEF OpenOk, CloseInv
    <2> QED
      BY <1>6, <2>1 DEF Sound, InSend
  <1>9. ASSUME SendClosed \/ OpenFails \/ WriteFails PROVE FlowInv'
    <2>1. /\ UNCHANGED <<toTarget, chunk, up, accepted, reader>>
          /\ pc'["loop"] = "close" \/ (closed' /\ pc'["loop"] # "write")
      BY <1>9, <1>t DEF SendClosed, OpenFails, WriteFails, Goto
    <2> QED
      BY <1>6, <2>1 DEF Sound
  <1>10. ASSUME LoopEnds PROVE FlowInv'
    <2>1. /\ UNCHANGED <<toTarget, chunk, up, accepted, reader, closed>>
          /\ pc["loop"] = "read" /\ pc'["loop"] = "over"
      BY <1>10, <1>t DEF LoopEnds, Goto
    <2> QED
      BY <1>6, <2>1 DEF Sound, InSend
  <1>11. ASSUME NEW g \in Goroutines, CloseMark(g) \/ CloseRest(g) PROVE FlowInv'
    <2>1. /\ UNCHANGED <<toTarget, chunk, up, accepted, reader, pkt>>
          /\ closed' /\ (g # "loop" => pc'["loop"] = pc["loop"])
          /\ g = "loop" => pc'["loop"] \in {"read", "closing"}
      BY <1>11, <1>t DEF CloseMark, CloseRest, Goto, After, CloseInv, Goroutines
    <2> QED
      BY <1>6, <2>1 DEF Sound, InSend
  <1>12. ASSUME ReceiveReply \/ Deliver \/ ReceiverFails \/ TcpEnds PROVE FlowInv'
    <2>1. /\ UNCHANGED <<toTarget, chunk, up, accepted, reader, closed, pkt>>
          /\ pc'["loop"] = pc["loop"]
      BY <1>12, <1>t DEF ReceiveReply, Deliver, ReceiverFails, TcpEnds, Goto
    <2> QED
      BY <1>6, <2>1 DEF Sound, InSend
  <1>13. ASSUME MainStep \/ SocketFails \/ TargetReplies \/ LinkBreaks \/ ReadFails PROVE FlowInv'
    <2>1. UNCHANGED <<toTarget, chunk, up, accepted, closed, pkt, pc>>
      BY <1>13
      DEF MainStep, SocketFails, TargetReplies, LinkBreaks, ReadFails, ResolveOk, ResolveFails,
          ReplyOk, ReplyFails, QuietLeave, Leave, assocVars
    <2>2. reader' # "over" => reader # "over"
      BY <1>13
      DEF MainStep, SocketFails, TargetReplies, LinkBreaks, ReadFails, ResolveOk, ResolveFails,
          ReplyOk, ReplyFails, QuietLeave, Leave, OnceInv
    <2> QED
      BY <1>6, <2>1, <2>2 DEF Sound, InSend
  <1>14. ASSUME UNCHANGED vars PROVE FlowInv'
    BY <1>6, <1>14 DEF vars, assocVars, Sound, InSend
  <1> QED
    BY <1>1, <1>2, <1>3, <1>4, <1>5, <1>7, <1>8, <1>9, <1>10, <1>11, <1>12, <1>13, <1>14
    DEF Next, LoopStep, ReceiverStep, CloseStep, ReaderStep
-----------------------------------------------------------------------------
(* The theorems *)

LEMMA UploadFollows == IInv => UploadOrdered
  <1> SUFFICES ASSUME IInv PROVE UploadOrdered
    OBVIOUS
  <1>1. TypeOK /\ CloseInv /\ OwnerInv /\ TargetInv /\ FlowInv
    BY DEF IInv
  <1>2. ASSUME ~closed, ~broken, reader # "over", main # "over", pc["loop"] # "close"
        PROVE  NotEmpty(accepted) = Sent \o chunk \o NotEmpty(up \o InSend)
    <2>1. NotEmpty(accepted) = ((Sent \o chunk) \o NotEmpty(up)) \o NotEmpty(InSend)
      BY <1>1, <1>2 DEF FlowInv, ToSend, Sound
    <2>2. NotEmpty(up \o InSend) = NotEmpty(up) \o NotEmpty(InSend)
      BY <1>1, FlowType, NotEmptyConcat DEF TypeOK
    <2>3. /\ Sent \o chunk \in Seq(Packet) /\ NotEmpty(up) \in Seq(Packet)
          /\ NotEmpty(InSend) \in Seq(Packet)
      BY <1>1, FlowType
    <2> DEFINE first == Sent \o chunk
               waiting == NotEmpty(up)
               last == NotEmpty(InSend)
    <2>4. first \in Seq(Packet) /\ waiting \in Seq(Packet) /\ last \in Seq(Packet)
      BY <2>3
    <2> HIDE DEF first, waiting, last
    <2>5. (first \o waiting) \o last = first \o (waiting \o last)
      BY ONLY <2>4, PacketAssoc, Zenon
    <2> QED
      BY <2>1, <2>2, <2>5 DEF first, waiting, last
  <1> QED
    BY <1>1, <1>2 DEF UploadOrdered, OwnerInv, TargetInv, FlowInv, Sent

LEMMA NothingFollows == IInv => NothingLeft
  <1> SUFFICES ASSUME IInv, \A g \in Goroutines : pc[g] \in {"off", "over"}
               PROVE  closed /\ stream # "open" /\ sockets = "closed"
    BY DEF NothingLeft
  <1>1. pc["loop"] \in {"off", "over"}
    BY DEF Goroutines
  <1> QED
    BY <1>1 DEF IInv, CloseInv

\* The invariant of the association and its relay.
THEOREM InvCorrect == Spec => []IInv
  <1>1. Init => IInv
    BY InitInv, InitFlow DEF IInv
  <1>2. IInv /\ [Next]_vars => IInv'
    BY NextType, NextClose, NextOnce, NextChunkInv, NextOwner, NextTarget, NextFlow DEF IInv
  <1> QED
    BY <1>1, <1>2, PTL DEF Spec

\* Every variable has its type, and one stream at most is opened.
THEOREM TypeCorrect == Spec => []TypeOK
  <1>1. IInv => TypeOK
    BY DEF IInv
  <1> QED
    BY <1>1, InvCorrect, PTL

\* send, handleUDPStream and handleUDPResponse: the packets reach the socket in
\* order and once, at the first target, and everything is of one address.
THEOREM UploadOrderedCorrect == Spec => []UploadOrdered
  BY UploadFollows, InvCorrect, PTL

\* UDPAssociation.Close: goroutines that are gone leave nothing open.
THEOREM NothingLeftCorrect == Spec => []NothingLeft
  BY NothingFollows, InvCorrect, PTL
=============================================================================
