---------------------------- MODULE Tunnel_proofs ---------------------------
(***************************************************************************)
(* Proofs about Tunnel, for any clients, channels, UUIDs, channel ids and  *)
(* bounds: who is let in, which session is whose, and what the server's    *)
(* maps hold.                                                              *)
(*                                                                         *)
(* The invariant IInv says, besides the properties themselves, where a     *)
(* client is with respect to its link (ClientInv, GrantInv), that a link   *)
(* which has not been dialled has no state (Fresh), what its first stream  *)
(* can bring (HelloInv), how far the server's handler can be for what it   *)
(* has read and answered (SrvInv), and which end can accept streams        *)
(* (AccInv).                                                               *)
(***************************************************************************)
EXTENDS Tunnel, TLAPS

LEMMA EndFacts ==
  /\ \A l \in Links : C(l) \in Ends /\ S(l) \in Ends
  /\ \A l, k \in Links :
       C(l) # S(k) /\ (C(l) = C(k) => l = k) /\ (S(l) = S(k) => l = k)
  /\ \A e \in Ends : \E l \in Links : e = C(l) \/ e = S(l)
  BY DEF Ends, C, S

\* What the steps of the other goroutines leave alone.
LEMMA Frames ==
  /\ \A l \in Links : KeepStep(l) => UNCHANGED <<loopVars, serverVars, linkVars>>
  /\ \A l \in Links : ServerStep(l) => UNCHANGED <<loopVars, keep, hello>>
  /\ \A e \in Ends : EndStep(e) => UNCHANGED <<loopVars, keep, serverVars, hello, reply>>
  /\ Restart => UNCHANGED <<loop, last, current, keep, hello, reply>>
  <1>1. ASSUME NEW l \in Links, KeepStep(l)
        PROVE  UNCHANGED <<loopVars, serverVars, linkVars>>
    BY <1>1 DEF KeepStep, KeepPing, KeepFails, KeepEnds
  <1>2. ASSUME NEW l \in Links, ServerStep(l) PROVE UNCHANGED <<loopVars, keep, hello>>
    BY <1>2 DEF ServerStep, ReadHello, RefuseHello, Respond, DropLink, Register,
                Unregister, linkVars
  <1>3. ASSUME NEW e \in Ends, EndStep(e)
        PROVE  UNCHANGED <<loopVars, keep, serverVars, hello, reply>>
    BY <1>3
    DEF EndStep, AcceptStep, Accept, AddChannel, AcceptFails, AcceptEnds,
                StreamEnds, CloseSmux, CloseChannels, EndBreaks, linkVars
  <1>4. ASSUME Restart PROVE UNCHANGED <<loop, last, current, keep, hello, reply>>
    BY <1>4 DEF Restart, loopVars
  <1> QED
    BY <1>1, <1>2, <1>3, <1>4

LEMMA LinkFacts ==
  /\ \A l \in Links : /\ l[1] \in Clients \cup Channels /\ l[2] \in 1 .. MaxLinks
                      /\ l = <<l[1], l[2]>>
  /\ \A p \in Clients \cup Channels, n \in 1 .. MaxLinks :
       <<p, n>> \in Links /\ <<p, n>>[1] = p /\ <<p, n>>[2] = n
  BY DEF Links
-----------------------------------------------------------------------------
(* The inductive invariant *)

\* currentSession is the link connectLoop serves; the loop has a link unless it
\* is about to dial, and says hello on it once.
Placed(c) ==
  /\ current[c] = IF loop[c] = "serve" THEN Link(c) ELSE None
  /\ loop[c] # "check" => last[c] > 0
  /\ loop[c] = "hello" => hello[Link(c)] = "none"
ClientInv == \A c \in Clients : Placed(c)

\* It serves a link only after an OK on it.
GrantInv == \A c \in Clients : loop[c] = "serve" => reply[Link(c)] = "ok"

\* A link that has not been dialled.
Fresh ==
  \A l \in Links : l[2] > last[l[1]] =>
    /\ srv[l] = "off" /\ hello[l] = "none" /\ reply[l] = "none" /\ keep[l] = "off"
    /\ \A e \in {C(l), S(l)} : smux[e] = "none" /\ close[e] = "no" /\ acc[e] = "off"

\* A client's link brings its UUID, a channel's a ping.
HelloInv ==
  \A l \in Links :
    hello[l] \in {"none"} \cup IF l[1] \in Clients THEN {UuidOf[l[1]]} ELSE {"ping"}

\* The handler of a link has read what it answers, has answered OK only to an
\* allowed UUID, and has handled no stream before that.
Handling(l) ==
  /\ srv[l] \in {"check", "reject", "store", "serve"} => hello[l] \in Uuids
  /\ srv[l] \in {"off", "accept", "check"} => reply[l] = "none"
  /\ srv[l] \in {"store", "serve"} => reply[l] = "ok"
  /\ reply[l] = "ok" => hello[l] \in Allowed
  /\ reply[l] # "none" => hello[l] \in Uuids
  /\ srv[l] \in {"off", "accept", "check", "reject", "store"} =>
       acc[S(l)] = "off" /\ close[S(l)] = "no"
  /\ (acc[S(l)] \notin {"off", "over"} \/ running[S(l)] # {}) => reply[l] = "ok"
SrvInv == \A l \in Links : Handling(l)

\* Only acceptStreams itself closes a server session; a client gets no streams.
AccInv ==
  \A l \in Links :
    /\ acc[S(l)] \in {"run", "add"} => close[S(l)] = "no"
    /\ backlog[C(l)] = {} /\ acc[C(l)] # "add"
    /\ acc[C(l)] # "off" => l[1] \in Clients

IInv ==
  /\ TypeOK /\ ClientInv /\ GrantInv /\ Fresh /\ HelloInv /\ SrvInv /\ AccInv
  /\ OneSession /\ EntryIsLive /\ NoPanic /\ NoStaleChannel

LEMMA InitInv == Init => IInv
  <1> SUFFICES ASSUME Init PROVE IInv
    OBVIOUS
  <1>1. TypeOK
    <2>1. /\ last \in [Clients \cup Channels -> 0 .. MaxLinks]
          /\ opened \in [Ends -> 0 .. MaxPings] /\ faults \in 0 .. MaxFaults
      BY TunnelAssumption DEF Init
    <2>2. /\ running \in [Ends -> SUBSET ((1 .. MaxPings) \X Ids)]
          /\ backlog \in [Ends -> SUBSET (1 .. MaxPings)]
      BY DEF Init
    <2> QED
      BY <2>1, <2>2 DEF Init, TypeOK
  <1>2. ClientInv /\ GrantInv /\ Fresh /\ HelloInv /\ SrvInv /\ AccInv
    BY EndFacts, LinkFacts
    DEF Init, ClientInv, Placed, GrantInv, Fresh, HelloInv, SrvInv, Handling,
        AccInv
  <1>3. OneSession /\ EntryIsLive /\ NoPanic /\ NoStaleChannel
    BY EndFacts DEF Init, OneSession, EntryIsLive, NoPanic, NoStaleChannel
  <1> QED
    BY <1>1, <1>2, <1>3 DEF IInv

\* The link of a client that is not about to dial.
LEMMA LinkOf ==
  ASSUME TypeOK, ClientInv, NEW c \in Clients, loop[c] # "check"
  PROVE  Link(c) \in Links /\ Link(c)[1] = c /\ Link(c)[2] = last[c]
  <1>1. last[c] \in 1 .. MaxLinks
    BY TunnelAssumption DEF TypeOK, ClientInv, Placed
  <1> QED
    BY <1>1, LinkFacts DEF Link

LEMMA NextTypeOK == IInv /\ [Next]_vars => TypeOK'
  <1> SUFFICES ASSUME IInv, [Next]_vars PROVE TypeOK'
    OBVIOUS
  <1>0. TypeOK /\ ClientInv /\ SrvInv
    BY DEF IInv
  <1> USE EndFacts, TunnelAssumption
  <1> USE DEF TypeOK, Connect, Fault, CloseCall, loopVars, linkVars,
      streamVars, serverVars
  <1>1. ASSUME NEW c \in Clients, Dial(c) PROVE TypeOK'
    <2>1. last[c] \in 0 .. MaxLinks /\ last[c] < MaxLinks /\ c \in Clients \cup Channels
      BY <1>0, <1>1 DEF Dial
    <2>2. last[c] + 1 \in 1 .. MaxLinks /\ last[c] + 1 \in 0 .. MaxLinks
      BY <2>1
    <2>3. <<c, last[c] + 1>> \in Links
      BY <2>1, <2>2, LinkFacts
    <2>4. last' \in [Clients \cup Channels -> 0 .. MaxLinks]
      BY <1>0, <1>1, <2>2 DEF Dial
    <2>5. /\ smux' \in [Ends -> {"none", "up", "down"}]
          /\ srv' \in [Links -> {"off", "accept", "check", "reject", "store", "serve", "over"}]
      BY <1>0, <1>1, <2>3 DEF Dial
    <2> QED
      BY <1>0, <1>1, <2>3, <2>4, <2>5 DEF Dial
  <1>2. ASSUME NEW c \in Clients, SayHello(c) PROVE TypeOK'
    <2>1. Link(c) \in Links /\ UuidOf[c] \in Uuids
      BY <1>0, <1>2, LinkOf DEF SayHello, Uuids
    <2> QED
      BY <1>0, <1>2, <2>1 DEF SayHello
  <1>3. ASSUME NEW c \in Clients, Establish(c) PROVE TypeOK'
    <2>1. Link(c) \in Links
      BY <1>0, <1>3, LinkOf DEF Establish
    <2> QED
      BY <1>0, <1>3, <2>1 DEF Establish
  <1>4. ASSUME NEW c \in Clients, HandshakeFails(c) PROVE TypeOK'
    <2>1. Link(c) \in Links
      BY <1>0, <1>4, LinkOf DEF HandshakeFails
    <2> QED
      BY <1>0, <1>4, <2>1 DEF HandshakeFails
  <1>5. ASSUME NEW c \in Clients, SessionOver(c) PROVE TypeOK'
    BY <1>0, <1>5 DEF SessionOver
  <1>6. ASSUME NEW c \in Clients, Interrupt(c) PROVE TypeOK'
    <2>1. current[c] \in Links
      BY <1>0, <1>6 DEF Interrupt
    <2> QED
      BY <1>0, <1>6, <2>1 DEF Interrupt
  <1>7. ASSUME NEW p \in Channels, PoolDial(p) PROVE TypeOK'
    <2>1. last[p] \in 0 .. MaxLinks /\ last[p] < MaxLinks /\ p \in Clients \cup Channels
      BY <1>0, <1>7 DEF PoolDial
    <2>2. last[p] + 1 \in 1 .. MaxLinks /\ last[p] + 1 \in 0 .. MaxLinks
      BY <2>1
    <2>3. <<p, last[p] + 1>> \in Links
      BY <2>1, <2>2, LinkFacts
    <2>4. last' \in [Clients \cup Channels -> 0 .. MaxLinks]
      BY <1>0, <1>7, <2>2 DEF PoolDial
    <2>5. /\ smux' \in [Ends -> {"none", "up", "down"}]
          /\ srv' \in [Links -> {"off", "accept", "check", "reject", "store", "serve", "over"}]
      BY <1>0, <1>7, <2>3 DEF PoolDial
    <2> QED
      BY <1>0, <1>7, <2>3, <2>4, <2>5 DEF PoolDial
  <1>8. ASSUME NEW l \in Links, KeepPing(l) PROVE TypeOK'
    BY <1>0, <1>8 DEF KeepPing
  <1>9. ASSUME NEW l \in Links, KeepFails(l) PROVE TypeOK'
    BY <1>0, <1>9 DEF KeepFails
  <1>10. ASSUME NEW l \in Links, KeepEnds(l) PROVE TypeOK'
    BY <1>0, <1>10 DEF KeepEnds
  <1>11. ASSUME NEW l \in Links, ReadHello(l) PROVE TypeOK'
    BY <1>0, <1>11 DEF ReadHello
  <1>12. ASSUME NEW l \in Links, RefuseHello(l) PROVE TypeOK'
    BY <1>0, <1>12 DEF RefuseHello
  <1>13. ASSUME NEW l \in Links, Respond(l) PROVE TypeOK'
    BY <1>0, <1>13 DEF Respond, IsAllowed
  <1>14. ASSUME NEW l \in Links, DropLink(l) PROVE TypeOK'
    BY <1>0, <1>14 DEF DropLink
  <1>15. ASSUME NEW l \in Links, Register(l) PROVE TypeOK'
    BY <1>0, <1>15 DEF Register, SrvInv, Handling
  <1>16. ASSUME NEW l \in Links, Unregister(l) PROVE TypeOK'
    BY <1>0, <1>16 DEF Unregister, SrvInv, Handling
  <1>17. ASSUME NEW e \in Ends, Accept(e) PROVE TypeOK'
    BY <1>0, <1>17 DEF Accept
  <1>18. ASSUME NEW e \in Ends, AddChannel(e) PROVE TypeOK'
    BY <1>0, <1>18 DEF AddChannel
  <1>19. ASSUME NEW e \in Ends, AcceptFails(e) PROVE TypeOK'
    BY <1>0, <1>19 DEF AcceptFails
  <1>20. ASSUME NEW e \in Ends, AcceptEnds(e) PROVE TypeOK'
    BY <1>0, <1>20 DEF AcceptEnds
  <1>21. ASSUME NEW e \in Ends, StreamEnds(e) PROVE TypeOK'
    BY <1>0, <1>21 DEF StreamEnds
  <1>22. ASSUME NEW e \in Ends, CloseSmux(e) PROVE TypeOK'
    BY <1>0, <1>22 DEF CloseSmux
  <1>23. ASSUME NEW e \in Ends, CloseChannels(e) PROVE TypeOK'
    BY <1>0, <1>23 DEF CloseChannels
  <1>24. ASSUME NEW e \in Ends, EndBreaks(e) PROVE TypeOK'
    BY <1>0, <1>24 DEF EndBreaks, Peer
  <1>25. CASE Restart
    BY <1>0, <1>25 DEF Restart
  <1>26. CASE UNCHANGED vars
    BY <1>0, <1>26 DEF vars
  <1> QED
    BY <1>1, <1>2, <1>3, <1>4, <1>5, <1>6, <1>7, <1>8, <1>9, <1>10, <1>11,
        <1>12, <1>13, <1>14, <1>15, <1>16, <1>17, <1>18, <1>19, <1>20, <1>21,
        <1>22, <1>23, <1>24, <1>25, <1>26
    DEF Next, ClientStep, KeepStep, ServerStep, AcceptStep, EndStep

LEMMA NextClientInv == IInv /\ [Next]_vars => ClientInv'
  <1> SUFFICES ASSUME IInv, [Next]_vars PROVE ClientInv'
    OBVIOUS
  <1>0. /\ TypeOK /\ ClientInv /\ GrantInv /\ Fresh /\ HelloInv /\ SrvInv /\ AccInv
        /\ OneSession /\ EntryIsLive /\ NoPanic /\ NoStaleChannel
    BY DEF IInv
  <1> USE EndFacts, LinkFacts, LinkOf, NoneAssumption, TunnelAssumption
  <1> USE DEF TypeOK, ClientInv, Link, Placed, Fresh, Connect, loopVars,
      linkVars, streamVars, serverVars
  <1>1. ASSUME NEW c \in Clients, Dial(c) PROVE ClientInv'
    BY <1>0, <1>1 DEF Dial
  <1>2. ASSUME NEW c \in Clients, SayHello(c) PROVE ClientInv'
    BY <1>0, <1>2 DEF SayHello
  <1>3. ASSUME NEW c \in Clients, Establish(c) PROVE ClientInv'
    <2>1. loop[c] = "reply" /\ last[c] > 0
      BY <1>0, <1>3 DEF Establish
    <2>2. /\ loop' = [loop EXCEPT ![c] = "serve"] /\ last' = last
          /\ current' = [current EXCEPT ![c] = <<c, last[c]>>] /\ hello' = hello
      BY <1>3 DEF Establish
    <2>3. ASSUME NEW d \in Clients, d # c
          PROVE  loop'[d] = loop[d] /\ current'[d] = current[d]
      BY <1>0, <2>2, <2>3
    <2>4. loop'[c] = "serve" /\ current'[c] = <<c, last'[c]>>
      BY <1>0, <2>2
    <2>5. Placed(c)'
      BY <2>1, <2>2, <2>4
    <2>6. ASSUME NEW d \in Clients, d # c PROVE Placed(d)'
      <3>1. Placed(d)
        BY <1>0
      <3> QED
        BY <2>2, <2>3, <2>6, <3>1
    <2> QED
      BY <2>5, <2>6
  <1>4. ASSUME NEW c \in Clients, HandshakeFails(c) PROVE ClientInv'
    BY <1>0, <1>4 DEF HandshakeFails, Fault
  <1>5. ASSUME NEW c \in Clients, SessionOver(c) PROVE ClientInv'
    <2>1. /\ loop' = [loop EXCEPT ![c] = "check"] /\ last' = last
          /\ current' = [current EXCEPT ![c] = None] /\ hello' = hello
      BY <1>5 DEF SessionOver
    <2>2. ASSUME NEW d \in Clients, d # c
          PROVE  loop'[d] = loop[d] /\ current'[d] = current[d]
      BY <1>0, <2>1, <2>2
    <2>3. loop'[c] = "check" /\ current'[c] = None
      BY <1>0, <2>1
    <2>4. Placed(c)'
      BY <2>3
    <2>5. ASSUME NEW d \in Clients, d # c PROVE Placed(d)'
      <3>1. Placed(d)
        BY <1>0
      <3> QED
        BY <2>1, <2>2, <2>5, <3>1
    <2> QED
      BY <2>4, <2>5
  <1>6. ASSUME NEW c \in Clients, Interrupt(c) PROVE ClientInv'
    BY <1>0, <1>6 DEF Interrupt, Fault, CloseCall
  <1>7. ASSUME NEW p \in Channels, PoolDial(p) PROVE ClientInv'
    BY <1>0, <1>7 DEF PoolDial
  <1>8. ASSUME NEW l \in Links, KeepStep(l) PROVE ClientInv'
    <2>1. UNCHANGED <<loop, last, current, hello>>
      BY <1>8, Frames
    <2> QED
      BY <1>0, <2>1
  <1>9. ASSUME NEW l \in Links, ServerStep(l) PROVE ClientInv'
    <2>1. UNCHANGED <<loop, last, current, hello>>
      BY <1>9, Frames
    <2> QED
      BY <1>0, <2>1
  <1>10. ASSUME NEW e \in Ends, EndStep(e) PROVE ClientInv'
    <2>1. UNCHANGED <<loop, last, current, hello>>
      BY <1>10, Frames
    <2> QED
      BY <1>0, <2>1
  <1>11. CASE Restart
    <2>1. UNCHANGED <<loop, last, current, hello>>
      BY <1>11, Frames
    <2> QED
      BY <1>0, <2>1
  <1>12. CASE UNCHANGED vars
    BY <1>0, <1>12 DEF vars
  <1> QED
    BY <1>1, <1>2, <1>3, <1>4, <1>5, <1>6, <1>7, <1>8, <1>9, <1>10, <1>11,
       <1>12
    DEF Next, ClientStep

LEMMA NextGrantInv == IInv /\ [Next]_vars => GrantInv'
  <1> SUFFICES ASSUME IInv, [Next]_vars PROVE GrantInv'
    OBVIOUS
  <1>0. /\ TypeOK /\ ClientInv /\ GrantInv /\ Fresh /\ HelloInv /\ SrvInv /\ AccInv
        /\ OneSession /\ EntryIsLive /\ NoPanic /\ NoStaleChannel
    BY DEF IInv
  <1> USE EndFacts, LinkFacts, LinkOf, NoneAssumption, TunnelAssumption
  <1> USE DEF TypeOK, GrantInv, ClientInv, Placed, Link, SrvInv, Handling,
      Connect, loopVars, linkVars, streamVars, serverVars
  <1>1. ASSUME NEW c \in Clients, Dial(c) PROVE GrantInv'
    BY <1>0, <1>1 DEF Dial
  <1>2. ASSUME NEW c \in Clients, SayHello(c) PROVE GrantInv'
    BY <1>0, <1>2 DEF SayHello
  <1>3. ASSUME NEW c \in Clients, Establish(c) PROVE GrantInv'
    <2>1. reply[Link(c)] = "ok" /\ UNCHANGED <<last, reply>>
      BY <1>3 DEF Establish, Accepted
    <2>2. \A d \in Clients : d # c => loop'[d] = loop[d]
      BY <1>0, <1>3 DEF Establish
    <2> SUFFICES ASSUME NEW d \in Clients, loop'[d] = "serve"
                 PROVE  reply'[Link(d)'] = "ok"
      OBVIOUS
    <2>3. CASE d = c
      BY <2>1, <2>3
    <2>4. CASE d # c
      BY <1>0, <2>1, <2>2, <2>4
    <2> QED
      BY <2>3, <2>4
  <1>4. ASSUME NEW c \in Clients, HandshakeFails(c) PROVE GrantInv'
    BY <1>0, <1>4 DEF HandshakeFails, Fault
  <1>5. ASSUME NEW c \in Clients, SessionOver(c) PROVE GrantInv'
    BY <1>0, <1>5 DEF SessionOver
  <1>6. ASSUME NEW c \in Clients, Interrupt(c) PROVE GrantInv'
    BY <1>0, <1>6 DEF Interrupt, Fault, CloseCall
  <1>7. ASSUME NEW p \in Channels, PoolDial(p) PROVE GrantInv'
    BY <1>0, <1>7 DEF PoolDial
  <1>8. ASSUME NEW l \in Links, KeepStep(l) PROVE GrantInv'
    BY <1>0, <1>8, Frames
  <1>9. ASSUME NEW l \in Links, ServerStep(l) PROVE GrantInv'
    BY <1>0, <1>9
    DEF ServerStep, ReadHello, RefuseHello, Respond, DropLink, Register,
        Unregister, Fault, IsAllowed
  <1>10. ASSUME NEW e \in Ends, EndStep(e) PROVE GrantInv'
    BY <1>0, <1>10, Frames
  <1>11. CASE Restart
    BY <1>0, <1>11, Frames
  <1>12. CASE UNCHANGED vars
    BY <1>0, <1>12 DEF vars
  <1> QED
    BY <1>1, <1>2, <1>3, <1>4, <1>5, <1>6, <1>7, <1>8, <1>9, <1>10, <1>11,
       <1>12
    DEF Next, ClientStep

LEMMA NextFresh == IInv /\ [Next]_vars => Fresh'
  <1> SUFFICES ASSUME IInv, [Next]_vars PROVE Fresh'
    OBVIOUS
  <1>0. /\ TypeOK /\ ClientInv /\ GrantInv /\ Fresh /\ HelloInv /\ SrvInv /\ AccInv
        /\ OneSession /\ EntryIsLive /\ NoPanic /\ NoStaleChannel
    BY DEF IInv
  <1> USE EndFacts, LinkFacts, LinkOf, NoneAssumption, TunnelAssumption
  <1> USE DEF TypeOK, Fresh, ClientInv, Placed, Link, Connect, loopVars,
      linkVars, streamVars, serverVars
  <1>1. ASSUME NEW c \in Clients, Dial(c) PROVE Fresh'
    BY <1>0, <1>1 DEF Dial
  <1>2. ASSUME NEW c \in Clients, SayHello(c) PROVE Fresh'
    BY <1>0, <1>2 DEF SayHello
  <1>3. ASSUME NEW c \in Clients, Establish(c) PROVE Fresh'
    BY <1>0, <1>3 DEF Establish, Accepted
  <1>4. ASSUME NEW c \in Clients, HandshakeFails(c) PROVE Fresh'
    BY <1>0, <1>4 DEF HandshakeFails, Fault
  <1>5. ASSUME NEW c \in Clients, SessionOver(c) PROVE Fresh'
    BY <1>0, <1>5 DEF SessionOver
  <1>6. ASSUME NEW c \in Clients, Interrupt(c) PROVE Fresh'
    <2>1. current[c] = Link(c) /\ Link(c) \in Links /\ Link(c)[1] = c /\ Link(c)[2] = last[c]
      BY <1>0, <1>6 DEF Interrupt
    <2>2. UNCHANGED <<last, srv, hello, reply, keep, smux, acc>>
      BY <1>6 DEF Interrupt
    <2>3. \A e \in Ends : e # C(Link(c)) => close'[e] = close[e]
      BY <1>0, <1>6, <2>1 DEF Interrupt, CloseCall
    <2> QED
      BY <1>0, <2>1, <2>2, <2>3
  <1>7. ASSUME NEW p \in Channels, PoolDial(p) PROVE Fresh'
    <2>1. p \in Clients \cup Channels /\ last[p] + 1 \in 1 .. MaxLinks
      BY <1>0, <1>7 DEF PoolDial
    <2> DEFINE k == <<p, last[p] + 1>>
    <2>2. k \in Links /\ k[1] = p /\ k[2] = last[p] + 1
      BY <2>1
    <2>3. \A l \in Links : l[2] > last'[l[1]] => l[2] > last[l[1]] /\ l # k
      BY <1>0, <1>7, <2>1, <2>2 DEF PoolDial
    <2>4. /\ \A l \in Links : l # k => srv'[l] = srv[l] /\ hello'[l] = hello[l]
          /\ \A e \in Ends : e \notin {C(k), S(k)} => smux'[e] = smux[e]
          /\ UNCHANGED <<reply, keep, close, acc>>
      BY <1>0, <1>7, <2>2 DEF PoolDial
    <2> HIDE DEF k
    <2> QED
      BY <1>0, <2>2, <2>3, <2>4
  <1>8. ASSUME NEW l \in Links, KeepStep(l) PROVE Fresh'
    BY <1>0, <1>8 DEF KeepStep, KeepPing, KeepFails, KeepEnds, CloseCall
  <1>9. ASSUME NEW l \in Links, ServerStep(l) PROVE Fresh'
    BY <1>0, <1>9
    DEF ServerStep, ReadHello, RefuseHello, Respond, DropLink, Register,
        Unregister, Fault, IsAllowed
  <1>10. ASSUME NEW e \in Ends, EndStep(e) PROVE Fresh'
    BY <1>0, <1>10
    DEF EndStep, AcceptStep, Accept, AddChannel, AcceptFails, AcceptEnds,
        StreamEnds, CloseSmux, CloseChannels, EndBreaks, CloseCall, Fault,
        Peer
  <1>11. CASE Restart
    BY <1>0, <1>11 DEF Restart, Fault
  <1>12. CASE UNCHANGED vars
    BY <1>0, <1>12 DEF vars
  <1> QED
    BY <1>1, <1>2, <1>3, <1>4, <1>5, <1>6, <1>7, <1>8, <1>9, <1>10, <1>11,
       <1>12
    DEF Next, ClientStep

LEMMA NextHelloInv == IInv /\ [Next]_vars => HelloInv'
  <1> SUFFICES ASSUME IInv, [Next]_vars PROVE HelloInv'
    OBVIOUS
  <1>0. /\ TypeOK /\ ClientInv /\ GrantInv /\ Fresh /\ HelloInv /\ SrvInv /\ AccInv
        /\ OneSession /\ EntryIsLive /\ NoPanic /\ NoStaleChannel
    BY DEF IInv
  <1> USE EndFacts, LinkFacts, LinkOf, NoneAssumption, TunnelAssumption
  <1> USE DEF TypeOK, HelloInv, Connect, loopVars, linkVars, streamVars,
      serverVars
  <1>1. ASSUME NEW c \in Clients, Dial(c) PROVE HelloInv'
    BY <1>0, <1>1 DEF Dial
  <1>2. ASSUME NEW c \in Clients, SayHello(c) PROVE HelloInv'
    BY <1>0, <1>2 DEF SayHello
  <1>3. ASSUME NEW c \in Clients, Establish(c) PROVE HelloInv'
    BY <1>0, <1>3 DEF Establish, Accepted
  <1>4. ASSUME NEW c \in Clients, HandshakeFails(c) PROVE HelloInv'
    BY <1>0, <1>4 DEF HandshakeFails, Fault
  <1>5. ASSUME NEW c \in Clients, SessionOver(c) PROVE HelloInv'
    BY <1>0, <1>5 DEF SessionOver
  <1>6. ASSUME NEW c \in Clients, Interrupt(c) PROVE HelloInv'
    BY <1>0, <1>6 DEF Interrupt, Fault, CloseCall
  <1>7. ASSUME NEW p \in Channels, PoolDial(p) PROVE HelloInv'
    BY <1>0, <1>7 DEF PoolDial
  <1>8. ASSUME NEW l \in Links, KeepStep(l) PROVE HelloInv'
    BY <1>0, <1>8, Frames
  <1>9. ASSUME NEW l \in Links, ServerStep(l) PROVE HelloInv'
    BY <1>0, <1>9, Frames
  <1>10. ASSUME NEW e \in Ends, EndStep(e) PROVE HelloInv'
    BY <1>0, <1>10, Frames
  <1>11. CASE Restart
    BY <1>0, <1>11, Frames
  <1>12. CASE UNCHANGED vars
    BY <1>0, <1>12 DEF vars
  <1> QED
    BY <1>1, <1>2, <1>3, <1>4, <1>5, <1>6, <1>7, <1>8, <1>9, <1>10, <1>11,
       <1>12
    DEF Next, ClientStep

LEMMA NextSrvInv == IInv /\ [Next]_vars => SrvInv'
  <1> SUFFICES ASSUME IInv, [Next]_vars PROVE SrvInv'
    OBVIOUS
  <1>0. /\ TypeOK /\ ClientInv /\ GrantInv /\ Fresh /\ HelloInv /\ SrvInv /\ AccInv
        /\ OneSession /\ EntryIsLive /\ NoPanic /\ NoStaleChannel
    BY DEF IInv
  <1> USE EndFacts, LinkFacts, LinkOf, NoneAssumption, TunnelAssumption
  <1> USE DEF TypeOK, SrvInv, Handling, ClientInv, Placed, Link, Fresh,
      Connect, loopVars, linkVars, streamVars, serverVars
  <1>1. ASSUME NEW c \in Clients, Dial(c) PROVE SrvInv'
    BY <1>0, <1>1 DEF Dial
  <1>2. ASSUME NEW c \in Clients, SayHello(c) PROVE SrvInv'
    <2>1. Link(c) \in Links /\ Link(c)[1] = c /\ hello[Link(c)] = "none"
      BY <1>0, <1>2 DEF SayHello
    <2>2. "none" \notin Uuids /\ Allowed \subseteq Uuids
      BY UuidAssumption DEF Uuids
    <2>3. srv[Link(c)] \in {"off", "accept", "over"} /\ reply[Link(c)] = "none"
      BY <1>0, <2>1, <2>2
    <2>4. /\ \A l \in Links : l # Link(c) => hello'[l] = hello[l]
          /\ UNCHANGED <<srv, reply, acc, close, running>>
      BY <1>0, <1>2, <2>1 DEF SayHello
    <2>5. ASSUME NEW l \in Links PROVE Handling(l)'
      <3>1. Handling(l)
        BY <1>0
      <3>2. CASE l = Link(c)
        BY <2>3, <2>4, <3>1, <3>2
      <3>3. CASE l # Link(c)
        BY <2>4, <3>1, <3>3
      <3> QED
        BY <3>2, <3>3
    <2> QED
      BY <2>5
  <1>3. ASSUME NEW c \in Clients, Establish(c) PROVE SrvInv'
    BY <1>0, <1>3 DEF Establish, Accepted
  <1>4. ASSUME NEW c \in Clients, HandshakeFails(c) PROVE SrvInv'
    BY <1>0, <1>4 DEF HandshakeFails, Fault
  <1>5. ASSUME NEW c \in Clients, SessionOver(c) PROVE SrvInv'
    BY <1>0, <1>5 DEF SessionOver
  <1>6. ASSUME NEW c \in Clients, Interrupt(c) PROVE SrvInv'
    BY <1>0, <1>6 DEF Interrupt, Fault, CloseCall
  <1>7. ASSUME NEW p \in Channels, PoolDial(p) PROVE SrvInv'
    BY <1>0, <1>7 DEF PoolDial
  <1>8. ASSUME NEW l \in Links, KeepStep(l) PROVE SrvInv'
    BY <1>0, <1>8 DEF KeepStep, KeepPing, KeepFails, KeepEnds, CloseCall
  <1>9. ASSUME NEW l \in Links, ServerStep(l) PROVE SrvInv'
    BY <1>0, <1>9
    DEF ServerStep, ReadHello, RefuseHello, Respond, DropLink, Register,
        Unregister, Fault, IsAllowed
  <1>10. ASSUME NEW e \in Ends, EndStep(e) PROVE SrvInv'
    <2>1. UNCHANGED <<srv, hello, reply>>
      BY <1>10
      DEF EndStep, AcceptStep, Accept, AddChannel, AcceptFails, AcceptEnds,
          StreamEnds, CloseSmux, CloseChannels, EndBreaks
    <2>2. ASSUME NEW l \in Links, e # S(l)
          PROVE  acc'[S(l)] = acc[S(l)] /\ close'[S(l)] = close[S(l)] /\ running'[S(l)] = running[S(l)]
      BY <1>0, <1>10, <2>2
      DEF EndStep, AcceptStep, Accept, AddChannel, AcceptFails, AcceptEnds,
          StreamEnds, CloseSmux, CloseChannels, EndBreaks, CloseCall
    <2>3. ASSUME NEW l \in Links, e = S(l) PROVE Handling(l)'
      <3>1. CASE AcceptStep(e)
        BY <1>0, <2>1, <2>3, <3>1
        DEF AcceptStep, Accept, AddChannel, AcceptFails, AcceptEnds, CloseCall
      <3>2. CASE StreamEnds(e)
        BY <1>0, <2>1, <2>3, <3>2 DEF StreamEnds
      <3>3. CASE CloseSmux(e) \/ CloseChannels(e) \/ EndBreaks(e)
        BY <1>0, <2>1, <2>3, <3>3 DEF CloseSmux, CloseChannels, EndBreaks
      <3> QED
        BY <1>10, <3>1, <3>2, <3>3 DEF EndStep
    <2> QED
      BY <1>0, <2>1, <2>2, <2>3
  <1>11. CASE Restart
    BY <1>0, <1>11 DEF Restart, Fault
  <1>12. CASE UNCHANGED vars
    BY <1>0, <1>12 DEF vars
  <1> QED
    BY <1>1, <1>2, <1>3, <1>4, <1>5, <1>6, <1>7, <1>8, <1>9, <1>10, <1>11,
       <1>12
    DEF Next, ClientStep

LEMMA NextAccInv == IInv /\ [Next]_vars => AccInv'
  <1> SUFFICES ASSUME IInv, [Next]_vars PROVE AccInv'
    OBVIOUS
  <1>0. /\ TypeOK /\ ClientInv /\ GrantInv /\ Fresh /\ HelloInv /\ SrvInv /\ AccInv
        /\ OneSession /\ EntryIsLive /\ NoPanic /\ NoStaleChannel
    BY DEF IInv
  <1> USE EndFacts, LinkFacts, LinkOf, NoneAssumption, TunnelAssumption
  <1> USE DEF TypeOK, AccInv, ClientInv, Placed, Link, SrvInv, Handling,
      Connect, loopVars, linkVars, streamVars, serverVars
  <1>1. ASSUME NEW c \in Clients, Dial(c) PROVE AccInv'
    BY <1>0, <1>1 DEF Dial
  <1>2. ASSUME NEW c \in Clients, SayHello(c) PROVE AccInv'
    BY <1>0, <1>2 DEF SayHello
  <1>3. ASSUME NEW c \in Clients, Establish(c) PROVE AccInv'
    BY <1>0, <1>3 DEF Establish, Accepted
  <1>4. ASSUME NEW c \in Clients, HandshakeFails(c) PROVE AccInv'
    BY <1>0, <1>4 DEF HandshakeFails, Fault
  <1>5. ASSUME NEW c \in Clients, SessionOver(c) PROVE AccInv'
    BY <1>0, <1>5 DEF SessionOver
  <1>6. ASSUME NEW c \in Clients, Interrupt(c) PROVE AccInv'
    BY <1>0, <1>6 DEF Interrupt, Fault, CloseCall
  <1>7. ASSUME NEW p \in Channels, PoolDial(p) PROVE AccInv'
    BY <1>0, <1>7 DEF PoolDial
  <1>8. ASSUME NEW l \in Links, KeepStep(l) PROVE AccInv'
    BY <1>0, <1>8 DEF KeepStep, KeepPing, KeepFails, KeepEnds, CloseCall
  <1>9. ASSUME NEW l \in Links, ServerStep(l) PROVE AccInv'
    BY <1>0, <1>9
    DEF ServerStep, ReadHello, RefuseHello, Respond, DropLink, Register,
        Unregister, Fault, IsAllowed
  <1>10. ASSUME NEW e \in Ends, EndStep(e) PROVE AccInv'
    BY <1>0, <1>10
    DEF EndStep, AcceptStep, Accept, AddChannel, AcceptFails, AcceptEnds,
        StreamEnds, CloseSmux, CloseChannels, EndBreaks, CloseCall, Fault,
        Peer
  <1>11. CASE Restart
    <2>1. \A l \in Links : /\ acc'[C(l)] = acc[C(l)] /\ backlog'[C(l)] = backlog[C(l)]
                            /\ \/ acc'[S(l)] = "over"
                               \/ acc'[S(l)] = acc[S(l)] /\ close'[S(l)] = close[S(l)]
      <3>1. \A l \in Links : C(l)[2] = "client"
        BY DEF C
      <3> QED
        BY <1>0, <1>11, <3>1 DEF Restart
    <2> QED
      BY <1>0, <2>1
  <1>12. CASE UNCHANGED vars
    BY <1>0, <1>12 DEF vars
  <1> QED
    BY <1>1, <1>2, <1>3, <1>4, <1>5, <1>6, <1>7, <1>8, <1>9, <1>10, <1>11,
       <1>12
    DEF Next, ClientStep

LEMMA NextOneSession == IInv /\ [Next]_vars => OneSession'
  <1> SUFFICES ASSUME IInv, [Next]_vars PROVE OneSession'
    OBVIOUS
  <1>0. /\ TypeOK /\ ClientInv /\ GrantInv /\ Fresh /\ HelloInv /\ SrvInv /\ AccInv
        /\ OneSession /\ EntryIsLive /\ NoPanic /\ NoStaleChannel
    BY DEF IInv
  <1> USE EndFacts, LinkFacts, LinkOf, NoneAssumption, TunnelAssumption
  <1> USE DEF TypeOK, OneSession, ClientInv, Placed, Link, Connect, loopVars,
      linkVars, streamVars, serverVars
  <1>1. ASSUME NEW c \in Clients, Dial(c) PROVE OneSession'
    BY <1>0, <1>1 DEF Dial
  <1>2. ASSUME NEW c \in Clients, SayHello(c) PROVE OneSession'
    BY <1>0, <1>2 DEF SayHello
  <1>3. ASSUME NEW c \in Clients, Establish(c) PROVE OneSession'
    BY <1>0, <1>3 DEF Establish, Accepted
  <1>4. ASSUME NEW c \in Clients, HandshakeFails(c) PROVE OneSession'
    BY <1>0, <1>4 DEF HandshakeFails, Fault
  <1>5. ASSUME NEW c \in Clients, SessionOver(c) PROVE OneSession'
    <2>1. current[c] = Link(c) /\ Link(c) \in Links /\ close[C(Link(c))] # "no"
      BY <1>0, <1>5 DEF SessionOver
    <2>2. current' = [current EXCEPT ![c] = None] /\ UNCHANGED <<acc, close>>
      BY <1>5 DEF SessionOver
    <2>3. \A d \in Clients : d # c => current'[d] = current[d]
      BY <1>0, <2>2
    <2> SUFFICES ASSUME NEW l \in Links, acc[C(l)] # "off", close[C(l)] = "no"
                 PROVE  current'[l[1]] = l
      BY <2>2
    <2>4. l[1] \in Clients /\ current[l[1]] = l
      BY <1>0 DEF AccInv
    <2>5. l[1] # c
      BY <2>1, <2>4
    <2> QED
      BY <2>3, <2>4, <2>5
  <1>6. ASSUME NEW c \in Clients, Interrupt(c) PROVE OneSession'
    BY <1>0, <1>6 DEF Interrupt, Fault, CloseCall
  <1>7. ASSUME NEW p \in Channels, PoolDial(p) PROVE OneSession'
    BY <1>0, <1>7 DEF PoolDial
  <1>8. ASSUME NEW l \in Links, KeepStep(l) PROVE OneSession'
    BY <1>0, <1>8 DEF KeepStep, KeepPing, KeepFails, KeepEnds, CloseCall
  <1>9. ASSUME NEW l \in Links, ServerStep(l) PROVE OneSession'
    BY <1>0, <1>9
    DEF ServerStep, ReadHello, RefuseHello, Respond, DropLink, Register,
        Unregister, Fault, IsAllowed
  <1>10. ASSUME NEW e \in Ends, EndStep(e) PROVE OneSession'
    BY <1>0, <1>10
    DEF EndStep, AcceptStep, Accept, AddChannel, AcceptFails, AcceptEnds,
        StreamEnds, CloseSmux, CloseChannels, EndBreaks, CloseCall, Fault,
        Peer
  <1>11. CASE Restart
    BY <1>0, <1>11 DEF Restart, Fault
  <1>12. CASE UNCHANGED vars
    BY <1>0, <1>12 DEF vars
  <1> QED
    BY <1>1, <1>2, <1>3, <1>4, <1>5, <1>6, <1>7, <1>8, <1>9, <1>10, <1>11,
       <1>12
    DEF Next, ClientStep

LEMMA NextEntryIsLive == IInv /\ [Next]_vars => EntryIsLive'
  <1> SUFFICES ASSUME IInv, [Next]_vars PROVE EntryIsLive'
    OBVIOUS
  <1>0. /\ TypeOK /\ ClientInv /\ GrantInv /\ Fresh /\ HelloInv /\ SrvInv /\ AccInv
        /\ OneSession /\ EntryIsLive /\ NoPanic /\ NoStaleChannel
    BY DEF IInv
  <1> USE EndFacts, LinkFacts, LinkOf, NoneAssumption, TunnelAssumption
  <1> USE DEF TypeOK, EntryIsLive, ClientInv, Placed, Link, Fresh, SrvInv,
      Handling, Connect, loopVars, linkVars, streamVars, serverVars
  <1>1. ASSUME NEW c \in Clients, Dial(c) PROVE EntryIsLive'
    BY <1>0, <1>1 DEF Dial
  <1>2. ASSUME NEW c \in Clients, SayHello(c) PROVE EntryIsLive'
    <2>1. Link(c) \in Links /\ hello[Link(c)] = "none" /\ "none" \notin Uuids
      BY <1>0, <1>2, UuidAssumption DEF SayHello
    <2>2. /\ \A l \in Links : l # Link(c) => hello'[l] = hello[l]
          /\ UNCHANGED <<srv, sessions>>
      BY <1>0, <1>2, <2>1 DEF SayHello
    <2> SUFFICES ASSUME NEW u \in Uuids, sessions[u] # None
                 PROVE  srv[sessions[u]] = "serve" /\ hello'[sessions[u]] = u
      BY <2>2
    <2>3. sessions[u] \in Links /\ srv[sessions[u]] = "serve" /\ hello[sessions[u]] = u
      BY <1>0
    <2> QED
      BY <2>1, <2>2, <2>3
  <1>3. ASSUME NEW c \in Clients, Establish(c) PROVE EntryIsLive'
    BY <1>0, <1>3 DEF Establish, Accepted
  <1>4. ASSUME NEW c \in Clients, HandshakeFails(c) PROVE EntryIsLive'
    BY <1>0, <1>4 DEF HandshakeFails, Fault
  <1>5. ASSUME NEW c \in Clients, SessionOver(c) PROVE EntryIsLive'
    BY <1>0, <1>5 DEF SessionOver
  <1>6. ASSUME NEW c \in Clients, Interrupt(c) PROVE EntryIsLive'
    BY <1>0, <1>6 DEF Interrupt, Fault, CloseCall
  <1>7. ASSUME NEW p \in Channels, PoolDial(p) PROVE EntryIsLive'
    BY <1>0, <1>7 DEF PoolDial
  <1>8. ASSUME NEW l \in Links, KeepStep(l) PROVE EntryIsLive'
    BY <1>0, <1>8, Frames
  <1>9. ASSUME NEW l \in Links, ServerStep(l) PROVE EntryIsLive'
    BY <1>0, <1>9
    DEF ServerStep, ReadHello, RefuseHello, Respond, DropLink, Register,
        Unregister, Fault, IsAllowed
  <1>10. ASSUME NEW e \in Ends, EndStep(e) PROVE EntryIsLive'
    BY <1>0, <1>10, Frames
  <1>11. CASE Restart
    BY <1>0, <1>11 DEF Restart, Fault
  <1>12. CASE UNCHANGED vars
    BY <1>0, <1>12 DEF vars
  <1> QED
    BY <1>1, <1>2, <1>3, <1>4, <1>5, <1>6, <1>7, <1>8, <1>9, <1>10, <1>11,
       <1>12
    DEF Next, ClientStep

LEMMA NextNoPanic == IInv /\ [Next]_vars => NoPanic'
  <1> SUFFICES ASSUME IInv, [Next]_vars PROVE NoPanic'
    OBVIOUS
  <1>0. /\ TypeOK /\ ClientInv /\ GrantInv /\ Fresh /\ HelloInv /\ SrvInv /\ AccInv
        /\ OneSession /\ EntryIsLive /\ NoPanic /\ NoStaleChannel
    BY DEF IInv
  <1> USE EndFacts, LinkFacts, LinkOf, NoneAssumption, TunnelAssumption
  <1> USE DEF TypeOK, NoPanic, ClientInv, Placed, Link, SrvInv, Handling,
      Connect, loopVars, linkVars, streamVars, serverVars
  <1>1. ASSUME NEW c \in Clients, Dial(c) PROVE NoPanic'
    BY <1>0, <1>1 DEF Dial
  <1>2. ASSUME NEW c \in Clients, SayHello(c) PROVE NoPanic'
    BY <1>0, <1>2 DEF SayHello
  <1>3. ASSUME NEW c \in Clients, Establish(c) PROVE NoPanic'
    BY <1>0, <1>3 DEF Establish, Accepted
  <1>4. ASSUME NEW c \in Clients, HandshakeFails(c) PROVE NoPanic'
    BY <1>0, <1>4 DEF HandshakeFails, Fault
  <1>5. ASSUME NEW c \in Clients, SessionOver(c) PROVE NoPanic'
    BY <1>0, <1>5 DEF SessionOver
  <1>6. ASSUME NEW c \in Clients, Interrupt(c) PROVE NoPanic'
    BY <1>0, <1>6 DEF Interrupt, Fault, CloseCall
  <1>7. ASSUME NEW p \in Channels, PoolDial(p) PROVE NoPanic'
    BY <1>0, <1>7 DEF PoolDial
  <1>8. ASSUME NEW l \in Links, KeepStep(l) PROVE NoPanic'
    BY <1>0, <1>8 DEF KeepStep, KeepPing, KeepFails, KeepEnds, CloseCall
  <1>9. ASSUME NEW l \in Links, ServerStep(l) PROVE NoPanic'
    BY <1>0, <1>9
    DEF ServerStep, ReadHello, RefuseHello, Respond, DropLink, Register,
        Unregister, Fault, IsAllowed
  <1>10. ASSUME NEW e \in Ends, EndStep(e) PROVE NoPanic'
    <2>1. acc[e] = "add" => close[e] = "no"
      BY <1>0, SMTT(30) DEF AccInv
    <2> QED
      BY <1>0, <1>10, <2>1, SMTT(30)
      DEF EndStep, AcceptStep, Accept, AddChannel, AcceptFails, AcceptEnds,
          StreamEnds, CloseSmux, CloseChannels, EndBreaks
  <1>11. CASE Restart
    BY <1>0, <1>11 DEF Restart, Fault
  <1>12. CASE UNCHANGED vars
    BY <1>0, <1>12 DEF vars
  <1> QED
    BY <1>1, <1>2, <1>3, <1>4, <1>5, <1>6, <1>7, <1>8, <1>9, <1>10, <1>11,
       <1>12
    DEF Next, ClientStep

LEMMA NextNoStaleChannel == IInv /\ [Next]_vars => NoStaleChannel'
  <1> SUFFICES ASSUME IInv, [Next]_vars PROVE NoStaleChannel'
    OBVIOUS
  <1>0. /\ TypeOK /\ ClientInv /\ GrantInv /\ Fresh /\ HelloInv /\ SrvInv /\ AccInv
        /\ OneSession /\ EntryIsLive /\ NoPanic /\ NoStaleChannel
    BY DEF IInv
  <1> USE EndFacts, LinkFacts, LinkOf, NoneAssumption, TunnelAssumption
  <1> USE DEF TypeOK, NoStaleChannel, Connect, loopVars, linkVars, streamVars,
      serverVars
  <1>1. ASSUME NEW c \in Clients, Dial(c) PROVE NoStaleChannel'
    BY <1>0, <1>1 DEF Dial
  <1>2. ASSUME NEW c \in Clients, SayHello(c) PROVE NoStaleChannel'
    BY <1>0, <1>2 DEF SayHello
  <1>3. ASSUME NEW c \in Clients, Establish(c) PROVE NoStaleChannel'
    BY <1>0, <1>3 DEF Establish, Accepted
  <1>4. ASSUME NEW c \in Clients, HandshakeFails(c) PROVE NoStaleChannel'
    BY <1>0, <1>4 DEF HandshakeFails, Fault
  <1>5. ASSUME NEW c \in Clients, SessionOver(c) PROVE NoStaleChannel'
    BY <1>0, <1>5 DEF SessionOver
  <1>6. ASSUME NEW c \in Clients, Interrupt(c) PROVE NoStaleChannel'
    BY <1>0, <1>6 DEF Interrupt, Fault, CloseCall
  <1>7. ASSUME NEW p \in Channels, PoolDial(p) PROVE NoStaleChannel'
    BY <1>0, <1>7 DEF PoolDial
  <1>8. ASSUME NEW l \in Links, KeepStep(l) PROVE NoStaleChannel'
    BY <1>0, <1>8 DEF KeepStep, KeepPing, KeepFails, KeepEnds, CloseCall
  <1>9. ASSUME NEW l \in Links, ServerStep(l) PROVE NoStaleChannel'
    BY <1>0, <1>9
    DEF ServerStep, ReadHello, RefuseHello, Respond, DropLink, Register,
        Unregister, Fault, IsAllowed
  <1>10. ASSUME NEW e \in Ends, EndStep(e) PROVE NoStaleChannel'
    <2>1. CASE AddChannel(e)
      <3>1. PICK s \in backlog[e], id \in Ids :
              /\ running' = [running EXCEPT ![e] = @ \cup {<<s, id>>}]
              /\ channels' = [channels EXCEPT ![e] = @ \cup {id}]
        BY <2>1 DEF AddChannel
      <3>2. /\ running'[e] = running[e] \cup {<<s, id>>} /\ channels'[e] = channels[e] \cup {id}
            /\ \A d \in Ends : d # e => running'[d] = running[d] /\ channels'[d] = channels[d]
        BY <1>0, <3>1
      <3>3. <<s, id>>[2] = id
        OBVIOUS
      <3>4. ASSUME NEW d \in Ends, NEW i \in channels'[d]
            PROVE  \E r \in running'[d] : r[2] = i
        <4>1. CASE i \in channels[d]
          <5>1. PICK r \in running[d] : r[2] = i
            BY <1>0, <4>1
          <5> QED
            BY <3>2, <5>1
        <4>2. CASE i \notin channels[d]
          <5>1. d = e /\ i = id
            BY <3>2, <3>4, <4>2
          <5> QED
            BY <3>2, <3>3, <5>1
        <4> QED
          BY <4>1, <4>2
      <3> QED
        BY <3>4
    <2>2. CASE StreamEnds(e)
      BY <1>0, <2>2 DEF StreamEnds
    <2>3. CASE CloseChannels(e)
      BY <1>0, <2>3 DEF CloseChannels
    <2>4. CASE UNCHANGED <<running, channels>>
      BY <1>0, <2>4
    <2> QED
      BY <1>10, <2>1, <2>2, <2>3, <2>4
      DEF EndStep, AcceptStep, Accept, AcceptFails, AcceptEnds, CloseSmux,
          EndBreaks
  <1>11. CASE Restart
    BY <1>0, <1>11 DEF Restart, Fault
  <1>12. CASE UNCHANGED vars
    BY <1>0, <1>12 DEF vars
  <1> QED
    BY <1>1, <1>2, <1>3, <1>4, <1>5, <1>6, <1>7, <1>8, <1>9, <1>10, <1>11,
       <1>12
    DEF Next, ClientStep

LEMMA NextInv == IInv /\ [Next]_vars => IInv'
  BY NextTypeOK, NextClientInv, NextGrantInv, NextFresh, NextHelloInv,
      NextSrvInv, NextAccInv,
     NextOneSession, NextEntryIsLive, NextNoPanic, NextNoStaleChannel
  DEF IInv

THEOREM InvCorrect == Spec => []IInv
  <1>1. Init => IInv
    BY InitInv
  <1>2. IInv /\ [Next]_vars => IInv'
    BY NextInv
  <1> QED
    BY <1>1, <1>2, PTL DEF Spec
-----------------------------------------------------------------------------
(* The properties *)

\* Every variable has its type.
THEOREM TypeCorrect == Spec => []TypeOK
  <1>1. IInv => TypeOK
    BY DEF IInv
  <1> QED
    BY <1>1, InvCorrect, PTL

\* The server handles no stream of a link before its handshake was accepted,
\* whoever connects and whatever fails or restarts.
THEOREM AuthBeforeRelayCorrect == Spec => []AuthBeforeRelay
  <1>1. IInv => AuthBeforeRelay
    BY DEF IInv, SrvInv, Handling, AuthBeforeRelay
  <1> QED
    BY <1>1, InvCorrect, PTL

\* A client has only sessions the server has granted to its own UUID: the
\* answer it acts on can only be the one to its own request.
THEOREM AgreementCorrect == Spec => []Agreement
  <1>1. IInv => Agreement
    <2> SUFFICES ASSUME IInv, NEW c \in Clients, current[c] # None
                 PROVE  /\ reply[current[c]] = "ok"
                        /\ hello[current[c]] = UuidOf[c]
                        /\ UuidOf[c] \in Allowed
      BY DEF Agreement
    <2>1. loop[c] = "serve" /\ current[c] = Link(c)
      BY DEF IInv, ClientInv, Placed
    <2>2. Link(c) \in Links /\ Link(c)[1] = c
      BY <2>1, LinkOf DEF IInv
    <2>3. reply[Link(c)] = "ok"
      BY <2>1 DEF IInv, GrantInv
    <2>4. hello[Link(c)] \in Allowed
      BY <2>2, <2>3 DEF IInv, SrvInv, Handling
    <2>5. hello[Link(c)] = UuidOf[c]
      BY <2>2, <2>4, UuidAssumption DEF IInv, HelloInv, Uuids
    <2> QED
      BY <2>1, <2>3, <2>4, <2>5
  <1> QED
    BY <1>1, InvCorrect, PTL

\* No client has two live sessions, or one it does not know of.
THEOREM OneSessionCorrect == Spec => []OneSession
  <1>1. IInv => OneSession
    BY DEF IInv
  <1> QED
    BY <1>1, InvCorrect, PTL

\* The server's map names only sessions whose handler will delete them.
THEOREM EntryIsLiveCorrect == Spec => []EntryIsLive
  <1>1. IInv => EntryIsLive
    BY DEF IInv
  <1> QED
    BY <1>1, InvCorrect, PTL

\* No stream is added to a session whose map Close has taken.
THEOREM NoPanicCorrect == Spec => []NoPanic
  <1>1. IInv => NoPanic
    BY DEF IInv
  <1> QED
    BY <1>1, InvCorrect, PTL

\* No channel outlives its stream in the map, even if ids collide.
THEOREM NoStaleChannelCorrect == Spec => []NoStaleChannel
  <1>1. IInv => NoStaleChannel
    BY DEF IInv
  <1> QED
    BY <1>1, InvCorrect, PTL
=============================================================================
