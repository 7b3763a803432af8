------------------------------- MODULE Tunnel -------------------------------
(***************************************************************************)
(* The sessions between clients and the server: connectLoop, keepAlive and *)
(* acceptStreams of cmd/client/main.go, handleWebSocket and acceptStreams  *)
(* of cmd/server/main.go, and the ClientSession both keep of a link        *)
(* (internal/session/session.go).                                          *)
(*                                                                         *)
(* A link is one websocket with its smux sessions, numbered per client; it *)
(* has two ends.  The handshake messages travel on the link's first        *)
(* stream.  A pool channel is a link, too, as the server sees it: its      *)
(* first stream is a ping and not a handshake.                             *)
(***************************************************************************)
EXTENDS Naturals, FiniteSets

CONSTANTS
  Clients,         \* client programs
  Channels,        \* pool channels
  UuidOf,          \* the UUID each client is configured with
  Allowed,         \* the UUIDs in auth_uuids
  Ids,             \* channel ids: the clock, cut to 32 bits
  None,            \* no link
  MaxLinks,        \* bound: links of one client or channel
  MaxPings,        \* bound: streams a client opens on one link
  MaxFaults        \* bound: failures, timeouts, restarts and interrupts

ASSUME TunnelAssumption ==
  /\ Clients \cap Channels = {}
  /\ MaxLinks \in Nat /\ MaxPings \in Nat /\ MaxFaults \in Nat

Links == (Clients \cup Channels) \X (1 .. MaxLinks)
ASSUME NoneAssumption == None \notin Links

Ends == Links \X {"client", "server"}
C(l) == <<l, "client">>
S(l) == <<l, "server">>
Peer(e) == IF e[2] = "client" THEN S(e[1]) ELSE C(e[1])

Uuids == {UuidOf[c] : c \in Clients} \cup Allowed

\* A handshake request can be told from a ping.
ASSUME UuidAssumption == "none" \notin Uuids /\ "ping" \notin Uuids

VARIABLES
  loop,            \* where each client's connectLoop is
  last,            \* number of the last link of each client or channel
  current,         \* currentSession of each client
  keep,            \* keepAlive of each link: off, run, closing or over
  srv,             \* handleWebSocket of each link
  sessions,        \* the server's sessions map
  smux,            \* the smux session of each end: none, up or down
  hello,           \* what the first stream of each link brings the server
  reply,           \* and what it brings back
  close,           \* how far ClientSession.Close of each end is
  acc,             \* acceptStreams of each end
  channels,        \* ClientSession.channels of each end
  running,         \* streams being handled at each end, with their ids
  backlog,         \* streams opened by the peer and not accepted
  opened,          \* number of streams opened towards each end
  panicked,        \* an end wrote to the nil channels map
  faults           \* number of faults so far

loopVars == <<loop, last, current>>
linkVars == <<smux, hello, reply>>
streamVars == <<channels, running, backlog, opened, panicked>>
serverVars == <<srv, sessions>>
vars == <<loopVars, keep, serverVars, linkVars, close, acc, streamVars, faults>>

Init ==
  /\ loop = [c \in Clients |-> "check"]
  /\ last = [p \in Clients \cup Channels |-> 0]
  /\ current = [c \in Clients |-> None]
  /\ keep = [l \in Links |-> "off"]
  /\ srv = [l \in Links |-> "off"]
  /\ sessions = [u \in Uuids |-> None]
  /\ smux = [e \in Ends |-> "none"]
  /\ hello = [l \in Links |-> "none"]
  /\ reply = [l \in Links |-> "none"]
  /\ close = [e \in Ends |-> "no"]
  /\ acc = [e \in Ends |-> "off"]
  /\ channels = [e \in Ends |-> {}]
  /\ running = [e \in Ends |-> {}]
  /\ backlog = [e \in Ends |-> {}]
  /\ opened = [e \in Ends |-> 0]
  /\ panicked = FALSE
  /\ faults = 0

Fault == faults < MaxFaults /\ faults' = faults + 1

\* The link connectLoop is working on.
Link(c) == <<c, last[c]>>

\* The websocket of the next link is accepted by the server.
Connect(p) ==
  LET l == <<p, last[p] + 1>>
  IN  /\ last[p] < MaxLinks
      /\ last' = [last EXCEPT ![p] = @ + 1]
      /\ smux' = [smux EXCEPT ![C(l)] = "up", ![S(l)] = "up"]
      /\ srv' = [srv EXCEPT ![l] = "accept"]
-----------------------------------------------------------------------------
(* connectLoop; a dial that fails changes nothing *)

Dial(c) ==
  /\ loop[c] = "check"
  /\ current[c] = None
  /\ Connect(c)
  /\ loop' = [loop EXCEPT ![c] = "hello"]
  /\ UNCHANGED <<current, keep, sessions, hello, reply, close, acc, streamVars,
                 faults>>

\* doHandshake opens the first stream and writes the request.
SayHello(c) ==
  /\ loop[c] = "hello"
  /\ smux[C(Link(c))] = "up"
  /\ hello' = [hello EXCEPT ![Link(c)] = UuidOf[c]]
  /\ loop' = [loop EXCEPT ![c] = "reply"]
  /\ UNCHANGED <<last, current, keep, serverVars, smux, reply, close, acc,
                 streamVars, faults>>

\* Mutant: the code of the response is not looked at.
AnyReply(c) == reply[Link(c)] # "none"

Accepted(c) == reply[Link(c)] = "ok"

\* The response is HandshakeOK: the session is stored and gets its goroutines.
Establish(c) ==
  /\ loop[c] = "reply"
  /\ Accepted(c)
  /\ current' = [current EXCEPT ![c] = Link(c)]
  /\ keep' = [keep EXCEPT ![Link(c)] = "run"]
  /\ acc' = [acc EXCEPT ![C(Link(c))] = "run"]
  /\ loop' = [loop EXCEPT ![c] = "serve"]
  /\ UNCHANGED <<last, serverVars, linkVars, close, streamVars, faults>>

\* doHandshake is refused, meets a broken link or its deadline: the link is
\* closed.
HandshakeFails(c) ==
  /\ loop[c] \in {"hello", "reply"}
  /\ \/ reply[Link(c)] = "fail" /\ UNCHANGED faults
     \/ smux[C(Link(c))] = "down" /\ UNCHANGED faults
     \/ Fault
  /\ smux' = [smux EXCEPT ![C(Link(c))] = "down"]
  /\ loop' = [loop EXCEPT ![c] = "check"]
  /\ UNCHANGED <<last, current, keep, serverVars, hello, reply, close, acc,
                 streamVars>>

\* Mutants: the loop waits for the link instead of Done; it keeps the session.
SessionOverOnBreak(c) ==
  /\ loop[c] = "serve"
  /\ smux[C(Link(c))] = "down"
  /\ current' = [current EXCEPT ![c] = None]
  /\ loop' = [loop EXCEPT ![c] = "check"]
  /\ UNCHANGED <<last, keep, serverVars, linkVars, close, acc, streamVars, faults>>
SessionOverKept(c) ==
  /\ loop[c] = "serve"
  /\ close[C(Link(c))] # "no"
  /\ loop' = [loop EXCEPT ![c] = "check"]
  /\ UNCHANGED <<last, current, keep, serverVars, linkVars, close, acc,
                 streamVars, faults>>

\* <-sess.Done() and setClientSession(nil).
SessionOver(c) ==
  /\ loop[c] = "serve"
  /\ close[C(Link(c))] # "no"
  /\ current' = [current EXCEPT ![c] = None]
  /\ loop' = [loop EXCEPT ![c] = "check"]
  /\ UNCHANGED <<last, keep, serverVars, linkVars, close, acc, streamVars, faults>>

\* A pool channel dials and sends the header of its first probe.
PoolDial(p) ==
  /\ last[p] > 0 => smux[C(<<p, last[p]>>)] = "down"
  /\ Connect(p)
  /\ hello' = [hello EXCEPT ![<<p, last[p] + 1>>] = "ping"]
  /\ UNCHANGED <<loop, current, keep, sessions, reply, close, acc, streamVars,
                 faults>>
-----------------------------------------------------------------------------
(* ClientSession.Close, at most once: done, smux, channels *)

CloseCall(e) == close' = [close EXCEPT ![e] = IF @ = "no" THEN "done" ELSE @]

CloseSmux(e) ==
  /\ close[e] = "done"
  /\ close' = [close EXCEPT ![e] = "smux"]
  /\ smux' = [smux EXCEPT ![e] = "down"]
  /\ UNCHANGED <<loopVars, keep, serverVars, hello, reply, acc, streamVars, faults>>

CloseChannels(e) ==
  /\ close[e] = "smux"
  /\ close' = [close EXCEPT ![e] = "nil"]
  /\ channels' = [channels EXCEPT ![e] = {}]
  /\ UNCHANGED <<loopVars, keep, serverVars, linkVars, acc, running, backlog,
                 opened, panicked, faults>>

\* SIGINT: main closes the current session, and connectLoop goes on.
Interrupt(c) ==
  /\ current[c] # None
  /\ Fault
  /\ CloseCall(C(current[c]))
  /\ UNCHANGED <<loopVars, keep, serverVars, linkVars, acc, streamVars>>
-----------------------------------------------------------------------------
(* keepAlive *)

\* The ticker: a stream is opened for a ping; write errors are only logged.
KeepPing(l) ==
  /\ keep[l] = "run"
  /\ smux[C(l)] = "up"
  /\ opened[S(l)] < MaxPings
  /\ opened' = [opened EXCEPT ![S(l)] = @ + 1]
  /\ backlog' = [backlog EXCEPT ![S(l)] = @ \cup {opened[S(l)] + 1}]
  /\ UNCHANGED <<loopVars, keep, serverVars, linkVars, close, acc, channels,
                 running, panicked, faults>>

\* The ticker: OpenStream fails.
KeepFails(l) ==
  /\ keep[l] = "run"
  /\ smux[C(l)] = "down"
  /\ CloseCall(C(l))
  /\ keep' = [keep EXCEPT ![l] = "closing"]
  /\ UNCHANGED <<loopVars, serverVars, linkVars, acc, streamVars, faults>>

\* The session is done, or the call of Close has returned.
KeepEnds(l) ==
  /\ \/ keep[l] = "run" /\ close[C(l)] # "no"
     \/ keep[l] = "closing" /\ close[C(l)] = "nil"
  /\ keep' = [keep EXCEPT ![l] = "over"]
  /\ UNCHANGED <<loopVars, serverVars, linkVars, close, acc, streamVars, faults>>
-----------------------------------------------------------------------------
(* acceptStreams, the same on both ends, and the streams it starts *)

\* AcceptStream returns a stream, even if the session has just been closed.
Accept(e) ==
  /\ acc[e] = "run"
  /\ backlog[e] # {}
  /\ acc' = [acc EXCEPT ![e] = "add"]
  /\ UNCHANGED <<loopVars, keep, serverVars, linkVars, close, streamVars, faults>>

\* NewWSChannel and AddChannel; after Close the map is nil.
AddChannel(e) ==
  /\ acc[e] = "add"
  /\ acc' = [acc EXCEPT ![e] = "run"]
  /\ \E s \in backlog[e], id \in Ids :
       /\ \A t \in backlog[e] : s <= t
       /\ backlog' = [backlog EXCEPT ![e] = @ \ {s}]
       /\ running' = [running EXCEPT ![e] = @ \cup {<<s, id>>}]
       /\ channels' = [channels EXCEPT ![e] = @ \cup {id}]
  /\ panicked' = (panicked \/ close[e] = "nil")
  /\ UNCHANGED <<loopVars, keep, serverVars, linkVars, close, opened, faults>>

\* Mutants: the loop goes on after Close; the session is left open.
AcceptFailsOn(e) ==
  /\ acc[e] = "run"
  /\ smux[e] = "down"
  /\ CloseCall(e)
  /\ UNCHANGED <<loopVars, keep, serverVars, linkVars, acc, streamVars, faults>>
AcceptFailsOpen(e) ==
  /\ acc[e] = "run"
  /\ smux[e] = "down"
  /\ acc' = [acc EXCEPT ![e] = "over"]
  /\ UNCHANGED <<loopVars, keep, serverVars, linkVars, close, streamVars, faults>>

AcceptFails(e) ==
  /\ acc[e] = "run"
  /\ smux[e] = "down"
  /\ CloseCall(e)
  /\ acc' = [acc EXCEPT ![e] = "closing"]
  /\ UNCHANGED <<loopVars, keep, serverVars, linkVars, streamVars, faults>>

AcceptEnds(e) ==
  /\ acc[e] = "closing"
  /\ close[e] = "nil"
  /\ acc' = [acc EXCEPT ![e] = "over"]
  /\ UNCHANGED <<loopVars, keep, serverVars, linkVars, close, streamVars, faults>>

\* Mutant: the channel stays in the map.
StreamEndsOnly(e) ==
  /\ \E r \in running[e] : running' = [running EXCEPT ![e] = @ \ {r}]
  /\ UNCHANGED <<loopVars, keep, serverVars, linkVars, close, acc, channels,
                 backlog, opened, panicked, faults>>

\* A stream's handler returns; WSChannel.Close removes its id from the map.
StreamEnds(e) ==
  /\ \E r \in running[e] :
       /\ running' = [running EXCEPT ![e] = @ \ {r}]
       /\ channels' = [channels EXCEPT ![e] = @ \ {r[2]}]
  /\ UNCHANGED <<loopVars, keep, serverVars, linkVars, close, acc, backlog,
                 opened, panicked, faults>>
-----------------------------------------------------------------------------
(* handleWebSocket *)

\* The first stream brings a handshake request.
ReadHello(l) ==
  /\ srv[l] = "accept"
  /\ hello[l] \in Uuids
  /\ srv' = [srv EXCEPT ![l] = "check"]
  /\ UNCHANGED <<loopVars, keep, sessions, linkVars, close, acc, streamVars, faults>>

\* It does not, the link is broken, or the deadline passes.
RefuseHello(l) ==
  /\ srv[l] = "accept"
  /\ \/ hello[l] = "ping" /\ UNCHANGED faults
     \/ smux[S(l)] = "down" /\ UNCHANGED faults
     \/ hello[l] = "none" /\ Fault
  /\ smux' = [smux EXCEPT ![S(l)] = "down"]
  /\ srv' = [srv EXCEPT ![l] = "over"]
  /\ UNCHANGED <<loopVars, keep, sessions, hello, reply, close, acc, streamVars>>

\* Mutant: every UUID that is well formed is allowed.
IsWellFormed(u) == u \in Uuids

IsAllowed(u) == u \in Allowed

\* The response is written; its WSNetConn may still hold it back.
Respond(l) ==
  /\ srv[l] = "check"
  /\ smux[S(l)] = "up"
  /\ reply' = [reply EXCEPT ![l] = IF IsAllowed(hello[l]) THEN "ok" ELSE "fail"]
  /\ srv' = [srv EXCEPT ![l] = IF IsAllowed(hello[l]) THEN "store" ELSE "reject"]
  /\ UNCHANGED <<loopVars, keep, sessions, smux, hello, close, acc, streamVars,
                 faults>>

\* The response cannot be written, or was HandshakeFail.
DropLink(l) ==
  /\ \/ srv[l] = "check" /\ smux[S(l)] = "down"
     \/ srv[l] = "reject"
  /\ smux' = [smux EXCEPT ![S(l)] = "down"]
  /\ srv' = [srv EXCEPT ![l] = "over"]
  /\ UNCHANGED <<loopVars, keep, sessions, hello, reply, close, acc, streamVars,
                 faults>>

\* The session replaces whatever the map holds for the UUID.
Register(l) ==
  /\ srv[l] = "store"
  /\ sessions' = [sessions EXCEPT ![hello[l]] = l]
  /\ acc' = [acc EXCEPT ![S(l)] = "run"]
  /\ srv' = [srv EXCEPT ![l] = "serve"]
  /\ UNCHANGED <<loopVars, keep, linkVars, close, streamVars, faults>>

\* Mutant: the entry is left behind.
UnregisterNot(l) ==
  /\ srv[l] = "serve"
  /\ close[S(l)] # "no"
  /\ srv' = [srv EXCEPT ![l] = "over"]
  /\ UNCHANGED <<loopVars, keep, sessions, linkVars, close, acc, streamVars, faults>>

\* <-sess.Done(): the UUID's entry is deleted, whosever it is by then.
Unregister(l) ==
  /\ srv[l] = "serve"
  /\ close[S(l)] # "no"
  /\ sessions' = [sessions EXCEPT ![hello[l]] = None]
  /\ srv' = [srv EXCEPT ![l] = "over"]
  /\ UNCHANGED <<loopVars, keep, linkVars, close, acc, streamVars, faults>>
-----------------------------------------------------------------------------
(* The network *)

\* An end fails, or notices that the other end has gone.
EndBreaks(e) ==
  /\ smux[e] = "up"
  /\ \/ smux[Peer(e)] = "down" /\ UNCHANGED faults
     \/ Fault
  /\ smux' = [smux EXCEPT ![e] = "down"]
  /\ UNCHANGED <<loopVars, keep, serverVars, hello, reply, close, acc, streamVars>>

\* The server is restarted: every link is gone, with what it knew of it.
Restart ==
  LET ends == {e \in Ends : e[2] = "server" /\ smux[e] # "none"}
  IN  /\ Fault
      /\ smux' = [e \in Ends |-> IF e \in ends THEN "down" ELSE smux[e]]
      /\ srv' = [l \in Links |-> IF S(l) \in ends THEN "over" ELSE srv[l]]
      /\ sessions' = [u \in Uuids |-> None]
      /\ acc' = [e \in Ends |-> IF e \in ends THEN "over" ELSE acc[e]]
      /\ channels' = [e \in Ends |-> IF e \in ends THEN {} ELSE channels[e]]
      /\ running' = [e \in Ends |-> IF e \in ends THEN {} ELSE running[e]]
      /\ backlog' = [e \in Ends |-> IF e \in ends THEN {} ELSE backlog[e]]
      /\ close' = [e \in Ends |-> IF e \in ends THEN "nil" ELSE close[e]]
      /\ UNCHANGED <<loopVars, keep, hello, reply, opened, panicked>>

ClientStep(c) ==
  Dial(c) \/ SayHello(c) \/ Establish(c) \/ HandshakeFails(c) \/ SessionOver(c)

KeepStep(l) == KeepPing(l) \/ KeepFails(l) \/ KeepEnds(l)

ServerStep(l) ==
  \/ ReadHello(l) \/ RefuseHello(l) \/ Respond(l)
  \/ DropLink(l) \/ Register(l) \/ Unregister(l)

AcceptStep(e) == Accept(e) \/ AddChannel(e) \/ AcceptFails(e) \/ AcceptEnds(e)

EndStep(e) ==
  AcceptStep(e) \/ StreamEnds(e) \/ CloseSmux(e) \/ CloseChannels(e) \/ EndBreaks(e)

Next ==
  \/ \E c \in Clients : ClientStep(c) \/ Interrupt(c)
  \/ \E p \in Channels : PoolDial(p)
  \/ \E l \in Links : KeepStep(l) \/ ServerStep(l)
  \/ \E e \in Ends : EndStep(e)
  \/ Restart

Spec == Init /\ [][Next]_vars

\* Every goroutine that can go on does; a dial that keeps being tried succeeds
\* in the end; an end notices that the other has gone (smux probes the link);
\* the handler of a stream returns at the latest once the stream has no link.
\* Faults and interrupts never have to happen.
Fairness ==
  /\ \A c \in Clients : WF_vars(ClientStep(c) /\ UNCHANGED faults)
  /\ \A l \in Links : /\ WF_vars(KeepFails(l) \/ KeepEnds(l))
                      /\ WF_vars(ServerStep(l) /\ UNCHANGED faults)
  /\ \A e \in Ends : /\ WF_vars(AcceptStep(e))
                     /\ WF_vars(CloseSmux(e) \/ CloseChannels(e))
                     /\ WF_vars(smux[e] = "down" /\ StreamEnds(e))
                     /\ WF_vars(EndBreaks(e) /\ UNCHANGED faults)

FairSpec == Spec /\ Fairness
-----------------------------------------------------------------------------
(* Properties *)

\* Every variable has its type.
TypeOK ==
  /\ loop \in [Clients -> {"check", "hello", "reply", "serve"}]
  /\ last \in [Clients \cup Channels -> 0 .. MaxLinks]
  /\ current \in [Clients -> Links \cup {None}]
  /\ keep \in [Links -> {"off", "run", "closing", "over"}]
  /\ srv \in [Links -> {"off", "accept", "check", "reject", "store", "serve", "over"}]
  /\ sessions \in [Uuids -> Links \cup {None}]
  /\ smux \in [Ends -> {"none", "up", "down"}]
  /\ hello \in [Links -> Uuids \cup {"none", "ping"}]
  /\ reply \in [Links -> {"none", "ok", "fail"}]
  /\ close \in [Ends -> {"no", "done", "smux", "nil"}]
  /\ acc \in [Ends -> {"off", "run", "add", "closing", "over"}]
  /\ channels \in [Ends -> SUBSET Ids]
  /\ running \in [Ends -> SUBSET ((1 .. MaxPings) \X Ids)]
  /\ backlog \in [Ends -> SUBSET (1 .. MaxPings)]
  /\ opened \in [Ends -> 0 .. MaxPings]
  /\ panicked \in BOOLEAN
  /\ faults \in 0 .. MaxFaults

\* The server handles no stream of a link, and gives it no session, before the
\* link's own handshake named an allowed UUID and was answered with OK.
AuthBeforeRelay ==
  \A l \in Links :
    (acc[S(l)] \in {"run", "add", "closing"} \/ running[S(l)] # {}) =>
      hello[l] \in Allowed /\ reply[l] = "ok"

\* A client that has a session has been let in by the server over that very
\* link; a client that is not allowed never has one.
Agreement ==
  \A c \in Clients : current[c] # None =>
    /\ reply[current[c]] = "ok"
    /\ hello[current[c]] = UuidOf[c]
    /\ UuidOf[c] \in Allowed

\* A client has at most one session that is not done, and currentSession is it
\* whenever there is one.
OneSession ==
  \A l \in Links :
    (acc[C(l)] # "off" /\ close[C(l)] = "no") => current[l[1]] = l

\* An entry of the server's map belongs to a handler that will delete it.
EntryIsLive ==
  \A u \in Uuids : sessions[u] # None =>
    srv[sessions[u]] = "serve" /\ hello[sessions[u]] = u

\* A channel in the map belongs to a stream that is being handled: nothing
\* stays behind even if two streams got the same id.
NoStaleChannel ==
  \A e \in Ends : \A id \in channels[e] : \E r \in running[e] : r[2] = id

\* acceptStreams never adds a channel to a session whose map Close has taken.
NoPanic == ~panicked

\* However often the link fails, a client that is allowed gets a session again,
\* one that is not done.
Reconnects ==
  \A c \in Clients : UuidOf[c] \in Allowed =>
    []<>(current[c] # None /\ close[C(current[c])] = "no")

\* A link that is closed on one side leaves nothing running on either: its
\* handler, its goroutines and its streams come to their end.
LinksEnd ==
  \A l \in Links :
    (smux[C(l)] = "down" \/ smux[S(l)] = "down") ~>
      /\ smux[C(l)] = "down" /\ smux[S(l)] = "down"
      /\ srv[l] = "over"
      /\ keep[l] \in {"off", "over"}
      /\ \A e \in {C(l), S(l)} : acc[e] \in {"off", "over"} /\ running[e] = {}
=============================================================================
