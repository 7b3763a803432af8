------------------------------ MODULE FrontEnd ------------------------------
(***************************************************************************)
(* One connection of an application to the client program's SOCKS5 or HTTP *)
(* listener (cmd/client/main.go): handleSOCKS5 or handleHTTP up to the     *)
(* stream, then proxyConn with its two copying goroutines.                 *)
(*                                                                         *)
(* The application's request is abstract: each step takes whatever it may  *)
(* say.  What it sends after the request is numbered 1, 2, ...; 0 is the   *)
(* request itself where HTTP passes it on.  Replies are left out but for   *)
(* the steps where one that cannot be written ends the connection.         *)
(***************************************************************************)
EXTENDS Integers, Sequences

CONSTANT MaxTyped  \* bound: pieces the application sends after its request

VARIABLES
  phase,           \* where the handler is
  typed,           \* number of pieces the application has sent
  appEnded,        \* the application has closed its side or is gone
  consumed,        \* number of pieces taken from the connection
  swallowed,       \* history: those the HTTP reader took with the request
  upCopy,          \* io.Copy(remote, local): off, read, write, eof or failed
  downCopy,        \* io.Copy(local, remote), likewise
  stream,          \* the client's end of the stream: none, open or closed
  sent,            \* history: the pieces written to the stream
  got,             \* number of answers taken from the stream
  delivered        \* number of answers the application got

\* The other end of the stream: what the server did, and the link between.
VARIABLES
  answered,        \* number of answers written to the stream
  streamClosed,    \* the server has closed its end
  broken           \* the link is down

appVars == <<typed, appEnded>>
copyVars == <<upCopy, downCopy, got, delivered>>
vars == <<phase, consumed, swallowed, stream, sent, appVars, copyVars>>

\* A SOCKS5 or an HTTP listener, each without or with a password.
Init ==
  /\ phase \in {"greet", "greetPassword", "head", "headPassword"}
  /\ typed = 0 /\ appEnded = FALSE /\ consumed = 0 /\ swallowed = 0
  /\ upCopy = "off" /\ downCopy = "off" /\ got = 0 /\ delivered = 0
  /\ stream = "none" /\ sent = <<>>
-----------------------------------------------------------------------------
(* The application *)

AppSends ==
  /\ ~appEnded /\ phase # "over"
  /\ typed < MaxTyped
  /\ typed' = typed + 1
  /\ UNCHANGED <<phase, consumed, stream, sent, appEnded, swallowed, copyVars>>

AppEnds ==
  /\ ~appEnded /\ phase # "over"
  /\ appEnded' = TRUE
  /\ UNCHANGED <<phase, consumed, stream, sent, typed, swallowed, copyVars>>
-----------------------------------------------------------------------------
(* The request *)

\* A step of the handler that only moves on.
GoTo(p) ==
  /\ phase' = p
  /\ UNCHANGED <<consumed, swallowed, stream, sent, appVars, copyVars>>

\* Bad input, the end of the connection, or the deadline of DialTimeout.
RequestFails ==
  /\ phase \in {"greet", "greetPassword", "auth", "request", "head", "headPassword"}
  /\ GoTo("over")

\* The methods offered contain the one the listener asks for, or not.
Greet ==
  \/ phase = "greet" /\ \E p \in {"request", "over"} : GoTo(p)
  \/ phase = "greetPassword" /\ \E p \in {"auth", "over"} : GoTo(p)

UserPass == phase = "auth" /\ \E p \in {"request", "over"} : GoTo(p)

\* Refused by the IP strategy, CONNECT, UDP ASSOCIATE, or anything else.
Request == phase = "request" /\ \E p \in {"over", "connect", "udp"} : GoTo(p)

\* The success reply, written before there is a stream.
Grant ==
  /\ phase = "connect"
  /\ GoTo("open") \/ (appEnded /\ GoTo("over"))

\* http.ReadRequest through a buffer, which may take what follows the request.
ReadHead ==
  /\ phase \in {"head", "headPassword"}
  /\ \E k \in 0 .. typed : consumed' = k /\ swallowed' = k
  /\ phase' = IF phase = "head" THEN "host" ELSE "password"
  /\ UNCHANGED <<stream, sent, appVars, copyVars>>

Password == phase = "password" /\ \E p \in {"host", "over"} : GoTo(p)

\* CONNECT is answered at once, whether or not the answer can be written; any
\* other method may have a body; without a host the connection is closed.
Host == phase = "host" /\ \E p \in {"open", "body", "over"} : GoTo(p)

\* req.Write reads the body without a deadline, through the same buffer, which
\* may take more of what follows; its error is ignored.
Body ==
  /\ phase = "body"
  /\ \E k \in consumed .. typed : consumed' = k /\ swallowed' = k
  /\ phase' = "openFirst"
  /\ UNCHANGED <<stream, sent, appVars, copyVars>>

\* openTCPStream: no channel, or its stream takes the open header.
Open ==
  /\ phase \in {"open", "openFirst"}
  /\ stream' = "open"
  /\ IF phase = "open"
     THEN phase' = "copy" /\ upCopy' = "read" /\ downCopy' = "read"
     ELSE phase' = "first" /\ UNCHANGED <<upCopy, downCopy>>
  /\ UNCHANGED <<consumed, sent, appVars, swallowed, got, delivered>>

OpenFails ==
  /\ phase \in {"open", "openFirst"}
  /\ GoTo("over")

\* The request that HTTP passes on is the first thing on the stream.
WriteFirst ==
  /\ phase = "first"
  /\ sent' = <<0>>
  /\ phase' = "copy" /\ upCopy' = "read" /\ downCopy' = "read"
  /\ UNCHANGED <<consumed, stream, appVars, swallowed, got, delivered>>

WriteFirstFails ==
  /\ phase = "first"
  /\ broken \/ streamClosed
  /\ stream' = "closed"
  /\ phase' = "over"
  /\ UNCHANGED <<consumed, sent, appVars, swallowed, copyVars>>
-----------------------------------------------------------------------------
(* proxyConn *)

UpRead ==
  /\ upCopy = "read"
  /\ stream = "open"
  /\ consumed < typed
  /\ consumed' = consumed + 1
  /\ upCopy' = "write"
  /\ UNCHANGED <<phase, stream, sent, appVars, swallowed, downCopy, got, delivered>>

UpWrite ==
  /\ upCopy = "write"
  /\ stream = "open" /\ ~broken
  /\ sent' = Append(sent, consumed)
  /\ upCopy' = "read"
  /\ UNCHANGED <<phase, consumed, stream, appVars, swallowed, downCopy, got, delivered>>

\* Mutant: each copy closes only what it writes to.
UpEndsHalf(how) ==
  /\ upCopy' = how
  /\ UNCHANGED <<phase, consumed, stream, sent, appVars, swallowed, downCopy, got, delivered>>

\* closeFunc closes the application's connection and the stream; both are
\* closed from here on.
UpEnds(how) ==
  /\ upCopy' = how
  /\ stream' = "closed"
  /\ UNCHANGED <<phase, consumed, sent, appVars, swallowed, downCopy, got, delivered>>

UpEof ==
  /\ upCopy = "read" /\ stream = "open"
  /\ appEnded /\ consumed = typed
  /\ UpEnds("eof")

\* The application is gone, the other copy closed both, or the stream fails.
UpFails ==
  /\ \/ upCopy = "read" /\ (appEnded \/ stream = "closed")
     \/ upCopy = "write" /\ (stream = "closed" \/ broken \/ streamClosed)
  /\ UpEnds("failed")

DownRead ==
  /\ downCopy = "read"
  /\ stream = "open"
  /\ got < answered
  /\ got' = got + 1
  /\ downCopy' = "write"
  /\ UNCHANGED <<phase, consumed, stream, sent, appVars, swallowed, upCopy, delivered>>

DownWrite ==
  /\ downCopy = "write"
  /\ stream = "open"
  /\ delivered' = delivered + 1
  /\ downCopy' = "read"
  /\ UNCHANGED <<phase, consumed, stream, sent, appVars, swallowed, upCopy, got>>

DownEnds(how) ==
  /\ downCopy' = how
  /\ stream' = "closed"
  /\ UNCHANGED <<phase, consumed, sent, appVars, swallowed, upCopy, got, delivered>>

DownEof ==
  /\ downCopy = "read" /\ stream = "open"
  /\ streamClosed /\ got = answered
  /\ DownEnds("eof")

DownFails ==
  /\ \/ downCopy = "read" /\ (stream = "closed" \/ broken)
     \/ downCopy = "write" /\ (stream = "closed" \/ appEnded)
  /\ DownEnds("failed")

\* Both copies are over.
Done ==
  /\ phase = "copy"
  /\ upCopy \in {"eof", "failed"} /\ downCopy \in {"eof", "failed"}
  /\ phase' = "over"
  /\ UNCHANGED <<consumed, stream, sent, appVars, swallowed, copyVars>>

Handler ==
  \/ RequestFails \/ Greet \/ UserPass \/ Request \/ Grant \/ ReadHead \/ Password
  \/ Host \/ Open \/ OpenFails \/ WriteFirst \/ WriteFirstFails \/ Done
Up == UpRead \/ UpWrite \/ UpEof \/ UpFails
Down == DownRead \/ DownWrite \/ DownEof \/ DownFails

Next == AppSends \/ AppEnds \/ Handler \/ Body \/ Up \/ Down
=============================================================================
