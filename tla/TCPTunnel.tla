----------------------------- MODULE TCPTunnel ------------------------------
(***************************************************************************)
(* A TCP connection from end to end: the application, the client's front   *)
(* end (FrontEnd), one stream, the server's relay (TCPRelay), the target.  *)
(* The stream keeps order and delivers what was written before it was      *)
(* closed; the link under it may break once.  The k-th chunk the relay     *)
(* reads is sent[k].                                                       *)
(***************************************************************************)
EXTENDS Integers, Sequences, SequencesExt

CONSTANTS
  MaxTyped,        \* bound: pieces the application sends
  MaxAnswers,      \* bound: answers of the target
  DataCap          \* capacity of the relay's dataCh

ASSUME BoundsAssumption ==
  MaxTyped \in Nat /\ MaxAnswers \in Nat /\ DataCap \in Nat \ {0}

VARIABLES
  phase, typed, appEnded, consumed, swallowed,
  upCopy, downCopy, stream, sent, got, delivered

VARIABLES
  reader, dialer, handler, downloader, inReader, dataCh, dataClosed, inHandler,
  errs, conn, dialCh, cancelled, ended, taken, written

VARIABLES
  answered,        \* number of answers written to the stream
  streamClosed,    \* the server has closed its end
  broken,          \* the link is down
  served,          \* the server has read the open header
  targetEnded      \* history: the target ended the connection by itself

F == INSTANCE FrontEnd
R == INSTANCE TCPRelay WITH MaxChunks <- MaxTyped + 1

frontVars == <<phase, typed, appEnded, consumed,
               swallowed, upCopy, downCopy, stream, sent, got, delivered>>
relayVars == <<reader, dialer, handler, downloader, inReader, dataCh, dataClosed,
               inHandler, errs, conn, dialCh, cancelled, ended, taken, written,
               streamClosed>>
linkVars == <<answered, broken, served, targetEnded>>
vars == <<frontVars, relayVars, linkVars>>

Init ==
  /\ F!Init /\ R!Init
  /\ answered = 0 /\ broken = FALSE /\ served = FALSE /\ targetEnded = FALSE
-----------------------------------------------------------------------------
\* A step of the client side.
Client(A) == A /\ UNCHANGED <<relayVars, linkVars>>

\* The header arrives and the server handles the stream.
Serve ==
  /\ stream # "none" /\ ~served /\ ~broken
  /\ served' = TRUE
  /\ UNCHANGED <<frontVars, relayVars, answered, broken, targetEnded>>

Break ==
  /\ stream = "open" /\ ~broken
  /\ broken' = TRUE
  /\ UNCHANGED <<frontVars, relayVars, answered, served, targetEnded>>

\* A step of the server side.
Server(A) == served /\ A /\ UNCHANGED <<frontVars, linkVars>>

Arrives == Len(taken) < Len(sent) /\ R!ReadChunk

\* The server's end is closed, the link is down, or everything that the client
\* wrote before it closed the stream was read.
StreamEnds ==
  /\ streamClosed \/ broken \/ (stream = "closed" /\ Len(taken) = Len(sent))
  /\ R!ReadError

Relays ==
  R!SendChunk \/ R!DropChunk \/ R!ReaderEnd \/ R!DialerStep \/ R!HandlerStep

Answers == answered < MaxAnswers /\ R!ReadTarget

Answer ==
  /\ served /\ ~broken
  /\ R!WriteStream
  /\ answered' = answered + 1
  /\ UNCHANGED <<frontVars, broken, served, targetEnded>>

\* The downloader ends: because of the target, or because the handler closed
\* the connection to it, or because the stream is gone.
DownloadEnds ==
  /\ served
  /\ R!DownloadError
  /\ downloader = "write" => streamClosed \/ broken \/ stream = "closed"
  /\ targetEnded' = (targetEnded \/ (downloader = "read" /\ conn = "open"))
  /\ UNCHANGED <<frontVars, answered, broken, served>>

Next ==
  \/ Client(F!Next) \/ Serve \/ Break
  \/ Server(Arrives) \/ Server(StreamEnds) \/ Server(Relays) \/ Server(Answers)
  \/ Answer \/ DownloadEnds

Spec == Init /\ [][Next]_vars

\* Requests have a deadline; the application reads what it is sent, and so
\* does the target, or they are gone; the request's body may never come.
Fairness ==
  /\ WF_vars(Client(F!Handler)) /\ WF_vars(Client(F!Up)) /\ WF_vars(Client(F!Down))
  /\ WF_vars(Serve)
  /\ WF_vars(Server(Arrives \/ StreamEnds))
  /\ WF_vars(Server(R!SendChunk \/ R!DropChunk \/ R!ReaderEnd))
  /\ WF_vars(Server(R!DialerStep))
  /\ WF_vars(Server(R!TakeConn \/ R!LeaveOnError \/ R!LeaveOnTimeout))
  /\ WF_vars(Server(R!TakeData \/ R!LeaveOnEof))
  /\ WF_vars(Server(R!WriteTarget \/ R!LeaveOnWriteError))
  /\ SF_vars(Server(R!LeaveOnCancel))
  /\ WF_vars(Server(R!CloseStream))
  /\ WF_vars(Answer)
  /\ WF_vars(conn = "closed" /\ DownloadEnds)
  /\ WF_vars(downloader = "write" /\ DownloadEnds)

FairSpec == Spec /\ Fairness
-----------------------------------------------------------------------------
(* Properties *)

\* What the target has received, and what the front end took for it.
Content(chunks) == [i \in DOMAIN chunks |-> sent[chunks[i]]]
Received == Content(written)
Taken ==
  (IF 0 \in ToSet(sent) THEN <<0>> ELSE <<>>)
    \o [i \in 1 .. consumed - swallowed |-> swallowed + i]

\* Until somebody ends the connection, what the application sends reaches the
\* target as it is, and afterwards in order and without repetition: the way
\* from io.Copy to the target is a byte stream.  What the HTTP reader takes
\* along with the request never enters it.
InHand == IF upCopy = "write" THEN <<consumed>> ELSE <<>>
Upload == INSTANCE ByteStream
  WITH Data <- 0 .. MaxTyped, accepted <- Taken, wire <- Received,
       waiting <- Content(inHandler \o dataCh \o inReader)
                    \o SubSeq(sent, Len(taken) + 1, Len(sent)) \o InHand,
       up <- ~(cancelled \/ broken \/ stream = "closed" \/ phase = "over")
ImplementsStream == Upload!Spec

\* When the application ends its side, and the relay finds that out rather than
\* an end of its own, the target has received everything.
UploadComplete ==
  ended = "eof" /\ downloader # "done" /\ upCopy = "eof" /\ ~broken =>
    Received = Taken

\* The way down ends early only for a reason that both sides can see.  Unless
\* the application ended its side, the link broke, or a piece of the application
\* could not be written (proxyConn then closes both ends, whatever the other
\* copy still holds), the application has every answer the relay wrote, and the
\* relay stopped because the target ended, could not be written to, or was
\* never reached: no timeout, no end of the reader cuts a download off.
DownloadComplete ==
  downCopy \in {"eof", "failed"} /\ ~appEnded /\ ~broken /\ Taken = sent =>
    /\ delivered = answered
    /\ targetEnded \/ ended = "write" \/ downloader = "off"

\* When the relay's goroutines are gone the target connection is closed, but
\* for one that came when nobody waited any more: it can be left in dialCh.
ConnClosed == R!ConnClosed

\* Whoever ends first, everybody ends: the front end's handler and copies, and
\* the four goroutines of the relay.
AllEnd ==
  (phase = "over" \/ (phase = "copy" /\ appEnded) \/ broken \/ cancelled) ~>
    /\ phase = "over" /\ stream # "open"
    /\ served => /\ handler = "returned" /\ reader = "done" /\ dialer = "done"
                 /\ downloader \in {"off", "done"}
=============================================================================
