------------------------------ MODULE TCPRelay ------------------------------
(***************************************************************************)
(* The server's relay of one TCP stream (internal/relay/tcp.go,            *)
(* handleTCPStream).  Four goroutines: the reader moves chunks from the    *)
(* multiplexed stream into dataCh, the dialer connects to the target, the  *)
(* handler waits for the connection and then writes dataCh to the target,  *)
(* the downloader copies the target's answers to the stream.  They end     *)
(* each other through ctx and by closing what the other blocks on.         *)
(*                                                                         *)
(* The dial keeps the promise of DialRace: one open connection or none.    *)
(* The stream and the target may fail at any time; TCPTunnel joins the     *)
(* relay with the client's end of the stream.                              *)
(***************************************************************************)
EXTENDS Integers, Sequences

CONSTANTS
  DataCap,         \* capacity of dataCh (1024 in the code)
  MaxChunks        \* bound: chunks read from the stream

VARIABLES
  reader,          \* read, send, fail or done
  dialer,          \* dial, have, fail or done
  handler,         \* wait, relay, write, closing or returned
  downloader,      \* off, read, write or done
  inReader,        \* the chunk the reader sends, as a sequence
  dataCh,          \* dataCh
  dataClosed,      \* dataCh is closed
  inHandler,       \* the chunk the handler writes, as a sequence
  errs,            \* number of errors in errCh
  conn,            \* the target connection: none, open or closed
  dialCh,          \* TRUE while the connection is in dialCh
  cancelled,       \* ctx is cancelled
  streamClosed,    \* the stream is closed on this side
  ended,           \* why the handler left: no, err, timeout, eof, cancel, write
  taken,           \* history: chunks read from the stream
  written          \* history: chunks written to the target

readerVars == <<reader, inReader, taken>>
dialVars == <<dialer, conn, dialCh>>
handlerVars == <<handler, inHandler, ended, written>>
vars == <<readerVars, dialVars, handlerVars, downloader, dataCh, dataClosed,
          errs, cancelled, streamClosed>>

Init ==
  /\ reader = "read" /\ inReader = <<>> /\ taken = <<>>
  /\ dialer = "dial" /\ conn = "none" /\ dialCh = FALSE
  /\ handler = "wait" /\ inHandler = <<>> /\ ended = "no" /\ written = <<>>
  /\ downloader = "off"
  /\ dataCh = <<>> /\ dataClosed = FALSE
  /\ errs = 0
  /\ cancelled = FALSE
  /\ streamClosed = FALSE
-----------------------------------------------------------------------------
(* The reader *)

ReadChunk ==
  /\ reader = "read"
  /\ Len(taken) < MaxChunks
  /\ inReader' = <<Len(taken) + 1>>
  /\ taken' = Append(taken, Len(taken) + 1)
  /\ reader' = "send"
  /\ UNCHANGED <<dialVars, handlerVars, downloader, dataCh, dataClosed, errs,
                 cancelled, streamClosed>>

\* The stream is at its end, reset, or closed by the handler.
ReadError ==
  /\ reader = "read"
  /\ reader' = "fail"
  /\ UNCHANGED <<inReader, taken, dialVars, handlerVars, downloader, dataCh,
                 dataClosed, errs, cancelled, streamClosed>>

\* Mutant: the slice of the read buffer is sent, not a copy.
Aliased(q, c) == [i \in 1 .. Len(q) + 1 |-> c[1]]

\* A copy of the chunk goes to the end of dataCh.
Queued(q, c) == q \o c

SendChunk ==
  /\ reader = "send"
  /\ Len(dataCh) < DataCap
  /\ dataCh' = Queued(dataCh, inReader)
  /\ inReader' = <<>>
  /\ reader' = "read"
  /\ UNCHANGED <<taken, dialVars, handlerVars, downloader, dataClosed, errs,
                 cancelled, streamClosed>>

\* The select on ctx.Done drops the chunk; the deferred close of dataCh.
DropChunk ==
  /\ reader = "send"
  /\ cancelled
  /\ inReader' = <<>>
  /\ reader' = "done"
  /\ dataClosed' = TRUE
  /\ UNCHANGED <<taken, dialVars, handlerVars, downloader, dataCh, errs,
                 cancelled, streamClosed>>

\* The capacity of errCh.
ErrCap == 2

\* The error is left in errCh unless ctx is cancelled.
PostError == \/ errs < ErrCap /\ errs' = errs + 1
             \/ cancelled /\ errs' = errs

ReaderEnd ==
  /\ reader = "fail"
  /\ PostError
  /\ reader' = "done"
  /\ dataClosed' = TRUE
  /\ UNCHANGED <<inReader, taken, dialVars, handlerVars, downloader, dataCh,
                 cancelled, streamClosed>>
-----------------------------------------------------------------------------
(* The dialer *)

\* DialTCPWithRace returns.
Dialled ==
  /\ dialer = "dial"
  /\ \/ dialer' = "have" /\ conn' = "open"
     \/ dialer' = "fail" /\ conn' = conn
  /\ UNCHANGED <<dialCh, readerVars, handlerVars, downloader, dataCh,
                 dataClosed, errs, cancelled, streamClosed>>

DialerEnd ==
  /\ dialer = "fail"
  /\ PostError
  /\ dialer' = "done"
  /\ UNCHANGED <<conn, dialCh, readerVars, handlerVars, downloader, dataCh,
                 dataClosed, cancelled, streamClosed>>

\* The select of the dialer; dialCh has room for its one connection.
HandOver ==
  /\ dialer = "have"
  /\ dialer' = "done"
  /\ dialCh' = TRUE
  /\ UNCHANGED <<conn, readerVars, handlerVars, downloader, dataCh, dataClosed,
                 errs, cancelled, streamClosed>>

\* Mutant: a connection nobody waits for is left open.
AbandonOpen ==
  /\ dialer = "have"
  /\ cancelled
  /\ dialer' = "done"
  /\ UNCHANGED <<conn, dialCh, readerVars, handlerVars, downloader, dataCh,
                 dataClosed, errs, cancelled, streamClosed>>

Abandon ==
  /\ dialer = "have"
  /\ cancelled
  /\ dialer' = "done"
  /\ conn' = "closed"
  /\ UNCHANGED <<dialCh, readerVars, handlerVars, downloader, dataCh,
                 dataClosed, errs, cancelled, streamClosed>>
-----------------------------------------------------------------------------
(* The handler *)

\* The connection arrives: the downloader starts.
TakeConn ==
  /\ handler = "wait"
  /\ dialCh
  /\ dialCh' = FALSE
  /\ handler' = "relay"
  /\ downloader' = "read"
  /\ UNCHANGED <<dialer, conn, readerVars, inHandler, ended, written, dataCh,
                 dataClosed, errs, cancelled, streamClosed>>

\* The deferred calls of handleTCPStream: the target is closed, if there is
\* one, and ctx cancelled.
Leave(why) ==
  /\ handler' = "closing"
  /\ ended' = why
  /\ conn' = IF handler = "wait" THEN conn ELSE "closed"
  /\ cancelled' = TRUE
  /\ inHandler' = <<>>
  /\ UNCHANGED <<dialer, readerVars, written, downloader, dataCh, dataClosed,
                 streamClosed>>

\* An error of the dialer, or of the reader while the dial goes on.
LeaveOnError ==
  /\ handler = "wait"
  /\ errs > 0
  /\ errs' = errs - 1
  /\ UNCHANGED dialCh
  /\ Leave("err")

\* Mutant: the deadline of the dial goes on while the relay copies.
LeaveOnTimeoutLate ==
  /\ handler \in {"wait", "relay"}
  /\ UNCHANGED <<dialCh, errs>>
  /\ Leave("timeout")

\* time.After(cfg.DialTimeout)
LeaveOnTimeout ==
  /\ handler = "wait"
  /\ UNCHANGED <<dialCh, errs>>
  /\ Leave("timeout")

TakeData ==
  /\ handler = "relay"
  /\ dataCh # <<>>
  /\ inHandler' = <<Head(dataCh)>>
  /\ dataCh' = Tail(dataCh)
  /\ handler' = "write"
  /\ UNCHANGED <<ended, written, dialVars, readerVars, downloader, dataClosed,
                 errs, cancelled, streamClosed>>

WriteTarget ==
  /\ handler = "write"
  /\ written' = written \o inHandler
  /\ inHandler' = <<>>
  /\ handler' = "relay"
  /\ UNCHANGED <<ended, dialVars, readerVars, downloader, dataCh, dataClosed,
                 errs, cancelled, streamClosed>>

LeaveOnWriteError ==
  /\ handler = "write"
  /\ UNCHANGED <<dialCh, errs>>
  /\ Leave("write")

\* Mutant: the end of the stream is noticed before the queue is empty.
LeaveOnEofEarly ==
  /\ handler = "relay"
  /\ dataClosed
  /\ UNCHANGED <<dialCh, errs>>
  /\ Leave("eof")

\* dataCh is closed and empty.
LeaveOnEof ==
  /\ handler = "relay"
  /\ dataCh = <<>>
  /\ dataClosed
  /\ UNCHANGED <<dialCh, errs>>
  /\ Leave("eof")

LeaveOnCancel ==
  /\ handler = "relay"
  /\ cancelled
  /\ UNCHANGED <<dialCh, errs>>
  /\ Leave("cancel")

\* The deferred stream.Close of HandleSmuxStream.
CloseStream ==
  /\ handler = "closing"
  /\ handler' = "returned"
  /\ streamClosed' = TRUE
  /\ UNCHANGED <<inHandler, ended, written, dialVars, readerVars, downloader,
                 dataCh, dataClosed, errs, cancelled>>
-----------------------------------------------------------------------------
(* The downloader *)

ReadTarget ==
  /\ downloader = "read"
  /\ conn = "open"
  /\ downloader' = "write"
  /\ UNCHANGED <<dialVars, readerVars, handlerVars, dataCh, dataClosed, errs,
                 cancelled, streamClosed>>

WriteStream ==
  /\ downloader = "write"
  /\ ~streamClosed
  /\ downloader' = "read"
  /\ UNCHANGED <<dialVars, readerVars, handlerVars, dataCh, dataClosed, errs,
                 cancelled, streamClosed>>

\* The deferred cancel.
DownloadEnd == downloader' = "done" /\ cancelled' = TRUE

\* The target is at its end, reset, or closed; or the stream is.
DownloadError ==
  /\ downloader \in {"read", "write"}
  /\ DownloadEnd
  /\ UNCHANGED <<dialVars, readerVars, handlerVars, dataCh, dataClosed, errs,
                 streamClosed>>

ReaderStep == ReadChunk \/ ReadError \/ SendChunk \/ DropChunk \/ ReaderEnd
DialerStep == Dialled \/ DialerEnd \/ HandOver \/ Abandon
HandlerStep ==
  \/ TakeConn \/ LeaveOnError \/ LeaveOnTimeout
  \/ TakeData \/ WriteTarget \/ LeaveOnWriteError
  \/ LeaveOnEof \/ LeaveOnCancel \/ CloseStream
DownloaderStep == ReadTarget \/ WriteStream \/ DownloadError

Next == ReaderStep \/ DialerStep \/ HandlerStep \/ DownloaderStep

Spec == Init /\ [][Next]_vars

-----------------------------------------------------------------------------
(* Properties *)

\* When all goroutines are gone the target connection is closed, but for one
\* that came when nobody waited any more: it can be left in dialCh.
ConnClosed ==
  (handler = "returned" /\ dialer = "done" /\ conn = "open") =>
    dialCh /\ ended \in {"err", "timeout"}
=============================================================================
