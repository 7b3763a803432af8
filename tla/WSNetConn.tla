----------------------------- MODULE WSNetConn ------------------------------
(***************************************************************************)
(* The net.Conn built on a websocket (internal/transport/wsconn.go).       *)
(* Writes are gathered in upQueue and leave as one websocket message when  *)
(* upPack bytes are queued or when the chunk timer fires; reads hand out   *)
(* the binary messages of the peer as one byte stream.                     *)
(*                                                                         *)
(* upMu is held from the moment a goroutine enters the queue until its     *)
(* websocket write returned; writeMu is only ever taken under upMu, so it  *)
(* is never contended and has no variable.  What happens under upMu before *)
(* the websocket write is one step, the write (which can block while Close *)
(* marks the connection) is another.  A chunk is one Write call's copy of  *)
(* its argument.                                                           *)
(***************************************************************************)
EXTENDS Naturals, SequencesExt

CONSTANTS
  Writers,         \* goroutines that call Write
  Readers,         \* goroutines that call Read
  Closers,         \* goroutines that call Close, once each
  Timer,           \* the goroutine of the chunk timer's callback
  Nobody,          \* the owner of a free mutex
  NoMessage,       \* the value of a nil reader
  UpPack,          \* queued bytes that trigger a flush
  MaxQueue,        \* queued bytes that may not be exceeded
  WriteSizes,      \* len(p) of the Write calls
  FrameSizes,      \* number of pieces of an arriving message
  MaxWrites,       \* bound: chunks accepted
  MaxFrames        \* bound: messages arriving from the peer

ASSUME SizesAssumption ==
  /\ UpPack \in Nat \ {0}
  /\ MaxQueue \in Nat \ {0}
  /\ WriteSizes \subseteq Nat \ {0}
  /\ FrameSizes \subseteq Nat
  /\ MaxWrites \in Nat
  /\ MaxFrames \in Nat

ASSUME GoroutinesAssumption ==
  /\ Timer \notin Writers \cup Readers \cup Closers
  /\ Nobody \notin Writers \cup Readers \cup Closers \cup {Timer}
  /\ Writers \cap Readers = {}
  /\ Writers \cap Closers = {}
  /\ Readers \cap Closers = {}

VARIABLES
  pc,              \* where each goroutine is
  arg,             \* len(p) of each writer's call
  closed,          \* WSNetConn.closed
  deadErr,         \* WSNetConn.deadErr
  deadCh,          \* TRUE once WSNetConn.deadCh is closed
  broken,          \* the websocket refuses every further use
  upMu,            \* owner of WSNetConn.upMu
  upQueue,         \* WSNetConn.upQueue
  upSize,          \* WSNetConn.upSize
  timer,           \* WSNetConn.timer: none, armed or fired
  callbacks,       \* callbacks started and waiting for upMu
  buf,             \* what the owner of upMu is writing to the websocket
  accepted,        \* history: chunks queued or written directly
  wire,            \* history: chunks the websocket took
  lost,            \* history: chunks given up
  readMu,          \* owner of WSNetConn.readMu
  reader,          \* WSNetConn.reader: none or what is left of the message
  rx,              \* messages the websocket has received and not handed out
  arrived,         \* history: messages received
  got              \* history: pieces returned by Read

upVars == <<upQueue, upSize, timer>>
sendVars == <<pc, arg, closed, upMu, upQueue, upSize, timer, callbacks, buf,
              accepted, wire, lost>>
recvVars == <<readMu, reader, rx, arrived, got>>
vars == <<sendVars, deadErr, deadCh, broken, recvVars>>

Goroutines == Writers \cup Readers \cup Closers \cup {Timer}
Chunk == [id : 1 .. MaxWrites, len : WriteSizes]
Piece == (1 .. MaxFrames) \X Nat
Message == [binary : BOOLEAN, body : Seq(Piece)]
NoErr == "nil"
Errors == {"EOF", "ErrClosed", "close", "read", "write"}

ASSUME ReaderAssumption == NoMessage \notin Seq(Piece)
-----------------------------------------------------------------------------
Init ==
  /\ pc = [g \in Goroutines |-> "idle"]
  /\ arg = [w \in Writers |-> 0]
  /\ closed = FALSE
  /\ deadErr = NoErr
  /\ deadCh = FALSE
  /\ broken = FALSE
  /\ upMu = Nobody
  /\ upQueue = <<>>
  /\ upSize = 0
  /\ timer = "none"
  /\ callbacks = 0
  /\ buf = <<>>
  /\ accepted = <<>>
  /\ wire = <<>>
  /\ lost = <<>>
  /\ readMu = Nobody
  /\ reader = NoMessage
  /\ rx = <<>>
  /\ arrived = <<>>
  /\ got = <<>>

Goto(g, place) == pc' = [pc EXCEPT ![g] = place]

\* Mutant: the error is forgotten.
BlameNobody(err) == UNCHANGED deadErr

\* signalDead up to the unlock of deadMu: the first error is kept.
Blame(err) == deadErr' = IF deadErr = NoErr THEN err ELSE deadErr

\* Give upMu back and return from the call, or go on in Close.
Unlock(g) ==
  /\ upMu' = Nobody
  /\ Goto(g, IF g \in Closers THEN "wsClose" ELSE "idle")

\* Mutant: the size is not reset.
EmptyQueueOnly == upQueue' = <<>> /\ timer' = "none" /\ upSize' = upSize

EmptyQueue == upQueue' = <<>> /\ timer' = "none" /\ upSize' = 0

\* flushLocked up to NextWriter, on the queue q: the queue is emptied first
\* and the data is dropped when the connection is marked closed.
Flush(g, q, next) ==
  /\ EmptyQueue
  /\ IF closed
     THEN /\ lost' = lost \o q
          /\ upMu' = Nobody
          /\ Goto(g, IF g \in Closers THEN "signalFlush" ELSE "idle")
          /\ UNCHANGED buf
     ELSE /\ buf' = q
          /\ upMu' = g
          /\ Goto(g, next)
          /\ UNCHANGED lost
-----------------------------------------------------------------------------
(* Write *)

\* Write up to upMu.Lock.
WriteCall(w) ==
  /\ pc[w] = "idle"
  /\ ~closed
  /\ \E n \in WriteSizes : arg' = [arg EXCEPT ![w] = n]
  /\ Goto(w, "lock")
  /\ UNCHANGED <<closed, deadErr, deadCh, broken, upMu, upVars, callbacks, buf,
                 accepted, wire, lost, recvVars>>

\* The writer owns upMu, or takes it in this step.
InQueue(w) ==
  /\ Len(accepted) < MaxWrites
  /\ \/ pc[w] = "flushed"
     \/ pc[w] = "lock" /\ upMu = Nobody

\* Mutant: the limit is looked at without the new bytes.
OverLimitAlready(w) == pc[w] = "flushed" \/ upSize > MaxQueue

\* The writer is in the branch of the queue's limit.
OverLimit(w) == pc[w] = "flushed" \/ upSize + arg[w] > MaxQueue

TooLargeToQueue(w) == arg[w] >= UpPack \/ arg[w] > MaxQueue

\* Mutant: what goes directly does not wait for the queue.
FlushFirstIfQueued(w) == OverLimit(w) /\ upSize # 0 /\ ~TooLargeToQueue(w)

\* In that branch, what is queued leaves before p does.
FlushFirst(w) == OverLimit(w) /\ upSize # 0

\* Mutant: the timer is stopped, and only set when there was none.
ArmOrStop == timer' = IF timer = "none" THEN "armed" ELSE "none"

\* The timer is stopped and set again.
Rearm == timer' = "armed"

NewChunk(w) == [id |-> Len(accepted) + 1, len |-> arg[w]]

\* The limit would be exceeded: flush what is queued.
WriteFlush(w) ==
  /\ InQueue(w)
  /\ FlushFirst(w)
  /\ Flush(w, upQueue, "flushing")
  /\ UNCHANGED <<arg, closed, deadErr, deadCh, broken, callbacks, accepted,
                 wire, recvVars>>

\* writeDirect: nothing is queued and p would not fit. closed is not read.
WriteDirect(w) ==
  /\ InQueue(w)
  /\ OverLimit(w)
  /\ ~FlushFirst(w)
  /\ TooLargeToQueue(w)
  /\ accepted' = Append(accepted, NewChunk(w))
  /\ buf' = <<NewChunk(w)>>
  /\ upMu' = w
  /\ Goto(w, "writing")
  /\ UNCHANGED <<arg, closed, deadErr, deadCh, broken, upVars, callbacks, wire,
                 lost, recvVars>>

\* Queue a copy of p; flush when upPack is reached, else rearm the timer.
WriteEnqueue(w) ==
  /\ InQueue(w)
  /\ OverLimit(w) => ~FlushFirst(w) /\ ~TooLargeToQueue(w)
  /\ accepted' = Append(accepted, NewChunk(w))
  /\ IF upSize + arg[w] >= UpPack
     THEN Flush(w, Append(upQueue, NewChunk(w)), "writing")
     ELSE /\ upQueue' = Append(upQueue, NewChunk(w))
          /\ upSize' = upSize + arg[w]
          /\ Rearm
          /\ Unlock(w)
          /\ UNCHANGED <<buf, lost>>
  /\ UNCHANGED <<arg, closed, deadErr, deadCh, broken, callbacks, wire,
                 recvVars>>

\* The websocket took the message.
WsWriteOk(g) ==
  /\ pc[g] \in {"flushing", "writing"}
  /\ ~broken
  /\ wire' = wire \o buf
  /\ buf' = <<>>
  /\ IF pc[g] = "flushing"
     THEN Goto(g, "flushed") /\ UNCHANGED upMu
     ELSE Unlock(g)
  /\ UNCHANGED <<arg, closed, deadErr, deadCh, broken, upVars, callbacks,
                 accepted, lost, recvVars>>

\* The websocket failed, after the first n chunks of the message if it was
\* usable so far; it refuses every later write.
WsWriteFail(g) ==
  /\ pc[g] \in {"flushing", "writing"}
  /\ \E n \in 0 .. Len(buf) :
       /\ broken => n = 0
       /\ wire' = wire \o SubSeq(buf, 1, n)
       /\ lost' = lost \o SubSeq(buf, n + 1, Len(buf))
  /\ buf' = <<>>
  /\ broken' = TRUE
  /\ Blame("write")
  /\ Goto(g, "signalLocked")
  /\ UNCHANGED <<arg, closed, deadCh, upMu, upVars, callbacks, accepted,
                 recvVars>>

\* The rest of signalDead, and the unlock of upMu it is called under.
SignalLocked(g) ==
  /\ pc[g] = "signalLocked"
  /\ deadCh' = TRUE
  /\ Unlock(g)
  /\ UNCHANGED <<arg, closed, deadErr, broken, upVars, callbacks, buf,
                 accepted, wire, lost, recvVars>>
-----------------------------------------------------------------------------
(* The chunk timer *)

TimerFire ==
  /\ timer = "armed"
  /\ timer' = "fired"
  /\ callbacks' = callbacks + 1
  /\ UNCHANGED <<pc, arg, closed, deadErr, deadCh, broken, upMu, upQueue,
                 upSize, buf, accepted, wire, lost, recvVars>>

\* A callback gets upMu: it flushes whatever is queued by then.
TimerFlush ==
  /\ callbacks > 0
  /\ upMu = Nobody
  /\ callbacks' = callbacks - 1
  /\ IF upSize = 0
     THEN UNCHANGED <<pc, upMu, upVars, buf, lost>>
     ELSE Flush(Timer, upQueue, "writing")
  /\ UNCHANGED <<arg, closed, deadErr, deadCh, broken, accepted, wire, recvVars>>
-----------------------------------------------------------------------------
(* Close *)

\* The compare-and-swap: the second caller returns net.ErrClosed.
CloseCall(c) ==
  /\ pc[c] = "idle"
  /\ Goto(c, IF closed THEN "returned" ELSE "lock")
  /\ closed' = TRUE
  /\ UNCHANGED <<arg, deadErr, deadCh, broken, upMu, upVars, callbacks, buf,
                 accepted, wire, lost, recvVars>>

\* The flush of Close, which the mark it just set makes fail.
CloseFlush(c) ==
  /\ pc[c] = "lock"
  /\ upMu = Nobody
  /\ IF upSize = 0
     THEN /\ Goto(c, "wsClose")
          /\ UNCHANGED <<deadErr, upMu, upVars, buf, lost>>
     ELSE /\ Flush(c, upQueue, "writing")
          /\ IF closed THEN Blame("ErrClosed") ELSE UNCHANGED deadErr
  /\ UNCHANGED <<arg, closed, deadCh, broken, callbacks, accepted, wire, recvVars>>

\* Mutants: without an error nothing is signalled; the websocket stays open.
CloseWsSignalsErrors(c) ==
  /\ pc[c] = "wsClose"
  /\ broken' = TRUE
  /\ \/ Blame("close") /\ Goto(c, "signal")
     \/ UNCHANGED deadErr /\ Goto(c, "returned")
  /\ UNCHANGED <<arg, closed, deadCh, upMu, upVars, callbacks, buf, accepted,
                 wire, lost, recvVars>>
CloseWsForgotten(c) ==
  /\ pc[c] = "wsClose"
  /\ Blame("EOF")
  /\ Goto(c, "signal")
  /\ UNCHANGED <<arg, closed, deadCh, broken, upMu, upVars, callbacks, buf,
                 accepted, wire, lost, recvVars>>

\* The websocket is closed, then signalDead with its error or io.EOF.
CloseWs(c) ==
  /\ pc[c] = "wsClose"
  /\ broken' = TRUE
  /\ \E err \in {"EOF", "close"} : Blame(err)
  /\ Goto(c, "signal")
  /\ UNCHANGED <<arg, closed, deadCh, upMu, upVars, callbacks, buf, accepted,
                 wire, lost, recvVars>>

\* The rest of signalDead, for the failed flush and for the closed websocket.
CloseSignal(c) ==
  /\ pc[c] \in {"signalFlush", "signal"}
  /\ deadCh' = TRUE
  /\ Goto(c, IF pc[c] = "signal" THEN "returned" ELSE "wsClose")
  /\ UNCHANGED <<arg, closed, deadErr, broken, upMu, upVars, callbacks, buf,
                 accepted, wire, lost, recvVars>>
-----------------------------------------------------------------------------
(* Read *)

\* Read up to readMu.Lock.
ReadCall(r) ==
  /\ pc[r] = "idle"
  /\ ~closed
  /\ Goto(r, "readLock")
  /\ UNCHANGED <<arg, closed, deadErr, deadCh, broken, upMu, upVars, callbacks,
                 buf, accepted, wire, lost, recvVars>>

\* The reader gets readMu; closed is not read again.
ReadLock(r) ==
  /\ pc[r] = "readLock"
  /\ readMu = Nobody
  /\ readMu' = r
  /\ Goto(r, "reading")
  /\ UNCHANGED <<arg, closed, deadErr, deadCh, broken, upMu, upVars, callbacks,
                 buf, accepted, wire, lost, reader, rx, arrived, got>>

\* Mutant: a text message is read, too.
AnyBody(m) == m.body

\* A message that is not binary is skipped.
Body(m) == IF m.binary THEN m.body ELSE NoMessage

\* NextReader returns the next message.
ReadMessage(r) ==
  /\ pc[r] = "reading"
  /\ reader = NoMessage
  /\ rx # <<>>
  /\ rx' = Tail(rx)
  /\ reader' = Body(Head(rx))
  /\ UNCHANGED <<sendVars, deadErr, deadCh, broken, readMu, arrived, got>>

\* The message has been read to its end: the loop asks for the next one.
ReadEnd(r) ==
  /\ pc[r] = "reading"
  /\ reader = <<>>
  /\ reader' = NoMessage
  /\ UNCHANGED <<sendVars, deadErr, deadCh, broken, readMu, rx, arrived, got>>

\* Read returns n pieces of the message.
ReadSome(r) ==
  /\ pc[r] = "reading"
  /\ reader \notin {NoMessage, <<>>}
  /\ \E n \in 1 .. Len(reader) :
       /\ got' = got \o SubSeq(reader, 1, n)
       /\ reader' = SubSeq(reader, n + 1, Len(reader))
  /\ readMu' = Nobody
  /\ Goto(r, "idle")
  /\ UNCHANGED <<arg, closed, deadErr, deadCh, broken, upMu, upVars, callbacks,
                 buf, accepted, wire, lost, rx, arrived>>

\* NextReader, or the read inside a message, fails.
ReadFail(r) ==
  /\ pc[r] = "reading"
  /\ broken
  /\ Blame("read")
  /\ Goto(r, "signalRead")
  /\ UNCHANGED <<arg, closed, deadCh, broken, upMu, upVars, callbacks, buf,
                 accepted, wire, lost, recvVars>>

\* The rest of signalDead, and the unlock of readMu it is called under.
ReadSignal(r) ==
  /\ pc[r] = "signalRead"
  /\ deadCh' = TRUE
  /\ readMu' = Nobody
  /\ Goto(r, "idle")
  /\ UNCHANGED <<arg, closed, deadErr, broken, upMu, upVars, callbacks, buf,
                 accepted, wire, lost, reader, rx, arrived, got>>
-----------------------------------------------------------------------------
(* The websocket *)

\* A message arrives; its pieces are numbered.
Arrive ==
  /\ ~broken
  /\ Len(arrived) < MaxFrames
  /\ \E n \in FrameSizes, binary \in BOOLEAN :
       LET m == [binary |-> binary,
                 body |-> [i \in 1 .. n |-> <<Len(arrived) + 1, i>>]]
       IN  /\ rx' = Append(rx, m)
           /\ arrived' = Append(arrived, m)
  /\ UNCHANGED <<sendVars, deadErr, deadCh, broken, readMu, reader, got>>

\* The connection fails, or its owner closes the websocket underneath.
WsBreak ==
  /\ ~broken
  /\ broken' = TRUE
  /\ UNCHANGED <<sendVars, deadErr, deadCh, recvVars>>

WriteStep(w) ==
  WriteCall(w) \/ WriteFlush(w) \/ WriteDirect(w) \/ WriteEnqueue(w)

WsWrite(g) == WsWriteOk(g) \/ WsWriteFail(g) \/ SignalLocked(g)

CloseStep(c) == CloseCall(c) \/ CloseFlush(c) \/ CloseWs(c) \/ CloseSignal(c)

ReadStep(r) ==
  \/ ReadCall(r) \/ ReadLock(r) \/ ReadMessage(r) \/ ReadEnd(r)
  \/ ReadSome(r) \/ ReadFail(r) \/ ReadSignal(r)

Next ==
  \/ \E w \in Writers : WriteStep(w)
  \/ \E g \in Goroutines : WsWrite(g)
  \/ TimerFire \/ TimerFlush
  \/ \E c \in Closers : CloseStep(c)
  \/ \E r \in Readers : ReadStep(r)
  \/ Arrive \/ WsBreak

Spec == Init /\ [][Next]_vars

\* The runtime fires timers and hands a mutex to everyone who waits for it;
\* a websocket write returns, if only because the connection breaks.  Nobody
\* has to call Write, Read or Close, and nothing has to arrive or fail.
Fairness ==
  /\ WF_vars(TimerFire)
  /\ SF_vars(TimerFlush)
  /\ \A w \in Writers : SF_vars(WriteFlush(w) \/ WriteDirect(w) \/ WriteEnqueue(w))
  /\ \A g \in Goroutines : WF_vars(WsWrite(g))
  /\ \A c \in Closers : /\ SF_vars(CloseFlush(c))
                        /\ WF_vars(CloseWs(c) \/ CloseSignal(c))
  /\ \A r \in Readers :
       SF_vars(ReadLock(r)) /\ WF_vars(ReadMessage(r) \/ ReadEnd(r) \/ ReadSome(r) \/ ReadFail(r) \/ ReadSignal(r))

FairSpec == Spec /\ Fairness
-----------------------------------------------------------------------------
(* Invariants *)

Places == {"idle", "lock", "flushing", "flushed", "writing", "signalLocked",
           "signalFlush", "wsClose", "signal", "returned", "readLock",
           "reading", "signalRead"}

\* Every variable has its type.
TypeOK ==
  /\ pc \in [Goroutines -> Places]
  /\ arg \in [Writers -> WriteSizes \cup {0}]
  /\ closed \in BOOLEAN /\ deadCh \in BOOLEAN /\ broken \in BOOLEAN
  /\ deadErr \in Errors \cup {NoErr}
  /\ upMu \in Goroutines \cup {Nobody}
  /\ upQueue \in Seq(Chunk) /\ buf \in Seq(Chunk)
  /\ upSize \in Nat /\ callbacks \in Nat
  /\ timer \in {"none", "armed", "fired"}
  /\ accepted \in Seq(Chunk) /\ wire \in Seq(Chunk) /\ lost \in Seq(Chunk)
  /\ readMu \in Readers \cup {Nobody}
  /\ reader \in Seq(Piece) \cup {NoMessage}
  /\ rx \in Seq(Message) /\ arrived \in Seq(Message)
  /\ got \in Seq(Piece)

\* The bytes of chunks, each by the number of its chunk.
Bytes(q) == FlattenSeq([i \in DOMAIN q |-> [b \in 1 .. q[i].len |-> q[i].id]])

\* upSize, which flushLocked trusts to size the message it sends, is the
\* number of bytes in upQueue.
SizeExact == upSize = Len(Bytes(upQueue))

\* Between two calls the queue is below the flush threshold and never above
\* max_queue_bytes.
QueueBounded ==
  /\ upSize <= MaxQueue
  /\ upMu = Nobody => upSize < UpPack

\* Queued bytes do not wait for a caller: with upMu free, the timer is armed
\* or a callback is on its way to the queue.
NoneStranded ==
  upMu = Nobody /\ upQueue # <<>> => timer = "armed" \/ callbacks > 0

\* Until Close is called, what is on the wire is the beginning of what was
\* accepted, and as long as the websocket works the rest is still in hand.
Lossless ==
  ~closed =>
    /\ IsPrefix(wire, accepted)
    /\ ~broken => accepted = wire \o buf \o upQueue

\* No chunk overtakes another or is sent twice, whatever fails or closes.
InOrder == \A i, j \in DOMAIN wire : i < j => wire[i].id < wire[j].id

\* A chunk a caller was told is written is sent, in hand, or known to be lost:
\* then the connection is closed or DeadErr says why it failed.
LossReported ==
  /\ Len(accepted) = Len(wire) + Len(buf) + Len(upQueue) + Len(lost)
  /\ lost # <<>> => closed \/ deadErr # NoErr

\* Whoever is woken by Dead() finds a reason in DeadErr(), and the reason
\* never changes afterwards.
DeadReasonFixed ==
  [][deadCh => deadErr # NoErr /\ deadErr' = deadErr]_vars

BinaryPieces(msgs) ==
  FlattenSeq([i \in DOMAIN msgs |-> IF msgs[i].binary THEN msgs[i].body ELSE <<>>])

\* Read hands out the pieces of the binary messages, in order, all of them,
\* wherever the calls cut them and whatever text messages come in between.
ReadStream ==
  BinaryPieces(arrived) =
    got \o (IF reader = NoMessage THEN <<>> ELSE reader) \o BinaryPieces(rx)
-----------------------------------------------------------------------------
(* Liveness and refinement *)

\* Accepted data leaves the queue without any further call.
QueueDrains == (upQueue # <<>>) ~> (upQueue = <<>>)

\* A Close that was called returns, and everyone waiting on Dead() is woken.
CloseCompletes ==
  /\ closed ~> deadCh
  /\ \A c \in Closers : (pc[c] = "lock") ~> (pc[c] = "returned")

\* Close releases the readers blocked in the websocket or behind one that is.
CloseReleasesReaders ==
  \A r \in Readers : (closed /\ pc[r] \in {"readLock", "reading"}) ~> (pc[r] = "idle")

\* The connection is a byte stream that is up until closed or broken.
Stream == INSTANCE ByteStream
            WITH Data <- Chunk, waiting <- buf \o upQueue,
                 up <- ~closed /\ ~broken
ImplementsStream == Stream!Spec
=============================================================================
