---------------------------- MODULE DnAggregator ----------------------------
(***************************************************************************)
(* The downlink aggregator (internal/transport/dnagg.go): the loop of      *)
(* ProxyConnStream queues what it reads, and a goroutine, the flusher,     *)
(* writes the queue to the stream in one piece when it is large enough or  *)
(* a timer has run out.  Nothing in the repository calls it, and           *)
(* flushLocked, which Write calls, is not in the source: FlushOver takes   *)
(* it to write the queue out under the lock, or to fail.                   *)
(***************************************************************************)
EXTENDS Integers, Sequences, SequencesExt

CONSTANTS
  DnPack,          \* dnPack: write at this many bytes
  DnTail,          \* dnTail: or when fewer than this many are missing
  DnQr,            \* dnQr: or at this many chunks
  Low,             \* low: or at this many bytes when the timer runs out
  MaxQueue,        \* maxQueue: the limit of the queue in bytes
  Sizes,           \* the sizes of chunks
  MaxChunks        \* bound: chunks

ASSUME DnAssumption ==
  /\ {DnPack, DnTail, DnQr, Low, MaxQueue} \subseteq Nat \ {0}
  /\ Sizes \subseteq Nat \ {0} /\ MaxChunks \in Nat

VARIABLES
  writer,          \* ProxyConnStream: read, signal, direct, close, stop, wait, over
  direct,          \* the chunk writeDirect has in hand, as a sequence
  flusher,         \* top, sleep, wait, select, write, last or done
  copy,            \* the queue the flusher writes
  qr,              \* the flusher's qr
  queue,           \* queue: the numbers of the chunks
  total,           \* total
  closed,          \* closed
  stop,            \* stopCh is closed
  size,            \* the size of each chunk given to Write
  wire,            \* history: what was written to the stream
  during,          \* history: chunks queued while the flusher wrote
  overlap,         \* history: Write wrote to the stream while the flusher did
  failed,          \* history: a write of the aggregator failed
  missed           \* history: a wake-up the flusher was not there for

shared == <<queue, total, closed>>
flusherVars == <<flusher, copy, qr>>
history == <<during, overlap, failed, missed>>
vars == <<writer, direct, flusherVars, shared, stop, size, wire, history>>

Init ==
  /\ writer = "read" /\ direct = <<>>
  /\ flusher = "top" /\ copy = <<>> /\ qr = 0
  /\ queue = <<>> /\ total = 0 /\ closed = FALSE /\ stop = FALSE
  /\ size = <<>> /\ wire = <<>>
  /\ during = {} /\ overlap = FALSE /\ failed = FALSE /\ missed = FALSE

\* The flusher holds mu between its check and cond.Wait.
Free == flusher # "sleep"
Writing == flusher \in {"write", "last"}
Enough(n, bytes) == bytes >= DnPack \/ n >= DnQr
-----------------------------------------------------------------------------
(* Write *)

\* Mutant: the signal is left to the timer.
NoSignal(n, bytes) == "read"

\* Where the writer goes after it has queued a chunk.
AfterQueueing(n, bytes) == IF Enough(n, bytes) THEN "signal" ELSE "read"

Enqueue(old, oldTotal, s) ==
  /\ size' = Append(size, s)
  /\ queue' = Append(old, Len(size) + 1)
  /\ total' = oldTotal + s
  /\ writer' = AfterQueueing(Len(old) + 1, oldTotal + s)
  /\ during' = IF Writing THEN during \cup {Len(size) + 1} ELSE during
  /\ UNCHANGED direct

Fits(s) == total + s <= MaxQueue

\* ProxyConnStream reads a chunk of s bytes and gives it to Write.
CanWrite(s) ==
  /\ writer = "read" /\ Free /\ ~closed
  /\ Len(size) < MaxChunks

Write(s) ==
  /\ CanWrite(s) /\ Fits(s)
  /\ Enqueue(queue, total, s)
  /\ UNCHANGED <<flusherVars, closed, stop, wire, overlap, failed, missed>>

\* Over the limit: flushLocked, then the chunk goes to the stream by itself or
\* into the empty queue.
FlushOver(s) ==
  /\ CanWrite(s) /\ ~Fits(s)
  /\ wire' = wire \o queue
  /\ overlap' = (overlap \/ (Writing /\ queue # <<>>))
  /\ IF s >= DnPack \/ s > MaxQueue
     THEN /\ queue' = <<>> /\ total' = 0
          /\ size' = Append(size, s) /\ direct' = <<Len(size) + 1>>
          /\ writer' = "direct"
          /\ UNCHANGED during
     ELSE Enqueue(<<>>, 0, s)
  /\ UNCHANGED <<flusherVars, closed, stop, failed, missed>>

\* The chunk is refused: flushLocked failed, or the aggregator is closed.
WriteFails ==
  /\ writer = "read" /\ Free
  /\ closed \/ (\E s \in Sizes : CanWrite(s) /\ ~Fits(s))
  /\ writer' = "close"
  /\ UNCHANGED <<direct, flusherVars, shared, stop, size, wire, history>>

\* cond.Signal: it wakes the flusher if that waits.
Wake == flusher' = IF flusher = "wait" THEN "top" ELSE flusher

Signal ==
  /\ writer = "signal"
  /\ Wake
  /\ writer' = "read"
  /\ UNCHANGED <<direct, copy, qr, shared, stop, size, wire, history>>

WriteDirect ==
  /\ writer = "direct"
  /\ wire' = wire \o direct
  /\ overlap' = (overlap \/ Writing)
  /\ direct' = <<>>
  /\ writer' = "read"
  /\ UNCHANGED <<flusherVars, shared, stop, size, during, failed, missed>>

\* closed is set without the lock and without a signal.
WriteDirectFails ==
  /\ writer = "direct"
  /\ closed' = TRUE /\ failed' = TRUE
  /\ direct' = <<>>
  /\ writer' = "close"
  /\ missed' = (missed \/ flusher \in {"sleep", "wait"})
  /\ UNCHANGED <<flusherVars, queue, total, stop, size, wire, during, overlap>>

\* The connection that ProxyConnStream reads from ends.
ReadFails ==
  /\ writer = "read"
  /\ writer' = "close"
  /\ UNCHANGED <<direct, flusherVars, shared, stop, size, wire, history>>
-----------------------------------------------------------------------------
(* Close *)

CloseMark ==
  /\ writer = "close"
  /\ closed' = TRUE
  /\ writer' = IF closed THEN "over" ELSE "stop"
  /\ UNCHANGED <<direct, flusherVars, queue, total, stop, size, wire, history>>

\* Mutant: stopCh is closed, and nobody waiting for the queue is told.
CloseQuietly ==
  /\ writer = "stop"
  /\ stop' = TRUE
  /\ writer' = "wait"
  /\ UNCHANGED <<direct, flusherVars, shared, size, wire, history>>

\* The signal comes without the lock: between the flusher's check of closed and
\* its cond.Wait nobody receives it.
CloseSignal ==
  /\ writer = "stop"
  /\ stop' = TRUE
  /\ Wake
  /\ missed' = (missed \/ flusher = "sleep")
  /\ writer' = "wait"
  /\ UNCHANGED <<direct, copy, qr, shared, size, wire, during, overlap, failed>>

CloseReturns ==
  /\ writer = "wait" /\ flusher = "done"
  /\ writer' = "over"
  /\ UNCHANGED <<direct, flusherVars, shared, stop, size, wire, history>>
-----------------------------------------------------------------------------
(* The flusher *)

\* The flusher goes on to pc with r in qr; what it will write is copied now.
Move(pc, r) ==
  /\ flusher' = pc
  /\ qr' = r
  /\ copy' = IF pc \in {"write", "last"} THEN queue ELSE copy
  /\ UNCHANGED <<writer, direct, shared, stop, size, wire, history>>

Look ==
  /\ flusher = "top"
  /\ \/ queue = <<>> /\ closed /\ Move("done", qr)
     \/ queue = <<>> /\ ~closed /\ Move("sleep", qr)
     \/ /\ queue # <<>>
        /\ IF Enough(Len(queue), total) \/ DnPack - total < DnTail
           THEN Move("write", qr) ELSE Move("select", 0)

Sleep == flusher = "sleep" /\ Move("wait", qr)

\* The timer of chunkMs.  qr is back at 0 before it is looked at again.
TimerFires ==
  /\ flusher = "select"
  /\ \/ queue = <<>> /\ Move("top", qr)
     \/ /\ queue # <<>>
        /\ IF closed \/ Enough(Len(queue), total) \/ total >= Low
             \/ qr >= DnQr \/ qr + 1 >= DnQr
           THEN Move("write", qr) ELSE Move("top", qr + 1)

\* Mutant: what is left is not written.
StopSeenDrop ==
  /\ flusher = "select" /\ stop
  /\ Move("done", qr)

StopSeen ==
  /\ flusher = "select" /\ stop
  /\ Move(IF queue = <<>> THEN "done" ELSE "last", qr)

AfterWriting == IF flusher = "last" THEN "done" ELSE "top"

\* Mutant: the queue keeps what has been written.
EmptyLater == UNCHANGED <<queue, total>>

\* The whole queue is emptied, whatever has come since the copy.
Empty == queue' = <<>> /\ total' = 0

WriteQueue ==
  /\ Writing
  /\ wire' = wire \o copy
  /\ Empty
  /\ flusher' = AfterWriting /\ qr' = 0 /\ copy' = <<>>
  /\ UNCHANGED <<writer, direct, closed, stop, size, history>>

\* A part of it may be on its way.
WriteQueueFails ==
  /\ Writing
  /\ \E n \in 0 .. Len(copy) : wire' = wire \o SubSeq(copy, 1, n)
  /\ closed' = TRUE /\ failed' = TRUE
  /\ Empty
  /\ flusher' = AfterWriting /\ qr' = 0 /\ copy' = <<>>
  /\ UNCHANGED <<writer, direct, stop, size, during, overlap, missed>>

WriterEnds == WriteFails \/ WriteDirectFails \/ ReadFails
Flusher == Look \/ Sleep \/ TimerFires \/ StopSeen \/ WriteQueue \/ WriteQueueFails

Next ==
  \/ \E s \in Sizes : Write(s) \/ FlushOver(s)
  \/ Signal \/ WriteDirect \/ WriterEnds
  \/ CloseMark \/ CloseSignal \/ CloseReturns
  \/ Flusher

Spec == Init /\ [][Next]_vars

\* Writes to the stream return; the source of the chunks may be quiet forever.
FairSpec ==
  /\ Spec
  /\ WF_vars(Signal \/ WriteDirect \/ WriteDirectFails)
  /\ WF_vars(CloseMark \/ CloseSignal \/ CloseReturns)
  /\ WF_vars(Flusher)
-----------------------------------------------------------------------------
(* Properties *)

\* Unless a write fails, a chunk that Write took is on the wire or still on its
\* way, also when the aggregator is closed, with one exception: a chunk that
\* came while the flusher was writing goes with the queue.
LossExplained ==
  failed \/ \A c \in DOMAIN size :
    c \in ToSet(wire) \cup ToSet(direct) \cup during
           \cup (IF flusher = "done" THEN {} ELSE ToSet(queue))

\* Chunks are written in order and once, unless Write wrote at the limit while
\* the flusher was writing the same queue.
InOrder ==
  overlap \/ \A i, j \in DOMAIN wire : i < j => wire[i] < wire[j]

\* A queue that is large enough is written without waiting for another chunk:
\* the signal sent after the unlock is never too early for the flusher.
BatchIsSent ==
  \A c \in 1 .. MaxChunks :
    c \in ToSet(queue) /\ Enough(Len(queue), total) ~> c \notin ToSet(queue)

\* When ProxyConnStream's loop ends, Close returns and the flusher ends, but
\* for one that missed its wake-up: Close can signal before the flusher waits,
\* and writeDirect, when it fails, signals nobody.
FlusherEnds == writer = "close" ~> (writer = "over" /\ flusher = "done") \/ missed
=============================================================================
