-------------------------- MODULE WSNetConn_proofs --------------------------
(***************************************************************************)
(* The safety properties of WSNetConn, proved for any number of            *)
(* goroutines and any queue limits.                                        *)
(***************************************************************************)
EXTENDS WSNetConn, SeqLemmas, TLAPS

\* The places at which a goroutine holds upMu.
Holding == {"flushing", "flushed", "writing", "signalLocked"}

\* A writer past the entry of Write has the length of its argument.
ArgSet == \A w \in Writers : pc[w] # "idle" => arg[w] \in WriteSizes

\* upMu excludes.
Mutex == \A g \in Goroutines : upMu = g <=> pc[g] \in Holding

\* Whoever keeps upMu over a step has emptied the queue before.
EmptiedByOwner == upMu # Nobody => upQueue = <<>> /\ upSize = 0

\* A message is being written only by the owner of upMu.
BufOwned == buf # <<>> => upMu # Nobody /\ pc[upMu] \in {"flushing", "writing"}

\* Every queued chunk counts.
SizeZero == upSize = 0 <=> upQueue = <<>>

\* Who owns what, and how much of it: the first part of the inductive
\* invariant.
OwnInv ==
  /\ TypeOK /\ ArgSet /\ Mutex /\ EmptiedByOwner /\ BufOwned /\ SizeZero
  /\ QueueBounded /\ NoneStranded
-----------------------------------------------------------------------------
LEMMA SizesPositive == \A n \in WriteSizes : n \in Nat /\ n > 0
  BY SizesAssumption

LEMMA NewChunkTyped ==
  ASSUME TypeOK, NEW w \in Writers, arg[w] \in WriteSizes, InQueue(w)
  PROVE  NewChunk(w) \in Chunk
  <1>1. MaxWrites \in Nat /\ Len(accepted) \in Nat
    BY SizesAssumption DEF TypeOK
  <1>2. Len(accepted) + 1 \in 1 .. MaxWrites
    BY <1>1 DEF InQueue
  <1> QED
    BY <1>2 DEF NewChunk, Chunk

LEMMA InitTypeOK == Init => TypeOK
  <1> SUFFICES ASSUME Init PROVE TypeOK
    OBVIOUS
  <1>1. pc \in [Goroutines -> Places] /\ arg \in [Writers -> WriteSizes \cup {0}]
    BY DEF Init, Places
  <1>2. deadErr \in Errors \cup {NoErr}
    BY DEF Init
  <1>3. <<>> \in Seq(Chunk) /\ <<>> \in Seq(Piece) /\ <<>> \in Seq(Message)
    OBVIOUS
  <1>4. upMu \in Goroutines \cup {Nobody} /\ readMu \in Readers \cup {Nobody}
    BY DEF Init
  <1> QED
    BY <1>1, <1>2, <1>3, <1>4 DEF Init, TypeOK

\* The types after a flush.
FlushTyped ==
  /\ pc' \in [Goroutines -> Places]
  /\ upMu' \in Goroutines \cup {Nobody}
  /\ upQueue' = <<>> /\ upSize' = 0 /\ timer' = "none"
  /\ buf' \in Seq(Chunk) /\ lost' \in Seq(Chunk)

LEMMA FlushTypes ==
  ASSUME TypeOK, NEW g \in Goroutines, NEW q \in Seq(Chunk),
         NEW next \in {"flushing", "writing"}, Flush(g, q, next)
  PROVE  FlushTyped
  <1>1. lost \o q \in Seq(Chunk)
    BY ConcatProperties DEF TypeOK
  <1> QED
    BY <1>1 DEF FlushTyped, TypeOK, Flush, EmptyQueue, Goto, Places

LEMMA NextTypeOK == TypeOK /\ ArgSet /\ [Next]_vars => TypeOK'
  <1> SUFFICES ASSUME TypeOK, ArgSet, [Next]_vars PROVE TypeOK'
    OBVIOUS
  <1>1. ASSUME NEW w \in Writers, WriteCall(w) PROVE TypeOK'
    BY <1>1 DEF WriteCall, Goto, TypeOK, Places, Goroutines, upVars, sendVars, recvVars
  <1>2. ASSUME NEW w \in Writers, WriteFlush(w) PROVE TypeOK'
    <2>1. Flush(w, upQueue, "flushing")
      BY <1>2 DEF WriteFlush, FlushFirst
    <2>2. upQueue \in Seq(Chunk) /\ w \in Goroutines
      BY DEF TypeOK, Goroutines
    <2>3. FlushTyped
      BY <2>1, <2>2, FlushTypes
    <2> QED
      BY <1>2, <2>3 DEF FlushTyped, WriteFlush, FlushFirst, TypeOK, Places, Goroutines, recvVars
  <1>3. ASSUME NEW w \in Writers, WriteDirect(w) PROVE TypeOK'
    <2>1. arg[w] \in WriteSizes /\ InQueue(w)
      BY <1>3 DEF WriteDirect, FlushFirst, InQueue, ArgSet
    <2>2. NewChunk(w) \in Chunk
      BY <2>1, NewChunkTyped
    <2>3. Append(accepted, NewChunk(w)) \in Seq(Chunk) /\ <<NewChunk(w)>> \in Seq(Chunk)
      BY <2>2 DEF TypeOK
    <2> QED
      BY <1>3, <2>3 DEF WriteDirect, FlushFirst, Goto, TypeOK, Places, Goroutines, upVars, recvVars
  <1>4. ASSUME NEW w \in Writers, WriteEnqueue(w) PROVE TypeOK'
    <2>1. NewChunk(w) \in Chunk
      <3>1. arg[w] \in WriteSizes /\ InQueue(w)
        BY <1>4 DEF WriteEnqueue, FlushFirst, Rearm, InQueue, ArgSet
      <3> QED
        BY <3>1, NewChunkTyped
    <2>2. /\ Append(upQueue, NewChunk(w)) \in Seq(Chunk)
          /\ Append(accepted, NewChunk(w)) \in Seq(Chunk)
      BY <2>1 DEF TypeOK
    <2>3. CASE upSize + arg[w] >= UpPack
      <3>1. Flush(w, Append(upQueue, NewChunk(w)), "writing")
        BY <1>4, <2>3 DEF WriteEnqueue, FlushFirst, Rearm
      <3>2. w \in Goroutines
        BY DEF Goroutines
      <3>3. FlushTyped
        BY <2>2, <3>1, <3>2, FlushTypes
      <3> QED
        BY <1>4, <2>2, <3>3
        DEF FlushTyped, WriteEnqueue, FlushFirst, Rearm, TypeOK, Places, Goroutines, recvVars
    <2>4. CASE ~(upSize + arg[w] >= UpPack)
      <3>1. upSize \in Nat /\ arg[w] \in WriteSizes
        BY <1>4 DEF WriteEnqueue, FlushFirst, Rearm, InQueue, ArgSet, TypeOK
      <3>2. upSize' \in Nat
        <4>1. upSize' = upSize + arg[w]
          BY <1>4, <2>4 DEF WriteEnqueue, FlushFirst, Rearm
        <4> QED
          BY <3>1, <4>1, SizesPositive
      <3>3. pc' \in [Goroutines -> Places] /\ upMu' \in Goroutines \cup {Nobody}
        BY <1>4, <2>4 DEF WriteEnqueue, FlushFirst, Rearm, Unlock, Goto, TypeOK, Places, Goroutines
      <3> QED
        BY <1>4, <2>2, <2>4, <3>2, <3>3 DEF WriteEnqueue, FlushFirst, Rearm, TypeOK, recvVars
    <2> QED
      BY <2>3, <2>4
  <1>5. ASSUME NEW g \in Goroutines, WsWriteOk(g) PROVE TypeOK'
    <2>1. wire \o buf \in Seq(Chunk)
      BY ConcatProperties DEF TypeOK
    <2>2. pc' \in [Goroutines -> Places] /\ upMu' \in Goroutines \cup {Nobody}
      BY <1>5 DEF WsWriteOk, Unlock, Goto, TypeOK, Places, Goroutines
    <2> QED
      BY <1>5, <2>1, <2>2 DEF WsWriteOk, TypeOK, upVars, recvVars
  <1>6. ASSUME NEW g \in Goroutines, WsWriteFail(g) PROVE TypeOK'
    <2>1. pc' \in [Goroutines -> Places] /\ deadErr' \in Errors \cup {NoErr}
      BY <1>6 DEF WsWriteFail, Blame, Goto, TypeOK, Places, Errors
    <2> QED
      BY <1>6, <2>1 DEF WsWriteFail, TypeOK, upVars, sendVars, recvVars
  <1>7. ASSUME NEW g \in Goroutines, SignalLocked(g) PROVE TypeOK'
    BY <1>7 DEF SignalLocked, Unlock, Goto, TypeOK, Places, Goroutines, upVars, sendVars, recvVars
  <1>8. CASE TimerFire
    BY <1>8 DEF TimerFire, TypeOK, Places, Goroutines, upVars, sendVars, recvVars
  <1>9. CASE TimerFlush
    <2>1. CASE upSize = 0
      BY <1>9, <2>1 DEF TimerFlush, TypeOK, Places, Goroutines, upVars, recvVars
    <2>2. CASE upSize # 0
      <3>1. Flush(Timer, upQueue, "writing")
        BY <1>9, <2>2 DEF TimerFlush
      <3>2. upQueue \in Seq(Chunk) /\ Timer \in Goroutines
        BY DEF TypeOK, Goroutines
      <3>3. FlushTyped
        BY <3>1, <3>2, FlushTypes
      <3>4. callbacks' \in Nat
        BY <1>9 DEF TimerFlush, TypeOK
      <3> QED
        BY <1>9, <3>3, <3>4 DEF FlushTyped, TimerFlush, TypeOK, Places, Goroutines, recvVars
    <2> QED
      BY <2>1, <2>2
  <1>10. ASSUME NEW c \in Closers, CloseCall(c) PROVE TypeOK'
    BY <1>10 DEF CloseCall, Goto, TypeOK, Places, Goroutines, upVars, sendVars, recvVars
  <1>11. ASSUME NEW c \in Closers, CloseFlush(c) PROVE TypeOK'
    <2>1. CASE upSize = 0
      BY <1>11, <2>1 DEF CloseFlush, Goto, TypeOK, Places, Goroutines, upVars, recvVars
    <2>2. CASE upSize # 0
      <3>1. Flush(c, upQueue, "writing")
        BY <1>11, <2>2 DEF CloseFlush
      <3>2. deadErr' \in Errors \cup {NoErr}
        BY <1>11, <2>2 DEF CloseFlush, Blame, Errors, TypeOK
      <3>3. upQueue \in Seq(Chunk) /\ c \in Goroutines
        BY DEF TypeOK, Goroutines
      <3>4. FlushTyped
        BY <3>1, <3>3, FlushTypes
      <3> QED
        BY <1>11, <3>2, <3>4
        DEF FlushTyped, CloseFlush, TypeOK, Places, Goroutines, recvVars
    <2> QED
      BY <2>1, <2>2
  <1>12. ASSUME NEW c \in Closers, CloseWs(c) PROVE TypeOK'
    BY <1>12 DEF CloseWs, Blame, Goto, TypeOK, Places, Goroutines, upVars, sendVars, recvVars, Errors, NoErr
  <1>13. ASSUME NEW c \in Closers, CloseSignal(c) PROVE TypeOK'
    BY <1>13 DEF CloseSignal, Goto, TypeOK, Places, Goroutines, upVars, sendVars, recvVars
  <1>14. ASSUME NEW r \in Readers, ReadCall(r) PROVE TypeOK'
    BY <1>14 DEF ReadCall, Goto, TypeOK, Places, Goroutines, upVars, sendVars, recvVars
  <1>15. ASSUME NEW r \in Readers, ReadLock(r) PROVE TypeOK'
    BY <1>15 DEF ReadLock, Goto, TypeOK, Places, Goroutines, upVars, sendVars, recvVars
  <1>16. ASSUME NEW r \in Readers, ReadMessage(r) PROVE TypeOK'
    <2>1. Head(rx) \in Message /\ Tail(rx) \in Seq(Message)
      BY <1>16, HeadTailProperties DEF ReadMessage, Body, TypeOK
    <2>2. reader' \in Seq(Piece) \cup {NoMessage}
      BY <1>16, <2>1 DEF ReadMessage, Body, Message
    <2> QED
      BY <1>16, <2>1, <2>2 DEF ReadMessage, Body, TypeOK, sendVars
  <1>17. ASSUME NEW r \in Readers, ReadEnd(r) PROVE TypeOK'
    BY <1>17 DEF ReadEnd, TypeOK, Places, Goroutines, upVars, sendVars, recvVars
  <1>18. ASSUME NEW r \in Readers, ReadSome(r) PROVE TypeOK'
    <2>1. reader \in Seq(Piece)
      BY <1>18 DEF ReadSome, TypeOK
    <2>2. PICK n \in 1 .. Len(reader) :
            /\ got' = got \o SubSeq(reader, 1, n)
            /\ reader' = SubSeq(reader, n + 1, Len(reader))
      BY <1>18 DEF ReadSome
    <2>3. SubSeq(reader, 1, n) \in Seq(Piece) /\ reader' \in Seq(Piece)
      BY <2>1, <2>2, SubSeqProperties
    <2>4. got' \in Seq(Piece)
      BY <2>2, <2>3, ConcatProperties DEF TypeOK
    <2> QED
      BY <1>18, <2>3, <2>4 DEF ReadSome, Goto, TypeOK, Places, Goroutines, upVars
  <1>19. ASSUME NEW r \in Readers, ReadFail(r) PROVE TypeOK'
    BY <1>19 DEF ReadFail, Blame, Goto, TypeOK, Places, Goroutines, upVars, sendVars, recvVars, Errors, NoErr
  <1>20. ASSUME NEW r \in Readers, ReadSignal(r) PROVE TypeOK'
    BY <1>20 DEF ReadSignal, Goto, TypeOK, Places, Goroutines, upVars, sendVars, recvVars
  <1>21. CASE Arrive
    <2>1. PICK n \in FrameSizes, binary \in BOOLEAN :
            LET m == [binary |-> binary,
                      body |-> [i \in 1 .. n |-> <<Len(arrived) + 1, i>>]]
            IN  rx' = Append(rx, m) /\ arrived' = Append(arrived, m)
      BY <1>21 DEF Arrive
    <2> DEFINE body == [i \in 1 .. n |-> <<Len(arrived) + 1, i>>]
    <2>2. n \in Nat /\ Len(arrived) + 1 \in 1 .. MaxFrames
      <3>1. Len(arrived) \in Nat /\ n \in Nat /\ MaxFrames \in Nat
        BY SizesAssumption DEF TypeOK
      <3> QED
        BY <1>21, <3>1 DEF Arrive
    <2>3. \A i \in 1 .. n : <<Len(arrived) + 1, i>> \in Piece
      BY <2>2 DEF Piece
    <2>4. body \in Seq(Piece)
      BY <2>2, <2>3
    <2>5. [binary |-> binary, body |-> body] \in Message
      BY <2>4 DEF Message
    <2>6. rx' \in Seq(Message) /\ arrived' \in Seq(Message)
      BY <2>1, <2>5 DEF TypeOK
    <2> QED
      BY <1>21, <2>6 DEF Arrive, TypeOK, sendVars
  <1>22. CASE WsBreak
    BY <1>22 DEF WsBreak, TypeOK, Places, Goroutines, upVars, sendVars, recvVars
  <1>23. CASE UNCHANGED vars
    BY <1>23 DEF TypeOK, vars, sendVars, recvVars
  <1> QED
    BY <1>1, <1>2, <1>3, <1>4, <1>5, <1>6, <1>7, <1>8, <1>9, <1>10, <1>11, <1>12, <1>13, <1>14, <1>15, <1>16, <1>17, <1>18, <1>19, <1>20, <1>21, <1>22, <1>23
    DEF Next, WriteStep, WsWrite, CloseStep, ReadStep

LEMMA NextArgSet == TypeOK /\ ArgSet /\ [Next]_vars => ArgSet'
  <1> SUFFICES ASSUME TypeOK, ArgSet, [Next]_vars PROVE ArgSet'
    OBVIOUS
  <1>1. ASSUME NEW w \in Writers, WriteCall(w) PROVE ArgSet'
    BY <1>1 DEF WriteCall, Goto, ArgSet, TypeOK, upVars, sendVars, recvVars, Goroutines
  <1>2. ASSUME NEW w \in Writers, WriteFlush(w) PROVE ArgSet'
    BY <1>2 DEF WriteFlush, FlushFirst, Flush, EmptyQueue, InQueue, Goto, ArgSet, TypeOK, upVars, sendVars, recvVars, Goroutines
  <1>3. ASSUME NEW w \in Writers, WriteDirect(w) PROVE ArgSet'
    BY <1>3 DEF WriteDirect, FlushFirst, InQueue, OverLimit, TooLargeToQueue, NewChunk, Goto, ArgSet, TypeOK, upVars, sendVars, recvVars, Goroutines
  <1>4. ASSUME NEW w \in Writers, WriteEnqueue(w) PROVE ArgSet'
    BY <1>4 DEF WriteEnqueue, FlushFirst, Rearm, Flush, EmptyQueue, Unlock, InQueue, OverLimit, TooLargeToQueue, NewChunk, Goto, ArgSet, TypeOK, upVars, sendVars, recvVars, Goroutines
  <1>5. ASSUME NEW g \in Goroutines, WsWriteOk(g) PROVE ArgSet'
    BY <1>5 DEF WsWriteOk, Unlock, Goto, ArgSet, TypeOK, upVars, sendVars, recvVars, Goroutines
  <1>6. ASSUME NEW g \in Goroutines, WsWriteFail(g) PROVE ArgSet'
    BY <1>6 DEF WsWriteFail, Blame, Goto, ArgSet, TypeOK, upVars, sendVars, recvVars, Goroutines
  <1>7. ASSUME NEW g \in Goroutines, SignalLocked(g) PROVE ArgSet'
    BY <1>7 DEF SignalLocked, Unlock, Goto, ArgSet, TypeOK, upVars, sendVars, recvVars, Goroutines
  <1>8. CASE TimerFire
    BY <1>8 DEF TimerFire, ArgSet, TypeOK, upVars, sendVars, recvVars, Goroutines
  <1>9. CASE TimerFlush
    BY <1>9, GoroutinesAssumption DEF TimerFlush, Flush, EmptyQueue, Goto, ArgSet, TypeOK, upVars, sendVars, recvVars, Goroutines
  <1>10. ASSUME NEW c \in Closers, CloseCall(c) PROVE ArgSet'
    BY <1>10, GoroutinesAssumption DEF CloseCall, Goto, ArgSet, TypeOK, upVars, sendVars, recvVars, Goroutines
  <1>11. ASSUME NEW c \in Closers, CloseFlush(c) PROVE ArgSet'
    BY <1>11 DEF CloseFlush, Flush, EmptyQueue, Blame, Goto, ArgSet, TypeOK, upVars, sendVars, recvVars, Goroutines
  <1>12. ASSUME NEW c \in Closers, CloseWs(c) PROVE ArgSet'
    BY <1>12 DEF CloseWs, Blame, Goto, ArgSet, TypeOK, upVars, sendVars, recvVars, Goroutines
  <1>13. ASSUME NEW c \in Closers, CloseSignal(c) PROVE ArgSet'
    BY <1>13 DEF CloseSignal, Goto, ArgSet, TypeOK, upVars, sendVars, recvVars, Goroutines
  <1>14. ASSUME NEW r \in Readers, ReadCall(r) PROVE ArgSet'
    BY <1>14, GoroutinesAssumption DEF ReadCall, Goto, ArgSet, TypeOK, upVars, sendVars, recvVars, Goroutines
  <1>15. ASSUME NEW r \in Readers, ReadLock(r) PROVE ArgSet'
    BY <1>15 DEF ReadLock, Goto, ArgSet, TypeOK, upVars, sendVars, recvVars, Goroutines
  <1>16. ASSUME NEW r \in Readers, ReadMessage(r) PROVE ArgSet'
    BY <1>16 DEF ReadMessage, Body, ArgSet, TypeOK, upVars, sendVars, recvVars, Goroutines
  <1>17. ASSUME NEW r \in Readers, ReadEnd(r) PROVE ArgSet'
    BY <1>17 DEF ReadEnd, ArgSet, TypeOK, upVars, sendVars, recvVars, Goroutines
  <1>18. ASSUME NEW r \in Readers, ReadSome(r) PROVE ArgSet'
    BY <1>18 DEF ReadSome, Goto, ArgSet, TypeOK, upVars, sendVars, recvVars, Goroutines
  <1>19. ASSUME NEW r \in Readers, ReadFail(r) PROVE ArgSet'
    BY <1>19 DEF ReadFail, Blame, Goto, ArgSet, TypeOK, upVars, sendVars, recvVars, Goroutines
  <1>20. ASSUME NEW r \in Readers, ReadSignal(r) PROVE ArgSet'
    BY <1>20 DEF ReadSignal, Goto, ArgSet, TypeOK, upVars, sendVars, recvVars, Goroutines
  <1>21. CASE Arrive
    BY <1>21 DEF Arrive, ArgSet, TypeOK, upVars, sendVars, recvVars, Goroutines
  <1>22. CASE WsBreak
    BY <1>22 DEF WsBreak, ArgSet, TypeOK, upVars, sendVars, recvVars, Goroutines
  <1>23. CASE UNCHANGED vars
    BY <1>23 DEF ArgSet, TypeOK, vars, sendVars, recvVars
  <1> QED
    BY <1>1, <1>2, <1>3, <1>4, <1>5, <1>6, <1>7, <1>8, <1>9, <1>10, <1>11, <1>12, <1>13, <1>14, <1>15, <1>16, <1>17, <1>18, <1>19, <1>20, <1>21, <1>22, <1>23
    DEF Next, WriteStep, WsWrite, CloseStep, ReadStep

-----------------------------------------------------------------------------
(* The steps that leave the queue alone *)

Quiet ==
  \/ \E w \in Writers : WriteCall(w)
  \/ \E c \in Closers : CloseCall(c) \/ CloseWs(c) \/ CloseSignal(c)
  \/ \E r \in Readers : ReadStep(r)
  \/ Arrive
  \/ WsBreak

\* What they keep: the queue and its mutex, the verdicts already reached, and
\* every goroutine in its place that holds upMu.
Kept ==
  /\ UNCHANGED <<upMu, upVars, callbacks, buf, accepted, wire, lost>>
  /\ closed => closed'
  /\ broken => broken'
  /\ deadErr # NoErr => deadErr' = deadErr
  /\ \A g \in Goroutines :
       pc[g] \in Holding \/ pc'[g] \in Holding => pc'[g] = pc[g]

LEMMA QuietStep == TypeOK /\ Quiet => Kept
  <1> SUFFICES ASSUME TypeOK, Quiet PROVE Kept
    OBVIOUS
  <1> USE DEF Kept, TypeOK, Holding, Goroutines, upVars, sendVars, recvVars
  <1>1. ASSUME NEW w \in Writers, WriteCall(w) PROVE Kept
    BY <1>1 DEF WriteCall, Goto
  <1>2. ASSUME NEW c \in Closers, CloseCall(c) PROVE Kept
    BY <1>2 DEF CloseCall, Goto
  <1>3. ASSUME NEW c \in Closers, CloseWs(c) PROVE Kept
    BY <1>3 DEF CloseWs, Blame, Goto
  <1>4. ASSUME NEW c \in Closers, CloseSignal(c) PROVE Kept
    BY <1>4 DEF CloseSignal, Goto
  <1>5. ASSUME NEW r \in Readers, ReadCall(r) PROVE Kept
    BY <1>5 DEF ReadCall, Goto
  <1>6. ASSUME NEW r \in Readers, ReadLock(r) PROVE Kept
    BY <1>6 DEF ReadLock, Goto
  <1>7. ASSUME NEW r \in Readers, ReadMessage(r) \/ ReadEnd(r) PROVE Kept
    BY <1>7 DEF ReadMessage, Body, ReadEnd
  <1>8. ASSUME NEW r \in Readers, ReadSome(r) PROVE Kept
    BY <1>8 DEF ReadSome, Goto
  <1>9. ASSUME NEW r \in Readers, ReadFail(r) PROVE Kept
    BY <1>9 DEF ReadFail, Blame, Goto
  <1>10. ASSUME NEW r \in Readers, ReadSignal(r) PROVE Kept
    BY <1>10 DEF ReadSignal, Goto
  <1>11. CASE Arrive
    BY <1>11 DEF Arrive
  <1>12. CASE WsBreak
    BY <1>12 DEF WsBreak
  <1> QED
    BY <1>1, <1>2, <1>3, <1>4, <1>5, <1>6, <1>7, <1>8, <1>9, <1>10, <1>11,
       <1>12 DEF Quiet, ReadStep

LEMMA NextCases ==
  ASSUME [Next]_vars
  PROVE  \/ \E w \in Writers : WriteFlush(w) \/ WriteDirect(w) \/ WriteEnqueue(w)
         \/ \E g \in Goroutines : WsWriteOk(g) \/ WsWriteFail(g) \/ SignalLocked(g)
         \/ TimerFire
         \/ TimerFlush
         \/ \E c \in Closers : CloseFlush(c)
         \/ Quiet
         \/ UNCHANGED vars
  BY DEF Next, WriteStep, WsWrite, CloseStep, Quiet

LEMMA LimitsPositive == UpPack \in Nat /\ UpPack > 0 /\ MaxQueue \in Nat
  BY SizesAssumption

-----------------------------------------------------------------------------
(* Who owns what *)

\* A goroutine moves to where it may be without upMu, or takes it on the way.
LEMMA MutexMoves ==
  ASSUME TypeOK, Mutex, NEW g \in Goroutines, upMu \in {Nobody, g},
         NEW place, pc' = [pc EXCEPT ![g] = place],
         upMu' = IF place \in Holding THEN g ELSE Nobody
  PROVE  Mutex'
  <1>1. pc'[g] = place /\ \A h \in Goroutines : h # g => pc'[h] = pc[h]
    BY DEF TypeOK
  <1>2. \A h \in Goroutines : h # Nobody
    BY GoroutinesAssumption DEF Goroutines
  <1>3. \A h \in Goroutines : h # g => upMu' # h /\ pc'[h] \notin Holding
    BY <1>1, <1>2 DEF Mutex
  <1>4. upMu' = g <=> pc'[g] \in Holding
    BY <1>1, <1>2
  <1> QED
    BY <1>3, <1>4 DEF Mutex, Holding

LEMMA FlushMutex ==
  ASSUME TypeOK, Mutex, NEW g \in Goroutines, upMu \in {Nobody, g}, NEW q,
         NEW next \in {"flushing", "writing"}, Flush(g, q, next)
  PROVE  Mutex'
  <1>1. CASE closed
    BY <1>1, MutexMoves DEF Flush, Goto, Holding
  <1>2. CASE ~closed
    BY <1>2, MutexMoves DEF Flush, Goto, Holding
  <1> QED
    BY <1>1, <1>2

LEMMA NextMutex ==
  TypeOK /\ Mutex /\ [Next]_vars => Mutex'
  <1> SUFFICES ASSUME TypeOK, Mutex, [Next]_vars
               PROVE  Mutex'
    OBVIOUS
  <1>0. \A w \in Writers : w \in Goroutines /\ (InQueue(w) => upMu \in {Nobody, w})
    BY DEF InQueue, Mutex, Holding, Goroutines
  <1>1. ASSUME NEW w \in Writers, WriteFlush(w) PROVE Mutex'
    BY <1>0, <1>1, FlushMutex DEF WriteFlush
  <1>2. ASSUME NEW w \in Writers, WriteDirect(w) PROVE Mutex'
    BY <1>0, <1>2, MutexMoves DEF WriteDirect, Goto, Holding
  <1>3. ASSUME NEW w \in Writers, WriteEnqueue(w) PROVE Mutex'
    <2>1. CASE upSize + arg[w] >= UpPack
      BY <1>0, <1>3, <2>1, FlushMutex DEF WriteEnqueue
    <2>2. CASE ~(upSize + arg[w] >= UpPack)
      <3>1. w \notin Closers
        BY GoroutinesAssumption
      <3> QED
        BY <1>0, <1>3, <2>2, <3>1, MutexMoves DEF WriteEnqueue, Unlock, Goto, Holding
    <2> QED
      BY <2>1, <2>2
  <1>4. ASSUME NEW g \in Goroutines, WsWriteOk(g) PROVE Mutex'
    BY <1>4, GoroutinesAssumption
    DEF WsWriteOk, Unlock, Goto, Mutex, TypeOK, Holding, upVars, Goroutines
  <1>5. ASSUME NEW g \in Goroutines, WsWriteFail(g) PROVE Mutex'
    BY <1>5, GoroutinesAssumption
    DEF WsWriteFail, Blame, Goto, Mutex, TypeOK, Holding, upVars, Goroutines
  <1>6. ASSUME NEW g \in Goroutines, SignalLocked(g) PROVE Mutex'
    BY <1>6, GoroutinesAssumption
    DEF SignalLocked, Unlock, Goto, Mutex, TypeOK, Holding, upVars, Goroutines
  <1>7. CASE TimerFire
    BY <1>7, GoroutinesAssumption
    DEF TimerFire, Mutex, TypeOK, Holding, upVars, Goroutines
  <1>8. CASE TimerFlush
    BY <1>8, GoroutinesAssumption
    DEF TimerFlush, Flush, EmptyQueue, Goto, Mutex, TypeOK, Holding, upVars, Goroutines
  <1>9. ASSUME NEW c \in Closers, CloseFlush(c) PROVE Mutex'
    BY <1>9, GoroutinesAssumption
    DEF CloseFlush, Flush, EmptyQueue, Blame, Goto, Mutex, TypeOK, Holding, upVars,
        Goroutines
  <1>10. CASE Quiet
    BY <1>10, QuietStep, GoroutinesAssumption DEF Kept, upVars, Mutex, TypeOK, Holding
  <1>11. CASE UNCHANGED vars
    BY <1>11 DEF Mutex, TypeOK, Holding, vars, sendVars, upVars
  <1> QED
    BY <1>1, <1>2, <1>3, <1>4, <1>5, <1>6, <1>7, <1>8, <1>9, <1>10, <1>11, NextCases

LEMMA NextEmptied ==
  TypeOK /\ Mutex /\ EmptiedByOwner /\ SizeZero /\ [Next]_vars => EmptiedByOwner'
  <1> SUFFICES ASSUME TypeOK, Mutex, EmptiedByOwner, SizeZero, [Next]_vars
               PROVE  EmptiedByOwner'
    OBVIOUS
  <1>1. ASSUME NEW w \in Writers, WriteFlush(w) PROVE EmptiedByOwner'
    BY <1>1, GoroutinesAssumption
    DEF WriteFlush, FlushFirst, Flush, EmptyQueue, InQueue, Goto, EmptiedByOwner, SizeZero, Mutex,
        TypeOK, Holding, upVars, Goroutines
  <1>2. ASSUME NEW w \in Writers, WriteDirect(w) PROVE EmptiedByOwner'
    BY <1>2, GoroutinesAssumption
    DEF WriteDirect, FlushFirst, InQueue, OverLimit, TooLargeToQueue, NewChunk, Goto,
        EmptiedByOwner, SizeZero, Mutex, TypeOK, Holding, upVars, Goroutines
  <1>3. ASSUME NEW w \in Writers, WriteEnqueue(w) PROVE EmptiedByOwner'
    BY <1>3, GoroutinesAssumption
    DEF WriteEnqueue, FlushFirst, Rearm, Flush, EmptyQueue, Unlock, InQueue, OverLimit, TooLargeToQueue,
        NewChunk, Goto, EmptiedByOwner, SizeZero, Mutex, TypeOK, Holding,
        upVars, Goroutines
  <1>4. ASSUME NEW g \in Goroutines, WsWriteOk(g) PROVE EmptiedByOwner'
    BY <1>4, GoroutinesAssumption
    DEF WsWriteOk, Unlock, Goto, EmptiedByOwner, SizeZero, Mutex, TypeOK,
        Holding, upVars, Goroutines
  <1>5. ASSUME NEW g \in Goroutines, WsWriteFail(g) PROVE EmptiedByOwner'
    BY <1>5, GoroutinesAssumption
    DEF WsWriteFail, Blame, Goto, EmptiedByOwner, SizeZero, Mutex, TypeOK,
        Holding, upVars, Goroutines
  <1>6. ASSUME NEW g \in Goroutines, SignalLocked(g) PROVE EmptiedByOwner'
    BY <1>6, GoroutinesAssumption
    DEF SignalLocked, Unlock, Goto, EmptiedByOwner, SizeZero, Mutex, TypeOK,
        Holding, upVars, Goroutines
  <1>7. CASE TimerFire
    BY <1>7, GoroutinesAssumption
    DEF TimerFire, EmptiedByOwner, SizeZero, Mutex, TypeOK, Holding, upVars,
        Goroutines
  <1>8. CASE TimerFlush
    BY <1>8, GoroutinesAssumption
    DEF TimerFlush, Flush, EmptyQueue, Goto, EmptiedByOwner, SizeZero, Mutex, TypeOK,
        Holding, upVars, Goroutines
  <1>9. ASSUME NEW c \in Closers, CloseFlush(c) PROVE EmptiedByOwner'
    BY <1>9, GoroutinesAssumption
    DEF CloseFlush, Flush, EmptyQueue, Blame, Goto, EmptiedByOwner, SizeZero, Mutex, TypeOK,
        Holding, upVars, Goroutines
  <1>10. CASE Quiet
    BY <1>10, QuietStep, GoroutinesAssumption DEF Kept, upVars, EmptiedByOwner, SizeZero, Mutex, TypeOK, Holding
  <1>11. CASE UNCHANGED vars
    BY <1>11 DEF EmptiedByOwner, SizeZero, Mutex, TypeOK, Holding, vars, sendVars, upVars
  <1> QED
    BY <1>1, <1>2, <1>3, <1>4, <1>5, <1>6, <1>7, <1>8, <1>9, <1>10, <1>11, NextCases

LEMMA NextBufOwned ==
  TypeOK /\ Mutex /\ EmptiedByOwner /\ BufOwned /\ [Next]_vars => BufOwned'
  <1> SUFFICES ASSUME TypeOK, Mutex, EmptiedByOwner, BufOwned, [Next]_vars
               PROVE  BufOwned'
    OBVIOUS
  <1>1. ASSUME NEW w \in Writers, WriteFlush(w) PROVE BufOwned'
    BY <1>1, GoroutinesAssumption
    DEF WriteFlush, FlushFirst, Flush, EmptyQueue, InQueue, Goto, EmptiedByOwner, BufOwned, Mutex,
        TypeOK, Holding, upVars, Goroutines
  <1>2. ASSUME NEW w \in Writers, WriteDirect(w) PROVE BufOwned'
    <2>1. w \in Goroutines /\ w # Nobody
      BY GoroutinesAssumption DEF Goroutines
    <2>2. upMu' = w /\ pc'[w] = "writing"
      BY <1>2, <2>1 DEF WriteDirect, Goto, TypeOK
    <2> QED
      BY <2>1, <2>2 DEF BufOwned
  <1>3. ASSUME NEW w \in Writers, WriteEnqueue(w) PROVE BufOwned'
    <2>1. w \in Goroutines /\ w # Nobody
      BY GoroutinesAssumption DEF Goroutines
    <2>2. InQueue(w) /\ (\/ UNCHANGED buf
                         \/ Flush(w, Append(upQueue, NewChunk(w)), "writing"))
      BY <1>3 DEF WriteEnqueue
    <2>3. buf = <<>>
      <3>1. upMu = Nobody \/ (upMu = w /\ pc[w] = "flushed")
        BY <2>1, <2>2 DEF InQueue, Mutex, Holding
      <3> QED
        BY <3>1 DEF BufOwned
    <2>4. UNCHANGED buf \/ (upMu' = w /\ pc' = [pc EXCEPT ![w] = "writing"])
      BY <2>2 DEF Flush, Goto
    <2>5. UNCHANGED buf \/ (upMu' = w /\ pc'[w] = "writing")
      BY <2>1, <2>4 DEF TypeOK
    <2> QED
      BY <2>1, <2>3, <2>5 DEF BufOwned
  <1>4. ASSUME NEW g \in Goroutines, WsWriteOk(g) PROVE BufOwned'
    BY <1>4, GoroutinesAssumption
    DEF WsWriteOk, Unlock, Goto, EmptiedByOwner, BufOwned, Mutex, TypeOK,
        Holding, upVars, Goroutines
  <1>5. ASSUME NEW g \in Goroutines, WsWriteFail(g) PROVE BufOwned'
    BY <1>5, GoroutinesAssumption
    DEF WsWriteFail, Blame, Goto, EmptiedByOwner, BufOwned, Mutex, TypeOK,
        Holding, upVars, Goroutines
  <1>6. ASSUME NEW g \in Goroutines, SignalLocked(g) PROVE BufOwned'
    BY <1>6, GoroutinesAssumption
    DEF SignalLocked, Unlock, Goto, EmptiedByOwner, BufOwned, Mutex, TypeOK,
        Holding, upVars, Goroutines
  <1>7. CASE TimerFire
    BY <1>7, GoroutinesAssumption
    DEF TimerFire, EmptiedByOwner, BufOwned, Mutex, TypeOK, Holding, upVars,
        Goroutines
  <1>8. CASE TimerFlush
    BY <1>8, GoroutinesAssumption
    DEF TimerFlush, Flush, EmptyQueue, Goto, EmptiedByOwner, BufOwned, Mutex, TypeOK,
        Holding, upVars, Goroutines
  <1>9. ASSUME NEW c \in Closers, CloseFlush(c) PROVE BufOwned'
    BY <1>9, GoroutinesAssumption
    DEF CloseFlush, Flush, EmptyQueue, Blame, Goto, EmptiedByOwner, BufOwned, Mutex, TypeOK,
        Holding, upVars, Goroutines
  <1>10. CASE Quiet
    BY <1>10, QuietStep, GoroutinesAssumption DEF Kept, upVars, EmptiedByOwner, BufOwned, Mutex, TypeOK, Holding
  <1>11. CASE UNCHANGED vars
    BY <1>11 DEF EmptiedByOwner, BufOwned, Mutex, TypeOK, Holding, vars, sendVars, upVars
  <1> QED
    BY <1>1, <1>2, <1>3, <1>4, <1>5, <1>6, <1>7, <1>8, <1>9, <1>10, <1>11, NextCases

LEMMA NextSizeZero ==
  TypeOK /\ ArgSet /\ SizeZero /\ [Next]_vars => SizeZero'
  <1> SUFFICES ASSUME TypeOK, ArgSet, SizeZero, [Next]_vars
               PROVE  SizeZero'
    OBVIOUS
  <1>1. ASSUME NEW w \in Writers, WriteFlush(w) PROVE SizeZero'
    BY <1>1
    DEF WriteFlush, FlushFirst, Flush, EmptyQueue, InQueue, Goto, SizeZero, TypeOK, upVars
  <1>2. ASSUME NEW w \in Writers, WriteDirect(w) PROVE SizeZero'
    BY <1>2
    DEF WriteDirect, FlushFirst, InQueue, OverLimit, TooLargeToQueue, NewChunk, Goto,
        SizeZero, TypeOK, upVars
  <1>3. ASSUME NEW w \in Writers, WriteEnqueue(w) PROVE SizeZero'
    <2>1. arg[w] \in Nat /\ arg[w] > 0
      BY <1>3, SizesPositive DEF WriteEnqueue, FlushFirst, Rearm, InQueue, ArgSet
    <2>2. CASE upSize + arg[w] >= UpPack
      BY <1>3, <2>2 DEF WriteEnqueue, FlushFirst, Rearm, Flush, EmptyQueue, SizeZero
    <2>3. CASE ~(upSize + arg[w] >= UpPack)
      <3>1. upSize' = upSize + arg[w] /\ upQueue' = Append(upQueue, NewChunk(w))
        BY <1>3, <2>3 DEF WriteEnqueue, FlushFirst, Rearm
      <3>2. upSize' # 0
        BY <2>1, <3>1 DEF TypeOK
      <3>3. NewChunk(w) \in Chunk
        BY <1>3, NewChunkTyped DEF WriteEnqueue, FlushFirst, Rearm, InQueue, ArgSet
      <3>4. upQueue' # <<>>
        BY <3>1, <3>3, AppendProperties DEF TypeOK
      <3> QED
        BY <3>2, <3>4 DEF SizeZero
    <2> QED
      BY <2>2, <2>3
  <1>4. ASSUME NEW g \in Goroutines, WsWriteOk(g) PROVE SizeZero'
    BY <1>4
    DEF WsWriteOk, Unlock, Goto, SizeZero, TypeOK, upVars
  <1>5. ASSUME NEW g \in Goroutines, WsWriteFail(g) PROVE SizeZero'
    BY <1>5
    DEF WsWriteFail, Blame, Goto, SizeZero, TypeOK, upVars
  <1>6. ASSUME NEW g \in Goroutines, SignalLocked(g) PROVE SizeZero'
    BY <1>6
    DEF SignalLocked, Unlock, Goto, SizeZero, TypeOK, upVars
  <1>7. CASE TimerFire
    BY <1>7
    DEF TimerFire, SizeZero, TypeOK, upVars
  <1>8. CASE TimerFlush
    BY <1>8
    DEF TimerFlush, Flush, EmptyQueue, Goto, SizeZero, TypeOK, upVars
  <1>9. ASSUME NEW c \in Closers, CloseFlush(c) PROVE SizeZero'
    BY <1>9
    DEF CloseFlush, Flush, EmptyQueue, Blame, Goto, SizeZero, TypeOK, upVars
  <1>10. CASE Quiet
    BY <1>10, QuietStep DEF Kept, upVars, SizeZero, TypeOK
  <1>11. CASE UNCHANGED vars
    BY <1>11 DEF SizeZero, TypeOK, vars, sendVars, upVars
  <1> QED
    BY <1>1, <1>2, <1>3, <1>4, <1>5, <1>6, <1>7, <1>8, <1>9, <1>10, <1>11, NextCases

LEMMA NextQueueBounded ==
  TypeOK /\ Mutex /\ EmptiedByOwner /\ ArgSet /\ QueueBounded /\ [Next]_vars => QueueBounded'
  <1> SUFFICES ASSUME TypeOK, Mutex, EmptiedByOwner, ArgSet, QueueBounded, [Next]_vars
               PROVE  QueueBounded'
    OBVIOUS
  <1>1. ASSUME NEW w \in Writers, WriteFlush(w) PROVE QueueBounded'
    BY <1>1, LimitsPositive
    DEF WriteFlush, FlushFirst, Flush, EmptyQueue, InQueue, Goto, QueueBounded, EmptiedByOwner, Mutex,
        TypeOK, Holding, upVars, Goroutines
  <1>2. ASSUME NEW w \in Writers, WriteDirect(w) PROVE QueueBounded'
    BY <1>2, LimitsPositive
    DEF WriteDirect, FlushFirst, InQueue, OverLimit, TooLargeToQueue, NewChunk, Goto,
        QueueBounded, EmptiedByOwner, Mutex, TypeOK, Holding, upVars, Goroutines
  <1>3. ASSUME NEW w \in Writers, WriteEnqueue(w) PROVE QueueBounded'
    <2>1. arg[w] \in Nat /\ upSize \in Nat
      BY <1>3, SizesPositive DEF WriteEnqueue, FlushFirst, Rearm, InQueue, ArgSet, TypeOK
    <2>2. CASE upSize + arg[w] >= UpPack
      BY <1>3, <2>2, LimitsPositive DEF WriteEnqueue, FlushFirst, Rearm, Flush, EmptyQueue, QueueBounded
    <2>3. CASE ~(upSize + arg[w] >= UpPack)
      <3>1. upSize' = upSize + arg[w]
        BY <1>3, <2>3 DEF WriteEnqueue, FlushFirst, Rearm
      <3>2. upSize' <= MaxQueue
        BY <1>3, <2>1, <3>1, LimitsPositive DEF WriteEnqueue, FlushFirst, Rearm, OverLimit, TooLargeToQueue
      <3>3. upSize' < UpPack
        BY <2>1, <2>3, <3>1, LimitsPositive
      <3> QED
        BY <3>2, <3>3 DEF QueueBounded
    <2> QED
      BY <2>2, <2>3
  <1>4. ASSUME NEW g \in Goroutines, WsWriteOk(g) PROVE QueueBounded'
    BY <1>4, LimitsPositive
    DEF WsWriteOk, Unlock, Goto, QueueBounded, EmptiedByOwner, Mutex, TypeOK,
        Holding, upVars, Goroutines
  <1>5. ASSUME NEW g \in Goroutines, WsWriteFail(g) PROVE QueueBounded'
    BY <1>5, LimitsPositive
    DEF WsWriteFail, Blame, Goto, QueueBounded, EmptiedByOwner, Mutex, TypeOK,
        Holding, upVars, Goroutines
  <1>6. ASSUME NEW g \in Goroutines, SignalLocked(g) PROVE QueueBounded'
    BY <1>6, LimitsPositive
    DEF SignalLocked, Unlock, Goto, QueueBounded, EmptiedByOwner, Mutex, TypeOK,
        Holding, upVars, Goroutines
  <1>7. CASE TimerFire
    BY <1>7, LimitsPositive
    DEF TimerFire, QueueBounded, EmptiedByOwner, Mutex, TypeOK, Holding, upVars,
        Goroutines
  <1>8. CASE TimerFlush
    BY <1>8, LimitsPositive
    DEF TimerFlush, Flush, EmptyQueue, Goto, QueueBounded, EmptiedByOwner, Mutex, TypeOK,
        Holding, upVars, Goroutines
  <1>9. ASSUME NEW c \in Closers, CloseFlush(c) PROVE QueueBounded'
    BY <1>9, LimitsPositive
    DEF CloseFlush, Flush, EmptyQueue, Blame, Goto, QueueBounded, EmptiedByOwner, Mutex,
        TypeOK, Holding, upVars, Goroutines
  <1>10. CASE Quiet
    BY <1>10, QuietStep, LimitsPositive DEF Kept, upVars, QueueBounded, EmptiedByOwner, Mutex, TypeOK, Holding
  <1>11. CASE UNCHANGED vars
    BY <1>11 DEF QueueBounded, EmptiedByOwner, Mutex, TypeOK, Holding, vars, sendVars, upVars
  <1> QED
    BY <1>1, <1>2, <1>3, <1>4, <1>5, <1>6, <1>7, <1>8, <1>9, <1>10, <1>11, NextCases

LEMMA NextNoneStranded ==
  TypeOK /\ Mutex /\ EmptiedByOwner /\ SizeZero /\ NoneStranded /\ [Next]_vars => NoneStranded'
  <1> SUFFICES ASSUME TypeOK, Mutex, EmptiedByOwner, SizeZero, NoneStranded, [Next]_vars
               PROVE  NoneStranded'
    OBVIOUS
  <1>1. ASSUME NEW w \in Writers, WriteFlush(w) PROVE NoneStranded'
    BY <1>1
    DEF WriteFlush, FlushFirst, Flush, EmptyQueue, InQueue, Goto, NoneStranded, SizeZero,
        EmptiedByOwner, Mutex, TypeOK, Holding, upVars, Goroutines
  <1>2. ASSUME NEW w \in Writers, WriteDirect(w) PROVE NoneStranded'
    BY <1>2
    DEF WriteDirect, FlushFirst, InQueue, OverLimit, TooLargeToQueue, NewChunk, Goto,
        NoneStranded, SizeZero, EmptiedByOwner, Mutex, TypeOK, Holding, upVars,
        Goroutines
  <1>3. ASSUME NEW w \in Writers, WriteEnqueue(w) PROVE NoneStranded'
    BY <1>3
    DEF WriteEnqueue, FlushFirst, Rearm, Flush, EmptyQueue, Unlock, InQueue, OverLimit, TooLargeToQueue,
        NewChunk, Goto, NoneStranded, SizeZero, EmptiedByOwner, Mutex, TypeOK,
        Holding, upVars, Goroutines
  <1>4. ASSUME NEW g \in Goroutines, WsWriteOk(g) PROVE NoneStranded'
    BY <1>4
    DEF WsWriteOk, Unlock, Goto, NoneStranded, SizeZero, EmptiedByOwner, Mutex,
        TypeOK, Holding, upVars, Goroutines
  <1>5. ASSUME NEW g \in Goroutines, WsWriteFail(g) PROVE NoneStranded'
    BY <1>5
    DEF WsWriteFail, Blame, Goto, NoneStranded, SizeZero, EmptiedByOwner, Mutex,
        TypeOK, Holding, upVars, Goroutines
  <1>6. ASSUME NEW g \in Goroutines, SignalLocked(g) PROVE NoneStranded'
    BY <1>6
    DEF SignalLocked, Unlock, Goto, NoneStranded, SizeZero, EmptiedByOwner,
        Mutex, TypeOK, Holding, upVars, Goroutines
  <1>7. CASE TimerFire
    BY <1>7
    DEF TimerFire, NoneStranded, SizeZero, EmptiedByOwner, Mutex, TypeOK,
        Holding, upVars, Goroutines
  <1>8. CASE TimerFlush
    BY <1>8
    DEF TimerFlush, Flush, EmptyQueue, Goto, NoneStranded, SizeZero, EmptiedByOwner, Mutex,
        TypeOK, Holding, upVars, Goroutines
  <1>9. ASSUME NEW c \in Closers, CloseFlush(c) PROVE NoneStranded'
    BY <1>9
    DEF CloseFlush, Flush, EmptyQueue, Blame, Goto, NoneStranded, SizeZero, EmptiedByOwner,
        Mutex, TypeOK, Holding, upVars, Goroutines
  <1>10. CASE Quiet
    BY <1>10, QuietStep DEF Kept, upVars, NoneStranded, SizeZero, EmptiedByOwner, Mutex, TypeOK, Holding
  <1>11. CASE UNCHANGED vars
    BY <1>11 DEF NoneStranded, SizeZero, EmptiedByOwner, Mutex, TypeOK, Holding, vars, sendVars, upVars
  <1> QED
    BY <1>1, <1>2, <1>3, <1>4, <1>5, <1>6, <1>7, <1>8, <1>9, <1>10, <1>11, NextCases

LEMMA InitOwn == Init => OwnInv
  <1> SUFFICES ASSUME Init PROVE OwnInv
    OBVIOUS
  <1>1. ArgSet /\ EmptiedByOwner /\ BufOwned /\ SizeZero /\ NoneStranded
    BY DEF Init, ArgSet, EmptiedByOwner, BufOwned, SizeZero, NoneStranded,
           Goroutines
  <1>2. Mutex
    BY GoroutinesAssumption DEF Init, Mutex, Holding, Goroutines
  <1>3. QueueBounded
    BY LimitsPositive DEF Init, QueueBounded
  <1> QED
    BY <1>1, <1>2, <1>3, InitTypeOK DEF OwnInv

LEMMA NextOwn == OwnInv /\ [Next]_vars => OwnInv'
  BY NextTypeOK, NextArgSet, NextMutex, NextEmptied, NextBufOwned,
     NextSizeZero, NextQueueBounded, NextNoneStranded DEF OwnInv

\* OwnInv holds at every step of every run.
THEOREM OwnCorrect == Spec => []OwnInv
  <1>1. Init => OwnInv
    BY InitOwn
  <1>2. OwnInv /\ [Next]_vars => OwnInv'
    BY NextOwn
  <1> QED
    BY <1>1, <1>2, PTL DEF Spec

\* The variables keep their types, for any goroutines and any limits.
THEOREM TypeCorrect == Spec => []TypeOK
  <1>1. OwnInv => TypeOK
    BY DEF OwnInv
  <1> QED
    BY <1>1, OwnCorrect, PTL

\* max_queue_bytes is never exceeded, and with upMu free the queue is below
\* the flush threshold (the size checks of Write).
THEOREM QueueBoundedCorrect == Spec => []QueueBounded
  <1>1. OwnInv => QueueBounded
    BY DEF OwnInv
  <1> QED
    BY <1>1, OwnCorrect, PTL

\* Queued data always has a timer armed or a callback on its way (the Stop
\* and AfterFunc of Write against the Stop of flushLocked).
THEOREM NoneStrandedCorrect == Spec => []NoneStranded
  <1>1. OwnInv => NoneStranded
    BY DEF OwnInv
  <1> QED
    BY <1>1, OwnCorrect, PTL
-----------------------------------------------------------------------------
(* Where the data goes *)

\* What is on the wire and in hand, in the order it is sent.
Outstanding == wire \o buf \o upQueue

\* A step takes no data and drops none.
Keeps ==
  /\ accepted' = accepted
  /\ Outstanding' = Outstanding
  /\ broken => wire' = wire
  /\ wire' = wire \/ wire' = Outstanding

\* A step takes one chunk, which goes last.
Takes ==
  \E x \in Chunk :
    /\ x.id = Len(accepted) + 1
    /\ accepted' = Append(accepted, x)
    /\ Outstanding' = Append(Outstanding, x)
    /\ UNCHANGED <<wire, closed, broken>>

\* A closed connection drops all it holds.
Drops ==
  /\ closed
  /\ accepted' = accepted \/ (\E x \in Chunk : accepted' = Append(accepted, x))
  /\ Outstanding' = wire
  /\ wire' = wire

\* A failing websocket takes the beginning of the message.
Cuts ==
  \E n \in 0 .. Len(buf) :
    /\ broken => n = 0
    /\ broken'
    /\ accepted' = accepted
    /\ upQueue = <<>>
    /\ Outstanding' = wire \o SubSeq(buf, 1, n)
    /\ wire' = wire \o SubSeq(buf, 1, n)

StepShape == /\ Keeps \/ Takes \/ Drops \/ Cuts
             /\ closed => closed'
             /\ broken => broken'

LEMMA ConcatEmpty ==
  ASSUME NEW s \in Seq(Chunk)
  PROVE  s \o <<>> = s /\ <<>> \o s = s
  BY ConcatEmptySeq

\* The flush of a queue q: dropped, or in hand and unchanged.
LEMMA FlushShape ==
  ASSUME TypeOK, buf = <<>>, NEW g, NEW q \in Seq(Chunk), NEW next,
         Flush(g, q, next), wire' = wire
  PROVE  /\ closed => Outstanding' = wire
         /\ ~closed => Outstanding' = wire \o q
  <1>1. wire \in Seq(Chunk) /\ <<>> \in Seq(Chunk)
    BY DEF TypeOK
  <1>2. wire \o q \in Seq(Chunk)
    BY <1>1, ConcatProperties
  <1>3. CASE closed
    <2>1. upQueue' = <<>> /\ buf' = <<>>
      BY <1>3 DEF Flush, EmptyQueue
    <2>2. Outstanding' = wire \o <<>> \o <<>>
      BY <2>1 DEF Outstanding
    <2> QED
      BY <1>1, <1>3, <2>2, ConcatEmpty
  <1>4. CASE ~closed
    <2>1. upQueue' = <<>> /\ buf' = q
      BY <1>4 DEF Flush, EmptyQueue
    <2>2. Outstanding' = wire \o q \o <<>>
      BY <2>1 DEF Outstanding
    <2> QED
      BY <1>2, <1>4, <2>2, ConcatEmpty
  <1> QED
    BY <1>3, <1>4

\* Nobody writes while a goroutine enters the queue.
LEMMA EntryShape ==
  ASSUME OwnInv, upMu = Nobody \/ (upMu \in Goroutines /\ pc[upMu] = "flushed")
  PROVE  /\ buf = <<>>
         /\ Outstanding = wire \o upQueue
  <1>1. buf = <<>>
    BY DEF OwnInv, BufOwned
  <1>2. wire \in Seq(Chunk)
    BY DEF OwnInv, TypeOK
  <1> QED
    BY <1>1, <1>2, ConcatEmpty DEF Outstanding

LEMMA WriterEntry ==
  ASSUME OwnInv, NEW w \in Writers, InQueue(w)
  PROVE  upMu = Nobody \/ (upMu \in Goroutines /\ pc[upMu] = "flushed")
  <1>1. CASE pc[w] = "flushed"
    <2>1. w \in Goroutines /\ Mutex
      BY DEF OwnInv, Goroutines
    <2>2. upMu = w
      BY <1>1, <2>1 DEF Mutex, Holding
    <2> QED
      BY <1>1, <2>1, <2>2
  <1>2. CASE upMu = Nobody
    BY <1>2
  <1> QED
    BY <1>1, <1>2 DEF InQueue

\* A full queue is flushed, or dropped by a closed connection.
LEMMA QueueFlushed ==
  ASSUME OwnInv, upMu = Nobody \/ (upMu \in Goroutines /\ pc[upMu] = "flushed"),
         NEW g, NEW next, Flush(g, upQueue, next),
         UNCHANGED <<accepted, wire, closed, broken>>
  PROVE  StepShape
  <1>1. buf = <<>> /\ Outstanding = wire \o upQueue
    BY EntryShape
  <1>2. TypeOK /\ upQueue \in Seq(Chunk)
    BY DEF OwnInv, TypeOK
  <1>3. /\ closed => Outstanding' = wire
        /\ ~closed => Outstanding' = wire \o upQueue
    BY <1>1, <1>2, FlushShape
  <1>4. closed => Drops
    BY <1>3 DEF Drops
  <1>5. ~closed => Keeps
    BY <1>1, <1>3 DEF Keeps
  <1> QED
    BY <1>4, <1>5 DEF StepShape

\* A step that leaves queue and wire alone.
LEMMA NothingMoves ==
  ASSUME UNCHANGED <<buf, upQueue, accepted, wire>>, closed => closed',
         broken => broken'
  PROVE  StepShape
  BY DEF StepShape, Keeps, Outstanding

LEMMA EnqueueShape ==
  ASSUME OwnInv, NEW w \in Writers, WriteEnqueue(w)
  PROVE  StepShape
  <1> DEFINE x == NewChunk(w)
             q == Append(upQueue, x)
  <1>1. InQueue(w) /\ arg[w] \in WriteSizes /\ TypeOK
    BY DEF WriteEnqueue, FlushFirst, Rearm, InQueue, OwnInv, ArgSet
  <1>2. x \in Chunk
    BY <1>1, NewChunkTyped
  <1>3. x.id = Len(accepted) + 1
    BY DEF NewChunk
  <1>4. /\ accepted' = Append(accepted, x)
        /\ UNCHANGED <<wire, closed, broken>>
    BY DEF WriteEnqueue, FlushFirst, Rearm
  <1>5. buf = <<>> /\ Outstanding = wire \o upQueue
    BY <1>1, WriterEntry, EntryShape
  <1>6. wire \in Seq(Chunk) /\ upQueue \in Seq(Chunk) /\ q \in Seq(Chunk)
    BY <1>1, <1>2 DEF TypeOK
  <1>7. wire \o q = Append(Outstanding, x)
    BY <1>2, <1>5, <1>6, AppendConcat
  <1>8. Outstanding' = wire \o q => Takes
    BY <1>2, <1>3, <1>4, <1>7 DEF Takes
  <1>9. CASE upSize + arg[w] >= UpPack
    <2>1. Flush(w, q, "writing")
      BY <1>9 DEF WriteEnqueue, FlushFirst, Rearm
    <2> HIDE DEF q, x
    <2>2. /\ closed => Outstanding' = wire
          /\ ~closed => Outstanding' = wire \o q
      BY <1>1, <1>4, <1>5, <1>6, <2>1, FlushShape
    <2>3. closed => Drops
      BY <1>2, <1>4, <2>2 DEF Drops
    <2> QED
      BY <1>4, <1>8, <2>2, <2>3 DEF StepShape
  <1>10. CASE ~(upSize + arg[w] >= UpPack)
    <2>1. upQueue' = q /\ buf' = buf
      BY <1>10 DEF WriteEnqueue, FlushFirst, Rearm
    <2>2. Outstanding' = wire \o <<>> \o q
      BY <1>4, <1>5, <2>1 DEF Outstanding
    <2>3. Outstanding' = wire \o q
      BY <1>6, <2>2, ConcatEmpty
    <2> QED
      BY <1>4, <1>8, <2>3 DEF StepShape
  <1> QED
    BY <1>9, <1>10

LEMMA DirectShape ==
  ASSUME OwnInv, NEW w \in Writers, WriteDirect(w)
  PROVE  StepShape
  <1> DEFINE x == NewChunk(w)
  <1>1. InQueue(w) /\ arg[w] \in WriteSizes /\ TypeOK
    BY DEF WriteDirect, FlushFirst, InQueue, OwnInv, ArgSet
  <1>2. x \in Chunk /\ <<x>> \in Seq(Chunk)
    BY <1>1, NewChunkTyped
  <1>3. x.id = Len(accepted) + 1
    BY DEF NewChunk
  <1>4. /\ accepted' = Append(accepted, x)
        /\ buf' = <<x>> /\ upQueue' = upQueue
        /\ UNCHANGED <<wire, closed, broken>>
    BY DEF WriteDirect, FlushFirst, upVars
  <1>5. upQueue = <<>>
    BY DEF WriteDirect, FlushFirst, OwnInv, SizeZero
  <1>6. wire \in Seq(Chunk) /\ wire \o <<x>> \in Seq(Chunk)
    BY <1>1, <1>2, ConcatProperties DEF TypeOK
  <1>7. Outstanding = wire
    <2>1. Outstanding = wire \o upQueue
      BY <1>1, WriterEntry, EntryShape
    <2> QED
      BY <1>5, <1>6, <2>1, ConcatEmpty
  <1>8. Outstanding' = wire \o <<x>> \o <<>>
    BY <1>4, <1>5 DEF Outstanding
  <1>9. Outstanding' = wire \o <<x>>
    BY <1>6, <1>8, ConcatEmpty
  <1>10. Outstanding' = Append(Outstanding, x)
    BY <1>2, <1>6, <1>7, <1>9, AppendIsConcat
  <1>11. Takes
    BY <1>2, <1>3, <1>4, <1>10 DEF Takes
  <1> QED
    BY <1>4, <1>11 DEF StepShape

\* The websocket is handed the message of whoever owns upMu.
LEMMA WsWriteShape ==
  ASSUME OwnInv, NEW g \in Goroutines, WsWriteOk(g) \/ WsWriteFail(g)
  PROVE  StepShape
  <1>1. upQueue = <<>> /\ wire \in Seq(Chunk) /\ buf \in Seq(Chunk)
    <2>1. upMu # Nobody
      BY GoroutinesAssumption
      DEF OwnInv, Mutex, Holding, WsWriteOk, WsWriteFail, Goroutines
    <2> QED
      BY <2>1 DEF OwnInv, EmptiedByOwner, TypeOK
  <1>2. Outstanding = wire \o buf
    <2>1. wire \o buf \in Seq(Chunk)
      BY <1>1, ConcatProperties
    <2> QED
      BY <1>1, <2>1, ConcatEmpty DEF Outstanding
  <1>3. CASE WsWriteOk(g)
    <2>1. /\ wire' = wire \o buf /\ buf' = <<>> /\ upQueue' = upQueue
          /\ ~broken /\ UNCHANGED <<accepted, closed, broken>>
      BY <1>3 DEF WsWriteOk, upVars
    <2>2. wire \o buf \in Seq(Chunk)
      BY <1>1, ConcatProperties
    <2>3. Outstanding' = wire \o buf \o <<>> \o <<>>
      BY <1>1, <2>1 DEF Outstanding
    <2>4. Outstanding' = wire \o buf
      BY <2>2, <2>3, ConcatEmpty
    <2> QED
      BY <1>2, <2>1, <2>4 DEF StepShape, Keeps
  <1>4. CASE WsWriteFail(g)
    <2>1. PICK n \in 0 .. Len(buf) :
            /\ broken => n = 0
            /\ wire' = wire \o SubSeq(buf, 1, n)
      BY <1>4 DEF WsWriteFail
    <2>2. /\ buf' = <<>> /\ upQueue' = upQueue
          /\ broken' /\ UNCHANGED <<accepted, closed>>
      BY <1>4 DEF WsWriteFail, upVars
    <2>3. wire' \in Seq(Chunk)
      BY <1>1, <2>1, HeadPart, ConcatProperties
    <2>4. Outstanding' = wire' \o <<>> \o <<>>
      BY <1>1, <2>2 DEF Outstanding
    <2>5. Outstanding' = wire'
      BY <2>3, <2>4, ConcatEmpty
    <2>6. Cuts
      BY <1>1, <2>1, <2>2, <2>5 DEF Cuts
    <2> QED
      BY <2>2, <2>6 DEF StepShape
  <1> QED
    BY <1>3, <1>4

LEMMA EveryStep == OwnInv /\ [Next]_vars => StepShape
  <1> SUFFICES ASSUME OwnInv, [Next]_vars PROVE StepShape
    OBVIOUS
  <1>1. ASSUME NEW w \in Writers, WriteFlush(w) PROVE StepShape
    <2>1. /\ Flush(w, upQueue, "flushing") /\ InQueue(w)
          /\ UNCHANGED <<accepted, wire, closed, broken>>
      BY <1>1 DEF WriteFlush, FlushFirst
    <2> QED
      BY <2>1, WriterEntry, QueueFlushed
  <1>2. ASSUME NEW w \in Writers, WriteDirect(w) PROVE StepShape
    BY <1>2, DirectShape
  <1>3. ASSUME NEW w \in Writers, WriteEnqueue(w) PROVE StepShape
    BY <1>3, EnqueueShape
  <1>4. ASSUME NEW g \in Goroutines, WsWriteOk(g) \/ WsWriteFail(g) PROVE StepShape
    BY <1>4, WsWriteShape
  <1>5. ASSUME NEW g \in Goroutines, SignalLocked(g) PROVE StepShape
    BY <1>5, NothingMoves DEF SignalLocked, upVars
  <1>6. CASE TimerFire
    BY <1>6, NothingMoves DEF TimerFire
  <1>7. CASE TimerFlush
    <2>1. CASE upSize = 0
      BY <1>7, <2>1, NothingMoves DEF TimerFlush, upVars
    <2>2. CASE upSize # 0
      <3>1. /\ Flush(Timer, upQueue, "writing") /\ upMu = Nobody
            /\ UNCHANGED <<accepted, wire, closed, broken>>
        BY <1>7, <2>2 DEF TimerFlush
      <3> QED
        BY <3>1, QueueFlushed
    <2> QED
      BY <2>1, <2>2
  <1>8. ASSUME NEW c \in Closers, CloseFlush(c) PROVE StepShape
    <2>1. CASE upSize = 0
      BY <1>8, <2>1, NothingMoves DEF CloseFlush, upVars
    <2>2. CASE upSize # 0
      <3>1. /\ Flush(c, upQueue, "writing") /\ upMu = Nobody
            /\ UNCHANGED <<accepted, wire, closed, broken>>
        BY <1>8, <2>2 DEF CloseFlush
      <3> QED
        BY <3>1, QueueFlushed
    <2> QED
      BY <2>1, <2>2
  <1>9. CASE Quiet
    BY <1>9, QuietStep, NothingMoves DEF OwnInv, Kept, upVars
  <1>10. CASE UNCHANGED vars
    BY <1>10, NothingMoves DEF vars, sendVars
  <1> QED
    BY <1>1, <1>2, <1>3, <1>4, <1>5, <1>6, <1>7, <1>8, <1>9, <1>10, NextCases

-----------------------------------------------------------------------------
(* Nothing lost, nothing overtaking *)

\* What is sent and still to be sent is numbered upwards.
Numbered == RisingTo(Outstanding, Len(accepted))

\* Every chunk is somewhere.
Counted ==
  Len(accepted) = Len(wire) + Len(buf) + Len(upQueue) + Len(lost)

\* A loss has a reason.
LossNoted == lost # <<>> => closed \/ deadErr # NoErr

DataInv == Lossless /\ Numbered /\ Counted /\ LossNoted

LEMMA NextLossless == OwnInv /\ OwnInv' /\ StepShape /\ Lossless => Lossless'
  <1> SUFFICES ASSUME OwnInv, OwnInv', StepShape, Lossless, ~closed'
               PROVE  /\ IsPrefix(wire, accepted)'
                      /\ ~broken' => accepted' = Outstanding'
    BY DEF Lossless, Outstanding
  <1>1. /\ ~closed /\ IsPrefix(wire, accepted)
        /\ ~broken => accepted = Outstanding
    BY DEF StepShape, Lossless, Outstanding
  <1>2. /\ wire \in Seq(Chunk) /\ accepted \in Seq(Chunk) /\ buf \in Seq(Chunk)
        /\ wire' \in Seq(Chunk) /\ buf' \in Seq(Chunk) /\ upQueue' \in Seq(Chunk)
    BY DEF OwnInv, TypeOK
  <1>3. CASE Keeps
    <2>1. CASE broken
      BY <1>1, <1>3, <2>1 DEF Keeps, StepShape
    <2>2. CASE ~broken
      <3>1. accepted' = Outstanding'
        BY <1>1, <1>3, <2>2 DEF Keeps
      <3>2. Outstanding' = wire' \o (buf' \o upQueue')
        BY <1>2, ConcatAssociative, SMTT(30) DEF Outstanding
      <3>3. buf' \o upQueue' \in Seq(Chunk)
        BY <1>2, ConcatProperties
      <3>4. IsPrefix(wire', wire' \o (buf' \o upQueue'))
        BY <1>2, <3>3, PrefixOfConcat
      <3> QED
        BY <3>1, <3>2, <3>4
    <2> QED
      BY <2>1, <2>2
  <1>4. CASE Takes
    <2>1. PICK x \in Chunk : /\ accepted' = Append(accepted, x)
                             /\ Outstanding' = Append(Outstanding, x)
                             /\ wire' = wire
      BY <1>4 DEF Takes
    <2>2. IsPrefix(wire, Append(accepted, x))
      BY <1>1, <1>2, PrefixAppend
    <2> QED
      BY <1>1, <2>1, <2>2 DEF StepShape
  <1>5. CASE Drops
    BY <1>1, <1>5 DEF Drops
  <1>6. CASE Cuts
    <2>1. PICK n \in 0 .. Len(buf) :
            /\ broken => n = 0
            /\ broken' /\ accepted' = accepted /\ upQueue = <<>>
            /\ wire' = wire \o SubSeq(buf, 1, n)
      BY <1>6 DEF Cuts
    <2>2. CASE broken
      <3>1. SubSeq(buf, 1, n) = <<>>
        BY <2>1, <2>2, SubSeqEmpty
      <3>2. wire' = wire
        BY <1>2, <2>1, <3>1, ConcatEmpty
      <3> QED
        BY <1>1, <2>1, <3>2
    <2>3. CASE ~broken
      <3>1. wire \o buf \in Seq(Chunk)
        BY <1>2, ConcatProperties
      <3>2. accepted = wire \o buf
        BY <1>1, <2>1, <2>3, <3>1, ConcatEmpty DEF Outstanding
      <3>3. IsPrefix(wire \o SubSeq(buf, 1, n), wire \o buf)
        BY <1>2, PrefixHead
      <3> QED
        BY <2>1, <3>2, <3>3
    <2> QED
      BY <2>2, <2>3
  <1> QED
    BY <1>3, <1>4, <1>5, <1>6 DEF StepShape

LEMMA OutstandingTyped ==
  ASSUME TypeOK
  PROVE  /\ Outstanding \in Seq(Chunk)
         /\ \A i \in DOMAIN Outstanding : Outstanding[i].id \in Nat
         /\ Outstanding = wire \o (buf \o upQueue)
         /\ buf \o upQueue \in Seq(Chunk)
  <1>1. wire \in Seq(Chunk) /\ buf \in Seq(Chunk) /\ upQueue \in Seq(Chunk)
    BY DEF TypeOK
  <1>2. wire \o buf \in Seq(Chunk) /\ buf \o upQueue \in Seq(Chunk)
    BY <1>1, ConcatProperties
  <1>3. Outstanding \in Seq(Chunk)
    BY <1>1, <1>2, ConcatProperties DEF Outstanding
  <1>4. \A i \in DOMAIN Outstanding : Outstanding[i] \in Chunk
    BY <1>3
  <1>5. \A x \in Chunk : x.id \in Nat
    BY SizesAssumption DEF Chunk
  <1>6. Outstanding = wire \o (buf \o upQueue)
    BY <1>1, ConcatAssociative DEF Outstanding
  <1> QED
    BY <1>2, <1>3, <1>4, <1>5, <1>6

\* What is on the wire is numbered upwards, too.
LEMMA WireNumbered ==
  ASSUME TypeOK, Numbered
  PROVE  RisingTo(wire, Len(accepted))
  <1>1. wire \in Seq(Chunk)
    BY DEF TypeOK
  <1>2. RisingTo(wire \o (buf \o upQueue), Len(accepted))
    BY OutstandingTyped DEF Numbered
  <1> QED
    BY <1>1, <1>2, OutstandingTyped, RisingFirst

LEMMA NextNumbered == OwnInv /\ StepShape /\ Numbered => Numbered'
  <1> SUFFICES ASSUME OwnInv, StepShape, Numbered PROVE Numbered'
    OBVIOUS
  <1>1. TypeOK /\ accepted \in Seq(Chunk) /\ wire \in Seq(Chunk) /\ buf \in Seq(Chunk)
    BY DEF OwnInv, TypeOK
  <1>2. Len(accepted) \in Nat
    BY <1>1
  <1>3. CASE Keeps
    BY <1>3 DEF Keeps, Numbered
  <1>4. CASE Takes
    <2>1. PICK x \in Chunk : /\ x.id = Len(accepted) + 1
                             /\ accepted' = Append(accepted, x)
                             /\ Outstanding' = Append(Outstanding, x)
      BY <1>4 DEF Takes
    <2>2. RisingTo(Append(Outstanding, x), Len(accepted) + 1)
      BY <1>1, <1>2, <2>1, OutstandingTyped, RisingAppend DEF Numbered
    <2>3. Len(accepted') = Len(accepted) + 1
      BY <1>1, <2>1, AppendProperties
    <2> QED
      BY <2>1, <2>2, <2>3 DEF Numbered
  <1>5. CASE Drops
    <2>1. RisingTo(wire, Len(accepted)) /\ Outstanding' = wire
      BY <1>1, <1>5, WireNumbered DEF Drops
    <2>2. CASE accepted' = accepted
      BY <2>1, <2>2 DEF Numbered
    <2>3. CASE \E x \in Chunk : accepted' = Append(accepted, x)
      <3>1. Len(accepted') = Len(accepted) + 1
        BY <1>1, <2>3, AppendProperties
      <3>2. \A i \in DOMAIN wire : wire[i].id \in Nat
        <4>1. \A y \in Chunk : y.id \in Nat
          BY SizesAssumption DEF Chunk
        <4> QED
          BY <1>1, <4>1
      <3>3. RisingTo(wire, Len(accepted) + 1)
        BY <1>2, <2>1, <3>2, RisingWeaken
      <3> QED
        BY <2>1, <3>1, <3>3 DEF Numbered
    <2> QED
      BY <1>5, <2>2, <2>3 DEF Drops
  <1>6. CASE Cuts
    <2>1. PICK n \in 0 .. Len(buf) :
            /\ accepted' = accepted /\ upQueue = <<>>
            /\ Outstanding' = wire \o SubSeq(buf, 1, n)
      BY <1>6 DEF Cuts
    <2>2. wire \o buf \in Seq(Chunk)
      BY <1>1, ConcatProperties
    <2>3. RisingTo(wire \o buf, Len(accepted))
      BY <2>1, <2>2, ConcatEmpty DEF Numbered, Outstanding
    <2>4. RisingTo(wire \o SubSeq(buf, 1, n), Len(accepted))
      BY <1>1, <2>3, RisingHead
    <2> QED
      BY <2>1, <2>4 DEF Numbered
  <1> QED
    BY <1>3, <1>4, <1>5, <1>6 DEF StepShape

LEMMA FlushCount ==
  ASSUME TypeOK, NEW g, NEW q \in Seq(Chunk), NEW next, Flush(g, q, next),
         buf = <<>>
  PROVE  Len(buf') + Len(upQueue') + Len(lost') = Len(q) + Len(lost)
  <1>1. upQueue' = <<>> /\ lost \in Seq(Chunk) /\ Len(q) \in Nat
    BY DEF Flush, EmptyQueue, TypeOK
  <1>2. CASE closed
    <2>1. lost' = lost \o q /\ buf' = <<>>
      BY <1>2 DEF Flush, EmptyQueue
    <2>2. Len(lost') = Len(lost) + Len(q)
      BY <1>1, <2>1, ConcatProperties
    <2> QED
      BY <1>1, <2>1, <2>2
  <1>3. CASE ~closed
    <2>1. buf' = q /\ lost' = lost
      BY <1>3 DEF Flush, EmptyQueue
    <2> QED
      BY <1>1, <2>1
  <1> QED
    BY <1>2, <1>3

LEMMA Lengths ==
  ASSUME TypeOK
  PROVE  /\ Len(accepted) \in Nat /\ Len(wire) \in Nat /\ Len(buf) \in Nat
         /\ Len(upQueue) \in Nat /\ Len(lost) \in Nat
  BY DEF TypeOK

\* A flush of the queue moves its chunks to the message or to the lost ones.
LEMMA FlushCounted ==
  ASSUME OwnInv, OwnInv', Counted, NEW g, NEW next, Flush(g, upQueue, next),
         upMu = Nobody \/ (upMu \in Goroutines /\ pc[upMu] = "flushed"),
         accepted' = accepted, wire' = wire
  PROVE  Counted'
  <1>1. buf = <<>> /\ TypeOK /\ upQueue \in Seq(Chunk)
    BY EntryShape DEF OwnInv, TypeOK
  <1>2. Len(buf') + Len(upQueue') + Len(lost') = Len(upQueue) + Len(lost)
    BY <1>1, FlushCount
  <1>3. TypeOK'
    BY DEF OwnInv
  <1> QED
    BY <1>1, <1>2, Lengths DEF Counted

LEMMA NextCounted ==
  OwnInv /\ Counted /\ [Next]_vars => Counted'
  <1> SUFFICES ASSUME OwnInv, Counted, [Next]_vars
               PROVE  Counted'
    OBVIOUS
  <1>1. ASSUME NEW w \in Writers, WriteFlush(w) PROVE Counted'
    <2>1. /\ Flush(w, upQueue, "flushing") /\ InQueue(w)
          /\ accepted' = accepted /\ wire' = wire
      BY <1>1 DEF WriteFlush, FlushFirst
    <2> QED
      BY <2>1, WriterEntry, NextOwn, FlushCounted
  <1>2. ASSUME NEW w \in Writers, WriteDirect(w) PROVE Counted'
    <2>1. InQueue(w) /\ arg[w] \in WriteSizes /\ TypeOK
      BY <1>2 DEF WriteDirect, FlushFirst, InQueue, OwnInv, ArgSet
    <2>2. NewChunk(w) \in Chunk /\ accepted \in Seq(Chunk)
      BY <2>1, NewChunkTyped DEF TypeOK
    <2>3. Len(accepted') = Len(accepted) + 1
      BY <1>2, <2>2, AppendProperties DEF WriteDirect, FlushFirst
    <2>4. Len(buf') = 1 /\ Len(buf) = 0
      BY <1>2, <2>1, WriterEntry, EntryShape DEF WriteDirect, FlushFirst
    <2>5. UNCHANGED <<wire, upQueue, lost>>
      BY <1>2 DEF WriteDirect, FlushFirst, upVars
    <2> QED
      BY <2>1, <2>3, <2>4, <2>5, Lengths DEF Counted
  <1>3. ASSUME NEW w \in Writers, WriteEnqueue(w) PROVE Counted'
    <2>1. InQueue(w) /\ arg[w] \in WriteSizes /\ TypeOK
      BY <1>3 DEF WriteEnqueue, FlushFirst, Rearm, InQueue, OwnInv, ArgSet
    <2> DEFINE q == Append(upQueue, NewChunk(w))
    <2>2. /\ NewChunk(w) \in Chunk /\ accepted \in Seq(Chunk)
          /\ upQueue \in Seq(Chunk)
      BY <2>1, NewChunkTyped DEF TypeOK
    <2>3. Len(accepted') = Len(accepted) + 1 /\ wire' = wire
      BY <1>3, <2>2, AppendProperties DEF WriteEnqueue, FlushFirst, Rearm
    <2>4. q \in Seq(Chunk) /\ Len(q) = Len(upQueue) + 1
      BY <2>2, AppendProperties
    <2>5. buf = <<>>
      BY <2>1, WriterEntry, EntryShape
    <2>6. Len(buf') + Len(upQueue') + Len(lost') = Len(q) + Len(lost)
      <3>1. CASE upSize + arg[w] >= UpPack
        <4>1. Flush(w, q, "writing")
          BY <1>3, <3>1 DEF WriteEnqueue, FlushFirst, Rearm
        <4> HIDE DEF q
        <4> QED
          BY <2>1, <2>4, <2>5, <4>1, FlushCount
      <3>2. CASE ~(upSize + arg[w] >= UpPack)
        <4>1. upQueue' = q /\ buf' = buf /\ lost' = lost
          BY <1>3, <3>2 DEF WriteEnqueue, FlushFirst, Rearm
        <4> QED
          BY <2>1, <2>4, <2>5, <4>1, Lengths
      <3> QED
        BY <3>1, <3>2
    <2>7. TypeOK'
      BY NextOwn DEF OwnInv
    <2> HIDE DEF q
    <2> QED
      BY <2>1, <2>3, <2>4, <2>5, <2>6, <2>7, Lengths DEF Counted
  <1>4. ASSUME NEW g \in Goroutines, WsWriteOk(g) PROVE Counted'
    <2>1. TypeOK /\ wire \in Seq(Chunk) /\ buf \in Seq(Chunk)
      BY DEF OwnInv, TypeOK
    <2>2. /\ wire' = wire \o buf /\ buf' = <<>>
          /\ UNCHANGED <<accepted, upQueue, lost>>
      BY <1>4 DEF WsWriteOk, upVars
    <2>3. Len(wire') = Len(wire) + Len(buf) /\ Len(buf') = 0
      BY <2>1, <2>2, ConcatProperties
    <2> QED
      BY <2>1, <2>2, <2>3, Lengths DEF Counted
  <1>5. ASSUME NEW g \in Goroutines, WsWriteFail(g) PROVE Counted'
    <2>1. /\ TypeOK /\ wire \in Seq(Chunk) /\ buf \in Seq(Chunk)
          /\ lost \in Seq(Chunk)
      BY DEF OwnInv, TypeOK
    <2>2. PICK n \in 0 .. Len(buf) :
            /\ wire' = wire \o SubSeq(buf, 1, n)
            /\ lost' = lost \o SubSeq(buf, n + 1, Len(buf))
      BY <1>5 DEF WsWriteFail
    <2>3. buf' = <<>> /\ UNCHANGED <<accepted, upQueue>>
      BY <1>5 DEF WsWriteFail, upVars
    <2>4. Len(wire') = Len(wire) + n
      BY <2>1, <2>2, HeadPart, ConcatProperties
    <2>5. Len(lost') = Len(lost) + (Len(buf) - n)
      <3> DEFINE v == SubSeq(buf, n + 1, Len(buf))
      <3>1. v \in Seq(Chunk) /\ Len(v) = Len(buf) - n
        BY <2>1, TailPart
      <3>2. lost' = lost \o v
        BY <2>2
      <3> HIDE DEF v
      <3>3. Len(lost') = Len(lost) + Len(v)
        BY <2>1, <3>1, <3>2, ConcatProperties
      <3> QED
        BY <3>1, <3>3
    <2>6. n \in Nat /\ Len(buf') = 0
      BY <2>3
    <2>7. Len(accepted') = Len(accepted) /\ Len(upQueue') = Len(upQueue)
      BY <2>3
    <2>8. Len(wire) \in Nat /\ Len(buf) \in Nat /\ Len(upQueue) \in Nat /\ Len(lost) \in Nat
      BY <2>1, Lengths
    <2> QED
      BY <2>4, <2>5, <2>6, <2>7, <2>8 DEF Counted
  <1>6. ASSUME NEW g \in Goroutines, SignalLocked(g) PROVE Counted'
    BY <1>6
    DEF SignalLocked, Unlock, Goto, Counted, OwnInv, TypeOK, upVars
  <1>7. CASE TimerFire
    BY <1>7
    DEF TimerFire, Counted, OwnInv, TypeOK, upVars
  <1>8. CASE TimerFlush
    <2>1. CASE upSize = 0
      BY <1>8, <2>1 DEF TimerFlush, Counted, upVars
    <2>2. CASE upSize # 0
      <3>1. /\ Flush(Timer, upQueue, "writing") /\ upMu = Nobody
            /\ accepted' = accepted /\ wire' = wire
        BY <1>8, <2>2 DEF TimerFlush
      <3> QED
        BY <3>1, NextOwn, FlushCounted
    <2> QED
      BY <2>1, <2>2
  <1>9. ASSUME NEW c \in Closers, CloseFlush(c) PROVE Counted'
    <2>1. CASE upSize = 0
      BY <1>9, <2>1 DEF CloseFlush, Counted, upVars
    <2>2. CASE upSize # 0
      <3>1. /\ Flush(c, upQueue, "writing") /\ upMu = Nobody
            /\ accepted' = accepted /\ wire' = wire
        BY <1>9, <2>2 DEF CloseFlush
      <3> QED
        BY <3>1, NextOwn, FlushCounted
    <2> QED
      BY <2>1, <2>2
  <1>10. CASE Quiet
    BY <1>10, QuietStep DEF Kept, upVars, Counted, OwnInv, TypeOK
  <1>11. CASE UNCHANGED vars
    BY <1>11 DEF Counted, OwnInv, TypeOK, vars, sendVars, upVars
  <1> QED
    BY <1>1, <1>2, <1>3, <1>4, <1>5, <1>6, <1>7, <1>8, <1>9, <1>10, <1>11, NextCases

LEMMA NextLossNoted ==
  OwnInv /\ LossNoted /\ [Next]_vars => LossNoted'
  <1> SUFFICES ASSUME OwnInv, LossNoted, [Next]_vars
               PROVE  LossNoted'
    OBVIOUS
  <1>1. ASSUME NEW w \in Writers, WriteFlush(w) PROVE LossNoted'
    BY <1>1
    DEF WriteFlush, FlushFirst, Flush, EmptyQueue, InQueue, Goto, LossNoted, OwnInv, TypeOK, upVars
  <1>2. ASSUME NEW w \in Writers, WriteDirect(w) PROVE LossNoted'
    BY <1>2
    DEF WriteDirect, FlushFirst, InQueue, OverLimit, TooLargeToQueue, NewChunk, Goto,
        LossNoted, OwnInv, TypeOK, upVars
  <1>3. ASSUME NEW w \in Writers, WriteEnqueue(w) PROVE LossNoted'
    BY <1>3
    DEF WriteEnqueue, FlushFirst, Rearm, Flush, EmptyQueue, Unlock, InQueue, OverLimit, TooLargeToQueue,
        NewChunk, Goto, LossNoted, OwnInv, TypeOK, upVars
  <1>4. ASSUME NEW g \in Goroutines, WsWriteOk(g) PROVE LossNoted'
    BY <1>4
    DEF WsWriteOk, Unlock, Goto, LossNoted, OwnInv, TypeOK, upVars
  <1>5. ASSUME NEW g \in Goroutines, WsWriteFail(g) PROVE LossNoted'
    <2>1. deadErr' # NoErr
      BY <1>5 DEF WsWriteFail, Blame, NoErr
    <2> QED
      BY <2>1 DEF LossNoted
  <1>6. ASSUME NEW g \in Goroutines, SignalLocked(g) PROVE LossNoted'
    BY <1>6
    DEF SignalLocked, Unlock, Goto, LossNoted, OwnInv, TypeOK, upVars
  <1>7. CASE TimerFire
    BY <1>7
    DEF TimerFire, LossNoted, OwnInv, TypeOK, upVars
  <1>8. CASE TimerFlush
    BY <1>8
    DEF TimerFlush, Flush, EmptyQueue, Goto, LossNoted, OwnInv, TypeOK, upVars
  <1>9. ASSUME NEW c \in Closers, CloseFlush(c) PROVE LossNoted'
    BY <1>9
    DEF CloseFlush, Flush, EmptyQueue, Blame, Goto, LossNoted, OwnInv, TypeOK, upVars
  <1>10. CASE Quiet
    BY <1>10, QuietStep DEF Kept, upVars, LossNoted, OwnInv, TypeOK
  <1>11. CASE UNCHANGED vars
    BY <1>11 DEF LossNoted, OwnInv, TypeOK, vars, sendVars, upVars
  <1> QED
    BY <1>1, <1>2, <1>3, <1>4, <1>5, <1>6, <1>7, <1>8, <1>9, <1>10, <1>11, NextCases

LEMMA InitData == Init => DataInv
  <1> SUFFICES ASSUME Init PROVE DataInv
    OBVIOUS
  <1>1. wire = <<>> /\ buf = <<>> /\ upQueue = <<>> /\ accepted = <<>> /\ lost = <<>>
    BY DEF Init
  <1>2. Outstanding = <<>>
    BY <1>1 DEF Outstanding
  <1>3. Lossless
    BY <1>1, <1>2 DEF Lossless, Outstanding, IsPrefix
  <1>4. Numbered
    BY <1>2 DEF Numbered, RisingTo
  <1>5. Counted /\ LossNoted
    BY <1>1 DEF Counted, LossNoted
  <1> QED
    BY <1>3, <1>4, <1>5 DEF DataInv

LEMMA NextData == OwnInv /\ DataInv /\ [Next]_vars => DataInv'
  BY NextOwn, EveryStep, NextLossless, NextNumbered, NextCounted,
     NextLossNoted DEF DataInv

\* DataInv holds at every step of every run.
THEOREM DataCorrect == Spec => []DataInv
  <1>1. Init => DataInv
    BY InitData
  <1>2. OwnInv /\ DataInv /\ [Next]_vars => DataInv'
    BY NextData
  <1> QED
    BY <1>1, <1>2, OwnCorrect, PTL DEF Spec

\* Until Close is called the websocket has been given the beginning of what
\* Write accepted, and while it works nothing is missing.
THEOREM LosslessCorrect == Spec => []Lossless
  <1>1. DataInv => Lossless
    BY DEF DataInv
  <1> QED
    BY <1>1, DataCorrect, PTL

\* No chunk overtakes another or is sent twice, whoever writes, flushes,
\* closes or fails meanwhile (upMu over flushLocked and writeDirect).
THEOREM InOrderCorrect == Spec => []InOrder
  <1>1. TypeOK /\ DataInv => InOrder
    BY WireNumbered DEF DataInv, RisingTo, InOrder
  <1> QED
    BY <1>1, DataCorrect, TypeCorrect, PTL

\* Every accepted chunk is accounted for, and a lost one leaves a reason:
\* the connection is closed or signalDead has recorded the error.
THEOREM LossReportedCorrect == Spec => []LossReported
  <1>1. DataInv => LossReported
    BY DEF DataInv, LossReported, Counted, LossNoted
  <1> QED
    BY <1>1, DataCorrect, PTL
-----------------------------------------------------------------------------
(* The reason in DeadErr *)

\* Between the two halves of signalDead.
Signalling == {"signalLocked", "signalFlush", "signal", "signalRead"}

ReasonInv ==
  /\ deadCh => deadErr # NoErr
  /\ \A g \in Goroutines : pc[g] \in Signalling => deadErr # NoErr

\* A step keeps the reason it finds.
Reasoned == ReasonInv' /\ (deadErr # NoErr => deadErr' = deadErr)

LEMMA NextReason == TypeOK /\ ReasonInv /\ [Next]_vars => Reasoned
  <1> SUFFICES ASSUME TypeOK, ReasonInv, [Next]_vars PROVE Reasoned
    OBVIOUS
  <1> USE DEF Reasoned, ReasonInv, Signalling, TypeOK, Goroutines, NoErr, upVars, sendVars, recvVars
  <1>1. ASSUME NEW w \in Writers, WriteCall(w) PROVE Reasoned
    BY <1>1 DEF WriteCall, Goto
  <1>2. ASSUME NEW w \in Writers, WriteFlush(w) PROVE Reasoned
    BY <1>2, GoroutinesAssumption DEF WriteFlush, FlushFirst, Flush, EmptyQueue, InQueue, Goto
  <1>3. ASSUME NEW w \in Writers, WriteDirect(w) PROVE Reasoned
    BY <1>3 DEF WriteDirect, FlushFirst, InQueue, OverLimit, TooLargeToQueue, NewChunk, Goto
  <1>4. ASSUME NEW w \in Writers, WriteEnqueue(w) PROVE Reasoned
    <2>1. /\ UNCHANGED <<deadErr, deadCh>>
          /\ \E next \in {"idle", "writing"} : pc' = [pc EXCEPT ![w] = next]
      BY <1>4, GoroutinesAssumption DEF WriteEnqueue, Flush, Unlock, Goto
    <2> QED
      BY <2>1
  <1>5. ASSUME NEW g \in Goroutines, WsWriteOk(g) PROVE Reasoned
    BY <1>5 DEF WsWriteOk, Unlock, Goto
  <1>6. ASSUME NEW g \in Goroutines, WsWriteFail(g) PROVE Reasoned
    BY <1>6 DEF WsWriteFail, Blame, Goto
  <1>7. ASSUME NEW g \in Goroutines, SignalLocked(g) PROVE Reasoned
    BY <1>7 DEF SignalLocked, Unlock, Goto
  <1>8. CASE TimerFire
    BY <1>8 DEF TimerFire
  <1>9. CASE TimerFlush
    BY <1>9, GoroutinesAssumption DEF TimerFlush, Flush, EmptyQueue, Goto
  <1>10. ASSUME NEW c \in Closers, CloseCall(c) PROVE Reasoned
    BY <1>10 DEF CloseCall, Goto
  <1>11. ASSUME NEW c \in Closers, CloseFlush(c) PROVE Reasoned
    <2>1. CASE upSize # 0
      BY <1>11, <2>1 DEF CloseFlush, Flush, EmptyQueue, Blame, Goto
    <2>2. CASE upSize = 0
      BY <1>11, <2>2 DEF CloseFlush, Blame, Goto
    <2> QED
      BY <2>1, <2>2
  <1>12. ASSUME NEW c \in Closers, CloseWs(c) PROVE Reasoned
    BY <1>12 DEF CloseWs, Blame, Goto
  <1>13. ASSUME NEW c \in Closers, CloseSignal(c) PROVE Reasoned
    BY <1>13 DEF CloseSignal, Goto
  <1>14. ASSUME NEW r \in Readers, ReadCall(r) PROVE Reasoned
    BY <1>14 DEF ReadCall, Goto
  <1>15. ASSUME NEW r \in Readers, ReadLock(r) PROVE Reasoned
    BY <1>15 DEF ReadLock, Goto
  <1>16. ASSUME NEW r \in Readers, ReadMessage(r) PROVE Reasoned
    BY <1>16 DEF ReadMessage, Body
  <1>17. ASSUME NEW r \in Readers, ReadEnd(r) PROVE Reasoned
    BY <1>17 DEF ReadEnd
  <1>18. ASSUME NEW r \in Readers, ReadSome(r) PROVE Reasoned
    BY <1>18 DEF ReadSome, Goto
  <1>19. ASSUME NEW r \in Readers, ReadFail(r) PROVE Reasoned
    BY <1>19 DEF ReadFail, Blame, Goto
  <1>20. ASSUME NEW r \in Readers, ReadSignal(r) PROVE Reasoned
    BY <1>20 DEF ReadSignal, Goto
  <1>21. CASE Arrive
    BY <1>21 DEF Arrive
  <1>22. CASE WsBreak
    BY <1>22 DEF WsBreak
  <1>23. CASE UNCHANGED vars
    BY <1>23 DEF vars
  <1> QED
    BY <1>1, <1>2, <1>3, <1>4, <1>5, <1>6, <1>7, <1>8, <1>9, <1>10, <1>11,
        <1>12, <1>13, <1>14, <1>15, <1>16, <1>17, <1>18, <1>19, <1>20, <1>21,
        <1>22, <1>23
    DEF Next, WriteStep, WsWrite, CloseStep, ReadStep

\* Whoever is woken by Dead() finds a reason in DeadErr(), and it stays.
THEOREM DeadReasonFixedCorrect == Spec => DeadReasonFixed
  <1>1. Init => ReasonInv
    BY DEF Init, ReasonInv, Signalling, Goroutines
  <1>2. TypeOK /\ ReasonInv /\ [Next]_vars => ReasonInv'
    BY NextReason DEF Reasoned
  <1>3. TypeOK /\ ReasonInv /\ [Next]_vars =>
          [deadCh => deadErr # NoErr /\ deadErr' = deadErr]_vars
    BY NextReason DEF Reasoned, ReasonInv
  <1> QED
    BY <1>1, <1>2, <1>3, TypeCorrect, PTL DEF Spec, DeadReasonFixed
-----------------------------------------------------------------------------
(* The size of the queue *)

BytesOf == [c \in Chunk |-> [b \in 1 .. c.len |-> c.id]]

LEMMA ChunkTyped == \A c \in Chunk : c.id \in Nat /\ c.len \in Nat
  <1>1. \A i \in 1 .. MaxWrites : i \in Nat
    BY SizesAssumption
  <1> QED
    BY <1>1, SizesPositive DEF Chunk

LEMMA BytesJoined ==
  /\ Makes(BytesOf, Chunk, Nat)
  /\ \A q \in Seq(Chunk) : Bytes(q) = Joined(BytesOf, q)
  <1>1. \A c \in Chunk : c.id \in Nat /\ c.len \in Nat
    BY ChunkTyped
  <1>2. Makes(BytesOf, Chunk, Nat)
    <2>1. ASSUME NEW c \in Chunk PROVE BytesOf[c] \in Seq(Nat)
      BY <1>1 DEF BytesOf
    <2> QED
      BY <2>1 DEF Makes
  <1>3. ASSUME NEW q \in Seq(Chunk) PROVE Bytes(q) = Joined(BytesOf, q)
    <2>1. [i \in DOMAIN q |-> [b \in 1 .. q[i].len |-> q[i].id]]
            = [i \in DOMAIN q |-> BytesOf[q[i]]]
      BY DEF BytesOf
    <2> QED
      BY <2>1 DEF Bytes, Joined
  <1> QED
    BY <1>2, <1>3

\* One more chunk adds its length.
LEMMA BytesAppend ==
  ASSUME NEW q \in Seq(Chunk), NEW c \in Chunk
  PROVE  Len(Bytes(Append(q, c))) = Len(Bytes(q)) + c.len
  <1>1. c.len \in Nat /\ c.id \in Nat
    BY ChunkTyped
  <1>2. Joined(BytesOf, Append(q, c)) = Joined(BytesOf, q) \o BytesOf[c]
    BY BytesJoined, JoinedAppend
  <1>3. Joined(BytesOf, q) \in Seq(Nat)
    BY BytesJoined, JoinedType
  <1>4. BytesOf[c] \in Seq(Nat) /\ Len(BytesOf[c]) = c.len
    BY <1>1 DEF BytesOf
  <1>5. Append(q, c) \in Seq(Chunk)
    BY AppendProperties
  <1>6. /\ Bytes(Append(q, c)) = Joined(BytesOf, Append(q, c))
        /\ Bytes(q) = Joined(BytesOf, q)
    BY <1>5, BytesJoined
  <1>7. Len(Joined(BytesOf, q) \o BytesOf[c]) = Len(Joined(BytesOf, q)) + Len(BytesOf[c])
    BY <1>3, <1>4, ConcatProperties
  <1> QED
    BY <1>2, <1>4, <1>6, <1>7

LEMMA BytesEmpty == Len(Bytes(<<>>)) = 0
  <1>1. [i \in DOMAIN <<>> |-> [b \in 1 .. <<>>[i].len |-> <<>>[i].id]] = <<>>
    OBVIOUS
  <1> QED
    BY <1>1, FlattenEmpty DEF Bytes

\* Every step empties the queue, adds to it, or leaves it alone.
QueueStep ==
  \/ UNCHANGED <<upQueue, upSize>>
  \/ upQueue' = <<>> /\ upSize' = 0
  \/ \E c \in Chunk : upQueue' = Append(upQueue, c) /\ upSize' = upSize + c.len

LEMMA NextQueueStep == OwnInv /\ [Next]_vars => QueueStep
  <1> SUFFICES ASSUME OwnInv, [Next]_vars PROVE QueueStep
    OBVIOUS
  <1> USE DEF QueueStep
  <1>1. ASSUME NEW w \in Writers, WriteFlush(w) \/ WriteDirect(w) PROVE QueueStep
    BY <1>1 DEF WriteFlush, WriteDirect, Flush, EmptyQueue, upVars
  <1>2. ASSUME NEW w \in Writers, WriteEnqueue(w) PROVE QueueStep
    <2>1. CASE upSize + arg[w] >= UpPack
      BY <1>2, <2>1 DEF WriteEnqueue, Flush, EmptyQueue
    <2>2. CASE ~(upSize + arg[w] >= UpPack)
      <3>1. InQueue(w) /\ arg[w] \in WriteSizes /\ TypeOK
        BY <1>2 DEF WriteEnqueue, InQueue, OwnInv, ArgSet
      <3>2. NewChunk(w) \in Chunk
        BY <3>1, NewChunkTyped
      <3>3. NewChunk(w).len = arg[w]
        BY DEF NewChunk
      <3>4. upQueue' = Append(upQueue, NewChunk(w)) /\ upSize' = upSize + arg[w]
        BY <1>2, <2>2 DEF WriteEnqueue
      <3> QED
        BY <3>2, <3>3, <3>4
    <2> QED
      BY <2>1, <2>2
  <1>3. ASSUME NEW g \in Goroutines, WsWriteOk(g) \/ WsWriteFail(g) \/ SignalLocked(g)
        PROVE  QueueStep
    BY <1>3 DEF WsWriteOk, WsWriteFail, SignalLocked, upVars
  <1>4. CASE TimerFire
    BY <1>4 DEF TimerFire
  <1>5. CASE TimerFlush
    BY <1>5 DEF TimerFlush, Flush, EmptyQueue, upVars
  <1>6. ASSUME NEW c \in Closers, CloseFlush(c) PROVE QueueStep
    BY <1>6 DEF CloseFlush, Flush, EmptyQueue, upVars
  <1>7. CASE Quiet
    BY <1>7, QuietStep DEF OwnInv, Kept, upVars
  <1>8. CASE UNCHANGED vars
    BY <1>8 DEF vars, sendVars
  <1> QED
    BY <1>1, <1>2, <1>3, <1>4, <1>5, <1>6, <1>7, <1>8, NextCases

\* flushLocked sizes its message by the bytes that are in it.
THEOREM SizeExactCorrect == Spec => []SizeExact
  <1>1. Init => SizeExact
    BY BytesEmpty DEF Init, SizeExact
  <1>2. OwnInv /\ SizeExact /\ [Next]_vars => SizeExact'
    <2> SUFFICES ASSUME OwnInv, SizeExact, QueueStep PROVE SizeExact'
      BY NextQueueStep
    <2>1. CASE UNCHANGED <<upQueue, upSize>>
      BY <2>1 DEF SizeExact, Bytes
    <2>2. CASE upQueue' = <<>> /\ upSize' = 0
      BY <2>2, BytesEmpty DEF SizeExact
    <2>3. ASSUME NEW c \in Chunk, upQueue' = Append(upQueue, c), upSize' = upSize + c.len
          PROVE  SizeExact'
      <3>1. upQueue \in Seq(Chunk)
        BY DEF OwnInv, TypeOK
      <3>2. Len(Bytes(upQueue')) = Len(Bytes(upQueue)) + c.len
        BY <2>3, <3>1, BytesAppend
      <3> QED
        BY <2>3, <3>2 DEF SizeExact
    <2> QED
      BY <2>1, <2>2, <2>3 DEF QueueStep
  <1> QED
    BY <1>1, <1>2, OwnCorrect, PTL DEF Spec
-----------------------------------------------------------------------------
(* What Read hands out *)

PiecesOf == [m \in Message |-> IF m.binary THEN m.body ELSE <<>>]

LEMMA PiecesJoined ==
  /\ Makes(PiecesOf, Message, Piece)
  /\ \A s \in Seq(Message) : BinaryPieces(s) = Joined(PiecesOf, s)
  <1>1. Makes(PiecesOf, Message, Piece)
    <2>1. ASSUME NEW m \in Message PROVE PiecesOf[m] \in Seq(Piece)
      BY DEF PiecesOf, Message
    <2> QED
      BY <2>1 DEF Makes
  <1>2. ASSUME NEW s \in Seq(Message) PROVE BinaryPieces(s) = Joined(PiecesOf, s)
    <2>1. [i \in DOMAIN s |-> IF s[i].binary THEN s[i].body ELSE <<>>]
            = [i \in DOMAIN s |-> PiecesOf[s[i]]]
      BY DEF PiecesOf
    <2> QED
      BY <2>1 DEF BinaryPieces, Joined
  <1> QED
    BY <1>1, <1>2

LEMMA PiecesTyped ==
  /\ \A s \in Seq(Message) : BinaryPieces(s) \in Seq(Piece)
  /\ \A m \in Message : PiecesOf[m] \in Seq(Piece)
  BY PiecesJoined, JoinedType DEF Makes

LEMMA PieceAssoc == \A s, t, u \in Seq(Piece) : (s \o t) \o u = s \o (t \o u)
  BY ConcatAssoc

LEMMA PiecesAppend ==
  ASSUME NEW s \in Seq(Message), NEW m \in Message
  PROVE  BinaryPieces(Append(s, m)) = BinaryPieces(s) \o PiecesOf[m]
  <1>1. Append(s, m) \in Seq(Message)
    BY AppendProperties
  <1>2. Joined(PiecesOf, Append(s, m)) = Joined(PiecesOf, s) \o PiecesOf[m]
    BY PiecesJoined, JoinedAppend
  <1> QED
    BY <1>1, <1>2, PiecesJoined

LEMMA PiecesHead ==
  ASSUME NEW s \in Seq(Message), s # <<>>
  PROVE  /\ Head(s) \in Message /\ Tail(s) \in Seq(Message)
         /\ BinaryPieces(s) = PiecesOf[Head(s)] \o BinaryPieces(Tail(s))
  <1>1. /\ Head(s) \in Message /\ Tail(s) \in Seq(Message)
        /\ Joined(PiecesOf, s) = PiecesOf[Head(s)] \o Joined(PiecesOf, Tail(s))
    BY PiecesJoined, JoinedHead
  <1> QED
    BY <1>1, PiecesJoined

\* What is left of the message being read.
Rest == IF reader = NoMessage THEN <<>> ELSE reader

LEMMA RestTyped == TypeOK => Rest \in Seq(Piece)
  BY DEF TypeOK, Rest

\* The steps of a reader, and the others.
ReadMoves ==
  \/ \E r \in Readers : ReadMessage(r) \/ ReadEnd(r) \/ ReadSome(r)
  \/ Arrive
  \/ UNCHANGED <<reader, rx, arrived, got>>

LEMMA NextReadMoves == [Next]_vars => ReadMoves
  <1> SUFFICES ASSUME [Next]_vars PROVE ReadMoves
    OBVIOUS
  <1> USE DEF ReadMoves
  <1>1. ASSUME NEW w \in Writers, WriteStep(w) PROVE ReadMoves
    BY <1>1 DEF WriteStep, WriteCall, WriteFlush, WriteDirect, WriteEnqueue, recvVars
  <1>2. ASSUME NEW g \in Goroutines, WsWrite(g) PROVE ReadMoves
    BY <1>2 DEF WsWrite, WsWriteOk, WsWriteFail, SignalLocked, recvVars
  <1>3. CASE TimerFire \/ TimerFlush
    BY <1>3 DEF TimerFire, TimerFlush, recvVars
  <1>4. ASSUME NEW c \in Closers, CloseStep(c) PROVE ReadMoves
    BY <1>4 DEF CloseStep, CloseCall, CloseFlush, CloseWs, CloseSignal, recvVars
  <1>5. ASSUME NEW r \in Readers, ReadStep(r) PROVE ReadMoves
    BY <1>5 DEF ReadStep, ReadCall, ReadLock, ReadFail, ReadSignal, recvVars
  <1>6. CASE WsBreak
    BY <1>6 DEF WsBreak, recvVars
  <1>7. CASE UNCHANGED vars
    BY <1>7 DEF vars, recvVars
  <1> QED
    BY <1>1, <1>2, <1>3, <1>4, <1>5, <1>6, <1>7 DEF Next

LEMMA MessageStream ==
  ASSUME TypeOK, ReadStream, NEW r \in Readers, ReadMessage(r)
  PROVE  ReadStream'
  <1>1. /\ rx \in Seq(Message) /\ rx # <<>> /\ got \in Seq(Piece)
        /\ reader = NoMessage /\ rx' = Tail(rx) /\ reader' = Body(Head(rx))
        /\ UNCHANGED <<arrived, got>>
    BY DEF ReadMessage, TypeOK
  <1>2. /\ Head(rx) \in Message /\ Tail(rx) \in Seq(Message)
        /\ BinaryPieces(rx) = PiecesOf[Head(rx)] \o BinaryPieces(Tail(rx))
    BY <1>1, PiecesHead
  <1>3. PiecesOf[Head(rx)] \in Seq(Piece) /\ BinaryPieces(Tail(rx)) \in Seq(Piece)
    BY <1>2, PiecesTyped
  <1>4. Rest' = PiecesOf[Head(rx)]
    <2>1. Head(rx).body \in Seq(Piece) /\ Head(rx).body # NoMessage
      BY <1>2, ReaderAssumption DEF Message
    <2> QED
      BY <1>1, <1>2, <2>1 DEF Rest, Body, PiecesOf
  <1>5. BinaryPieces(arrived) = got \o <<>> \o (PiecesOf[Head(rx)] \o BinaryPieces(Tail(rx)))
    BY <1>1, <1>2 DEF ReadStream
  <1>6. got \o <<>> = got
    BY <1>1, ConcatEmptySeq
  <1>7. got \o (PiecesOf[Head(rx)] \o BinaryPieces(Tail(rx)))
          = got \o PiecesOf[Head(rx)] \o BinaryPieces(Tail(rx))
    BY ONLY <1>1, <1>3, PieceAssoc, Zenon
  <1>8. BinaryPieces(arrived) = got \o PiecesOf[Head(rx)] \o BinaryPieces(Tail(rx))
    BY <1>5, <1>6, <1>7
  <1> QED
    BY <1>1, <1>4, <1>8 DEF ReadStream, Rest

LEMMA SomeStream ==
  ASSUME TypeOK, TypeOK', ReadStream, NEW r \in Readers, ReadSome(r)
  PROVE  ReadStream'
  <1>1. /\ reader \in Seq(Piece) /\ reader # NoMessage
        /\ got \in Seq(Piece) /\ UNCHANGED <<arrived, rx>>
    BY DEF ReadSome, TypeOK
  <1>2. PICK n \in 1 .. Len(reader) :
          /\ got' = got \o SubSeq(reader, 1, n)
          /\ reader' = SubSeq(reader, n + 1, Len(reader))
    BY DEF ReadSome
  <1> DEFINE u == SubSeq(reader, 1, n)
             v == SubSeq(reader, n + 1, Len(reader))
  <1>3. n \in 0 .. Len(reader)
    BY <1>1, <1>2
  <1>4. u \in Seq(Piece) /\ v \in Seq(Piece)
    BY <1>1, <1>3, HeadPart, TailPart
  <1>5. u \o v = reader
    <2>1. /\ 1 \in 1 .. Len(reader) + 1 /\ n \in 1 - 1 .. Len(reader)
          /\ Len(reader) \in n .. Len(reader)
      BY <1>1, <1>3
    <2>2. u \o v = SubSeq(reader, 1, Len(reader))
      BY <1>1, <2>1, ConcatAdjacentSubSeq
    <2> QED
      BY <1>1, <2>2, SubSeqFull
  <1> HIDE DEF u, v
  <1>6. got \o (u \o v) = (got \o u) \o v
    BY ONLY <1>1, <1>4, PieceAssoc, Zenon
  <1>7. v # NoMessage
    BY <1>4, ReaderAssumption
  <1>8. got' = got \o u /\ reader' = v
    BY <1>2 DEF u, v
  <1>9. BinaryPieces(arrived) = got \o reader \o BinaryPieces(rx)
    BY <1>1 DEF ReadStream
  <1>10. BinaryPieces(arrived') = got' \o reader' \o BinaryPieces(rx')
    BY <1>1, <1>5, <1>6, <1>8, <1>9
  <1> QED
    BY <1>7, <1>8, <1>10 DEF ReadStream

LEMMA ArriveStream ==
  ASSUME TypeOK, ReadStream, Arrive
  PROVE  ReadStream'
  <1>1. PICK m \in Message : rx' = Append(rx, m) /\ arrived' = Append(arrived, m)
    <2>1. PICK n \in FrameSizes, binary \in BOOLEAN :
            LET m == [binary |-> binary,
                      body |-> [i \in 1 .. n |-> <<Len(arrived) + 1, i>>]]
            IN  rx' = Append(rx, m) /\ arrived' = Append(arrived, m)
      BY DEF Arrive
    <2> DEFINE body == [i \in 1 .. n |-> <<Len(arrived) + 1, i>>]
    <2>2. n \in Nat /\ Len(arrived) + 1 \in 1 .. MaxFrames
      <3>1. Len(arrived) \in Nat /\ n \in Nat /\ MaxFrames \in Nat
        BY SizesAssumption DEF TypeOK
      <3> QED
        BY <3>1 DEF Arrive
    <2>3. \A i \in 1 .. n : <<Len(arrived) + 1, i>> \in Piece
      BY <2>2 DEF Piece
    <2>4. body \in Seq(Piece)
      BY <2>2, <2>3
    <2>5. [binary |-> binary, body |-> body] \in Message
      BY <2>4 DEF Message
    <2> QED
      BY <2>1, <2>5
  <1>2. /\ rx \in Seq(Message) /\ arrived \in Seq(Message) /\ got \in Seq(Piece)
        /\ UNCHANGED <<reader, got>> /\ Rest \in Seq(Piece)
    BY RestTyped DEF Arrive, TypeOK
  <1>3. /\ BinaryPieces(rx') = BinaryPieces(rx) \o PiecesOf[m]
        /\ BinaryPieces(arrived') = BinaryPieces(arrived) \o PiecesOf[m]
    BY <1>1, <1>2, PiecesAppend
  <1>4. /\ BinaryPieces(rx) \in Seq(Piece) /\ PiecesOf[m] \in Seq(Piece)
        /\ got \o Rest \in Seq(Piece)
    BY <1>1, <1>2, PiecesTyped, ConcatProperties
  <1>5. ((got \o Rest) \o BinaryPieces(rx)) \o PiecesOf[m]
          = (got \o Rest) \o (BinaryPieces(rx) \o PiecesOf[m])
    BY ONLY <1>4, PieceAssoc, Zenon
  <1>6. BinaryPieces(arrived) = (got \o Rest) \o BinaryPieces(rx)
    BY DEF ReadStream, Rest
  <1>7. BinaryPieces(arrived') = (got \o Rest) \o BinaryPieces(rx')
    BY <1>3, <1>5, <1>6
  <1> QED
    BY <1>2, <1>7 DEF ReadStream, Rest

\* Readers get the bytes of the binary messages, whoever reads, however much
\* at a time, whatever else arrives and whoever closes.
THEOREM ReadStreamCorrect == Spec => []ReadStream
  <1>1. Init => ReadStream
    <2>1. BinaryPieces(<<>>) = <<>>
      <3>1. <<>> \in Seq(Message)
        OBVIOUS
      <3> QED
        BY <3>1, PiecesJoined, JoinedEmpty
    <2>2. <<>> \o <<>> \o <<>> = <<>>
      OBVIOUS
    <2> QED
      BY <2>1, <2>2 DEF Init, ReadStream
  <1>2. TypeOK /\ TypeOK' /\ ReadStream /\ [Next]_vars => ReadStream'
    <2> SUFFICES ASSUME TypeOK, TypeOK', ReadStream, ReadMoves PROVE ReadStream'
      BY NextReadMoves
    <2>1. ASSUME NEW r \in Readers, ReadMessage(r) PROVE ReadStream'
      BY <2>1, MessageStream
    <2>2. ASSUME NEW r \in Readers, ReadEnd(r) PROVE ReadStream'
      <3>1. /\ reader = <<>> /\ reader' = NoMessage
            /\ UNCHANGED <<rx, arrived, got>>
        BY <2>2 DEF ReadEnd
      <3> QED
        BY <3>1 DEF ReadStream, BinaryPieces
    <2>3. ASSUME NEW r \in Readers, ReadSome(r) PROVE ReadStream'
      BY <2>3, SomeStream
    <2>4. CASE Arrive
      BY <2>4, ArriveStream
    <2>5. CASE UNCHANGED <<reader, rx, arrived, got>>
      BY <2>5 DEF ReadStream, BinaryPieces
    <2> QED
      BY <2>1, <2>2, <2>3, <2>4, <2>5 DEF ReadMoves
  <1> QED
    BY <1>1, <1>2, TypeCorrect, PTL DEF Spec
-----------------------------------------------------------------------------
(* The abstract stream *)

\* What ByteStream calls waiting and up.
Waiting == buf \o upQueue
Up == ~closed /\ ~broken

\* A chunk is taken by a connection that holds all it took.
LEMMA StreamAccept ==
  ASSUME NEW x \in Chunk, accepted' = Append(accepted, x),
         Waiting' = Append(Waiting, x), wire' = wire, Up' = Up
  PROVE  Stream!Next
  <1>1. Stream!Accept(x)
    BY DEF Stream!Accept, Waiting, Up
  <1> QED
    BY <1>1 DEF Stream!Next

\* A chunk is taken by a closed connection, which drops all it holds.
LEMMA StreamAcceptAndDrop ==
  ASSUME NEW x \in Chunk, accepted' = Append(accepted, x), ~Up, ~Up',
         Waiting' = <<>>, wire' = wire
  PROVE  Stream!Next
  <1>1. Stream!AcceptAndDrop(x)
    BY DEF Stream!AcceptAndDrop, Waiting, Up
  <1> QED
    BY <1>1 DEF Stream!Next

\* All that waits is sent.
LEMMA StreamTransmit ==
  ASSUME TypeOK, Waiting # <<>>, accepted' = accepted, wire' = wire \o Waiting,
         Waiting' = <<>>, Up' = Up
  PROVE  Stream!Next
  <1> DEFINE n == Len(Waiting)
  <1>1. Waiting \in Seq(Chunk)
    BY OutstandingTyped DEF Waiting
  <1>2. n \in 1 .. n
    BY <1>1
  <1>3. SubSeq(Waiting, 1, n) = Waiting
    BY <1>1, SubSeqFull
  <1>4. SubSeq(Waiting, n + 1, n) = <<>>
    BY <1>2, SubSeqEmpty
  <1>5. Stream!Transmit(n)
    BY <1>3, <1>4 DEF Stream!Transmit, Waiting, Up
  <1> QED
    BY <1>2, <1>5 DEF Stream!Next, Waiting

\* The link is down: the first n that wait are sent, the others dropped.
LEMMA StreamCut ==
  ASSUME TypeOK, NEW n \in 0 .. Len(Waiting), ~Up', accepted' = accepted,
         wire' = wire \o SubSeq(Waiting, 1, n), Waiting' = <<>>
  PROVE  Stream!Next
  <1> DEFINE k == Len(Waiting)
  <1>1. Waiting \in Seq(Chunk)
    BY OutstandingTyped DEF Waiting
  <1>2. k \in 0 .. k /\ n \in 0 .. k /\ n \in 0 .. n
    BY <1>1
  <1>3. SubSeq(Waiting, n + 1, n) = <<>> /\ SubSeq(Waiting, k + 1, k) = <<>>
    BY <1>2, SubSeqEmpty
  <1>4. Waiting' = SubSeq(Waiting, n + 1, n) \o SubSeq(Waiting, k + 1, k)
    BY <1>3, ConcatEmpty
  <1>5. Stream!Degrade(n, n, k)
    BY <1>4 DEF Stream!Degrade, Waiting, Up
  <1> QED
    BY <1>2, <1>5 DEF Stream!Next, Waiting

\* The link is down, and what waits goes on waiting.
LEMMA StreamDown ==
  ASSUME TypeOK, ~Up', accepted' = accepted, wire' = wire, Waiting' = Waiting
  PROVE  Stream!Next
  <1> DEFINE k == Len(Waiting)
  <1>1. Waiting \in Seq(Chunk) /\ wire \in Seq(Chunk)
    BY OutstandingTyped DEF Waiting, TypeOK
  <1>2. k \in 0 .. k /\ 0 \in 0 .. k /\ 0 \in 0 .. 0
    BY <1>1
  <1>3. SubSeq(Waiting, 1, 0) = <<>>
    BY SubSeqEmpty
  <1>4. SubSeq(Waiting, 1, k) = Waiting
    BY <1>1, SubSeqFull
  <1>5. /\ wire' = wire \o SubSeq(Waiting, 1, 0)
        /\ Waiting' = SubSeq(Waiting, 0 + 1, 0) \o SubSeq(Waiting, 0 + 1, k)
    BY <1>1, <1>3, <1>4, ConcatEmpty
  <1>6. Stream!Degrade(0, 0, 0)
    BY <1>5 DEF Stream!Degrade, Waiting, Up
  <1> QED
    BY <1>2, <1>6 DEF Stream!Next, Waiting

\* Every step is a step of the stream, or none.
LEMMA NextStream == OwnInv /\ OwnInv' /\ [Next]_vars => [Stream!Next]_(Stream!vars)
  <1> SUFFICES ASSUME OwnInv, OwnInv', StepShape PROVE [Stream!Next]_(Stream!vars)
    BY EveryStep
  <1> DEFINE Goal == [Stream!Next]_(Stream!vars)
  <1>1. TypeOK /\ TypeOK'
    BY DEF OwnInv
  <1>2. /\ wire \in Seq(Chunk) /\ Waiting \in Seq(Chunk)
        /\ wire' \in Seq(Chunk) /\ Waiting' \in Seq(Chunk)
    <2>1. wire \in Seq(Chunk) /\ wire' \in Seq(Chunk)
      BY <1>1 DEF TypeOK
    <2>2. Waiting \in Seq(Chunk)
      BY <1>1, OutstandingTyped DEF Waiting
    <2>3. buf' \in Seq(Chunk) /\ upQueue' \in Seq(Chunk)
      BY <1>1 DEF TypeOK
    <2>4. Waiting' \in Seq(Chunk)
      BY <2>3, ConcatProperties DEF Waiting
    <2> QED
      BY <2>1, <2>2, <2>4
  <1>3. Outstanding = wire \o Waiting
    BY <1>1, OutstandingTyped DEF Waiting
  <1>4. Outstanding' = wire' \o Waiting'
    <2>1. wire' \in Seq(Chunk) /\ buf' \in Seq(Chunk) /\ upQueue' \in Seq(Chunk)
      BY <1>1 DEF TypeOK
    <2> QED
      BY <2>1, ConcatAssociative DEF Outstanding, Waiting
  <1>5. ~Up => ~Up'
    BY DEF StepShape, Up
  <1>6. Up' = Up \/ ~Up'
    BY <1>5 DEF Up
  <1>7. ASSUME accepted' = accepted, wire' = wire, Waiting' = Waiting, Up' = Up
        PROVE  Goal
    BY <1>7 DEF Stream!vars, Waiting, Up
  <1>8. ASSUME Stream!Next PROVE Goal
    BY <1>8
  <1> HIDE DEF Goal
  <1>9. CASE Keeps
    <2>1. accepted' = accepted /\ wire' \o Waiting' = wire \o Waiting
      BY <1>3, <1>4, <1>9 DEF Keeps
    <2>2. CASE wire' = wire
      <3>1. Waiting' = Waiting
        BY <1>2, <2>1, <2>2, ConcatSimplifications
      <3> QED
        BY <1>1, <1>6, <1>7, <1>8, <2>1, <2>2, <3>1, StreamDown DEF Goal
    <2>3. CASE wire' = Outstanding /\ wire' # wire
      <3>1. wire' = wire \o Waiting /\ wire' \o Waiting' = wire'
        BY <1>3, <2>1, <2>3
      <3>2. Waiting' = <<>>
        BY <1>2, <3>1, ConcatSimplifications
      <3>3. Waiting # <<>>
        BY <1>2, <2>3, <3>1, ConcatEmpty
      <3>4. CASE Up' = Up
        BY <1>1, <1>8, <2>1, <3>1, <3>2, <3>3, <3>4, StreamTransmit DEF Goal
      <3>5. CASE ~Up'
        <4>1. Len(Waiting) \in 0 .. Len(Waiting)
          BY <1>2
        <4>2. SubSeq(Waiting, 1, Len(Waiting)) = Waiting
          BY <1>2, SubSeqFull
        <4> QED
          BY <1>1, <1>8, <2>1, <3>1, <3>2, <3>5, <4>1, <4>2, StreamCut DEF Goal
      <3> QED
        BY <1>6, <3>4, <3>5
    <2> QED
      BY <1>9, <2>2, <2>3 DEF Keeps
  <1>10. CASE Takes
    <2>1. PICK x \in Chunk : /\ accepted' = Append(accepted, x)
                             /\ Outstanding' = Append(Outstanding, x)
                             /\ UNCHANGED <<wire, closed, broken>>
      BY <1>10 DEF Takes
    <2>2. Append(Waiting, x) \in Seq(Chunk)
      BY <1>2, AppendProperties
    <2>3. wire \o Waiting' = wire \o Append(Waiting, x)
      <3>1. Append(wire \o Waiting, x) = wire \o Append(Waiting, x)
        <4>1. \A s, t \in Seq(Chunk), e \in Chunk : Append(s \o t, e) = s \o Append(t, e)
          BY AppendConcat
        <4>2. x \in Chunk /\ wire \in Seq(Chunk) /\ Waiting \in Seq(Chunk)
          BY <1>2
        <4> QED
          BY ONLY <4>1, <4>2, Zenon
      <3>2. wire \o Waiting' = Append(wire \o Waiting, x)
        BY <1>3, <1>4, <2>1
      <3> QED
        BY <3>1, <3>2
    <2>4. Waiting' = Append(Waiting, x)
      BY <1>2, <2>2, <2>3, ConcatSimplifications
    <2>5. Up' = Up
      BY <2>1 DEF Up
    <2> QED
      BY <1>8, <2>1, <2>4, <2>5, StreamAccept DEF Goal
  <1>11. CASE Drops
    <2>1. wire' = wire /\ wire' \o Waiting' = wire'
      BY <1>4, <1>11 DEF Drops
    <2>2. Waiting' = <<>>
      BY <1>2, <2>1, ConcatSimplifications
    <2>3. ~Up /\ ~Up'
      BY <1>5, <1>11 DEF Drops, Up
    <2>4. CASE accepted' = accepted
      <3>1. SubSeq(Waiting, 1, 0) = <<>> /\ 0 \in 0 .. Len(Waiting)
        BY <1>2, SubSeqEmpty
      <3>2. wire' = wire \o SubSeq(Waiting, 1, 0)
        BY <1>2, <2>1, <3>1, ConcatEmpty
      <3> QED
        BY <1>1, <1>8, <2>2, <2>3, <2>4, <3>1, <3>2, StreamCut DEF Goal
    <2>5. ASSUME NEW x \in Chunk, accepted' = Append(accepted, x) PROVE Goal
      BY <1>8, <2>1, <2>2, <2>3, <2>5, StreamAcceptAndDrop DEF Goal
    <2> QED
      BY <1>11, <2>4, <2>5 DEF Drops, Goal
  <1>12. CASE Cuts
    <2>1. PICK n \in 0 .. Len(buf) :
            /\ broken' /\ accepted' = accepted /\ upQueue = <<>>
            /\ Outstanding' = wire \o SubSeq(buf, 1, n)
            /\ wire' = wire \o SubSeq(buf, 1, n)
      BY <1>12 DEF Cuts
    <2>2. buf = Waiting
      <3>1. buf \in Seq(Chunk)
        BY <1>1 DEF TypeOK
      <3> QED
        BY <2>1, <3>1, ConcatEmpty DEF Waiting
    <2>3. wire' \o Waiting' = wire'
      BY <1>4, <2>1
    <2>4. Waiting' = <<>>
      BY <1>2, <2>3, ConcatSimplifications
    <2>5. ~Up'
      BY <2>1 DEF Up
    <2> QED
      BY <1>1, <1>8, <2>1, <2>2, <2>4, <2>5, StreamCut DEF Goal
  <1> QED
    BY <1>9, <1>10, <1>11, <1>12 DEF StepShape, Goal

\* The connection with its queue, its timer and its locks is a byte stream:
\* what Write took reaches the websocket in order and once, while it is up
\* all of it, and afterwards nothing that was dropped comes back.
THEOREM ImplementsStreamCorrect == Spec => ImplementsStream
  <1>1. Init => Stream!Init
    <2>1. <<>> \o <<>> = <<>>
      OBVIOUS
    <2> QED
      BY <2>1 DEF Init, Stream!Init
  <1>2. OwnInv /\ OwnInv' /\ [Next]_vars => [Stream!Next]_(Stream!vars)
    BY NextStream
  <1> QED
    BY <1>1, <1>2, OwnCorrect, PTL DEF Spec, ImplementsStream, Stream!Spec
=============================================================================
