-------------------------- MODULE TCPTunnel_proofs ---------------------------
(***************************************************************************)
(* The safety properties of TCPTunnel, for any number of pieces, answers   *)
(* and places in dataCh: what the relay does with the target connection,   *)
(* that neither end of the connection cuts off the other's data, and that  *)
(* the way from the application to the target is a byte stream.            *)
(***************************************************************************)
EXTENDS TCPTunnel, SeqLemmas

Requesting == {"greet", "greetPassword", "auth", "request", "head", "headPassword",
               "password", "connect", "host", "body", "open", "openFirst"}

FrontTypeOK ==
  /\ phase \in Requesting \cup {"udp", "first", "copy", "over"}
  /\ typed \in Nat /\ appEnded \in BOOLEAN /\ consumed \in Nat /\ swallowed \in Nat
  /\ upCopy \in {"off", "read", "write", "eof", "failed"}
  /\ downCopy \in {"off", "read", "write", "eof", "failed"}
  /\ stream \in {"none", "open", "closed"}
  /\ sent \in Seq(Nat) /\ got \in Nat /\ delivered \in Nat

RelayTypeOK ==
  /\ reader \in {"read", "send", "fail", "done"}
  /\ dialer \in {"dial", "have", "fail", "done"}
  /\ handler \in {"wait", "relay", "write", "closing", "returned"}
  /\ downloader \in {"off", "read", "write", "done"}
  /\ inReader \in Seq(Nat) /\ dataCh \in Seq(Nat) /\ inHandler \in Seq(Nat)
  /\ dataClosed \in BOOLEAN /\ errs \in Nat /\ conn \in {"none", "open", "closed"}
  /\ dialCh \in BOOLEAN /\ cancelled \in BOOLEAN /\ streamClosed \in BOOLEAN
  /\ ended \in {"no", "err", "timeout", "eof", "cancel", "write"}
  /\ taken \in Seq(Nat) /\ written \in Seq(Nat)

\* Every variable has its type.
TypeOK ==
  /\ FrontTypeOK /\ RelayTypeOK
  /\ answered \in Nat /\ broken \in BOOLEAN /\ served \in BOOLEAN /\ targetEnded \in BOOLEAN

\* The target connection is the dialer's, then in dialCh, then the handler's.
HolderInv ==
  /\ dialer \in {"dial", "fail"} => conn = "none"
  /\ dialer = "have" => conn = "open"
  /\ dialer # "done" => ~dialCh /\ ended \in {"no", "err", "timeout"}
  /\ handler \in {"relay", "write"} => conn = "open" /\ dialer = "done" /\ ~dialCh
  /\ dialCh => conn = "open" /\ ended \in {"no", "err", "timeout"}
  /\ dialer = "done" /\ conn = "open" => dialCh \/ handler \in {"relay", "write"}

\* The goroutines end each other: the flags say who has.
EndInv ==
  /\ ended = "no" <=> handler \in {"wait", "relay", "write"}
  /\ cancelled <=> ended # "no" \/ downloader = "done"
  /\ handler = "wait" => downloader = "off"
  /\ dataClosed <=> reader = "done"
  /\ streamClosed <=> handler = "returned"

\* On its way through the relay.
Flow == ((written \o inHandler) \o dataCh) \o inReader

\* The relay loses nothing until ctx is cancelled, and never changes the order.
FlowInv ==
  /\ \A i \in DOMAIN taken : taken[i] = i
  /\ Len(taken) <= Len(sent)
  /\ reader # "send" => inReader = <<>>
  /\ handler # "write" => inHandler = <<>>
  /\ IsPrefix(written, taken)
  /\ ended = "no" => IsPrefix(Flow, taken)
  /\ ended = "no" /\ (reader # "done" \/ ~cancelled) => Flow = taken

\* The reader ends when there is nothing more to read.
ReadAllInv ==
  /\ reader \in {"fail", "done"} /\ ~cancelled /\ ~broken =>
       stream = "closed" /\ Len(taken) = Len(sent)
  /\ ended = "eof" /\ downloader # "done" /\ ~broken =>
       /\ reader = "done" /\ written = taken
       /\ stream = "closed" /\ Len(taken) = Len(sent)

\* The first z items of the stream are the request, the others the pieces that
\* were taken from the application, but for d of them.
SentShape(z, d) ==
  /\ z <= Len(sent) /\ swallowed <= consumed
  /\ Len(sent) + d = z + (consumed - swallowed)
  /\ \A k \in DOMAIN sent : sent[k] = IF k <= z THEN 0 ELSE swallowed + (k - z)

\* The front end passes on what it takes; a copy that fails keeps one piece.
SentInv ==
  /\ phase \in Requesting \cup {"udp"} => upCopy = "off" /\ stream = "none"
  /\ phase \in {"greet", "greetPassword", "head", "headPassword"} =>
       consumed = 0 /\ swallowed = 0
  /\ phase = "first" => upCopy = "off" /\ stream = "open"
  /\ upCopy = "off" => sent = <<>> /\ consumed = swallowed /\ downCopy = "off"
  /\ upCopy = "eof" => stream = "closed"
  /\ \E z \in {0, 1}, d \in {0, 1} :
       /\ SentShape(z, d)
       /\ upCopy \in {"off", "read", "eof"} => d = 0
       /\ upCopy = "write" => d = 1

\* The other copy passes on every answer it takes.
AnswerInv ==
  /\ got <= answered
  /\ downCopy \in {"off", "read", "eof"} => got = delivered
  /\ downCopy = "write" => got = delivered + 1
  /\ downCopy = "eof" => streamClosed /\ got = answered

\* Somebody else than the two programs and the target ended the connection.
Ends == appEnded \/ broken

\* Why the way down is over: step by step, from the stream back to the target.
OverInv ==
  /\ downCopy \in {"eof", "failed"} => stream = "closed"
  /\ stream = "closed" => Ends \/ streamClosed
  /\ handler \in {"closing", "returned"} =>
       downloader = "off" \/ targetEnded \/ ended = "write" \/ Ends
  /\ reader \in {"fail", "done"} => Ends \/ cancelled
  /\ downloader = "done" /\ handler \in {"relay", "write"} => targetEnded \/ Ends
  /\ stream = "closed" /\ downCopy \in {"read", "write", "failed"} => Ends \/ Taken # sent

IInv ==
  /\ TypeOK /\ HolderInv /\ EndInv /\ FlowInv /\ ReadAllInv /\ SentInv /\ AnswerInv
  /\ OverInv
-----------------------------------------------------------------------------
(* The steps *)

RelayStep ==
  \/ Arrives \/ StreamEnds \/ R!SendChunk \/ R!DropChunk \/ R!ReaderEnd
  \/ R!DialerStep \/ R!HandlerStep
  \/ R!ReadTarget \/ R!WriteStream \/ R!DownloadError

\* A step is one of the front end or of the relay, or of neither.
LEMMA StepKinds ==
  ASSUME [Next]_vars
  PROVE  \/ F!Next /\ UNCHANGED <<relayVars, linkVars>>
         \/ /\ UNCHANGED <<frontVars, relayVars, answered, targetEnded>>
            /\ broken => broken'
            /\ broken' \in {broken, TRUE} /\ served' \in {served, TRUE}
         \/ /\ RelayStep /\ UNCHANGED <<frontVars, broken, served>>
            /\ answered' = answered \/ (R!WriteStream /\ answered' = answered + 1)
            /\ targetEnded \in BOOLEAN => targetEnded' \in BOOLEAN
  BY DEF Next, vars, Client, Server, Serve, Break, Arrives, StreamEnds, Relays, Answers,
         Answer, DownloadEnds, RelayStep, linkVars

LEMMA InitType == Init => TypeOK
  <1>1. <<>> \in Seq(Nat) /\ 0 \in Nat
    OBVIOUS
  <1> QED
    BY <1>1
    DEF Init, F!Init, R!Init, TypeOK, FrontTypeOK, RelayTypeOK, Requesting

\* The HTTP reader takes what follows the request, with its head or its body.
LEMMA Swallows ==
  ASSUME TypeOK, F!ReadHead \/ F!Body
  PROVE  /\ phase \in {"head", "headPassword", "body"}
         /\ phase' \in {"host", "password", "openFirst"}
         /\ \E k \in Nat : k <= typed /\ consumed' = k /\ swallowed' = k
         /\ UNCHANGED <<typed, appEnded, upCopy, downCopy, stream, sent, got, delivered>>
  <1> USE DEF F!appVars, F!copyVars
  <1>0. typed \in Nat /\ consumed \in Nat
    BY DEF TypeOK, FrontTypeOK
  <1>1. \E k \in Nat : k <= typed /\ consumed' = k /\ swallowed' = k
    <2>1. CASE F!ReadHead
      <3>1. PICK k \in 0 .. typed : consumed' = k /\ swallowed' = k
        BY <2>1 DEF F!ReadHead
      <3> QED
        BY <1>0, <3>1
    <2>2. CASE F!Body
      <3>1. PICK k \in consumed .. typed : consumed' = k /\ swallowed' = k
        BY <2>2 DEF F!Body
      <3> QED
        BY <1>0, <3>1
    <2> QED
      BY <2>1, <2>2
  <1> QED
    BY <1>1 DEF F!ReadHead, F!Body

LEMMA FrontType ==
  ASSUME TypeOK, F!Next
  PROVE  FrontTypeOK'
  <1> USE DEF TypeOK, FrontTypeOK, Requesting, F!appVars, F!copyVars
  <1>1. ASSUME F!AppSends \/ F!AppEnds PROVE FrontTypeOK'
    <2>1. ASSUME F!AppSends PROVE FrontTypeOK'
      BY <2>1 DEF F!AppSends
    <2>2. ASSUME F!AppEnds PROVE FrontTypeOK'
      BY <2>2 DEF F!AppEnds
    <2> QED
      BY <1>1, <2>1, <2>2
  <1>2. ASSUME F!RequestFails \/ F!Greet \/ F!UserPass \/ F!Request \/ F!Grant PROVE FrontTypeOK'
    BY <1>2 DEF F!RequestFails, F!Greet, F!UserPass, F!Request, F!Grant, F!GoTo
  <1>3. ASSUME F!ReadHead \/ F!Body PROVE FrontTypeOK'
    BY <1>3, Swallows
  <1>4. ASSUME F!Password \/ F!Host \/ F!Open \/ F!OpenFails PROVE FrontTypeOK'
    BY <1>4 DEF F!Password, F!Host, F!Open, F!OpenFails, F!GoTo
  <1>5. ASSUME F!WriteFirst \/ F!WriteFirstFails \/ F!Done PROVE FrontTypeOK'
    <2>1. <<0>> \in Seq(Nat)
      OBVIOUS
    <2> QED
      BY <1>5, <2>1 DEF F!WriteFirst, F!WriteFirstFails, F!Done
  <1>6. ASSUME F!UpWrite PROVE FrontTypeOK'
    <2>1. sent' \in Seq(Nat)
      BY <1>6, AppendProperties DEF F!UpWrite
    <2> QED
      BY <1>6, <2>1 DEF F!UpWrite
  <1>7. ASSUME F!UpRead \/ F!UpEof \/ F!UpFails PROVE FrontTypeOK'
    BY <1>7 DEF F!UpRead, F!UpEof, F!UpFails, F!UpEnds
  <1>8. ASSUME F!Down PROVE FrontTypeOK'
    BY <1>8 DEF F!Down, F!DownRead, F!DownWrite, F!DownEof, F!DownFails, F!DownEnds
  <1> QED
    BY <1>1, <1>2, <1>3, <1>4, <1>5, <1>6, <1>7, <1>8 DEF F!Next, F!Handler, F!Up

LEMMA RelayType ==
  ASSUME TypeOK, RelayStep
  PROVE  RelayTypeOK'
  <1> USE DEF TypeOK, RelayTypeOK, R!readerVars, R!dialVars, R!handlerVars
  <1>0. ASSUME R!PostError PROVE errs' \in Nat
    BY <1>0 DEF R!PostError
  <1>1. ASSUME R!ReadChunk PROVE RelayTypeOK'
    <2>1. Len(taken) + 1 \in Nat
      OBVIOUS
    <2>2. taken' \in Seq(Nat) /\ inReader' \in Seq(Nat)
      BY <1>1, <2>1, AppendProperties DEF R!ReadChunk
    <2> QED
      BY <1>1, <2>2 DEF R!ReadChunk
  <1>2. ASSUME R!SendChunk PROVE RelayTypeOK'
    <2>1. dataCh' \in Seq(Nat) /\ <<>> \in Seq(Nat)
      BY <1>2, ConcatProperties DEF R!SendChunk, R!Queued
    <2> QED
      BY <1>2, <2>1 DEF R!SendChunk
  <1>3. ASSUME R!ReadError \/ R!DropChunk \/ R!ReaderEnd PROVE RelayTypeOK'
    <2>1. <<>> \in Seq(Nat)
      OBVIOUS
    <2>2. ASSUME R!ReadError \/ R!DropChunk PROVE RelayTypeOK'
      BY <2>1, <2>2 DEF R!ReadError, R!DropChunk
    <2>3. ASSUME R!ReaderEnd PROVE RelayTypeOK'
      BY <1>0, <2>3 DEF R!ReaderEnd
    <2> QED
      BY <1>3, <2>2, <2>3
  <1>4. ASSUME R!DialerStep PROVE RelayTypeOK'
    <2>1. ASSUME R!DialerEnd PROVE RelayTypeOK'
      BY <1>0, <2>1 DEF R!DialerEnd
    <2>2. ASSUME R!Dialled PROVE RelayTypeOK'
      BY <2>2 DEF R!Dialled
    <2>3. ASSUME R!HandOver \/ R!Abandon PROVE RelayTypeOK'
      BY <2>3 DEF R!HandOver, R!Abandon
    <2> QED
      BY <1>4, <2>1, <2>2, <2>3 DEF R!DialerStep
  <1>5. ASSUME NEW why \in {"err", "timeout", "eof", "cancel", "write"}, R!Leave(why),
               errs' \in Nat, dialCh' = dialCh
        PROVE  RelayTypeOK'
    <2>1. <<>> \in Seq(Nat)
      OBVIOUS
    <2> QED
      BY <1>5, <2>1 DEF R!Leave
  <1>6. ASSUME R!LeaveOnError PROVE RelayTypeOK'
    BY <1>5, <1>6 DEF R!LeaveOnError
  <1>7. ASSUME \/ R!LeaveOnTimeout \/ R!LeaveOnWriteError \/ R!LeaveOnEof \/ R!LeaveOnCancel
        PROVE  RelayTypeOK'
    BY <1>5, <1>7
    DEF R!LeaveOnTimeout, R!LeaveOnWriteError, R!LeaveOnEof, R!LeaveOnCancel
  <1>8. ASSUME R!TakeData PROVE RelayTypeOK'
    <2>1. Head(dataCh) \in Nat /\ Tail(dataCh) \in Seq(Nat)
      BY <1>8, HeadTailProperties DEF R!TakeData
    <2>2. <<Head(dataCh)>> \in Seq(Nat)
      BY <2>1
    <2> QED
      BY <1>8, <2>1, <2>2 DEF R!TakeData
  <1>9. ASSUME R!WriteTarget PROVE RelayTypeOK'
    <2>1. written' \in Seq(Nat) /\ <<>> \in Seq(Nat)
      BY <1>9, ConcatProperties DEF R!WriteTarget
    <2> QED
      BY <1>9, <2>1 DEF R!WriteTarget
  <1>10. ASSUME R!TakeConn \/ R!CloseStream PROVE RelayTypeOK'
    BY <1>10 DEF R!TakeConn, R!CloseStream
  <1>11. ASSUME R!ReadTarget \/ R!WriteStream \/ R!DownloadError PROVE RelayTypeOK'
    BY <1>11 DEF R!ReadTarget, R!WriteStream, R!DownloadError, R!DownloadEnd
  <1> QED
    BY <1>1, <1>2, <1>3, <1>4, <1>6, <1>7, <1>8, <1>9, <1>10, <1>11
    DEF RelayStep, Arrives, StreamEnds, R!HandlerStep

LEMMA NextType ==
  ASSUME TypeOK, [Next]_vars
  PROVE  TypeOK'
  <1>1. FrontTypeOK'
    <2>1. F!Next \/ UNCHANGED frontVars
      BY StepKinds
    <2>2. ASSUME UNCHANGED frontVars PROVE FrontTypeOK'
      BY <2>2 DEF TypeOK, FrontTypeOK, frontVars
    <2> QED
      BY <2>1, <2>2, FrontType
  <1>2. RelayTypeOK'
    <2>1. RelayStep \/ UNCHANGED relayVars
      BY StepKinds
    <2>2. ASSUME UNCHANGED relayVars PROVE RelayTypeOK'
      BY <2>2 DEF TypeOK, RelayTypeOK, relayVars
    <2> QED
      BY <2>1, <2>2, RelayType
  <1>3. answered' \in Nat
    <2>1. answered' = answered \/ answered' = answered + 1
      BY StepKinds DEF linkVars
    <2> QED
      BY <2>1 DEF TypeOK
  <1>4. broken' \in BOOLEAN /\ served' \in BOOLEAN
    BY StepKinds DEF TypeOK, linkVars
  <1>5. targetEnded' \in BOOLEAN
    BY StepKinds DEF TypeOK, linkVars
  <1> QED
    BY <1>1, <1>2, <1>3, <1>4, <1>5 DEF TypeOK
-----------------------------------------------------------------------------
(* The target connection *)

LEMMA InitHolder == Init => HolderInv /\ EndInv
  BY DEF Init, R!Init, HolderInv, EndInv

LEMMA NextHolder ==
  ASSUME TypeOK, HolderInv, EndInv, [Next]_vars
  PROVE  HolderInv'
  <1> USE DEF HolderInv, R!readerVars, R!dialVars, R!handlerVars
  <1>1. ASSUME UNCHANGED relayVars PROVE HolderInv'
    BY <1>1 DEF relayVars
  <1>2. ASSUME R!ReadChunk \/ R!ReadError \/ R!SendChunk \/ R!DropChunk \/ R!ReaderEnd
        PROVE  HolderInv'
    BY <1>2 DEF R!ReadChunk, R!ReadError, R!SendChunk, R!DropChunk, R!ReaderEnd
  <1>3. ASSUME R!DialerStep PROVE HolderInv'
    BY <1>3 DEF R!DialerStep, R!Dialled, R!DialerEnd, R!HandOver, R!Abandon, EndInv, TypeOK, RelayTypeOK
  <1>4. ASSUME NEW why \in {"err", "timeout"}, handler = "wait", R!Leave(why), UNCHANGED dialCh
        PROVE  HolderInv'
    BY <1>4 DEF R!Leave
  <1>5. ASSUME NEW why, handler \in {"relay", "write"}, R!Leave(why), UNCHANGED dialCh
        PROVE  HolderInv'
    BY <1>5 DEF R!Leave
  <1>6. ASSUME R!LeaveOnError \/ R!LeaveOnTimeout PROVE HolderInv'
    BY <1>4, <1>6 DEF R!LeaveOnError, R!LeaveOnTimeout
  <1>7. ASSUME R!LeaveOnWriteError \/ R!LeaveOnEof \/ R!LeaveOnCancel PROVE HolderInv'
    BY <1>5, <1>7 DEF R!LeaveOnWriteError, R!LeaveOnEof, R!LeaveOnCancel
  <1>8. ASSUME R!TakeConn PROVE HolderInv'
    BY <1>8 DEF R!TakeConn, TypeOK, RelayTypeOK
  <1>9. ASSUME R!TakeData \/ R!WriteTarget \/ R!CloseStream PROVE HolderInv'
    BY <1>9 DEF R!TakeData, R!WriteTarget, R!CloseStream
  <1>10. ASSUME R!ReadTarget \/ R!WriteStream \/ R!DownloadError PROVE HolderInv'
    BY <1>10 DEF R!ReadTarget, R!WriteStream, R!DownloadError, R!DownloadEnd
  <1> QED
    BY StepKinds, <1>1, <1>2, <1>3, <1>6, <1>7, <1>8, <1>9, <1>10
    DEF RelayStep, Arrives, StreamEnds, R!HandlerStep

LEMMA NextEnd ==
  ASSUME TypeOK, EndInv, [Next]_vars
  PROVE  EndInv'
  <1> USE DEF EndInv, R!readerVars, R!dialVars, R!handlerVars
  <1>1. ASSUME UNCHANGED relayVars PROVE EndInv'
    BY <1>1 DEF relayVars
  <1>2. ASSUME R!ReadChunk \/ R!ReadError \/ R!SendChunk \/ R!DropChunk \/ R!ReaderEnd
        PROVE  EndInv'
    BY <1>2 DEF R!ReadChunk, R!ReadError, R!SendChunk, R!DropChunk, R!ReaderEnd
  <1>3. ASSUME R!DialerStep PROVE EndInv'
    BY <1>3 DEF R!DialerStep, R!Dialled, R!DialerEnd, R!HandOver, R!Abandon
  <1>4. ASSUME NEW why \in {"err", "timeout", "eof", "cancel", "write"}, R!Leave(why),
               handler # "returned"
        PROVE  EndInv'
    BY <1>4 DEF R!Leave
  <1>5. ASSUME \/ R!LeaveOnError \/ R!LeaveOnTimeout \/ R!LeaveOnWriteError
               \/ R!LeaveOnEof \/ R!LeaveOnCancel
        PROVE  EndInv'
    BY <1>4, <1>5
    DEF R!LeaveOnError, R!LeaveOnTimeout, R!LeaveOnWriteError, R!LeaveOnEof, R!LeaveOnCancel
  <1>6. ASSUME R!TakeConn \/ R!TakeData \/ R!WriteTarget \/ R!CloseStream PROVE EndInv'
    BY <1>6 DEF R!TakeConn, R!TakeData, R!WriteTarget, R!CloseStream
  <1>7. ASSUME R!ReadTarget \/ R!WriteStream \/ R!DownloadError PROVE EndInv'
    BY <1>7 DEF R!ReadTarget, R!WriteStream, R!DownloadError, R!DownloadEnd
  <1> QED
    BY StepKinds, <1>1, <1>2, <1>3, <1>5, <1>6, <1>7
    DEF RelayStep, Arrives, StreamEnds, R!HandlerStep

-----------------------------------------------------------------------------
(* What the front end writes to the stream *)

\* The front end adds items to the stream, one at a time, while it is open.
LEMMA SentMoves ==
  ASSUME TypeOK, SentInv, F!Next
  PROVE  /\ sent' = sent \/ (stream = "open" /\ \E e \in Nat : sent' = Append(sent, e))
         /\ stream = "closed" => stream' = "closed"
         /\ IsPrefix(sent, sent') /\ Len(sent) <= Len(sent')
  <1> USE DEF F!appVars, F!copyVars
  <1>0. sent \in Seq(Nat) /\ consumed \in Nat
    BY DEF TypeOK, FrontTypeOK
  <1>1. /\ sent' = sent \/ (stream = "open" /\ \E e \in Nat : sent' = Append(sent, e))
        /\ stream = "closed" => stream' = "closed"
    <2>1. ASSUME F!AppSends \/ F!AppEnds \/ F!Body PROVE UNCHANGED <<sent, stream>>
      BY <2>1 DEF F!AppSends, F!AppEnds, F!Body
    <2>2. ASSUME \/ F!RequestFails \/ F!Greet \/ F!UserPass \/ F!Request \/ F!Grant
                 \/ F!ReadHead \/ F!Password \/ F!Host \/ F!OpenFails \/ F!Done
          PROVE  UNCHANGED <<sent, stream>>
      BY <2>2
      DEF F!RequestFails, F!Greet, F!UserPass, F!Request, F!Grant, F!ReadHead, F!Password,
          F!Host, F!OpenFails, F!Done, F!GoTo
    <2>3. ASSUME F!Open PROVE sent' = sent /\ stream = "none"
      BY <2>3 DEF F!Open, SentInv, Requesting
    <2>4. ASSUME F!WriteFirst
          PROVE  sent' = Append(sent, 0) /\ stream = "open" /\ stream' = stream
      <3>1. sent = <<>> /\ Append(<<>>, 0) = <<0>>
        BY <2>4 DEF F!WriteFirst, SentInv
      <3> QED
        BY <2>4, <3>1 DEF F!WriteFirst, SentInv
    <2>5. ASSUME F!WriteFirstFails PROVE sent' = sent /\ stream' = "closed"
      BY <2>5 DEF F!WriteFirstFails
    <2>6. ASSUME F!UpWrite
          PROVE  sent' = Append(sent, consumed) /\ stream = "open" /\ stream' = stream
      BY <2>6 DEF F!UpWrite
    <2>7. ASSUME F!UpRead \/ F!UpEof \/ F!UpFails \/ F!Down
          PROVE  sent' = sent /\ stream' \in {stream, "closed"}
      BY <2>7 DEF F!UpRead, F!UpEof, F!UpFails, F!UpEnds, F!Down, F!DownRead, F!DownWrite,
                  F!DownEof, F!DownFails, F!DownEnds
    <2>8. 0 \in Nat
      OBVIOUS
    <2> QED
      BY <1>0, <2>1, <2>2, <2>3, <2>4, <2>5, <2>6, <2>7, <2>8 DEF F!Next, F!Handler, F!Up
  <1>2. IsPrefix(sent, sent')
    <2>1. CASE sent' = sent
      BY <1>0, <2>1, PrefixPointwise
    <2>2. CASE \E e \in Nat : sent' = Append(sent, e)
      <3>1. PICK e \in Nat : sent' = Append(sent, e)
        BY <2>2
      <3>2. IsPrefix(sent, sent)
        BY <1>0, PrefixPointwise
      <3> QED
        BY <1>0, <3>1, <3>2, PrefixAppend
    <2> QED
      BY <1>1, <2>1, <2>2
  <1>3. Len(sent) <= Len(sent')
    BY <1>0, <1>1, AppendProperties
  <1> QED
    BY <1>1, <1>2, <1>3

LEMMA InitSent == Init => SentInv /\ AnswerInv
  <1> SUFFICES ASSUME Init PROVE SentInv /\ AnswerInv
    OBVIOUS
  <1> USE DEF Init, F!Init
  <1>1. SentShape(0, 0)
    BY DEF SentShape
  <1>2. 0 \in {0, 1}
    OBVIOUS
  <1> QED
    BY <1>1, <1>2 DEF SentInv, AnswerInv, Requesting

\* The numbers of the pieces are kept by every step that neither takes a piece
\* nor writes one.
LEMMA ShapeKept ==
  ASSUME NEW z, NEW d, SentShape(z, d), UNCHANGED <<sent, consumed, swallowed>>
  PROVE  SentShape(z, d)'
  BY DEF SentShape

LEMMA NextSent ==
  ASSUME TypeOK, SentInv, [Next]_vars
  PROVE  SentInv'
  <1>0. /\ sent \in Seq(Nat) /\ consumed \in Nat /\ swallowed \in Nat /\ Len(sent) \in Nat
        /\ typed \in Nat
    BY DEF TypeOK, FrontTypeOK
  <1>1. PICK z \in {0, 1}, d \in {0, 1} :
          /\ SentShape(z, d)
          /\ upCopy \in {"off", "read", "eof"} => d = 0
          /\ upCopy = "write" => d = 1
    BY DEF SentInv
  <1>2. ASSUME UNCHANGED frontVars PROVE SentInv'
    BY <1>2 DEF frontVars, SentInv, SentShape
  <1> USE DEF F!appVars, F!copyVars
  <1>3. ASSUME UNCHANGED <<sent, consumed, swallowed, upCopy>>
        PROVE  \E y \in {0, 1}, e \in {0, 1} :
                 /\ SentShape(y, e)'
                 /\ upCopy' \in {"off", "read", "eof"} => e = 0
                 /\ upCopy' = "write" => e = 1
    BY <1>1, <1>3, ShapeKept
  <1>4. ASSUME \/ F!AppSends \/ F!AppEnds \/ F!RequestFails \/ F!Greet \/ F!UserPass
               \/ F!Request \/ F!Grant \/ F!Password \/ F!Host \/ F!OpenFails \/ F!Done
        PROVE  SentInv'
    <2>1. UNCHANGED <<sent, consumed, swallowed, upCopy, downCopy, stream>>
      BY <1>4
      DEF F!AppSends, F!AppEnds, F!Body, F!RequestFails, F!Greet, F!UserPass, F!Request,
          F!Grant, F!Password, F!Host, F!OpenFails, F!Done, F!GoTo
    <2>2. phase' \in Requesting \cup {"udp", "first"} =>
            phase' = phase \/ (phase \in Requesting /\ phase' \in Requesting \cup {"udp"})
      BY <1>4
      DEF F!AppSends, F!AppEnds, F!Body, F!RequestFails, F!Greet, F!UserPass, F!Request,
          F!Grant, F!Password, F!Host, F!OpenFails, F!Done, F!GoTo, Requesting
    <2>3. phase' \in {"greet", "greetPassword", "head", "headPassword"} => phase' = phase
      BY <1>4
      DEF F!AppSends, F!AppEnds, F!Body, F!RequestFails, F!Greet, F!UserPass, F!Request,
          F!Grant, F!Password, F!Host, F!OpenFails, F!Done, F!GoTo
    <2> QED
      BY <1>3, <2>1, <2>2, <2>3 DEF SentInv, Requesting
  <1>5. ASSUME F!ReadHead \/ F!Body PROVE SentInv'
    <2>1. PICK k \in Nat : consumed' = k /\ swallowed' = k
      BY <1>5, Swallows
    <2>2. sent = <<>> /\ sent' = <<>> /\ upCopy = "off" /\ upCopy' = "off"
      BY <1>5, Swallows DEF SentInv, Requesting
    <2>3. SentShape(0, 0)'
      BY <1>0, <2>1, <2>2 DEF SentShape
    <2>4. 0 \in {0, 1}
      OBVIOUS
    <2>5. \E y \in {0, 1}, e \in {0, 1} :
            /\ SentShape(y, e)'
            /\ upCopy' \in {"off", "read", "eof"} => e = 0
            /\ upCopy' = "write" => e = 1
      BY <2>2, <2>3, <2>4
    <2> QED
      BY <1>5, <2>1, <2>2, <2>5, Swallows DEF SentInv, Requesting
  <1>6. ASSUME F!Open PROVE SentInv'
    <2>1. UNCHANGED <<sent, consumed, swallowed>> /\ upCopy = "off" /\ upCopy' \in {"off", "read"}
      BY <1>6 DEF F!Open, SentInv, Requesting
    <2>2. \E y \in {0, 1}, e \in {0, 1} :
            /\ SentShape(y, e)'
            /\ upCopy' \in {"off", "read", "eof"} => e = 0
            /\ upCopy' = "write" => e = 1
      BY <1>1, <2>1, ShapeKept
    <2> QED
      BY <1>6, <2>1, <2>2 DEF F!Open, SentInv, Requesting
  <1>7. ASSUME F!WriteFirst PROVE SentInv'
    <2>1. sent = <<>> /\ sent' = <<0>> /\ consumed = swallowed
      BY <1>7 DEF F!WriteFirst, SentInv
    <2>2. SentShape(1, 0)'
      BY <1>0, <1>7, <2>1 DEF SentShape, F!WriteFirst
    <2>3. 0 \in {0, 1} /\ 1 \in {0, 1}
      OBVIOUS
    <2>4. \E y \in {0, 1}, e \in {0, 1} :
            /\ SentShape(y, e)'
            /\ upCopy' \in {"off", "read", "eof"} => e = 0
            /\ upCopy' = "write" => e = 1
      BY <1>7, <2>2, <2>3 DEF F!WriteFirst
    <2> QED
      BY <1>7, <2>4 DEF F!WriteFirst, SentInv, Requesting
  <1>8. ASSUME F!WriteFirstFails PROVE SentInv'
    BY <1>3, <1>8 DEF F!WriteFirstFails, SentInv, Requesting
  <1>9. ASSUME F!UpRead PROVE SentInv'
    <2>1. upCopy = "read" /\ upCopy' = "write" /\ consumed' = consumed + 1 /\ d = 0
      BY <1>1, <1>9 DEF F!UpRead
    <2>2. SentShape(z, 1)'
      BY <1>0, <1>1, <1>9, <2>1 DEF SentShape, F!UpRead
    <2>3. 1 \in {0, 1}
      OBVIOUS
    <2>4. \E y \in {0, 1}, e \in {0, 1} :
            /\ SentShape(y, e)'
            /\ upCopy' \in {"off", "read", "eof"} => e = 0
            /\ upCopy' = "write" => e = 1
      BY <2>1, <2>2, <2>3
    <2> QED
      BY <1>9, <2>1, <2>4 DEF F!UpRead, SentInv, Requesting
  <1>10. ASSUME F!UpWrite PROVE SentInv'
    <2>1. /\ upCopy = "write" /\ upCopy' = "read" /\ d = 1 /\ sent' = Append(sent, consumed)
          /\ UNCHANGED <<phase, consumed, swallowed, stream, downCopy>>
      BY <1>1, <1>10 DEF F!UpWrite
    <2>2. /\ Len(sent') = Len(sent) + 1 /\ DOMAIN sent' = 1 .. Len(sent) + 1
          /\ \A k \in 1 .. Len(sent) : sent'[k] = sent[k]
          /\ sent'[Len(sent) + 1] = consumed
      BY <1>0, <2>1, AppendProperties
    <2>3. consumed = swallowed + (Len(sent) + 1 - z) /\ z <= Len(sent)
      <3>1. Len(sent) + 1 = z + (consumed - swallowed) /\ z <= Len(sent)
        BY <1>1, <2>1 DEF SentShape
      <3>2. z \in Nat
        BY <1>1
      <3> QED
        BY ONLY <1>0, <3>1, <3>2
    <2>4. \A k \in 1 .. Len(sent) : sent[k] = IF k <= z THEN 0 ELSE swallowed + (k - z)
      <3>1. \A k \in DOMAIN sent : sent[k] = IF k <= z THEN 0 ELSE swallowed + (k - z)
        BY <1>1 DEF SentShape
      <3>2. DOMAIN sent = 1 .. Len(sent)
        BY <1>0
      <3> QED
        BY <3>1, <3>2
    <2>5. \A k \in DOMAIN sent' : sent'[k] = IF k <= z THEN 0 ELSE swallowed' + (k - z)
      <3> SUFFICES ASSUME NEW k \in DOMAIN sent'
                   PROVE  sent'[k] = IF k <= z THEN 0 ELSE swallowed + (k - z)
        BY <2>1
      <3>1. CASE k \in 1 .. Len(sent)
        BY <2>2, <2>4, <3>1
      <3>2. CASE k = Len(sent) + 1
        BY <1>0, <2>2, <2>3, <3>2
      <3> QED
        BY <1>0, <2>2, <3>1, <3>2
    <2>6. SentShape(z, 0)'
      BY <1>0, <1>1, <2>1, <2>2, <2>5 DEF SentShape
    <2>7. 0 \in {0, 1}
      OBVIOUS
    <2>8. \E y \in {0, 1}, e \in {0, 1} :
            /\ SentShape(y, e)'
            /\ upCopy' \in {"off", "read", "eof"} => e = 0
            /\ upCopy' = "write" => e = 1
      BY <2>1, <2>6, <2>7
    <2> QED
      BY <2>1, <2>8 DEF SentInv
  <1>11. ASSUME F!UpEof \/ F!UpFails PROVE SentInv'
    <2>1. /\ UNCHANGED <<sent, consumed, swallowed, phase, downCopy>>
          /\ upCopy = "read" \/ upCopy' = "failed"
          /\ upCopy \in {"read", "write"} /\ upCopy' \in {"eof", "failed"} /\ stream' = "closed"
      BY <1>11 DEF F!UpEof, F!UpFails, F!UpEnds
    <2>2. \E y \in {0, 1}, e \in {0, 1} :
            /\ SentShape(y, e)'
            /\ upCopy' \in {"off", "read", "eof"} => e = 0
            /\ upCopy' = "write" => e = 1
      BY <1>1, <2>1, ShapeKept
    <2> QED
      BY <2>1, <2>2 DEF SentInv
  <1>12. ASSUME F!Down PROVE SentInv'
    BY <1>3, <1>12
    DEF F!Down, F!DownRead, F!DownWrite, F!DownEof, F!DownFails, F!DownEnds, SentInv
  <1> QED
    BY StepKinds, <1>2, <1>4, <1>5, <1>6, <1>7, <1>8, <1>9, <1>10, <1>11, <1>12
    DEF F!Next, F!Handler, F!Up

LEMMA NextAnswer ==
  ASSUME TypeOK, EndInv, SentInv, AnswerInv, [Next]_vars
  PROVE  AnswerInv'
  <1>0. got \in Nat /\ answered \in Nat /\ delivered \in Nat
    BY DEF TypeOK, FrontTypeOK
  <1> USE DEF F!appVars, F!copyVars
  <1>1. ASSUME UNCHANGED <<frontVars, relayVars, answered>> PROVE AnswerInv'
    BY <1>1 DEF frontVars, relayVars, AnswerInv
  <1>2. ASSUME F!Next, UNCHANGED <<relayVars, linkVars>> PROVE AnswerInv'
    <2>1. UNCHANGED <<streamClosed, answered>>
      BY <1>2 DEF relayVars, linkVars
    <2>2. ASSUME UNCHANGED <<downCopy, got, delivered>> PROVE AnswerInv'
      BY <2>1, <2>2 DEF AnswerInv
    <2>3. ASSUME \/ F!AppSends \/ F!AppEnds \/ F!Body \/ F!RequestFails \/ F!Greet \/ F!UserPass
                 \/ F!Request \/ F!Grant \/ F!ReadHead \/ F!Password \/ F!Host \/ F!OpenFails
                 \/ F!WriteFirstFails \/ F!Done \/ F!Up
          PROVE  AnswerInv'
      BY <2>2, <2>3
      DEF F!AppSends, F!AppEnds, F!Body, F!RequestFails, F!Greet, F!UserPass, F!Request,
          F!Grant, F!ReadHead, F!Password, F!Host, F!OpenFails, F!WriteFirstFails, F!Done,
          F!GoTo, F!Up, F!UpRead, F!UpWrite, F!UpEof, F!UpFails, F!UpEnds
    <2>4. ASSUME F!Open \/ F!WriteFirst PROVE AnswerInv'
      <3>1. downCopy = "off" /\ downCopy' \in {"off", "read"} /\ UNCHANGED <<got, delivered>>
        BY <2>4 DEF F!Open, F!WriteFirst, SentInv, Requesting
      <3> QED
        BY <2>1, <3>1 DEF AnswerInv
    <2>5. ASSUME F!DownRead PROVE AnswerInv'
      BY <1>0, <2>1, <2>5 DEF F!DownRead, AnswerInv
    <2>6. ASSUME F!DownWrite PROVE AnswerInv'
      BY <1>0, <2>1, <2>6 DEF F!DownWrite, AnswerInv
    <2>7. ASSUME F!DownEof \/ F!DownFails PROVE AnswerInv'
      BY <2>1, <2>7 DEF F!DownEof, F!DownFails, F!DownEnds, AnswerInv
    <2> QED
      BY <1>2, <2>3, <2>4, <2>5, <2>6, <2>7 DEF F!Next, F!Handler, F!Down
  <1>3. ASSUME RelayStep, UNCHANGED frontVars,
               answered' = answered \/ (R!WriteStream /\ answered' = answered + 1)
        PROVE  AnswerInv'
    <2>1. UNCHANGED <<downCopy, got, delivered>>
      BY <1>3 DEF frontVars
    <2>2. streamClosed => streamClosed'
      BY <1>3
      DEF RelayStep, Arrives, StreamEnds, R!ReadChunk, R!ReadError, R!SendChunk, R!DropChunk, R!ReaderEnd,
          R!DialerStep, R!Dialled, R!DialerEnd, R!HandOver, R!Abandon, R!HandlerStep,
          R!TakeConn, R!LeaveOnError, R!LeaveOnTimeout, R!Leave, R!TakeData, R!WriteTarget,
          R!LeaveOnWriteError, R!LeaveOnEof, R!LeaveOnCancel, R!CloseStream,
          R!ReadTarget, R!WriteStream, R!DownloadError
    <2>3. ASSUME answered' = answered PROVE AnswerInv'
      BY <2>1, <2>2, <2>3 DEF AnswerInv
    <2>4. ASSUME R!WriteStream, answered' = answered + 1 PROVE AnswerInv'
      <3>1. ~streamClosed
        BY <2>4 DEF R!WriteStream
      <3> QED
        BY <1>0, <2>1, <2>4, <3>1 DEF AnswerInv
    <2> QED
      BY <1>3, <2>3, <2>4
  <1> QED
    BY StepKinds, <1>1, <1>2, <1>3

-----------------------------------------------------------------------------
(* Through the relay *)

LEMMA RelaySeqs ==
  ASSUME TypeOK
  PROVE  /\ written \in Seq(Nat) /\ inHandler \in Seq(Nat) /\ dataCh \in Seq(Nat)
         /\ inReader \in Seq(Nat) /\ taken \in Seq(Nat) /\ sent \in Seq(Nat)
         /\ written \o inHandler \in Seq(Nat)
         /\ (written \o inHandler) \o dataCh \in Seq(Nat)
         /\ Flow \in Seq(Nat)
  <1>1. /\ written \in Seq(Nat) /\ inHandler \in Seq(Nat) /\ dataCh \in Seq(Nat)
        /\ inReader \in Seq(Nat) /\ taken \in Seq(Nat) /\ sent \in Seq(Nat)
    BY DEF TypeOK, FrontTypeOK, RelayTypeOK
  <1>2. written \o inHandler \in Seq(Nat)
    BY <1>1, ConcatProperties
  <1>3. (written \o inHandler) \o dataCh \in Seq(Nat)
    BY <1>1, <1>2, ConcatProperties
  <1>4. Flow \in Seq(Nat)
    BY <1>1, <1>3, ConcatProperties DEF Flow
  <1> QED
    BY <1>1, <1>2, <1>3, <1>4

\* What has been written, and what the handler has in hand, starts the flow.
LEMMA WrittenFirst ==
  ASSUME TypeOK
  PROVE  IsPrefix(written \o inHandler, Flow)
  <1>1. IsPrefix(written \o inHandler, (written \o inHandler) \o dataCh)
    BY RelaySeqs, PrefixOfConcat
  <1>2. IsPrefix((written \o inHandler) \o dataCh, Flow)
    BY RelaySeqs, PrefixOfConcat DEF Flow
  <1> QED
    BY <1>1, <1>2, RelaySeqs, PrefixTransitive

LEMMA ConcatNumbers ==
  \A s, t, u \in Seq(Nat) : (s \o t) \o u = s \o (t \o u)
  BY ConcatAssociative, SMTT(30)

\* Inside the relay nothing is lost or reordered but by DropChunk and Leave.
LEMMA FlowKept ==
  ASSUME TypeOK, FlowInv, R!SendChunk \/ R!TakeData \/ R!WriteTarget
  PROVE  Flow' = Flow
  <1> DEFINE A == written \o inHandler
  <1>0. /\ written \in Seq(Nat) /\ inHandler \in Seq(Nat) /\ dataCh \in Seq(Nat)
        /\ inReader \in Seq(Nat) /\ A \in Seq(Nat) /\ A \o dataCh \in Seq(Nat)
    BY RelaySeqs
  <1>1. ASSUME R!SendChunk PROVE Flow' = Flow
    <2>1. Flow' = (A \o (dataCh \o inReader)) \o <<>>
      BY <1>1 DEF R!SendChunk, R!Queued, R!handlerVars, Flow
    <2>2. A \o (dataCh \o inReader) = (A \o dataCh) \o inReader
      <3>1. A \in Seq(Nat) /\ dataCh \in Seq(Nat) /\ inReader \in Seq(Nat)
        BY <1>0
      <3> HIDE DEF A
      <3> QED
        BY ONLY <3>1, ConcatNumbers, Zenon
    <2>3. (A \o dataCh) \o inReader \in Seq(Nat)
      BY <1>0, ConcatProperties
    <2>4. ((A \o dataCh) \o inReader) \o <<>> = (A \o dataCh) \o inReader
      BY <2>3, ConcatEmptySeq
    <2> QED
      BY <2>1, <2>2, <2>4 DEF Flow
  <1>2. ASSUME R!TakeData PROVE Flow' = Flow
    <2>1. inHandler = <<>> /\ dataCh # <<>>
      BY <1>2 DEF R!TakeData, FlowInv
    <2>2. /\ <<Head(dataCh)>> \in Seq(Nat) /\ Tail(dataCh) \in Seq(Nat)
          /\ <<Head(dataCh)>> \o Tail(dataCh) = dataCh
      BY <1>0, <2>1, HeadTailConcat
    <2>3. Flow' = ((written \o <<Head(dataCh)>>) \o Tail(dataCh)) \o inReader
      BY <1>2 DEF R!TakeData, R!readerVars, Flow
    <2>4. (written \o <<Head(dataCh)>>) \o Tail(dataCh) = written \o dataCh
      <3>1. (written \o <<Head(dataCh)>>) \o Tail(dataCh) = written \o (<<Head(dataCh)>> \o Tail(dataCh))
        <4>1. /\ written \in Seq(Nat) /\ <<Head(dataCh)>> \in Seq(Nat)
              /\ Tail(dataCh) \in Seq(Nat)
          BY <1>0, <2>2
        <4>2. \A h \in Seq(Nat), t \in Seq(Nat) : (written \o h) \o t = written \o (h \o t)
          BY <4>1, ConcatNumbers
        <4> QED
          BY ONLY <4>1, <4>2, Zenon
      <3> QED
        BY <2>2, <3>1
    <2>5. written \o inHandler = written
      BY <1>0, <2>1, ConcatEmptySeq
    <2> QED
      BY <2>3, <2>4, <2>5 DEF Flow
  <1>3. ASSUME R!WriteTarget PROVE Flow' = Flow
    <2>1. Flow' = ((A \o <<>>) \o dataCh) \o inReader
      BY <1>3 DEF R!WriteTarget, R!readerVars, Flow
    <2>2. A \o <<>> = A
      BY <1>0, ConcatEmptySeq
    <2> QED
      BY <2>1, <2>2 DEF Flow
  <1> QED
    BY <1>1, <1>2, <1>3

\* What goes through the relay, and the reasons why it stops.
FlowVars == <<reader, inReader, dataCh, inHandler, written, taken, ended, dataClosed>>

LEMMA InitFlow == Init => FlowInv /\ ReadAllInv
  <1> SUFFICES ASSUME Init PROVE FlowInv /\ ReadAllInv
    OBVIOUS
  <1> USE DEF Init, F!Init, R!Init
  <1>1. Flow = <<>>
    <2>1. <<>> \o <<>> = <<>>
      BY ConcatEmptySeq
    <2> QED
      BY <2>1 DEF Flow
  <1>2. IsPrefix(<<>>, <<>>)
    BY ONLY DEF IsPrefix
  <1>3. FlowInv
    BY <1>1, <1>2 DEF FlowInv
  <1>4. ReadAllInv
    BY DEF ReadAllInv
  <1> QED
    BY <1>3, <1>4

LEMMA NextFlow ==
  ASSUME TypeOK, EndInv, SentInv, FlowInv, [Next]_vars
  PROVE  FlowInv'
  <1> USE DEF R!readerVars, R!dialVars, R!handlerVars
  <1>0. /\ written \in Seq(Nat) /\ inHandler \in Seq(Nat) /\ dataCh \in Seq(Nat)
        /\ inReader \in Seq(Nat) /\ taken \in Seq(Nat) /\ sent \in Seq(Nat)
        /\ written \o inHandler \in Seq(Nat) /\ (written \o inHandler) \o dataCh \in Seq(Nat)
        /\ Flow \in Seq(Nat)
    BY RelaySeqs
  <1>1. ASSUME UNCHANGED relayVars PROVE FlowInv'
    <2>1. sent' = sent \/ Len(sent) <= Len(sent')
      BY <1>1, StepKinds, SentMoves DEF frontVars, RelayStep
    <2>2. Len(taken') <= Len(sent')
      <3>1. Len(sent) <= Len(sent')
        BY <1>0, <2>1
      <3>2. Len(sent') \in Nat /\ Len(sent) \in Nat /\ Len(taken) \in Nat
        BY <1>0, NextType, RelaySeqs DEF TypeOK, FrontTypeOK
      <3> QED
        BY <1>1, <3>1, <3>2 DEF FlowInv, relayVars
    <2> QED
      BY <1>1, <2>2 DEF relayVars, FlowInv, Flow
  <1>2. ASSUME UNCHANGED <<frontVars, FlowVars>>, handler' \in {handler, "relay", "returned"},
               handler # "write", cancelled => cancelled'
        PROVE  FlowInv'
    BY <1>2 DEF FlowVars, frontVars, FlowInv, Flow
  <1>3. ASSUME UNCHANGED <<frontVars, FlowVars, handler>>, cancelled => cancelled' PROVE FlowInv'
    BY <1>3 DEF FlowVars, frontVars, FlowInv, Flow
  <1>4. ASSUME Arrives, UNCHANGED frontVars PROVE FlowInv'
    <2> DEFINE n == Len(taken) + 1
               B == (written \o inHandler) \o dataCh
    <2>1. /\ reader = "read" /\ reader' = "send" /\ inReader' = <<n>> /\ taken' = Append(taken, n)
          /\ Len(taken) < Len(sent)
          /\ UNCHANGED <<written, inHandler, dataCh, ended, handler, cancelled, sent>>
      BY <1>4 DEF Arrives, R!ReadChunk, frontVars
    <2>2. n \in Nat /\ inReader = <<>>
      BY <1>0, <2>1 DEF FlowInv
    <2>3. Flow = B /\ Flow' = B \o <<n>>
      BY <1>0, <2>1, <2>2, ConcatEmptySeq DEF Flow
    <2>4. Flow' = Append(Flow, n)
      BY <1>0, <2>2, <2>3, AppendIsConcat
    <2>5. /\ taken' \in Seq(Nat) /\ Len(taken') = n /\ DOMAIN taken' = 1 .. n
          /\ \A i \in 1 .. Len(taken) : taken'[i] = taken[i]
          /\ taken'[n] = n
      BY <1>0, <2>1, <2>2, AppendProperties
    <2>6. \A i \in DOMAIN taken' : taken'[i] = i
      <3>1. \A i \in DOMAIN taken : taken[i] = i
        BY DEF FlowInv
      <3>2. DOMAIN taken = 1 .. Len(taken) /\ Len(taken) \in Nat
        BY <1>0
      <3>3. \A i \in DOMAIN taken' : i \in 1 .. Len(taken) \/ i = n
        BY <2>5, <3>2
      <3> HIDE DEF n
      <3> QED
        BY <2>5, <3>1, <3>2, <3>3
    <2>7. Len(taken') <= Len(sent')
      BY <1>0, <2>1, <2>5
    <2>8. IsPrefix(written, taken')
      BY <1>0, <2>1, <2>2, PrefixAppend DEF FlowInv
    <2>9. ended = "no" => Flow' = taken'
      BY <2>1, <2>4 DEF FlowInv
    <2>10. IsPrefix(taken', taken')
      BY <2>5, PrefixPointwise
    <2> HIDE DEF n
    <2> QED
      BY <2>1, <2>6, <2>7, <2>8, <2>9, <2>10 DEF FlowInv
  <1>5. ASSUME StreamEnds, UNCHANGED frontVars PROVE FlowInv'
    BY <1>5 DEF StreamEnds, R!ReadError, frontVars, FlowInv, Flow
  <1>6. ASSUME R!ReaderEnd, UNCHANGED frontVars PROVE FlowInv'
    BY <1>6 DEF R!ReaderEnd, frontVars, FlowInv, Flow
  <1>7. ASSUME R!SendChunk \/ R!TakeData \/ R!WriteTarget, UNCHANGED frontVars PROVE FlowInv'
    <2>1. Flow' = Flow /\ UNCHANGED <<taken, ended, cancelled, sent>>
          /\ (reader' = "read" \/ reader' = reader) /\ (reader = "done" => reader' = "done")
      BY <1>7, FlowKept DEF R!SendChunk, R!TakeData, R!WriteTarget, frontVars
    <2>2. IsPrefix(written', taken)
      <3>1. CASE written' = written
        BY <3>1 DEF FlowInv
      <3>2. CASE R!WriteTarget
        <4>1. written' = written \o inHandler /\ ended = "no"
          BY <3>2 DEF R!WriteTarget, EndInv
        <4>2. IsPrefix(Flow, taken)
          BY <4>1 DEF FlowInv
        <4> QED
          BY <1>0, <4>1, <4>2, WrittenFirst, PrefixTransitive
      <3> QED
        BY <1>7, <3>1, <3>2 DEF R!SendChunk, R!TakeData
    <2>3. (reader' # "send" => inReader' = <<>>) /\ (handler' # "write" => inHandler' = <<>>)
      BY <1>7 DEF R!SendChunk, R!TakeData, R!WriteTarget, FlowInv
    <2> QED
      BY <2>1, <2>2, <2>3 DEF FlowInv
  <1>8. ASSUME R!DropChunk, UNCHANGED frontVars PROVE FlowInv'
    <2> DEFINE B == (written \o inHandler) \o dataCh
    <2>1. /\ reader = "send" /\ reader' = "done" /\ cancelled /\ cancelled' /\ inReader' = <<>>
          /\ UNCHANGED <<written, inHandler, dataCh, taken, ended, handler, sent>>
      BY <1>8 DEF R!DropChunk, frontVars
    <2>2. Flow' = B /\ Flow = B \o inReader
      BY <1>0, <2>1, ConcatEmptySeq DEF Flow
    <2>3. IsPrefix(B, Flow)
      BY <1>0, <2>2, PrefixOfConcat
    <2>4. ended = "no" => IsPrefix(Flow', taken)
      BY <2>1, <2>2, <2>3 DEF FlowInv
    <2> QED
      BY <2>1, <2>4 DEF FlowInv
  <1>9. ASSUME NEW why, why # "no", R!Leave(why), UNCHANGED frontVars PROVE FlowInv'
    BY <1>9 DEF R!Leave, frontVars, FlowInv
  <1>10. ASSUME \/ R!LeaveOnError \/ R!LeaveOnTimeout \/ R!LeaveOnWriteError \/ R!LeaveOnEof
                \/ R!LeaveOnCancel, UNCHANGED frontVars
         PROVE  FlowInv'
    BY <1>9, <1>10
    DEF R!LeaveOnError, R!LeaveOnTimeout, R!LeaveOnWriteError, R!LeaveOnEof, R!LeaveOnCancel
  <1>11. ASSUME R!TakeConn \/ R!CloseStream, UNCHANGED frontVars PROVE FlowInv'
    BY <1>2, <1>11 DEF R!TakeConn, R!CloseStream, FlowVars
  <1>12. ASSUME R!DialerStep \/ R!ReadTarget \/ R!WriteStream \/ R!DownloadError,
                UNCHANGED frontVars
         PROVE  FlowInv'
    BY <1>3, <1>12
    DEF R!DialerStep, R!Dialled, R!DialerEnd, R!HandOver, R!Abandon, R!ReadTarget,
        R!WriteStream, R!DownloadError, R!DownloadEnd, FlowVars
  <1> QED
    BY StepKinds, <1>1, <1>4, <1>5, <1>6, <1>7, <1>8, <1>10, <1>11, <1>12
    DEF RelayStep, R!HandlerStep

LEMMA NextReadAll ==
  ASSUME TypeOK, EndInv, SentInv, FlowInv, ReadAllInv, [Next]_vars
  PROVE  ReadAllInv'
  <1> USE DEF R!readerVars, R!dialVars, R!handlerVars
  <1>1. ASSUME UNCHANGED relayVars, broken => broken', stream = "closed" => stream' = "closed",
               sent' = sent \/ stream = "open"
        PROVE  ReadAllInv'
    BY <1>1 DEF relayVars, ReadAllInv
  <1>2. ASSUME F!Next, UNCHANGED <<relayVars, linkVars>> PROVE ReadAllInv'
    BY <1>1, <1>2, SentMoves DEF linkVars
  <1>3. ASSUME UNCHANGED <<frontVars, relayVars>>, broken => broken' PROVE ReadAllInv'
    BY <1>1, <1>3 DEF frontVars
  <1>4. ASSUME UNCHANGED <<frontVars, FlowVars, broken>>, cancelled => cancelled',
               downloader = "done" => downloader' = "done"
        PROVE  ReadAllInv'
    BY <1>4 DEF FlowVars, frontVars, ReadAllInv
  <1>5. ASSUME Arrives, UNCHANGED <<frontVars, broken>> PROVE ReadAllInv'
    BY <1>5 DEF Arrives, R!ReadChunk, frontVars, ReadAllInv
  <1>6. ASSUME StreamEnds, UNCHANGED <<frontVars, broken>> PROVE ReadAllInv'
    <2>1. reader' = "fail" /\ reader = "read" /\ UNCHANGED <<taken, cancelled, ended, downloader>>
      BY <1>6 DEF StreamEnds, R!ReadError
    <2>2. ~cancelled /\ ~broken => stream = "closed" /\ Len(taken) = Len(sent)
      BY <1>6 DEF StreamEnds, EndInv
    <2>3. ended = "eof" /\ downloader # "done" => broken
      BY <2>1 DEF ReadAllInv
    <2> QED
      BY <1>6, <2>1, <2>2, <2>3 DEF ReadAllInv, frontVars
  <1>7. ASSUME R!ReaderEnd \/ R!DropChunk \/ R!SendChunk, UNCHANGED <<frontVars, broken>>
        PROVE  ReadAllInv'
    BY <1>7 DEF R!ReaderEnd, R!DropChunk, R!SendChunk, frontVars, ReadAllInv
  <1>8. ASSUME R!TakeData \/ R!WriteTarget, UNCHANGED <<frontVars, broken>> PROVE ReadAllInv'
    <2>1. ended = "no" /\ ended' = "no"
      BY <1>8 DEF R!TakeData, R!WriteTarget, EndInv
    <2> QED
      BY <1>8, <2>1 DEF R!TakeData, R!WriteTarget, ReadAllInv, frontVars
  <1>9. ASSUME NEW why, why # "eof", R!Leave(why), UNCHANGED <<frontVars, broken>>
        PROVE  ReadAllInv'
    BY <1>9 DEF R!Leave, frontVars, ReadAllInv
  <1>10. ASSUME R!LeaveOnError \/ R!LeaveOnTimeout \/ R!LeaveOnWriteError \/ R!LeaveOnCancel,
                UNCHANGED <<frontVars, broken>>
         PROVE  ReadAllInv'
    BY <1>9, <1>10
    DEF R!LeaveOnError, R!LeaveOnTimeout, R!LeaveOnWriteError, R!LeaveOnCancel
  <1>11. ASSUME R!LeaveOnEof, UNCHANGED <<frontVars, broken>> PROVE ReadAllInv'
    <2>1. /\ handler = "relay" /\ dataCh = <<>> /\ reader = "done" /\ ended = "no"
          /\ cancelled' = TRUE
          /\ UNCHANGED <<reader, taken, written, downloader, sent, stream, broken>>
      BY <1>11 DEF R!LeaveOnEof, R!Leave, EndInv, frontVars
    <2>2. inHandler = <<>> /\ inReader = <<>>
      BY <2>1 DEF FlowInv
    <2>3. Flow = written
      BY <2>1, <2>2, RelaySeqs, ConcatEmptySeq DEF Flow
    <2>4. ASSUME downloader # "done"
          PROVE  written = taken /\ (~broken => stream = "closed" /\ Len(taken) = Len(sent))
      <3>1. ~cancelled
        BY <2>1, <2>4 DEF EndInv
      <3> QED
        BY <2>1, <2>3, <3>1 DEF FlowInv, ReadAllInv
    <2> QED
      BY <2>1, <2>4 DEF ReadAllInv
  <1>12. ASSUME R!TakeConn, UNCHANGED <<frontVars, broken>> PROVE ReadAllInv'
    <2>1. ended = "no" /\ ended' = "no" /\ UNCHANGED <<reader, taken, cancelled>>
      BY <1>12 DEF R!TakeConn, EndInv
    <2> QED
      BY <1>12, <2>1 DEF ReadAllInv, frontVars
  <1>13. ASSUME \/ R!CloseStream \/ R!DialerStep \/ R!ReadTarget \/ R!WriteStream
                \/ R!DownloadError, UNCHANGED <<frontVars, broken>>
         PROVE  ReadAllInv'
    BY <1>4, <1>13
    DEF R!CloseStream, R!DialerStep, R!Dialled, R!DialerEnd, R!HandOver, R!Abandon,
        R!ReadTarget, R!WriteStream, R!DownloadError, R!DownloadEnd, FlowVars
  <1> QED
    BY StepKinds, <1>2, <1>3, <1>5, <1>6, <1>7, <1>8, <1>10, <1>11, <1>12, <1>13
    DEF RelayStep, R!HandlerStep
-----------------------------------------------------------------------------
(* What follows from the invariant *)

\* The stream holds what was taken from the application and is not in hand.
LEMMA SentIsTaken ==
  ASSUME TypeOK, SentInv, upCopy \in {"off", "read", "eof"}
  PROVE  sent = Taken
  <1>0. /\ sent \in Seq(Nat) /\ consumed \in Nat /\ swallowed \in Nat /\ Len(sent) \in Nat
        /\ DOMAIN sent = 1 .. Len(sent)
    BY DEF TypeOK, FrontTypeOK
  <1>1. PICK z \in {0, 1} : SentShape(z, 0)
    BY DEF SentInv
  <1> DEFINE m == consumed - swallowed
             pieces == [i \in 1 .. m |-> swallowed + i]
             opening == IF 0 \in ToSet(sent) THEN <<0>> ELSE <<>>
  <1>2. m \in Nat /\ Len(sent) = z + m /\ z \in Nat /\ z <= Len(sent)
    BY <1>0, <1>1 DEF SentShape
  <1>3. \A k \in DOMAIN sent : sent[k] = IF k <= z THEN 0 ELSE swallowed + (k - z)
    BY <1>1 DEF SentShape
  <1>4. opening = IF z = 1 THEN <<0>> ELSE <<>>
    <2>1. CASE z = 1
      <3>1. 1 \in DOMAIN sent /\ sent[1] = 0
        BY <1>0, <1>2, <1>3, <2>1
      <3> QED
        BY <2>1, <3>1 DEF ToSet
    <2>2. CASE z = 0
      <3>1. \A k \in DOMAIN sent : sent[k] # 0
        BY <1>0, <1>3, <2>2
      <3> QED
        BY <2>2, <3>1 DEF ToSet
    <2> QED
      BY <1>1, <2>1, <2>2
  <1>5. /\ opening \in Seq(Nat) /\ Len(opening) = z /\ \A i \in 1 .. z : opening[i] = 0
    <2>1. CASE z = 1
      <3>1. opening = <<0>>
        BY <1>4, <2>1
      <3> HIDE DEF opening
      <3> QED
        BY <2>1, <3>1
    <2>2. CASE z = 0
      <3>1. opening = <<>>
        BY <1>4, <2>2
      <3> HIDE DEF opening
      <3> QED
        BY <2>2, <3>1
    <2> QED
      BY <1>1, <2>1, <2>2
  <1>6. pieces \in Seq(Nat) /\ Len(pieces) = m /\ \A i \in 1 .. m : pieces[i] = swallowed + i
    <2> HIDE DEF m
    <2> QED
      BY <1>0, <1>2, IsASeq
  <1> HIDE DEF opening, pieces, m
  <1>7. /\ opening \o pieces \in Seq(Nat) /\ Len(opening \o pieces) = z + m
        /\ \A i \in 1 .. z + m :
             (opening \o pieces)[i] = IF i <= z THEN opening[i] ELSE pieces[i - z]
    BY <1>5, <1>6, ConcatProperties
  <1>8. \A i \in 1 .. Len(sent) : sent[i] = (opening \o pieces)[i]
    <2> TAKE i \in 1 .. Len(sent)
    <2>1. CASE i <= z
      BY <1>0, <1>2, <1>3, <1>5, <1>7, <2>1
    <2>2. CASE ~(i <= z)
      <3>1. i - z \in 1 .. m /\ i \in Nat
        BY <1>2, <2>2
      <3> QED
        BY <1>0, <1>2, <1>3, <1>6, <1>7, <2>2, <3>1
    <2> QED
      BY <2>1, <2>2
  <1>9. sent = opening \o pieces
    BY <1>0, <1>2, <1>7, <1>8, SeqEqual
  <1> QED
    BY <1>9 DEF Taken, opening, pieces, m

\* A piece in hand is missing from the stream.
LEMMA HeldIsMissing ==
  ASSUME TypeOK, SentInv, upCopy = "write"
  PROVE  Taken # sent
  <1>0. /\ sent \in Seq(Nat) /\ consumed \in Nat /\ swallowed \in Nat /\ Len(sent) \in Nat
        /\ DOMAIN sent = 1 .. Len(sent)
    BY DEF TypeOK, FrontTypeOK
  <1>1. PICK z \in {0, 1} : SentShape(z, 1)
    BY DEF SentInv
  <1> DEFINE m == consumed - swallowed
             pieces == [i \in 1 .. m |-> swallowed + i]
             opening == IF 0 \in ToSet(sent) THEN <<0>> ELSE <<>>
  <1>2. m \in Nat /\ Len(sent) + 1 = z + m /\ z \in Nat /\ z <= Len(sent)
    BY <1>0, <1>1 DEF SentShape
  <1>3. opening \in Seq(Nat) /\ Len(opening) >= z
    <2>1. CASE z = 1
      <3>1. 1 \in DOMAIN sent /\ sent[1] = 0
        BY <1>0, <1>1, <1>2, <2>1 DEF SentShape
      <3>2. opening = <<0>>
        BY <3>1 DEF ToSet
      <3> HIDE DEF opening
      <3> QED
        BY <2>1, <3>2
    <2>2. CASE z = 0
      <3>1. opening = <<0>> \/ opening = <<>>
        OBVIOUS
      <3> HIDE DEF opening
      <3>2. CASE opening = <<0>>
        BY <2>2, <3>2
      <3>3. CASE opening = <<>>
        BY <2>2, <3>3
      <3> QED
        BY <3>1, <3>2, <3>3
    <2> QED
      BY <1>1, <2>1, <2>2
  <1>4. pieces \in Seq(Nat) /\ Len(pieces) = m
    <2> HIDE DEF m
    <2> QED
      BY <1>0, <1>2, IsASeq
  <1>5. Taken = opening \o pieces
    BY DEF Taken
  <1> HIDE DEF opening, pieces, m
  <1>6. Len(Taken) = Len(opening) + m /\ Len(opening) \in Nat
    <2>1. Len(opening \o pieces) = Len(opening) + Len(pieces)
      BY <1>3, <1>4, ConcatProperties
    <2>2. Len(opening) \in Nat
      BY <1>3, LenProperties
    <2> QED
      BY <1>4, <1>5, <2>1, <2>2
  <1> QED
    BY <1>0, <1>2, <1>3, <1>6

LEMMA UploadFollows ==
  ASSUME TypeOK, FlowInv, SentInv, ReadAllInv
  PROVE  UploadComplete
  <1> SUFFICES ASSUME ended = "eof", downloader # "done", upCopy = "eof", ~broken
               PROVE  Received = Taken
    BY DEF UploadComplete
  <1>1. written = taken /\ Len(taken) = Len(sent) /\ \A i \in DOMAIN taken : taken[i] = i
    BY DEF ReadAllInv, FlowInv
  <1>2. sent \in Seq(Nat) /\ DOMAIN taken = 1 .. Len(sent)
    BY <1>1, RelaySeqs
  <1>3. Received = [i \in 1 .. Len(sent) |-> sent[i]]
    BY <1>1, <1>2 DEF Received, Content
  <1>4. Received = sent
    BY <1>2, <1>3
  <1> QED
    BY <1>4, SentIsTaken

-----------------------------------------------------------------------------
(* Why the way down is over *)

\* A step is one of the front end, the end of the download, another one of the
\* relay, or none of them.
LEMMA OverKinds ==
  ASSUME [Next]_vars
  PROVE  \/ F!Next /\ UNCHANGED <<relayVars, linkVars>>
         \/ UNCHANGED <<frontVars, relayVars, targetEnded>> /\ (broken => broken')
         \/ DownloadEnds
         \/ /\ \/ Arrives \/ StreamEnds \/ R!SendChunk \/ R!DropChunk \/ R!ReaderEnd
               \/ R!DialerStep \/ R!HandlerStep \/ R!ReadTarget \/ R!WriteStream
            /\ UNCHANGED <<frontVars, broken, targetEnded>>
  BY DEF Next, vars, Client, Server, Serve, Break, Arrives, StreamEnds, Relays, Answers,
         Answer, linkVars

LEMMA InitOver == Init => OverInv
  BY DEF Init, F!Init, R!Init, OverInv

\* The application and the link do not come back.
LEMMA EndsKept ==
  ASSUME [Next]_vars
  PROVE  Ends => Ends'
  <1> USE DEF F!appVars, F!copyVars
  <1>1. ASSUME F!Next, UNCHANGED linkVars PROVE Ends => Ends'
    <2>1. appEnded => appEnded'
      BY <1>1
      DEF F!Next, F!Handler, F!Up, F!Down, F!AppSends, F!AppEnds, F!Body, F!RequestFails, F!Greet,
          F!UserPass, F!Request, F!Grant, F!ReadHead, F!Password, F!Host, F!Open, F!OpenFails,
          F!WriteFirst, F!WriteFirstFails, F!Done, F!UpRead, F!UpWrite, F!UpEof, F!UpFails,
          F!UpEnds, F!DownRead, F!DownWrite, F!DownEof, F!DownFails, F!DownEnds, F!GoTo
    <2> QED
      BY <1>1, <2>1 DEF Ends, linkVars
  <1>2. ASSUME UNCHANGED frontVars, broken => broken' PROVE Ends => Ends'
    BY <1>2 DEF Ends, frontVars
  <1> QED
    <2>1. CASE F!Next /\ UNCHANGED <<relayVars, linkVars>>
      BY <1>1, <2>1
    <2>2. CASE UNCHANGED <<frontVars, relayVars, targetEnded>> /\ (broken => broken')
      BY <1>2, <2>2
    <2>3. CASE UNCHANGED <<frontVars, broken, targetEnded>>
      BY <1>2, <2>3
    <2>4. CASE DownloadEnds
      <3>1. UNCHANGED <<frontVars, broken>>
        BY <2>4 DEF DownloadEnds
      <3> QED
        BY <1>2, <3>1
    <2> QED
      BY OverKinds, <2>1, <2>2, <2>3, <2>4

\* What the front end does to the stream's end while nobody else ends it.
LEMMA FrontOver ==
  ASSUME TypeOK, SentInv, OverInv, F!Next, UNCHANGED <<relayVars, linkVars>>, ~Ends, ~Ends'
  PROVE  /\ stream' = "closed" => streamClosed
         /\ stream' = "closed" /\ downCopy' \in {"read", "write", "failed"} => Taken' # sent'
  <1> USE DEF F!appVars, F!copyVars
  <1>0. ~appEnded /\ ~broken /\ (stream = "closed" => streamClosed)
    BY DEF Ends, OverInv
  <1>1. ASSUME UNCHANGED <<sent, consumed, swallowed>> PROVE Taken' = Taken /\ sent' = sent
    BY <1>1 DEF Taken
  <1>2. ASSUME stream' # "closed" \/ (stream' = stream /\ downCopy' = downCopy)
               \/ downCopy' \in {"off", "eof"},
               UNCHANGED <<sent, consumed, swallowed>>, stream' = "closed" => streamClosed
        PROVE  /\ stream' = "closed" => streamClosed
               /\ stream' = "closed" /\ downCopy' \in {"read", "write", "failed"} => Taken' # sent'
    BY <1>0, <1>1, <1>2 DEF OverInv
  <1>3. ASSUME \/ F!AppSends \/ F!AppEnds \/ F!RequestFails \/ F!Greet \/ F!UserPass
               \/ F!Request \/ F!Grant \/ F!Password \/ F!Host \/ F!OpenFails \/ F!Done
        PROVE  UNCHANGED <<stream, downCopy, sent, consumed, swallowed>>
    BY <1>3
    DEF F!AppSends, F!AppEnds, F!RequestFails, F!Greet, F!UserPass,
        F!Request, F!Grant, F!Password, F!Host, F!OpenFails, F!Done, F!GoTo
  <1>4. CASE \/ F!ReadHead \/ F!Body \/ F!Open \/ F!WriteFirst \/ F!UpRead \/ F!UpWrite
             \/ F!DownRead \/ F!DownWrite
    <2>1. CASE F!ReadHead \/ F!Body
      BY <2>1, Swallows DEF SentInv, Requesting
    <2>2. CASE \/ F!Open \/ F!WriteFirst \/ F!UpRead \/ F!UpWrite \/ F!DownRead \/ F!DownWrite
      BY <2>2
      DEF F!Open, F!WriteFirst, F!UpRead, F!UpWrite, F!DownRead, F!DownWrite, SentInv
    <2> QED
      BY <1>4, <2>1, <2>2
  <1>5. CASE F!WriteFirstFails
    <2>1. downCopy' = "off" /\ streamClosed /\ UNCHANGED <<sent, consumed, swallowed>>
      BY <1>0, <1>5 DEF F!WriteFirstFails, SentInv
    <2> QED
      BY <1>2, <2>1
  <1>6. CASE F!UpEof
    BY <1>0, <1>6 DEF F!UpEof
  <1>7. CASE F!UpFails
    <2>1. UNCHANGED <<sent, consumed, swallowed, downCopy>> /\ stream' = "closed"
      BY <1>7 DEF F!UpFails, F!UpEnds
    <2>2. CASE stream = "closed"
      BY <1>0, <1>2, <2>1, <2>2
    <2>3. CASE stream # "closed"
      <3>1. upCopy = "write" /\ streamClosed
        BY <1>0, <1>7, <2>3 DEF F!UpFails
      <3> QED
        BY <1>1, <2>1, <3>1, HeldIsMissing
    <2> QED
      BY <2>2, <2>3
  <1>8. CASE F!DownEof
    <2>1. downCopy' = "eof" /\ streamClosed /\ UNCHANGED <<sent, consumed, swallowed>>
      BY <1>8 DEF F!DownEof, F!DownEnds
    <2> QED
      BY <1>2, <2>1
  <1>9. CASE F!DownFails
    <2>1. stream = "closed" /\ downCopy \in {"read", "write"}
          /\ UNCHANGED <<sent, consumed, swallowed>>
      BY <1>0, <1>9 DEF F!DownFails, F!DownEnds
    <2>2. Taken # sent /\ streamClosed
      BY <1>0, <2>1 DEF OverInv, Ends
    <2> QED
      BY <1>1, <2>1, <2>2
  <1> QED
    BY <1>0, <1>2, <1>3, <1>4, <1>5, <1>6, <1>7, <1>8, <1>9
    DEF F!Next, F!Handler, F!Up, F!Down

LEMMA NextOver ==
  ASSUME TypeOK, HolderInv, EndInv, SentInv, OverInv, [Next]_vars
  PROVE  OverInv'
  <1> USE DEF R!readerVars, R!dialVars, R!handlerVars, F!appVars, F!copyVars
  <1>1. (downCopy \in {"eof", "failed"} => stream = "closed")'
    <2>1. CASE F!Next
      <3>1. stream = "closed" => stream' = "closed"
        BY <2>1, SentMoves
      <3>2. downCopy' \in {"eof", "failed"} => downCopy' = downCopy \/ stream' = "closed"
        BY <2>1
        DEF F!Next, F!Handler, F!Up, F!Down, F!AppSends, F!AppEnds, F!Body, F!RequestFails,
            F!Greet, F!UserPass, F!Request, F!Grant, F!ReadHead, F!Password, F!Host, F!Open,
            F!OpenFails, F!WriteFirst, F!WriteFirstFails, F!Done, F!UpRead, F!UpWrite, F!UpEof,
            F!UpFails, F!UpEnds, F!DownRead, F!DownWrite, F!DownEof, F!DownFails, F!DownEnds,
            F!GoTo
      <3> QED
        BY <3>1, <3>2 DEF OverInv
    <2>2. CASE UNCHANGED frontVars
      BY <2>2 DEF frontVars, OverInv
    <2> QED
      BY StepKinds, <2>1, <2>2
  <1>2. CASE Ends'
    BY <1>1, <1>2 DEF OverInv
  <1>3. CASE ~Ends'
    <2>0. ~Ends /\ ~appEnded /\ ~broken
      BY <1>3, EndsKept DEF Ends
    <2>a. stream = "closed" => streamClosed /\ handler = "returned"
      BY <2>0 DEF OverInv, EndInv
    <2>1. CASE F!Next /\ UNCHANGED <<relayVars, linkVars>>
      <3>1. /\ stream' = "closed" => streamClosed
            /\ stream' = "closed" /\ downCopy' \in {"read", "write", "failed"} => Taken' # sent'
        BY <1>3, <2>0, <2>1, FrontOver
      <3> QED
        BY <1>1, <2>0, <2>1, <3>1 DEF OverInv, relayVars, linkVars
    <2> DEFINE DownOver ==
                 /\ stream' = "closed" => streamClosed'
                 /\ stream' = "closed" /\ downCopy' \in {"read", "write", "failed"} =>
                      Taken' # sent'
    <2>b. ASSUME UNCHANGED frontVars, streamClosed => streamClosed' PROVE DownOver
      BY <2>0, <2>b DEF frontVars, OverInv, Taken
    <2>2. CASE UNCHANGED <<frontVars, relayVars, targetEnded>>
      <3>1. DownOver
        BY <2>2, <2>b DEF relayVars
      <3> QED
        BY <1>1, <2>0, <2>2, <3>1 DEF OverInv, relayVars
    <2>3. CASE DownloadEnds
      <3>1. /\ downloader \in {"read", "write"} /\ downloader' = "done" /\ cancelled' = TRUE
            /\ downloader = "write" => streamClosed \/ broken \/ stream = "closed"
            /\ targetEnded' = (targetEnded \/ (downloader = "read" /\ conn = "open"))
            /\ UNCHANGED <<handler, ended, reader, streamClosed, frontVars>>
        BY <2>3 DEF DownloadEnds, R!DownloadError, R!DownloadEnd
      <3>2. handler \in {"relay", "write"} => targetEnded'
        BY <2>0, <2>a, <3>1 DEF HolderInv, EndInv
      <3>3. handler \in {"closing", "returned"} => targetEnded' \/ ended = "write"
        BY <2>0, <3>1 DEF OverInv
      <3>4. DownOver
        BY <2>b, <3>1
      <3> QED
        BY <1>1, <3>1, <3>2, <3>3, <3>4 DEF OverInv
    <2>4. ASSUME Arrives \/ StreamEnds \/ R!SendChunk \/ R!DropChunk \/ R!ReaderEnd,
                 UNCHANGED <<frontVars, broken, targetEnded>>
          PROVE  OverInv'
      <3>1. /\ UNCHANGED <<handler, downloader, ended, cancelled, streamClosed>>
            /\ reader' \in {"fail", "done"} =>
                 reader \in {"fail", "done"} \/ cancelled \/ StreamEnds
        BY <2>4
        DEF Arrives, StreamEnds, R!ReadChunk, R!ReadError, R!SendChunk, R!DropChunk, R!ReaderEnd
      <3>2. StreamEnds => cancelled
        BY <2>0, <2>a DEF StreamEnds, EndInv
      <3>3. DownOver
        BY <2>4, <2>b, <3>1
      <3> QED
        BY <1>1, <2>0, <2>4, <3>1, <3>2, <3>3 DEF OverInv
    <2>5. ASSUME R!DialerStep \/ R!ReadTarget \/ R!WriteStream,
                 UNCHANGED <<frontVars, broken, targetEnded>>
          PROVE  OverInv'
      <3>1. /\ UNCHANGED <<handler, ended, reader, cancelled, streamClosed>>
            /\ downloader = "off" => downloader' = "off"
            /\ downloader' = "done" => downloader = "done"
        BY <2>5
        DEF R!DialerStep, R!Dialled, R!DialerEnd, R!HandOver, R!Abandon, R!ReadTarget, R!WriteStream
      <3>2. DownOver
        BY <2>5, <2>b, <3>1
      <3> QED
        BY <1>1, <2>0, <2>5, <3>1, <3>2 DEF OverInv
    <2>6. ASSUME R!TakeConn \/ R!TakeData \/ R!WriteTarget \/ R!CloseStream,
                 UNCHANGED <<frontVars, broken, targetEnded>>
          PROVE  OverInv'
      <3>1. /\ UNCHANGED <<ended, reader, cancelled>> /\ (streamClosed => streamClosed')
            /\ \/ handler' = "relay" /\ downloader' = "read"
               \/ handler \in {"relay", "write"} /\ handler' \in {"relay", "write"}
                  /\ downloader' = downloader
               \/ handler = "closing" /\ handler' = "returned" /\ downloader' = downloader
        BY <2>6 DEF R!TakeConn, R!TakeData, R!WriteTarget, R!CloseStream
      <3>2. DownOver
        BY <2>6, <2>b, <3>1
      <3> QED
        BY <1>1, <2>0, <2>6, <3>1, <3>2 DEF OverInv
    <2>7. ASSUME NEW why, R!Leave(why), UNCHANGED <<frontVars, broken, targetEnded>>,
                 downloader = "off" \/ targetEnded \/ why = "write"
          PROVE  OverInv'
      <3>1. /\ UNCHANGED <<reader, downloader, streamClosed>> /\ cancelled' = TRUE
            /\ handler' = "closing" /\ ended' = why
        BY <2>7 DEF R!Leave
      <3>2. DownOver
        BY <2>7, <2>b, <3>1
      <3> QED
        BY <1>1, <2>7, <3>1, <3>2 DEF OverInv
    <2>8. ASSUME R!LeaveOnError \/ R!LeaveOnTimeout \/ R!LeaveOnWriteError,
                 UNCHANGED <<frontVars, broken, targetEnded>>
          PROVE  OverInv'
      <3>1. handler = "wait" => downloader = "off"
        BY DEF EndInv
      <3> QED
        BY <2>7, <2>8, <3>1 DEF R!LeaveOnError, R!LeaveOnTimeout, R!LeaveOnWriteError
    <2>9. ASSUME R!LeaveOnEof \/ R!LeaveOnCancel, UNCHANGED <<frontVars, broken, targetEnded>>
          PROVE  OverInv'
      <3>1. handler = "relay" /\ (cancelled \/ reader = "done")
        BY <2>9 DEF R!LeaveOnEof, R!LeaveOnCancel, EndInv
      <3>2. cancelled
        BY <2>0, <3>1 DEF OverInv
      <3>3. targetEnded
        BY <2>0, <3>1, <3>2 DEF OverInv, EndInv
      <3> QED
        BY <2>7, <2>9, <3>3 DEF R!LeaveOnEof, R!LeaveOnCancel
    <2> HIDE DEF DownOver
    <2> QED
      BY OverKinds, <2>1, <2>2, <2>3, <2>4, <2>5, <2>6, <2>8, <2>9 DEF R!HandlerStep
  <1> QED
    BY <1>2, <1>3
-----------------------------------------------------------------------------
(* The safety properties *)

LEMMA Follows ==
  ASSUME IInv
  PROVE  ConnClosed /\ UploadComplete /\ DownloadComplete
  <1>1. ConnClosed
    BY DEF IInv, HolderInv, EndInv, ConnClosed, R!ConnClosed
  <1>2. DownloadComplete
    BY DEF IInv, AnswerInv, EndInv, OverInv, Ends, DownloadComplete
  <1> QED
    BY <1>1, <1>2, UploadFollows DEF IInv
-----------------------------------------------------------------------------
(* The theorems *)

\* The invariant holds in every reachable state: it says what the goroutines of
\* the relay and the copies of the front end hold between them.
THEOREM InvCorrect == Spec => []IInv
  <1>1. Init => IInv
    BY InitType, InitHolder, InitSent, InitFlow, InitOver DEF IInv
  <1>2. IInv /\ [Next]_vars => IInv'
    BY NextType, NextHolder, NextEnd, NextFlow, NextSent, NextReadAll, NextAnswer, NextOver
    DEF IInv
  <1> QED
    BY <1>1, <1>2, PTL DEF Spec

\* Every reachable state of a tunnelled connection is well typed.
THEOREM TypeCorrect == Spec => []TypeOK
  <1>1. IInv => TypeOK
    BY DEF IInv
  <1> QED
    BY InvCorrect, <1>1, PTL

\* When the relay's goroutines are gone its target connection is closed, or is
\* the one that was left in dialCh when nobody waited any more.
THEOREM ConnClosedCorrect == Spec => []ConnClosed
  <1>1. IInv => ConnClosed
    BY Follows
  <1> QED
    BY InvCorrect, <1>1, PTL

\* What the application sent before it ended its side has reached the target
\* when the relay finds the end of the stream.
THEOREM UploadCompleteCorrect == Spec => []UploadComplete
  <1>1. IInv => UploadComplete
    BY Follows
  <1> QED
    BY InvCorrect, <1>1, PTL

\* A download ends early only for a reason that both sides can see: otherwise
\* the application has every answer the relay wrote, and the relay stopped
\* because the target ended, could not be written to or was never reached.
THEOREM DownloadCompleteCorrect == Spec => []DownloadComplete
  <1>1. IInv => DownloadComplete
    BY Follows
  <1> QED
    BY InvCorrect, <1>1, PTL
-----------------------------------------------------------------------------
(* The upload as a byte stream: sequences *)

LEMMA AppendNumbers ==
  \A s, t \in Seq(Nat), e \in Nat : Append(s \o t, e) = s \o Append(t, e)
  <1> TAKE s, t \in Seq(Nat), e \in Nat
  <1>1. s \o t \in Seq(Nat) /\ <<e>> \in Seq(Nat)
    BY ConcatProperties
  <1>2. Append(s \o t, e) = (s \o t) \o <<e>> /\ Append(t, e) = t \o <<e>>
    BY <1>1, AppendIsConcat
  <1>3. (s \o t) \o <<e>> = s \o (t \o <<e>>)
    BY <1>1, ConcatAssociative
  <1> QED
    BY <1>2, <1>3

\* The items of f at the places s.
Pick(f, s) == [i \in DOMAIN s |-> f[s[i]]]

LEMMA PickType ==
  ASSUME NEW f \in Seq(Nat), NEW s \in Seq(1 .. Len(f))
  PROVE  /\ Pick(f, s) \in Seq(Nat) /\ Len(Pick(f, s)) = Len(s)
         /\ \A i \in 1 .. Len(s) : Pick(f, s)[i] = f[s[i]]
  <1>1. Len(s) \in Nat /\ DOMAIN s = 1 .. Len(s) /\ \A i \in 1 .. Len(s) : s[i] \in 1 .. Len(f)
    OBVIOUS
  <1>2. \A k \in 1 .. Len(f) : f[k] \in Nat
    OBVIOUS
  <1>3. Pick(f, s) = [i \in 1 .. Len(s) |-> f[s[i]]]
    BY <1>1 DEF Pick
  <1>4. \A i \in 1 .. Len(s) : f[s[i]] \in Nat
    BY <1>1, <1>2
  <1> QED
    BY ONLY <1>1, <1>3, <1>4, IsASeq

LEMMA PickConcat ==
  ASSUME NEW f \in Seq(Nat), NEW s \in Seq(1 .. Len(f)), NEW t \in Seq(1 .. Len(f))
  PROVE  Pick(f, s \o t) = Pick(f, s) \o Pick(f, t)
  <1> DEFINE u == s \o t
             p == Pick(f, s)
             q == Pick(f, t)
  <1>1. /\ u \in Seq(1 .. Len(f)) /\ Len(u) = Len(s) + Len(t)
        /\ \A i \in 1 .. Len(s) + Len(t) : u[i] = IF i <= Len(s) THEN s[i] ELSE t[i - Len(s)]
    BY ConcatProperties
  <1> HIDE DEF u
  <1>2. /\ Pick(f, u) \in Seq(Nat) /\ Len(Pick(f, u)) = Len(u)
        /\ \A i \in 1 .. Len(u) : Pick(f, u)[i] = f[u[i]]
    BY <1>1, PickType
  <1>3. /\ p \in Seq(Nat) /\ Len(p) = Len(s) /\ \A i \in 1 .. Len(s) : p[i] = f[s[i]]
        /\ q \in Seq(Nat) /\ Len(q) = Len(t) /\ \A i \in 1 .. Len(t) : q[i] = f[t[i]]
    BY PickType
  <1>4. Len(s) \in Nat /\ Len(t) \in Nat
    OBVIOUS
  <1> HIDE DEF p, q
  <1>5. /\ p \o q \in Seq(Nat) /\ Len(p \o q) = Len(p) + Len(q)
        /\ \A i \in 1 .. Len(p) + Len(q) : (p \o q)[i] = IF i <= Len(p) THEN p[i] ELSE q[i - Len(p)]
    <2>1. p \in Seq(Nat) /\ q \in Seq(Nat)
      BY <1>3
    <2> QED
      BY ONLY <2>1, ConcatProperties
  <1>6. ASSUME NEW i \in 1 .. Len(s) + Len(t) PROVE Pick(f, u)[i] = (p \o q)[i]
    <2>1. CASE i <= Len(s)
      <3>1. i \in 1 .. Len(s)
        BY <1>4, <2>1
      <3>2. u[i] = s[i] /\ (p \o q)[i] = p[i]
        BY <1>1, <1>3, <1>5, <2>1
      <3>3. Pick(f, u)[i] = f[u[i]] /\ p[i] = f[s[i]]
        BY <1>1, <1>2, <1>3, <3>1
      <3> QED
        BY ONLY <3>2, <3>3
    <2>2. CASE ~(i <= Len(s))
      <3>1. i - Len(s) \in 1 .. Len(t)
        BY <1>4, <2>2
      <3>2. u[i] = t[i - Len(s)] /\ (p \o q)[i] = q[i - Len(s)]
        BY <1>1, <1>3, <1>5, <2>2
      <3>3. Pick(f, u)[i] = f[u[i]] /\ q[i - Len(s)] = f[t[i - Len(s)]]
        BY <1>1, <1>2, <1>3, <3>1
      <3> QED
        BY ONLY <3>2, <3>3
    <2> QED
      BY <2>1, <2>2
  <1>7. Len(Pick(f, u)) = Len(p \o q) /\ Len(p \o q) = Len(s) + Len(t)
    BY <1>1, <1>2, <1>3, <1>5
  <1>8. Pick(f, u) = p \o q
    BY <1>2, <1>5, <1>6, <1>7, SeqEqual
  <1> QED
    BY <1>8 DEF u, p, q

LEMMA PickLonger ==
  ASSUME NEW f \in Seq(Nat), NEW e \in Nat, NEW s \in Seq(1 .. Len(f))
  PROVE  Pick(Append(f, e), s) = Pick(f, s)
  <1>1. \A i \in DOMAIN s : s[i] \in 1 .. Len(f)
    OBVIOUS
  <1>2. \A k \in 1 .. Len(f) : Append(f, e)[k] = f[k]
    BY AppendProperties
  <1> QED
    BY <1>1, <1>2 DEF Pick

LEMMA PickOne ==
  ASSUME NEW f \in Seq(Nat), NEW k \in 1 .. Len(f)
  PROVE  Pick(f, <<k>>) = <<f[k]>>
  BY DEF Pick

\* More places to choose from.
LEMMA MorePlaces ==
  ASSUME NEW m \in Nat, NEW n \in Nat, m <= n, NEW s \in Seq(1 .. m)
  PROVE  s \in Seq(1 .. n)
  <1>1. 1 .. m \subseteq 1 .. n
    OBVIOUS
  <1>2. Len(s) \in Nat /\ s = [i \in 1 .. Len(s) |-> s[i]] /\ \A i \in 1 .. Len(s) : s[i] \in 1 .. m
    OBVIOUS
  <1>3. \A i \in 1 .. Len(s) : s[i] \in 1 .. n
    BY <1>1, <1>2
  <1> QED
    BY ONLY <1>2, <1>3, IsASeq, SMTT(20)

\* The first part of a sequence, and the rest.
LEMMA PartsOf ==
  ASSUME NEW p \in Seq(Nat), NEW q \in Seq(Nat)
  PROVE  /\ SubSeq(p \o q, 1, Len(p)) = p
         /\ SubSeq(p \o q, Len(p) + 1, Len(p \o q)) = q
         /\ Len(p) \in 0 .. Len(p \o q)
  <1> DEFINE w == p \o q
  <1>1. /\ w \in Seq(Nat) /\ Len(w) = Len(p) + Len(q)
        /\ \A i \in 1 .. Len(p) + Len(q) : w[i] = IF i <= Len(p) THEN p[i] ELSE q[i - Len(p)]
    BY ConcatProperties
  <1>2. Len(p) \in Nat /\ Len(q) \in Nat
    OBVIOUS
  <1> HIDE DEF w
  <1>3. Len(p) \in 0 .. Len(w)
    BY <1>1, <1>2
  <1>4. /\ SubSeq(w, 1, Len(p)) \in Seq(Nat) /\ Len(SubSeq(w, 1, Len(p))) = Len(p)
        /\ \A i \in 1 .. Len(p) : SubSeq(w, 1, Len(p))[i] = w[i]
    BY <1>1, <1>3, HeadPart
  <1>5. SubSeq(w, 1, Len(p)) = p
    <2>1. \A i \in 1 .. Len(p) : SubSeq(w, 1, Len(p))[i] = p[i]
      BY <1>1, <1>2, <1>4, SMTT(20)
    <2> QED
      BY <1>4, <2>1, SeqEqual
  <1>6. SubSeq(w, Len(p) + 1, Len(w)) = q
    <2> DEFINE r == SubSeq(w, Len(p) + 1, Len(w))
    <2>1. r \in Seq(Nat) /\ Len(r) = Len(w) - Len(p)
      BY <1>1, <1>3, TailPart
    <2>2. SubSeq(w, 1, Len(p)) \o r = w
      <3>1. 1 \in 1 .. Len(w) + 1 /\ Len(p) \in 1 - 1 .. Len(w) /\ Len(w) \in Len(p) .. Len(w)
        BY <1>1, <1>2, <1>3
      <3>2. SubSeq(w, 1, Len(p)) \o r = SubSeq(w, 1, Len(w))
        BY <1>1, <3>1, ConcatAdjacentSubSeq
      <3> QED
        BY <1>1, <3>2, SubSeqFull
    <2>3. p \o r = p \o q
      BY <1>5, <2>2 DEF w
    <2> HIDE DEF r
    <2>4. r = q
      BY <2>1, <2>3, ConcatSimplifications
    <2> QED
      BY <2>4 DEF r
  <1> QED
    BY <1>3, <1>5, <1>6 DEF w

\* The rest of a sequence, when an item is added and when the first is taken.
LEMMA RestLonger ==
  ASSUME NEW f \in Seq(Nat), NEW e \in Nat, NEW k \in 0 .. Len(f)
  PROVE  SubSeq(Append(f, e), k + 1, Len(Append(f, e))) = SubSeq(f, k + 1, Len(f)) \o <<e>>
  <1> DEFINE p == SubSeq(f, 1, k)
             r == SubSeq(f, k + 1, Len(f))
             q == r \o <<e>>
  <1>1. p \in Seq(Nat) /\ Len(p) = k /\ r \in Seq(Nat) /\ <<e>> \in Seq(Nat)
    BY HeadPart, TailPart
  <1>2. q \in Seq(Nat)
    <2> HIDE DEF r
    <2> QED
      BY ONLY <1>1, ConcatProperties
  <1>3. p \o r = f
    <2>1. 1 \in 1 .. Len(f) + 1 /\ k \in 1 - 1 .. Len(f) /\ Len(f) \in k .. Len(f)
      OBVIOUS
    <2>2. p \o r = SubSeq(f, 1, Len(f))
      BY <2>1, ConcatAdjacentSubSeq
    <2> QED
      BY <2>2, SubSeqFull
  <1>4. Append(f, e) = f \o <<e>>
    BY AppendIsConcat
  <1> HIDE DEF p, r
  <1>5. (p \o r) \o <<e>> = p \o q
    BY ONLY <1>1, ConcatNumbers, ZenonT(30)
  <1> HIDE DEF q
  <1>6. Append(f, e) = p \o q
    BY ONLY <1>3, <1>4, <1>5, Zenon
  <1>7. SubSeq(p \o q, Len(p) + 1, Len(p \o q)) = q
    BY <1>1, <1>2, PartsOf
  <1> QED
    BY <1>1, <1>6, <1>7 DEF q, r

LEMMA RestShorter ==
  ASSUME NEW f \in Seq(Nat), NEW k \in Nat, k < Len(f)
  PROVE  SubSeq(f, k + 1, Len(f)) = <<f[k + 1]>> \o SubSeq(f, k + 2, Len(f))
  <1>1. k + 1 \in 1 .. Len(f) /\ Len(f) \in k + 1 .. Len(f) /\ (k + 1) + 1 = k + 2
    OBVIOUS
  <1> QED
    BY <1>1, SubSeqRecursiveFirst

\* There is nothing to choose from an empty sequence.
LEMMA NoPlaces ==
  ASSUME NEW s \in Seq(1 .. 0)
  PROVE  s = <<>>
  <1>1. s # <<>> => s[1] \in 1 .. 0
    OBVIOUS
  <1> QED
    BY <1>1
-----------------------------------------------------------------------------
(* The upload as a byte stream: its steps *)

\* The chunks in the relay, the items on the stream, and all that waits.
OnWay == (inHandler \o dataCh) \o inReader
OnStream == SubSeq(sent, Len(taken) + 1, Len(sent))
Waiting == (Content(OnWay) \o OnStream) \o InHand
Alive == ~(cancelled \/ broken \/ stream = "closed" \/ phase = "over")

\* A step of ByteStream takes d.
LEMMA UploadAccepts ==
  ASSUME NEW d \in 0 .. MaxTyped, Taken' = Append(Taken, d),
         Waiting' = Append(Waiting, d), Received' = Received, Alive' = Alive
  PROVE  Upload!Next
  <1>1. Upload!Accept(d)
    BY DEF Upload!Accept, Waiting, OnWay, OnStream, Alive
  <1> QED
    BY <1>1 DEF Upload!Next

\* What waits first is sent.
LEMMA UploadTransmits ==
  ASSUME NEW p \in Seq(Nat), NEW q \in Seq(Nat), p # <<>>, Waiting = p \o q,
         Waiting' = q, Received' = Received \o p, Taken' = Taken, Alive' = Alive
  PROVE  Upload!Next
  <1> DEFINE n == Len(p)
  <1>1. /\ SubSeq(Waiting, 1, n) = p /\ SubSeq(Waiting, n + 1, Len(Waiting)) = q
        /\ n \in 0 .. Len(Waiting)
    BY PartsOf
  <1>2. n \in 1 .. Len(Waiting)
    <2>1. n # 0 /\ n \in Nat
      OBVIOUS
    <2> HIDE DEF n
    <2> QED
      BY <1>1, <2>1
  <1> HIDE DEF n
  <1>3. Upload!Transmit(n)
    BY <1>1 DEF Upload!Transmit, Waiting, OnWay, OnStream, Alive
  <1> QED
    BY <1>2, <1>3 DEF Upload!Next, Waiting, OnWay, OnStream

\* Of what waits, a part in the middle is dropped, which may be empty.
LEMMA UploadDrops ==
  ASSUME NEW p \in Seq(Nat), NEW q \in Seq(Nat), NEW r \in Seq(Nat),
         Waiting = (p \o q) \o r, Waiting' = p \o r,
         Received \in Seq(Nat), Received' = Received, Taken' = Taken, ~Alive'
  PROVE  Upload!Next
  <1> DEFINE j == Len(p)
             k == Len(p \o q)
  <1>0. p \o q \in Seq(Nat) /\ q \o r \in Seq(Nat)
    <2>1. p \in Seq(Nat) /\ q \in Seq(Nat) /\ r \in Seq(Nat)
      OBVIOUS
    <2> QED
      BY ONLY <2>1, ConcatProperties
  <1>1. /\ SubSeq(Waiting, k + 1, Len(Waiting)) = r /\ k \in 0 .. Len(Waiting)
    BY <1>0, PartsOf
  <1>2. SubSeq(Waiting, 1, j) = p
    <2>1. (p \o q) \o r = p \o (q \o r)
      BY ConcatNumbers, ZenonT(30)
    <2>2. SubSeq(p \o (q \o r), 1, j) = p
      BY <1>0, PartsOf
    <2> QED
      BY <2>1, <2>2
  <1>3. j \in 0 .. k
    BY PartsOf
  <1>4. 0 \in 0 .. j
    OBVIOUS
  <1>5. SubSeq(Waiting, 1, 0) = <<>>
    BY SubSeqEmpty
  <1>6. Received' = Received \o SubSeq(Waiting, 1, 0)
    BY <1>5, ConcatEmptySeq
  <1> HIDE DEF j, k
  <1>7. Waiting' = SubSeq(Waiting, 0 + 1, j) \o SubSeq(Waiting, k + 1, Len(Waiting))
    <2>1. Waiting' = p \o r /\ 0 + 1 = 1
      OBVIOUS
    <2> QED
      BY ONLY <1>1, <1>2, <2>1, Zenon
  <1>8. Upload!Degrade(0, j, k)
    BY <1>6, <1>7 DEF Upload!Degrade, Waiting, OnWay, OnStream, Alive
  <1> QED
    BY <1>1, <1>3, <1>4, <1>8 DEF Upload!Next, Waiting, OnWay, OnStream

\* Nothing moves; the link may go down.
LEMMA UploadRests ==
  ASSUME Waiting \in Seq(Nat), Received \in Seq(Nat), Waiting' = Waiting,
         Received' = Received, Taken' = Taken, Alive' => Alive
  PROVE  [Upload!Next]_(Upload!vars)
  <1>1. CASE Alive' = Alive
    BY <1>1 DEF Upload!vars, Waiting, OnWay, OnStream, Alive
  <1>2. CASE ~Alive'
    <2>1. <<>> \in Seq(Nat) /\ Waiting \o <<>> = Waiting
      BY ConcatEmptySeq
    <2>2. Waiting = (Waiting \o <<>>) \o <<>> /\ Waiting' = Waiting \o <<>>
      BY <2>1
    <2> QED
      BY <1>2, <2>1, <2>2, UploadDrops
  <1> QED
    BY <1>1, <1>2 DEF Alive

\* Nothing is taken that was not sent, and the relay holds only what it read.
StreamInv ==
  /\ consumed <= typed /\ typed <= MaxTyped
  /\ inHandler \in Seq(1 .. Len(sent)) /\ dataCh \in Seq(1 .. Len(sent))
  /\ inReader \in Seq(1 .. Len(sent))

LEMMA InitStream == Init => StreamInv
  <1> SUFFICES ASSUME Init PROVE StreamInv
    OBVIOUS
  <1>1. <<>> \in Seq(1 .. Len(sent))
    OBVIOUS
  <1> QED
    BY <1>1, BoundsAssumption DEF Init, F!Init, R!Init, StreamInv

LEMMA NextStream ==
  ASSUME TypeOK, SentInv, FlowInv, StreamInv, [Next]_vars
  PROVE  StreamInv'
  <1> USE DEF R!readerVars, R!dialVars, R!handlerVars, F!appVars, F!copyVars
  <1>0. /\ typed \in Nat /\ consumed \in Nat /\ MaxTyped \in Nat
        /\ sent \in Seq(Nat) /\ Len(sent) \in Nat /\ taken \in Seq(Nat) /\ Len(taken) \in Nat
    BY BoundsAssumption DEF TypeOK, FrontTypeOK, RelayTypeOK
  <1>1. ASSUME F!Next, UNCHANGED relayVars PROVE StreamInv'
    <2>1. consumed' <= typed' /\ typed' <= MaxTyped
      <3>1. CASE UNCHANGED <<consumed, typed>>
        BY <3>1 DEF StreamInv
      <3>2. CASE F!AppSends
        BY <1>0, <3>2 DEF F!AppSends, StreamInv
      <3>3. CASE F!ReadHead \/ F!Body
        BY <1>0, <3>3, Swallows DEF StreamInv
      <3>4. CASE F!UpRead
        BY <1>0, <3>4 DEF F!UpRead, StreamInv
      <3> QED
        BY <1>1, <3>1, <3>2, <3>3, <3>4
        DEF F!Next, F!Handler, F!Up, F!Down, F!AppEnds, F!RequestFails, F!Greet, F!UserPass,
            F!Request, F!Grant, F!Password, F!Host, F!Open, F!OpenFails, F!WriteFirst,
            F!WriteFirstFails, F!Done, F!UpWrite, F!UpEof, F!UpFails, F!UpEnds, F!DownRead,
            F!DownWrite, F!DownEof, F!DownFails, F!DownEnds, F!GoTo
    <2>2. Len(sent) <= Len(sent') /\ Len(sent') \in Nat
      <3>1. sent' \in Seq(Nat)
        BY NextType DEF TypeOK, FrontTypeOK
      <3> QED
        BY <1>1, <3>1, SentMoves
    <2>3. /\ inHandler' \in Seq(1 .. Len(sent')) /\ dataCh' \in Seq(1 .. Len(sent'))
          /\ inReader' \in Seq(1 .. Len(sent'))
      <3>1. UNCHANGED <<inHandler, dataCh, inReader>>
        BY <1>1 DEF relayVars
      <3>2. /\ inHandler \in Seq(1 .. Len(sent)) /\ dataCh \in Seq(1 .. Len(sent))
            /\ inReader \in Seq(1 .. Len(sent))
        BY DEF StreamInv
      <3>3. \A q \in Seq(1 .. Len(sent)) : q \in Seq(1 .. Len(sent'))
        BY ONLY <1>0, <2>2, MorePlaces
      <3> QED
        BY ONLY <3>1, <3>2, <3>3
    <2> QED
      BY <2>1, <2>3 DEF StreamInv
  <1>2. ASSUME UNCHANGED <<frontVars, inHandler, dataCh, inReader>> PROVE StreamInv'
    BY <1>2 DEF frontVars, StreamInv
  <1>3. ASSUME Arrives, UNCHANGED frontVars PROVE StreamInv'
    <2>1. Len(taken) + 1 \in 1 .. Len(sent)
      BY <1>0, <1>3 DEF Arrives
    <2>2. <<Len(taken) + 1>> \in Seq(1 .. Len(sent))
      BY <2>1
    <2> QED
      BY <1>3, <2>2 DEF Arrives, R!ReadChunk, frontVars, StreamInv
  <1>4. ASSUME R!SendChunk, UNCHANGED frontVars PROVE StreamInv'
    <2>1. dataCh \o inReader \in Seq(1 .. Len(sent)) /\ <<>> \in Seq(1 .. Len(sent))
      BY ConcatProperties DEF StreamInv
    <2> QED
      BY <1>4, <2>1 DEF R!SendChunk, R!Queued, frontVars, StreamInv
  <1>5. ASSUME R!TakeData, UNCHANGED frontVars PROVE StreamInv'
    <2>1. <<Head(dataCh)>> \in Seq(1 .. Len(sent)) /\ Tail(dataCh) \in Seq(1 .. Len(sent))
      BY <1>5, HeadTailConcat DEF StreamInv, R!TakeData
    <2> QED
      BY <1>5, <2>1 DEF R!TakeData, frontVars, StreamInv
  <1>6. ASSUME R!WriteTarget \/ R!DropChunk \/ (\E why : R!Leave(why)), UNCHANGED frontVars
        PROVE  StreamInv'
    <2>1. <<>> \in Seq(1 .. Len(sent))
      OBVIOUS
    <2> QED
      BY <1>6, <2>1 DEF R!WriteTarget, R!DropChunk, R!Leave, frontVars, StreamInv
  <1>7. ASSUME \/ R!LeaveOnError \/ R!LeaveOnTimeout \/ R!LeaveOnWriteError \/ R!LeaveOnEof
               \/ R!LeaveOnCancel, UNCHANGED frontVars
        PROVE  StreamInv'
    BY <1>6, <1>7
    DEF R!LeaveOnError, R!LeaveOnTimeout, R!LeaveOnWriteError, R!LeaveOnEof, R!LeaveOnCancel
  <1>8. ASSUME \/ StreamEnds \/ R!ReaderEnd \/ R!TakeConn \/ R!CloseStream \/ R!DialerStep
               \/ R!ReadTarget \/ R!WriteStream \/ R!DownloadError, UNCHANGED frontVars
        PROVE  StreamInv'
    BY <1>2, <1>8
    DEF StreamEnds, R!ReadError, R!ReaderEnd, R!TakeConn, R!CloseStream, R!DialerStep,
        R!Dialled, R!DialerEnd, R!HandOver, R!Abandon, R!ReadTarget, R!WriteStream,
        R!DownloadError, R!DownloadEnd
  <1>9. ASSUME UNCHANGED <<frontVars, relayVars>> PROVE StreamInv'
    BY <1>2, <1>9 DEF relayVars
  <1> QED
    BY StepKinds, <1>1, <1>3, <1>4, <1>5, <1>6, <1>7, <1>8, <1>9
    DEF RelayStep, R!HandlerStep

\* What is sent, waits or was taken is a sequence of numbers.
LEMMA StreamTypes ==
  ASSUME TypeOK, FlowInv, StreamInv
  PROVE  /\ OnWay \in Seq(1 .. Len(sent)) /\ written \in Seq(1 .. Len(sent))
         /\ Content(OnWay) \in Seq(Nat) /\ OnStream \in Seq(Nat) /\ InHand \in Seq(Nat)
         /\ Content(OnWay) \o OnStream \in Seq(Nat)
         /\ Waiting \in Seq(Nat) /\ Received \in Seq(Nat)
  <1>0. /\ sent \in Seq(Nat) /\ taken \in Seq(Nat) /\ written \in Seq(Nat) /\ consumed \in Nat
        /\ Len(taken) \in Nat /\ Len(sent) \in Nat /\ Len(taken) <= Len(sent)
    BY DEF TypeOK, FrontTypeOK, RelayTypeOK, FlowInv
  <1>1. OnWay \in Seq(1 .. Len(sent))
    <2>1. /\ inHandler \in Seq(1 .. Len(sent)) /\ dataCh \in Seq(1 .. Len(sent))
          /\ inReader \in Seq(1 .. Len(sent))
      BY DEF StreamInv
    <2>2. inHandler \o dataCh \in Seq(1 .. Len(sent))
      BY ONLY <2>1, ConcatProperties
    <2>3. (inHandler \o dataCh) \o inReader \in Seq(1 .. Len(sent))
      BY ONLY <2>1, <2>2, ConcatProperties
    <2> QED
      BY <2>3 DEF OnWay
  <1>2. written \in Seq(1 .. Len(sent))
    <2>1. Len(written) <= Len(taken) /\ \A i \in 1 .. Len(written) : written[i] = taken[i]
      BY <1>0, PrefixPointwise DEF FlowInv
    <2>2. \A i \in 1 .. Len(taken) : taken[i] = i
      BY <1>0 DEF FlowInv
    <2>3. Len(written) \in Nat /\ written = [i \in 1 .. Len(written) |-> written[i]]
      BY <1>0
    <2>4. \A i \in 1 .. Len(written) : written[i] \in 1 .. Len(sent)
      <3> TAKE i \in 1 .. Len(written)
      <3>1. i \in 1 .. Len(taken) /\ i \in 1 .. Len(sent)
        <4>1. Len(written) \in Nat /\ Len(taken) \in Nat /\ Len(sent) \in Nat
          BY <1>0, <2>3
        <4>2. Len(written) <= Len(taken) /\ Len(taken) <= Len(sent)
          BY <1>0, <2>1
        <4> QED
          BY ONLY <4>1, <4>2
      <3>2. written[i] = i
        BY <2>1, <2>2, <3>1
      <3> QED
        BY ONLY <3>1, <3>2
    <2> QED
      BY ONLY <2>3, <2>4, IsASeq
  <1>3. Content(OnWay) \in Seq(Nat) /\ Received \in Seq(Nat)
    <2>1. Content(OnWay) = Pick(sent, OnWay) /\ Received = Pick(sent, written)
      BY DEF Content, Pick, Received
    <2> QED
      BY <1>0, <1>1, <1>2, <2>1, PickType
  <1>4. OnStream \in Seq(Nat)
    <2>1. Len(taken) \in 0 .. Len(sent)
      BY <1>0
    <2> QED
      BY <1>0, <2>1, TailPart DEF OnStream
  <1>5. InHand \in Seq(Nat)
    BY <1>0 DEF InHand
  <1>6. Content(OnWay) \o OnStream \in Seq(Nat)
    BY <1>3, <1>4, ConcatProperties
  <1>7. Waiting \in Seq(Nat)
    BY <1>5, <1>6, ConcatProperties DEF Waiting
  <1> QED
    BY <1>1, <1>2, <1>3, <1>4, <1>5, <1>6, <1>7

\* Who ended the stream stays away.
LEMMA AliveBefore ==
  ASSUME TypeOK, SentInv, [Next]_vars
  PROVE  Alive' => Alive
  <1> USE DEF R!readerVars, R!dialVars, R!handlerVars, F!appVars, F!copyVars
  <1>1. ASSUME F!Next, UNCHANGED <<relayVars, linkVars>> PROVE Alive' => Alive
    <2>1. phase = "over" => phase' = "over"
      BY <1>1
      DEF F!Next, F!Handler, F!Up, F!Down, F!AppSends, F!AppEnds, F!Body, F!RequestFails, F!Greet,
          F!UserPass, F!Request, F!Grant, F!ReadHead, F!Password, F!Host, F!Open, F!OpenFails,
          F!WriteFirst, F!WriteFirstFails, F!Done, F!UpRead, F!UpWrite, F!UpEof, F!UpFails,
          F!UpEnds, F!DownRead, F!DownWrite, F!DownEof, F!DownFails, F!DownEnds, F!GoTo
    <2>2. stream = "closed" => stream' = "closed"
      BY <1>1, SentMoves
    <2> QED
      BY <1>1, <2>1, <2>2 DEF Alive, relayVars, linkVars
  <1>2. ASSUME UNCHANGED <<frontVars, relayVars>>, broken => broken' PROVE Alive' => Alive
    BY <1>2 DEF Alive, frontVars, relayVars
  <1>3. ASSUME RelayStep, UNCHANGED <<frontVars, broken>> PROVE Alive' => Alive
    <2>1. cancelled => cancelled'
      BY <1>3
      DEF RelayStep, Arrives, StreamEnds, R!ReadChunk, R!ReadError, R!SendChunk, R!DropChunk,
          R!ReaderEnd, R!DialerStep, R!Dialled, R!DialerEnd, R!HandOver, R!Abandon, R!HandlerStep,
          R!TakeConn, R!TakeData, R!WriteTarget, R!CloseStream, R!LeaveOnError, R!LeaveOnTimeout,
          R!LeaveOnWriteError, R!LeaveOnEof, R!LeaveOnCancel, R!Leave, R!ReadTarget,
          R!WriteStream, R!DownloadError, R!DownloadEnd
    <2> QED
      BY <1>3, <2>1 DEF Alive, frontVars
  <1>4. CASE UNCHANGED vars
    BY <1>4 DEF vars, frontVars, relayVars, linkVars, Alive
  <1> QED
    BY StepKinds, <1>1, <1>2, <1>3, <1>4

\* A step of the front end that passes nothing on.
LEMMA FrontRests ==
  ASSUME TypeOK, FlowInv, StreamInv, UNCHANGED relayVars, sent' = sent,
         InHand' = InHand, Taken' = Taken, Alive' => Alive
  PROVE  [Upload!Next]_(Upload!vars)
  <1>1. Waiting' = Waiting /\ Received' = Received
    BY DEF Waiting, OnWay, OnStream, Content, Received, relayVars
  <1> QED
    BY <1>1, StreamTypes, UploadRests

\* io.Copy takes a piece from the application.
LEMMA PieceTaken ==
  ASSUME TypeOK, SentInv, FlowInv, StreamInv, F!UpRead, UNCHANGED <<relayVars, linkVars>>
  PROVE  Upload!Next
  <1> USE DEF F!appVars, F!copyVars
  <1> DEFINE d == consumed + 1
             m == consumed - swallowed
             opening == IF 0 \in ToSet(sent) THEN <<0>> ELSE <<>>
             pieces == [i \in 1 .. m |-> swallowed + i]
  <1>1. /\ consumed \in Nat /\ swallowed \in Nat /\ typed \in Nat /\ MaxTyped \in Nat
        /\ consumed < typed /\ typed <= MaxTyped /\ swallowed <= consumed
    BY BoundsAssumption DEF TypeOK, FrontTypeOK, F!UpRead, StreamInv, SentInv, SentShape
  <1>2. /\ consumed' = d /\ InHand = <<>> /\ InHand' = <<d>>
        /\ UNCHANGED <<sent, swallowed, stream, phase>>
    BY DEF F!UpRead, InHand
  <1>3. d \in 0 .. MaxTyped /\ d \in Nat /\ m \in Nat /\ swallowed + (m + 1) = d
    BY <1>1
  <1>4. Taken = opening \o pieces
    BY DEF Taken
  <1>5. Taken' = opening \o [i \in 1 .. m + 1 |-> swallowed + i]
    <2>1. consumed' - swallowed' = m + 1
      BY <1>1, <1>2
    <2> QED
      BY <1>2, <2>1 DEF Taken
  <1>6. opening \in Seq(Nat)
    BY DEF opening
  <1>7. pieces \in Seq(Nat) /\ Len(pieces) = m /\ \A i \in 1 .. m : pieces[i] = swallowed + i
    <2> HIDE DEF m
    <2> QED
      BY <1>1, <1>3, IsASeq
  <1>8. [i \in 1 .. m + 1 |-> swallowed + i] = Append(pieces, d)
    <2> DEFINE longer == [i \in 1 .. m + 1 |-> swallowed + i]
    <2> HIDE DEF m, d, pieces
    <2>1. longer \in Seq(Nat) /\ Len(longer) = m + 1 /\ \A i \in 1 .. m + 1 : longer[i] = swallowed + i
      <3>1. m + 1 \in Nat /\ \A i \in 1 .. m + 1 : swallowed + i \in Nat
        BY <1>1, <1>3
      <3> QED
        BY <3>1, IsASeq
    <2>2. /\ Append(pieces, d) \in Seq(Nat) /\ Len(Append(pieces, d)) = m + 1
          /\ \A i \in 1 .. m : Append(pieces, d)[i] = pieces[i]
          /\ Append(pieces, d)[m + 1] = d
      BY <1>3, <1>7, AppendProperties
    <2> HIDE DEF longer
    <2>3. \A i \in 1 .. m + 1 : longer[i] = Append(pieces, d)[i]
      <3> TAKE i \in 1 .. m + 1
      <3>1. CASE i = m + 1
        BY <1>3, <2>1, <2>2, <3>1
      <3>2. CASE i # m + 1
        <4>1. i \in 1 .. m
          BY <1>3, <3>2
        <4> QED
          BY <1>7, <2>1, <2>2, <4>1
      <3> QED
        BY <3>1, <3>2
    <2>4. longer = Append(pieces, d)
      BY <2>1, <2>2, <2>3, SeqEqual
    <2> QED
      BY <2>4 DEF longer
  <1> HIDE DEF opening, pieces, d, m
  <1>9. Taken' = Append(Taken, d)
    <2>1. Append(opening \o pieces, d) = opening \o Append(pieces, d)
      BY ONLY <1>3, <1>6, <1>7, AppendNumbers, ZenonT(30)
    <2> QED
      BY ONLY <1>4, <1>5, <1>8, <2>1, Zenon
  <1>10. Waiting' = Append(Waiting, d)
    <2> DEFINE C == Content(OnWay) \o OnStream
    <2>1. C' = C
      BY <1>2 DEF Content, OnWay, OnStream, relayVars
    <2>2. Waiting = C \o <<>> /\ Waiting' = C \o <<d>>
      BY <1>2, <2>1 DEF Waiting
    <2>3. C \in Seq(Nat)
      BY StreamTypes
    <2> HIDE DEF C
    <2>4. C \o <<>> = C /\ Append(C, d) = C \o <<d>>
      BY <1>3, <2>3, ConcatEmptySeq, AppendIsConcat
    <2> QED
      BY <2>2, <2>4
  <1>11. Received' = Received /\ Alive' = Alive
    BY <1>2 DEF Received, Content, Alive, relayVars, linkVars
  <1> QED
    BY <1>3, <1>9, <1>10, <1>11, UploadAccepts

LEMMA ContentIsPick == \A s : Content(s) = Pick(sent, s)
  BY DEF Content, Pick

\* The piece in hand goes to the stream.
LEMMA PieceWritten ==
  ASSUME TypeOK, SentInv, FlowInv, StreamInv, F!UpWrite, UNCHANGED <<relayVars, linkVars>>,
         Alive' => Alive
  PROVE  [Upload!Next]_(Upload!vars)
  <1> USE DEF F!appVars, F!copyVars
  <1> DEFINE C == Content(OnWay)
             r == OnStream
             h == <<consumed>>
  <1>1. /\ sent \in Seq(Nat) /\ consumed \in Nat /\ swallowed \in Nat /\ Len(sent) \in Nat
        /\ Len(taken) \in 0 .. Len(sent)
    BY DEF TypeOK, FrontTypeOK, RelayTypeOK, FlowInv
  <1>2. /\ sent' = Append(sent, consumed) /\ InHand = h /\ InHand' = <<>>
        /\ UNCHANGED <<consumed, swallowed>>
    BY DEF F!UpWrite, InHand
  <1>3. consumed # 0
    <2>1. PICK z \in {0, 1} : SentShape(z, 1)
      BY DEF SentInv, F!UpWrite
    <2> QED
      BY <1>1, <2>1 DEF SentShape
  <1>4. Content(OnWay)' = C /\ Received' = Received
    <2>1. Pick(Append(sent, consumed), OnWay) = Pick(sent, OnWay)
      BY <1>1, StreamTypes, PickLonger
    <2>2. Pick(Append(sent, consumed), written) = Pick(sent, written)
      BY <1>1, StreamTypes, PickLonger
    <2>3. OnWay' = OnWay /\ written' = written
      BY DEF OnWay, relayVars
    <2>4. Content(OnWay)' = Pick(sent', OnWay') /\ Received' = Pick(sent', written')
      BY DEF Content, Pick, Received
    <2>5. C = Pick(sent, OnWay) /\ Received = Pick(sent, written)
      BY DEF Content, Pick, Received
    <2> QED
      BY ONLY <1>2, <2>1, <2>2, <2>3, <2>4, <2>5
  <1>5. OnStream' = r \o h
    <2>1. OnStream' = SubSeq(Append(sent, consumed), Len(taken) + 1, Len(Append(sent, consumed)))
      BY <1>2 DEF OnStream, relayVars
    <2> QED
      BY <1>1, <2>1, RestLonger DEF OnStream
  <1>6. C \in Seq(Nat) /\ r \in Seq(Nat) /\ h \in Seq(Nat)
    BY <1>1, StreamTypes
  <1>7. Waiting = (C \o r) \o h
    BY <1>2 DEF Waiting
  <1>8. Waiting' = (C \o (r \o h)) \o <<>>
    BY <1>2, <1>4, <1>5 DEF Waiting
  <1> HIDE DEF C, r, h
  <1>9. r \o h \in Seq(Nat) /\ C \o (r \o h) \in Seq(Nat)
    BY <1>6, ConcatProperties
  <1>10. (C \o (r \o h)) \o <<>> = C \o (r \o h)
    BY <1>9, ConcatEmptySeq
  <1>11. (C \o r) \o h = C \o (r \o h)
    BY ONLY <1>6, ConcatNumbers, ZenonT(30)
  <1>12. Waiting' = Waiting
    BY ONLY <1>7, <1>8, <1>10, <1>11, Zenon
  <1>13. Taken' = Taken
    <2>1. 0 \in ToSet(Append(sent, consumed)) <=> 0 \in ToSet(sent)
      <3>1. /\ Len(Append(sent, consumed)) = Len(sent) + 1
            /\ \A i \in 1 .. Len(sent) : Append(sent, consumed)[i] = sent[i]
            /\ Append(sent, consumed)[Len(sent) + 1] = consumed
            /\ Append(sent, consumed) \in Seq(Nat)
        BY <1>1, AppendProperties
      <3>2. /\ DOMAIN Append(sent, consumed) = 1 .. Len(sent) + 1
            /\ DOMAIN sent = 1 .. Len(sent)
        BY <1>1, <3>1
      <3>3. \A i \in 1 .. Len(sent) + 1 : i \in 1 .. Len(sent) \/ i = Len(sent) + 1
        BY <1>1
      <3>4. 1 .. Len(sent) \subseteq 1 .. Len(sent) + 1
        BY <1>1
      <3> QED
        BY <1>3, <3>1, <3>2, <3>3, <3>4 DEF ToSet
    <2> QED
      BY <1>2, <2>1 DEF Taken
  <1> QED
    BY <1>4, <1>12, <1>13, StreamTypes, UploadRests

\* The request that HTTP passes on is the first item.
LEMMA FirstWritten ==
  ASSUME TypeOK, SentInv, FlowInv, StreamInv, F!WriteFirst, UNCHANGED <<relayVars, linkVars>>
  PROVE  Upload!Next
  <1> USE DEF F!appVars, F!copyVars
  <1>1. /\ phase = "first" /\ phase' = "copy" /\ upCopy' = "read" /\ sent' = <<0>>
        /\ UNCHANGED <<consumed, swallowed, stream>>
    BY DEF F!WriteFirst
  <1>2. /\ upCopy = "off" /\ sent = <<>> /\ consumed = swallowed /\ consumed \in Nat
    BY <1>1 DEF SentInv, TypeOK, FrontTypeOK
  <1>3. taken = <<>>
    BY <1>2 DEF FlowInv, TypeOK, RelayTypeOK
  <1>4. OnWay = <<>> /\ written = <<>>
    <2>1. Len(sent) = 0
      BY <1>2
    <2> QED
      BY <2>1, StreamTypes, NoPlaces
  <1>5. OnWay' = <<>> /\ written' = <<>>
    BY <1>4 DEF OnWay, relayVars
  <1>6. Received = <<>> /\ Received' = <<>>
    BY <1>4, <1>5 DEF Received, Content
  <1>7. Content(OnWay) = <<>> /\ Content(OnWay)' = <<>>
    BY <1>4, <1>5 DEF Content
  <1>8. InHand = <<>> /\ InHand' = <<>>
    BY <1>1, <1>2 DEF InHand
  <1>9. OnStream = <<>> /\ OnStream' = <<0>>
    <2>1. SubSeq(<<>>, 1, 0) = <<>>
      BY SubSeqEmpty
    <2>2. <<0>> \in Seq(Nat) /\ Len(<<0>>) = 1
      OBVIOUS
    <2>3. SubSeq(<<0>>, 1, 1) = <<0>>
      BY <2>2, SubSeqFull
    <2>4. OnStream = SubSeq(<<>>, 1, 0)
      BY <1>2, <1>3 DEF OnStream
    <2>5. OnStream' = SubSeq(<<0>>, 1, 1)
      BY <1>1, <1>3, <2>2 DEF OnStream, relayVars
    <2> QED
      BY <2>1, <2>3, <2>4, <2>5
  <1>10. Waiting = <<>> /\ Waiting' = <<0>>
    <2>1. /\ <<>> \o <<>> = <<>> /\ (<<>> \o <<0>>) \o <<>> = <<0>>
      OBVIOUS
    <2> QED
      BY <1>7, <1>8, <1>9, <2>1 DEF Waiting
  <1>11. Taken = <<>> /\ Taken' = <<0>>
    <2>1. consumed - swallowed = 0 /\ consumed' - swallowed' = 0
      BY <1>1, <1>2
    <2>2. 0 \notin ToSet(<<>>) /\ 0 \in ToSet(<<0>>)
      BY DEF ToSet
    <2>3. \A k : [i \in 1 .. 0 |-> k + i] = <<>>
      OBVIOUS
    <2>4. <<>> \o <<>> = <<>> /\ <<0>> \o <<>> = <<0>>
      OBVIOUS
    <2> QED
      BY <1>1, <1>2, <2>1, <2>2, <2>3, <2>4 DEF Taken
  <1>12. Waiting' = Append(Waiting, 0) /\ Taken' = Append(Taken, 0)
    <2>1. Append(<<>>, 0) = <<0>>
      OBVIOUS
    <2> QED
      BY ONLY <1>10, <1>11, <2>1
  <1>13. Alive' = Alive
    BY <1>1 DEF Alive, relayVars, linkVars
  <1>14. 0 \in 0 .. MaxTyped
    BY BoundsAssumption
  <1> QED
    BY <1>6, <1>12, <1>13, <1>14, UploadAccepts

\* The copy ends with a piece in hand.
LEMMA PieceDropped ==
  ASSUME TypeOK, SentInv, FlowInv, StreamInv, F!UpFails, upCopy = "write",
         UNCHANGED <<relayVars, linkVars>>
  PROVE  Upload!Next
  <1> USE DEF F!appVars, F!copyVars
  <1> DEFINE C == Content(OnWay) \o OnStream
  <1>1. /\ stream' = "closed" /\ InHand' = <<>> /\ UNCHANGED <<sent, consumed, swallowed>>
    BY DEF F!UpFails, F!UpEnds, InHand
  <1>2. C' = C /\ Received' = Received /\ Taken' = Taken
    BY <1>1 DEF Content, OnWay, OnStream, Received, Taken, relayVars
  <1>3. C \in Seq(Nat) /\ InHand \in Seq(Nat) /\ Received \in Seq(Nat) /\ <<>> \in Seq(Nat)
    BY StreamTypes
  <1>4. Waiting = C \o InHand /\ Waiting' = C \o <<>>
    BY <1>1, <1>2 DEF Waiting
  <1>5. C \o InHand \in Seq(Nat)
    BY <1>3, ConcatProperties
  <1> HIDE DEF C
  <1>6. Waiting = (C \o InHand) \o <<>>
    BY <1>4, <1>5, ConcatEmptySeq
  <1>7. ~Alive'
    BY <1>1 DEF Alive
  <1> QED
    BY <1>2, <1>3, <1>4, <1>6, <1>7, UploadDrops

\* A step of the front end.
LEMMA FrontStreams ==
  ASSUME TypeOK, SentInv, FlowInv, StreamInv, F!Next, UNCHANGED <<relayVars, linkVars>>,
         Alive' => Alive
  PROVE  [Upload!Next]_(Upload!vars)
  <1> USE DEF F!appVars, F!copyVars
  <1>1. ASSUME UNCHANGED <<sent, consumed, swallowed>>, upCopy' = upCopy
               \/ (upCopy # "write" /\ upCopy' # "write")
        PROVE  [Upload!Next]_(Upload!vars)
    BY <1>1, FrontRests DEF InHand, Taken, relayVars
  <1>2. ASSUME \/ F!AppSends \/ F!AppEnds \/ F!RequestFails \/ F!Greet \/ F!UserPass
               \/ F!Request \/ F!Grant \/ F!Password \/ F!Host \/ F!OpenFails \/ F!WriteFirstFails
               \/ F!Done \/ F!Down
        PROVE  [Upload!Next]_(Upload!vars)
    <2>1. UNCHANGED <<sent, consumed, swallowed, upCopy>>
      BY <1>2
      DEF F!AppSends, F!AppEnds, F!Body, F!RequestFails, F!Greet, F!UserPass, F!Request,
          F!Grant, F!Password, F!Host, F!OpenFails, F!WriteFirstFails, F!Done, F!GoTo, F!Down,
          F!DownRead, F!DownWrite, F!DownEof, F!DownFails, F!DownEnds
    <2> QED
      BY <1>1, <2>1
  <1>3. CASE F!Open
    <2>1. UNCHANGED <<sent, consumed, swallowed>> /\ upCopy = "off" /\ upCopy' # "write"
      BY <1>3 DEF F!Open, SentInv, Requesting
    <2> QED
      BY <1>1, <2>1
  <1>4. CASE F!UpEof \/ (F!UpFails /\ upCopy # "write")
    <2>1. UNCHANGED <<sent, consumed, swallowed>> /\ upCopy # "write" /\ upCopy' # "write"
      BY <1>4 DEF F!UpEof, F!UpFails, F!UpEnds
    <2> QED
      BY <1>1, <2>1
  <1>5. CASE F!ReadHead \/ F!Body
    <2>1. PICK k \in Nat : consumed' = k /\ swallowed' = k
      BY <1>5, Swallows
    <2>2. sent' = sent /\ InHand = <<>> /\ InHand' = <<>> /\ consumed = swallowed
      BY <1>5, Swallows DEF SentInv, Requesting, InHand
    <2>3. consumed - swallowed = 0 /\ consumed' - swallowed' = 0
      BY <2>1, <2>2 DEF TypeOK, FrontTypeOK
    <2>4. \A i : [j \in 1 .. 0 |-> i + j] = <<>>
      OBVIOUS
    <2> DEFINE opening == IF 0 \in ToSet(sent) THEN <<0>> ELSE <<>>
    <2>5. Taken' = Taken
      <3>1. opening' = opening
        BY <2>2
      <3>2. Taken = opening \o [j \in 1 .. 0 |-> swallowed + j]
        BY <2>3 DEF Taken
      <3>3. Taken' = opening' \o [j \in 1 .. 0 |-> swallowed' + j]
        BY <2>3 DEF Taken
      <3> HIDE DEF opening
      <3>4. [j \in 1 .. 0 |-> swallowed + j] = <<>> /\ [j \in 1 .. 0 |-> swallowed' + j] = <<>>
        BY <2>4
      <3> QED
        BY ONLY <3>1, <3>2, <3>3, <3>4
    <2> QED
      BY <2>2, <2>5, FrontRests DEF relayVars
  <1> QED
    BY <1>2, <1>3, <1>4, <1>5, PieceTaken, PieceWritten, FirstWritten, PieceDropped
    DEF F!Next, F!Handler, F!Up

\* A step of the relay that moves no chunk over either of its ends.
LEMMA RelayRests ==
  ASSUME TypeOK, FlowInv, StreamInv, UNCHANGED frontVars, UNCHANGED <<taken, written>>,
         OnWay' = OnWay, Alive' => Alive
  PROVE  [Upload!Next]_(Upload!vars)
  <1>1. Waiting' = Waiting /\ Received' = Received /\ Taken' = Taken
    BY DEF Waiting, OnStream, Content, Received, Taken, InHand, frontVars
  <1> QED
    BY <1>1, StreamTypes, UploadRests

\* The reader takes a chunk from the stream: it waits where it waited.
LEMMA ChunkArrives ==
  ASSUME TypeOK, FlowInv, StreamInv, Arrives, UNCHANGED frontVars, Alive' => Alive
  PROVE  [Upload!Next]_(Upload!vars)
  <1> USE DEF R!dialVars, R!handlerVars
  <1> DEFINE n == Len(taken) + 1
             C == Content(OnWay)
             r == SubSeq(sent, Len(taken) + 2, Len(sent))
             one == <<sent[n]>>
  <1>1. /\ sent \in Seq(Nat) /\ taken \in Seq(Nat) /\ Len(taken) \in Nat /\ Len(sent) \in Nat
        /\ Len(taken) < Len(sent) /\ n \in 1 .. Len(sent)
    BY DEF TypeOK, FrontTypeOK, RelayTypeOK, Arrives
  <1>2. /\ inReader = <<>> /\ inReader' = <<n>> /\ taken' = Append(taken, n)
        /\ UNCHANGED <<written, inHandler, dataCh, sent>>
    BY DEF Arrives, R!ReadChunk, frontVars, FlowInv
  <1>3. OnWay' = OnWay \o <<n>>
    <2>1. inHandler \o dataCh \in Seq(1 .. Len(sent))
      BY ConcatProperties DEF StreamInv
    <2> HIDE DEF n
    <2>2. OnWay = inHandler \o dataCh
      BY <1>2, <2>1, ConcatEmptySeq DEF OnWay
    <2> QED
      BY <1>2, <2>2 DEF OnWay
  <1>4. Content(OnWay)' = C \o one
    <2>1. <<n>> \in Seq(1 .. Len(sent)) /\ OnWay \in Seq(1 .. Len(sent))
      BY <1>1, StreamTypes
    <2> HIDE DEF n
    <2>2. Pick(sent, OnWay \o <<n>>) = Pick(sent, OnWay) \o Pick(sent, <<n>>)
      BY <1>1, <2>1, PickConcat
    <2>3. Pick(sent, <<n>>) = one
      BY <1>1, PickOne
    <2>4. Content(OnWay)' = Pick(sent', OnWay') /\ C = Pick(sent, OnWay)
      BY DEF Content, Pick
    <2> HIDE DEF one, C
    <2> QED
      BY ONLY <1>2, <1>3, <2>2, <2>3, <2>4
  <1>5. OnStream = one \o r /\ OnStream' = r
    <2>1. SubSeq(sent, Len(taken) + 1, Len(sent)) = one \o r
      BY <1>1, RestShorter
    <2>2. Len(taken') + 1 = Len(taken) + 2
      <3>1. Len(Append(taken, n)) = Len(taken) + 1
        BY <1>1, AppendProperties
      <3>2. Len(taken') = Len(taken) + 1
        BY ONLY <1>2, <3>1
      <3> QED
        BY ONLY <1>1, <3>2
    <2> HIDE DEF n, one
    <2> QED
      BY <1>2, <2>1, <2>2 DEF OnStream
  <1>6. C \in Seq(Nat) /\ one \in Seq(Nat) /\ r \in Seq(Nat)
    <2>1. sent[n] \in Nat
      BY <1>1
    <2>2. r \in Seq(Nat)
      <3>1. n \in 0 .. Len(sent) /\ n + 1 = Len(taken) + 2
        BY <1>1
      <3> HIDE DEF n
      <3> QED
        BY <1>1, <3>1, TailPart
    <2> QED
      BY <2>1, <2>2, StreamTypes
  <1>7. /\ UNCHANGED <<InHand, Taken>> /\ Received' = Received
    BY <1>2 DEF InHand, Taken, Received, Content, frontVars
  <1> HIDE DEF n, C, r, one
  <1>8. (C \o one) \o r = C \o (one \o r)
    BY ONLY <1>6, ConcatNumbers, ZenonT(30)
  <1>9. Waiting = (C \o (one \o r)) \o InHand
    BY <1>5 DEF Waiting, C
  <1>10. Waiting' = ((C \o one) \o r) \o InHand
    BY <1>4, <1>5, <1>7 DEF Waiting
  <1>11. Waiting' = Waiting
    BY ONLY <1>8, <1>9, <1>10, Zenon
  <1> QED
    BY <1>7, <1>11, StreamTypes, UploadRests

\* The chunks move on inside the relay.
LEMMA ChunkMoves ==
  ASSUME TypeOK, FlowInv, StreamInv, R!SendChunk \/ R!TakeData, UNCHANGED frontVars,
         Alive' => Alive
  PROVE  [Upload!Next]_(Upload!vars)
  <1> USE DEF R!readerVars, R!dialVars, R!handlerVars
  <1>0. /\ inHandler \in Seq(Nat) /\ dataCh \in Seq(Nat) /\ inReader \in Seq(Nat)
        /\ <<>> \in Seq(Nat)
    BY DEF TypeOK, RelayTypeOK
  <1>1. ASSUME R!SendChunk PROVE OnWay' = OnWay /\ UNCHANGED <<taken, written>>
    <2>1. /\ dataCh' = dataCh \o inReader /\ inReader' = <<>>
          /\ UNCHANGED <<inHandler, taken, written>>
      BY <1>1 DEF R!SendChunk, R!Queued
    <2>2. inHandler \o (dataCh \o inReader) \in Seq(Nat)
      BY <1>0, ConcatProperties
    <2>3. (inHandler \o (dataCh \o inReader)) \o <<>> = inHandler \o (dataCh \o inReader)
      BY <2>2, ConcatEmptySeq
    <2>4. (inHandler \o dataCh) \o inReader = inHandler \o (dataCh \o inReader)
      BY ONLY <1>0, ConcatNumbers, ZenonT(30)
    <2> QED
      BY <2>1, <2>3, <2>4 DEF OnWay
  <1>2. ASSUME R!TakeData PROVE OnWay' = OnWay /\ UNCHANGED <<taken, written>>
    <2>1. /\ dataCh # <<>> /\ inHandler' = <<Head(dataCh)>> /\ dataCh' = Tail(dataCh)
          /\ inHandler = <<>> /\ UNCHANGED <<inReader, taken, written>>
      BY <1>2 DEF R!TakeData, FlowInv
    <2>2. <<Head(dataCh)>> \o Tail(dataCh) = dataCh /\ <<>> \o dataCh = dataCh
      BY <1>0, <2>1, HeadTailConcat, ConcatEmptySeq
    <2> QED
      BY <2>1, <2>2 DEF OnWay
  <1> QED
    BY <1>1, <1>2, RelayRests

\* What waits behind the chunk that the handler writes.
Behind == (Content(dataCh \o inReader) \o OnStream) \o InHand

LEMMA HandlerFirst ==
  ASSUME TypeOK, FlowInv, StreamInv
  PROVE  /\ Content(inHandler) \in Seq(Nat) /\ Behind \in Seq(Nat)
         /\ Waiting = Content(inHandler) \o Behind
  <1> DEFINE h == Content(inHandler)
             c == Content(dataCh \o inReader)
             s == c \o OnStream
  <1>1. /\ inHandler \in Seq(1 .. Len(sent)) /\ dataCh \o inReader \in Seq(1 .. Len(sent))
        /\ sent \in Seq(Nat) /\ inHandler \in Seq(Nat) /\ dataCh \in Seq(Nat)
        /\ inReader \in Seq(Nat)
    BY ConcatProperties DEF StreamInv, TypeOK, FrontTypeOK, RelayTypeOK
  <1>2. h \in Seq(Nat) /\ c \in Seq(Nat) /\ OnStream \in Seq(Nat) /\ InHand \in Seq(Nat)
    BY <1>1, StreamTypes, PickType, ContentIsPick
  <1>3. Content(OnWay) = h \o c
    <2>1. (inHandler \o dataCh) \o inReader = inHandler \o (dataCh \o inReader)
      BY ONLY <1>1, ConcatNumbers, ZenonT(30)
    <2> QED
      BY <1>1, <2>1, PickConcat, ContentIsPick DEF OnWay
  <1> HIDE DEF h, c
  <1>4. s \in Seq(Nat) /\ s \o InHand \in Seq(Nat)
    <2>1. c \o OnStream \in Seq(Nat)
      BY ONLY <1>2, ConcatProperties
    <2>2. (c \o OnStream) \o InHand \in Seq(Nat)
      BY ONLY <1>2, <2>1, ConcatProperties
    <2> QED
      BY <2>1, <2>2
  <1>5. (h \o c) \o OnStream = h \o s
    BY ONLY <1>2, ConcatNumbers, ZenonT(30)
  <1>6. Waiting = (h \o s) \o InHand
    BY <1>3, <1>5 DEF Waiting
  <1> HIDE DEF s
  <1>7. (h \o s) \o InHand = h \o (s \o InHand)
    <2>1. h \in Seq(Nat) /\ s \in Seq(Nat) /\ InHand \in Seq(Nat)
      BY <1>2, <1>4
    <2> QED
      BY ONLY <2>1, ConcatNumbers, ZenonT(30)
  <1> QED
    BY <1>2, <1>4, <1>6, <1>7 DEF Behind, h, c, s

\* The handler has nothing in hand any more.
LEMMA HandlerEmpty ==
  ASSUME TypeOK, inHandler' = <<>>,
         UNCHANGED <<dataCh, inReader, taken, sent, consumed, swallowed, upCopy>>
  PROVE  Waiting' = Behind /\ Taken' = Taken
  <1>1. OnWay' = dataCh \o inReader
    <2>1. OnWay' = (<<>> \o dataCh) \o inReader
      BY DEF OnWay
    <2>2. <<>> \o dataCh = dataCh
      BY ConcatEmptySeq DEF TypeOK, RelayTypeOK
    <2> QED
      BY <2>1, <2>2
  <1> QED
    BY <1>1 DEF Waiting, Behind, Content, OnStream, InHand, Taken

\* The handler writes to the target what waits first.
LEMMA ChunkWritten ==
  ASSUME TypeOK, SentInv, FlowInv, StreamInv, R!WriteTarget, UNCHANGED <<frontVars, broken>>
  PROVE  [Upload!Next]_(Upload!vars)
  <1> USE DEF R!readerVars, R!dialVars, R!handlerVars
  <1> DEFINE h == Content(inHandler)
  <1>1. /\ written' = written \o inHandler /\ inHandler' = <<>>
        /\ UNCHANGED <<dataCh, inReader, taken, sent, consumed, swallowed, upCopy, cancelled>>
    BY DEF R!WriteTarget, frontVars
  <1>2. /\ h \in Seq(Nat) /\ Behind \in Seq(Nat) /\ Waiting = h \o Behind
        /\ Waiting' = Behind /\ Taken' = Taken /\ Alive' = Alive
    BY <1>1, HandlerFirst, HandlerEmpty DEF Alive, frontVars
  <1>3. Received' = Received \o h
    <2>1. inHandler \in Seq(1 .. Len(sent)) /\ written \in Seq(1 .. Len(sent)) /\ sent \in Seq(Nat)
      BY StreamTypes DEF StreamInv, TypeOK, FrontTypeOK
    <2>2. Pick(sent, written \o inHandler) = Pick(sent, written) \o Pick(sent, inHandler)
      BY <2>1, PickConcat
    <2>3. Received' = Pick(sent', written') /\ Received = Pick(sent, written)
      BY DEF Received, Content, Pick
    <2>4. h = Pick(sent, inHandler)
      BY ContentIsPick
    <2> HIDE DEF h
    <2> QED
      BY ONLY <1>1, <2>2, <2>3, <2>4
  <1> HIDE DEF h
  <1>4. CASE h # <<>>
    <2>1. Upload!Next
      BY <1>2, <1>3, <1>4, UploadTransmits
    <2> QED
      BY <2>1
  <1>5. CASE h = <<>>
    <2>1. Waiting' = Waiting /\ Received' = Received
      BY <1>2, <1>3, <1>5, StreamTypes, ConcatEmptySeq
    <2> QED
      BY <1>2, <2>1, StreamTypes, UploadRests
  <1> QED
    BY <1>4, <1>5

\* The reader drops the chunk it holds: ctx is cancelled.
LEMMA ChunkDropped ==
  ASSUME TypeOK, FlowInv, StreamInv, R!DropChunk, UNCHANGED frontVars
  PROVE  Upload!Next
  <1> USE DEF R!dialVars, R!handlerVars
  <1> DEFINE p == Content(inHandler \o dataCh)
             q == Content(inReader)
             r == OnStream \o InHand
  <1>0. /\ inHandler \o dataCh \in Seq(1 .. Len(sent)) /\ inReader \in Seq(1 .. Len(sent))
        /\ sent \in Seq(Nat)
    BY ConcatProperties DEF StreamInv, TypeOK, FrontTypeOK
  <1>1. /\ inReader' = <<>> /\ cancelled'
        /\ UNCHANGED <<inHandler, dataCh, taken, written, sent, consumed, swallowed, upCopy>>
    BY DEF R!DropChunk, frontVars
  <1>2. p \in Seq(Nat) /\ q \in Seq(Nat) /\ OnStream \in Seq(Nat) /\ InHand \in Seq(Nat)
    BY <1>0, StreamTypes, PickType, ContentIsPick
  <1>3. Content(OnWay) = p \o q
    BY <1>0, PickConcat, ContentIsPick DEF OnWay
  <1>4. Content(OnWay)' = p
    <2>1. OnWay' = (inHandler \o dataCh) \o <<>>
      BY <1>1 DEF OnWay
    <2>2. OnWay' = inHandler \o dataCh
      BY <1>0, <2>1, ConcatEmptySeq
    <2> QED
      BY <1>1, <2>2 DEF Content
  <1>5. OnStream' = OnStream /\ InHand' = InHand /\ Taken' = Taken /\ Received' = Received
    BY <1>1 DEF OnStream, InHand, Taken, Received, Content
  <1> HIDE DEF p, q
  <1>6. r \in Seq(Nat) /\ p \o q \in Seq(Nat)
    BY ONLY <1>2, ConcatProperties DEF r
  <1>7. Waiting = (p \o q) \o r
    <2> DEFINE s == p \o q
    <2>1. s \in Seq(Nat)
      BY <1>6
    <2> HIDE DEF s
    <2>2. (s \o OnStream) \o InHand = s \o (OnStream \o InHand)
      BY ONLY <1>2, <2>1, ConcatNumbers, ZenonT(30)
    <2> QED
      BY <1>3, <2>2 DEF Waiting, s, r
  <1>8. Waiting' = p \o r
    <2>1. (p \o OnStream) \o InHand = p \o (OnStream \o InHand)
      BY ONLY <1>2, ConcatNumbers, ZenonT(30)
    <2> QED
      BY <1>4, <1>5, <2>1 DEF Waiting, r
  <1> HIDE DEF r
  <1>9. ~Alive'
    BY <1>1 DEF Alive
  <1> QED
    BY <1>2, <1>5, <1>6, <1>7, <1>8, <1>9, StreamTypes, UploadDrops

\* The handler leaves with a chunk it did not write: ctx is cancelled.
LEMMA HandlerLeaves ==
  ASSUME TypeOK, FlowInv, StreamInv, NEW why, R!Leave(why), UNCHANGED frontVars
  PROVE  Upload!Next
  <1> DEFINE h == Content(inHandler)
  <1>1. /\ inHandler' = <<>> /\ cancelled'
        /\ UNCHANGED <<dataCh, inReader, taken, written, sent, consumed, swallowed, upCopy>>
    BY DEF R!Leave, R!readerVars, frontVars
  <1>2. /\ h \in Seq(Nat) /\ Behind \in Seq(Nat) /\ Waiting = h \o Behind
        /\ Waiting' = Behind /\ Taken' = Taken /\ ~Alive'
    BY <1>1, HandlerFirst, HandlerEmpty DEF Alive
  <1>3. Received' = Received
    BY <1>1 DEF Received, Content
  <1> HIDE DEF h
  <1>4. Waiting = (<<>> \o h) \o Behind /\ Waiting' = <<>> \o Behind /\ <<>> \in Seq(Nat)
    BY <1>2, ConcatEmptySeq
  <1> QED
    BY <1>2, <1>3, <1>4, StreamTypes, UploadDrops

\* Every step is one of the byte stream, or leaves it as it is.
LEMMA NextUpload ==
  ASSUME TypeOK, SentInv, FlowInv, StreamInv, [Next]_vars
  PROVE  [Upload!Next]_(Upload!vars)
  <1> USE DEF R!readerVars, R!dialVars, R!handlerVars
  <1>0. Alive' => Alive
    BY AliveBefore
  <1>1. CASE F!Next /\ UNCHANGED <<relayVars, linkVars>>
    BY <1>0, <1>1, FrontStreams
  <1>2. ASSUME UNCHANGED <<frontVars, inHandler, dataCh, inReader, taken, written>>
        PROVE  [Upload!Next]_(Upload!vars)
    BY <1>0, <1>2, RelayRests DEF OnWay
  <1>3. CASE UNCHANGED <<frontVars, relayVars>>
    BY <1>2, <1>3 DEF relayVars
  <1>4. ASSUME \/ R!LeaveOnError \/ R!LeaveOnTimeout \/ R!LeaveOnWriteError \/ R!LeaveOnEof
               \/ R!LeaveOnCancel, UNCHANGED frontVars
        PROVE  [Upload!Next]_(Upload!vars)
    BY <1>4, HandlerLeaves
    DEF R!LeaveOnError, R!LeaveOnTimeout, R!LeaveOnWriteError, R!LeaveOnEof, R!LeaveOnCancel
  <1>5. ASSUME \/ StreamEnds \/ R!ReaderEnd \/ R!TakeConn \/ R!CloseStream \/ R!DialerStep
               \/ R!ReadTarget \/ R!WriteStream \/ R!DownloadError, UNCHANGED frontVars
        PROVE  [Upload!Next]_(Upload!vars)
    BY <1>2, <1>5
    DEF StreamEnds, R!ReadError, R!ReaderEnd, R!TakeConn, R!CloseStream, R!DialerStep,
        R!Dialled, R!DialerEnd, R!HandOver, R!Abandon, R!ReadTarget, R!WriteStream,
        R!DownloadError, R!DownloadEnd
  <1>6. CASE RelayStep /\ UNCHANGED <<frontVars, broken>>
    BY <1>0, <1>4, <1>5, <1>6, ChunkArrives, ChunkMoves, ChunkWritten, ChunkDropped
    DEF RelayStep, R!HandlerStep
  <1>7. CASE UNCHANGED vars
    BY <1>3, <1>7 DEF vars
  <1> QED
    BY StepKinds, <1>1, <1>3, <1>6, <1>7

LEMMA InitUpload == Init => Upload!Init
  <1> SUFFICES ASSUME Init PROVE Upload!Init
    OBVIOUS
  <1>1. /\ sent = <<>> /\ taken = <<>> /\ written = <<>> /\ inHandler = <<>> /\ dataCh = <<>>
        /\ inReader = <<>> /\ consumed = 0 /\ swallowed = 0 /\ upCopy = "off"
        /\ ~cancelled /\ ~broken /\ stream = "none" /\ phase # "over"
    BY DEF Init, F!Init, R!Init
  <1>2. OnWay = <<>> /\ Content(OnWay) = <<>> /\ Received = <<>> /\ InHand = <<>>
    BY <1>1 DEF OnWay, Content, Received, InHand
  <1>3. OnStream = <<>>
    <2>1. SubSeq(<<>>, 1, 0) = <<>> /\ Len(<<>>) = 0
      BY SubSeqEmpty
    <2> QED
      BY <1>1, <2>1 DEF OnStream
  <1>4. Waiting = <<>>
    BY <1>2, <1>3 DEF Waiting
  <1>5. Taken = <<>>
    <2>1. 0 \notin ToSet(<<>>)
      BY DEF ToSet
    <2>2. [i \in 1 .. 0 |-> 0 + i] = <<>> /\ <<>> \o <<>> = <<>>
      OBVIOUS
    <2> QED
      BY <1>1, <2>1, <2>2 DEF Taken
  <1>6. Alive = TRUE
    BY <1>1 DEF Alive
  <1> QED
    BY <1>2, <1>4, <1>5, <1>6 DEF Upload!Init, Waiting, OnWay, OnStream, Alive

\* For any number of pieces and any place in dataCh: what the application sends
\* reaches the target in order and once, and whole until somebody ends the
\* connection.
THEOREM ImplementsStreamCorrect == Spec => ImplementsStream
  <1>1. Init => Upload!Init /\ StreamInv
    BY InitUpload, InitStream
  <1>2. IInv /\ StreamInv /\ [Next]_vars => StreamInv' /\ [Upload!Next]_(Upload!vars)
    BY NextStream, NextUpload DEF IInv
  <1> QED
    BY InvCorrect, <1>1, <1>2, PTL DEF Spec, ImplementsStream, Upload!Spec
=============================================================================
