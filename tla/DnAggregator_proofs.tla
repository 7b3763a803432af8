------------------------- MODULE DnAggregator_proofs -------------------------
(***************************************************************************)
(* The order and the fate of the chunks in DnAggregator, for any limits,   *)
(* any sizes and any number of chunks.                                     *)
(***************************************************************************)
EXTENDS DnAggregator, SeqLemmas

\* Every variable has its type.
TypeOK ==
  /\ writer \in {"read", "signal", "direct", "close", "stop", "wait", "over"}
  /\ flusher \in {"top", "sleep", "wait", "select", "write", "last", "done"}
  /\ direct \in Seq(Nat) /\ copy \in Seq(Nat) /\ queue \in Seq(Nat) /\ wire \in Seq(Nat)
  /\ qr \in Nat /\ total \in Nat /\ size \in Seq(Sizes)
  /\ closed \in BOOLEAN /\ stop \in BOOLEAN /\ overlap \in BOOLEAN
  /\ failed \in BOOLEAN /\ missed \in BOOLEAN
  /\ during \in SUBSET Nat

UpTo(s, k) == \A i \in DOMAIN s : s[i] <= k
Rising(s) == \A i, j \in DOMAIN s : i < j => s[i] < s[j]
Before(s, t) == \A i \in DOMAIN s, j \in DOMAIN t : s[i] < t[j]
StartOf(s, t) == Len(s) <= Len(t) /\ \A i \in 1 .. Len(s) : s[i] = t[i]

\* A chunk has the number of the call of Write that brought it.
NumberInv ==
  /\ UpTo(wire, Len(size)) /\ UpTo(queue, Len(size))
  /\ UpTo(direct, Len(size)) /\ UpTo(copy, Len(size))

\* Nobody writes any more, and nothing is stopped, before closed is set.
ClosedInv ==
  /\ writer \in {"stop", "wait", "over"} => closed
  /\ stop => closed
  /\ flusher \in {"last", "done"} => closed

\* What the flusher writes is the start of the queue, and what else is there
\* came while it wrote.
CopyInv ==
  Writing =>
    /\ copy # <<>>
    /\ overlap \/ StartOf(copy, queue)
    /\ ToSet(queue) \subseteq ToSet(copy) \cup during

\* What waits comes after what is written; a chunk that Write sends by itself
\* comes last, and the flusher has nothing to write before it is gone.
OrderInv ==
  /\ writer # "direct" => direct = <<>>
  /\ \/ overlap
     \/ /\ Rising(wire) /\ Rising(queue) /\ Before(wire, queue)
        /\ writer = "direct" =>
             Before(wire, direct) /\ Rising(direct) /\ queue = <<>> /\ ~Writing

IInv ==
  TypeOK /\ NumberInv /\ ClosedInv /\ CopyInv /\ OrderInv /\ LossExplained
-----------------------------------------------------------------------------
(* Sequences of numbers *)

\* The items of a concatenation are those of its parts, at their places.
LEMMA ConcatItems ==
  ASSUME NEW s \in Seq(Nat), NEW t \in Seq(Nat)
  PROVE  /\ s \o t \in Seq(Nat)
         /\ \A i \in DOMAIN (s \o t) :
              \/ i \in DOMAIN s /\ (s \o t)[i] = s[i]
              \/ /\ i \in Nat /\ i > Len(s) /\ i - Len(s) \in DOMAIN t
                 /\ (s \o t)[i] = t[i - Len(s)]
         /\ \A i \in DOMAIN s : i \in DOMAIN (s \o t) /\ (s \o t)[i] = s[i]
         /\ \A j \in DOMAIN t : j + Len(s) \in DOMAIN (s \o t) /\ (s \o t)[j + Len(s)] = t[j]
  <1>1. /\ s \o t \in Seq(Nat) /\ Len(s \o t) = Len(s) + Len(t)
        /\ \A i \in 1 .. Len(s) + Len(t) : (s \o t)[i] = IF i <= Len(s) THEN s[i] ELSE t[i - Len(s)]
    BY ConcatProperties
  <1>2. /\ DOMAIN (s \o t) = 1 .. Len(s) + Len(t)
        /\ DOMAIN s = 1 .. Len(s) /\ DOMAIN t = 1 .. Len(t)
        /\ Len(s) \in Nat /\ Len(t) \in Nat
    BY <1>1
  <1>3. ASSUME NEW i \in DOMAIN (s \o t)
        PROVE  \/ i \in DOMAIN s /\ (s \o t)[i] = s[i]
               \/ /\ i \in Nat /\ i > Len(s) /\ i - Len(s) \in DOMAIN t
                  /\ (s \o t)[i] = t[i - Len(s)]
    BY <1>1, <1>2
  <1>4. ASSUME NEW i \in DOMAIN s PROVE i \in DOMAIN (s \o t) /\ (s \o t)[i] = s[i]
    BY <1>1, <1>2
  <1>5. ASSUME NEW j \in DOMAIN t
        PROVE  j + Len(s) \in DOMAIN (s \o t) /\ (s \o t)[j + Len(s)] = t[j]
    <2>1. j + Len(s) \in 1 .. Len(s) + Len(t) /\ ~(j + Len(s) <= Len(s)) /\ (j + Len(s)) - Len(s) = j
      BY <1>2
    <2> QED
      BY <1>1, <1>2, <2>1
  <1> QED
    BY <1>1, <1>3, <1>4, <1>5

LEMMA AppendSet ==
  ASSUME NEW s \in Seq(Nat), NEW e \in Nat
  PROVE  ToSet(Append(s, e)) = ToSet(s) \cup {e}
  BY AppendProperties DEF ToSet

LEMMA UpToConcat ==
  ASSUME NEW s \in Seq(Nat), NEW t \in Seq(Nat), NEW k, UpTo(s, k), UpTo(t, k)
  PROVE  UpTo(s \o t, k)
  BY ConcatItems DEF UpTo

\* A larger number goes to the end.
LEMMA NumberAppend ==
  ASSUME NEW s \in Seq(Nat), NEW k \in Nat, UpTo(s, k)
  PROVE  /\ Append(s, k + 1) \in Seq(Nat) /\ Append(s, k + 1) # <<>>
         /\ UpTo(s, k + 1) /\ UpTo(Append(s, k + 1), k + 1)
         /\ Rising(s) => Rising(Append(s, k + 1))
  <1> DEFINE a == Append(s, k + 1)
  <1>1. /\ a \in Seq(Nat) /\ a # <<>> /\ DOMAIN a = 1 .. Len(s) + 1 /\ DOMAIN s = 1 .. Len(s)
        /\ Len(s) \in Nat /\ \A i \in DOMAIN s : a[i] = s[i] /\ s[i] \in Nat /\ s[i] <= k
        /\ a[Len(s) + 1] = k + 1
    <2>1. /\ a \in Seq(Nat) /\ Len(a) = Len(s) + 1 /\ a[Len(s) + 1] = k + 1
          /\ \A i \in 1 .. Len(s) : a[i] = s[i]
      BY AppendProperties
    <2>2. DOMAIN a = 1 .. Len(s) + 1 /\ DOMAIN s = 1 .. Len(s) /\ Len(s) \in Nat /\ a # <<>>
      BY <2>1
    <2>3. \A i \in DOMAIN s : s[i] \in Nat /\ s[i] <= k
      BY DEF UpTo
    <2> QED
      BY <2>1, <2>2, <2>3
  <1> HIDE DEF a
  <1>2. \A i \in DOMAIN a : i \in DOMAIN s \/ i = Len(s) + 1
    BY <1>1
  <1>3. UpTo(s, k + 1) /\ UpTo(a, k + 1)
    BY <1>1, <1>2 DEF UpTo
  <1>4. ASSUME Rising(s), NEW i \in DOMAIN a, NEW j \in DOMAIN a, i < j
        PROVE  a[i] < a[j]
    <2>1. i \in DOMAIN s
      BY ONLY <1>1, <1>4
    <2>2. CASE j \in DOMAIN s
      BY <1>1, <1>4, <2>1, <2>2 DEF Rising
    <2>3. CASE j = Len(s) + 1
      BY <1>1, <2>1, <2>3
    <2> QED
      BY <1>2, <2>2, <2>3
  <1>5. Rising(s) => Rising(a)
    BY <1>4 DEF Rising
  <1> QED
    BY <1>1, <1>3, <1>5 DEF a

LEMMA RisingConcat ==
  ASSUME NEW s \in Seq(Nat), NEW t \in Seq(Nat), Rising(s), Rising(t), Before(s, t)
  PROVE  Rising(s \o t)
  <1> DEFINE w == s \o t
  <1>1. /\ \A i \in DOMAIN w :
             \/ i \in DOMAIN s /\ w[i] = s[i]
             \/ i \in Nat /\ i > Len(s) /\ i - Len(s) \in DOMAIN t /\ w[i] = t[i - Len(s)]
        /\ DOMAIN s = 1 .. Len(s) /\ Len(s) \in Nat
    BY ConcatItems
  <1> HIDE DEF w
  <1>2. ASSUME NEW i \in DOMAIN w, NEW j \in DOMAIN w, i < j PROVE w[i] < w[j]
    <2>1. CASE i \in DOMAIN s /\ w[i] = s[i] /\ j \in DOMAIN s /\ w[j] = s[j]
      BY <1>2, <2>1 DEF Rising
    <2>2. CASE i \in DOMAIN s /\ w[i] = s[i] /\ j - Len(s) \in DOMAIN t /\ w[j] = t[j - Len(s)]
      BY <2>2 DEF Before
    <2>3. CASE i \in Nat /\ i > Len(s) /\ j \in DOMAIN s
      BY ONLY <1>1, <1>2, <2>3
    <2>4. CASE /\ i \in Nat /\ i - Len(s) \in DOMAIN t /\ w[i] = t[i - Len(s)]
               /\ j \in Nat /\ j - Len(s) \in DOMAIN t /\ w[j] = t[j - Len(s)]
      <3>1. i - Len(s) < j - Len(s)
        BY <1>1, <1>2, <2>4
      <3> QED
        BY <2>4, <3>1 DEF Rising
    <2> QED
      BY <1>1, <2>1, <2>2, <2>3, <2>4
  <1> QED
    BY <1>2 DEF Rising, w

\* A start of the rest comes after what came before the rest.
LEMMA StartFacts ==
  ASSUME NEW s \in Seq(Nat), NEW t \in Seq(Nat), StartOf(s, t)
  PROVE  /\ \A i \in DOMAIN s : i \in DOMAIN t /\ s[i] = t[i]
         /\ Rising(t) => Rising(s)
         /\ \A k : UpTo(t, k) => UpTo(s, k)
         /\ \A r : Before(r, t) => Before(r, s)
  <1>1. \A i \in DOMAIN s : i \in DOMAIN t /\ s[i] = t[i]
    BY DEF StartOf
  <1> QED
    BY <1>1 DEF Rising, UpTo, Before

LEMMA HeadStart ==
  ASSUME NEW t \in Seq(Nat), NEW n \in 0 .. Len(t)
  PROVE  SubSeq(t, 1, n) \in Seq(Nat) /\ StartOf(SubSeq(t, 1, n), t)
  BY HeadPart DEF StartOf

LEMMA StartTransitive ==
  ASSUME NEW r \in Seq(Nat), NEW s \in Seq(Nat), NEW t \in Seq(Nat), StartOf(r, s), StartOf(s, t)
  PROVE  StartOf(r, t)
  BY DEF StartOf

LEMMA StartAppend ==
  ASSUME NEW s \in Seq(Nat), NEW t \in Seq(Nat), NEW e \in Nat, StartOf(s, t)
  PROVE  StartOf(s, Append(t, e))
  BY AppendProperties DEF StartOf
-----------------------------------------------------------------------------
(* The steps *)

\* A step of the flusher that writes nothing: it goes on to pc.
GoesTo(pc) ==
  /\ ~Writing
  /\ flusher' = pc /\ qr' \in Nat
  /\ copy' = IF pc \in {"write", "last"} THEN queue ELSE copy
  /\ pc \in {"write", "last"} => queue # <<>>
  /\ pc \in {"last", "done"} => closed
  /\ pc = "done" => queue = <<>>
  /\ UNCHANGED <<writer, direct, queue, total, closed, stop, size, wire,
                 during, overlap, failed, missed>>

LEMMA FlusherGoes ==
  ASSUME TypeOK, ClosedInv, Look \/ Sleep \/ TimerFires \/ StopSeen
  PROVE  \E pc \in {"top", "sleep", "wait", "select", "write", "last", "done"} : GoesTo(pc)
  <1>1. qr \in Nat /\ qr + 1 \in Nat /\ 0 \in Nat
    BY DEF TypeOK
  <1>2. ASSUME NEW pc \in {"top", "sleep", "wait", "select", "write", "last", "done"},
               NEW r \in Nat, Move(pc, r), ~Writing,
               pc \in {"write", "last"} => queue # <<>>, pc \in {"last", "done"} => closed, pc = "done" => queue = <<>>
        PROVE  GoesTo(pc)
    BY <1>2 DEF Move, GoesTo, shared, history
  <1>3. ASSUME Look PROVE \E pc \in {"done", "sleep", "write", "select"} : GoesTo(pc)
    BY <1>1, <1>2, <1>3 DEF Look, Writing
  <1>4. ASSUME Sleep PROVE GoesTo("wait")
    BY <1>1, <1>2, <1>4 DEF Sleep, Writing
  <1>5. ASSUME TimerFires PROVE \E pc \in {"top", "write"} : GoesTo(pc)
    BY <1>1, <1>2, <1>5 DEF TimerFires, Writing
  <1>6. ASSUME StopSeen PROVE \E pc \in {"done", "last"} : GoesTo(pc)
    <2>1. closed /\ ~Writing
      BY <1>6 DEF StopSeen, ClosedInv, Writing
    <2>2. CASE queue = <<>>
      BY <1>1, <1>2, <1>6, <2>1, <2>2 DEF StopSeen
    <2>3. CASE queue # <<>>
      BY <1>1, <1>2, <1>6, <2>1, <2>3 DEF StopSeen
    <2> QED
      BY <2>2, <2>3
  <1> QED
    BY <1>3, <1>4, <1>5, <1>6

\* A chunk that Write sends by itself.
SendsAlone(s) ==
  /\ queue' = <<>> /\ total' = 0
  /\ size' = Append(size, s) /\ direct' = <<Len(size) + 1>>
  /\ writer' = "direct" /\ UNCHANGED during

\* The two ways past the limit.
LEMMA FlushOverCases ==
  ASSUME NEW s \in Sizes, FlushOver(s)
  PROVE  /\ CanWrite(s)
         /\ wire' = wire \o queue /\ overlap' = (overlap \/ (Writing /\ queue # <<>>))
         /\ SendsAlone(s) \/ Enqueue(<<>>, 0, s)
         /\ UNCHANGED <<flusher, copy, qr, closed, stop, failed, missed>>
  BY DEF FlushOver, SendsAlone, flusherVars

\* A chunk gets the next number.
LEMMA NextChunk ==
  ASSUME TypeOK, NEW s \in Sizes, size' = Append(size, s)
  PROVE  /\ size' \in Seq(Sizes) /\ Len(size) \in Nat /\ Len(size') = Len(size) + 1
         /\ Len(size) + 1 \in Nat
         /\ DOMAIN size' = DOMAIN size \cup {Len(size) + 1}
  <1>1. size \in Seq(Sizes)
    BY DEF TypeOK
  <1>2. size' \in Seq(Sizes) /\ Len(size') = Len(size) + 1
    BY <1>1, AppendProperties
  <1>3. DOMAIN size = 1 .. Len(size) /\ DOMAIN size' = 1 .. Len(size) + 1 /\ Len(size) \in Nat
    BY <1>1, <1>2
  <1> QED
    BY <1>2, <1>3

\* Where the flusher is after a write.
LEMMA AfterWrite ==
  ASSUME Writing
  PROVE  /\ AfterWriting \in {"top", "done"}
         /\ AfterWriting = "done" => flusher = "last"
  BY DEF AfterWriting, Writing

LEMMA EmptyFacts ==
  /\ <<>> \in Seq(Nat) /\ DOMAIN <<>> = {} /\ ToSet(<<>>) = {}
  /\ \A k : UpTo(<<>>, k)
  /\ Rising(<<>>) /\ \A s : Before(s, <<>>) /\ Before(<<>>, s)
  <1>1. <<>> \in Seq(Nat) /\ DOMAIN <<>> = {}
    OBVIOUS
  <1> QED
    BY <1>1 DEF ToSet, UpTo, Rising, Before

LEMMA InitInv == Init => IInv
  <1> SUFFICES ASSUME Init PROVE IInv
    OBVIOUS
  <1> USE DEF Init
  <1>1. TypeOK
    <2>1. <<>> \in Seq(Nat) /\ <<>> \in Seq(Sizes) /\ 0 \in Nat
      OBVIOUS
    <2> QED
      BY <2>1 DEF TypeOK
  <1>2. NumberInv /\ ClosedInv /\ CopyInv /\ OrderInv
    BY EmptyFacts DEF NumberInv, ClosedInv, CopyInv, OrderInv, Writing
  <1>3. LossExplained
    BY EmptyFacts DEF LossExplained
  <1> QED
    BY <1>1, <1>2, <1>3 DEF IInv

LEMMA NextType ==
  ASSUME TypeOK, ClosedInv, [Next]_vars
  PROVE  TypeOK'
  <1> USE DEF TypeOK
  <1>1. ASSUME NEW s \in Sizes, NEW old \in {queue, <<>>}, NEW t \in Nat, Enqueue(old, t, s)
        PROVE  /\ writer' \in {"read", "signal"} /\ size' \in Seq(Sizes) /\ queue' \in Seq(Nat)
               /\ total' \in Nat /\ during' \in SUBSET Nat /\ direct' \in Seq(Nat)
    <2>1. size' \in Seq(Sizes) /\ Len(size) + 1 \in Nat
      BY <1>1, NextChunk DEF Enqueue
    <2>2. queue' \in Seq(Nat)
      <3>1. old \in Seq(Nat)
        BY EmptyFacts
      <3> QED
        BY <1>1, <2>1, <3>1, AppendProperties DEF Enqueue
    <2>3. total' \in Nat
      <3>1. s \in Nat
        BY DnAssumption
      <3> QED
        BY <1>1, <3>1 DEF Enqueue
    <2> QED
      BY <1>1, <2>1, <2>2, <2>3 DEF Enqueue, AfterQueueing
  <1>2. ASSUME NEW s \in Sizes, Write(s) PROVE TypeOK'
    BY <1>1, <1>2 DEF Write, flusherVars
  <1>3. ASSUME NEW s \in Sizes, FlushOver(s) PROVE TypeOK'
    <2>1. wire' \in Seq(Nat) /\ overlap' \in BOOLEAN
      <3>1. wire' = wire \o queue /\ overlap' = (overlap \/ (Writing /\ queue # <<>>))
        BY <1>3, FlushOverCases
      <3>2. wire \o queue \in Seq(Nat)
        BY ConcatItems
      <3> QED
        BY <3>1, <3>2
    <2>2. ASSUME SendsAlone(s)
          PROVE  /\ writer' = "direct" /\ size' \in Seq(Sizes) /\ queue' \in Seq(Nat)
                 /\ total' \in Nat /\ during' \in SUBSET Nat /\ direct' \in Seq(Nat)
      <3>1. size' \in Seq(Sizes) /\ Len(size) + 1 \in Nat
        BY <2>2, NextChunk DEF SendsAlone
      <3>2. <<Len(size) + 1>> \in Seq(Nat) /\ 0 \in Nat
        BY <3>1
      <3> QED
        BY <2>2, <3>1, <3>2, EmptyFacts DEF SendsAlone
    <2>3. 0 \in Nat
      OBVIOUS
    <2>4. /\ writer' \in {"read", "signal", "direct"} /\ size' \in Seq(Sizes) /\ queue' \in Seq(Nat)
          /\ total' \in Nat /\ during' \in SUBSET Nat /\ direct' \in Seq(Nat)
      BY <1>1, <1>3, <2>2, <2>3, FlushOverCases
    <2> QED
      BY <1>3, <2>1, <2>4, FlushOverCases
  <1>4. ASSUME Signal \/ WriterEnds PROVE TypeOK'
    BY <1>4, EmptyFacts
    DEF Signal, Wake, WriterEnds, WriteFails, WriteDirectFails, ReadFails,
        shared, flusherVars, history
  <1>5. ASSUME WriteDirect PROVE TypeOK'
    <2>1. wire' \in Seq(Nat)
      BY <1>5, ConcatItems DEF WriteDirect
    <2> QED
      BY <1>5, <2>1, EmptyFacts DEF WriteDirect, shared, flusherVars
  <1>6. ASSUME CloseMark \/ CloseSignal \/ CloseReturns PROVE TypeOK'
    BY <1>6 DEF CloseMark, CloseSignal, CloseReturns, Wake, shared, flusherVars, history
  <1>7. ASSUME Look \/ Sleep \/ TimerFires \/ StopSeen PROVE TypeOK'
    <2>1. PICK pc \in {"top", "sleep", "wait", "select", "write", "last", "done"} : GoesTo(pc)
      BY <1>7, FlusherGoes
    <2> QED
      BY <2>1 DEF GoesTo
  <1>8. ASSUME WriteQueue \/ WriteQueueFails PROVE TypeOK'
    <2>1. wire' \in Seq(Nat)
      <3>1. ASSUME WriteQueue PROVE wire' \in Seq(Nat)
        BY <3>1, ConcatItems DEF WriteQueue
      <3>2. ASSUME WriteQueueFails PROVE wire' \in Seq(Nat)
        <4>1. PICK n \in 0 .. Len(copy) : wire' = wire \o SubSeq(copy, 1, n)
          BY <3>2 DEF WriteQueueFails
        <4> QED
          BY <4>1, HeadStart, ConcatItems
      <3> QED
        BY <1>8, <3>1, <3>2
    <2>2. AfterWriting \in {"top", "done"} /\ 0 \in Nat
      BY <1>8, AfterWrite DEF WriteQueue, WriteQueueFails
    <2> QED
      BY <1>8, <2>1, <2>2, EmptyFacts DEF WriteQueue, WriteQueueFails, Empty, history
  <1>9. ASSUME UNCHANGED vars PROVE TypeOK'
    BY <1>9 DEF vars, shared, flusherVars, history
  <1> QED
    BY <1>2, <1>3, <1>4, <1>5, <1>6, <1>7, <1>8, <1>9 DEF Next, Flusher

LEMMA NextClosed ==
  ASSUME TypeOK, ClosedInv, [Next]_vars
  PROVE  ClosedInv'
  <1> USE DEF ClosedInv
  <1>1. ASSUME NEW s \in Sizes, Write(s) \/ FlushOver(s) PROVE ClosedInv'
    BY <1>1 DEF Write, FlushOver, Enqueue, AfterQueueing, CanWrite, flusherVars
  <1>2. ASSUME Signal \/ WriteDirect \/ WriterEnds PROVE ClosedInv'
    BY <1>2
    DEF Signal, Wake, WriteDirect, WriterEnds, WriteFails, WriteDirectFails, ReadFails,
        shared, flusherVars, history
  <1>3. ASSUME CloseMark \/ CloseSignal \/ CloseReturns PROVE ClosedInv'
    BY <1>3 DEF CloseMark, CloseSignal, CloseReturns, Wake, shared, flusherVars, history
  <1>4. ASSUME Look \/ Sleep \/ TimerFires \/ StopSeen PROVE ClosedInv'
    BY <1>4, FlusherGoes DEF GoesTo
  <1>5. ASSUME WriteQueue PROVE ClosedInv'
    BY <1>5 DEF WriteQueue, AfterWriting
  <1>6. ASSUME WriteQueueFails PROVE ClosedInv'
    BY <1>6 DEF WriteQueueFails
  <1>7. ASSUME UNCHANGED vars PROVE ClosedInv'
    BY <1>7 DEF vars, shared, flusherVars, history
  <1> QED
    BY <1>1, <1>2, <1>3, <1>4, <1>5, <1>6, <1>7 DEF Next, Flusher

LEMMA NextNumber ==
  ASSUME TypeOK, ClosedInv, NumberInv, [Next]_vars
  PROVE  NumberInv'
  <1> DEFINE k == Len(size)
  <1>0. k \in Nat
    BY DEF TypeOK
  <1>1. ASSUME NEW s \in Sizes, size' = Append(size, s), NEW t \in Seq(Nat), UpTo(t, k)
        PROVE  UpTo(t, Len(size')) /\ UpTo(Append(t, k + 1), Len(size'))
    BY <1>0, <1>1, NextChunk, NumberAppend
  <1>2. ASSUME NEW s \in Sizes, Write(s) PROVE NumberInv'
    <2>1. size' = Append(size, s) /\ queue' = Append(queue, k + 1)
      BY <1>2 DEF Write, Enqueue
    <2>2. /\ UpTo(queue', Len(size')) /\ UpTo(wire, Len(size'))
          /\ UpTo(direct, Len(size')) /\ UpTo(copy, Len(size'))
      BY <1>1, <2>1 DEF TypeOK, NumberInv
    <2> QED
      BY <1>2, <2>2 DEF Write, Enqueue, NumberInv, flusherVars
  <1>3. ASSUME NEW s \in Sizes, FlushOver(s) PROVE NumberInv'
    <2>0. size' = Append(size, s) /\ wire' = wire \o queue
      BY <1>3, FlushOverCases DEF SendsAlone, Enqueue
    <2>1. wire' \in Seq(Nat) /\ UpTo(wire', k)
      BY <2>0, ConcatItems, UpToConcat DEF TypeOK, NumberInv
    <2>2. UpTo(wire', Len(size')) /\ UpTo(direct, Len(size'))
          /\ UpTo(<<>>, Len(size')) /\ UpTo(copy, Len(size'))
      BY <1>1, <2>0, <2>1, EmptyFacts DEF TypeOK, NumberInv
    <2>3. UpTo(<<k + 1>>, Len(size'))
      <3>1. UpTo(Append(<<>>, k + 1), Len(size'))
        BY <1>1, <2>0, EmptyFacts
      <3>2. Append(<<>>, k + 1) = <<k + 1>>
        BY <1>0
      <3> QED
        BY <3>1, <3>2
    <2> HIDE DEF k
    <2>4. CASE SendsAlone(s)
      BY <1>3, <2>2, <2>3, <2>4, FlushOverCases DEF SendsAlone, NumberInv, k
    <2>5. CASE Enqueue(<<>>, 0, s)
      <3>1. Append(<<>>, Len(size) + 1) = <<Len(size) + 1>>
        BY <1>0 DEF k
      <3> QED
        BY <1>3, <2>2, <2>3, <2>5, <3>1, FlushOverCases DEF Enqueue, NumberInv, k
    <2> QED
      BY <1>3, <2>4, <2>5, FlushOverCases
  <1>4. ASSUME Signal \/ WriteFails \/ ReadFails PROVE NumberInv'
    BY <1>4 DEF NumberInv, Signal, WriteFails, ReadFails, shared, flusherVars
  <1>5. ASSUME WriteDirectFails PROVE NumberInv'
    BY <1>5, EmptyFacts DEF NumberInv, WriteDirectFails, flusherVars
  <1>6. ASSUME WriteDirect PROVE NumberInv'
    BY <1>6, EmptyFacts, UpToConcat DEF TypeOK, NumberInv, WriteDirect, shared, flusherVars
  <1>7. ASSUME CloseMark \/ CloseSignal \/ CloseReturns PROVE NumberInv'
    BY <1>7 DEF NumberInv, CloseMark, CloseSignal, CloseReturns, shared, flusherVars
  <1>8. ASSUME Look \/ Sleep \/ TimerFires \/ StopSeen PROVE NumberInv'
    BY <1>8, FlusherGoes DEF GoesTo, NumberInv
  <1>9. ASSUME WriteQueue \/ WriteQueueFails PROVE NumberInv'
    <2>1. UpTo(wire', k)
      <3>1. ASSUME WriteQueue PROVE UpTo(wire', k)
        BY <3>1, UpToConcat DEF WriteQueue, TypeOK, NumberInv
      <3>2. ASSUME WriteQueueFails PROVE UpTo(wire', k)
        <4>1. PICK n \in 0 .. Len(copy) : wire' = wire \o SubSeq(copy, 1, n)
          BY <3>2 DEF WriteQueueFails
        <4>2. SubSeq(copy, 1, n) \in Seq(Nat) /\ UpTo(SubSeq(copy, 1, n), k)
          BY HeadStart, StartFacts DEF TypeOK, NumberInv
        <4> QED
          BY <4>1, <4>2, UpToConcat DEF TypeOK, NumberInv
      <3> QED
        BY <1>9, <3>1, <3>2
    <2> QED
      BY <1>9, <2>1, EmptyFacts DEF WriteQueue, WriteQueueFails, Empty, NumberInv
  <1>10. ASSUME UNCHANGED vars PROVE NumberInv'
    BY <1>10 DEF vars, shared, flusherVars, NumberInv
  <1> QED
    BY <1>2, <1>3, <1>4, <1>5, <1>6, <1>7, <1>8, <1>9, <1>10 DEF Next, Flusher, WriterEnds

\* At the limit the flusher has nothing in hand, or the writes overlap.
LEMMA FlushOverlaps ==
  ASSUME TypeOK, CopyInv, Writing
  PROVE  overlap \/ queue # <<>>
  BY DEF TypeOK, CopyInv, StartOf

LEMMA NextCopy ==
  ASSUME TypeOK, ClosedInv, CopyInv, [Next]_vars
  PROVE  CopyInv'
  <1> DEFINE k == Len(size)
  <1>0. k + 1 \in Nat
    BY DEF TypeOK
  <1>1. ASSUME NEW s \in Sizes, Write(s) PROVE CopyInv'
    <2> SUFFICES ASSUME Writing' PROVE CopyInv'
      BY DEF CopyInv
    <2>1. Writing
      BY <1>1 DEF Write, flusherVars, Writing
    <2>2. queue' = Append(queue, k + 1) /\ during' = during \cup {k + 1}
      BY <1>1, <2>1 DEF Write, Enqueue
    <2>3. overlap \/ StartOf(copy, queue')
      BY <1>0, <2>1, <2>2, StartAppend DEF TypeOK, CopyInv
    <2>4. ToSet(queue') = ToSet(queue) \cup {k + 1}
      BY <1>0, <2>2, AppendSet DEF TypeOK
    <2> HIDE DEF k
    <2>5. copy' = copy /\ overlap' = overlap
      BY <1>1 DEF Write, flusherVars
    <2> QED
      BY <2>1, <2>2, <2>3, <2>4, <2>5 DEF CopyInv
  <1>2. ASSUME NEW s \in Sizes, FlushOver(s) PROVE CopyInv'
    <2> SUFFICES ASSUME Writing' PROVE CopyInv'
      BY DEF CopyInv
    <2>1. Writing /\ copy' = copy
      BY <1>2, FlushOverCases DEF Writing
    <2>2. overlap'
      BY <1>2, <2>1, FlushOverCases, FlushOverlaps
    <2>3. ToSet(queue') \subseteq ToSet(copy) \cup during'
      <3>1. ToSet(<<k + 1>>) = {k + 1} /\ Append(<<>>, k + 1) = <<k + 1>>
        BY <1>0 DEF ToSet
      <3>2. CASE SendsAlone(s)
        BY <3>2, EmptyFacts DEF SendsAlone
      <3>3. CASE Enqueue(<<>>, 0, s)
        BY <2>1, <3>1, <3>3 DEF Enqueue
      <3> QED
        BY <1>2, <3>2, <3>3, FlushOverCases
    <2> QED
      BY <2>1, <2>2, <2>3 DEF CopyInv
  <1>3. ASSUME Signal \/ CloseSignal PROVE CopyInv'
    BY <1>3 DEF CopyInv, Signal, CloseSignal, Wake, Writing, shared, history
  <1>4. ASSUME WriteDirect \/ WriterEnds \/ CloseMark \/ CloseReturns PROVE CopyInv'
    BY <1>4
    DEF CopyInv, WriteDirect, WriterEnds, WriteFails, WriteDirectFails, ReadFails,
        CloseMark, CloseReturns, Writing, shared, flusherVars, history
  <1>5. ASSUME Look \/ Sleep \/ TimerFires \/ StopSeen PROVE CopyInv'
    <2>1. PICK pc : GoesTo(pc)
      BY <1>5, FlusherGoes
    <2> SUFFICES ASSUME Writing' PROVE CopyInv'
      BY DEF CopyInv
    <2>2. copy' = queue /\ queue' = queue /\ queue # <<>>
      BY <2>1 DEF GoesTo, Writing
    <2>3. StartOf(queue, queue)
      BY DEF StartOf, TypeOK
    <2> QED
      BY <2>2, <2>3 DEF CopyInv
  <1>6. ASSUME WriteQueue \/ WriteQueueFails PROVE CopyInv'
    <2>1. flusher' \in {"top", "done"}
      BY <1>6, AfterWrite DEF WriteQueue, WriteQueueFails
    <2> QED
      BY <2>1 DEF CopyInv, Writing
  <1>7. ASSUME UNCHANGED vars PROVE CopyInv'
    BY <1>7 DEF vars, shared, flusherVars, history, CopyInv, Writing
  <1> QED
    BY <1>1, <1>2, <1>3, <1>4, <1>5, <1>6, <1>7 DEF Next, Flusher

\* A new number comes after all of them.
LEMMA NewLast ==
  ASSUME NEW s \in Seq(Nat), NEW k \in Nat, UpTo(s, k)
  PROVE  Before(s, <<k + 1>>) /\ Rising(<<k + 1>>)
  BY DEF Before, UpTo, Rising

LEMMA NewAppended ==
  ASSUME NEW s \in Seq(Nat), NEW t \in Seq(Nat), NEW k \in Nat, UpTo(s, k), Before(s, t)
  PROVE  Before(s, Append(t, k + 1))
  <1>1. /\ Len(Append(t, k + 1)) = Len(t) + 1
        /\ \A i \in 1 .. Len(t) : Append(t, k + 1)[i] = t[i]
        /\ Append(t, k + 1)[Len(t) + 1] = k + 1
    BY AppendProperties
  <1>2. ASSUME NEW i \in DOMAIN s, NEW j \in DOMAIN Append(t, k + 1)
        PROVE  s[i] < Append(t, k + 1)[j]
    <2>1. j \in 1 .. Len(t) \/ j = Len(t) + 1
      BY <1>1
    <2>2. s[i] \in Nat /\ s[i] <= k
      BY DEF UpTo
    <2>3. CASE j \in 1 .. Len(t)
      BY <1>1, <2>3 DEF Before
    <2>4. CASE j = Len(t) + 1
      BY <1>1, <2>2, <2>4
    <2> QED
      BY <2>1, <2>3, <2>4
  <1> QED
    BY <1>2 DEF Before

LEMMA NextOrder ==
  ASSUME TypeOK, ClosedInv, NumberInv, CopyInv, OrderInv, [Next]_vars
  PROVE  OrderInv'
  <1> DEFINE k == Len(size)
  <1>0. /\ k \in Nat /\ k + 1 \in Nat /\ queue \in Seq(Nat) /\ wire \in Seq(Nat)
        /\ direct \in Seq(Nat) /\ copy \in Seq(Nat)
    BY DEF TypeOK
  <1>1. ASSUME NEW s \in Sizes, Write(s) PROVE OrderInv'
    <2>1. /\ queue' = Append(queue, k + 1) /\ writer = "read" /\ writer' # "direct"
          /\ UNCHANGED <<direct, wire, overlap>>
      BY <1>1 DEF Write, Enqueue, CanWrite, AfterQueueing
    <2>2. ASSUME ~overlap PROVE Rising(queue') /\ Before(wire, queue')
      BY <1>0, <2>1, <2>2, NumberAppend, NewAppended DEF OrderInv, NumberInv
    <2> QED
      BY <2>1, <2>2 DEF OrderInv
  <1>2. ASSUME NEW s \in Sizes, FlushOver(s) PROVE OrderInv'
    <2>1. writer = "read" /\ direct = <<>> /\ wire' = wire \o queue
      BY <1>2, FlushOverCases DEF CanWrite, OrderInv
    <2>2. ASSUME ~overlap' PROVE ~overlap /\ ~Writing /\ UNCHANGED flusher
      BY <1>2, <2>2, FlushOverCases, FlushOverlaps
    <2>3. wire' \in Seq(Nat) /\ UpTo(wire', k)
      BY <1>0, <2>1, ConcatItems, UpToConcat DEF NumberInv
    <2>4. ASSUME ~overlap' PROVE Rising(wire')
      BY <1>0, <2>1, <2>2, <2>4, RisingConcat DEF OrderInv
    <2>5. Before(wire', <<k + 1>>) /\ Rising(<<k + 1>>)
      BY <1>0, <2>3, NewLast
    <2>6. Append(<<>>, k + 1) = <<k + 1>>
      BY <1>0
    <2> HIDE DEF k
    <2>7. CASE SendsAlone(s)
      BY <2>2, <2>4, <2>5, <2>7, EmptyFacts DEF SendsAlone, OrderInv, Writing, k
    <2>8. CASE Enqueue(<<>>, 0, s)
      <3>1. queue' = <<k + 1>> /\ direct' = <<>> /\ writer' # "direct"
        BY <2>1, <2>6, <2>8 DEF Enqueue, AfterQueueing, k
      <3> QED
        BY <2>4, <2>5, <3>1 DEF OrderInv
    <2> QED
      BY <1>2, <2>7, <2>8, FlushOverCases
  <1>3. ASSUME Signal \/ WriteFails \/ ReadFails \/ CloseMark \/ CloseSignal \/ CloseReturns
        PROVE  OrderInv'
    BY <1>3
    DEF OrderInv, Signal, Wake, WriteFails, ReadFails, CloseMark, CloseSignal, CloseReturns,
        Writing, shared, flusherVars, history
  <1>4. ASSUME WriteDirectFails PROVE OrderInv'
    BY <1>4 DEF OrderInv, WriteDirectFails
  <1>5. ASSUME WriteDirect PROVE OrderInv'
    <2>1. /\ wire' = wire \o direct /\ direct' = <<>> /\ writer' = "read" /\ writer = "direct"
          /\ queue' = queue /\ overlap' = (overlap \/ Writing)
      BY <1>5 DEF WriteDirect, shared
    <2>2. ASSUME ~overlap' PROVE Rising(wire') /\ queue' = <<>>
      BY <1>0, <2>1, <2>2, RisingConcat DEF OrderInv
    <2>3. ASSUME ~overlap' PROVE Rising(queue') /\ Before(wire', queue')
      BY <2>2, <2>3, EmptyFacts
    <2> QED
      BY <2>1, <2>2, <2>3 DEF OrderInv
  <1>6. ASSUME Look \/ Sleep \/ TimerFires \/ StopSeen PROVE OrderInv'
    BY <1>6, FlusherGoes DEF GoesTo, OrderInv, Writing
  <1>7. ASSUME NEW part \in Seq(Nat), StartOf(part, copy), Writing, wire' = wire \o part,
               queue' = <<>>, UNCHANGED <<writer, direct, overlap>>
        PROVE  OrderInv'
    <2>1. ASSUME ~overlap PROVE writer # "direct" /\ Rising(part) /\ Before(wire, part)
      <3>1. StartOf(part, queue) /\ Rising(queue) /\ Before(wire, queue)
        BY <1>0, <1>7, <2>1, StartTransitive DEF CopyInv, OrderInv
      <3> QED
        BY <1>0, <1>7, <2>1, <3>1, StartFacts DEF OrderInv
    <2>2. ASSUME ~overlap PROVE Rising(wire')
      BY <1>0, <1>7, <2>1, <2>2, RisingConcat DEF OrderInv
    <2> QED
      BY <1>7, <2>1, <2>2, EmptyFacts DEF OrderInv
  <1>8. ASSUME WriteQueue PROVE OrderInv'
    <2>1. StartOf(copy, copy)
      BY <1>0 DEF StartOf
    <2> QED
      BY <1>0, <1>7, <1>8, <2>1 DEF WriteQueue, Empty, history
  <1>9. ASSUME WriteQueueFails PROVE OrderInv'
    <2>1. PICK n \in 0 .. Len(copy) : wire' = wire \o SubSeq(copy, 1, n)
      BY <1>9 DEF WriteQueueFails
    <2>2. SubSeq(copy, 1, n) \in Seq(Nat) /\ StartOf(SubSeq(copy, 1, n), copy)
      BY <1>0, HeadStart
    <2> QED
      BY <1>7, <1>9, <2>1, <2>2 DEF WriteQueueFails, Empty
  <1>10. ASSUME UNCHANGED vars PROVE OrderInv'
    BY <1>10 DEF vars, shared, flusherVars, history, OrderInv, Writing
  <1> QED
    BY <1>1, <1>2, <1>3, <1>4, <1>5, <1>6, <1>8, <1>9, <1>10 DEF Next, Flusher, WriterEnds

LEMMA NextLoss ==
  ASSUME TypeOK, ClosedInv, CopyInv, OrderInv, LossExplained, [Next]_vars
  PROVE  LossExplained'
  <1> DEFINE k == Len(size)
  <1>0. /\ k \in Nat /\ k + 1 \in Nat /\ queue \in Seq(Nat) /\ wire \in Seq(Nat)
        /\ direct \in Seq(Nat) /\ copy \in Seq(Nat)
    BY DEF TypeOK
  <1>1. ASSUME NEW s \in Sizes, Write(s) PROVE LossExplained'
    <2>1. /\ size' = Append(size, s) /\ queue' = Append(queue, k + 1) /\ ~closed
          /\ during \subseteq during' /\ UNCHANGED <<direct, wire, failed, flusher>>
      BY <1>1 DEF Write, Enqueue, CanWrite, flusherVars
    <2>2. DOMAIN size' = DOMAIN size \cup {k + 1}
      BY <2>1, NextChunk
    <2>3. ToSet(queue') = ToSet(queue) \cup {k + 1} /\ flusher # "done"
      BY <1>0, <2>1, AppendSet DEF ClosedInv
    <2> HIDE DEF k
    <2> QED
      BY <2>1, <2>2, <2>3 DEF LossExplained
  <1>2. ASSUME NEW s \in Sizes, FlushOver(s) PROVE LossExplained'
    <2>1. /\ size' = Append(size, s) /\ wire' = wire \o queue /\ direct = <<>>
          /\ during \subseteq during' /\ UNCHANGED <<failed, flusher>> /\ flusher # "done"
      BY <1>2, FlushOverCases DEF SendsAlone, Enqueue, CanWrite, OrderInv, ClosedInv
    <2>2. DOMAIN size' = DOMAIN size \cup {k + 1}
      BY <2>1, NextChunk
    <2>3. ToSet(wire') = ToSet(wire) \cup ToSet(queue)
      BY <1>0, <2>1, ConcatToSet
    <2>4. k + 1 \in ToSet(queue') \cup ToSet(direct')
      <3>1. k + 1 \in ToSet(<<k + 1>>) /\ Append(<<>>, k + 1) = <<k + 1>>
        BY <1>0 DEF ToSet
      <3> QED
        BY <1>2, <3>1, FlushOverCases DEF SendsAlone, Enqueue
    <2> HIDE DEF k
    <2> QED
      BY <2>1, <2>2, <2>3, <2>4, EmptyFacts DEF LossExplained
  <1>3. ASSUME Signal \/ WriteFails \/ ReadFails \/ CloseMark \/ CloseSignal \/ CloseReturns
        PROVE  LossExplained'
    BY <1>3
    DEF LossExplained, Signal, Wake, WriteFails, ReadFails, CloseMark, CloseSignal,
        CloseReturns, shared, flusherVars, history
  <1>4. ASSUME WriteDirectFails \/ WriteQueueFails PROVE LossExplained'
    BY <1>4 DEF WriteDirectFails, WriteQueueFails, LossExplained
  <1>5. ASSUME WriteDirect PROVE LossExplained'
    <2>1. ToSet(wire') = ToSet(wire) \cup ToSet(direct)
      BY <1>0, <1>5, ConcatToSet DEF WriteDirect
    <2> QED
      BY <1>5, <2>1 DEF WriteDirect, LossExplained, shared, flusherVars
  <1>6. ASSUME Look \/ Sleep \/ TimerFires \/ StopSeen PROVE LossExplained'
    <2>1. PICK pc : GoesTo(pc)
      BY <1>6, FlusherGoes
    <2>2. flusher' = "done" => ToSet(queue) = {}
      BY <2>1, EmptyFacts DEF GoesTo
    <2> QED
      BY <2>1, <2>2 DEF GoesTo, LossExplained
  <1>7. ASSUME WriteQueue PROVE LossExplained'
    <2>1. ToSet(wire') = ToSet(wire) \cup ToSet(copy)
      BY <1>0, <1>7, ConcatToSet DEF WriteQueue
    <2>2. ToSet(queue) \subseteq ToSet(copy) \cup during /\ flusher # "done"
      BY <1>7 DEF WriteQueue, CopyInv, Writing
    <2> QED
      BY <1>7, <2>1, <2>2 DEF WriteQueue, LossExplained, history
  <1>8. ASSUME UNCHANGED vars PROVE LossExplained'
    BY <1>8 DEF vars, shared, flusherVars, history, LossExplained
  <1> QED
    BY <1>1, <1>2, <1>3, <1>4, <1>5, <1>6, <1>7, <1>8 DEF Next, Flusher, WriterEnds
-----------------------------------------------------------------------------
(* The theorems *)

\* The invariant holds in every reachable state: the states of Write, Close
\* and the flusher fit together.
THEOREM InvCorrect == Spec => []IInv
  <1>1. IInv /\ [Next]_vars => IInv'
    BY NextType, NextClosed, NextNumber, NextCopy, NextOrder, NextLoss DEF IInv
  <1> QED
    BY InitInv, <1>1, PTL DEF Spec

\* Every reachable state of the aggregator is well typed.
THEOREM TypeCorrect == Spec => []TypeOK
  <1>1. IInv => TypeOK
    BY DEF IInv
  <1> QED
    BY InvCorrect, <1>1, PTL

\* The aggregator writes chunks in order and once, unless Write wrote at the
\* limit while the flusher did.
THEOREM InOrderCorrect == Spec => []InOrder
  <1>1. IInv => InOrder
    BY DEF IInv, OrderInv, InOrder, Rising
  <1> QED
    BY InvCorrect, <1>1, PTL

\* Without a failed write, a chunk that Write took is lost only if it came
\* while the flusher wrote.
THEOREM LossExplainedCorrect == Spec => []LossExplained
  <1>1. IInv => LossExplained
    BY DEF IInv
  <1> QED
    BY InvCorrect, <1>1, PTL
=============================================================================
