---------------------------- MODULE Dial_proofs -----------------------------
(***************************************************************************)
(* The safety properties of DialRace, for any set of attempts, and those   *)
(* of Dial, for any addresses, any answer of the resolver and any number   *)
(* of attempts.                                                            *)
(***************************************************************************)
EXTENDS Dial, SeqLemmas

-----------------------------------------------------------------------------
(* The race *)

InChannel(d) == \E i \in DOMAIN resultCh : resultCh[i] = d

\* An attempt's place and its connection.
Attempts ==
  \A d \in Dialers :
    /\ pc[d] \in {"dial", "failed"} => conn[d] = "none"
    /\ pc[d] = "select" => conn[d] = "open"
    /\ pc[d] = "gaveUp" => conn[d] = "closed"
    /\ pc[d] = "sent" =>
         conn[d] = "open" <=> (d = winner \/ InChannel(d))

\* resultCh holds each connection at most once, and not the kept one.
Channel ==
  /\ \A i, j \in DOMAIN resultCh : resultCh[i] = resultCh[j] => i = j
  /\ \A i \in DOMAIN resultCh : pc[resultCh[i]] = "sent" /\ resultCh[i] # winner

\* The caller has its winner from those that were sent; nobody gave up and
\* nothing was discarded before there was one.
Winning ==
  /\ winner # None => pc[winner] = "sent"
  /\ winner = None =>
       /\ main = "range" => ~cancelled
       /\ \A d \in Dialers : pc[d] # "gaveUp"
       /\ \A d \in Dialers : pc[d] = "sent" => InChannel(d)

\* The channel is closed after the last attempt, the caller returns after it.
Closing ==
  /\ resultClosed => \A d \in Dialers : Over(d)
  /\ main = "returned" => resultClosed /\ resultCh = <<>>

IInv == TypeOK /\ Attempts /\ Channel /\ Winning /\ Closing

LEMMA InitInv == Init => IInv
  <1> SUFFICES ASSUME Init PROVE IInv
    OBVIOUS
  <1>1. TypeOK
    <2>1. /\ pc \in [Dialers -> {"dial", "select", "sent", "failed", "gaveUp"}]
          /\ conn \in [Dialers -> {"none", "open", "closed"}]
      BY DEF Init
    <2>2. resultCh \in Seq(Dialers)
      BY DEF Init
    <2> QED
      BY <2>1, <2>2 DEF Init, TypeOK
  <1>2. Attempts /\ Channel /\ Winning /\ Closing
    BY DEF Init, Attempts, Channel, Winning, Closing, InChannel
  <1> QED
    BY <1>1, <1>2 DEF IInv

LEMMA NextTypeOK == TypeOK /\ [Next]_vars => TypeOK'
  <1> SUFFICES ASSUME TypeOK, [Next]_vars PROVE TypeOK'
    OBVIOUS
  <1> USE DEF TypeOK
  <1>1. ASSUME NEW d \in Dialers, DialFail(d) PROVE TypeOK'
    BY <1>1 DEF DialFail
  <1>2. ASSUME NEW d \in Dialers, DialOk(d) PROVE TypeOK'
    BY <1>2 DEF DialOk
  <1>3. ASSUME NEW d \in Dialers, Send(d) PROVE TypeOK'
    BY <1>3 DEF Send
  <1>4. ASSUME NEW d \in Dialers, GiveUp(d) PROVE TypeOK'
    BY <1>4 DEF GiveUp
  <1>5. CASE CloseResult
    BY <1>5 DEF CloseResult
  <1>6. CASE Keep
    BY <1>6, HeadTailProperties DEF Keep
  <1>7. CASE Discard
    BY <1>7, HeadTailProperties DEF Discard
  <1>8. CASE Return
    BY <1>8 DEF Return
  <1>9. CASE UNCHANGED vars
    BY <1>9 DEF vars
  <1> QED
    BY <1>1, <1>2, <1>3, <1>4, <1>5, <1>6, <1>7, <1>8, <1>9
    DEF Next, Attempt, Caller

\* What receiving the head of resultCh does to the channel.
LEMMA Received ==
  ASSUME TypeOK, Channel, resultCh # <<>>, resultCh' = Tail(resultCh)
  PROVE  /\ Head(resultCh) \in Dialers
         /\ InChannel(Head(resultCh))
         /\ \A d \in Dialers : InChannel(d)' <=> InChannel(d) /\ d # Head(resultCh)
         /\ \A i, j \in DOMAIN resultCh' : resultCh'[i] = resultCh'[j] => i = j
  <1>1. /\ resultCh \in Seq(Dialers) /\ Len(resultCh) \in Nat /\ Len(resultCh) # 0
        /\ DOMAIN resultCh = 1 .. Len(resultCh)
    BY DEF TypeOK
  <1>2. /\ Head(resultCh) = resultCh[1] /\ Head(resultCh) \in Dialers
        /\ Tail(resultCh) \in Seq(Dialers)
        /\ Len(Tail(resultCh)) = Len(resultCh) - 1
        /\ \A i \in 1 .. Len(Tail(resultCh)) : Tail(resultCh)[i] = resultCh[i + 1]
    BY <1>1, HeadTailProperties
  <1>3. DOMAIN resultCh' = 1 .. Len(resultCh) - 1
    BY <1>2
  <1>4. \A i \in 1 .. Len(resultCh) - 1 : resultCh'[i] = resultCh[i + 1]
    BY <1>2
  <1>5. InChannel(Head(resultCh))
    BY <1>1, <1>2 DEF InChannel
  <1>6. \A i, j \in DOMAIN resultCh' : resultCh'[i] = resultCh'[j] => i = j
    BY <1>1, <1>3, <1>4 DEF Channel
  <1>7. ASSUME NEW d \in Dialers, InChannel(d)'
        PROVE  InChannel(d) /\ d # Head(resultCh)
    <2>1. PICK i \in 1 .. Len(resultCh) - 1 : resultCh'[i] = d
      BY <1>3, <1>7 DEF InChannel
    <2>2. i + 1 \in DOMAIN resultCh /\ resultCh[i + 1] = d /\ 1 \in DOMAIN resultCh
      BY <1>1, <1>4, <2>1
    <2>3. resultCh[i + 1] # resultCh[1]
      BY <2>1, <2>2 DEF Channel
    <2> QED
      BY <1>2, <2>2, <2>3 DEF InChannel
  <1>8. ASSUME NEW d \in Dialers, InChannel(d), d # Head(resultCh)
        PROVE  InChannel(d)'
    <2>1. PICK i \in 1 .. Len(resultCh) : resultCh[i] = d
      BY <1>1, <1>8 DEF InChannel
    <2>2. i # 1
      BY <1>2, <1>8, <2>1
    <2>3. i - 1 \in 1 .. Len(resultCh) - 1 /\ resultCh'[i - 1] = d
      BY <1>1, <1>4, <2>1, <2>2
    <2> QED
      BY <1>3, <2>3 DEF InChannel
  <1> QED
    BY <1>2, <1>5, <1>6, <1>7, <1>8

\* What sending does to it.
LEMMA Sent ==
  ASSUME TypeOK, NEW d \in Dialers, resultCh' = Append(resultCh, d)
  PROVE  /\ \A e \in Dialers : InChannel(e)' <=> InChannel(e) \/ e = d
         /\ DOMAIN resultCh' = 1 .. Len(resultCh) + 1
         /\ DOMAIN resultCh = 1 .. Len(resultCh)
         /\ \A i \in 1 .. Len(resultCh) : resultCh'[i] = resultCh[i]
         /\ resultCh'[Len(resultCh) + 1] = d
  <1>1. /\ resultCh \in Seq(Dialers) /\ Len(resultCh) \in Nat
        /\ DOMAIN resultCh = 1 .. Len(resultCh)
    BY DEF TypeOK
  <1>2. /\ Append(resultCh, d) \in Seq(Dialers)
        /\ Len(Append(resultCh, d)) = Len(resultCh) + 1
        /\ \A i \in 1 .. Len(resultCh) : Append(resultCh, d)[i] = resultCh[i]
        /\ Append(resultCh, d)[Len(resultCh) + 1] = d
    BY <1>1, AppendProperties
  <1>3. DOMAIN resultCh' = 1 .. Len(resultCh) + 1
    BY <1>2
  <1>4. ASSUME NEW e \in Dialers, InChannel(e)' PROVE InChannel(e) \/ e = d
    <2>1. PICK i \in 1 .. Len(resultCh) + 1 : resultCh'[i] = e
      BY <1>3, <1>4 DEF InChannel
    <2> QED
      BY <1>1, <1>2, <2>1 DEF InChannel
  <1>5. ASSUME NEW e \in Dialers, InChannel(e) \/ e = d PROVE InChannel(e)'
    <2>1. CASE e = d
      BY <1>1, <1>2, <1>3, <2>1 DEF InChannel
    <2>2. CASE InChannel(e)
      BY <1>1, <1>2, <1>3, <2>2 DEF InChannel
    <2> QED
      BY <1>5, <2>1, <2>2
  <1> QED
    BY <1>1, <1>2, <1>3, <1>4, <1>5

LEMMA NextInv == IInv /\ [Next]_vars => IInv'
  <1> SUFFICES ASSUME IInv, [Next]_vars
               PROVE  Attempts' /\ Channel' /\ Winning' /\ Closing'
    BY NextTypeOK DEF IInv
  <1>0. TypeOK /\ Attempts /\ Channel /\ Winning /\ Closing
    BY DEF IInv
  <1>1. ASSUME NEW d \in Dialers, DialFail(d)
        PROVE  Attempts' /\ Channel' /\ Winning' /\ Closing'
    BY <1>0, <1>1
    DEF TypeOK, Attempts, Channel, Winning, Closing, InChannel, Over, DialFail
  <1>2. ASSUME NEW d \in Dialers, DialOk(d)
        PROVE  Attempts' /\ Channel' /\ Winning' /\ Closing'
    BY <1>0, <1>2
    DEF TypeOK, Attempts, Channel, Winning, Closing, InChannel, Over, DialOk
  <1>3. ASSUME NEW d \in Dialers, Send(d)
        PROVE  Attempts' /\ Channel' /\ Winning' /\ Closing'
    <2>1. /\ \A e \in Dialers : InChannel(e)' <=> InChannel(e) \/ e = d
          /\ DOMAIN resultCh' = 1 .. Len(resultCh) + 1
          /\ DOMAIN resultCh = 1 .. Len(resultCh)
          /\ \A i \in 1 .. Len(resultCh) : resultCh'[i] = resultCh[i]
          /\ resultCh'[Len(resultCh) + 1] = d
      BY <1>0, <1>3, Sent DEF Send
    <2>2. d # winner
      BY <1>0, <1>3, DialersAssumption DEF Send, Winning
    <2>3. Attempts'
      BY <1>0, <1>3, <2>1 DEF TypeOK, Attempts, Send
    <2>4. Channel'
      <3>1. \A i \in 1 .. Len(resultCh) : resultCh[i] \in Dialers /\ resultCh[i] # d
        BY <1>0, <1>3, <2>1 DEF TypeOK, Channel, Send
      <3>2. \A i, j \in DOMAIN resultCh' : resultCh'[i] = resultCh'[j] => i = j
        BY <1>0, <2>1, <3>1 DEF Channel
      <3>3. \A i \in DOMAIN resultCh' : pc'[resultCh'[i]] = "sent" /\ resultCh'[i] # winner'
        BY <1>0, <1>3, <2>1, <2>2, <3>1 DEF TypeOK, Channel, Send
      <3> QED
        BY <3>2, <3>3 DEF Channel
    <2>5. Winning' /\ Closing'
      BY <1>0, <1>3, <2>1, <2>2 DEF TypeOK, Winning, Closing, Over, Send
    <2> QED
      BY <2>3, <2>4, <2>5
  <1>4. ASSUME NEW d \in Dialers, GiveUp(d)
        PROVE  Attempts' /\ Channel' /\ Winning' /\ Closing'
    BY <1>0, <1>4
    DEF TypeOK, Attempts, Channel, Winning, Closing, InChannel, Over, GiveUp
  <1>5. CASE CloseResult
    BY <1>0, <1>5
    DEF TypeOK, Attempts, Channel, Winning, Closing, InChannel, Over, CloseResult
  <1>6. CASE Keep
    <2> DEFINE h == Head(resultCh)
    <2>1. /\ h \in Dialers /\ InChannel(h)
          /\ \A d \in Dialers : InChannel(d)' <=> InChannel(d) /\ d # h
          /\ \A i, j \in DOMAIN resultCh' : resultCh'[i] = resultCh'[j] => i = j
      BY <1>0, <1>6, Received DEF Keep
    <2>2. winner' = h /\ winner = None /\ UNCHANGED <<pc, conn, resultClosed, main>>
      BY <1>6 DEF Keep
    <2>3. pc[h] = "sent"
      BY <1>0, <2>1 DEF Channel, InChannel
    <2> HIDE DEF h
    <2>4. Attempts'
      BY <1>0, <2>1, <2>2, DialersAssumption DEF Attempts
    <2>5. Channel'
      <3>1. resultCh' \in Seq(Dialers)
        BY <1>0, NextTypeOK DEF TypeOK
      <3>2. \A i \in DOMAIN resultCh' : \E d \in Dialers : d = resultCh'[i] /\ InChannel(d)'
        <4> TAKE i \in DOMAIN resultCh'
        <4>1. PICK d \in Dialers : d = resultCh'[i]
          BY <3>1
        <4>2. InChannel(d)'
          BY <4>1 DEF InChannel
        <4> QED
          BY <4>1, <4>2
      <3>3. \A i \in DOMAIN resultCh' : pc[resultCh'[i]] = "sent" /\ resultCh'[i] # h
        BY <1>0, <2>1, <3>2 DEF Channel, InChannel
      <3> QED
        BY <2>1, <2>2, <3>3 DEF Channel
    <2>6. Winning' /\ Closing'
      BY <1>0, <1>6, <2>1, <2>2, <2>3, DialersAssumption DEF Winning, Closing, Over, Keep
    <2> QED
      BY <2>4, <2>5, <2>6
  <1>7. CASE Discard
    <2> DEFINE h == Head(resultCh)
    <2>1. /\ h \in Dialers /\ InChannel(h)
          /\ \A d \in Dialers : InChannel(d)' <=> InChannel(d) /\ d # h
          /\ \A i, j \in DOMAIN resultCh' : resultCh'[i] = resultCh'[j] => i = j
      BY <1>0, <1>7, Received DEF Discard
    <2>2. /\ winner # None /\ conn' = [conn EXCEPT ![h] = "closed"]
          /\ UNCHANGED <<pc, resultClosed, cancelled, winner, main>>
      BY <1>7 DEF Discard
    <2>3. pc[h] = "sent" /\ h # winner
      BY <1>0, <2>1 DEF Channel, InChannel
    <2> HIDE DEF h
    <2>4. Attempts'
      BY <1>0, <2>1, <2>2, <2>3 DEF TypeOK, Attempts
    <2>5. Channel'
      <3>1. resultCh' \in Seq(Dialers)
        BY <1>0, NextTypeOK DEF TypeOK
      <3>2. \A i \in DOMAIN resultCh' : \E d \in Dialers : d = resultCh'[i] /\ InChannel(d)'
        <4> TAKE i \in DOMAIN resultCh'
        <4>1. PICK d \in Dialers : d = resultCh'[i]
          BY <3>1
        <4>2. InChannel(d)'
          BY <4>1 DEF InChannel
        <4> QED
          BY <4>1, <4>2
      <3>3. \A i \in DOMAIN resultCh' : pc[resultCh'[i]] = "sent" /\ resultCh'[i] # winner
        BY <1>0, <2>1, <3>2 DEF Channel, InChannel
      <3> QED
        BY <2>1, <2>2, <3>3 DEF Channel
    <2>6. Winning' /\ Closing'
      BY <1>0, <1>7, <2>2 DEF Winning, Closing, Over, Discard
    <2> QED
      BY <2>4, <2>5, <2>6
  <1>8. CASE Return
    BY <1>0, <1>8
    DEF TypeOK, Attempts, Channel, Winning, Closing, InChannel, Over, Return
  <1>9. CASE UNCHANGED vars
    BY <1>0, <1>9
    DEF vars, Attempts, Channel, Winning, Closing, InChannel, Over
  <1> QED
    BY <1>1, <1>2, <1>3, <1>4, <1>5, <1>6, <1>7, <1>8, <1>9
    DEF Next, Attempt, Caller

\* IInv holds at every step of every run.
THEOREM InvCorrect == Spec => []IInv
  <1>1. Init => IInv
    BY InitInv
  <1>2. IInv /\ [Next]_vars => IInv'
    BY NextInv
  <1> QED
    BY <1>1, <1>2, PTL DEF Spec

\* The caller of DialTCPWithRace gets exactly the one connection that is left
\* open, or an error and none, for any number of attempts.
THEOREM OneOpenCorrect == Spec => []OneOpen
  <1>1. IInv => OneOpen
    <2> SUFFICES ASSUME IInv, main = "returned", NEW d \in Dialers
                 PROVE  conn[d] = "open" <=> d = winner
      BY DEF OneOpen
    <2>1. Over(d) /\ ~InChannel(d)
      BY DEF IInv, Closing, InChannel
    <2> QED
      BY <2>1, DialersAssumption DEF IInv, TypeOK, Attempts, Winning, Over
  <1> QED
    BY <1>1, InvCorrect, PTL

\* No open connection is out of everybody's hands.
THEOREM NoneForgottenCorrect == Spec => []NoneForgotten
  <1>1. IInv => NoneForgotten
    BY DEF IInv, TypeOK, Attempts, NoneForgotten, InChannel
  <1> QED
    BY <1>1, InvCorrect, PTL

\* close(resultCh) comes after every send.
THEOREM NoSendOnClosedCorrect == Spec => []NoSendOnClosed
  <1>1. IInv => NoSendOnClosed
    BY DEF IInv, Closing, Over, NoSendOnClosed
  <1> QED
    BY <1>1, InvCorrect, PTL

\* "all connection attempts failed" is true when it is said.
THEOREM FailureIsTotalCorrect == Spec => []FailureIsTotal
  <1>1. IInv => FailureIsTotal
    <2> SUFFICES ASSUME IInv, main = "returned", winner = None, NEW d \in Dialers
                 PROVE  pc[d] = "failed"
      BY DEF FailureIsTotal
    <2>1. Over(d) /\ ~InChannel(d)
      BY DEF IInv, Closing, InChannel
    <2> QED
      BY <2>1 DEF IInv, Winning, Over
  <1> QED
    BY <1>1, InvCorrect, PTL

\* The caller's connection is not replaced and not closed by the race.
THEOREM WinnerStaysCorrect == Spec => WinnerStays
  <1>1. IInv /\ [Next]_vars =>
          [winner # None => winner' = winner /\ conn'[winner] = "open"]_vars
    <2> SUFFICES ASSUME IInv, [Next]_vars, winner # None
                 PROVE  winner' = winner /\ conn'[winner] = "open"
      OBVIOUS
    <2>1. winner \in Dialers /\ pc[winner] = "sent" /\ conn[winner] = "open"
      BY DEF IInv, TypeOK, Attempts, Winning
    <2>2. winner' = winner
      BY DEF Next, Attempt, Caller, DialFail, DialOk, Send, GiveUp, CloseResult,
             Keep, Discard, Return, vars
    <2>3. pc'[winner] = "sent" /\ Attempts'
      <3>1. IInv'
        BY NextInv
      <3> QED
        BY <2>1, <2>2, <3>1 DEF IInv, Winning, Attempts
    <2> QED
      BY <2>1, <2>2, <2>3 DEF Attempts
  <1> QED
    BY <1>1, InvCorrect, PTL DEF Spec, WinnerStays
-----------------------------------------------------------------------------
(* The addresses *)

KeepOf(family) == [ip \in IPs |-> IF ip \in family THEN <<ip>> ELSE <<>>]

\* A filter keeps the addresses of its family.
LEMMA OnlyItems ==
  ASSUME NEW family, NEW s \in Seq(IPs)
  PROVE  Only(family, s) \in Seq(IPs) /\ ToSet(Only(family, s)) = ToSet(s) \cap family
  <1> DEFINE G == KeepOf(family)
  <1>1. Makes(G, IPs, IPs)
    <2>1. ASSUME NEW ip \in IPs PROVE G[ip] \in Seq(IPs)
      BY DEF KeepOf
    <2> QED
      BY <2>1 DEF Makes
  <1>2. Only(family, s) = Joined(G, s)
    <2>1. \A i \in DOMAIN s : s[i] \in IPs
      OBVIOUS
    <2>2. [i \in DOMAIN s |-> IF s[i] \in family THEN <<s[i]>> ELSE <<>>]
            = [i \in DOMAIN s |-> G[s[i]]]
      BY <2>1 DEF KeepOf
    <2> HIDE DEF G
    <2> QED
      BY <2>2 DEF Only, Joined
  <1>3. \A ip \in IPs : ToSet(G[ip]) = {ip} \cap family
    <2> TAKE ip \in IPs
    <2>1. CASE ip \in family
      <3>1. G[ip] = <<ip>> /\ DOMAIN <<ip>> = {1}
        BY <2>1 DEF KeepOf
      <3> QED
        BY <2>1, <3>1 DEF ToSet
    <2>2. CASE ip \notin family
      <3>1. G[ip] = <<>> /\ DOMAIN <<>> = {}
        BY <2>2 DEF KeepOf
      <3> QED
        BY <2>2, <3>1 DEF ToSet
    <2> QED
      BY <2>1, <2>2
  <1> HIDE DEF G
  <1>4. Joined(G, s) \in Seq(IPs)
    BY <1>1, JoinedType
  <1>5. ToSet(Joined(G, s)) = UNION {ToSet(G[s[i]]) : i \in DOMAIN s}
    BY <1>1, JoinedItems
  <1>6. UNION {ToSet(G[s[i]]) : i \in DOMAIN s} = ToSet(s) \cap family
    <2>1. \A i \in DOMAIN s : ToSet(G[s[i]]) = {s[i]} \cap family
      <3>1. \A i \in DOMAIN s : s[i] \in IPs
        OBVIOUS
      <3> QED
        BY <1>3, <3>1
    <2> QED
      BY <2>1 DEF ToSet
  <1> QED
    BY <1>2, <1>4, <1>5, <1>6

\* Every address of the family `first' comes before those of `later'.
Before(first, later, s) ==
  \A i, j \in DOMAIN s : s[i] \in later /\ s[j] \in first => j < i

\* Two filters, one after the other.
LEMMA OnlyBoth ==
  ASSUME NEW F, NEW L, F \cap L = {}, NEW s \in Seq(F \cup L), F \cup L = IPs
  PROVE  /\ Only(F, s) \o Only(L, s) \in Seq(IPs)
         /\ ToSet(Only(F, s) \o Only(L, s)) = ToSet(s)
         /\ Before(F, L, Only(F, s) \o Only(L, s))
  <1> DEFINE u == Only(F, s)
             v == Only(L, s)
  <1>1. /\ u \in Seq(IPs) /\ ToSet(u) = ToSet(s) \cap F
        /\ v \in Seq(IPs) /\ ToSet(v) = ToSet(s) \cap L
    BY OnlyItems
  <1>2. ToSet(s) \subseteq F \cup L
    BY DEF ToSet
  <1> HIDE DEF u, v
  <1>3. u \o v \in Seq(IPs) /\ ToSet(u \o v) = ToSet(u) \cup ToSet(v)
    BY <1>1, ConcatProperties, ConcatToSet
  <1>4. Before(F, L, u \o v)
    <2>1. /\ Len(u) \in Nat /\ Len(v) \in Nat
          /\ DOMAIN u = 1 .. Len(u) /\ DOMAIN v = 1 .. Len(v)
      BY <1>1
    <2>2. DOMAIN (u \o v) = 1 .. Len(u) + Len(v)
      BY <1>1, <1>3, ConcatProperties
    <2>3. ASSUME NEW i \in 1 .. Len(u) + Len(v), (u \o v)[i] \in L
          PROVE  ~(i <= Len(u))
      <3>1. ASSUME i <= Len(u) PROVE FALSE
        <4>1. i \in DOMAIN u /\ (u \o v)[i] = u[i]
          BY <1>1, <2>1, <3>1, ConcatProperties
        <4>2. u[i] \in F
          BY <1>1, <4>1 DEF ToSet
        <4> QED
          BY <2>3, <4>1, <4>2
      <3> QED
        BY <3>1
    <2>4. ASSUME NEW j \in 1 .. Len(u) + Len(v), (u \o v)[j] \in F
          PROVE  j <= Len(u)
      <3>1. ASSUME ~(j <= Len(u)) PROVE FALSE
        <4>1. j - Len(u) \in DOMAIN v /\ (u \o v)[j] = v[j - Len(u)]
          BY <1>1, <2>1, <3>1, ConcatProperties
        <4>2. v[j - Len(u)] \in L
          BY <1>1, <4>1 DEF ToSet
        <4> QED
          BY <2>4, <4>1, <4>2
      <3> QED
        BY <3>1
    <2>5. ASSUME NEW i \in 1 .. Len(u) + Len(v), NEW j \in 1 .. Len(u) + Len(v),
                 (u \o v)[i] \in L, (u \o v)[j] \in F
          PROVE  j < i
      BY <2>1, <2>3, <2>4, <2>5
    <2> QED
      BY <2>2, <2>5 DEF Before
  <1>5. ToSet(u) \cup ToSet(v) = ToSet(s)
    BY <1>1, <1>2
  <1> QED
    BY <1>3, <1>4, <1>5 DEF u, v

\* The list `s' honours the strategy, and leaves nothing of `from' out where it
\* only sets an order.
Suits(s, from) ==
  /\ strategy = "ipv4_only" => ToSet(s) \subseteq IPv4
  /\ strategy = "ipv6_only" => ToSet(s) \subseteq IPv6
  /\ strategy = "ipv4_prefer" => ToSet(from) \subseteq ToSet(s) /\ Before(IPv4, IPv6, s)
  /\ strategy = "ipv6_prefer" => ToSet(from) \subseteq ToSet(s) /\ Before(IPv6, IPv4, s)

\* What the resolver's answer becomes.
LEMMA OrderedSuits ==
  ASSUME strategy \in Strategies, NEW s \in Seq(IPs)
  PROVE  Ordered(s) \in Seq(IPs) /\ Suits(Ordered(s), s)
  <1>0. /\ IPv4 \cap IPv6 = {} /\ IPv4 \cup IPv6 = IPs
        /\ IPv6 \cap IPv4 = {} /\ IPv6 \cup IPv4 = IPs
    BY DialAssumption DEF IPs
  <1>1. CASE strategy = "ipv4_only"
    <2>1. Ordered(s) = Only(IPv4, s)
      BY <1>1 DEF Ordered, filterIPv4
    <2> QED
      BY <1>1, <2>1, OnlyItems DEF Suits
  <1>2. CASE strategy = "ipv6_only"
    <2>1. Ordered(s) = Only(IPv6, s)
      BY <1>2 DEF Ordered, filterIPv6
    <2> QED
      BY <1>2, <2>1, OnlyItems DEF Suits
  <1>3. CASE strategy = "ipv4_prefer"
    <2>1. Ordered(s) = Only(IPv4, s) \o Only(IPv6, s)
      BY <1>3 DEF Ordered, filterIPv4, filterIPv6
    <2>2. /\ Only(IPv4, s) \o Only(IPv6, s) \in Seq(IPs)
          /\ ToSet(Only(IPv4, s) \o Only(IPv6, s)) = ToSet(s)
          /\ Before(IPv4, IPv6, Only(IPv4, s) \o Only(IPv6, s))
      BY <1>0, OnlyBoth
    <2> QED
      BY <1>3, <2>1, <2>2 DEF Suits
  <1>4. CASE strategy = "ipv6_prefer"
    <2>1. Ordered(s) = Only(IPv6, s) \o Only(IPv4, s)
      BY <1>4 DEF Ordered, filterIPv4, filterIPv6
    <2>2. /\ Only(IPv6, s) \o Only(IPv4, s) \in Seq(IPs)
          /\ ToSet(Only(IPv6, s) \o Only(IPv4, s)) = ToSet(s)
          /\ Before(IPv6, IPv4, Only(IPv6, s) \o Only(IPv4, s))
      BY <1>0, OnlyBoth
    <2> QED
      BY <1>4, <2>1, <2>2 DEF Suits
  <1>5. CASE strategy = "default"
    BY <1>5 DEF Ordered, Suits
  <1> QED
    BY <1>1, <1>2, <1>3, <1>4, <1>5 DEF Strategies
-----------------------------------------------------------------------------
(* The request *)

\* The exception of FamilyHonoured.
Unchecked == via = "http" /\ concur = 1 /\ Literal

DialTypeOK ==
  /\ via \in {"socks", "http", "udp"} /\ strategy \in Strategies
  /\ concur \in {0, 1, Concur} /\ host \in Hosts
  /\ path \in {"ask", "race", "plain", "refused", "failed", "connected"}
  /\ answer \in Seq(IPs) /\ ips \in Seq(IPs) /\ tried \subseteq ToSet(ips)

\* Until the lookup nothing is chosen, and a literal is never looked up.
Asked ==
  /\ path = "ask" => answer = <<>> /\ ips = <<>> /\ tried = {}
  /\ Literal => answer = <<>>

\* The addresses suit the strategy.
Chosen == Suits(ips, answer) \/ Unchecked

DialInv == DialTypeOK /\ Asked /\ Chosen /\ PreferenceKept

LEMMA EmptySuits == Suits(<<>>, <<>>)
  <1>1. DOMAIN <<>> = {}
    OBVIOUS
  <1> QED
    BY <1>1 DEF Suits, Before, ToSet

LEMMA LiteralIP == host \in Hosts /\ Literal => host.ip \in IPs
  BY DialAssumption DEF Hosts, Literal, IPs

\* What a lookup answers.
LEMMA AnswerTyped ==
  ASSUME DialInv, LookUp
  PROVE  /\ answer' \in Seq(IPs) /\ (Literal => answer' = <<>>)
         /\ path = "ask" /\ answer = <<>> /\ ips = <<>> /\ tried = {}
         /\ UNCHANGED <<via, strategy, concur, host>>
  <1>1. Answers \subseteq Seq(IPs)
    <2>1. ASSUME NEW s \in Answers PROVE s \in Seq(IPs)
      <3>1. PICK m \in 0 .. MaxAnswer : s \in [1 .. m -> IPs]
        BY <2>1 DEF Answers, BoundedSeq, SeqOf
      <3>2. m \in Nat
        BY <3>1, DialAssumption
      <3> QED
        BY <3>1, <3>2
    <2> QED
      BY <2>1
  <1> QED
    BY <1>1 DEF LookUp, DialInv, DialTypeOK, Asked, request

\* What resolveIPsForDial makes of it.
LEMMA ResolveSuits ==
  ASSUME DialInv, LookUp
  PROVE  Resolve(answer') \in Seq(IPs) /\ Suits(Resolve(answer'), answer')
  <1>1. /\ answer' \in Seq(IPs) /\ (Literal => answer' = <<>>)
        /\ strategy \in Strategies /\ host \in Hosts
    BY AnswerTyped DEF DialInv, DialTypeOK
  <1>2. CASE Literal
    <2> DEFINE one == <<host.ip>>
    <2>1. one \in Seq(IPs)
      BY <1>1, <1>2, LiteralIP
    <2>2. Ordered(one) \in Seq(IPs) /\ Suits(Ordered(one), one)
      BY <1>1, <2>1, OrderedSuits
    <2>3. Resolve(answer') = Ordered(one) /\ answer' = <<>>
      BY <1>1, <1>2 DEF Resolve
    <2>4. ToSet(<<>>) = {}
      BY DEF ToSet
    <2> HIDE DEF one
    <2> QED
      BY <2>2, <2>3, <2>4 DEF Suits
  <1>3. CASE ~Literal
    <2>1. Resolve(answer') = Ordered(answer')
      BY <1>3 DEF Resolve
    <2> QED
      BY <1>1, <2>1, OrderedSuits
  <1> QED
    BY <1>2, <1>3

LEMMA ToSetIndex ==
  ASSUME NEW s \in Seq(IPs), NEW ip \in ToSet(s)
  PROVE  \E i \in DOMAIN s : s[i] = ip
  BY DEF ToSet

\* An address that is not preferred has a place after those that are.
LEMMA Places ==
  ASSUME NEW s, NEW from, Suits(s, from), NEW i \in DOMAIN s, NEW better \in ToSet(from),
         \/ strategy = "ipv4_prefer" /\ Is6(s[i]) /\ Is4(better)
         \/ strategy = "ipv6_prefer" /\ Is4(s[i]) /\ Is6(better)
  PROVE  \E j \in DOMAIN s : s[j] = better /\ j < i
  <1>1. better \in ToSet(s)
    BY DEF Suits
  <1>2. PICK j \in DOMAIN s : s[j] = better
    BY <1>1 DEF ToSet
  <1>3. j < i
    BY <1>2 DEF Suits, Before, Is4, Is6
  <1> QED
    BY <1>2, <1>3

LEMMA UdpInv == DialInv /\ StartUdp => DialInv'
  <1> SUFFICES ASSUME DialInv, StartUdp PROVE DialInv'
    OBVIOUS
  <1>1. LookUp /\ ips' = Resolve(answer')
    BY DEF StartUdp
  <1>2. /\ answer' \in Seq(IPs) /\ (Literal => answer' = <<>>)
        /\ UNCHANGED <<via, strategy, concur, host>>
        /\ ips' \in Seq(IPs) /\ Suits(ips', answer')
    BY <1>1, AnswerTyped, ResolveSuits
  <1>3. tried' = IF ips' = <<>> THEN {} ELSE {ips'[1]}
    BY <1>2 DEF StartUdp
  <1>4. ips' # <<>> => 1 \in DOMAIN ips'
    BY <1>2
  <1>5. DialTypeOK'
    <2>1. tried' \subseteq ToSet(ips')
      BY <1>3, <1>4 DEF ToSet
    <2>2. path' \in {"failed", "connected"}
      BY DEF StartUdp
    <2> QED
      BY <1>2, <2>1, <2>2 DEF DialInv, DialTypeOK, Concur
  <1>6. Asked'
    <2>1. path' # "ask"
      BY DEF StartUdp
    <2> QED
      BY <1>2, <2>1 DEF Asked, Literal
  <1>7. Chosen'
    BY <1>2 DEF Chosen, Suits
  <1>8. PreferenceKept'
    <2>1. ASSUME NEW ip \in tried', NEW better \in ToSet(answer'),
                 \/ strategy = "ipv4_prefer" /\ Is6(ip) /\ Is4(better)
                 \/ strategy = "ipv6_prefer" /\ Is4(ip) /\ Is6(better)
          PROVE  FALSE
      <3>1. 1 \in DOMAIN ips' /\ ip = ips'[1]
        BY <1>3, <1>4, <2>1
      <3>2. \E j \in DOMAIN ips' : ips'[j] = better /\ j < 1
        BY <1>2, <2>1, <3>1, Places
      <3>3. \A j \in DOMAIN ips' : ~(j < 1)
        <4>1. DOMAIN ips' = 1 .. Len(ips') /\ Len(ips') \in Nat
          BY <1>2
        <4> QED
          BY <4>1
      <3> QED
        BY <3>2, <3>3
    <2> QED
      BY <1>2, <2>1 DEF PreferenceKept, Is4, Is6
  <1> QED
    BY <1>5, <1>6, <1>7, <1>8 DEF DialInv

\* Numbers modulo the length of the list.
LEMMA Modulo ==
  ASSUME NEW a \in Nat, NEW n \in Nat, n > 0
  PROVE  /\ a % n \in 0 .. n - 1 /\ a % n <= a
         /\ \A b \in 0 .. n - 1 : b % n = b
  OBVIOUS

LEMMA RaceInv == DialInv /\ StartRace => DialInv'
  <1> SUFFICES ASSUME DialInv, StartRace PROVE DialInv'
    OBVIOUS
  <1>1. LookUp /\ ips' = Resolve(answer')
    BY DEF StartRace
  <1>2. /\ answer' \in Seq(IPs) /\ (Literal => answer' = <<>>)
        /\ UNCHANGED <<via, strategy, concur, host>>
        /\ ips' \in Seq(IPs) /\ Suits(ips', answer')
    BY <1>1, AnswerTyped, ResolveSuits
  <1> DEFINE n == Len(ips')
  <1>3. n \in Nat /\ DOMAIN ips' = 1 .. n /\ (ips' # <<>> => n > 0)
    BY <1>2
  <1>4. tried' = IF ips' = <<>> THEN {} ELSE {ips'[(d % n) + 1] : d \in Dialers}
    BY DEF StartRace, Target
  <1>5. Concur \in Nat /\ Dialers = 0 .. Concur - 1
    BY DialersAssumption, DialAssumption, FS_CardinalityType DEF Concur
  <1> HIDE DEF n
  <1>6. \A d \in Dialers : d \in Nat
    BY <1>5
  <1>7. DialTypeOK'
    <2>1. tried' \subseteq ToSet(ips')
      <3>1. ASSUME NEW ip \in tried' PROVE ip \in ToSet(ips')
        <4>1. n > 0 /\ \E d \in Dialers : ip = ips'[(d % n) + 1]
          BY <1>3, <1>4
        <4>2. PICK d \in Dialers : ip = ips'[(d % n) + 1]
          BY <4>1
        <4>3. d % n \in 0 .. n - 1
          BY <1>3, <1>6, <4>1, Modulo
        <4>4. (d % n) + 1 \in DOMAIN ips'
          BY <1>3, <4>3
        <4> QED
          BY <4>2, <4>4 DEF ToSet
      <3> QED
        BY <3>1
    <2>2. path' \in {"failed", "race"}
      BY DEF StartRace
    <2> QED
      BY <1>2, <2>1, <2>2 DEF DialInv, DialTypeOK, Concur
  <1>8. Asked'
    <2>1. path' # "ask"
      BY DEF StartRace
    <2> QED
      BY <1>2, <2>1 DEF Asked, Literal
  <1>9. Chosen'
    BY <1>2 DEF Chosen, Suits
  <1>10. PreferenceKept'
    <2>1. ASSUME NEW ip \in tried', NEW better \in ToSet(answer'),
                 \/ strategy = "ipv4_prefer" /\ Is6(ip) /\ Is4(better)
                 \/ strategy = "ipv6_prefer" /\ Is4(ip) /\ Is6(better)
          PROVE  better \in tried'
      <3>1. n > 0 /\ ips' # <<>> /\ \E d \in Dialers : ip = ips'[(d % n) + 1]
        BY <1>3, <1>4
      <3>2. PICK d \in Dialers : ip = ips'[(d % n) + 1]
        BY <3>1
      <3>3. d % n \in 0 .. n - 1 /\ d % n <= d /\ \A b \in 0 .. n - 1 : b % n = b
        BY <1>3, <1>6, <3>1, Modulo
      <3> DEFINE k == d % n
      <3> HIDE DEF k
      <3>4. k \in 0 .. n - 1 /\ k <= d /\ ip = ips'[k + 1]
        BY <3>2, <3>3 DEF k
      <3>5. k + 1 \in DOMAIN ips'
        BY <1>3, <3>4
      <3>6. PICK j \in DOMAIN ips' : ips'[j] = better /\ j < k + 1
        BY <1>2, <2>1, <3>4, <3>5, Places
      <3>7. j - 1 \in 0 .. n - 1 /\ j - 1 \in Dialers /\ (j - 1) + 1 = j
        BY <1>3, <1>5, <3>4, <3>6
      <3>8. (j - 1) % n = j - 1
        BY <3>3, <3>7
      <3>9. better = ips'[((j - 1) % n) + 1]
        BY <3>6, <3>7, <3>8
      <3> QED
        BY <1>4, <3>1, <3>7, <3>9
    <2> QED
      BY <1>2, <2>1 DEF PreferenceKept, Is4, Is6
  <1> QED
    BY <1>7, <1>8, <1>9, <1>10 DEF DialInv

LEMMA PlainInv == DialInv /\ StartPlain => DialInv'
  <1> SUFFICES ASSUME DialInv, StartPlain PROVE DialInv'
    OBVIOUS
  <1>1. LookUp /\ Passes /\ via # "udp" /\ concur = 1 /\ tried' = tried /\ path' = "plain"
        /\ ips' = IF Literal THEN <<host.ip>> ELSE Ordered(answer')
    BY DEF StartPlain, LookUp
  <1>2. /\ answer' \in Seq(IPs) /\ (Literal => answer' = <<>>)
        /\ tried = {} /\ UNCHANGED <<via, strategy, concur, host>>
        /\ strategy \in Strategies /\ host \in Hosts
    BY <1>1, AnswerTyped DEF DialInv, DialTypeOK
  <1>3. ips' \in Seq(IPs) /\ (Suits(ips', answer') \/ Unchecked)
    <2>1. CASE Literal
      <3>1. ips' = <<host.ip>> /\ host.ip \in IPs /\ answer' = <<>>
        BY <1>1, <1>2, <2>1, LiteralIP
      <3>2. /\ DOMAIN ips' = {1} /\ ToSet(ips') = {host.ip} /\ ToSet(answer') = {}
            /\ ips'[1] = host.ip
        BY <3>1 DEF ToSet
      <3>3. Before(IPv4, IPv6, ips') /\ Before(IPv6, IPv4, ips')
        <4>1. ~(host.ip \in IPv4 /\ host.ip \in IPv6)
          BY DialAssumption
        <4> QED
          BY <3>2, <4>1 DEF Before
      <3>4. CASE via = "socks"
        <4>1. LiteralPasses
          BY <1>1, <3>4 DEF Passes
        <4>2. /\ strategy = "ipv4_only" => host.ip \in IPv4
              /\ strategy = "ipv6_only" => host.ip \in IPv6
          BY <2>1, <4>1 DEF LiteralPasses, Is4, Is6
        <4>3. Suits(ips', answer')
          BY <3>2, <3>3, <4>2 DEF Suits
        <4>4. ips' \in Seq(IPs)
          BY <3>1
        <4> QED
          BY <4>3, <4>4
      <3>5. CASE via = "http"
        BY <1>1, <2>1, <3>1, <3>5 DEF Unchecked
      <3> QED
        BY <1>1, <3>4, <3>5 DEF DialInv, DialTypeOK
    <2>2. CASE ~Literal
      BY <1>1, <1>2, <2>2, OrderedSuits
    <2> QED
      BY <2>1, <2>2
  <1>4. DialTypeOK'
    BY <1>1, <1>2, <1>3 DEF DialInv, DialTypeOK, Concur
  <1>5. Asked'
    BY <1>1, <1>2 DEF Asked, Literal
  <1>6. Chosen'
    BY <1>2, <1>3 DEF Chosen, Suits, Unchecked, Literal
  <1>7. PreferenceKept'
    BY <1>1, <1>2 DEF PreferenceKept
  <1> QED
    BY <1>4, <1>5, <1>6, <1>7 DEF DialInv

LEMMA TryInv == DialInv /\ PlainTry => DialInv'
  <1> SUFFICES ASSUME DialInv, PlainTry PROVE DialInv'
    OBVIOUS
  <1>1. PICK i \in Candidates : tried' = tried \cup {ips[i]}
    BY DEF PlainTry
  <1>2. /\ UNCHANGED <<via, strategy, concur, host, answer, ips>>
        /\ path = "plain" /\ path' \in {"plain", "connected"}
    BY DEF PlainTry, request
  <1>3. i \in DOMAIN ips /\ ips[i] \notin tried
    BY DEF Candidates
  <1>4. DialTypeOK'
    BY <1>1, <1>2, <1>3 DEF DialInv, DialTypeOK, Concur, ToSet
  <1>5. Asked'
    BY <1>2 DEF DialInv, Asked, Literal
  <1>6. Chosen'
    BY <1>2 DEF DialInv, Chosen, Suits, Unchecked, Literal
  <1>7. PreferenceKept'
    <2>1. ASSUME NEW ip \in tried', NEW better \in ToSet(answer),
                 \/ strategy = "ipv4_prefer" /\ Is6(ip) /\ Is4(better)
                 \/ strategy = "ipv6_prefer" /\ Is4(ip) /\ Is6(better)
          PROVE  better \in tried'
      <3>1. CASE ip \in tried
        BY <1>1, <2>1, <3>1 DEF DialInv, PreferenceKept
      <3>2. CASE ip \notin tried
        <4>1. ip = ips[i]
          BY <1>1, <2>1, <3>2
        <4>2. Suits(ips, answer)
          <5>1. CASE Unchecked
            BY <2>1, <5>1 DEF DialInv, Asked, Unchecked, ToSet
          <5> QED
            BY <5>1 DEF DialInv, Chosen
        <4>3. PICK j \in DOMAIN ips : ips[j] = better /\ j < i
          BY <1>3, <2>1, <4>1, <4>2, Places
        <4>4. \A l \in DOMAIN ips : ips[l] \notin tried => i <= l
          BY <2>1 DEF Candidates
        <4>5. i \in Nat /\ j \in Nat
          BY <1>3, <4>3 DEF DialInv, DialTypeOK
        <4>6. ips[j] \in tried
          BY <4>3, <4>4, <4>5
        <4> QED
          BY <1>1, <4>3, <4>6
      <3> QED
        BY <3>1, <3>2
    <2> QED
      BY <1>2, <2>1 DEF PreferenceKept, Is4, Is6
  <1> QED
    BY <1>4, <1>5, <1>6, <1>7 DEF DialInv

\* The steps that choose and try nothing.
LEMMA IdleInv ==
  ASSUME DialInv, UNCHANGED <<via, strategy, concur, host, answer, ips, tried>>,
         path' \in {"race", "plain", "refused", "failed", "connected"} \/ path' = path
  PROVE  DialInv'
  <1>1. DialTypeOK'
    BY DEF DialInv, DialTypeOK, Concur
  <1>2. Asked' /\ Chosen' /\ PreferenceKept'
    BY DEF DialInv, Asked, Chosen, Suits, Unchecked, Literal, PreferenceKept
  <1> QED
    BY <1>1, <1>2 DEF DialInv

LEMMA NextDialInv == DialInv /\ [DialNext]_dialVars => DialInv'
  <1> SUFFICES ASSUME DialInv, [DialNext]_dialVars PROVE DialInv'
    OBVIOUS
  <1>1. CASE Refuse
    BY <1>1, IdleInv DEF Refuse, request, choice
  <1>2. CASE NoConcur
    BY <1>2, IdleInv DEF NoConcur, request, choice
  <1>3. CASE RaceStep
    BY <1>3, IdleInv DEF RaceStep, request, choice
  <1>4. CASE PlainFails
    BY <1>4, IdleInv DEF PlainFails, request, choice
  <1>5. CASE UNCHANGED dialVars
    BY <1>5, IdleInv DEF dialVars, request, choice
  <1> QED
    BY <1>1, <1>2, <1>3, <1>4, <1>5, UdpInv, RaceInv, PlainInv, TryInv DEF DialNext

LEMMA InitDialInv == DialInit => DialInv
  <1> SUFFICES ASSUME DialInit PROVE DialInv
    OBVIOUS
  <1>1. DialTypeOK
    BY DEF DialInit, DialTypeOK
  <1>2. Asked /\ PreferenceKept
    BY DEF DialInit, Asked, PreferenceKept
  <1>3. Chosen
    BY EmptySuits DEF DialInit, Chosen
  <1> QED
    BY <1>1, <1>2, <1>3 DEF DialInv

\* DialInv holds at every step of every request.
THEOREM DialInvCorrect == DialSpec => []DialInv
  <1> QED
    BY InitDialInv, NextDialInv, PTL DEF DialSpec

\* The strategy's family is honoured whatever the host is, whatever the resolver
\* says, and however many attempts race (filterIPv4, filterIPv6 and the checks
\* of literals against the one path that has none).
THEOREM FamilyHonouredCorrect == DialSpec => []FamilyHonoured
  <1>1. DialInv => FamilyHonoured
    BY DEF DialInv, DialTypeOK, Chosen, Suits, Unchecked, FamilyHonoured, Is4, Is6
  <1> QED
    BY <1>1, DialInvCorrect, PTL

\* The other family's turn comes after that of the preferred one, in the list, in
\* the race and one by one.
THEOREM PreferenceKeptCorrect == DialSpec => []PreferenceKept
  <1>1. DialInv => PreferenceKept
    BY DEF DialInv
  <1> QED
    BY <1>1, DialInvCorrect, PTL

\* A request runs the race as it is, once or not at all: what is proved of
\* DialRace holds of every request.
THEOREM DialIsRace == DialSpec => Spec
  <1>1. DialInit => Init
    BY DEF DialInit
  <1>2. [DialNext]_dialVars => [Next]_vars
    BY DEF DialNext, dialVars, Refuse, LookUp, StartUdp, NoConcur, StartRace, RaceStep,
           StartPlain, PlainTry, PlainFails
  <1> QED
    BY <1>1, <1>2, PTL DEF DialSpec, Spec
=============================================================================
