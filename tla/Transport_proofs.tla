-------------------------- MODULE Transport_proofs ---------------------------
(***************************************************************************)
(* Two components of the transport: the safety properties of ECHPool, for  *)
(* any number of channels, callers and sessions and any round trips, and   *)
(* those of Formats, for any conversations of messages the code can write  *)
(* and any Base.                                                           *)
(***************************************************************************)
EXTENDS ECHPool, Formats, SeqLemmas, FunctionTheorems

-----------------------------------------------------------------------------
(* ECHPool *)

\* The slot holds the session dialAndServe works on, from Install to Clear.
SlotInv ==
  \A i \in Chans :
    IF serve[i] = "dial" THEN smuxConns[i] = Nil
    ELSE smuxConns[i] = last[i] /\ last[i] > 0

\* A session is in its slot.
Current(s) == smuxConns[s[1]] = s[2]

\* A probe goroutine is started once, for a session that exists, and ends only
\* when that is closed.
ProbeInv ==
  \A s \in Sessions :
    /\ ~Exists(s) => probe[s] = "off"
    /\ Current(s) /\ serve[s[1]] = "probe" => probe[s] = "off"
    /\ probe[s] = "exited" => s \in closed

\* dialAndServe leaves a session only when it is closed and its probe has ended.
ServeInv ==
  \A s \in Sessions : Current(s) =>
    /\ serve[s[1]] = "close" => probe[s] = "exited"
    /\ serve[s[1]] = "clear" => probe[s] = "exited" /\ s \in closed

\* A caller knows sessions that exist, at most one of each channel.
CandInv ==
  \A c \in Callers :
    /\ \A x \in cands[c] : <<x.idx, x.num>> \in Sessions /\ Exists(<<x.idx, x.num>>)
    /\ \A x, y \in cands[c] : x.idx = y.idx => x = y
    /\ call[c] = "pick" => cands[c] # {}

IInv ==
  /\ TypeOK /\ SlotInv /\ ProbeInv /\ ServeInv /\ NoneLeftOpen
  /\ RttOfSlot /\ CandInv /\ FailureExplained
-----------------------------------------------------------------------------
LEMMA SessionFacts ==
  /\ \A s \in Sessions : s[1] \in Chans /\ s[2] \in 1 .. MaxSessions /\ s = <<s[1], s[2]>>
  /\ \A i \in Chans, n \in 1 .. MaxSessions :
       <<i, n>> \in Sessions /\ <<i, n>>[1] = i /\ <<i, n>>[2] = n
  BY DEF Sessions

LEMMA InitInv == Init => IInv
  <1> SUFFICES ASSUME Init PROVE IInv
    OBVIOUS
  <1> USE SessionFacts, PoolAssumption DEF Init
  <1>1. TypeOK
    BY DEF TypeOK, Nil
  <1>2. SlotInv /\ ProbeInv /\ ServeInv
    BY DEF SlotInv, ProbeInv, ServeInv, Current
  <1>3. NoneLeftOpen /\ RttOfSlot /\ CandInv /\ FailureExplained
    BY DEF NoneLeftOpen, RttOfSlot, CandInv, FailureExplained, Exists
  <1> QED
    BY <1>1, <1>2, <1>3 DEF IInv

\* The session of a channel that is past Install.
LEMMA SessInSlot ==
  ASSUME TypeOK, SlotInv, NEW i \in Chans, serve[i] # "dial"
  PROVE  /\ Sess(i) \in Sessions /\ Sess(i)[1] = i /\ Sess(i)[2] = last[i]
         /\ Current(Sess(i)) /\ Exists(Sess(i))
         /\ \A s \in Sessions : s[1] = i /\ Current(s) => s = Sess(i)
  <1>1. smuxConns[i] = last[i] /\ last[i] \in 1 .. MaxSessions
    BY PoolAssumption DEF TypeOK, SlotInv
  <1> QED
    BY <1>1, SessionFacts DEF Sess, Current, Exists

\* A probe that runs is that of a session in its slot.
LEMMA ProbeCurrent ==
  ASSUME TypeOK, ProbeInv, NoneLeftOpen, NEW s \in Sessions,
         probe[s] \in {"probing", "answered", "tick"}
  PROVE  Exists(s) /\ Current(s) /\ serve[s[1]] # "probe"
  BY DEF ProbeInv, NoneLeftOpen, Current

\* What a scan sees.
LEMMA CandidateFacts ==
  ASSUME TypeOK, NEW x \in Candidates
  PROVE  /\ x \in Candidate /\ x.num = smuxConns[x.idx] /\ x.num # Nil
         /\ <<x.idx, x.num>> \in Sessions
         /\ \A y \in Candidates : x.idx = y.idx => x = y
  <1>1. PICK i \in Chans : /\ smuxConns[i] # Nil
                          /\ x = [idx |-> i, num |-> smuxConns[i], rtt |-> Effective(channelRTT[i])]
    BY DEF Candidates
  <1>2. Effective(channelRTT[i]) \in Nat /\ smuxConns[i] \in 1 .. MaxSessions
    <2>1. channelRTT[i] \in Nat /\ DialTimeout \in Nat
      <3>1. channelRTT[i] \in Rtts \cup {0, DialTimeout}
        BY DEF TypeOK
      <3>2. \A r \in Rtts : r \in Nat
        BY PoolAssumption
      <3>3. DialTimeout \in Nat
        BY PoolAssumption
      <3> QED
        BY ONLY <3>1, <3>2, <3>3
    <2>2. smuxConns[i] \in 0 .. MaxSessions /\ MaxSessions \in Nat /\ smuxConns[i] # 0
      BY <1>1, PoolAssumption DEF TypeOK, Nil
    <2> QED
      BY <2>1, <2>2 DEF Effective
  <1>3. ASSUME NEW y \in Candidates, x.idx = y.idx PROVE x = y
    <2>1. PICK j \in Chans : y = [idx |-> j, num |-> smuxConns[j], rtt |-> Effective(channelRTT[j])]
      BY DEF Candidates
    <2>2. i = j
      BY <1>1, <1>3, <2>1
    <2> QED
      BY <1>1, <2>1, <2>2
  <1> QED
    BY <1>1, <1>2, <1>3, SessionFacts DEF Candidate

\* The fastest candidates: some of the candidates there are.
LEMMA NearFacts ==
  ASSUME NEW set \in SUBSET Candidate, set # {}
  PROVE  Near(set) \subseteq set /\ Near(set) # {}
  <1> DEFINE rtts == {x.rtt : x \in set}
             minRTT == CHOOSE m \in rtts : \A y \in set : m <= y.rtt
  <1>1. rtts \in SUBSET Nat /\ rtts # {}
    BY DEF Candidate
  <1>2. \E m \in rtts : \A n \in rtts : m <= n
    <2> HIDE DEF rtts
    <2> QED
      BY <1>1, LeastNat
  <1>3. \E m \in rtts : \A y \in set : m <= y.rtt
    BY <1>2
  <1>4. minRTT \in rtts
    BY <1>3
  <1>5. PICK x \in set : x.rtt = minRTT
    BY <1>4
  <1>6. Near(set) = {y \in set : y.rtt <= minRTT + TieWindow}
    BY DEF Near
  <1>7. minRTT \in Nat
    BY <1>1, <1>4
  <1>8. x.rtt <= minRTT + TieWindow
    <2> HIDE DEF minRTT
    <2> QED
      BY <1>5, <1>7, PoolAssumption
  <1> QED
    BY <1>5, <1>6, <1>8

\* The ranks of candidates of different channels are the numbers from 0.
LEMMA KthExists ==
  ASSUME NEW set \in SUBSET Candidate, \A x, y \in set : x.idx = y.idx => x = y
  PROVE  /\ IsFiniteSet(set)
         /\ \A k \in 0 .. Cardinality(set) - 1 : Kth(set, k) \in set
  <1> DEFINE Below(x) == {y \in set : y.idx < x.idx}
             rank == [x \in set |-> Cardinality(Below(x))]
             idx == [x \in set |-> x.idx]
  <1>1. IsFiniteSet(set)
    <2>1. idx \in [set -> Chans]
      BY DEF Candidate
    <2>2. idx \in Injection(set, Chans)
      BY <2>1, Fun_IsInj
    <2>3. IsFiniteSet(Chans)
      BY FS_Interval, PoolAssumption DEF Chans
    <2> QED
      BY <2>2, <2>3, FS_Injection
  <1>2. \A x \in set : x.idx \in Int
    BY DEF Candidate, Chans
  <1>3. ASSUME NEW x \in set
        PROVE  /\ IsFiniteSet(Below(x)) /\ Cardinality(Below(x)) \in Nat
               /\ Cardinality(Below(x)) < Cardinality(set)
    <2>1. Below(x) \in SUBSET set /\ x \notin Below(x)
      BY <1>2
    <2>2. IsFiniteSet(Below(x)) /\ Cardinality(Below(x)) <= Cardinality(set)
          /\ Cardinality(set) # Cardinality(Below(x))
      BY <1>1, <2>1, FS_Subset
    <2> QED
      BY <1>1, <2>2, FS_CardinalityType
  <1>4. ASSUME NEW x \in set, NEW y \in set, x.idx < y.idx
        PROVE  Cardinality(Below(x)) < Cardinality(Below(y))
    <2>1. Below(x) \in SUBSET Below(y) /\ x \in Below(y) /\ x \notin Below(x)
      BY <1>2, <1>4
    <2>2. Cardinality(Below(x)) <= Cardinality(Below(y))
          /\ Cardinality(Below(y)) # Cardinality(Below(x))
      BY <1>3, <2>1, FS_Subset
    <2>3. Cardinality(Below(x)) \in Nat /\ Cardinality(Below(y)) \in Nat
      BY <1>3
    <2> QED
      BY ONLY <2>2, <2>3
  <1> DEFINE ranks == 0 .. Cardinality(set) - 1
  <1>5. Cardinality(set) \in Nat
    BY <1>1, FS_CardinalityType
  <1>6. IsFiniteSet(ranks) /\ Cardinality(ranks) = Cardinality(set)
    BY <1>5, FS_Interval
  <1>7. rank \in Injection(set, ranks)
    <2>1. rank \in [set -> ranks]
      BY <1>3, <1>5
    <2>2. ASSUME NEW x \in set, NEW y \in set, rank[x] = rank[y] PROVE x = y
      <3>0. /\ Cardinality(Below(x)) = Cardinality(Below(y))
            /\ Cardinality(Below(x)) \in Nat /\ Cardinality(Below(y)) \in Nat
        BY <1>3, <2>2
      <3>1. ~(x.idx < y.idx) /\ ~(y.idx < x.idx)
        <4> HIDE DEF Below
        <4> QED
          BY <1>4, <3>0
      <3> QED
        BY <1>2, <3>1
    <2> HIDE DEF rank, ranks
    <2> QED
      BY <2>1, <2>2, Fun_IsInj
  <1>8. rank \in Surjection(set, ranks)
    <2> HIDE DEF rank, ranks
    <2> QED
      BY <1>6, <1>7, FS_Injection
  <1>9. ASSUME NEW k \in ranks PROVE Kth(set, k) \in set
    <2>1. PICK x \in set : rank[x] = k
      <3> HIDE DEF rank, ranks
      <3> QED
        BY <1>8, Fun_IsSurj, Fun_SurjectionProperties
    <2>2. \E y \in set : Cardinality({z \in set : z.idx < y.idx}) = k
      BY <2>1
    <2> QED
      BY <2>2 DEF Kth
  <1> QED
    BY <1>1, <1>9

\* The candidate that Pick takes.
LEMMA Picked ==
  ASSUME TypeOK, CandInv, NEW c \in Callers, call[c] = "pick"
  PROVE  LET near == Near(cands[c])
         IN  Kth(near, selectCounter % Cardinality(near)) \in cands[c]
  <1> DEFINE near == Near(cands[c])
  <1>1. near \in SUBSET Candidate /\ near \subseteq cands[c] /\ near # {}
    BY NearFacts DEF TypeOK, CandInv
  <1>2. \A x, y \in near : x.idx = y.idx => x = y
    BY <1>1 DEF CandInv
  <1> HIDE DEF near
  <1>3. IsFiniteSet(near)
    BY <1>1, <1>2, KthExists
  <1>4. Cardinality(near) \in Nat /\ Cardinality(near) > 0
    BY <1>1, <1>3, FS_CardinalityType, FS_EmptySet
  <1>5. selectCounter % Cardinality(near) \in 0 .. Cardinality(near) - 1
    BY <1>4 DEF TypeOK
  <1>6. Kth(near, selectCounter % Cardinality(near)) \in near
    BY <1>1, <1>2, <1>5, KthExists
  <1> QED
    BY <1>1, <1>6 DEF near

LEMMA NextTypeOK == TypeOK /\ SlotInv /\ ProbeInv /\ CandInv /\ [Next]_vars => TypeOK'
  <1> SUFFICES ASSUME TypeOK, SlotInv, ProbeInv, CandInv, [Next]_vars PROVE TypeOK'
    OBVIOUS
  <1> USE PoolAssumption
  <1>0. ASSUME NEW s \in Sessions, NEW rtt \in Rtts \cup {DialTimeout}, Publish(s, rtt)
        PROVE  /\ channelRTT' \in [Chans -> Rtts \cup {0, DialTimeout}]
               /\ rttOf' \in [Chans -> 0 .. MaxSessions]
    BY <1>0, SessionFacts DEF Publish, TypeOK
  <1>1. ASSUME NEW i \in Chans, ServeStep(i) PROVE TypeOK'
    <2>1. CASE Install(i)
      <3>1. last[i] + 1 \in 0 .. MaxSessions
        BY <2>1 DEF Install, TypeOK
      <3> QED
        BY <2>1, <3>1 DEF Install, TypeOK, callVars, Nil
    <2>2. CASE FirstProbe(i)
      <3>1. Sess(i) \in Sessions
        BY <2>2, SessInSlot DEF FirstProbe
      <3> QED
        BY <1>0, <2>2, <3>1 DEF FirstProbe, TypeOK, rttVars, callVars
    <2>3. CASE WatchDone(i) \/ Drain(i)
      BY <2>3 DEF WatchDone, Drain, TypeOK, rttVars, callVars
    <2>4. CASE WatchDead(i) \/ CloseSess(i)
      <3>1. Sess(i) \in Sessions
        BY <2>4, SessInSlot DEF WatchDead, CloseSess
      <3> QED
        BY <2>4, <3>1 DEF WatchDead, CloseSess, TypeOK, rttVars, callVars
    <2>5. CASE Clear(i)
      BY <2>5 DEF Clear, TypeOK, callVars, Nil
    <2> QED
      BY <1>1, <2>1, <2>2, <2>3, <2>4, <2>5 DEF ServeStep
  <1>2. ASSUME NEW s \in Sessions, ProbeStep(s) PROVE TypeOK'
    BY <1>0, <1>2
    DEF ProbeStep, ProbeAnswer, ProbeOk, ProbeErr, Tick, TypeOK, chanVars, rttVars, callVars
  <1>3. ASSUME NEW s \in Sessions, LinkDies(s) \/ SmuxCloses(s) PROVE TypeOK'
    BY <1>3 DEF LinkDies, SmuxCloses, TypeOK, chanVars, rttVars, callVars
  <1>4. ASSUME NEW c \in Callers, Scan(c) PROVE TypeOK'
    <2>1. Candidates \in SUBSET Candidate
      BY CandidateFacts
    <2> QED
      BY <1>4, <2>1 DEF Scan, TypeOK, chanVars, rttVars
  <1>5. ASSUME NEW c \in Callers, Pick(c) PROVE TypeOK'
    <2> DEFINE near == Near(cands[c])
               x == Kth(near, selectCounter % Cardinality(near))
               now == smuxConns[x.idx]
    <2>1. x \in cands[c]
      BY <1>5, Picked DEF Pick
    <2>2. /\ best' = [best EXCEPT ![c] = [x EXCEPT !.num = now]]
          /\ call' = [call EXCEPT ![c] =
               IF now = Nil \/ <<x.idx, now>> \in closed THEN "unusable" ELSE "open"]
          /\ selectCounter' = selectCounter + 1
          /\ UNCHANGED <<chanVars, rttVars, probe, dead, closed, cands>>
      BY <1>5 DEF Pick
    <2> HIDE DEF x
    <2>3. x \in Candidate
      BY <2>1 DEF TypeOK
    <2>4. now \in 0 .. MaxSessions
      BY <2>3 DEF TypeOK, Candidate
    <2> HIDE DEF now
    <2>5. [x EXCEPT !.num = now] \in Candidate
      BY <2>3, <2>4 DEF Candidate
    <2> QED
      BY <2>2, <2>5 DEF TypeOK, chanVars, rttVars
  <1>6. ASSUME NEW c \in Callers, Open(c) PROVE TypeOK'
    BY <1>6 DEF Open, TypeOK, chanVars, rttVars
  <1>7. CASE UNCHANGED vars
    BY <1>7 DEF vars, chanVars, rttVars, callVars, TypeOK
  <1> QED
    BY <1>1, <1>2, <1>3, <1>4, <1>5, <1>6, <1>7 DEF Next, CallStep

LEMMA NextSlotInv == TypeOK /\ SlotInv /\ [Next]_vars => SlotInv'
  <1> SUFFICES ASSUME TypeOK, SlotInv, [Next]_vars PROVE SlotInv'
    OBVIOUS
  <1>1. ASSUME NEW i \in Chans, ServeStep(i) PROVE SlotInv'
    <2>1. CASE Install(i)
      BY <2>1 DEF Install, SlotInv, TypeOK, Nil
    <2>2. CASE FirstProbe(i) \/ WatchDone(i) \/ WatchDead(i)
      BY <2>2 DEF FirstProbe, WatchDone, WatchDead, SlotInv, TypeOK
    <2>3. CASE Drain(i) \/ CloseSess(i)
      BY <2>3 DEF Drain, CloseSess, SlotInv, TypeOK
    <2>4. CASE Clear(i)
      BY <2>4 DEF Clear, SlotInv, TypeOK, Nil
    <2> QED
      BY <1>1, <2>1, <2>2, <2>3, <2>4 DEF ServeStep
  <1>2. ASSUME ~\E i \in Chans : ServeStep(i) PROVE SlotInv'
    <2>1. UNCHANGED chanVars
      BY <1>2
      DEF Next, ProbeStep, ProbeAnswer, ProbeOk, ProbeErr, Tick, LinkDies, SmuxCloses, CallStep,
          Scan, Pick, Open, vars
    <2> QED
      BY <2>1 DEF SlotInv, chanVars
  <1> QED
    BY <1>1, <1>2

\* The invariants of one session together.
SessionOK(s) ==
  /\ ~Exists(s) => probe[s] = "off"
  /\ probe[s] = "exited" => s \in closed
  /\ Exists(s) /\ ~Current(s) => s \in closed /\ probe[s] \in {"off", "exited"}
  /\ Current(s) => /\ serve[s[1]] = "probe" => probe[s] = "off"
                   /\ serve[s[1]] = "close" => probe[s] = "exited"
                   /\ serve[s[1]] = "clear" => probe[s] = "exited" /\ s \in closed

LEMMA SessionOKAll ==
  ProbeInv /\ NoneLeftOpen /\ ServeInv <=> \A s \in Sessions : SessionOK(s)
  BY DEF ProbeInv, NoneLeftOpen, ServeInv, SessionOK, Current

\* A step that changes nothing about a session but closes it, or nothing at all.
LEMMA SessionKept ==
  ASSUME NEW s \in Sessions, SessionOK(s), UNCHANGED chanVars, probe'[s] = probe[s],
         closed \subseteq closed'
  PROVE  SessionOK(s)'
  BY DEF SessionOK, Exists, Current, chanVars

LEMMA NextSessionOK ==
  TypeOK /\ SlotInv /\ (\A s \in Sessions : SessionOK(s)) /\ [Next]_vars =>
    \A s \in Sessions : SessionOK(s)'
  <1> SUFFICES ASSUME TypeOK, SlotInv, \A s \in Sessions : SessionOK(s), [Next]_vars,
                      NEW s \in Sessions
               PROVE  SessionOK(s)'
    OBVIOUS
  <1>0. SessionOK(s)
    OBVIOUS
  <1>1. ASSUME NEW i \in Chans, ServeStep(i) PROVE SessionOK(s)'
    <2>1. CASE s[1] # i
      <3>1. /\ UNCHANGED <<serve[s[1]], last[s[1]], smuxConns[s[1]], probe[s]>>
            /\ closed \subseteq closed'
        BY <1>1, <2>1, SessionFacts, SessInSlot
        DEF ServeStep, Install, FirstProbe, WatchDone, WatchDead, Drain, CloseSess, Clear,
            TypeOK
      <3> QED
        BY <1>0, <3>1 DEF SessionOK, Exists, Current
    <2>2. CASE s[1] = i
      <3> USE <1>0, <2>2, SessionFacts DEF SessionOK, Exists, Current, TypeOK
      <3>1. CASE Install(i)
        <4>1. last[i] \in Nat /\ s[2] \in Nat /\ s[2] > 0 /\ smuxConns[i] = 0
          BY <3>1, PoolAssumption DEF Install, SlotInv, Nil
        <4>2. /\ last'[i] = last[i] + 1 /\ smuxConns'[i] = last[i] + 1
              /\ serve'[i] = "probe" /\ probe' = probe /\ closed' = closed
          BY <3>1 DEF Install
        <4> QED
          BY <4>1, <4>2
      <3>2. ASSUME serve[i] # "dial"
            PROVE  /\ last[i] = smuxConns[i] /\ last[i] \in 1 .. MaxSessions
                   /\ Sess(i)[1] = i /\ Sess(i)[2] = last[i]
                   /\ (s = Sess(i) <=> s[2] = last[i])
        BY <3>2, PoolAssumption DEF SlotInv, Sess
      <3>3. CASE FirstProbe(i)
        BY <3>2, <3>3 DEF FirstProbe
      <3>4. CASE WatchDone(i)
        BY <3>2, <3>4 DEF WatchDone
      <3>5. CASE WatchDead(i)
        BY <3>2, <3>5 DEF WatchDead
      <3>6. CASE Drain(i)
        BY <3>2, <3>6 DEF Drain
      <3>7. CASE CloseSess(i)
        BY <3>2, <3>7 DEF CloseSess
      <3>8. CASE Clear(i)
        BY <3>2, <3>8 DEF Clear, Nil
      <3> QED
        BY <1>1, <3>1, <3>3, <3>4, <3>5, <3>6, <3>7, <3>8 DEF ServeStep
    <2> QED
      BY <2>1, <2>2
  <1>2. ASSUME NEW t \in Sessions, ProbeStep(t) PROVE SessionOK(s)'
    <2>1. UNCHANGED <<chanVars, closed>>
      BY <1>2 DEF ProbeStep, ProbeAnswer, ProbeOk, ProbeErr, Tick
    <2>2. CASE s # t
      <3>1. probe'[s] = probe[s]
        BY <1>2, <2>2 DEF ProbeStep, ProbeAnswer, ProbeOk, ProbeErr, Tick, TypeOK
      <3> QED
        BY <1>0, <2>1, <3>1, SessionKept
    <2>3. CASE s = t
      <3>1. /\ probe[s] \in {"probing", "answered", "tick"} /\ probe'[s] # "off"
            /\ probe'[s] = "exited" => s \in closed
        BY <1>2, <2>3 DEF ProbeStep, ProbeAnswer, ProbeOk, ProbeErr, Tick, TypeOK
      <3>2. Exists(s) /\ Current(s) /\ serve[s[1]] \notin {"probe", "close", "clear"}
        BY <1>0, <3>1 DEF SessionOK
      <3>3. Exists(s)' /\ Current(s)' /\ serve'[s[1]] \notin {"probe", "close", "clear"}
        BY <2>1, <3>2 DEF Exists, Current, chanVars
      <3> QED
        BY <2>1, <3>1, <3>3 DEF SessionOK
    <2> QED
      BY <2>2, <2>3
  <1>3. ASSUME NEW t \in Sessions, LinkDies(t) \/ SmuxCloses(t) PROVE SessionOK(s)'
    <2>1. UNCHANGED <<chanVars, probe>> /\ closed \subseteq closed'
      BY <1>3 DEF LinkDies, SmuxCloses
    <2> QED
      BY <1>0, <2>1, SessionKept
  <1>4. ASSUME NEW c \in Callers, CallStep(c) PROVE SessionOK(s)'
    <2>1. UNCHANGED <<chanVars, probe, closed>>
      BY <1>4 DEF CallStep, Scan, Pick, Open
    <2> QED
      BY <1>0, <2>1, SessionKept
  <1>5. CASE UNCHANGED vars
    <2>1. UNCHANGED <<chanVars, probe, closed>>
      BY <1>5 DEF vars
    <2> QED
      BY <1>0, <2>1, SessionKept
  <1> QED
    BY <1>1, <1>2, <1>3, <1>4, <1>5 DEF Next

LEMMA NextRttOfSlot ==
  TypeOK /\ SlotInv /\ ProbeInv /\ NoneLeftOpen /\ RttOfSlot /\ [Next]_vars => RttOfSlot'
  <1> SUFFICES ASSUME TypeOK, SlotInv, ProbeInv, NoneLeftOpen, RttOfSlot, [Next]_vars
               PROVE  RttOfSlot'
    OBVIOUS
  <1> USE DEF RttOfSlot
  <1>0. ASSUME NEW s \in Sessions, NEW rtt, Current(s), Publish(s, rtt), UNCHANGED smuxConns
        PROVE  RttOfSlot'
    BY <1>0, SessionFacts DEF Publish, Current, TypeOK
  <1>1. ASSUME NEW i \in Chans, ServeStep(i) PROVE RttOfSlot'
    <2>1. CASE Install(i) \/ Clear(i)
      BY <2>1 DEF Install, Clear, TypeOK
    <2>2. CASE FirstProbe(i)
      BY <1>0, <2>2, SessInSlot DEF FirstProbe, rttVars
    <2>3. CASE WatchDone(i) \/ WatchDead(i) \/ Drain(i) \/ CloseSess(i)
      BY <2>3 DEF WatchDone, WatchDead, Drain, CloseSess, rttVars
    <2> QED
      BY <1>1, <2>1, <2>2, <2>3 DEF ServeStep
  <1>2. ASSUME NEW s \in Sessions, ProbeStep(s) PROVE RttOfSlot'
    <2>1. CASE ProbeOk(s) \/ ProbeErr(s)
      BY <1>0, <2>1, ProbeCurrent DEF ProbeOk, ProbeErr, chanVars
    <2>2. CASE ProbeAnswer(s) \/ Tick(s)
      BY <2>2 DEF ProbeAnswer, Tick, chanVars, rttVars
    <2> QED
      BY <1>2, <2>1, <2>2 DEF ProbeStep
  <1>3. ASSUME NEW s \in Sessions, LinkDies(s) \/ SmuxCloses(s) PROVE RttOfSlot'
    BY <1>3 DEF LinkDies, SmuxCloses, chanVars, rttVars
  <1>4. ASSUME NEW c \in Callers, CallStep(c) PROVE RttOfSlot'
    BY <1>4 DEF CallStep, Scan, Pick, Open, chanVars, rttVars
  <1>5. CASE UNCHANGED vars
    BY <1>5 DEF vars, chanVars, rttVars
  <1> QED
    BY <1>1, <1>2, <1>3, <1>4, <1>5 DEF Next

\* Sessions are not opened again and numbers do not go back.
LEMMA StepGrows ==
  ASSUME TypeOK, [Next]_vars
  PROVE  closed \subseteq closed' /\ \A s \in Sessions : Exists(s) => Exists(s)'
  <1>1. \A i \in Chans : last[i] \in Nat /\ (last'[i] = last[i] \/ last'[i] = last[i] + 1)
    <2>1. ASSUME NEW i \in Chans, ServeStep(i)
          PROVE  \A j \in Chans : last'[j] = last[j] \/ last'[j] = last[j] + 1
      BY <2>1
      DEF ServeStep, Install, FirstProbe, WatchDone, WatchDead, Drain, CloseSess, Clear, TypeOK
    <2>2. ASSUME ~\E i \in Chans : ServeStep(i) PROVE last' = last
      BY <2>2
      DEF Next, ProbeStep, ProbeAnswer, ProbeOk, ProbeErr, Tick, LinkDies, SmuxCloses, CallStep,
          Scan, Pick, Open, vars, chanVars
    <2> QED
      BY <2>1, <2>2 DEF TypeOK
  <1>2. \A s \in Sessions : Exists(s) => Exists(s)'
    BY <1>1, SessionFacts, PoolAssumption DEF Exists
  <1>3. closed \subseteq closed'
    BY DEF Next, ServeStep, Install, FirstProbe, WatchDone, WatchDead, Drain, CloseSess, Clear,
           ProbeStep, ProbeAnswer, ProbeOk, ProbeErr, Tick, LinkDies, SmuxCloses, CallStep, Scan,
           Pick, Open, vars
  <1> QED
    BY <1>2, <1>3

LEMMA NextCallInv ==
  TypeOK /\ SlotInv /\ NoneLeftOpen /\ CandInv /\ FailureExplained /\ [Next]_vars =>
    CandInv' /\ FailureExplained'
  <1> SUFFICES ASSUME TypeOK, SlotInv, NoneLeftOpen, CandInv, FailureExplained, [Next]_vars
               PROVE  CandInv' /\ FailureExplained'
    OBVIOUS
  <1>0. closed \subseteq closed' /\ \A s \in Sessions : Exists(s) => Exists(s)'
    BY StepGrows
  <1>1. ASSUME NEW c \in Callers, Scan(c) PROVE CandInv' /\ FailureExplained'
    <2>1. \A x \in Candidates : /\ <<x.idx, x.num>> \in Sessions
                               /\ Exists(<<x.idx, x.num>>)
                               /\ \A y \in Candidates : x.idx = y.idx => x = y
      <3> TAKE x \in Candidates
      <3>1. /\ x \in Candidate /\ x.num = smuxConns[x.idx] /\ x.num # Nil
            /\ <<x.idx, x.num>> \in Sessions
            /\ \A y \in Candidates : x.idx = y.idx => x = y
        BY CandidateFacts
      <3>2. x.num <= last[x.idx]
        BY <3>1 DEF SlotInv, Candidate, TypeOK, Nil
      <3> QED
        BY <3>1, <3>2 DEF Exists
    <2>2. /\ cands' = [cands EXCEPT ![c] = Candidates]
          /\ call' = [call EXCEPT ![c] = IF Candidates = {} THEN "none" ELSE "pick"]
          /\ UNCHANGED <<last, closed, best>>
      BY <1>1 DEF Scan, chanVars
    <2>3. CandInv'
      BY <2>1, <2>2 DEF CandInv, Exists, TypeOK
    <2>4. FailureExplained'
      BY <2>2 DEF FailureExplained, TypeOK
    <2> QED
      BY <2>3, <2>4
  <1>2. ASSUME NEW c \in Callers, Pick(c) PROVE CandInv' /\ FailureExplained'
    <2> DEFINE near == Near(cands[c])
               x == Kth(near, selectCounter % Cardinality(near))
               now == smuxConns[x.idx]
    <2>1. x \in cands[c]
      BY <1>2, Picked DEF Pick
    <2>2. /\ best' = [best EXCEPT ![c] = [x EXCEPT !.num = now]]
          /\ call' = [call EXCEPT ![c] =
               IF now = Nil \/ <<x.idx, now>> \in closed THEN "unusable" ELSE "open"]
          /\ UNCHANGED <<last, closed, cands>>
      BY <1>2 DEF Pick, chanVars
    <2> HIDE DEF x
    <2>3. CandInv'
      BY <2>2 DEF CandInv, Exists, TypeOK
    <2>4. x \in Candidate /\ <<x.idx, x.num>> \in Sessions /\ Exists(<<x.idx, x.num>>)
      BY <2>1 DEF CandInv, TypeOK
    <2>5. best'[c].idx = x.idx
      BY <2>2, <2>4 DEF TypeOK, Candidate
    <2>6. call'[c] = "unusable" => <<x.idx, x.num>> \in closed
      <3>1. CASE now = x.num
        BY <2>2, <2>4, <3>1, SessionFacts DEF TypeOK, Nil
      <3>2. CASE now # x.num
        BY <2>4, <3>2, SessionFacts DEF NoneLeftOpen
      <3> QED
        BY <3>1, <3>2
    <2>7. FailureExplained'
      BY <2>1, <2>2, <2>5, <2>6 DEF FailureExplained, TypeOK
    <2> QED
      BY <2>3, <2>7
  <1>3. ASSUME UNCHANGED <<cands, best>>,
               \A c \in Callers : call'[c] \in {"pick", "unusable"} => call'[c] = call[c]
        PROVE  CandInv' /\ FailureExplained'
    BY <1>0, <1>3 DEF CandInv, FailureExplained, Exists
  <1>4. ASSUME NEW c \in Callers, Open(c) PROVE CandInv' /\ FailureExplained'
    BY <1>3, <1>4 DEF Open, TypeOK
  <1>5. ASSUME ~\E c \in Callers : CallStep(c) PROVE CandInv' /\ FailureExplained'
    <2>1. UNCHANGED callVars
      BY <1>5
      DEF Next, ServeStep, Install, FirstProbe, WatchDone, WatchDead, Drain, CloseSess, Clear,
          ProbeStep, ProbeAnswer, ProbeOk, ProbeErr, Tick, LinkDies, SmuxCloses, vars
    <2> QED
      BY <1>3, <2>1 DEF callVars
  <1> QED
    BY <1>1, <1>2, <1>4, <1>5 DEF CallStep

LEMMA NextInv == IInv /\ [Next]_vars => IInv'
  <1> SUFFICES ASSUME IInv, [Next]_vars PROVE IInv'
    OBVIOUS
  <1> USE DEF IInv
  <1>1. TypeOK' /\ SlotInv'
    BY NextTypeOK, NextSlotInv
  <1>2. ProbeInv' /\ NoneLeftOpen' /\ ServeInv'
    <2>1. \A s \in Sessions : SessionOK(s)'
      BY SessionOKAll, NextSessionOK
    <2>2. (ProbeInv /\ NoneLeftOpen /\ ServeInv)'
      BY <2>1 DEF ProbeInv, NoneLeftOpen, ServeInv, SessionOK, Current
    <2> QED
      BY <2>2
  <1>3. RttOfSlot'
    BY NextRttOfSlot
  <1>4. CandInv' /\ FailureExplained'
    BY NextCallInv
  <1> QED
    BY <1>1, <1>2, <1>3, <1>4
-----------------------------------------------------------------------------
\* IInv holds at every step of every run.
THEOREM InvCorrect == Spec => []IInv
  <1>1. Init => IInv
    BY InitInv
  <1>2. IInv /\ [Next]_vars => IInv'
    BY NextInv
  <1> QED
    BY <1>1, <1>2, PTL DEF Spec

\* The types of the pool's slots, sessions and callers.
THEOREM TypeCorrect == Spec => []TypeOK
  BY InvCorrect, PTL DEF IInv

\* openBestStream never ranks a channel by the round trip of a session that has
\* left its slot, in whatever order the probes of old sessions end.
THEOREM RttOfSlotCorrect == Spec => []RttOfSlot
  BY InvCorrect, PTL DEF IInv

\* dialAndServe leaves no session open and no probe running behind it.
THEOREM NoneLeftOpenCorrect == Spec => []NoneLeftOpen
  BY InvCorrect, PTL DEF IInv

\* openBestStream fails on a channel it has chosen only when the session it had
\* seen there was closed in the meantime.
THEOREM FailureExplainedCorrect == Spec => []FailureExplained
  BY InvCorrect, PTL DEF IInv
-----------------------------------------------------------------------------
(* Formats: bytes and numbers of two bytes *)

\* Numbers that fit in two bytes.
LEMMA ByteFacts ==
  /\ Base \in Nat /\ Base >= 16 /\ Limit \in Nat /\ Limit >= 256 /\ Limit = Base * Base
  /\ \A n \in 0 .. 15 : n \in Byte
  /\ Byte \subseteq Nat /\ U16s \subseteq Nat
  <1>1. Base \in Nat /\ Base >= 16
    BY BaseAssumption
  <1>2. Base * Base \in Nat /\ Base * Base >= 256
    BY <1>1
  <1> QED
    BY <1>1, <1>2 DEF Limit, Byte, U16s

\* The remainder of a division, with the quotient.
LEMMA Division ==
  ASSUME NEW d \in Nat, d > 0, NEW n \in Nat
  PROVE  \E q \in Nat, r \in 0 .. d - 1 : q = n \div d /\ r = n % d /\ n = d * q + r
  <1>1. n \div d \in Nat /\ n % d \in 0 .. d - 1
    OBVIOUS
  <1>2. n % d = n - d * (n \div d)
    OBVIOUS
  <1> DEFINE q == n \div d
             r == n % d
  <1>3. q \in Nat /\ r \in 0 .. d - 1 /\ r = n - d * q
    BY <1>1, <1>2
  <1> HIDE DEF q, r
  <1>4. d * q \in Nat
    BY <1>3
  <1>5. n = d * q + r
    BY <1>3, <1>4
  <1> QED
    BY <1>3, <1>5 DEF q, r

\* The two bytes of a number, and the number of two bytes.
LEMMA PutBytes ==
  ASSUME NEW n \in U16s
  PROVE  \E a, b \in Byte : PutU16(n) = <<a, b>> /\ a * Base + b = n
  <1>1. Base \in Nat /\ Base > 0 /\ n \in Nat /\ n < Base * Base
    BY ByteFacts DEF U16s
  <1>2. PICK q \in Nat, r \in 0 .. Base - 1 : q = n \div Base /\ r = n % Base /\ n = Base * q + r
    BY <1>1, Division
  <1>3. q \in 0 .. Base - 1
    <2>1. ASSUME q >= Base PROVE FALSE
      <3>1. Base * q >= Base * Base
        BY <1>1, <1>2, <2>1
      <3> QED
        BY <1>1, <1>2, <3>1
    <2> QED
      BY <1>1, <1>2, <2>1
  <1>4. q % Base = q
    BY <1>1, <1>3
  <1>5. PutU16(n) = <<q, r>>
    BY <1>2, <1>4 DEF PutU16
  <1>6. q * Base + r = n
    BY <1>1, <1>2
  <1>7. q \in Byte /\ r \in Byte
    BY <1>2, <1>3 DEF Byte
  <1> QED
    BY <1>5, <1>6, <1>7

LEMMA NumberOfBytes ==
  ASSUME NEW a \in Byte, NEW b \in Byte
  PROVE  a * Base + b \in U16s
  BY ByteFacts DEF Byte, U16s

\* Two pieces, one after the other.
LEMMA Joint ==
  ASSUME NEW S
  PROVE  \A p, q \in Seq(S) :
           /\ p \o q \in Seq(S) /\ Len(p \o q) = Len(p) + Len(q)
           /\ \A i \in 1 .. Len(p) : (p \o q)[i] = p[i]
           /\ \A i \in 1 .. Len(q) : (p \o q)[Len(p) + i] = q[i]
  <1> TAKE p, q \in Seq(S)
  <1>1. Len(p) \in Nat /\ Len(q) \in Nat
    OBVIOUS
  <1>2. /\ p \o q \in Seq(S) /\ Len(p \o q) = Len(p) + Len(q)
        /\ \A i \in 1 .. Len(p) + Len(q) :
             (p \o q)[i] = IF i <= Len(p) THEN p[i] ELSE q[i - Len(p)]
    BY ConcatProperties
  <1>3. \A i \in 1 .. Len(p) : (p \o q)[i] = p[i]
    BY <1>1, <1>2
  <1>4. ASSUME NEW i \in 1 .. Len(q) PROVE (p \o q)[Len(p) + i] = q[i]
    <2>1. /\ Len(p) + i \in 1 .. Len(p) + Len(q) /\ ~(Len(p) + i <= Len(p))
          /\ (Len(p) + i) - Len(p) = i
      BY <1>1
    <2> QED
      BY <1>2, <2>1
  <1> QED
    BY <1>2, <1>3, <1>4

\* The piece that starts after p, of the length of q.
LEMMA Piece ==
  ASSUME NEW S
  PROVE  \A p, q, r \in Seq(S) : \A a, b \in Int :
           a = Len(p) + 1 /\ b = Len(p) + Len(q) => SubSeq((p \o q) \o r, a, b) = q
  <1> TAKE p, q, r \in Seq(S)
  <1> TAKE a, b \in Int
  <1> HAVE a = Len(p) + 1 /\ b = Len(p) + Len(q)
  <1> DEFINE s == (p \o q) \o r
  <1>0. Len(p) \in Nat /\ Len(q) \in Nat /\ Len(r) \in Nat
    OBVIOUS
  <1>1. /\ p \o q \in Seq(S) /\ Len(p \o q) = Len(p) + Len(q)
        /\ \A i \in 1 .. Len(q) : (p \o q)[Len(p) + i] = q[i]
    BY Joint
  <1>2. /\ s \in Seq(S) /\ Len(s) = Len(p) + Len(q) + Len(r)
        /\ \A i \in 1 .. Len(p) + Len(q) : s[i] = (p \o q)[i]
    BY <1>1, Joint
  <1> HIDE DEF s
  <1>3. \A i \in 1 .. Len(q) : s[Len(p) + i] = q[i]
    <2> TAKE i \in 1 .. Len(q)
    <2>1. Len(p) + i \in 1 .. Len(p) + Len(q)
      BY <1>0
    <2> QED
      BY <1>1, <1>2, <2>1
  <1>4. \A i \in a .. b : s[i] \in S
    BY <1>0, <1>2
  <1>5. /\ SubSeq(s, a, b) \in Seq(S)
        /\ Len(SubSeq(s, a, b)) = Len(q)
        /\ \A i \in 1 .. Len(q) : SubSeq(s, a, b)[i] = s[Len(p) + i]
    <2>1. /\ SubSeq(s, a, b) \in Seq(S)
          /\ Len(SubSeq(s, a, b)) = IF a <= b THEN b - a + 1 ELSE 0
          /\ \A i \in 1 .. b - a + 1 : SubSeq(s, a, b)[i] = s[a + i - 1]
      BY <1>4, SubSeqProperties
    <2>2. b - a + 1 = Len(q) /\ (a <= b <=> Len(q) > 0) /\ \A i \in Int : a + i - 1 = Len(p) + i
      BY <1>0
    <2> QED
      BY <1>0, <2>1, <2>2
  <1>6. SubSeq(s, a, b) = q
    BY <1>3, <1>5, SeqEqual
  <1> QED
    BY <1>6 DEF s

\* What comes after p, to the end.
LEMMA Remainder ==
  ASSUME NEW S
  PROVE  \A p, q \in Seq(S) : \A a \in Int :
           a = Len(p) + 1 => SubSeq(p \o q, a, Len(p \o q)) = q
  <1> TAKE p, q \in Seq(S)
  <1> TAKE a \in Int
  <1> HAVE a = Len(p) + 1
  <1>1. <<>> \in Seq(S) /\ p \o q \in Seq(S) /\ Len(p \o q) = Len(p) + Len(q)
        /\ Len(p) \in Nat /\ Len(q) \in Nat
    BY Joint
  <1>2. (p \o q) \o <<>> = p \o q
    BY <1>1, ConcatEmptySeq
  <1>3. SubSeq((p \o q) \o <<>>, a, Len(p) + Len(q)) = q
    BY <1>1, Piece
  <1> QED
    BY <1>1, <1>2, <1>3
\* The same for bytes.
LEMMA BytesJoint ==
  \A p, q \in Seq(Byte) :
    /\ p \o q \in Seq(Byte) /\ Len(p \o q) = Len(p) + Len(q)
    /\ \A i \in 1 .. Len(p) : (p \o q)[i] = p[i]
    /\ \A i \in 1 .. Len(q) : (p \o q)[Len(p) + i] = q[i]
  BY Joint

LEMMA BytesAssoc ==
  \A p, q, r \in Seq(Byte) : (p \o q) \o r = p \o (q \o r)
  BY ConcatAssoc

LEMMA BytesPiece ==
  \A p, q, r \in Seq(Byte) : \A a, b \in Int :
    a = Len(p) + 1 /\ b = Len(p) + Len(q) => SubSeq((p \o q) \o r, a, b) = q
  BY Piece
-----------------------------------------------------------------------------
(* Streams: a message that was written is read, and a part of one is not *)

StreamMessages == OpenHeaders \cup DataChunks \cup UDPReplies

\* What the reader of a message of m's kind makes of s.
ReadAs(m, s) ==
  CASE m.is = "open" -> ReadOpen(s)
    [] m.is = "chunk" -> ReadChunk(s)
    [] m.is = "reply" -> ReadReply(s)

\* Four bytes, and the two pieces after them.
LEMMA FourBytes ==
  ASSUME NEW a \in Byte, NEW b \in Byte, NEW c \in Byte, NEW d \in Byte
  PROVE  /\ <<a, b, c, d>> \in Seq(Byte) /\ Len(<<a, b, c, d>>) = 4
         /\ <<a, b>> \o <<c, d>> = <<a, b, c, d>>
  <1>1. /\ <<a, b>> \in Seq(Byte) /\ Len(<<a, b>>) = 2
        /\ <<c, d>> \in Seq(Byte) /\ Len(<<c, d>>) = 2
        /\ <<a, b, c, d>> \in Seq(Byte) /\ Len(<<a, b, c, d>>) = 4
    OBVIOUS
  <1> DEFINE p == <<a, b>>
             q == <<c, d>>
             s == <<a, b, c, d>>
  <1>2. /\ p \o q \in Seq(Byte) /\ Len(p \o q) = 4
        /\ \A i \in 1 .. 4 : (p \o q)[i] = IF i <= 2 THEN p[i] ELSE q[i - 2]
    BY <1>1, ConcatProperties
  <1>3. \A i \in 1 .. 4 : s[i] = IF i <= 2 THEN p[i] ELSE q[i - 2]
    <2> TAKE i \in 1 .. 4
    <2>1. i = 1 \/ i = 2 \/ i = 3 \/ i = 4
      OBVIOUS
    <2> QED
      BY <2>1
  <1> HIDE DEF p, q, s
  <1>4. s \in Seq(Byte) /\ Len(s) = 4
    BY <1>1 DEF s
  <1>5. p \o q = s
    <2>1. \A i \in 1 .. 4 : (p \o q)[i] = s[i]
      BY ONLY <1>2, <1>3
    <2> QED
      BY ONLY <1>2, <1>4, <2>1, SeqEqual
  <1> QED
    BY <1>1, <1>5 DEF p, q, s

\* Four bytes that begin a message.
Header(h, a, b, c, d) ==
  /\ h = <<a, b>> \o <<c, d>> /\ Len(h) = 4
  /\ h[1] = a /\ h[2] = b /\ h[3] = c /\ h[4] = d

LEMMA HeaderBytes ==
  \A a, b, c, d \in Byte : \E h \in Seq(Byte) : Header(h, a, b, c, d)
  <1> TAKE a, b, c, d \in Byte
  <1>1. /\ <<a, b, c, d>> \in Seq(Byte) /\ Len(<<a, b, c, d>>) = 4
        /\ <<a, b>> \o <<c, d>> = <<a, b, c, d>>
    BY FourBytes
  <1> WITNESS <<a, b, c, d>> \in Seq(Byte)
  <1> QED
    BY <1>1 DEF Header

\* A head, a body, and what is written after them.
LEMMA Layout ==
  \A h, t, r \in Seq(Byte) :
    /\ h \o t \in Seq(Byte) /\ Len(h \o t) = Len(h) + Len(t)
    /\ (h \o t) \o r \in Seq(Byte) /\ Len((h \o t) \o r) = Len(h) + Len(t) + Len(r)
    /\ \A i \in 1 .. Len(h) : (h \o t)[i] = h[i] /\ ((h \o t) \o r)[i] = h[i]
    /\ \A i \in Int : i = Len(h) + 1 =>
         SubSeq((h \o t) \o r, i, Len(h) + Len(t)) = t
    /\ \A i \in Int : i = Len(h) + Len(t) + 1 =>
         SubSeq((h \o t) \o r, i, Len((h \o t) \o r)) = r
  <1> TAKE h, t, r \in Seq(Byte)
  <1> DEFINE s == h \o t
             w == s \o r
  <1>1. Len(h) \in Nat /\ Len(t) \in Nat /\ Len(r) \in Nat
    OBVIOUS
  <1>2. s \in Seq(Byte) /\ Len(s) = Len(h) + Len(t) /\ \A i \in 1 .. Len(h) : s[i] = h[i]
    BY Joint
  <1>3. \A i \in Int : i = Len(h) + 1 => SubSeq((h \o t) \o r, i, Len(h) + Len(t)) = t
    BY <1>1, Piece
  <1> HIDE DEF s
  <1>4. w \in Seq(Byte) /\ Len(w) = Len(s) + Len(r) /\ \A i \in 1 .. Len(s) : w[i] = s[i]
    BY <1>2, Joint
  <1>5. \A i \in Int : i = Len(s) + 1 => SubSeq(w, i, Len(w)) = r
    BY <1>2, Remainder
  <1> HIDE DEF w
  <1>6. \A i \in 1 .. Len(h) : w[i] = h[i]
    BY <1>1, <1>2, <1>4
  <1>7. Len(w) = Len(h) + Len(t) + Len(r)
    BY <1>2, <1>4
  <1>8. \A i \in Int : i = Len(h) + Len(t) + 1 => SubSeq(w, i, Len(w)) = r
    BY <1>2, <1>5
  <1> QED
    BY <1>2, <1>3, <1>4, <1>6, <1>7, <1>8 DEF s, w

\* The first n bytes of it: of the head, those that are there.
LEMMA LayoutPart ==
  \A h, t \in Seq(Byte) : \A n \in 0 .. Len(h) + Len(t) - 1 :
    /\ SubSeq(h \o t, 1, n) \in Seq(Byte) /\ Len(SubSeq(h \o t, 1, n)) = n
    /\ \A i \in 1 .. Len(h) : i <= n => SubSeq(h \o t, 1, n)[i] = h[i]
  <1> TAKE h, t \in Seq(Byte)
  <1> TAKE n \in 0 .. Len(h) + Len(t) - 1
  <1> DEFINE s == h \o t
  <1>1. /\ s \in Seq(Byte) /\ Len(s) = Len(h) + Len(t) /\ \A i \in 1 .. Len(h) : s[i] = h[i]
        /\ Len(h) \in Nat /\ Len(t) \in Nat
    BY Joint
  <1> HIDE DEF s
  <1>2. n \in 0 .. Len(s)
    BY <1>1
  <1>3. /\ SubSeq(s, 1, n) \in Seq(Byte) /\ Len(SubSeq(s, 1, n)) = n
        /\ \A i \in 1 .. n : SubSeq(s, 1, n)[i] = s[i]
    BY <1>1, <1>2, HeadPart
  <1>4. \A i \in 1 .. Len(h) : i <= n => SubSeq(s, 1, n)[i] = h[i]
    BY <1>1, <1>2, <1>3
  <1> QED
    BY <1>3, <1>4 DEF s

LEMMA OpenRead ==
  ASSUME NEW m \in OpenHeaders, ~Refused(m)
  PROVE  /\ OpenBytes(m) \in Seq(Byte)
         /\ \A rest \in Seq(Byte) : ReadOpen(OpenBytes(m) \o rest) = Read(m, rest)
         /\ \A n \in 0 .. Len(OpenBytes(m)) - 1 : ReadOpen(SubSeq(OpenBytes(m), 1, n)) = Cut
  <1>1. PICK k \in Byte, y \in Byte, t \in Seq(Byte) :
          m = [is |-> "open", kind |-> k, strategy |-> y, target |-> t]
    BY DEF OpenHeaders
  <1>2. Len(t) \in Nat /\ Len(t) \in U16s
    <2>1. ~(Len(m.target) >= Limit)
      BY <1>1 DEF Refused
    <2> QED
      BY <1>1, <2>1, ByteFacts DEF U16s
  <1>3. PICK a, b \in Byte : PutU16(Len(t)) = <<a, b>> /\ a * Base + b = Len(t)
    BY <1>2, PutBytes
  <1>4. PICK h \in Seq(Byte) :
          /\ h = <<k, y>> \o <<a, b>> /\ Len(h) = 4 /\ h[1] = k /\ h[2] = y
          /\ h[3] = a /\ h[4] = b
    <2>1. \E h \in Seq(Byte) : Header(h, k, y, a, b)
      BY HeaderBytes
    <2> QED
      BY ONLY <2>1 DEF Header
  <1>5. OpenBytes(m) = h \o t
    BY <1>1, <1>3, <1>4 DEF OpenBytes
  <1>6. ASSUME NEW rest \in Seq(Byte) PROVE ReadOpen((h \o t) \o rest) = Read(m, rest)
    <2> DEFINE w == (h \o t) \o rest
    <2>1. /\ Len(w) = 4 + Len(t) + Len(rest) /\ Len(rest) \in Nat
          /\ \A i \in 1 .. 4 : w[i] = h[i]
          /\ SubSeq(w, 5, 4 + Len(t)) = t
          /\ SubSeq(w, 5 + Len(t), Len(w)) = rest
      <3>1. /\ 5 \in Int /\ 5 = Len(h) + 1 /\ 4 + Len(t) = Len(h) + Len(t)
            /\ 5 + Len(t) \in Int /\ 5 + Len(t) = Len(h) + Len(t) + 1
        BY <1>2, <1>4
      <3> QED
        BY <1>4, <3>1, Layout
    <2> HIDE DEF w
    <2>2. w[1] = k /\ w[2] = y /\ U16(w, 3) = Len(t)
      BY <1>3, <1>4, <2>1 DEF U16
    <2>3. ~(Len(w) < 4 \/ Len(w) < 4 + U16(w, 3))
      BY <1>2, <2>1, <2>2
    <2> QED
      BY <1>1, <2>1, <2>2, <2>3 DEF ReadOpen, Read, From, w
  <1>7. ASSUME NEW n \in 0 .. Len(h \o t) - 1 PROVE ReadOpen(SubSeq(h \o t, 1, n)) = Cut
    <2> DEFINE w == SubSeq(h \o t, 1, n)
    <2>1. n \in 0 .. 4 + Len(t) - 1
      BY <1>4, Layout
    <2>2. Len(w) = n /\ \A i \in 1 .. 4 : i <= n => w[i] = h[i]
      BY <1>4, <2>1, LayoutPart
    <2> HIDE DEF w
    <2>3. n >= 4 => U16(w, 3) = Len(t)
      BY <1>3, <1>4, <2>2 DEF U16
    <2>4. Len(w) < 4 \/ Len(w) < 4 + U16(w, 3)
      BY <1>2, <2>1, <2>2, <2>3
    <2> QED
      BY <2>4 DEF ReadOpen, w
  <1> QED
    BY <1>5, <1>6, <1>7, Layout

LEMMA ChunkRead ==
  ASSUME NEW m \in DataChunks, ~Refused(m)
  PROVE  /\ ChunkBytes(m) \in Seq(Byte)
         /\ \A rest \in Seq(Byte) : ReadChunk(ChunkBytes(m) \o rest) = Read(m, rest)
         /\ \A n \in 0 .. Len(ChunkBytes(m)) - 1 : ReadChunk(SubSeq(ChunkBytes(m), 1, n)) = Cut
  <1>1. PICK t \in Seq(Byte) : m = [is |-> "chunk", data |-> t]
    BY DEF DataChunks
  <1>2. Len(t) \in Nat /\ Len(t) \in U16s
    <2>1. ~(Len(m.data) >= Limit)
      BY <1>1 DEF Refused
    <2> QED
      BY <1>1, <2>1, ByteFacts DEF U16s
  <1>3. PICK a, b \in Byte : PutU16(Len(t)) = <<a, b>> /\ a * Base + b = Len(t)
    BY <1>2, PutBytes
  <1>4. PICK h \in Seq(Byte) : h = <<a, b>> /\ Len(h) = 2 /\ h[1] = a /\ h[2] = b
    <2>1. <<a, b>> \in Seq(Byte) /\ Len(<<a, b>>) = 2
      OBVIOUS
    <2> QED
      BY <2>1
  <1>5. ChunkBytes(m) = h \o t
    BY <1>1, <1>3, <1>4 DEF ChunkBytes
  <1>6. ASSUME NEW rest \in Seq(Byte) PROVE ReadChunk((h \o t) \o rest) = Read(m, rest)
    <2> DEFINE w == (h \o t) \o rest
    <2>1. /\ Len(w) = 2 + Len(t) + Len(rest) /\ Len(rest) \in Nat
          /\ \A i \in 1 .. 2 : w[i] = h[i]
          /\ SubSeq(w, 3, 2 + Len(t)) = t
          /\ SubSeq(w, 3 + Len(t), Len(w)) = rest
      <3>1. /\ 3 \in Int /\ 3 = Len(h) + 1 /\ 2 + Len(t) = Len(h) + Len(t)
            /\ 3 + Len(t) \in Int /\ 3 + Len(t) = Len(h) + Len(t) + 1
        BY <1>2, <1>4
      <3> QED
        BY <1>4, <3>1, Layout
    <2> HIDE DEF w
    <2>2. U16(w, 1) = Len(t)
      BY <1>3, <1>4, <2>1 DEF U16
    <2>3. ~(Len(w) < 2 \/ Len(w) < 2 + U16(w, 1))
      BY <1>2, <2>1, <2>2
    <2> QED
      BY <1>1, <2>1, <2>2, <2>3 DEF ReadChunk, Read, From, w
  <1>7. ASSUME NEW n \in 0 .. Len(h \o t) - 1 PROVE ReadChunk(SubSeq(h \o t, 1, n)) = Cut
    <2> DEFINE w == SubSeq(h \o t, 1, n)
    <2>1. n \in 0 .. 2 + Len(t) - 1
      BY <1>4, Layout
    <2>2. Len(w) = n /\ \A i \in 1 .. 2 : i <= n => w[i] = h[i]
      BY <1>4, <2>1, LayoutPart
    <2> HIDE DEF w
    <2>3. n >= 2 => U16(w, 1) = Len(t)
      BY <1>3, <1>4, <2>2 DEF U16
    <2>4. Len(w) < 2 \/ Len(w) < 2 + U16(w, 1)
      BY <1>2, <2>1, <2>2, <2>3
    <2> QED
      BY <2>4 DEF ReadChunk, w
  <1> QED
    BY <1>5, <1>6, <1>7, Layout

LEMMA ReplyRead ==
  ASSUME NEW m \in UDPReplies, ~Refused(m)
  PROVE  /\ ReplyBytes(m) \in Seq(Byte)
         /\ \A rest \in Seq(Byte) : ReadReply(ReplyBytes(m) \o rest) = Read(m, rest)
         /\ \A n \in 0 .. Len(ReplyBytes(m)) - 1 : ReadReply(SubSeq(ReplyBytes(m), 1, n)) = Cut
  <1>1. PICK x \in Seq(Byte), y \in Seq(Byte) :
          m = [is |-> "reply", addr |-> x, data |-> y] /\ Len(y) < Limit
    BY DEF UDPReplies
  <1>2. Len(x) \in Nat /\ Len(x) \in U16s /\ Len(y) \in Nat /\ Len(y) \in U16s
    <2>1. ~(Len(m.addr) >= Limit)
      BY <1>1 DEF Refused
    <2> QED
      BY <1>1, <2>1, ByteFacts DEF U16s
  <1>3. /\ \E a, b \in Byte : PutU16(Len(x)) = <<a, b>> /\ a * Base + b = Len(x)
        /\ \E c, d \in Byte : PutU16(Len(y)) = <<c, d>> /\ c * Base + d = Len(y)
    BY <1>2, PutBytes
  <1>4. PICK a, b, c, d \in Byte :
          /\ PutU16(Len(x)) = <<a, b>> /\ a * Base + b = Len(x)
          /\ PutU16(Len(y)) = <<c, d>> /\ c * Base + d = Len(y)
    BY <1>3
  <1>5. PICK h \in Seq(Byte) :
          /\ h = <<a, b>> \o <<c, d>> /\ Len(h) = 4 /\ h[1] = a /\ h[2] = b
          /\ h[3] = c /\ h[4] = d
    <2>1. \E h \in Seq(Byte) : Header(h, a, b, c, d)
      BY HeaderBytes
    <2> QED
      BY ONLY <2>1 DEF Header
  <1>6. PICK t \in Seq(Byte) : t = x \o y /\ Len(t) = Len(x) + Len(y)
    BY Joint
  <1>7. ReplyBytes(m) = h \o t
    <2>1. ReplyBytes(m) = (h \o x) \o y
      BY <1>1, <1>4, <1>5 DEF ReplyBytes
    <2> QED
      BY <1>6, <2>1, ConcatAssoc
  <1>8. ASSUME NEW rest \in Seq(Byte) PROVE ReadReply((h \o t) \o rest) = Read(m, rest)
    <2> DEFINE w == (h \o t) \o rest
    <2>1. /\ Len(w) = 4 + Len(x) + Len(y) + Len(rest) /\ Len(rest) \in Nat
          /\ \A i \in 1 .. 4 : w[i] = h[i]
          /\ SubSeq(w, 5 + Len(x) + Len(y), Len(w)) = rest
      <3>1. 5 + Len(x) + Len(y) \in Int /\ 5 + Len(x) + Len(y) = Len(h) + Len(t) + 1
        BY <1>2, <1>5, <1>6
      <3>2. Len(h) + Len(t) + Len(rest) = 4 + Len(x) + Len(y) + Len(rest)
        BY <1>2, <1>5, <1>6
      <3> QED
        BY <1>5, <3>1, <3>2, Layout
    <2>2. SubSeq(w, 5, 4 + Len(x)) = x
      <3>1. y \o rest \in Seq(Byte) /\ h \o x \in Seq(Byte)
        BY Joint
      <3>2. w = (h \o x) \o (y \o rest)
        <4>1. h \o t = (h \o x) \o y
          BY <1>6, ConcatAssoc
        <4>2. ((h \o x) \o y) \o rest = (h \o x) \o (y \o rest)
          <5> DEFINE hx == h \o x
          <5>1. hx \in Seq(Byte)
            BY <3>1
          <5> HIDE DEF hx
          <5>2. (hx \o y) \o rest = hx \o (y \o rest)
            BY ONLY <5>1, y \in Seq(Byte), rest \in Seq(Byte), BytesAssoc
          <5> QED
            BY ONLY <5>2 DEF hx
        <4> QED
          BY <4>1, <4>2
      <3>3. 5 \in Int /\ 4 + Len(x) \in Int /\ 5 = Len(h) + 1 /\ 4 + Len(x) = Len(h) + Len(x)
        BY <1>2, <1>5
      <3> HIDE DEF w
      <3> QED
        BY <3>1, <3>2, <3>3, Piece, SMTT(30)
    <2>3. SubSeq(w, 5 + Len(x), 4 + Len(x) + Len(y)) = y
      <3>1. h \o x \in Seq(Byte) /\ Len(h \o x) = Len(h) + Len(x)
        BY Joint
      <3>2. w = ((h \o x) \o y) \o rest
        BY <1>6, ConcatAssoc
      <3>3. /\ 5 + Len(x) \in Int /\ 4 + Len(x) + Len(y) \in Int
            /\ 5 + Len(x) = Len(h \o x) + 1 /\ 4 + Len(x) + Len(y) = Len(h \o x) + Len(y)
        BY <1>2, <1>5, <3>1
      <3> HIDE DEF w
      <3> QED
        <4> DEFINE hx == h \o x
                   i == 5 + Len(x)
                   j == 4 + Len(x) + Len(y)
        <4>1. /\ hx \in Seq(Byte) /\ i \in Int /\ j \in Int
              /\ i = Len(hx) + 1 /\ j = Len(hx) + Len(y) /\ w = (hx \o y) \o rest
          BY ONLY <3>1, <3>2, <3>3
        <4> HIDE DEF hx, i, j
        <4>2. SubSeq(w, i, j) = y
          BY ONLY <4>1, y \in Seq(Byte), rest \in Seq(Byte), BytesPiece, SMTT(30)
        <4> QED
          BY ONLY <4>2 DEF i, j
    <2> HIDE DEF w
    <2>4. U16(w, 1) = Len(x) /\ U16(w, 3) = Len(y)
      BY <1>4, <1>5, <2>1 DEF U16
    <2>5. ~(Len(w) < 4 \/ Len(w) < 4 + U16(w, 1) + U16(w, 3))
      BY <1>2, <2>1, <2>4
    <2> QED
      BY <1>1, <2>1, <2>2, <2>3, <2>4, <2>5 DEF ReadReply, Read, From, w
  <1>9. ASSUME NEW n \in 0 .. Len(h \o t) - 1 PROVE ReadReply(SubSeq(h \o t, 1, n)) = Cut
    <2> DEFINE w == SubSeq(h \o t, 1, n)
    <2>1. n \in 0 .. 4 + Len(t) - 1
      BY <1>5, Layout
    <2>2. Len(w) = n /\ \A i \in 1 .. 4 : i <= n => w[i] = h[i]
      BY <1>5, <2>1, LayoutPart
    <2> HIDE DEF w
    <2>3. n >= 4 => U16(w, 1) = Len(x) /\ U16(w, 3) = Len(y)
      BY <1>4, <1>5, <2>2 DEF U16
    <2>4. Len(w) < 4 \/ Len(w) < 4 + U16(w, 1) + U16(w, 3)
      BY <1>2, <1>6, <2>1, <2>2, <2>3
    <2> QED
      BY <2>4 DEF ReadReply, w
  <1> QED
    BY <1>7, <1>8, <1>9, Layout

\* Every message of a stream that is not refused.
LEMMA MessageRead ==
  ASSUME NEW m \in StreamMessages, ~Refused(m)
  PROVE  /\ Encoded(m) \in Seq(Byte)
         /\ \A rest \in Seq(Byte) : ReadAs(m, Encoded(m) \o rest) = Read(m, rest)
         /\ \A n \in 0 .. Len(Encoded(m)) - 1 : ReadAs(m, SubSeq(Encoded(m), 1, n)) = Cut
  <1>1. CASE m \in OpenHeaders
    <2>1. m.is = "open"
      BY <1>1 DEF OpenHeaders
    <2>2. Encoded(m) = OpenBytes(m) /\ \A s : ReadAs(m, s) = ReadOpen(s)
      BY <2>1 DEF Encoded, ReadAs
    <2> QED
      BY <1>1, <2>2, OpenRead
  <1>2. CASE m \in DataChunks
    <2>1. m.is = "chunk"
      BY <1>2 DEF DataChunks
    <2>2. Encoded(m) = ChunkBytes(m) /\ \A s : ReadAs(m, s) = ReadChunk(s)
      BY <2>1 DEF Encoded, ReadAs
    <2> QED
      BY <1>2, <2>2, ChunkRead
  <1>3. CASE m \in UDPReplies
    <2>1. m.is = "reply"
      BY <1>3 DEF UDPReplies
    <2>2. Encoded(m) = ReplyBytes(m) /\ \A s : ReadAs(m, s) = ReadReply(s)
      BY <2>1 DEF Encoded, ReadAs
    <2> QED
      BY <1>3, <2>2, ReplyRead
  <1> QED
    BY <1>1, <1>2, <1>3 DEF StreamMessages
-----------------------------------------------------------------------------
(* Packets of SOCKS5 UDP *)

\* A packet is read as it was built; one that is too short is refused.
LEMMA PacketRead ==
  ASSUME NEW m \in UDPPackets
  PROVE  /\ BuildPacket(m) \in Seq(Byte) /\ BuildPacket(m) # <<>>
         /\ ParsePacket(BuildPacket(m)) =
              IF Len(BuildPacket(m)) >= 10 THEN Read(m, <<>>) ELSE Cut
  <1>1. PICK k \in {1, 3, 4}, x \in Seq(Byte), n \in U16s, y \in Seq(Byte) :
          /\ m = [is |-> "packet", atyp |-> k, host |-> x, port |-> n, data |-> y]
          /\ Len(x) \in CASE m.atyp = 1 -> {4} [] m.atyp = 3 -> Byte [] m.atyp = 4 -> {16}
    BY DEF UDPPackets
  <1>2. /\ k = 1 => Len(x) = 4
        /\ k = 3 => Len(x) \in Byte
        /\ k = 4 => Len(x) = 16
    BY <1>1
  <1>3. Len(x) \in Nat /\ Len(y) \in Nat
    OBVIOUS
  <1>4. PICK a, b \in Byte : PutU16(n) = <<a, b>> /\ a * Base + b = n
    BY PutBytes
  <1> DEFINE len == IF k = 3 THEN <<Len(x)>> ELSE <<>>
             h == <<0, 0, 0, k>> \o len
             p == <<a, b>>
             s == ((h \o x) \o p) \o y
  <1>5. BuildPacket(m) = s
    BY <1>1, <1>4 DEF BuildPacket
  <1>6. /\ h \in Seq(Byte) /\ Len(h) = HostFrom(<<0, 0, 0, k>>) - 1
        /\ h[3] = 0 /\ h[4] = k /\ (k = 3 => h[5] = Len(x))
        /\ Len(h) >= 4 /\ (k = 3 => Len(h) = 5)
    <2>1. 0 \in Byte /\ k \in Byte
      <3>1. 0 \in 0 .. 15 /\ k \in 0 .. 15
        BY ONLY k \in {1, 3, 4}
      <3> QED
        BY ONLY <3>1, ByteFacts
    <2>2. <<0, 0, 0, k>> \in Seq(Byte) /\ Len(<<0, 0, 0, k>>) = 4
      BY <2>1
    <2>3. CASE k = 3
      <3>1. Len(x) \in Byte
        BY <1>2, <2>3
      <3>2. /\ <<Len(x)>> \in Seq(Byte) /\ Len(<<Len(x)>>) = 1 /\ 1 \in 1 .. 1
            /\ h = <<0, 0, 0, k>> \o <<Len(x)>>
        BY <2>3, <3>1
      <3>3. /\ h \in Seq(Byte) /\ Len(h) = 5
            /\ \A i \in 1 .. 4 : h[i] = <<0, 0, 0, k>>[i]
            /\ h[4 + 1] = <<Len(x)>>[1]
        BY <2>2, <3>2, Joint
      <3> HIDE DEF h
      <3> QED
        BY <2>3, <3>3 DEF HostFrom
    <2>4. CASE k # 3
      <3>1. h = <<0, 0, 0, k>>
        BY <2>2, <2>4, ConcatEmptySeq
      <3> HIDE DEF h
      <3> QED
        BY <2>2, <2>4, <3>1 DEF HostFrom
    <2> QED
      BY <2>3, <2>4
  <1>7. p \in Seq(Byte) /\ Len(p) = 2 /\ p[1] = a /\ p[2] = b
    OBVIOUS
  <1> HIDE DEF len, h, p
  <1>8. /\ h \o x \in Seq(Byte) /\ Len(h \o x) = Len(h) + Len(x)
        /\ \A i \in 1 .. Len(h) : (h \o x)[i] = h[i]
    BY ONLY <1>6, x \in Seq(Byte), BytesJoint
  <1>9. PICK u \in Seq(Byte) :
          /\ u = (h \o x) \o p /\ Len(u) = Len(h) + Len(x) + 2
          /\ \A i \in 1 .. Len(h) : u[i] = h[i]
          /\ u[Len(h) + Len(x) + 1] = a /\ u[Len(h) + Len(x) + 2] = b
    <2> DEFINE v == h \o x
    <2> HIDE DEF v
    <2>1. v \in Seq(Byte) /\ Len(v) = Len(h) + Len(x) /\ \A i \in 1 .. Len(h) : v[i] = h[i]
      BY <1>8 DEF v
    <2>2. /\ v \o p \in Seq(Byte) /\ Len(v \o p) = Len(v) + Len(p)
          /\ \A i \in 1 .. Len(v) : (v \o p)[i] = v[i]
          /\ \A i \in 1 .. Len(p) : (v \o p)[Len(v) + i] = p[i]
      BY ONLY <1>7, <2>1, BytesJoint
    <2>3. Len(h) \in Nat /\ 1 \in 1 .. 2 /\ 2 \in 1 .. 2
      BY <1>6
    <2>4. \A i \in 1 .. Len(h) : (v \o p)[i] = h[i]
      BY <1>3, <2>1, <2>2, <2>3
    <2>5. (v \o p)[Len(v) + 1] = a /\ (v \o p)[Len(v) + 2] = b
      BY <1>7, <2>2, <2>3
    <2> QED
      BY <1>7, <2>1, <2>2, <2>4, <2>5 DEF v
  <1>10. /\ s \in Seq(Byte) /\ Len(s) = Len(h) + Len(x) + 2 + Len(y)
         /\ \A i \in 1 .. Len(u) : s[i] = u[i]
         /\ \A i \in Int : i = Len(u) + 1 => SubSeq(s, i, Len(s)) = y
    <2>1. /\ u \o y \in Seq(Byte) /\ Len(u \o y) = Len(u) + Len(y)
          /\ \A i \in 1 .. Len(u) : (u \o y)[i] = u[i]
      BY Joint
    <2>2. \A i \in Int : i = Len(u) + 1 => SubSeq(u \o y, i, Len(u \o y)) = y
      BY Remainder
    <2> QED
      BY <1>9, <2>1, <2>2
  <1>11. \A i, j \in Int : i = Len(h) + 1 /\ j = Len(h) + Len(x) => SubSeq(s, i, j) = x
    <2>1. p \o y \in Seq(Byte)
      BY <1>7, Joint
    <2>2. s = (h \o x) \o (p \o y)
      <3>1. ((h \o x) \o p) \o y = (h \o x) \o (p \o y)
        <4> DEFINE hx == h \o x
        <4>1. hx \in Seq(Byte)
          BY <1>8
        <4> HIDE DEF hx
        <4>2. (hx \o p) \o y = hx \o (p \o y)
          BY ONLY <1>7, <4>1, y \in Seq(Byte), BytesAssoc
        <4> QED
          BY ONLY <4>2 DEF hx
      <3> QED
        BY ONLY <3>1
    <2> HIDE DEF s
    <2> TAKE i, j \in Int
    <2> HAVE i = Len(h) + 1 /\ j = Len(h) + Len(x)
    <2> DEFINE r == p \o y
    <2>3. r \in Seq(Byte) /\ h \in Seq(Byte)
      BY <1>6, <2>1
    <2> HIDE DEF r
    <2>4. SubSeq((h \o x) \o r, i, j) = x
      BY <2>3, BytesPiece
    <2> QED
      BY <2>2, <2>4 DEF r
  <1> HIDE DEF s
  <1>12. /\ s[3] = 0 /\ s[4] = k /\ HostFrom(s) = Len(h) + 1 /\ HostLen(s) = Len(x)
    <2>1. Len(h) \in Nat /\ Len(u) \in Nat /\ \A i \in 1 .. Len(h) : s[i] = h[i]
      <3>1. Len(h) \in Nat /\ Len(u) \in Nat
        BY <1>6
      <3>2. \A i \in 1 .. Len(h) : i \in 1 .. Len(u)
        BY <1>3, <1>9, <3>1
      <3> QED
        BY <1>9, <1>10, <3>1, <3>2
    <2>2. s[3] = 0 /\ s[4] = k /\ (k = 3 => s[5] = Len(x))
      <3>1. 3 \in 1 .. Len(h) /\ 4 \in 1 .. Len(h) /\ (k = 3 => 5 \in 1 .. Len(h))
        BY <1>6, <2>1
      <3> QED
        BY <1>6, <2>1, <3>1
    <2>3. HostFrom(s) = Len(h) + 1
      BY <1>6, <2>1, <2>2 DEF HostFrom
    <2>4. HostLen(s) = Len(x)
      BY <1>2, <2>2 DEF HostLen
    <2> QED
      BY <2>2, <2>3, <2>4
  <1>13. Len(h) \in Nat /\ Len(h) >= 4
    BY <1>6
  <1>14. Len(s) >= 10 => ParsePacket(s) = Read(m, <<>>)
    <2> HAVE Len(s) >= 10
    <2> DEFINE port == HostFrom(s) + HostLen(s)
    <2>1. port = Len(h) + Len(x) + 1 /\ port \in Int /\ port - 1 = Len(h) + Len(x)
      BY <1>3, <1>12, <1>13
    <2>2. ~(Len(s) < port + 1) /\ port + 2 = Len(u) + 1
      BY <1>3, <1>9, <1>10, <1>13, <2>1
    <2>3. U16(s, port) = n
      <3>1. s[port] = a /\ s[port + 1] = b
        <4>1. port \in 1 .. Len(u) /\ port + 1 \in 1 .. Len(u) /\ port + 1 = Len(h) + Len(x) + 2
          BY <1>3, <1>9, <1>13, <2>1
        <4> QED
          BY <1>9, <1>10, <2>1, <4>1
      <3> QED
        BY <1>4, <3>1 DEF U16
    <2>4. SubSeq(s, HostFrom(s), port - 1) = x
      BY <1>3, <1>11, <1>12, <1>13, <2>1
    <2>5. From(s, port + 2) = y
      <3>1. port + 2 \in Int
        BY <2>1
      <3> QED
        BY <1>10, <2>2, <3>1 DEF From
    <2> HIDE DEF port
    <2>6. ~(Len(s) < 10 \/ s[3] # 0 \/ s[4] \notin {1, 3, 4})
      BY <1>10, <1>12, <1>3, <1>13
    <2> QED
      BY <1>1, <1>12, <2>2, <2>3, <2>4, <2>5, <2>6 DEF ParsePacket, port
  <1>15. Len(s) < 10 => ParsePacket(s) = Cut
    BY DEF ParsePacket
  <1>16. Len(s) \in Nat /\ Len(s) > 0
    BY <1>3, <1>10, <1>13
  <1>17. s # <<>>
    BY <1>16
  <1> QED
    BY <1>5, <1>10, <1>14, <1>15, <1>16, <1>17
-----------------------------------------------------------------------------
(* The invariant of a stream: the messages u were written and are not read, *)
(* and after them the first bytes of one whose write failed.                *)

Accepted == {m \in StreamMessages : ~Refused(m)}
Enc == [m \in Accepted |-> Encoded(m)]

\* What a message is, k messages after the first.
KindAt(k) ==
  IF format = "replies" THEN "reply" ELSE IF k = 0 THEN "open" ELSE "chunk"

Kinds(s, k) == \A i \in 1 .. Len(s) : s[i].is = KindAt(k + i - 1)

Torn(part) ==
  /\ cut /\ todo # <<>> /\ ~Refused(Head(todo))
  /\ \E n \in 0 .. Len(Encoded(Head(todo))) - 1 : part = SubSeq(Encoded(Head(todo)), 1, n)

StreamAt(u, part) ==
  /\ read \in Seq(Accepted) /\ todo \in Seq(StreamMessages)
  /\ written = read \o u /\ wire = Joined(Enc, u) \o part
  /\ part # <<>> => Torn(part)
  /\ Kinds(u, Len(read)) /\ Kinds(todo, Len(written))
  /\ reader = "over" => u = <<>>

StreamInv == OnStream => \E u \in Seq(Accepted), part \in Seq(Byte) : StreamAt(u, part)

LEMMA EncMakes ==
  /\ Makes(Enc, Accepted, Byte)
  /\ \A m \in Accepted : Enc[m] = Encoded(m) /\ Encoded(m) \in Seq(Byte)
  BY MessageRead DEF Makes, Enc, Accepted

LEMMA EncJoined ==
  /\ \A u \in Seq(Accepted) : Joined(Enc, u) \in Seq(Byte)
  /\ Joined(Enc, <<>>) = <<>>
  /\ \A u \in Seq(Accepted) : \A m \in Accepted :
       Joined(Enc, Append(u, m)) = Joined(Enc, u) \o Encoded(m)
  /\ \A u \in Seq(Accepted) : u # <<>> =>
       /\ Head(u) \in Accepted /\ Tail(u) \in Seq(Accepted)
       /\ Joined(Enc, u) = Encoded(Head(u)) \o Joined(Enc, Tail(u))
  <1>1. \A u \in Seq(Accepted) : Joined(Enc, u) \in Seq(Byte)
    BY EncMakes, JoinedType
  <1>2. Joined(Enc, <<>>) = <<>>
    BY JoinedEmpty
  <1>3. ASSUME NEW u \in Seq(Accepted), NEW m \in Accepted
        PROVE  Joined(Enc, Append(u, m)) = Joined(Enc, u) \o Encoded(m)
    <2>1. Joined(Enc, Append(u, m)) = Joined(Enc, u) \o Enc[m]
      BY ONLY <1>3, EncMakes, JoinedAppend
    <2>2. Enc[m] = Encoded(m)
      BY EncMakes
    <2> QED
      BY ONLY <2>1, <2>2
  <1>4. ASSUME NEW u \in Seq(Accepted), u # <<>>
        PROVE  /\ Head(u) \in Accepted /\ Tail(u) \in Seq(Accepted)
               /\ Joined(Enc, u) = Encoded(Head(u)) \o Joined(Enc, Tail(u))
    <2>1. /\ Head(u) \in Accepted /\ Tail(u) \in Seq(Accepted)
          /\ Joined(Enc, u) = Enc[Head(u)] \o Joined(Enc, Tail(u))
      BY <1>4, EncMakes, JoinedHead
    <2>2. Enc[Head(u)] = Encoded(Head(u))
      BY <2>1, EncMakes
    <2> QED
      BY <2>1, <2>2
  <1> QED
    BY <1>1, <1>2, <1>3, <1>4

LEMMA DecodedAs ==
  ASSUME OnStream, NEW m, m.is = KindAt(Len(read)), Len(read) = 0 <=> read = <<>>
  PROVE  Decoded = ReadAs(m, wire)
  <1>1. format = "stream" \/ format = "replies"
    BY DEF OnStream
  <1>2. CASE format = "stream"
    <2>1. CASE read = <<>>
      <3>1. m.is = "open"
        BY <1>2, <2>1 DEF KindAt
      <3> QED
        BY <1>2, <2>1, <3>1 DEF Decoded, ReadAs
    <2>2. CASE read # <<>>
      <3>1. m.is = "chunk"
        BY <1>2, <2>2 DEF KindAt
      <3> QED
        BY <1>2, <2>2, <3>1 DEF Decoded, ReadAs
    <2> QED
      BY <2>1, <2>2
  <1>3. CASE format = "replies"
    <2>1. m.is = "reply"
      BY <1>3 DEF KindAt
    <2> QED
      BY <1>3, <2>1 DEF Decoded, ReadAs
  <1> QED
    BY <1>1, <1>2, <1>3

\* The reader gets the first message that is not read, or nothing.
LEMMA StreamDecoded ==
  ASSUME OnStream, NEW u \in Seq(Accepted), NEW part \in Seq(Byte), StreamAt(u, part)
  PROVE  /\ u # <<>> => Decoded = Read(Head(u), Joined(Enc, Tail(u)) \o part)
         /\ u = <<>> /\ wire # <<>> => Decoded = Cut
  <1>1. /\ read \in Seq(Accepted) /\ todo \in Seq(StreamMessages)
        /\ written = read \o u /\ wire = Joined(Enc, u) \o part
        /\ Kinds(u, Len(read)) /\ Kinds(todo, Len(written))
        /\ part # <<>> => Torn(part)
    BY DEF StreamAt
  <1>2. Len(read) \in Nat /\ (Len(read) = 0 <=> read = <<>>)
    BY <1>1
  <1>3. ASSUME u # <<>> PROVE Decoded = Read(Head(u), Joined(Enc, Tail(u)) \o part)
    <2> DEFINE m == Head(u)
               rest == Joined(Enc, Tail(u))
    <2>1. /\ m \in Accepted /\ Tail(u) \in Seq(Accepted)
          /\ Joined(Enc, u) = Encoded(m) \o rest /\ rest \in Seq(Byte)
      BY <1>3, EncJoined
    <2>2. m.is = KindAt(Len(read))
      <3>1. 1 \in 1 .. Len(u) /\ m = u[1] /\ Len(read) + 1 - 1 = Len(read)
        BY <1>2, <1>3
      <3> QED
        BY <1>1, <3>1 DEF Kinds
    <2> HIDE DEF m, rest
    <2>3. Decoded = ReadAs(m, wire)
      BY <1>2, <2>2, DecodedAs
    <2>4. m \in StreamMessages /\ ~Refused(m) /\ Encoded(m) \in Seq(Byte)
      BY <2>1, EncMakes DEF Accepted
    <2>5. wire = Encoded(m) \o (rest \o part)
      <3>1. (Encoded(m) \o rest) \o part = Encoded(m) \o (rest \o part)
        <4> DEFINE w == Encoded(m)
        <4>1. w \in Seq(Byte) /\ rest \in Seq(Byte)
          BY ONLY <2>1, <2>4
        <4> HIDE DEF w
        <4>2. (w \o rest) \o part = w \o (rest \o part)
          BY ONLY <4>1, part \in Seq(Byte), BytesAssoc
        <4> QED
          BY ONLY <4>2 DEF w
      <3> QED
        BY <1>1, <2>1, <3>1
    <2>6. rest \o part \in Seq(Byte)
      BY <2>1, BytesJoint
    <2>7. ReadAs(m, wire) = Read(m, rest \o part)
      BY <2>4, <2>5, <2>6, MessageRead
    <2> QED
      BY <2>3, <2>7 DEF m, rest
  <1>4. ASSUME u = <<>>, wire # <<>> PROVE Decoded = Cut
    <2>1. wire = part /\ written = read
      BY <1>1, <1>4, EncJoined, ConcatEmptySeq
    <2>2. PICK n \in 0 .. Len(Encoded(Head(todo))) - 1 : part = SubSeq(Encoded(Head(todo)), 1, n)
      BY <1>1, <1>4, <2>1 DEF Torn
    <2> DEFINE m == Head(todo)
    <2>3. todo # <<>> /\ ~Refused(m)
      BY <1>1, <1>4, <2>1 DEF Torn
    <2>4. m \in StreamMessages
      BY <1>1, <2>3
    <2>5. m.is = KindAt(Len(read))
      <3>1. 1 \in 1 .. Len(todo) /\ m = todo[1] /\ Len(read) + 1 - 1 = Len(read)
        BY <1>1, <1>2, <2>3
      <3> QED
        BY <1>1, <2>1, <3>1 DEF Kinds
    <2> HIDE DEF m
    <2>6. Decoded = ReadAs(m, wire)
      BY <1>2, <2>5, DecodedAs
    <2>7. ReadAs(m, SubSeq(Encoded(m), 1, n)) = Cut
      BY <2>2, <2>3, <2>4, MessageRead DEF m
    <2> QED
      BY <2>1, <2>2, <2>6, <2>7 DEF m
  <1> QED
    BY <1>3, <1>4

\* The kinds of the messages that are left, and of one more.
LEMMA KindsTail ==
  ASSUME NEW S, NEW s \in Seq(S), s # <<>>, NEW k \in Nat, Kinds(s, k)
  PROVE  Head(s).is = KindAt(k) /\ Kinds(Tail(s), k + 1)
  <1>1. /\ Len(s) \in Nat /\ 1 \in 1 .. Len(s) /\ Head(s) = s[1] /\ k + 1 - 1 = k
        /\ Len(Tail(s)) = Len(s) - 1 /\ \A i \in 1 .. Len(s) - 1 : Tail(s)[i] = s[i + 1]
    BY HeadTailProperties
  <1>2. ASSUME NEW i \in 1 .. Len(s) - 1 PROVE Tail(s)[i].is = KindAt(k + 1 + i - 1)
    <2>1. i + 1 \in 1 .. Len(s) /\ k + (i + 1) - 1 = k + 1 + i - 1
      BY <1>1
    <2>2. s[i + 1].is = KindAt(k + (i + 1) - 1)
      BY <2>1 DEF Kinds
    <2> QED
      BY <1>1, <2>1, <2>2
  <1> QED
    BY <1>1, <1>2 DEF Kinds

LEMMA KindsAppend ==
  ASSUME NEW S, NEW s \in Seq(S), NEW m \in S, NEW k \in Nat,
         Kinds(s, k), m.is = KindAt(k + Len(s))
  PROVE  Kinds(Append(s, m), k)
  <1>1. /\ Len(s) \in Nat /\ Len(Append(s, m)) = Len(s) + 1
        /\ \A i \in 1 .. Len(s) : Append(s, m)[i] = s[i]
        /\ Append(s, m)[Len(s) + 1] = m
    BY AppendProperties
  <1>2. ASSUME NEW i \in 1 .. Len(s) + 1 PROVE Append(s, m)[i].is = KindAt(k + i - 1)
    <2>1. CASE i \in 1 .. Len(s)
      BY <1>1, <2>1 DEF Kinds
    <2>2. CASE i = Len(s) + 1
      <3>1. k + i - 1 = k + Len(s)
        BY <1>1, <2>2
      <3> QED
        BY <1>1, <2>2, <3>1
    <2> QED
      BY <1>1, <2>1, <2>2
  <1> QED
    BY <1>1, <1>2 DEF Kinds

LEMMA StreamInit == FormatsInit => StreamInv
  <1> SUFFICES ASSUME FormatsInit, OnStream
               PROVE  \E u \in Seq(Accepted), part \in Seq(Byte) : StreamAt(u, part)
    BY DEF StreamInv
  <1>1. PICK c \in Conversations : format = c.format /\ todo = c.messages
    BY DEF FormatsInit
  <1>2. wire = <<>> /\ written = <<>> /\ read = <<>> /\ reader = "read"
    BY DEF FormatsInit
  <1>3. \/ /\ format = "stream" /\ todo \in Seq(OpenHeaders \cup DataChunks)
           /\ \A i \in DOMAIN todo : todo[i].is = "open" <=> i = 1
        \/ format = "replies" /\ todo \in Seq(UDPReplies)
    BY <1>1, ConversationsAssumption DEF OnStream
  <1>4. todo \in Seq(StreamMessages)
    <2>1. CASE todo \in Seq(OpenHeaders \cup DataChunks)
      <3>1. OpenHeaders \cup DataChunks \subseteq StreamMessages
        BY DEF StreamMessages
      <3> DEFINE A == OpenHeaders \cup DataChunks
      <3> HIDE DEF A
      <3> QED
        BY <2>1, <3>1 DEF A
    <2>2. CASE todo \in Seq(UDPReplies)
      <3>1. UDPReplies \subseteq StreamMessages
        BY DEF StreamMessages
      <3> QED
        BY <2>2, <3>1
    <2> QED
      BY <1>3, <2>1, <2>2
  <1>5. Kinds(todo, 0)
    <2> SUFFICES ASSUME NEW i \in 1 .. Len(todo) PROVE todo[i].is = KindAt(0 + i - 1)
      BY DEF Kinds
    <2>0. i \in DOMAIN todo /\ 0 + i - 1 = i - 1 /\ (i - 1 = 0 <=> i = 1)
      BY <1>4
    <2>1. CASE format = "replies"
      <3>1. todo[i] \in UDPReplies
        BY <1>3, <2>1
      <3>2. todo[i].is = "reply"
        BY <3>1 DEF UDPReplies
      <3> QED
        BY <2>1, <3>2 DEF KindAt
    <2>2. CASE format = "stream"
      <3> DEFINE A == OpenHeaders \cup DataChunks
      <3>1. todo \in Seq(A) /\ (todo[i].is = "open" <=> i = 1)
        BY <1>3, <2>0, <2>2
      <3> HIDE DEF A
      <3>2. todo[i] \in A
        BY <3>1
      <3>3. todo[i].is = "open" \/ todo[i].is = "chunk"
        BY <3>2 DEF A, OpenHeaders, DataChunks
      <3>4. todo[i].is = IF i = 1 THEN "open" ELSE "chunk"
        BY <3>1, <3>3
      <3> QED
        BY <2>0, <2>2, <3>4 DEF KindAt
    <2> QED
      BY <1>3, <2>1, <2>2
  <1>6. <<>> \in Seq(Accepted) /\ <<>> \in Seq(Byte) /\ Len(<<>>) = 0
    OBVIOUS
  <1>7. Joined(Enc, <<>>) \o <<>> = <<>> /\ <<>> \o <<>> = <<>>
    BY <1>6, EncJoined, ConcatEmptySeq
  <1>8. Kinds(<<>>, 0)
    BY DEF Kinds
  <1>9. StreamAt(<<>>, <<>>)
    BY <1>2, <1>4, <1>5, <1>6, <1>7, <1>8 DEF StreamAt
  <1> QED
    BY <1>6, <1>9

\* AppendConcat and ConcatAssoc, for the messages of a stream.
LEMMA AppendAccepted ==
  \A s, t \in Seq(Accepted) : \A m \in Accepted : Append(s \o t, m) = s \o Append(t, m)
  <1> TAKE s, t \in Seq(Accepted)
  <1> TAKE m \in Accepted
  <1>1. s \o t \in Seq(Accepted) /\ <<m>> \in Seq(Accepted)
    BY ConcatProperties
  <1>2. Append(s \o t, m) = (s \o t) \o <<m>> /\ Append(t, m) = t \o <<m>>
    BY <1>1, AppendIsConcat
  <1>3. (s \o t) \o <<m>> = s \o (t \o <<m>>)
    BY <1>1, ConcatAssoc
  <1> QED
    BY <1>2, <1>3

LEMMA ConcatAccepted ==
  \A s, t, u \in Seq(Accepted) : (s \o t) \o u = s \o (t \o u)
  BY ConcatAssoc

LEMMA StreamStep == StreamInv /\ [FormatsNext]_FormatsVars => StreamInv'
  <1> SUFFICES ASSUME StreamInv, [FormatsNext]_FormatsVars, OnStream'
               PROVE  \E u \in Seq(Accepted), part \in Seq(Byte) : StreamAt(u, part)'
    BY DEF StreamInv
  <1>0. format' = format
    BY DEF FormatsNext, FormatsVars, Write, Refuse, WriteFails, ReadNext, Skip, ReadFails
  <1>1. OnStream
    BY <1>0 DEF OnStream
  <1>2. PICK u \in Seq(Accepted), part \in Seq(Byte) : StreamAt(u, part)
    BY <1>1 DEF StreamInv
  <1>3. /\ read \in Seq(Accepted) /\ todo \in Seq(StreamMessages)
        /\ written = read \o u /\ wire = Joined(Enc, u) \o part
        /\ part # <<>> => Torn(part)
        /\ Kinds(u, Len(read)) /\ Kinds(todo, Len(written))
        /\ reader = "over" => u = <<>>
    BY <1>2 DEF StreamAt
  <1>4. written \in Seq(Accepted) /\ Len(read) \in Nat /\ Len(written) \in Nat
        /\ Len(written) = Len(read) + Len(u) /\ Joined(Enc, u) \in Seq(Byte)
    <2>1. read \o u \in Seq(Accepted) /\ Len(read \o u) = Len(read) + Len(u)
      BY ONLY <1>3, u \in Seq(Accepted), ConcatProperties
    <2>2. Len(read) \in Nat /\ Len(read \o u) \in Nat
      BY ONLY <1>3, <2>1
    <2>3. Joined(Enc, u) \in Seq(Byte)
      BY EncJoined
    <2> QED
      BY ONLY <1>3, <2>1, <2>2, <2>3
  <1>k. \A s, k : Kinds(s, k)' = Kinds(s, k)
    BY <1>0 DEF Kinds, KindAt
  <1>5. CASE Write
    <2>1. /\ todo # <<>> /\ ~cut /\ reader = "read" /\ ~Refused(Head(todo))
          /\ wire' = wire \o Encoded(Head(todo)) /\ written' = Append(written, Head(todo))
          /\ todo' = Tail(todo) /\ read' = read /\ reader' = reader /\ cut' = cut
      BY <1>1, <1>5 DEF Write, Ready
    <2>2. part = <<>>
      BY <1>3, <2>1 DEF Torn
    <2>3. PICK m \in Accepted : m = Head(todo)
      BY <1>3, <2>1 DEF Accepted
    <2>4. PICK v \in Seq(Accepted) : v = Append(u, m)
      BY AppendProperties
    <2>5. m.is = KindAt(Len(read) + Len(u)) /\ Kinds(Tail(todo), Len(written) + 1)
      BY <1>3, <1>4, <2>1, <2>3, KindsTail
    <2>6. Kinds(v, Len(read))
      BY <1>3, <1>4, <2>4, <2>5, KindsAppend
    <2>7. written' = read \o v /\ Len(written') = Len(written) + 1
      <3>1. Append(read \o u, m) = read \o Append(u, m)
        BY <1>3, AppendAccepted
      <3>2. written' = Append(written, m)
        BY <2>1, <2>3
      <3>3. Len(Append(written, m)) = Len(written) + 1
        BY <1>4, AppendProperties
      <3> QED
        BY <1>3, <2>4, <3>1, <3>2, <3>3
    <2>8. wire' = Joined(Enc, v) \o <<>>
      <3>1. Joined(Enc, v) = Joined(Enc, u) \o Encoded(m) /\ Joined(Enc, v) \in Seq(Byte)
        BY <2>3, <2>4, EncJoined
      <3>2. Joined(Enc, u) \o part = Joined(Enc, u) /\ Joined(Enc, v) \o <<>> = Joined(Enc, v)
        BY <1>4, <2>2, <3>1, ConcatEmptySeq
      <3> QED
        BY <1>3, <2>1, <2>3, <3>1, <3>2
    <2>9. Tail(todo) \in Seq(StreamMessages)
      BY <1>3, <2>1
    <2>10. StreamAt(v, <<>>)'
      BY <1>3, <1>k, <2>1, <2>5, <2>6, <2>7, <2>8, <2>9 DEF StreamAt
    <2>11. <<>> \in Seq(Byte)
      OBVIOUS
    <2> QED
      BY <2>10, <2>11
  <1>6. CASE Refuse
    <2>1. /\ ~cut /\ UNCHANGED <<format, todo, wire, written, read, reader>>
      BY <1>6 DEF Refuse, Ready
    <2>2. part = <<>>
      BY <1>3, <2>1 DEF Torn
    <2>3. StreamAt(u, part)'
      BY <1>3, <1>k, <2>1, <2>2 DEF StreamAt
    <2> QED
      BY <2>3
  <1>7. CASE WriteFails
    <2>1. /\ todo # <<>> /\ ~cut /\ cut' /\ ~Refused(Head(todo))
          /\ UNCHANGED <<format, todo, written, read, reader>>
      BY <1>1, <1>7 DEF WriteFails, Ready
    <2>2. PICK n \in 0 .. Len(Encoded(Head(todo))) - 1 :
            wire' = wire \o SubSeq(Encoded(Head(todo)), 1, n)
      BY <1>7 DEF WriteFails
    <2>3. part = <<>>
      BY <1>3, <2>1 DEF Torn
    <2>4. Head(todo) \in Accepted
      BY <1>3, <2>1 DEF Accepted
    <2>5. PICK q \in Seq(Byte) : q = SubSeq(Encoded(Head(todo)), 1, n)
      <3>1. Encoded(Head(todo)) \in Seq(Byte)
        BY <2>4, EncMakes
      <3>2. n \in 0 .. Len(Encoded(Head(todo)))
        BY <3>1
      <3> QED
        BY <3>1, <3>2, HeadPart
    <2>6. wire' = Joined(Enc, u) \o q
      BY <1>3, <1>4, <2>2, <2>3, <2>5, ConcatEmptySeq
    <2>7. Torn(q)'
      <3>1. Encoded(Head(todo))' = Encoded(Head(todo)) /\ Refused(Head(todo))' = Refused(Head(todo))
        BY <2>1
      <3> QED
        BY <2>1, <2>2, <2>5, <3>1 DEF Torn
    <2>8. StreamAt(u, q)'
      BY <1>3, <1>k, <2>1, <2>6, <2>7 DEF StreamAt
    <2> QED
      BY <2>8
  <1>8. CASE ReadNext
    <2>1. /\ reader = "read" /\ wire # <<>> /\ Decoded.ok
          /\ read' = Append(read, Decoded.value) /\ wire' = Decoded.rest
          /\ UNCHANGED <<format, todo, written, cut, reader>>
      BY <1>8 DEF ReadNext
    <2>2. u # <<>>
      <3>1. Decoded # Cut
        BY <2>1 DEF Cut
      <3> QED
        BY <1>1, <1>2, <2>1, <3>1, StreamDecoded
    <2>3. Decoded = Read(Head(u), Joined(Enc, Tail(u)) \o part)
      BY <1>1, <1>2, <2>2, StreamDecoded
    <2>4. PICK m \in Accepted, v \in Seq(Accepted) : m = Head(u) /\ v = Tail(u)
      BY <2>2, EncJoined
    <2>5. read' = Append(read, m) /\ wire' = Joined(Enc, v) \o part
      BY <2>1, <2>3, <2>4 DEF Read
    <2>6. read' \in Seq(Accepted) /\ Len(read') = Len(read) + 1
      BY <1>3, <2>5
    <2>7. Kinds(v, Len(read) + 1)
      BY <1>3, <1>4, <2>2, <2>4, KindsTail
    <2>8. written' = read' \o v
      <3>1. <<m>> \in Seq(Accepted) /\ <<m>> \o v = u
        BY <2>2, <2>4, HeadTailConcat
      <3>2. read' = read \o <<m>>
        BY <1>3, <2>5, AppendIsConcat
      <3>3. (read \o <<m>>) \o v = read \o (<<m>> \o v)
        BY <1>3, <3>1, ConcatAccepted
      <3> QED
        BY <1>3, <2>1, <3>1, <3>2, <3>3
    <2>9. part # <<>> => Torn(part)'
      BY <1>3, <2>1 DEF Torn
    <2>10. StreamAt(v, part)'
      BY <1>3, <1>k, <2>1, <2>5, <2>6, <2>7, <2>8, <2>9 DEF StreamAt
    <2> QED
      BY <2>10
  <1>9. CASE Skip
    BY <1>1, <1>9 DEF Skip, OnStream
  <1>10. CASE ReadFails
    <2>1. ~Decoded.ok /\ UNCHANGED <<format, todo, wire, written, read, cut>>
      BY <1>10 DEF ReadFails
    <2>2. u = <<>>
      <3>1. u # <<>> => Decoded.ok
        BY <1>1, <1>2, StreamDecoded DEF Read
      <3> QED
        BY <2>1, <3>1
    <2>3. part # <<>> => Torn(part)'
      BY <1>3, <2>1 DEF Torn
    <2>4. StreamAt(u, part)'
      BY <1>3, <1>k, <2>1, <2>2, <2>3 DEF StreamAt
    <2> QED
      BY <2>4
  <1>11. CASE UNCHANGED FormatsVars
    <2>1. UNCHANGED <<format, todo, wire, written, read, cut, reader>>
      BY <1>11 DEF FormatsVars
    <2>2. part # <<>> => Torn(part)'
      BY <1>3, <2>1 DEF Torn
    <2>3. StreamAt(u, part)'
      BY <1>3, <1>k, <2>1, <2>2 DEF StreamAt
    <2> QED
      BY <2>3
  <1> QED
    BY <1>5, <1>6, <1>7, <1>8, <1>9, <1>10, <1>11 DEF FormatsNext
-----------------------------------------------------------------------------
(* The invariant of the packets: the one on the way is the last written. *)

KeptOne == [m \in UDPPackets |-> IF Len(Encoded(m)) >= 10 THEN <<m>> ELSE <<>>]

PacketInv ==
  format = "packet" =>
    /\ todo \in Seq(UDPPackets) /\ written \in Seq(UDPPackets)
    /\ wire = <<>> => read = Joined(KeptOne, written)
    /\ wire # <<>> =>
         \E w \in Seq(UDPPackets), m \in UDPPackets :
           written = Append(w, m) /\ wire = BuildPacket(m) /\ read = Joined(KeptOne, w)

LEMMA PacketFacts ==
  /\ Makes(KeptOne, UDPPackets, UDPPackets)
  /\ \A m \in UDPPackets : Encoded(m) = BuildPacket(m)
  /\ \A w \in Seq(UDPPackets) : \A m \in UDPPackets :
       Joined(KeptOne, Append(w, m)) =
         Joined(KeptOne, w) \o (IF Len(BuildPacket(m)) >= 10 THEN <<m>> ELSE <<>>)
  <1>1. \A m \in UDPPackets : Encoded(m) = BuildPacket(m)
    <2> TAKE m \in UDPPackets
    <2>1. m.is = "packet"
      BY DEF UDPPackets
    <2> QED
      BY <2>1 DEF Encoded
  <1>2. Makes(KeptOne, UDPPackets, UDPPackets)
    BY DEF Makes, KeptOne
  <1>3. ASSUME NEW w \in Seq(UDPPackets), NEW m \in UDPPackets
        PROVE  Joined(KeptOne, Append(w, m)) =
                 Joined(KeptOne, w) \o (IF Len(BuildPacket(m)) >= 10 THEN <<m>> ELSE <<>>)
    <2>1. Joined(KeptOne, Append(w, m)) = Joined(KeptOne, w) \o KeptOne[m]
      BY <1>2, JoinedAppend
    <2>2. KeptOne[m] = IF Len(BuildPacket(m)) >= 10 THEN <<m>> ELSE <<>>
      BY <1>1 DEF KeptOne
    <2> QED
      BY <2>1, <2>2
  <1> QED
    BY <1>1, <1>2, <1>3

LEMMA PacketInit == FormatsInit => PacketInv
  <1> SUFFICES ASSUME FormatsInit, format = "packet"
               PROVE  /\ todo \in Seq(UDPPackets) /\ written = <<>> /\ wire = <<>>
                      /\ read = Joined(KeptOne, <<>>)
    BY DEF PacketInv
  <1>1. PICK c \in Conversations : format = c.format /\ todo = c.messages
    BY DEF FormatsInit
  <1>2. todo \in Seq(UDPPackets)
    BY <1>1, ConversationsAssumption
  <1> QED
    BY <1>2, JoinedEmpty DEF FormatsInit

LEMMA PacketStep == PacketInv /\ [FormatsNext]_FormatsVars => PacketInv'
  <1> SUFFICES ASSUME PacketInv, [FormatsNext]_FormatsVars, format' = "packet" PROVE PacketInv'
    BY DEF PacketInv
  <1>0. format = "packet"
    BY DEF FormatsNext, FormatsVars, Write, Refuse, WriteFails, ReadNext, Skip, ReadFails
  <1>1. /\ todo \in Seq(UDPPackets) /\ written \in Seq(UDPPackets)
        /\ wire = <<>> => read = Joined(KeptOne, written)
    BY <1>0 DEF PacketInv
  <1>2. ASSUME wire # <<>>
        PROVE  \E w \in Seq(UDPPackets), m \in UDPPackets :
                 written = Append(w, m) /\ wire = BuildPacket(m) /\ read = Joined(KeptOne, w)
    BY <1>0, <1>2 DEF PacketInv
  <1>3. CASE Write
    <2>1. /\ todo # <<>> /\ wire = <<>> /\ wire' = wire \o Encoded(Head(todo))
          /\ written' = Append(written, Head(todo)) /\ todo' = Tail(todo) /\ read' = read
      BY <1>0, <1>3 DEF Write, Ready, OnStream
    <2>2. PICK m \in UDPPackets : m = Head(todo)
      BY <1>1, <2>1
    <2>3. BuildPacket(m) \in Seq(Byte) /\ BuildPacket(m) # <<>> /\ Encoded(m) = BuildPacket(m)
      BY PacketRead, PacketFacts
    <2>4. wire' = BuildPacket(m)
      BY <2>1, <2>2, <2>3, ConcatEmptySeq
    <2>5. PICK w \in Seq(UDPPackets) : w = written
      BY <1>1
    <2>6. /\ todo' \in Seq(UDPPackets) /\ written' \in Seq(UDPPackets) /\ wire' # <<>>
          /\ written' = Append(w, m) /\ read' = Joined(KeptOne, w)
      BY <1>1, <2>1, <2>2, <2>3, <2>4, <2>5
    <2> QED
      BY <2>4, <2>6 DEF PacketInv
  <1>4. CASE Refuse
    BY <1>0, <1>4 DEF Refuse, OnStream
  <1>5. CASE WriteFails
    BY <1>0, <1>5 DEF WriteFails
  <1>6. ASSUME wire # <<>>
        PROVE  \E w \in Seq(UDPPackets), m \in UDPPackets :
                 /\ written = Append(w, m) /\ read = Joined(KeptOne, w)
                 /\ Decoded = IF Len(BuildPacket(m)) >= 10 THEN Read(m, <<>>) ELSE Cut
    <2>1. PICK w \in Seq(UDPPackets), m \in UDPPackets :
            written = Append(w, m) /\ wire = BuildPacket(m) /\ read = Joined(KeptOne, w)
      BY <1>2, <1>6
    <2>2. Decoded = ParsePacket(wire)
      BY <1>0 DEF Decoded
    <2> QED
      BY <2>1, <2>2, PacketRead
  <1>7. CASE ReadNext
    <2>1. /\ wire # <<>> /\ Decoded.ok
          /\ read' = Append(read, Decoded.value) /\ wire' = Decoded.rest
          /\ todo' = todo /\ written' = written
      BY <1>7 DEF ReadNext
    <2>2. PICK w \in Seq(UDPPackets), m \in UDPPackets :
            /\ written = Append(w, m) /\ read = Joined(KeptOne, w)
            /\ Decoded = IF Len(BuildPacket(m)) >= 10 THEN Read(m, <<>>) ELSE Cut
      BY <1>6, <2>1
    <2>3. Len(BuildPacket(m)) >= 10 /\ Decoded = Read(m, <<>>)
      BY <2>1, <2>2 DEF Cut
    <2>4. wire' = <<>> /\ read' = Append(read, m)
      BY <2>1, <2>3 DEF Read
    <2>5. read' = Joined(KeptOne, written)
      <3>1. Joined(KeptOne, w) \in Seq(UDPPackets)
        BY PacketFacts, JoinedType
      <3>2. Append(read, m) = read \o <<m>>
        BY <2>2, <3>1, AppendIsConcat
      <3> QED
        BY <2>2, <2>3, <2>4, <3>2, PacketFacts
    <2> QED
      BY <1>1, <2>1, <2>4, <2>5 DEF PacketInv
  <1>8. CASE Skip
    <2>1. wire # <<>> /\ ~Decoded.ok /\ wire' = <<>>
          /\ todo' = todo /\ written' = written /\ read' = read
      BY <1>8 DEF Skip
    <2>2. PICK w \in Seq(UDPPackets), m \in UDPPackets :
            /\ written = Append(w, m) /\ read = Joined(KeptOne, w)
            /\ Decoded = IF Len(BuildPacket(m)) >= 10 THEN Read(m, <<>>) ELSE Cut
      BY <1>6, <2>1
    <2>3. ~(Len(BuildPacket(m)) >= 10)
      BY <2>1, <2>2 DEF Read
    <2>4. read' = Joined(KeptOne, written)
      <3>1. Joined(KeptOne, w) \in Seq(UDPPackets)
        BY PacketFacts, JoinedType
      <3>2. Joined(KeptOne, w) \o <<>> = Joined(KeptOne, w)
        BY <3>1, ConcatEmptySeq
      <3> QED
        BY <2>1, <2>2, <2>3, <3>2, PacketFacts
    <2> QED
      BY <1>1, <2>1, <2>4 DEF PacketInv
  <1>9. CASE ReadFails
    BY <1>0, <1>9 DEF ReadFails
  <1>10. CASE UNCHANGED FormatsVars
    BY <1>10 DEF FormatsVars, PacketInv
  <1> QED
    BY <1>3, <1>4, <1>5, <1>7, <1>8, <1>9, <1>10 DEF FormatsNext

\* The formats keep the messages: every stream, of any length, cut anywhere, and
\* every packet.
THEOREM MessagesKeptCorrect == FormatsSpec => []MessagesKept
  <1> DEFINE Inv == StreamInv /\ PacketInv
  <1>1. FormatsInit => Inv
    BY StreamInit, PacketInit
  <1>2. Inv /\ [FormatsNext]_FormatsVars => Inv'
    BY StreamStep, PacketStep
  <1>3. Inv => MessagesKept
    <2> SUFFICES ASSUME StreamInv, PacketInv PROVE MessagesKept
      OBVIOUS
    <2>1. ASSUME OnStream PROVE IsPrefix(read, written) /\ (reader = "over" => read = written)
      <3>1. PICK u \in Seq(Accepted), part \in Seq(Byte) : StreamAt(u, part)
        BY <2>1 DEF StreamInv
      <3>2. read \in Seq(Accepted) /\ written = read \o u /\ (reader = "over" => u = <<>>)
        BY <3>1 DEF StreamAt
      <3>3. IsPrefix(read, written)
        BY <3>2, PrefixOfConcat
      <3>4. reader = "over" => read = written
        BY <3>2, ConcatEmptySeq
      <3> QED
        BY <3>3, <3>4
    <2>2. ASSUME format = "packet", wire = <<>>
          PROVE  read = FlattenSeq([i \in DOMAIN written |->
                          IF Len(Encoded(written[i])) >= 10 THEN <<written[i]>> ELSE <<>>])
      <3>1. written \in Seq(UDPPackets) /\ read = Joined(KeptOne, written)
        BY <2>2 DEF PacketInv
      <3>2. \A i \in DOMAIN written : written[i] \in UDPPackets
        BY <3>1
      <3>3. [i \in DOMAIN written |-> KeptOne[written[i]]] =
              [i \in DOMAIN written |->
                 IF Len(Encoded(written[i])) >= 10 THEN <<written[i]>> ELSE <<>>]
        BY <3>2 DEF KeptOne
      <3> QED
        BY <3>1, <3>3 DEF Joined
    <2> QED
      BY <2>1, <2>2 DEF MessagesKept
  <1> QED
    BY <1>1, <1>2, <1>3, PTL DEF FormatsSpec
-----------------------------------------------------------------------------
(* Answers of DNS: the walks of the parser *)

\* A walk over the first n numbers that goes forward ends.
LEMMA ForwardWalk ==
  ASSUME NEW n \in Nat, NEW Stop \in SUBSET Nat, NEW Val, NEW Succ \in [Nat \ Stop -> Nat],
         \A i \in Nat \ Stop : i < n /\ i < Succ[i]
  PROVE  \E f : TailRec(f, Nat, Stop, Val, Succ)
  <1> DEFINE Rank == [i \in Nat |-> IF i < n THEN n - i ELSE 0]
  <1>1. Rank \in [Nat -> Nat]
    OBVIOUS
  <1>2. \A i \in Nat \ Stop : Rank[Succ[i]] < Rank[i]
    <2> TAKE i \in Nat \ Stop
    <2>1. i \in Nat /\ Succ[i] \in Nat /\ i < n /\ i < Succ[i]
      OBVIOUS
    <2>2. Rank[i] = n - i /\ Rank[Succ[i]] = IF Succ[i] < n THEN n - Succ[i] ELSE 0
      BY <2>1
    <2> QED
      BY <2>1, <2>2
  <1> HIDE DEF Rank
  <1> QED
    BY <1>1, <1>2, TailRecursion

LabelsWalk(f, s) ==
  f = [i \in Nat |-> IF i >= Len(s) \/ s[i + 1] = 0 THEN i + 1 ELSE f[i + s[i + 1] + 1]]

LEMMA AfterLabelsDef ==
  ASSUME NEW s, NEW o
  PROVE  AfterLabels(s, o) = (CHOOSE f : LabelsWalk(f, s))[o]
  BY DEF AfterLabels, LabelsWalk

LEMMA BytesAt ==
  ASSUME NEW s \in Seq(Byte)
  PROVE  Len(s) \in Nat /\ \A i \in Nat : ~(i >= Len(s)) => s[i + 1] \in Byte /\ s[i + 1] \in Nat
  <1>1. Len(s) \in Nat
    OBVIOUS
  <1>2. \A i \in Nat : ~(i >= Len(s)) => i + 1 \in 1 .. Len(s)
    BY <1>1
  <1>3. \A i \in 1 .. Len(s) : s[i] \in Byte
    OBVIOUS
  <1>4. Byte \subseteq Nat
    BY ByteFacts
  <1> QED
    BY <1>1, <1>2, <1>3, <1>4

LEMMA LabelsStep ==
  ASSUME NEW s \in Seq(Byte)
  PROVE  \A o \in Nat :
           AfterLabels(s, o) =
             IF o >= Len(s) \/ s[o + 1] = 0 THEN o + 1 ELSE AfterLabels(s, o + s[o + 1] + 1)
  <1> DEFINE Stop == {i \in Nat : i >= Len(s) \/ s[i + 1] = 0}
             Val == [i \in Nat |-> i + 1]
             Succ == [i \in Nat \ Stop |-> i + s[i + 1] + 1]
  <1>1. /\ \A i \in Nat \ Stop : /\ i < Len(s) /\ s[i + 1] \in Nat
                                 /\ i + s[i + 1] + 1 \in Nat /\ i < i + s[i + 1] + 1
        /\ Len(s) \in Nat
    BY BytesAt
  <1>2. \E f : TailRec(f, Nat, Stop, Val, Succ)
    <2>1. Succ \in [Nat \ Stop -> Nat] /\ \A i \in Nat \ Stop : i < Len(s) /\ i < Succ[i]
      BY <1>1
    <2>2. Stop \in SUBSET Nat
      OBVIOUS
    <2> HIDE DEF Stop, Val, Succ
    <2> QED
      BY <1>1, <2>1, <2>2, ForwardWalk
  <1>3. PICK f : TailRec(f, Nat, Stop, Val, Succ)
    BY <1>2
  <1>4. LabelsWalk(f, s)
    <2>1. \A i \in Nat : (IF i \in Stop THEN Val[i] ELSE f[Succ[i]]) =
            IF i >= Len(s) \/ s[i + 1] = 0 THEN i + 1 ELSE f[i + s[i + 1] + 1]
      OBVIOUS
    <2> HIDE DEF Stop, Val, Succ
    <2> QED
      BY <1>3, <2>1 DEF LabelsWalk, TailRec
  <1> DEFINE g == CHOOSE h : LabelsWalk(h, s)
  <1>5. LabelsWalk(g, s)
    BY <1>4
  <1>6. \A o : AfterLabels(s, o) = g[o]
    BY AfterLabelsDef
  <1> HIDE DEF g
  <1> TAKE o \in Nat
  <1>7. g[o] = IF o >= Len(s) \/ s[o + 1] = 0 THEN o + 1 ELSE g[o + s[o + 1] + 1]
    BY <1>5 DEF LabelsWalk
  <1> QED
    BY <1>6, <1>7

\* A walk goes forward.
LEMMA LabelsForward ==
  ASSUME NEW s \in Seq(Byte)
  PROVE  \A o \in Nat : AfterLabels(s, o) \in Nat /\ AfterLabels(s, o) > o
  <1> DEFINE P == {n \in Nat : \A o \in Nat : Len(s) - o <= n =>
                     AfterLabels(s, o) \in Nat /\ AfterLabels(s, o) > o}
  <1>0. Len(s) \in Nat
    OBVIOUS
  <1>1. ASSUME NEW o \in Nat, o >= Len(s) PROVE AfterLabels(s, o) = o + 1
    BY <1>1, LabelsStep
  <1>2. 0 \in P
    BY <1>0, <1>1
  <1>3. ASSUME NEW n \in P PROVE n + 1 \in P
    <2> SUFFICES ASSUME NEW o \in Nat, Len(s) - o <= n + 1
                 PROVE  AfterLabels(s, o) \in Nat /\ AfterLabels(s, o) > o
      OBVIOUS
    <2>1. CASE o >= Len(s) \/ s[o + 1] = 0
      BY <2>1, LabelsStep
    <2>2. CASE ~(o >= Len(s) \/ s[o + 1] = 0)
      <3> DEFINE q == o + s[o + 1] + 1
      <3>1. q \in Nat /\ q > o /\ Len(s) - q <= n
        BY <1>0, <2>2, BytesAt
      <3>2. AfterLabels(s, q) \in Nat /\ AfterLabels(s, q) > q
        BY <3>1
      <3>3. AfterLabels(s, o) = AfterLabels(s, q)
        BY <2>2, LabelsStep
      <3> HIDE DEF q
      <3> QED
        BY <3>1, <3>2, <3>3
    <2> QED
      BY <2>1, <2>2
  <1>4. P = Nat
    <2> HIDE DEF P
    <2>1. P \in SUBSET Nat
      BY DEF P
    <2> QED
      BY <1>2, <1>3, <2>1, NatSetInduction
  <1> TAKE o \in Nat
  <1>5. Len(s) \in P /\ Len(s) - o <= Len(s)
    BY <1>0, <1>4
  <1> QED
    BY <1>5

\* The same of a walk over parameters, as EchOf makes it.
ParamWalk(f, data) ==
  f = [o \in Nat |->
        IF o + 4 > Len(data) \/ o + 4 + U16(data, o + 3) > Len(data) THEN Cut
        ELSE IF U16(data, o + 1) = EchKey
             THEN Read(SubSeq(data, o + 5, o + 4 + U16(data, o + 3)), <<>>)
             ELSE f[o + 4 + U16(data, o + 3)]]

ParamAt(data, o) == (CHOOSE f : ParamWalk(f, data))[o]

LEMMA EchOfDef ==
  ASSUME NEW data
  PROVE  EchOf(data) = IF Len(data) < 2 THEN Cut ELSE ParamAt(data, AfterLabels(data, 2))
  BY DEF EchOf, ParamAt, ParamWalk

LEMMA NumberAt ==
  ASSUME NEW s \in Seq(Byte)
  PROVE  \A i \in Int : 1 <= i /\ i + 1 <= Len(s) => U16(s, i) \in U16s /\ U16(s, i) \in Nat
  <1> TAKE i \in Int
  <1> HAVE 1 <= i /\ i + 1 <= Len(s)
  <1>1. i \in 1 .. Len(s) /\ i + 1 \in 1 .. Len(s)
    OBVIOUS
  <1>2. s[i] \in Byte /\ s[i + 1] \in Byte
    BY <1>1
  <1>3. U16(s, i) \in U16s
    BY <1>2, NumberOfBytes DEF U16
  <1> QED
    BY <1>3, ByteFacts

LEMMA ParamStep ==
  ASSUME NEW s \in Seq(Byte)
  PROVE  \A o \in Nat :
           ParamAt(s, o) =
             IF o + 4 > Len(s) \/ o + 4 + U16(s, o + 3) > Len(s) THEN Cut
             ELSE IF U16(s, o + 1) = EchKey
                  THEN Read(SubSeq(s, o + 5, o + 4 + U16(s, o + 3)), <<>>)
                  ELSE ParamAt(s, o + 4 + U16(s, o + 3))
  <1> DEFINE Ends(o) == o + 4 > Len(s) \/ o + 4 + U16(s, o + 3) > Len(s)
             Stop == {o \in Nat : Ends(o) \/ U16(s, o + 1) = EchKey}
             Val == [o \in Nat |-> IF Ends(o) THEN Cut
                       ELSE Read(SubSeq(s, o + 5, o + 4 + U16(s, o + 3)), <<>>)]
             Succ == [o \in Nat \ Stop |-> o + 4 + U16(s, o + 3)]
  <1>0. Len(s) \in Nat
    OBVIOUS
  <1>1. ASSUME NEW o \in Nat \ Stop
        PROVE  o < Len(s) /\ o + 4 + U16(s, o + 3) \in Nat /\ o < o + 4 + U16(s, o + 3)
    <2>1. ~(o + 4 > Len(s)) /\ o \in Nat
      OBVIOUS
    <2>2. U16(s, o + 3) \in Nat
      BY <1>0, <2>1, NumberAt
    <2> QED
      BY <1>0, <2>1, <2>2
  <1>2. \E f : TailRec(f, Nat, Stop, Val, Succ)
    <2>1. Succ \in [Nat \ Stop -> Nat] /\ \A i \in Nat \ Stop : i < Len(s) /\ i < Succ[i]
      BY <1>1
    <2>2. Stop \in SUBSET Nat
      OBVIOUS
    <2> HIDE DEF Stop, Val, Succ
    <2> QED
      BY <1>0, <2>1, <2>2, ForwardWalk
  <1>3. PICK f : TailRec(f, Nat, Stop, Val, Succ)
    BY <1>2
  <1>4. ParamWalk(f, s)
    <2>1. \A o \in Nat : (IF o \in Stop THEN Val[o] ELSE f[Succ[o]]) =
            IF Ends(o) THEN Cut
            ELSE IF U16(s, o + 1) = EchKey
                 THEN Read(SubSeq(s, o + 5, o + 4 + U16(s, o + 3)), <<>>)
                 ELSE f[o + 4 + U16(s, o + 3)]
      <3> HIDE DEF Ends
      <3> QED
        OBVIOUS
    <2> HIDE DEF Stop, Val, Succ
    <2> QED
      BY <1>3, <2>1 DEF ParamWalk, TailRec
  <1> DEFINE g == CHOOSE h : ParamWalk(h, s)
  <1>5. ParamWalk(g, s)
    BY <1>4
  <1>6. \A o : ParamAt(s, o) = g[o]
    BY DEF ParamAt
  <1> HIDE DEF g
  <1> TAKE o \in Nat
  <1>7. g[o] = IF o + 4 > Len(s) \/ o + 4 + U16(s, o + 3) > Len(s) THEN Cut
               ELSE IF U16(s, o + 1) = EchKey
                    THEN Read(SubSeq(s, o + 5, o + 4 + U16(s, o + 3)), <<>>)
                    ELSE g[o + 4 + U16(s, o + 3)]
    BY <1>5 DEF ParamWalk
  <1> QED
    BY <1>6, <1>7

\* The walk over the question's name, from any offset.
PointsOut(s, i) == i + 2 > Len(s) \/ U16(s, i + 1) % (Limit \div 4) >= Len(s)

QuestionWalk(f, s) ==
  f = [i \in Nat |->
        IF i >= Len(s) THEN i
        ELSE IF s[i + 1] = 0 THEN i + 1
        ELSE IF IsPointer(s[i + 1]) THEN IF PointsOut(s, i) THEN -1 ELSE i + 2
        ELSE f[i + s[i + 1] + 1]]

QuestionEnd(s, i) == (CHOOSE f : QuestionWalk(f, s))[i]

LEMMA AfterQuestionDef ==
  ASSUME NEW s
  PROVE  AfterQuestionName(s) = QuestionEnd(s, 12)
  BY DEF AfterQuestionName, QuestionEnd, QuestionWalk, PointsOut

LEMMA QuestionStep ==
  ASSUME NEW s \in Seq(Byte)
  PROVE  \A o \in Nat :
           QuestionEnd(s, o) =
             IF o >= Len(s) THEN o
             ELSE IF s[o + 1] = 0 THEN o + 1
             ELSE IF IsPointer(s[o + 1]) THEN IF PointsOut(s, o) THEN -1 ELSE o + 2
             ELSE QuestionEnd(s, o + s[o + 1] + 1)
  <1> DEFINE Stop == {i \in Nat : i >= Len(s) \/ s[i + 1] = 0 \/ IsPointer(s[i + 1])}
             Val == [i \in Nat |-> IF i >= Len(s) THEN i ELSE IF s[i + 1] = 0 THEN i + 1
                       ELSE IF PointsOut(s, i) THEN -1 ELSE i + 2]
             Succ == [i \in Nat \ Stop |-> i + s[i + 1] + 1]
  <1>1. /\ \A i \in Nat \ Stop : /\ i < Len(s) /\ s[i + 1] \in Nat
                                 /\ i + s[i + 1] + 1 \in Nat /\ i < i + s[i + 1] + 1
        /\ Len(s) \in Nat
    BY BytesAt
  <1>2. \E f : TailRec(f, Nat, Stop, Val, Succ)
    <2>1. Succ \in [Nat \ Stop -> Nat] /\ \A i \in Nat \ Stop : i < Len(s) /\ i < Succ[i]
      BY <1>1
    <2>2. Stop \in SUBSET Nat
      OBVIOUS
    <2> HIDE DEF Stop, Val, Succ
    <2> QED
      BY <1>1, <2>1, <2>2, ForwardWalk
  <1>3. PICK f : TailRec(f, Nat, Stop, Val, Succ)
    BY <1>2
  <1>4. QuestionWalk(f, s)
    <2>1. \A i \in Nat : (IF i \in Stop THEN Val[i] ELSE f[Succ[i]]) =
            IF i >= Len(s) THEN i
            ELSE IF s[i + 1] = 0 THEN i + 1
            ELSE IF IsPointer(s[i + 1]) THEN IF PointsOut(s, i) THEN -1 ELSE i + 2
            ELSE f[i + s[i + 1] + 1]
      OBVIOUS
    <2> HIDE DEF Stop, Val, Succ
    <2> QED
      BY <1>3, <2>1 DEF QuestionWalk, TailRec
  <1> DEFINE g == CHOOSE h : QuestionWalk(h, s)
  <1>5. QuestionWalk(g, s)
    BY <1>4
  <1>6. \A o : QuestionEnd(s, o) = g[o]
    BY DEF QuestionEnd
  <1> HIDE DEF g
  <1> TAKE o \in Nat
  <1>7. g[o] = IF o >= Len(s) THEN o
               ELSE IF s[o + 1] = 0 THEN o + 1
               ELSE IF IsPointer(s[o + 1]) THEN IF PointsOut(s, o) THEN -1 ELSE o + 2
               ELSE g[o + s[o + 1] + 1]
    BY <1>5 DEF QuestionWalk
  <1> QED
    BY <1>6, <1>7

\* The records, k of them from offset o.  f is the offset after a record's name.
TornRecord(s, f) == f = -1 \/ f + 10 > Len(s) \/ f + 10 + U16(s, f + 9) > Len(s)
EchAt(s, f) == EchOf(SubSeq(s, f + 11, f + 10 + U16(s, f + 9)))

RecordWalk(g, s) ==
  g = [k \in Nat |-> [o \in Nat |->
        IF k = 0 \/ o >= Len(s) THEN Cut
        ELSE IF TornRecord(s, AfterName(s, o)) THEN Cut
        ELSE IF Wanted(U16(s, AfterName(s, o) + 1), EchAt(s, AfterName(s, o)))
             THEN EchAt(s, AfterName(s, o))
             ELSE g[k - 1][AfterName(s, o) + 10 + U16(s, AfterName(s, o) + 9)]]]

RecordAt(s, k, o) == (CHOOSE g : RecordWalk(g, s))[k][o]

LEMMA ParseResponseDef ==
  ASSUME NEW s
  PROVE  ParseResponse(s) =
           IF Len(s) < 12 \/ U16(s, 7) = 0 \/ AfterQuestionName(s) = -1
                \/ AfterQuestionName(s) + 4 > Len(s)
           THEN Cut ELSE RecordAt(s, U16(s, 7), AfterQuestionName(s) + 4)
  BY DEF ParseResponse, RecordAt, RecordWalk, TornRecord, EchAt

LEMMA NameForward ==
  ASSUME NEW s \in Seq(Byte)
  PROVE  \A o \in Nat : AfterName(s, o) = -1 \/ (AfterName(s, o) \in Nat /\ AfterName(s, o) > o)
  <1> TAKE o \in Nat
  <1>1. AfterLabels(s, o) \in Nat /\ AfterLabels(s, o) > o
    BY LabelsForward
  <1>2. AfterName(s, o) \in {-1, o + 2, AfterLabels(s, o)}
    BY DEF AfterName
  <1> QED
    BY <1>1, <1>2

LEMMA RecordStep ==
  ASSUME NEW s \in Seq(Byte)
  PROVE  \A k \in Nat : \A o \in Nat :
           RecordAt(s, k, o) =
             IF k = 0 \/ o >= Len(s) THEN Cut
             ELSE IF TornRecord(s, AfterName(s, o)) THEN Cut
             ELSE IF Wanted(U16(s, AfterName(s, o) + 1), EchAt(s, AfterName(s, o)))
                  THEN EchAt(s, AfterName(s, o))
                  ELSE RecordAt(s, k - 1, AfterName(s, o) + 10 + U16(s, AfterName(s, o) + 9))
  <1> DEFINE D == Nat \X Nat
             Ends(k, o) == k = 0 \/ o >= Len(s) \/ TornRecord(s, AfterName(s, o))
             Done(o) == Wanted(U16(s, AfterName(s, o) + 1), EchAt(s, AfterName(s, o)))
             To(o) == AfterName(s, o) + 10 + U16(s, AfterName(s, o) + 9)
             Stop == {x \in D : Ends(x[1], x[2]) \/ Done(x[2])}
             Val == [x \in D |-> IF Ends(x[1], x[2]) THEN Cut ELSE EchAt(s, AfterName(s, x[2]))]
             Succ == [x \in D \ Stop |-> <<x[1] - 1, To(x[2])>>]
             Rank == [x \in D |-> x[1]]
  <1>0. Len(s) \in Nat
    OBVIOUS
  <1>1. ASSUME NEW k \in Nat, NEW o \in Nat, ~Ends(k, o)
        PROVE  k - 1 \in Nat /\ k - 1 < k /\ To(o) \in Nat
    <2>1. k # 0 /\ ~TornRecord(s, AfterName(s, o))
      BY <1>1
    <2> DEFINE f == AfterName(s, o)
    <2>2. f # -1 /\ ~(f + 10 > Len(s))
      BY <2>1 DEF TornRecord
    <2>3. f \in Nat
      BY <2>2, NameForward
    <2> HIDE DEF f
    <2>4. U16(s, f + 9) \in Nat
      BY <1>0, <2>2, <2>3, NumberAt
    <2>5. f + 10 + U16(s, f + 9) \in Nat
      BY <2>3, <2>4
    <2> QED
      BY <2>1, <2>5 DEF f
  <1> HIDE DEF Ends, Done, To
  <1>2. \A x \in D \ Stop : /\ x[1] \in Nat /\ x[2] \in Nat /\ x[1] - 1 \in Nat
                            /\ x[1] - 1 < x[1] /\ To(x[2]) \in Nat
    <2> TAKE x \in D \ Stop
    <2>1. x[1] \in Nat /\ x[2] \in Nat /\ ~Ends(x[1], x[2])
      OBVIOUS
    <2> QED
      BY <1>1, <2>1
  <1>3. \E f : TailRec(f, D, Stop, Val, Succ)
    <2>1. Stop \in SUBSET D /\ Rank \in [D -> Nat]
      OBVIOUS
    <2>2. Succ \in [D \ Stop -> D]
      BY <1>2
    <2>3. \A x \in D \ Stop : Rank[Succ[x]] < Rank[x]
      <3> TAKE x \in D \ Stop
      <3>1. Succ[x] = <<x[1] - 1, To(x[2])>> /\ Succ[x] \in D
        BY <1>2
      <3>2. Rank[Succ[x]] = x[1] - 1 /\ Rank[x] = x[1]
        BY <3>1
      <3> QED
        BY <1>2, <3>2
    <2> HIDE DEF D, Stop, Val, Succ, Rank
    <2> QED
      BY <2>1, <2>2, <2>3, TailRecursion
  <1>4. PICK f : TailRec(f, D, Stop, Val, Succ)
    BY <1>3
  <1>5. ASSUME NEW k \in Nat, NEW o \in Nat
        PROVE  f[<<k, o>>] = IF Ends(k, o) THEN Cut
                             ELSE IF Done(o) THEN EchAt(s, AfterName(s, o))
                             ELSE f[<<k - 1, To(o)>>]
    <2> DEFINE x == <<k, o>>
    <2>1. x \in D /\ x[1] = k /\ x[2] = o
      OBVIOUS
    <2>2. x \in Stop <=> Ends(k, o) \/ Done(o)
      BY <2>1
    <2>3. Val[x] = IF Ends(k, o) THEN Cut ELSE EchAt(s, AfterName(s, o))
      BY <2>1
    <2>4. x \notin Stop => Succ[x] = <<k - 1, To(o)>>
      BY <2>1
    <2> HIDE DEF x, D, Stop, Val, Succ
    <2>5. f[x] = IF x \in Stop THEN Val[x] ELSE f[Succ[x]]
      BY <1>4, <2>1 DEF TailRec
    <2> QED
      BY <2>2, <2>3, <2>4, <2>5 DEF x
  <1> DEFINE G == [k \in Nat |-> [o \in Nat |-> f[<<k, o>>]]]
  <1>6. ASSUME NEW k \in Nat, NEW o \in Nat
        PROVE  G[k][o] = IF Ends(k, o) THEN Cut
                         ELSE IF Done(o) THEN EchAt(s, AfterName(s, o))
                         ELSE G[k - 1][To(o)]
    <2>1. G[k][o] = f[<<k, o>>]
      OBVIOUS
    <2>2. ASSUME ~Ends(k, o) PROVE G[k - 1][To(o)] = f[<<k - 1, To(o)>>]
      BY <1>1, <2>2
    <2> HIDE DEF G
    <2> QED
      BY <1>5, <2>1, <2>2
  <1>7. RecordWalk(G, s)
    <2>1. \A k \in Nat : \A o \in Nat :
            G[k][o] =
              IF k = 0 \/ o >= Len(s) THEN Cut
              ELSE IF TornRecord(s, AfterName(s, o)) THEN Cut
              ELSE IF Wanted(U16(s, AfterName(s, o) + 1), EchAt(s, AfterName(s, o)))
                   THEN EchAt(s, AfterName(s, o))
                   ELSE G[k - 1][AfterName(s, o) + 10 + U16(s, AfterName(s, o) + 9)]
      <3> HIDE DEF G
      <3> QED
        BY <1>6 DEF Ends, Done, To
    <2>2. G = [k \in Nat |-> [o \in Nat |-> G[k][o]]]
      OBVIOUS
    <2> HIDE DEF G
    <2>3. [k \in Nat |-> [o \in Nat |-> G[k][o]]] =
            [k \in Nat |-> [o \in Nat |->
              IF k = 0 \/ o >= Len(s) THEN Cut
              ELSE IF TornRecord(s, AfterName(s, o)) THEN Cut
              ELSE IF Wanted(U16(s, AfterName(s, o) + 1), EchAt(s, AfterName(s, o)))
                   THEN EchAt(s, AfterName(s, o))
                   ELSE G[k - 1][AfterName(s, o) + 10 + U16(s, AfterName(s, o) + 9)]]]
      BY <2>1
    <2> QED
      BY <2>2, <2>3 DEF RecordWalk
  <1> DEFINE h == CHOOSE g : RecordWalk(g, s)
  <1>8. RecordWalk(h, s)
    <2> HIDE DEF G
    <2> QED
      BY <1>7
  <1>9. \A k, o : RecordAt(s, k, o) = h[k][o]
    BY DEF RecordAt
  <1> HIDE DEF h
  <1> TAKE k \in Nat
  <1> TAKE o \in Nat
  <1>10. h[k][o] =
           IF k = 0 \/ o >= Len(s) THEN Cut
           ELSE IF TornRecord(s, AfterName(s, o)) THEN Cut
           ELSE IF Wanted(U16(s, AfterName(s, o) + 1), EchAt(s, AfterName(s, o)))
                THEN EchAt(s, AfterName(s, o))
                ELSE h[k - 1][AfterName(s, o) + 10 + U16(s, AfterName(s, o) + 9)]
    <2> DEFINE e(i) == [j \in Nat |->
          IF i = 0 \/ j >= Len(s) THEN Cut
          ELSE IF TornRecord(s, AfterName(s, j)) THEN Cut
          ELSE IF Wanted(U16(s, AfterName(s, j) + 1), EchAt(s, AfterName(s, j)))
               THEN EchAt(s, AfterName(s, j))
               ELSE h[i - 1][AfterName(s, j) + 10 + U16(s, AfterName(s, j) + 9)]]
    <2>1. h = [i \in Nat |-> e(i)]
      BY <1>8 DEF RecordWalk
    <2> HIDE DEF e
    <2>2. h[k] = e(k)
      BY <2>1
    <2> QED
      BY <2>2 DEF e
  <1> QED
    BY <1>9, <1>10

\* t is the first part of s.
PartOf(t, s) == Len(t) <= Len(s) /\ \A i \in 1 .. Len(t) : t[i] = s[i]

LEMMA PartBytes ==
  ASSUME NEW s \in Seq(Byte), NEW t \in Seq(Byte), PartOf(t, s)
  PROVE  /\ Len(s) \in Nat /\ Len(t) \in Nat /\ Len(t) <= Len(s)
         /\ \A i \in Nat : ~(i >= Len(t)) => ~(i >= Len(s)) /\ t[i + 1] = s[i + 1]
         /\ \A i \in Int : 1 <= i /\ i + 1 <= Len(t) => U16(t, i) = U16(s, i)
  <1>1. Len(s) \in Nat /\ Len(t) \in Nat /\ Len(t) <= Len(s)
    BY DEF PartOf
  <1>2. ASSUME NEW i \in Nat, ~(i >= Len(t)) PROVE ~(i >= Len(s)) /\ t[i + 1] = s[i + 1]
    <2>1. i + 1 \in 1 .. Len(t) /\ ~(i >= Len(s))
      BY <1>1, <1>2
    <2> QED
      BY <2>1 DEF PartOf
  <1>3. ASSUME NEW i \in Int, 1 <= i, i + 1 <= Len(t) PROVE U16(t, i) = U16(s, i)
    <2>1. i \in 1 .. Len(t) /\ i + 1 \in 1 .. Len(t)
      BY <1>1, <1>3
    <2>2. t[i] = s[i] /\ t[i + 1] = s[i + 1]
      BY <2>1 DEF PartOf
    <2> QED
      BY <2>2 DEF U16
  <1> QED
    BY <1>1, <1>2, <1>3

\* A name ends in the part where it ends in the whole, or past the part.
LEMMA LabelsPart ==
  ASSUME NEW s \in Seq(Byte), NEW t \in Seq(Byte), PartOf(t, s)
  PROVE  \A o \in Nat : AfterLabels(t, o) = AfterLabels(s, o) \/ AfterLabels(t, o) > Len(t)
  <1> DEFINE Good(o) == AfterLabels(t, o) = AfterLabels(s, o) \/ AfterLabels(t, o) > Len(t)
             P == {n \in Nat : \A o \in Nat : Len(t) - o <= n => Good(o)}
  <1>0. Len(t) \in Nat
    OBVIOUS
  <1>1. ASSUME NEW o \in Nat, o >= Len(t) PROVE Good(o)
    <2>1. AfterLabels(t, o) = o + 1
      BY <1>1, LabelsStep
    <2> QED
      BY <1>0, <1>1, <2>1
  <1>2. 0 \in P
    BY <1>0, <1>1
  <1>3. ASSUME NEW n \in P PROVE n + 1 \in P
    <2> SUFFICES ASSUME NEW o \in Nat, Len(t) - o <= n + 1 PROVE Good(o)
      OBVIOUS
    <2>1. CASE o >= Len(t)
      BY <1>1, <2>1
    <2>2. CASE ~(o >= Len(t))
      <3>1. ~(o >= Len(s)) /\ t[o + 1] = s[o + 1] /\ t[o + 1] \in Nat
        BY <2>2, PartBytes, BytesAt
      <3>2. CASE t[o + 1] = 0
        <4>1. AfterLabels(t, o) = o + 1 /\ AfterLabels(s, o) = o + 1
          BY <3>1, <3>2, LabelsStep
        <4> QED
          BY <4>1
      <3>3. CASE t[o + 1] # 0
        <4> DEFINE q == o + t[o + 1] + 1
        <4>1. q \in Nat /\ Len(t) - q <= n
          BY <1>0, <2>2, <3>1, <3>3
        <4>2. AfterLabels(t, o) = AfterLabels(t, q)
          BY <2>2, <3>3, LabelsStep
        <4>3. AfterLabels(s, o) = AfterLabels(s, q)
          BY <3>1, <3>3, LabelsStep
        <4>4. Good(q)
          BY <4>1
        <4> HIDE DEF q
        <4> QED
          BY <4>2, <4>3, <4>4
      <3> QED
        BY <3>2, <3>3
    <2> QED
      BY <2>1, <2>2
  <1>4. P = Nat
    <2> HIDE DEF P
    <2>1. P \in SUBSET Nat
      BY DEF P
    <2> QED
      BY <1>2, <1>3, <2>1, NatSetInduction
  <1> TAKE o \in Nat
  <1>5. Len(t) \in P /\ Len(t) - o <= Len(t)
    BY <1>0, <1>4
  <1> QED
    BY <1>5

\* A pointer that is good in the part is good in the whole.
LEMMA PointerPart ==
  ASSUME NEW s \in Seq(Byte), NEW t \in Seq(Byte), PartOf(t, s)
  PROVE  \A o \in Nat : ~PointsOut(t, o) => ~PointsOut(s, o)
  <1> SUFFICES ASSUME NEW o \in Nat, ~PointsOut(t, o) PROVE ~PointsOut(s, o)
    OBVIOUS
  <1>0. Len(t) \in Nat /\ Len(s) \in Nat /\ Len(t) <= Len(s)
    BY PartBytes
  <1>1. ~(o + 2 > Len(t)) /\ ~(U16(t, o + 1) % (Limit \div 4) >= Len(t))
    BY DEF PointsOut
  <1>2. U16(t, o + 1) = U16(s, o + 1) /\ U16(t, o + 1) \in Nat
    BY <1>0, <1>1, PartBytes, NumberAt
  <1>3. U16(t, o + 1) % (Limit \div 4) \in Int
    <2>1. Limit \in Nat /\ Limit >= 256
      BY ByteFacts
    <2>2. Limit \div 4 \in Nat /\ Limit \div 4 > 0
      BY <2>1
    <2> QED
      BY <1>2, <2>2
  <1> QED
    BY <1>0, <1>1, <1>2, <1>3 DEF PointsOut

\* So does the question's name, unless it cannot be read in the part.
LEMMA QuestionPart ==
  ASSUME NEW s \in Seq(Byte), NEW t \in Seq(Byte), PartOf(t, s)
  PROVE  \A o \in Nat :
           \/ QuestionEnd(t, o) = -1
           \/ QuestionEnd(t, o) \in Nat /\ QuestionEnd(t, o) >= Len(t)
           \/ QuestionEnd(t, o) \in Nat /\ QuestionEnd(t, o) = QuestionEnd(s, o)
  <1> DEFINE Good(o) == \/ QuestionEnd(t, o) = -1
                        \/ QuestionEnd(t, o) \in Nat /\ QuestionEnd(t, o) >= Len(t)
                        \/ QuestionEnd(t, o) \in Nat /\ QuestionEnd(t, o) = QuestionEnd(s, o)
             P == {n \in Nat : \A o \in Nat : Len(t) - o <= n => Good(o)}
  <1>0. Len(t) \in Nat /\ Len(s) \in Nat /\ Len(t) <= Len(s)
    BY PartBytes
  <1>1. ASSUME NEW o \in Nat, o >= Len(t) PROVE Good(o)
    <2>1. QuestionEnd(t, o) = o
      BY <1>1, QuestionStep
    <2> QED
      BY <1>0, <1>1, <2>1
  <1>2. 0 \in P
    BY <1>0, <1>1
  <1>3. ASSUME NEW n \in P PROVE n + 1 \in P
    <2> SUFFICES ASSUME NEW o \in Nat, Len(t) - o <= n + 1 PROVE Good(o)
      OBVIOUS
    <2>1. CASE o >= Len(t)
      BY <1>1, <2>1
    <2>2. CASE ~(o >= Len(t))
      <3>1. ~(o >= Len(s)) /\ t[o + 1] = s[o + 1] /\ t[o + 1] \in Nat
        BY <2>2, PartBytes, BytesAt
      <3>2. CASE t[o + 1] = 0
        <4>1. QuestionEnd(t, o) = o + 1 /\ QuestionEnd(s, o) = o + 1
          BY <2>2, <3>1, <3>2, QuestionStep
        <4> QED
          BY <4>1
      <3>3. CASE t[o + 1] # 0 /\ IsPointer(t[o + 1])
        <4>1. QuestionEnd(t, o) = IF PointsOut(t, o) THEN -1 ELSE o + 2
          BY <2>2, <3>3, QuestionStep
        <4>2. QuestionEnd(s, o) = IF PointsOut(s, o) THEN -1 ELSE o + 2
          BY <3>1, <3>3, QuestionStep
        <4>3. ~PointsOut(t, o) => ~PointsOut(s, o)
          BY PointerPart
        <4> QED
          BY <4>1, <4>2, <4>3
      <3>4. CASE t[o + 1] # 0 /\ ~IsPointer(t[o + 1])
        <4> DEFINE q == o + t[o + 1] + 1
        <4>1. q \in Nat /\ Len(t) - q <= n
          BY <1>0, <2>2, <3>1, <3>4
        <4>2. QuestionEnd(t, o) = QuestionEnd(t, q)
          BY <2>2, <3>4, QuestionStep
        <4>3. QuestionEnd(s, o) = QuestionEnd(s, q)
          BY <3>1, <3>4, QuestionStep
        <4>4. Good(q)
          BY <4>1
        <4> HIDE DEF q
        <4> QED
          BY <4>2, <4>3, <4>4
      <3> QED
        BY <3>2, <3>3, <3>4
    <2> QED
      BY <2>1, <2>2
  <1>4. P = Nat
    <2> HIDE DEF P
    <2>1. P \in SUBSET Nat
      BY DEF P
    <2> QED
      BY <1>2, <1>3, <2>1, NatSetInduction
  <1> TAKE o \in Nat
  <1>5. Len(t) \in P /\ Len(t) - o <= Len(t)
    BY <1>0, <1>4
  <1> QED
    BY <1>5

LEMMA NamePart ==
  ASSUME NEW s \in Seq(Byte), NEW t \in Seq(Byte), PartOf(t, s), NEW o \in Nat, o < Len(t)
  PROVE  AfterName(t, o) = AfterName(s, o) \/ AfterName(t, o) = -1 \/ AfterName(t, o) > Len(t)
  <1>0. Len(t) \in Nat /\ Len(s) \in Nat /\ Len(t) <= Len(s)
    BY PartBytes
  <1>1. t[o + 1] = s[o + 1]
    BY <1>0, PartBytes
  <1>2. CASE ~IsPointer(t[o + 1])
    <2>1. AfterName(t, o) = AfterLabels(t, o) /\ AfterName(s, o) = AfterLabels(s, o)
      BY <1>1, <1>2 DEF AfterName
    <2> QED
      BY <2>1, LabelsPart
  <1>3. CASE IsPointer(t[o + 1])
    <2>1. AfterName(t, o) = IF PointsOut(t, o) THEN -1 ELSE o + 2
      BY <1>3 DEF AfterName, PointsOut
    <2>2. AfterName(s, o) = IF PointsOut(s, o) THEN -1 ELSE o + 2
      BY <1>1, <1>3 DEF AfterName, PointsOut
    <2>3. ~PointsOut(t, o) => ~PointsOut(s, o)
      BY PointerPart
    <2> QED
      BY <2>1, <2>2, <2>3
  <1> QED
    BY <1>2, <1>3

\* What is read of the records in the part is read of them in the whole.
LEMMA RecordPart ==
  ASSUME NEW s \in Seq(Byte), NEW t \in Seq(Byte), PartOf(t, s)
  PROVE  \A k \in Nat : \A o \in Nat :
           RecordAt(t, k, o) = Cut \/ RecordAt(t, k, o) = RecordAt(s, k, o)
  <1> DEFINE Good(k, o) == RecordAt(t, k, o) = Cut \/ RecordAt(t, k, o) = RecordAt(s, k, o)
             P == {k \in Nat : \A o \in Nat : Good(k, o)}
  <1>0. Len(t) \in Nat /\ Len(s) \in Nat /\ Len(t) <= Len(s)
    BY PartBytes
  <1>1. 0 \in P
    BY RecordStep
  <1>2. ASSUME NEW k \in P PROVE k + 1 \in P
    <2> SUFFICES ASSUME NEW o \in Nat PROVE Good(k + 1, o)
      OBVIOUS
    <2> DEFINE f == AfterName(t, o)
               n == U16(t, f + 9)
    <2>1. CASE o >= Len(t) \/ TornRecord(t, f)
      BY <2>1, RecordStep
    <2>2. CASE ~(o >= Len(t)) /\ ~TornRecord(t, f)
      <3>1. f # -1 /\ ~(f + 10 > Len(t)) /\ ~(f + 10 + n > Len(t))
        BY <2>2 DEF TornRecord
      <3>2. f \in Nat
        BY <3>1, NameForward
      <3>3. AfterName(s, o) = f
        <4>1. o < Len(t) /\ ~(f > Len(t))
          BY <1>0, <2>2, <3>1, <3>2
        <4> QED
          BY <3>1, <4>1, NamePart
      <3> HIDE DEF f
      <3>4. n \in Nat /\ n = U16(s, f + 9) /\ U16(t, f + 1) = U16(s, f + 1)
        BY <1>0, <3>1, <3>2, NumberAt, PartBytes
      <3> HIDE DEF n
      <3>5. ~(o >= Len(s)) /\ ~TornRecord(s, f)
        BY <1>0, <2>2, <3>1, <3>2, <3>4 DEF TornRecord
      <3>6. EchAt(t, f) = EchAt(s, f)
        <4> DEFINE a == f + 11
                   b == f + 10 + n
                   x == SubSeq(t, a, b)
                   y == SubSeq(s, a, b)
        <4>1. a \in Int /\ b \in Int /\ 1 <= a /\ b <= Len(t) /\ b <= Len(s)
          BY <1>0, <3>1, <3>2, <3>4
        <4>2. \A i \in a .. b : i \in 1 .. Len(t) /\ t[i] = s[i] /\ t[i] \in Byte /\ s[i] \in Byte
          <5> TAKE i \in a .. b
          <5>1. i \in 1 .. Len(t) /\ i \in 1 .. Len(s)
            BY <1>0, <4>1
          <5> QED
            BY <5>1 DEF PartOf
        <4> HIDE DEF a, b
        <4>3. /\ x \in Seq(Byte) /\ Len(x) = IF a <= b THEN b - a + 1 ELSE 0
              /\ \A i \in 1 .. b - a + 1 : x[i] = t[a + i - 1]
          BY <4>1, <4>2, SubSeqProperties
        <4>4. /\ y \in Seq(Byte) /\ Len(y) = IF a <= b THEN b - a + 1 ELSE 0
              /\ \A i \in 1 .. b - a + 1 : y[i] = s[a + i - 1]
          BY <4>1, <4>2, SubSeqProperties
        <4>5. \A i \in 1 .. Len(x) : x[i] = y[i]
          <5> TAKE i \in 1 .. Len(x)
          <5>1. i \in 1 .. b - a + 1 /\ a + i - 1 \in a .. b
            BY <4>1, <4>3
          <5> QED
            BY <4>2, <4>3, <4>4, <5>1
        <4> HIDE DEF x, y
        <4>6. x = y
          BY <4>3, <4>4, <4>5, SeqEqual
        <4> QED
          BY <3>4, <4>6 DEF EchAt, n, x, y, a, b
      <3>7. k \in Nat /\ k + 1 \in Nat /\ k + 1 # 0 /\ k + 1 - 1 = k /\ f + 10 + n \in Nat
        BY <3>2, <3>4
      <3>8. RecordAt(t, k + 1, o) = IF Wanted(U16(t, f + 1), EchAt(t, f)) THEN EchAt(t, f)
                                    ELSE RecordAt(t, k, f + 10 + n)
        <4>1. RecordAt(t, k + 1, o) = IF Wanted(U16(t, f + 1), EchAt(t, f)) THEN EchAt(t, f)
                                      ELSE RecordAt(t, k + 1 - 1, f + 10 + U16(t, f + 9))
          BY <2>2, <3>7, RecordStep DEF f
        <4> QED
          BY <3>7, <4>1 DEF n
      <3>9. RecordAt(s, k + 1, o) = IF Wanted(U16(s, f + 1), EchAt(s, f)) THEN EchAt(s, f)
                                    ELSE RecordAt(s, k, f + 10 + n)
        <4>1. RecordAt(s, k + 1, o) = IF Wanted(U16(s, f + 1), EchAt(s, f)) THEN EchAt(s, f)
                                      ELSE RecordAt(s, k + 1 - 1, f + 10 + U16(s, f + 9))
          BY <3>3, <3>5, <3>7, RecordStep
        <4> QED
          BY <3>4, <3>7, <4>1
      <3>10. Good(k, f + 10 + n)
        BY <3>7
      <3> QED
        BY <3>4, <3>6, <3>8, <3>9, <3>10
    <2> QED
      BY <2>1, <2>2
  <1>3. P = Nat
    <2> HIDE DEF P
    <2>1. P \in SUBSET Nat
      BY DEF P
    <2> QED
      BY <1>1, <1>2, <2>1, NatSetInduction
  <1> QED
    BY <1>3

\* A response that was cut off gives what the whole gives, or nothing.
LEMMA ResponsePart ==
  ASSUME NEW s \in Seq(Byte), NEW t \in Seq(Byte), PartOf(t, s)
  PROVE  ParseResponse(t) = Cut \/ ParseResponse(t) = ParseResponse(s)
  <1>0. Len(t) \in Nat /\ Len(s) \in Nat /\ Len(t) <= Len(s)
    BY PartBytes
  <1> DEFINE q == AfterQuestionName(t)
  <1>1. CASE Len(t) < 12 \/ U16(t, 7) = 0 \/ q = -1 \/ q + 4 > Len(t)
    BY <1>1, ParseResponseDef
  <1>2. CASE ~(Len(t) < 12 \/ U16(t, 7) = 0 \/ q = -1 \/ q + 4 > Len(t))
    <2>1. U16(t, 7) = U16(s, 7) /\ U16(t, 7) \in Nat
      BY <1>0, <1>2, PartBytes, NumberAt
    <2>2. q \in Nat /\ AfterQuestionName(s) = q
      <3>1. \/ q = -1
            \/ q \in Nat /\ q >= Len(t)
            \/ q \in Nat /\ q = AfterQuestionName(s)
        <4>1. 12 \in Nat
          OBVIOUS
        <4> QED
          BY <4>1, QuestionPart, AfterQuestionDef
      <3> QED
        BY <1>0, <1>2, <3>1
    <2> HIDE DEF q
    <2>3. ParseResponse(t) = RecordAt(t, U16(t, 7), q + 4)
      BY <1>2, ParseResponseDef DEF q
    <2>4. ParseResponse(s) = RecordAt(s, U16(t, 7), q + 4)
      <3>1. ~(Len(s) < 12 \/ U16(s, 7) = 0 \/ AfterQuestionName(s) = -1
                \/ AfterQuestionName(s) + 4 > Len(s))
        BY <1>0, <1>2, <2>1, <2>2
      <3> QED
        BY <2>1, <2>2, <3>1, ParseResponseDef
    <2>5. q + 4 \in Nat
      BY <2>2
    <2> QED
      BY <2>1, <2>3, <2>4, <2>5, RecordPart
  <1> QED
    BY <1>1, <1>2
-----------------------------------------------------------------------------
(* An answer that was written: where its parts are. *)

\* The bytes q are at offset o of s.
Has(s, o, q) == o + Len(q) <= Len(s) /\ \A i \in 1 .. Len(q) : s[o + i] = q[i]

LEMMA HasParts ==
  ASSUME NEW s \in Seq(Byte), NEW o \in Nat
  PROVE  \A p, q \in Seq(Byte) :
           Has(s, o, p \o q) => Has(s, o, p) /\ Has(s, o + Len(p), q)
  <1> SUFFICES ASSUME NEW p \in Seq(Byte), NEW q \in Seq(Byte), Has(s, o, p \o q)
               PROVE  Has(s, o, p) /\ Has(s, o + Len(p), q)
    OBVIOUS
  <1> DEFINE w == p \o q
  <1>1. /\ Len(w) = Len(p) + Len(q) /\ Len(p) \in Nat /\ Len(q) \in Nat /\ Len(s) \in Nat
        /\ \A i \in 1 .. Len(p) : w[i] = p[i]
        /\ \A i \in 1 .. Len(q) : w[Len(p) + i] = q[i]
    BY BytesJoint
  <1>2. o + Len(w) <= Len(s) /\ \A i \in 1 .. Len(w) : s[o + i] = w[i]
    BY DEF Has
  <1> HIDE DEF w
  <1>3. Has(s, o, p)
    <2>1. \A i \in 1 .. Len(p) : i \in 1 .. Len(w)
      BY <1>1
    <2> QED
      BY <1>1, <1>2, <2>1 DEF Has
  <1>4. Has(s, o + Len(p), q)
    <2>1. \A i \in 1 .. Len(q) : s[(o + Len(p)) + i] = q[i]
      <3> TAKE i \in 1 .. Len(q)
      <3>1. Len(p) + i \in 1 .. Len(w) /\ o + (Len(p) + i) = (o + Len(p)) + i
        BY <1>1
      <3>2. s[o + (Len(p) + i)] = w[Len(p) + i]
        BY <1>2, <3>1
      <3> QED
        BY <1>1, <3>1, <3>2
    <2> QED
      BY <1>1, <1>2, <2>1 DEF Has
  <1> QED
    BY <1>3, <1>4

LEMMA HasPiece ==
  ASSUME NEW s \in Seq(Byte), NEW o \in Nat, NEW q \in Seq(Byte), Has(s, o, q)
  PROVE  \A a, b \in Int : a = o + 1 /\ b = o + Len(q) => SubSeq(s, a, b) = q
  <1> SUFFICES ASSUME NEW a \in Int, NEW b \in Int, a = o + 1, b = o + Len(q)
               PROVE  SubSeq(s, a, b) = q
    OBVIOUS
  <1>1. /\ Len(s) \in Nat /\ Len(q) \in Nat /\ b <= Len(s)
        /\ \A i \in 1 .. Len(q) : s[o + i] = q[i]
    BY DEF Has
  <1>2. \A i \in a .. b : s[i] \in Byte
    <2> TAKE i \in a .. b
    <2>1. i \in 1 .. Len(s)
      BY <1>1
    <2> QED
      BY <2>1
  <1> DEFINE x == SubSeq(s, a, b)
  <1>3. /\ x \in Seq(Byte) /\ Len(x) = IF a <= b THEN b - a + 1 ELSE 0
        /\ \A i \in 1 .. b - a + 1 : x[i] = s[a + i - 1]
    BY <1>2, SubSeqProperties
  <1>4. Len(x) = Len(q) /\ b - a + 1 = Len(q)
    BY <1>1, <1>3
  <1>5. \A i \in 1 .. Len(q) : x[i] = q[i]
    <2> TAKE i \in 1 .. Len(q)
    <2>1. a + i - 1 = o + i
      BY <1>1
    <2> QED
      BY <1>1, <1>3, <1>4, <2>1
  <1> HIDE DEF x
  <1>6. x = q
    BY <1>3, <1>4, <1>5, SeqEqual
  <1> QED
    BY <1>6 DEF x

LEMMA HasNumber ==
  ASSUME NEW s \in Seq(Byte), NEW o \in Nat, NEW n \in U16s, Has(s, o, PutU16(n))
  PROVE  U16(s, o + 1) = n /\ o + 2 <= Len(s)
  <1>1. PICK a, b \in Byte : PutU16(n) = <<a, b>> /\ a * Base + b = n
    BY PutBytes
  <1>2. PICK q \in Seq(Byte) : q = PutU16(n) /\ Len(q) = 2 /\ q[1] = a /\ q[2] = b
    <2>1. <<a, b>> \in Seq(Byte) /\ Len(<<a, b>>) = 2 /\ <<a, b>>[1] = a /\ <<a, b>>[2] = b
      OBVIOUS
    <2> QED
      BY <1>1, <2>1
  <1>3. o + 2 <= Len(s) /\ \A i \in 1 .. 2 : s[o + i] = q[i]
    BY <1>2 DEF Has
  <1>4. 1 \in 1 .. 2 /\ 2 \in 1 .. 2 /\ (o + 1) + 1 = o + 2
    OBVIOUS
  <1>5. s[o + 1] = a /\ s[(o + 1) + 1] = b
    BY <1>2, <1>3, <1>4
  <1> QED
    BY <1>1, <1>3, <1>5 DEF U16

\* Two bytes that hold a number, and one byte.
LEMMA NumberBytes ==
  \A n \in U16s : PutU16(n) \in Seq(Byte) /\ Len(PutU16(n)) = 2
  <1> TAKE n \in U16s
  <1>1. PICK a, b \in Byte : PutU16(n) = <<a, b>>
    BY PutBytes
  <1>2. <<a, b>> \in Seq(Byte) /\ Len(<<a, b>>) = 2
    OBVIOUS
  <1> QED
    BY <1>1, <1>2

LEMMA HasByte ==
  ASSUME NEW s \in Seq(Byte), NEW o \in Nat, NEW b \in Byte, Has(s, o, <<b>>)
  PROVE  o < Len(s) /\ s[o + 1] = b
  <1>1. Len(<<b>>) = 1 /\ <<b>>[1] = b /\ 1 \in 1 .. 1 /\ Len(s) \in Nat
    OBVIOUS
  <1>2. o + 1 <= Len(s) /\ \A i \in 1 .. 1 : s[o + i] = <<b>>[i]
    BY <1>1 DEF Has
  <1> QED
    BY <1>1, <1>2

\* A label, with its length before it.
LabelBytes == [l \in DNSLabels |-> <<Len(l)>> \o l]

LEMMA LabelFacts ==
  /\ Makes(LabelBytes, DNSLabels, Byte)
  /\ \A l \in DNSLabels :
       /\ l \in Seq(Byte) /\ <<Len(l)>> \in Seq(Byte) /\ Len(<<Len(l)>>) = 1 /\ Len(l) \in Byte
       /\ Len(l) \in Nat /\ Len(l) # 0 /\ ~IsPointer(Len(l))
       /\ LabelBytes[l] = <<Len(l)>> \o l /\ Len(LabelBytes[l]) = Len(l) + 1
  /\ \A name \in Seq(DNSLabels) : Labels(name) = Joined(LabelBytes, name)
  <1>1. Base \in Nat /\ Base >= 16 /\ Base % 4 = 0
    BY BaseAssumption
  <1>2. Base \div 4 \in Nat /\ 3 * (Base \div 4) <= Base
    BY <1>1
  <1>3. ASSUME NEW l \in DNSLabels
        PROVE  /\ l \in Seq(Byte) /\ <<Len(l)>> \in Seq(Byte) /\ Len(<<Len(l)>>) = 1
               /\ Len(l) \in Byte
               /\ Len(l) \in Nat /\ Len(l) # 0 /\ ~IsPointer(Len(l))
               /\ LabelBytes[l] = <<Len(l)>> \o l /\ Len(LabelBytes[l]) = Len(l) + 1
               /\ LabelBytes[l] \in Seq(Byte)
    <2>1. l \in Seq(Byte) /\ Len(l) \in 1 .. 3 * (Base \div 4) - 1
      BY DEF DNSLabels
    <2>2. Len(l) \in Byte /\ Len(l) \in Nat /\ Len(l) # 0 /\ ~IsPointer(Len(l))
      BY <1>1, <1>2, <2>1 DEF Byte, IsPointer
    <2>3. <<Len(l)>> \in Seq(Byte) /\ Len(<<Len(l)>>) = 1
      BY <2>2
    <2>4. LabelBytes[l] = <<Len(l)>> \o l
      BY DEF LabelBytes
    <2>5. <<Len(l)>> \o l \in Seq(Byte) /\ Len(<<Len(l)>> \o l) = Len(l) + 1
      BY <2>1, <2>2, <2>3, BytesJoint
    <2> QED
      BY <2>1, <2>2, <2>3, <2>4, <2>5
  <1>4. ASSUME NEW name \in Seq(DNSLabels) PROVE Labels(name) = Joined(LabelBytes, name)
    <2>1. \A i \in DOMAIN name : name[i] \in DNSLabels
      OBVIOUS
    <2>2. \A i \in DOMAIN name : LabelBytes[name[i]] = <<Len(name[i])>> \o name[i]
      BY <2>1 DEF LabelBytes
    <2>3. [i \in DOMAIN name |-> LabelBytes[name[i]]] =
            [i \in DOMAIN name |-> <<Len(name[i])>> \o name[i]]
      BY <2>2
    <2> QED
      BY <2>3 DEF Labels, Joined
  <1> QED
    BY <1>3, <1>4 DEF Makes

LEMMA LabelsHead ==
  \A name \in Seq(DNSLabels) :
    /\ Labels(name) \in Seq(Byte)
    /\ name # <<>> => Labels(name) = LabelBytes[Head(name)] \o Labels(Tail(name))
  <1> TAKE name \in Seq(DNSLabels)
  <1>1. Makes(LabelBytes, DNSLabels, Byte) /\ Labels(name) = Joined(LabelBytes, name)
    BY LabelFacts
  <1>2. Joined(LabelBytes, name) \in Seq(Byte)
    BY <1>1, JoinedType
  <1>3. ASSUME name # <<>> PROVE Labels(name) = LabelBytes[Head(name)] \o Labels(Tail(name))
    <2>1. /\ Tail(name) \in Seq(DNSLabels)
          /\ Joined(LabelBytes, name) = LabelBytes[Head(name)] \o Joined(LabelBytes, Tail(name))
      BY ONLY <1>1, <1>3, name \in Seq(DNSLabels), JoinedHead
    <2> QED
      BY <1>1, <2>1, LabelFacts
  <1> QED
    BY <1>1, <1>2, <1>3

\* From offset o, over label l, to the labels more.
LabelAhead(s, o, l, more, name) ==
  LET q == o + (Len(l) + 1)
  IN  /\ Len(l) \in Nat /\ Len(Labels(more)) \in Nat /\ q \in Nat
      /\ o < Len(s) /\ ~IsPointer(s[o + 1])
      /\ Has(s, q, Labels(more))
      /\ o + Len(Labels(name)) = q + Len(Labels(more))
      /\ AfterLabels(s, o) = AfterLabels(s, q) /\ QuestionEnd(s, o) = QuestionEnd(s, q)

LEMMA LabelStep ==
  ASSUME NEW s \in Seq(Byte), NEW o \in Nat, NEW l \in DNSLabels, NEW more \in Seq(DNSLabels),
         NEW name \in Seq(DNSLabels), name # <<>>, l = Head(name), more = Tail(name),
         Has(s, o, Labels(name))
  PROVE  LabelAhead(s, o, l, more, name)
  <1> DEFINE x == Labels(more)
             y == LabelBytes[l]
             q == o + (Len(l) + 1)
  <1>1. Labels(name) = y \o x /\ x \in Seq(Byte)
    BY LabelsHead
  <1>2. /\ l \in Seq(Byte) /\ <<Len(l)>> \in Seq(Byte) /\ Len(<<Len(l)>>) = 1
        /\ Len(l) \in Nat /\ Len(l) \in Byte /\ Len(l) # 0 /\ ~IsPointer(Len(l))
        /\ y = <<Len(l)>> \o l /\ Len(y) = Len(l) + 1 /\ y \in Seq(Byte)
    BY LabelFacts DEF Makes
  <1> HIDE DEF x, y
  <1>3. Len(Labels(name)) = Len(y) + Len(x) /\ Len(x) \in Nat /\ Len(s) \in Nat
    BY <1>1, <1>2, BytesJoint
  <1>4. Has(s, o, y) /\ Has(s, o + Len(y), x)
    <2>1. Has(s, o, y \o x)
      BY <1>1
    <2> QED
      BY <1>1, <1>2, <2>1, HasParts
  <1>5. Has(s, o, <<Len(l)>>)
    <2>1. Has(s, o, <<Len(l)>> \o l)
      BY <1>2, <1>4
    <2> QED
      BY <1>2, <2>1, HasParts
  <1>6. o < Len(s) /\ s[o + 1] = Len(l)
    BY <1>2, <1>5, HasByte
  <1>7. q \in Nat /\ o + s[o + 1] + 1 = q /\ o + Len(Labels(name)) = q + Len(x)
    BY <1>2, <1>3, <1>6
  <1>8. ~(o >= Len(s)) /\ s[o + 1] # 0 /\ ~IsPointer(s[o + 1])
    BY <1>2, <1>3, <1>6
  <1>9. AfterLabels(s, o) = AfterLabels(s, o + s[o + 1] + 1)
    BY <1>8, LabelsStep
  <1>10. QuestionEnd(s, o) = QuestionEnd(s, o + s[o + 1] + 1)
    BY <1>8, QuestionStep
  <1> QED
    BY <1>2, <1>3, <1>4, <1>6, <1>7, <1>8, <1>9, <1>10 DEF LabelAhead, x

\* The end of a name that is there: past its labels and the byte 0.
LEMMA LabelsThere ==
  ASSUME NEW s \in Seq(Byte)
  PROVE  \A name \in Seq(DNSLabels) : \A o \in Nat :
           Has(s, o, Labels(name)) /\ Has(s, o + Len(Labels(name)), << 0 >>) =>
             /\ AfterLabels(s, o) = o + Len(Labels(name)) + 1
             /\ QuestionEnd(s, o) = o + Len(Labels(name)) + 1
             /\ o < Len(s) /\ ~IsPointer(s[o + 1])
  <1> DEFINE There(name, o) ==
               Has(s, o, Labels(name)) /\ Has(s, o + Len(Labels(name)), << 0 >>)
             Ends(name, o) ==
               /\ AfterLabels(s, o) = o + Len(Labels(name)) + 1
               /\ QuestionEnd(s, o) = o + Len(Labels(name)) + 1
               /\ o < Len(s) /\ ~IsPointer(s[o + 1])
             P == {n \in Nat : \A name \in Seq(DNSLabels) : \A o \in Nat :
                     Len(name) = n /\ There(name, o) => Ends(name, o)}
  <1>0. 0 \in Byte /\ ~IsPointer(0) /\ Len(s) \in Nat
    <2>1. Base \in Nat /\ Base >= 16
      BY BaseAssumption
    <2>2. Base \div 4 \in Nat /\ Base \div 4 > 0
      BY <2>1
    <2> QED
      BY <2>1, <2>2, ByteFacts DEF IsPointer
  <1>1. 0 \in P
    <2> SUFFICES ASSUME NEW name \in Seq(DNSLabels), NEW o \in Nat, Len(name) = 0, There(name, o)
                 PROVE  Ends(name, o)
      OBVIOUS
    <2>1. name = <<>>
      BY EmptySeq
    <2>2. Labels(name) = <<>>
      BY <2>1, LabelFacts, JoinedEmpty
    <2>3. Len(Labels(name)) = 0 /\ o + 0 = o
      BY <2>2
    <2>4. o < Len(s) /\ s[o + 1] = 0
      BY <1>0, <2>3, HasByte
    <2>5. AfterLabels(s, o) = o + 1
      BY <2>4, LabelsStep
    <2>6. QuestionEnd(s, o) = o + 1
      BY <1>0, <2>4, QuestionStep
    <2> QED
      BY <1>0, <2>3, <2>4, <2>5, <2>6
  <1>2. ASSUME NEW n \in P PROVE n + 1 \in P
    <2> SUFFICES ASSUME NEW name \in Seq(DNSLabels), NEW o \in Nat, Len(name) = n + 1,
                        There(name, o)
                 PROVE  Ends(name, o)
      OBVIOUS
    <2>1. name # <<>> /\ n \in Nat
      OBVIOUS
    <2>2. PICK l \in DNSLabels, more \in Seq(DNSLabels) :
            name # <<>> /\ l = Head(name) /\ more = Tail(name) /\ Len(more) = n
      <3>1. Head(name) \in DNSLabels /\ Tail(name) \in Seq(DNSLabels) /\ Len(Tail(name)) = n
        BY ONLY <2>1, Len(name) = n + 1, name \in Seq(DNSLabels), HeadTailProperties
      <3> QED
        BY <2>1, <3>1
    <2>3. \A q \in Nat : There(more, q) => Ends(more, q)
      BY <2>2
    <2> HIDE DEF There, Ends
    <2>4. LabelAhead(s, o, l, more, name)
      BY <2>2, LabelStep DEF There
    <2>5. There(more, o + (Len(l) + 1)) /\ o + (Len(l) + 1) \in Nat
      BY <2>4 DEF LabelAhead, There
    <2>6. Ends(more, o + (Len(l) + 1))
      BY <2>3, <2>5
    <2> QED
      BY <2>4, <2>6 DEF LabelAhead, Ends
  <1>3. P = Nat
    <2> HIDE DEF P
    <2>1. P \in SUBSET Nat
      BY DEF P
    <2> QED
      BY <1>1, <1>2, <2>1, NatSetInduction
  <1> TAKE name \in Seq(DNSLabels)
  <1> TAKE o \in Nat
  <1>4. Len(name) \in P
    BY <1>3
  <1> QED
    BY <1>4

\* The first of a list, as it is read; Cut of none.
FirstOf(values) == IF values = <<>> THEN Cut ELSE Read(Head(values), <<>>)

ParamBytes == [p \in DNSParams |-> (PutU16(p.key) \o PutU16(Len(p.value))) \o p.value]
ValueOf == [p \in DNSParams |-> IF p.key = EchKey THEN <<p.value>> ELSE <<>>]

LEMMA ParamFacts ==
  /\ Makes(ValueOf, DNSParams, Seq(Byte))
  /\ \A ps \in Seq(DNSParams) : EchValues(ps) = Joined(ValueOf, ps)
  /\ \A ps \in Seq(DNSParams) : Params(ps) = Joined(ParamBytes, ps)
  <1>1. ASSUME NEW p \in DNSParams PROVE ValueOf[p] \in Seq(Seq(Byte))
    <2>1. p.value \in Seq(Byte)
      BY DEF DNSParams
    <2> DEFINE T == Seq(Byte)
    <2>2. p.value \in T
      BY <2>1
    <2> HIDE DEF T
    <2>3. <<p.value>> \in Seq(T) /\ <<>> \in Seq(T)
      BY <2>2
    <2> QED
      BY <2>3 DEF ValueOf, T
  <1>2. ASSUME NEW ps \in Seq(DNSParams)
        PROVE  EchValues(ps) = Joined(ValueOf, ps) /\ Params(ps) = Joined(ParamBytes, ps)
    <2>1. \A i \in DOMAIN ps : ps[i] \in DNSParams
      OBVIOUS
    <2>2. [i \in DOMAIN ps |-> ValueOf[ps[i]]] =
            [i \in DOMAIN ps |-> IF ps[i].key = EchKey THEN <<ps[i].value>> ELSE <<>>]
      BY <2>1 DEF ValueOf
    <2>3. [i \in DOMAIN ps |-> ParamBytes[ps[i]]] =
            [i \in DOMAIN ps |-> PutU16(ps[i].key) \o PutU16(Len(ps[i].value)) \o ps[i].value]
      BY <2>1 DEF ParamBytes
    <2> QED
      BY <2>2, <2>3 DEF EchValues, Params, Joined
  <1> QED
    BY <1>1, <1>2 DEF Makes

LEMMA FirstOfConcat ==
  ASSUME NEW T, NEW a \in Seq(T), NEW b \in Seq(T)
  PROVE  /\ FirstOf(a \o b) = IF a = <<>> THEN FirstOf(b) ELSE FirstOf(a)
         /\ a = <<>> => a \o b = b
         /\ a # <<>> => a \o b # <<>> /\ Head(a \o b) = Head(a)
  <1>1. CASE a = <<>>
    BY <1>1, ConcatEmptySeq
  <1>2. CASE a # <<>>
    <2> DEFINE c == a \o b
    <2>1. c \in Seq(T) /\ Len(c) = Len(a) + Len(b) /\ Len(a) \in Nat /\ Len(b) \in Nat
          /\ \A i \in 1 .. Len(a) : c[i] = a[i]
      BY Joint
    <2>2. Len(a) # 0 /\ 1 \in 1 .. Len(a)
      BY <1>2
    <2> HIDE DEF c
    <2>3. c # <<>> /\ Head(c) = c[1] /\ Head(a) = a[1] /\ c[1] = a[1]
      BY <1>2, <2>1, <2>2
    <2>4. FirstOf(c) = FirstOf(a)
      BY <1>2, <2>3 DEF FirstOf
    <2> QED
      BY <1>2, <2>3, <2>4 DEF c
  <1> QED
    BY <1>1, <1>2

\* Two bytes are written of any number.
LEMMA TwoBytes ==
  \A n \in Nat : PutU16(n) \in Seq(Byte) /\ Len(PutU16(n)) = 2
  <1> TAKE n \in Nat
  <1>1. Base \in Nat /\ Base > 0
    BY ByteFacts
  <1>2. n \div Base \in Nat
    BY <1>1
  <1>3. (n \div Base) % Base \in 0 .. Base - 1 /\ n % Base \in 0 .. Base - 1
    BY <1>1, <1>2
  <1>4. PICK a, b \in Byte : PutU16(n) = <<a, b>>
    BY <1>3 DEF PutU16, Byte
  <1> QED
    BY <1>4

LEMMA ParamsHead ==
  \A ps \in Seq(DNSParams) :
    /\ Params(ps) \in Seq(Byte) /\ EchValues(ps) \in Seq(Seq(Byte))
    /\ ps # <<>> =>
         /\ Params(ps) = ParamBytes[Head(ps)] \o Params(Tail(ps))
         /\ EchValues(ps) = ValueOf[Head(ps)] \o EchValues(Tail(ps))
  <1> TAKE ps \in Seq(DNSParams)
  <1>1. Makes(ParamBytes, DNSParams, Byte)
    <2> SUFFICES ASSUME NEW p \in DNSParams PROVE ParamBytes[p] \in Seq(Byte)
      BY DEF Makes
    <2>1. p.key \in Nat /\ p.value \in Seq(Byte) /\ Len(p.value) \in Nat
      <3>1. p.key \in U16s /\ p.value \in Seq(Byte)
        BY DEF DNSParams
      <3>2. U16s \subseteq Nat
        BY ByteFacts
      <3>3. p.key \in Nat
        BY <3>1, <3>2
      <3>4. Len(p.value) \in Nat
        BY ONLY <3>1, LenProperties
      <3> QED
        BY <3>1, <3>3, <3>4
    <2>2. PutU16(p.key) \o PutU16(Len(p.value)) \in Seq(Byte)
      BY <2>1, TwoBytes, BytesJoint
    <2>3. (PutU16(p.key) \o PutU16(Len(p.value))) \o p.value \in Seq(Byte)
      BY <2>1, <2>2, BytesJoint
    <2> QED
      BY <2>3 DEF ParamBytes
  <1>2. /\ Makes(ValueOf, DNSParams, Seq(Byte))
        /\ EchValues(ps) = Joined(ValueOf, ps) /\ Params(ps) = Joined(ParamBytes, ps)
    BY ParamFacts
  <1>3. Joined(ParamBytes, ps) \in Seq(Byte)
    BY <1>1, JoinedType
  <1>4. Joined(ValueOf, ps) \in Seq(Seq(Byte))
    <2>1. Makes(ValueOf, DNSParams, Seq(Byte)) /\ ps \in Seq(DNSParams)
      BY <1>2
    <2> DEFINE T == Seq(Byte)
    <2> HIDE DEF T
    <2>2. Joined(ValueOf, ps) \in Seq(T)
      BY <2>1, JoinedType DEF T
    <2> QED
      BY <2>2 DEF T
  <1>5. ASSUME ps # <<>>
        PROVE  /\ Params(ps) = ParamBytes[Head(ps)] \o Params(Tail(ps))
               /\ EchValues(ps) = ValueOf[Head(ps)] \o EchValues(Tail(ps))
    <2>1. /\ Tail(ps) \in Seq(DNSParams)
          /\ Joined(ParamBytes, ps) = ParamBytes[Head(ps)] \o Joined(ParamBytes, Tail(ps))
      BY ONLY <1>1, <1>5, ps \in Seq(DNSParams), JoinedHead
    <2>2. Joined(ValueOf, ps) = ValueOf[Head(ps)] \o Joined(ValueOf, Tail(ps))
      BY ONLY <1>2, <1>5, ps \in Seq(DNSParams), JoinedHead
    <2> QED
      BY <1>2, <2>1, <2>2, ParamFacts
  <1> QED
    BY <1>2, <1>3, <1>4, <1>5

\* From offset o, over parameter p, to the parameters more, which end the data.
ParamAhead(s, o, p, more) ==
  LET q == o + 4 + Len(p.value)
  IN  /\ q \in Nat /\ Has(s, q, Params(more)) /\ q + Len(Params(more)) = Len(s)
      /\ ParamAt(s, o) = IF p.key = EchKey THEN Read(p.value, <<>>) ELSE ParamAt(s, q)

LEMMA ParamAheadStep ==
  ASSUME NEW s \in Seq(Byte), NEW o \in Nat, NEW p \in DNSParams, NEW more \in Seq(DNSParams),
         NEW ps \in Seq(DNSParams), ps # <<>>, p = Head(ps), more = Tail(ps),
         Has(s, o, Params(ps)), o + Len(Params(ps)) = Len(s), Len(s) < Limit
  PROVE  ParamAhead(s, o, p, more)
  <1> DEFINE x == Params(more)
             v == p.value
             a == PutU16(p.key)
             b == PutU16(Len(v))
             q == o + 4 + Len(v)
  <1>1. Params(ps) = ((a \o b) \o v) \o x /\ x \in Seq(Byte)
    BY ParamsHead DEF ParamBytes
  <1>2. /\ p.key \in U16s /\ v \in Seq(Byte) /\ Len(v) \in Nat
        /\ a \in Seq(Byte) /\ b \in Seq(Byte) /\ Len(a) = 2 /\ Len(b) = 2
    <2>1. p.key \in U16s /\ v \in Seq(Byte) /\ Len(v) \in Nat
      BY DEF DNSParams
    <2> QED
      BY <2>1, ByteFacts, TwoBytes
  <1> HIDE DEF x, v, a, b
  <1>3. /\ a \o b \in Seq(Byte) /\ Len(a \o b) = 4
        /\ (a \o b) \o v \in Seq(Byte) /\ Len((a \o b) \o v) = 4 + Len(v)
        /\ Len(Params(ps)) = 4 + Len(v) + Len(x) /\ Len(x) \in Nat /\ Len(s) \in Nat
    <2>1. a \o b \in Seq(Byte) /\ Len(a \o b) = 4
      <3>1. /\ a \in Seq(Byte) /\ b \in Seq(Byte)
        BY <1>2
      <3>2. a \o b \in Seq(Byte) /\ Len(a \o b) = Len(a) + Len(b)
        BY ONLY <3>1, BytesJoint
      <3> QED
        BY ONLY <1>2, <3>2
    <2>2. (a \o b) \o v \in Seq(Byte) /\ Len((a \o b) \o v) = 4 + Len(v)
      BY ONLY <1>2, <2>1, BytesJoint
    <2>3. Len(Params(ps)) = 4 + Len(v) + Len(x)
      BY ONLY <1>1, <2>2, BytesJoint
    <2> QED
      BY <1>1, <2>1, <2>2, <2>3
  <1>4. Has(s, o, (a \o b) \o v) /\ Has(s, o + (4 + Len(v)), x)
    <2>1. Has(s, o, ((a \o b) \o v) \o x)
      BY <1>1
    <2> QED
      BY <1>1, <1>3, <2>1, HasParts
  <1>5. Has(s, o, a \o b) /\ Has(s, o + 4, v)
    BY <1>2, <1>3, <1>4, HasParts
  <1>6. Has(s, o, a) /\ Has(s, o + 2, b)
    BY <1>2, <1>5, HasParts
  <1>7. q \in Nat /\ q = o + (4 + Len(v)) /\ q + Len(x) = Len(s) /\ q <= Len(s)
    BY <1>2, <1>3
  <1>8. Len(v) \in U16s
    BY <1>2, <1>3, <1>7, ByteFacts DEF U16s
  <1>9. U16(s, o + 1) = p.key
    BY <1>2, <1>6, HasNumber DEF a
  <1>10. U16(s, o + 3) = Len(v)
    <2>1. o + 2 \in Nat /\ (o + 2) + 1 = o + 3
      OBVIOUS
    <2>2. U16(s, (o + 2) + 1) = Len(v)
      BY <1>6, <1>8, <2>1, HasNumber DEF b
    <2> QED
      BY <2>1, <2>2
  <1>11. SubSeq(s, o + 5, o + 4 + Len(v)) = v
    <2>1. o + 4 \in Nat /\ o + 5 \in Int /\ o + 4 + Len(v) \in Int /\ o + 5 = (o + 4) + 1
          /\ o + 4 + Len(v) = (o + 4) + Len(v)
      BY <1>2
    <2> QED
      BY <1>2, <1>5, <2>1, HasPiece
  <1>12. ~(o + 4 > Len(s) \/ o + 4 + Len(v) > Len(s))
    BY <1>2, <1>3, <1>7
  <1>13. ParamAt(s, o) = IF p.key = EchKey THEN Read(v, <<>>) ELSE ParamAt(s, q)
    BY <1>9, <1>10, <1>11, <1>12, ParamStep
  <1> QED
    BY <1>4, <1>7, <1>13 DEF ParamAhead, x, v

LEMMA ParamsThere ==
  ASSUME NEW s \in Seq(Byte), Len(s) < Limit
  PROVE  \A ps \in Seq(DNSParams) : \A o \in Nat :
           Has(s, o, Params(ps)) /\ o + Len(Params(ps)) = Len(s) =>
             ParamAt(s, o) = FirstOf(EchValues(ps))
  <1> DEFINE There(ps, o) == Has(s, o, Params(ps)) /\ o + Len(Params(ps)) = Len(s)
             Good(ps, o) == ParamAt(s, o) = FirstOf(EchValues(ps))
             P == {n \in Nat : \A ps \in Seq(DNSParams) : \A o \in Nat :
                     Len(ps) = n /\ There(ps, o) => Good(ps, o)}
  <1>0. Len(s) \in Nat
    OBVIOUS
  <1>1. 0 \in P
    <2> SUFFICES ASSUME NEW ps \in Seq(DNSParams), NEW o \in Nat, Len(ps) = 0, There(ps, o)
                 PROVE  Good(ps, o)
      OBVIOUS
    <2>1. ps = <<>>
      BY EmptySeq
    <2>2. Params(ps) = <<>> /\ EchValues(ps) = <<>>
      BY <2>1, ParamFacts, JoinedEmpty
    <2>3. o + 4 > Len(s)
      BY <1>0, <2>2
    <2>4. ParamAt(s, o) = Cut
      BY <2>3, ParamStep
    <2> QED
      BY <2>2, <2>4 DEF FirstOf
  <1>2. ASSUME NEW n \in P PROVE n + 1 \in P
    <2> SUFFICES ASSUME NEW ps \in Seq(DNSParams), NEW o \in Nat, Len(ps) = n + 1, There(ps, o)
                 PROVE  Good(ps, o)
      OBVIOUS
    <2>1. ps # <<>> /\ n \in Nat
      OBVIOUS
    <2>2. PICK p \in DNSParams, more \in Seq(DNSParams) :
            ps # <<>> /\ p = Head(ps) /\ more = Tail(ps) /\ Len(more) = n
      <3>1. Head(ps) \in DNSParams /\ Tail(ps) \in Seq(DNSParams) /\ Len(Tail(ps)) = n
        BY ONLY <2>1, Len(ps) = n + 1, ps \in Seq(DNSParams), HeadTailProperties
      <3> QED
        BY <2>1, <3>1
    <2>3. \A q \in Nat : There(more, q) => Good(more, q)
      BY <2>2
    <2> HIDE DEF There, Good
    <2>4. ParamAhead(s, o, p, more)
      BY <2>2, ParamAheadStep DEF There
    <2> DEFINE q == o + 4 + Len(p.value)
    <2>5. /\ q \in Nat /\ There(more, q)
          /\ ParamAt(s, o) = IF p.key = EchKey THEN Read(p.value, <<>>) ELSE ParamAt(s, q)
      BY <2>4 DEF ParamAhead, There
    <2>6. ParamAt(s, q) = FirstOf(EchValues(more))
      BY <2>3, <2>5 DEF Good
    <2>7. FirstOf(EchValues(ps)) =
            IF ValueOf[p] = <<>> THEN FirstOf(EchValues(more)) ELSE FirstOf(ValueOf[p])
      <3>1. ValueOf[p] \in Seq(Seq(Byte)) /\ EchValues(more) \in Seq(Seq(Byte))
        BY ParamFacts, ParamsHead DEF Makes
      <3>2. EchValues(ps) = ValueOf[p] \o EchValues(more)
        BY <2>2, ParamsHead
      <3> QED
        BY <3>1, <3>2, FirstOfConcat
    <2> HIDE DEF q
    <2>8. FirstOf(EchValues(ps)) =
            IF p.key = EchKey THEN Read(p.value, <<>>) ELSE FirstOf(EchValues(more))
      <3>1. ValueOf[p] = IF p.key = EchKey THEN <<p.value>> ELSE <<>>
        BY DEF ValueOf
      <3>2. <<p.value>> # <<>> /\ Head(<<p.value>>) = p.value
        OBVIOUS
      <3> QED
        BY <2>7, <3>1, <3>2 DEF FirstOf
    <2> QED
      BY <2>5, <2>6, <2>8 DEF Good
  <1>3. P = Nat
    <2> HIDE DEF P
    <2>1. P \in SUBSET Nat
      BY DEF P
    <2> QED
      BY <1>1, <1>2, <2>1, NatSetInduction
  <1> TAKE ps \in Seq(DNSParams)
  <1> TAKE o \in Nat
  <1>4. Len(ps) \in P
    BY <1>3
  <1> QED
    BY <1>4

\* Four pieces, and five, one after the other.
LEMMA FourParts ==
  \A a, b, c, d \in Seq(Byte) :
    /\ ((a \o b) \o c) \o d \in Seq(Byte)
    /\ Len(((a \o b) \o c) \o d) = Len(a) + Len(b) + Len(c) + Len(d)
    /\ \A s \in Seq(Byte) : \A o \in Nat :
         Has(s, o, ((a \o b) \o c) \o d) =>
           /\ Has(s, o, a) /\ Has(s, o + Len(a), b) /\ Has(s, o + (Len(a) + Len(b)), c)
           /\ Has(s, o + (Len(a) + Len(b) + Len(c)), d)
  <1> TAKE a, b, c, d \in Seq(Byte)
  <1> DEFINE x == a \o b
             y == x \o c
             z == y \o d
  <1>1. x \in Seq(Byte) /\ Len(x) = Len(a) + Len(b)
    BY ONLY a \in Seq(Byte), b \in Seq(Byte), BytesJoint
  <1>2. y \in Seq(Byte) /\ Len(y) = Len(a) + Len(b) + Len(c)
    <2> HIDE DEF x
    <2>1. y \in Seq(Byte) /\ Len(y) = Len(x) + Len(c)
      BY ONLY <1>1, c \in Seq(Byte), BytesJoint
    <2> QED
      BY <1>1, <2>1
  <1>3. z \in Seq(Byte) /\ Len(z) = Len(a) + Len(b) + Len(c) + Len(d)
    <2> HIDE DEF y
    <2>1. z \in Seq(Byte) /\ Len(z) = Len(y) + Len(d)
      BY ONLY <1>2, d \in Seq(Byte), BytesJoint
    <2> QED
      BY <1>2, <2>1
  <1>4. ASSUME NEW s \in Seq(Byte), NEW o \in Nat, Has(s, o, z)
        PROVE  /\ Has(s, o, a) /\ Has(s, o + Len(a), b) /\ Has(s, o + (Len(a) + Len(b)), c)
               /\ Has(s, o + (Len(a) + Len(b) + Len(c)), d)
    <2>1. Has(s, o, y) /\ Has(s, o + Len(y), d)
      <3> HIDE DEF y
      <3> QED
        BY <1>2, <1>4, HasParts
    <2>2. Has(s, o, x) /\ Has(s, o + Len(x), c)
      <3>1. Has(s, o, x \o c)
        BY <2>1
      <3> HIDE DEF x
      <3> QED
        BY <1>1, <3>1, HasParts
    <2>3. Has(s, o, a) /\ Has(s, o + Len(a), b)
      BY <2>2, HasParts
    <2> HIDE DEF x, y
    <2> QED
      BY <1>1, <1>2, <2>1, <2>2, <2>3
  <1> QED
    BY <1>3, <1>4

\* w is five pieces, one after the other.
Five(w, a, b, c, d, e) == w = (((a \o b) \o c) \o d) \o e

LEMMA FiveParts ==
  \A a, b, c, d, e \in Seq(Byte) : \A w : Five(w, a, b, c, d, e) =>
    /\ w \in Seq(Byte) /\ Len(w) = Len(a) + Len(b) + Len(c) + Len(d) + Len(e)
    /\ \A s \in Seq(Byte) : \A o \in Nat :
         Has(s, o, w) =>
           /\ Has(s, o, a) /\ Has(s, o + Len(a), b) /\ Has(s, o + (Len(a) + Len(b)), c)
           /\ Has(s, o + (Len(a) + Len(b) + Len(c)), d)
           /\ Has(s, o + (Len(a) + Len(b) + Len(c) + Len(d)), e)
  <1> TAKE a, b, c, d, e \in Seq(Byte)
  <1> DEFINE x == ((a \o b) \o c) \o d
             w == x \o e
  <1>1. /\ x \in Seq(Byte) /\ Len(x) = Len(a) + Len(b) + Len(c) + Len(d)
        /\ \A s \in Seq(Byte) : \A o \in Nat : Has(s, o, x) =>
             /\ Has(s, o, a) /\ Has(s, o + Len(a), b) /\ Has(s, o + (Len(a) + Len(b)), c)
             /\ Has(s, o + (Len(a) + Len(b) + Len(c)), d)
    BY FourParts
  <1> HIDE DEF x
  <1>2. w \in Seq(Byte) /\ Len(w) = Len(a) + Len(b) + Len(c) + Len(d) + Len(e)
    <2>1. w \in Seq(Byte) /\ Len(w) = Len(x) + Len(e)
      BY ONLY <1>1, e \in Seq(Byte), BytesJoint
    <2> QED
      BY <1>1, <2>1
  <1>3. \A s \in Seq(Byte) : \A o \in Nat : Has(s, o, w) => Has(s, o, x) /\ Has(s, o + Len(x), e)
    BY <1>1, HasParts
  <1>4. \A v : Five(v, a, b, c, d, e) => v = w
    BY DEF Five, x
  <1> HIDE DEF w
  <1> QED
    BY <1>1, <1>2, <1>3, <1>4

LEMMA HasAll ==
  \A s \in Seq(Byte) : Has(s, 0, s)
  <1> TAKE s \in Seq(Byte)
  <1>1. Len(s) \in Nat /\ \A i \in 1 .. Len(s) : 0 + i = i
    OBVIOUS
  <1> QED
    BY <1>1 DEF Has

\* Small bytes.
LEMMA SmallBytes ==
  /\ << 0 >> \in Seq(Byte) /\ Len(<< 0 >>) = 1
  /\ <<0, 1>> \in Seq(Byte) /\ Len(<<0, 1>>) = 2
  /\ <<0, 0, 0, 0>> \in Seq(Byte) /\ Len(<<0, 0, 0, 0>>) = 4
  /\ <<0, 1, 0, 0, 0, 9>> \in Seq(Byte) /\ Len(<<0, 1, 0, 0, 0, 9>>) = 6
  /\ <<0, 1, 8, 1, 0, 1>> \in Seq(Byte) /\ Len(<<0, 1, 8, 1, 0, 1>>) = 6
  <1>1. 0 \in Byte /\ 1 \in Byte /\ 8 \in Byte /\ 9 \in Byte
    BY ByteFacts
  <1> QED
    BY <1>1

\* The ECH list of a record's data is the first of its parameters'.
LEMMA DataRead ==
  ASSUME NEW service \in Seq(DNSLabels), NEW ps \in Seq(DNSParams), NEW s,
         s = <<0, 1>> \o Labels(service) \o << 0 >> \o Params(ps)
  PROVE  s \in Seq(Byte) /\ (Len(s) < Limit => EchOf(s) = FirstOf(EchValues(ps)))
  <1> DEFINE x == Labels(service)
             y == Params(ps)
  <1>1. x \in Seq(Byte) /\ y \in Seq(Byte) /\ Len(x) \in Nat /\ Len(y) \in Nat
    <2>1. x \in Seq(Byte) /\ y \in Seq(Byte)
      BY LabelsHead, ParamsHead
    <2> HIDE DEF x, y
    <2> QED
      BY <2>1
  <1>2. s = ((<<0, 1>> \o x) \o << 0 >>) \o y
    OBVIOUS
  <1> HIDE DEF x, y
  <1>a. PICK a, c \in Seq(Byte) : a = <<0, 1>> /\ c = << 0 >> /\ Len(a) = 2 /\ Len(c) = 1
    BY SmallBytes
  <1>b. s = ((a \o x) \o c) \o y
    BY <1>2, <1>a
  <1>3. /\ s \in Seq(Byte) /\ Len(s) = Len(a) + Len(x) + Len(c) + Len(y)
        /\ Has(s, 0, s) =>
             /\ Has(s, 0 + Len(a), x) /\ Has(s, 0 + (Len(a) + Len(x)), c)
             /\ Has(s, 0 + (Len(a) + Len(x) + Len(c)), y)
    <2>1. /\ s \in Seq(Byte) /\ Len(s) = Len(a) + Len(x) + Len(c) + Len(y)
          /\ \A t \in Seq(Byte) : \A o \in Nat : Has(t, o, s) =>
               /\ Has(t, o + Len(a), x) /\ Has(t, o + (Len(a) + Len(x)), c)
               /\ Has(t, o + (Len(a) + Len(x) + Len(c)), y)
      BY ONLY <1>b, <1>1, a \in Seq(Byte), c \in Seq(Byte), FourParts
    <2>2. 0 \in Nat
      OBVIOUS
    <2> QED
      BY <2>1, <2>2
  <1>4. ASSUME Len(s) < Limit PROVE EchOf(s) = FirstOf(EchValues(ps))
    <2> DEFINE q == 2 + Len(x) + 1
    <2>1. Has(s, 2, x) /\ Has(s, 2 + Len(x), << 0 >>) /\ Has(s, q, y) /\ q \in Nat
          /\ q + Len(y) = Len(s) /\ ~(Len(s) < 2)
      <3>1. /\ Has(s, 0 + Len(a), x) /\ Has(s, 0 + (Len(a) + Len(x)), c)
            /\ Has(s, 0 + (Len(a) + Len(x) + Len(c)), y)
        BY <1>3, HasAll
      <3>2. /\ 0 + Len(a) = 2 /\ 0 + (Len(a) + Len(x)) = 2 + Len(x)
            /\ 0 + (Len(a) + Len(x) + Len(c)) = q
        BY <1>1, <1>a
      <3> HIDE DEF q
      <3>3. Has(s, 2, x) /\ Has(s, 2 + Len(x), << 0 >>) /\ Has(s, q, y)
        BY <1>a, <3>1, <3>2
      <3>4. q \in Nat /\ q + Len(y) = Len(s) /\ ~(Len(s) < 2)
        BY <1>1, <1>a, <1>3 DEF q
      <3> QED
        BY <3>3, <3>4
    <2>2. AfterLabels(s, 2) = q
      BY <1>3, <2>1, LabelsThere DEF x
    <2> HIDE DEF q
    <2>3. ParamAt(s, q) = FirstOf(EchValues(ps))
      BY <1>3, <1>4, <2>1, ParamsThere DEF y
    <2> QED
      BY <2>1, <2>2, <2>3, EchOfDef
  <1> QED
    BY <1>3, <1>4

\* Labels and a pointer.
Mixed(r) == r.pointer /\ r.name # <<>>

\* A pointer to the question's name.
PointerByte == 3 * (Base \div 4)

LEMMA PointerFacts ==
  /\ \E k \in Nat : Base = 4 * k /\ k >= 4 /\ Base \div 4 = k /\ PointerByte = 3 * k
  /\ <<PointerByte, 12>> \in Seq(Byte) /\ IsPointer(PointerByte)
  <1>1. PICK k \in Nat : Base = 4 * k /\ k >= 4 /\ Base \div 4 = k
    <2>1. Base \in Nat /\ Base >= 16 /\ Base % 4 = 0
      BY BaseAssumption
    <2> DEFINE k == Base \div 4
    <2>2. k \in Nat /\ Base = 4 * k /\ k >= 4
      BY <2>1
    <2> QED
      BY <2>2
  <1>2. PointerByte = 3 * k /\ PointerByte \in Byte /\ 12 \in Byte /\ IsPointer(PointerByte)
    BY <1>1, ByteFacts DEF Byte, IsPointer, PointerByte
  <1>3. <<PointerByte, 12>> \in Seq(Byte)
    BY <1>2
  <1> QED
    BY <1>1, <1>2, <1>3

LEMMA NameType ==
  ASSUME NEW r, r.pointer \in BOOLEAN, r.name \in Seq(DNSLabels)
  PROVE  NameBytes(r) \in Seq(Byte)
  <1> DEFINE x == Labels(r.name)
             e == IF r.pointer THEN <<PointerByte, 12>> ELSE << 0 >>
  <1>1. x \in Seq(Byte)
    BY LabelsHead
  <1>2. e \in Seq(Byte)
    BY PointerFacts, SmallBytes
  <1>3. NameBytes(r) = x \o e
    BY DEF NameBytes, PointerByte
  <1> HIDE DEF x, e
  <1> QED
    BY <1>1, <1>2, <1>3, BytesJoint

\* The end of a record's name that is a pointer to the question, or its labels.
LEMMA NameThere ==
  ASSUME NEW s \in Seq(Byte), NEW r, r.pointer \in BOOLEAN, r.name \in Seq(DNSLabels),
         ~Mixed(r)
  PROVE  \A o \in Nat : Has(s, o, NameBytes(r)) /\ o >= 12 =>
           AfterName(s, o) = o + Len(NameBytes(r)) /\ o < Len(s)
  <1>0. Len(s) \in Nat
    OBVIOUS
  <1>1. CASE r.pointer
    <2> DEFINE c == PointerByte
    <2>1. PICK k \in Nat : Base = 4 * k /\ k >= 4 /\ Base \div 4 = k /\ c = 3 * k
      BY PointerFacts
    <2>2. <<c, 12>> \in Seq(Byte) /\ IsPointer(c)
      BY PointerFacts
    <2>3. NameBytes(r) = <<c, 12>>
      <3>1. r.name = <<>>
        BY <1>1 DEF Mixed
      <3>2. Labels(<<>>) = <<>>
        <4>1. <<>> \in Seq(DNSLabels)
          OBVIOUS
        <4> QED
          BY <4>1, LabelFacts, JoinedEmpty
      <3>3. NameBytes(r) = <<>> \o <<c, 12>>
        BY <1>1, <3>1, <3>2 DEF NameBytes, PointerByte
      <3> HIDE DEF c
      <3> QED
        BY <2>2, <3>3, ConcatEmptySeq
    <2> HIDE DEF c
    <2>4. Len(<<c, 12>>) = 2 /\ <<c, 12>>[1] = c /\ <<c, 12>>[2] = 12
      OBVIOUS
    <2>5. ASSUME NEW o \in Nat, Has(s, o, <<c, 12>>), o >= 12
          PROVE  AfterName(s, o) = o + 2 /\ o < Len(s)
      <3>1. o + 2 <= Len(s) /\ \A i \in 1 .. 2 : s[o + i] = <<c, 12>>[i]
        BY <2>4, <2>5 DEF Has
      <3>2. 1 \in 1 .. 2 /\ 2 \in 1 .. 2 /\ (o + 1) + 1 = o + 2
        OBVIOUS
      <3>3. s[o + 1] = c /\ s[(o + 1) + 1] = 12
        BY <2>4, <3>1, <3>2
      <3>4. U16(s, o + 1) = c * Base + 12
        BY <3>3 DEF U16
      <3>5. (c * Base + 12) % (Limit \div 4) = 12
        <4> DEFINE q == 4 * (k * k)
        <4>1. k * k \in Nat /\ k * k >= 16 /\ q \in Nat /\ q > 12
          BY <2>1
        <4>2. Limit = 4 * q
          BY <2>1 DEF Limit
        <4>3. c * Base + 12 = 3 * q + 12
          BY <2>1, <2>2
        <4> HIDE DEF q
        <4>4. Limit \div 4 = q
          BY <4>1, <4>2
        <4>5. (3 * q + 12) % q = 12
          BY <4>1
        <4> QED
          BY <4>3, <4>4, <4>5
      <3>6. ~(o + 2 > Len(s) \/ 12 >= Len(s))
        BY <1>0, <2>5, <3>1
      <3> QED
        BY <1>0, <2>2, <3>1, <3>3, <3>4, <3>5, <3>6 DEF AfterName
    <2> QED
      BY <2>3, <2>4, <2>5
  <1>2. CASE ~r.pointer
    <2> DEFINE x == Labels(r.name)
    <2>1. NameBytes(r) = x \o << 0 >> /\ x \in Seq(Byte)
      BY <1>2, LabelsHead DEF NameBytes
    <2> HIDE DEF x
    <2>2. x \o << 0 >> \in Seq(Byte) /\ Len(x \o << 0 >>) = Len(x) + 1 /\ Len(x) \in Nat
      <3>1. << 0 >> \in Seq(Byte) /\ Len(<< 0 >>) = 1 /\ Len(x) \in Nat
        BY <2>1, SmallBytes
      <3>2. x \o << 0 >> \in Seq(Byte) /\ Len(x \o << 0 >>) = Len(x) + Len(<< 0 >>)
        BY ONLY <2>1, <3>1, BytesJoint
      <3> QED
        BY <3>1, <3>2
    <2>3. ASSUME NEW o \in Nat, Has(s, o, x \o << 0 >>)
          PROVE  AfterName(s, o) = o + (Len(x) + 1) /\ o < Len(s)
      <3>1. Has(s, o, x) /\ Has(s, o + Len(x), << 0 >>)
        BY <2>1, <2>3, SmallBytes, HasParts
      <3>2. AfterLabels(s, o) = o + Len(x) + 1 /\ o < Len(s) /\ ~IsPointer(s[o + 1])
        BY <3>1, LabelsThere DEF x
      <3> QED
        BY <2>2, <3>2 DEF AfterName
    <2> QED
      BY <2>1, <2>2, <2>3
  <1> QED
    BY <1>1, <1>2

RecordBytes == [r \in DNSRecords |-> Record(r)]
ListsOf == [r \in DNSRecords |-> ListsIn(r)]
Lists == Seq(Byte) \cup {Lost}

\* The parts of a record.
LEMMA RecordFacts ==
  ASSUME NEW r \in DNSRecords
  PROVE  /\ r.pointer \in BOOLEAN /\ r.name \in Seq(DNSLabels) /\ r.type \in U16s
         /\ r.params \in Seq(DNSParams)
         /\ NameBytes(r) \in Seq(Byte) /\ DataBytes(r) \in Seq(Byte)
         /\ Len(DataBytes(r)) \in U16s
         /\ EchOf(DataBytes(r)) = FirstOf(EchValues(r.params))
         /\ Record(r) \in Seq(Byte) /\ Len(Record(r)) \in Nat
         /\ Len(Record(r)) = Len(NameBytes(r)) + 10 + Len(DataBytes(r))
         /\ \A s \in Seq(Byte) : \A o \in Nat : Has(s, o, Record(r)) =>
              LET f == o + Len(NameBytes(r))
              IN  /\ f \in Nat /\ Has(s, o, NameBytes(r)) /\ U16(s, f + 1) = r.type
                  /\ U16(s, f + 9) = Len(DataBytes(r)) /\ Has(s, f + 10, DataBytes(r))
  <1> DEFINE H == NameBytes(r)
             T == PutU16(r.type)
             F == <<0, 1, 0, 0, 0, 9>>
             D == DataBytes(r)
             L == PutU16(Len(D))
  <1>1. /\ r.pointer \in BOOLEAN /\ r.name \in Seq(DNSLabels) /\ r.type \in U16s
        /\ r.params \in Seq(DNSParams) /\ r.service \in Seq(DNSLabels) /\ Len(D) < Limit
    BY DEF DNSRecords
  <1>2. D \in Seq(Byte) /\ EchOf(D) = FirstOf(EchValues(r.params))
    <2>1. D = <<0, 1>> \o Labels(r.service) \o << 0 >> \o Params(r.params)
      BY DEF DataBytes
    <2> HIDE DEF D
    <2> QED
      BY <1>1, <2>1, DataRead
  <1>3. H \in Seq(Byte)
    <2>1. r.pointer \in BOOLEAN /\ r.name \in Seq(DNSLabels)
      BY <1>1
    <2> QED
      BY ONLY <2>1, NameType
  <1> HIDE DEF H, D
  <1>4. Len(D) \in U16s /\ Len(D) \in Nat /\ Len(H) \in Nat
    <2>1. Len(D) \in Nat /\ Len(H) \in Nat
      BY ONLY <1>2, <1>3, LenProperties
    <2> QED
      BY <1>1, <2>1, ByteFacts DEF U16s
  <1>5. /\ T \in Seq(Byte) /\ Len(T) = 2 /\ L \in Seq(Byte) /\ Len(L) = 2
        /\ F \in Seq(Byte) /\ Len(F) = 6
    BY <1>1, <1>4, NumberBytes, SmallBytes
  <1> DEFINE R == (((H \o T) \o F) \o L) \o D
  <1>6. Record(r) = R
    BY DEF Record, H, D
  <1> HIDE DEF T, F, L
  <1>7. /\ R \in Seq(Byte) /\ Len(R) = Len(H) + Len(T) + Len(F) + Len(L) + Len(D)
        /\ \A s \in Seq(Byte) : \A o \in Nat : Has(s, o, R) =>
             /\ Has(s, o, H) /\ Has(s, o + Len(H), T)
             /\ Has(s, o + (Len(H) + Len(T) + Len(F)), L)
             /\ Has(s, o + (Len(H) + Len(T) + Len(F) + Len(L)), D)
    <2>1. /\ H \in Seq(Byte) /\ T \in Seq(Byte) /\ F \in Seq(Byte)
          /\ L \in Seq(Byte) /\ D \in Seq(Byte)
      BY <1>2, <1>3, <1>5
    <2>2. Five(R, H, T, F, L, D)
      BY DEF Five
    <2> HIDE DEF R
    <2> QED
      BY ONLY <2>1, <2>2, FiveParts, SMTT(30)
  <1> HIDE DEF R
  <1>8. Len(R) = Len(H) + 10 + Len(D) /\ Len(R) \in Nat
    BY <1>4, <1>5, <1>7
  <1>9. ASSUME NEW s \in Seq(Byte), NEW o \in Nat, Has(s, o, R)
        PROVE  /\ o + Len(H) \in Nat /\ Has(s, o, H) /\ U16(s, o + Len(H) + 1) = r.type
               /\ U16(s, o + Len(H) + 9) = Len(D) /\ Has(s, o + Len(H) + 10, D)
    <2> DEFINE f == o + Len(H)
    <2>1. /\ f \in Nat /\ f + 8 \in Nat /\ (f + 8) + 1 = f + 9
          /\ o + (Len(H) + Len(T) + Len(F)) = f + 8
          /\ o + (Len(H) + Len(T) + Len(F) + Len(L)) = f + 10
      BY <1>4, <1>5
    <2>2. Has(s, o, H) /\ Has(s, f, T) /\ Has(s, f + 8, L) /\ Has(s, f + 10, D)
      <3>1. /\ Has(s, o, H) /\ Has(s, f, T)
            /\ Has(s, o + (Len(H) + Len(T) + Len(F)), L)
            /\ Has(s, o + (Len(H) + Len(T) + Len(F) + Len(L)), D)
        BY <1>7, <1>9
      <3> HIDE DEF f
      <3> QED
        BY <2>1, <3>1
    <2> HIDE DEF f
    <2>3. U16(s, f + 1) = r.type
      BY <1>1, <2>1, <2>2, HasNumber DEF T
    <2>4. U16(s, (f + 8) + 1) = Len(D)
      BY <1>4, <2>1, <2>2, HasNumber DEF L
    <2> QED
      BY <2>1, <2>2, <2>3, <2>4 DEF f
  <1> QED
    BY <1>1, <1>2, <1>3, <1>4, <1>6, <1>7, <1>8, <1>9 DEF H, D

LEMMA SeqWider ==
  ASSUME NEW S, NEW T, S \subseteq T, NEW v \in Seq(S)
  PROVE  v \in Seq(T)
  <1>1. Len(v) \in Nat /\ v = [i \in 1 .. Len(v) |-> v[i]] /\ \A i \in 1 .. Len(v) : v[i] \in T
    OBVIOUS
  <1> QED
    BY ONLY <1>1, IsASeq

LEMMA RecordsHead ==
  \A rs \in Seq(DNSRecords) :
    /\ Joined(RecordBytes, rs) \in Seq(Byte) /\ Joined(ListsOf, rs) \in Seq(Lists)
    /\ rs # <<>> =>
         /\ Joined(RecordBytes, rs) = Record(Head(rs)) \o Joined(RecordBytes, Tail(rs))
         /\ Joined(ListsOf, rs) = ListsOf[Head(rs)] \o Joined(ListsOf, Tail(rs))
         /\ ListsOf[Head(rs)] \in Seq(Lists)
  <1> TAKE rs \in Seq(DNSRecords)
  <1> DEFINE T == Lists
  <1>1. Makes(RecordBytes, DNSRecords, Byte)
    BY RecordFacts DEF Makes, RecordBytes
  <1>2. Makes(ListsOf, DNSRecords, T)
    <2> SUFFICES ASSUME NEW r \in DNSRecords PROVE ListsOf[r] \in Seq(T)
      BY DEF Makes
    <2>1. EchValues(r.params) \in Seq(T)
      <3>1. r.params \in Seq(DNSParams)
        BY RecordFacts
      <3>2. EchValues(r.params) \in Seq(Seq(Byte))
        BY <3>1, ParamsHead
      <3>3. Seq(Byte) \subseteq Lists
        BY DEF Lists
      <3> QED
        BY <3>2, <3>3, SeqWider
    <2>2. <<Lost>> \in Seq(T) /\ <<>> \in Seq(T)
      BY DEF Lists
    <2> HIDE DEF T
    <2> QED
      BY <2>1, <2>2 DEF ListsOf, ListsIn
  <1> HIDE DEF T
  <1>3. Joined(RecordBytes, rs) \in Seq(Byte)
    BY <1>1, JoinedType
  <1>4. Joined(ListsOf, rs) \in Seq(T)
    BY <1>2, JoinedType
  <1>5. ASSUME rs # <<>>
        PROVE  /\ Joined(RecordBytes, rs) = Record(Head(rs)) \o Joined(RecordBytes, Tail(rs))
               /\ Joined(ListsOf, rs) = ListsOf[Head(rs)] \o Joined(ListsOf, Tail(rs))
               /\ ListsOf[Head(rs)] \in Seq(T)
    <2>1. /\ Head(rs) \in DNSRecords
          /\ Joined(RecordBytes, rs) = RecordBytes[Head(rs)] \o Joined(RecordBytes, Tail(rs))
      BY ONLY <1>1, <1>5, rs \in Seq(DNSRecords), JoinedHead
    <2>2. Joined(ListsOf, rs) = ListsOf[Head(rs)] \o Joined(ListsOf, Tail(rs))
      BY ONLY <1>2, <1>5, rs \in Seq(DNSRecords), JoinedHead
    <2>3. RecordBytes[Head(rs)] = Record(Head(rs))
      BY <2>1 DEF RecordBytes
    <2>4. ListsOf[Head(rs)] \in Seq(T)
      BY <1>2, <2>1 DEF Makes
    <2> QED
      BY <2>1, <2>2, <2>3, <2>4
  <1> QED
    BY <1>3, <1>4, <1>5 DEF T

\* From offset o, over record r, to the records more.
RecordAhead(s, o, r, more) ==
  LET q == o + Len(Record(r))
  IN  /\ q \in Nat /\ q >= 12 /\ Has(s, q, Joined(RecordBytes, more))
      /\ \A k \in Nat : RecordAt(s, k + 1, o) =
           IF ListsOf[r] = <<>> THEN RecordAt(s, k, q) ELSE FirstOf(ListsOf[r])

LEMMA RecordAheadStep ==
  ASSUME NEW s \in Seq(Byte), NEW o \in Nat, o >= 12,
         NEW r \in DNSRecords, NEW more \in Seq(DNSRecords),
         NEW rs \in Seq(DNSRecords), rs # <<>>, r = Head(rs), more = Tail(rs),
         Has(s, o, Joined(RecordBytes, rs)), ~Mixed(r)
  PROVE  RecordAhead(s, o, r, more)
  <1> DEFINE x == Joined(RecordBytes, more)
             w == Record(r)
             D == DataBytes(r)
             f == o + Len(NameBytes(r))
             q == o + Len(w)
  <1>1. Joined(RecordBytes, rs) = w \o x /\ x \in Seq(Byte)
    BY RecordsHead
  <1>2. w \in Seq(Byte) /\ Len(w) \in Nat
    BY RecordFacts
  <1>3. Has(s, o, w) /\ Has(s, q, x)
    <2>1. Has(s, o, w \o x)
      BY <1>1
    <2> HIDE DEF w, x
    <2> QED
      BY <1>1, <1>2, <2>1, HasParts
  <1>4. /\ f \in Nat /\ Has(s, o, NameBytes(r)) /\ U16(s, f + 1) = r.type
        /\ U16(s, f + 9) = Len(D) /\ Has(s, f + 10, D)
        /\ D \in Seq(Byte) /\ Len(D) \in Nat
    <2>1. /\ f \in Nat /\ Has(s, o, NameBytes(r)) /\ U16(s, f + 1) = r.type
          /\ U16(s, f + 9) = Len(D) /\ Has(s, f + 10, D) /\ D \in Seq(Byte)
      BY <1>3, RecordFacts
    <2> HIDE DEF D
    <2> QED
      BY <2>1
  <1>5. AfterName(s, o) = f /\ o < Len(s)
    <2>1. Has(s, o, NameBytes(r)) /\ f = o + Len(NameBytes(r))
      BY <1>4
    <2> HIDE DEF f
    <2> QED
      <3>1. r.pointer \in BOOLEAN /\ r.name \in Seq(DNSLabels)
        BY ONLY r \in DNSRecords, RecordFacts
      <3> QED
        BY ONLY <2>1, <3>1, o >= 12, s \in Seq(Byte), o \in Nat, ~Mixed(r), NameThere
  <1>6. q = f + 10 + Len(D) /\ q \in Nat /\ q >= 12
    <2>1. Len(w) = Len(NameBytes(r)) + 10 + Len(D) /\ Len(NameBytes(r)) \in Nat
      <3>1. /\ Len(Record(r)) = Len(NameBytes(r)) + 10 + Len(DataBytes(r))
            /\ NameBytes(r) \in Seq(Byte)
        BY ONLY r \in DNSRecords, RecordFacts
      <3> QED
        BY ONLY <3>1
    <2> HIDE DEF w, D
    <2> QED
      BY <1>2, <2>1
  <1>7. FirstOf(EchValues(r.params)) = EchOf(D)
    BY RecordFacts
  <1> HIDE DEF x, w, D, f, q
  <1>8. f + 10 + Len(D) <= Len(s) /\ Len(s) \in Nat
    BY <1>4 DEF Has
  <1>9. ~(o >= Len(s)) /\ ~TornRecord(s, f)
    BY <1>4, <1>5, <1>8 DEF TornRecord
  <1>10. EchAt(s, f) = EchOf(D)
    <2>1. /\ f + 10 \in Nat /\ f + 11 \in Int /\ f + 10 + Len(D) \in Int
          /\ f + 11 = (f + 10) + 1 /\ f + 10 + Len(D) = (f + 10) + Len(D)
      BY <1>4
    <2>2. SubSeq(s, f + 11, f + 10 + Len(D)) = D
      BY <1>4, <2>1, HasPiece
    <2> QED
      BY <1>4, <2>2 DEF EchAt
  <1>11. ASSUME NEW k \in Nat
         PROVE  RecordAt(s, k + 1, o) =
                  IF ListsOf[r] = <<>> THEN RecordAt(s, k, q) ELSE FirstOf(ListsOf[r])
    <2>1. k + 1 \in Nat /\ k + 1 # 0 /\ (k + 1) - 1 = k
      OBVIOUS
    <2>2. RecordAt(s, k + 1, o) =
            IF Wanted(r.type, EchOf(D)) THEN EchOf(D) ELSE RecordAt(s, k, q)
      <3>1. RecordAt(s, k + 1, o) =
              IF Wanted(U16(s, f + 1), EchAt(s, f)) THEN EchAt(s, f)
              ELSE RecordAt(s, (k + 1) - 1, f + 10 + U16(s, f + 9))
        BY <1>5, <1>9, <2>1, RecordStep
      <3> QED
        BY <1>4, <1>6, <1>10, <2>1, <3>1
    <2>3. Wanted(r.type, EchOf(D)) <=> ListsOf[r] # <<>>
      BY <1>7 DEF Wanted, ListsOf, ListsIn, Mixed, FirstOf, Cut, Read
    <2>4. ListsOf[r] # <<>> => FirstOf(ListsOf[r]) = EchOf(D)
      BY <1>7 DEF ListsOf, ListsIn, Mixed
    <2> QED
      BY <2>2, <2>3, <2>4
  <1> QED
    BY <1>3, <1>6, <1>11 DEF RecordAhead, q, x, w

\* A name that mixes labels and a pointer comes before any list; then the
\* result v is left open.  Otherwise it is the first of the lists, or nothing.
Astray(lists) == lists # <<>> /\ Head(lists) = Lost
Right(v, lists) == Astray(lists) \/ v = FirstOf(lists)

LEMMA RecordsThere ==
  ASSUME NEW s \in Seq(Byte)
  PROVE  \A rs \in Seq(DNSRecords) : \A o \in Nat :
           o >= 12 /\ Has(s, o, Joined(RecordBytes, rs)) =>
             Right(RecordAt(s, Len(rs), o), Joined(ListsOf, rs))
  <1> DEFINE There(rs, o) == o >= 12 /\ Has(s, o, Joined(RecordBytes, rs))
             Good(rs, o) == Right(RecordAt(s, Len(rs), o), Joined(ListsOf, rs))
             P == {n \in Nat : \A rs \in Seq(DNSRecords) : \A o \in Nat :
                     Len(rs) = n /\ There(rs, o) => Good(rs, o)}
  <1>1. 0 \in P
    <2> SUFFICES ASSUME NEW rs \in Seq(DNSRecords), NEW o \in Nat, Len(rs) = 0
                 PROVE  Good(rs, o)
      OBVIOUS
    <2>1. rs = <<>>
      BY EmptySeq
    <2>2. Joined(ListsOf, rs) = <<>>
      BY <2>1, JoinedEmpty
    <2>3. RecordAt(s, 0, o) = Cut
      BY RecordStep
    <2> QED
      BY <2>2, <2>3 DEF FirstOf, Right
  <1>2. ASSUME NEW n \in P PROVE n + 1 \in P
    <2> SUFFICES ASSUME NEW rs \in Seq(DNSRecords), NEW o \in Nat, Len(rs) = n + 1, There(rs, o)
                 PROVE  Good(rs, o)
      OBVIOUS
    <2>1. rs # <<>> /\ n \in Nat
      OBVIOUS
    <2>2. PICK r \in DNSRecords, more \in Seq(DNSRecords) :
            rs # <<>> /\ r = Head(rs) /\ more = Tail(rs) /\ Len(more) = n
      <3>1. Head(rs) \in DNSRecords /\ Tail(rs) \in Seq(DNSRecords) /\ Len(Tail(rs)) = n
        BY ONLY <2>1, Len(rs) = n + 1, rs \in Seq(DNSRecords), HeadTailProperties
      <3> QED
        BY <2>1, <3>1
    <2>3. \A q \in Nat : There(more, q) => Good(more, q)
      BY <2>2
    <2> HIDE DEF There, Good
    <2>4. /\ FirstOf(Joined(ListsOf, rs)) =
               IF ListsOf[r] = <<>> THEN FirstOf(Joined(ListsOf, more)) ELSE FirstOf(ListsOf[r])
          /\ ListsOf[r] = <<>> => Joined(ListsOf, rs) = Joined(ListsOf, more)
          /\ ListsOf[r] # <<>> =>
               Joined(ListsOf, rs) # <<>> /\ Head(Joined(ListsOf, rs)) = Head(ListsOf[r])
      <3>1. ListsOf[r] \in Seq(Lists) /\ Joined(ListsOf, more) \in Seq(Lists)
        BY <2>2, RecordsHead
      <3>2. Joined(ListsOf, rs) = ListsOf[r] \o Joined(ListsOf, more)
        BY <2>2, RecordsHead
      <3> DEFINE first == ListsOf[r]
                 rest  == Joined(ListsOf, more)
      <3>a. first \in Seq(Lists) /\ rest \in Seq(Lists)
        BY <3>1
      <3>3. /\ FirstOf(first \o rest) = IF first = <<>> THEN FirstOf(rest) ELSE FirstOf(first)
            /\ first = <<>> => first \o rest = rest
            /\ first # <<>> => first \o rest # <<>> /\ Head(first \o rest) = Head(first)
        <4> HIDE DEF first, rest
        <4> QED
          BY <3>a, FirstOfConcat
      <3> QED
        BY <3>2, <3>3
    <2>5. CASE Mixed(r)
      <3>1. ListsOf[r] = <<Lost>> /\ <<Lost>> # <<>> /\ Head(<<Lost>>) = Lost
        BY <2>5 DEF ListsOf, ListsIn, Mixed
      <3> QED
        BY <2>4, <3>1 DEF Good, Right, Astray
    <2>6. CASE ~Mixed(r)
      <3>1. RecordAhead(s, o, r, more)
        BY <2>2, <2>6, RecordAheadStep DEF There
      <3> DEFINE q == o + Len(Record(r))
      <3>2. /\ q \in Nat /\ There(more, q)
            /\ RecordAt(s, n + 1, o) =
                 IF ListsOf[r] = <<>> THEN RecordAt(s, n, q) ELSE FirstOf(ListsOf[r])
        BY <2>1, <3>1 DEF RecordAhead, There
      <3> HIDE DEF q
      <3>3. Right(RecordAt(s, n, q), Joined(ListsOf, more))
        BY <2>2, <2>3, <3>2 DEF Good
      <3> QED
        BY <2>4, <3>2, <3>3 DEF Good, Right, Astray
    <2> QED
      BY <2>5, <2>6
  <1>3. P = Nat
    <2> HIDE DEF P
    <2>1. P \in SUBSET Nat
      BY DEF P
    <2> QED
      BY <1>1, <1>2, <2>1, NatSetInduction
  <1> TAKE rs \in Seq(DNSRecords)
  <1> TAKE o \in Nat
  <1>4. Len(rs) \in P
    BY <1>3
  <1> QED
    BY <1>4

\* The end of the question.
LEMMA QuestionThere ==
  ASSUME NEW s \in Seq(Byte), NEW name \in Seq(DNSLabels)
  PROVE  /\ Question(name) \in Seq(Byte) /\ Len(Question(name)) \in Nat
         /\ \A o \in Nat : Has(s, o, Question(name)) =>
              QuestionEnd(s, o) + 4 = o + Len(Question(name)) /\ QuestionEnd(s, o) \in Nat
  <1> DEFINE x == Labels(name)
  <1>1. PICK a, b, c \in Seq(Byte) :
          /\ a = << 0 >> /\ Len(a) = 1 /\ b = PutU16(TypeHTTPS) /\ Len(b) = 2
          /\ c = <<0, 1>> /\ Len(c) = 2
    <2>1. TypeHTTPS \in U16s
      BY ByteFacts DEF TypeHTTPS, U16s
    <2> QED
      BY <2>1, NumberBytes, SmallBytes
  <1>2. x \in Seq(Byte)
    BY LabelsHead
  <1> DEFINE w == ((x \o a) \o b) \o c
  <1>3. Question(name) = w
    BY <1>1 DEF Question
  <1> HIDE DEF x
  <1>4. /\ w \in Seq(Byte) /\ Len(w) = Len(x) + Len(a) + Len(b) + Len(c)
        /\ \A t \in Seq(Byte) : \A o \in Nat : Has(t, o, w) =>
             Has(t, o, x) /\ Has(t, o + Len(x), a)
    BY ONLY <1>2, a \in Seq(Byte), b \in Seq(Byte), c \in Seq(Byte), FourParts
  <1>5. Len(x) \in Nat
    BY <1>2
  <1> HIDE DEF w
  <1>6. Len(w) = Len(x) + 5 /\ Len(w) \in Nat
    BY <1>1, <1>4, <1>5
  <1>7. ASSUME NEW o \in Nat, Has(s, o, w)
        PROVE  QuestionEnd(s, o) + 4 = o + Len(w) /\ QuestionEnd(s, o) \in Nat
    <2>1. Has(s, o, x) /\ Has(s, o + Len(x), << 0 >>)
      BY <1>1, <1>4, <1>7
    <2>2. QuestionEnd(s, o) = o + Len(x) + 1
      BY <2>1, LabelsThere DEF x
    <2> QED
      BY <1>5, <1>6, <2>2
  <1> QED
    BY <1>3, <1>4, <1>6, <1>7

LEMMA ListsOfAnswer ==
  \A m \in DNSAnswers :
    /\ m.is = "dns" /\ m.question \in Seq(DNSLabels) /\ m.records \in Seq(DNSRecords)
    /\ Len(m.records) \in U16s
    /\ EchLists(m) = Joined(ListsOf, m.records)
    /\ FlattenSeq([i \in DOMAIN m.records |-> Record(m.records[i])]) =
         Joined(RecordBytes, m.records)
  <1> TAKE m \in DNSAnswers
  <1>1. /\ m.is = "dns" /\ m.question \in Seq(DNSLabels) /\ m.records \in Seq(DNSRecords)
        /\ Len(m.records) < Limit
    BY DEF DNSAnswers
  <1>2. Len(m.records) \in U16s
    <2>1. Len(m.records) \in Nat
      BY ONLY <1>1, LenProperties
    <2> QED
      BY <1>1, <2>1, ByteFacts DEF U16s
  <1>3. \A i \in DOMAIN m.records : m.records[i] \in DNSRecords
    BY <1>1
  <1>4. [i \in DOMAIN m.records |-> RecordBytes[m.records[i]]] =
          [i \in DOMAIN m.records |-> Record(m.records[i])]
    BY <1>3 DEF RecordBytes
  <1>5. [i \in DOMAIN m.records |-> ListsOf[m.records[i]]] =
          [i \in DOMAIN m.records |-> ListsIn(m.records[i])]
    BY <1>3 DEF ListsOf
  <1> QED
    BY <1>1, <1>2, <1>4, <1>5 DEF EchLists, Joined

\* The whole answer gives the first of its ECH lists, or nothing when it has none.
LEMMA ResponseRead ==
  ASSUME NEW m \in DNSAnswers
  PROVE  /\ Response(m) \in Seq(Byte) /\ Response(m) # <<>>
         /\ Right(ParseResponse(Response(m)), EchLists(m))
  <1> DEFINE n == Len(m.records)
             b == PutU16(n)
             d == Question(m.question)
             e == Joined(RecordBytes, m.records)
             w == Response(m)
  <1>1. PICK a, c \in Seq(Byte) :
          a = <<0, 1, 8, 1, 0, 1>> /\ Len(a) = 6 /\ c = <<0, 0, 0, 0>> /\ Len(c) = 4
    BY SmallBytes
  <1>2. /\ m.question \in Seq(DNSLabels) /\ m.records \in Seq(DNSRecords) /\ n \in U16s
        /\ EchLists(m) = Joined(ListsOf, m.records)
    BY ListsOfAnswer
  <1>3. b \in Seq(Byte) /\ Len(b) = 2
    <2> HIDE DEF n
    <2> QED
      BY <1>2, NumberBytes
  <1>4. d \in Seq(Byte) /\ e \in Seq(Byte) /\ Len(d) \in Nat /\ Len(e) \in Nat
    <2>1. d \in Seq(Byte)
      BY <1>1, <1>2, QuestionThere
    <2>2. e \in Seq(Byte)
      BY <1>2, RecordsHead
    <2> HIDE DEF d, e
    <2> QED
      BY <2>1, <2>2
  <1>5. Five(w, a, b, c, d, e)
    <2>1. FlattenSeq([i \in DOMAIN m.records |-> Record(m.records[i])]) = e
      BY ListsOfAnswer
    <2> HIDE DEF e
    <2> QED
      BY <1>1, <2>1 DEF Five, Response
  <1> HIDE DEF b, d, e, w
  <1>6. /\ w \in Seq(Byte) /\ Len(w) = Len(a) + Len(b) + Len(c) + Len(d) + Len(e)
        /\ \A s \in Seq(Byte) : \A o \in Nat :
             Has(s, o, w) =>
               /\ Has(s, o + Len(a), b)
               /\ Has(s, o + (Len(a) + Len(b) + Len(c)), d)
               /\ Has(s, o + (Len(a) + Len(b) + Len(c) + Len(d)), e)
    <2>1. /\ a \in Seq(Byte) /\ c \in Seq(Byte) /\ b \in Seq(Byte)
          /\ d \in Seq(Byte) /\ e \in Seq(Byte)
      BY <1>3, <1>4
    <2> QED
      BY ONLY <1>5, <2>1, FiveParts, SMTT(30)
  <1>7. Has(w, 6, b) /\ Has(w, 12, d) /\ Has(w, 12 + Len(d), e)
    <2>1. /\ Has(w, 0 + Len(a), b)
          /\ Has(w, 0 + (Len(a) + Len(b) + Len(c)), d)
          /\ Has(w, 0 + (Len(a) + Len(b) + Len(c) + Len(d)), e)
      <3>1. 0 \in Nat /\ Has(w, 0, w)
        BY <1>6, HasAll
      <3> QED
        BY <1>6, <3>1
    <2>2. /\ 0 + Len(a) = 6 /\ 0 + (Len(a) + Len(b) + Len(c)) = 12
          /\ 0 + (Len(a) + Len(b) + Len(c) + Len(d)) = 12 + Len(d)
      BY <1>1, <1>3, <1>4
    <2> QED
      BY <2>1, <2>2
  <1>8. Len(w) = 12 + Len(d) + Len(e) /\ Len(w) \in Nat
    BY <1>1, <1>3, <1>4, <1>6
  <1>9. U16(w, 7) = n
    <2>1. 6 \in Nat /\ 6 + 1 = 7
      OBVIOUS
    <2>2. U16(w, 6 + 1) = n
      <3> HIDE DEF n
      <3> QED
        BY <1>2, <1>6, <1>7, <2>1, HasNumber DEF b
    <2> QED
      BY <2>1, <2>2
  <1>10. AfterQuestionName(w) + 4 = 12 + Len(d) /\ AfterQuestionName(w) \in Nat
    <2>1. 12 \in Nat /\ Has(w, 12, d)
      BY <1>7
    <2>2. QuestionEnd(w, 12) + 4 = 12 + Len(d) /\ QuestionEnd(w, 12) \in Nat
      BY <1>2, <1>6, <2>1, QuestionThere DEF d
    <2> QED
      BY <2>2, AfterQuestionDef
  <1>11. ParseResponse(w) = IF n = 0 THEN Cut ELSE RecordAt(w, n, 12 + Len(d))
    <2>1. ~(Len(w) < 12 \/ AfterQuestionName(w) = -1 \/ AfterQuestionName(w) + 4 > Len(w))
      BY <1>4, <1>8, <1>10
    <2> QED
      BY <1>9, <1>10, <2>1, ParseResponseDef
  <1>12. Right(RecordAt(w, n, 12 + Len(d)), Joined(ListsOf, m.records))
    <2>1. 12 + Len(d) \in Nat /\ 12 + Len(d) >= 12
      BY <1>4
    <2> QED
      BY <1>2, <1>6, <1>7, <2>1, RecordsThere DEF e
  <1>13. n = 0 => FirstOf(Joined(ListsOf, m.records)) = Cut
    <2>1. n = 0 => m.records = <<>>
      BY <1>2, EmptySeq
    <2> QED
      BY <2>1, JoinedEmpty DEF FirstOf
  <1> HIDE DEF n
  <1>14. w # <<>>
    BY <1>4, <1>8
  <1> QED
    BY <1>2, <1>6, <1>11, <1>12, <1>13, <1>14 DEF w, Right
-----------------------------------------------------------------------------
(* The invariant of an answer: what is on the way is a part of it. *)

Carried(m) ==
  \/ todo = <<m>> /\ written = <<>>
  \/ todo = <<>> /\ written = <<m>>

AnswerAt(m) ==
  /\ wire \in Seq(Byte) /\ PartOf(wire, Response(m))
  /\ todo # <<>> /\ ~cut => wire = <<>> /\ read = <<>>
  /\ todo = <<>> /\ ~cut /\ read = <<>> => wire = Response(m)
  /\ read # <<>> => wire = <<>> /\ EchLists(m) # <<>> /\ read = <<Head(EchLists(m))>>
  /\ reader = "over" /\ read = <<>> => cut \/ EchLists(m) = <<>>

AnswerInv ==
  format = "dns" =>
    \E m \in DNSAnswers : Carried(m) /\ (Astray(EchLists(m)) \/ AnswerAt(m))

LEMMA NothingRead ==
  ASSUME NEW m \in DNSAnswers
  PROVE  <<>> \in Seq(Byte) /\ PartOf(<<>>, Response(m)) /\ PartOf(Response(m), Response(m))
  <1>1. Response(m) \in Seq(Byte)
    BY ResponseRead
  <1> DEFINE w == Response(m)
  <1> HIDE DEF w
  <1>2. w \in Seq(Byte) /\ Len(w) \in Nat /\ Len(w) >= 0
    BY <1>1 DEF w
  <1>3. <<>> \in Seq(Byte) /\ Len(<<>>) = 0
    OBVIOUS
  <1> QED
    BY <1>2, <1>3 DEF PartOf, w

\* What is made of a part of the answer: its first ECH list, or nothing.
LEMMA AnswerDecoded ==
  ASSUME NEW m \in DNSAnswers, format = "dns", AnswerAt(m), ~Astray(EchLists(m))
  PROVE  /\ Decoded = Cut \/ Decoded = FirstOf(EchLists(m))
         /\ wire = Response(m) => Decoded = FirstOf(EchLists(m))
         /\ Decoded.ok => /\ EchLists(m) # <<>> /\ Decoded.value = Head(EchLists(m))
                          /\ Decoded.rest = <<>>
  <1>1. Decoded = ParseResponse(wire)
    BY DEF Decoded
  <1>2. wire \in Seq(Byte) /\ PartOf(wire, Response(m)) /\ Response(m) \in Seq(Byte)
    BY ResponseRead DEF AnswerAt
  <1>3. ParseResponse(Response(m)) = FirstOf(EchLists(m))
    BY ResponseRead DEF Right
  <1>4. Decoded = Cut \/ Decoded = FirstOf(EchLists(m))
    BY <1>1, <1>2, <1>3, ResponsePart
  <1>5. Decoded.ok => Decoded = Read(Head(EchLists(m)), <<>>) /\ EchLists(m) # <<>>
    BY <1>4 DEF FirstOf, Cut
  <1> QED
    BY <1>1, <1>3, <1>4, <1>5 DEF Read

LEMMA AnswerInit == FormatsInit => AnswerInv
  <1> SUFFICES ASSUME FormatsInit, format = "dns"
               PROVE  \E m \in DNSAnswers : Carried(m) /\ AnswerAt(m)
    BY DEF AnswerInv
  <1>1. PICK c \in Conversations : format = c.format /\ todo = c.messages
    BY DEF FormatsInit
  <1>2. todo \in Seq(DNSAnswers) /\ Len(todo) = 1
    BY <1>1, ConversationsAssumption
  <1>3. PICK m \in DNSAnswers : todo = <<m>>
    <2>1. 1 \in 1 .. Len(todo) /\ todo[1] \in DNSAnswers
      BY <1>2
    <2>2. todo = <<todo[1]>>
      BY <1>2
    <2> QED
      BY <2>1, <2>2
  <1>4. /\ wire = <<>> /\ written = <<>> /\ read = <<>> /\ cut = FALSE /\ reader = "read"
        /\ todo # <<>>
    BY <1>3 DEF FormatsInit
  <1>5. Carried(m) /\ AnswerAt(m)
    BY <1>3, <1>4, NothingRead DEF Carried, AnswerAt
  <1> QED
    BY <1>5

\* The answer is written or not yet, whatever is made of it.
LEMMA CarriedStep ==
  ASSUME NEW m \in DNSAnswers, Carried(m), [FormatsNext]_FormatsVars
  PROVE  Carried(m)'
  <1>1. CASE Write
    <2>1. /\ todo # <<>> /\ written' = Append(written, Head(todo)) /\ todo' = Tail(todo)
      BY <1>1 DEF Write, Ready
    <2>2. todo = <<m>> /\ written = <<>>
      BY <2>1 DEF Carried
    <2>3. Append(<<>>, m) = <<m>> /\ Head(<<m>>) = m /\ Tail(<<m>>) = <<>>
      OBVIOUS
    <2> QED
      BY <2>1, <2>2, <2>3 DEF Carried
  <1>2. CASE ~Write
    <2>1. UNCHANGED <<todo, written>>
      BY <1>2 DEF FormatsNext, FormatsVars, Refuse, WriteFails, ReadNext, Skip, ReadFails
    <2> QED
      BY <2>1 DEF Carried
  <1> QED
    BY <1>1, <1>2

LEMMA AnswerStep == AnswerInv /\ [FormatsNext]_FormatsVars => AnswerInv'
  <1> SUFFICES ASSUME AnswerInv, [FormatsNext]_FormatsVars, format' = "dns"
               PROVE  \E m \in DNSAnswers :
                        Carried(m)' /\ (Astray(EchLists(m)) \/ AnswerAt(m)')
    BY DEF AnswerInv
  <1>0. format = "dns"
    BY DEF FormatsNext, FormatsVars, Write, Refuse, WriteFails, ReadNext, Skip, ReadFails
  <1>a. PICK m \in DNSAnswers : Carried(m) /\ (Astray(EchLists(m)) \/ AnswerAt(m))
    BY <1>0 DEF AnswerInv
  <1>2. SUFFICES ASSUME ~Astray(EchLists(m)) PROVE AnswerAt(m)'
    BY <1>a, CarriedStep
  <1>1. AnswerAt(m)
    BY <1>a, <1>2
  <1>3. /\ \/ todo = <<m>> /\ written = <<>>
           \/ todo = <<>> /\ written = <<m>>
        /\ wire \in Seq(Byte) /\ PartOf(wire, Response(m))
        /\ todo # <<>> /\ ~cut => wire = <<>> /\ read = <<>>
        /\ todo = <<>> /\ ~cut /\ read = <<>> => wire = Response(m)
        /\ read # <<>> => wire = <<>> /\ EchLists(m) # <<>> /\ read = <<Head(EchLists(m))>>
        /\ reader = "over" /\ read = <<>> => cut \/ EchLists(m) = <<>>
    BY <1>1, <1>a DEF AnswerAt, Carried
  <1>4. m.is = "dns" /\ Encoded(m) = Response(m) /\ Response(m) \in Seq(Byte)
    BY ListsOfAnswer, ResponseRead DEF Encoded
  <1>5. todo # <<>> => Head(todo) = m /\ Tail(todo) = <<>> /\ written = <<>>
    <2>1. Head(<<m>>) = m /\ Tail(<<m>>) = <<>>
      OBVIOUS
    <2>2. todo # <<>> => todo = <<m>> /\ written = <<>>
      BY <1>3
    <2> QED
      BY <2>1, <2>2
  <1>6. CASE Write
    <2>1. /\ todo # <<>> /\ ~cut /\ reader = "read" /\ wire' = wire \o Encoded(Head(todo))
          /\ written' = Append(written, Head(todo)) /\ todo' = Tail(todo)
          /\ UNCHANGED <<format, read, cut, reader>>
      BY <1>6 DEF Write, Ready
    <2>2. wire' = Response(m)
      BY <1>3, <1>4, <1>5, <2>1, ConcatEmptySeq
    <2>3. written' = <<m>> /\ todo' = <<>> /\ read' = <<>>
      BY <1>3, <1>5, <2>1
    <2> QED
      BY <1>4, <2>1, <2>2, <2>3, NothingRead DEF AnswerAt
  <1>7. CASE Refuse
    BY <1>0, <1>7 DEF Refuse, OnStream
  <1>8. CASE WriteFails
    <2>1. /\ todo # <<>> /\ ~cut /\ reader = "read"
          /\ \E n \in 0 .. Len(Encoded(Head(todo))) - 1 :
               wire' = wire \o SubSeq(Encoded(Head(todo)), 1, n)
          /\ cut' = TRUE /\ UNCHANGED <<format, todo, written, read, reader>>
      BY <1>8 DEF WriteFails, Ready
    <2>2. wire = <<>> /\ read = <<>>
      BY <1>3, <2>1
    <2> DEFINE w == Response(m)
    <2> HIDE DEF w
    <2>3. w \in Seq(Byte) /\ Len(w) \in Nat
      BY <1>4 DEF w
    <2>4. PICK n \in 0 .. Len(w) - 1 : wire' = wire \o SubSeq(w, 1, n)
      BY <1>4, <1>5, <2>1 DEF w
    <2>5. /\ SubSeq(w, 1, n) \in Seq(Byte) /\ Len(SubSeq(w, 1, n)) = n
          /\ \A i \in 1 .. n : SubSeq(w, 1, n)[i] = w[i]
      <3>1. n \in 0 .. Len(w)
        BY <2>3
      <3> QED
        BY <2>3, <3>1, HeadPart
    <2>6. wire' = SubSeq(w, 1, n)
      BY <2>2, <2>4, <2>5, ConcatEmptySeq
    <2>7. wire' \in Seq(Byte) /\ PartOf(wire', w)
      BY <2>3, <2>5, <2>6 DEF PartOf
    <2> QED
      BY <1>3, <2>1, <2>2, <2>7 DEF AnswerAt, w
  <1>9. CASE ReadNext
    <2>1. /\ wire # <<>> /\ Decoded.ok
          /\ read' = Append(read, Decoded.value) /\ wire' = Decoded.rest
          /\ UNCHANGED <<format, todo, written, cut, reader>>
      BY <1>9 DEF ReadNext
    <2>2. EchLists(m) # <<>> /\ Decoded.value = Head(EchLists(m)) /\ Decoded.rest = <<>>
      BY <1>0, <1>1, <1>2, <2>1, AnswerDecoded
    <2>3. read = <<>> /\ read' = <<Head(EchLists(m))>> /\ wire' = <<>>
      <3>1. \A v : Append(<<>>, v) = <<v>>
        OBVIOUS
      <3>2. read = <<>>
        BY <1>3, <2>1
      <3> QED
        BY <2>1, <2>2, <3>1, <3>2
    <2>4. ~(todo # <<>> /\ ~cut)
      BY <1>3, <2>1
    <2> QED
      BY <1>3, <2>1, <2>2, <2>3, <2>4, NothingRead DEF AnswerAt
  <1>10. CASE Skip
    BY <1>0, <1>10 DEF Skip
  <1>11. CASE ReadFails
    <2>1. /\ cut \/ todo = <<>> \/ (format = "dns" /\ wire # <<>>)
          /\ ~Decoded.ok /\ UNCHANGED <<format, todo, wire, written, read, cut>>
      BY <1>11 DEF ReadFails
    <2>2. ASSUME read = <<>>, ~cut PROVE EchLists(m) = <<>>
      <3>1. wire = Response(m)
        BY <1>3, <2>1, <2>2
      <3>2. Decoded = FirstOf(EchLists(m))
        BY <1>0, <1>1, <1>2, <3>1, AnswerDecoded
      <3> QED
        BY <2>1, <3>2 DEF FirstOf, Read
    <2> QED
      BY <1>3, <2>1, <2>2 DEF AnswerAt
  <1>12. CASE UNCHANGED FormatsVars
    BY <1>3, <1>12 DEF FormatsVars, AnswerAt
  <1> QED
    BY <1>6, <1>7, <1>8, <1>9, <1>10, <1>11, <1>12 DEF FormatsNext

\* The ECH list that is found is the first one of the answer, whatever comes
\* after it, and there is none only when the answer has none; of an answer that
\* was cut off it is that one or none.  Any name may have labels, a pointer, or
\* both; nothing is promised only of an answer in which a name that has both
\* comes before the list, or in one without a list.
THEOREM EchFoundCorrect == FormatsSpec => []EchFound
  <1>1. AnswerInv => EchFound
    <2> SUFFICES ASSUME AnswerInv, format = "dns"
                 PROVE  LET lists == EchLists(Head(written \o todo))
                        IN  \/ Astray(lists)
                            \/ /\ read # <<>> => lists # <<>> /\ read = <<Head(lists)>>
                               /\ reader = "over" /\ read = <<>> => cut \/ lists = <<>>
      BY DEF EchFound, Astray
    <2>1. PICK m \in DNSAnswers : Carried(m) /\ (Astray(EchLists(m)) \/ AnswerAt(m))
      BY DEF AnswerInv
    <2>2. written \o todo = <<m>>
      <3>1. <<m>> \in Seq(DNSAnswers)
        OBVIOUS
      <3>2. <<m>> \o <<>> = <<m>> /\ <<>> \o <<m>> = <<m>>
        BY ONLY <3>1, ConcatEmptySeq
      <3>3. (todo = <<m>> /\ written = <<>>) \/ (todo = <<>> /\ written = <<m>>)
        BY <2>1 DEF Carried
      <3> QED
        BY <3>2, <3>3
    <2>3. Head(written \o todo) = m
      BY <2>2
    <2> QED
      BY <2>1, <2>3 DEF AnswerAt
  <1> QED
    BY <1>1, AnswerInit, AnswerStep, PTL DEF FormatsSpec
=============================================================================
