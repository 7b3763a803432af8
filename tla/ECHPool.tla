------------------------------- MODULE ECHPool ------------------------------
(***************************************************************************)
(* The client's pool of channels (cmd/client/main.go, ECHPool): one        *)
(* goroutine per channel dials, installs a smux session in its slot,       *)
(* watches it and replaces it; a probe goroutine per session measures its  *)
(* round trip; openBestStream scans the slots, picks one of the fastest    *)
(* channels, reads its slot again and opens a stream on what is there.     *)
(*                                                                         *)
(* A session is named by its channel and its number.  The server answers   *)
(* or refuses a probe as it likes (see Tunnel for what it does to one).    *)
(***************************************************************************)
EXTENDS Integers, FiniteSets

CONSTANTS
  N,               \* number of channels (concur)
  Callers,         \* goroutines that call openBestStream, once each
  Rtts,            \* round trips a probe can measure
  DialTimeout,     \* the round trip of a channel that does not answer
  TieWindow,       \* round trips this close count as equal
  MaxSessions      \* bound: sessions of one channel

ASSUME PoolAssumption ==
  /\ N \in Nat \ {0} /\ MaxSessions \in Nat
  /\ Rtts \subseteq Nat \ {0}
  /\ DialTimeout \in Nat \ {0} /\ TieWindow \in Nat

Chans == 1 .. N
Sessions == Chans \X (1 .. MaxSessions)

\* No session: the value of a nil slot.
Nil == 0

VARIABLES
  serve,           \* where dialAndServe of each channel is
  last,            \* number of the newest session of each channel
  smuxConns,       \* number of the session in each slot, or Nil
  channelRTT,      \* the published round trip of each channel, 0 if unknown
  rttOf,           \* history: the session that round trip was measured on
  probe,           \* where the probe goroutine of each session is
  dead,            \* sessions whose WSNetConn has signalled Dead
  closed,          \* sessions that are closed
  selectCounter,   \* streams asked for so far
  call,            \* where each caller is, or how its call ended
  cands,           \* the candidates each caller has seen: [idx, num, rtt]
  best             \* the candidate it picked

chanVars == <<serve, last, smuxConns>>
rttVars == <<channelRTT, rttOf>>
callVars == <<selectCounter, call, cands, best>>
vars == <<chanVars, rttVars, probe, dead, closed, callVars>>

Init ==
  /\ serve = [i \in Chans |-> "dial"]
  /\ last = [i \in Chans |-> 0]
  /\ smuxConns = [i \in Chans |-> Nil]
  /\ channelRTT = [i \in Chans |-> 0]
  /\ rttOf = [i \in Chans |-> Nil]
  /\ probe = [s \in Sessions |-> "off"]
  /\ dead = {}
  /\ closed = {}
  /\ selectCounter = 0
  /\ call = [c \in Callers |-> "scan"]
  /\ cands = [c \in Callers |-> {}]
  /\ best = [c \in Callers |-> <<>>]

\* The session dialAndServe of a channel is working on.
Sess(i) == <<i, last[i]>>

Publish(s, rtt) ==
  /\ channelRTT' = [channelRTT EXCEPT ![s[1]] = rtt]
  /\ rttOf' = [rttOf EXCEPT ![s[1]] = s[2]]
-----------------------------------------------------------------------------
(* dialAndServe; a dial that fails changes nothing *)

\* The session goes into the slot, its round trip unknown.
Install(i) ==
  /\ serve[i] = "dial"
  /\ last[i] < MaxSessions
  /\ last' = [last EXCEPT ![i] = @ + 1]
  /\ smuxConns' = [smuxConns EXCEPT ![i] = last[i] + 1]
  /\ channelRTT' = [channelRTT EXCEPT ![i] = 0]
  /\ rttOf' = [rttOf EXCEPT ![i] = Nil]
  /\ serve' = [serve EXCEPT ![i] = "probe"]
  /\ UNCHANGED <<probe, dead, closed, callVars>>

\* The first probe is made before the probe goroutine is started; the link may
\* die between its answer and the publication.
FirstProbe(i) ==
  /\ serve[i] = "probe"
  /\ \/ UNCHANGED rttVars
     \/ \E rtt \in Rtts : Publish(Sess(i), rtt)
  /\ probe' = [probe EXCEPT ![Sess(i)] = "probing"]
  /\ serve' = [serve EXCEPT ![i] = "watch"]
  /\ UNCHANGED <<last, smuxConns, dead, closed, callVars>>

WatchDone(i) ==
  /\ serve[i] = "watch"
  /\ probe[Sess(i)] = "exited"
  /\ serve' = [serve EXCEPT ![i] = "close"]
  /\ UNCHANGED <<last, smuxConns, rttVars, probe, dead, closed, callVars>>

\* Mutants: the session stays open; the probe goroutine is not waited for.
WatchDeadOpen(i) ==
  /\ serve[i] = "watch"
  /\ Sess(i) \in dead
  /\ serve' = [serve EXCEPT ![i] = "drain"]
  /\ UNCHANGED <<last, smuxConns, rttVars, probe, dead, closed, callVars>>
WatchDeadNoWait(i) ==
  /\ serve[i] = "watch"
  /\ Sess(i) \in dead
  /\ closed' = closed \cup {Sess(i)}
  /\ serve' = [serve EXCEPT ![i] = "close"]
  /\ UNCHANGED <<last, smuxConns, rttVars, probe, dead, callVars>>

\* The WSNetConn is dead: the session is closed and the probe waited for.
WatchDead(i) ==
  /\ serve[i] = "watch"
  /\ Sess(i) \in dead
  /\ closed' = closed \cup {Sess(i)}
  /\ serve' = [serve EXCEPT ![i] = "drain"]
  /\ UNCHANGED <<last, smuxConns, rttVars, probe, dead, callVars>>

Drain(i) ==
  /\ serve[i] = "drain"
  /\ probe[Sess(i)] = "exited"
  /\ serve' = [serve EXCEPT ![i] = "close"]
  /\ UNCHANGED <<last, smuxConns, rttVars, probe, dead, closed, callVars>>

\* Closing the session closes its WSNetConn.
CloseSess(i) ==
  /\ serve[i] = "close"
  /\ closed' = closed \cup {Sess(i)}
  /\ dead' = dead \cup {Sess(i)}
  /\ serve' = [serve EXCEPT ![i] = "clear"]
  /\ UNCHANGED <<last, smuxConns, rttVars, probe, callVars>>

\* Mutants: the slot is emptied first; the round trip is left.
ClearEarly(i) ==
  /\ serve[i] \in {"watch", "clear"}
  /\ serve[i] = "watch" => Sess(i) \in dead
  /\ smuxConns' = [smuxConns EXCEPT ![i] = Nil]
  /\ channelRTT' = [channelRTT EXCEPT ![i] = 0]
  /\ rttOf' = [rttOf EXCEPT ![i] = Nil]
  /\ serve' = [serve EXCEPT ![i] = IF @ = "watch" THEN "watch" ELSE "dial"]
  /\ UNCHANGED <<last, probe, dead, closed, callVars>>
ClearSlotOnly(i) ==
  /\ serve[i] = "clear"
  /\ smuxConns' = [smuxConns EXCEPT ![i] = Nil]
  /\ serve' = [serve EXCEPT ![i] = "dial"]
  /\ UNCHANGED <<last, rttVars, probe, dead, closed, callVars>>

Clear(i) ==
  /\ serve[i] = "clear"
  /\ smuxConns' = [smuxConns EXCEPT ![i] = Nil]
  /\ channelRTT' = [channelRTT EXCEPT ![i] = 0]
  /\ rttOf' = [rttOf EXCEPT ![i] = Nil]
  /\ serve' = [serve EXCEPT ![i] = "dial"]
  /\ UNCHANGED <<last, probe, dead, closed, callVars>>
-----------------------------------------------------------------------------
(* probeChannelRTT *)

\* The answer has come and the round trip is measured.
ProbeAnswer(s) ==
  /\ probe[s] = "probing"
  /\ s \notin closed \cup dead
  /\ probe' = [probe EXCEPT ![s] = "answered"]
  /\ UNCHANGED <<chanVars, rttVars, dead, closed, callVars>>

\* It is published, whatever has become of the session since.
ProbeOk(s) ==
  /\ probe[s] = "answered"
  /\ \E rtt \in Rtts : Publish(s, rtt)
  /\ probe' = [probe EXCEPT ![s] = "tick"]
  /\ UNCHANGED <<chanVars, dead, closed, callVars>>

\* The goroutine goes on until the session is closed.
ProbeErr(s) ==
  /\ probe[s] = "probing"
  /\ Publish(s, DialTimeout)
  /\ probe' = [probe EXCEPT ![s] = IF s \in closed THEN "exited" ELSE "tick"]
  /\ UNCHANGED <<chanVars, dead, closed, callVars>>

Tick(s) ==
  /\ probe[s] = "tick"
  /\ probe' = [probe EXCEPT ![s] = "probing"]
  /\ UNCHANGED <<chanVars, rttVars, dead, closed, callVars>>
-----------------------------------------------------------------------------
(* openBestStream, openTCPStream and openUDPStream *)

Candidate == [idx : Chans, num : 0 .. MaxSessions, rtt : Nat]

\* A round trip that is not known counts as the worst.
Effective(rtt) == IF rtt <= 0 THEN DialTimeout ELSE rtt

Candidates ==
  {[idx |-> i, num |-> smuxConns[i], rtt |-> Effective(channelRTT[i])] :
     i \in {j \in Chans : smuxConns[j] # Nil /\ <<j, smuxConns[j]>> \notin closed}}

\* The scan of the slots, under the read lock.
Scan(c) ==
  /\ call[c] = "scan"
  /\ cands' = [cands EXCEPT ![c] = Candidates]
  /\ call' = [call EXCEPT ![c] = IF Candidates = {} THEN "none" ELSE "pick"]
  /\ UNCHANGED <<chanVars, rttVars, probe, dead, closed, selectCounter, best>>

Near(set) ==
  LET minRTT == CHOOSE m \in {x.rtt : x \in set} : \A y \in set : m <= y.rtt
  IN  {x \in set : x.rtt <= minRTT + TieWindow}

\* The k-th of a set of candidates, from 0, in the order of the slots.
Kth(set, k) == CHOOSE x \in set : Cardinality({y \in set : y.idx < x.idx}) = k

\* The near candidates are taken in turn; the slot of the one is read again.
Pick(c) ==
  /\ call[c] = "pick"
  /\ LET near == Near(cands[c])
         x == Kth(near, selectCounter % Cardinality(near))
         now == smuxConns[x.idx]
     IN  /\ best' = [best EXCEPT ![c] = [x EXCEPT !.num = now]]
         /\ call' = [call EXCEPT ![c] =
              IF now = Nil \/ <<x.idx, now>> \in closed THEN "unusable" ELSE "open"]
  /\ selectCounter' = selectCounter + 1
  /\ UNCHANGED <<chanVars, rttVars, probe, dead, closed, cands>>

\* OpenStream, and the header openTCPStream or openUDPStream writes.
Open(c) ==
  LET s == <<best[c].idx, best[c].num>>
  IN  /\ call[c] = "open"
      /\ \/ s \notin closed /\ call' = [call EXCEPT ![c] = "stream"]
         \/ s \in closed \cup dead /\ call' = [call EXCEPT ![c] = "error"]
      /\ UNCHANGED <<chanVars, rttVars, probe, dead, closed, selectCounter,
                     cands, best>>
-----------------------------------------------------------------------------
(* The link of a session *)

Exists(s) == s[2] <= last[s[1]]

\* The websocket fails.
LinkDies(s) ==
  /\ Exists(s)
  /\ s \notin dead
  /\ dead' = dead \cup {s}
  /\ UNCHANGED <<chanVars, rttVars, probe, closed, callVars>>

\* smux gives the link up by itself.
SmuxCloses(s) ==
  /\ Exists(s)
  /\ s \notin closed
  /\ closed' = closed \cup {s}
  /\ dead' = dead \cup {s}
  /\ UNCHANGED <<chanVars, rttVars, probe, callVars>>

ServeStep(i) ==
  \/ Install(i) \/ FirstProbe(i) \/ WatchDone(i) \/ WatchDead(i)
  \/ Drain(i) \/ CloseSess(i) \/ Clear(i)

ProbeStep(s) == ProbeAnswer(s) \/ ProbeOk(s) \/ ProbeErr(s) \/ Tick(s)

CallStep(c) == Scan(c) \/ Pick(c) \/ Open(c)

Next ==
  \/ \E i \in Chans : ServeStep(i)
  \/ \E s \in Sessions : ProbeStep(s) \/ LinkDies(s) \/ SmuxCloses(s)
  \/ \E c \in Callers : CallStep(c)

Spec == Init /\ [][Next]_vars

\* A probe ends by its deadline, the ticker ticks, and a dial that keeps being
\* tried succeeds in the end.  No link has to fail.
Fairness ==
  /\ \A i \in Chans : WF_vars(ServeStep(i))
  /\ \A s \in Sessions : WF_vars(ProbeStep(s))
  /\ \A c \in Callers : WF_vars(CallStep(c))

FairSpec == Spec /\ Fairness
-----------------------------------------------------------------------------
(* Properties *)

\* Every variable has its type.
TypeOK ==
  /\ serve \in [Chans -> {"dial", "probe", "watch", "drain", "close", "clear"}]
  /\ last \in [Chans -> 0 .. MaxSessions]
  /\ smuxConns \in [Chans -> 0 .. MaxSessions]
  /\ channelRTT \in [Chans -> Rtts \cup {0, DialTimeout}]
  /\ rttOf \in [Chans -> 0 .. MaxSessions]
  /\ probe \in [Sessions -> {"off", "probing", "answered", "tick", "exited"}]
  /\ dead \subseteq Sessions /\ closed \subseteq Sessions
  /\ selectCounter \in Nat
  /\ call \in [Callers -> {"scan", "none", "pick", "unusable", "open", "error", "stream"}]
  /\ cands \in [Callers -> SUBSET Candidate] /\ best \in [Callers -> Candidate \cup {<<>>}]

\* A published round trip was measured on the session in the slot: the probe of
\* an earlier session never overwrites it, and an empty slot has none.
RttOfSlot ==
  \A i \in Chans : channelRTT[i] # 0 => rttOf[i] = smuxConns[i]

\* A session that is no longer in its slot is closed, and its probe has ended.
NoneLeftOpen ==
  \A s \in Sessions : Exists(s) /\ smuxConns[s[1]] # s[2] =>
    s \in closed /\ probe[s] \in {"off", "exited"}

\* A channel is found unusable only when the session that was scanned has
\* been closed since.
FailureExplained ==
  \A c \in Callers : call[c] = "unusable" =>
    \E x \in cands[c] : x.idx = best[c].idx /\ <<x.idx, x.num>> \in closed

\* A session whose link has died leaves its slot: what is dead stays dead.
SlotRecovers ==
  \A i \in Chans : (<<i, smuxConns[i]>> \in dead) ~> (<<i, smuxConns[i]>> \notin dead)
=============================================================================
