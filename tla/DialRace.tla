------------------------------ MODULE DialRace ------------------------------
(***************************************************************************)
(* The connection race of internal/relay/dial.go, DialTCPWithRace with     *)
(* concur > 1: one goroutine per attempt dials and hands its connection    *)
(* over through resultCh; the caller keeps the first, cancels the others,  *)
(* and closes what still comes.  A goroutine of its own closes resultCh    *)
(* when every attempt is over.                                             *)
(***************************************************************************)
EXTENDS Integers, FiniteSets, Sequences

CONSTANTS
  Dialers,         \* the attempts; each makes at most one connection
  None             \* a nil connection

ASSUME DialersAssumption == IsFiniteSet(Dialers) /\ None \notin Dialers

\* The capacity of resultCh.
Concur == Cardinality(Dialers)

VARIABLES
  pc,              \* where each attempt is
  conn,            \* the connection of each attempt: none, open or closed
  resultCh,        \* the connections handed over and not received
  resultClosed,    \* resultCh is closed
  cancelled,       \* ctx is cancelled
  winner,          \* the connection the caller keeps
  main             \* the caller: range or returned

vars == <<pc, conn, resultCh, resultClosed, cancelled, winner, main>>

Init ==
  /\ pc = [d \in Dialers |-> "dial"]
  /\ conn = [d \in Dialers |-> "none"]
  /\ resultCh = <<>>
  /\ resultClosed = FALSE
  /\ cancelled = FALSE
  /\ winner = None
  /\ main = "range"
-----------------------------------------------------------------------------
(* An attempt *)

\* DialContext fails, because of the network, the timeout or ctx.
DialFail(d) ==
  /\ pc[d] = "dial"
  /\ pc' = [pc EXCEPT ![d] = "failed"]
  /\ UNCHANGED <<conn, resultCh, resultClosed, cancelled, winner, main>>

\* DialContext succeeds; ctx may have been cancelled too late to stop it.
DialOk(d) ==
  /\ pc[d] = "dial"
  /\ pc' = [pc EXCEPT ![d] = "select"]
  /\ conn' = [conn EXCEPT ![d] = "open"]
  /\ UNCHANGED <<resultCh, resultClosed, cancelled, winner, main>>

\* The select of the attempt: resultCh has room.
Send(d) ==
  /\ pc[d] = "select"
  /\ ~resultClosed
  /\ Len(resultCh) < Concur
  /\ resultCh' = Append(resultCh, d)
  /\ pc' = [pc EXCEPT ![d] = "sent"]
  /\ UNCHANGED <<conn, resultClosed, cancelled, winner, main>>

\* Mutant: the connection is left to the garbage collector.
GiveUpQuietly(d) ==
  /\ pc[d] = "select"
  /\ cancelled
  /\ pc' = [pc EXCEPT ![d] = "gaveUp"]
  /\ UNCHANGED <<conn, resultCh, resultClosed, cancelled, winner, main>>

\* The select of the attempt: ctx is cancelled.
GiveUp(d) ==
  /\ pc[d] = "select"
  /\ cancelled
  /\ conn' = [conn EXCEPT ![d] = "closed"]
  /\ pc' = [pc EXCEPT ![d] = "gaveUp"]
  /\ UNCHANGED <<resultCh, resultClosed, cancelled, winner, main>>

\* Mutant: giving up is not counted.
OverIfDelivered(d) == pc[d] \in {"failed", "sent"}

\* The attempt's wg.Done has run.
Over(d) == pc[d] \in {"failed", "sent", "gaveUp"}

\* Mutant: the first attempt that is over closes resultCh.
CloseResultEarly ==
  /\ ~resultClosed
  /\ \E d \in Dialers : Over(d)
  /\ resultClosed' = TRUE
  /\ UNCHANGED <<pc, conn, resultCh, cancelled, winner, main>>

\* wg.Wait returned: no attempt will send again.
CloseResult ==
  /\ ~resultClosed
  /\ \A d \in Dialers : Over(d)
  /\ resultClosed' = TRUE
  /\ UNCHANGED <<pc, conn, resultCh, cancelled, winner, main>>
-----------------------------------------------------------------------------
(* The caller *)

\* The first connection wins and cancels the others.
Keep ==
  /\ main = "range"
  /\ resultCh # <<>>
  /\ winner = None
  /\ resultCh' = Tail(resultCh)
  /\ winner' = Head(resultCh)
  /\ cancelled' = TRUE
  /\ UNCHANGED <<pc, conn, resultClosed, main>>

\* A later connection is closed.
Discard ==
  /\ main = "range"
  /\ resultCh # <<>>
  /\ winner # None
  /\ resultCh' = Tail(resultCh)
  /\ conn' = [conn EXCEPT ![Head(resultCh)] = "closed"]
  /\ UNCHANGED <<pc, resultClosed, cancelled, winner, main>>

\* Mutant: the caller returns when the channel is closed, whatever is in it.
ReturnWhenClosed ==
  /\ main = "range"
  /\ resultClosed
  /\ main' = "returned"
  /\ cancelled' = TRUE
  /\ UNCHANGED <<pc, conn, resultCh, resultClosed, winner>>

\* The range ends when resultCh is closed and empty; the deferred cancel.
Return ==
  /\ main = "range"
  /\ resultCh = <<>>
  /\ resultClosed
  /\ main' = "returned"
  /\ cancelled' = TRUE
  /\ UNCHANGED <<pc, conn, resultCh, resultClosed, winner>>

Attempt(d) == DialFail(d) \/ DialOk(d) \/ Send(d) \/ GiveUp(d)

Caller == Keep \/ Discard \/ Return

Next == (\E d \in Dialers : Attempt(d)) \/ CloseResult \/ Caller

Spec == Init /\ [][Next]_vars
-----------------------------------------------------------------------------
(* Properties *)

\* Every variable has its type.
TypeOK ==
  /\ pc \in [Dialers -> {"dial", "select", "sent", "failed", "gaveUp"}]
  /\ conn \in [Dialers -> {"none", "open", "closed"}]
  /\ resultCh \in Seq(Dialers)
  /\ resultClosed \in BOOLEAN /\ cancelled \in BOOLEAN
  /\ winner \in Dialers \cup {None}
  /\ main \in {"range", "returned"}

\* The caller gets one open connection and every other one has been closed;
\* without a winner nothing is left open.
OneOpen ==
  main = "returned" => \A d \in Dialers : conn[d] = "open" <=> d = winner

\* Until then every open connection is held by somebody who will close it or
\* return it: its attempt, resultCh, or the caller.
NoneForgotten ==
  \A d \in Dialers :
    conn[d] = "open" =>
      \/ pc[d] = "select"
      \/ /\ pc[d] = "sent"
         /\ d = winner \/ \E i \in DOMAIN resultCh : resultCh[i] = d

\* Nobody sends on the closed channel, which would panic.
NoSendOnClosed == resultClosed => \A d \in Dialers : pc[d] # "select"

\* The caller reports failure only when every attempt failed by itself.
FailureIsTotal ==
  main = "returned" /\ winner = None => \A d \in Dialers : pc[d] = "failed"

\* The kept connection stays the kept one, and stays open.
WinnerStays ==
  [][winner # None => winner' = winner /\ conn'[winner] = "open"]_vars
=============================================================================
