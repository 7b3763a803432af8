----------------------------- MODULE ByteStream -----------------------------
(***************************************************************************)
(* What a buffering connection promises to the layer above it, whatever    *)
(* its buffers and timers do.  Data items are accepted, wait in the        *)
(* connection and reach the wire.                                          *)
(*                                                                         *)
(*  - While the link is up nothing is dropped and nothing overtakes.       *)
(*  - The link goes down once and stays down.  From then on any contiguous *)
(*    run of what is waiting may be dropped, but what still reaches the    *)
(*    wire reaches it in order and once.                                   *)
(***************************************************************************)
EXTENDS Naturals, Sequences

CONSTANT Data      \* the items a caller can write

VARIABLES
  accepted,        \* every item taken from a caller, oldest first
  waiting,         \* the items taken and not yet on the wire or dropped
  wire,            \* the items on the wire
  up               \* FALSE once the link was closed or failed

vars == <<accepted, waiting, wire, up>>

Init ==
  /\ accepted = <<>>
  /\ waiting = <<>>
  /\ wire = <<>>
  /\ up = TRUE

\* A caller hands over one item.
Accept(d) ==
  /\ accepted' = Append(accepted, d)
  /\ waiting' = Append(waiting, d)
  /\ UNCHANGED <<wire, up>>

\* The first n waiting items reach the wire.
Transmit(n) ==
  /\ wire' = wire \o SubSeq(waiting, 1, n)
  /\ waiting' = SubSeq(waiting, n + 1, Len(waiting))
  /\ UNCHANGED <<accepted, up>>

\* The link is down, or goes down: of the waiting items, the first i reach
\* the wire, those up to the j-th still wait, and those up to the k-th are
\* dropped.
Degrade(i, j, k) ==
  /\ up' = FALSE
  /\ wire' = wire \o SubSeq(waiting, 1, i)
  /\ waiting' = SubSeq(waiting, i + 1, j) \o SubSeq(waiting, k + 1, Len(waiting))
  /\ UNCHANGED accepted

\* The link is down: an item is taken and everything that waits is dropped.
AcceptAndDrop(d) ==
  /\ ~up
  /\ accepted' = Append(accepted, d)
  /\ waiting' = <<>>
  /\ UNCHANGED <<wire, up>>

Next ==
  \/ \E d \in Data : Accept(d) \/ AcceptAndDrop(d)
  \/ \E n \in 1 .. Len(waiting) : Transmit(n)
  \/ \E k \in 0 .. Len(waiting) : \E j \in 0 .. k : \E i \in 0 .. j :
       Degrade(i, j, k)

Spec == Init /\ [][Next]_vars
=============================================================================
