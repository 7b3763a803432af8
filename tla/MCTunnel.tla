------------------------------ MODULE MCTunnel ------------------------------
(* Small instances of Tunnel for TLC. *)
EXTENDS Tunnel

CONSTANTS a, b, x, ch, ua, ux

\* a and b share the allowed UUID ua; x has ux, which is not allowed.
MCUuidOf == [c \in Clients |-> IF c = x THEN ux ELSE ua]
=============================================================================
