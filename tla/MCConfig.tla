------------------------------ MODULE MCConfig ------------------------------
(* UUIDs for Config: a good one, one that is too short, one with a letter   *)
(* that is no digit.                                                        *)
EXTENDS Config

MCUuids ==
  {[digits |-> 32, hex |-> TRUE], [digits |-> 31, hex |-> TRUE],
   [digits |-> 32, hex |-> FALSE]}
=============================================================================
