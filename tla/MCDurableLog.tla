---------------------------- MODULE MCDurableLog ----------------------------
(* The instance of DurableLog for TLC: two entries that can conflict. *)
EXTENDS DurableLog

CONSTANTS a, b
=============================================================================
