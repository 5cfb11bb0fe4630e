---------------------------- MODULE MCThreadAgent ---------------------------
(* Small instances of ThreadAgent for TLC. *)
EXTENDS ThreadAgent, TLC

CONSTANTS c1, c2, c3, op1

=============================================================================
