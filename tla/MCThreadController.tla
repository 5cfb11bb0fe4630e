------------------------- MODULE MCThreadController -------------------------
(* Small instances of ThreadController for TLC. *)
EXTENDS ThreadController, TLC

CONSTANTS s1, s2, h1, c1, l1, l2

=============================================================================
