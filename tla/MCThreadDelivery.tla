-------------------------- MODULE MCThreadDelivery --------------------------
(* Small instances of ThreadDelivery for TLC. *)
EXTENDS ThreadDelivery, TLC

CONSTANTS t1, t2, h1, h2, w1, op1, c1, c2

=============================================================================
