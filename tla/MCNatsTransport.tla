--------------------------- MODULE MCNatsTransport ---------------------------
(* NatsTransport for TLC. *)
EXTENDS NatsTransport

CONSTANTS q1, m1, m2

OneName == {q1}
TwoSent == {m1, m2}
=============================================================================
