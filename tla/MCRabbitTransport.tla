-------------------------- MODULE MCRabbitTransport --------------------------
(* RabbitTransport for TLC. *)
EXTENDS RabbitTransport

CONSTANTS m1, m2, m3

ThreeSent == {m1, m2, m3}
=============================================================================
