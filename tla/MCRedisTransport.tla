-------------------------- MODULE MCRedisTransport --------------------------
(* RedisTransport for TLC. *)
EXTENDS RedisTransport

CONSTANTS m1, m2, m3

TwoSent == {m1, m2}
ThreeSent == {m1, m2, m3}
=============================================================================
