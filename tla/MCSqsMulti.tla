----------------------------- MODULE MCSqsMulti -----------------------------
(* SqsMulti for TLC. *)
EXTENDS SqsMulti

CONSTANTS q1, m1, m2, m3, w1, w2

OneName == {q1}
NoNames == {}
NoMessages == {}
TwoSent == {m1, m2}
ThreeSent == {m1, m2, m3}
MCMessages == {m1, m2, m3}
NoShares == [m \in Messages |-> 0]
OneWriter == {w1}
TwoWriters == {w1, w2}
=============================================================================
