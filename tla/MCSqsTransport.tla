--------------------------- MODULE MCSqsTransport ---------------------------
(* SqsTransport for TLC.  Other processes receive the first message once, or none. *)
EXTENDS SqsTransport

CONSTANTS q1, m1, m2

OneName == {q1}
NoNames == {}
NoMessages == {}
MCMessages == {m1, m2}
NoShares == [m \in Messages |-> 0]
FirstShared == [m \in Messages |-> IF m = m1 THEN 1 ELSE 0]
=============================================================================
