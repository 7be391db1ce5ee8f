------------------------------ MODULE MCGreeter ------------------------------
(* Greeter for TLC. *)
EXTENDS Greeter

CONSTANTS a, b, m1, m2

TwoTyped == {m1, m2}
AllPrograms == {"service", "client", "any"}
MCOutgoing == Typed \cup {Hello(name) : name \in Incoming}
OneName == {a}
TwoNames == {a, b}
=============================================================================
