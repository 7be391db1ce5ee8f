------------------------------- MODULE Outbox -------------------------------
(***************************************************************************)
(* What a client may expect of the sending half of a vice.Transport         *)
(* (src/transport.go): for each name, messages are handed to the queueing   *)
(* technology at most once and in the order in which they were put on the   *)
(* Send channel, and when the channel of Done() is closed every message put *)
(* on a Send channel before Stop has been handed over.                      *)
(***************************************************************************)
EXTENDS Integers, Sequences

CONSTANTS Names, Messages

VARIABLES
  accepted, \* per name, the messages clients have put on the Send channel
  handed,   \* per name, the messages given to the queueing technology
  phase,    \* "running", "stopping" or "stopped" (the Done channel is closed)
  promised  \* per name, how many messages had been accepted when Stop was called

vars == <<accepted, handed, phase, promised>>

Init ==
  /\ accepted = [n \in Names |-> <<>>]
  /\ handed = [n \in Names |-> <<>>]
  /\ phase = "running"
  /\ promised = [n \in Names |-> 0]

Accept(n, m) ==
  /\ accepted' = [accepted EXCEPT ![n] = Append(@, m)]
  /\ UNCHANGED <<handed, phase, promised>>

(* The next messages of n, in order, go to the queueing technology. *)
Hand(n) ==
  /\ \E k \in Len(handed[n]) .. Len(accepted[n]) :
       handed' = [handed EXCEPT ![n] = SubSeq(accepted[n], 1, k)]
  /\ UNCHANGED <<accepted, phase, promised>>

CallStop ==
  /\ phase = "running"
  /\ phase' = "stopping"
  /\ promised' = [n \in Names |-> Len(accepted[n])]
  /\ UNCHANGED <<accepted, handed>>

Stopped ==
  /\ phase = "stopping"
  /\ \A n \in Names : Len(handed[n]) >= promised[n]
  /\ phase' = "stopped"
  /\ UNCHANGED <<accepted, handed, promised>>

Next ==
  \/ \E n \in Names : Hand(n) \/ \E m \in Messages : Accept(n, m)
  \/ CallStop
  \/ Stopped

Spec == Init /\ [][Next]_vars
=============================================================================
