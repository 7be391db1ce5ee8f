------------------------------ MODULE MCFakeSqs ------------------------------
(* FakeSqs for TLC. *)
EXTENDS FakeSqs

CONSTANTS t1, t2, a, b

TwoThreads == {t1, t2}
TwoArgs == {a, b}

(* The methods the transports call, and one more. *)
FiveMethods ==
  <<"AddPermission", "DeleteMessage", "ReceiveMessage", "SendMessage", "SendMessageBatch">>
=============================================================================
