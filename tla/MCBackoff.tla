----------------------------- MODULE MCBackoff -----------------------------
(* Backoff for TLC.  Durations of 9 bits (IntMax = 255): an uncapped backoff
   overflows within the bound on calls. *)
EXTENDS Backoff

MCDurations == {0, 1, 3, 5, 20, 100, 127, 200}
MCCallLimits == {0, 1, 2, 3, 10}
=============================================================================
