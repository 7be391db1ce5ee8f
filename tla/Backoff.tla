------------------------------ MODULE Backoff ------------------------------
(***************************************************************************)
(* backoff.Do (src/backoff/backoff.go): call f until it succeeds, sleeping  *)
(* between the calls, for at most maxCalls calls.  One behaviour is one     *)
(* call of Do; its three numeric arguments are chosen in DoInit and never   *)
(* change.  A time.Duration is a signed 64-bit integer, so `backoff *= 2`   *)
(* wraps around: IntMax stands for math.MaxInt64.                           *)
(***************************************************************************)
EXTENDS Integers

CONSTANTS
  InitialBackoffs, MaxBackoffs, \* the durations Do is called with; max 0: no cap
  CallLimits,                   \* the values of maxCalls; 0: no limit
  IntMax,                       \* the largest Duration; the smallest is -IntMax - 1
  CallBound                     \* bound: calls counts no further than this

ASSUME BackoffAssumption ==
  /\ IntMax \in Nat \ {0}
  /\ CallBound \in Nat
  /\ InitialBackoffs \subseteq 0 .. IntMax
  /\ MaxBackoffs \subseteq 0 .. IntMax
  /\ CallLimits \subseteq 0 .. CallBound

VARIABLES
  initialBackoff, maxBackoff, maxCalls,  \* the arguments
  backoff, calls,                        \* Do's local variables
  wrapped, \* history: whether a doubling of backoff has overflowed
  err,     \* what the last call of f returned: "nil" or "err"
  pc       \* "call": about to call f; "sleep": in time.Sleep(backoff); "returned"

doVars == <<initialBackoff, maxBackoff, maxCalls, backoff, calls, wrapped, err, pc>>

args == <<initialBackoff, maxBackoff, maxCalls>>

DoInit ==
  /\ initialBackoff \in InitialBackoffs
  /\ maxBackoff \in MaxBackoffs
  /\ maxCalls \in CallLimits
  /\ backoff = initialBackoff
  /\ calls = 0
  /\ wrapped = FALSE
  /\ err = "nil"
  /\ pc = "call"

(* d * 2 in two's complement arithmetic. *)
Double(d) ==
  IF 2 * d > IntMax THEN 2 * d - 2 * (IntMax + 1)
  ELSE IF 2 * d < -IntMax - 1 THEN 2 * d + 2 * (IntMax + 1)
  ELSE 2 * d

Capped(b) == b > maxBackoff /\ maxBackoff # 0

(* Mutant: no cap. *)
NextBackoffUncapped(b) == Double(b)

(* The sleep after the one that lasted b: capped if b already exceeds the
   cap, doubled otherwise. *)
NextBackoff(b) == IF Capped(b) THEN maxBackoff ELSE Double(b)

(* Mutants: one call too many; a limit that is not looked at. *)
GivesUpLate(c) == c > maxCalls /\ maxCalls # 0
GivesUpNever(c) == FALSE

(* `calls >= maxCalls && maxCalls != 0`, after the c-th failed call. *)
GivesUp(c) == c >= maxCalls /\ maxCalls # 0

CallSucceeds ==
  /\ pc = "call"
  /\ err' = "nil"
  /\ pc' = "returned"
  /\ UNCHANGED <<args, backoff, calls, wrapped>>

(* calls stops counting at CallBound, which no limit exceeds. *)
CallFails ==
  /\ pc = "call"
  /\ err' = "err"
  /\ calls' = IF calls < CallBound THEN calls + 1 ELSE calls
  /\ \/ /\ GivesUp(calls')
        /\ pc' = "returned"
        /\ UNCHANGED <<backoff, wrapped>>
     \/ /\ ~GivesUp(calls')
        /\ pc' = "sleep"
        /\ backoff' = NextBackoff(backoff)
        /\ wrapped' = (wrapped \/ (~Capped(backoff) /\ 2 * backoff \notin -IntMax - 1 .. IntMax))
  /\ UNCHANGED args

Wake ==
  /\ pc = "sleep"
  /\ pc' = "call"
  /\ UNCHANGED <<args, backoff, calls, wrapped, err>>

DoNext == CallSucceeds \/ CallFails \/ Wake

(* f always returns and a sleep always ends; whether f succeeds is open. *)
DoSpec == DoInit /\ [][DoNext]_doVars /\ WF_doVars(CallSucceeds \/ CallFails) /\ WF_doVars(Wake)

----------------------------------------------------------------------------
DoTypeOK ==
  /\ initialBackoff \in InitialBackoffs
  /\ maxBackoff \in MaxBackoffs
  /\ maxCalls \in CallLimits
  /\ backoff \in -IntMax - 1 .. IntMax
  /\ calls \in 0 .. CallBound
  /\ wrapped \in BOOLEAN
  /\ err \in {"nil", "err"}
  /\ pc \in {"call", "sleep", "returned"}

(* Do returns an error only when f has failed exactly maxCalls times, never
   sleeps once that many calls have failed, and so never makes an extra call:
   the calls a user of Do counts (TestBackoffMaxCalls) are the calls made. *)
GivesUpExactly ==
  /\ maxCalls # 0 => calls <= maxCalls
  /\ maxCalls # 0 /\ calls = maxCalls => pc = "returned" /\ err = "err"
  /\ pc = "returned" /\ err = "err" => maxCalls # 0 /\ calls = maxCalls

(* A cap of which the double is still a Duration. *)
CapInRange == maxBackoff # 0 /\ 2 * maxBackoff <= IntMax

(* For all arguments: a sleep is never shorter than both the initial backoff
   and the cap, never longer than twice the cap, and so never a busy loop on a
   server that is down, but for one reason: without a cap in range a doubling
   may have overflowed. *)
SleepBounded ==
  pc = "sleep" =>
    \/ wrapped /\ ~CapInRange
    \/ /\ initialBackoff <= backoff \/ (maxBackoff # 0 /\ maxBackoff <= backoff)
       /\ maxBackoff # 0 => backoff <= 2 * maxBackoff

(* Until a doubling overflows, a sleep is shorter than the one before it only
   when that one already exceeded the cap. *)
NeverShrinksBelowCap ==
  [][~wrapped' /\ backoff' < backoff => Capped(backoff) /\ backoff' = maxBackoff]_doVars

(* With a call limit Do returns, even if f never succeeds. *)
Returns == maxCalls # 0 ~> pc = "returned"

----------------------------------------------------------------------------
(* A claim of the repository that the code does not keep. *)

(* "maxBackoff is the maximum time between calls, if is 0 there is no maximum"
   (backoff.go:10).  The code looks at the cap before it doubles. *)
NeverAboveMax == maxBackoff # 0 /\ pc = "sleep" => backoff <= maxBackoff
=============================================================================
