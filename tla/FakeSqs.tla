------------------------------- MODULE FakeSqs -------------------------------
(***************************************************************************)
(* FakeSQSAPI (src/queues/sqs/sqsfakes/fake_sqsapi.go), the stand-in for    *)
(* the service in the tests of the SQS transports.  It holds one family of  *)
(* functions per method of the service: the method, its CallCount, Calls,   *)
(* ArgsForCall, Returns and ReturnsOnCall.  The 63 families are alike but   *)
(* for their types.  The transports call four of the methods; publishers,   *)
(* subscribers and the test do so from goroutines of their own.             *)
(***************************************************************************)
EXTENDS Integers, Sequences, FiniteSets

CONSTANTS
  Order,       \* the methods, in the order in which Invocations locks their mutexes
  Threads,     \* goroutines
  Args,        \* arguments of calls, each used once
  MaxSettings, \* bound: how often results are set
  None          \* neither a goroutine nor an argument

Methods == {Order[i] : i \in DOMAIN Order}

(* The methods the transports call, and those they do not. *)
Called == {"DeleteMessage", "ReceiveMessage", "SendMessage", "SendMessageBatch"}
Others == Methods \ Called

(* Numbers of calls ReturnsOnCall is used with. *)
CallNumbers == 0 .. Cardinality(Args) - 1

ASSUME FakeSqsAssumption ==
  /\ Order \in Seq(STRING)
  /\ Called \subseteq Methods
  /\ \A i, j \in DOMAIN Order : i # j => Order[i] # Order[j]
  /\ IsFiniteSet(Args)
  /\ None \notin Args \cup Threads
  /\ MaxSettings \in Nat

VARIABLES
  writer,      \* who has locked the mutex of each method to write, or None
  readers,     \* who has locked it to read
  invReaders,  \* who has locked invocationsMutex to read
  stub,        \* whether each method has a stub
  settings,    \* history: how often results were set
  onCall,      \* the call numbers with a result of their own
  argsForCall, \* the arguments of the calls of each method
  invocations, \* the same, as recordInvocation keeps them
  at,          \* what each goroutine does: "idle", "record", "return", "invocations"
  call,        \* its current call: method, argument, number and where its result is from
  returned     \* history: the calls that have returned

locks == <<writer, readers, invReaders>>
resultVars == <<stub, settings, onCall>>
fakeVars == <<locks, resultVars, argsForCall, invocations, at, call, returned>>

Calls == [method : Methods, arg : Args, number : Nat, from : {"stub", "onCall", "returns"}]

FakeInit ==
  /\ writer = [m \in Methods |-> None]
  /\ readers = [m \in Methods |-> {}]
  /\ invReaders = {}
  /\ stub = [m \in Methods |-> FALSE] /\ settings = 0
  /\ onCall = [m \in Methods |-> {}]
  /\ argsForCall = [m \in Methods |-> <<>>]
  /\ invocations = [m \in Methods |-> <<>>]
  /\ at = [t \in Threads |-> "idle"]
  /\ call = [t \in Threads |-> None]
  /\ returned = {}

Goes(t, from, to) ==
  /\ at[t] = from
  /\ at' = [at EXCEPT ![t] = to]

Unlocked(m) == writer[m] = None /\ readers[m] = {}

Used == UNION {{argsForCall[m][i] : i \in DOMAIN argsForCall[m]} : m \in Methods}

----------------------------------------------------------------------------
(* The method m: its number is that of the calls before it, and stub and results
   are read before the mutex is unlocked. *)

Number(m) == Len(argsForCall[m])

(* Mutant: the mutex is unlocked before recordInvocation. *)
HoldingNothing(t, m) == writer

Holding(t, m) == [writer EXCEPT ![m] = t]

CallLocks(t, m, a) ==
  /\ Goes(t, "idle", "record")
  /\ a \notin Used
  /\ Unlocked(m)
  /\ writer' = Holding(t, m)
  /\ argsForCall' = [argsForCall EXCEPT ![m] = Append(@, a)]
  /\ call' = [call EXCEPT ![t] =
       [method |-> m, arg |-> a, number |-> Number(m),
        from |-> IF stub[m] THEN "stub" ELSE IF Number(m) \in onCall[m] THEN "onCall" ELSE "returns"]]
  /\ UNCHANGED <<readers, invReaders, resultVars, invocations, returned>>

(* recordInvocation, under invocationsMutex too; then the mutex is unlocked. *)
Record(t) ==
  /\ Goes(t, "record", "return")
  /\ invReaders = {}
  /\ LET c == call[t] IN
     /\ invocations' = [invocations EXCEPT ![c.method] = Append(@, c.arg)]
     /\ writer' = [writer EXCEPT ![c.method] = None]
  /\ UNCHANGED <<readers, invReaders, resultVars, argsForCall, call, returned>>

Return(t) ==
  /\ Goes(t, "return", "idle")
  /\ returned' = returned \cup {call[t]}
  /\ call' = [call EXCEPT ![t] = None]
  /\ UNCHANGED <<locks, resultVars, argsForCall, invocations>>

----------------------------------------------------------------------------
(* The functions that set what a method returns; each locks its mutex throughout.
   CallCount and ArgsForCall change nothing. *)

Sets(t, m, hasStub) ==
  /\ at[t] = "idle" /\ Unlocked(m)
  /\ settings < MaxSettings
  /\ settings' = settings + 1
  /\ stub' = [stub EXCEPT ![m] = hasStub]
  /\ UNCHANGED <<locks, argsForCall, invocations, at, call, returned>>

SetCalls(t, m) == Sets(t, m, TRUE) /\ UNCHANGED onCall

SetReturns(t, m) == Sets(t, m, FALSE) /\ UNCHANGED onCall

SetReturnsOnCall(t, m, i) == Sets(t, m, FALSE) /\ onCall' = [onCall EXCEPT ![m] = @ \cup {i}]

(* One family, but for the steps inside a call. *)
Family(t, m) ==
  \/ SetCalls(t, m) \/ SetReturns(t, m)
  \/ \E i \in CallNumbers : SetReturnsOnCall(t, m, i)
  \/ \E a \in Args : CallLocks(t, m, a)

DeleteMessage(t) == Family(t, "DeleteMessage")
ReceiveMessage(t) == Family(t, "ReceiveMessage")
SendMessage(t) == Family(t, "SendMessage")
SendMessageBatch(t) == Family(t, "SendMessageBatch")

----------------------------------------------------------------------------
(* Invocations: invocationsMutex, then the mutex of every method in turn. *)

InvocationsStart(t) ==
  /\ Goes(t, "idle", "invocations")
  /\ invReaders' = invReaders \cup {t}
  /\ UNCHANGED <<writer, readers, resultVars, argsForCall, invocations, call, returned>>

(* The next mutex to lock. *)
Wanted(t) == {i \in DOMAIN Order : t \notin readers[Order[i]] /\ \A j \in 1 .. i - 1 : t \in readers[Order[j]]}

InvocationsLock(t) ==
  /\ at[t] = "invocations"
  /\ \E i \in Wanted(t) :
       /\ writer[Order[i]] = None
       /\ readers' = [readers EXCEPT ![Order[i]] = @ \cup {t}]
  /\ UNCHANGED <<writer, invReaders, resultVars, argsForCall, invocations, at, call, returned>>

(* Mutant: invocationsMutex stays locked. *)
StillReading(t) == invReaders

NoLongerReading(t) == invReaders \ {t}

InvocationsReturn(t) ==
  /\ Goes(t, "invocations", "idle")
  /\ Wanted(t) = {}
  /\ readers' = [m \in Methods |-> readers[m] \ {t}]
  /\ invReaders' = NoLongerReading(t)
  /\ UNCHANGED <<writer, resultVars, argsForCall, invocations, call, returned>>

Progress(t) == Record(t) \/ Return(t) \/ InvocationsLock(t) \/ InvocationsReturn(t)

FakeNext ==
  \E t \in Threads :
    \/ Progress(t) \/ InvocationsStart(t)
    \/ DeleteMessage(t) \/ ReceiveMessage(t) \/ SendMessage(t) \/ SendMessageBatch(t)
    \/ \E m \in Others : Family(t, m)

(* Goroutines run, and a sync.RWMutex does not starve those who wait for it. *)
FakeSpec == FakeInit /\ [][FakeNext]_fakeVars
FakeFairSpec == FakeSpec /\ \A t \in Threads : SF_fakeVars(Progress(t))

----------------------------------------------------------------------------
Calling(t) == at[t] \in {"record", "return"}

FakeTypeOK ==
  /\ writer \in [Methods -> Threads \cup {None}]
  /\ readers \in [Methods -> SUBSET Threads]
  /\ invReaders \subseteq Threads
  /\ stub \in [Methods -> BOOLEAN]
  /\ settings \in 0 .. MaxSettings
  /\ onCall \in [Methods -> SUBSET CallNumbers]
  /\ argsForCall \in [Methods -> Seq(Args)]
  /\ invocations \in [Methods -> Seq(Args)]
  /\ at \in [Threads -> {"idle", "record", "return", "invocations"}]
  /\ call \in [Threads -> Calls \cup {None}]
  /\ \A t \in Threads : IF Calling(t) THEN call[t] \in Calls ELSE call[t] = None
  /\ returned \subseteq Calls

(* Tests set the result of call i with ReturnsOnCall and look at call i with
   ArgsForCall: both mean the same call, however calls interleave. *)
SameNumber ==
  \A c \in returned \cup {call[t] : t \in {u \in Threads : Calling(u)}} :
    /\ c.number < Len(argsForCall[c.method])
    /\ argsForCall[c.method][c.number + 1] = c.arg

(* The two books agree: Invocations has the calls ArgsForCall has, in the same
   order, but for one that is just being recorded. *)
Recording(m) == {t \in Threads : at[t] = "record" /\ call[t].method = m}

BooksAgree ==
  \A m \in Methods :
    argsForCall[m] = IF Recording(m) = {} THEN invocations[m]
                     ELSE Append(invocations[m], call[CHOOSE t \in Recording(m) : TRUE].arg)

(* Invocations locks the mutexes in the order opposite to that of a call: the one
   waits for a method's mutex, the other, which has it, for invocationsMutex. *)
Circle ==
  \E t, u \in Threads :
    /\ at[t] = "record"
    /\ u \in invReaders
    /\ \E i \in Wanted(u) : writer[Order[i]] = t

(* Every call returns, and Invocations does, unless they meet like that. *)
EverybodyReturns == \A t \in Threads : at[t] # "idle" ~> (at[t] = "idle" \/ Circle)
=============================================================================
