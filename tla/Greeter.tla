------------------------------- MODULE Greeter -------------------------------
(***************************************************************************)
(* The two programs of src/example/greeter on the NSQ transport, and a      *)
(* client that calls the transport in any order.  In all three the channel  *)
(* of Receive is read by one goroutine and that of Send written by one.     *)
(***************************************************************************)
EXTENDS NsqTransport

CONSTANTS
  Programs,  \* the programs considered
  Typed      \* names typed into the client, each once

VARIABLES
  program,   \* "service", "client" or "any"
  cancelled, \* the context was cancelled: the minute is over, or an interrupt came
  line,      \* what the program is putting on the Send channel, or Nil
  scanned    \* history: the lines the client has read from its input

programVars == <<program, cancelled, line, scanned>>
vars == <<nsqVars, programVars>>

(* "Hello " + string(name) *)
Hello(name) == [hello |-> name]

ASSUME GreeterAssumption ==
  /\ Programs \subseteq {"service", "client", "any"}
  /\ Typed \cup {Hello(name) : name \in Incoming} \subseteq Outgoing

Init ==
  /\ NsqInit
  /\ program \in Programs
  /\ cancelled = FALSE /\ line = Nil /\ scanned = <<>>

(* The call of Receive, of Send has returned a channel. *)
Received == cons \notin {"none", "connecting", "connected", "failed"}
Opened == prod \notin {"none", "failed"}

Cancel ==
  /\ ~cancelled /\ program # "any"
  /\ cancelled' = TRUE
  /\ UNCHANGED <<nsqVars, program, line, scanned>>

(* greetings <- greeting, names <- b *)
PutLine ==
  /\ line # Nil
  /\ program = "service" => stop = "no"
  /\ HandOver(line)
  /\ line' = Nil
  /\ UNCHANGED <<program, cancelled, scanned>>

----------------------------------------------------------------------------
(* The service: Receive, Send, then the select of Greeter. *)

ServiceStarts ==
  /\ program = "service"
  /\ ReceiveCalled \/ (Received /\ SendCalled)
  /\ UNCHANGED programVars

InSelect == program = "service" /\ Received /\ Opened /\ stop = "no" /\ line = Nil

GreeterReads == InSelect /\ DrainErr /\ UNCHANGED programVars

(* Mutant: a name that comes when the context is done is not greeted. *)
GreetingUnlessCancelled == IF cancelled THEN Nil ELSE Hello(hand)

Greeting == Hello(hand)

Greet ==
  /\ InSelect
  /\ TakeReceived
  /\ line' = Greeting
  /\ UNCHANGED <<program, cancelled, scanned>>

(* Greeter returns, and main's deferred function calls Stop. *)
GreeterFinishes == InSelect /\ cancelled /\ CallStop /\ UNCHANGED programVars

----------------------------------------------------------------------------
(* The client: Send, Receive, then main waits for the context while one
   goroutine prints the greetings and one sends what is typed. *)

ClientStarts ==
  /\ program = "client"
  /\ SendCalled \/ (Opened /\ ReceiveCalled)
  /\ UNCHANGED programVars

Running == program = "client" /\ Received /\ Opened

PrintGreeting == Running /\ TakeReceived /\ UNCHANGED programVars

(* s.Scan() and s.Bytes(): the slice is part of the scanner's buffer, which the
   next Scan may overwrite; the slice before may still be with the producer. *)
Scan(m) ==
  /\ Running
  /\ line = Nil
  /\ m \notin Range(scanned)
  /\ line' = m
  /\ scanned' = Append(scanned, m)
  /\ msg' \in {msg} \cup IF msg = Nil THEN {} ELSE {m}
  /\ UNCHANGED <<errs, stop, consVars, prod, tries, handed, published, warned, program,
                 cancelled>>

ClientFinishes == Running /\ cancelled /\ CallStop /\ UNCHANGED programVars

----------------------------------------------------------------------------
(* Any client that reads both of its channels. *)

AnyCalls ==
  /\ program = "any"
  /\ \/ ReceiveCalled \/ NewConsumerFails \/ SendCalled \/ NewProducerFails \/ CallStop
     \/ \E m \in Typed \ Range(handed) : HandOver(m)
  /\ UNCHANGED programVars

AnyReads == program = "any" /\ DrainErr /\ UNCHANGED programVars
AnyTakes == program = "any" /\ Received /\ TakeReceived /\ UNCHANGED programVars

Next ==
  \/ NsqNext /\ UNCHANGED programVars
  \/ Cancel \/ PutLine
  \/ ServiceStarts \/ GreeterReads \/ Greet \/ GreeterFinishes
  \/ ClientStarts \/ PrintGreeting \/ \E m \in Typed : Scan(m)
  \/ ClientFinishes
  \/ AnyCalls \/ AnyReads \/ AnyTakes

(* The programs' goroutines run; a select chooses at random (SF).  Nobody need
   type anything, and the context need not be cancelled. *)
Fairness ==
  /\ NsqFairness
  /\ WF_vars(ServiceStarts \/ ClientStarts)
  /\ SF_vars(PutLine)
  /\ SF_vars(GreeterFinishes \/ ClientFinishes)
  /\ SF_vars(AnyReads)
  /\ WF_vars(PrintGreeting \/ AnyTakes)

Spec == Init /\ [][Next]_vars
FairSpec == Spec /\ Fairness

----------------------------------------------------------------------------
TypeOK ==
  /\ NsqTypeOK
  /\ program \in Programs
  /\ cancelled \in BOOLEAN
  /\ line \in Outgoing \cup {Nil}
  /\ scanned \in Seq(Typed)

(* Greeter answers every name it takes, once and in order, before it looks at
   its context again. *)
Greetings == [i \in DOMAIN received |-> Hello(received[i])]

GreetedInOrder ==
  program = "service" => Greetings = handed \o IF line = Nil THEN <<>> ELSE <<line>>

(* nsqd was told that a message is done before anybody has read it: at any time
   one message, which waits in the handler, is neither queued nor read. *)
NothingVanishes == Incoming \subseteq queue \cup Range(received) \cup {hand}

(* A message the producer is done with is in the queue unless its error was
   raised, and repeats come before the next message: the retries of backoff.Do
   do not reorder.  Of what is typed into the client this is certain for the
   last name only: an earlier one may turn into a later one, see Scan. *)
Position(m) == CHOOSE i \in DOMAIN handed : handed[i] = m

Settled == Range(published) \cup warned \cup {msg}

PublishedInOrder ==
  /\ program = "client" /\ scanned # <<>> => scanned[Len(scanned)] \in Settled \cup {line}
  /\ program # "client" =>
       /\ Range(handed) \subseteq Settled
       /\ \A i, j \in DOMAIN published :
            again = {} /\ i < j => Position(published[i]) <= Position(published[j])

(* After Stop no consumer takes messages from the queue, except one that was not
   yet in t.consumers when Stop read it without t.rm: Receive was running, or was
   called later. *)
ConsumersStopped == stop = "done" /\ ~overlap => cons \in {"stopped", "failed", "reported"}

(* Nobody reads ErrChan: the client never does, Greeter neither while it waits
   for the producer nor after it has returned.  A producer with an error to raise
   then waits for ever. *)
Unread == program = "client" \/ (program = "service" /\ (line # Nil \/ stop # "no"))

Stuck == prod = "report" /\ errs = ErrCap /\ Unread

(* Nobody reads names once Greeter has returned.  A handler with a name to deliver
   then waits for ever, and Stop with it if no connection to nsqd is left. *)
Stranded == cons = "stranded" /\ hand # Nil /\ program = "service"

(* "the context can be used to stop the Greeter" (docs/design-patterns.md): once it
   is cancelled, or Stop is called by anybody, Done is closed, unless the producer
   is stuck, the consumer stranded, or the program still tries to connect. *)
ShutsDown ==
  (cancelled \/ stop # "no")
    ~> (stop = "done" \/ Stuck \/ Stranded \/ (stop = "no" /\ cons = "connecting"))
=============================================================================
