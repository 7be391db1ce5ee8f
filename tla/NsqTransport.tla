---------------------------- MODULE NsqTransport ----------------------------
(***************************************************************************)
(* Transport (src/queues/nsq/nsq.go) with one consumer and one producer,    *)
(* which share errChan and Stop.  Their channels are unbuffered: a message  *)
(* passes when both sides are there.  The clients are in module Greeter.    *)
(* nsqd is external: it sends a message again when the acknowledgement of   *)
(* the first delivery is lost, and may store a message whose Publish fails. *)
(***************************************************************************)
EXTENDS Integers, Sequences, FiniteSets, Functions

CONSTANTS
  Incoming,  \* messages nsqd holds for the consumer
  Lossy,     \* bound: those of them whose first acknowledgement may be lost
  Outgoing,  \* messages the clients send, each at most once
  ErrCap,    \* capacity of errChan (10)
  Attempts,  \* calls of Publish backoff.Do makes for one message (10; see Backoff)
  Nil        \* not a message

ASSUME NsqAssumption ==
  /\ Nil \notin Incoming \cup Outgoing
  /\ Lossy \subseteq Incoming
  /\ {ErrCap, Attempts} \subseteq Nat \ {0}

VARIABLES
  errs,      \* how many errors wait on errChan
  stop,      \* "no", "producers" or "consumers" (what Stop waits for), "done"
  cons,      \* the consumer, see ConsStates
  overlap,   \* history: the consumer was not in t.consumers when Stop read it
  queue,     \* nsqd: the messages it has for the consumer
  again,     \* the messages whose acknowledgement was lost
  hand,      \* the message the handler has acknowledged and not yet put on ch, or Nil
  received,  \* history: what the client has read from ch
  prod,      \* the producer goroutine, see ProdStates
  msg,       \* the message it is publishing, or Nil
  tries,     \* calls of Publish for msg so far
  handed,    \* history: what the producer has taken from the Send channel
  published, \* history: nsqd: the messages stored, repeats included
  warned     \* history: the messages whose error the producer has raised

(* "connecting": backoff.Do in makeConsumer, with t.rm locked; "connected": not
   yet in t.consumers; "failed": Receive is blocked on errChan, t.rm locked;
   "stranded": told to stop while it had no connection. *)
ConsStates ==
  {"none", "connecting", "connected", "on", "failed", "reported", "stopping", "stranded", "stopped"}

(* "failed", "reported": NewProducer failed, as above. *)
ProdStates == {"none", "failed", "reported", "select", "publish", "report", "exited"}

consVars == <<cons, overlap, queue, again, hand, received>>
prodVars == <<prod, msg, tries, handed, published, warned>>
nsqVars == <<errs, stop, consVars, prodVars>>

NsqInit ==
  /\ errs = 0 /\ stop = "no"
  /\ cons = "none" /\ overlap = FALSE /\ queue = Incoming /\ again = {} /\ hand = Nil
  /\ received = <<>>
  /\ prod = "none" /\ msg = Nil /\ tries = 0
  /\ handed = <<>> /\ published = <<>> /\ warned = {}

PutError ==
  /\ errs < ErrCap
  /\ errs' = errs + 1

DrainErr ==
  /\ errs > 0
  /\ errs' = errs - 1
  /\ UNCHANGED <<stop, consVars, prodVars>>

ConsGoes(from, to) ==
  /\ cons = from
  /\ cons' = to
  /\ UNCHANGED <<overlap, queue, again, hand, received, prodVars>>

----------------------------------------------------------------------------
(* Receive.  Connecting is retried for ever. *)

ReceiveCalled == ConsGoes("none", "connecting") /\ UNCHANGED <<errs, stop>>

NewConsumerFails == ConsGoes("none", "failed") /\ UNCHANGED <<errs, stop>>

ReceiveReports == ConsGoes("failed", "reported") /\ PutError /\ UNCHANGED stop

ConnectConsumer == ConsGoes("connecting", "connected") /\ UNCHANGED <<errs, stop>>

AppendConsumer == ConsGoes("connected", "on") /\ UNCHANGED <<errs, stop>>

(* message.Finish() *)
Acknowledged(m) == {queue \ {m}} \cup IF m \in Lossy \ again THEN {queue} ELSE {}

(* Mutant: a second handler reuses the variable of the first. *)
HandlerNeverBusy == TRUE

(* One message at a time: the default of MaxInFlight and of AddHandler. *)
HandlerFree == hand = Nil

(* The handler: Finish, then ch <- body. *)
Handle(m) ==
  /\ cons \in {"connected", "on"}
  /\ HandlerFree
  /\ m \in queue
  /\ hand' = m
  /\ queue' \in Acknowledged(m)
  /\ again' = IF m \in queue' THEN again \cup {m} ELSE again
  /\ UNCHANGED <<errs, stop, cons, overlap, received, prodVars>>

(* A client reads ch. *)
TakeReceived ==
  /\ hand # Nil
  /\ received' = Append(received, hand)
  /\ hand' = Nil
  /\ UNCHANGED <<errs, stop, cons, overlap, queue, again, prodVars>>

----------------------------------------------------------------------------
(* Send and the producer goroutine. *)

ProdGoes(from, to) ==
  /\ prod = from
  /\ prod' = to

SendCalled ==
  /\ ProdGoes("none", "select")
  /\ UNCHANGED <<errs, stop, consVars, msg, tries, handed, published, warned>>

NewProducerFails ==
  /\ ProdGoes("none", "failed")
  /\ UNCHANGED <<errs, stop, consVars, msg, tries, handed, published, warned>>

SendReports ==
  /\ ProdGoes("failed", "reported")
  /\ PutError
  /\ UNCHANGED <<stop, consVars, msg, tries, handed, published, warned>>

(* A client puts m on the Send channel. *)
HandOver(m) ==
  /\ ProdGoes("select", "publish")
  /\ msg' = m
  /\ tries' = 0
  /\ handed' = Append(handed, m)
  /\ UNCHANGED <<errs, stop, consVars, published, warned>>

Publish ==
  /\ ProdGoes("publish", "select")
  /\ published' = Append(published, msg)
  /\ msg' = Nil
  /\ UNCHANGED <<errs, stop, consVars, tries, handed, warned>>

(* Mutants: the error of the last attempt is lost; there is no last attempt. *)
AfterFailureSelect == IF tries' = Attempts THEN "select" ELSE "publish"
AfterFailureAgain == "publish"

AfterFailure == IF tries' = Attempts THEN "report" ELSE "publish"

(* Publish fails, whether or not the message was stored; backoff.Do repeats it
   until its attempts are used up. *)
PublishFails ==
  /\ tries' = tries + 1
  /\ ProdGoes("publish", AfterFailure)
  /\ warned' = IF prod' = "report" THEN warned \cup {msg} ELSE warned
  /\ published' \in {published, Append(published, msg)}
  /\ msg' = IF prod' = "publish" THEN msg ELSE Nil
  /\ UNCHANGED <<errs, stop, consVars, handed>>

(* Mutant: a return for the continue. *)
ReportPublishErrorExits ==
  /\ ProdGoes("report", "exited")
  /\ PutError
  /\ UNCHANGED <<stop, consVars, msg, tries, handed, published, warned>>

ReportPublishError ==
  /\ ProdGoes("report", "select")
  /\ PutError
  /\ UNCHANGED <<stop, consVars, msg, tries, handed, published, warned>>

SeeStop ==
  /\ stop # "no"
  /\ ProdGoes("select", "exited")
  /\ UNCHANGED <<errs, stop, consVars, msg, tries, handed, published, warned>>

----------------------------------------------------------------------------
(* Stop. *)

CallStop ==
  /\ stop = "no"
  /\ stop' = "producers"
  /\ UNCHANGED <<errs, consVars, prodVars>>

(* Mutant: producersWG counts a producer that NewProducer did not make. *)
ProducersAllGone == prod \in {"none", "exited"}

(* t.producersWG.Wait() returns *)
ProducersGone == prod \in {"none", "failed", "reported", "exited"}

(* After t.producersWG.Wait(): Stop reads t.consumers, without t.rm. *)
StopConsumers ==
  /\ stop = "producers"
  /\ ProducersGone
  /\ stop' = "consumers"
  /\ cons' \in IF cons = "on" THEN {"stopping", "stranded"} ELSE {cons}
  /\ overlap' = (cons \in {"none", "connecting", "connected"})
  /\ UNCHANGED <<errs, queue, again, hand, received, prodVars>>

(* c.Stop() closes StopChan when the handler has returned or, if there was a
   connection to close, after 30 s. *)
ConsumerStops ==
  /\ ConsGoes("stopping", "stopped") \/ (HandlerFree /\ ConsGoes("stranded", "stopped"))
  /\ UNCHANGED <<errs, stop>>

(* Mutant: no <-c.StopChan. *)
NotAwaited == TRUE

Awaited == cons \notin {"stopping", "stranded"}

StopEnds ==
  /\ stop = "consumers"
  /\ Awaited
  /\ stop' = "done"
  /\ UNCHANGED <<errs, consVars, prodVars>>

Producer == Publish \/ PublishFails \/ ReportPublishError \/ SeeStop

NsqNext ==
  \/ ReceiveReports \/ SendReports \/ ConnectConsumer \/ AppendConsumer
  \/ \E m \in Incoming : Handle(m)
  \/ Producer
  \/ StopConsumers \/ ConsumerStops \/ StopEnds

(* The goroutines run; senders on a channel are served in FIFO order and a select
   chooses at random, hence SF.  Nothing is assumed of nsqd: Publish may fail
   each time, and connecting may never succeed. *)
NsqFairness ==
  /\ SF_nsqVars(ReceiveReports \/ SendReports)
  /\ WF_nsqVars(AppendConsumer)
  /\ SF_nsqVars(Producer)
  /\ WF_nsqVars(StopConsumers \/ ConsumerStops \/ StopEnds)

----------------------------------------------------------------------------
NsqTypeOK ==
  /\ errs \in 0 .. ErrCap
  /\ stop \in {"no", "producers", "consumers", "done"}
  /\ cons \in ConsStates
  /\ overlap \in BOOLEAN
  /\ queue \subseteq Incoming /\ again \subseteq Lossy
  /\ hand \in Incoming \cup {Nil}
  /\ received \in Seq(Incoming)
  /\ prod \in ProdStates
  /\ msg \in Outgoing \cup {Nil}
  /\ msg # Nil <=> prod = "publish"
  /\ tries \in 0 .. Attempts
  /\ {handed, published} \subseteq Seq(Outgoing)
  /\ warned \subseteq Outgoing
=============================================================================
