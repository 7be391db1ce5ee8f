--------------------------- MODULE RabbitTransport ---------------------------
(***************************************************************************)
(* Transport (src/queues/rabbitmq/rabbitmq.go): the publisher and the       *)
(* subscriber of one name, which share t.connection, errChan and Stop with  *)
(* those of the other names.  The broker is external: it sends one message  *)
(* at a time (prefetch 1), keeps it until it is acknowledged and queues it  *)
(* again when the connection is lost.  A lost connection is not replaced.   *)
(***************************************************************************)
EXTENDS Integers, Sequences, FiniteSets, Functions

CONSTANTS
  Outgoing,  \* messages the clients send, each at most once
  ChanCap,   \* capacity of the channel of Receive (1024); that of Send has none
  ErrCap,    \* capacity of errChan (10)
  Empty,     \* the message without a body
  Nil        \* not a message

ASSUME RabbitAssumption ==
  /\ Nil \notin Outgoing \cup {Empty}
  /\ Empty \notin Outgoing
  /\ {ChanCap, ErrCap} \subseteq Nat \ {0}

VARIABLES
  conn,      \* t.connection: "nil", "open", "dying" (lost, not yet noticed), "dead", "closed"
  lock,      \* the mutex: "free", or the failing method that holds it
  errs,      \* how many errors wait on errChan
  stop,      \* "no", "closing" (both stop channels closed), "done", "panicked"
  pub,       \* the publisher goroutine: "none", "select", "report", "exited"
  handed,    \* history: what the publisher has taken from its channel
  queue,     \* broker: the messages ready to be sent
  unacked,   \* broker: the message sent to the subscriber and not acknowledged, or Nil
  stored,    \* history: the messages the broker has accepted
  msgs,      \* library: the delivery that waits for the subscriber, or Nil
  sub,       \* the subscriber goroutine: "none", "select", "deliver", "ack", "exited"
  held,      \* d.Body of its current delivery, or Nil
  recvCh,    \* the channel of Receive
  received,  \* history: the messages of Outgoing the client has read from recvCh
  emptyRead  \* history: whether it has read an empty one

brokerVars == <<queue, unacked, stored>>
subVars == <<msgs, sub, held, recvCh, received, emptyRead>>
vars == <<conn, lock, errs, stop, pub, handed, brokerVars, subVars>>

(* What WithConnection sets. *)
Options == [Connection : {"nil", "open"}]

Init ==
  /\ \E o \in Options : conn = o.Connection
  /\ lock = "free" /\ errs = 0 /\ stop = "no"
  /\ pub = "none" /\ handed = <<>>
  /\ queue = {} /\ unacked = Nil /\ stored = {}
  /\ msgs = Nil /\ sub = "none" /\ held = Nil
  /\ recvCh = <<>> /\ received = <<>> /\ emptyRead = FALSE

PutError ==
  /\ errs < ErrCap
  /\ errs' = errs + 1

----------------------------------------------------------------------------
(* newConnection dials only if there is no connection; then the channel, the
   queue and the consumer, none of which a lost connection provides and each of
   which a live one may refuse. *)

Connects ==
  /\ conn \in {"nil", "open"}
  /\ conn' = "open"

ReceiveOpens ==
  /\ lock = "free" /\ sub = "none"
  /\ Connects
  /\ sub' = "select"
  /\ UNCHANGED <<lock, errs, stop, pub, handed, brokerVars, msgs, held, recvCh, received,
                 emptyRead>>

SendOpens ==
  /\ lock = "free" /\ pub = "none"
  /\ Connects
  /\ pub' = "select"
  /\ UNCHANGED <<lock, errs, stop, handed, brokerVars, subVars>>

(* The mutex is locked while the error is put on errChan. *)
OpenFails ==
  /\ lock = "free"
  /\ \/ sub = "none" /\ lock' = "receive"
     \/ pub = "none" /\ lock' = "send"
  /\ conn' \in IF conn = "nil" THEN {"nil", "open"} ELSE {conn}
  /\ UNCHANGED <<errs, stop, pub, handed, brokerVars, subVars>>

OpenReports ==
  /\ lock # "free"
  /\ PutError
  /\ lock' = "free"
  /\ UNCHANGED <<conn, stop, pub, handed, brokerVars, subVars>>

----------------------------------------------------------------------------
(* The subscriber goroutine. *)

SubGoes(from, to) ==
  /\ sub = from
  /\ sub' = to

(* case d := <-msgs, also of what came before the connection was lost *)
Delivery ==
  /\ msgs # Nil
  /\ SubGoes("select", "deliver")
  /\ held' = msgs
  /\ msgs' = Nil
  /\ UNCHANGED <<conn, lock, errs, stop, pub, handed, brokerVars, recvCh, received, emptyRead>>

(* Mutant: a select with a default that falls through to d.Body. *)
MsgsClosedOrEmpty == conn \in {"dead", "closed"} \/ msgs = Nil

MsgsClosed == conn \in {"dead", "closed"}

(* The library has closed msgs, and d is the zero value, again and again. *)
NoDelivery ==
  /\ MsgsClosed
  /\ SubGoes("select", "deliver")
  /\ held' = Empty
  /\ UNCHANGED <<conn, lock, errs, stop, pub, handed, brokerVars, msgs, recvCh, received,
                 emptyRead>>

(* Mutant: a select with a default. *)
DeliveringOrNot == IF Len(recvCh) < ChanCap THEN {Append(recvCh, held)} ELSE {recvCh}

(* ch <- d.Body *)
Delivering == IF Len(recvCh) < ChanCap THEN {Append(recvCh, held)} ELSE {}

(* Mutant: d.Ack is forgotten. *)
AfterDeliverySelect == "select"

AfterDelivery == "ack"

Deliver ==
  /\ SubGoes("deliver", AfterDelivery)
  /\ recvCh' \in Delivering
  /\ UNCHANGED <<conn, lock, errs, stop, pub, handed, brokerVars, msgs, held, received, emptyRead>>

(* Mutant: d.Nack(false, true), which puts the message back. *)
QueueAfterNack == queue \cup ({unacked} \ {Nil})

QueueAfterAck == queue

(* d.Ack(false), whose error is ignored *)
Ack ==
  /\ SubGoes("ack", "select")
  /\ unacked' = IF conn = "open" THEN Nil ELSE unacked
  /\ queue' = QueueAfterAck
  /\ held' = Nil
  /\ UNCHANGED <<conn, lock, errs, stop, pub, handed, stored, msgs, recvCh, received, emptyRead>>

(* Mutant: stopSubChan is looked at only while msgs is not ready. *)
StopSeenWhenIdle == stop # "no" /\ ~MsgsClosed /\ msgs = Nil

StopSeen == stop # "no"

(* Mutant: the consumer asked for automatic acknowledgement. *)
RequeueNothing ==
  /\ unacked' = Nil
  /\ UNCHANGED <<queue, stored>>

(* The broker queues again what was not acknowledged. *)
Requeue ==
  /\ queue' = queue \cup ({unacked} \ {Nil})
  /\ unacked' = Nil
  /\ UNCHANGED stored

(* return, and rmqch.Close(), with which the broker queues a waiting delivery again *)
SubscriberSeesStop ==
  /\ StopSeen
  /\ SubGoes("select", "exited")
  /\ Requeue
  /\ msgs' = Nil
  /\ UNCHANGED <<conn, lock, errs, stop, pub, handed, held, recvCh, received, emptyRead>>

----------------------------------------------------------------------------
(* The publisher goroutine, which takes a message when it is in its select.
   Publish does not wait for the broker: on a connection that is lost but not
   yet known to be it succeeds and the message is gone. *)
Publish(m) ==
  /\ pub = "select"
  /\ m \notin Range(handed)
  /\ handed' = Append(handed, m)
  /\ pub' = IF conn \in {"dead", "closed"} THEN "report" ELSE "select"
  /\ IF conn = "open" THEN queue' = queue \cup {m} /\ stored' = stored \cup {m}
                      ELSE UNCHANGED <<queue, stored>>
  /\ UNCHANGED <<conn, lock, errs, stop, unacked, subVars>>

ReportPublishError ==
  /\ pub = "report"
  /\ PutError
  /\ pub' = "select"
  /\ UNCHANGED <<conn, lock, stop, handed, brokerVars, subVars>>

PublisherSeesStop ==
  /\ stop # "no" /\ pub = "select"
  /\ pub' = "exited"
  /\ UNCHANGED <<conn, lock, errs, stop, handed, brokerVars, subVars>>

----------------------------------------------------------------------------
(* Stop, called once and without the mutex; the client; the connection. *)

CallStop ==
  /\ stop = "no"
  /\ stop' = "closing"
  /\ UNCHANGED <<conn, lock, errs, pub, handed, brokerVars, subVars>>

(* Mutant: t.wg.Add(1) is not left to makePublisher. *)
PublisherExited == pub = "exited"

(* t.wg.Wait() returns *)
PublisherGone == pub \in {"none", "exited"}

(* t.connection.Close(); close(t.stopchan) *)
StopEnds ==
  /\ stop = "closing"
  /\ PublisherGone
  /\ IF conn = "nil" THEN stop' = "panicked" /\ UNCHANGED <<conn, brokerVars, msgs>>
                     ELSE stop' = "done" /\ conn' = "closed" /\ Requeue /\ msgs' = Nil
  /\ UNCHANGED <<lock, errs, pub, handed, sub, held, recvCh, received, emptyRead>>

ClientReceive ==
  /\ recvCh # <<>>
  /\ recvCh' = Tail(recvCh)
  /\ IF Head(recvCh) = Empty
     THEN emptyRead' = TRUE /\ UNCHANGED received
     ELSE received' = Append(received, Head(recvCh)) /\ UNCHANGED emptyRead
  /\ UNCHANGED <<conn, lock, errs, stop, pub, handed, brokerVars, msgs, sub, held>>

DrainErr ==
  /\ errs > 0
  /\ errs' = errs - 1
  /\ UNCHANGED <<conn, lock, stop, pub, handed, brokerVars, subVars>>

(* The broker sends a message to the consumer (prefetch 1). *)
BrokerSends(m) ==
  /\ conn = "open" /\ sub \notin {"none", "exited"}
  /\ m \in queue /\ unacked = Nil
  /\ queue' = queue \ {m}
  /\ unacked' = m
  /\ msgs' = m
  /\ UNCHANGED <<conn, lock, errs, stop, pub, handed, stored, sub, held, recvCh, received,
                 emptyRead>>

ConnectionLost ==
  /\ conn = "open"
  /\ conn' = "dying"
  /\ Requeue
  /\ UNCHANGED <<lock, errs, stop, pub, handed, subVars>>

(* The library closes msgs, and drops what waits there. *)
LossNoticed ==
  /\ conn = "dying"
  /\ conn' = "dead"
  /\ msgs' = Nil
  /\ UNCHANGED <<lock, errs, stop, pub, handed, brokerVars, sub, held, recvCh, received,
                 emptyRead>>

Next ==
  \/ ReceiveOpens \/ SendOpens \/ OpenFails \/ OpenReports
  \/ Delivery \/ NoDelivery \/ Deliver \/ Ack \/ SubscriberSeesStop
  \/ ReportPublishError \/ PublisherSeesStop
  \/ \E m \in Outgoing : BrokerSends(m) \/ Publish(m)
  \/ CallStop \/ StopEnds
  \/ ClientReceive \/ DrainErr \/ ConnectionLost \/ LossNoticed

(* The goroutines run, and the client reads both channels.  A select chooses at
   random and senders on errChan are served in FIFO order, hence SF. *)
Fairness ==
  /\ SF_vars(OpenReports)
  /\ WF_vars(Deliver \/ Ack) /\ SF_vars(SubscriberSeesStop)
  /\ WF_vars(Delivery)
  /\ SF_vars(ReportPublishError \/ PublisherSeesStop)
  /\ WF_vars(StopEnds) /\ WF_vars(ClientReceive) /\ WF_vars(DrainErr)

Spec == Init /\ [][Next]_vars
FairSpec == Spec /\ Fairness

----------------------------------------------------------------------------
TypeOK ==
  /\ conn \in {"nil", "open", "dying", "dead", "closed"}
  /\ lock \in {"free", "receive", "send"}
  /\ errs \in 0 .. ErrCap
  /\ stop \in {"no", "closing", "done", "panicked"}
  /\ pub \in {"none", "select", "report", "exited"}
  /\ handed \in Seq(Outgoing)
  /\ queue \subseteq Outgoing /\ stored \subseteq Outgoing
  /\ unacked \in Outgoing \cup {Nil}
  /\ msgs \in Outgoing \cup {Nil}
  /\ sub \in {"none", "select", "deliver", "ack", "exited"}
  /\ held \in Outgoing \cup {Empty, Nil}
  /\ held # Nil <=> sub \in {"deliver", "ack"}
  /\ recvCh \in Seq(Outgoing \cup {Empty})
  /\ received \in Seq(Outgoing)
  /\ emptyRead \in BOOLEAN

Passed == Range(received) \cup (Range(recvCh) \ {Empty})

(* A message leaves the broker for good only after it was put on the channel,
   whenever the connection is lost. *)
NothingVanishes == stored \subseteq queue \cup ({unacked} \ {Nil}) \cup Passed

(* A message that was put on the channel is not in the queue as well, unless the
   connection was lost before its acknowledgement: one message at most.  None is
   put on the channel twice. *)
RepeatedOnce ==
  /\ conn = "open" => queue \cap Passed = {}
  /\ Cardinality(queue \cap Passed) <= 1
  /\ IsInjective(received) /\ Range(received) \cap Range(recvCh) = {}
  /\ \A i, j \in DOMAIN recvCh : i # j /\ recvCh[i] = recvCh[j] => recvCh[i] = Empty

(* Empty messages, which nobody sent, mean that the connection has gone, and no
   message of the queue comes after them on this channel. *)
Dry ==
  emptyRead \/ held = Empty \/ Empty \in Range(recvCh) => conn \in {"dead", "closed"}

NothingAfterEmpty ==
  /\ Dry
  /\ emptyRead => Range(recvCh) \cup {held} \subseteq {Empty, Nil}
  /\ \A i, j \in DOMAIN recvCh : i < j /\ recvCh[i] = Empty => recvCh[j] = Empty
  /\ Empty \in Range(recvCh) => held \in {Empty, Nil}

(* With a connection, even a lost one, Stop returns; without one it panics. *)
StopReturns == (stop = "closing" /\ conn # "nil") ~> stop = "done"

(* Whatever the state of the connection, after Stop the subscriber ends, although
   Stop does not wait for it and msgs is ready all the time once it is closed. *)
SubscriberExits == stop # "no" ~> sub \in {"none", "exited"}
=============================================================================
