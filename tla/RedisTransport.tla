---------------------------- MODULE RedisTransport ----------------------------
(***************************************************************************)
(* Transport (src/queues/redis/redis.go): the publisher and the subscriber  *)
(* of one name, which share t.client, errChan and Stop with those of the    *)
(* other names.  The server is external: a list per name, and a connection  *)
(* that may be down.                                                        *)
(***************************************************************************)
EXTENDS Integers, Sequences, FiniteSets, Functions, SequencesExt

CONSTANTS
  Outgoing,   \* messages the clients send, each at most once
  ChanCap,    \* capacity of the channels of Send and Receive (1024)
  ErrCap,     \* capacity of errChan (10)
  MaxDrops,   \* bound: how often the server becomes unreachable
  Nil         \* not a message

ASSUME RedisAssumption ==
  /\ Nil \notin Outgoing
  /\ {ChanCap, ErrCap} \subseteq Nat \ {0}
  /\ MaxDrops \in Nat

VARIABLES
  client,     \* t.client: "nil", "set", "closed"
  up, drops,  \* whether the server answers; history: how often it ceased to
  lock,       \* the mutex: "free", or the failing method that holds it
  errs,       \* how many errors wait on errChan
  stop,       \* "no", "closing" (both stop channels closed), "done", "panicked"
  pub,        \* the publisher goroutine: "none", "select", "report", "exited"
  sendCh,     \* the channel of Send
  accepted,   \* history: all that clients have put on sendCh
  tried,      \* history: the messages RPush was called with
  promised,   \* history: Len(accepted) when stopPubChan was closed
  list,       \* server: the list, its right end last
  stored,     \* history: the messages that have been in the list
  lost,       \* history: popped, but the answer did not arrive
  sub,        \* the subscriber goroutine: "none", "pop", "deliver", "report", "exited"
  held,       \* the message it has yet to put on recvCh, or Nil
  recvCh,     \* the channel of Receive
  received    \* history: what the client has read from recvCh

connVars == <<client, up, drops>>
pubVars == <<pub, sendCh, accepted, tried, promised>>
serverVars == <<list, stored, lost>>
subVars == <<sub, held, recvCh, received>>
vars == <<connVars, lock, errs, stop, pubVars, serverVars, subVars>>

(* What WithClient sets. *)
Options == [Client : {"nil", "set"}]

Init ==
  /\ \E o \in Options : client = o.Client
  /\ up \in BOOLEAN /\ drops = IF up THEN 0 ELSE 1
  /\ lock = "free" /\ errs = 0 /\ stop = "no"
  /\ pub = "none" /\ sendCh = <<>> /\ accepted = <<>> /\ tried = <<>> /\ promised = 0
  /\ list = <<>> /\ stored = {} /\ lost = {}
  /\ sub = "none" /\ held = Nil /\ recvCh = <<>> /\ received = <<>>

Answers == up /\ client = "set"

PutError ==
  /\ errs < ErrCap
  /\ errs' = errs + 1

----------------------------------------------------------------------------
(* newConnection: the new client is pinged and, even if that fails, kept; a
   later call does not ping it again. *)

Connects ==
  /\ client = "nil" => up
  /\ client' = IF client = "nil" THEN "set" ELSE client
  /\ UNCHANGED <<up, drops>>

ConnectFails ==
  /\ client = "nil" /\ ~up
  /\ client' = "set"
  /\ UNCHANGED <<up, drops>>

(* Receive and Send; a failing one puts its error on errChan with the mutex locked. *)

ReceiveOpens ==
  /\ lock = "free" /\ sub = "none"
  /\ Connects
  /\ sub' = "pop"
  /\ UNCHANGED <<lock, errs, stop, pubVars, serverVars, held, recvCh, received>>

SendOpens ==
  /\ lock = "free" /\ pub = "none"
  /\ Connects
  /\ pub' = "select"
  /\ UNCHANGED <<lock, errs, stop, sendCh, accepted, tried, promised, serverVars, subVars>>

OpenFails ==
  /\ lock = "free"
  /\ \/ sub = "none" /\ lock' = "receive"
     \/ pub = "none" /\ lock' = "send"
  /\ ConnectFails
  /\ UNCHANGED <<errs, stop, pubVars, serverVars, subVars>>

OpenReports ==
  /\ lock # "free"
  /\ PutError
  /\ lock' = "free"
  /\ UNCHANGED <<connVars, stop, pubVars, serverVars, subVars>>

----------------------------------------------------------------------------
(* The subscriber goroutine.  BRPop takes the right end of the list. *)

Pop ==
  /\ sub = "pop" /\ Answers
  /\ list # <<>>
  /\ list' = Front(list)
  /\ sub' = "deliver"
  /\ held' = Last(list)
  /\ UNCHANGED <<connVars, lock, errs, stop, pubVars, stored, lost, recvCh, received>>

(* Mutant: no look at stopSubChan. *)
AfterPopErrorReport == "report"

AfterPopError == IF stop = "no" THEN "report" ELSE "exited"

(* The server is away, or replies with an error, or the client is closed; an
   answer that is lost with the connection may take a message with it. *)
PopFails ==
  /\ sub = "pop"
  /\ sub' = AfterPopError
  /\ \/ UNCHANGED serverVars
     \/ /\ ~Answers /\ list # <<>>
        /\ list' = Front(list)
        /\ lost' = lost \cup {Last(list)}
        /\ UNCHANGED stored
  /\ UNCHANGED <<connVars, lock, errs, stop, pubVars, held, recvCh, received>>

ReportPopError ==
  /\ sub = "report"
  /\ PutError
  /\ sub' = "pop"
  /\ UNCHANGED <<connVars, lock, stop, pubVars, serverVars, held, recvCh, received>>

(* Mutant: a select with a default. *)
DeliveringOrNot == IF Len(recvCh) < ChanCap THEN {Append(recvCh, held)} ELSE {recvCh}

(* ch <- data *)
Delivering == IF Len(recvCh) < ChanCap THEN {Append(recvCh, held)} ELSE {}

Deliver ==
  /\ sub = "deliver"
  /\ recvCh' \in Delivering
  /\ held' = Nil
  /\ sub' = "pop"
  /\ UNCHANGED <<connVars, lock, errs, stop, pubVars, serverVars, received>>

----------------------------------------------------------------------------
(* The publisher goroutine. *)

ClientSend(m) ==
  /\ pub # "none"
  /\ m \notin Range(accepted)
  /\ Len(sendCh) < ChanCap
  /\ sendCh' = Append(sendCh, m)
  /\ accepted' = Append(accepted, m)
  /\ UNCHANGED <<connVars, lock, errs, stop, pub, tried, promised, serverVars, subVars>>

(* Mutant: a return at once. *)
MayLeaveAtOnce == TRUE

(* With messages in ch the publisher goes on as long as Ping succeeds: a server
   that answers is one that answers PING with no error. *)
MayLeave == sendCh = <<>> \/ ~Answers

SeeStop ==
  /\ stop # "no" /\ pub = "select"
  /\ MayLeave
  /\ pub' = "exited"
  /\ UNCHANGED <<connVars, lock, errs, stop, sendCh, accepted, tried, promised, serverVars,
                 subVars>>

Pushed == list' = Append(list, Head(sendCh)) /\ stored' = stored \cup {Head(sendCh)}

(* RPush succeeds, or fails: with an error reply of the server, or with no answer,
   when it may have stored the message all the same. *)
TakeMessage ==
  /\ pub = "select" /\ sendCh # <<>>
  /\ sendCh' = Tail(sendCh)
  /\ tried' = Append(tried, Head(sendCh))
  /\ \/ Answers /\ Pushed /\ UNCHANGED pub
     \/ pub' = "report" /\ UNCHANGED <<list, stored>>
     \/ ~Answers /\ client = "set" /\ Pushed /\ pub' = "report"
  /\ UNCHANGED <<connVars, lock, errs, stop, accepted, promised, lost, subVars>>

ReportPushError ==
  /\ pub = "report"
  /\ PutError
  /\ pub' = "select"
  /\ UNCHANGED <<connVars, lock, stop, sendCh, accepted, tried, promised, serverVars, subVars>>

----------------------------------------------------------------------------
(* Stop, called once and without the mutex; the client; the server. *)

CallStop ==
  /\ stop = "no"
  /\ stop' = "closing"
  /\ promised' = Len(accepted)
  /\ UNCHANGED <<connVars, lock, errs, pub, sendCh, accepted, tried, serverVars, subVars>>

(* t.wg.Wait() returns *)
PublisherGone == pub \in {"none", "exited"}

(* t.client.Close(), which ends a BRPop; close(t.stopchan) *)
StopEnds ==
  /\ stop = "closing"
  /\ PublisherGone
  /\ stop' = IF client = "nil" THEN "panicked" ELSE "done"
  /\ client' = IF client = "nil" THEN "nil" ELSE "closed"
  /\ UNCHANGED <<up, drops, lock, errs, pubVars, serverVars, subVars>>

ClientReceive ==
  /\ recvCh # <<>>
  /\ received' = Append(received, Head(recvCh))
  /\ recvCh' = Tail(recvCh)
  /\ UNCHANGED <<connVars, lock, errs, stop, pubVars, serverVars, sub, held>>

DrainErr ==
  /\ errs > 0
  /\ errs' = errs - 1
  /\ UNCHANGED <<connVars, lock, stop, pubVars, serverVars, subVars>>

ServerChanges ==
  /\ IF up THEN drops < MaxDrops /\ drops' = drops + 1 ELSE UNCHANGED drops
  /\ up' = ~up
  /\ UNCHANGED <<client, lock, errs, stop, pubVars, serverVars, subVars>>

Subscriber == Pop \/ PopFails \/ ReportPopError \/ Deliver
Publisher == SeeStop \/ TakeMessage \/ ReportPushError

Next ==
  \/ ReceiveOpens \/ SendOpens \/ OpenFails \/ OpenReports
  \/ Subscriber \/ Publisher \/ \E m \in Outgoing : ClientSend(m)
  \/ CallStop \/ StopEnds
  \/ ClientReceive \/ DrainErr \/ ServerChanges

(* The goroutines run, and the client reads both channels.  Senders blocked on
   errChan are served in FIFO order, hence SF.  The server need not come back. *)
Fairness ==
  /\ SF_vars(OpenReports) /\ SF_vars(Subscriber) /\ SF_vars(Publisher)
  /\ WF_vars(StopEnds) /\ WF_vars(ClientReceive) /\ WF_vars(DrainErr)

Spec == Init /\ [][Next]_vars
FairSpec == Spec /\ Fairness

----------------------------------------------------------------------------
TypeOK ==
  /\ client \in {"nil", "set", "closed"}
  /\ up \in BOOLEAN /\ drops \in Nat
  /\ lock \in {"free", "receive", "send"}
  /\ errs \in 0 .. ErrCap
  /\ stop \in {"no", "closing", "done", "panicked"}
  /\ pub \in {"none", "select", "report", "exited"}
  /\ {sendCh, accepted, tried} \subseteq Seq(Outgoing)
  /\ promised \in Nat
  /\ list \in Seq(Outgoing) /\ {stored, lost} \subseteq SUBSET Outgoing
  /\ sub \in {"none", "pop", "deliver", "report", "exited"}
  /\ held \in Outgoing \cup {Nil}
  /\ held # Nil <=> sub = "deliver"
  /\ {recvCh, received} \subseteq Seq(Outgoing)

(* RPush is called once with each message of the Send channel, in order. *)
TriedInOrder == tried \o sendCh = accepted

(* When Done is closed RPush was called with every message that was on the Send
   channel at Stop, unless the server has been away since the start. *)
DoneMeansTried == stop = "done" /\ drops = 0 => Len(tried) >= promised

(* A popped message is nowhere but in this process: it is with the subscriber, on
   its channel or with the client, once, unless the answer to BRPop was lost. *)
PoppedOnce ==
  /\ stored = Range(list) \cup lost \cup ({held} \ {Nil}) \cup Range(recvCh) \cup Range(received)
  /\ Cardinality(stored) =
       Len(list) + Cardinality(lost) + Len(recvCh) + Len(received) + IF held = Nil THEN 0 ELSE 1

(* As long as the server answers the publisher and Stop do what Outbox promises
   for one name.  RPush is the handing over. *)
Phase ==
  CASE stop = "no" -> "running"
    [] stop \in {"closing", "panicked"} -> "stopping"
    [] stop = "done" -> "stopped"

ForTheName(x) == [n \in {"name"} |-> x]

Promise == INSTANCE Outbox
  WITH Names <- {"name"}, Messages <- Outgoing, accepted <- ForTheName(accepted),
       handed <- ForTheName(tried), promised <- ForTheName(promised), phase <- Phase

ImplementsOutbox ==
  Promise!Init /\ [][drops = 0 => [Promise!Next]_(Promise!vars)]_vars

(* The subscriber, which Stop does not wait for and which never looks at
   stopSubChan while BRPop succeeds, ends all the same once the client is closed. *)
SubscriberExits == stop = "done" ~> sub \in {"none", "exited"}

----------------------------------------------------------------------------
(* Channels "which you can then use as normal" (README.md:35): what one transport
   sends and receives again arrives in the order in which it was sent. *)
ReceivedInOrder == drops = 0 => IsPrefix(received, accepted)
=============================================================================
