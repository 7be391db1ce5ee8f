---------------------------- MODULE NatsTransport ----------------------------
(***************************************************************************)
(* Transport (src/queues/nats/nats.go).  One mutex guards Receive, Send and *)
(* Stop; a failing Receive or Send holds it while it puts its error on      *)
(* errChan, Stop while it waits for the publishers.  The client's receiving *)
(* loop evaluates Receive(In) on every turn, as that of vicetest does.      *)
(***************************************************************************)
EXTENDS Integers, Sequences, FiniteSets, Functions, SequencesExt

CONSTANTS
  Names,      \* subjects
  In,         \* the one the client receives from
  Outgoing,   \* messages the clients send, each at most once per name
  ChanCap,    \* capacity of the channels of Send and Receive (1024)
  ErrCap,     \* capacity of errChan (10)
  PendingCap, \* messages the client library keeps for a slow subscriber
  MaxDrops,   \* bound: how often the connection is lost
  Nil         \* not a message

ASSUME NatsAssumption ==
  /\ In \in Names
  /\ Nil \notin Outgoing
  /\ {ChanCap, ErrCap, PendingCap} \subseteq Nat \ {0}
  /\ MaxDrops \in Nat

VARIABLES
  mode,       \* [streaming |-> t.natsStreaming, oneLoop |-> does one loop read both channels]
  lock,       \* the mutex: "free", or the method that blocks with it locked
  stop,       \* "no", "called", "closing" (stopPubChan is closed), "done"
  errs,       \* how many errors wait on errChan
  link,       \* t.natsConn: "none" (nil), "up", "down" (reconnecting), "closed"
  stan,       \* t.natsStreamingConn: "none", "open", "closed"
  drops,      \* history: how often the connection was lost
  pub,        \* the publisher of each name: where its goroutine is
  sendCh,     \* the channel Send(name) returned
  accepted,   \* history: all that clients have put on sendCh
  tried,      \* history: the messages Publish was called with
  promised,   \* history: Len(accepted[n]) when stopPubChan was closed
  sub,        \* the subscription of In: "none", "on", "off"
  pending,    \* client library: messages waiting for the callback
  handling,   \* the message the callback has yet to put on recvCh, or Nil
  recvCh,     \* the channel Receive(In) returned
  received,   \* history: what the client has read from recvCh
  arrived,    \* history: what the server has passed to the subscription
  redelivered,\* messages NATS streaming has delivered a second time
  loop        \* the client's loop: "call" (in Receive) or "select"

connVars == <<link, stan, drops>>
sendVars == <<pub, sendCh, accepted, tried, promised>>
subVars == <<sub, pending, handling, recvCh, received, arrived, redelivered>>
vars == <<mode, lock, stop, errs, connVars, sendVars, subVars, loop>>

(* What WithConnection and WithStreaming set. *)
Options == [Conn : {"none", "up"}, UseStreaming : BOOLEAN]

Init ==
  /\ mode \in [streaming : BOOLEAN, oneLoop : BOOLEAN]
  /\ lock = "free" /\ stop = "no" /\ errs = 0
  /\ \E o \in Options : link = o.Conn /\ mode.streaming = o.UseStreaming
  /\ stan = "none" /\ drops = 0
  /\ pub = [n \in Names |-> "none"]
  /\ sendCh = [n \in Names |-> <<>>]
  /\ accepted = [n \in Names |-> <<>>]
  /\ tried = [n \in Names |-> <<>>]
  /\ promised = [n \in Names |-> 0]
  /\ sub = "none" /\ pending = <<>> /\ handling = Nil
  /\ recvCh = <<>> /\ received = <<>> /\ arrived = <<>> /\ redelivered = {}
  /\ loop = "call"

----------------------------------------------------------------------------
(* newConnection and newStreamingConnection: each connects unless its field is
   set.  A failed Connect leaves nil in the field. *)

NeedsStan == mode.streaming /\ stan = "none"

Connects ==
  /\ link' = IF link = "none" THEN "up" ELSE link
  /\ stan' = IF NeedsStan THEN "open" ELSE stan
  /\ NeedsStan => link' = "up"
  /\ UNCHANGED drops

ConnectFails ==
  /\ \/ link = "none" /\ UNCHANGED link
     \/ NeedsStan /\ link' = IF link = "none" THEN "up" ELSE link
  /\ UNCHANGED <<stan, drops>>

(* Mutant: a return that leaves the mutex locked. *)
UnlockForgotten == UNCHANGED lock

(* defer t.Unlock() *)
Unlock == lock' = "free"

PutError ==
  /\ errs < ErrCap
  /\ errs' = errs + 1

----------------------------------------------------------------------------
(* Receive(In), under the mutex. *)

ReceiveLooksUp ==
  /\ loop = "call" /\ lock = "free" /\ sub # "none"
  /\ loop' = "select"
  /\ UNCHANGED <<mode, lock, stop, errs, connVars, sendVars, subVars>>

CanSubscribe(l, s) == l # "closed" /\ (mode.streaming => l = "up" /\ s = "open")

ReceiveOpens ==
  /\ loop = "call" /\ lock = "free" /\ sub = "none"
  /\ Connects
  /\ CanSubscribe(link', stan')
  /\ sub' = "on"
  /\ loop' = "select"
  /\ UNCHANGED <<mode, lock, stop, errs, sendVars, pending, handling, recvCh, received,
                 arrived, redelivered>>

(* newConnection fails, or QueueSubscribe does. *)
ReceiveFails ==
  /\ loop = "call" /\ lock = "free" /\ sub = "none"
  /\ ConnectFails \/ (Connects /\ ~CanSubscribe(link', stan'))
  /\ lock' = "receive"
  /\ UNCHANGED <<mode, stop, errs, sendVars, subVars, loop>>

ReceiveReports ==
  /\ lock = "receive"
  /\ PutError
  /\ Unlock
  /\ loop' = "select"  \* on a channel nobody writes to
  /\ UNCHANGED <<mode, stop, connVars, sendVars, subVars>>

(* The subscription's callback.  It blocks while ch is full; a second message
   waits in the client library. *)
CallbackStarts ==
  /\ handling = Nil /\ pending # <<>>
  /\ handling' = Head(pending)
  /\ pending' = Tail(pending)
  /\ UNCHANGED <<mode, lock, stop, errs, connVars, sendVars, sub, recvCh, received, arrived,
                 redelivered, loop>>

(* Mutant: a select with a default. *)
DeliveringOrNot == IF Len(recvCh) < ChanCap THEN {Append(recvCh, handling)} ELSE {recvCh}

(* ch <- m.Data *)
Delivering == IF Len(recvCh) < ChanCap THEN {Append(recvCh, handling)} ELSE {}

CallbackDelivers ==
  /\ handling # Nil
  /\ recvCh' \in Delivering
  /\ handling' = Nil
  /\ UNCHANGED <<mode, lock, stop, errs, connVars, sendVars, sub, pending, received, arrived,
                 redelivered, loop>>

(* NATS streaming repeats a message whose callback has not returned within the
   ack wait; here at most once per message. *)
Redeliver ==
  /\ mode.streaming /\ sub = "on" /\ link = "up"
  /\ handling \notin redelivered \cup {Nil}
  /\ redelivered' = redelivered \cup {handling}
  /\ pending' = Append(pending, handling)
  /\ arrived' = Append(arrived, handling)
  /\ UNCHANGED <<mode, lock, stop, errs, connVars, sendVars, sub, handling, recvCh, received,
                 loop>>

----------------------------------------------------------------------------
(* Send(n), under the mutex, and its publisher. *)

SendOpens(n) ==
  /\ lock = "free" /\ pub[n] = "none"
  /\ Connects
  /\ pub' = [pub EXCEPT ![n] = "select"]
  /\ UNCHANGED <<mode, lock, stop, errs, sendCh, accepted, tried, promised, subVars, loop>>

SendFails(n) ==
  /\ lock = "free" /\ pub[n] = "none"
  /\ ConnectFails
  /\ lock' = "send"
  /\ UNCHANGED <<mode, stop, errs, sendVars, subVars, loop>>

SendReports ==
  /\ lock = "send"
  /\ PutError
  /\ Unlock
  /\ UNCHANGED <<mode, stop, connVars, sendVars, subVars, loop>>

ClientSend(n, m) ==
  /\ pub[n] # "none"
  /\ m \notin Range(accepted[n])
  /\ Len(sendCh[n]) < ChanCap
  /\ sendCh' = [sendCh EXCEPT ![n] = Append(@, m)]
  /\ accepted' = [accepted EXCEPT ![n] = Append(@, m)]
  /\ UNCHANGED <<mode, lock, stop, errs, connVars, pub, tried, promised, subVars, loop>>

(* Mutant: no such test. *)
MayLeaveAtOnce(n) == TRUE

(* if len(ch) != 0 && t.natsConn.IsConnected() { continue } *)
MayLeave(n) == sendCh[n] = <<>> \/ link # "up"

SeeStop(n) ==
  /\ stop \in {"closing", "done"}
  /\ pub[n] = "select"
  /\ MayLeave(n)
  /\ pub' = [pub EXCEPT ![n] = "exited"]
  /\ UNCHANGED <<mode, lock, stop, errs, connVars, sendCh, accepted, tried, promised, subVars,
                 loop>>

(* What a published message adds to the subscription: nothing if there is none
   or if the client library has dropped it, its subscriber being slow. *)
Reaches(n, m) ==
  IF n = In /\ sub = "on" /\ (mode.streaming \/ Len(pending) < PendingCap) THEN <<m>> ELSE <<>>

(* Publish returns nil.  NATS streaming waits for the server's answer; plain
   NATS buffers what is published while it reconnects, and may lose it. *)
PublishWorks(n) ==
  /\ IF mode.streaming THEN link = "up" /\ stan = "open" ELSE link \in {"up", "down"}
  /\ \E new \in {Reaches(n, Head(sendCh[n]))} \cup IF link = "up" THEN {} ELSE {<<>>} :
       /\ pending' = pending \o new
       /\ arrived' = arrived \o new
  /\ UNCHANGED pub

(* It returns an error, as it may on a live connection too (a payload above the
   limit, no acknowledgement in time); a message of NATS streaming may be stored
   all the same. *)
PublishFails(n) ==
  /\ pub' = [pub EXCEPT ![n] = "report"]
  /\ \E new \in {<<>>} \cup IF mode.streaming /\ stan = "open"
                            THEN {Reaches(n, Head(sendCh[n]))} ELSE {} :
       /\ pending' = pending \o new
       /\ arrived' = arrived \o new

(* Mutant: a message is put back after an error. *)
RestAndRetry(n) == IF link = "up" THEN Tail(sendCh[n]) ELSE sendCh[n]

Rest(n) == Tail(sendCh[n])

TakeMessage(n) ==
  /\ pub[n] = "select"
  /\ sendCh[n] # <<>>
  /\ sendCh' = [sendCh EXCEPT ![n] = Rest(n)]
  /\ tried' = [tried EXCEPT ![n] = Append(@, Head(sendCh[n]))]
  /\ PublishWorks(n) \/ PublishFails(n)
  /\ UNCHANGED <<mode, lock, stop, errs, connVars, accepted, promised, sub, handling, recvCh,
                 received, redelivered, loop>>

ReportPublishError(n) ==
  /\ pub[n] = "report"
  /\ PutError
  /\ pub' = [pub EXCEPT ![n] = "select"]
  /\ UNCHANGED <<mode, lock, stop, connVars, sendCh, accepted, tried, promised, subVars, loop>>

----------------------------------------------------------------------------
(* Stop, called once. *)

CallStop ==
  /\ stop = "no"
  /\ stop' = "called"
  /\ UNCHANGED <<mode, lock, errs, connVars, sendVars, subVars, loop>>

(* t.Lock() *)
StopLocks == lock = "free" /\ lock' = "stop"

(* The Unsubscribe calls, close(t.stopPubChan) *)
StopBegins ==
  /\ stop = "called" /\ StopLocks
  /\ stop' = "closing"
  /\ sub' = IF sub = "on" THEN "off" ELSE sub
  /\ pending' = <<>>
  /\ promised' = [n \in Names |-> Len(accepted[n])]
  /\ UNCHANGED <<mode, errs, connVars, pub, sendCh, accepted, tried, handling, recvCh,
                 received, arrived, redelivered, loop>>

(* Mutant: no t.wg.Wait(). *)
PublishersIgnored == TRUE

PublishersGone == \A n \in Names : pub[n] \in {"none", "exited"}

(* t.wg.Wait(), the Close calls, t.natsConn = nil, close(t.stopchan).  The
   streaming connection stays in its field. *)
StopEnds ==
  /\ stop = "closing"
  /\ PublishersGone
  /\ link' = "none"
  /\ stan' = IF stan = "open" THEN "closed" ELSE stan
  /\ Unlock
  /\ stop' = "done"
  /\ UNCHANGED <<mode, errs, drops, sendVars, subVars, loop>>

----------------------------------------------------------------------------
(* The client's loop, and the connection. *)

ClientReceive ==
  /\ loop = "select" /\ recvCh # <<>>
  /\ received' = Append(received, Head(recvCh))
  /\ recvCh' = Tail(recvCh)
  /\ loop' = "call"
  /\ UNCHANGED <<mode, lock, stop, errs, connVars, sendVars, sub, pending, handling, arrived,
                 redelivered>>

DrainErr ==
  /\ errs > 0
  /\ errs' = errs - 1
  /\ IF mode.oneLoop THEN loop = "select" /\ loop' = "call" ELSE UNCHANGED loop
  /\ UNCHANGED <<mode, lock, stop, connVars, sendVars, subVars>>

LinkDown ==
  /\ link = "up" /\ drops < MaxDrops
  /\ link' = "down"
  /\ drops' = drops + 1
  /\ UNCHANGED <<mode, lock, stop, errs, stan, sendVars, subVars, loop>>

LinkUp ==
  /\ link = "down"
  /\ link' = "up"
  /\ UNCHANGED <<mode, lock, stop, errs, stan, drops, sendVars, subVars, loop>>

(* After the last attempt to reconnect the library closes the connection. *)
LinkCloses ==
  /\ link = "down"
  /\ link' = "closed"
  /\ sub' = IF sub = "on" THEN "off" ELSE sub
  /\ pending' = <<>>
  /\ UNCHANGED <<mode, lock, stop, errs, stan, drops, sendVars, handling, recvCh, received,
                 arrived, redelivered, loop>>

Receive == ReceiveLooksUp \/ ReceiveOpens \/ ReceiveFails

Callback == CallbackStarts \/ CallbackDelivers
Publisher(n) == SeeStop(n) \/ TakeMessage(n) \/ ReportPublishError(n)
Stop == StopBegins \/ StopEnds

Next ==
  \/ Receive \/ ReceiveReports \/ SendReports \/ Callback \/ Redeliver
  \/ \E n \in Names :
       SendOpens(n) \/ SendFails(n) \/ Publisher(n) \/ \E m \in Outgoing : ClientSend(n, m)
  \/ CallStop \/ Stop
  \/ ClientReceive \/ DrainErr
  \/ LinkDown \/ LinkUp \/ LinkCloses

(* The goroutines run and the loop goes round.  A Go mutex and the senders of a
   channel are served in FIFO order, and a select chooses at random: hence SF
   where goroutines contend.  Clients need neither send nor call Stop; nothing
   is assumed of the connection. *)
Fairness ==
  /\ SF_vars(Receive) /\ SF_vars(ReceiveReports \/ SendReports)
  /\ WF_vars(Callback)
  /\ \A n \in Names : SF_vars(Publisher(n))
  /\ SF_vars(Stop)
  /\ SF_vars(ClientReceive) /\ SF_vars(DrainErr)

Spec == Init /\ [][Next]_vars
FairSpec == Spec /\ Fairness

----------------------------------------------------------------------------
TypeOK ==
  /\ mode \in [streaming : BOOLEAN, oneLoop : BOOLEAN]
  /\ lock \in {"free", "receive", "send", "stop"}
  /\ stop \in {"no", "called", "closing", "done"}
  /\ lock = "stop" <=> stop = "closing"
  /\ errs \in 0 .. ErrCap
  /\ link \in {"none", "up", "down", "closed"}
  /\ stan \in {"none", "open", "closed"}
  /\ drops \in Nat
  /\ pub \in [Names -> {"none", "select", "report", "exited"}]
  /\ sendCh \in [Names -> Seq(Outgoing)]
  /\ accepted \in [Names -> Seq(Outgoing)]
  /\ tried \in [Names -> Seq(Outgoing)]
  /\ promised \in [Names -> Nat]
  /\ sub \in {"none", "on", "off"}
  /\ {pending, recvCh, received, arrived} \subseteq Seq(Outgoing)
  /\ handling \in Outgoing \cup {Nil}
  /\ redelivered \subseteq Outgoing
  /\ loop \in {"call", "select"}

(* Publish is called once with each message of a Send channel, in order,
   whatever fails and while Stop drains the channel. *)
TriedInOrder == \A n \in Names : tried[n] \o sendCh[n] = accepted[n]

(* A publisher reads t.natsConn without the mutex (nats.go:196); Stop, which
   sets it to nil with the mutex locked, does so after the last such read. *)
ConnectionOutlivesPublishers ==
  \A n \in Names : pub[n] \in {"select", "report"} => link # "none"

(* When Done is closed Publish was called with every message that was on a Send
   channel at Stop, unless the connection has been lost: only then may a
   publisher leave messages in its channel. *)
DoneMeansTried ==
  stop = "done" /\ drops = 0 => \A n \in Names : Len(tried[n]) >= promised[n]

(* The client reads what the server passed on, in that order: a slow client
   makes the callback wait and never drops a message.  What waited in the client
   library is gone only after Unsubscribe or the end of the connection. *)
OnTheWay ==
  ((received \o recvCh) \o IF handling = Nil THEN <<>> ELSE <<handling>>) \o pending

ReceivedInOrder ==
  /\ IsPrefix(OnTheWay, arrived)
  /\ sub = "on" => OnTheWay = arrived

(* As long as the connection lasts the publishers and Stop do what Outbox
   promises.  Publish is the handing over. *)
Phase ==
  CASE stop \in {"no", "called"} -> "running"
    [] stop = "closing" -> "stopping"
    [] stop = "done" -> "stopped"

Promise == INSTANCE Outbox WITH Messages <- Outgoing, handed <- tried, phase <- Phase

ImplementsOutbox ==
  Promise!Init /\ [][drops = 0 => [Promise!Next]_(Promise!vars)]_vars

(* Everybody waits: the loop that would read ErrChan waits for the mutex, whose
   holder waits for room on errChan, or, in Stop, for a publisher that does. *)
Circle ==
  /\ mode.oneLoop /\ loop = "call" /\ errs = ErrCap
  /\ lock # "free"
  /\ lock = "stop" => \E n \in Names : pub[n] = "report"

(* Stop returns, unless that circle has closed: with a goroutine of its own for
   ErrChan it always does. *)
StopReturns == stop = "called" ~> (stop = "done" \/ Circle)
=============================================================================
