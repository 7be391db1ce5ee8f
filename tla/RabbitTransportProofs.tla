------------------------ MODULE RabbitTransportProofs ------------------------
(* Safety of the RabbitMQ transport, for any messages and any capacities,
   whenever its connection is lost. *)
EXTENDS RabbitTransport, ChannelLemmas

LEMMA PutErrorType == ASSUME TypeOK, PutError PROVE errs' \in 0 .. ErrCap
BY RabbitAssumption DEF TypeOK, PutError

(* For everything but the counter of errors, the mutex, Stop and the publisher's
   place a step at most opens or gives up the connection or starts the subscriber
   (Quiet), loses the connection (Loses), or is one of the actions that touch messages. *)
Quiet ==
  /\ UNCHANGED <<queue, unacked, stored, handed, held, recvCh, received, emptyRead>>
  /\ \/ conn' = conn /\ msgs' = msgs
     \/ conn = "nil" /\ conn' = "open" /\ msgs' = msgs
     \/ conn = "dying" /\ conn' = "dead" /\ msgs' = Nil
  /\ \/ sub' = sub
     \/ sub = "none" /\ sub' = "select"

Loses ==
  /\ conn # "nil"
  /\ \/ conn = "open" /\ conn' = "dying" /\ msgs' = msgs
     \/ conn' = "closed" /\ msgs' = Nil
  /\ Requeue
  /\ UNCHANGED <<handed, sub, held, recvCh, received, emptyRead>>

Moves ==
  \/ Quiet \/ Loses
  \/ \E m \in Outgoing : BrokerSends(m) \/ Publish(m)
  \/ Delivery \/ NoDelivery \/ Deliver \/ Ack \/ SubscriberSeesStop \/ ClientReceive

LEMMA NextMoves == [Next]_vars => Moves
<1> SUFFICES ASSUME [Next]_vars PROVE Moves
  OBVIOUS
<1>1. CASE UNCHANGED vars
  BY <1>1 DEF Moves, Quiet, vars, brokerVars, subVars
<1>2. CASE ReceiveOpens
  BY <1>2 DEF Moves, Quiet, ReceiveOpens, Connects, brokerVars
<1>3. CASE SendOpens
  BY <1>3 DEF Moves, Quiet, SendOpens, Connects, brokerVars, subVars
<1>4. CASE OpenFails \/ OpenReports \/ ReportPublishError \/ PublisherSeesStop
  BY <1>4 DEF Moves, Quiet, OpenFails, OpenReports, ReportPublishError, PublisherSeesStop,
              brokerVars, subVars
<1>5. CASE CallStop \/ DrainErr
  BY <1>5 DEF Moves, Quiet, CallStop, DrainErr, brokerVars, subVars
<1>6. CASE SubscriberSeesStop \/ Delivery
  BY <1>6 DEF Moves
<1>7. CASE LossNoticed
  BY <1>7 DEF Moves, Quiet, LossNoticed, brokerVars
<1>8. CASE ConnectionLost
  BY <1>8 DEF Moves, Loses, ConnectionLost, subVars
<1>9. CASE StopEnds
  BY <1>9 DEF Moves, Quiet, Loses, StopEnds, brokerVars, subVars
<1>10. CASE NoDelivery \/ Deliver \/ Ack \/ ClientReceive
  BY <1>10 DEF Moves
<1>11. CASE \E m \in Outgoing : BrokerSends(m) \/ Publish(m)
  BY <1>11 DEF Moves
<1> QED
  BY <1>1, <1>2, <1>3, <1>4, <1>5, <1>6, <1>7, <1>8, <1>9, <1>10, <1>11 DEF Next
----------------------------------------------------------------------------
(* The variables that Moves does not tell of. *)
ControlType ==
  /\ lock \in {"free", "receive", "send"}
  /\ errs \in 0 .. ErrCap
  /\ stop \in {"no", "closing", "done", "panicked"}
  /\ pub \in {"none", "select", "report", "exited"}

LEMMA ControlStep == TypeOK /\ [Next]_vars => ControlType'
<1> SUFFICES ASSUME TypeOK, [Next]_vars PROVE ControlType'
  OBVIOUS
<1> USE DEF ControlType
<1>0. ControlType
  BY DEF TypeOK
<1>1. CASE UNCHANGED vars
  BY <1>0, <1>1 DEF vars
<1>2. CASE ReceiveOpens \/ SendOpens \/ OpenFails
  BY <1>0, <1>2 DEF ReceiveOpens, SendOpens, OpenFails
<1>3. CASE OpenReports \/ ReportPublishError
  BY <1>0, <1>3, PutErrorType DEF OpenReports, ReportPublishError
<1>4. CASE PublisherSeesStop \/ CallStop \/ StopEnds \/ LossNoticed \/ ConnectionLost
  BY <1>0, <1>4 DEF PublisherSeesStop, CallStop, StopEnds, LossNoticed, ConnectionLost
<1>5. CASE DrainErr
  BY <1>0, <1>5, RabbitAssumption DEF DrainErr
<1>6. CASE SubscriberSeesStop \/ Delivery \/ NoDelivery \/ Deliver \/ Ack \/ ClientReceive
  BY <1>0, <1>6 DEF SubscriberSeesStop, Delivery, NoDelivery, Deliver, Ack, ClientReceive
<1>7. ASSUME NEW m \in Outgoing, BrokerSends(m) \/ Publish(m) PROVE ControlType'
  BY <1>0, <1>7 DEF BrokerSends, Publish
<1> QED  BY <1>1, <1>2, <1>3, <1>4, <1>5, <1>6, <1>7 DEF Next

LEMMA InitType == Init => TypeOK
<1> SUFFICES ASSUME Init PROVE TypeOK
  OBVIOUS
<1>1. conn \in {"nil", "open"}
  BY DEF Init, Options
<1>2. /\ handed \in Seq(Outgoing) /\ received \in Seq(Outgoing)
      /\ recvCh \in Seq(Outgoing \cup {Empty})
  BY EmptySeq DEF Init
<1>3. errs \in 0 .. ErrCap
  BY RabbitAssumption DEF Init
<1> QED  BY <1>1, <1>2, <1>3, RabbitAssumption DEF Init, TypeOK

(* The subscriber holds a delivery just while it passes it on and acknowledges it. *)
LEMMA StepType == TypeOK /\ [Next]_vars => TypeOK'
<1> SUFFICES ASSUME TypeOK, [Next]_vars PROVE TypeOK'
  OBVIOUS
<1> USE RabbitAssumption
<1>0. ControlType' /\ Moves
  BY ControlStep, NextMoves
<1>1. CASE Quiet
  BY <1>0, <1>1 DEF ControlType, TypeOK, Quiet
<1>2. ASSUME NEW m \in Outgoing, BrokerSends(m) PROVE TypeOK'
  BY <1>0, <1>2 DEF ControlType, TypeOK, BrokerSends
<1>3. ASSUME NEW m \in Outgoing, Publish(m) PROVE TypeOK'
  <2>1. Append(handed, m) \in Seq(Outgoing)
    BY AppendProperties DEF TypeOK
  <2>2. queue' \subseteq Outgoing /\ stored' \subseteq Outgoing
    BY <1>3 DEF Publish, TypeOK
  <2>3. /\ handed' = Append(handed, m)
        /\ UNCHANGED <<conn, unacked, msgs, sub, held, recvCh, received, emptyRead>>
    BY <1>3 DEF Publish, subVars
  <2>4. handed' \in Seq(Outgoing)
    BY <2>1, <2>3
  <2> QED  BY <1>0, <2>2, <2>3, <2>4 DEF ControlType, TypeOK
<1>4. CASE NoDelivery
  BY <1>0, <1>4 DEF ControlType, TypeOK, NoDelivery, SubGoes, brokerVars
<1>5. CASE Deliver
  <2>1. held \in Outgoing \cup {Empty}
    BY <1>5 DEF Deliver, SubGoes, TypeOK
  <2>2. recvCh' = Append(recvCh, held)
    BY <1>5 DEF Deliver, Delivering
  <2>3. recvCh' \in Seq(Outgoing \cup {Empty})
    BY <2>1, <2>2, AppendProperties DEF TypeOK
  <2> QED  BY <1>0, <1>5, <2>3 DEF ControlType, TypeOK, Deliver, SubGoes, AfterDelivery, brokerVars
<1>6. CASE Ack
  BY <1>0, <1>6 DEF ControlType, TypeOK, Ack, SubGoes, QueueAfterAck
<1>7. CASE ClientReceive
  <2>1. recvCh \in Seq(Outgoing \cup {Empty}) /\ recvCh # <<>>
    BY <1>7 DEF ClientReceive, TypeOK
  <2>2. Head(recvCh) \in Outgoing \cup {Empty} /\ Tail(recvCh) \in Seq(Outgoing \cup {Empty})
    BY <2>1, HeadTailProperties
  <2>3. received' \in Seq(Outgoing) /\ emptyRead' \in BOOLEAN
    <3>1. CASE Head(recvCh) = Empty
      BY <1>7, <3>1 DEF ClientReceive, TypeOK
    <3>2. CASE Head(recvCh) # Empty
      <4>1. Head(recvCh) \in Outgoing /\ received \in Seq(Outgoing)
        BY <2>2, <3>2 DEF TypeOK
      <4>2. Append(received, Head(recvCh)) \in Seq(Outgoing)
        BY <4>1, AppendProperties
      <4> QED  BY <1>7, <3>2, <4>2 DEF ClientReceive, TypeOK
    <3> QED  BY <3>1, <3>2
  <2> QED  BY <1>0, <1>7, <2>2, <2>3 DEF ControlType, TypeOK, ClientReceive, brokerVars
<1>8. CASE Loses
  BY <1>0, <1>8 DEF ControlType, TypeOK, Loses, Requeue
<1>9. CASE Delivery
  BY <1>0, <1>9 DEF ControlType, TypeOK, Delivery, SubGoes, brokerVars
<1>10. CASE SubscriberSeesStop
  BY <1>0, <1>10 DEF ControlType, TypeOK, SubscriberSeesStop, SubGoes, Requeue
<1> QED
  BY <1>0, <1>1, <1>2, <1>3, <1>4, <1>5, <1>6, <1>7, <1>8, <1>9, <1>10 DEF Moves

(* Every variable has its type, errChan never holds more errors than it can, and the
   subscriber holds a delivery just while it passes it on and acknowledges it. *)
THEOREM TypeCorrect == Spec => []TypeOK
<1> QED  BY InitType, StepType, PTL DEF Spec
----------------------------------------------------------------------------
(* The channel of Receive. *)

(* The empty delivery of a closed msgs, or a delivery, joins the others. *)
LEMMA ChannelGrows ==
  ASSUME TypeOK, Deliver
  PROVE  /\ held \in Outgoing \cup {Empty}
         /\ recvCh' = Append(recvCh, held)
         /\ Range(recvCh') = Range(recvCh) \cup {held}
         /\ Len(recvCh) \in Nat /\ DOMAIN recvCh = 1 .. Len(recvCh)
         /\ DOMAIN recvCh' = 1 .. Len(recvCh) + 1
         /\ \A i \in 1 .. Len(recvCh) : recvCh'[i] = recvCh[i] /\ recvCh[i] \in Range(recvCh)
         /\ recvCh'[Len(recvCh) + 1] = held
<1>1. held \in Outgoing \cup {Empty} /\ recvCh \in Seq(Outgoing \cup {Empty})
  BY RabbitAssumption DEF Deliver, SubGoes, TypeOK
<1>2. recvCh' = Append(recvCh, held)
  BY DEF Deliver, Delivering
<1>3. Range(Append(recvCh, held)) = Range(recvCh) \cup {held}
  BY <1>1, RangeOfAppend
<1>4. /\ Len(recvCh) \in Nat /\ DOMAIN recvCh = 1 .. Len(recvCh)
      /\ DOMAIN Append(recvCh, held) = 1 .. Len(recvCh) + 1
      /\ \A i \in 1 .. Len(recvCh) : Append(recvCh, held)[i] = recvCh[i]
      /\ Append(recvCh, held)[Len(recvCh) + 1] = held
  BY <1>1, AppendProperties, LenProperties
<1> QED  BY <1>1, <1>2, <1>3, <1>4 DEF Range

LEMMA ChannelShrinks ==
  ASSUME TypeOK, ClientReceive
  PROVE  /\ recvCh' = Tail(recvCh)
         /\ Head(recvCh) \in Outgoing \cup {Empty}
         /\ Range(recvCh) = {Head(recvCh)} \cup Range(recvCh')
         /\ Len(recvCh) \in Nat \ {0} /\ DOMAIN recvCh = 1 .. Len(recvCh)
         /\ DOMAIN recvCh' = 1 .. Len(recvCh) - 1
         /\ recvCh[1] = Head(recvCh)
         /\ \A i \in 1 .. Len(recvCh) - 1 : recvCh'[i] = recvCh[i + 1]
<1>1. recvCh \in Seq(Outgoing \cup {Empty}) /\ recvCh # <<>> /\ recvCh' = Tail(recvCh)
  BY DEF ClientReceive, TypeOK
<1>2. /\ Head(recvCh) \in Outgoing \cup {Empty}
      /\ Range(recvCh) = {Head(recvCh)} \cup Range(Tail(recvCh))
  BY <1>1, HeadTailProperties, RangeOfHeadTail
<1>3. Len(recvCh) \in Nat \ {0} /\ DOMAIN recvCh = 1 .. Len(recvCh)
  BY <1>1, LenProperties, EmptySeq
<1>4. /\ DOMAIN Tail(recvCh) = 1 .. Len(recvCh) - 1
      /\ recvCh[1] = Head(recvCh)
      /\ \A i \in 1 .. Len(recvCh) - 1 : Tail(recvCh)[i] = recvCh[i + 1]
  BY <1>1, <1>3, HeadTailProperties, LenProperties
<1> QED  BY <1>1, <1>2, <1>3, <1>4
----------------------------------------------------------------------------
(* Empty messages. *)

(* What waits in msgs was sent on a connection that was not known to be lost. *)
Waiting == msgs # Nil => conn \in {"open", "dying"}

LEMMA StepWaiting == Waiting /\ [Next]_vars => Waiting'
<1> SUFFICES ASSUME Waiting, [Next]_vars PROVE Waiting'
  OBVIOUS
<1>0. Moves
  BY NextMoves
<1>1. CASE Quiet \/ Loses
  BY <1>1 DEF Quiet, Loses, Waiting
<1>2. ASSUME NEW m \in Outgoing, BrokerSends(m) \/ Publish(m) PROVE Waiting'
  BY <1>2 DEF BrokerSends, Publish, Waiting, subVars
<1>3. CASE Delivery \/ NoDelivery \/ SubscriberSeesStop \/ Deliver \/ Ack \/ ClientReceive
  BY <1>3 DEF Delivery, NoDelivery, SubscriberSeesStop, Deliver, Ack, ClientReceive, Waiting
<1> QED  BY <1>0, <1>1, <1>2, <1>3 DEF Moves

LEMMA InitEmpty == Init => NothingAfterEmpty
<1> SUFFICES ASSUME Init PROVE NothingAfterEmpty
  OBVIOUS
<1>1. recvCh = <<>> /\ held = Nil /\ emptyRead = FALSE /\ DOMAIN recvCh = {} /\ Range(recvCh) = {}
  BY EmptySeq DEF Init, Range
<1> QED  BY <1>1, RabbitAssumption DEF NothingAfterEmpty, Dry

(* An empty message is put on the channel only once msgs is closed, and then no
   delivery comes any more: all that follows it is empty too. *)
LEMMA StepEmpty == TypeOK /\ Waiting /\ NothingAfterEmpty /\ [Next]_vars => NothingAfterEmpty'
<1> SUFFICES ASSUME TypeOK, Waiting, NothingAfterEmpty, [Next]_vars PROVE NothingAfterEmpty'
  OBVIOUS
<1> USE RabbitAssumption
<1>0. Moves
  BY NextMoves
<1>1. CASE Quiet
  BY <1>1 DEF Quiet, NothingAfterEmpty, Dry
<1>2. CASE Loses
  BY <1>2 DEF Loses, NothingAfterEmpty, Dry
<1>3. CASE Delivery
  <2>1. ~emptyRead /\ Empty \notin Range(recvCh)
    BY <1>3 DEF Delivery, Waiting, NothingAfterEmpty, Dry
  <2>2. held' \in Outgoing /\ UNCHANGED <<conn, recvCh, received, emptyRead>>
    BY <1>3 DEF Delivery, TypeOK
  <2> QED  BY <2>1, <2>2 DEF NothingAfterEmpty, Dry
<1>4. ASSUME NEW m \in Outgoing, BrokerSends(m) \/ Publish(m) PROVE NothingAfterEmpty'
  <2>1. UNCHANGED <<conn, held, recvCh, emptyRead>>
    BY <1>4 DEF BrokerSends, Publish, subVars
  <2> QED  BY <2>1 DEF NothingAfterEmpty, Dry
<1>5. CASE NoDelivery
  BY <1>5 DEF NoDelivery, MsgsClosed, NothingAfterEmpty, Dry
<1>6. CASE Deliver
  <2>1. UNCHANGED <<conn, held, emptyRead>> /\ held # Nil
    BY <1>6 DEF Deliver, SubGoes, TypeOK
  <2>2. \A i, j \in DOMAIN recvCh' : i < j /\ recvCh'[i] = Empty => recvCh'[j] = Empty
    <3>1. SUFFICES ASSUME NEW i \in 1 .. Len(recvCh) + 1, NEW j \in 1 .. Len(recvCh) + 1,
                          i < j, recvCh'[i] = Empty
                   PROVE  recvCh'[j] = Empty
      BY <1>6, ChannelGrows
    <3>2. i \in 1 .. Len(recvCh) /\ recvCh[i] = Empty /\ Empty \in Range(recvCh)
      BY <1>6, <3>1, ChannelGrows
    <3>3. CASE j \in 1 .. Len(recvCh)
      BY <1>6, <3>1, <3>2, <3>3, ChannelGrows DEF NothingAfterEmpty
    <3>4. CASE j = Len(recvCh) + 1
      BY <1>6, <2>1, <3>2, <3>4, ChannelGrows DEF NothingAfterEmpty
    <3> QED  BY <1>6, <3>3, <3>4, ChannelGrows
  <2>3. Range(recvCh') = Range(recvCh) \cup {held} /\ held \in Outgoing \cup {Empty}
    BY <1>6, ChannelGrows
  <2> QED  BY <2>1, <2>2, <2>3 DEF NothingAfterEmpty, Dry
<1>7. CASE Ack \/ SubscriberSeesStop
  BY <1>7 DEF Ack, SubscriberSeesStop, NothingAfterEmpty, Dry
<1>8. CASE ClientReceive
  <2>1. UNCHANGED <<conn, held>> /\ emptyRead' = (emptyRead \/ Head(recvCh) = Empty)
    BY <1>8 DEF ClientReceive, TypeOK
  <2>2. Range(recvCh) = {Head(recvCh)} \cup Range(recvCh') /\ Head(recvCh) \in Outgoing \cup {Empty}
    BY <1>8, ChannelShrinks
  <2>3. \A i, j \in DOMAIN recvCh' : i < j /\ recvCh'[i] = Empty => recvCh'[j] = Empty
    <3>1. SUFFICES ASSUME NEW i \in 1 .. Len(recvCh) - 1, NEW j \in 1 .. Len(recvCh) - 1,
                          i < j, recvCh'[i] = Empty
                   PROVE  recvCh'[j] = Empty
      BY <1>8, ChannelShrinks
    <3>2. i + 1 \in DOMAIN recvCh /\ j + 1 \in DOMAIN recvCh /\ i + 1 < j + 1
      BY <1>8, <3>1, ChannelShrinks
    <3> QED  BY <1>8, <3>1, <3>2, ChannelShrinks DEF NothingAfterEmpty
  <2>4. Head(recvCh) = Empty => Range(recvCh') \subseteq {Empty}
    <3>1. SUFFICES ASSUME Head(recvCh) = Empty, NEW i \in DOMAIN recvCh' PROVE recvCh'[i] = Empty
      BY DEF Range
    <3>2. 1 \in DOMAIN recvCh /\ i + 1 \in DOMAIN recvCh /\ 1 < i + 1
      BY <1>8, <3>1, ChannelShrinks
    <3> QED  BY <1>8, <3>1, <3>2, ChannelShrinks DEF NothingAfterEmpty
  <2> QED  BY <2>1, <2>2, <2>3, <2>4 DEF NothingAfterEmpty, Dry
<1> QED  BY <1>0, <1>1, <1>2, <1>3, <1>4, <1>5, <1>6, <1>7, <1>8 DEF Moves

(* An empty message on the channel of Receive means that the connection has gone,
   and nothing but empty messages comes after the first. *)
THEOREM EmptyIsTheEnd == Spec => []NothingAfterEmpty
<1>1. Init => TypeOK /\ Waiting /\ NothingAfterEmpty
  BY InitType, InitEmpty DEF Init, Waiting
<1>2. (TypeOK /\ Waiting /\ NothingAfterEmpty) /\ [Next]_vars
      => (TypeOK /\ Waiting /\ NothingAfterEmpty)'
  BY StepType, StepWaiting, StepEmpty
<1> QED  BY <1>1, <1>2, PTL DEF Spec
----------------------------------------------------------------------------
(* Where the messages are. *)

(* A message that the broker has accepted is in the queue, delivered and not
   acknowledged, or passed on, and so are that which the subscriber holds and that
   which waits for it. *)
Kept ==
  /\ stored \subseteq Range(handed)
  /\ stored = queue \cup ({unacked} \ {Nil}) \cup Passed
  /\ held \in stored \cup {Empty, Nil}
  /\ msgs \in stored \cup {Nil}

(* Until the connection is lost the broker waits for the acknowledgement of what the
   subscriber holds or is about to take, and its queue has none of the messages
   passed on. *)
Awaited ==
  /\ unacked # Nil => unacked \in {held, msgs} /\ conn = "open" /\ unacked \notin queue
  /\ conn \in {"nil", "open"} =>
       /\ queue \cap Passed = {}
       /\ held # Nil => unacked = held
       /\ msgs # Nil => unacked = msgs

(* What the subscriber is about to put on the channel has not been there. *)
OnTheWay ==
  /\ sub = "deliver" => held \notin Passed
  /\ sub = "ack" => held \in Passed \cup {Empty}
  /\ msgs # Nil => sub = "select" /\ msgs \notin Passed

(* The message repeated is one the subscriber had put on the channel when the
   connection was lost: there is none while it is about to put one there. *)
Again ==
  /\ (sub = "deliver" /\ held # Empty) \/ msgs # Nil => queue \cap Passed = {}
  /\ \E m \in Outgoing \cup {Nil} : queue \cap Passed \subseteq {m}

NoTwice ==
  /\ IsInjective(received) /\ Range(received) \cap Range(recvCh) = {}
  /\ \A i, j \in DOMAIN recvCh : i # j /\ recvCh[i] = recvCh[j] => recvCh[i] = Empty

PInv == Kept /\ Awaited /\ OnTheWay /\ Again

LEMMA PassedSame == UNCHANGED <<received, recvCh>> => Passed' = Passed
BY DEF Passed

LEMMA PassedType == TypeOK => Passed \subseteq Outgoing
<1> SUFFICES ASSUME TypeOK PROVE Passed \subseteq Outgoing
  OBVIOUS
<1>1. Range(received) \subseteq Outgoing /\ Range(recvCh) \subseteq Outgoing \cup {Empty}
  BY RangeOfSeq DEF TypeOK
<1> QED  BY <1>1 DEF Passed

LEMMA PassedGrows ==
  ASSUME TypeOK, Deliver
  PROVE  Passed' = Passed \cup ({held} \ {Empty}) /\ UNCHANGED received
<1>1. Range(recvCh') = Range(recvCh) \cup {held} /\ UNCHANGED received
  BY ChannelGrows DEF Deliver
<1> QED  BY <1>1 DEF Passed

LEMMA PassedRead == TypeOK /\ ClientReceive => Passed' = Passed
<1> SUFFICES ASSUME TypeOK, ClientReceive PROVE Passed' = Passed
  OBVIOUS
<1>1. Range(recvCh) = {Head(recvCh)} \cup Range(recvCh') /\ Head(recvCh) \in Outgoing \cup {Empty}
  BY ChannelShrinks
<1>2. CASE Head(recvCh) = Empty
  BY <1>1, <1>2 DEF ClientReceive, Passed
<1>3. CASE Head(recvCh) # Empty
  <2>1. received' = Append(received, Head(recvCh)) /\ Head(recvCh) \in Outgoing
    BY <1>1, <1>3 DEF ClientReceive
  <2>2. Range(received') = Range(received) \cup {Head(recvCh)}
    BY <2>1, RangeOfAppend DEF TypeOK
  <2> QED  BY <1>1, <1>3, <2>2 DEF Passed
<1> QED  BY <1>2, <1>3

LEMMA InitPlaces == Init => PInv /\ NoTwice
<1> SUFFICES ASSUME Init PROVE PInv /\ NoTwice
  OBVIOUS
<1>1. /\ recvCh = <<>> /\ received = <<>> /\ DOMAIN recvCh = {} /\ DOMAIN received = {}
      /\ Range(recvCh) = {} /\ Range(received) = {}
  BY EmptySeq DEF Init, Range
<1>2. /\ Passed = {} /\ queue = {} /\ unacked = Nil /\ stored = {}
      /\ held = Nil /\ msgs = Nil /\ sub = "none"
  BY <1>1 DEF Init, Passed
<1> QED  BY <1>1, <1>2 DEF PInv, Kept, Awaited, OnTheWay, Again, NoTwice, IsInjective

LEMMA StepPlaces == TypeOK /\ Waiting /\ PInv /\ [Next]_vars => PInv'
<1> SUFFICES ASSUME TypeOK, Waiting, PInv, [Next]_vars PROVE PInv'
  OBVIOUS
<1> USE RabbitAssumption
<1>0. Moves /\ Passed \subseteq Outgoing
  BY NextMoves, PassedType
<1>1. CASE Quiet
  <2>1. /\ UNCHANGED <<queue, unacked, stored, handed, held>> /\ Passed' = Passed
        /\ conn' \in {"nil", "open"} => conn \in {"nil", "open"} /\ msgs' = msgs
        /\ conn = "open" => conn' = "open" /\ msgs' = msgs
        /\ msgs' \in {msgs, Nil}
        /\ sub' \in {"deliver", "ack"} => sub' = sub
        /\ sub = "select" => sub' = "select"
    BY <1>1, PassedSame DEF Quiet
  <2> QED  BY <2>1 DEF PInv, Kept, Awaited, OnTheWay, Again
<1>2. CASE Loses
  <2>1. /\ queue' = queue \cup ({unacked} \ {Nil}) /\ unacked' = Nil
        /\ UNCHANGED <<stored, handed, sub, held>> /\ Passed' = Passed
        /\ conn' \notin {"nil", "open"} /\ msgs' \in {msgs, Nil}
    BY <1>2, PassedSame DEF Loses, Requeue
  <2>2. Kept' /\ Awaited' /\ OnTheWay'
    BY <2>1 DEF PInv, Kept, Awaited, OnTheWay
  <2>3. CASE unacked = Nil
    BY <2>1, <2>2, <2>3 DEF PInv, Again
  <2>4. CASE unacked # Nil
    <3>1. queue \cap Passed = {} /\ unacked \in {held, msgs} /\ unacked \in Outgoing
      BY <2>4 DEF PInv, Awaited, TypeOK
    <3>2. (queue \cap Passed)' \subseteq {unacked}
      BY <2>1, <3>1
    <3>3. sub = "deliver" \/ msgs # Nil => (queue \cap Passed)' = {}
      BY <2>1, <2>4, <3>1 DEF PInv, OnTheWay, TypeOK
    <3> QED  BY <2>1, <2>2, <3>1, <3>2, <3>3 DEF PInv, Again
  <2> QED  BY <2>3, <2>4
<1>3. ASSUME NEW m \in Outgoing, BrokerSends(m) PROVE PInv'
  <2>1. /\ conn = "open" /\ conn' = conn /\ sub \notin {"none", "exited"} /\ sub' = sub
        /\ m \in queue /\ unacked = Nil
        /\ queue' = queue \ {m} /\ unacked' = m /\ msgs' = m
        /\ UNCHANGED <<stored, handed, held>> /\ Passed' = Passed
    BY <1>3, PassedSame DEF BrokerSends
  <2>2. queue \cap Passed = {} /\ held = Nil /\ sub = "select"
    BY <2>1 DEF PInv, Awaited, TypeOK
  <2> QED  BY <2>1, <2>2 DEF PInv, Kept, Awaited, OnTheWay, Again
<1>4. ASSUME NEW m \in Outgoing, Publish(m) PROVE PInv'
  <2>1. /\ m \notin Range(handed) /\ handed' = Append(handed, m)
        /\ UNCHANGED <<conn, unacked, msgs, sub, held>> /\ Passed' = Passed
    BY <1>4, PassedSame DEF Publish, subVars
  <2>2. Range(handed') = Range(handed) \cup {m}
    BY <2>1, RangeOfAppend DEF TypeOK
  <2>3. CASE conn = "open" /\ queue' = queue \cup {m} /\ stored' = stored \cup {m}
    <3>1. m \notin stored /\ m # unacked /\ m \notin Passed
      BY <2>1 DEF PInv, Kept
    <3> QED  BY <2>1, <2>2, <2>3, <3>1 DEF PInv, Kept, Awaited, OnTheWay, Again
  <2>4. CASE UNCHANGED <<queue, stored>>
    BY <2>1, <2>2, <2>4 DEF PInv, Kept, Awaited, OnTheWay, Again
  <2> QED  BY <1>4, <2>3, <2>4 DEF Publish
<1>5. CASE NoDelivery
  <2>1. /\ conn \in {"dead", "closed"} /\ sub = "select" /\ sub' = "deliver" /\ held' = Empty
        /\ UNCHANGED <<conn, queue, unacked, stored, handed, msgs>> /\ Passed' = Passed
        /\ msgs = Nil
    BY <1>5, PassedSame DEF NoDelivery, MsgsClosed, SubGoes, brokerVars, Waiting
  <2> QED  BY <1>0, <2>1 DEF PInv, Kept, Awaited, OnTheWay, Again
<1>6. CASE Deliver
  <2>1. /\ sub = "deliver" /\ sub' = "ack" /\ held \in Outgoing \cup {Empty}
        /\ UNCHANGED <<conn, queue, unacked, stored, handed, msgs, held>> /\ msgs = Nil
        /\ Passed' = Passed \cup ({held} \ {Empty})
    BY <1>6, ChannelGrows, PassedGrows
       DEF Deliver, SubGoes, AfterDelivery, brokerVars, PInv, OnTheWay
  <2>2. Kept' /\ OnTheWay'
    BY <2>1 DEF PInv, Kept, OnTheWay
  <2>3. Awaited'
    BY <2>1 DEF PInv, Awaited
  <2>4. Again'
    <3>1. CASE held = Empty
      BY <2>1, <3>1 DEF PInv, Again
    <3>2. CASE held # Empty
      <4>1. (queue \cap Passed)' \subseteq {held} /\ held \in Outgoing
        BY <2>1, <3>2 DEF PInv, Again
      <4> QED  BY <2>1, <4>1 DEF Again
    <3> QED  BY <3>1, <3>2
  <2> QED  BY <2>2, <2>3, <2>4 DEF PInv
<1>7. CASE Ack
  <2>1. /\ sub = "ack" /\ sub' = "select" /\ held # Nil /\ held' = Nil
        /\ unacked' = IF conn = "open" THEN Nil ELSE unacked
        /\ UNCHANGED <<conn, queue, stored, handed, msgs>> /\ Passed' = Passed /\ msgs = Nil
    BY <1>7, PassedSame DEF Ack, SubGoes, QueueAfterAck, TypeOK, PInv, OnTheWay
  <2>2. unacked' = Nil /\ (unacked = Nil \/ unacked \in Passed)
    BY <2>1 DEF PInv, Awaited, OnTheWay, TypeOK
  <2> QED  BY <2>1, <2>2 DEF PInv, Kept, Awaited, OnTheWay, Again
<1>8. CASE ClientReceive
  <2>1. UNCHANGED <<conn, queue, unacked, stored, handed, msgs, sub, held>> /\ Passed' = Passed
    BY <1>8, PassedRead DEF ClientReceive, brokerVars
  <2> QED  BY <2>1 DEF PInv, Kept, Awaited, OnTheWay, Again
<1>9. CASE Delivery
  <2>1. /\ sub = "select" /\ sub' = "deliver" /\ msgs # Nil /\ held' = msgs /\ msgs' = Nil
        /\ UNCHANGED <<conn, queue, unacked, stored, handed>> /\ Passed' = Passed
        /\ held = Nil
    BY <1>9, PassedSame DEF Delivery, SubGoes, TypeOK, brokerVars
  <2> QED  BY <2>1 DEF PInv, Kept, Awaited, OnTheWay, Again
<1>10. CASE SubscriberSeesStop
  <2>1. /\ sub = "select" /\ sub' = "exited" /\ held = Nil /\ held' = Nil /\ msgs' = Nil
        /\ queue' = queue \cup ({unacked} \ {Nil}) /\ unacked' = Nil
        /\ UNCHANGED <<conn, stored, handed>> /\ Passed' = Passed
    BY <1>10, PassedSame DEF SubscriberSeesStop, SubGoes, Requeue, TypeOK
  <2>2. unacked # Nil => unacked \notin Passed
    BY <2>1 DEF PInv, Awaited, OnTheWay
  <2>3. queue' \cap Passed = queue \cap Passed
    BY <2>1, <2>2
  <2> QED  BY <2>1, <2>3 DEF PInv, Kept, Awaited, OnTheWay, Again
<1> QED
  BY <1>0, <1>1, <1>2, <1>3, <1>4, <1>5, <1>6, <1>7, <1>8, <1>9, <1>10 DEF Moves

LEMMA StepTwice == TypeOK /\ PInv /\ NoTwice /\ [Next]_vars => NoTwice'
<1> SUFFICES ASSUME TypeOK, PInv, NoTwice, [Next]_vars PROVE NoTwice'
  OBVIOUS
<1> USE RabbitAssumption
<1>1. CASE UNCHANGED <<received, recvCh>>
  BY <1>1 DEF NoTwice
<1>2. CASE Deliver
  <2>1. held \notin Passed /\ UNCHANGED received
    BY <1>2 DEF Deliver, SubGoes, PInv, OnTheWay
  <2>2. ASSUME NEW i \in DOMAIN recvCh', NEW j \in DOMAIN recvCh', i # j, recvCh'[i] = recvCh'[j]
        PROVE  recvCh'[i] = Empty
    <3>1. CASE i \in 1 .. Len(recvCh) /\ j \in 1 .. Len(recvCh)
      BY <1>2, <2>2, <3>1, ChannelGrows DEF NoTwice
    <3>2. CASE i = Len(recvCh) + 1 /\ j \in 1 .. Len(recvCh)
      BY <1>2, <2>1, <2>2, <3>2, ChannelGrows DEF Passed
    <3>3. CASE i \in 1 .. Len(recvCh) /\ j = Len(recvCh) + 1
      BY <1>2, <2>1, <2>2, <3>3, ChannelGrows DEF Passed
    <3> QED  BY <1>2, <2>2, <3>1, <3>2, <3>3, ChannelGrows
  <2>3. Range(recvCh') = Range(recvCh) \cup {held} /\ Range(received') = Range(received)
    BY <1>2, <2>1, ChannelGrows
  <2>4. IsInjective(received') /\ Range(received') \cap Range(recvCh') = {}
    BY <2>1, <2>3 DEF NoTwice, Passed
  <2> QED  BY <2>2, <2>4 DEF NoTwice
<1>3. CASE ClientReceive
  <2>1. ASSUME NEW i \in DOMAIN recvCh', NEW j \in DOMAIN recvCh', i # j, recvCh'[i] = recvCh'[j]
        PROVE  recvCh'[i] = Empty
    <3>1. /\ i + 1 \in DOMAIN recvCh /\ j + 1 \in DOMAIN recvCh /\ i + 1 # j + 1
          /\ recvCh'[i] = recvCh[i + 1] /\ recvCh'[j] = recvCh[j + 1]
      BY <1>3, <2>1, ChannelShrinks
    <3> QED  BY <2>1, <3>1 DEF NoTwice
  <2>2. Range(recvCh) = {Head(recvCh)} \cup Range(recvCh') /\ Head(recvCh) \in Outgoing \cup {Empty}
    BY <1>3, ChannelShrinks
  <2>3. CASE Head(recvCh) = Empty
    BY <1>3, <2>1, <2>2, <2>3 DEF ClientReceive, NoTwice
  <2>4. CASE Head(recvCh) # Empty
    <3>1. /\ Head(recvCh) \in Outgoing /\ received \in Seq(Outgoing)
          /\ Head(recvCh) \notin Range(received)
      BY <2>2, <2>4 DEF NoTwice, TypeOK
    <3>2. received' = Append(received, Head(recvCh))
      BY <1>3, <2>4 DEF ClientReceive
    <3>3. Range(received') = Range(received) \cup {Head(recvCh)} /\ IsInjective(received')
      BY <3>1, <3>2, RangeOfAppend, InjectiveAppend DEF NoTwice
    <3>4. Head(recvCh) \notin Range(recvCh')
      <4>1. SUFFICES ASSUME NEW i \in DOMAIN recvCh', recvCh'[i] = Head(recvCh) PROVE FALSE
        BY DEF Range
      <4>2. 1 \in DOMAIN recvCh /\ i + 1 \in DOMAIN recvCh /\ 1 # i + 1 /\ recvCh[1] = recvCh[i + 1]
        BY <1>3, <4>1, ChannelShrinks
      <4> QED  BY <1>3, <2>4, <4>2, ChannelShrinks DEF NoTwice
    <3> QED  BY <2>1, <2>2, <3>3, <3>4 DEF NoTwice
  <2> QED  BY <2>3, <2>4
<1> QED
  <2>1. UNCHANGED <<received, recvCh>> \/ Deliver \/ ClientReceive
    BY NextMoves DEF Moves, Quiet, Loses, BrokerSends, Delivery, Publish, NoDelivery, Ack,
                     SubscriberSeesStop, subVars
  <2> QED  BY <1>1, <1>2, <1>3, <2>1
----------------------------------------------------------------------------
LEMMA PlacesKnown == Spec => [](TypeOK /\ Waiting /\ PInv /\ NoTwice)
<1>1. Init => TypeOK /\ Waiting /\ PInv /\ NoTwice
  BY InitType, InitPlaces DEF Init, Waiting
<1>2. (TypeOK /\ Waiting /\ PInv /\ NoTwice) /\ [Next]_vars
      => (TypeOK /\ Waiting /\ PInv /\ NoTwice)'
  BY StepType, StepWaiting, StepPlaces, StepTwice
<1> QED  BY <1>1, <1>2, PTL DEF Spec

(* Whenever the connection is lost, a message the broker has accepted is in its queue,
   awaits its acknowledgement, or has been put on the channel of Receive. *)
THEOREM KeepsAll == Spec => []NothingVanishes
<1>1. PInv => NothingVanishes
  BY DEF PInv, Kept, NothingVanishes
<1> QED  BY <1>1, PlacesKnown, PTL

(* The queue has at most one of the messages put on the channel, that for which
   the connection was lost before its acknowledgement, and none is put there twice. *)
THEOREM RepeatsOne == Spec => []RepeatedOnce
<1>1. TypeOK /\ PInv /\ NoTwice => RepeatedOnce
  <2> SUFFICES ASSUME TypeOK, PInv, NoTwice PROVE RepeatedOnce
    OBVIOUS
  <2>1. conn = "open" => queue \cap Passed = {}
    BY DEF PInv, Awaited
  <2>2. PICK m \in Outgoing \cup {Nil} : queue \cap Passed \subseteq {m}
    BY DEF PInv, Again
  <2>3. Cardinality(queue \cap Passed) <= 1
    <3>1. CASE queue \cap Passed = {}
      BY <3>1, FS_EmptySet
    <3>2. CASE queue \cap Passed = {m}
      BY <3>2, FS_Singleton
    <3> QED  BY <2>2, <3>1, <3>2
  <2> QED  BY <2>1, <2>3 DEF NoTwice, RepeatedOnce
<1> QED  BY <1>1, PlacesKnown, PTL
=============================================================================
