------------------------- MODULE NatsTransportProofs -------------------------
(* Safety of the NATS transport, for any names, messages, capacities and number
   of lost connections. *)
EXTENDS NatsTransport, ChannelLemmas, SequenceTheorems, TLAPS

(* Without a lost connection there is one wherever somebody uses it. *)
LinkKept == drops = 0 => link \in {"none", "up"}

(* What the publisher of n has done, and what Stop promised for it. *)
Published(n) ==
  /\ tried[n] \o sendCh[n] = accepted[n]
  /\ pub[n] = "none" => accepted[n] = <<>>
  /\ pub[n] \in {"select", "report"} => link # "none"
  /\ pub[n] = "exited" => stop \in {"closing", "done"}
  /\ promised[n] <= Len(accepted[n])
  /\ drops = 0 /\ (pub[n] = "exited" \/ stop = "done") => promised[n] <= Len(tried[n])

Publishing == LinkKept /\ \A n \in Names : Published(n)

(* What is with the callback, and all that arrived before it and after it. *)
AtCallback == IF handling = Nil THEN <<>> ELSE <<handling>>

Flow ==
  /\ sub # "off" => OnTheWay = arrived
  /\ sub # "on" => pending = <<>>
  /\ IsPrefix(OnTheWay, arrived)

IInv == TypeOK /\ Publishing /\ Flow

LEMMA PartsInSeq ==
  ASSUME TypeOK
  PROVE  /\ AtCallback \in Seq(Outgoing)
         /\ received \o recvCh \in Seq(Outgoing)
         /\ (received \o recvCh) \o AtCallback \in Seq(Outgoing)
         /\ OnTheWay = ((received \o recvCh) \o AtCallback) \o pending
         /\ OnTheWay \in Seq(Outgoing)
<1>1. AtCallback \in Seq(Outgoing)
  BY DEF AtCallback, TypeOK
<1>2. received \o recvCh \in Seq(Outgoing)
  BY ConcatProperties DEF TypeOK
<1>3. (received \o recvCh) \o AtCallback \in Seq(Outgoing)
  BY <1>1, <1>2, ConcatProperties
<1>4. ((received \o recvCh) \o AtCallback) \o pending \in Seq(Outgoing)
  BY <1>3, ConcatProperties DEF TypeOK
<1> QED  BY <1>1, <1>2, <1>3, <1>4 DEF OnTheWay, AtCallback

(* A sequence is a prefix of what it is followed up to. *)
LEMMA IsPrefixOfConcat ==
  ASSUME NEW S, NEW s \in Seq(S), NEW t \in Seq(S)
  PROVE  IsPrefix(s, s \o t)
<1>1. Len(s) \in Nat /\ Len(t) \in Nat /\ Len(s \o t) = Len(s) + Len(t)
  BY LenProperties, ConcatProperties
<1>2. SubSeq(s \o t, 1, Len(s)) = s
  BY PrefixOfConcat
<1>3. SubSeq(s, 1, Len(s)) = s
  <2>1. <<>> \in Seq(S)
    BY EmptySeq
  <2>2. SubSeq(s \o <<>>, 1, Len(s)) = s
    BY <2>1, PrefixOfConcat
  <2> QED  BY <2>2, ConcatEmptySeq
<1> QED  BY <1>1, <1>2, <1>3 DEF IsPrefix

LEMMA InitInv == Init => IInv
<1> SUFFICES ASSUME Init PROVE IInv
  OBVIOUS
<1> USE NatsAssumption
<1>1. TypeOK
  BY EmptySeq DEF Init, TypeOK, Options
<1>2. <<>> \o <<>> = <<>> /\ Len(<<>>) = 0
  BY EmptySeq, ConcatEmptySeq
<1>3. Publishing
  BY <1>2 DEF Init, Publishing, LinkKept, Published, Options
<1>4. OnTheWay = <<>>
  BY <1>2 DEF Init, OnTheWay
<1>5. IsPrefix(<<>>, <<>>)
  BY <1>2 DEF IsPrefix
<1> QED  BY <1>1, <1>3, <1>4, <1>5 DEF IInv, Flow, Init

(* Steps that leave the publishers and the connection alone. *)
LEMMA PublishingSame ==
  ASSUME Publishing, UNCHANGED <<sendVars, link, drops, stop>>
  PROVE  Publishing'
BY DEF Publishing, LinkKept, Published, sendVars

(* Steps that leave the subscription alone. *)
LEMMA FlowSame ==
  ASSUME Flow, UNCHANGED <<sub, pending, handling, recvCh, received, arrived>>
  PROVE  Flow'
BY DEF Flow, OnTheWay

(* Steps by which a message moves on towards the client. *)
LEMMA FlowMoves ==
  ASSUME Flow, UNCHANGED <<sub, arrived>>, OnTheWay' = OnTheWay,
         pending = <<>> => pending' = <<>>
  PROVE  Flow'
BY DEF Flow

(* Steps by which messages arrive, for a subscription that there is. *)
LEMMA FlowArrives ==
  ASSUME Flow, TypeOK, UNCHANGED <<sub, handling, recvCh, received>>,
         NEW new \in Seq(Outgoing), sub # "on" => new = <<>>,
         pending' = pending \o new, arrived' = arrived \o new
  PROVE  Flow'
<1>1. OnTheWay' = ((received \o recvCh) \o AtCallback) \o (pending \o new)
  BY DEF OnTheWay, AtCallback
<1>2. OnTheWay' = OnTheWay \o new
  <2> DEFINE A == (received \o recvCh) \o AtCallback
  <2>1. A \in Seq(Outgoing) /\ pending \in Seq(Outgoing) /\ OnTheWay = A \o pending
    BY PartsInSeq DEF TypeOK
  <2>2. OnTheWay' = A \o (pending \o new)
    BY <1>1
  <2> HIDE DEF A
  <2> QED  BY <2>1, <2>2, ConcatAssociative, SMTT(30)
<1>3. CASE sub = "on"
  <2>1. OnTheWay' = arrived' /\ arrived' \in Seq(Outgoing)
    BY <1>2, <1>3, ConcatProperties DEF Flow, TypeOK
  <2>2. IsPrefix(arrived', arrived')
    <3>1. <<>> \in Seq(Outgoing) /\ arrived' \o <<>> = arrived'
      BY <2>1, EmptySeq, ConcatEmptySeq
    <3> QED  BY <2>1, <3>1, IsPrefixOfConcat
  <2> QED  BY <1>3, <2>1, <2>2 DEF Flow
<1>4. CASE sub # "on"
  <2>1. pending \o new = pending /\ arrived \o new = arrived
    BY <1>4, ConcatEmptySeq DEF TypeOK
  <2> QED  BY <2>1, FlowSame
<1> QED  BY <1>3, <1>4

(* Steps that end the subscription, if there is one: what waited is gone. *)
LEMMA FlowEnds ==
  ASSUME Flow, TypeOK, UNCHANGED <<handling, recvCh, received, arrived>>,
         sub' = IF sub = "on" THEN "off" ELSE sub, pending' = <<>>
  PROVE  Flow'
<1> DEFINE A == (received \o recvCh) \o AtCallback
<1>1. A \in Seq(Outgoing) /\ OnTheWay = A \o pending
  BY PartsInSeq
<1>2. OnTheWay' = A
  <2>1. OnTheWay' = A \o <<>>
    BY DEF OnTheWay, AtCallback
  <2> QED  BY <1>1, <2>1, ConcatEmptySeq
<1>3. CASE sub = "on"
  <2>1. arrived = A \o pending
    BY <1>1, <1>3 DEF Flow
  <2>2. IsPrefix(A, arrived)
    BY <1>1, <2>1, IsPrefixOfConcat DEF TypeOK
  <2> QED  BY <1>2, <1>3, <2>2 DEF Flow
<1>4. CASE sub # "on"
  <2>1. pending = <<>>
    BY <1>4 DEF Flow, TypeOK
  <2> QED  BY <1>4, <2>1, FlowSame
<1> QED  BY <1>3, <1>4

----------------------------------------------------------------------------
(* Connecting leaves a connection as it is, and the types too. *)
LEMMA ConnectionType ==
  ASSUME TypeOK, Connects \/ ConnectFails
  PROVE  /\ link' \in {"none", "up", "down", "closed"} /\ stan' \in {"none", "open", "closed"}
         /\ drops' = drops
         /\ link # "none" => link' = link
         /\ link = "none" => link' \in {"none", "up"}
         /\ Connects => link' # "none"
BY DEF TypeOK, Connects, ConnectFails

(* Receive and Send, up to the start of their goroutines. *)
LEMMA StepOpens ==
  ASSUME IInv,
         \/ Receive \/ ReceiveReports \/ SendReports \/ DrainErr \/ CallStop
         \/ \E n \in Names : SendOpens(n) \/ SendFails(n)
  PROVE  IInv'
<1> USE NatsAssumption DEF IInv
<1>1. CASE ReceiveLooksUp
  <2>1. TypeOK'
    BY <1>1 DEF ReceiveLooksUp, TypeOK, connVars, sendVars, subVars
  <2> QED  BY <1>1, <2>1, PublishingSame, FlowSame DEF ReceiveLooksUp, connVars, subVars
<1>2. CASE ReceiveOpens
  <2>1. TypeOK'
    BY <1>2, ConnectionType DEF ReceiveOpens, TypeOK, sendVars
  <2>2. Publishing'
    BY <1>2, ConnectionType DEF ReceiveOpens, Publishing, LinkKept, Published, sendVars
  <2>3. Flow'
    BY <1>2 DEF ReceiveOpens, Flow, OnTheWay
  <2> QED  BY <2>1, <2>2, <2>3
<1>3. CASE ReceiveFails
  <2>1. TypeOK'
    BY <1>3, ConnectionType DEF ReceiveFails, TypeOK, sendVars, subVars
  <2>2. Publishing'
    BY <1>3, ConnectionType DEF ReceiveFails, Publishing, LinkKept, Published, sendVars
  <2> QED  BY <1>3, <2>1, <2>2, FlowSame DEF ReceiveFails, subVars
<1>4. CASE ReceiveReports \/ SendReports
  <2>1. TypeOK'
    <3>1. errs' \in 0 .. ErrCap
      BY <1>4, SMTT(30) DEF ReceiveReports, SendReports, PutError, TypeOK
    <3>2. lock \in {"receive", "send"} /\ lock' = "free" /\ loop' \in {"call", "select"}
      BY <1>4 DEF ReceiveReports, SendReports, Unlock, TypeOK
    <3>3. UNCHANGED <<mode, stop, connVars, sendVars, subVars>>
      BY <1>4 DEF ReceiveReports, SendReports
    <3> QED  BY <3>1, <3>2, <3>3 DEF TypeOK, connVars, sendVars, subVars
  <2> QED  BY <1>4, <2>1, PublishingSame, FlowSame
     DEF ReceiveReports, SendReports, connVars, subVars
<1>5. CASE DrainErr
  <2>1. TypeOK'
    BY <1>5 DEF DrainErr, TypeOK, connVars, sendVars, subVars
  <2> QED  BY <1>5, <2>1, PublishingSame, FlowSame DEF DrainErr, connVars, subVars
<1>6. CASE CallStop
  <2>1. TypeOK'
    BY <1>6 DEF CallStop, TypeOK, connVars, sendVars, subVars
  <2>2. Publishing'
    BY <1>6 DEF CallStop, Publishing, LinkKept, Published, connVars, sendVars
  <2> QED  BY <1>6, <2>1, <2>2, FlowSame DEF CallStop, subVars
<1>7. ASSUME NEW n \in Names, SendOpens(n) PROVE IInv'
  <2>1. TypeOK'
    BY <1>7, ConnectionType DEF SendOpens, TypeOK, subVars
  <2>2. Publishing'
    <3>1. pub'[n] = "select" /\ \A k \in Names : k # n => pub'[k] = pub[k]
      BY <1>7 DEF SendOpens, TypeOK
    <3>2. LinkKept'
      BY <1>7, ConnectionType DEF SendOpens, Publishing, LinkKept
    <3>3. Published(n)'
      <4>1. promised[n] <= Len(tried[n])
        <5>1. accepted[n] = <<>> /\ Len(accepted[n]) = 0
          BY <1>7, EmptySeq DEF SendOpens, Publishing, Published
        <5>2. promised[n] = 0
          BY <5>1, SMTT(30) DEF Publishing, Published, TypeOK
        <5> QED  BY <5>2, LenProperties DEF TypeOK
      <4> QED  BY <1>7, <3>1, <4>1, ConnectionType DEF SendOpens, Publishing, Published
    <3>4. \A k \in Names : k # n => Published(k)'
      BY <1>7, <3>1, ConnectionType DEF SendOpens, Publishing, Published
    <3> QED  BY <3>2, <3>3, <3>4 DEF Publishing
  <2> QED  BY <1>7, <2>1, <2>2, FlowSame DEF SendOpens, subVars
<1>8. ASSUME NEW n \in Names, SendFails(n) PROVE IInv'
  <2>1. TypeOK'
    BY <1>8, ConnectionType DEF SendFails, TypeOK, sendVars, subVars
  <2>2. Publishing'
    BY <1>8, ConnectionType DEF SendFails, Publishing, LinkKept, Published, sendVars
  <2> QED  BY <1>8, <2>1, <2>2, FlowSame DEF SendFails, subVars
<1> QED  BY <1>1, <1>2, <1>3, <1>4, <1>5, <1>6, <1>7, <1>8 DEF Receive

(* The subscription's callback and its client. *)
LEMMA StepReceives ==
  ASSUME IInv, Callback \/ Redeliver \/ ClientReceive
  PROVE  IInv'
<1> USE NatsAssumption DEF IInv
<1>1. CASE CallbackStarts
  <2>1. /\ Head(pending) \in Outgoing /\ Tail(pending) \in Seq(Outgoing)
        /\ handling' = Head(pending) /\ pending' = Tail(pending)
    BY <1>1, HeadTailProperties DEF CallbackStarts, TypeOK
  <2>2. TypeOK'
    BY <1>1, <2>1, SMTT(30) DEF CallbackStarts, TypeOK, connVars, sendVars
  <2>3. OnTheWay' = OnTheWay
    <3> DEFINE A == received \o recvCh
    <3>1. A \in Seq(Outgoing) /\ A \o <<>> = A /\ OnTheWay = (A \o <<>>) \o pending
      BY <1>1, PartsInSeq, ConcatEmptySeq DEF CallbackStarts, OnTheWay
    <3>2. OnTheWay' = (A \o <<Head(pending)>>) \o Tail(pending)
      BY <1>1, <2>1 DEF CallbackStarts, OnTheWay
    <3> HIDE DEF A
    <3>3. Append(A, Head(pending)) = A \o <<Head(pending)>>
      BY <2>1, <3>1, AppendIsConcat
    <3>4. Append(A, Head(pending)) \o Tail(pending) = A \o pending
      <4>1. pending \in Seq(Outgoing) /\ pending # <<>>
        BY <1>1 DEF CallbackStarts, TypeOK
      <4> QED  BY <3>1, <4>1, MoveHead
    <3> QED  BY <3>1, <3>2, <3>3, <3>4
  <2> QED  BY <1>1, <2>2, <2>3, FlowMoves, PublishingSame DEF CallbackStarts, connVars
<1>2. CASE CallbackDelivers
  <2>1. handling \in Outgoing /\ handling' = Nil /\ recvCh' = Append(recvCh, handling)
    BY <1>2 DEF CallbackDelivers, Delivering, TypeOK
  <2>2. recvCh' \in Seq(Outgoing)
    BY <2>1, AppendProperties DEF TypeOK
  <2>3. TypeOK'
    BY <1>2, <2>1, <2>2 DEF CallbackDelivers, TypeOK, connVars, sendVars
  <2>4. OnTheWay' = OnTheWay
    <3> DEFINE A == received \o recvCh
    <3>1. A \in Seq(Outgoing) /\ OnTheWay = (A \o <<handling>>) \o pending
      BY <1>2, PartsInSeq DEF CallbackDelivers, OnTheWay
    <3>2. OnTheWay' = ((received \o Append(recvCh, handling)) \o <<>>) \o pending
      BY <1>2, <2>1 DEF CallbackDelivers, OnTheWay
    <3>3. received \o Append(recvCh, handling) = Append(A, handling)
      <4>1. received \in Seq(Outgoing) /\ recvCh \in Seq(Outgoing)
        BY DEF TypeOK
      <4> QED  BY <2>1, <4>1, AppendToLast
    <3> HIDE DEF A
    <3>4. Append(A, handling) = A \o <<handling>> /\ Append(A, handling) \in Seq(Outgoing)
      BY <2>1, <3>1, AppendIsConcat, AppendProperties
    <3> QED  BY <3>1, <3>2, <3>3, <3>4, ConcatEmptySeq
  <2> QED  BY <1>2, <2>3, <2>4, FlowMoves, PublishingSame DEF CallbackDelivers, connVars
<1>3. CASE Redeliver
  <2>1. /\ handling \in Outgoing /\ <<handling>> \in Seq(Outgoing)
        /\ pending' = pending \o <<handling>> /\ arrived' = arrived \o <<handling>>
    BY <1>3, AppendIsConcat, SMTT(30) DEF Redeliver, TypeOK
  <2>2. pending' \in Seq(Outgoing) /\ arrived' \in Seq(Outgoing)
    BY <2>1, ConcatProperties DEF TypeOK
  <2>3. TypeOK'
    BY <1>3, <2>1, <2>2 DEF Redeliver, TypeOK, connVars, sendVars
  <2>4. Flow'
    BY <1>3, <2>1, FlowArrives DEF Redeliver
  <2> QED  BY <1>3, <2>3, <2>4, PublishingSame DEF Redeliver, connVars
<1>4. CASE ClientReceive
  <2>1. /\ Head(recvCh) \in Outgoing /\ Tail(recvCh) \in Seq(Outgoing)
        /\ Append(received, Head(recvCh)) \in Seq(Outgoing)
    BY <1>4, HeadTailProperties, AppendProperties DEF ClientReceive, TypeOK
  <2>2. TypeOK'
    BY <1>4, <2>1, SMTT(30) DEF ClientReceive, TypeOK, connVars, sendVars
  <2>3. received' \o recvCh' = received \o recvCh
    <3>1. received \in Seq(Outgoing) /\ recvCh \in Seq(Outgoing) /\ recvCh # <<>>
      BY <1>4 DEF ClientReceive, TypeOK
    <3>2. Append(received, Head(recvCh)) \o Tail(recvCh) = received \o recvCh
      BY <3>1, MoveHead
    <3> QED  BY <1>4, <3>2 DEF ClientReceive
  <2>4. OnTheWay' = OnTheWay
    BY <1>4, <2>3 DEF ClientReceive, OnTheWay
  <2> QED  BY <1>4, <2>2, <2>4, FlowMoves, PublishingSame DEF ClientReceive, connVars
<1> QED  BY <1>1, <1>2, <1>3, <1>4 DEF Callback

(* A message that is taken from the channel has been tried. *)
LEMMA StepTakes ==
  ASSUME IInv, NEW n \in Names, TakeMessage(n)
  PROVE  IInv'
<1> USE NatsAssumption DEF IInv
<1> DEFINE m == Head(sendCh[n])
<1>1. /\ sendCh[n] \in Seq(Outgoing) /\ sendCh[n] # <<>>
      /\ tried[n] \in Seq(Outgoing) /\ accepted[n] \in Seq(Outgoing)
  BY DEF TakeMessage, TypeOK
<1>2. m \in Outgoing /\ Tail(sendCh[n]) \in Seq(Outgoing)
  BY <1>1, HeadTailProperties
<1>3. /\ Append(tried[n], m) \in Seq(Outgoing)
      /\ Len(Append(tried[n], m)) = Len(tried[n]) + 1
      /\ Append(tried[n], m) \o Tail(sendCh[n]) = tried[n] \o sendCh[n]
  <2>1. Append(tried[n], m) \in Seq(Outgoing) /\ Len(Append(tried[n], m)) = Len(tried[n]) + 1
    BY <1>1, <1>2, AppendProperties
  <2>2. Append(tried[n], Head(sendCh[n])) \o Tail(sendCh[n]) = tried[n] \o sendCh[n]
    BY <1>1, MoveHead
  <2> QED  BY <2>1, <2>2
<1>4. /\ sendCh' = [sendCh EXCEPT ![n] = Tail(sendCh[n])]
      /\ tried' = [tried EXCEPT ![n] = Append(tried[n], m)]
      /\ pub[n] = "select" /\ pub' \in {pub, [pub EXCEPT ![n] = "report"]}
      /\ UNCHANGED <<mode, lock, stop, errs, link, stan, drops, accepted, promised, sub,
                     handling, recvCh, received, redelivered, loop>>
  BY DEF TakeMessage, Rest, PublishWorks, PublishFails, connVars
<1>5. PICK new \in Seq(Outgoing) : /\ sub # "on" => new = <<>>
                                   /\ pending' = pending \o new /\ arrived' = arrived \o new
  <2>1. \A new \in {<<>>, Reaches(n, m)} : new \in Seq(Outgoing) /\ (sub # "on" => new = <<>>)
    <3>1. <<m>> \in Seq(Outgoing) /\ <<>> \in Seq(Outgoing)
      BY <1>2, EmptySeq
    <3>2. Reaches(n, m) \in {<<>>, <<m>>} /\ (sub # "on" => Reaches(n, m) = <<>>)
      BY DEF Reaches
    <3> QED  BY <3>1, <3>2
  <2>2. \E new \in {<<>>, Reaches(n, m)} : pending' = pending \o new /\ arrived' = arrived \o new
    BY DEF TakeMessage, PublishWorks, PublishFails
  <2> QED  BY <2>1, <2>2
<1> HIDE DEF m
<1>6. TypeOK'
  <2>1. pending' \in Seq(Outgoing) /\ arrived' \in Seq(Outgoing)
    BY <1>5, ConcatProperties DEF TypeOK
  <2>2. pub' \in [Names -> {"none", "select", "report", "exited"}]
    BY <1>4 DEF TypeOK
  <2>3. sendCh' \in [Names -> Seq(Outgoing)] /\ tried' \in [Names -> Seq(Outgoing)]
    BY <1>2, <1>3, <1>4 DEF TypeOK
  <2>4. {pending, recvCh, received, arrived}' \subseteq Seq(Outgoing)
    BY <1>4, <2>1 DEF TypeOK
  <2>5. UNCHANGED <<mode, lock, stop, errs, link, stan, drops, accepted, promised, sub, handling,
                    redelivered, loop>>
    BY <1>4
  <2>6. /\ accepted' \in [Names -> Seq(Outgoing)] /\ promised' \in [Names -> Nat]
        /\ handling' \in Outgoing \cup {Nil} /\ redelivered' \subseteq Outgoing
        /\ sub' \in {"none", "on", "off"} /\ loop' \in {"call", "select"}
    BY <2>5 DEF TypeOK
  <2>7. /\ mode' \in [streaming : BOOLEAN, oneLoop : BOOLEAN]
        /\ lock' \in {"free", "receive", "send", "stop"}
        /\ stop' \in {"no", "called", "closing", "done"}
        /\ (lock' = "stop" <=> stop' = "closing")
        /\ errs' \in 0 .. ErrCap /\ drops' \in Nat
        /\ link' \in {"none", "up", "down", "closed"} /\ stan' \in {"none", "open", "closed"}
    BY <2>5 DEF TypeOK
  <2> QED  BY <2>2, <2>3, <2>4, <2>6, <2>7 DEF TypeOK
<1>7. Publishing'
  <2>1. \A k \in Names : k # n => /\ sendCh'[k] = sendCh[k] /\ tried'[k] = tried[k]
                                  /\ pub'[k] = pub[k]
    BY <1>4 DEF TypeOK
  <2>2. /\ sendCh'[n] = Tail(sendCh[n]) /\ tried'[n] = Append(tried[n], m)
        /\ pub'[n] \in {"select", "report"}
    BY <1>4 DEF TypeOK
  <2>3. Len(tried[n]) \in Nat /\ promised[n] \in Nat
    BY <1>1, LenProperties DEF TypeOK
  <2>4. Published(n)'
    <3>1. tried'[n] \o sendCh'[n] = accepted'[n]
      BY <1>3, <1>4, <2>2 DEF Publishing, Published
    <3>2. Len(tried'[n]) = Len(tried[n]) + 1
      BY <1>3, <2>2
    <3>3. /\ pub[n] = "select" /\ link # "none" /\ promised[n] <= Len(accepted[n])
          /\ (drops = 0 /\ stop = "done" => promised[n] <= Len(tried[n]))
      BY <1>4 DEF Publishing, Published
    <3>4. drops = 0 /\ stop = "done" => promised[n] <= Len(tried'[n])
      BY <2>3, <3>2, <3>3
    <3> QED  BY <1>4, <2>2, <3>1, <3>3, <3>4 DEF Published
  <2>5. \A k \in Names : k # n => Published(k)'
    BY <1>4, <2>1 DEF Publishing, Published
  <2> QED  BY <1>4, <2>4, <2>5 DEF Publishing, LinkKept
<1>8. Flow'
  BY <1>4, <1>5, FlowArrives
<1> QED  BY <1>6, <1>7, <1>8

LEMMA StepPublishes ==
  ASSUME IInv, NEW n \in Names,
         SeeStop(n) \/ ReportPublishError(n) \/ \E m \in Outgoing : ClientSend(n, m)
  PROVE  IInv'
<1> USE NatsAssumption DEF IInv
<1>1. CASE SeeStop(n)
  <2>1. TypeOK'
    BY <1>1, SMTT(30) DEF SeeStop, TypeOK, connVars, subVars
  <2>2. pub'[n] = "exited" /\ \A k \in Names : k # n => pub'[k] = pub[k]
    BY <1>1 DEF SeeStop, TypeOK
  <2>3. ASSUME drops = 0 PROVE promised[n] <= Len(tried[n])
    <3>1. sendCh[n] = <<>>
      BY <1>1, <2>3 DEF SeeStop, MayLeave, Publishing, LinkKept, Published
    <3>2. tried[n] \in Seq(Outgoing) /\ tried[n] \o sendCh[n] = accepted[n]
      BY DEF TypeOK, Publishing, Published
    <3>3. tried[n] = accepted[n]
      BY <3>1, <3>2, ConcatEmptySeq
    <3> QED  BY <3>3 DEF Publishing, Published
  <2>4. Published(n)'
    BY <1>1, <2>2, <2>3 DEF SeeStop, Publishing, Published, connVars
  <2>5. \A k \in Names : k # n => Published(k)'
    BY <1>1, <2>2 DEF SeeStop, Publishing, Published, connVars
  <2>6. Publishing'
    BY <1>1, <2>4, <2>5 DEF SeeStop, Publishing, LinkKept, connVars
  <2> QED  BY <1>1, <2>1, <2>6, FlowSame DEF SeeStop, subVars
<1>2. CASE ReportPublishError(n)
  <2>1. TypeOK'
    BY <1>2, SMTT(30) DEF ReportPublishError, PutError, TypeOK, connVars, subVars
  <2>2. pub'[n] = "select" /\ \A k \in Names : k # n => pub'[k] = pub[k]
    BY <1>2 DEF ReportPublishError, TypeOK
  <2>3. Publishing'
    BY <1>2, <2>2 DEF ReportPublishError, Publishing, LinkKept, Published, connVars
  <2> QED  BY <1>2, <2>1, <2>3, FlowSame DEF ReportPublishError, subVars
<1>3. ASSUME NEW m \in Outgoing, ClientSend(n, m) PROVE IInv'
  <2>1. /\ sendCh[n] \in Seq(Outgoing) /\ tried[n] \in Seq(Outgoing) /\ accepted[n] \in Seq(Outgoing)
        /\ pub[n] # "none"
        /\ sendCh' = [sendCh EXCEPT ![n] = Append(@, m)]
        /\ accepted' = [accepted EXCEPT ![n] = Append(@, m)]
        /\ UNCHANGED <<mode, lock, stop, errs, link, stan, drops, pub, tried, promised, subVars, loop>>
    BY <1>3 DEF ClientSend, TypeOK, connVars
  <2>2. /\ Append(sendCh[n], m) \in Seq(Outgoing) /\ Append(accepted[n], m) \in Seq(Outgoing)
        /\ Len(Append(accepted[n], m)) = Len(accepted[n]) + 1
        /\ tried[n] \o Append(sendCh[n], m) = Append(tried[n] \o sendCh[n], m)
    <3>1. /\ Append(sendCh[n], m) \in Seq(Outgoing) /\ Append(accepted[n], m) \in Seq(Outgoing)
          /\ Len(Append(accepted[n], m)) = Len(accepted[n]) + 1
      BY <2>1, AppendProperties
    <3>2. tried[n] \o Append(sendCh[n], m) = Append(tried[n] \o sendCh[n], m)
      <4>1. \A s, t \in Seq(Outgoing) : s \o Append(t, m) = Append(s \o t, m)
        BY AppendToLast
      <4> QED  BY <2>1, <4>1, Zenon
    <3> QED  BY <3>1, <3>2
  <2>3. TypeOK'
    <3>1. sendCh' \in [Names -> Seq(Outgoing)] /\ accepted' \in [Names -> Seq(Outgoing)]
      BY <2>1, <2>2 DEF TypeOK
    <3>2. UNCHANGED <<mode, lock, stop, errs, link, stan, drops, pub, tried, promised, sub, pending,
                      handling, recvCh, received, arrived, redelivered, loop>>
      BY <2>1 DEF subVars
    <3>3. {pending, recvCh, received, arrived}' \subseteq Seq(Outgoing)
      BY <3>2 DEF TypeOK
    <3> QED  BY <3>1, <3>2, <3>3, SMTT(30) DEF TypeOK
  <2>4. sendCh'[n] = Append(sendCh[n], m) /\ accepted'[n] = Append(accepted[n], m)
    BY <2>1 DEF TypeOK
  <2>5. Len(accepted[n]) \in Nat /\ promised[n] \in Nat
    BY <2>1, LenProperties DEF TypeOK
  <2>6. Published(n)'
    <3>1. tried[n] \o sendCh[n] = accepted[n] /\ promised[n] <= Len(accepted[n])
      BY DEF Publishing, Published
    <3>2. tried'[n] \o sendCh'[n] = accepted'[n]
      BY <2>1, <2>2, <2>4, <3>1
    <3>3. promised'[n] <= Len(accepted'[n])
      BY <2>1, <2>2, <2>4, <2>5, <3>1
    <3> QED  BY <2>1, <3>2, <3>3 DEF Publishing, Published
  <2>7. \A k \in Names : k # n => sendCh'[k] = sendCh[k] /\ accepted'[k] = accepted[k]
    BY <2>1 DEF TypeOK
  <2>8. \A k \in Names : k # n => Published(k)'
    BY <2>1, <2>7 DEF Publishing, Published
  <2>9. Publishing'
    BY <2>1, <2>6, <2>8 DEF Publishing, LinkKept
  <2> QED  BY <2>1, <2>3, <2>9, FlowSame DEF subVars
<1> QED  BY <1>1, <1>2, <1>3

(* Stop, which takes the connection away only when nobody uses it any more. *)
LEMMA StepStop ==
  ASSUME IInv, Stop
  PROVE  IInv'
<1> USE NatsAssumption DEF IInv
<1>1. \A n \in Names : Len(accepted[n]) \in Nat
  BY LenProperties DEF TypeOK
<1>2. CASE StopBegins
  <2>1. TypeOK'
    BY <1>1, <1>2, EmptySeq DEF StopBegins, StopLocks, TypeOK, connVars
  <2>2. Publishing'
    <3>1. /\ stop = "called" /\ stop' = "closing"
          /\ promised' = [n \in Names |-> Len(accepted[n])]
          /\ UNCHANGED <<link, drops, pub, sendCh, accepted, tried>>
      BY <1>2 DEF StopBegins, connVars
    <3>2. ASSUME NEW n \in Names PROVE Published(n)'
      <4>1. pub[n] # "exited" /\ promised'[n] = Len(accepted[n])
        BY <3>1 DEF Publishing, Published
      <4>2. promised'[n] <= Len(accepted'[n])
        BY <1>1, <3>1, <4>1
      <4> QED  BY <3>1, <4>1, <4>2 DEF Publishing, Published
    <3> QED  BY <3>1, <3>2 DEF Publishing, LinkKept
  <2>3. Flow'
    BY <1>2, FlowEnds DEF StopBegins
  <2> QED  BY <2>1, <2>2, <2>3
<1>3. CASE StopEnds
  <2>1. TypeOK'
    BY <1>3 DEF StopEnds, Unlock, TypeOK, sendVars, subVars
  <2>2. ASSUME NEW n \in Names PROVE Published(n)'
    <3>1. pub[n] \in {"none", "exited"}
      BY <1>3 DEF StopEnds, PublishersGone
    <3>2. ASSUME drops = 0 PROVE promised[n] <= Len(tried[n])
      <4>1. CASE pub[n] = "exited"
        BY <3>2, <4>1 DEF Publishing, Published
      <4>2. CASE pub[n] = "none"
        <5>1. promised[n] <= 0
          BY <4>2, EmptySeq DEF Publishing, Published
        <5> QED  BY <5>1, LenProperties DEF TypeOK
      <4> QED  BY <3>1, <4>1, <4>2
    <3> QED  BY <1>3, <3>1, <3>2 DEF StopEnds, Publishing, Published, sendVars
  <2>3. LinkKept'
    BY <1>3 DEF StopEnds, LinkKept
  <2> QED  BY <1>3, <2>1, <2>2, <2>3, FlowSame DEF StopEnds, Publishing, subVars
<1> QED  BY <1>2, <1>3 DEF Stop

LEMMA StepLink ==
  ASSUME IInv, LinkDown \/ LinkUp \/ LinkCloses
  PROVE  IInv'
<1> USE NatsAssumption DEF IInv
<1>1. TypeOK'
  <2>1. CASE LinkDown
    BY <2>1 DEF LinkDown, TypeOK, sendVars, subVars
  <2>2. CASE LinkUp
    BY <2>2 DEF LinkUp, TypeOK, sendVars, subVars
  <2>3. CASE LinkCloses
    BY <2>3, EmptySeq DEF LinkCloses, TypeOK, sendVars
  <2> QED  BY <2>1, <2>2, <2>3
<1>2. drops # 0 => drops' # 0
  BY DEF LinkDown, LinkUp, LinkCloses, TypeOK
<1>3. drops' # 0
  <2>1. CASE LinkDown
    BY <2>1 DEF LinkDown, TypeOK
  <2>2. CASE LinkUp \/ LinkCloses
    BY <1>2, <2>2 DEF LinkUp, LinkCloses, Publishing, LinkKept
  <2> QED  BY <2>1, <2>2
<1>4. link' # "none" /\ UNCHANGED <<sendVars, stop>>
  BY DEF LinkDown, LinkUp, LinkCloses
<1>5. Publishing'
  BY <1>3, <1>4 DEF Publishing, LinkKept, Published, sendVars
<1>6. CASE LinkDown \/ LinkUp
  BY <1>1, <1>5, <1>6, FlowSame DEF LinkDown, LinkUp, subVars
<1>7. CASE LinkCloses
  BY <1>1, <1>5, <1>7, FlowEnds DEF LinkCloses
<1> QED  BY <1>6, <1>7

THEOREM Step == IInv /\ [Next]_vars => IInv'
<1> SUFFICES ASSUME IInv, [Next]_vars PROVE IInv'
  OBVIOUS
<1>1. CASE Receive \/ ReceiveReports \/ SendReports \/ DrainErr \/ CallStop
  BY <1>1, StepOpens
<1>2. CASE Callback \/ Redeliver \/ ClientReceive
  BY <1>2, StepReceives
<1>3. ASSUME NEW n \in Names,
             SendOpens(n) \/ SendFails(n) \/ Publisher(n) \/ \E m \in Outgoing : ClientSend(n, m)
      PROVE  IInv'
  BY <1>3, StepOpens, StepTakes, StepPublishes DEF Publisher
<1>4. CASE Stop
  BY <1>4, StepStop
<1>5. CASE LinkDown \/ LinkUp \/ LinkCloses
  BY <1>5, StepLink
<1>6. CASE UNCHANGED vars
  <2>1. TypeOK'
    BY <1>6 DEF IInv, vars, connVars, sendVars, subVars, TypeOK
  <2> QED  BY <1>6, <2>1, PublishingSame, FlowSame DEF IInv, vars, connVars, subVars
<1> QED  BY <1>1, <1>2, <1>3, <1>4, <1>5, <1>6 DEF Next

THEOREM Inductive == Spec => []IInv
<1> QED  BY InitInv, Step, PTL DEF Spec

(* Every variable has its type, and the mutex is Stop's just while it waits. *)
THEOREM TypeCorrect == Spec => []TypeOK
<1>1. IInv => TypeOK
  BY DEF IInv
<1> QED  BY <1>1, Inductive, PTL

(* Publish is called once with each message, in order, whatever fails. *)
THEOREM OrderedTries == Spec => []TriedInOrder
<1>1. IInv => TriedInOrder
  BY DEF IInv, Publishing, Published, TriedInOrder
<1> QED  BY <1>1, Inductive, PTL

(* t.natsConn is nil only when no publisher is left to read it. *)
THEOREM ConnectionOutlives == Spec => []ConnectionOutlivesPublishers
<1>1. IInv => ConnectionOutlivesPublishers
  BY DEF IInv, Publishing, Published, ConnectionOutlivesPublishers
<1> QED  BY <1>1, Inductive, PTL

(* Done is closed after the last message that was on a channel at Stop. *)
THEOREM DoneKeepsPromise == Spec => []DoneMeansTried
<1>1. IInv => DoneMeansTried
  <2> SUFFICES ASSUME IInv, stop = "done", drops = 0, NEW n \in Names
               PROVE  Len(tried[n]) >= promised[n]
    BY DEF DoneMeansTried
  <2>1. promised[n] <= Len(tried[n])
    BY DEF IInv, Publishing, Published
  <2>2. Len(tried[n]) \in Nat /\ promised[n] \in Nat
    BY LenProperties DEF IInv, TypeOK
  <2> QED  BY <2>1, <2>2
<1> QED  BY <1>1, Inductive, PTL

(* The client reads what arrived, in that order, and all of it while subscribed. *)
THEOREM OrderedReceipts == Spec => []ReceivedInOrder
<1>1. IInv => ReceivedInOrder
  BY DEF IInv, Flow, ReceivedInOrder
<1> QED  BY <1>1, Inductive, PTL

----------------------------------------------------------------------------
(* While no connection was lost the sending half implements Outbox: ClientSend
   is Accept, TakeMessage is Hand, StopBegins is CallStop and StopEnds is
   Stopped; every other step changes nothing Outbox sees. *)

LEMMA RefineInit == Init => Promise!Init
BY DEF Init, Promise!Init, Phase

LEMMA RefineTakes ==
  ASSUME IInv, NEW n \in Names, TakeMessage(n)
  PROVE  Promise!Next
<1>1. /\ sendCh[n] \in Seq(Outgoing) /\ sendCh[n] # <<>> /\ tried[n] \in Seq(Outgoing)
      /\ tried[n] \o sendCh[n] = accepted[n]
  BY DEF TakeMessage, IInv, TypeOK, Publishing, Published
<1>2. \E k \in Len(tried[n]) .. Len(accepted[n]) :
        Append(tried[n], Head(sendCh[n])) = SubSeq(accepted[n], 1, k)
  <2> DEFINE s == tried[n]  t == sendCh[n]
  <2>1. s \in Seq(Outgoing) /\ t \in Seq(Outgoing) /\ t # <<>>
    BY <1>1
  <2> HIDE DEF s, t
  <2>2. \E k \in Len(s) .. Len(s \o t) : Append(s, Head(t)) = SubSeq(s \o t, 1, k)
    BY <2>1, NextPrefix
  <2> QED  BY <1>1, <2>2 DEF s, t
<1>3. /\ tried' = [tried EXCEPT ![n] = Append(tried[n], Head(sendCh[n]))]
      /\ UNCHANGED <<accepted, promised, stop>>
  BY DEF TakeMessage
<1>4. Promise!Hand(n)
  BY <1>2, <1>3 DEF Phase, Promise!Hand
<1> QED  BY <1>4 DEF Promise!Next

LEMMA RefineStop ==
  ASSUME IInv, drops = 0, Stop
  PROVE  Promise!Next
<1>1. CASE StopBegins
  <2>1. /\ stop = "called" /\ stop' = "closing" /\ accepted' = accepted /\ tried' = tried
        /\ promised' = [n \in Names |-> Len(accepted[n])]
    BY <1>1 DEF StopBegins
  <2>2. Promise!CallStop
    BY <2>1 DEF Phase, Promise!CallStop
  <2> QED  BY <2>2 DEF Promise!Next
<1>2. CASE StopEnds
  <2>1. /\ stop = "closing" /\ stop' = "done" /\ UNCHANGED <<drops, sendVars>>
    BY <1>2 DEF StopEnds
  <2>2. ASSUME NEW n \in Names PROVE Len(tried[n]) >= promised[n]
    <3>1. IInv'
      BY StepStop
    <3>2. promised[n] <= Len(tried[n])
      BY <2>1, <3>1 DEF IInv, Publishing, Published, sendVars
    <3>3. Len(tried[n]) \in Nat /\ promised[n] \in Nat
      BY LenProperties DEF IInv, TypeOK
    <3> QED  BY <3>2, <3>3
  <2>3. Promise!Stopped
    BY <2>1, <2>2 DEF sendVars, Phase, Promise!Stopped
  <2> QED  BY <2>3 DEF Promise!Next
<1> QED  BY <1>1, <1>2 DEF Stop

LEMMA RefineStep ==
  ASSUME IInv, drops = 0, [Next]_vars
  PROVE  [Promise!Next]_(Promise!vars)
<1> DEFINE Unseen == /\ UNCHANGED <<accepted, tried, promised>>
                     /\ stop' = stop \/ (stop = "no" /\ stop' = "called")
<1>1. Unseen => [Promise!Next]_(Promise!vars)
  BY DEF Promise!vars, Phase
<1>2. CASE UNCHANGED vars
  BY <1>1, <1>2 DEF vars, sendVars
<1>3. CASE Receive \/ ReceiveReports \/ SendReports \/ Callback \/ Redeliver
  BY <1>1, <1>3
     DEF Receive, ReceiveLooksUp, ReceiveOpens, ReceiveFails, ReceiveReports, SendReports,
         Callback, CallbackStarts, CallbackDelivers, Redeliver, sendVars
<1>4. CASE CallStop \/ ClientReceive \/ DrainErr \/ LinkDown \/ LinkUp \/ LinkCloses
  BY <1>1, <1>4
     DEF CallStop, ClientReceive, DrainErr, LinkDown, LinkUp, LinkCloses, sendVars
<1>5. CASE Stop
  BY <1>5, RefineStop
<1>6. ASSUME NEW n \in Names,
             SendOpens(n) \/ SendFails(n) \/ SeeStop(n) \/ ReportPublishError(n)
      PROVE  [Promise!Next]_(Promise!vars)
  BY <1>1, <1>6 DEF SendOpens, SendFails, SeeStop, ReportPublishError, sendVars
<1>7. ASSUME NEW n \in Names, TakeMessage(n)
      PROVE  [Promise!Next]_(Promise!vars)
  BY <1>7, RefineTakes
<1>8. ASSUME NEW n \in Names, NEW m \in Outgoing, ClientSend(n, m)
      PROVE  [Promise!Next]_(Promise!vars)
  <2>1. Promise!Accept(n, m)
    BY <1>8 DEF ClientSend, Phase, Promise!Accept
  <2> QED  BY <2>1 DEF Promise!Next
<1> QED
  BY <1>2, <1>3, <1>4, <1>5, <1>6, <1>7, <1>8 DEF Next, Publisher

(* The publishers and Stop keep the promise of Outbox up to the first loss of
   the connection. *)
THEOREM Refinement == Spec => ImplementsOutbox
<1>1. IInv /\ [Next]_vars => (drops = 0 => [Promise!Next]_(Promise!vars))
  BY RefineStep
<1> QED
  BY <1>1, RefineInit, Inductive, PTL DEF Spec, ImplementsOutbox

(* Where no connection is ever lost they implement it. *)
COROLLARY ConnectedRefinement == Spec /\ [](drops = 0) => Promise!Spec
<1>1. UNCHANGED vars => UNCHANGED Promise!vars
  BY DEF vars, sendVars, Promise!vars, Phase
<1> QED
  BY <1>1, Refinement, PTL DEF ImplementsOutbox, Promise!Spec
=============================================================================
