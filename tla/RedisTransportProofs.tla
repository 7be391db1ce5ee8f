------------------------- MODULE RedisTransportProofs -------------------------
(* Safety of the Redis transport, for any messages, capacities and number of
   times the server goes away. *)
EXTENDS RedisTransport, ChannelLemmas, SequenceTheorems, FiniteSetTheorems, TLAPS

Distinct(s) == \A i, j \in DOMAIN s : s[i] = s[j] => i = j

(* What the publisher has done, and what Stop promised for it. *)
Published ==
  /\ tried \o sendCh = accepted
  /\ pub = "none" => accepted = <<>>
  /\ pub \in {"select", "report"} => client # "nil"
  /\ client = "closed" => stop = "done"
  /\ pub = "exited" => stop # "no"
  /\ promised <= Len(accepted)
  /\ drops = 0 => up
  /\ drops = 0 /\ (pub = "exited" \/ stop = "done") => promised <= Len(tried)

(* PoppedOnce, with the reasons: each message is sent, and pushed, once. *)
Popped ==
  /\ Distinct(accepted) /\ Distinct(list)
  /\ stored \subseteq Range(tried)
  /\ Range(list) \cap lost = {}
  /\ IsFiniteSet(stored) /\ IsFiniteSet(lost)
  /\ PoppedOnce

IInv == TypeOK /\ Published /\ Popped

LEMMA DistinctAppend ==
  ASSUME NEW S, NEW s \in Seq(S), NEW e \in S, Distinct(s), e \notin Range(s)
  PROVE  Distinct(Append(s, e))
<1>1. /\ DOMAIN s = 1 .. Len(s) /\ Len(s) \in Nat
      /\ DOMAIN Append(s, e) = 1 .. Len(s) + 1
      /\ \A i \in 1 .. Len(s) : Append(s, e)[i] = s[i]
      /\ Append(s, e)[Len(s) + 1] = e
  BY AppendProperties, LenProperties
<1>2. \A i \in 1 .. Len(s) : s[i] # e
  BY <1>1 DEF Range
<1> QED  BY <1>1, <1>2 DEF Distinct

(* The right end of a list, and what is left without it. *)
LEMMA FrontAndLast ==
  ASSUME NEW S, NEW s \in Seq(S), s # <<>>
  PROVE  /\ Last(s) \in S /\ Front(s) \in Seq(S)
         /\ Len(s) \in Nat /\ Len(Front(s)) = Len(s) - 1
         /\ Range(s) = Range(Front(s)) \cup {Last(s)}
         /\ Distinct(s) => Distinct(Front(s)) /\ Last(s) \notin Range(Front(s))
<1>1. Len(s) \in Nat /\ Len(s) # 0 /\ DOMAIN s = 1 .. Len(s)
  BY LenProperties, EmptySeq
<1>2. \A i \in 1 .. Len(s) - 1 : s[i] \in S
  BY <1>1, ElementOfSeq
<1>3. /\ Front(s) \in Seq(S) /\ Len(Front(s)) = Len(s) - 1
      /\ \A i \in 1 .. Len(s) - 1 : Front(s)[i] = s[i]
  <2> DEFINE n == Len(s) - 1
             t == SubSeq(s, 1, n)
  <2>1. n \in Int /\ 1 \in Int /\ n >= 0
    BY <1>1
  <2>2. /\ t \in Seq(S)
        /\ Len(t) = IF 1 <= n THEN n - 1 + 1 ELSE 0
        /\ \A i \in 1 .. n - 1 + 1 : t[i] = s[1 + i - 1]
    BY <1>2, <2>1, SubSeqProperties
  <2>3. Front(s) = t
    BY DEF Front
  <2> HIDE DEF n, t
  <2>4. Len(t) = n
    BY <2>1, <2>2
  <2>5. ASSUME NEW i \in 1 .. n PROVE t[i] = s[i]
    <3>1. i \in 1 .. n - 1 + 1 /\ 1 + i - 1 = i
      BY <2>1
    <3>2. t[i] = s[1 + i - 1]
      BY <2>2, <3>1
    <3> QED  BY <3>1, <3>2
  <2>6. n = Len(s) - 1
    BY DEF n
  <2> QED  BY <2>2, <2>3, <2>4, <2>5, <2>6
<1>4. DOMAIN Front(s) = 1 .. Len(s) - 1
  BY <1>1, <1>3, LenProperties
<1>5. Last(s) \in S
  BY <1>1, ElementOfSeq DEF Last
<1>6. Range(s) = Range(Front(s)) \cup {Last(s)}
  BY <1>1, <1>3, <1>4 DEF Range, Last
<1>7. ASSUME Distinct(s) PROVE Distinct(Front(s)) /\ Last(s) \notin Range(Front(s))
  BY <1>1, <1>3, <1>4, <1>7 DEF Distinct, Range, Last
<1> QED  BY <1>1, <1>3, <1>5, <1>6, <1>7

(* The next message to push was not pushed before. *)
LEMMA NextIsNew ==
  ASSUME IInv, sendCh # <<>>
  PROVE  Head(sendCh) \notin Range(tried)
<1>1. /\ tried \in Seq(Outgoing) /\ sendCh \in Seq(Outgoing)
      /\ tried \o sendCh = accepted /\ Distinct(accepted)
  BY DEF IInv, TypeOK, Published, Popped
<1>2. Len(tried) \in Nat /\ Len(sendCh) \in Nat /\ Len(sendCh) # 0
  BY <1>1, LenProperties, EmptySeq
<1>3. /\ accepted \in Seq(Outgoing) /\ Len(accepted) = Len(tried) + Len(sendCh)
      /\ \A i \in 1 .. Len(tried) + Len(sendCh) :
           accepted[i] = IF i <= Len(tried) THEN tried[i] ELSE sendCh[i - Len(tried)]
  BY <1>1, ConcatProperties
<1>4. DOMAIN accepted = 1 .. Len(tried) + Len(sendCh) /\ DOMAIN tried = 1 .. Len(tried)
  BY <1>1, <1>3, LenProperties
<1>5. Head(sendCh) = sendCh[1]
  BY <1>1, HeadTailProperties
<1>6. accepted[Len(tried) + 1] = Head(sendCh)
  BY <1>2, <1>3, <1>5
<1>7. \A i \in 1 .. Len(tried) : accepted[i] = tried[i]
  BY <1>2, <1>3
<1>8. \A i \in 1 .. Len(tried) : accepted[i] # accepted[Len(tried) + 1]
  <2>1. Len(tried) + 1 \in DOMAIN accepted
    BY <1>2, <1>4
  <2>2. \A i \in 1 .. Len(tried) : i \in DOMAIN accepted /\ i # Len(tried) + 1
    BY <1>2, <1>4
  <2> QED  BY <1>1, <2>1, <2>2 DEF Distinct
<1> QED  BY <1>4, <1>6, <1>7, <1>8 DEF Range

LEMMA InitInv == Init => IInv
<1> SUFFICES ASSUME Init PROVE IInv
  OBVIOUS
<1>1. TypeOK
  BY RedisAssumption, EmptySeq DEF Init, TypeOK, Options
<1>2. /\ <<>> \o <<>> = <<>> /\ Len(<<>>) = 0 /\ DOMAIN <<>> = {} /\ Range(<<>>) = {}
      /\ IsFiniteSet({}) /\ Cardinality({}) = 0
  BY EmptySeq, FS_EmptySet DEF Range
<1>3. Published
  BY <1>2 DEF Init, Published, Options
<1>4. Distinct(<<>>)
  BY <1>2 DEF Distinct
<1>5. Popped
  BY <1>2, <1>4 DEF Init, Popped, PoppedOnce
<1> QED  BY <1>1, <1>3, <1>5 DEF IInv

----------------------------------------------------------------------------
(* The publisher's part, and the server's, where a step leaves it alone. *)
LEMMA PublishedSame ==
  ASSUME Published, UNCHANGED <<client, up, drops, stop, pubVars>>
  PROVE  Published'
BY DEF Published, pubVars

LEMMA PoppedSame ==
  ASSUME Popped, UNCHANGED <<accepted, tried, serverVars, held, recvCh, received>>
  PROVE  Popped'
BY DEF Popped, PoppedOnce, serverVars

(* Receive and Send, up to the start of their goroutines. *)
LEMMA StepOpens ==
  ASSUME IInv, ReceiveOpens \/ SendOpens \/ OpenFails \/ OpenReports \/ DrainErr
  PROVE  IInv'
<1> USE RedisAssumption DEF IInv
<1>1. CASE ReceiveOpens
  <2>1. held = Nil
    BY <1>1 DEF ReceiveOpens, TypeOK
  <2>2. TypeOK'
    BY <1>1, <2>1 DEF ReceiveOpens, Connects, TypeOK, pubVars, serverVars
  <2>3. Published'
    BY <1>1 DEF ReceiveOpens, Connects, Published, pubVars
  <2> QED  BY <1>1, <2>2, <2>3, PoppedSame DEF ReceiveOpens, pubVars
<1>2. CASE SendOpens
  <2>1. TypeOK'
    BY <1>2 DEF SendOpens, Connects, TypeOK, subVars, serverVars
  <2>2. promised <= Len(tried)
    <3>1. promised <= 0 /\ Len(tried) \in Nat
      BY <1>2, EmptySeq, LenProperties DEF SendOpens, Published, TypeOK
    <3> QED  BY <3>1 DEF TypeOK
  <2>3. Published'
    BY <1>2, <2>2 DEF SendOpens, Connects, Published
  <2> QED  BY <1>2, <2>1, <2>3, PoppedSame DEF SendOpens, subVars
<1>3. CASE OpenFails
  <2>1. lock' \in {"receive", "send"} /\ client' = "set" /\ client = "nil"
    BY <1>3 DEF OpenFails, ConnectFails
  <2>2. TypeOK'
    BY <1>3, <2>1 DEF OpenFails, ConnectFails, TypeOK, pubVars, serverVars, subVars
  <2>3. Published'
    BY <1>3, <2>1 DEF OpenFails, ConnectFails, Published, pubVars
  <2> QED  BY <1>3, <2>2, <2>3, PoppedSame DEF OpenFails, pubVars, subVars
<1>4. CASE OpenReports
  <2>1. TypeOK'
    BY <1>4 DEF OpenReports, PutError, TypeOK, connVars, pubVars, serverVars, subVars
  <2> QED  BY <1>4, <2>1, PublishedSame, PoppedSame DEF OpenReports, connVars, pubVars, subVars
<1>5. CASE DrainErr
  <2>1. TypeOK'
    BY <1>5 DEF DrainErr, TypeOK, connVars, pubVars, serverVars, subVars
  <2> QED  BY <1>5, <2>1, PublishedSame, PoppedSame DEF DrainErr, connVars, pubVars, subVars
<1> QED  BY <1>1, <1>2, <1>3, <1>4, <1>5

(* The subscriber has what it popped until it is on the channel. *)
LEMMA StepSubscriber ==
  ASSUME IInv, Subscriber
  PROVE  IInv'
<1> USE RedisAssumption DEF IInv
<1>1. list \in Seq(Outgoing) /\ Len(list) \in Nat
  BY LenProperties DEF TypeOK
<1>2. list # <<>> => /\ Last(list) \in Outgoing /\ Front(list) \in Seq(Outgoing)
                     /\ Len(Front(list)) = Len(list) - 1
                     /\ Range(list) = Range(Front(list)) \cup {Last(list)}
                     /\ Distinct(Front(list)) /\ Last(list) \notin Range(Front(list))
  BY <1>1, FrontAndLast DEF Popped
<1>3. /\ Len(recvCh) \in Nat /\ Len(received) \in Nat
      /\ IsFiniteSet(lost) /\ Cardinality(lost) \in Nat
  BY LenProperties, FS_CardinalityType DEF TypeOK, Popped
<1>4. CASE Pop
  <2>1. held = Nil /\ list # <<>> /\ list' = Front(list) /\ held' = Last(list) /\ sub' = "deliver"
    BY <1>4 DEF Pop, TypeOK
  <2>2. TypeOK'
    BY <1>2, <1>4, <2>1 DEF Pop, TypeOK, connVars, pubVars
  <2>3. held' # Nil
    BY <1>2, <2>1
  <2>4. PoppedOnce'
    <3>1. stored' = Range(list') \cup lost' \cup ({held'} \ {Nil}) \cup Range(recvCh') \cup Range(received')
      BY <1>2, <1>4, <2>1, <2>3 DEF Pop, Popped, PoppedOnce
    <3>2. Cardinality(stored') = Len(list') + Cardinality(lost') + Len(recvCh') + Len(received') + 1
      <4>1. Cardinality(stored) = Len(list) + Cardinality(lost) + Len(recvCh) + Len(received) + 0
        BY <2>1 DEF Popped, PoppedOnce
      <4>2. Len(list') = Len(list) - 1
        BY <1>2, <2>1
      <4>3. UNCHANGED <<stored, lost, recvCh, received>>
        BY <1>4 DEF Pop
      <4> QED  BY <1>1, <1>3, <4>1, <4>2, <4>3
    <3> QED  BY <2>3, <3>1, <3>2 DEF PoppedOnce
  <2>5. Popped'
    BY <1>2, <1>4, <2>1, <2>4 DEF Pop, Popped, pubVars
  <2> QED  BY <1>4, <2>2, <2>5, PublishedSame DEF Pop, connVars, pubVars
<1>5. CASE PopFails
  <2>1. held = Nil /\ held' = Nil /\ sub' \in {"report", "exited"}
    BY <1>5 DEF PopFails, AfterPopError, TypeOK
  <2>2. CASE UNCHANGED serverVars
    <3>1. TypeOK'
      BY <1>5, <2>1, <2>2 DEF PopFails, TypeOK, connVars, pubVars, serverVars
    <3> QED  BY <1>5, <2>2, <3>1, PublishedSame, PoppedSame DEF PopFails, connVars, pubVars
  <2>3. CASE /\ list # <<>> /\ list' = Front(list) /\ UNCHANGED stored
             /\ lost' = lost \cup {Last(list)}
    <3>1. TypeOK'
      BY <1>2, <1>5, <2>1, <2>3 DEF PopFails, TypeOK, connVars, pubVars
    <3>2. IsFiniteSet(lost') /\ Cardinality(lost') = Cardinality(lost) + 1
      <4>1. Last(list) \notin lost
        BY <1>2, <2>3 DEF Popped
      <4> QED  BY <1>3, <2>3, <4>1, FS_AddElement
    <3>3. PoppedOnce'
      <4>1. stored' = Range(list') \cup lost' \cup ({held'} \ {Nil}) \cup Range(recvCh') \cup Range(received')
        BY <1>2, <1>5, <2>1, <2>3 DEF PopFails, Popped, PoppedOnce
      <4>2. Cardinality(stored') = Len(list') + Cardinality(lost') + Len(recvCh') + Len(received') + 0
        <5>1. Cardinality(stored) = Len(list) + Cardinality(lost) + Len(recvCh) + Len(received) + 0
          BY <2>1 DEF Popped, PoppedOnce
        <5>2. Len(list') = Len(list) - 1
          BY <1>2, <2>3
        <5>3. UNCHANGED <<stored, recvCh, received>>
          BY <1>5, <2>3 DEF PopFails
        <5> QED  BY <1>1, <1>3, <3>2, <5>1, <5>2, <5>3
      <4> QED  BY <2>1, <4>1, <4>2 DEF PoppedOnce
    <3>4. Popped'
      BY <1>2, <1>5, <2>3, <3>2, <3>3 DEF PopFails, Popped, pubVars
    <3> QED  BY <1>5, <3>1, <3>4, PublishedSame DEF PopFails, connVars, pubVars
  <2> QED  BY <1>5, <2>2, <2>3 DEF PopFails
<1>6. CASE ReportPopError
  <2>1. TypeOK'
    BY <1>6 DEF ReportPopError, PutError, TypeOK, connVars, pubVars, serverVars
  <2> QED  BY <1>6, <2>1, PublishedSame, PoppedSame DEF ReportPopError, connVars, pubVars
<1>7. CASE Deliver
  <2>1. held \in Outgoing /\ held # Nil /\ held' = Nil /\ recvCh' = Append(recvCh, held)
    BY <1>7 DEF Deliver, Delivering, TypeOK
  <2>2. /\ recvCh' \in Seq(Outgoing) /\ Len(recvCh') = Len(recvCh) + 1
        /\ Range(recvCh') = Range(recvCh) \cup {held}
    BY <2>1, AppendProperties, RangeOfAppend DEF TypeOK
  <2>3. TypeOK'
    BY <1>7, <2>1, <2>2 DEF Deliver, TypeOK, connVars, pubVars, serverVars
  <2>4. PoppedOnce'
    <3>1. stored' = Range(list') \cup lost' \cup ({held'} \ {Nil}) \cup Range(recvCh') \cup Range(received')
      BY <1>7, <2>1, <2>2 DEF Deliver, Popped, PoppedOnce, serverVars
    <3>2. Cardinality(stored') = Len(list') + Cardinality(lost') + Len(recvCh') + Len(received') + 0
      BY <1>1, <1>3, <1>7, <2>1, <2>2 DEF Deliver, Popped, PoppedOnce, serverVars
    <3> QED  BY <2>1, <3>1, <3>2 DEF PoppedOnce
  <2>5. Popped'
    BY <1>7, <2>4 DEF Deliver, Popped, pubVars, serverVars
  <2> QED  BY <1>7, <2>3, <2>5, PublishedSame DEF Deliver, connVars, pubVars
<1> QED  BY <1>4, <1>5, <1>6, <1>7 DEF Subscriber

LEMMA StepReceives ==
  ASSUME IInv, ClientReceive
  PROVE  IInv'
<1> USE RedisAssumption DEF IInv
<1>1. recvCh \in Seq(Outgoing) /\ received \in Seq(Outgoing) /\ recvCh # <<>>
  BY DEF ClientReceive, TypeOK
<1>2. /\ Head(recvCh) \in Outgoing /\ Tail(recvCh) \in Seq(Outgoing)
      /\ Len(Tail(recvCh)) = Len(recvCh) - 1
      /\ Append(received, Head(recvCh)) \in Seq(Outgoing)
      /\ Len(Append(received, Head(recvCh))) = Len(received) + 1
  BY <1>1, HeadTailProperties, AppendProperties
<1>3. Range(received') \cup Range(recvCh') = Range(received) \cup Range(recvCh)
  BY <1>1, RangeOfMove DEF ClientReceive
<1>4. Len(recvCh) \in Nat /\ Len(received) \in Nat
  BY <1>1, LenProperties
<1>5. TypeOK'
  BY <1>2 DEF ClientReceive, TypeOK, connVars, pubVars, serverVars
<1>6. Len(recvCh') + Len(received') = Len(recvCh) + Len(received)
  BY <1>2, <1>4 DEF ClientReceive
<1>7. PoppedOnce'
  <2>1. UNCHANGED <<stored, list, lost, held>>
    BY DEF ClientReceive, serverVars
  <2>2. stored' = Range(list') \cup lost' \cup ({held'} \ {Nil}) \cup Range(recvCh') \cup Range(received')
    BY <1>3, <2>1 DEF Popped, PoppedOnce
  <2>3. Len(list) \in Nat /\ Cardinality(lost) \in Nat
    BY LenProperties, FS_CardinalityType DEF TypeOK, Popped
  <2>4. ASSUME NEW h \in {0, 1}
        PROVE  Len(list) + Cardinality(lost) + Len(recvCh') + Len(received') + h =
               Len(list) + Cardinality(lost) + Len(recvCh) + Len(received) + h
    <3>1. Len(recvCh') \in Int /\ Len(received') \in Int
      BY <1>2, <1>4 DEF ClientReceive
    <3>2. \A x, y, a, b, c, d \in Int : a + b = c + d => x + y + a + b + h = x + y + c + d + h
      OBVIOUS
    <3>3. /\ Len(recvCh) \in Int /\ Len(received) \in Int
          /\ Len(list) \in Int /\ Cardinality(lost) \in Int
      BY <1>4, <2>3
    <3> QED  BY <1>6, <3>1, <3>2, <3>3
  <2> QED  BY <2>1, <2>2, <2>4 DEF Popped, PoppedOnce
<1>8. Popped'
  BY <1>7 DEF ClientReceive, Popped, pubVars, serverVars
<1> QED  BY <1>5, <1>8, PublishedSame DEF ClientReceive, connVars, pubVars

----------------------------------------------------------------------------
(* A message that is taken from the channel has been tried, and may be stored. *)
LEMMA StepTakes ==
  ASSUME IInv, TakeMessage
  PROVE  IInv'
<1> USE RedisAssumption DEF IInv
<1> DEFINE m == Head(sendCh)
<1>1. /\ sendCh \in Seq(Outgoing) /\ sendCh # <<>> /\ tried \in Seq(Outgoing)
      /\ accepted \in Seq(Outgoing) /\ list \in Seq(Outgoing)
  BY DEF TakeMessage, TypeOK
<1>2. m \in Outgoing /\ Tail(sendCh) \in Seq(Outgoing) /\ m \notin Range(tried)
  BY <1>1, HeadTailProperties, NextIsNew
<1>3. Append(tried, Head(sendCh)) \o Tail(sendCh) = tried \o sendCh
  BY <1>1, MoveHead
<1>4. /\ sendCh' = Tail(sendCh) /\ tried' = Append(tried, m)
      /\ pub = "select" /\ pub' \in {"select", "report"}
      /\ (UNCHANGED <<list, stored>> \/ (list' = Append(list, m) /\ stored' = stored \cup {m}))
      /\ UNCHANGED <<connVars, lock, errs, stop, accepted, promised, lost, subVars>>
  BY DEF TakeMessage, Pushed
<1> HIDE DEF m
<1>5. /\ tried' \in Seq(Outgoing) /\ Len(tried') = Len(tried) + 1
      /\ Range(tried') = Range(tried) \cup {m}
  BY <1>1, <1>2, <1>4, AppendProperties, RangeOfAppend
<1>6. TypeOK'
  <2>1. list' \in Seq(Outgoing) /\ {stored, lost}' \subseteq SUBSET Outgoing
    <3>1. Append(list, m) \in Seq(Outgoing)
      BY <1>1, <1>2, AppendProperties
    <3>2. stored' \subseteq Outgoing /\ lost' \subseteq Outgoing
      BY <1>2, <1>4 DEF TypeOK
    <3> QED  BY <1>1, <1>4, <3>1, <3>2
  <2>2. {sendCh, accepted, tried}' \subseteq Seq(Outgoing)
    BY <1>1, <1>2, <1>4, <1>5
  <2>3. {recvCh, received}' \subseteq Seq(Outgoing)
    BY <1>4 DEF TypeOK, subVars
  <2> QED  BY <1>4, <2>1, <2>2, <2>3 DEF TypeOK, connVars, subVars
<1>7. Published'
  <2>1. tried' \o sendCh' = accepted'
    BY <1>3, <1>4 DEF Published, m
  <2>2. drops = 0 /\ stop = "done" => promised <= Len(tried')
    <3>1. Len(tried) \in Nat /\ promised \in Nat
      BY <1>1, LenProperties DEF TypeOK
    <3>2. drops = 0 /\ stop = "done" => promised <= Len(tried)
      BY DEF Published
    <3> QED  BY <1>5, <3>1, <3>2
  <2> QED  BY <1>4, <2>1, <2>2 DEF Published, connVars
<1>8. Popped'
  <2>1. CASE UNCHANGED <<list, stored>>
    BY <1>4, <1>5, <2>1 DEF Popped, PoppedOnce, subVars
  <2>2. CASE list' = Append(list, m) /\ stored' = stored \cup {m}
    <3>1. m \notin stored /\ m \notin Range(list) /\ m \notin lost
      BY <1>2 DEF Popped, PoppedOnce
    <3>2. Distinct(list')
      BY <1>1, <1>2, <2>2, <3>1, DistinctAppend DEF Popped
    <3>3. /\ Len(list') = Len(list) + 1 /\ Range(list') = Range(list) \cup {m}
          /\ Len(list) \in Nat /\ Len(recvCh) \in Nat /\ Len(received) \in Nat
      BY <1>1, <1>2, <2>2, AppendProperties, RangeOfAppend, LenProperties DEF TypeOK
    <3>4. IsFiniteSet(stored') /\ Cardinality(stored') = Cardinality(stored) + 1
      BY <2>2, <3>1, FS_AddElement DEF Popped
    <3>5. Cardinality(lost) \in Nat /\ Cardinality(stored) \in Nat
      BY FS_CardinalityType DEF Popped
    <3>6. UNCHANGED <<held, recvCh, received, lost, accepted>>
      BY <1>4 DEF subVars
    <3>7. PoppedOnce'
      <4>1. stored' = Range(list') \cup lost' \cup ({held'} \ {Nil}) \cup Range(recvCh') \cup Range(received')
        BY <2>2, <3>3, <3>6 DEF Popped, PoppedOnce
      <4>2. ASSUME NEW h \in {0, 1},
                   Cardinality(stored) = Len(list) + Cardinality(lost) + Len(recvCh) + Len(received) + h
            PROVE  Cardinality(stored') = Len(list') + Cardinality(lost') + Len(recvCh') + Len(received') + h
        BY <3>3, <3>4, <3>5, <3>6, <4>2
      <4> QED  BY <3>6, <4>1, <4>2 DEF Popped, PoppedOnce
    <3> QED  BY <1>5, <2>2, <3>1, <3>2, <3>3, <3>4, <3>6, <3>7 DEF Popped
  <2> QED  BY <1>4, <2>1, <2>2
<1> QED  BY <1>6, <1>7, <1>8

LEMMA StepPublishes ==
  ASSUME IInv, SeeStop \/ ReportPushError \/ \E m \in Outgoing : ClientSend(m)
  PROVE  IInv'
<1> USE RedisAssumption DEF IInv
<1>1. CASE SeeStop
  <2>1. TypeOK'
    BY <1>1 DEF SeeStop, TypeOK, connVars, serverVars, subVars
  <2>2. ASSUME drops = 0 PROVE promised <= Len(tried)
    <3>1. CASE stop = "done"
      BY <2>2, <3>1 DEF Published
    <3>2. CASE stop # "done"
      <4>1. sendCh = <<>>
        BY <1>1, <2>2, <3>2 DEF SeeStop, MayLeave, Answers, Published, TypeOK
      <4>2. tried \in Seq(Outgoing) /\ tried \o sendCh = accepted
        BY DEF TypeOK, Published
      <4>3. tried = accepted
        BY <4>1, <4>2, ConcatEmptySeq
      <4> QED  BY <4>3 DEF Published
    <3> QED  BY <3>1, <3>2
  <2>3. Published'
    BY <1>1, <2>2 DEF SeeStop, Published, connVars
  <2> QED  BY <1>1, <2>1, <2>3, PoppedSame DEF SeeStop, subVars
<1>2. CASE ReportPushError
  <2>1. TypeOK'
    BY <1>2 DEF ReportPushError, PutError, TypeOK, connVars, serverVars, subVars
  <2>2. Published'
    BY <1>2 DEF ReportPushError, Published, connVars
  <2> QED  BY <1>2, <2>1, <2>2, PoppedSame DEF ReportPushError, subVars
<1>3. ASSUME NEW m \in Outgoing, ClientSend(m) PROVE IInv'
  <2>1. /\ sendCh \in Seq(Outgoing) /\ tried \in Seq(Outgoing) /\ accepted \in Seq(Outgoing)
        /\ pub # "none" /\ m \notin Range(accepted)
        /\ sendCh' = Append(sendCh, m) /\ accepted' = Append(accepted, m)
        /\ UNCHANGED <<connVars, lock, errs, stop, pub, tried, promised, serverVars, subVars>>
    BY <1>3 DEF ClientSend, TypeOK
  <2>2. /\ sendCh' \in Seq(Outgoing) /\ accepted' \in Seq(Outgoing)
        /\ Len(accepted') = Len(accepted) + 1
    BY <2>1, AppendProperties
  <2>3. \A s, t \in Seq(Outgoing) : s \o Append(t, m) = Append(s \o t, m)
    BY AppendToLast
  <2>4. tried \o Append(sendCh, m) = Append(tried \o sendCh, m)
    BY <2>1, <2>3, Zenon
  <2>5. TypeOK'
    <3>1. {sendCh, accepted, tried}' \subseteq Seq(Outgoing)
      BY <2>1, <2>2
    <3> QED  BY <2>1, <3>1 DEF TypeOK, connVars, serverVars, subVars
  <2>6. Published'
    <3>1. tried \o sendCh = accepted /\ promised <= Len(accepted)
      BY DEF Published
    <3>2. tried' \o sendCh' = accepted'
      BY <2>1, <2>4, <3>1
    <3>3. Len(accepted) \in Nat /\ promised \in Nat
      BY <2>1, LenProperties DEF TypeOK
    <3>4. promised' <= Len(accepted')
      BY <2>1, <2>2, <3>1, <3>3
    <3> QED  BY <2>1, <3>2, <3>4 DEF Published, connVars
  <2>7. Distinct(accepted')
    BY <2>1, DistinctAppend DEF Popped
  <2>8. Popped'
    BY <2>1, <2>7 DEF Popped, PoppedOnce, serverVars, subVars
  <2> QED  BY <2>5, <2>6, <2>8
<1> QED  BY <1>1, <1>2, <1>3

(* Stop closes the client only when the publisher does not use it any more. *)
LEMMA StepStop ==
  ASSUME IInv, CallStop \/ StopEnds \/ ServerChanges
  PROVE  IInv'
<1> USE RedisAssumption DEF IInv
<1>1. CASE CallStop
  <2>1. Len(accepted) \in Nat
    BY LenProperties DEF TypeOK
  <2>2. TypeOK'
    BY <1>1, <2>1 DEF CallStop, TypeOK, connVars, serverVars, subVars
  <2>3. Published'
    BY <1>1, <2>1 DEF CallStop, Published, connVars
  <2> QED  BY <1>1, <2>2, <2>3, PoppedSame DEF CallStop, subVars
<1>2. CASE StopEnds
  <2>1. TypeOK'
    BY <1>2 DEF StopEnds, TypeOK, pubVars, serverVars, subVars
  <2>2. ASSUME drops = 0 PROVE promised <= Len(tried)
    <3>1. CASE pub = "exited"
      BY <2>2, <3>1 DEF Published
    <3>2. CASE pub = "none"
      <4>1. promised <= 0 /\ Len(tried) \in Nat
        BY <3>2, EmptySeq, LenProperties DEF Published, TypeOK
      <4> QED  BY <4>1 DEF TypeOK
    <3> QED  BY <1>2, <3>1, <3>2 DEF StopEnds, PublisherGone
  <2>3. Published'
    BY <1>2, <2>2 DEF StopEnds, PublisherGone, Published, pubVars
  <2> QED  BY <1>2, <2>1, <2>3, PoppedSame DEF StopEnds, pubVars, subVars
<1>3. CASE ServerChanges
  <2>1. TypeOK'
    BY <1>3 DEF ServerChanges, TypeOK, pubVars, serverVars, subVars
  <2>2. drops' = 0 => drops = 0 /\ up'
    BY <1>3 DEF ServerChanges, TypeOK, Published
  <2>3. Published'
    BY <1>3, <2>2 DEF ServerChanges, Published, pubVars
  <2> QED  BY <1>3, <2>1, <2>3, PoppedSame DEF ServerChanges, pubVars, subVars
<1> QED  BY <1>1, <1>2, <1>3

THEOREM Step == IInv /\ [Next]_vars => IInv'
<1> SUFFICES ASSUME IInv, [Next]_vars PROVE IInv'
  OBVIOUS
<1>1. CASE ReceiveOpens \/ SendOpens \/ OpenFails \/ OpenReports \/ DrainErr
  BY <1>1, StepOpens
<1>2. CASE Subscriber \/ ClientReceive
  BY <1>2, StepSubscriber, StepReceives
<1>3. CASE Publisher \/ \E m \in Outgoing : ClientSend(m)
  BY <1>3, StepTakes, StepPublishes DEF Publisher
<1>4. CASE CallStop \/ StopEnds \/ ServerChanges
  BY <1>4, StepStop
<1>5. CASE UNCHANGED vars
  <2>1. TypeOK'
    BY <1>5 DEF IInv, vars, connVars, pubVars, serverVars, subVars, TypeOK
  <2> QED  BY <1>5, <2>1, PublishedSame, PoppedSame DEF IInv, vars, connVars, pubVars, subVars
<1> QED  BY <1>1, <1>2, <1>3, <1>4, <1>5 DEF Next

THEOREM Inductive == Spec => []IInv
<1> QED  BY InitInv, Step, PTL DEF Spec

(* Every variable has its type, and the subscriber holds a message just while it
   delivers it. *)
THEOREM TypeCorrect == Spec => []TypeOK
<1>1. IInv => TypeOK
  BY DEF IInv
<1> QED  BY <1>1, Inductive, PTL

(* RPush is called once with each message, in order, whatever fails. *)
THEOREM OrderedTries == Spec => []TriedInOrder
<1>1. IInv => TriedInOrder
  BY DEF IInv, Published, TriedInOrder
<1> QED  BY <1>1, Inductive, PTL

(* Done is closed after the last message that was on the channel at Stop. *)
THEOREM DoneKeepsPromise == Spec => []DoneMeansTried
<1>1. IInv => DoneMeansTried
  <2> SUFFICES ASSUME IInv, stop = "done", drops = 0
               PROVE  Len(tried) >= promised
    BY DEF DoneMeansTried
  <2>1. promised <= Len(tried)
    BY DEF IInv, Published
  <2>2. Len(tried) \in Nat /\ promised \in Nat
    BY LenProperties DEF IInv, TypeOK
  <2> QED  BY <2>1, <2>2
<1> QED  BY <1>1, Inductive, PTL

(* A popped message is with this process, once. *)
THEOREM PopsOnce == Spec => []PoppedOnce
<1>1. IInv => PoppedOnce
  BY DEF IInv, Popped
<1> QED  BY <1>1, Inductive, PTL

----------------------------------------------------------------------------
(* While the server answers the sending half implements Outbox for its name:
   ClientSend is Accept, TakeMessage is Hand, CallStop is CallStop, and StopEnds
   is Stopped, or nothing if it panics. *)

LEMMA RefineInit == Init => Promise!Init
BY DEF Init, Promise!Init, Phase, ForTheName

LEMMA RefineTakes ==
  ASSUME IInv, TakeMessage
  PROVE  Promise!Next
<1>1. /\ sendCh \in Seq(Outgoing) /\ sendCh # <<>> /\ tried \in Seq(Outgoing)
      /\ tried \o sendCh = accepted
  BY DEF TakeMessage, IInv, TypeOK, Published
<1>2. \E k \in Len(tried) .. Len(accepted) :
        Append(tried, Head(sendCh)) = SubSeq(accepted, 1, k)
  <2>1. \E k \in Len(tried) .. Len(tried \o sendCh) :
          Append(tried, Head(sendCh)) = SubSeq(tried \o sendCh, 1, k)
    BY <1>1, NextPrefix
  <2> QED  BY <1>1, <2>1
<1>3. tried' = Append(tried, Head(sendCh)) /\ UNCHANGED <<accepted, promised, stop>>
  BY DEF TakeMessage
<1>4. Promise!Hand("name")
  BY <1>2, <1>3 DEF Phase, ForTheName, Promise!Hand
<1> QED  BY <1>4 DEF Promise!Next

LEMMA RefineStop ==
  ASSUME IInv, drops = 0, StopEnds
  PROVE  [Promise!Next]_(Promise!vars)
<1>1. stop = "closing" /\ UNCHANGED <<drops, pubVars>>
  BY DEF StopEnds
<1>2. CASE client = "nil"
  <2>1. stop' = "panicked"
    BY <1>2 DEF StopEnds
  <2> QED  BY <1>1, <2>1 DEF Phase, pubVars, Promise!vars
<1>3. CASE client # "nil"
  <2>1. stop' = "done"
    BY <1>3 DEF StopEnds
  <2>2. promised <= Len(tried)
    <3>1. IInv'
      BY StepStop
    <3> QED  BY <1>1, <2>1, <3>1 DEF IInv, Published, pubVars
  <2>3. Len(tried) >= promised
    BY <2>2, LenProperties DEF IInv, TypeOK
  <2>4. Promise!Stopped
    BY <1>1, <2>1, <2>3 DEF Phase, ForTheName, pubVars, Promise!Stopped
  <2> QED  BY <2>4 DEF Promise!Next
<1> QED  BY <1>2, <1>3

LEMMA RefineStep ==
  ASSUME IInv, drops = 0, [Next]_vars
  PROVE  [Promise!Next]_(Promise!vars)
<1> DEFINE Unseen == UNCHANGED <<accepted, tried, promised, stop>>
<1>1. Unseen => [Promise!Next]_(Promise!vars)
  BY DEF Promise!vars, Phase, ForTheName
<1>2. CASE UNCHANGED vars
  BY <1>1, <1>2 DEF vars, pubVars
<1>3. CASE \/ ReceiveOpens \/ SendOpens \/ OpenFails \/ OpenReports
           \/ ClientReceive \/ DrainErr \/ ServerChanges
  BY <1>1, <1>3
     DEF ReceiveOpens, SendOpens, OpenFails, OpenReports, ClientReceive, DrainErr,
         ServerChanges, pubVars
<1>4. CASE Subscriber
  BY <1>1, <1>4 DEF Subscriber, Pop, PopFails, ReportPopError, Deliver, pubVars
<1>5. CASE SeeStop \/ ReportPushError
  BY <1>1, <1>5 DEF SeeStop, ReportPushError
<1>6. CASE TakeMessage
  BY <1>6, RefineTakes
<1>7. ASSUME NEW m \in Outgoing, ClientSend(m)
      PROVE  [Promise!Next]_(Promise!vars)
  <2>1. accepted' = Append(accepted, m) /\ UNCHANGED <<tried, promised, stop>>
    BY <1>7 DEF ClientSend
  <2>2. Promise!Accept("name", m)
    BY <2>1 DEF Phase, ForTheName, Promise!Accept
  <2> QED  BY <2>2 DEF Promise!Next
<1>8. CASE CallStop
  <2>1. /\ stop = "no" /\ stop' = "closing" /\ promised' = Len(accepted)
        /\ UNCHANGED <<accepted, tried>>
    BY <1>8 DEF CallStop
  <2>2. Promise!CallStop
    BY <2>1 DEF Phase, ForTheName, Promise!CallStop
  <2> QED  BY <2>2 DEF Promise!Next
<1>9. CASE StopEnds
  BY <1>9, RefineStop
<1> QED
  BY <1>2, <1>3, <1>4, <1>5, <1>6, <1>7, <1>8, <1>9 DEF Next, Publisher

(* The publisher and Stop keep the promise of Outbox until the server ceases to
   answer. *)
THEOREM Refinement == Spec => ImplementsOutbox
<1>1. IInv /\ [Next]_vars => (drops = 0 => [Promise!Next]_(Promise!vars))
  BY RefineStep
<1> QED
  BY <1>1, RefineInit, Inductive, PTL DEF Spec, ImplementsOutbox

(* With a server that always answers they implement it. *)
COROLLARY ConnectedRefinement == Spec /\ [](drops = 0) => Promise!Spec
<1>1. UNCHANGED vars => UNCHANGED Promise!vars
  BY DEF vars, pubVars, Promise!vars, Phase, ForTheName
<1> QED
  BY <1>1, Refinement, PTL DEF ImplementsOutbox, Promise!Spec
=============================================================================
