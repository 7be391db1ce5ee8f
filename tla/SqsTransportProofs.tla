------------------------- MODULE SqsTransportProofs -------------------------
(* Safety of Transport's sending half, for every set of names, messages,
   channel capacity and batch size. *)
EXTENDS SqsTransport, SqsReceiveProofs, ChannelLemmas, FiniteSetTheorems, TLAPS

LEMMA BatchSizeType == BatchSize \in Nat /\ BatchSize <= MaxBatch
BY SqsTransportAssumption DEF BatchSize

(* A returning call, whatever its outcome, stores entries of its batch and has
   a natural number of errors to report, none only if it stored them all. *)
LEMMA CallOutcome ==
  ASSUME TypeOK, NEW n \in Names, CallFails(n) \/ CallSucceeds(n)
  PROVE  \E S \in SUBSET Range(calling[n]), k \in Nat :
           CallReturns(n, S, k) /\ (k = 0 => S = Range(calling[n]))
<1>1. CASE CallFails(n)
  BY <1>1 DEF CallFails
<1>2. CASE CallSucceeds(n)
  <2>1. PICK Failed \in SUBSET DOMAIN calling[n] :
          CallReturns(n, {calling[n][i] : i \in DOMAIN calling[n] \ Failed}, Cardinality(Failed))
    BY <1>2 DEF CallSucceeds
  <2>2. IsFiniteSet(Failed) /\ Cardinality(Failed) \in Nat
    BY FailedCount DEF TypeOK
  <2>3. {calling[n][i] : i \in DOMAIN calling[n] \ Failed} \subseteq Range(calling[n])
    BY DEF Range
  <2>4. Cardinality(Failed) = 0 =>
          {calling[n][i] : i \in DOMAIN calling[n] \ Failed} = Range(calling[n])
    <3>1. Cardinality(Failed) = 0 => Failed = {}
      BY <2>2, FS_EmptySet
    <3> QED  BY <3>1 DEF Range
  <2> QED  BY <2>1, <2>2, <2>3, <2>4
<1> QED  BY <1>1, <1>2

LEMMA InitType == Init => TypeOK
BY ReceiveInitType, EmptySeq, SqsReceiveAssumption DEF Init, TypeOK, PubStates

(* Every step keeps every variable in its type. *)
LEMMA StepType == TypeOK /\ [Next]_vars => TypeOK'
<1> SUFFICES ASSUME TypeOK, [Next]_vars PROVE TypeOK'
  OBVIOUS
<1> USE SqsReceiveAssumption, SqsTransportAssumption
<1>1. CASE UNCHANGED vars
  BY <1>1 DEF vars, sendVars, receiveVars, subVars, serviceVars, TypeOK, ReceiveTypeOK
<1>2. CASE ReceiveNext /\ UNCHANGED sendVars
  <2>1. ReceiveTypeOK'
    BY <1>2, ReceiveStepType DEF TypeOK
  <2> QED  BY <1>2, <2>1 DEF TypeOK, sendVars
<1>3. CASE SendReports
  <2>1. errChan' \in Seq(Names) /\ Len(errChan') <= ErrCap
    BY <1>3, PutErrorType DEF SendReports, TypeOK
  <2> QED  BY <1>3, <2>1 DEF SendReports, TypeOK, ReceiveTypeOK, subVars, serviceVars
<1>4. CASE Stop
  <2>1. ASSUME NEW n \in Names PROVE Len(accepted[n]) \in Nat
    BY LenProperties DEF TypeOK
  <2>2. CASE ClosePubChan
    BY <2>1, <2>2 DEF ClosePubChan, TypeOK, ReceiveTypeOK, subVars, serviceVars
  <2>3. CASE CallStop \/ CloseDone
    BY <2>3, ZenonT(60)
       DEF CallStop, CloseDone, PublishersGone, TypeOK, ReceiveTypeOK, sendVars, subVars,
           serviceVars
  <2> QED  BY <1>4, <2>2, <2>3 DEF Stop
<1>5. ASSUME NEW n \in Names, SendOpens(n) \/ SendFails(n) PROVE TypeOK'
  <2>1. ReceiveTypeOK'
    BY <1>5 DEF SendOpens, SendFails, TypeOK, ReceiveTypeOK, receiveVars, subVars, serviceVars
  <2>2. CASE SendOpens(n)
    BY <2>1, <2>2 DEF SendOpens, PubGoes, TypeOK, PubStates
  <2>3. CASE SendFails(n)
    BY <2>1, <2>3 DEF SendFails, TypeOK
  <2> QED  BY <1>5, <2>2, <2>3
<1>6. ASSUME NEW n \in Names, NEW m \in Outgoing, ClientSend(n, m) PROVE TypeOK'
  <2>1. /\ Append(sendCh[n], m) \in Seq(Messages)
        /\ Len(Append(sendCh[n], m)) = Len(sendCh[n]) + 1
        /\ Append(accepted[n], m) \in Seq(Messages)
    BY AppendProperties DEF TypeOK
  <2>2. Len(sendCh[n]) \in Nat
    BY LenProperties DEF TypeOK
  <2>3. /\ sendCh' \in [Names -> Seq(Messages)]
        /\ \A q \in Names : Len(sendCh'[q]) <= ChanCap
        /\ accepted' \in [Names -> Seq(Messages)]
    BY <1>6, <2>1, <2>2, SMTT(30) DEF ClientSend, TypeOK
  <2> QED
    BY <1>6, <2>3 DEF ClientSend, TypeOK, ReceiveTypeOK, receiveVars, subVars, serviceVars
<1>7. ASSUME NEW n \in Names, SeeStop(n) \/ BatchTimeout(n) PROVE TypeOK'
  <2>1. /\ pub' \in [Names -> PubStates]
        /\ \A q \in Names : pub'[q] \in {"report", "finalReport"} <=>
                            pub[q] \in {"report", "finalReport"}
    <3>1. PICK to \in {"call", "final", "exited"} :
            pub[n] = "select" /\ pub' = [pub EXCEPT ![n] = to]
      BY <1>7 DEF SeeStop, MayLeave, BatchTimeout, TimerSends, StartCall, PubGoes
    <3> QED  BY <3>1 DEF TypeOK, PubStates
  <2>2. accum' \in [Names -> Seq(Messages)] /\ calling' \in [Names -> Seq(Messages)]
    <3>1. /\ accum' = [accum EXCEPT ![n] = <<>>]
          /\ calling' = [calling EXCEPT ![n] = accum[n]]
      BY <1>7 DEF SeeStop, MayLeave, BatchTimeout, TimerSends, StartCall
    <3>2. <<>> \in Seq(Messages)
      BY EmptySeq
    <3> QED  BY <3>1, <3>2 DEF TypeOK
  <2> QED
    BY <1>7, <2>1, <2>2, ZenonT(60)
       DEF SeeStop, MayLeave, BatchTimeout, TimerSends, StartCall, TypeOK, ReceiveTypeOK,
           receiveVars, subVars, serviceVars
<1>8. ASSUME NEW n \in Names, TakeMessage(n) PROVE TypeOK'
  <2>1. /\ Head(sendCh[n]) \in Messages
        /\ Tail(sendCh[n]) \in Seq(Messages)
        /\ Len(Tail(sendCh[n])) = Len(sendCh[n]) - 1
    BY <1>8, HeadTailProperties DEF TakeMessage, MessageReady, StartCall, TypeOK
  <2>2. Append(accum[n], Head(sendCh[n])) \in Seq(Messages)
    BY <2>1, AppendProperties DEF TypeOK
  <2>3. Len(sendCh[n]) \in Nat
    BY LenProperties DEF TypeOK
  <2>4. /\ accum' \in [Names -> Seq(Messages)]
        /\ calling' \in [Names -> Seq(Messages)]
        /\ pub' \in [Names -> PubStates]
        /\ \A q \in Names : pub'[q] \in {"report", "finalReport"} <=>
                            pub[q] \in {"report", "finalReport"}
    <3>1. CASE /\ accum' = [accum EXCEPT ![n] = Append(accum[n], Head(sendCh[n]))]
               /\ UNCHANGED <<pub, calling>>
      BY <2>2, <3>1 DEF TypeOK
    <3>2. CASE /\ accum' = [accum EXCEPT ![n] = <<>>]
               /\ calling' = [calling EXCEPT ![n] = Append(accum[n], Head(sendCh[n]))]
               /\ pub' = [pub EXCEPT ![n] = "call"]
      <4>1. <<>> \in Seq(Messages)
        BY EmptySeq
      <4>2. accum' \in [Names -> Seq(Messages)] /\ calling' \in [Names -> Seq(Messages)]
        BY <2>2, <3>2, <4>1 DEF TypeOK
      <4>3. pub[n] = "select"
        BY <1>8 DEF TakeMessage, MessageReady, StartCall
      <4> QED  BY <3>2, <4>2, <4>3 DEF TypeOK, PubStates
    <3> QED  BY <1>8, <3>1, <3>2 DEF TakeMessage, MessageReady, StartCall
  <2>5. sendCh' \in [Names -> Seq(Messages)] /\ \A q \in Names : Len(sendCh'[q]) <= ChanCap
    BY <1>8, <2>1, <2>3, SMTT(30) DEF TakeMessage, MessageReady, StartCall, TypeOK
  <2> QED
    BY <1>8, <2>4, <2>5
       DEF TakeMessage, MessageReady, StartCall, TypeOK, ReceiveTypeOK, receiveVars, subVars,
           serviceVars
<1>9. ASSUME NEW n \in Names, CallFails(n) \/ CallSucceeds(n) PROVE TypeOK'
  <2>1. PICK S \in SUBSET Range(calling[n]), k \in Nat : CallReturns(n, S, k)
    BY <1>9, CallOutcome
  <2>2. S \subseteq Messages
    BY RangeOfSeq DEF TypeOK
  <2>3. handed[n] \o calling[n] \in Seq(Messages)
    BY ConcatProperties DEF TypeOK
  <2>4. /\ pub' \in [Names -> PubStates]
        /\ errsDue' \in [Names -> Nat]
        /\ \A q \in Names : errsDue'[q] > 0 <=> pub'[q] \in {"report", "finalReport"}
    BY <2>1, SMTT(30) DEF CallReturns, TypeOK, PubStates
  <2>5. stored' \in [Names -> SUBSET Messages] /\ visible' \in [Names -> SUBSET Messages]
    BY <2>1, <2>2 DEF CallReturns, TypeOK, ReceiveTypeOK
  <2> QED
    BY <2>1, <2>3, <2>4, <2>5, EmptySeq DEF CallReturns, TypeOK, ReceiveTypeOK, subVars
<1>10. ASSUME NEW n \in Names, ReportSendError(n) PROVE TypeOK'
  <2>1. errChan' \in Seq(Names) /\ Len(errChan') <= ErrCap
    BY <1>10, PutErrorType DEF ReportSendError, MoreToReport, TypeOK
  <2>2. /\ pub' \in [Names -> PubStates]
        /\ errsDue' \in [Names -> Nat]
        /\ \A q \in Names : errsDue'[q] > 0 <=> pub'[q] \in {"report", "finalReport"}
    BY <1>10, SMTT(30) DEF ReportSendError, MoreToReport, TypeOK, PubStates
  <2> QED
    BY <1>10, <2>1, <2>2
       DEF ReportSendError, MoreToReport, TypeOK, ReceiveTypeOK, subVars, serviceVars
<1> QED
  BY <1>1, <1>2, <1>3, <1>4, <1>5, <1>6, <1>7, <1>8, <1>9, <1>10 DEF Next, SendNext, Publisher

(* Type correctness: in particular errsDue never goes below zero, neither
   channel runs over its capacity, and a publisher is blocked on errChan just
   while it has errors to report. *)
THEOREM TypeCorrect == Spec => []TypeOK
BY InitType, StepType, PTL DEF Spec

----------------------------------------------------------------------------
(* The order of messages, and what Stop waits for.  Both are proved name by
   name: a name's part of the invariant depends on that name's variables and
   on stop. *)

Local(n) == Flushes(n) /\ InFlight(n) = accepted[n]

LEMMA InitLocal ==
  ASSUME Init, NEW n \in Names
  PROVE  Local(n)
<1>1. handed[n] = <<>> /\ calling[n] = <<>> /\ accum[n] = <<>> /\ sendCh[n] = <<>>
      /\ accepted[n] = <<>> /\ promised[n] = 0 /\ pub[n] = "none" /\ stop = "no"
  BY DEF Init, ReceiveInit
<1>2. <<>> \in Seq(Messages) /\ Len(<<>>) = 0
  BY EmptySeq
<1>3. InFlight(n) = <<>>
  BY <1>1, <1>2, ConcatEmptySeq DEF InFlight
<1> QED  BY <1>1, <1>2, <1>3 DEF Local, Flushes

(* What a name's part of the invariant depends on. *)
Parts(n) == <<pub[n], sendCh[n], accum[n], calling[n], accepted[n], handed[n], promised[n]>>

LEMMA LocalUnchanged ==
  ASSUME NEW n, Local(n), UNCHANGED Parts(n), UNCHANGED stop
  PROVE  Local(n)'
BY DEF Local, Flushes, InFlight, Parts

(* The types of what a name's part of the invariant depends on. *)
LEMMA PartTypes ==
  ASSUME TypeOK, NEW n \in Names
  PROVE  /\ handed[n] \in Seq(Messages) /\ calling[n] \in Seq(Messages)
         /\ accum[n] \in Seq(Messages) /\ sendCh[n] \in Seq(Messages)
         /\ accepted[n] \in Seq(Messages) /\ promised[n] \in Nat /\ pub[n] \in PubStates
         /\ Len(handed[n]) \in Nat /\ Len(calling[n]) \in Nat /\ Len(accum[n]) \in Nat
         /\ Len(sendCh[n]) \in Nat /\ Len(accepted[n]) \in Nat
BY LenProperties DEF TypeOK

(* The pipeline of name n when its channel gets or gives a message, or its
   batch goes into a call. *)
LEMMA PutOrder ==
  ASSUME NEW n, NEW m \in Messages,
         handed[n] \in Seq(Messages), calling[n] \in Seq(Messages),
         accum[n] \in Seq(Messages), sendCh[n] \in Seq(Messages)
  PROVE  ((handed[n] \o calling[n]) \o accum[n]) \o Append(sendCh[n], m) = Append(InFlight(n), m)
<1> DEFINE front == (handed[n] \o calling[n]) \o accum[n]
<1>1. front \in Seq(Messages)
  <2>1. handed[n] \o calling[n] \in Seq(Messages)
    BY ConcatProperties
  <2> QED  BY <2>1, ConcatProperties
<1> HIDE DEF front
<1>2. front \o Append(sendCh[n], m) = Append(front \o sendCh[n], m)
  BY <1>1, AppendToLast
<1> QED  BY <1>2 DEF InFlight, front

LEMMA TakeOrder ==
  ASSUME NEW n, sendCh[n] # <<>>,
         handed[n] \in Seq(Messages), calling[n] \in Seq(Messages),
         accum[n] \in Seq(Messages), sendCh[n] \in Seq(Messages)
  PROVE  ((handed[n] \o calling[n]) \o Append(accum[n], Head(sendCh[n]))) \o Tail(sendCh[n])
           = InFlight(n)
<1> DEFINE front == handed[n] \o calling[n]
           a == accum[n]
           s == sendCh[n]
<1>1. front \in Seq(Messages) /\ a \in Seq(Messages) /\ s \in Seq(Messages) /\ s # <<>>
  BY ConcatProperties
<1> HIDE DEF front, a, s
<1>2. front \o a \in Seq(Messages) /\ Head(s) \in Messages
  BY <1>1, ConcatProperties, HeadTailProperties
<1>3. front \o Append(a, Head(s)) = Append(front \o a, Head(s))
  BY <1>1, <1>2, AppendToLast
<1>4. Append(front \o a, Head(s)) \o Tail(s) = (front \o a) \o s
  BY <1>1, <1>2, MoveHead
<1> QED  BY <1>3, <1>4 DEF InFlight, front, a, s

LEMMA CallOrder ==
  ASSUME NEW n, calling[n] = <<>>,
         handed[n] \in Seq(Messages), accum[n] \in Seq(Messages), sendCh[n] \in Seq(Messages)
  PROVE  ((handed[n] \o accum[n]) \o <<>>) \o sendCh[n] = InFlight(n)
<1>1. ((handed[n] \o accum[n]) \o <<>>) \o sendCh[n]
        = ((handed[n] \o <<>>) \o accum[n]) \o sendCh[n]
  BY PipelineCall
<1> QED  BY <1>1 DEF InFlight

LEMMA TakeCallOrder ==
  ASSUME NEW n, sendCh[n] # <<>>, calling[n] = <<>>,
         handed[n] \in Seq(Messages), accum[n] \in Seq(Messages), sendCh[n] \in Seq(Messages)
  PROVE  ((handed[n] \o Append(accum[n], Head(sendCh[n]))) \o <<>>) \o Tail(sendCh[n]) = InFlight(n)
<1> DEFINE h == handed[n]
           b == Append(accum[n], Head(sendCh[n]))
<1>1. h \in Seq(Messages) /\ b \in Seq(Messages)
  BY HeadTailProperties, AppendProperties
<1>2. <<>> \in Seq(Messages)
  BY EmptySeq
<1>3. ((h \o <<>>) \o b) \o Tail(sendCh[n]) = InFlight(n)
  BY <1>2, TakeOrder
<1> HIDE DEF h, b
<1>4. h \o <<>> = h /\ h \o b \in Seq(Messages)
  BY <1>1, ConcatEmptySeq, ConcatProperties
<1>5. (h \o b) \o <<>> = h \o b
  BY <1>4, ConcatEmptySeq
<1> QED  BY <1>3, <1>4, <1>5 DEF h, b

LEMMA ReturnOrder ==
  ASSUME NEW n, handed[n] \in Seq(Messages), calling[n] \in Seq(Messages),
         accum[n] \in Seq(Messages), sendCh[n] \in Seq(Messages)
  PROVE  (((handed[n] \o calling[n]) \o <<>>) \o accum[n]) \o sendCh[n] = InFlight(n)
BY PipelineReturn DEF InFlight

LEMMA InFlightLength ==
  ASSUME NEW n, handed[n] \in Seq(Messages), calling[n] \in Seq(Messages),
         accum[n] \in Seq(Messages), sendCh[n] \in Seq(Messages)
  PROVE  /\ InFlight(n) \in Seq(Messages)
         /\ Len(InFlight(n)) = Len(handed[n]) + Len(calling[n]) + Len(accum[n]) + Len(sendCh[n])
BY PipelineLength DEF InFlight

----------------------------------------------------------------------------
(* A client appends to the channel and to what was accepted. *)
LEMMA LocalClientSend ==
  ASSUME TypeOK, NEW n \in Names, NEW m \in Outgoing, Local(n), ClientSend(n, m)
  PROVE  Local(n)'
<1>1. /\ sendCh'[n] = Append(sendCh[n], m) /\ accepted'[n] = Append(accepted[n], m)
      /\ pub[n] # "none" /\ stop' = stop
      /\ pub' = pub /\ accum' = accum /\ calling' = calling /\ handed' = handed
      /\ promised' = promised
  BY DEF ClientSend, receiveVars, TypeOK
<1>2. InFlight(n)' = Append(InFlight(n), m)
  <2>1. ((handed[n] \o calling[n]) \o accum[n]) \o Append(sendCh[n], m) = Append(InFlight(n), m)
    BY PartTypes, PutOrder, SqsTransportAssumption
  <2> QED  BY <1>1, <2>1 DEF InFlight
<1>3. Flushes(n)'
  <2>1. Len(accepted'[n]) = Len(accepted[n]) + 1
    BY <1>1, PartTypes, AppendProperties, SqsTransportAssumption
  <2>2. promised'[n] <= Len(accepted'[n])
    BY <1>1, <2>1, PartTypes DEF Local, Flushes
  <2> QED  BY <1>1, <2>2 DEF Local, Flushes
<1> QED  BY <1>1, <1>2, <1>3 DEF Local

(* A message moves from the channel to the batch, which may then be full. *)
LEMMA LocalTakeMessage ==
  ASSUME TypeOK, NEW n \in Names, Local(n), TakeMessage(n)
  PROVE  Local(n)'
<1> DEFINE batch == Append(accum[n], Head(sendCh[n]))
<1>1. /\ sendCh[n] # <<>> /\ sendCh'[n] = Tail(sendCh[n])
      /\ pub[n] = "select" /\ calling[n] = <<>> /\ stop' = stop
      /\ handed' = handed /\ accepted' = accepted /\ promised' = promised
  BY DEF TakeMessage, MessageReady, StartCall, receiveVars, TypeOK, Local, Flushes
<1>2. \/ accum'[n] = batch /\ calling'[n] = calling[n] /\ pub'[n] = "select"
      \/ accum'[n] = <<>> /\ calling'[n] = batch /\ pub'[n] = "call"
  BY DEF TakeMessage, MessageReady, StartCall, TypeOK
<1>3. InFlight(n)' = InFlight(n)
  <2>1. ((handed[n] \o calling[n]) \o batch) \o Tail(sendCh[n]) = InFlight(n)
    BY <1>1, PartTypes, TakeOrder
  <2>2. ((handed[n] \o batch) \o <<>>) \o Tail(sendCh[n]) = InFlight(n)
    BY <1>1, PartTypes, TakeCallOrder
  <2> HIDE DEF batch
  <2> QED  BY <1>1, <1>2, <2>1, <2>2 DEF InFlight
<1> HIDE DEF batch
<1>4. Flushes(n)'
  BY <1>1, <1>2 DEF Local, Flushes
<1> QED  BY <1>1, <1>3, <1>4 DEF Local

(* The batch goes into a call, on the timer or because of Stop.  When the
   publisher leaves, its channel is empty, so that the call carries the last
   of what was accepted. *)
LEMMA LocalCallStarts ==
  ASSUME TypeOK, NEW n \in Names, Local(n), SeeStop(n) \/ BatchTimeout(n)
  PROVE  Local(n)'
<1>1. /\ accum'[n] = <<>> /\ calling'[n] = accum[n] /\ pub[n] = "select"
      /\ stop' = stop /\ sendCh' = sendCh /\ handed' = handed /\ accepted' = accepted
      /\ promised' = promised
  BY DEF SeeStop, MayLeave, BatchTimeout, TimerSends, StartCall, PubGoes, receiveVars, TypeOK
<1>2. calling[n] = <<>>
  BY <1>1 DEF Local, Flushes
<1>3. InFlight(n)' = InFlight(n)
  <2>1. ((handed[n] \o accum[n]) \o <<>>) \o sendCh[n] = InFlight(n)
    BY <1>2, PartTypes, CallOrder
  <2> QED  BY <1>1, <2>1 DEF InFlight
<1>4. \/ pub'[n] = "call"
      \/ pub'[n] = "final" /\ stop \in {"pub", "done"} /\ sendCh[n] = <<>>
      \/ /\ pub'[n] = "exited" /\ stop \in {"pub", "done"}
         /\ sendCh[n] = <<>> /\ accum[n] = <<>>
  BY DEF SeeStop, MayLeave, BatchTimeout, TimerSends, StartCall, PubGoes, TypeOK
<1>5. sendCh[n] = <<>> => promised[n] <= Len(handed[n]) + Len(accum[n])
  <2>1. Len(<<>>) = 0
    BY EmptySeq
  <2>2. Len(accepted[n]) = Len(handed[n]) + Len(calling[n]) + Len(accum[n]) + Len(sendCh[n])
    BY PartTypes, InFlightLength DEF Local
  <2>3. promised[n] <= Len(accepted[n])
    BY DEF Local, Flushes
  <2>4. /\ promised[n] \in Nat /\ Len(handed[n]) \in Nat /\ Len(accum[n]) \in Nat
        /\ Len(sendCh[n]) \in Nat /\ Len(accepted[n]) \in Nat /\ Len(calling[n]) = 0
    BY <1>2, <2>1, PartTypes
  <2> SUFFICES ASSUME Len(sendCh[n]) = 0 PROVE promised[n] <= Len(handed[n]) + Len(accum[n])
    BY <2>1
  <2> DEFINE h == Len(handed[n])  c == Len(calling[n])  a == Len(accum[n])
             s == Len(sendCh[n])  l == Len(accepted[n])
  <2>5. l = h + c + a + s /\ c = 0 /\ s = 0 /\ promised[n] <= l
    BY <2>2, <2>3, <2>4
  <2>6. promised[n] \in Nat /\ h \in Nat /\ a \in Nat
    BY <2>4
  <2> HIDE DEF h, c, a, s, l
  <2>7. promised[n] <= h + a
    BY <2>5, <2>6
  <2> QED  BY <2>7 DEF h, a
<1>6. Flushes(n)'
  <2>1. pub'[n] \in {"final", "exited"} =>
          stop' \in {"pub", "done"} /\ promised'[n] <= Len(handed'[n]) + Len(calling'[n])
    BY <1>1, <1>4, <1>5
  <2>2. accum'[n] = <<>> /\ (calling'[n] # <<>> => pub'[n] \in {"call", "final"})
    BY <1>1, <1>4
  <2>3. pub'[n] \notin {"none", "finalReport"}
    BY <1>4
  <2>4. /\ promised[n] <= Len(accepted[n])
        /\ stop = "done" => promised[n] <= Len(handed[n])
    BY DEF Local, Flushes
  <2> QED  BY <1>1, <2>1, <2>2, <2>3, <2>4 DEF Flushes
<1> QED  BY <1>1, <1>3, <1>6 DEF Local

(* The call returns: its entries are handed over. *)
LEMMA LocalCallReturns ==
  ASSUME TypeOK, NEW n \in Names, Local(n), CallFails(n) \/ CallSucceeds(n)
  PROVE  /\ Local(n)'
         /\ accepted' = accepted /\ promised' = promised /\ stop' = stop
         /\ handed' = [handed EXCEPT ![n] = handed[n] \o calling[n]]
<1>1. PICK S \in SUBSET Range(calling[n]), k \in Nat : CallReturns(n, S, k)
  BY CallOutcome
<1>2. /\ handed' = [handed EXCEPT ![n] = handed[n] \o calling[n]] /\ stop' = stop
      /\ accepted' = accepted /\ promised' = promised /\ accum' = accum /\ sendCh' = sendCh
  BY <1>1 DEF CallReturns
<1>3. /\ handed'[n] = handed[n] \o calling[n] /\ calling'[n] = <<>>
      /\ pub[n] \in {"call", "final"}
  BY <1>1 DEF CallReturns, TypeOK
<1>4. \/ pub[n] = "call" /\ pub'[n] \in {"select", "report"}
      \/ pub[n] = "final" /\ pub'[n] \in {"exited", "finalReport"}
  BY <1>1 DEF CallReturns, TypeOK
<1>5. InFlight(n)' = InFlight(n)
  <2>1. (((handed[n] \o calling[n]) \o <<>>) \o accum[n]) \o sendCh[n] = InFlight(n)
    BY PartTypes, ReturnOrder
  <2> QED  BY <1>2, <1>3, <2>1 DEF InFlight
<1>6. Flushes(n)'
  <2>1. /\ promised[n] <= Len(accepted[n])
        /\ stop = "done" => promised[n] <= Len(handed[n])
        /\ accum[n] = <<>>
        /\ pub[n] = "final" =>
             stop \in {"pub", "done"} /\ promised[n] <= Len(handed[n]) + Len(calling[n])
    BY <1>3 DEF Local, Flushes
  <2>2. Len(handed'[n]) = Len(handed[n]) + Len(calling[n]) /\ Len(calling'[n]) = 0
    BY <1>3, PartTypes, ConcatProperties, EmptySeq
  <2>3. promised[n] \in Nat /\ Len(handed[n]) \in Nat /\ Len(calling[n]) \in Nat
    BY PartTypes
  <2>4. stop' = "done" => promised'[n] <= Len(handed'[n])
    BY <1>2, <2>1, <2>2, <2>3
  <2>5. pub'[n] \in {"final", "finalReport", "exited"} =>
          stop' \in {"pub", "done"} /\ promised'[n] <= Len(handed'[n]) + Len(calling'[n])
    <3>1. CASE pub[n] = "call"
      BY <1>4, <3>1
    <3>2. CASE pub[n] = "final"
      <4>1. stop \in {"pub", "done"} /\ promised[n] <= Len(handed[n]) + Len(calling[n])
        BY <2>1, <3>2
      <4>2. promised'[n] = promised[n]
        BY <1>2
      <4> DEFINE h == Len(handed'[n])  c == Len(calling'[n])
                 h0 == Len(handed[n])  c0 == Len(calling[n])
      <4>3. promised'[n] <= h + c
        <5>1. c = 0 /\ h = h0 + c0
          BY <2>2
        <5>2. promised[n] <= h0 + c0
          BY <4>1
        <5>3. promised[n] \in Nat /\ h0 \in Nat /\ c0 \in Nat
          BY <2>3
        <5> HIDE DEF h, c, h0, c0
        <5> QED  BY <4>2, <5>1, <5>2, <5>3
      <4> QED  BY <1>2, <4>1, <4>3
    <3> QED  BY <1>4, <3>1, <3>2
  <2>6. pub'[n] # "none" /\ accum'[n] = <<>> /\ calling'[n] = <<>>
    BY <1>2, <1>3, <1>4, <2>1
  <2> QED  BY <1>2, <2>1, <2>4, <2>5, <2>6 DEF Flushes
<1> QED  BY <1>2, <1>5, <1>6 DEF Local

(* The publisher starts, or puts an error on errChan. *)
LEMMA LocalOther ==
  ASSUME TypeOK, NEW n \in Names, Local(n), SendOpens(n) \/ ReportSendError(n)
  PROVE  Local(n)'
<1>1. /\ stop' = stop /\ sendCh' = sendCh /\ handed' = handed /\ accepted' = accepted
      /\ promised' = promised /\ accum' = accum /\ calling' = calling
  BY DEF SendOpens, ReportSendError, MoreToReport, receiveVars
<1>2. \/ pub[n] = "none" /\ pub'[n] = "select"
      \/ pub[n] \in {"report", "finalReport"} /\ pub'[n] = pub[n]
      \/ pub[n] = "report" /\ pub'[n] = "select"
      \/ pub[n] = "finalReport" /\ pub'[n] = "exited"
  BY DEF SendOpens, ReportSendError, MoreToReport, PubGoes, TypeOK
<1>3. Flushes(n)'
  BY <1>1, <1>2 DEF Local, Flushes
<1> QED  BY <1>1, <1>3 DEF Local, InFlight

(* Stop: what is promised is what has been accepted, and wg.Wait() returns
   only when every publisher is done with it. *)
LEMMA LocalStop ==
  ASSUME TypeOK, NEW n \in Names, Local(n), Stop
  PROVE  Local(n)'
<1>1. /\ sendCh' = sendCh /\ handed' = handed /\ accepted' = accepted /\ pub' = pub
      /\ accum' = accum /\ calling' = calling
  BY DEF Stop, CallStop, ClosePubChan, CloseDone, PublishersGone, sendVars
<1>2. CASE CallStop
  BY <1>1, <1>2 DEF CallStop, Local, Flushes, InFlight, sendVars
<1>3. CASE ClosePubChan
  <2>1. promised'[n] = Len(accepted[n]) /\ stop = "sub" /\ stop' = "pub"
    BY <1>3 DEF ClosePubChan
  <2>2. pub[n] \notin {"final", "finalReport", "exited"}
    BY <2>1 DEF Local, Flushes
  <2>3. promised'[n] <= Len(accepted'[n])
    BY <1>1, <2>1, PartTypes
  <2>4. Flushes(n)'
    BY <1>1, <2>1, <2>2, <2>3 DEF Local, Flushes
  <2> QED  BY <1>1, <2>4 DEF Local, InFlight
<1>4. CASE CloseDone
  <2>1. promised' = promised /\ stop' = "done" /\ pub[n] \in {"none", "exited"}
    BY <1>4 DEF CloseDone, PublishersGone, sendVars
  <2>2. promised[n] <= Len(handed[n])
    <3>1. CASE pub[n] = "none"
      BY <3>1, PartTypes, EmptySeq DEF Local, Flushes
    <3>2. CASE pub[n] = "exited"
      <4>1. calling[n] = <<>> /\ promised[n] <= Len(handed[n]) + Len(calling[n])
        BY <3>2 DEF Local, Flushes
      <4> QED  BY <4>1, PartTypes, EmptySeq
    <3> QED  BY <2>1, <3>1, <3>2
  <2>3. Flushes(n)'
    BY <1>1, <2>1, <2>2 DEF Local, Flushes
  <2> QED  BY <1>1, <2>3 DEF Local, InFlight
<1> QED  BY <1>2, <1>3, <1>4 DEF Stop

(* Steps of other names, and of the receiving half, leave a name's part alone. *)
LEMMA PartsElsewhere ==
  ASSUME TypeOK, NEW n \in Names, NEW q \in Names \ {n},
         \/ SendOpens(n) \/ Publisher(n)
         \/ \E m \in Outgoing : ClientSend(n, m)
  PROVE  UNCHANGED Parts(q) /\ stop' = stop
<1>1. CASE SendOpens(n)
  BY <1>1 DEF SendOpens, PubGoes, receiveVars, TypeOK, Parts
<1>2. CASE SeeStop(n) \/ BatchTimeout(n)
  BY <1>2
     DEF SeeStop, MayLeave, BatchTimeout, TimerSends, StartCall, PubGoes, receiveVars, TypeOK,
         Parts
<1>3. CASE TakeMessage(n)
  <2>1. /\ sendCh' = [sendCh EXCEPT ![n] = Tail(@)] /\ stop' = stop
        /\ handed' = handed /\ accepted' = accepted /\ promised' = promised
    BY <1>3 DEF TakeMessage, MessageReady, StartCall, receiveVars
  <2>2. accum'[q] = accum[q] /\ calling'[q] = calling[q] /\ pub'[q] = pub[q]
    BY <1>3 DEF TakeMessage, MessageReady, StartCall, TypeOK
  <2> QED  BY <2>1, <2>2 DEF TypeOK, Parts
<1>4. CASE CallFails(n) \/ CallSucceeds(n)
  <2>1. PICK S \in SUBSET Range(calling[n]), k \in Nat : CallReturns(n, S, k)
    BY <1>4, CallOutcome
  <2> QED  BY <2>1 DEF CallReturns, TypeOK, Parts
<1>5. CASE ReportSendError(n)
  BY <1>5 DEF ReportSendError, MoreToReport, TypeOK, Parts
<1>6. ASSUME NEW m \in Outgoing, ClientSend(n, m) PROVE UNCHANGED Parts(q) /\ stop' = stop
  BY <1>6 DEF ClientSend, receiveVars, TypeOK, Parts
<1> QED  BY <1>1, <1>2, <1>3, <1>4, <1>5, <1>6 DEF Publisher

LEMMA StepLocal ==
  ASSUME TypeOK, [Next]_vars, NEW q \in Names, Local(q)
  PROVE  Local(q)'
<1>1. CASE UNCHANGED vars
  BY <1>1, LocalUnchanged DEF vars, sendVars, receiveVars, Parts
<1>2. CASE ReceiveNext /\ UNCHANGED sendVars
  <2>1. stop' = stop
    BY <1>2 DEF ReceiveNext, ReceiveReports, DrainErr, Receive, ReceiveOpens, ReceiveFails,
                Subscriber, Poll, ReceiveNothing, ReceiveError, ReceiveMessage, DeleteMessage,
                DeleteError, Deliver, ReportReceiveError, ClientReceive, Service,
                VisibilityTimeout, OtherReceives, OtherDeletes
  <2> QED  BY <1>2, <2>1, LocalUnchanged DEF sendVars, Parts
<1>3. CASE SendReports
  BY <1>3, LocalUnchanged DEF SendReports, Parts
<1>4. CASE Stop
  BY <1>4, LocalStop
<1>5. ASSUME NEW n \in Names, SendFails(n) PROVE Local(q)'
  BY <1>5, LocalUnchanged DEF SendFails, receiveVars, Parts
<1>6. ASSUME NEW n \in Names,
             \/ SendOpens(n) \/ Publisher(n)
             \/ \E m \in Outgoing : ClientSend(n, m)
      PROVE  Local(q)'
  <2>1. CASE q = n
    BY <1>6, <2>1, LocalOther, LocalTakeMessage, LocalCallStarts, LocalCallReturns,
       LocalClientSend DEF Publisher
  <2>2. CASE q # n
    BY <1>6, <2>2, PartsElsewhere, LocalUnchanged
  <2> QED  BY <2>1, <2>2
<1> QED
  BY <1>1, <1>2, <1>3, <1>4, <1>5, <1>6 DEF Next, SendNext

(* The order of messages is inductive together with the strengthening that
   makes DoneMeansFlushed inductive. *)
THEOREM OrderAndFlush == Spec => [](InOrderOnce /\ FlushInv)
<1> DEFINE Inv == \A n \in Names : Local(n)
<1>1. Init => Inv
  BY InitLocal
<1>2. TypeOK /\ Inv /\ [Next]_vars => Inv'
  BY StepLocal
<1>3. Inv => InOrderOnce /\ FlushInv
  BY DEF Local, InOrderOnce, FlushInv
<1> QED  BY <1>1, <1>2, <1>3, TypeCorrect, PTL DEF Spec

(* Messages reach the service in the order of the Send channel, each once:
   what was handed over, is in a call, has accumulated and is on the channel
   is at any time all that was accepted. *)
THEOREM OrderedOnce == Spec => []InOrderOnce
BY OrderAndFlush, PTL

(* When the channel of Done() is closed, every message that was on a Send
   channel when Stop closed stopPubChan has been handed to the service. *)
THEOREM StopFlushes == Spec => []DoneMeansFlushed
<1>1. TypeOK /\ FlushInv => DoneMeansFlushed
  <2> SUFFICES ASSUME TypeOK, FlushInv, stop = "done", NEW n \in Names
               PROVE  Len(handed[n]) >= promised[n]
    BY DEF DoneMeansFlushed
  <2> QED  BY PartTypes DEF FlushInv, Flushes
<1> QED  BY <1>1, TypeCorrect, OrderAndFlush, PTL

----------------------------------------------------------------------------
(* The sending half implements Outbox: ClientSend is Accept, the return of a
   call is Hand, closing stopPubChan is CallStop, closing stopchan is Stopped;
   every other step changes nothing Outbox sees. *)

LEMMA RefineInit == Init => Promise!Init
BY DEF Init, ReceiveInit, Promise!Init, Phase

(* What a call has handed over is a prefix of what was accepted. *)
LEMMA HandedIsPrefix ==
  ASSUME TypeOK, NEW n \in Names, Local(n), pub[n] \in {"call", "final"}
  PROVE  \E k \in Len(handed[n]) .. Len(accepted[n]) :
           handed[n] \o calling[n] = SubSeq(accepted[n], 1, k)
<1> DEFINE front == handed[n] \o calling[n]
<1>1. accum[n] = <<>>
  BY DEF Local, Flushes
<1>2. front \in Seq(Messages) /\ Len(front) = Len(handed[n]) + Len(calling[n])
  BY PartTypes, ConcatProperties
<1>3. accepted[n] = front \o sendCh[n]
  <2>1. accepted[n] = (front \o <<>>) \o sendCh[n]
    BY <1>1 DEF Local, InFlight
  <2> HIDE DEF front
  <2>2. front \o <<>> = front
    BY <1>2, ConcatEmptySeq
  <2> QED  BY <2>1, <2>2
<1>4. Len(front) >= Len(handed[n])
  <2> DEFINE f == Len(front)  h == Len(handed[n])  c == Len(calling[n])
  <2>1. f = h + c /\ h \in Nat /\ c \in Nat
    BY <1>2, PartTypes
  <2> HIDE DEF f, h, c
  <2>2. f >= h
    BY <2>1
  <2> QED  BY <2>2 DEF f, h
<1> HIDE DEF front
<1>5. SubSeq(accepted[n], 1, Len(front)) = front
  BY <1>2, <1>3, PartTypes, PrefixOfConcat
<1>6. Len(accepted[n]) = Len(front) + Len(sendCh[n])
  <2> DEFINE s == sendCh[n]
  <2>1. s \in Seq(Messages)
    BY PartTypes
  <2> HIDE DEF s
  <2>2. Len(front \o s) = Len(front) + Len(s)
    BY <1>2, <2>1, ConcatProperties
  <2> QED  BY <1>3, <2>2 DEF s
<1>7. Len(front) \in Len(handed[n]) .. Len(accepted[n])
  <2> DEFINE f == Len(front)  h == Len(handed[n])  s == Len(sendCh[n])  l == Len(accepted[n])
  <2>1. f \in Nat /\ h \in Nat /\ s \in Nat
    BY <1>2, PartTypes, LenProperties
  <2>2. f >= h /\ l = f + s
    BY <1>4, <1>6
  <2> HIDE DEF f, h, s, l
  <2>3. f \in h .. l
    BY <2>1, <2>2
  <2> QED  BY <2>3 DEF f, h, l
<1> QED  BY <1>5, <1>7 DEF front

LEMMA RefineStop ==
  ASSUME TypeOK, \A n \in Names : Local(n), Stop
  PROVE  [Promise!Next]_(Promise!vars)
<1>1. accepted' = accepted /\ handed' = handed
  BY DEF Stop, CallStop, ClosePubChan, CloseDone, PublishersGone, sendVars
<1>2. CASE CallStop
  BY <1>1, <1>2 DEF CallStop, sendVars, Phase, Promise!vars
<1>3. CASE ClosePubChan
  <2>1. Promise!CallStop
    BY <1>1, <1>3 DEF ClosePubChan, Phase, Promise!CallStop
  <2> QED  BY <2>1 DEF Promise!Next
<1>4. CASE CloseDone
  <2>1. promised' = promised /\ stop = "pub" /\ stop' = "done"
    BY <1>4 DEF CloseDone, PublishersGone, sendVars
  <2>2. ASSUME NEW n \in Names PROVE Len(handed[n]) >= promised[n]
    <3>1. promised'[n] <= Len(handed'[n])
      BY <1>4, <2>1, LocalStop DEF Local, Flushes, Stop
    <3> QED  BY <1>1, <2>1, <3>1, PartTypes
  <2>3. Promise!Stopped
    BY <1>1, <2>1, <2>2 DEF Phase, Promise!Stopped
  <2> QED  BY <2>3 DEF Promise!Next
<1> QED  BY <1>2, <1>3, <1>4 DEF Stop

LEMMA RefineStep ==
  ASSUME TypeOK, \A n \in Names : Local(n), [Next]_vars
  PROVE  [Promise!Next]_(Promise!vars)
<1> DEFINE Unseen == /\ accepted' = accepted /\ handed' = handed
                     /\ promised' = promised /\ stop' = stop
<1>1. Unseen => [Promise!Next]_(Promise!vars)
  BY DEF Promise!vars, Phase
<1>2. CASE UNCHANGED vars
  BY <1>1, <1>2 DEF vars, sendVars, receiveVars
<1>3. CASE ReceiveNext /\ UNCHANGED sendVars
  <2>1. stop' = stop
    BY <1>3 DEF ReceiveNext, ReceiveReports, DrainErr, Receive, ReceiveOpens, ReceiveFails,
                Subscriber, Poll, ReceiveNothing, ReceiveError, ReceiveMessage, DeleteMessage,
                DeleteError, Deliver, ReportReceiveError, ClientReceive, Service,
                VisibilityTimeout, OtherReceives, OtherDeletes
  <2> QED  BY <1>1, <1>3, <2>1 DEF sendVars
<1>4. CASE SendReports
  BY <1>1, <1>4 DEF SendReports
<1>5. CASE Stop
  BY <1>5, RefineStop
<1>6. ASSUME NEW n \in Names, SendOpens(n) \/ SendFails(n)
      PROVE  [Promise!Next]_(Promise!vars)
  BY <1>1, <1>6 DEF SendOpens, SendFails, receiveVars
<1>7. ASSUME NEW n \in Names,
             SeeStop(n) \/ TakeMessage(n) \/ BatchTimeout(n) \/ ReportSendError(n)
      PROVE  [Promise!Next]_(Promise!vars)
  BY <1>1, <1>7
     DEF SeeStop, MayLeave, TakeMessage, MessageReady, BatchTimeout, TimerSends, StartCall,
         ReportSendError, MoreToReport, receiveVars
<1>8. ASSUME NEW n \in Names, NEW m \in Outgoing, ClientSend(n, m)
      PROVE  [Promise!Next]_(Promise!vars)
  <2>1. Promise!Accept(n, m)
    BY <1>8 DEF ClientSend, receiveVars, Phase, Promise!Accept
  <2> QED  BY <2>1, SqsTransportAssumption DEF Promise!Next
<1>9. ASSUME NEW n \in Names, CallFails(n) \/ CallSucceeds(n)
      PROVE  [Promise!Next]_(Promise!vars)
  <2>1. /\ accepted' = accepted /\ promised' = promised /\ stop' = stop
        /\ handed' = [handed EXCEPT ![n] = handed[n] \o calling[n]]
    BY <1>9, LocalCallReturns
  <2>2. pub[n] \in {"call", "final"}
    BY <1>9 DEF CallFails, CallSucceeds, CallReturns
  <2>3. \E k \in Len(handed[n]) .. Len(accepted[n]) :
          handed[n] \o calling[n] = SubSeq(accepted[n], 1, k)
    BY <2>2, HandedIsPrefix
  <2>4. Promise!Hand(n)
    BY <2>1, <2>3 DEF Phase, Promise!Hand
  <2> QED  BY <2>4 DEF Promise!Next
<1> QED
  BY <1>2, <1>3, <1>4, <1>5, <1>6, <1>7, <1>8, <1>9 DEF Next, SendNext, Publisher

(* The publisher goroutines and Stop keep the promise of Outbox, whatever the
   batch size, the capacities and the failures of the service. *)
THEOREM Refinement == Spec => ImplementsOutbox
<1> DEFINE Inv == \A n \in Names : Local(n)
<1>1. Init => Inv
  BY InitLocal
<1>2. TypeOK /\ Inv /\ [Next]_vars => Inv'
  BY StepLocal
<1>3. TypeOK /\ Inv /\ [Next]_vars => [Promise!Next]_(Promise!vars)
  BY RefineStep
<1> QED
  BY <1>1, <1>2, <1>3, RefineInit, TypeCorrect, PTL DEF Spec, ImplementsOutbox, Promise!Spec

----------------------------------------------------------------------------
(* The size of batches, name by name. *)

Fits(n) ==
  /\ Len(calling[n]) <= MaxBatch
  /\ accum[n] # <<>> => pub[n] = "select" /\ Len(accum[n]) < BatchSize

LEMMA FitsTakeMessage ==
  ASSUME TypeOK, NEW n \in Names, Fits(n), TakeMessage(n)
  PROVE  Fits(n)'
<1> DEFINE batch == Append(accum[n], Head(sendCh[n]))
<1>1. Head(sendCh[n]) \in Messages
  BY HeadTailProperties DEF TakeMessage, MessageReady, StartCall, TypeOK
<1>2. Len(batch) = Len(accum[n]) + 1
  BY <1>1, PartTypes, AppendProperties
<1>3. Len(batch) <= MaxBatch
  <2>1. CASE accum[n] = <<>>
    BY <1>2, <2>1, EmptySeq, SqsTransportAssumption
  <2>2. CASE accum[n] # <<>>
    <3> DEFINE a == Len(accum[n])  b == Len(batch)
    <3>1. a \in Nat /\ b = a + 1 /\ a < BatchSize
      BY <1>2, <2>2, PartTypes DEF Fits
    <3> HIDE DEF a, b
    <3>2. b <= MaxBatch
      BY <3>1, BatchSizeType, SqsTransportAssumption
    <3> QED  BY <3>2 DEF b
  <2> QED  BY <2>1, <2>2
<1>4. \/ /\ accum'[n] = batch /\ calling'[n] = calling[n] /\ pub'[n] = "select"
         /\ Len(batch) < BatchSize
      \/ accum'[n] = <<>> /\ calling'[n] = batch
  BY DEF TakeMessage, MessageReady, StartCall, TypeOK
<1> HIDE DEF batch
<1> QED  BY <1>3, <1>4 DEF Fits, BatchSize

LEMMA FitsCallStarts ==
  ASSUME TypeOK, NEW n \in Names, Fits(n), SeeStop(n) \/ BatchTimeout(n)
  PROVE  Fits(n)'
<1>1. accum'[n] = <<>> /\ calling'[n] = accum[n]
  BY DEF SeeStop, MayLeave, BatchTimeout, TimerSends, StartCall, TypeOK
<1>2. Len(accum[n]) <= MaxBatch
  <2>1. CASE accum[n] = <<>>
    BY <2>1, EmptySeq, SqsTransportAssumption
  <2>2. CASE accum[n] # <<>>
    <3> DEFINE a == Len(accum[n])
    <3>1. a \in Nat /\ a < BatchSize
      BY <2>2, PartTypes DEF Fits
    <3> HIDE DEF a
    <3>2. a <= MaxBatch
      BY <3>1, BatchSizeType, SqsTransportAssumption
    <3> QED  BY <3>2 DEF a
  <2> QED  BY <2>1, <2>2
<1> QED  BY <1>1, <1>2 DEF Fits

LEMMA FitsCallReturns ==
  ASSUME TypeOK, NEW n \in Names, Fits(n), CallFails(n) \/ CallSucceeds(n)
  PROVE  Fits(n)'
<1>1. PICK S \in SUBSET Range(calling[n]), k \in Nat : CallReturns(n, S, k)
  BY CallOutcome
<1>2. calling'[n] = <<>> /\ accum' = accum /\ pub[n] \in {"call", "final"}
  BY <1>1 DEF CallReturns, TypeOK
<1>3. accum'[n] = <<>>
  BY <1>2 DEF Fits
<1>4. Len(calling'[n]) <= MaxBatch
  BY <1>2, EmptySeq, SqsTransportAssumption
<1> QED  BY <1>3, <1>4 DEF Fits

LEMMA StepFits ==
  ASSUME TypeOK, [Next]_vars, NEW q \in Names, Fits(q)
  PROVE  Fits(q)'
<1>1. UNCHANGED Parts(q) => Fits(q)'
  BY DEF Parts, Fits, BatchSize
<1>2. CASE UNCHANGED vars \/ (ReceiveNext /\ UNCHANGED sendVars)
  BY <1>1, <1>2 DEF vars, sendVars, Parts
<1>3. CASE SendReports
  BY <1>1, <1>3 DEF SendReports, Parts
<1>4. CASE Stop
  <2>1. pub' = pub /\ accum' = accum /\ calling' = calling
    BY <1>4 DEF Stop, CallStop, ClosePubChan, CloseDone, PublishersGone, sendVars
  <2> QED  BY <2>1 DEF Fits, BatchSize
<1>5. ASSUME NEW n \in Names, SendFails(n) PROVE Fits(q)'
  BY <1>1, <1>5 DEF SendFails, Parts
<1>6. ASSUME NEW n \in Names, n # q,
             \/ SendOpens(n) \/ Publisher(n)
             \/ \E m \in Outgoing : ClientSend(n, m)
      PROVE  Fits(q)'
  BY <1>1, <1>6, PartsElsewhere
<1>7. CASE SendOpens(q) \/ ReportSendError(q)
  <2>1. accum' = accum /\ calling' = calling /\ (pub[q] = "select" => pub'[q] = "select")
    BY <1>7 DEF SendOpens, ReportSendError, MoreToReport, PubGoes, TypeOK
  <2> QED  BY <2>1 DEF Fits, BatchSize
<1>8. ASSUME NEW m \in Outgoing, ClientSend(q, m) PROVE Fits(q)'
  BY <1>8 DEF ClientSend, Fits, BatchSize
<1>9. CASE SeeStop(q) \/ BatchTimeout(q)
  BY <1>9, FitsCallStarts
<1>10. CASE TakeMessage(q)
  BY <1>10, FitsTakeMessage
<1>11. CASE CallFails(q) \/ CallSucceeds(q)
  BY <1>11, FitsCallReturns
<1>12. ASSUME NEW n \in Names,
              \/ SendOpens(n) \/ Publisher(n)
              \/ \E m \in Outgoing : ClientSend(n, m)
       PROVE  Fits(q)'
  BY <1>6, <1>7, <1>8, <1>9, <1>10, <1>11, <1>12 DEF Publisher
<1> QED
  BY <1>2, <1>3, <1>4, <1>5, <1>12 DEF Next, SendNext

(* No call carries more entries than the service takes, whatever batchSize New
   was given. *)
THEOREM BatchesFit == Spec => []BatchWithinLimit
<1> DEFINE Inv == \A n \in Names : Fits(n)
<1>1. Init => Inv
  BY EmptySeq, SqsTransportAssumption DEF Init, Fits
<1>2. TypeOK /\ Inv /\ [Next]_vars => Inv'
  BY StepFits
<1>3. Inv => BatchWithinLimit
  BY DEF Fits, BatchWithinLimit
<1> QED  BY <1>1, <1>2, <1>3, TypeCorrect, PTL DEF Spec

----------------------------------------------------------------------------
(* Errors and success, name by name. *)

Silent(n) == ~warned[n] /\ errsDue[n] = 0 => Range(handed[n]) \subseteq stored[n]

LEMMA StepSilent ==
  ASSUME TypeOK, [Next]_vars, NEW q \in Names, Silent(q)
  PROVE  Silent(q)'
<1>1. CASE UNCHANGED <<warned, errsDue, handed, stored>>
  BY <1>1 DEF Silent
<1>2. ASSUME NEW n \in Names, ReportSendError(n) PROVE Silent(q)'
  BY <1>2 DEF ReportSendError, MoreToReport, TypeOK, Silent
<1>3. ASSUME NEW n \in Names, CallFails(n) \/ CallSucceeds(n) PROVE Silent(q)'
  <2>1. PICK S \in SUBSET Range(calling[n]), k \in Nat :
          CallReturns(n, S, k) /\ (k = 0 => S = Range(calling[n]))
    BY <1>3, CallOutcome
  <2>2. CASE q # n
    BY <2>1, <2>2 DEF CallReturns, TypeOK, Silent
  <2>3. CASE q = n
    <3>1. /\ handed'[n] = handed[n] \o calling[n] /\ stored'[n] = stored[n] \cup S
          /\ errsDue'[n] = k /\ warned' = warned /\ pub[n] \in {"call", "final"}
      BY <2>1 DEF CallReturns, TypeOK
    <3>2. errsDue[n] = 0
      <4>1. errsDue[n] \in Nat
        BY DEF TypeOK
      <4>2. ~(errsDue[n] > 0)
        <5>1. errsDue[n] > 0 <=> pub[n] \in {"report", "finalReport"}
          BY DEF TypeOK
        <5> QED  BY <3>1, <5>1
      <4> QED  BY <4>1, <4>2
    <3>3. Range(handed'[n]) = Range(handed[n]) \cup Range(calling[n])
      BY <3>1, PartTypes, RangeConcatenation
    <3>4. ASSUME ~warned'[n], errsDue'[n] = 0 PROVE Range(handed'[n]) \subseteq stored'[n]
      <4>1. S = Range(calling[n])
        BY <2>1, <3>1, <3>4
      <4>2. Range(handed[n]) \subseteq stored[n]
        BY <2>3, <3>1, <3>2, <3>4 DEF Silent
      <4> QED  BY <3>1, <3>3, <4>1, <4>2
    <3> QED  BY <2>3, <3>4 DEF Silent
  <2> QED  BY <2>2, <2>3
<1> QED
  <2>1. CASE UNCHANGED vars
    BY <1>1, <2>1 DEF vars, sendVars
  <2>2. CASE ReceiveNext /\ UNCHANGED sendVars
    BY <1>1, <2>2 DEF sendVars
  <2>3. CASE SendReports
    BY <1>1, <2>3 DEF SendReports
  <2>4. CASE Stop
    BY <1>1, <2>4 DEF Stop, CallStop, ClosePubChan, CloseDone, PublishersGone, sendVars
  <2>5. ASSUME NEW n \in Names, NEW m \in Outgoing, ClientSend(n, m) PROVE Silent(q)'
    BY <1>1, <2>5 DEF ClientSend
  <2>6. ASSUME NEW n \in Names,
               \/ SendOpens(n) \/ SendFails(n)
               \/ SeeStop(n) \/ TakeMessage(n) \/ BatchTimeout(n)
        PROVE  Silent(q)'
    BY <1>1, <2>6
       DEF SendOpens, SendFails, SeeStop, MayLeave, TakeMessage, MessageReady, BatchTimeout,
           TimerSends, StartCall
  <2> QED
    BY <1>2, <1>3, <2>1, <2>2, <2>3, <2>4, <2>5, <2>6 DEF Next, SendNext, Publisher

(* A publisher that has raised no error, and has none to raise, has stored all
   it handed over. *)
THEOREM SilenceIsSuccess == Spec => []SilenceMeansStored
<1> DEFINE Inv == \A n \in Names : Silent(n)
<1>1. Init => Inv
  BY DEF Init, Silent, Range
<1>2. TypeOK /\ Inv /\ [Next]_vars => Inv'
  BY StepSilent
<1>3. Inv => SilenceMeansStored
  BY DEF Silent, SilenceMeansStored
<1> QED  BY <1>1, <1>2, <1>3, TypeCorrect, PTL DEF Spec

----------------------------------------------------------------------------
(* What is stored in a queue is found there, on its way to the client, with
   another process, or was removed by a failing DeleteMessage call. *)

(* A step adds to stored[q] only what it adds to the queue as well. *)
LEMMA StepKeeps ==
  ASSUME TypeOK, NothingVanishes, [Next]_vars, NEW q \in Names
  PROVE  (Backlog \cup stored[q] \subseteq Somewhere(q))'
<1>1. Backlog \cup stored[q] \subseteq Somewhere(q)
  BY DEF NothingVanishes, Somewhere
<1>2. CASE ReceiveNext /\ UNCHANGED sendVars
  <2>1. Somewhere(q) \subseteq Somewhere(q)'
    BY <1>2, NothingDisappears DEF TypeOK
  <2>2. UNCHANGED stored
    BY <1>2 DEF sendVars
  <2> QED  BY <1>1, <2>1, <2>2
<1>3. ASSUME NEW n \in Names, CallFails(n) \/ CallSucceeds(n)
      PROVE  (Backlog \cup stored[q] \subseteq Somewhere(q))'
  <2>1. PICK S \in SUBSET Range(calling[n]), k \in Nat : CallReturns(n, S, k)
    BY <1>3, CallOutcome
  <2>2. UNCHANGED <<sub, held, recvCh, received, hidden, elsewhere, lost>>
    BY <2>1 DEF CallReturns, subVars
  <2>3. CASE q = n
    <3>1. stored'[q] = stored[q] \cup S /\ visible'[q] = visible[q] \cup S
      BY <2>1, <2>3 DEF CallReturns, TypeOK, ReceiveTypeOK
    <3> QED  BY <1>1, <2>2, <3>1 DEF Somewhere, InQueue, Delivered
  <2>4. CASE q # n
    <3>1. stored'[q] = stored[q] /\ visible'[q] = visible[q]
      BY <2>1, <2>4 DEF CallReturns, TypeOK, ReceiveTypeOK
    <3> QED  BY <1>1, <2>2, <3>1 DEF Somewhere, InQueue, Delivered
  <2> QED  BY <2>3, <2>4
<1>4. CASE UNCHANGED <<stored, sub, held, recvCh, received, serviceVars>>
  BY <1>1, <1>4 DEF Somewhere, InQueue, Delivered, serviceVars
<1>5. CASE SendReports \/ Stop \/ UNCHANGED vars
  BY <1>4, <1>5 DEF SendReports, Stop, CallStop, ClosePubChan, CloseDone, vars, receiveVars,
                    sendVars, subVars
<1>6. ASSUME NEW n \in Names,
             \/ SendOpens(n) \/ SendFails(n) \/ SeeStop(n) \/ TakeMessage(n) \/ BatchTimeout(n)
             \/ ReportSendError(n) \/ \E m \in Outgoing : ClientSend(n, m)
      PROVE  UNCHANGED <<stored, sub, held, recvCh, received, serviceVars>>
  BY <1>6 DEF SendOpens, SendFails, SeeStop, TakeMessage, BatchTimeout, StartCall,
              ReportSendError, ClientSend, receiveVars, subVars
<1> QED
  BY <1>2, <1>3, <1>4, <1>5, <1>6 DEF Next, SendNext, Publisher

(* Whatever fails and whenever Stop is called, no message of a queue gets lost
   on its way from the service to the client. *)
THEOREM NothingLost == Spec => []NothingVanishes
<1>1. Init => NothingVanishes
  BY DEF Init, ReceiveInit, NothingVanishes, InQueue
<1>2. TypeOK /\ NothingVanishes /\ [Next]_vars => NothingVanishes'
  <2> SUFFICES ASSUME TypeOK, NothingVanishes, [Next]_vars, NEW q \in Names
               PROVE  (Backlog \cup stored[q] \subseteq Somewhere(q))'
    BY DEF NothingVanishes, Somewhere
  <2> QED  BY StepKeeps
<1> QED  BY <1>1, <1>2, TypeCorrect, PTL DEF Spec

----------------------------------------------------------------------------
(* What is delivered, is delivered once but for what others receive, queue by
   queue. *)

(* A message is either visible or hidden, and only the message that is about to
   be deleted can have a stale handle. *)
Tidy(q) ==
  /\ visible[q] \cap hidden[q] = {}
  /\ stale[q] => sub[q] = "delete"

(* Why a delivery costs a receive: a message that is still in the queue, or that
   the subscriber is about to deliver, has been delivered no more often than
   others received it, and less often if one of them did so since the subscriber. *)
Owed(q, m) ==
  /\ Deliveries(q, m) <= 1 + shares[q][m]
  /\ m \in InQueue(q) => Deliveries(q, m) <= shares[q][m]
  /\ sub[q] = "delete" /\ held[q] = m =>
       /\ Deliveries(q, m) <= shares[q][m]
       /\ stale[q] => Deliveries(q, m) < shares[q][m]

Apart(q) == Tidy(q) /\ \A m \in Messages : Owed(q, m)

(* All the messages that the subscriber's side of queue q knows. *)
Known(q) == InQueue(q) \cup Range(Passed(q)) \cup ({held[q]} \ {Nil})

(* The queue had nothing but its backlog and what was stored, and what the
   clients send is new. *)
FromQueue(q) ==
  /\ Known(q) \subseteq Backlog \cup stored[q]
  /\ stored[q] \subseteq Range(handed[q])
  /\ IsInjective(accepted[q]) /\ Range(accepted[q]) \subseteq Outgoing

(* What they depend on. *)
QueueParts(q) ==
  <<sub[q], held[q], recvCh[q], received[q], visible[q], hidden[q], stale[q], shares[q]>>

LEMMA ReceivedTypes ==
  ASSUME ReceiveTypeOK, NEW q \in Names
  PROVE  /\ received[q] \in Seq(Messages) /\ recvCh[q] \in Seq(Messages)
         /\ Passed(q) \in Seq(Messages) /\ Range(Passed(q)) \subseteq Messages
         /\ \A m \in Messages : Occurrences(Passed(q), m) \in Nat /\ shares[q][m] \in Nat
<1>1. received[q] \in Seq(Messages) /\ recvCh[q] \in Seq(Messages)
  BY DEF ReceiveTypeOK
<1>2. Passed(q) \in Seq(Messages)
  BY <1>1, ConcatProperties DEF Passed
<1>3. Range(Passed(q)) \subseteq Messages
  BY <1>2, RangeOfSeq
<1>4. \A m \in Messages : Occurrences(Passed(q), m) \in Nat
  BY <1>2, OccurrencesType
<1> QED  BY <1>1, <1>2, <1>3, <1>4 DEF ReceiveTypeOK

LEMMA ApartUnchanged ==
  ASSUME NEW q, Apart(q), UNCHANGED QueueParts(q)
  PROVE  Apart(q)' /\ Known(q)' = Known(q)
BY DEF QueueParts, Apart, Tidy, Owed, Deliveries, Known, InQueue, Passed

(* The goroutines and clients of one queue leave the others alone. *)
LEMMA QueueElsewhere ==
  ASSUME ReceiveTypeOK, NEW n \in Names, NEW q \in Names \ {n},
         Receive(n) \/ Subscriber(n) \/ ClientReceive(n) \/ Service(n)
  PROVE  UNCHANGED QueueParts(q)
<1> USE DEF QueueParts, ReceiveTypeOK
<1>1. CASE Receive(n) \/ Poll(n) \/ ReceiveNothing(n) \/ ReceiveError(n) \/ ReportReceiveError(n)
  BY <1>1 DEF Receive, ReceiveOpens, ReceiveFails, Poll, ReceiveNothing, ReceiveError,
              ReportReceiveError, SubGoes, serviceVars
<1>2. ASSUME NEW m \in Messages, NEW handle \in ReceiptHandles, ReceiveMessage(n, m, handle)
      PROVE  UNCHANGED QueueParts(q)
  BY <1>2 DEF ReceiveMessage, SubGoes
<1>3. CASE DeleteMessage(n) \/ DeleteError(n)
  BY <1>3 DEF DeleteMessage, DeleteError, Delete, SubGoes, serviceVars
<1>4. CASE Deliver(n) \/ ClientReceive(n)
  BY <1>4 DEF Deliver, ClientReceive, SubGoes, serviceVars
<1>5. CASE Service(n)
  BY <1>5 DEF Service, VisibilityTimeout, OtherReceives, OtherDeletes, subVars
<1> QED  BY <1>1, <1>2, <1>3, <1>4, <1>5 DEF Subscriber

(* No step of the receiving half delivers a message once more than it may, or
   adds a message. *)
LEMMA ReceiveApart ==
  ASSUME ReceiveTypeOK, ReceiveNext, NEW q \in Names, Apart(q)
  PROVE  Apart(q)' /\ Known(q)' \subseteq Known(q)
<1> DEFINE Goal == Apart(q)' /\ Known(q)' \subseteq Known(q)
           Count(m) == Occurrences(Passed(q), m)
<1>0. \A m \in Messages : Count(m) \in Nat /\ shares[q][m] \in Nat
  BY ReceivedTypes
<1>1. CASE ReceiveReports \/ DrainErr
  BY <1>1, ApartUnchanged DEF ReceiveReports, DrainErr, QueueParts, subVars, serviceVars
<1>2. ASSUME NEW n \in Names \ {q}, Receive(n) \/ Subscriber(n) \/ ClientReceive(n) \/ Service(n)
      PROVE  Goal
  BY <1>2, QueueElsewhere, ApartUnchanged
<1>3. CASE Receive(q) \/ Poll(q) \/ ReceiveNothing(q) \/ ReceiveError(q) \/ ReportReceiveError(q)
  <2>1. /\ UNCHANGED <<held, recvCh, received, visible, hidden, stale, shares>>
        /\ sub[q] \notin {"delete", "deliver"} /\ sub'[q] \notin {"delete", "deliver"}
    BY <1>3 DEF Receive, ReceiveOpens, ReceiveFails, Poll, ReceiveNothing, ReceiveError,
                ReportReceiveError, SubGoes, ReceiveTypeOK, serviceVars
  <2> QED
    BY <2>1 DEF Apart, Tidy, Owed, Deliveries, Known, InQueue, Passed
<1>4. ASSUME NEW m \in Messages, NEW handle \in ReceiptHandles, ReceiveMessage(q, m, handle)
      PROVE  Goal
  <2>1. /\ m \in visible[q] /\ held'[q] = m /\ UNCHANGED <<recvCh, received, stale, shares>>
        /\ visible'[q] = visible[q] \ {m} /\ sub[q] = "call"
        /\ \/ sub'[q] = "delete" /\ hidden'[q] = hidden[q] \cup {m}
           \/ sub'[q] = "deliver" /\ hidden'[q] = hidden[q]
    BY <1>4 DEF ReceiveMessage, SubGoes, ReceiveTypeOK
  <2>2. UNCHANGED Passed(q)
    BY <2>1 DEF Passed
  <2>3. Tidy(q)' /\ Known(q)' \subseteq Known(q)
    BY <2>1, <2>2 DEF Apart, Tidy, Known, InQueue
  <2>4. ASSUME NEW o \in Messages PROVE Owed(q, o)'
    BY <1>0, <2>1, <2>2 DEF Apart, Tidy, Owed, Deliveries, InQueue
  <2> QED  BY <2>3, <2>4 DEF Apart
<1>5. CASE DeleteMessage(q) \/ DeleteError(q)
  <2>1. /\ UNCHANGED <<recvCh, received, shares>> /\ held[q] # Nil /\ held[q] \in Messages
        /\ sub[q] = "delete" /\ stale'[q] = FALSE
        /\ \/ visible'[q] = visible[q] \ {held[q]} /\ hidden'[q] = hidden[q] \ {held[q]}
           \/ /\ visible'[q] = visible[q] /\ hidden'[q] = hidden[q]
              /\ stale[q] \/ sub'[q] = "report"
        /\ \/ sub'[q] = "deliver" /\ held'[q] = held[q]
           \/ sub'[q] = "report" /\ held'[q] = Nil
    BY <1>5 DEF DeleteMessage, DeleteError, Delete, SubGoes, ReceiveTypeOK, serviceVars
  <2>2. UNCHANGED Passed(q)
    BY <2>1 DEF Passed
  <2>3. Tidy(q)' /\ Known(q)' \subseteq Known(q)
    BY <2>1, <2>2 DEF Apart, Tidy, Known, InQueue
  <2>4. ASSUME NEW o \in Messages PROVE Owed(q, o)'
    BY <1>0, <2>1, <2>2 DEF Apart, Tidy, Owed, Deliveries, InQueue
  <2> QED  BY <2>3, <2>4 DEF Apart
<1>6. CASE Deliver(q)
  <2>1. /\ held[q] \in Messages /\ sub[q] = "deliver" /\ sub'[q] = "poll" /\ held'[q] = Nil
        /\ recvCh'[q] = Append(recvCh[q], held[q])
        /\ UNCHANGED <<received, visible, hidden, stale, shares>>
    BY <1>6 DEF Deliver, SubGoes, ReceiveTypeOK, serviceVars
  <2>2. Passed(q)' = Append(Passed(q), held[q])
    <3>1. \A s, t \in Seq(Messages), m \in Messages : s \o Append(t, m) = Append(s \o t, m)
      BY AppendToLast
    <3>2. received[q] \o Append(recvCh[q], held[q]) = Append(received[q] \o recvCh[q], held[q])
      BY <2>1, <3>1, ReceivedTypes, ZenonT(30)
    <3> QED  BY <2>1, <3>2 DEF Passed
  <2>3. \A o \in Messages : Deliveries(q, o)' = Deliveries(q, o)
    <3>1. \A o \in Messages : Count(o)' = Count(o) + IF held[q] = o THEN 1 ELSE 0
      BY <2>1, <2>2, ReceivedTypes, OccurrencesAppend
    <3>2. \A o \in Messages : Deliveries(q, o)' = Count(o)'
      BY <1>0, <2>1, <3>1 DEF Deliveries
    <3> QED  BY <2>1, <3>1, <3>2 DEF Deliveries
  <2>4. Range(Append(Passed(q), held[q])) = Range(Passed(q)) \cup {held[q]}
    BY <2>1, ReceivedTypes, RangeOfAppend
  <2>5. held[q] # Nil
    BY <2>1, SqsReceiveAssumption
  <2> QED  BY <2>1, <2>2, <2>3, <2>4, <2>5 DEF Apart, Tidy, Owed, Known, InQueue
<1>7. CASE ClientReceive(q)
  <2>1. /\ recvCh[q] # <<>> /\ recvCh'[q] = Tail(recvCh[q])
        /\ received'[q] = Append(received[q], Head(recvCh[q]))
        /\ UNCHANGED <<sub, held, visible, hidden, stale, shares>>
    BY <1>7 DEF ClientReceive, ReceiveTypeOK, serviceVars
  <2>2. Passed(q)' = Passed(q)
    BY <2>1, ReceivedTypes, MoveHead DEF Passed
  <2> QED  BY <2>1, <2>2 DEF Apart, Tidy, Owed, Deliveries, Known, InQueue
<1>8. CASE Service(q)
  <2>1. PICK m \in Messages :
          VisibilityTimeout(q, m) \/ OtherReceives(q, m) \/ OtherDeletes(q, m)
    BY <1>8 DEF Service
  <2>2. UNCHANGED <<sub, held, recvCh, received>> /\ UNCHANGED Passed(q)
    BY <2>1 DEF VisibilityTimeout, OtherReceives, OtherDeletes, Passed, subVars
  <2>3. CASE VisibilityTimeout(q, m) \/ OtherDeletes(q, m)
    <3>1. /\ UNCHANGED <<stale, shares>>
          /\ \/ /\ m \in hidden[q] /\ hidden'[q] = hidden[q] \ {m}
                /\ visible'[q] = visible[q] \cup {m}
             \/ hidden'[q] = hidden[q] \ {m} /\ visible'[q] = visible[q] \ {m}
      BY <2>3 DEF VisibilityTimeout, OtherDeletes, ReceiveTypeOK
    <3>2. Tidy(q)' /\ InQueue(q)' \subseteq InQueue(q)
      BY <2>2, <3>1 DEF Apart, Tidy, InQueue
    <3> QED  BY <2>2, <3>1, <3>2 DEF Apart, Owed, Deliveries, Known
  <2>4. CASE OtherReceives(q, m)
    <3>1. /\ m \in visible[q] /\ visible'[q] = visible[q] \ {m}
          /\ hidden'[q] = hidden[q] \cup {m}
          /\ stale'[q] = (stale[q] \/ (sub[q] = "delete" /\ m = held[q]))
          /\ shares'[q][m] = shares[q][m] + 1
          /\ \A o \in Messages \ {m} : shares'[q][o] = shares[q][o]
      BY <2>4 DEF OtherReceives, ReceiveTypeOK
    <3>2. Tidy(q)' /\ InQueue(q)' = InQueue(q)
      BY <2>2, <3>1 DEF Apart, Tidy, InQueue
    <3>3. ASSUME NEW o \in Messages PROVE Owed(q, o)'
      <4>1. Deliveries(q, o)' = Deliveries(q, o) /\ Deliveries(q, o) \in Nat
        BY <1>0, <2>2 DEF Deliveries
      <4>2. CASE o = m
        BY <1>0, <2>2, <3>1, <3>2, <4>1, <4>2 DEF Apart, Owed, InQueue
      <4>3. CASE o # m
        BY <1>0, <2>2, <3>1, <3>2, <4>1, <4>3 DEF Apart, Owed, InQueue
      <4> QED  BY <4>2, <4>3
    <3> QED  BY <2>2, <3>2, <3>3 DEF Apart, Known
  <2> QED  BY <2>1, <2>3, <2>4
<1> QED
  BY <1>1, <1>2, <1>3, <1>4, <1>5, <1>6, <1>7, <1>8 DEF ReceiveNext, Subscriber

(* An entry of the current call was neither stored before nor in the backlog. *)
LEMMA CallIsNew ==
  ASSUME TypeOK, NEW q \in Names, Local(q), FromQueue(q)
  PROVE  Range(calling[q]) \cap (Backlog \cup stored[q]) = {}
<1> DEFINE h == handed[q]
           c == calling[q]
<1>1. h \in Seq(Messages) /\ c \in Seq(Messages)
  BY PartTypes
<1>2. h \o c \in Seq(Messages) /\ accum[q] \in Seq(Messages) /\ sendCh[q] \in Seq(Messages)
  BY <1>1, PartTypes, ConcatProperties
<1>3. (h \o c) \o accum[q] \in Seq(Messages)
  BY <1>2, ConcatProperties
<1>4. IsInjective(((h \o c) \o accum[q]) \o sendCh[q])
  BY DEF FromQueue, Local, InFlight
<1>5. IsInjective((h \o c) \o accum[q])
  BY <1>2, <1>3, <1>4, InjectiveParts
<1>6. IsInjective(h \o c)
  BY <1>2, <1>5, InjectiveParts
<1>7. Range(h) \cap Range(c) = {}
  BY <1>1, <1>6, InjectiveParts
<1>8. Range(c) \subseteq Range(accepted[q])
  <2>1. ((h \o c) \o accum[q]) \o sendCh[q] = accepted[q]
    BY DEF Local, InFlight
  <2> HIDE DEF h, c
  <2>2. Range(((h \o c) \o accum[q]) \o sendCh[q])
          = ((Range(h) \cup Range(c)) \cup Range(accum[q])) \cup Range(sendCh[q])
    BY <1>1, <1>2, RangeOfPipeline
  <2> QED  BY <2>1, <2>2
<1> QED  BY <1>7, <1>8, SqsTransportAssumption DEF FromQueue

(* A returning call puts messages in the queue that it has not had. *)
LEMMA CallReturnsApart ==
  ASSUME TypeOK, NEW q \in Names, Local(q), Apart(q), FromQueue(q),
         CallFails(q) \/ CallSucceeds(q)
  PROVE  Apart(q)' /\ FromQueue(q)'
<1>1. PICK S \in SUBSET Range(calling[q]), k \in Nat : CallReturns(q, S, k)
  BY CallOutcome
<1>2. /\ visible'[q] = visible[q] \cup S /\ stored'[q] = stored[q] \cup S
      /\ handed'[q] = handed[q] \o calling[q]
      /\ UNCHANGED <<sub, held, recvCh, received, hidden, stale, shares, accepted>>
  BY <1>1 DEF CallReturns, TypeOK, ReceiveTypeOK, subVars
<1>3. S \cap Known(q) = {}
  BY CallIsNew DEF FromQueue
<1>4. Range(handed'[q]) = Range(handed[q]) \cup Range(calling[q])
  BY <1>2, PartTypes, RangeConcatenation
<1>5. Passed(q)' = Passed(q) /\ InQueue(q)' = InQueue(q) \cup S
  BY <1>2 DEF Passed, InQueue
<1>6. \A m \in S : Deliveries(q, m)' = 0 /\ held[q] # m
  <2>1. Nil \notin S
    BY PartTypes, RangeOfSeq, SqsReceiveAssumption
  <2>2. ASSUME NEW m \in S PROVE m \notin Range(Passed(q)) /\ held[q] # m
    BY <1>3, <2>1 DEF Known
  <2> QED  BY <1>2, <1>5, <2>2, OccurrencesNone DEF Deliveries
<1>7. Apart(q)'
  <2>1. Tidy(q)'
    BY <1>2, <1>3 DEF Apart, Tidy, Known, InQueue
  <2>2. ASSUME NEW m \in Messages PROVE Owed(q, m)'
    <3>1. shares[q][m] \in Nat
      BY ReceivedTypes DEF TypeOK
    <3>2. CASE m \in S
      BY <1>2, <1>6, <3>1, <3>2 DEF Owed
    <3>3. CASE m \notin S
      BY <1>2, <1>5, <3>3 DEF Apart, Owed, Deliveries
    <3> QED  BY <3>2, <3>3
  <2> QED  BY <2>1, <2>2 DEF Apart
<1>8. FromQueue(q)'
  BY <1>2, <1>4, <1>5 DEF FromQueue, Known
<1> QED  BY <1>7, <1>8

LEMMA StepDelivers ==
  ASSUME TypeOK, [Next]_vars, NEW q \in Names, Local(q), Apart(q), FromQueue(q)
  PROVE  Apart(q)' /\ FromQueue(q)'
<1>1. ASSUME UNCHANGED QueueParts(q), UNCHANGED <<stored[q], handed[q], accepted[q]>>
      PROVE  Apart(q)' /\ FromQueue(q)'
  BY <1>1, ApartUnchanged DEF FromQueue
<1>2. CASE ReceiveNext /\ UNCHANGED sendVars
  <2>1. Apart(q)' /\ Known(q)' \subseteq Known(q)
    BY <1>2, ReceiveApart DEF TypeOK
  <2>2. UNCHANGED <<stored, handed, accepted>>
    BY <1>2 DEF sendVars
  <2> QED  BY <2>1, <2>2 DEF FromQueue
<1>3. ASSUME NEW n \in Names, CallFails(n) \/ CallSucceeds(n)
      PROVE  Apart(q)' /\ FromQueue(q)'
  <2>1. CASE n = q
    BY <1>3, <2>1, CallReturnsApart
  <2>2. CASE n # q
    <3>1. PICK S \in SUBSET Range(calling[n]), k \in Nat : CallReturns(n, S, k)
      BY <1>3, CallOutcome
    <3> QED
      BY <1>1, <2>2, <3>1 DEF CallReturns, TypeOK, ReceiveTypeOK, QueueParts, subVars
  <2> QED  BY <2>1, <2>2
<1>4. ASSUME NEW n \in Names, NEW m \in Outgoing, ClientSend(n, m)
      PROVE  Apart(q)' /\ FromQueue(q)'
  <2>1. UNCHANGED QueueParts(q) /\ UNCHANGED <<stored, handed>>
    BY <1>4 DEF ClientSend, QueueParts, receiveVars, subVars, serviceVars
  <2>2. IsInjective(accepted'[q]) /\ Range(accepted'[q]) \subseteq Outgoing
    <3>1. CASE n = q
      <4>1. /\ accepted'[q] = Append(accepted[q], m) /\ m \notin Range(accepted[q])
            /\ accepted[q] \in Seq(Messages) /\ m \in Messages
        BY <1>4, <3>1, SqsTransportAssumption DEF ClientSend, TypeOK
      <4>2. IsInjective(accepted'[q]) /\ Range(accepted'[q]) = Range(accepted[q]) \cup {m}
        BY <4>1, InjectiveAppend, RangeOfAppend DEF FromQueue
      <4> QED  BY <4>2 DEF FromQueue
    <3>2. CASE n # q
      BY <1>4, <3>2 DEF ClientSend, TypeOK, FromQueue
    <3> QED  BY <3>1, <3>2
  <2> QED  BY <2>1, <2>2, ApartUnchanged DEF FromQueue
<1>5. CASE SendReports \/ Stop \/ UNCHANGED vars
  BY <1>1, <1>5 DEF SendReports, Stop, CallStop, ClosePubChan, CloseDone, QueueParts, vars,
                    receiveVars, sendVars, subVars, serviceVars
<1>6. ASSUME NEW n \in Names,
             \/ SendOpens(n) \/ SendFails(n) \/ SeeStop(n) \/ TakeMessage(n) \/ BatchTimeout(n)
             \/ ReportSendError(n)
      PROVE  Apart(q)' /\ FromQueue(q)'
  BY <1>1, <1>6 DEF SendOpens, SendFails, SeeStop, TakeMessage, BatchTimeout, StartCall,
                    ReportSendError, QueueParts, receiveVars, subVars, serviceVars
<1> QED
  BY <1>2, <1>3, <1>4, <1>5, <1>6 DEF Next, SendNext, Publisher

(* However often a visibility timeout ends, a call fails, its answer is lost or
   DeleteMessage comes too late to delete anything: a message is delivered once,
   and once more at most for every time another process has received it. *)
THEOREM DeliversOnceUnlessShared == Spec => []RepeatsNeedOthers
<1> DEFINE Inv == \A n \in Names : Local(n)
           Once == \A n \in Names : Apart(n) /\ FromQueue(n)
<1>1. Init => Inv /\ Once
  <2> SUFFICES ASSUME Init, NEW n \in Names PROVE Local(n) /\ Apart(n) /\ FromQueue(n)
    OBVIOUS
  <2>1. Passed(n) = <<>> /\ accepted[n] = <<>> /\ Range(<<>>) = {} /\ IsInjective(<<>>)
    BY ConcatEmptySeq, EmptySeq DEF Init, ReceiveInit, Passed, Range, IsInjective
  <2>2. \A m \in Messages : Occurrences(<<>>, m) = 0
    BY <2>1, OccurrencesNone
  <2>3. Apart(n)
    BY <2>1, <2>2 DEF Init, ReceiveInit, Apart, Tidy, Owed, Deliveries
  <2> QED
    BY <2>1, <2>3, InitLocal DEF Init, ReceiveInit, FromQueue, Known, InQueue
<1>2. TypeOK /\ Inv /\ [Next]_vars => Inv'
  BY StepLocal
<1>3. TypeOK /\ Inv /\ Once /\ [Next]_vars => Once'
  BY StepDelivers
<1>4. TypeOK /\ Once => RepeatsNeedOthers
  <2> SUFFICES ASSUME TypeOK, NEW n \in Names, NEW m \in Messages, Owed(n, m)
               PROVE  Deliveries(n, m) + (IF m \in InQueue(n) THEN 1 ELSE 0)
                        <= 1 + shares[n][m]
    BY DEF Apart, RepeatsNeedOthers
  <2>1. Occurrences(Passed(n), m) \in Nat /\ shares[n][m] \in Nat
    <3>1. ReceiveTypeOK
      BY DEF TypeOK
    <3> QED  BY <3>1, ReceivedTypes
  <2>2. Deliveries(n, m) \in Nat
    BY <2>1 DEF Deliveries
  <2> QED  BY <2>1, <2>2 DEF Owed
<1> QED  BY <1>1, <1>2, <1>3, <1>4, TypeCorrect, PTL DEF Spec
=============================================================================
