---------------------------- MODULE SqsMultiProofs ----------------------------
(* Safety of MultiTransport's sending half, for every set of names, messages and
   writers, every channel capacity and every batch size. *)
EXTENDS SqsMulti, SqsReceiveProofs, ChannelLemmas, FiniteSetTheorems, TLAPS

(* What of the messages of n has left the publisher: with the writers or dropped,
   with the dispatcher too, on offer too. *)
Given(n) == dispatched[n] \o dropped[n]
Held(n) == Given(n) \o work[n]
Out(n) == Held(n) \o offered[n]

(* The order, where batches are, and what Stop promised. *)
Line(n) ==
  /\ (Out(n) \o accum[n]) \o sendCh[n] = accepted[n]
  /\ pub[n] = "none" => accepted[n] = <<>> /\ disp[n] = "none"
  /\ pub[n] \in {"offer", "finalOffer"} <=> offered[n] # <<>>
  /\ disp[n] \in {"check", "wait", "give"} <=> work[n] # <<>>
  /\ disp[n] # "exited" => dropped[n] = <<>>
  /\ Len(accum[n]) < LargestBatch
  /\ Len(offered[n]) <= LargestBatch
  /\ Len(work[n]) <= LargestBatch
  /\ Len(dropped[n]) <= LargestBatch
  /\ promised[n] <= Len(accepted[n])
  /\ pub[n] \in {"finalOffer", "sleep", "exited"} =>
       stop \in {"pub", "done"} /\ promised[n] <= Len(Out(n))
  /\ stop = "done" => promised[n] <= Len(Held(n))

(* A writer has a batch just while it calls the service, and an error to report
   just while it reports. *)
Calls(n) ==
  \A w \in Writers :
    /\ calling[n][w] = <<>> <=> writer[n][w] # "call"
    /\ Len(calling[n][w]) <= LargestBatch
    /\ pub[n] = "none" => writer[n][w] = "none"

IInv == TypeOK /\ \A n \in Names : Line(n) /\ Calls(n)

LEMMA BatchSizeType ==
  /\ BatchSize \in Nat /\ BatchSize <= LargestBatch
  /\ LargestBatch \in Nat /\ 1 <= LargestBatch /\ LargestBatch <= MaxBatch
BY SqsMultiAssumption DEF BatchSize, LargestBatch

LEMMA PartTypes ==
  ASSUME TypeOK, NEW n \in Names
  PROVE  /\ sendCh[n] \in Seq(Messages) /\ accum[n] \in Seq(Messages)
         /\ offered[n] \in Seq(Messages) /\ work[n] \in Seq(Messages)
         /\ accepted[n] \in Seq(Messages) /\ dispatched[n] \in Seq(Messages)
         /\ dropped[n] \in Seq(Messages)
         /\ Given(n) \in Seq(Messages) /\ Held(n) \in Seq(Messages) /\ Out(n) \in Seq(Messages)
         /\ Len(Held(n)) = Len(Given(n)) + Len(work[n])
         /\ Len(Out(n)) = Len(Held(n)) + Len(offered[n])
         /\ Len(Given(n)) = Len(dispatched[n]) + Len(dropped[n])
<1>1. /\ sendCh[n] \in Seq(Messages) /\ accum[n] \in Seq(Messages)
      /\ offered[n] \in Seq(Messages) /\ work[n] \in Seq(Messages)
      /\ accepted[n] \in Seq(Messages) /\ dispatched[n] \in Seq(Messages)
      /\ dropped[n] \in Seq(Messages)
  BY DEF TypeOK
<1>2. Given(n) \in Seq(Messages) /\ Len(Given(n)) = Len(dispatched[n]) + Len(dropped[n])
  BY <1>1, ConcatProperties DEF Given
<1>3. Held(n) \in Seq(Messages) /\ Len(Held(n)) = Len(Given(n)) + Len(work[n])
  BY <1>1, <1>2, ConcatProperties DEF Held
<1>4. Out(n) \in Seq(Messages) /\ Len(Out(n)) = Len(Held(n)) + Len(offered[n])
  BY <1>1, <1>3, ConcatProperties DEF Out
<1> QED  BY <1>1, <1>2, <1>3, <1>4

LEMMA InitInv == Init => IInv
<1> SUFFICES ASSUME Init PROVE IInv
  OBVIOUS
<1>1. ReceiveTypeOK
  BY ReceiveInitType DEF Init
<1>2. <<>> \in Seq(Messages) /\ <<>> \in Seq(Writers) /\ Len(<<>>) = 0 /\ <<>> \o <<>> = <<>>
  BY EmptySeq, ConcatEmptySeq
<1>3. TypeOK
  BY <1>1, <1>2, SqsReceiveAssumption DEF Init, TypeOK, PubStates, DispStates, WriterStates
<1>4. ASSUME NEW n \in Names PROVE Line(n)
  <2>1. Given(n) = <<>> /\ Held(n) = <<>> /\ Out(n) = <<>>
    BY <1>2 DEF Init, Given, Held, Out
  <2> QED  BY <1>2, <2>1, BatchSizeType DEF Init, ReceiveInit, Line
<1>5. ASSUME NEW n \in Names PROVE Calls(n)
  BY <1>2, BatchSizeType DEF Init, Calls
<1> QED  BY <1>3, <1>4, <1>5 DEF IInv

(* Steps that leave a name alone. *)
LEMMA LineSame ==
  ASSUME NEW n, Line(n),
         UNCHANGED <<pub[n], sendCh[n], accum[n], offered[n], accepted[n], promised[n],
                     disp[n], work[n], dispatched[n], dropped[n], stop>>
  PROVE  Line(n)'
BY DEF Line, Given, Held, Out

LEMMA CallsSame ==
  ASSUME NEW n, Calls(n), UNCHANGED <<calling[n], writer[n]>>, pub'[n] = "none" => pub[n] = "none"
  PROVE  Calls(n)'
BY DEF Calls

(* What goes from one place to the next, all of it, stays where it is in line. *)
LEMMA Slide ==
  ASSUME NEW S, NEW h \in Seq(S), NEW a \in Seq(S)
  PROVE  h \o <<>> = h /\ (h \o a) \o <<>> = h \o a /\ (h \o <<>>) \o a = h \o a
<1>1. h \o a \in Seq(S)
  BY ConcatProperties
<1> QED  BY <1>1, ConcatEmptySeq

(* The service's part of a call: S is stored and there are k errors to report. *)
LEMMA CallOutcome ==
  ASSUME TypeOK, NEW n \in Names, NEW w \in Writers, CallFails(n, w) \/ CallSucceeds(n, w)
  PROVE  \E S \in SUBSET Range(calling[n][w]), k \in Nat : CallReturns(n, w, S, k)
<1>1. CASE CallFails(n, w)
  BY <1>1 DEF CallFails
<1>2. CASE CallSucceeds(n, w)
  <2>1. PICK Failed \in SUBSET DOMAIN calling[n][w] :
          CallReturns(n, w, {calling[n][w][i] : i \in DOMAIN calling[n][w] \ Failed},
                      Cardinality(Failed))
    BY <1>2 DEF CallSucceeds
  <2>2. Cardinality(Failed) \in Nat
    <3>1. calling[n][w] \in Seq(Messages)
      BY DEF TypeOK
    <3> QED  BY <3>1, FailedCount
  <2>3. {calling[n][w][i] : i \in DOMAIN calling[n][w] \ Failed} \subseteq Range(calling[n][w])
    BY DEF Range
  <2> QED  BY <2>1, <2>2, <2>3
<1> QED  BY <1>1, <1>2
----------------------------------------------------------------------------
(* Send, up to the start of the goroutines of a name. *)
LEMMA StepSends ==
  ASSUME IInv, NEW n \in Names, SendOpens(n) \/ SendFails(n) \/ SendReports
  PROVE  IInv'
<1> USE DEF IInv
<1>1. CASE SendOpens(n)
  <2>1. /\ pub[n] = "none" /\ pub' = [pub EXCEPT ![n] = "select"]
        /\ disp' = [disp EXCEPT ![n] = "range"]
        /\ writer' = [writer EXCEPT ![n] = [w \in Writers |-> "register"]]
        /\ UNCHANGED <<receiveVars, sendLock, sendCh, accum, offered, accepted, promised, work,
                       worker, dispatched, dropped, workerQueue, calling, errsDue, handed, stored>>
    BY <1>1 DEF SendOpens
  <2>2. ASSUME NEW w \in Writers
        PROVE  writer[n][w] = "none" /\ writer'[n][w] = "register"
    BY <2>1 DEF Calls, TypeOK
  <2>3. /\ writer' \in [Names -> [Writers -> WriterStates]]
        /\ \A k \in Names : k # n => writer'[k] = writer[k]
    BY <2>1 DEF TypeOK, WriterStates
  <2>4. \A k \in Names, w \in Writers : errsDue'[k][w] > 0 <=> writer'[k][w] = "report"
    BY <2>1, <2>2, <2>3 DEF TypeOK
  <2>5. ReceiveTypeOK'
    BY <2>1 DEF TypeOK, ReceiveTypeOK, receiveVars, subVars, serviceVars
  <2>6. pub' \in [Names -> PubStates] /\ disp' \in [Names -> DispStates]
    BY <2>1 DEF TypeOK, PubStates, DispStates
  <2>7. TypeOK'
    BY <2>1, <2>3, <2>4, <2>5, <2>6 DEF TypeOK
  <2>8. ASSUME NEW k \in Names PROVE Line(k)' /\ Calls(k)'
    <3>1. CASE k # n
      BY <2>1, <2>3, <3>1, LineSame, CallsSame DEF TypeOK, receiveVars
    <3>2. CASE k = n
      <4>1. pub'[n] = "select" /\ disp'[n] = "range" /\ disp[n] = "none" /\ UNCHANGED stop
        BY <2>1 DEF TypeOK, Line, receiveVars
      <4>2. Line(n)'
        BY <2>1, <4>1 DEF Line, Given, Held, Out
      <4>3. Calls(n)'
        BY <2>1, <2>2, <4>1 DEF Calls
      <4> QED  BY <3>2, <4>2, <4>3
    <3> QED  BY <3>1, <3>2
  <2> QED  BY <2>7, <2>8
<1>2. CASE SendFails(n)
  <2>1. TypeOK'
    BY <1>2
       DEF SendFails, TypeOK, ReceiveTypeOK, receiveVars, subVars, serviceVars, dispVars,
           writerVars
  <2> QED  BY <1>2, <2>1, LineSame, CallsSame DEF SendFails, receiveVars, dispVars, writerVars
<1>3. CASE SendReports
  <2>1. errChan' \in Seq(Names) /\ Len(errChan') <= ErrCap
    BY <1>3, PutErrorType DEF SendReports, TypeOK
  <2>2. TypeOK'
    BY <1>3, <2>1 DEF SendReports, TypeOK, ReceiveTypeOK, subVars, serviceVars, dispVars, writerVars
  <2> QED  BY <1>3, <2>2, LineSame, CallsSame DEF SendReports, dispVars, writerVars
<1> QED  BY <1>1, <1>2, <1>3

----------------------------------------------------------------------------
(* Any step of the client or the publisher of n by itself: it leaves p, s, a, o
   and c in their places. *)
LEMMA PublisherStep ==
  ASSUME IInv, NEW n \in Names, NEW p \in PubStates \ {"none"},
         NEW s \in Seq(Messages), NEW a \in Seq(Messages), NEW o \in Seq(Messages),
         NEW c \in Seq(Messages),
         pub' = [pub EXCEPT ![n] = p], sendCh' = [sendCh EXCEPT ![n] = s],
         accum' = [accum EXCEPT ![n] = a], offered' = [offered EXCEPT ![n] = o],
         accepted' = [accepted EXCEPT ![n] = c],
         UNCHANGED <<receiveVars, sendLock, promised, dispVars, writerVars>>,
         pub[n] # "none", Len(s) <= ChanCap,
         ((Held(n) \o o) \o a) \o s = c,
         p \in {"offer", "finalOffer"} <=> o # <<>>,
         Len(a) < LargestBatch, Len(o) <= LargestBatch,
         promised[n] <= Len(c),
         p \in {"finalOffer", "sleep", "exited"} =>
           stop \in {"pub", "done"} /\ promised[n] <= Len(Held(n) \o o)
  PROVE  IInv'
<1> USE DEF IInv
<1>1. /\ UNCHANGED <<stop, disp, work, worker, dispatched, dropped, workerQueue, writer, calling,
                     errsDue, handed, stored>>
      /\ ReceiveTypeOK'
  BY DEF receiveVars, subVars, serviceVars, dispVars, writerVars, TypeOK, ReceiveTypeOK
<1>2. /\ pub' \in [Names -> PubStates]
      /\ sendCh' \in [Names -> Seq(Messages)] /\ accum' \in [Names -> Seq(Messages)]
      /\ offered' \in [Names -> Seq(Messages)] /\ accepted' \in [Names -> Seq(Messages)]
  <2> DEFINE Texts == [Names -> Seq(Messages)]
  <2>1. pub \in [Names -> PubStates] /\ {sendCh, accum, offered, accepted} \subseteq Texts
    BY DEF TypeOK
  <2> QED  BY <2>1
<1>3. \A k \in Names : Len(sendCh'[k]) <= ChanCap
  BY DEF TypeOK
<1>4. TypeOK'
  <2>1. {sendCh, accum, offered, work, accepted, dispatched, handed, dropped}'
          \subseteq [Names -> Seq(Messages)]
    <3> DEFINE Texts == [Names -> Seq(Messages)]
    <3>1. {work, dispatched, handed, dropped} \subseteq Texts
      BY DEF TypeOK
    <3>2. {sendCh', accum', offered', accepted'} \subseteq Texts
      BY <1>2
    <3> HIDE DEF Texts
    <3>3. {work', dispatched', handed', dropped'} \subseteq Texts
      BY <1>1, <3>1
    <3>4. {sendCh, accum, offered, work, accepted, dispatched, handed, dropped}' \subseteq Texts
      BY <3>2, <3>3
    <3> QED  BY <3>4 DEF Texts
  <2>2. sendLock' \in Names \cup {Nil} /\ promised' \in [Names -> Nat]
    BY DEF TypeOK
  <2>3. /\ disp' \in [Names -> DispStates]
        /\ writer' \in [Names -> [Writers -> WriterStates]]
        /\ worker' \in [Names -> Writers \cup {Nil}]
        /\ workerQueue' \in [Names -> Seq(Writers)]
        /\ calling' \in [Names -> [Writers -> Seq(Messages)]]
        /\ errsDue' \in [Names -> [Writers -> Nat]]
        /\ \A k \in Names, w \in Writers : errsDue'[k][w] > 0 <=> writer'[k][w] = "report"
        /\ stored' \in [Names -> SUBSET Messages]
    BY <1>1 DEF TypeOK
  <2> HIDE DEF IInv
  <2> QED  BY <1>1, <1>2, <1>3, <2>1, <2>2, <2>3 DEF TypeOK
<1>5. ASSUME NEW k \in Names, k # n PROVE Line(k)' /\ Calls(k)'
  BY <1>1, <1>5, LineSame, CallsSame DEF TypeOK
<1>6. pub'[n] = p /\ sendCh'[n] = s /\ accum'[n] = a /\ offered'[n] = o /\ accepted'[n] = c
  BY DEF TypeOK
<1>7. Held(n)' = Held(n) /\ Out(n)' = Held(n) \o o
  BY <1>1, <1>6 DEF Given, Held, Out
<1>8. Line(n)'
  BY <1>1, <1>6, <1>7 DEF Line
<1>9. Calls(n)'
  BY <1>1, <1>6, CallsSame
<1> QED  BY <1>4, <1>5, <1>8, <1>9

LEMMA StepClientSend ==
  ASSUME IInv, NEW n \in Names, NEW m \in Outgoing, ClientSend(n, m)
  PROVE  IInv'
<1> USE DEF IInv
<1>1. m \in Messages /\ ChanCap \in Nat
  BY SqsMultiAssumption, SqsReceiveAssumption
<1> DEFINE s == Append(sendCh[n], m)
           c == Append(accepted[n], m)
           front == Out(n) \o accum[n]
<1>2. /\ s \in Seq(Messages) /\ Len(s) = Len(sendCh[n]) + 1
      /\ c \in Seq(Messages) /\ Len(c) = Len(accepted[n]) + 1
  <2>1. sendCh[n] \in Seq(Messages) /\ accepted[n] \in Seq(Messages)
    BY PartTypes
  <2> QED  BY <1>1, <2>1, AppendProperties
<1>3. Len(s) <= ChanCap
  <2>1. Len(sendCh[n]) \in Nat /\ Len(sendCh[n]) < ChanCap
    BY PartTypes, LenProperties DEF ClientSend
  <2> QED  BY <1>1, <1>2, <2>1
<1>4. front \o s = c
  <2>1. front \in Seq(Messages)
    BY PartTypes, ConcatProperties
  <2>2. front \o sendCh[n] = accepted[n]
    BY DEF Line
  <2> HIDE DEF front
  <2>3. \A h, t \in Seq(Messages) : h \o Append(t, m) = Append(h \o t, m)
    BY <1>1, AppendToLast
  <2>4. sendCh[n] \in Seq(Messages)
    BY PartTypes
  <2>5. front \o Append(sendCh[n], m) = Append(front \o sendCh[n], m)
    BY <2>1, <2>3, <2>4, Zenon
  <2> QED  BY <2>2, <2>5
<1>5. promised[n] <= Len(c)
  <2>1. promised[n] \in Nat /\ Len(accepted[n]) \in Nat /\ promised[n] <= Len(accepted[n])
    BY PartTypes, LenProperties DEF TypeOK, Line
  <2> QED  BY <1>2, <2>1
<1>6. /\ pub[n] \in PubStates \ {"none"}
      /\ pub' = [pub EXCEPT ![n] = pub[n]] /\ accum' = [accum EXCEPT ![n] = accum[n]]
      /\ offered' = [offered EXCEPT ![n] = offered[n]]
      /\ sendCh' = [sendCh EXCEPT ![n] = s] /\ accepted' = [accepted EXCEPT ![n] = c]
      /\ UNCHANGED <<receiveVars, sendLock, promised, dispVars, writerVars>>
  BY DEF ClientSend, TypeOK
<1>7. accum[n] \in Seq(Messages) /\ offered[n] \in Seq(Messages)
  BY PartTypes
<1>8. ((Held(n) \o offered[n]) \o accum[n]) \o s = c
  BY <1>4 DEF Out
<1>9. /\ pub[n] \in {"offer", "finalOffer"} <=> offered[n] # <<>>
      /\ Len(accum[n]) < LargestBatch /\ Len(offered[n]) <= LargestBatch
      /\ pub[n] \in {"finalOffer", "sleep", "exited"} =>
           stop \in {"pub", "done"} /\ promised[n] <= Len(Held(n) \o offered[n])
  BY DEF Line, Out
<1> HIDE DEF s, c, front, IInv
<1> QED  BY <1>2, <1>3, <1>5, <1>6, <1>7, <1>8, <1>9, PublisherStep

(* What the publisher offers is what has accumulated, as far as there is room on
   offer: nothing is, outside "offer" and "finalOffer". *)
LEMMA Offering ==
  ASSUME IInv, NEW n \in Names, pub[n] = "select"
  PROVE  /\ offered[n] = <<>> /\ Out(n) = Held(n)
         /\ (Held(n) \o accum[n]) \o sendCh[n] = accepted[n]
         /\ ((Held(n) \o accum[n]) \o <<>>) \o sendCh[n] = accepted[n]
<1>1. offered[n] = <<>>
  BY DEF IInv, Line
<1>2. Held(n) \in Seq(Messages) /\ accum[n] \in Seq(Messages)
  BY PartTypes DEF IInv
<1>3. Out(n) = Held(n) /\ (Held(n) \o accum[n]) \o <<>> = Held(n) \o accum[n]
  BY <1>1, <1>2, Slide DEF Out
<1>4. (Out(n) \o accum[n]) \o sendCh[n] = accepted[n]
  BY DEF IInv, Line
<1> QED  BY <1>1, <1>3, <1>4

LEMMA StepOffers ==
  ASSUME IInv, NEW n \in Names, SeeStop(n) \/ BatchTimeout(n)
  PROVE  IInv'
<1> DEFINE p == IF BatchTimeout(n) THEN "offer"
                ELSE IF accum[n] = <<>> THEN "exited" ELSE "finalOffer"
<1>1. /\ pub[n] = "select"
      /\ p \in PubStates \ {"none"} /\ p \in {"offer", "finalOffer", "exited"}
      /\ p \in {"offer", "finalOffer"} <=> accum[n] # <<>>
      /\ p # "offer" => sendCh[n] = <<>> /\ stop \in {"pub", "done"}
      /\ pub' = [pub EXCEPT ![n] = p]
      /\ offered' = [offered EXCEPT ![n] = accum[n]]
      /\ accum' = [accum EXCEPT ![n] = <<>>]
      /\ UNCHANGED <<receiveVars, sendLock, sendCh, accepted, promised, dispVars, writerVars>>
  <2>1. CASE BatchTimeout(n)
    BY <2>1 DEF BatchTimeout, TimerSends, Offer, PubStates
  <2>2. CASE SeeStop(n) /\ ~BatchTimeout(n)
    BY <2>2 DEF SeeStop, MayLeave, Offer, PubStates
  <2> QED  BY <2>1, <2>2
<1> HIDE DEF p
<1>2. /\ sendCh[n] \in Seq(Messages) /\ accum[n] \in Seq(Messages)
      /\ accepted[n] \in Seq(Messages) /\ Held(n) \in Seq(Messages)
      /\ <<>> \in Seq(Messages) /\ Len(<<>>) = 0
  BY PartTypes, EmptySeq DEF IInv
<1>3. sendCh' = [sendCh EXCEPT ![n] = sendCh[n]] /\ accepted' = [accepted EXCEPT ![n] = accepted[n]]
  BY <1>1 DEF IInv, TypeOK
<1>4. ((Held(n) \o accum[n]) \o <<>>) \o sendCh[n] = accepted[n]
  BY <1>1, Offering
<1>5. Len(<<>>) < LargestBatch /\ Len(accum[n]) <= LargestBatch
  <2>1. Len(accum[n]) < LargestBatch /\ Len(accum[n]) \in Nat
    BY <1>2, LenProperties DEF IInv, Line
  <2> QED  BY <1>2, <2>1, BatchSizeType
<1>6. Len(sendCh[n]) <= ChanCap /\ promised[n] <= Len(accepted[n])
  BY DEF IInv, TypeOK, Line
<1>7. p \in {"finalOffer", "sleep", "exited"} => promised[n] <= Len(Held(n) \o accum[n])
  <2>1. ASSUME sendCh[n] = <<>> PROVE Held(n) \o accum[n] = accepted[n]
    <3>1. Held(n) \o accum[n] \in Seq(Messages)
      BY <1>2, ConcatProperties
    <3>2. (Held(n) \o accum[n]) \o sendCh[n] = accepted[n]
      BY <1>1, Offering
    <3> QED  BY <2>1, <3>1, <3>2, ConcatEmptySeq
  <2> QED  BY <1>1, <1>6, <2>1
<1> QED  BY <1>1, <1>2, <1>3, <1>4, <1>5, <1>6, <1>7, PublisherStep

LEMMA StepTakesMessage ==
  ASSUME IInv, NEW n \in Names, TakeMessage(n)
  PROVE  IInv'
<1> DEFINE batch == Append(accum[n], Head(sendCh[n]))
           s == Tail(sendCh[n])
<1>1. /\ pub[n] = "select" /\ sendCh[n] # <<>>
      /\ sendCh' = [sendCh EXCEPT ![n] = s]
      /\ UNCHANGED <<receiveVars, sendLock, accepted, promised, dispVars, writerVars>>
  BY DEF TakeMessage, MessageReady
<1>2. /\ sendCh[n] \in Seq(Messages) /\ accum[n] \in Seq(Messages)
      /\ accepted[n] \in Seq(Messages) /\ Held(n) \in Seq(Messages)
      /\ <<>> \in Seq(Messages) /\ Len(<<>>) = 0
  BY PartTypes, EmptySeq DEF IInv
<1>3. /\ Head(sendCh[n]) \in Messages /\ s \in Seq(Messages) /\ Len(s) = Len(sendCh[n]) - 1
      /\ batch \in Seq(Messages) /\ Len(batch) = Len(accum[n]) + 1 /\ batch # <<>>
  BY <1>1, <1>2, HeadTailProperties, AppendProperties
<1>4. batch \o s = accum[n] \o sendCh[n]
  BY <1>1, <1>2, MoveHead
<1>5. accepted' = [accepted EXCEPT ![n] = accepted[n]]
  BY <1>1 DEF IInv, TypeOK
<1>6. Len(s) <= ChanCap /\ promised[n] <= Len(accepted[n])
  <2>1. Len(sendCh[n]) <= ChanCap /\ Len(sendCh[n]) \in Nat /\ ChanCap \in Nat
    BY <1>2, LenProperties, SqsReceiveAssumption DEF IInv, TypeOK
  <2>2. promised[n] <= Len(accepted[n])
    BY DEF IInv, Line
  <2> HIDE DEF s
  <2> QED  BY <1>3, <2>1, <2>2
<1>7. (Held(n) \o batch) \o s = accepted[n]
  <2>1. (Held(n) \o accum[n]) \o sendCh[n] = accepted[n]
    BY <1>1, Offering
  <2>2. Held(n) \o (accum[n] \o sendCh[n]) = accepted[n]
    <3>1. (Held(n) \o accum[n]) \o sendCh[n] = Held(n) \o (accum[n] \o sendCh[n])
      <4>1. \A h, a, t \in Seq(Messages) : (h \o a) \o t = h \o (a \o t)
        BY ConcatAssociative
      <4> QED  BY <1>2, <4>1, ZenonT(30)
    <3> QED  BY <2>1, <3>1
  <2> HIDE DEF batch, s
  <2>3. (Held(n) \o batch) \o s = Held(n) \o (batch \o s)
    BY <1>2, <1>3, ConcatAssociative, SMTT(30)
  <2> QED  BY <1>4, <2>2, <2>3
<1>8. Len(accum[n]) \in Nat /\ Len(accum[n]) < LargestBatch
  BY <1>2, LenProperties DEF IInv, Line
<1>9. CASE /\ Len(batch) < BatchSize
           /\ accum' = [accum EXCEPT ![n] = batch]
           /\ UNCHANGED <<pub, offered>>
  <2>1. pub' = [pub EXCEPT ![n] = "select"] /\ offered' = [offered EXCEPT ![n] = <<>>]
    BY <1>1, <1>9, Offering DEF IInv, TypeOK
  <2>2. Len(batch) < LargestBatch /\ Len(<<>>) <= LargestBatch
    BY <1>2, <1>3, <1>8, <1>9, BatchSizeType
  <2>3. ((Held(n) \o <<>>) \o batch) \o s = accepted[n]
    <3>1. Held(n) \o <<>> = Held(n)
      BY <1>2, ConcatEmptySeq
    <3> QED  BY <1>7, <3>1
  <2>4. "select" \in PubStates \ {"none"}
    BY DEF PubStates
  <2> HIDE DEF batch, s
  <2> QED  BY <1>1, <1>2, <1>3, <1>5, <1>6, <1>9, <2>1, <2>2, <2>3, <2>4, PublisherStep
<1>10. CASE Offer(n, batch, "offer")
  <2>1. /\ pub' = [pub EXCEPT ![n] = "offer"] /\ offered' = [offered EXCEPT ![n] = batch]
        /\ accum' = [accum EXCEPT ![n] = <<>>]
    BY <1>10 DEF Offer
  <2>2. Len(batch) <= LargestBatch /\ Len(<<>>) < LargestBatch
    BY <1>2, <1>3, <1>8, BatchSizeType
  <2> HIDE DEF batch, s
  <2>3. ((Held(n) \o batch) \o <<>>) \o s = accepted[n]
    <3>1. (Held(n) \o batch) \o <<>> = Held(n) \o batch
      BY <1>2, <1>3, Slide
    <3> QED  BY <1>7, <3>1
  <2>4. "offer" \in PubStates \ {"none"}
    BY DEF PubStates
  <2> QED  BY <1>1, <1>2, <1>3, <1>5, <1>6, <2>1, <2>2, <2>3, <2>4, PublisherStep
<1> QED  BY <1>9, <1>10 DEF TakeMessage

LEMMA StepWakesUp ==
  ASSUME IInv, NEW n \in Names, WakeUp(n)
  PROVE  IInv'
<1>1. /\ pub[n] = "sleep" /\ pub' = [pub EXCEPT ![n] = "exited"]
      /\ "exited" \in PubStates \ {"none"}
      /\ UNCHANGED <<receiveVars, sendLock, sendCh, accum, offered, accepted, promised, dispVars,
                     writerVars>>
  BY DEF WakeUp, PubStates
<1>2. /\ sendCh' = [sendCh EXCEPT ![n] = sendCh[n]] /\ accum' = [accum EXCEPT ![n] = accum[n]]
      /\ offered' = [offered EXCEPT ![n] = offered[n]]
      /\ accepted' = [accepted EXCEPT ![n] = accepted[n]]
  BY <1>1 DEF IInv, TypeOK
<1>3. /\ sendCh[n] \in Seq(Messages) /\ accum[n] \in Seq(Messages)
      /\ offered[n] \in Seq(Messages) /\ accepted[n] \in Seq(Messages)
  BY PartTypes DEF IInv
<1>4. /\ Len(sendCh[n]) <= ChanCap /\ promised[n] <= Len(accepted[n])
      /\ ((Held(n) \o offered[n]) \o accum[n]) \o sendCh[n] = accepted[n]
      /\ offered[n] = <<>> /\ Len(accum[n]) < LargestBatch /\ Len(offered[n]) <= LargestBatch
      /\ stop \in {"pub", "done"} /\ promised[n] <= Len(Held(n) \o offered[n])
  BY <1>1 DEF IInv, TypeOK, Line, Out
<1> QED  BY <1>1, <1>2, <1>3, <1>4, PublisherStep

----------------------------------------------------------------------------
(* The dispatcher takes a batch: what was on offer is held now. *)
LEMMA StepTakesOffer ==
  ASSUME IInv, NEW n \in Names, TakeOffer(n)
  PROVE  IInv'
<1> DEFINE p == IF pub[n] = "offer" THEN "select" ELSE "sleep"
<1>1. /\ pub[n] \in {"offer", "finalOffer"} /\ disp[n] = "range"
      /\ p \in {"select", "sleep"} /\ (p = "sleep" => pub[n] = "finalOffer")
      /\ pub' = [pub EXCEPT ![n] = p]
      /\ disp' = [disp EXCEPT ![n] = "check"]
      /\ work' = [work EXCEPT ![n] = offered[n]]
      /\ offered' = [offered EXCEPT ![n] = <<>>]
      /\ UNCHANGED <<receiveVars, sendLock, sendCh, accum, accepted, promised, worker, dispatched,
                     dropped, writerVars>>
  BY DEF TakeOffer
<1> HIDE DEF p
<1>2. /\ offered[n] \in Seq(Messages) /\ offered[n] # <<>> /\ work[n] = <<>>
      /\ Given(n) \in Seq(Messages) /\ Held(n) \in Seq(Messages) /\ <<>> \in Seq(Messages)
      /\ Len(<<>>) = 0
  BY <1>1, PartTypes, EmptySeq DEF IInv, Line
<1>3. UNCHANGED <<stop, workerQueue, writer, calling, errsDue, handed, stored>> /\ ReceiveTypeOK'
  BY <1>1 DEF receiveVars, subVars, serviceVars, writerVars, IInv, TypeOK, ReceiveTypeOK
<1>4. TypeOK'
  <2>1. pub' \in [Names -> PubStates] /\ disp' \in [Names -> DispStates]
    BY <1>1 DEF IInv, TypeOK, PubStates, DispStates
  <2>2. {sendCh, accum, offered, work, accepted, dispatched, handed, dropped}'
          \subseteq [Names -> Seq(Messages)]
    <3> DEFINE Texts == [Names -> Seq(Messages)]
    <3>1. {sendCh, accum, offered, work, accepted, dispatched, handed, dropped} \subseteq Texts
      BY DEF IInv, TypeOK
    <3>2. offered' \in Texts /\ work' \in Texts
      BY <1>1, <1>2, <3>1
    <3> HIDE DEF Texts
    <3>3. {sendCh', accum', accepted', dispatched', handed', dropped'} \subseteq Texts
      BY <1>1, <1>3, <3>1
    <3>4. {sendCh, accum, offered, work, accepted, dispatched, handed, dropped}' \subseteq Texts
      BY <3>2, <3>3
    <3> QED  BY <3>4 DEF Texts
  <2> QED  BY <1>1, <1>3, <2>1, <2>2 DEF IInv, TypeOK
<1>5. ASSUME NEW k \in Names, k # n PROVE Line(k)' /\ Calls(k)'
  BY <1>1, <1>3, <1>5, LineSame, CallsSame DEF IInv, TypeOK
<1>6. pub'[n] = p /\ disp'[n] = "check" /\ work'[n] = offered[n] /\ offered'[n] = <<>>
  BY <1>1 DEF IInv, TypeOK
<1>7. /\ Held(n) = Given(n) /\ Held(n)' = Out(n) /\ Out(n)' = Out(n)
      /\ Len(Held(n)) <= Len(Out(n))
  <2>1. Held(n) = Given(n)
    BY <1>2, Slide DEF Held
  <2>2. Held(n)' = Given(n) \o offered[n]
    BY <1>1, <1>6 DEF Held, Given
  <2>3. Out(n)' = Held(n)' \o <<>>
    BY <1>6 DEF Out
  <2>4. Out(n) = Given(n) \o offered[n]
    BY <2>1 DEF Out
  <2>5. (Given(n) \o offered[n]) \o <<>> = Given(n) \o offered[n]
    BY <1>2, Slide
  <2>6. Len(Out(n)) = Len(Held(n)) + Len(offered[n]) /\ Len(Held(n)) \in Nat /\ Len(offered[n]) \in Nat
    BY <1>2, PartTypes, LenProperties DEF IInv
  <2> QED  BY <2>1, <2>2, <2>3, <2>4, <2>5, <2>6
<1>8. Line(n)'
  <2>1. /\ Line(n)
        /\ UNCHANGED <<sendCh, accum, accepted, promised, dropped, stop>>
    BY <1>1, <1>3 DEF IInv
  <2>2. Len(Out(n)) \in Nat /\ Len(Held(n)) \in Nat /\ promised[n] \in Nat /\ LargestBatch \in Nat
    BY PartTypes, LenProperties, BatchSizeType DEF IInv, TypeOK
  <2>3. stop = "done" => promised[n] <= Len(Out(n))
    BY <1>7, <2>1, <2>2 DEF Line
  <2>4. Len(offered'[n]) <= LargestBatch
    BY <1>2, <1>6, <2>2
  <2> QED  BY <1>1, <1>2, <1>6, <1>7, <2>1, <2>3, <2>4 DEF Line
<1>9. Calls(n)'
  BY <1>1, <1>3, <1>6, CallsSame DEF IInv
<1> QED  BY <1>4, <1>5, <1>8, <1>9 DEF IInv

(* Any step of the dispatcher of n by itself: it leaves d dispatched, x dropped
   and w in its hands, all that it held before. *)
LEMMA DispatcherStep ==
  ASSUME IInv, NEW n \in Names, NEW q \in DispStates \ {"none"},
         NEW d \in Seq(Messages), NEW x \in Seq(Messages), NEW w \in Seq(Messages),
         disp[n] # "none",
         disp' = [disp EXCEPT ![n] = q], work' = [work EXCEPT ![n] = w],
         dispatched' = [dispatched EXCEPT ![n] = d], dropped' = [dropped EXCEPT ![n] = x],
         worker' \in [Names -> Writers \cup {Nil}], workerQueue' \in [Names -> Seq(Writers)],
         UNCHANGED <<receiveVars, pubVars, errsDue, handed, stored>>,
         writer' \in [Names -> [Writers -> WriterStates]],
         calling' \in [Names -> [Writers -> Seq(Messages)]],
         \A k \in Names, v \in Writers : writer'[k][v] = "report" <=> writer[k][v] = "report",
         \A k \in Names : Calls(k)',
         (d \o x) \o w = Held(n),
         q \in {"check", "wait", "give"} <=> w # <<>>,
         q # "exited" => x = <<>>,
         Len(w) <= LargestBatch, Len(x) <= LargestBatch
  PROVE  IInv'
<1>1. /\ UNCHANGED <<sendLock, pub, sendCh, accum, offered, accepted, promised, stop>>
      /\ ReceiveTypeOK'
  BY DEF receiveVars, subVars, serviceVars, pubVars, IInv, TypeOK, ReceiveTypeOK
<1>2. TypeOK'
  <2>1. disp' \in [Names -> DispStates]
    BY DEF IInv, TypeOK
  <2>2. {sendCh, accum, offered, work, accepted, dispatched, handed, dropped}'
          \subseteq [Names -> Seq(Messages)]
    <3> DEFINE Texts == [Names -> Seq(Messages)]
    <3>1. {sendCh, accum, offered, work, accepted, dispatched, handed, dropped} \subseteq Texts
      BY DEF IInv, TypeOK
    <3>2. dispatched' \in Texts /\ work' \in Texts /\ dropped' \in Texts
      BY <3>1
    <3> HIDE DEF Texts
    <3>3. {sendCh', accum', accepted', offered', handed'} \subseteq Texts
      BY <1>1, <3>1
    <3>4. {sendCh, accum, offered, work, accepted, dispatched, handed, dropped}' \subseteq Texts
      BY <3>2, <3>3
    <3> QED  BY <3>4 DEF Texts
  <2>3. \A k \in Names, v \in Writers : errsDue'[k][v] > 0 <=> writer'[k][v] = "report"
    BY DEF IInv, TypeOK
  <2> QED  BY <1>1, <2>1, <2>2, <2>3 DEF IInv, TypeOK
<1>3. ASSUME NEW k \in Names, k # n PROVE Line(k)'
  BY <1>1, <1>3, LineSame DEF IInv, TypeOK
<1>4. disp'[n] = q /\ work'[n] = w /\ dispatched'[n] = d /\ dropped'[n] = x
  BY DEF IInv, TypeOK
<1>5. Held(n)' = Held(n) /\ Out(n)' = Out(n)
  BY <1>1, <1>4 DEF Given, Held, Out
<1>6. Line(n)'
  BY <1>1, <1>4, <1>5 DEF IInv, Line, DispStates
<1> QED  BY <1>2, <1>3, <1>6 DEF IInv

LEMMA StepDispatches ==
  ASSUME IInv, NEW n \in Names, CheckDone(n) \/ PickWriter(n)
  PROVE  IInv'
<1>1. /\ dispatched[n] \in Seq(Messages) /\ dropped[n] \in Seq(Messages)
      /\ work[n] \in Seq(Messages) /\ Held(n) = (dispatched[n] \o dropped[n]) \o work[n]
      /\ <<>> \in Seq(Messages) /\ Len(<<>>) = 0 /\ <<>> \o work[n] = work[n]
  BY PartTypes, EmptySeq, ConcatEmptySeq DEF IInv, Held, Given
<1>2. /\ disp[n] \in {"check", "wait"} /\ dropped[n] = <<>> /\ work[n] # <<>>
      /\ Len(work[n]) <= LargestBatch /\ Len(dropped[n]) <= LargestBatch
  BY DEF CheckDone, PickWriter, IInv, Line
<1>3. /\ work = [work EXCEPT ![n] = work[n]] /\ dropped = [dropped EXCEPT ![n] = dropped[n]]
      /\ dispatched = [dispatched EXCEPT ![n] = dispatched[n]]
  BY DEF IInv, TypeOK
<1>4. /\ UNCHANGED <<receiveVars, pubVars, errsDue, handed, stored, writer, calling, dispatched>>
      /\ pub' = pub
  BY DEF CheckDone, PickWriter, pubVars, writerVars
<1>5. /\ writer' \in [Names -> [Writers -> WriterStates]]
      /\ calling' \in [Names -> [Writers -> Seq(Messages)]]
      /\ \A k \in Names, v \in Writers : writer'[k][v] = "report" <=> writer[k][v] = "report"
      /\ \A k \in Names : Calls(k)'
  BY <1>4 DEF IInv, TypeOK, Calls
<1>6. /\ worker' \in [Names -> Writers \cup {Nil}] /\ workerQueue' \in [Names -> Seq(Writers)]
  <2>1. CASE CheckDone(n)
    BY <2>1 DEF CheckDone, writerVars, IInv, TypeOK
  <2>2. CASE PickWriter(n)
    <3>1. workerQueue[n] \in Seq(Writers) /\ workerQueue[n] # <<>>
      BY <2>2 DEF PickWriter, IInv, TypeOK
    <3>2. Head(workerQueue[n]) \in Writers /\ Tail(workerQueue[n]) \in Seq(Writers)
      BY <3>1, HeadTailProperties
    <3> QED  BY <2>2, <3>2 DEF PickWriter, IInv, TypeOK
  <2> QED  BY <2>1, <2>2
<1>7. {"wait", "give", "exited"} \subseteq DispStates \ {"none"}
  BY DEF DispStates
<1>8. CASE UNCHANGED <<work, dropped>> /\ \E q \in {"wait", "give"} : disp' = [disp EXCEPT ![n] = q]
  <2>1. PICK q \in {"wait", "give"} : disp' = [disp EXCEPT ![n] = q]
    BY <1>8
  <2> QED  BY <1>1, <1>2, <1>3, <1>4, <1>5, <1>6, <1>7, <1>8, <2>1, DispatcherStep, ZenonT(60)
<1>9. CASE /\ disp' = [disp EXCEPT ![n] = "exited"]
           /\ dropped' = [dropped EXCEPT ![n] = @ \o work[n]]
           /\ work' = [work EXCEPT ![n] = <<>>]
  <2>1. dropped' = [dropped EXCEPT ![n] = work[n]]
    BY <1>1, <1>2, <1>9 DEF IInv, TypeOK
  <2>2. (dispatched[n] \o work[n]) \o <<>> = Held(n)
    BY <1>1, <1>2, Slide
  <2>3. Len(<<>>) <= LargestBatch
    BY <1>1, BatchSizeType
  <2> QED  BY <1>1, <1>2, <1>3, <1>4, <1>5, <1>6, <1>7, <1>9, <2>1, <2>2, <2>3, DispatcherStep
<1> QED  BY <1>8, <1>9 DEF CheckDone, PickWriter

LEMMA StepGives ==
  ASSUME IInv, NEW n \in Names, NEW w \in Writers, GiveWork(n, w)
  PROVE  IInv'
<1>1. /\ dispatched[n] \in Seq(Messages) /\ dropped[n] \in Seq(Messages)
      /\ work[n] \in Seq(Messages) /\ Held(n) = (dispatched[n] \o dropped[n]) \o work[n]
      /\ <<>> \in Seq(Messages) /\ Len(<<>>) = 0
      /\ dispatched[n] \o work[n] \in Seq(Messages)
  BY PartTypes, EmptySeq, ConcatProperties DEF IInv, Held, Given
<1>2. /\ disp[n] = "give" /\ dropped[n] = <<>> /\ work[n] # <<>> /\ writer[n][w] = "idle"
      /\ Len(work[n]) <= LargestBatch /\ Len(dropped[n]) <= LargestBatch
      /\ disp' = [disp EXCEPT ![n] = "range"]
      /\ work' = [work EXCEPT ![n] = <<>>]
      /\ dispatched' = [dispatched EXCEPT ![n] = dispatched[n] \o work[n]]
      /\ worker' = [worker EXCEPT ![n] = Nil]
      /\ writer' = [writer EXCEPT ![n][w] = "call"]
      /\ calling' = [calling EXCEPT ![n][w] = work[n]]
      /\ UNCHANGED <<receiveVars, pubVars, dropped, workerQueue, errsDue, handed, stored>>
  BY DEF GiveWork, NextWork, IInv, TypeOK, Line
<1>3. /\ dropped' = [dropped EXCEPT ![n] = dropped[n]]
      /\ worker' \in [Names -> Writers \cup {Nil}] /\ workerQueue' \in [Names -> Seq(Writers)]
  BY <1>2 DEF IInv, TypeOK
<1>4. /\ writer' \in [Names -> [Writers -> WriterStates]]
      /\ writer'[n][w] = "call"
      /\ \A k \in Names, v \in Writers : k # n \/ v # w => writer'[k][v] = writer[k][v]
  BY <1>2 DEF IInv, TypeOK, WriterStates
<1>5. /\ calling' \in [Names -> [Writers -> Seq(Messages)]]
      /\ calling'[n][w] = work[n]
      /\ \A k \in Names, v \in Writers : k # n \/ v # w => calling'[k][v] = calling[k][v]
  BY <1>1, <1>2 DEF IInv, TypeOK
<1>6. ASSUME NEW k \in Names PROVE Calls(k)'
  <2>1. pub'[k] = pub[k]
    BY <1>2 DEF pubVars
  <2>2. pub[n] # "none"
    BY <1>2 DEF IInv, Calls
  <2> QED  BY <1>2, <1>4, <1>5, <2>1, <2>2 DEF IInv, Calls
<1>7. \A k \in Names, v \in Writers : writer'[k][v] = "report" <=> writer[k][v] = "report"
  BY <1>2, <1>4
<1>8. ((dispatched[n] \o work[n]) \o dropped[n]) \o <<>> = Held(n)
  <2>1. (dispatched[n] \o work[n]) \o <<>> = dispatched[n] \o work[n]
    BY <1>1, Slide
  <2>2. (dispatched[n] \o <<>>) \o work[n] = dispatched[n] \o work[n]
    BY <1>1, Slide
  <2> QED  BY <1>1, <1>2, <2>1, <2>2
<1>9. "range" \in DispStates \ {"none"} /\ Len(<<>>) <= LargestBatch
  BY <1>1, BatchSizeType DEF DispStates
<1> QED  BY <1>1, <1>2, <1>3, <1>4, <1>5, <1>6, <1>7, <1>8, <1>9, DispatcherStep

(* Any step of a writer of n by itself: it goes to u with the batch c and e errors. *)
LEMMA WriterStep ==
  ASSUME IInv, NEW n \in Names, NEW w \in Writers, NEW u \in WriterStates \ {"none"},
         NEW c \in Seq(Messages), NEW e \in Nat,
         writer[n][w] # "none",
         writer' = [writer EXCEPT ![n][w] = u], calling' = [calling EXCEPT ![n][w] = c],
         errsDue' = [errsDue EXCEPT ![n][w] = e],
         c = <<>> <=> u # "call", Len(c) <= LargestBatch, e > 0 <=> u = "report",
         ReceiveTypeOK', stop' = stop, workerQueue' \in [Names -> Seq(Writers)],
         handed' \in [Names -> Seq(Messages)], stored' \in [Names -> SUBSET Messages],
         UNCHANGED <<pubVars, dispVars>>
  PROVE  IInv'
<1>1. UNCHANGED <<sendLock, pub, sendCh, accum, offered, accepted, promised, disp, work, worker,
                  dispatched, dropped>>
  BY DEF pubVars, dispVars
<1>2. /\ writer' \in [Names -> [Writers -> WriterStates]] /\ writer'[n][w] = u
      /\ \A k \in Names, v \in Writers : k # n \/ v # w => writer'[k][v] = writer[k][v]
  BY DEF IInv, TypeOK
<1>3. /\ calling' \in [Names -> [Writers -> Seq(Messages)]] /\ calling'[n][w] = c
      /\ \A k \in Names, v \in Writers : k # n \/ v # w => calling'[k][v] = calling[k][v]
  BY DEF IInv, TypeOK
<1>4. /\ errsDue' \in [Names -> [Writers -> Nat]] /\ errsDue'[n][w] = e
      /\ \A k \in Names, v \in Writers : k # n \/ v # w => errsDue'[k][v] = errsDue[k][v]
  BY DEF IInv, TypeOK
<1>5. \A k \in Names, v \in Writers : errsDue'[k][v] > 0 <=> writer'[k][v] = "report"
  <2>1. \A k \in Names, v \in Writers : errsDue[k][v] > 0 <=> writer[k][v] = "report"
    BY DEF IInv, TypeOK
  <2>2. errsDue'[n][w] > 0 <=> writer'[n][w] = "report"
    BY <1>2, <1>4
  <2>3. ASSUME NEW k \in Names, NEW v \in Writers, k # n \/ v # w
        PROVE  errsDue'[k][v] > 0 <=> writer'[k][v] = "report"
    <3>1. errsDue'[k][v] = errsDue[k][v] /\ writer'[k][v] = writer[k][v]
      BY <1>2, <1>4, <2>3
    <3> QED  BY <2>1, <3>1
  <2> QED  BY <2>2, <2>3
<1>6. TypeOK'
  <2>1. {sendCh, accum, offered, work, accepted, dispatched, handed, dropped}'
          \subseteq [Names -> Seq(Messages)]
    <3> DEFINE Texts == [Names -> Seq(Messages)]
    <3>1. {sendCh, accum, offered, work, accepted, dispatched, dropped} \subseteq Texts
      BY DEF IInv, TypeOK
    <3>2. handed' \in Texts
      OBVIOUS
    <3> HIDE DEF Texts
    <3>3. {sendCh, accum, offered, work, accepted, dispatched, handed, dropped}' \subseteq Texts
      BY <1>1, <3>1, <3>2
    <3> QED  BY <3>3 DEF Texts
  <2> QED  BY <1>1, <1>2, <1>3, <1>4, <1>5, <2>1 DEF IInv, TypeOK
<1>7. \A k \in Names : Line(k)'
  BY <1>1, LineSame DEF IInv
<1>8. ASSUME NEW k \in Names PROVE Calls(k)'
  BY <1>1, <1>2, <1>3 DEF IInv, Calls
<1> QED  BY <1>6, <1>7, <1>8 DEF IInv

LEMMA StepWrites ==
  ASSUME IInv, NEW n \in Names, NEW w \in Writers, Writer(n, w)
  PROVE  IInv'
<1>1. /\ writer[n][w] \in WriterStates /\ calling[n][w] \in Seq(Messages) /\ errsDue[n][w] \in Nat
      /\ calling = [calling EXCEPT ![n][w] = calling[n][w]]
      /\ errsDue = [errsDue EXCEPT ![n][w] = errsDue[n][w]]
      /\ workerQueue \in [Names -> Seq(Writers)]
      /\ handed \in [Names -> Seq(Messages)] /\ stored \in [Names -> SUBSET Messages]
  <2>1. /\ writer \in [Names -> [Writers -> WriterStates]]
        /\ calling \in [Names -> [Writers -> Seq(Messages)]]
        /\ errsDue \in [Names -> [Writers -> Nat]]
        /\ workerQueue \in [Names -> Seq(Writers)]
        /\ handed \in [Names -> Seq(Messages)] /\ stored \in [Names -> SUBSET Messages]
    BY DEF IInv, TypeOK
  <2>2. \A S : \A f \in [Names -> [Writers -> S]] : f = [f EXCEPT ![n][w] = f[n][w]]
    OBVIOUS
  <2> QED  BY <2>1, <2>2
<1>2. /\ calling[n][w] = <<>> <=> writer[n][w] # "call"
      /\ Len(calling[n][w]) <= LargestBatch
      /\ errsDue[n][w] > 0 <=> writer[n][w] = "report"
  BY DEF IInv, TypeOK, Calls
<1>3. /\ <<>> \in Seq(Messages) /\ Len(<<>>) <= LargestBatch
      /\ {"register", "idle", "exited", "call", "report"} \subseteq WriterStates \ {"none"}
  BY EmptySeq, BatchSizeType DEF WriterStates
<1>4. CASE Register(n, w)
  <2>1. /\ writer[n][w] = "register" /\ writer' = [writer EXCEPT ![n][w] = "idle"]
        /\ workerQueue' = [workerQueue EXCEPT ![n] = Append(@, w)]
        /\ UNCHANGED <<receiveVars, pubVars, dispVars, calling, errsDue, handed, stored>>
    BY <1>4 DEF Register
  <2>2. workerQueue' \in [Names -> Seq(Writers)]
    <3>1. Append(workerQueue[n], w) \in Seq(Writers)
      BY <1>1, AppendProperties
    <3> QED  BY <1>1, <2>1, <3>1
  <2>3. ReceiveTypeOK' /\ stop' = stop
    BY <2>1, ReceiveTypeSame DEF IInv, TypeOK, receiveVars
  <2>4. /\ calling' = [calling EXCEPT ![n][w] = calling[n][w]]
        /\ errsDue' = [errsDue EXCEPT ![n][w] = errsDue[n][w]]
        /\ handed' \in [Names -> Seq(Messages)] /\ stored' \in [Names -> SUBSET Messages]
        /\ UNCHANGED <<pubVars, dispVars>>
    BY <1>1, <2>1
  <2>5. /\ calling[n][w] = <<>> <=> "idle" # "call"
        /\ errsDue[n][w] > 0 <=> "idle" = "report"
        /\ "idle" \in WriterStates \ {"none"} /\ writer[n][w] # "none"
    BY <1>2, <1>3, <2>1
  <2> QED  BY <1>1, <1>2, <2>1, <2>2, <2>3, <2>4, <2>5, WriterStep
<1>5. CASE WriterSeesDone(n, w)
  <2>1. /\ writer[n][w] = "idle" /\ writer' = [writer EXCEPT ![n][w] = "exited"]
        /\ UNCHANGED <<receiveVars, pubVars, dispVars, workerQueue, calling, errsDue, handed, stored>>
    BY <1>5 DEF WriterSeesDone
  <2>2. ReceiveTypeOK' /\ stop' = stop
    BY <2>1, ReceiveTypeSame DEF IInv, TypeOK, receiveVars
  <2>3. /\ calling' = [calling EXCEPT ![n][w] = calling[n][w]]
        /\ errsDue' = [errsDue EXCEPT ![n][w] = errsDue[n][w]]
        /\ workerQueue' \in [Names -> Seq(Writers)]
        /\ handed' \in [Names -> Seq(Messages)] /\ stored' \in [Names -> SUBSET Messages]
        /\ UNCHANGED <<pubVars, dispVars>>
    BY <1>1, <2>1
  <2>4. /\ calling[n][w] = <<>> <=> "exited" # "call"
        /\ errsDue[n][w] > 0 <=> "exited" = "report"
        /\ "exited" \in WriterStates \ {"none"} /\ writer[n][w] # "none"
    BY <1>2, <1>3, <2>1
  <2> QED  BY <1>1, <1>2, <2>1, <2>2, <2>3, <2>4, WriterStep
<1>6. CASE CallFails(n, w) \/ CallSucceeds(n, w)
  <2>1. PICK S \in SUBSET Range(calling[n][w]), k \in Nat : CallReturns(n, w, S, k)
    BY <1>6, CallOutcome DEF IInv
  <2>2. S \in SUBSET Messages
    BY <1>1, SMT DEF Range
  <2>3. /\ writer[n][w] = "call" /\ writer' = [writer EXCEPT ![n][w] = AfterCall(k)]
        /\ calling' = [calling EXCEPT ![n][w] = <<>>]
        /\ errsDue' = [errsDue EXCEPT ![n][w] = k]
        /\ stored' = [stored EXCEPT ![n] = @ \cup S]
        /\ visible' = [visible EXCEPT ![n] = @ \cup S]
        /\ handed' = [handed EXCEPT ![n] = @ \o calling[n][w]]
        /\ UNCHANGED <<errChan, stop, subVars, hidden, stale, shares, elsewhere, lost, pubVars,
                       dispVars, workerQueue>>
    BY <2>1 DEF CallReturns
  <2>4. /\ AfterCall(k) \in WriterStates \ {"none"} /\ AfterCall(k) # "call"
        /\ k > 0 <=> AfterCall(k) = "report"
    BY DEF AfterCall, WriterStates
  <2>5. handed' \in [Names -> Seq(Messages)]
    <3>1. handed[n] \o calling[n][w] \in Seq(Messages)
      BY <1>1, ConcatProperties
    <3> QED  BY <1>1, <2>3, <3>1
  <2>6. stored' \in [Names -> SUBSET Messages]
    BY <1>1, <2>2, <2>3
  <2>7. ReceiveTypeOK'
    BY <2>2, <2>3 DEF IInv, TypeOK, ReceiveTypeOK, subVars
  <2> QED  BY <1>1, <1>2, <1>3, <2>3, <2>4, <2>5, <2>6, <2>7, WriterStep
<1>7. CASE ReportSendError(n, w)
  <2> DEFINE u == IF MoreToReport(n, w) THEN "report" ELSE "register"
             e == errsDue[n][w] - 1
  <2>1. /\ writer[n][w] = "report" /\ errsDue[n][w] > 0
        /\ PutError(n)
        /\ UNCHANGED <<stop, subVars, serviceVars, pubVars, dispVars, workerQueue, calling, handed,
                       stored>>
    BY <1>2, <1>7 DEF ReportSendError
  <2>2. writer' = [writer EXCEPT ![n][w] = u] /\ errsDue' = [errsDue EXCEPT ![n][w] = e]
    BY <1>7, <2>1 DEF ReportSendError, IInv, TypeOK
  <2>3. u \in {"report", "register"} /\ e \in Nat /\ (e > 0 <=> u = "report")
    BY <1>1, <2>1 DEF MoreToReport
  <2>4. ReceiveTypeOK'
    <3>1. errChan' \in Seq(Names) /\ Len(errChan') <= ErrCap
      BY <2>1, PutErrorType DEF IInv, TypeOK
    <3> QED  BY <2>1, <3>1 DEF IInv, TypeOK, ReceiveTypeOK, subVars, serviceVars
  <2> HIDE DEF u, e
  <2> QED  BY <1>1, <1>2, <1>3, <2>1, <2>2, <2>3, <2>4, WriterStep
<1> QED  BY <1>4, <1>5, <1>6, <1>7 DEF Writer

----------------------------------------------------------------------------
(* The receiving half leaves the sending half, and Stop, alone. *)
LEMMA ReceiveLeavesStop == ReceiveNext => stop' = stop
BY DEF ReceiveNext, ReceiveReports, DrainErr, Receive, ReceiveOpens, ReceiveFails, Subscriber,
       Poll, ReceiveNothing, ReceiveError, ReceiveMessage, DeleteMessage, DeleteError, Deliver,
       ReportReceiveError, ClientReceive, Service, VisibilityTimeout, OtherReceives, OtherDeletes

LEMMA StepReceives == ASSUME IInv, Receiving PROVE IInv'
<1>1. UNCHANGED <<sendLock, pub, sendCh, accum, offered, accepted, promised, disp, work, worker,
                  dispatched, dropped, workerQueue, writer, calling, errsDue, handed, stored>>
  BY DEF Receiving, sendVars, pubVars, dispVars, writerVars
<1>2. ReceiveTypeOK'
  BY ReceiveStepType DEF Receiving, IInv, TypeOK
<1>3. stop' = stop
  BY ReceiveLeavesStop DEF Receiving
<1>4. TypeOK'
  BY <1>1, <1>2 DEF IInv, TypeOK
<1> QED  BY <1>1, <1>3, <1>4, LineSame, CallsSame DEF IInv

(* Stop promises what has been accepted, and waits until every publisher has
   given all of that to its dispatcher. *)
LEMMA StepStops == ASSUME IInv, Stop PROVE IInv'
<1>1. UNCHANGED <<sendLock, pub, sendCh, accum, offered, accepted, disp, work, worker, dispatched,
                  dropped, workerQueue, writer, calling, errsDue, handed, stored>>
  BY DEF Stop, CallStop, ClosePubChan, CloseDone, sendVars, pubVars, dispVars, writerVars
<1>2. ReceiveTypeOK'
  BY DEF Stop, CallStop, ClosePubChan, CloseDone, subVars, serviceVars, IInv, TypeOK, ReceiveTypeOK
<1>3. ASSUME NEW n \in Names
      PROVE  /\ Len(accepted[n]) \in Nat /\ Len(Held(n)) \in Nat /\ Len(Out(n)) \in Nat
             /\ promised[n] \in Nat /\ Len(offered[n]) \in Nat
             /\ Len(Out(n)) = Len(Held(n)) + Len(offered[n])
             /\ Held(n)' = Held(n) /\ Out(n)' = Out(n)
  BY <1>1, PartTypes, LenProperties DEF IInv, TypeOK, Given, Held, Out
<1>4. promised' \in [Names -> Nat]
  BY <1>3 DEF Stop, CallStop, ClosePubChan, CloseDone, sendVars, pubVars, IInv, TypeOK
<1>5. TypeOK'
  BY <1>1, <1>2, <1>4 DEF IInv, TypeOK
<1>6. ASSUME NEW n \in Names PROVE Line(n)'
  <2>1. CASE CallStop
    <3>1. stop = "no" /\ stop' = "sub" /\ promised' = promised
      BY <2>1 DEF CallStop, sendVars, pubVars
    <3> QED  BY <1>1, <1>3, <3>1 DEF IInv, Line
  <2>2. CASE ClosePubChan
    <3>1. stop = "sub" /\ stop' = "pub" /\ promised'[n] = Len(accepted[n])
      BY <2>2 DEF ClosePubChan
    <3>2. pub[n] \notin {"finalOffer", "sleep", "exited"}
      BY <3>1 DEF IInv, Line
    <3>3. /\ pub'[n] = pub[n] /\ disp'[n] = disp[n] /\ sendCh'[n] = sendCh[n]
          /\ accum'[n] = accum[n] /\ offered'[n] = offered[n] /\ work'[n] = work[n]
          /\ accepted'[n] = accepted[n] /\ dropped'[n] = dropped[n]
          /\ Held(n)' = Held(n) /\ Out(n)' = Out(n)
      BY <1>1, <1>3
    <3>4. Line(n)
      BY DEF IInv
    <3>5. promised'[n] <= Len(accepted'[n])
      BY <1>3, <3>1, <3>3
    <3> QED  BY <3>1, <3>2, <3>3, <3>4, <3>5 DEF Line
  <2>3. CASE CloseDone
    <3>1. stop = "pub" /\ stop' = "done" /\ promised' = promised /\ pub[n] \in {"none", "exited"}
      BY <2>3 DEF CloseDone, sendVars, pubVars
    <3>2. promised[n] <= Len(Held(n))
      <4>1. CASE pub[n] = "exited"
        <5>1. offered[n] = <<>> /\ promised[n] <= Len(Out(n))
          BY <4>1 DEF IInv, Line
        <5> QED  BY <1>3, <5>1, EmptySeq
      <4>2. CASE pub[n] = "none"
        <5>1. promised[n] <= Len(accepted[n]) /\ accepted[n] = <<>>
          BY <4>2 DEF IInv, Line
        <5> QED  BY <1>3, <5>1, EmptySeq
      <4> QED  BY <3>1, <4>1, <4>2
    <3>3. /\ pub'[n] = pub[n] /\ disp'[n] = disp[n] /\ sendCh'[n] = sendCh[n]
          /\ accum'[n] = accum[n] /\ offered'[n] = offered[n] /\ work'[n] = work[n]
          /\ accepted'[n] = accepted[n] /\ dropped'[n] = dropped[n] /\ promised'[n] = promised[n]
          /\ Held(n)' = Held(n) /\ Out(n)' = Out(n)
      BY <1>1, <1>3, <3>1
    <3>4. Line(n)
      BY DEF IInv
    <3> QED  BY <3>1, <3>2, <3>3, <3>4 DEF Line
  <2> QED  BY <2>1, <2>2, <2>3 DEF Stop
<1>7. \A n \in Names : Calls(n)'
  BY <1>1, CallsSame DEF IInv
<1> QED  BY <1>5, <1>6, <1>7 DEF IInv

(* The invariant is inductive. *)
THEOREM Step == IInv /\ [Next]_vars => IInv'
<1> SUFFICES ASSUME IInv, [Next]_vars PROVE IInv'
  OBVIOUS
<1>1. CASE Receiving
  BY <1>1, StepReceives
<1>2. CASE Stop
  BY <1>2, StepStops
<1>3. CASE SendReports
  <2>1. PICK n : n \in Names
    BY <1>3 DEF SendReports, IInv, TypeOK
  <2> QED  BY <1>3, <2>1, StepSends
<1>4. ASSUME NEW n \in Names, SendOpens(n) \/ SendFails(n) PROVE IInv'
  BY <1>4, StepSends
<1>5. ASSUME NEW n \in Names, Publisher(n) PROVE IInv'
  BY <1>5, StepOffers, StepTakesMessage, StepTakesOffer, StepWakesUp DEF Publisher
<1>6. ASSUME NEW n \in Names, Dispatcher(n) PROVE IInv'
  BY <1>6, StepDispatches, StepGives DEF Dispatcher
<1>7. ASSUME NEW n \in Names, NEW w \in Writers, Writer(n, w) PROVE IInv'
  BY <1>7, StepWrites
<1>8. ASSUME NEW n \in Names, NEW m \in Outgoing, ClientSend(n, m) PROVE IInv'
  BY <1>8, StepClientSend
<1>9. CASE UNCHANGED vars
  <2>1. /\ UNCHANGED <<sendLock, pub, sendCh, accum, offered, accepted, promised, disp, work, worker,
                       dispatched, dropped, workerQueue, writer, calling, errsDue, handed, stored>>
        /\ UNCHANGED receiveVars
    BY <1>9 DEF vars, sendVars, pubVars, dispVars, writerVars
  <2>2. ReceiveTypeOK' /\ stop' = stop
    BY <2>1, ReceiveTypeSame DEF IInv, TypeOK, receiveVars
  <2>3. TypeOK'
    BY <2>1, <2>2 DEF IInv, TypeOK
  <2> QED  BY <2>1, <2>2, <2>3, LineSame, CallsSame DEF IInv
<1> QED  BY <1>1, <1>2, <1>3, <1>4, <1>5, <1>6, <1>7, <1>8, <1>9 DEF Next, SendNext

THEOREM Inductive == Spec => []IInv
BY InitInv, Step, PTL DEF Spec

(* The variables of MultiTransport keep their types: no channel exceeds its
   capacity, and a writer has errors to report just while it reports. *)
THEOREM TypeCorrect == Spec => []TypeOK
<1>1. IInv => TypeOK
  BY DEF IInv
<1> QED  BY <1>1, Inductive, PTL

(* From the Send channel to the writers no message is repeated, overtaken or
   forgotten but in a dropped batch, whatever the batch size. *)
THEOREM InOrder == Spec => []DispatchedInOrder
<1>1. IInv => DispatchedInOrder
  BY DEF IInv, Line, Out, Held, Given, DispatchedInOrder
<1> QED  BY <1>1, Inductive, PTL

(* When Done is closed at most one batch of each name has not reached a writer. *)
THEOREM OneBatchLeft == Spec => []AtMostOneBatchLeft
<1>1. IInv => AtMostOneBatchLeft
  <2> SUFFICES ASSUME IInv, stop = "done", NEW n \in Names
               PROVE  promised[n] - Len(dispatched[n]) <= LargestBatch
    BY DEF AtMostOneBatchLeft
  <2>1. /\ promised[n] <= Len(Held(n))
        /\ Len(work[n]) <= LargestBatch /\ Len(dropped[n]) <= LargestBatch
        /\ dropped[n] = <<>> \/ work[n] = <<>>
    BY DEF IInv, Line
  <2>2. Len(Held(n)) = Len(dispatched[n]) + Len(dropped[n]) + Len(work[n])
    BY PartTypes DEF IInv
  <2>3. /\ promised[n] \in Nat /\ Len(dispatched[n]) \in Nat /\ Len(dropped[n]) \in Nat
        /\ Len(work[n]) \in Nat /\ LargestBatch \in Nat
    BY PartTypes, LenProperties, BatchSizeType DEF IInv, TypeOK
  <2>4. Len(dropped[n]) = 0 \/ Len(work[n]) = 0
    BY <2>1, EmptySeq
  <2> DEFINE p == promised[n]
             d == Len(dispatched[n])
             x == Len(dropped[n])
             k == Len(work[n])
             l == LargestBatch
  <2>5. /\ p \in Nat /\ d \in Nat /\ x \in Nat /\ k \in Nat /\ l \in Nat
        /\ p <= d + x + k /\ x <= l /\ k <= l /\ (x = 0 \/ k = 0)
    BY <2>1, <2>2, <2>3, <2>4
  <2> HIDE DEF p, d, x, k, l
  <2>6. p - d <= l
    BY <2>5
  <2> QED  BY <2>6 DEF p, d, l
<1> QED  BY <1>1, Inductive, PTL

(* No call exceeds the limit NewMulti clamps the batch size to, and none is made
   without entries. *)
THEOREM BatchesFit == Spec => []BatchWithinLimit
<1>1. IInv => BatchWithinLimit
  <2> SUFFICES ASSUME IInv, NEW n \in Names, NEW w \in Writers
               PROVE  /\ Len(calling[n][w]) <= MaxBatch
                      /\ calling[n][w] = <<>> <=> writer[n][w] # "call"
    BY DEF BatchWithinLimit
  <2>1. Len(calling[n][w]) <= LargestBatch /\ (calling[n][w] = <<>> <=> writer[n][w] # "call")
    BY DEF IInv, Calls
  <2>2. Len(calling[n][w]) \in Nat
    BY LenProperties DEF IInv, TypeOK
  <2> QED  BY <2>1, <2>2, BatchSizeType, SqsMultiAssumption
<1> QED  BY <1>1, Inductive, PTL
----------------------------------------------------------------------------
(* Each message in one call of one writer.  Clients send a message once, what the
   dispatcher holds has been given to no writer yet, and what a writer calls the
   service with is in no other call. *)
Writing(n) ==
  /\ IsInjective(accepted[n])
  /\ Range(handed[n]) \cup InCalls(n) = Range(dispatched[n])
  /\ Range(handed[n]) \cap InCalls(n) = {}
  /\ IsInjective(handed[n])
  /\ \A w \in Writers : IsInjective(calling[n][w])
  /\ \A v, w \in Writers : v # w => Range(calling[n][v]) \cap Range(calling[n][w]) = {}

LEMMA WritingSame ==
  ASSUME NEW q, Writing(q), UNCHANGED <<accepted[q], handed[q], dispatched[q], calling[q]>>
  PROVE  Writing(q)'
BY DEF Writing, InCalls

(* The steps that move a message of q into, or out of, a call. *)
LEMMA Moves ==
  ASSUME TypeOK, NEW q \in Names, [Next]_vars
  PROVE  \/ UNCHANGED <<accepted[q], handed[q], dispatched[q], calling[q]>>
         \/ \E m \in Outgoing : ClientSend(q, m)
         \/ \E w \in Writers : GiveWork(q, w)
         \/ \E w \in Writers, k \in Nat :
              \E S \in SUBSET Range(calling[q][w]) : CallReturns(q, w, S, k)
<1> DEFINE Same == UNCHANGED <<accepted[q], handed[q], dispatched[q], calling[q]>>
<1>1. ASSUME Receiving \/ Stop \/ SendReports \/ UNCHANGED vars PROVE Same
  <2>1. UNCHANGED <<accepted, handed, dispatched, calling>>
    BY <1>1 DEF Receiving, Stop, CallStop, ClosePubChan, CloseDone, SendReports, vars, sendVars,
                pubVars, dispVars, writerVars
  <2> QED  BY <2>1
<1>2. ASSUME NEW n \in Names, SendOpens(n) \/ SendFails(n) \/ Publisher(n) PROVE Same
  <2>1. UNCHANGED <<accepted, handed, dispatched, calling>>
    BY <1>2 DEF SendOpens, SendFails, Publisher, SeeStop, TakeMessage, BatchTimeout, TakeOffer,
                WakeUp, dispVars, writerVars
  <2> QED  BY <2>1
<1>3. ASSUME NEW n \in Names, CheckDone(n) \/ PickWriter(n) PROVE Same
  BY <1>3 DEF CheckDone, PickWriter, pubVars, writerVars
<1>4. ASSUME NEW n \in Names, NEW w \in Writers,
             Register(n, w) \/ WriterSeesDone(n, w) \/ ReportSendError(n, w)
      PROVE  Same
  BY <1>4 DEF Register, WriterSeesDone, ReportSendError, pubVars, dispVars
<1>5. ASSUME NEW n \in Names, NEW m \in Outgoing, ClientSend(n, m)
      PROVE  n = q \/ Same
  BY <1>5 DEF ClientSend, dispVars, writerVars, TypeOK
<1>6. ASSUME NEW n \in Names, NEW w \in Writers, GiveWork(n, w)
      PROVE  n = q \/ Same
  BY <1>6 DEF GiveWork, pubVars, TypeOK
<1>7. ASSUME NEW n \in Names, NEW w \in Writers, CallFails(n, w) \/ CallSucceeds(n, w)
      PROVE  \E k \in Nat, S \in SUBSET Range(calling[n][w]) : CallReturns(n, w, S, k)
  BY <1>7, CallOutcome
<1>8. ASSUME NEW n \in Names, NEW w \in Writers, NEW k \in Nat,
             NEW S \in SUBSET Range(calling[n][w]), CallReturns(n, w, S, k)
      PROVE  n = q \/ Same
  BY <1>8 DEF CallReturns, pubVars, dispVars, TypeOK
<1> DEFINE Sent == \E m \in Outgoing : ClientSend(q, m)
           Gave == \E w \in Writers : GiveWork(q, w)
           Back == \E w \in Writers, k \in Nat :
                     \E S \in SUBSET Range(calling[q][w]) : CallReturns(q, w, S, k)
<1>9. ASSUME NEW n \in Names, NEW w \in Writers, CallFails(n, w) \/ CallSucceeds(n, w)
      PROVE  Same \/ Back
  <2> HIDE DEF Same
  <2>1. PICK k \in Nat, S \in SUBSET Range(calling[n][w]) : CallReturns(n, w, S, k)
    BY <1>7, <1>9
  <2> QED  BY <1>8, <2>1
<1> HIDE DEF Same, Back
<1>10. ASSUME NEW n \in Names, NEW w \in Writers, Writer(n, w)
       PROVE  Same \/ Back
  BY <1>4, <1>9, <1>10 DEF Writer
<1>11. ASSUME NEW n \in Names, Dispatcher(n)
       PROVE  Same \/ Gave
  BY <1>3, <1>6, <1>11 DEF Dispatcher
<1>12. ASSUME NEW n \in Names, NEW m \in Outgoing, ClientSend(n, m)
       PROVE  Same \/ Sent
  BY <1>5, <1>12
<1> HIDE DEF Sent, Gave
<1>13. Same \/ Sent \/ Gave \/ Back
  BY <1>1, <1>2, <1>10, <1>11, <1>12 DEF Next, SendNext
<1> QED  BY <1>13 DEF Same, Sent, Gave, Back

(* What the dispatcher holds comes from the clients once, and after all that it
   has given away. *)
LEMMA WorkIsNew ==
  ASSUME IInv, NEW n \in Names, IsInjective(accepted[n])
  PROVE  IsInjective(work[n]) /\ Range(dispatched[n]) \cap Range(work[n]) = {}
<1>1. /\ sendCh[n] \in Seq(Messages) /\ accum[n] \in Seq(Messages)
      /\ offered[n] \in Seq(Messages) /\ work[n] \in Seq(Messages)
      /\ dispatched[n] \in Seq(Messages) /\ dropped[n] \in Seq(Messages)
      /\ Given(n) \in Seq(Messages) /\ Held(n) \in Seq(Messages) /\ Out(n) \in Seq(Messages)
  BY PartTypes DEF IInv
<1> DEFINE taken == Out(n) \o accum[n]
<1>2. taken \in Seq(Messages)
  BY <1>1, ConcatProperties
<1>3. taken \o sendCh[n] = accepted[n]
  BY DEF IInv, Line
<1>4. IsInjective(taken)
  <2> HIDE DEF taken
  <2>1. IsInjective(taken \o sendCh[n])
    BY <1>3
  <2> QED  BY <1>1, <1>2, <2>1, InjectiveParts
<1>5. IsInjective(Out(n))
  BY <1>1, <1>4, InjectiveParts
<1>6. IsInjective(Held(n))
  BY <1>1, <1>5, InjectiveParts DEF Out
<1>7. IsInjective(work[n]) /\ Range(Given(n)) \cap Range(work[n]) = {}
  BY <1>1, <1>6, InjectiveParts DEF Held
<1>8. Range(Given(n)) = Range(dispatched[n]) \cup Range(dropped[n])
  BY <1>1, RangeConcatenation DEF Given
<1> QED  BY <1>7, <1>8

LEMMA StepWriting ==
  ASSUME IInv, NEW q \in Names, Writing(q), [Next]_vars
  PROVE  Writing(q)'
<1>1. /\ accepted[q] \in Seq(Messages) /\ handed[q] \in Seq(Messages) /\ work[q] \in Seq(Messages)
      /\ dispatched[q] \in Seq(Messages)
      /\ \A w \in Writers : calling[q][w] \in Seq(Messages)
  BY DEF IInv, TypeOK
<1>2. CASE \E m \in Outgoing : ClientSend(q, m)
  <2>1. PICK m \in Outgoing : ClientSend(q, m)
    BY <1>2
  <2>2. /\ m \in Messages /\ m \notin Range(accepted[q])
        /\ accepted'[q] = Append(accepted[q], m)
        /\ handed'[q] = handed[q] /\ dispatched'[q] = dispatched[q] /\ calling'[q] = calling[q]
    BY <2>1, SqsMultiAssumption DEF ClientSend, dispVars, writerVars, IInv, TypeOK
  <2>3. IsInjective(accepted'[q])
    BY <1>1, <2>2, InjectiveAppend DEF Writing
  <2> QED  BY <2>2, <2>3 DEF Writing, InCalls
<1>3. CASE \E w \in Writers : GiveWork(q, w)
  <2>1. PICK w \in Writers : GiveWork(q, w)
    BY <1>3
  <2>2. /\ accepted'[q] = accepted[q] /\ handed'[q] = handed[q]
        /\ dispatched'[q] = dispatched[q] \o work[q]
        /\ calling'[q][w] = work[q]
        /\ \A v \in Writers : v # w => calling'[q][v] = calling[q][v]
        /\ writer[q][w] = "idle"
    BY <2>1 DEF GiveWork, pubVars, IInv, TypeOK
  <2>3. IsInjective(work[q]) /\ Range(dispatched[q]) \cap Range(work[q]) = {}
    BY WorkIsNew DEF Writing
  <2>4. Range(dispatched'[q]) = Range(dispatched[q]) \cup Range(work[q])
    BY <1>1, <2>2, RangeConcatenation
  <2>5. Range(calling[q][w]) = {}
    <3>1. calling[q][w] = <<>>
      BY <2>2 DEF IInv, Calls
    <3> QED  BY <3>1 DEF Range
  <2>6. InCalls(q)' = InCalls(q) \cup Range(work[q])
    BY <2>2, <2>5 DEF InCalls
  <2>7. \A v \in Writers : Range(calling[q][v]) \cap Range(work[q]) = {}
    BY <2>3 DEF Writing, InCalls
  <2>8. \A u, v \in Writers : u # v => Range(calling'[q][u]) \cap Range(calling'[q][v]) = {}
    BY <2>2, <2>7 DEF Writing
  <2>9. Range(handed[q]) \cap Range(work[q]) = {}
    BY <2>3 DEF Writing
  <2> QED  BY <2>2, <2>3, <2>4, <2>6, <2>8, <2>9 DEF Writing
<1>4. CASE \E w \in Writers, k \in Nat :
             \E S \in SUBSET Range(calling[q][w]) : CallReturns(q, w, S, k)
  <2>1. PICK w \in Writers, k \in Nat :
          \E S \in SUBSET Range(calling[q][w]) : CallReturns(q, w, S, k)
    BY <1>4
  <2>2. /\ accepted'[q] = accepted[q] /\ dispatched'[q] = dispatched[q]
        /\ handed'[q] = handed[q] \o calling[q][w]
        /\ calling'[q][w] = <<>>
        /\ \A v \in Writers : v # w => calling'[q][v] = calling[q][v]
    <3>1. /\ handed' = [handed EXCEPT ![q] = @ \o calling[q][w]]
          /\ calling' = [calling EXCEPT ![q][w] = <<>>]
          /\ UNCHANGED <<accepted, dispatched>>
      BY <2>1 DEF CallReturns, pubVars, dispVars
    <3>2. handed \in [Names -> Seq(Messages)] /\ calling \in [Names -> [Writers -> Seq(Messages)]]
      BY DEF IInv, TypeOK
    <3> QED  BY <3>1, <3>2
  <2>3. Range(handed'[q]) = Range(handed[q]) \cup Range(calling[q][w])
    BY <1>1, <2>2, RangeConcatenation
  <2>4. Range(<<>>) = {} /\ IsInjective(<<>>)
    BY DEF Range, IsInjective
  <2>5. Range(handed[q]) \cap Range(calling[q][w]) = {}
    BY DEF Writing, InCalls
  <2>6. IsInjective(handed'[q])
    BY <1>1, <2>2, <2>5, InjectiveParts DEF Writing
  <2>7. InCalls(q)' \cup Range(calling[q][w]) = InCalls(q)
    BY <2>2, <2>4 DEF InCalls
  <2>8. InCalls(q)' \cap Range(calling[q][w]) = {}
    <3>1. \A v \in Writers : Range(calling'[q][v]) \cap Range(calling[q][w]) = {}
      BY <2>2, <2>4 DEF Writing
    <3> QED  BY <3>1 DEF InCalls
  <2>9. \A v \in Writers : IsInjective(calling'[q][v])
    BY <2>2, <2>4 DEF Writing
  <2>10. \A u, v \in Writers : u # v => Range(calling'[q][u]) \cap Range(calling'[q][v]) = {}
    BY <2>2, <2>4 DEF Writing
  <2> QED  BY <2>2, <2>3, <2>6, <2>7, <2>8, <2>9, <2>10 DEF Writing
<1>5. CASE UNCHANGED <<accepted[q], handed[q], dispatched[q], calling[q]>>
  BY <1>5, WritingSame
<1> QED  BY <1>2, <1>3, <1>4, <1>5, Moves DEF IInv

(* Every message given to a writer is in one call of one writer, however many
   writers there are and whatever calls fail. *)
THEOREM WritesOnce == Spec => []WrittenOnce
<1>1. Init => \A n \in Names : Writing(n)
  <2>1. Range(<<>>) = {} /\ IsInjective(<<>>)
    BY DEF Range, IsInjective
  <2> QED  BY <2>1 DEF Init, Writing, InCalls
<1>2. IInv /\ (\A n \in Names : Writing(n)) /\ [Next]_vars => (\A n \in Names : Writing(n))'
  BY StepWriting
<1>3. (\A n \in Names : Writing(n)) => WrittenOnce
  BY DEF Writing, WrittenOnce
<1> QED  BY <1>1, <1>2, <1>3, Inductive, PTL DEF Spec
----------------------------------------------------------------------------
(* The free writers: those that have put themselves on workerQueue, and the one
   the dispatcher has taken from it and not yet given its work. *)
Queued(n) == Range(workerQueue[n]) \cup ({worker[n]} \ {Nil})

Idle(n) == {w \in Writers : writer[n][w] = "idle"}

Free(n) ==
  /\ IsInjective(workerQueue[n])
  /\ worker[n] \notin Range(workerQueue[n])
  /\ worker[n] # Nil <=> disp[n] = "give"
  /\ stop # "done" => Queued(n) = Idle(n)
  /\ \A w \in Queued(n) : writer[n][w] \in {"idle", "exited"}

LEMMA FreeSame ==
  ASSUME NEW q, Free(q), UNCHANGED <<workerQueue[q], worker[q], writer[q]>>,
         disp'[q] = "give" <=> disp[q] = "give", stop' # "done" => stop # "done"
  PROVE  Free(q)'
BY DEF Free, Queued, Idle

(* The steps in which a writer of q becomes free, is taken, or stops being free. *)
LEMMA Turns ==
  ASSUME IInv, NEW q \in Names, [Next]_vars
  PROVE  \/ /\ UNCHANGED <<workerQueue[q], worker[q], writer[q]>>
            /\ disp'[q] = "give" <=> disp[q] = "give"
            /\ stop' # "done" => stop # "done"
         \/ SendOpens(q) \/ PickWriter(q)
         \/ \E w \in Writers : GiveWork(q, w) \/ Writer(q, w)
<1> DEFINE Same == /\ UNCHANGED <<workerQueue[q], worker[q], writer[q]>>
                   /\ disp'[q] = "give" <=> disp[q] = "give"
                   /\ stop' # "done" => stop # "done"
           Turn == \E w \in Writers : GiveWork(q, w) \/ Writer(q, w)
<1>0. /\ TypeOK
      /\ disp \in [Names -> DispStates] /\ DOMAIN writer = Names
      /\ DOMAIN worker = Names /\ DOMAIN workerQueue = Names
  BY DEF IInv, TypeOK
<1>1. ASSUME Receiving \/ Stop \/ SendReports \/ UNCHANGED vars PROVE Same
  <2>1. UNCHANGED <<workerQueue, worker, writer, disp>>
    BY <1>1 DEF Receiving, Stop, CallStop, ClosePubChan, CloseDone, SendReports, vars, sendVars,
                dispVars, writerVars
  <2>2. stop' # "done" => stop # "done"
    BY <1>0, <1>1, ReceiveLeavesStop DEF Receiving, Stop, CallStop, ClosePubChan, CloseDone, SendReports,
                                   vars, receiveVars
  <2> QED  BY <2>1, <2>2
<1>2. ASSUME NEW n \in Names, SendFails(n) \/ SeeStop(n) \/ TakeMessage(n) \/ BatchTimeout(n)
                              \/ WakeUp(n) \/ \E m \in Outgoing : ClientSend(n, m)
      PROVE  Same
  <2>1. UNCHANGED <<workerQueue, worker, writer, disp, stop>>
    BY <1>2 DEF SendFails, SeeStop, TakeMessage, BatchTimeout, WakeUp, ClientSend, receiveVars,
                dispVars, writerVars
  <2> QED  BY <2>1
<1>3. ASSUME NEW n \in Names, TakeOffer(n) \/ CheckDone(n) PROVE Same
  <2>1. /\ UNCHANGED <<workerQueue, worker, writer, stop>>
        /\ disp[n] \in {"range", "check"}
        /\ \E d \in {"check", "wait", "exited"} : disp' = [disp EXCEPT ![n] = d]
    BY <1>3 DEF TakeOffer, CheckDone, receiveVars, writerVars
  <2> QED  BY <1>0, <2>1
<1>4. ASSUME NEW n \in Names, SendOpens(n) \/ PickWriter(n) PROVE n = q \/ Same
  <2>1. CASE SendOpens(n)
    <3>1. /\ disp' = [disp EXCEPT ![n] = "range"]
          /\ writer' = [writer EXCEPT ![n] = [w \in Writers |-> "register"]]
          /\ UNCHANGED <<workerQueue, worker, stop>>
      BY <2>1 DEF SendOpens, receiveVars
    <3> QED  BY <1>0, <3>1
  <2>2. CASE PickWriter(n)
    <3>1. /\ disp' = [disp EXCEPT ![n] = "give"]
          /\ worker' = [worker EXCEPT ![n] = Head(workerQueue[n])]
          /\ workerQueue' = [workerQueue EXCEPT ![n] = Tail(@)]
          /\ UNCHANGED <<writer, stop>>
      BY <2>2 DEF PickWriter, receiveVars
    <3> QED  BY <1>0, <3>1
  <2> QED  BY <1>4, <2>1, <2>2
<1>5. ASSUME NEW n \in Names, NEW w \in Writers, GiveWork(n, w) PROVE n = q \/ Same
  BY <1>0, <1>5 DEF GiveWork, NextWork, receiveVars, TypeOK
<1>6. ASSUME NEW n \in Names, NEW w \in Writers, Writer(n, w) PROVE n = q \/ Same
  <2>1. CASE CallFails(n, w) \/ CallSucceeds(n, w)
    <3>1. PICK S \in SUBSET Range(calling[n][w]), k \in Nat : CallReturns(n, w, S, k)
      BY <1>0, <2>1, CallOutcome
    <3> QED  BY <1>0, <3>1 DEF CallReturns, dispVars, TypeOK
  <2>2. CASE Register(n, w) \/ WriterSeesDone(n, w) \/ ReportSendError(n, w)
    BY <1>0, <2>2 DEF Register, WriterSeesDone, ReportSendError, receiveVars, dispVars, TypeOK
  <2> QED  BY <1>6, <2>1, <2>2 DEF Writer
<1> HIDE DEF Same
<1>7. ASSUME NEW n \in Names, NEW w \in Writers, GiveWork(n, w) \/ Writer(n, w)
      PROVE  Same \/ Turn
  BY <1>5, <1>6, <1>7
<1> HIDE DEF Turn
<1>8. ASSUME NEW n \in Names, Publisher(n) \/ Dispatcher(n) \/ SendOpens(n)
      PROVE  Same \/ SendOpens(q) \/ PickWriter(q) \/ Turn
  BY <1>2, <1>3, <1>4, <1>7, <1>8 DEF Publisher, Dispatcher
<1>9. Same \/ SendOpens(q) \/ PickWriter(q) \/ Turn
  BY <1>1, <1>2, <1>7, <1>8 DEF Next, SendNext
<1> QED  BY <1>9 DEF Same, Turn

LEMMA QueuedType ==
  ASSUME TypeOK, NEW q \in Names
  PROVE  /\ worker[q] \in Writers \cup {Nil} /\ workerQueue[q] \in Seq(Writers)
         /\ Queued(q) \subseteq Writers
<1>1. worker[q] \in Writers \cup {Nil} /\ workerQueue[q] \in Seq(Writers)
  BY DEF TypeOK
<1>2. Range(workerQueue[q]) \subseteq Writers
  BY <1>1, RangeOfSeq
<1> QED  BY <1>1, <1>2 DEF Queued

(* A writer of q that goes from a state in which it is not free to another. *)
LEMMA FreeBusy ==
  ASSUME TypeOK, NEW q \in Names, Free(q), NEW w \in Writers, NEW u,
         writer[q][w] \notin {"idle", "exited"}, u # "idle",
         writer'[q][w] = u, \A v \in Writers : v # w => writer'[q][v] = writer[q][v],
         UNCHANGED <<workerQueue[q], worker[q], disp[q], stop>>
  PROVE  Free(q)'
<1>1. Queued(q)' = Queued(q) /\ w \notin Queued(q)
  BY DEF Free, Queued
<1>2. Queued(q) \subseteq Writers
  BY QueuedType
<1>3. Idle(q)' = Idle(q)
  BY DEF Idle
<1>4. \A v \in Queued(q)' : writer'[q][v] \in {"idle", "exited"}
  BY <1>1, <1>2 DEF Free
<1> QED  BY <1>1, <1>3, <1>4 DEF Free

LEMMA StepFree ==
  ASSUME IInv, NEW q \in Names, Free(q), [Next]_vars
  PROVE  Free(q)'
<1>1. /\ worker[q] \in Writers \cup {Nil} /\ workerQueue[q] \in Seq(Writers) /\ Nil \notin Writers
      /\ Queued(q) \subseteq Writers
      /\ writer \in [Names -> [Writers -> WriterStates]]
  <2>1. Nil \notin Writers
    BY SqsMultiAssumption
  <2>2. writer \in [Names -> [Writers -> WriterStates]]
    BY DEF IInv, TypeOK
  <2> QED  BY <2>1, <2>2, QueuedType DEF IInv
<1>2. CASE SendOpens(q)
  <2>1. /\ pub[q] = "none" /\ disp'[q] = "range"
        /\ workerQueue'[q] = workerQueue[q] /\ worker'[q] = worker[q]
        /\ \A w \in Writers : writer'[q][w] = "register"
    BY <1>2 DEF SendOpens, IInv, TypeOK
  <2>2. disp[q] = "none" /\ \A w \in Writers : writer[q][w] = "none"
    BY <2>1 DEF IInv, Line, Calls
  <2>3. Queued(q) = {}
    BY <1>1, <2>2 DEF Free
  <2>4. Queued(q)' = {} /\ Idle(q)' = {}
    BY <2>1, <2>3 DEF Queued, Idle
  <2> QED  BY <2>1, <2>2, <2>4 DEF Free
<1>3. CASE PickWriter(q)
  <2>1. /\ disp[q] = "wait" /\ disp'[q] = "give" /\ workerQueue[q] # <<>>
        /\ worker'[q] = Head(workerQueue[q]) /\ workerQueue'[q] = Tail(workerQueue[q])
        /\ writer'[q] = writer[q] /\ stop' = stop
    BY <1>3 DEF PickWriter, receiveVars, IInv, TypeOK
  <2>2. /\ IsInjective(workerQueue'[q]) /\ worker'[q] \notin Range(workerQueue'[q])
        /\ Range(workerQueue[q]) = {worker'[q]} \cup Range(workerQueue'[q])
    BY <1>1, <2>1, InjectiveTail, RangeOfHeadTail DEF Free
  <2>3. worker'[q] # Nil
    BY <1>1, <2>2 DEF Queued
  <2>4. Queued(q)' = Queued(q) /\ Idle(q)' = Idle(q)
    BY <2>1, <2>2, <2>3 DEF Queued, Idle, Free
  <2> QED  BY <2>1, <2>2, <2>3, <2>4 DEF Free
<1>4. CASE \E w \in Writers : GiveWork(q, w)
  <2>1. PICK w \in Writers : GiveWork(q, w)
    BY <1>4
  <2>2. /\ worker[q] = w /\ worker'[q] = Nil /\ disp'[q] = "range"
        /\ workerQueue'[q] = workerQueue[q] /\ stop' = stop
        /\ writer'[q][w] = "call" /\ \A v \in Writers : v # w => writer'[q][v] = writer[q][v]
    BY <2>1 DEF GiveWork, NextWork, receiveVars, IInv, TypeOK
  <2>3. Queued(q)' = Queued(q) \ {w} /\ Idle(q)' = Idle(q) \ {w}
    BY <2>2 DEF Queued, Idle, Free
  <2>4. \A v \in Queued(q)' : writer'[q][v] \in {"idle", "exited"}
    BY <1>1, <2>2, <2>3 DEF Free
  <2>5. Nil \notin Range(workerQueue'[q])
    BY <1>1, <2>2 DEF Queued
  <2> QED  BY <2>2, <2>3, <2>4, <2>5 DEF Free
<1>5. ASSUME NEW w \in Writers, Register(q, w) PROVE Free(q)'
  <2>1. /\ writer[q][w] = "register" /\ writer'[q][w] = "idle"
        /\ \A v \in Writers : v # w => writer'[q][v] = writer[q][v]
        /\ workerQueue'[q] = Append(workerQueue[q], w)
        /\ worker'[q] = worker[q] /\ disp'[q] = disp[q] /\ stop' = stop
    BY <1>5 DEF Register, receiveVars, dispVars, IInv, TypeOK
  <2>2. w \notin Queued(q)
    BY <2>1 DEF Free
  <2>3. IsInjective(workerQueue'[q])
    BY <1>1, <2>1, <2>2, InjectiveAppend DEF Free, Queued
  <2>4. Range(workerQueue'[q]) = Range(workerQueue[q]) \cup {w}
    BY <1>1, <2>1, RangeOfAppend
  <2>5. worker'[q] \notin Range(workerQueue'[q])
    BY <1>1, <2>1, <2>2, <2>4 DEF Free, Queued
  <2>6. Queued(q)' = Queued(q) \cup {w} /\ Idle(q)' = Idle(q) \cup {w}
    BY <2>1, <2>4 DEF Queued, Idle
  <2>7. \A v \in Queued(q)' : writer'[q][v] \in {"idle", "exited"}
    BY <1>1, <2>1, <2>6 DEF Free
  <2> QED  BY <2>1, <2>3, <2>5, <2>6, <2>7 DEF Free
<1>6. ASSUME NEW w \in Writers, WriterSeesDone(q, w) PROVE Free(q)'
  <2>1. /\ stop = "done" /\ stop' = stop /\ writer'[q][w] = "exited"
        /\ \A v \in Writers : v # w => writer'[q][v] = writer[q][v]
        /\ workerQueue'[q] = workerQueue[q] /\ worker'[q] = worker[q] /\ disp'[q] = disp[q]
    BY <1>6 DEF WriterSeesDone, receiveVars, dispVars, IInv, TypeOK
  <2>2. Queued(q)' = Queued(q)
    BY <2>1 DEF Queued
  <2>3. \A v \in Queued(q)' : writer'[q][v] \in {"idle", "exited"}
    BY <1>1, <2>1, <2>2 DEF Free
  <2> QED  BY <2>1, <2>2, <2>3 DEF Free
<1>7. ASSUME NEW w \in Writers, CallFails(q, w) \/ CallSucceeds(q, w) PROVE Free(q)'
  <2>1. PICK S \in SUBSET Range(calling[q][w]), k \in Nat : CallReturns(q, w, S, k)
    BY <1>7, CallOutcome DEF IInv
  <2>2. /\ writer[q][w] = "call" /\ writer'[q][w] = AfterCall(k)
        /\ \A v \in Writers : v # w => writer'[q][v] = writer[q][v]
        /\ UNCHANGED <<workerQueue[q], worker[q], disp[q], stop>>
    BY <1>1, <2>1 DEF CallReturns, dispVars
  <2>3. AfterCall(k) # "idle"
    BY DEF AfterCall
  <2> QED  BY <2>2, <2>3, FreeBusy DEF IInv
<1>8. ASSUME NEW w \in Writers, ReportSendError(q, w) PROVE Free(q)'
  <2>1. /\ writer[q][w] = "report" /\ writer'[q][w] \in {"report", "register"}
        /\ \A v \in Writers : v # w => writer'[q][v] = writer[q][v]
        /\ UNCHANGED <<workerQueue[q], worker[q], disp[q], stop>>
    BY <1>1, <1>8 DEF ReportSendError, dispVars
  <2> QED  BY <2>1, FreeBusy DEF IInv
<1>9. CASE /\ UNCHANGED <<workerQueue[q], worker[q], writer[q]>>
           /\ disp'[q] = "give" <=> disp[q] = "give"
           /\ stop' # "done" => stop # "done"
  BY <1>9, FreeSame
<1> QED  BY <1>2, <1>3, <1>4, <1>5, <1>6, <1>7, <1>8, <1>9, Turns DEF Writer

LEMMA AllFree == Spec => []\A n \in Names : Free(n)
<1>1. Init => \A n \in Names : Free(n)
  <2>1. Range(<<>>) = {} /\ IsInjective(<<>>)
    BY DEF Range, IsInjective
  <2> QED  BY <2>1 DEF Init, Free, Queued, Idle
<1>2. IInv /\ (\A n \in Names : Free(n)) /\ [Next]_vars => (\A n \in Names : Free(n))'
  BY StepFree
<1> QED  BY <1>1, <1>2, Inductive, PTL DEF Spec

(* The writers on workerQueue are just the free ones, each of them once, whatever
   their number: the dispatcher waits for a busy writer only when none is free. *)
THEOREM FreeWritersKnown == Spec => []FreeWriters
<1>1. (\A n \in Names : Free(n)) => FreeWriters
  BY DEF Free, Queued, Idle, FreeWriters
<1> QED  BY <1>1, AllFree, PTL

(* newWriterGroup makes workerQueue with a place for every writer, and that is
   enough: s.workerQueue <- s.work never waits for the dispatcher. *)
RoomToRegister ==
  \A n \in Names, w \in Writers :
    writer[n][w] = "register" => Len(workerQueue[n]) < Cardinality(Writers)

THEOREM RegistersAtOnce == Spec => []RoomToRegister
<1>1. TypeOK /\ (\A n \in Names : Free(n)) => RoomToRegister
  <2> SUFFICES ASSUME TypeOK, NEW n \in Names, Free(n), NEW w \in Writers,
                      writer[n][w] = "register"
               PROVE  Len(workerQueue[n]) < Cardinality(Writers)
    BY DEF RoomToRegister
  <2>1. workerQueue[n] \in Seq(Writers) /\ Range(workerQueue[n]) \subseteq Writers \ {w}
    BY QueuedType DEF Free, Queued
  <2>2. Cardinality(Range(workerQueue[n])) = Len(workerQueue[n]) /\ Len(workerQueue[n]) \in Nat
    BY <2>1, InjectiveCardinality DEF Free
  <2>3. /\ IsFiniteSet(Writers \ {w})
        /\ Cardinality(Writers \ {w}) = Cardinality(Writers) - 1
        /\ Cardinality(Writers) \in Nat
    BY SqsMultiAssumption, FS_RemoveElement, FS_CardinalityType
  <2>4. Cardinality(Range(workerQueue[n])) <= Cardinality(Writers \ {w})
    BY <2>1, <2>3, FS_Subset
  <2> QED  BY <2>2, <2>3, <2>4
<1> QED  BY <1>1, TypeCorrect, AllFree, PTL
=============================================================================
