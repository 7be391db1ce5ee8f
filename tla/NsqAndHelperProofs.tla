-------------------------- MODULE NsqAndHelperProofs --------------------------
(* Safety of the NSQ transport under the greeter's programs and any client, for
   any messages, capacities and numbers of attempts; of backoff.Do, which the
   transport calls, for all its arguments; and of the generated fake of SQS, for
   any number of methods, goroutines and calls. *)
EXTENDS Greeter, Backoff, FakeSqs, ChannelLemmas, TLAPS

Last(s) == s[Len(s)]

(* The attempts of backoff.Do are not used up while the producer publishes. *)
Retries == prod = "publish" => tries < Attempts

(* As long as no acknowledgement was lost, a message is in one place. *)
Once ==
  again = {} =>
    /\ IsInjective(received)
    /\ hand \notin queue \cup Range(received)
    /\ queue \cap Range(received) = {}

(* Published in the order of handed, repeats next to each other. *)
InLine ==
  \A i, j \in DOMAIN published, p, q \in DOMAIN handed :
    i < j /\ handed[p] = published[i] /\ handed[q] = published[j] => p <= q

(* What has been sent, by the client and by the others.  The message that is
   being published is the last that was handed over. *)
ClientSent == program = "client" /\ scanned # <<>> => Last(scanned) \in Settled \cup {line}

AnySent == program = "any" => line = Nil /\ IsInjective(handed)

Sent ==
  program # "client" =>
    /\ Range(handed) \subseteq Settled
    /\ Range(published) \subseteq Range(handed)
    /\ msg # Nil => handed # <<>> /\ msg = Last(handed)
    /\ again = {} => InLine

(* Stop has seen the consumer, unless it was on its way into t.consumers. *)
Stopping ==
  /\ stop \in {"consumers", "done"} /\ ~overlap =>
       cons \in {"stopping", "stranded", "stopped", "failed", "reported"}
  /\ stop = "done" => cons \notin {"stopping", "stranded"}

IInv ==
  /\ TypeOK /\ Retries /\ Once /\ GreetedInOrder /\ NothingVanishes
  /\ ClientSent /\ AnySent /\ Sent /\ Stopping

LEMMA InitInv == Init => IInv
<1> SUFFICES ASSUME Init PROVE IInv
  OBVIOUS
<1> USE NsqAssumption, GreeterAssumption DEF Init, NsqInit
<1>1. <<>> \in Seq(Incoming) /\ <<>> \in Seq(Outgoing) /\ <<>> \in Seq(Typed)
  BY EmptySeq
<1>2. Range(<<>>) = {} /\ IsInjective(<<>>) /\ DOMAIN <<>> = {} /\ <<>> \o <<>> = <<>>
  BY DEF Range, IsInjective
<1>3. TypeOK
  <2>1. {handed, published} \subseteq Seq(Outgoing)
    BY <1>1
  <2>2. 0 \in 0 .. ErrCap /\ 0 \in 0 .. Attempts
    OBVIOUS
  <2> QED  BY <1>1, <2>1, <2>2 DEF TypeOK, NsqTypeOK, ConsStates, ProdStates
<1>4. GreetedInOrder
  <2>1. Greetings = <<>>
    BY DEF Greetings
  <2> QED  BY <1>2, <2>1 DEF GreetedInOrder
<1>5. Once /\ NothingVanishes
  BY <1>2 DEF Once, NothingVanishes
<1>6. Retries /\ ClientSent /\ AnySent /\ Sent /\ Stopping
  BY <1>2 DEF Retries, ClientSent, AnySent, Sent, InLine, Stopping
<1> QED  BY <1>3, <1>4, <1>5, <1>6 DEF IInv
----------------------------------------------------------------------------
(* What a step does to the messages.  A step of the service, the client or any
   client is one of the transport and one of the program. *)
Quiet ==
  UNCHANGED <<queue, again, hand, received, msg, handed, published, warned, program, line, scanned>>

Taken ==
  /\ TakeReceived
  /\ UNCHANGED <<program, scanned>>
  /\ \/ program = "service" /\ line = Nil /\ line' = Hello(hand)
     \/ program # "service" /\ line' = line

Given ==
  /\ UNCHANGED <<program, scanned>>
  /\ \/ line # Nil /\ HandOver(line) /\ line' = Nil
     \/ program = "any" /\ line' = line /\ \E m \in Typed \ Range(handed) : HandOver(m)

LEMMA Moves ==
  ASSUME [Next]_vars
  PROVE  \/ Quiet
         \/ (\E m \in Incoming : Handle(m)) /\ UNCHANGED programVars
         \/ Taken \/ Given
         \/ (Publish \/ PublishFails) /\ UNCHANGED programVars
         \/ \E m \in Typed : Scan(m)
<1>1. ASSUME ReceiveCalled \/ NewConsumerFails \/ SendCalled \/ NewProducerFails \/ CallStop
             \/ DrainErr \/ ReceiveReports \/ SendReports \/ ConnectConsumer \/ AppendConsumer
             \/ ReportPublishError \/ SeeStop \/ StopConsumers \/ ConsumerStops \/ StopEnds
      PROVE  UNCHANGED <<queue, again, hand, received, msg, handed, published, warned>>
  BY <1>1 DEF ReceiveCalled, NewConsumerFails, SendCalled, NewProducerFails, CallStop, DrainErr,
              ReceiveReports, SendReports, ConnectConsumer, AppendConsumer, ReportPublishError,
              SeeStop, StopConsumers, ConsumerStops, StopEnds, ConsGoes, consVars, prodVars
<1>2. CASE NsqNext /\ UNCHANGED programVars
  BY <1>1, <1>2 DEF NsqNext, Producer, programVars, Quiet
<1>3. CASE ServiceStarts \/ GreeterReads \/ GreeterFinishes \/ ClientStarts \/ ClientFinishes
           \/ AnyReads
  BY <1>1, <1>3 DEF ServiceStarts, GreeterReads, GreeterFinishes, ClientStarts, ClientFinishes,
                    AnyReads, programVars, Quiet
<1>4. CASE AnyCalls
  BY <1>1, <1>4 DEF AnyCalls, programVars, Quiet, Given
<1>5. CASE Cancel \/ UNCHANGED vars
  BY <1>5 DEF Cancel, vars, nsqVars, consVars, prodVars, programVars, Quiet
<1>6. CASE PutLine
  BY <1>6 DEF PutLine, Given
<1>7. CASE Greet
  BY <1>7 DEF Greet, InSelect, Greeting, Taken
<1>8. CASE PrintGreeting \/ AnyTakes
  BY <1>8 DEF PrintGreeting, AnyTakes, Running, programVars, Taken
<1> QED  BY <1>2, <1>3, <1>4, <1>5, <1>6, <1>7, <1>8 DEF Next
----------------------------------------------------------------------------
(* Types, and the attempts that are left. *)

(* Steps that only connect, raise an error, or stop. *)
LEMMA ControlType ==
  ASSUME NsqTypeOK, Retries,
         \/ ReceiveCalled \/ NewConsumerFails \/ SendCalled \/ NewProducerFails \/ CallStop
         \/ DrainErr \/ ReceiveReports \/ SendReports \/ ConnectConsumer \/ AppendConsumer
         \/ ReportPublishError \/ SeeStop \/ StopConsumers \/ ConsumerStops \/ StopEnds
  PROVE  NsqTypeOK' /\ Retries'
<1>1. UNCHANGED <<queue, again, hand, received, msg, tries, handed, published, warned>>
  BY DEF ReceiveCalled, NewConsumerFails, SendCalled, NewProducerFails, CallStop, DrainErr,
         ReceiveReports, SendReports, ConnectConsumer, AppendConsumer, ReportPublishError, SeeStop,
         StopConsumers, ConsumerStops, StopEnds, ConsGoes, consVars, prodVars
<1>2. errs' \in 0 .. ErrCap
  <2>1. errs' = errs \/ (errs < ErrCap /\ errs' = errs + 1) \/ (errs > 0 /\ errs' = errs - 1)
    BY DEF ReceiveCalled, NewConsumerFails, SendCalled, NewProducerFails, CallStop, DrainErr,
           ReceiveReports, SendReports, ConnectConsumer, AppendConsumer, ReportPublishError,
           SeeStop, StopConsumers, ConsumerStops, StopEnds, PutError
  <2> QED  BY <2>1, NsqAssumption DEF NsqTypeOK
<1>3. stop' \in {"no", "producers", "consumers", "done"} /\ cons' \in ConsStates
  BY DEF ReceiveCalled, NewConsumerFails, SendCalled, NewProducerFails, CallStop, DrainErr,
         ReceiveReports, SendReports, ConnectConsumer, AppendConsumer, ReportPublishError, SeeStop,
         StopConsumers, ConsumerStops, StopEnds, ConsGoes, consVars, NsqTypeOK, ConsStates
<1>4. overlap' \in BOOLEAN
  <2>1. CASE StopConsumers
    <3>1. overlap' = (cons \in {"none", "connecting", "connected"})
      BY <2>1 DEF StopConsumers
    <3> QED  BY <3>1
  <2>2. CASE ~StopConsumers
    <3>1. overlap' = overlap
      BY <2>2 DEF ReceiveCalled, NewConsumerFails, SendCalled, NewProducerFails, CallStop, DrainErr,
         ReceiveReports, SendReports, ConnectConsumer, AppendConsumer, ReportPublishError, SeeStop,
         ConsumerStops, StopEnds, ConsGoes, consVars
    <3> QED  BY <3>1 DEF NsqTypeOK
  <2> QED  BY <2>1, <2>2
<1>5. prod' \in ProdStates /\ (prod' = "publish" <=> prod = "publish")
  BY DEF ReceiveCalled, NewConsumerFails, SendCalled, NewProducerFails, CallStop, DrainErr,
         ReceiveReports, SendReports, ConnectConsumer, AppendConsumer, ReportPublishError, SeeStop,
         StopConsumers, ConsumerStops, StopEnds, ConsGoes, ProdGoes, prodVars, NsqTypeOK, ProdStates
<1> QED  BY <1>1, <1>2, <1>3, <1>4, <1>5 DEF NsqTypeOK, Retries

(* Steps that move a message. *)
LEMMA MessageType ==
  ASSUME NsqTypeOK, Retries,
         \/ \E m \in Incoming : Handle(m)
         \/ TakeReceived \/ Publish \/ PublishFails
         \/ \E m \in Outgoing : HandOver(m)
  PROVE  NsqTypeOK' /\ Retries'
<1> USE NsqAssumption
<1>1. ASSUME NEW m \in Incoming, Handle(m) PROVE NsqTypeOK' /\ Retries'
  <2>1. /\ hand' = m /\ UNCHANGED <<errs, stop, cons, overlap, received, prodVars>>
        /\ queue' \in Acknowledged(m)
        /\ again' = IF m \in queue' THEN again \cup {m} ELSE again
    BY <1>1 DEF Handle
  <2>2. queue' = queue \ {m} \/ (m \in Lossy /\ queue' = queue)
    BY <2>1 DEF Acknowledged
  <2>3. queue' \subseteq Incoming /\ again' \subseteq Lossy
    BY <2>1, <2>2 DEF NsqTypeOK
  <2> QED  BY <2>1, <2>3 DEF NsqTypeOK, Retries, prodVars
<1>2. CASE TakeReceived
  <2>1. Append(received, hand) \in Seq(Incoming)
    BY <1>2, AppendProperties DEF TakeReceived, NsqTypeOK
  <2> QED  BY <1>2, <2>1 DEF TakeReceived, NsqTypeOK, Retries, prodVars
<1>3. CASE Publish
  <2>1. msg \in Outgoing /\ Append(published, msg) \in Seq(Outgoing)
    BY <1>3, AppendProperties DEF Publish, ProdGoes, NsqTypeOK
  <2> QED  BY <1>3, <2>1 DEF Publish, ProdGoes, NsqTypeOK, Retries, consVars, ProdStates
<1>4. CASE PublishFails
  <2>1. prod = "publish" /\ msg \in Outgoing /\ published \in Seq(Outgoing)
    BY <1>4 DEF PublishFails, ProdGoes, NsqTypeOK
  <2>2. published' \in Seq(Outgoing)
    BY <1>4, <2>1, AppendProperties DEF PublishFails
  <2>3. tries' = tries + 1 /\ tries' \in 0 .. Attempts
    BY <1>4, <2>1 DEF PublishFails, Retries, NsqTypeOK
  <2>4. prod' = IF tries' = Attempts THEN "report" ELSE "publish"
    BY <1>4 DEF PublishFails, ProdGoes, AfterFailure
  <2>5. Retries' /\ prod' \in ProdStates
    BY <2>3, <2>4 DEF Retries, ProdStates
  <2>6. /\ warned' \subseteq Outgoing /\ msg' \in Outgoing \cup {Nil}
        /\ msg' # Nil <=> prod' = "publish"
    BY <1>4, <2>1, <2>4 DEF PublishFails, NsqTypeOK
  <2> QED  BY <1>4, <2>2, <2>3, <2>5, <2>6 DEF PublishFails, NsqTypeOK, consVars
<1>5. ASSUME NEW m \in Outgoing, HandOver(m) PROVE NsqTypeOK' /\ Retries'
  <2>1. Append(handed, m) \in Seq(Outgoing)
    BY AppendProperties DEF NsqTypeOK
  <2> QED  BY <1>5, <2>1 DEF HandOver, ProdGoes, NsqTypeOK, Retries, consVars, ProdStates
<1> QED  BY <1>1, <1>2, <1>3, <1>4, <1>5

LEMMA TypeStep ==
  ASSUME TypeOK, Retries, [Next]_vars
  PROVE  TypeOK' /\ Retries'
<1> USE NsqAssumption, GreeterAssumption DEF TypeOK
<1>1. CASE NsqNext /\ UNCHANGED programVars
  BY <1>1, ControlType, MessageType DEF NsqNext, Producer, programVars
<1>2. CASE ServiceStarts \/ GreeterReads \/ GreeterFinishes \/ ClientStarts \/ ClientFinishes
           \/ AnyReads
  BY <1>2, ControlType DEF ServiceStarts, GreeterReads, GreeterFinishes, ClientStarts,
                           ClientFinishes, AnyReads, programVars
<1>3. CASE AnyCalls
  BY <1>3, ControlType, MessageType DEF AnyCalls, programVars
<1>4. CASE Cancel \/ UNCHANGED vars
  BY <1>4 DEF Cancel, vars, nsqVars, consVars, prodVars, programVars, NsqTypeOK, Retries
<1>5. CASE PutLine
  BY <1>5, MessageType DEF PutLine
<1>6. CASE Greet
  <2>1. hand \in Incoming
    BY <1>6 DEF Greet, TakeReceived, NsqTypeOK
  <2>2. Hello(hand) \in Outgoing
    BY <2>1
  <2> QED  BY <1>6, <2>2, MessageType DEF Greet, Greeting
<1>7. CASE PrintGreeting \/ AnyTakes
  BY <1>7, MessageType DEF PrintGreeting, AnyTakes, programVars
<1>8. ASSUME NEW m \in Typed, Scan(m) PROVE TypeOK' /\ Retries'
  <2>1. m \in Outgoing /\ m # Nil
    OBVIOUS
  <2>2. Append(scanned, m) \in Seq(Typed)
    BY AppendProperties
  <2>3. msg' \in Outgoing \cup {Nil} /\ (msg' = Nil <=> msg = Nil)
    BY <1>8, <2>1 DEF Scan, NsqTypeOK
  <2> QED  BY <1>8, <2>1, <2>2, <2>3 DEF Scan, NsqTypeOK, Retries, consVars
<1> QED  BY <1>1, <1>2, <1>3, <1>4, <1>5, <1>6, <1>7, <1>8 DEF Next
----------------------------------------------------------------------------
(* What comes in.  nsqd may forget a message once the handler has acknowledged
   it, and then the handler has it. *)
LEMMA StepReceives ==
  ASSUME TypeOK, Once, NothingVanishes, [Next]_vars
  PROVE  Once' /\ NothingVanishes'
<1> USE NsqAssumption DEF TypeOK, NsqTypeOK
<1>1. CASE UNCHANGED <<queue, again, hand, received>>
  BY <1>1 DEF Once, NothingVanishes
<1>2. ASSUME NEW m \in Incoming, Handle(m) PROVE Once' /\ NothingVanishes'
  <2>1. /\ hand = Nil /\ hand' = m /\ m \in queue /\ received' = received
        /\ queue' = queue \ {m} \/ queue' = queue
        /\ again' = IF m \in queue' THEN again \cup {m} ELSE again
    BY <1>2 DEF Handle, HandlerFree, Acknowledged
  <2>2. NothingVanishes'
    BY <2>1 DEF NothingVanishes
  <2>3. ASSUME again' = {}
        PROVE  /\ IsInjective(received') /\ hand' \notin queue' \cup Range(received')
               /\ queue' \cap Range(received') = {}
    BY <2>1, <2>3 DEF Once
  <2> QED  BY <2>2, <2>3 DEF Once
<1>3. CASE TakeReceived
  <2>1. /\ hand \in Incoming /\ hand' = Nil /\ received' = Append(received, hand)
        /\ UNCHANGED <<queue, again>>
    BY <1>3 DEF TakeReceived
  <2>2. Range(received') = Range(received) \cup {hand}
    BY <2>1, RangeOfAppend
  <2>3. NothingVanishes'
    BY <2>1, <2>2 DEF NothingVanishes
  <2>4. again' = {} => IsInjective(received')
    BY <2>1, InjectiveAppend DEF Once
  <2>5. Range(received) \subseteq Incoming
    BY RangeOfSeq
  <2> QED  BY <2>1, <2>2, <2>3, <2>4, <2>5 DEF Once
<1>4. \/ UNCHANGED <<queue, again, hand, received>> \/ TakeReceived
      \/ \E m \in Incoming : Handle(m)
  BY Moves DEF Quiet, Taken, Given, HandOver, Publish, PublishFails, Scan, consVars
<1> QED  BY <1>1, <1>2, <1>3, <1>4

(* What the service has taken it has answered, or is about to. *)
LEMMA StepGreets ==
  ASSUME TypeOK, AnySent, GreetedInOrder, [Next]_vars
  PROVE  GreetedInOrder'
<1> USE NsqAssumption, GreeterAssumption DEF TypeOK, NsqTypeOK
<1>1. handed \in Seq(Outgoing) /\ received \in Seq(Incoming) /\ program' = program
  BY Moves DEF Quiet, Taken, Given, Scan, programVars
<1> SUFFICES ASSUME program = "service"
             PROVE  Greetings' = (handed \o IF line = Nil THEN <<>> ELSE <<line>>)'
  BY <1>1 DEF GreetedInOrder
<1>2. Greetings = handed \o IF line = Nil THEN <<>> ELSE <<line>>
  BY DEF GreetedInOrder
<1>3. CASE UNCHANGED <<received, handed, line>>
  BY <1>2, <1>3 DEF Greetings
<1>4. CASE Taken
  <2>1. /\ line = Nil /\ line' = Hello(hand) /\ handed' = handed
        /\ hand \in Incoming /\ received' = Append(received, hand)
    BY <1>4 DEF Taken, TakeReceived, prodVars
  <2>2. Greetings = handed
    BY <1>1, <1>2, <2>1, ConcatEmptySeq
  <2>3. Greetings' = Append(Greetings, Hello(hand))
    BY <1>1, <2>1, AppendProperties, LenProperties DEF Greetings
  <2>4. Append(handed, line') = handed \o <<line'>>
    BY <1>1, <2>1, AppendIsConcat
  <2>5. line' # Nil
    BY <2>1
  <2> QED  BY <2>1, <2>2, <2>3, <2>4, <2>5
<1>5. CASE Given
  <2>1. /\ line # Nil /\ line' = Nil /\ handed' = Append(handed, line) /\ received' = received
    BY <1>5 DEF Given, HandOver, consVars
  <2>2. Append(handed, line) = handed \o <<line>> /\ Append(handed, line) \in Seq(Outgoing)
    BY <1>1, <2>1, AppendIsConcat, AppendProperties
  <2>3. handed' \o <<>> = handed'
    BY <2>1, <2>2, ConcatEmptySeq
  <2>4. Greetings' = Greetings
    BY <2>1 DEF Greetings
  <2> QED  BY <1>2, <2>1, <2>2, <2>3, <2>4
<1>6. UNCHANGED <<received, handed, line>> \/ Taken \/ Given
  BY Moves DEF Quiet, Handle, Publish, PublishFails, Scan, Running, programVars, prodVars, consVars
<1> QED  BY <1>3, <1>4, <1>5, <1>6

(* Stop and the consumer. *)
LEMMA StepStops ==
  ASSUME TypeOK, Stopping, [Next]_vars
  PROVE  Stopping'
<1>1. \/ UNCHANGED <<stop, cons, overlap>>
      \/ UNCHANGED <<stop, overlap>> /\ cons \in {"none", "connecting", "connected"}
         /\ cons' \notin {"stopping", "stranded"}
      \/ UNCHANGED <<stop, overlap>> /\ cons = "failed" /\ cons' = "reported"
      \/ UNCHANGED <<stop, overlap>> /\ cons \in {"stopping", "stranded"} /\ cons' = "stopped"
      \/ UNCHANGED <<cons, overlap>> /\ stop = "no" /\ stop' = "producers"
      \/ /\ UNCHANGED <<cons, overlap>>
         /\ stop = "consumers" /\ cons \notin {"stopping", "stranded"} /\ stop' = "done"
      \/ StopConsumers
  <2>1. CASE NsqNext
    BY <2>1 DEF NsqNext, ReceiveReports, SendReports, ConnectConsumer, AppendConsumer, Handle,
                Producer, Publish, PublishFails, ReportPublishError, SeeStop, ConsumerStops,
                StopEnds, Awaited, ConsGoes, consVars
  <2>2. CASE UNCHANGED nsqVars \/ PutLine \/ Greet \/ PrintGreeting \/ AnyTakes \/ GreeterReads
             \/ AnyReads \/ \E m \in Typed : Scan(m)
    BY <2>2 DEF nsqVars, PutLine, Greet, PrintGreeting, AnyTakes, GreeterReads, AnyReads, Scan,
                HandOver, TakeReceived, DrainErr, consVars
  <2>3. CASE ServiceStarts \/ ClientStarts \/ AnyCalls \/ GreeterFinishes \/ ClientFinishes
    BY <2>3 DEF ServiceStarts, ClientStarts, AnyCalls, GreeterFinishes, ClientFinishes,
                ReceiveCalled, NewConsumerFails, SendCalled, NewProducerFails, CallStop, HandOver,
                ConsGoes, consVars
  <2> QED  BY <2>1, <2>2, <2>3 DEF Next, Cancel, vars
<1>2. CASE StopConsumers
  <2>1. stop' = "consumers" /\ cons' \in IF cons = "on" THEN {"stopping", "stranded"} ELSE {cons}
    BY <1>2 DEF StopConsumers
  <2>2. ~overlap' => cons \notin {"none", "connecting", "connected"}
    <3>1. overlap' = (cons \in {"none", "connecting", "connected"})
      BY <1>2 DEF StopConsumers
    <3> QED  BY <3>1
  <2> QED  BY <2>1, <2>2 DEF Stopping, TypeOK, NsqTypeOK, ConsStates
<1> QED  BY <1>1, <1>2 DEF Stopping
----------------------------------------------------------------------------
(* What goes out. *)

(* The last element of a sequence that has one. *)
LEMMA LastOf ==
  ASSUME NEW S, NEW s \in Seq(S), NEW e \in S
  PROVE  /\ Append(s, e) # <<>> /\ Last(Append(s, e)) = e
         /\ s # <<>> => Len(s) \in DOMAIN s /\ Last(s) \in Range(s)
<1>1. Len(s) \in Nat /\ DOMAIN s = 1 .. Len(s) /\ (s # <<>> => Len(s) # 0)
  BY LenProperties, EmptySeq
<1>2. Append(s, e) \in Seq(S) /\ Len(Append(s, e)) = Len(s) + 1 /\ Append(s, e)[Len(s) + 1] = e
  BY AppendProperties
<1>3. s # <<>> => Len(s) \in DOMAIN s
  BY <1>1
<1>4. Append(s, e) # <<>>
  BY <1>1, <1>2, EmptySeq
<1> QED  BY <1>2, <1>3, <1>4 DEF Last, Range

LEMMA ScannedLast == TypeOK /\ scanned # <<>> => Last(scanned) \in Typed
<1> SUFFICES ASSUME TypeOK, scanned # <<>> PROVE Last(scanned) \in Typed
  OBVIOUS
<1>1. scanned \in Seq(Typed)
  BY DEF TypeOK
<1>2. Len(scanned) \in Nat /\ Len(scanned) # 0 /\ DOMAIN scanned = 1 .. Len(scanned)
  BY <1>1, LenProperties, EmptySeq
<1> QED  BY <1>1, <1>2 DEF Last

(* Handing over a new message leaves the order of those published as it was. *)
LEMMA InLineHandOver ==
  ASSUME InLine, handed \in Seq(Outgoing), published \in Seq(Outgoing),
         Range(published) \subseteq Range(handed), NEW m \in Outgoing, m \notin Range(handed),
         handed' = Append(handed, m), published' = published
  PROVE  InLine'
<1>1. /\ Len(handed) \in Nat /\ DOMAIN handed = 1 .. Len(handed)
      /\ DOMAIN handed' = 1 .. Len(handed) + 1
      /\ \A p \in 1 .. Len(handed) : handed'[p] = handed[p]
      /\ handed'[Len(handed) + 1] = m
  BY LenProperties, AppendProperties
<1>2. \A i \in DOMAIN published : published[i] # m
  BY DEF Range
<1> QED  BY <1>1, <1>2 DEF InLine

(* Publishing the last message that was handed over keeps the order. *)
LEMMA InLinePublish ==
  ASSUME InLine, handed \in Seq(Outgoing), published \in Seq(Outgoing), IsInjective(handed),
         msg \in Outgoing, handed # <<>>, msg = Last(handed),
         published' = Append(published, msg), handed' = handed
  PROVE  InLine'
<1>1. /\ Len(published) \in Nat /\ DOMAIN published = 1 .. Len(published)
      /\ DOMAIN published' = 1 .. Len(published) + 1
      /\ \A i \in 1 .. Len(published) : published'[i] = published[i]
      /\ published'[Len(published) + 1] = msg
  BY LenProperties, AppendProperties
<1>2. Len(handed) \in Nat /\ DOMAIN handed = 1 .. Len(handed) /\ Len(handed) # 0
  BY LenProperties, EmptySeq
<1>3. \A q \in DOMAIN handed : handed[q] = msg => q = Len(handed)
  BY <1>2 DEF IsInjective, Last
<1> SUFFICES ASSUME NEW i \in DOMAIN published', NEW j \in DOMAIN published',
                    NEW p \in DOMAIN handed, NEW q \in DOMAIN handed,
                    i < j, handed[p] = published'[i], handed[q] = published'[j]
             PROVE  p <= q
  BY DEF InLine
<1>4. i \in 1 .. Len(published)
  BY <1>1
<1>5. CASE j \in 1 .. Len(published)
  BY <1>1, <1>4, <1>5 DEF InLine
<1>6. CASE j = Len(published) + 1
  <2>1. q = Len(handed)
    BY <1>1, <1>3, <1>6
  <2> QED  BY <1>2, <2>1
<1> QED  BY <1>1, <1>5, <1>6

(* As long as no name came twice no message is handed over twice. *)
LEMMA HandedOnce ==
  ASSUME TypeOK, Once, GreetedInOrder, AnySent, program # "client", again = {}
  PROVE  IsInjective(handed) /\ (program = "service" /\ line # Nil => line \notin Range(handed))
<1> USE NsqAssumption, GreeterAssumption DEF TypeOK, NsqTypeOK
<1>1. handed \in Seq(Outgoing) /\ received \in Seq(Incoming)
  OBVIOUS
<1>2. CASE program = "any"
  BY <1>2 DEF AnySent
<1>3. CASE program = "service"
  <2>1. IsInjective(Greetings)
    <3>1. IsInjective(received)
      BY DEF Once
    <3>2. \A v, w : Hello(v) = Hello(w) => v = w
      <4>1. \A v : Hello(v).hello = v
        BY DEF Hello
      <4> QED  BY <4>1
    <3> QED  BY <3>1, <3>2 DEF IsInjective, Greetings
  <2>2. Greetings = handed \o IF line = Nil THEN <<>> ELSE <<line>>
    BY <1>3 DEF GreetedInOrder
  <2>3. CASE line = Nil
    <3>1. Greetings = handed
      BY <1>1, <2>2, <2>3, ConcatEmptySeq
    <3> QED  BY <1>3, <2>1, <2>3, <3>1
  <2>4. CASE line # Nil
    <3>1. <<line>> \in Seq(Outgoing) /\ Range(<<line>>) = {line} /\ Greetings = handed \o <<line>>
      BY <2>2, <2>4 DEF Range
    <3>2. IsInjective(handed) /\ Range(handed) \cap Range(<<line>>) = {}
      BY <1>1, <2>1, <3>1, InjectiveParts
    <3> QED  BY <3>1, <3>2
  <2> QED  BY <2>3, <2>4
<1> QED  BY <1>2, <1>3
(* The producer is done with a message, or repeats it. *)
LEMMA StepPublishes ==
  ASSUME IInv, Publish \/ PublishFails, UNCHANGED programVars
  PROVE  ClientSent' /\ AnySent' /\ Sent'
<1> USE NsqAssumption, GreeterAssumption DEF IInv, TypeOK, NsqTypeOK
<1>1. /\ handed \in Seq(Outgoing) /\ published \in Seq(Outgoing) /\ msg \in Outgoing
      /\ handed' = handed /\ again' = again
      /\ UNCHANGED <<program, line, scanned>>
  BY DEF Publish, PublishFails, ProdGoes, consVars, programVars
<1>2. published' \in {published, Append(published, msg)}
  BY DEF Publish, PublishFails
<1>3. \/ msg' = msg /\ warned \subseteq warned'
      \/ msg' = Nil /\ warned \subseteq warned' /\ (published' = Append(published, msg) \/ msg \in warned')
  <2>1. CASE Publish
    BY <2>1 DEF Publish
  <2>2. CASE PublishFails
    <3>1. prod' \in {"publish", "report"}
      BY <2>2 DEF PublishFails, ProdGoes, AfterFailure
    <3> QED  BY <2>2, <3>1 DEF PublishFails
  <2> QED  BY <2>1, <2>2
<1>4. Range(Append(published, msg)) = Range(published) \cup {msg}
  BY <1>1, RangeOfAppend
<1>5. /\ Range(published) \subseteq Range(published')
      /\ Range(published') \subseteq Range(published) \cup {msg}
  BY <1>2, <1>4
<1>6. Settled \ {Nil} \subseteq Settled'
  BY <1>3, <1>4, <1>5 DEF Settled
<1>7. ClientSent'
  <2> SUFFICES ASSUME program = "client", scanned # <<>>
               PROVE  Last(scanned) \in Settled' \cup {line}
    BY <1>1 DEF ClientSent
  <2>1. Last(scanned) \in Typed
    BY ScannedLast
  <2>2. Last(scanned) # Nil
    BY <2>1
  <2> QED  BY <1>6, <2>2 DEF ClientSent
<1>8. AnySent'
  BY <1>1 DEF AnySent
<1>9. Sent'
  <2> SUFFICES ASSUME program # "client"
               PROVE  /\ Range(handed) \subseteq Settled'
                      /\ Range(published') \subseteq Range(handed)
                      /\ msg' # Nil => handed # <<>> /\ msg' = Last(handed)
                      /\ again = {} => InLine'
    BY <1>1 DEF Sent
  <2>1. /\ Range(handed) \subseteq Settled /\ Range(published) \subseteq Range(handed)
        /\ handed # <<>> /\ msg = Last(handed)
        /\ again = {} => InLine
    BY <1>1 DEF Sent
  <2>2. Nil \notin Range(handed)
    <3>1. Range(handed) \subseteq Outgoing
      BY <1>1, RangeOfSeq
    <3> QED  BY <3>1
  <2>3. Range(handed) \subseteq Settled'
    BY <1>6, <2>1, <2>2
  <2>4. msg \in Range(handed)
    BY <1>1, <2>1, LastOf
  <2>5. ASSUME again = {} PROVE InLine'
    <3>1. IsInjective(handed)
      BY <2>5, HandedOnce
    <3>2. CASE published' = Append(published, msg)
      <4> HIDE DEF IInv, TypeOK, NsqTypeOK
      <4> QED  BY <1>1, <2>1, <2>5, <3>1, <3>2, InLinePublish
    <3>3. CASE published' = published
      BY <1>1, <2>1, <2>5, <3>3 DEF InLine
    <3> QED  BY <1>2, <3>2, <3>3
  <2> QED  BY <1>1, <1>3, <1>5, <2>1, <2>3, <2>4, <2>5
<1> QED  BY <1>7, <1>8, <1>9

(* The program, or any client, hands a message over: the producer has none. *)
LEMMA StepHandsOver ==
  ASSUME IInv, Given
  PROVE  ClientSent' /\ AnySent' /\ Sent'
<1> USE NsqAssumption, GreeterAssumption DEF IInv, TypeOK, NsqTypeOK
<1>1. PICK m \in Outgoing :
        /\ HandOver(m)
        /\ \/ program # "any" /\ m = line /\ line' = Nil
           \/ program = "any" /\ m \notin Range(handed) /\ line' = line
  BY DEF Given, AnySent
<1>2. /\ handed \in Seq(Outgoing) /\ published \in Seq(Outgoing) /\ msg = Nil /\ msg' = m
      /\ handed' = Append(handed, m) /\ m # Nil
      /\ UNCHANGED <<published, warned, again, program, scanned>>
  BY <1>1 DEF Given, HandOver, ProdGoes, consVars
<1>3. /\ Range(handed') = Range(handed) \cup {m}
      /\ handed' # <<>> /\ Last(handed') = m
  BY <1>2, RangeOfAppend, LastOf
<1>4. Settled \ {Nil} \subseteq Settled' /\ m \in Settled'
  BY <1>2 DEF Settled
<1>5. ClientSent'
  <2> SUFFICES ASSUME program = "client", scanned # <<>>
               PROVE  Last(scanned) \in Settled'
    BY <1>2 DEF ClientSent
  <2>1. Last(scanned) \in Typed
    BY ScannedLast
  <2>2. Last(scanned) # Nil
    BY <2>1
  <2> QED  BY <1>1, <1>4, <2>2 DEF ClientSent
<1>6. AnySent'
  <2> SUFFICES ASSUME program = "any"
               PROVE  line' = Nil /\ IsInjective(handed')
    BY <1>2 DEF AnySent
  <2> QED  BY <1>1, <1>2, InjectiveAppend DEF AnySent
<1>7. Sent'
  <2> SUFFICES ASSUME program # "client"
               PROVE  /\ Range(handed') \subseteq Settled'
                      /\ Range(published) \subseteq Range(handed')
                      /\ again = {} => InLine'
    BY <1>2, <1>3 DEF Sent
  <2>1. /\ Range(handed) \subseteq Settled /\ Range(published) \subseteq Range(handed)
        /\ again = {} => InLine
    BY DEF Sent
  <2>2. Nil \notin Range(handed)
    <3>1. Range(handed) \subseteq Outgoing
      BY <1>2, RangeOfSeq
    <3> QED  BY <3>1
  <2>3. Range(handed') \subseteq Settled'
    BY <1>3, <1>4, <2>1, <2>2
  <2>4. ASSUME again = {} PROVE InLine'
    <3>1. m \notin Range(handed)
      <4>1. program = "service" \/ program = "any"
        OBVIOUS
      <4> QED  BY <1>1, <1>2, <2>4, <4>1, HandedOnce
    <3> HIDE DEF IInv, TypeOK, NsqTypeOK
    <3> QED  BY <1>2, <2>1, <2>4, <3>1, InLineHandOver
  <2> QED  BY <1>3, <2>1, <2>3, <2>4
<1> QED  BY <1>5, <1>6, <1>7

LEMMA StepSends ==
  ASSUME IInv, [Next]_vars
  PROVE  ClientSent' /\ AnySent' /\ Sent'
<1> USE DEF IInv
<1>1. CASE Quiet
  BY <1>1 DEF Quiet, ClientSent, AnySent, Sent, InLine, Settled
<1>2. CASE (\E m \in Incoming : Handle(m)) /\ UNCHANGED programVars
  <2>1. /\ UNCHANGED <<msg, handed, published, warned, program, line, scanned>>
        /\ again' = {} => again = {}
    BY <1>2 DEF Handle, prodVars, programVars
  <2> QED  BY <2>1 DEF ClientSent, AnySent, Sent, InLine, Settled
<1>3. CASE Taken
  <2>1. UNCHANGED <<msg, handed, published, warned, program, scanned, again>>
    BY <1>3 DEF Taken, TakeReceived, prodVars
  <2>2. program # "service" => line' = line
    BY <1>3 DEF Taken
  <2> QED  BY <2>1, <2>2 DEF ClientSent, AnySent, Sent, InLine, Settled
<1>4. CASE Given
  BY <1>4, StepHandsOver
<1>5. CASE (Publish \/ PublishFails) /\ UNCHANGED programVars
  BY <1>5, StepPublishes
<1>6. ASSUME NEW m \in Typed, Scan(m) PROVE ClientSent' /\ AnySent' /\ Sent'
  <2>1. /\ program = "client" /\ program' = program /\ line' = m
        /\ scanned' = Append(scanned, m)
    BY <1>6 DEF Scan, Running
  <2>2. Last(scanned') = m
    BY <2>1, LastOf DEF TypeOK
  <2> QED  BY <2>1, <2>2 DEF ClientSent, AnySent, Sent
<1> QED  BY <1>1, <1>2, <1>3, <1>4, <1>5, <1>6, Moves

THEOREM Step == IInv /\ [Next]_vars => IInv'
<1> SUFFICES ASSUME IInv, [Next]_vars PROVE IInv'
  OBVIOUS
<1>1. TypeOK' /\ Retries'
  BY TypeStep DEF IInv
<1>2. Once' /\ NothingVanishes'
  BY StepReceives DEF IInv
<1>3. GreetedInOrder'
  BY StepGreets DEF IInv
<1>4. ClientSent' /\ AnySent' /\ Sent'
  BY StepSends
<1>5. Stopping'
  BY StepStops DEF IInv
<1> QED  BY <1>1, <1>2, <1>3, <1>4, <1>5 DEF IInv

THEOREM Inductive == Spec => []IInv
BY InitInv, Step, PTL DEF Spec

----------------------------------------------------------------------------
(* The variables of the transport and of its programs keep their types: errChan
   does not overflow, and the producer has a message just while it publishes. *)
THEOREM TypeCorrect == Spec => []TypeOK
<1>1. IInv => TypeOK
  BY DEF IInv
<1> QED  BY <1>1, Inductive, PTL

(* Greeter answers every name once and in order. *)
THEOREM GreetsInOrder == Spec => []GreetedInOrder
<1>1. IInv => GreetedInOrder
  BY DEF IInv
<1> QED  BY <1>1, Inductive, PTL

(* A message that nsqd has forgotten waits in the handler, or was read. *)
THEOREM KeepsAll == Spec => []NothingVanishes
<1>1. IInv => NothingVanishes
  BY DEF IInv
<1> QED  BY <1>1, Inductive, PTL

(* While no acknowledgement is lost, the handler gives the program no message
   twice, and none it has read is in nsqd any more. *)
THEOREM ReadsOnce == Spec => []Once
<1>1. IInv => Once
  BY DEF IInv
<1> QED  BY <1>1, Inductive, PTL

(* However often Publish fails and whatever it stored, no message is passed over
   in silence and none overtakes another. *)
THEOREM PublishesInOrder == Spec => []PublishedInOrder
<1>1. IInv => PublishedInOrder
  <2> SUFFICES ASSUME IInv PROVE PublishedInOrder
    OBVIOUS
  <2> USE DEF IInv
  <2>1. program = "client" /\ scanned # <<>> => scanned[Len(scanned)] \in Settled \cup {line}
    BY DEF ClientSent, Last
  <2>2. program # "client" => Range(handed) \subseteq Settled
    BY DEF Sent
  <2>3. ASSUME program # "client", again = {},
               NEW i \in DOMAIN published, NEW j \in DOMAIN published, i < j
        PROVE  Position(published[i]) <= Position(published[j])
    <3>1. InLine /\ Range(published) \subseteq Range(handed)
      BY <2>3 DEF Sent
    <3>2. \A k \in DOMAIN published :
            /\ Position(published[k]) \in DOMAIN handed
            /\ handed[Position(published[k])] = published[k]
      BY <3>1 DEF Position, Range
    <3> QED  BY <2>3, <3>1, <3>2 DEF InLine
  <2> QED  BY <2>1, <2>2, <2>3 DEF PublishedInOrder
<1> QED  BY <1>1, Inductive, PTL

(* Once Done is closed no consumer Stop knew of takes messages from the queue. *)
THEOREM StopsConsumers == Spec => []ConsumersStopped
<1>1. IInv => ConsumersStopped
  BY DEF IInv, Stopping, ConsumersStopped
<1> QED  BY <1>1, Inductive, PTL
----------------------------------------------------------------------------
(* backoff.Do: the transport calls it around Publish and to connect.  Its three
   arguments and the width of a Duration are arbitrary here. *)

(* What SleepBounded needs to be inductive: until a doubling overflows the
   backoff is no less than the initial one or the cap, and none overflows when
   the cap is in range. *)
BackoffInv ==
  \/ wrapped /\ ~CapInRange
  \/ /\ ~wrapped /\ backoff >= 0
     /\ initialBackoff <= backoff \/ (maxBackoff # 0 /\ maxBackoff <= backoff)

(* Doubling wraps around within the Durations. *)
LEMMA DoubleInRange ==
  ASSUME NEW d \in -IntMax - 1 .. IntMax
  PROVE  Double(d) \in -IntMax - 1 .. IntMax
BY BackoffAssumption DEF Double

LEMMA DoInitHolds == DoInit => DoTypeOK /\ GivesUpExactly /\ BackoffInv /\ SleepBounded
<1> SUFFICES ASSUME DoInit PROVE DoTypeOK /\ GivesUpExactly /\ BackoffInv /\ SleepBounded
  OBVIOUS
<1>1. /\ initialBackoff \in 0 .. IntMax /\ backoff = initialBackoff /\ IntMax \in Nat
      /\ maxCalls \in Nat /\ calls \in 0 .. CallBound /\ calls = 0
  BY BackoffAssumption DEF DoInit
<1>2. DoTypeOK
  <2>1. backoff \in -IntMax - 1 .. IntMax
    BY <1>1
  <2> QED  BY <1>1, <2>1 DEF DoInit, DoTypeOK
<1>3. BackoffInv
  BY <1>1 DEF DoInit, BackoffInv
<1>4. GivesUpExactly /\ SleepBounded
  BY <1>1 DEF DoInit, GivesUpExactly, SleepBounded
<1> QED  BY <1>2, <1>3, <1>4

LEMMA DoTypeStep == DoTypeOK /\ [DoNext]_doVars => DoTypeOK'
<1> SUFFICES ASSUME DoTypeOK, [DoNext]_doVars PROVE DoTypeOK'
  OBVIOUS
<1> USE BackoffAssumption
<1>1. CASE CallFails
  <2>1. NextBackoff(backoff) \in -IntMax - 1 .. IntMax
    <3>1. maxBackoff \in -IntMax - 1 .. IntMax
      BY DEF DoTypeOK
    <3> QED  BY <3>1, DoubleInRange DEF NextBackoff, Capped, DoTypeOK
  <2>2. wrapped' \in BOOLEAN
    BY <1>1 DEF CallFails, DoTypeOK
  <2> QED  BY <1>1, <2>1, <2>2 DEF CallFails, DoTypeOK, args
<1>2. CASE CallSucceeds \/ Wake \/ UNCHANGED doVars
  BY <1>2 DEF CallSucceeds, Wake, doVars, args, DoTypeOK
<1> QED  BY <1>1, <1>2 DEF DoNext

LEMMA GivesUpStep == DoTypeOK /\ GivesUpExactly /\ [DoNext]_doVars => GivesUpExactly'
<1> SUFFICES ASSUME DoTypeOK, GivesUpExactly, [DoNext]_doVars PROVE GivesUpExactly'
  OBVIOUS
<1>1. maxCalls \in Nat /\ calls \in Nat
  BY BackoffAssumption DEF DoTypeOK
<1>2. CASE CallFails
  <2>1. maxCalls <= CallBound /\ CallBound \in Nat
    BY BackoffAssumption DEF DoTypeOK
  <2>2. maxCalls # 0 => calls < maxCalls /\ calls' = calls + 1
    BY <1>1, <1>2, <2>1 DEF CallFails, GivesUpExactly
  <2> QED  BY <1>1, <1>2, <2>2 DEF CallFails, GivesUpExactly, GivesUp, args
<1>3. CASE CallSucceeds \/ Wake \/ UNCHANGED doVars
  BY <1>1, <1>3 DEF CallSucceeds, Wake, doVars, args, GivesUpExactly
<1> QED  BY <1>2, <1>3 DEF DoNext

(* A step keeps the backoff in bounds, and shrinks it only down to the cap. *)
LEMMA BackoffStep ==
  ASSUME DoTypeOK, BackoffInv, SleepBounded, [DoNext]_doVars
  PROVE  /\ BackoffInv' /\ SleepBounded'
         /\ ~wrapped' /\ backoff' < backoff => Capped(backoff) /\ backoff' = maxBackoff
<1>1. initialBackoff \in Nat /\ maxBackoff \in Nat /\ backoff \in Int
  BY BackoffAssumption DEF DoTypeOK
<1>2. initialBackoff' = initialBackoff /\ maxBackoff' = maxBackoff
  BY DEF DoNext, CallSucceeds, CallFails, Wake, doVars, args
<1>3. CapInRange' = CapInRange
  BY <1>2 DEF CapInRange
<1>4. CASE UNCHANGED <<backoff, wrapped>> /\ (pc' = "sleep" => pc = "sleep")
  BY <1>1, <1>2, <1>3, <1>4 DEF BackoffInv, SleepBounded
<1>5. CASE /\ backoff' = NextBackoff(backoff)
           /\ wrapped' = (wrapped \/ (~Capped(backoff) /\ 2 * backoff \notin -IntMax - 1 .. IntMax))
  <2>1. CASE wrapped
    BY <1>2, <1>3, <1>5, <2>1 DEF BackoffInv, SleepBounded
  <2>2. CASE ~wrapped /\ Capped(backoff)
    <3>1. ~wrapped' /\ backoff' = maxBackoff /\ maxBackoff # 0
      BY <1>5, <2>2 DEF NextBackoff, Capped
    <3> QED  BY <1>1, <1>2, <2>2, <3>1 DEF BackoffInv, SleepBounded
  <2>3. CASE ~wrapped /\ ~Capped(backoff)
    <3>1. backoff >= 0 /\ (maxBackoff = 0 \/ backoff <= maxBackoff)
      BY <1>1, <2>3 DEF BackoffInv, Capped
    <3>2. CASE 2 * backoff <= IntMax
      <4>1. backoff' = 2 * backoff /\ ~wrapped'
        <5>1. 2 * backoff \in -IntMax - 1 .. IntMax /\ Double(backoff) = 2 * backoff
          BY <1>1, <3>1, <3>2, BackoffAssumption DEF Double
        <5> QED  BY <1>5, <2>3, <5>1 DEF NextBackoff
      <4>2. /\ initialBackoff <= backoff' \/ (maxBackoff # 0 /\ maxBackoff <= backoff')
            /\ maxBackoff # 0 => backoff' <= 2 * maxBackoff
            /\ backoff' >= backoff
        BY <1>1, <2>3, <3>1, <4>1 DEF BackoffInv
      <4> QED  BY <1>1, <1>2, <3>1, <4>1, <4>2 DEF BackoffInv, SleepBounded
    <3>3. CASE 2 * backoff > IntMax
      <4>1. wrapped'
        <5>1. 2 * backoff \notin -IntMax - 1 .. IntMax
          BY <1>1, <3>3, BackoffAssumption
        <5> QED  BY <1>5, <2>3, <5>1
      <4>2. ~CapInRange
        BY <1>1, <3>1, <3>3, BackoffAssumption DEF CapInRange
      <4> QED  BY <1>3, <4>1, <4>2 DEF BackoffInv, SleepBounded
    <3> QED  BY <1>1, <3>2, <3>3, BackoffAssumption
  <2> QED  BY <2>1, <2>2, <2>3
<1> QED  BY <1>4, <1>5 DEF DoNext, CallSucceeds, CallFails, Wake, doVars

THEOREM DoTypeCorrect == DoSpec => []DoTypeOK
BY DoInitHolds, DoTypeStep, PTL DEF DoSpec

(* Do gives up after exactly maxCalls failed calls, for every limit. *)
THEOREM ExactCalls == DoSpec => []GivesUpExactly
BY DoInitHolds, GivesUpStep, DoTypeCorrect, PTL DEF DoSpec

(* For all arguments, and however often f fails, a sleep is out of bounds only
   after an overflow, and that needs no cap, or one above half the range. *)
THEOREM BoundedSleeps == DoSpec => []SleepBounded
<1>1. DoTypeOK /\ BackoffInv /\ SleepBounded /\ [DoNext]_doVars => BackoffInv' /\ SleepBounded'
  BY BackoffStep
<1> QED  BY <1>1, DoInitHolds, DoTypeCorrect, PTL DEF DoSpec

(* And until then a sleep shorter than the one before it is the cap. *)
THEOREM MonotoneSleeps == DoSpec => NeverShrinksBelowCap
<1>1. DoTypeOK /\ BackoffInv /\ SleepBounded /\ [DoNext]_doVars => BackoffInv' /\ SleepBounded'
  BY BackoffStep
<1>2. DoTypeOK /\ BackoffInv /\ SleepBounded /\ [DoNext]_doVars
        => [~wrapped' /\ backoff' < backoff => Capped(backoff) /\ backoff' = maxBackoff]_doVars
  BY BackoffStep
<1> QED  BY <1>1, <1>2, DoInitHolds, DoTypeCorrect, PTL DEF DoSpec, NeverShrinksBelowCap
----------------------------------------------------------------------------
(* FakeSQSAPI: what TLC shows for five methods holds for the 63 of the code. *)

(* A call has its place in ArgsForCall. *)
Right(c) ==
  /\ c.number < Len(argsForCall[c.method])
  /\ argsForCall[c.method][c.number + 1] = c.arg

EveryCallRight ==
  /\ \A c \in returned : Right(c)
  /\ \A t \in Threads : Calling(t) => Right(call[t])

(* The mutex of a method is locked to write just by the goroutine that is
   recording a call of it. *)
MutexHeld ==
  /\ \A t \in Threads : at[t] = "record" => writer[call[t].method] = t
  /\ \A m \in Methods : writer[m] # None => at[writer[m]] = "record" /\ call[writer[m]].method = m

(* BooksAgree, with the goroutine that is recording named by the mutex. *)
Booked(m) ==
  argsForCall[m] = IF writer[m] = None THEN invocations[m]
                   ELSE Append(invocations[m], call[writer[m]].arg)

FakeInv == FakeTypeOK /\ EveryCallRight /\ MutexHeld /\ \A m \in Methods : Booked(m)

LEMMA FakeInitInv == FakeInit => FakeInv
<1> SUFFICES ASSUME FakeInit PROVE FakeInv
  OBVIOUS
<1>1. FakeTypeOK
  BY EmptySeq, FakeSqsAssumption DEF FakeInit, FakeTypeOK, Calling
<1>2. EveryCallRight /\ MutexHeld /\ \A m \in Methods : Booked(m)
  BY DEF FakeInit, EveryCallRight, MutexHeld, Booked, Calling
<1> QED  BY <1>1, <1>2 DEF FakeInv

(* A call that has got its method's mutex: nobody else was recording one. *)
LEMMA StepCallLocks ==
  ASSUME FakeInv, NEW t \in Threads, NEW m \in Methods, NEW a \in Args, CallLocks(t, m, a)
  PROVE  FakeInv'
<1> DEFINE from == IF stub[m] THEN "stub" ELSE IF Number(m) \in onCall[m] THEN "onCall" ELSE "returns"
           new == [method |-> m, arg |-> a, number |-> Number(m), from |-> from]
<1> USE DEF FakeInv
<1>1. /\ at[t] = "idle" /\ at' = [at EXCEPT ![t] = "record"]
      /\ writer[m] = None /\ writer' = [writer EXCEPT ![m] = t]
      /\ argsForCall' = [argsForCall EXCEPT ![m] = Append(@, a)]
      /\ call' = [call EXCEPT ![t] = new]
      /\ UNCHANGED <<readers, invReaders, stub, settings, onCall, invocations, returned>>
  BY DEF CallLocks, Goes, Unlocked, Holding, resultVars
<1>2. /\ argsForCall[m] \in Seq(Args) /\ Number(m) \in Nat
      /\ Append(argsForCall[m], a) \in Seq(Args)
      /\ Len(Append(argsForCall[m], a)) = Number(m) + 1
      /\ Append(argsForCall[m], a)[Number(m) + 1] = a
      /\ \A i \in 1 .. Number(m) : Append(argsForCall[m], a)[i] = argsForCall[m][i]
  BY AppendProperties, LenProperties DEF FakeTypeOK, Number
<1>3. new \in Calls /\ new.method = m /\ new.arg = a /\ new.number = Number(m)
  <2>1. from \in {"stub", "onCall", "returns"}
    OBVIOUS
  <2> HIDE DEF from
  <2> QED  BY <1>2, <2>1 DEF Calls
<1> HIDE DEF new
<1>4. FakeTypeOK'
  BY <1>1, <1>2, <1>3 DEF FakeTypeOK, Calling
<1>5. ASSUME NEW c \in Calls, Right(c) PROVE Right(c)'
  <2>1. c.method \in Methods /\ c.number \in Nat
    BY DEF Calls
  <2>2. CASE c.method = m
    <3>1. c.number + 1 \in 1 .. Number(m)
      BY <1>2, <1>5, <2>1, <2>2 DEF Right, Number
    <3> QED  BY <1>1, <1>2, <1>5, <2>1, <2>2, <3>1 DEF Right, FakeTypeOK, Number
  <2>3. CASE c.method # m
    BY <1>1, <1>5, <2>1, <2>3 DEF Right, FakeTypeOK
  <2> QED  BY <2>2, <2>3
<1>6. new.number < Len(argsForCall'[new.method]) /\ argsForCall'[new.method][new.number + 1] = new.arg
  BY <1>1, <1>2, <1>3 DEF FakeTypeOK
<1>7. EveryCallRight'
  <2>1. \A c \in returned' : Right(c)'
    BY <1>1, <1>5 DEF EveryCallRight, FakeTypeOK
  <2>2. ASSUME NEW u \in Threads, Calling(u)' PROVE Right(call[u])'
    <3>1. CASE u = t
      BY <1>1, <1>6, <3>1 DEF FakeTypeOK, Right
    <3>2. CASE u # t
      <4>1. call'[u] = call[u] /\ Calling(u)
        BY <1>1, <2>2, <3>2 DEF FakeTypeOK, Calling
      <4> QED  BY <1>5, <4>1 DEF EveryCallRight, FakeTypeOK
    <3> QED  BY <3>1, <3>2
  <2> QED  BY <2>1, <2>2 DEF EveryCallRight
<1>8. MutexHeld'
  <2>1. ASSUME NEW u \in Threads, at'[u] = "record" PROVE writer'[call'[u].method] = u
    <3>1. CASE u = t
      BY <1>1, <1>3, <3>1 DEF FakeTypeOK
    <3>2. CASE u # t
      <4>1. at[u] = "record" /\ call'[u] = call[u]
        BY <1>1, <2>1, <3>2 DEF FakeTypeOK
      <4>2. writer[call[u].method] = u /\ call[u] \in Calls
        BY <4>1 DEF MutexHeld, FakeTypeOK, Calling
      <4>3. call[u].method \in Methods /\ call[u].method # m
        BY <1>1, <4>2, FakeSqsAssumption DEF Calls
      <4> QED  BY <1>1, <4>1, <4>2, <4>3 DEF FakeTypeOK
    <3> QED  BY <3>1, <3>2
  <2>2. ASSUME NEW k \in Methods, writer'[k] # None
        PROVE  at'[writer'[k]] = "record" /\ call'[writer'[k]].method = k
    <3>1. CASE k = m
      BY <1>1, <1>3, <3>1 DEF FakeTypeOK
    <3>2. CASE k # m
      <4>1. writer'[k] = writer[k] /\ writer[k] \in Threads
        BY <1>1, <2>2, <3>2 DEF FakeTypeOK
      <4>2. at[writer[k]] = "record" /\ call[writer[k]].method = k
        BY <2>2, <4>1 DEF MutexHeld
      <4>3. writer[k] # t
        BY <1>1, <4>2
      <4> QED  BY <1>1, <4>1, <4>2, <4>3 DEF FakeTypeOK
    <3> QED  BY <3>1, <3>2
  <2> QED  BY <2>1, <2>2 DEF MutexHeld
<1>9. ASSUME NEW k \in Methods PROVE Booked(k)'
  <2>1. CASE k = m
    <3>1. argsForCall[m] = invocations[m]
      BY <1>1 DEF Booked
    <3>2. writer'[m] = t /\ t # None /\ call'[t].arg = a
      BY <1>1, <1>3, FakeSqsAssumption DEF FakeTypeOK
    <3>3. argsForCall'[m] = Append(argsForCall[m], a) /\ invocations'[m] = invocations[m]
      BY <1>1 DEF FakeTypeOK
    <3> QED  BY <2>1, <3>1, <3>2, <3>3 DEF Booked
  <2>2. CASE k # m
    <3>1. argsForCall'[k] = argsForCall[k] /\ invocations'[k] = invocations[k] /\ writer'[k] = writer[k]
      BY <1>1, <2>2 DEF FakeTypeOK
    <3>2. ASSUME writer[k] # None PROVE call'[writer[k]] = call[writer[k]]
      <4>1. writer[k] \in Threads /\ writer[k] # t
        BY <1>1, <3>2 DEF MutexHeld, FakeTypeOK
      <4> QED  BY <1>1, <4>1 DEF FakeTypeOK
    <3> QED  BY <3>1, <3>2 DEF Booked
  <2> QED  BY <2>1, <2>2
<1> QED  BY <1>4, <1>7, <1>8, <1>9

(* The second book follows: the goroutine that does it holds the mutex. *)
LEMMA StepRecord ==
  ASSUME FakeInv, NEW t \in Threads, Record(t)
  PROVE  FakeInv'
<1> DEFINE m == call[t].method
<1> USE DEF FakeInv
<1>1. /\ at[t] = "record" /\ at' = [at EXCEPT ![t] = "return"]
      /\ invocations' = [invocations EXCEPT ![m] = Append(@, call[t].arg)]
      /\ writer' = [writer EXCEPT ![m] = None]
      /\ UNCHANGED <<readers, invReaders, stub, settings, onCall, argsForCall, call, returned>>
  BY DEF Record, Goes, resultVars
<1>2. call[t] \in Calls /\ m \in Methods /\ call[t].arg \in Args /\ writer[m] = t /\ t # None
  BY <1>1, FakeSqsAssumption DEF FakeTypeOK, MutexHeld, Calling, Calls
<1> HIDE DEF m
<1>3. FakeTypeOK'
  <2>1. Append(invocations[m], call[t].arg) \in Seq(Args)
    BY <1>2, AppendProperties DEF FakeTypeOK
  <2>2. invocations' \in [Methods -> Seq(Args)] /\ writer' \in [Methods -> Threads \cup {None}]
    BY <1>1, <1>2, <2>1 DEF FakeTypeOK
  <2>3. /\ at' \in [Threads -> {"idle", "record", "return", "invocations"}]
        /\ \A u \in Threads : Calling(u)' = Calling(u)
    BY <1>1 DEF FakeTypeOK, Calling
  <2> QED  BY <1>1, <2>2, <2>3 DEF FakeTypeOK
<1>4. EveryCallRight'
  BY <1>1 DEF EveryCallRight, Right, Calling, FakeTypeOK
<1>5. MutexHeld'
  <2>1. ASSUME NEW u \in Threads, at'[u] = "record" PROVE writer'[call'[u].method] = u
    <3>1. u # t /\ at[u] = "record"
      BY <1>1, <2>1 DEF FakeTypeOK
    <3>2. writer[call[u].method] = u /\ call[u].method \in Methods
      BY <3>1 DEF MutexHeld, FakeTypeOK, Calling, Calls
    <3> QED  BY <1>1, <1>2, <3>1, <3>2 DEF FakeTypeOK
  <2>2. ASSUME NEW k \in Methods, writer'[k] # None
        PROVE  at'[writer'[k]] = "record" /\ call'[writer'[k]].method = k
    <3>1. k # m /\ writer'[k] = writer[k]
      BY <1>1, <1>2, <2>2 DEF FakeTypeOK
    <3>2. writer[k] \in Threads /\ at[writer[k]] = "record" /\ call[writer[k]].method = k
      BY <2>2, <3>1 DEF MutexHeld, FakeTypeOK
    <3>3. writer[k] # t
      BY <3>1, <3>2 DEF m
    <3> QED  BY <1>1, <3>1, <3>2, <3>3 DEF FakeTypeOK
  <2> QED  BY <2>1, <2>2 DEF MutexHeld
<1>6. ASSUME NEW k \in Methods PROVE Booked(k)'
  <2>1. CASE k = m
    <3>1. argsForCall[m] = Append(invocations[m], call[t].arg)
      BY <1>2 DEF Booked
    <3>2. writer'[m] = None /\ invocations'[m] = Append(invocations[m], call[t].arg)
      BY <1>1, <1>2 DEF FakeTypeOK
    <3> QED  BY <1>1, <2>1, <3>1, <3>2 DEF Booked
  <2>2. CASE k # m
    BY <1>1, <2>2 DEF Booked, FakeTypeOK
  <2> QED  BY <2>1, <2>2
<1> QED  BY <1>3, <1>4, <1>5, <1>6

LEMMA StepReturn ==
  ASSUME FakeInv, NEW t \in Threads, Return(t)
  PROVE  FakeInv'
<1> USE DEF FakeInv
<1>1. /\ at[t] = "return" /\ at' = [at EXCEPT ![t] = "idle"]
      /\ returned' = returned \cup {call[t]}
      /\ call' = [call EXCEPT ![t] = None]
      /\ UNCHANGED <<writer, readers, invReaders, stub, settings, onCall, argsForCall, invocations>>
  BY DEF Return, Goes, locks, resultVars
<1>2. call[t] \in Calls /\ Right(call[t])
  BY <1>1 DEF FakeTypeOK, Calling, EveryCallRight
<1>3. FakeTypeOK'
  BY <1>1, <1>2 DEF FakeTypeOK, Calling
<1>4. \A c : Right(c)' = Right(c)
  BY <1>1 DEF Right
<1>5. \A u \in Threads : u # t => call'[u] = call[u] /\ at'[u] = at[u]
  BY <1>1 DEF FakeTypeOK
<1>6. EveryCallRight'
  <2>1. \A c \in returned' : Right(c)'
    BY <1>1, <1>2, <1>4 DEF EveryCallRight
  <2>2. \A u \in Threads : Calling(u)' => Right(call[u])'
    BY <1>1, <1>5 DEF EveryCallRight, Calling, FakeTypeOK, Right
  <2> QED  BY <2>1, <2>2 DEF EveryCallRight
<1>7. \A m \in Methods : writer[m] # t
  BY <1>1, FakeSqsAssumption DEF MutexHeld
<1>8. MutexHeld'
  <2>1. \A u \in Threads : at'[u] = "record" => writer'[call'[u].method] = u
    BY <1>1, <1>5 DEF MutexHeld, FakeTypeOK
  <2>2. \A m \in Methods : writer'[m] # None => at'[writer'[m]] = "record" /\ call'[writer'[m]].method = m
    BY <1>1, <1>5, <1>7 DEF MutexHeld, FakeTypeOK
  <2> QED  BY <2>1, <2>2 DEF MutexHeld
<1>9. \A m \in Methods : Booked(m)'
  BY <1>1, <1>5, <1>7 DEF Booked, FakeTypeOK
<1> QED  BY <1>3, <1>6, <1>8, <1>9

(* A result that is set leaves the calls and the books alone. *)
LEMMA StepSets ==
  ASSUME FakeInv, NEW t \in Threads, NEW m \in Methods,
         SetCalls(t, m) \/ SetReturns(t, m) \/ \E i \in CallNumbers : SetReturnsOnCall(t, m, i)
  PROVE  FakeInv'
<1> USE DEF FakeInv
<1>1. /\ UNCHANGED <<writer, readers, invReaders, argsForCall, invocations, at, call, returned>>
      /\ settings < MaxSettings /\ settings' = settings + 1
      /\ \E b \in BOOLEAN : stub' = [stub EXCEPT ![m] = b]
      /\ onCall' = onCall \/ \E i \in CallNumbers : onCall' = [onCall EXCEPT ![m] = @ \cup {i}]
  BY DEF SetCalls, SetReturns, SetReturnsOnCall, Sets, locks
<1>2. settings' \in 0 .. MaxSettings
  BY <1>1, FakeSqsAssumption DEF FakeTypeOK
<1>3. stub' \in [Methods -> BOOLEAN] /\ onCall' \in [Methods -> SUBSET CallNumbers]
  <2> DEFINE numbers == CallNumbers
  <2>1. onCall \in [Methods -> SUBSET numbers] /\ stub \in [Methods -> BOOLEAN]
    BY DEF FakeTypeOK
  <2>2. onCall' = onCall \/ \E i \in numbers : onCall' = [onCall EXCEPT ![m] = @ \cup {i}]
    BY <1>1
  <2> HIDE DEF numbers
  <2>3. onCall' \in [Methods -> SUBSET numbers]
    BY <2>1, <2>2
  <2>4. stub' \in [Methods -> BOOLEAN]
    BY <1>1, <2>1
  <2> QED  BY <2>3, <2>4 DEF numbers
<1>4. FakeTypeOK'
  BY <1>1, <1>2, <1>3 DEF FakeTypeOK, Calling
<1> QED  BY <1>1, <1>4 DEF EveryCallRight, Right, MutexHeld, Booked, Calling

(* Invocations reads. *)
LEMMA StepInvocations ==
  ASSUME FakeInv, NEW t \in Threads,
         InvocationsStart(t) \/ InvocationsLock(t) \/ InvocationsReturn(t)
  PROVE  FakeInv'
<1> USE DEF FakeInv
<1>1. UNCHANGED <<writer, stub, settings, onCall, argsForCall, invocations, call, returned>>
  BY DEF InvocationsStart, InvocationsLock, InvocationsReturn, locks, resultVars
<1>2. /\ at' \in [Threads -> {"idle", "record", "return", "invocations"}]
      /\ \A u \in Threads : (Calling(u)' <=> Calling(u)) /\ (at'[u] = "record" <=> at[u] = "record")
  <2>1. \/ at' = at
        \/ at[t] = "idle" /\ at' = [at EXCEPT ![t] = "invocations"]
        \/ at[t] = "invocations" /\ at' = [at EXCEPT ![t] = "idle"]
    BY DEF InvocationsStart, InvocationsLock, InvocationsReturn, Goes
  <2>2. at \in [Threads -> {"idle", "record", "return", "invocations"}]
    BY DEF FakeTypeOK
  <2> QED  BY <2>1, <2>2 DEF Calling
<1>3. readers' \in [Methods -> SUBSET Threads] /\ invReaders' \subseteq Threads
  <2>1. CASE InvocationsStart(t)
    BY <2>1 DEF InvocationsStart, FakeTypeOK
  <2>2. CASE InvocationsLock(t)
    <3>1. PICK m \in Methods : readers' = [readers EXCEPT ![m] = @ \cup {t}]
      BY <2>2 DEF InvocationsLock, Wanted, Methods
    <3>2. readers' \in [Methods -> SUBSET Threads]
      BY <3>1 DEF FakeTypeOK
    <3> QED  BY <2>2, <3>2 DEF InvocationsLock, FakeTypeOK
  <2>3. CASE InvocationsReturn(t)
    BY <2>3 DEF InvocationsReturn, NoLongerReading, FakeTypeOK
  <2> QED  BY <2>1, <2>2, <2>3
<1>4. FakeTypeOK'
  BY <1>1, <1>2, <1>3 DEF FakeTypeOK
<1>5. EveryCallRight'
  BY <1>1, <1>2 DEF EveryCallRight, Right
<1>6. MutexHeld' /\ \A m \in Methods : Booked(m)'
  BY <1>1, <1>2 DEF MutexHeld, Booked, FakeTypeOK
<1> QED  BY <1>4, <1>5, <1>6

(* One family of functions, whichever its method. *)
LEMMA StepFamily ==
  ASSUME FakeInv, NEW t \in Threads, NEW m \in Methods, Family(t, m)
  PROVE  FakeInv'
<1>1. CASE \E a \in Args : CallLocks(t, m, a)
  BY <1>1, StepCallLocks
<1>2. CASE SetCalls(t, m) \/ SetReturns(t, m) \/ \E i \in CallNumbers : SetReturnsOnCall(t, m, i)
  BY <1>2, StepSets
<1> QED  BY <1>1, <1>2 DEF Family

THEOREM FakeStep == FakeInv /\ [FakeNext]_fakeVars => FakeInv'
<1> SUFFICES ASSUME FakeInv, [FakeNext]_fakeVars PROVE FakeInv'
  OBVIOUS
<1>1. ASSUME NEW t \in Threads, Progress(t) PROVE FakeInv'
  BY <1>1, StepRecord, StepReturn, StepInvocations DEF Progress
<1>2. ASSUME NEW t \in Threads, InvocationsStart(t) PROVE FakeInv'
  BY <1>2, StepInvocations
<1>3. ASSUME NEW t \in Threads, NEW m \in Methods, Family(t, m) PROVE FakeInv'
  BY <1>3, StepFamily
<1>4. ASSUME NEW t \in Threads,
             DeleteMessage(t) \/ ReceiveMessage(t) \/ SendMessage(t) \/ SendMessageBatch(t)
      PROVE  FakeInv'
  <2>1. {"DeleteMessage", "ReceiveMessage", "SendMessage", "SendMessageBatch"} \subseteq Methods
    BY FakeSqsAssumption DEF Called
  <2> QED  BY <1>3, <1>4, <2>1 DEF DeleteMessage, ReceiveMessage, SendMessage, SendMessageBatch
<1>5. Others \subseteq Methods
  BY DEF Others
<1>6. CASE UNCHANGED fakeVars
  BY <1>6
     DEF fakeVars, locks, resultVars, FakeInv, FakeTypeOK, EveryCallRight, Right, MutexHeld,
         Booked, Calling
<1> QED  BY <1>1, <1>2, <1>3, <1>4, <1>5, <1>6 DEF FakeNext

THEOREM FakeInductive == FakeSpec => []FakeInv
<1> QED  BY FakeInitInv, FakeStep, PTL DEF FakeSpec

(* Every variable has its type, and a goroutine has a call just while it is in one. *)
THEOREM FakeTypeCorrect == FakeSpec => []FakeTypeOK
<1>1. FakeInv => FakeTypeOK
  BY DEF FakeInv
<1> QED  BY <1>1, FakeInductive, PTL

(* The call that takes result number i is the one ArgsForCall(i) shows. *)
THEOREM NumberRight == FakeSpec => []SameNumber
<1>1. FakeInv => SameNumber
  BY DEF FakeInv, EveryCallRight, Right, SameNumber
<1> QED  BY <1>1, FakeInductive, PTL

(* Invocations and ArgsForCall show the same calls in the same order. *)
THEOREM BooksAlwaysAgree == FakeSpec => []BooksAgree
<1>1. FakeInv => BooksAgree
  <2> SUFFICES ASSUME FakeInv, NEW m \in Methods
               PROVE  argsForCall[m] = IF Recording(m) = {} THEN invocations[m]
                        ELSE Append(invocations[m], call[CHOOSE t \in Recording(m) : TRUE].arg)
    BY DEF BooksAgree
  <2> USE DEF FakeInv
  <2>1. CASE writer[m] = None
    <3>1. Recording(m) = {}
      BY <2>1, FakeSqsAssumption DEF Recording, MutexHeld
    <3> QED  BY <2>1, <3>1 DEF Booked
  <2>2. CASE writer[m] # None
    <3>1. writer[m] \in Threads
      BY <2>2 DEF FakeTypeOK
    <3>2. Recording(m) = {writer[m]}
      BY <2>2, <3>1 DEF Recording, MutexHeld
    <3>3. (CHOOSE t \in Recording(m) : TRUE) = writer[m]
      BY <3>2
    <3> QED  BY <2>2, <3>2, <3>3 DEF Booked
  <2> QED  BY <2>1, <2>2
<1> QED  BY <1>1, FakeInductive, PTL
=============================================================================
