---------------------------- MODULE SqsTransport ----------------------------
(***************************************************************************)
(* Transport (src/queues/sqs/sqs.go): one publisher goroutine per name      *)
(* reads the Send channel, accumulates a batch and calls the service        *)
(* itself; Stop closes stopSubChan and stopPubChan, waits for the           *)
(* publishers and closes stopchan.  The receiving half is SqsReceive.       *)
(***************************************************************************)
EXTENDS SqsReceive

CONSTANTS
  Outgoing,   \* messages the clients send, each at most once per name
  BatchArg,   \* the batchSize argument of New
  MaxBatch    \* the limit New clamps it to (10)

ASSUME SqsTransportAssumption ==
  /\ Outgoing \subseteq Messages
  /\ Outgoing \cap Backlog = {}
  /\ BatchArg \in Nat
  /\ MaxBatch \in Nat \ {0}

VARIABLES
  sendLock,  \* the name whose failing Send holds t.sm until its error is sent, or Nil
  pub,       \* the publisher of each name: where its goroutine is
  sendCh,    \* the channel Send(name) returned
  accum,     \* the publisher's accum
  calling,   \* the entries of the publisher's current call of the service
  errsDue,   \* errors of its last call the publisher has yet to put on errChan
  accepted,  \* history: all that clients have put on sendCh
  handed,    \* history: all entries of the service calls that have returned
  stored,    \* history: the messages the service has put in the queue
  warned,    \* history: whether the publisher has put an error on errChan
  promised   \* history: Len(accepted[n]) when stopPubChan was closed

sendVars == <<sendLock, pub, sendCh, accum, calling, errsDue, accepted, handed, stored,
              warned, promised>>

vars == <<receiveVars, sendVars>>

(* "select": in the select; "call", "final": in a service call, the latter the
   deferred one; "report", "finalReport": blocked on errChan after it. *)
PubStates == {"none", "select", "call", "report", "final", "finalReport", "exited"}

(* New: if batchSize > 10 { batchSize = 10 } *)
BatchSize == IF BatchArg > MaxBatch THEN MaxBatch ELSE BatchArg

Init ==
  /\ ReceiveInit
  /\ sendLock = Nil
  /\ pub = [n \in Names |-> "none"]
  /\ sendCh = [n \in Names |-> <<>>]
  /\ accum = [n \in Names |-> <<>>]
  /\ calling = [n \in Names |-> <<>>]
  /\ errsDue = [n \in Names |-> 0]
  /\ accepted = [n \in Names |-> <<>>]
  /\ handed = [n \in Names |-> <<>>]
  /\ stored = [n \in Names |-> {}]
  /\ warned = [n \in Names |-> FALSE]
  /\ promised = [n \in Names |-> 0]

PubGoes(n, from, to) ==
  /\ pub[n] = from
  /\ pub' = [pub EXCEPT ![n] = to]

----------------------------------------------------------------------------
(* Send(name), under t.sm.  A name that has its channel is only looked up. *)

SendOpens(n) ==
  /\ sendLock = Nil
  /\ PubGoes(n, "none", "select")
  /\ UNCHANGED <<receiveVars, sendLock, sendCh, accum, calling, errsDue, accepted, handed,
                 stored, warned, promised>>

(* NewService fails, as in ReceiveFails. *)
SendFails(n) ==
  /\ ServiceFails
  /\ sendLock = Nil
  /\ pub[n] = "none"
  /\ sendLock' = n
  /\ UNCHANGED <<receiveVars, pub, sendCh, accum, calling, errsDue, accepted, handed,
                 stored, warned, promised>>

SendReports ==
  /\ sendLock # Nil
  /\ PutError(sendLock)
  /\ sendLock' = Nil
  /\ UNCHANGED <<stop, subVars, serviceVars, pub, sendCh, accum, calling, errsDue, accepted,
                 handed, stored, warned, promised>>

(* Which of its messages a client sends first makes no difference: bodies are
   only told apart. *)
NextMessage(n) == CHOOSE m \in Outgoing : m \notin Range(accepted[n])

(* A client puts m on the channel of n: blocks while the channel is full.
   Nobody closes the channel, so this may also happen after Stop. *)
ClientSend(n, m) ==
  /\ pub[n] # "none"
  /\ m \notin Range(accepted[n]) /\ m = NextMessage(n)
  /\ Len(sendCh[n]) < ChanCap
  /\ sendCh' = [sendCh EXCEPT ![n] = Append(@, m)]
  /\ accepted' = [accepted EXCEPT ![n] = Append(@, m)]
  /\ UNCHANGED <<receiveVars, sendLock, pub, accum, calling, errsDue, handed, stored,
                 warned, promised>>

----------------------------------------------------------------------------
(* The publisher goroutine of name n.  accum is emptied when its call returns;
   nothing reads it in between, so here it moves to calling when the call
   starts. *)

(* Mutant: accum = nil is forgotten. *)
StartCallAndKeep(n, batch) ==
  /\ calling' = [calling EXCEPT ![n] = batch]
  /\ UNCHANGED accum

(* The call of the service with what has accumulated starts. *)
StartCall(n, batch) ==
  /\ calling' = [calling EXCEPT ![n] = batch]
  /\ accum' = [accum EXCEPT ![n] = <<>>]


(* Mutant: no such test. *)
MayLeaveAtOnce(n) == TRUE

(* if len(ch) != 0 { continue } *)
MayLeave(n) == sendCh[n] = <<>>


(* case <-t.stopPubChan.  With messages in ch the loop goes round and nothing
   changes; otherwise the goroutine returns, and the deferred function makes a
   last call unless batchSize is 0 and accum is empty. *)
SeeStop(n) ==
  /\ stop \in {"pub", "done"}
  /\ MayLeave(n)
  /\ PubGoes(n, "select", IF BatchSize = 0 /\ accum[n] = <<>> THEN "exited" ELSE "final")
  /\ StartCall(n, accum[n])
  /\ UNCHANGED <<receiveVars, sendLock, sendCh, errsDue, accepted, handed, stored, warned,
                 promised>>

(* Mutant: after Stop the loop looks at stopPubChan only. *)
MessageReadyUntilStop(n) == pub[n] = "select" /\ sendCh[n] # <<>> /\ stop \notin {"pub", "done"}

(* The select may pick msg := <-ch, before and after Stop. *)
MessageReady(n) == pub[n] = "select" /\ sendCh[n] # <<>>


(* case msg := <-ch.  With batchSize 0 the message is sent at once, otherwise
   when the batch is full. *)
TakeMessage(n) ==
  /\ MessageReady(n)
  /\ sendCh' = [sendCh EXCEPT ![n] = Tail(@)]
  /\ LET batch == Append(accum[n], Head(sendCh[n])) IN
     \/ /\ Len(batch) < BatchSize
        /\ accum' = [accum EXCEPT ![n] = batch]
        /\ UNCHANGED <<pub, calling>>
     \/ /\ Len(batch) >= BatchSize
        /\ StartCall(n, batch)
        /\ pub' = [pub EXCEPT ![n] = "call"]
  /\ UNCHANGED <<receiveVars, sendLock, errsDue, accepted, handed, stored, warned, promised>>

(* Mutant: the timer sends full batches only. *)
TimerSendsFull(n) == Len(accum[n]) >= BatchSize

(* if len(accum) > 0, when the timer fires. *)
TimerSends(n) == accum[n] # <<>>


(* case <-time.After(t.batchInterval), with something accumulated. *)
BatchTimeout(n) ==
  /\ TimerSends(n)
  /\ PubGoes(n, "select", "call")
  /\ StartCall(n, accum[n])
  /\ UNCHANGED <<receiveVars, sendLock, sendCh, errsDue, accepted, handed, stored, warned,
                 promised>>

(* The current call returns with k errors to report; the messages in S are now
   in the queue. *)
CallReturns(n, S, k) ==
  /\ pub[n] \in {"call", "final"}
  /\ stored' = [stored EXCEPT ![n] = @ \cup S]
  /\ visible' = [visible EXCEPT ![n] = @ \cup S]
  /\ handed' = [handed EXCEPT ![n] = @ \o calling[n]]
  /\ calling' = [calling EXCEPT ![n] = <<>>]
  /\ errsDue' = [errsDue EXCEPT ![n] = k]
  /\ pub' = [pub EXCEPT ![n] =
       IF @ = "call" THEN IF k = 0 THEN "select" ELSE "report"
                     ELSE IF k = 0 THEN "exited" ELSE "finalReport"]
  /\ UNCHANGED <<errChan, stop, subVars, hidden, stale, shares, elsewhere, lost, sendLock,
                 sendCh, accum, accepted, warned, promised>>

(* Mutant: the error is not put on errChan. *)
CallFailsSilently(n) ==
  /\ ServiceFails \/ calling[n] = <<>>
  /\ \E S \in SUBSET Range(calling[n]) : CallReturns(n, S, 0)

(* SendMessage, or SendMessageBatch as a whole, returns an error; its entries
   were stored or not.  SQS rejects a batch without entries. *)
CallFails(n) ==
  /\ ServiceFails \/ calling[n] = <<>>
  /\ \E S \in SUBSET Range(calling[n]) : CallReturns(n, S, 1)

(* The call succeeds; for a batch, all but the entries in Failed are stored. *)
CallSucceeds(n) ==
  /\ calling[n] # <<>>
  /\ \E Failed \in SUBSET DOMAIN calling[n] :
       /\ Failed # {} => ServiceFails /\ BatchSize # 0
       /\ CallReturns(n, {calling[n][i] : i \in DOMAIN calling[n] \ Failed}, Cardinality(Failed))

(* range over the failed entries *)
MoreToReport(n) == errsDue[n] > 1

(* One error per failed call or failed entry; then back to the select, or out. *)
ReportSendError(n) ==
  /\ pub[n] \in {"report", "finalReport"}
  /\ PutError(n)
  /\ warned' = [warned EXCEPT ![n] = TRUE]
  /\ errsDue' = [errsDue EXCEPT ![n] = @ - 1]
  /\ pub' = [pub EXCEPT ![n] =
       IF MoreToReport(n) THEN @ ELSE IF @ = "report" THEN "select" ELSE "exited"]
  /\ UNCHANGED <<stop, subVars, serviceVars, sendLock, sendCh, accum, calling, accepted,
                 handed, stored, promised>>

Publisher(n) ==
  SeeStop(n) \/ TakeMessage(n) \/ BatchTimeout(n) \/ CallFails(n) \/ CallSucceeds(n)
    \/ ReportSendError(n)

----------------------------------------------------------------------------
(* Stop, called once. *)

CallStop ==
  /\ stop = "no"
  /\ stop' = "sub"
  /\ UNCHANGED <<errChan, subVars, serviceVars, sendVars>>

ClosePubChan ==
  /\ stop = "sub"
  /\ stop' = "pub"
  /\ promised' = [n \in Names |-> Len(accepted[n])]
  /\ UNCHANGED <<errChan, subVars, serviceVars, sendLock, pub, sendCh, accum, calling, errsDue,
                 accepted, handed, stored, warned>>

(* t.wg.Wait() returns *)
PublishersGone == \A n \in Names : pub[n] \in {"none", "exited"}

(* close(t.stopchan) *)
CloseDone ==
  /\ stop = "pub"
  /\ PublishersGone
  /\ stop' = "done"
  /\ UNCHANGED <<errChan, subVars, serviceVars, sendVars>>

Stop == CallStop \/ ClosePubChan \/ CloseDone

SendNext ==
  \/ SendReports
  \/ \E n \in Names :
       \/ SendOpens(n) \/ SendFails(n) \/ Publisher(n)
       \/ \E m \in Outgoing : ClientSend(n, m)

Next ==
  \/ ReceiveNext /\ UNCHANGED sendVars
  \/ SendNext
  \/ Stop

(* The goroutines run, the timer fires, calls return.  Clients need neither
   send nor call Stop. *)
Fairness ==
  /\ ReceiveFairness
  /\ WF_vars(ClosePubChan)
  /\ WF_vars(CloseDone)
  /\ SF_vars(SendReports)
  /\ \A n \in Names :
       /\ WF_vars(SeeStop(n))
       /\ WF_vars(TakeMessage(n))
       /\ WF_vars(BatchTimeout(n))
       /\ WF_vars(CallFails(n) \/ CallSucceeds(n))
       /\ SF_vars(ReportSendError(n))

Spec == Init /\ [][Next]_vars

FairSpec == Spec /\ Fairness

----------------------------------------------------------------------------
TypeOK ==
  /\ ReceiveTypeOK
  /\ sendLock \in Names \cup {Nil}
  /\ pub \in [Names -> PubStates]
  /\ sendCh \in [Names -> Seq(Messages)]
  /\ \A n \in Names : Len(sendCh[n]) <= ChanCap
  /\ accum \in [Names -> Seq(Messages)]
  /\ calling \in [Names -> Seq(Messages)]
  /\ errsDue \in [Names -> Nat]
  /\ \A n \in Names : errsDue[n] > 0 <=> pub[n] \in {"report", "finalReport"}
  /\ accepted \in [Names -> Seq(Messages)]
  /\ handed \in [Names -> Seq(Messages)]
  /\ stored \in [Names -> SUBSET Messages]
  /\ warned \in [Names -> BOOLEAN]
  /\ promised \in [Names -> Nat]

(* Between the Send channel and the service no message is dropped, repeated or
   overtaken, whatever the select picks, whenever the timer fires, whether the
   calls fail, and also while Stop drains the channel. *)
InFlight(n) == ((handed[n] \o calling[n]) \o accum[n]) \o sendCh[n]

InOrderOnce == \A n \in Names : InFlight(n) = accepted[n]

(* No call carries more entries than New's limit allows, and a publisher that
   waits in its select never sits on a full batch. *)
BatchWithinLimit ==
  \A n \in Names :
    /\ Len(calling[n]) <= MaxBatch
    /\ accum[n] # <<>> => pub[n] = "select" /\ Len(accum[n]) < BatchSize

(* "Done gets a channel which is closed when the transport has successfully
   stopped" (sqs.go:276): by then every message that was on a Send channel when
   Stop closed stopPubChan has been handed to the service, a partial batch too. *)
DoneMeansFlushed ==
  stop = "done" => \A n \in Names : Len(handed[n]) >= promised[n]

(* Why DoneMeansFlushed holds: messages rest only where the publisher is in
   step with them, and a publisher leaves its loop only after stopPubChan was
   closed, with all that was promised handed over or in its last call. *)
Flushes(n) ==
  /\ pub[n] = "none" => accepted[n] = <<>>
  /\ accum[n] # <<>> => pub[n] = "select"
  /\ calling[n] # <<>> => pub[n] \in {"call", "final"}
  /\ promised[n] <= Len(accepted[n])
  /\ pub[n] \in {"final", "finalReport", "exited"} =>
       /\ stop \in {"pub", "done"}
       /\ promised[n] <= Len(handed[n]) + Len(calling[n])
  /\ stop = "done" => promised[n] <= Len(handed[n])

FlushInv == \A n \in Names : Flushes(n)

(* Silence means success: while a publisher has raised no error and has none
   to raise, every message it handed over is in the queue. *)
SilenceMeansStored ==
  \A n \in Names : ~warned[n] /\ errsDue[n] = 0 => Range(handed[n]) \subseteq stored[n]

(* A message that left a queue went to the client's channel or to another
   process, unless a failing DeleteMessage call removed it; in particular a
   subscriber that meets an error, a full channel or Stop drops none. *)
NothingVanishes ==
  \A n \in Names :
    Backlog \cup stored[n] \subseteq InQueue(n) \cup Delivered(n) \cup elsewhere[n] \cup lost[n]

(* A message is delivered once, and once more at most for every time another
   process has received it: while nobody else receives from the queue, no failed
   deletion, lost answer or expired visibility timeout makes the subscriber
   deliver a message that the queue may still hand out. *)
RepeatsNeedOthers ==
  \A n \in Names, m \in Messages :
    Deliveries(n, m) + (IF m \in InQueue(n) THEN 1 ELSE 0) <= 1 + shares[n][m]

(* The sending half does what Outbox promises. *)
Phase ==
  CASE stop \in {"no", "sub"} -> "running"
    [] stop = "pub" -> "stopping"
    [] stop = "done" -> "stopped"

Promise == INSTANCE Outbox WITH phase <- Phase

ImplementsOutbox == Promise!Spec

(* Stop returns: the publishers empty their channels and exit, as long as the
   client reads ErrChan and sends finitely many messages. *)
StopReturns == stop # "no" ~> stop = "done"

(* A message on a Send channel does not wait for the batch to fill up: again and
   again, until Stop, all that clients have sent is handed over. *)
EventuallyHanded ==
  \A n \in Names : []<>(stop # "no" \/ Len(handed[n]) = Len(accepted[n]))

(* A message in a queue that is received from reaches a client, whatever fails
   on the way and however often its visibility timeout ends. *)
EventuallyReceived ==
  \A n \in Names, m \in Messages :
    (m \in visible[n] /\ sub[n] # "none")
      ~> (m \in Range(received[n]) \cup elsewhere[n] \cup lost[n] \/ stop # "no")

(* After Stop a subscriber comes to rest, having passed on what it holds. *)
SubscribersExit ==
  \A n \in Names : stop # "no" ~> (sub[n] \in {"none", "exited"} /\ recvCh[n] = <<>>)

----------------------------------------------------------------------------
(* A claim of the repository that the code does not keep. *)

(* "make sure the underlying queue technology is healthy" (README.md:36) by
   watching ErrChan; the conformance test takes any error for a failure
   (vicetest/test.go:70). *)
HealthyIsSilent == ~ServiceFails => errChan = <<>>
=============================================================================
