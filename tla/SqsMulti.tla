------------------------------ MODULE SqsMulti ------------------------------
(***************************************************************************)
(* MultiTransport (src/queues/sqs/multi_writer.go).  Per name: a publisher  *)
(* goroutine reads the Send channel and offers batches on the unbuffered    *)
(* channel queue; a dispatcher goroutine takes a batch from queue, then a   *)
(* free writer from workerQueue, and gives it the batch; each writer calls  *)
(* the service.  Stop waits for the publishers only.  The receiving half    *)
(* is SqsReceive, whose code MultiTransport repeats.                        *)
(***************************************************************************)
EXTENDS SqsReceive

CONSTANTS
  Writers,    \* the writers of one name
  Outgoing,   \* messages the clients send, each at most once per name
  BatchArg,   \* the batchSize argument of NewMulti
  MaxBatch    \* the limit NewMulti clamps it to (10)

ASSUME SqsMultiAssumption ==
  /\ IsFiniteSet(Writers)
  /\ Writers # {}
  /\ Nil \notin Writers
  /\ Outgoing \subseteq Messages
  /\ Outgoing \cap Backlog = {}
  /\ BatchArg \in Nat
  /\ MaxBatch \in Nat \ {0}

VARIABLES
  sendLock,    \* the name whose failing Send holds t.sm until its error is sent, or Nil
  pub,         \* the publisher of each name: where its goroutine is
  sendCh,      \* the channel Send(name) returned
  accum,       \* the publisher's accum
  offered,     \* the batch the publisher is offering on queue
  disp,        \* the dispatcher of each name: where its goroutine is
  work,        \* the batch the dispatcher holds
  worker,      \* the writer it has taken from workerQueue, or Nil
  workerQueue, \* the writers that have put themselves up for work
  writer,      \* the writers of each name: where their goroutines are
  calling,     \* the entries of each writer's current call of the service
  errsDue,     \* errors of its last call the writer has yet to put on errChan
  accepted,    \* history: all that clients have put on sendCh
  dispatched,  \* history: all that writers have been given, in that order
  handed,      \* history: all entries of the service calls that have returned
  dropped,     \* history: what the dispatcher dropped on its way out
  stored,      \* history: the messages the service has put in the queue
  promised     \* history: Len(accepted[n]) when stopPubChan was closed

pubVars == <<sendLock, pub, sendCh, accum, offered, accepted, promised>>
dispVars == <<disp, work, worker, dispatched, dropped>>
writerVars == <<workerQueue, writer, calling, errsDue, handed, stored>>
sendVars == <<pubVars, dispVars, writerVars>>
vars == <<receiveVars, sendVars>>

(* "offer", "finalOffer": blocked on queue, the latter in the deferred function;
   "sleep": in its time.Sleep. *)
PubStates == {"none", "select", "offer", "finalOffer", "sleep", "exited"}

(* "range": waiting for work; "check": about to look at done; "wait": waiting
   for a writer; "give": blocked on the writer's channel. *)
DispStates == {"none", "range", "check", "wait", "give", "exited"}

(* "register": about to put itself on workerQueue; "idle": in its select. *)
WriterStates == {"none", "register", "idle", "call", "report", "exited"}

(* NewMulti: if batchSize > 10 { batchSize = maxBatchSize } *)
BatchSize == IF BatchArg > MaxBatch THEN MaxBatch ELSE BatchArg

Init ==
  /\ ReceiveInit
  /\ sendLock = Nil
  /\ pub = [n \in Names |-> "none"]
  /\ sendCh = [n \in Names |-> <<>>]
  /\ accum = [n \in Names |-> <<>>]
  /\ offered = [n \in Names |-> <<>>]
  /\ disp = [n \in Names |-> "none"]
  /\ work = [n \in Names |-> <<>>]
  /\ worker = [n \in Names |-> Nil]
  /\ workerQueue = [n \in Names |-> <<>>]
  /\ writer = [n \in Names |-> [w \in Writers |-> "none"]]
  /\ calling = [n \in Names |-> [w \in Writers |-> <<>>]]
  /\ errsDue = [n \in Names |-> [w \in Writers |-> 0]]
  /\ accepted = [n \in Names |-> <<>>]
  /\ dispatched = [n \in Names |-> <<>>]
  /\ handed = [n \in Names |-> <<>>]
  /\ dropped = [n \in Names |-> <<>>]
  /\ stored = [n \in Names |-> {}]
  /\ promised = [n \in Names |-> 0]

----------------------------------------------------------------------------
(* Send(name), under t.sm: makePublishers and newWriterGroup start the
   goroutines of the name, or NewService fails and none is started. *)

SendOpens(n) ==
  /\ sendLock = Nil
  /\ pub[n] = "none"
  /\ pub' = [pub EXCEPT ![n] = "select"]
  /\ disp' = [disp EXCEPT ![n] = "range"]
  /\ writer' = [writer EXCEPT ![n] = [w \in Writers |-> "register"]]
  /\ UNCHANGED <<receiveVars, sendLock, sendCh, accum, offered, accepted, promised,
                 work, worker, dispatched, dropped, workerQueue, calling, errsDue, handed, stored>>

SendFails(n) ==
  /\ ServiceFails
  /\ sendLock = Nil
  /\ pub[n] = "none"
  /\ sendLock' = n
  /\ UNCHANGED <<receiveVars, pub, sendCh, accum, offered, accepted, promised, dispVars, writerVars>>

SendReports ==
  /\ sendLock # Nil
  /\ PutError(sendLock)
  /\ sendLock' = Nil
  /\ UNCHANGED <<stop, subVars, serviceVars, pub, sendCh, accum, offered, accepted, promised,
                 dispVars, writerVars>>

(* Which of its messages a client sends first makes no difference: bodies are
   only told apart. *)
NextMessage(n) == CHOOSE m \in Outgoing : m \notin Range(accepted[n])

ClientSend(n, m) ==
  /\ pub[n] # "none"
  /\ m \notin Range(accepted[n]) /\ m = NextMessage(n)
  /\ Len(sendCh[n]) < ChanCap
  /\ sendCh' = [sendCh EXCEPT ![n] = Append(@, m)]
  /\ accepted' = [accepted EXCEPT ![n] = Append(@, m)]
  /\ UNCHANGED <<receiveVars, sendLock, pub, accum, offered, promised, dispVars, writerVars>>

----------------------------------------------------------------------------
(* The publisher goroutine of name n.  accum moves to offered when the offer
   starts; nothing else reads it until the offer is taken. *)

(* Mutant: accum is not emptied. *)
OfferAndKeep(n, batch, to) ==
  /\ offered' = [offered EXCEPT ![n] = batch]
  /\ UNCHANGED accum
  /\ pub' = [pub EXCEPT ![n] = to]

Offer(n, batch, to) ==
  /\ offered' = [offered EXCEPT ![n] = batch]
  /\ accum' = [accum EXCEPT ![n] = <<>>]
  /\ pub' = [pub EXCEPT ![n] = to]

(* Mutant: no such test. *)
MayLeaveAtOnce(n) == TRUE

(* if len(ch) != 0 { continue } *)
MayLeave(n) == sendCh[n] = <<>>


(* case <-t.stopPubChan, with nothing in ch: the deferred function offers what
   has accumulated, if anything. *)
SeeStop(n) ==
  /\ pub[n] = "select"
  /\ stop \in {"pub", "done"}
  /\ MayLeave(n)
  /\ Offer(n, accum[n], IF accum[n] = <<>> THEN "exited" ELSE "finalOffer")
  /\ UNCHANGED <<receiveVars, sendLock, sendCh, accepted, promised, dispVars, writerVars>>

(* Mutant: after Stop the loop looks at stopPubChan only. *)
MessageReadyUntilStop(n) == pub[n] = "select" /\ sendCh[n] # <<>> /\ stop \notin {"pub", "done"}

(* The select may pick msg := <-ch, before and after Stop. *)
MessageReady(n) == pub[n] = "select" /\ sendCh[n] # <<>>


(* case msg := <-ch *)
TakeMessage(n) ==
  /\ MessageReady(n)
  /\ sendCh' = [sendCh EXCEPT ![n] = Tail(@)]
  /\ LET batch == Append(accum[n], Head(sendCh[n])) IN
     \/ /\ Len(batch) < BatchSize
        /\ accum' = [accum EXCEPT ![n] = batch]
        /\ UNCHANGED <<pub, offered>>
     \/ /\ Len(batch) >= BatchSize
        /\ Offer(n, batch, "offer")
  /\ UNCHANGED <<receiveVars, sendLock, accepted, promised, dispVars, writerVars>>

(* Mutant: the timer sends full batches only. *)
TimerSendsFull(n) == Len(accum[n]) >= BatchSize

(* if len(accum) > 0, when the timer fires. *)
TimerSends(n) == accum[n] # <<>>


(* case <-time.After(t.batchInterval), with something accumulated. *)
BatchTimeout(n) ==
  /\ pub[n] = "select"
  /\ TimerSends(n)
  /\ Offer(n, accum[n], "offer")
  /\ UNCHANGED <<receiveVars, sendLock, sendCh, accepted, promised, dispVars, writerVars>>

(* queue <- writerMsg{...}: the dispatcher takes the batch from the publisher. *)
TakeOffer(n) ==
  /\ pub[n] \in {"offer", "finalOffer"}
  /\ disp[n] = "range"
  /\ pub' = [pub EXCEPT ![n] = IF @ = "offer" THEN "select" ELSE "sleep"]
  /\ disp' = [disp EXCEPT ![n] = "check"]
  /\ work' = [work EXCEPT ![n] = offered[n]]
  /\ offered' = [offered EXCEPT ![n] = <<>>]
  /\ UNCHANGED <<receiveVars, sendLock, sendCh, accum, accepted, promised, worker, dispatched,
                 dropped, writerVars>>

(* time.Sleep(50 * time.Millisecond) ends; nothing says how far the dispatcher
   and the writers have come by then. *)
WakeUp(n) ==
  /\ pub[n] = "sleep"
  /\ pub' = [pub EXCEPT ![n] = "exited"]
  /\ UNCHANGED <<receiveVars, sendLock, sendCh, accum, offered, accepted, promised, dispVars,
                 writerVars>>

----------------------------------------------------------------------------
(* The dispatcher goroutine of name n. *)

(* select { case <-done: return; default: ... }, with a batch in hand. *)
CheckDone(n) ==
  /\ disp[n] = "check"
  /\ \/ /\ stop # "done"
        /\ disp' = [disp EXCEPT ![n] = "wait"]
        /\ UNCHANGED <<work, dropped>>
     \/ /\ stop = "done"
        /\ disp' = [disp EXCEPT ![n] = "exited"]
        /\ dropped' = [dropped EXCEPT ![n] = @ \o work[n]]
        /\ work' = [work EXCEPT ![n] = <<>>]
  /\ UNCHANGED <<receiveVars, pubVars, worker, dispatched, writerVars>>

(* worker := <-workerQueue *)
PickWriter(n) ==
  /\ disp[n] = "wait"
  /\ workerQueue[n] # <<>>
  /\ disp' = [disp EXCEPT ![n] = "give"]
  /\ worker' = [worker EXCEPT ![n] = Head(workerQueue[n])]
  /\ workerQueue' = [workerQueue EXCEPT ![n] = Tail(@)]
  /\ UNCHANGED <<receiveVars, pubVars, work, dispatched, dropped, writer, calling, errsDue,
                 handed, stored>>

(* Mutant: the same batch goes to another writer. *)
SameWorkAgain(n) ==
  /\ disp' = [disp EXCEPT ![n] = "check"]
  /\ UNCHANGED work

(* The dispatcher lets go of the batch and ranges over queue for the next. *)
NextWork(n) ==
  /\ disp' = [disp EXCEPT ![n] = "range"]
  /\ work' = [work EXCEPT ![n] = <<>>]


(* worker <- work, taken by the writer's select. *)
GiveWork(n, w) ==
  /\ disp[n] = "give"
  /\ worker[n] = w
  /\ writer[n][w] = "idle"
  /\ NextWork(n)
  /\ worker' = [worker EXCEPT ![n] = Nil]
  /\ dispatched' = [dispatched EXCEPT ![n] = @ \o work[n]]
  /\ writer' = [writer EXCEPT ![n][w] = "call"]
  /\ calling' = [calling EXCEPT ![n][w] = work[n]]
  /\ UNCHANGED <<receiveVars, pubVars, dropped, workerQueue, errsDue, handed, stored>>

Dispatcher(n) ==
  CheckDone(n) \/ PickWriter(n) \/ \E w \in Writers : GiveWork(n, w)

----------------------------------------------------------------------------
(* Writer w of name n. *)

(* s.workerQueue <- s.work, a channel with room for every writer. *)
Register(n, w) ==
  /\ writer[n][w] = "register"
  /\ Len(workerQueue[n]) < Cardinality(Writers)
  /\ workerQueue' = [workerQueue EXCEPT ![n] = Append(@, w)]
  /\ writer' = [writer EXCEPT ![n][w] = "idle"]
  /\ UNCHANGED <<receiveVars, pubVars, dispVars, calling, errsDue, handed, stored>>

(* case <-s.done, which the select may also pick when there is work to take. *)
WriterSeesDone(n, w) ==
  /\ writer[n][w] = "idle"
  /\ stop = "done"
  /\ writer' = [writer EXCEPT ![n][w] = "exited"]
  /\ UNCHANGED <<receiveVars, pubVars, dispVars, workerQueue, calling, errsDue, handed, stored>>

(* Mutant: the writer waits for work without registering. *)
AfterCallIdle(k) == IF k = 0 THEN "idle" ELSE "report"

(* Where a writer goes from a call with k errors. *)
AfterCall(k) == IF k = 0 THEN "register" ELSE "report"


(* The writer's call returns with k errors to report; the messages in S are now
   in the queue. *)
CallReturns(n, w, S, k) ==
  /\ writer[n][w] = "call"
  /\ stored' = [stored EXCEPT ![n] = @ \cup S]
  /\ visible' = [visible EXCEPT ![n] = @ \cup S]
  /\ handed' = [handed EXCEPT ![n] = @ \o calling[n][w]]
  /\ calling' = [calling EXCEPT ![n][w] = <<>>]
  /\ errsDue' = [errsDue EXCEPT ![n][w] = k]
  /\ writer' = [writer EXCEPT ![n][w] = AfterCall(k)]
  /\ UNCHANGED <<errChan, stop, subVars, hidden, stale, shares, elsewhere, lost, pubVars,
                 dispVars, workerQueue>>

(* SendMessage for a single entry, SendMessageBatch for more, returns an error;
   its entries were stored or not. *)
CallFails(n, w) ==
  /\ ServiceFails
  /\ \E S \in SUBSET Range(calling[n][w]) : CallReturns(n, w, S, 1)

(* The call succeeds; SendMessageBatch stores all but the entries in Failed. *)
CallSucceeds(n, w) ==
  \E Failed \in SUBSET DOMAIN calling[n][w] :
    /\ Failed # {} => ServiceFails /\ Len(calling[n][w]) > 1
    /\ CallReturns(n, w, {calling[n][w][i] : i \in DOMAIN calling[n][w] \ Failed},
                   Cardinality(Failed))

(* range over the failed entries *)
MoreToReport(n, w) == errsDue[n][w] > 1

(* One error per failed call or failed entry. *)
ReportSendError(n, w) ==
  /\ writer[n][w] = "report"
  /\ PutError(n)
  /\ errsDue' = [errsDue EXCEPT ![n][w] = @ - 1]
  /\ writer' = [writer EXCEPT ![n][w] = IF MoreToReport(n, w) THEN @ ELSE "register"]
  /\ UNCHANGED <<stop, subVars, serviceVars, pubVars, dispVars, workerQueue, calling, handed,
                 stored>>

Writer(n, w) ==
  \/ Register(n, w) \/ WriterSeesDone(n, w)
  \/ CallFails(n, w) \/ CallSucceeds(n, w) \/ ReportSendError(n, w)

Publisher(n) ==
  SeeStop(n) \/ TakeMessage(n) \/ BatchTimeout(n) \/ TakeOffer(n) \/ WakeUp(n)

----------------------------------------------------------------------------
(* Stop, called once. *)

CallStop ==
  /\ stop = "no"
  /\ stop' = "sub"
  /\ UNCHANGED <<errChan, subVars, serviceVars, sendVars>>

ClosePubChan ==
  /\ stop = "sub"
  /\ stop' = "pub"
  /\ promised' = [n \in Names |-> Len(accepted[n])]
  /\ UNCHANGED <<errChan, subVars, serviceVars, sendLock, pub, sendCh, accum, offered, accepted,
                 dispVars, writerVars>>

(* t.wg.Wait(); close(t.stopchan): wg counts publishers, not writers. *)
CloseDone ==
  /\ stop = "pub"
  /\ \A n \in Names : pub[n] \in {"none", "exited"}
  /\ stop' = "done"
  /\ UNCHANGED <<errChan, subVars, serviceVars, sendVars>>

Stop == CallStop \/ ClosePubChan \/ CloseDone

SendNext ==
  \/ SendReports
  \/ \E n \in Names :
       \/ SendOpens(n) \/ SendFails(n) \/ Publisher(n) \/ Dispatcher(n)
       \/ \E w \in Writers : Writer(n, w)
       \/ \E m \in Outgoing : ClientSend(n, m)

(* Receive, the subscriber goroutines and their environment. *)
Receiving == ReceiveNext /\ UNCHANGED sendVars

Next == Receiving \/ SendNext \/ Stop

Fairness ==
  /\ ReceiveFairness
  /\ WF_vars(ClosePubChan)
  /\ WF_vars(CloseDone)
  /\ SF_vars(SendReports)
  /\ \A n \in Names :
       /\ WF_vars(SeeStop(n)) /\ WF_vars(TakeMessage(n)) /\ WF_vars(BatchTimeout(n))
       /\ WF_vars(TakeOffer(n)) /\ WF_vars(WakeUp(n))
       /\ WF_vars(Dispatcher(n))
       /\ \A w \in Writers :
            /\ WF_vars(Register(n, w))
            /\ WF_vars(WriterSeesDone(n, w))
            /\ WF_vars(CallFails(n, w) \/ CallSucceeds(n, w))
            /\ SF_vars(ReportSendError(n, w))

Spec == Init /\ [][Next]_vars

FairSpec == Spec /\ Fairness

----------------------------------------------------------------------------
TypeOK ==
  /\ ReceiveTypeOK
  /\ sendLock \in Names \cup {Nil}
  /\ pub \in [Names -> PubStates]
  /\ disp \in [Names -> DispStates]
  /\ writer \in [Names -> [Writers -> WriterStates]]
  /\ {sendCh, accum, offered, work, accepted, dispatched, handed, dropped}
       \subseteq [Names -> Seq(Messages)]
  /\ \A n \in Names : Len(sendCh[n]) <= ChanCap
  /\ worker \in [Names -> Writers \cup {Nil}]
  /\ workerQueue \in [Names -> Seq(Writers)]
  /\ calling \in [Names -> [Writers -> Seq(Messages)]]
  /\ errsDue \in [Names -> [Writers -> Nat]]
  /\ \A n \in Names, w \in Writers : errsDue[n][w] > 0 <=> writer[n][w] = "report"
  /\ stored \in [Names -> SUBSET Messages]
  /\ promised \in [Names -> Nat]

(* From the Send channel through the publisher and the dispatcher to the
   writers no message is repeated, overtaken or, but for a batch the dispatcher
   drops on its way out, forgotten. *)
DispatchedInOrder ==
  \A n \in Names :
    dispatched[n] \o dropped[n] \o work[n] \o offered[n] \o accum[n] \o sendCh[n] = accepted[n]

InCalls(n) == UNION {Range(calling[n][w]) : w \in Writers}

(* Each message given to a writer is in one call of one writer: the writers
   share neither batches nor the arrays under them, and lose none between a
   call that fails and the next. *)
WrittenOnce ==
  \A n \in Names :
    /\ Range(handed[n]) \cup InCalls(n) = Range(dispatched[n])
    /\ Range(handed[n]) \cap InCalls(n) = {}
    /\ IsInjective(handed[n])
    /\ \A v, w \in Writers : v # w => Range(calling[n][v]) \cap Range(calling[n][w]) = {}

(* workerQueue never runs over, and until Done is closed the writers in it and
   the one the dispatcher holds are just the idle ones, each counted once: the
   dispatcher never blocks on a busy writer while another is free. *)
FreeWriters ==
  \A n \in Names :
    LET queued == Range(workerQueue[n]) \cup ({worker[n]} \ {Nil})
    IN  /\ IsInjective(workerQueue[n])
        /\ worker[n] \notin Range(workerQueue[n])
        /\ stop # "done" => queued = {w \in Writers : writer[n][w] = "idle"}
        /\ \A w \in queued : writer[n][w] \in {"idle", "exited"}

LargestBatch == IF BatchSize = 0 THEN 1 ELSE BatchSize

(* What Stop may leave behind: of the messages that were on a Send channel when
   stopPubChan was closed, at most the last batch has not reached a writer when
   Done is closed. *)
AtMostOneBatchLeft ==
  stop = "done" => \A n \in Names : promised[n] - Len(dispatched[n]) <= LargestBatch

(* No writer is given more entries than the service takes in a call, and never
   a batch without any. *)
BatchWithinLimit ==
  \A n \in Names, w \in Writers :
    /\ Len(calling[n][w]) <= MaxBatch
    /\ calling[n][w] = <<>> <=> writer[n][w] # "call"

(* Stop returns: publishers, dispatchers and writers never wait for each other
   in a circle, as long as the client reads ErrChan. *)
StopReturns == stop # "no" ~> stop = "done"

(* A message on a Send channel reaches the service without more messages to fill
   its batch: again and again, until Stop, all that clients have sent has been
   in a call. *)
EventuallyHanded ==
  \A n \in Names : []<>(stop # "no" \/ Range(handed[n]) = Range(accepted[n]))

----------------------------------------------------------------------------
(* A claim of the repository that the code does not keep. *)

(* Test_MultiTransport_SingleWriterBatchFlushesOnReturn (multi_writer_test.go:84)
   counts the call with the partial batch some time after Stop: once Done is
   closed, all that was on a Send channel when Stop was called has been or will
   be handed to the service. *)
FlushesOnReturn == stop = "done" ~> \A n \in Names : Len(handed[n]) >= promised[n]
=============================================================================
