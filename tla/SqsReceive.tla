----------------------------- MODULE SqsReceive -----------------------------
(***************************************************************************)
(* The receiving half of the SQS transports and the SQS service they share. *)
(*                                                                          *)
(* Receive(name) starts, once per name, a subscriber goroutine that polls   *)
(* the queue, deletes each message it gets and puts the body on a buffered  *)
(* Go channel.  Transport (src/queues/sqs/sqs.go) and MultiTransport        *)
(* (src/queues/sqs/multi_writer.go) hold the same code; the modules         *)
(* SqsTransport and SqsMulti add their sending halves and Stop.             *)
(*                                                                          *)
(* The service is external: a message is visible until some consumer        *)
(* receives it, hidden while its VisibilityTimeout of one second runs, and  *)
(* visible again when that ends before the message was deleted.  A consumer *)
(* deletes with the receipt handle of its receive; once another consumer    *)
(* has received the message too, that handle may no longer delete it.       *)
(***************************************************************************)
EXTENDS Integers, Sequences, FiniteSets, Functions

CONSTANTS
  Names,          \* queue URLs
  ReceiveFrom,    \* the queues clients of this transport receive from
  Messages,       \* message bodies; bodies in one queue are told apart
  Backlog,        \* messages every queue holds before the transport starts
  ChanCap,        \* capacity of a send or receive channel (1024)
  ErrCap,         \* capacity of errChan (10)
  ReceiptHandles, \* whether a message may come with a receipt handle, or without (the
                  \* tests' mock gives none)
  ServiceFails,   \* whether calls of the service may fail
  MaxShares,      \* of each message: how often other processes receive it from a queue, at most
  Nil             \* neither a name nor a message

ASSUME SqsReceiveAssumption ==
  /\ Nil \notin Names \cup Messages
  /\ ReceiveFrom \subseteq Names
  /\ Backlog \subseteq Messages
  /\ ChanCap \in Nat \ {0}
  /\ ErrCap \in Nat \ {0}
  /\ ReceiptHandles \subseteq BOOLEAN
  /\ ServiceFails \in BOOLEAN
  /\ MaxShares \in [Messages -> Nat]

VARIABLES
  errChan,   \* t.errChan: the queue name of each error waiting to be read
  stop,      \* "no"; "sub": stopSubChan closed; "pub": stopPubChan too; "done": stopchan too
  recvLock,  \* the name whose failing Receive holds t.rm until its error is sent, or Nil
  sub,       \* the subscriber of each name: where its goroutine is
  held,      \* the message a subscriber has received and not yet passed on, or Nil
  recvCh,    \* the channel Receive(name) returned
  received,  \* history: what the client has read from recvCh
  visible,   \* service: messages a ReceiveMessage call may return
  hidden,    \* service: received by some consumer, visibility timeout running
  stale,     \* service: whether another process has received the message the subscriber is
             \* about to delete since the subscriber did
  shares,    \* history: how often other processes have received each message
  elsewhere, \* service: received and deleted by other processes
  lost       \* history: deleted by a DeleteMessage call that reported an error

serviceVars == <<visible, hidden, stale, shares, elsewhere, lost>>
subVars == <<recvLock, sub, held, recvCh, received>>
receiveVars == <<errChan, stop, subVars, serviceVars>>

SubStates == {"none", "poll", "call", "delete", "deliver", "report", "exited"}

ReceiveInit ==
  /\ errChan = <<>>
  /\ stop = "no"
  /\ recvLock = Nil
  /\ sub = [n \in Names |-> "none"]
  /\ held = [n \in Names |-> Nil]
  /\ recvCh = [n \in Names |-> <<>>]
  /\ received = [n \in Names |-> <<>>]
  /\ visible = [n \in Names |-> Backlog]
  /\ hidden = [n \in Names |-> {}]
  /\ stale = [n \in Names |-> FALSE]
  /\ shares = [n \in Names |-> [m \in Messages |-> 0]]
  /\ elsewhere = [n \in Names |-> {}]
  /\ lost = [n \in Names |-> {}]

(* t.errChan <- &vice.Err{Name: n, ...}: blocks while the channel is full. *)
PutError(n) ==
  /\ Len(errChan) < ErrCap
  /\ errChan' = Append(errChan, n)

SubGoes(n, from, to) ==
  /\ sub[n] = from
  /\ sub' = [sub EXCEPT ![n] = to]

----------------------------------------------------------------------------
(* Receive(name), under t.rm.  A name that has its channel is only looked up. *)

ReceiveOpens(n) ==
  /\ n \in ReceiveFrom
  /\ recvLock = Nil
  /\ SubGoes(n, "none", "poll")
  /\ UNCHANGED <<errChan, stop, recvLock, held, recvCh, received, serviceVars>>

(* NewService fails: the caller sends the error with t.rm locked, and then
   gets a channel nobody writes to, which is not remembered for the name. *)
ReceiveFails(n) ==
  /\ ServiceFails
  /\ n \in ReceiveFrom
  /\ recvLock = Nil
  /\ sub[n] = "none"
  /\ recvLock' = n
  /\ UNCHANGED <<errChan, stop, sub, held, recvCh, received, serviceVars>>

ReceiveReports ==
  /\ recvLock # Nil
  /\ PutError(recvLock)
  /\ recvLock' = Nil
  /\ UNCHANGED <<stop, sub, held, recvCh, received, serviceVars>>

----------------------------------------------------------------------------
(* The subscriber goroutine of name n. *)

(* Mutant: a loop that never looks at stopSubChan. *)
PollOnly(n) ==
  /\ SubGoes(n, "poll", "call")
  /\ UNCHANGED <<errChan, stop, recvLock, held, recvCh, received, serviceVars>>

(* select { case <-t.stopSubChan: return; default: ... } *)
Poll(n) ==
  /\ SubGoes(n, "poll", IF stop = "no" THEN "call" ELSE "exited")
  /\ UNCHANGED <<errChan, stop, recvLock, held, recvCh, received, serviceVars>>

(* ReceiveMessage returns one message (MaxNumberOfMessages is 1).  With a
   receipt handle it stays in the queue, hidden; without, it is gone. *)
ReceiveMessage(n, m, handle) ==
  /\ m \in visible[n]
  /\ SubGoes(n, "call", IF handle THEN "delete" ELSE "deliver")
  /\ held' = [held EXCEPT ![n] = m]
  /\ visible' = [visible EXCEPT ![n] = @ \ {m}]
  /\ hidden' = IF handle THEN [hidden EXCEPT ![n] = @ \cup {m}] ELSE hidden
  /\ UNCHANGED <<errChan, stop, recvLock, recvCh, received, stale, shares, elsewhere, lost>>

(* The poll of WaitTimeSeconds found nothing. *)
ReceiveNothing(n) ==
  /\ SubGoes(n, "call", "poll")
  /\ UNCHANGED <<errChan, stop, recvLock, held, recvCh, received, serviceVars>>

(* Mutant: `return` for the `continue` after the error. *)
ReceiveErrorExits(n) ==
  /\ ServiceFails
  /\ SubGoes(n, "call", "exited")
  /\ UNCHANGED <<errChan, stop, recvLock, held, recvCh, received, serviceVars>>

ReceiveError(n) ==
  /\ ServiceFails
  /\ SubGoes(n, "call", "report")
  /\ UNCHANGED <<errChan, stop, recvLock, held, recvCh, received, serviceVars>>

(* The service drops held[n] from the queue, if it is still there. *)
Delete(n) ==
  /\ visible' = [visible EXCEPT ![n] = @ \ {held[n]}]
  /\ hidden' = [hidden EXCEPT ![n] = @ \ {held[n]}]

(* DeleteMessage returns no error.  With a handle that another consumer's
   receive has superseded, that need not mean that the message is gone; the
   code delivers it all the same. *)
DeleteMessage(n) ==
  /\ SubGoes(n, "delete", "deliver")
  /\ \/ Delete(n)
     \/ stale[n] /\ UNCHANGED <<visible, hidden>>
  /\ stale' = [stale EXCEPT ![n] = FALSE]
  /\ UNCHANGED <<errChan, stop, recvLock, held, recvCh, received, shares, elsewhere, lost>>

(* Mutant: no `continue`: the message is delivered although it was not deleted. *)
DeleteErrorDelivers(n) ==
  /\ ServiceFails
  /\ SubGoes(n, "delete", "deliver")
  /\ UNCHANGED <<errChan, stop, recvLock, held, recvCh, received, serviceVars>>

(* DeleteMessage returns an error and the message is not delivered.  The call
   did nothing, or it deleted the message and only its answer was lost. *)
DeleteError(n) ==
  /\ ServiceFails
  /\ SubGoes(n, "delete", "report")
  /\ held' = [held EXCEPT ![n] = Nil]
  /\ \/ UNCHANGED <<visible, hidden, lost>>
     \/ /\ held[n] \in visible[n] \cup hidden[n]
        /\ Delete(n)
        /\ lost' = [lost EXCEPT ![n] = @ \cup {held[n]}]
  /\ stale' = [stale EXCEPT ![n] = FALSE]
  /\ UNCHANGED <<errChan, stop, recvLock, recvCh, received, shares, elsewhere>>

(* Mutant: a message that finds the channel full is dropped. *)
DeliverOrDrop(n) ==
  /\ SubGoes(n, "deliver", "poll")
  /\ recvCh' = [recvCh EXCEPT ![n] = IF Len(@) < ChanCap THEN Append(@, held[n]) ELSE @]
  /\ held' = [held EXCEPT ![n] = Nil]
  /\ UNCHANGED <<errChan, stop, recvLock, received, serviceVars>>

(* The body goes to ch: blocks while the channel is full. *)
Deliver(n) ==
  /\ Len(recvCh[n]) < ChanCap
  /\ SubGoes(n, "deliver", "poll")
  /\ recvCh' = [recvCh EXCEPT ![n] = Append(@, held[n])]
  /\ held' = [held EXCEPT ![n] = Nil]
  /\ UNCHANGED <<errChan, stop, recvLock, received, serviceVars>>

ReportReceiveError(n) ==
  /\ SubGoes(n, "report", "poll")
  /\ PutError(n)
  /\ UNCHANGED <<stop, recvLock, held, recvCh, received, serviceVars>>

----------------------------------------------------------------------------
(* The client and the service. *)

ClientReceive(n) ==
  /\ recvCh[n] # <<>>
  /\ received' = [received EXCEPT ![n] = Append(@, Head(recvCh[n]))]
  /\ recvCh' = [recvCh EXCEPT ![n] = Tail(@)]
  /\ UNCHANGED <<errChan, stop, recvLock, sub, held, serviceVars>>

(* The client reads ErrChan(). *)
DrainErr ==
  /\ errChan # <<>>
  /\ errChan' = Tail(errChan)
  /\ UNCHANGED <<stop, subVars, serviceVars>>

VisibilityTimeout(n, m) ==
  /\ m \in hidden[n]
  /\ hidden' = [hidden EXCEPT ![n] = @ \ {m}]
  /\ visible' = [visible EXCEPT ![n] = @ \cup {m}]
  /\ UNCHANGED <<errChan, stop, subVars, stale, shares, elsewhere, lost>>

(* Another process receives a message, perhaps one whose visibility timeout has
   ended while the subscriber still holds it.  It may let the timeout end too. *)
OtherReceives(n, m) ==
  /\ m \in visible[n]
  /\ shares[n][m] < MaxShares[m]
  /\ visible' = [visible EXCEPT ![n] = @ \ {m}]
  /\ hidden' = [hidden EXCEPT ![n] = @ \cup {m}]
  /\ stale' = [stale EXCEPT ![n] = @ \/ (sub[n] = "delete" /\ m = held[n])]
  /\ shares' = [shares EXCEPT ![n][m] = @ + 1]
  /\ UNCHANGED <<errChan, stop, subVars, elsewhere, lost>>

(* Another process deletes a message it has received. *)
OtherDeletes(n, m) ==
  /\ shares[n][m] > 0
  /\ m \in visible[n] \cup hidden[n]
  /\ visible' = [visible EXCEPT ![n] = @ \ {m}]
  /\ hidden' = [hidden EXCEPT ![n] = @ \ {m}]
  /\ elsewhere' = [elsewhere EXCEPT ![n] = @ \cup {m}]
  /\ UNCHANGED <<errChan, stop, subVars, stale, shares, lost>>

Receive(n) == ReceiveOpens(n) \/ ReceiveFails(n)

Subscriber(n) ==
  \/ Poll(n) \/ ReceiveNothing(n) \/ ReceiveError(n)
  \/ \E m \in Messages, handle \in ReceiptHandles : ReceiveMessage(n, m, handle)
  \/ DeleteMessage(n) \/ DeleteError(n) \/ Deliver(n) \/ ReportReceiveError(n)

Service(n) ==
  \E m \in Messages : VisibilityTimeout(n, m) \/ OtherReceives(n, m) \/ OtherDeletes(n, m)

ReceiveNext ==
  \/ ReceiveReports \/ DrainErr
  \/ \E n \in Names : Receive(n) \/ Subscriber(n) \/ ClientReceive(n) \/ Service(n)

(* The goroutines run and the client reads both channels (transport.go:7,
   "Clients should always check for errors coming through ErrChan").  A sender
   blocked on a Go channel waits in a FIFO, hence SF for the contended errChan;
   SF for the two calls says that the service does not fail them for ever.
   A visibility timeout ends; other processes receive a message MaxShares[m]
   times at most and need not delete it. *)
ReceiveFairness ==
  /\ WF_receiveVars(DrainErr)
  /\ SF_receiveVars(ReceiveReports)
  /\ \A n \in Names :
       /\ WF_receiveVars(Poll(n))
       /\ WF_receiveVars(ReceiveNothing(n))
       /\ SF_receiveVars(\E m \in Messages, handle \in ReceiptHandles : ReceiveMessage(n, m, handle))
       /\ SF_receiveVars(DeleteMessage(n))
       /\ WF_receiveVars(Deliver(n))
       /\ SF_receiveVars(ReportReceiveError(n))
       /\ WF_receiveVars(ClientReceive(n))
       /\ \A m \in Messages : WF_receiveVars(VisibilityTimeout(n, m))

----------------------------------------------------------------------------
ReceiveTypeOK ==
  /\ errChan \in Seq(Names)
  /\ Len(errChan) <= ErrCap
  /\ stop \in {"no", "sub", "pub", "done"}
  /\ recvLock \in Names \cup {Nil}
  /\ sub \in [Names -> SubStates]
  /\ held \in [Names -> Messages \cup {Nil}]
  /\ \A n \in Names : held[n] # Nil <=> sub[n] \in {"delete", "deliver"}
  /\ recvCh \in [Names -> Seq(Messages)]
  /\ \A n \in Names : Len(recvCh[n]) <= ChanCap
  /\ received \in [Names -> Seq(Messages)]
  /\ visible \in [Names -> SUBSET Messages]
  /\ hidden \in [Names -> SUBSET Messages]
  /\ stale \in [Names -> BOOLEAN]
  /\ shares \in [Names -> [Messages -> Nat]]
  /\ elsewhere \in [Names -> SUBSET Messages]
  /\ lost \in [Names -> SUBSET Messages]

(* What has been put on the channel of n, read or not. *)
Passed(n) == received[n] \o recvCh[n]

(* The messages that have left queue n on their way to the client. *)
Delivered(n) ==
  Range(received[n]) \cup Range(recvCh[n])
    \cup IF sub[n] = "deliver" THEN {held[n]} ELSE {}

Occurrences(s, m) == Cardinality({i \in DOMAIN s : s[i] = m})

(* How often m has been delivered, the delivery under way included. *)
Deliveries(n, m) ==
  Occurrences(Passed(n), m) + IF sub[n] = "deliver" /\ held[n] = m THEN 1 ELSE 0

InQueue(n) == visible[n] \cup hidden[n]
=============================================================================
