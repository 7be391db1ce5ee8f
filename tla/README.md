# Formal models of vice

[vice](https://github.com/matryer/vice) lets a Go program use plain channels as
the two ends of a message queue. This directory holds TLA+ models of its code,
TLC configurations that check them on small instances, and proofs about them
that TLAPS checks. All transports are modelled, as are `backoff.Do`, the greeter
example and the generated fake of the SQS service.

Paths are relative to the repository's root.

## The system

| Component | State it keeps | Operations | Talks to |
|---|---|---|---|
| `vice.Transport` (`transport.go`) | none, an interface | `Receive`, `Send`, `ErrChan`, `Stop`, `Done` | clients |
| `vice.Err` (`transport.go`) | a message, a name, a cause | `Error` | read from `ErrChan` |
| `backoff.Do` (`backoff/backoff.go`) | `backoff`, `calls` | one loop around `f` | called by the NSQ transport |
| SQS `Transport` (`queues/sqs/sqs.go`) | a channel per name, `errChan`, three stop channels, a wait group; a publisher and a subscriber goroutine per name; `accum` per publisher | the interface | SQS through `SQSAPI` |
| SQS `MultiTransport` (`queues/sqs/multi_writer.go`) | the same, and per name a dispatcher goroutine, `workerQueue` and `n` writer goroutines | the interface | SQS |
| NATS (`queues/nats/nats.go`) | channels, subscriptions, two connections, one mutex for all of it | the interface | NATS or NATS streaming, by callbacks |
| NSQ (`queues/nsq/nsq.go`) | unbuffered channels, consumers, producers | the interface | nsqd, `backoff.Do` |
| RabbitMQ (`queues/rabbitmq/rabbitmq.go`) | channels, a connection, an AMQP channel per name | the interface | RabbitMQ |
| Redis (`queues/redis/redis.go`) | channels, a client | the interface | Redis lists |
| options (`queues/*/options.go`) | what they set in the fields of a transport | `With...` | `New` |
| greeter (`example/greeter`) | the service's select loop; the client's three goroutines | names in, greetings out | the NSQ transport |
| `FakeSQSAPI` (`queues/sqs/sqsfakes`) | per method of the service a mutex, a stub, results and the arguments of calls; `invocations` and its mutex | 63 alike families of functions, `Invocations` | the tests of the SQS transports |
| `vicetest`, `RegionFromURL`, imports for code generation | | | |

Every transport has the same skeleton. A client calls `Send(name)` or
`Receive(name)` under a mutex; the first call for a name creates a channel and
starts goroutines; a call that fails puts an error on `errChan`, still holding
the mutex, and returns a channel nobody else uses. Goroutines move messages
between the channels and the queueing technology and put errors on `errChan`,
which has room for ten. `Stop` closes the channels the goroutines select on,
waits for those that are counted in a wait group (publishers only), and closes
the channel `Done` returned.

What is hard about it:

* *interleaving*: the select of a publisher picks among a closed stop channel, a
  waiting message and a timer; clients keep sending while `Stop` runs;
  subscribers are in no wait group; `Stop` reads and clears fields that
  publishers and `Receive` use without the mutex;
* *bounded channels*: a full `errChan` stops publishers, subscribers, and
  `Send`, `Receive` and `Stop` with their mutex; a full receive channel stops a
  subscriber that holds a message it has already removed from the queue;
* *partial failure*: a batch is accepted in part, a call took effect but its
  answer was lost, a connection is lost before an acknowledgement;
* *hand-over*: in `MultiTransport` a batch passes through a publisher, a
  dispatcher and a writer, each of which may be told to stop in between;
* *composition*: programs that read one channel while they wait for another;
* *arithmetic*: a `time.Duration` that is doubled without a bound.

What makes each component correct:

* `backoff.Do`: it makes exactly as many calls as its limit says, its sleeps stay
  within a bound, and it returns.
* a transport's sending side: each message is handed to the queue once and in
  order; `Done` means that what had been sent is handed over; a message that is
  not stored raises an error; `Stop` returns.
* its receiving side: no message disappears between the queue and the client,
  none is delivered twice but for a reason that can be named, each one is
  delivered in the end, and the subscriber ends after `Stop`.
* `MultiTransport` in addition: writers are given work whenever one is free, and
  share no batch.
* the greeter: every name is greeted once, and the context stops the programs.
* the fake: its two books agree, and everybody returns.

`PROJECT.json` lists the hazards of the code line by line, with the properties
that cover them.

## Modules

| Module | Models |
|---|---|
| `Backoff` | `backoff.Do`, every path, with `Duration`s that wrap around |
| `Outbox` | abstract: what `Send`, `Stop` and `Done` promise a client |
| `SqsReceive` | the receiving half that both SQS transports contain word for word, `errChan`, and the SQS service |
| `SqsTransport` | `Transport`: `SqsReceive` plus publishers and `Stop` |
| `SqsMulti` | `MultiTransport`: `SqsReceive` plus publishers, dispatchers, writers and `Stop` |
| `NatsTransport` | NATS, plain and streaming, with the client's loop |
| `NsqTransport` | one consumer and one producer of NSQ, and `Stop`; actions without a client |
| `Greeter` | `NsqTransport` composed with the greeter's service, its client, or any client |
| `RabbitTransport` | the publisher and subscriber of one name of RabbitMQ, and the broker |
| `RedisTransport` | the publisher and subscriber of one name of Redis, and the list |
| `FakeSqs` | the fake, for any list of methods |
| `MC...` | constants for TLC |
| `ChannelLemmas` | lemmas about sequences used as channels |
| `...Proofs` | theorems |

Definitions marked `Mutant:` stand before the definition they are a faulty
version of. No specification uses them; they show, for each property, a plausible
bug that the property catches.

Common conventions: each blocking operation (channel send, service call, lock
that is held while something blocks) is a step of its own, and what lies between
two of them is part of the step before. A method that takes a mutex, does not
block and releases it is one step; one that fails is two, with the mutex held in
between (`recvLock`, `sendLock`, `lock`). `accepted`, `handed`, `tried`, `stored`,
`warned`, `received` and `promised` are history variables. Clients send each message at
most once, at any time, also after `Stop`; messages are told apart so that order
and repetition can be stated. `Stop` is called once: a second call panics on
closing a closed channel.

### `Backoff`

`initialBackoff`, `maxBackoff` and `maxCalls` are arguments and fixed in `DoInit`;
`backoff` and `calls` are the local variables; `pc` says whether the goroutine is
about to call `f`, asleep, or gone. `CallFails` is everything from the return of `f`
to the sleep: count, give up or not, cap or double. `IntMax` stands for the
largest `Duration`; `wrapped` remembers whether a doubling has overflowed. `calls`
stops at `CallBound`, no smaller than any limit.

### `SqsReceive`

`sub[n]` is the place of the subscriber goroutine of queue `n`:

| value | code (`sqs.go`) |
|---|---|
| `none` | `Receive(n)` has not been called, or failed |
| `poll` | the select on `stopSubChan`, 121-123 |
| `call` | in `ReceiveMessage`, 125 |
| `delete` | in `DeleteMessage`, 138 |
| `deliver` | about to send on `ch`, 144 |
| `report` | about to send on `errChan`, 127 or 140 |

The service is modelled as the code uses it: a message is `visible`, or `hidden`
while its visibility timeout runs, or gone. Timeouts end at any time. Other processes
receive a message, at most `MaxShares[m]` times each, and delete it later, or let
their timeout end and leave it to the next receive: two steps of the environment, in
which the subscriber's receipt handle may be superseded. `stale` says that it is:
then a `DeleteMessage` that reports success may have left the message in the queue,
and the code delivers it all the same. A failing `DeleteMessage` may have taken effect
(`lost`). Without a receipt handle, as the fake of the tests answers, the code
deletes nothing. That SQS may hand out a message after its deletion, or to two
consumers at once, as it reserves the right to, is not modelled.

### `SqsTransport`, `SqsMulti`

`pub[n]` is the place of the publisher of queue `n`. `TakeMessage`, `SeeStop` and
`BatchTimeout` are the cases of its select; `SeeStop` needs an empty channel,
because otherwise the code goes round the loop and changes nothing. `calling` holds
the entries of the current call (in the code they stay in `accum` until the call
returns; nothing reads it in between). What a publisher puts on the channel reaches
the queue the subscriber of the same name reads.

In `SqsMulti` the publisher offers a batch on the unbuffered channel `queue`
(`offered`); the dispatcher takes it (`TakeOffer`, a rendezvous), looks at `done`
(`CheckDone`), waits for a free writer (`PickWriter`) and gives it the batch
(`GiveWork`, a rendezvous with the writer's select). A writer registers itself,
waits, calls, reports, and starts again. The deferred function's `time.Sleep` may end
at any time.

### `NatsTransport`

One mutex serves `Receive`, `Send` and `Stop`: `lock` says which of them holds it
while it blocks. `mode` fixes what `New`'s options chose (plain or streaming) and
whether the client reads both channels in one loop (as `vicetest/test.go` does) or
`ErrChan` in a goroutine of its own; each turn of the loop calls `Receive` again.
`link` is `t.natsConn` and the state of that connection, `stan` is
`t.natsStreamingConn`. `pending` is what the client library keeps while the
subscription's callback (`handling`) waits for room on the channel. Streaming delivers
a message again when its callback is slow. The connection is lost, comes back or is
closed by the library at any time, `MaxDrops` times. `Publish` may fail on a live
connection too.

### `NsqTransport` and `Greeter`

The channels are unbuffered, so `TakeReceived` and `HandOver` are rendezvous, to be
joined with a client. `cons` follows a consumer through `NewConsumer`, the retried
connection, `t.consumers` and `Stop`; `prod` the producer through its select,
`backoff.Do` around `Publish` (`tries`, at most `Attempts`, see `Backoff`) and its error.
The handler acknowledges first (`Handle`) and delivers then. A consumer that is told to
stop closes `StopChan` when its handler returns or, if it had a connection to close,
after thirty seconds; one without (`stranded`) waits for the handler. `Greeter` joins the
transport with a `program`: `service` is the select of `Greeter` in
`service/main.go`, `client` is `client/main.go` (which reuses its scanner's buffer and
never reads `ErrChan`), `any` is a client that calls everything in any order and reads
both channels. `Init` chooses among them.

### `RabbitTransport`

The broker sends one message at a time (`BrokerSends`) and waits for its
acknowledgement (`unacked`); the library keeps it (`msgs`) until the subscriber's select
takes it (`Delivery`). `conn` goes from `open` to `dying` (lost, and the broker has taken
back what was not acknowledged, though the subscriber may still take what waits in
`msgs`), to `dead` (the library has noticed and closed `msgs`, and what waited there is
dropped). `NoDelivery` is the receive from that closed channel, always ready. A channel,
a queue or a consumer may be refused on a live connection (`OpenFails`).

### `RedisTransport`

The server holds a list with its right end last: `RPush` appends there and `BRPop`
pops there. A server that answers may reply with an error, which changes nothing. A
call whose answer does not come may have taken effect: then a push has stored its
message, and a popped message is in `lost`. `client` is `t.client`. A server that
answers `PING` with an error counts as one that does not answer.

### `FakeSqs`

The generated code is one family of functions repeated for 63 methods; `Family(t, m)`
is one, with the method as its parameter, and the four methods the transports call
have an action each. `Order` is the list of methods in the order in which
`Invocations` locks their mutexes. A call locks its method's mutex and enters its
arguments (`CallLocks`), then enters them in the second book under `invocationsMutex`
and unlocks (`Record`), then returns.

The specifications of `Backoff` and `FakeSqs` are `DoSpec` and `FakeSpec`, so that one
module can prove theorems about them and the greeter.

### `Outbox` and the refinement

`Outbox` has four variables: what was accepted, what was handed over, the phase, and
what had been accepted when `Stop` was called. It allows handing over any further
messages *in order*, and closing `Done` only when the promise is kept.
`SqsTransport!ImplementsOutbox` instantiates it with `phase <- Phase`, the other
three variables by name. `MultiTransport` does not implement it: writers overtake
each other and `Done` closes before the flush (see *Findings*). NATS and Redis keep
the promise only while the server answers: their `ImplementsOutbox` instantiates `Outbox`
with `handed <- tried`, a `Phase` of their own and, for Redis, a single name, and asks
that every step from a state with `drops = 0` be a step of `Outbox` or change none of its
variables. NSQ and RabbitMQ have unbuffered `Send` channels and promise nothing about
them.

## Runs

| Run | Question | Instance | Distinct states |
|---|---|---|---|
| `backoff` | Does `Do` keep its limits, for any arguments? | 9-bit durations, 8 x 8 x 5 arguments | 6 thousand |
| `sqs` | Is anything lost, repeated, overtaken or silently refused, on the way to the queue or from it? Is the sending half an `Outbox`? Do `Stop` and the subscribers end, and does nothing wait for ever? | one queue, two messages sent and received, with and without receipt handles, another process that receives one of them once, failing calls, channels and `errChan` of one, batches of two (asked for: three) | 69 thousand |
| `multi` | Does each message reach one call of one writer, and can publisher, dispatcher and writers block each other? What can `Stop` leave behind? | two writers, three messages, channels of one, batches of two | 66 thousand |
| `nats` | Order in both directions; is the sending half an `Outbox`? When does `Stop` hang? | both modes, one or two client loops, two messages, channels of one, one lost connection | 91 thousand |
| `greeter` | What happens to a message between nsqd and the programs, and what stops them? | three programs, two names, one lost acknowledgement, two sent messages, two attempts | 124 thousand |
| `rabbit` | What a lost connection repeats, loses and delivers instead; do `Stop` and the subscriber end? | three messages, channel of two, the connection lost at any time | 192 thousand |
| `redis` | Where a popped message is; is the sending half an `Outbox`? Does the subscriber end? | three messages, channels of one, a server that goes away once | 269 thousand |
| `fake` | Do the books agree, and does everybody return? | five methods, two goroutines, two calls, one setting | 74 thousand |

All of these pass. Deadlock checking is off in every configuration because these
systems stop: `Do` returns; clients run out of messages, and after `Stop` the
goroutines exit or, where the code does, block for ever. No run uses symmetry, since
most of them check liveness.

Why these bounds are enough to meet the interesting cases: with batches of two,
two messages give a full batch, or two partial ones when the timer or `Stop` comes
first, and three (`multi`) a full one and a partial one; an `errChan` of one is full
after one error, so that two failed entries of a batch, or a publisher and a failing
`Send`, compete for the room; channels of one or two fill up; one loss of a
connection can fall before, between and after any two steps of the others, and what
a second one adds is a repetition of the first. One receive by another process, at any
moment, is enough to supersede the subscriber's handle, and the message that nobody
shares shows that without one nothing is repeated. Nine-bit durations overflow within
nine doublings. One setting of the fake is enough to change the result between two
calls; the settings do not touch the books. Two names and `batchSize` 0 are not in an
instance of the SQS transports, as the theorems below cover every set of names and
every batch size; what several names share (`errChan`, the mutexes and `Stop`) is
contended within one name as well, by its publisher, subscriber, writers and failing
calls. A single name is also what `RabbitTransport` and `RedisTransport` model.

The liveness properties that have an exception name it. `StopReturns` of NATS and
`EverybodyReturns` of the fake hold but for `Circle`; `ShutsDown` of the greeter holds
but for `Stuck`, `Stranded` and a consumer that connects for ever. These are defects of the
code (below), stated as states and not as runs of their own; that the exceptions are
the only ones is what the properties show.

### Findings

Four runs are expected to end in a violation. Each checks one sentence of the
repository that the code does not keep.

* `sqs_silent` (`HealthyIsSilent`). When `Stop` finds nothing accumulated and
  `batchSize` is not 0, the deferred function (`sqs.go:190`, `&&`) makes a call without
  entries, which SQS rejects, and a healthy transport raises an error.
  `MultiTransport` looks at the length of `accum` alone.
* `multi_flush` (`FlushesOnReturn`). `Stop` waits for the publishers, which sleep 50 ms
  after offering their last batch. A writer that is still in an earlier call, or a
  dispatcher that is slow, sees `done` and exits, and the batch is never sent.
  `AtMostOneBatchLeft` bounds the damage: one batch per name.
* `backoff_cap` (`NeverAboveMax`). `backoff.go:10` calls `maxBackoff` "the maximum time
  between calls"; the cap is compared before the doubling, so a sleep may be up to twice
  as long. `SleepBounded` states what holds for all arguments: the minimal time and
  twice the cap are kept unless a doubling overflows, and none does below a cap of at
  most half the largest `Duration`.
* `redis_order` (`ReceivedInOrder`). `RPush` and `BRPop` work on the same end of the
  list, so that waiting messages are received last in, first out.

Met while modelling, and without a run of their own:

* `backoff.Do`: without a cap, or with one above half the largest `Duration`, the doubling
  overflows in the end, and the sleeps become negative or zero: a busy loop (the
  exception in `SleepBounded`). The repository's own calls have a cap of ten minutes.
* NATS: a client that calls `Receive` in the goroutine that reads `ErrChan` can wait
  for itself (`Circle`). `Send` or `Receive` after `Stop` opens a connection nobody
  closes; a publisher that finds the connection down at `Stop` drops what is left in
  its channel without an error (hence `drops = 0` in `DoneMeansTried`). Redis does the
  same when `Ping` fails.
* Greeter: the service does not read `ErrChan` while it waits for the producer, and the
  client never does: ten failed publications block the producer, and with it `Stop`
  (`Stuck`). The client's scanner may overwrite a name that is being published
  (`client/main.go:42`; the exception in `PublishedInOrder`). A consumer connected
  while `Stop` runs is never stopped (the exception in `ConsumersStopped`). Nobody reads
  names once `Greeter` has returned: a handler that has one to deliver never returns, and
  `Stop` waits for it if nsqd is away by then (`Stranded`).
* RabbitMQ: after a lost connection the subscriber delivers empty messages without
  end, and what is published before the loss is noticed is gone without an error.
  `Stop` panics on a transport without a connection; so does that of Redis.
* SQS: subscribers outlive `Done` by one call and may take a message nobody will read.
  When the visibility timeout of one second ends before `DeleteMessage`, another process
  may receive the message too; the deletion with the superseded handle succeeds, the
  message is delivered, and it may be delivered again, by this subscriber or the other
  one. `RepeatsNeedOthers` states what holds: it takes another process.
* Fake: `Invocations` and a call lock two mutexes in opposite orders (`Circle`).

## Fairness

`FairSpec` assumes that goroutines run, and little else:

* weak fairness for a step of a goroutine that stays enabled until it is taken;
* strong fairness where goroutines contend: for sends on the shared `errChan` and for
  the mutexes, because Go serves blocked senders of a channel and waiters of a mutex
  first in, first out; and for the cases of a select, because Go picks among ready
  cases at random, so that a case that is ready again and again is picked in the end;
* the client reads `ErrChan` and the channels of `Receive`: "Clients should always check
  for errors coming through ErrChan" (`transport.go:7`). Where the code is the client
  (greeter) or the client's loop is modelled (NATS), only what that code does is
  assumed. A client need neither send nor call `Stop`, and nobody need cancel a context;
* calls of a service return, with success or error. Only `EventuallyReceived` needs
  more: `ReceiveMessage` and `DeleteMessage` do not fail for ever, a visibility timeout
  ends, and other processes receive each message a bounded number of times. Nothing is assumed about publishing or connecting, or about a lost
  connection coming back;
* the NSQ library closes `StopChan` as described above (`ConsumerStops`).

`backoff.Do`: `f` returns, a sleep ends; whether `f` succeeds is open.

## Proofs

TLAPS checks every theorem for all values of the constants that satisfy the named
assumption of the module: any set of names and messages, any capacities from one,
any batch size and limit, any number of writers, methods and goroutines, any number
of lost connections, with or without failures.

| Module | Theorems | The inductive invariant |
|---|---|---|
| `SqsTransportProofs` | `TypeCorrect`, `OrderAndFlush`, `OrderedOnce`, `StopFlushes`, `Refinement`, `BatchesFit`, `SilenceIsSuccess`, `NothingLost`, `DeliversOnceUnlessShared` | `InOrderOnce` with `FlushInv`; for `DeliversOnceUnlessShared`, `Tidy`, `FromQueue`, `Owed` and `Apart`: what the subscriber has in hand came from the queue, and each delivery of a message that may come again is owed to a receive by another process |
| `SqsMultiProofs` | `TypeCorrect`, `InOrder`, `OneBatchLeft`, `BatchesFit`, `WritesOnce`, `FreeWritersKnown`, `RegistersAtOnce` | `Line`: the order from writers to `sendCh`, where a batch is in each state of publisher and dispatcher, how far the promise of `Stop` has got; `Calls`: who has a batch; `Writing`: the calls are disjoint; `Free`: the registered writers are the idle ones |
| `NatsTransportProofs` | `TypeCorrect`, `OrderedTries`, `ConnectionOutlives`, `DoneKeepsPromise`, `OrderedReceipts`, `Refinement` | `LinkKept`: a live publisher keeps `natsConn` set; `Published`: order, and the promise carried through the publisher's exit; `Flow`: what is on the way |
| `RedisTransportProofs` | `TypeCorrect`, `OrderedTries`, `DoneKeepsPromise`, `PopsOnce`, `Refinement` | `Published`, as for NATS; `Popped`: every sequence is free of repetitions, and what has not been tried is in none of them |
| `RabbitTransportProofs` | `TypeCorrect`, `KeepsAll`, `RepeatsOne`, `EmptyIsTheEnd` | `Kept`, `Awaited`, `OnTheWay`, `Again`: what the broker waits for is what the subscriber holds or is about to take, and until it is on the channel nothing is repeated; `Waiting`: nothing waits in `msgs` once it is closed; `NothingAfterEmpty` is inductive by itself |
| `NsqAndHelperProofs`, NSQ with the programs | `TypeCorrect`, `GreetsInOrder`, `KeepsAll`, `ReadsOnce`, `PublishesInOrder`, `StopsConsumers` | `Sent`: what was published is in the order of `handed`, and what is being published is the last; `Stopping`: `Stop` has seen every consumer but one on its way into `t.consumers` |
| the same, `Backoff` | `DoTypeCorrect`, `ExactCalls`, `BoundedSleeps`, `MonotoneSleeps` | types, `GivesUpExactly`, and bounds on `backoff` as long as nothing has overflowed: a sleep of up to twice the cap is followed by one of the cap |
| the same, `FakeSqs` | `FakeTypeCorrect`, `NumberRight`, `BooksAlwaysAgree` | who holds the mutex of a method is the one goroutine that is recording a call of it; the books differ by just that call; numbers point into the first book |

How the arguments go:

* *Order*. "What has been handed over, followed by what is on its way, is what was
  accepted" is inductive only together with where messages may rest: a step that
  moves a batch keeps the order because the place it moves to is empty. Hence the
  equivalences between a goroutine's place and the emptiness of what it holds.
* *Stop*. That `Done` means something is not inductive: the step that closes it only
  looks at where the publishers are. The promise is carried back through the
  publisher's exit: when it found the channel empty, everything accepted was handed
  over or in its batch. For `MultiTransport` that gives everything promised to the
  dispatcher, and thus all but what the dispatcher holds or dropped: one batch.
* *Refinement*. `CallReturns` is `Hand` (by order, the extended `handed` is a prefix of
  `accepted`), `ClientSend` is `Accept`, `ClosePubChan` is `CallStop`, `CloseDone` is `Stopped`
  (by `FlushInv`), all other steps stutter. For NATS `TakeMessage` is `Hand`, `StopBegins`
  is `CallStop` and `StopEnds` is `Stopped`, which is where `drops = 0` is needed; Redis
  likewise, where a `StopEnds` that panics stutters. `ConnectedRefinement` draws the
  conclusion: a behaviour in which nothing is ever lost is one of `Outbox`.
* *Nothing vanishes*. Each step of the receiving half keeps every message somewhere
  (`NothingDisappears` in `SqsReceiveProofs`); a message of the sending half joins the
  queue.
* *Once*. A list that is popped stays free of repetitions because what is pushed was
  never in it: `RPush` is called once with each message, which is the order again. The
  SQS queue is a set, and its subscriber may receive a message it has not deleted again
  and again; what it delivers is new while nobody shares the message, because `Apart`
  counts the deliveries of a message together with its place in the queue, and a message
  that is stored later is none of those before. A receive by another process allows for one
  delivery more, whether the handle it supersedes is used before or after.
* *Writers*. The calls of a name are disjoint because what the dispatcher gives away is
  the next piece of `Line`, in which no message comes twice. That a writer finds room in
  `workerQueue` counts: its elements are distinct and the writer that registers is none
  of them, so there are fewer than writers (`InjectiveCardinality`).
* *A lost connection*. When RabbitMQ takes back what was not acknowledged, that is what
  the subscriber holds or what waits for it in `msgs`. It becomes a repetition only if the subscriber had put it on the
  channel or does so later, and no delivery follows on this connection: one message at
  most. Empty deliveries begin only when no other can come, so none comes after them.
* *Attempts*. `backoff.Do` publishes the same message until it succeeds or is given up with
  an error, so repetitions stay next to each other: the pairs of places in `published` and
  `handed` are monotone (`InLine`).

`ChannelLemmas` has the facts about sequences these use, `SqsReceiveProofs` the lemmas
of the receiving half that both SQS transports share.

Every invariant that a run checks is also a theorem, and so is each refinement
(`ImplementsOutbox` of the SQS, NATS and Redis transports).

Proved and not run: `TypeOK` of the modules that are not named by a run, `FlushInv`,
`DoneMeansFlushed` and `BatchWithinLimit` of the SQS transports, `NeverShrinksBelowCap`,
`SameNumber`, `RoomToRegister`, `Once` of the greeter, `TriedInOrder` of Redis, and
`DoneMeansTried` of NATS and Redis, which a run of `ImplementsOutbox` covers. TLC agreed
with each of them before it was proved; a theorem for every value says more than a run
of the same invariant.

Only model-checked: the liveness properties, because TLAPS 1.4.5 proves nothing from
fairness and has no rule for `ENABLED`.

## Not modelled, and why

* `vice.Err`, the text of errors, queue URLs and `RegionFromURL`, credentials, logging:
  no property depends on them.
* The clock that makes the ids of batch entries (`sqs.go:218`): a call that fails stands
  for whatever the service rejects, equal ids included.
* `New`'s and `NewMulti`'s defaults for the interval and the number of writers: the models
  do not measure time, and the set of writers is a constant. Negative arguments, which
  panic in `make`, are excluded by the assumptions.
* `Stop` called twice.
* A `newWriterGroup` that fails in `NewService` part of the way has started nothing, so it
  is `SendFails`.
* The names of NSQ, RabbitMQ and Redis beyond the first, and a second consumer group:
  their goroutines meet only at `errChan`, the mutex and `Stop`, which are modelled.
* What the libraries do inside: connections, acknowledgements and redelivery are
  modelled as the code under `src/` meets them and marked external in `PROJECT.json`.
  `Flush` and `Close` of a nil NATS connection are taken to return.
* `vicetest` beyond its select loop: it is a test. `fakes.go` and `tools.go`: no code.
* 59 of the fake's 63 families stand for themselves in `FakeSqs` only through its
  parameter `Order`: TLC runs five methods, the theorems hold for any list.

## What is left

1. An abstract receiving side, as `Outbox` is one of the sending side. What the
   transports have in common there is little, and each has exceptions of its own (a repeated
   delivery, a lost answer, an empty message), so that `NothingVanishes`, `RepeatsNeedOthers`,
   `PoppedOnce`, `RepeatedOnce` and `ReceivedInOrder` state it for each of them.
2. `StopReturns` of NATS with two names: a publisher of one blocked by the failing call of
   another. The safety theorems hold for any names.
