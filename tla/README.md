# Verification of msg-lake

TLA+ models of msg-lake (`src/`), the TLC runs that check them on small
instances, and TLAPS proofs of what matters most for every instance.

`PROJECT.json` holds the list of components, runs, mutants, the map from
definitions to source lines, the hazards and the theorems. Check a run with
`tlc -workers 2 -config <cfg> <module>` and the proofs with `tlapm` on
`BoxProofs.tla`, `CenterProofs.tla`, `ServiceProofs.tla`, `ClientProofs.tla`,
`RelayerProofs.tla`, `AgentProofs.tla`, `NodeProofs.tla` and `PathProofs.tla`.

## The system

An *agent* is one process: a gRPC *service* on top of a *relayer*, which owns a
libp2p host, GossipSub, and the *message center*. The center keeps one *message
box* per topic. A box reads one backend subscription of its topic and fans
every capsule out to the local subscribers. The Go *client* opens a stream to
an agent (through a proxy) and reopens it when it ends.

| Component | State | Operations | Hard behaviour |
|---|---|---|---|
| Message box, `msg/box.go`, `msg/msg.go` | dispatcher: state (idle, starting, running, stopping, closing), generation, pending and active subscribers; a worker goroutine per generation; `messageCh`; a queue and a reason per subscriber | JoinSubContext, LeaveSub, StopSub, Close, Publish | one dispatcher serves all callers over unbuffered `controlCh`; joins withdrawn while they are admitted; a worker that starts, fails or reads after it was cancelled; full queues; an orderly end with workers that need the dispatcher to end |
| Message center, `msg/center.go` | `entries`: per topic an entry with `ready`, `done`, `closing`, a once, and the box; `closed` | GetBox, LeaveBox, Close | boxes are created and closed outside the mutex; failing creation against cleanup; errors of pubsub |
| Service, `lake/lake.go` | `shuttingDown`, three WaitGroups; per stream a handler, a join watcher and a sender | Publish, Subscribe, BeginShutdown, Close, CancelBackend | Send blocks while the client does not read; several reasons to end a stream become ready together; shutdown against admission |
| Client, `client/client.go` | `closed` context, connection; per Subscribe: attempt, ACK timer, backoff | Subscribe, Publish, Close | timer against ACK; contexts that end in several steps; retries |
| Relayer, `relayer/relayer.go` | host, mdns, DHT, pubsub, center, backend context, peer channel | NewRelayer, DiscoverPeers, Close, CancelBackend | partial construction; order of close |
| Agent, `cli/agent/agent.go` | signal time, gRPC server, health, service | runAgent, shutdownServiceWithin | late results of constructors after a signal; deadline against graceful stop |
| Signed messages, `protocol/signature.go`, `msg/validator.go` | none of their own | sign, verify, validate per topic | client, service and every peer's validator must agree on what is signed; messages replayed on another topic |
| Commands, `cli/client`, `cli/tools/loader` | a context and a WaitGroup over goroutines for signals, sending and receiving | client, loader | terminal reads and RPCs that hold up the end |
| Utilities, identity, health probe, flags | none | environment, random IDs, I/O | none |

Interaction: the service calls `Center.GetBox`, `Box.JoinSubContext`,
`Box.LeaveSub` and `Box.Publish`, and reads `Subscriber.Messages` and `Done`;
`Service.Close` calls `Relayer.Close`, which calls `Center.Close`, which calls
`Box.Close`. `CancelBackend` ends pubsub's context under all of them. The agent
builds the service in a goroutine, serves it over gRPC, and on a signal
withdraws its health, refuses new calls, and closes server and service against
one deadline. A message is signed by the client, checked by the service that
publishes it and by the validator of every agent it reaches.

What makes each correct:

- *Box*: one backend subscription at a time; every join answered exactly once;
  nobody holds a subscriber the dispatcher forgot, and the dispatcher holds no
  subscriber without an owner, and none for good of a join that failed; fan-out without gaps or duplicates; Close returns
  after everything is released.
- *Center*: one incarnation of a topic at a time; no box survives Close; no call
  gets a box that was closed before it began; every call returns.
- *Service*: the relayer is closed under no call; a client reads an ACK and then
  an unbroken run; a stream ends with the right status; nobody waits for a
  client that does not read.
- *Client*: the result is the caller's doing or a refusal; a timed-out ACK and
  an acknowledged stream exclude each other; backoff as documented; the call
  ends when told to.
- *Relayer*: a failed construction leaves nothing open; Close releases every
  part once, the center first and the host last; CancelBackend frees a Close
  that hangs.
- *Agent*: nil means that a signal asked for the stop and everything was closed
  in time; the budget runs from the signal; what is built after the signal is
  closed by somebody; the shutdown does not hide the failure it was begun for.
- *Message path*: what is delivered was signed, for the topic it came on; what a
  publisher was told is accepted is dropped by no validator.
- *Commands*: they end on a signal and, for a load, at its limit, with all their
  goroutines.

## Modules

| Module | Models |
|---|---|
| `Box` | `msg/box.go` and `Subscriber`. The maps `pending` and `active` are sets of calls; `UniqueSubscriberIDs` justifies it. Sending on the unbuffered `controlCh` and the dispatcher's handler are one step (`handleJoin` ... `handleWorkerStopped`). `worker[g]` is the goroutine of generation `g`. The dispatcher's tail (worker group, `topic.Close`, `done`) is `waitWorkers` and `topicClosed`. |
| `TopicGroup` | what a box promises, without generations, workers and channels |
| `BoxGroup` | the refinement mapping from `Box` to `TopicGroup` |
| `Center` | `msg/center.go`. An entry is named by the GetBox call that made it. A section under the mutex is a step. pubsub (validators, joined topics, its context) is external. |
| `Directory` | what a center promises: topics with one owner at a time, boxes opened once |
| `CenterDirectory` | the refinement mapping from `Center` to `Directory` |
| `Service` | `lake/lake.go`: handler (`hpc`), sender (`spc`), Publish (`ppc`), Close (`cpc`). The box appears as its callers see it: `registered` are the subscribers it has for a call, `givenUp` those of joins that failed after their admission and that a goroutine of the box withdraws later (`joinFailed`, `withdraw`). gRPC streams are external. |
| `Client` | `client/client.go`: one Subscribe call, Close, the ACK timer and the backoff |
| `Relayer` | `relayer/relayer.go`. `npc` is the place in NewRelayer, `part` what it has opened, `kpc` the calls of Close (the deferred one of NewRelayer too), `peers` and `dpc` the queue of discovered peers and its reader. The center is one part, whose Close may wait for the backend. That mDNS's Close waits for its callback is assumed of libp2p. |
| `Agent` | `cli/agent/agent.go`. `apc` is the place in runAgent; every goroutine it starts (signal forwarder, constructor, listener, late closers, Serve, GracefulStop, Stop, Close) has its own variable and is followed after runAgent has returned. Time is a clock in ticks. gRPC's server is external. |
| `Node` | `Agent` and `Relayer` together, through `NewService`, `Service.Close` and `CancelBackend`: the steps where they meet are joint, the others are those of the two modules |
| `MessagePath` | `protocol/signature.go`, `msg/validator.go`, what `Client.Publish` and `Client.Subscribe` sign, the checks of `Service.Publish` and `Service.Subscribe`, `Box.Publish`, `CheckStrLen`. A signature is a key and the bytes it is over, and nobody makes one for another key. |
| `Loader` | the three goroutines of `cli/tools/loader` and the counter of the load |
| `ClientCommand` | `cli/client` over `Client`: signal, receiver and sender goroutines |
| `BoxProofs`, `CenterProofs`, `ServiceProofs`, `ClientProofs`, `RelayerProofs`, `AgentProofs`, `NodeProofs`, `PathProofs` | the theorems |
| `MCBox`, `MCCenter`, `MCMessagePath` | constants and symmetry for TLC; the other modules need none |

Definitions keep the names of the code. Definitions whose comment begins with
"Mutant of" are deliberate bugs: each is put in place of the definition it
follows to see that a property notices.

Abstractions. A capsule is a number, an error is its kind, a reply channel and
a queue are sequences. `JoinSub` is a call whose context never ends.
`Box.Publish` leaves the box as it is, so in `Box` its capsules are those the
backend delivers; what it sends is in `MessagePath`. Undecodable data is a step of the worker that changes nothing. The
`NewBox` error path of `createBox` cannot be taken (`newBoxWithBackend` returns
no error) and is left out. LeaveSub is called once, by a caller that was given
a subscriber, as in `lake.go`. In `Agent` a result waits in its channel as the
state of what was made, since each channel has one reader. In `MessagePath` the
encoding is any injective function, and in the run one topic ID consists of the
bytes of a capsule, since nothing in the code tells the two kinds of signed
bytes apart; the properties speak of bytes for that reason. A message that
does not decode, or lacks a field, is an empty sequence.

## Runs

| Run | Bounds | Shows |
|---|---|---|
| `box_lifecycle` | 2 joins with one ID, 1 StopSub, 2 Close | one worker, the shape of every dispatcher state, replies fit their channels, nobody forgotten or orphaned, a cancellation hits only its own join |
| `box_fan_out` | 2 joins, 1 Close, 3 capsules, queues of one place | fan-out without gaps; the box implements `TopicGroup` |
| `box_liveness` | 1 join, 1 StopSub, 2 Close, 3 capsules, fairness | every call returns, a deserted box releases its worker, a failed join leaves nothing in the box |
| `center` | 2 GetBox, 2 LeaveBox, 1 Close on one topic, fairness | incarnations do not overlap, Close is final, boxes are fresh; the center implements `Directory`; every call returns |
| `service` | 1 stream, 4 capsules, queue of two, 1 Publish, 1 Close, fairness | ACK and run with at most one late send, a quiet end has a cause, the relayer is closed under no call; handlers end and Close returns with a sender stuck in Send |
| `client` | 8 pauses, fairness | honest result, timer against ACK, backoff past its cap; stops when told |
| `relayer` | 2 closers besides NewRelayer's own, 4 peers found, queue of two, fairness | a failed construction releases what it opened; order of close; CancelBackend frees Close; discovery ends |
| `agent` | budget of 2 ticks, shutdown begun by tick 2, 2 RPCs, fairness | a nil only after a signal and an orderly, timely stop; the budget; a signal ends the agent; late service, listener and server are closed |
| `node` | budget of 1 tick, shutdown begun at tick 0, 1 RPC, no peers, fairness | nil means released; topics closed on a live pubsub; a signal releases the relayer |
| `message_path` | 2 keys, 3 topics (one too long, one spelled like a capsule), 1 payload, 1 agent, 3 requests or injections | only signed bytes are delivered; accepted is deliverable |
| `loader` | limits 0 (none) to 3, 1 signal, fairness | ends at its limit and on a signal, with all its goroutines |
| `client_command` | 1 pause, 1 signal, fairness | a signal and a refusal end it |

Type invariants are proved rather than run, as are `TopicClosedLast` and
`UniqueSubscriberIDs` of `Box`.

Why the bounds are enough to be interesting. Two joins with one ID meet as
duplicate, as withdrawn and as successor. Three capsules and queues of one
place give a stale generation in `messageCh`, an eviction and a survivor.
Generations are not bounded by a constant: every start needs a new join or a
pending one, so the number of joins bounds them. Two GetBox calls are a creator
and a waiter, or a creator and the successor of a removed entry, and two
LeaveBox calls with a Close meet one cleanup from three sides; topics do not
interact except through Close, so one topic suffices. Streams interact only
through the box and the WaitGroups: liveness is checked with one stream, and
the invariants are proved for any number.
Eight pauses pass the cap of the backoff, which is met after six.
In `Relayer` two closers meet as first, waiting and late caller, the deferred
Close as the only one, and four peers overflow a queue of two. In `Agent` two
ticks put a result before, at and after the deadline, and the shutdown may
begin at either tick. `Node` has one tick: its properties are about whether the
deadline has passed, and the finer timing is checked in `Agent`, discovery in
`Relayer`. In `MessagePath` three steps sign, replay on another topic and forge
around one subscription; the checks are stateless, so further messages meet the
same ones.

Two behaviours of the code that a reader may not expect are in the models, and
the properties that come near them say so:

- A subscriber is evicted, then the shutdown begins, and the sender's loop sees
  the shutdown first: its nil is in `result`, and if the handler's select takes
  that (`lake.go:240-243`, `284`) the evicted client reads an orderly end. Taken
  the other way (`shutdownStreamResult`, `lake.go:302-316`) the eviction is
  reported. `QuietEndHasCause` excuses exactly the sender's nil and demands the
  report otherwise. A client that reads the end of the stream reconnects, where
  `ResourceExhausted` would have been returned to its caller (`src/README.md:57`).
- Serve fails, and a signal arrives before runAgent has looked: the select
  (`agent.go:161-163`) may take the signal, and the failure is never read.
  `CleanExit` says that a nil hides no failure that runAgent stopped for
  (`failed`), and nothing of one it did not read.

A third is allowed by design. A join cut short by the shutdown after the
dispatcher took it returns at once, and the goroutine that withdraws the
subscriber is counted by no WaitGroup (`box.go:591-599`, `610-617`): the relayer
may be closed while the box still has it. `QuietRelayer` says that no call was
given that subscriber and that a closed relayer has none; that the box forgets
it in the end is `FailedJoinLeavesNothing` of `Box`, on which the fairness of
`withdraw` in `Service` rests.

Deadlock checking is off in every run: the calls are finitely many, and when
all have returned the system rests.

## Fairness

- *Box*: the dispatcher serves every sender blocked on `controlCh` (Go queues
  blocked senders, and the dispatcher looks at `controlCh` first); goroutines
  take a step that is ready. The backend answers Subscribe and Cancel, and Next
  returns once its context is over. Nothing makes callers call, leave or
  cancel, nor the backend deliver.
- *Center*: goroutines take a step that is ready; pubsub answers; `Box.Close`
  returns, which `CallsReturn` of `Box` shows.
- *Service*: as above, but a join is only assumed to return once its context is
  over, a given-up subscriber is withdrawn (`FailedJoinLeavesNothing` of `Box`),
  and Send returns only once the stream is over. gRPC ends the stream of a handler
  that returned. Nothing makes a client read.
- *Client*: its own steps and timers; a gRPC call returns once its context is
  over. Nothing makes the server answer.
- *Relayer*: its goroutines, and the Close of mDNS, DHT and host. The center's
  Close and Connect are only assumed to return once the context is over. The
  Close of mDNS is assumed to wait for a running callback, which `src/` does not
  show: that nobody feeds the peer queue after a failed construction, and that a
  notifee which blocked would hold up `CancelReleasesClose`, rest on it.
- *Agent*: time and its goroutines. Constructors, RPCs and `Service.Close` may
  hang for ever.
- *Node*: both, and here the constructors return (libp2p's are local), and an
  RPC ends once the backend is cancelled.
- *Loader, ClientCommand*: their goroutines and timers; an RPC returns once its
  context or connection is over. `select` takes a random ready case, so a
  `Done` that stays ready is taken in the end (strong fairness of `seesDone`).
  The loader ends at its limit provided that every Publish returns (it has no
  deadline). The client command ends provided that a read of standard input
  does: closing `os.Stdin` interrupts a read of a file the Go runtime polls,
  and not a blocking one, where the command waits for the next line.

## Proofs

`BoxProofs` proves for every set of callers, every assignment of IDs, all
capacities and any number of generations: `TypeCorrect`, `NoSecondWorker`,
`StatesAgree`, `NoReplyBlocks`, `NobodyForgotten`, `NobodyOrphaned`,
`CancellationIsOwn`, `TopicClosesLast`, `IDsStayUnique`, `FanOutHasNoGaps` and
the refinement `BoxImplementsGroup`.
The assumptions are `CapacityAssumption` and `CallersAssumption` of `Box`.

The type alone is not inductive: that `cancelled` holds only generations that
were started needs that a known worker has a generation. So the argument is in
layers, each inductive over the ones before:

1. `TypeOK`;
2. `Lifecycle`: `OneWorker`, `StateShape`, and `TailShape` (the dispatcher
   leaves its loop only when closing without a worker);
3. `Callers`: `AnswerShape` (who has been answered, and how, at each place of a
   call), `Withdrawn` (an abandoned join is on its way out), `NoOrphans` and
   `OnlyOwnCancellation`;
4. `FanOut`: `ChannelShape` (`messageCh` holds what earlier generations left and
   then what the current one pushed, nothing before its worker has started),
   `RunShape` (while the box runs its backlog is a run that ends just before the
   capsule the worker holds or reads next: a push is skipped only by a cancelled
   worker), `FreshLogs` (no message before the answer) and `GaplessFanOut`;
5. `RequestShape`: nobody is stopped before its request is sent, and a request
   the dispatcher took is parked or answered.

`BoxImplementsGroup` is the step simulation from `Box` to `TopicGroup` over all
five. The steps that end memberships share one shape (`Cuts`); `RequestShape` is
what makes an abandoned join invisible to the group until the dispatcher has
handled its withdrawal, and `GaplessFanOut` what lets a delivery continue every
member's run.

`UniqueSubscriberIDs` is inductive over these by itself. Every layer is proved
handler by handler; facts about `stop`, `reply`, `startGeneration` and
`restartOrIdle` are lemmas.

`ClientProofs` proves `ResultIsHonest`, `AckStopsTimer` and `BackoffIsRamp` for
any number of retries. The inductive invariant says where an error of the client's own
making can be met: after a failed ACK only with the timer fired or the stop
visible (`TeardownShape`), because contexts, connection and timer channel
follow what ends them (`Followers`) and the timer is stopped before a stream is
relayed (`TimerShape`).

`CenterProofs` proves `TypeCorrect`, `OneIncarnationHolds`,
`ClosedForGoodHolds`, `FreshBoxHolds` and the refinement
`CenterImplementsDirectory` for any topics and any number of calls, from
`CenterCallsAssumption`. None of the properties is inductive alone. `CenterInv`
adds who made an entry and who may hold it (`Ownership`), how an entry's
`ready`, `done`, once and box go together and when it is in the map
(`EntryShape`), that one cleanup body runs per entry and what is true at each of
its places (`CleanShape`), what pubsub holds for a topic while the backend is up
(`PubsubShape`), that after the snapshot of Close whatever is alive has a
cleanup under way (`ClosingShape`), and that a box closed before a call stays so
and is not what the call waits for (`DeadShape`).

`ServiceProofs` proves `TypeCorrect` and `RelayerClosesQuiet` for any number of
streams, publishers and closers. That a Wait that returns leaves nobody behind
needs that a WaitGroup's counter is the cardinality of the set of goroutines
between their Add and their Done (`Counted`; no assumption that the sets of
calls are finite is needed, since the running ones always are). `HandlerShape`
says that a handler has no sender before its first response, which is why
`senders.Add` outside the mutex cannot come after the Wait, `CloseShape` which of
the sets are empty at each place of Close, and `GivenUpShape` that what is given
up was handed to no call.

It also proves `LogsAreAckThenRun` and the action property
`NoQuietEndWithoutCause`, for any number of streams and any queue. `StreamInv`
follows a capsule on its way: the queue goes on from the last capsule taken
(`QueueShape`), what a sender holds can follow its log until the shutdown, and
afterwards only a Send admitted before is left (`SendShape`); a subscriber is
stopped once, a sender that ends with the subscriber's error ends with that
very error, and its one result is quiet only for a cause (`EndShape`).

`RelayerProofs` proves `TypeCorrect`, `ClosesInOrder` and `ErrorLeavesNothing`
for any closers and capacity. The invariant `RelayerInv` says that no Close
runs during the construction (`ClosesAfterBuilding`), that the host is opened
first (`HostShape`), what has been released at each place of Close
(`PlaceShape`), who may have ended the context (`CtxShape`), and what an error
and the discovery goroutines imply (`EndShape`).

`AgentProofs` proves `TypeCorrect`, `BudgetIsTheSignals` and `NilIsClean` for
every timeout. The budget needs that no recorded time lies ahead of the clock
(`TimesPast`); a clean exit needs which goroutines and results belong to each
place of the shutdown (`ShutdownShape`) and what a nil so far stands on, a signal
and no failure read included (`NilShape`).

`NodeProofs` proves `NodeRunsBoth`: every behaviour of `Node` is a behaviour of
`Agent` and one of `Relayer`, so the theorems of both hold of the composition
and are used there as they are. On them rest `NilReleasesAll` and
`TopicsCloseInTime`, for every timeout, any number of RPCs and any capacity
(`NodeAssumption`). `NodeInv` adds to the invariants of the two what their joint
steps relate: the service's Close is the relayer's (`CloseShape`), and nobody
ends the relayer's context from outside before the deadline (`AbortShape`).

`PathProofs` proves `OnlySignedIsDeliveredHolds` and
`AcceptedIsDeliverableHolds` for any keys, topics, payloads and agents and every
injective encoding (`PathAssumption`). `PathInv` says that no message anywhere
carries a signature that nobody made, that what was delivered passed the
validator of its topic, and that what was accepted passes it.

Only model-checked: liveness (`CallsReturn`, `DesertedBoxReleasesWorker`,
`FailedJoinLeavesNothing`, `HandlersEnd`, `CloseReturns`, `StopsWhenTold`, `CancelReleasesClose`,
`DiscoveryEnds`, `SignalEndsAgent`, `LeftoversAreClosed`,
`SignalReleasesRelayer`, `LoaderEnds`, `CommandEnds`), which is outside the
prover's reach. Every invariant, action property and refinement that a run
checks is also proved.

## Not modelled

Generated protobuf and gRPC code and deployment files. The identity command,
the health probe, flags, environment lookup and random IDs: sequential I/O
without state that lasts. The rate limiter of `util/grpc.go`: a library's token
bucket in front of unary calls, whose refusal is one more refusing Publish. The
jitter of the client's pause. `box.go:644` reads the capacity of `messageCh`
from the environment without a check; the models assume it positive. LeaveSub
ends whoever holds the ID (`box.go:286`); with the random IDs of `lake.go` that
is only the caller's own subscriber, and nothing is claimed for shared ones. Delivery
under control events without end (`box.go:187`) is not promised by the code.
libp2p, GossipSub, gRPC and the signature scheme appear only as what the code
relies on.

The services of several agents are composed only in `MessagePath`, where what
connects them, the validators, is; boxes, centers and streams of one agent are
composed through the interfaces their own modules check (`Service` sees a box
through `Subscriber`, `Center` sees it through Close, `Node` sees the center
through Close), since their product is beyond TLC.

## Plan

1. Done: all components listed above as modelled, with two abstract
   specifications and the composition of agent and relayer.
2. Done: a theorem for every invariant, action property and refinement.
3. Next: what the liveness arguments rest on and is safety (that a waiting call
   always has somebody whose step releases it), as invariants of `Center`,
   `Relayer`, `Loader` and `ClientCommand` with proofs, in the modules that
   hold the theorems now.
