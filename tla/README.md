# A verification of ruststream-gcp-pubsub

TLA+ models of the Google Cloud Pub/Sub transport of RustStream, the TLC runs that
check them on small instances, and TLAPS proofs of what matters most about them.
The code is the crate `crates/ruststream-gcp-pubsub`; file names below are of its
`src/` directory.

- [The system](#the-system)
- [What is hard](#what-is-hard)
- [Modules](#modules)
- [Runs](#runs)
- [Fairness](#fairness)
- [Proofs](#proofs)
- [Where the documentation and the code differ](#where-the-documentation-and-the-code-differ)
- [What is not modelled](#what-is-not-modelled)
- [Plan](#plan)

## The system

A service mounts handlers on subscriptions and publishes to topics. The crate
connects it to the service (Google Cloud Pub/Sub, through the `google-cloud-pubsub`
client) or, in a test, to an in-process project with the same behaviour.

| Component | Code | State it keeps | Operations |
|---|---|---|---|
| In-process project | `in_process/project.rs`, `in_process/mod.rs` | under one mutex: the log, each subscription's topic, policy, backlog, consumers in rotation and turn; beside it the harness's coordinator | `open`, `publish`, `routes`, `reject`, `cancel`, `install`, `close` |
| In-process settlement | `in_process/settle.rs` | a delivery's message until it settles, whether the harness counted it; a consumer's channel | `ack`, `reject`, `reject_after`, drop of a settlement, `poll_next`, drop of a consumer |
| Publishing | `publisher.rs`, `topic_publishers.rs` | per connection: the client publisher of each topic, a mutex for adding one; per handle: the first topic and its publisher | `publish`, its lookup, `resume_publish` after a failure under a key |
| Shutdown | `broker.rs` (`Core::shutdown`) | the `closed` flag | close, flush every client publisher |
| Opening a subscription | `broker.rs` (`Core::subscribe` and what it calls), `subscription.rs` | the declarations of bare names, `attached` (in test builds), the cap each subscriber settles against; in the service: topics, subscriptions, policies | `declare_retry`, validation, ensure a topic, ensure a subscription, write the policy, learn the attachment, learn the cap |
| Live delivery | `subscriber.rs` | the client's stream, the pump task, a bounded channel, a shutdown token | pump, `Deliveries::stream`, `Pull::drop` |
| Live settlement | `message.rs` | the client's handle, the attempt, the lease's limits | `ack`, `nack`, drop at the cap, `nack_after`, drop of a handle |
| Runtime slots | `runtime_slot.rs` | process-wide: slots with generations and runtimes, a free list | register, drop, look up |
| Broker lifecycle | `broker.rs`, `publisher.rs` | a connection cell that clones, connected forms and early publishers share | `connect`, `connect_in_process`, `publisher`, `shutdown`, every drop |
| Keys and headers on the wire | `publisher.rs`, `message.rs`, `in_process/project.rs` | none | the key a publish resolves, headers to attributes and back, what a publish is refused for |
| Services | `examples/` in both forms | what runs on a broker: registrations, handlers, replies | handle a delivery, publish, reply, settle |
| Descriptors, errors, AsyncAPI | `subscription.rs`, `error.rs`, `broker.rs` | none that changes | builders, rendering |

How they interact:

- the framework declares what the registrations carry, then opens them, one
  registration after the other; each opening runs `Core::subscribe` against the
  service and starts a pump;
- a pump moves deliveries from the client's stream to a channel, the dispatch loop
  moves them from the channel to handlers, and a handler settles its delivery or drops
  it; a delayed rejection runs as a task on the runtime the broker connected on, which
  the delivery finds through its runtime slot;
- clones of a broker and the publishers handed out before `connect` share one cell; the
  first connect to finish fills it and registers the runtime it ran on, which stays
  registered until nothing holds the cell;
- publishes of every handle of a connection share its client publishers; shutdown
  closes the connection and flushes them;
- a handler publishes and replies through the same broker, and its delivery is settled
  only after that; what runs out of attempts goes to a topic that another registration
  of the service may read;
- in a test build the same descriptors, messages and publishers run on the in-process
  project, whose deliveries the harness counts to know when a test has settled.

## What is hard

PROJECT.json lists each hazard at its line with the properties that watch it. In
short:

- **Interleavings.** Threads open, publish, settle and drop consumers of one in-process
  subscription, and the calls release the lock between their steps; tasks race the
  first publish to a topic; replicas race to create one topology; shutdown runs beside
  publishes.
- **Stale state.** A remembered client publisher, a slot another connection uses by
  now, a cap read once, a policy somebody else wrote, a lease that has been running.
- **Failure part-way.** A call that fails with or without effect, a process that
  crashes between two calls, a publish dropped at its await, a connect that fails or is
  dropped while others wait for it, a runtime or a subscriber that goes while deliveries
  are buffered, handled, held or being settled, a handler that dies between its publish
  and its ack.
- **Boundaries.** The attempt that is the last one, a full channel, counters that
  saturate or wrap, slots that are used again.
- **What must happen in the end.** Every message settled, every connect and publish
  returned, every pump ended, every process serving, the harness's wait over.

## Modules

### InProcess, DeliveryContract, InProcessRefinement

`InProcess` models `in_process/`. A `Worker` is a thread inside a call; `job[w]` says
where in the call it is and what it carries. An action is one critical section of
`Project::state`, or one step between two: `Open` (the lock stays held through the
drain of the backlog, so `Drain` and `Opened` follow it under `lock`), `Route`
(publishing or dead-lettering under the lock), `Reject` (the decision under the lock; a
spent message leaves it with the thread and is routed in a later step, as the code
does), `Cancel`, `CancelNext`, `Cancelled` (out of the rotation under the lock, then the
channel emptied one message at a time), `Poll`, and the settlements. `Hand` is
`Subscription::hand`: the next consumer in rotation, or the backlog. The turn wraps at
`TurnWidth`, the attempt saturates at `AttemptMax`. A message is named by its place in
its topic's log, so that copies are compared and not counted.

Deliveries are counted for the harness exactly where the code counts them. The code reads the
coordinator just before it takes the lock in `route` and `reject`, and the model inside: an
install between the two leaves that one message uncounted in the code, which the model has
only where the message is handed out before the install. The count is of counted deliveries
either way. `created`, `acked` and `publishes` are history.

`RoutesAgree` compares what `routes` answers with where a publish hands the message *in the
same state*: that counting from the cursor and indexing the rotation name one consumer. The two
calls are critical sections of their own, and what comes between them it does not watch.

`DeliveryContract` is what a user of the transport relies on: a subscription has one
copy of every message published after it was created; a copy is live on an attempt,
acknowledged, spent or dead-lettered; a rejection below the cap is the next attempt, at
the cap it is one publish to the dead-letter topic. `InProcessRefinement` maps backlogs,
channels, handlers, timers and threads' hands to `live`, and `ImplementsContract` says
that every behaviour of the transport is one of the contract.

### RuntimeSlots, Lifecycle

`RuntimeSlots` is `runtime_slot.rs` whole: `Reuse` and `Grow` are the two ways of
`RuntimeRegistration::new`, `Drop` its drop, `RuntimeAt` the lookup. Every operation is
under the registry's mutex, so each is one action. The generation wraps at `GenWidth`;
the assumption that a process makes fewer connections than that is named in the module.

`Lifecycle` extends it with the brokers that use it. A member of `Connection` is a clone
of a `PubSubBroker`; `stage[c]` says where it is, from the clone through its `connect` or
`connect_in_process` to its connected form and its end. `connect` waits for the one
permit of the cell (`Acquire`), builds the clients one await after the other
(`BuildClient`), stores the connection and registers its runtime (`Fill`); it may fail
(`FailConnect`) or be dropped at any await (`AbandonConnect`), and the permit then passes
on. `connect_in_process` looks into the cell, tries to set it and looks again (`Look`,
`SetProject`, `StoreProject`, `Reread`); another clone's connect can come between any two
of these. `HandOut`, `DropClone`, `DropPublishers` are what is done with the forms and the
publishers. A shutdown closes the link its form speaks over (`ShutDown`) and lets the form
go once it has flushed, or is dropped in the flush (`EndShutDown`). A publish of a task is
in the steps that others' come between: it reads the cell (`Publish`), checks that what it
found there is open (`EnsureOpen`), queues its message, closed meanwhile or not (`Queue`),
and answers (`EndCall`); until then it holds the cell as a handle does. What it queues on is
the subject of `Publishing`. `call[t].began` is history: how the broker stood when the
publish was called. Whatever lets go of the cell last drops the registration (`LetGo`), so
each step of `Lifecycle` is a step of `RuntimeSlots` or leaves it alone; the proofs say
so for every broker, clone and task.

`UsableUntilShutdown` is the sentence of `publisher.rs:125` as the code keeps it: a publish
*called* after the shutdown of any form never goes out, also where a clone connects later,
and one called while a form was connected is refused only if a shutdown came first. A publish
that was called before the shutdown may go out after it; that is the run `late_publish`.

### Publishing

`PubSubPublisher::publish` in the steps its shared state makes visible: the check that
the connection is open (`Publish`), the handle's memo (`Find`), the map (`Load`), the
mutex for adding (`Lock`, which reads the map again), the client's construction
(`Build`), the memo's update (`Remember`), the queueing (`Use`), the answer and the
resumption of a key (`Return`). `Abandon` drops a publish at its await. Shutdown is
`Close`, `All`, one `Flush` and `Flushed` for each client publisher, `Done`. The client
publisher is external, as the code uses it: a queue worked off in order under a key and
in any order otherwise, a failure pauses its key and refuses what is queued after it
until it is resumed, and a flush is answered once what was queued before it is.

### Startup

Processes that start beside each other against one service. Each call is a step whose
answer may be a failure, with or without effect (`MaxFaults` bounds how many). The
steps are those of `Core::subscribe`: `GetTopic`, `CreateTopic`, `RegetTopic` for the
descriptor's topic and then the dead-letter topic, the same three for the subscription,
`WritePolicy` where the subscription was there already, `Attach` in test builds,
`Limits` and `Learn` for the cap. `Declare` and `Takes` are the bare names' ledger. A
process that fails is restarted with nothing but its plan; a crash is a restart at any
step; `Shutdown` closes the connection at any step. The initial states are every
topology that may be there before, with or without a policy of its own. `Plan` is the
set of registration sequences a process may mount; a process mounts them in turn, each
declared and then opened, as the framework does.

### Pulling

One live subscription: `Receive` puts a delivery into the client's buffer, `Take` and
`Send` are the pump, `Poll` the dispatch loop. `Ack`, `Nack`, `DropMessage`, `Forget`
and `NackAfter` are what a handler does; what they ask for is applied, confirmed or
lost later (`Apply`, `Confirm`, `Unconfirmed`). `NackAfter` holds the delivery on the
connect runtime where that and the connection it came over are there, rejects it where not,
and answers with an error past `max_lease`. `opened` is the connection the subscriber reads
over and the cap it settles against, and every delivery keeps both from its `Receive`: a
subscription that is opened again over a new connection (`Reopen`) leaves those of the gone
one rejected at once. The cap may be the policy's or none (`Learned`), as where the service
account may not read the subscription (`broker.rs:208`); `at_delivery_cap` is then never
true. `Tick` is time, for leases and delays together;
a lease runs out once the client no longer extends it or `MaxLease` has passed. Faults
are a request or answer that is lost, a stream that fails, a subscriber that is dropped,
the runtime that stops, the connection that goes, a crash. The service redelivers, or
dead-letters a message whose attempts are spent. Where the subscription delivers
exactly once (`exactlyOnce`, a choice of the initial state), settlements are confirmed
and a late one fails; where not, they answer at once and a late ack may still be taken.

`PullingRefinement` maps this state to `DeliveryContract` of one subscription: a message
that waits or is out is live on its counted attempt, an acknowledged one acked, and one
that the service took out at the cap spent, its dead-letter topic being the service's own
and not a topic this subscription reads. `KeepsContract` says that every step is then one the
contract allows.

`AckedAsAsked` has that exception in it. A message is acknowledged only where a handler
acknowledged or dropped it, and not by a drop of its last attempt, which the policy should
dead-letter, *where the subscriber opened with the policy's cap*. A subscriber that opened
with none acknowledges such a drop and the message is gone, which the code documents
(`broker.rs:184`) and warns of (`broker.rs:209`).

The model fixes this much: the subscription has a policy, so that every delivery reports its
attempt, and the attempt is exact, although the service calls its count approximate. `Cap`
does not change under the subscription; a cap that an operator changed after it was read is a
value of `Learned`, and the proofs hold for any. A stream that shuts may or may not keep
extending what handlers hold, which the code does not decide, so both are allowed.

### Wire

The functions between a message and the wire: `ResolveOrderingKey` (the message's own
settings, then the portable header, then the mount site's policy), `ToGcpMessage`,
`CheckMessage`, `Inject` and, on the way in, `HeadersOf` and `Delivered`. A header map is
a function from names to values; a value that is not UTF-8 and one past a limit are one
value each, and `Refused` stands for the error a publish ends with.

### Handlers, Examples, ManualExamples, Services

`Services` runs a service end to end over the delivery contract: producers publish,
`Begin` hands a copy to a handler, `Publish` sends what it has to send, `Settle` settles
it, `DeadLetter` forwards a spent message; publishes fail or lose their answer
(`PublishFails`), leases run out under a handler (`LoseLease`, `Expire`), settlements are
lost (`LoseSettlement`), the process dies (`Crash`). The transport is `DeliveryContract`,
which `InProcess` implements; what a message carries goes through `Wire`.

The service is a value: its registrations, and for each kind of message what its handler
sends and how it settles on each attempt. `Handlers` has the words such a value is built
from. `Examples` and `ManualExamples` are the apps of `examples/` and `examples/manual/`,
handler by handler, each translated from its own source; `MCServices` assumes that the
two forms of every example are the same service, which TLC evaluates.

### MC modules

`MCInProcess`, `MCLifecycle`, `MCPublishing`, `MCStartup`, `MCPulling` and `MCServices`
hold the instances: registrations, clones, spellings, plans, services and symmetry sets.
`MCPulling` extends `PullingRefinement` so that TLC evaluates what that module assumes.

Definitions commented *Variant* are not part of any specification. Each is a definition
with a plausible mistake, and states what a property would catch: with the variant in
the definition's place TLC finds the property violated. PROJECT.json pairs them.

## Runs

`tlc -config <cfg> <module>` in this directory. The first seven pass; each of the last five
finds the violation of a sentence of the documentation.

| Run | Configuration | Instance | Shows |
|---|---|---|---|
| `rotation` | `MCInProcess_rotation.cfg` | one subscription capped at 2, up to 4 consumers over time, 2 threads (symmetric), 2 publishes | `NoStranding`: nothing waits in a channel outside the rotation. `FirstDeliveriesInOrder`. `ExactlyOnePlace`: no copy lost or doubled. `AttemptsWithinCap`. `InFlightExact`, `ReleasedLast`: the harness's count is exact and falls last. `RoutesAgree`: the harness's prediction and the publish after it name the same consumers |
| `settling` | `MCInProcess_settling.cfg` | a subscription that registrations cap at 1 and at 2, the reader of its dead-letter topic, 2 consumers, 2 threads, 1 publish | `ImplementsContract`. Every message under a policy settles or waits for a consumer (`EventuallySettled`), and the harness's wait ends (`HarnessSettles`) |
| `lifecycle` | `MCLifecycle.cfg` | clones c1 and c2 of one broker, c3 of another, 2 runtimes, a task that publishes through a handle of the first broker, generations that wrap at 4, one await while connecting | `OneConnection`, `RegisteredWhileHeld`, `SlotsAccounted`, `ConnectReturns`. `UsableUntilShutdown`: no publish called after a shutdown goes out, and none is refused before one |
| `publishes` | `MCPublishing_publishes.cfg` | 2 topics under 3 spellings, 1 handle, 1 key, 2 tasks of which one may be dropped, 2 publishes, a shutdown | `OnePublisherPerTopic`, `RightPublisher`, `KeyOrder`, `FlushCovers`, `CallsReturn`, `KeyResumes` |
| `startup` | `MCStartup_startup.cfg` | 2 processes, 1 subscription under 2 spellings, 2 topics, 12 plans, 1 fault, a test build | `LostRaceResolved`, `PolicyInForce`, `CapWasCarried`, `HarnessKnowsAttachment`, `EventuallyServes` |
| `pulling` | `MCPulling.cfg` | 1 message with cap 2, channel and flow control of 2, leases of 2 ticks, delays of 1 to 3, both guarantees, openings that learn the cap or none, 1 fault | `HandedInOrder`, `ConfirmedAckFinal`, `AckedAsAsked`, `DelayHonoured`, `EventuallySettled`, `PumpEnds` |
| `services` | `MCServices.cfg` | every example in both forms, up to 4 registrations, attempts to 5, 3 messages and faults in any mix | `AckedMeansDone`: an ack stands behind everything the handler sends. `KeysKept`: ordered topics carry the keys they promise. `DeadLettersArrive`: a spent message is in its dead-letter topic, once for each subscription, as it was published |
| `abandoned_publish` | `MCPublishing_abandoned.cfg` | 1 key, 2 tasks of which one may be dropped | `NextPublishSent` is violated |
| `late_publish` | `MCPublishing_late_publish.cfg` | 1 topic, 2 tasks, a shutdown | `ShutdownFlushesAll` is violated |
| `two_declarations` | `MCStartup_conflict.cfg` | 1 process, plans whose registrations disagree | `OnePolicyPerSubscription` is violated |
| `early_redelivery` | `MCPulling_early.cfg` | 1 delivery, a lease of 2 ticks, a delay of 2 | `NeverEarly` is violated |
| `two_runtimes` | `MCLifecycle_two_runtimes.cfg` | as `lifecycle` | `DelaysRunWhereConnected` is violated |

Each passing run also checks the type invariant of its module, but for `rotation`, whose
module's is checked by `settling`, and `services`, whose fields are the contract's.

Why the bounds are enough for what the runs ask:

- Two threads are what a race takes. Four consumers open one while one goes, one stays
  and one comes after both. Two publishes have an order. A cap of 2 has an attempt that
  comes back and one that is spent, and `AttemptMax` is one past it, so that a delivery
  too many would show; caps of 1 and 2 on one subscription are a registration that lowers
  and one that raises.
- Two clones of one broker race for its cell, and the third, of another broker, uses a
  slot the first two gave back or one beside theirs. Two runtimes tell a right one from a
  wrong one. Three clones need at most three generations of one slot, which wrap at four.
  One await is a place at which a `connect` can fail or be dropped with others waiting
  for it; the proofs hold for any number. c1 connects on the first runtime, c3 on the second
  and c2 on either: up to the runtimes' names that is every choice but all three on one. One
  task that publishes has every step of a connect, a shutdown and a drop between its own;
  publishes meet each other only behind the check, in `Publishing`.
- Two tasks race a first publish; two spellings of one topic and a second topic are what
  a wrong memo or a second client publisher takes. Two publishes under one key have a
  failure and what is queued behind it.
- Two processes race a create. One fault hits any call of either process with or without
  effect, or crashes one of them. The plans hold owned, bare and read-only
  subscriptions, caps at both ends of 5..100 and past it, missing halves of a policy, an
  empty name, and pairs of registrations.
- One message under a cap of 2 is delivered twice, also while its first delivery is still
  buffered, held or being settled, which is when a redelivery overtakes. Delays of 1 and
  2 fit the lease or what is left of it, 3 is past it. The channel of 2 is full with both
  deliveries and the error after them. The cap a subscriber learned is the policy's or none.
- The attempts of the example services go to 5, the smallest cap the service takes. Three
  events are a message and two faults on its way, or two messages and one fault, or three
  messages. The services are fixed by the source, so nothing else is cut.

Deadlock is not checked where a run ends by itself: consumers, publishes and faults are
bounded, connections are made once, and a system whose messages are settled has
nothing to do. That no call is stuck is what the liveness properties say.

## Fairness

Weak fairness, of what the code's scheduling justifies, and of nothing a user decides
to do:

- `InProcess`: a thread inside a call goes on (the only thing a call waits for is the
  lock, and whoever holds it goes on); an open consumer with something in its channel is
  polled; some handler returns while deliveries are held; some timer fires.
- `Lifecycle`: a call that can go on is polled, and a client that is being built is built
  or refused in the end. Connecting, shutting down and dropping are not fair.
- `Publishing`: a task in a publish goes on; each client publisher works off its queue,
  since its worker is a task of the client; shutdown's steps follow each other.
  Publishes, their failures and dropping them are not fair.
- `Startup`: a process takes its next step or gets its next answer, and whatever
  supervises it restarts it when it failed. Faults are bounded, not fair.
- `Pulling`: the executor polls the pump, the dispatch loop and the shutdown task; time
  passes; the service delivers, lets leases run out and answers requests; a handler does
  something with its delivery; an ended subscription is opened again.

`Services` states no liveness: that a message is settled in the end is the transport's
promise, and shown there.

## Proofs

`InProcessProofs`, `RuntimeSlotsProofs`, `LifecycleProofs`, `PublishingProofs`,
`PullingProofs`, `ServicesProofs`, `StartupProofs` and `WireProofs` hold the proofs; `tlapm` checks each to
its last leaf. They hold for every value of the constants that meets the
named assumptions of the modules: finite sets of subscriptions, threads and
connections, `None` outside every set it is added to and no answer of the service, bounds that are natural numbers.
Each inductive invariant below was checked by TLC before it was proved.

**`InProcessProofs!TypeCorrect`**, `Spec => []TypeOK`. The types are not inductive: a
call's fields depend on where it is (`JobFields`) and the id of a consumer to be opened
must still be free when the lock is taken (`OpensFit`). `TypeInv` is the three together.

**`InProcessProofs!NeverStranded`**, `Spec => []NoStranding`. `StrandInv` adds that the
rotation holds only consumers of the subscription that somebody reads
(`RotationReads`), that a backlog and a rotation never both hold something
(`BacklogAlone`), that ids past `opened` are unopened and that a consumer is cancelled by
one thread (`JobConsumers`). The proof rests on `NthIn`: the position in the order of
the ids that the code indexes with is always that of a member, so `hand` cannot miss.
It shows that `hand` never meets a closed receiver, so the code's branch for a
failed send is never needed to save a message.

**`InProcessProofs!CapHonoured`**, `Spec => []AttemptsWithinCap`. `CapInv` adds that
every live item's subscription exists (`ItemsAttached`) and carries the cap its
registrations agree on from its first opening (`CapCarried`); a rejection then compares
with that cap. Its assumption is in the property: registrations that agree.

**`InProcessProofs!OnePlaceEach`**, `Spec => []ExactlyOnePlace`. The places of a copy are cut
into eight parts, one for each kind of place (`Parts`). `PlaceInv` says that of a published
copy one part has one place and the others none, that a copy not yet published has none
(`AllPlaced`), that only a rejection and a route have a message in their hands
(`JobHolds`), that a backlog holds its own subscription's messages (`BacklogOwn`), that
what is drained is nobody's once the lock is free (`DrainIdle`), and that a subscription
starts within its topic's log (`CreatedBefore`). Every step then leaves the parts of each
copy as they are (`PlacedKept`) or moves one copy from one part to another
(`PlacedMoved`). A message that is handed out goes to one consumer's channel or to the
backlog because a consumer in the rotation reads the subscription it is in the rotation
of, which is `RotationReads` of `StrandInv`.

**`InProcessProofs!CountIsExact`, `CountFallsLast`**, `Spec => []InFlightExact` and
`ReleasedLast`. `CountInv` says what the count is made of: the counted deliveries in the
channels, those that handlers hold and those that a thread settles, each finite, and that
a thread at its release owes one. A step moves one delivery between the three or adds one
and raises the count. That a delivery a consumer takes up was in nobody's hands already,
so that the sum does grow, is `ExactlyOnePlace`.

**`InProcessProofs!RoutesForetold`**, `Spec => RoutesAgree`. `routes` counts on from a
cursor over the sorted ids; a publish indexes the same order. `RankNth` shows that the
index of an id's rank is that id, so both name one consumer.

**`InProcessProofs!FirstsInOrder`**, `AttemptMax > 1 => (Spec => []FirstDeliveriesInOrder)`.
`FirstInv` says of everywhere a message comes from that its first deliveries are in order:
backlogs (`BacklogInOrder`), what a new consumer drains (`DrainInOrder`), and what it has
still to hand on against what the channels hold (`DrainedNext`). A publish goes behind all
of it because every copy in a place is one the log already has. A message that comes back
is no first delivery, if its attempt can go up.

**`InProcessProofs!ContractKept`**, `Spec => ImplementsContract`: the in-process
transport implements `DeliveryContract`. Where a copy is decides its state there
(`StatesRight`): acknowledged, a letter in the dead-letter topic, carried by whatever
holds its item, or waiting, and `CopiesCut` says that a subscription's copies are its
topic's log from where the subscription starts. A copy keeps its state over a step as
soon as what decided it still does after it (`Keeps`, `StateKept`), so each action owes
only the copy it moves, of which there is at most one; a publish adds copies and moves
none. An open that creates the subscription is `Register`; a route is `Publish`, or
`DeadLetter` where it forwards; an acknowledgement is `Acknowledge`; a rejection is
`Redeliver`, or `Spend` at the cap; whatever is left stutters. Beside these it rests on
`TypeInv` and `PlaceInv`.

**`RuntimeSlotsProofs!RuntimeIsOwn`**, `Spec => []OwnRuntimeOnly`. `SlotInv` adds that a
slot's generation is at most the number of connections that are gone, hence never wraps
(`NoWrap`), that freed slots are distinct and empty (`FreeSlots`), and that a live
connection's slot holds its runtime while a gone connection's slot is past its
generation (`SlotsOwned`).

**`PublishingProofs!TypeCorrect`, `OnePublisher`, `PublisherIsRight`**. `ClientInv` says
that the map is exactly the client publishers there are (`MapExact`), that only the
holder of the mutex builds, and only where the map has none (`BuildAlone`), and that
a message was queued on the publisher its task used (`MessageClient`). A second publisher for a
topic would need a builder that did not read the map under the mutex.

**`PublishingProofs!InKeyOrder`**, `Spec => []KeyOrder`. `QueueInv` ties queues, messages
and what the service took together: the publishes in the queues are exactly the messages
that wait for an answer (`QueuedWait`, `WaitingQueued`), each queue in the order they were
published (`QueuedInOrder`), and what the service took of a client publisher under a key
comes before what still waits there under it (`AcceptedAhead`). One publisher per topic
then makes it an order of the topic.

**`PublishingProofs!ShutdownCovers`**, `Spec => []FlushCovers`. A message queued before the
connection closed is on a publisher that the map held when shutdown read it, since its
build was over by then, so it has its answer or its publisher is still to be flushed
(`ToFlush`); and it stands ahead of the flush there (`FlushLast`).

**`PublishingProofs!NextIsSent`**, `NextPublishSent` where no publish future is dropped
(`Abandonable = {}`). Every message that waits then has a task that awaits it (`Awaited`),
and every paused key a resume in its publisher's queue or a task about to put one there
(`PausedResumes`); a publish that no other is under way beside finds no such task, so the
resume, if the key is paused, is ahead of it (`AloneFirst`). The run `abandoned_publish`
shows that one dropped future is enough to break it.

**`RuntimeSlotsProofs!RegistryStaysSmall`**, `Spec => []SlotsAccounted`: `EachUsed`, beside
the same invariant, says that a slot is free or a live connection's, and counting both
gives the property.

**`LifecycleProofs`**. `BrokerUsesRegistry` is `BrokerSpec => Spec`, with the `Spec` of
`RuntimeSlots`: each step of the brokers is a step of the registry or leaves it alone, so
that what is proved of the registry holds of the brokers (`BrokerFindsOwnRuntime`,
`BrokersShareSlots`). The step needs to know that a clone registers once and is let go of
once, which is the rest of `BrokerInv`: the permit is held by exactly the clone that fills
the cell (`PermitHeld`), a connection that was ever made is the one in its broker's cell
(`CellIsIt`), forms speak over what their cell holds (`FormsShareIt`), and a connection is
live exactly while something holds its cell (`HeldIsLive`). `LifecycleTypes`,
`BrokerConnectsOnce`, `RegistrationLasts` follow from it; `PublishersUsable`
(`UsableUntilShutdown`) adds `CallsRight`, which says of a publish at each of its steps what it
read: the cell it found filled still holds that link, and a publish called after a shutdown
found a closed one. It rests on a closed connection staying in its cell
(`ClosedOnce`, `FilledStays`) and on nothing being opened again (`ClosedGrows`).
`DelaysRunWhereMade` says when `DelaysRunWhereConnected`, which
`two_runtimes` refutes, does hold: exactly as long as every form connected where the
connection was made (`ConnectedTogether`).

**`PullingProofs`**. `AcksAreAsked`, `ConfirmedIsFinal`, `HandedAsReceived`,
`DelaysAreHonoured` and `PullTyped` hold for any caps that subscribers may have opened with
(`Learned`), none included. They follow from `PullInv`, which has two halves. *Settling*
says what the place of a delivery tells of what its handler asked for (`PlacesOK`), that
whoever acknowledged a message had been asked to (`AcksAsked`), that an exactly-once
subscription leases a message to one delivery (`OneLease`) and that a kept lease lasts
(`KeptLeased`). *Carrying* says that the channel holds exactly the deliveries at that
place, in their order (`ChannelIs`), that the pump carries one delivery or none
(`PumpIs`), and that no delivery is ahead of an earlier one (`InOrder`). Most steps are of
one of three kinds, and each kind is one lemma: what a delivery becomes follows from what
it was (`ServiceAlone`), deliveries go back together (`BackTogether`), one delivery goes
on to the next place (`OneGoesOn`).

**`PullingProofs!PullingKeepsContract`**, `Spec => KeepsContract`. To the service a step of
anything else is one of four: nothing, a message handed out, one that comes back, one
acknowledged (`StepsOfService`), and each moves at most one message, onward. That a message the
service moved at the cap is never acknowledged after it is `LeasesFit`: what is
leased is a message that is out, or one that a late ack took beside its next lease, and
no message has two leases.

**`StartupProofs`**. `RacesResolve`, `PoliciesInForce`, `CapsWereCarried`,
`AttachmentsKnown` and `StartTyped`, for any number of processes, plans and faults. None
is inductive: each speaks of registrations that are open, or of a startup that failed, and
says nothing of one half-way. `StartInv` says of a process at every call what the calls
before it have put there: what its next call finds unless one failed (`Ready`), what it
will settle against and has recorded (`Settled`), and that both still stand for what is
open (`Past`). They stand because of what the other processes do not do (`Grows`): topics
and subscriptions only come, an attachment stays, `carried` grows, and a policy that is
written is one that some plan asks for. Every step of a process then owes only its own
half (`StepKeeps`), the others' following once (`OthersKept`); a step that refuses and one
that goes on are one lemma each (`RefusalKeeps`, `AdvanceKeeps`). Where
declarations disagree, the last to open wins: `two_declarations` shows it. What the code
does keep of that sentence is `NamesDeclareOnce`: bare names spelled alike that are open in
one process declare the same policy, since the ledger keeps what each declared
(`LedgerStands`).

**`ServicesProofs!AcksAreEarned`, `DeadLettersAreKept`**, for any services, handlers and
topics, not only the examples. Logs only grow and copies keep their places (`Kept`), and a
handler at work has put there everything it counts as sent (`RunOK`), so an ack is either
behind all of it or by a handler that gives up. A copy is dead exactly when its letter is in
the logs, once, and no entry comes from a copy that is not dead (`Letters`, `Origins`).
What is assumed of a service is named (`RegistrationAssumed`, `WorkAssumed`): topics that
exist, and no handler that turns a failed publish into an ack, which none of the crate's
examples does; TLC evaluates both for the examples.

**`ServicesProofs!KeysSurvive`**, `Spec => []KeysKept`. `LogsKeyed` says of every message in
every log that it is about something, that no attribute repeats its key, and that in a topic
that promises keys it has the promised one. A handler's message has the key that its
delivery reported, that its registration's policy set or that its sends name, and what a
delivery reports is what the publish resolved (`WireProofs`). A service promises keys of a
topic by naming the key wherever it sends there, in one of those three places, or by handing
on a key of the same promise, and the two topics of a dead-letter policy promise the same
(`KeysAssumed`); TLC evaluates it for the examples.

**`WireProofs!HeadersArrive`, `KeyHandedOn`**: a delivery reports every header as it was
sent and no other, with the key that the publish resolved, from whichever of the three
places; a message that is published again under the key its delivery reports keeps it.

Only model-checked: liveness, since fairness and ENABLED are out of the prover's reach
(`EventuallySettled` of both transports, `HarnessSettles`, `ConnectReturns`, `CallsReturn`,
`KeyResumes`, `EventuallyServes`, `PumpEnds`). Every safety property that a passing run checks is
proved. `KeepsContract` and `NamesDeclareOnce` are proved and have no run.

## Where the documentation and the code differ

Five runs look for the violation of a sentence of the documentation and find it:

- *A publish dropped at its await* (`abandoned_publish`). The key is resumed by the same
  future that awaits the answer, so a publish under a timeout leaves the key its failure
  pauses paused. Where no future is dropped the sentence holds (`NextIsSent`).
- *A publish that passed its check* (`late_publish`). Shutdown flushes each publisher
  once; a publish between its check and its queueing is buffered after that.
- *Two declarations for one subscription* (`two_declarations`). Only equal bare names are
  compared; the last policy written wins over the first.
- *A delay within `max_lease`* (`early_redelivery`). It is compared with the whole lease,
  of which part is over when a handler runs.
- *Two connects of one broker* (`two_runtimes`). The second form keeps the runtime its own
  `connect` ran on, but the connection in the shared cell has the slot of the first, so
  delayed rejections of its deliveries run there.

Each is false in one case only, and what the code keeps of it is proved: `NextIsSent`,
`ShutdownCovers`, `NamesDeclareOnce`, `DelaysAreHonoured` and `DelaysRunWhereMade`.

Two sentences are looser than the code without a run of their own. The cap a consumer of the
in-process transport settles against is copied when it opens (`project.rs:288`), so a
later registration with another cap does not reach it; `capOf` and `policy` are kept
apart in `InProcess` for that. And the retries guide says of its payments that a dropped
one "is acknowledged and goes nowhere" (docs/guides/retries.md:85), as the code does but
for the last delivery of a capped subscription, which it rejects (`message.rs:302`), as
line 50 of the same guide says.

## What is not modelled

- Batches: the framework's `BufferedSubscriber` assembles them; the crate only names the
  policy. In `Services` a batch is several deliveries in a handler's hands at once.
- The check of resource names and the limits that depend on sizes: `Wire` has one value
  past its limit, whatever the limit is.
- The log that a test reads back with `published()`, the AsyncAPI description, error
  texts, the prelude, the builders' setters and the connection settings (emulator,
  endpoint, credentials), which choose where clients connect.
- Tests, benchmarks, the documentation site and scripts: no logic of the crate.
- The client library and the service beyond what the code relies on: both are external
  and are modelled by how the code uses them. The client's own batching and the retries
  inside one request are not seen.
- A stop of the connect runtime under the in-process transport: a delayed rejection then
  goes with the task that owns it.

## Plan

Written, in this order: `InProcess` with its contract and proofs, `RuntimeSlots`,
`Publishing` with its proofs, `Startup`, `Pulling`; then `Lifecycle` over `RuntimeSlots`,
`Wire`, the example services on `Services`, and the proofs about each of these, about
`Pulling` and about `Startup`.

What is left, in the order of what it would add:

1. `Pulling` over both subscriptions of a dead-letter pair, so that what the service moves
   at the cap is delivered again and the pair implements `DeliveryContract` with a
   dead-letter topic in the log.
2. `Services` over `Pulling` as well as over the contract, for leases and exactly-once
   answers under the examples' handlers.
