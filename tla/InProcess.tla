------------------------------- MODULE InProcess -------------------------------
(***************************************************************************)
(* The in-process transport (in_process/project.rs and settle.rs): one     *)
(* project's subscriptions, the messages each holds, the consumers it      *)
(* hands them to, and how a delivery settles.                              *)
(*                                                                         *)
(* One action is one critical section of Project::state, or one step       *)
(* between two of them.  A Worker is a thread in the middle of a call: its *)
(* job says where in the call it is and what the call carries.  A message  *)
(* is named by where it was published: copy [sub |-> s, at |-> k] is what  *)
(* subscription s got of the k-th entry of the log of its topic.  The log  *)
(* entry of a client's publish is None; that of a dead-lettered message is *)
(* the copy it was.                                                        *)
(***************************************************************************)
EXTENDS Integers, Sequences, FiniteSets

CONSTANTS
    Topic,         \* the topics of the project
    Sub,           \* the subscriptions of the project
    Descriptor,    \* the registrations the service mounts: [sub, topic, policy]
    Worker,        \* the threads that open, publish, settle and drop
    MaxConsumers,  \* bound: how many consumers are ever opened
    MaxPublishes,  \* bound: how many messages clients publish
    AttemptMax,    \* i32::MAX, where the attempt count saturates
    TurnWidth,     \* 2^64, where the rotation's usize wraps
    None           \* no topic, no policy, no item

Policy == [topic : Topic, max : 1..AttemptMax]

ASSUME DescriptorAssumption ==
    /\ AttemptMax \in Nat \ {0}
    /\ Descriptor \subseteq [sub : Sub, topic : Topic, policy : Policy \cup {None}]

ASSUME BoundAssumption ==
    /\ MaxConsumers \in Nat
    /\ MaxPublishes \in Nat
    /\ TurnWidth \in Nat \ {0}

ASSUME FiniteAssumption == IsFiniteSet(Sub) /\ IsFiniteSet(Worker)

ASSUME NoneAssumption ==
    /\ None \notin Topic
    /\ None \notin Sub
    /\ None \notin Worker
    /\ None \notin Policy
    /\ None \notin 0..AttemptMax
    /\ None \notin 1..MaxConsumers
    /\ None \notin Descriptor
    /\ None \notin [sub : Sub, at : Nat \ {0}]
    /\ None \notin [sub : Sub, at : Nat \ {0}, attempt : 1..AttemptMax]

ConsumerId == 1..MaxConsumers

Copy == [sub : Sub, at : Nat \ {0}]

\* Pending, with the subscription that the code passes beside it.
Item == [sub : Sub, at : Nat \ {0}, attempt : 1..AttemptMax]

CopyOf(item) == [sub |-> item.sub, at |-> item.at]

Handed == [item : Item, counted : BOOLEAN]

\* A Settlement that still has its message; cap is limits.max_delivery_attempts.
Delivery == [item : Item, counted : BOOLEAN, reported : BOOLEAN, cap : (1..AttemptMax) \cup {None}]

--------------------------------------------------------------------------------
VARIABLES
    \* The fields of each Subscription; topicOf is None until it exists.
    topicOf, policy, backlog, consumers, turn,
    \* Project: the log, closed, the consumers opened so far, the coordinator.
    log, closed, opened, installed, inflight,
    \* The consumers by id: where each is in its life, its subscription, the cap
    \* its limits carry, its channel.
    phase, subOf, capOf, chan,
    \* The worker that holds the lock across steps, and what Open drained.
    lock, draining,
    \* Deliveries handed to handlers, delayed rejections, and the threads.
    held, timers, job,
    \* History: the log's length when the subscription was created, what was
    \* acknowledged, how many messages clients published.
    created, acked, publishes

subVars == <<topicOf, policy, backlog, consumers, turn>>
consumerVars == <<phase, subOf, capOf>>
lockVars == <<lock, draining>>
countVars == <<installed, inflight>>
historyVars == <<created, acked, publishes>>
vars == <<subVars, consumerVars, lockVars, countVars, historyVars, log, closed, opened,
          chan, held, timers, job>>

--------------------------------------------------------------------------------
PC == {"idle", "open", "drain", "route", "reject", "release", "cancel"}

Job == [pc : PC, item : Item \cup {None}, topic : Topic \cup {None}, counted : BOOLEAN,
        consumer : ConsumerId \cup {None}, desc : Descriptor \cup {None}]

Idle == [pc |-> "idle", item |-> None, topic |-> None, counted |-> FALSE,
         consumer |-> None, desc |-> None]

\* Where a call goes once its message is decided: on to release the delivery
\* the harness counted, back to the loop of Cancel, or out.
Resume(j) == IF j.consumer # None THEN [Idle EXCEPT !.pc = "cancel", !.consumer = j.consumer]
                                  ELSE Idle

\* Variant: the delivery is never released to the harness.
SettledUnreleased(j) == Resume(j)

Settled(j) == IF j.counted THEN [Resume(j) EXCEPT !.pc = "release", !.counted = TRUE]
                           ELSE Resume(j)

Unlocked == lock = None

\* consumers.values().nth(index): BTreeMap iterates in the order of the ids.
Nth(ids, index) == CHOOSE c \in ids : Cardinality({x \in ids : x < c}) = index

\* Variant: the turn is advanced before it is read.
NextConsumerAdvanced(s) == Nth(consumers[s], (turn[s] + 1) % Cardinality(consumers[s]))

\* The consumer whose turn is next.
NextConsumer(s) == Nth(consumers[s], turn[s] % Cardinality(consumers[s]))

\* Subscription::hand for each subscription of DOMAIN given: item given[s] goes
\* to the next consumer in rotation, or to the backlog where none is open or
\* where its receiver is gone.
Hand(given, harness) ==
    LET served == {s \in DOMAIN given : consumers[s] # {}}
        taken == {s \in served : phase[NextConsumer(s)] # "closed"}
    IN /\ turn' = [s \in Sub |-> IF s \in served THEN (turn[s] + 1) % TurnWidth ELSE turn[s]]
       /\ chan' = [c \in ConsumerId |->
                     IF subOf[c] \in taken /\ c = NextConsumer(subOf[c])
                     THEN Append(chan[c], [item |-> given[subOf[c]], counted |-> harness])
                     ELSE chan[c]]
       /\ inflight' = inflight + IF harness THEN Cardinality(taken) ELSE 0
       /\ backlog' = [s \in Sub |-> IF s \in (DOMAIN given) \ taken
                                    THEN Append(backlog[s], given[s]) ELSE backlog[s]]

--------------------------------------------------------------------------------
Init ==
    /\ topicOf = [s \in Sub |-> None]
    /\ policy = [s \in Sub |-> None]
    /\ backlog = [s \in Sub |-> <<>>]
    /\ consumers = [s \in Sub |-> {}]
    /\ turn = [s \in Sub |-> 0]
    /\ log = [t \in Topic |-> <<>>]
    /\ closed = FALSE
    /\ opened = 0
    /\ installed = FALSE
    /\ inflight = 0
    /\ phase = [c \in ConsumerId |-> "unopened"]
    /\ subOf = [c \in ConsumerId |-> None]
    /\ capOf = [c \in ConsumerId |-> None]
    /\ chan = [c \in ConsumerId |-> <<>>]
    /\ lock = None
    /\ draining = <<>>
    /\ held = {}
    /\ timers = {}
    /\ job = [w \in Worker |-> Idle]
    /\ created = [s \in Sub |-> 0]
    /\ acked = {}
    /\ publishes = 0

\* Project::install: a second coordinator is ignored.
Install ==
    /\ ~installed
    /\ installed' = TRUE
    /\ UNCHANGED <<subVars, consumerVars, lockVars, historyVars, inflight, log, closed, opened,
                   chan, held, timers, job>>

\* Project::close.
Close ==
    /\ ~closed
    /\ closed' = TRUE
    /\ UNCHANGED <<subVars, consumerVars, lockVars, countVars, historyVars, log, opened,
                   chan, held, timers, job>>

--------------------------------------------------------------------------------
\* in_process::subscribe: the check that the connection is open, made before
\* the lock is taken, so a close may come in between.
Subscribe(w, d) ==
    /\ job[w].pc = "idle"
    /\ ~closed
    /\ opened + Cardinality({v \in Worker : job[v].pc = "open"}) < MaxConsumers
    /\ job' = [job EXCEPT ![w] = [Idle EXCEPT !.pc = "open", !.desc = d]]
    /\ UNCHANGED <<subVars, consumerVars, lockVars, countVars, historyVars, log, closed, opened,
                   chan, held, timers>>

\* The policy a subscription carries once registration d has opened it: the last
\* one declared, and a registration that declares nothing leaves it.
PolicyAfter(d) == IF d.policy # None THEN d.policy ELSE policy[d.sub]

\* Project::open up to the drained backlog.  The lock stays held while the loop
\* hands the backlog out.
Open(w) ==
    /\ job[w].pc = "open"
    /\ Unlocked
    /\ LET d == job[w].desc
           s == d.sub
           c == opened + 1
           now == PolicyAfter(d)
       IN /\ opened' = c
          /\ topicOf' = [topicOf EXCEPT ![s] = IF @ = None THEN d.topic ELSE @]
          /\ created' = [created EXCEPT ![s] = IF topicOf[s] = None THEN Len(log[d.topic]) ELSE @]
          /\ policy' = [policy EXCEPT ![s] = now]
          /\ consumers' = [consumers EXCEPT ![s] = @ \cup {c}]
          /\ backlog' = [backlog EXCEPT ![s] = <<>>]
          /\ draining' = backlog[s]
          /\ phase' = [phase EXCEPT ![c] = "opening"]
          /\ subOf' = [subOf EXCEPT ![c] = s]
          /\ capOf' = [capOf EXCEPT ![c] = IF now = None THEN None ELSE now.max]
          /\ job' = [job EXCEPT ![w] = [Idle EXCEPT !.pc = "drain", !.consumer = c,
                                                    !.counted = installed]]
          /\ lock' = w
    /\ UNCHANGED <<turn, countVars, acked, publishes, log, closed, chan, held, timers>>

\* Variant: the newest held message is handed out first.
DrainNewest(w) ==
    /\ job[w].pc = "drain"
    /\ draining # <<>>
    /\ LET item == draining[Len(draining)]
       IN Hand([s \in {item.sub} |-> item], job[w].counted)
    /\ draining' = SubSeq(draining, 1, Len(draining) - 1)
    /\ UNCHANGED <<topicOf, policy, consumers, consumerVars, installed, historyVars, log, closed,
                   opened, lock, held, timers, job>>

\* The loop of Project::open over what it drained, with the coordinator it read
\* before the loop.
Drain(w) ==
    /\ job[w].pc = "drain"
    /\ draining # <<>>
    /\ LET item == Head(draining)
       IN Hand([s \in {item.sub} |-> item], job[w].counted)
    /\ draining' = Tail(draining)
    /\ UNCHANGED <<topicOf, policy, consumers, consumerVars, installed, historyVars, log, closed,
                   opened, lock, held, timers, job>>

\* The end of Project::open: the lock is released and the consumer returned.
Opened(w) ==
    /\ job[w].pc = "drain"
    /\ draining = <<>>
    /\ lock' = None
    /\ phase' = [phase EXCEPT ![job[w].consumer] = "open"]
    /\ job' = [job EXCEPT ![w] = Idle]
    /\ UNCHANGED <<subVars, subOf, capOf, countVars, historyVars, log, closed, opened, draining,
                   chan, held, timers>>

--------------------------------------------------------------------------------
\* Project::routes: the positions of `listing`, a sequence of subscriptions, that
\* a publish to topic t reaches, one for each subscription attached to it.
Routes(t, listing) ==
    {i \in DOMAIN listing :
        LET s == listing[i]
            turnOf == IF consumers[s] = {} THEN 0 ELSE turn[s] % Cardinality(consumers[s])
        IN /\ topicOf[s] = t
           /\ Cardinality({j \in DOMAIN listing : j < i /\ listing[j] = s}) = turnOf}

\* Project::publish up to the call of route.
Publish(w, t) ==
    /\ job[w].pc = "idle"
    /\ ~closed
    /\ publishes < MaxPublishes
    /\ publishes' = publishes + 1
    /\ job' = [job EXCEPT ![w] = [Idle EXCEPT !.pc = "route", !.topic = t]]
    /\ UNCHANGED <<subVars, consumerVars, lockVars, countVars, created, acked, log, closed, opened,
                   chan, held, timers>>

\* Project::route: the log entry, and a copy to every subscription attached to
\* the topic, in one critical section.  A client's publish has no item; a
\* dead-lettered message comes from Reject, which let go of the lock.
Route(w) ==
    /\ job[w].pc = "route"
    /\ Unlocked
    /\ LET t == job[w].topic
           item == job[w].item
           at == Len(log[t]) + 1
           attached == {s \in Sub : topicOf[s] = t}
       IN /\ log' = [log EXCEPT ![t] = Append(@, IF item = None THEN None ELSE CopyOf(item))]
          /\ Hand([s \in attached |-> [sub |-> s, at |-> at, attempt |-> 1]], installed)
    /\ job' = [job EXCEPT ![w] = Settled(@)]
    /\ UNCHANGED <<topicOf, policy, consumers, consumerVars, lockVars, installed, historyVars,
                   closed, opened, held, timers>>

--------------------------------------------------------------------------------
\* Consumer::poll_next: the delivery reports its attempt only where the
\* subscription has a policy now, and settles by the consumer's own limits.
Poll(c) ==
    /\ phase[c] = "open"
    /\ chan[c] # <<>>
    /\ Unlocked
    /\ LET handed == Head(chan[c])
       IN held' = held \cup {[item |-> handed.item, counted |-> handed.counted,
                              reported |-> policy[subOf[c]] # None, cap |-> capOf[c]]}
    /\ chan' = [chan EXCEPT ![c] = Tail(@)]
    /\ UNCHANGED <<subVars, consumerVars, lockVars, countVars, historyVars, log, closed, opened,
                   timers, job>>

\* PubSubMessage::at_delivery_cap.
AtDeliveryCap(d) == d.cap # None /\ d.reported /\ d.item.attempt >= d.cap

\* The Settlement goes with its message already taken: what is left of its drop
\* is the release of a delivery the harness counted.
Gone(d) == Settled([Idle EXCEPT !.counted = d.counted])

\* Settlement::ack, and PubSubMessage::nack(false) short of the cap.
Acknowledge(w, d) ==
    /\ job[w].pc = "idle"
    /\ held' = held \ {d}
    /\ acked' = acked \cup {CopyOf(d.item)}
    /\ job' = [job EXCEPT ![w] = Gone(d)]
    /\ UNCHANGED <<subVars, consumerVars, lockVars, countVars, created, publishes, log, closed,
                   opened, chan, timers>>

\* Variant: the delivery is released to the harness before it is rejected.
NackReleasedFirst(w, d) ==
    /\ job[w].pc = "idle"
    /\ held' = held \ {d}
    /\ job' = [job EXCEPT ![w] = [Idle EXCEPT !.pc = "reject", !.item = d.item]]
    /\ inflight' = IF d.counted THEN inflight - 1 ELSE inflight
    /\ UNCHANGED <<subVars, consumerVars, lockVars, installed, historyVars, log, closed, opened,
                   chan, timers>>

\* Settlement::reject, and the drop of a Settlement nobody settled: a handler's
\* nack(true), a delivery it lets go of, a delay beyond the lease.
Nack(w, d) ==
    /\ job[w].pc = "idle"
    /\ held' = held \ {d}
    /\ job' = [job EXCEPT ![w] = [Idle EXCEPT !.pc = "reject", !.item = d.item,
                                              !.counted = d.counted]]
    /\ UNCHANGED <<subVars, consumerVars, lockVars, countVars, historyVars, log, closed, opened,
                   chan, timers>>

\* PubSubMessage::nack(false), what a handler's drop() asks for.
DropMessage(w, d) == IF AtDeliveryCap(d) THEN Nack(w, d) ELSE Acknowledge(w, d)

\* Settlement::reject_after: the rejection waits on a timer, the coordinator's
\* or the runtime's, and the delivery is released now.
RejectAfter(w, d) ==
    /\ job[w].pc = "idle"
    /\ held' = held \ {d}
    /\ timers' = timers \cup {d.item}
    /\ job' = [job EXCEPT ![w] = Gone(d)]
    /\ UNCHANGED <<subVars, consumerVars, lockVars, countVars, historyVars, log, closed, opened,
                   chan>>

\* The delay passes and the timer's task calls Project::reject.
Fire(w, item) ==
    /\ job[w].pc = "idle"
    /\ timers' = timers \ {item}
    /\ job' = [job EXCEPT ![w] = [Idle EXCEPT !.pc = "reject", !.item = item]]
    /\ UNCHANGED <<subVars, consumerVars, lockVars, countVars, historyVars, log, closed, opened,
                   chan, held>>

--------------------------------------------------------------------------------
\* Variants: one delivery too many; a message past the cap is missed.
SpentBeyond(item) == policy[item.sub] # None /\ item.attempt > policy[item.sub].max
SpentExactly(item) == policy[item.sub] # None /\ item.attempt = policy[item.sub].max

\* Whether a rejected item has had every delivery its subscription's policy allows.
Spent(item) == policy[item.sub] # None /\ item.attempt >= policy[item.sub].max

\* Variants: the count goes past i32::MAX; an attempt is counted twice.
NextAttemptUnbounded(item) == [item EXCEPT !.attempt = @ + 1]
NextAttemptTwice(item) == [item EXCEPT !.attempt = IF @ + 2 > AttemptMax THEN AttemptMax ELSE @ + 2]

\* attempt.saturating_add(1)
NextAttempt(item) == [item EXCEPT !.attempt = IF @ = AttemptMax THEN @ ELSE @ + 1]

\* Project::reject: a spent message leaves the lock on its way to the
\* dead-letter topic, any other is handed out again.
Reject(w) ==
    /\ job[w].pc = "reject"
    /\ Unlocked
    /\ LET item == job[w].item
       IN \/ /\ Spent(item)
             /\ job' = [job EXCEPT ![w] = [@ EXCEPT !.pc = "route",
                                                    !.topic = policy[item.sub].topic]]
             /\ UNCHANGED <<backlog, turn, inflight, chan>>
          \/ /\ ~Spent(item)
             /\ Hand([s \in {item.sub} |-> NextAttempt(item)], installed)
             /\ job' = [job EXCEPT ![w] = Settled(@)]
    /\ UNCHANGED <<topicOf, policy, consumers, consumerVars, lockVars, installed, historyVars, log,
                   closed, opened, held, timers>>

\* coordinator.consumed(), the last thing a counted delivery does.
Release(w) ==
    /\ job[w].pc = "release"
    /\ inflight' = inflight - 1
    /\ job' = [job EXCEPT ![w] = Resume(@)]
    /\ UNCHANGED <<subVars, consumerVars, lockVars, installed, historyVars, log, closed, opened,
                   chan, held, timers>>

--------------------------------------------------------------------------------
\* Variant: the consumer stays in the rotation while its channel is emptied.
CancelInRotation(w, c) ==
    /\ job[w].pc = "idle"
    /\ phase[c] = "open"
    /\ Unlocked
    /\ phase' = [phase EXCEPT ![c] = "closing"]
    /\ job' = [job EXCEPT ![w] = [Idle EXCEPT !.pc = "cancel", !.consumer = c]]
    /\ UNCHANGED <<subVars, subOf, capOf, lockVars, countVars, historyVars, log, closed, opened,
                   chan, held, timers>>

\* Consumer::drop: Project::cancel takes the consumer out of the rotation.
Cancel(w, c) ==
    /\ job[w].pc = "idle"
    /\ phase[c] = "open"
    /\ Unlocked
    /\ phase' = [phase EXCEPT ![c] = "closing"]
    /\ consumers' = [consumers EXCEPT ![subOf[c]] = @ \ {c}]
    /\ job' = [job EXCEPT ![w] = [Idle EXCEPT !.pc = "cancel", !.consumer = c]]
    /\ UNCHANGED <<topicOf, policy, backlog, turn, subOf, capOf, lockVars, countVars, historyVars,
                   log, closed, opened, chan, held, timers>>

\* Variant: what the channel holds is rejected as if nobody waited for it.
CancelNextUncounted(w) ==
    /\ job[w].pc = "cancel"
    /\ LET c == job[w].consumer
       IN /\ chan[c] # <<>>
          /\ chan' = [chan EXCEPT ![c] = Tail(@)]
          /\ job' = [job EXCEPT ![w] = [@ EXCEPT !.pc = "reject", !.item = Head(chan[c]).item]]
    /\ UNCHANGED <<subVars, consumerVars, lockVars, countVars, historyVars, log, closed, opened,
                   held, timers>>

\* The loop of Project::cancel: what the channel still holds is rejected, one
\* message at a time.
CancelNext(w) ==
    /\ job[w].pc = "cancel"
    /\ LET c == job[w].consumer
       IN /\ chan[c] # <<>>
          /\ chan' = [chan EXCEPT ![c] = Tail(@)]
          /\ job' = [job EXCEPT ![w] = [@ EXCEPT !.pc = "reject", !.item = Head(chan[c]).item,
                                                 !.counted = Head(chan[c]).counted]]
    /\ UNCHANGED <<subVars, consumerVars, lockVars, countVars, historyVars, log, closed, opened,
                   held, timers>>

\* Variant: the channel is dropped with what it holds.
CancelledUnread(w) ==
    /\ job[w].pc = "cancel"
    /\ LET c == job[w].consumer
       IN /\ chan' = [chan EXCEPT ![c] = <<>>]
          /\ phase' = [phase EXCEPT ![c] = "closed"]
    /\ job' = [job EXCEPT ![w] = Idle]
    /\ UNCHANGED <<subVars, subOf, capOf, lockVars, countVars, historyVars, log, closed, opened,
                   held, timers>>

\* The end of Project::cancel: the receiver goes with the consumer.
Cancelled(w) ==
    /\ job[w].pc = "cancel"
    /\ LET c == job[w].consumer
       IN /\ chan[c] = <<>>
          /\ phase' = [phase EXCEPT ![c] = "closed"]
    /\ job' = [job EXCEPT ![w] = Idle]
    /\ UNCHANGED <<subVars, subOf, capOf, lockVars, countVars, historyVars, log, closed, opened,
                   chan, held, timers>>

--------------------------------------------------------------------------------
\* The steps of a call under way: nothing but the lock can hold them up.
Proceed(w) ==
    \/ Open(w) \/ Drain(w) \/ Opened(w)
    \/ Route(w) \/ Reject(w) \/ Release(w)
    \/ CancelNext(w) \/ Cancelled(w)

\* What a handler does with a delivery of its own accord.
Settle(w, d) == Acknowledge(w, d) \/ Nack(w, d) \/ DropMessage(w, d) \/ RejectAfter(w, d)

Next ==
    \/ Install
    \/ Close
    \/ \E c \in ConsumerId : Poll(c)
    \/ \E w \in Worker :
         \/ Proceed(w)
         \/ \E d \in Descriptor : Subscribe(w, d)
         \/ \E t \in Topic : Publish(w, t)
         \/ \E d \in held : Settle(w, d)
         \/ \E item \in timers : Fire(w, item)
         \/ \E c \in ConsumerId : Cancel(w, c)

Spec == Init /\ [][Next]_vars

--------------------------------------------------------------------------------
\* Types only.
TypeOK ==
    /\ topicOf \in [Sub -> Topic \cup {None}]
    /\ policy \in [Sub -> Policy \cup {None}]
    /\ backlog \in [Sub -> Seq(Item)]
    /\ consumers \in [Sub -> SUBSET ConsumerId]
    /\ turn \in [Sub -> 0..(TurnWidth - 1)]
    /\ log \in [Topic -> Seq(Copy \cup {None})]
    /\ closed \in BOOLEAN
    /\ opened \in Nat
    /\ installed \in BOOLEAN
    /\ inflight \in Int
    /\ phase \in [ConsumerId -> {"unopened", "opening", "open", "closing", "closed"}]
    /\ subOf \in [ConsumerId -> Sub \cup {None}]
    /\ capOf \in [ConsumerId -> (1..AttemptMax) \cup {None}]
    /\ chan \in [ConsumerId -> Seq(Handed)]
    /\ lock \in Worker \cup {None}
    /\ draining \in Seq(Item)
    /\ held \subseteq Delivery
    /\ timers \subseteq Item
    /\ job \in [Worker -> Job]
    /\ created \in [Sub -> Nat]
    /\ acked \subseteq Copy
    /\ publishes \in Nat

\* A subscription holds messages back only while no consumer is open on it
\* (Subscription::backlog), and every consumer in its rotation still reads its
\* channel: no message waits where nothing will ever fetch it.
NoStranding ==
    \A s \in Sub :
        /\ backlog[s] # <<>> => consumers[s] = {}
        /\ \A c \in consumers[s] : subOf[c] = s /\ phase[c] \in {"opening", "open"}

--------------------------------------------------------------------------------
Where(seq, x) == {i \in DOMAIN seq : CopyOf(seq[i]) = x}

\* Everywhere the copy x of a message is: in the transport, with a handler, on
\* a timer, in a thread's hands, or done with.
Places(x) ==
         {<<"backlog", i>> : i \in Where(backlog[x.sub], x)}
    \cup {<<"draining", i>> : i \in Where(draining, x)}
    \cup (UNION {{<<"channel", c, i>> : i \in {j \in DOMAIN chan[c] : CopyOf(chan[c][j].item) = x}}
                : c \in ConsumerId})
    \cup {<<"held", d>> : d \in {e \in held : CopyOf(e.item) = x}}
    \cup {<<"timer", item>> : item \in {i \in timers : CopyOf(i) = x}}
    \cup {<<"job", w>> : w \in {v \in Worker : job[v].item # None /\ CopyOf(job[v].item) = x}}
    \cup {<<"acked", y>> : y \in acked \cap {x}}
    \cup (UNION {{<<"dead", t, i>> : i \in {j \in DOMAIN log[t] : log[t][j] = x}} : t \in Topic})

\* The copies a subscription has got: one of every message published to its
\* topic after it was created (the mod.rs doc of the transport).
Copies == UNION {{[sub |-> s, at |-> k] : k \in created[s] + 1 .. Len(log[topicOf[s]])}
                 : s \in {r \in Sub : topicOf[r] # None}}

\* Every copy is in exactly one place: none is lost by a consumer that goes, a
\* delivery nobody settles or a dead-letter move under way outside the lock,
\* none is delivered twice at once, and one acknowledged or dead-lettered is
\* never handed out again.
ExactlyOnePlace == \A x \in Copies : Cardinality(Places(x)) = 1

--------------------------------------------------------------------------------
\* The reactions the harness counted and must still wait for.
CountedHanded == UNION {{<<c, i>> : i \in {j \in DOMAIN chan[c] : chan[c][j].counted}}
                        : c \in ConsumerId}
CountedHeld == {d \in held : d.counted}
Owes(w) == job[w].counted /\ job[w].pc \in {"reject", "route", "release"}

\* The coordinator's count is exactly the counted deliveries not yet settled,
\* those that a consumer's cancellation takes back included: none is released
\* twice, and none is left for the harness to wait for.
InFlightExact ==
    inflight = Cardinality(CountedHanded) + Cardinality(CountedHeld)
               + Cardinality({w \in Worker : Owes(w)})

\* The count falls only once the thread that lowers it has nothing in its hands,
\* so it never reads zero while a rejection, a redelivery or a dead-letter move
\* that a counted delivery causes is still to come (Settlement::drop: "Rejected
\* before it is released").
ReleasedLast ==
    [][inflight' < inflight => \A w \in Worker : job'[w] # job[w] => job'[w].item = None]_vars

--------------------------------------------------------------------------------
Elements(seq) == {seq[i] : i \in DOMAIN seq}

\* The items that are still to be delivered or settled: in backlogs, in the
\* channels, with handlers, on timers and in the hands of threads.
BacklogItems == UNION {Elements(backlog[s]) : s \in Sub}
ChannelItems(c) == {h.item : h \in Elements(chan[c])}
HandedItems == UNION {ChannelItems(c) : c \in ConsumerId}
HandlerItems == {d.item : d \in held}
ThreadItems == {job[w].item : w \in {v \in Worker : job[v].item # None}}

LiveItems == BacklogItems \cup Elements(draining) \cup HandedItems
             \cup HandlerItems \cup timers \cup ThreadItems

\* A subscription all of whose registrations declare the same cap.
CapIs(s, n) == \A d \in Descriptor : d.sub = s => d.policy # None /\ d.policy.max = n

\* Where the registrations agree on a cap, no message gets more deliveries than
\* it allows, whichever consumers come and go and however it is rejected
\* (DeadLetter::max_attempts: "How many deliveries one message gets").
AttemptsWithinCap ==
    \A item \in LiveItems : \A n \in 1..AttemptMax : CapIs(item.sub, n) => item.attempt <= n

\* Each consumer gets the messages it is the first to be handed in the order
\* they were published ("oldest first" of the backlog, FIFO of the channel).
FirstDeliveriesInOrder ==
    \A c \in ConsumerId : \A i, j \in DOMAIN chan[c] :
        i < j /\ chan[c][i].item.attempt = 1 /\ chan[c][j].item.attempt = 1
        => chan[c][i].item.at < chan[c][j].item.at

--------------------------------------------------------------------------------
\* What a harness lists: the open consumers' subscriptions, in the order they
\* were opened.
OpenConsumers == UNION {consumers[s] : s \in Sub}
Listing == [i \in 1..Cardinality(OpenConsumers) |-> subOf[Nth(OpenConsumers, i - 1)]]

\* What routes() answers before a publish is where the publish goes: the two
\* functions count the turn the same way (the comment on routes).
RoutesAgree ==
    [][\A w \in Worker :
         Route(w) => {c \in ConsumerId : chan'[c] # chan[c]}
                     = {Nth(OpenConsumers, i - 1) : i \in Routes(job[w].topic, Listing)}]_vars

--------------------------------------------------------------------------------
(***************************************************************************)
(* Fairness: a thread inside a call goes on (the calls block on nothing    *)
(* but the lock), an open consumer is polled while it has something, some  *)
(* handler returns while deliveries are held, and a timer fires.           *)
(***************************************************************************)
SettleSome == \E w \in Worker : \E d \in held : Settle(w, d)
FireSome == \E w \in Worker : \E item \in timers : Fire(w, item)

Fairness ==
    /\ \A w \in Worker : WF_vars(Proceed(w))
    /\ \A c \in ConsumerId : WF_vars(Poll(c))
    /\ WF_vars(SettleSome)
    /\ WF_vars(FireSome)

FairSpec == Spec /\ Fairness

DeadLettered(x) == \E t \in Topic : x \in Elements(log[t])
Held(x) == \E item \in Elements(backlog[x.sub]) : CopyOf(item) = x

\* Under a policy no message goes round for ever: every copy is acknowledged or
\* dead-lettered in the end, or waits in the backlog for a consumer to open.
EventuallySettled ==
    \A s \in Sub : \A k \in 1..MaxPublishes :
        LET x == [sub |-> s, at |-> k]
        IN (x \in Copies /\ policy[s] # None) ~> (x \in acked \/ DeadLettered(x) \/ Held(x))

\* Under a policy the harness's wait for quiet always ends.
HarnessSettles == [](\A s \in Sub : topicOf[s] # None => policy[s] # None) => []<>(inflight = 0)
================================================================================
