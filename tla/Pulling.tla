-------------------------------- MODULE Pulling --------------------------------
(***************************************************************************)
(* One subscription read off the service: the pump between the client's    *)
(* stream and the dispatch loop, the subscriber's drop (subscriber.rs),    *)
(* how a delivery is settled or held for a delay (message.rs), and, as the *)
(* code uses them, the client's leases and the service's redelivery.       *)
(*                                                                         *)
(* A delivery is numbered as the client receives it.  Time is in ticks.    *)
(***************************************************************************)
EXTENDS Integers, Sequences, FiniteSets

CONSTANTS
    Message,         \* the messages of the subscription
    Cap,             \* its policy's maxDeliveryAttempts
    Learned,         \* the caps an opening may come back with, None where it has none
    CHANNEL_CAPACITY,
    MaxOutstanding,  \* the client's flow control
    MaxLease,        \* in ticks
    Delay,           \* the delays a handler names, in ticks
    Guarantees,      \* whether the subscription may deliver exactly once: a set of Booleans
    MaxFaults,       \* bound: requests lost, crashes, stops and drops
    None

ASSUME LimitsAssumption ==
    /\ Cap \in Nat \ {0} /\ CHANNEL_CAPACITY \in Nat \ {0} /\ MaxOutstanding \in Nat \ {0}
    /\ MaxLease \in Nat /\ Delay \subseteq Nat \ {0}
    /\ Learned \subseteq Nat \cup {None}
ASSUME BoundAssumption == MaxFaults \in Nat /\ Guarantees \subseteq BOOLEAN
ASSUME MessageAssumption ==
    /\ IsFiniteSet(Message)
    /\ None \notin Message \cup Nat
    /\ None \notin {"ack", "drop", "retry", "later", "ok", "error"}

VARIABLES
    exactlyOnce, \* service: the subscription's guarantee, which stays
    messages,    \* service: where each message is, and how often it was delivered
    leased,      \* service: the deliveries whose lease is not over
    ackedBy,     \* service: the delivery that acknowledged a message
    deliveries,  \* the deliveries so far
    channel,     \* the channel's deliveries, the stream's error after them
    pump,        \* running, sending, failing, ended
    stream,      \* the client's stream: open, failed, shut
    subscriber,  \* PubSubSubscriber: open, dropped
    token,       \* its shutdown token: unset, spawned, signalled
    up,          \* the runtime the broker connected on
    connected,   \* whether the connection's registration of it is alive
    opened,      \* the connection the subscriber reads over, and the cap it settles against
    faults

service == <<exactlyOnce, messages, leased, ackedBy>>
control == <<pump, stream, subscriber, token, up, connected, opened>>
vars == <<service, deliveries, channel, control, faults>>

ReceiveError == 0

Place == {"stream", "pump", "channel", "handler", "held", "acking", "nacking",
          "acked", "nacked", "done"}

\* kept: the client still extends the lease.  asked: what the handler asked for.
\* told: what a settlement answered.  fits: whether a delay fits the lease's rest.
\* over, limit: the connection it came over, and the cap of its subscriber.
Delivery == [message : Message, attempt : Nat \ {0}, place : Place, kept : BOOLEAN,
             age : 0..(MaxLease + 1), due : Nat, fits : BOOLEAN,
             asked : {"ack", "drop", "retry", "later", None}, told : {"ok", "error", None},
             over : Nat, limit : Learned]

Init ==
    /\ exactlyOnce \in Guarantees
    /\ messages = [m \in Message |-> [at |-> "waiting", attempts |-> 0]]
    /\ leased = {}
    /\ ackedBy = [m \in Message |-> None]
    /\ deliveries = <<>>
    /\ channel = <<>>
    /\ pump = "running"
    /\ stream = "open"
    /\ subscriber = "open"
    /\ token = "unset"
    /\ up = TRUE
    /\ connected = TRUE
    /\ opened \in [over : {0}, limit : Learned]
    /\ faults = 0

--------------------------------------------------------------------------------
\* The service and the client's leases

At(place) == {d \in DOMAIN deliveries : deliveries[d].place = place}

Outstanding == {d \in DOMAIN deliveries : deliveries[d].place # "done"}

First(place) == CHOOSE d \in At(place) : \A e \in At(place) : d <= e

\* Deliveries moved to a place; a dropped handle rejects, so it moves to "nacking".
Moved(set, place) ==
    [d \in DOMAIN deliveries |->
        IF d \in set THEN [deliveries[d] EXCEPT !.place = place] ELSE deliveries[d]]

\* A stream that ends may take the leases of what handlers hold with it.
Unkept(set, place) == [d \in DOMAIN deliveries |-> [Moved(set, place)[d] EXCEPT !.kept = FALSE]]

Fault == faults < MaxFaults /\ faults' = faults + 1

Receive(m) ==
    /\ stream = "open" /\ up
    /\ messages[m].at = "waiting"
    /\ Cardinality(Outstanding) < MaxOutstanding
    /\ messages' = [messages EXCEPT ![m] = [at |-> "out", attempts |-> @.attempts + 1]]
    /\ leased' = leased \cup {Len(deliveries) + 1}
    /\ deliveries' = Append(deliveries,
          [message |-> m, attempt |-> messages[m].attempts + 1, place |-> "stream", kept |-> TRUE,
           age |-> 0, due |-> 0, fits |-> FALSE, asked |-> None, told |-> None,
           over |-> opened.over, limit |-> opened.limit])
    /\ UNCHANGED <<exactlyOnce, ackedBy, channel, control, faults>>

\* The service delivers the message again, or moves it once its attempts are spent.
Back(d) ==
    LET m == deliveries[d].message
    IN /\ leased' = leased \ {d}
       /\ messages' = [messages EXCEPT ![m].at =
              IF @ # "out" THEN @ ELSE IF messages[m].attempts >= Cap THEN "dead" ELSE "waiting"]
       /\ UNCHANGED <<exactlyOnce, ackedBy>>

\* A lease runs out: past max_lease, or once nothing extends it.
Expire(d) ==
    /\ d \in leased
    /\ \/ deliveries[d].age > MaxLease
       \/ ~deliveries[d].kept
       \/ deliveries[d].place = "done"
    /\ Back(d)
    /\ UNCHANGED <<deliveries, channel, control, faults>>

\* An ack that arrives in time, and a late one the service may still take.
Acknowledged(d) ==
    LET m == deliveries[d].message
    IN /\ d \in leased \/ (~exactlyOnce /\ messages[m].at \in {"waiting", "out"})
       /\ leased' = leased \ {d}
       /\ messages' = [messages EXCEPT ![m].at = "acked"]
       /\ ackedBy' = [ackedBy EXCEPT ![m] = d]
       /\ UNCHANGED exactlyOnce

Rejected(d) == d \in leased /\ Back(d)

\* The request of a settlement reaches the service, which answers a confirmed one.
Apply(d) ==
    /\ \/ /\ deliveries[d].place = "acking" /\ Acknowledged(d)
          /\ deliveries' = Moved({d}, IF exactlyOnce THEN "acked" ELSE "done")
       \/ /\ deliveries[d].place = "nacking" /\ Rejected(d)
          /\ deliveries' = Moved({d}, IF exactlyOnce THEN "nacked" ELSE "done")
    /\ UNCHANGED <<channel, control, faults>>

Told(d, answer) == deliveries' = [Moved({d}, "done") EXCEPT ![d].told = answer]

Confirm(d) ==
    /\ deliveries[d].place \in {"acked", "nacked"}
    /\ Told(d, "ok")
    /\ UNCHANGED <<service, channel, control, faults>>

\* A request or its answer is lost, or comes after the lease is over, or its client is gone.
Unconfirmed(d) ==
    /\ deliveries[d].place \in {"acking", "nacking", "acked", "nacked"}
    /\ IF (d \in leased /\ deliveries[d].kept) \/ deliveries[d].place \in {"acked", "nacked"}
       THEN Fault ELSE UNCHANGED faults
    /\ Told(d, IF exactlyOnce THEN "error" ELSE deliveries[d].told)
    /\ UNCHANGED <<service, channel, control>>

Tick ==
    /\ \E d \in Outstanding : deliveries[d].age <= MaxLease \/ deliveries[d].due > 0
    /\ deliveries' = [d \in DOMAIN deliveries |->
          IF d \notin Outstanding THEN deliveries[d]
          ELSE [deliveries[d] EXCEPT !.age = IF @ > MaxLease THEN @ ELSE @ + 1,
                                     !.due = IF @ = 0 THEN 0 ELSE @ - 1]]
    /\ UNCHANGED <<service, channel, control, faults>>

--------------------------------------------------------------------------------
\* The pump, and the subscriber that reads its channel

Take ==
    /\ pump = "running" /\ At("stream") # {} /\ up
    /\ pump' = "sending"
    /\ deliveries' = Moved({First("stream")}, "pump")
    /\ UNCHANGED <<service, channel, stream, subscriber, token, up, connected, opened, faults>>

\* Variant: a send the pump does not wait for, which a later one overtakes.
SendOvertaking ==
    /\ pump = "sending" /\ subscriber = "open"
    /\ Len(channel) < CHANNEL_CAPACITY
    /\ channel' = <<First("pump")>> \o channel
    /\ deliveries' = Moved(At("pump"), "channel")
    /\ pump' = "running"
    /\ UNCHANGED <<service, stream, subscriber, token, up, connected, opened, faults>>

Send ==
    /\ pump = "sending" /\ subscriber = "open"
    /\ Len(channel) < CHANNEL_CAPACITY
    /\ channel' = Append(channel, First("pump"))
    /\ deliveries' = Moved(At("pump"), "channel")
    /\ pump' = "running"
    /\ UNCHANGED <<service, stream, subscriber, token, up, connected, opened, faults>>

\* The send fails on a channel nobody reads: the pump ends, and its stream with it.
SendFails ==
    /\ pump = "sending" /\ subscriber = "dropped"
    /\ LET set == At("pump") \cup At("stream")
       IN deliveries' \in {Moved(set, "nacking"), Unkept(set, "nacking")}
    /\ pump' = "ended" /\ stream' = "shut"
    /\ UNCHANGED <<service, channel, subscriber, token, up, connected, opened, faults>>

\* A permanent error of the client comes after the deliveries before it.
StreamFails ==
    /\ stream = "open" /\ up /\ Fault
    /\ stream' = "failed"
    /\ UNCHANGED <<service, deliveries, channel, pump, subscriber, token, up, connected, opened>>

TakeError ==
    /\ pump = "running" /\ up /\ stream = "failed" /\ At("stream") = {}
    /\ pump' = "failing"
    /\ UNCHANGED <<service, deliveries, channel, stream, subscriber, token, up, connected, opened, faults>>

\* Variant: the pump goes on past an error of the stream.
SendErrorOn ==
    /\ pump = "failing"
    /\ \/ /\ subscriber = "open" /\ Len(channel) < CHANNEL_CAPACITY
          /\ channel' = Append(channel, ReceiveError)
       \/ /\ subscriber = "dropped" /\ UNCHANGED channel
    /\ pump' = "running"
    /\ UNCHANGED <<service, deliveries, stream, subscriber, token, up, connected, opened, faults>>

\* Variant: the error goes into a channel without a bound.
SendErrorUnbounded ==
    /\ pump = "failing"
    /\ \/ subscriber = "open" /\ channel' = Append(channel, ReceiveError)
       \/ subscriber = "dropped" /\ UNCHANGED channel
    /\ pump' = "ended"
    /\ UNCHANGED <<service, deliveries, stream, subscriber, token, up, connected, opened, faults>>

SendError ==
    /\ pump = "failing"
    /\ \/ /\ subscriber = "open" /\ Len(channel) < CHANNEL_CAPACITY
          /\ channel' = Append(channel, ReceiveError)
       \/ /\ subscriber = "dropped" /\ UNCHANGED channel
    /\ pump' = "ended"
    /\ UNCHANGED <<service, deliveries, stream, subscriber, token, up, connected, opened, faults>>

\* The stream the token shut ends: what the client buffered goes back.
StreamEnds ==
    /\ pump = "running" /\ up /\ stream = "shut"
    /\ pump' = "ended"
    /\ UNCHANGED <<service, deliveries, channel, stream, subscriber, token, up, connected, opened, faults>>

\* The dispatch loop reads the channel and starts a handler.
Poll ==
    /\ subscriber = "open" /\ channel # <<>>
    /\ channel' = Tail(channel)
    /\ deliveries' = IF Head(channel) = ReceiveError THEN deliveries ELSE Moved({Head(channel)}, "handler")
    /\ UNCHANGED <<service, control, faults>>

\* Variant: dropping the subscriber leaves the stream to the send that fails.
DropUnsignalled ==
    /\ subscriber' = "dropped"
    /\ channel' = <<>>
    /\ deliveries' = Moved(At("channel"), "nacking")
    /\ UNCHANGED token

\* Pull::drop: the shutdown is spawned on the runtime, where that still runs.
Drop ==
    /\ subscriber' = "dropped"
    /\ channel' = <<>>
    /\ deliveries' = Moved(At("channel"), "nacking")
    /\ token' = IF up THEN "spawned" ELSE token

DropSubscriber ==
    /\ subscriber = "open" /\ Fault
    /\ Drop
    /\ UNCHANGED <<service, pump, stream, up, connected, opened>>

\* The stream ended, and the dispatch loop with it.
Finish ==
    /\ subscriber = "open" /\ pump = "ended" /\ channel = <<>>
    /\ Drop
    /\ UNCHANGED <<service, pump, stream, up, connected, opened, faults>>

Signal ==
    /\ token = "spawned" /\ up
    /\ token' = "signalled"
    /\ stream' = "shut"
    /\ deliveries' \in {Moved(At("stream"), "nacking"), Unkept(At("stream"), "nacking")}
    /\ UNCHANGED <<service, channel, pump, subscriber, up, connected, opened, faults>>

--------------------------------------------------------------------------------
\* Settling

\* Variant: the last attempt is the one past the cap.
AtDeliveryCapPast(d) == deliveries[d].limit # None /\ deliveries[d].attempt > deliveries[d].limit

\* PubSubMessage::at_delivery_cap, of the cap the subscriber opened with; the attempt
\* is the one the service reports, as it does under a policy.
at_delivery_cap(d) == deliveries[d].limit # None /\ deliveries[d].attempt >= deliveries[d].limit

\* A handler asks for a settlement, and what is sent answers once it is confirmed.
Asks(d, asked, place, told) ==
    /\ deliveries[d].place = "handler"
    /\ deliveries' = [deliveries EXCEPT ![d].place = place, ![d].asked = asked, ![d].told = told]
    /\ UNCHANGED <<service, channel, control, faults>>

\* Variant: the unconfirmed form whatever the subscription guarantees.
SentUnconfirmed == "ok"

\* The plain form answers at once, the confirmed one when the service does.
Sent == IF exactlyOnce THEN None ELSE "ok"

Ack(d) == Asks(d, "ack", "acking", Sent)

Nack(d) == Asks(d, "retry", "nacking", Sent)

\* nack(requeue = false)
DropMessage(d) == Asks(d, "drop", IF at_delivery_cap(d) THEN "nacking" ELSE "acking", Sent)

\* The handler is dropped with the message, which rejects it.
Forget(d) == Asks(d, None, "nacking", None)

\* Variant: the handle stays with the call, which drops it.
NackAfterUnheld(d, delay) ==
    /\ deliveries[d].place = "handler"
    /\ deliveries' = [deliveries EXCEPT ![d].place = "nacking", ![d].asked = "later", ![d].told = "ok",
                         ![d].due = delay, ![d].fits = deliveries[d].age + delay <= MaxLease]
    /\ UNCHANGED <<service, channel, control, faults>>

\* nack_after: refused past max_lease, dropped where the connection the delivery
\* came over or its runtime is gone, and otherwise held on that runtime.
NackAfter(d, delay) ==
    LET held == delay <= MaxLease /\ up /\ connected /\ deliveries[d].over = opened.over
    IN /\ deliveries[d].place = "handler"
       /\ deliveries' = [deliveries EXCEPT
             ![d].place = IF held THEN "held" ELSE "nacking",
             ![d].asked = "later",
             ![d].told = IF delay > MaxLease THEN "error" ELSE "ok",
             ![d].due = IF held THEN delay ELSE 0,
             ![d].fits = held /\ deliveries[d].age + delay <= MaxLease]
       /\ UNCHANGED <<service, channel, control, faults>>

\* The task of a held delivery rejects it once the delay is over.
Fire(d) ==
    /\ deliveries[d].place = "held" /\ deliveries[d].due = 0 /\ up
    /\ deliveries' = Moved({d}, "nacking")
    /\ UNCHANGED <<service, channel, control, faults>>

--------------------------------------------------------------------------------
\* What ends beneath it

\* The connect runtime stops: its tasks are dropped, and the client's with them.
StopRuntime ==
    /\ up /\ Fault
    /\ up' = FALSE
    /\ deliveries' = Unkept(At("stream") \cup At("pump") \cup At("held"), "done")
    /\ pump' = "ended" /\ stream' = "shut"
    /\ UNCHANGED <<service, channel, subscriber, token, connected, opened>>

\* The connection goes, with its registration of the runtime; deliveries outlive it.
Disconnect ==
    /\ connected /\ Fault
    /\ connected' = FALSE
    /\ UNCHANGED <<service, deliveries, channel, pump, stream, subscriber, token, up, opened>>

\* The subscription opens over connection n, with the cap it declares or learns: none
\* where the service does not let this account read the subscription.
Opens(n) ==
    /\ opened' \in [over : {n}, limit : Learned]
    /\ channel' = <<>>
    /\ pump' = "running" /\ stream' = "open" /\ subscriber' = "open"
    /\ token' = "unset" /\ up' = TRUE /\ connected' = TRUE
    /\ UNCHANGED service

\* The process dies, and is started again.
Crash ==
    /\ Fault
    /\ deliveries' = Moved(Outstanding, "done")
    /\ Opens(opened.over + 1)

\* The subscription is opened again, over a new connection where the last is gone.
Reopen ==
    /\ subscriber = "dropped" /\ pump = "ended"
    /\ Opens(IF up /\ connected THEN opened.over ELSE opened.over + 1)
    /\ UNCHANGED <<deliveries, faults>>

Pump == Take \/ Send \/ SendFails \/ TakeError \/ SendError \/ StreamEnds

Handles(d) ==
    \/ Ack(d) \/ Nack(d) \/ DropMessage(d) \/ Forget(d)
    \/ \E delay \in Delay : NackAfter(d, delay)

Answers(d) == Apply(d) \/ Confirm(d) \/ Unconfirmed(d)

Next ==
    \/ \E m \in Message : Receive(m)
    \/ \E d \in DOMAIN deliveries : Handles(d) \/ Fire(d) \/ Answers(d) \/ Expire(d)
    \/ Tick \/ Pump \/ Poll \/ Signal \/ Finish \/ Reopen
    \/ DropSubscriber \/ StreamFails \/ StopRuntime \/ Disconnect \/ Crash

Spec == Init /\ [][Next]_vars

\* The executor polls what can run, handlers settle, time passes, leases run out,
\* requests are answered, and a subscription that ended is opened again.
Fairness ==
    /\ WF_vars(Pump) /\ WF_vars(Poll) /\ WF_vars(Signal) /\ WF_vars(Finish)
    /\ WF_vars(Tick) /\ WF_vars(Reopen)
    /\ WF_vars(\E m \in Message : Receive(m))
    /\ \A d \in 1..(Cap * Cardinality(Message)) :
        /\ WF_vars(d \in DOMAIN deliveries /\ Handles(d))
        /\ WF_vars(d \in DOMAIN deliveries /\ Fire(d))
        /\ WF_vars(d \in DOMAIN deliveries /\ Answers(d))
        /\ WF_vars(d \in DOMAIN deliveries /\ Expire(d))

FairSpec == Spec /\ Fairness

--------------------------------------------------------------------------------
\* Properties

TypeOK ==
    /\ exactlyOnce \in Guarantees
    /\ \A m \in Message : messages[m].at \in {"waiting", "out", "acked", "dead"}
                         /\ messages[m].attempts \in 0..Cap
    /\ deliveries \in Seq(Delivery)
    /\ leased \subseteq DOMAIN deliveries
    /\ ackedBy \in [Message -> DOMAIN deliveries \cup {None}]
    /\ channel \in Seq(DOMAIN deliveries \cup {ReceiveError}) /\ Len(channel) <= CHANNEL_CAPACITY
    /\ pump \in {"running", "sending", "failing", "ended"}
    /\ stream \in {"open", "failed", "shut"} /\ subscriber \in {"open", "dropped"}
    /\ token \in {"unset", "spawned", "signalled"}
    /\ up \in BOOLEAN /\ connected \in BOOLEAN /\ faults \in 0..MaxFaults
    /\ opened \in [over : Nat, limit : Learned]

\* A message is acknowledged only by a delivery whose handler acknowledged it or
\* dropped it: none is lost to a handler that was dropped, a delay or a subscriber
\* that went.  Nor is one lost to a drop on its last attempt, which the policy should
\* dead-letter (message.rs:302), where the subscriber opened with the policy's cap.
\* Where it opened with none, such a drop acknowledges (broker.rs:184).
AckedAsAsked ==
    \A m \in Message : messages[m].at = "acked" =>
        LET d == deliveries[ackedBy[m]]
        IN d.asked = "ack" \/ (d.asked = "drop" /\ (d.limit = Cap => d.attempt < Cap))

\* Where the subscription delivers exactly once, an ack that answered Ok is the
\* service's (message.rs:54): the message is not delivered again.
ConfirmedAckFinal ==
    exactlyOnce => \A d \in DOMAIN deliveries :
        deliveries[d].asked = "ack" /\ deliveries[d].told = "ok" => ackedBy[deliveries[d].message] = d

\* Handlers start in the order the client received the deliveries, whatever
\* waits on the full channel: what keyed deliveries rely on.
HandedInOrder ==
    \A d, e \in DOMAIN deliveries :
        /\ d < e
        /\ deliveries[d].place \in {"stream", "pump", "channel"}
        => deliveries[e].place \notin {"handler", "held"} /\ deliveries[e].asked = None

\* A message held for a delay that its lease has room for does not come back
\* before the delay is over, as long as its client lives.
DelayHonoured ==
    \A d \in DOMAIN deliveries :
        deliveries[d].fits /\ deliveries[d].kept /\ deliveries[d].due > 0 /\ deliveries[d].place # "done"
            => d \in leased /\ deliveries[d].place = "held"

\* "The refusal keeps the delivery from coming back before the delay is over,
\* from a lease that ran out" (docs/components/subscriptions/max-lease.md:20).
NeverEarly ==
    [][\A d \in DOMAIN deliveries :
        /\ deliveries[d].place = "held" /\ deliveries[d].due > 0
        /\ d \in leased
        => d \in leased']_vars

\* Dropping the subscriber ends its pump, whatever the pump waits for.
PumpEnds == subscriber = "dropped" ~> (pump = "ended" \/ subscriber = "open")

\* Every message is acknowledged or dead-lettered in the end, whatever is lost,
\* stops or crashes on the way.
EventuallySettled == \A m \in Message : <>[](messages[m].at \in {"acked", "dead"})
================================================================================
