------------------------------ MODULE Services ------------------------------
(***************************************************************************)
(* A service on this broker, end to end: producers publish, each           *)
(* subscription's copy of a message is handed to its handler, the handler  *)
(* publishes, its reply goes out, and only then is the delivery settled;   *)
(* what is retried comes back, and what ran out of attempts goes to the    *)
(* dead-letter topic, which another handler of the service may read.       *)
(*                                                                         *)
(* The transport is the delivery contract that InProcess and the live      *)
(* service keep, the conversions are Wire's, and the service itself is a   *)
(* value: its registrations, with what each handler does with each kind    *)
(* of message on each attempt (see Handlers).                              *)
(***************************************************************************)
EXTENDS Wire, Integers, Sequences, FiniteSets

CONSTANTS Service, Topic, Reg, AttemptMax, MaxEvents

\* A handler that fails to send something never acknowledges for that reason,
\* and what it sends goes to a topic that exists.
WorkAssumed(work) ==
    /\ DOMAIN work.sends = 1..Len(work.sends)
    /\ Len(work.sends) \in Nat
    /\ work.settle \in {"ack", "drop", "retry", "retry_after"}
    /\ \A k \in DOMAIN work.sends :
         /\ work.sends[k].to \in Topic
         /\ work.sends[k].orElse \in {"drop", "retry", "retry_after"}

RegistrationAssumed(reg) ==
    /\ reg.topic \in Topic
    /\ reg.policy # None => reg.policy \in [topic : Topic, max : Nat \ {0}]
    /\ \A kind \in DOMAIN reg.body :
         /\ Len(reg.body[kind]) \in Nat \ {0}
         /\ DOMAIN reg.body[kind] = 1..Len(reg.body[kind])
         /\ \A a \in DOMAIN reg.body[kind] : WorkAssumed(reg.body[kind][a])

\* What a message can be about, or a mount site fix, and a publish go under.
IsKey(key) == key \notin {None, NoKey, Binary, Refused}

\* The key that topic t of the service promises for a message of this data.
Promised(s, t, data) == IF s.keys[t] = "own" THEN data.of ELSE s.keys[t]

HandsOn(s, from, to) == from \in DOMAIN s.keys /\ s.keys[from] = s.keys[to]

SourceAssumed(s, from, to, source) ==
    \/ source = "own" /\ s.keys[to] = "own"
    \/ source = "delivered" /\ HandsOn(s, from, to)

\* A handler on topic `from` names the key that the topic it sends to promises
\* in one of the three places, or hands on a key of the same promise.
SendAssumed(s, from, send) ==
    \/ send.to \notin DOMAIN s.keys
    \/ SourceAssumed(s, from, send.to, send.option)
    \/ /\ send.option = "none"
       /\ IF PartitionKey \in DOMAIN send.headers
          THEN SourceAssumed(s, from, send.to, send.headers[PartitionKey])
          ELSE s.keys[send.to] # "own" /\ send.policy = s.keys[send.to]

InputAssumed(s, input) ==
    /\ IsKey(input.data.of)
    /\ input.topic \in DOMAIN s.keys =>
         /\ PartitionKey \in DOMAIN input.headers
         /\ input.headers[PartitionKey] = Promised(s, input.topic, input.data)

KeysAssumed(s) ==
    /\ DOMAIN s.keys \subseteq Topic
    /\ \A t \in DOMAIN s.keys : IsKey(s.keys[t])
    /\ \A input \in s.inputs \cup s.announce : InputAssumed(s, input)
    /\ \A input \in s.announce : Inject(input.data, input.headers) # Refused
    /\ \A r \in DOMAIN s.regs :
         LET reg == s.regs[r]
         IN /\ reg.policy # None /\ reg.policy.topic \in DOMAIN s.keys =>
                 HandsOn(s, reg.topic, reg.policy.topic)
            /\ \A kind \in DOMAIN reg.body : \A a \in DOMAIN reg.body[kind] :
                 \A k \in DOMAIN reg.body[kind][a].sends :
                   SendAssumed(s, reg.topic, reg.body[kind][a].sends[k])

ASSUME ServicesAssumption ==
    /\ AttemptMax \in Nat \ {0}
    /\ None \notin Topic
    /\ None \notin Nat
    /\ \A s \in Service :
         /\ DOMAIN s.regs \subseteq Reg
         /\ \A r \in DOMAIN s.regs : RegistrationAssumed(s.regs[r])
         /\ \A input \in s.inputs \cup s.announce : input.topic \in Topic
         /\ KeysAssumed(s)

VARIABLES
    service,                        \* the service that runs
    topicOf, policy, log, copies,   \* the transport, see DeliveryContract
    runs,                           \* the handlers at work
    lost,                           \* the deliveries whose lease is running out
    starting,                       \* what the start has left to announce
    events                          \* what producers sent and what went wrong

Contract == INSTANCE DeliveryContract WITH Sub <- Reg

transport == <<topicOf, policy, log, copies>>
vars == <<service, transport, runs, lost, starting, events>>

Registered == DOMAIN service.regs

Init ==
    /\ service \in Service
    /\ topicOf = [r \in Reg |-> IF r \in Registered THEN service.regs[r].topic ELSE None]
    /\ policy = [r \in Reg |-> IF r \in Registered THEN service.regs[r].policy ELSE None]
    /\ log = [t \in Topic |-> <<>>]
    /\ copies = [r \in Reg |-> <<>>]
    /\ runs = {}
    /\ lost = {}
    /\ starting = service.announce
    /\ events = 0

\* A message from outside or a fault; MaxEvents bounds them together.
Event ==
    /\ events < MaxEvents
    /\ events' = events + 1

Entry(message, from) == [message |-> message, from |-> from]

\* What sent an entry: a step of the handler of a copy, 0 for its dead letter.
From(r, i, step) == [reg |-> r, copy |-> i, step |-> step]
Outside == From(None, 0, 0)

\* The registrations are there from the start, so a copy has the place of its
\* message in the log of the topic.
MessageOf(r, i) == log[topicOf[r]][i].message

AttemptSeen(r, i) == IF policy[r] = None THEN None ELSE copies[r][i].attempt

-----------------------------------------------------------------------------
(* What a handler sends: the message it built, its ordering key and headers *)
(* named by where they come from.                                           *)

KeyFrom(source, delivered, data) ==
    IF source = "own" THEN data.of
    ELSE IF source = "delivered" /\ PartitionKey \in DOMAIN delivered
    THEN delivered[PartitionKey]
    ELSE None

HeadersFrom(sources, delivered, data) ==
    [n \in {n \in DOMAIN sources : sources[n] = "own" \/ n \in DOMAIN delivered} |->
        IF sources[n] = "own" THEN data.of ELSE delivered[n]]

Sent(send, message, attempt) ==
    LET delivered == Delivered(message, attempt)
    IN Outgoing([kind |-> send.kind, of |-> message.data.of],
                HeadersFrom(send.headers, delivered, message.data),
                KeyFrom(send.option, delivered, message.data),
                send.policy)

-----------------------------------------------------------------------------
(* The handlers *)

\* A message the handler's type does not decode from is dropped.
Undecodable == <<[sends |-> <<>>, settle |-> "drop"]>>

WorksOn(r, kind) ==
    IF kind \in DOMAIN service.regs[r].body THEN service.regs[r].body[kind] ELSE Undecodable

\* What the handler of r does on an attempt; past the last it repeats itself.
Work(r, message, attempt) ==
    LET works == WorksOn(r, message.data.kind)
        a == IF attempt = None THEN 1 ELSE attempt
    IN works[IF a > Len(works) THEN Len(works) ELSE a]

InHand(r) == {run \in runs : run.reg = r}

MayBegin(r, i) ==
    /\ \A run \in InHand(r) : run.copy = i => ~run.leased
    /\ Cardinality(InHand(r)) < service.regs[r].workers
    /\ service.regs[r].byKey =>
         \A run \in InHand(r) : MessageOf(r, run.copy).key # MessageOf(r, i).key

Begin(r, i) ==
    /\ Contract!IsLive(r, i)
    /\ <<r, i>> \notin lost
    /\ MayBegin(r, i)
    /\ LET attempt == AttemptSeen(r, i)
           work == Work(r, MessageOf(r, i), attempt)
       IN runs' = runs \cup
            {[reg |-> r, copy |-> i, attempt |-> attempt, work |-> work,
              sent |-> 0, outcome |-> work.settle, failed |-> FALSE, leased |-> TRUE]}
    /\ UNCHANGED <<service, transport, lost, starting, events>>

Working(run) == ~run.failed /\ run.sent < Len(run.work.sends)

NextSend(run) == run.work.sends[run.sent + 1]
Wired(run) == Sent(NextSend(run), MessageOf(run.reg, run.copy), run.attempt)

Becomes(run, now) == runs' = (runs \ {run}) \cup {now}

Store(run) ==
    /\ Accepted(Wired(run))
    /\ Contract!Fanout(NextSend(run).to,
                       Entry(Wired(run), From(run.reg, run.copy, run.sent + 1)), copies)

Publish(run) ==
    /\ Working(run)
    /\ Store(run)
    /\ Becomes(run, [run EXCEPT !.sent = @ + 1])
    /\ UNCHANGED <<service, topicOf, policy, lost, starting, events>>

\* A failed publish that leaves the handler's outcome as it was.
FailureSwallowed(run) ==
    /\ Working(run)
    /\ Event
    /\ Becomes(run, [run EXCEPT !.failed = TRUE])
    /\ UNCHANGED <<service, transport, lost, starting>>

\* A publish that is refused or fails, or whose answer is lost after the
\* service stored the message, ends the handler with the outcome it keeps for
\* that; a reply that fails is a retry.
PublishFails(run) ==
    /\ Working(run)
    /\ \/ ~Accepted(Wired(run)) /\ UNCHANGED <<log, copies, events>>
       \/ Event /\ (Store(run) \/ UNCHANGED <<log, copies>>)
    /\ Becomes(run, [run EXCEPT !.outcome = NextSend(run).orElse, !.failed = TRUE])
    /\ UNCHANGED <<service, topicOf, policy, lost, starting>>

-----------------------------------------------------------------------------
(* Settlement *)

ComeBack(r, i) == Contract!Redeliver(r, i) \/ Contract!Spend(r, i)

Drop(r, i) ==
    IF Contract!AtCap(r, i) THEN Contract!Spend(r, i) ELSE Contract!Acknowledge(r, i)

Settled(r, i, outcome) ==
    \/ outcome = "ack" /\ Contract!Acknowledge(r, i)
    \/ outcome = "drop" /\ Drop(r, i)
    \/ outcome \in {"retry", "retry_after"} /\ ComeBack(r, i)

\* A delivery whose lease is gone settles nothing.
Settle(run) ==
    /\ ~Working(run)
    /\ runs' = runs \ {run}
    /\ IF run.leased
       THEN Settled(run.reg, run.copy, run.outcome) /\ lost' = lost \ {<<run.reg, run.copy>>}
       ELSE UNCHANGED <<transport, lost>>
    /\ UNCHANGED <<service, starting, events>>

\* The message is published as the last delivery reported it.
DeadLetterAsDelivered(r, i) ==
    /\ copies[r][i].state = "spent"
    /\ LET message == MessageOf(r, i)
           seen == [message EXCEPT !.attributes = Insert(@, DeliveryAttempt, ToString(AttemptMax))]
       IN Contract!Fanout(copies[r][i].to, Entry(seen, From(r, i, 0)),
                          [copies EXCEPT ![r][i] = Contract!Dead])
    /\ UNCHANGED <<service, topicOf, policy, runs, lost, starting, events>>

DeadLetter(r, i) ==
    /\ copies[r][i].state = "spent"
    /\ Contract!Fanout(copies[r][i].to, Entry(MessageOf(r, i), From(r, i, 0)),
                       [copies EXCEPT ![r][i] = Contract!Dead])
    /\ UNCHANGED <<service, topicOf, policy, runs, lost, starting, events>>

-----------------------------------------------------------------------------
(* What goes wrong: leases that run out under a handler, a process that dies *)

LoseLease(run) ==
    /\ run.leased
    /\ Event
    /\ lost' = lost \cup {<<run.reg, run.copy>>}
    /\ UNCHANGED <<service, transport, runs, starting>>

\* An ack or a nack is best effort: one that never reaches the service leaves
\* the delivery to its lease.
LoseSettlement(run) ==
    /\ ~Working(run)
    /\ run.leased
    /\ Event
    /\ runs' = runs \ {run}
    /\ lost' = lost \cup {<<run.reg, run.copy>>}
    /\ UNCHANGED <<service, transport, starting>>

Crash ==
    /\ runs # {} \/ service.announce # {}
    /\ Event
    /\ lost' = lost \cup {<<run.reg, run.copy>> : run \in {run \in runs : run.leased}}
    /\ runs' = {}
    /\ starting' = service.announce
    /\ UNCHANGED <<service, transport>>

Expire(r, i) ==
    /\ <<r, i>> \in lost
    /\ ComeBack(r, i)
    /\ lost' = lost \ {<<r, i>>}
    /\ runs' = {IF run.reg = r /\ run.copy = i THEN [run EXCEPT !.leased = FALSE] ELSE run :
                  run \in runs}
    /\ UNCHANGED <<service, starting, events>>

-----------------------------------------------------------------------------
(* The start, and the producers *)

\* after_startup publishes once the subscriptions are open.
Announce(input) ==
    /\ starting' = starting \ {input}
    /\ Contract!Fanout(input.topic, Entry(Inject(input.data, input.headers), Outside), copies)
    /\ UNCHANGED <<service, topicOf, policy, runs, lost, events>>

Produce(input) ==
    /\ Event
    /\ Accepted(Inject(input.data, input.headers))
    /\ Contract!Fanout(input.topic, Entry(Inject(input.data, input.headers), Outside), copies)
    /\ UNCHANGED <<service, topicOf, policy, runs, lost, starting>>

Next ==
    \/ \E input \in service.inputs : Produce(input)
    \/ \E input \in starting : Announce(input)
    \/ \E r \in Reg : \E i \in DOMAIN copies[r] :
         \/ Begin(r, i)
         \/ DeadLetter(r, i)
         \/ Expire(r, i)
    \/ \E run \in runs :
         \/ Publish(run)
         \/ PublishFails(run)
         \/ Settle(run)
         \/ LoseLease(run)
         \/ LoseSettlement(run)
    \/ Crash

Spec == Init /\ [][Next]_vars

-----------------------------------------------------------------------------
(* Properties *)

Stands(send, r, i, step) ==
    \E k \in DOMAIN log[send.to] :
      LET entry == log[send.to][k]
      IN /\ entry.from = From(r, i, step)
         /\ \E attempt \in 1..AttemptMax \cup {None} :
              entry.message = Sent(send, MessageOf(r, i), attempt)

Done(work, r, i) ==
    /\ work.settle = "ack"
    /\ \A step \in DOMAIN work.sends : Stands(work.sends[step], r, i, step)

GivesUp(work) ==
    \/ work.settle = "drop"
    \/ \E step \in DOMAIN work.sends : work.sends[step].orElse = "drop"

Works(r, i) ==
    LET works == WorksOn(r, MessageOf(r, i).data.kind)
    IN {works[a] : a \in DOMAIN works}

\* A delivery is acknowledged only after everything its handler sends for it
\* stands in its topics, replies included, under the right key and headers, or
\* by a handler that says to drop it: whatever fails, expires or crashes, a
\* retried message is never acknowledged, and no reply is missing behind an ack
\* (the reply is published before the delivery settles).
AckedMeansDone ==
    \A r \in Registered : \A i \in DOMAIN copies[r] :
      copies[r][i].state = "acked" =>
        \E work \in Works(r, i) : Done(work, r, i) \/ GivesUp(work)

\* Every message of a topic that is promised to be ordered carries the key of
\* what it is about, or the key its mount site fixed: through the handlers that
\* name it, the reply transforms that read it off the delivery, the redelivery
\* of a message and its way to the dead-letter topic.
KeysKept ==
    \A t \in DOMAIN service.keys : \A k \in DOMAIN log[t] :
      LET message == log[t][k].message
      IN message.key = Promised(service, t, message.data)

\* A message that ran out of attempts is in the topic its policy names, as it
\* was published: the same data, headers and key, once for each subscription.
DeadLettersArrive ==
    \A r \in Registered : \A i \in DOMAIN copies[r] :
      copies[r][i].state = "dead" =>
        /\ policy[r] # None
        /\ Cardinality({k \in DOMAIN log[policy[r].topic] :
             log[policy[r].topic][k] = Entry(MessageOf(r, i), From(r, i, 0))}) = 1
================================================================================
