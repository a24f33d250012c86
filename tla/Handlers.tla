------------------------------ MODULE Handlers ------------------------------
(***************************************************************************)
(* What a service is made of, as a value that Services runs: the messages  *)
(* a handler sends, what it does with each kind of message on each         *)
(* attempt, and how it is registered.                                      *)
(*                                                                         *)
(* A body is a function from the kinds of messages to sequences of works:  *)
(* what the handler does on the first attempt, the second, and so on, the  *)
(* last one standing for every attempt from there.                         *)
(***************************************************************************)
EXTENDS Wire, Integers, Sequences

\* A message under construction: to a topic, with no headers, under no key.
\* What a handler does when its publish fails is a retry unless it says otherwise.
Outbound(kind, topic) ==
    [kind |-> kind, to |-> topic, headers |-> <<>>, option |-> "none", policy |-> None,
     orElse |-> "retry"]

\* PubSubOrdering::ordering_key at the call, under what the message is about.
OrderingKey(send) == [send EXCEPT !.option = "own"]

\* A transform of the reply that copies the delivery's partition key.
UnderDeliveredKey(send) == [send EXCEPT !.option = "delivered"]

\* PubSubPublish::ordering_key at the mount site.
UnderPolicy(send, key) == [send EXCEPT !.policy = key]

WithHeader(send, name, source) == [send EXCEPT !.headers = Insert(@, name, source)]
OrElse(send, outcome) == [send EXCEPT !.orElse = outcome]

Settles(outcome) == [sends |-> <<>>, settle |-> outcome]
Ack == Settles("ack")
Drop == Settles("drop")
Retry == Settles("retry")
RetryAfter == Settles("retry_after")

\* The message is sent, and then the delivery acknowledged.
Publishes(send) == [sends |-> <<send>>, settle |-> "ack"]

On(kinds, work) == [kind \in kinds |-> <<work>>]

\* A registration of one worker without a dead-letter policy.
Subscriber(subscription, topic, body) ==
    [subscription |-> subscription, topic |-> topic, policy |-> None, workers |-> 1,
     byKey |-> FALSE, body |-> body]

\* A name alone: in process its topic is the one of the same name.
Bare(subscription, body) == Subscriber(subscription, subscription, body)

MaxAttempts(reg, max, dead) == [reg EXCEPT !.policy = [topic |-> dead, max |-> max]]
WorkersByKey(reg, n) == [reg EXCEPT !.workers = n, !.byKey = TRUE]

\* The messages of a batch are in the handler's hands together and settled one
\* by one.
Batch(reg, n) == [reg EXCEPT !.workers = n]

Input(topic, kind, of, headers) ==
    [topic |-> topic, data |-> [kind |-> kind, of |-> of], headers |-> headers]

\* One producer's messages, each kind of them about a.
Feed(topic, kinds) == {Input(topic, kind, "a", <<>>) : kind \in kinds}

\* Messages about a and b, each published under the key of what it is about.
KeyedFeed(topic, kinds) ==
    {Input(topic, kind, of, Insert(<<>>, PartitionKey, of)) : kind \in kinds, of \in {"a", "b"}}

App(regs, inputs) ==
    [regs |-> regs, inputs |-> inputs, announce |-> {}, keys |-> <<>>]
================================================================================
