----------------------------- MODULE WireProofs -----------------------------
(***************************************************************************)
(* What the two conversions do to every message: headers arrive as they    *)
(* were sent, and the key of a publish is the key of every delivery of it. *)
(***************************************************************************)
EXTENDS Wire, TLAPS

\* What a delivery reports: the attributes, the key under its own name, and
\* the attempt where it is counted.
LEMMA Reported ==
    ASSUME NEW message, NEW attempt, PartitionKey \notin DOMAIN message.attributes
    PROVE  /\ \A n \in DOMAIN message.attributes \ {DeliveryAttempt} :
                /\ n \in DOMAIN Delivered(message, attempt)
                /\ Delivered(message, attempt)[n] = message.attributes[n]
           /\ \A n \in DOMAIN Delivered(message, attempt) \ {PartitionKey, DeliveryAttempt} :
                n \in DOMAIN message.attributes
           /\ PartitionKey \in DOMAIN Delivered(message, attempt) <=> message.key # NoKey
           /\ message.key # NoKey => Delivered(message, attempt)[PartitionKey] = message.key
<1> DEFINE reported == HeadersOf(message)
<1>0. PartitionKey # DeliveryAttempt
  BY DEF PartitionKey, DeliveryAttempt
<1>1. /\ \A n \in DOMAIN message.attributes : n \in DOMAIN reported /\ reported[n] = message.attributes[n]
      /\ \A n \in DOMAIN reported \ {PartitionKey} : n \in DOMAIN message.attributes
      /\ PartitionKey \in DOMAIN reported <=> message.key # NoKey
      /\ message.key # NoKey => reported[PartitionKey] = message.key
  <2>1. CASE message.key = NoKey
    BY <2>1 DEF HeadersOf
  <2>2. CASE message.key # NoKey
    <3>1. reported = Insert(message.attributes, PartitionKey, message.key)
      BY <2>2 DEF HeadersOf
    <3>2. /\ DOMAIN reported = DOMAIN message.attributes \cup {PartitionKey}
          /\ reported[PartitionKey] = message.key
          /\ \A n \in DOMAIN message.attributes \ {PartitionKey} : reported[n] = message.attributes[n]
      BY <3>1 DEF Insert
    <3> HIDE DEF reported
    <3>3. QED
      BY <2>2, <3>2
  <2>3. QED
    BY <2>1, <2>2
<1>2. CASE attempt = None
  <2>1. Delivered(message, attempt) = reported
    BY <1>2 DEF Delivered
  <2>2. QED
    BY <1>1, <2>1
<1>3. CASE attempt # None
  <2> HIDE DEF reported
  <2>1. Delivered(message, attempt) = Insert(reported, DeliveryAttempt, ToString(attempt))
    BY <1>3 DEF Delivered, reported
  <2>2. /\ DOMAIN Delivered(message, attempt) = DOMAIN reported \cup {DeliveryAttempt}
        /\ \A n \in DOMAIN reported \ {DeliveryAttempt} :
             Delivered(message, attempt)[n] = reported[n]
    BY <2>1 DEF Insert
  <2>3. QED
    BY <1>0, <1>1, <2>2
<1>4. QED
  BY <1>2, <1>3

\* A delivery reports every header as it was sent and no other, and the key the
\* publish resolved, whichever of the three places it came from: the key never
\* travels as an attribute, and a header named after it never shadows it
\* (message.rs, publisher.rs).
THEOREM HeadersArrive ==
    ASSUME NEW data, NEW headers, NEW option, NEW policy, NEW attempt,
           Outgoing(data, headers, option, policy) # Refused
    PROVE  LET key == ResolveOrderingKey(headers, option, policy)
               received == Delivered(Outgoing(data, headers, option, policy), attempt)
               Names(h) == DOMAIN h \ {PartitionKey, DeliveryAttempt}
           IN /\ Names(received) = Names(headers)
              /\ \A n \in Names(headers) : received[n] = headers[n]
              /\ PartitionKey \in DOMAIN received <=> key \notin {None, NoKey}
              /\ key \notin {None, NoKey} => received[PartitionKey] = key
<1> DEFINE key == ResolveOrderingKey(headers, option, policy)
           message == Outgoing(data, headers, option, policy)
           received == Delivered(message, attempt)
<1>1. message = [data |-> data,
                 attributes |-> [n \in DOMAIN headers \ {PartitionKey} |-> headers[n]],
                 key |-> IF key = None THEN NoKey ELSE key]
  BY DEF Outgoing, ToGcpMessage, Attributed
<1> HIDE DEF message, key
<1>2. /\ DOMAIN message.attributes = DOMAIN headers \ {PartitionKey}
      /\ \A n \in DOMAIN message.attributes : message.attributes[n] = headers[n]
      /\ message.key = IF key = None THEN NoKey ELSE key
  BY <1>1
<1>3. /\ \A n \in DOMAIN message.attributes \ {DeliveryAttempt} :
           n \in DOMAIN received /\ received[n] = message.attributes[n]
      /\ \A n \in DOMAIN received \ {PartitionKey, DeliveryAttempt} : n \in DOMAIN message.attributes
      /\ PartitionKey \in DOMAIN received <=> message.key # NoKey
      /\ message.key # NoKey => received[PartitionKey] = message.key
  BY <1>2, Reported
<1> HIDE DEF received
<1>4. /\ DOMAIN received \ {PartitionKey, DeliveryAttempt} = DOMAIN headers \ {PartitionKey, DeliveryAttempt}
      /\ \A n \in DOMAIN headers \ {PartitionKey, DeliveryAttempt} : received[n] = headers[n]
      /\ PartitionKey \in DOMAIN received <=> key \notin {None, NoKey}
      /\ key \notin {None, NoKey} => received[PartitionKey] = key
  BY <1>2, <1>3
<1>5. QED
  BY <1>4 DEF received, message, key

\* A service that hands the headers of a delivery on to its own publish, and
\* names no key, publishes under the key of the delivery, on every attempt; the
\* policy of the mount site counts only for a delivery without one.
THEOREM KeyHandedOn ==
    ASSUME NEW message, NEW attempt, NEW policy,
           PartitionKey \notin DOMAIN message.attributes, message.key # Binary
    PROVE  ResolveOrderingKey(Delivered(message, attempt), None, policy) =
             IF message.key = NoKey THEN policy ELSE message.key
BY Reported DEF ResolveOrderingKey, HeaderText
================================================================================
