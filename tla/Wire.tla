-------------------------------- MODULE Wire --------------------------------
(***************************************************************************)
(* What a message is on the wire, and the mapping in both directions:      *)
(* headers become attributes and back, and the ordering key, which a       *)
(* publish can name in three places, travels as a field of its own.        *)
(*                                                                         *)
(* A HeaderMap is a function from names to values.  Values are strings;    *)
(* Binary stands for a value that is not UTF-8, Oversize for one past the  *)
(* limit of an attribute or a key, and Refused for the error with which    *)
(* such a publish ends.                                                    *)
(***************************************************************************)
EXTENDS TLC

CONSTANTS None, Binary, Oversize, Refused

PartitionKey == "partition-key"
DeliveryAttempt == "pubsub-delivery-attempt"
NoKey == ""

Insert(headers, name, value) ==
    [n \in DOMAIN headers \cup {name} |-> IF n = name THEN value ELSE headers[n]]

HeaderText(value) == IF value = Binary THEN Refused ELSE value

\* The key of one publish: the message's own settings, then the portable
\* header, then what the policy fixed for the mount site.
ResolveOrderingKey(headers, option, policy) ==
    IF option # None THEN option
    ELSE IF PartitionKey \in DOMAIN headers THEN HeaderText(headers[PartitionKey])
    ELSE policy

Attributed(headers) == DOMAIN headers \ {PartitionKey}

ToGcpMessage(data, headers, key) ==
    IF \E n \in Attributed(headers) : HeaderText(headers[n]) = Refused
    THEN Refused
    ELSE [data |-> data,
          attributes |-> [n \in Attributed(headers) |-> headers[n]],
          key |-> IF key = None THEN NoKey ELSE key]

\* What the service holds a message to at publish time; the names it reserves,
\* the number of attributes and the total size are left out.
CheckMessage(message) ==
    /\ \A n \in DOMAIN message.attributes : message.attributes[n] # Oversize
    /\ message.key # Oversize

\* One publish as the publisher sends it.
Outgoing(data, headers, option, policy) ==
    LET key == ResolveOrderingKey(headers, option, policy)
    IN IF key = Refused THEN Refused ELSE ToGcpMessage(data, headers, key)

Accepted(wire) == wire # Refused /\ CheckMessage(wire)

\* A message of a producer outside the service, as a test injects it.
Inject(data, headers) == Outgoing(data, headers, None, None)

\* The key stays behind on the message.
AttributesOnly(message) == message.attributes

HeadersOf(message) ==
    IF message.key = NoKey
    THEN message.attributes
    ELSE Insert(message.attributes, PartitionKey, message.key)

\* The headers a handler sees; the attempt is None where no policy counts it.
Delivered(message, attempt) ==
    IF attempt = None
    THEN HeadersOf(message)
    ELSE Insert(HeadersOf(message), DeliveryAttempt, ToString(attempt))
================================================================================
