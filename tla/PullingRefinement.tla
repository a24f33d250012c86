--------------------------- MODULE PullingRefinement ---------------------------
(***************************************************************************)
(* Reading a subscription off the service keeps DeliveryContract: what the *)
(* client, the pump, handlers, confirmations and crashes do in between,    *)
(* and what the service repeats, are ways for a message to be live.  The   *)
(* messages are published when a behaviour begins, and one that the        *)
(* service moves is spent: the dead-letter topic is the service's own.     *)
(***************************************************************************)
EXTENDS Pulling

Subscription == "subscription"
Published == "messages"
DeadLetters == "dead letters"

ASSUME NoPolicyAssumption == None # [topic |-> DeadLetters, max |-> Cap]

\* The messages in the order of the topic, whichever that is.
InSequence(order) ==
    \A m \in Message : \E i \in DOMAIN order :
        order[i] = m /\ \A j \in DOMAIN order : order[j] = m => j = i

Order == CHOOSE order \in [1..Cardinality(Message) -> Message] : InSequence(order)

\* A message that waits is already on its next attempt.
StateOf(m) ==
    CASE messages[m].at = "waiting" ->
            [state |-> "live", attempt |-> messages[m].attempts + 1, to |-> None]
      [] messages[m].at = "out" -> [state |-> "live", attempt |-> messages[m].attempts, to |-> None]
      [] messages[m].at = "acked" -> [state |-> "acked", attempt |-> 0, to |-> None]
      [] messages[m].at = "dead" -> [state |-> "spent", attempt |-> 0, to |-> DeadLetters]

CopiesNow == [s \in {Subscription} |-> [i \in 1..Cardinality(Message) |-> StateOf(Order[i])]]

Contract == INSTANCE DeliveryContract
    WITH Topic <- {Published, DeadLetters}, Sub <- {Subscription}, AttemptMax <- Cap,
         topicOf <- [s \in {Subscription} |-> Published],
         policy <- [s \in {Subscription} |-> [topic |-> DeadLetters, max |-> Cap]],
         log <- [t \in {Published, DeadLetters} |->
                   IF t = Published THEN [i \in 1..Cardinality(Message) |-> None] ELSE <<>>],
         copies <- CopiesNow

\* From the messages' publication on, every step of the live transport is one
\* the contract allows: a message is live on its counted attempt until it is
\* acknowledged or, at the cap, taken out; neither is undone.
KeepsContract ==
    /\ \A i \in DOMAIN CopiesNow[Subscription] : CopiesNow[Subscription][i] = Contract!Live(1)
    /\ [][Contract!Next]_(Contract!vars)
================================================================================
