--------------------------- MODULE DeliveryContract ---------------------------
(***************************************************************************)
(* What a transport promises of every message, whatever consumers, threads *)
(* and timers do in between: at-least-once delivery with a counted cap.    *)
(*                                                                         *)
(* copies[s][i] is what became of the i-th message published to the topic  *)
(* of s after s was created.  A copy is delivered again on the next        *)
(* attempt, acknowledged, or, once its attempts are spent, taken out and   *)
(* published to the dead-letter topic.                                     *)
(***************************************************************************)
EXTENDS Integers, Sequences

CONSTANTS Topic, Sub, AttemptMax, None

VARIABLES topicOf, policy, log, copies

vars == <<topicOf, policy, log, copies>>

Policy == [topic : Topic, max : 1..AttemptMax]

Live(attempt) == [state |-> "live", attempt |-> attempt, to |-> None]
Spent(t) == [state |-> "spent", attempt |-> 0, to |-> t]
Acked == [state |-> "acked", attempt |-> 0, to |-> None]
Dead == [state |-> "dead", attempt |-> 0, to |-> None]

Init ==
    /\ topicOf = [s \in Sub |-> None]
    /\ policy = [s \in Sub |-> None]
    /\ log = [t \in Topic |-> <<>>]
    /\ copies = [s \in Sub |-> <<>>]

\* A registration opens: the subscription exists from now on, its topic never
\* changes, and the policy it declares is the one in force.
Register(s) ==
    /\ \E t \in Topic : topicOf' = [topicOf EXCEPT ![s] = IF @ = None THEN t ELSE @]
    /\ \E p \in Policy \cup {policy[s]} : policy' = [policy EXCEPT ![s] = p]
    /\ UNCHANGED <<log, copies>>

\* An entry of the log, and a fresh copy for every subscription of the topic.
Fanout(t, entry, now) ==
    /\ log' = [log EXCEPT ![t] = Append(@, entry)]
    /\ copies' = [s \in Sub |-> IF topicOf[s] = t THEN Append(now[s], Live(1)) ELSE now[s]]

Publish(t) ==
    /\ Fanout(t, None, copies)
    /\ UNCHANGED <<topicOf, policy>>

Become(s, i, copy) ==
    /\ copies' = [copies EXCEPT ![s][i] = copy]
    /\ UNCHANGED <<topicOf, policy, log>>

IsLive(s, i) == copies[s][i].state = "live"
AtCap(s, i) == policy[s] # None /\ copies[s][i].attempt >= policy[s].max

Acknowledge(s, i) ==
    /\ IsLive(s, i)
    /\ Become(s, i, Acked)

Redeliver(s, i) ==
    /\ IsLive(s, i)
    /\ ~AtCap(s, i)
    /\ LET a == copies[s][i].attempt
       IN Become(s, i, Live(IF a = AttemptMax THEN a ELSE a + 1))

Spend(s, i) ==
    /\ IsLive(s, i)
    /\ AtCap(s, i)
    /\ Become(s, i, Spent(policy[s].topic))

\* `at` is the place of the copy's message in its topic's log.
DeadLetter(s, i, at) ==
    /\ copies[s][i].state = "spent"
    /\ Fanout(copies[s][i].to, [sub |-> s, at |-> at], [copies EXCEPT ![s][i] = Dead])
    /\ UNCHANGED <<topicOf, policy>>

Next ==
    \/ \E t \in Topic : Publish(t)
    \/ \E s \in Sub :
         \/ Register(s)
         \/ \E i \in DOMAIN copies[s] :
              \/ Acknowledge(s, i)
              \/ Redeliver(s, i)
              \/ Spend(s, i)
              \/ DeadLetter(s, i, Len(log[topicOf[s]]) - Len(copies[s]) + i)

Spec == Init /\ [][Next]_vars
================================================================================
