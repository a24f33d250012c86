----------------------------- MODULE MCInProcess -----------------------------
(***************************************************************************)
(* Small instances of InProcess for TLC: the registrations each run mounts.*)
(***************************************************************************)
EXTENDS InProcessRefinement, TLC

CONSTANTS orders, spent, workers, audit, w1, w2

Workers == Permutations(Worker)

Registration(s, t, p) == [sub |-> s, topic |-> t, policy |-> p]
DeadLetterAfter(n, t) == [topic |-> t, max |-> n]

\* One capped subscription.
OneSubscription == {Registration(workers, orders, DeadLetterAfter(2, spent))}

\* Registrations that lower and raise the cap of one subscription, beside the
\* reader of its dead-letter topic.
Recapped ==
    {Registration(workers, orders, DeadLetterAfter(1, spent)),
     Registration(workers, orders, DeadLetterAfter(2, spent)),
     Registration(audit, spent, None)}
==============================================================================
