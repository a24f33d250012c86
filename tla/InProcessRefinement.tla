-------------------------- MODULE InProcessRefinement --------------------------
(***************************************************************************)
(* The in-process transport implements DeliveryContract: backlogs,         *)
(* channels, handlers, timers, threads and the lock are all ways for a     *)
(* copy to be live.                                                        *)
(***************************************************************************)
EXTENDS InProcess

Attempt(x) == (CHOOSE item \in LiveItems : CopyOf(item) = x).attempt

Carriers(x) == {w \in Worker : job[w].pc = "route" /\ job[w].item # None
                                 /\ CopyOf(job[w].item) = x}

StateOf(x) ==
    CASE x \in acked -> [state |-> "acked", attempt |-> 0, to |-> None]
      [] DeadLettered(x) -> [state |-> "dead", attempt |-> 0, to |-> None]
      [] Carriers(x) # {} ->
            [state |-> "spent", attempt |-> 0, to |-> job[CHOOSE w \in Carriers(x) : TRUE].topic]
      [] OTHER -> [state |-> "live", attempt |-> Attempt(x), to |-> None]

CopiesOf(s) ==
    IF topicOf[s] = None THEN <<>>
    ELSE [i \in 1..(Len(log[topicOf[s]]) - created[s]) |->
            StateOf([sub |-> s, at |-> created[s] + i])]

Contract == INSTANCE DeliveryContract WITH copies <- [s \in Sub |-> CopiesOf(s)]

\* Every behaviour of the transport is one the contract allows: a copy is live
\* on its counted attempt until it is acknowledged or, at the cap in force when
\* it was rejected, published to the dead-letter topic once.
ImplementsContract == Contract!Spec
================================================================================
