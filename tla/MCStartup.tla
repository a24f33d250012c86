------------------------------- MODULE MCStartup -------------------------------
(***************************************************************************)
(* Small instances of Startup for TLC: two processes, one subscription     *)
(* under two spellings, and the registrations worth mounting on it.        *)
(***************************************************************************)
EXTENDS Startup, TLC

CONSTANTS orders, dlq, workers, short, full, p1, p2

Spelled == (short :> workers) @@ (full :> workers)

Declares(n) == [max |-> n, dead |-> dlq]
Infrastructure == {Declares(7)}

Bare(name, d) == [bare |-> TRUE, name |-> name, topic |-> None, declares |-> d]
Reads(d) == [bare |-> FALSE, name |-> short, topic |-> None, declares |-> d]
Owns(d) == [bare |-> FALSE, name |-> short, topic |-> orders, declares |-> d]

\* Replicas of one service, of two releases of it, and of services that share.
Single == {<<Owns(Undeclared)>>, <<Owns(Declares(5))>>, <<Bare(short, Undeclared)>>,
           <<Bare(full, Declares(5))>>, <<Reads(Declares(100))>>}
Refused == {<<Owns(Declares(101))>>, <<Reads([max |-> 5, dead |-> None])>>,
            <<Bare(short, [max |-> None, dead |-> dlq])>>, <<Bare(Empty, Undeclared)>>}
Paired == {<<Owns(Undeclared), Bare(short, Declares(5))>>,
           <<Bare(short, Declares(5)), Bare(short, Undeclared)>>,
           <<Bare(short, Declares(5)), Bare(short, Declares(6))>>}

Plans == Single \cup Refused \cup Paired
Mixed == {<<Owns(Declares(5)), Reads(Declares(6))>>, <<Owns(Declares(5)), Bare(short, Declares(6))>>,
          <<Owns(Declares(5)), Bare(short, Declares(5)), Bare(full, Declares(6))>>}
================================================================================
