----------------------------- MODULE MCServices -----------------------------
(***************************************************************************)
(* Every service of the examples, in both of its forms, run on Services.   *)
(***************************************************************************)
EXTENDS Services

Macro == INSTANCE Examples
Manual == INSTANCE ManualExamples

\* The two forms of an example are one service.
ASSUME FormsAgree == Macro!Services = Manual!Services

\* A service with a policy is also fed a message its handler cannot decode.
Garbled(s) ==
    IF s.regs[1].policy = None THEN s
    ELSE [s EXCEPT !.inputs =
            @ \cup {[topic |-> s.regs[1].topic, data |-> [kind |-> "garbled", of |-> "a"],
                     headers |-> <<>>]}]

AllServices == {Garbled(Macro!Services[n]) : n \in DOMAIN Macro!Services}
                 \cup {Garbled(Manual!Services[n]) : n \in DOMAIN Manual!Services}

TopicsOf(s) ==
    LET sends == UNION {UNION {UNION {{reg.body[kind][a].sends[k].to :
                      k \in DOMAIN reg.body[kind][a].sends} :
                    a \in DOMAIN reg.body[kind]} : kind \in DOMAIN reg.body} :
                  reg \in {s.regs[r] : r \in DOMAIN s.regs}}
        spent == {s.regs[r].policy.topic : r \in {r \in DOMAIN s.regs : s.regs[r].policy # None}}
    IN sends \cup spent \cup {s.regs[r].topic : r \in DOMAIN s.regs}
         \cup {input.topic : input \in s.announce}

Topics == UNION {TopicsOf(s) : s \in AllServices}
================================================================================
