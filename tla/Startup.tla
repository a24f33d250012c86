-------------------------------- MODULE Startup --------------------------------
(***************************************************************************)
(* Processes that start beside each other, each opening its registrations  *)
(* in turn against one service: the bare names' declarations and the       *)
(* descriptors (subscription.rs), and Core::subscribe with the topology it *)
(* creates, writes and reads (broker.rs).  Every call to the service is a  *)
(* step; one that fails may have taken effect.  Failed processes restart.  *)
(***************************************************************************)
EXTENDS Integers, Sequences, FiniteSets, Functions

CONSTANTS
    Process,      \* the processes that start
    Name,         \* the spellings of subscriptions
    Subscription, \* the subscriptions
    SubOf,        \* subscription_path: the subscription a spelling names
    Topic,        \* the topics
    Plan,         \* the sequences of registrations a process may mount
    Infra,        \* the policies an existing subscription may carry
    Testing,      \* whether the build has the testing feature
    MaxFaults,    \* bound: how many calls fail and processes crash
    Empty,        \* the empty name, of a subscription or a topic
    None

ASSUME SubOfAssumption == SubOf \in [Name -> Subscription] /\ Empty \notin Name
ASSUME BoundAssumption == MaxFaults \in Nat /\ Testing \in BOOLEAN

DELIVERY_ATTEMPTS == 5..100

\* RetryDeclaration: either half may be missing.
Declaration == [max : Nat \cup {None}, dead : Topic \cup {Empty, None}]
Registration == [bare : BOOLEAN, name : Name \cup {Empty}, topic : Topic \cup {Empty, None},
                 declares : Declaration]
Policy == [max : DELIVERY_ATTEMPTS, dead : Topic]

ASSUME NoneAssumption ==
    /\ None \notin Topic \cup Subscription \cup Nat \cup Declaration
    /\ None \notin {"invalid", "conflict", "closed", "admin"}
ASSUME PlanAssumption == Plan \subseteq Seq(Registration) /\ Infra \subseteq Policy
ASSUME MountAssumption == \A mounts \in Plan :
    /\ mounts # <<>>
    /\ \A i \in DOMAIN mounts : mounts[i].bare => mounts[i].topic = None

VARIABLES
    topics,    \* service: the topics there are
    topicOf,   \* service: the topic each subscription is attached to, None where it is missing
    policy,    \* service: the dead-letter policy of each subscription
    plan,      \* what each process mounts
    pc,        \* where it is in its startup
    wanted,    \* the topic it ensures: "own" or "dead_letter"
    state,     \* Resource: whether the subscription it opens was created here
    caps,      \* the cap each registration it has opened settles against
    ledger,    \* DeclaredRetries
    attached,  \* Core::attached
    closed,    \* Core::closed
    faults,    \* how many faults there have been
    hit,       \* history: whether a fault met the process since it started
    why,       \* history: why its startup failed
    carried    \* history: the policies each subscription has carried, None where it carried none

service == <<topics, topicOf, policy, carried>>
local == <<wanted, state, caps, ledger, attached, closed>>
trouble == <<faults, hit, why>>
vars == <<service, plan, pc, local, trouble>>

Step == {"declare", "open", "get_topic", "create_topic", "reget_topic", "get_subscription",
         "create_subscription", "reget_subscription", "write_policy", "attach", "limits",
         "learn", "serving", "failed"}

Undeclared == [max |-> None, dead |-> None]

Init ==
    /\ topics \in SUBSET Topic
    /\ topicOf \in [Subscription -> topics \cup {None}]
    /\ policy \in [Subscription -> Infra \cup {None}]
    /\ \A s \in Subscription : policy[s] # None => topicOf[s] # None
    /\ carried = [s \in Subscription |-> {policy[s]}]
    /\ plan \in [Process -> Plan]
    /\ pc = [p \in Process |-> "declare"]
    /\ wanted = [p \in Process |-> "own"]
    /\ state = [p \in Process |-> "Existing"]
    /\ caps = [p \in Process |-> <<>>]
    /\ ledger = [p \in Process |-> [n \in Name |-> None]]
    /\ attached = [p \in Process |-> [s \in Subscription |-> None]]
    /\ closed = [p \in Process |-> FALSE]
    /\ faults = 0
    /\ hit = [p \in Process |-> FALSE]
    /\ why = [p \in Process |-> None]

--------------------------------------------------------------------------------
\* What opens

Mounting(p) == plan[p][Len(caps[p]) + 1]

\* GooglePubSub::validate.  A count past i32::MAX is refused like any past the range.
ValidUnranged(name, topic, d) ==
    /\ name # Empty
    /\ topic # Empty
    /\ d # Undeclared => None \notin {d.max, d.dead} /\ d.dead # Empty

Valid(name, topic, d) ==
    /\ name # Empty
    /\ topic # Empty
    /\ d # Undeclared => d.max \in DELIVERY_ATTEMPTS /\ d.dead \notin {Empty, None}

\* What the descriptor a registration opens declares: a bare name's comes from the ledger.
Declared(p) ==
    LET r == Mounting(p)
    IN IF ~r.bare THEN r.declares
       ELSE IF ledger[p][r.name] = None THEN Undeclared ELSE ledger[p][r.name]

\* GooglePubSub::dead_letter_policy of a descriptor that is valid.
DeadLetter(p) == IF Declared(p) = Undeclared THEN None ELSE Declared(p)

Opening(p) == SubOf[Mounting(p).name]

Goto(p, step) == pc' = [pc EXCEPT ![p] = step]

\* The startup of the process fails, for a reason of its own or for what a call answered.
Refuse(p, reason) ==
    /\ Goto(p, "failed")
    /\ why' = [why EXCEPT ![p] = reason]

Answered == UNCHANGED trouble

\* A call fails, whatever the service did with it.
Faulty(p) ==
    /\ faults < MaxFaults
    /\ faults' = faults + 1
    /\ hit' = [hit EXCEPT ![p] = TRUE]

Faulted(p) == Faulty(p) /\ UNCHANGED why

--------------------------------------------------------------------------------
\* Declaring

\* DeclaredRetries::take of a declaration that is valid, under its mutex.
Takes(p, n, d) ==
    \/ /\ ledger[p][n] \in {None, d}
       /\ ledger' = [ledger EXCEPT ![p][n] = d]
       /\ Goto(p, "open")
       /\ Answered
    \/ /\ ledger[p][n] \notin {None, d}
       /\ Refuse(p, "conflict")
       /\ UNCHANGED <<ledger, faults, hit>>

\* declare_retry: a descriptor only keeps the declaration.
Declare(p) ==
    LET r == Mounting(p)
    IN /\ pc[p] = "declare"
       /\ \/ /\ ~r.bare
             /\ Goto(p, "open")
             /\ Answered /\ UNCHANGED ledger
          \/ /\ r.bare /\ Valid(r.name, None, r.declares)
             /\ Takes(p, r.name, r.declares)
          \/ /\ r.bare /\ ~Valid(r.name, None, r.declares)
             /\ Refuse(p, "invalid")
             /\ UNCHANGED <<ledger, faults, hit>>
       /\ UNCHANGED <<service, plan, wanted, state, caps, attached, closed>>

\* subscribe_descriptor, up to the first call.
Open(p) ==
    LET r == Mounting(p)
    IN /\ pc[p] = "open"
       /\ state' = [state EXCEPT ![p] = "Existing"]
       /\ wanted' = [wanted EXCEPT ![p] = "own"]
       /\ \/ /\ ~Valid(r.name, r.topic, Declared(p))
             /\ Refuse(p, "invalid") /\ UNCHANGED <<faults, hit>>
          \/ /\ Valid(r.name, r.topic, Declared(p)) /\ closed[p]
             /\ Refuse(p, "closed") /\ UNCHANGED <<faults, hit>>
          \/ /\ Valid(r.name, r.topic, Declared(p)) /\ ~closed[p]
             /\ Goto(p, IF r.topic # None THEN "get_topic"
                        ELSE IF DeadLetter(p) # None THEN "write_policy" ELSE "attach")
             /\ Answered
       /\ UNCHANGED <<service, plan, caps, ledger, attached, closed>>

--------------------------------------------------------------------------------
\* ensure_topic: get, create, and get again where the create failed

Wanted(p) == IF wanted[p] = "own" THEN Mounting(p).topic ELSE DeadLetter(p).dead

\* Variant: the dead-letter topic is left to the operator.
HaveOwnTopic(p) ==
    /\ Goto(p, "get_subscription")
    /\ UNCHANGED wanted

\* The topic is there; the dead-letter topic is the next.
HaveTopic(p) ==
    IF wanted[p] = "own" /\ DeadLetter(p) # None
    THEN Goto(p, "get_topic") /\ wanted' = [wanted EXCEPT ![p] = "dead_letter"]
    ELSE Goto(p, "get_subscription") /\ UNCHANGED wanted

TopicStep == UNCHANGED <<topicOf, policy, carried, plan, state, caps, ledger, attached, closed>>

GetTopic(p) ==
    /\ pc[p] = "get_topic"
    /\ \/ Wanted(p) \in topics /\ HaveTopic(p) /\ Answered
       \/ Wanted(p) \notin topics /\ Goto(p, "create_topic") /\ Answered /\ UNCHANGED wanted
       \/ Faulted(p) /\ Goto(p, "create_topic") /\ UNCHANGED wanted
    /\ TopicStep /\ UNCHANGED topics

CreateTopic(p) ==
    /\ pc[p] = "create_topic"
    /\ \/ /\ Wanted(p) \notin topics
          /\ topics' = topics \cup {Wanted(p)}
          /\ HaveTopic(p) /\ Answered
       \/ /\ Wanted(p) \in topics
          /\ Goto(p, "reget_topic") /\ Answered /\ UNCHANGED <<topics, wanted>>
       \/ /\ Faulted(p)
          /\ topics' \in {topics, topics \cup {Wanted(p)}}
          /\ Goto(p, "reget_topic") /\ UNCHANGED wanted
    /\ TopicStep

\* Variant: a create that failed fails the startup.
RegetNoTopic(p) ==
    /\ pc[p] = "reget_topic"
    /\ Refuse(p, "admin") /\ UNCHANGED <<faults, hit>>
    /\ TopicStep /\ UNCHANGED <<topics, wanted>>

RegetTopic(p) ==
    /\ pc[p] = "reget_topic"
    /\ \/ Wanted(p) \in topics /\ HaveTopic(p) /\ Answered
       \/ /\ Wanted(p) \notin topics
          /\ Refuse(p, "admin") /\ UNCHANGED <<wanted, faults, hit>>
       \/ Faulty(p) /\ Refuse(p, "admin") /\ UNCHANGED wanted
    /\ TopicStep /\ UNCHANGED topics

--------------------------------------------------------------------------------
\* ensure_subscription, and the policy of one that was there

Exists(s) == topicOf[s] # None

\* The descriptor's policy is written where the create did not carry it.
HaveSubscription(p, resource) ==
    /\ state' = [state EXCEPT ![p] = resource]
    /\ Goto(p, IF DeadLetter(p) # None /\ resource = "Existing" THEN "write_policy" ELSE "attach")

\* The service refuses a policy whose topic is missing.
Writable(p) == DeadLetter(p) # None => DeadLetter(p).dead \in topics

Carry(s, new) ==
    /\ policy' = [policy EXCEPT ![s] = new]
    /\ carried' = [carried EXCEPT ![s] = @ \cup {new}]

SubscriptionStep == UNCHANGED <<topics, plan, wanted, caps, ledger, attached, closed>>

GetSubscription(p) ==
    /\ pc[p] = "get_subscription"
    /\ \/ Exists(Opening(p)) /\ HaveSubscription(p, "Existing") /\ Answered
       \/ ~Exists(Opening(p)) /\ Goto(p, "create_subscription") /\ Answered /\ UNCHANGED state
       \/ Faulted(p) /\ Goto(p, "create_subscription") /\ UNCHANGED state
    /\ SubscriptionStep /\ UNCHANGED <<topicOf, policy, carried>>

Creatable(p) ==
    /\ ~Exists(Opening(p))
    /\ Mounting(p).topic \in topics
    /\ Writable(p)

Created(p) ==
    /\ Creatable(p)
    /\ topicOf' = [topicOf EXCEPT ![Opening(p)] = Mounting(p).topic]
    /\ Carry(Opening(p), DeadLetter(p))

CreateSubscription(p) ==
    /\ pc[p] = "create_subscription"
    /\ \/ Created(p) /\ HaveSubscription(p, "Created") /\ Answered
       \/ /\ ~Creatable(p) /\ Answered
          /\ Goto(p, "reget_subscription") /\ UNCHANGED <<topicOf, policy, carried, state>>
       \/ /\ Faulted(p)
          /\ Created(p) \/ UNCHANGED <<topicOf, policy, carried>>
          /\ Goto(p, "reget_subscription") /\ UNCHANGED state
    /\ SubscriptionStep

\* Variant: a lost race counts as a create.
RegetAsCreated(p) ==
    /\ pc[p] = "reget_subscription"
    /\ \/ Exists(Opening(p)) /\ HaveSubscription(p, "Created") /\ Answered
       \/ /\ ~Exists(Opening(p))
          /\ Refuse(p, "admin") /\ UNCHANGED <<state, faults, hit>>
       \/ Faulty(p) /\ Refuse(p, "admin") /\ UNCHANGED state
    /\ SubscriptionStep /\ UNCHANGED <<topicOf, policy, carried>>

RegetSubscription(p) ==
    /\ pc[p] = "reget_subscription"
    /\ \/ Exists(Opening(p)) /\ HaveSubscription(p, "Existing") /\ Answered
       \/ /\ ~Exists(Opening(p))
          /\ Refuse(p, "admin") /\ UNCHANGED <<state, faults, hit>>
       \/ Faulty(p) /\ Refuse(p, "admin") /\ UNCHANGED state
    /\ SubscriptionStep /\ UNCHANGED <<topicOf, policy, carried>>

\* set_dead_letter_policy
WritePolicy(p) ==
    /\ pc[p] = "write_policy"
    /\ \/ /\ Exists(Opening(p)) /\ Writable(p)
          /\ Carry(Opening(p), DeadLetter(p))
          /\ Goto(p, "attach") /\ Answered
       \/ /\ ~(Exists(Opening(p)) /\ Writable(p))
          /\ Refuse(p, "admin") /\ UNCHANGED <<policy, carried, faults, hit>>
       \/ /\ Faulty(p)
          /\ \/ Exists(Opening(p)) /\ Writable(p) /\ Carry(Opening(p), DeadLetter(p))
             \/ UNCHANGED <<policy, carried>>
          /\ Refuse(p, "admin")
    /\ SubscriptionStep /\ UNCHANGED <<topicOf, state>>

--------------------------------------------------------------------------------
\* What a test build records, the cap, and the stream

Attached(p, t) == attached' = [attached EXCEPT ![p][Opening(p)] = t]

\* Variant: a lookup that fails leaves no record.
AttachQuietly(p) ==
    /\ pc[p] = "attach"
    /\ Goto(p, "limits")
    /\ \/ Testing /\ Exists(Opening(p)) /\ Attached(p, topicOf[Opening(p)]) /\ Answered
       \/ (~Testing \/ ~Exists(Opening(p))) /\ Answered /\ UNCHANGED attached
       \/ Testing /\ Faulted(p) /\ UNCHANGED attached
    /\ UNCHANGED <<service, plan, wanted, state, caps, ledger, closed>>

\* learn_attachment: where the service does not answer, the descriptor's own topic stands in.
Attach(p) ==
    /\ pc[p] = "attach"
    /\ \/ /\ Testing => ~Exists(Opening(p))
          /\ Goto(p, "limits") /\ Answered /\ UNCHANGED attached
       \/ /\ Testing /\ Exists(Opening(p))
          /\ Attached(p, topicOf[Opening(p)])
          /\ Goto(p, "limits") /\ Answered
       \/ /\ Testing /\ Mounting(p).topic # None /\ Faulted(p)
          /\ Attached(p, Mounting(p).topic)
          /\ Goto(p, "limits")
       \/ /\ Testing /\ Mounting(p).topic = None /\ Faulty(p)
          /\ Refuse(p, "admin") /\ UNCHANGED attached
    /\ UNCHANGED <<service, plan, wanted, state, caps, ledger, closed>>

\* PubSubSubscriber::open: the pull starts, and the next registration is mounted.
Opened(p, cap) ==
    /\ caps' = [caps EXCEPT ![p] = Append(@, cap)]
    /\ Goto(p, IF Len(caps[p]) + 1 = Len(plan[p]) THEN "serving" ELSE "declare")

Limits(p) ==
    /\ pc[p] = "limits"
    /\ \/ /\ DeadLetter(p) # None
          /\ Opened(p, DeadLetter(p).max)
       \/ /\ DeadLetter(p) = None /\ state[p] = "Created"
          /\ Opened(p, None)
       \/ /\ DeadLetter(p) = None /\ state[p] = "Existing"
          /\ Goto(p, "learn") /\ UNCHANGED caps
    /\ UNCHANGED <<service, plan, wanted, state, ledger, attached, closed, trouble>>

\* Variant: a lookup that fails leaves the declared cap, and so does one that succeeds.
LearnNothing(p) ==
    /\ pc[p] = "learn"
    /\ Opened(p, None)
    /\ UNCHANGED <<service, plan, wanted, state, ledger, attached, closed, trouble>>

\* learn_delivery_cap.  A 403 reports no cap, and so does a subscription that is not there.
Learn(p) ==
    LET s == Opening(p)
    IN /\ pc[p] = "learn"
       /\ \/ Opened(p, IF policy[s] = None THEN None ELSE policy[s].max) /\ Answered
          \/ Faulted(p) /\ Opened(p, None)
          \/ Faulty(p) /\ Refuse(p, "admin") /\ UNCHANGED caps
       /\ UNCHANGED <<service, plan, wanted, state, ledger, attached, closed>>

--------------------------------------------------------------------------------
\* Another handle of the connection shuts it down.
Shutdown(p) ==
    /\ ~closed[p] /\ pc[p] # "failed"
    /\ Faulted(p)
    /\ closed' = [closed EXCEPT ![p] = TRUE]
    /\ UNCHANGED <<service, plan, pc, wanted, state, caps, ledger, attached>>

\* A process that failed or crashed starts over, with nothing but its plan.
Anew(p) ==
    /\ Goto(p, "declare")
    /\ wanted' = [wanted EXCEPT ![p] = "own"]
    /\ state' = [state EXCEPT ![p] = "Existing"]
    /\ caps' = [caps EXCEPT ![p] = <<>>]
    /\ ledger' = [ledger EXCEPT ![p] = [n \in Name |-> None]]
    /\ attached' = [attached EXCEPT ![p] = [s \in Subscription |-> None]]
    /\ closed' = [closed EXCEPT ![p] = FALSE]
    /\ hit' = [hit EXCEPT ![p] = FALSE]
    /\ why' = [why EXCEPT ![p] = None]
    /\ UNCHANGED <<service, plan>>

Restart(p) == pc[p] = "failed" /\ Anew(p) /\ UNCHANGED faults

Crash(p) == pc[p] # "failed" /\ faults < MaxFaults /\ Anew(p) /\ faults' = faults + 1

\* The steps the process takes of itself; a call is answered in the end.
Proceed(p) ==
    \/ Declare(p) \/ Open(p)
    \/ GetTopic(p) \/ CreateTopic(p) \/ RegetTopic(p)
    \/ GetSubscription(p) \/ CreateSubscription(p) \/ RegetSubscription(p)
    \/ WritePolicy(p) \/ Attach(p) \/ Limits(p) \/ Learn(p)

Next == \E p \in Process : Proceed(p) \/ Shutdown(p) \/ Restart(p) \/ Crash(p)

\* The executor runs the startup and whatever supervises the process restarts it.
Fairness == \A p \in Process : WF_vars(Proceed(p)) /\ WF_vars(Restart(p))

Spec == Init /\ [][Next]_vars
FairSpec == Spec /\ Fairness

--------------------------------------------------------------------------------
\* Properties

\* The types, and the policies: whole, and within what the service accepts.
TypeOK ==
    /\ topics \subseteq Topic
    /\ topicOf \in [Subscription -> Topic \cup {None}]
    /\ policy \in [Subscription -> Policy \cup {None}]
    /\ carried \in [Subscription -> SUBSET (Policy \cup {None})]
    /\ plan \in [Process -> Plan]
    /\ pc \in [Process -> Step]
    /\ wanted \in [Process -> {"own", "dead_letter"}]
    /\ state \in [Process -> {"Existing", "Created"}]
    /\ \A p \in Process : caps[p] \in Seq(DELIVERY_ATTEMPTS \cup {None}) /\ Len(caps[p]) <= Len(plan[p])
    /\ ledger \in [Process -> [Name -> Declaration \cup {None}]]
    /\ attached \in [Process -> [Subscription -> Topic \cup {None}]]
    /\ closed \in [Process -> BOOLEAN] /\ hit \in [Process -> BOOLEAN]
    /\ faults \in 0..MaxFaults
    /\ why \in [Process -> {"invalid", "conflict", "closed", "admin", None}]

OpenedMounts(p) == {plan[p][i] : i \in 1..Len(caps[p])}

\* Processes that create the same topology beside each other do not fail each
\* other: a call of a descriptor that owns its topology fails the startup only
\* where the service failed the process (the re-get of broker.rs:316-317).
LostRaceResolved ==
    \A p \in Process : why[p] = "admin" /\ Mounting(p).topic # None => hit[p]

\* What the plans ask to be written onto a subscription.
Asked(s) == {m.declares : m \in {x \in UNION {Range(plan[p]) : p \in Process} :
                x.name \in Name /\ SubOf[x.name] = s /\ x.declares # Undeclared}}

\* Where every registration that declares a policy for a subscription declares
\* the same one, the subscription carries it once one of them is open, whoever
\* created the subscription and whatever it carried before.
PolicyInForce ==
    \A p \in Process : \A m \in OpenedMounts(p) :
        Asked(SubOf[m.name]) = {m.declares} => policy[SubOf[m.name]] = m.declares

CapOf(carriedPolicy) == IF carriedPolicy = None THEN None ELSE carriedPolicy.max

\* The cap a subscriber settles against is one its subscription carried, unless
\* the service would not say: no drop is acknowledged on an attempt that the
\* policy in force all along would have dead-lettered (message.rs:302).
CapWasCarried ==
    \A p \in Process : \A i \in DOMAIN caps[p] :
        \/ caps[p][i] \in {CapOf(q) : q \in carried[SubOf[plan[p][i].name]]}
        \/ caps[p][i] = None /\ hit[p]

\* A test build knows the topic of every subscription it owns, and knows it
\* right unless the service would not say: else the harness would not wait for
\* the subscription, and a test would settle before its handler ran.
HarnessKnowsAttachment ==
    Testing => \A p \in Process : \A m \in OpenedMounts(p) :
        LET s == SubOf[m.name]
        IN m.topic # None => /\ attached[p][s] # None
                             /\ attached[p][s] = topicOf[s] \/ hit[p]

\* Every registration of the process can open without an operator: descriptors
\* that own what they declare, and bare names that declare nothing.
SelfContained(p) ==
    \A m \in Range(plan[p]) :
        /\ Valid(m.name, m.topic, m.declares)
        /\ m.topic = None => m.bare /\ m.declares = Undeclared

\* Such a process ends up serving, whatever failed, crashed or raced it before.
EventuallyServes == \A p \in Process : <>[](SelfContained(p) => pc[p] = "serving")

\* "Two registrations on one subscription that declare different policies fail
\* the startup too" (docs/components/settlement/dead-letters.md:22).
OnePolicyPerSubscription ==
    \A p \in Process : \A m, n \in OpenedMounts(p) :
        SubOf[m.name] = SubOf[n.name] /\ m.declares # Undeclared /\ n.declares # Undeclared
            => m.declares = n.declares
================================================================================
