---------------------------- MODULE StartupProofs ----------------------------
(***************************************************************************)
(* What a start promises, for every set of processes, plans, topics and    *)
(* subscriptions, whatever stands there before and however many calls fail.*)
(*                                                                         *)
(* A process finds what its calls so far have put there because nothing    *)
(* the others do takes it away: topics and subscriptions only come, an     *)
(* attachment stays, what a policy was is remembered, and a policy that is *)
(* written is one a plan asks for (Grows).                                 *)
(***************************************************************************)
EXTENDS Startup, SequenceTheorems, TLAPS

-----------------------------------------------------------------------------
(* The invariant *)

TopicCalls == {"get_topic", "create_topic", "reget_topic"}
SubscriptionCalls == {"get_subscription", "create_subscription", "reget_subscription"}
Last == {"attach", "limits", "learn"}
Reached == TopicCalls \cup SubscriptionCalls \cup {"write_policy"} \cup Last

Types ==
    /\ topics \subseteq Topic
    /\ topicOf \in [Subscription -> Topic \cup {None}]
    /\ policy \in [Subscription -> Policy \cup {None}]
    /\ carried \in [Subscription -> SUBSET (Policy \cup {None})]
    /\ plan \in [Process -> Plan]
    /\ pc \in [Process -> Step]
    /\ wanted \in [Process -> {"own", "dead_letter"}]
    /\ state \in [Process -> {"Existing", "Created"}]
    /\ caps \in [Process -> Seq(DELIVERY_ATTEMPTS \cup {None})]
    /\ ledger \in [Process -> [Name -> Declaration \cup {None}]]
    /\ attached \in [Process -> [Subscription -> Topic \cup {None}]]
    /\ closed \in [Process -> BOOLEAN] /\ hit \in [Process -> BOOLEAN]
    /\ faults \in 0..MaxFaults
    /\ why \in [Process -> {"invalid", "conflict", "closed", "admin", None}]

\* A policy is one its subscription has carried, and stands on one that is there.
PoliciesStand ==
    \A s \in Subscription : policy[s] \in carried[s] /\ (policy[s] # None => Exists(s))

\* What opens is a registration of the plan, and once it is past its checks it
\* is valid and declares what it says, a bare name through the ledger too.
Mounted(p) ==
    /\ Len(caps[p]) <= Len(plan[p])
    /\ pc[p] # "serving" => Len(caps[p]) < Len(plan[p])
    /\ pc[p] \in Reached \cup {"open"} /\ Mounting(p).bare =>
         Mounting(p).name \in Name /\ ledger[p][Mounting(p).name] = Mounting(p).declares
    /\ pc[p] \in Reached => Valid(Mounting(p).name, Mounting(p).topic, Mounting(p).declares)

\* What the calls so far have put there, and what a call finds unless one failed.
Ready(p) ==
    /\ pc[p] \in TopicCalls \cup SubscriptionCalls => Mounting(p).topic # None
    /\ pc[p] \in TopicCalls /\ wanted[p] = "dead_letter" =>
         DeadLetter(p) # None /\ Mounting(p).topic \in topics
    /\ pc[p] \in SubscriptionCalls => Mounting(p).topic \in topics /\ Writable(p)
    /\ pc[p] = "reget_topic" => Wanted(p) \in topics \/ hit[p]
    /\ pc[p] = "reget_subscription" => Exists(Opening(p)) \/ hit[p]
    /\ pc[p] = "write_policy" =>
         /\ DeadLetter(p) # None
         /\ Mounting(p).topic # None => Exists(Opening(p)) /\ Writable(p)
    /\ pc[p] \in Last /\ Mounting(p).topic # None => Exists(Opening(p))

\* The policy that everybody asks for is on the subscription.
Written(m) == Asked(SubOf[m.name]) = {m.declares} => policy[SubOf[m.name]] = m.declares

\* What stands before a registration opens: the cap it settles against was
\* carried, its policy is written, its attachment recorded.
Settled(p) ==
    /\ pc[p] \in Last /\ (DeadLetter(p) # None \/ state[p] = "Created") =>
         DeadLetter(p) \in carried[Opening(p)]
    /\ pc[p] \in Last => Written(Mounting(p))
    /\ Testing /\ pc[p] \in {"limits", "learn"} /\ Mounting(p).topic # None =>
         attached[p][Opening(p)] # None

CapCarried(p, i) ==
    \/ caps[p][i] \in {CapOf(x) : x \in carried[SubOf[plan[p][i].name]]}
    \/ caps[p][i] = None /\ hit[p]

\* And still stands for the registrations that are open.
MountedSoFar(p) == 1..Len(caps[p])
Past(p) ==
    \A i \in MountedSoFar(p) :
      /\ plan[p][i].name \in Name
      /\ CapCarried(p, i)
      /\ Written(plan[p][i])
      /\ Testing /\ plan[p][i].topic # None => attached[p][SubOf[plan[p][i].name]] # None

\* An attachment is the subscription's unless the service failed.
Recorded(p) ==
    \A s \in Subscription : attached[p][s] # None => attached[p][s] = topicOf[s] \/ hit[p]

\* A startup that failed on a call of its own topology met a fault.
Excused(p) ==
    /\ why[p] # None => pc[p] = "failed"
    /\ why[p] = "admin" /\ Mounting(p).topic # None => hit[p]

Local(p) == Mounted(p) /\ Ready(p) /\ Settled(p) /\ Past(p) /\ Recorded(p) /\ Excused(p)

StartInv == Types /\ PoliciesStand /\ \A p \in Process : Local(p)

-----------------------------------------------------------------------------
(* What opens *)

LEMMA Mounts ==
    ASSUME Types, NEW p \in Process
    PROVE  /\ plan[p] \in Seq(Registration)
           /\ Len(plan[p]) \in Nat /\ DOMAIN plan[p] = 1..Len(plan[p])
           /\ \A i \in DOMAIN plan[p] :
                /\ plan[p][i] \in Registration
                /\ plan[p][i].bare => plan[p][i].topic = None
           /\ Len(caps[p]) \in Nat /\ DOMAIN caps[p] = 1..Len(caps[p])
<1>1. plan[p] \in Plan /\ plan[p] \in Seq(Registration)
  BY PlanAssumption DEF Types
<1>2. caps[p] \in Seq(DELIVERY_ATTEMPTS \cup {None})
  BY DEF Types
<1>3. \A i \in DOMAIN plan[p] : plan[p][i] \in Registration
  BY <1>1, LenProperties, ElementOfSeq
<1>4. QED
  BY <1>1, <1>2, <1>3, MountAssumption, LenProperties

LEMMA MountingIs ==
    ASSUME Types, NEW p \in Process, Mounted(p), pc[p] # "serving"
    PROVE  /\ Len(caps[p]) + 1 \in DOMAIN plan[p]
           /\ Mounting(p) \in Registration
           /\ Mounting(p).bare => Mounting(p).topic = None
<1>1. Len(caps[p]) < Len(plan[p])
  BY DEF Mounted
<1>2. Len(caps[p]) + 1 \in DOMAIN plan[p]
  BY <1>1, Mounts
<1>3. QED
  BY <1>2, Mounts DEF Mounting

\* A valid descriptor has a name, a topic or none, and a whole policy or none.
LEMMA ValidIs ==
    ASSUME NEW r \in Registration, Valid(r.name, r.topic, r.declares)
    PROVE  /\ r.name \in Name /\ SubOf[r.name] \in Subscription
           /\ r.topic \in Topic \cup {None}
           /\ r.declares \in Declaration
           /\ r.declares # Undeclared => r.declares \in Policy
<1>1. r.name \in Name /\ r.topic \in Topic \cup {None} /\ r.declares \in Declaration
  BY DEF Registration, Valid
<1>2. ASSUME r.declares # Undeclared
      PROVE  r.declares \in Policy
  BY <1>1, <1>2 DEF Valid, Declaration, Policy
<1>3. QED
  BY <1>1, <1>2, SubOfAssumption

LEMMA DeclaredIs ==
    ASSUME Types, NEW p \in Process, Mounted(p), pc[p] \in Reached \cup {"open"}
    PROVE  Declared(p) = Mounting(p).declares
<1>1. pc[p] # "serving"
  BY DEF Reached, TopicCalls, SubscriptionCalls, Last
<1>2. Mounting(p) \in Registration
  BY <1>1, MountingIs
<1>3. Mounting(p).declares # None
  BY <1>2, NoneAssumption DEF Registration
<1>4. CASE ~Mounting(p).bare
  BY <1>4 DEF Declared
<1>5. CASE Mounting(p).bare
  <2>1. ledger[p][Mounting(p).name] = Mounting(p).declares
    BY <1>5 DEF Mounted
  <2>2. QED
    BY <1>3, <1>5, <2>1 DEF Declared
<1>6. QED
  BY <1>2, <1>4, <1>5 DEF Registration

LEMMA ReachedIs ==
    ASSUME Types, NEW p \in Process, Mounted(p), pc[p] \in Reached
    PROVE  /\ Mounting(p) \in Registration
           /\ Mounting(p).name \in Name /\ Opening(p) \in Subscription
           /\ Mounting(p).topic \in Topic \cup {None}
           /\ DeadLetter(p) \in Policy \cup {None}
           /\ DeadLetter(p) = IF Mounting(p).declares = Undeclared THEN None
                              ELSE Mounting(p).declares
<1>1. pc[p] # "serving"
  BY DEF Reached, TopicCalls, SubscriptionCalls, Last
<1>2. Mounting(p) \in Registration
  BY <1>1, MountingIs
<1>3. Valid(Mounting(p).name, Mounting(p).topic, Mounting(p).declares)
  BY DEF Mounted
<1>4. /\ Mounting(p).name \in Name /\ SubOf[Mounting(p).name] \in Subscription
      /\ Mounting(p).topic \in Topic \cup {None}
      /\ Mounting(p).declares # Undeclared => Mounting(p).declares \in Policy
  BY <1>2, <1>3, ValidIs
<1>5. Declared(p) = Mounting(p).declares
  BY DeclaredIs
<1>6. QED
  BY <1>2, <1>4, <1>5 DEF DeadLetter, Opening

\* What a registration declares is asked for its subscription.
LEMMA AskedIs ==
    ASSUME Types, NEW p \in Process, NEW i \in DOMAIN plan[p],
           plan[p][i].name \in Name, plan[p][i].declares # Undeclared
    PROVE  plan[p][i].declares \in Asked(SubOf[plan[p][i].name])
<1>1. plan[p][i] \in Range(plan[p])
  BY DEF Range
<1>2. plan[p][i] \in UNION {Range(plan[q]) : q \in Process}
  BY <1>1
<1>3. QED
  BY <1>2 DEF Asked

LEMMA UndeclaredUnasked == ASSUME NEW s PROVE Undeclared \notin Asked(s)
BY DEF Asked

-----------------------------------------------------------------------------
(* What the others do *)

Grows ==
    /\ UNCHANGED plan
    /\ topics \subseteq topics'
    /\ \A s \in Subscription :
         /\ topicOf[s] # None => topicOf'[s] = topicOf[s]
         /\ carried[s] \subseteq carried'[s]
         /\ policy'[s] = policy[s] \/ ~Exists(s) \/ policy'[s] \in Asked(s)

Alone(q) ==
    /\ pc'[q] = pc[q] /\ wanted'[q] = wanted[q] /\ state'[q] = state[q]
    /\ caps'[q] = caps[q] /\ ledger'[q] = ledger[q] /\ attached'[q] = attached[q]
    /\ why'[q] = why[q] /\ (hit[q] => hit'[q])

\* The registration a process mounts is its plan's next.
LEMMA SameMount ==
    ASSUME UNCHANGED plan, NEW p, caps'[p] = caps[p]
    PROVE  Mounting(p)' = Mounting(p) /\ Opening(p)' = Opening(p) /\ MountedSoFar(p)' = MountedSoFar(p)
BY DEF Mounting, Opening, MountedSoFar

LEMMA SameDeclared ==
    ASSUME UNCHANGED plan, NEW p, caps'[p] = caps[p], ledger'[p] = ledger[p]
    PROVE  Declared(p)' = Declared(p) /\ DeadLetter(p)' = DeadLetter(p)
BY DEF Mounting, Declared, DeadLetter

LEMMA SameAsked == ASSUME UNCHANGED plan, NEW s PROVE Asked(s)' = Asked(s)
BY DEF Asked

LEMMA AskedTyped ==
    ASSUME Types, NEW s, NEW d \in Asked(s)
    PROVE  d \in Declaration /\ d # None
<1>1. PICK x \in UNION {Range(plan[q]) : q \in Process} : x.declares = d
  BY DEF Asked
<1>2. PICK q \in Process : x \in Range(plan[q])
  BY <1>1
<1>3. x \in Registration
  BY <1>2, Mounts DEF Range
<1>4. QED
  BY <1>1, <1>3, NoneAssumption DEF Registration

LEMMA WrittenKept ==
    ASSUME Types, PoliciesStand, Grows, NEW m, SubOf[m.name] \in Subscription, Written(m)
    PROVE  Written(m)'
<1> DEFINE s == SubOf[m.name]
<1>1. Asked(s)' = Asked(s) /\ s \in Subscription
  BY SameAsked DEF Grows
<1>2. ASSUME Asked(s) = {m.declares}
      PROVE  policy'[s] = m.declares
  <2>1. policy[s] = m.declares
    BY <1>2 DEF Written
  <2>2. m.declares # None
    BY <1>2, AskedTyped
  <2>3. Exists(s)
    BY <1>1, <2>1, <2>2 DEF PoliciesStand
  <2>4. policy'[s] = policy[s] \/ policy'[s] \in Asked(s)
    BY <1>1, <2>3 DEF Grows
  <2>5. QED
    BY <1>2, <2>1, <2>4
<1>3. QED
  BY <1>1, <1>2 DEF Written

\* What is open stands, unless its own process forgets it.
LEMMA PastKept ==
    ASSUME Types, PoliciesStand, Grows, NEW q \in Process, Past(q),
           caps'[q] = caps[q], hit[q] => hit'[q],
           \A s \in Subscription : attached[q][s] # None => attached'[q][s] # None
    PROVE  Past(q)'
<1>1. UNCHANGED plan /\ MountedSoFar(q)' = MountedSoFar(q)
  BY DEF Grows, MountedSoFar
<1>2. ASSUME NEW i \in MountedSoFar(q)
      PROVE  /\ plan'[q][i].name \in Name
             /\ CapCarried(q, i)'
             /\ Written(plan[q][i])'
             /\ Testing /\ plan'[q][i].topic # None => attached'[q][SubOf[plan'[q][i].name]] # None
  <2>1. /\ plan[q][i].name \in Name
        /\ CapCarried(q, i)
        /\ Written(plan[q][i])
        /\ Testing /\ plan[q][i].topic # None => attached[q][SubOf[plan[q][i].name]] # None
    BY DEF Past
  <2>2. SubOf[plan[q][i].name] \in Subscription
    BY <2>1, SubOfAssumption
  <2>3. carried[SubOf[plan[q][i].name]] \subseteq carried'[SubOf[plan[q][i].name]]
    BY <2>2 DEF Grows
  <2>4. CapCarried(q, i)'
    BY <1>1, <2>1, <2>3 DEF CapCarried
  <2>5. ASSUME NEW m, m = plan[q][i] PROVE Written(m)'
    BY <2>1, <2>2, <2>5, WrittenKept
  <2>6. Written(plan[q][i])'
    BY <1>1, <2>5 DEF Written
  <2>7. QED
    BY <1>1, <2>1, <2>2, <2>4, <2>6
<1>3. QED
  BY <1>1, <1>2 DEF Past

\* A process that only watches keeps its part of the invariant.
LEMMA OthersKept ==
    ASSUME StartInv, Grows, NEW q \in Process, Alone(q)
    PROVE  Local(q)'
<1> DEFINE r == Mounting(q)
<1> DEFINE s == Opening(q)
<1>1. Types /\ PoliciesStand /\ Local(q) /\ UNCHANGED plan
  BY DEF StartInv, Grows
<1>2. /\ Mounting(q)' = Mounting(q) /\ Opening(q)' = Opening(q)
      /\ MountedSoFar(q)' = MountedSoFar(q)
      /\ Declared(q)' = Declared(q) /\ DeadLetter(q)' = DeadLetter(q)
  BY <1>1, SameMount, SameDeclared DEF Alone
<1>3. /\ pc'[q] = pc[q] /\ wanted'[q] = wanted[q] /\ state'[q] = state[q]
      /\ caps'[q] = caps[q] /\ ledger'[q] = ledger[q] /\ attached'[q] = attached[q]
      /\ why'[q] = why[q] /\ (hit[q] => hit'[q])
  BY DEF Alone
<1>4. /\ topics \subseteq topics'
      /\ \A u \in Subscription :
           /\ topicOf[u] # None => topicOf'[u] = topicOf[u]
           /\ carried[u] \subseteq carried'[u]
  BY DEF Grows
<1>5. pc[q] \in Reached => Opening(q) \in Subscription /\ SubOf[Mounting(q).name] \in Subscription
  BY <1>1, ReachedIs DEF Local, Opening
<1>6. Mounted(q)'
  BY <1>1, <1>2, <1>3 DEF Local, Mounted
<1>7. Ready(q)'
  <2>1. pc[q] \in Reached => (Exists(Opening(q)) => Exists(Opening(q))')
    BY <1>2, <1>4, <1>5 DEF Exists
  <2>2. Writable(q) => Writable(q)'
    BY <1>2, <1>4 DEF Writable
  <2>3. Wanted(q) \in topics => (Wanted(q) \in topics)'
    BY <1>2, <1>3, <1>4 DEF Wanted
  <2>4. QED
    BY <1>1, <1>2, <1>3, <1>4, <2>1, <2>2, <2>3
       DEF Local, Ready, Reached, TopicCalls, SubscriptionCalls, Last
<1>8. Settled(q)'
  <2>1. ASSUME NEW m, m = Mounting(q), pc[q] \in Last
        PROVE  Written(m)'
    BY <1>1, <1>5, <2>1, WrittenKept DEF Local, Settled, Reached
  <2>2. pc[q] \in Last => Opening(q) \in Subscription
    BY <1>5 DEF Reached
  <2>3. (pc[q] \in Last => Written(Mounting(q)))'
    BY <1>2, <1>3, <2>1 DEF Written
  <2>4. QED
    BY <1>1, <1>2, <1>3, <1>4, <2>2, <2>3 DEF Local, Settled
<1>9. Past(q)'
  BY <1>1, <1>3, PastKept DEF Local
<1>10. Recorded(q)'
  BY <1>1, <1>3, <1>4, NoneAssumption DEF Local, Recorded
<1>11. Excused(q)'
  BY <1>1, <1>2, <1>3 DEF Local, Excused
<1>12. QED
  BY <1>6, <1>7, <1>8, <1>9, <1>10, <1>11 DEF Local

\* A step of one process, which only adds to the service.
LEMMA StepKeeps ==
    ASSUME StartInv, NEW p \in Process, Grows, \A q \in Process \ {p} : Alone(q),
           Types', PoliciesStand', Local(p)'
    PROVE  StartInv'
<1>1. \A q \in Process : Local(q)'
  BY OthersKept
<1>2. QED
  BY <1>1 DEF StartInv

-----------------------------------------------------------------------------
(* One action at a time *)

LEMMA ServiceKept ==
    ASSUME PoliciesStand, UNCHANGED <<service, plan>>
    PROVE  Grows /\ PoliciesStand'
BY DEF PoliciesStand, Grows, service, Exists

\* What a step keeps that opens nothing: the registration and what is open.
LEMMA OpeningKept ==
    ASSUME StartInv, NEW p \in Process, Grows, caps'[p] = caps[p],
           attached'[p] = attached[p], hit[p] => hit'[p]
    PROVE  /\ Mounting(p)' = Mounting(p) /\ Opening(p)' = Opening(p)
           /\ Past(p)' /\ Recorded(p)'
<1>1. Types /\ PoliciesStand /\ Local(p) /\ UNCHANGED plan
  BY DEF StartInv, Grows
<1>2. Mounting(p)' = Mounting(p) /\ Opening(p)' = Opening(p)
  BY <1>1, SameMount
<1>3. Past(p)'
  BY <1>1, PastKept DEF Local
<1>4. \A s \in Subscription : topicOf[s] # None => topicOf'[s] = topicOf[s]
  BY DEF Grows
<1>5. Recorded(p)'
  BY <1>1, <1>4, NoneAssumption DEF Local, Recorded
<1>6. QED
  BY <1>2, <1>3, <1>5

\* A startup that fails on its topology met a fault.
LEMMA RefusalKeeps ==
    ASSUME StartInv, NEW p \in Process, Grows, caps'[p] = caps[p],
           attached'[p] = attached[p], hit[p] => hit'[p],
           pc[p] # "serving", pc'[p] = "failed",
           why'[p] = "admin" /\ Mounting(p).topic # None => hit'[p]
    PROVE  Local(p)'
<1>1. Mounting(p)' = Mounting(p) /\ Past(p)' /\ Recorded(p)'
  BY OpeningKept
<1>2. Len(caps[p]) < Len(plan[p]) /\ UNCHANGED plan /\ Len(caps[p]) \in Nat /\ Len(plan[p]) \in Nat
  BY Mounts DEF StartInv, Local, Mounted, Grows
<1>3. Mounted(p)'
  BY <1>2 DEF Mounted, Reached, TopicCalls, SubscriptionCalls, Last
<1>4. Ready(p)' /\ Settled(p)'
  BY DEF Ready, Settled, TopicCalls, SubscriptionCalls, Last
<1>5. Excused(p)'
  BY <1>1 DEF Excused
<1>6. QED
  BY <1>1, <1>3, <1>4, <1>5 DEF Local

\* A startup that goes on owes what its next call finds.
LEMMA AdvanceKeeps ==
    ASSUME StartInv, NEW p \in Process, Grows, caps'[p] = caps[p],
           attached'[p] = attached[p], hit[p] => hit'[p], ledger'[p] = ledger[p],
           why'[p] = why[p], pc[p] \in Reached, pc'[p] \in Reached,
           Ready(p)', Settled(p)'
    PROVE  Local(p)'
<1>1. Mounting(p)' = Mounting(p) /\ Past(p)' /\ Recorded(p)'
  BY OpeningKept
<1>2. Mounted(p) /\ UNCHANGED plan /\ Excused(p)
  BY DEF StartInv, Local, Grows
<1>3. pc[p] # "serving" /\ pc[p] # "failed"
  BY DEF Reached, TopicCalls, SubscriptionCalls, Last
<1>4. Mounted(p)'
  BY <1>1, <1>2, <1>3 DEF Mounted
<1>5. Excused(p)'
  <2>1. why'[p] = None
    BY <1>2, <1>3 DEF Excused
  <2>2. QED
    BY <2>1, NoneAssumption DEF Excused
<1>6. QED
  BY <1>1, <1>4, <1>5 DEF Local

\* What a call may do to the history: nothing, or a fault.
LEMMA FaultTyped ==
    ASSUME Types, NEW p \in Process, Faulty(p)
    PROVE  /\ hit' \in [Process -> BOOLEAN] /\ faults' \in 0..MaxFaults /\ hit'[p]
           /\ \A q \in Process \ {p} : hit'[q] = hit[q]
<1>1. hit' = [hit EXCEPT ![p] = TRUE] /\ hit \in [Process -> BOOLEAN]
  BY DEF Types, Faulty
<1>2. faults' \in 0..MaxFaults
  BY BoundAssumption DEF Types, Faulty
<1>3. QED
  BY <1>1, <1>2

LEMMA CallTrouble ==
    ASSUME Types, NEW p \in Process, Answered \/ Faulted(p)
    PROVE  /\ UNCHANGED why
           /\ hit[p] => hit'[p]
           /\ faults' \in 0..MaxFaults /\ hit' \in [Process -> BOOLEAN]
           /\ \A q \in Process \ {p} : hit'[q] = hit[q]
<1>1. CASE Answered
  BY <1>1 DEF Types, Answered, trouble
<1>2. CASE Faulted(p)
  <2>1. Faulty(p) /\ UNCHANGED why
    BY <1>2 DEF Faulted
  <2>2. QED
    BY <2>1, FaultTyped
<1>3. QED
  BY <1>1, <1>2

\* The steps of one process, and what they keep of the service.
LEMMA DeclareKeeps ==
    ASSUME StartInv, NEW p \in Process, Declare(p)
    PROVE  StartInv'
<1> DEFINE r == Mounting(p)
<1>1. Types /\ PoliciesStand /\ Local(p) /\ pc[p] = "declare" /\ p \in Process
  BY DEF StartInv, Declare
<1>2. UNCHANGED <<service, plan, wanted, state, caps, attached, closed>>
  BY DEF Declare
<1>3. Grows /\ PoliciesStand'
  BY <1>1, <1>2, ServiceKept
<1>4. Mounting(p) \in Registration /\ Mounting(p).declares \in Declaration
  BY <1>1, MountingIs DEF Local, Registration
<1>5. \/ /\ ~r.bare \/ Valid(r.name, None, r.declares)
         /\ pc' = [pc EXCEPT ![p] = "open"] /\ UNCHANGED trouble
         /\ ~r.bare => UNCHANGED ledger
         /\ r.bare => ledger' = [ledger EXCEPT ![p][r.name] = r.declares]
      \/ \E why1 \in {"invalid", "conflict"} :
           /\ pc' = [pc EXCEPT ![p] = "failed"] /\ why' = [why EXCEPT ![p] = why1]
           /\ UNCHANGED <<ledger, faults, hit>>
  BY DEF Declare, Takes, Refuse, Goto, Answered
<1>6. r.bare /\ Valid(r.name, None, r.declares) => r.name \in Name
  BY <1>4 DEF Valid, Registration
<1>7. Types' /\ \A q \in Process \ {p} : Alone(q)
  <2>1. Types'
    <3>1. ledger' \in [Process -> [Name -> Declaration \cup {None}]]
      <4>1. CASE UNCHANGED ledger
        BY <1>1, <4>1 DEF Types
      <4>2. CASE r.name \in Name /\ ledger' = [ledger EXCEPT ![p][r.name] = r.declares]
        BY <1>1, <1>4, <4>2 DEF Types
      <4>3. QED
        BY <1>4, <1>5, <1>6, <4>1, <4>2 DEF Registration
    <3>2. /\ pc' \in [Process -> Step] /\ hit' \in [Process -> BOOLEAN]
          /\ why' \in [Process -> {"invalid", "conflict", "closed", "admin", None}]
          /\ faults' = faults
      <4>1. CASE pc' = [pc EXCEPT ![p] = "open"] /\ UNCHANGED trouble
        BY <1>1, <4>1 DEF Types, Step, trouble
      <4>2. CASE \E why1 \in {"invalid", "conflict"} :
                   /\ pc' = [pc EXCEPT ![p] = "failed"] /\ why' = [why EXCEPT ![p] = why1]
                   /\ UNCHANGED <<ledger, faults, hit>>
        BY <1>1, <4>2 DEF Types, Step
      <4>3. QED
        BY <1>5, <4>1, <4>2
    <3>3. QED
      BY <1>1, <1>2, <3>1, <3>2 DEF Types, service
  <2>2. \A q \in Process \ {p} : Alone(q)
    BY <1>1, <1>2, <1>5 DEF Types, Alone, trouble
  <2>3. QED
    BY <2>1, <2>2
<1>8. Local(p)'
  <2>1. CASE pc'[p] = "open"
    <3>1. /\ UNCHANGED trouble
          /\ ~r.bare \/ Valid(r.name, None, r.declares)
          /\ r.bare => ledger' = [ledger EXCEPT ![p][r.name] = r.declares]
      BY <1>1, <1>5, <2>1 DEF Types
    <3>2. Mounting(p)' = Mounting(p) /\ Past(p)' /\ Recorded(p)'
      BY <1>2, <1>3, <3>1, OpeningKept DEF trouble
    <3>3. r.bare => ledger'[p][r.name] = r.declares
      BY <1>1, <1>6, <3>1 DEF Types
    <3>4. Mounted(p)'
      BY <1>1, <1>2, <1>6, <2>1, <3>1, <3>2, <3>3
         DEF Local, Mounted, Reached, TopicCalls, SubscriptionCalls, Last
    <3>5. Ready(p)' /\ Settled(p)'
      BY <2>1 DEF Ready, Settled, TopicCalls, SubscriptionCalls, Last
    <3>6. Excused(p)'
      <4>1. why'[p] = None
        BY <1>1, <3>1 DEF Local, Excused, trouble
      <4>2. QED
        BY <4>1, NoneAssumption DEF Excused
    <3>7. QED
      BY <3>2, <3>4, <3>5, <3>6 DEF Local
  <2>2. CASE pc'[p] # "open"
    BY <1>1, <1>2, <1>3, <1>5, <2>2, RefusalKeeps DEF Types, trouble
  <2>3. QED
    BY <2>1, <2>2
<1>9. QED
  BY <1>3, <1>7, <1>8, StepKeeps

LEMMA OpenKeeps ==
    ASSUME StartInv, NEW p \in Process, Open(p)
    PROVE  StartInv'
<1> DEFINE r == Mounting(p)
<1>1. Types /\ PoliciesStand /\ Local(p) /\ pc[p] = "open" /\ p \in Process
  BY DEF StartInv, Open
<1>2. /\ UNCHANGED <<service, plan, caps, ledger, attached, closed>>
      /\ state' = [state EXCEPT ![p] = "Existing"]
      /\ wanted' = [wanted EXCEPT ![p] = "own"]
  BY DEF Open
<1>3. Grows /\ PoliciesStand'
  BY <1>1, <1>2, ServiceKept
<1>4. Declared(p) = r.declares
  BY <1>1, DeclaredIs DEF Local
<1>5. \/ \E why1 \in {"invalid", "closed"} :
           /\ pc' = [pc EXCEPT ![p] = "failed"] /\ why' = [why EXCEPT ![p] = why1]
           /\ UNCHANGED <<faults, hit>>
      \/ /\ Valid(r.name, r.topic, r.declares) /\ UNCHANGED trouble
         /\ pc' = [pc EXCEPT ![p] = IF r.topic # None THEN "get_topic"
                                    ELSE IF DeadLetter(p) # None THEN "write_policy" ELSE "attach"]
  BY <1>4 DEF Open, Refuse, Goto, Answered
<1>6. Types'
  BY <1>1, <1>2, <1>5, ZenonT(30) DEF Types, Step, service, trouble
<1>7. \A q \in Process \ {p} : Alone(q)
  BY <1>1, <1>2, <1>5 DEF Types, Alone, trouble
<1>8. Local(p)'
  <2>1. CASE pc'[p] = "failed"
    BY <1>1, <1>2, <1>3, <1>5, <2>1, RefusalKeeps DEF Types, trouble
  <2>2. CASE pc'[p] # "failed"
    <3>1. /\ Valid(r.name, r.topic, r.declares) /\ UNCHANGED trouble
          /\ pc'[p] = IF r.topic # None THEN "get_topic"
                      ELSE IF DeadLetter(p) # None THEN "write_policy" ELSE "attach"
          /\ state'[p] = "Existing" /\ wanted'[p] = "own"
      BY <1>1, <1>2, <1>5, <2>2 DEF Types
    <3>2. /\ Mounting(p)' = Mounting(p) /\ Opening(p)' = Opening(p)
          /\ Past(p)' /\ Recorded(p)'
      BY <1>2, <1>3, <3>1, OpeningKept DEF trouble
    <3>3. DeadLetter(p)' = DeadLetter(p) /\ UNCHANGED plan
      BY <1>2, SameDeclared
    <3>4. Mounted(p)'
      BY <1>1, <1>2, <3>1, <3>2 DEF Local, Mounted, Reached, TopicCalls, SubscriptionCalls, Last
    <3>5. Ready(p)'
      BY <3>1, <3>2, <3>3 DEF Ready, TopicCalls, SubscriptionCalls, Last
    <3>6. Settled(p)'
      <4>1. pc'[p] \in Last => pc'[p] = "attach" /\ r.declares = Undeclared /\ DeadLetter(p) = None
        BY <1>1, <1>4, <3>1, NoneAssumption, MountingIs DEF DeadLetter, Local, Registration, Last
      <4>2. pc'[p] \in Last => Written(Mounting(p))'
        BY <3>2, <4>1 DEF Written, Asked
      <4>3. QED
        BY <3>1, <3>2, <3>3, <4>1, <4>2 DEF Settled, Last
    <3>7. Excused(p)'
      <4>1. why'[p] = None
        BY <1>1, <3>1 DEF Local, Excused, trouble
      <4>2. QED
        BY <4>1, NoneAssumption DEF Excused
    <3>8. QED
      BY <3>2, <3>4, <3>5, <3>6, <3>7 DEF Local
  <2>3. QED
    BY <2>1, <2>2
<1>9. QED
  BY <1>3, <1>6, <1>7, <1>8, StepKeeps

\* A topic that is there leads on, by way of the dead-letter topic.
LEMMA HaveTopicKeeps ==
    ASSUME StartInv, NEW p \in Process, pc[p] \in TopicCalls, HaveTopic(p), TopicStep,
           topics \subseteq topics', topics' \subseteq Topic, Wanted(p) \in topics', Answered
    PROVE  Types' /\ Local(p)'
<1>1. Types /\ Local(p) /\ Grows
  BY DEF StartInv, Grows, TopicStep
<1>2. /\ \/ /\ wanted[p] = "own" /\ DeadLetter(p) # None
            /\ pc' = [pc EXCEPT ![p] = "get_topic"] /\ wanted' = [wanted EXCEPT ![p] = "dead_letter"]
         \/ /\ wanted[p] = "dead_letter" \/ DeadLetter(p) = None
            /\ pc' = [pc EXCEPT ![p] = "get_subscription"] /\ UNCHANGED wanted
      /\ wanted[p] \in {"own", "dead_letter"}
  BY <1>1 DEF HaveTopic, Goto, Types
<1>3. Types'
  BY <1>1, <1>2 DEF Types, Step, TopicStep, Answered, trouble
<1>4. /\ Mounting(p)' = Mounting(p) /\ Opening(p)' = Opening(p)
      /\ DeadLetter(p)' = DeadLetter(p) /\ Declared(p)' = Declared(p)
  BY SameMount, SameDeclared DEF TopicStep
<1>5. Ready(p)'
  BY <1>1, <1>2, <1>4 DEF Local, Ready, Wanted, Writable, Types, TopicCalls, SubscriptionCalls, Last
<1>6. pc[p] \in Reached /\ pc'[p] \in Reached /\ pc'[p] \notin Last
  BY <1>1, <1>2 DEF Types, Reached, TopicCalls, SubscriptionCalls, Last
<1>7. Settled(p)'
  BY <1>6 DEF Settled, Last
<1>8. QED
  BY <1>1, <1>3, <1>5, <1>6, <1>7, AdvanceKeeps DEF TopicStep, Answered, trouble

\* The topic is to be created, or the create failed.
LEMMA TopicNotYet ==
    ASSUME StartInv, NEW p \in Process, pc[p] \in TopicCalls, TopicStep, UNCHANGED wanted,
           topics \subseteq topics', topics' \subseteq Topic, Answered \/ Faulted(p),
           NEW step \in {"create_topic", "reget_topic"}, Goto(p, step),
           step = "reget_topic" => Wanted(p) \in topics' \/ hit'[p]
    PROVE  Types' /\ Local(p)'
<1>1. Types /\ Local(p) /\ Grows
  BY DEF StartInv, Grows, TopicStep
<1>2. /\ UNCHANGED why
      /\ hit[p] => hit'[p]
      /\ faults' \in 0..MaxFaults /\ hit' \in [Process -> BOOLEAN]
  BY <1>1, CallTrouble
<1>3. Types'
  BY <1>1, <1>2 DEF Types, Step, TopicStep, Goto
<1>4. /\ Mounting(p)' = Mounting(p) /\ Opening(p)' = Opening(p)
      /\ DeadLetter(p)' = DeadLetter(p) /\ Declared(p)' = Declared(p)
  BY SameMount, SameDeclared DEF TopicStep
<1>5. pc'[p] = step /\ wanted'[p] = wanted[p]
  BY <1>1 DEF Types, Goto
<1>6. Wanted(p)' = Wanted(p)
  BY <1>4, <1>5 DEF Wanted
<1>7. pc[p] \in Reached /\ pc'[p] \in Reached /\ pc'[p] \notin Last
  BY <1>5 DEF Reached, TopicCalls, Last
<1>8. Ready(p)'
  BY <1>1, <1>4, <1>5, <1>6 DEF Local, Ready, TopicCalls, SubscriptionCalls, Last
<1>9. Settled(p)'
  BY <1>7 DEF Settled, Last
<1>10. QED
  BY <1>1, <1>2, <1>3, <1>7, <1>8, <1>9, AdvanceKeeps DEF TopicStep

LEMMA TopicAlone ==
    ASSUME Types, NEW p \in Process, TopicStep, topics \subseteq topics',
           NEW step \in Step, Goto(p, step), wanted' = wanted \/ wanted' = [wanted EXCEPT ![p] = "dead_letter"],
           Answered \/ Faulted(p) \/ \E x : Refuse(p, x) /\ (UNCHANGED <<faults, hit>> \/ Faulty(p)),
           PoliciesStand
    PROVE  (\A q \in Process \ {p} : Alone(q)) /\ Grows /\ PoliciesStand'
<1>1. \A q \in Process \ {p} : pc'[q] = pc[q] /\ wanted'[q] = wanted[q]
  BY DEF Types, Goto
<1>2. \A q \in Process \ {p} : why'[q] = why[q] /\ hit'[q] = hit[q]
  BY DEF Types, Answered, Faulted, Faulty, Refuse, trouble
<1>3. \A q \in Process \ {p} : Alone(q)
  BY <1>1, <1>2 DEF Alone, TopicStep
<1>4. Grows /\ PoliciesStand'
  BY DEF Grows, TopicStep, PoliciesStand, Exists
<1>5. QED
  BY <1>3, <1>4

\* What a call wants is a topic.
LEMMA WantedTopic ==
    ASSUME StartInv, NEW p \in Process, pc[p] \in TopicCalls
    PROVE  Wanted(p) \in Topic
<1>1. Types /\ Mounted(p) /\ Ready(p) /\ pc[p] \in Reached
  BY DEF StartInv, Local, Reached
<1>2. /\ Mounting(p).topic \in Topic \cup {None} /\ DeadLetter(p) \in Policy \cup {None}
  BY <1>1, ReachedIs
<1>3. Mounting(p).topic # None /\ (wanted[p] = "dead_letter" => DeadLetter(p) # None)
  BY <1>1 DEF Ready
<1>4. wanted[p] \in {"own", "dead_letter"}
  BY <1>1 DEF Types
<1>5. QED
  BY <1>2, <1>3, <1>4 DEF Wanted, Policy

LEMMA GetTopicKeeps ==
    ASSUME StartInv, NEW p \in Process, GetTopic(p)
    PROVE  StartInv'
<1>1. /\ Types /\ PoliciesStand /\ pc[p] \in TopicCalls
      /\ TopicStep /\ topics' = topics /\ topics \subseteq Topic
  BY DEF StartInv, Types, GetTopic, TopicCalls
<1>2. CASE Wanted(p) \in topics /\ HaveTopic(p) /\ Answered
  <2>1. Types' /\ Local(p)'
    BY <1>1, <1>2, HaveTopicKeeps
  <2>2. (\A q \in Process \ {p} : Alone(q)) /\ Grows /\ PoliciesStand'
    BY <1>1, <1>2, TopicAlone DEF HaveTopic, Step
  <2>3. QED
    BY <2>1, <2>2, StepKeeps
<1>3. CASE (Answered \/ Faulted(p)) /\ Goto(p, "create_topic") /\ UNCHANGED wanted
  <2>1. Types' /\ Local(p)'
    BY <1>1, <1>3, TopicNotYet
  <2>2. (\A q \in Process \ {p} : Alone(q)) /\ Grows /\ PoliciesStand'
    BY <1>1, <1>3, TopicAlone DEF Step
  <2>3. QED
    BY <2>1, <2>2, StepKeeps
<1>4. QED
  BY <1>2, <1>3 DEF GetTopic

LEMMA CreateTopicKeeps ==
    ASSUME StartInv, NEW p \in Process, CreateTopic(p)
    PROVE  StartInv'
<1>1. /\ Types /\ PoliciesStand /\ pc[p] \in TopicCalls /\ TopicStep
      /\ topics \subseteq Topic /\ Wanted(p) \in Topic
  BY WantedTopic DEF StartInv, Types, CreateTopic, TopicCalls
<1>2. CASE topics' = topics \cup {Wanted(p)} /\ HaveTopic(p) /\ Answered
  <2>1. Types' /\ Local(p)'
    BY <1>1, <1>2, HaveTopicKeeps
  <2>2. (\A q \in Process \ {p} : Alone(q)) /\ Grows /\ PoliciesStand'
    BY <1>1, <1>2, TopicAlone DEF HaveTopic, Step
  <2>3. QED
    BY <2>1, <2>2, StepKeeps
<1>3. CASE /\ topics' \in {topics, topics \cup {Wanted(p)}}
           /\ \/ Answered /\ Wanted(p) \in topics
              \/ Faulted(p)
           /\ Goto(p, "reget_topic") /\ UNCHANGED wanted
  <2>1. Wanted(p) \in topics' \/ hit'[p]
    BY <1>1, <1>3 DEF Types, Faulted, Faulty
  <2>2. Types' /\ Local(p)'
    BY <1>1, <1>3, <2>1, TopicNotYet
  <2>3. (\A q \in Process \ {p} : Alone(q)) /\ Grows /\ PoliciesStand'
    BY <1>1, <1>3, TopicAlone DEF Step
  <2>4. QED
    BY <2>2, <2>3, StepKeeps
<1>4. QED
  BY <1>2, <1>3 DEF CreateTopic

LEMMA RegetTopicKeeps ==
    ASSUME StartInv, NEW p \in Process, RegetTopic(p)
    PROVE  StartInv'
<1>1. /\ Types /\ PoliciesStand /\ Local(p) /\ pc[p] \in TopicCalls /\ pc[p] = "reget_topic"
      /\ TopicStep /\ topics' = topics /\ topics \subseteq Topic
  BY DEF StartInv, Types, RegetTopic, TopicCalls
<1>2. CASE Wanted(p) \in topics /\ HaveTopic(p) /\ Answered
  <2>1. Types' /\ Local(p)'
    BY <1>1, <1>2, HaveTopicKeeps
  <2>2. (\A q \in Process \ {p} : Alone(q)) /\ Grows /\ PoliciesStand'
    BY <1>1, <1>2, TopicAlone DEF HaveTopic, Step
  <2>3. QED
    BY <2>1, <2>2, StepKeeps
<1>3. CASE /\ Refuse(p, "admin") /\ UNCHANGED wanted
           /\ \/ Wanted(p) \notin topics /\ UNCHANGED <<faults, hit>>
              \/ Faulty(p)
  <2>1. (\A q \in Process \ {p} : Alone(q)) /\ Grows /\ PoliciesStand'
    BY <1>1, <1>3, TopicAlone DEF Refuse, Step
  <2>2. hit'[p] /\ hit' \in [Process -> BOOLEAN] /\ faults' \in 0..MaxFaults
    <3>1. CASE UNCHANGED <<faults, hit>> /\ Wanted(p) \notin topics
      BY <1>1, <3>1 DEF Local, Ready, Types
    <3>2. CASE Faulty(p)
      BY <1>1, <3>2, BoundAssumption DEF Faulty, Types
    <3>3. QED
      BY <1>3, <3>1, <3>2
  <2>3. Types'
    BY <1>1, <1>3, <2>2 DEF Types, Step, TopicStep, Refuse, Goto
  <2>4. pc'[p] = "failed"
    BY <1>1, <1>3 DEF Types, Refuse, Goto
  <2>5. Local(p)'
    BY <1>1, <2>1, <2>2, <2>4, RefusalKeeps DEF TopicStep
  <2>6. QED
    BY <2>1, <2>3, <2>5, StepKeeps
<1>4. QED
  BY <1>2, <1>3 DEF RegetTopic

\* A subscription that was there may still want its policy.
LEMMA FoundKeeps ==
    ASSUME StartInv, NEW p \in Process, pc[p] \in SubscriptionCalls, Exists(Opening(p)),
           HaveSubscription(p, "Existing"), SubscriptionStep, UNCHANGED <<topicOf, policy, carried>>,
           Answered
    PROVE  StartInv'
<1>1. /\ Types /\ PoliciesStand /\ Local(p) /\ pc[p] \in Reached
      /\ UNCHANGED service /\ UNCHANGED plan
  BY DEF StartInv, Reached, SubscriptionStep, service
<1>2. Grows /\ PoliciesStand'
  BY <1>1, ServiceKept
<1>3. /\ state' = [state EXCEPT ![p] = "Existing"]
      /\ pc' = [pc EXCEPT ![p] = IF DeadLetter(p) # None THEN "write_policy" ELSE "attach"]
  BY DEF HaveSubscription, Goto
<1>4. Types'
  BY <1>1, <1>3 DEF Types, Step, SubscriptionStep, service, Answered, trouble
<1>5. \A q \in Process \ {p} : Alone(q)
  BY <1>1, <1>3 DEF Types, Alone, SubscriptionStep, Answered, trouble
<1>6. /\ Mounting(p)' = Mounting(p) /\ Opening(p)' = Opening(p)
      /\ DeadLetter(p)' = DeadLetter(p)
  BY SameMount, SameDeclared DEF SubscriptionStep
<1>7. /\ pc'[p] = IF DeadLetter(p) # None THEN "write_policy" ELSE "attach"
      /\ state'[p] = "Existing"
  BY <1>1, <1>3 DEF Types
<1>8. Exists(Opening(p))' /\ (Writable(p) => Writable(p)')
  BY <1>6 DEF Exists, Writable, SubscriptionStep
<1>9. Ready(p)'
  BY <1>1, <1>6, <1>7, <1>8 DEF Local, Ready, TopicCalls, SubscriptionCalls, Last
<1>10. Settled(p)'
  <2>1. pc'[p] \in Last => pc'[p] = "attach" /\ DeadLetter(p) = None
    BY <1>7 DEF Last
  <2>2. DeadLetter(p) = None => Mounting(p).declares = Undeclared
    <3>1. Mounting(p).declares # None
      BY <1>1, MountingIs, NoneAssumption DEF Local, Reached, TopicCalls, SubscriptionCalls, Last, Registration
    <3>2. QED
      BY <1>1, <3>1, ReachedIs DEF Local
  <2>3. (pc[p] \in Last => Written(Mounting(p)))'
    BY <1>6, <2>1, <2>2 DEF Written, Asked
  <2>4. QED
    BY <1>6, <1>7, <2>1, <2>3 DEF Settled, Last
<1>11. pc'[p] \in Reached
  BY <1>7 DEF Reached, Last
<1>12. Local(p)'
  BY <1>1, <1>2, <1>9, <1>10, <1>11, AdvanceKeeps DEF SubscriptionStep, Answered, trouble
<1>13. QED
  BY <1>2, <1>4, <1>5, <1>12, StepKeeps

LEMMA GetSubscriptionKeeps ==
    ASSUME StartInv, NEW p \in Process, GetSubscription(p)
    PROVE  StartInv'
<1>1. /\ Types /\ PoliciesStand /\ Local(p)
      /\ pc[p] = "get_subscription" /\ pc[p] \in SubscriptionCalls /\ pc[p] \in Reached
      /\ SubscriptionStep /\ UNCHANGED <<topicOf, policy, carried>>
  BY DEF StartInv, GetSubscription, SubscriptionCalls, Reached
<1>2. CASE Exists(Opening(p)) /\ HaveSubscription(p, "Existing") /\ Answered
  BY <1>1, <1>2, FoundKeeps
<1>3. CASE (Answered \/ Faulted(p)) /\ Goto(p, "create_subscription") /\ UNCHANGED state
  <2>1. Grows /\ PoliciesStand'
    BY <1>1, ServiceKept DEF SubscriptionStep, service
  <2>2. /\ UNCHANGED why
        /\ hit[p] => hit'[p]
        /\ faults' \in 0..MaxFaults /\ hit' \in [Process -> BOOLEAN]
        /\ \A q \in Process \ {p} : hit'[q] = hit[q]
    BY <1>1, <1>3, CallTrouble
  <2>3. Types' /\ pc'[p] = "create_subscription"
    BY <1>1, <1>3, <2>2 DEF Types, Step, SubscriptionStep, Goto
  <2>4. \A q \in Process \ {p} : Alone(q)
    BY <1>1, <1>3, <2>2 DEF Types, Alone, SubscriptionStep, Goto
  <2>5. Mounting(p)' = Mounting(p) /\ DeadLetter(p)' = DeadLetter(p)
    BY <1>1, SameMount, SameDeclared DEF SubscriptionStep
  <2>6. Ready(p)' /\ Settled(p)'
    BY <1>1, <2>3, <2>5
       DEF Local, Ready, Settled, Writable, SubscriptionStep, TopicCalls, SubscriptionCalls, Last
  <2>7. Local(p)'
    BY <1>1, <2>1, <2>2, <2>3, <2>6, AdvanceKeeps DEF SubscriptionStep, Reached, SubscriptionCalls
  <2>8. QED
    BY <2>1, <2>3, <2>4, <2>7, StepKeeps
<1>4. QED
  BY <1>2, <1>3 DEF GetSubscription

LEMMA RegetSubscriptionKeeps ==
    ASSUME StartInv, NEW p \in Process, RegetSubscription(p)
    PROVE  StartInv'
<1>1. /\ Types /\ PoliciesStand /\ Local(p)
      /\ pc[p] = "reget_subscription" /\ pc[p] \in SubscriptionCalls
      /\ SubscriptionStep /\ UNCHANGED <<topicOf, policy, carried>>
  BY DEF StartInv, RegetSubscription, SubscriptionCalls
<1>2. CASE Exists(Opening(p)) /\ HaveSubscription(p, "Existing") /\ Answered
  BY <1>1, <1>2, FoundKeeps
<1>3. CASE /\ Refuse(p, "admin") /\ UNCHANGED state
           /\ \/ ~Exists(Opening(p)) /\ UNCHANGED <<faults, hit>>
              \/ Faulty(p)
  <2>1. Grows /\ PoliciesStand'
    BY <1>1, ServiceKept DEF SubscriptionStep, service
  <2>2. /\ hit'[p] /\ hit' \in [Process -> BOOLEAN] /\ faults' \in 0..MaxFaults
        /\ \A q \in Process \ {p} : hit'[q] = hit[q]
    <3>1. CASE UNCHANGED <<faults, hit>> /\ ~Exists(Opening(p))
      BY <1>1, <3>1 DEF Local, Ready, Types
    <3>2. CASE Faulty(p)
      BY <1>1, <3>2, BoundAssumption DEF Faulty, Types
    <3>3. QED
      BY <1>3, <3>1, <3>2
  <2>3. Types' /\ pc'[p] = "failed"
    BY <1>1, <1>3, <2>2 DEF Types, Step, SubscriptionStep, Refuse, Goto
  <2>4. \A q \in Process \ {p} : Alone(q)
    BY <1>1, <1>3, <2>2 DEF Types, Alone, SubscriptionStep, Refuse, Goto
  <2>5. Local(p)'
    BY <1>1, <2>1, <2>2, <2>3, RefusalKeeps DEF SubscriptionStep
  <2>6. QED
    BY <2>1, <2>3, <2>4, <2>5, StepKeeps
<1>4. QED
  BY <1>2, <1>3 DEF RegetSubscription

\* A create that took effect put the subscription there as its descriptor says.
LEMMA CreatedIs ==
    ASSUME StartInv, NEW p \in Process, pc[p] \in SubscriptionCalls, Created(p), SubscriptionStep
    PROVE  /\ Grows /\ PoliciesStand' /\ Exists(Opening(p))'
           /\ topicOf' \in [Subscription -> Topic \cup {None}]
           /\ policy' \in [Subscription -> Policy \cup {None}]
           /\ carried' \in [Subscription -> SUBSET (Policy \cup {None})]
           /\ DeadLetter(p) \in carried'[Opening(p)] /\ policy'[Opening(p)] = DeadLetter(p)
<1> DEFINE s == Opening(p)
<1>1. /\ Types /\ PoliciesStand /\ Mounted(p) /\ Ready(p) /\ pc[p] \in Reached
  BY DEF StartInv, Local, Reached
<1>2. /\ s \in Subscription /\ DeadLetter(p) \in Policy \cup {None}
      /\ Mounting(p).topic \in Topic
  BY <1>1, ReachedIs DEF Ready
<1>3. /\ topicOf' = [topicOf EXCEPT ![s] = Mounting(p).topic]
      /\ policy' = [policy EXCEPT ![s] = DeadLetter(p)]
      /\ carried' = [carried EXCEPT ![s] = @ \cup {DeadLetter(p)}]
      /\ topicOf[s] = None
  BY DEF Created, Creatable, Carry, Exists
<1>4. /\ topicOf' \in [Subscription -> Topic \cup {None}]
      /\ policy' \in [Subscription -> Policy \cup {None}]
      /\ carried' \in [Subscription -> SUBSET (Policy \cup {None})]
  BY <1>1, <1>2, <1>3 DEF Types
<1>5. /\ topicOf'[s] = Mounting(p).topic /\ policy'[s] = DeadLetter(p)
      /\ carried'[s] = carried[s] \cup {DeadLetter(p)}
      /\ \A u \in Subscription \ {s} :
           topicOf'[u] = topicOf[u] /\ policy'[u] = policy[u] /\ carried'[u] = carried[u]
  BY <1>1, <1>2, <1>3 DEF Types
<1>6. topicOf'[s] # None
  BY <1>2, <1>5, NoneAssumption
<1>7. PoliciesStand'
  BY <1>1, <1>5, <1>6 DEF PoliciesStand, Exists
<1>8. Grows
  BY <1>3, <1>5 DEF Grows, Exists, SubscriptionStep
<1>9. Exists(Opening(p))'
  BY <1>6, SameMount DEF Exists, SubscriptionStep
<1>10. QED
  BY <1>4, <1>5, <1>7, <1>8, <1>9

LEMMA CreateSubscriptionKeeps ==
    ASSUME StartInv, NEW p \in Process, CreateSubscription(p)
    PROVE  StartInv'
<1>1. /\ Types /\ PoliciesStand /\ Local(p) /\ pc[p] = "create_subscription"
      /\ pc[p] \in SubscriptionCalls /\ pc[p] \in Reached /\ SubscriptionStep
  BY DEF StartInv, CreateSubscription, SubscriptionCalls, Reached
<1>2. /\ Mounting(p)' = Mounting(p) /\ Opening(p)' = Opening(p)
      /\ DeadLetter(p)' = DeadLetter(p) /\ UNCHANGED plan
  BY <1>1, SameMount, SameDeclared DEF SubscriptionStep
<1>3. CASE Created(p) /\ HaveSubscription(p, "Created") /\ Answered
  <2>1. /\ Grows /\ PoliciesStand' /\ Exists(Opening(p))'
        /\ topicOf' \in [Subscription -> Topic \cup {None}]
        /\ policy' \in [Subscription -> Policy \cup {None}]
        /\ carried' \in [Subscription -> SUBSET (Policy \cup {None})]
        /\ DeadLetter(p) \in carried'[Opening(p)] /\ policy'[Opening(p)] = DeadLetter(p)
    BY <1>1, <1>3, CreatedIs
  <2>2. pc' = [pc EXCEPT ![p] = "attach"] /\ state' = [state EXCEPT ![p] = "Created"]
    BY <1>3 DEF HaveSubscription, Goto
  <2>3. Types' /\ pc'[p] = "attach"
    BY <1>1, <1>3, <2>1, <2>2 DEF Types, Step, SubscriptionStep, Answered, trouble
  <2>4. \A q \in Process \ {p} : Alone(q)
    BY <1>1, <1>3, <2>2 DEF Types, Alone, SubscriptionStep, Answered, trouble
  <2>5. Ready(p)'
    BY <2>1, <2>3 DEF Ready, TopicCalls, SubscriptionCalls, Last
  <2>6. Settled(p)'
    <3>1. DeadLetter(p) = IF Mounting(p).declares = Undeclared THEN None ELSE Mounting(p).declares
      BY <1>1, ReachedIs DEF Local
    <3>2. Written(Mounting(p))'
      BY <1>2, <2>1, <3>1 DEF Written, Asked, Opening
    <3>3. QED
      BY <1>2, <2>1, <2>3, <3>2 DEF Settled, Last
  <2>7. Local(p)'
    BY <1>1, <1>3, <2>1, <2>3, <2>5, <2>6, AdvanceKeeps
       DEF SubscriptionStep, Answered, trouble, Reached, Last
  <2>8. QED
    BY <2>1, <2>3, <2>4, <2>7, StepKeeps
<1>4. CASE /\ Goto(p, "reget_subscription") /\ UNCHANGED state
           /\ \/ ~Creatable(p) /\ Answered /\ UNCHANGED <<topicOf, policy, carried>>
              \/ Faulted(p) /\ (Created(p) \/ UNCHANGED <<topicOf, policy, carried>>)
  <2>1. /\ Grows /\ PoliciesStand'
        /\ topicOf' \in [Subscription -> Topic \cup {None}]
        /\ policy' \in [Subscription -> Policy \cup {None}]
        /\ carried' \in [Subscription -> SUBSET (Policy \cup {None})]
    <3>1. CASE Created(p)
      BY <1>1, <3>1, CreatedIs
    <3>2. CASE UNCHANGED <<topicOf, policy, carried>>
      BY <1>1, <3>2, ServiceKept DEF SubscriptionStep, service, Types
    <3>3. QED
      BY <1>4, <3>1, <3>2
  <2>2. /\ UNCHANGED why
        /\ hit[p] => hit'[p]
        /\ faults' \in 0..MaxFaults /\ hit' \in [Process -> BOOLEAN]
        /\ \A q \in Process \ {p} : hit'[q] = hit[q]
    BY <1>1, <1>4, CallTrouble
  <2>3. Types' /\ pc'[p] = "reget_subscription"
    BY <1>1, <1>4, <2>1, <2>2 DEF Types, Step, SubscriptionStep, Goto
  <2>4. \A q \in Process \ {p} : Alone(q)
    BY <1>1, <1>4, <2>2 DEF Types, Alone, SubscriptionStep, Goto
  <2>5. Exists(Opening(p))' \/ hit'[p]
    <3>1. CASE ~Creatable(p) /\ UNCHANGED <<topicOf, policy, carried>>
      BY <1>1, <1>2, <3>1 DEF Local, Ready, Creatable, Exists
    <3>2. CASE Faulted(p)
      BY <1>1, <3>2 DEF Faulted, Faulty, Types
    <3>3. QED
      BY <1>4, <3>1, <3>2
  <2>6. Ready(p)' /\ Settled(p)'
    BY <1>1, <1>2, <2>3, <2>5
       DEF Local, Ready, Settled, Writable, SubscriptionStep, TopicCalls, SubscriptionCalls, Last
  <2>7. Local(p)'
    BY <1>1, <2>1, <2>2, <2>3, <2>6, AdvanceKeeps DEF SubscriptionStep, Reached, SubscriptionCalls
  <2>8. QED
    BY <2>1, <2>3, <2>4, <2>7, StepKeeps
<1>5. QED
  BY <1>3, <1>4 DEF CreateSubscription

\* A policy that is written is the one the registration declares.
LEMMA CarriedIs ==
    ASSUME StartInv, NEW p \in Process, pc[p] = "write_policy", Exists(Opening(p)),
           DeadLetter(p) # None, Carry(Opening(p), DeadLetter(p)), SubscriptionStep, UNCHANGED topicOf
    PROVE  /\ Grows /\ PoliciesStand'
           /\ policy' \in [Subscription -> Policy \cup {None}]
           /\ carried' \in [Subscription -> SUBSET (Policy \cup {None})]
           /\ DeadLetter(p) \in carried'[Opening(p)] /\ policy'[Opening(p)] = DeadLetter(p)
<1> DEFINE s == Opening(p)
<1>1. Types /\ PoliciesStand /\ Mounted(p) /\ pc[p] \in Reached
  BY DEF StartInv, Local, Reached
<1>2. /\ Mounting(p).name \in Name /\ s \in Subscription
      /\ DeadLetter(p) \in Policy /\ DeadLetter(p) = Mounting(p).declares
      /\ Mounting(p).declares # Undeclared
  BY <1>1, ReachedIs
<1>3. /\ policy' = [policy EXCEPT ![s] = DeadLetter(p)]
      /\ carried' = [carried EXCEPT ![s] = @ \cup {DeadLetter(p)}]
      /\ topicOf' = topicOf
  BY DEF Carry
<1>4. /\ policy' \in [Subscription -> Policy \cup {None}]
      /\ carried' \in [Subscription -> SUBSET (Policy \cup {None})]
  BY <1>1, <1>2, <1>3 DEF Types
<1>5. /\ policy'[s] = DeadLetter(p)
      /\ carried'[s] = carried[s] \cup {DeadLetter(p)}
      /\ \A u \in Subscription \ {s} : policy'[u] = policy[u] /\ carried'[u] = carried[u]
  BY <1>1, <1>2, <1>3 DEF Types
<1>6. DeadLetter(p) \in Asked(s)
  <2>1. pc[p] # "serving"
    OBVIOUS
  <2>2. Len(caps[p]) + 1 \in DOMAIN plan[p]
    BY <1>1, <2>1, MountingIs
  <2>3. QED
    BY <1>1, <1>2, <2>2, AskedIs DEF Mounting, Opening
<1>7. PoliciesStand'
  BY <1>1, <1>3, <1>5 DEF PoliciesStand, Exists
<1>8. Grows
  BY <1>3, <1>5, <1>6 DEF Grows, Exists, SubscriptionStep
<1>9. QED
  BY <1>4, <1>5, <1>7, <1>8

LEMMA WritePolicyKeeps ==
    ASSUME StartInv, NEW p \in Process, WritePolicy(p)
    PROVE  StartInv'
<1>1. /\ Types /\ PoliciesStand /\ Local(p) /\ pc[p] = "write_policy" /\ pc[p] \in Reached
      /\ SubscriptionStep /\ topicOf' = topicOf /\ state' = state /\ DeadLetter(p) # None
  BY DEF StartInv, WritePolicy, Reached, Local, Ready
<1>2. /\ Mounting(p)' = Mounting(p) /\ Opening(p)' = Opening(p)
      /\ DeadLetter(p)' = DeadLetter(p) /\ UNCHANGED plan
  BY <1>1, SameMount, SameDeclared DEF SubscriptionStep
<1>3. CASE /\ Exists(Opening(p)) /\ Carry(Opening(p), DeadLetter(p))
           /\ Goto(p, "attach") /\ Answered
  <2>1. /\ Grows /\ PoliciesStand'
        /\ policy' \in [Subscription -> Policy \cup {None}]
        /\ carried' \in [Subscription -> SUBSET (Policy \cup {None})]
        /\ DeadLetter(p) \in carried'[Opening(p)] /\ policy'[Opening(p)] = DeadLetter(p)
    BY <1>1, <1>3, CarriedIs
  <2>2. Types' /\ pc'[p] = "attach"
    BY <1>1, <1>3, <2>1 DEF Types, Step, SubscriptionStep, Goto, Answered, trouble
  <2>3. \A q \in Process \ {p} : Alone(q)
    BY <1>1, <1>3 DEF Types, Alone, SubscriptionStep, Goto, Answered, trouble
  <2>4. Ready(p)'
    BY <1>1, <1>2, <1>3, <2>2 DEF Ready, Exists, TopicCalls, SubscriptionCalls, Last
  <2>5. Settled(p)'
    <3>1. DeadLetter(p) = Mounting(p).declares
      BY <1>1, ReachedIs DEF Local
    <3>2. Written(Mounting(p))'
      BY <1>2, <2>1, <3>1 DEF Written, Opening
    <3>3. QED
      BY <1>2, <2>1, <2>2, <3>2 DEF Settled, Last
  <2>6. Local(p)'
    BY <1>1, <1>3, <2>1, <2>2, <2>4, <2>5, AdvanceKeeps
       DEF SubscriptionStep, Answered, trouble, Reached, Last
  <2>7. QED
    BY <2>1, <2>2, <2>3, <2>6, StepKeeps
<1>4. CASE /\ Refuse(p, "admin")
           /\ \/ /\ ~(Exists(Opening(p)) /\ Writable(p))
                 /\ UNCHANGED <<policy, carried, faults, hit>>
              \/ /\ Faulty(p)
                 /\ \/ Exists(Opening(p)) /\ Carry(Opening(p), DeadLetter(p))
                    \/ UNCHANGED <<policy, carried>>
  <2>1. /\ Grows /\ PoliciesStand'
        /\ policy' \in [Subscription -> Policy \cup {None}]
        /\ carried' \in [Subscription -> SUBSET (Policy \cup {None})]
    <3>1. CASE Exists(Opening(p)) /\ Carry(Opening(p), DeadLetter(p))
      BY <1>1, <3>1, CarriedIs
    <3>2. CASE UNCHANGED <<policy, carried>>
      BY <1>1, <3>2, ServiceKept DEF SubscriptionStep, service, Types
    <3>3. QED
      BY <1>4, <3>1, <3>2
  <2>2. /\ hit' \in [Process -> BOOLEAN] /\ faults' \in 0..MaxFaults
        /\ \A q \in Process \ {p} : hit'[q] = hit[q]
        /\ hit[p] => hit'[p]
        /\ Mounting(p).topic # None => hit'[p]
    <3>1. CASE UNCHANGED <<faults, hit>> /\ ~(Exists(Opening(p)) /\ Writable(p))
      BY <1>1, <3>1 DEF Local, Ready, Types
    <3>2. CASE Faulty(p)
      BY <1>1, <3>2, FaultTyped
    <3>3. QED
      BY <1>4, <3>1, <3>2
  <2>3. Types' /\ pc'[p] = "failed"
    BY <1>1, <1>4, <2>1, <2>2 DEF Types, Step, SubscriptionStep, Refuse, Goto
  <2>4. \A q \in Process \ {p} : Alone(q)
    BY <1>1, <1>4, <2>2 DEF Types, Alone, SubscriptionStep, Refuse, Goto
  <2>5. Local(p)'
    BY <1>1, <2>1, <2>2, <2>3, RefusalKeeps DEF SubscriptionStep
  <2>6. QED
    BY <2>1, <2>3, <2>4, <2>5, StepKeeps
<1>5. QED
  BY <1>3, <1>4 DEF WritePolicy

LEMMA AttachKeeps ==
    ASSUME StartInv, NEW p \in Process, Attach(p)
    PROVE  StartInv'
<1> DEFINE s == Opening(p)
<1>1. /\ Types /\ PoliciesStand /\ Local(p) /\ pc[p] = "attach"
      /\ UNCHANGED <<service, plan, wanted, state, caps, ledger, closed>>
  BY DEF StartInv, Attach
<1>2. Grows /\ PoliciesStand'
  BY <1>1, ServiceKept
<1>3. /\ Mounting(p)' = Mounting(p) /\ Opening(p)' = Opening(p)
      /\ DeadLetter(p)' = DeadLetter(p) /\ UNCHANGED plan
  BY <1>1, SameMount, SameDeclared
<1>4. s \in Subscription /\ Mounting(p).topic \in Topic \cup {None}
  BY <1>1, ReachedIs DEF Local, Reached, Last
<1>5. CASE /\ Goto(p, "limits")
           /\ Answered \/ Faulted(p)
           /\ \/ (Testing => ~Exists(s)) /\ UNCHANGED attached
              \/ \E t \in Topic : /\ attached' = [attached EXCEPT ![p][s] = t]
                                  /\ t = topicOf[s] \/ Faulted(p)
  <2>1. /\ UNCHANGED why
        /\ hit[p] => hit'[p]
        /\ faults' \in 0..MaxFaults /\ hit' \in [Process -> BOOLEAN]
        /\ \A q \in Process \ {p} : hit'[q] = hit[q]
    BY <1>1, <1>5, CallTrouble
  <2>2. /\ attached' \in [Process -> [Subscription -> Topic \cup {None}]]
        /\ \A q \in Process \ {p} : attached'[q] = attached[q]
        /\ \A u \in Subscription \ {s} : attached'[p][u] = attached[p][u]
        /\ \/ (Testing => ~Exists(s)) /\ attached'[p][s] = attached[p][s]
           \/ attached'[p][s] \in Topic /\ (attached'[p][s] = topicOf[s] \/ hit'[p])
    <3>1. CASE (Testing => ~Exists(s)) /\ UNCHANGED attached
      BY <1>1, <3>1 DEF Types
    <3>2. ASSUME NEW t \in Topic, attached' = [attached EXCEPT ![p][s] = t],
                 t = topicOf[s] \/ Faulted(p)
          PROVE  /\ attached' \in [Process -> [Subscription -> Topic \cup {None}]]
                 /\ \A q \in Process \ {p} : attached'[q] = attached[q]
                 /\ \A u \in Subscription \ {s} : attached'[p][u] = attached[p][u]
                 /\ attached'[p][s] \in Topic /\ (attached'[p][s] = topicOf[s] \/ hit'[p])
      <4>1. Faulted(p) => hit'[p]
        BY <1>1, FaultTyped DEF Faulted
      <4>2. QED
        BY <1>1, <1>4, <3>2, <4>1 DEF Types
    <3>3. QED
      BY <1>5, <3>1, <3>2
  <2>3. Types' /\ pc'[p] = "limits"
    BY <1>1, <1>5, <2>1, <2>2 DEF Types, Step, service, Goto
  <2>4. \A q \in Process \ {p} : Alone(q)
    BY <1>1, <1>5, <2>1, <2>2 DEF Types, Alone, Goto
  <2>5. Mounted(p)'
    BY <1>1, <1>3, <2>3 DEF Local, Mounted, Reached, Last
  <2>6. Exists(s)' = Exists(s)
    BY <1>1, <1>3 DEF Exists, service
  <2>7. Ready(p)'
    BY <1>1, <1>3, <2>3, <2>6 DEF Local, Ready, TopicCalls, SubscriptionCalls, Last
  <2>8. Settled(p)'
    <3>1. Written(Mounting(p))'
      BY <1>1, <1>3, SameAsked DEF Local, Settled, Written, Last, service
    <3>2. Testing /\ Mounting(p).topic # None => attached'[p][s] # None
      BY <1>1, <2>2, NoneAssumption DEF Local, Ready, Last
    <3>3. QED
      BY <1>1, <1>3, <2>3, <3>1, <3>2 DEF Local, Settled, Last, service
  <2>9. \A u \in Subscription : attached[p][u] # None => attached'[p][u] # None
    BY <2>2, NoneAssumption
  <2>10. Past(p)'
    BY <1>1, <1>2, <2>1, <2>9, PastKept DEF Local
  <2>11. Recorded(p)'
    BY <1>1, <2>1, <2>2 DEF Local, Recorded, service
  <2>12. Excused(p)'
    <3>1. why'[p] = None
      BY <1>1, <2>1 DEF Local, Excused
    <3>2. QED
      BY <3>1, NoneAssumption DEF Excused
  <2>13. QED
    BY <1>2, <2>3, <2>4, <2>5, <2>7, <2>8, <2>10, <2>11, <2>12, StepKeeps DEF Local
<1>6. CASE Mounting(p).topic = None /\ Faulty(p) /\ Refuse(p, "admin") /\ UNCHANGED attached
  <2>1. /\ hit' \in [Process -> BOOLEAN] /\ faults' \in 0..MaxFaults /\ hit'[p]
        /\ \A q \in Process \ {p} : hit'[q] = hit[q]
    BY <1>1, <1>6, FaultTyped
  <2>2. Types' /\ pc'[p] = "failed"
    BY <1>1, <1>6, <2>1 DEF Types, Step, service, Refuse, Goto
  <2>3. \A q \in Process \ {p} : Alone(q)
    BY <1>1, <1>6, <2>1 DEF Types, Alone, Refuse, Goto
  <2>4. Local(p)'
    BY <1>1, <1>2, <1>6, <2>1, <2>2, RefusalKeeps
  <2>5. QED
    BY <1>2, <2>2, <2>3, <2>4, StepKeeps
<1>7. QED
  <2>1. CASE Testing /\ Exists(s) /\ Attached(p, topicOf[s]) /\ Goto(p, "limits") /\ Answered
    <3>1. topicOf[s] \in Topic
      BY <1>1, <1>4, <2>1 DEF Types, Exists
    <3>2. QED
      BY <1>5, <2>1, <3>1 DEF Attached
  <2>2. CASE /\ Testing /\ Mounting(p).topic # None /\ Faulted(p)
             /\ Attached(p, Mounting(p).topic) /\ Goto(p, "limits")
    BY <1>4, <1>5, <2>2 DEF Attached
  <2>3. QED
    BY <1>5, <1>6, <2>1, <2>2 DEF Attach

\* A registration that opens stands with the ones before it.
LEMMA OpenedKeeps ==
    ASSUME StartInv, NEW p \in Process, pc[p] \in {"limits", "learn"},
           NEW cap \in DELIVERY_ATTEMPTS \cup {None}, Opened(p, cap), Answered \/ Faulted(p),
           UNCHANGED <<service, plan, wanted, state, ledger, attached, closed>>,
           \/ cap \in {CapOf(x) : x \in carried[Opening(p)]}
           \/ cap = None /\ hit'[p]
    PROVE  StartInv'
<1>1. /\ Types /\ PoliciesStand /\ Local(p) /\ pc[p] \in Reached /\ pc[p] \in Last
  BY DEF StartInv, Reached, Last
<1>2. Grows /\ PoliciesStand'
  BY <1>1, ServiceKept
<1>3. /\ UNCHANGED why
      /\ hit[p] => hit'[p]
      /\ faults' \in 0..MaxFaults /\ hit' \in [Process -> BOOLEAN]
      /\ \A q \in Process \ {p} : hit'[q] = hit[q]
  BY <1>1, CallTrouble
<1>4. /\ Len(caps[p]) \in Nat /\ Len(plan[p]) \in Nat /\ Len(caps[p]) < Len(plan[p])
      /\ caps[p] \in Seq(DELIVERY_ATTEMPTS \cup {None}) /\ plan' = plan
  BY <1>1, Mounts DEF Local, Mounted, Reached, Last, Types
<1>5. PICK n \in Nat : n = Len(caps[p]) + 1
  BY <1>4
<1>6. /\ caps' = [caps EXCEPT ![p] = Append(caps[p], cap)]
      /\ pc' = [pc EXCEPT ![p] = IF n = Len(plan[p]) THEN "serving" ELSE "declare"]
  BY <1>5 DEF Opened, Goto
<1>7. /\ Append(caps[p], cap) \in Seq(DELIVERY_ATTEMPTS \cup {None})
      /\ Len(Append(caps[p], cap)) = n /\ Append(caps[p], cap)[n] = cap
      /\ \A i \in 1..Len(caps[p]) : Append(caps[p], cap)[i] = caps[p][i]
  BY <1>4, <1>5, AppendProperties
<1>8. /\ caps'[p] = Append(caps[p], cap)
      /\ caps' \in [Process -> Seq(DELIVERY_ATTEMPTS \cup {None})]
      /\ pc'[p] = IF n = Len(plan[p]) THEN "serving" ELSE "declare"
  BY <1>1, <1>6, <1>7 DEF Types
<1>9. Types'
  BY <1>1, <1>3, <1>6, <1>8 DEF Types, Step, service
<1>10. \A q \in Process \ {p} : Alone(q)
  BY <1>1, <1>3, <1>6 DEF Types, Alone
<1>11. Mounted(p)'
  BY <1>4, <1>5, <1>7, <1>8 DEF Mounted, Reached, TopicCalls, SubscriptionCalls, Last
<1>12. Ready(p)' /\ Settled(p)'
  BY <1>8 DEF Ready, Settled, TopicCalls, SubscriptionCalls, Last
<1>13. Past(p)'
  <2>1. MountedSoFar(p)' = MountedSoFar(p) \cup {n}
    BY <1>4, <1>5, <1>7, <1>8 DEF MountedSoFar
  <2>2. ASSUME NEW i \in MountedSoFar(p)
        PROVE  /\ plan'[p][i].name \in Name /\ CapCarried(p, i)'
               /\ Written(plan[p][i])'
               /\ Testing /\ plan'[p][i].topic # None => attached'[p][SubOf[plan'[p][i].name]] # None
    <3>1. /\ plan[p][i].name \in Name /\ CapCarried(p, i) /\ Written(plan[p][i])
          /\ Testing /\ plan[p][i].topic # None => attached[p][SubOf[plan[p][i].name]] # None
      BY <1>1 DEF Local, Past
    <3>2. caps'[p][i] = caps[p][i]
      BY <1>7, <1>8 DEF MountedSoFar
    <3>3. CapCarried(p, i)'
      BY <1>3, <1>4, <3>1, <3>2 DEF CapCarried, service
    <3>4. Written(plan[p][i])'
      BY <1>4, <3>1, SameAsked DEF Written, service
    <3>5. QED
      BY <1>4, <3>1, <3>3, <3>4
  <2>3. /\ plan'[p][n].name \in Name /\ CapCarried(p, n)'
        /\ Written(plan[p][n])'
        /\ Testing /\ plan'[p][n].topic # None => attached'[p][SubOf[plan'[p][n].name]] # None
    <3>1. /\ Mounting(p) = plan[p][n] /\ Opening(p) = SubOf[plan[p][n].name]
          /\ plan[p][n].name \in Name
      BY <1>1, <1>5, ReachedIs DEF Local, Mounting, Opening
    <3>2. CapCarried(p, n)'
      BY <1>4, <1>7, <1>8, <3>1 DEF CapCarried, service
    <3>3. Written(plan[p][n])'
      BY <1>1, <1>4, <3>1, SameAsked DEF Local, Settled, Written, service
    <3>4. Testing /\ plan[p][n].topic # None => attached[p][Opening(p)] # None
      BY <1>1, <3>1 DEF Local, Settled
    <3>5. QED
      BY <1>4, <3>1, <3>2, <3>3, <3>4
  <2>4. \A i \in MountedSoFar(p)' :
          /\ plan'[p][i].name \in Name /\ CapCarried(p, i)'
          /\ Written(plan[p][i])'
          /\ Testing /\ plan'[p][i].topic # None => attached'[p][SubOf[plan'[p][i].name]] # None
    BY <2>1, <2>2, <2>3
  <2>5. QED
    BY <2>4 DEF Past
<1>14. Recorded(p)'
  BY <1>1, <1>3 DEF Local, Recorded, service
<1>15. Excused(p)'
  <2>1. why'[p] = None
    BY <1>1, <1>3 DEF Local, Excused, Last
  <2>2. QED
    BY <2>1, NoneAssumption DEF Excused
<1>16. QED
  BY <1>2, <1>9, <1>10, <1>11, <1>12, <1>13, <1>14, <1>15, StepKeeps DEF Local

\* The cap of a descriptor is its own; a subscription created without one has none.
LEMMA LimitsKeeps ==
    ASSUME StartInv, NEW p \in Process, Limits(p)
    PROVE  StartInv'
<1>1. /\ Types /\ PoliciesStand /\ Local(p) /\ pc[p] = "limits" /\ pc[p] \in Reached
      /\ UNCHANGED <<service, plan, wanted, state, ledger, attached, closed>>
      /\ UNCHANGED trouble
  BY DEF StartInv, Limits, Reached, Last
<1>2. Opening(p) \in Subscription /\ DeadLetter(p) \in Policy \cup {None}
  BY <1>1, ReachedIs DEF Local
<1>3. CASE DeadLetter(p) # None /\ Opened(p, DeadLetter(p).max)
  <2>1. DeadLetter(p) \in carried[Opening(p)]
    BY <1>1, <1>3 DEF Local, Settled, Last
  <2>2. DeadLetter(p).max \in DELIVERY_ATTEMPTS /\ DeadLetter(p).max = CapOf(DeadLetter(p))
    BY <1>2, <1>3 DEF Policy, CapOf
  <2>3. QED
    BY <1>1, <1>3, <2>1, <2>2, OpenedKeeps DEF Answered
<1>4. CASE DeadLetter(p) = None /\ state[p] = "Created" /\ Opened(p, None)
  <2>1. None \in carried[Opening(p)]
    BY <1>1, <1>4 DEF Local, Settled, Last
  <2>2. CapOf(None) = None
    BY DEF CapOf
  <2>3. QED
    BY <1>1, <1>4, <2>1, <2>2, OpenedKeeps DEF Answered
<1>5. CASE DeadLetter(p) = None /\ state[p] = "Existing" /\ Goto(p, "learn") /\ UNCHANGED caps
  <2>1. Grows /\ PoliciesStand'
    BY <1>1, ServiceKept
  <2>2. Types' /\ pc'[p] = "learn"
    BY <1>1, <1>5 DEF Types, Step, service, trouble, Goto
  <2>3. \A q \in Process \ {p} : Alone(q)
    BY <1>1, <1>5 DEF Types, Alone, trouble, Goto
  <2>4. /\ Mounting(p)' = Mounting(p) /\ Opening(p)' = Opening(p)
        /\ DeadLetter(p)' = DeadLetter(p)
    BY <1>1, <1>5, SameMount, SameDeclared
  <2>5. Ready(p)'
    BY <1>1, <2>2, <2>4 DEF Local, Ready, Exists, TopicCalls, SubscriptionCalls, Last, service
  <2>6. Settled(p)'
    <3>1. Written(Mounting(p))'
      BY <1>1, <2>4, SameAsked DEF Local, Settled, Written, Last, service
    <3>2. QED
      BY <1>1, <2>2, <2>4, <3>1 DEF Local, Settled, Last, service
  <2>7. Local(p)'
    BY <1>1, <1>5, <2>1, <2>2, <2>5, <2>6, AdvanceKeeps DEF trouble, Reached, Last
  <2>8. QED
    BY <2>1, <2>2, <2>3, <2>7, StepKeeps
<1>6. QED
  BY <1>1, <1>3, <1>4, <1>5 DEF Limits

LEMMA LearnKeeps ==
    ASSUME StartInv, NEW p \in Process, Learn(p)
    PROVE  StartInv'
<1> DEFINE s == Opening(p)
<1>1. /\ Types /\ PoliciesStand /\ Local(p) /\ pc[p] = "learn" /\ pc[p] \in Reached
      /\ UNCHANGED <<service, plan, wanted, state, ledger, attached, closed>>
  BY DEF StartInv, Learn, Reached, Last
<1>2. s \in Subscription
  BY <1>1, ReachedIs DEF Local
<1>3. CASE Opened(p, IF policy[s] = None THEN None ELSE policy[s].max) /\ Answered
  <2>1. policy[s] \in carried[s] /\ policy[s] \in Policy \cup {None}
    BY <1>1, <1>2 DEF PoliciesStand, Types
  <2>2. Opened(p, CapOf(policy[s])) /\ CapOf(policy[s]) \in DELIVERY_ATTEMPTS \cup {None}
    BY <1>3, <2>1 DEF CapOf, Policy
  <2>3. QED
    BY <1>1, <1>3, <2>1, <2>2, OpenedKeeps
<1>4. CASE Faulted(p) /\ Opened(p, None)
  <2>1. hit'[p]
    BY <1>1, <1>4, FaultTyped DEF Faulted
  <2>2. QED
    BY <1>1, <1>4, <2>1, OpenedKeeps
<1>5. CASE Faulty(p) /\ Refuse(p, "admin") /\ UNCHANGED caps
  <2>1. Grows /\ PoliciesStand'
    BY <1>1, ServiceKept
  <2>2. /\ hit' \in [Process -> BOOLEAN] /\ faults' \in 0..MaxFaults /\ hit'[p]
        /\ \A q \in Process \ {p} : hit'[q] = hit[q]
    BY <1>1, <1>5, FaultTyped
  <2>3. Types' /\ pc'[p] = "failed"
    BY <1>1, <1>5, <2>2 DEF Types, Step, service, Refuse, Goto
  <2>4. \A q \in Process \ {p} : Alone(q)
    BY <1>1, <1>5, <2>2 DEF Types, Alone, Refuse, Goto
  <2>5. Local(p)'
    BY <1>1, <1>5, <2>1, <2>2, <2>3, RefusalKeeps
  <2>6. QED
    BY <2>1, <2>3, <2>4, <2>5, StepKeeps
<1>6. QED
  BY <1>3, <1>4, <1>5 DEF Learn

LEMMA ShutdownKeeps ==
    ASSUME StartInv, NEW p \in Process, Shutdown(p)
    PROVE  StartInv'
<1>1. /\ Types /\ PoliciesStand /\ Faulted(p)
      /\ closed' = [closed EXCEPT ![p] = TRUE]
      /\ UNCHANGED <<service, plan, pc, wanted, state, caps, ledger, attached>>
  BY DEF StartInv, Shutdown
<1>2. Grows /\ PoliciesStand'
  BY <1>1, ServiceKept
<1>3. /\ UNCHANGED why
      /\ hit[p] => hit'[p]
      /\ faults' \in 0..MaxFaults /\ hit' \in [Process -> BOOLEAN]
      /\ \A q \in Process \ {p} : hit'[q] = hit[q]
  BY <1>1, CallTrouble
<1>4. Types'
  BY <1>1, <1>3 DEF Types, service
<1>5. \A q \in Process : Alone(q)
  BY <1>1, <1>3 DEF Alone
<1>6. QED
  BY <1>2, <1>4, <1>5, OthersKept, StepKeeps

\* A process that starts over has nothing open and nothing to answer for.
LEMMA AnewKeeps ==
    ASSUME StartInv, NEW p \in Process, Anew(p), faults' \in 0..MaxFaults
    PROVE  StartInv'
<1>1. Types /\ PoliciesStand
  BY DEF StartInv
<1>2. Grows /\ PoliciesStand' /\ plan' = plan
  BY <1>1, ServiceKept DEF Anew
<1>3. /\ caps' \in [Process -> Seq(DELIVERY_ATTEMPTS \cup {None})]
      /\ ledger' \in [Process -> [Name -> Declaration \cup {None}]]
      /\ attached' \in [Process -> [Subscription -> Topic \cup {None}]]
  <2>1. << >> \in Seq(DELIVERY_ATTEMPTS \cup {None})
    BY EmptySeq
  <2>2. QED
    BY <1>1, <2>1 DEF Types, Anew
<1>4. Types'
  BY <1>1, <1>3 DEF Types, Step, Anew, Goto, service
<1>5. \A q \in Process \ {p} : Alone(q)
  BY <1>1 DEF Types, Alone, Anew, Goto
<1>6. /\ pc'[p] = "declare" /\ caps'[p] = << >> /\ why'[p] = None
      /\ attached'[p] = [s \in Subscription |-> None]
  BY <1>1 DEF Types, Anew, Goto
<1>7. Mounted(p)'
  <2>1. plan[p] \in Seq(Registration) /\ plan[p] # << >>
    BY <1>1, MountAssumption, Mounts DEF Types
  <2>2. Len(plan[p]) \in Nat /\ Len(plan[p]) > 0
    BY <2>1, EmptySeq, LenProperties
  <2>3. Len(<< >>) = 0
    BY EmptySeq
  <2>4. QED
    BY <1>2, <1>6, <2>2, <2>3 DEF Mounted, Reached, TopicCalls, SubscriptionCalls, Last
<1>8. Ready(p)' /\ Settled(p)'
  BY <1>6 DEF Ready, Settled, TopicCalls, SubscriptionCalls, Last
<1>9. Past(p)'
  BY <1>6, EmptySeq DEF Past, MountedSoFar
<1>10. Recorded(p)'
  BY <1>6 DEF Recorded
<1>11. Excused(p)'
  BY <1>6, NoneAssumption DEF Excused
<1>12. QED
  BY <1>2, <1>4, <1>5, <1>7, <1>8, <1>9, <1>10, <1>11, StepKeeps DEF Local

-----------------------------------------------------------------------------
(* The theorems *)

LEMMA InitStarts == Init => StartInv
<1> SUFFICES ASSUME Init PROVE StartInv
  OBVIOUS
<1>1. Types
  <2>1. << >> \in Seq(DELIVERY_ATTEMPTS \cup {None})
    BY EmptySeq
  <2>2. policy \in [Subscription -> Policy \cup {None}]
    BY PlanAssumption DEF Init
  <2>3. topicOf \in [Subscription -> Topic \cup {None}]
    BY DEF Init
  <2>4. carried \in [Subscription -> SUBSET (Policy \cup {None})]
    BY <2>2 DEF Init
  <2>5. QED
    BY <2>1, <2>2, <2>3, <2>4, BoundAssumption DEF Init, Types, Step
<1>2. PoliciesStand
  BY DEF Init, PoliciesStand, Exists
<1>3. ASSUME NEW p \in Process
      PROVE  Local(p)
  <2>1. /\ pc[p] = "declare" /\ caps[p] = << >> /\ why[p] = None
        /\ attached[p] = [s \in Subscription |-> None]
    BY DEF Init
  <2>2. Mounted(p)
    <3>1. plan[p] \in Seq(Registration) /\ plan[p] # << >>
      BY <1>1, MountAssumption, Mounts DEF Types
    <3>2. Len(plan[p]) \in Nat /\ Len(plan[p]) > 0
      BY <3>1, EmptySeq, LenProperties
    <3>3. QED
      BY <2>1, <3>2, EmptySeq DEF Mounted, Reached, TopicCalls, SubscriptionCalls, Last
  <2>3. Ready(p) /\ Settled(p)
    BY <2>1 DEF Ready, Settled, TopicCalls, SubscriptionCalls, Last
  <2>4. Past(p)
    BY <2>1, EmptySeq DEF Past, MountedSoFar
  <2>5. Recorded(p)
    BY <2>1 DEF Recorded
  <2>6. Excused(p)
    BY <2>1, NoneAssumption DEF Excused
  <2>7. QED
    BY <2>2, <2>3, <2>4, <2>5, <2>6 DEF Local
<1>4. QED
  BY <1>1, <1>2, <1>3 DEF StartInv

LEMMA NextKeeps == StartInv /\ [Next]_vars => StartInv'
<1> SUFFICES ASSUME StartInv, [Next]_vars PROVE StartInv'
  OBVIOUS
<1>1. CASE UNCHANGED vars
  <2>1. /\ Types' /\ PoliciesStand' /\ Grows
        /\ \A q \in Process : Alone(q)
    BY <1>1 DEF StartInv, Types, PoliciesStand, Exists, Grows, Alone, vars, service, local, trouble
  <2>2. \A q \in Process : Local(q)'
    BY <2>1, OthersKept
  <2>3. QED
    BY <2>1, <2>2 DEF StartInv
<1>2. ASSUME NEW p \in Process, Proceed(p) \/ Shutdown(p) \/ Restart(p) \/ Crash(p)
      PROVE  StartInv'
  <2>1. CASE Declare(p)
    BY <2>1, DeclareKeeps
  <2>2. CASE Open(p)
    BY <2>2, OpenKeeps
  <2>3. CASE GetTopic(p) \/ CreateTopic(p) \/ RegetTopic(p)
    BY <2>3, GetTopicKeeps, CreateTopicKeeps, RegetTopicKeeps
  <2>4. CASE GetSubscription(p) \/ CreateSubscription(p) \/ RegetSubscription(p)
    BY <2>4, GetSubscriptionKeeps, CreateSubscriptionKeeps, RegetSubscriptionKeeps
  <2>5. CASE WritePolicy(p)
    BY <2>5, WritePolicyKeeps
  <2>6. CASE Attach(p) \/ Limits(p) \/ Learn(p)
    BY <2>6, AttachKeeps, LimitsKeeps, LearnKeeps
  <2>7. CASE Shutdown(p)
    BY <2>7, ShutdownKeeps
  <2>8. CASE Restart(p)
    <3>1. Anew(p) /\ faults' \in 0..MaxFaults
      BY <2>8 DEF StartInv, Types, Restart
    <3>2. QED
      BY <3>1, AnewKeeps
  <2>9. CASE Crash(p)
    <3>1. Anew(p) /\ faults' \in 0..MaxFaults
      BY <2>9, BoundAssumption DEF StartInv, Types, Crash
    <3>2. QED
      BY <3>1, AnewKeeps
  <2>10. QED
    BY <1>2, <2>1, <2>2, <2>3, <2>4, <2>5, <2>6, <2>7, <2>8, <2>9 DEF Proceed
<1>3. QED
  BY <1>1, <1>2 DEF Next

\* Startup: what the invariant of this module says of every reachable state.
LEMMA StartHolds == Spec => []StartInv
BY InitStarts, NextKeeps, PTL DEF Spec

\* The types of Startup's state, with no more registrations open than are
\* mounted (subscription.rs, broker.rs).
THEOREM StartTyped == Spec => []TypeOK
<1>1. StartInv => TypeOK
  BY DEF StartInv, Types, TypeOK, Local, Mounted
<1>2. QED
  BY <1>1, StartHolds, PTL

\* A startup that owns its topology fails on a call only where the service
\* failed it, whoever else creates the same topology (broker.rs:316-317).
THEOREM RacesResolve == Spec => []LostRaceResolved
<1>1. StartInv => LostRaceResolved
  BY DEF StartInv, Local, Excused, LostRaceResolved
<1>2. QED
  BY <1>1, StartHolds, PTL

\* Where all the declarations of a subscription agree, their policy is on it
\* from the first registration that is open (broker.rs, set_dead_letter_policy).
THEOREM PoliciesInForce == Spec => []PolicyInForce
<1>1. ASSUME StartInv PROVE PolicyInForce
  <2>1. ASSUME NEW p \in Process, NEW i \in 1..Len(caps[p])
        PROVE  Asked(SubOf[plan[p][i].name]) = {plan[p][i].declares} =>
                 policy[SubOf[plan[p][i].name]] = plan[p][i].declares
    BY <1>1, <2>1 DEF StartInv, Local, Past, MountedSoFar, Written
  <2>2. QED
    BY <2>1 DEF PolicyInForce, OpenedMounts
<1>2. QED
  BY <1>1, StartHolds, PTL

\* A subscriber settles against a cap its subscription carried, or against none
\* where a call met a fault (learn_delivery_cap).
THEOREM CapsWereCarried == Spec => []CapWasCarried
<1>1. ASSUME StartInv PROVE CapWasCarried
  <2>1. ASSUME NEW p \in Process PROVE DOMAIN caps[p] = MountedSoFar(p)
    BY <1>1, Mounts DEF StartInv, MountedSoFar
  <2>2. ASSUME NEW p \in Process, NEW i \in DOMAIN caps[p] PROVE CapCarried(p, i)
    BY <1>1, <2>1 DEF StartInv, Local, Past
  <2>3. QED
    BY <2>2 DEF CapWasCarried, CapCarried
<1>2. QED
  BY <1>1, StartHolds, PTL

\* A test build has recorded the topic of every subscription it owns, and the
\* right one unless a call met a fault (learn_attachment).
THEOREM AttachmentsKnown == Spec => []HarnessKnowsAttachment
<1>1. ASSUME StartInv PROVE HarnessKnowsAttachment
  <2>1. ASSUME NEW p \in Process, NEW i \in 1..Len(caps[p]), Testing, plan[p][i].topic # None
        PROVE  LET s == SubOf[plan[p][i].name]
               IN attached[p][s] # None /\ (attached[p][s] = topicOf[s] \/ hit[p])
    <3>1. /\ plan[p][i].name \in Name /\ attached[p][SubOf[plan[p][i].name]] # None
          /\ Recorded(p)
      BY <1>1, <2>1 DEF StartInv, Local, Past, MountedSoFar
    <3>2. SubOf[plan[p][i].name] \in Subscription
      BY <3>1, SubOfAssumption
    <3>3. QED
      BY <3>1, <3>2 DEF Recorded
  <2>2. QED
    BY <2>1 DEF HarnessKnowsAttachment, OpenedMounts
<1>2. QED
  BY <1>1, StartHolds, PTL

-----------------------------------------------------------------------------
(* One declaration for a name *)

\* Bare names spelled alike that are open in one process declare the same: the
\* part of the sentence of OnePolicyPerSubscription that the ledger keeps.
OneDeclarationPerName ==
    \A p \in Process : \A m, n \in OpenedMounts(p) :
        m.bare /\ n.bare /\ m.name = n.name => m.declares = n.declares

\* The ledger still has what each bare name that is open declared.
LedgerStands ==
    \A p \in Process : \A i \in MountedSoFar(p) :
        plan[p][i].bare => /\ plan[p][i].name \in Name
                           /\ ledger[p][plan[p][i].name] = plan[p][i].declares

LEMMA OpenMounts ==
    ASSUME StartInv, NEW p \in Process
    PROVE  \A i \in MountedSoFar(p) : plan[p][i] \in Registration /\ plan[p][i].declares # None
<1>1. Len(caps[p]) \in Nat /\ Len(plan[p]) \in Nat /\ Len(caps[p]) <= Len(plan[p])
  BY Mounts DEF StartInv, Local, Mounted
<1>2. \A i \in MountedSoFar(p) : i \in DOMAIN plan[p]
  BY <1>1, Mounts DEF StartInv, MountedSoFar
<1>3. \A i \in MountedSoFar(p) : plan[p][i] \in Registration
  BY <1>2, Mounts DEF StartInv
<1>4. QED
  BY <1>3, NoneAssumption DEF Registration

\* A declaration is taken where the name has none, or the same.
LEMMA LedgerDeclares ==
    ASSUME StartInv, LedgerStands, NEW p \in Process, Declare(p)
    PROVE  LedgerStands'
<1>1. UNCHANGED <<plan, caps>>
  BY DEF Declare
<1>2. \/ UNCHANGED ledger
      \/ \E d : /\ ledger[p][Mounting(p).name] \in {None, d}
                /\ ledger' = [ledger EXCEPT ![p][Mounting(p).name] = d]
  BY DEF Declare, Takes
<1>3. CASE UNCHANGED ledger
  BY <1>1, <1>3 DEF LedgerStands, MountedSoFar
<1>4. ASSUME NEW d, ledger[p][Mounting(p).name] \in {None, d},
             ledger' = [ledger EXCEPT ![p][Mounting(p).name] = d]
      PROVE  LedgerStands'
  <2>1. ledger \in [Process -> [Name -> Declaration \cup {None}]]
    BY DEF StartInv, Types
  <2>2. \A q \in Process : \A n \in Name : ledger'[q][n] = ledger[q][n] \/ ledger[q][n] = None
    BY <1>4, <2>1
  <2>3. ASSUME NEW q \in Process, NEW i \in MountedSoFar(q), plan[q][i].bare
        PROVE  plan[q][i].name \in Name /\ ledger'[q][plan[q][i].name] = plan[q][i].declares
    BY <2>2, <2>3, OpenMounts DEF LedgerStands
  <2>4. QED
    BY <1>1, <2>3 DEF LedgerStands, MountedSoFar
<1>5. QED
  BY <1>2, <1>3, <1>4

\* What opens declared what the ledger has.
LEMMA LedgerOpens ==
    ASSUME StartInv, LedgerStands, NEW p \in Process, pc[p] \in Reached, NEW cap,
           Opened(p, cap), UNCHANGED <<plan, ledger>>
    PROVE  LedgerStands'
<1>1. /\ Len(caps[p]) \in Nat /\ caps \in [Process -> Seq(DELIVERY_ATTEMPTS \cup {None})]
      /\ caps' = [caps EXCEPT ![p] = Append(@, cap)]
  BY Mounts DEF StartInv, Types, Opened
<1>2. /\ Len(Append(caps[p], cap)) = Len(caps[p]) + 1
      /\ \A q \in Process : q # p => caps'[q] = caps[q]
      /\ caps'[p] = Append(caps[p], cap)
  BY <1>1 DEF Append
<1>3. Mounting(p).bare =>
        Mounting(p).name \in Name /\ ledger[p][Mounting(p).name] = Mounting(p).declares
  BY DEF StartInv, Local, Mounted
<1>4. ASSUME NEW q \in Process, NEW i \in MountedSoFar(q)', plan[q][i].bare
      PROVE  plan[q][i].name \in Name /\ ledger[q][plan[q][i].name] = plan[q][i].declares
  <2>1. CASE i \in MountedSoFar(q)
    BY <1>4, <2>1 DEF LedgerStands
  <2>2. CASE i \notin MountedSoFar(q)
    <3>1. q = p /\ i = Len(caps[p]) + 1
      BY <1>1, <1>2, <1>4, <2>2 DEF MountedSoFar
    <3>2. plan[q][i] = Mounting(p)
      BY <3>1 DEF Mounting
    <3>3. QED
      BY <1>3, <1>4, <3>1, <3>2
  <2>3. QED
    BY <2>1, <2>2
<1>5. QED
  BY <1>4 DEF LedgerStands

\* A process that starts over has nothing open.
LEMMA LedgerAnew ==
    ASSUME StartInv, LedgerStands, NEW p \in Process, Anew(p)
    PROVE  LedgerStands'
<1>1. /\ caps \in [Process -> Seq(DELIVERY_ATTEMPTS \cup {None})]
      /\ ledger \in [Process -> [Name -> Declaration \cup {None}]]
  BY DEF StartInv, Types
<1>2. /\ plan' = plan /\ Len(caps'[p]) = 0
      /\ \A q \in Process : q # p => caps'[q] = caps[q] /\ ledger'[q] = ledger[q]
  BY <1>1 DEF Anew
<1>3. ASSUME NEW q \in Process, NEW i \in MountedSoFar(q)' PROVE q # p /\ i \in MountedSoFar(q)
  BY <1>2, <1>3 DEF MountedSoFar
<1>4. QED
  BY <1>2, <1>3 DEF LedgerStands

LEMMA LedgerKept == StartInv /\ LedgerStands /\ [Next]_vars => LedgerStands'
<1> SUFFICES ASSUME StartInv, LedgerStands, [Next]_vars PROVE LedgerStands'
  OBVIOUS
<1>1. ASSUME UNCHANGED <<plan, caps, ledger>> PROVE LedgerStands'
  BY <1>1 DEF LedgerStands, MountedSoFar
<1>2. CASE UNCHANGED vars
  BY <1>1, <1>2 DEF vars, local
<1>3. ASSUME NEW p \in Process, Proceed(p) \/ Shutdown(p) \/ Restart(p) \/ Crash(p)
      PROVE  LedgerStands'
  <2>1. CASE Declare(p)
    BY <2>1, LedgerDeclares
  <2>2. CASE Open(p) \/ GetTopic(p) \/ CreateTopic(p) \/ RegetTopic(p)
    BY <1>1, <2>2 DEF Open, GetTopic, CreateTopic, RegetTopic, TopicStep
  <2>3. CASE GetSubscription(p) \/ CreateSubscription(p) \/ RegetSubscription(p) \/ WritePolicy(p)
    BY <1>1, <2>3
       DEF GetSubscription, CreateSubscription, RegetSubscription, WritePolicy, SubscriptionStep
  <2>4. CASE Attach(p) \/ Shutdown(p)
    BY <1>1, <2>4 DEF Attach, Shutdown
  <2>5. CASE Limits(p) \/ Learn(p)
    <3>1. pc[p] \in Reached /\ UNCHANGED <<plan, ledger>>
      BY <2>5 DEF Limits, Learn, Reached, Last
    <3>2. UNCHANGED caps \/ \E cap : Opened(p, cap)
      BY <2>5 DEF Limits, Learn
    <3>3. QED
      BY <1>1, <3>1, <3>2, LedgerOpens
  <2>6. CASE Restart(p) \/ Crash(p)
    BY <2>6, LedgerAnew DEF Restart, Crash
  <2>7. QED
    BY <1>3, <2>1, <2>2, <2>3, <2>4, <2>5, <2>6 DEF Proceed
<1>4. QED
  BY <1>2, <1>3 DEF Next

\* Two bare names spelled alike open with one declaration, in every process and
\* whatever fails or restarts (DeclaredRetries::take, subscription.rs:490).  Two
\* spellings of one subscription, or a descriptor beside a bare name, may not.
THEOREM NamesDeclareOnce == Spec => []OneDeclarationPerName
<1>1. Init => LedgerStands
  BY DEF Init, LedgerStands, MountedSoFar
<1>2. LedgerStands => OneDeclarationPerName
  BY DEF LedgerStands, OneDeclarationPerName, OpenedMounts, MountedSoFar
<1>3. QED
  BY <1>1, <1>2, LedgerKept, StartHolds, PTL DEF Spec
=============================================================================
