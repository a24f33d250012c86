---------------------------- MODULE InProcessProofs ----------------------------
(***************************************************************************)
(* Proofs about InProcess for every set of topics, subscriptions,          *)
(* registrations and threads: type correctness, that no message is         *)
(* stranded, that a cap all registrations agree on is never exceeded, that *)
(* every copy of a message is in exactly one place, that the harness's     *)
(* count is exact and falls last, that its prediction of the consumers of  *)
(* a publish is where the publish goes, that each consumer is handed first *)
(* deliveries in their order, and that the transport implements            *)
(* DeliveryContract.                                                       *)
(***************************************************************************)
EXTENDS InProcessRefinement, TLAPS, FiniteSetTheorems

USE DescriptorAssumption, BoundAssumption, NoneAssumption, FiniteAssumption

--------------------------------------------------------------------------------
(***************************************************************************)
(* Part 1: types.  A job's fields are what its pc needs, and the consumers *)
(* still to be opened fit their bound.                                     *)
(***************************************************************************)
JobFields ==
    \A w \in Worker :
        /\ job[w].pc = "open" => job[w].desc \in Descriptor
        /\ job[w].pc = "drain" => job[w].consumer \in ConsumerId /\ lock = w
        /\ job[w].pc = "route" => job[w].topic \in Topic
        /\ job[w].pc = "reject" => job[w].item \in Item
        /\ job[w].pc = "cancel" => job[w].consumer \in ConsumerId

Opening == {w \in Worker : job[w].pc = "open"}

OpensFit == opened + Cardinality(Opening) <= MaxConsumers

TypeInv == TypeOK /\ JobFields /\ OpensFit

LEMMA OpeningFinite == IsFiniteSet(Opening) /\ Cardinality(Opening) \in Nat
<1>1. Opening \in SUBSET Worker
  BY DEF Opening
<1>2. IsFiniteSet(Opening)
  BY <1>1, FS_Subset
<1> QED
  BY <1>2, FS_CardinalityType

\* A set that loses or keeps its workers at "open" still fits.
LEMMA OpeningKept ==
  ASSUME TypeInv, Opening' \subseteq Opening, opened' = opened
  PROVE  OpensFit'
<1>1. Cardinality(Opening') <= Cardinality(Opening) /\ Cardinality(Opening') \in Nat
  BY OpeningFinite, FS_Subset, FS_CardinalityType
<1> QED
  BY <1>1, OpeningFinite DEF TypeInv, OpensFit, TypeOK

LEMMA JobTypes ==
  /\ Idle \in Job
  /\ \A j \in Job : Resume(j) \in Job /\ Settled(j) \in Job
  /\ \A j \in Job : Resume(j).pc \in {"idle", "cancel"}
  /\ \A j \in Job : Settled(j).pc \in {"idle", "cancel", "release"}
  /\ \A j \in Job : Resume(j).pc = "cancel" => Resume(j).consumer \in ConsumerId
  /\ \A j \in Job : Settled(j).pc = "cancel" => Settled(j).consumer \in ConsumerId
  BY ZenonT(60) DEF Job, Idle, Resume, Settled, PC

\* What Hand leaves behind, when it is given items for some subscriptions.
LEMMA HandType ==
  ASSUME TypeOK, NEW given, DOMAIN given \subseteq Sub,
         \A s \in DOMAIN given : given[s] \in Item,
         NEW harness \in BOOLEAN, Hand(given, harness)
  PROVE  /\ turn' \in [Sub -> 0..(TurnWidth - 1)]
         /\ chan' \in [ConsumerId -> Seq(Handed)]
         /\ inflight' \in Int
         /\ backlog' \in [Sub -> Seq(Item)]
<1> DEFINE served == {s \in DOMAIN given : consumers[s] # {}}
           taken == {s \in served : phase[NextConsumer(s)] # "closed"}
<1>1. turn' \in [Sub -> 0..(TurnWidth - 1)]
  <2>1. \A s \in Sub : turn[s] \in 0..(TurnWidth - 1) /\ (turn[s] + 1) % TurnWidth \in 0..(TurnWidth - 1)
    BY DEF TypeOK
  <2> QED
    BY <2>1 DEF Hand
<1>2. chan' \in [ConsumerId -> Seq(Handed)]
  <2>1. ASSUME NEW c \in ConsumerId, subOf[c] \in taken
        PROVE  Append(chan[c], [item |-> given[subOf[c]], counted |-> harness]) \in Seq(Handed)
    <3>1. [item |-> given[subOf[c]], counted |-> harness] \in Handed
      BY <2>1 DEF Handed
    <3> QED
      BY <3>1 DEF TypeOK
  <2>2. \A c \in ConsumerId : chan[c] \in Seq(Handed)
    BY DEF TypeOK
  <2>3. chan' = [c \in ConsumerId |->
                     IF subOf[c] \in taken /\ c = NextConsumer(subOf[c])
                     THEN Append(chan[c], [item |-> given[subOf[c]], counted |-> harness])
                     ELSE chan[c]]
    BY DEF Hand
  <2> HIDE DEF taken
  <2> QED
    BY <2>1, <2>2, <2>3
<1>3. inflight' \in Int
  <2>1. taken \in SUBSET Sub
    OBVIOUS
  <2>2. Cardinality(taken) \in Nat
    BY <2>1, FS_Subset, FS_CardinalityType
  <2>3. inflight' = inflight + IF harness THEN Cardinality(taken) ELSE 0
    BY DEF Hand
  <2> HIDE DEF taken
  <2> QED
    BY <2>2, <2>3 DEF TypeOK
<1>4. backlog' \in [Sub -> Seq(Item)]
  <2>1. \A s \in DOMAIN given : Append(backlog[s], given[s]) \in Seq(Item)
    BY DEF TypeOK
  <2>2. backlog' = [s \in Sub |-> IF s \in (DOMAIN given) \ taken
                                   THEN Append(backlog[s], given[s]) ELSE backlog[s]]
    BY DEF Hand
  <2>3. \A s \in Sub : backlog[s] \in Seq(Item)
    BY DEF TypeOK
  <2> HIDE DEF taken
  <2> QED
    BY <2>1, <2>2, <2>3
<1> QED
  BY <1>1, <1>2, <1>3, <1>4

\* A rejection that becomes a dead-letter move.
LEMMA RouteJob ==
  ASSUME NEW j \in Job, NEW t \in Topic
  PROVE  /\ [j EXCEPT !.pc = "route", !.topic = t] \in Job
         /\ [j EXCEPT !.pc = "route", !.topic = t].pc = "route"
         /\ [j EXCEPT !.pc = "route", !.topic = t].topic = t
  BY DEF Job, PC

LEMMA TypeInit == Init => TypeInv
<1> SUFFICES ASSUME Init PROVE TypeInv
  OBVIOUS
<1>1. TypeOK
  <2>1. 0 \in 0..(TurnWidth - 1)
    OBVIOUS
  <2>2. <<>> \in Seq(Item) /\ <<>> \in Seq(Handed) /\ <<>> \in Seq(Copy \cup {None})
    OBVIOUS
  <2>3. job \in [Worker -> Job]
    BY JobTypes DEF Init
  <2>4. /\ topicOf \in [Sub -> Topic \cup {None}]
        /\ policy \in [Sub -> Policy \cup {None}]
        /\ backlog \in [Sub -> Seq(Item)]
        /\ consumers \in [Sub -> SUBSET ConsumerId]
        /\ turn \in [Sub -> 0..(TurnWidth - 1)]
        /\ log \in [Topic -> Seq(Copy \cup {None})]
    BY <2>1, <2>2 DEF Init
  <2>5. /\ phase \in [ConsumerId -> {"unopened", "opening", "open", "closing", "closed"}]
        /\ subOf \in [ConsumerId -> Sub \cup {None}]
        /\ capOf \in [ConsumerId -> (1..AttemptMax) \cup {None}]
        /\ chan \in [ConsumerId -> Seq(Handed)]
        /\ created \in [Sub -> Nat]
    BY <2>2 DEF Init
  <2>6. /\ lock \in Worker \cup {None}
        /\ draining \in Seq(Item)
        /\ opened \in Nat /\ inflight \in Int /\ publishes \in Nat
    BY <2>2 DEF Init
  <2>7. held \subseteq Delivery /\ timers \subseteq Item /\ acked \subseteq Copy
    BY DEF Init
  <2>8. closed \in BOOLEAN /\ installed \in BOOLEAN
    BY Zenon DEF Init
  <2> QED
    BY <2>3, <2>4, <2>5, <2>6, <2>7, <2>8 DEF TypeOK
<1>2. JobFields
  BY DEF Init, JobFields, Idle
<1>3. OpensFit
  <2>1. Opening = {}
    BY DEF Init, Opening, Idle
  <2> QED
    BY <2>1, FS_EmptySet DEF Init, OpensFit
<1> QED
  BY <1>1, <1>2, <1>3 DEF TypeInv

LEMMA TypeStep == TypeInv /\ [Next]_vars => TypeInv'
<1> SUFFICES ASSUME TypeInv, [Next]_vars PROVE TypeInv'
  OBVIOUS
<1> USE DEF subVars, consumerVars, lockVars, countVars, historyVars
<1>1. CASE Install
  BY <1>1 DEF Install, TypeInv, TypeOK, JobFields, OpensFit, Opening
<1>2. CASE Close
  BY <1>2 DEF Close, TypeInv, TypeOK, JobFields, OpensFit, Opening
<1>3. ASSUME NEW c \in ConsumerId, Poll(c) PROVE TypeInv'
  <2> DEFINE h == Head(chan[c])
             d == [item |-> h.item, counted |-> h.counted,
                   reported |-> policy[subOf[c]] # None, cap |-> capOf[c]]
  <2>1. h \in Handed /\ Tail(chan[c]) \in Seq(Handed)
    BY <1>3 DEF Poll, TypeInv, TypeOK
  <2>2. d \in Delivery
    BY <2>1 DEF TypeInv, TypeOK, Delivery, Handed
  <2>3. held' = held \cup {d}
    BY <1>3 DEF Poll
  <2>4. held' \subseteq Delivery
    BY <2>2, <2>3 DEF TypeInv, TypeOK
  <2>5. chan' \in [ConsumerId -> Seq(Handed)]
    BY <1>3, <2>1 DEF Poll, TypeInv, TypeOK
  <2> QED
    BY SMTT(30), <1>3, <2>4, <2>5 DEF Poll, TypeInv, TypeOK, JobFields, OpensFit, Opening
<1>4. ASSUME NEW w \in Worker, NEW d \in Descriptor, Subscribe(w, d) PROVE TypeInv'
  <2>1. /\ [Idle EXCEPT !.pc = "open", !.desc = d] \in Job
        /\ [Idle EXCEPT !.pc = "open", !.desc = d].pc = "open"
        /\ [Idle EXCEPT !.pc = "open", !.desc = d].desc = d
    BY DEF Idle, Job, PC
  <2>2. TypeOK' /\ JobFields'
    BY <1>4, <2>1 DEF Subscribe, TypeInv, TypeOK, JobFields
  <2>3. Opening' = Opening \cup {w}
    BY <1>4, <2>1 DEF Subscribe, TypeInv, TypeOK, Opening
  <2>4. Cardinality(Opening') <= Cardinality(Opening) + 1 /\ Cardinality(Opening') \in Nat
    <3>1. IsFiniteSet(Opening \cup {w})
          /\ Cardinality(Opening \cup {w})
             = IF w \in Opening THEN Cardinality(Opening) ELSE Cardinality(Opening) + 1
      BY OpeningFinite, FS_AddElement
    <3> QED
      BY <2>3, <3>1, OpeningFinite
  <2>5. opened + Cardinality(Opening) < MaxConsumers /\ opened' = opened
    BY <1>4 DEF Subscribe, Opening
  <2>6. OpensFit'
    BY <2>4, <2>5, OpeningFinite DEF OpensFit, TypeInv, TypeOK
  <2> QED
    BY <2>2, <2>6 DEF TypeInv
<1>5. ASSUME NEW w \in Worker, Open(w) PROVE TypeInv'
  <2> DEFINE d == job[w].desc
             s == d.sub
             c == opened + 1
             j == [Idle EXCEPT !.pc = "drain", !.consumer = c, !.counted = installed]
  <2>1. d \in Descriptor /\ s \in Sub /\ d.topic \in Topic /\ d.policy \in Policy \cup {None}
    BY <1>5 DEF Open, TypeInv, JobFields
  <2>2. PolicyAfter(d) \in Policy \cup {None}
    BY <2>1 DEF PolicyAfter, TypeInv, TypeOK
  <2>3. c \in ConsumerId /\ OpensFit'
    <3>1. w \in Opening
      BY <1>5 DEF Open, Opening
    <3>2. Opening' = Opening \ {w}
      BY <1>5 DEF Open, Opening, Idle, TypeInv, TypeOK
    <3>3. Cardinality(Opening') = Cardinality(Opening) - 1
      BY <3>1, <3>2, OpeningFinite, FS_RemoveElement
    <3>4. Cardinality(Opening) >= 1 /\ Cardinality(Opening) \in Nat
      BY <3>1, OpeningFinite, FS_EmptySet
    <3>5. opened' = opened + 1 /\ opened \in Nat
      BY <1>5 DEF Open, TypeInv, TypeOK
    <3> QED
      BY <3>3, <3>4, <3>5 DEF OpensFit, TypeInv, ConsumerId
  <2>4. j \in Job /\ j.pc = "drain" /\ j.consumer = c
    BY <2>3 DEF Idle, Job, PC, TypeInv, TypeOK
  <2>5. job' = [job EXCEPT ![w] = j] /\ lock = None /\ lock' = w
    BY <1>5 DEF Open, Unlocked
  <2>6. JobFields'
    BY <2>3, <2>4, <2>5 DEF JobFields, TypeInv, TypeOK
  <2>7. /\ topicOf' \in [Sub -> Topic \cup {None}]
        /\ created' \in [Sub -> Nat]
        /\ policy' \in [Sub -> Policy \cup {None}]
    <3>1. topicOf' = [topicOf EXCEPT ![s] = IF @ = None THEN d.topic ELSE @]
      BY <1>5 DEF Open
    <3>2. created' = [created EXCEPT ![s] = IF topicOf[s] = None THEN Len(log[d.topic]) ELSE @]
      BY <1>5 DEF Open
    <3>3. policy' = [policy EXCEPT ![s] = PolicyAfter(d)]
      BY <1>5 DEF Open
    <3>4. Len(log[d.topic]) \in Nat
      BY <2>1 DEF TypeInv, TypeOK
    <3> HIDE DEF d, s
    <3>5. topicOf' \in [Sub -> Topic \cup {None}]
      BY <2>1, <3>1 DEF TypeInv, TypeOK
    <3>6. created' \in [Sub -> Nat]
      BY <2>1, <3>2, <3>4 DEF TypeInv, TypeOK
    <3>7. policy' \in [Sub -> Policy \cup {None}]
      BY <2>1, <2>2, <3>3 DEF TypeInv, TypeOK
    <3> QED
      BY <3>5, <3>6, <3>7
  <2>8. /\ consumers' \in [Sub -> SUBSET ConsumerId]
        /\ backlog' \in [Sub -> Seq(Item)]
        /\ draining' \in Seq(Item)
    <3>1. /\ consumers' = [consumers EXCEPT ![s] = @ \cup {c}]
          /\ backlog' = [backlog EXCEPT ![s] = <<>>]
          /\ draining' = backlog[s]
      BY <1>5 DEF Open
    <3> HIDE DEF d, s, c
    <3>2. consumers' \in [Sub -> SUBSET ConsumerId]
      BY <2>1, <2>3, <3>1 DEF TypeInv, TypeOK
    <3>3. backlog' \in [Sub -> Seq(Item)] /\ draining' \in Seq(Item)
      BY <2>1, <3>1 DEF TypeInv, TypeOK
    <3> QED
      BY <3>2, <3>3
  <2>9. /\ phase' \in [ConsumerId -> {"unopened", "opening", "open", "closing", "closed"}]
        /\ subOf' \in [ConsumerId -> Sub \cup {None}]
    BY <1>5, <2>1, <2>3 DEF Open, TypeInv, TypeOK
  <2>10. capOf' \in [ConsumerId -> (1..AttemptMax) \cup {None}]
    <3>1. (IF PolicyAfter(d) = None THEN None ELSE PolicyAfter(d).max) \in (1..AttemptMax) \cup {None}
      BY <2>2 DEF Policy
    <3> QED
      BY <1>5, <3>1 DEF Open, TypeInv, TypeOK
  <2>11. job' \in [Worker -> Job] /\ lock' \in Worker \cup {None} /\ opened' \in Nat
    BY <1>5, <2>4, <2>5 DEF Open, TypeInv, TypeOK
  <2>12. UNCHANGED <<turn, countVars, acked, publishes, log, closed, chan, held, timers>>
    BY <1>5 DEF Open
  <2>13. TypeOK'
    BY <2>7, <2>8, <2>9, <2>10, <2>11, <2>12 DEF TypeInv, TypeOK
  <2> QED
    BY <2>3, <2>6, <2>13 DEF TypeInv
<1>6. ASSUME NEW w \in Worker, Drain(w) PROVE TypeInv'
  <2> DEFINE item == Head(draining)
  <2>1. item \in Item /\ Tail(draining) \in Seq(Item)
    BY <1>6 DEF Drain, TypeInv, TypeOK
  <2>2. Hand([s \in {item.sub} |-> item], job[w].counted)
    BY <1>6 DEF Drain
  <2>3. item.sub \in Sub /\ job[w].counted \in BOOLEAN
    BY <2>1 DEF Item, TypeInv, TypeOK, Job
  <2>4. /\ turn' \in [Sub -> 0..(TurnWidth - 1)]
        /\ chan' \in [ConsumerId -> Seq(Handed)]
        /\ inflight' \in Int
        /\ backlog' \in [Sub -> Seq(Item)]
    BY <2>1, <2>2, <2>3, HandType DEF TypeInv
  <2> QED
    BY <1>6, <2>1, <2>4 DEF Drain, TypeInv, TypeOK, JobFields, OpensFit, Opening
<1>7. ASSUME NEW w \in Worker, Opened(w) PROVE TypeInv'
  <2>1. job[w].consumer \in ConsumerId /\ lock = w
    BY <1>7 DEF Opened, TypeInv, JobFields
  <2>2. TypeOK'
    BY <1>7, <2>1, JobTypes DEF Opened, TypeInv, TypeOK
  <2>3. JobFields'
    BY <1>7, <2>1, JobTypes DEF Opened, TypeInv, TypeOK, JobFields, Idle
  <2>4. Opening' \subseteq Opening
    BY <1>7 DEF Opened, TypeInv, TypeOK, Opening, Idle
  <2> QED
    BY <1>7, <2>2, <2>3, <2>4, OpeningKept DEF Opened, TypeInv
<1>8. ASSUME NEW w \in Worker, NEW t \in Topic, Publish(w, t) PROVE TypeInv'
  <2> DEFINE j == [Idle EXCEPT !.pc = "route", !.topic = t]
  <2>1. j \in Job /\ j.pc = "route" /\ j.topic = t
    BY DEF Idle, Job, PC
  <2>2. TypeOK' /\ JobFields'
    BY SMTT(30), <1>8, <2>1 DEF Publish, TypeInv, TypeOK, JobFields
  <2>3. Opening' \subseteq Opening
    BY <1>8, <2>1 DEF Publish, TypeInv, TypeOK, Opening
  <2> QED
    BY <1>8, <2>2, <2>3, OpeningKept DEF Publish, TypeInv
<1>9. ASSUME NEW w \in Worker, Route(w) PROVE TypeInv'
  <2> DEFINE t == job[w].topic
             item == job[w].item
             at == Len(log[t]) + 1
             attached == {s \in Sub : topicOf[s] = t}
             entry == IF item = None THEN None ELSE CopyOf(item)
             given == [s \in attached |-> [sub |-> s, at |-> at, attempt |-> 1]]
  <2>1. t \in Topic /\ item \in Item \cup {None}
    BY <1>9 DEF Route, TypeInv, JobFields, TypeOK, Job
  <2>2. entry \in Copy \cup {None}
    BY <2>1 DEF CopyOf, Item, Copy
  <2>3. log' \in [Topic -> Seq(Copy \cup {None})]
    BY <1>9, <2>1, <2>2 DEF Route, TypeInv, TypeOK
  <2>4. at \in Nat \ {0}
    BY <2>1 DEF TypeInv, TypeOK
  <2>5. \A s \in DOMAIN given : given[s] \in Item
    BY <2>4 DEF Item
  <2>6. Hand(given, installed) /\ DOMAIN given \subseteq Sub /\ installed \in BOOLEAN
    BY <1>9 DEF Route, TypeInv, TypeOK
  <2>7. /\ turn' \in [Sub -> 0..(TurnWidth - 1)]
        /\ chan' \in [ConsumerId -> Seq(Handed)]
        /\ inflight' \in Int
        /\ backlog' \in [Sub -> Seq(Item)]
    BY <2>5, <2>6, HandType DEF TypeInv
  <2>8. Settled(job[w]) \in Job /\ Settled(job[w]).pc \in {"idle", "cancel", "release"}
        /\ (Settled(job[w]).pc = "cancel" => Settled(job[w]).consumer \in ConsumerId)
    BY JobTypes DEF TypeInv, TypeOK
  <2>9. TypeOK' /\ JobFields'
    BY <1>9, <2>3, <2>7, <2>8 DEF Route, TypeInv, TypeOK, JobFields
  <2>10. Opening' \subseteq Opening
    BY <1>9, <2>8 DEF Route, TypeInv, TypeOK, Opening
  <2> QED
    BY <1>9, <2>9, <2>10, OpeningKept DEF Route, TypeInv
<1>10. ASSUME NEW w \in Worker, NEW d \in held, Acknowledge(w, d) PROVE TypeInv'
  <2>1. d \in Delivery /\ CopyOf(d.item) \in Copy
    BY DEF TypeInv, TypeOK, Delivery, CopyOf, Item, Copy
  <2>2. /\ Gone(d) \in Job
        /\ Gone(d).pc \in {"idle", "cancel", "release"}
        /\ Gone(d).pc = "cancel" => Gone(d).consumer \in ConsumerId
    BY <2>1, JobTypes DEF Gone, Delivery, Idle, Job
  <2>3. TypeOK' /\ JobFields'
    BY <1>10, <2>1, <2>2 DEF Acknowledge, TypeInv, TypeOK, JobFields
  <2>4. Opening' \subseteq Opening
    BY <1>10, <2>2 DEF Acknowledge, TypeInv, TypeOK, Opening
  <2> QED
    BY <1>10, <2>3, <2>4, OpeningKept DEF Acknowledge, TypeInv
<1>11. ASSUME NEW w \in Worker, NEW d \in held, Nack(w, d) PROVE TypeInv'
  <2> DEFINE j == [Idle EXCEPT !.pc = "reject", !.item = d.item, !.counted = d.counted]
  <2>1. j \in Job /\ j.pc = "reject" /\ j.item \in Item
    BY DEF Idle, Job, PC, TypeInv, TypeOK, Delivery
  <2>2. TypeOK' /\ JobFields'
    BY <1>11, <2>1 DEF Nack, TypeInv, TypeOK, JobFields
  <2>3. Opening' \subseteq Opening
    BY <1>11, <2>1 DEF Nack, TypeInv, TypeOK, Opening
  <2> QED
    BY <1>11, <2>2, <2>3, OpeningKept DEF Nack, TypeInv
<1>12. ASSUME NEW w \in Worker, NEW d \in held, RejectAfter(w, d) PROVE TypeInv'
  <2>1. d \in Delivery /\ d.item \in Item
    BY DEF TypeInv, TypeOK, Delivery
  <2>2. /\ Gone(d) \in Job
        /\ Gone(d).pc \in {"idle", "cancel", "release"}
        /\ Gone(d).pc = "cancel" => Gone(d).consumer \in ConsumerId
    BY <2>1, JobTypes DEF Gone, Delivery, Idle, Job
  <2>3. TypeOK' /\ JobFields'
    BY <1>12, <2>1, <2>2 DEF RejectAfter, TypeInv, TypeOK, JobFields
  <2>4. Opening' \subseteq Opening
    BY <1>12, <2>2 DEF RejectAfter, TypeInv, TypeOK, Opening
  <2> QED
    BY <1>12, <2>3, <2>4, OpeningKept DEF RejectAfter, TypeInv
<1>13. ASSUME NEW w \in Worker, NEW item \in timers, Fire(w, item) PROVE TypeInv'
  <2> DEFINE j == [Idle EXCEPT !.pc = "reject", !.item = item]
  <2>1. j \in Job /\ j.pc = "reject" /\ j.item \in Item
    BY DEF Idle, Job, PC, TypeInv, TypeOK
  <2>2. TypeOK' /\ JobFields'
    BY <1>13, <2>1 DEF Fire, TypeInv, TypeOK, JobFields
  <2>3. Opening' \subseteq Opening
    BY <1>13, <2>1 DEF Fire, TypeInv, TypeOK, Opening
  <2> QED
    BY <1>13, <2>2, <2>3, OpeningKept DEF Fire, TypeInv
<1>14. ASSUME NEW w \in Worker, Reject(w) PROVE TypeInv'
  <2> DEFINE item == job[w].item
  <2>1. item \in Item /\ item.sub \in Sub /\ NextAttempt(item) \in Item
    BY <1>14 DEF Reject, TypeInv, JobFields, Item, NextAttempt
  <2>2. CASE Spent(item)
    <3> DEFINE j == [job[w] EXCEPT !.pc = "route", !.topic = policy[item.sub].topic]
    <3>1. policy[item.sub].topic \in Topic
      BY <2>1, <2>2 DEF Spent, TypeInv, TypeOK, Policy
    <3>2. j \in Job /\ j.pc = "route" /\ j.topic \in Topic
      <4>1. job[w] \in Job
        BY DEF TypeInv, TypeOK
      <4> QED
        BY <3>1, <4>1, RouteJob
    <3>3. job' = [job EXCEPT ![w] = j] /\ UNCHANGED <<backlog, turn, inflight, chan>>
      BY <1>14, <2>2 DEF Reject
    <3>4. TypeOK' /\ JobFields'
      BY <1>14, <3>2, <3>3 DEF Reject, TypeInv, TypeOK, JobFields
    <3>5. Opening' \subseteq Opening
      BY <3>2, <3>3 DEF TypeInv, TypeOK, Opening
    <3> QED
      BY <1>14, <3>4, <3>5, OpeningKept DEF Reject, TypeInv
  <2>3. CASE ~Spent(item)
    <3>1. /\ Hand([s \in {item.sub} |-> NextAttempt(item)], installed)
          /\ job' = [job EXCEPT ![w] = Settled(@)]
          /\ installed \in BOOLEAN
      BY <1>14, <2>3 DEF Reject, TypeInv, TypeOK
    <3>2. /\ turn' \in [Sub -> 0..(TurnWidth - 1)]
          /\ chan' \in [ConsumerId -> Seq(Handed)]
          /\ inflight' \in Int
          /\ backlog' \in [Sub -> Seq(Item)]
      BY <2>1, <3>1, HandType DEF TypeInv
    <3>3. Settled(job[w]) \in Job /\ Settled(job[w]).pc \in {"idle", "cancel", "release"}
          /\ (Settled(job[w]).pc = "cancel" => Settled(job[w]).consumer \in ConsumerId)
      BY JobTypes DEF TypeInv, TypeOK
    <3>4. TypeOK' /\ JobFields'
      BY <1>14, <3>1, <3>2, <3>3 DEF Reject, TypeInv, TypeOK, JobFields
    <3>5. Opening' \subseteq Opening
      BY <3>1, <3>3 DEF TypeInv, TypeOK, Opening
    <3> QED
      BY <1>14, <3>4, <3>5, OpeningKept DEF Reject, TypeInv
  <2> QED
    BY <2>2, <2>3
<1>15. ASSUME NEW w \in Worker, Release(w) PROVE TypeInv'
  <2>1. /\ Resume(job[w]) \in Job
        /\ Resume(job[w]).pc \in {"idle", "cancel"}
        /\ Resume(job[w]).pc = "cancel" => Resume(job[w]).consumer \in ConsumerId
    BY JobTypes DEF TypeInv, TypeOK
  <2>2. TypeOK' /\ JobFields'
    BY <1>15, <2>1 DEF Release, TypeInv, TypeOK, JobFields
  <2>3. Opening' \subseteq Opening
    BY <1>15, <2>1 DEF Release, TypeInv, TypeOK, Opening
  <2> QED
    BY <1>15, <2>2, <2>3, OpeningKept DEF Release, TypeInv
<1>16. ASSUME NEW w \in Worker, NEW c \in ConsumerId, Cancel(w, c) PROVE TypeInv'
  <2> DEFINE j == [Idle EXCEPT !.pc = "cancel", !.consumer = c]
  <2>1. j \in Job /\ j.pc = "cancel" /\ j.consumer = c
    BY DEF Idle, Job, PC
  <2>2. TypeOK' /\ JobFields'
    BY <1>16, <2>1 DEF Cancel, TypeInv, TypeOK, JobFields
  <2>3. Opening' \subseteq Opening
    BY <1>16, <2>1 DEF Cancel, TypeInv, TypeOK, Opening
  <2> QED
    BY <1>16, <2>2, <2>3, OpeningKept DEF Cancel, TypeInv
<1>17. ASSUME NEW w \in Worker, CancelNext(w) PROVE TypeInv'
  <2> DEFINE c == job[w].consumer
             item == Head(chan[c]).item
             counted == Head(chan[c]).counted
             j == [job[w] EXCEPT !.pc = "reject", !.item = item, !.counted = counted]
  <2>1. c \in ConsumerId /\ chan[c] # <<>>
    BY <1>17 DEF CancelNext, TypeInv, JobFields
  <2>2. Head(chan[c]) \in Handed /\ Tail(chan[c]) \in Seq(Handed)
    BY <2>1 DEF TypeInv, TypeOK
  <2>3. j \in Job /\ j.pc = "reject" /\ j.item \in Item
    <3>1. item \in Item /\ counted \in BOOLEAN
      BY <2>2 DEF Handed
    <3>2. job[w] \in Job
      BY DEF TypeInv, TypeOK
    <3> HIDE DEF item, counted
    <3> QED
      BY <3>1, <3>2 DEF Job, PC
  <2>4. job' = [job EXCEPT ![w] = j] /\ chan' = [chan EXCEPT ![c] = Tail(@)]
    BY <1>17 DEF CancelNext
  <2>5. TypeOK' /\ JobFields'
    <3>1. UNCHANGED <<subVars, consumerVars, lockVars, countVars, historyVars, log, closed, opened,
                      held, timers>>
      BY <1>17 DEF CancelNext
    <3> HIDE DEF j, c
    <3>2. job' \in [Worker -> Job] /\ chan' \in [ConsumerId -> Seq(Handed)]
      BY <2>1, <2>2, <2>3, <2>4 DEF TypeInv, TypeOK
    <3>3. TypeOK'
      BY <3>1, <3>2 DEF TypeInv, TypeOK, subVars, consumerVars, lockVars, countVars, historyVars
    <3>4. JobFields'
      BY <2>3, <2>4, <3>1 DEF TypeInv, TypeOK, JobFields, lockVars
    <3> QED
      BY <3>3, <3>4
  <2>6. Opening' \subseteq Opening
    BY <2>3, <2>4 DEF TypeInv, TypeOK, Opening
  <2> QED
    BY <1>17, <2>5, <2>6, OpeningKept DEF CancelNext, TypeInv
<1>18. ASSUME NEW w \in Worker, Cancelled(w) PROVE TypeInv'
  <2>1. Idle.pc = "idle"
    BY DEF Idle
  <2>2. TypeOK' /\ JobFields'
    BY <1>18, <2>1, JobTypes DEF Cancelled, TypeInv, TypeOK, JobFields
  <2>3. Opening' \subseteq Opening
    BY <1>18, <2>1 DEF Cancelled, TypeInv, TypeOK, Opening
  <2> QED
    BY <1>18, <2>2, <2>3, OpeningKept DEF Cancelled, TypeInv
<1>19. CASE UNCHANGED vars
  BY <1>19 DEF vars, TypeInv, TypeOK, JobFields, OpensFit, Opening
<1> QED
  BY <1>1, <1>2, <1>3, <1>4, <1>5, <1>6, <1>7, <1>8, <1>9, <1>10, <1>11, <1>12, <1>13, <1>14,
     <1>15, <1>16, <1>17, <1>18, <1>19
     DEF Next, Proceed, Settle, DropMessage

\* The in-process transport keeps its types, whatever the registrations, the
\* topics and the threads are.
THEOREM TypeCorrect == Spec => []TypeOK
<1>1. Init => TypeInv
  BY TypeInit
<1>2. TypeInv /\ [Next]_vars => TypeInv'
  BY TypeStep
<1>3. TypeInv => TypeOK
  BY DEF TypeInv
<1> QED
  BY <1>1, <1>2, <1>3, PTL DEF Spec

--------------------------------------------------------------------------------
(***************************************************************************)
(* Part 2: NoStranding.  Hand never falls back to the backlog while a      *)
(* consumer is open, because the rotation holds only consumers that still  *)
(* read: a consumer leaves it before its channel goes.  That the step that *)
(* closes a channel closes that of a consumer already out of the rotation  *)
(* takes knowing which consumer each thread is at work on.                 *)
(***************************************************************************)
RotationReads ==
    \A s \in Sub : \A c \in consumers[s] : subOf[c] = s /\ phase[c] \in {"opening", "open"}

BacklogAlone == \A s \in Sub : backlog[s] # <<>> => consumers[s] = {}

LaterUnopened == \A c \in ConsumerId : c > opened => phase[c] = "unopened"

JobConsumers ==
    /\ \A w \in Worker : job[w].consumer # None =>
          phase[job[w].consumer] = IF job[w].pc = "drain" THEN "opening" ELSE "closing"
    /\ \A v, w \in Worker : v # w /\ job[v].consumer # None => job[v].consumer # job[w].consumer

StrandInv == RotationReads /\ BacklogAlone /\ LaterUnopened /\ JobConsumers

\* Every place of a rotation has a consumer: the ranks of a finite set of
\* numbers are all the numbers below its size.
LEMMA NthIn ==
  ASSUME NEW S \in SUBSET Int, IsFiniteSet(S), NEW k \in 0..(Cardinality(S) - 1)
  PROVE  Nth(S, k) \in S /\ Cardinality({x \in S : x < Nth(S, k)}) = k
<1> DEFINE n == Cardinality(S)
           Below(x) == {y \in S : y < x}
           rank == [x \in S |-> Cardinality(Below(x))]
<1>1. n \in Nat
  BY FS_CardinalityType
<1>2. ASSUME NEW x \in S
      PROVE  /\ IsFiniteSet(Below(x)) /\ Cardinality(Below(x)) \in Nat
             /\ rank[x] = Cardinality(Below(x))
  <2>1. Below(x) \in SUBSET S
    OBVIOUS
  <2> QED
    BY <2>1, FS_Subset, FS_CardinalityType
<1>3. ASSUME NEW x \in S PROVE Cardinality(Below(x)) \in 0..(n - 1)
  <2>1. Below(x) \in SUBSET (S \ {x})
    OBVIOUS
  <2>2. IsFiniteSet(S \ {x}) /\ Cardinality(S \ {x}) = n - 1
    BY FS_RemoveElement
  <2>3. Cardinality(Below(x)) <= Cardinality(S \ {x})
    BY <2>1, <2>2, FS_Subset
  <2> HIDE DEF Below, n
  <2> QED
    BY <1>1, <1>2, <2>2, <2>3
<1>4. ASSUME NEW x \in S, NEW y \in S, x < y
      PROVE  Cardinality(Below(x)) < Cardinality(Below(y))
  <2>1. Below(x) \cup {x} \in SUBSET Below(y) /\ x \notin Below(x)
    BY <1>4
  <2>2. Cardinality(Below(x) \cup {x})
        = IF x \in Below(x) THEN Cardinality(Below(x)) ELSE Cardinality(Below(x)) + 1
    <3>1. IsFiniteSet(Below(x))
      BY <1>2
    <3> HIDE DEF Below
    <3> QED
      BY <3>1, FS_AddElement
  <2>3. Cardinality(Below(x) \cup {x}) <= Cardinality(Below(y))
    BY <1>2, <2>1, FS_Subset
  <2> HIDE DEF Below
  <2> QED
    BY <1>2, <2>1, <2>2, <2>3
<1>5. rank \in Injection(S, 0..(n - 1))
  <2>1. rank \in [S -> 0..(n - 1)]
    BY <1>3
  <2>2. \A x, y \in S : rank[x] = rank[y] => x = y
    <3> SUFFICES ASSUME NEW x \in S, NEW y \in S, x # y PROVE rank[x] # rank[y]
      OBVIOUS
    <3>1. x < y \/ y < x
      OBVIOUS
    <3> HIDE DEF rank, Below
    <3> QED
      BY <1>2, <1>4, <3>1
  <2> QED
    BY <2>1, <2>2 DEF Injection, IsInjective
<1>6. IsFiniteSet(0..(n - 1)) /\ Cardinality(0..(n - 1)) = n
  <2> HIDE DEF n
  <2>1. 0 \in Int /\ n - 1 \in Int /\ (0 > n - 1 => n = 0)
    BY <1>1
  <2>2. /\ IsFiniteSet(0..(n - 1))
        /\ Cardinality(0..(n - 1)) = IF 0 > n - 1 THEN 0 ELSE (n - 1) - 0 + 1
    BY <2>1, FS_Interval
  <2> QED
    BY <1>1, <2>1, <2>2
<1>7. rank \in Surjection(S, 0..(n - 1))
  BY <1>5, <1>6, FS_Injection
<1>8. \E x \in S : Cardinality(Below(x)) = k
  BY <1>7 DEF Surjection
<1> QED
  BY <1>8 DEF Nth

\* The consumer whose turn is next is one of the rotation.
LEMMA NextConsumerIn ==
  ASSUME TypeInv, NEW s \in Sub, consumers[s] # {}
  PROVE  NextConsumer(s) \in consumers[s]
<1>1. consumers[s] \in SUBSET ConsumerId /\ turn[s] \in Nat
  BY DEF TypeInv, TypeOK
<1>2. IsFiniteSet(consumers[s]) /\ Cardinality(consumers[s]) \in Nat \ {0}
  <2>1. IsFiniteSet(ConsumerId)
    BY SMTT(30), FS_Interval DEF ConsumerId
  <2>2. IsFiniteSet(consumers[s])
    BY <1>1, <2>1, FS_Subset
  <2> QED
    BY <2>2, FS_CardinalityType, FS_EmptySet
<1>3. turn[s] % Cardinality(consumers[s]) \in 0..(Cardinality(consumers[s]) - 1)
  BY <1>1, <1>2
<1>4. consumers[s] \in SUBSET Int
  BY <1>1 DEF ConsumerId
<1> QED
  BY <1>2, <1>3, <1>4, NthIn DEF NextConsumer

\* Hand reaches a channel wherever a consumer is open.
LEMMA HandReaches ==
  ASSUME TypeInv, RotationReads, NEW s \in Sub, consumers[s] # {}
  PROVE  phase[NextConsumer(s)] # "closed" /\ subOf[NextConsumer(s)] = s
  BY NextConsumerIn DEF RotationReads

LEMMA HandKeepsBacklog ==
  ASSUME TypeInv, RotationReads, BacklogAlone, NEW given, DOMAIN given \subseteq Sub,
         NEW harness, Hand(given, harness), consumers' = consumers
  PROVE  BacklogAlone'
<1> DEFINE served == {s \in DOMAIN given : consumers[s] # {}}
           taken == {s \in served : phase[NextConsumer(s)] # "closed"}
<1>1. taken = served
  BY HandReaches
<1>2. backlog' = [s \in Sub |-> IF s \in (DOMAIN given) \ taken
                                 THEN Append(backlog[s], given[s]) ELSE backlog[s]]
  BY DEF Hand
<1>3. ASSUME NEW s \in Sub, consumers[s] # {} PROVE backlog'[s] = backlog[s]
  <2>1. s \notin (DOMAIN given) \ taken
    BY <1>1, <1>3
  <2> HIDE DEF taken
  <2> QED
    BY <1>2, <2>1
<1> QED
  BY <1>3 DEF BacklogAlone

LEMMA CallConsumers ==
  ASSUME NEW j \in Job
  PROVE  /\ Resume(j).consumer = j.consumer /\ Resume(j).pc # "drain"
         /\ Settled(j).consumer = j.consumer /\ Settled(j).pc # "drain"
  BY DEF Job, Idle, Resume, Settled, PC

\* A step of worker w that leaves the consumers' lives alone, and w with the
\* consumer it had or with none.
LEMMA JobConsumersKept ==
  ASSUME TypeInv, JobConsumers, NEW w \in Worker, NEW k, job' = [job EXCEPT ![w] = k],
         phase' = phase,
         k.consumer = None \/ (/\ k.consumer = job[w].consumer
                               /\ k.pc # "drain"
                               /\ job[w].pc # "drain")
  PROVE  JobConsumers'
  BY DEF JobConsumers, TypeInv, TypeOK

LEMMA StrandInit == Init => StrandInv
  BY DEF Init, StrandInv, RotationReads, BacklogAlone, LaterUnopened, JobConsumers, Idle

LEMMA StrandStep == TypeInv /\ StrandInv /\ [Next]_vars => StrandInv'
<1> SUFFICES ASSUME TypeInv, StrandInv, [Next]_vars PROVE StrandInv'
  OBVIOUS
<1> USE DEF subVars, consumerVars, lockVars, countVars, historyVars
<1>0. RotationReads /\ BacklogAlone /\ LaterUnopened /\ JobConsumers
  BY DEF StrandInv
<1>1. CASE Install
  BY <1>1, <1>0 DEF Install, StrandInv, RotationReads, BacklogAlone, LaterUnopened, JobConsumers
<1>2. CASE Close
  BY <1>2, <1>0 DEF Close, StrandInv, RotationReads, BacklogAlone, LaterUnopened, JobConsumers
<1>3. ASSUME NEW c \in ConsumerId, Poll(c) PROVE StrandInv'
  BY <1>3, <1>0 DEF Poll, StrandInv, RotationReads, BacklogAlone, LaterUnopened, JobConsumers
<1>4. ASSUME NEW w \in Worker, NEW d \in Descriptor, Subscribe(w, d) PROVE StrandInv'
  <2>1. [Idle EXCEPT !.pc = "open", !.desc = d].consumer = None
    BY DEF Idle
  <2>2. JobConsumers'
    BY <1>4, <1>0, <2>1, JobConsumersKept DEF Subscribe
  <2> QED
    BY <1>4, <1>0, <2>2 DEF Subscribe, StrandInv, RotationReads, BacklogAlone, LaterUnopened
<1>5. ASSUME NEW w \in Worker, Open(w) PROVE StrandInv'
  <2> DEFINE d == job[w].desc
             s == d.sub
             c == opened + 1
             j == [Idle EXCEPT !.pc = "drain", !.consumer = c, !.counted = installed]
  <2>1. d \in Descriptor /\ s \in Sub
    BY <1>5 DEF Open, TypeInv, JobFields
  <2>2. c \in ConsumerId /\ opened \in Nat
    <3>1. w \in Opening
      BY <1>5 DEF Open, Opening
    <3>2. Cardinality(Opening) \in Nat \ {0}
      BY <3>1, OpeningFinite, FS_EmptySet
    <3> QED
      BY <3>2 DEF OpensFit, TypeInv, TypeOK, ConsumerId
  <2>3. phase[c] = "unopened"
    BY <1>0, <2>2 DEF LaterUnopened
  <2>4. /\ consumers' = [consumers EXCEPT ![s] = @ \cup {c}]
        /\ backlog' = [backlog EXCEPT ![s] = <<>>]
        /\ phase' = [phase EXCEPT ![c] = "opening"]
        /\ subOf' = [subOf EXCEPT ![c] = s]
        /\ job' = [job EXCEPT ![w] = j]
        /\ opened' = c
    BY <1>5 DEF Open
  <2>5. j.consumer = c /\ j.pc = "drain"
    BY DEF Idle
  <2>6. RotationReads'
    <3> SUFFICES ASSUME NEW r \in Sub, NEW x \in consumers'[r]
                 PROVE  subOf'[x] = r /\ phase'[x] \in {"opening", "open"}
      BY DEF RotationReads
    <3>1. CASE x \in consumers[r]
      <4>1. x # c /\ x \in ConsumerId
        BY <1>0, <2>3, <3>1 DEF RotationReads, TypeInv, TypeOK
      <4> QED
        BY <1>0, <2>4, <3>1, <4>1 DEF RotationReads, TypeInv, TypeOK
    <3>2. CASE x \notin consumers[r]
      <4>1. r = s /\ x = c
        BY <2>4, <3>2 DEF TypeInv, TypeOK
      <4> QED
        BY <2>1, <2>2, <2>4, <4>1 DEF TypeInv, TypeOK
    <3> QED
      BY <3>1, <3>2
  <2>7. BacklogAlone'
    BY <1>0, <2>1, <2>4 DEF BacklogAlone, TypeInv, TypeOK
  <2>8. LaterUnopened'
    BY <1>0, <2>2, <2>4 DEF LaterUnopened, TypeInv, TypeOK, ConsumerId
  <2>9. JobConsumers'
    <3>1. \A v \in Worker : job[v].consumer # c
      <4> SUFFICES ASSUME NEW v \in Worker, job[v].consumer = c PROVE FALSE
        OBVIOUS
      <4>1. c # None
        BY <2>2 DEF ConsumerId
      <4>2. phase[job[v].consumer] \in {"opening", "closing"}
        BY <1>0, <4>1 DEF JobConsumers
      <4> QED
        BY <2>3, <4>2
    <3>2. \A v \in Worker \ {w} : job'[v] = job[v]
      BY <2>4 DEF TypeInv, TypeOK
    <3>3. job'[w] = j
      BY <2>4 DEF TypeInv, TypeOK
    <3>4. \A v \in Worker : job[v].consumer \in ConsumerId \cup {None}
      BY DEF TypeInv, TypeOK, Job
    <3>5. \A x \in ConsumerId : phase'[x] = IF x = c THEN "opening" ELSE phase[x]
      BY <2>4 DEF TypeInv, TypeOK
    <3> HIDE DEF j, c
    <3> QED
      BY <1>0, <2>2, <2>5, <3>1, <3>2, <3>3, <3>4, <3>5 DEF JobConsumers
  <2> QED
    BY <2>6, <2>7, <2>8, <2>9 DEF StrandInv
<1>6. ASSUME NEW w \in Worker, Drain(w) PROVE StrandInv'
  <2> DEFINE item == Head(draining)
  <2>1. item.sub \in Sub
    <3>1. item \in Item
      BY <1>6 DEF Drain, TypeInv, TypeOK
    <3> QED
      BY <3>1 DEF Item
  <2>2. BacklogAlone'
    <3>1. Hand([s \in {item.sub} |-> item], job[w].counted) /\ consumers' = consumers
      BY <1>6 DEF Drain
    <3> QED
      BY <1>0, <2>1, <3>1, HandKeepsBacklog
  <2> QED
    BY <1>6, <1>0, <2>2 DEF Drain, StrandInv, RotationReads, LaterUnopened, JobConsumers
<1>7. ASSUME NEW w \in Worker, Opened(w) PROVE StrandInv'
  <2> DEFINE c == job[w].consumer
  <2>1. c \in ConsumerId /\ c # None /\ phase[c] = "opening"
    BY <1>7, <1>0 DEF Opened, TypeInv, JobFields, JobConsumers, ConsumerId
  <2>2. /\ phase' = [phase EXCEPT ![c] = "open"]
        /\ job' = [job EXCEPT ![w] = Idle]
        /\ UNCHANGED <<consumers, subOf, backlog, opened>>
    BY <1>7 DEF Opened
  <2>3. RotationReads'
    BY <1>0, <2>1, <2>2 DEF RotationReads, TypeInv, TypeOK
  <2>4. LaterUnopened' /\ BacklogAlone'
    BY <1>0, <2>1, <2>2 DEF LaterUnopened, BacklogAlone, TypeInv, TypeOK
  <2>5. JobConsumers'
    <3>1. \A v \in Worker \ {w} : job'[v] = job[v] /\ job[v].consumer # c
      BY <1>0, <2>1, <2>2 DEF JobConsumers, TypeInv, TypeOK
    <3>2. job'[w].consumer = None
      BY <2>2 DEF Idle, TypeInv, TypeOK
    <3>3. \A v \in Worker : job[v].consumer \in ConsumerId \cup {None}
      BY DEF TypeInv, TypeOK, Job
    <3>4. \A x \in ConsumerId \ {c} : phase'[x] = phase[x]
      BY <2>2 DEF TypeInv, TypeOK
    <3> HIDE DEF c
    <3> QED
      BY <1>0, <3>1, <3>2, <3>3, <3>4 DEF JobConsumers
  <2> QED
    BY <2>3, <2>4, <2>5 DEF StrandInv
<1>8. ASSUME NEW w \in Worker, NEW t \in Topic, Publish(w, t) PROVE StrandInv'
  <2>1. [Idle EXCEPT !.pc = "route", !.topic = t].consumer = None
    BY DEF Idle
  <2>2. JobConsumers'
    BY <1>8, <1>0, <2>1, JobConsumersKept DEF Publish
  <2> QED
    BY <1>8, <1>0, <2>2 DEF Publish, StrandInv, RotationReads, BacklogAlone, LaterUnopened
<1>9. ASSUME NEW w \in Worker, Route(w) PROVE StrandInv'
  <2> DEFINE at == Len(log[job[w].topic]) + 1
             attached == {s \in Sub : topicOf[s] = job[w].topic}
  <2>1. BacklogAlone'
    <3>1. Hand([s \in attached |-> [sub |-> s, at |-> at, attempt |-> 1]], installed)
      BY <1>9 DEF Route
    <3>2. consumers' = consumers
      BY <1>9 DEF Route
    <3> QED
      BY <1>0, <3>1, <3>2, HandKeepsBacklog
  <2>2. Settled(job[w]).consumer = job[w].consumer /\ Settled(job[w]).pc # "drain"
    BY CallConsumers DEF TypeInv, TypeOK
  <2>3. JobConsumers'
    BY <1>9, <1>0, <2>2, JobConsumersKept DEF Route
  <2> QED
    BY <1>9, <1>0, <2>1, <2>3 DEF Route, StrandInv, RotationReads, LaterUnopened
<1>10. ASSUME NEW w \in Worker, NEW d \in held, Acknowledge(w, d) \/ RejectAfter(w, d)
       PROVE  StrandInv'
  <2>1. Gone(d).consumer = None
    BY DEF Gone, Settled, Resume, Idle
  <2>2. job' = [job EXCEPT ![w] = Gone(d)] /\ phase' = phase
    BY <1>10 DEF Acknowledge, RejectAfter
  <2>3. JobConsumers'
    BY <1>0, <2>1, <2>2, JobConsumersKept
  <2> QED
    BY <1>10, <1>0, <2>3 DEF Acknowledge, RejectAfter, StrandInv, RotationReads, BacklogAlone,
                              LaterUnopened
<1>11. ASSUME NEW w \in Worker, NEW d \in held, Nack(w, d) PROVE StrandInv'
  <2>1. [Idle EXCEPT !.pc = "reject", !.item = d.item, !.counted = d.counted].consumer = None
    BY DEF Idle
  <2>2. JobConsumers'
    BY <1>11, <1>0, <2>1, JobConsumersKept DEF Nack
  <2> QED
    BY <1>11, <1>0, <2>2 DEF Nack, StrandInv, RotationReads, BacklogAlone, LaterUnopened
<1>12. ASSUME NEW w \in Worker, NEW item \in timers, Fire(w, item) PROVE StrandInv'
  <2>1. [Idle EXCEPT !.pc = "reject", !.item = item].consumer = None
    BY DEF Idle
  <2>2. JobConsumers'
    BY <1>12, <1>0, <2>1, JobConsumersKept DEF Fire
  <2> QED
    BY <1>12, <1>0, <2>2 DEF Fire, StrandInv, RotationReads, BacklogAlone, LaterUnopened
<1>13. ASSUME NEW w \in Worker, Reject(w) PROVE StrandInv'
  <2> DEFINE item == job[w].item
             k == [job[w] EXCEPT !.pc = "route", !.topic = policy[item.sub].topic]
  <2>1. item.sub \in Sub /\ job[w] \in Job /\ job[w].pc = "reject"
    BY <1>13 DEF Reject, TypeInv, TypeOK, JobFields, Item
  <2>2. UNCHANGED <<consumers, phase, subOf, opened>>
    BY <1>13 DEF Reject
  <2>3. BacklogAlone' /\ JobConsumers'
    <3>1. CASE Spent(item)
      <4>1. job' = [job EXCEPT ![w] = k] /\ backlog' = backlog
        BY <1>13, <3>1 DEF Reject
      <4>2. k.consumer = job[w].consumer /\ k.pc # "drain"
        BY <2>1 DEF Job
      <4>3. JobConsumers'
        BY <1>0, <2>1, <2>2, <4>1, <4>2, JobConsumersKept
      <4> QED
        BY <1>0, <2>2, <4>1, <4>3 DEF BacklogAlone
    <3>2. CASE ~Spent(item)
      <4>1. /\ Hand([s \in {item.sub} |-> NextAttempt(item)], installed)
            /\ job' = [job EXCEPT ![w] = Settled(@)]
        BY <1>13, <3>2 DEF Reject
      <4>2. Settled(job[w]).consumer = job[w].consumer /\ Settled(job[w]).pc # "drain"
        BY <2>1, CallConsumers
      <4>3. JobConsumers'
        BY <1>0, <2>1, <2>2, <4>1, <4>2, JobConsumersKept
      <4>4. BacklogAlone'
        BY <1>0, <2>1, <2>2, <4>1, HandKeepsBacklog
      <4> QED
        BY <4>3, <4>4
    <3> QED
      BY <3>1, <3>2
  <2> QED
    BY <1>0, <2>2, <2>3 DEF StrandInv, RotationReads, LaterUnopened
<1>14. ASSUME NEW w \in Worker, Release(w) PROVE StrandInv'
  <2>1. Resume(job[w]).consumer = job[w].consumer /\ Resume(job[w]).pc # "drain"
    BY CallConsumers DEF TypeInv, TypeOK
  <2>2. JobConsumers'
    BY <1>14, <1>0, <2>1, JobConsumersKept DEF Release
  <2> QED
    BY <1>14, <1>0, <2>2 DEF Release, StrandInv, RotationReads, BacklogAlone, LaterUnopened
<1>15. ASSUME NEW w \in Worker, NEW c \in ConsumerId, Cancel(w, c) PROVE StrandInv'
  <2> DEFINE j == [Idle EXCEPT !.pc = "cancel", !.consumer = c]
  <2>1. /\ phase[c] = "open"
        /\ phase' = [phase EXCEPT ![c] = "closing"]
        /\ consumers' = [consumers EXCEPT ![subOf[c]] = @ \ {c}]
        /\ job' = [job EXCEPT ![w] = j]
        /\ UNCHANGED <<backlog, subOf, opened>>
    BY <1>15 DEF Cancel
  <2>2. \A r \in Sub : consumers'[r] \subseteq consumers[r] /\ c \notin consumers'[r]
    BY <1>0, <2>1 DEF RotationReads, TypeInv, TypeOK
  <2>3. RotationReads'
    BY <1>0, <2>1, <2>2 DEF RotationReads, TypeInv, TypeOK
  <2>4. BacklogAlone'
    BY <1>0, <2>1, <2>2 DEF BacklogAlone
  <2>5. LaterUnopened'
    BY <1>0, <2>1 DEF LaterUnopened, TypeInv, TypeOK
  <2>6. JobConsumers'
    <3>1. \A v \in Worker : job[v].consumer # c
      <4> SUFFICES ASSUME NEW v \in Worker, job[v].consumer = c PROVE FALSE
        OBVIOUS
      <4>1. c # None
        BY DEF ConsumerId
      <4> QED
        BY <1>0, <2>1, <4>1 DEF JobConsumers
    <3>2. \A v \in Worker \ {w} : job'[v] = job[v]
      BY <2>1 DEF TypeInv, TypeOK
    <3>3. job'[w].consumer = c /\ job'[w].pc = "cancel"
      BY <2>1 DEF TypeInv, TypeOK, Idle
    <3>4. \A v \in Worker : job[v].consumer \in ConsumerId \cup {None}
      BY DEF TypeInv, TypeOK, Job
    <3>5. \A x \in ConsumerId : phase'[x] = IF x = c THEN "closing" ELSE phase[x]
      BY <2>1 DEF TypeInv, TypeOK
    <3> QED
      BY <1>0, <3>1, <3>2, <3>3, <3>4, <3>5 DEF JobConsumers
  <2> QED
    BY <2>3, <2>4, <2>5, <2>6 DEF StrandInv
<1>16. ASSUME NEW w \in Worker, CancelNext(w) PROVE StrandInv'
  <2> DEFINE c == job[w].consumer
             item == Head(chan[c]).item
             counted == Head(chan[c]).counted
             j == [job[w] EXCEPT !.pc = "reject", !.item = item, !.counted = counted]
  <2>1. job[w] \in Job /\ job[w].pc # "drain" /\ job' = [job EXCEPT ![w] = j]
    BY <1>16 DEF CancelNext, TypeInv, TypeOK
  <2>2. j.consumer = job[w].consumer /\ j.pc # "drain"
    <3> HIDE DEF item, counted
    <3> QED
      BY <2>1 DEF Job
  <2>3. phase' = phase
    BY <1>16 DEF CancelNext
  <2>4. JobConsumers'
    <3> HIDE DEF j
    <3> QED
      BY <1>0, <2>1, <2>2, <2>3, JobConsumersKept
  <2> QED
    BY <1>16, <1>0, <2>4 DEF CancelNext, StrandInv, RotationReads, BacklogAlone, LaterUnopened
<1>17. ASSUME NEW w \in Worker, Cancelled(w) PROVE StrandInv'
  <2> DEFINE c == job[w].consumer
  <2>1. c \in ConsumerId /\ c # None /\ phase[c] = "closing"
    BY <1>17, <1>0 DEF Cancelled, TypeInv, JobFields, JobConsumers, ConsumerId
  <2>2. /\ phase' = [phase EXCEPT ![c] = "closed"]
        /\ job' = [job EXCEPT ![w] = Idle]
        /\ UNCHANGED <<consumers, subOf, backlog, opened>>
    BY <1>17 DEF Cancelled
  <2>3. RotationReads'
    BY <1>0, <2>1, <2>2 DEF RotationReads, TypeInv, TypeOK
  <2>4. LaterUnopened' /\ BacklogAlone'
    BY <1>0, <2>1, <2>2 DEF LaterUnopened, BacklogAlone, TypeInv, TypeOK
  <2>5. JobConsumers'
    <3>1. \A v \in Worker \ {w} : job'[v] = job[v] /\ job[v].consumer # c
      BY <1>0, <2>1, <2>2 DEF JobConsumers, TypeInv, TypeOK
    <3>2. job'[w].consumer = None
      BY <2>2 DEF Idle, TypeInv, TypeOK
    <3>3. \A v \in Worker : job[v].consumer \in ConsumerId \cup {None}
      BY DEF TypeInv, TypeOK, Job
    <3>4. \A x \in ConsumerId \ {c} : phase'[x] = phase[x]
      BY <2>2 DEF TypeInv, TypeOK
    <3> HIDE DEF c
    <3> QED
      BY <1>0, <3>1, <3>2, <3>3, <3>4 DEF JobConsumers
  <2> QED
    BY <2>3, <2>4, <2>5 DEF StrandInv
<1>18. CASE UNCHANGED vars
  BY <1>18, <1>0 DEF vars, StrandInv, RotationReads, BacklogAlone, LaterUnopened, JobConsumers
<1> QED
  BY <1>1, <1>2, <1>3, <1>4, <1>5, <1>6, <1>7, <1>8, <1>9, <1>10, <1>11, <1>12, <1>13, <1>14,
     <1>15, <1>16, <1>17, <1>18
     DEF Next, Proceed, Settle, DropMessage

\* No message waits in a backlog while a consumer is open, and the rotation
\* never names a consumer that is gone, in every instance of the transport.
THEOREM NeverStranded == Spec => []NoStranding
<1>1. Init => TypeInv /\ StrandInv
  BY TypeInit, StrandInit
<1>2. TypeInv /\ StrandInv /\ [Next]_vars => TypeInv' /\ StrandInv'
  BY TypeStep, StrandStep
<1>3. StrandInv => NoStranding
  BY DEF StrandInv, RotationReads, BacklogAlone, NoStranding
<1> QED
  BY <1>1, <1>2, <1>3, PTL DEF Spec

--------------------------------------------------------------------------------
(***************************************************************************)
(* Part 3: AttemptsWithinCap.  Besides the attempts themselves the         *)
(* invariant says that an item's subscription exists and that a            *)
(* subscription that exists carries the cap its registrations agree on, so *)
(* that Reject finds it.                                                   *)
(***************************************************************************)
WithinCap(item) == \A n \in 1..AttemptMax : CapIs(item.sub, n) => item.attempt <= n

ItemsAttached == \A item \in LiveItems : topicOf[item.sub] # None

CapCarried ==
    \A s \in Sub : topicOf[s] # None =>
        \A n \in 1..AttemptMax : CapIs(s, n) => policy[s] # None /\ policy[s].max = n

CapInv == AttemptsWithinCap /\ ItemsAttached /\ CapCarried

LEMMA ElementsAppend ==
  ASSUME NEW S, NEW q \in Seq(S), NEW e
  PROVE  Elements(Append(q, e)) = Elements(q) \cup {e}
  BY DEF Elements

LEMMA ElementsTail ==
  ASSUME NEW S, NEW q \in Seq(S), q # <<>>
  PROVE  Elements(Tail(q)) \subseteq Elements(q) /\ Head(q) \in Elements(q)
  BY DEF Elements

\* Where the live items are.
LEMMA LiveItemsAre ==
  ASSUME NEW item
  PROVE  item \in LiveItems <=>
            \/ \E s \in Sub : item \in Elements(backlog[s])
            \/ item \in Elements(draining)
            \/ \E c \in ConsumerId : item \in ChannelItems(c)
            \/ \E d \in held : item = d.item
            \/ item \in timers
            \/ \E w \in Worker : job[w].item # None /\ item = job[w].item
<1>1. item \in BacklogItems <=> \E s \in Sub : item \in Elements(backlog[s])
  BY DEF BacklogItems
<1>2. item \in HandedItems <=> \E c \in ConsumerId : item \in ChannelItems(c)
  BY DEF HandedItems
<1>3. item \in HandlerItems <=> \E d \in held : item = d.item
  BY DEF HandlerItems
<1>4. item \in ThreadItems <=> \E w \in Worker : job[w].item # None /\ item = job[w].item
  BY DEF ThreadItems
<1> QED
  BY <1>1, <1>2, <1>3, <1>4 DEF LiveItems

\* Hand adds nothing but what it is given.
LEMMA HandItems ==
  ASSUME TypeInv, NEW given, DOMAIN given \subseteq Sub, NEW harness, Hand(given, harness)
  PROVE  /\ \A s \in Sub : \A item \in Elements(backlog'[s]) :
              item \in Elements(backlog[s]) \/ \E r \in DOMAIN given : item = given[r]
         /\ \A c \in ConsumerId : \A item \in ChannelItems(c)' :
              item \in ChannelItems(c) \/ \E r \in DOMAIN given : item = given[r]
<1> DEFINE served == {s \in DOMAIN given : consumers[s] # {}}
           taken == {s \in served : phase[NextConsumer(s)] # "closed"}
<1>1. ASSUME NEW s \in Sub, NEW item \in Elements(backlog'[s])
      PROVE  item \in Elements(backlog[s]) \/ \E r \in DOMAIN given : item = given[r]
  <2>1. \/ backlog'[s] = backlog[s]
        \/ s \in DOMAIN given /\ backlog'[s] = Append(backlog[s], given[s])
    <3>1. backlog' = [r \in Sub |-> IF r \in (DOMAIN given) \ taken
                                     THEN Append(backlog[r], given[r]) ELSE backlog[r]]
      BY DEF Hand
    <3> HIDE DEF taken
    <3> QED
      BY <3>1
  <2>2. backlog[s] \in Seq(Item)
    BY DEF TypeInv, TypeOK
  <2>3. Elements(Append(backlog[s], given[s])) = Elements(backlog[s]) \cup {given[s]}
    BY <2>2, ElementsAppend
  <2> QED
    BY <1>1, <2>1, <2>3
<1>2. ASSUME NEW c \in ConsumerId, NEW item \in ChannelItems(c)'
      PROVE  item \in ChannelItems(c) \/ \E r \in DOMAIN given : item = given[r]
  <2> DEFINE h == [item |-> given[subOf[c]], counted |-> harness]
  <2>1. \/ chan'[c] = chan[c]
        \/ subOf[c] \in DOMAIN given /\ chan'[c] = Append(chan[c], h)
    <3>1. chan' = [x \in ConsumerId |->
                     IF subOf[x] \in taken /\ x = NextConsumer(subOf[x])
                     THEN Append(chan[x], [item |-> given[subOf[x]], counted |-> harness])
                     ELSE chan[x]]
      BY DEF Hand
    <3>2. taken \subseteq DOMAIN given
      OBVIOUS
    <3> HIDE DEF taken
    <3> QED
      BY <3>1, <3>2
  <2>2. chan[c] \in Seq(Handed)
    BY DEF TypeInv, TypeOK
  <2>3. PICK g \in Elements(chan'[c]) : item = g.item
    BY <1>2 DEF ChannelItems
  <2>4. g \in Elements(chan[c]) \/ (subOf[c] \in DOMAIN given /\ g = h)
    <3> HIDE DEF h
    <3>1. Elements(Append(chan[c], h)) = Elements(chan[c]) \cup {h}
      BY <2>2, ElementsAppend
    <3> QED
      BY <2>1, <2>3, <3>1
  <2>5. h.item = given[subOf[c]]
    OBVIOUS
  <2> HIDE DEF h
  <2> QED
    BY <2>3, <2>4, <2>5 DEF ChannelItems
<1> QED
  BY <1>1, <1>2

\* What a step adds to the live items, from what it adds to each place.
LEMMA ItemsAdded ==
  ASSUME NEW added,
         \A s \in Sub : Elements(backlog[s])' \subseteq LiveItems \cup added,
         Elements(draining)' \subseteq LiveItems \cup added,
         \A c \in ConsumerId : ChannelItems(c)' \subseteq LiveItems \cup added,
         \A d \in held' : d.item \in LiveItems \cup added,
         timers' \subseteq LiveItems \cup added,
         \A w \in Worker : job'[w].item # None => job'[w].item \in LiveItems \cup added
  PROVE  LiveItems' \subseteq LiveItems \cup added
<1> DEFINE all == LiveItems \cup added
<1>1. BacklogItems' \subseteq all
  BY DEF BacklogItems
<1>2. HandedItems' \subseteq all
  BY DEF HandedItems
<1>3. HandlerItems' \subseteq all
  BY DEF HandlerItems
<1>4. ThreadItems' \subseteq all
  BY DEF ThreadItems
<1> HIDE DEF all
<1>5. Elements(draining)' \subseteq all /\ timers' \subseteq all
  BY DEF all
<1>6. LiveItems' \subseteq all
  BY <1>1, <1>2, <1>3, <1>4, <1>5 DEF LiveItems
<1> QED
  BY <1>6 DEF all

LEMMA PlacesLive ==
  /\ \A s \in Sub : Elements(backlog[s]) \subseteq LiveItems
  /\ Elements(draining) \subseteq LiveItems
  /\ \A c \in ConsumerId : ChannelItems(c) \subseteq LiveItems
  /\ \A d \in held : d.item \in LiveItems
  /\ timers \subseteq LiveItems
  /\ \A w \in Worker : job[w].item # None => job[w].item \in LiveItems
  BY LiveItemsAre

LEMMA JobItems ==
  ASSUME NEW added, NEW w \in Worker, NEW j, TypeInv, job' = [job EXCEPT ![w] = j],
         j.item = None \/ j.item \in LiveItems \cup added
  PROVE  \A v \in Worker : job'[v].item # None => job'[v].item \in LiveItems \cup added
<1>1. \A v \in Worker : job'[v] = IF v = w THEN j ELSE job[v]
  BY DEF TypeInv, TypeOK
<1> QED
  BY <1>1, PlacesLive

LEMMA CallItems ==
  /\ Idle.item = None
  /\ \A j \in Job : Resume(j).item = None /\ Settled(j).item = None
  BY DEF Idle, Resume, Settled, Job

\* The invariant after a step whose new items are within the cap.
LEMMA CapKept ==
  ASSUME CapInv, NEW added,
         LiveItems' \subseteq LiveItems \cup added,
         \A item \in added : WithinCap(item) /\ topicOf'[item.sub] # None,
         \A item \in LiveItems : topicOf'[item.sub] # None,
         CapCarried'
  PROVE  CapInv'
<1>1. AttemptsWithinCap'
  BY DEF CapInv, AttemptsWithinCap, WithinCap
<1>2. ItemsAttached'
  BY DEF ItemsAttached
<1> QED
  BY <1>1, <1>2 DEF CapInv

\* The invariant after a step that hands nothing out and creates nothing.
LEMMA CapUnmoved ==
  ASSUME CapInv, UNCHANGED <<topicOf, policy>>, LiveItems' \subseteq LiveItems
  PROVE  CapInv'
<1>1. CapCarried'
  BY DEF CapInv, CapCarried
<1>2. ItemsAttached'
  BY DEF CapInv, ItemsAttached
<1>3. AttemptsWithinCap'
  BY DEF CapInv, AttemptsWithinCap
<1> QED
  BY <1>1, <1>2, <1>3 DEF CapInv

LEMMA CapInit == Init => CapInv
<1> SUFFICES ASSUME Init PROVE CapInv
  OBVIOUS
<1>1. \A item : item \notin LiveItems
  <2>1. \A s \in Sub : Elements(backlog[s]) = {}
    BY DEF Init, Elements
  <2>2. Elements(draining) = {}
    BY DEF Init, Elements
  <2>3. \A c \in ConsumerId : ChannelItems(c) = {}
    BY DEF Init, ChannelItems, Elements
  <2>4. held = {} /\ timers = {} /\ \A w \in Worker : job[w].item = None
    BY DEF Init, Idle
  <2> QED
    BY <2>1, <2>2, <2>3, <2>4, LiveItemsAre
<1>2. \A s \in Sub : topicOf[s] = None
  BY DEF Init
<1> QED
  BY <1>1, <1>2 DEF CapInv, AttemptsWithinCap, ItemsAttached, CapCarried

\* The steps of a call that move a job's item or let go of it.
LEMMA OnlyJob ==
  ASSUME TypeInv, NEW w \in Worker, NEW j, job' = [job EXCEPT ![w] = j],
         j.item = None \/ j.item \in LiveItems,
         UNCHANGED <<backlog, draining, chan>>,
         held' \subseteq held, timers' \subseteq LiveItems
  PROVE  LiveItems' \subseteq LiveItems
<1>1. \A v \in Worker : job'[v].item # None => job'[v].item \in LiveItems
  <2>1. \A v \in Worker : job'[v] = IF v = w THEN j ELSE job[v]
    BY DEF TypeInv, TypeOK
  <2> QED
    BY <2>1, PlacesLive
<1>2. \A c \in ConsumerId : ChannelItems(c)' \subseteq LiveItems
  BY PlacesLive DEF ChannelItems
<1>3. \A s \in Sub : Elements(backlog[s])' \subseteq LiveItems
  BY PlacesLive
<1>4. Elements(draining)' \subseteq LiveItems /\ \A d \in held' : d.item \in LiveItems
  BY PlacesLive
<1>5. LiveItems' \subseteq LiveItems \cup {}
  BY <1>1, <1>2, <1>3, <1>4, ItemsAdded
<1> QED
  BY <1>5

\* Route's and Reject's items, and the cap that Reject finds.
LEMMA FreshWithinCap ==
  ASSUME NEW s \in Sub, NEW k
  PROVE  WithinCap([sub |-> s, at |-> k, attempt |-> 1])
  BY DEF WithinCap

LEMMA NextWithinCap ==
  ASSUME TypeInv, CapInv, NEW item \in LiveItems, item \in Item, ~Spent(item)
  PROVE  /\ NextAttempt(item).sub = item.sub
         /\ WithinCap(NextAttempt(item))
<1>1. topicOf[item.sub] # None /\ item.sub \in Sub /\ item.attempt \in 1..AttemptMax
  BY DEF CapInv, ItemsAttached, Item
<1>2. /\ NextAttempt(item).sub = item.sub
      /\ NextAttempt(item).attempt = IF item.attempt = AttemptMax THEN item.attempt
                                     ELSE item.attempt + 1
  BY DEF NextAttempt, Item
<1>3. ASSUME NEW n \in 1..AttemptMax, CapIs(item.sub, n)
      PROVE  NextAttempt(item).attempt <= n
  <2>1. policy[item.sub] # None /\ policy[item.sub].max = n
    BY <1>1, <1>3 DEF CapInv, CapCarried
  <2>2. ~(item.attempt >= n)
    BY <2>1 DEF Spent
  <2> QED
    BY <1>1, <1>2, <2>2
<1> QED
  BY <1>2, <1>3 DEF WithinCap

\* What a step adds to the live items when Hand hands out `given`.
LEMMA HandAdds ==
  ASSUME TypeInv, NEW given, DOMAIN given \subseteq Sub, NEW harness, Hand(given, harness),
         NEW added, \A r \in DOMAIN given : given[r] \in added,
         Elements(draining)' \subseteq LiveItems,
         UNCHANGED <<held, timers>>,
         NEW w \in Worker, NEW j, job' = [job EXCEPT ![w] = j],
         j.item = None \/ j.item \in LiveItems
  PROVE  LiveItems' \subseteq LiveItems \cup added
<1>1. \A s \in Sub : Elements(backlog[s])' \subseteq LiveItems \cup added
  BY HandItems, PlacesLive, SMTT(30)
<1>2. \A c \in ConsumerId : ChannelItems(c)' \subseteq LiveItems \cup added
  BY HandItems, PlacesLive
<1>3. \A v \in Worker : job'[v].item # None => job'[v].item \in LiveItems \cup added
  BY JobItems
<1>4. /\ Elements(draining)' \subseteq LiveItems \cup added
      /\ \A d \in held' : d.item \in LiveItems \cup added
      /\ timers' \subseteq LiveItems \cup added
  BY PlacesLive
<1> QED
  BY <1>1, <1>2, <1>3, <1>4, ItemsAdded

LEMMA CapStep == TypeInv /\ CapInv /\ [Next]_vars => CapInv'
<1> SUFFICES ASSUME TypeInv, CapInv, [Next]_vars PROVE CapInv'
  OBVIOUS
<1>0. \A w \in Worker : job[w] \in Job
  BY DEF TypeInv, TypeOK
<1>1. CASE Install
  <2>1. LiveItems' = LiveItems
    BY <1>1 DEF Install, LiveItems, BacklogItems, HandedItems, ChannelItems, HandlerItems,
                ThreadItems, subVars, lockVars
  <2> QED
    BY <1>1, <2>1, CapUnmoved DEF Install, subVars
<1>2. CASE Close
  <2>1. LiveItems' = LiveItems
    BY <1>2 DEF Close, LiveItems, BacklogItems, HandedItems, ChannelItems, HandlerItems,
                ThreadItems, subVars, lockVars
  <2> QED
    BY <1>2, <2>1, CapUnmoved DEF Close, subVars
<1>3. ASSUME NEW w \in Worker, NEW d \in Descriptor, Subscribe(w, d) PROVE CapInv'
  <2> DEFINE j == [Idle EXCEPT !.pc = "open", !.desc = d]
  <2>1. job' = [job EXCEPT ![w] = j] /\ j.item = None
    BY <1>3 DEF Subscribe, Idle
  <2>2. UNCHANGED <<topicOf, policy, backlog, draining, chan, held, timers>>
    BY <1>3 DEF Subscribe, subVars, lockVars
  <2>3. LiveItems' \subseteq LiveItems
    <3> HIDE DEF j
    <3> QED
      BY <2>1, <2>2, OnlyJob, PlacesLive
  <2> QED
    BY <2>2, <2>3, CapUnmoved
<1>4. ASSUME NEW w \in Worker, NEW t \in Topic, Publish(w, t) PROVE CapInv'
  <2> DEFINE j == [Idle EXCEPT !.pc = "route", !.topic = t]
  <2>1. job' = [job EXCEPT ![w] = j] /\ j.item = None
    BY <1>4 DEF Publish, Idle
  <2>2. UNCHANGED <<topicOf, policy, backlog, draining, chan, held, timers>>
    BY <1>4 DEF Publish, subVars, lockVars
  <2>3. LiveItems' \subseteq LiveItems
    <3> HIDE DEF j
    <3> QED
      BY <2>1, <2>2, OnlyJob, PlacesLive
  <2> QED
    BY <2>2, <2>3, CapUnmoved
<1>5. ASSUME NEW w \in Worker, Open(w) PROVE CapInv'
  <2> DEFINE d == job[w].desc
             s == d.sub
             c == opened + 1
             j == [Idle EXCEPT !.pc = "drain", !.consumer = c, !.counted = installed]
  <2>1. d \in Descriptor /\ s \in Sub /\ d.topic \in Topic
    BY <1>5 DEF Open, TypeInv, JobFields
  <2>2. /\ topicOf' = [topicOf EXCEPT ![s] = IF @ = None THEN d.topic ELSE @]
        /\ policy' = [policy EXCEPT ![s] = PolicyAfter(d)]
        /\ backlog' = [backlog EXCEPT ![s] = <<>>]
        /\ draining' = backlog[s]
        /\ job' = [job EXCEPT ![w] = j]
        /\ UNCHANGED <<chan, held, timers>>
    BY <1>5 DEF Open
  <2>3. j.item = None
    BY DEF Idle
  <2> HIDE DEF d, s, c, j
  <2>4. LiveItems' \subseteq LiveItems \cup {}
    <3>1. \A r \in Sub : backlog'[r] = IF r = s THEN <<>> ELSE backlog[r]
      BY <2>1, <2>2 DEF TypeInv, TypeOK
    <3>2. Elements(<<>>) = {}
      BY DEF Elements
    <3>3. \A r \in Sub : Elements(backlog[r])' \subseteq LiveItems
      BY <3>1, <3>2, PlacesLive
    <3>4. Elements(draining)' \subseteq LiveItems
      BY <2>1, <2>2, PlacesLive
    <3>5. \A x \in ConsumerId : ChannelItems(x)' \subseteq LiveItems
      BY <2>2, PlacesLive DEF ChannelItems
    <3>6. \A v \in Worker : job'[v].item # None => job'[v].item \in LiveItems
      <4>1. \A v \in Worker : job'[v] = IF v = w THEN j ELSE job[v]
        BY <2>2 DEF TypeInv, TypeOK
      <4> QED
        BY <2>3, <4>1, PlacesLive
    <3>7. (\A x \in held' : x.item \in LiveItems) /\ timers' \subseteq LiveItems
      BY <2>2, PlacesLive
    <3> QED
      BY <3>3, <3>4, <3>5, <3>6, <3>7, ItemsAdded
  <2>5. \A r \in Sub : topicOf[r] # None => topicOf'[r] # None
    BY <2>1, <2>2 DEF TypeInv, TypeOK
  <2>6. ItemsAttached'
    <3>1. \A item \in LiveItems : item.sub \in Sub => topicOf'[item.sub] # None
      BY <2>5 DEF CapInv, ItemsAttached
    <3>2. \A item \in LiveItems : item.sub \notin Sub => topicOf'[item.sub] = topicOf[item.sub]
      BY <2>1, <2>2 DEF TypeInv, TypeOK
    <3> QED
      BY <2>4, <3>1, <3>2 DEF CapInv, ItemsAttached
  <2>7. AttemptsWithinCap'
    BY <2>4 DEF CapInv, AttemptsWithinCap
  <2>8. CapCarried'
    <3> SUFFICES ASSUME NEW r \in Sub, topicOf'[r] # None,
                        NEW n \in 1..AttemptMax, CapIs(r, n)
                 PROVE  policy'[r] # None /\ policy'[r].max = n
      BY DEF CapCarried
    <3>1. CASE r = s
      <4>1. d.policy # None /\ d.policy.max = n
        BY <2>1, <3>1 DEF CapIs, s
      <4>2. policy'[r] = d.policy
        BY <2>1, <2>2, <3>1, <4>1 DEF PolicyAfter, TypeInv, TypeOK
      <4> QED
        BY <4>1, <4>2
    <3>2. CASE r # s
      <4>1. topicOf'[r] = topicOf[r] /\ policy'[r] = policy[r]
        BY <2>2, <3>2 DEF TypeInv, TypeOK
      <4> QED
        BY <4>1 DEF CapInv, CapCarried
    <3> QED
      BY <3>1, <3>2
  <2> QED
    BY <2>6, <2>7, <2>8 DEF CapInv
<1>6. ASSUME NEW w \in Worker, Drain(w) PROVE CapInv'
  <2> DEFINE item == Head(draining)
             given == [s \in {item.sub} |-> item]
             harness == job[w].counted
             j == job[w]
             added == {item}
  <2>1. /\ draining # <<>> /\ draining' = Tail(draining)
        /\ Hand(given, harness)
        /\ UNCHANGED <<topicOf, policy, held, timers, job>>
    BY <1>6 DEF Drain
  <2>2. draining \in Seq(Item)
    BY DEF TypeInv, TypeOK
  <2>3. item \in Item /\ item \in LiveItems /\ Elements(draining') \subseteq LiveItems
    <3>1. item \in Elements(draining) /\ Elements(draining') \subseteq Elements(draining)
      BY <2>1, <2>2, ElementsTail
    <3>2. item \in Item
      BY <2>1, <2>2
    <3> HIDE DEF item
    <3> QED
      BY <3>1, <3>2, PlacesLive
  <2>4. job' = [job EXCEPT ![w] = j] /\ (j.item = None \/ j.item \in LiveItems)
    BY <2>1, PlacesLive DEF TypeInv, TypeOK
  <2>5. DOMAIN given \subseteq Sub /\ \A r \in DOMAIN given : given[r] \in added
    BY <2>3 DEF Item
  <2>6. LiveItems' \subseteq LiveItems \cup added
    <3> HIDE DEF item, given, harness, j, added
    <3> QED
      BY <2>1, <2>3, <2>4, <2>5, HandAdds
  <2>7. LiveItems' \subseteq LiveItems
    <3> HIDE DEF item
    <3> QED
      BY <2>3, <2>6
  <2> QED
    BY <2>1, <2>7, CapUnmoved
<1>7. ASSUME NEW w \in Worker, Opened(w) PROVE CapInv'
  <2>1. UNCHANGED <<topicOf, policy, backlog, draining, chan, held, timers>>
        /\ job' = [job EXCEPT ![w] = Idle]
    BY <1>7 DEF Opened, subVars
  <2>2. LiveItems' \subseteq LiveItems
    BY <2>1, OnlyJob, CallItems, PlacesLive
  <2> QED
    BY <2>1, <2>2, CapUnmoved
<1>8. ASSUME NEW w \in Worker, Route(w) PROVE CapInv'
  <2> DEFINE t == job[w].topic
             at == Len(log[t]) + 1
             attached == {s \in Sub : topicOf[s] = t}
             given == [s \in attached |-> [sub |-> s, at |-> at, attempt |-> 1]]
             added == {[sub |-> s, at |-> at, attempt |-> 1] : s \in attached}
  <2>1. t \in Topic /\ t # None
    BY <1>8 DEF Route, TypeInv, JobFields
  <2>2. /\ Hand(given, installed)
        /\ job' = [job EXCEPT ![w] = Settled(job[w])]
        /\ UNCHANGED <<topicOf, policy, draining, held, timers>>
    BY <1>8 DEF Route, lockVars
  <2>3. DOMAIN given \subseteq Sub /\ \A r \in DOMAIN given : given[r] \in added
    OBVIOUS
  <2>4. \A item \in added : WithinCap(item) /\ topicOf'[item.sub] # None
    <3> SUFFICES ASSUME NEW s \in attached
                 PROVE  /\ WithinCap([sub |-> s, at |-> at, attempt |-> 1])
                        /\ topicOf'[s] # None
      OBVIOUS
    <3> QED
      BY <2>1, <2>2, FreshWithinCap
  <2>5. LiveItems' \subseteq LiveItems \cup added
    <3>1. Settled(job[w]).item = None
      BY <1>0, CallItems
    <3>2. Elements(draining)' \subseteq LiveItems
      BY <2>2, PlacesLive
    <3> HIDE DEF given, added
    <3> QED
      BY <2>2, <2>3, <3>1, <3>2, HandAdds
  <2>6. CapCarried' /\ \A item \in LiveItems : topicOf'[item.sub] # None
    BY <2>2 DEF CapInv, CapCarried, ItemsAttached
  <2> HIDE DEF added
  <2> QED
    BY <2>4, <2>5, <2>6, CapKept
<1>9. ASSUME NEW c \in ConsumerId, Poll(c) PROVE CapInv'
  <2> DEFINE handed == Head(chan[c])
             d == [item |-> handed.item, counted |-> handed.counted,
                   reported |-> policy[subOf[c]] # None, cap |-> capOf[c]]
  <2>1. /\ chan[c] # <<>> /\ chan' = [chan EXCEPT ![c] = Tail(@)]
        /\ held' = held \cup {d}
        /\ UNCHANGED <<topicOf, policy, backlog, draining, timers, job>>
    BY <1>9 DEF Poll, subVars, lockVars
  <2>2. chan[c] \in Seq(Handed)
    BY DEF TypeInv, TypeOK
  <2>3. handed \in Elements(chan[c]) /\ Elements(Tail(chan[c])) \subseteq Elements(chan[c])
    BY <2>1, <2>2, ElementsTail
  <2>4. d.item \in LiveItems
    <3>1. d.item = handed.item
      OBVIOUS
    <3>2. handed.item \in ChannelItems(c)
      BY <2>3 DEF ChannelItems
    <3> HIDE DEF handed, d
    <3> QED
      BY <3>1, <3>2, PlacesLive
  <2>5. \A x \in ConsumerId : ChannelItems(x)' \subseteq LiveItems
    <3>1. \A x \in ConsumerId : chan'[x] = IF x = c THEN Tail(chan[x]) ELSE chan[x]
      BY <2>1 DEF TypeInv, TypeOK
    <3>2. \A x \in ConsumerId : ChannelItems(x)' \subseteq ChannelItems(x)
      BY <2>3, <3>1 DEF ChannelItems
    <3> QED
      BY <3>2, PlacesLive
  <2>6. LiveItems' \subseteq LiveItems \cup {}
    <3> HIDE DEF d
    <3>1. (\A x \in held' : x.item \in LiveItems) /\ timers' \subseteq LiveItems
      BY <2>1, <2>4, PlacesLive
    <3>2. \A s \in Sub : Elements(backlog[s])' \subseteq LiveItems
      BY <2>1, PlacesLive
    <3>3. Elements(draining)' \subseteq LiveItems
          /\ \A v \in Worker : job'[v].item # None => job'[v].item \in LiveItems
      BY <2>1, PlacesLive
    <3> QED
      BY <2>5, <3>1, <3>2, <3>3, ItemsAdded
  <2> QED
    BY <2>1, <2>6, CapUnmoved
<1>10. ASSUME NEW w \in Worker, NEW d \in held, Acknowledge(w, d) PROVE CapInv'
  <2>1. /\ job' = [job EXCEPT ![w] = Gone(d)]
        /\ held' \subseteq held
        /\ UNCHANGED <<topicOf, policy, backlog, draining, chan, timers>>
    BY <1>10 DEF Acknowledge, subVars, lockVars
  <2>2. Gone(d).item = None
    BY DEF Gone, Settled, Resume, Idle
  <2>3. LiveItems' \subseteq LiveItems
    BY <2>1, <2>2, OnlyJob, PlacesLive
  <2> QED
    BY <2>1, <2>3, CapUnmoved
<1>11. ASSUME NEW w \in Worker, NEW d \in held, Nack(w, d) PROVE CapInv'
  <2> DEFINE j == [Idle EXCEPT !.pc = "reject", !.item = d.item, !.counted = d.counted]
  <2>1. /\ job' = [job EXCEPT ![w] = j]
        /\ held' \subseteq held
        /\ UNCHANGED <<topicOf, policy, backlog, draining, chan, timers>>
    BY <1>11 DEF Nack, subVars, lockVars
  <2>2. j.item = d.item /\ d.item \in LiveItems
    BY PlacesLive DEF Idle
  <2>3. LiveItems' \subseteq LiveItems
    <3> HIDE DEF j
    <3> QED
      BY <2>1, <2>2, OnlyJob, PlacesLive
  <2> QED
    BY <2>1, <2>3, CapUnmoved
<1>12. ASSUME NEW w \in Worker, NEW d \in held, RejectAfter(w, d) PROVE CapInv'
  <2>1. /\ job' = [job EXCEPT ![w] = Gone(d)]
        /\ held' \subseteq held
        /\ timers' = timers \cup {d.item}
        /\ UNCHANGED <<topicOf, policy, backlog, draining, chan>>
    BY <1>12 DEF RejectAfter, subVars, lockVars
  <2>2. Gone(d).item = None
    BY DEF Gone, Settled, Resume, Idle
  <2>3. timers' \subseteq LiveItems
    BY <2>1, PlacesLive
  <2>4. LiveItems' \subseteq LiveItems
    BY <2>1, <2>2, <2>3, OnlyJob
  <2> QED
    BY <2>1, <2>4, CapUnmoved
<1>13. ASSUME NEW w \in Worker, NEW item \in timers, Fire(w, item) PROVE CapInv'
  <2> DEFINE j == [Idle EXCEPT !.pc = "reject", !.item = item]
  <2>1. /\ job' = [job EXCEPT ![w] = j]
        /\ timers' \subseteq timers
        /\ UNCHANGED <<topicOf, policy, backlog, draining, chan, held>>
    BY <1>13 DEF Fire, subVars, lockVars
  <2>2. j.item = item /\ item \in LiveItems
    BY PlacesLive DEF Idle
  <2>3. timers' \subseteq LiveItems
    BY <2>1, PlacesLive
  <2>4. LiveItems' \subseteq LiveItems
    <3> HIDE DEF j
    <3> QED
      BY <2>1, <2>2, <2>3, OnlyJob
  <2> QED
    BY <2>1, <2>4, CapUnmoved
<1>14. ASSUME NEW w \in Worker, Reject(w) PROVE CapInv'
  <2> DEFINE item == job[w].item
  <2>1. /\ job[w].pc = "reject" /\ job[w] \in Job
        /\ UNCHANGED <<topicOf, policy, draining, held, timers>>
    BY <1>14, <1>0 DEF Reject, lockVars
  <2>2. item \in Item /\ item # None
    BY <2>1 DEF TypeInv, JobFields, Item
  <2>3. item \in LiveItems
    BY <2>2, PlacesLive
  <2>4. CASE Spent(item)
    <3> DEFINE j == [job[w] EXCEPT !.pc = "route", !.topic = policy[item.sub].topic]
    <3>1. job' = [job EXCEPT ![w] = j] /\ UNCHANGED <<backlog, chan>>
      BY <1>14, <2>4 DEF Reject
    <3>2. j.item = item
      BY <2>1 DEF Job
    <3>3. LiveItems' \subseteq LiveItems
      <4> HIDE DEF j, item
      <4> QED
        BY <2>1, <2>3, <3>1, <3>2, OnlyJob, PlacesLive
    <3> QED
      BY <2>1, <3>3, CapUnmoved
  <2>5. CASE ~Spent(item)
    <3> DEFINE given == [s \in {item.sub} |-> NextAttempt(item)]
               added == {NextAttempt(item)}
    <3>1. Hand(given, installed) /\ job' = [job EXCEPT ![w] = Settled(job[w])]
      BY <1>14, <2>5 DEF Reject
    <3>2. NextAttempt(item).sub = item.sub /\ WithinCap(NextAttempt(item))
      BY <2>2, <2>3, <2>5, NextWithinCap
    <3>3. DOMAIN given \subseteq Sub /\ \A r \in DOMAIN given : given[r] \in added
      BY <2>2 DEF Item
    <3>4. Settled(job[w]).item = None /\ Elements(draining)' \subseteq LiveItems
      BY <2>1, CallItems, PlacesLive
    <3>5. LiveItems' \subseteq LiveItems \cup added
      <4> HIDE DEF given, added, item
      <4> QED
        BY <2>1, <3>1, <3>3, <3>4, HandAdds
    <3>6. CapCarried' /\ \A x \in LiveItems : topicOf'[x.sub] # None
      BY <2>1 DEF CapInv, CapCarried, ItemsAttached
    <3>7. \A x \in added : WithinCap(x) /\ topicOf'[x.sub] # None
      <4> HIDE DEF item
      <4> QED
        BY <2>3, <3>2, <3>6
    <3> HIDE DEF added
    <3> QED
      BY <3>5, <3>6, <3>7, CapKept
  <2> QED
    BY <2>4, <2>5
<1>15. ASSUME NEW w \in Worker, Release(w) PROVE CapInv'
  <2>1. /\ job' = [job EXCEPT ![w] = Resume(job[w])]
        /\ UNCHANGED <<topicOf, policy, backlog, draining, chan, held, timers>>
    BY <1>15 DEF Release, subVars, lockVars
  <2>2. Resume(job[w]).item = None
    BY <1>0, CallItems
  <2>3. LiveItems' \subseteq LiveItems
    BY <2>1, <2>2, OnlyJob, PlacesLive
  <2> QED
    BY <2>1, <2>3, CapUnmoved
<1>16. ASSUME NEW w \in Worker, NEW c \in ConsumerId, Cancel(w, c) PROVE CapInv'
  <2> DEFINE j == [Idle EXCEPT !.pc = "cancel", !.consumer = c]
  <2>1. /\ job' = [job EXCEPT ![w] = j]
        /\ UNCHANGED <<topicOf, policy, backlog, draining, chan, held, timers>>
    BY <1>16 DEF Cancel, lockVars
  <2>2. j.item = None
    BY DEF Idle
  <2>3. LiveItems' \subseteq LiveItems
    <3> HIDE DEF j
    <3> QED
      BY <2>1, <2>2, OnlyJob, PlacesLive
  <2> QED
    BY <2>1, <2>3, CapUnmoved
<1>17. ASSUME NEW w \in Worker, CancelNext(w) PROVE CapInv'
  <2> DEFINE c == job[w].consumer
             h == Head(chan[c])
             j == [job[w] EXCEPT !.pc = "reject", !.item = h.item, !.counted = h.counted]
  <2>1. /\ job[w] \in Job /\ c \in ConsumerId /\ chan[c] # <<>>
        /\ chan' = [chan EXCEPT ![c] = Tail(@)]
        /\ job' = [job EXCEPT ![w] = j]
        /\ UNCHANGED <<topicOf, policy, backlog, draining, held, timers>>
    BY <1>17, <1>0 DEF CancelNext, subVars, lockVars, TypeInv, JobFields
  <2>2. chan[c] \in Seq(Handed)
    BY <2>1 DEF TypeInv, TypeOK
  <2>3. h \in Elements(chan[c]) /\ Elements(Tail(chan[c])) \subseteq Elements(chan[c])
    BY <2>1, <2>2, ElementsTail
  <2>4. j.item = h.item
    <3> HIDE DEF h
    <3> QED
      BY <2>1 DEF Job
  <2>5. h.item \in LiveItems
    <3>1. h.item \in ChannelItems(c)
      BY <2>3 DEF ChannelItems
    <3> HIDE DEF h
    <3> QED
      BY <2>1, <3>1, PlacesLive
  <2>6. \A x \in ConsumerId : ChannelItems(x)' \subseteq LiveItems
    <3>1. \A x \in ConsumerId : chan'[x] = IF x = c THEN Tail(chan[x]) ELSE chan[x]
      BY <2>1 DEF TypeInv, TypeOK
    <3>2. \A x \in ConsumerId : ChannelItems(x)' \subseteq ChannelItems(x)
      BY <2>3, <3>1 DEF ChannelItems
    <3> QED
      BY <3>2, PlacesLive
  <2> HIDE DEF j, h, c
  <2>7. \A v \in Worker : job'[v].item # None => job'[v].item \in LiveItems
    <3>1. \A v \in Worker : job'[v] = IF v = w THEN j ELSE job[v]
      BY <2>1 DEF TypeInv, TypeOK
    <3> QED
      BY <2>4, <2>5, <3>1, PlacesLive
  <2>8. LiveItems' \subseteq LiveItems \cup {}
    <3>1. (\A x \in held' : x.item \in LiveItems) /\ timers' \subseteq LiveItems
      BY <2>1, PlacesLive
    <3>2. (\A s \in Sub : Elements(backlog[s])' \subseteq LiveItems)
          /\ Elements(draining)' \subseteq LiveItems
      BY <2>1, PlacesLive
    <3> QED
      BY <2>6, <2>7, <3>1, <3>2, ItemsAdded
  <2> QED
    BY <2>1, <2>8, CapUnmoved
<1>18. ASSUME NEW w \in Worker, Cancelled(w) PROVE CapInv'
  <2>1. /\ job' = [job EXCEPT ![w] = Idle]
        /\ UNCHANGED <<topicOf, policy, backlog, draining, chan, held, timers>>
    BY <1>18 DEF Cancelled, subVars, lockVars
  <2>2. LiveItems' \subseteq LiveItems
    BY <2>1, CallItems, OnlyJob, PlacesLive
  <2> QED
    BY <2>1, <2>2, CapUnmoved
<1>19. CASE UNCHANGED vars
  <2>1. LiveItems' = LiveItems
    BY <1>19 DEF vars, LiveItems, BacklogItems, HandedItems, ChannelItems, HandlerItems,
                ThreadItems, subVars, lockVars
  <2> QED
    BY <1>19, <2>1, CapUnmoved DEF vars, subVars
<1> QED
  BY <1>1, <1>2, <1>3, <1>4, <1>5, <1>6, <1>7, <1>8, <1>9, <1>10, <1>11, <1>12, <1>13, <1>14,
     <1>15, <1>16, <1>17, <1>18, <1>19
     DEF Next, Proceed, Settle, DropMessage

\* Where every registration of a subscription declares the same cap, no message
\* of it is delivered more often than that, in every instance of the transport.
THEOREM CapHonoured == Spec => []AttemptsWithinCap
<1>1. Init => TypeInv /\ CapInv
  BY TypeInit, CapInit
<1>2. TypeInv /\ CapInv /\ [Next]_vars => TypeInv' /\ CapInv'
  BY TypeStep, CapStep
<1>3. CapInv => AttemptsWithinCap
  BY DEF CapInv
<1> QED
  BY <1>1, <1>2, <1>3, PTL DEF Spec

--------------------------------------------------------------------------------
(***************************************************************************)
(* Part 4: ExactlyOnePlace.  Places is cut into eight parts, one for each  *)
(* kind of place.  A published copy has one part with one place in it and  *)
(* the others empty, and a copy not yet published has none; a step leaves  *)
(* the parts of a copy as they are or moves it from one to another.        *)
(***************************************************************************)
Kinds == {"backlog", "draining", "channel", "held", "timer", "job", "acked", "dead"}

BacklogPlaces(bl, x) == {<<"backlog", i>> : i \in Where(bl[x.sub], x)}
DrainingPlaces(q, x) == {<<"draining", i>> : i \in Where(q, x)}
ChannelPlaces(ch, x) ==
    UNION {{<<"channel", c, i>> : i \in {j \in DOMAIN ch[c] : CopyOf(ch[c][j].item) = x}}
           : c \in ConsumerId}
HeldPlaces(hs, x) == {<<"held", d>> : d \in {e \in hs : CopyOf(e.item) = x}}
TimerPlaces(ts, x) == {<<"timer", item>> : item \in {i \in ts : CopyOf(i) = x}}
JobPlaces(jb, x) ==
    {<<"job", w>> : w \in {v \in Worker : jb[v].item # None /\ CopyOf(jb[v].item) = x}}
AckedPlaces(ys, x) == {<<"acked", y>> : y \in ys \cap {x}}
DeadPlaces(lg, x) ==
    UNION {{<<"dead", t, i>> : i \in {j \in DOMAIN lg[t] : lg[t][j] = x}} : t \in Topic}

Parts(x) ==
    [backlog  |-> BacklogPlaces(backlog, x),
     draining |-> DrainingPlaces(draining, x),
     channel  |-> ChannelPlaces(chan, x),
     held     |-> HeldPlaces(held, x),
     timer    |-> TimerPlaces(timers, x),
     job      |-> JobPlaces(job, x),
     acked    |-> AckedPlaces(acked, x),
     dead     |-> DeadPlaces(log, x)]

Lone(A) == \A p, q \in A : p = q

OnePart(F) == \E k \in Kinds : /\ F[k] # {} /\ Lone(F[k])
                               /\ \A l \in Kinds \ {k} : F[l] = {}

NoPart(F) == \A k \in Kinds : F[k] = {}

Placed(x) == IF x \in Copies THEN OnePart(Parts(x)) ELSE NoPart(Parts(x))

AllPlaced == \A x \in Copy : Placed(x)

\* Only a rejection and a route have a message in their hands.
JobHolds == \A w \in Worker : job[w].pc \notin {"reject", "route"} => job[w].item = None

BacklogOwn == \A s \in Sub : \A i \in DOMAIN backlog[s] : backlog[s][i].sub = s

DrainIdle == lock = None => draining = <<>>

CreatedBefore == \A s \in Sub : topicOf[s] # None => created[s] <= Len(log[topicOf[s]])

PlaceInv == AllPlaced /\ JobHolds /\ BacklogOwn /\ DrainIdle /\ CreatedBefore

\* B has places where A has, and no second one where A has none.
Like(A, B) == /\ A = {} <=> B = {}
              /\ Lone(A) => Lone(B)

LEMMA PartsKept ==
  ASSUME NEW F, NEW G, \A k \in Kinds : Like(F[k], G[k])
  PROVE  (OnePart(F) => OnePart(G)) /\ (NoPart(F) => NoPart(G))
<1>1. ASSUME NoPart(F) PROVE NoPart(G)
  BY <1>1 DEF NoPart, Like
<1>2. ASSUME OnePart(F) PROVE OnePart(G)
  <2>1. PICK k \in Kinds : F[k] # {} /\ Lone(F[k]) /\ \A l \in Kinds \ {k} : F[l] = {}
    BY <1>2 DEF OnePart
  <2>2. G[k] # {} /\ Lone(G[k]) /\ \A l \in Kinds \ {k} : G[l] = {}
    BY <2>1 DEF Like
  <2> QED
    BY <2>2 DEF OnePart
<1> QED
  BY <1>1, <1>2

LEMMA PartMoved ==
  ASSUME NEW F, NEW G, NEW k \in Kinds, NEW l \in Kinds, k # l,
         F[k] # {}, OnePart(F),
         Lone(F[k]) => G[k] = {},
         F[l] = {} => G[l] # {} /\ Lone(G[l]),
         \A m \in Kinds \ {k, l} : Like(F[m], G[m])
  PROVE  OnePart(G)
<1>1. PICK n \in Kinds : F[n] # {} /\ Lone(F[n]) /\ \A m \in Kinds \ {n} : F[m] = {}
  BY DEF OnePart
<1>2. n = k
  BY <1>1
<1>3. G[k] = {} /\ G[l] # {} /\ Lone(G[l])
  BY <1>1, <1>2
<1>4. \A m \in Kinds \ {l} : G[m] = {}
  BY <1>1, <1>2, <1>3 DEF Like
<1> QED
  BY <1>3, <1>4 DEF OnePart

\* The parts of a copy that no step moves.
LEMMA PlacedKept ==
  ASSUME NEW x, Placed(x), x \in Copies' <=> x \in Copies,
         \A k \in Kinds : Like(Parts(x)[k], Parts(x)'[k])
  PROVE  Placed(x)'
<1>1. (OnePart(Parts(x)) => OnePart(Parts(x)')) /\ (NoPart(Parts(x)) => NoPart(Parts(x)'))
  BY PartsKept
<1>2. (Placed(x))' <=> IF x \in Copies' THEN OnePart(Parts(x)') ELSE NoPart(Parts(x)')
  BY DEF Placed, OnePart, NoPart
<1> QED
  BY <1>1, <1>2 DEF Placed

\* The parts of a copy that goes from the places of kind k to those of kind l.
LEMMA PlacedMoved ==
  ASSUME NEW x, Placed(x), x \in Copies' <=> x \in Copies,
         NEW k \in Kinds, NEW l \in Kinds, k # l,
         Parts(x)[k] # {},
         Lone(Parts(x)[k]) => Parts(x)'[k] = {},
         Parts(x)[l] = {} => Parts(x)'[l] # {} /\ Lone(Parts(x)'[l]),
         \A m \in Kinds \ {k, l} : Like(Parts(x)[m], Parts(x)'[m])
  PROVE  Placed(x)'
<1>1. x \in Copies /\ OnePart(Parts(x))
  BY DEF Placed, NoPart
<1>2. OnePart(Parts(x)')
  BY <1>1, PartMoved
<1>3. (Placed(x))' <=> IF x \in Copies' THEN OnePart(Parts(x)') ELSE NoPart(Parts(x)')
  BY DEF Placed, OnePart, NoPart
<1> QED
  BY <1>1, <1>2, <1>3

LEMMA LikeSelf == \A A : Like(A, A)
  BY DEF Like

\* The first of a sequence goes, and what is behind it moves up.
LEMMA TailShift ==
  ASSUME NEW S, NEW q \in Seq(S), q # <<>>
  PROVE  /\ DOMAIN Tail(q) = 1..(Len(q) - 1) /\ DOMAIN q = 1..Len(q) /\ Len(q) \in Nat \ {0}
         /\ \A i \in 1..(Len(q) - 1) : Tail(q)[i] = q[i + 1]
         /\ Head(q) = q[1]
  OBVIOUS

LEMMA DrainingTail ==
  ASSUME NEW q \in Seq(Item), q # <<>>, NEW x
  PROVE  /\ x # CopyOf(Head(q)) => Like(DrainingPlaces(q, x), DrainingPlaces(Tail(q), x))
         /\ x = CopyOf(Head(q)) =>
               /\ DrainingPlaces(q, x) # {}
               /\ Lone(DrainingPlaces(q, x)) => DrainingPlaces(Tail(q), x) = {}
<1> DEFINE r == Tail(q)
           n == Len(q)
<1>1. /\ DOMAIN r = 1..(n - 1) /\ DOMAIN q = 1..n /\ n \in Nat \ {0}
      /\ \A i \in 1..(n - 1) : r[i] = q[i + 1]
      /\ Head(q) = q[1]
  BY TailShift
<1>2. /\ \A p : p \in DrainingPlaces(q, x) <=>
                \E i \in DOMAIN q : CopyOf(q[i]) = x /\ p = <<"draining", i>>
      /\ \A p : p \in DrainingPlaces(r, x) <=>
                \E i \in DOMAIN r : CopyOf(r[i]) = x /\ p = <<"draining", i>>
  BY DEF DrainingPlaces, Where
<1> HIDE DEF r, n
<1>3. ASSUME NEW i \in DOMAIN r PROVE i + 1 \in DOMAIN q /\ r[i] = q[i + 1] /\ i + 1 # 1
  BY <1>1
<1>4. ASSUME NEW i \in DOMAIN q, i # 1 PROVE i - 1 \in DOMAIN r /\ r[i - 1] = q[i]
  BY <1>1, <1>4
<1>5. 1 \in DOMAIN q
  BY <1>1
<1>6. ASSUME x # CopyOf(Head(q)) PROVE Like(DrainingPlaces(q, x), DrainingPlaces(r, x))
  <2>1. ASSUME NEW i \in DOMAIN q, CopyOf(q[i]) = x PROVE i - 1 \in DOMAIN r /\ CopyOf(r[i - 1]) = x
    BY <1>1, <1>4, <1>6, <2>1
  <2>2. ASSUME NEW p \in DrainingPlaces(q, x) PROVE DrainingPlaces(r, x) # {}
    <3>1. PICK i \in DOMAIN q : CopyOf(q[i]) = x
      BY <1>2
    <3>2. <<"draining", i - 1>> \in DrainingPlaces(r, x)
      BY <1>2, <2>1, <3>1
    <3> QED
      BY <3>2
  <2>3. ASSUME NEW p \in DrainingPlaces(r, x) PROVE DrainingPlaces(q, x) # {}
    <3>1. PICK i \in DOMAIN r : CopyOf(r[i]) = x
      BY <1>2
    <3>2. <<"draining", i + 1>> \in DrainingPlaces(q, x)
      BY <1>2, <1>3, <3>1
    <3> QED
      BY <3>2
  <2>4. ASSUME Lone(DrainingPlaces(q, x)) PROVE Lone(DrainingPlaces(r, x))
    <3> SUFFICES ASSUME NEW i \in DOMAIN r, NEW j \in DOMAIN r, CopyOf(r[i]) = x, CopyOf(r[j]) = x
                 PROVE  i = j
      BY <1>2 DEF Lone
    <3>1. <<"draining", i + 1>> \in DrainingPlaces(q, x) /\ <<"draining", j + 1>> \in DrainingPlaces(q, x)
      BY <1>2, <1>3
    <3>2. i + 1 = j + 1
      BY <2>4, <3>1 DEF Lone
    <3> QED
      BY <1>1, <3>2
  <2> QED
    BY <2>2, <2>3, <2>4 DEF Like
<1>7. ASSUME x = CopyOf(Head(q))
      PROVE  /\ DrainingPlaces(q, x) # {}
             /\ Lone(DrainingPlaces(q, x)) => DrainingPlaces(r, x) = {}
  <2>1. <<"draining", 1>> \in DrainingPlaces(q, x)
    BY <1>1, <1>2, <1>5, <1>7
  <2>2. ASSUME NEW i \in DOMAIN r, CopyOf(r[i]) = x, Lone(DrainingPlaces(q, x)) PROVE FALSE
    <3>1. <<"draining", i + 1>> \in DrainingPlaces(q, x)
      BY <1>2, <1>3, <2>2
    <3>2. i + 1 = 1
      BY <2>1, <2>2, <3>1 DEF Lone
    <3> QED
      BY <1>3, <3>2
  <2> QED
    BY <1>2, <2>1, <2>2
<1> QED
  BY <1>6, <1>7 DEF r

LEMMA ChannelPlacesAre ==
  ASSUME NEW ch, NEW x, NEW p
  PROVE  p \in ChannelPlaces(ch, x) <=>
            \E c \in ConsumerId : \E i \in DOMAIN ch[c] :
               CopyOf(ch[c][i].item) = x /\ p = <<"channel", c, i>>
  BY DEF ChannelPlaces

LEMMA ChannelTail ==
  ASSUME NEW ch \in [ConsumerId -> Seq(Handed)], NEW c \in ConsumerId, ch[c] # <<>>,
         NEW ch2, ch2 = [ch EXCEPT ![c] = Tail(@)], NEW x
  PROVE  /\ x # CopyOf(Head(ch[c]).item) => Like(ChannelPlaces(ch, x), ChannelPlaces(ch2, x))
         /\ x = CopyOf(Head(ch[c]).item) =>
               /\ ChannelPlaces(ch, x) # {}
               /\ Lone(ChannelPlaces(ch, x)) => ChannelPlaces(ch2, x) = {}
<1> DEFINE n == Len(ch[c])
           off(b) == IF b = c THEN 1 ELSE 0
           at(h, b, i) == b \in ConsumerId /\ i \in DOMAIN h[b] /\ CopyOf(h[b][i].item) = x
<1>1. /\ DOMAIN Tail(ch[c]) = 1..(n - 1) /\ DOMAIN ch[c] = 1..n /\ n \in Nat \ {0}
      /\ \A i \in 1..(n - 1) : Tail(ch[c])[i] = ch[c][i + 1]
      /\ Head(ch[c]) = ch[c][1]
  <2>1. ch[c] \in Seq(Handed)
    OBVIOUS
  <2> QED
    BY <2>1, TailShift
<1>2. ch2[c] = Tail(ch[c]) /\ \A b \in ConsumerId \ {c} : ch2[b] = ch[b]
  OBVIOUS
<1> HIDE DEF n
<1>3. ASSUME NEW b, NEW i, at(ch2, b, i)
      PROVE  at(ch, b, i + off(b)) /\ i \in Nat \ {0} /\ (b = c => i + 1 # 1)
  <2>1. CASE b = c
    BY <1>1, <1>2, <1>3, <2>1
  <2>2. CASE b # c
    <3>1. ch2[b] = ch[b] /\ ch[b] \in Seq(Handed)
      BY <1>2, <1>3, <2>2
    <3>2. i \in Nat \ {0}
      BY <1>3, <3>1
    <3>3. i + off(b) = i
      BY <2>2, <3>2
    <3> QED
      BY <1>3, <2>2, <3>1, <3>2, <3>3
  <2> QED
    BY <2>1, <2>2
<1>4. ASSUME NEW b, NEW i, at(ch, b, i), ~(b = c /\ i = 1)
      PROVE  \E j : at(ch2, b, j)
  <2>1. CASE b = c
    <3>1. i - 1 \in 1..(n - 1) /\ i - 1 + 1 = i
      BY <1>1, <1>4, <2>1
    <3>2. at(ch2, b, i - 1)
      BY <1>1, <1>2, <1>4, <2>1, <3>1
    <3> QED
      BY <3>2
  <2>2. CASE b # c
    <3>1. at(ch2, b, i)
      BY <1>2, <1>4, <2>2
    <3> QED
      BY <3>1
  <2> QED
    BY <2>1, <2>2
<1>5. /\ \A b, i : at(ch, b, i) => <<"channel", b, i>> \in ChannelPlaces(ch, x)
      /\ \A p \in ChannelPlaces(ch, x) : \E b, i : at(ch, b, i) /\ p = <<"channel", b, i>>
      /\ \A b, i : at(ch2, b, i) => <<"channel", b, i>> \in ChannelPlaces(ch2, x)
      /\ \A p \in ChannelPlaces(ch2, x) : \E b, i : at(ch2, b, i) /\ p = <<"channel", b, i>>
  <2>1. \A h \in {ch, ch2} : \A p : p \in ChannelPlaces(h, x) <=>
            \E b \in ConsumerId : \E i \in DOMAIN h[b] :
               CopyOf(h[b][i].item) = x /\ p = <<"channel", b, i>>
    BY ChannelPlacesAre
  <2>2. ASSUME NEW h \in {ch, ch2}
        PROVE  /\ \A b, i : at(h, b, i) => <<"channel", b, i>> \in ChannelPlaces(h, x)
               /\ \A p \in ChannelPlaces(h, x) : \E b, i : at(h, b, i) /\ p = <<"channel", b, i>>
    <3>1. ASSUME NEW b, NEW i, at(h, b, i) PROVE <<"channel", b, i>> \in ChannelPlaces(h, x)
      BY <2>1, <3>1
    <3>2. ASSUME NEW p \in ChannelPlaces(h, x) PROVE \E b, i : at(h, b, i) /\ p = <<"channel", b, i>>
      <4>1. PICK b \in ConsumerId : \E i \in DOMAIN h[b] :
               CopyOf(h[b][i].item) = x /\ p = <<"channel", b, i>>
        BY ChannelPlacesAre
      <4>2. PICK i \in DOMAIN h[b] : CopyOf(h[b][i].item) = x /\ p = <<"channel", b, i>>
        BY <4>1
      <4>3. at(h, b, i)
        BY <4>2
      <4> HIDE DEF at
      <4> QED
        BY <4>2, <4>3
    <3> QED
      BY <3>1, <3>2
  <2> HIDE DEF at
  <2> QED
    BY <2>2
<1>6. \A b, i, d, j : <<"channel", b, i>> = <<"channel", d, j>> => b = d /\ i = j
  OBVIOUS
<1>7. at(ch, c, 1) <=> x = CopyOf(Head(ch[c]).item)
  BY <1>1
<1> HIDE DEF at
<1>8. ASSUME Lone(ChannelPlaces(ch, x)), NEW b, NEW i, NEW d, NEW j, at(ch, b, i), at(ch, d, j)
      PROVE  b = d /\ i = j
  <2>1. <<"channel", b, i>> = <<"channel", d, j>>
    BY <1>5, <1>8 DEF Lone
  <2> QED
    BY <1>6, <2>1
<1>9. ASSUME x # CopyOf(Head(ch[c]).item) PROVE Like(ChannelPlaces(ch, x), ChannelPlaces(ch2, x))
  <2>1. ASSUME NEW p \in ChannelPlaces(ch, x) PROVE ChannelPlaces(ch2, x) # {}
    <3>1. PICK b, i : at(ch, b, i)
      BY <1>5
    <3>2. PICK j : at(ch2, b, j)
      BY <1>4, <1>7, <1>9, <3>1
    <3>3. <<"channel", b, j>> \in ChannelPlaces(ch2, x)
      BY <1>5, <3>2
    <3> QED
      BY <3>3
  <2>2. ASSUME NEW p \in ChannelPlaces(ch2, x) PROVE ChannelPlaces(ch, x) # {}
    <3>1. PICK b, i : at(ch2, b, i)
      BY <1>5
    <3>2. <<"channel", b, i + off(b)>> \in ChannelPlaces(ch, x)
      BY <1>3, <1>5, <3>1
    <3> QED
      BY <3>2
  <2>3. ASSUME Lone(ChannelPlaces(ch, x)) PROVE Lone(ChannelPlaces(ch2, x))
    <3>1. ASSUME NEW b, NEW i, NEW d, NEW j, at(ch2, b, i), at(ch2, d, j)
          PROVE  b = d /\ i = j
      <4>1. /\ at(ch, b, i + off(b)) /\ i \in Nat
            /\ at(ch, d, j + off(d)) /\ j \in Nat
        BY <1>3, <3>1
      <4>2. b = d /\ i + off(b) = j + off(d)
        BY <1>8, <2>3, <4>1
      <4> QED
        BY <4>1, <4>2
    <3> SUFFICES ASSUME NEW p \in ChannelPlaces(ch2, x), NEW r \in ChannelPlaces(ch2, x)
                 PROVE  p = r
      BY DEF Lone
    <3>2. PICK b, i : at(ch2, b, i) /\ p = <<"channel", b, i>>
      BY <1>5
    <3>3. PICK d, j : at(ch2, d, j) /\ r = <<"channel", d, j>>
      BY <1>5
    <3>4. b = d /\ i = j
      BY <3>1, <3>2, <3>3
    <3> QED
      BY <3>2, <3>3, <3>4
  <2> QED
    BY <2>1, <2>2, <2>3 DEF Like
<1>10. ASSUME x = CopyOf(Head(ch[c]).item)
       PROVE  /\ ChannelPlaces(ch, x) # {}
              /\ Lone(ChannelPlaces(ch, x)) => ChannelPlaces(ch2, x) = {}
  <2>1. at(ch, c, 1)
    BY <1>7, <1>10
  <2>2. ASSUME Lone(ChannelPlaces(ch, x)), NEW b, NEW i, at(ch2, b, i) PROVE FALSE
    <3>1. b = c /\ i + off(b) = 1
      BY <1>3, <1>8, <2>1, <2>2
    <3> QED
      BY <1>3, <2>2, <3>1
  <2>3. <<"channel", c, 1>> \in ChannelPlaces(ch, x)
    BY <1>5, <2>1
  <2>4. Lone(ChannelPlaces(ch, x)) => ChannelPlaces(ch2, x) = {}
    BY <1>5, <2>2
  <2> QED
    BY <2>3, <2>4
<1> QED
  BY <1>9, <1>10

\* A thread takes a message into its hands, or lets go of the one it has.
LEMMA JobPlacesAre ==
  ASSUME NEW w \in Worker, \A v \in Worker \ {w} : job'[v] = job[v], NEW x
  PROVE  /\ job'[w].item = job[w].item => JobPlaces(job', x) = JobPlaces(job, x)
         /\ job[w].item = None =>
               JobPlaces(job', x) = IF job'[w].item # None /\ CopyOf(job'[w].item) = x
                                    THEN JobPlaces(job, x) \cup {<<"job", w>>}
                                    ELSE JobPlaces(job, x)
         /\ job[w].item # None /\ job'[w].item = None =>
               IF CopyOf(job[w].item) = x
               THEN /\ JobPlaces(job, x) # {}
                    /\ Lone(JobPlaces(job, x)) => JobPlaces(job', x) = {}
               ELSE JobPlaces(job', x) = JobPlaces(job, x)
<1> DEFINE has(v) == job[v].item # None /\ CopyOf(job[v].item) = x
           has2(v) == job'[v].item # None /\ CopyOf(job'[v].item) = x
<1>1. \A v \in Worker \ {w} : has2(v) <=> has(v)
  OBVIOUS
<1>2. has2(w) <=> job'[w].item # None /\ CopyOf(job'[w].item) = x
  OBVIOUS
<1>3. /\ \A p : p \in JobPlaces(job, x) <=> \E v \in Worker : has(v) /\ p = <<"job", v>>
      /\ \A p : p \in JobPlaces(job', x) <=> \E v \in Worker : has2(v) /\ p = <<"job", v>>
  BY DEF JobPlaces
<1>4. \A u, v : <<"job", u>> = <<"job", v>> => u = v
  OBVIOUS
<1>5. has(w) <=> job[w].item # None /\ CopyOf(job[w].item) = x
  OBVIOUS
<1> HIDE DEF has, has2
<1>6. ASSUME has2(w) <=> has(w) PROVE JobPlaces(job', x) = JobPlaces(job, x)
  <2>1. \A v \in Worker : has2(v) <=> has(v)
    BY <1>1, <1>6
  <2> QED
    BY <1>3, <2>1
<1>7. ASSUME has2(w), ~has(w) PROVE JobPlaces(job', x) = JobPlaces(job, x) \cup {<<"job", w>>}
  <2>1. \A v \in Worker : has2(v) <=> has(v) \/ v = w
    BY <1>1, <1>7
  <2> QED
    BY <1>3, <2>1
<1>8. ASSUME has(w), ~has2(w)
      PROVE  /\ JobPlaces(job, x) # {}
             /\ Lone(JobPlaces(job, x)) => JobPlaces(job', x) = {}
  <2>1. <<"job", w>> \in JobPlaces(job, x)
    BY <1>3, <1>8
  <2>2. ASSUME Lone(JobPlaces(job, x)), NEW v \in Worker, has2(v) PROVE FALSE
    <3>1. has(v) /\ v # w
      BY <1>1, <1>8, <2>2
    <3>2. <<"job", v>> \in JobPlaces(job, x)
      BY <1>3, <3>1
    <3>3. <<"job", v>> = <<"job", w>>
      BY <2>1, <2>2, <3>2 DEF Lone
    <3> QED
      BY <1>4, <3>1, <3>3
  <2> QED
    BY <1>3, <2>1, <2>2
<1>9. job'[w].item = job[w].item => (has2(w) <=> has(w))
  BY <1>2, <1>5
<1> QED
  BY <1>2, <1>5, <1>6, <1>7, <1>8, <1>9

\* A delivery, a timer or an acknowledgement more or less.
LEMMA HeldGain ==
  ASSUME NEW d, held' = held \cup {d}, NEW x
  PROVE  HeldPlaces(held', x) = IF x = CopyOf(d.item) THEN HeldPlaces(held, x) \cup {<<"held", d>>}
                                        ELSE HeldPlaces(held, x)
<1>1. CASE x # CopyOf(d.item)
  <2>1. {e \in held' : CopyOf(e.item) = x} = {e \in held : CopyOf(e.item) = x}
    BY <1>1
  <2> QED
    BY <1>1, <2>1 DEF HeldPlaces
<1>2. CASE x = CopyOf(d.item)
  <2>1. {e \in held' : CopyOf(e.item) = x} = {e \in held : CopyOf(e.item) = x} \cup {d}
    BY <1>2
  <2> QED
    BY <1>2, <2>1 DEF HeldPlaces
<1> QED
  BY <1>1, <1>2

LEMMA HeldLose ==
  ASSUME NEW d \in held, held' = held \ {d}, NEW x
  PROVE  IF x = CopyOf(d.item)
         THEN HeldPlaces(held, x) # {} /\ (Lone(HeldPlaces(held, x)) => HeldPlaces(held', x) = {})
         ELSE HeldPlaces(held', x) = HeldPlaces(held, x)
<1>1. CASE x # CopyOf(d.item)
  <2>1. {e \in held' : CopyOf(e.item) = x} = {e \in held : CopyOf(e.item) = x}
    BY <1>1
  <2> QED
    BY <1>1, <2>1 DEF HeldPlaces
<1>2. CASE x = CopyOf(d.item)
  <2>1. <<"held", d>> \in HeldPlaces(held, x)
    BY <1>2 DEF HeldPlaces
  <2>2. ASSUME Lone(HeldPlaces(held, x)), NEW p \in HeldPlaces(held', x) PROVE FALSE
    <3>1. PICK e \in held' : CopyOf(e.item) = x /\ p = <<"held", e>>
      BY DEF HeldPlaces
    <3>2. <<"held", e>> \in HeldPlaces(held, x)
      BY <3>1 DEF HeldPlaces
    <3>3. <<"held", e>> = <<"held", d>>
      BY <2>1, <2>2, <3>2 DEF Lone
    <3> QED
      BY <3>3
  <2> QED
    BY <1>2, <2>1, <2>2
<1> QED
  BY <1>1, <1>2

LEMMA TimersGain ==
  ASSUME NEW item, timers' = timers \cup {item}, NEW x
  PROVE  TimerPlaces(timers', x) = IF x = CopyOf(item) THEN TimerPlaces(timers, x) \cup {<<"timer", item>>}
                                        ELSE TimerPlaces(timers, x)
<1>1. CASE x # CopyOf(item)
  <2>1. {e \in timers' : CopyOf(e) = x} = {e \in timers : CopyOf(e) = x}
    BY <1>1
  <2> QED
    BY <1>1, <2>1 DEF TimerPlaces
<1>2. CASE x = CopyOf(item)
  <2>1. {e \in timers' : CopyOf(e) = x} = {e \in timers : CopyOf(e) = x} \cup {item}
    BY <1>2
  <2> QED
    BY <1>2, <2>1 DEF TimerPlaces
<1> QED
  BY <1>1, <1>2

LEMMA TimersLose ==
  ASSUME NEW item \in timers, timers' = timers \ {item}, NEW x
  PROVE  IF x = CopyOf(item)
         THEN TimerPlaces(timers, x) # {} /\ (Lone(TimerPlaces(timers, x)) => TimerPlaces(timers', x) = {})
         ELSE TimerPlaces(timers', x) = TimerPlaces(timers, x)
<1>1. CASE x # CopyOf(item)
  <2>1. {e \in timers' : CopyOf(e) = x} = {e \in timers : CopyOf(e) = x}
    BY <1>1
  <2> QED
    BY <1>1, <2>1 DEF TimerPlaces
<1>2. CASE x = CopyOf(item)
  <2>1. <<"timer", item>> \in TimerPlaces(timers, x)
    BY <1>2 DEF TimerPlaces
  <2>2. ASSUME Lone(TimerPlaces(timers, x)), NEW p \in TimerPlaces(timers', x) PROVE FALSE
    <3>1. PICK e \in timers' : CopyOf(e) = x /\ p = <<"timer", e>>
      BY DEF TimerPlaces
    <3>2. <<"timer", e>> \in TimerPlaces(timers, x)
      BY <3>1 DEF TimerPlaces
    <3>3. <<"timer", e>> = <<"timer", item>>
      BY <2>1, <2>2, <3>2 DEF Lone
    <3> QED
      BY <3>3
  <2> QED
    BY <1>2, <2>1, <2>2
<1> QED
  BY <1>1, <1>2

LEMMA AckedGain ==
  ASSUME NEW y, acked' = acked \cup {y}, NEW x
  PROVE  AckedPlaces(acked', x) = IF x = y THEN AckedPlaces(acked, x) \cup {<<"acked", y>>}
                                           ELSE AckedPlaces(acked, x)
  BY DEF AckedPlaces

\* A log entry more.
LEMMA DeadPlacesAre ==
  ASSUME TypeInv, NEW t \in Topic, NEW e \in Copy \cup {None},
         log'[t] = Append(log[t], e), \A u \in Topic \ {t} : log'[u] = log[u], NEW x
  PROVE  DeadPlaces(log', x) = IF x = e THEN DeadPlaces(log, x) \cup {<<"dead", t, Len(log[t]) + 1>>}
                                       ELSE DeadPlaces(log, x)
<1> DEFINE at(u, i) == u \in Topic /\ i \in DOMAIN log[u] /\ log[u][i] = x
           at2(u, i) == u \in Topic /\ i \in DOMAIN log'[u] /\ log'[u][i] = x
           n == Len(log[t]) + 1
<1>1. log'[t] = Append(log[t], e) /\ \A u \in Topic \ {t} : log'[u] = log[u]
  OBVIOUS
<1>2. ASSUME NEW u, NEW i
      PROVE  /\ at2(u, i) => at(u, i) \/ (u = t /\ i = n /\ x = e)
             /\ at(u, i) => at2(u, i)
             /\ u = t /\ i = n /\ x = e => at2(u, i)
  <2>1. CASE u = t
    <3>1. log[t] \in Seq(Copy \cup {None})
      BY DEF TypeInv, TypeOK
    <3>2. DOMAIN Append(log[t], e) = 1..n /\ DOMAIN log[t] = 1..(n - 1) /\ n \in Nat \ {0}
          /\ (\A k \in 1..(n - 1) : Append(log[t], e)[k] = log[t][k]) /\ Append(log[t], e)[n] = e
      BY <3>1
    <3> QED
      BY <1>1, <2>1, <3>2
  <2>2. CASE u # t
    BY <1>1, <2>2
  <2> QED
    BY <2>1, <2>2
<1>3. /\ \A p \in DeadPlaces(log, x) : \E u, i : at(u, i) /\ p = <<"dead", u, i>>
      /\ \A u, i : at(u, i) => <<"dead", u, i>> \in DeadPlaces(log, x)
      /\ \A p \in DeadPlaces(log', x) : \E u, i : at2(u, i) /\ p = <<"dead", u, i>>
      /\ \A u, i : at2(u, i) => <<"dead", u, i>> \in DeadPlaces(log', x)
  <2>1. ASSUME NEW p \in DeadPlaces(log, x) PROVE \E u, i : at(u, i) /\ p = <<"dead", u, i>>
    <3>1. PICK u \in Topic : \E i \in DOMAIN log[u] : log[u][i] = x /\ p = <<"dead", u, i>>
      BY DEF DeadPlaces
    <3>2. PICK i \in DOMAIN log[u] : log[u][i] = x /\ p = <<"dead", u, i>>
      BY <3>1
    <3>3. at(u, i)
      BY <3>2
    <3> HIDE DEF at
    <3> QED
      BY <3>2, <3>3
  <2>2. ASSUME NEW p \in DeadPlaces(log', x) PROVE \E u, i : at2(u, i) /\ p = <<"dead", u, i>>
    <3>1. PICK u \in Topic : \E i \in DOMAIN log'[u] : log'[u][i] = x /\ p = <<"dead", u, i>>
      BY DEF DeadPlaces
    <3>2. PICK i \in DOMAIN log'[u] : log'[u][i] = x /\ p = <<"dead", u, i>>
      BY <3>1
    <3>3. at2(u, i)
      BY <3>2
    <3> HIDE DEF at2
    <3> QED
      BY <3>2, <3>3
  <2>3. ASSUME NEW u, NEW i, at(u, i) PROVE <<"dead", u, i>> \in DeadPlaces(log, x)
    BY <2>3 DEF DeadPlaces
  <2>4. ASSUME NEW u, NEW i, at2(u, i) PROVE <<"dead", u, i>> \in DeadPlaces(log', x)
    BY <2>4 DEF DeadPlaces
  <2> HIDE DEF at, at2
  <2> QED
    BY <2>1, <2>2, <2>3, <2>4
<1> HIDE DEF at, at2, n
<1>4. /\ \A u, i : at2(u, i) => at(u, i) \/ (u = t /\ i = n /\ x = e)
      /\ \A u, i : at(u, i) => at2(u, i)
      /\ x = e => at2(t, n)
  BY <1>2
<1>5. CASE x = e
  <2>1. ASSUME NEW p \in DeadPlaces(log', x) PROVE p \in DeadPlaces(log, x) \/ p = <<"dead", t, n>>
    <3>1. PICK u, i : at2(u, i) /\ p = <<"dead", u, i>>
      BY <1>3
    <3>2. at(u, i) \/ (u = t /\ i = n)
      BY <1>4, <3>1
    <3> QED
      BY <1>3, <3>1, <3>2
  <2>2. ASSUME NEW p \in DeadPlaces(log, x) PROVE p \in DeadPlaces(log', x)
    <3>1. PICK u, i : at(u, i) /\ p = <<"dead", u, i>>
      BY <1>3
    <3>2. at2(u, i)
      BY <1>4, <3>1
    <3> QED
      BY <1>3, <3>1, <3>2
  <2>3. <<"dead", t, n>> \in DeadPlaces(log', x)
    BY <1>3, <1>4, <1>5
  <2>4. DeadPlaces(log', x) = DeadPlaces(log, x) \cup {<<"dead", t, n>>}
    BY <2>1, <2>2, <2>3
  <2> QED
    BY <1>5, <2>4 DEF n
<1>6. CASE x # e
  <2>1. ASSUME NEW p \in DeadPlaces(log', x) PROVE p \in DeadPlaces(log, x)
    <3>1. PICK u, i : at2(u, i) /\ p = <<"dead", u, i>>
      BY <1>3
    <3>2. at(u, i)
      BY <1>4, <1>6, <3>1
    <3> QED
      BY <1>3, <3>1, <3>2
  <2>2. ASSUME NEW p \in DeadPlaces(log, x) PROVE p \in DeadPlaces(log', x)
    <3>1. PICK u, i : at(u, i) /\ p = <<"dead", u, i>>
      BY <1>3
    <3>2. at2(u, i)
      BY <1>4, <3>1
    <3> QED
      BY <1>3, <3>1, <3>2
  <2> QED
    BY <1>6, <2>1, <2>2
<1> QED
  BY <1>5, <1>6

\* What Hand does where every consumer of a rotation still reads.
LEMMA HandGives ==
  ASSUME TypeInv, RotationReads, NEW given, DOMAIN given \subseteq Sub,
         NEW harness \in BOOLEAN, Hand(given, harness)
  PROVE  /\ \A c \in ConsumerId :
              chan'[c] = IF /\ subOf[c] \in DOMAIN given /\ consumers[subOf[c]] # {}
                            /\ c = NextConsumer(subOf[c])
                         THEN Append(chan[c], [item |-> given[subOf[c]], counted |-> harness])
                         ELSE chan[c]
         /\ \A s \in Sub :
              backlog'[s] = IF s \in DOMAIN given /\ consumers[s] = {}
                            THEN Append(backlog[s], given[s]) ELSE backlog[s]
         /\ inflight' = inflight + IF harness THEN Cardinality({s \in DOMAIN given : consumers[s] # {}})
                                              ELSE 0
<1> DEFINE served == {s \in DOMAIN given : consumers[s] # {}}
           taken == {s \in served : phase[NextConsumer(s)] # "closed"}
<1>1. taken = served
  BY HandReaches
<1>2. /\ chan' = [c \in ConsumerId |->
                    IF subOf[c] \in taken /\ c = NextConsumer(subOf[c])
                    THEN Append(chan[c], [item |-> given[subOf[c]], counted |-> harness])
                    ELSE chan[c]]
      /\ backlog' = [s \in Sub |-> IF s \in (DOMAIN given) \ taken
                                   THEN Append(backlog[s], given[s]) ELSE backlog[s]]
      /\ inflight' = inflight + IF harness THEN Cardinality(taken) ELSE 0
  BY DEF Hand
<1>3. \A s : s \in taken <=> s \in DOMAIN given /\ consumers[s] # {}
  BY <1>1
<1>4. inflight' = inflight + IF harness THEN Cardinality(served) ELSE 0
  BY <1>1, <1>2
<1> HIDE DEF taken
<1>5. ASSUME NEW c \in ConsumerId
      PROVE  chan'[c] = IF /\ subOf[c] \in DOMAIN given /\ consumers[subOf[c]] # {}
                           /\ c = NextConsumer(subOf[c])
                        THEN Append(chan[c], [item |-> given[subOf[c]], counted |-> harness])
                        ELSE chan[c]
  BY <1>2, <1>3
<1>6. ASSUME NEW s \in Sub
      PROVE  backlog'[s] = IF s \in DOMAIN given /\ consumers[s] = {}
                           THEN Append(backlog[s], given[s]) ELSE backlog[s]
  BY <1>2, <1>3
<1> QED
  BY <1>4, <1>5, <1>6

\* The items of a sequence that gets one more.
LEMMA AppendAt ==
  ASSUME NEW S, NEW q \in Seq(S), NEW e \in S
  PROVE  /\ DOMAIN Append(q, e) = 1..(Len(q) + 1) /\ DOMAIN q = 1..Len(q) /\ Len(q) \in Nat
         /\ \A i \in 1..Len(q) : Append(q, e)[i] = q[i]
         /\ Append(q, e)[Len(q) + 1] = e
  OBVIOUS

\* The parts of a copy that Hand touches: the copy it is given for a
\* subscription is now in a channel or in the backlog, any other is where it was.
LEMMA HandPlaces ==
  ASSUME TypeInv, RotationReads, NEW given, DOMAIN given \subseteq Sub,
         \A s \in DOMAIN given : given[s] \in Item /\ given[s].sub = s,
         NEW harness \in BOOLEAN, Hand(given, harness), NEW x \in Copy
  PROVE  IF x.sub \in DOMAIN given /\ CopyOf(given[x.sub]) = x
         THEN \/ /\ \E p : ChannelPlaces(chan', x) = ChannelPlaces(chan, x) \cup {p}
                 /\ BacklogPlaces(backlog', x) = BacklogPlaces(backlog, x)
              \/ /\ ChannelPlaces(chan', x) = ChannelPlaces(chan, x)
                 /\ \E p : BacklogPlaces(backlog', x) = BacklogPlaces(backlog, x) \cup {p}
         ELSE /\ ChannelPlaces(chan', x) = ChannelPlaces(chan, x)
              /\ BacklogPlaces(backlog', x) = BacklogPlaces(backlog, x)
<1> DEFINE s == x.sub
           c == NextConsumer(s)
           mine == s \in DOMAIN given /\ CopyOf(given[s]) = x
           to(b) == /\ subOf[b] \in DOMAIN given /\ consumers[subOf[b]] # {}
                    /\ b = NextConsumer(subOf[b])
           h(b) == [item |-> given[subOf[b]], counted |-> harness]
           n(b) == Len(chan[b]) + 1
           at(b, i) == b \in ConsumerId /\ i \in DOMAIN chan[b] /\ CopyOf(chan[b][i].item) = x
           at2(b, i) == b \in ConsumerId /\ i \in DOMAIN chan'[b] /\ CopyOf(chan'[b][i].item) = x
<1>1. s \in Sub
  BY DEF Copy
<1>2. \A b \in ConsumerId : chan'[b] = IF to(b) THEN Append(chan[b], h(b)) ELSE chan[b]
  BY HandGives
<1>3. backlog'[s] = IF s \in DOMAIN given /\ consumers[s] = {}
                    THEN Append(backlog[s], given[s]) ELSE backlog[s]
  BY <1>1, HandGives
<1>4. ASSUME NEW b \in ConsumerId, to(b) PROVE h(b) \in Handed /\ (CopyOf(h(b).item) = x <=> subOf[b] = s /\ mine)
  <2>1. given[subOf[b]] \in Item /\ given[subOf[b]].sub = subOf[b]
    BY <1>4
  <2>2. CopyOf(given[subOf[b]]).sub = subOf[b]
    BY <2>1 DEF CopyOf
  <2> QED
    BY <1>4, <2>1, <2>2 DEF Handed
<1>5. ASSUME NEW b \in ConsumerId, to(b)
      PROVE  /\ DOMAIN chan'[b] = 1..n(b) /\ DOMAIN chan[b] = 1..(n(b) - 1) /\ n(b) \in Nat \ {0}
             /\ \A i \in 1..(n(b) - 1) : chan'[b][i] = chan[b][i]
             /\ chan'[b][n(b)] = h(b)
  <2>1. chan[b] \in Seq(Handed) /\ chan'[b] = Append(chan[b], h(b))
    BY <1>2, <1>5 DEF TypeInv, TypeOK
  <2>2. h(b) \in Handed
    BY <1>4, <1>5
  <2> HIDE DEF h
  <2> QED
    BY <2>1, <2>2, AppendAt
<1>6. /\ \A b, i : at2(b, i) => at(b, i) \/ (b \in ConsumerId /\ to(b) /\ subOf[b] = s /\ mine /\ i = n(b))
      /\ \A b, i : at(b, i) => at2(b, i)
      /\ \A b \in ConsumerId : to(b) /\ subOf[b] = s /\ mine => at2(b, n(b))
  <2>1. ASSUME NEW b, NEW i, at2(b, i)
        PROVE  at(b, i) \/ (b \in ConsumerId /\ to(b) /\ subOf[b] = s /\ mine /\ i = n(b))
    <3>1. CASE to(b)
      <4> HIDE DEF to, h, n, mine, s
      <4>1. i \in 1..(n(b) - 1) \/ i = n(b)
        BY <1>5, <2>1, <3>1
      <4> QED
        BY <1>4, <1>5, <2>1, <3>1, <4>1
    <3>2. CASE ~to(b)
      <4> HIDE DEF to
      <4> QED
        BY <1>2, <2>1, <3>2
    <3> QED
      BY <3>1, <3>2
  <2>2. ASSUME NEW b, NEW i, at(b, i) PROVE at2(b, i)
    <3>1. CASE to(b)
      <4> HIDE DEF to, h, n
      <4> QED
        BY <1>5, <2>2, <3>1, SMTT(30)
    <3>2. CASE ~to(b)
      <4> HIDE DEF to
      <4> QED
        BY <1>2, <2>2, <3>2
    <3> QED
      BY <3>1, <3>2
  <2>3. ASSUME NEW b \in ConsumerId, to(b), subOf[b] = s, mine PROVE at2(b, n(b))
    <3> HIDE DEF to, h, n, mine, s
    <3> QED
      BY <1>4, <1>5, <2>3
  <2> HIDE DEF to, at, at2, n, mine, s
  <2> QED
    BY <2>1, <2>2, <2>3
<1>7. /\ \A p \in ChannelPlaces(chan, x) : \E b, i : at(b, i) /\ p = <<"channel", b, i>>
      /\ \A b, i : at(b, i) => <<"channel", b, i>> \in ChannelPlaces(chan, x)
      /\ \A p \in ChannelPlaces(chan', x) : \E b, i : at2(b, i) /\ p = <<"channel", b, i>>
      /\ \A b, i : at2(b, i) => <<"channel", b, i>> \in ChannelPlaces(chan', x)
  <2>1. ASSUME NEW p \in ChannelPlaces(chan, x) PROVE \E b, i : at(b, i) /\ p = <<"channel", b, i>>
    <3>1. PICK b \in ConsumerId : \E i \in DOMAIN chan[b] :
             CopyOf(chan[b][i].item) = x /\ p = <<"channel", b, i>>
      BY ChannelPlacesAre
    <3>2. PICK i \in DOMAIN chan[b] : CopyOf(chan[b][i].item) = x /\ p = <<"channel", b, i>>
      BY <3>1
    <3>3. at(b, i)
      BY <3>2
    <3> HIDE DEF at
    <3> QED
      BY <3>2, <3>3
  <2>2. ASSUME NEW p \in ChannelPlaces(chan', x) PROVE \E b, i : at2(b, i) /\ p = <<"channel", b, i>>
    <3>1. PICK b \in ConsumerId : \E i \in DOMAIN chan'[b] :
             CopyOf(chan'[b][i].item) = x /\ p = <<"channel", b, i>>
      BY ChannelPlacesAre
    <3>2. PICK i \in DOMAIN chan'[b] : CopyOf(chan'[b][i].item) = x /\ p = <<"channel", b, i>>
      BY <3>1
    <3>3. at2(b, i)
      BY <3>2
    <3> HIDE DEF at2
    <3> QED
      BY <3>2, <3>3
  <2>3. ASSUME NEW b, NEW i, at(b, i) PROVE <<"channel", b, i>> \in ChannelPlaces(chan, x)
    BY <2>3, ChannelPlacesAre
  <2>4. ASSUME NEW b, NEW i, at2(b, i) PROVE <<"channel", b, i>> \in ChannelPlaces(chan', x)
    BY <2>4, ChannelPlacesAre
  <2> HIDE DEF at, at2
  <2> QED
    BY <2>1, <2>2, <2>3, <2>4
<1>8. s \in DOMAIN given /\ consumers[s] # {} => c \in ConsumerId /\ to(c) /\ subOf[c] = s
  BY <1>1, NextConsumerIn, HandReaches DEF TypeInv, TypeOK
<1>9. \A b \in ConsumerId : to(b) /\ subOf[b] = s => b = c /\ s \in DOMAIN given /\ consumers[s] # {}
  OBVIOUS
<1>10. s \in DOMAIN given =>
         /\ BacklogPlaces([backlog EXCEPT ![s] = Append(@, given[s])], x)
            = IF mine THEN BacklogPlaces(backlog, x) \cup {<<"backlog", Len(backlog[s]) + 1>>}
                      ELSE BacklogPlaces(backlog, x)
  <2> SUFFICES ASSUME s \in DOMAIN given
               PROVE  BacklogPlaces([backlog EXCEPT ![s] = Append(@, given[s])], x)
                      = IF mine THEN BacklogPlaces(backlog, x) \cup {<<"backlog", Len(backlog[s]) + 1>>}
                                ELSE BacklogPlaces(backlog, x)
    OBVIOUS
  <2> DEFINE q == backlog[s]
             e == given[s]
  <2>1. q \in Seq(Item) /\ e \in Item /\ [backlog EXCEPT ![s] = Append(@, given[s])][s] = Append(q, e)
    BY <1>1 DEF TypeInv, TypeOK
  <2>2. /\ DOMAIN Append(q, e) = 1..(Len(q) + 1) /\ DOMAIN q = 1..Len(q) /\ Len(q) \in Nat
        /\ \A i \in 1..Len(q) : Append(q, e)[i] = q[i]
        /\ Append(q, e)[Len(q) + 1] = e
    BY <2>1, AppendAt
  <2>3. Where(Append(q, e), x) = IF CopyOf(e) = x THEN Where(q, x) \cup {Len(q) + 1} ELSE Where(q, x)
    <3> HIDE DEF q, e
    <3> QED
      BY <2>2 DEF Where
  <2>4. mine <=> CopyOf(e) = x
    OBVIOUS
  <2>5. BacklogPlaces([backlog EXCEPT ![s] = Append(@, given[s])], x)
        = {<<"backlog", i>> : i \in Where(Append(q, e), x)}
    BY <2>1 DEF BacklogPlaces
  <2>6. BacklogPlaces(backlog, x) = {<<"backlog", i>> : i \in Where(q, x)}
    BY DEF BacklogPlaces
  <2> HIDE DEF mine, q, e
  <2>7. CASE mine
    <3>1. {<<"backlog", i>> : i \in Where(q, x) \cup {Len(q) + 1}}
          = {<<"backlog", i>> : i \in Where(q, x)} \cup {<<"backlog", Len(q) + 1>>}
      OBVIOUS
    <3> QED
      BY <2>3, <2>4, <2>5, <2>6, <2>7, <3>1 DEF q
  <2>8. CASE ~mine
    BY <2>3, <2>4, <2>5, <2>6, <2>8
  <2> QED
    BY <2>7, <2>8
<1>11. BacklogPlaces(backlog', x)
       = IF s \in DOMAIN given /\ consumers[s] = {}
         THEN BacklogPlaces([backlog EXCEPT ![s] = Append(@, given[s])], x)
         ELSE BacklogPlaces(backlog, x)
  <2>1. [backlog EXCEPT ![s] = Append(@, given[s])][s] = Append(backlog[s], given[s])
    BY <1>1 DEF TypeInv, TypeOK
  <2> QED
    BY <1>3, <2>1 DEF BacklogPlaces
<1> HIDE DEF at, at2, to, n, h, mine, c, s
<1>12. CASE mine /\ consumers[s] # {}
  <2>1. s \in DOMAIN given
    BY <1>12 DEF mine
  <2>2. ASSUME NEW p \in ChannelPlaces(chan', x) PROVE p \in ChannelPlaces(chan, x) \/ p = <<"channel", c, n(c)>>
    <3>1. PICK b, i : at2(b, i) /\ p = <<"channel", b, i>>
      BY <1>7
    <3>2. at(b, i) \/ (b = c /\ i = n(b))
      BY <1>6, <1>9, <3>1
    <3> QED
      BY <1>7, <3>1, <3>2
  <2>3. ASSUME NEW p \in ChannelPlaces(chan, x) PROVE p \in ChannelPlaces(chan', x)
    <3>1. PICK b, i : at(b, i) /\ p = <<"channel", b, i>>
      BY <1>7
    <3>2. at2(b, i)
      BY <1>6, <3>1
    <3> QED
      BY <1>7, <3>1, <3>2
  <2>4. <<"channel", c, n(c)>> \in ChannelPlaces(chan', x)
    BY <1>6, <1>7, <1>8, <1>12, <2>1
  <2>5. ChannelPlaces(chan', x) = ChannelPlaces(chan, x) \cup {<<"channel", c, n(c)>>}
    BY <2>2, <2>3, <2>4
  <2>6. BacklogPlaces(backlog', x) = BacklogPlaces(backlog, x)
    BY <1>11, <1>12
  <2> QED
    BY <1>12, <2>5, <2>6 DEF mine, s
<1>13. ASSUME ~mine \/ consumers[s] = {} PROVE ChannelPlaces(chan', x) = ChannelPlaces(chan, x)
  <2>1. ASSUME NEW p \in ChannelPlaces(chan', x) PROVE p \in ChannelPlaces(chan, x)
    <3>1. PICK b, i : at2(b, i) /\ p = <<"channel", b, i>>
      BY <1>7
    <3>2. at(b, i)
      BY <1>6, <1>9, <1>13, <3>1
    <3> QED
      BY <1>7, <3>1, <3>2
  <2>2. ASSUME NEW p \in ChannelPlaces(chan, x) PROVE p \in ChannelPlaces(chan', x)
    <3>1. PICK b, i : at(b, i) /\ p = <<"channel", b, i>>
      BY <1>7
    <3>2. at2(b, i)
      BY <1>6, <3>1
    <3> QED
      BY <1>7, <3>1, <3>2
  <2> QED
    BY <2>1, <2>2
<1>14. CASE mine /\ consumers[s] = {}
  <2>1. s \in DOMAIN given
    BY <1>14 DEF mine
  <2>2. \E p : BacklogPlaces(backlog', x) = BacklogPlaces(backlog, x) \cup {p}
    BY <1>10, <1>11, <1>14, <2>1
  <2> QED
    BY <1>13, <1>14, <2>2 DEF mine, s
<1>15. CASE ~mine
  <2>1. BacklogPlaces(backlog', x) = BacklogPlaces(backlog, x)
    BY <1>10, <1>11, <1>15
  <2> QED
    BY <1>13, <1>15, <2>1 DEF mine, s
<1> QED
  BY <1>12, <1>14, <1>15

LEMMA CopiesAre ==
  ASSUME NEW x \in Copy
  PROVE  /\ x \in Copies <=> /\ topicOf[x.sub] # None
                             /\ x.at \in created[x.sub] + 1 .. Len(log[topicOf[x.sub]])
         /\ x \in Copies' <=> /\ topicOf'[x.sub] # None
                              /\ x.at \in created'[x.sub] + 1 .. Len(log'[topicOf'[x.sub]])
<1>1. x = [sub |-> x.sub, at |-> x.at] /\ x.sub \in Sub
  BY DEF Copy
<1>2. x \in Copies <=> \E s \in Sub : /\ topicOf[s] # None
                                      /\ \E k \in created[s] + 1 .. Len(log[topicOf[s]]) :
                                            x = [sub |-> s, at |-> k]
  BY DEF Copies
<1>3. x \in Copies' <=> \E s \in Sub : /\ topicOf'[s] # None
                                       /\ \E k \in created'[s] + 1 .. Len(log'[topicOf'[s]]) :
                                             x = [sub |-> s, at |-> k]
  BY DEF Copies
<1> QED
  BY <1>1, <1>2, <1>3

LEMMA CopiesTyped == TypeInv => Copies \subseteq Copy
<1> SUFFICES ASSUME TypeInv, NEW x \in Copies
             PROVE  x \in Copy
  OBVIOUS
<1>1. PICK s \in Sub : \E k \in created[s] + 1 .. Len(log[topicOf[s]]) : x = [sub |-> s, at |-> k]
  BY DEF Copies
<1>2. PICK k \in created[s] + 1 .. Len(log[topicOf[s]]) : x = [sub |-> s, at |-> k]
  BY <1>1
<1>3. created[s] \in Nat
  BY DEF TypeInv, TypeOK
<1>4. k \in Nat \ {0}
  BY <1>2, <1>3
<1> QED
  BY <1>2, <1>4 DEF Copy

LEMMA CopiesSame == UNCHANGED <<topicOf, created, log>> => Copies' = Copies
  BY DEF Copies

LEMMA PartsAre ==
  ASSUME NEW x
  PROVE  /\ Parts(x).backlog = BacklogPlaces(backlog, x)
         /\ Parts(x).draining = DrainingPlaces(draining, x)
         /\ Parts(x).channel = ChannelPlaces(chan, x)
         /\ Parts(x).held = HeldPlaces(held, x)
         /\ Parts(x).timer = TimerPlaces(timers, x)
         /\ Parts(x).job = JobPlaces(job, x)
         /\ Parts(x).acked = AckedPlaces(acked, x)
         /\ Parts(x).dead = DeadPlaces(log, x)
         /\ Parts(x)'.backlog = BacklogPlaces(backlog', x)
         /\ Parts(x)'.draining = DrainingPlaces(draining', x)
         /\ Parts(x)'.channel = ChannelPlaces(chan', x)
         /\ Parts(x)'.held = HeldPlaces(held', x)
         /\ Parts(x)'.timer = TimerPlaces(timers', x)
         /\ Parts(x)'.job = JobPlaces(job', x)
         /\ Parts(x)'.acked = AckedPlaces(acked', x)
         /\ Parts(x)'.dead = DeadPlaces(log', x)
  BY DEF Parts

\* A step that moves no message.
LEMMA NothingMoved ==
  ASSUME NEW x, Placed(x), x \in Copies' <=> x \in Copies,
         \A k \in Kinds : Parts(x)'[k] = Parts(x)[k]
  PROVE  Placed(x)'
  BY PlacedKept, LikeSelf

LEMMA JobHoldsKept ==
  ASSUME TypeInv, JobHolds, NEW w \in Worker, NEW j, job' = [job EXCEPT ![w] = j],
         j.pc \notin {"reject", "route"} => j.item = None
  PROVE  JobHolds'
<1>1. \A v \in Worker : job'[v] = IF v = w THEN j ELSE job[v]
  BY DEF TypeInv, TypeOK
<1> QED
  BY <1>1 DEF JobHolds

LEMMA PlacesStill ==
  ASSUME PlaceInv, UNCHANGED <<backlog, draining, chan, held, timers, acked, log, topicOf, created>>,
         JobHolds', DrainIdle', \A x \in Copy : JobPlaces(job', x) = JobPlaces(job, x)
  PROVE  PlaceInv'
<1>1. ASSUME NEW x \in Copy PROVE Placed(x)'
  <2>1. Placed(x) /\ (x \in Copies' <=> x \in Copies)
    BY CopiesSame DEF PlaceInv, AllPlaced
  <2>2. \A k \in Kinds : Parts(x)'[k] = Parts(x)[k]
    BY PartsAre DEF Kinds
  <2> QED
    BY <2>1, <2>2, NothingMoved
<1>2. AllPlaced'
  BY <1>1 DEF AllPlaced
<1> QED
  BY <1>2 DEF PlaceInv, BacklogOwn, CreatedBefore

\* A thread goes on with the message it has in its hands, or without one.
LEMMA ThreadGoesOn ==
  ASSUME TypeInv, PlaceInv,
         UNCHANGED <<backlog, draining, chan, held, timers, acked, log, topicOf, created>>,
         lock' = None => draining = <<>>,
         NEW w \in Worker, NEW j, job' = [job EXCEPT ![w] = j], j.item = job[w].item,
         j.pc \notin {"reject", "route"} => j.item = None
  PROVE  PlaceInv'
<1>1. JobHolds' /\ DrainIdle'
  BY JobHoldsKept DEF PlaceInv, DrainIdle
<1>2. \A x \in Copy : JobPlaces(job', x) = JobPlaces(job, x)
  <2>1. job'[w].item = job[w].item /\ \A v \in Worker \ {w} : job'[v] = job[v]
    BY DEF TypeInv, TypeOK
  <2> QED
    BY <2>1, JobPlacesAre
<1> QED
  BY <1>1, <1>2, PlacesStill

LEMMA CopyTypes == \A item \in Item : CopyOf(item) \in Copy
  BY DEF CopyOf, Item, Copy

\* A delivery leaves a handler: held to acked, to a thread or to a timer.
LEMMA HandlerLetsGo ==
  ASSUME TypeInv, PlaceInv, NEW w \in Worker, NEW d \in held, held' = held \ {d},
         job[w].pc = "idle", NEW j, job' = [job EXCEPT ![w] = j],
         j.pc \notin {"reject", "route"} => j.item = None,
         UNCHANGED <<lock, backlog, draining, chan, log, topicOf, created>>,
         \/ /\ j.item = None /\ UNCHANGED timers
            /\ acked' = acked \cup {CopyOf(d.item)}
         \/ /\ j.item = d.item /\ UNCHANGED <<timers, acked>>
         \/ /\ j.item = None /\ UNCHANGED acked
            /\ timers' = timers \cup {d.item}
  PROVE  PlaceInv'
<1> DEFINE y == CopyOf(d.item)
<1>1. d.item \in Item /\ d.item # None /\ y \in Copy /\ job \in [Worker -> Job]
  BY CopyTypes DEF TypeInv, TypeOK, Delivery, Item
<1>2. /\ job[w].item = None /\ job'[w] = j
      /\ \A v \in Worker \ {w} : job'[v] = job[v]
  BY <1>1 DEF PlaceInv, JobHolds
<1>3. JobHolds' /\ DrainIdle' /\ BacklogOwn' /\ CreatedBefore'
  BY JobHoldsKept DEF PlaceInv, DrainIdle, BacklogOwn, CreatedBefore
<1>4. ASSUME NEW x \in Copy PROVE Placed(x)'
  <2>1. Placed(x) /\ (x \in Copies' <=> x \in Copies)
    BY CopiesSame DEF PlaceInv, AllPlaced
  <2>2. \A k \in {"backlog", "draining", "channel", "dead"} : Parts(x)'[k] = Parts(x)[k]
    BY PartsAre
  <2>3. /\ x # y => Parts(x)'.held = Parts(x).held
        /\ x = y => Parts(x).held # {} /\ (Lone(Parts(x).held) => Parts(x)'.held = {})
    <3>1. IF x = y
          THEN HeldPlaces(held, x) # {} /\ (Lone(HeldPlaces(held, x)) => HeldPlaces(held', x) = {})
          ELSE HeldPlaces(held', x) = HeldPlaces(held, x)
      BY HeldLose
    <3>2. Parts(x).held = HeldPlaces(held, x) /\ Parts(x)'.held = HeldPlaces(held', x)
      BY PartsAre
    <3> QED
      BY <3>1, <3>2
  <2>4. /\ (j.item = None \/ x # y) => Parts(x)'.job = Parts(x).job
        /\ j.item = d.item /\ x = y => Parts(x)'.job = Parts(x).job \cup {<<"job", w>>}
    <3>1. JobPlaces(job', x) = IF job'[w].item # None /\ CopyOf(job'[w].item) = x
                               THEN JobPlaces(job, x) \cup {<<"job", w>>} ELSE JobPlaces(job, x)
      BY <1>2, JobPlacesAre
    <3>2. j.item = None \/ j.item = d.item
      OBVIOUS
    <3>3. Parts(x).job = JobPlaces(job, x) /\ Parts(x)'.job = JobPlaces(job', x)
      BY PartsAre
    <3>4. job'[w].item = j.item
      BY <1>2
    <3>5. (j.item = None \/ x # y) => JobPlaces(job', x) = JobPlaces(job, x)
      BY <3>1, <3>2, <3>4
    <3>6. j.item = d.item /\ x = y => JobPlaces(job', x) = JobPlaces(job, x) \cup {<<"job", w>>}
      BY <1>1, <3>1, <3>4
    <3> QED
      BY <3>3, <3>5, <3>6
  <2>5. /\ (timers' = timers \/ x # y) => Parts(x)'.timer = Parts(x).timer
        /\ timers' = timers \cup {d.item} /\ x = y =>
              Parts(x)'.timer = Parts(x).timer \cup {<<"timer", d.item>>}
    <3>1. timers' = timers \/ timers' = timers \cup {d.item}
      OBVIOUS
    <3>2. timers' = timers => TimerPlaces(timers', x) = TimerPlaces(timers, x)
      OBVIOUS
    <3>3. timers' = timers \cup {d.item} =>
             TimerPlaces(timers', x) = IF x = y THEN TimerPlaces(timers, x) \cup {<<"timer", d.item>>}
                                                ELSE TimerPlaces(timers, x)
      BY TimersGain
    <3>4. Parts(x).timer = TimerPlaces(timers, x) /\ Parts(x)'.timer = TimerPlaces(timers', x)
      BY PartsAre
    <3> QED
      BY <3>1, <3>2, <3>3, <3>4
  <2>6. /\ (acked' = acked \/ x # y) => Parts(x)'.acked = Parts(x).acked
        /\ acked' = acked \cup {y} /\ x = y =>
              Parts(x)'.acked = Parts(x).acked \cup {<<"acked", y>>}
    <3>1. acked' = acked \/ acked' = acked \cup {y}
      OBVIOUS
    <3> HIDE DEF y
    <3>2. acked' = acked => AckedPlaces(acked', x) = AckedPlaces(acked, x)
      OBVIOUS
    <3>3. acked' = acked \cup {y} =>
             AckedPlaces(acked', x) = IF x = y THEN AckedPlaces(acked, x) \cup {<<"acked", y>>}
                                               ELSE AckedPlaces(acked, x)
      BY AckedGain
    <3>4. Parts(x).acked = AckedPlaces(acked, x) /\ Parts(x)'.acked = AckedPlaces(acked', x)
      BY PartsAre
    <3> QED
      BY <3>1, <3>2, <3>3, <3>4
  <2> HIDE DEF y
  <2>7. CASE x # y
    <3>1. \A k \in Kinds : Parts(x)'[k] = Parts(x)[k]
      BY <2>2, <2>3, <2>4, <2>5, <2>6, <2>7 DEF Kinds
    <3> QED
      BY <2>1, <3>1, NothingMoved
  <2>8. ASSUME x = y, j.item = None, UNCHANGED timers, acked' = acked \cup {y} PROVE Placed(x)'
    <3>1. \A m \in Kinds \ {"held", "acked"} : Parts(x)'[m] = Parts(x)[m]
      BY <2>2, <2>4, <2>5, <2>8 DEF Kinds
    <3>2. Parts(x)["acked"] = {} => Parts(x)'["acked"] # {} /\ Lone(Parts(x)'["acked"])
      <4>1. Parts(x)'["acked"] = Parts(x)["acked"] \cup {<<"acked", y>>}
        BY <2>6, <2>8
      <4> QED
        BY <4>1 DEF Lone
    <3>3. Parts(x)["held"] # {} /\ (Lone(Parts(x)["held"]) => Parts(x)'["held"] = {})
      BY <2>3, <2>8
    <3>4. "held" \in Kinds /\ "acked" \in Kinds
      BY DEF Kinds
    <3> QED
      BY <2>1, <3>1, <3>2, <3>3, <3>4, PlacedMoved, LikeSelf
  <2>9. ASSUME x = y, j.item = d.item, UNCHANGED <<timers, acked>> PROVE Placed(x)'
    <3>1. \A m \in Kinds \ {"held", "job"} : Parts(x)'[m] = Parts(x)[m]
      BY <2>2, <2>5, <2>6, <2>9 DEF Kinds
    <3>2. Parts(x)["job"] = {} => Parts(x)'["job"] # {} /\ Lone(Parts(x)'["job"])
      <4>1. Parts(x)'["job"] = Parts(x)["job"] \cup {<<"job", w>>}
        BY <2>4, <2>9
      <4> QED
        BY <4>1 DEF Lone
    <3>3. Parts(x)["held"] # {} /\ (Lone(Parts(x)["held"]) => Parts(x)'["held"] = {})
      BY <2>3, <2>9
    <3>4. "held" \in Kinds /\ "job" \in Kinds
      BY DEF Kinds
    <3> QED
      BY <2>1, <3>1, <3>2, <3>3, <3>4, PlacedMoved, LikeSelf
  <2>10. ASSUME x = y, j.item = None, UNCHANGED acked, timers' = timers \cup {d.item} PROVE Placed(x)'
    <3>1. \A m \in Kinds \ {"held", "timer"} : Parts(x)'[m] = Parts(x)[m]
      BY <2>2, <2>4, <2>6, <2>10 DEF Kinds
    <3>2. Parts(x)["timer"] = {} => Parts(x)'["timer"] # {} /\ Lone(Parts(x)'["timer"])
      <4>1. Parts(x)'["timer"] = Parts(x)["timer"] \cup {<<"timer", d.item>>}
        BY <2>5, <2>10
      <4> QED
        BY <4>1 DEF Lone
    <3>3. Parts(x)["held"] # {} /\ (Lone(Parts(x)["held"]) => Parts(x)'["held"] = {})
      BY <2>3, <2>10
    <3>4. "held" \in Kinds /\ "timer" \in Kinds
      BY DEF Kinds
    <3> QED
      BY <2>1, <3>1, <3>2, <3>3, <3>4, PlacedMoved, LikeSelf
  <2> QED
    BY <2>7, <2>8, <2>9, <2>10 DEF y
<1> QED
  BY <1>3, <1>4 DEF PlaceInv, AllPlaced

\* A delayed rejection falls due: from its timer to a thread.
LEMMA TimerFires ==
  ASSUME TypeInv, PlaceInv, NEW w \in Worker, NEW item \in timers, Fire(w, item)
  PROVE  PlaceInv'
<1> DEFINE j == [Idle EXCEPT !.pc = "reject", !.item = item]
           y == CopyOf(item)
<1>1. /\ timers' = timers \ {item} /\ job' = [job EXCEPT ![w] = j] /\ job[w].pc = "idle"
      /\ UNCHANGED <<lock, backlog, draining, chan, held, acked, log, topicOf, created>>
  BY DEF Fire, subVars, lockVars, historyVars
<1>2. j.item = item /\ j.pc = "reject" /\ item # None /\ y \in Copy
  BY CopyTypes DEF Idle, TypeInv, TypeOK, Item
<1> HIDE DEF j
<1>3. /\ job[w].item = None /\ job'[w] = j
      /\ \A v \in Worker \ {w} : job'[v] = job[v]
  BY <1>1 DEF PlaceInv, JobHolds, TypeInv, TypeOK
<1>4. JobHolds' /\ DrainIdle' /\ BacklogOwn' /\ CreatedBefore'
  BY <1>1, <1>2, JobHoldsKept DEF PlaceInv, DrainIdle, BacklogOwn, CreatedBefore
<1>5. ASSUME NEW x \in Copy PROVE Placed(x)'
  <2>1. Placed(x) /\ (x \in Copies' <=> x \in Copies)
    BY <1>1, CopiesSame DEF PlaceInv, AllPlaced
  <2>2. \A k \in Kinds \ {"timer", "job"} : Parts(x)'[k] = Parts(x)[k]
    BY <1>1, PartsAre DEF Kinds
  <2>3. JobPlaces(job', x) = IF x = y THEN JobPlaces(job, x) \cup {<<"job", w>>} ELSE JobPlaces(job, x)
    BY <1>2, <1>3, JobPlacesAre
  <2>4. IF x = y
        THEN TimerPlaces(timers, x) # {} /\ (Lone(TimerPlaces(timers, x)) => TimerPlaces(timers', x) = {})
        ELSE TimerPlaces(timers', x) = TimerPlaces(timers, x)
    BY <1>1, TimersLose
  <2> HIDE DEF y
  <2>5. CASE x # y
    <3>1. \A k \in Kinds : Parts(x)'[k] = Parts(x)[k]
      BY <2>2, <2>3, <2>4, <2>5, PartsAre DEF Kinds
    <3> QED
      BY <2>1, <3>1, NothingMoved
  <2>6. CASE x = y
    <3>1. Parts(x)["job"] = {} => Parts(x)'["job"] # {} /\ Lone(Parts(x)'["job"])
      <4>1. Parts(x)'["job"] = Parts(x)["job"] \cup {<<"job", w>>}
        BY <2>3, <2>6, PartsAre
      <4> QED
        BY <4>1 DEF Lone
    <3>2. Parts(x)["timer"] # {} /\ (Lone(Parts(x)["timer"]) => Parts(x)'["timer"] = {})
      BY <2>4, <2>6, PartsAre
    <3>3. "timer" \in Kinds /\ "job" \in Kinds
      BY DEF Kinds
    <3> QED
      BY <2>1, <2>2, <3>1, <3>2, <3>3, PlacedMoved, LikeSelf
  <2> QED
    BY <2>5, <2>6
<1> QED
  BY <1>4, <1>5 DEF PlaceInv, AllPlaced

\* The head of a channel goes to a handler, or to the thread that cancels.
LEMMA ChannelLetsGo ==
  ASSUME TypeInv, PlaceInv, NEW c \in ConsumerId, chan[c] # <<>>, chan' = [chan EXCEPT ![c] = Tail(@)],
         UNCHANGED <<lock, backlog, draining, timers, acked, log, topicOf, created>>,
         JobHolds', NEW l \in {"held", "job"},
         \A x \in Copy : \A k \in {"held", "job"} :
            IF k = l /\ x = CopyOf(Head(chan[c]).item)
            THEN \E p : Parts(x)'[k] = Parts(x)[k] \cup {p}
            ELSE Parts(x)'[k] = Parts(x)[k]
  PROVE  PlaceInv'
<1> DEFINE y == CopyOf(Head(chan[c]).item)
<1>1. DrainIdle' /\ BacklogOwn' /\ CreatedBefore'
  BY DEF PlaceInv, DrainIdle, BacklogOwn, CreatedBefore
<1>2. ASSUME NEW x \in Copy PROVE Placed(x)'
  <2>1. Placed(x) /\ (x \in Copies' <=> x \in Copies)
    BY CopiesSame DEF PlaceInv, AllPlaced
  <2>2. \A k \in Kinds \ {"channel", "held", "job"} : Parts(x)'[k] = Parts(x)[k]
    BY PartsAre DEF Kinds
  <2>3. /\ x # y => Like(ChannelPlaces(chan, x), ChannelPlaces(chan', x))
        /\ x = y => /\ ChannelPlaces(chan, x) # {}
                    /\ Lone(ChannelPlaces(chan, x)) => ChannelPlaces(chan', x) = {}
    BY ChannelTail DEF TypeInv, TypeOK
  <2>4. \A k \in {"held", "job"} : IF k = l /\ x = y THEN \E p : Parts(x)'[k] = Parts(x)[k] \cup {p}
                                                     ELSE Parts(x)'[k] = Parts(x)[k]
    OBVIOUS
  <2> HIDE DEF y
  <2>5. CASE x # y
    <3>1. \A k \in Kinds \ {"channel"} : Parts(x)'[k] = Parts(x)[k]
      BY <2>2, <2>4, <2>5
    <3>2. Like(Parts(x)["channel"], Parts(x)'["channel"])
      BY <2>3, <2>5, PartsAre
    <3>3. \A k \in Kinds : Like(Parts(x)[k], Parts(x)'[k])
      BY <3>1, <3>2, LikeSelf
    <3> QED
      BY <2>1, <3>3, PlacedKept
  <2>6. CASE x = y
    <3>1. \A k \in Kinds \ {"channel", l} : Parts(x)'[k] = Parts(x)[k]
      BY <2>2, <2>4, <2>6
    <3>2. Parts(x)["channel"] # {} /\ (Lone(Parts(x)["channel"]) => Parts(x)'["channel"] = {})
      BY <2>3, <2>6, PartsAre
    <3>3. Parts(x)[l] = {} => Parts(x)'[l] # {} /\ Lone(Parts(x)'[l])
      <4>1. PICK p : Parts(x)'[l] = Parts(x)[l] \cup {p}
        BY <2>4, <2>6
      <4> QED
        BY <4>1 DEF Lone
    <3>4. "channel" \in Kinds /\ l \in Kinds /\ l # "channel"
      BY DEF Kinds
    <3> QED
      BY <2>1, <3>1, <3>2, <3>3, <3>4, PlacedMoved, LikeSelf
  <2> QED
    BY <2>5, <2>6
<1> QED
  BY <1>1, <1>2 DEF PlaceInv, AllPlaced

LEMMA PollPlaces ==
  ASSUME TypeInv, PlaceInv, NEW c \in ConsumerId, Poll(c)
  PROVE  PlaceInv'
<1> DEFINE handed == Head(chan[c])
           d == [item |-> handed.item, counted |-> handed.counted,
                 reported |-> policy[subOf[c]] # None, cap |-> capOf[c]]
<1>1. /\ chan[c] # <<>> /\ chan' = [chan EXCEPT ![c] = Tail(@)]
      /\ held' = held \cup {d} /\ job' = job
      /\ UNCHANGED <<lock, backlog, draining, timers, acked, log, topicOf, created>>
  BY DEF Poll, subVars, lockVars, historyVars
<1>2. d.item = handed.item
  OBVIOUS
<1>3. JobHolds'
  BY <1>1 DEF PlaceInv, JobHolds
<1> HIDE DEF d
<1>4. ASSUME NEW x \in Copy
      PROVE  \A k \in {"held", "job"} :
               IF k = "held" /\ x = CopyOf(handed.item)
               THEN \E p : Parts(x)'[k] = Parts(x)[k] \cup {p}
               ELSE Parts(x)'[k] = Parts(x)[k]
  <2>1. Parts(x)'["job"] = Parts(x)["job"]
    BY <1>1, PartsAre
  <2>2. HeldPlaces(held', x) = IF x = CopyOf(d.item) THEN HeldPlaces(held, x) \cup {<<"held", d>>}
                                                     ELSE HeldPlaces(held, x)
    BY <1>1, HeldGain
  <2>3. Parts(x)["held"] = HeldPlaces(held, x) /\ Parts(x)'["held"] = HeldPlaces(held', x)
    BY PartsAre
  <2> HIDE DEF handed
  <2>4. IF x = CopyOf(handed.item) THEN \E p : Parts(x)'["held"] = Parts(x)["held"] \cup {p}
                                   ELSE Parts(x)'["held"] = Parts(x)["held"]
    BY <1>2, <2>2, <2>3
  <2> QED
    BY <2>1, <2>4
<1>5. "held" \in {"held", "job"}
  OBVIOUS
<1> QED
  BY <1>1, <1>3, <1>4, <1>5, ChannelLetsGo

LEMMA CancelNextPlaces ==
  ASSUME TypeInv, PlaceInv, NEW w \in Worker, CancelNext(w)
  PROVE  PlaceInv'
<1> DEFINE c == job[w].consumer
           h == Head(chan[c])
           j == [job[w] EXCEPT !.pc = "reject", !.item = h.item, !.counted = h.counted]
<1>1. /\ job[w].pc = "cancel" /\ chan[c] # <<>> /\ chan' = [chan EXCEPT ![c] = Tail(@)]
      /\ job' = [job EXCEPT ![w] = j] /\ held' = held
      /\ UNCHANGED <<lock, backlog, draining, timers, acked, log, topicOf, created>>
  BY DEF CancelNext, subVars, lockVars, historyVars
<1>2. c \in ConsumerId /\ job[w] \in Job
  BY <1>1 DEF TypeInv, TypeOK, JobFields
<1>3. h \in Handed
  BY <1>1, <1>2 DEF TypeInv, TypeOK
<1>4. j.item = h.item /\ j.pc = "reject"
  <2> HIDE DEF h
  <2> QED
    BY <1>2 DEF Job
<1>5. h.item # None
  BY <1>3 DEF Handed, Item
<1> HIDE DEF h, j
<1>6. /\ job[w].item = None /\ job'[w] = j
      /\ \A v \in Worker \ {w} : job'[v] = job[v]
  BY <1>1 DEF PlaceInv, JobHolds, TypeInv, TypeOK
<1>7. JobHolds'
  BY <1>1, <1>4, JobHoldsKept DEF PlaceInv
<1>8. ASSUME NEW x \in Copy
      PROVE  \A k \in {"held", "job"} :
               IF k = "job" /\ x = CopyOf(h.item)
               THEN \E p : Parts(x)'[k] = Parts(x)[k] \cup {p}
               ELSE Parts(x)'[k] = Parts(x)[k]
  <2>1. Parts(x)'["held"] = Parts(x)["held"]
    BY <1>1, PartsAre
  <2>2. JobPlaces(job', x) = IF x = CopyOf(h.item) THEN JobPlaces(job, x) \cup {<<"job", w>>}
                                                   ELSE JobPlaces(job, x)
    BY <1>4, <1>5, <1>6, JobPlacesAre
  <2>3. Parts(x)["job"] = JobPlaces(job, x) /\ Parts(x)'["job"] = JobPlaces(job', x)
    BY PartsAre
  <2>4. IF x = CopyOf(h.item) THEN \E p : Parts(x)'["job"] = Parts(x)["job"] \cup {p}
                              ELSE Parts(x)'["job"] = Parts(x)["job"]
    BY <2>2, <2>3
  <2> QED
    BY <2>1, <2>4
<1>9. "job" \in {"held", "job"}
  OBVIOUS
<1> QED
  BY <1>1, <1>2, <1>7, <1>8, <1>9, ChannelLetsGo DEF h

LEMMA HandKeepsOwn ==
  ASSUME TypeInv, RotationReads, BacklogOwn, NEW given, DOMAIN given \subseteq Sub,
         \A s \in DOMAIN given : given[s] \in Item /\ given[s].sub = s,
         NEW harness \in BOOLEAN, Hand(given, harness)
  PROVE  BacklogOwn'
<1> SUFFICES ASSUME NEW s \in Sub, NEW i \in DOMAIN backlog'[s] PROVE backlog'[s][i].sub = s
  BY DEF BacklogOwn
<1>1. backlog'[s] = IF s \in DOMAIN given /\ consumers[s] = {}
                    THEN Append(backlog[s], given[s]) ELSE backlog[s]
  BY HandGives
<1>2. backlog[s] \in Seq(Item)
  BY DEF TypeInv, TypeOK
<1>3. CASE s \in DOMAIN given /\ consumers[s] = {}
  <2>1. /\ DOMAIN Append(backlog[s], given[s]) = 1..(Len(backlog[s]) + 1)
        /\ DOMAIN backlog[s] = 1..Len(backlog[s]) /\ Len(backlog[s]) \in Nat
        /\ \A k \in 1..Len(backlog[s]) : Append(backlog[s], given[s])[k] = backlog[s][k]
        /\ Append(backlog[s], given[s])[Len(backlog[s]) + 1] = given[s]
    BY <1>2, <1>3, AppendAt
  <2> QED
    BY <1>1, <1>3, <2>1 DEF BacklogOwn
<1>4. CASE ~(s \in DOMAIN given /\ consumers[s] = {})
  BY <1>1, <1>4 DEF BacklogOwn
<1> QED
  BY <1>3, <1>4

\* A copy on its way is handed on: from a thread or from what Open drained to
\* a channel or to the backlog.
LEMMA HandedOn ==
  ASSUME TypeInv, RotationReads, NEW item \in Item, NEW next \in Item,
         CopyOf(next) = CopyOf(item),
         NEW given, DOMAIN given = {item.sub}, given[item.sub] = next,
         NEW harness \in BOOLEAN, Hand(given, harness),
         NEW x \in Copy, Placed(x), x \in Copies' <=> x \in Copies,
         NEW k \in {"job", "draining"},
         x # CopyOf(item) => Like(Parts(x)[k], Parts(x)'[k]),
         x = CopyOf(item) => /\ Parts(x)[k] # {}
                             /\ Lone(Parts(x)[k]) => Parts(x)'[k] = {},
         \A m \in Kinds \ {k, "channel", "backlog"} : Parts(x)'[m] = Parts(x)[m]
  PROVE  Placed(x)'
<1> DEFINE y == CopyOf(item)
<1>1. /\ DOMAIN given = {item.sub} /\ item.sub \in Sub
      /\ next.sub = item.sub /\ y.sub = item.sub
      /\ given[item.sub] = next
  BY DEF Item, CopyOf
<1>2. x.sub \in DOMAIN given /\ CopyOf(given[x.sub]) = x <=> x = y
  BY <1>1
<1>3. IF x = y
      THEN \/ /\ \E p : ChannelPlaces(chan', x) = ChannelPlaces(chan, x) \cup {p}
              /\ BacklogPlaces(backlog', x) = BacklogPlaces(backlog, x)
           \/ /\ ChannelPlaces(chan', x) = ChannelPlaces(chan, x)
              /\ \E p : BacklogPlaces(backlog', x) = BacklogPlaces(backlog, x) \cup {p}
      ELSE /\ ChannelPlaces(chan', x) = ChannelPlaces(chan, x)
           /\ BacklogPlaces(backlog', x) = BacklogPlaces(backlog, x)
  <2>1. DOMAIN given \subseteq Sub /\ \A s \in DOMAIN given : given[s] \in Item /\ given[s].sub = s
    BY <1>1
  <2>2. Hand(given, harness)
    OBVIOUS
  <2>3. IF x.sub \in DOMAIN given /\ CopyOf(given[x.sub]) = x
         THEN \/ /\ \E p : ChannelPlaces(chan', x) = ChannelPlaces(chan, x) \cup {p}
                 /\ BacklogPlaces(backlog', x) = BacklogPlaces(backlog, x)
              \/ /\ ChannelPlaces(chan', x) = ChannelPlaces(chan, x)
                 /\ \E p : BacklogPlaces(backlog', x) = BacklogPlaces(backlog, x) \cup {p}
         ELSE /\ ChannelPlaces(chan', x) = ChannelPlaces(chan, x)
              /\ BacklogPlaces(backlog', x) = BacklogPlaces(backlog, x)
    BY <2>1, <2>2, HandPlaces
  <2> QED
    BY <1>2, <2>3
<1>4. /\ Parts(x).channel = ChannelPlaces(chan, x) /\ Parts(x)'.channel = ChannelPlaces(chan', x)
      /\ Parts(x).backlog = BacklogPlaces(backlog, x) /\ Parts(x)'.backlog = BacklogPlaces(backlog', x)
  BY PartsAre
<1>5. k \in Kinds /\ "channel" \in Kinds /\ "backlog" \in Kinds /\ k # "channel" /\ k # "backlog"
  BY DEF Kinds
<1> HIDE DEF y
<1>6. CASE x # y
  <2>1. Parts(x)'["channel"] = Parts(x)["channel"] /\ Parts(x)'["backlog"] = Parts(x)["backlog"]
    BY <1>3, <1>4, <1>6
  <2>2. Like(Parts(x)[k], Parts(x)'[k])
    BY <1>6 DEF y
  <2>3. \A m \in Kinds : Like(Parts(x)[m], Parts(x)'[m])
    BY <2>1, <2>2, LikeSelf
  <2> QED
    BY <2>3, PlacedKept
<1>7. ASSUME x = y, NEW l \in {"channel", "backlog"}, NEW p,
             Parts(x)'[l] = Parts(x)[l] \cup {p},
             \A m \in {"channel", "backlog"} \ {l} : Parts(x)'[m] = Parts(x)[m]
      PROVE  Placed(x)'
  <2>1. Parts(x)[l] = {} => Parts(x)'[l] # {} /\ Lone(Parts(x)'[l])
    BY <1>7 DEF Lone
  <2>2. Parts(x)[k] # {} /\ (Lone(Parts(x)[k]) => Parts(x)'[k] = {})
    BY <1>7 DEF y
  <2>3. \A m \in Kinds \ {k, l} : Parts(x)'[m] = Parts(x)[m]
    BY <1>7
  <2>4. l \in Kinds /\ k # l
    BY <1>5
  <2> QED
    BY <1>5, <2>1, <2>2, <2>3, <2>4, PlacedMoved, LikeSelf
<1>8. CASE x = y
  <2>1. CASE /\ \E p : ChannelPlaces(chan', x) = ChannelPlaces(chan, x) \cup {p}
             /\ BacklogPlaces(backlog', x) = BacklogPlaces(backlog, x)
    <3>1. PICK p : Parts(x)'["channel"] = Parts(x)["channel"] \cup {p}
      BY <1>4, <2>1
    <3>2. \A m \in {"channel", "backlog"} \ {"channel"} : Parts(x)'[m] = Parts(x)[m]
      BY <1>4, <2>1
    <3>3. "channel" \in {"channel", "backlog"}
      OBVIOUS
    <3> QED
      BY <1>7, <1>8, <3>1, <3>2, <3>3
  <2>2. CASE /\ ChannelPlaces(chan', x) = ChannelPlaces(chan, x)
             /\ \E p : BacklogPlaces(backlog', x) = BacklogPlaces(backlog, x) \cup {p}
    <3>1. PICK p : Parts(x)'["backlog"] = Parts(x)["backlog"] \cup {p}
      BY <1>4, <2>2
    <3>2. \A m \in {"channel", "backlog"} \ {"backlog"} : Parts(x)'[m] = Parts(x)[m]
      BY <1>4, <2>2
    <3>3. "backlog" \in {"channel", "backlog"}
      OBVIOUS
    <3> QED
      BY <1>7, <1>8, <3>1, <3>2, <3>3
  <2> QED
    BY <1>3, <1>8, <2>1, <2>2
<1> QED
  BY <1>6, <1>8

LEMMA DrainPlaces ==
  ASSUME TypeInv, RotationReads, PlaceInv, NEW w \in Worker, Drain(w)
  PROVE  PlaceInv'
<1> DEFINE item == Head(draining)
           given == [s \in {item.sub} |-> item]
<1>1. /\ job[w].pc = "drain" /\ draining # <<>> /\ draining' = Tail(draining)
      /\ Hand(given, job[w].counted)
      /\ UNCHANGED <<lock, job, held, timers, acked, log, topicOf, created>>
  BY DEF Drain, historyVars
<1>2. item \in Item /\ draining \in Seq(Item) /\ job[w].counted \in BOOLEAN /\ lock # None
  BY <1>1 DEF TypeInv, TypeOK, Job, JobFields
<1>3. PICK harness \in BOOLEAN : Hand(given, harness)
  <2> HIDE DEF given
  <2> QED
    BY <1>1, <1>2
<1>4. JobHolds' /\ DrainIdle' /\ CreatedBefore'
  BY <1>1, <1>2 DEF PlaceInv, JobHolds, DrainIdle, CreatedBefore
<1>5. BacklogOwn'
  <2>1. DOMAIN given \subseteq Sub /\ \A s \in DOMAIN given : given[s] \in Item /\ given[s].sub = s
    BY <1>2 DEF Item
  <2> HIDE DEF given
  <2> QED
    BY <1>3, <2>1, HandKeepsOwn DEF PlaceInv
<1>6. ASSUME NEW x \in Copy PROVE Placed(x)'
  <2>1. Placed(x) /\ (x \in Copies' <=> x \in Copies)
    BY <1>1, CopiesSame DEF PlaceInv, AllPlaced
  <2>2. \A m \in Kinds \ {"draining", "channel", "backlog"} : Parts(x)'[m] = Parts(x)[m]
    BY <1>1, PartsAre DEF Kinds
  <2>3. /\ x # CopyOf(item) => Like(DrainingPlaces(draining, x), DrainingPlaces(Tail(draining), x))
        /\ x = CopyOf(item) =>
              /\ DrainingPlaces(draining, x) # {}
              /\ Lone(DrainingPlaces(draining, x)) => DrainingPlaces(Tail(draining), x) = {}
    BY <1>1, <1>2, DrainingTail
  <2>4. Parts(x)["draining"] = DrainingPlaces(draining, x)
        /\ Parts(x)'["draining"] = DrainingPlaces(Tail(draining), x)
    BY <1>1, PartsAre
  <2>5. /\ DOMAIN given = {item.sub} /\ given[item.sub] = item /\ Hand(given, harness)
        /\ "draining" \in {"job", "draining"}
    BY <1>3
  <2> HIDE DEF item, given
  <2>6. /\ x # CopyOf(item) => Like(Parts(x)["draining"], Parts(x)'["draining"])
        /\ x = CopyOf(item) => /\ Parts(x)["draining"] # {}
                               /\ Lone(Parts(x)["draining"]) => Parts(x)'["draining"] = {}
    BY <2>3, <2>4
  <2> QED
    BY <1>2, <2>1, <2>2, <2>5, <2>6, HandedOn, SMTT(30)
<1> QED
  BY <1>4, <1>5, <1>6 DEF PlaceInv, AllPlaced

LEMMA RejectPlaces ==
  ASSUME TypeInv, RotationReads, PlaceInv, NEW w \in Worker, Reject(w)
  PROVE  PlaceInv'
<1> DEFINE item == job[w].item
           next == NextAttempt(item)
<1>1. /\ job[w].pc = "reject" /\ lock = None
      /\ UNCHANGED <<topicOf, lock, draining, created, acked, log, held, timers>>
  BY DEF Reject, lockVars, historyVars, Unlocked
<1>2. job[w] \in Job /\ item \in Item /\ item # None /\ installed \in BOOLEAN
  BY <1>1 DEF TypeInv, TypeOK, JobFields, Item
<1>3. CASE Spent(item)
  <2> DEFINE j == [job[w] EXCEPT !.pc = "route", !.topic = policy[item.sub].topic]
  <2>1. job' = [job EXCEPT ![w] = j] /\ UNCHANGED <<backlog, chan>>
    BY <1>3 DEF Reject
  <2>2. j.item = job[w].item /\ j.pc = "route"
    BY <1>2 DEF Job
  <2>3. lock' = None => draining = <<>>
    BY <1>1 DEF PlaceInv, DrainIdle
  <2> HIDE DEF j
  <2> QED
    BY <1>1, <2>1, <2>2, <2>3, ThreadGoesOn
<1>4. CASE ~Spent(item)
  <2>1. /\ Hand([s \in {item.sub} |-> next], installed)
        /\ job' = [job EXCEPT ![w] = Settled(job[w])]
    BY <1>4 DEF Reject
  <2>2. next \in Item /\ next.sub = item.sub /\ CopyOf(next) = CopyOf(item)
    <3>1. /\ next = [item EXCEPT !.attempt = IF @ = AttemptMax THEN @ ELSE @ + 1]
          /\ item.attempt \in 1..AttemptMax /\ AttemptMax \in Nat
      BY <1>2 DEF NextAttempt, Item
    <3>2. (IF item.attempt = AttemptMax THEN item.attempt ELSE item.attempt + 1) \in 1..AttemptMax
      BY <3>1
    <3> HIDE DEF item, next
    <3> QED
      BY <1>2, <3>1, <3>2 DEF Item, CopyOf
  <2>3. /\ Settled(job[w]).item = None /\ Settled(job[w]).pc \notin {"reject", "route"}
        /\ job'[w] = Settled(job[w]) /\ \A v \in Worker \ {w} : job'[v] = job[v]
    BY <1>2, <2>1, CallItems, JobTypes DEF TypeInv, TypeOK
  <2>4. JobHolds' /\ DrainIdle' /\ CreatedBefore'
    BY <1>1, <2>1, <2>3, JobHoldsKept DEF PlaceInv, DrainIdle, CreatedBefore
  <2>5. BacklogOwn'
    <3> DEFINE given == [s \in {item.sub} |-> next]
    <3>1. DOMAIN given \subseteq Sub /\ \A s \in DOMAIN given : given[s] \in Item /\ given[s].sub = s
      BY <1>2, <2>2 DEF Item
    <3>2. Hand(given, installed)
      BY <2>1
    <3> HIDE DEF given
    <3> QED
      BY <1>2, <3>1, <3>2, HandKeepsOwn DEF PlaceInv
  <2>6. ASSUME NEW x \in Copy PROVE Placed(x)'
    <3>1. Placed(x) /\ (x \in Copies' <=> x \in Copies)
      BY <1>1, CopiesSame DEF PlaceInv, AllPlaced
    <3>2. \A m \in Kinds \ {"job", "channel", "backlog"} : Parts(x)'[m] = Parts(x)[m]
      BY <1>1, PartsAre DEF Kinds
    <3>3. IF CopyOf(item) = x
          THEN JobPlaces(job, x) # {} /\ (Lone(JobPlaces(job, x)) => JobPlaces(job', x) = {})
          ELSE JobPlaces(job', x) = JobPlaces(job, x)
      BY <1>2, <2>3, JobPlacesAre
    <3>4. Parts(x)["job"] = JobPlaces(job, x) /\ Parts(x)'["job"] = JobPlaces(job', x)
      BY PartsAre
    <3>5. /\ x # CopyOf(item) => Like(Parts(x)["job"], Parts(x)'["job"])
          /\ x = CopyOf(item) => /\ Parts(x)["job"] # {}
                                 /\ Lone(Parts(x)["job"]) => Parts(x)'["job"] = {}
      BY <3>3, <3>4, LikeSelf
    <3> DEFINE given == [s \in {item.sub} |-> next]
    <3>6. /\ DOMAIN given = {item.sub} /\ given[item.sub] = next /\ Hand(given, installed)
          /\ "job" \in {"job", "draining"}
      BY <2>1
    <3> HIDE DEF item, next, given
    <3> QED
      BY <1>2, <2>1, <2>2, <3>1, <3>2, <3>5, <3>6, HandedOn
  <2> QED
    BY <2>4, <2>5, <2>6 DEF PlaceInv, AllPlaced
<1> QED
  BY <1>3, <1>4

\* A copy that a publish creates.
LEMMA PlacedFresh ==
  ASSUME NEW x, Placed(x), x \notin Copies, x \in Copies',
         NEW l \in Kinds, NEW p, Parts(x)'[l] = Parts(x)[l] \cup {p},
         \A m \in Kinds \ {l} : Parts(x)'[m] = Parts(x)[m]
  PROVE  Placed(x)'
<1>1. \A m \in Kinds : Parts(x)[m] = {}
  BY DEF Placed, NoPart
<1>2. Parts(x)'[l] # {} /\ Lone(Parts(x)'[l]) /\ \A m \in Kinds \ {l} : Parts(x)'[m] = {}
  BY <1>1 DEF Lone
<1>3. OnePart(Parts(x)')
  BY <1>2 DEF OnePart
<1>4. (Placed(x))' <=> IF x \in Copies' THEN OnePart(Parts(x)') ELSE NoPart(Parts(x)')
  BY DEF Placed, OnePart, NoPart
<1> QED
  BY <1>3, <1>4

\* A copy with a place in a part is published.
LEMMA PublishedOne ==
  ASSUME NEW x, Placed(x), NEW k \in Kinds, Parts(x)[k] # {}
  PROVE  x \in Copies /\ Lone(Parts(x)[k])
  BY DEF Placed, NoPart, OnePart

LEMMA RoutePlaces ==
  ASSUME TypeInv, RotationReads, PlaceInv, NEW w \in Worker, Route(w)
  PROVE  PlaceInv'
<1> DEFINE t == job[w].topic
           item == job[w].item
           n == Len(log[t])
           attached == {s \in Sub : topicOf[s] = t}
           given == [s \in attached |-> [sub |-> s, at |-> n + 1, attempt |-> 1]]
           e == IF item = None THEN None ELSE CopyOf(item)
           fresh(x) == topicOf[x.sub] = t /\ x.at = n + 1
<1>1. /\ job[w].pc = "route" /\ lock = None
      /\ log' = [log EXCEPT ![t] = Append(@, e)]
      /\ Hand(given, installed)
      /\ job' = [job EXCEPT ![w] = Settled(job[w])]
      /\ UNCHANGED <<topicOf, lock, draining, created, acked, held, timers>>
  BY DEF Route, lockVars, historyVars, Unlocked
<1>2. /\ job[w] \in Job /\ t \in Topic /\ item \in Item \cup {None} /\ installed \in BOOLEAN
      /\ t # None
  BY <1>1 DEF TypeInv, TypeOK, JobFields, Job
<1>3. log[t] \in Seq(Copy \cup {None}) /\ n \in Nat /\ e \in Copy \cup {None}
  <2>1. item # None => CopyOf(item) \in Copy
    BY <1>2, CopyTypes
  <2> QED
    BY <1>2, <2>1 DEF TypeInv, TypeOK
<1>4. /\ Settled(job[w]).item = None /\ Settled(job[w]).pc \notin {"reject", "route"}
      /\ job'[w] = Settled(job[w]) /\ \A v \in Worker \ {w} : job'[v] = job[v]
  BY <1>1, <1>2, CallItems, JobTypes DEF TypeInv, TypeOK
<1>5. /\ DOMAIN given \subseteq Sub
      /\ \A s \in DOMAIN given : /\ given[s] \in Item /\ given[s].sub = s
                                 /\ CopyOf(given[s]) = [sub |-> s, at |-> n + 1]
  <2>1. n + 1 \in Nat \ {0} /\ 1 \in 1..AttemptMax
    BY <1>3
  <2> HIDE DEF n
  <2> QED
    BY <2>1 DEF Item, CopyOf
<1>6. \A u \in Topic : Len(log'[u]) = IF u = t THEN n + 1 ELSE Len(log[u])
  <2>1. Len(Append(log[t], e)) = n + 1
    BY <1>3
  <2> HIDE DEF e, t, n
  <2> QED
    BY <1>1, <1>2, <2>1 DEF TypeInv, TypeOK
<1>7. JobHolds' /\ DrainIdle' /\ CreatedBefore' /\ BacklogOwn'
  <2>1. JobHolds' /\ DrainIdle'
    BY <1>1, <1>4, JobHoldsKept DEF PlaceInv, DrainIdle
  <2>2. CreatedBefore'
    <3> HIDE DEF n, t
    <3>1. \A s \in Sub : topicOf[s] # None => topicOf[s] \in Topic
      BY DEF TypeInv, TypeOK
    <3>2. \A u \in Topic : Len(log'[u]) >= Len(log[u]) /\ Len(log[u]) \in Nat
      <4>1. \A u \in Topic : Len(log[u]) \in Nat
        BY DEF TypeInv, TypeOK
      <4> QED
        BY <1>3, <1>6, <4>1 DEF n
    <3>3. \A s \in Sub : created[s] \in Nat
      BY DEF TypeInv, TypeOK
    <3>4. \A u \in Topic : Len(log'[u]) \in Nat
      <4>1. \A u \in Topic : Len(log[u]) \in Nat
        BY DEF TypeInv, TypeOK
      <4> QED
        BY <1>3, <1>6, <4>1
    <3> QED
      BY <1>1, <3>1, <3>2, <3>3, <3>4 DEF PlaceInv, CreatedBefore
  <2>3. BacklogOwn'
    <3> HIDE DEF given
    <3> QED
      BY <1>1, <1>2, <1>5, HandKeepsOwn DEF PlaceInv
  <2> QED
    BY <2>1, <2>2, <2>3
<1>8. ASSUME NEW x \in Copy PROVE Placed(x)'
  <2>1. Placed(x)
    BY DEF PlaceInv, AllPlaced
  <2>2. x.sub \in Sub /\ x.at \in Nat \ {0} /\ x = [sub |-> x.sub, at |-> x.at]
    BY DEF Copy
  <2>3. /\ x \in Copies' <=> x \in Copies \/ fresh(x)
        /\ ~(x \in Copies /\ fresh(x))
    <3>1. x \in Copies <=> /\ topicOf[x.sub] # None
                           /\ x.at \in created[x.sub] + 1 .. Len(log[topicOf[x.sub]])
      BY CopiesAre
    <3>2. x \in Copies' <=> /\ topicOf[x.sub] # None
                            /\ x.at \in created[x.sub] + 1 .. Len(log'[topicOf[x.sub]])
      BY <1>1, CopiesAre
    <3>3. topicOf[x.sub] # None => /\ topicOf[x.sub] \in Topic
                                   /\ created[x.sub] <= Len(log[topicOf[x.sub]])
                                   /\ Len(log[topicOf[x.sub]]) \in Nat
                                   /\ created[x.sub] \in Nat
      BY <2>2 DEF TypeInv, TypeOK, PlaceInv, CreatedBefore
    <3>4. CASE topicOf[x.sub] = t
      <4>1. n \in Nat /\ Len(log[t]) = n /\ Len(log'[t]) = n + 1 /\ t # None /\ t \in Topic
        BY <1>2, <1>3, <1>6
      <4>2. created[x.sub] \in Nat /\ created[x.sub] <= n
        BY <3>3, <3>4, <4>1
      <4>3. fresh(x) <=> x.at = n + 1
        BY <3>4
      <4>4. x \in Copies <=> x.at \in created[x.sub] + 1 .. n
        BY <3>1, <3>4, <4>1
      <4>5. x \in Copies' <=> x.at \in created[x.sub] + 1 .. n + 1
        BY <3>2, <3>4, <4>1
      <4> HIDE DEF n, t, fresh
      <4> QED
        BY <2>2, <4>1, <4>2, <4>3, <4>4, <4>5
    <3>5. CASE topicOf[x.sub] # t
      BY <1>6, <3>1, <3>2, <3>3, <3>5
    <3> QED
      BY <3>4, <3>5
  <2>4. x.sub \in DOMAIN given /\ CopyOf(given[x.sub]) = x <=> fresh(x)
    <3>1. x.sub \in DOMAIN given <=> topicOf[x.sub] = t
      BY <2>2
    <3> HIDE DEF given
    <3> QED
      BY <1>5, <2>2, <3>1
  <2>5. IF fresh(x)
        THEN \/ /\ \E p : ChannelPlaces(chan', x) = ChannelPlaces(chan, x) \cup {p}
                /\ BacklogPlaces(backlog', x) = BacklogPlaces(backlog, x)
             \/ /\ ChannelPlaces(chan', x) = ChannelPlaces(chan, x)
                /\ \E p : BacklogPlaces(backlog', x) = BacklogPlaces(backlog, x) \cup {p}
        ELSE /\ ChannelPlaces(chan', x) = ChannelPlaces(chan, x)
             /\ BacklogPlaces(backlog', x) = BacklogPlaces(backlog, x)
    <3> HIDE DEF given, fresh
    <3>1. IF x.sub \in DOMAIN given /\ CopyOf(given[x.sub]) = x
         THEN \/ /\ \E p : ChannelPlaces(chan', x) = ChannelPlaces(chan, x) \cup {p}
                 /\ BacklogPlaces(backlog', x) = BacklogPlaces(backlog, x)
              \/ /\ ChannelPlaces(chan', x) = ChannelPlaces(chan, x)
                 /\ \E p : BacklogPlaces(backlog', x) = BacklogPlaces(backlog, x) \cup {p}
         ELSE /\ ChannelPlaces(chan', x) = ChannelPlaces(chan, x)
              /\ BacklogPlaces(backlog', x) = BacklogPlaces(backlog, x)
      BY <1>1, <1>2, <1>5, HandPlaces
    <3> QED
      BY <2>4, <3>1
  <2>6. IF item # None /\ x = CopyOf(item)
        THEN JobPlaces(job, x) # {} /\ (Lone(JobPlaces(job, x)) => JobPlaces(job', x) = {})
        ELSE JobPlaces(job', x) = JobPlaces(job, x)
    BY <1>4, JobPlacesAre
  <2>7. DeadPlaces(log', x) = IF item # None /\ x = CopyOf(item)
                              THEN DeadPlaces(log, x) \cup {<<"dead", t, n + 1>>}
                              ELSE DeadPlaces(log, x)
    <3>1. x = e <=> item # None /\ x = CopyOf(item)
      BY DEF Copy
    <3>2. DeadPlaces(log', x) = IF x = e THEN DeadPlaces(log, x) \cup {<<"dead", t, n + 1>>}
                                         ELSE DeadPlaces(log, x)
      <4> HIDE DEF e, t
      <4>1. log'[t] = Append(log[t], e) /\ \A u \in Topic \ {t} : log'[u] = log[u]
        BY <1>1, <1>2 DEF TypeInv, TypeOK
      <4> QED
        BY <1>2, <1>3, <4>1, DeadPlacesAre
    <3> QED
      BY <3>1, <3>2
  <2>8. \A m \in Kinds \ {"job", "dead", "channel", "backlog"} : Parts(x)'[m] = Parts(x)[m]
    BY <1>1, PartsAre DEF Kinds
  <2>9. {"job", "dead", "channel", "backlog"} \subseteq Kinds
    BY DEF Kinds
  <2>10. ~(fresh(x) /\ item # None /\ x = CopyOf(item))
    <3> SUFFICES ASSUME fresh(x), item # None, x = CopyOf(item) PROVE FALSE
      OBVIOUS
    <3>1. Parts(x)["job"] # {}
      BY <2>6, PartsAre
    <3>2. x \in Copies
      BY <2>1, <2>9, <3>1, PublishedOne
    <3> QED
      BY <2>3, <3>2
  <2> HIDE DEF fresh, item, given, e, t, n
  <2>11. CASE fresh(x)
    <3>1. x \notin Copies /\ x \in Copies'
      BY <2>3, <2>11
    <3>2. Parts(x)'["job"] = Parts(x)["job"] /\ Parts(x)'["dead"] = Parts(x)["dead"]
      BY <2>6, <2>7, <2>10, <2>11, PartsAre
    <3>3. CASE /\ \E p : ChannelPlaces(chan', x) = ChannelPlaces(chan, x) \cup {p}
               /\ BacklogPlaces(backlog', x) = BacklogPlaces(backlog, x)
      <4>1. PICK p : Parts(x)'["channel"] = Parts(x)["channel"] \cup {p}
        BY <3>3, PartsAre
      <4>2. Parts(x)'["backlog"] = Parts(x)["backlog"]
        BY <3>3, PartsAre
      <4>3. \A m \in Kinds \ {"channel"} : Parts(x)'[m] = Parts(x)[m]
        BY <2>8, <3>2, <4>2
      <4> QED
        BY <2>1, <2>9, <3>1, <4>1, <4>3, PlacedFresh
    <3>4. CASE /\ ChannelPlaces(chan', x) = ChannelPlaces(chan, x)
               /\ \E p : BacklogPlaces(backlog', x) = BacklogPlaces(backlog, x) \cup {p}
      <4>1. PICK p : Parts(x)'["backlog"] = Parts(x)["backlog"] \cup {p}
        BY <3>4, PartsAre
      <4>2. Parts(x)'["channel"] = Parts(x)["channel"]
        BY <3>4, PartsAre
      <4>3. \A m \in Kinds \ {"backlog"} : Parts(x)'[m] = Parts(x)[m]
        BY <2>8, <3>2, <4>2
      <4> QED
        BY <2>1, <2>9, <3>1, <4>1, <4>3, PlacedFresh
    <3> QED
      BY <2>5, <2>11, <3>3, <3>4
  <2>12. ASSUME ~fresh(x)
         PROVE  /\ x \in Copies' <=> x \in Copies
                /\ \A m \in Kinds \ {"job", "dead"} : Parts(x)'[m] = Parts(x)[m]
    BY <2>3, <2>5, <2>8, <2>12, PartsAre
  <2>13. CASE ~fresh(x) /\ item # None /\ x = CopyOf(item)
    <3>1. Parts(x)["job"] # {} /\ (Lone(Parts(x)["job"]) => Parts(x)'["job"] = {})
      BY <2>6, <2>13, PartsAre
    <3>2. Parts(x)["dead"] = {} => Parts(x)'["dead"] # {} /\ Lone(Parts(x)'["dead"])
      <4>1. Parts(x)'["dead"] = Parts(x)["dead"] \cup {<<"dead", t, n + 1>>}
        BY <2>7, <2>13, PartsAre
      <4> QED
        BY <4>1 DEF Lone
    <3> QED
      BY <2>1, <2>9, <2>12, <2>13, <3>1, <3>2, PlacedMoved, LikeSelf
  <2>14. CASE ~fresh(x) /\ ~(item # None /\ x = CopyOf(item))
    <3>1. Parts(x)'["job"] = Parts(x)["job"] /\ Parts(x)'["dead"] = Parts(x)["dead"]
      BY <2>6, <2>7, <2>14, PartsAre
    <3>2. \A m \in Kinds : Parts(x)'[m] = Parts(x)[m]
      BY <2>12, <2>14, <3>1
    <3> QED
      BY <2>1, <2>12, <2>14, <3>2, NothingMoved
  <2> QED
    BY <2>11, <2>13, <2>14
<1> QED
  BY <1>7, <1>8 DEF PlaceInv, AllPlaced

LEMMA OpenPlaces ==
  ASSUME TypeInv, PlaceInv, NEW w \in Worker, Open(w)
  PROVE  PlaceInv'
<1> DEFINE d == job[w].desc
           s == d.sub
           c == opened + 1
           j == [Idle EXCEPT !.pc = "drain", !.consumer = c, !.counted = installed]
<1>1. /\ job[w].pc = "open" /\ lock = None /\ lock' = w
      /\ topicOf' = [topicOf EXCEPT ![s] = IF @ = None THEN d.topic ELSE @]
      /\ created' = [created EXCEPT ![s] = IF topicOf[s] = None THEN Len(log[d.topic]) ELSE @]
      /\ backlog' = [backlog EXCEPT ![s] = <<>>]
      /\ draining' = backlog[s]
      /\ job' = [job EXCEPT ![w] = j]
      /\ UNCHANGED <<acked, log, chan, held, timers>>
  BY DEF Open, Unlocked
<1>2. s \in Sub /\ d.topic \in Topic /\ d.topic # None
  BY <1>1 DEF TypeInv, JobFields
<1>3. j.item = None /\ j.pc = "drain"
  BY DEF Idle
<1> HIDE DEF j, d, s
<1>4. /\ job[w].item = None /\ job'[w] = j /\ draining = <<>>
      /\ \A v \in Worker \ {w} : job'[v] = job[v]
  BY <1>1 DEF PlaceInv, JobHolds, DrainIdle, TypeInv, TypeOK
<1>5. /\ topicOf'[s] = (IF topicOf[s] = None THEN d.topic ELSE topicOf[s])
      /\ created'[s] = (IF topicOf[s] = None THEN Len(log[d.topic]) ELSE created[s])
      /\ backlog'[s] = <<>>
      /\ \A r \in Sub \ {s} : /\ topicOf'[r] = topicOf[r] /\ created'[r] = created[r]
                              /\ backlog'[r] = backlog[r]
  BY <1>1, <1>2 DEF TypeInv, TypeOK
<1>6. JobHolds' /\ DrainIdle' /\ CreatedBefore' /\ BacklogOwn'
  <2>1. JobHolds'
    BY <1>1, <1>3, JobHoldsKept DEF PlaceInv
  <2>2. DrainIdle'
    BY <1>1 DEF DrainIdle
  <2>3. CreatedBefore'
    <3>1. Len(log[d.topic]) \in Nat
      BY <1>2 DEF TypeInv, TypeOK
    <3> SUFFICES ASSUME NEW r \in Sub, topicOf'[r] # None
                 PROVE  created'[r] <= Len(log'[topicOf'[r]])
      BY DEF CreatedBefore
    <3> QED
      BY <1>1, <1>5, <3>1 DEF PlaceInv, CreatedBefore
  <2>4. BacklogOwn'
    <3> SUFFICES ASSUME NEW r \in Sub, NEW i \in DOMAIN backlog'[r] PROVE backlog'[r][i].sub = r
      BY DEF BacklogOwn
    <3>1. CASE r = s
      BY <1>5, <3>1
    <3>2. CASE r # s
      BY <1>5, <3>2 DEF PlaceInv, BacklogOwn
    <3> QED
      BY <3>1, <3>2
  <2> QED
    BY <2>1, <2>2, <2>3, <2>4
<1>7. ASSUME NEW x \in Copy PROVE Placed(x)'
  <2>1. Placed(x)
    BY DEF PlaceInv, AllPlaced
  <2>2. x.sub \in Sub /\ x.at \in Nat
    BY DEF Copy
  <2>3. x \in Copies' <=> x \in Copies
    <3>1. CASE x.sub = s /\ topicOf[s] = None
      <4>1. Len(log[d.topic]) \in Nat
        BY <1>2 DEF TypeInv, TypeOK
      <4>2. x \notin Copies
        BY <3>1, CopiesAre
      <4>3. created'[x.sub] = Len(log'[topicOf'[x.sub]])
        BY <1>1, <1>5, <3>1
      <4>4. x \notin Copies'
        BY <1>1, <1>5, <2>2, <3>1, <4>1, <4>3, CopiesAre
      <4> QED
        BY <4>2, <4>4
    <3>2. CASE ~(x.sub = s /\ topicOf[s] = None)
      <4>1. topicOf'[x.sub] = topicOf[x.sub] /\ created'[x.sub] = created[x.sub]
        BY <1>5, <2>2, <3>2
      <4> QED
        BY <1>1, <4>1, CopiesAre
    <3> QED
      BY <3>1, <3>2
  <2>4. \A m \in Kinds \ {"backlog", "draining", "job"} : Parts(x)'[m] = Parts(x)[m]
    BY <1>1, PartsAre DEF Kinds
  <2>5. Parts(x)'["job"] = Parts(x)["job"]
    <3>1. JobPlaces(job', x) = JobPlaces(job, x)
      BY <1>3, <1>4, JobPlacesAre
    <3> QED
      BY <3>1, PartsAre
  <2>6. Parts(x)["draining"] = {}
    <3>1. DrainingPlaces(draining, x) = {}
      BY <1>4 DEF DrainingPlaces, Where
    <3> QED
      BY <3>1, PartsAre
  <2>7. CASE x.sub # s
    <3>1. Parts(x)'["backlog"] = Parts(x)["backlog"]
      <4>1. backlog'[x.sub] = backlog[x.sub]
        BY <1>5, <2>2, <2>7
      <4>2. BacklogPlaces(backlog', x) = BacklogPlaces(backlog, x)
        BY <4>1 DEF BacklogPlaces
      <4> QED
        BY <4>2, PartsAre
    <3>2. Parts(x)'["draining"] = {}
      <4>1. Where(backlog[s], x) = {}
        <5>1. \A i \in DOMAIN backlog[s] : CopyOf(backlog[s][i]).sub = s
          BY <1>2 DEF PlaceInv, BacklogOwn, CopyOf
        <5> QED
          BY <2>7, <5>1 DEF Where
      <4>2. DrainingPlaces(draining', x) = {}
        BY <1>1, <4>1 DEF DrainingPlaces
      <4> QED
        BY <4>2, PartsAre
    <3>3. \A m \in Kinds : Parts(x)'[m] = Parts(x)[m]
      BY <2>4, <2>5, <2>6, <3>1, <3>2
    <3> QED
      BY <2>1, <2>3, <3>3, NothingMoved
  <2>8. CASE x.sub = s
    <3>1. Parts(x)["backlog"] = {<<"backlog", i>> : i \in Where(backlog[s], x)}
      <4>1. BacklogPlaces(backlog, x) = {<<"backlog", i>> : i \in Where(backlog[s], x)}
        BY <2>8 DEF BacklogPlaces
      <4> QED
        BY <4>1, PartsAre
    <3>2. Parts(x)'["draining"] = {<<"draining", i>> : i \in Where(backlog[s], x)}
      <4>1. DrainingPlaces(draining', x) = {<<"draining", i>> : i \in Where(backlog[s], x)}
        BY <1>1 DEF DrainingPlaces
      <4> QED
        BY <4>1, PartsAre
    <3>3. Parts(x)'["backlog"] = {}
      <4>1. Where(backlog'[s], x) = {}
        BY <1>5 DEF Where
      <4>2. BacklogPlaces(backlog', x) = {}
        BY <2>8, <4>1 DEF BacklogPlaces
      <4> QED
        BY <4>2, PartsAre
    <3>4. CASE Parts(x)["backlog"] = {}
      <4>1. Parts(x)'["draining"] = {}
        <5>1. ASSUME NEW i \in Where(backlog[s], x) PROVE FALSE
          <6>1. <<"backlog", i>> \in Parts(x)["backlog"]
            BY <3>1
          <6> QED
            BY <3>4, <6>1
        <5> QED
          BY <3>2, <5>1
      <4>2. \A m \in Kinds : Parts(x)'[m] = Parts(x)[m]
        BY <2>4, <2>5, <2>6, <3>3, <3>4, <4>1
      <4> QED
        BY <2>1, <2>3, <4>2, NothingMoved
    <3>5. CASE Parts(x)["backlog"] # {}
      <4>1. "backlog" \in Kinds /\ "draining" \in Kinds
        BY DEF Kinds
      <4>2. Lone(Parts(x)["backlog"])
        BY <2>1, <3>5, <4>1, PublishedOne
      <4>3. \A i, k \in Where(backlog[s], x) : i = k
        <5> SUFFICES ASSUME NEW i \in Where(backlog[s], x), NEW k \in Where(backlog[s], x)
                     PROVE  i = k
          OBVIOUS
        <5>1. /\ <<"backlog", i>> \in Parts(x)["backlog"]
              /\ <<"backlog", k>> \in Parts(x)["backlog"]
          BY <3>1
        <5>2. <<"backlog", i>> = <<"backlog", k>>
          BY <4>2, <5>1 DEF Lone
        <5> QED
          BY <5>2
      <4>4. Parts(x)'["draining"] # {} /\ Lone(Parts(x)'["draining"])
        <5>1. PICK i \in Where(backlog[s], x) : TRUE
          BY <3>1, <3>5
        <5>2. <<"draining", i>> \in Parts(x)'["draining"]
          BY <3>2, <5>1
        <5>3. ASSUME NEW p \in Parts(x)'["draining"] PROVE p = <<"draining", i>>
          <6>1. PICK k \in Where(backlog[s], x) : p = <<"draining", k>>
            BY <3>2
          <6> QED
            BY <4>3, <5>1, <6>1
        <5> QED
          BY <5>2, <5>3 DEF Lone
      <4>5. \A m \in Kinds \ {"backlog", "draining"} : Parts(x)'[m] = Parts(x)[m]
        BY <2>4, <2>5
      <4> QED
        BY <2>1, <2>3, <3>3, <3>5, <4>1, <4>4, <4>5, PlacedMoved, LikeSelf
    <3> QED
      BY <3>4, <3>5
  <2> QED
    BY <2>7, <2>8
<1> QED
  BY <1>6, <1>7 DEF PlaceInv, AllPlaced

LEMMA PlaceInit == Init => PlaceInv
<1> SUFFICES ASSUME Init PROVE PlaceInv
  OBVIOUS
<1>1. JobHolds /\ DrainIdle
  BY DEF Init, JobHolds, DrainIdle, Idle
<1>2. BacklogOwn /\ CreatedBefore
  BY DEF Init, BacklogOwn, CreatedBefore
<1>3. ASSUME NEW x \in Copy PROVE Placed(x)
  <2>1. x.sub \in Sub /\ x # None
    BY DEF Copy
  <2>2. x \notin Copies
    BY <2>1, CopiesAre DEF Init
  <2>3. /\ BacklogPlaces(backlog, x) = {} /\ DrainingPlaces(draining, x) = {}
    BY <2>1 DEF Init, BacklogPlaces, DrainingPlaces, Where
  <2>4. ChannelPlaces(chan, x) = {}
    <3>1. \A c \in ConsumerId : DOMAIN chan[c] = {}
      BY DEF Init
    <3>2. \A p : p \notin ChannelPlaces(chan, x)
      BY <3>1, ChannelPlacesAre
    <3> QED
      BY <3>2
  <2>5. HeldPlaces(held, x) = {} /\ TimerPlaces(timers, x) = {} /\ AckedPlaces(acked, x) = {}
    BY DEF Init, HeldPlaces, TimerPlaces, AckedPlaces
  <2>6. JobPlaces(job, x) = {}
    BY DEF Init, JobPlaces, Idle
  <2>7. DeadPlaces(log, x) = {}
    <3>1. \A t \in Topic : DOMAIN log[t] = {}
      BY DEF Init
    <3> QED
      BY <3>1 DEF DeadPlaces
  <2>8. NoPart(Parts(x))
    BY <2>3, <2>4, <2>5, <2>6, <2>7, PartsAre DEF NoPart, Kinds
  <2> QED
    BY <2>2, <2>8 DEF Placed
<1> QED
  BY <1>1, <1>2, <1>3 DEF PlaceInv, AllPlaced

LEMMA PlaceStep == TypeInv /\ StrandInv /\ PlaceInv /\ [Next]_vars => PlaceInv'
<1> SUFFICES ASSUME TypeInv, RotationReads, PlaceInv, [Next]_vars PROVE PlaceInv'
  BY DEF StrandInv
<1> USE DEF subVars, consumerVars, lockVars, countVars, historyVars
<1>0. \A v \in Worker : job[v] \in Job
  BY DEF TypeInv, TypeOK
<1>1. CASE UNCHANGED <<backlog, draining, chan, held, timers, acked, log, topicOf, created, job, lock>>
  BY <1>1, PlacesStill DEF PlaceInv, JobHolds, DrainIdle
<1>2. CASE Install
  BY <1>1, <1>2 DEF Install
<1>3. CASE Close
  BY <1>1, <1>3 DEF Close
<1>4. ASSUME NEW c \in ConsumerId, Poll(c) PROVE PlaceInv'
  BY <1>4, PollPlaces
<1>5. ASSUME NEW w \in Worker, NEW d \in Descriptor, Subscribe(w, d) PROVE PlaceInv'
  <2> DEFINE j == [Idle EXCEPT !.pc = "open", !.desc = d]
  <2>1. j.item = job[w].item /\ j.pc = "open" /\ j.item = None /\ (lock = None => draining = <<>>)
    BY <1>5 DEF Subscribe, Idle, PlaceInv, JobHolds, DrainIdle
  <2>2. /\ job' = [job EXCEPT ![w] = j] /\ lock' = lock
        /\ UNCHANGED <<backlog, draining, chan, held, timers, acked, log, topicOf, created>>
    BY <1>5 DEF Subscribe
  <2> HIDE DEF j
  <2> QED
    BY <2>1, <2>2, ThreadGoesOn
<1>6. ASSUME NEW w \in Worker, Open(w) PROVE PlaceInv'
  BY <1>6, OpenPlaces
<1>7. ASSUME NEW w \in Worker, Drain(w) PROVE PlaceInv'
  BY <1>7, DrainPlaces
<1>8. ASSUME NEW w \in Worker, Opened(w) PROVE PlaceInv'
  <2>1. Idle.item = job[w].item /\ Idle.pc = "idle" /\ Idle.item = None /\ draining = <<>>
    BY <1>8 DEF Opened, Idle, PlaceInv, JobHolds
  <2>2. /\ job' = [job EXCEPT ![w] = Idle]
        /\ UNCHANGED <<backlog, draining, chan, held, timers, acked, log, topicOf, created>>
    BY <1>8 DEF Opened
  <2> QED
    BY <2>1, <2>2, ThreadGoesOn
<1>9. ASSUME NEW w \in Worker, NEW t \in Topic, Publish(w, t) PROVE PlaceInv'
  <2> DEFINE j == [Idle EXCEPT !.pc = "route", !.topic = t]
  <2>1. j.item = job[w].item /\ j.item = None /\ (lock = None => draining = <<>>)
    BY <1>9 DEF Publish, Idle, PlaceInv, JobHolds, DrainIdle
  <2>2. /\ job' = [job EXCEPT ![w] = j] /\ lock' = lock
        /\ UNCHANGED <<backlog, draining, chan, held, timers, acked, log, topicOf, created>>
    BY <1>9 DEF Publish
  <2> HIDE DEF j
  <2> QED
    BY <2>1, <2>2, ThreadGoesOn
<1>10. ASSUME NEW w \in Worker, Route(w) PROVE PlaceInv'
  BY <1>10, RoutePlaces
<1>11. ASSUME NEW w \in Worker, NEW d \in held, Acknowledge(w, d) PROVE PlaceInv'
  <2>1. /\ job[w].pc = "idle" /\ held' = held \ {d} /\ acked' = acked \cup {CopyOf(d.item)}
        /\ job' = [job EXCEPT ![w] = Gone(d)]
        /\ UNCHANGED <<timers, lock, backlog, draining, chan, log, topicOf, created>>
    BY <1>11 DEF Acknowledge
  <2>2. Gone(d).item = None
    BY DEF Gone, Settled, Resume, Idle
  <2> QED
    BY <2>1, <2>2, HandlerLetsGo
<1>12. ASSUME NEW w \in Worker, NEW d \in held, Nack(w, d) PROVE PlaceInv'
  <2> DEFINE j == [Idle EXCEPT !.pc = "reject", !.item = d.item, !.counted = d.counted]
  <2>1. /\ job[w].pc = "idle" /\ held' = held \ {d} /\ job' = [job EXCEPT ![w] = j]
        /\ UNCHANGED <<acked, timers, lock, backlog, draining, chan, log, topicOf, created>>
    BY <1>12 DEF Nack
  <2>2. j.item = d.item /\ j.pc = "reject"
    BY DEF Idle
  <2> HIDE DEF j
  <2> QED
    BY <2>1, <2>2, HandlerLetsGo
<1>13. ASSUME NEW w \in Worker, NEW d \in held, RejectAfter(w, d) PROVE PlaceInv'
  <2>1. /\ job[w].pc = "idle" /\ held' = held \ {d} /\ timers' = timers \cup {d.item}
        /\ job' = [job EXCEPT ![w] = Gone(d)]
        /\ UNCHANGED <<acked, lock, backlog, draining, chan, log, topicOf, created>>
    BY <1>13 DEF RejectAfter
  <2>2. Gone(d).item = None
    BY DEF Gone, Settled, Resume, Idle
  <2> QED
    BY <2>1, <2>2, HandlerLetsGo
<1>14. ASSUME NEW w \in Worker, NEW item \in timers, Fire(w, item) PROVE PlaceInv'
  BY <1>14, TimerFires
<1>15. ASSUME NEW w \in Worker, Reject(w) PROVE PlaceInv'
  BY <1>15, RejectPlaces
<1>16. ASSUME NEW w \in Worker, Release(w) PROVE PlaceInv'
  <2>1. Resume(job[w]).item = job[w].item /\ Resume(job[w]).item = None
        /\ (lock = None => draining = <<>>)
    BY <1>16, <1>0, CallItems DEF Release, PlaceInv, JobHolds, DrainIdle
  <2>2. /\ job' = [job EXCEPT ![w] = Resume(job[w])] /\ lock' = lock
        /\ UNCHANGED <<backlog, draining, chan, held, timers, acked, log, topicOf, created>>
    BY <1>16 DEF Release
  <2> QED
    BY <2>1, <2>2, ThreadGoesOn
<1>17. ASSUME NEW w \in Worker, NEW c \in ConsumerId, Cancel(w, c) PROVE PlaceInv'
  <2> DEFINE j == [Idle EXCEPT !.pc = "cancel", !.consumer = c]
  <2>1. j.item = job[w].item /\ j.item = None /\ (lock = None => draining = <<>>)
    BY <1>17 DEF Cancel, Idle, PlaceInv, JobHolds, DrainIdle
  <2>2. /\ job' = [job EXCEPT ![w] = j] /\ lock' = lock
        /\ UNCHANGED <<backlog, draining, chan, held, timers, acked, log, topicOf, created>>
    BY <1>17 DEF Cancel
  <2> HIDE DEF j
  <2> QED
    BY <2>1, <2>2, ThreadGoesOn
<1>18. ASSUME NEW w \in Worker, CancelNext(w) PROVE PlaceInv'
  BY <1>18, CancelNextPlaces
<1>19. ASSUME NEW w \in Worker, Cancelled(w) PROVE PlaceInv'
  <2>1. Idle.item = job[w].item /\ Idle.item = None /\ (lock = None => draining = <<>>)
    BY <1>19 DEF Cancelled, Idle, PlaceInv, JobHolds, DrainIdle
  <2>2. /\ job' = [job EXCEPT ![w] = Idle] /\ lock' = lock
        /\ UNCHANGED <<backlog, draining, chan, held, timers, acked, log, topicOf, created>>
    BY <1>19 DEF Cancelled
  <2> QED
    BY <2>1, <2>2, ThreadGoesOn
<1>20. CASE UNCHANGED vars
  BY <1>1, <1>20 DEF vars
<1> QED
  BY <1>2, <1>3, <1>4, <1>5, <1>6, <1>7, <1>8, <1>9, <1>10, <1>11, <1>12, <1>13, <1>14,
     <1>15, <1>16, <1>17, <1>18, <1>19, <1>20
     DEF Next, Proceed, Settle, DropMessage

LEMMA PartsCover ==
  ASSUME NEW x
  PROVE  Places(x) = Parts(x).backlog \cup Parts(x).draining \cup Parts(x).channel
                     \cup Parts(x).held \cup Parts(x).timer \cup Parts(x).job
                     \cup Parts(x).acked \cup Parts(x).dead
<1>1. ASSUME NEW p
      PROVE  p \in Places(x) <=>
                 \/ p \in BacklogPlaces(backlog, x) \/ p \in DrainingPlaces(draining, x)
                 \/ p \in ChannelPlaces(chan, x) \/ p \in HeldPlaces(held, x)
                 \/ p \in TimerPlaces(timers, x) \/ p \in JobPlaces(job, x)
                 \/ p \in AckedPlaces(acked, x) \/ p \in DeadPlaces(log, x)
  BY Zenon DEF Places, BacklogPlaces, DrainingPlaces, ChannelPlaces, HeldPlaces, TimerPlaces,
               JobPlaces, AckedPlaces, DeadPlaces
<1>2. ASSUME NEW p
      PROVE  p \in Places(x) <=>
                 \/ p \in Parts(x).backlog \/ p \in Parts(x).draining
                 \/ p \in Parts(x).channel \/ p \in Parts(x).held
                 \/ p \in Parts(x).timer \/ p \in Parts(x).job
                 \/ p \in Parts(x).acked \/ p \in Parts(x).dead
  BY <1>1, PartsAre
<1> QED
  BY <1>2

\* Every copy of a message a subscription got is in exactly one place, whatever
\* consumers come and go, however deliveries are settled and wherever a
\* dead-letter move lets go of the lock, in every instance of the transport.
THEOREM OnePlaceEach == Spec => []ExactlyOnePlace
<1>1. Init => TypeInv /\ StrandInv /\ PlaceInv
  BY TypeInit, StrandInit, PlaceInit
<1>2. TypeInv /\ StrandInv /\ PlaceInv /\ [Next]_vars => TypeInv' /\ StrandInv' /\ PlaceInv'
  BY TypeStep, StrandStep, PlaceStep
<1>3. TypeInv /\ PlaceInv => ExactlyOnePlace
  <2> SUFFICES ASSUME TypeInv, PlaceInv, NEW x \in Copies PROVE Cardinality(Places(x)) = 1
    BY DEF ExactlyOnePlace
  <2>1. x \in Copy
    <3>1. PICK s \in Sub : /\ topicOf[s] # None
                           /\ \E k \in created[s] + 1 .. Len(log[topicOf[s]]) : x = [sub |-> s, at |-> k]
      BY DEF Copies
    <3>2. created[s] \in Nat
      BY DEF TypeInv, TypeOK
    <3> QED
      BY <3>1, <3>2 DEF Copy
  <2>2. PICK k \in Kinds : /\ Parts(x)[k] # {} /\ Lone(Parts(x)[k])
                           /\ \A l \in Kinds \ {k} : Parts(x)[l] = {}
    BY <2>1 DEF PlaceInv, AllPlaced, Placed, OnePart
  <2>3. Places(x) = Parts(x)[k]
    BY <2>2, PartsCover, SMTT(30) DEF Kinds
  <2>4. PICK p \in Parts(x)[k] : TRUE
    BY <2>2
  <2>5. \A q \in Parts(x)[k] : q = p
    BY <2>2, <2>4 DEF Lone
  <2>6. Places(x) = {p}
    BY <2>3, <2>4, <2>5
  <2> QED
    BY <2>6, FS_Singleton
<1> QED
  BY <1>1, <1>2, <1>3, PTL DEF Spec

--------------------------------------------------------------------------------
(***************************************************************************)
(* Part 5: the harness's count.  Every step that counts a delivery or      *)
(* releases one adds it to or takes it from exactly one of what is counted *)
(* in the channels, with the handlers and with the threads; that a         *)
(* delivery a consumer hands out is none it handed out before comes from   *)
(* ExactlyOnePlace.                                                        *)
(***************************************************************************)
OwesFor(j) == j.counted /\ j.pc \in {"reject", "route", "release"}

Owing == {w \in Worker : OwesFor(job[w])}

\* Only a counted delivery is released.
ReleaseCounted == \A w \in Worker : job[w].pc = "release" => job[w].counted

CountInv ==
    /\ ReleaseCounted
    /\ IsFiniteSet(CountedHanded)
    /\ IsFiniteSet(CountedHeld)
    /\ inflight = Cardinality(CountedHanded) + Cardinality(CountedHeld) + Cardinality(Owing)

LEMMA OwingSize == IsFiniteSet(Owing) /\ Cardinality(Owing) \in Nat
<1>1. Owing \in SUBSET Worker
  BY DEF Owing
<1>2. IsFiniteSet(Owing)
  BY <1>1, FS_Subset
<1> QED
  BY <1>2, FS_CardinalityType

\* One thread's job changes.
LEMMA OwingChange ==
  ASSUME TypeInv, NEW w \in Worker, NEW j, job' = [job EXCEPT ![w] = j]
  PROVE  Cardinality(Owing') = IF OwesFor(j) = OwesFor(job[w]) THEN Cardinality(Owing)
                               ELSE IF OwesFor(j) THEN Cardinality(Owing) + 1
                               ELSE Cardinality(Owing) - 1
<1>1. job'[w] = j /\ \A v \in Worker \ {w} : job'[v] = job[v]
  BY DEF TypeInv, TypeOK
<1>2. OwesFor(j) \in BOOLEAN /\ OwesFor(job[w]) \in BOOLEAN
  BY DEF OwesFor, TypeInv, TypeOK, Job
<1>3. Owing' = IF OwesFor(j) THEN Owing \cup {w} ELSE Owing \ {w}
  BY <1>1 DEF Owing, OwesFor
<1>4. w \in Owing <=> OwesFor(job[w])
  BY DEF Owing
<1> QED
  BY <1>2, <1>3, <1>4, OwingSize, FS_AddElement, FS_RemoveElement

LEMMA CountedAre ==
  /\ \A p : p \in CountedHanded <=>
       \E c \in ConsumerId : \E i \in DOMAIN chan[c] : chan[c][i].counted /\ p = <<c, i>>
  /\ \A p : p \in CountedHanded' <=>
       \E c \in ConsumerId : \E i \in DOMAIN chan'[c] : chan'[c][i].counted /\ p = <<c, i>>
  BY DEF CountedHanded

\* A consumer's channel gives its first.
LEMMA CountedTail ==
  ASSUME TypeInv, NEW c \in ConsumerId, chan[c] # <<>>, chan' = [chan EXCEPT ![c] = Tail(@)],
         IsFiniteSet(CountedHanded)
  PROVE  /\ IsFiniteSet(CountedHanded')
         /\ Cardinality(CountedHanded') = Cardinality(CountedHanded)
                                          - IF Head(chan[c]).counted THEN 1 ELSE 0
<1> DEFINE q == chan[c]
           T == CountedHanded \ {<<c, 1>>}
           g == [p \in T |-> IF p[1] = c THEN <<c, p[2] - 1>> ELSE p]
           at(b, i) == b \in ConsumerId /\ i \in DOMAIN chan[b] /\ chan[b][i].counted
           at2(b, i) == b \in ConsumerId /\ i \in DOMAIN chan'[b] /\ chan'[b][i].counted
<1>1. /\ chan'[c] = Tail(q) /\ \A b \in ConsumerId \ {c} : chan'[b] = chan[b]
      /\ q \in Seq(Handed)
  BY DEF TypeInv, TypeOK
<1>2. /\ DOMAIN Tail(q) = 1..(Len(q) - 1) /\ DOMAIN q = 1..Len(q) /\ Len(q) \in Nat \ {0}
      /\ \A i \in 1..(Len(q) - 1) : Tail(q)[i] = q[i + 1]
      /\ Head(q) = q[1]
  BY <1>1, TailShift
<1>3. /\ \A p : p \in CountedHanded <=> \E b, i : at(b, i) /\ p = <<b, i>>
      /\ \A p : p \in CountedHanded' <=> \E b, i : at2(b, i) /\ p = <<b, i>>
  BY CountedAre
<1>4. \A i : at2(c, i) <=> i \in Nat \ {0} /\ at(c, i + 1)
  <2>1. ASSUME NEW i, at2(c, i) PROVE i \in Nat \ {0} /\ at(c, i + 1)
    <3>1. i \in 1..(Len(q) - 1) /\ Tail(q)[i].counted
      BY <1>1, <1>2, <2>1
    <3>2. i + 1 \in 1..Len(q) /\ q[i + 1].counted
      BY <1>2, <3>1
    <3> QED
      BY <1>2, <3>1, <3>2
  <2>2. ASSUME NEW i \in Nat \ {0}, at(c, i + 1) PROVE at2(c, i)
    <3>1. i + 1 \in 1..Len(q) /\ q[i + 1].counted
      BY <1>2, <2>2
    <3>2. i \in 1..(Len(q) - 1) /\ Tail(q)[i].counted
      BY <1>2, <3>1
    <3> QED
      BY <1>1, <1>2, <3>2
  <2> QED
    BY <2>1, <2>2
<1>5. \A b, i : b # c => (at2(b, i) <=> at(b, i))
  BY <1>1
<1>6. \A i : at(c, i) => i \in Nat \ {0}
  BY <1>2
<1>7. at(c, 1) <=> Head(q).counted
  BY <1>2
<1> HIDE DEF at, at2, q
<1>8. \A b, i : <<b, i>> \in T <=> at(b, i) /\ ~(b = c /\ i = 1)
  BY <1>3
<1>9. \A p \in T : p = <<p[1], p[2]>>
  BY <1>3
<1>10. g \in [T -> CountedHanded']
  <2> SUFFICES ASSUME NEW p \in T PROVE g[p] \in CountedHanded'
    OBVIOUS
  <2>1. at(p[1], p[2]) /\ ~(p[1] = c /\ p[2] = 1)
    BY <1>8, <1>9
  <2>2. CASE p[1] = c
    <3>1. at2(c, p[2] - 1)
      BY <1>4, <1>6, <2>1, <2>2
    <3> QED
      BY <1>3, <2>2, <3>1
  <2>3. CASE p[1] # c
    <3>1. at2(p[1], p[2])
      BY <1>5, <2>1, <2>3
    <3> QED
      BY <1>3, <1>9, <2>3, <3>1
  <2> QED
    BY <2>2, <2>3
<1>11. \A p, r \in T : g[p] = g[r] => p = r
  <2> SUFFICES ASSUME NEW p \in T, NEW r \in T, g[p] = g[r] PROVE p = r
    OBVIOUS
  <2>1. /\ p = <<p[1], p[2]>> /\ r = <<r[1], r[2]>>
        /\ p[1] = c => p[2] \in Nat /\ g[p] = <<c, p[2] - 1>>
        /\ r[1] = c => r[2] \in Nat /\ g[r] = <<c, r[2] - 1>>
        /\ p[1] # c => g[p] = p
        /\ r[1] # c => g[r] = r
    BY <1>6, <1>8, <1>9
  <2> HIDE DEF g, T
  <2> QED
    BY <2>1
<1>12. \A y \in CountedHanded' : \E p \in T : g[p] = y
  <2> SUFFICES ASSUME NEW y \in CountedHanded' PROVE \E p \in T : g[p] = y
    OBVIOUS
  <2>1. PICK b, i : at2(b, i) /\ y = <<b, i>>
    BY <1>3
  <2>2. CASE b = c
    <3>1. i \in Nat \ {0} /\ at(c, i + 1)
      BY <1>4, <2>1, <2>2
    <3>2. <<c, i + 1>> \in T
      BY <1>8, <3>1
    <3>3. g[<<c, i + 1>>] = <<c, (i + 1) - 1>>
      BY <3>2
    <3>4. (i + 1) - 1 = i
      BY <3>1
    <3> QED
      BY <2>1, <2>2, <3>2, <3>3, <3>4
  <2>3. CASE b # c
    <3>1. <<b, i>> \in T
      BY <1>5, <1>8, <2>1, <2>3
    <3>2. g[<<b, i>>] = <<b, i>>
      BY <2>3, <3>1
    <3> QED
      BY <2>1, <3>1, <3>2
  <2> QED
    BY <2>2, <2>3
<1>13. ExistsBijection(T, CountedHanded')
  <2> HIDE DEF g, T
  <2>1. g \in Bijection(T, CountedHanded')
    BY <1>10, <1>11, <1>12 DEF Bijection, Injection, IsInjective, Surjection
  <2> QED
    BY <2>1 DEF ExistsBijection
<1>14. /\ IsFiniteSet(T)
       /\ Cardinality(T) = IF <<c, 1>> \in CountedHanded THEN Cardinality(CountedHanded) - 1
                                                         ELSE Cardinality(CountedHanded)
  BY FS_RemoveElement
<1>15. <<c, 1>> \in CountedHanded <=> Head(q).counted
  BY <1>3, <1>7
<1>16. IsFiniteSet(CountedHanded') /\ Cardinality(CountedHanded') = Cardinality(T)
  <2> HIDE DEF T
  <2> QED
    BY <1>13, <1>14, FS_Bijection
<1>17. Cardinality(CountedHanded) \in Nat
  BY FS_CardinalityType
<1> HIDE DEF T
<1> QED
  BY <1>14, <1>15, <1>16, <1>17 DEF q

\* Where Hand counts, each delivery it puts in a channel is one more.
LEMMA CountedHand ==
  ASSUME TypeInv, RotationReads, NEW given, DOMAIN given \subseteq Sub,
         \A s \in DOMAIN given : given[s] \in Item,
         NEW harness \in BOOLEAN, Hand(given, harness), IsFiniteSet(CountedHanded)
  PROVE  \E n \in Nat : /\ inflight' = inflight + n
                        /\ IsFiniteSet(CountedHanded')
                        /\ Cardinality(CountedHanded') = Cardinality(CountedHanded) + n
<1> DEFINE served == {s \in DOMAIN given : consumers[s] # {}}
           m(c) == Len(chan[c]) + 1
           New == {<<NextConsumer(s), m(NextConsumer(s))>> : s \in served}
           g == [s \in served |-> <<NextConsumer(s), m(NextConsumer(s))>>]
           gets(c) == /\ c \in ConsumerId /\ subOf[c] \in DOMAIN given
                      /\ consumers[subOf[c]] # {} /\ c = NextConsumer(subOf[c])
           at(b, i) == b \in ConsumerId /\ i \in DOMAIN chan[b] /\ chan[b][i].counted
           at2(b, i) == b \in ConsumerId /\ i \in DOMAIN chan'[b] /\ chan'[b][i].counted
<1>1. /\ \A c \in ConsumerId :
           chan'[c] = IF gets(c)
                      THEN Append(chan[c], [item |-> given[subOf[c]], counted |-> harness])
                      ELSE chan[c]
      /\ inflight' = inflight + IF harness THEN Cardinality(served) ELSE 0
  BY HandGives, SMTT(30)
<1>2. \A c \in ConsumerId : chan[c] \in Seq(Handed)
  BY DEF TypeInv, TypeOK
<1>3. IsFiniteSet(served) /\ Cardinality(served) \in Nat
  <2>1. served \in SUBSET Sub
    OBVIOUS
  <2>2. IsFiniteSet(served)
    BY <2>1, FS_Subset
  <2> HIDE DEF served
  <2> QED
    BY <2>2, FS_CardinalityType
<1>4. \A s \in served : /\ NextConsumer(s) \in ConsumerId /\ subOf[NextConsumer(s)] = s
                        /\ gets(NextConsumer(s))
  <2> SUFFICES ASSUME NEW s \in served
               PROVE  NextConsumer(s) \in ConsumerId /\ subOf[NextConsumer(s)] = s
    OBVIOUS
  <2>1. s \in Sub /\ consumers[s] # {} /\ consumers[s] \subseteq ConsumerId
    BY DEF TypeInv, TypeOK
  <2> QED
    BY <2>1, NextConsumerIn, HandReaches
<1>5. /\ \A p : p \in CountedHanded <=> \E b, i : at(b, i) /\ p = <<b, i>>
      /\ \A p : p \in CountedHanded' <=> \E b, i : at2(b, i) /\ p = <<b, i>>
  BY CountedAre
<1>6. ASSUME NEW b \in ConsumerId, NEW i
      PROVE  at2(b, i) <=> at(b, i) \/ (harness /\ gets(b) /\ i = m(b))
  <2>1. CASE gets(b)
    <3> DEFINE e == [item |-> given[subOf[b]], counted |-> harness]
    <3>1. e \in Handed /\ e.counted = harness
      BY <2>1 DEF Handed
    <3> HIDE DEF e
    <3>2. /\ DOMAIN Append(chan[b], e) = 1..(Len(chan[b]) + 1) /\ DOMAIN chan[b] = 1..Len(chan[b])
          /\ Len(chan[b]) \in Nat
          /\ \A k \in 1..Len(chan[b]) : Append(chan[b], e)[k] = chan[b][k]
          /\ Append(chan[b], e)[Len(chan[b]) + 1] = e
      BY <1>2, <3>1, AppendAt
    <3>3. chan'[b] = Append(chan[b], e)
      BY <1>1, <2>1 DEF e
    <3> HIDE DEF gets
    <3> QED
      BY <2>1, <3>1, <3>2, <3>3
  <2>2. CASE ~gets(b)
    <3>1. chan'[b] = chan[b]
      BY <1>1, <2>2
    <3> HIDE DEF gets
    <3> QED
      BY <2>2, <3>1
  <2> QED
    BY <2>1, <2>2
<1>7. \A b, i : at2(b, i) => b \in ConsumerId
  OBVIOUS
<1>8. \A b, i : at(b, i) => b \in ConsumerId /\ i # m(b)
  BY <1>2
<1>9. \A b : gets(b) => b \in ConsumerId /\ subOf[b] \in served /\ b = NextConsumer(subOf[b])
  OBVIOUS
<1>10. Cardinality(CountedHanded) \in Nat /\ inflight \in Int
  BY FS_CardinalityType DEF TypeInv, TypeOK
<1> HIDE DEF at, at2, gets, served, m
<1>11. CASE ~harness
  <2>1. CountedHanded' = CountedHanded
    BY <1>5, <1>6, <1>7, <1>8, <1>11
  <2>2. inflight' = inflight + 0
    BY <1>1, <1>11
  <2> QED
    BY <1>10, <2>1, <2>2
<1>12. CASE harness
  <2>1. \A p : p \in CountedHanded' <=> p \in CountedHanded \/ p \in New
    <3>1. ASSUME NEW p \in CountedHanded' PROVE p \in CountedHanded \/ p \in New
      <4>1. PICK b, i : at2(b, i) /\ p = <<b, i>>
        BY <1>5
      <4>2. CASE at(b, i)
        BY <1>5, <4>1, <4>2
      <4>3. CASE gets(b) /\ i = m(b)
        BY <1>9, <4>1, <4>3
      <4> QED
        BY <1>6, <1>7, <4>1, <4>2, <4>3
    <3>2. ASSUME NEW p \in CountedHanded PROVE p \in CountedHanded'
      BY <1>5, <1>6, <1>8
    <3>3. ASSUME NEW p \in New PROVE p \in CountedHanded'
      <4>1. PICK s \in served : p = <<NextConsumer(s), m(NextConsumer(s))>>
        OBVIOUS
      <4>2. at2(NextConsumer(s), m(NextConsumer(s)))
        BY <1>4, <1>6, <1>12
      <4> QED
        BY <1>5, <4>1, <4>2
    <3> QED
      BY <3>1, <3>2, <3>3
  <2>2. ASSUME NEW p \in New PROVE p \notin CountedHanded
    <3>1. PICK s \in served : p = <<NextConsumer(s), m(NextConsumer(s))>>
      OBVIOUS
    <3> QED
      BY <1>5, <1>8, <3>1
  <2>3. IsFiniteSet(New) /\ Cardinality(New) = Cardinality(served)
    <3>1. g \in [served -> New] /\ \A y \in New : \E s \in served : g[s] = y
      OBVIOUS
    <3>2. \A r, s \in served : g[r] = g[s] => r = s
      <4> SUFFICES ASSUME NEW r \in served, NEW s \in served, g[r] = g[s] PROVE r = s
        OBVIOUS
      <4>1. <<NextConsumer(r), m(NextConsumer(r))>> = <<NextConsumer(s), m(NextConsumer(s))>>
        OBVIOUS
      <4>2. NextConsumer(r) = NextConsumer(s)
        BY <4>1
      <4> QED
        BY <1>4, <4>2
    <3> HIDE DEF g, New
    <3>3. g \in Bijection(served, New)
      BY <3>1, <3>2 DEF Bijection, Injection, IsInjective, Surjection
    <3>4. ExistsBijection(served, New)
      BY <3>3 DEF ExistsBijection
    <3> QED
      BY <1>3, <3>4, FS_Bijection
  <2> HIDE DEF New, g
  <2>4. CountedHanded' = CountedHanded \cup New /\ CountedHanded \cap New = {}
    BY <2>1, <2>2
  <2>5. /\ IsFiniteSet(CountedHanded \cup New)
        /\ Cardinality(CountedHanded \cup New)
           = Cardinality(CountedHanded) + Cardinality(New) - Cardinality(CountedHanded \cap New)
    BY <2>3, FS_Union
  <2>6. Cardinality(CountedHanded \cap New) = 0
    BY <2>4, FS_EmptySet
  <2>7. inflight' = inflight + Cardinality(served)
    BY <1>1, <1>12
  <2> QED
    BY <1>3, <1>10, <2>3, <2>4, <2>5, <2>6, <2>7
<1> QED
  BY <1>11, <1>12

LEMMA CallOwes ==
  ASSUME NEW j \in Job
  PROVE  /\ ~OwesFor(Resume(j)) /\ Resume(j).pc # "release"
         /\ OwesFor(Settled(j)) = j.counted
         /\ Settled(j).pc = "release" => Settled(j).counted
  BY DEF Job, Idle, Resume, Settled, OwesFor

\* What a thread's step owes to the count: a to the channels, b to the handlers.
LEMMA CountAdds ==
  ASSUME TypeInv, CountInv, NEW w \in Worker, NEW j, job' = [job EXCEPT ![w] = j],
         j.pc = "release" => j.counted,
         IsFiniteSet(CountedHanded'), IsFiniteSet(CountedHeld'),
         NEW a \in Int, NEW b \in Int,
         Cardinality(CountedHanded') = Cardinality(CountedHanded) + a,
         Cardinality(CountedHeld') = Cardinality(CountedHeld) + b,
         inflight' = inflight + a + b + IF OwesFor(j) = OwesFor(job[w]) THEN 0
                                        ELSE IF OwesFor(j) THEN 1 ELSE -1
  PROVE  CountInv'
<1>1. Cardinality(CountedHanded) \in Nat /\ Cardinality(CountedHeld) \in Nat
  BY FS_CardinalityType DEF CountInv
<1>2. ReleaseCounted'
  BY DEF CountInv, ReleaseCounted, TypeInv, TypeOK
<1>3. PICK k \in Int : /\ Cardinality(Owing') = Cardinality(Owing) + k
                        /\ inflight' = inflight + a + b + k
  <2> DEFINE k == IF OwesFor(j) = OwesFor(job[w]) THEN 0 ELSE IF OwesFor(j) THEN 1 ELSE -1
  <2>1. Cardinality(Owing') = IF OwesFor(j) = OwesFor(job[w]) THEN Cardinality(Owing)
                              ELSE IF OwesFor(j) THEN Cardinality(Owing) + 1
                              ELSE Cardinality(Owing) - 1
    BY OwingChange
  <2>2. k \in Int /\ Cardinality(Owing') = Cardinality(Owing) + k
    BY <2>1, OwingSize
  <2>3. inflight' = inflight + a + b + k
    OBVIOUS
  <2> HIDE DEF k
  <2> QED
    BY <2>2, <2>3
<1>4. inflight' = Cardinality(CountedHanded') + Cardinality(CountedHeld') + Cardinality(Owing')
  BY <1>1, <1>3, OwingSize DEF CountInv
<1> QED
  BY <1>2, <1>4 DEF CountInv

LEMMA CountSame ==
  ASSUME CountInv, inflight' = inflight, chan' = chan, held' = held, job' = job
  PROVE  CountInv'
<1>1. CountedHanded' = CountedHanded /\ CountedHeld' = CountedHeld /\ Owing' = Owing
  BY DEF CountedHanded, CountedHeld, Owing, OwesFor
<1> QED
  BY <1>1 DEF CountInv, ReleaseCounted

\* A thread goes on with what it has.
LEMMA CountGoesOn ==
  ASSUME TypeInv, CountInv, NEW w \in Worker, NEW j, job' = [job EXCEPT ![w] = j],
         j.pc = "release" => j.counted, OwesFor(j) = OwesFor(job[w]),
         inflight' = inflight, chan' = chan, held' = held
  PROVE  CountInv'
<1>1. CountedHanded' = CountedHanded /\ CountedHeld' = CountedHeld
  BY DEF CountedHanded, CountedHeld
<1>2. IsFiniteSet(CountedHanded) /\ IsFiniteSet(CountedHeld)
  BY DEF CountInv
<1>3. /\ Cardinality(CountedHanded) \in Nat /\ Cardinality(CountedHeld) \in Nat
      /\ inflight \in Int
  BY <1>2, FS_CardinalityType DEF TypeInv, TypeOK
<1>4. /\ Cardinality(CountedHanded') = Cardinality(CountedHanded) + 0
      /\ Cardinality(CountedHeld') = Cardinality(CountedHeld) + 0
      /\ inflight' = inflight + 0 + 0 + IF OwesFor(j) = OwesFor(job[w]) THEN 0
                                        ELSE IF OwesFor(j) THEN 1 ELSE -1
      /\ IsFiniteSet(CountedHanded') /\ IsFiniteSet(CountedHeld') /\ 0 \in Int
  BY <1>1, <1>2, <1>3
<1> QED
  BY <1>4, CountAdds

\* A handler lets go of a delivery, and the thread owes what it counted.
LEMMA CountLetsGo ==
  ASSUME TypeInv, CountInv, NEW w \in Worker, NEW d \in held, NEW j,
         job' = [job EXCEPT ![w] = j], j.pc = "release" => j.counted,
         job[w].pc = "idle", OwesFor(j) = d.counted,
         inflight' = inflight, chan' = chan, held' = held \ {d}
  PROVE  CountInv'
<1>1. CountedHanded' = CountedHanded /\ CountedHeld' = CountedHeld \ {d}
  BY DEF CountedHanded, CountedHeld
<1>2. IsFiniteSet(CountedHanded) /\ IsFiniteSet(CountedHeld)
  BY DEF CountInv
<1>3. /\ Cardinality(CountedHanded) \in Nat /\ Cardinality(CountedHeld) \in Nat
      /\ inflight \in Int /\ d.counted \in BOOLEAN
  BY <1>2, FS_CardinalityType DEF TypeInv, TypeOK, Delivery
<1>4. d \in CountedHeld <=> d.counted
  BY DEF CountedHeld
<1>5. /\ IsFiniteSet(CountedHeld')
      /\ Cardinality(CountedHeld') = Cardinality(CountedHeld) + IF d.counted THEN -1 ELSE 0
  BY <1>1, <1>2, <1>3, <1>4, FS_RemoveElement
<1>6. ~OwesFor(job[w])
  BY DEF OwesFor
<1>7. inflight' = inflight + 0 + (IF d.counted THEN -1 ELSE 0)
                  + IF OwesFor(j) = OwesFor(job[w]) THEN 0 ELSE IF OwesFor(j) THEN 1 ELSE -1
  BY <1>3, <1>6 DEF OwesFor
<1>8. /\ Cardinality(CountedHanded') = Cardinality(CountedHanded) + 0
      /\ IsFiniteSet(CountedHanded') /\ (IF d.counted THEN -1 ELSE 0) \in Int /\ 0 \in Int
  BY <1>1, <1>2, <1>3
<1> QED
  BY <1>5, <1>7, <1>8, CountAdds

\* A message is handed on, and the thread that does it owes what it owed.
LEMMA CountHandedOn ==
  ASSUME TypeInv, RotationReads, CountInv, NEW given, DOMAIN given \subseteq Sub,
         \A s \in DOMAIN given : given[s] \in Item,
         NEW harness \in BOOLEAN, Hand(given, harness),
         NEW w \in Worker, NEW j, job' = [job EXCEPT ![w] = j],
         j.pc = "release" => j.counted, OwesFor(j) = OwesFor(job[w]), held' = held
  PROVE  CountInv'
<1>1. IsFiniteSet(CountedHanded) /\ IsFiniteSet(CountedHeld)
  BY DEF CountInv
<1>2. PICK n \in Nat : /\ inflight' = inflight + n
                       /\ IsFiniteSet(CountedHanded')
                       /\ Cardinality(CountedHanded') = Cardinality(CountedHanded) + n
  BY <1>1, CountedHand
<1>3. CountedHeld' = CountedHeld
  BY DEF CountedHeld
<1>4. Cardinality(CountedHeld) \in Nat /\ inflight \in Int
  BY <1>1, FS_CardinalityType DEF TypeInv, TypeOK
<1>5. /\ Cardinality(CountedHeld') = Cardinality(CountedHeld) + 0
      /\ inflight' = inflight + n + 0 + 0 /\ IsFiniteSet(CountedHeld')
      /\ n \in Int /\ 0 \in Int
  BY <1>1, <1>2, <1>3, <1>4
<1> QED
  BY <1>2, <1>5, CountAdds

\* A consumer hands a delivery to a handler, one it did not have before.
LEMMA CountPoll ==
  ASSUME TypeInv, PlaceInv, CountInv, NEW c \in ConsumerId, Poll(c)
  PROVE  CountInv'
<1> DEFINE h == Head(chan[c])
           d == [item |-> h.item, counted |-> h.counted,
                 reported |-> policy[subOf[c]] # None, cap |-> capOf[c]]
           x == CopyOf(h.item)
<1>1. /\ chan[c] # <<>> /\ chan' = [chan EXCEPT ![c] = Tail(@)]
      /\ held' = held \cup {d} /\ inflight' = inflight /\ job' = job
  BY DEF Poll, countVars
<1>2. /\ h \in Handed /\ h = chan[c][1] /\ 1 \in DOMAIN chan[c] /\ h.counted \in BOOLEAN
  <2>1. chan[c] \in Seq(Handed)
    BY DEF TypeInv, TypeOK
  <2>2. h \in Handed /\ h = chan[c][1] /\ 1 \in DOMAIN chan[c]
    BY <1>1, <2>1
  <2> QED
    BY <2>2 DEF Handed
<1>3. d.counted = h.counted /\ d.item = h.item
  OBVIOUS
<1>4. x \in Copy
  BY <1>2, CopyTypes DEF Handed
<1> HIDE DEF d, h, x
<1>5. d \notin held
  <2> SUFFICES ASSUME d \in held PROVE FALSE
    OBVIOUS
  <2>1. Placed(x)
    BY <1>4 DEF PlaceInv, AllPlaced
  <2>2. <<"channel", c, 1>> \in Parts(x)["channel"]
    <3>1. <<"channel", c, 1>> \in ChannelPlaces(chan, x)
      BY <1>2, ChannelPlacesAre DEF x
    <3> QED
      BY <3>1, PartsAre
  <2>3. <<"held", d>> \in Parts(x)["held"]
    <3>1. <<"held", d>> \in HeldPlaces(held, x)
      BY <1>3 DEF HeldPlaces, x
    <3> QED
      BY <3>1, PartsAre
  <2>4. "channel" \in Kinds /\ "held" \in Kinds
    BY DEF Kinds
  <2>5. OnePart(Parts(x))
    BY <2>1, <2>2, <2>4 DEF Placed, NoPart
  <2> QED
    BY <2>2, <2>3, <2>4, <2>5 DEF OnePart
<1>6. IsFiniteSet(CountedHanded) /\ IsFiniteSet(CountedHeld)
  BY DEF CountInv
<1>7. /\ IsFiniteSet(CountedHanded')
      /\ Cardinality(CountedHanded') = Cardinality(CountedHanded) - IF h.counted THEN 1 ELSE 0
  BY <1>1, <1>6, CountedTail DEF h
<1>8. CountedHeld' = IF h.counted THEN CountedHeld \cup {d} ELSE CountedHeld
  BY <1>1, <1>3 DEF CountedHeld
<1>9. d \notin CountedHeld
  BY <1>5 DEF CountedHeld
<1>10. /\ IsFiniteSet(CountedHeld')
       /\ Cardinality(CountedHeld') = Cardinality(CountedHeld) + IF h.counted THEN 1 ELSE 0
  <2>1. Cardinality(CountedHeld) \in Nat
    BY <1>6, FS_CardinalityType
  <2>2. CASE h.counted
    BY <1>6, <1>8, <1>9, <2>1, <2>2, FS_AddElement
  <2>3. CASE ~h.counted
    BY <1>6, <1>8, <2>1, <2>3
  <2> QED
    BY <2>2, <2>3
<1>11. Owing' = Owing
  BY <1>1 DEF Owing, OwesFor
<1>12. /\ Cardinality(CountedHanded) \in Nat /\ Cardinality(CountedHeld) \in Nat
       /\ Cardinality(Owing) \in Nat
  BY <1>6, FS_CardinalityType, OwingSize
<1> QED
  BY <1>1, <1>2, <1>7, <1>10, <1>11, <1>12 DEF CountInv, ReleaseCounted

LEMMA CountInit == Init => CountInv
<1> SUFFICES ASSUME Init PROVE CountInv
  OBVIOUS
<1>1. CountedHanded = {}
  <2>1. \A c \in ConsumerId : DOMAIN chan[c] = {}
    BY DEF Init
  <2> QED
    BY <2>1, CountedAre
<1>2. CountedHeld = {} /\ Owing = {} /\ inflight = 0
  BY DEF Init, CountedHeld, Owing, OwesFor, Idle
<1>3. ReleaseCounted
  BY DEF Init, ReleaseCounted, Idle
<1> QED
  BY <1>1, <1>2, <1>3, FS_EmptySet DEF CountInv

LEMMA CountStep ==
  TypeInv /\ RotationReads /\ PlaceInv /\ CountInv /\ [Next]_vars => CountInv'
<1> SUFFICES ASSUME TypeInv, RotationReads, PlaceInv, CountInv, [Next]_vars PROVE CountInv'
  OBVIOUS
<1> USE DEF subVars, consumerVars, lockVars, countVars, historyVars
<1>0. \A w \in Worker : job[w] \in Job /\ job[w].counted \in BOOLEAN
  BY DEF TypeInv, TypeOK, Job
<1>1. CASE Install \/ Close \/ UNCHANGED vars
  BY <1>1, CountSame DEF Install, Close, vars
<1>2. ASSUME NEW c \in ConsumerId, Poll(c) PROVE CountInv'
  BY <1>2, CountPoll
<1>3. ASSUME NEW w \in Worker, NEW d \in Descriptor, Subscribe(w, d) PROVE CountInv'
  <2> DEFINE j == [Idle EXCEPT !.pc = "open", !.desc = d]
  <2>1. j.pc # "release" /\ OwesFor(j) = OwesFor(job[w])
    BY <1>0, <1>3 DEF Subscribe, Idle, OwesFor
  <2>2. job' = [job EXCEPT ![w] = j] /\ inflight' = inflight /\ chan' = chan /\ held' = held
    BY <1>3 DEF Subscribe
  <2> HIDE DEF j
  <2> QED
    BY <2>1, <2>2, CountGoesOn
<1>4. ASSUME NEW w \in Worker, Open(w) PROVE CountInv'
  <2> DEFINE j == [Idle EXCEPT !.pc = "drain", !.consumer = opened + 1, !.counted = installed]
  <2>1. j.pc # "release" /\ OwesFor(j) = OwesFor(job[w])
    BY <1>0, <1>4 DEF Open, Idle, OwesFor
  <2>2. job' = [job EXCEPT ![w] = j] /\ inflight' = inflight /\ chan' = chan /\ held' = held
    BY <1>4 DEF Open
  <2> HIDE DEF j
  <2> QED
    BY <2>1, <2>2, CountGoesOn
<1>5. ASSUME NEW w \in Worker, Drain(w) PROVE CountInv'
  <2> DEFINE item == Head(draining)
             given == [s \in {item.sub} |-> item]
  <2>1. /\ Hand(given, job[w].counted) /\ job' = [job EXCEPT ![w] = job[w]]
        /\ held' = held /\ job[w].pc # "release" /\ draining # <<>>
    BY <1>0, <1>5 DEF Drain, TypeInv, TypeOK
  <2>2. item \in Item /\ item.sub \in Sub
    <3>1. item \in Item
      BY <2>1 DEF TypeInv, TypeOK
    <3> QED
      BY <3>1 DEF Item
  <2>3. DOMAIN given \subseteq Sub /\ \A s \in DOMAIN given : given[s] \in Item
    BY <2>2
  <2> HIDE DEF given
  <2> QED
    BY <1>0, <2>1, <2>3, CountHandedOn
<1>6. ASSUME NEW w \in Worker, Opened(w) PROVE CountInv'
  <2>1. Idle.pc # "release" /\ OwesFor(Idle) = OwesFor(job[w])
    BY <1>0, <1>6 DEF Opened, Idle, OwesFor
  <2>2. job' = [job EXCEPT ![w] = Idle] /\ inflight' = inflight /\ chan' = chan /\ held' = held
    BY <1>6 DEF Opened
  <2> QED
    BY <2>1, <2>2, CountGoesOn
<1>7. ASSUME NEW w \in Worker, NEW t \in Topic, Publish(w, t) PROVE CountInv'
  <2> DEFINE j == [Idle EXCEPT !.pc = "route", !.topic = t]
  <2>1. j.pc # "release" /\ OwesFor(j) = OwesFor(job[w])
    BY <1>0, <1>7 DEF Publish, Idle, OwesFor
  <2>2. job' = [job EXCEPT ![w] = j] /\ inflight' = inflight /\ chan' = chan /\ held' = held
    BY <1>7 DEF Publish
  <2> HIDE DEF j
  <2> QED
    BY <2>1, <2>2, CountGoesOn
<1>8. ASSUME NEW w \in Worker, Route(w) PROVE CountInv'
  <2> DEFINE t == job[w].topic
             at == Len(log[t]) + 1
             attached == {s \in Sub : topicOf[s] = t}
             given == [s \in attached |-> [sub |-> s, at |-> at, attempt |-> 1]]
  <2>1. /\ Hand(given, installed) /\ job' = [job EXCEPT ![w] = Settled(job[w])]
        /\ held' = held /\ job[w].pc = "route"
    BY <1>8 DEF Route
  <2>2. DOMAIN given \subseteq Sub /\ \A s \in DOMAIN given : given[s] \in Item
    <3>1. t \in Topic
      BY <2>1 DEF TypeInv, JobFields
    <3>2. at \in Nat \ {0} /\ 1 \in 1..AttemptMax
      BY <3>1 DEF TypeInv, TypeOK
    <3> HIDE DEF at
    <3> QED
      BY <3>2 DEF Item
  <2>3. OwesFor(Settled(job[w])) = OwesFor(job[w])
        /\ (Settled(job[w]).pc = "release" => Settled(job[w]).counted)
    BY <1>0, <2>1, CallOwes DEF OwesFor
  <2>4. installed \in BOOLEAN
    BY DEF TypeInv, TypeOK
  <2> HIDE DEF given
  <2> QED
    BY <2>1, <2>2, <2>3, <2>4, CountHandedOn
<1>9. ASSUME NEW w \in Worker, NEW d \in held, Acknowledge(w, d) \/ RejectAfter(w, d)
      PROVE  CountInv'
  <2> DEFINE j0 == [Idle EXCEPT !.counted = d.counted]
  <2>1. /\ job[w].pc = "idle" /\ held' = held \ {d} /\ job' = [job EXCEPT ![w] = Gone(d)]
        /\ inflight' = inflight /\ chan' = chan
    BY <1>9 DEF Acknowledge, RejectAfter
  <2>2. d.counted \in BOOLEAN
    BY DEF TypeInv, TypeOK, Delivery
  <2>3. OwesFor(Gone(d)) = d.counted /\ (Gone(d).pc = "release" => Gone(d).counted)
    <3>1. j0 \in Job /\ j0.counted = d.counted
      BY <2>2 DEF Idle, Job, PC
    <3>2. Gone(d) = Settled(j0)
      BY DEF Gone
    <3> HIDE DEF j0
    <3> QED
      BY <3>1, <3>2, CallOwes
  <2> QED
    BY <2>1, <2>3, CountLetsGo
<1>10. ASSUME NEW w \in Worker, NEW d \in held, Nack(w, d) PROVE CountInv'
  <2> DEFINE j == [Idle EXCEPT !.pc = "reject", !.item = d.item, !.counted = d.counted]
  <2>1. /\ job[w].pc = "idle" /\ held' = held \ {d} /\ job' = [job EXCEPT ![w] = j]
        /\ inflight' = inflight /\ chan' = chan
    BY <1>10 DEF Nack
  <2>2. d.counted \in BOOLEAN
    BY DEF TypeInv, TypeOK, Delivery
  <2>3. OwesFor(j) = d.counted /\ j.pc # "release"
    BY <2>2 DEF OwesFor, Idle
  <2> HIDE DEF j
  <2> QED
    BY <2>1, <2>3, CountLetsGo
<1>11. ASSUME NEW w \in Worker, NEW item \in timers, Fire(w, item) PROVE CountInv'
  <2> DEFINE j == [Idle EXCEPT !.pc = "reject", !.item = item]
  <2>1. j.pc # "release" /\ OwesFor(j) = OwesFor(job[w])
    BY <1>0, <1>11 DEF Fire, Idle, OwesFor
  <2>2. job' = [job EXCEPT ![w] = j] /\ inflight' = inflight /\ chan' = chan /\ held' = held
    BY <1>11 DEF Fire
  <2> HIDE DEF j
  <2> QED
    BY <2>1, <2>2, CountGoesOn
<1>12. ASSUME NEW w \in Worker, Reject(w) PROVE CountInv'
  <2> DEFINE item == job[w].item
             given == [s \in {item.sub} |-> NextAttempt(item)]
             j == [job[w] EXCEPT !.pc = "route", !.topic = policy[item.sub].topic]
  <2>1. job[w].pc = "reject" /\ held' = held
    BY <1>12 DEF Reject
  <2>2. item \in Item /\ item.sub \in Sub
    BY <2>1 DEF TypeInv, JobFields, Item
  <2>3. CASE Spent(item)
    <3>1. /\ job' = [job EXCEPT ![w] = j] /\ inflight' = inflight /\ chan' = chan
      BY <1>12, <2>3 DEF Reject
    <3>2. OwesFor(j) = OwesFor(job[w]) /\ j.pc # "release"
      BY <1>0, <2>1 DEF OwesFor, Job
    <3> HIDE DEF j
    <3> QED
      BY <2>1, <3>1, <3>2, CountGoesOn
  <2>4. CASE ~Spent(item)
    <3>1. Hand(given, installed) /\ job' = [job EXCEPT ![w] = Settled(job[w])]
      BY <1>12, <2>4 DEF Reject
    <3>2. DOMAIN given \subseteq Sub /\ \A s \in DOMAIN given : given[s] \in Item
      BY <2>2 DEF NextAttempt, Item
    <3>3. OwesFor(Settled(job[w])) = OwesFor(job[w])
          /\ (Settled(job[w]).pc = "release" => Settled(job[w]).counted)
      BY <1>0, <2>1, CallOwes DEF OwesFor
    <3>4. installed \in BOOLEAN
      BY DEF TypeInv, TypeOK
    <3> HIDE DEF given
    <3> QED
      BY <2>1, <3>1, <3>2, <3>3, <3>4, CountHandedOn
  <2> QED
    BY <2>3, <2>4
<1>13. ASSUME NEW w \in Worker, Release(w) PROVE CountInv'
  <2>1. /\ job' = [job EXCEPT ![w] = Resume(job[w])] /\ inflight' = inflight - 1
        /\ chan' = chan /\ held' = held /\ job[w].pc = "release"
    BY <1>13 DEF Release
  <2>2. OwesFor(job[w]) /\ ~OwesFor(Resume(job[w])) /\ Resume(job[w]).pc # "release"
    BY <1>0, <2>1, CallOwes DEF CountInv, ReleaseCounted, OwesFor
  <2>3. CountedHanded' = CountedHanded /\ CountedHeld' = CountedHeld
    BY <2>1 DEF CountedHanded, CountedHeld
  <2>4. IsFiniteSet(CountedHanded) /\ IsFiniteSet(CountedHeld)
    BY DEF CountInv
  <2>5. /\ Cardinality(CountedHanded) \in Nat /\ Cardinality(CountedHeld) \in Nat
        /\ inflight \in Int
    BY <2>4, FS_CardinalityType DEF TypeInv, TypeOK
  <2>6. /\ Cardinality(CountedHanded') = Cardinality(CountedHanded) + 0
        /\ Cardinality(CountedHeld') = Cardinality(CountedHeld) + 0
        /\ inflight' = inflight + 0 + 0
                       + IF OwesFor(Resume(job[w])) = OwesFor(job[w]) THEN 0
                         ELSE IF OwesFor(Resume(job[w])) THEN 1 ELSE -1
        /\ IsFiniteSet(CountedHanded') /\ IsFiniteSet(CountedHeld') /\ 0 \in Int
    BY <2>1, <2>2, <2>3, <2>4, <2>5 DEF OwesFor
  <2> QED
    BY <2>1, <2>2, <2>6, CountAdds
<1>14. ASSUME NEW w \in Worker, NEW c \in ConsumerId, Cancel(w, c) PROVE CountInv'
  <2> DEFINE j == [Idle EXCEPT !.pc = "cancel", !.consumer = c]
  <2>1. j.pc # "release" /\ OwesFor(j) = OwesFor(job[w])
    BY <1>0, <1>14 DEF Cancel, Idle, OwesFor
  <2>2. job' = [job EXCEPT ![w] = j] /\ inflight' = inflight /\ chan' = chan /\ held' = held
    BY <1>14 DEF Cancel
  <2> HIDE DEF j
  <2> QED
    BY <2>1, <2>2, CountGoesOn
<1>15. ASSUME NEW w \in Worker, CancelNext(w) PROVE CountInv'
  <2> DEFINE c == job[w].consumer
             h == Head(chan[c])
             j == [job[w] EXCEPT !.pc = "reject", !.item = h.item, !.counted = h.counted]
  <2>1. /\ job' = [job EXCEPT ![w] = j] /\ chan[c] # <<>> /\ chan' = [chan EXCEPT ![c] = Tail(@)]
        /\ inflight' = inflight /\ held' = held /\ job[w].pc = "cancel"
    BY <1>15 DEF CancelNext
  <2>2. c \in ConsumerId
    BY <2>1 DEF TypeInv, JobFields
  <2>3. h.counted \in BOOLEAN
    <3>1. chan[c] \in Seq(Handed)
      BY <2>2 DEF TypeInv, TypeOK
    <3>2. h \in Handed
      BY <2>1, <3>1
    <3> QED
      BY <3>2 DEF Handed
  <2>4. OwesFor(j) = h.counted /\ ~OwesFor(job[w]) /\ j.pc # "release"
    BY <1>0, <2>1, <2>3 DEF OwesFor, Job
  <2> HIDE DEF j, h, c
  <2>5. IsFiniteSet(CountedHanded) /\ IsFiniteSet(CountedHeld)
    BY DEF CountInv
  <2>6. /\ IsFiniteSet(CountedHanded')
        /\ Cardinality(CountedHanded') = Cardinality(CountedHanded) - IF h.counted THEN 1 ELSE 0
    BY <2>1, <2>2, <2>5, CountedTail DEF h
  <2>7. CountedHeld' = CountedHeld
    BY <2>1 DEF CountedHeld
  <2>8. /\ Cardinality(CountedHanded) \in Nat /\ Cardinality(CountedHeld) \in Nat
        /\ inflight \in Int
    BY <2>5, FS_CardinalityType DEF TypeInv, TypeOK
  <2>9. /\ Cardinality(CountedHanded') = Cardinality(CountedHanded) + IF h.counted THEN -1 ELSE 0
        /\ Cardinality(CountedHeld') = Cardinality(CountedHeld) + 0
        /\ inflight' = inflight + (IF h.counted THEN -1 ELSE 0) + 0
                       + IF OwesFor(j) = OwesFor(job[w]) THEN 0
                         ELSE IF OwesFor(j) THEN 1 ELSE -1
        /\ IsFiniteSet(CountedHeld') /\ 0 \in Int /\ (IF h.counted THEN -1 ELSE 0) \in Int
    BY <2>1, <2>3, <2>4, <2>5, <2>6, <2>7, <2>8 DEF OwesFor
  <2> QED
    BY <2>1, <2>4, <2>6, <2>9, CountAdds
<1>16. ASSUME NEW w \in Worker, Cancelled(w) PROVE CountInv'
  <2>1. Idle.pc # "release" /\ OwesFor(Idle) = OwesFor(job[w])
    BY <1>0, <1>16 DEF Cancelled, Idle, OwesFor
  <2>2. job' = [job EXCEPT ![w] = Idle] /\ inflight' = inflight /\ chan' = chan /\ held' = held
    BY <1>16 DEF Cancelled
  <2> QED
    BY <2>1, <2>2, CountGoesOn
<1> QED
  BY <1>1, <1>2, <1>3, <1>4, <1>5, <1>6, <1>7, <1>8, <1>9, <1>10, <1>11, <1>12, <1>13, <1>14,
     <1>15, <1>16
     DEF Next, Proceed, Settle, DropMessage

\* The coordinator's count is exactly the counted deliveries that nobody has
\* settled, in every instance of the transport.
THEOREM CountIsExact == Spec => []InFlightExact
<1>1. Init => TypeInv /\ StrandInv /\ PlaceInv /\ CountInv
  BY TypeInit, StrandInit, PlaceInit, CountInit
<1>2. TypeInv /\ StrandInv /\ PlaceInv /\ CountInv /\ [Next]_vars
      => TypeInv' /\ StrandInv' /\ PlaceInv' /\ CountInv'
  BY TypeStep, StrandStep, PlaceStep, CountStep DEF StrandInv
<1>3. CountInv => InFlightExact
  BY DEF CountInv, InFlightExact, Owing, OwesFor, Owes
<1> QED
  BY <1>1, <1>2, <1>3, PTL DEF Spec

\* What a step of the transport does to the count.
LEMMA CountFalls ==
  ASSUME TypeInv, RotationReads, PlaceInv, [Next]_vars, inflight' < inflight, NEW v \in Worker,
         job'[v] # job[v]
  PROVE  job'[v].item = None
<1> USE DEF subVars, consumerVars, lockVars, countVars, historyVars
<1>1. PICK w \in Worker : Proceed(w)
  <2>1. inflight' # inflight
    BY DEF TypeInv, TypeOK
  <2> QED
    BY <2>1 DEF Next, Settle, DropMessage, Install, Close, Poll, Subscribe, Publish, Acknowledge,
                Nack, RejectAfter, Fire, Cancel, vars
<1>2. ASSUME NEW given, DOMAIN given \subseteq Sub, NEW harness \in BOOLEAN, Hand(given, harness)
      PROVE  FALSE
  <2> DEFINE served == {s \in DOMAIN given : consumers[s] # {}}
  <2>1. inflight' = inflight + IF harness THEN Cardinality(served) ELSE 0
    BY <1>2, HandGives
  <2>2. Cardinality(served) \in Nat
    <3>1. served \in SUBSET Sub
      BY <1>2
    <3>2. IsFiniteSet(served)
      BY <3>1, FS_Subset
    <3> QED
      BY <3>2, FS_CardinalityType
  <2> HIDE DEF served
  <2> QED
    BY <2>1, <2>2 DEF TypeInv, TypeOK
<1>3. ~Route(w)
  <2> SUFFICES ASSUME Route(w) PROVE FALSE
    OBVIOUS
  <2> DEFINE t == job[w].topic
             given == [s \in {r \in Sub : topicOf[r] = t} |->
                         [sub |-> s, at |-> Len(log[t]) + 1, attempt |-> 1]]
  <2>1. Hand(given, installed) /\ DOMAIN given \subseteq Sub /\ installed \in BOOLEAN
    BY DEF Route, TypeInv, TypeOK
  <2> HIDE DEF given
  <2> QED
    BY <1>2, <2>1
<1>4. ~Drain(w)
  <2> SUFFICES ASSUME Drain(w) PROVE FALSE
    OBVIOUS
  <2> DEFINE given == [s \in {Head(draining).sub} |-> Head(draining)]
  <2>1. Hand(given, job[w].counted) /\ draining # <<>>
    BY DEF Drain
  <2>2. Head(draining).sub \in Sub /\ job[w].counted \in BOOLEAN
    <3>1. Head(draining) \in Item
      BY <2>1 DEF TypeInv, TypeOK
    <3> QED
      BY <3>1 DEF Item, TypeInv, TypeOK, Job
  <2>3. DOMAIN given \subseteq Sub
    BY <2>2
  <2> HIDE DEF given
  <2> QED
    BY <1>2, <2>1, <2>2, <2>3
<1>5. ~Reject(w)
  <2> SUFFICES ASSUME Reject(w) PROVE FALSE
    OBVIOUS
  <2> DEFINE item == job[w].item
             given == [s \in {item.sub} |-> NextAttempt(item)]
  <2>1. Hand(given, installed) /\ job[w].pc = "reject"
    BY DEF Reject, TypeInv, TypeOK
  <2>2. item.sub \in Sub /\ installed \in BOOLEAN
    BY <2>1 DEF TypeInv, TypeOK, JobFields, Item
  <2>3. DOMAIN given \subseteq Sub
    BY <2>2
  <2> HIDE DEF given
  <2> QED
    BY <1>2, <2>1, <2>2, <2>3
<1>6. Release(w)
  <2>1. inflight' # inflight
    BY DEF TypeInv, TypeOK
  <2> QED
    BY <1>1, <1>3, <1>4, <1>5, <2>1 DEF Proceed, Open, Opened, CancelNext, Cancelled
<1>7. job[w].item = None /\ job[w] \in Job
  BY <1>6 DEF Release, PlaceInv, JobHolds, TypeInv, TypeOK
<1>8. v = w /\ job'[v] = Resume(job[w])
  BY <1>6 DEF Release, TypeInv, TypeOK
<1> QED
  BY <1>7, <1>8, CallItems

\* A count that falls has nothing still to come: the thread that lowers it holds
\* no message.
THEOREM CountFallsLast == Spec => ReleasedLast
<1>1. Init => TypeInv /\ StrandInv /\ PlaceInv
  BY TypeInit, StrandInit, PlaceInit
<1>2. TypeInv /\ StrandInv /\ PlaceInv /\ [Next]_vars => TypeInv' /\ StrandInv' /\ PlaceInv'
  BY TypeStep, StrandStep, PlaceStep
<1>3. TypeInv /\ StrandInv /\ PlaceInv /\ [Next]_vars =>
      [inflight' < inflight => \A w \in Worker : job'[w] # job[w] => job'[w].item = None]_vars
  BY CountFalls DEF StrandInv
<1> QED
  BY <1>1, <1>2, <1>3, PTL DEF Spec, ReleasedLast

--------------------------------------------------------------------------------
(***************************************************************************)
(* Part 6: RoutesAgree.  The prediction counts the consumers of the        *)
(* rotation on from the cursor; the publish takes the number of that rank. *)
(* Both come to the same consumer because Nth inverts the rank.            *)
(***************************************************************************)

\* The rank of a number in a finite set, and the number of that rank.
LEMMA RankNth ==
  ASSUME NEW S \in SUBSET Int, IsFiniteSet(S), NEW c \in S
  PROVE  /\ Cardinality({x \in S : x < c}) \in 0..(Cardinality(S) - 1)
         /\ Nth(S, Cardinality({x \in S : x < c})) = c
         /\ \A d \in S : d < c <=> Cardinality({x \in S : x < d}) < Cardinality({x \in S : x < c})
<1> DEFINE n == Cardinality(S)
           Below(x) == {y \in S : y < x}
<1>1. n \in Nat
  BY FS_CardinalityType
<1>2. ASSUME NEW x \in S
      PROVE  IsFiniteSet(Below(x)) /\ Cardinality(Below(x)) \in Nat
  <2>1. Below(x) \in SUBSET S
    OBVIOUS
  <2> QED
    BY <2>1, FS_Subset, FS_CardinalityType
<1>3. ASSUME NEW x \in S PROVE Cardinality(Below(x)) \in 0..(n - 1)
  <2>1. Below(x) \in SUBSET (S \ {x})
    OBVIOUS
  <2>2. IsFiniteSet(S \ {x}) /\ Cardinality(S \ {x}) = n - 1
    BY FS_RemoveElement
  <2>3. Cardinality(Below(x)) <= Cardinality(S \ {x})
    BY <2>1, <2>2, FS_Subset
  <2> HIDE DEF Below, n
  <2> QED
    BY <1>1, <1>2, <2>2, <2>3
<1>4. ASSUME NEW x \in S, NEW y \in S, x < y
      PROVE  Cardinality(Below(x)) < Cardinality(Below(y))
  <2>1. Below(x) \cup {x} \in SUBSET Below(y) /\ x \notin Below(x)
    BY <1>4
  <2>2. Cardinality(Below(x) \cup {x})
        = IF x \in Below(x) THEN Cardinality(Below(x)) ELSE Cardinality(Below(x)) + 1
    <3>1. IsFiniteSet(Below(x))
      BY <1>2
    <3> HIDE DEF Below
    <3> QED
      BY <3>1, FS_AddElement
  <2>3. Cardinality(Below(x) \cup {x}) <= Cardinality(Below(y))
    BY <1>2, <2>1, FS_Subset
  <2> HIDE DEF Below
  <2> QED
    BY <1>2, <2>1, <2>2, <2>3
<1>5. Nth(S, Cardinality(Below(c))) = c
  <2>1. Nth(S, Cardinality(Below(c)))
        = CHOOSE d \in S : Cardinality(Below(d)) = Cardinality(Below(c))
    BY DEF Nth
  <2> DEFINE d == CHOOSE d \in S : Cardinality(Below(d)) = Cardinality(Below(c))
  <2>2. d \in S /\ Cardinality(Below(d)) = Cardinality(Below(c))
    OBVIOUS
  <2> HIDE DEF d, Below
  <2>3. ~(d < c) /\ ~(c < d)
    BY <1>2, <1>4, <2>2
  <2>4. d = c
    BY <2>2, <2>3
  <2> QED
    BY <2>1, <2>4 DEF d
<1>6. \A d \in S : d < c <=> Cardinality(Below(d)) < Cardinality(Below(c))
  <2> SUFFICES ASSUME NEW d \in S
               PROVE  d < c <=> Cardinality(Below(d)) < Cardinality(Below(c))
    OBVIOUS
  <2>1. d < c \/ d = c \/ c < d
    OBVIOUS
  <2> HIDE DEF Below
  <2> QED
    BY <1>2, <1>4, <2>1
<1> QED
  BY <1>3, <1>5, <1>6

LEMMA OpenConsumersFinite ==
  ASSUME TypeInv
  PROVE  /\ OpenConsumers \in SUBSET Int /\ IsFiniteSet(OpenConsumers)
         /\ Cardinality(OpenConsumers) \in Nat
         /\ \A s \in Sub : /\ consumers[s] \in SUBSET Int /\ IsFiniteSet(consumers[s])
                           /\ Cardinality(consumers[s]) \in Nat
<1>1. IsFiniteSet(ConsumerId)
  BY SMTT(30), FS_Interval DEF ConsumerId
<1>2. OpenConsumers \in SUBSET ConsumerId /\ \A s \in Sub : consumers[s] \in SUBSET ConsumerId
  BY DEF OpenConsumers, TypeInv, TypeOK
<1>3. ConsumerId \in SUBSET Int
  BY DEF ConsumerId
<1>4. IsFiniteSet(OpenConsumers)
  BY <1>1, <1>2, FS_Subset
<1>5. \A s \in Sub : IsFiniteSet(consumers[s])
  BY <1>1, <1>2, FS_Subset
<1> QED
  BY <1>2, <1>3, <1>4, <1>5, FS_CardinalityType

LEMMA OpenConsumersAre ==
  ASSUME TypeInv, RotationReads
  PROVE  \A s \in Sub : \A c : c \in consumers[s] <=> c \in OpenConsumers /\ subOf[c] = s
  BY DEF OpenConsumers, RotationReads

\* As many consumers of a subscription are listed before one of it as are ahead
\* of it in its rotation.
LEMMA ListedBefore ==
  ASSUME TypeInv, RotationReads, NEW i \in 1..Cardinality(OpenConsumers),
         NEW s \in Sub, s = subOf[Nth(OpenConsumers, i - 1)]
  PROVE  Cardinality({j \in DOMAIN Listing : j < i /\ Listing[j] = s})
         = Cardinality({x \in consumers[s] : x < Nth(OpenConsumers, i - 1)})
<1> DEFINE O == OpenConsumers
           n == Cardinality(O)
           at(j) == Nth(O, j - 1)
           rank(c) == Cardinality({x \in O : x < c})
           A == {x \in consumers[s] : x < at(i)}
           J == {j \in DOMAIN Listing : j < i /\ Listing[j] = s}
           f == [j \in J |-> at(j)]
<1>1. O \in SUBSET Int /\ IsFiniteSet(O) /\ n \in Nat
  BY OpenConsumersFinite
<1>2. ASSUME NEW j \in 1..n PROVE at(j) \in O /\ rank(at(j)) = j - 1
  <2>1. j - 1 \in 0..(n - 1)
    BY <1>1
  <2> HIDE DEF n, O
  <2> QED
    BY <1>1, <2>1, NthIn DEF n
<1>3. ASSUME NEW c \in O
      PROVE  /\ rank(c) \in 0..(n - 1) /\ Nth(O, rank(c)) = c
             /\ \A d \in O : d < c <=> rank(d) < rank(c)
  BY <1>1, RankNth
<1>4. DOMAIN Listing = 1..n /\ \A j \in 1..n : Listing[j] = subOf[at(j)]
  BY DEF Listing
<1>5. \A c : c \in consumers[s] <=> c \in O /\ subOf[c] = s
  BY OpenConsumersAre
<1>6. i \in 1..n /\ \A j : j \in J <=> j \in 1..n /\ j < i /\ subOf[at(j)] = s
  BY <1>4
<1>7. \A c : c \in A <=> c \in O /\ subOf[c] = s /\ c < at(i)
  BY <1>5
<1> HIDE DEF O, n, at, rank, A, J
<1>8. \A j \in J : at(j) \in A
  <2> SUFFICES ASSUME NEW j \in J PROVE at(j) \in A
    OBVIOUS
  <2>1. rank(at(j)) = j - 1 /\ rank(at(i)) = i - 1 /\ at(j) \in O /\ at(i) \in O
    BY <1>2, <1>6
  <2>2. j \in Int /\ i \in Int /\ j < i
    BY <1>6
  <2>3. at(j) < at(i)
    BY <1>3, <2>1, <2>2
  <2> QED
    BY <1>6, <1>7, <2>1, <2>3
<1>9. \A j, k \in J : at(j) = at(k) => j = k
  <2> SUFFICES ASSUME NEW j \in J, NEW k \in J, at(j) = at(k) PROVE j = k
    OBVIOUS
  <2>1. rank(at(j)) = j - 1 /\ rank(at(k)) = k - 1 /\ j \in Int /\ k \in Int
    BY <1>2, <1>6
  <2> QED
    BY <2>1
<1>10. \A c \in A : \E j \in J : at(j) = c
  <2> SUFFICES ASSUME NEW c \in A PROVE \E j \in J : at(j) = c
    OBVIOUS
  <2>1. c \in O /\ subOf[c] = s /\ c < at(i) /\ at(i) \in O /\ rank(at(i)) = i - 1
    BY <1>2, <1>6, <1>7
  <2>2. rank(c) \in 0..(n - 1) /\ Nth(O, rank(c)) = c /\ rank(c) < i - 1
    BY <1>3, <2>1
  <2>3. rank(c) + 1 \in 1..n /\ (rank(c) + 1) - 1 = rank(c) /\ rank(c) + 1 < i
    BY <1>1, <1>6, <2>2
  <2>4. at(rank(c) + 1) = c
    BY <2>2, <2>3 DEF at
  <2>5. rank(c) + 1 \in J
    BY <1>6, <2>1, <2>3, <2>4
  <2> QED
    BY <2>4, <2>5
<1>11. ExistsBijection(J, A)
  <2>1. f \in [J -> A] /\ (\A j, k \in J : f[j] = f[k] => j = k) /\ \A c \in A : \E j \in J : f[j] = c
    BY <1>8, <1>9, <1>10
  <2> HIDE DEF f
  <2>2. f \in Bijection(J, A)
    BY <2>1 DEF Bijection, Injection, IsInjective, Surjection
  <2> QED
    BY <2>2 DEF ExistsBijection
<1>12. IsFiniteSet(J)
  <2>1. J \in SUBSET (1..n)
    BY <1>6
  <2>2. IsFiniteSet(1..n)
    <3>1. 1 \in Int /\ n \in Int
      BY <1>1
    <3> QED
      BY <3>1, FS_Interval
  <2> QED
    BY <2>1, <2>2, FS_Subset
<1>13. Cardinality(A) = Cardinality(J)
  BY <1>11, <1>12, FS_Bijection
<1> QED
  BY <1>13 DEF A, J, at, O

\* Where a publish goes is where routes() says it goes.
LEMMA RoutesForetell ==
  ASSUME TypeInv, RotationReads, NEW w \in Worker, Route(w)
  PROVE  {c \in ConsumerId : chan'[c] # chan[c]}
         = {Nth(OpenConsumers, i - 1) : i \in Routes(job[w].topic, Listing)}
<1> DEFINE t == job[w].topic
           O == OpenConsumers
           n == Cardinality(O)
           at(i) == Nth(O, i - 1)
           e(s) == [sub |-> s, at |-> Len(log[t]) + 1, attempt |-> 1]
           given == [s \in {r \in Sub : topicOf[r] = t} |-> e(s)]
           turnOf(s) == turn[s] % Cardinality(consumers[s])
           gets(c) == /\ subOf[c] \in Sub /\ topicOf[subOf[c]] = t
                      /\ consumers[subOf[c]] # {} /\ c = NextConsumer(subOf[c])
<1>1. Hand(given, installed) /\ DOMAIN given \subseteq Sub /\ installed \in BOOLEAN
  BY DEF Route, TypeInv, TypeOK
<1>2. \A c \in ConsumerId :
        chan'[c] = IF /\ subOf[c] \in DOMAIN given /\ consumers[subOf[c]] # {}
                      /\ c = NextConsumer(subOf[c])
                   THEN Append(chan[c], [item |-> given[subOf[c]], counted |-> installed])
                   ELSE chan[c]
  <2> HIDE DEF given
  <2> QED
    BY <1>1, HandGives
<1>3. ASSUME NEW c \in ConsumerId PROVE chan'[c] # chan[c] <=> gets(c)
  <2>1. subOf[c] \in DOMAIN given <=> subOf[c] \in Sub /\ topicOf[subOf[c]] = t
    OBVIOUS
  <2>2. CASE gets(c)
    <3> DEFINE h == [item |-> given[subOf[c]], counted |-> installed]
    <3>1. chan'[c] = Append(chan[c], h)
      BY <1>2, <2>1, <2>2
    <3>2. chan[c] \in Seq(Handed)
      BY DEF TypeInv, TypeOK
    <3> HIDE DEF h
    <3>3. Len(Append(chan[c], h)) = Len(chan[c]) + 1 /\ Len(chan[c]) \in Nat
      BY <3>2
    <3> QED
      BY <2>2, <3>1, <3>3
  <2>3. CASE ~gets(c)
    BY <1>2, <2>1, <2>3
  <2> QED
    BY <2>2, <2>3
<1>4. O \in SUBSET Int /\ IsFiniteSet(O) /\ n \in Nat /\ O \subseteq ConsumerId
  BY OpenConsumersFinite, SMTT(30) DEF OpenConsumers, TypeInv, TypeOK
<1>5. ASSUME NEW i \in 1..n PROVE at(i) \in O
  <2>1. i - 1 \in 0..(n - 1)
    BY <1>4
  <2> HIDE DEF n, O
  <2> QED
    BY <1>4, <2>1, NthIn DEF n
<1>6. ASSUME NEW c \in O
      PROVE  subOf[c] \in Sub /\ c \in consumers[subOf[c]] /\ consumers[subOf[c]] # {}
  BY DEF OpenConsumers, RotationReads
<1>7. ASSUME NEW s \in Sub, NEW c \in consumers[s]
      PROVE  c = NextConsumer(s) <=> Cardinality({x \in consumers[s] : x < c}) = turnOf(s)
  <2>1. /\ consumers[s] \in SUBSET Int /\ IsFiniteSet(consumers[s])
        /\ Cardinality(consumers[s]) \in Nat \ {0} /\ turn[s] \in Nat
    BY OpenConsumersFinite, FS_EmptySet DEF TypeInv, TypeOK
  <2>2. turnOf(s) \in 0..(Cardinality(consumers[s]) - 1)
    BY <2>1
  <2> HIDE DEF turnOf
  <2>3. Cardinality({x \in consumers[s] : x < Nth(consumers[s], turnOf(s))}) = turnOf(s)
    BY <2>1, <2>2, NthIn
  <2>4. Nth(consumers[s], Cardinality({x \in consumers[s] : x < c})) = c
    BY <2>1, RankNth
  <2>5. NextConsumer(s) = Nth(consumers[s], turnOf(s))
    BY DEF NextConsumer, turnOf
  <2> QED
    BY <2>3, <2>4, <2>5
<1>8. ASSUME NEW i \in 1..n PROVE i \in Routes(t, Listing) <=> gets(at(i))
  <2> DEFINE s == subOf[at(i)]
  <2>1. /\ DOMAIN Listing = 1..n /\ Listing[i] = s
    BY DEF Listing
  <2>2. s \in Sub /\ at(i) \in consumers[s] /\ consumers[s] # {}
    BY <1>5, <1>6
  <2>3. Cardinality({j \in DOMAIN Listing : j < i /\ Listing[j] = s})
        = Cardinality({x \in consumers[s] : x < at(i)})
    BY <2>2, ListedBefore
  <2>4. i \in Routes(t, Listing)
        <=> /\ topicOf[s] = t
            /\ Cardinality({j \in DOMAIN Listing : j < i /\ Listing[j] = s}) = turnOf(s)
    BY <2>1, <2>2 DEF Routes
  <2>5. at(i) = NextConsumer(s) <=> Cardinality({x \in consumers[s] : x < at(i)}) = turnOf(s)
    BY <1>7, <2>2
  <2> HIDE DEF at, turnOf
  <2> QED
    BY <2>2, <2>3, <2>4, <2>5
<1>9. \A i : i \in Routes(t, Listing) => i \in 1..n
  BY DEF Routes, Listing
<1>10. ASSUME NEW c \in ConsumerId, gets(c) PROVE \E i \in 1..n : at(i) = c
  <2> DEFINE k == Cardinality({x \in O : x < c})
  <2>1. c \in O
    <3>1. c \in consumers[subOf[c]] /\ subOf[c] \in Sub
      BY <1>10, NextConsumerIn
    <3> QED
      BY <3>1 DEF OpenConsumers
  <2>2. k \in 0..(n - 1) /\ Nth(O, k) = c
    BY <1>4, <2>1, RankNth
  <2> HIDE DEF k, n
  <2>3. k + 1 \in 1..n /\ (k + 1) - 1 = k
    BY <1>4, <2>2
  <2>4. at(k + 1) = c
    BY <2>2, <2>3
  <2> QED
    BY <2>3, <2>4
<1> HIDE DEF gets, at, n, O, t
<1>11. ASSUME NEW c \in ConsumerId, chan'[c] # chan[c]
       PROVE  c \in {at(i) : i \in Routes(t, Listing)}
  <2>1. PICK i \in 1..n : at(i) = c
    BY <1>3, <1>10, <1>11
  <2> QED
    BY <1>3, <1>8, <1>11, <2>1
<1>12. ASSUME NEW i \in Routes(t, Listing)
       PROVE  at(i) \in ConsumerId /\ chan'[at(i)] # chan[at(i)]
  BY <1>3, <1>4, <1>5, <1>8, <1>9
<1>13. {c \in ConsumerId : chan'[c] # chan[c]} = {at(i) : i \in Routes(t, Listing)}
  BY <1>11, <1>12
<1> QED
  BY <1>13 DEF at, O, t

\* What routes() lists before a publish is where the publish goes, in every
\* instance of the transport.
THEOREM RoutesForetold == Spec => RoutesAgree
<1>1. Init => TypeInv /\ StrandInv
  BY TypeInit, StrandInit
<1>2. TypeInv /\ StrandInv /\ [Next]_vars => TypeInv' /\ StrandInv'
  BY TypeStep, StrandStep
<1>3. TypeInv /\ StrandInv =>
      [\A w \in Worker :
         Route(w) => {c \in ConsumerId : chan'[c] # chan[c]}
                     = {Nth(OpenConsumers, i - 1) : i \in Routes(job[w].topic, Listing)}]_vars
  BY RoutesForetell DEF StrandInv
<1> QED
  BY <1>1, <1>2, <1>3, PTL DEF Spec, RoutesAgree

--------------------------------------------------------------------------------
(***************************************************************************)
(* Part 7: FirstDeliveriesInOrder.  What a consumer is handed of its       *)
(* subscription's first deliveries comes before what is still drained and, *)
(* since a copy in a place is one the log already holds, before what a     *)
(* publish adds.  A redelivery is no first delivery: its attempt went up,  *)
(* which needs an attempt below AttemptMax.                                *)
(***************************************************************************)
Before(a, b) == a.attempt = 1 /\ b.attempt = 1 => a.at < b.at

BacklogInOrder ==
    \A s \in Sub : \A i, j \in DOMAIN backlog[s] : i < j => Before(backlog[s][i], backlog[s][j])

DrainInOrder == \A i, j \in DOMAIN draining : i < j => Before(draining[i], draining[j])

\* What is drained goes to the rotation of its subscription, behind what each
\* consumer there has.
DrainedNext ==
    \A k \in DOMAIN draining :
        /\ consumers[draining[k].sub] # {}
        /\ \A c \in consumers[draining[k].sub] : \A i \in DOMAIN chan[c] :
              Before(chan[c][i].item, draining[k])

ChanOwn == \A c \in ConsumerId : \A i \in DOMAIN chan[c] : chan[c][i].item.sub = subOf[c]

UnopenedEmpty == \A c \in ConsumerId : phase[c] = "unopened" => chan[c] = <<>>

FirstInv ==
    /\ FirstDeliveriesInOrder
    /\ BacklogInOrder
    /\ DrainInOrder
    /\ DrainedNext
    /\ ChanOwn
    /\ UnopenedEmpty

\* What Hand leaves behind: in a channel or in a backlog, an item goes behind all
\* that it does not come before.
LEMMA HandInOrder ==
  ASSUME TypeInv, RotationReads, FirstInv, NEW given, DOMAIN given \subseteq Sub,
         \A s \in DOMAIN given : given[s] \in Item /\ given[s].sub = s,
         NEW harness \in BOOLEAN, Hand(given, harness),
         UNCHANGED <<consumers, subOf, phase>>,
         \A s \in DOMAIN given : \A c \in consumers[s] : \A i \in DOMAIN chan[c] :
            Before(chan[c][i].item, given[s]),
         \A s \in DOMAIN given : consumers[s] = {} => \A i \in DOMAIN backlog[s] :
            Before(backlog[s][i], given[s])
  PROVE  /\ FirstDeliveriesInOrder' /\ BacklogInOrder' /\ ChanOwn' /\ UnopenedEmpty'
         /\ \A c \in ConsumerId : \A i \in DOMAIN chan'[c] :
               \/ i \in DOMAIN chan[c] /\ chan'[c][i] = chan[c][i]
               \/ subOf[c] \in DOMAIN given /\ chan'[c][i].item = given[subOf[c]]
<1> DEFINE gets(c) == /\ subOf[c] \in DOMAIN given /\ consumers[subOf[c]] # {}
                      /\ c = NextConsumer(subOf[c])
           keeps(s) == s \in DOMAIN given /\ consumers[s] = {}
           h(c) == [item |-> given[subOf[c]], counted |-> harness]
<1>1. /\ \A c \in ConsumerId : chan'[c] = IF gets(c) THEN Append(chan[c], h(c)) ELSE chan[c]
      /\ \A s \in Sub : backlog'[s] = IF keeps(s) THEN Append(backlog[s], given[s]) ELSE backlog[s]
  BY HandGives
<1>2. /\ \A c \in ConsumerId : chan[c] \in Seq(Handed)
      /\ \A s \in Sub : backlog[s] \in Seq(Item)
  BY DEF TypeInv, TypeOK
<1>3. ASSUME NEW c \in ConsumerId, gets(c)
      PROVE  /\ h(c) \in Handed /\ h(c).item = given[subOf[c]]
             /\ given[subOf[c]].sub = subOf[c] /\ subOf[c] \in DOMAIN given
             /\ c \in consumers[subOf[c]] /\ phase[c] # "unopened"
  <2>1. c \in consumers[subOf[c]]
    BY <1>3, NextConsumerIn
  <2> QED
    BY <1>3, <2>1 DEF Handed, RotationReads
<1> HIDE DEF gets, keeps, h
<1>4. ASSUME NEW c \in ConsumerId, gets(c)
      PROVE  /\ DOMAIN chan'[c] = 1..(Len(chan[c]) + 1) /\ DOMAIN chan[c] = 1..Len(chan[c])
             /\ Len(chan[c]) \in Nat
             /\ \A i \in 1..Len(chan[c]) : chan'[c][i] = chan[c][i]
             /\ chan'[c][Len(chan[c]) + 1] = h(c)
  <2>1. chan'[c] = Append(chan[c], h(c))
    BY <1>1, <1>4
  <2> QED
    BY <1>2, <1>3, <1>4, <2>1, AppendAt
<1>5. ASSUME NEW c \in ConsumerId, ~gets(c) PROVE chan'[c] = chan[c]
  BY <1>1, <1>5
<1>6. FirstDeliveriesInOrder'
  <2> SUFFICES ASSUME NEW c \in ConsumerId, NEW i \in DOMAIN chan'[c], NEW j \in DOMAIN chan'[c],
                      i < j, chan'[c][i].item.attempt = 1, chan'[c][j].item.attempt = 1
               PROVE  chan'[c][i].item.at < chan'[c][j].item.at
    BY DEF FirstDeliveriesInOrder
  <2>1. CASE gets(c)
    <3>1. i \in 1..Len(chan[c]) /\ chan'[c][i] = chan[c][i] /\ i \in DOMAIN chan[c]
      BY <1>4, <2>1
    <3>2. CASE j \in 1..Len(chan[c])
      <4>1. chan'[c][j] = chan[c][j] /\ j \in DOMAIN chan[c]
        BY <1>4, <2>1, <3>2
      <4> QED
        BY <3>1, <4>1 DEF FirstInv, FirstDeliveriesInOrder
    <3>3. CASE j = Len(chan[c]) + 1
      <4>1. chan'[c][j].item = given[subOf[c]]
        BY <1>3, <1>4, <2>1, <3>3
      <4>2. Before(chan[c][i].item, given[subOf[c]])
        BY <1>3, <2>1, <3>1
      <4> QED
        BY <3>1, <4>1, <4>2 DEF Before
    <3> QED
      BY <1>4, <2>1, <3>2, <3>3
  <2>2. CASE ~gets(c)
    BY <1>5, <2>2 DEF FirstInv, FirstDeliveriesInOrder
  <2> QED
    BY <2>1, <2>2
<1>7. BacklogInOrder'
  <2> SUFFICES ASSUME NEW s \in Sub, NEW i \in DOMAIN backlog'[s], NEW j \in DOMAIN backlog'[s],
                      i < j
               PROVE  Before(backlog'[s][i], backlog'[s][j])
    BY DEF BacklogInOrder, Before
  <2>1. CASE keeps(s)
    <3>1. given[s] \in Item /\ s \in DOMAIN given /\ consumers[s] = {}
      BY <2>1 DEF keeps
    <3>2. backlog'[s] = Append(backlog[s], given[s])
      BY <1>1, <2>1
    <3>3. /\ DOMAIN backlog'[s] = 1..(Len(backlog[s]) + 1)
          /\ DOMAIN backlog[s] = 1..Len(backlog[s]) /\ Len(backlog[s]) \in Nat
          /\ \A k \in 1..Len(backlog[s]) : backlog'[s][k] = backlog[s][k]
          /\ backlog'[s][Len(backlog[s]) + 1] = given[s]
      BY <1>2, <3>1, <3>2, AppendAt
    <3>4. i \in DOMAIN backlog[s] /\ backlog'[s][i] = backlog[s][i]
      BY <3>3
    <3>5. CASE j \in 1..Len(backlog[s])
      <4>1. j \in DOMAIN backlog[s] /\ backlog'[s][j] = backlog[s][j]
        BY <3>3, <3>5
      <4> QED
        BY <3>4, <4>1 DEF FirstInv, BacklogInOrder
    <3>6. CASE j = Len(backlog[s]) + 1
      BY <3>1, <3>3, <3>4, <3>6
    <3> QED
      BY <3>3, <3>5, <3>6
  <2>2. CASE ~keeps(s)
    <3>1. backlog'[s] = backlog[s]
      BY <1>1, <2>2
    <3> QED
      BY <3>1 DEF FirstInv, BacklogInOrder
  <2> QED
    BY <2>1, <2>2
<1>8. ASSUME NEW c \in ConsumerId, NEW i \in DOMAIN chan'[c]
      PROVE  \/ i \in DOMAIN chan[c] /\ chan'[c][i] = chan[c][i]
             \/ subOf[c] \in DOMAIN given /\ chan'[c][i].item = given[subOf[c]]
                /\ given[subOf[c]].sub = subOf[c]
  <2>1. CASE gets(c)
    <3>1. i \in 1..Len(chan[c]) \/ i = Len(chan[c]) + 1
      BY <1>4, <2>1
    <3> QED
      BY <1>3, <1>4, <2>1, <3>1
  <2>2. CASE ~gets(c)
    BY <1>5, <2>2
  <2> QED
    BY <2>1, <2>2
<1>9. ChanOwn'
  <2> SUFFICES ASSUME NEW c \in ConsumerId, NEW i \in DOMAIN chan'[c]
               PROVE  chan'[c][i].item.sub = subOf[c]
    BY DEF ChanOwn
  <2> QED
    BY <1>8 DEF FirstInv, ChanOwn
<1>10. UnopenedEmpty'
  <2> SUFFICES ASSUME NEW c \in ConsumerId, phase[c] = "unopened" PROVE chan'[c] = <<>>
    BY DEF UnopenedEmpty
  <2>1. ~gets(c)
    BY <1>3
  <2> QED
    BY <1>5, <2>1 DEF FirstInv, UnopenedEmpty
<1> QED
  BY <1>6, <1>7, <1>8, <1>9, <1>10

\* A channel gives its first.
LEMMA TailInOrder ==
  ASSUME TypeInv, FirstInv, NEW c \in ConsumerId, chan[c] # <<>>,
         chan' = [chan EXCEPT ![c] = Tail(@)],
         UNCHANGED <<backlog, draining, consumers, subOf, phase>>
  PROVE  FirstInv'
<1>1. /\ chan'[c] = Tail(chan[c]) /\ \A b \in ConsumerId \ {c} : chan'[b] = chan[b]
      /\ chan[c] \in Seq(Handed)
  BY DEF TypeInv, TypeOK
<1>2. /\ DOMAIN Tail(chan[c]) = 1..(Len(chan[c]) - 1) /\ DOMAIN chan[c] = 1..Len(chan[c])
      /\ Len(chan[c]) \in Nat \ {0}
      /\ \A i \in 1..(Len(chan[c]) - 1) : Tail(chan[c])[i] = chan[c][i + 1]
  BY <1>1, TailShift
<1>3. ASSUME NEW i \in DOMAIN chan'[c]
      PROVE  i \in Int /\ i + 1 \in DOMAIN chan[c] /\ chan'[c][i] = chan[c][i + 1]
  <2>1. i \in 1..(Len(chan[c]) - 1)
    BY <1>1, <1>2
  <2>2. i \in Int /\ i + 1 \in 1..Len(chan[c])
    BY <1>2, <2>1
  <2>3. Tail(chan[c])[i] = chan[c][i + 1]
    BY <1>2, <2>1
  <2>4. i + 1 \in DOMAIN chan[c]
    BY <1>2, <2>2
  <2> QED
    BY <1>1, <2>2, <2>3, <2>4
<1>4. ASSUME NEW b \in ConsumerId, NEW i \in DOMAIN chan'[b]
      PROVE  \E k \in DOMAIN chan[b] : chan'[b][i] = chan[b][k]
  BY <1>1, <1>3
<1>5. FirstDeliveriesInOrder'
  <2> SUFFICES ASSUME NEW b \in ConsumerId, NEW i \in DOMAIN chan'[b], NEW j \in DOMAIN chan'[b],
                      i < j, chan'[b][i].item.attempt = 1, chan'[b][j].item.attempt = 1
               PROVE  chan'[b][i].item.at < chan'[b][j].item.at
    BY DEF FirstDeliveriesInOrder
  <2>1. CASE b = c
    <3>1. /\ i + 1 \in DOMAIN chan[c] /\ j + 1 \in DOMAIN chan[c] /\ i + 1 < j + 1
          /\ chan'[c][i] = chan[c][i + 1] /\ chan'[c][j] = chan[c][j + 1]
      BY <1>3, <2>1
    <3> QED
      BY <2>1, <3>1 DEF FirstInv, FirstDeliveriesInOrder
  <2>2. CASE b # c
    BY <1>1, <2>2 DEF FirstInv, FirstDeliveriesInOrder
  <2> QED
    BY <2>1, <2>2
<1>6. ChanOwn'
  <2> SUFFICES ASSUME NEW b \in ConsumerId, NEW i \in DOMAIN chan'[b]
               PROVE  chan'[b][i].item.sub = subOf[b]
    BY DEF ChanOwn
  <2> QED
    BY <1>4 DEF FirstInv, ChanOwn
<1>7. UnopenedEmpty'
  <2> SUFFICES ASSUME NEW b \in ConsumerId, phase[b] = "unopened" PROVE chan'[b] = <<>>
    BY DEF UnopenedEmpty
  <2> QED
    BY <1>1 DEF FirstInv, UnopenedEmpty
<1>8. DrainedNext'
  <2> SUFFICES ASSUME NEW k \in DOMAIN draining
               PROVE  /\ consumers[draining[k].sub] # {}
                      /\ \A b \in consumers[draining[k].sub] : \A i \in DOMAIN chan'[b] :
                            Before(chan'[b][i].item, draining[k])
    BY DEF DrainedNext, Before
  <2>1. draining[k].sub \in Sub
    <3>1. draining[k] \in Item
      BY DEF TypeInv, TypeOK
    <3> QED
      BY <3>1 DEF Item
  <2>2. consumers[draining[k].sub] \subseteq ConsumerId
    BY <2>1 DEF TypeInv, TypeOK
  <2> QED
    BY <1>4, <2>2 DEF FirstInv, DrainedNext
<1>9. BacklogInOrder' /\ DrainInOrder'
  BY DEF FirstInv, BacklogInOrder, DrainInOrder, Before
<1> QED
  BY <1>5, <1>6, <1>7, <1>8, <1>9 DEF FirstInv

\* A step that moves no message.
LEMMA OrderStill ==
  ASSUME FirstInv, UNCHANGED <<chan, backlog, draining, subOf>>,
         consumers' = consumers \/ draining = <<>>,
         \A c \in ConsumerId : phase'[c] = "unopened" => phase[c] = "unopened"
  PROVE  FirstInv'
<1>1. FirstDeliveriesInOrder' /\ BacklogInOrder' /\ DrainInOrder' /\ ChanOwn' /\ UnopenedEmpty'
  BY DEF FirstInv, FirstDeliveriesInOrder, BacklogInOrder, DrainInOrder, ChanOwn, UnopenedEmpty,
         Before
<1>2. DrainedNext'
  BY DEF FirstInv, DrainedNext, Before
<1> QED
  BY <1>1, <1>2 DEF FirstInv

\* A copy that a channel or a backlog holds is one the log of its topic holds.
LEMMA PlacedInLog ==
  ASSUME TypeInv, PlaceInv, NEW s \in Sub, topicOf[s] # None
  PROVE  /\ \A c \in ConsumerId : \A i \in DOMAIN chan[c] :
              chan[c][i].item.sub = s => chan[c][i].item.at <= Len(log[topicOf[s]])
         /\ \A i \in DOMAIN backlog[s] : backlog[s][i].at <= Len(log[topicOf[s]])
<1>1. "channel" \in Kinds /\ "backlog" \in Kinds
  BY DEF Kinds
<1>2. ASSUME NEW c \in ConsumerId, NEW i \in DOMAIN chan[c], chan[c][i].item.sub = s
      PROVE  chan[c][i].item.at <= Len(log[topicOf[s]])
  <2> DEFINE x == CopyOf(chan[c][i].item)
  <2>1. x \in Copy
    <3>1. chan[c][i] \in Handed
      BY DEF TypeInv, TypeOK
    <3> QED
      BY <3>1, CopyTypes DEF Handed
  <2>2. x.sub = s /\ x.at = chan[c][i].item.at
    BY <1>2 DEF CopyOf
  <2>3. <<"channel", c, i>> \in Parts(x)["channel"]
    <3>1. <<"channel", c, i>> \in ChannelPlaces(chan, x)
      BY ChannelPlacesAre
    <3> QED
      BY <3>1, PartsAre
  <2> HIDE DEF x
  <2>4. x \in Copies
    BY <1>1, <2>1, <2>3, PublishedOne DEF PlaceInv, AllPlaced
  <2>5. x.at \in created[s] + 1 .. Len(log[topicOf[s]])
    BY <2>1, <2>2, <2>4, CopiesAre
  <2> QED
    BY <2>2, <2>5
<1>3. ASSUME NEW i \in DOMAIN backlog[s] PROVE backlog[s][i].at <= Len(log[topicOf[s]])
  <2> DEFINE x == CopyOf(backlog[s][i])
  <2>1. x \in Copy
    <3>1. backlog[s][i] \in Item
      BY DEF TypeInv, TypeOK
    <3> QED
      BY <3>1, CopyTypes
  <2>2. x.sub = s /\ x.at = backlog[s][i].at
    BY DEF CopyOf, PlaceInv, BacklogOwn
  <2>3. <<"backlog", i>> \in Parts(x)["backlog"]
    <3>1. <<"backlog", i>> \in BacklogPlaces(backlog, x)
      BY <2>2 DEF BacklogPlaces, Where
    <3> QED
      BY <3>1, PartsAre
  <2> HIDE DEF x
  <2>4. x \in Copies
    BY <1>1, <2>1, <2>3, PublishedOne DEF PlaceInv, AllPlaced
  <2>5. x.at \in created[s] + 1 .. Len(log[topicOf[s]])
    BY <2>1, <2>2, <2>4, CopiesAre
  <2> QED
    BY <2>2, <2>5
<1> QED
  BY <1>2, <1>3

\* A step under the lock hands messages on: nothing is being drained.
LEMMA HandedInLock ==
  ASSUME TypeInv, RotationReads, FirstInv, NEW given, DOMAIN given \subseteq Sub,
         \A s \in DOMAIN given : given[s] \in Item /\ given[s].sub = s,
         NEW harness \in BOOLEAN, Hand(given, harness),
         UNCHANGED <<consumers, subOf, phase, draining>>, draining = <<>>,
         \A s \in DOMAIN given : \A c \in ConsumerId : \A i \in DOMAIN chan[c] :
            chan[c][i].item.sub = s => Before(chan[c][i].item, given[s]),
         \A s \in DOMAIN given : \A i \in DOMAIN backlog[s] : Before(backlog[s][i], given[s])
  PROVE  FirstInv'
<1>1. ASSUME NEW s \in DOMAIN given, NEW c \in consumers[s], NEW i \in DOMAIN chan[c]
      PROVE  Before(chan[c][i].item, given[s])
  <2>1. c \in ConsumerId /\ subOf[c] = s
    BY DEF TypeInv, TypeOK, RotationReads
  <2>2. chan[c][i].item.sub = s
    BY <2>1 DEF FirstInv, ChanOwn
  <2> QED
    BY <2>1, <2>2
<1>2. FirstDeliveriesInOrder' /\ BacklogInOrder' /\ ChanOwn' /\ UnopenedEmpty'
  BY <1>1, HandInOrder
<1>3. DrainInOrder' /\ DrainedNext'
  BY DEF DrainInOrder, DrainedNext
<1> QED
  BY <1>2, <1>3 DEF FirstInv

LEMMA DrainOrder ==
  ASSUME TypeInv, RotationReads, FirstInv, NEW w \in Worker, Drain(w)
  PROVE  FirstInv'
<1> DEFINE item == Head(draining)
           given == [s \in {item.sub} |-> item]
<1>1. /\ Hand(given, job[w].counted) /\ draining # <<>> /\ draining' = Tail(draining)
      /\ UNCHANGED <<consumers, subOf, phase>>
  BY DEF Drain, consumerVars
<1>2. draining \in Seq(Item) /\ job[w].counted \in BOOLEAN
  BY DEF TypeInv, TypeOK, Job
<1>3. /\ DOMAIN Tail(draining) = 1..(Len(draining) - 1) /\ DOMAIN draining = 1..Len(draining)
      /\ Len(draining) \in Nat \ {0} /\ item = draining[1]
      /\ \A k \in 1..(Len(draining) - 1) : Tail(draining)[k] = draining[k + 1]
  BY <1>1, <1>2, TailShift
<1>4. ASSUME NEW k \in DOMAIN draining'
      PROVE  k \in Int /\ k + 1 \in DOMAIN draining /\ draining'[k] = draining[k + 1] /\ 1 < k + 1
  <2>1. k \in 1..(Len(draining) - 1)
    BY <1>1, <1>3
  <2>2. k + 1 \in 1..Len(draining) /\ 1 < k + 1
    BY <1>3, <2>1
  <2> QED
    BY <1>1, <1>3, <2>1, <2>2
<1>5. 1 \in DOMAIN draining /\ item \in Item /\ item.sub \in Sub
  <2>1. 1 \in DOMAIN draining
    BY <1>3
  <2>2. item \in Item
    BY <1>2, <1>3, <2>1
  <2> QED
    BY <2>1, <2>2 DEF Item
<1>6. DOMAIN given = {item.sub} /\ given[item.sub] = item
  OBVIOUS
<1> HIDE DEF given, item
<1>7. /\ consumers[item.sub] # {}
      /\ \A c \in consumers[item.sub] : \A i \in DOMAIN chan[c] : Before(chan[c][i].item, item)
  BY <1>3, <1>5 DEF FirstInv, DrainedNext
<1>8. /\ FirstDeliveriesInOrder' /\ BacklogInOrder' /\ ChanOwn' /\ UnopenedEmpty'
      /\ \A c \in ConsumerId : \A i \in DOMAIN chan'[c] :
            \/ i \in DOMAIN chan[c] /\ chan'[c][i] = chan[c][i]
            \/ subOf[c] \in DOMAIN given /\ chan'[c][i].item = given[subOf[c]]
  <2>1. DOMAIN given \subseteq Sub
    BY <1>5, <1>6
  <2>2. \A s \in DOMAIN given : given[s] \in Item /\ given[s].sub = s
    BY <1>5, <1>6
  <2>3. \A s \in DOMAIN given : \A c \in consumers[s] : \A i \in DOMAIN chan[c] :
           Before(chan[c][i].item, given[s])
    BY <1>6, <1>7
  <2>4. \A s \in DOMAIN given : consumers[s] = {} => \A i \in DOMAIN backlog[s] :
           Before(backlog[s][i], given[s])
    BY <1>6, <1>7
  <2> QED
    BY <1>1, <1>2, <2>1, <2>2, <2>3, <2>4, HandInOrder
<1>9. DrainInOrder'
  <2> SUFFICES ASSUME NEW i \in DOMAIN draining', NEW j \in DOMAIN draining', i < j
               PROVE  Before(draining'[i], draining'[j])
    BY DEF DrainInOrder, Before
  <2>1. i + 1 < j + 1
    BY <1>4
  <2> QED
    BY <1>4, <2>1 DEF FirstInv, DrainInOrder
<1>10. DrainedNext'
  <2> SUFFICES ASSUME NEW k \in DOMAIN draining'
               PROVE  /\ consumers[draining'[k].sub] # {}
                      /\ \A c \in consumers[draining'[k].sub] : \A i \in DOMAIN chan'[c] :
                            Before(chan'[c][i].item, draining'[k])
    BY <1>1 DEF DrainedNext, Before
  <2>1. k + 1 \in DOMAIN draining /\ draining'[k] = draining[k + 1] /\ 1 < k + 1
    BY <1>4
  <2>2. Before(item, draining'[k])
    BY <1>3, <1>5, <2>1 DEF FirstInv, DrainInOrder
  <2>3. draining'[k].sub \in Sub
    <3>1. draining[k + 1] \in Item
      BY <1>2, <2>1
    <3> QED
      BY <2>1, <3>1 DEF Item
  <2>4. consumers[draining'[k].sub] # {}
    BY <2>1 DEF FirstInv, DrainedNext
  <2>5. ASSUME NEW c \in consumers[draining'[k].sub], NEW i \in DOMAIN chan'[c]
        PROVE  Before(chan'[c][i].item, draining'[k])
    <3>1. c \in ConsumerId
      BY <2>3 DEF TypeInv, TypeOK
    <3>2. CASE i \in DOMAIN chan[c] /\ chan'[c][i] = chan[c][i]
      BY <2>1, <3>2 DEF FirstInv, DrainedNext
    <3>3. CASE subOf[c] \in DOMAIN given /\ chan'[c][i].item = given[subOf[c]]
      BY <1>6, <2>2, <3>3
    <3> QED
      BY <1>8, <3>1, <3>2, <3>3
  <2> QED
    BY <2>4, <2>5
<1> QED
  BY <1>8, <1>9, <1>10 DEF FirstInv

LEMMA OpenOrder ==
  ASSUME TypeInv, StrandInv, PlaceInv, FirstInv, NEW w \in Worker, Open(w)
  PROVE  FirstInv'
<1> DEFINE s == job[w].desc.sub
           c == opened + 1
<1>1. /\ job[w].pc = "open" /\ chan' = chan
      /\ consumers' = [consumers EXCEPT ![s] = @ \cup {c}]
      /\ backlog' = [backlog EXCEPT ![s] = <<>>] /\ draining' = backlog[s]
      /\ phase' = [phase EXCEPT ![c] = "opening"] /\ subOf' = [subOf EXCEPT ![c] = s]
  BY DEF Open
<1>2. s \in Sub /\ c \in ConsumerId
  <2>1. job[w].desc \in Descriptor
    BY <1>1 DEF TypeInv, JobFields
  <2>2. c \in ConsumerId
    <3>1. w \in Opening
      BY <1>1 DEF Opening
    <3>2. Cardinality(Opening) \in Nat \ {0}
      BY <3>1, OpeningFinite, FS_EmptySet
    <3> QED
      BY <3>2 DEF OpensFit, TypeInv, TypeOK, ConsumerId
  <2> QED
    BY <2>1, <2>2
<1> HIDE DEF s
<1>3. phase[c] = "unopened" /\ chan[c] = <<>>
  <2>1. c > opened
    BY DEF TypeInv, TypeOK
  <2> QED
    BY <1>2, <2>1 DEF StrandInv, LaterUnopened, FirstInv, UnopenedEmpty
<1> HIDE DEF c
<1>4. FirstDeliveriesInOrder'
  BY <1>1 DEF FirstInv, FirstDeliveriesInOrder
<1>5. BacklogInOrder'
  <2> SUFFICES ASSUME NEW r \in Sub, NEW i \in DOMAIN backlog'[r], NEW j \in DOMAIN backlog'[r],
                      i < j
               PROVE  Before(backlog'[r][i], backlog'[r][j])
    BY DEF BacklogInOrder, Before
  <2>1. backlog'[r] = IF r = s THEN <<>> ELSE backlog[r]
    BY <1>1, <1>2 DEF TypeInv, TypeOK
  <2>2. r # s
    BY <2>1
  <2> QED
    BY <2>1, <2>2 DEF FirstInv, BacklogInOrder
<1>6. DrainInOrder'
  BY <1>1, <1>2 DEF FirstInv, BacklogInOrder, DrainInOrder, Before
<1>7. DrainedNext'
  <2> SUFFICES ASSUME NEW k \in DOMAIN backlog[s]
               PROVE  /\ consumers'[backlog[s][k].sub] # {}
                      /\ \A b \in consumers'[backlog[s][k].sub] : \A i \in DOMAIN chan[b] :
                            Before(chan[b][i].item, backlog[s][k])
    BY <1>1 DEF DrainedNext, Before
  <2>1. backlog[s][k].sub = s
    BY <1>2 DEF PlaceInv, BacklogOwn
  <2>2. backlog[s] # <<>>
    OBVIOUS
  <2>3. consumers[s] = {}
    BY <1>2, <2>2 DEF StrandInv, BacklogAlone
  <2>4. consumers'[s] = {c}
    BY <1>1, <1>2, <2>3 DEF TypeInv, TypeOK
  <2> QED
    BY <1>3, <2>1, <2>4
<1>8. ChanOwn'
  <2> SUFFICES ASSUME NEW b \in ConsumerId, NEW i \in DOMAIN chan[b]
               PROVE  chan[b][i].item.sub = subOf'[b]
    BY <1>1 DEF ChanOwn
  <2>1. b # c
    BY <1>3
  <2>2. subOf'[b] = subOf[b]
    BY <1>1, <1>2, <2>1 DEF TypeInv, TypeOK
  <2> QED
    BY <2>2 DEF FirstInv, ChanOwn
<1>9. UnopenedEmpty'
  <2> SUFFICES ASSUME NEW b \in ConsumerId, phase'[b] = "unopened" PROVE chan[b] = <<>>
    BY <1>1 DEF UnopenedEmpty
  <2>1. b # c => phase'[b] = phase[b]
    BY <1>1 DEF TypeInv, TypeOK
  <2> QED
    BY <1>3, <2>1 DEF FirstInv, UnopenedEmpty
<1> QED
  BY <1>4, <1>5, <1>6, <1>7, <1>8, <1>9 DEF FirstInv

LEMMA RouteOrder ==
  ASSUME TypeInv, RotationReads, PlaceInv, FirstInv, NEW w \in Worker, Route(w)
  PROVE  FirstInv'
<1> DEFINE t == job[w].topic
           n == Len(log[t])
           e(s) == [sub |-> s, at |-> n + 1, attempt |-> 1]
           given == [s \in {r \in Sub : topicOf[r] = t} |-> e(s)]
<1>1. /\ job[w].pc = "route" /\ lock = None /\ Hand(given, installed)
      /\ UNCHANGED <<consumers, subOf, phase, draining>> /\ installed \in BOOLEAN
  BY DEF Route, Unlocked, lockVars, consumerVars, TypeInv, TypeOK
<1>2. t \in Topic /\ n \in Nat /\ draining = <<>> /\ t # None
  BY <1>1 DEF TypeInv, TypeOK, JobFields, PlaceInv, DrainIdle
<1>3. ASSUME NEW s \in Sub
      PROVE  e(s) \in Item /\ e(s).sub = s /\ e(s).at = n + 1
  <2>1. n + 1 \in Nat \ {0} /\ 1 \in 1..AttemptMax
    BY <1>2
  <2> HIDE DEF n
  <2> QED
    BY <2>1 DEF Item
<1>4. \A s \in DOMAIN given : s \in Sub /\ topicOf[s] = t /\ given[s] = e(s)
  OBVIOUS
<1> HIDE DEF given, e
<1>5. ASSUME NEW s \in DOMAIN given
      PROVE  /\ \A c \in ConsumerId : \A i \in DOMAIN chan[c] :
                  chan[c][i].item.sub = s => Before(chan[c][i].item, given[s])
             /\ \A i \in DOMAIN backlog[s] : Before(backlog[s][i], given[s])
  <2>1. s \in Sub /\ topicOf[s] # None /\ Len(log[topicOf[s]]) = n /\ given[s].at = n + 1
    BY <1>2, <1>3, <1>4
  <2>2. /\ \A c \in ConsumerId : \A i \in DOMAIN chan[c] :
             chan[c][i].item.sub = s => chan[c][i].item.at <= n
        /\ \A i \in DOMAIN backlog[s] : backlog[s][i].at <= n
    BY <2>1, PlacedInLog
  <2>3. ASSUME NEW c \in ConsumerId, NEW i \in DOMAIN chan[c], chan[c][i].item.sub = s
        PROVE  chan[c][i].item.at < given[s].at
    <3>1. chan[c][i] \in Handed
      BY DEF TypeInv, TypeOK
    <3>2. chan[c][i].item.at \in Nat
      BY <3>1 DEF Handed, Item
    <3> HIDE DEF n
    <3> QED
      BY <1>2, <2>1, <2>2, <2>3, <3>2
  <2>4. ASSUME NEW i \in DOMAIN backlog[s]
        PROVE  backlog[s][i].at < given[s].at
    <3>1. backlog[s][i] \in Item
      BY <2>1 DEF TypeInv, TypeOK
    <3>2. backlog[s][i].at \in Nat
      BY <3>1 DEF Item
    <3> HIDE DEF n
    <3> QED
      BY <1>2, <2>1, <2>2, <3>2
  <2> QED
    BY <2>3, <2>4 DEF Before
<1>6. DOMAIN given \subseteq Sub /\ \A s \in DOMAIN given : given[s] \in Item /\ given[s].sub = s
  BY <1>3, <1>4
<1> QED
  BY <1>1, <1>2, <1>5, <1>6, HandedInLock

LEMMA RejectOrder ==
  ASSUME AttemptMax > 1, TypeInv, RotationReads, PlaceInv, FirstInv,
         NEW w \in Worker, Reject(w)
  PROVE  FirstInv'
<1> DEFINE item == job[w].item
           next == NextAttempt(item)
           given == [s \in {item.sub} |-> next]
<1>1. /\ job[w].pc = "reject" /\ lock = None
      /\ UNCHANGED <<consumers, subOf, phase, draining>> /\ installed \in BOOLEAN
  BY DEF Reject, Unlocked, lockVars, consumerVars, TypeInv, TypeOK
<1>2. item \in Item /\ draining = <<>>
  BY <1>1 DEF TypeInv, JobFields, PlaceInv, DrainIdle
<1>3. CASE Spent(item)
  <2>1. UNCHANGED <<chan, backlog, draining, subOf, consumers, phase>>
    BY <1>1, <1>3 DEF Reject
  <2> QED
    BY <2>1, OrderStill
<1>4. CASE ~Spent(item)
  <2>1. Hand(given, installed)
    BY <1>4 DEF Reject
  <2>2. next \in Item /\ next.sub = item.sub /\ next.attempt # 1 /\ item.sub \in Sub
    BY <1>2 DEF NextAttempt, Item
  <2> HIDE DEF next
  <2>3. /\ DOMAIN given \subseteq Sub
        /\ \A s \in DOMAIN given : given[s] \in Item /\ given[s].sub = s /\ given[s].attempt # 1
    BY <2>2
  <2> HIDE DEF given
  <2>4. /\ \A s \in DOMAIN given : \A c \in ConsumerId : \A i \in DOMAIN chan[c] :
             chan[c][i].item.sub = s => Before(chan[c][i].item, given[s])
        /\ \A s \in DOMAIN given : \A i \in DOMAIN backlog[s] : Before(backlog[s][i], given[s])
    BY <2>3 DEF Before
  <2> QED
    BY <1>1, <1>2, <2>1, <2>3, <2>4, HandedInLock
<1> QED
  BY <1>3, <1>4

LEMMA FirstInit == Init => FirstInv
<1> SUFFICES ASSUME Init PROVE FirstInv
  OBVIOUS
<1>1. /\ \A c \in ConsumerId : chan[c] = <<>>
      /\ \A s \in Sub : backlog[s] = <<>>
      /\ draining = <<>>
  BY DEF Init
<1>2. /\ \A c \in ConsumerId : DOMAIN chan[c] = {}
      /\ \A s \in Sub : DOMAIN backlog[s] = {}
      /\ DOMAIN draining = {}
  BY <1>1
<1>3. FirstDeliveriesInOrder /\ ChanOwn /\ UnopenedEmpty
  BY <1>1, <1>2 DEF FirstDeliveriesInOrder, ChanOwn, UnopenedEmpty
<1>4. BacklogInOrder /\ DrainInOrder /\ DrainedNext
  <2>1. BacklogInOrder
    BY <1>2 DEF BacklogInOrder
  <2>2. DrainInOrder
    BY <1>2 DEF DrainInOrder
  <2>3. DrainedNext
    BY <1>2 DEF DrainedNext
  <2> QED
    BY <2>1, <2>2, <2>3
<1> QED
  BY <1>3, <1>4 DEF FirstInv

LEMMA FirstStep ==
  AttemptMax > 1 /\ TypeInv /\ StrandInv /\ PlaceInv /\ FirstInv /\ [Next]_vars => FirstInv'
<1> SUFFICES ASSUME AttemptMax > 1, TypeInv, StrandInv, RotationReads, PlaceInv, FirstInv, [Next]_vars
             PROVE  FirstInv'
  BY DEF StrandInv
<1> USE DEF subVars, consumerVars, lockVars, countVars, historyVars
<1>1. CASE /\ UNCHANGED <<chan, backlog, draining, subOf>>
           /\ consumers' = consumers \/ draining = <<>>
           /\ \A c \in ConsumerId : phase'[c] = "unopened" => phase[c] = "unopened"
  BY <1>1, OrderStill
<1>2. CASE Install \/ Close \/ UNCHANGED vars
  BY <1>1, <1>2 DEF Install, Close, vars
<1>3. ASSUME NEW c \in ConsumerId, Poll(c) PROVE FirstInv'
  BY <1>3, TailInOrder DEF Poll
<1>4. ASSUME NEW w \in Worker, \E d \in Descriptor : Subscribe(w, d) PROVE FirstInv'
  BY <1>1, <1>4 DEF Subscribe
<1>5. ASSUME NEW w \in Worker, Open(w) PROVE FirstInv'
  BY <1>5, OpenOrder
<1>6. ASSUME NEW w \in Worker, Drain(w) PROVE FirstInv'
  BY <1>6, DrainOrder
<1>7. ASSUME NEW w \in Worker, Opened(w) PROVE FirstInv'
  BY <1>1, <1>7 DEF Opened, TypeInv, TypeOK
<1>8. ASSUME NEW w \in Worker, \E t \in Topic : Publish(w, t) PROVE FirstInv'
  BY <1>1, <1>8 DEF Publish
<1>9. ASSUME NEW w \in Worker, Route(w) PROVE FirstInv'
  BY <1>9, RouteOrder
<1>10. ASSUME NEW w \in Worker, NEW d \in held, Settle(w, d) PROVE FirstInv'
  BY <1>1, <1>10 DEF Settle, DropMessage, Acknowledge, Nack, RejectAfter
<1>11. ASSUME NEW w \in Worker, \E item \in timers : Fire(w, item) PROVE FirstInv'
  BY <1>1, <1>11 DEF Fire
<1>12. ASSUME NEW w \in Worker, Reject(w) PROVE FirstInv'
  BY <1>12, RejectOrder
<1>13. ASSUME NEW w \in Worker, Release(w) PROVE FirstInv'
  BY <1>1, <1>13 DEF Release
<1>14. ASSUME NEW w \in Worker, NEW c \in ConsumerId, Cancel(w, c) PROVE FirstInv'
  <2>1. /\ UNCHANGED <<chan, backlog, draining, subOf>> /\ lock = None
        /\ phase' = [phase EXCEPT ![c] = "closing"]
    BY <1>14 DEF Cancel, Unlocked
  <2>2. draining = <<>>
    BY <2>1 DEF PlaceInv, DrainIdle
  <2>3. \A b \in ConsumerId : phase'[b] = "unopened" => phase[b] = "unopened"
    BY <2>1 DEF TypeInv, TypeOK
  <2> QED
    BY <1>1, <2>1, <2>2, <2>3
<1>15. ASSUME NEW w \in Worker, CancelNext(w) PROVE FirstInv'
  <2>1. /\ chan[job[w].consumer] # <<>> /\ job[w].pc = "cancel"
        /\ chan' = [chan EXCEPT ![job[w].consumer] = Tail(@)]
        /\ UNCHANGED <<backlog, draining, consumers, subOf, phase>>
    BY <1>15 DEF CancelNext
  <2>2. job[w].consumer \in ConsumerId
    BY <2>1 DEF TypeInv, JobFields
  <2> QED
    BY <2>1, <2>2, TailInOrder
<1>16. ASSUME NEW w \in Worker, Cancelled(w) PROVE FirstInv'
  BY <1>1, <1>16 DEF Cancelled, TypeInv, TypeOK
<1> QED
  BY <1>2, <1>3, <1>4, <1>5, <1>6, <1>7, <1>8, <1>9, <1>10, <1>11, <1>12, <1>13, <1>14,
     <1>15, <1>16
     DEF Next, Proceed

\* Each consumer is handed its first deliveries in the order they were
\* published, in every instance of the transport whose attempts can go up.
THEOREM FirstsInOrder == AttemptMax > 1 => (Spec => []FirstDeliveriesInOrder)
<1> SUFFICES ASSUME AttemptMax > 1 PROVE Spec => []FirstDeliveriesInOrder
  OBVIOUS
<1>1. Init => TypeInv /\ StrandInv /\ PlaceInv /\ FirstInv
  BY TypeInit, StrandInit, PlaceInit, FirstInit
<1>2. TypeInv /\ StrandInv /\ PlaceInv /\ FirstInv /\ [Next]_vars
      => TypeInv' /\ StrandInv' /\ PlaceInv' /\ FirstInv'
  BY TypeStep, StrandStep, PlaceStep, FirstStep
<1>3. FirstInv => FirstDeliveriesInOrder
  BY DEF FirstInv
<1> QED
  BY <1>1, <1>2, <1>3, PTL DEF Spec

--------------------------------------------------------------------------------
(***************************************************************************)
(* Part 8: the transport implements its contract.  Where a copy is decides *)
(* its state in the contract, and it is in one place; so a step that       *)
(* leaves a copy acknowledged, dead, carried or waiting at its attempt     *)
(* leaves its state, and each step moves at most one copy to another.      *)
(***************************************************************************)
Letter(x) == \E t \in Topic : \E i \in DOMAIN log[t] : log[t][i] = x

\* The copy is in the hands of a thread on its way to the dead-letter topic.
Carried(x, w) == job[w].pc = "route" /\ job[w].item # None /\ CopyOf(job[w].item) = x

\* The items that are still to be delivered or settled, by the kind of place.
ItemsOf ==
    [backlog  |-> UNION {{backlog[s][i] : i \in DOMAIN backlog[s]} : s \in Sub},
     draining |-> {draining[i] : i \in DOMAIN draining},
     channel  |-> UNION {{chan[c][i].item : i \in DOMAIN chan[c]} : c \in ConsumerId},
     held     |-> {d.item : d \in held},
     timer    |-> timers,
     job      |-> {job[w].item : w \in {v \in Worker : job[v].item # None}}]

ItemKinds == {"backlog", "draining", "channel", "held", "timer", "job"}

InBacklog(item) == \E s \in Sub : \E i \in DOMAIN backlog[s] : backlog[s][i] = item
InDraining(item) == \E i \in DOMAIN draining : draining[i] = item
InChannel(item) == \E c \in ConsumerId : \E i \in DOMAIN chan[c] : chan[c][i].item = item
InHands(item) == \E d \in held : d.item = item
InReject(item) == \E w \in Worker : job[w].pc = "reject" /\ job[w].item = item

Waiting(item) ==
    \/ InBacklog(item) \/ InDraining(item) \/ InChannel(item)
    \/ InHands(item) \/ item \in timers \/ InReject(item)

Somewhere(x) ==
    \/ x \in acked
    \/ Letter(x)
    \/ \E w \in Worker : Carried(x, w)
    \/ \E item \in Item : CopyOf(item) = x /\ Waiting(item)

States == [x \in Copies |-> StateOf(x)]

StateRight(x) ==
    /\ Somewhere(x)
    /\ x \in acked => States[x] = Contract!Acked
    /\ Letter(x) => States[x] = Contract!Dead
    /\ \A w \in Worker : Carried(x, w) => States[x] = Contract!Spent(job[w].topic)
    /\ \A item \in Item : CopyOf(item) = x /\ Waiting(item) => States[x] = Contract!Live(item.attempt)

OnlyCopies ==
    /\ \A item \in Item : Waiting(item) => CopyOf(item) \in Copies
    /\ \A x \in Copy : \A w \in Worker : Carried(x, w) => x \in Copies

StatesRight == (\A x \in Copies : StateRight(x)) /\ OnlyCopies

LEMMA ItemsTyped ==
  ASSUME TypeInv, NEW k \in ItemKinds, NEW item \in ItemsOf[k]
  PROVE  item \in Item
<1>1. CASE k = "backlog"
  <2>1. PICK s \in Sub : \E i \in DOMAIN backlog[s] : backlog[s][i] = item
    BY <1>1 DEF ItemsOf
  <2>2. backlog[s] \in Seq(Item)
    BY DEF TypeInv, TypeOK
  <2> QED
    BY <2>1, <2>2
<1>2. CASE k = "draining"
  BY <1>2 DEF ItemsOf, TypeInv, TypeOK
<1>3. CASE k = "channel"
  <2>1. PICK c \in ConsumerId : \E i \in DOMAIN chan[c] : chan[c][i].item = item
    BY <1>3 DEF ItemsOf
  <2>2. PICK i \in DOMAIN chan[c] : chan[c][i].item = item
    BY <2>1
  <2>3. chan[c][i] \in Handed
    BY DEF TypeInv, TypeOK
  <2> QED
    BY <2>2, <2>3 DEF Handed
<1>4. CASE k = "held"
  BY <1>4 DEF ItemsOf, TypeInv, TypeOK, Delivery
<1>5. CASE k = "timer"
  BY <1>5 DEF ItemsOf, TypeInv, TypeOK
<1>6. CASE k = "job"
  <2>1. PICK w \in Worker : job[w].item # None /\ job[w].item = item
    BY <1>6 DEF ItemsOf
  <2>2. job[w] \in Job
    BY DEF TypeInv, TypeOK
  <2> QED
    BY <2>1, <2>2 DEF Job
<1> QED
  BY <1>1, <1>2, <1>3, <1>4, <1>5, <1>6 DEF ItemKinds

LEMMA LiveItemsCut ==
  /\ \A item : item \in LiveItems <=> \E k \in ItemKinds : item \in ItemsOf[k]
  /\ \A item \in Item : Waiting(item) => item \in LiveItems
<1>1. LiveItems = ItemsOf["backlog"] \cup ItemsOf["draining"] \cup ItemsOf["channel"]
                  \cup ItemsOf["held"] \cup ItemsOf["timer"] \cup ItemsOf["job"]
  <2>1. HandedItems = ItemsOf["channel"]
    BY DEF ItemsOf, HandedItems, ChannelItems, Elements
  <2>2. BacklogItems = ItemsOf["backlog"] /\ Elements(draining) = ItemsOf["draining"]
    BY DEF ItemsOf, BacklogItems, Elements
  <2>3. HandlerItems = ItemsOf["held"] /\ timers = ItemsOf["timer"] /\ ThreadItems = ItemsOf["job"]
    BY DEF ItemsOf, HandlerItems, ThreadItems
  <2> QED
    BY <2>1, <2>2, <2>3 DEF LiveItems
<1>2. \A item : item \in LiveItems <=> \E k \in ItemKinds : item \in ItemsOf[k]
  BY <1>1 DEF ItemKinds
<1>3. ASSUME NEW item \in Item, Waiting(item) PROVE item \in LiveItems
  <2>1. item # None
    BY DEF Item
  <2> QED
    BY <1>3, <1>2, <2>1 DEF Waiting, InBacklog, InDraining, InChannel, InHands, InReject, ItemsOf, ItemKinds
<1> QED
  BY <1>2, <1>3

\* A live item of a copy is at one of the copy's places, and no other is there.
LEMMA ItemsPlaced ==
  ASSUME TypeInv, PlaceInv, NEW x \in Copy, NEW k \in ItemKinds,
         NEW item \in ItemsOf[k], CopyOf(item) = x
  PROVE  /\ Parts(x)[k] # {}
         /\ Lone(Parts(x)[k]) => \A other \in ItemsOf[k] : CopyOf(other) = x => other = item
<1>1. CASE k = "backlog"
  <2> DEFINE at(i, q) == backlog[x.sub][q] = i
             place(q) == <<"backlog", q>>
  <2>1. \A i \in ItemsOf[k] : CopyOf(i) = x => \E q \in DOMAIN backlog[x.sub] : at(i, q) /\ place(q) \in Parts(x)[k]
    <3> SUFFICES ASSUME NEW i \in ItemsOf[k], CopyOf(i) = x
                 PROVE \E q \in DOMAIN backlog[x.sub] : at(i, q) /\ place(q) \in Parts(x)[k]
      OBVIOUS
    <3>1. PICK s \in Sub : \E q \in DOMAIN backlog[s] : backlog[s][q] = i
      BY <1>1 DEF ItemsOf
    <3>2. PICK q \in DOMAIN backlog[s] : backlog[s][q] = i
      BY <3>1
    <3>3. s = x.sub
      BY <3>2 DEF PlaceInv, BacklogOwn, CopyOf
    <3> QED
      BY <1>1, <3>2, <3>3 DEF Parts, BacklogPlaces, Where
  <2>2. \A q, r \in DOMAIN backlog[x.sub] : place(q) = place(r) => q = r
    OBVIOUS
  <2>3. \A i, j : \A q \in DOMAIN backlog[x.sub] : at(i, q) /\ at(j, q) => i = j
    OBVIOUS
  <2> HIDE DEF at, place
  <2>4. PICK q \in DOMAIN backlog[x.sub] : at(item, q) /\ place(q) \in Parts(x)[k]
    BY <2>1
  <2>5. ASSUME Lone(Parts(x)[k]), NEW other \in ItemsOf[k], CopyOf(other) = x
        PROVE other = item
    <3>1. PICK r \in DOMAIN backlog[x.sub] : at(other, r) /\ place(r) \in Parts(x)[k]
      BY <2>1, <2>5
    <3>2. place(q) = place(r)
      BY <2>4, <2>5, <3>1 DEF Lone
    <3>3. q = r
      BY <2>2, <3>2
    <3> QED
      BY <2>3, <2>4, <3>1, <3>3
  <2> QED
    BY <2>4, <2>5
<1>2. CASE k = "draining"
  <2> DEFINE at(i, q) == draining[q] = i
             place(q) == <<"draining", q>>
  <2>1. \A i \in ItemsOf[k] : CopyOf(i) = x => \E q \in DOMAIN draining : at(i, q) /\ place(q) \in Parts(x)[k]
    BY <1>2 DEF ItemsOf, Parts, DrainingPlaces, Where
  <2>2. \A q, r \in DOMAIN draining : place(q) = place(r) => q = r
    OBVIOUS
  <2>3. \A i, j : \A q \in DOMAIN draining : at(i, q) /\ at(j, q) => i = j
    OBVIOUS
  <2> HIDE DEF at, place
  <2>4. PICK q \in DOMAIN draining : at(item, q) /\ place(q) \in Parts(x)[k]
    BY <2>1
  <2>5. ASSUME Lone(Parts(x)[k]), NEW other \in ItemsOf[k], CopyOf(other) = x
        PROVE other = item
    <3>1. PICK r \in DOMAIN draining : at(other, r) /\ place(r) \in Parts(x)[k]
      BY <2>1, <2>5
    <3>2. place(q) = place(r)
      BY <2>4, <2>5, <3>1 DEF Lone
    <3>3. q = r
      BY <2>2, <3>2
    <3> QED
      BY <2>3, <2>4, <3>1, <3>3
  <2> QED
    BY <2>4, <2>5
<1>4. CASE k = "held"
  <2> DEFINE at(i, q) == q.item = i
             place(q) == <<"held", q>>
  <2>1. \A i \in ItemsOf[k] : CopyOf(i) = x => \E q \in held : at(i, q) /\ place(q) \in Parts(x)[k]
    BY <1>4 DEF ItemsOf, Parts, HeldPlaces
  <2>2. \A q, r \in held : place(q) = place(r) => q = r
    OBVIOUS
  <2>3. \A i, j : \A q \in held : at(i, q) /\ at(j, q) => i = j
    OBVIOUS
  <2> HIDE DEF at, place
  <2>4. PICK q \in held : at(item, q) /\ place(q) \in Parts(x)[k]
    BY <2>1
  <2>5. ASSUME Lone(Parts(x)[k]), NEW other \in ItemsOf[k], CopyOf(other) = x
        PROVE other = item
    <3>1. PICK r \in held : at(other, r) /\ place(r) \in Parts(x)[k]
      BY <2>1, <2>5
    <3>2. place(q) = place(r)
      BY <2>4, <2>5, <3>1 DEF Lone
    <3>3. q = r
      BY <2>2, <3>2
    <3> QED
      BY <2>3, <2>4, <3>1, <3>3
  <2> QED
    BY <2>4, <2>5
<1>5. CASE k = "timer"
  <2> DEFINE at(i, q) == q = i
             place(q) == <<"timer", q>>
  <2>1. \A i \in ItemsOf[k] : CopyOf(i) = x => \E q \in timers : at(i, q) /\ place(q) \in Parts(x)[k]
    BY <1>5 DEF ItemsOf, Parts, TimerPlaces
  <2>2. \A q, r \in timers : place(q) = place(r) => q = r
    OBVIOUS
  <2>3. \A i, j : \A q \in timers : at(i, q) /\ at(j, q) => i = j
    OBVIOUS
  <2> HIDE DEF at, place
  <2>4. PICK q \in timers : at(item, q) /\ place(q) \in Parts(x)[k]
    BY <2>1
  <2>5. ASSUME Lone(Parts(x)[k]), NEW other \in ItemsOf[k], CopyOf(other) = x
        PROVE other = item
    <3>1. PICK r \in timers : at(other, r) /\ place(r) \in Parts(x)[k]
      BY <2>1, <2>5
    <3>2. place(q) = place(r)
      BY <2>4, <2>5, <3>1 DEF Lone
    <3>3. q = r
      BY <2>2, <3>2
    <3> QED
      BY <2>3, <2>4, <3>1, <3>3
  <2> QED
    BY <2>4, <2>5
<1>6. CASE k = "job"
  <2> DEFINE at(i, q) == job[q].item = i
             place(q) == <<"job", q>>
  <2>1. \A i \in ItemsOf[k] : CopyOf(i) = x => \E q \in Worker : at(i, q) /\ place(q) \in Parts(x)[k]
    BY <1>6 DEF ItemsOf, Parts, JobPlaces
  <2>2. \A q, r \in Worker : place(q) = place(r) => q = r
    OBVIOUS
  <2>3. \A i, j : \A q \in Worker : at(i, q) /\ at(j, q) => i = j
    OBVIOUS
  <2> HIDE DEF at, place
  <2>4. PICK q \in Worker : at(item, q) /\ place(q) \in Parts(x)[k]
    BY <2>1
  <2>5. ASSUME Lone(Parts(x)[k]), NEW other \in ItemsOf[k], CopyOf(other) = x
        PROVE other = item
    <3>1. PICK r \in Worker : at(other, r) /\ place(r) \in Parts(x)[k]
      BY <2>1, <2>5
    <3>2. place(q) = place(r)
      BY <2>4, <2>5, <3>1 DEF Lone
    <3>3. q = r
      BY <2>2, <3>2
    <3> QED
      BY <2>3, <2>4, <3>1, <3>3
  <2> QED
    BY <2>4, <2>5
<1>3. CASE k = "channel"
  <2> DEFINE at(i, c, q) == chan[c][q].item = i
             place(c, q) == <<"channel", c, q>>
  <2>1. \A i \in ItemsOf[k] : CopyOf(i) = x =>
           \E c \in ConsumerId : \E q \in DOMAIN chan[c] : at(i, c, q) /\ place(c, q) \in Parts(x)[k]
    <3> SUFFICES ASSUME NEW i \in ItemsOf[k], CopyOf(i) = x
                 PROVE \E c \in ConsumerId : \E q \in DOMAIN chan[c] :
                          at(i, c, q) /\ place(c, q) \in Parts(x)[k]
      OBVIOUS
    <3>1. PICK c \in ConsumerId : \E q \in DOMAIN chan[c] : chan[c][q].item = i
      BY <1>3 DEF ItemsOf
    <3>2. PICK q \in DOMAIN chan[c] : chan[c][q].item = i
      BY <3>1
    <3>3. <<"channel", c, q>> \in ChannelPlaces(chan, x)
      BY <3>2, ChannelPlacesAre
    <3> QED
      BY <1>3, <3>2, <3>3 DEF Parts
  <2>2. \A c, e \in ConsumerId : \A q \in DOMAIN chan[c] : \A r \in DOMAIN chan[e] :
           place(c, q) = place(e, r) => c = e /\ q = r
    OBVIOUS
  <2>3. \A i, j : \A c \in ConsumerId : \A q \in DOMAIN chan[c] : at(i, c, q) /\ at(j, c, q) => i = j
    OBVIOUS
  <2> HIDE DEF at, place
  <2>4. PICK c \in ConsumerId : \E q \in DOMAIN chan[c] : at(item, c, q) /\ place(c, q) \in Parts(x)[k]
    BY <2>1
  <2>5. PICK q \in DOMAIN chan[c] : at(item, c, q) /\ place(c, q) \in Parts(x)[k]
    BY <2>4
  <2>6. ASSUME Lone(Parts(x)[k]), NEW other \in ItemsOf[k], CopyOf(other) = x
        PROVE other = item
    <3>1. PICK e \in ConsumerId : \E r \in DOMAIN chan[e] : at(other, e, r) /\ place(e, r) \in Parts(x)[k]
      BY <2>1, <2>6
    <3>2. PICK r \in DOMAIN chan[e] : at(other, e, r) /\ place(e, r) \in Parts(x)[k]
      BY <3>1
    <3>3. place(c, q) = place(e, r)
      BY <2>5, <2>6, <3>2 DEF Lone
    <3>4. c = e /\ q = r
      BY <2>2, <3>3
    <3> QED
      BY <2>3, <2>5, <3>2, <3>4
  <2> QED
    BY <2>5, <2>6
<1> QED
  BY <1>1, <1>2, <1>3, <1>4, <1>5, <1>6 DEF ItemKinds

LEMMA WaitingKinds ==
  ASSUME NEW item, Waiting(item)
  PROVE  \/ \E k \in ItemKinds \ {"job"} : item \in ItemsOf[k]
         \/ \E w \in Worker : job[w].pc = "reject" /\ job[w].item = item
<1>1. \A k \in {"backlog", "draining", "channel", "held", "timer"} :
         item \in ItemsOf[k] => \E l \in ItemKinds \ {"job"} : item \in ItemsOf[l]
  BY DEF ItemKinds
<1>2. CASE \E s \in Sub : \E i \in DOMAIN backlog[s] : backlog[s][i] = item
  <2>1. item \in ItemsOf["backlog"]
    BY <1>2 DEF ItemsOf
  <2> QED
    BY <2>1, <1>1
<1>3. CASE \E i \in DOMAIN draining : draining[i] = item
  <2>1. item \in ItemsOf["draining"]
    BY <1>3 DEF ItemsOf
  <2> QED
    BY <2>1, <1>1
<1>4. CASE \E c \in ConsumerId : \E i \in DOMAIN chan[c] : chan[c][i].item = item
  <2>1. item \in ItemsOf["channel"]
    BY <1>4 DEF ItemsOf
  <2> QED
    BY <2>1, <1>1
<1>5. CASE \E d \in held : d.item = item
  <2>1. item \in ItemsOf["held"]
    BY <1>5 DEF ItemsOf
  <2> QED
    BY <2>1, <1>1
<1>6. CASE item \in timers
  <2>1. item \in ItemsOf["timer"]
    BY <1>6 DEF ItemsOf
  <2> QED
    BY <2>1, <1>1
<1> QED
  BY <1>2, <1>3, <1>4, <1>5, <1>6 DEF Waiting, InBacklog, InDraining, InChannel, InHands, InReject

LEMMA LettersAre ==
  ASSUME NEW x, NEW p
  PROVE  p \in DeadPlaces(log, x) <=>
            \E t \in Topic : \E i \in DOMAIN log[t] : log[t][i] = x /\ p = <<"dead", t, i>>
  BY DEF DeadPlaces

LEMMA PlaceKinds ==
  ASSUME TypeInv, PlaceInv, NEW x \in Copy
  PROVE  /\ x \in acked => Parts(x)["acked"] # {}
         /\ Letter(x) => Parts(x)["dead"] # {}
         /\ \A w \in Worker : job[w].item # None /\ CopyOf(job[w].item) = x
              => <<"job", w>> \in Parts(x)["job"]
         /\ x \in Copies => OnePart(Parts(x))
         /\ x \notin Copies => NoPart(Parts(x))
<1>1. ASSUME x \in acked PROVE Parts(x)["acked"] # {}
  <2>1. <<"acked", x>> \in AckedPlaces(acked, x)
    BY <1>1 DEF AckedPlaces
  <2> QED
    BY <2>1 DEF Parts
<1>2. ASSUME Letter(x) PROVE Parts(x)["dead"] # {}
  <2>1. PICK t \in Topic : \E i \in DOMAIN log[t] : log[t][i] = x
    BY <1>2 DEF Letter
  <2>2. PICK i \in DOMAIN log[t] : log[t][i] = x
    BY <2>1
  <2>3. <<"dead", t, i>> \in DeadPlaces(log, x)
    <3>1. \A p : p \in DeadPlaces(log, x) <=>
             \E u \in Topic : \E j \in DOMAIN log[u] : log[u][j] = x /\ p = <<"dead", u, j>>
      BY LettersAre
    <3> QED
      BY <2>2, <3>1
  <2> QED
    BY <2>3 DEF Parts
<1>3. \A w \in Worker : job[w].item # None /\ CopyOf(job[w].item) = x
              => <<"job", w>> \in Parts(x)["job"]
  BY DEF Parts, JobPlaces
<1>4. Placed(x)
  BY DEF PlaceInv, AllPlaced
<1> QED
  BY <1>1, <1>2, <1>3, <1>4 DEF Placed

LEMMA StateIsRight ==
  ASSUME TypeInv, PlaceInv, NEW x \in Copies, x \in Copy
  PROVE  StateRight(x)
<1> DEFINE F == Parts(x)
<1>1. OnePart(F)
  BY PlaceKinds
<1>2. \A k, l \in Kinds : F[k] # {} /\ F[l] # {} => k = l /\ Lone(F[k])
  BY <1>1 DEF OnePart
<1> HIDE DEF F
<1>3. x \in acked => F["acked"] # {}
  BY PlaceKinds DEF F
<1>4. Letter(x) => F["dead"] # {}
  BY PlaceKinds DEF F
<1>5. \A w \in Worker : job[w].item # None /\ CopyOf(job[w].item) = x => <<"job", w>> \in F["job"]
  BY PlaceKinds DEF F
<1>6. \A w \in Worker : Carried(x, w) => <<"job", w>> \in F["job"]
  BY <1>5 DEF Carried
<1>7. Letter(x) <=> DeadLettered(x)
  BY DEF Letter, DeadLettered, Elements
<1>8. \A w \in Worker : w \in Carriers(x) <=> Carried(x, w)
  BY DEF Carriers, Carried
<1>9. Carriers(x) \subseteq Worker
  BY DEF Carriers
<1>10. ASSUME x \in acked PROVE StateOf(x) = Contract!Acked
  <2>1. ~DeadLettered(x) /\ F["job"] = {}
    BY <1>2, <1>3, <1>4, <1>7, <1>10 DEF Kinds
  <2>2. Carriers(x) = {}
    BY <2>1, <1>6, <1>8, <1>9
  <2> QED
    BY <2>1, <2>2, <1>10 DEF StateOf, Contract!Acked
<1>11. ASSUME Letter(x) PROVE StateOf(x) = Contract!Dead
  <2>1. x \notin acked /\ F["job"] = {}
    BY <1>2, <1>3, <1>4, <1>11 DEF Kinds
  <2>2. Carriers(x) = {}
    BY <2>1, <1>6, <1>8, <1>9
  <2> QED
    BY <2>1, <2>2, <1>7, <1>11 DEF StateOf, Contract!Dead
<1>12. ASSUME NEW w \in Worker, Carried(x, w) PROVE StateOf(x) = Contract!Spent(job[w].topic)
  <2>1. F["job"] # {}
    BY <1>6, <1>12
  <2>2. x \notin acked /\ ~DeadLettered(x) /\ Lone(F["job"])
    BY <2>1, <1>2, <1>3, <1>4, <1>7 DEF Kinds
  <2>3. \A v \in Worker : Carried(x, v) => v = w
    <3> SUFFICES ASSUME NEW v \in Worker, Carried(x, v) PROVE v = w
      OBVIOUS
    <3>1. <<"job", v>> = <<"job", w>>
      BY <2>2, <1>6, <1>12 DEF Lone
    <3> QED
      BY <3>1
  <2>4. Carriers(x) = {w}
    BY <2>3, <1>8, <1>9, <1>12
  <2>5. (CHOOSE v \in Carriers(x) : TRUE) = w
    BY <2>4
  <2> QED
    BY <2>2, <2>4, <2>5 DEF StateOf, Contract!Spent
<1>13. ASSUME NEW item \in Item, CopyOf(item) = x, Waiting(item)
       PROVE StateOf(x) = Contract!Live(item.attempt)
  <2>1. item \in LiveItems
    BY <1>13, LiveItemsCut
  <2>2. PICK k \in ItemKinds : item \in ItemsOf[k]
    BY <2>1, LiveItemsCut
  <2>3. /\ F[k] # {}
        /\ Lone(F[k]) => \A other \in ItemsOf[k] : CopyOf(other) = x => other = item
    BY <2>2, <1>13, ItemsPlaced DEF F
  <2>4. k \in Kinds /\ k # "acked" /\ k # "dead"
    BY DEF ItemKinds, Kinds
  <2>5. Lone(F[k]) /\ \A l \in Kinds \ {k} : F[l] = {}
    BY <2>3, <2>4, <1>2
  <2>6. x \notin acked /\ ~DeadLettered(x)
    BY <2>4, <2>5, <1>3, <1>4, <1>7 DEF Kinds
  <2>7. ASSUME NEW other \in LiveItems, CopyOf(other) = x PROVE other = item
    <3>1. PICK l \in ItemKinds : other \in ItemsOf[l]
      BY LiveItemsCut
    <3>2. F[l] # {}
      BY <2>7, <3>1, ItemsPlaced DEF F
    <3>3. l = k
      BY <2>5, <3>2 DEF ItemKinds, Kinds
    <3> QED
      BY <2>3, <2>5, <2>7, <3>1, <3>3
  <2>8. (CHOOSE i \in LiveItems : CopyOf(i) = x) = item
    BY <2>1, <2>7, <1>13
  <2>9. Carriers(x) = {}
    <3> SUFFICES ASSUME NEW w \in Worker, Carried(x, w) PROVE FALSE
      BY <1>8, <1>9
    <3>1. <<"job", w>> \in F["job"]
      BY <1>6
    <3>2. k = "job"
      BY <3>1, <2>5 DEF Kinds
    <3>3. \A l \in ItemKinds \ {"job"} : item \notin ItemsOf[l]
      <4> SUFFICES ASSUME NEW l \in ItemKinds \ {"job"}, item \in ItemsOf[l] PROVE FALSE
        OBVIOUS
      <4>1. F[l] # {}
        BY <1>13, ItemsPlaced DEF F
      <4> QED
        BY <4>1, <3>2, <2>5 DEF ItemKinds, Kinds
    <3>4. PICK v \in Worker : job[v].pc = "reject" /\ job[v].item = item
      BY <3>3, <1>13, WaitingKinds
    <3>5. <<"job", v>> \in F["job"]
      BY <3>4, <1>13, <1>5 DEF Item
    <3>6. <<"job", v>> = <<"job", w>>
      BY <3>1, <3>2, <3>5, <2>5 DEF Lone
    <3> QED
      BY <3>4, <3>6 DEF Carried
  <2> QED
    BY <2>6, <2>8, <2>9 DEF StateOf, Contract!Live, Attempt
<1>14. x.sub \in Sub
  BY DEF Copy
<1>15. Somewhere(x)
  <2>1. PICK k \in Kinds : F[k] # {}
    BY <1>1 DEF OnePart, F
  <2>2. CASE k = "acked"
    BY <2>1, <2>2 DEF F, Parts, AckedPlaces, Somewhere
  <2>3. CASE k = "dead"
    <3>1. PICK p \in DeadPlaces(log, x) : TRUE
      BY <2>1, <2>3 DEF F, Parts
    <3>2. PICK t \in Topic : \E i \in DOMAIN log[t] : log[t][i] = x /\ p = <<"dead", t, i>>
      BY <3>1, LettersAre
    <3> QED
      BY <3>2 DEF Letter, Somewhere
  <2>4. CASE k = "job"
    <3>1. PICK w \in Worker : job[w].item # None /\ CopyOf(job[w].item) = x
      BY <2>1, <2>4 DEF F, Parts, JobPlaces
    <3>2. job[w].pc \in {"reject", "route"}
      BY <3>1 DEF PlaceInv, JobHolds
    <3>3. job[w].item \in Item
      <4>1. job[w] \in Job
        BY DEF TypeInv, TypeOK
      <4> QED
        BY <4>1, <3>1 DEF Job
    <3> QED
      BY <3>1, <3>2, <3>3 DEF Somewhere, Waiting, InBacklog, InDraining, InChannel, InHands, InReject, Carried
  <2>5. CASE k \in ItemKinds \ {"job"}
    <3>1. PICK item \in ItemsOf[k] : CopyOf(item) = x
      <4>1. CASE k = "backlog"
        BY <2>1, <4>1, <1>14 DEF F, Parts, BacklogPlaces, Where, ItemsOf
      <4>2. CASE k = "draining"
        BY <2>1, <4>2 DEF F, Parts, DrainingPlaces, Where, ItemsOf
      <4>3. CASE k = "channel"
        <5>1. PICK p \in ChannelPlaces(chan, x) : TRUE
          BY <2>1, <4>3 DEF F, Parts
        <5>2. PICK c \in ConsumerId : \E i \in DOMAIN chan[c] :
                 CopyOf(chan[c][i].item) = x /\ p = <<"channel", c, i>>
          BY <5>1, ChannelPlacesAre
        <5> QED
          BY <5>2, <4>3 DEF ItemsOf
      <4>4. CASE k = "held"
        BY <2>1, <4>4 DEF F, Parts, HeldPlaces, ItemsOf
      <4>5. CASE k = "timer"
        BY <2>1, <4>5 DEF F, Parts, TimerPlaces, ItemsOf
      <4> QED
        BY <2>5, <4>1, <4>2, <4>3, <4>4, <4>5 DEF ItemKinds
    <3>2. item \in Item
      BY <2>5, ItemsTyped
    <3>3. Waiting(item)
      BY <2>5 DEF ItemKinds, ItemsOf, Waiting, InBacklog, InDraining, InChannel, InHands, InReject
    <3> QED
      BY <3>1, <3>2, <3>3 DEF Somewhere
  <2> QED
    BY <2>2, <2>3, <2>4, <2>5 DEF Kinds, ItemKinds
<1> QED
  <2>1. States[x] = StateOf(x)
    BY DEF States
  <2> QED
    BY <2>1, <1>10, <1>11, <1>12, <1>13, <1>15 DEF StateRight

LEMMA StatesHold == TypeInv /\ PlaceInv => StatesRight
<1> SUFFICES ASSUME TypeInv, PlaceInv PROVE StatesRight
  OBVIOUS
<1>1. \A x \in Copies : x \in Copy
  BY CopiesTyped
<1>2. \A x \in Copies : StateRight(x)
  BY <1>1, StateIsRight
<1>3. ASSUME NEW item \in Item, Waiting(item) PROVE CopyOf(item) \in Copies
  <2>1. PICK k \in ItemKinds : item \in ItemsOf[k]
    BY <1>3, LiveItemsCut
  <2>2. CopyOf(item) \in Copy
    BY CopyTypes
  <2>3. Parts(CopyOf(item))[k] # {}
    BY <2>1, <2>2, ItemsPlaced
  <2> QED
    BY <2>2, <2>3, PlaceKinds DEF NoPart, ItemKinds, Kinds
<1>4. ASSUME NEW x \in Copy, NEW w \in Worker, Carried(x, w) PROVE x \in Copies
  <2>1. Parts(x)["job"] # {}
    BY <1>4, PlaceKinds DEF Carried
  <2> QED
    BY <2>1, PlaceKinds DEF NoPart, Kinds
<1> QED
  BY <1>2, <1>3, <1>4 DEF StatesRight, OnlyCopies

--------------------------------------------------------------------------------
\* The contract's copies, and what they are of the states.
CopiesNow == [s \in Sub |-> CopiesOf(s)]

Got(s) == IF topicOf[s] = None THEN 0 ELSE Len(log[topicOf[s]]) - created[s]

CopiesCut ==
    \A s \in Sub :
        /\ Got(s) \in Nat
        /\ CopiesNow[s] = [i \in 1..Got(s) |-> States[[sub |-> s, at |-> created[s] + i]]]
        /\ \A i \in 1..Got(s) : [sub |-> s, at |-> created[s] + i] \in Copies

LEMMA CopiesAreCut == TypeInv /\ PlaceInv => CopiesCut
<1> SUFFICES ASSUME TypeInv, PlaceInv, NEW s \in Sub
             PROVE  /\ Got(s) \in Nat
                    /\ CopiesNow[s] = [i \in 1..Got(s) |-> States[[sub |-> s, at |-> created[s] + i]]]
                    /\ \A i \in 1..Got(s) : [sub |-> s, at |-> created[s] + i] \in Copies
  BY DEF CopiesCut
<1>1. CASE topicOf[s] = None
  <2>1. Got(s) = 0
    BY <1>1 DEF Got
  <2>2. CopiesNow[s] = <<>>
    BY <1>1 DEF CopiesNow, CopiesOf
  <2>3. <<>> = [i \in 1..0 |-> States[[sub |-> s, at |-> created[s] + i]]]
    OBVIOUS
  <2> QED
    BY <2>1, <2>2, <2>3
<1>2. CASE topicOf[s] # None
  <2>1. topicOf[s] \in Topic /\ created[s] \in Nat /\ Len(log[topicOf[s]]) \in Nat
    BY <1>2 DEF TypeInv, TypeOK
  <2>2. Got(s) = Len(log[topicOf[s]]) - created[s] /\ Got(s) \in Nat
    BY <1>2, <2>1 DEF Got, PlaceInv, CreatedBefore
  <2>3. ASSUME NEW i \in 1..Got(s) PROVE [sub |-> s, at |-> created[s] + i] \in Copies
    <3>1. created[s] + i \in created[s] + 1 .. Len(log[topicOf[s]])
      BY <2>1, <2>2
    <3>2. [sub |-> s, at |-> created[s] + i] \in Copy
      BY <2>1 DEF Copy
    <3> QED
      BY <1>2, <3>1, <3>2, CopiesAre
  <2>4. CopiesNow[s] = [i \in 1..Got(s) |-> StateOf([sub |-> s, at |-> created[s] + i])]
    BY <1>2, <2>2 DEF CopiesNow, CopiesOf
  <2>5. \A i \in 1..Got(s) : States[[sub |-> s, at |-> created[s] + i]]
                             = StateOf([sub |-> s, at |-> created[s] + i])
    BY <2>3 DEF States
  <2> QED
    BY <2>2, <2>3, <2>4, <2>5
<1> QED
  BY <1>1, <1>2

\* What is known on both sides of a step.
Sound == TypeInv /\ PlaceInv /\ StatesRight /\ CopiesCut

\* Wherever copy x was, it is still there, or waits at the same attempt elsewhere.
Keeps(x) ==
    /\ x \in acked => x \in acked'
    /\ Letter(x) => Letter(x)'
    /\ \A w \in Worker : Carried(x, w) => Carried(x, w)' /\ job'[w].topic = job[w].topic
    /\ \A item \in Item : CopyOf(item) = x /\ Waiting(item) => Waiting(item)'

LEMMA StateKept ==
  ASSUME Sound, Sound', NEW x \in Copies, x \in Copies', Keeps(x)
  PROVE  States'[x] = States[x]
<1>1. StateRight(x) /\ StateRight(x)'
  BY DEF Sound, StatesRight
<1>2. CASE x \in acked
  BY <1>1, <1>2 DEF StateRight, Keeps, Contract!Acked
<1>3. CASE Letter(x)
  BY <1>1, <1>3 DEF StateRight, Keeps, Contract!Dead
<1>4. ASSUME NEW w \in Worker, Carried(x, w) PROVE States'[x] = States[x]
  <2>1. Carried(x, w)' /\ job'[w].topic = job[w].topic
    BY <1>4 DEF Keeps
  <2>2. States'[x] = Contract!Spent(job'[w].topic)
    BY <1>1, <2>1 DEF StateRight, Contract!Spent
  <2>3. States[x] = Contract!Spent(job[w].topic)
    BY <1>1, <1>4 DEF StateRight
  <2> QED
    BY <2>1, <2>2, <2>3
<1>5. ASSUME NEW item \in Item, CopyOf(item) = x, Waiting(item) PROVE States'[x] = States[x]
  BY <1>1, <1>5 DEF StateRight, Keeps, Contract!Live
<1> QED
  BY <1>1, <1>2, <1>3, <1>4, <1>5 DEF StateRight, Somewhere

LEMMA GotSame ==
  ASSUME NEW s \in Sub, topicOf' = topicOf, created' = created, log' = log
  PROVE  Got(s)' = Got(s)
  BY DEF Got

LEMMA NoneMoves ==
  ASSUME Sound, Sound', topicOf' = topicOf, created' = created, log' = log,
         \A x \in Copies : Keeps(x)
  PROVE  CopiesNow' = CopiesNow
<1>1. Copies' = Copies
  BY CopiesSame
<1>2. \A x \in Copies : States'[x] = States[x]
  BY <1>1, StateKept
<1>3. ASSUME NEW s \in Sub PROVE CopiesNow'[s] = CopiesNow[s]
  <2>1. Got(s)' = Got(s)
    BY GotSame
  <2>2. CopiesNow[s] = [i \in 1..Got(s) |-> States[[sub |-> s, at |-> created[s] + i]]]
        /\ \A i \in 1..Got(s) : [sub |-> s, at |-> created[s] + i] \in Copies
    BY DEF Sound, CopiesCut
  <2>3. CopiesNow'[s] = [i \in 1..Got(s)' |-> States'[[sub |-> s, at |-> created'[s] + i]]]
    BY DEF Sound, CopiesCut
  <2> QED
    BY <1>2, <2>1, <2>2, <2>3
<1> QED
  BY <1>3 DEF CopiesNow

LEMMA ExceptIs ==
  ASSUME NEW D, NEW f, NEW g, f = [i \in D |-> f[i]], g = [i \in D |-> g[i]],
         NEW k \in D, NEW v, g[k] = v, \A i \in D \ {k} : g[i] = f[i]
  PROVE  g = [f EXCEPT ![k] = v]
  OBVIOUS

\* Where the copy x is in the contract.
At(x) == x.at - created[x.sub]

LEMMA CopyParts ==
  ASSUME Sound, NEW x \in Copies
  PROVE  /\ x.sub \in Sub /\ x = [sub |-> x.sub, at |-> x.at]
         /\ At(x) \in 1..Got(x.sub) /\ created[x.sub] + At(x) = x.at
         /\ created[x.sub] \in Nat /\ x.at \in Nat /\ topicOf[x.sub] \in Topic
<1>1. x \in Copy
  BY CopiesTyped DEF Sound
<1>2. topicOf[x.sub] # None /\ x.at \in created[x.sub] + 1 .. Len(log[topicOf[x.sub]])
  BY <1>1, CopiesAre
<1>3. x.sub \in Sub /\ x = [sub |-> x.sub, at |-> x.at] /\ x.at \in Nat
  BY <1>1 DEF Copy
<1>4. created[x.sub] \in Nat /\ topicOf[x.sub] \in Topic
  BY <1>2, <1>3 DEF Sound, TypeInv, TypeOK
<1>5. Len(log[topicOf[x.sub]]) \in Nat
  BY <1>4 DEF Sound, TypeInv, TypeOK
<1> QED
  BY <1>2, <1>3, <1>4, <1>5 DEF At, Got

\* The contract's copies with the state of one of them changed.
LEMMA OneDiffers ==
  ASSUME Sound, NEW x \in Copies, NEW next, \A y \in Copies \ {x} : next[y] = States[y]
  PROVE  /\ At(x) \in DOMAIN CopiesNow[x.sub]
         /\ CopiesNow[x.sub][At(x)] = States[x]
         /\ [s \in Sub |-> [i \in 1..Got(s) |-> next[[sub |-> s, at |-> created[s] + i]]]]
            = [CopiesNow EXCEPT ![x.sub][At(x)] = next[x]]
<1> DEFINE then(s) == [i \in 1..Got(s) |-> next[[sub |-> s, at |-> created[s] + i]]]
<1>1. /\ x.sub \in Sub /\ x = [sub |-> x.sub, at |-> x.at]
      /\ At(x) \in 1..Got(x.sub) /\ created[x.sub] + At(x) = x.at
      /\ created[x.sub] \in Nat /\ x.at \in Nat
  BY CopyParts
<1>2. ASSUME NEW s \in Sub
      PROVE  /\ CopiesNow[s] = [i \in 1..Got(s) |-> States[[sub |-> s, at |-> created[s] + i]]]
             /\ \A i \in 1..Got(s) : [sub |-> s, at |-> created[s] + i] \in Copies
             /\ Got(s) \in Nat
  BY DEF Sound, CopiesCut
<1>3. ASSUME NEW s \in Sub, s # x.sub PROVE then(s) = CopiesNow[s]
  <2>1. ASSUME NEW i \in 1..Got(s)
        PROVE  next[[sub |-> s, at |-> created[s] + i]] = States[[sub |-> s, at |-> created[s] + i]]
    <3>1. PICK y \in Copies : y = [sub |-> s, at |-> created[s] + i]
      BY <1>2
    <3>2. y # x
      BY <3>1, <1>3
    <3> QED
      BY <3>1, <3>2
  <2>2. then(s) = [i \in 1..Got(s) |-> States[[sub |-> s, at |-> created[s] + i]]]
    BY <2>1
  <2> QED
    BY <1>2, <2>2
<1>4. /\ At(x) \in DOMAIN CopiesNow[x.sub]
      /\ CopiesNow[x.sub][At(x)] = States[x]
      /\ then(x.sub) = [CopiesNow[x.sub] EXCEPT ![At(x)] = next[x]]
  <2> DEFINE s == x.sub
             name(i) == [sub |-> s, at |-> created[s] + i]
             f == CopiesNow[s]
             g == then(s)
  <2>1. /\ f = [i \in 1..Got(s) |-> States[name(i)]]
        /\ g = [i \in 1..Got(s) |-> next[name(i)]]
        /\ \A i \in 1..Got(s) : name(i) \in Copies
    BY <1>1, <1>2
  <2>2. name(At(x)) = x
    BY <1>1
  <2>3. ASSUME NEW i \in 1..Got(s), i # At(x) PROVE name(i) # x
    <3>1. created[s] + i # x.at
      BY <1>1, <1>2, <2>3
    <3>2. name(i).at = created[s] + i
      OBVIOUS
    <3> QED
      BY <3>1, <3>2
  <2> HIDE DEF name, f, g, then
  <2>4. \A i \in 1..Got(s) : next[name(i)] = IF i = At(x) THEN next[x] ELSE States[name(i)]
    BY <2>1, <2>2, <2>3
  <2> HIDE DEF s
  <2>5. At(x) \in 1..Got(s)
    BY <1>1 DEF s
  <2>6. At(x) \in DOMAIN f /\ f[At(x)] = States[x]
    BY <2>1, <2>2, <2>5
  <2>7. f = [i \in 1..Got(s) |-> f[i]] /\ g = [i \in 1..Got(s) |-> g[i]]
    BY <2>1
  <2>8. g[At(x)] = next[x] /\ \A i \in 1..Got(s) \ {At(x)} : g[i] = f[i]
    BY <2>1, <2>4, <2>5
  <2>9. g = [f EXCEPT ![At(x)] = next[x]]
    BY <2>5, <2>7, <2>8, ExceptIs
  <2> QED
    BY <2>6, <2>9 DEF f, g, s
<1> HIDE DEF then
<1>5. [s \in Sub |-> then(s)] = [CopiesNow EXCEPT ![x.sub][At(x)] = next[x]]
  BY <1>1, <1>3, <1>4 DEF CopiesNow
<1> QED
  BY <1>4, <1>5 DEF then

LEMMA OneMoves ==
  ASSUME Sound, Sound', topicOf' = topicOf, created' = created, log' = log,
         NEW x \in Copies, \A y \in Copies \ {x} : Keeps(y)
  PROVE  /\ x.sub \in Sub /\ At(x) \in DOMAIN CopiesNow[x.sub]
         /\ CopiesNow[x.sub][At(x)] = States[x]
         /\ CopiesNow' = [CopiesNow EXCEPT ![x.sub][At(x)] = States'[x]]
<1>1. Copies' = Copies
  BY CopiesSame
<1>2. \A y \in Copies \ {x} : States'[y] = States[y]
  BY <1>1, StateKept
<1>3. /\ At(x) \in DOMAIN CopiesNow[x.sub]
      /\ CopiesNow[x.sub][At(x)] = States[x]
      /\ [s \in Sub |-> [i \in 1..Got(s) |-> States'[[sub |-> s, at |-> created[s] + i]]]]
         = [CopiesNow EXCEPT ![x.sub][At(x)] = States'[x]]
  BY <1>2, OneDiffers
<1>4. ASSUME NEW s \in Sub
      PROVE  CopiesNow'[s] = [i \in 1..Got(s) |-> States'[[sub |-> s, at |-> created[s] + i]]]
  <2>1. Got(s)' = Got(s)
    BY GotSame
  <2>2. CopiesNow'[s] = [i \in 1..Got(s)' |-> States'[[sub |-> s, at |-> created'[s] + i]]]
    BY DEF Sound, CopiesCut
  <2> QED
    BY <2>1, <2>2
<1>5. CopiesNow' = [s \in Sub |-> [i \in 1..Got(s) |-> States'[[sub |-> s, at |-> created[s] + i]]]]
  BY <1>4 DEF CopiesNow
<1> QED
  BY <1>3, <1>5, CopyParts

--------------------------------------------------------------------------------
\* A place that a step leaves alone holds what it held; a thread settles on.
LEMMA PlacesKeep ==
  ASSUME NEW item
  PROVE  /\ backlog' = backlog => (InBacklog(item) => InBacklog(item)')
         /\ draining' = draining => (InDraining(item) => InDraining(item)')
         /\ chan' = chan => (InChannel(item) => InChannel(item)')
         /\ held' = held => (InHands(item) => InHands(item)')
<1>1. ASSUME backlog' = backlog, InBacklog(item) PROVE InBacklog(item)'
  BY <1>1 DEF InBacklog
<1>2. ASSUME draining' = draining, InDraining(item) PROVE InDraining(item)'
  BY <1>2 DEF InDraining
<1>3. ASSUME chan' = chan, InChannel(item) PROVE InChannel(item)'
  BY <1>3 DEF InChannel
<1>4. ASSUME held' = held, InHands(item) PROVE InHands(item)'
  BY <1>4 DEF InHands
<1> QED
  BY <1>1, <1>2, <1>3, <1>4

\* One thread changes, and it carries nothing of x before.
LEMMA ThreadsKeep ==
  ASSUME TypeInv, NEW x, NEW w \in Worker, NEW j, job' = [job EXCEPT ![w] = j],
         job[w].pc \in {"reject", "route"} /\ job[w].item # None => CopyOf(job[w].item) # x
  PROVE  /\ \A v \in Worker : Carried(x, v) => Carried(x, v)' /\ job'[v].topic = job[v].topic
         /\ \A item \in Item : CopyOf(item) = x /\ InReject(item) => InReject(item)'
         /\ job'[w] = j /\ \A v \in Worker \ {w} : job'[v] = job[v]
<1>1. job'[w] = j /\ \A v \in Worker \ {w} : job'[v] = job[v]
  BY DEF TypeInv, TypeOK
<1>2. ASSUME NEW v \in Worker, Carried(x, v) PROVE Carried(x, v)' /\ job'[v].topic = job[v].topic
  <2>1. v # w
    BY <1>2 DEF Carried
  <2> QED
    BY <1>1, <1>2, <2>1 DEF Carried
<1>3. ASSUME NEW item \in Item, CopyOf(item) = x, InReject(item) PROVE InReject(item)'
  <2>1. PICK v \in Worker : job[v].pc = "reject" /\ job[v].item = item
    BY <1>3 DEF InReject
  <2>2. v # w
    BY <1>3, <2>1 DEF Item
  <2> QED
    BY <1>1, <2>1, <2>2 DEF InReject
<1> QED
  BY <1>1, <1>2, <1>3

\* Logs that stay, or get one more entry.
LEMMA LettersKeep ==
  ASSUME TypeInv, NEW x,
         \A t \in Topic : log'[t] = log[t]
                          \/ \E e \in Copy \cup {None} : log'[t] = Append(log[t], e)
  PROVE  Letter(x) => Letter(x)'
<1> SUFFICES ASSUME Letter(x) PROVE Letter(x)'
  OBVIOUS
<1>1. PICK t \in Topic : \E i \in DOMAIN log[t] : log[t][i] = x
  BY DEF Letter
<1>2. PICK i \in DOMAIN log[t] : log[t][i] = x
  BY <1>1
<1>3. log[t] \in Seq(Copy \cup {None})
  BY DEF TypeInv, TypeOK
<1>4. i \in DOMAIN log'[t] /\ log'[t][i] = x
  <2>1. CASE log'[t] = log[t]
    BY <1>2, <2>1
  <2>2. ASSUME NEW e \in Copy \cup {None}, log'[t] = Append(log[t], e)
        PROVE i \in DOMAIN log'[t] /\ log'[t][i] = x
    BY <1>2, <1>3, <2>2, AppendAt
  <2> QED
    BY <2>1, <2>2
<1> QED
  BY <1>4 DEF Letter

\* A thread goes on that carries nothing of x.
LEMMA StillKeeps ==
  ASSUME TypeInv, NEW x, NEW w \in Worker, NEW j, job' = [job EXCEPT ![w] = j],
         UNCHANGED <<backlog, draining, chan, held, timers, log>>, acked \subseteq acked',
         job[w].pc \in {"reject", "route"} /\ job[w].item # None => CopyOf(job[w].item) # x
  PROVE  Keeps(x)
<1>1. \A item \in Item : CopyOf(item) = x /\ Waiting(item) => Waiting(item)'
  BY PlacesKeep, ThreadsKeep DEF Waiting
<1>2. Letter(x) => Letter(x)'
  BY DEF Letter
<1> QED
  BY <1>1, <1>2, ThreadsKeep DEF Keeps

LEMMA NothingKeeps ==
  ASSUME NEW x, UNCHANGED <<backlog, draining, chan, held, timers, log, acked, job>>
  PROVE  Keeps(x)
<1>1. \A item \in Item : Waiting(item) => Waiting(item)'
  BY PlacesKeep DEF Waiting, InReject
<1>2. Letter(x) => Letter(x)'
  BY DEF Letter
<1> QED
  BY <1>1, <1>2 DEF Keeps, Carried

\* What Hand does not touch stays in its channel or backlog, and what it hands out
\* waits in one.
LEMMA HandKeeps ==
  ASSUME TypeInv, RotationReads, NEW given, DOMAIN given \subseteq Sub,
         \A s \in DOMAIN given : given[s] \in Item,
         NEW harness \in BOOLEAN, Hand(given, harness)
  PROVE  /\ \A item : InBacklog(item) => InBacklog(item)'
         /\ \A item : InChannel(item) => InChannel(item)'
         /\ \A s \in DOMAIN given : \A item \in Item : item = given[s] => InBacklog(item)' \/ InChannel(item)'
<1>1. /\ \A c \in ConsumerId :
              chan'[c] = IF /\ subOf[c] \in DOMAIN given /\ consumers[subOf[c]] # {}
                            /\ c = NextConsumer(subOf[c])
                         THEN Append(chan[c], [item |-> given[subOf[c]], counted |-> harness])
                         ELSE chan[c]
      /\ \A s \in Sub :
              backlog'[s] = IF s \in DOMAIN given /\ consumers[s] = {}
                            THEN Append(backlog[s], given[s]) ELSE backlog[s]
  BY HandGives
<1>2. /\ \A s \in Sub : backlog[s] \in Seq(Item)
      /\ \A c \in ConsumerId : chan[c] \in Seq(Handed)
  BY DEF TypeInv, TypeOK
<1>3. ASSUME NEW item, InBacklog(item) PROVE InBacklog(item)'
  <2>1. PICK s \in Sub : \E i \in DOMAIN backlog[s] : backlog[s][i] = item
    BY <1>3 DEF InBacklog
  <2>2. PICK i \in DOMAIN backlog[s] : backlog[s][i] = item
    BY <2>1
  <2>3. i \in DOMAIN backlog'[s] /\ backlog'[s][i] = item
    <3>1. CASE backlog'[s] = backlog[s]
      BY <3>1, <2>2
    <3>2. CASE backlog'[s] = Append(backlog[s], given[s]) /\ s \in DOMAIN given
      <4>1. given[s] \in Item /\ backlog[s] \in Seq(Item)
        BY <1>2, <3>2
      <4> QED
        BY <3>2, <4>1, <2>2, AppendAt
    <3> QED
      BY <1>1, <3>1, <3>2
  <2> QED
    BY <2>3 DEF InBacklog
<1>4. ASSUME NEW item, InChannel(item) PROVE InChannel(item)'
  <2>1. PICK c \in ConsumerId : \E i \in DOMAIN chan[c] : chan[c][i].item = item
    BY <1>4 DEF InChannel
  <2>2. PICK i \in DOMAIN chan[c] : chan[c][i].item = item
    BY <2>1
  <2>3. i \in DOMAIN chan'[c] /\ chan'[c][i] = chan[c][i]
    <3> DEFINE h == [item |-> given[subOf[c]], counted |-> harness]
    <3>1. CASE chan'[c] = chan[c]
      BY <3>1, <2>2
    <3>2. CASE chan'[c] = Append(chan[c], h) /\ subOf[c] \in DOMAIN given
      <4>1. h \in Handed
        BY <3>2 DEF Handed
      <4> HIDE DEF h
      <4>2. chan[c] \in Seq(Handed)
        BY <1>2
      <4> QED
        BY <3>2, <4>1, <4>2, <2>2, AppendAt
    <3> QED
      BY <1>1, <3>1, <3>2
  <2> QED
    BY <2>2, <2>3 DEF InChannel
<1>5. ASSUME NEW s \in DOMAIN given, NEW item \in Item, item = given[s]
      PROVE  InBacklog(item)' \/ InChannel(item)'
  <2>1. CASE consumers[s] = {}
    <3>1. backlog'[s] = Append(backlog[s], given[s]) /\ backlog[s] \in Seq(Item) /\ given[s] \in Item
      BY <1>1, <1>2, <2>1
    <3>2. Len(backlog[s]) + 1 \in DOMAIN backlog'[s] /\ backlog'[s][Len(backlog[s]) + 1] = given[s]
      BY <3>1
    <3> QED
      BY <3>2, <1>5 DEF InBacklog
  <2>2. CASE consumers[s] # {}
    <3> DEFINE c == NextConsumer(s)
               h == [item |-> given[s], counted |-> harness]
    <3>1. c \in ConsumerId /\ subOf[c] = s
      BY <2>2, NextConsumerIn, HandReaches DEF TypeInv, TypeOK
    <3>2. chan'[c] = Append(chan[c], h) /\ chan[c] \in Seq(Handed)
      BY <1>1, <1>2, <2>2, <3>1
    <3>3. h \in Handed /\ h.item = given[s]
      BY DEF Handed
    <3> HIDE DEF c, h
    <3>4. Len(chan[c]) + 1 \in DOMAIN chan'[c] /\ chan'[c][Len(chan[c]) + 1] = h
      BY <3>2, <3>3, AppendAt
    <3> QED
      BY <3>1, <3>3, <3>4, <1>5 DEF InChannel
  <2> QED
    BY <2>1, <2>2
<1> QED
  BY <1>3, <1>4, <1>5

\* The head of a channel leaves it; the rest waits where it did.
LEMMA HeadLeaves ==
  ASSUME TypeInv, NEW c \in ConsumerId, chan[c] # <<>>, chan' = [chan EXCEPT ![c] = Tail(@)],
         NEW item, InChannel(item)
  PROVE  InChannel(item)' \/ item = Head(chan[c]).item
<1>1. PICK e \in ConsumerId : \E i \in DOMAIN chan[e] : chan[e][i].item = item
  BY DEF InChannel
<1>2. PICK i \in DOMAIN chan[e] : chan[e][i].item = item
  BY <1>1
<1>3. chan[c] \in Seq(Handed) /\ chan'[c] = Tail(chan[c])
      /\ (\A b \in ConsumerId \ {c} : chan'[b] = chan[b])
  BY DEF TypeInv, TypeOK
<1>4. CASE e # c
  BY <1>2, <1>3, <1>4 DEF InChannel
<1>5. CASE e = c /\ i = 1
  BY <1>2, <1>3, <1>5
<1>6. CASE e = c /\ i # 1
  <2>1. i - 1 \in DOMAIN Tail(chan[c]) /\ Tail(chan[c])[i - 1] = chan[c][i]
    BY <1>2, <1>3, <1>6
  <2>2. chan'[c][i - 1].item = item /\ i - 1 \in DOMAIN chan'[c]
    BY <1>2, <1>3, <1>6, <2>1
  <2> QED
    BY <2>2 DEF InChannel
<1> QED
  BY <1>4, <1>5, <1>6

LEMMA PollKeeps ==
  ASSUME TypeInv, NEW x, NEW c \in ConsumerId, Poll(c)
  PROVE  Keeps(x)
<1> DEFINE d == [item |-> Head(chan[c]).item, counted |-> Head(chan[c]).counted,
                 reported |-> policy[subOf[c]] # None, cap |-> capOf[c]]
<1>1. /\ chan[c] # <<>> /\ chan' = [chan EXCEPT ![c] = Tail(@)] /\ held' = held \cup {d}
      /\ UNCHANGED <<backlog, draining, timers, log, acked, job>>
  BY DEF Poll, subVars, lockVars, historyVars
<1>2. d.item = Head(chan[c]).item /\ d \in held' /\ held \subseteq held'
  BY <1>1
<1> HIDE DEF d
<1>3. ASSUME NEW item \in Item, Waiting(item) PROVE Waiting(item)'
  <2>1. InChannel(item) => InChannel(item)' \/ InHands(item)'
    BY <1>1, <1>2, HeadLeaves DEF InHands
  <2>2. InHands(item) => InHands(item)'
    BY <1>2 DEF InHands
  <2>3. (InBacklog(item) => InBacklog(item)') /\ (InDraining(item) => InDraining(item)')
    BY <1>1, PlacesKeep
  <2>4. (InReject(item) => InReject(item)') /\ (item \in timers => item \in timers')
    BY <1>1 DEF InReject
  <2> QED
    BY <1>3, <2>1, <2>2, <2>3, <2>4 DEF Waiting
<1>4. Letter(x) => Letter(x)'
  BY <1>1 DEF Letter
<1> QED
  BY <1>1, <1>3, <1>4 DEF Keeps, Carried

\* The thread that takes a message on to reject it.
LEMMA CancelNextKeeps ==
  ASSUME TypeInv, NEW x, NEW w \in Worker, CancelNext(w)
  PROVE  Keeps(x)
<1> DEFINE c == job[w].consumer
           j == [job[w] EXCEPT !.pc = "reject", !.item = Head(chan[c]).item,
                               !.counted = Head(chan[c]).counted]
<1>1. /\ job[w].pc = "cancel" /\ chan[c] # <<>> /\ chan' = [chan EXCEPT ![c] = Tail(@)]
      /\ job' = [job EXCEPT ![w] = j]
      /\ UNCHANGED <<backlog, draining, held, timers, log, acked>>
  BY DEF CancelNext, subVars, lockVars, historyVars
<1>2. c \in ConsumerId /\ job[w] \in Job
  BY <1>1 DEF TypeInv, TypeOK, JobFields
<1>3. j.pc = "reject" /\ j.item = Head(chan[c]).item
  BY <1>2 DEF Job
<1> HIDE DEF c, j
<1>4. /\ \A v \in Worker : Carried(x, v) => Carried(x, v)' /\ job'[v].topic = job[v].topic
      /\ \A item \in Item : CopyOf(item) = x /\ InReject(item) => InReject(item)'
      /\ job'[w] = j
  BY <1>1, ThreadsKeep
<1>5. ASSUME NEW item \in Item, CopyOf(item) = x, Waiting(item) PROVE Waiting(item)'
  <2>1. InChannel(item) => InChannel(item)' \/ InReject(item)'
    <3>1. InChannel(item) => InChannel(item)' \/ item = Head(chan[c]).item
      BY <1>1, <1>2, HeadLeaves
    <3>2. item = Head(chan[c]).item => InReject(item)'
      BY <1>3, <1>4 DEF InReject
    <3> QED
      BY <3>1, <3>2
  <2>2. /\ InBacklog(item) => InBacklog(item)'
        /\ InDraining(item) => InDraining(item)'
        /\ InHands(item) => InHands(item)'
    BY <1>1, PlacesKeep
  <2> QED
    BY <1>1, <1>4, <1>5, <2>1, <2>2 DEF Waiting
<1>6. Letter(x) => Letter(x)'
  BY <1>1 DEF Letter
<1> QED
  BY <1>1, <1>4, <1>5, <1>6 DEF Keeps

\* A delivery that a handler lets go of waits with the thread or on a timer.
LEMMA HandlerKeeps ==
  ASSUME TypeInv, NEW x, NEW d \in held, held' = held \ {d}, NEW w \in Worker, NEW j,
         job' = [job EXCEPT ![w] = j], job[w].pc = "idle",
         UNCHANGED <<backlog, draining, chan, log>>, timers \subseteq timers', acked \subseteq acked',
         CopyOf(d.item) = x => (j.pc = "reject" /\ j.item = d.item) \/ d.item \in timers'
  PROVE  Keeps(x)
<1>1. /\ \A v \in Worker : Carried(x, v) => Carried(x, v)' /\ job'[v].topic = job[v].topic
      /\ \A item \in Item : CopyOf(item) = x /\ InReject(item) => InReject(item)'
      /\ job'[w] = j
  BY ThreadsKeep
<1>2. ASSUME NEW item \in Item, CopyOf(item) = x, Waiting(item) PROVE Waiting(item)'
  <2>1. InHands(item) => InHands(item)' \/ item = d.item
    BY DEF InHands
  <2>2. item = d.item => InReject(item)' \/ item \in timers'
    BY <1>1, <1>2 DEF InReject
  <2>3. /\ InBacklog(item) => InBacklog(item)'
        /\ InDraining(item) => InDraining(item)'
        /\ InChannel(item) => InChannel(item)'
    BY PlacesKeep
  <2>4. item \in timers => item \in timers'
    OBVIOUS
  <2> QED
    BY <1>1, <1>2, <2>1, <2>2, <2>3, <2>4 DEF Waiting
<1>3. Letter(x) => Letter(x)'
  BY DEF Letter
<1> QED
  BY <1>1, <1>2, <1>3 DEF Keeps

LEMMA FireKeeps ==
  ASSUME TypeInv, NEW x, NEW w \in Worker, NEW fired \in timers, Fire(w, fired)
  PROVE  Keeps(x)
<1> DEFINE j == [Idle EXCEPT !.pc = "reject", !.item = fired]
<1>1. /\ job[w].pc = "idle" /\ timers' = timers \ {fired} /\ job' = [job EXCEPT ![w] = j]
      /\ UNCHANGED <<backlog, draining, chan, held, log, acked>>
  BY DEF Fire, subVars, lockVars, historyVars
<1>2. j.pc = "reject" /\ j.item = fired
  BY DEF Idle
<1> HIDE DEF j
<1>3. /\ \A v \in Worker : Carried(x, v) => Carried(x, v)' /\ job'[v].topic = job[v].topic
      /\ \A item \in Item : CopyOf(item) = x /\ InReject(item) => InReject(item)'
      /\ job'[w] = j
  BY <1>1, ThreadsKeep
<1>4. ASSUME NEW item \in Item, CopyOf(item) = x, Waiting(item) PROVE Waiting(item)'
  <2>1. item \in timers => item \in timers' \/ InReject(item)'
    BY <1>1, <1>2, <1>3 DEF InReject
  <2>2. /\ InBacklog(item) => InBacklog(item)'
        /\ InDraining(item) => InDraining(item)'
        /\ InChannel(item) => InChannel(item)'
        /\ InHands(item) => InHands(item)'
    BY <1>1, PlacesKeep
  <2> QED
    BY <1>3, <1>4, <2>1, <2>2 DEF Waiting
<1>5. Letter(x) => Letter(x)'
  BY <1>1 DEF Letter
<1> QED
  BY <1>1, <1>3, <1>4, <1>5 DEF Keeps

\* What a new consumer drains was the backlog; the lock is free, so nothing else
\* is being drained.
LEMMA OpenKeeps ==
  ASSUME TypeInv, PlaceInv, NEW x, NEW w \in Worker, Open(w)
  PROVE  Keeps(x)
<1> DEFINE s == job[w].desc.sub
           j == [Idle EXCEPT !.pc = "drain", !.consumer = opened + 1, !.counted = installed]
<1>1. /\ job[w].pc = "open" /\ lock = None /\ backlog' = [backlog EXCEPT ![s] = <<>>]
      /\ draining' = backlog[s] /\ job' = [job EXCEPT ![w] = j]
      /\ UNCHANGED <<chan, held, timers, log, acked>>
  BY DEF Open, Unlocked
<1>2. s \in Sub /\ draining = <<>>
  BY <1>1 DEF TypeInv, TypeOK, JobFields, PlaceInv, DrainIdle
<1> HIDE DEF j, s
<1>3. /\ \A v \in Worker : Carried(x, v) => Carried(x, v)' /\ job'[v].topic = job[v].topic
      /\ \A item \in Item : CopyOf(item) = x /\ InReject(item) => InReject(item)'
  BY <1>1, ThreadsKeep
<1>4. ASSUME NEW item \in Item, CopyOf(item) = x, Waiting(item) PROVE Waiting(item)'
  <2>1. ASSUME InBacklog(item) PROVE InBacklog(item)' \/ InDraining(item)'
    <3>1. PICK r \in Sub : \E i \in DOMAIN backlog[r] : backlog[r][i] = item
      BY <2>1 DEF InBacklog
    <3>2. r # s => backlog'[r] = backlog[r]
      BY <1>1 DEF TypeInv, TypeOK
    <3> QED
      BY <1>1, <3>1, <3>2 DEF InBacklog, InDraining
  <2>2. ~InDraining(item)
    BY <1>2 DEF InDraining
  <2>3. /\ InChannel(item) => InChannel(item)'
        /\ InHands(item) => InHands(item)'
    BY <1>1, PlacesKeep
  <2> QED
    BY <1>1, <1>3, <1>4, <2>1, <2>2, <2>3 DEF Waiting
<1>5. Letter(x) => Letter(x)'
  BY <1>1 DEF Letter
<1> QED
  BY <1>1, <1>3, <1>4, <1>5 DEF Keeps

LEMMA DrainKeeps ==
  ASSUME TypeInv, RotationReads, NEW x, NEW w \in Worker, Drain(w)
  PROVE  Keeps(x)
<1> DEFINE first == Head(draining)
           given == [s \in {first.sub} |-> first]
<1>1. /\ draining # <<>> /\ Hand(given, job[w].counted) /\ draining' = Tail(draining)
      /\ UNCHANGED <<held, timers, log, acked, job>>
  BY DEF Drain, historyVars
<1>2. draining \in Seq(Item) /\ first \in Item /\ first.sub \in Sub /\ job[w].counted \in BOOLEAN
  <2>1. draining \in Seq(Item) /\ job[w] \in Job
    BY DEF TypeInv, TypeOK
  <2>2. first \in Item
    BY <1>1, <2>1
  <2> QED
    BY <2>1, <2>2 DEF Item, Job
<1>3. DOMAIN given = {first.sub} /\ given[first.sub] = first
  OBVIOUS
<1> HIDE DEF given
<1>4. /\ \A item : InBacklog(item) => InBacklog(item)'
      /\ \A item : InChannel(item) => InChannel(item)'
      /\ \A item \in Item : item = first => InBacklog(item)' \/ InChannel(item)'
  <2> HIDE DEF first
  <2>1. DOMAIN given \subseteq Sub /\ \A s \in DOMAIN given : given[s] \in Item
    BY <1>2, <1>3
  <2>2. /\ \A item : InBacklog(item) => InBacklog(item)'
        /\ \A item : InChannel(item) => InChannel(item)'
        /\ \A s \in DOMAIN given : \A item \in Item : item = given[s] => InBacklog(item)' \/ InChannel(item)'
    BY <1>1, <1>2, <2>1, HandKeeps
  <2> QED
    BY <2>2, <1>3
<1>5. ASSUME NEW item \in Item, InDraining(item) PROVE InDraining(item)' \/ item = first
  <2>1. PICK i \in DOMAIN draining : draining[i] = item
    BY <1>5 DEF InDraining
  <2>2. CASE i = 1
    BY <1>2, <2>1, <2>2
  <2>3. CASE i # 1
    <3>1. i - 1 \in DOMAIN Tail(draining) /\ Tail(draining)[i - 1] = draining[i]
      BY <1>2, <2>1, <2>3
    <3> QED
      BY <1>1, <2>1, <3>1 DEF InDraining
  <2> QED
    BY <2>2, <2>3
<1>6. ASSUME NEW item \in Item, Waiting(item) PROVE Waiting(item)'
  <2>1. InDraining(item) => Waiting(item)'
    <3>1. item = first => InBacklog(item)' \/ InChannel(item)'
      BY <1>4
    <3> QED
      BY <1>5, <3>1 DEF Waiting
  <2>2. InHands(item) => InHands(item)'
    BY <1>1, PlacesKeep
  <2>3. (InReject(item) => InReject(item)') /\ (item \in timers => item \in timers')
    BY <1>1 DEF InReject
  <2>4. (InBacklog(item) => InBacklog(item)') /\ (InChannel(item) => InChannel(item)')
    BY <1>4
  <2> QED
    BY <1>6, <2>1, <2>2, <2>3, <2>4 DEF Waiting
<1>7. Letter(x) => Letter(x)'
  BY <1>1 DEF Letter
<1> QED
  BY <1>1, <1>6, <1>7 DEF Keeps, Carried

\* A message that is handed out again: every other copy is where it was, and it
\* waits at its next attempt.
LEMMA AgainKeeps ==
  ASSUME TypeInv, RotationReads, NEW x, NEW w \in Worker, Reject(w), ~Spent(job[w].item)
  PROVE  /\ CopyOf(job[w].item) # x => Keeps(x)
         /\ \A i \in Item : i = NextAttempt(job[w].item) => Waiting(i)'
         /\ NextAttempt(job[w].item) \in Item /\ job[w].item \in Item
         /\ CopyOf(NextAttempt(job[w].item)) = CopyOf(job[w].item)
         /\ NextAttempt(job[w].item).attempt
              = IF job[w].item.attempt = AttemptMax THEN job[w].item.attempt
                                                    ELSE job[w].item.attempt + 1
<1> DEFINE item == job[w].item
           next == NextAttempt(item)
           given == [s \in {item.sub} |-> next]
           j == Settled(job[w])
<1>1. /\ job[w].pc = "reject" /\ Hand(given, installed) /\ job' = [job EXCEPT ![w] = j]
      /\ UNCHANGED <<draining, held, timers, log, acked>>
  BY DEF Reject, lockVars, historyVars
<1>2. item \in Item /\ item.sub \in Sub /\ installed \in BOOLEAN
  BY <1>1 DEF TypeInv, TypeOK, JobFields, Item
<1>3. /\ next \in Item /\ CopyOf(next) = CopyOf(item)
      /\ next.attempt = IF item.attempt = AttemptMax THEN item.attempt ELSE item.attempt + 1
  <2>1. /\ next = [item EXCEPT !.attempt = IF @ = AttemptMax THEN @ ELSE @ + 1]
        /\ item.attempt \in 1..AttemptMax /\ AttemptMax \in Nat
    BY <1>2 DEF NextAttempt, Item
  <2>2. (IF item.attempt = AttemptMax THEN item.attempt ELSE item.attempt + 1) \in 1..AttemptMax
    BY <2>1
  <2> HIDE DEF item, next
  <2> QED
    BY <1>2, <2>1, <2>2 DEF Item, CopyOf
<1>4. DOMAIN given = {item.sub} /\ given[item.sub] = next
  OBVIOUS
<1> HIDE DEF given, next, item, j
<1>5. /\ \A i : InBacklog(i) => InBacklog(i)'
      /\ \A i : InChannel(i) => InChannel(i)'
      /\ \A i \in Item : i = next => InBacklog(i)' \/ InChannel(i)'
  <2>1. DOMAIN given \subseteq Sub /\ \A s \in DOMAIN given : given[s] \in Item
    BY <1>2, <1>3, <1>4
  <2>2. /\ \A i : InBacklog(i) => InBacklog(i)'
        /\ \A i : InChannel(i) => InChannel(i)'
        /\ \A s \in DOMAIN given : \A i \in Item : i = given[s] => InBacklog(i)' \/ InChannel(i)'
    BY <1>1, <1>2, <2>1, HandKeeps
  <2> QED
    BY <2>2, <1>4
<1>6. ASSUME CopyOf(item) # x PROVE Keeps(x)
  <2>1. /\ \A v \in Worker : Carried(x, v) => Carried(x, v)' /\ job'[v].topic = job[v].topic
        /\ \A i \in Item : CopyOf(i) = x /\ InReject(i) => InReject(i)'
    BY <1>1, <1>6, ThreadsKeep DEF item
  <2>2. ASSUME NEW i \in Item, CopyOf(i) = x, Waiting(i) PROVE Waiting(i)'
    <3>1. (InHands(i) => InHands(i)') /\ (InDraining(i) => InDraining(i)')
      BY <1>1, PlacesKeep
    <3>2. i \in timers => i \in timers'
      BY <1>1
    <3>3. (InBacklog(i) => InBacklog(i)') /\ (InChannel(i) => InChannel(i)')
      BY <1>5
    <3> QED
      BY <2>1, <2>2, <3>1, <3>2, <3>3 DEF Waiting
  <2>3. Letter(x) => Letter(x)'
    BY <1>1 DEF Letter
  <2> QED
    BY <1>1, <2>1, <2>2, <2>3 DEF Keeps
<1>7. \A i \in Item : i = next => Waiting(i)'
  BY <1>5 DEF Waiting
<1> QED
  BY <1>2, <1>3, <1>6, <1>7 DEF item, next

\* A message that is spent goes on in its thread's hands.
LEMMA SpendKeeps ==
  ASSUME TypeInv, NEW x, NEW w \in Worker, Reject(w), Spent(job[w].item)
  PROVE  /\ CopyOf(job[w].item) # x => Keeps(x)
         /\ job[w].item \in Item /\ (\A y : y = CopyOf(job[w].item) => Carried(y, w)')
         /\ job'[w].topic = policy[job[w].item.sub].topic
         /\ log' = log
<1> DEFINE j == [job[w] EXCEPT !.pc = "route", !.topic = policy[job[w].item.sub].topic]
<1>1. /\ job[w].pc = "reject" /\ job' = [job EXCEPT ![w] = j]
      /\ UNCHANGED <<backlog, chan, draining, held, timers, log, acked>>
  BY DEF Reject, lockVars, historyVars
<1>2. job[w] \in Job /\ job[w].item \in Item
  BY <1>1 DEF TypeInv, TypeOK, JobFields
<1>3. j.pc = "route" /\ j.item = job[w].item /\ j.topic = policy[job[w].item.sub].topic
  BY <1>2 DEF Job
<1> HIDE DEF j
<1>4. CopyOf(job[w].item) # x => Keeps(x)
  BY <1>1, StillKeeps
<1>5. job'[w] = j
  BY <1>1 DEF TypeInv, TypeOK
<1>6. \A y : y = CopyOf(job[w].item) => Carried(y, w)'
  <2>1. job'[w].item = job[w].item /\ job'[w].pc = "route" /\ job[w].item # None
    BY <1>2, <1>3, <1>5 DEF Item
  <2> QED
    BY <2>1 DEF Carried
<1> QED
  BY <1>1, <1>2, <1>3, <1>4, <1>5, <1>6

--------------------------------------------------------------------------------
\* A publish: what each attached subscription gets waits for its first delivery,
\* a dead-lettered message is a letter, and every other copy is where it was.
LEMMA RouteKeeps ==
  ASSUME TypeInv, RotationReads, NEW w \in Worker, Route(w)
  PROVE  LET t == job[w].topic
             item == job[w].item
             e == IF item = None THEN None ELSE CopyOf(item)
         IN /\ t \in Topic /\ e \in Copy \cup {None}
            /\ log'[t] = Append(log[t], e) /\ \A u \in Topic \ {t} : log'[u] = log[u]
            /\ topicOf' = topicOf /\ created' = created /\ policy' = policy
            /\ \A x : e # x => Keeps(x)
            /\ \A x : x = e => Letter(x)'
            /\ \A s \in Sub : \A i \in Item :
                  topicOf[s] = t /\ i = [sub |-> s, at |-> Len(log[t]) + 1, attempt |-> 1] => Waiting(i)'
<1> DEFINE t == job[w].topic
           item == job[w].item
           e == IF item = None THEN None ELSE CopyOf(item)
           fresh(s) == [sub |-> s, at |-> Len(log[t]) + 1, attempt |-> 1]
           given == [s \in {r \in Sub : topicOf[r] = t} |-> fresh(s)]
           j == Settled(job[w])
<1>1. /\ job[w].pc = "route" /\ log' = [log EXCEPT ![t] = Append(@, e)]
      /\ Hand(given, installed) /\ job' = [job EXCEPT ![w] = j]
      /\ UNCHANGED <<draining, held, timers, acked, topicOf, created, policy>>
  BY DEF Route, lockVars, historyVars
<1>2. t \in Topic /\ job[w] \in Job /\ installed \in BOOLEAN
  BY <1>1 DEF TypeInv, TypeOK, JobFields
<1>3. e \in Copy \cup {None}
  BY <1>2, CopyTypes DEF Job
<1>4. /\ log'[t] = Append(log[t], e) /\ \A u \in Topic \ {t} : log'[u] = log[u]
      /\ log[t] \in Seq(Copy \cup {None})
  BY <1>1, <1>2 DEF TypeInv, TypeOK
<1>5. /\ DOMAIN given \subseteq Sub /\ \A s \in DOMAIN given : given[s] \in Item
      /\ \A s \in Sub : topicOf[s] = t => s \in DOMAIN given /\ given[s] = fresh(s)
  <2>1. Len(log[t]) + 1 \in Nat \ {0} /\ 1 \in 1..AttemptMax
    BY <1>4
  <2>2. \A s \in Sub : fresh(s) \in Item
    BY <2>1 DEF Item
  <2> HIDE DEF fresh
  <2> QED
    BY <2>2
<1> HIDE DEF given, j, e
<1>6. /\ \A i : InBacklog(i) => InBacklog(i)'
      /\ \A i : InChannel(i) => InChannel(i)'
      /\ \A s \in DOMAIN given : \A i \in Item : i = given[s] => InBacklog(i)' \/ InChannel(i)'
  BY <1>1, <1>2, <1>5, HandKeeps
<1>7. ASSUME NEW x, e # x PROVE Keeps(x)
  <2>1. job[w].item # None => CopyOf(job[w].item) # x
    BY <1>7 DEF e
  <2>2. /\ \A v \in Worker : Carried(x, v) => Carried(x, v)' /\ job'[v].topic = job[v].topic
        /\ \A i \in Item : CopyOf(i) = x /\ InReject(i) => InReject(i)'
    BY <1>1, <2>1, ThreadsKeep
  <2>3. ASSUME NEW i \in Item, CopyOf(i) = x, Waiting(i) PROVE Waiting(i)'
    <3>1. (InHands(i) => InHands(i)') /\ (InDraining(i) => InDraining(i)')
      BY <1>1, PlacesKeep
    <3>2. i \in timers => i \in timers'
      BY <1>1
    <3>3. (InBacklog(i) => InBacklog(i)') /\ (InChannel(i) => InChannel(i)')
      BY <1>6
    <3> QED
      BY <2>2, <2>3, <3>1, <3>2, <3>3 DEF Waiting
  <2>4. \A u \in Topic : log'[u] = log[u] \/ \E f \in Copy \cup {None} : log'[u] = Append(log[u], f)
    BY <1>3, <1>4
  <2>5. Letter(x) => Letter(x)'
    BY <2>4, LettersKeep
  <2> QED
    BY <1>1, <2>2, <2>3, <2>5 DEF Keeps
<1>8. ASSUME NEW x, x = e PROVE Letter(x)'
  <2>1. /\ Len(log[t]) + 1 \in DOMAIN Append(log[t], e)
        /\ Append(log[t], e)[Len(log[t]) + 1] = e
    BY <1>3, <1>4, AppendAt
  <2>2. Len(log[t]) + 1 \in DOMAIN log'[t] /\ log'[t][Len(log[t]) + 1] = x
    BY <1>4, <1>8, <2>1
  <2> QED
    BY <1>2, <2>2 DEF Letter
<1>9. \A s \in Sub : \A i \in Item : topicOf[s] = t /\ i = fresh(s) => Waiting(i)'
  BY <1>5, <1>6 DEF Waiting
<1>10. /\ t \in Topic /\ e \in Copy \cup {None}
       /\ log'[t] = Append(log[t], e) /\ \A u \in Topic \ {t} : log'[u] = log[u]
       /\ topicOf' = topicOf /\ created' = created /\ policy' = policy
       /\ \A x : e # x => Keeps(x)
       /\ \A x : x = e => Letter(x)'
  BY <1>1, <1>2, <1>3, <1>4, <1>7, <1>8
<1> QED
  BY <1>9, <1>10 DEF e

LEMMA TupleIsSeq ==
  ASSUME NEW n \in Nat, NEW S, NEW q \in [1..n -> S]
  PROVE  q \in Seq(S) /\ Len(q) = n
<1>1. q \in Seq(S)
  OBVIOUS
<1>2. DOMAIN q = 1..n
  OBVIOUS
<1> QED
  BY <1>1, <1>2

LEMMA AppendIs ==
  ASSUME NEW n \in Nat, NEW r, r = [k \in 1..(n + 1) |-> r[k]], NEW q, q = [k \in 1..n |-> r[k]]
  PROVE  r = Append(q, r[n + 1])
<1> DEFINE S == {r[k] : k \in 1..(n + 1)}
<1>1. q \in Seq(S) /\ Len(q) = n
  <2>1. q \in [1..n -> S]
    OBVIOUS
  <2> HIDE DEF S
  <2> QED
    BY <2>1, TupleIsSeq
<1>2. r[n + 1] \in S
  OBVIOUS
<1> HIDE DEF S
<1>3. /\ DOMAIN Append(q, r[n + 1]) = 1..(n + 1)
      /\ \A k \in 1..n : Append(q, r[n + 1])[k] = q[k]
      /\ Append(q, r[n + 1])[n + 1] = r[n + 1]
      /\ Append(q, r[n + 1]) \in Seq(S)
  BY <1>1, <1>2, AppendAt
<1>4. Append(q, r[n + 1]) = [k \in 1..(n + 1) |-> Append(q, r[n + 1])[k]]
  BY <1>3
<1>5. \A k \in 1..(n + 1) : Append(q, r[n + 1])[k] = r[k]
  BY <1>3
<1> QED
  BY <1>4, <1>5

\* What a publish makes of the contract's copies, when it makes `now` of those
\* there were.
LEMMA RouteCopies ==
  ASSUME Sound, Sound', RotationReads, NEW w \in Worker, Route(w), NEW now,
         now = [s \in Sub |-> [i \in 1..Got(s) |-> States'[[sub |-> s, at |-> created[s] + i]]]]
  PROVE  CopiesNow' = [s \in Sub |-> IF topicOf[s] = job[w].topic
                                     THEN Append(now[s], Contract!Live(1)) ELSE now[s]]
<1> DEFINE t == job[w].topic
<1>1. /\ t \in Topic /\ topicOf' = topicOf /\ created' = created
      /\ \A u \in Topic \ {t} : log'[u] = log[u]
      /\ \A s \in Sub : \A i \in Item :
            topicOf[s] = t /\ i = [sub |-> s, at |-> Len(log[t]) + 1, attempt |-> 1] => Waiting(i)'
  BY RouteKeeps DEF Sound
<1>2. Len(log'[t]) = Len(log[t]) + 1 /\ Len(log[t]) \in Nat
  <2>1. PICK e \in Copy \cup {None} : log'[t] = Append(log[t], e)
    BY RouteKeeps DEF Sound
  <2>2. log[t] \in Seq(Copy \cup {None})
    BY <1>1 DEF Sound, TypeInv, TypeOK
  <2> QED
    BY <2>1, <2>2
<1> HIDE DEF t
<1>3. ASSUME NEW s \in Sub
      PROVE  /\ CopiesNow'[s] = [i \in 1..Got(s)' |-> States'[[sub |-> s, at |-> created[s] + i]]]
             /\ Got(s) \in Nat
  <2>1. CopiesCut /\ CopiesCut'
    BY DEF Sound
  <2>2. Got(s) \in Nat
    BY <2>1 DEF CopiesCut
  <2>3. CopiesNow'[s] = [i \in 1..Got(s)' |-> States'[[sub |-> s, at |-> created'[s] + i]]]
    BY <2>1 DEF CopiesCut
  <2> QED
    BY <1>1, <2>2, <2>3
<1>4. ASSUME NEW s \in Sub, topicOf[s] # t PROVE CopiesNow'[s] = now[s]
  <2>1. Got(s)' = Got(s)
    BY <1>1, <1>4 DEF Got, Sound, TypeInv, TypeOK
  <2> QED
    BY <1>3, <2>1
<1>5. ASSUME NEW s \in Sub, topicOf[s] = t PROVE CopiesNow'[s] = Append(now[s], Contract!Live(1))
  <2>1. Got(s)' = Got(s) + 1 /\ Got(s) = Len(log[t]) - created[s] /\ created[s] \in Nat
    <3>1. created[s] \in Nat /\ t # None
      BY <1>1 DEF Sound, TypeInv, TypeOK
    <3>2. Got(s) = Len(log[t]) - created[s]
      BY <1>5, <3>1 DEF Got
    <3>3. Got(s)' = Len(log'[t]) - created[s]
      BY <1>1, <1>5, <3>1 DEF Got
    <3> QED
      BY <1>2, <3>1, <3>2, <3>3
  <2>2. PICK i \in Item : i = [sub |-> s, at |-> Len(log[t]) + 1, attempt |-> 1]
    <3>1. Len(log[t]) + 1 \in Nat \ {0} /\ 1 \in 1..AttemptMax
      BY <1>2
    <3> QED
      BY <3>1 DEF Item
  <2>3. PICK x \in Copy : x = CopyOf(i)
    BY CopyTypes
  <2>4. x = [sub |-> s, at |-> created[s] + (Got(s) + 1)] /\ i.attempt = 1
    BY <1>2, <2>1, <2>2, <2>3 DEF CopyOf
  <2>5. Waiting(i)'
    BY <1>1, <1>5, <2>2
  <2>6. x \in Copies'
    BY <2>3, <2>5 DEF Sound, StatesRight, OnlyCopies
  <2>7. States'[x] = Contract!Live(1)
    <3>1. StateRight(x)'
      BY <2>6 DEF Sound, StatesRight
    <3>2. States'[x] = Contract!Live(i.attempt)
      BY <3>1, <2>3, <2>5 DEF StateRight, Contract!Live
    <3> QED
      BY <3>2, <2>4
  <2> DEFINE n == Got(s)
             name(k) == [sub |-> s, at |-> created[s] + k]
  <2>8. /\ n \in Nat /\ now[s] = [k \in 1..n |-> States'[name(k)]]
        /\ CopiesNow'[s] = [k \in 1..(n + 1) |-> States'[name(k)]]
        /\ States'[name(n + 1)] = Contract!Live(1)
    BY <1>3, <2>1, <2>4, <2>7
  <2> HIDE DEF n, name
  <2> DEFINE r == CopiesNow'[s]
             q == now[s]
  <2>9. r = [k \in 1..(n + 1) |-> r[k]] /\ q = [k \in 1..n |-> r[k]] /\ r[n + 1] = Contract!Live(1)
    <3>1. \A k \in 1..(n + 1) : r[k] = States'[name(k)]
      BY <2>8
    <3>2. r = [k \in 1..(n + 1) |-> r[k]]
      BY <2>8
    <3>3. 1..n \subseteq 1..(n + 1) /\ n + 1 \in 1..(n + 1)
      BY <2>8
    <3>4. q = [k \in 1..n |-> r[k]]
      BY <2>8, <3>1, <3>3
    <3> QED
      BY <2>8, <3>1, <3>2, <3>3, <3>4
  <2> HIDE DEF r, q
  <2>10. r = Append(q, r[n + 1])
    BY <2>8, <2>9, AppendIs
  <2> QED
    BY <2>9, <2>10 DEF r, q
<1>6. ASSUME NEW s \in Sub
      PROVE  CopiesNow'[s] = IF topicOf[s] = t THEN Append(now[s], Contract!Live(1)) ELSE now[s]
  BY <1>4, <1>5
<1> QED
  BY <1>6 DEF CopiesNow, t

--------------------------------------------------------------------------------
\* The steps of the contract, one for each step that moves a copy.
LEMMA AckStep ==
  ASSUME Sound, Sound', NEW w \in Worker, NEW d \in held, Acknowledge(w, d)
  PROVE  Contract!Next
<1> DEFINE j == Gone(d)
<1>1. /\ job[w].pc = "idle" /\ held' = held \ {d} /\ acked' = acked \cup {CopyOf(d.item)}
      /\ job' = [job EXCEPT ![w] = j]
      /\ UNCHANGED <<backlog, draining, chan, timers, log, topicOf, created, policy>>
  BY DEF Acknowledge, subVars, lockVars
<1> HIDE DEF j
<1>2. d.item \in Item /\ Waiting(d.item)
  BY DEF Sound, TypeInv, TypeOK, Delivery, Waiting, InHands
<1>3. PICK x \in Copies : x = CopyOf(d.item)
  BY <1>2 DEF Sound, StatesRight, OnlyCopies
<1>4. ASSUME NEW y \in Copies \ {x} PROVE Keeps(y)
  BY <1>1, <1>3, <1>4, HandlerKeeps DEF Sound
<1>5. /\ x.sub \in Sub /\ At(x) \in DOMAIN CopiesNow[x.sub]
      /\ CopiesNow[x.sub][At(x)] = States[x]
      /\ CopiesNow' = [CopiesNow EXCEPT ![x.sub][At(x)] = States'[x]]
  BY <1>1, <1>4, OneMoves
<1>6. States[x] = Contract!Live(d.item.attempt)
  BY <1>2, <1>3 DEF Sound, StatesRight, StateRight
<1>7. States'[x] = Contract!Acked
  <2>1. x \in Copies' /\ x \in acked'
    BY <1>1, <1>3, CopiesSame
  <2> QED
    BY <2>1 DEF Sound, StatesRight, StateRight, Contract!Acked
<1>8. Contract!Acknowledge(x.sub, At(x))
  BY <1>1, <1>5, <1>6, <1>7 DEF Contract!Acknowledge, Contract!IsLive, Contract!Become,
                               Contract!Live, CopiesNow
<1> QED
  BY <1>5, <1>8 DEF Contract!Next, CopiesNow

LEMMA SpendStep ==
  ASSUME Sound, Sound', NEW w \in Worker, Reject(w), Spent(job[w].item)
  PROVE  Contract!Next
<1> DEFINE item == job[w].item
<1>1. /\ item \in Item /\ job[w].pc = "reject"
      /\ UNCHANGED <<topicOf, created, policy, log>>
  BY SpendKeeps DEF Sound, Reject, historyVars
<1>2. Waiting(item)
  BY <1>1 DEF Waiting, InReject
<1>3. PICK x \in Copies : x = CopyOf(item)
  BY <1>1, <1>2 DEF Sound, StatesRight, OnlyCopies
<1>4. ASSUME NEW y \in Copies \ {x} PROVE Keeps(y)
  BY <1>3, <1>4, SpendKeeps DEF Sound
<1>5. /\ x.sub \in Sub /\ At(x) \in DOMAIN CopiesNow[x.sub]
      /\ CopiesNow[x.sub][At(x)] = States[x]
      /\ CopiesNow' = [CopiesNow EXCEPT ![x.sub][At(x)] = States'[x]]
  BY <1>1, <1>4, OneMoves
<1>6. States[x] = Contract!Live(item.attempt)
  BY <1>1, <1>2, <1>3 DEF Sound, StatesRight, StateRight
<1>7. Carried(x, w)' /\ job'[w].topic = policy[item.sub].topic
  BY <1>3, SpendKeeps DEF Sound
<1>8. States'[x] = Contract!Spent(policy[item.sub].topic)
  <2>1. x \in Copies'
    BY <1>1, <1>3, CopiesSame
  <2>2. StateRight(x)'
    BY <2>1 DEF Sound, StatesRight
  <2>3. States'[x] = Contract!Spent(job'[w].topic)
    BY <1>7, <2>2 DEF StateRight, Contract!Spent
  <2> QED
    BY <1>7, <2>3
<1>9. x.sub = item.sub /\ policy[item.sub] # None /\ item.attempt >= policy[item.sub].max
  BY <1>3 DEF CopyOf, Spent
<1>10. Contract!Spend(x.sub, At(x))
  BY <1>1, <1>5, <1>6, <1>8, <1>9 DEF Contract!Spend, Contract!IsLive, Contract!AtCap, Contract!Become,
                                     Contract!Live, CopiesNow
<1> QED
  BY <1>5, <1>10 DEF Contract!Next, CopiesNow

LEMMA AgainStep ==
  ASSUME Sound, Sound', RotationReads, NEW w \in Worker, Reject(w), ~Spent(job[w].item)
  PROVE  Contract!Next
<1> DEFINE item == job[w].item
           next == NextAttempt(item)
<1>1. /\ item \in Item /\ next \in Item /\ CopyOf(next) = CopyOf(item) /\ job[w].pc = "reject"
      /\ next.attempt = IF item.attempt = AttemptMax THEN item.attempt ELSE item.attempt + 1
      /\ UNCHANGED <<topicOf, created, policy, log>>
  BY AgainKeeps DEF Sound, Reject, historyVars
<1>2. Waiting(item)
  BY <1>1 DEF Waiting, InReject
<1>3. PICK x \in Copies : x = CopyOf(item)
  BY <1>1, <1>2 DEF Sound, StatesRight, OnlyCopies
<1>4. ASSUME NEW y \in Copies \ {x} PROVE Keeps(y)
  BY <1>3, <1>4, AgainKeeps DEF Sound
<1>5. /\ x.sub \in Sub /\ At(x) \in DOMAIN CopiesNow[x.sub]
      /\ CopiesNow[x.sub][At(x)] = States[x]
      /\ CopiesNow' = [CopiesNow EXCEPT ![x.sub][At(x)] = States'[x]]
  BY <1>1, <1>4, OneMoves
<1>6. States[x] = Contract!Live(item.attempt)
  BY <1>1, <1>2, <1>3 DEF Sound, StatesRight, StateRight
<1>7. PICK i \in Item : i = next
  BY <1>1
<1>8. Waiting(i)' /\ CopyOf(i) = x
  BY <1>1, <1>3, <1>7, AgainKeeps DEF Sound
<1>9. States'[x] = Contract!Live(i.attempt)
  <2>1. x \in Copies'
    BY <1>1, <1>3, CopiesSame
  <2>2. StateRight(x)'
    BY <2>1 DEF Sound, StatesRight
  <2> QED
    BY <1>8, <2>2 DEF StateRight, Contract!Live
<1>10. i.attempt = IF item.attempt = AttemptMax THEN item.attempt ELSE item.attempt + 1
  BY <1>1, <1>7
<1>11. x.sub = item.sub /\ ~(policy[item.sub] # None /\ item.attempt >= policy[item.sub].max)
  BY <1>3 DEF CopyOf, Spent
<1> HIDE DEF item, next
<1>12. Contract!Redeliver(x.sub, At(x))
  <2>1. CopiesNow[x.sub][At(x)].state = "live" /\ CopiesNow[x.sub][At(x)].attempt = item.attempt
    BY <1>5, <1>6 DEF Contract!Live
  <2>2. Contract!IsLive(x.sub, At(x)) /\ ~Contract!AtCap(x.sub, At(x))
    BY <1>11, <2>1 DEF Contract!IsLive, Contract!AtCap, CopiesNow
  <2>3. CopiesNow' = [CopiesNow EXCEPT ![x.sub][At(x)] =
            Contract!Live(IF item.attempt = AttemptMax THEN item.attempt ELSE item.attempt + 1)]
    BY <1>5, <1>9, <1>10
  <2> DEFINE a == CopiesNow[x.sub][At(x)].attempt
  <2>4. Contract!Become(x.sub, At(x), Contract!Live(IF a = AttemptMax THEN a ELSE a + 1))
    <3>1. CopiesNow' = [CopiesNow EXCEPT ![x.sub][At(x)] =
              Contract!Live(IF a = AttemptMax THEN a ELSE a + 1)]
      BY <2>1, <2>3
    <3> QED
      BY <1>1, <3>1 DEF Contract!Become, CopiesNow
  <2> QED
    BY <2>2, <2>4 DEF Contract!Redeliver, CopiesNow
<1> QED
  BY <1>5, <1>12 DEF Contract!Next, CopiesNow

LEMMA RouteStep ==
  ASSUME Sound, Sound', RotationReads, NEW w \in Worker, Route(w)
  PROVE  Contract!Next
<1> DEFINE t == job[w].topic
           item == job[w].item
           e == IF item = None THEN None ELSE CopyOf(item)
           then == [s \in Sub |-> [i \in 1..Got(s) |-> States'[[sub |-> s, at |-> created[s] + i]]]]
<1>1. /\ t \in Topic /\ e \in Copy \cup {None}
      /\ log'[t] = Append(log[t], e) /\ \A u \in Topic \ {t} : log'[u] = log[u]
      /\ topicOf' = topicOf /\ created' = created /\ policy' = policy
      /\ \A x : e # x => Keeps(x)
      /\ \A x : x = e => Letter(x)'
  BY RouteKeeps DEF Sound
<1>2. CopiesNow' = [s \in Sub |-> IF topicOf[s] = t THEN Append(then[s], Contract!Live(1)) ELSE then[s]]
  BY RouteCopies
<1>3. log' = [log EXCEPT ![t] = Append(@, e)]
  BY DEF Route
<1>4. Copies \subseteq Copies'
  <2> SUFFICES ASSUME NEW x \in Copies PROVE x \in Copies'
    OBVIOUS
  <2>1. x \in Copy /\ x.sub \in Sub
    BY CopiesTyped DEF Copy, Sound
  <2>2. topicOf[x.sub] # None /\ x.at \in created[x.sub] + 1 .. Len(log[topicOf[x.sub]])
    BY <2>1, CopiesAre
  <2>3. topicOf[x.sub] \in Topic /\ log[topicOf[x.sub]] \in Seq(Copy \cup {None})
        /\ created[x.sub] \in Nat
    BY <2>1, <2>2 DEF Sound, TypeInv, TypeOK
  <2>4. Len(log'[topicOf[x.sub]]) \in {Len(log[topicOf[x.sub]]), Len(log[topicOf[x.sub]]) + 1}
    BY <1>1, <2>3, SMTT(30)
  <2>5. x.at \in created[x.sub] + 1 .. Len(log'[topicOf[x.sub]])
    BY <2>2, <2>3, <2>4
  <2> QED
    BY <1>1, <2>1, <2>2, <2>5, CopiesAre
<1>5. \A x \in Copies : e # x => States'[x] = States[x]
  BY <1>1, <1>4, StateKept
<1>6. CASE item = None
  <2>1. e = None
    BY <1>6
  <2>2. None \notin Copies
    BY CopiesTyped, NoneAssumption DEF Copy, Sound
  <2>3. then = CopiesNow
    <3> SUFFICES ASSUME NEW s \in Sub
                 PROVE  CopiesNow[s] = [i \in 1..Got(s) |-> States'[[sub |-> s, at |-> created[s] + i]]]
      BY DEF CopiesNow
    <3>1. /\ CopiesNow[s] = [i \in 1..Got(s) |-> States[[sub |-> s, at |-> created[s] + i]]]
          /\ \A i \in 1..Got(s) : [sub |-> s, at |-> created[s] + i] \in Copies
      BY DEF Sound, CopiesCut
    <3>2. \A i \in 1..Got(s) : States'[[sub |-> s, at |-> created[s] + i]]
                               = States[[sub |-> s, at |-> created[s] + i]]
      BY <1>5, <2>1, <2>2, <3>1
    <3> QED
      BY <3>1, <3>2
  <2> HIDE DEF then, e, t
  <2>4. Contract!Publish(t)
    BY <1>1, <1>2, <1>3, <2>1, <2>3 DEF Contract!Publish, Contract!Fanout, CopiesNow
  <2> QED
    BY <1>1, <2>4 DEF Contract!Next
<1>7. CASE item # None
  <2>1. e = CopyOf(item) /\ e \in Copy /\ job[w].pc = "route"
    <3>1. job[w] \in Job /\ job[w].pc = "route"
      BY DEF Route, Sound, TypeInv, TypeOK
    <3>2. item \in Item
      BY <1>7, <3>1 DEF Job
    <3> HIDE DEF item
    <3> QED
      BY <1>7, <3>1, <3>2, CopyTypes
  <2>2. Carried(e, w)
    BY <1>7, <2>1 DEF Carried
  <2>3. PICK x \in Copies : x = e
    BY <2>1, <2>2 DEF Sound, StatesRight, OnlyCopies
  <2>4. States[x] = Contract!Spent(t)
    BY <2>2, <2>3 DEF Sound, StatesRight, StateRight
  <2>5. States'[x] = Contract!Dead
    <3>1. x \in Copies' /\ Letter(x)'
      BY <1>1, <1>4, <2>3
    <3>2. StateRight(x)'
      BY <3>1 DEF Sound, StatesRight
    <3> QED
      BY <3>1, <3>2 DEF StateRight, Contract!Dead
  <2>6. \A y \in Copies \ {x} : States'[y] = States[y]
    BY <1>5, <2>3
  <2>7. /\ At(x) \in DOMAIN CopiesNow[x.sub]
        /\ CopiesNow[x.sub][At(x)] = States[x]
        /\ then = [CopiesNow EXCEPT ![x.sub][At(x)] = States'[x]]
    BY <2>6, OneDiffers
  <2>8. /\ x.sub \in Sub /\ x = [sub |-> x.sub, at |-> x.at]
        /\ At(x) \in 1..Got(x.sub) /\ created[x.sub] + At(x) = x.at
        /\ created[x.sub] \in Nat /\ x.at \in Nat /\ topicOf[x.sub] \in Topic
    BY CopyParts
  <2>9. Len(log[topicOf[x.sub]]) - Len(CopiesNow[x.sub]) + At(x) = x.at
    <3>1. Len(CopiesNow[x.sub]) = Got(x.sub)
      <4>1. /\ CopiesNow[x.sub] = [i \in 1..Got(x.sub) |-> States[[sub |-> x.sub, at |-> created[x.sub] + i]]]
            /\ Got(x.sub) \in Nat
        BY <2>8 DEF Sound, CopiesCut
      <4> DEFINE S == {CopiesNow[x.sub][i] : i \in 1..Got(x.sub)}
      <4>2. CopiesNow[x.sub] \in [1..Got(x.sub) -> S]
        BY <4>1
      <4> HIDE DEF S
      <4> QED
        BY <4>1, <4>2, TupleIsSeq
    <3>2. Got(x.sub) = Len(log[topicOf[x.sub]]) - created[x.sub]
      BY <2>8 DEF Got
    <3>3. Len(log[topicOf[x.sub]]) \in Nat
      BY <2>8 DEF Sound, TypeInv, TypeOK
    <3> QED
      BY <2>8, <3>1, <3>2, <3>3
  <2> HIDE DEF then, e, t
  <2>10. Contract!DeadLetter(x.sub, At(x), x.at)
    <3>1. CopiesNow[x.sub][At(x)].state = "spent" /\ CopiesNow[x.sub][At(x)].to = t
      BY <2>4, <2>7 DEF Contract!Spent
    <3>2. then = [CopiesNow EXCEPT ![x.sub][At(x)] = Contract!Dead]
      BY <2>5, <2>7
    <3>3. log' = [log EXCEPT ![t] = Append(@, [sub |-> x.sub, at |-> x.at])]
      BY <1>3, <2>3, <2>8
    <3>4. Contract!Fanout(t, [sub |-> x.sub, at |-> x.at], then)
      BY <1>2, <3>3 DEF Contract!Fanout, CopiesNow
    <3> QED
      BY <1>1, <3>1, <3>2, <3>4 DEF Contract!DeadLetter, CopiesNow
  <2> QED
    BY <2>7, <2>8, <2>9, <2>10 DEF Contract!Next, CopiesNow
<1> QED
  BY <1>6, <1>7

LEMMA OpenStep ==
  ASSUME Sound, Sound', NEW w \in Worker, Open(w)
  PROVE  Contract!Next
<1> DEFINE d == job[w].desc
           s == d.sub
           now == PolicyAfter(d)
<1>1. /\ job[w].pc = "open"
      /\ topicOf' = [topicOf EXCEPT ![s] = IF @ = None THEN d.topic ELSE @]
      /\ created' = [created EXCEPT ![s] = IF topicOf[s] = None THEN Len(log[d.topic]) ELSE @]
      /\ policy' = [policy EXCEPT ![s] = now]
      /\ log' = log
  BY DEF Open
<1>2. d \in Descriptor /\ s \in Sub /\ d.topic \in Topic /\ d.policy \in Policy \cup {None}
  BY <1>1, SMTT(30) DEF Sound, TypeInv, TypeOK, JobFields
<1>3. now \in Policy \cup {policy[s]}
  BY <1>2 DEF PolicyAfter
<1> HIDE DEF now, s, d
<1>4. /\ topicOf'[s] = IF topicOf[s] = None THEN d.topic ELSE topicOf[s]
      /\ created'[s] = IF topicOf[s] = None THEN Len(log[d.topic]) ELSE created[s]
      /\ \A r \in Sub \ {s} : topicOf'[r] = topicOf[r] /\ created'[r] = created[r]
  BY <1>1, <1>2 DEF Sound, TypeInv, TypeOK
<1>5. ASSUME NEW r \in Sub PROVE Got(r)' = Got(r) /\ (topicOf[r] # None => created'[r] = created[r])
  <2>1. CASE topicOf[r] # None
    BY <1>1, <1>4, <2>1 DEF Got
  <2>2. CASE topicOf[r] = None /\ r = s
    <3>1. topicOf'[r] = d.topic /\ created'[r] = Len(log[d.topic]) /\ d.topic # None
      BY <1>2, <1>4, <2>2
    <3>4. log \in [Topic -> Seq(Copy \cup {None})]
      BY DEF Sound, TypeInv, TypeOK
    <3>2. Len(log[d.topic]) \in Nat
      BY <1>2, <3>4
    <3>3. Got(r)' = 0 /\ Got(r) = 0
      BY <1>1, <2>2, <3>1, <3>2 DEF Got
    <3> QED
      BY <2>2, <3>3
  <2>3. CASE topicOf[r] = None /\ r # s
    BY <1>1, <1>4, <2>3 DEF Got
  <2> QED
    BY <2>1, <2>2, <2>3
<1>6. ASSUME NEW r \in Sub PROVE CopiesNow'[r] = CopiesNow[r]
  <2>1. /\ CopiesNow[r] = [i \in 1..Got(r) |-> States[[sub |-> r, at |-> created[r] + i]]]
        /\ \A i \in 1..Got(r) : [sub |-> r, at |-> created[r] + i] \in Copies
    BY DEF Sound, CopiesCut
  <2>2. /\ CopiesNow'[r] = [i \in 1..Got(r)' |-> States'[[sub |-> r, at |-> created'[r] + i]]]
        /\ \A i \in 1..Got(r)' : [sub |-> r, at |-> created'[r] + i] \in Copies'
    BY DEF Sound, CopiesCut
  <2>3. CASE topicOf[r] = None
    <3>1. Got(r) = 0 /\ Got(r)' = 0
      BY <1>5, <2>3 DEF Got
    <3>2. CopiesNow[r] = [i \in 1..0 |-> States[[sub |-> r, at |-> created[r] + i]]]
      BY <2>1, <3>1
    <3>3. CopiesNow'[r] = [i \in 1..0 |-> States'[[sub |-> r, at |-> created'[r] + i]]]
      BY <2>2, <3>1
    <3> QED
      BY <3>2, <3>3
  <2>4. CASE topicOf[r] # None
    <3>1. Got(r)' = Got(r) /\ created'[r] = created[r]
      BY <1>5, <2>4
    <3>2. \A i \in 1..Got(r) : States'[[sub |-> r, at |-> created[r] + i]]
                               = States[[sub |-> r, at |-> created[r] + i]]
      <4> SUFFICES ASSUME NEW i \in 1..Got(r)
                   PROVE  States'[[sub |-> r, at |-> created[r] + i]]
                          = States[[sub |-> r, at |-> created[r] + i]]
        OBVIOUS
      <4>1. PICK x \in Copies : x = [sub |-> r, at |-> created[r] + i]
        BY <2>1
      <4>2. x \in Copies'
        BY <2>2, <3>1, <4>1
      <4>3. Keeps(x)
        BY OpenKeeps DEF Sound
      <4> QED
        BY <4>1, <4>2, <4>3, StateKept
    <3> QED
      BY <2>1, <2>2, <3>1, <3>2
  <2> QED
    BY <2>3, <2>4
<1>7. CopiesNow' = CopiesNow
  BY <1>6 DEF CopiesNow
<1>8. Contract!Register(s)
  BY <1>1, <1>2, <1>3, <1>7 DEF Contract!Register, Contract!Policy, Policy, CopiesNow
<1> QED
  BY <1>2, <1>8 DEF Contract!Next

\* A step that moves no copy and opens nothing.
LEMMA StutterStep ==
  ASSUME Sound, Sound', topicOf' = topicOf, created' = created, log' = log, policy' = policy,
         \A x \in Copies : Keeps(x)
  PROVE  UNCHANGED Contract!vars
<1>1. CopiesNow' = CopiesNow
  BY NoneMoves
<1> QED
  BY <1>1 DEF Contract!vars, CopiesNow

LEMMA ContractStep ==
  ASSUME Sound, Sound', RotationReads, [Next]_vars
  PROVE  [Contract!Next]_(Contract!vars)
<1> USE DEF subVars, consumerVars, lockVars, countVars, historyVars
<1>0. TypeInv /\ PlaceInv
  BY DEF Sound
<1>1. CASE Install \/ Close \/ UNCHANGED vars
  <2>1. /\ UNCHANGED <<backlog, draining, chan, held, timers, log, acked, job>>
        /\ UNCHANGED <<topicOf, created, log, policy>>
    BY <1>1 DEF Install, Close, vars
  <2> QED
    BY <2>1, NothingKeeps, StutterStep
<1>2. ASSUME NEW c \in ConsumerId, Poll(c) PROVE [Contract!Next]_(Contract!vars)
  <2>1. UNCHANGED <<topicOf, created, log, policy>>
    BY <1>2 DEF Poll
  <2>2. \A x \in Copies : Keeps(x)
    BY <1>0, <1>2, PollKeeps
  <2> QED
    BY <2>1, <2>2, StutterStep
<1>3. ASSUME NEW w \in Worker, Proceed(w) PROVE [Contract!Next]_(Contract!vars)
  <2>1. CASE Open(w)
    BY <2>1, OpenStep
  <2>2. CASE Drain(w)
    <3>1. UNCHANGED <<topicOf, created, log, policy>>
      BY <2>2 DEF Drain
    <3>2. \A x \in Copies : Keeps(x)
      BY <1>0, <2>2, DrainKeeps
    <3> QED
      BY <3>1, <3>2, StutterStep
  <2>3. CASE Opened(w) \/ Release(w) \/ Cancelled(w)
    <3>1. /\ UNCHANGED <<topicOf, created, log, policy, backlog, draining, chan, held, timers, acked>>
          /\ job[w].pc \notin {"reject", "route"} /\ \E j : job' = [job EXCEPT ![w] = j]
      BY <2>3 DEF Opened, Release, Cancelled
    <3>2. \A x \in Copies : Keeps(x)
      BY <1>0, <3>1, StillKeeps
    <3> QED
      BY <3>1, <3>2, StutterStep
  <2>4. CASE Route(w)
    BY <2>4, RouteStep
  <2>5. CASE Reject(w)
    BY <2>5, SpendStep, AgainStep
  <2>6. CASE CancelNext(w)
    <3>1. UNCHANGED <<topicOf, created, log, policy>>
      BY <2>6 DEF CancelNext
    <3>2. \A x \in Copies : Keeps(x)
      BY <1>0, <2>6, CancelNextKeeps
    <3> QED
      BY <3>1, <3>2, StutterStep
  <2> QED
    BY <1>3, <2>1, <2>2, <2>3, <2>4, <2>5, <2>6 DEF Proceed
<1>4. ASSUME NEW w \in Worker,
             (\E d \in Descriptor : Subscribe(w, d)) \/ (\E t \in Topic : Publish(w, t))
             \/ (\E c \in ConsumerId : Cancel(w, c))
      PROVE  [Contract!Next]_(Contract!vars)
  <2>1. /\ UNCHANGED <<topicOf, created, log, policy, backlog, draining, chan, held, timers, acked>>
        /\ job[w].pc \notin {"reject", "route"} /\ \E j : job' = [job EXCEPT ![w] = j]
    BY <1>4 DEF Subscribe, Publish, Cancel
  <2>2. \A x \in Copies : Keeps(x)
    BY <1>0, <2>1, StillKeeps
  <2> QED
    BY <2>1, <2>2, StutterStep
<1>5. ASSUME NEW w \in Worker, NEW d \in held, Settle(w, d) PROVE [Contract!Next]_(Contract!vars)
  <2>1. CASE Acknowledge(w, d)
    BY <2>1, AckStep
  <2>2. CASE Nack(w, d)
    <3> DEFINE j == [Idle EXCEPT !.pc = "reject", !.item = d.item, !.counted = d.counted]
    <3>1. /\ job[w].pc = "idle" /\ held' = held \ {d} /\ job' = [job EXCEPT ![w] = j]
          /\ UNCHANGED <<topicOf, created, policy, backlog, draining, chan, timers, log, acked>>
      BY <2>2 DEF Nack
    <3>2. j.pc = "reject" /\ j.item = d.item
      BY DEF Idle
    <3> HIDE DEF j
    <3>3. timers \subseteq timers' /\ acked \subseteq acked'
      BY <3>1
    <3>4. \A x \in Copies : Keeps(x)
      BY <1>0, <3>1, <3>2, <3>3, HandlerKeeps
    <3> QED
      BY <3>1, <3>4, StutterStep
  <2>3. CASE RejectAfter(w, d)
    <3> DEFINE j == Gone(d)
    <3>1. /\ job[w].pc = "idle" /\ held' = held \ {d} /\ job' = [job EXCEPT ![w] = j]
          /\ timers' = timers \cup {d.item}
          /\ UNCHANGED <<topicOf, created, policy, backlog, draining, chan, log, acked>>
      BY <2>3 DEF RejectAfter
    <3> HIDE DEF j
    <3>2. timers \subseteq timers' /\ acked \subseteq acked' /\ d.item \in timers'
      BY <3>1
    <3>3. \A x \in Copies : Keeps(x)
      BY <1>0, <3>1, <3>2, HandlerKeeps
    <3> QED
      BY <3>1, <3>3, StutterStep
  <2> QED
    BY <1>5, <2>1, <2>2, <2>3 DEF Settle, DropMessage
<1>6. ASSUME NEW w \in Worker, NEW item \in timers, Fire(w, item)
      PROVE  [Contract!Next]_(Contract!vars)
  <2>1. UNCHANGED <<topicOf, created, log, policy>>
    BY <1>6 DEF Fire
  <2>2. \A x \in Copies : Keeps(x)
    BY <1>0, <1>6, FireKeeps
  <2> QED
    BY <2>1, <2>2, StutterStep
<1> QED
  BY <1>1, <1>2, <1>3, <1>4, <1>5, <1>6 DEF Next

LEMMA ContractInit == Init => Contract!Init
<1> SUFFICES ASSUME Init PROVE Contract!Init
  OBVIOUS
<1>1. [s \in Sub |-> CopiesOf(s)] = [s \in Sub |-> <<>>]
  BY DEF Init, CopiesOf
<1> QED
  BY <1>1 DEF Init, Contract!Init

\* Every behaviour of the transport is one of the contract's, in every instance:
\* whatever the consumers, the threads, the timers and the lock do in between.
THEOREM ContractKept == Spec => ImplementsContract
<1>1. Init => TypeInv /\ StrandInv /\ PlaceInv
  BY TypeInit, StrandInit, PlaceInit
<1>2. TypeInv /\ StrandInv /\ PlaceInv /\ [Next]_vars => TypeInv' /\ StrandInv' /\ PlaceInv'
  BY TypeStep, StrandStep, PlaceStep
<1>3. TypeInv /\ PlaceInv => Sound
  BY StatesHold, CopiesAreCut DEF Sound
<1>4. StrandInv => RotationReads
  BY DEF StrandInv
<1>5. Sound /\ Sound' /\ RotationReads /\ [Next]_vars => [Contract!Next]_(Contract!vars)
  BY ContractStep
<1> QED
  BY <1>1, <1>2, <1>3, <1>4, <1>5, ContractInit, PTL DEF Spec, ImplementsContract, Contract!Spec

================================================================================
