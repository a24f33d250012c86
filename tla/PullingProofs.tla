---------------------------- MODULE PullingProofs ----------------------------
(***************************************************************************)
(* What a settlement promises, for every set of messages, cap, capacity of *)
(* the channel, lease, delay and number of faults.                         *)
(*                                                                         *)
(* Two halves are kept apart: what the service and the settlements keep    *)
(* (Settling) follows from where each delivery goes from its place         *)
(* (Follows), and the order of handlers from the channel, which holds      *)
(* exactly the deliveries there, in their order (Carrying).                *)
(* That a subscription read off the service keeps DeliveryContract rests   *)
(* on one more fact, that leases are of messages that can still be         *)
(* acknowledged (LeasesFit).                                               *)
(***************************************************************************)
EXTENDS PullingRefinement, SequenceTheorems, FiniteSetTheorems, WellFoundedInduction, TLAPS

\* The places on the way to a handler, and those where a lease is kept.
Early == {"stream", "pump", "channel"}
Open == Early \cup {"handler", "held"}

MessagesTyped ==
    messages \in [Message -> [at : {"waiting", "out", "acked", "dead"}, attempts : 0..Cap]]

ServiceShape ==
    /\ exactlyOnce \in Guarantees
    /\ MessagesTyped
    /\ deliveries \in Seq(Delivery)
    /\ leased \subseteq DOMAIN deliveries
    /\ ackedBy \in [Message -> DOMAIN deliveries \cup {None}]

ControlShape ==
    /\ channel \in Seq(DOMAIN deliveries \cup {ReceiveError}) /\ Len(channel) <= CHANNEL_CAPACITY
    /\ pump \in {"running", "sending", "failing", "ended"}
    /\ stream \in {"open", "failed", "shut"} /\ subscriber \in {"open", "dropped"}
    /\ token \in {"unset", "spawned", "signalled"}
    /\ up \in BOOLEAN /\ connected \in BOOLEAN /\ faults \in 0..MaxFaults
    /\ opened \in [over : Nat, limit : Learned]

\* A message that waits has an attempt left.
AttemptsLeft == \A m \in Message : messages[m].at = "waiting" => messages[m].attempts < Cap

\* What the place of a delivery says of what its handler asked for.
PlaceOK(d) ==
    /\ d.place \in Early \cup {"handler"} => d.asked = None /\ d.told = None /\ ~d.fits
    /\ d.place \in {"acking", "acked"} => d.asked = "ack" \/ (d.asked = "drop" /\ (d.limit = Cap => d.attempt < Cap))
    /\ d.place \in {"nacking", "nacked"} => d.asked # "ack"
    /\ d.place \in {"acked", "nacked"} => exactlyOnce
    /\ d.asked = "ack" /\ d.place # "done" /\ exactlyOnce => d.told = None
    /\ d.place \notin {"held", "done"} => d.due = 0
    /\ d.place = "held" => d.asked = "later"
    /\ d.place = "held" /\ d.fits /\ d.due > 0 => d.age + d.due <= MaxLease

PlacesOK == \A d \in DOMAIN deliveries : PlaceOK(deliveries[d])

\* Whoever acknowledged a message had been asked to.
AcksAsked ==
    \A m \in Message :
      IF messages[m].at = "acked"
      THEN /\ ackedBy[m] \in DOMAIN deliveries
           /\ LET d == deliveries[ackedBy[m]]
              IN /\ d.message = m
                 /\ d.place \in {"acked", "done"}
                 /\ d.asked = "ack" \/ (d.asked = "drop" /\ (d.limit = Cap => d.attempt < Cap))
      ELSE ackedBy[m] = None

AckedIsIt ==
    \A d \in DOMAIN deliveries :
      deliveries[d].place = "acked" => ackedBy[deliveries[d].message] = d

\* Exactly once: one lease for a message that is out, and none for another.
OneLease ==
    exactlyOnce =>
      /\ \A d \in leased : messages[deliveries[d].message].at = "out"
      /\ \A d, e \in leased : deliveries[d].message = deliveries[e].message => d = e

\* A lease that is kept lasts for max_lease, until the delivery is settled.
KeptLeased ==
    \A d \in DOMAIN deliveries :
      /\ deliveries[d].place \in Open
      /\ deliveries[d].kept
      /\ deliveries[d].age <= MaxLease
      => d \in leased

\* The channel holds exactly the deliveries there, in their order.
ChannelIs ==
    /\ \A k \in DOMAIN channel : channel[k] # ReceiveError =>
         channel[k] \in DOMAIN deliveries /\ deliveries[channel[k]].place = "channel"
    /\ \A d \in DOMAIN deliveries : deliveries[d].place = "channel" =>
         \E k \in DOMAIN channel : channel[k] = d
    /\ \A j, k \in DOMAIN channel :
         j < k /\ channel[j] # ReceiveError /\ channel[k] # ReceiveError => channel[j] < channel[k]
    /\ subscriber = "dropped" => channel = <<>>

\* The pump carries one delivery while it sends, and none otherwise.
PumpIs ==
    IF pump = "sending"
    THEN \E d \in DOMAIN deliveries : At("pump") = {d}
    ELSE At("pump") = {}

InOrder ==
    \A d, e \in DOMAIN deliveries : d < e =>
      /\ deliveries[d].place = "stream" => deliveries[e].place \notin {"pump", "channel"}
      /\ deliveries[d].place = "pump" => deliveries[e].place # "channel"

\* What the service and the settlements keep, and what the pump and the channel do.
Settling ==
    /\ AttemptsLeft /\ PlacesOK /\ AcksAsked /\ AckedIsIt /\ OneLease /\ KeptLeased
    /\ ConfirmedAckFinal

Carrying == ChannelIs /\ PumpIs /\ InOrder /\ HandedInOrder

PullInv == ServiceShape /\ ControlShape /\ Settling /\ Carrying

-----------------------------------------------------------------------------
(* Sequences of deliveries *)

Deliveries(s) == s \in Seq(Delivery) /\ DOMAIN s = DOMAIN deliveries

LEMMA DomainIs ==
    ASSUME ServiceShape
    PROVE  Len(deliveries) \in Nat /\ DOMAIN deliveries = 1..Len(deliveries)
BY LenProperties DEF ServiceShape

\* A delivery for each of the numbers there are.
LEMMA DeliveriesOf ==
    ASSUME ServiceShape, NEW s, s \in [DOMAIN deliveries -> Delivery]
    PROVE  Deliveries(s)
<1>1. Len(deliveries) \in Nat /\ s \in [1..Len(deliveries) -> Delivery]
  BY DomainIs
<1>2. s \in Seq(Delivery)
  BY <1>1, SeqDef
<1>3. QED
  BY <1>2 DEF Deliveries

LEMMA DeliveryTyped ==
    ASSUME ServiceShape, NEW d \in DOMAIN deliveries
    PROVE  deliveries[d] \in Delivery
BY LenProperties, ElementOfSeq DEF ServiceShape

LEMMA AgeCounts ==
    ASSUME NEW d \in Delivery
    PROVE  d.age \in Nat
<1>1. d.age \in 0..(MaxLease + 1)
  BY DEF Delivery
<1>2. QED
  BY <1>1, LimitsAssumption

\* What moving, unkeeping and telling make of each delivery.
LEMMA MovedFacts ==
    ASSUME ServiceShape, NEW set, NEW place \in Place
    PROVE  /\ Deliveries(Moved(set, place))
           /\ \A d \in DOMAIN deliveries :
                Moved(set, place)[d] = IF d \in set THEN [deliveries[d] EXCEPT !.place = place]
                                                   ELSE deliveries[d]
<1>1. \A d \in DOMAIN deliveries :
        [deliveries[d] EXCEPT !.place = place] \in Delivery /\ deliveries[d] \in Delivery
  BY DeliveryTyped DEF Delivery
<1>2. Moved(set, place) \in [DOMAIN deliveries -> Delivery]
  BY <1>1 DEF Moved
<1>3. QED
  BY <1>2, DeliveriesOf DEF Moved

LEMMA MovedOne ==
    ASSUME ServiceShape, NEW d, NEW place \in Place
    PROVE  /\ Deliveries(Moved({d}, place))
           /\ \A e \in DOMAIN deliveries :
                Moved({d}, place)[e] = IF e = d THEN [deliveries[e] EXCEPT !.place = place]
                                             ELSE deliveries[e]
<1> DEFINE set == {d}
<1>1. \A e : e \in set <=> e = d
  OBVIOUS
<1> HIDE DEF set
<1>2. /\ Deliveries(Moved(set, place))
      /\ \A e \in DOMAIN deliveries :
           Moved(set, place)[e] = IF e \in set THEN [deliveries[e] EXCEPT !.place = place]
                                              ELSE deliveries[e]
  BY MovedFacts
<1>3. \A e \in DOMAIN deliveries :
        Moved(set, place)[e] = IF e = d THEN [deliveries[e] EXCEPT !.place = place]
                                        ELSE deliveries[e]
  BY <1>1, <1>2
<1>4. QED
  BY <1>2, <1>3 DEF set

LEMMA UnkeptFacts ==
    ASSUME ServiceShape, NEW set, NEW place \in Place
    PROVE  /\ Deliveries(Unkept(set, place))
           /\ \A d \in DOMAIN deliveries :
                Unkept(set, place)[d] =
                  [(IF d \in set THEN [deliveries[d] EXCEPT !.place = place] ELSE deliveries[d])
                     EXCEPT !.kept = FALSE]
<1>1. /\ \A d \in DOMAIN deliveries : Moved(set, place)[d] \in Delivery
      /\ \A d \in DOMAIN deliveries :
           Moved(set, place)[d] = IF d \in set THEN [deliveries[d] EXCEPT !.place = place]
                                              ELSE deliveries[d]
  <2>1. \A d \in DOMAIN deliveries :
          [deliveries[d] EXCEPT !.place = place] \in Delivery /\ deliveries[d] \in Delivery
    BY DeliveryTyped DEF Delivery
  <2>2. QED
    BY <2>1 DEF Moved
<1>2. \A d \in DOMAIN deliveries : [Moved(set, place)[d] EXCEPT !.kept = FALSE] \in Delivery
  <2>1. \A old \in Delivery : [old EXCEPT !.kept = FALSE] \in Delivery
    BY DEF Delivery
  <2>2. QED
    BY ONLY <1>1, <2>1
<1>3. Unkept(set, place) \in [DOMAIN deliveries -> Delivery]
  BY <1>2 DEF Unkept
<1>4. QED
  BY <1>1, <1>3, DeliveriesOf DEF Unkept

-----------------------------------------------------------------------------
(* The settlements *)

\* Where a delivery may go in a step that leaves the service alone.
Follows(old, new) ==
    /\ PlaceOK(new)
    /\ new.message = old.message /\ new.attempt = old.attempt /\ new.limit = old.limit
    /\ new.kept => old.kept
    /\ new.age >= old.age
    /\ old.place \in {"acked", "done"} => new.place \in {"acked", "done"} /\ new.asked = old.asked
    /\ new.place = "acked" => old.place = "acked"
    /\ new.place \in Open => old.place \in Open
    /\ exactlyOnce /\ new.asked = "ack" /\ new.told = "ok" =>
         old.place = "acked" \/ (old.asked = "ack" /\ old.told = "ok")

AllFollow == \A d \in DOMAIN deliveries : Follows(deliveries[d], deliveries'[d])

LEMMA ServiceAlone ==
    ASSUME ServiceShape, Settling, UNCHANGED service, Deliveries(deliveries'), AllFollow
    PROVE  ServiceShape' /\ Settling'
<1> USE DEF Settling
<1>1. UNCHANGED <<exactlyOnce, messages, leased, ackedBy>>
  BY DEF service
<1>2. /\ deliveries' \in Seq(Delivery) /\ DOMAIN deliveries' = DOMAIN deliveries
      /\ \A d \in DOMAIN deliveries : deliveries[d] \in Delivery /\ deliveries'[d] \in Delivery
  <2>1. deliveries' \in Seq(Delivery) /\ DOMAIN deliveries' = DOMAIN deliveries
    BY DEF Deliveries
  <2>2. \A d \in DOMAIN deliveries' : deliveries'[d] \in Delivery
    BY <2>1, LenProperties, ElementOfSeq
  <2>3. QED
    BY <2>1, <2>2, DeliveryTyped
<1>3. ServiceShape'
  BY <1>1, <1>2 DEF ServiceShape, MessagesTyped
<1>4. AttemptsLeft'
  BY <1>1 DEF AttemptsLeft
<1>5. PlacesOK'
  BY <1>1, <1>2 DEF AllFollow, Follows, PlacesOK, PlaceOK
<1>6. AcksAsked'
  BY <1>1, <1>2 DEF AllFollow, Follows, AcksAsked
<1>7. AckedIsIt'
  BY <1>1, <1>2 DEF AllFollow, Follows, AckedIsIt
<1>8. OneLease'
  BY <1>1, <1>2 DEF AllFollow, Follows, OneLease, ServiceShape
<1>9. KeptLeased'
  <2>1. ASSUME NEW d \in DOMAIN deliveries, deliveries'[d].place \in Open,
               deliveries'[d].kept, deliveries'[d].age <= MaxLease
        PROVE  d \in leased
    <3>1. Follows(deliveries[d], deliveries'[d])
      BY DEF AllFollow
    <3>2. deliveries[d].place \in Open /\ deliveries[d].kept /\ deliveries'[d].age >= deliveries[d].age
      BY <2>1, <3>1 DEF Follows
    <3>3. deliveries[d].age \in Nat /\ deliveries'[d].age \in Nat /\ MaxLease \in Nat
      BY <1>2, AgeCounts, LimitsAssumption
    <3>4. deliveries[d].age <= MaxLease
      BY <2>1, <3>2, <3>3
    <3>5. QED
      BY <3>2, <3>4 DEF KeptLeased
  <2>2. QED
    BY <1>1, <1>2, <2>1 DEF KeptLeased
<1>10. ConfirmedAckFinal'
  BY <1>1, <1>2 DEF AllFollow, Follows, ConfirmedAckFinal, AckedIsIt
<1>11. QED
  BY <1>3, <1>4, <1>5, <1>6, <1>7, <1>8, <1>9, <1>10

\* A delivery that only moves on: to the pump, the channel, its handler, back
\* to the service, or out of what lives.
MovesOn(old, new) ==
    /\ new.message = old.message /\ new.attempt = old.attempt /\ new.limit = old.limit /\ new.age = old.age
    /\ new.due = old.due /\ new.fits = old.fits /\ new.asked = old.asked /\ new.told = old.told
    /\ new.kept => old.kept
    /\ \/ new.place = old.place
       \/ new.place = "done"
       \/ old.place \in Early /\ new.place \in Early \cup {"handler", "nacking"}
       \/ old.place = "held" /\ old.due = 0 /\ new.place = "nacking"

LEMMA MoveFollows ==
    ASSUME ServiceShape, Settling, NEW d \in DOMAIN deliveries, NEW new, MovesOn(deliveries[d], new)
    PROVE  Follows(deliveries[d], new)
<1>1. PlaceOK(deliveries[d]) /\ deliveries[d] \in Delivery
  BY DeliveryTyped DEF Settling, PlacesOK
<1>2. new.age = deliveries[d].age /\ new.age \in Int
  BY <1>1 DEF MovesOn, Delivery
<1>3. PlaceOK(new)
  <2>1. CASE new.place = deliveries[d].place
    BY <1>1, <2>1 DEF PlaceOK, MovesOn
  <2>2. CASE new.place = "done"
    BY <1>1, <2>2 DEF PlaceOK, MovesOn, Early
  <2>3. CASE deliveries[d].place \in Early /\ new.place \in Early \cup {"handler", "nacking"}
    BY <1>1, <2>3, MessageAssumption DEF PlaceOK, MovesOn, Early
  <2>4. CASE deliveries[d].place = "held" /\ deliveries[d].due = 0 /\ new.place = "nacking"
    BY <1>1, <2>4 DEF PlaceOK, MovesOn, Early
  <2>5. QED
    BY <2>1, <2>2, <2>3, <2>4 DEF MovesOn
<1>4. QED
  BY <1>1, <1>2, <1>3 DEF MovesOn, Follows, Open, Early

LEMMA AllMoveOn ==
    ASSUME ServiceShape, Settling, UNCHANGED service, Deliveries(deliveries'),
           \A d \in DOMAIN deliveries : MovesOn(deliveries[d], deliveries'[d])
    PROVE  ServiceShape' /\ Settling'
BY MoveFollows, ServiceAlone DEF AllFollow

\* A delivery that stays as it is follows itself.
LEMMA StaysFollows ==
    ASSUME ServiceShape, Settling, NEW d \in DOMAIN deliveries
    PROVE  Follows(deliveries[d], deliveries[d])
BY MoveFollows, DeliveryTyped DEF MovesOn

\* One delivery becomes another, and the service does not know of it yet.
LEMMA OneFollows ==
    ASSUME ServiceShape, Settling, UNCHANGED service, NEW d \in DOMAIN deliveries,
           NEW new \in Delivery, deliveries' = [deliveries EXCEPT ![d] = new],
           Follows(deliveries[d], new)
    PROVE  ServiceShape' /\ Settling'
<1>1. /\ \A e \in DOMAIN deliveries : deliveries[e] \in Delivery
      /\ deliveries \in [DOMAIN deliveries -> Delivery]
  BY DeliveryTyped, LenProperties DEF ServiceShape
<1>2. /\ deliveries' \in [DOMAIN deliveries -> Delivery]
      /\ \A e \in DOMAIN deliveries : deliveries'[e] = IF e = d THEN new ELSE deliveries[e]
  BY <1>1
<1>3. AllFollow
  BY <1>2, StaysFollows DEF AllFollow
<1>4. QED
  BY <1>2, <1>3, DeliveriesOf, ServiceAlone

LEMMA AsksKeeps ==
    ASSUME ServiceShape, Settling, NEW d \in DOMAIN deliveries, NEW asked, NEW place, NEW told,
           Asks(d, asked, place, told),
           told \in {"ok", None},
           \/ place = "nacking" /\ asked \in {"retry", "drop", None}
           \/ /\ place = "acking"
              /\ \/ asked = "ack"
                 \/ asked = "drop" /\ (deliveries[d].limit = Cap => deliveries[d].attempt < Cap),
           exactlyOnce => told = None
    PROVE  ServiceShape' /\ Settling'
<1> DEFINE new == [deliveries[d] EXCEPT !.place = place, !.asked = asked, !.told = told]
<1>1. deliveries[d] \in Delivery /\ PlaceOK(deliveries[d]) /\ deliveries[d].place = "handler"
  BY DeliveryTyped DEF Settling, PlacesOK, Asks
<1>2. deliveries' = [deliveries EXCEPT ![d] = new] /\ UNCHANGED service
  BY <1>1 DEF Asks, Delivery
<1>3. new \in Delivery
  BY <1>1 DEF Delivery, Place
<1>4. /\ new.message = deliveries[d].message /\ new.attempt = deliveries[d].attempt /\ new.limit = deliveries[d].limit
      /\ new.kept = deliveries[d].kept /\ new.age = deliveries[d].age
      /\ new.due = deliveries[d].due /\ new.fits = deliveries[d].fits
      /\ new.place = place /\ new.asked = asked /\ new.told = told
  BY <1>1 DEF Delivery
<1> HIDE DEF new
<1>5. PlaceOK(new)
  BY <1>1, <1>4, MessageAssumption DEF PlaceOK, Early
<1>6. Follows(deliveries[d], new)
  BY <1>1, <1>4, <1>5, MessageAssumption DEF Follows, Open, Early, Delivery
<1>7. QED
  BY <1>2, <1>3, <1>6, OneFollows

\* Every settlement a handler asks for at once, and the drop of its handle.
LEMMA HandlesKeep ==
    ASSUME ServiceShape, Settling, NEW d \in DOMAIN deliveries,
           Ack(d) \/ Nack(d) \/ DropMessage(d) \/ Forget(d)
    PROVE  ServiceShape' /\ Settling'
<1>1. Sent \in {"ok", None} /\ (exactlyOnce => Sent = None)
  BY DEF Sent
<1>2. deliveries[d].attempt \in Nat
  BY DeliveryTyped DEF Delivery
<1>3. CASE Ack(d)
  BY <1>1, <1>3, AsksKeeps DEF Ack
<1>4. CASE Nack(d)
  BY <1>1, <1>4, AsksKeeps DEF Nack
<1>5. CASE DropMessage(d)
  <2>1. CASE at_delivery_cap(d)
    BY <1>1, <1>5, <2>1, AsksKeeps DEF DropMessage
  <2>2. CASE ~at_delivery_cap(d)
    <3>1. deliveries[d].limit = Cap => deliveries[d].attempt < Cap
      BY <1>2, <2>2, LimitsAssumption, MessageAssumption DEF at_delivery_cap
    <3>2. QED
      BY <1>1, <1>5, <2>2, <3>1, AsksKeeps DEF DropMessage
  <2>3. QED
    BY <2>1, <2>2
<1>6. CASE Forget(d)
  BY <1>6, AsksKeeps DEF Forget
<1>7. QED
  BY <1>3, <1>4, <1>5, <1>6

LEMMA NackAfterKeeps ==
    ASSUME ServiceShape, ControlShape, Settling, NEW d \in DOMAIN deliveries, NEW delay \in Delay,
           NackAfter(d, delay)
    PROVE  ServiceShape' /\ Settling'
<1> DEFINE held == delay <= MaxLease /\ up /\ connected /\ deliveries[d].over = opened.over
<1> DEFINE new == [deliveries[d] EXCEPT
                     !.place = IF held THEN "held" ELSE "nacking",
                     !.asked = "later",
                     !.told = IF delay > MaxLease THEN "error" ELSE "ok",
                     !.due = IF held THEN delay ELSE 0,
                     !.fits = held /\ deliveries[d].age + delay <= MaxLease]
<1>1. deliveries[d] \in Delivery /\ PlaceOK(deliveries[d]) /\ deliveries[d].place = "handler"
  BY DeliveryTyped DEF Settling, PlacesOK, NackAfter
<1>2. deliveries' = [deliveries EXCEPT ![d] = new] /\ UNCHANGED service
  BY <1>1 DEF NackAfter, Delivery
<1>3. delay \in Nat /\ MaxLease \in Nat
  BY LimitsAssumption
<1>4. new \in Delivery
  BY <1>1, <1>3 DEF Delivery, Place
<1>5. /\ new.message = deliveries[d].message /\ new.attempt = deliveries[d].attempt /\ new.limit = deliveries[d].limit
      /\ new.kept = deliveries[d].kept /\ new.age = deliveries[d].age
      /\ new.place \in {"held", "nacking"} /\ new.asked = "later"
      /\ new.place = "held" => new.due = delay
      /\ new.place = "nacking" => new.due = 0
      /\ new.fits => new.age + delay <= MaxLease
  BY <1>1 DEF Delivery
<1> HIDE DEF new, held
<1>6. PlaceOK(new)
  BY <1>1, <1>3, <1>5, MessageAssumption DEF PlaceOK, Early
<1>7. Follows(deliveries[d], new)
  BY <1>1, <1>5, <1>6, MessageAssumption DEF Follows, Open, Early, Delivery
<1>8. QED
  BY <1>2, <1>4, <1>7, OneFollows

LEMMA FireKeeps ==
    ASSUME ServiceShape, Settling, NEW d \in DOMAIN deliveries, Fire(d)
    PROVE  ServiceShape' /\ Settling'
<1>1. deliveries' = Moved({d}, "nacking") /\ UNCHANGED service
  BY DEF Fire
<1>2. /\ Deliveries(deliveries')
      /\ \A e \in DOMAIN deliveries :
           deliveries'[e] = IF e = d THEN [deliveries[e] EXCEPT !.place = "nacking"] ELSE deliveries[e]
  <2>1. /\ Deliveries(Moved({d}, "nacking"))
        /\ \A e \in DOMAIN deliveries :
             Moved({d}, "nacking")[e] = IF e = d THEN [deliveries[e] EXCEPT !.place = "nacking"]
                                                  ELSE deliveries[e]
    BY MovedOne DEF Place
  <2>2. QED
    BY <1>1, <2>1 DEF Deliveries
<1>3. ASSUME NEW e \in DOMAIN deliveries
      PROVE  MovesOn(deliveries[e], deliveries'[e])
  <2>1. deliveries[e] \in Delivery /\ deliveries[d].place = "held" /\ deliveries[d].due = 0
    BY DeliveryTyped DEF Fire
  <2>2. CASE e = d
    <3> DEFINE new == [deliveries[d] EXCEPT !.place = "nacking"]
    <3>1. deliveries'[e] = new
      BY <1>2, <2>2
    <3>2. MovesOn(deliveries[d], new)
      BY <2>1, <2>2 DEF MovesOn, Delivery
    <3>3. QED
      BY <2>2, <3>1, <3>2
  <2>3. CASE e # d
    BY <1>2, <2>3 DEF MovesOn
  <2>4. QED
    BY <2>2, <2>3
<1>4. QED
  BY <1>1, <1>2, <1>3, AllMoveOn

\* The answer to a settlement: the delivery is done, and told what it was.
LEMMA ToldKeeps ==
    ASSUME ServiceShape, Settling, UNCHANGED service, NEW d \in DOMAIN deliveries,
           NEW answer \in {"ok", "error", None}, Told(d, answer),
           \/ answer \in {"error", deliveries[d].told}
           \/ deliveries[d].place \in {"acked", "nacked"}
    PROVE  ServiceShape' /\ Settling'
<1> DEFINE new == [deliveries[d] EXCEPT !.place = "done", !.told = answer]
<1>1. deliveries[d] \in Delivery /\ PlaceOK(deliveries[d])
  BY DeliveryTyped DEF Settling, PlacesOK
<1>2. /\ Deliveries(Moved({d}, "done"))
      /\ \A e \in DOMAIN deliveries :
           Moved({d}, "done")[e] = IF e = d THEN [deliveries[e] EXCEPT !.place = "done"]
                                             ELSE deliveries[e]
  BY MovedOne DEF Place
<1>3. new \in Delivery
  BY <1>1 DEF Delivery, Place
<1>4. /\ new.message = deliveries[d].message /\ new.attempt = deliveries[d].attempt /\ new.limit = deliveries[d].limit
      /\ new.kept = deliveries[d].kept /\ new.age = deliveries[d].age
      /\ new.asked = deliveries[d].asked /\ new.place = "done" /\ new.told = answer
  BY <1>1 DEF Delivery
<1>5. deliveries' = [Moved({d}, "done") EXCEPT ![d].told = answer]
  BY DEF Told
<1>6. DOMAIN deliveries' = DOMAIN deliveries
  BY <1>2, <1>5 DEF Deliveries
<1>7. \A e \in DOMAIN deliveries : deliveries'[e] = IF e = d THEN new ELSE deliveries[e]
  BY <1>1, <1>2, <1>5, <1>6 DEF Deliveries, Delivery
<1>8. deliveries' \in [DOMAIN deliveries -> Delivery]
  <2>1. deliveries' = [e \in DOMAIN deliveries |-> deliveries'[e]]
    BY <1>5, <1>6
  <2>2. \A e \in DOMAIN deliveries : deliveries'[e] \in Delivery
    BY <1>3, <1>7, DeliveryTyped
  <2>3. QED
    BY <2>1, <2>2
<1> HIDE DEF new
<1>9. Follows(deliveries[d], new)
  <2>1. PlaceOK(new)
    BY <1>4 DEF PlaceOK, Early
  <2>2. exactlyOnce /\ new.asked = "ack" /\ new.told = "ok" =>
          deliveries[d].place = "acked" \/ (deliveries[d].asked = "ack" /\ deliveries[d].told = "ok")
    BY <1>1, <1>4 DEF PlaceOK
  <2>3. QED
    BY <1>1, <1>4, <2>1, <2>2 DEF Follows, Open, Early, Delivery
<1>10. AllFollow
  BY <1>7, <1>9, StaysFollows DEF AllFollow
<1>11. QED
  BY <1>8, <1>10, DeliveriesOf, ServiceAlone

LEMMA ConfirmKeeps ==
    ASSUME ServiceShape, Settling, NEW d \in DOMAIN deliveries, Confirm(d) \/ Unconfirmed(d)
    PROVE  ServiceShape' /\ Settling'
<1>1. CASE Confirm(d)
  BY <1>1, ToldKeeps DEF Confirm
<1>2. CASE Unconfirmed(d)
  <2>1. deliveries[d].told \in {"ok", "error", None}
    BY DeliveryTyped DEF Delivery
  <2>2. QED
    BY <1>2, <2>1, ToldKeeps DEF Unconfirmed
<1>3. QED
  BY <1>1, <1>2

LEMMA TickKeeps ==
    ASSUME ServiceShape, Settling, Tick
    PROVE  ServiceShape' /\ Settling'
<1>1. /\ DOMAIN deliveries' = DOMAIN deliveries /\ UNCHANGED service
      /\ \A d \in DOMAIN deliveries :
           deliveries'[d] = IF d \notin Outstanding THEN deliveries[d]
                            ELSE [deliveries[d] EXCEPT !.age = IF @ > MaxLease THEN @ ELSE @ + 1,
                                                       !.due = IF @ = 0 THEN 0 ELSE @ - 1]
  BY DEF Tick
<1>2. ASSUME NEW d \in DOMAIN deliveries
      PROVE  deliveries'[d] \in Delivery /\ Follows(deliveries[d], deliveries'[d])
  <2>1. deliveries[d] \in Delivery /\ PlaceOK(deliveries[d]) /\ MaxLease \in Nat
    BY DeliveryTyped, LimitsAssumption DEF Settling, PlacesOK
  <2>2. CASE d \notin Outstanding
    BY <1>1, <2>1, <2>2, StaysFollows
  <2>3. CASE d \in Outstanding
    <3> DEFINE old == deliveries[d]
    <3> DEFINE new == deliveries'[d]
    <3>1. new = [old EXCEPT !.age = IF @ > MaxLease THEN @ ELSE @ + 1,
                            !.due = IF @ = 0 THEN 0 ELSE @ - 1]
      BY <1>1, <2>3
    <3>2. new \in Delivery
      <4> DEFINE age == IF old.age > MaxLease THEN old.age ELSE old.age + 1
      <4> DEFINE due == IF old.due = 0 THEN 0 ELSE old.due - 1
      <4>1. age \in 0..(MaxLease + 1) /\ due \in Nat
        BY <2>1 DEF Delivery
      <4>2. new = [old EXCEPT !.age = age, !.due = due]
        BY <3>1
      <4> HIDE DEF age, due
      <4>3. QED
        BY <2>1, <4>1, <4>2 DEF Delivery
    <3>3. /\ new.message = old.message /\ new.attempt = old.attempt /\ new.limit = old.limit /\ new.kept = old.kept
          /\ new.place = old.place /\ new.asked = old.asked /\ new.told = old.told
          /\ new.fits = old.fits
          /\ new.age = IF old.age > MaxLease THEN old.age ELSE old.age + 1
          /\ new.due = IF old.due = 0 THEN 0 ELSE old.due - 1
          /\ old.age \in Nat /\ old.due \in Nat
      BY <2>1, <3>1 DEF Delivery
    <3> HIDE DEF old, new
    <3>4. PlaceOK(new)
      BY <2>1, <3>3 DEF PlaceOK, Early, old
    <3>5. QED
      BY <2>1, <3>2, <3>3, <3>4 DEF Follows, old, new
  <2>4. QED
    BY <2>2, <2>3
<1>3. deliveries' \in [DOMAIN deliveries -> Delivery]
  BY <1>1, <1>2 DEF Tick
<1>4. QED
  BY <1>1, <1>2, <1>3, DeliveriesOf, ServiceAlone DEF AllFollow

-----------------------------------------------------------------------------
(* What the service does *)

\* A delivery's lease is over: the message comes back, or is spent.
LEMMA BackKeeps ==
    ASSUME ServiceShape, Settling, NEW d \in leased, Back(d),
           Deliveries(deliveries'), AllFollow,
           \/ deliveries'[d].place \notin Open
           \/ ~deliveries'[d].kept
           \/ deliveries'[d].age > MaxLease
    PROVE  ServiceShape' /\ Settling'
<1> USE DEF Settling
<1> DEFINE m == deliveries[d].message
<1>1. /\ leased' = leased \ {d} /\ UNCHANGED <<exactlyOnce, ackedBy>>
      /\ messages' = [messages EXCEPT ![m].at =
           IF @ # "out" THEN @ ELSE IF messages[m].attempts >= Cap THEN "dead" ELSE "waiting"]
  BY DEF Back
<1>2. /\ deliveries' \in Seq(Delivery) /\ DOMAIN deliveries' = DOMAIN deliveries
      /\ \A e \in DOMAIN deliveries : deliveries[e] \in Delivery /\ deliveries'[e] \in Delivery
  <2>1. deliveries' \in Seq(Delivery) /\ DOMAIN deliveries' = DOMAIN deliveries
    BY DEF Deliveries
  <2>2. \A e \in DOMAIN deliveries' : deliveries'[e] \in Delivery
    BY <2>1, LenProperties, ElementOfSeq
  <2>3. QED
    BY <2>1, <2>2, DeliveryTyped
<1>3. d \in DOMAIN deliveries /\ m \in Message
  BY <1>2 DEF ServiceShape, Delivery
<1>4. MessagesTyped /\ \A n \in Message : messages[n].attempts \in 0..Cap
  BY DEF ServiceShape, MessagesTyped
<1>5. /\ MessagesTyped'
      /\ \A n \in Message : messages'[n].attempts = messages[n].attempts
      /\ \A n \in Message \ {m} : messages'[n] = messages[n]
      /\ messages'[m].at = IF messages[m].at # "out" THEN messages[m].at
                           ELSE IF messages[m].attempts >= Cap THEN "dead" ELSE "waiting"
  BY <1>1, <1>3, <1>4 DEF MessagesTyped
<1> HIDE DEF m
<1>6. ServiceShape'
  BY <1>1, <1>2, <1>5 DEF ServiceShape
<1>7. AttemptsLeft'
  BY <1>3, <1>4, <1>5, LimitsAssumption DEF AttemptsLeft
<1>8. PlacesOK'
  BY <1>1, <1>2 DEF AllFollow, Follows, PlacesOK, PlaceOK
<1>9. AcksAsked'
  <2>1. \A n \in Message : messages'[n].at = "acked" <=> messages[n].at = "acked"
    BY <1>3, <1>5
  <2>2. QED
    BY <1>1, <1>2, <2>1 DEF AllFollow, Follows, AcksAsked
<1>10. AckedIsIt'
  BY <1>1, <1>2 DEF AllFollow, Follows, AckedIsIt
<1>11. OneLease'
  <2> SUFFICES ASSUME exactlyOnce
               PROVE  /\ \A e \in leased' : messages'[deliveries'[e].message].at = "out"
                      /\ \A e, f \in leased' :
                           deliveries'[e].message = deliveries'[f].message => e = f
    BY <1>1 DEF OneLease
  <2>1. /\ \A e \in leased : messages[deliveries[e].message].at = "out"
        /\ \A e, f \in leased : deliveries[e].message = deliveries[f].message => e = f
        /\ \A e \in leased : e \in DOMAIN deliveries
    BY DEF OneLease, ServiceShape
  <2>2. \A e \in leased' : e \in leased /\ e # d /\ deliveries'[e].message = deliveries[e].message
    BY <1>1, <2>1 DEF AllFollow, Follows
  <2>3. \A e \in leased' : deliveries[e].message \in Message \ {m}
    BY <1>2, <2>1, <2>2 DEF Delivery, m
  <2>4. QED
    BY <1>5, <2>1, <2>2, <2>3
<1>12. KeptLeased'
  <2>1. ASSUME NEW e \in DOMAIN deliveries, deliveries'[e].place \in Open,
               deliveries'[e].kept, deliveries'[e].age <= MaxLease
        PROVE  e \in leased'
    <3>1. deliveries[e].place \in Open /\ deliveries[e].kept /\ deliveries[e].age <= MaxLease
      <4>1. Follows(deliveries[e], deliveries'[e])
        BY <2>1 DEF AllFollow
      <4>2. deliveries[e].age \in Nat /\ deliveries'[e].age \in Nat
        BY <1>2, <2>1, AgeCounts
      <4>3. MaxLease \in Nat /\ deliveries'[e].age <= MaxLease /\ deliveries'[e].age >= deliveries[e].age
        BY <2>1, <4>1, LimitsAssumption DEF Follows
      <4>4. deliveries[e].place \in Open /\ deliveries[e].kept
        BY <2>1, <4>1 DEF Follows
      <4>5. deliveries[e].age <= MaxLease
        BY <4>2, <4>3
      <4>6. QED
        BY <4>4, <4>5
    <3>2. e \in leased
      BY <3>1 DEF KeptLeased
    <3>3. e # d
      <4>1. deliveries'[e].age \in Int /\ MaxLease \in Int
        BY <1>2, AgeCounts, LimitsAssumption
      <4>2. QED
        BY <2>1, <4>1
    <3>4. QED
      BY <1>1, <3>2, <3>3
  <2>2. QED
    BY <1>2, <2>1 DEF KeptLeased
<1>13. ConfirmedAckFinal'
  BY <1>1, <1>2 DEF AllFollow, Follows, ConfirmedAckFinal, AckedIsIt
<1>14. QED
  BY <1>6, <1>7, <1>8, <1>9, <1>10, <1>11, <1>12, <1>13

LEMMA ExpireKeeps ==
    ASSUME ServiceShape, Settling, NEW d \in DOMAIN deliveries, Expire(d)
    PROVE  ServiceShape' /\ Settling'
<1>1. deliveries' = deliveries /\ d \in leased /\ Back(d)
  BY DEF Expire
<1>2. Deliveries(deliveries')
  BY <1>1 DEF Deliveries, ServiceShape
<1>3. AllFollow
  BY <1>1, StaysFollows DEF AllFollow
<1>4. \/ deliveries'[d].place \notin Open
      \/ ~deliveries'[d].kept
      \/ deliveries'[d].age > MaxLease
  BY <1>1 DEF Expire, Open, Early
<1>5. QED
  BY <1>1, <1>2, <1>3, <1>4, BackKeeps

LEMMA RejectedKeeps ==
    ASSUME ServiceShape, Settling, NEW d \in DOMAIN deliveries,
           deliveries[d].place = "nacking", Rejected(d),
           deliveries' = Moved({d}, IF exactlyOnce THEN "nacked" ELSE "done")
    PROVE  ServiceShape' /\ Settling'
<1> DEFINE to == IF exactlyOnce THEN "nacked" ELSE "done"
<1>1. to \in Place /\ to \in {"nacked", "done"} /\ (to = "nacked" => exactlyOnce)
  BY DEF Place
<1>2. deliveries' = Moved({d}, to) /\ d \in leased /\ Back(d)
  BY DEF Rejected
<1> HIDE DEF to
<1>3. /\ Deliveries(Moved({d}, to))
      /\ \A e \in DOMAIN deliveries :
           Moved({d}, to)[e] = IF e = d THEN [deliveries[e] EXCEPT !.place = to] ELSE deliveries[e]
  BY <1>1, MovedOne
<1>4. /\ Deliveries(deliveries')
      /\ \A e \in DOMAIN deliveries : e # d => deliveries'[e] = deliveries[e]
      /\ deliveries'[d] = [deliveries[d] EXCEPT !.place = to]
  BY <1>2, <1>3 DEF Deliveries
<1>5. Follows(deliveries[d], deliveries'[d])
  <2> DEFINE old == deliveries[d]
  <2> DEFINE new == deliveries'[d]
  <2>1. old \in Delivery /\ PlaceOK(old) /\ old.place = "nacking"
    BY DeliveryTyped DEF Settling, PlacesOK
  <2>2. /\ new.message = old.message /\ new.attempt = old.attempt /\ new.limit = old.limit /\ new.kept = old.kept
        /\ new.place = to /\ new.asked = old.asked /\ new.told = old.told /\ new.due = old.due
        /\ new.fits = old.fits /\ new.age = old.age
    BY <1>4, <2>1 DEF Delivery
  <2> HIDE DEF old, new
  <2>3. PlaceOK(new)
    BY <1>1, <2>1, <2>2 DEF PlaceOK, Early
  <2>4. Follows(old, new)
    BY <1>1, <2>1, <2>2, <2>3 DEF Follows, Open, Early, Delivery
  <2>5. QED
    BY <2>4 DEF old, new
<1>6. AllFollow
  BY <1>4, <1>5, StaysFollows DEF AllFollow
<1>7. deliveries'[d].place \notin Open
  BY <1>1, <1>4, DeliveryTyped DEF Open, Early, Delivery
<1>8. QED
  BY <1>2, <1>4, <1>6, <1>7, BackKeeps

LEMMA AcknowledgedKeeps ==
    ASSUME ServiceShape, Settling, NEW d \in DOMAIN deliveries,
           deliveries[d].place = "acking", Acknowledged(d),
           deliveries' = Moved({d}, IF exactlyOnce THEN "acked" ELSE "done")
    PROVE  ServiceShape' /\ Settling'
<1> USE DEF Settling
<1> DEFINE to == IF exactlyOnce THEN "acked" ELSE "done"
<1> DEFINE m == deliveries[d].message
<1>1. to \in Place /\ to \in {"acked", "done"} /\ (exactlyOnce <=> to = "acked")
  BY DEF Place
<1>2. /\ deliveries' = Moved({d}, to)
      /\ d \in leased \/ (~exactlyOnce /\ messages[m].at \in {"waiting", "out"})
      /\ leased' = leased \ {d} /\ UNCHANGED exactlyOnce
      /\ messages' = [messages EXCEPT ![m].at = "acked"]
      /\ ackedBy' = [ackedBy EXCEPT ![m] = d]
  BY DEF Acknowledged
<1> HIDE DEF to
<1>3. /\ Deliveries(Moved({d}, to))
      /\ \A e \in DOMAIN deliveries :
           Moved({d}, to)[e] = IF e = d THEN [deliveries[e] EXCEPT !.place = to] ELSE deliveries[e]
  BY <1>1, MovedOne
<1>4. /\ deliveries' \in Seq(Delivery) /\ DOMAIN deliveries' = DOMAIN deliveries
      /\ \A e \in DOMAIN deliveries : e # d => deliveries'[e] = deliveries[e]
      /\ deliveries'[d] = [deliveries[d] EXCEPT !.place = to]
      /\ \A e \in DOMAIN deliveries : deliveries[e] \in Delivery
  BY <1>2, <1>3, DeliveryTyped DEF Deliveries
<1>5. /\ deliveries'[d].message = m /\ deliveries'[d].attempt = deliveries[d].attempt
      /\ deliveries'[d].limit = deliveries[d].limit
      /\ deliveries'[d].kept = deliveries[d].kept /\ deliveries'[d].place = to
      /\ deliveries'[d].asked = deliveries[d].asked /\ deliveries'[d].told = deliveries[d].told
      /\ deliveries'[d].due = deliveries[d].due /\ deliveries'[d].fits = deliveries[d].fits
      /\ deliveries'[d].age = deliveries[d].age
  <2> DEFINE old == deliveries[d]
             new == deliveries'[d]
  <2>1. old \in Delivery /\ new = [old EXCEPT !.place = to]
    BY <1>4
  <2>2. old.message = m
    OBVIOUS
  <2> HIDE DEF old, new, m
  <2>3. /\ new.message = old.message /\ new.attempt = old.attempt /\ new.limit = old.limit
        /\ new.kept = old.kept /\ new.place = to
        /\ new.asked = old.asked /\ new.told = old.told
        /\ new.due = old.due /\ new.fits = old.fits /\ new.age = old.age
    BY ONLY <2>1 DEF Delivery
  <2>4. QED
    BY <2>2, <2>3 DEF old, new
<1>6. PlaceOK(deliveries[d]) /\ m \in Message
  BY <1>4 DEF PlacesOK, Delivery
<1>7. /\ MessagesTyped'
      /\ messages'[m].at = "acked"
      /\ \A n \in Message : messages'[n].attempts = messages[n].attempts
      /\ \A n \in Message \ {m} : messages'[n] = messages[n]
  BY <1>2, <1>6 DEF ServiceShape, MessagesTyped
<1>8. /\ ackedBy' \in [Message -> DOMAIN deliveries \cup {None}]
      /\ ackedBy'[m] = d
      /\ \A n \in Message \ {m} : ackedBy'[n] = ackedBy[n]
  BY <1>2, <1>6 DEF ServiceShape
<1> HIDE DEF m
<1>9. ServiceShape'
  BY <1>2, <1>4, <1>7, <1>8 DEF ServiceShape
<1>10. AttemptsLeft'
  BY <1>7 DEF AttemptsLeft
<1>11. PlacesOK'
  <2>1. PlaceOK(deliveries'[d])
    BY <1>1, <1>5, <1>6 DEF PlaceOK, Early
  <2>2. \A e \in DOMAIN deliveries : PlaceOK(deliveries'[e])
    BY <1>4, <2>1 DEF PlacesOK
  <2>3. QED
    BY <1>2, <1>4, <2>2 DEF PlacesOK, PlaceOK
<1>12. AcksAsked'
  <2>1. \/ deliveries[d].asked = "ack"
        \/ /\ deliveries[d].asked = "drop"
           /\ deliveries[d].limit = Cap => deliveries[d].attempt < Cap
    BY <1>6 DEF PlaceOK
  <2>2. ASSUME NEW n \in Message
        PROVE  IF messages'[n].at = "acked"
               THEN /\ ackedBy'[n] \in DOMAIN deliveries'
                    /\ LET e == deliveries'[ackedBy'[n]]
                       IN /\ e.message = n
                          /\ e.place \in {"acked", "done"}
                          /\ e.asked = "ack" \/ (e.asked = "drop" /\ (e.limit = Cap => e.attempt < Cap))
               ELSE ackedBy'[n] = None
    <3>1. CASE n = m
      BY <1>1, <1>4, <1>5, <1>7, <1>8, <2>1, <3>1
    <3>2. CASE n # m
      <4>1. messages'[n] = messages[n] /\ ackedBy'[n] = ackedBy[n]
        BY <1>7, <1>8, <3>2
      <4>2. messages[n].at = "acked" =>
              ackedBy[n] # d /\ deliveries'[ackedBy[n]] = deliveries[ackedBy[n]]
        BY <1>4 DEF AcksAsked
      <4>3. QED
        BY <1>4, <4>1, <4>2 DEF AcksAsked
    <3>3. QED
      BY <3>1, <3>2
  <2>3. QED
    BY <2>2 DEF AcksAsked
<1>13. ASSUME exactlyOnce
       PROVE  d \in leased /\ messages[m].at = "out" /\ ackedBy[m] = None
  BY <1>2, <1>6, <1>13 DEF OneLease, AcksAsked, m
<1>14. \A e \in DOMAIN deliveries : deliveries'[e].message = deliveries[e].message
  BY <1>4, <1>5 DEF m
<1>15. AckedIsIt'
  <2>1. ASSUME NEW e \in DOMAIN deliveries, deliveries'[e].place = "acked"
        PROVE  ackedBy'[deliveries'[e].message] = e
    <3>1. CASE e = d
      BY <1>5, <1>8, <3>1
    <3>2. CASE e # d
      <4>1. deliveries'[e] = deliveries[e] /\ deliveries[e].place = "acked"
        BY <1>4, <2>1, <3>2
      <4>2. exactlyOnce /\ ackedBy[deliveries[e].message] = e /\ deliveries[e].message \in Message
        BY <1>4, <4>1 DEF PlacesOK, PlaceOK, AckedIsIt, Delivery
      <4>3. e # None
        BY DomainIs, MessageAssumption
      <4>4. deliveries[e].message # m
        BY <1>13, <4>2, <4>3
      <4>5. QED
        BY <1>8, <4>1, <4>2, <4>4
    <3>3. QED
      BY <3>1, <3>2
  <2>2. QED
    BY <1>4, <2>1 DEF AckedIsIt
<1>16. OneLease'
  <2> SUFFICES ASSUME exactlyOnce
               PROVE  /\ \A e \in leased' : messages'[deliveries'[e].message].at = "out"
                      /\ \A e, f \in leased' :
                           deliveries'[e].message = deliveries'[f].message => e = f
    BY <1>2 DEF OneLease
  <2>1. /\ \A e \in leased : messages[deliveries[e].message].at = "out"
        /\ \A e, f \in leased : deliveries[e].message = deliveries[f].message => e = f
        /\ \A e \in leased : e \in DOMAIN deliveries
    BY DEF OneLease, ServiceShape
  <2>2. \A e \in leased' : e \in leased /\ e # d /\ deliveries'[e].message = deliveries[e].message
    BY <1>2, <1>14, <2>1
  <2>3. \A e \in leased' : deliveries[e].message \in Message \ {m}
    BY <1>4, <1>13, <2>1, <2>2 DEF Delivery, m
  <2>4. \A e \in leased' : messages'[deliveries'[e].message].at = "out"
    <3>1. ASSUME NEW e \in leased' PROVE messages'[deliveries'[e].message].at = "out"
      <4>1. messages'[deliveries[e].message] = messages[deliveries[e].message]
        BY <1>7, <2>3
      <4>2. deliveries'[e].message = deliveries[e].message /\ e \in leased
        BY <2>2
      <4>3. QED
        BY <2>1, <4>1, <4>2
    <3>2. QED
      BY <3>1
  <2>5. \A e, f \in leased' : deliveries'[e].message = deliveries'[f].message => e = f
    BY ONLY <2>1, <2>2
  <2>6. QED
    BY <2>4, <2>5
<1>17. KeptLeased'
  <2>1. ASSUME NEW e \in DOMAIN deliveries, deliveries'[e].place \in Open,
               deliveries'[e].kept, deliveries'[e].age <= MaxLease
        PROVE  e \in leased'
    <3>1. e # d
      BY <1>1, <1>5, <2>1 DEF Open, Early
    <3>2. e \in leased
      BY <1>4, <2>1, <3>1 DEF KeptLeased
    <3>3. QED
      BY <1>2, <3>1, <3>2
  <2>2. QED
    BY <1>4, <2>1 DEF KeptLeased
<1>18. ConfirmedAckFinal'
  <2>1. ASSUME exactlyOnce, NEW e \in DOMAIN deliveries,
               deliveries'[e].asked = "ack", deliveries'[e].told = "ok"
        PROVE  ackedBy'[deliveries'[e].message] = e
    <3>1. deliveries[e].asked = "ack" /\ deliveries[e].told = "ok"
      <4>1. CASE e = d
        BY <1>5, <2>1, <4>1
      <4>2. CASE e # d
        BY <1>4, <2>1, <4>2
      <4>3. QED
        BY <4>1, <4>2
    <3>2. e # d
      BY <1>6, <2>1, <3>1, MessageAssumption DEF PlaceOK
    <3>3. ackedBy[deliveries[e].message] = e /\ deliveries[e].message \in Message
      BY <1>4, <2>1, <3>1 DEF ConfirmedAckFinal, Delivery
    <3>4. e # None
      BY DomainIs, MessageAssumption
    <3>5. deliveries[e].message # m
      BY <1>13, <2>1, <3>3, <3>4
    <3>6. QED
      BY <1>8, <1>14, <3>3, <3>5
  <2>2. QED
    BY <1>2, <1>4, <2>1 DEF ConfirmedAckFinal
<1>19. QED
  BY <1>9, <1>10, <1>11, <1>12, <1>15, <1>16, <1>17, <1>18

LEMMA ApplyKeeps ==
    ASSUME ServiceShape, Settling, NEW d \in DOMAIN deliveries, Apply(d)
    PROVE  ServiceShape' /\ Settling'
BY AcknowledgedKeeps, RejectedKeeps DEF Apply

\* A message goes out, on an attempt that is left to it.
LEMMA ReceiveKeeps ==
    ASSUME ServiceShape, ControlShape, Settling, NEW m \in Message, Receive(m)
    PROVE  ServiceShape' /\ Settling'
<1> USE DEF Settling
<1> DEFINE n == Len(deliveries) + 1
<1> DEFINE new == [message |-> m, attempt |-> messages[m].attempts + 1, place |-> "stream",
                   kept |-> TRUE, age |-> 0, due |-> 0, fits |-> FALSE, asked |-> None,
                   told |-> None, over |-> opened.over, limit |-> opened.limit]
<1>1. /\ messages[m].at = "waiting"
      /\ messages' = [messages EXCEPT ![m] = [at |-> "out", attempts |-> @.attempts + 1]]
      /\ leased' = leased \cup {n}
      /\ deliveries' = Append(deliveries, new)
      /\ UNCHANGED <<exactlyOnce, ackedBy>>
  BY DEF Receive
<1>2. messages[m].attempts \in 0..Cap /\ messages[m].attempts < Cap
  BY <1>1 DEF ServiceShape, MessagesTyped, AttemptsLeft
<1>3. new \in Delivery
  BY <1>2, LimitsAssumption DEF Delivery, Place, ControlShape
<1>4. /\ Len(deliveries) \in Nat /\ DOMAIN deliveries = 1..Len(deliveries)
      /\ \A d \in DOMAIN deliveries : deliveries[d] \in Delivery
  BY DomainIs, DeliveryTyped
<1>5. /\ new.message = m /\ new.place = "stream" /\ new.asked = None /\ new.told = None
      /\ new.fits = FALSE /\ new.due = 0
  OBVIOUS
<1> HIDE DEF new
<1>6. /\ deliveries' \in Seq(Delivery) /\ DOMAIN deliveries' = 1..n
      /\ deliveries'[n] = new
      /\ \A d \in DOMAIN deliveries : deliveries'[d] = deliveries[d]
  <2>1. deliveries \in Seq(Delivery)
    BY DEF ServiceShape
  <2>2. /\ Append(deliveries, new) \in Seq(Delivery)
        /\ Len(Append(deliveries, new)) = n
        /\ \A i \in 1..Len(deliveries) : Append(deliveries, new)[i] = deliveries[i]
        /\ Append(deliveries, new)[n] = new
    BY <1>3, <2>1, AppendProperties
  <2>3. DOMAIN Append(deliveries, new) = 1..n
    BY <2>2, LenProperties
  <2>4. QED
    BY <1>1, <1>4, <2>2, <2>3
<1>7. /\ n \in DOMAIN deliveries' /\ n \notin DOMAIN deliveries
      /\ DOMAIN deliveries \subseteq DOMAIN deliveries'
      /\ \A d \in DOMAIN deliveries' : d = n \/ d \in DOMAIN deliveries
  BY <1>4, <1>6
<1>8. /\ MessagesTyped' /\ messages'[m].at = "out"
      /\ \A k \in Message \ {m} : messages'[k] = messages[k]
  <2>1. messages[m].attempts + 1 \in 0..Cap
    BY <1>2, LimitsAssumption
  <2>2. QED
    BY <1>1, <2>1 DEF ServiceShape, MessagesTyped
<1> HIDE DEF n
<1>9. ServiceShape'
  BY <1>1, <1>6, <1>7, <1>8 DEF ServiceShape
<1>10. AttemptsLeft'
  BY <1>8 DEF AttemptsLeft
<1>11. PlacesOK'
  <2>1. PlaceOK(new)
    BY <1>5, MessageAssumption DEF PlaceOK, Early
  <2>2. \A d \in DOMAIN deliveries' : PlaceOK(deliveries'[d])
    BY <1>6, <1>7, <2>1 DEF PlacesOK
  <2>3. QED
    BY <1>1, <2>2 DEF PlacesOK, PlaceOK
<1>12. AcksAsked'
  <2>1. \A k \in Message : messages'[k].at = "acked" <=> messages[k].at = "acked"
    BY <1>1, <1>8
  <2>2. QED
    BY <1>1, <1>6, <1>7, <2>1 DEF AcksAsked
<1>13. AckedIsIt'
  BY <1>1, <1>5, <1>6, <1>7 DEF AckedIsIt
<1>14. OneLease'
  <2> SUFFICES ASSUME exactlyOnce
               PROVE  /\ \A e \in leased' : messages'[deliveries'[e].message].at = "out"
                      /\ \A e, f \in leased' :
                           deliveries'[e].message = deliveries'[f].message => e = f
    BY <1>1 DEF OneLease
  <2>1. /\ \A e \in leased : messages[deliveries[e].message].at = "out"
        /\ \A e, f \in leased : deliveries[e].message = deliveries[f].message => e = f
        /\ \A e \in leased : e \in DOMAIN deliveries
    BY DEF OneLease, ServiceShape
  <2>2. \A e \in leased :
          deliveries'[e].message = deliveries[e].message /\ deliveries[e].message \in Message \ {m}
    BY <1>1, <1>4, <1>6, <2>1 DEF Delivery
  <2>3. \A e \in leased' : e = n \/ e \in leased
    BY <1>1
  <2>4. deliveries'[n].message = m
    BY <1>5, <1>6
  <2>5. QED
    BY <1>8, <2>1, <2>2, <2>3, <2>4
<1>15. KeptLeased'
  BY <1>1, <1>6, <1>7 DEF KeptLeased
<1>16. ConfirmedAckFinal'
  BY <1>1, <1>5, <1>6, <1>7, MessageAssumption DEF ConfirmedAckFinal
<1>17. QED
  BY <1>9, <1>10, <1>11, <1>12, <1>13, <1>14, <1>15, <1>16

-----------------------------------------------------------------------------
(* The pump and the channel *)

\* A delivery that is past the channel, and stays there.
Elsewhere(old, new) ==
    \/ new.place = old.place /\ new.asked = old.asked
    \/ /\ old.place \notin Early /\ new.place \notin Early
       /\ \/ old.place \in {"handler", "held"}
          \/ old.asked # None
          \/ new.place \notin {"handler", "held"} /\ new.asked = None

LEMMA ElsewhereKeeps ==
    ASSUME ControlShape, Carrying, UNCHANGED <<channel, control>>, faults' \in 0..MaxFaults,
           DOMAIN deliveries' = DOMAIN deliveries,
           \A d \in DOMAIN deliveries : Elsewhere(deliveries[d], deliveries'[d])
    PROVE  ControlShape' /\ Carrying'
<1> USE DEF Carrying
<1>1. UNCHANGED <<channel, pump, stream, subscriber, token, up, connected, opened>>
  BY DEF control
<1>2. ControlShape'
  BY <1>1 DEF ControlShape
<1>3. \A d \in DOMAIN deliveries :
        /\ deliveries'[d].place \in Early <=> deliveries[d].place \in Early
        /\ deliveries[d].place \in Early => deliveries'[d].place = deliveries[d].place
  BY DEF Elsewhere
<1>4. ChannelIs'
  BY <1>1, <1>3 DEF ChannelIs, Early
<1>5. At("pump")' = At("pump")
  BY <1>3 DEF At, Early
<1>6. PumpIs'
  BY <1>1, <1>5 DEF PumpIs
<1>7. InOrder'
  BY <1>3 DEF InOrder, Early
<1>8. HandedInOrder'
  BY <1>3 DEF HandedInOrder, Elsewhere, Early
<1>9. QED
  BY <1>2, <1>4, <1>6, <1>7, <1>8

\* Deliveries that leave for the service or with their process, and a channel
\* that is emptied or keeps what it holds.
Leaves(old, new) ==
    /\ new.asked = old.asked
    /\ new.place = old.place \/ new.place \in {"nacking", "done"}

LEMMA LeavesKeep ==
    ASSUME Carrying, DOMAIN deliveries' = DOMAIN deliveries,
           \A d \in DOMAIN deliveries : Leaves(deliveries[d], deliveries'[d]),
           \/ /\ channel' = channel /\ subscriber' = subscriber
              /\ \A d \in DOMAIN deliveries :
                   deliveries[d].place = "channel" => deliveries'[d].place = "channel"
           \/ /\ channel' = <<>>
              /\ \A d \in DOMAIN deliveries : deliveries'[d].place # "channel",
           \/ /\ pump' # "sending"
              /\ \A d \in DOMAIN deliveries : deliveries'[d].place # "pump"
           \/ /\ pump' = pump
              /\ \A d \in DOMAIN deliveries :
                   deliveries'[d].place = "pump" <=> deliveries[d].place = "pump"
    PROVE  Carrying'
<1> USE DEF Carrying
<1>1. \A d \in DOMAIN deliveries :
        \/ deliveries'[d].place = deliveries[d].place
        \/ deliveries'[d].place \in {"nacking", "done"}
  BY DEF Leaves
<1>2. ChannelIs'
  <2>1. CASE /\ channel' = channel /\ subscriber' = subscriber
             /\ \A d \in DOMAIN deliveries :
                  deliveries[d].place = "channel" => deliveries'[d].place = "channel"
    BY <1>1, <2>1 DEF ChannelIs
  <2>2. CASE /\ channel' = <<>>
             /\ \A d \in DOMAIN deliveries : deliveries'[d].place # "channel"
    <3>1. DOMAIN channel' = {}
      BY <2>2
    <3>2. QED
      BY <2>2, <3>1 DEF ChannelIs
  <2>3. QED
    BY <2>1, <2>2
<1>3. PumpIs'
  <2>1. CASE /\ pump' # "sending"
             /\ \A d \in DOMAIN deliveries : deliveries'[d].place # "pump"
    BY <2>1 DEF PumpIs, At
  <2>2. CASE /\ pump' = pump
             /\ \A d \in DOMAIN deliveries :
                  deliveries'[d].place = "pump" <=> deliveries[d].place = "pump"
    <3>1. At("pump")' = At("pump")
      BY <2>2 DEF At
    <3>2. QED
      BY <2>2, <3>1 DEF PumpIs
  <2>3. QED
    BY <2>1, <2>2
<1>4. InOrder'
  BY <1>1 DEF InOrder
<1>5. HandedInOrder'
  BY <1>1 DEF HandedInOrder, Leaves
<1>6. QED
  BY <1>2, <1>3, <1>4, <1>5

\* The first delivery at a place is there, and no other before it.
LEMMA FirstIs ==
    ASSUME ServiceShape, NEW place, At(place) # {}
    PROVE  First(place) \in At(place) /\ \A e \in At(place) : First(place) <= e
<1>1. At(place) \subseteq Nat
  BY DomainIs DEF At
<1>2. PICK d \in At(place) : \A e \in At(place) : ~(<<e, d>> \in OpToRel(<, Nat))
  BY <1>1, WFMin, NatLessThanWellFounded
<1>3. \A e \in At(place) : d <= e
  <2>1. ASSUME NEW e \in At(place) PROVE ~(e < d)
    BY <1>1, <1>2 DEF OpToRel
  <2>2. QED
    BY <1>1, <2>1
<1>4. QED
  BY <1>3 DEF First

\* What a fault may cost, and what a step without one leaves.
LEMMA FaultTyped ==
    ASSUME ControlShape, Fault \/ UNCHANGED faults
    PROVE  faults' \in 0..MaxFaults
BY BoundAssumption DEF ControlShape, Fault

LEMMA AsksCarries ==
    ASSUME PullInv, NEW d \in DOMAIN deliveries, Handles(d)
    PROVE  ControlShape' /\ Carrying'
<1>1. deliveries[d] \in Delivery /\ deliveries[d].place = "handler"
  BY DeliveryTyped DEF PullInv, Handles, Ack, Nack, DropMessage, Forget, Asks, NackAfter
<1>2. UNCHANGED <<channel, control, faults>>
  BY DEF Handles, Ack, Nack, DropMessage, Forget, Asks, NackAfter
<1>3. ASSUME NEW asked, NEW place, NEW told, Asks(d, asked, place, told),
             place \in {"acking", "nacking"}
      PROVE  ControlShape' /\ Carrying'
  <2> DEFINE new == [deliveries[d] EXCEPT !.place = place, !.asked = asked, !.told = told]
  <2>1. deliveries' = [deliveries EXCEPT ![d] = new]
    BY <1>1, <1>3 DEF Asks, Delivery
  <2>2. new.place = place
    BY <1>1 DEF Delivery
  <2> HIDE DEF new
  <2>3. \A e \in DOMAIN deliveries :
          deliveries'[e] = IF e = d THEN new ELSE deliveries[e]
    BY <2>1
  <2>4. \A e \in DOMAIN deliveries : Elsewhere(deliveries[e], deliveries'[e])
    BY <1>1, <1>3, <2>2, <2>3 DEF Elsewhere, Early
  <2>5. DOMAIN deliveries' = DOMAIN deliveries /\ faults' \in 0..MaxFaults
    BY <1>2, <2>1, FaultTyped DEF PullInv
  <2>6. QED
    BY <1>2, <2>4, <2>5, ElsewhereKeeps DEF PullInv
<1>4. ASSUME NEW delay \in Delay, NackAfter(d, delay)
      PROVE  ControlShape' /\ Carrying'
  <2> DEFINE held == delay <= MaxLease /\ up /\ connected /\ deliveries[d].over = opened.over
  <2> DEFINE new == [deliveries[d] EXCEPT
                       !.place = IF held THEN "held" ELSE "nacking",
                       !.asked = "later",
                       !.told = IF delay > MaxLease THEN "error" ELSE "ok",
                       !.due = IF held THEN delay ELSE 0,
                       !.fits = held /\ deliveries[d].age + delay <= MaxLease]
  <2>1. deliveries' = [deliveries EXCEPT ![d] = new]
    BY <1>1, <1>4 DEF NackAfter, Delivery
  <2>2. new.place \in {"held", "nacking"}
    BY <1>1 DEF Delivery
  <2> HIDE DEF new, held
  <2>3. \A e \in DOMAIN deliveries :
          deliveries'[e] = IF e = d THEN new ELSE deliveries[e]
    BY <2>1
  <2>4. \A e \in DOMAIN deliveries : Elsewhere(deliveries[e], deliveries'[e])
    BY <1>1, <2>2, <2>3 DEF Elsewhere, Early
  <2>5. DOMAIN deliveries' = DOMAIN deliveries /\ faults' \in 0..MaxFaults
    BY <1>2, <2>1, FaultTyped DEF PullInv
  <2>6. QED
    BY <1>2, <2>4, <2>5, ElsewhereKeeps DEF PullInv
<1>5. QED
  BY <1>3, <1>4 DEF Handles, Ack, Nack, DropMessage, Forget

LEMMA MovedCarries ==
    ASSUME PullInv, NEW d \in DOMAIN deliveries, NEW place \in Place \ Early,
           DOMAIN deliveries' = DOMAIN deliveries,
           \A e \in DOMAIN deliveries : e # d => deliveries'[e] = deliveries[e],
           deliveries'[d].place = place, deliveries'[d].asked = deliveries[d].asked,
           place \notin {"handler", "held"}, deliveries[d].place \notin Early,
           UNCHANGED <<channel, control>>, Fault \/ UNCHANGED faults
    PROVE  ControlShape' /\ Carrying'
<1>1. \A e \in DOMAIN deliveries : Elsewhere(deliveries[e], deliveries'[e])
  BY DEF Elsewhere
<1>2. faults' \in 0..MaxFaults
  BY FaultTyped DEF PullInv
<1>3. QED
  BY <1>1, <1>2, ElsewhereKeeps DEF PullInv

\* What becomes of a delivery alone.
LEMMA MovedAlone ==
    ASSUME ServiceShape, NEW d \in DOMAIN deliveries, NEW place \in Place,
           deliveries' = Moved({d}, place)
    PROVE  /\ DOMAIN deliveries' = DOMAIN deliveries
           /\ \A e \in DOMAIN deliveries : e # d => deliveries'[e] = deliveries[e]
           /\ deliveries'[d].place = place /\ deliveries'[d].asked = deliveries[d].asked
<1>1. /\ Deliveries(Moved({d}, place))
      /\ \A e \in DOMAIN deliveries :
           Moved({d}, place)[e] = IF e = d THEN [deliveries[e] EXCEPT !.place = place]
                                           ELSE deliveries[e]
  BY MovedOne
<1>2. deliveries[d] \in Delivery
  BY DeliveryTyped
<1>3. QED
  BY <1>1, <1>2 DEF Deliveries, Delivery

LEMMA SettlingStep ==
    ASSUME PullInv, NEW d \in DOMAIN deliveries, Handles(d) \/ Fire(d) \/ Answers(d) \/ Expire(d)
    PROVE  PullInv'
<1> USE DEF PullInv
<1>1. ServiceShape' /\ Settling'
  BY HandlesKeep, NackAfterKeeps, FireKeeps, ApplyKeeps, ConfirmKeeps, ExpireKeeps
     DEF Handles, Answers
<1>2. CASE Handles(d)
  BY <1>1, <1>2, AsksCarries
<1>3. CASE Fire(d)
  <2>1. "nacking" \in Place \ Early /\ "held" \notin Early
    BY DEF Place, Early
  <2>2. deliveries' = Moved({d}, "nacking") /\ UNCHANGED <<channel, control, faults>>
    BY <1>3 DEF Fire
  <2>3. deliveries[d].place = "held"
    BY <1>3 DEF Fire
  <2>4. /\ DOMAIN deliveries' = DOMAIN deliveries
        /\ \A e \in DOMAIN deliveries : e # d => deliveries'[e] = deliveries[e]
        /\ deliveries'[d].place = "nacking" /\ deliveries'[d].asked = deliveries[d].asked
    BY <2>1, <2>2, MovedAlone
  <2>5. ControlShape' /\ Carrying'
    BY <2>1, <2>2, <2>3, <2>4, MovedCarries
  <2>6. QED
    BY <1>1, <2>5
<1>4. CASE Apply(d)
  <2> DEFINE done == IF deliveries[d].place = "acking"
                     THEN IF exactlyOnce THEN "acked" ELSE "done"
                     ELSE IF exactlyOnce THEN "nacked" ELSE "done"
  <2>1. done \in Place \ Early /\ done \notin {"handler", "held"}
    BY DEF Place, Early
  <2>2. /\ deliveries' = Moved({d}, done) /\ UNCHANGED <<channel, control, faults>>
        /\ deliveries[d].place \notin Early
    BY <1>4 DEF Apply, Early
  <2> HIDE DEF done
  <2>3. /\ DOMAIN deliveries' = DOMAIN deliveries
        /\ \A e \in DOMAIN deliveries : e # d => deliveries'[e] = deliveries[e]
        /\ deliveries'[d].place = done /\ deliveries'[d].asked = deliveries[d].asked
    BY <2>1, <2>2, MovedAlone
  <2>4. ControlShape' /\ Carrying'
    BY <2>1, <2>2, <2>3, MovedCarries
  <2>5. QED
    BY <1>1, <2>4
<1>5. CASE Confirm(d) \/ Unconfirmed(d)
  <2>1. PICK answer : Told(d, answer)
    BY <1>5 DEF Confirm, Unconfirmed
  <2>2. /\ UNCHANGED <<channel, control>> /\ (Fault \/ UNCHANGED faults)
        /\ deliveries[d].place \notin Early
    BY <1>5 DEF Confirm, Unconfirmed, Early
  <2>3. /\ Deliveries(Moved({d}, "done"))
        /\ \A e \in DOMAIN deliveries :
             Moved({d}, "done")[e] = IF e = d THEN [deliveries[e] EXCEPT !.place = "done"]
                                               ELSE deliveries[e]
    BY MovedOne DEF Place
  <2>4. deliveries[d] \in Delivery
    BY DeliveryTyped
  <2>5. deliveries' = [Moved({d}, "done") EXCEPT ![d].told = answer]
    BY <2>1 DEF Told
  <2>6. /\ DOMAIN deliveries' = DOMAIN deliveries
        /\ \A e \in DOMAIN deliveries : e # d => deliveries'[e] = deliveries[e]
        /\ deliveries'[d].place = "done" /\ deliveries'[d].asked = deliveries[d].asked
    BY <2>3, <2>4, <2>5 DEF Deliveries, Delivery
  <2>7. "done" \in Place \ Early
    BY DEF Place, Early
  <2>8. ControlShape' /\ Carrying'
    BY <2>2, <2>6, <2>7, MovedCarries
  <2>9. QED
    BY <1>1, <2>8
<1>6. CASE Expire(d)
  <2>1. UNCHANGED <<deliveries, channel, control, faults>>
    BY <1>6 DEF Expire
  <2>2. \A e \in DOMAIN deliveries : Elsewhere(deliveries[e], deliveries'[e])
    BY <2>1 DEF Elsewhere
  <2>3. ControlShape' /\ Carrying'
    BY <2>1, <2>2, FaultTyped, ElsewhereKeeps
  <2>4. QED
    BY <1>1, <2>3
<1>7. QED
  BY <1>2, <1>3, <1>4, <1>5, <1>6 DEF Answers

LEMMA TickStep ==
    ASSUME PullInv, Tick
    PROVE  PullInv'
<1>1. ServiceShape' /\ Settling'
  BY TickKeeps DEF PullInv
<1>2. /\ DOMAIN deliveries' = DOMAIN deliveries /\ UNCHANGED <<channel, control, faults>>
      /\ \A d \in DOMAIN deliveries :
           deliveries'[d] = IF d \notin Outstanding THEN deliveries[d]
                            ELSE [deliveries[d] EXCEPT !.age = IF @ > MaxLease THEN @ ELSE @ + 1,
                                                       !.due = IF @ = 0 THEN 0 ELSE @ - 1]
  BY DEF Tick
<1>3. ASSUME NEW d \in DOMAIN deliveries
      PROVE  Elsewhere(deliveries[d], deliveries'[d])
  <2>1. deliveries[d] \in Delivery
    BY DeliveryTyped DEF PullInv
  <2>2. deliveries'[d].place = deliveries[d].place /\ deliveries'[d].asked = deliveries[d].asked
    BY <1>2, <2>1 DEF Delivery
  <2>3. QED
    BY <2>2 DEF Elsewhere
<1>4. QED
  BY <1>1, <1>2, <1>3, FaultTyped, ElsewhereKeeps DEF PullInv

LEMMA ReceiveStep ==
    ASSUME PullInv, NEW m \in Message, Receive(m)
    PROVE  PullInv'
<1> USE DEF PullInv, Carrying
<1> DEFINE n == Len(deliveries) + 1
<1> DEFINE new == [message |-> m, attempt |-> messages[m].attempts + 1, place |-> "stream",
                   kept |-> TRUE, age |-> 0, due |-> 0, fits |-> FALSE, asked |-> None,
                   told |-> None, over |-> opened.over, limit |-> opened.limit]
<1>1. ServiceShape' /\ Settling'
  BY ReceiveKeeps
<1>2. /\ UNCHANGED <<channel, control, faults>>
      /\ deliveries' = Append(deliveries, new)
  BY DEF Receive
<1>3. UNCHANGED <<pump, stream, subscriber, token, up, connected, opened>>
  BY <1>2 DEF control
<1>4. /\ Len(deliveries) \in Nat /\ DOMAIN deliveries = 1..Len(deliveries)
      /\ new.place = "stream" /\ new.asked = None
  BY DomainIs
<1> HIDE DEF new
<1>5. /\ DOMAIN deliveries' = 1..n
      /\ deliveries'[n] = new
      /\ \A d \in DOMAIN deliveries : deliveries'[d] = deliveries[d]
  <2>1. deliveries \in Seq(Delivery \cup {new}) /\ new \in Delivery \cup {new}
    BY SeqMonotonic DEF ServiceShape
  <2>2. /\ Append(deliveries, new) \in Seq(Delivery \cup {new})
        /\ Len(Append(deliveries, new)) = n
        /\ \A i \in 1..Len(deliveries) : Append(deliveries, new)[i] = deliveries[i]
        /\ Append(deliveries, new)[n] = new
    BY <2>1, AppendProperties
  <2>3. DOMAIN Append(deliveries, new) = 1..n
    BY <2>2, LenProperties
  <2>4. QED
    BY <1>2, <1>4, <2>2, <2>3
<1>6. /\ n \in DOMAIN deliveries' /\ n \notin DOMAIN deliveries
      /\ \A d \in DOMAIN deliveries : d < n
      /\ DOMAIN deliveries \subseteq DOMAIN deliveries'
      /\ \A d \in DOMAIN deliveries' : d \in Nat /\ (d = n \/ d \in DOMAIN deliveries)
  BY <1>4, <1>5
<1> HIDE DEF n
<1>7. ControlShape'
  <2>1. channel' \in Seq(DOMAIN deliveries' \cup {ReceiveError})
    BY <1>2, <1>6, SeqMonotonic DEF ControlShape
  <2>2. QED
    BY <1>2, <1>3, <2>1 DEF ControlShape
<1>8. ChannelIs'
  BY <1>2, <1>3, <1>4, <1>5, <1>6 DEF ChannelIs
<1>9. PumpIs'
  <2>1. At("pump")' = At("pump")
    BY <1>4, <1>5, <1>6 DEF At
  <2>2. QED
    BY <1>3, <1>6, <2>1 DEF PumpIs
<1>10. InOrder'
  <2>1. ASSUME NEW d \in DOMAIN deliveries', NEW e \in DOMAIN deliveries', d < e
        PROVE  /\ deliveries'[d].place = "stream" => deliveries'[e].place \notin {"pump", "channel"}
               /\ deliveries'[d].place = "pump" => deliveries'[e].place # "channel"
    <3>1. d \in DOMAIN deliveries
      BY <1>6, <2>1
    <3>2. CASE e = n
      BY <1>4, <1>5, <3>2
    <3>3. CASE e \in DOMAIN deliveries
      BY <1>5, <2>1, <3>1, <3>3 DEF InOrder
    <3>4. QED
      BY <1>6, <3>2, <3>3
  <2>2. QED
    BY <2>1 DEF InOrder
<1>11. HandedInOrder'
  <2>1. ASSUME NEW d \in DOMAIN deliveries', NEW e \in DOMAIN deliveries', d < e,
               deliveries'[d].place \in {"stream", "pump", "channel"}
        PROVE  deliveries'[e].place \notin {"handler", "held"} /\ deliveries'[e].asked = None
    <3>1. d \in DOMAIN deliveries
      BY <1>6, <2>1
    <3>2. CASE e = n
      BY <1>4, <1>5, <3>2
    <3>3. CASE e \in DOMAIN deliveries
      BY <1>5, <2>1, <3>1, <3>3 DEF HandedInOrder
    <3>4. QED
      BY <1>6, <3>2, <3>3
  <2>2. QED
    BY <2>1 DEF HandedInOrder
<1>12. QED
  BY <1>1, <1>7, <1>8, <1>9, <1>10, <1>11

\* Deliveries that are moved together, each from a place before its handler or
\* from being held until now.
LEMMA MovedTogether ==
    ASSUME PullInv, UNCHANGED service, NEW set, NEW place \in {"pump", "channel", "handler", "nacking", "done"},
           deliveries' \in {Moved(set, place), Unkept(set, place)},
           \A d \in set : d \in DOMAIN deliveries =>
             deliveries[d].place \in Early \/ place = "done"
    PROVE  /\ ServiceShape' /\ Settling'
           /\ DOMAIN deliveries' = DOMAIN deliveries
           /\ \A d \in DOMAIN deliveries :
                /\ deliveries'[d].asked = deliveries[d].asked
                /\ deliveries'[d].place = IF d \in set THEN place ELSE deliveries[d].place
<1>0. place \in Place
  BY DEF Place
<1>1. /\ Deliveries(Moved(set, place)) /\ Deliveries(Unkept(set, place))
      /\ \A d \in DOMAIN deliveries :
           /\ Moved(set, place)[d] = IF d \in set THEN [deliveries[d] EXCEPT !.place = place]
                                                  ELSE deliveries[d]
           /\ Unkept(set, place)[d] =
                [(IF d \in set THEN [deliveries[d] EXCEPT !.place = place] ELSE deliveries[d])
                   EXCEPT !.kept = FALSE]
  BY <1>0, MovedFacts, UnkeptFacts DEF PullInv
<1>2. Deliveries(deliveries')
  <2>1. CASE deliveries' = Moved(set, place)
    BY <1>1, <2>1 DEF Deliveries
  <2>2. CASE deliveries' = Unkept(set, place)
    BY <1>1, <2>2 DEF Deliveries
  <2>3. QED
    BY <2>1, <2>2
<1>3. ASSUME NEW d \in DOMAIN deliveries
      PROVE  /\ MovesOn(deliveries[d], deliveries'[d])
             /\ deliveries'[d].place = IF d \in set THEN place ELSE deliveries[d].place
  <2>1. deliveries[d] \in Delivery
    BY DeliveryTyped DEF PullInv
  <2>2. \/ deliveries'[d] = IF d \in set THEN [deliveries[d] EXCEPT !.place = place]
                                       ELSE deliveries[d]
        \/ deliveries'[d] =
             [(IF d \in set THEN [deliveries[d] EXCEPT !.place = place] ELSE deliveries[d])
                EXCEPT !.kept = FALSE]
    BY <1>1
  <2> DEFINE old == deliveries[d]
  <2> DEFINE new == deliveries'[d]
  <2>3. /\ new.message = old.message /\ new.attempt = old.attempt /\ new.limit = old.limit /\ new.age = old.age
        /\ new.due = old.due /\ new.fits = old.fits /\ new.asked = old.asked
        /\ new.told = old.told /\ (new.kept => old.kept)
        /\ new.place = IF d \in set THEN place ELSE old.place
    <3>1. CASE d \in set
      BY <2>1, <2>2, <3>1 DEF Delivery
    <3>2. CASE d \notin set
      BY <2>1, <2>2, <3>2 DEF Delivery
    <3>3. QED
      BY <3>1, <3>2
  <2>4. d \in set => old.place \in Early \/ place = "done"
    OBVIOUS
  <2> HIDE DEF old, new
  <2>5. MovesOn(old, new)
    BY <2>3, <2>4 DEF MovesOn, Early
  <2>6. QED
    BY <2>3, <2>5 DEF old, new
<1>4. ServiceShape' /\ Settling'
  BY <1>2, <1>3, AllMoveOn DEF PullInv
<1>5. QED
  BY <1>2, <1>3, <1>4 DEF Deliveries, MovesOn

\* The channel and the pump's words, where the channel is emptied or stays.
LEMMA ControlTyped ==
    ASSUME ControlShape, DOMAIN deliveries' = DOMAIN deliveries,
           channel' \in {channel, <<>>},
           pump' \in {"running", "sending", "failing", "ended"},
           stream' \in {"open", "failed", "shut"}, subscriber' \in {"open", "dropped"},
           token' \in {"unset", "spawned", "signalled"},
           up' \in BOOLEAN, connected' \in BOOLEAN, opened' \in [over : Nat, limit : Learned],
           Fault \/ UNCHANGED faults
    PROVE  ControlShape'
<1>1. faults' \in 0..MaxFaults
  BY FaultTyped
<1>2. channel' \in Seq(DOMAIN deliveries \cup {ReceiveError}) /\ Len(channel') <= CHANNEL_CAPACITY
  <2>1. CASE channel' = channel
    BY <2>1 DEF ControlShape
  <2>2. CASE channel' = <<>>
    <3>1. channel' \in Seq(DOMAIN deliveries \cup {ReceiveError}) /\ Len(channel') = 0
      BY <2>2, EmptySeq
    <3>2. QED
      BY <3>1, LimitsAssumption
  <2>3. QED
    BY <2>1, <2>2
<1>3. QED
  BY <1>1, <1>2 DEF ControlShape

\* Deliveries that go back together, with what becomes of the channel and the pump.
LEMMA BackTogether ==
    ASSUME PullInv, UNCHANGED service, NEW set, NEW place \in {"nacking", "done"},
           deliveries' \in {Moved(set, place), Unkept(set, place)},
           \A d \in set : d \in DOMAIN deliveries =>
             deliveries[d].place \in Early \/ place = "done",
           \/ /\ channel' = channel /\ subscriber' = subscriber
              /\ \A d \in set : d \in DOMAIN deliveries => deliveries[d].place # "channel"
           \/ /\ channel' = <<>>
              /\ \A d \in DOMAIN deliveries : deliveries[d].place = "channel" => d \in set,
           \/ /\ pump' # "sending"
              /\ \A d \in DOMAIN deliveries : deliveries[d].place = "pump" => d \in set
           \/ /\ pump' = pump
              /\ \A d \in set : d \in DOMAIN deliveries => deliveries[d].place # "pump",
           pump' \in {"running", "sending", "failing", "ended"},
           stream' \in {"open", "failed", "shut"}, subscriber' \in {"open", "dropped"},
           token' \in {"unset", "spawned", "signalled"},
           up' \in BOOLEAN, connected' \in BOOLEAN, opened' \in [over : Nat, limit : Learned],
           Fault \/ UNCHANGED faults
    PROVE  PullInv'
<1> USE DEF PullInv
<1>1. /\ ServiceShape' /\ Settling'
      /\ DOMAIN deliveries' = DOMAIN deliveries
      /\ \A d \in DOMAIN deliveries :
           /\ deliveries'[d].asked = deliveries[d].asked
           /\ deliveries'[d].place = IF d \in set THEN place ELSE deliveries[d].place
  BY MovedTogether
<1>2. ControlShape'
  BY <1>1, ControlTyped
<1>3. \A d \in DOMAIN deliveries : Leaves(deliveries[d], deliveries'[d])
  BY <1>1 DEF Leaves
<1>4. \/ /\ channel' = channel /\ subscriber' = subscriber
         /\ \A d \in DOMAIN deliveries :
              deliveries[d].place = "channel" => deliveries'[d].place = "channel"
      \/ /\ channel' = <<>>
         /\ \A d \in DOMAIN deliveries : deliveries'[d].place # "channel"
  BY <1>1
<1>5. \/ /\ pump' # "sending"
         /\ \A d \in DOMAIN deliveries : deliveries'[d].place # "pump"
      \/ /\ pump' = pump
         /\ \A d \in DOMAIN deliveries :
              deliveries'[d].place = "pump" <=> deliveries[d].place = "pump"
  BY <1>1
<1>6. Carrying'
  BY <1>1, <1>3, <1>4, <1>5, LeavesKeep
<1>7. QED
  BY <1>1, <1>2, <1>6

\* Moving none of them leaves the deliveries as they are.
LEMMA MovedNone ==
    ASSUME ServiceShape, UNCHANGED deliveries
    PROVE  deliveries' \in {Moved({}, "done"), Unkept({}, "done")}
<1>1. deliveries \in [1..Len(deliveries) -> Delivery]
  BY LenProperties DEF ServiceShape
<1>2. deliveries = [d \in DOMAIN deliveries |-> deliveries[d]]
  BY <1>1
<1>3. Moved({}, "done") = [d \in DOMAIN deliveries |-> deliveries[d]]
  BY DEF Moved
<1>4. QED
  BY <1>2, <1>3

\* What ends, fails or opens again keeps everything.
LEMMA EndsStep ==
    ASSUME PullInv,
           \/ SendFails \/ Signal \/ StopRuntime \/ DropSubscriber \/ Finish \/ Crash
    PROVE  PullInv'
<1> USE DEF PullInv
<1>1. CASE SendFails
  <2> DEFINE set == At("pump") \cup At("stream")
  <2>1. /\ UNCHANGED <<service, channel, subscriber, token, up, connected, opened, faults>>
        /\ deliveries' \in {Moved(set, "nacking"), Unkept(set, "nacking")}
        /\ pump' = "ended" /\ stream' = "shut"
    BY <1>1 DEF SendFails
  <2>2. /\ \A d \in set : d \in DOMAIN deliveries =>
             deliveries[d].place \in Early /\ deliveries[d].place # "channel"
        /\ \A d \in DOMAIN deliveries : deliveries[d].place = "pump" => d \in set
    BY DEF At, Early
  <2> HIDE DEF set
  <2>3. QED
    BY <2>1, <2>2, BackTogether DEF ControlShape
<1>2. CASE Signal
  <2> DEFINE set == At("stream")
  <2>1. /\ UNCHANGED <<service, channel, pump, subscriber, up, connected, opened, faults>>
        /\ deliveries' \in {Moved(set, "nacking"), Unkept(set, "nacking")}
        /\ token' = "signalled" /\ stream' = "shut"
    BY <1>2 DEF Signal
  <2>2. \A d \in set : d \in DOMAIN deliveries =>
          deliveries[d].place \in Early /\ deliveries[d].place \notin {"channel", "pump"}
    BY DEF At, Early
  <2> HIDE DEF set
  <2>3. QED
    BY <2>1, <2>2, BackTogether DEF ControlShape
<1>3. CASE StopRuntime
  <2> DEFINE set == At("stream") \cup At("pump") \cup At("held")
  <2>1. /\ UNCHANGED <<service, channel, subscriber, token, connected, opened>> /\ Fault
        /\ deliveries' \in {Moved(set, "done"), Unkept(set, "done")}
        /\ pump' = "ended" /\ stream' = "shut" /\ up' = FALSE
    BY <1>3 DEF StopRuntime
  <2>2. /\ \A d \in set : d \in DOMAIN deliveries => deliveries[d].place # "channel"
        /\ \A d \in DOMAIN deliveries : deliveries[d].place = "pump" => d \in set
    BY DEF At
  <2> HIDE DEF set
  <2>3. QED
    BY <2>1, <2>2, BackTogether DEF ControlShape
<1>4. CASE DropSubscriber \/ Finish
  <2> DEFINE set == At("channel")
  <2>1. /\ UNCHANGED <<service, pump, stream, up, connected, opened>> /\ (Fault \/ UNCHANGED faults)
        /\ deliveries' \in {Moved(set, "nacking"), Unkept(set, "nacking")}
        /\ subscriber' = "dropped" /\ channel' = <<>> /\ token' \in {"spawned", token}
    BY <1>4 DEF DropSubscriber, Finish, Drop
  <2>2. /\ \A d \in set : d \in DOMAIN deliveries =>
             deliveries[d].place \in Early /\ deliveries[d].place # "pump"
        /\ \A d \in DOMAIN deliveries : deliveries[d].place = "channel" => d \in set
    BY DEF At, Early
  <2> HIDE DEF set
  <2>3. QED
    BY <2>1, <2>2, BackTogether DEF ControlShape
<1>5. CASE Crash
  <2> DEFINE set == Outstanding
  <2>1. /\ UNCHANGED service /\ Fault
        /\ deliveries' \in {Moved(set, "done"), Unkept(set, "done")}
        /\ channel' = <<>> /\ pump' = "running" /\ stream' = "open" /\ subscriber' = "open"
        /\ token' = "unset" /\ up' = TRUE /\ connected' = TRUE
        /\ opened' \in [over : Nat, limit : Learned]
    BY <1>5 DEF Crash, Opens, ControlShape
  <2>2. \A d \in DOMAIN deliveries : deliveries[d].place \in {"channel", "pump"} => d \in set
    BY DEF Outstanding
  <2> HIDE DEF set
  <2>3. QED
    BY <2>1, <2>2, BackTogether DEF ControlShape
<1>6. QED
  BY <1>1, <1>2, <1>3, <1>4, <1>5

\* The steps that move no delivery, but for a channel the error goes into.
LEMMA StandsStep ==
    ASSUME PullInv, StreamFails \/ TakeError \/ StreamEnds \/ Disconnect \/ Reopen
    PROVE  PullInv'
<1> USE DEF PullInv
<1> DEFINE none == {}
<1>1. UNCHANGED <<service, deliveries>> /\ (Fault \/ UNCHANGED faults)
  BY DEF StreamFails, TakeError, StreamEnds, Disconnect, Reopen, Opens
<1>2. deliveries' \in {Moved(none, "done"), Unkept(none, "done")}
  BY <1>1, MovedNone
<1>3. /\ pump' \in {"running", "sending", "failing", "ended"}
      /\ stream' \in {"open", "failed", "shut"} /\ subscriber' \in {"open", "dropped"}
      /\ token' \in {"unset", "spawned", "signalled"}
      /\ up' \in BOOLEAN /\ connected' \in BOOLEAN
  BY DEF StreamFails, TakeError, StreamEnds, Disconnect, Reopen, Opens, ControlShape
<1>o. opened' \in [over : Nat, limit : Learned]
  <2>1. CASE opened' = opened
    BY <2>1 DEF ControlShape
  <2>2. CASE Reopen
    <3>1. PICK n \in {opened.over, opened.over + 1} : Opens(n)
      BY <2>2 DEF Reopen
    <3>2. n \in Nat
      BY <3>1 DEF ControlShape
    <3>3. QED
      BY <3>1, <3>2 DEF Opens
  <2>3. QED
    BY <2>1, <2>2 DEF StreamFails, TakeError, StreamEnds, Disconnect
<1>4. \/ channel' = channel /\ subscriber' = subscriber
      \/ channel' = <<>> /\ \A d \in DOMAIN deliveries : deliveries[d].place # "channel"
  <2>1. CASE Reopen
    <3>1. channel = <<>> /\ channel' = <<>>
      BY <2>1 DEF Reopen, Opens, Carrying, ChannelIs
    <3>2. DOMAIN channel = {}
      BY <3>1
    <3>3. QED
      BY <3>1, <3>2 DEF Carrying, ChannelIs
  <2>2. CASE ~Reopen
    BY <2>2 DEF StreamFails, TakeError, StreamEnds, Disconnect
  <2>3. QED
    BY <2>1, <2>2
<1>5. \/ pump' = pump
      \/ pump' # "sending" /\ \A d \in DOMAIN deliveries : deliveries[d].place # "pump"
  <2>1. CASE StreamFails \/ Disconnect
    BY <2>1 DEF StreamFails, Disconnect
  <2>2. CASE TakeError \/ StreamEnds \/ Reopen
    <3>1. pump # "sending" /\ pump' # "sending"
      BY <2>2 DEF TakeError, StreamEnds, Reopen, Opens
    <3>2. At("pump") = {}
      BY <3>1 DEF Carrying, PumpIs
    <3>3. QED
      BY <3>1, <3>2 DEF At
  <2>3. QED
    BY <2>1, <2>2
<1>6. \A d \in none : FALSE
  OBVIOUS
<1> HIDE DEF none
<1>7. QED
  BY <1>1, <1>2, <1>3, <1>4, <1>5, <1>6, <1>o, BackTogether

\* One delivery goes from one place before its handler to the next.
LEMMA OneGoesOn ==
    ASSUME PullInv, UNCHANGED service, NEW d \in DOMAIN deliveries, deliveries[d].place \in Early,
           NEW place \in {"pump", "channel", "handler"}, deliveries' = Moved({d}, place)
    PROVE  /\ ServiceShape' /\ Settling'
           /\ DOMAIN deliveries' = DOMAIN deliveries
           /\ \A e \in DOMAIN deliveries :
                /\ deliveries'[e].asked = deliveries[e].asked
                /\ deliveries'[e].place = IF e = d THEN place ELSE deliveries[e].place
<1> DEFINE set == {d}
<1>1. \A e : e \in set <=> e = d
  OBVIOUS
<1>2. deliveries' \in {Moved(set, place), Unkept(set, place)}
  OBVIOUS
<1>3. place \in {"pump", "channel", "handler", "nacking", "done"}
  OBVIOUS
<1>4. \A e \in set : e \in DOMAIN deliveries => deliveries[e].place \in Early \/ place = "done"
  OBVIOUS
<1> HIDE DEF set
<1>5. /\ ServiceShape' /\ Settling'
      /\ DOMAIN deliveries' = DOMAIN deliveries
      /\ \A e \in DOMAIN deliveries :
           /\ deliveries'[e].asked = deliveries[e].asked
           /\ deliveries'[e].place = IF e \in set THEN place ELSE deliveries[e].place
  BY ONLY PullInv, UNCHANGED service, <1>2, <1>3, <1>4, MovedTogether
<1>6. QED
  BY <1>1, <1>5

LEMMA TakeStep ==
    ASSUME PullInv, Take
    PROVE  PullInv'
<1> USE DEF PullInv, Carrying
<1> DEFINE d == First("stream")
<1>1. /\ pump = "running" /\ pump' = "sending" /\ At("stream") # {}
      /\ deliveries' = Moved({d}, "pump")
      /\ UNCHANGED <<service, channel, stream, subscriber, token, up, connected, opened, faults>>
  BY DEF Take
<1>2. d \in DOMAIN deliveries /\ deliveries[d].place = "stream" /\ \A e \in At("stream") : d <= e
  BY <1>1, FirstIs DEF At
<1>3. At("pump") = {}
  BY <1>1 DEF PumpIs
<1> HIDE DEF d
<1>4. /\ ServiceShape' /\ Settling'
      /\ DOMAIN deliveries' = DOMAIN deliveries
      /\ \A e \in DOMAIN deliveries :
           /\ deliveries'[e].asked = deliveries[e].asked
           /\ deliveries'[e].place = IF e = d THEN "pump" ELSE deliveries[e].place
  <2>1. deliveries[d].place \in Early
    BY <1>2 DEF Early
  <2>2. deliveries' = Moved({d}, "pump") /\ UNCHANGED service
    BY <1>1
  <2>3. QED
    BY ONLY PullInv, <1>2, <2>1, <2>2, OneGoesOn
<1>5. ControlShape'
  BY <1>1, <1>4 DEF ControlShape
<1>6. ChannelIs'
  BY <1>1, <1>2, <1>4, ZenonT(30) DEF ChannelIs
<1>7. PumpIs'
  <2>1. At("pump")' = {d}
    BY <1>2, <1>3, <1>4 DEF At
  <2>2. QED
    BY <1>1, <1>2, <1>4, <2>1 DEF PumpIs
<1>8. InOrder'
  <2>1. ASSUME NEW a \in DOMAIN deliveries, NEW b \in DOMAIN deliveries, a < b
        PROVE  /\ deliveries'[a].place = "stream" => deliveries'[b].place \notin {"pump", "channel"}
               /\ deliveries'[a].place = "pump" => deliveries'[b].place # "channel"
    <3>1. CASE a = d
      BY <1>2, <1>4, <2>1, <3>1 DEF InOrder
    <3>2. CASE a # d /\ b = d
      <4>1. a \in Nat /\ b \in Nat
        BY DomainIs
      <4>2. a \notin At("stream") /\ a \notin At("pump")
        BY <1>2, <1>3, <2>1, <3>2, <4>1
      <4>3. QED
        BY <1>4, <3>2, <4>2 DEF At
    <3>3. CASE a # d /\ b # d
      BY <1>4, <2>1, <3>3 DEF InOrder
    <3>4. QED
      BY <3>1, <3>2, <3>3
  <2>2. QED
    BY <1>4, <2>1 DEF InOrder
<1>9. HandedInOrder'
  BY <1>2, <1>4 DEF HandedInOrder
<1>10. QED
  BY <1>4, <1>5, <1>6, <1>7, <1>8, <1>9

\* What goes into a channel with room.
LEMMA ChannelGrows ==
    ASSUME ServiceShape, ControlShape, NEW x \in DOMAIN deliveries \cup {ReceiveError},
           Len(channel) < CHANNEL_CAPACITY, channel' = Append(channel, x)
    PROVE  /\ channel' \in Seq(DOMAIN deliveries \cup {ReceiveError})
           /\ Len(channel') <= CHANNEL_CAPACITY
           /\ DOMAIN channel = 1..Len(channel) /\ DOMAIN channel' = 1..(Len(channel) + 1)
           /\ Len(channel) \in Nat
           /\ \A k \in DOMAIN channel : channel'[k] = channel[k]
           /\ channel'[Len(channel) + 1] = x
<1>1. channel \in Seq(DOMAIN deliveries \cup {ReceiveError})
  BY DEF ControlShape
<1>2. /\ channel' \in Seq(DOMAIN deliveries \cup {ReceiveError})
      /\ Len(channel') = Len(channel) + 1
      /\ \A i \in 1..Len(channel) : channel'[i] = channel[i]
      /\ channel'[Len(channel) + 1] = x
  BY <1>1, AppendProperties
<1>3. /\ DOMAIN channel = 1..Len(channel) /\ Len(channel) \in Nat
      /\ DOMAIN channel' = 1..Len(channel')
  BY <1>1, <1>2, LenProperties
<1>4. QED
  BY <1>2, <1>3, LimitsAssumption

LEMMA SendStep ==
    ASSUME PullInv, Send
    PROVE  PullInv'
<1> USE DEF PullInv, Carrying
<1> DEFINE n == Len(channel) + 1
<1>1. /\ pump = "sending" /\ pump' = "running" /\ subscriber = "open"
      /\ Len(channel) < CHANNEL_CAPACITY
      /\ channel' = Append(channel, First("pump"))
      /\ deliveries' = Moved(At("pump"), "channel")
      /\ UNCHANGED <<service, stream, subscriber, token, up, connected, opened, faults>>
  BY DEF Send
<1>2. PICK d \in DOMAIN deliveries : At("pump") = {d}
  BY <1>1 DEF PumpIs
<1>3. First("pump") = d /\ deliveries[d].place = "pump"
  <2>1. First("pump") \in At("pump")
    BY <1>2, FirstIs
  <2>2. QED
    BY <1>2, <2>1 DEF At
<1>4. /\ ServiceShape' /\ Settling'
      /\ DOMAIN deliveries' = DOMAIN deliveries
      /\ \A e \in DOMAIN deliveries :
           /\ deliveries'[e].asked = deliveries[e].asked
           /\ deliveries'[e].place = IF e = d THEN "channel" ELSE deliveries[e].place
  BY <1>1, <1>2, <1>3, OneGoesOn DEF Early
<1>5. /\ channel' \in Seq(DOMAIN deliveries \cup {ReceiveError})
      /\ Len(channel') <= CHANNEL_CAPACITY
      /\ DOMAIN channel = 1..Len(channel) /\ DOMAIN channel' = 1..n
      /\ n \in Nat /\ n = Len(channel) + 1 /\ Len(channel) \in Nat
      /\ \A k \in DOMAIN channel : channel'[k] = channel[k]
      /\ channel'[n] = d
  BY <1>1, <1>3, ChannelGrows
<1> HIDE DEF n
<1>6. /\ n \in DOMAIN channel' /\ DOMAIN channel \subseteq DOMAIN channel'
      /\ \A k \in DOMAIN channel' : k = n \/ k \in DOMAIN channel
      /\ \A k \in DOMAIN channel : k < n
      /\ \A k \in DOMAIN channel' : k \in Nat
  BY <1>5
<1>7. ControlShape'
  BY <1>1, <1>4, <1>5 DEF ControlShape
<1>8. \A k \in DOMAIN channel : channel[k] # ReceiveError =>
        /\ channel[k] \in DOMAIN deliveries
        /\ deliveries[channel[k]].place = "channel" /\ channel[k] < d
  <2>1. ASSUME NEW k \in DOMAIN channel, channel[k] # ReceiveError
        PROVE  /\ channel[k] \in DOMAIN deliveries
               /\ deliveries[channel[k]].place = "channel" /\ channel[k] < d
    <3>1. channel[k] \in DOMAIN deliveries /\ deliveries[channel[k]].place = "channel"
      BY <2>1 DEF ChannelIs
    <3>2. ~(d < channel[k]) /\ channel[k] # d
      BY <1>3, <3>1 DEF InOrder
    <3>3. channel[k] \in Nat /\ d \in Nat
      BY <3>1, DomainIs
    <3>4. QED
      BY <3>1, <3>2, <3>3
  <2>2. QED
    BY <2>1
<1>9. ChannelIs'
  <2>1. \A k \in DOMAIN channel' : channel'[k] # ReceiveError =>
          channel'[k] \in DOMAIN deliveries' /\ deliveries'[channel'[k]].place = "channel"
    BY <1>4, <1>5, <1>6, <1>8
  <2>2. \A e \in DOMAIN deliveries' : deliveries'[e].place = "channel" =>
          \E k \in DOMAIN channel' : channel'[k] = e
    BY <1>4, <1>5, <1>6 DEF ChannelIs
  <2>3. ASSUME NEW j \in DOMAIN channel', NEW k \in DOMAIN channel', j < k,
               channel'[j] # ReceiveError, channel'[k] # ReceiveError
        PROVE  channel'[j] < channel'[k]
    <3>1. j \in DOMAIN channel /\ channel'[j] = channel[j]
      BY <1>5, <1>6, <2>3
    <3>2. CASE k = n
      BY <1>5, <1>8, <2>3, <3>1, <3>2
    <3>3. CASE k \in DOMAIN channel
      BY <1>5, <2>3, <3>1, <3>3 DEF ChannelIs
    <3>4. QED
      BY <1>6, <3>2, <3>3
  <2>4. subscriber' # "dropped"
    BY <1>1
  <2>5. QED
    BY <2>1, <2>2, <2>3, <2>4 DEF ChannelIs
<1>10. PumpIs'
  <2>1. At("pump")' = {}
    BY <1>2, <1>4 DEF At
  <2>2. QED
    BY <1>1, <2>1 DEF PumpIs
<1>11. InOrder'
  <2>1. \A e \in DOMAIN deliveries : e # d => deliveries[e].place # "pump"
    BY <1>2 DEF At
  <2>2. QED
    BY <1>3, <1>4, <2>1 DEF InOrder
<1>12. HandedInOrder'
  BY <1>3, <1>4 DEF HandedInOrder
<1>13. QED
  BY <1>4, <1>7, <1>9, <1>10, <1>11, <1>12

LEMMA SendErrorStep ==
    ASSUME PullInv, SendError
    PROVE  PullInv'
<1> USE DEF PullInv, Carrying
<1>1. /\ pump = "failing" /\ pump' = "ended"
      /\ UNCHANGED <<service, deliveries, stream, subscriber, token, up, connected, opened, faults>>
  BY DEF SendError
<1>2. UNCHANGED <<exactlyOnce, messages, leased, ackedBy>>
  BY <1>1 DEF service
<1>3. ServiceShape' /\ Settling'
  <2>1. ServiceShape'
    BY <1>1, <1>2 DEF ServiceShape, MessagesTyped
  <2>2. PlacesOK' /\ AcksAsked' /\ AttemptsLeft' /\ AckedIsIt'
    BY <1>1, <1>2 DEF Settling, PlacesOK, PlaceOK, AcksAsked, AttemptsLeft, AckedIsIt
  <2>3. OneLease' /\ KeptLeased' /\ ConfirmedAckFinal'
    BY <1>1, <1>2 DEF Settling, OneLease, KeptLeased, ConfirmedAckFinal
  <2>4. QED
    BY <2>1, <2>2, <2>3 DEF Settling
<1>4. InOrder' /\ HandedInOrder'
  BY <1>1 DEF InOrder, HandedInOrder
<1>5. PumpIs'
  <2>1. At("pump") = {} /\ At("pump")' = At("pump")
    BY <1>1 DEF PumpIs, At
  <2>2. QED
    BY <1>1, <2>1 DEF PumpIs
<1>6. CASE subscriber = "dropped" /\ UNCHANGED channel
  BY <1>1, <1>3, <1>4, <1>5, <1>6 DEF ControlShape, ChannelIs
<1>7. CASE /\ subscriber = "open" /\ Len(channel) < CHANNEL_CAPACITY
           /\ channel' = Append(channel, ReceiveError)
  <2> DEFINE n == Len(channel) + 1
  <2>1. /\ channel' \in Seq(DOMAIN deliveries \cup {ReceiveError})
        /\ Len(channel') <= CHANNEL_CAPACITY
        /\ DOMAIN channel = 1..Len(channel) /\ DOMAIN channel' = 1..n
        /\ n = Len(channel) + 1 /\ Len(channel) \in Nat
        /\ \A k \in DOMAIN channel : channel'[k] = channel[k]
        /\ channel'[n] = ReceiveError
    BY <1>7, ChannelGrows
  <2> HIDE DEF n
  <2>2. /\ DOMAIN channel \subseteq DOMAIN channel'
        /\ \A k \in DOMAIN channel' : k = n \/ k \in DOMAIN channel
    BY <2>1
  <2>3. ControlShape'
    BY <1>1, <2>1 DEF ControlShape
  <2>4. ChannelIs'
    BY <1>1, <1>7, <2>1, <2>2 DEF ChannelIs
  <2>5. QED
    BY <1>3, <1>4, <1>5, <2>3, <2>4
<1>8. QED
  BY <1>6, <1>7 DEF SendError

LEMMA PollStep ==
    ASSUME PullInv, Poll
    PROVE  PullInv'
<1> USE DEF PullInv, Carrying
<1> DEFINE h == Head(channel)
<1>1. /\ channel # <<>> /\ channel' = Tail(channel) /\ subscriber = "open"
      /\ deliveries' = IF h = ReceiveError THEN deliveries ELSE Moved({h}, "handler")
      /\ UNCHANGED <<service, control, faults>>
  BY DEF Poll
<1>2. UNCHANGED <<pump, stream, subscriber, token, up, connected, opened, faults>>
  BY <1>1 DEF control
<1>3. /\ channel' \in Seq(DOMAIN deliveries \cup {ReceiveError})
      /\ Len(channel') <= CHANNEL_CAPACITY
      /\ 1 \in DOMAIN channel /\ channel[1] = h
      /\ \A k \in DOMAIN channel' : k + 1 \in DOMAIN channel /\ channel'[k] = channel[k + 1]
      /\ \A k \in DOMAIN channel : k \in Nat /\ k >= 1 /\ (k # 1 => k - 1 \in DOMAIN channel')
      /\ \A k \in DOMAIN channel' : k \in Nat /\ k >= 1
  <2>1. channel \in Seq(DOMAIN deliveries \cup {ReceiveError}) /\ Len(channel) <= CHANNEL_CAPACITY
    BY DEF ControlShape
  <2>2. /\ channel' \in Seq(DOMAIN deliveries \cup {ReceiveError})
        /\ Len(channel') = Len(channel) - 1
        /\ \A i \in 1..Len(channel') : channel'[i] = channel[i + 1]
    BY <1>1, <2>1, HeadTailProperties
  <2>3. /\ DOMAIN channel = 1..Len(channel) /\ DOMAIN channel' = 1..Len(channel')
        /\ Len(channel) \in Nat /\ Len(channel) # 0
    BY <1>1, <2>1, <2>2, LenProperties, EmptySeq
  <2>4. h = channel[1]
    BY <2>1
  <2>5. QED
    BY <2>1, <2>2, <2>3, <2>4, LimitsAssumption
<1> HIDE DEF h
<1>4. \A d \in DOMAIN deliveries : d \in Nat /\ d # ReceiveError
  BY DomainIs DEF ReceiveError
<1>5. CASE h = ReceiveError
  <2>1. UNCHANGED <<service, deliveries>> /\ UNCHANGED <<exactlyOnce, messages, leased, ackedBy>>
    BY <1>1, <1>5 DEF service
  <2>2. ServiceShape' /\ Settling'
    <3>1. ServiceShape'
      BY <2>1 DEF ServiceShape, MessagesTyped
    <3>2. PlacesOK' /\ AcksAsked' /\ AttemptsLeft' /\ AckedIsIt'
      BY <2>1 DEF Settling, PlacesOK, PlaceOK, AcksAsked, AttemptsLeft, AckedIsIt
    <3>3. OneLease' /\ KeptLeased' /\ ConfirmedAckFinal'
      BY <2>1 DEF Settling, OneLease, KeptLeased, ConfirmedAckFinal
    <3>4. QED
      BY <3>1, <3>2, <3>3 DEF Settling
  <2>3. ControlShape'
    BY <1>2, <1>3, <2>1 DEF ControlShape
  <2>4. \A d \in DOMAIN deliveries : deliveries[d].place = "channel" =>
          \E k \in DOMAIN channel' : channel'[k] = d
    <3>1. ASSUME NEW d \in DOMAIN deliveries, deliveries[d].place = "channel"
          PROVE  \E k \in DOMAIN channel' : channel'[k] = d
      <4>1. PICK k \in DOMAIN channel : channel[k] = d
        BY <3>1 DEF ChannelIs
      <4>2. k # 1
        BY <1>3, <1>4, <1>5, <4>1
      <4>3. k - 1 \in DOMAIN channel' /\ (k - 1) + 1 = k
        BY <1>3, <4>2
      <4>4. channel'[k - 1] = d
        BY <1>3, <4>1, <4>3
      <4>5. QED
        BY <4>3, <4>4
    <3>2. QED
      BY <3>1
  <2>5. ChannelIs'
    <3>1. \A k \in DOMAIN channel' : channel'[k] # ReceiveError =>
            channel'[k] \in DOMAIN deliveries' /\ deliveries'[channel'[k]].place = "channel"
      BY <1>3, <2>1 DEF ChannelIs
    <3>2. \A j, k \in DOMAIN channel' :
            j < k /\ channel'[j] # ReceiveError /\ channel'[k] # ReceiveError =>
              channel'[j] < channel'[k]
      BY <1>3 DEF ChannelIs
    <3>3. QED
      BY <1>1, <1>2, <2>1, <2>4, <3>1, <3>2 DEF ChannelIs
  <2>6. At("pump")' = At("pump")
    BY <2>1 DEF At
  <2>7. PumpIs' /\ InOrder' /\ HandedInOrder'
    BY <1>2, <2>1, <2>6 DEF PumpIs, InOrder, HandedInOrder
  <2>8. QED
    BY <2>2, <2>3, <2>5, <2>7
<1>6. CASE h # ReceiveError
  <2>1. /\ h \in DOMAIN deliveries /\ deliveries[h].place = "channel"
        /\ \A k \in DOMAIN channel : k # 1 /\ channel[k] # ReceiveError => h < channel[k]
    BY <1>3, <1>6 DEF ChannelIs
  <2>2. /\ ServiceShape' /\ Settling'
        /\ DOMAIN deliveries' = DOMAIN deliveries
        /\ \A e \in DOMAIN deliveries :
             /\ deliveries'[e].asked = deliveries[e].asked
             /\ deliveries'[e].place = IF e = h THEN "handler" ELSE deliveries[e].place
    BY <1>1, <1>6, <2>1, OneGoesOn DEF Early
  <2>3. ControlShape'
    BY <1>2, <1>3, <2>2 DEF ControlShape
  <2>4. \A d \in DOMAIN deliveries : deliveries[d].place = "channel" /\ d # h =>
          /\ \E k \in DOMAIN channel' : channel'[k] = d
          /\ h < d
    <3>1. ASSUME NEW d \in DOMAIN deliveries, deliveries[d].place = "channel", d # h
          PROVE  (\E k \in DOMAIN channel' : channel'[k] = d) /\ h < d
      <4>1. PICK k \in DOMAIN channel : channel[k] = d
        BY <3>1 DEF ChannelIs
      <4>2. k # 1
        BY <1>3, <3>1, <4>1
      <4>3. k - 1 \in DOMAIN channel' /\ (k - 1) + 1 = k
        BY <1>3, <4>2
      <4>4. channel'[k - 1] = d
        BY <1>3, <4>1, <4>3
      <4>5. h < d
        BY <1>4, <2>1, <4>1, <4>2
      <4>6. QED
        BY <4>3, <4>4, <4>5
    <3>2. QED
      BY <3>1
  <2>5. ChannelIs'
    <3>1. ASSUME NEW k \in DOMAIN channel', channel'[k] # ReceiveError
          PROVE  channel'[k] \in DOMAIN deliveries' /\ deliveries'[channel'[k]].place = "channel"
      <4>1. k + 1 \in DOMAIN channel /\ k + 1 # 1 /\ channel'[k] = channel[k + 1]
        BY <1>3
      <4>2. /\ channel'[k] \in DOMAIN deliveries /\ deliveries[channel'[k]].place = "channel"
            /\ h < channel'[k]
        BY <2>1, <3>1, <4>1 DEF ChannelIs
      <4>3. channel'[k] # h
        BY <1>4, <2>1, <4>2
      <4>4. QED
        BY <2>2, <4>2, <4>3
    <3>2. \A d \in DOMAIN deliveries' : deliveries'[d].place = "channel" =>
            \E k \in DOMAIN channel' : channel'[k] = d
      BY <2>2, <2>4
    <3>3. \A j, k \in DOMAIN channel' :
            j < k /\ channel'[j] # ReceiveError /\ channel'[k] # ReceiveError =>
              channel'[j] < channel'[k]
      BY <1>3 DEF ChannelIs
    <3>4. QED
      BY <1>1, <1>2, <3>1, <3>2, <3>3 DEF ChannelIs
  <2>6. At("pump")' = At("pump")
    BY <2>1, <2>2 DEF At
  <2>7. PumpIs'
    BY <1>2, <2>2, <2>6 DEF PumpIs
  <2>8. InOrder'
    BY <2>1, <2>2 DEF InOrder
  <2>9. HandedInOrder'
    <3>1. ASSUME NEW a \in DOMAIN deliveries, NEW b \in DOMAIN deliveries, a < b,
                 deliveries'[a].place \in {"stream", "pump", "channel"}
          PROVE  deliveries'[b].place \notin {"handler", "held"} /\ deliveries'[b].asked = None
      <4>1. a # h /\ deliveries[a].place \in {"stream", "pump", "channel"}
        BY <2>2, <3>1
      <4>2. CASE b = h
        <5>1. deliveries[a].place \notin {"stream", "pump"}
          BY <2>1, <3>1, <4>2 DEF InOrder
        <5>2. h < a
          BY <2>4, <4>1, <5>1
        <5>3. QED
          BY <1>4, <3>1, <4>2, <5>2
      <4>3. CASE b # h
        BY <2>2, <3>1, <4>1, <4>3 DEF HandedInOrder
      <4>4. QED
        BY <4>2, <4>3
    <3>2. QED
      BY <2>2, <3>1 DEF HandedInOrder
  <2>10. QED
    BY <2>2, <2>3, <2>5, <2>7, <2>8, <2>9
<1>7. QED
  BY <1>5, <1>6

-----------------------------------------------------------------------------
(* The theorems *)

LEMMA InitPull == Init => PullInv
<1> SUFFICES ASSUME Init PROVE PullInv
  OBVIOUS
<1> USE DEF Init
<1>1. /\ deliveries \in Seq(Delivery) /\ DOMAIN deliveries = {}
      /\ channel \in Seq(DOMAIN deliveries \cup {ReceiveError}) /\ DOMAIN channel = {}
      /\ Len(channel) = 0
  BY EmptySeq
<1>2. ServiceShape /\ ControlShape
  BY <1>1, LimitsAssumption, BoundAssumption DEF ServiceShape, ControlShape, MessagesTyped
<1>3. Settling
  <2>1. AttemptsLeft /\ PlacesOK /\ AcksAsked
    BY <1>1, LimitsAssumption DEF AttemptsLeft, PlacesOK, AcksAsked
  <2>2. AckedIsIt /\ OneLease /\ KeptLeased /\ ConfirmedAckFinal
    BY <1>1 DEF AckedIsIt, OneLease, KeptLeased, ConfirmedAckFinal
  <2>3. QED
    BY <2>1, <2>2 DEF Settling
<1>4. Carrying
  BY <1>1 DEF Carrying, ChannelIs, PumpIs, InOrder, HandedInOrder, At
<1>5. QED
  BY <1>2, <1>3, <1>4 DEF PullInv

LEMMA StutterKeeps ==
    ASSUME PullInv, UNCHANGED vars
    PROVE  PullInv'
<1> USE DEF vars, service, control
<1>1. ServiceShape' /\ ControlShape'
  BY DEF PullInv, ServiceShape, MessagesTyped, ControlShape
<1>2. PlacesOK' /\ AcksAsked' /\ AttemptsLeft' /\ AckedIsIt'
  BY DEF PullInv, Settling, PlacesOK, PlaceOK, AcksAsked, AttemptsLeft, AckedIsIt
<1>3. OneLease' /\ KeptLeased' /\ ConfirmedAckFinal'
  BY DEF PullInv, Settling, OneLease, KeptLeased, ConfirmedAckFinal
<1>4. ChannelIs' /\ InOrder' /\ HandedInOrder'
  BY DEF PullInv, Carrying, ChannelIs, InOrder, HandedInOrder
<1>5. PumpIs'
  <2>1. At("pump")' = At("pump")
    BY DEF At
  <2>2. QED
    BY <2>1 DEF PullInv, Carrying, PumpIs
<1>6. QED
  BY <1>1, <1>2, <1>3, <1>4, <1>5 DEF PullInv, Settling, Carrying

LEMMA NextPull == PullInv /\ [Next]_vars => PullInv'
<1> SUFFICES ASSUME PullInv, [Next]_vars PROVE PullInv'
  OBVIOUS
<1>1. ASSUME NEW m \in Message, Receive(m) PROVE PullInv'
  BY <1>1, ReceiveStep
<1>2. ASSUME NEW d \in DOMAIN deliveries, Handles(d) \/ Fire(d) \/ Answers(d) \/ Expire(d)
      PROVE  PullInv'
  BY <1>2, SettlingStep
<1>3. CASE Tick
  BY <1>3, TickStep
<1>4. CASE Take \/ Send \/ SendError \/ Poll
  BY <1>4, TakeStep, SendStep, SendErrorStep, PollStep
<1>5. CASE SendFails \/ Signal \/ StopRuntime \/ DropSubscriber \/ Finish \/ Crash
  BY <1>5, EndsStep
<1>6. CASE StreamFails \/ TakeError \/ StreamEnds \/ Disconnect \/ Reopen
  BY <1>6, StandsStep
<1>7. CASE UNCHANGED vars
  BY <1>7, StutterKeeps
<1>8. QED
  BY <1>1, <1>2, <1>3, <1>4, <1>5, <1>6, <1>7 DEF Next, Pump

LEMMA PullKept == Spec => []PullInv
<1>1. Init => PullInv
  BY InitPull
<1>2. PullInv /\ [Next]_vars => PullInv'
  BY NextPull
<1>3. QED
  BY <1>1, <1>2, PTL DEF Spec

\* Every delivery, settlement and lease keeps its shape, and the channel its
\* capacity (subscriber.rs:27, message.rs:31).
THEOREM PullTyped == Spec => []TypeOK
<1>1. PullInv => TypeOK
  BY DEF PullInv, ServiceShape, MessagesTyped, ControlShape, TypeOK
<1>2. QED
  BY <1>1, PullKept, PTL

\* A message leaves the subscription for good only on a handler's ack, or on a
\* drop before its last attempt (message.rs:302).
THEOREM AcksAreAsked == Spec => []AckedAsAsked
<1>1. PullInv => AckedAsAsked
  BY DEF PullInv, Settling, AcksAsked, AckedAsAsked
<1>2. QED
  BY <1>1, PullKept, PTL

\* With exactly-once delivery, an ack that answered Ok was the service's
\* (message.rs:54).
THEOREM ConfirmedIsFinal == Spec => []ConfirmedAckFinal
<1>1. PullInv => ConfirmedAckFinal
  BY DEF PullInv, Settling
<1>2. QED
  BY <1>1, PullKept, PTL

\* Handlers start in the order of the stream, whatever waits for the channel
\* (subscriber.rs:117).
THEOREM HandedAsReceived == Spec => []HandedInOrder
<1>1. PullInv => HandedInOrder
  BY DEF PullInv, Carrying
<1>2. QED
  BY <1>1, PullKept, PTL

\* A delay that fits the rest of the lease is waited for under that lease
\* (message.rs:108).
THEOREM DelaysAreHonoured == Spec => []DelayHonoured
<1>1. ASSUME PullInv PROVE DelayHonoured
  <2>1. ASSUME NEW d \in DOMAIN deliveries,
               deliveries[d].fits, deliveries[d].kept, deliveries[d].due > 0,
               deliveries[d].place # "done"
        PROVE  d \in leased /\ deliveries[d].place = "held"
    <3>1. deliveries[d] \in Delivery
      BY <1>1, DeliveryTyped DEF PullInv
    <3>2. /\ deliveries[d].place \notin {"held", "done"} => deliveries[d].due = 0
          /\ deliveries[d].place = "held" /\ deliveries[d].fits /\ deliveries[d].due > 0 =>
               deliveries[d].age + deliveries[d].due <= MaxLease
      BY <1>1 DEF PullInv, Settling, PlacesOK, PlaceOK
    <3>3. deliveries[d].place = "held" /\ deliveries[d].age <= MaxLease
      BY <2>1, <3>1, <3>2, LimitsAssumption DEF Delivery
    <3>4. QED
      BY <1>1, <2>1, <3>3 DEF PullInv, Settling, KeptLeased, Open
  <2>2. QED
    BY <2>1 DEF DelayHonoured
<1>2. QED
  BY <1>1, PullKept, PTL

-----------------------------------------------------------------------------
(* The contract *)

\* A lease is of a message that is out, or that a late ack took beside it, and
\* no two are of one message: what the service moved, nobody can still ack.
LeasesFit ==
    /\ \A d \in leased : messages[deliveries[d].message].at \in {"out", "acked"}
    /\ \A d, e \in leased : deliveries[d].message = deliveries[e].message => d = e

\* Deliveries stay those of the messages they are of.
SameDeliveries ==
    /\ DOMAIN deliveries' = DOMAIN deliveries
    /\ \A d \in DOMAIN deliveries : deliveries'[d].message = deliveries[d].message

LEMMA MovedSame ==
    ASSUME ServiceShape, NEW set, NEW place \in Place,
           deliveries' \in {Moved(set, place), Unkept(set, place)}
    PROVE  SameDeliveries
<1>1. \A d \in DOMAIN deliveries : deliveries[d] \in Delivery
  BY DeliveryTyped
<1>2. CASE deliveries' = Moved(set, place)
  <2>1. /\ DOMAIN deliveries' = DOMAIN deliveries
        /\ \A d \in DOMAIN deliveries :
             deliveries'[d] = IF d \in set THEN [deliveries[d] EXCEPT !.place = place]
                                           ELSE deliveries[d]
    BY <1>2, MovedFacts DEF Deliveries
  <2>2. QED
    BY <1>1, <2>1 DEF SameDeliveries, Delivery
<1>3. CASE deliveries' = Unkept(set, place)
  <2>1. /\ DOMAIN deliveries' = DOMAIN deliveries
        /\ \A d \in DOMAIN deliveries :
             deliveries'[d] =
               [(IF d \in set THEN [deliveries[d] EXCEPT !.place = place] ELSE deliveries[d])
                  EXCEPT !.kept = FALSE]
    BY <1>3, UnkeptFacts DEF Deliveries
  <2>2. QED
    BY <1>1, <2>1 DEF SameDeliveries, Delivery
<1>4. QED
  BY <1>2, <1>3

LEMMA MovedOneSame ==
    ASSUME ServiceShape, NEW d \in DOMAIN deliveries, NEW place \in Place,
           deliveries' = Moved({d}, place)
    PROVE  SameDeliveries
<1>1. \A set : deliveries' = Moved(set, place) => SameDeliveries
  BY MovedSame
<1>2. QED
  BY <1>1

\* What handlers, timers and answers do leaves the service alone, but for the
\* request that reaches it.
LEMMA SettlingSame ==
    ASSUME ServiceShape, NEW d \in DOMAIN deliveries,
           Handles(d) \/ Fire(d) \/ Confirm(d) \/ Unconfirmed(d)
    PROVE  SameDeliveries /\ UNCHANGED service
<1>1. \A e \in DOMAIN deliveries : deliveries[e] \in Delivery
  BY DeliveryTyped
<1>2. CASE Handles(d)
  <2>1. ASSUME NEW asked, NEW place, NEW told, Asks(d, asked, place, told)
        PROVE  SameDeliveries /\ UNCHANGED service
    BY <1>1, <2>1 DEF Asks, SameDeliveries, Delivery
  <2>2. ASSUME NEW delay \in Delay, NackAfter(d, delay)
        PROVE  SameDeliveries /\ UNCHANGED service
    BY <1>1, <2>2 DEF NackAfter, SameDeliveries, Delivery
  <2>3. CASE Ack(d) \/ Nack(d) \/ DropMessage(d) \/ Forget(d)
    <3>1. \E asked, place, told : Asks(d, asked, place, told)
      BY <2>3 DEF Ack, Nack, DropMessage, Forget
    <3>2. QED
      BY <2>1, <3>1
  <2>4. QED
    BY <1>2, <2>2, <2>3 DEF Handles
<1>3. CASE Fire(d)
  <2>1. deliveries' = Moved({d}, "nacking") /\ UNCHANGED service
    BY <1>3 DEF Fire
  <2>2. QED
    BY <2>1, MovedOneSame DEF Place
<1>4. CASE Confirm(d) \/ Unconfirmed(d)
  <2>1. PICK answer : Told(d, answer)
    BY <1>4 DEF Confirm, Unconfirmed
  <2>2. UNCHANGED service
    BY <1>4 DEF Confirm, Unconfirmed
  <2>3. /\ Deliveries(Moved({d}, "done"))
        /\ \A e \in DOMAIN deliveries :
             Moved({d}, "done")[e] = IF e = d THEN [deliveries[e] EXCEPT !.place = "done"]
                                               ELSE deliveries[e]
    BY MovedOne DEF Place
  <2>4. deliveries' = [Moved({d}, "done") EXCEPT ![d].told = answer]
    BY <2>1 DEF Told
  <2>5. /\ DOMAIN deliveries' = DOMAIN deliveries
        /\ \A e \in DOMAIN deliveries : e # d => deliveries'[e] = deliveries[e]
        /\ deliveries'[d] = [[deliveries[d] EXCEPT !.place = "done"] EXCEPT !.told = answer]
    BY <2>3, <2>4 DEF Deliveries
  <2>6. deliveries'[d].message = deliveries[d].message
    BY <1>1, <2>5 DEF Delivery
  <2>7. QED
    BY <2>2, <2>5, <2>6 DEF SameDeliveries
<1>5. QED
  BY <1>2, <1>3, <1>4

\* A request that reaches the service: an ack, or a rejection, whose delivery goes back.
LEMMA ApplySame ==
    ASSUME ServiceShape, NEW d \in DOMAIN deliveries, Apply(d)
    PROVE  SameDeliveries /\ (Acknowledged(d) \/ (d \in leased /\ Back(d)))
<1> DEFINE acked == IF exactlyOnce THEN "acked" ELSE "done"
<1> DEFINE nacked == IF exactlyOnce THEN "nacked" ELSE "done"
<1>1. acked \in Place /\ nacked \in Place
  BY DEF Place
<1>2. \/ Acknowledged(d) /\ deliveries' = Moved({d}, acked)
      \/ Rejected(d) /\ deliveries' = Moved({d}, nacked)
  BY DEF Apply
<1> HIDE DEF acked, nacked
<1>3. SameDeliveries
  BY <1>1, <1>2, MovedOneSame
<1>4. QED
  BY <1>2, <1>3 DEF Rejected

\* The rest of the transport moves deliveries, and leaves the service alone.
LEMMA TransportSame ==
    ASSUME ServiceShape,
           \/ Tick \/ Pump \/ Poll \/ Signal \/ Finish \/ Reopen
           \/ DropSubscriber \/ StreamFails \/ StopRuntime \/ Disconnect \/ Crash
    PROVE  SameDeliveries /\ UNCHANGED service
<1>1. \A d \in DOMAIN deliveries : deliveries[d] \in Delivery
  BY DeliveryTyped
<1>2. UNCHANGED service
  <2>1. CASE Pump
    BY <2>1 DEF Pump, Take, Send, SendFails, TakeError, SendError, StreamEnds
  <2>2. CASE Tick
    BY <2>2 DEF Tick
  <2>3. CASE Poll
    BY <2>3 DEF Poll
  <2>4. CASE Signal \/ Finish \/ Reopen \/ DropSubscriber
    BY <2>4 DEF Signal, Finish, Reopen, Opens, DropSubscriber
  <2>5. CASE StreamFails \/ StopRuntime \/ Disconnect \/ Crash
    BY <2>5 DEF StreamFails, StopRuntime, Disconnect, Crash, Opens
  <2>6. QED
    BY <2>1, <2>2, <2>3, <2>4, <2>5
<1>3. ASSUME UNCHANGED deliveries PROVE SameDeliveries
  BY <1>3 DEF SameDeliveries
<1>4. CASE Tick
  <2>1. /\ DOMAIN deliveries' = DOMAIN deliveries
        /\ \A d \in DOMAIN deliveries :
             deliveries'[d] = IF d \notin Outstanding THEN deliveries[d]
                              ELSE [deliveries[d] EXCEPT !.age = IF @ > MaxLease THEN @ ELSE @ + 1,
                                                         !.due = IF @ = 0 THEN 0 ELSE @ - 1]
    BY <1>4 DEF Tick
  <2>2. \A d \in DOMAIN deliveries : deliveries'[d].message = deliveries[d].message
    BY <1>1, <2>1 DEF Delivery
  <2>3. QED
    BY <1>2, <2>1, <2>2 DEF SameDeliveries
<1>5. ASSUME NEW set, NEW place \in Place, deliveries' \in {Moved(set, place), Unkept(set, place)}
      PROVE  SameDeliveries
  BY <1>5, MovedSame
<1>6. {"pump", "channel", "handler", "nacking", "done"} \subseteq Place
  BY DEF Place
<1>7. CASE Take \/ Send \/ Poll
  <2>1. \/ UNCHANGED deliveries
        \/ \E set : \E place \in {"pump", "channel", "handler"} : deliveries' = Moved(set, place)
    BY <1>7 DEF Take, Send, Poll
  <2>2. QED
    BY <1>2, <1>3, <1>5, <1>6, <2>1
<1>8. CASE SendFails \/ Signal \/ StopRuntime
  <2>1. \E set : \E place \in {"nacking", "done"} :
          deliveries' \in {Moved(set, place), Unkept(set, place)}
    BY <1>8 DEF SendFails, Signal, StopRuntime
  <2>2. QED
    BY <1>2, <1>5, <1>6, <2>1
<1>9. CASE DropSubscriber \/ Finish \/ Crash
  <2>1. \E set : \E place \in {"nacking", "done"} : deliveries' = Moved(set, place)
    BY <1>9 DEF DropSubscriber, Finish, Drop, Crash
  <2>2. QED
    BY <1>2, <1>5, <1>6, <2>1
<1>10. CASE TakeError \/ SendError \/ StreamEnds \/ Reopen \/ StreamFails \/ Disconnect
  <2>1. UNCHANGED deliveries
    BY <1>10 DEF TakeError, SendError, StreamEnds, Reopen, StreamFails, Disconnect
  <2>2. QED
    BY <1>2, <1>3, <2>1
<1>11. QED
  BY <1>2, <1>4, <1>7, <1>8, <1>9, <1>10 DEF Pump

\* What a step is to the service: nothing, a message handed out, a lease over, or an ack.
ServiceStep ==
    \/ SameDeliveries /\ UNCHANGED service
    \/ \E m \in Message : Receive(m)
    \/ SameDeliveries /\ \E d \in DOMAIN deliveries : d \in leased /\ Back(d)
    \/ SameDeliveries /\ \E d \in DOMAIN deliveries : Acknowledged(d)

LEMMA StepsOfService ==
    ASSUME ServiceShape, [Next]_vars
    PROVE  ServiceStep
<1>1. ASSUME NEW d \in DOMAIN deliveries, Handles(d) \/ Fire(d) \/ Answers(d) \/ Expire(d)
      PROVE  ServiceStep
  <2>1. CASE Handles(d) \/ Fire(d) \/ Confirm(d) \/ Unconfirmed(d)
    BY <2>1, SettlingSame DEF ServiceStep
  <2>2. CASE Apply(d)
    BY <2>2, ApplySame DEF ServiceStep
  <2>3. CASE Expire(d)
    <3>1. SameDeliveries /\ d \in leased /\ Back(d)
      BY <2>3 DEF Expire, SameDeliveries
    <3>2. QED
      BY <3>1 DEF ServiceStep
  <2>4. QED
    BY <1>1, <2>1, <2>2, <2>3 DEF Answers
<1>2. CASE \/ Tick \/ Pump \/ Poll \/ Signal \/ Finish \/ Reopen
           \/ DropSubscriber \/ StreamFails \/ StopRuntime \/ Disconnect \/ Crash
  BY <1>2, TransportSame DEF ServiceStep
<1>3. CASE UNCHANGED vars
  BY <1>3 DEF vars, SameDeliveries, ServiceStep
<1>4. ASSUME NEW m \in Message, Receive(m) PROVE ServiceStep
  BY <1>4 DEF ServiceStep
<1>5. QED
  BY <1>1, <1>2, <1>3, <1>4 DEF Next

\* What each of them makes of the messages.
LEMMA ReceivedWas ==
    ASSUME ServiceShape, NEW m \in Message, Receive(m)
    PROVE  /\ messages[m].at = "waiting" /\ messages'[m].at = "out"
           /\ messages'[m].attempts = messages[m].attempts + 1
           /\ \A n \in Message \ {m} : messages'[n] = messages[n]
BY DEF Receive, ServiceShape, MessagesTyped

LEMMA LeaseOf ==
    ASSUME ServiceShape, NEW d \in DOMAIN deliveries
    PROVE  deliveries[d].message \in Message
BY DeliveryTyped DEF Delivery

LEMMA BackWas ==
    ASSUME ServiceShape, NEW d \in DOMAIN deliveries, Back(d), NEW m, m = deliveries[d].message
    PROVE  /\ m \in Message
           /\ messages'[m].attempts = messages[m].attempts
           /\ messages'[m].at = IF messages[m].at # "out" THEN messages[m].at
                                ELSE IF messages[m].attempts >= Cap THEN "dead" ELSE "waiting"
           /\ \A n \in Message \ {m} : messages'[n] = messages[n]
           /\ leased' = leased \ {d}
<1>1. m \in Message
  BY LeaseOf
<1>2. QED
  BY <1>1 DEF Back, ServiceShape, MessagesTyped

LEMMA AcknowledgedWas ==
    ASSUME ServiceShape, NEW d \in DOMAIN deliveries, Acknowledged(d),
           NEW m, m = deliveries[d].message
    PROVE  /\ m \in Message
           /\ messages'[m].at = "acked"
           /\ \A n \in Message \ {m} : messages'[n] = messages[n]
           /\ leased' = leased \ {d}
           /\ d \in leased \/ messages[m].at \in {"waiting", "out"}
<1>1. m \in Message
  BY LeaseOf
<1>2. QED
  BY <1>1 DEF Acknowledged, ServiceShape, MessagesTyped

LEMMA LeasesFitKept ==
    ASSUME ServiceShape, LeasesFit, [Next]_vars
    PROVE  LeasesFit'
<1>1. /\ \A d \in leased : d \in DOMAIN deliveries
      /\ \A d \in leased : messages[deliveries[d].message].at \in {"out", "acked"}
      /\ \A d, e \in leased : deliveries[d].message = deliveries[e].message => d = e
      /\ \A d \in DOMAIN deliveries : deliveries[d].message \in Message
  BY LeaseOf DEF LeasesFit, ServiceShape
<1>2. CASE SameDeliveries /\ UNCHANGED service
  BY <1>1, <1>2 DEF service, SameDeliveries, LeasesFit
<1>3. ASSUME NEW m \in Message, Receive(m) PROVE LeasesFit'
  <2> DEFINE n == Len(deliveries) + 1
  <2>1. /\ messages[m].at = "waiting" /\ messages'[m].at = "out"
        /\ \A k \in Message \ {m} : messages'[k] = messages[k]
    BY <1>3, ReceivedWas
  <2>2. /\ leased' = leased \cup {n}
        /\ \A d \in DOMAIN deliveries : deliveries'[d].message = deliveries[d].message
        /\ deliveries'[n].message = m
    <3> DEFINE new == [message |-> m, attempt |-> messages[m].attempts + 1, place |-> "stream",
                       kept |-> TRUE, age |-> 0, due |-> 0, fits |-> FALSE, asked |-> None,
                       told |-> None, over |-> opened.over, limit |-> opened.limit]
    <3>1. deliveries' = Append(deliveries, new) /\ leased' = leased \cup {n}
      BY <1>3 DEF Receive
    <3>2. new.message = m
      OBVIOUS
    <3> HIDE DEF new
    <3>3. DOMAIN deliveries = 1..Len(deliveries) /\ deliveries \in Seq(Delivery \cup {new})
      BY DomainIs, SeqMonotonic DEF ServiceShape
    <3>4. /\ \A i \in 1..Len(deliveries) : Append(deliveries, new)[i] = deliveries[i]
          /\ Append(deliveries, new)[n] = new
      BY <3>2, <3>3, AppendProperties
    <3>5. QED
      BY <3>1, <3>2, <3>3, <3>4
  <2>3. \A d \in leased : deliveries[d].message \in Message \ {m}
    BY <1>1, <2>1
  <2> HIDE DEF n
  <2>4. \A d \in leased' : (d \in leased /\ deliveries'[d].message = deliveries[d].message)
                            \/ (d = n /\ deliveries'[d].message = m)
    BY <1>1, <2>2
  <2>5. ASSUME NEW d \in leased' PROVE messages'[deliveries'[d].message].at \in {"out", "acked"}
    BY <1>1, <2>1, <2>3, <2>4
  <2>6. ASSUME NEW d \in leased', NEW e \in leased', deliveries'[d].message = deliveries'[e].message
        PROVE  d = e
    BY <1>1, <2>3, <2>4, <2>6
  <2>7. QED
    BY <2>5, <2>6 DEF LeasesFit
<1>4. ASSUME SameDeliveries, NEW d \in DOMAIN deliveries, d \in leased, Back(d) PROVE LeasesFit'
  <2>1. PICK m : m = deliveries[d].message
    OBVIOUS
  <2>2. leased' = leased \ {d} /\ \A n \in Message \ {m} : messages'[n] = messages[n]
    BY <1>4, <2>1, BackWas
  <2>3. \A e \in leased' : /\ e \in leased /\ deliveries'[e].message = deliveries[e].message
                           /\ deliveries[e].message \in Message \ {m}
    BY <1>1, <1>4, <2>1, <2>2 DEF SameDeliveries
  <2>4. QED
    BY <1>1, <2>2, <2>3 DEF LeasesFit
<1>5. ASSUME SameDeliveries, NEW d \in DOMAIN deliveries, Acknowledged(d) PROVE LeasesFit'
  <2>1. PICK m : m = deliveries[d].message
    OBVIOUS
  <2>2. /\ leased' = leased \ {d} /\ \A n \in Message \ {m} : messages'[n] = messages[n]
        /\ messages'[m].at = "acked"
    BY <1>5, <2>1, AcknowledgedWas
  <2>3. \A e \in leased' : /\ e \in leased /\ deliveries'[e].message = deliveries[e].message
                           /\ deliveries[e].message \in Message
    BY <1>1, <1>5, <2>2 DEF SameDeliveries
  <2>4. QED
    BY <1>1, <2>2, <2>3 DEF LeasesFit
<1>6. QED
  BY <1>2, <1>3, <1>4, <1>5, StepsOfService DEF ServiceStep

\* A live message goes one step on: it is acknowledged, delivered again on the
\* next attempt, or spent at the cap.
Onward(m) ==
    /\ StateOf(m).state = "live" /\ StateOf(m).attempt \in Nat
    /\ \/ StateOf(m)' = Contract!Acked
       \/ StateOf(m).attempt < Cap /\ StateOf(m)' = Contract!Live(StateOf(m).attempt + 1)
       \/ StateOf(m).attempt >= Cap /\ StateOf(m)' = Contract!Spent(DeadLetters)

LEMMA StateSame ==
    ASSUME NEW m \in Message, messages'[m] = messages[m]
    PROVE  StateOf(m)' = StateOf(m)
BY DEF StateOf

LEMMA MessageStep ==
    ASSUME ServiceShape, LeasesFit, [Next]_vars
    PROVE  \/ \A m \in Message : StateOf(m)' = StateOf(m)
           \/ \E m \in Message : /\ \A n \in Message \ {m} : StateOf(n)' = StateOf(n)
                                 /\ Onward(m)
<1> USE DEF Contract!Acked, Contract!Live, Contract!Spent
<1>1. \A m \in Message : messages[m].at \in {"waiting", "out", "acked", "dead"}
                         /\ messages[m].attempts \in 0..Cap
  BY DEF ServiceShape, MessagesTyped
<1>2. CASE SameDeliveries /\ UNCHANGED service
  <2>1. \A m \in Message : messages'[m] = messages[m]
    BY <1>2 DEF service
  <2>2. QED
    BY <2>1, StateSame
<1>3. ASSUME NEW m \in Message, Receive(m) PROVE \A n \in Message : StateOf(n)' = StateOf(n)
  <2>1. /\ messages[m].at = "waiting" /\ messages'[m].at = "out"
        /\ messages'[m].attempts = messages[m].attempts + 1
        /\ \A n \in Message \ {m} : messages'[n] = messages[n]
    BY <1>3, ReceivedWas
  <2>2. StateOf(m)' = StateOf(m)
    BY <2>1 DEF StateOf
  <2>3. QED
    BY <2>1, <2>2, StateSame
<1>4. ASSUME NEW d \in DOMAIN deliveries, d \in leased, Back(d)
      PROVE  \/ \A m \in Message : StateOf(m)' = StateOf(m)
             \/ \E m \in Message : /\ \A n \in Message \ {m} : StateOf(n)' = StateOf(n)
                                   /\ Onward(m)
  <2>1. PICK m : m = deliveries[d].message
    OBVIOUS
  <2>2. /\ m \in Message
        /\ messages'[m].attempts = messages[m].attempts
        /\ messages'[m].at = IF messages[m].at # "out" THEN messages[m].at
                             ELSE IF messages[m].attempts >= Cap THEN "dead" ELSE "waiting"
        /\ \A n \in Message \ {m} : messages'[n] = messages[n]
    BY <1>4, <2>1, BackWas
  <2>3. \A n \in Message \ {m} : StateOf(n)' = StateOf(n)
    BY <2>2, StateSame
  <2>4. CASE messages[m].at = "out"
    <3>1. StateOf(m) = Contract!Live(messages[m].attempts) /\ messages[m].attempts \in Nat
      BY <1>1, <2>2, <2>4, LimitsAssumption DEF StateOf
    <3>2. CASE messages[m].attempts >= Cap
      <4>1. messages'[m].at = "dead"
        BY <2>2, <2>4, <3>2
      <4>2. StateOf(m)' = Contract!Spent(DeadLetters)
        BY <4>1 DEF StateOf
      <4>3. Onward(m)
        BY <3>1, <3>2, <4>2 DEF Onward
      <4>4. QED
        BY <2>2, <2>3, <4>3
    <3>3. CASE ~(messages[m].attempts >= Cap)
      <4>1. messages'[m].at = "waiting"
        BY <2>2, <2>4, <3>3
      <4>2. StateOf(m)' = Contract!Live(messages[m].attempts + 1)
        BY <2>2, <4>1 DEF StateOf
      <4>3. messages[m].attempts < Cap
        BY <1>1, <2>2, <3>3, LimitsAssumption
      <4>4. Onward(m)
        BY <3>1, <4>2, <4>3 DEF Onward
      <4>5. QED
        BY <2>2, <2>3, <4>4
    <3>4. QED
      BY <3>2, <3>3
  <2>5. CASE messages[m].at # "out"
    <3>1. messages[m].at = "acked" /\ messages'[m].at = "acked"
      BY <1>4, <2>1, <2>2, <2>5 DEF LeasesFit
    <3>2. StateOf(m)' = StateOf(m)
      BY <3>1 DEF StateOf
    <3>3. QED
      BY <2>3, <3>2
  <2>6. QED
    BY <2>4, <2>5
<1>5. ASSUME NEW d \in DOMAIN deliveries, Acknowledged(d)
      PROVE  \/ \A m \in Message : StateOf(m)' = StateOf(m)
             \/ \E m \in Message : /\ \A n \in Message \ {m} : StateOf(n)' = StateOf(n)
                                   /\ Onward(m)
  <2>1. PICK m : m = deliveries[d].message
    OBVIOUS
  <2>2. /\ m \in Message
        /\ messages'[m].at = "acked"
        /\ \A n \in Message \ {m} : messages'[n] = messages[n]
        /\ d \in leased \/ messages[m].at \in {"waiting", "out"}
    BY <1>5, <2>1, AcknowledgedWas
  <2>3. messages[m].at \in {"waiting", "out", "acked"}
    BY <2>1, <2>2 DEF LeasesFit
  <2>4. \A n \in Message \ {m} : StateOf(n)' = StateOf(n)
    BY <2>2, StateSame
  <2>5. StateOf(m)' = Contract!Acked
    BY <2>2 DEF StateOf
  <2>6. CASE messages[m].at = "acked"
    <3>1. StateOf(m)' = StateOf(m)
      BY <2>2, <2>6 DEF StateOf
    <3>2. QED
      BY <2>4, <3>1
  <2>7. CASE messages[m].at \in {"waiting", "out"}
    <3>1. StateOf(m).state = "live" /\ StateOf(m).attempt \in Nat
      BY <1>1, <2>2, <2>7, LimitsAssumption DEF StateOf
    <3>2. Onward(m)
      BY <2>5, <3>1 DEF Onward
    <3>3. QED
      BY <2>2, <2>4, <3>2
  <2>8. QED
    BY <2>3, <2>6, <2>7
<1>6. QED
  BY <1>2, <1>3, <1>4, <1>5, StepsOfService DEF ServiceStep

\* There is an order of the messages, so `Order` is one.
LEMMA OrderIs ==
    /\ Cardinality(Message) \in Nat
    /\ Order \in [1..Cardinality(Message) -> Message]
    /\ InSequence(Order)
<1>1. Cardinality(Message) \in Nat /\ ExistsBijection(1..Cardinality(Message), Message)
  BY MessageAssumption, FS_CardinalityType
<1>2. PICK order \in Bijection(1..Cardinality(Message), Message) : TRUE
  BY <1>1 DEF ExistsBijection
<1>3. order \in [1..Cardinality(Message) -> Message] /\ InSequence(order)
  <2>1. /\ order \in [1..Cardinality(Message) -> Message]
        /\ \A i, j \in 1..Cardinality(Message) : order[i] = order[j] => i = j
        /\ \A m \in Message : \E i \in 1..Cardinality(Message) : order[i] = m
    BY <1>2 DEF Bijection, Injection, Surjection, IsInjective
  <2>2. QED
    BY <2>1 DEF InSequence
<1>4. QED
  BY <1>1, <1>3 DEF Order

\* A message that goes one step on is a step of the contract.
LEMMA OnwardIs ==
    ASSUME NEW m \in Message, Onward(m), \A n \in Message \ {m} : StateOf(n)' = StateOf(n)
    PROVE  Contract!Next
<1> DEFINE count == Cardinality(Message)
<1> DEFINE now == [i \in 1..count |-> StateOf(Order[i])]
<1> DEFINE new == StateOf(m)'
<1>1. /\ count \in Nat /\ Order \in [1..count -> Message]
      /\ \A i \in 1..count : Order[i] \in Message
  BY OrderIs
<1>2. PICK i \in 1..count : Order[i] = m /\ \A j \in 1..count : Order[j] = m => j = i
  BY <1>1, OrderIs DEF InSequence
<1>3. /\ CopiesNow[Subscription] = now /\ DOMAIN CopiesNow[Subscription] = 1..count
      /\ CopiesNow[Subscription][i] = StateOf(m)
  BY <1>2 DEF CopiesNow
<1>4. \A j \in 1..count : StateOf(Order[j])' = IF j = i THEN new ELSE StateOf(Order[j])
  BY <1>1, <1>2
<1>5. CopiesNow' = [CopiesNow EXCEPT ![Subscription][i] = new]
  <2>1. CopiesNow' = [s \in {Subscription} |-> [j \in 1..count |-> StateOf(Order[j])']]
    BY DEF CopiesNow
  <2>2. [CopiesNow EXCEPT ![Subscription][i] = new] =
          [s \in {Subscription} |-> [j \in 1..count |-> IF j = i THEN new ELSE StateOf(Order[j])]]
    BY <1>2 DEF CopiesNow
  <2>3. [j \in 1..count |-> StateOf(Order[j])'] =
          [j \in 1..count |-> IF j = i THEN new ELSE StateOf(Order[j])]
    BY <1>4
  <2>4. QED
    BY <2>1, <2>2, <2>3
<1> HIDE DEF now, new
<1>6. Contract!Become(Subscription, i, new)
  <2>1. UNCHANGED [s \in {Subscription} |-> Published]
    BY DEF Subscription, Published
  <2>2. QED
    BY <1>5, <2>1 DEF Contract!Become, Subscription, Published, DeadLetters
<1>7. \/ Contract!Acknowledge(Subscription, i)
      \/ Contract!Redeliver(Subscription, i)
      \/ Contract!Spend(Subscription, i)
  <2>1. Contract!IsLive(Subscription, i)
    BY <1>3 DEF Onward, Contract!IsLive
  <2>2. Contract!AtCap(Subscription, i) <=> StateOf(m).attempt >= Cap
    BY <1>3, NoPolicyAssumption DEF Contract!AtCap
  <2>3. StateOf(m).attempt \in Nat /\ Cap \in Nat
    BY LimitsAssumption DEF Onward
  <2>4. CASE new = Contract!Acked
    BY <1>6, <2>1, <2>4 DEF Contract!Acknowledge
  <2>5. CASE StateOf(m).attempt < Cap /\ new = Contract!Live(StateOf(m).attempt + 1)
    <3>1. ~Contract!AtCap(Subscription, i) /\ StateOf(m).attempt # Cap
      BY <2>2, <2>3, <2>5
    <3>2. Contract!Redeliver(Subscription, i)
      BY <1>3, <1>6, <2>1, <2>5, <3>1 DEF Contract!Redeliver
    <3>3. QED
      BY <3>2
  <2>6. CASE StateOf(m).attempt >= Cap /\ new = Contract!Spent(DeadLetters)
    BY <1>6, <2>1, <2>2, <2>6 DEF Contract!Spend
  <2>7. QED
    BY <2>4, <2>5, <2>6 DEF Onward, new
<1>8. QED
  BY <1>3, <1>7 DEF Contract!Next

\* Whatever the client, the pump, handlers, confirmations and crashes do, and
\* whatever the service repeats, each message goes the way of the contract:
\* live on a counted attempt until it is acknowledged (message.rs:209) or, at the
\* cap, moved (message.rs:295), and neither is undone.
THEOREM PullingKeepsContract == Spec => KeepsContract
<1>1. Init => LeasesFit /\ \A i \in DOMAIN CopiesNow[Subscription] :
                              CopiesNow[Subscription][i] = Contract!Live(1)
  <2> SUFFICES ASSUME Init
               PROVE  /\ LeasesFit
                      /\ \A i \in DOMAIN CopiesNow[Subscription] :
                           CopiesNow[Subscription][i] = Contract!Live(1)
    OBVIOUS
  <2>1. \A m \in Message : messages[m].at = "waiting" /\ messages[m].attempts = 0
    BY DEF Init
  <2>2. \A m \in Message : StateOf(m) = Contract!Live(1)
    BY <2>1 DEF StateOf, Contract!Live
  <2>3. QED
    BY <2>2, OrderIs DEF Init, LeasesFit, CopiesNow
<1>2. PullInv /\ LeasesFit /\ [Next]_vars => LeasesFit'
  BY LeasesFitKept DEF PullInv
<1>3. PullInv /\ LeasesFit /\ [Next]_vars => [Contract!Next]_(Contract!vars)
  <2> SUFFICES ASSUME PullInv, LeasesFit, [Next]_vars
               PROVE  [Contract!Next]_(Contract!vars)
    OBVIOUS
  <2>1. CASE \A m \in Message : StateOf(m)' = StateOf(m)
    <3>1. CopiesNow' = CopiesNow
      BY <2>1, OrderIs DEF CopiesNow
    <3>2. QED
      BY <3>1 DEF Contract!vars
  <2>2. ASSUME NEW m \in Message, \A n \in Message \ {m} : StateOf(n)' = StateOf(n), Onward(m)
        PROVE  Contract!Next
    BY <2>2, OnwardIs
  <2>3. QED
    BY <2>1, <2>2, MessageStep DEF PullInv
<1>4. QED
  BY <1>1, <1>2, <1>3, PullKept, PTL DEF Spec, KeepsContract
=============================================================================
