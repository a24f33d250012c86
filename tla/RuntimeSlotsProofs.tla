-------------------------- MODULE RuntimeSlotsProofs --------------------------
(***************************************************************************)
(* A delivery finds its own connection's runtime or nothing, for every set *)
(* of connections smaller than the range of the generations.               *)
(***************************************************************************)
EXTENDS RuntimeSlots, TLAPS, FiniteSetTheorems

USE ConnectionAssumption, NoneAssumption, WidthAssumption

Gone == {c \in Connection : life[c] = "gone"}
Live == {c \in Connection : life[c] = "live"}

\* A slot's generation is at most the number of connections that have gone, so
\* it has not come round.
NoWrap == \A i \in DOMAIN slots : slots[i].generation <= Cardinality(Gone)

\* The free slots are distinct and hold no runtime.
FreeSlots ==
    /\ \A k \in DOMAIN free : free[k] \in DOMAIN slots /\ slots[free[k]].runtime = None
    /\ \A j, k \in DOMAIN free : j # k => free[j] # free[k]

\* A live connection has a slot to itself; the slot of one that has gone is on a
\* later generation.
SlotsOwned ==
    /\ \A c \in Connection : life[c] = "unmade" <=> slotOf[c] = None
    /\ \A c \in Live :
         /\ slotOf[c].index \in DOMAIN slots
         /\ slots[slotOf[c].index].generation = slotOf[c].generation
         /\ slots[slotOf[c].index].runtime = on[c]
         /\ on[c] # None
    /\ \A c, d \in Live : c # d => slotOf[c].index # slotOf[d].index
    /\ \A c \in Gone :
         /\ slotOf[c].index \in DOMAIN slots
         /\ slotOf[c].generation < slots[slotOf[c].index].generation

SlotInv == TypeOK /\ NoWrap /\ FreeSlots /\ SlotsOwned

LEMMA GoneFinite ==
  /\ IsFiniteSet(Gone) /\ Cardinality(Gone) \in Nat /\ Cardinality(Connection) \in Nat
  /\ \A c \in Connection \ Gone : Cardinality(Gone) + 1 <= Cardinality(Connection)
<1>1. Gone \in SUBSET Connection
  BY DEF Gone
<1>2. IsFiniteSet(Gone) /\ Cardinality(Gone) \in Nat /\ Cardinality(Connection) \in Nat
  BY <1>1, FS_Subset, FS_CardinalityType
<1>3. ASSUME NEW c \in Connection \ Gone PROVE Cardinality(Gone) + 1 <= Cardinality(Connection)
  <2>1. Cardinality(Gone \cup {c}) = Cardinality(Gone) + 1
    BY <1>2, <1>3, FS_AddElement
  <2>2. Gone \cup {c} \in SUBSET Connection
    BY <1>1, <1>3
  <2> QED
    BY <2>1, <2>2, FS_Subset
<1> QED
  BY <1>2, <1>3

LEMMA SlotTypes ==
  ASSUME SlotInv
  PROVE  /\ \A i \in DOMAIN slots : /\ i \in Nat \ {0}
                                  /\ slots[i] \in Slot
                                  /\ slots[i].generation \in 0..(GenWidth - 1)
         /\ \A c \in Live \cup Gone : /\ slotOf[c] \in RuntimeSlot
                                     /\ slotOf[c].index \in Nat \ {0}
                                     /\ slotOf[c].generation \in 0..(GenWidth - 1)
<1>1. slots \in Seq(Slot) /\ DOMAIN slots = 1..Len(slots)
  BY DEF SlotInv, TypeOK
<1>2. ASSUME NEW i \in DOMAIN slots
      PROVE  i \in Nat \ {0} /\ slots[i] \in Slot /\ slots[i].generation \in 0..(GenWidth - 1)
  <2>1. i \in Nat \ {0} /\ slots[i] \in Slot
    BY <1>1
  <2> QED
    BY <2>1 DEF Slot
<1>3. ASSUME NEW c \in Live \cup Gone
      PROVE  /\ slotOf[c] \in RuntimeSlot /\ slotOf[c].index \in Nat \ {0}
             /\ slotOf[c].generation \in 0..(GenWidth - 1)
  <2>1. slotOf[c] \in RuntimeSlot
    BY DEF SlotInv, TypeOK, SlotsOwned, Live, Gone
  <2> QED
    BY <2>1 DEF RuntimeSlot
<1> QED
  BY <1>2, <1>3

LEMMA SlotInit == Init => SlotInv
<1> SUFFICES ASSUME Init PROVE SlotInv
  OBVIOUS
<1>1. TypeOK
  BY DEF Init, TypeOK
<1>2. NoWrap /\ FreeSlots
  BY DEF Init, NoWrap, FreeSlots
<1>3. SlotsOwned
  BY DEF Init, SlotsOwned, Live, Gone
<1> QED
  BY <1>1, <1>2, <1>3 DEF SlotInv

\* Both ways to register: connection c gets a slot that no live connection has.
LEMMA RegisteredKeeps ==
  ASSUME SlotInv, NEW c \in Connection, NEW r \in Runtime, life[c] = "unmade",
         NEW i \in Nat \ {0}, NEW g \in 0..(GenWidth - 1), Registered(c, i, g, r),
         slots' \in Seq(Slot), DOMAIN slots \subseteq DOMAIN slots', i \in DOMAIN slots',
         slots'[i] = [generation |-> g, runtime |-> r],
         \A k \in DOMAIN slots : k # i => slots'[k] = slots[k],
         i \in DOMAIN slots => slots[i].generation = g /\ slots[i].runtime = None,
         i \notin DOMAIN slots => g = 0,
         DOMAIN slots' \subseteq DOMAIN slots \cup {i},
         free' \in Seq(Nat \ {0}), FreeSlots'
  PROVE  SlotInv'
<1>1. /\ slotOf' = [slotOf EXCEPT ![c] = [index |-> i, generation |-> g]]
      /\ on' = [on EXCEPT ![c] = r]
      /\ life' = [life EXCEPT ![c] = "live"]
  BY DEF Registered
<1>2. TypeOK'
  <2>1. [index |-> i, generation |-> g] \in RuntimeSlot
    BY DEF RuntimeSlot
  <2> QED
    BY <1>1, <2>1 DEF SlotInv, TypeOK
<1>3. Gone' = Gone /\ Live' = Live \cup {c} /\ c \notin Live /\ c \notin Gone
  BY <1>1 DEF Gone, Live, SlotInv, TypeOK
<1>4. NoWrap'
  <2>1. \A k \in DOMAIN slots' : slots'[k].generation <= Cardinality(Gone)
    BY GoneFinite DEF SlotInv, NoWrap
  <2> QED
    BY <1>3, <2>1 DEF NoWrap
<1>5. \A d \in Live : slotOf[d].index # i
  <2>1. \A d \in Live : /\ slotOf[d].index \in DOMAIN slots
                        /\ slots[slotOf[d].index].runtime # None
    BY SMTT(30) DEF SlotInv, SlotsOwned
  <2>2. i \in DOMAIN slots => slots[i].runtime = None
    OBVIOUS
  <2> QED
    BY <2>1, <2>2
<1>6. SlotsOwned'
  <2>1. \A d \in Connection : life'[d] = "unmade" <=> slotOf'[d] = None
    BY <1>1 DEF SlotInv, TypeOK, SlotsOwned
  <2>2. \A d \in Connection \ {c} : slotOf'[d] = slotOf[d] /\ on'[d] = on[d]
    BY <1>1 DEF SlotInv, TypeOK
  <2>3. slotOf'[c].index = i /\ slotOf'[c].generation = g /\ on'[c] = r
    BY <1>1 DEF SlotInv, TypeOK
  <2>4. \A d \in Live' :
          /\ slotOf'[d].index \in DOMAIN slots'
          /\ slots'[slotOf'[d].index].generation = slotOf'[d].generation
          /\ slots'[slotOf'[d].index].runtime = on'[d]
          /\ on'[d] # None
    <3>1. ASSUME NEW d \in Live
          PROVE  /\ slotOf'[d].index \in DOMAIN slots'
                 /\ slots'[slotOf'[d].index].generation = slotOf'[d].generation
                 /\ slots'[slotOf'[d].index].runtime = on'[d]
                 /\ on'[d] # None
      <4>1. /\ slotOf[d].index \in DOMAIN slots /\ slotOf[d].index # i /\ d \in Connection \ {c}
            /\ slots[slotOf[d].index].generation = slotOf[d].generation
            /\ slots[slotOf[d].index].runtime = on[d]
            /\ on[d] # None
        BY <1>3, <1>5, <3>1 DEF SlotInv, SlotsOwned, Live
      <4>2. slotOf'[d] = slotOf[d] /\ on'[d] = on[d] /\ slots'[slotOf[d].index] = slots[slotOf[d].index]
        BY <2>2, <4>1
      <4> QED
        BY <4>1, <4>2
    <3>2. slots'[i].generation = g /\ slots'[i].runtime = r
      OBVIOUS
    <3> QED
      BY <1>3, <2>3, <3>1, <3>2
  <2>5. \A d, e \in Live' : d # e => slotOf'[d].index # slotOf'[e].index
    <3>1. \A d \in Live : d \in Connection \ {c} /\ slotOf'[d] = slotOf[d]
      BY <1>3, <2>2 DEF Live
    <3>2. \A d, e \in Live : d # e => slotOf[d].index # slotOf[e].index
      BY DEF SlotInv, SlotsOwned
    <3> QED
      BY <1>3, <1>5, <2>3, <3>1, <3>2
  <2>6. \A d \in Gone' :
          /\ slotOf'[d].index \in DOMAIN slots'
          /\ slotOf'[d].generation < slots'[slotOf'[d].index].generation
    <3> SUFFICES ASSUME NEW d \in Gone
                 PROVE  /\ slotOf'[d].index \in DOMAIN slots'
                        /\ slotOf'[d].generation < slots'[slotOf'[d].index].generation
      BY <1>3
    <3>1. /\ slotOf'[d] = slotOf[d] /\ slotOf[d].index \in DOMAIN slots
          /\ slotOf[d].generation < slots[slotOf[d].index].generation
      BY <1>3, <2>2 DEF SlotInv, SlotsOwned, Gone
    <3>2. slots'[slotOf[d].index].generation = slots[slotOf[d].index].generation
      <4>1. slots'[i].generation = g
        OBVIOUS
      <4> QED
        BY <3>1, <4>1
    <3> QED
      BY <3>1, <3>2
  <2> QED
    BY <2>1, <2>4, <2>5, <2>6 DEF SlotsOwned
<1> QED
  BY <1>2, <1>4, <1>6 DEF SlotInv

LEMMA SlotStep == SlotInv /\ [Next]_vars => SlotInv'
<1> SUFFICES ASSUME SlotInv, [Next]_vars PROVE SlotInv'
  OBVIOUS
<1>1. ASSUME NEW c \in Connection, NEW r \in Runtime, Reuse(c, r) PROVE SlotInv'
  <2> DEFINE i == free[Len(free)]
             g == slots[i].generation
  <2>1. /\ life[c] = "unmade" /\ free # <<>>
        /\ free' = SubSeq(free, 1, Len(free) - 1)
        /\ slots' = [slots EXCEPT ![i].runtime = r]
        /\ Registered(c, i, g, r)
    BY <1>1 DEF Reuse
  <2>2. slots \in Seq(Slot) /\ free \in Seq(Nat \ {0}) /\ Len(free) \in DOMAIN free
    BY <2>1 DEF SlotInv, TypeOK
  <2>3. i \in DOMAIN slots /\ i \in Nat \ {0} /\ slots[i].runtime = None
    BY <2>2 DEF SlotInv, FreeSlots
  <2>4. slots[i] \in Slot /\ g \in 0..(GenWidth - 1)
    BY <2>3, SlotTypes
  <2> HIDE DEF i
  <2>5. /\ DOMAIN slots' = DOMAIN slots
        /\ slots'[i] = [generation |-> g, runtime |-> r]
        /\ \A k \in DOMAIN slots : k # i => slots'[k] = slots[k]
    <3>1. slots'[i] = [slots[i] EXCEPT !.runtime = r]
      BY <2>1, <2>2, <2>3
    <3>2. [slots[i] EXCEPT !.runtime = r] = [generation |-> slots[i].generation, runtime |-> r]
      BY <2>4 DEF Slot
    <3> QED
      BY <2>1, <2>2, <3>1, <3>2
  <2>6. slots' \in Seq(Slot)
    <3>1. slots'[i] \in Slot
      BY <2>4, <2>5 DEF Slot
    <3>2. slots' = [slots EXCEPT ![i] = slots'[i]]
      BY <2>1, <2>2, <2>3, <2>5
    <3> QED
      BY SMTT(30), <2>2, <2>3, <3>1, <3>2
  <2>7. free' \in Seq(Nat \ {0})
    BY <2>1, <2>2
  <2>8. FreeSlots'
    <3>1. \A k \in DOMAIN free' : k \in DOMAIN free /\ free'[k] = free[k] /\ k # Len(free)
      BY <2>1, <2>2
    <3>2. \A k \in DOMAIN free' : free'[k] # i
      BY <2>2, <3>1 DEF SlotInv, FreeSlots, i
    <3> QED
      BY <2>5, <3>1, <3>2 DEF SlotInv, FreeSlots
  <2> HIDE DEF g
  <2> QED
    BY <2>1, <2>3, <2>4, <2>5, <2>6, <2>7, <2>8, RegisteredKeeps DEF g
<1>2. ASSUME NEW c \in Connection, NEW r \in Runtime, Grow(c, r) PROVE SlotInv'
  <2> DEFINE i == Len(slots) + 1
             s == [generation |-> 0, runtime |-> r]
  <2>1. /\ life[c] = "unmade" /\ free' = free /\ free = <<>>
        /\ slots' = Append(slots, s)
        /\ Registered(c, i, 0, r)
    BY <1>2 DEF Grow
  <2>2. slots \in Seq(Slot) /\ s \in Slot /\ 0 \in 0..(GenWidth - 1)
    BY GoneFinite DEF SlotInv, TypeOK, Slot
  <2> HIDE DEF s
  <2>3. /\ i \in Nat \ {0} /\ i \notin DOMAIN slots
        /\ slots' \in Seq(Slot) /\ DOMAIN slots' = DOMAIN slots \cup {i}
        /\ slots'[i] = s
        /\ \A k \in DOMAIN slots : slots'[k] = slots[k]
    BY <2>1, <2>2
  <2>4. FreeSlots'
    BY <2>1 DEF FreeSlots
  <2>5. free' \in Seq(Nat \ {0})
    BY <2>1 DEF SlotInv, TypeOK
  <2> HIDE DEF i
  <2> QED
    BY <2>1, <2>2, <2>3, <2>4, <2>5, RegisteredKeeps DEF s
<1>3. ASSUME NEW c \in Connection, Drop(c) PROVE SlotInv'
  <2> DEFINE i == slotOf[c].index
             g == slots[i].generation
             s == [generation |-> g + 1, runtime |-> None]
  <2>1. c \in Live /\ c \notin Gone
    BY <1>3 DEF Drop, Live, Gone
  <2>2. /\ slots \in Seq(Slot) /\ free \in Seq(Nat \ {0})
        /\ i \in DOMAIN slots /\ i \in Nat \ {0} /\ slots[i] \in Slot
        /\ g = slotOf[c].generation /\ slots[i].runtime # None
    <3>1. i \in DOMAIN slots /\ g = slotOf[c].generation /\ slots[i].runtime # None
      BY <2>1 DEF SlotInv, SlotsOwned
    <3> QED
      BY <3>1, SlotTypes DEF SlotInv, TypeOK
  <2>3. g \in Nat /\ g + 1 < GenWidth /\ (g + 1) % GenWidth = g + 1 /\ g <= Cardinality(Gone)
    <3>1. g <= Cardinality(Gone)
      BY <2>2 DEF SlotInv, NoWrap
    <3>2. g \in Nat
      BY <2>2 DEF Slot
    <3>3. g + 1 < GenWidth
      BY <2>1, <3>1, <3>2, GoneFinite
    <3> HIDE DEF g
    <3> QED
      BY <3>1, <3>2, <3>3
  <2>4. /\ slots' = [slots EXCEPT ![i] = [generation |-> (slots[i].generation + 1) % GenWidth,
                                             runtime |-> None]]
        /\ free' = Append(free, i)
        /\ life' = [life EXCEPT ![c] = "gone"]
        /\ UNCHANGED <<slotOf, on>>
    BY <1>3 DEF Drop
  <2>5. /\ DOMAIN slots' = DOMAIN slots
        /\ slots'[i] = s
        /\ \A k \in DOMAIN slots : k # i => slots'[k] = slots[k]
    <3>1. slots' = [slots EXCEPT ![i] = s]
      BY <2>3, <2>4
    <3> HIDE DEF i, s
    <3> QED
      BY <2>2, <3>1
  <2>6. slots' \in Seq(Slot)
    <3>1. s \in Slot
      BY <2>3 DEF Slot
    <3>2. slots' = [slots EXCEPT ![i] = s]
      <4> HIDE DEF i, s
      <4> QED
        BY <2>2, <2>4, <2>5
    <3> HIDE DEF i, s
    <3> QED
      BY <2>2, <3>1, <3>2
  <2>7. TypeOK'
    BY <2>2, <2>4, <2>6 DEF SlotInv, TypeOK
  <2>8. Gone' = Gone \cup {c} /\ Live' = Live \ {c}
    BY <2>4 DEF Gone, Live, SlotInv, TypeOK
  <2>9. Cardinality(Gone') = Cardinality(Gone) + 1
    BY <2>1, <2>8, GoneFinite, FS_AddElement
  <2>10. s.generation = g + 1 /\ s.runtime = None
    OBVIOUS
  <2>11. \A k \in DOMAIN slots : slots[k] \in Slot /\ slots[k].generation \in Nat
    BY SlotTypes
  <2> HIDE DEF s, g, i
  <2>12. NoWrap'
    <3>1. \A k \in DOMAIN slots' : slots'[k].generation <= Cardinality(Gone) + 1
      BY <2>3, <2>5, <2>10, <2>11, GoneFinite DEF SlotInv, NoWrap
    <3> QED
      BY <2>9, <3>1 DEF NoWrap
  <2>13. FreeSlots'
    <3>1. \A k \in DOMAIN free : free[k] # i
      BY <2>2 DEF SlotInv, FreeSlots
    <3>2. \A k \in DOMAIN free' : (k \in DOMAIN free /\ free'[k] = free[k])
                                    \/ (k = Len(free) + 1 /\ free'[k] = i)
      BY <2>2, <2>4
    <3> QED
      BY <2>2, <2>5, <2>10, <3>1, <3>2 DEF SlotInv, FreeSlots
  <2>14. SlotsOwned'
    <3>1. \A d \in Connection : life'[d] = "unmade" <=> slotOf'[d] = None
      <4>1. \A d \in Connection : life'[d] = IF d = c THEN "gone" ELSE life[d]
        BY <2>4 DEF SlotInv, TypeOK
      <4>2. life[c] # "unmade"
        BY <2>1 DEF Live
      <4> QED
        BY <2>4, <4>1, <4>2 DEF SlotInv, SlotsOwned
    <3>2. \A d \in Live' : d \in Live /\ slotOf[d].index # i
      BY <2>1, <2>8 DEF SlotInv, SlotsOwned, i
    <3>3. \A d \in Live' :
          /\ slotOf[d].index \in DOMAIN slots'
          /\ slots'[slotOf[d].index].generation = slotOf[d].generation
          /\ slots'[slotOf[d].index].runtime = on[d]
          /\ on[d] # None
      BY <2>5, <3>2 DEF SlotInv, SlotsOwned
    <3>4. \A d, e \in Live' : d # e => slotOf[d].index # slotOf[e].index
      BY <3>2 DEF SlotInv, SlotsOwned
    <3>5. \A d \in Gone' :
          /\ slotOf[d].index \in DOMAIN slots'
          /\ slotOf[d].generation < slots'[slotOf[d].index].generation
      <4> SUFFICES ASSUME NEW d \in Gone'
                   PROVE  /\ slotOf[d].index \in DOMAIN slots'
                          /\ slotOf[d].generation < slots'[slotOf[d].index].generation
        OBVIOUS
      <4>1. CASE d = c
        BY <2>2, <2>3, <2>5, <2>10, <4>1 DEF i
      <4>2. CASE d \in Gone
        <5>1. /\ slotOf[d].index \in DOMAIN slots
              /\ slotOf[d].generation < slots[slotOf[d].index].generation
          BY <4>2 DEF SlotInv, SlotsOwned
        <5>2. slotOf[d].generation \in Nat
          BY <4>2, SlotTypes
        <5>3. CASE slotOf[d].index = i
          BY <2>3, <2>5, <2>10, <5>1, <5>2, <5>3 DEF g
        <5>4. CASE slotOf[d].index # i
          BY <2>5, <5>1, <5>4
        <5> QED
          BY <5>3, <5>4
      <4> QED
        BY <2>8, <4>1, <4>2
    <3> QED
      BY <2>4, <3>1, <3>3, <3>4, <3>5 DEF SlotsOwned
  <2> QED
    BY <2>7, <2>12, <2>13, <2>14 DEF SlotInv
<1>4. CASE UNCHANGED vars
  BY <1>4 DEF vars, SlotInv, TypeOK, NoWrap, FreeSlots, SlotsOwned, Live, Gone
<1> QED
  BY <1>1, <1>2, <1>3, <1>4 DEF Next

\* What a delivery's slot answers follows from who owns the slots.
LEMMA SlotsAnswer == SlotInv => OwnRuntimeOnly
<1> SUFFICES ASSUME SlotInv, NEW c \in Connection, slotOf[c] # None
             PROVE  RuntimeAt(slotOf[c]) = IF life[c] = "live" THEN on[c] ELSE None
  BY DEF OwnRuntimeOnly
<1>1. CASE life[c] = "live"
  <2>1. c \in Live
    BY <1>1 DEF Live
  <2> QED
    BY <1>1, <2>1 DEF SlotInv, SlotsOwned, RuntimeAt
<1>2. CASE life[c] = "gone"
  <2>1. slotOf[c].generation < slots[slotOf[c].index].generation
        /\ slotOf[c].index \in DOMAIN slots
    BY <1>2 DEF SlotInv, SlotsOwned, Gone
  <2>2. slotOf[c].generation \in Nat /\ slots[slotOf[c].index].generation \in Nat
    BY <1>2, <2>1, SlotTypes DEF Gone
  <2> QED
    BY <1>2, <2>1, <2>2 DEF RuntimeAt
<1> QED
  BY <1>1, <1>2 DEF SlotInv, TypeOK, SlotsOwned

\* A delivery's slot answers its own connection's runtime while the connection
\* lives and nothing afterwards, in every process that makes fewer connections
\* than a generation counts.
THEOREM RuntimeIsOwn == Spec => []OwnRuntimeOnly
  BY SlotsAnswer, SlotInit, SlotStep, PTL DEF Spec

\* Every slot is a live connection's or a free one.
EachUsed ==
    \A i \in DOMAIN slots :
        (\E c \in Live : slotOf[c].index = i) \/ (\E k \in DOMAIN free : free[k] = i)

LEMMA UsedStep == SlotInv /\ EachUsed /\ [Next]_vars => EachUsed'
<1> SUFFICES ASSUME SlotInv, EachUsed, [Next]_vars, NEW i \in DOMAIN slots'
             PROVE  (\E c \in Live' : slotOf'[c].index = i) \/ (\E k \in DOMAIN free' : free'[k] = i)
  BY DEF EachUsed
<1>t. slots \in Seq(Slot) /\ free \in Seq(Nat \ {0})
  BY DEF SlotInv, TypeOK
<1>1. ASSUME NEW c \in Connection, NEW r \in Runtime, Reuse(c, r) \/ Grow(c, r)
      PROVE  (\E d \in Live' : slotOf'[d].index = i) \/ (\E k \in DOMAIN free' : free'[k] = i)
  <2>1. \E j, g : /\ slotOf' = [slotOf EXCEPT ![c] = [index |-> j, generation |-> g]]
                 /\ life' = [life EXCEPT ![c] = "live"]
                 /\ \/ Reuse(c, r) /\ j = free[Len(free)]
                    \/ Grow(c, r) /\ j = Len(slots) + 1
    <3>1. CASE Reuse(c, r)
      <4> DEFINE j == free[Len(free)]  g == slots[j].generation
      <4>1. /\ slotOf' = [slotOf EXCEPT ![c] = [index |-> j, generation |-> g]]
            /\ life' = [life EXCEPT ![c] = "live"]
        BY <3>1 DEF Reuse, Registered
      <4>2. j = free[Len(free)]
        OBVIOUS
      <4> HIDE DEF j, g
      <4> QED
        BY <3>1, <4>1, <4>2
    <3>2. CASE Grow(c, r)
      <4> DEFINE j == Len(slots) + 1
      <4>1. /\ slotOf' = [slotOf EXCEPT ![c] = [index |-> j, generation |-> 0]]
            /\ life' = [life EXCEPT ![c] = "live"]
        BY <3>2 DEF Grow, Registered
      <4>2. j = Len(slots) + 1
        OBVIOUS
      <4> HIDE DEF j
      <4> QED
        BY <3>2, <4>1, <4>2
    <3> QED
      BY <1>1, <3>1, <3>2
  <2> PICK j, g : /\ slotOf' = [slotOf EXCEPT ![c] = [index |-> j, generation |-> g]]
                  /\ life' = [life EXCEPT ![c] = "live"]
                  /\ \/ Reuse(c, r) /\ j = free[Len(free)]
                     \/ Grow(c, r) /\ j = Len(slots) + 1
    BY <2>1
  <2>2. /\ c \in Live' /\ slotOf'[c].index = j
        /\ \A d \in Live : d \in Live' /\ slotOf'[d] = slotOf[d]
    <3>1. life[c] = "unmade"
      BY <1>1 DEF Reuse, Grow
    <3>3. /\ \A d \in Connection : d # c => slotOf'[d] = slotOf[d] /\ life'[d] = life[d]
          /\ slotOf'[c] = [index |-> j, generation |-> g] /\ life'[c] = "live"
      BY DEF SlotInv, TypeOK
    <3> QED
      BY <3>1, <3>3 DEF Live
  <2>3. CASE i = j
    BY <2>2, <2>3
  <2>4. CASE i # j
    <3>1. i \in DOMAIN slots
      <4>1. CASE Reuse(c, r)
        BY <1>t, <4>1 DEF Reuse
      <4>2. CASE Grow(c, r) /\ j = Len(slots) + 1
        <5>1. DOMAIN slots' = DOMAIN slots \cup {j}
          BY <1>t, <4>2 DEF Grow
        <5> QED
          BY <2>4, <5>1
      <4> QED
        BY <2>1, <4>1, <4>2
    <3>2. CASE \E d \in Live : slotOf[d].index = i
      BY <2>2, <3>2
    <3>3. CASE \E k \in DOMAIN free : free[k] = i
      <4>1. PICK k \in DOMAIN free : free[k] = i
        BY <3>3
      <4>2. Reuse(c, r) /\ k # Len(free)
        BY <1>t, <2>1, <2>4, <4>1 DEF Grow
      <4>3. k \in DOMAIN free' /\ free'[k] = i
        BY <1>t, <4>1, <4>2 DEF Reuse
      <4> QED
        BY <4>3
    <3> QED
      BY <3>1, <3>2, <3>3 DEF EachUsed
  <2> QED
    BY <2>3, <2>4
<1>2. ASSUME NEW c \in Connection, Drop(c)
      PROVE  (\E d \in Live' : slotOf'[d].index = i) \/ (\E k \in DOMAIN free' : free'[k] = i)
  <2> DEFINE j == slotOf[c].index
  <2>1. c \in Live
    BY <1>2 DEF Drop, Live
  <2>2. j \in DOMAIN slots /\ j \in Nat \ {0}
    BY <1>t, <2>1 DEF SlotInv, SlotsOwned
  <2>3. /\ DOMAIN slots' = DOMAIN slots /\ free' = Append(free, j) /\ slotOf' = slotOf
        /\ \A d \in Live : d # c => d \in Live'
    <3>1. DOMAIN slots' = DOMAIN slots /\ free' = Append(free, j) /\ slotOf' = slotOf
      BY <1>t, <1>2 DEF Drop
    <3>2. \A d \in Live : d # c => d \in Live'
      BY <1>2 DEF Drop, Live, SlotInv, TypeOK
    <3> QED
      BY <3>1, <3>2
  <2> HIDE DEF j
  <2>4. /\ Len(free) + 1 \in DOMAIN free' /\ free'[Len(free) + 1] = j
        /\ \A k \in DOMAIN free : k \in DOMAIN free' /\ free'[k] = free[k]
    BY <1>t, <2>2, <2>3
  <2>5. CASE i = j
    BY <2>4, <2>5
  <2>6. CASE i # j
    BY <2>3, <2>4, <2>6 DEF EachUsed, j
  <2> QED
    BY <2>5, <2>6
<1>3. CASE UNCHANGED vars
  BY <1>3 DEF vars, EachUsed, Live
<1> QED
  BY <1>1, <1>2, <1>3 DEF Next

LEMMA SlotsAddUp == SlotInv /\ EachUsed => SlotsAccounted
<1> SUFFICES ASSUME SlotInv, EachUsed PROVE SlotsAccounted
  OBVIOUS
<1>1. ASSUME NEW i \in DOMAIN slots
      PROVE  Cardinality({c \in Connection : life[c] = "live" /\ slotOf[c].index = i})
             + Cardinality({k \in DOMAIN free : free[k] = i}) = 1
  <2> DEFINE owners == {c \in Connection : life[c] = "live" /\ slotOf[c].index = i}
             places == {k \in DOMAIN free : free[k] = i}
  <2>1. ~(owners # {} /\ places # {})
    <3> SUFFICES ASSUME NEW c \in owners, NEW k \in places PROVE FALSE
      OBVIOUS
    <3>1. slots[i].runtime # None
      BY DEF SlotInv, SlotsOwned, Live
    <3>2. slots[i].runtime = None
      BY DEF SlotInv, FreeSlots
    <3> QED
      BY <3>1, <3>2
  <2>2. CASE \E c \in Live : slotOf[c].index = i
    <3>1. PICK c \in Live : slotOf[c].index = i
      BY <2>2
    <3>2. owners = {c} /\ places = {}
      BY <2>1, <3>1 DEF SlotInv, SlotsOwned, Live
    <3> HIDE DEF owners, places
    <3>3. Cardinality(owners) = 1 /\ Cardinality(places) = 0
      BY <3>2, FS_Singleton, FS_EmptySet
    <3> QED
      BY <3>3 DEF owners, places
  <2>3. CASE \E k \in DOMAIN free : free[k] = i
    <3>1. PICK k \in DOMAIN free : free[k] = i
      BY <2>3
    <3>2. places = {k} /\ owners = {}
      BY <2>1, <3>1 DEF SlotInv, FreeSlots
    <3> HIDE DEF owners, places
    <3>3. Cardinality(places) = 1 /\ Cardinality(owners) = 0
      BY <3>2, FS_Singleton, FS_EmptySet
    <3> QED
      BY <3>3 DEF owners, places
  <2> QED
    BY <2>2, <2>3 DEF EachUsed
<1>2. \A k \in DOMAIN free : free[k] \in DOMAIN slots
  BY DEF SlotInv, FreeSlots
<1> QED
  BY <1>1, <1>2 DEF SlotsAccounted

LEMMA SlotsInvariant == Spec => [](SlotInv /\ EachUsed)
<1>1. Init => SlotInv /\ EachUsed
  BY SlotInit DEF Init, EachUsed
<1>2. SlotInv /\ EachUsed /\ [Next]_vars => (SlotInv /\ EachUsed)'
  BY SlotStep, UsedStep
<1> QED
  BY <1>1, <1>2, PTL DEF Spec

\* A slot is one live connection's or free once, so the registry never grows past
\* the connections that were alive together, however many come and go.
THEOREM RegistryStaysSmall == Spec => []SlotsAccounted
  BY SlotsInvariant, SlotsAddUp, PTL
===============================================================================
