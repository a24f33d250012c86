----------------------------- MODULE RuntimeSlots -----------------------------
(***************************************************************************)
(* The process-wide registry of the runtimes that connections connected on *)
(* (runtime_slot.rs).  A delivery carries its connection's slot, two       *)
(* integers, and outlives the connection; slots are used again.  Every     *)
(* operation runs under the registry's mutex, so each is one action.       *)
(***************************************************************************)
EXTENDS Integers, Sequences, FiniteSets

CONSTANTS
    Connection,  \* the connections the process ever makes
    Runtime,     \* the tokio runtimes
    GenWidth,    \* 2^32, where a slot's generation wraps
    None         \* no runtime, no slot

ASSUME ConnectionAssumption == IsFiniteSet(Connection)
ASSUME NoneAssumption == None \notin Runtime /\ None \notin [index : Nat \ {0}, generation : Nat]

\* A slot is never freed as often as its generation counts: the process makes
\* fewer than 2^32 connections.  Past that a generation comes round again.
ASSUME WidthAssumption == GenWidth \in Nat /\ Cardinality(Connection) < GenWidth

RuntimeSlot == [index : Nat \ {0}, generation : 0..(GenWidth - 1)]
Slot == [generation : 0..(GenWidth - 1), runtime : Runtime \cup {None}]

VARIABLES
    slots,   \* Registry.slots
    free,    \* Registry.free, a stack
    slotOf,  \* the slot of each connection, which its deliveries go on carrying
    on,      \* the runtime each connection connected on
    life     \* whether its RuntimeRegistration is alive

vars == <<slots, free, slotOf, on, life>>

--------------------------------------------------------------------------------
Init ==
    /\ slots = <<>>
    /\ free = <<>>
    /\ slotOf = [c \in Connection |-> None]
    /\ on = [c \in Connection |-> None]
    /\ life = [c \in Connection |-> "unmade"]

Registered(c, index, generation, r) ==
    /\ slotOf' = [slotOf EXCEPT ![c] = [index |-> index, generation |-> generation]]
    /\ on' = [on EXCEPT ![c] = r]
    /\ life' = [life EXCEPT ![c] = "live"]

\* RuntimeRegistration::new where a freed slot is popped: it keeps its generation.
Reuse(c, r) ==
    /\ life[c] = "unmade"
    /\ free # <<>>
    /\ LET index == free[Len(free)]
       IN /\ free' = SubSeq(free, 1, Len(free) - 1)
          /\ slots' = [slots EXCEPT ![index].runtime = r]
          /\ Registered(c, index, slots[index].generation, r)

\* Variant: the index of the slot before the one pushed.
GrowShort(c, r) ==
    /\ life[c] = "unmade"
    /\ free = <<>>
    /\ slots' = Append(slots, [generation |-> 0, runtime |-> r])
    /\ Registered(c, Len(slots), 0, r)
    /\ UNCHANGED free

\* RuntimeRegistration::new where none is free: a slot of generation 0 is pushed.
Grow(c, r) ==
    /\ life[c] = "unmade"
    /\ free = <<>>
    /\ slots' = Append(slots, [generation |-> 0, runtime |-> r])
    /\ Registered(c, Len(slots) + 1, 0, r)
    /\ UNCHANGED free

\* Variant: the slot is freed twice.
DropTwice(c) ==
    /\ life[c] = "live"
    /\ LET index == slotOf[c].index
       IN /\ slots' = [slots EXCEPT ![index] = [generation |-> (@.generation + 1) % GenWidth,
                                                runtime |-> None]]
          /\ free' = free \o <<index, index>>
    /\ life' = [life EXCEPT ![c] = "gone"]
    /\ UNCHANGED <<slotOf, on>>

\* RuntimeRegistration::drop, when the last holder of the connection goes.
Drop(c) ==
    /\ life[c] = "live"
    /\ LET index == slotOf[c].index
       IN /\ slots' = [slots EXCEPT ![index] = [generation |-> (@.generation + 1) % GenWidth,
                                                runtime |-> None]]
          /\ free' = Append(free, index)
    /\ life' = [life EXCEPT ![c] = "gone"]
    /\ UNCHANGED <<slotOf, on>>

Next ==
    \E c \in Connection :
        \/ \E r \in Runtime : Reuse(c, r) \/ Grow(c, r)
        \/ Drop(c)

Spec == Init /\ [][Next]_vars

\* RuntimeSlot::runtime, what nack_after asks with the slot a delivery carries.
RuntimeAt(slot) ==
    IF slot.index \in DOMAIN slots /\ slots[slot.index].generation = slot.generation
    THEN slots[slot.index].runtime ELSE None

--------------------------------------------------------------------------------
\* Types only.
TypeOK ==
    /\ slots \in Seq(Slot)
    /\ free \in Seq(Nat \ {0})
    /\ slotOf \in [Connection -> RuntimeSlot \cup {None}]
    /\ on \in [Connection -> Runtime \cup {None}]
    /\ life \in [Connection -> {"unmade", "live", "gone"}]

\* A delivery finds the runtime its own connection connected on for as long as
\* the connection lives, and nothing once it is gone, however its slot is used
\* again: never a stranger's runtime (the comment on REGISTRY).
OwnRuntimeOnly ==
    \A c \in Connection :
        slotOf[c] # None => RuntimeAt(slotOf[c]) = IF life[c] = "live" THEN on[c] ELSE None

\* No two live connections share a slot, and every slot is either a live
\* connection's or free, once: the registry never grows past the most
\* connections that were alive together.
SlotsAccounted ==
    /\ \A i \in DOMAIN slots :
         Cardinality({c \in Connection : life[c] = "live" /\ slotOf[c].index = i})
         + Cardinality({k \in DOMAIN free : free[k] = i}) = 1
    /\ \A k \in DOMAIN free : free[k] \in DOMAIN slots
===============================================================================
