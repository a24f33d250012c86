---------------------------- MODULE LifecycleProofs ----------------------------
(***************************************************************************)
(* One connection per broker, and a registration that lasts as long as     *)
(* anything holds the cell, for every set of clones, brokers and runtimes. *)
(* A broker only ever uses the registry by its own operations, so what is  *)
(* proved of RuntimeSlots holds here.                                      *)
(***************************************************************************)
EXTENDS Lifecycle, RuntimeSlotsProofs

BrokerTypes ==
    /\ cell \in [Broker -> Link \cup {None}]
    /\ permit \in [Broker -> Connection \cup {None}]
    /\ stage \in [Connection -> Stage]
    /\ built \in [Connection -> 0..Clients]
    /\ at \in [Connection -> Runtime \cup {None}]
    /\ link \in [Connection -> Link \cup {None}]
    /\ handed \in [Broker -> BOOLEAN]
    /\ call \in [Task -> Call]
    /\ closed \subseteq Link

\* The permit of a cell is with the one call that is filling it, and a filled
\* cell gives none.
PermitHeld ==
    /\ \A b \in Broker :
         permit[b] # None => /\ cell[b] = None
                             /\ BrokerOf[permit[b]] = b
                             /\ stage[permit[b]] \in {"building", "storing"}
    /\ \A c \in Connection :
         stage[c] \in {"building", "storing"} => permit[BrokerOf[c]] = c

\* A connection that was ever made is the one in its broker's cell.
CellIsIt ==
    /\ \A b \in Broker : cell[b] # None => BrokerOf[cell[b].by] = b
    /\ \A c \in Connection : life[c] # "unmade" <=> cell[BrokerOf[c]] = Service(c)
    /\ \A c \in Connection : life[c] # "unmade" => on[c] = at[c] /\ stage[c] \in {"connected", "closing", "over"}
    /\ \A c \in Connection : stage[c] \in Stage \ {"clone", "over"} => at[c] \in Runtime

FormsShareIt ==
    \A c \in Connection :
        stage[c] = "connected" =>
            /\ link[c] # None
            /\ link[c].kind = "service" => link[c] = cell[BrokerOf[c]]

HeldIsLive ==
    \A c \in Connection : life[c] # "unmade" => (life[c] = "live" <=> Held(BrokerOf[c]))

BrokerInv == BrokerTypes /\ PermitHeld /\ CellIsIt /\ FormsShareIt /\ HeldIsLive

LEMMA InitBroker == BrokerInit => BrokerInv
<1> SUFFICES ASSUME BrokerInit PROVE BrokerInv
  OBVIOUS
<1>1. BrokerTypes
  BY BrokerAssumption DEF BrokerInit, BrokerTypes, Stage, NoCall, Call
<1>2. PermitHeld
  BY <1>1 DEF BrokerInit, PermitHeld
<1>3. CellIsIt
  BY BrokerAssumption, NoLinkAssumption
     DEF BrokerInit, Init, CellIsIt, Service, Link, Stage
<1>4. FormsShareIt /\ HeldIsLive
  BY DEF BrokerInit, Init, FormsShareIt, HeldIsLive
<1> QED
  BY <1>1, <1>2, <1>3, <1>4 DEF BrokerInv

\* What the registry keeps of a connection, of the two operations on it.
Lives == {"unmade", "live", "gone"}

LEMMA LetGoLife ==
  ASSUME SlotInv, BrokerTypes, NEW b \in Broker, LetGo(b)
  PROVE  /\ on' = on /\ slotOf' = slotOf
         /\ life' \in [Connection -> Lives]
         /\ \A c \in Connection :
              life'[c] = IF /\ Held(b) /\ ~Held(b)'
                            /\ cell[b] # None /\ cell[b].kind = "service" /\ cell[b].by = c
                         THEN "gone" ELSE life[c]
         /\ [Next]_vars
<1> DEFINE Last == Held(b) /\ ~Held(b)' /\ cell[b] # None /\ cell[b].kind = "service"
<1>0. life \in [Connection -> Lives]
  BY DEF SlotInv, TypeOK, Lives
<1>1. CASE Last
  <2>1. cell[b].by \in Connection /\ Drop(cell[b].by)
    BY <1>1 DEF LetGo, BrokerTypes, Link
  <2>2. /\ on' = on /\ slotOf' = slotOf
        /\ life' = [life EXCEPT ![cell[b].by] = "gone"]
    BY <2>1 DEF Drop
  <2>3. Next
    BY <2>1 DEF Next
  <2> QED
    BY <1>0, <1>1, <2>1, <2>2, <2>3 DEF Lives
<1>2. CASE ~Last
  <2>1. UNCHANGED vars
    BY <1>2 DEF LetGo
  <2> QED
    BY <1>0, <1>2, <2>1 DEF vars
<1> QED
  BY <1>1, <1>2

\* One clone moves to another stage and nothing else of the broker's changes but
\* its form: the invariant is about that clone alone.
LEMMA HeldOthers ==
  ASSUME BrokerTypes, NEW c \in Connection, NEW s \in Stage, To(c, s), handed' = handed,
         call' = call, stage[c] # "over"
  PROVE  /\ stage' \in [Connection -> Stage]
         /\ stage'[c] = s
         /\ \A d \in Connection \ {c} : stage'[d] = stage[d]
         /\ \A b \in Broker : b # BrokerOf[c] => (Held(b)' <=> Held(b))
         /\ Held(BrokerOf[c])
         /\ s # "over" => Held(BrokerOf[c])'
<1>1. /\ stage' \in [Connection -> Stage]
      /\ stage'[c] = s
      /\ \A d \in Connection \ {c} : stage'[d] = stage[d]
  BY DEF BrokerTypes, To
<1>2. \A b \in Broker : b # BrokerOf[c] => \A d \in Clones(b) : d # c /\ stage'[d] = stage[d]
  BY <1>1 DEF Clones
<1>3. \A b \in Broker : b # BrokerOf[c] => (Held(b)' <=> Held(b))
  BY <1>2 DEF Held, HoldsCell, Clones
<1>4. c \in Clones(BrokerOf[c])
  BY DEF Clones
<1>5. Held(BrokerOf[c])
  BY <1>4 DEF Held, HoldsCell
<1>6. s # "over" => Held(BrokerOf[c])'
  BY <1>1, <1>4 DEF Held, HoldsCell, Clones
<1> QED
  BY <1>1, <1>3, <1>5, <1>6

\* The same for a step that leaves the cells and the registry alone and takes no
\* permit: only the types, and the form of c, are left to show.
LEMMA Steady ==
  ASSUME SlotInv, BrokerInv, NEW c \in Connection, NEW s \in Stage, To(c, s),
         UNCHANGED <<vars, cellVars, handed, call>>,
         stage[c] \notin {"building", "storing", "closing", "over"}, s \notin {"building", "storing", "over"},
         at' \in [Connection -> Runtime \cup {None}],
         \A d \in Connection : stage[d] # "clone" \/ d # c => at'[d] = at[d],
         s # "clone" => at'[c] \in Runtime,
         stage[c] = "connected" => s \in {"connected", "closing"}
  PROVE  PermitHeld' /\ CellIsIt' /\ HeldIsLive'
<1>0. /\ stage' \in [Connection -> Stage]
      /\ stage'[c] = s
      /\ \A d \in Connection \ {c} : stage'[d] = stage[d]
      /\ \A b \in Broker : b # BrokerOf[c] => (Held(b)' <=> Held(b))
      /\ Held(BrokerOf[c]) /\ Held(BrokerOf[c])'
  BY HeldOthers DEF BrokerInv
<1>1. UNCHANGED <<slotOf, on, life, cell, permit>>
  BY DEF vars, cellVars
<1>2. PermitHeld'
  BY <1>0, <1>1 DEF BrokerInv, PermitHeld, BrokerTypes
<1>3. CellIsIt'
  <2>1. \A d \in Connection : life[d] # "unmade" => on[d] = at'[d] /\ stage'[d] \in {"connected", "closing", "over"}
    BY <1>0 DEF BrokerInv, CellIsIt
  <2>2. \A d \in Connection : stage'[d] \in Stage \ {"clone", "over"} => at'[d] \in Runtime
    BY <1>0 DEF BrokerInv, CellIsIt
  <2> QED
    BY <1>1, <2>1, <2>2 DEF BrokerInv, CellIsIt
<1>4. HeldIsLive'
  <2>1. \A b \in Broker : Held(b)' <=> Held(b)
    BY <1>0
  <2>2. \A d \in Connection : BrokerOf[d] \in Broker
    BY BrokerAssumption
  <2> QED
    BY <1>1, <2>1, <2>2 DEF BrokerInv, HeldIsLive
<1> QED
  BY <1>2, <1>3, <1>4

\* A call or a form ends.
LEMMA EndKeeps ==
  ASSUME SlotInv, BrokerInv, NEW c \in Connection, stage[c] # "over", To(c, "over"),
         LetGo(BrokerOf[c]), Forget(c),
         UNCHANGED <<cell, at, handleVars>>,
         \/ Release(c)
         \/ permit' = permit /\ stage[c] \notin {"building", "storing"}
  PROVE  BrokerInv' /\ [Next]_vars
<1> DEFINE b == BrokerOf[c]
<1>a. b \in Broker
  BY BrokerAssumption
<1>b. "over" \in Stage /\ handed' = handed /\ call' = call /\ closed' = closed
  BY DEF Stage, handleVars
<1>0. /\ stage' \in [Connection -> Stage]
      /\ stage'[c] = "over"
      /\ \A d \in Connection \ {c} : stage'[d] = stage[d]
      /\ \A x \in Broker : x # b => (Held(x)' <=> Held(x))
      /\ Held(b)
  BY <1>b, HeldOthers DEF BrokerInv
<1>1. /\ on' = on /\ slotOf' = slotOf
      /\ life' \in [Connection -> Lives]
      /\ \A d \in Connection :
           life'[d] = IF Held(b) /\ ~Held(b)' /\ cell[b] # None
                         /\ cell[b].kind = "service" /\ cell[b].by = d
                      THEN "gone" ELSE life[d]
      /\ [Next]_vars
  BY <1>a, LetGoLife DEF BrokerInv
<1>2. /\ permit' \in [Broker -> Connection \cup {None}]
      /\ \A x \in Broker : /\ permit'[x] = permit[x] \/ (permit[x] = c /\ permit'[x] = None)
                          /\ permit'[x] # c
  <2>1. CASE Release(c)
    BY <2>1, NoLinkAssumption DEF BrokerInv, BrokerTypes, Release
  <2>2. CASE permit' = permit /\ stage[c] \notin {"building", "storing"}
    BY <2>2, NoLinkAssumption DEF BrokerInv, BrokerTypes, PermitHeld
  <2> QED
    BY <2>1, <2>2
<1>f. /\ built' \in [Connection -> 0..Clients]
      /\ link' \in [Connection -> Link \cup {None}]
      /\ \A d \in Connection \ {c} : link'[d] = link[d]
  BY BrokerAssumption DEF Forget, BrokerInv, BrokerTypes
<1>3. BrokerTypes'
  BY <1>b, <1>f, <1>0, <1>2 DEF BrokerInv, BrokerTypes
<1>4. PermitHeld'
  <2>1. \A x \in Broker : permit'[x] # None =>
           cell'[x] = None /\ BrokerOf[permit'[x]] = x /\ stage'[permit'[x]] \in {"building", "storing"}
    BY <1>0, <1>2 DEF BrokerInv, PermitHeld, BrokerTypes
  <2>2. \A d \in Connection : stage'[d] \in {"building", "storing"} => permit'[BrokerOf[d]] = d
    BY <1>0, <1>2, BrokerAssumption DEF BrokerInv, PermitHeld, BrokerTypes
  <2> QED
    BY <2>1, <2>2 DEF PermitHeld
<1>5. \A d \in Connection : life'[d] # "unmade" <=> life[d] # "unmade"
  <2>1. cell[b] # None /\ cell[b].kind = "service" => life[cell[b].by] # "unmade"
    BY <1>a DEF BrokerInv, CellIsIt, BrokerTypes, Link, Service
  <2> QED
    BY <1>1, <2>1
<1>6. CellIsIt'
  <2>1. \A d \in Connection : stage'[d] = stage[d] \/ stage'[d] = "over"
    BY <1>0
  <2> QED
    BY <1>1, <1>5, <2>1 DEF BrokerInv, CellIsIt
<1>7. FormsShareIt'
  BY <1>0, <1>f DEF BrokerInv, FormsShareIt
<1>8. HeldIsLive'
  <2> SUFFICES ASSUME NEW d \in Connection, life'[d] # "unmade"
               PROVE  life'[d] = "live" <=> Held(BrokerOf[d])'
    BY DEF HeldIsLive
  <2>1. life[d] # "unmade" /\ (life[d] = "live" <=> Held(BrokerOf[d]))
        /\ cell[BrokerOf[d]] = Service(d) /\ BrokerOf[d] \in Broker
    BY <1>5, BrokerAssumption DEF BrokerInv, CellIsIt, HeldIsLive
  <2>2. CASE BrokerOf[d] = b
    <3>1. cell[b] # None /\ cell[b].kind = "service" /\ cell[b].by = d
      BY <2>1, <2>2, NoLinkAssumption DEF Service, Link
    <3> QED
      BY <1>0, <1>1, <2>1, <2>2, <3>1
  <2>3. CASE BrokerOf[d] # b
    <3>1. cell[b] # None => cell[b].by # d
      BY <1>a, <2>1, <2>3 DEF BrokerInv, CellIsIt
    <3> QED
      BY <1>0, <1>1, <2>1, <2>3, <3>1
  <2> QED
    BY <2>2, <2>3
<1> QED
  BY <1>1, <1>3, <1>4, <1>6, <1>7, <1>8 DEF BrokerInv

\* A connection fills its cell: the one registration, by the call with the permit.
LEMMA FillKeeps ==
  ASSUME SlotInv, BrokerInv, NEW c \in Connection, Fill(c)
  PROVE  BrokerInv' /\ [Next]_vars
<1> DEFINE b == BrokerOf[c]
<1>a. b \in Broker /\ "connected" \in Stage /\ Service(c) \in Link /\ Service(c) # None
  BY BrokerAssumption, NoLinkAssumption DEF Stage, Service, Link
<1>b. /\ stage[c] = "building" /\ at[c] \in Runtime /\ cell[b] = None /\ permit[b] = c
  BY <1>a, NoLinkAssumption DEF Fill, BrokerInv, CellIsIt, PermitHeld, Stage
<1>c. /\ To(c, "connected") /\ handed' = handed /\ at' = at /\ built' = built
      /\ closed' = closed /\ call' = call
      /\ link' = [link EXCEPT ![c] = Service(c)]
      /\ cell' = [cell EXCEPT ![b] = Service(c)]
      /\ permit' = [permit EXCEPT ![b] = None]
  BY DEF Fill, Connected, handleVars
<1>0. /\ stage' \in [Connection -> Stage]
      /\ stage'[c] = "connected"
      /\ \A d \in Connection \ {c} : stage'[d] = stage[d]
      /\ \A x \in Broker : x # b => (Held(x)' <=> Held(x))
      /\ Held(b) /\ Held(b)'
  BY <1>a, <1>b, <1>c, HeldOthers DEF BrokerInv
<1>1. /\ life' = [life EXCEPT ![c] = "live"]
      /\ on' = [on EXCEPT ![c] = at[c]]
      /\ life[c] = "unmade"
      /\ Next
  BY <1>b DEF Fill, Reuse, Grow, Registered, Next
<1>2. life \in [Connection -> Lives] /\ on \in [Connection -> Runtime \cup {None}]
  BY DEF SlotInv, TypeOK, Lives
<1>3. BrokerTypes'
  BY <1>a, <1>c, <1>0 DEF BrokerInv, BrokerTypes
<1>4. PermitHeld'
  <2>1. \A x \in Broker : permit'[x] # None =>
           cell'[x] = None /\ BrokerOf[permit'[x]] = x /\ stage'[permit'[x]] \in {"building", "storing"}
    BY <1>a, <1>b, <1>c, <1>0 DEF BrokerInv, PermitHeld, BrokerTypes
  <2>2. \A d \in Connection : stage'[d] \in {"building", "storing"} => permit'[BrokerOf[d]] = d
    BY <1>a, <1>b, <1>c, <1>0, BrokerAssumption DEF BrokerInv, PermitHeld, BrokerTypes
  <2> QED
    BY <2>1, <2>2 DEF PermitHeld
<1>5. \A d \in Connection : BrokerOf[d] = b => life[d] = "unmade"
  <2>1. \A d \in Connection : Service(d) # None
    BY NoLinkAssumption DEF Service, Link
  <2> QED
    BY <1>b, <2>1 DEF BrokerInv, CellIsIt
<1>6. CellIsIt'
  <2>1. \A x \in Broker : cell'[x] # None => BrokerOf[cell'[x].by] = x
    BY <1>a, <1>c DEF BrokerInv, CellIsIt, BrokerTypes, Service
  <2>2. ASSUME NEW d \in Connection PROVE life'[d] # "unmade" <=> cell'[BrokerOf[d]] = Service(d)
    BY <1>a, <1>c, <1>1, <1>2, <1>5, BrokerAssumption DEF BrokerInv, CellIsIt, BrokerTypes, Service
  <2>3. \A d \in Connection : life'[d] # "unmade" =>
           on'[d] = at'[d] /\ stage'[d] \in {"connected", "closing", "over"}
    BY <1>c, <1>0, <1>1, <1>2 DEF BrokerInv, CellIsIt
  <2>4. \A d \in Connection : stage'[d] \in Stage \ {"clone", "over"} => at'[d] \in Runtime
    BY <1>b, <1>c, <1>0 DEF BrokerInv, CellIsIt
  <2> QED
    BY <2>1, <2>2, <2>3, <2>4 DEF CellIsIt
<1>7. FormsShareIt'
  <2> SUFFICES ASSUME NEW d \in Connection, stage'[d] = "connected"
               PROVE  link'[d] # None /\ (link'[d].kind = "service" => link'[d] = cell'[BrokerOf[d]])
    BY DEF FormsShareIt
  <2>1. CASE d = c
    BY <1>a, <1>c, <2>1 DEF BrokerInv, BrokerTypes
  <2>2. CASE d # c
    <3>1. link'[d] = link[d] /\ link[d] # None /\ link[d] \in Link
          /\ (link[d].kind = "service" => link[d] = cell[BrokerOf[d]])
      BY <1>c, <1>0, <2>2 DEF BrokerInv, BrokerTypes, FormsShareIt
    <3>2. BrokerOf[d] = b => link[d].kind # "service"
      BY <1>b, <3>1, NoLinkAssumption
    <3> QED
      BY <1>c, <3>1, <3>2, BrokerAssumption DEF BrokerInv, BrokerTypes
  <2> QED
    BY <2>1, <2>2
<1>8. HeldIsLive'
  BY <1>0, <1>1, <1>2, <1>5, BrokerAssumption DEF BrokerInv, HeldIsLive
<1> QED
  BY <1>1, <1>3, <1>4, <1>6, <1>7, <1>8 DEF BrokerInv

\* A form connects without making a connection.
LEMMA FormJoins ==
  ASSUME BrokerInv, NEW c \in Connection, NEW l \in Link, Connected(c, l),
         cell' = cell, l.kind = "service" => l = cell[BrokerOf[c]]
  PROVE  FormsShareIt' /\ link' \in [Connection -> Link \cup {None}]
<1>1. /\ link' = [link EXCEPT ![c] = l]
      /\ stage' = [stage EXCEPT ![c] = "connected"]
  BY DEF Connected, To
<1>2. link \in [Connection -> Link \cup {None}] /\ stage \in [Connection -> Stage]
  BY DEF BrokerInv, BrokerTypes
<1>3. ASSUME NEW d \in Connection, stage'[d] = "connected"
      PROVE  link'[d] # None /\ (link'[d].kind = "service" => link'[d] = cell'[BrokerOf[d]])
  <2>1. CASE d = c
    BY <1>1, <1>2, <2>1, NoLinkAssumption
  <2>2. CASE d # c
    BY <1>1, <1>2, <1>3, <2>2 DEF BrokerInv, FormsShareIt
  <2> QED
    BY <2>1, <2>2
<1> QED
  BY <1>1, <1>2, <1>3 DEF FormsShareIt

LEMMA FormsKept ==
  ASSUME BrokerInv, NEW c \in Connection, NEW s \in Stage, To(c, s), s # "connected",
         link' = link, \A b \in Broker : cell[b] # None => cell'[b] = cell[b],
         \A b \in Broker : cell[b] = None \/ cell'[b] = cell[b]
  PROVE  FormsShareIt'
<1> SUFFICES ASSUME NEW d \in Connection, stage'[d] = "connected"
             PROVE  link'[d] # None /\ (link'[d].kind = "service" => link'[d] = cell'[BrokerOf[d]])
  BY DEF FormsShareIt
<1>1. stage[d] = "connected"
  BY DEF To, BrokerInv, BrokerTypes
<1> QED
  BY <1>1, NoLinkAssumption, BrokerAssumption DEF BrokerInv, FormsShareIt, BrokerTypes

\* A call takes the permit of an empty cell.
LEMMA PermitTaken ==
  ASSUME SlotInv, BrokerInv, NEW c \in Connection, NEW s \in {"building", "storing"},
         stage[c] \in {"asking", "making"}, To(c, s),
         cell[BrokerOf[c]] = None, permit[BrokerOf[c]] = None,
         permit' = [permit EXCEPT ![BrokerOf[c]] = c],
         UNCHANGED <<vars, cell, built, at, link, handleVars>>
  PROVE  BrokerInv' /\ [Next]_vars
<1> DEFINE b == BrokerOf[c]
<1>a. b \in Broker /\ s \in Stage /\ stage[c] # "over" /\ handed' = handed /\ call' = call
  BY BrokerAssumption DEF Stage, handleVars
<1>0. /\ stage' \in [Connection -> Stage]
      /\ stage'[c] = s
      /\ \A d \in Connection \ {c} : stage'[d] = stage[d]
      /\ \A x \in Broker : x # b => (Held(x)' <=> Held(x))
      /\ Held(b) /\ Held(b)'
  BY <1>a, HeldOthers DEF BrokerInv
<1>1. UNCHANGED <<slotOf, on, life, cell, at>>
  BY DEF vars
<1>2. BrokerTypes'
  BY <1>a, <1>0 DEF BrokerInv, BrokerTypes, handleVars
<1>3. PermitHeld'
  <2>1. \A x \in Broker : permit'[x] # None =>
           cell'[x] = None /\ BrokerOf[permit'[x]] = x /\ stage'[permit'[x]] \in {"building", "storing"}
    BY <1>a, <1>0, <1>1 DEF BrokerInv, PermitHeld, BrokerTypes
  <2>2. \A d \in Connection : stage'[d] \in {"building", "storing"} => permit'[BrokerOf[d]] = d
    BY <1>a, <1>0, BrokerAssumption, NoLinkAssumption DEF BrokerInv, PermitHeld, BrokerTypes
  <2> QED
    BY <2>1, <2>2 DEF PermitHeld
<1>4. CellIsIt'
  <2>1. \A d \in Connection : life[d] # "unmade" => stage'[d] \in {"connected", "closing", "over"}
    BY <1>0 DEF BrokerInv, CellIsIt
  <2>2. \A d \in Connection : stage'[d] \in Stage \ {"clone", "over"} => at[d] \in Runtime
    BY <1>0 DEF BrokerInv, CellIsIt, Stage
  <2> QED
    BY <1>1, <2>1, <2>2 DEF BrokerInv, CellIsIt
<1>5. FormsShareIt'
  BY <1>a, <1>1, FormsKept
<1>6. HeldIsLive'
  BY <1>0, <1>1, BrokerAssumption DEF BrokerInv, HeldIsLive
<1> QED
  BY <1>2, <1>3, <1>4, <1>5, <1>6 DEF BrokerInv

\* A form connects to what the cell holds, or, in process, to a project of its own.
LEMMA JoinKeeps ==
  ASSUME SlotInv, BrokerInv, NEW c \in Connection, NEW l \in Link,
         stage[c] \in {"asking", "looking", "made"}, Connected(c, l),
         UNCHANGED <<vars, cellVars, built, at, handleVars>>,
         l.kind = "service" => l = cell[BrokerOf[c]]
  PROVE  BrokerInv' /\ [Next]_vars
<1>1. To(c, "connected") /\ "connected" \in Stage
  BY DEF Connected, Stage
<1>2. at[c] \in Runtime /\ at \in [Connection -> Runtime \cup {None}]
  BY DEF BrokerInv, BrokerTypes, CellIsIt, Stage
<1>3. PermitHeld' /\ CellIsIt' /\ HeldIsLive'
  BY <1>1, <1>2, Steady DEF handleVars
<1>4. FormsShareIt' /\ link' \in [Connection -> Link \cup {None}]
  BY FormJoins DEF cellVars
<1>5. BrokerTypes'
  BY <1>1, <1>4 DEF BrokerInv, BrokerTypes, To, cellVars, handleVars
<1> QED
  BY <1>3, <1>4, <1>5 DEF BrokerInv

LEMMA OverKeeps ==
  ASSUME SlotInv, BrokerInv, NEW c \in Connection, stage[c] # "over", Over(c)
  PROVE  BrokerInv' /\ [Next]_vars
  BY EndKeeps DEF Over

LEMMA AdoptKeeps ==
  ASSUME SlotInv, BrokerInv, NEW c \in Connection, NEW l \in Link,
         stage[c] \in {"looking", "made"}, Adopt(c, l)
  PROVE  BrokerInv' /\ [Next]_vars
<1>1. CASE l.kind = "service"
  BY <1>1, OverKeeps DEF Adopt
<1>2. CASE l.kind # "service"
  BY <1>2, JoinKeeps DEF Adopt
<1> QED
  BY <1>1, <1>2

\* A call goes on to its next stage, alone.
LEMMA MoveKeeps ==
  ASSUME SlotInv, BrokerInv, NEW c \in Connection, NEW s \in {"making", "made"}, To(c, s),
         stage[c] \in {"looking", "making"},
         UNCHANGED <<vars, cellVars, built, at, link, handleVars>>
  PROVE  BrokerInv' /\ [Next]_vars
<1>1. s \in Stage
  BY DEF Stage
<1>2. at[c] \in Runtime /\ at \in [Connection -> Runtime \cup {None}]
  BY DEF BrokerInv, BrokerTypes, CellIsIt, Stage
<1>3. PermitHeld' /\ CellIsIt' /\ HeldIsLive'
  BY <1>1, <1>2, Steady DEF handleVars
<1>4. FormsShareIt'
  BY <1>1, FormsKept DEF cellVars
<1>5. BrokerTypes'
  BY <1>1 DEF BrokerInv, BrokerTypes, To, cellVars, handleVars
<1> QED
  BY <1>3, <1>4, <1>5 DEF BrokerInv

LEMMA StoreKeeps ==
  ASSUME SlotInv, BrokerInv, NEW c \in Connection, StoreProject(c)
  PROVE  BrokerInv' /\ [Next]_vars
<1> DEFINE b == BrokerOf[c]
<1>a. /\ b \in Broker /\ "made" \in Stage /\ Project(c) \in Link /\ Project(c) # None
      /\ \A d \in Connection : Service(d) # Project(c) /\ Service(d) # None
  BY BrokerAssumption, NoLinkAssumption DEF Stage, Project, Service, Link
<1>b. /\ stage[c] = "storing" /\ cell[b] = None /\ permit[b] = c /\ at[c] \in Runtime
  BY <1>a, NoLinkAssumption DEF StoreProject, BrokerInv, PermitHeld, CellIsIt, Stage
<1>c. /\ To(c, "made") /\ handed' = handed /\ call' = call
      /\ UNCHANGED <<vars, slotOf, on, life, built, at, link, closed>>
      /\ cell' = [cell EXCEPT ![b] = Project(c)]
      /\ permit' = [permit EXCEPT ![b] = None]
  BY DEF StoreProject, handleVars, vars
<1>0. /\ stage' \in [Connection -> Stage]
      /\ stage'[c] = "made"
      /\ \A d \in Connection \ {c} : stage'[d] = stage[d]
      /\ \A x \in Broker : x # b => (Held(x)' <=> Held(x))
      /\ Held(b) /\ Held(b)'
  BY <1>a, <1>b, <1>c, HeldOthers DEF BrokerInv
<1>1. BrokerTypes'
  BY <1>a, <1>c, <1>0 DEF BrokerInv, BrokerTypes
<1>2. PermitHeld'
  <2>1. \A x \in Broker : permit'[x] # None =>
           cell'[x] = None /\ BrokerOf[permit'[x]] = x /\ stage'[permit'[x]] \in {"building", "storing"}
    BY <1>a, <1>b, <1>c, <1>0 DEF BrokerInv, PermitHeld, BrokerTypes
  <2>2. \A d \in Connection : stage'[d] \in {"building", "storing"} => permit'[BrokerOf[d]] = d
    BY <1>a, <1>b, <1>c, <1>0, BrokerAssumption DEF BrokerInv, PermitHeld, BrokerTypes
  <2> QED
    BY <2>1, <2>2 DEF PermitHeld
<1>3. CellIsIt'
  <2>1. \A x \in Broker : cell'[x] # None => BrokerOf[cell'[x].by] = x
    BY <1>a, <1>c DEF BrokerInv, CellIsIt, BrokerTypes, Project
  <2>2. ASSUME NEW d \in Connection PROVE life[d] # "unmade" <=> cell'[BrokerOf[d]] = Service(d)
    BY <1>a, <1>b, <1>c, BrokerAssumption DEF BrokerInv, CellIsIt, BrokerTypes
  <2>3. \A d \in Connection : life[d] # "unmade" => stage'[d] \in {"connected", "closing", "over"}
    BY <1>b, <1>0 DEF BrokerInv, CellIsIt
  <2>4. \A d \in Connection : stage'[d] \in Stage \ {"clone", "over"} => at[d] \in Runtime
    BY <1>b, <1>0 DEF BrokerInv, CellIsIt
  <2> QED
    BY <1>c, <2>1, <2>2, <2>3, <2>4 DEF BrokerInv, CellIsIt
<1>4. FormsShareIt'
  <2> SUFFICES ASSUME NEW d \in Connection, stage'[d] = "connected"
               PROVE  link'[d] # None /\ (link'[d].kind = "service" => link'[d] = cell'[BrokerOf[d]])
    BY DEF FormsShareIt
  <2>1. stage[d] = "connected" /\ link[d] # None /\ link[d] \in Link
        /\ (link[d].kind = "service" => link[d] = cell[BrokerOf[d]])
    BY <1>0 DEF BrokerInv, BrokerTypes, FormsShareIt
  <2> QED
    BY <1>a, <1>b, <1>c, <2>1, BrokerAssumption, NoLinkAssumption DEF BrokerInv, BrokerTypes
<1>5. HeldIsLive'
  BY <1>0, <1>c, BrokerAssumption DEF BrokerInv, HeldIsLive
<1> QED
  BY <1>1, <1>2, <1>3, <1>4, <1>5, <1>c DEF BrokerInv

\* The publishers, or a publish under way, let go of a broker's cell.
LEMMA HolderGone ==
  ASSUME SlotInv, BrokerInv, NEW b \in Broker, LetGo(b), UNCHANGED <<cellVars, callVars, closed>>,
         handed' \in [Broker -> BOOLEAN], call' \in [Task -> Call],
         Held(b), \A x \in Broker : x # b => (Held(x)' <=> Held(x))
  PROVE  BrokerInv' /\ [Next]_vars
<1>1. UNCHANGED <<cell, permit, stage, built, at, link, closed>>
  BY DEF cellVars, callVars
<1>2. /\ on' = on /\ slotOf' = slotOf
      /\ life' \in [Connection -> Lives]
      /\ \A d \in Connection :
           life'[d] = IF Held(b) /\ ~Held(b)' /\ cell[b] # None
                         /\ cell[b].kind = "service" /\ cell[b].by = d
                      THEN "gone" ELSE life[d]
      /\ [Next]_vars
  BY <1>1, LetGoLife DEF BrokerInv
<1>4. \A d \in Connection : life'[d] # "unmade" <=> life[d] # "unmade"
  <2>1. cell[b] # None /\ cell[b].kind = "service" => life[cell[b].by] # "unmade"
    BY DEF BrokerInv, CellIsIt, BrokerTypes, Link, Service
  <2> QED
    BY <1>2, <2>1
<1>5. BrokerTypes' /\ PermitHeld' /\ FormsShareIt'
  BY <1>1 DEF BrokerInv, BrokerTypes, PermitHeld, FormsShareIt
<1>6. CellIsIt'
  BY <1>1, <1>2, <1>4 DEF BrokerInv, CellIsIt
<1>7. HeldIsLive'
  <2> SUFFICES ASSUME NEW d \in Connection, life'[d] # "unmade"
               PROVE  life'[d] = "live" <=> Held(BrokerOf[d])'
    BY DEF HeldIsLive
  <2>1. life[d] # "unmade" /\ (life[d] = "live" <=> Held(BrokerOf[d]))
        /\ cell[BrokerOf[d]] = Service(d) /\ BrokerOf[d] \in Broker
    BY <1>4, BrokerAssumption DEF BrokerInv, CellIsIt, HeldIsLive
  <2>2. CASE BrokerOf[d] = b
    <3>1. cell[b] # None /\ cell[b].kind = "service" /\ cell[b].by = d
      BY <2>1, <2>2, NoLinkAssumption DEF Service, Link
    <3> QED
      BY <1>2, <2>1, <2>2, <3>1
  <2>3. CASE BrokerOf[d] # b
    <3>1. cell[b] # None => cell[b].by # d
      BY <2>1, <2>3 DEF BrokerInv, CellIsIt
    <3> QED
      BY <1>2, <2>1, <2>3, <3>1
  <2> QED
    BY <2>2, <2>3
<1> QED
  BY <1>2, <1>5, <1>6, <1>7 DEF BrokerInv

\* A publish goes on, and holds what it held.
LEMMA CallGoes ==
  ASSUME BrokerInv, UNCHANGED <<vars, cellVars, callVars, handed, closed>>,
         call' \in [Task -> Call], \A b \in Broker : Held(b)' <=> Held(b)
  PROVE  BrokerInv'
<1>1. UNCHANGED <<slotOf, on, life, cell, permit, stage, built, at, link, handed, closed>>
  BY DEF vars, cellVars, callVars
<1>2. HeldIsLive'
  BY <1>1, BrokerAssumption DEF BrokerInv, HeldIsLive
<1> QED
  BY <1>1, <1>2 DEF BrokerInv, BrokerTypes, PermitHeld, CellIsIt, FormsShareIt

LEMMA CallTypes ==
  ASSUME BrokerInv, NEW t \in Task, Publish(t) \/ EnsureOpen(t) \/ Queue(t) \/ EndCall(t)
  PROVE  /\ call' \in [Task -> Call]
         /\ \A u \in Task \ {t} : call'[u] = call[u]
         /\ HandleOf[t] \in Broker
<1>1. HandleOf[t] \in Broker /\ call \in [Task -> Call] /\ cell[HandleOf[t]] \in Link \cup {None}
  BY BrokerAssumption DEF BrokerInv, BrokerTypes
<1>2. NoCall \in Call
  BY DEF NoCall, Call
<1>3. Standing(HandleOf[t]) \in {"unconnected", "open", "closed"}
  BY DEF Standing
<1>4. CASE Publish(t)
  BY <1>1, <1>3, <1>4 DEF Publish, Call
<1>5. CASE EnsureOpen(t) \/ Queue(t)
  BY <1>1, <1>5 DEF EnsureOpen, Queue, Goes, Call
<1>6. CASE EndCall(t)
  BY <1>1, <1>2, <1>6 DEF EndCall
<1> QED
  BY <1>1, <1>4, <1>5, <1>6

LEMMA BrokerStep == SlotInv /\ BrokerInv /\ [BrokerNext]_lifecycleVars => BrokerInv' /\ [Next]_vars
<1> SUFFICES ASSUME SlotInv, BrokerInv, [BrokerNext]_lifecycleVars
             PROVE  BrokerInv' /\ [Next]_vars
  OBVIOUS
<1> USE DEF vars, cellVars, callVars, handleVars
<1>s. {"clone", "asking", "building", "looking", "making", "storing", "made", "connected",
       "closing", "over"} = Stage
  BY DEF Stage
<1>1. ASSUME NEW c \in Connection, NEW r \in Runtime, Connect(c, r) \/ ConnectInProcess(c, r)
      PROVE  BrokerInv' /\ [Next]_vars
  <2>1. PICK s \in {"asking", "looking"} : To(c, s)
    BY <1>1 DEF Connect, ConnectInProcess
  <2>2. /\ stage[c] = "clone" /\ s \in Stage /\ at' = [at EXCEPT ![c] = r]
        /\ UNCHANGED <<vars, cellVars, built, link, handleVars>>
    BY <1>1, <1>s, <2>1 DEF Connect, ConnectInProcess
  <2>3. at' \in [Connection -> Runtime \cup {None}] /\ at'[c] = r
        /\ \A d \in Connection \ {c} : at'[d] = at[d]
    BY <2>2 DEF BrokerInv, BrokerTypes
  <2>4. PermitHeld' /\ CellIsIt' /\ HeldIsLive'
    BY <2>1, <2>2, <2>3, Steady
  <2>5. FormsShareIt'
    BY <2>1, <2>2, FormsKept
  <2>6. BrokerTypes'
    BY <2>1, <2>2, <2>3 DEF BrokerInv, BrokerTypes, To
  <2> QED
    BY <2>2, <2>4, <2>5, <2>6 DEF BrokerInv
<1>2. ASSUME NEW c \in Connection, Acquire(c) PROVE BrokerInv' /\ [Next]_vars
  <2>1. CASE cell[BrokerOf[c]] # None
    <3>1. cell[BrokerOf[c]] \in Link
      BY <2>1, BrokerAssumption DEF BrokerInv, BrokerTypes
    <3> QED
      BY <1>2, <2>1, <3>1, JoinKeeps DEF Acquire
  <2>2. CASE cell[BrokerOf[c]] = None
    BY <1>2, <2>2, PermitTaken DEF Acquire
  <2> QED
    BY <2>1, <2>2
<1>3. ASSUME NEW c \in Connection, BuildClient(c) PROVE BrokerInv' /\ [Next]_vars
  <2>1. /\ built' \in [Connection -> 0..Clients]
        /\ UNCHANGED <<vars, slotOf, on, life, cell, permit, stage, at, link, handed, call, closed>>
    BY <1>3, BrokerAssumption DEF BuildClient, BrokerInv, BrokerTypes
  <2> QED
    BY <2>1 DEF BrokerInv, BrokerTypes, PermitHeld, CellIsIt, FormsShareIt, HeldIsLive, Held, HoldsCell
<1>4. ASSUME NEW c \in Connection, Fill(c) PROVE BrokerInv' /\ [Next]_vars
  BY <1>4, FillKeeps
<1>5. ASSUME NEW c \in Connection,
             FailConnect(c) \/ AbandonConnect(c) \/ DropClone(c) \/ EndShutDown(c)
      PROVE  BrokerInv' /\ [Next]_vars
  BY <1>5, OverKeeps DEF FailConnect, AbandonConnect, DropClone, EndShutDown
<1>6. ASSUME NEW c \in Connection, Look(c) PROVE BrokerInv' /\ [Next]_vars
  <2>1. CASE cell[BrokerOf[c]] # None
    <3>1. cell[BrokerOf[c]] \in Link
      BY <2>1, BrokerAssumption DEF BrokerInv, BrokerTypes
    <3> QED
      BY <1>6, <2>1, <3>1, AdoptKeeps DEF Look
  <2>2. CASE cell[BrokerOf[c]] = None
    BY <1>6, <2>2, MoveKeeps DEF Look
  <2> QED
    BY <2>1, <2>2
<1>7. ASSUME NEW c \in Connection, SetProject(c) PROVE BrokerInv' /\ [Next]_vars
  <2>1. CASE cell[BrokerOf[c]] = None /\ permit[BrokerOf[c]] = None
    BY <1>7, <2>1, PermitTaken DEF SetProject
  <2>2. CASE ~(cell[BrokerOf[c]] = None /\ permit[BrokerOf[c]] = None)
    BY <1>7, <2>2, MoveKeeps DEF SetProject
  <2> QED
    BY <2>1, <2>2
<1>8. ASSUME NEW c \in Connection, StoreProject(c) PROVE BrokerInv' /\ [Next]_vars
  BY <1>8, StoreKeeps
<1>9. ASSUME NEW c \in Connection, Reread(c) PROVE BrokerInv' /\ [Next]_vars
  <2>1. cell[BrokerOf[c]] # None => cell[BrokerOf[c]] \in Link
    BY BrokerAssumption DEF BrokerInv, BrokerTypes
  <2>2. Project(c) \in Link
    BY DEF Project, Link
  <2> QED
    BY <1>9, <2>1, <2>2, AdoptKeeps DEF Reread
<1>10. ASSUME NEW c \in Connection, ShutDown(c) PROVE BrokerInv' /\ [Next]_vars
  <2>1. /\ stage[c] = "connected" /\ To(c, "closing") /\ closed' = closed \cup {link[c]}
        /\ UNCHANGED <<vars, cellVars, built, at, link, handed, call>>
    BY <1>10 DEF ShutDown
  <2>2. "closing" \in Stage /\ at[c] \in Runtime /\ at \in [Connection -> Runtime \cup {None}]
    BY <2>1 DEF BrokerInv, BrokerTypes, CellIsIt, Stage
  <2>3. PermitHeld' /\ CellIsIt' /\ HeldIsLive'
    BY <2>1, <2>2, Steady
  <2>4. FormsShareIt'
    BY <2>1, <2>2, FormsKept
  <2>5. link[c] \in Link
    BY <2>1 DEF BrokerInv, BrokerTypes, FormsShareIt
  <2>6. BrokerTypes'
    BY <2>1, <2>2, <2>5 DEF BrokerInv, BrokerTypes, To
  <2> QED
    BY <2>1, <2>3, <2>4, <2>6 DEF BrokerInv
<1>11. ASSUME NEW b \in Broker, HandOut(b) PROVE BrokerInv' /\ [Next]_vars
  <2>1. \A x \in Broker : Held(x)' <=> Held(x)
    BY <1>11 DEF HandOut, Held, HoldsCell, BrokerInv, BrokerTypes
  <2>2. /\ handed' \in [Broker -> BOOLEAN]
        /\ UNCHANGED <<vars, slotOf, on, life, cell, permit, stage, built, at, link, call, closed>>
    BY <1>11 DEF HandOut, BrokerInv, BrokerTypes
  <2> QED
    BY <2>1, <2>2, BrokerAssumption
       DEF BrokerInv, BrokerTypes, PermitHeld, CellIsIt, FormsShareIt, HeldIsLive
<1>12. ASSUME NEW t \in Task, Publish(t) \/ EnsureOpen(t) \/ Queue(t)
       PROVE  BrokerInv' /\ [Next]_vars
  <2>1. /\ call' \in [Task -> Call]
        /\ \A u \in Task \ {t} : call'[u] = call[u]
        /\ HandleOf[t] \in Broker
    BY <1>12, CallTypes
  <2>2. UNCHANGED <<vars, cellVars, callVars, handed, closed>>
    BY <1>12 DEF Publish, EnsureOpen, Queue
  <2>3. call'[t].pc # "idle" /\ (call[t].pc # "idle" \/ handed[HandleOf[t]])
    BY <1>12 DEF Publish, EnsureOpen, Queue, Goes, BrokerInv, BrokerTypes, Call
  <2>4. ASSUME NEW b \in Broker PROVE Held(b)' <=> Held(b)
    <3>1. (\E c \in Clones(b) : HoldsCell(c))' <=> \E c \in Clones(b) : HoldsCell(c)
      BY <2>2 DEF Clones, HoldsCell
    <3> QED
      BY <2>1, <2>2, <2>3, <3>1 DEF Held
  <2> QED
    BY <2>1, <2>2, <2>4, CallGoes
<1>13. ASSUME NEW b \in Broker, DropPublishers(b) PROVE BrokerInv' /\ [Next]_vars
  <2>1. /\ LetGo(b) /\ handed' = [handed EXCEPT ![b] = FALSE] /\ handed[b]
        /\ call' = call /\ UNCHANGED <<cellVars, callVars, closed>>
    BY <1>13 DEF DropPublishers
  <2>2. handed' \in [Broker -> BOOLEAN] /\ call' \in [Task -> Call]
    BY <2>1 DEF BrokerInv, BrokerTypes
  <2>3. Held(b) /\ \A x \in Broker : x # b => (Held(x)' <=> Held(x))
    BY <2>1 DEF Held, HoldsCell, BrokerInv, BrokerTypes
  <2> QED
    BY <2>1, <2>2, <2>3, HolderGone
<1>15. ASSUME NEW t \in Task, EndCall(t) PROVE BrokerInv' /\ [Next]_vars
  <2> DEFINE b == HandleOf[t]
  <2>1. /\ call' \in [Task -> Call]
        /\ \A u \in Task \ {t} : call'[u] = call[u]
        /\ b \in Broker
    BY <1>15, CallTypes
  <2>2. LetGo(b) /\ handed' = handed /\ UNCHANGED <<cellVars, callVars, closed>>
    BY <1>15 DEF EndCall
  <2>3. Held(b)
    BY <1>15 DEF EndCall, Held
  <2>4. ASSUME NEW x \in Broker, x # b PROVE Held(x)' <=> Held(x)
    <3>1. (\E c \in Clones(x) : HoldsCell(c))' <=> \E c \in Clones(x) : HoldsCell(c)
      BY <2>2 DEF Clones, HoldsCell
    <3>2. \A u \in Task : HandleOf[u] = x => call'[u] = call[u]
      BY <2>1, <2>4
    <3> QED
      BY <2>2, <3>1, <3>2 DEF Held
  <2>5. handed' \in [Broker -> BOOLEAN]
    BY <2>2 DEF BrokerInv, BrokerTypes
  <2> QED
    BY <2>1, <2>2, <2>3, <2>4, <2>5, HolderGone
<1>14. CASE UNCHANGED lifecycleVars
  BY <1>14 DEF lifecycleVars, BrokerInv, BrokerTypes, PermitHeld, CellIsIt, FormsShareIt, HeldIsLive,
               Held, HoldsCell
<1> QED
  BY <1>1, <1>2, <1>3, <1>4, <1>5, <1>6, <1>7, <1>8, <1>9, <1>10, <1>11, <1>12, <1>13, <1>14,
     <1>15, BrokerAssumption DEF BrokerNext, Step

\* Only a shutdown closes, and nothing opens what is closed.
LEMMA ClosedGrows ==
  ASSUME [BrokerNext]_lifecycleVars
  PROVE  closed' = closed \/ \E c \in Connection : ShutDown(c)
<1>1. CASE ~\E c \in Connection : ShutDown(c)
  BY <1>1 DEF BrokerNext, Step, Connect, Acquire, BuildClient, Fill, FailConnect,
                AbandonConnect, Over, ConnectInProcess, Look, Adopt, SetProject, StoreProject,
                Reread, EndShutDown, DropClone, HandOut, Publish, EnsureOpen, Queue, EndCall,
                DropPublishers, handleVars, lifecycleVars
<1> QED
  BY <1>1

\* What fills a cell stays in it.
LEMMA FilledStays ==
  ASSUME BrokerInv, [BrokerNext]_lifecycleVars, NEW b \in Broker, cell[b] # None
  PROVE  cell'[b] = cell[b]
<1>1. ASSUME NEW d \in Connection, Fill(d) \/ StoreProject(d)
      PROVE  cell'[b] = cell[b]
  <2>1. cell[BrokerOf[d]] = None /\ permit[BrokerOf[d]] = d
    BY <1>1, BrokerAssumption, NoLinkAssumption
       DEF Fill, StoreProject, BrokerInv, BrokerTypes, PermitHeld
  <2>2. BrokerOf[d] \in Broker /\ cell \in [Broker -> Link \cup {None}]
    BY BrokerAssumption DEF BrokerInv, BrokerTypes
  <2>3. PICK l : cell' = [cell EXCEPT ![BrokerOf[d]] = l]
    BY <1>1 DEF Fill, StoreProject
  <2> QED
    BY <2>1, <2>2, <2>3
<1>2. CASE ~\E d \in Connection : Fill(d) \/ StoreProject(d)
  BY <1>2 DEF BrokerNext, Step, Connect, Acquire, BuildClient, FailConnect,
                AbandonConnect, Over, ConnectInProcess, Look, Adopt, SetProject,
                Reread, ShutDown, EndShutDown, DropClone, HandOut, Publish, EnsureOpen, Queue, EndCall,
                DropPublishers, cellVars, lifecycleVars
<1> QED
  BY <1>1, <1>2

\* A connection that is closed is the one in its broker's cell.
ClosedOnce == \A c \in Connection : Service(c) \in closed => cell[BrokerOf[c]] = Service(c)

LEMMA ClosedStays == BrokerInv /\ ClosedOnce /\ [BrokerNext]_lifecycleVars => ClosedOnce'
<1> SUFFICES ASSUME BrokerInv, ClosedOnce, [BrokerNext]_lifecycleVars,
                    NEW c \in Connection, Service(c) \in closed'
             PROVE  cell'[BrokerOf[c]] = Service(c)
  BY DEF ClosedOnce
<1>1. cell[BrokerOf[c]] = Service(c)
  <2>1. CASE Service(c) \in closed
    BY <2>1 DEF ClosedOnce
  <2>2. ASSUME NEW d \in Connection, ShutDown(d), Service(c) = link[d]
        PROVE  cell[BrokerOf[c]] = Service(c)
    <3>1. link[d].kind = "service" /\ link[d].by = c
      BY <2>2 DEF Service
    <3>2. cell[BrokerOf[d]] = Service(c) /\ Service(c) # None
      BY <2>2, <3>1 DEF ShutDown, BrokerInv, FormsShareIt
    <3>3. BrokerOf[c] = BrokerOf[d]
      <4>1. cell[BrokerOf[d]].by = c
        BY <3>2 DEF Service
      <4> QED
        BY <3>2, <4>1, BrokerAssumption DEF BrokerInv, CellIsIt
    <3> QED
      BY <3>2, <3>3
  <2> QED
    BY <2>1, <2>2, ClosedGrows DEF ShutDown
<1>2. Service(c) # None
  BY NoLinkAssumption DEF Service, Link
<1> QED
  BY <1>1, <1>2, FilledStays, BrokerAssumption

\* A broker uses the registry of runtimes only as the registry allows: a
\* connection registers once, and its registration is dropped once.
THEOREM BrokerUsesRegistry == BrokerSpec => Spec
<1>1. BrokerInit => Init /\ SlotInv /\ BrokerInv
  BY SlotInit, InitBroker DEF BrokerInit
<1>2. SlotInv /\ BrokerInv /\ [BrokerNext]_lifecycleVars => (SlotInv /\ BrokerInv)' /\ [Next]_vars
  BY BrokerStep, SlotStep
<1> QED
  BY <1>1, <1>2, PTL DEF BrokerSpec, Spec

LEMMA BrokerInvariant == BrokerSpec => [](SlotInv /\ BrokerInv)
<1>1. BrokerInit => SlotInv /\ BrokerInv
  BY SlotInit, InitBroker DEF BrokerInit
<1>2. SlotInv /\ BrokerInv /\ [BrokerNext]_lifecycleVars => (SlotInv /\ BrokerInv)'
  BY BrokerStep, SlotStep
<1> QED
  BY <1>1, <1>2, PTL DEF BrokerSpec

\* Whatever clones connect, fail, are dropped or shut down, the state keeps its types.
THEOREM LifecycleTypes == BrokerSpec => []LifecycleTypeOK
<1>1. SlotInv /\ BrokerInv => LifecycleTypeOK
  BY DEF SlotInv, BrokerInv, BrokerTypes, LifecycleTypeOK
<1> QED
  BY <1>1, BrokerInvariant, PTL

\* However many clones of a broker connect at once, one connection is made.
THEOREM BrokerConnectsOnce == BrokerSpec => []OneConnection
<1>1. BrokerInv => OneConnection
  <2> SUFFICES ASSUME BrokerInv PROVE OneConnection
    OBVIOUS
  <2>1. ASSUME NEW c \in Connection, NEW d \in Connection,
               life[c] # "unmade", life[d] # "unmade", BrokerOf[c] = BrokerOf[d]
        PROVE  c = d
    <3>1. Service(c) = Service(d)
      BY <2>1 DEF BrokerInv, CellIsIt
    <3>2. Service(c).by = c /\ Service(d).by = d
      BY DEF Service
    <3> QED
      BY <3>1, <3>2
  <2>2. ASSUME NEW c \in Connection, stage[c] = "connected", link[c].kind = "service"
        PROVE  link[c] = cell[BrokerOf[c]]
    BY <2>2 DEF BrokerInv, FormsShareIt
  <2> QED
    BY <2>1, <2>2 DEF OneConnection
<1> QED
  BY <1>1, BrokerInvariant, PTL

\* A registration lasts as long as anything holds the cell, and no longer.
THEOREM RegistrationLasts == BrokerSpec => []RegisteredWhileHeld
<1>1. SlotInv /\ BrokerInv => RegisteredWhileHeld
  <2> SUFFICES ASSUME SlotInv, BrokerInv, NEW b \in Broker, cell[b] # None,
                      cell[b].kind = "service"
               PROVE  RuntimeAt(slotOf[cell[b].by]) = IF Held(b) THEN at[cell[b].by] ELSE None
    BY DEF RegisteredWhileHeld
  <2> DEFINE c == cell[b].by
  <2>1. c \in Connection /\ BrokerOf[c] = b /\ cell[b] = Service(c)
    BY DEF BrokerInv, BrokerTypes, CellIsIt, Link, Service
  <2>2. life[c] # "unmade" /\ on[c] = at[c]
    BY <2>1 DEF BrokerInv, CellIsIt
  <2>3. life[c] = "live" <=> Held(b)
    BY <2>1, <2>2 DEF BrokerInv, HeldIsLive
  <2>4. slotOf[c] # None
    BY <2>1, <2>2 DEF SlotInv, SlotsOwned
  <2>5. RuntimeAt(slotOf[c]) = IF life[c] = "live" THEN on[c] ELSE None
    BY <2>1, <2>4, SlotsAnswer DEF OwnRuntimeOnly
  <2> QED
    BY <2>2, <2>3, <2>5
<1> QED
  BY <1>1, BrokerInvariant, PTL

\* A delivery of a broker's connection finds the runtime that was registered for
\* it, or nothing: never one of another broker's.
THEOREM BrokerFindsOwnRuntime == BrokerSpec => []OwnRuntimeOnly
  BY BrokerUsesRegistry, RuntimeIsOwn, PTL

\* The registry does not grow with the brokers that come and go.
THEOREM BrokersShareSlots == BrokerSpec => []SlotsAccounted
  BY BrokerUsesRegistry, RegistryStaysSmall, PTL

\* A publish speaks over what the cell held when it was called, which stays there;
\* one called on a closed connection did not get past its check, and one called on
\* an open connection that was refused found it closed.
CallsRight ==
    \A t \in Task :
        LET b == HandleOf[t]
        IN /\ call[t].pc \in {"called", "open", "sent"} => call[t].link = cell[b] /\ cell[b] # None
           /\ call[t].began = "closed" => cell[b] \in closed /\ call[t].pc \in {"called", "refused"}
           /\ call[t].began = "open" /\ call[t].pc = "refused" => cell[b] \in closed

LEMMA CallsStart == BrokerInit => CallsRight
  BY DEF BrokerInit, CallsRight, NoCall

LEMMA CallsStay ==
  BrokerInv /\ ClosedOnce /\ CallsRight /\ [BrokerNext]_lifecycleVars => CallsRight'
<1> SUFFICES ASSUME BrokerInv, ClosedOnce, CallsRight, [BrokerNext]_lifecycleVars, NEW t \in Task
             PROVE  LET b == HandleOf[t]
                    IN /\ call'[t].pc \in {"called", "open", "sent"}
                            => call'[t].link = cell'[b] /\ cell'[b] # None
                       /\ call'[t].began = "closed"
                            => cell'[b] \in closed' /\ call'[t].pc \in {"called", "refused"}
                       /\ call'[t].began = "open" /\ call'[t].pc = "refused" => cell'[b] \in closed'
  BY DEF CallsRight
<1> DEFINE b == HandleOf[t]
<1>1. b \in Broker /\ cell[b] \in Link \cup {None} /\ call \in [Task -> Call] /\ closed \subseteq Link
  BY BrokerAssumption DEF BrokerInv, BrokerTypes
<1>2. cell[b] # None => cell'[b] = cell[b]
  BY <1>1, FilledStays
<1>3. closed \subseteq closed'
  BY ClosedGrows DEF ShutDown
<1>4. None \notin closed
  BY <1>1, NoLinkAssumption
<1>5. CASE call'[t] = call[t]
  BY <1>2, <1>3, <1>4, <1>5 DEF CallsRight
<1>6. CASE Publish(t)
  <2>1. /\ cell' = cell /\ closed' = closed
        /\ call'[t] = [pc |-> IF cell[b] = None THEN "refused" ELSE "called",
                       link |-> cell[b], began |-> Standing(b)]
    BY <1>1, <1>6 DEF Publish, cellVars
  <2>2. Standing(b) = "closed" => cell[b] \in closed
    <3>1. Standing(b) = "closed" => IsShutDown(b)
      BY DEF Standing
    <3>2. ASSUME NEW c \in Clones(b), Service(c) \in closed PROVE cell[b] \in closed
      BY <3>2 DEF ClosedOnce, Clones
    <3> QED
      BY <3>1, <3>2 DEF IsShutDown
  <2>3. Standing(b) = "open" => cell[b] # None
    <3>1. Standing(b) = "open" => \E c \in Clones(b) : stage[c] = "connected" /\ link[c] = cell[b]
      BY DEF Standing
    <3> QED
      BY <3>1 DEF BrokerInv, FormsShareIt, Clones
  <2> QED
    BY <2>1, <2>2, <2>3
<1>7. CASE EnsureOpen(t)
  <2>1. /\ cell' = cell /\ closed' = closed /\ call[t].pc = "called"
        /\ call'[t] = [call[t] EXCEPT !.pc = IF call[t].link \in closed THEN "refused" ELSE "open"]
    BY <1>1, <1>7 DEF EnsureOpen, Goes, cellVars
  <2>2. call[t] \in Call
    BY <1>1
  <2>3. /\ call'[t].pc = IF call[t].link \in closed THEN "refused" ELSE "open"
        /\ call'[t].link = call[t].link /\ call'[t].began = call[t].began
    BY <2>1, <2>2 DEF Call
  <2> QED
    BY <2>1, <2>3 DEF CallsRight
<1>8. CASE Queue(t)
  <2>1. /\ cell' = cell /\ closed' = closed /\ call[t].pc = "open"
        /\ call'[t] = [call[t] EXCEPT !.pc = "sent"] /\ call[t] \in Call
    BY <1>1, <1>8 DEF Queue, Goes, cellVars
  <2>2. call'[t].pc = "sent" /\ call'[t].link = call[t].link /\ call'[t].began = call[t].began
    BY <2>1 DEF Call
  <2> QED
    BY <2>1, <2>2 DEF CallsRight
<1>9. CASE EndCall(t)
  <2>1. call'[t] = NoCall
    BY <1>1, <1>9 DEF EndCall
  <2> QED
    BY <2>1 DEF NoCall
<1>10. CASE ~(Publish(t) \/ EnsureOpen(t) \/ Queue(t) \/ EndCall(t))
  <2>1. ASSUME NEW u \in Task, Publish(u) \/ EnsureOpen(u) \/ Queue(u) \/ EndCall(u)
        PROVE  call'[t] = call[t]
    BY <1>10, <2>1, CallTypes
  <2>2. ASSUME ~\E u \in Task : Publish(u) \/ EnsureOpen(u) \/ Queue(u) \/ EndCall(u)
        PROVE  call'[t] = call[t]
    BY <2>2 DEF BrokerNext, Step, Connect, Acquire, BuildClient, Fill, FailConnect,
                AbandonConnect, Over, ConnectInProcess, Look, Adopt, SetProject, StoreProject,
                Reread, EndShutDown, DropClone, HandOut, ShutDown,
                DropPublishers, handleVars, lifecycleVars
  <2> QED
    BY <1>5, <2>1, <2>2
<1> QED
  BY <1>6, <1>7, <1>8, <1>9, <1>10

\* Publishers are usable until the shutdown and not afterwards: a publish called
\* once any form shut the connection down never goes out, and one called while a
\* form was connected is refused only where a shutdown came between.
THEOREM PublishersUsable == BrokerSpec => []UsableUntilShutdown
<1>1. BrokerInit => ClosedOnce /\ CallsRight
  BY CallsStart DEF BrokerInit, ClosedOnce
<1>2. BrokerInv /\ ClosedOnce /\ CallsRight /\ [BrokerNext]_lifecycleVars
        => (ClosedOnce /\ CallsRight)'
  BY ClosedStays, CallsStay
<1>3. CallsRight => UsableUntilShutdown
  BY DEF CallsRight, UsableUntilShutdown, IsShutDown
<1> QED
  BY <1>1, <1>2, <1>3, BrokerInvariant, PTL DEF BrokerSpec

\* Every form that is connected to the service connected where the connection
\* was made.
ConnectedTogether ==
    \A c \in Connection :
        (stage[c] = "connected" /\ link[c].kind = "service") => at[c] = at[link[c].by]

\* Where the delayed rejections of a form run: on the runtime of whoever made the
\* connection.  So they run where the form connected, as the comment on
\* ConnectedPubSubBroker.runtime has it, exactly as long as every form did
\* connect there.
THEOREM DelaysRunWhereMade == BrokerSpec => [](DelaysRunWhereConnected <=> ConnectedTogether)
<1>1. ASSUME BrokerInv, RegisteredWhileHeld
      PROVE  DelaysRunWhereConnected <=> ConnectedTogether
  <2>1. ASSUME NEW c \in Connection, stage[c] = "connected", link[c].kind = "service"
        PROVE  RuntimeAt(slotOf[link[c].by]) = at[link[c].by]
    <3> DEFINE b == BrokerOf[c]
    <3>1. b \in Broker /\ c \in Clones(b)
      BY BrokerAssumption DEF Clones
    <3>2. link[c] # None /\ link[c] = cell[b]
      BY <1>1, <2>1 DEF BrokerInv, FormsShareIt
    <3>3. Held(b)
      BY <2>1, <3>1 DEF Held, HoldsCell
    <3>4. RuntimeAt(slotOf[cell[b].by]) = at[cell[b].by]
      BY <1>1, <2>1, <3>1, <3>2, <3>3 DEF RegisteredWhileHeld
    <3>5. QED
      BY <3>2, <3>4
  <2>2. QED
    BY <2>1 DEF DelaysRunWhereConnected, ConnectedTogether
<1>2. BrokerInv /\ RegisteredWhileHeld => (DelaysRunWhereConnected <=> ConnectedTogether)
  BY <1>1
<1> QED
  BY <1>2, BrokerInvariant, RegistrationLasts, PTL
=============================================================================
