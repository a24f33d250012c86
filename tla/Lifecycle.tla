------------------------------- MODULE Lifecycle -------------------------------
(***************************************************************************)
(* A broker from `new` to the last handle on it (broker.rs, the OnceCell   *)
(* of publisher.rs), over the registry of runtimes: the clones of a broker *)
(* share one cell, which the first connect to finish fills, with the       *)
(* service's clients or with an in-process project.                        *)
(*                                                                         *)
(* A member of Connection is a clone of a PubSubBroker, and names the      *)
(* connection or the project its own connect makes, if it makes one.       *)
(***************************************************************************)
EXTENDS RuntimeSlots

CONSTANTS
    Broker,    \* the calls of PubSubBroker::new, each with a cell of its own
    BrokerOf,  \* the broker each clone is a clone of
    CallsOn,   \* the runtimes each of them may connect on
    Clients,   \* how many clients connect builds, one await each (four)
    Task,      \* the tasks that publish
    HandleOf   \* the broker of the handle each of them publishes through

ASSUME BrokerAssumption ==
    /\ BrokerOf \in [Connection -> Broker]
    /\ HandleOf \in [Task -> Broker]
    /\ CallsOn \in [Connection -> SUBSET Runtime]
    /\ Clients \in Nat

\* What a cell holds: the kind of transport and the clone whose connect made it.
Link == [kind : {"service", "project"}, by : Connection]
Service(c) == [kind |-> "service", by |-> c]
Project(c) == [kind |-> "project", by |-> c]

ASSUME NoLinkAssumption == None \notin Link /\ None \notin Connection

VARIABLES
    cell,      \* the OnceCell of each broker
    permit,    \* the call that is filling it: OnceCell's one permit
    stage,     \* where each clone is, from the clone itself to its end
    built,     \* how many clients its connect has built
    at,        \* the runtime its connect was called on
    link,      \* what its connected form speaks over
    handed,    \* whether a publisher of the broker is out, which holds the cell
    call,      \* the publish each task is in
    closed     \* the links a shutdown closed

cellVars == <<cell, permit>>
callVars == <<stage, built, at, link>>
handleVars == <<handed, call, closed>>
lifecycleVars == <<vars, cellVars, callVars, handleVars>>

Stage == {"clone", "asking", "building", "looking", "making", "storing", "made",
          "connected", "closing", "over"}

\* began: how the broker stood when the publish was called.
Call == [pc : {"idle", "called", "open", "sent", "refused"},
         link : Link \cup {None}, began : {"unconnected", "open", "closed"}]
NoCall == [pc |-> "idle", link |-> None, began |-> "unconnected"]

Clones(b) == {c \in Connection : BrokerOf[c] = b}

\* Everything that holds the cell, and with it the connection in it.
HoldsCell(c) == stage[c] # "over"
Held(b) ==
    \/ handed[b]
    \/ \E t \in Task : HandleOf[t] = b /\ call[t].pc # "idle"
    \/ \E c \in Clones(b) : HoldsCell(c)

--------------------------------------------------------------------------------
BrokerInit ==
    /\ Init
    /\ cell = [b \in Broker |-> None]
    /\ permit = [b \in Broker |-> None]
    /\ stage = [c \in Connection |-> "clone"]
    /\ built = [c \in Connection |-> 0]
    /\ at = [c \in Connection |-> None]
    /\ link = [c \in Connection |-> None]
    /\ handed = [b \in Broker |-> FALSE]
    /\ call = [t \in Task |-> NoCall]
    /\ closed = {}

To(c, s) == stage' = [stage EXCEPT ![c] = s]

\* Variant: the registration belongs to the form that connected first.
LetGoEarly(b) ==
    IF cell[b] # None /\ cell[b].kind = "service" /\ life[cell[b].by] = "live"
       /\ ~HoldsCell(cell[b].by)'
    THEN Drop(cell[b].by)
    ELSE UNCHANGED vars

\* What dropping one holder of b's cell does to the registry: the last one takes
\* the connection with it, and its registration.
LetGo(b) ==
    IF Held(b) /\ ~Held(b)' /\ cell[b] # None /\ cell[b].kind = "service"
    THEN Drop(cell[b].by)
    ELSE UNCHANGED vars

Connected(c, l) ==
    /\ link' = [link EXCEPT ![c] = l]
    /\ To(c, "connected")

\* PubSubBroker::publisher and ConnectedPubSubBroker::publisher: both ride the cell.
HandOut(b) ==
    /\ \E c \in Clones(b) : stage[c] \in {"clone", "connected"}
    /\ handed' = [handed EXCEPT ![b] = TRUE]
    /\ UNCHANGED <<vars, cellVars, callVars, call, closed>>

--------------------------------------------------------------------------------
\* connect is called, on runtime r.
Connect(c, r) ==
    /\ stage[c] = "clone"
    /\ at' = [at EXCEPT ![c] = r]
    /\ To(c, "asking")
    /\ UNCHANGED <<vars, cellVars, built, link, handleVars>>

\* Variant: whoever finds the cell empty builds, permit or not.
AcquireUnguarded(c) ==
    LET b == BrokerOf[c]
    IN /\ stage[c] = "asking"
       /\ IF cell[b] # None
          THEN Connected(c, cell[b]) /\ UNCHANGED permit
          ELSE /\ permit' = [permit EXCEPT ![b] = c]
               /\ To(c, "building")
               /\ UNCHANGED link
       /\ UNCHANGED <<vars, cell, built, at, handleVars>>

\* Variant: a connect that finds the cell's link closed connects anew.
AcquireAgain(c) ==
    LET b == BrokerOf[c]
    IN /\ stage[c] = "asking"
       /\ IF cell[b] # None /\ cell[b] \notin closed
          THEN Connected(c, cell[b]) /\ UNCHANGED permit
          ELSE /\ permit[b] = None
               /\ permit' = [permit EXCEPT ![b] = c]
               /\ To(c, "building")
               /\ UNCHANGED link
       /\ UNCHANGED <<vars, cell, built, at, handleVars>>

\* get_or_try_init: the cell's link, closed or not, once it is filled; until then
\* the permit, which one call at a time holds.
Acquire(c) ==
    LET b == BrokerOf[c]
    IN /\ stage[c] = "asking"
       /\ IF cell[b] # None
          THEN Connected(c, cell[b]) /\ UNCHANGED permit
          ELSE /\ permit[b] = None
               /\ permit' = [permit EXCEPT ![b] = c]
               /\ To(c, "building")
               /\ UNCHANGED link
       /\ UNCHANGED <<vars, cell, built, at, handleVars>>

\* build_client!: one client is built.
BuildClient(c) ==
    /\ stage[c] = "building"
    /\ built[c] < Clients
    /\ built' = [built EXCEPT ![c] = @ + 1]
    /\ UNCHANGED <<vars, cellVars, stage, at, link, handleVars>>

\* The clients are there: the caller's runtime is registered, and the connection
\* fills the cell.
Fill(c) ==
    LET b == BrokerOf[c]
    IN /\ stage[c] = "building"
       /\ built[c] = Clients
       /\ Reuse(c, at[c]) \/ Grow(c, at[c])
       /\ cell' = [cell EXCEPT ![b] = Service(c)]
       /\ permit' = [permit EXCEPT ![b] = None]
       /\ Connected(c, Service(c))
       /\ UNCHANGED <<built, at, handleVars>>

Release(c) == permit' = [b \in Broker |-> IF permit[b] = c THEN None ELSE permit[b]]

\* What the call or the form held goes with it.
Forget(c) == built' = [built EXCEPT ![c] = 0] /\ link' = [link EXCEPT ![c] = None]

\* Variant: the permit of a connect that ends is not given back.
OverHolding(c) ==
    /\ To(c, "over")
    /\ Forget(c)
    /\ UNCHANGED permit
    /\ UNCHANGED <<cell, at, handleVars>>
    /\ LetGo(BrokerOf[c])

\* A call or a form ends: its permit, if it holds one, and its hold on the cell go.
Over(c) ==
    /\ To(c, "over")
    /\ Forget(c)
    /\ Release(c)
    /\ UNCHANGED <<cell, at, handleVars>>
    /\ LetGo(BrokerOf[c])

\* A client cannot be built: connect returns PubSubError::Connect.
FailConnect(c) ==
    /\ stage[c] = "building"
    /\ built[c] < Clients
    /\ Over(c)

\* The future of connect is dropped while it waits, by a timeout or a select.
AbandonConnect(c) ==
    /\ stage[c] \in {"asking", "building"}
    /\ Over(c)

--------------------------------------------------------------------------------
\* connect_in_process speaks over the link it finds, but never over the service.
Adopt(c, l) ==
    IF l.kind = "service"
    THEN Over(c)
    ELSE /\ Connected(c, l)
         /\ UNCHANGED <<vars, cellVars, built, at, handleVars>>

\* connect_in_process is called, on runtime r.
ConnectInProcess(c, r) ==
    /\ stage[c] = "clone"
    /\ at' = [at EXCEPT ![c] = r]
    /\ To(c, "looking")
    /\ UNCHANGED <<vars, cellVars, built, link, handleVars>>

\* The first cell.get().
Look(c) ==
    LET b == BrokerOf[c]
    IN /\ stage[c] = "looking"
       /\ IF cell[b] # None
          THEN Adopt(c, cell[b])
          ELSE To(c, "making") /\ UNCHANGED <<vars, cellVars, built, at, link, handleVars>>

\* cell.set(project): refused, and the refusal ignored, where the cell is filled
\* or somebody is filling it.
SetProject(c) ==
    LET b == BrokerOf[c]
    IN /\ stage[c] = "making"
       /\ IF cell[b] = None /\ permit[b] = None
          THEN permit' = [permit EXCEPT ![b] = c] /\ To(c, "storing")
          ELSE UNCHANGED permit /\ To(c, "made")
       /\ UNCHANGED <<vars, cell, built, at, link, handleVars>>

StoreProject(c) ==
    LET b == BrokerOf[c]
    IN /\ stage[c] = "storing"
       /\ cell' = [cell EXCEPT ![b] = Project(c)]
       /\ permit' = [permit EXCEPT ![b] = None]
       /\ To(c, "made")
       /\ UNCHANGED <<vars, built, at, link, handleVars>>

\* The second cell.get(), and the project of its own where it finds nothing.
Reread(c) ==
    LET b == BrokerOf[c]
    IN /\ stage[c] = "made"
       /\ Adopt(c, IF cell[b] # None THEN cell[b] ELSE Project(c))

--------------------------------------------------------------------------------
\* Whether what the handles of b speak over was shut down.
IsShutDown(b) == cell[b] \in closed \/ \E c \in Clones(b) : Service(c) \in closed

Standing(b) ==
    CASE IsShutDown(b) -> "closed"
      [] ~IsShutDown(b) /\ \E c \in Clones(b) : stage[c] = "connected" /\ link[c] = cell[b] -> "open"
      [] OTHER -> "unconnected"

\* PubSubPublisher::publish is called in a task, and reads the cell first: NotConnected
\* where that is empty.  It has no await before the message is queued, but other
\* threads run between its steps.
Publish(t) ==
    LET b == HandleOf[t]
    IN /\ handed[b] /\ call[t].pc = "idle"
       /\ call' = [call EXCEPT ![t] = [pc |-> IF cell[b] = None THEN "refused" ELSE "called",
                                      link |-> cell[b], began |-> Standing(b)]]
       /\ UNCHANGED <<vars, cellVars, callVars, handed, closed>>

Goes(t, pc) == call' = [call EXCEPT ![t].pc = pc]

\* ensure_open, of the connection or of the project: NotConnected once it is closed.
EnsureOpen(t) ==
    /\ call[t].pc = "called"
    /\ Goes(t, IF call[t].link \in closed THEN "refused" ELSE "open")
    /\ UNCHANGED <<vars, cellVars, callVars, handed, closed>>

\* The message is queued on the topic's client publisher, whose worker starts on
\* the connection's runtime, or routed in process: closed meanwhile or not.
Queue(t) ==
    /\ call[t].pc = "open"
    /\ Goes(t, "sent")
    /\ UNCHANGED <<vars, cellVars, callVars, handed, closed>>

\* The publish answers, or its future is dropped at its await, and the task's hold goes.
EndCall(t) ==
    /\ call[t].pc \in {"sent", "refused"}
    /\ call' = [call EXCEPT ![t] = NoCall]
    /\ UNCHANGED <<cellVars, callVars, handed, closed>>
    /\ LetGo(HandleOf[t])

--------------------------------------------------------------------------------
\* ConnectedPubSubBroker::shutdown closes what this form speaks over.
ShutDown(c) ==
    /\ stage[c] = "connected"
    /\ closed' = closed \cup {link[c]}
    /\ To(c, "closing")
    /\ UNCHANGED <<vars, cellVars, built, at, link, handed, call>>

\* The publishers are flushed, or the shutdown's future is dropped: the form goes.
EndShutDown(c) ==
    /\ stage[c] = "closing"
    /\ Over(c)

\* A clone, a connected form or the publishers are dropped.
DropClone(c) ==
    /\ stage[c] \in {"clone", "connected"}
    /\ Over(c)

DropPublishers(b) ==
    /\ handed[b]
    /\ handed' = [handed EXCEPT ![b] = FALSE]
    /\ UNCHANGED <<cellVars, callVars, call, closed>>
    /\ LetGo(b)

--------------------------------------------------------------------------------
\* The steps a running call takes by itself.
Step(c) ==
    \/ Acquire(c) \/ BuildClient(c) \/ Fill(c) \/ FailConnect(c)
    \/ Look(c) \/ SetProject(c) \/ StoreProject(c) \/ Reread(c)

BrokerNext ==
    \/ \E c \in Connection :
         \/ \E r \in CallsOn[c] : Connect(c, r) \/ ConnectInProcess(c, r)
         \/ Step(c)
         \/ AbandonConnect(c) \/ ShutDown(c) \/ EndShutDown(c) \/ DropClone(c)
    \/ \E b \in Broker : HandOut(b) \/ DropPublishers(b)
    \/ \E t \in Task : Publish(t) \/ EnsureOpen(t) \/ Queue(t) \/ EndCall(t)

BrokerSpec == BrokerInit /\ [][BrokerNext]_lifecycleVars

\* tokio polls a future that is ready, and a client that is being built is built
\* or refused in the end.
FairBrokerSpec == BrokerSpec /\ \A c \in Connection : WF_lifecycleVars(Step(c))

--------------------------------------------------------------------------------
\* Types only.
LifecycleTypeOK ==
    /\ TypeOK
    /\ cell \in [Broker -> Link \cup {None}]
    /\ permit \in [Broker -> Connection \cup {None}]
    /\ stage \in [Connection -> Stage]
    /\ built \in [Connection -> 0..Clients]
    /\ at \in [Connection -> Runtime \cup {None}]
    /\ link \in [Connection -> Link \cup {None}]
    /\ handed \in [Broker -> BOOLEAN]
    /\ call \in [Task -> Call]
    /\ closed \subseteq Link

\* However many clones connect at once, fail or are dropped half way, a broker
\* makes one connection to the service, and every form connected to the service
\* speaks over that one (the OnceCell of PubSubBroker).
OneConnection ==
    /\ \A c, d \in Connection :
         life[c] # "unmade" /\ life[d] # "unmade" /\ BrokerOf[c] = BrokerOf[d] => c = d
    /\ \A c \in Connection :
         stage[c] = "connected" /\ link[c].kind = "service" => link[c] = cell[BrokerOf[c]]

\* The registration of a connection lasts as long as anything holds the cell, not
\* as long as the form that connected first: a delivery of a held connection finds
\* the runtime the connection was made on (runtime_slot.rs), and so does a client
\* publisher that is started then, also by a publish that passed its check before
\* the last form was shut down.  Once nothing holds it, the slot is free.
RegisteredWhileHeld ==
    \A b \in Broker :
        (cell[b] # None /\ cell[b].kind = "service") =>
            RuntimeAt(slotOf[cell[b].by]) = IF Held(b) THEN at[cell[b].by] ELSE None

\* "Buildable before `connect` and usable until `shutdown`; afterwards every publish
\* reports NotConnected" (PubSubPublisher, publisher.rs:125).  A publish called once
\* the connection was shut down by any form never goes out, not even where a clone
\* connects later; one called while a form was connected, whichever clone that
\* was, is refused only if a shutdown came first.  A publish that was called
\* before the shutdown may go out after it (ShutdownFlushesAll of Publishing).
UsableUntilShutdown ==
    \A t \in Task :
        /\ call[t].began = "closed" => call[t].pc # "sent"
        /\ call[t].began = "open" /\ call[t].pc = "refused" => IsShutDown(HandleOf[t])

\* A connect returns: one that waits for another's permit gets it when that one
\* fails or is dropped half way.
ConnectReturns ==
    \A c \in Connection :
        stage[c] \in {"asking", "building", "looking", "making", "storing", "made"}
            ~> stage[c] \in {"connected", "closing", "over"}

\* "The runtime `connect` ran on.  Every task the broker starts runs here: [...] a
\* delayed rejection" (ConnectedPubSubBroker.runtime): the deliveries of a form
\* find the runtime that form connected on.
DelaysRunWhereConnected ==
    \A c \in Connection :
        (stage[c] = "connected" /\ link[c].kind = "service") =>
            RuntimeAt(slotOf[link[c].by]) = at[c]
================================================================================
