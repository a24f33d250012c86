------------------------------ MODULE Publishing ------------------------------
(***************************************************************************)
(* Publishing to the service over one connection, and its shutdown:        *)
(* PubSubPublisher::publish (publisher.rs), the client publisher each      *)
(* topic has (topic_publishers.rs), Core::ensure_open and Core::shutdown   *)
(* (broker.rs), and the client library's publishers as the code uses them. *)
(*                                                                         *)
(* A Worker is a task in a publish.  Everything up to the one await in it  *)
(* is synchronous but runs beside the other workers', so each access to    *)
(* what they share is a step.  A message is numbered as it is queued.      *)
(***************************************************************************)
EXTENDS Integers, Sequences, FiniteSets

CONSTANTS
    Name,          \* the spellings of topics that publishes use
    Topic,         \* the topics
    TopicOf,       \* topic_key: the topic a spelling names
    Key,           \* the ordering keys
    Handle,        \* the publisher handles that are not clones of each other
    Worker,        \* the tasks that publish
    Abandonable,   \* the workers whose publish future may be dropped
    MaxPublishes,  \* bound: how many publishes there are
    None           \* no topic, no key, no client publisher, no worker

ASSUME NameAssumption == TopicOf \in [Name -> Topic]
ASSUME WorkerAssumption == IsFiniteSet(Worker) /\ Abandonable \subseteq Worker
ASSUME BoundAssumption == MaxPublishes \in Nat
ASSUME NoneAssumption == None \notin Topic \cup Name \cup Key \cup Handle \cup Worker \cup Nat
ASSUME AnswerAssumption == None \notin {"ok", "failed", "refused"}

Client == Nat \ {0}
Message == Nat \ {0}

VARIABLES
    closed,     \* Core::closed
    clients,    \* the client publishers built: topic, queue and paused keys of each
    byTopic,    \* TopicPublishers::by_topic, as clients of topics
    adding,     \* the worker that holds TopicPublishers::adding
    first,      \* FirstTopic of each handle: a spelling and a client
    job,        \* where each worker is in its publish
    messages,   \* the messages queued so far: client, key and the answer
    accepted,   \* the messages the service took, in the order it took them
    stage,      \* shutdown: running, closing, flushing, done
    unflushed,  \* the clients shutdown has still to flush
    flushing,   \* the client it waits for
    queuedOpen, \* history: the messages queued before the connection closed
    alone       \* history: those queued beside no other publish under their key

shutdownVars == <<closed, stage, unflushed, flushing>>
lookupVars == <<byTopic, adding, first>>
historyVars == <<queuedOpen, alone>>
vars == <<shutdownVars, lookupVars, historyVars, clients, job, messages, accepted>>

PC == {"idle", "find", "load", "lock", "build", "remember", "use", "await"}

Job == [pc : PC, does : {"publish", "resume"}, handle : Handle \cup {None}, name : Name \cup {None},
        key : Key \cup {None}, client : Client \cup {None}, message : Message \cup {None}]

Idle == [pc |-> "idle", does |-> "publish", handle |-> None, name |-> None,
         key |-> None, client |-> None, message |-> None]

Command == [does : {"publish", "resume"}, key : Key \cup {None}, message : Message]
           \cup [does : {"flush"}, key : {None}, message : {None}]

Init ==
    /\ closed = FALSE
    /\ clients = <<>>
    /\ byTopic = [t \in Topic |-> None]
    /\ adding = None
    /\ first = [h \in Handle |-> None]
    /\ job = [w \in Worker |-> Idle]
    /\ messages = <<>>
    /\ accepted = <<>>
    /\ stage = "running"
    /\ unflushed = {}
    /\ flushing = None
    /\ queuedOpen = {}
    /\ alone = {}

--------------------------------------------------------------------------------
\* The publishes begun whose message is not queued yet.
Starting == {w \in Worker : job[w].does = "publish" /\ job[w].pc \notin {"idle", "await"}}

\* PubSubPublisher::publish up to the client publisher: the connection is found
\* open once, here.
Publish(w, h, n, k) ==
    /\ job[w].pc = "idle"
    /\ ~closed
    /\ Len(messages) + Cardinality(Starting) < MaxPublishes
    /\ job' = [job EXCEPT ![w] = [Idle EXCEPT !.pc = "find", !.handle = h, !.name = n, !.key = k]]
    /\ UNCHANGED <<shutdownVars, lookupVars, clients, messages, accepted, historyVars>>

\* Variant: any topic the handle remembers will do.
FindAny(w) ==
    /\ job[w].pc = "find"
    /\ LET kept == first[job[w].handle]
       IN job' = [job EXCEPT ![w] =
                    IF kept # None THEN [@ EXCEPT !.pc = "use", !.client = kept.client]
                                   ELSE [@ EXCEPT !.pc = "load"]]
    /\ UNCHANGED <<shutdownVars, lookupVars, clients, messages, accepted, historyVars>>

\* FirstTopic::get: the handle's own client publisher, for the spelling it kept.
Find(w) ==
    /\ job[w].pc = "find"
    /\ LET kept == first[job[w].handle]
       IN job' = [job EXCEPT ![w] =
                    IF kept # None /\ kept.name = job[w].name
                    THEN [@ EXCEPT !.pc = "use", !.client = kept.client]
                    ELSE [@ EXCEPT !.pc = "load"]]
    /\ UNCHANGED <<shutdownVars, lookupVars, clients, messages, accepted, historyVars>>

\* Variant: a miss in the snapshot is taken for a hit.
LoadUnchecked(w) ==
    /\ job[w].pc = "load"
    /\ job' = [job EXCEPT ![w] = [@ EXCEPT !.pc = "remember",
                                            !.client = byTopic[TopicOf[job[w].name]]]]
    /\ UNCHANGED <<shutdownVars, lookupVars, clients, messages, accepted, historyVars>>

\* TopicPublishers::with, from the snapshot of the map.
Load(w) ==
    /\ job[w].pc = "load"
    /\ LET client == byTopic[TopicOf[job[w].name]]
       IN job' = [job EXCEPT ![w] =
                    IF client # None THEN [@ EXCEPT !.pc = "remember", !.client = client]
                                     ELSE [@ EXCEPT !.pc = "lock"]]
    /\ UNCHANGED <<shutdownVars, lookupVars, clients, messages, accepted, historyVars>>

\* Variant: the map is not read again under the lock.
LockUnread(w) ==
    /\ job[w].pc = "lock"
    /\ adding = None
    /\ adding' = w
    /\ job' = [job EXCEPT ![w].pc = "build"]
    /\ UNCHANGED <<shutdownVars, byTopic, first, clients, messages, accepted, historyVars>>

\* The adding mutex, and the map read again under it.
Lock(w) ==
    /\ job[w].pc = "lock"
    /\ adding = None
    /\ adding' = w
    /\ LET client == byTopic[TopicOf[job[w].name]]
       IN job' = [job EXCEPT ![w] =
                    IF client # None THEN [@ EXCEPT !.pc = "remember", !.client = client]
                                     ELSE [@ EXCEPT !.pc = "build"]]
    /\ UNCHANGED <<shutdownVars, byTopic, first, clients, messages, accepted, historyVars>>

\* Variant: the client publisher is used without being put in the map.
BuildUnstored(w) ==
    /\ job[w].pc = "build"
    /\ clients' = Append(clients, [topic |-> TopicOf[job[w].name], queue |-> <<>>, paused |-> {}])
    /\ job' = [job EXCEPT ![w] = [@ EXCEPT !.pc = "remember", !.client = Len(clients) + 1]]
    /\ UNCHANGED <<shutdownVars, lookupVars, messages, accepted, historyVars>>

\* The client publisher of the topic is built and the map with it stored.
Build(w) ==
    /\ job[w].pc = "build"
    /\ LET t == TopicOf[job[w].name]
           client == Len(clients) + 1
       IN /\ clients' = Append(clients, [topic |-> t, queue |-> <<>>, paused |-> {}])
          /\ byTopic' = [byTopic EXCEPT ![t] = client]
          /\ job' = [job EXCEPT ![w] = [@ EXCEPT !.pc = "remember", !.client = client]]
    /\ UNCHANGED <<shutdownVars, adding, first, messages, accepted, historyVars>>

\* FirstTopic::remember: the first topic found stays.
Remember(w) ==
    /\ job[w].pc = "remember"
    /\ first' = [first EXCEPT ![job[w].handle] =
                   IF @ = None THEN [name |-> job[w].name, client |-> job[w].client] ELSE @]
    /\ job' = [job EXCEPT ![w].pc = "use"]
    /\ UNCHANGED <<shutdownVars, byTopic, adding, clients, messages, accepted, historyVars>>

\* Whether worker v is in a publish to the topic and under the key of job j.
Beside(v, j) == job[v].pc # "idle" /\ job[v].key = j.key /\ TopicOf[job[v].name] = TopicOf[j.name]

Queue(client, command) == clients' = [clients EXCEPT ![client].queue = Append(@, command)]

\* The message is queued on the client publisher, or its key resumed there.
Enqueue(w) ==
    LET j == job[w]
        message == Len(messages) + 1
    IN \/ /\ j.does = "publish"
          /\ Queue(j.client, [does |-> "publish", key |-> j.key, message |-> message])
          /\ messages' = Append(messages, [client |-> j.client, key |-> j.key, answer |-> None])
          /\ queuedOpen' = IF closed THEN queuedOpen ELSE queuedOpen \cup {message}
          /\ alone' = IF \E v \in Worker \ {w} : Beside(v, j) THEN alone ELSE alone \cup {message}
          /\ job' = [job EXCEPT ![w] = [j EXCEPT !.pc = "await", !.message = message]]
       \/ /\ j.does = "resume"
          /\ Queue(j.client, [does |-> "resume", key |-> j.key, message |-> j.message])
          /\ job' = [job EXCEPT ![w] = Idle]
          /\ UNCHANGED <<messages, historyVars>>

\* Variant: the adding mutex is held across the await.
UseLocked(w) ==
    /\ job[w].pc = "use"
    /\ Enqueue(w)
    /\ UNCHANGED <<shutdownVars, byTopic, adding, first, accepted>>

\* What a lookup found is used in place; the adding mutex, if held, is let go.
Use(w) ==
    /\ job[w].pc = "use"
    /\ adding' = IF adding = w THEN None ELSE adding
    /\ Enqueue(w)
    /\ UNCHANGED <<shutdownVars, byTopic, first, accepted>>

Answered(w) == job[w].pc = "await" /\ messages[job[w].message].answer # None

\* Variant: a failure is returned with its key left paused.
ReturnUnresumed(w) ==
    /\ Answered(w)
    /\ job' = [job EXCEPT ![w] = Idle]
    /\ UNCHANGED <<shutdownVars, lookupVars, clients, messages, accepted, historyVars>>

\* The end of publish: after an error under a key the client publisher is looked
\* up once more, to resume the key.
Return(w) ==
    /\ Answered(w)
    /\ job' = [job EXCEPT ![w] =
                 IF messages[@.message].answer # "ok" /\ @.key # None
                 THEN [@ EXCEPT !.pc = "find", !.does = "resume", !.client = None]
                 ELSE Idle]
    /\ UNCHANGED <<shutdownVars, lookupVars, clients, messages, accepted, historyVars>>

\* The publish future is dropped at its one await, as a timeout or a stopping
\* task does; the message stays queued.
Abandon(w) ==
    /\ w \in Abandonable
    /\ job[w].pc = "await"
    /\ job' = [job EXCEPT ![w] = Idle]
    /\ UNCHANGED <<shutdownVars, lookupVars, clients, messages, accepted, historyVars>>

--------------------------------------------------------------------------------
\* The client library.  A command waits for those before it under the same key;
\* messages without a key wait for nothing; a flush waits for all before it.
Ready(client, i) ==
    LET queue == clients[client].queue
    IN /\ i \in DOMAIN queue
       /\ \/ queue[i].does # "flush" /\ queue[i].key = None
          \/ queue[i].does # "flush" /\ \A k \in 1..(i - 1) : queue[k].key # queue[i].key
          \/ queue[i].does = "flush" /\ i = 1

Without(queue, i) == SubSeq(queue, 1, i - 1) \o SubSeq(queue, i + 1, Len(queue))

\* A command is done with: it leaves the queue, and these keys are paused.
Take(client, i, paused) ==
    clients' = [clients EXCEPT ![client] = [topic |-> @.topic, queue |-> Without(@.queue, i),
                                            paused |-> paused]]

Answer(message, answer) == messages' = [messages EXCEPT ![message].answer = answer]

\* The service takes a message.
Deliver(client, i) ==
    /\ Ready(client, i)
    /\ LET c == clients[client]
           m == c.queue[i]
       IN /\ m.does = "publish"
          /\ m.key \notin c.paused
          /\ accepted' = Append(accepted, m.message)
          /\ Answer(m.message, "ok")
          /\ Take(client, i, c.paused)
    /\ UNCHANGED <<shutdownVars, lookupVars, job, historyVars>>

\* The service refuses it for good: its key, if it has one, is paused.
Fail(client, i) ==
    /\ Ready(client, i)
    /\ LET c == clients[client]
           m == c.queue[i]
       IN /\ m.does = "publish"
          /\ m.key \notin c.paused
          /\ Answer(m.message, "failed")
          /\ Take(client, i, c.paused \cup ({m.key} \ {None}))
    /\ UNCHANGED <<shutdownVars, lookupVars, job, accepted, historyVars>>

\* A message under a paused key is refused by the client itself.
Refuse(client, i) ==
    /\ Ready(client, i)
    /\ LET c == clients[client]
           m == c.queue[i]
       IN /\ m.does = "publish"
          /\ m.key \in c.paused
          /\ Answer(m.message, "refused")
          /\ Take(client, i, c.paused)
    /\ UNCHANGED <<shutdownVars, lookupVars, job, accepted, historyVars>>

\* resume_publish takes effect.
Resume(client, i) ==
    /\ Ready(client, i)
    /\ LET c == clients[client]
       IN /\ c.queue[i].does = "resume"
          /\ Take(client, i, c.paused \ {c.queue[i].key})
    /\ UNCHANGED <<shutdownVars, lookupVars, job, messages, accepted, historyVars>>

Work(client, i) == Deliver(client, i) \/ Fail(client, i) \/ Refuse(client, i) \/ Resume(client, i)

--------------------------------------------------------------------------------
\* Core::shutdown: closed first.
Close ==
    /\ stage = "running"
    /\ closed' = TRUE
    /\ stage' = "closing"
    /\ UNCHANGED <<unflushed, flushing, lookupVars, clients, job, messages, accepted, historyVars>>

\* TopicPublishers::all.
All ==
    /\ stage = "closing"
    /\ unflushed' = {byTopic[t] : t \in Topic} \ {None}
    /\ stage' = "flushing"
    /\ UNCHANGED <<closed, flushing, lookupVars, clients, job, messages, accepted, historyVars>>

\* Variant: the flush is asked for and not awaited.
FlushUnawaited(client) ==
    /\ stage = "flushing"
    /\ flushing = None
    /\ client \in unflushed
    /\ unflushed' = unflushed \ {client}
    /\ Queue(client, [does |-> "flush", key |-> None, message |-> None])
    /\ UNCHANGED <<closed, stage, flushing, lookupVars, job, messages, accepted, historyVars>>

\* flush().await of one client publisher after another, in the map's order.
Flush(client) ==
    /\ stage = "flushing"
    /\ flushing = None
    /\ client \in unflushed
    /\ flushing' = client
    /\ Queue(client, [does |-> "flush", key |-> None, message |-> None])
    /\ UNCHANGED <<closed, stage, unflushed, lookupVars, job, messages, accepted, historyVars>>

\* The client publisher answers the flush.
Flushed(client) ==
    /\ Ready(client, 1)
    /\ clients[client].queue[1].does = "flush"
    /\ Take(client, 1, clients[client].paused)
    /\ unflushed' = unflushed \ {client}
    /\ flushing' = None
    /\ UNCHANGED <<closed, stage, lookupVars, job, messages, accepted, historyVars>>

Done ==
    /\ stage = "flushing"
    /\ unflushed = {}
    /\ stage' = "done"
    /\ UNCHANGED <<closed, unflushed, flushing, lookupVars, clients, job, messages, accepted, historyVars>>

--------------------------------------------------------------------------------
\* The steps of a publish that nothing but the adding mutex and the client's
\* answer can hold up.
Proceed(w) ==
    \/ Find(w) \/ Load(w) \/ Lock(w) \/ Build(w)
    \/ Remember(w) \/ Use(w) \/ Return(w)

Next ==
    \/ \E w \in Worker :
         \/ \E h \in Handle, n \in Name, k \in Key \cup {None} : Publish(w, h, n, k)
         \/ Proceed(w)
         \/ Abandon(w)
    \/ \E client \in DOMAIN clients :
         \/ \E i \in DOMAIN clients[client].queue : Work(client, i)
         \/ Flush(client)
         \/ Flushed(client)
    \/ Close \/ All \/ Done

Spec == Init /\ [][Next]_vars

--------------------------------------------------------------------------------
\* Types only.
TypeOK ==
    /\ closed \in BOOLEAN
    /\ clients \in Seq([topic : Topic, queue : Seq(Command), paused : SUBSET Key])
    /\ byTopic \in [Topic -> Client \cup {None}]
    /\ adding \in Worker \cup {None}
    /\ first \in [Handle -> [name : Name, client : Client] \cup {None}]
    /\ job \in [Worker -> Job]
    /\ messages \in Seq([client : Client, key : Key \cup {None},
                         answer : {None, "ok", "failed", "refused"}])
    /\ accepted \in Seq(Message)
    /\ stage \in {"running", "closing", "flushing", "done"}
    /\ unflushed \subseteq Client
    /\ flushing \in Client \cup {None}
    /\ queuedOpen \subseteq Message
    /\ alone \subseteq Message

\* A topic never has two client publishers, however many first publishes race
\* and however the topic is spelled (the comments on TopicPublishers).
OnePublisherPerTopic ==
    \A c, d \in DOMAIN clients : clients[c].topic = clients[d].topic => c = d

\* What a publish is about to use, and what a handle keeps, is a client publisher
\* of the topic it named; and a key is resumed on the client that paused it.
RightPublisher ==
    /\ \A w \in Worker :
         job[w].client # None =>
            /\ job[w].client \in DOMAIN clients
            /\ clients[job[w].client].topic = TopicOf[job[w].name]
            /\ job[w].does = "resume" => job[w].client = messages[job[w].message].client
    /\ \A h \in Handle :
         first[h] # None =>
            /\ first[h].client \in DOMAIN clients
            /\ clients[first[h].client].topic = TopicOf[first[h].name]

\* Messages to one topic under one key reach the service in the order they were
\* published, whichever handle and spelling each went through.
KeyOrder ==
    \A i, j \in DOMAIN accepted :
        LET m == messages[accepted[i]]
            n == messages[accepted[j]]
        IN (i < j /\ m.key # None /\ m.key = n.key
              /\ clients[m.client].topic = clients[n.client].topic)
           => accepted[i] < accepted[j]

\* A message queued before the connection closed has its answer when shutdown
\* returns ("A message published before the shutdown reaches the topic before the
\* service exits", shutdown.md), the races of first publishes included.
FlushCovers ==
    stage = "done" => \A m \in queuedOpen : messages[m].answer # None

\* A message is refused for a paused key only where another publish under the key
\* was under way when it was queued: "When a keyed publish fails, the crate
\* resumes the key and returns the error, so the next publish under that key is
\* sent" (docs/architecture/pubsub/ordering.md).
NextPublishSent == \A m \in alone : messages[m].answer # "refused"

\* "Shutdown flushes every message the service still buffers" (shutdown.md):
\* nothing is buffered once it returns.
ShutdownFlushesAll == stage = "done" => \A c \in DOMAIN clients : clients[c].queue = <<>>

--------------------------------------------------------------------------------
(***************************************************************************)
(* Fairness: a worker goes on, and the client library works off the queue  *)
(* of each topic's client publisher.                                       *)
(***************************************************************************)
WorkSome(t) == \E c \in DOMAIN clients :
                   /\ clients[c].topic = t
                   /\ (\E i \in DOMAIN clients[c].queue : i = 1 /\ Work(c, i)) \/ Flushed(c)

ShutdownSteps == All \/ Done \/ \E c \in DOMAIN clients : Flush(c)

FairSpec ==
    /\ Spec
    /\ \A w \in Worker : WF_vars(Proceed(w))
    /\ \A t \in Topic : WF_vars(WorkSome(t))
    /\ WF_vars(ShutdownSteps)

\* Every publish that is begun returns, or is dropped, and every shutdown ends,
\* whatever the two do to each other over the adding mutex and the queues.
CallsReturn ==
    /\ \A w \in Worker : job[w].pc # "idle" ~> job[w].pc = "idle"
    /\ stage = "closing" ~> stage = "done"

\* No key stays paused ("so the pause cannot wedge every later publish on this
\* key", publisher.rs) by the error of a publish that is awaited to its end,
\* whatever publishes are abandoned beside it.
Paused(t, k) == \E c \in DOMAIN clients : clients[c].topic = t /\ k \in clients[c].paused
Fails(w) == Answered(w) /\ job[w].key # None /\ messages[job[w].message].answer # "ok"
KeyResumes ==
    \A w \in Worker \ Abandonable, t \in Topic, k \in Key :
        (Fails(w) /\ job[w].key = k /\ TopicOf[job[w].name] = t) ~> ~Paused(t, k)

================================================================================
