--------------------------- MODULE PublishingProofs ---------------------------
(***************************************************************************)
(* For every set of topics, spellings, handles and publishing tasks: a     *)
(* topic has one client publisher and every publish reaches it; messages   *)
(* under one key keep their order; shutdown waits for what was queued      *)
(* before it; and where no publish future is dropped, the next publish     *)
(* under a key that failed is sent.                                        *)
(***************************************************************************)
EXTENDS Publishing, SequenceTheorems, TLAPS

USE NameAssumption, NoneAssumption

ClientRecord == [topic : Topic, queue : Seq(Command), paused : SUBSET Key]
MessageRecord == [client : Client, key : Key \cup {None}, answer : {None, "ok", "failed", "refused"}]

\* A worker in a lookup names a topic and goes through a handle; one that is
\* past it has a client; one that awaits or resumes has a message.
JobFields ==
    \A w \in Worker :
        /\ job[w].pc # "idle" => job[w].name \in Name /\ job[w].handle \in Handle
        /\ job[w].pc \in {"remember", "use"} => job[w].client # None
        /\ job[w].pc = "await" \/ job[w].does = "resume" => job[w].message \in DOMAIN messages
        /\ job[w].message \in DOMAIN messages \cup {None}

TypeInv == TypeOK /\ JobFields

\* The map names exactly the client publishers there are.
MapExact ==
    /\ \A t \in Topic : byTopic[t] # None =>
         byTopic[t] \in DOMAIN clients /\ clients[byTopic[t]].topic = t
    /\ \A c \in DOMAIN clients : byTopic[clients[c].topic] = c

\* A worker about to build holds the mutex and found nothing under it.
BuildAlone ==
    \A w \in Worker : job[w].pc = "build" => adding = w /\ byTopic[TopicOf[job[w].name]] = None

\* A message was queued on the client of the topic its publish named.
MessageClient ==
    \A w \in Worker : job[w].message \in DOMAIN messages =>
        /\ messages[job[w].message].client \in DOMAIN clients
        /\ clients[messages[job[w].message].client].topic = TopicOf[job[w].name]

ClientInv == MapExact /\ BuildAlone /\ MessageClient /\ RightPublisher

--------------------------------------------------------------------------------
LEMMA SeqAt ==
  ASSUME NEW S, NEW q \in Seq(S)
  PROVE  /\ Len(q) \in Nat /\ DOMAIN q = 1..Len(q)
         /\ \A i \in DOMAIN q : q[i] \in S /\ i \in Nat \ {0}
  OBVIOUS

LEMMA SeqExcept ==
  ASSUME NEW S, NEW q \in Seq(S), NEW i \in DOMAIN q, NEW e \in S
  PROVE  [q EXCEPT ![i] = e] \in Seq(S)
  OBVIOUS

LEMMA WithoutType ==
  ASSUME NEW S, NEW q \in Seq(S), NEW i \in DOMAIN q
  PROVE  Without(q, i) \in Seq(S)
<1>1. i \in 1..Len(q) /\ Len(q) \in Nat
  OBVIOUS
<1>2. SubSeq(q, 1, i - 1) \in Seq(S) /\ SubSeq(q, i + 1, Len(q)) \in Seq(S)
  BY <1>1
<1> QED
  BY <1>2 DEF Without

\* A change of one client's queue and paused keys keeps every client's topic.
LEMMA ClientChanged ==
  ASSUME TypeOK, NEW c \in DOMAIN clients, NEW q \in Seq(Command), NEW p \in SUBSET Key,
         clients' = [clients EXCEPT ![c] = [topic |-> clients[c].topic, queue |-> q, paused |-> p]]
  PROVE  /\ clients' \in Seq(ClientRecord)
         /\ DOMAIN clients' = DOMAIN clients
         /\ \A d \in DOMAIN clients : clients'[d].topic = clients[d].topic
<1> DEFINE e == [topic |-> clients[c].topic, queue |-> q, paused |-> p]
<1>1. clients \in Seq(ClientRecord)
  BY DEF TypeOK, ClientRecord
<1>2. clients[c] \in ClientRecord
  BY <1>1, SeqAt
<1>3. e \in ClientRecord /\ e.topic = clients[c].topic
  BY <1>2 DEF ClientRecord
<1> HIDE DEF e
<1>4. clients' = [clients EXCEPT ![c] = e]
  BY DEF e
<1> QED
  BY <1>1, <1>3, <1>4, SeqExcept

LEMMA Taken ==
  ASSUME TypeOK, NEW c \in DOMAIN clients, NEW i \in DOMAIN clients[c].queue,
         NEW p \in SUBSET Key, Take(c, i, p)
  PROVE  /\ clients' \in Seq(ClientRecord)
         /\ DOMAIN clients' = DOMAIN clients
         /\ \A d \in DOMAIN clients : clients'[d].topic = clients[d].topic
<1> DEFINE q == Without(clients[c].queue, i)
<1>1. clients[c].queue \in Seq(Command)
  <2>1. clients[c] \in ClientRecord
    BY SeqAt DEF TypeOK, ClientRecord
  <2> QED
    BY <2>1 DEF ClientRecord
<1>2. q \in Seq(Command)
  BY <1>1, WithoutType
<1>3. clients' = [clients EXCEPT ![c] = [topic |-> clients[c].topic, queue |-> q, paused |-> p]]
  BY DEF Take
<1> HIDE DEF q
<1> QED
  BY <1>2, <1>3, ClientChanged

LEMMA Queued ==
  ASSUME TypeOK, NEW c \in DOMAIN clients, NEW m \in Command, Queue(c, m)
  PROVE  /\ clients' \in Seq(ClientRecord)
         /\ DOMAIN clients' = DOMAIN clients
         /\ \A d \in DOMAIN clients : clients'[d].topic = clients[d].topic
<1> DEFINE q == Append(clients[c].queue, m)
           p == clients[c].paused
<1>1. clients[c] \in ClientRecord
  BY SeqAt DEF TypeOK, ClientRecord
<1>2. q \in Seq(Command) /\ p \in SUBSET Key
  BY <1>1 DEF ClientRecord
<1>3. clients' = [clients EXCEPT ![c] = [topic |-> clients[c].topic, queue |-> q, paused |-> p]]
  <2>1. clients' = [clients EXCEPT ![c] = [clients[c] EXCEPT !.queue = q]]
    BY DEF Queue
  <2>2. [clients[c] EXCEPT !.queue = q] = [topic |-> clients[c].topic, queue |-> q, paused |-> p]
    <3> HIDE DEF q
    <3> QED
      BY <1>1 DEF ClientRecord
  <2> QED
    BY <2>1, <2>2
<1> HIDE DEF q, p
<1> QED
  BY <1>2, <1>3, ClientChanged

LEMMA Answering ==
  ASSUME TypeOK, NEW m, NEW a \in {"ok", "failed", "refused"}, Answer(m, a)
  PROVE  /\ messages' \in Seq(MessageRecord)
         /\ DOMAIN messages' = DOMAIN messages
         /\ \A n \in DOMAIN messages : messages'[n].client = messages[n].client
<1> DEFINE e == [messages[m] EXCEPT !.answer = a]
<1>1. messages \in Seq(MessageRecord)
  BY DEF TypeOK, MessageRecord
<1>2. messages' = [messages EXCEPT ![m] = e]
  BY DEF Answer
<1>3. CASE m \in DOMAIN messages
  <2>1. messages[m] \in MessageRecord
    BY <1>1, <1>3, SeqAt
  <2>2. e \in MessageRecord /\ e.client = messages[m].client
    BY <2>1 DEF MessageRecord
  <2> HIDE DEF e
  <2> QED
    BY <1>1, <1>2, <1>3, <2>2, SeqExcept
<1>4. CASE m \notin DOMAIN messages
  <2> HIDE DEF e
  <2>1. messages' = messages
    BY <1>1, <1>2, <1>4
  <2> QED
    BY <1>1, <2>1
<1> QED
  BY <1>3, <1>4

\* The command at the place a step works on.
LEMMA AtCommand ==
  ASSUME TypeOK, NEW c \in DOMAIN clients, NEW i \in DOMAIN clients[c].queue
  PROVE  /\ clients[c].queue[i] \in Command
         /\ clients[c].queue[i].does = "publish" => clients[c].queue[i].message \in Message
         /\ clients[c].queue[i].key \in Key \cup {None}
         /\ clients[c].paused \in SUBSET Key
<1>1. clients[c] \in ClientRecord
  BY SeqAt DEF TypeOK, ClientRecord
<1>2. clients[c].queue \in Seq(Command) /\ clients[c].paused \in SUBSET Key
  BY <1>1 DEF ClientRecord
<1>3. clients[c].queue[i] \in Command
  BY <1>2, SeqAt
<1> QED
  BY <1>2, <1>3 DEF Command

LEMMA TypeInit == Init => TypeInv
<1> SUFFICES ASSUME Init PROVE TypeInv
  OBVIOUS
<1>1. Idle \in Job /\ Idle.pc = "idle" /\ Idle.does = "publish" /\ Idle.message = None
  BY DEF Idle, Job, PC
<1>2. TypeOK
  <2>1. clients \in Seq(ClientRecord) /\ messages \in Seq(MessageRecord) /\ accepted \in Seq(Message)
    BY DEF Init
  <2>2. /\ closed \in BOOLEAN /\ stage \in {"running", "closing", "flushing", "done"}
        /\ byTopic \in [Topic -> Client \cup {None}]
        /\ first \in [Handle -> [name : Name, client : Client] \cup {None}]
        /\ job \in [Worker -> Job]
    BY <1>1 DEF Init
  <2>3. /\ adding = None /\ flushing = None
        /\ unflushed = {} /\ queuedOpen = {} /\ alone = {}
    BY DEF Init
  <2> QED
    BY <2>1, <2>2, <2>3 DEF TypeOK, ClientRecord, MessageRecord
<1>3. JobFields
  BY <1>1 DEF Init, JobFields
<1> QED
  BY <1>2, <1>3 DEF TypeInv

\* A worker's step that changes its job to j and nothing else of the types.
LEMMA JobChanged ==
  ASSUME TypeInv, NEW w \in Worker, NEW j \in Job, job' = [job EXCEPT ![w] = j],
         j.pc # "idle" => j.name \in Name /\ j.handle \in Handle,
         j.pc \in {"remember", "use"} => j.client # None,
         j.pc = "await" \/ j.does = "resume" => j.message \in DOMAIN messages',
         j.message \in DOMAIN messages' \cup {None},
         DOMAIN messages \subseteq DOMAIN messages'
  PROVE  job' \in [Worker -> Job] /\ JobFields'
<1>1. \A v \in Worker : job'[v] = IF v = w THEN j ELSE job[v]
  BY DEF TypeInv, TypeOK
<1>2. job' \in [Worker -> Job]
  BY DEF TypeInv, TypeOK
<1> QED
  BY <1>1, <1>2 DEF TypeInv, JobFields

\* The typing of all but jobs, clients, messages and what the service accepted.
OtherTypes ==
    /\ closed \in BOOLEAN
    /\ byTopic \in [Topic -> Client \cup {None}]
    /\ adding \in Worker \cup {None}
    /\ first \in [Handle -> [name : Name, client : Client] \cup {None}]
    /\ stage \in {"running", "closing", "flushing", "done"}
    /\ unflushed \subseteq Client
    /\ flushing \in Client \cup {None}
    /\ queuedOpen \subseteq Message
    /\ alone \subseteq Message

LEMMA TypeParts ==
  TypeOK <=> /\ OtherTypes
             /\ clients \in Seq(ClientRecord)
             /\ job \in [Worker -> Job]
             /\ messages \in Seq(MessageRecord)
             /\ accepted \in Seq(Message)
  BY DEF TypeOK, OtherTypes, ClientRecord, MessageRecord

LEMMA TypePartsNext ==
  TypeOK' <=> /\ OtherTypes'
              /\ clients' \in Seq(ClientRecord)
              /\ job' \in [Worker -> Job]
              /\ messages' \in Seq(MessageRecord)
              /\ accepted' \in Seq(Message)
  BY DEF TypeOK, OtherTypes, ClientRecord, MessageRecord

\* A worker's step through the lookup.
LEMMA LookupType ==
  ASSUME TypeInv, NEW w \in Worker, Find(w) \/ Load(w) \/ Lock(w) \/ Build(w) \/ Remember(w)
  PROVE  TypeInv'
<1> DEFINE j == job[w]
<1>1. j \in Job /\ j.pc # "idle" /\ j.pc # "await"
  BY DEF TypeInv, TypeOK, Find, Load, Lock, Build, Remember
<1>2. /\ j.name \in Name /\ j.handle \in Handle /\ TopicOf[j.name] \in Topic
      /\ j.does = "resume" => j.message \in DOMAIN messages
      /\ j.message \in DOMAIN messages \cup {None}
      /\ j.client \in Client \cup {None}
      /\ j.pc = "remember" => j.client # None
  BY <1>1 DEF TypeInv, JobFields, Job
<1>3. /\ byTopic[TopicOf[j.name]] \in Client \cup {None}
      /\ first[j.handle] \in [name : Name, client : Client] \cup {None}
      /\ first[j.handle] # None => first[j.handle].client \in Client
  BY <1>2 DEF TypeInv, TypeOK
<1>4. UNCHANGED <<messages, accepted, closed, stage, unflushed, flushing, queuedOpen, alone>>
  BY DEF Find, Load, Lock, Build, Remember, shutdownVars, lookupVars, historyVars
<1>5. ASSUME NEW p \in {"load", "lock", "build", "use"}, job' = [job EXCEPT ![w] = [j EXCEPT !.pc = p]],
             p = "use" => j.client # None
      PROVE  job' \in [Worker -> Job] /\ JobFields'
  <2> DEFINE k == [j EXCEPT !.pc = p]
  <2> HIDE DEF j
  <2>1. /\ k \in Job /\ k.pc = p /\ k.name = j.name /\ k.handle = j.handle
        /\ k.message = j.message /\ k.does = j.does /\ k.client = j.client
    BY <1>1 DEF Job, PC
  <2> HIDE DEF k
  <2>2. job' = [job EXCEPT ![w] = k]
    BY <1>5 DEF k
  <2>3. /\ k.pc # "idle" => k.name \in Name /\ k.handle \in Handle
        /\ k.pc \in {"remember", "use"} => k.client # None
        /\ k.pc = "await" \/ k.does = "resume" => k.message \in DOMAIN messages'
        /\ k.message \in DOMAIN messages' \cup {None}
        /\ DOMAIN messages \subseteq DOMAIN messages'
    BY <1>2, <1>4, <1>5, <2>1 DEF Client
  <2> QED
    BY <2>1, <2>2, <2>3, JobChanged
<1>6. ASSUME NEW p \in {"remember", "use"}, NEW c \in Client,
             job' = [job EXCEPT ![w] = [j EXCEPT !.pc = p, !.client = c]]
      PROVE  job' \in [Worker -> Job] /\ JobFields'
  <2> DEFINE k == [j EXCEPT !.pc = p, !.client = c]
  <2> HIDE DEF j
  <2>1. /\ k \in Job /\ k.pc = p /\ k.name = j.name /\ k.handle = j.handle
        /\ k.message = j.message /\ k.does = j.does /\ k.client = c
    BY <1>1 DEF Job, PC
  <2> HIDE DEF k
  <2>2. job' = [job EXCEPT ![w] = k] /\ c # None
    BY <1>6 DEF k, Client
  <2>3. /\ k.pc # "idle" => k.name \in Name /\ k.handle \in Handle
        /\ k.pc \in {"remember", "use"} => k.client # None
        /\ k.pc = "await" \/ k.does = "resume" => k.message \in DOMAIN messages'
        /\ k.message \in DOMAIN messages' \cup {None}
        /\ DOMAIN messages \subseteq DOMAIN messages'
    BY <1>2, <1>4, <1>6, <2>1 DEF Client
  <2> QED
    BY <2>1, <2>2, <2>3, JobChanged
<1>7. CASE Find(w)
  <2>1. UNCHANGED <<clients, byTopic, adding, first>>
    BY <1>7 DEF Find, lookupVars
  <2>2. job' \in [Worker -> Job] /\ JobFields'
    <3>1. CASE first[j.handle] # None /\ first[j.handle].name = j.name
      BY <1>3, <1>6, <1>7, <3>1 DEF Find
    <3>2. CASE ~(first[j.handle] # None /\ first[j.handle].name = j.name)
      BY <1>5, <1>7, <3>2 DEF Find
    <3> QED
      BY <3>1, <3>2
  <2> QED
    BY <1>4, <2>1, <2>2, TypeParts, TypePartsNext DEF TypeInv, OtherTypes
<1>8. CASE Load(w)
  <2>1. UNCHANGED <<clients, byTopic, adding, first>>
    BY <1>8 DEF Load, lookupVars
  <2>2. job' \in [Worker -> Job] /\ JobFields'
    <3>1. CASE byTopic[TopicOf[j.name]] # None
      BY <1>3, <1>6, <1>8, <3>1 DEF Load
    <3>2. CASE byTopic[TopicOf[j.name]] = None
      BY <1>5, <1>8, <3>2 DEF Load
    <3> QED
      BY <3>1, <3>2
  <2> QED
    BY <1>4, <2>1, <2>2, TypeParts, TypePartsNext DEF TypeInv, OtherTypes
<1>9. CASE Lock(w)
  <2>1. UNCHANGED <<clients, byTopic, first>> /\ adding' = w
    BY <1>9 DEF Lock
  <2>2. job' \in [Worker -> Job] /\ JobFields'
    <3>1. CASE byTopic[TopicOf[j.name]] # None
      BY <1>3, <1>6, <1>9, <3>1 DEF Lock
    <3>2. CASE byTopic[TopicOf[j.name]] = None
      BY <1>5, <1>9, <3>2 DEF Lock
    <3> QED
      BY <3>1, <3>2
  <2> QED
    BY <1>4, <2>1, <2>2, TypeParts, TypePartsNext DEF TypeInv, OtherTypes
<1>10. CASE Build(w)
  <2> DEFINE t == TopicOf[j.name]
             c == Len(clients) + 1
             e == [topic |-> t, queue |-> <<>>, paused |-> {}]
  <2>1. /\ clients' = Append(clients, e) /\ byTopic' = [byTopic EXCEPT ![t] = c]
        /\ job' = [job EXCEPT ![w] = [j EXCEPT !.pc = "remember", !.client = c]]
        /\ UNCHANGED <<adding, first>>
    BY <1>10 DEF Build
  <2>2. e \in ClientRecord /\ clients \in Seq(ClientRecord)
    BY <1>2, TypeParts DEF ClientRecord, TypeInv
  <2>3. c \in Client /\ clients' \in Seq(ClientRecord)
    <3> HIDE DEF e
    <3> QED
      BY <2>1, <2>2 DEF Client
  <2>4. job' \in [Worker -> Job] /\ JobFields'
    <3> HIDE DEF j, c
    <3> QED
      BY <1>6, <2>1, <2>3
  <2> HIDE DEF c, t, j, e
  <2> QED
    BY <1>4, <2>1, <2>3, <2>4, TypeParts, TypePartsNext DEF TypeInv, OtherTypes
<1>11. CASE Remember(w)
  <2> DEFINE kept == IF first[j.handle] = None THEN [name |-> j.name, client |-> j.client]
                     ELSE first[j.handle]
  <2>1. /\ first' = [first EXCEPT ![j.handle] = kept]
        /\ job' = [job EXCEPT ![w] = [j EXCEPT !.pc = "use"]]
        /\ UNCHANGED <<clients, byTopic, adding>> /\ j.pc = "remember"
    BY <1>11 DEF Remember
  <2>2. kept \in [name : Name, client : Client] \cup {None}
    BY <1>2, <1>3, <2>1
  <2>3. job' \in [Worker -> Job] /\ JobFields'
    BY <1>2, <1>5, <2>1
  <2> HIDE DEF kept, j
  <2> QED
    BY <1>4, <2>1, <2>2, <2>3, TypeParts, TypePartsNext DEF TypeInv, OtherTypes
<1> QED
  BY <1>7, <1>8, <1>9, <1>10, <1>11


\* A command that is queued, and its job after.
LEMMA UseType ==
  ASSUME TypeInv, NEW w \in Worker, Use(w)
  PROVE  /\ TypeInv'
         /\ DOMAIN clients' = DOMAIN clients
         /\ \A d \in DOMAIN clients : clients'[d].topic = clients[d].topic
<1> DEFINE j == job[w]
           n == Len(messages) + 1
<1>1. j \in Job /\ j.pc = "use"
  BY DEF TypeInv, TypeOK, Use
<1>2. /\ j.name \in Name /\ j.handle \in Handle /\ j.client \in Client /\ j.key \in Key \cup {None}
      /\ j.does = "resume" => j.message \in DOMAIN messages
  BY <1>1 DEF TypeInv, JobFields, Job
<1>3. messages \in Seq(MessageRecord) /\ OtherTypes /\ accepted \in Seq(Message) /\ clients \in Seq(ClientRecord)
  BY TypeParts DEF TypeInv
<1>4. n \in Message /\ Idle \in Job /\ Idle.pc = "idle" /\ Idle.does = "publish" /\ Idle.message = None
  BY <1>3 DEF Message, Idle, Job, PC
<1>5. UNCHANGED <<byTopic, first, accepted, closed, stage, unflushed, flushing>>
  BY DEF Use, shutdownVars
<1>6. adding' \in Worker \cup {None}
  BY <1>3 DEF Use, OtherTypes
<1>7. ASSUME NEW m \in Command, Queue(j.client, m)
      PROVE  /\ clients' \in Seq(ClientRecord)
             /\ DOMAIN clients' = DOMAIN clients
             /\ \A d \in DOMAIN clients : clients'[d].topic = clients[d].topic
  <2>1. CASE j.client \in DOMAIN clients
    <3> HIDE DEF j
    <3> QED
      BY <1>7, <2>1, Queued DEF TypeInv
  <2>2. CASE j.client \notin DOMAIN clients
    <3>1. clients' = clients
      BY <1>3, <1>7, <2>2 DEF Queue
    <3> QED
      BY <1>3, <3>1
  <2> QED
    BY <2>1, <2>2
<1>8. CASE j.does = "publish"
  <2> DEFINE c == [does |-> "publish", key |-> j.key, message |-> n]
             r == [client |-> j.client, key |-> j.key, answer |-> None]
             k == [j EXCEPT !.pc = "await", !.message = n]
  <2>1. /\ Queue(j.client, c) /\ messages' = Append(messages, r)
        /\ job' = [job EXCEPT ![w] = k]
        /\ queuedOpen' \in {queuedOpen, queuedOpen \cup {n}}
        /\ alone' \in {alone, alone \cup {n}}
    BY <1>8 DEF Use, Enqueue
  <2>2. c \in Command /\ r \in MessageRecord
    BY <1>2, <1>4 DEF Command, MessageRecord
  <2>3. /\ clients' \in Seq(ClientRecord) /\ DOMAIN clients' = DOMAIN clients
        /\ \A d \in DOMAIN clients : clients'[d].topic = clients[d].topic
    <3> HIDE DEF c
    <3> QED
      BY <1>7, <2>1, <2>2
  <2>4. messages' \in Seq(MessageRecord) /\ DOMAIN messages' = DOMAIN messages \cup {n}
    <3> HIDE DEF r
    <3> QED
      BY <1>3, <2>1, <2>2
  <2>5. /\ k \in Job /\ k.pc = "await" /\ k.name = j.name /\ k.handle = j.handle
        /\ k.does = j.does /\ k.message = n
    <3> HIDE DEF j, n
    <3> QED
      BY ZenonT(60), <1>1, <1>4 DEF Job, PC
  <2>6. job' \in [Worker -> Job] /\ JobFields'
    <3> HIDE DEF k, n, j
    <3> QED
      BY <1>2, <1>8, <2>1, <2>4, <2>5, JobChanged
  <2>7. OtherTypes'
    <3> HIDE DEF n
    <3> QED
      BY <1>3, <1>4, <1>5, <1>6, <2>1 DEF OtherTypes
  <2> QED
    BY <1>3, <1>5, <2>3, <2>4, <2>6, <2>7, TypePartsNext DEF TypeInv
<1>9. CASE j.does = "resume"
  <2> DEFINE c == [does |-> "resume", key |-> j.key, message |-> j.message]
  <2>1. /\ Queue(j.client, c) /\ job' = [job EXCEPT ![w] = Idle]
        /\ UNCHANGED <<messages, queuedOpen, alone>>
    BY <1>9 DEF Use, Enqueue, historyVars
  <2>2. j.message \in Message
    BY <1>2, <1>3, <1>9, SeqAt DEF Message
  <2>3. c \in Command
    BY <1>2, <2>2 DEF Command
  <2>4. /\ clients' \in Seq(ClientRecord) /\ DOMAIN clients' = DOMAIN clients
        /\ \A d \in DOMAIN clients : clients'[d].topic = clients[d].topic
    <3> HIDE DEF c
    <3> QED
      BY <1>7, <2>1, <2>3
  <2>5. job' \in [Worker -> Job] /\ JobFields'
    BY <1>4, <2>1, JobChanged
  <2>6. OtherTypes'
    BY <1>3, <1>5, <1>6, <2>1 DEF OtherTypes
  <2> QED
    BY <1>3, <1>5, <2>1, <2>4, <2>5, <2>6, TypePartsNext DEF TypeInv
<1>10. j.does \in {"publish", "resume"}
  BY <1>1 DEF Job
<1> QED
  BY <1>8, <1>9, <1>10


\* A publish begun, returned or dropped.
LEMMA CallType ==
  ASSUME TypeInv, NEW w \in Worker,
         \/ \E h \in Handle, n \in Name, k \in Key \cup {None} : Publish(w, h, n, k)
         \/ Return(w)
         \/ Abandon(w)
  PROVE  TypeInv'
<1>1. /\ job[w] \in Job
      /\ job[w].pc = "await" => job[w].name \in Name /\ job[w].handle \in Handle
                                /\ job[w].message \in DOMAIN messages
  BY DEF TypeInv, TypeOK, JobFields
<1>2. Idle \in Job /\ Idle.pc = "idle" /\ Idle.does = "publish" /\ Idle.message = None
  BY DEF Idle, Job, PC
<1>3. UNCHANGED <<closed, stage, unflushed, flushing, byTopic, adding, first, clients, messages,
                  accepted, queuedOpen, alone>>
  BY DEF Publish, Return, Abandon, shutdownVars, lookupVars, historyVars
<1>4. SUFFICES job' \in [Worker -> Job] /\ JobFields'
  BY <1>3, TypeParts, TypePartsNext DEF TypeInv, OtherTypes
<1>5. CASE job' = [job EXCEPT ![w] = Idle]
  BY <1>2, <1>3, <1>5, JobChanged
<1>6. ASSUME NEW h \in Handle, NEW n \in Name, NEW k \in Key \cup {None}, Publish(w, h, n, k)
      PROVE  job' \in [Worker -> Job] /\ JobFields'
  <2> DEFINE j == [Idle EXCEPT !.pc = "find", !.handle = h, !.name = n, !.key = k]
  <2>1. /\ j \in Job /\ j.pc = "find" /\ j.name = n /\ j.handle = h /\ j.does = "publish" /\ j.message = None
    BY DEF Idle, Job, PC
  <2>2. job' = [job EXCEPT ![w] = j]
    BY <1>6 DEF Publish
  <2> HIDE DEF j
  <2> QED
    BY <1>3, <2>1, <2>2, JobChanged
<1>7. CASE Return(w)
  <2> DEFINE i == job[w]
             j == [i EXCEPT !.pc = "find", !.does = "resume", !.client = None]
  <2>1. job' = [job EXCEPT ![w] = j] \/ job' = [job EXCEPT ![w] = Idle]
    BY <1>7 DEF Return
  <2>2. i \in Job /\ i.pc = "await" /\ i.name \in Name /\ i.handle \in Handle
        /\ i.message \in DOMAIN messages
    BY <1>1, <1>7 DEF Return, Answered
  <2> HIDE DEF i
  <2>3. /\ j \in Job /\ j.pc = "find" /\ j.name = i.name /\ j.handle = i.handle
        /\ j.does = "resume" /\ j.message = i.message
    BY <2>2 DEF Job, PC
  <2> HIDE DEF j
  <2>4. CASE job' = [job EXCEPT ![w] = j]
    BY <1>3, <2>2, <2>3, <2>4, JobChanged
  <2> QED
    BY <1>5, <2>1, <2>4
<1>8. CASE Abandon(w)
  BY <1>5, <1>8 DEF Abandon
<1> QED
  BY <1>6, <1>7, <1>8

\* What the client library does with the command at place i.
LEMMA WorkType ==
  ASSUME TypeInv, NEW c \in DOMAIN clients, NEW i \in DOMAIN clients[c].queue, Work(c, i)
  PROVE  /\ TypeInv'
         /\ DOMAIN clients' = DOMAIN clients
         /\ \A d \in DOMAIN clients : clients'[d].topic = clients[d].topic
         /\ DOMAIN messages' = DOMAIN messages
         /\ \A n \in DOMAIN messages : messages'[n].client = messages[n].client
<1> DEFINE m == clients[c].queue[i]
<1>1. /\ m \in Command /\ m.key \in Key \cup {None}
      /\ m.does = "publish" => m.message \in Message
      /\ clients[c].paused \in SUBSET Key
  BY AtCommand DEF TypeInv
<1>2. UNCHANGED <<closed, stage, unflushed, flushing, byTopic, adding, first, job, queuedOpen, alone>>
  BY DEF Work, Deliver, Fail, Refuse, Resume, shutdownVars, lookupVars, historyVars
<1>3. PICK p \in SUBSET Key : Take(c, i, p)
  <2>1. /\ clients[c].paused \cup ({m.key} \ {None}) \in SUBSET Key
        /\ clients[c].paused \ {m.key} \in SUBSET Key
    BY <1>1
  <2> QED
    BY <1>1, <2>1 DEF Work, Deliver, Fail, Refuse, Resume
<1>4. /\ clients' \in Seq(ClientRecord)
      /\ DOMAIN clients' = DOMAIN clients
      /\ \A d \in DOMAIN clients : clients'[d].topic = clients[d].topic
  BY <1>3, Taken DEF TypeInv
<1>5. /\ messages' \in Seq(MessageRecord)
      /\ DOMAIN messages' = DOMAIN messages
      /\ \A n \in DOMAIN messages : messages'[n].client = messages[n].client
  <2>1. CASE messages' = messages
    BY <2>1, TypeParts DEF TypeInv
  <2>2. CASE \E a \in {"ok", "failed", "refused"} : Answer(m.message, a)
    BY <2>2, Answering DEF TypeInv
  <2> QED
    BY <2>1, <2>2 DEF Work, Deliver, Fail, Refuse, Resume
<1>6. accepted' \in Seq(Message)
  <2>1. accepted \in Seq(Message)
    BY TypeParts DEF TypeInv
  <2>2. CASE accepted' = accepted
    BY <2>1, <2>2
  <2>3. CASE m.does = "publish" /\ accepted' = Append(accepted, m.message)
    BY <1>1, <2>1, <2>3
  <2> QED
    BY <2>2, <2>3 DEF Work, Deliver, Fail, Refuse, Resume
<1>7. TypeOK'
  BY <1>2, <1>4, <1>5, <1>6, TypeParts, TypePartsNext DEF TypeInv, OtherTypes
<1>8. JobFields'
  BY <1>2, <1>5 DEF TypeInv, JobFields
<1> QED
  BY <1>4, <1>5, <1>7, <1>8 DEF TypeInv

\* What shutdown does to a client publisher.
LEMMA FlushType ==
  ASSUME TypeInv, NEW c \in DOMAIN clients, Flush(c) \/ Flushed(c)
  PROVE  /\ TypeInv'
         /\ DOMAIN clients' = DOMAIN clients
         /\ \A d \in DOMAIN clients : clients'[d].topic = clients[d].topic
         /\ UNCHANGED <<byTopic, adding, first, job, messages>>
<1>1. UNCHANGED <<closed, stage, byTopic, adding, first, job, messages, accepted, queuedOpen, alone>>
  BY DEF Flush, Flushed, lookupVars, historyVars
<1>2. c \in Client /\ clients \in Seq(ClientRecord) /\ OtherTypes
  BY TypeParts, SeqAt DEF TypeInv, Client
<1>3. unflushed' \subseteq Client /\ flushing' \in Client \cup {None}
  BY <1>2 DEF Flush, Flushed, OtherTypes
<1>4. /\ clients' \in Seq(ClientRecord)
      /\ DOMAIN clients' = DOMAIN clients
      /\ \A d \in DOMAIN clients : clients'[d].topic = clients[d].topic
  <2>1. CASE Flush(c)
    <3> DEFINE m == [does |-> "flush", key |-> None, message |-> None]
    <3>1. m \in Command /\ Queue(c, m)
      BY <2>1 DEF Flush, Command
    <3> HIDE DEF m
    <3> QED
      BY <3>1, Queued DEF TypeInv
  <2>2. CASE Flushed(c)
    <3>1. 1 \in DOMAIN clients[c].queue /\ Take(c, 1, clients[c].paused)
      BY <2>2 DEF Flushed, Ready
    <3>2. clients[c].paused \in SUBSET Key
      BY <3>1, AtCommand DEF TypeInv
    <3> QED
      BY <3>1, <3>2, Taken DEF TypeInv
  <2> QED
    BY <2>1, <2>2
<1>5. TypeOK'
  BY <1>1, <1>2, <1>3, <1>4, TypeParts, TypePartsNext DEF TypeInv, OtherTypes
<1>6. JobFields'
  BY <1>1 DEF TypeInv, JobFields
<1> QED
  BY <1>1, <1>4, <1>5, <1>6 DEF TypeInv

LEMMA ShutdownType ==
  ASSUME TypeInv, Close \/ All \/ Done
  PROVE  TypeInv' /\ UNCHANGED <<byTopic, adding, first, job, clients, messages>>
<1>1. UNCHANGED <<flushing, byTopic, adding, first, job, clients, messages, accepted, queuedOpen, alone>>
  BY DEF Close, All, Done, lookupVars, historyVars
<1>2. /\ closed' \in BOOLEAN /\ stage' \in {"running", "closing", "flushing", "done"}
      /\ unflushed' \subseteq Client
  <2>1. OtherTypes
    BY TypeParts DEF TypeInv
  <2>2. {byTopic[t] : t \in Topic} \ {None} \subseteq Client
    BY <2>1 DEF OtherTypes
  <2>3. CASE Close
    BY <2>1, <2>3 DEF OtherTypes, Close
  <2>4. CASE All
    BY <2>1, <2>2, <2>4 DEF OtherTypes, All
  <2>5. CASE Done
    BY <2>1, <2>5 DEF OtherTypes, Done
  <2> QED
    BY <2>3, <2>4, <2>5
<1>3. TypeOK'
  BY <1>1, <1>2, TypeParts, TypePartsNext DEF TypeInv, OtherTypes
<1>4. JobFields'
  BY <1>1 DEF TypeInv, JobFields
<1> QED
  BY <1>1, <1>3, <1>4 DEF TypeInv

LEMMA TypeStep ==
  ASSUME TypeInv, [Next]_vars
  PROVE  TypeInv'
<1>1. CASE UNCHANGED vars
  <2>1. UNCHANGED <<closed, stage, unflushed, flushing, byTopic, adding, first, job, clients, messages,
                    accepted, queuedOpen, alone>>
    BY <1>1 DEF vars, shutdownVars, lookupVars, historyVars
  <2> QED
    BY <2>1, TypeParts, TypePartsNext DEF TypeInv, OtherTypes, JobFields
<1>2. ASSUME NEW w \in Worker, Proceed(w) PROVE TypeInv'
  BY <1>2, LookupType, UseType, CallType DEF Proceed
<1>3. ASSUME NEW w \in Worker, \E h \in Handle, n \in Name, k \in Key \cup {None} : Publish(w, h, n, k)
      PROVE  TypeInv'
  BY <1>3, CallType
<1>4. ASSUME NEW w \in Worker, Abandon(w) PROVE TypeInv'
  BY <1>4, CallType
<1>5. ASSUME NEW c \in DOMAIN clients, NEW i \in DOMAIN clients[c].queue, Work(c, i) PROVE TypeInv'
  BY <1>5, WorkType
<1>6. ASSUME NEW c \in DOMAIN clients, Flush(c) \/ Flushed(c) PROVE TypeInv'
  BY <1>6, FlushType
<1>7. CASE Close \/ All \/ Done
  BY <1>7, ShutdownType
<1> QED
  BY <1>1, <1>2, <1>3, <1>4, <1>5, <1>6, <1>7 DEF Next

\* Every variable of the publishing keeps its type: a worker past the lookup has a
\* client publisher, one that waits has its message (PubSubPublisher::publish).
THEOREM TypeCorrect == Spec => []TypeOK
<1>1. TypeInv /\ [Next]_vars => TypeInv'
  BY TypeStep
<1>2. TypeInv => TypeOK
  BY DEF TypeInv
<1> QED
  BY TypeInit, <1>1, <1>2, PTL DEF Spec


--------------------------------------------------------------------------------
\* What a worker's job and the handles keep about clients, apart from the map.
JobInv(w) ==
    /\ job[w].client # None =>
         /\ job[w].client \in DOMAIN clients
         /\ clients[job[w].client].topic = TopicOf[job[w].name]
         /\ job[w].does = "resume" => job[w].client = messages[job[w].message].client
    /\ job[w].message \in DOMAIN messages =>
         /\ messages[job[w].message].client \in DOMAIN clients
         /\ clients[messages[job[w].message].client].topic = TopicOf[job[w].name]

HandleInv ==
    \A h \in Handle : first[h] # None =>
        /\ first[h].client \in DOMAIN clients
        /\ clients[first[h].client].topic = TopicOf[first[h].name]

LEMMA ClientParts ==
  ClientInv <=> MapExact /\ BuildAlone /\ HandleInv /\ \A w \in Worker : JobInv(w)
  BY DEF ClientInv, MessageClient, RightPublisher, HandleInv, JobInv

LEMMA ClientPartsNext ==
  ClientInv' <=> MapExact' /\ BuildAlone' /\ HandleInv' /\ \A w \in Worker : JobInv(w)'
  BY DEF ClientInv, MessageClient, RightPublisher, HandleInv, JobInv

\* The map and the handles hold across a step that keeps them and the clients.
LEMMA MapKept ==
  ASSUME TypeInv, ClientInv, DOMAIN clients' = DOMAIN clients,
         \A d \in DOMAIN clients : clients'[d].topic = clients[d].topic, byTopic' = byTopic
  PROVE  MapExact'
  BY DEF ClientInv, MapExact

LEMMA HandlesKept ==
  ASSUME TypeInv, ClientInv, DOMAIN clients \subseteq DOMAIN clients',
         \A d \in DOMAIN clients : clients'[d].topic = clients[d].topic, first' = first
  PROVE  HandleInv'
  BY ClientParts DEF HandleInv

\* A job that a step leaves alone keeps its client.
LEMMA JobKept ==
  ASSUME TypeInv, ClientInv, NEW v \in Worker, job'[v] = job[v],
         DOMAIN clients \subseteq DOMAIN clients',
         \A d \in DOMAIN clients : clients'[d].topic = clients[d].topic,
         DOMAIN messages \subseteq DOMAIN messages',
         \A n \in DOMAIN messages : messages'[n].client = messages[n].client,
         messages' \in Seq(MessageRecord)
  PROVE  JobInv(v)'
<1>1. JobInv(v)
  BY ClientParts
<1>2. job[v].does = "resume" => job[v].message \in DOMAIN messages
  BY DEF TypeInv, JobFields
<1>3. None \notin DOMAIN messages'
  BY SeqAt
<1>4. job[v].message \in DOMAIN messages' => job[v].message \in DOMAIN messages
  BY <1>3 DEF TypeInv, JobFields
<1> QED
  BY <1>1, <1>2, <1>4 DEF JobInv


\* A step that leaves the publishes where they are.
LEMMA Framed ==
  ASSUME TypeInv, TypeInv', ClientInv, UNCHANGED <<byTopic, adding, first, job>>,
         DOMAIN clients' = DOMAIN clients,
         \A d \in DOMAIN clients : clients'[d].topic = clients[d].topic,
         DOMAIN messages' = DOMAIN messages,
         \A n \in DOMAIN messages : messages'[n].client = messages[n].client
  PROVE  ClientInv'
<1>1. messages' \in Seq(MessageRecord)
  BY TypePartsNext DEF TypeInv
<1>2. \A v \in Worker : JobInv(v)'
  BY <1>1, JobKept
<1>3. BuildAlone'
  BY DEF ClientInv, BuildAlone
<1> QED
  BY <1>2, <1>3, MapKept, HandlesKept, ClientPartsNext

\* A step of worker w that builds no client publisher and reaches no place to
\* build one without the mutex.
LEMMA Moved ==
  ASSUME TypeInv, TypeInv', ClientInv, NEW w \in Worker, NEW j \in Job,
         job' = [job EXCEPT ![w] = j], byTopic' = byTopic,
         DOMAIN clients' = DOMAIN clients,
         \A d \in DOMAIN clients : clients'[d].topic = clients[d].topic,
         DOMAIN messages \subseteq DOMAIN messages',
         \A n \in DOMAIN messages : messages'[n].client = messages[n].client,
         j.pc = "build" => adding' = w /\ byTopic[TopicOf[j.name]] = None,
         \A v \in Worker \ {w} : adding = v => adding' = v
  PROVE  /\ MapExact' /\ BuildAlone'
         /\ \A v \in Worker \ {w} : JobInv(v)'
<1>1. \A v \in Worker : job'[v] = IF v = w THEN j ELSE job[v]
  BY DEF TypeInv, TypeOK
<1>2. messages' \in Seq(MessageRecord)
  BY TypePartsNext DEF TypeInv
<1>3. \A v \in Worker \ {w} : JobInv(v)'
  BY <1>1, <1>2, JobKept
<1>4. BuildAlone'
  <2>1. \A v \in Worker \ {w} : job[v].pc = "build" => adding = v /\ byTopic[TopicOf[job[v].name]] = None
    BY DEF ClientInv, BuildAlone
  <2> QED
    BY <1>1, <2>1 DEF BuildAlone
<1> QED
  BY <1>3, <1>4, MapKept

LEMMA ClientInit == Init => ClientInv
<1> SUFFICES ASSUME Init PROVE ClientInv
  OBVIOUS
<1>1. clients = <<>> /\ messages = <<>> /\ DOMAIN clients = {} /\ DOMAIN messages = {}
  BY DEF Init
<1>2. \A w \in Worker : job[w].pc = "idle" /\ job[w].client = None
  BY DEF Init, Idle
<1>3. \A h \in Handle : first[h] = None
  BY DEF Init
<1>4. \A t \in Topic : byTopic[t] = None
  BY DEF Init
<1>5. MapExact
  BY <1>1, <1>4 DEF MapExact
<1>6. BuildAlone /\ MessageClient /\ RightPublisher
  BY <1>1, <1>2, <1>3 DEF BuildAlone, MessageClient, RightPublisher
<1> QED
  BY <1>5, <1>6 DEF ClientInv

\* A client publisher of the topic a resuming job names is the one its message
\* was queued on.
LEMMA ResumeSame ==
  ASSUME TypeInv, ClientInv, NEW w \in Worker, NEW c \in DOMAIN clients,
         clients[c].topic = TopicOf[job[w].name], job[w].does = "resume"
  PROVE  c = messages[job[w].message].client
<1>1. job[w].message \in DOMAIN messages
  BY DEF TypeInv, JobFields
<1>2. /\ messages[job[w].message].client \in DOMAIN clients
      /\ clients[messages[job[w].message].client].topic = TopicOf[job[w].name]
  BY <1>1 DEF ClientInv, MessageClient
<1> QED
  BY <1>2 DEF ClientInv, MapExact

LEMMA LookupClient ==
  ASSUME TypeInv, TypeInv', ClientInv, NEW w \in Worker,
         Find(w) \/ Load(w) \/ Lock(w) \/ Remember(w)
  PROVE  ClientInv'
<1> DEFINE j == job[w]
<1>1. j \in Job /\ j.pc # "idle" /\ j.name \in Name /\ j.handle \in Handle /\ TopicOf[j.name] \in Topic
  BY DEF TypeInv, TypeOK, JobFields, Find, Load, Lock, Remember
<1>2. UNCHANGED <<messages, clients, byTopic>>
  BY DEF Find, Load, Lock, Remember, lookupVars
<1>3. JobInv(w) /\ HandleInv /\ MapExact
  BY ClientParts
<1>4. adding' = adding \/ (adding = None /\ adding' = w)
  BY DEF Find, Load, Lock, Remember, lookupVars
<1>5. \A v \in Worker \ {w} : adding = v => adding' = v
  BY <1>4
<1>6. ASSUME NEW p \in {"load", "lock", "build", "use"}, job' = [job EXCEPT ![w] = [j EXCEPT !.pc = p]],
             p = "build" => adding' = w /\ byTopic[TopicOf[j.name]] = None
      PROVE  MapExact' /\ BuildAlone' /\ \A v \in Worker : JobInv(v)'
  <2> DEFINE k == [j EXCEPT !.pc = p]
  <2> HIDE DEF j
  <2>1. /\ k \in Job /\ k.pc = p /\ k.name = j.name /\ k.message = j.message
        /\ k.does = j.does /\ k.client = j.client
    BY <1>1 DEF Job, PC
  <2> HIDE DEF k
  <2>2. job' = [job EXCEPT ![w] = k]
    BY <1>6 DEF k
  <2>3. k.pc = "build" => adding' = w /\ byTopic[TopicOf[k.name]] = None
    BY <1>6, <2>1
  <2>4. MapExact' /\ BuildAlone' /\ \A v \in Worker \ {w} : JobInv(v)'
    BY <1>2, <1>5, <2>1, <2>2, <2>3, Moved
  <2>5. job'[w] = k
    BY <2>2 DEF TypeInv, TypeOK
  <2>6. JobInv(w)'
    BY <1>2, <1>3, <2>1, <2>5 DEF JobInv, j
  <2> QED
    BY <2>4, <2>6
<1>7. ASSUME NEW p \in {"remember", "use"}, NEW c \in DOMAIN clients,
             job' = [job EXCEPT ![w] = [j EXCEPT !.pc = p, !.client = c]],
             clients[c].topic = TopicOf[j.name]
      PROVE  MapExact' /\ BuildAlone' /\ \A v \in Worker : JobInv(v)'
  <2> DEFINE k == [j EXCEPT !.pc = p, !.client = c]
  <2>0. c \in Client
    BY TypeParts, SeqAt DEF TypeInv, Client
  <2>7. j.does = "resume" => c = messages[j.message].client
    BY <1>7, ResumeSame
  <2> HIDE DEF j
  <2>1. /\ k \in Job /\ k.pc = p /\ k.name = j.name /\ k.message = j.message
        /\ k.does = j.does /\ k.client = c
    BY <1>1, <2>0 DEF Job, PC
  <2> HIDE DEF k
  <2>2. job' = [job EXCEPT ![w] = k]
    BY <1>7 DEF k
  <2>3. k.pc # "build"
    BY <2>1
  <2>4. MapExact' /\ BuildAlone' /\ \A v \in Worker \ {w} : JobInv(v)'
    BY <1>2, <1>5, <2>1, <2>2, <2>3, Moved
  <2>5. job'[w] = k
    BY <2>2 DEF TypeInv, TypeOK
  <2>6. JobInv(w)'
    BY <1>2, <1>3, <1>7, <2>1, <2>5, <2>7 DEF JobInv, j
  <2> QED
    BY <2>4, <2>6
<1>8. /\ byTopic[TopicOf[j.name]] # None =>
           /\ byTopic[TopicOf[j.name]] \in DOMAIN clients
           /\ clients[byTopic[TopicOf[j.name]]].topic = TopicOf[j.name]
      /\ first[j.handle] # None =>
           /\ first[j.handle].client \in DOMAIN clients
           /\ clients[first[j.handle].client].topic = TopicOf[first[j.handle].name]
  BY <1>1, <1>3 DEF MapExact, HandleInv
<1>9. MapExact' /\ BuildAlone' /\ \A v \in Worker : JobInv(v)'
  <2>1. CASE Find(w)
    <3>1. CASE first[j.handle] # None /\ first[j.handle].name = j.name
      BY <1>7, <1>8, <2>1, <3>1 DEF Find
    <3>2. CASE ~(first[j.handle] # None /\ first[j.handle].name = j.name)
      BY <1>6, <2>1, <3>2 DEF Find
    <3> QED
      BY <3>1, <3>2
  <2>2. CASE Load(w)
    <3>1. CASE byTopic[TopicOf[j.name]] # None
      BY <1>7, <1>8, <2>2, <3>1 DEF Load
    <3>2. CASE byTopic[TopicOf[j.name]] = None
      BY <1>6, <2>2, <3>2 DEF Load
    <3> QED
      BY <3>1, <3>2
  <2>3. CASE Lock(w)
    <3>1. CASE byTopic[TopicOf[j.name]] # None
      BY <1>7, <1>8, <2>3, <3>1 DEF Lock
    <3>2. CASE byTopic[TopicOf[j.name]] = None
      BY <1>6, <2>3, <3>2 DEF Lock
    <3> QED
      BY <3>1, <3>2
  <2>4. CASE Remember(w)
    BY <1>6, <2>4 DEF Remember
  <2> QED
    BY <2>1, <2>2, <2>3, <2>4
<1>10. HandleInv'
  <2>1. CASE first' = first
    BY <1>2, <2>1, HandlesKept
  <2>2. CASE Remember(w)
    <3> DEFINE new == [name |-> j.name, client |-> j.client]
    <3>1. /\ first' \in [Handle -> [name : Name, client : Client] \cup {None}]
          /\ \A h \in Handle : first'[h] = first[h] \/ first'[h] = new
      <4>1. first' = [first EXCEPT ![j.handle] = IF first[j.handle] = None THEN new ELSE first[j.handle]]
        BY <2>2 DEF Remember
      <4> HIDE DEF new
      <4> QED
        BY <4>1, TypeParts, TypePartsNext DEF TypeInv, OtherTypes
    <3>2. j.client # None
      BY <2>2 DEF Remember, TypeInv, JobFields
    <3>3. /\ new.client \in DOMAIN clients
          /\ clients[new.client].topic = TopicOf[new.name]
      BY <1>3, <3>2 DEF JobInv
    <3> HIDE DEF new
    <3> QED
      BY <1>2, <1>3, <3>1, <3>3 DEF HandleInv
  <2> QED
    BY <2>1, <2>2 DEF Find, Load, Lock, lookupVars
<1> QED
  BY <1>9, <1>10, ClientPartsNext


LEMMA BuildClient ==
  ASSUME TypeInv, TypeInv', ClientInv, NEW w \in Worker, Build(w)
  PROVE  ClientInv'
<1> DEFINE j == job[w]
           t == TopicOf[j.name]
           c == Len(clients) + 1
           e == [topic |-> t, queue |-> <<>>, paused |-> {}]
           k == [j EXCEPT !.pc = "remember", !.client = c]
<1>1. /\ clients' = Append(clients, e) /\ byTopic' = [byTopic EXCEPT ![t] = c]
      /\ job' = [job EXCEPT ![w] = k]
      /\ UNCHANGED <<adding, first, messages>>
  BY DEF Build
<1>2. j \in Job /\ j.pc = "build" /\ j.name \in Name /\ t \in Topic
  BY DEF TypeInv, TypeOK, JobFields, Build
<1>3. clients \in Seq(ClientRecord) /\ messages' \in Seq(MessageRecord) /\ OtherTypes
  BY TypeParts, TypePartsNext DEF TypeInv
<1>4. /\ DOMAIN clients' = DOMAIN clients \cup {c} /\ c \notin DOMAIN clients /\ c \in Client
      /\ clients'[c] = e /\ \A d \in DOMAIN clients : clients'[d] = clients[d]
  <2> HIDE DEF e
  <2> QED
    BY <1>1, <1>3 DEF Client
<1>5. byTopic[t] = None /\ adding = w /\ MapExact /\ JobInv(w) /\ HandleInv
  BY <1>2, ClientParts DEF ClientInv, BuildAlone
<1>6. /\ k \in Job /\ k.pc = "remember" /\ k.name = j.name /\ k.message = j.message
      /\ k.does = j.does /\ k.client = c
  <2> HIDE DEF j, c
  <2> QED
    BY <1>2, <1>4 DEF Job, PC
<1>7. \A v \in Worker : job'[v] = IF v = w THEN k ELSE job[v]
  BY <1>1 DEF TypeInv, TypeOK
<1>8. \A u \in Topic : byTopic'[u] = IF u = t THEN c ELSE byTopic[u]
  <2> HIDE DEF t, c
  <2> QED
    BY <1>1, <1>3 DEF OtherTypes
<1>9. e.topic = t /\ \A d \in DOMAIN clients : clients[d].topic \in Topic
  <2>1. \A d \in DOMAIN clients : clients[d] \in ClientRecord
    BY <1>3, SeqAt
  <2> QED
    BY <2>1 DEF ClientRecord
<1> HIDE DEF c, e, k, t, j
<1>10. MapExact'
  <2>1. \A u \in Topic : byTopic'[u] # None =>
          byTopic'[u] \in DOMAIN clients' /\ clients'[byTopic'[u]].topic = u
    BY <1>4, <1>5, <1>8, <1>9 DEF MapExact
  <2>2. \A d \in DOMAIN clients : clients[d].topic # t
    BY <1>3, <1>5, SeqAt DEF MapExact
  <2>3. \A d \in DOMAIN clients' : byTopic'[clients'[d].topic] = d
    BY <1>2, <1>4, <1>5, <1>8, <1>9, <2>2 DEF MapExact
  <2> QED
    BY <2>1, <2>3 DEF MapExact
<1>11. BuildAlone'
  <2>1. \A v \in Worker \ {w} : job[v].pc # "build"
    BY <1>5 DEF ClientInv, BuildAlone
  <2> QED
    BY <1>6, <1>7, <2>1 DEF BuildAlone
<1>12. \A v \in Worker \ {w} : JobInv(v)'
  <2>1. /\ DOMAIN clients \subseteq DOMAIN clients'
        /\ \A d \in DOMAIN clients : clients'[d].topic = clients[d].topic
    BY <1>4
  <2> QED
    BY <1>1, <1>3, <1>7, <2>1, JobKept
<1>13. JobInv(w)'
  <2>1. /\ j.does = "resume" => FALSE
        /\ j.message \in DOMAIN messages =>
             /\ messages[j.message].client \in DOMAIN clients
             /\ clients[messages[j.message].client].topic = t
    <3>1. j.message \in DOMAIN messages =>
             /\ messages[j.message].client \in DOMAIN clients
             /\ clients[messages[j.message].client].topic = t
      BY <1>5 DEF JobInv, j, t
    <3>2. j.does = "resume" => j.message \in DOMAIN messages
      BY DEF TypeInv, JobFields, j
    <3>3. \A d \in DOMAIN clients : clients[d].topic # t
      BY <1>3, <1>5, SeqAt DEF MapExact
    <3> QED
      BY <3>1, <3>2, <3>3
  <2> QED
    BY <1>1, <1>4, <1>6, <1>7, <1>9, <2>1 DEF JobInv, t
<1>14. HandleInv'
  <2>1. /\ DOMAIN clients \subseteq DOMAIN clients'
        /\ \A d \in DOMAIN clients : clients'[d].topic = clients[d].topic
    BY <1>4
  <2> QED
    BY <1>1, <2>1, HandlesKept
<1> QED
  BY <1>10, <1>11, <1>12, <1>13, <1>14, ClientPartsNext

LEMMA UseClient ==
  ASSUME TypeInv, TypeInv', ClientInv, NEW w \in Worker, Use(w)
  PROVE  ClientInv'
<1> DEFINE j == job[w]
           n == Len(messages) + 1
           r == [client |-> j.client, key |-> j.key, answer |-> None]
           k == [j EXCEPT !.pc = "await", !.message = n]
<1>1. /\ j \in Job /\ j.pc = "use" /\ j.client # None
      /\ messages \in Seq(MessageRecord) /\ messages' \in Seq(MessageRecord)
  BY TypeParts, TypePartsNext DEF TypeInv, TypeOK, JobFields, Use
<1>2. /\ byTopic' = byTopic /\ first' = first
      /\ DOMAIN clients' = DOMAIN clients
      /\ \A d \in DOMAIN clients : clients'[d].topic = clients[d].topic
  BY UseType DEF Use
<1>3. \A v \in Worker \ {w} : adding = v => adding' = v
  BY DEF Use
<1>4. JobInv(w)
  BY ClientParts
<1>5. HandleInv'
  BY <1>2, HandlesKept
<1>6. CASE j.does = "publish"
  <2>1. messages' = Append(messages, r) /\ job' = [job EXCEPT ![w] = k]
    BY <1>6 DEF Use, Enqueue
  <2>2. /\ DOMAIN messages' = DOMAIN messages \cup {n} /\ n \notin DOMAIN messages /\ n \in Message
        /\ messages'[n] = r /\ \A i \in DOMAIN messages : messages'[i] = messages[i]
    <3> HIDE DEF r
    <3> QED
      BY <1>1, <2>1 DEF Message
  <2>3. /\ k \in Job /\ k.pc = "await" /\ k.name = j.name /\ k.message = n
        /\ k.does = "publish" /\ k.client = j.client /\ r.client = j.client
    <3> HIDE DEF j, n
    <3> QED
      BY <1>1, <1>6, <2>2 DEF Job, PC
  <2> HIDE DEF k, r, n
  <2>4. MapExact' /\ BuildAlone' /\ \A v \in Worker \ {w} : JobInv(v)'
    <3>1. DOMAIN messages \subseteq DOMAIN messages' /\ k.pc # "build"
          /\ \A i \in DOMAIN messages : messages'[i].client = messages[i].client
      BY <2>2, <2>3
    <3> QED
      BY <1>2, <1>3, <2>1, <2>3, <3>1, Moved
  <2>5. job'[w] = k
    BY <2>1 DEF TypeInv, TypeOK
  <2>6. JobInv(w)'
    BY <1>1, <1>2, <1>4, <2>2, <2>3, <2>5 DEF JobInv
  <2> QED
    BY <1>5, <2>4, <2>6, ClientPartsNext
<1>7. CASE j.does = "resume"
  <2>1. messages' = messages /\ job' = [job EXCEPT ![w] = Idle]
    BY <1>7 DEF Use, Enqueue
  <2>2. Idle \in Job /\ Idle.pc = "idle" /\ Idle.client = None /\ Idle.message = None
    BY DEF Idle, Job, PC
  <2>3. MapExact' /\ BuildAlone' /\ \A v \in Worker \ {w} : JobInv(v)'
    BY <1>2, <1>3, <2>1, <2>2, Moved
  <2>4. job'[w] = Idle
    BY <2>1 DEF TypeInv, TypeOK
  <2>5. None \notin DOMAIN messages'
    BY <1>1, SeqAt
  <2>6. JobInv(w)'
    BY <2>2, <2>4, <2>5 DEF JobInv
  <2> QED
    BY <1>5, <2>3, <2>6, ClientPartsNext
<1>8. j.does \in {"publish", "resume"}
  BY <1>1 DEF Job
<1> QED
  BY <1>6, <1>7, <1>8

LEMMA CallClient ==
  ASSUME TypeInv, TypeInv', ClientInv, NEW w \in Worker,
         \/ \E h \in Handle, n \in Name, k \in Key \cup {None} : Publish(w, h, n, k)
         \/ Return(w)
         \/ Abandon(w)
  PROVE  ClientInv'
<1>1. UNCHANGED <<byTopic, adding, first, clients, messages>>
  BY DEF Publish, Return, Abandon, lookupVars
<1>2. messages' \in Seq(MessageRecord) /\ None \notin DOMAIN messages'
  <2>1. messages' \in Seq(MessageRecord)
    BY TypePartsNext DEF TypeInv
  <2> QED
    BY <2>1, SeqAt
<1>3. ASSUME NEW j \in Job, job' = [job EXCEPT ![w] = j], j.pc # "build", j.client = None,
             \/ j.message = None
             \/ j.message = job[w].message /\ j.name = job[w].name
      PROVE  ClientInv'
  <2>1. MapExact' /\ BuildAlone' /\ \A v \in Worker \ {w} : JobInv(v)'
    BY <1>1, <1>3, Moved
  <2>2. job'[w] = j
    BY <1>3 DEF TypeInv, TypeOK
  <2>3. JobInv(w)
    BY ClientParts
  <2>4. JobInv(w)'
    BY <1>1, <1>2, <1>3, <2>2, <2>3 DEF JobInv
  <2>5. HandleInv'
    BY <1>1, HandlesKept
  <2> QED
    BY <2>1, <2>4, <2>5, ClientPartsNext
<1>4. CASE job' = [job EXCEPT ![w] = Idle]
  <2>1. Idle \in Job /\ Idle.pc = "idle" /\ Idle.client = None /\ Idle.message = None
    BY DEF Idle, Job, PC
  <2> QED
    BY <1>3, <1>4, <2>1
<1>5. ASSUME NEW h \in Handle, NEW n \in Name, NEW k \in Key \cup {None}, Publish(w, h, n, k)
      PROVE  ClientInv'
  <2> DEFINE j == [Idle EXCEPT !.pc = "find", !.handle = h, !.name = n, !.key = k]
  <2>1. j \in Job /\ j.pc = "find" /\ j.client = None /\ j.message = None
    BY DEF Idle, Job, PC
  <2>2. job' = [job EXCEPT ![w] = j]
    BY <1>5 DEF Publish
  <2> HIDE DEF j
  <2> QED
    BY <1>3, <2>1, <2>2
<1>6. CASE Return(w)
  <2> DEFINE i == job[w]
             j == [i EXCEPT !.pc = "find", !.does = "resume", !.client = None]
  <2>1. job' = [job EXCEPT ![w] = j] \/ job' = [job EXCEPT ![w] = Idle]
    BY <1>6 DEF Return
  <2>2. i \in Job
    BY DEF TypeInv, TypeOK
  <2>3. j \in Job /\ j.pc = "find" /\ j.client = None /\ j.message = i.message /\ j.name = i.name
    <3> HIDE DEF i
    <3> QED
      BY <2>2 DEF Job, PC
  <2>4. CASE job' = [job EXCEPT ![w] = j]
    <3> HIDE DEF j
    <3> QED
      BY <1>3, <2>3, <2>4
  <2> QED
    BY <1>4, <2>1, <2>4
<1>7. CASE Abandon(w)
  BY <1>4, <1>7 DEF Abandon
<1> QED
  BY <1>5, <1>6, <1>7

LEMMA ClientStep ==
  ASSUME TypeInv, TypeInv', ClientInv, [Next]_vars
  PROVE  ClientInv'
<1>1. CASE UNCHANGED vars
  BY <1>1, Framed DEF vars, lookupVars
<1>2. ASSUME NEW w \in Worker, Proceed(w) PROVE ClientInv'
  BY <1>2, LookupClient, BuildClient, UseClient, CallClient DEF Proceed
<1>3. ASSUME NEW w \in Worker, \E h \in Handle, n \in Name, k \in Key \cup {None} : Publish(w, h, n, k)
      PROVE  ClientInv'
  BY <1>3, CallClient
<1>4. ASSUME NEW w \in Worker, Abandon(w) PROVE ClientInv'
  BY <1>4, CallClient
<1>5. ASSUME NEW c \in DOMAIN clients, NEW i \in DOMAIN clients[c].queue, Work(c, i) PROVE ClientInv'
  <2>1. UNCHANGED <<byTopic, adding, first, job>>
    BY <1>5 DEF Work, Deliver, Fail, Refuse, Resume, lookupVars
  <2> QED
    BY <1>5, <2>1, WorkType, Framed
<1>6. ASSUME NEW c \in DOMAIN clients, Flush(c) \/ Flushed(c) PROVE ClientInv'
  BY <1>6, FlushType, Framed
<1>7. CASE Close \/ All \/ Done
  BY <1>7, ShutdownType, Framed
<1> QED
  BY <1>1, <1>2, <1>3, <1>4, <1>5, <1>6, <1>7 DEF Next

LEMMA ClientAlways == Spec => [](TypeInv /\ ClientInv)
<1>1. Init => TypeInv /\ ClientInv
  BY TypeInit, ClientInit
<1>2. TypeInv /\ ClientInv /\ [Next]_vars => (TypeInv /\ ClientInv)'
  BY TypeStep, ClientStep
<1> QED
  BY <1>1, <1>2, PTL DEF Spec

\* However many first publishes of a topic race and however they spell it, it
\* never has two client publishers (TopicPublishers::with): the map is written
\* only under the adding mutex, by a worker that read it again there.
THEOREM OnePublisher == Spec => []OnePublisherPerTopic
<1>1. TypeInv /\ ClientInv => OnePublisherPerTopic
  BY DEF ClientInv, MapExact, OnePublisherPerTopic
<1> QED
  BY ClientAlways, <1>1, PTL

\* A publish is queued on, and a key is resumed on, the client publisher of the
\* topic the publish named, whatever its handle used before (FirstTopic).
THEOREM PublisherIsRight == Spec => []RightPublisher
<1>1. TypeInv /\ ClientInv => RightPublisher
  BY DEF ClientInv
<1> QED
  BY ClientAlways, <1>1, PTL

--------------------------------------------------------------------------------
(* What waits on a client publisher *)

Commands(c) == DOMAIN clients[c].queue
IsPublish(c, i) == clients[c].queue[i].does = "publish"

WaitsOn(cmd, c) ==
    /\ cmd.message \in DOMAIN messages
    /\ messages[cmd.message].client = c
    /\ messages[cmd.message].key = cmd.key
    /\ messages[cmd.message].answer = None

\* A queued publish is a message that waits for its answer, on that client.
QueuedWait ==
    \A c \in DOMAIN clients : \A i \in Commands(c) : IsPublish(c, i) =>
        WaitsOn(clients[c].queue[i], c)

QueuedInOrder ==
    \A c \in DOMAIN clients : \A i, j \in Commands(c) :
        i < j /\ IsPublish(c, i) /\ IsPublish(c, j)
            => clients[c].queue[i].message < clients[c].queue[j].message

\* And a message that waits is queued.
WaitingQueued ==
    \A m \in DOMAIN messages :
        /\ messages[m].client \in DOMAIN clients
        /\ messages[m].answer = None =>
             \E i \in Commands(messages[m].client) :
               /\ IsPublish(messages[m].client, i)
               /\ clients[messages[m].client].queue[i].message = m

\* What the service took comes before what still waits under its key.
Same(m, n) == m.key # None /\ m.key = n.key /\ m.client = n.client
AcceptedKnown == \A i \in DOMAIN accepted : accepted[i] \in DOMAIN messages
AcceptedInOrder ==
    \A i, j \in DOMAIN accepted :
        i < j /\ Same(messages[accepted[i]], messages[accepted[j]]) => accepted[i] < accepted[j]
AcceptedAhead ==
    \A i \in DOMAIN accepted : \A m \in DOMAIN messages :
        messages[m].answer = None /\ Same(messages[accepted[i]], messages[m]) => accepted[i] < m

QueueInv ==
    /\ QueuedWait /\ QueuedInOrder /\ WaitingQueued
    /\ AcceptedKnown /\ AcceptedInOrder /\ AcceptedAhead

\* Shutdown flushes what was queued before it closed the connection.
ClosedIs == closed <=> stage # "running"
OpenKnown == queuedOpen \subseteq DOMAIN messages
FlushLast ==
    \A c \in DOMAIN clients : \A i \in Commands(c) : clients[c].queue[i].does = "flush" =>
        /\ stage \in {"flushing", "done"}
        /\ \A j \in Commands(c) :
             IsPublish(c, j) /\ clients[c].queue[j].message \in queuedOpen => j < i
ToFlush ==
    stage = "flushing" => \A m \in queuedOpen :
        messages[m].answer = None => messages[m].client \in unflushed

FlushInv == ClosedIs /\ OpenKnown /\ FlushLast /\ ToFlush /\ FlushCovers

\* Where every publish is awaited to its end, its worker waits for each message,
\* and a key that is paused has a worker, or a command, that will resume it.
ResumeActive == \A w \in Worker : job[w].does = "resume" => job[w].pc \notin {"idle", "await"}
Awaited ==
    \A m \in DOMAIN messages : messages[m].answer = None =>
        \E w \in Worker : job[w].pc = "await" /\ job[w].message = m /\ job[w].key = messages[m].key
Resumes(w) ==
    \/ job[w].does = "resume"
    \/ job[w].pc = "await" /\ messages[job[w].message].answer \in {"failed", "refused"}
IsResume(c, i, k) == clients[c].queue[i].does = "resume" /\ clients[c].queue[i].key = k
PausedResumes ==
    \A c \in DOMAIN clients : \A k \in clients[c].paused :
        \/ \E j \in Commands(c) : IsResume(c, j, k)
        \/ \E w \in Worker : job[w].key = k /\ TopicOf[job[w].name] = clients[c].topic /\ Resumes(w)
IsAlone(c, i, k) ==
    /\ IsPublish(c, i) /\ clients[c].queue[i].key = k
    /\ clients[c].queue[i].message \in alone
AloneFirst ==
    \A c \in DOMAIN clients : \A i \in Commands(c) : \A k \in Key : IsAlone(c, i, k) =>
        /\ \A j \in Commands(c) : j < i /\ IsPublish(c, j) => clients[c].queue[j].key # k
        /\ k \in clients[c].paused => \E j \in Commands(c) : j < i /\ IsResume(c, j, k)
AloneKnown == alone \subseteq DOMAIN messages
AloneInv ==
    ResumeActive /\ Awaited /\ PausedResumes /\ AloneFirst /\ AloneKnown /\ NextPublishSent

--------------------------------------------------------------------------------
(* What a step does to the queues *)

From(i, j) == IF j < i THEN j ELSE j + 1
Into(i, k) == IF k < i THEN k ELSE k - 1

LEMMA WithoutAt ==
  ASSUME NEW S, NEW q \in Seq(S), NEW i \in DOMAIN q
  PROVE  /\ Len(q) \in Nat /\ DOMAIN q = 1..Len(q) /\ i \in 1..Len(q)
         /\ DOMAIN Without(q, i) = 1..(Len(q) - 1)
         /\ \A j \in 1..(Len(q) - 1) : Without(q, i)[j] = q[From(i, j)]
<1>1. Len(q) \in Nat /\ DOMAIN q = 1..Len(q) /\ i \in 1..Len(q)
  BY LenProperties
<1> DEFINE a == SubSeq(q, 1, i - 1)
           b == SubSeq(q, i + 1, Len(q))
<1>2. a \in Seq(S) /\ Len(a) = i - 1 /\ \A j \in 1..(i - 1) : a[j] = q[j]
  BY <1>1
<1>3. b \in Seq(S) /\ Len(b) = Len(q) - i /\ \A j \in 1..(Len(q) - i) : b[j] = q[i + j]
  BY <1>1
<1> HIDE DEF a, b
<1>4. /\ a \o b \in Seq(S) /\ Len(a \o b) = Len(a) + Len(b)
      /\ \A j \in 1..(Len(a) + Len(b)) :
           (a \o b)[j] = IF j <= Len(a) THEN a[j] ELSE b[j - Len(a)]
  BY <1>2, <1>3, ConcatProperties
<1>5. Without(q, i) = a \o b
  BY DEF a, b, Without
<1>6. DOMAIN (a \o b) = 1..(Len(q) - 1)
  <2>1. DOMAIN (a \o b) = 1..Len(a \o b)
    BY <1>4, LenProperties
  <2>2. Len(a \o b) = Len(q) - 1
    BY <1>1, <1>2, <1>3, <1>4
  <2> QED
    BY <2>1, <2>2
<1>7. ASSUME NEW j \in 1..(Len(q) - 1) PROVE (a \o b)[j] = q[From(i, j)]
  <2>1. j \in 1..(Len(a) + Len(b)) /\ Len(a) = i - 1 /\ Len(b) = Len(q) - i
    BY <1>1, <1>2, <1>3, <1>7
  <2>2. (a \o b)[j] = IF j <= Len(a) THEN a[j] ELSE b[j - Len(a)]
    BY <1>4, <2>1
  <2>3. CASE j < i
    <3>1. j \in 1..(i - 1)
      BY <1>1, <1>7, <2>3
    <3> QED
      BY <1>1, <1>2, <2>1, <2>2, <2>3, <3>1 DEF From
  <2>4. CASE ~(j < i)
    <3>1. j - Len(a) \in 1..(Len(q) - i) /\ i + (j - Len(a)) = j + 1 /\ ~(j <= Len(a))
      BY <1>1, <1>7, <2>1, <2>4
    <3>2. b[j - Len(a)] = q[i + (j - Len(a))]
      BY <1>3, <3>1
    <3> QED
      BY <2>2, <2>4, <3>1, <3>2 DEF From
  <2> QED
    BY <2>3, <2>4
<1> QED
  BY <1>1, <1>5, <1>6, <1>7

LEMMA QueueType ==
  ASSUME TypeOK, NEW c \in DOMAIN clients
  PROVE  /\ clients[c].queue \in Seq(Command) /\ Len(clients[c].queue) \in Nat
         /\ Commands(c) = 1..Len(clients[c].queue)
         /\ clients[c].topic \in Topic /\ clients[c].paused \in SUBSET Key
<1>1. clients[c] \in ClientRecord
  BY SeqAt DEF TypeOK, ClientRecord
<1>2. clients[c].queue \in Seq(Command) /\ clients[c].topic \in Topic /\ clients[c].paused \in SUBSET Key
  BY <1>1 DEF ClientRecord
<1> QED
  BY <1>2, LenProperties DEF Commands

\* A command leaves a queue: the others keep their order.
LEMMA TakenAt ==
  ASSUME TypeOK, NEW c \in DOMAIN clients, NEW i \in Commands(c), NEW p \in SUBSET Key,
         Take(c, i, p)
  PROVE  /\ DOMAIN clients' = DOMAIN clients
         /\ \A d \in DOMAIN clients \ {c} : clients'[d] = clients[d]
         /\ clients'[c].paused = p /\ clients'[c].topic = clients[c].topic
         /\ Commands(c)' = 1..(Len(clients[c].queue) - 1)
         /\ Len(clients'[c].queue) = Len(clients[c].queue) - 1
         /\ \A j \in Commands(c)' :
              /\ From(i, j) \in Commands(c) /\ From(i, j) # i
              /\ clients'[c].queue[j] = clients[c].queue[From(i, j)]
         /\ \A k \in Commands(c) \ {i} :
              /\ Into(i, k) \in Commands(c)'
              /\ clients'[c].queue[Into(i, k)] = clients[c].queue[k]
<1> DEFINE q == clients[c].queue
<1>1. /\ q \in Seq(Command) /\ Len(q) \in Nat /\ Commands(c) = 1..Len(q)
      /\ i \in DOMAIN q
  BY QueueType DEF Commands
<1>2. /\ DOMAIN Without(q, i) = 1..(Len(q) - 1)
      /\ \A j \in 1..(Len(q) - 1) : Without(q, i)[j] = q[From(i, j)]
      /\ Without(q, i) \in Seq(Command)
  BY <1>1, WithoutAt, WithoutType
<1>3. clients' = [clients EXCEPT ![c] = [topic |-> clients[c].topic, queue |-> Without(q, i), paused |-> p]]
  BY DEF Take
<1>4. /\ DOMAIN clients' = DOMAIN clients
      /\ \A d \in DOMAIN clients \ {c} : clients'[d] = clients[d]
      /\ clients'[c].paused = p /\ clients'[c].topic = clients[c].topic
      /\ clients'[c].queue = Without(q, i)
  BY <1>3
<1> HIDE DEF q
<1>5. Len(Without(q, i)) = Len(q) - 1
  BY <1>1, <1>2, LenProperties
<1>6. Commands(c)' = 1..(Len(q) - 1)
  BY <1>2, <1>4 DEF Commands
<1>7. ASSUME NEW j \in 1..(Len(q) - 1)
      PROVE  From(i, j) \in 1..Len(q) /\ From(i, j) # i
  BY <1>1, <1>7 DEF From
<1>8. ASSUME NEW k \in 1..Len(q), k # i
      PROVE  Into(i, k) \in 1..(Len(q) - 1) /\ From(i, Into(i, k)) = k
  BY <1>1, <1>8 DEF From, Into
<1>9. \A j \in Commands(c)' : clients'[c].queue[j] = q[From(i, j)]
  BY <1>2, <1>4, <1>6
<1>10. \A k \in Commands(c) \ {i} : clients'[c].queue[Into(i, k)] = q[k]
  BY <1>1, <1>6, <1>8, <1>9
<1> QED
  BY <1>1, <1>4, <1>5, <1>6, <1>7, <1>8, <1>9, <1>10 DEF q

\* A command joins a queue at its end.
LEMMA QueuedAt ==
  ASSUME TypeOK, NEW c \in DOMAIN clients, NEW m \in Command, Queue(c, m)
  PROVE  /\ DOMAIN clients' = DOMAIN clients
         /\ \A d \in DOMAIN clients \ {c} : clients'[d] = clients[d]
         /\ clients'[c].paused = clients[c].paused /\ clients'[c].topic = clients[c].topic
         /\ Len(clients'[c].queue) = Len(clients[c].queue) + 1
         /\ Commands(c)' = 1..(Len(clients[c].queue) + 1)
         /\ clients'[c].queue[Len(clients[c].queue) + 1] = m
         /\ \A j \in Commands(c) : clients'[c].queue[j] = clients[c].queue[j]
<1> DEFINE q == clients[c].queue
<1>1. clients[c] \in ClientRecord
  BY SeqAt DEF TypeOK, ClientRecord
<1>2. q \in Seq(Command) /\ Len(q) \in Nat /\ Commands(c) = 1..Len(q)
  BY QueueType
<1>3. clients' = [clients EXCEPT ![c] = [clients[c] EXCEPT !.queue = Append(q, m)]]
  BY DEF Queue
<1>4. /\ DOMAIN clients' = DOMAIN clients
      /\ \A d \in DOMAIN clients \ {c} : clients'[d] = clients[d]
      /\ clients'[c] = [clients[c] EXCEPT !.queue = Append(q, m)]
  BY <1>3
<1> HIDE DEF q
<1>5. /\ clients'[c].paused = clients[c].paused /\ clients'[c].topic = clients[c].topic
      /\ clients'[c].queue = Append(q, m)
  BY <1>1, <1>4 DEF ClientRecord
<1>6. /\ Append(q, m) \in Seq(Command) /\ Len(Append(q, m)) = Len(q) + 1
      /\ Append(q, m)[Len(q) + 1] = m /\ \A j \in 1..Len(q) : Append(q, m)[j] = q[j]
  BY <1>2, AppendProperties
<1>7. DOMAIN Append(q, m) = 1..(Len(q) + 1)
  BY <1>6, LenProperties
<1> QED
  BY <1>2, <1>4, <1>5, <1>6, <1>7 DEF q, Commands

\* A client publisher is built with nothing queued.
LEMMA BuiltAt ==
  ASSUME TypeOK, NEW t \in Topic,
         clients' = Append(clients, [topic |-> t, queue |-> <<>>, paused |-> {}])
  PROVE  /\ Len(clients) \in Nat /\ Len(clients) + 1 \notin DOMAIN clients
         /\ DOMAIN clients' = DOMAIN clients \cup {Len(clients) + 1}
         /\ \A d \in DOMAIN clients : clients'[d] = clients[d]
         /\ clients'[Len(clients) + 1].queue = << >> /\ clients'[Len(clients) + 1].paused = {}
         /\ clients'[Len(clients) + 1].topic = t
<1> DEFINE e == [topic |-> t, queue |-> <<>>, paused |-> {}]
<1>1. clients \in Seq(ClientRecord) /\ Len(clients) \in Nat /\ DOMAIN clients = 1..Len(clients)
  BY LenProperties DEF TypeOK, ClientRecord
<1>2. e \in ClientRecord
  BY EmptySeq DEF ClientRecord
<1>3. e.queue = << >> /\ e.paused = {} /\ e.topic = t
  OBVIOUS
<1> HIDE DEF e
<1>4. clients' = Append(clients, e)
  BY DEF e
<1>5. /\ Append(clients, e) \in Seq(ClientRecord) /\ Len(Append(clients, e)) = Len(clients) + 1
      /\ Append(clients, e)[Len(clients) + 1] = e
      /\ \A j \in 1..Len(clients) : Append(clients, e)[j] = clients[j]
  BY <1>1, <1>2, AppendProperties
<1>6. DOMAIN clients' = 1..(Len(clients) + 1)
  BY <1>4, <1>5, LenProperties
<1> QED
  BY <1>1, <1>3, <1>4, <1>5, <1>6

\* A message joins those queued so far, or gets its answer.
LEMMA MessageAdded ==
  ASSUME TypeOK, NEW r \in MessageRecord, messages' = Append(messages, r)
  PROVE  /\ Len(messages) \in Nat /\ DOMAIN messages = 1..Len(messages)
         /\ DOMAIN messages' = 1..(Len(messages) + 1)
         /\ \A m \in DOMAIN messages : messages'[m] = messages[m]
         /\ messages'[Len(messages) + 1] = r
<1>1. messages \in Seq(MessageRecord) /\ Len(messages) \in Nat /\ DOMAIN messages = 1..Len(messages)
  BY LenProperties DEF TypeOK, MessageRecord
<1>2. /\ Append(messages, r) \in Seq(MessageRecord) /\ Len(Append(messages, r)) = Len(messages) + 1
      /\ Append(messages, r)[Len(messages) + 1] = r
      /\ \A j \in 1..Len(messages) : Append(messages, r)[j] = messages[j]
  BY <1>1, AppendProperties
<1>3. DOMAIN Append(messages, r) = 1..(Len(messages) + 1)
  BY <1>2, LenProperties
<1> QED
  BY <1>1, <1>2, <1>3

LEMMA MessageAnswered ==
  ASSUME TypeOK, NEW m \in DOMAIN messages, NEW a \in {"ok", "failed", "refused"}, Answer(m, a)
  PROVE  /\ DOMAIN messages' = DOMAIN messages
         /\ \A n \in DOMAIN messages \ {m} : messages'[n] = messages[n]
         /\ messages'[m].client = messages[m].client /\ messages'[m].key = messages[m].key
         /\ messages'[m].answer = a
<1>1. messages[m] \in MessageRecord
  BY SeqAt DEF TypeOK, MessageRecord
<1>2. messages' = [messages EXCEPT ![m] = [messages[m] EXCEPT !.answer = a]]
  BY DEF Answer
<1>3. /\ DOMAIN messages' = DOMAIN messages
      /\ \A n \in DOMAIN messages \ {m} : messages'[n] = messages[n]
      /\ messages'[m] = [messages[m] EXCEPT !.answer = a]
  BY <1>2
<1> QED
  BY <1>1, <1>3 DEF MessageRecord

LEMMA AcceptedAdded ==
  ASSUME TypeOK, NEW m \in Message, accepted' = Append(accepted, m)
  PROVE  /\ Len(accepted) \in Nat /\ DOMAIN accepted = 1..Len(accepted)
         /\ DOMAIN accepted' = 1..(Len(accepted) + 1)
         /\ \A i \in DOMAIN accepted : accepted'[i] = accepted[i]
         /\ accepted'[Len(accepted) + 1] = m
<1>1. accepted \in Seq(Message) /\ Len(accepted) \in Nat /\ DOMAIN accepted = 1..Len(accepted)
  BY LenProperties DEF TypeOK
<1>2. /\ Append(accepted, m) \in Seq(Message) /\ Len(Append(accepted, m)) = Len(accepted) + 1
      /\ Append(accepted, m)[Len(accepted) + 1] = m
      /\ \A j \in 1..Len(accepted) : Append(accepted, m)[j] = accepted[j]
  BY <1>1, AppendProperties
<1>3. DOMAIN Append(accepted, m) = 1..(Len(accepted) + 1)
  BY <1>2, LenProperties
<1> QED
  BY <1>1, <1>2, <1>3

--------------------------------------------------------------------------------
(* The queues *)

\* A step that queues nothing and answers nothing, but may build.
LEMMA BuildQueues ==
  ASSUME TypeOK, QueueInv, NEW t \in Topic, UNCHANGED <<messages, accepted>>,
         clients' = Append(clients, [topic |-> t, queue |-> <<>>, paused |-> {}])
  PROVE  QueueInv'
<1> DEFINE n == Len(clients) + 1
<1>1. /\ n \notin DOMAIN clients /\ DOMAIN clients' = DOMAIN clients \cup {n}
      /\ \A d \in DOMAIN clients : clients'[d] = clients[d]
      /\ clients'[n].queue = << >>
  BY BuiltAt
<1> HIDE DEF n
<1>2. /\ \A c \in DOMAIN clients : Commands(c)' = Commands(c)
      /\ \A c \in DOMAIN clients : \A i \in Commands(c) : IsPublish(c, i)' = IsPublish(c, i)
      /\ \A c : c = n => Commands(c)' = {}
  BY <1>1 DEF Commands, IsPublish
<1>3. QueuedWait'
  BY <1>1, <1>2 DEF QueueInv, QueuedWait, WaitsOn, IsPublish
<1>4. QueuedInOrder'
  BY <1>1, <1>2 DEF QueueInv, QueuedInOrder, IsPublish
<1>5. WaitingQueued'
  BY <1>1, <1>2 DEF QueueInv, WaitingQueued, IsPublish
<1>6. AcceptedKnown' /\ AcceptedInOrder' /\ AcceptedAhead'
  BY DEF QueueInv, AcceptedKnown, AcceptedInOrder, AcceptedAhead, Same
<1> QED
  BY <1>3, <1>4, <1>5, <1>6 DEF QueueInv

\* A resume or a flush is queued.
LEMMA OtherQueued ==
  ASSUME TypeOK, QueueInv, NEW c \in DOMAIN clients, NEW m \in Command, m.does # "publish",
         Queue(c, m), UNCHANGED <<messages, accepted>>
  PROVE  QueueInv'
<1>8. PICK n : n = Len(clients[c].queue) + 1
  OBVIOUS
<1>1. /\ DOMAIN clients' = DOMAIN clients
      /\ \A d \in DOMAIN clients \ {c} : clients'[d] = clients[d]
      /\ Commands(c)' = 1..n /\ clients'[c].queue[n] = m
      /\ \A j \in Commands(c) : clients'[c].queue[j] = clients[c].queue[j]
      /\ Commands(c) = 1..(n - 1) /\ n \in Nat
  BY <1>8, QueuedAt, QueueType
<1>2. \A d \in DOMAIN clients \ {c} : Commands(d)' = Commands(d)
  BY <1>1 DEF Commands
<1>3. \A i \in 1..n : clients'[c].queue[i].does = "publish" =>
        i \in Commands(c) /\ clients'[c].queue[i] = clients[c].queue[i]
  BY <1>1
<1>4. QueuedWait'
  BY <1>1, <1>2, <1>3 DEF QueueInv, QueuedWait, WaitsOn, IsPublish
<1>5. QueuedInOrder'
  BY <1>1, <1>2, <1>3 DEF QueueInv, QueuedInOrder, IsPublish
<1>6. WaitingQueued'
  <2>1. \A d \in DOMAIN clients : \A i \in Commands(d) :
          i \in Commands(d)' /\ clients'[d].queue[i] = clients[d].queue[i]
    BY <1>1, <1>2
  <2> QED
    BY <1>1, <2>1 DEF QueueInv, WaitingQueued, IsPublish
<1>7. AcceptedKnown' /\ AcceptedInOrder' /\ AcceptedAhead'
  BY DEF QueueInv, AcceptedKnown, AcceptedInOrder, AcceptedAhead, Same
<1> QED
  BY <1>4, <1>5, <1>6, <1>7 DEF QueueInv

\* A publish is queued, the last of all so far.
LEMMA PublishQueued ==
  ASSUME TypeOK, QueueInv, NEW c \in DOMAIN clients, NEW k \in Key \cup {None},
         Queue(c, [does |-> "publish", key |-> k, message |-> Len(messages) + 1]),
         messages' = Append(messages, [client |-> c, key |-> k, answer |-> None]),
         UNCHANGED accepted
  PROVE  QueueInv'
<1> DEFINE n == Len(clients[c].queue) + 1
           m == Len(messages) + 1
           cmd == [does |-> "publish", key |-> k, message |-> m]
           r == [client |-> c, key |-> k, answer |-> None]
<1>1. r \in MessageRecord /\ r.client = c /\ r.key = k /\ r.answer = None
  <2>1. c \in Client
    BY SeqAt DEF TypeOK, ClientRecord, Client
  <2> QED
    BY <2>1 DEF MessageRecord
<1>2. messages' = Append(messages, r)
  OBVIOUS
<1>3. Len(messages) \in Nat
  BY LenProperties DEF TypeOK, MessageRecord
<1>4. cmd \in Command /\ cmd.does = "publish" /\ cmd.key = k /\ cmd.message = m
  BY <1>3 DEF Command, Message
<1>5. Queue(c, cmd)
  OBVIOUS
<1> HIDE DEF r, cmd
<1>6. /\ m \in Nat /\ m \notin DOMAIN messages /\ messages'[m] = r
      /\ DOMAIN messages' = DOMAIN messages \cup {m}
      /\ \A x \in DOMAIN messages : messages'[x] = messages[x] /\ x \in Nat /\ x < m
  <2>1. /\ Len(messages) \in Nat /\ DOMAIN messages = 1..Len(messages)
        /\ DOMAIN messages' = 1..(Len(messages) + 1)
        /\ \A x \in DOMAIN messages : messages'[x] = messages[x]
        /\ messages'[Len(messages) + 1] = r
    BY <1>1, <1>2, MessageAdded
  <2> QED
    BY <2>1
<1>7. /\ n \in Nat /\ n \notin Commands(c) /\ clients'[c].queue[n] = cmd
      /\ Commands(c)' = Commands(c) \cup {n}
      /\ \A j \in Commands(c) : clients'[c].queue[j] = clients[c].queue[j] /\ j \in Nat /\ j < n
      /\ DOMAIN clients' = DOMAIN clients
      /\ \A d \in DOMAIN clients \ {c} : clients'[d] = clients[d]
  <2>1. Len(clients[c].queue) \in Nat /\ Commands(c) = 1..Len(clients[c].queue)
    BY QueueType
  <2>2. /\ DOMAIN clients' = DOMAIN clients
        /\ \A d \in DOMAIN clients \ {c} : clients'[d] = clients[d]
        /\ Commands(c)' = 1..(Len(clients[c].queue) + 1)
        /\ clients'[c].queue[Len(clients[c].queue) + 1] = cmd
        /\ \A j \in Commands(c) : clients'[c].queue[j] = clients[c].queue[j]
    BY <1>4, <1>5, QueuedAt
  <2> QED
    BY <2>1, <2>2
<1> HIDE DEF m, n
<1>8. \A d \in DOMAIN clients \ {c} : Commands(d)' = Commands(d)
  BY <1>7 DEF Commands
<1>9. \A d \in DOMAIN clients : \A i \in Commands(d) :
        i \in Commands(d)' /\ clients'[d].queue[i] = clients[d].queue[i]
  BY <1>7, <1>8
<1>10. \A d \in DOMAIN clients : \A i \in Commands(d)' :
         \/ i \in Commands(d) /\ clients'[d].queue[i] = clients[d].queue[i]
         \/ d = c /\ i = n
  BY <1>7, <1>8
<1>11. QueuedWait'
  <2>1. /\ cmd.message \in DOMAIN messages' /\ messages'[cmd.message].client = c
        /\ messages'[cmd.message].key = cmd.key /\ messages'[cmd.message].answer = None
    BY <1>1, <1>4, <1>6
  <2>2. ASSUME NEW d \in DOMAIN clients, NEW i \in Commands(d)', IsPublish(d, i)'
        PROVE  WaitsOn(clients[d].queue[i], d)'
    <3>1. CASE i \in Commands(d) /\ clients'[d].queue[i] = clients[d].queue[i]
      <4>1. WaitsOn(clients[d].queue[i], d)
        BY <2>2, <3>1 DEF QueueInv, QueuedWait, IsPublish
      <4> QED
        BY <1>6, <3>1, <4>1 DEF WaitsOn
    <3>2. CASE d = c /\ i = n
      BY <1>7, <2>1, <3>2 DEF WaitsOn
    <3> QED
      BY <1>10, <3>1, <3>2
  <2> QED
    BY <1>7, <2>2 DEF QueuedWait
<1>12. QueuedInOrder'
  <2>1. \A i \in Commands(c) : IsPublish(c, i) => clients[c].queue[i].message < m
    BY <1>6 DEF QueueInv, QueuedWait, WaitsOn
  <2>2. ASSUME NEW d \in DOMAIN clients, NEW i \in Commands(d)', NEW j \in Commands(d)',
               i < j, IsPublish(d, i)', IsPublish(d, j)'
        PROVE  clients'[d].queue[i].message < clients'[d].queue[j].message
    <3>1. CASE i \in Commands(d) /\ j \in Commands(d)
      BY <1>9, <2>2, <3>1 DEF QueueInv, QueuedInOrder, IsPublish
    <3>2. CASE i \in Commands(d) /\ d = c /\ j = n
      <4>1. clients'[c].queue[i] = clients[c].queue[i] /\ clients'[c].queue[n] = cmd
        BY <1>7, <3>2
      <4>2. clients[c].queue[i].message < m
        BY <2>1, <2>2, <3>2, <4>1 DEF IsPublish
      <4> QED
        BY <1>4, <3>2, <4>1, <4>2
    <3>3. CASE d = c /\ i = n
      <4>1. j \in Commands(c) \/ j = n
        BY <1>7, <3>3
      <4> QED
        BY <1>7, <2>2, <3>3, <4>1
    <3> QED
      BY <1>10, <3>1, <3>2, <3>3
  <2> QED
    BY <1>7, <2>2 DEF QueuedInOrder
<1>13. WaitingQueued'
  <2>1. n \in Commands(c)' /\ clients'[c].queue[n].does = "publish" /\ clients'[c].queue[n].message = m
    BY <1>4, <1>7
  <2>2. ASSUME NEW x \in DOMAIN messages', NEW d, d = messages'[x].client
        PROVE  /\ d \in DOMAIN clients
               /\ messages'[x].answer = None =>
                    \E i \in Commands(d)' :
                      clients'[d].queue[i].does = "publish" /\ clients'[d].queue[i].message = x
    <3>1. CASE x \in DOMAIN messages
      <4>1. messages'[x] = messages[x] /\ d = messages[x].client
        BY <1>6, <2>2, <3>1
      <4>2. d \in DOMAIN clients
        BY <3>1, <4>1 DEF QueueInv, WaitingQueued
      <4>3. ASSUME messages[x].answer = None
            PROVE  \E i \in Commands(d) :
                     clients[d].queue[i].does = "publish" /\ clients[d].queue[i].message = x
        BY <3>1, <4>1, <4>3 DEF QueueInv, WaitingQueued, IsPublish
      <4>4. \A i \in Commands(d) : i \in Commands(d)' /\ clients'[d].queue[i] = clients[d].queue[i]
        BY <1>9, <4>2
      <4> QED
        BY <4>1, <4>2, <4>3, <4>4
    <3>2. CASE x = m
      <4>1. d = c
        BY <1>1, <1>6, <2>2, <3>2
      <4> QED
        BY <2>1, <3>2, <4>1
    <3> QED
      BY <1>6, <3>1, <3>2
  <2>3. DOMAIN clients' = DOMAIN clients
    BY <1>7
  <2> QED
    BY <2>2, <2>3 DEF WaitingQueued, IsPublish
<1>14. AcceptedKnown' /\ AcceptedInOrder'
  BY <1>6 DEF QueueInv, AcceptedKnown, AcceptedInOrder, Same
<1>15. AcceptedAhead'
  <2>1. \A i \in DOMAIN accepted : accepted[i] < m /\ accepted[i] \in DOMAIN messages
    BY <1>6 DEF QueueInv, AcceptedKnown
  <2>2. \A x \in DOMAIN messages' : x \in DOMAIN messages \/ x = m
    BY <1>6
  <2> QED
    BY <1>6, <2>1, <2>2 DEF QueueInv, AcceptedAhead, Same
<1> QED
  BY <1>11, <1>12, <1>13, <1>14, <1>15 DEF QueueInv

LEMMA FromOrder ==
  ASSUME NEW i \in Int, NEW j \in Int, NEW k \in Int, j < k
  PROVE  From(i, j) < From(i, k)
  BY DEF From

\* Where the commands of a queue come from, once one is taken.
LEMMA TakenFrom ==
  ASSUME TypeOK, NEW c \in DOMAIN clients, NEW i \in Commands(c), NEW p \in SUBSET Key,
         Take(c, i, p)
  PROVE  /\ DOMAIN clients' = DOMAIN clients
         /\ \A d \in DOMAIN clients : \A j \in Commands(d)' : \E k \in Commands(d) :
              clients'[d].queue[j] = clients[d].queue[k] /\ ~(d = c /\ k = i)
         /\ \A d \in DOMAIN clients : \A j, k \in Commands(d)' : j < k =>
              \E a, b \in Commands(d) : /\ a < b
                                        /\ clients'[d].queue[j] = clients[d].queue[a]
                                        /\ clients'[d].queue[k] = clients[d].queue[b]
         /\ \A d \in DOMAIN clients : \A k \in Commands(d) : ~(d = c /\ k = i) =>
              \E j \in Commands(d)' : clients'[d].queue[j] = clients[d].queue[k]
<1>1. /\ DOMAIN clients' = DOMAIN clients
      /\ \A d \in DOMAIN clients \ {c} : clients'[d] = clients[d]
      /\ Commands(c)' = 1..(Len(clients[c].queue) - 1)
      /\ \A j \in Commands(c)' :
           /\ From(i, j) \in Commands(c) /\ From(i, j) # i
           /\ clients'[c].queue[j] = clients[c].queue[From(i, j)]
      /\ \A k \in Commands(c) \ {i} :
           /\ Into(i, k) \in Commands(c)'
           /\ clients'[c].queue[Into(i, k)] = clients[c].queue[k]
  BY TakenAt
<1>2. \A d \in DOMAIN clients \ {c} : Commands(d)' = Commands(d)
  BY <1>1 DEF Commands
<1>3. i \in Int /\ \A j \in Commands(c)' : j \in Int
  BY <1>1, QueueType
<1>4. \A j, k \in Commands(c)' : j < k => From(i, j) < From(i, k)
  BY <1>3, FromOrder
<1>5. ASSUME NEW d \in DOMAIN clients, NEW j \in Commands(d)'
      PROVE  \E k \in Commands(d) :
               clients'[d].queue[j] = clients[d].queue[k] /\ ~(d = c /\ k = i)
  <2>1. CASE d = c
    <3>1. From(i, j) \in Commands(d) /\ From(i, j) # i
      BY <1>1, <1>5, <2>1
    <3>2. clients'[d].queue[j] = clients[d].queue[From(i, j)]
      BY <1>1, <1>5, <2>1
    <3> QED
      BY <3>1, <3>2
  <2>2. CASE d # c
    BY <1>1, <1>2, <1>5, <2>2
  <2> QED
    BY <2>1, <2>2
<1>6. ASSUME NEW d \in DOMAIN clients, NEW j \in Commands(d)', NEW k \in Commands(d)', j < k
      PROVE  \E a, b \in Commands(d) : /\ a < b
                                       /\ clients'[d].queue[j] = clients[d].queue[a]
                                       /\ clients'[d].queue[k] = clients[d].queue[b]
  BY <1>1, <1>2, <1>4, <1>6
<1>7. ASSUME NEW d \in DOMAIN clients, NEW k \in Commands(d), ~(d = c /\ k = i)
      PROVE  \E j \in Commands(d)' : clients'[d].queue[j] = clients[d].queue[k]
  BY <1>1, <1>2, <1>7
<1> QED
  BY <1>1, <1>5, <1>6, <1>7

\* A resume or a flush is done with.
LEMMA OtherTaken ==
  ASSUME TypeOK, QueueInv, NEW c \in DOMAIN clients, NEW i \in Commands(c), NEW p \in SUBSET Key,
         Take(c, i, p), ~IsPublish(c, i), UNCHANGED <<messages, accepted>>
  PROVE  QueueInv'
<1>1. DOMAIN clients' = DOMAIN clients
  BY TakenFrom
<1>2. ASSUME NEW d \in DOMAIN clients, NEW j \in Commands(d)', IsPublish(d, j)'
      PROVE  WaitsOn(clients[d].queue[j], d)'
  <2>1. PICK k \in Commands(d) : clients'[d].queue[j] = clients[d].queue[k]
    BY TakenFrom
  <2>2. WaitsOn(clients[d].queue[k], d)
    BY <1>2, <2>1 DEF QueueInv, QueuedWait, IsPublish
  <2> QED
    BY <2>1, <2>2 DEF WaitsOn
<1>3. QueuedWait'
  BY <1>1, <1>2 DEF QueuedWait
<1>4. ASSUME NEW d \in DOMAIN clients, NEW j \in Commands(d)', NEW k \in Commands(d)', j < k,
             IsPublish(d, j)', IsPublish(d, k)'
      PROVE  clients'[d].queue[j].message < clients'[d].queue[k].message
  <2>1. PICK a \in Commands(d), b \in Commands(d) :
          /\ a < b
          /\ clients'[d].queue[j] = clients[d].queue[a]
          /\ clients'[d].queue[k] = clients[d].queue[b]
    BY <1>4, TakenFrom
  <2> QED
    BY <1>4, <2>1 DEF QueueInv, QueuedInOrder, IsPublish
<1>5. QueuedInOrder'
  BY <1>1, <1>4 DEF QueuedInOrder
<1>6. ASSUME NEW d \in DOMAIN clients, NEW k \in Commands(d), IsPublish(d, k)
      PROVE  \E j \in Commands(d)' : clients'[d].queue[j] = clients[d].queue[k]
  BY <1>6, TakenFrom
<1>7. WaitingQueued'
  BY <1>1, <1>6 DEF QueueInv, WaitingQueued, IsPublish
<1>8. AcceptedKnown' /\ AcceptedInOrder' /\ AcceptedAhead'
  BY DEF QueueInv, AcceptedKnown, AcceptedInOrder, AcceptedAhead, Same
<1> QED
  BY <1>3, <1>5, <1>7, <1>8 DEF QueueInv

\* A publish is the next of all that wait under its key.
LEMMA NextUnderKey ==
  ASSUME TypeOK, QueueInv, NEW c \in DOMAIN clients, NEW i \in Commands(c), IsPublish(c, i),
         Ready(c, i), NEW m, m = clients[c].queue[i].message, NEW x \in DOMAIN messages, x # m,
         messages[x].answer = None, Same(messages[m], messages[x])
  PROVE  m < x
<1>1. WaitsOn(clients[c].queue[i], c)
  BY DEF QueueInv, QueuedWait
<1>2. messages[x].client = c /\ messages[x].key = clients[c].queue[i].key /\ messages[x].key # None
  BY <1>1 DEF Same, WaitsOn
<1>3. PICK j \in Commands(c) : IsPublish(c, j) /\ clients[c].queue[j].message = x
  BY <1>2 DEF QueueInv, WaitingQueued
<1>4. clients[c].queue[j].key = clients[c].queue[i].key
  BY <1>2, <1>3 DEF QueueInv, QueuedWait, WaitsOn
<1>5. i \in Nat /\ j \in Nat /\ i # j /\ 1 <= j
  BY <1>3, QueueType
<1>6. ~(j < i)
  <2>1. \A k \in 1..(i - 1) : clients[c].queue[k].key # clients[c].queue[i].key
    BY <1>2 DEF Ready, IsPublish
  <2> QED
    BY <1>4, <1>5, <2>1
<1> QED
  BY <1>3, <1>5, <1>6 DEF QueueInv, QueuedInOrder

\* A message is answered and leaves the queue.
LEMMA PublishTaken ==
  ASSUME TypeOK, QueueInv, NEW c \in DOMAIN clients, NEW i \in Commands(c), NEW p \in SUBSET Key,
         Take(c, i, p), IsPublish(c, i), Ready(c, i), NEW a \in {"ok", "failed", "refused"},
         Answer(clients[c].queue[i].message, a),
         UNCHANGED accepted \/ accepted' = Append(accepted, clients[c].queue[i].message)
  PROVE  QueueInv'
<1> DEFINE m == clients[c].queue[i].message
<1>1. WaitsOn(clients[c].queue[i], c)
  BY DEF QueueInv, QueuedWait
<1>2. /\ m \in DOMAIN messages /\ DOMAIN messages' = DOMAIN messages
      /\ \A n \in DOMAIN messages \ {m} : messages'[n] = messages[n]
      /\ messages'[m].client = messages[m].client /\ messages'[m].key = messages[m].key
      /\ messages'[m].answer = a /\ messages[m].client = c
  BY <1>1, MessageAnswered DEF WaitsOn
<1>3. \A x \in DOMAIN messages : messages'[x].client = messages[x].client /\ messages'[x].key = messages[x].key
  BY <1>2
<1>4. \A x \in DOMAIN messages : messages'[x].answer = None => x # m /\ messages[x].answer = None
  <2>1. a # None
    BY AnswerAssumption
  <2> QED
    BY <1>2, <2>1
<1> HIDE DEF m
<1>5. DOMAIN clients' = DOMAIN clients
  BY TakenFrom
<1>6. ASSUME NEW d \in DOMAIN clients, NEW k \in Commands(d), IsPublish(d, k), ~(d = c /\ k = i)
      PROVE  clients[d].queue[k].message # m /\ WaitsOn(clients[d].queue[k], d)
  <2>1. WaitsOn(clients[d].queue[k], d)
    BY <1>6 DEF QueueInv, QueuedWait
  <2>2. ASSUME clients[d].queue[k].message = m
        PROVE  FALSE
    <3>1. d = c
      BY <1>2, <2>1, <2>2 DEF WaitsOn
    <3>2. k \in Nat /\ i \in Nat /\ (k < i \/ i < k)
      BY <1>6, <3>1, QueueType
    <3>3. clients[c].queue[k].message \in Nat
      BY <1>2, <2>2, <3>1, SeqAt DEF TypeOK
    <3> QED
      BY <1>6, <2>2, <3>1, <3>2, <3>3 DEF QueueInv, QueuedInOrder, m
  <2> QED
    BY <2>1, <2>2
<1>7. ASSUME NEW d \in DOMAIN clients, NEW j \in Commands(d)', IsPublish(d, j)'
      PROVE  WaitsOn(clients[d].queue[j], d)'
  <2>1. PICK k \in Commands(d) : clients'[d].queue[j] = clients[d].queue[k] /\ ~(d = c /\ k = i)
    BY TakenFrom
  <2>2. clients[d].queue[k].message # m /\ WaitsOn(clients[d].queue[k], d)
    BY <1>6, <1>7, <2>1 DEF IsPublish
  <2> QED
    BY <1>2, <2>1, <2>2 DEF WaitsOn
<1>8. QueuedWait'
  BY <1>5, <1>7 DEF QueuedWait
<1>9. ASSUME NEW d \in DOMAIN clients, NEW j \in Commands(d)', NEW k \in Commands(d)', j < k,
             IsPublish(d, j)', IsPublish(d, k)'
      PROVE  clients'[d].queue[j].message < clients'[d].queue[k].message
  <2>1. PICK x \in Commands(d), y \in Commands(d) :
          /\ x < y
          /\ clients'[d].queue[j] = clients[d].queue[x]
          /\ clients'[d].queue[k] = clients[d].queue[y]
    BY <1>9, TakenFrom
  <2> QED
    BY <1>9, <2>1 DEF QueueInv, QueuedInOrder, IsPublish
<1>10. QueuedInOrder'
  BY <1>5, <1>9 DEF QueuedInOrder
<1>11. ASSUME NEW x \in DOMAIN messages, messages'[x].answer = None
       PROVE  \E j \in Commands(messages[x].client)' :
                /\ IsPublish(messages[x].client, j)'
                /\ clients'[messages'[x].client].queue[j].message = x
  <2>6. PICK d : d = messages[x].client
    OBVIOUS
  <2>1. x # m /\ messages[x].answer = None
    BY <1>4, <1>11
  <2>2. PICK k \in Commands(d) : IsPublish(d, k) /\ clients[d].queue[k].message = x
    BY <2>1, <2>6 DEF QueueInv, WaitingQueued
  <2>3. d \in DOMAIN clients
    BY <2>6 DEF QueueInv, WaitingQueued
  <2>4. ~(d = c /\ k = i)
    BY <2>1, <2>2 DEF m
  <2>5. PICK j \in Commands(d)' : clients'[d].queue[j] = clients[d].queue[k]
    BY <2>3, <2>4, TakenFrom
  <2>7. d = messages'[x].client
    BY <1>3, <2>6
  <2> QED
    BY <2>2, <2>5, <2>7 DEF IsPublish
<1>12. WaitingQueued'
  BY <1>2, <1>3, <1>5, <1>11 DEF QueueInv, WaitingQueued
<1>13. \A x \in DOMAIN messages, y \in DOMAIN messages :
         Same(messages[x], messages[y])' <=> Same(messages[x], messages[y])
  BY <1>3 DEF Same
<1>14. \A x \in DOMAIN messages :
         messages[x].answer = None /\ x # m /\ Same(messages[m], messages[x]) => m < x
  BY <1>2, NextUnderKey DEF m
<1>15. \A k \in DOMAIN accepted : Same(messages[accepted[k]], messages[m]) => accepted[k] < m
  BY <1>1, <1>2 DEF QueueInv, AcceptedAhead, WaitsOn, m
<1>16. ASSUME UNCHANGED accepted
       PROVE  AcceptedKnown' /\ AcceptedInOrder' /\ AcceptedAhead'
  BY <1>2, <1>4, <1>13, <1>16 DEF QueueInv, AcceptedKnown, AcceptedInOrder, AcceptedAhead
<1>17. ASSUME accepted' = Append(accepted, m)
       PROVE  AcceptedKnown' /\ AcceptedInOrder' /\ AcceptedAhead'
  <2>1. m \in Message
    BY <1>2, SeqAt DEF TypeOK, Message
  <2> DEFINE n == Len(accepted) + 1
  <2>2. /\ n \in Nat /\ n \notin DOMAIN accepted /\ accepted'[n] = m
        /\ DOMAIN accepted' = DOMAIN accepted \cup {n}
        /\ \A k \in DOMAIN accepted : accepted'[k] = accepted[k] /\ k \in Nat /\ k < n
    <3>1. /\ Len(accepted) \in Nat /\ DOMAIN accepted = 1..Len(accepted)
          /\ DOMAIN accepted' = 1..(Len(accepted) + 1)
          /\ \A k \in DOMAIN accepted : accepted'[k] = accepted[k]
          /\ accepted'[Len(accepted) + 1] = m
      BY <1>17, <2>1, AcceptedAdded
    <3> QED
      BY <3>1
  <2> HIDE DEF n
  <2>3. AcceptedKnown'
    BY <1>2, <2>2 DEF QueueInv, AcceptedKnown
  <2>4. ASSUME NEW x \in DOMAIN accepted', NEW y \in DOMAIN accepted', x < y,
               Same(messages'[accepted'[x]], messages'[accepted'[y]])
        PROVE  accepted'[x] < accepted'[y]
    <3>1. x \in DOMAIN accepted
      <4>1. ASSUME x = n
            PROVE  FALSE
        BY <2>2, <2>4, <4>1
      <4> QED
        BY <2>2, <4>1
    <3>2. CASE y \in DOMAIN accepted
      BY <1>13, <2>2, <2>4, <3>1, <3>2 DEF QueueInv, AcceptedKnown, AcceptedInOrder
    <3>3. CASE y = n
      BY <1>2, <1>13, <1>15, <2>2, <2>4, <3>1, <3>3 DEF QueueInv, AcceptedKnown
    <3> QED
      BY <2>2, <3>2, <3>3
  <2>5. AcceptedInOrder'
    BY <2>4 DEF AcceptedInOrder
  <2>6. ASSUME NEW x \in DOMAIN accepted', NEW y \in DOMAIN messages, messages'[y].answer = None,
               Same(messages'[accepted'[x]], messages'[y])
        PROVE  accepted'[x] < y
    <3>1. y # m /\ messages[y].answer = None
      BY <1>4, <2>6
    <3>2. CASE x \in DOMAIN accepted
      BY <1>13, <2>2, <2>6, <3>1, <3>2 DEF QueueInv, AcceptedKnown, AcceptedAhead
    <3>3. CASE x = n
      BY <1>2, <1>13, <1>14, <2>2, <2>6, <3>1, <3>3
    <3> QED
      BY <2>2, <3>2, <3>3
  <2>7. AcceptedAhead'
    BY <1>2, <2>6 DEF AcceptedAhead
  <2> QED
    BY <2>3, <2>5, <2>7
<1>18. AcceptedKnown' /\ AcceptedInOrder' /\ AcceptedAhead'
  BY <1>16, <1>17 DEF m
<1> QED
  BY <1>8, <1>10, <1>12, <1>18 DEF QueueInv

LEMMA QueueFrame ==
  ASSUME QueueInv, UNCHANGED <<clients, messages, accepted>>
  PROVE  QueueInv'
<1>1. QueuedWait' /\ QueuedInOrder' /\ WaitingQueued'
  BY DEF QueueInv, QueuedWait, WaitsOn, QueuedInOrder, WaitingQueued, Commands, IsPublish
<1>2. AcceptedKnown' /\ AcceptedInOrder' /\ AcceptedAhead'
  BY DEF QueueInv, AcceptedKnown, AcceptedInOrder, AcceptedAhead, Same
<1> QED
  BY <1>1, <1>2 DEF QueueInv

LEMMA QueueInit == Init => QueueInv
<1> SUFFICES ASSUME Init PROVE QueueInv
  OBVIOUS
<1>1. DOMAIN clients = {} /\ DOMAIN messages = {} /\ DOMAIN accepted = {}
  BY DEF Init
<1> QED
  BY <1>1 DEF QueueInv, QueuedWait, QueuedInOrder, WaitingQueued, AcceptedKnown, AcceptedInOrder,
              AcceptedAhead

\* What a worker about to use its client publisher has in hand.
LEMMA AtUse ==
  ASSUME TypeInv, ClientInv, NEW w \in Worker, job[w].pc = "use"
  PROVE  /\ job[w] \in Job /\ job[w].name \in Name /\ job[w].key \in Key \cup {None}
         /\ job[w].client \in DOMAIN clients
         /\ clients[job[w].client].topic = TopicOf[job[w].name]
         /\ job[w].does \in {"publish", "resume"}
<1>1. job[w] \in Job /\ job[w].client # None /\ job[w].name \in Name
  BY DEF TypeInv, TypeOK, JobFields
<1>2. job[w].key \in Key \cup {None} /\ job[w].does \in {"publish", "resume"}
  BY <1>1 DEF Job
<1> QED
  BY <1>1, <1>2 DEF ClientInv, RightPublisher

LEMMA ResumeCommand ==
  ASSUME TypeInv, ClientInv, NEW w \in Worker, job[w].pc = "use", job[w].does = "resume"
  PROVE  [does |-> "resume", key |-> job[w].key, message |-> job[w].message] \in Command
<1>1. job[w].message \in DOMAIN messages
  BY DEF TypeInv, JobFields
<1>2. job[w].message \in Message
  BY <1>1, SeqAt DEF TypeInv, TypeOK, Message
<1> QED
  BY <1>2, AtUse DEF Command

LEMMA QueueUse ==
  ASSUME TypeInv, ClientInv, QueueInv, NEW w \in Worker, Use(w)
  PROVE  QueueInv'
<1> DEFINE c == job[w].client
           k == job[w].key
<1>1. job[w].pc = "use" /\ accepted' = accepted /\ Enqueue(w)
  BY DEF Use
<1>2. c \in DOMAIN clients /\ k \in Key \cup {None} /\ job[w].does \in {"publish", "resume"}
  BY <1>1, AtUse
<1>3. CASE job[w].does = "publish"
  <2>1. /\ Queue(c, [does |-> "publish", key |-> k, message |-> Len(messages) + 1])
        /\ messages' = Append(messages, [client |-> c, key |-> k, answer |-> None])
    BY <1>1, <1>3 DEF Enqueue
  <2> HIDE DEF c, k
  <2> QED
    BY <1>1, <1>2, <2>1, PublishQueued DEF TypeInv
<1>4. CASE job[w].does = "resume"
  <2> DEFINE m == [does |-> "resume", key |-> k, message |-> job[w].message]
  <2>1. Queue(c, m) /\ messages' = messages
    BY <1>1, <1>4 DEF Enqueue
  <2>2. m \in Command /\ m.does # "publish"
    BY <1>1, <1>4, ResumeCommand
  <2> HIDE DEF c, m
  <2> QED
    BY <1>1, <1>2, <2>1, <2>2, OtherQueued DEF TypeInv
<1> QED
  BY <1>2, <1>3, <1>4

LEMMA QueueBuild ==
  ASSUME TypeInv, QueueInv, NEW w \in Worker, Build(w)
  PROVE  QueueInv'
<1> DEFINE t == TopicOf[job[w].name]
<1>1. t \in Topic
  BY DEF Build, TypeInv, JobFields
<1>2. clients' = Append(clients, [topic |-> t, queue |-> <<>>, paused |-> {}])
      /\ UNCHANGED <<messages, accepted>>
  BY DEF Build
<1> HIDE DEF t
<1> QED
  BY <1>1, <1>2, BuildQueues DEF TypeInv

\* What the client library takes from a queue, and what becomes of it.
LEMMA WorkTakes ==
  ASSUME TypeOK, NEW c \in DOMAIN clients, NEW i \in Commands(c), Work(c, i)
  PROVE  /\ Ready(c, i)
         /\ \E p \in SUBSET Key : Take(c, i, p)
         /\ \/ /\ clients[c].queue[i].does = "resume"
               /\ UNCHANGED <<messages, accepted>>
            \/ /\ IsPublish(c, i)
               /\ \E a \in {"ok", "failed", "refused"} : Answer(clients[c].queue[i].message, a)
               /\ \/ UNCHANGED accepted
                  \/ accepted' = Append(accepted, clients[c].queue[i].message)
<1>1. clients[c].queue[i].key \in Key \cup {None} /\ clients[c].paused \in SUBSET Key
  BY AtCommand DEF Commands
<1>2. /\ clients[c].paused \cup ({clients[c].queue[i].key} \ {None}) \in SUBSET Key
      /\ clients[c].paused \ {clients[c].queue[i].key} \in SUBSET Key
  BY <1>1
<1>3. CASE Deliver(c, i)
  BY <1>1, <1>3 DEF Deliver, IsPublish
<1>4. CASE Fail(c, i)
  BY <1>2, <1>4 DEF Fail, IsPublish
<1>5. CASE Refuse(c, i)
  BY <1>1, <1>5 DEF Refuse, IsPublish
<1>6. CASE Resume(c, i)
  BY <1>2, <1>6 DEF Resume
<1> QED
  BY <1>3, <1>4, <1>5, <1>6 DEF Work

LEMMA QueueWork ==
  ASSUME TypeInv, QueueInv, NEW c \in DOMAIN clients, NEW i \in DOMAIN clients[c].queue, Work(c, i)
  PROVE  QueueInv'
<1>1. i \in Commands(c) /\ TypeOK
  BY DEF Commands, TypeInv
<1>2. Ready(c, i)
  BY <1>1, WorkTakes
<1>3. PICK p \in SUBSET Key : Take(c, i, p)
  BY <1>1, WorkTakes
<1>4. CASE clients[c].queue[i].does = "resume" /\ UNCHANGED <<messages, accepted>>
  <2>1. ~IsPublish(c, i)
    BY <1>4 DEF IsPublish
  <2> QED
    BY <1>1, <1>3, <1>4, <2>1, OtherTaken
<1>5. CASE /\ IsPublish(c, i)
           /\ \E a \in {"ok", "failed", "refused"} : Answer(clients[c].queue[i].message, a)
           /\ UNCHANGED accepted \/ accepted' = Append(accepted, clients[c].queue[i].message)
  <2>1. PICK a \in {"ok", "failed", "refused"} : Answer(clients[c].queue[i].message, a)
    BY <1>5
  <2> QED
    BY <1>1, <1>2, <1>3, <1>5, <2>1, PublishTaken
<1> QED
  BY <1>1, <1>4, <1>5, WorkTakes

LEMMA QueueFlush ==
  ASSUME TypeInv, QueueInv, NEW c \in DOMAIN clients, Flush(c) \/ Flushed(c)
  PROVE  QueueInv'
<1>1. UNCHANGED <<messages, accepted>>
  BY DEF Flush, Flushed
<1>2. CASE Flush(c)
  <2> DEFINE m == [does |-> "flush", key |-> None, message |-> None]
  <2>1. m \in Command /\ m.does # "publish" /\ Queue(c, m)
    BY <1>2 DEF Flush, Command
  <2> HIDE DEF m
  <2> QED
    BY <1>1, <2>1, OtherQueued DEF TypeInv
<1>3. CASE Flushed(c)
  <2>1. 1 \in Commands(c) /\ Take(c, 1, clients[c].paused) /\ ~IsPublish(c, 1)
    BY <1>3 DEF Flushed, Ready, Commands, IsPublish
  <2>2. clients[c].paused \in SUBSET Key
    BY QueueType DEF TypeInv
  <2> QED
    BY <1>1, <2>1, <2>2, OtherTaken DEF TypeInv
<1> QED
  BY <1>2, <1>3

LEMMA QueueStep ==
  ASSUME TypeInv, ClientInv, QueueInv, [Next]_vars
  PROVE  QueueInv'
<1>1. CASE UNCHANGED vars
  BY <1>1, QueueFrame DEF vars
<1>2. ASSUME NEW w \in Worker, Proceed(w) PROVE QueueInv'
  <2>1. CASE Find(w) \/ Load(w) \/ Lock(w) \/ Remember(w) \/ Return(w)
    <3>1. UNCHANGED <<clients, messages, accepted>>
      BY <2>1 DEF Find, Load, Lock, Remember, Return
    <3> QED
      BY <3>1, QueueFrame
  <2> QED
    BY <1>2, <2>1, QueueBuild, QueueUse DEF Proceed
<1>3. ASSUME NEW w \in Worker, \E h \in Handle, n \in Name, k \in Key \cup {None} : Publish(w, h, n, k)
      PROVE  QueueInv'
  <2>1. UNCHANGED <<clients, messages, accepted>>
    BY <1>3 DEF Publish
  <2> QED
    BY <2>1, QueueFrame
<1>4. ASSUME NEW w \in Worker, Abandon(w) PROVE QueueInv'
  <2>1. UNCHANGED <<clients, messages, accepted>>
    BY <1>4 DEF Abandon
  <2> QED
    BY <2>1, QueueFrame
<1>5. ASSUME NEW c \in DOMAIN clients, NEW i \in DOMAIN clients[c].queue, Work(c, i) PROVE QueueInv'
  BY <1>5, QueueWork
<1>6. ASSUME NEW c \in DOMAIN clients, Flush(c) \/ Flushed(c) PROVE QueueInv'
  BY <1>6, QueueFlush
<1>7. CASE Close \/ All \/ Done
  <2>1. UNCHANGED <<clients, messages, accepted>>
    BY <1>7 DEF Close, All, Done
  <2> QED
    BY <2>1, QueueFrame
<1> QED
  BY <1>1, <1>2, <1>3, <1>4, <1>5, <1>6, <1>7 DEF Next

LEMMA QueueAlways == Spec => [](TypeInv /\ ClientInv /\ QueueInv)
<1>1. Init => QueueInv
  BY QueueInit
<1>2. (TypeInv /\ ClientInv) /\ QueueInv /\ [Next]_vars => QueueInv'
  BY QueueStep
<1> QED
  BY <1>1, <1>2, ClientAlways, PTL DEF Spec

\* The service takes the messages of one topic under one key in the order they
\* were published, whichever handle and spelling each went through: they share
\* the topic's one client publisher (TopicPublishers), and what it took comes
\* before whatever still waits there under the key.
THEOREM InKeyOrder == Spec => []KeyOrder
<1>1. ASSUME TypeInv, ClientInv, QueueInv
      PROVE  KeyOrder
  <2>1. SUFFICES ASSUME NEW i \in DOMAIN accepted, NEW j \in DOMAIN accepted, i < j,
                        messages[accepted[i]].key # None,
                        messages[accepted[i]].key = messages[accepted[j]].key,
                        clients[messages[accepted[i]].client].topic
                          = clients[messages[accepted[j]].client].topic
                 PROVE  accepted[i] < accepted[j]
    BY DEF KeyOrder
  <2>2. /\ messages[accepted[i]].client \in DOMAIN clients
        /\ messages[accepted[j]].client \in DOMAIN clients
    BY <1>1 DEF QueueInv, AcceptedKnown, WaitingQueued
  <2>3. messages[accepted[i]].client = messages[accepted[j]].client
    BY <1>1, <2>1, <2>2 DEF ClientInv, MapExact
  <2> QED
    BY <1>1, <2>1, <2>3 DEF QueueInv, AcceptedInOrder, Same
<1>2. TypeInv /\ ClientInv /\ QueueInv => KeyOrder
  BY <1>1
<1> QED
  BY <1>2, QueueAlways, PTL

--------------------------------------------------------------------------------
(* What shutdown waits for *)

LEMMA FlushParts ==
  ASSUME FlushInv
  PROVE  ClosedIs /\ OpenKnown /\ FlushLast /\ ToFlush /\ FlushCovers
  BY DEF FlushInv

LEMMA FlushInit == Init => FlushInv
<1> SUFFICES ASSUME Init PROVE FlushInv
  OBVIOUS
<1>1. DOMAIN clients = {} /\ queuedOpen = {} /\ closed = FALSE /\ stage = "running"
  BY DEF Init
<1> QED
  BY <1>1 DEF FlushInv, ClosedIs, OpenKnown, FlushLast, ToFlush, FlushCovers

\* A step of a lookup, or a call that queues nothing.
LEMMA FlushFrame ==
  ASSUME FlushInv, UNCHANGED <<clients, messages, queuedOpen, closed, stage, unflushed>>
  PROVE  FlushInv'
  BY DEF FlushInv, ClosedIs, OpenKnown, FlushLast, ToFlush, FlushCovers, Commands, IsPublish

\* A client publisher that is built has nothing to flush.
LEMMA FlushBuild ==
  ASSUME TypeInv, FlushInv, NEW w \in Worker, Build(w)
  PROVE  FlushInv'
<1> DEFINE t == TopicOf[job[w].name]
<1>1. t \in Topic
  BY DEF Build, TypeInv, JobFields
<1>2. clients' = Append(clients, [topic |-> t, queue |-> <<>>, paused |-> {}])
      /\ UNCHANGED <<messages, queuedOpen, closed, stage, unflushed>>
  BY DEF Build, shutdownVars, historyVars
<1> HIDE DEF t
<1> DEFINE n == Len(clients) + 1
<1>3. /\ DOMAIN clients' = DOMAIN clients \cup {n}
      /\ \A d \in DOMAIN clients : clients'[d] = clients[d]
      /\ clients'[n].queue = << >>
  BY <1>1, <1>2, BuiltAt DEF TypeInv
<1> HIDE DEF n
<1>4. /\ \A c \in DOMAIN clients : Commands(c)' = Commands(c)
      /\ \A c : c = n => Commands(c)' = {}
  BY <1>3 DEF Commands
<1>5. FlushLast'
  BY <1>2, <1>3, <1>4 DEF FlushInv, FlushLast, IsPublish
<1>6. ClosedIs' /\ OpenKnown' /\ ToFlush' /\ FlushCovers'
  BY <1>2 DEF FlushInv, ClosedIs, OpenKnown, ToFlush, FlushCovers
<1> QED
  BY <1>5, <1>6 DEF FlushInv

\* A command that is not a flush joins a queue: behind every flush if it is a
\* publish the shutdown need not wait for.
LEMMA FlushQueued ==
  ASSUME TypeOK, FlushInv, NEW c \in DOMAIN clients, NEW m \in Command, Queue(c, m),
         queuedOpen' = queuedOpen \/ (stage = "running" /\ stage' = "running"),
         m.does = "publish" => m.message \notin queuedOpen,
         m.does = "flush" => stage = "flushing", UNCHANGED stage
  PROVE  FlushLast'
<1> DEFINE n == Len(clients[c].queue) + 1
<1>1. /\ n \in Nat /\ n \notin Commands(c) /\ clients'[c].queue[n] = m
      /\ Commands(c)' = Commands(c) \cup {n}
      /\ \A j \in Commands(c) : clients'[c].queue[j] = clients[c].queue[j] /\ j \in Nat /\ j < n
      /\ DOMAIN clients' = DOMAIN clients
      /\ \A d \in DOMAIN clients \ {c} : clients'[d] = clients[d]
  <2>1. Len(clients[c].queue) \in Nat /\ Commands(c) = 1..Len(clients[c].queue)
    BY QueueType
  <2>2. /\ DOMAIN clients' = DOMAIN clients
        /\ \A d \in DOMAIN clients \ {c} : clients'[d] = clients[d]
        /\ Commands(c)' = 1..(Len(clients[c].queue) + 1)
        /\ clients'[c].queue[Len(clients[c].queue) + 1] = m
        /\ \A j \in Commands(c) : clients'[c].queue[j] = clients[c].queue[j]
    BY QueuedAt
  <2> QED
    BY <2>1, <2>2
<1> HIDE DEF n
<1>2. \A d \in DOMAIN clients \ {c} : Commands(d)' = Commands(d)
  BY <1>1 DEF Commands
<1>3. \A d \in DOMAIN clients : \A i \in Commands(d)' :
        \/ i \in Commands(d) /\ clients'[d].queue[i] = clients[d].queue[i]
        \/ d = c /\ i = n
  BY <1>1, <1>2
<1>4. SUFFICES ASSUME NEW d \in DOMAIN clients, NEW i \in Commands(d)',
                      clients'[d].queue[i].does = "flush"
               PROVE  /\ stage \in {"flushing", "done"}
                      /\ \A j \in Commands(d)' :
                           clients'[d].queue[j].does = "publish"
                             /\ clients'[d].queue[j].message \in queuedOpen' => j < i
  BY <1>1 DEF FlushLast, IsPublish
<1>5. stage \in {"flushing", "done"}
  <2>1. CASE i \in Commands(d) /\ clients'[d].queue[i] = clients[d].queue[i]
    BY <1>4, <2>1 DEF FlushInv, FlushLast
  <2>2. CASE d = c /\ i = n
    BY <1>1, <1>4, <2>2
  <2> QED
    BY <1>3, <2>1, <2>2
<1>6. queuedOpen' = queuedOpen
  BY <1>5
<1>7. ASSUME NEW j \in Commands(d)', clients'[d].queue[j].does = "publish",
             clients'[d].queue[j].message \in queuedOpen
      PROVE  j < i
  <2>1. j \in Commands(d) /\ clients'[d].queue[j] = clients[d].queue[j]
    BY <1>1, <1>3, <1>7
  <2>2. CASE i \in Commands(d) /\ clients'[d].queue[i] = clients[d].queue[i]
    BY <1>4, <1>7, <2>1, <2>2 DEF FlushInv, FlushLast, IsPublish
  <2>3. CASE d = c /\ i = n
    BY <1>1, <2>1, <2>3
  <2> QED
    BY <1>3, <2>2, <2>3
<1> QED
  BY <1>5, <1>6, <1>7

LEMMA FlushUse ==
  ASSUME TypeInv, ClientInv, FlushInv, NEW w \in Worker, Use(w)
  PROVE  FlushInv'
<1> DEFINE c == job[w].client
           k == job[w].key
<1>1. job[w].pc = "use" /\ Enqueue(w) /\ UNCHANGED <<closed, stage, unflushed>>
  BY DEF Use, shutdownVars
<1>2. c \in DOMAIN clients /\ k \in Key \cup {None} /\ job[w].does \in {"publish", "resume"}
  BY <1>1, AtUse
<1>3. CASE job[w].does = "publish"
  <2> DEFINE n == Len(messages) + 1
             m == [does |-> "publish", key |-> k, message |-> n]
             r == [client |-> c, key |-> k, answer |-> None]
  <2>1. /\ Queue(c, m) /\ messages' = Append(messages, r)
        /\ queuedOpen' = IF closed THEN queuedOpen ELSE queuedOpen \cup {n}
    BY <1>1, <1>3 DEF Enqueue
  <2>2. Len(messages) \in Nat
    BY LenProperties DEF TypeInv, TypeOK
  <2>3. m \in Command /\ m.does = "publish" /\ m.message = n
    BY <1>2, <2>2 DEF Command, Message
  <2>4. r \in MessageRecord
    <3>1. c \in Client
      BY <1>2, SeqAt DEF TypeInv, TypeOK, ClientRecord, Client
    <3> QED
      BY <1>2, <3>1 DEF MessageRecord
  <2> HIDE DEF c, k, m, r
  <2>5. /\ DOMAIN messages' = DOMAIN messages \cup {n} /\ n \notin DOMAIN messages
        /\ \A x \in DOMAIN messages : messages'[x] = messages[x]
    <3>1. /\ Len(messages) \in Nat /\ DOMAIN messages = 1..Len(messages)
          /\ DOMAIN messages' = 1..(Len(messages) + 1)
          /\ \A x \in DOMAIN messages : messages'[x] = messages[x]
      BY <2>1, <2>4, MessageAdded DEF TypeInv
    <3> QED
      BY <3>1
  <2> HIDE DEF n
  <2>6. n \notin queuedOpen
    BY <2>5 DEF FlushInv, OpenKnown
  <2>7. queuedOpen' = queuedOpen \/ (stage = "running" /\ stage' = "running")
    BY <1>1, <2>1 DEF FlushInv, ClosedIs
  <2>8. FlushLast'
    BY <1>1, <1>2, <2>1, <2>3, <2>6, <2>7, FlushQueued DEF TypeInv
  <2>9. OpenKnown'
    BY <2>1, <2>5 DEF FlushInv, OpenKnown
  <2>10. ToFlush' /\ FlushCovers'
    BY <1>1, <2>5, <2>7 DEF FlushInv, OpenKnown, ToFlush, FlushCovers
  <2> QED
    BY <1>1, <2>8, <2>9, <2>10 DEF FlushInv, ClosedIs
<1>4. CASE job[w].does = "resume"
  <2> DEFINE m == [does |-> "resume", key |-> k, message |-> job[w].message]
  <2>1. Queue(c, m) /\ UNCHANGED <<messages, queuedOpen>>
    BY <1>1, <1>4 DEF Enqueue, historyVars
  <2>2. m \in Command /\ m.does = "resume"
    BY <1>1, <1>4, ResumeCommand
  <2> HIDE DEF c, m
  <2>3. FlushLast'
    BY <1>1, <1>2, <2>1, <2>2, FlushQueued DEF TypeInv
  <2> QED
    BY <1>1, <2>1, <2>3 DEF FlushInv, ClosedIs, OpenKnown, ToFlush, FlushCovers
<1> QED
  BY <1>2, <1>3, <1>4

\* A command that leaves a queue leaves the flushes behind what they wait for.
LEMMA FlushTaken ==
  ASSUME TypeOK, FlushInv, NEW c \in DOMAIN clients, NEW i \in Commands(c), NEW p \in SUBSET Key,
         Take(c, i, p), UNCHANGED <<queuedOpen, stage>>
  PROVE  FlushLast'
<1>1. SUFFICES ASSUME NEW d \in DOMAIN clients, NEW j \in Commands(d)',
                      clients'[d].queue[j].does = "flush"
               PROVE  /\ stage \in {"flushing", "done"}
                      /\ \A k \in Commands(d)' :
                           clients'[d].queue[k].does = "publish"
                             /\ clients'[d].queue[k].message \in queuedOpen => k < j
  <2>1. DOMAIN clients' = DOMAIN clients
    BY TakenFrom
  <2> QED
    BY <1>1, <2>1 DEF FlushLast, IsPublish
<1>2. stage \in {"flushing", "done"}
  <2>1. PICK x \in Commands(d) : clients'[d].queue[j] = clients[d].queue[x]
    BY TakenFrom
  <2> QED
    BY <1>1, <2>1 DEF FlushInv, FlushLast
<1>3. ASSUME NEW k \in Commands(d)', clients'[d].queue[k].does = "publish",
             clients'[d].queue[k].message \in queuedOpen
      PROVE  k < j
  <2>1. k # j
    BY <1>1, <1>3
  <2>2. ASSUME j < k
        PROVE  FALSE
    <3>1. PICK x \in Commands(d), y \in Commands(d) :
            /\ x < y
            /\ clients'[d].queue[j] = clients[d].queue[x]
            /\ clients'[d].queue[k] = clients[d].queue[y]
      BY <2>2, TakenFrom
    <3>2. y < x
      BY <1>1, <1>3, <3>1 DEF FlushInv, FlushLast, IsPublish
    <3>3. x \in Nat /\ y \in Nat
      BY QueueType
    <3> QED
      BY <3>1, <3>2, <3>3
  <2>3. j \in Int /\ k \in Int
    <3>1. CASE d = c
      <4>1. Commands(c)' = 1..(Len(clients[c].queue) - 1)
        BY TakenAt
      <4> QED
        BY <3>1, <4>1
    <3>2. CASE d # c
      <4>1. clients'[d] = clients[d]
        BY <3>2, TakenAt
      <4>2. j \in Commands(d) /\ k \in Commands(d)
        BY <4>1 DEF Commands
      <4> QED
        BY <4>2, QueueType
    <3> QED
      BY <3>1, <3>2
  <2> QED
    BY <2>1, <2>2, <2>3
<1> QED
  BY <1>2, <1>3

LEMMA FlushWork ==
  ASSUME TypeInv, QueueInv, FlushInv, NEW c \in DOMAIN clients, NEW i \in DOMAIN clients[c].queue,
         Work(c, i)
  PROVE  FlushInv'
<1>1. i \in Commands(c) /\ TypeOK
  BY DEF Commands, TypeInv
<1>2. UNCHANGED <<closed, stage, unflushed, queuedOpen>>
  BY DEF Work, Deliver, Fail, Refuse, Resume, shutdownVars, historyVars
<1>3. PICK p \in SUBSET Key : Take(c, i, p)
  BY <1>1, WorkTakes
<1>4. FlushLast'
  BY <1>1, <1>2, <1>3, FlushTaken
<1>5. /\ DOMAIN messages' = DOMAIN messages
      /\ \A x \in DOMAIN messages :
           /\ messages'[x].client = messages[x].client
           /\ messages'[x].answer = None => messages[x].answer = None
  <2>1. CASE UNCHANGED messages
    BY <2>1
  <2>2. ASSUME IsPublish(c, i), NEW a \in {"ok", "failed", "refused"},
               Answer(clients[c].queue[i].message, a)
        PROVE  /\ DOMAIN messages' = DOMAIN messages
               /\ \A x \in DOMAIN messages :
                    /\ messages'[x].client = messages[x].client
                    /\ messages'[x].answer = None => messages[x].answer = None
    <3>1. clients[c].queue[i].message \in DOMAIN messages /\ a # None
      BY <1>1, <2>2, AnswerAssumption DEF QueueInv, QueuedWait, WaitsOn
    <3> QED
      BY <1>1, <2>2, <3>1, MessageAnswered
  <2> QED
    BY <1>1, <2>1, <2>2, WorkTakes
<1> QED
  BY <1>2, <1>4, <1>5 DEF FlushInv, ClosedIs, OpenKnown, ToFlush, FlushCovers

LEMMA FlushFlush ==
  ASSUME TypeInv, QueueInv, FlushInv, NEW c \in DOMAIN clients, Flush(c) \/ Flushed(c)
  PROVE  FlushInv'
<1>1. UNCHANGED <<closed, stage, messages, queuedOpen>>
  BY DEF Flush, Flushed, historyVars
<1>2. CASE Flush(c)
  <2> DEFINE m == [does |-> "flush", key |-> None, message |-> None]
  <2>1. /\ m \in Command /\ m.does = "flush" /\ Queue(c, m)
        /\ stage = "flushing" /\ unflushed' = unflushed
    BY <1>2 DEF Flush, Command
  <2> HIDE DEF m
  <2>2. FlushLast'
    BY <1>1, <2>1, FlushQueued DEF TypeInv
  <2> QED
    BY <1>1, <2>1, <2>2 DEF FlushInv, ClosedIs, OpenKnown, ToFlush, FlushCovers
<1>3. CASE Flushed(c)
  <2>1. /\ 1 \in Commands(c) /\ Take(c, 1, clients[c].paused)
        /\ clients[c].queue[1].does = "flush" /\ unflushed' = unflushed \ {c}
    BY <1>3 DEF Flushed, Ready, Commands
  <2>2. clients[c].paused \in SUBSET Key
    BY QueueType DEF TypeInv
  <2>3. FlushLast'
    BY <1>1, <2>1, <2>2, FlushTaken DEF TypeInv
  <2>4. ASSUME NEW m \in queuedOpen, messages[m].answer = None, messages[m].client = c
        PROVE  FALSE
    <3>1. PICK i \in Commands(c) : IsPublish(c, i) /\ clients[c].queue[i].message = m
      BY <2>4 DEF QueueInv, WaitingQueued, FlushInv, OpenKnown
    <3>2. i < 1
      BY <2>1, <3>1 DEF FlushInv, FlushLast
    <3>3. i \in Nat \ {0}
      BY QueueType DEF TypeInv
    <3> QED
      BY <3>2, <3>3
  <2>5. ToFlush'
    BY <1>1, <2>1, <2>4 DEF FlushInv, ToFlush
  <2> QED
    BY <1>1, <2>3, <2>5 DEF FlushInv, ClosedIs, OpenKnown, FlushCovers
<1> QED
  BY <1>2, <1>3

LEMMA FlushShutdown ==
  ASSUME TypeInv, ClientInv, QueueInv, FlushInv, Close \/ All \/ Done
  PROVE  FlushInv'
<1>1. UNCHANGED <<clients, messages, queuedOpen>>
  BY DEF Close, All, Done, historyVars
<1>2. OpenKnown'
  BY <1>1 DEF FlushInv, OpenKnown
<1>3. FlushLast'
  <2>1. stage \in {"flushing", "done"} => stage' \in {"flushing", "done"}
    BY DEF Close, All, Done
  <2> QED
    BY <1>1, <2>1 DEF FlushInv, FlushLast, Commands, IsPublish
<1>4. CASE Close
  BY <1>2, <1>3, <1>4 DEF Close, FlushInv, ClosedIs, ToFlush, FlushCovers
<1>5. CASE All
  <2>1. ASSUME NEW m \in queuedOpen
        PROVE  messages[m].client \in {byTopic[t] : t \in Topic} \ {None}
    <3>1. PICK c \in DOMAIN clients : c = messages[m].client
      BY DEF QueueInv, WaitingQueued, FlushInv, OpenKnown
    <3>2. clients[c].topic \in Topic
      BY QueueType DEF TypeInv
    <3>3. byTopic[clients[c].topic] = c
      BY DEF ClientInv, MapExact
    <3>4. c # None
      BY SeqAt DEF TypeInv, TypeOK
    <3> QED
      BY <3>1, <3>2, <3>3, <3>4
  <2> QED
    BY <1>1, <1>2, <1>3, <1>5, <2>1 DEF All, FlushInv, ClosedIs, ToFlush, FlushCovers
<1>6. CASE Done
  BY <1>1, <1>2, <1>3, <1>6 DEF Done, FlushInv, ClosedIs, ToFlush, FlushCovers
<1> QED
  BY <1>4, <1>5, <1>6

LEMMA FlushStep ==
  ASSUME TypeInv, ClientInv, QueueInv, FlushInv, [Next]_vars
  PROVE  FlushInv'
<1>1. CASE UNCHANGED vars
  BY <1>1, FlushFrame DEF vars, shutdownVars, historyVars
<1>2. ASSUME NEW w \in Worker, Proceed(w) PROVE FlushInv'
  <2>1. CASE Find(w) \/ Load(w) \/ Lock(w) \/ Remember(w) \/ Return(w)
    <3>1. UNCHANGED <<clients, messages, queuedOpen, closed, stage, unflushed>>
      BY <2>1 DEF Find, Load, Lock, Remember, Return, shutdownVars, historyVars
    <3> QED
      BY <3>1, FlushFrame
  <2> QED
    BY <1>2, <2>1, FlushBuild, FlushUse DEF Proceed
<1>3. ASSUME NEW w \in Worker,
             (\E h \in Handle, n \in Name, k \in Key \cup {None} : Publish(w, h, n, k)) \/ Abandon(w)
      PROVE  FlushInv'
  <2>1. UNCHANGED <<clients, messages, queuedOpen, closed, stage, unflushed>>
    BY <1>3 DEF Publish, Abandon, shutdownVars, historyVars
  <2> QED
    BY <2>1, FlushFrame
<1>4. ASSUME NEW c \in DOMAIN clients, NEW i \in DOMAIN clients[c].queue, Work(c, i) PROVE FlushInv'
  BY <1>4, FlushWork
<1>5. ASSUME NEW c \in DOMAIN clients, Flush(c) \/ Flushed(c) PROVE FlushInv'
  BY <1>5, FlushFlush
<1>6. CASE Close \/ All \/ Done
  BY <1>6, FlushShutdown
<1> QED
  BY <1>1, <1>2, <1>3, <1>4, <1>5, <1>6 DEF Next

\* Whatever was queued before the connection closed has its answer when shutdown
\* returns, though first publishes may still be building client publishers while
\* it collects the ones to flush (Core::shutdown, TopicPublishers::all): a message
\* queued so early is on a client the map held when it was read, and ahead of the
\* flush there.
THEOREM ShutdownCovers == Spec => []FlushCovers
<1>1. Init => FlushInv
  BY FlushInit
<1>2. (TypeInv /\ ClientInv /\ QueueInv) /\ FlushInv /\ [Next]_vars => FlushInv'
  BY FlushStep
<1>3. FlushInv => FlushCovers
  BY DEF FlushInv
<1> QED
  BY <1>1, <1>2, <1>3, QueueAlways, PTL DEF Spec

--------------------------------------------------------------------------------
(* The next publish under a key that failed *)

LEMMA AloneParts ==
  ASSUME AloneInv
  PROVE  ResumeActive /\ Awaited /\ PausedResumes /\ AloneFirst /\ AloneKnown /\ NextPublishSent
  BY DEF AloneInv

LEMMA AloneInit == Init => AloneInv
<1> SUFFICES ASSUME Init PROVE AloneInv
  OBVIOUS
<1>1. DOMAIN clients = {} /\ DOMAIN messages = {} /\ alone = {}
  BY DEF Init
<1>2. \A w \in Worker : job[w].does = "publish"
  BY DEF Init, Idle
<1> QED
  BY <1>1, <1>2 DEF AloneInv, ResumeActive, Awaited, PausedResumes, AloneFirst, AloneKnown,
                    NextPublishSent

\* A worker that moves keeps the answers that are awaited and the keys that will
\* be resumed, if it neither leaves a message that waits nor a key it has to resume.
LEMMA JobMoved ==
  ASSUME TypeOK, Awaited, NEW w \in Worker, NEW j \in Job, job' = [job EXCEPT ![w] = j],
         UNCHANGED messages,
         job[w].pc = "await" => messages[job[w].message].answer # None
  PROVE  Awaited' /\ \A v \in Worker : job'[v] = IF v = w THEN j ELSE job[v]
<1>1. \A v \in Worker : job'[v] = IF v = w THEN j ELSE job[v]
  BY DEF TypeOK
<1>2. ASSUME NEW m \in DOMAIN messages, messages[m].answer = None
      PROVE  \E v \in Worker : job'[v].pc = "await" /\ job'[v].message = m
                               /\ job'[v].key = messages[m].key
  <2>1. PICK v \in Worker : job[v].pc = "await" /\ job[v].message = m /\ job[v].key = messages[m].key
    BY <1>2 DEF Awaited
  <2>2. v # w
    BY <1>2, <2>1
  <2> QED
    BY <1>1, <2>1, <2>2
<1> QED
  BY <1>1, <1>2 DEF Awaited

\* A step of a lookup: the worker goes on to look for the same client.
LEMMA AloneLookup ==
  ASSUME TypeInv, AloneInv, NEW w \in Worker, NEW j \in Job, job' = [job EXCEPT ![w] = j],
         job[w].pc \notin {"idle", "await"}, j.pc \notin {"idle", "await"},
         j.does = job[w].does, j.key = job[w].key, j.name = job[w].name,
         UNCHANGED <<messages, alone>>,
         \/ UNCHANGED clients
         \/ \E t \in Topic : clients' = Append(clients, [topic |-> t, queue |-> <<>>, paused |-> {}])
  PROVE  AloneInv'
<1>1. Awaited' /\ \A v \in Worker : job'[v] = IF v = w THEN j ELSE job[v]
  BY JobMoved DEF AloneInv, TypeInv
<1>2. ResumeActive'
  BY <1>1 DEF AloneInv, ResumeActive
<1>3. \A v \in Worker : Resumes(v) =>
        Resumes(v)' /\ job'[v].key = job[v].key /\ job'[v].name = job[v].name
  BY <1>1 DEF Resumes
<1>5. /\ DOMAIN clients \subseteq DOMAIN clients'
      /\ \A d \in DOMAIN clients : clients'[d] = clients[d]
      /\ \A d \in DOMAIN clients' \ DOMAIN clients : clients'[d].paused = {} /\ Commands(d)' = {}
  <2>1. CASE UNCHANGED clients
    BY <2>1
  <2>2. ASSUME NEW t \in Topic,
               clients' = Append(clients, [topic |-> t, queue |-> <<>>, paused |-> {}])
        PROVE  /\ DOMAIN clients \subseteq DOMAIN clients'
               /\ \A d \in DOMAIN clients : clients'[d] = clients[d]
               /\ \A d \in DOMAIN clients' \ DOMAIN clients :
                    clients'[d].paused = {} /\ Commands(d)' = {}
    <3> DEFINE n == Len(clients) + 1
    <3>1. /\ DOMAIN clients' = DOMAIN clients \cup {n}
          /\ \A d \in DOMAIN clients : clients'[d] = clients[d]
          /\ clients'[n].queue = << >> /\ clients'[n].paused = {}
      BY <2>2, BuiltAt DEF TypeInv
    <3> HIDE DEF n
    <3>2. ASSUME NEW d \in DOMAIN clients' \ DOMAIN clients
          PROVE  clients'[d].paused = {} /\ Commands(d)' = {}
      <4>1. d = n
        BY <3>1
      <4> QED
        BY <3>1, <4>1 DEF Commands
    <3> QED
      BY <3>1, <3>2
  <2> QED
    BY <2>1, <2>2
<1>6. \A d \in DOMAIN clients : Commands(d)' = Commands(d)
  BY <1>5 DEF Commands
<1>7. PausedResumes'
  <2>1. SUFFICES ASSUME NEW c \in DOMAIN clients', NEW k \in clients'[c].paused
                 PROVE  \/ \E i \in Commands(c)' : IsResume(c, i, k)'
                        \/ \E v \in Worker : /\ job'[v].key = k
                                             /\ TopicOf[job'[v].name] = clients'[c].topic
                                             /\ Resumes(v)'
    BY DEF PausedResumes
  <2>2. c \in DOMAIN clients /\ k \in clients[c].paused
    BY <1>5
  <2>3. \/ \E i \in Commands(c) : IsResume(c, i, k)
        \/ \E v \in Worker : job[v].key = k /\ TopicOf[job[v].name] = clients[c].topic /\ Resumes(v)
    BY <2>2 DEF AloneInv, PausedResumes
  <2> QED
    BY <1>3, <1>5, <1>6, <2>2, <2>3 DEF IsResume
<1>8. AloneFirst'
  <2>1. SUFFICES ASSUME NEW c \in DOMAIN clients', NEW i \in Commands(c)', NEW k \in Key,
                        IsAlone(c, i, k)'
                 PROVE  /\ \A x \in Commands(c)' :
                             x < i /\ IsPublish(c, x)' => clients'[c].queue[x].key # k
                        /\ k \in clients'[c].paused =>
                             \E x \in Commands(c)' : x < i /\ IsResume(c, x, k)'
    BY DEF AloneFirst
  <2>2. c \in DOMAIN clients /\ clients'[c] = clients[c] /\ Commands(c)' = Commands(c)
    BY <1>5, <1>6
  <2>3. i \in Commands(c) /\ IsAlone(c, i, k)
    BY <2>1, <2>2 DEF IsAlone, IsPublish
  <2>4. /\ \A x \in Commands(c) : x < i /\ IsPublish(c, x) => clients[c].queue[x].key # k
        /\ k \in clients[c].paused => \E x \in Commands(c) : x < i /\ IsResume(c, x, k)
    BY <2>2, <2>3 DEF AloneInv, AloneFirst
  <2> QED
    BY <2>2, <2>4 DEF IsPublish, IsResume
<1>9. AloneKnown' /\ NextPublishSent'
  BY DEF AloneInv, AloneKnown, NextPublishSent
<1> QED
  BY <1>1, <1>2, <1>7, <1>8, <1>9 DEF AloneInv

\* What clients, messages and alone do not change is kept when every key that a
\* worker will resume stays one that a worker will resume.
LEMMA AloneKept ==
  ASSUME AloneInv, UNCHANGED <<clients, messages, alone>>,
         \A v \in Worker : Resumes(v) /\ job[v].key \in Key =>
           Resumes(v)' /\ job'[v].key = job[v].key /\ job'[v].name = job[v].name,
         TypeOK
  PROVE  PausedResumes' /\ AloneFirst' /\ AloneKnown' /\ NextPublishSent'
<1>1. ASSUME NEW c \in DOMAIN clients, NEW k \in clients[c].paused
      PROVE  \/ \E i \in Commands(c) : IsResume(c, i, k)
             \/ \E v \in Worker : /\ job'[v].key = k /\ TopicOf[job'[v].name] = clients[c].topic
                                  /\ Resumes(v)'
  <2>1. \/ \E i \in Commands(c) : IsResume(c, i, k)
        \/ \E v \in Worker : job[v].key = k /\ TopicOf[job[v].name] = clients[c].topic /\ Resumes(v)
    BY DEF AloneInv, PausedResumes
  <2>2. k \in Key
    BY QueueType
  <2> QED
    BY <2>1, <2>2
<1>2. PausedResumes'
  BY <1>1 DEF PausedResumes, Commands, IsResume
<1>3. AloneFirst'
  BY DEF AloneInv, AloneFirst, IsAlone, IsPublish, IsResume, Commands
<1>4. AloneKnown' /\ NextPublishSent'
  BY DEF AloneInv, AloneKnown, NextPublishSent
<1> QED
  BY <1>2, <1>3, <1>4

LEMMA AloneCall ==
  ASSUME TypeInv, AloneInv, NEW w \in Worker,
         (\E h \in Handle, n \in Name, k \in Key \cup {None} : Publish(w, h, n, k)) \/ Return(w)
  PROVE  AloneInv'
<1>1. UNCHANGED <<clients, messages, alone>>
  BY DEF Publish, Return, historyVars
<1>2. job[w].pc \in {"idle", "await"} /\ job[w].does = "publish" /\ job[w] \in Job
      /\ (job[w].pc = "await" => messages[job[w].message].answer # None)
  <2>1. job[w] \in Job
    BY DEF TypeInv, TypeOK
  <2>2. job[w].does \in {"publish", "resume"}
    BY <2>1 DEF Job
  <2> QED
    BY <2>1, <2>2 DEF Publish, Return, Answered, AloneInv, ResumeActive
<1>3. ASSUME NEW j \in Job, job' = [job EXCEPT ![w] = j],
             j.does = "resume" => j.pc \notin {"idle", "await"},
             Resumes(w) /\ job[w].key \in Key =>
               j.does = "resume" /\ j.key = job[w].key /\ j.name = job[w].name
      PROVE  AloneInv'
  <2>1. Awaited' /\ \A v \in Worker : job'[v] = IF v = w THEN j ELSE job[v]
    BY <1>1, <1>2, <1>3, JobMoved DEF TypeInv, AloneInv
  <2>2. ResumeActive'
    BY <1>3, <2>1 DEF AloneInv, ResumeActive
  <2>3. \A v \in Worker : Resumes(v) /\ job[v].key \in Key =>
          Resumes(v)' /\ job'[v].key = job[v].key /\ job'[v].name = job[v].name
    BY <1>1, <1>3, <2>1 DEF Resumes
  <2> QED
    BY <1>1, <2>1, <2>2, <2>3, AloneKept DEF AloneInv, TypeInv
<1>4. Idle \in Job /\ Idle.does = "publish"
  BY DEF Idle, Job, PC
<1>5. ASSUME NEW h \in Handle, NEW n \in Name, NEW k \in Key \cup {None}, Publish(w, h, n, k)
      PROVE  AloneInv'
  <2> DEFINE j == [Idle EXCEPT !.pc = "find", !.handle = h, !.name = n, !.key = k]
  <2>1. j \in Job /\ j.does = "publish"
    BY DEF Idle, Job, PC
  <2>2. job' = [job EXCEPT ![w] = j] /\ job[w].pc = "idle"
    BY <1>5 DEF Publish
  <2> HIDE DEF j
  <2>3. ~Resumes(w)
    BY <1>2, <2>2 DEF Resumes
  <2> QED
    BY <1>3, <2>1, <2>2, <2>3
<1>6. CASE Return(w)
  <2> DEFINE j == [job[w] EXCEPT !.pc = "find", !.does = "resume", !.client = None]
  <2>1. /\ j \in Job /\ j.pc = "find" /\ j.does = "resume"
        /\ j.key = job[w].key /\ j.name = job[w].name
    <3> DEFINE i == job[w]
    <3> HIDE DEF i
    <3>1. i \in Job
      BY <1>2 DEF i
    <3>2. LET l == [i EXCEPT !.pc = "find", !.does = "resume", !.client = None]
          IN l \in Job /\ l.pc = "find" /\ l.does = "resume" /\ l.key = i.key /\ l.name = i.name
      BY <3>1 DEF Job, PC
    <3> QED
      BY <3>2 DEF i
  <2>2. CASE messages[job[w].message].answer # "ok" /\ job[w].key # None
    <3>1. job' = [job EXCEPT ![w] = j]
      BY <1>6, <2>2 DEF Return
    <3> HIDE DEF j
    <3> QED
      BY <1>3, <2>1, <3>1
  <2>3. CASE ~(messages[job[w].message].answer # "ok" /\ job[w].key # None)
    <3>1. job' = [job EXCEPT ![w] = Idle]
      BY <1>6, <2>3 DEF Return
    <3>2. ~(Resumes(w) /\ job[w].key \in Key)
      BY <1>2, <2>3 DEF Resumes
    <3> QED
      BY <1>3, <1>4, <3>1, <3>2
  <2> QED
    BY <2>2, <2>3
<1> QED
  BY <1>5, <1>6

LEMMA AloneFrame ==
  ASSUME TypeOK, AloneInv, UNCHANGED <<clients, messages, alone, job>>
  PROVE  AloneInv'
<1>1. \A v \in Worker : Resumes(v) => Resumes(v)'
  BY DEF Resumes
<1>2. ResumeActive' /\ Awaited'
  BY DEF AloneInv, ResumeActive, Awaited
<1> QED
  BY <1>1, <1>2, AloneKept DEF AloneInv

\* A queue that a command joins at its end, and the others.
LEMMA QueuedEnd ==
  ASSUME TypeOK, NEW c \in DOMAIN clients, NEW m \in Command, Queue(c, m)
  PROVE  /\ DOMAIN clients' = DOMAIN clients
         /\ \A d \in DOMAIN clients :
              clients'[d].paused = clients[d].paused /\ clients'[d].topic = clients[d].topic
         /\ \A d \in DOMAIN clients : \A i \in Commands(d) :
              i \in Commands(d)' /\ clients'[d].queue[i] = clients[d].queue[i]
         /\ \A d \in DOMAIN clients : \A i \in Commands(d)' :
              \/ i \in Commands(d) /\ clients'[d].queue[i] = clients[d].queue[i]
              \/ d = c /\ clients'[d].queue[i] = m /\ \A j \in Commands(c) : j < i
         /\ \E i \in Commands(c)' : clients'[c].queue[i] = m
         /\ \A d \in DOMAIN clients : \A i, j \in Commands(d)' : i < j => i \in Commands(d)
<1> DEFINE n == Len(clients[c].queue) + 1
<1>1. /\ n \in Nat /\ n - 1 \in Nat /\ Commands(c) = 1..(n - 1) /\ Commands(c)' = 1..n
      /\ clients'[c].queue[n] = m
      /\ \A j \in Commands(c) : clients'[c].queue[j] = clients[c].queue[j]
      /\ clients'[c].paused = clients[c].paused /\ clients'[c].topic = clients[c].topic
      /\ DOMAIN clients' = DOMAIN clients
      /\ \A d \in DOMAIN clients \ {c} : clients'[d] = clients[d]
  BY QueuedAt, QueueType
<1> HIDE DEF n
<1>2. \A d \in DOMAIN clients \ {c} : Commands(d)' = Commands(d)
  BY <1>1 DEF Commands
<1>3. \A i \in Commands(c)' : i \in Commands(c) \/ (i = n /\ \A j \in Commands(c) : j < i)
  BY <1>1
<1>4. \A i, j \in Commands(c)' : i < j => i \in Commands(c)
  BY <1>1
<1>5. n \in Commands(c)' /\ \A i \in Commands(c) : i \in Commands(c)'
  BY <1>1
<1>6. \A d \in DOMAIN clients : \A i, j \in Commands(d)' : i < j => i \in Commands(d)
  BY <1>2, <1>4
<1>7. \A d \in DOMAIN clients :
        clients'[d].paused = clients[d].paused /\ clients'[d].topic = clients[d].topic
  BY <1>1
<1>8. \A d \in DOMAIN clients : \A i \in Commands(d) :
        i \in Commands(d)' /\ clients'[d].queue[i] = clients[d].queue[i]
  BY <1>1, <1>2, <1>5
<1>9. ASSUME NEW d \in DOMAIN clients, NEW i \in Commands(d)'
      PROVE  \/ i \in Commands(d) /\ clients'[d].queue[i] = clients[d].queue[i]
             \/ d = c /\ clients'[d].queue[i] = m /\ \A j \in Commands(c) : j < i
  BY <1>1, <1>2, <1>3, <1>8
<1> QED
  BY <1>1, <1>5, <1>6, <1>7, <1>8, <1>9

LEMMA FirstQueued ==
  ASSUME TypeOK, QueueInv, AloneInv, NEW c \in DOMAIN clients, NEW m \in Command, Queue(c, m),
         \A x \in DOMAIN messages : x \in alone' => x \in alone,
         m.does = "publish" /\ m.key \in Key /\ m.message \in alone' =>
           /\ \A j \in Commands(c) : IsPublish(c, j) => clients[c].queue[j].key # m.key
           /\ m.key \in clients[c].paused => \E j \in Commands(c) : IsResume(c, j, m.key)
  PROVE  AloneFirst'
<1>1. SUFFICES ASSUME NEW d \in DOMAIN clients, NEW i \in Commands(d)', NEW k \in Key,
                      IsAlone(d, i, k)'
               PROVE  /\ \A j \in Commands(d)' : j < i /\ IsPublish(d, j)' => clients'[d].queue[j].key # k
                      /\ k \in clients'[d].paused => \E j \in Commands(d)' : j < i /\ IsResume(d, j, k)'
  <2>1. DOMAIN clients' = DOMAIN clients
    BY QueuedEnd
  <2> QED
    BY <1>1, <2>1 DEF AloneFirst
<1>2. /\ clients'[d].paused = clients[d].paused
      /\ \A j \in Commands(d) : j \in Commands(d)' /\ clients'[d].queue[j] = clients[d].queue[j]
      /\ \A j \in Commands(d)' : j < i => j \in Commands(d)
  BY QueuedEnd
<1>3. SUFFICES /\ \A j \in Commands(d) : j < i /\ IsPublish(d, j) => clients[d].queue[j].key # k
               /\ k \in clients[d].paused => \E j \in Commands(d) : j < i /\ IsResume(d, j, k)
  BY <1>2, <1>3 DEF IsPublish, IsResume
<1>4. CASE i \in Commands(d) /\ clients'[d].queue[i] = clients[d].queue[i]
  <2>1. IsPublish(d, i) /\ clients[d].queue[i].key = k /\ clients[d].queue[i].message \in alone'
    BY <1>1, <1>4 DEF IsAlone, IsPublish
  <2>2. clients[d].queue[i].message \in DOMAIN messages
    BY <1>4, <2>1 DEF QueueInv, QueuedWait, WaitsOn
  <2>3. IsAlone(d, i, k)
    BY <2>1, <2>2 DEF IsAlone
  <2> QED
    BY <1>4, <2>3 DEF AloneInv, AloneFirst
<1>5. CASE d = c /\ clients'[d].queue[i] = m /\ \A j \in Commands(c) : j < i
  <2>1. m.does = "publish" /\ m.key = k /\ m.message \in alone'
    BY <1>1, <1>5 DEF IsAlone, IsPublish
  <2> QED
    BY <1>5, <2>1
<1> QED
  BY <1>4, <1>5, QueuedEnd

LEMMA ResumesQueued ==
  ASSUME TypeOK, AloneInv, NEW c \in DOMAIN clients, NEW m \in Command, Queue(c, m),
         \A v \in Worker : \A d \in DOMAIN clients :
           Resumes(v) /\ job[v].key \in Key /\ TopicOf[job[v].name] = clients[d].topic =>
             \/ Resumes(v)' /\ job'[v].key = job[v].key /\ job'[v].name = job[v].name
             \/ d = c /\ m.does = "resume" /\ m.key = job[v].key
  PROVE  PausedResumes'
<1>1. /\ DOMAIN clients' = DOMAIN clients
      /\ \A d \in DOMAIN clients :
           clients'[d].paused = clients[d].paused /\ clients'[d].topic = clients[d].topic
      /\ \A d \in DOMAIN clients : \A i \in Commands(d) :
           i \in Commands(d)' /\ clients'[d].queue[i] = clients[d].queue[i]
      /\ \E i \in Commands(c)' : clients'[c].queue[i] = m
  BY QueuedEnd
<1>2. SUFFICES ASSUME NEW d \in DOMAIN clients, NEW k \in clients[d].paused
               PROVE  \/ \E i \in Commands(d)' : IsResume(d, i, k)'
                      \/ \E v \in Worker : /\ job'[v].key = k
                                           /\ TopicOf[job'[v].name] = clients[d].topic
                                           /\ Resumes(v)'
  BY <1>1 DEF PausedResumes
<1>3. k \in Key
  BY QueueType
<1>4. \/ \E i \in Commands(d) : IsResume(d, i, k)
      \/ \E v \in Worker : job[v].key = k /\ TopicOf[job[v].name] = clients[d].topic /\ Resumes(v)
  BY DEF AloneInv, PausedResumes
<1>5. CASE \E i \in Commands(d) : IsResume(d, i, k)
  BY <1>1, <1>5 DEF IsResume
<1>6. ASSUME NEW v \in Worker, job[v].key = k, TopicOf[job[v].name] = clients[d].topic, Resumes(v)
      PROVE  \/ \E i \in Commands(d)' : IsResume(d, i, k)'
             \/ \E u \in Worker : /\ job'[u].key = k
                                  /\ TopicOf[job'[u].name] = clients[d].topic
                                  /\ Resumes(u)'
  <2>1. CASE Resumes(v)' /\ job'[v].key = job[v].key /\ job'[v].name = job[v].name
    BY <1>6, <2>1
  <2>2. CASE d = c /\ m.does = "resume" /\ m.key = job[v].key
    BY <1>1, <1>6, <2>2 DEF IsResume
  <2> QED
    BY <1>3, <1>6, <2>1, <2>2
<1> QED
  BY <1>4, <1>5, <1>6

LEMMA AloneUsePublish ==
  ASSUME TypeInv, ClientInv, QueueInv, AloneInv, NEW w \in Worker, Use(w), job[w].does = "publish"
  PROVE  AloneInv'
<1> DEFINE i == job[w]
           c == i.client
           k == i.key
           n == Len(messages) + 1
           m == [does |-> "publish", key |-> k, message |-> n]
           r == [client |-> c, key |-> k, answer |-> None]
           j == [i EXCEPT !.pc = "await", !.message = n]
<1>1. /\ i.pc = "use" /\ Queue(c, m) /\ messages' = Append(messages, r)
      /\ alone' = IF \E v \in Worker \ {w} : Beside(v, i) THEN alone ELSE alone \cup {n}
      /\ job' = [job EXCEPT ![w] = j]
  BY DEF Use, Enqueue
<1>2. /\ i \in Job /\ c \in DOMAIN clients /\ k \in Key \cup {None}
      /\ clients[c].topic = TopicOf[i.name]
  BY <1>1, AtUse
<1>3. Len(messages) \in Nat
  BY LenProperties DEF TypeInv, TypeOK
<1>4. m \in Command /\ m.does = "publish" /\ m.key = k /\ m.message = n
  BY <1>2, <1>3 DEF Command, Message
<1>5. r \in MessageRecord /\ r.key = k /\ r.answer = None
  <2>1. c \in Client
    BY <1>2, SeqAt DEF TypeInv, TypeOK, ClientRecord, Client
  <2> QED
    BY <1>2, <2>1 DEF MessageRecord
<1>6. /\ j \in Job /\ j.pc = "await" /\ j.message = n /\ j.key = k /\ j.does = "publish"
  <2> HIDE DEF i, n
  <2>1. n \in Message
    BY <1>3 DEF n, Message
  <2>2. i.does = "publish"
    BY DEF i
  <2> QED
    BY <1>2, <2>1, <2>2 DEF Job, PC
<1>7. \A v \in Worker : job'[v] = IF v = w THEN j ELSE job[v]
  BY <1>1 DEF TypeInv, TypeOK
<1> HIDE DEF m, r, j
<1>8. /\ DOMAIN messages' = DOMAIN messages \cup {n} /\ n \notin DOMAIN messages
      /\ messages'[n] = r /\ \A x \in DOMAIN messages : messages'[x] = messages[x]
  <2>1. /\ Len(messages) \in Nat /\ DOMAIN messages = 1..Len(messages)
        /\ DOMAIN messages' = 1..(Len(messages) + 1)
        /\ \A x \in DOMAIN messages : messages'[x] = messages[x]
        /\ messages'[Len(messages) + 1] = r
    BY <1>1, <1>5, MessageAdded DEF TypeInv
  <2> QED
    BY <2>1
<1> HIDE DEF n
<1>9. ResumeActive'
  BY <1>6, <1>7 DEF AloneInv, ResumeActive
<1>10. Awaited'
  <2>1. ASSUME NEW x \in DOMAIN messages, messages[x].answer = None
        PROVE  \E v \in Worker : job'[v].pc = "await" /\ job'[v].message = x
                                 /\ job'[v].key = messages[x].key
    <3>1. PICK v \in Worker : job[v].pc = "await" /\ job[v].message = x /\ job[v].key = messages[x].key
      BY <2>1 DEF AloneInv, Awaited
    <3>2. v # w
      BY <1>1, <3>1
    <3> QED
      BY <1>7, <3>1, <3>2
  <2> QED
    BY <1>5, <1>6, <1>7, <1>8, <2>1 DEF Awaited
<1>11. PausedResumes'
  <2>1. ASSUME NEW v \in Worker, Resumes(v)
        PROVE  Resumes(v)' /\ job'[v].key = job[v].key /\ job'[v].name = job[v].name
    <3>1. v # w
      BY <1>1, <2>1 DEF Resumes
    <3>2. job[v].pc = "await" => job[v].message \in DOMAIN messages
      BY DEF TypeInv, JobFields
    <3>3. job'[v] = job[v]
      BY <1>7, <3>1
    <3>4. job[v].pc = "await" => messages'[job[v].message] = messages[job[v].message]
      BY <1>8, <3>2
    <3> QED
      BY <2>1, <3>3, <3>4 DEF Resumes
  <2> HIDE DEF c
  <2> QED
    BY <1>1, <1>2, <1>4, <2>1, ResumesQueued DEF TypeInv
<1>12. ASSUME n \in alone', k \in Key
       PROVE  /\ \A x \in Commands(c) : IsPublish(c, x) => clients[c].queue[x].key # k
              /\ k \in clients[c].paused => \E x \in Commands(c) : IsResume(c, x, k)
  <2>1. \A v \in Worker \ {w} : ~Beside(v, i)
    BY <1>1, <1>8, <1>12 DEF AloneInv, AloneKnown
  <2>2. ASSUME NEW x \in Commands(c), IsPublish(c, x), clients[c].queue[x].key = k
        PROVE  FALSE
    <3>1. WaitsOn(clients[c].queue[x], c)
      BY <1>2, <2>2 DEF QueueInv, QueuedWait
    <3>2. PICK y \in DOMAIN messages : /\ messages[y].answer = None /\ messages[y].key = k
                                       /\ messages[y].client = c
      BY <2>2, <3>1 DEF WaitsOn
    <3>3. PICK v \in Worker : job[v].pc = "await" /\ job[v].message = y /\ job[v].key = messages[y].key
      BY <3>2 DEF AloneInv, Awaited
    <3>4. job[v].key = k /\ v # w
      BY <1>1, <3>2, <3>3
    <3>5. TopicOf[job[v].name] = clients[c].topic
      BY <3>2, <3>3 DEF ClientInv, MessageClient
    <3> QED
      BY <1>2, <2>1, <3>3, <3>4, <3>5 DEF Beside
  <2>3. ASSUME k \in clients[c].paused
        PROVE  \E x \in Commands(c) : IsResume(c, x, k)
    <3>1. ASSUME NEW v \in Worker, job[v].key = k, TopicOf[job[v].name] = clients[c].topic, Resumes(v)
          PROVE  FALSE
      <4>1. v # w
        BY <1>1, <3>1 DEF Resumes
      <4>2. job[v].pc # "idle"
        BY <3>1 DEF Resumes, AloneInv, ResumeActive
      <4> QED
        BY <1>2, <2>1, <3>1, <4>1, <4>2 DEF Beside
    <3> QED
      BY <1>2, <2>3, <3>1 DEF AloneInv, PausedResumes
  <2> QED
    BY <2>2, <2>3
<1>13. AloneFirst'
  <2>1. \A x \in DOMAIN messages : x \in alone' => x \in alone
    BY <1>1, <1>8
  <2> HIDE DEF c, k
  <2> QED
    BY <1>1, <1>2, <1>4, <1>12, <2>1, FirstQueued DEF TypeInv
<1>14. AloneKnown'
  BY <1>1, <1>8 DEF AloneInv, AloneKnown
<1>15. NextPublishSent'
  <2>1. None # "refused"
    BY AnswerAssumption
  <2> QED
    BY <1>1, <1>5, <1>8, <2>1 DEF AloneInv, AloneKnown, NextPublishSent
<1> QED
  BY <1>9, <1>10, <1>11, <1>13, <1>14, <1>15 DEF AloneInv

LEMMA AloneUseResume ==
  ASSUME TypeInv, ClientInv, QueueInv, AloneInv, NEW w \in Worker, Use(w), job[w].does = "resume"
  PROVE  AloneInv'
<1> DEFINE c == job[w].client
           m == [does |-> "resume", key |-> job[w].key, message |-> job[w].message]
<1>1. /\ job[w].pc = "use" /\ Queue(c, m) /\ UNCHANGED <<messages, alone>>
      /\ job' = [job EXCEPT ![w] = Idle]
  BY DEF Use, Enqueue, historyVars
<1>2. c \in DOMAIN clients /\ clients[c].topic = TopicOf[job[w].name]
  BY <1>1, AtUse
<1>3. m \in Command /\ m.does = "resume" /\ m.key = job[w].key
  BY <1>1, ResumeCommand
<1>4. Idle \in Job /\ Idle.does = "publish"
  BY DEF Idle, Job, PC
<1> HIDE DEF m
<1>5. Awaited' /\ \A v \in Worker : job'[v] = IF v = w THEN Idle ELSE job[v]
  BY <1>1, <1>4, JobMoved DEF TypeInv, AloneInv
<1>6. ResumeActive'
  BY <1>4, <1>5 DEF AloneInv, ResumeActive
<1>7. ASSUME NEW v \in Worker, NEW d \in DOMAIN clients, Resumes(v),
             TopicOf[job[v].name] = clients[d].topic
      PROVE  \/ Resumes(v)' /\ job'[v].key = job[v].key /\ job'[v].name = job[v].name
             \/ d = c /\ m.does = "resume" /\ m.key = job[v].key
  <2>1. CASE v # w
    BY <1>1, <1>5, <1>7, <2>1 DEF Resumes
  <2>2. CASE v = w
    <3>1. d = c
      BY <1>2, <1>7, <2>2 DEF ClientInv, MapExact
    <3> QED
      BY <1>3, <2>2, <3>1
  <2> QED
    BY <2>1, <2>2
<1> HIDE DEF c
<1>8. PausedResumes'
  BY <1>1, <1>2, <1>3, <1>7, ResumesQueued DEF TypeInv
<1>9. AloneFirst'
  BY <1>1, <1>2, <1>3, FirstQueued DEF TypeInv
<1>10. AloneKnown' /\ NextPublishSent'
  BY <1>1 DEF AloneInv, AloneKnown, NextPublishSent
<1> QED
  BY <1>5, <1>6, <1>8, <1>9, <1>10 DEF AloneInv

\* A queue that a command leaves: what stays keeps its order, both ways.
LEMMA TakenOrder ==
  ASSUME TypeOK, NEW c \in DOMAIN clients, NEW i \in Commands(c), NEW p \in SUBSET Key,
         Take(c, i, p), NEW d \in DOMAIN clients, NEW j \in Commands(d)'
  PROVE  \E x \in Commands(d) :
           /\ clients'[d].queue[j] = clients[d].queue[x] /\ ~(d = c /\ x = i)
           /\ \A k \in Commands(d)' : k < j => \E y \in Commands(d) :
                y < x /\ clients'[d].queue[k] = clients[d].queue[y]
           /\ \A y \in Commands(d) : y < x /\ ~(d = c /\ y = i) => \E k \in Commands(d)' :
                k < j /\ clients'[d].queue[k] = clients[d].queue[y]
<1>1. /\ DOMAIN clients' = DOMAIN clients
      /\ \A e \in DOMAIN clients \ {c} : clients'[e] = clients[e]
      /\ Commands(c)' = 1..(Len(clients[c].queue) - 1)
      /\ \A k \in Commands(c)' :
           /\ From(i, k) \in Commands(c) /\ From(i, k) # i
           /\ clients'[c].queue[k] = clients[c].queue[From(i, k)]
      /\ \A k \in Commands(c) \ {i} :
           /\ Into(i, k) \in Commands(c)'
           /\ clients'[c].queue[Into(i, k)] = clients[c].queue[k]
  BY TakenAt
<1>2. CASE d = c
  <2>1. i \in Int /\ j \in Int /\ (\A k \in Commands(c)' : k \in Int) /\ \A k \in Commands(c) : k \in Int
    BY <1>1, <1>2, QueueType
  <2>2. \A k \in Commands(c)' : k < j => From(i, k) < From(i, j)
    BY <2>1, FromOrder
  <2>3. ASSUME NEW y \in Commands(c), y < From(i, j), y # i
        PROVE  Into(i, y) < j
    <3>1. y \in Int
      BY <2>1
    <3> QED
      BY <2>1, <2>3, <3>1 DEF From, Into
  <2>4. /\ From(i, j) \in Commands(c) /\ From(i, j) # i
        /\ clients'[c].queue[j] = clients[c].queue[From(i, j)]
    BY <1>1, <1>2
  <2>5. \A k \in Commands(c)' : k < j => \E y \in Commands(c) :
          y < From(i, j) /\ clients'[c].queue[k] = clients[c].queue[y]
    BY <1>1, <2>2
  <2>6. \A y \in Commands(c) : y < From(i, j) /\ y # i => \E k \in Commands(c)' :
          k < j /\ clients'[c].queue[k] = clients[c].queue[y]
    BY <1>1, <2>3
  <2> QED
    BY <1>2, <2>4, <2>5, <2>6
<1>3. CASE d # c
  <2>1. clients'[d] = clients[d] /\ Commands(d)' = Commands(d)
    BY <1>1, <1>3 DEF Commands
  <2> QED
    BY <1>3, <2>1
<1> QED
  BY <1>2, <1>3

\* A command leaves a queue.  The keys paused then were, and it resumed none of
\* them; or none of them has a publish alone in the queue.
LEMMA FirstTaken ==
  ASSUME TypeOK, AloneInv, NEW c \in DOMAIN clients, NEW i \in Commands(c), NEW p \in SUBSET Key,
         Take(c, i, p), UNCHANGED alone,
         \A k \in p :
           \/ k \in clients[c].paused /\ ~IsResume(c, i, k)
           \/ \A x \in Commands(c) \ {i} : ~IsAlone(c, x, k)
  PROVE  AloneFirst'
<1>1. /\ DOMAIN clients' = DOMAIN clients
      /\ \A d \in DOMAIN clients \ {c} : clients'[d] = clients[d]
      /\ clients'[c].paused = p
  BY TakenAt
<1>2. SUFFICES ASSUME NEW d \in DOMAIN clients, NEW j \in Commands(d)', NEW k \in Key,
                      IsAlone(d, j, k)'
               PROVE  /\ \A l \in Commands(d)' : l < j /\ IsPublish(d, l)' => clients'[d].queue[l].key # k
                      /\ k \in clients'[d].paused => \E l \in Commands(d)' : l < j /\ IsResume(d, l, k)'
  BY <1>1 DEF AloneFirst
<1>3. PICK x \in Commands(d) :
        /\ clients'[d].queue[j] = clients[d].queue[x] /\ ~(d = c /\ x = i)
        /\ \A l \in Commands(d)' : l < j => \E y \in Commands(d) :
             y < x /\ clients'[d].queue[l] = clients[d].queue[y]
        /\ \A y \in Commands(d) : y < x /\ ~(d = c /\ y = i) => \E l \in Commands(d)' :
             l < j /\ clients'[d].queue[l] = clients[d].queue[y]
  BY TakenOrder
<1>4. IsAlone(d, x, k)
  BY <1>2, <1>3 DEF IsAlone, IsPublish
<1>5. /\ \A y \in Commands(d) : y < x /\ IsPublish(d, y) => clients[d].queue[y].key # k
      /\ k \in clients[d].paused => \E y \in Commands(d) : y < x /\ IsResume(d, y, k)
  BY <1>4 DEF AloneInv, AloneFirst
<1>6. \A l \in Commands(d)' : l < j /\ IsPublish(d, l)' => clients'[d].queue[l].key # k
  BY <1>3, <1>5 DEF IsPublish
<1>7. ASSUME k \in clients'[d].paused
      PROVE  \E l \in Commands(d)' : l < j /\ IsResume(d, l, k)'
  <2>1. k \in clients[d].paused /\ ~(d = c /\ IsResume(c, i, k))
    BY <1>1, <1>3, <1>4, <1>7
  <2>2. PICK y \in Commands(d) : y < x /\ IsResume(d, y, k)
    BY <1>5, <2>1
  <2>3. ~(d = c /\ y = i)
    BY <2>1, <2>2
  <2> QED
    BY <1>3, <2>2, <2>3 DEF IsResume
<1> QED
  BY <1>6, <1>7

LEMMA ResumesTaken ==
  ASSUME TypeOK, AloneInv, NEW c \in DOMAIN clients, NEW i \in Commands(c), NEW p \in SUBSET Key,
         Take(c, i, p), UNCHANGED job, \A v \in Worker : Resumes(v) => Resumes(v)',
         \A k \in p :
           \/ k \in clients[c].paused /\ ~IsResume(c, i, k)
           \/ \E v \in Worker : job[v].key = k /\ TopicOf[job[v].name] = clients[c].topic /\ Resumes(v)'
  PROVE  PausedResumes'
<1>1. /\ DOMAIN clients' = DOMAIN clients
      /\ \A d \in DOMAIN clients \ {c} : clients'[d] = clients[d]
      /\ clients'[c].paused = p /\ clients'[c].topic = clients[c].topic
  BY TakenAt
<1>2. SUFFICES ASSUME NEW d \in DOMAIN clients, NEW k \in clients'[d].paused
               PROVE  \/ \E j \in Commands(d)' : IsResume(d, j, k)'
                      \/ \E v \in Worker : /\ job[v].key = k
                                           /\ TopicOf[job[v].name] = clients[d].topic
                                           /\ Resumes(v)'
  BY <1>1 DEF PausedResumes
<1>3. \/ k \in clients[d].paused /\ ~(d = c /\ IsResume(c, i, k))
      \/ \E v \in Worker : job[v].key = k /\ TopicOf[job[v].name] = clients[d].topic /\ Resumes(v)'
  BY <1>1
<1>4. CASE k \in clients[d].paused /\ ~(d = c /\ IsResume(c, i, k))
  <2>1. CASE \E j \in Commands(d) : IsResume(d, j, k)
    <3>1. PICK j \in Commands(d) : IsResume(d, j, k)
      BY <2>1
    <3>2. ~(d = c /\ j = i)
      BY <1>4, <3>1
    <3>3. PICK l \in Commands(d)' : clients'[d].queue[l] = clients[d].queue[j]
      BY <3>2, TakenFrom
    <3> QED
      BY <3>1, <3>3 DEF IsResume
  <2>2. CASE \E v \in Worker : job[v].key = k /\ TopicOf[job[v].name] = clients[d].topic /\ Resumes(v)
    BY <2>2
  <2> QED
    BY <1>4, <2>1, <2>2 DEF AloneInv, PausedResumes
<1> QED
  BY <1>3, <1>4

\* What the answer to a message leaves of the workers that wait.
LEMMA AnswerKeeps ==
  ASSUME TypeInv, AloneInv, NEW m \in DOMAIN messages, messages[m].answer = None,
         NEW a \in {"ok", "failed", "refused"}, Answer(m, a), UNCHANGED <<job, alone>>
  PROVE  /\ ResumeActive' /\ Awaited' /\ AloneKnown'
         /\ \A v \in Worker : Resumes(v) => Resumes(v)'
         /\ (m \in alone => a # "refused") => NextPublishSent'
<1>1. /\ DOMAIN messages' = DOMAIN messages
      /\ \A n \in DOMAIN messages \ {m} : messages'[n] = messages[n]
      /\ messages'[m].key = messages[m].key /\ messages'[m].answer = a
  BY MessageAnswered DEF TypeInv
<1>2. a # None /\ None \notin {"failed", "refused"}
  BY AnswerAssumption
<1>3. ResumeActive' /\ AloneKnown'
  BY <1>1 DEF AloneInv, ResumeActive, AloneKnown
<1>4. Awaited'
  BY <1>1, <1>2 DEF AloneInv, Awaited
<1>5. ASSUME NEW v \in Worker, Resumes(v)
      PROVE  Resumes(v)'
  <2>1. job[v].pc = "await" => job[v].message \in DOMAIN messages
    BY DEF TypeInv, JobFields
  <2> QED
    BY <1>1, <1>2, <1>5, <2>1 DEF Resumes
<1>6. (m \in alone => a # "refused") => NextPublishSent'
  BY <1>1 DEF AloneInv, AloneKnown, NextPublishSent
<1> QED
  BY <1>3, <1>4, <1>5, <1>6

LEMMA AloneAnswered ==
  ASSUME TypeInv, ClientInv, QueueInv, AloneInv, NEW c \in DOMAIN clients, NEW i \in Commands(c),
         Deliver(c, i) \/ Fail(c, i) \/ Refuse(c, i)
  PROVE  AloneInv'
<1> DEFINE m == clients[c].queue[i].message
           k == clients[c].queue[i].key
           paused == clients[c].paused
<1>1. /\ IsPublish(c, i) /\ Ready(c, i) /\ UNCHANGED <<job, alone>>
      /\ k \in Key \cup {None} /\ paused \in SUBSET Key
  <2>1. UNCHANGED <<job, alone>>
    BY DEF Deliver, Fail, Refuse, historyVars
  <2>2. k \in Key \cup {None} /\ paused \in SUBSET Key
    BY AtCommand DEF TypeInv, Commands
  <2> QED
    BY <2>1, <2>2 DEF Deliver, Fail, Refuse, IsPublish
<1>2. /\ m \in DOMAIN messages /\ messages[m].client = c
      /\ messages[m].key = k /\ messages[m].answer = None
  BY <1>1 DEF QueueInv, QueuedWait, WaitsOn
<1>3. \A q \in Key : ~IsResume(c, i, q)
  BY <1>1 DEF IsResume, IsPublish
<1>4. ASSUME k \in Key, NEW x \in Commands(c), x < i
      PROVE  clients[c].queue[x].key # k
  <2>1. k # None /\ clients[c].queue[i].does = "publish"
    BY <1>1, <1>4 DEF IsPublish
  <2>2. x \in 1..(i - 1)
    BY <1>4, QueueType DEF TypeInv
  <2> QED
    BY <1>1, <2>1, <2>2 DEF Ready
<1>5. PICK w \in Worker : job[w].pc = "await" /\ job[w].message = m /\ job[w].key = k
  BY <1>2 DEF AloneInv, Awaited
<1>6. TopicOf[job[w].name] = clients[c].topic
  BY <1>2, <1>5 DEF ClientInv, MessageClient
<1>7. CASE Deliver(c, i)
  <2>1. Answer(m, "ok") /\ Take(c, i, paused)
    BY <1>7 DEF Deliver
  <2> HIDE DEF m, paused
  <2>2. /\ ResumeActive' /\ Awaited' /\ AloneKnown' /\ NextPublishSent'
        /\ \A v \in Worker : Resumes(v) => Resumes(v)'
    BY <1>1, <1>2, <2>1, AnswerKeeps
  <2>3. AloneFirst' /\ PausedResumes'
    BY <1>1, <1>3, <2>1, <2>2, FirstTaken, ResumesTaken DEF TypeInv, paused
  <2> QED
    BY <2>2, <2>3 DEF AloneInv
<1>8. CASE Refuse(c, i)
  <2>1. Answer(m, "refused") /\ Take(c, i, paused) /\ k \in paused
    BY <1>8 DEF Refuse
  <2>2. m \notin alone
    <3>1. ASSUME m \in alone
          PROVE  FALSE
      <4>1. IsAlone(c, i, k) /\ k \in Key
        BY <1>1, <2>1, <3>1 DEF IsAlone
      <4>2. PICK j \in Commands(c) : j < i /\ IsResume(c, j, k)
        BY <2>1, <4>1 DEF AloneInv, AloneFirst
      <4> QED
        BY <1>4, <4>1, <4>2 DEF IsResume
    <3> QED
      BY <3>1
  <2> HIDE DEF m, paused
  <2>3. /\ ResumeActive' /\ Awaited' /\ AloneKnown' /\ NextPublishSent'
        /\ \A v \in Worker : Resumes(v) => Resumes(v)'
    BY <1>1, <1>2, <2>1, <2>2, AnswerKeeps
  <2>4. AloneFirst' /\ PausedResumes'
    BY <1>1, <1>3, <2>1, <2>3, FirstTaken, ResumesTaken DEF TypeInv, paused
  <2> QED
    BY <2>3, <2>4 DEF AloneInv
<1>9. CASE Fail(c, i)
  <2> DEFINE p == paused \cup ({k} \ {None})
  <2>1. Answer(m, "failed") /\ Take(c, i, p)
    BY <1>9 DEF Fail
  <2>2. p \in SUBSET Key
    BY <1>1
  <2>3. \A q \in p : q \in paused \/ (q = k /\ k \in Key)
    BY <1>1
  <2>4. /\ ResumeActive' /\ Awaited' /\ AloneKnown' /\ NextPublishSent'
        /\ \A v \in Worker : Resumes(v) => Resumes(v)'
    <3> HIDE DEF m
    <3> QED
      BY <1>1, <1>2, <2>1, AnswerKeeps
  <2>5. Resumes(w)'
    <3>1. messages'[m].answer = "failed"
      <4> HIDE DEF m
      <4> QED
        BY <1>2, <2>1, MessageAnswered DEF TypeInv
    <3> QED
      BY <1>1, <1>5, <3>1 DEF Resumes
  <2>6. ASSUME k \in Key, NEW x \in Commands(c) \ {i}
        PROVE  ~IsAlone(c, x, k)
    <3>1. ASSUME IsAlone(c, x, k)
          PROVE  FALSE
      <4>1. ~(i < x)
        BY <1>1, <2>6, <3>1 DEF AloneInv, AloneFirst
      <4>2. x \in Nat /\ i \in Nat
        BY QueueType DEF TypeInv
      <4>3. x < i
        BY <2>6, <4>1, <4>2
      <4> QED
        BY <1>4, <2>6, <3>1, <4>3 DEF IsAlone
    <3> QED
      BY <3>1
  <2> HIDE DEF p
  <2>7. \A q \in p : \/ q \in clients[c].paused /\ ~IsResume(c, i, q)
                     \/ \A x \in Commands(c) \ {i} : ~IsAlone(c, x, q)
    BY <1>1, <1>3, <2>2, <2>3, <2>6
  <2>8. AloneFirst'
    BY <1>1, <2>1, <2>2, <2>7, FirstTaken DEF TypeInv
  <2>9. \A q \in p : \/ q \in clients[c].paused /\ ~IsResume(c, i, q)
                     \/ \E v \in Worker : /\ job[v].key = q
                                          /\ TopicOf[job[v].name] = clients[c].topic
                                          /\ Resumes(v)'
    BY <1>1, <1>3, <1>5, <1>6, <2>2, <2>3, <2>5
  <2>10. PausedResumes'
    BY <1>1, <2>1, <2>2, <2>4, <2>9, ResumesTaken DEF TypeInv
  <2> QED
    BY <2>4, <2>8, <2>10 DEF AloneInv
<1> QED
  BY <1>7, <1>8, <1>9

\* A resume takes effect, or a flush is answered.
LEMMA AloneOther ==
  ASSUME TypeInv, AloneInv, NEW c \in DOMAIN clients, NEW i \in Commands(c), NEW p \in SUBSET Key,
         Take(c, i, p), UNCHANGED <<job, messages, alone>>, p \subseteq clients[c].paused,
         \A k \in p : ~IsResume(c, i, k)
  PROVE  AloneInv'
<1>1. \A v \in Worker : Resumes(v) => Resumes(v)'
  BY DEF Resumes
<1>2. AloneFirst' /\ PausedResumes'
  BY <1>1, FirstTaken, ResumesTaken DEF TypeInv
<1>3. ResumeActive' /\ Awaited' /\ AloneKnown' /\ NextPublishSent'
  BY DEF AloneInv, ResumeActive, Awaited, AloneKnown, NextPublishSent
<1> QED
  BY <1>2, <1>3 DEF AloneInv

LEMMA AloneWork ==
  ASSUME TypeInv, ClientInv, QueueInv, AloneInv, NEW c \in DOMAIN clients,
         NEW i \in DOMAIN clients[c].queue, Work(c, i)
  PROVE  AloneInv'
<1>1. i \in Commands(c)
  BY DEF Commands
<1>2. CASE Resume(c, i)
  <2> DEFINE p == clients[c].paused \ {clients[c].queue[i].key}
  <2>1. Take(c, i, p) /\ UNCHANGED <<job, messages, alone>>
    BY <1>2 DEF Resume, historyVars
  <2>2. p \in SUBSET Key
    BY QueueType DEF TypeInv
  <2>3. p \subseteq clients[c].paused /\ \A k \in p : ~IsResume(c, i, k)
    BY DEF IsResume
  <2> HIDE DEF p
  <2> QED
    BY <1>1, <2>1, <2>2, <2>3, AloneOther
<1> QED
  BY <1>1, <1>2, AloneAnswered DEF Work

LEMMA AloneFlush ==
  ASSUME TypeInv, QueueInv, AloneInv, NEW c \in DOMAIN clients, Flush(c) \/ Flushed(c)
  PROVE  AloneInv'
<1>1. UNCHANGED <<job, messages, alone>>
  BY DEF Flush, Flushed, historyVars
<1>2. CASE Flush(c)
  <2> DEFINE m == [does |-> "flush", key |-> None, message |-> None]
  <2>1. m \in Command /\ m.does = "flush" /\ Queue(c, m)
    BY <1>2 DEF Flush, Command
  <2> HIDE DEF m
  <2>2. \A v \in Worker : Resumes(v) => Resumes(v)'
    BY <1>1 DEF Resumes
  <2>3. PausedResumes'
    BY <1>1, <2>1, <2>2, ResumesQueued DEF TypeInv
  <2>4. AloneFirst'
    BY <1>1, <2>1, FirstQueued DEF TypeInv
  <2>5. ResumeActive' /\ Awaited' /\ AloneKnown' /\ NextPublishSent'
    BY <1>1 DEF AloneInv, ResumeActive, Awaited, AloneKnown, NextPublishSent
  <2> QED
    BY <2>3, <2>4, <2>5 DEF AloneInv
<1>3. CASE Flushed(c)
  <2>1. /\ 1 \in Commands(c) /\ Take(c, 1, clients[c].paused)
        /\ \A k \in clients[c].paused : ~IsResume(c, 1, k)
    BY <1>3 DEF Flushed, Ready, Commands, IsResume
  <2>2. clients[c].paused \in SUBSET Key
    BY QueueType DEF TypeInv
  <2> QED
    BY <1>1, <2>1, <2>2, AloneOther
<1> QED
  BY <1>2, <1>3

\* The steps of a lookup, of which one may build a client publisher.
LEMMA AloneFinds ==
  ASSUME TypeInv, AloneInv, NEW w \in Worker,
         Find(w) \/ Load(w) \/ Lock(w) \/ Build(w) \/ Remember(w)
  PROVE  AloneInv'
<1> DEFINE i == job[w]
<1>1. UNCHANGED <<messages, alone>> /\ i.pc \notin {"idle", "await"}
  BY DEF Find, Load, Lock, Build, Remember, historyVars
<1>2. i \in Job /\ i.name \in Name
  BY <1>1 DEF TypeInv, TypeOK, JobFields
<1>3. \/ UNCHANGED clients
      \/ \E t \in Topic : clients' = Append(clients, [topic |-> t, queue |-> <<>>, paused |-> {}])
  <2>1. CASE Build(w)
    <3>1. TopicOf[i.name] \in Topic
      BY <1>2
    <3> QED
      BY <2>1, <3>1 DEF Build
  <2> QED
    BY <2>1 DEF Find, Load, Lock, Remember
<1>4. job' \in [Worker -> Job]
  <2>1. TypeInv'
    BY LookupType
  <2> QED
    BY <2>1 DEF TypeInv, TypeOK
<1> DEFINE j == job'[w]
<1>5. job' = [job EXCEPT ![w] = j]
  BY <1>4 DEF Find, Load, Lock, Build, Remember, TypeInv, TypeOK
<1>6. /\ j \in Job /\ j.pc \notin {"idle", "await"}
      /\ j.does = i.does /\ j.key = i.key /\ j.name = i.name
  <2>1. j \in Job
    BY <1>4
  <2>2. \/ \E p \in {"load", "lock", "build", "use"} : job' = [job EXCEPT ![w].pc = p]
        \/ \E p \in {"use", "remember"} : \E c : job' = [job EXCEPT ![w] = [@ EXCEPT !.pc = p, !.client = c]]
    BY DEF Find, Load, Lock, Build, Remember
  <2>3. \/ \E p \in {"load", "lock", "build", "use"} : j = [i EXCEPT !.pc = p]
        \/ \E p \in {"use", "remember"} : \E c : j = [i EXCEPT !.pc = p, !.client = c]
    BY <2>2 DEF TypeInv, TypeOK
  <2> HIDE DEF i, j
  <2> QED
    BY <1>2, <2>1, <2>3, ZenonT(30) DEF Job, PC
<1> QED
  BY <1>1, <1>3, <1>5, <1>6, AloneLookup

\* Every step where no publish future is dropped.
LEMMA AloneStep ==
  ASSUME Abandonable = {}, TypeInv, ClientInv, QueueInv, AloneInv, [Next]_vars
  PROVE  AloneInv'
<1>1. ASSUME UNCHANGED <<clients, messages, alone, job>>
      PROVE  AloneInv'
  BY <1>1, AloneFrame DEF TypeInv
<1>2. CASE UNCHANGED vars
  BY <1>1, <1>2 DEF vars, historyVars
<1>3. ASSUME NEW w \in Worker, Proceed(w) PROVE AloneInv'
  <2>1. CASE Use(w)
    <3>1. job[w].does \in {"publish", "resume"}
      BY <2>1, AtUse DEF Use
    <3> QED
      BY <2>1, <3>1, AloneUsePublish, AloneUseResume
  <2> QED
    BY <1>3, <2>1, AloneFinds, AloneCall DEF Proceed
<1>4. ASSUME NEW w \in Worker, \E h \in Handle, n \in Name, k \in Key \cup {None} : Publish(w, h, n, k)
      PROVE  AloneInv'
  BY <1>4, AloneCall
<1>5. ASSUME NEW w \in Worker, Abandon(w) PROVE AloneInv'
  BY <1>5 DEF Abandon
<1>6. ASSUME NEW c \in DOMAIN clients, NEW i \in DOMAIN clients[c].queue, Work(c, i) PROVE AloneInv'
  BY <1>6, AloneWork
<1>7. ASSUME NEW c \in DOMAIN clients, Flush(c) \/ Flushed(c) PROVE AloneInv'
  BY <1>7, AloneFlush
<1>8. CASE Close \/ All \/ Done
  BY <1>1, <1>8 DEF Close, All, Done, historyVars
<1> QED
  BY <1>2, <1>3, <1>4, <1>5, <1>6, <1>7, <1>8 DEF Next

\* Where every publish is awaited to its end, a publish queued beside no other
\* under its key is never refused for a key an earlier one left paused: what
\* ordering.md promises of the next publish holds but for dropped futures, since
\* whatever paused the key has queued its resume before the failed publish
\* returned (the resume_publish at the end of PubSubPublisher::publish).
THEOREM NextIsSent == Abandonable = {} => (Spec => []NextPublishSent)
<1>1. Init => AloneInv
  BY AloneInit
<1>2. SUFFICES ASSUME Abandonable = {}
               PROVE  Spec => []NextPublishSent
  OBVIOUS
<1>3. (TypeInv /\ ClientInv /\ QueueInv) /\ AloneInv /\ [Next]_vars => AloneInv'
  BY <1>2, AloneStep
<1>4. AloneInv => NextPublishSent
  BY DEF AloneInv
<1> QED
  BY <1>1, <1>3, <1>4, QueueAlways, PTL DEF Spec

===============================================================================
