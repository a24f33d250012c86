--------------------------- MODULE ServicesProofs ---------------------------
(***************************************************************************)
(* An acknowledged delivery has done its work, a message that ran out of   *)
(* attempts stands in the dead-letter topic, and a topic that promises     *)
(* keys has them, for every set of services.                               *)
(*                                                                         *)
(* The logs only grow and a copy keeps its place, so what once stands in a *)
(* topic stands there for good (Kept); a handler at work has put there     *)
(* everything it counts as sent, and its outcome is an ack only while      *)
(* nothing failed (RunOK).  A copy is dead exactly when its letter is in   *)
(* the logs, and no entry of any log comes from a copy that is not dead    *)
(* (Letters, Origins).  A message has its key because the publish that put *)
(* it there resolved it, or because its delivery reported it (LogsKeyed).  *)
(***************************************************************************)
EXTENDS Services, WireProofs, SequenceTheorems, FiniteSetTheorems, TLAPS

IsSeq(s) == \E S : s \in Seq(S)

\* Sequences of whatever: their domain, and what an append does.
LEMMA Sequences ==
    ASSUME NEW s, IsSeq(s)
    PROVE  Len(s) \in Nat /\ DOMAIN s = 1..Len(s)
<1>1. PICK S : s \in Seq(S)
  BY DEF IsSeq
<1>2. QED
  BY <1>1, LenProperties

LEMMA SameLength ==
    ASSUME NEW s, NEW u, IsSeq(s), IsSeq(u), DOMAIN s = DOMAIN u
    PROVE  Len(s) = Len(u)
<1>1. PICK m \in Nat : m = Len(s) /\ DOMAIN s = 1..m
  BY Sequences
<1>2. PICK n \in Nat : n = Len(u) /\ DOMAIN u = 1..n
  BY Sequences
<1>3. 1..m = 1..n
  BY <1>1, <1>2
<1>4. m = n
  BY <1>3
<1>5. QED
  BY <1>1, <1>2, <1>4

LEMMA Appended ==
    ASSUME NEW s, IsSeq(s), NEW e
    PROVE  /\ IsSeq(Append(s, e))
           /\ DOMAIN Append(s, e) = 1..(Len(s) + 1)
           /\ Append(s, e)[Len(s) + 1] = e
           /\ \A i \in DOMAIN s : i \in DOMAIN Append(s, e) /\ Append(s, e)[i] = s[i]
<1>1. PICK S : s \in Seq(S)
  BY DEF IsSeq
<1>2. s \in Seq(S \cup {e}) /\ e \in S \cup {e}
  BY <1>1, SeqMonotonic
<1>3. Len(s) \in Nat /\ DOMAIN s = 1..Len(s)
  BY <1>1, LenProperties
<1>4. /\ Append(s, e) \in Seq(S \cup {e})
      /\ Len(Append(s, e)) = Len(s) + 1
      /\ \A i \in 1..Len(s) : Append(s, e)[i] = s[i]
      /\ Append(s, e)[Len(s) + 1] = e
  BY <1>2, AppendProperties
<1>5. DOMAIN Append(s, e) = 1..(Len(s) + 1)
  BY <1>4, LenProperties
<1>6. QED
  BY <1>3, <1>4, <1>5 DEF IsSeq

LEMMA Replaced ==
    ASSUME NEW s, IsSeq(s), NEW i \in DOMAIN s, NEW e
    PROVE  /\ IsSeq([s EXCEPT ![i] = e])
           /\ DOMAIN [s EXCEPT ![i] = e] = DOMAIN s
           /\ \A j \in DOMAIN s : [s EXCEPT ![i] = e][j] = IF j = i THEN e ELSE s[j]
<1>1. PICK S : s \in Seq(S)
  BY DEF IsSeq
<1>2. s \in Seq(S \cup {e}) /\ e \in S \cup {e}
  BY <1>1, SeqMonotonic
<1>3. DOMAIN s = 1..Len(s)
  BY <1>1, LenProperties
<1>4. [s EXCEPT ![i] = e] \in Seq(S \cup {e})
  BY <1>2, <1>3, ExceptSeq
<1>5. QED
  BY <1>4 DEF IsSeq

-----------------------------------------------------------------------------
(* The state *)

CopyOK(copy) ==
    /\ copy.state \in {"live", "spent", "acked", "dead"}
    /\ copy.attempt \in 0..AttemptMax
    /\ copy.state = "live" => copy.attempt # 0
    /\ copy.state = "spent" => copy.to \in Topic

Mounted ==
    /\ service \in Service
    /\ topicOf = [r \in Reg |-> IF r \in Registered THEN service.regs[r].topic ELSE None]
    /\ policy = [r \in Reg |-> IF r \in Registered THEN service.regs[r].policy ELSE None]

Logged == DOMAIN log = Topic /\ \A t \in Topic : IsSeq(log[t])

Copied ==
    /\ DOMAIN copies = Reg
    /\ \A r \in Reg :
         /\ IsSeq(copies[r])
         /\ \A i \in DOMAIN copies[r] : CopyOK(copies[r][i])
         /\ IF r \in Registered
            THEN Len(copies[r]) = Len(log[topicOf[r]])
            ELSE copies[r] = <<>>

Announced == starting \subseteq service.announce

Shape == Mounted /\ Logged /\ Copied /\ Announced

RunOK(run) ==
    /\ DOMAIN run = {"reg", "copy", "attempt", "work", "sent", "outcome", "failed", "leased"}
    /\ run.reg \in Registered
    /\ run.copy \in DOMAIN copies[run.reg]
    /\ run.attempt \in 1..AttemptMax \cup {None}
    /\ run.work \in Works(run.reg, run.copy)
    /\ run.sent \in 0..Len(run.work.sends)
    /\ run.failed \in BOOLEAN
    /\ \A step \in 1..run.sent : Stands(run.work.sends[step], run.reg, run.copy, step)
    /\ IF run.failed
       THEN \E step \in DOMAIN run.work.sends : run.outcome = run.work.sends[step].orElse
       ELSE run.outcome = run.work.settle

Inv == Shape /\ (\A run \in runs : RunOK(run)) /\ AckedMeansDone

\* What a step may do to the transport.
Kept ==
    /\ UNCHANGED <<service, topicOf, policy>>
    /\ \A t \in Topic : \A k \in DOMAIN log[t] : k \in DOMAIN log'[t] /\ log'[t][k] = log[t][k]
    /\ \A r \in Reg : DOMAIN copies[r] \subseteq DOMAIN copies'[r]

Deserved(r, i) == \E work \in Works(r, i) : Done(work, r, i) \/ GivesUp(work)

AcksDeserved ==
    \A r \in Registered : \A i \in DOMAIN copies'[r] :
      copies'[r][i].state = "acked" =>
        i \in DOMAIN copies[r] /\ (copies[r][i].state = "acked" \/ Deserved(r, i))

-----------------------------------------------------------------------------
(* What follows from the shape *)

LEMMA RegisteredFacts ==
    ASSUME Shape, NEW r \in Registered
    PROVE  /\ r \in Reg
           /\ topicOf[r] \in Topic
           /\ DOMAIN copies[r] = DOMAIN log[topicOf[r]]
           /\ policy[r] # None => policy[r] \in [topic : Topic, max : Nat \ {0}]
<1>1. service \in Service /\ r \in Reg /\ RegistrationAssumed(service.regs[r])
  BY ServicesAssumption DEF Shape, Mounted, Registered
<1>2. topicOf[r] = service.regs[r].topic /\ policy[r] = service.regs[r].policy
  BY <1>1 DEF Shape, Mounted
<1>3. topicOf[r] \in Topic /\ (policy[r] # None => policy[r] \in [topic : Topic, max : Nat \ {0}])
  BY <1>1, <1>2 DEF RegistrationAssumed
<1>4. IsSeq(copies[r]) /\ IsSeq(log[topicOf[r]]) /\ Len(copies[r]) = Len(log[topicOf[r]])
  BY <1>1, <1>3 DEF Shape, Logged, Copied
<1>5. QED
  BY <1>1, <1>3, <1>4, Sequences

\* Only a registration has copies.
LEMMA CopiesOfRegistered ==
    ASSUME Shape, NEW r \in Reg, NEW i \in DOMAIN copies[r]
    PROVE  r \in Registered
BY DEF Shape, Copied

LEMMA WorksAssumed ==
    ASSUME Shape, NEW r \in Registered, NEW kind
    PROVE  /\ Len(WorksOn(r, kind)) \in Nat \ {0}
           /\ DOMAIN WorksOn(r, kind) = 1..Len(WorksOn(r, kind))
           /\ \A a \in DOMAIN WorksOn(r, kind) : WorkAssumed(WorksOn(r, kind)[a])
<1>1. RegistrationAssumed(service.regs[r])
  BY ServicesAssumption DEF Shape, Mounted, Registered
<1>2. CASE kind \in DOMAIN service.regs[r].body
  BY <1>1, <1>2 DEF RegistrationAssumed, WorksOn
<1>3. CASE kind \notin DOMAIN service.regs[r].body
  <2> DEFINE work == [sends |-> <<>>, settle |-> "drop"]
  <2>1. WorksOn(r, kind) = <<work>>
    BY <1>3 DEF WorksOn, Undecodable
  <2>2. WorkAssumed(work)
    BY DEF WorkAssumed
  <2> HIDE DEF work
  <2>3. Len(<<work>>) = 1 /\ DOMAIN <<work>> = 1..1 /\ <<work>>[1] = work
    OBVIOUS
  <2>4. QED
    BY <2>1, <2>2, <2>3
<1>4. QED
  BY <1>2, <1>3

-----------------------------------------------------------------------------
(* What a step of the transport keeps *)

LEMMA TransportUnchanged ==
    ASSUME Inv, UNCHANGED <<service, transport>>, starting' \subseteq service.announce
    PROVE  Shape' /\ Kept /\ AcksDeserved
<1>1. UNCHANGED <<service, topicOf, policy, log, copies>>
  BY DEF transport
<1>2. Shape'
  BY <1>1 DEF Inv, Shape, Mounted, Logged, Copied, Announced, Registered
<1>3. Kept
  BY <1>1 DEF Kept
<1>4. AcksDeserved
  BY <1>1 DEF AcksDeserved
<1>5. QED
  BY <1>2, <1>3, <1>4

\* An entry arrives in a topic, while the copies have become now.
LEMMA FanoutKeeps ==
    ASSUME Inv, UNCHANGED <<service, topicOf, policy>>, starting' \subseteq service.announce,
           NEW t \in Topic, NEW entry, NEW now,
           Contract!Fanout(t, entry, now),
           DOMAIN now = Reg,
           \A r \in Reg :
             /\ IsSeq(now[r])
             /\ DOMAIN now[r] = DOMAIN copies[r]
             /\ \A i \in DOMAIN now[r] :
                  /\ CopyOK(now[r][i])
                  /\ now[r][i].state = "acked" => copies[r][i].state = "acked"
    PROVE  Shape' /\ Kept /\ AcksDeserved
<1> USE DEF Inv
<1>0. Mounted' /\ Announced'
  BY DEF Shape, Mounted, Announced, Registered
<1>1. log' = [log EXCEPT ![t] = Append(@, entry)]
  BY DEF Contract!Fanout
<1>2. /\ DOMAIN log' = Topic
      /\ log'[t] = Append(log[t], entry)
      /\ \A u \in Topic \ {t} : log'[u] = log[u]
  BY <1>1 DEF Shape, Logged
<1>3. /\ IsSeq(log'[t])
      /\ DOMAIN log'[t] = 1..(Len(log[t]) + 1)
      /\ \A k \in DOMAIN log[t] : k \in DOMAIN log'[t] /\ log'[t][k] = log[t][k]
  BY <1>2, Appended DEF Shape, Logged
<1>4. Logged'
  BY <1>2, <1>3 DEF Shape, Logged
<1>5. /\ DOMAIN copies' = Reg
      /\ \A r \in Reg : copies'[r] = IF topicOf[r] = t
                                   THEN Append(now[r], Contract!Live(1)) ELSE now[r]
  BY DEF Contract!Fanout
<1>6. ASSUME NEW r \in Reg, topicOf[r] = t
      PROVE  /\ IsSeq(copies'[r])
             /\ DOMAIN copies'[r] = 1..(Len(now[r]) + 1)
             /\ copies'[r][Len(now[r]) + 1] = Contract!Live(1)
             /\ \A i \in DOMAIN now[r] : i \in DOMAIN copies'[r] /\ copies'[r][i] = now[r][i]
  <2>1. copies'[r] = Append(now[r], Contract!Live(1))
    BY <1>5, <1>6
  <2>2. IsSeq(now[r])
    OBVIOUS
  <2> DEFINE seq == now[r]
  <2> DEFINE fresh == Contract!Live(1)
  <2> HIDE DEF seq, fresh
  <2>3. /\ IsSeq(Append(seq, fresh))
        /\ DOMAIN Append(seq, fresh) = 1..(Len(seq) + 1)
        /\ Append(seq, fresh)[Len(seq) + 1] = fresh
        /\ \A i \in DOMAIN seq : i \in DOMAIN Append(seq, fresh) /\ Append(seq, fresh)[i] = seq[i]
    <3>1. IsSeq(seq)
      BY <2>2 DEF seq
    <3>2. QED
      BY <3>1, Appended
  <2>4. QED
    BY <2>1, <2>3 DEF seq, fresh
<1>7. ASSUME NEW r \in Reg
      PROVE  /\ DOMAIN now[r] = 1..Len(now[r]) /\ Len(now[r]) \in Nat
             /\ DOMAIN copies[r] = 1..Len(copies[r]) /\ Len(copies[r]) \in Nat
             /\ Len(now[r]) = Len(copies[r])
  <2>1. IsSeq(copies[r]) /\ IsSeq(now[r])
    BY DEF Shape, Copied
  <2>2. /\ DOMAIN now[r] = 1..Len(now[r]) /\ Len(now[r]) \in Nat
        /\ DOMAIN copies[r] = 1..Len(copies[r]) /\ Len(copies[r]) \in Nat
    BY <2>1, Sequences
  <2>3. QED
    BY <2>2
<1>8. CopyOK(Contract!Live(1)) /\ Contract!Live(1).state = "live"
  BY ServicesAssumption DEF CopyOK, Contract!Live
<1>9. ASSUME NEW r \in Reg
      PROVE  /\ IsSeq(copies'[r])
             /\ DOMAIN copies[r] \subseteq DOMAIN copies'[r]
             /\ \A i \in DOMAIN copies'[r] :
                  /\ CopyOK(copies'[r][i])
                  /\ copies'[r][i].state = "acked" =>
                       i \in DOMAIN copies[r] /\ copies[r][i].state = "acked"
  <2>1. CASE topicOf[r] = t
    <3>1. ASSUME NEW i \in DOMAIN copies'[r]
          PROVE  i \in DOMAIN now[r] \/ copies'[r][i] = Contract!Live(1)
      BY <1>6, <1>7, <2>1, <3>1
    <3>2. QED
      BY <1>6, <1>8, <2>1, <3>1
  <2>2. CASE topicOf[r] # t
    BY <1>5, <2>2
  <2>3. QED
    BY <2>1, <2>2
<1>10. ASSUME NEW r \in Reg
       PROVE  IF r \in Registered'
              THEN Len(copies'[r]) = Len(log'[topicOf'[r]])
              ELSE copies'[r] = <<>>
  <2>1. CASE r \in Registered
    <3>1. topicOf[r] \in Topic /\ Len(copies[r]) = Len(log[topicOf[r]])
      BY <2>1, RegisteredFacts DEF Shape, Copied
    <3>2. CASE topicOf[r] = t
      <4>1. DOMAIN copies'[r] = DOMAIN log'[t]
        BY <1>3, <1>6, <1>7, <3>1, <3>2
      <4>2. Len(copies'[r]) = Len(log'[t])
        BY <1>3, <1>9, <4>1, SameLength
      <4>3. QED
        BY <2>1, <3>2, <4>2 DEF Registered
    <3>3. CASE topicOf[r] # t
      BY <1>2, <1>5, <1>7, <2>1, <3>1, <3>3 DEF Registered
    <3>4. QED
      BY <3>2, <3>3
  <2>2. CASE r \notin Registered
    <3>1. topicOf[r] = None /\ copies[r] = <<>>
      BY <2>2 DEF Shape, Mounted, Copied
    <3>2. topicOf[r] # t
      BY <3>1, ServicesAssumption
    <3>3. copies'[r] = now[r]
      BY <1>5, <3>2
    <3>4. Len(now[r]) = 0 /\ IsSeq(now[r])
      BY <1>7, <3>1
    <3>5. now[r] = <<>>
      <4>1. PICK S : now[r] \in Seq(S)
        BY <3>4 DEF IsSeq
      <4>2. QED
        BY <3>4, <4>1, EmptySeq
    <3>6. QED
      BY <2>2, <3>3, <3>5 DEF Registered
  <2>3. QED
    BY <2>1, <2>2
<1>11. Copied'
  BY <1>5, <1>9, <1>10 DEF Copied
<1>12. Shape'
  BY <1>0, <1>4, <1>11 DEF Shape
<1>13. Kept
  BY <1>2, <1>3, <1>9 DEF Kept
<1>14. AcksDeserved
  BY <1>9, RegisteredFacts DEF AcksDeserved
<1>15. QED
  BY <1>12, <1>13, <1>14

\* One copy becomes another, an ack only where it is deserved.
LEMMA BecomeKeeps ==
    ASSUME Inv, UNCHANGED service, starting' \subseteq service.announce,
           NEW r \in Reg, NEW i \in DOMAIN copies[r], NEW copy,
           Contract!Become(r, i, copy), CopyOK(copy),
           copy.state = "acked" => Deserved(r, i)
    PROVE  Shape' /\ Kept /\ AcksDeserved
<1> USE DEF Inv
<1>1. UNCHANGED <<topicOf, policy, log>> /\ copies' = [copies EXCEPT ![r][i] = copy]
  BY DEF Contract!Become
<1>2. IsSeq(copies[r]) /\ DOMAIN copies = Reg
  BY DEF Shape, Copied
<1>3. /\ DOMAIN copies' = Reg
      /\ copies'[r] = [copies[r] EXCEPT ![i] = copy]
      /\ \A q \in Reg \ {r} : copies'[q] = copies[q]
  BY <1>1, <1>2
<1>4. /\ IsSeq(copies'[r])
      /\ DOMAIN copies'[r] = DOMAIN copies[r]
      /\ \A j \in DOMAIN copies[r] : copies'[r][j] = IF j = i THEN copy ELSE copies[r][j]
  <2> DEFINE seq == copies[r]
  <2>1. IsSeq(seq) /\ i \in DOMAIN seq
    BY <1>2
  <2> HIDE DEF seq
  <2>2. /\ IsSeq([seq EXCEPT ![i] = copy])
        /\ DOMAIN [seq EXCEPT ![i] = copy] = DOMAIN seq
        /\ \A j \in DOMAIN seq : [seq EXCEPT ![i] = copy][j] = IF j = i THEN copy ELSE seq[j]
    BY <2>1, Replaced
  <2>3. QED
    BY <1>3, <2>2 DEF seq
<1>5. Len(copies'[r]) = Len(copies[r])
  BY <1>2, <1>4, SameLength
<1>6. r \in Registered
  BY CopiesOfRegistered
<1>7. Mounted' /\ Announced' /\ Logged'
  BY <1>1 DEF Shape, Mounted, Announced, Registered, Logged
<1>8. ASSUME NEW q \in Reg
      PROVE  /\ IsSeq(copies'[q])
             /\ \A j \in DOMAIN copies'[q] : CopyOK(copies'[q][j])
             /\ IF q \in Registered' THEN Len(copies'[q]) = Len(log'[topicOf'[q]])
                ELSE copies'[q] = <<>>
  <2>1. CASE q = r
    BY <1>1, <1>4, <1>5, <1>6, <2>1 DEF Shape, Copied, Registered
  <2>2. CASE q # r
    BY <1>1, <1>3, <2>2 DEF Shape, Copied, Registered
  <2>3. QED
    BY <2>1, <2>2
<1>9. Copied'
  BY <1>3, <1>8 DEF Copied
<1>10. Kept
  BY <1>1, <1>3, <1>4 DEF Kept
<1>11. AcksDeserved
  <2> SUFFICES ASSUME NEW q \in Registered, NEW j \in DOMAIN copies'[q],
                      copies'[q][j].state = "acked"
               PROVE  j \in DOMAIN copies[q] /\ (copies[q][j].state = "acked" \/ Deserved(q, j))
    BY DEF AcksDeserved
  <2>1. q \in Reg
    BY RegisteredFacts
  <2>2. CASE q = r
    BY <1>4, <2>2
  <2>3. CASE q # r
    BY <1>3, <2>1, <2>3
  <2>4. QED
    BY <2>2, <2>3
<1>12. QED
  BY <1>7, <1>9, <1>10, <1>11 DEF Shape

-----------------------------------------------------------------------------
(* What a kept transport preserves of the handlers at work *)

LEMMA KeptPlaces ==
    ASSUME Inv, Kept, NEW r \in Registered, NEW i \in DOMAIN copies[r]
    PROVE  /\ i \in DOMAIN copies'[r]
           /\ MessageOf(r, i)' = MessageOf(r, i)
           /\ Works(r, i)' = Works(r, i)
<1>1. /\ r \in Reg /\ topicOf[r] \in Topic
      /\ i \in DOMAIN log[topicOf[r]]
  BY RegisteredFacts DEF Inv
<1>2. log'[topicOf[r]][i] = log[topicOf[r]][i]
  BY <1>1 DEF Kept
<1>3. MessageOf(r, i)' = MessageOf(r, i)
  BY <1>2 DEF MessageOf, Kept
<1>4. WorksOn(r, MessageOf(r, i).data.kind)' = WorksOn(r, MessageOf(r, i).data.kind)
  BY <1>3 DEF WorksOn, Kept
<1>5. Works(r, i)' = Works(r, i)
  BY <1>4 DEF Works
<1>6. QED
  BY <1>1, <1>3, <1>5 DEF Kept

\* The works of a message are assumed to be works, and its handler picks one.
LEMMA WorksFacts ==
    ASSUME Inv, NEW r \in Registered, NEW i, NEW work \in Works(r, i)
    PROVE  WorkAssumed(work)
<1>1. \A a \in DOMAIN WorksOn(r, MessageOf(r, i).data.kind) :
        WorkAssumed(WorksOn(r, MessageOf(r, i).data.kind)[a])
  BY WorksAssumed DEF Inv
<1>2. QED
  BY <1>1 DEF Works

LEMMA KeptStands ==
    ASSUME Inv, Kept, NEW r \in Registered, NEW i \in DOMAIN copies[r],
           NEW send, send.to \in Topic, NEW step, Stands(send, r, i, step)
    PROVE  Stands(send, r, i, step)'
<1>1. PICK k \in DOMAIN log[send.to] :
        /\ log[send.to][k].from = From(r, i, step)
        /\ \E attempt \in 1..AttemptMax \cup {None} :
             log[send.to][k].message = Sent(send, MessageOf(r, i), attempt)
  BY DEF Stands
<1>2. k \in DOMAIN log'[send.to] /\ log'[send.to][k] = log[send.to][k]
  BY DEF Kept
<1>3. MessageOf(r, i)' = MessageOf(r, i)
  BY KeptPlaces
<1>4. PICK attempt \in 1..AttemptMax \cup {None} :
        log[send.to][k].message = Sent(send, MessageOf(r, i), attempt)
  BY <1>1
<1>5. log'[send.to][k].message = Sent(send, MessageOf(r, i)', attempt)
  BY <1>2, <1>3, <1>4
<1>6. log'[send.to][k].from = From(r, i, step)
  BY <1>1, <1>2
<1>7. QED
  BY <1>2, <1>4, <1>5, <1>6 DEF Stands

LEMMA KeptDeserved ==
    ASSUME Inv, Kept, NEW r \in Registered, NEW i \in DOMAIN copies[r], Deserved(r, i)
    PROVE  Deserved(r, i)'
<1>1. PICK work \in Works(r, i) : Done(work, r, i) \/ GivesUp(work)
  BY DEF Deserved
<1>2. work \in Works(r, i)'
  BY <1>1, KeptPlaces
<1>3. CASE GivesUp(work)
  BY <1>2, <1>3 DEF Deserved, GivesUp
<1>4. CASE Done(work, r, i)
  <2>1. WorkAssumed(work)
    BY <1>1, WorksFacts
  <2>2. ASSUME NEW step \in DOMAIN work.sends
        PROVE  Stands(work.sends[step], r, i, step)'
    <3>1. work.sends[step].to \in Topic /\ Stands(work.sends[step], r, i, step)
      BY <1>4, <2>1 DEF Done, WorkAssumed
    <3> DEFINE send == work.sends[step]
    <3>2. send.to \in Topic /\ Stands(send, r, i, step)
      BY <3>1
    <3> HIDE DEF send
    <3>3. Stands(send, r, i, step)'
      BY <3>2, KeptStands
    <3>4. QED
      BY <3>3 DEF send
  <2>3. Done(work, r, i)'
    BY <1>4, <2>2 DEF Done
  <2>4. QED
    BY <1>2, <2>3 DEF Deserved
<1>5. QED
  BY <1>1, <1>3, <1>4

LEMMA KeptRun ==
    ASSUME Inv, Kept, NEW run, RunOK(run)
    PROVE  RunOK(run)'
<1>1. /\ run.reg \in Registered /\ run.copy \in DOMAIN copies[run.reg]
      /\ run.work \in Works(run.reg, run.copy)
      /\ run.sent \in 0..Len(run.work.sends)
      /\ \A step \in 1..run.sent : Stands(run.work.sends[step], run.reg, run.copy, step)
  BY DEF RunOK
<1>2. /\ run.copy \in DOMAIN copies'[run.reg]
      /\ run.work \in Works(run.reg, run.copy)'
  BY <1>1, KeptPlaces
<1>3. run.reg \in Registered'
  BY <1>1 DEF Kept, Registered
<1>4. WorkAssumed(run.work)
  BY <1>1, WorksFacts
<1>5. ASSUME NEW step \in 1..run.sent
      PROVE  Stands(run.work.sends[step], run.reg, run.copy, step)'
  <2> DEFINE send == run.work.sends[step]
  <2>1. step \in DOMAIN run.work.sends
    BY <1>1, <1>4 DEF WorkAssumed
  <2>2. send.to \in Topic /\ Stands(send, run.reg, run.copy, step)
    BY <1>1, <1>4, <2>1 DEF WorkAssumed
  <2> HIDE DEF send
  <2>3. Stands(send, run.reg, run.copy, step)'
    BY <1>1, <2>2, KeptStands
  <2>4. QED
    BY <2>3 DEF send
<1>6. QED
  BY <1>2, <1>3, <1>5 DEF RunOK

\* A step that keeps the transport, acks what is deserved, and leaves only
\* handlers that are as they should be, keeps the invariant.
LEMMA InvKept ==
    ASSUME Inv, Shape', Kept, AcksDeserved, \A run \in runs' : RunOK(run)'
    PROVE  Inv'
<1>1. ASSUME NEW r \in Registered', NEW i \in DOMAIN copies'[r], copies'[r][i].state = "acked"
      PROVE  Deserved(r, i)'
  <2>1. r \in Registered
    BY DEF Kept, Registered
  <2>2. i \in DOMAIN copies[r] /\ (copies[r][i].state = "acked" \/ Deserved(r, i))
    BY <1>1, <2>1 DEF AcksDeserved
  <2>3. Deserved(r, i)
    BY <2>1, <2>2 DEF Inv, AckedMeansDone, Deserved
  <2>4. QED
    BY <2>1, <2>2, <2>3, KeptDeserved
<1>2. AckedMeansDone'
  BY <1>1 DEF AckedMeansDone, Deserved
<1>3. QED
  BY <1>2 DEF Inv

-----------------------------------------------------------------------------
(* The steps *)

\* A step that leaves the transport alone keeps the invariant if the handlers it
\* adds or changes are as they should be before it.
LEMMA RunsChange ==
    ASSUME Inv, UNCHANGED <<service, transport>>, starting' \subseteq service.announce,
           \A run \in runs' : RunOK(run)
    PROVE  Inv'
<1>1. Shape' /\ Kept /\ AcksDeserved
  BY TransportUnchanged
<1>2. \A run \in runs' : RunOK(run)'
  BY <1>1, KeptRun
<1>3. QED
  BY <1>1, <1>2, InvKept

LEMMA BeginStep ==
    ASSUME Inv, NEW r \in Reg, NEW i \in DOMAIN copies[r], Begin(r, i)
    PROVE  Inv'
<1> DEFINE attempt == AttemptSeen(r, i)
<1> DEFINE message == MessageOf(r, i)
<1> DEFINE work == Work(r, message, attempt)
<1> DEFINE run == [reg |-> r, copy |-> i, attempt |-> attempt, work |-> work,
                   sent |-> 0, outcome |-> work.settle, failed |-> FALSE, leased |-> TRUE]
<1>1. r \in Registered
  BY CopiesOfRegistered DEF Inv
<1>2. attempt \in 1..AttemptMax \cup {None}
  <2>1. CopyOK(copies[r][i]) /\ copies[r][i].state = "live"
    BY DEF Inv, Shape, Copied, Begin, Contract!IsLive
  <2>2. copies[r][i].attempt \in 1..AttemptMax
    BY <2>1, ServicesAssumption DEF CopyOK
  <2>3. QED
    BY <2>2 DEF AttemptSeen
<1>3. work \in Works(r, i)
  <2> DEFINE works == WorksOn(r, message.data.kind)
  <2> DEFINE a == IF attempt = None THEN 1 ELSE attempt
  <2> DEFINE at == IF a > Len(works) THEN Len(works) ELSE a
  <2>1. Len(works) \in Nat \ {0} /\ DOMAIN works = 1..Len(works)
    BY <1>1, WorksAssumed DEF Inv
  <2>2. a \in Nat \ {0}
    BY <1>2, ServicesAssumption
  <2>3. at \in DOMAIN works
    <3> HIDE DEF works, a
    <3>1. QED
      BY <2>1, <2>2
  <2>4. work = works[at] /\ Works(r, i) = {works[b] : b \in DOMAIN works}
    BY DEF Work, Works
  <2> HIDE DEF works, at, work
  <2>5. QED
    BY <2>3, <2>4
<1>4. WorkAssumed(work)
  BY <1>1, <1>3, WorksFacts
<1>5. RunOK(run)
  <2> HIDE DEF attempt, work
  <2>1. Len(work.sends) \in Nat
    BY <1>4 DEF WorkAssumed
  <2>2. QED
    BY <1>1, <1>2, <1>3, <2>1 DEF RunOK
<1>6. runs' = runs \cup {run} /\ UNCHANGED <<service, transport, starting>>
  BY DEF Begin
<1> HIDE DEF run
<1>7. \A other \in runs' : RunOK(other)
  BY <1>5, <1>6 DEF Inv
<1>8. starting' \subseteq service.announce
  BY <1>6 DEF Inv, Shape, Announced
<1>9. QED
  BY <1>6, <1>7, <1>8, RunsChange

\* What a handler sends next.
LEMMA NextSendFacts ==
    ASSUME Inv, NEW run \in runs, Working(run)
    PROVE  /\ run.sent + 1 \in DOMAIN run.work.sends
           /\ run.sent + 1 \in 1..Len(run.work.sends)
           /\ run.sent \in Nat
           /\ NextSend(run).to \in Topic
<1>1. RunOK(run)
  BY DEF Inv
<1>2. WorkAssumed(run.work)
  BY <1>1, WorksFacts DEF RunOK
<1>3. run.sent \in Nat /\ Len(run.work.sends) \in Nat /\ run.sent < Len(run.work.sends)
  BY <1>1, <1>2 DEF RunOK, WorkAssumed, Working
<1>4. run.sent + 1 \in 1..Len(run.work.sends)
  BY <1>3
<1>5. run.sent + 1 \in DOMAIN run.work.sends
  BY <1>2, <1>4 DEF WorkAssumed
<1>6. QED
  BY <1>2, <1>3, <1>4, <1>5 DEF WorkAssumed, NextSend

\* The copies as they are, for a fanout that changes none of them.
LEMMA CopiesAsTheyAre ==
    ASSUME Inv
    PROVE  /\ DOMAIN copies = Reg
           /\ \A r \in Reg :
                /\ IsSeq(copies[r])
                /\ \A i \in DOMAIN copies[r] : CopyOK(copies[r][i])
BY DEF Inv, Shape, Copied

\* The message is stored: it stands in its topic under the handler's step.
LEMMA StoreKeeps ==
    ASSUME Inv, NEW run \in runs, Working(run), Store(run),
           UNCHANGED <<service, topicOf, policy, starting>>
    PROVE  /\ Shape' /\ Kept /\ AcksDeserved
           /\ Stands(NextSend(run), run.reg, run.copy, run.sent + 1)'
<1> DEFINE to == NextSend(run).to
<1> DEFINE entry == Entry(Wired(run), From(run.reg, run.copy, run.sent + 1))
<1>1. to \in Topic
  BY NextSendFacts
<1>2. Contract!Fanout(to, entry, copies)
  BY DEF Store
<1>3. starting' \subseteq service.announce
  BY DEF Inv, Shape, Announced
<1>4. Shape' /\ Kept /\ AcksDeserved
  <2> HIDE DEF to, entry
  <2>1. QED
    BY <1>1, <1>2, <1>3, CopiesAsTheyAre, FanoutKeeps
<1>5. Stands(NextSend(run), run.reg, run.copy, run.sent + 1)'
  <2>1. log' = [log EXCEPT ![to] = Append(@, entry)]
    BY <1>2 DEF Contract!Fanout
  <2>2. log'[to] = Append(log[to], entry) /\ IsSeq(log[to])
    BY <1>1, <2>1 DEF Inv, Shape, Logged
  <2> DEFINE k == Len(log[to]) + 1
  <2>3. k \in DOMAIN log'[to] /\ log'[to][k] = entry
    <3> DEFINE seq == log[to]
    <3>1. IsSeq(seq)
      BY <2>2
    <3> HIDE DEF seq, entry
    <3>2. /\ DOMAIN Append(seq, entry) = 1..(Len(seq) + 1)
          /\ Append(seq, entry)[Len(seq) + 1] = entry
      BY <3>1, Appended
    <3>3. Len(seq) \in Nat
      BY <3>1, Sequences
    <3>4. QED
      BY <2>2, <3>2, <3>3 DEF seq
  <2>4. RunOK(run)
    BY DEF Inv
  <2>5. MessageOf(run.reg, run.copy)' = MessageOf(run.reg, run.copy)
    BY <1>4, <2>4, KeptPlaces DEF RunOK
  <2>6. /\ entry.from = From(run.reg, run.copy, run.sent + 1)
        /\ entry.message = Sent(NextSend(run), MessageOf(run.reg, run.copy), run.attempt)
    BY DEF Entry, Wired
  <2>7. run.attempt \in 1..AttemptMax \cup {None}
    BY <2>4 DEF RunOK
  <2> HIDE DEF entry, k
  <2>8. QED
    BY <2>3, <2>5, <2>6, <2>7 DEF Stands
<1>6. QED
  BY <1>4, <1>5

LEMMA PublishStep ==
    ASSUME Inv, NEW run \in runs, Publish(run)
    PROVE  Inv'
<1> DEFINE now == [run EXCEPT !.sent = @ + 1]
<1>1. /\ Working(run) /\ Store(run)
      /\ runs' = (runs \ {run}) \cup {now}
      /\ UNCHANGED <<service, topicOf, policy, starting>>
  BY DEF Publish, Becomes
<1>2. /\ Shape' /\ Kept /\ AcksDeserved
      /\ Stands(NextSend(run), run.reg, run.copy, run.sent + 1)'
  BY <1>1, StoreKeeps
<1>3. RunOK(run) /\ RunOK(run)'
  BY <1>2, KeptRun DEF Inv
<1>4. RunOK(now)'
  <2>1. /\ DOMAIN now = DOMAIN run
        /\ now.reg = run.reg /\ now.copy = run.copy /\ now.attempt = run.attempt
        /\ now.work = run.work /\ now.failed = run.failed /\ now.outcome = run.outcome
        /\ now.sent = run.sent + 1
    BY <1>3 DEF RunOK
  <2>2. now.sent \in 0..Len(now.work.sends) /\ run.sent \in Nat
    BY <1>1, <2>1, NextSendFacts
  <2>3. ASSUME NEW step \in 1..now.sent
        PROVE  Stands(now.work.sends[step], now.reg, now.copy, step)'
    <3>1. CASE step = run.sent + 1
      BY <1>2, <2>1, <3>1 DEF NextSend
    <3>2. CASE step # run.sent + 1
      <4>1. step \in 1..run.sent
        BY <2>1, <2>2, <3>2
      <4>2. QED
        BY <1>3, <2>1, <4>1 DEF RunOK
    <3>3. QED
      BY <3>1, <3>2
  <2> HIDE DEF now
  <2>4. QED
    BY <1>3, <2>1, <2>2, <2>3 DEF RunOK
<1> HIDE DEF now
<1>5. ASSUME NEW other \in runs'
      PROVE  RunOK(other)'
  <2>1. CASE other = now
    BY <1>4, <2>1
  <2>2. CASE other \in runs
    BY <1>2, <2>2, KeptRun DEF Inv
  <2>3. QED
    BY <1>1, <1>5, <2>1, <2>2
<1>6. QED
  BY <1>2, <1>5, InvKept

LEMMA PublishFailsStep ==
    ASSUME Inv, NEW run \in runs, PublishFails(run)
    PROVE  Inv'
<1> DEFINE now == [run EXCEPT !.outcome = NextSend(run).orElse, !.failed = TRUE]
<1>1. /\ Working(run)
      /\ Store(run) \/ UNCHANGED <<log, copies>>
      /\ runs' = (runs \ {run}) \cup {now}
      /\ UNCHANGED <<service, topicOf, policy, starting>>
  BY DEF PublishFails, Becomes
<1>2. Shape' /\ Kept /\ AcksDeserved
  <2>1. CASE Store(run)
    BY <1>1, <2>1, StoreKeeps
  <2>2. CASE UNCHANGED <<log, copies>>
    <3>1. UNCHANGED <<service, transport>> /\ starting' \subseteq service.announce
      BY <1>1, <2>2 DEF transport, Inv, Shape, Announced
    <3>2. QED
      BY <3>1, TransportUnchanged
  <2>3. QED
    BY <1>1, <2>1, <2>2
<1>3. RunOK(run) /\ RunOK(run)'
  BY <1>2, KeptRun DEF Inv
<1>4. RunOK(now)'
  <2>1. /\ DOMAIN now = DOMAIN run
        /\ now.reg = run.reg /\ now.copy = run.copy /\ now.attempt = run.attempt
        /\ now.work = run.work /\ now.sent = run.sent
        /\ now.failed = TRUE /\ now.outcome = NextSend(run).orElse
    BY <1>3 DEF RunOK
  <2>2. run.sent + 1 \in DOMAIN run.work.sends
    BY <1>1, NextSendFacts
  <2>3. \E step \in DOMAIN now.work.sends : now.outcome = now.work.sends[step].orElse
    BY <2>1, <2>2 DEF NextSend
  <2> HIDE DEF now
  <2>4. QED
    BY <1>3, <2>1, <2>3 DEF RunOK
<1> HIDE DEF now
<1>5. ASSUME NEW other \in runs'
      PROVE  RunOK(other)'
  <2>1. CASE other = now
    BY <1>4, <2>1
  <2>2. CASE other \in runs
    BY <1>2, <2>2, KeptRun DEF Inv
  <2>3. QED
    BY <1>1, <1>5, <2>1, <2>2
<1>6. QED
  BY <1>2, <1>5, InvKept

\* A delivery comes back on another attempt, or is spent.
LEMMA ComeBackKeeps ==
    ASSUME Inv, NEW r \in Registered, NEW i \in DOMAIN copies[r], ComeBack(r, i),
           UNCHANGED <<service, starting>>
    PROVE  Shape' /\ Kept /\ AcksDeserved
<1>1. r \in Reg /\ (policy[r] # None => policy[r].topic \in Topic)
  BY RegisteredFacts DEF Inv
<1>2. starting' \subseteq service.announce
  BY DEF Inv, Shape, Announced
<1>3. copies[r][i].attempt \in 1..AttemptMax
  <2>1. CopyOK(copies[r][i]) /\ copies[r][i].state = "live"
    BY <1>1, CopiesAsTheyAre DEF ComeBack, Contract!Redeliver, Contract!Spend, Contract!IsLive
  <2>2. QED
    BY <2>1, ServicesAssumption DEF CopyOK
<1>4. CASE Contract!Redeliver(r, i)
  <2> DEFINE a == copies[r][i].attempt
  <2> DEFINE copy == Contract!Live(IF a = AttemptMax THEN a ELSE a + 1)
  <2>1. Contract!Become(r, i, copy)
    BY <1>4 DEF Contract!Redeliver
  <2>2. CopyOK(copy) /\ copy.state = "live"
    BY <1>3, ServicesAssumption DEF CopyOK, Contract!Live
  <2> HIDE DEF copy
  <2>3. QED
    BY <1>1, <1>2, <2>1, <2>2, BecomeKeeps
<1>5. CASE Contract!Spend(r, i)
  <2> DEFINE copy == Contract!Spent(policy[r].topic)
  <2>1. Contract!Become(r, i, copy)
    BY <1>5 DEF Contract!Spend
  <2>2. policy[r] # None
    BY <1>5 DEF Contract!Spend, Contract!AtCap
  <2>3. CopyOK(copy) /\ copy.state = "spent"
    BY <1>1, <2>2, ServicesAssumption DEF CopyOK, Contract!Spent
  <2> HIDE DEF copy
  <2>4. QED
    BY <1>1, <1>2, <2>1, <2>3, BecomeKeeps
<1>6. QED
  BY <1>4, <1>5 DEF ComeBack

LEMMA AcknowledgeKeeps ==
    ASSUME Inv, NEW r \in Registered, NEW i \in DOMAIN copies[r], Contract!Acknowledge(r, i),
           Deserved(r, i), UNCHANGED <<service, starting>>
    PROVE  Shape' /\ Kept /\ AcksDeserved
<1>1. r \in Reg
  BY RegisteredFacts DEF Inv
<1>2. starting' \subseteq service.announce
  BY DEF Inv, Shape, Announced
<1> DEFINE copy == Contract!Acked
<1>3. Contract!Become(r, i, copy)
  BY DEF Contract!Acknowledge
<1>4. CopyOK(copy)
  BY ServicesAssumption DEF CopyOK, Contract!Acked
<1> HIDE DEF copy
<1>5. QED
  BY <1>1, <1>2, <1>3, <1>4, BecomeKeeps

\* What a handler that is through says of its delivery: an ack means that
\* everything it sends stands, a drop that it says so, for itself or for a
\* publish that failed.
LEMMA OutcomeMeans ==
    ASSUME Inv, NEW run \in runs, ~Working(run)
    PROVE  /\ run.outcome = "ack" => Deserved(run.reg, run.copy)
           /\ run.outcome = "drop" => Deserved(run.reg, run.copy)
<1>1. RunOK(run)
  BY DEF Inv
<1>2. run.work \in Works(run.reg, run.copy) /\ WorkAssumed(run.work)
  BY <1>1, WorksFacts DEF RunOK
<1>3. CASE run.failed
  <2>1. PICK step \in DOMAIN run.work.sends : run.outcome = run.work.sends[step].orElse
    BY <1>1, <1>3 DEF RunOK
  <2>2. run.outcome # "ack"
    BY <1>2, <2>1 DEF WorkAssumed
  <2>3. run.outcome = "drop" => GivesUp(run.work)
    BY <2>1 DEF GivesUp
  <2>4. QED
    BY <1>2, <2>2, <2>3 DEF Deserved
<1>4. CASE ~run.failed
  <2>1. run.outcome = run.work.settle
    BY <1>1, <1>4 DEF RunOK
  <2>2. run.outcome = "drop" => GivesUp(run.work)
    BY <2>1 DEF GivesUp
  <2>3. run.sent = Len(run.work.sends) /\ DOMAIN run.work.sends = 1..run.sent
    BY <1>1, <1>2, <1>4 DEF RunOK, WorkAssumed, Working
  <2>4. run.outcome = "ack" => Done(run.work, run.reg, run.copy)
    BY <1>1, <2>1, <2>3 DEF Done, RunOK
  <2>5. QED
    BY <1>2, <2>2, <2>4 DEF Deserved
<1>5. QED
  BY <1>3, <1>4

LEMMA SettleStep ==
    ASSUME Inv, NEW run \in runs, Settle(run)
    PROVE  Inv'
<1>1. /\ ~Working(run) /\ runs' = runs \ {run} /\ UNCHANGED <<service, starting>>
  BY DEF Settle
<1>2. RunOK(run)
  BY DEF Inv
<1>3. run.reg \in Registered /\ run.copy \in DOMAIN copies[run.reg]
  BY <1>2 DEF RunOK
<1>4. Shape' /\ Kept /\ AcksDeserved
  <2>1. CASE ~run.leased
    <3>1. UNCHANGED <<service, transport>> /\ starting' \subseteq service.announce
      BY <1>1, <2>1 DEF Settle, Inv, Shape, Announced
    <3>2. QED
      BY <3>1, TransportUnchanged
  <2>2. CASE run.leased
    <3>1. Settled(run.reg, run.copy, run.outcome)
      BY <2>2 DEF Settle
    <3>2. CASE run.outcome = "ack" /\ Contract!Acknowledge(run.reg, run.copy)
      BY <1>1, <1>3, <3>2, OutcomeMeans, AcknowledgeKeeps
    <3>3. CASE run.outcome = "drop" /\ Drop(run.reg, run.copy)
      <4>1. CASE Contract!AtCap(run.reg, run.copy)
        <5>1. ComeBack(run.reg, run.copy)
          BY <3>3, <4>1 DEF Drop, ComeBack
        <5>2. QED
          BY <1>1, <1>3, <5>1, ComeBackKeeps
      <4>2. CASE ~Contract!AtCap(run.reg, run.copy)
        <5>1. Contract!Acknowledge(run.reg, run.copy)
          BY <3>3, <4>2 DEF Drop
        <5>2. QED
          BY <1>1, <1>3, <3>3, <5>1, OutcomeMeans, AcknowledgeKeeps
      <4>3. QED
        BY <4>1, <4>2
    <3>4. CASE ComeBack(run.reg, run.copy)
      BY <1>1, <1>3, <3>4, ComeBackKeeps
    <3>5. QED
      BY <3>1, <3>2, <3>3, <3>4 DEF Settled
  <2>3. QED
    BY <2>1, <2>2
<1>5. \A other \in runs' : RunOK(other)'
  BY <1>1, <1>4, KeptRun DEF Inv
<1>6. QED
  BY <1>4, <1>5, InvKept

LEMMA DeadLetterStep ==
    ASSUME Inv, NEW r \in Reg, NEW i \in DOMAIN copies[r], DeadLetter(r, i)
    PROVE  Inv'
<1> DEFINE now == [copies EXCEPT ![r][i] = Contract!Dead]
<1> DEFINE entry == Entry(MessageOf(r, i), From(r, i, 0))
<1> DEFINE to == copies[r][i].to
<1>1. /\ DOMAIN copies = Reg
      /\ \A q \in Reg : IsSeq(copies[q]) /\ \A j \in DOMAIN copies[q] : CopyOK(copies[q][j])
  BY CopiesAsTheyAre
<1>2. to \in Topic
  BY <1>1 DEF DeadLetter, CopyOK
<1>3. Contract!Fanout(to, entry, now) /\ UNCHANGED <<service, topicOf, policy, runs, starting>>
  BY DEF DeadLetter
<1>4. starting' \subseteq service.announce
  BY <1>3 DEF Inv, Shape, Announced
<1>5. CopyOK(Contract!Dead) /\ Contract!Dead.state = "dead"
  BY ServicesAssumption DEF CopyOK, Contract!Dead
<1>6. ASSUME NEW q \in Reg
      PROVE  /\ IsSeq(now[q])
             /\ DOMAIN now[q] = DOMAIN copies[q]
             /\ \A j \in DOMAIN now[q] :
                  /\ CopyOK(now[q][j])
                  /\ now[q][j].state = "acked" => copies[q][j].state = "acked"
  <2>1. CASE q = r
    <3> DEFINE seq == copies[r]
    <3> DEFINE dead == Contract!Dead
    <3>1. IsSeq(seq) /\ i \in DOMAIN seq
      BY <1>1
    <3>2. now[q] = [seq EXCEPT ![i] = dead]
      BY <1>1, <2>1
    <3>3. \A j \in DOMAIN seq : CopyOK(seq[j])
      BY <1>1
    <3>4. CopyOK(dead) /\ dead.state = "dead"
      BY <1>5
    <3> HIDE DEF seq, dead, now
    <3>5. /\ IsSeq([seq EXCEPT ![i] = dead])
          /\ DOMAIN [seq EXCEPT ![i] = dead] = DOMAIN seq
          /\ \A j \in DOMAIN seq : [seq EXCEPT ![i] = dead][j] = IF j = i THEN dead ELSE seq[j]
      BY <3>1, Replaced
    <3>6. QED
      BY <2>1, <3>2, <3>3, <3>4, <3>5 DEF seq
  <2>2. CASE q # r
    <3>1. now[q] = copies[q]
      BY <1>1, <2>2
    <3>2. QED
      BY <1>1, <3>1
  <2>3. QED
    BY <2>1, <2>2
<1>7. DOMAIN now = Reg
  BY <1>1
<1> HIDE DEF now, entry, to
<1>8. Shape' /\ Kept /\ AcksDeserved
  BY <1>2, <1>3, <1>4, <1>6, <1>7, FanoutKeeps
<1>9. \A run \in runs' : RunOK(run)'
  BY <1>3, <1>8, KeptRun DEF Inv
<1>10. QED
  BY <1>8, <1>9, InvKept

\* A message from outside, or one the start announces.
LEMMA ArrivalKeeps ==
    ASSUME Inv, NEW to \in Topic, NEW entry, Contract!Fanout(to, entry, copies),
           UNCHANGED <<service, topicOf, policy, runs>>, starting' \subseteq service.announce
    PROVE  Inv'
<1>1. Shape' /\ Kept /\ AcksDeserved
  BY CopiesAsTheyAre, FanoutKeeps
<1>2. \A run \in runs' : RunOK(run)'
  BY <1>1, KeptRun DEF Inv
<1>3. QED
  BY <1>1, <1>2, InvKept

LEMMA AnnounceStep ==
    ASSUME Inv, NEW input \in starting, Announce(input)
    PROVE  Inv'
<1> DEFINE entry == Entry(Inject(input.data, input.headers), Outside)
<1>1. input.topic \in Topic
  BY ServicesAssumption DEF Inv, Shape, Mounted, Announced
<1>2. Contract!Fanout(input.topic, entry, copies)
  BY DEF Announce
<1>3. UNCHANGED <<service, topicOf, policy, runs>> /\ starting' \subseteq service.announce
  BY DEF Announce, Inv, Shape, Announced
<1> HIDE DEF entry
<1>4. QED
  BY <1>1, <1>2, <1>3, ArrivalKeeps

LEMMA ProduceStep ==
    ASSUME Inv, NEW input \in service.inputs, Produce(input)
    PROVE  Inv'
<1> DEFINE entry == Entry(Inject(input.data, input.headers), Outside)
<1>1. input.topic \in Topic
  BY ServicesAssumption DEF Inv, Shape, Mounted
<1>2. Contract!Fanout(input.topic, entry, copies)
  BY DEF Produce
<1>3. UNCHANGED <<service, topicOf, policy, runs>> /\ starting' \subseteq service.announce
  BY DEF Produce, Inv, Shape, Announced
<1> HIDE DEF entry
<1>4. QED
  BY <1>1, <1>2, <1>3, ArrivalKeeps

LEMMA ExpireStep ==
    ASSUME Inv, NEW r \in Reg, NEW i \in DOMAIN copies[r], Expire(r, i)
    PROVE  Inv'
<1>1. r \in Registered
  BY CopiesOfRegistered DEF Inv
<1>2. ComeBack(r, i) /\ UNCHANGED <<service, starting>>
  BY DEF Expire
<1>3. Shape' /\ Kept /\ AcksDeserved
  BY <1>1, <1>2, ComeBackKeeps
<1>4. ASSUME NEW run \in runs
      PROVE  RunOK([run EXCEPT !.leased = FALSE])'
  <2> DEFINE now == [run EXCEPT !.leased = FALSE]
  <2>1. RunOK(run)'
    BY <1>3, KeptRun DEF Inv
  <2>2. /\ DOMAIN now = DOMAIN run
        /\ now.reg = run.reg /\ now.copy = run.copy /\ now.attempt = run.attempt
        /\ now.work = run.work /\ now.sent = run.sent
        /\ now.failed = run.failed /\ now.outcome = run.outcome
    BY <2>1 DEF RunOK
  <2> HIDE DEF now
  <2>3. RunOK(now)'
    BY <2>1, <2>2 DEF RunOK
  <2>4. QED
    BY <2>3 DEF now
<1>5. ASSUME NEW other \in runs'
      PROVE  RunOK(other)'
  <2>1. PICK run \in runs :
          other = IF run.reg = r /\ run.copy = i THEN [run EXCEPT !.leased = FALSE] ELSE run
    BY DEF Expire
  <2>2. CASE other = run
    BY <1>3, <2>2, KeptRun DEF Inv
  <2>3. CASE other = [run EXCEPT !.leased = FALSE]
    BY <1>4, <2>3
  <2>4. QED
    BY <2>1, <2>2, <2>3
<1>6. QED
  BY <1>3, <1>5, InvKept

LEMMA InitInv == Init => Inv
<1> SUFFICES ASSUME Init PROVE Inv
  OBVIOUS
<1>1. Mounted /\ Announced /\ runs = {}
  BY DEF Init, Mounted, Announced
<1>2. IsSeq(<<>>) /\ Len(<<>>) = 0
  <2>1. <<>> \in Seq({})
    BY EmptySeq
  <2>2. QED
    BY <2>1 DEF IsSeq
<1>3. Logged
  BY <1>2 DEF Init, Logged
<1>4. ASSUME NEW r \in Registered
      PROVE  topicOf[r] \in Topic
  <2>1. RegistrationAssumed(service.regs[r]) /\ r \in Reg
    BY <1>1, ServicesAssumption DEF Mounted, Registered
  <2>2. QED
    BY <2>1 DEF Init, RegistrationAssumed
<1>5. DOMAIN <<>> = {}
  OBVIOUS
<1>6. Copied
  BY <1>2, <1>4, <1>5 DEF Init, Copied
<1>7. AckedMeansDone
  <2>1. \A r \in Registered : r \in Reg
    BY <1>1, ServicesAssumption DEF Mounted, Registered
  <2>2. QED
    BY <1>5, <2>1 DEF Init, AckedMeansDone
<1>8. QED
  BY <1>1, <1>3, <1>6, <1>7 DEF Inv, Shape

LEMMA NextInv == Inv /\ [Next]_vars => Inv'
<1> SUFFICES ASSUME Inv, [Next]_vars PROVE Inv'
  OBVIOUS
<1>1. ASSUME NEW input \in service.inputs, Produce(input) PROVE Inv'
  BY <1>1, ProduceStep
<1>2. ASSUME NEW input \in starting, Announce(input) PROVE Inv'
  BY <1>2, AnnounceStep
<1>3. ASSUME NEW r \in Reg, NEW i \in DOMAIN copies[r],
             Begin(r, i) \/ DeadLetter(r, i) \/ Expire(r, i)
      PROVE  Inv'
  BY <1>3, BeginStep, DeadLetterStep, ExpireStep
<1>4. ASSUME NEW run \in runs, Publish(run) \/ PublishFails(run) \/ Settle(run) PROVE Inv'
  BY <1>4, PublishStep, PublishFailsStep, SettleStep
<1>5. ASSUME /\ UNCHANGED <<service, transport>>
             /\ runs' \subseteq runs
             /\ starting' \subseteq service.announce
      PROVE  Inv'
  <2>1. \A run \in runs' : RunOK(run)
    BY <1>5 DEF Inv
  <2>2. QED
    BY <1>5, <2>1, RunsChange
<1>6. starting \subseteq service.announce
  BY DEF Inv, Shape, Announced
<1>7. ASSUME NEW run \in runs, LoseLease(run) \/ LoseSettlement(run) PROVE Inv'
  BY <1>5, <1>6, <1>7 DEF LoseLease, LoseSettlement
<1>8. ASSUME Crash PROVE Inv'
  BY <1>5, <1>8 DEF Crash
<1>9. ASSUME UNCHANGED vars PROVE Inv'
  BY <1>5, <1>6, <1>9 DEF vars
<1>10. QED
  BY <1>1, <1>2, <1>3, <1>4, <1>7, <1>8, <1>9 DEF Next

\* Whatever the services, their topics and their handlers, however many
\* publishes fail, leases expire, settlements are lost and processes die: a
\* delivery is acknowledged only behind everything its handler sends for it, or
\* by a handler that gives the message up (message.rs, publisher.rs).
THEOREM AcksAreEarned == Spec => []AckedMeansDone
<1>1. Inv => AckedMeansDone
  BY DEF Inv
<1>2. QED
  BY InitInv, NextInv, <1>1, PTL DEF Spec

-----------------------------------------------------------------------------
(* Dead letters: a copy is dead exactly when an entry from it is in a log,  *)
(* and then the entry is the message as it was published, in the topic of   *)
(* the policy, once.                                                        *)

Letter(r, i) == Entry(MessageOf(r, i), From(r, i, 0))

IsLetter(entry, r, i) == entry.from = From(r, i, 0)

Lettered(r, i) ==
    \E k \in DOMAIN log[policy[r].topic] :
      /\ log[policy[r].topic][k] = Letter(r, i)
      /\ \A l \in DOMAIN log[policy[r].topic] :
           IsLetter(log[policy[r].topic][l], r, i) => l = k

Letters ==
    \A r \in Registered : \A i \in DOMAIN copies[r] :
      /\ copies[r][i].state = "spent" => policy[r] # None /\ copies[r][i].to = policy[r].topic
      /\ copies[r][i].state = "dead" => policy[r] # None /\ Lettered(r, i)

Origins ==
    \A t \in Topic : \A k \in DOMAIN log[t] : \A r \in Registered, i \in Nat \ {0} :
      IsLetter(log[t][k], r, i) => i \in DOMAIN copies[r] /\ copies[r][i].state = "dead"

DeadInv == Inv /\ Letters /\ Origins

\* What a fanout makes of the logs and the copies.
LEMMA FanoutEffect ==
    ASSUME Inv, NEW t \in Topic, NEW entry, NEW now,
           Contract!Fanout(t, entry, now),
           DOMAIN now = Reg,
           \A r \in Reg : IsSeq(now[r]) /\ DOMAIN now[r] = DOMAIN copies[r]
    PROVE  /\ \A u \in Topic : \A k \in DOMAIN log'[u] :
                \/ k \in DOMAIN log[u] /\ log'[u][k] = log[u][k]
                \/ u = t /\ k = Len(log[t]) + 1 /\ log'[u][k] = entry
           /\ Len(log[t]) + 1 \in DOMAIN log'[t] /\ log'[t][Len(log[t]) + 1] = entry
           /\ \A r \in Reg : \A i \in DOMAIN copies'[r] :
                IF i \in DOMAIN copies[r]
                THEN copies'[r][i] = now[r][i]
                ELSE copies'[r][i] = Contract!Live(1)
<1>1. /\ log' = [log EXCEPT ![t] = Append(@, entry)]
      /\ copies' = [r \in Reg |-> IF topicOf[r] = t THEN Append(now[r], Contract!Live(1))
                                                  ELSE now[r]]
  BY DEF Contract!Fanout
<1>2. DOMAIN log = Topic /\ IsSeq(log[t])
  BY DEF Inv, Shape, Logged
<1>3. log'[t] = Append(log[t], entry) /\ \A u \in Topic \ {t} : log'[u] = log[u]
  BY <1>1, <1>2
<1>4. /\ DOMAIN log'[t] = 1..(Len(log[t]) + 1)
      /\ log'[t][Len(log[t]) + 1] = entry
      /\ \A k \in DOMAIN log[t] : k \in DOMAIN log'[t] /\ log'[t][k] = log[t][k]
      /\ Len(log[t]) \in Nat /\ DOMAIN log[t] = 1..Len(log[t])
  <2> DEFINE seq == log[t]
  <2>1. IsSeq(seq)
    BY <1>2
  <2> HIDE DEF seq
  <2>2. /\ DOMAIN Append(seq, entry) = 1..(Len(seq) + 1)
        /\ Append(seq, entry)[Len(seq) + 1] = entry
        /\ \A k \in DOMAIN seq : k \in DOMAIN Append(seq, entry) /\ Append(seq, entry)[k] = seq[k]
    BY <2>1, Appended
  <2>3. Len(seq) \in Nat /\ DOMAIN seq = 1..Len(seq)
    BY <2>1, Sequences
  <2>4. QED
    BY <1>3, <2>2, <2>3 DEF seq
<1>5. ASSUME NEW u \in Topic, NEW k \in DOMAIN log'[u]
      PROVE  \/ k \in DOMAIN log[u] /\ log'[u][k] = log[u][k]
             \/ u = t /\ k = Len(log[t]) + 1 /\ log'[u][k] = entry
  <2>1. CASE u = t
    <3>1. k \in 1..(Len(log[t]) + 1)
      BY <1>4, <1>5, <2>1
    <3>2. CASE k = Len(log[t]) + 1
      BY <1>4, <2>1, <3>2
    <3>3. CASE k # Len(log[t]) + 1
      <4>1. k \in DOMAIN log[t]
        BY <1>4, <3>1, <3>3
      <4>2. QED
        BY <1>4, <2>1, <4>1
    <3>4. QED
      BY <3>2, <3>3
  <2>2. CASE u # t
    BY <1>3, <1>5, <2>2
  <2>3. QED
    BY <2>1, <2>2
<1>6. ASSUME NEW r \in Reg, NEW i \in DOMAIN copies'[r]
      PROVE  IF i \in DOMAIN copies[r] THEN copies'[r][i] = now[r][i]
             ELSE copies'[r][i] = Contract!Live(1)
  <2>1. CASE topicOf[r] # t
    BY <1>1, <1>6, <2>1
  <2>2. CASE topicOf[r] = t
    <3> DEFINE seq == now[r]
    <3> DEFINE fresh == Contract!Live(1)
    <3>1. copies'[r] = Append(seq, fresh)
      BY <1>1, <2>2
    <3>2. IsSeq(seq) /\ DOMAIN seq = DOMAIN copies[r]
      OBVIOUS
    <3> HIDE DEF seq, fresh
    <3>3. /\ DOMAIN Append(seq, fresh) = 1..(Len(seq) + 1)
          /\ Append(seq, fresh)[Len(seq) + 1] = fresh
          /\ \A k \in DOMAIN seq : Append(seq, fresh)[k] = seq[k]
      BY <3>2, Appended
    <3>4. Len(seq) \in Nat /\ DOMAIN seq = 1..Len(seq)
      BY <3>2, Sequences
    <3>5. CASE i \in DOMAIN copies[r]
      BY <3>1, <3>2, <3>3, <3>5 DEF seq
    <3>6. CASE i \notin DOMAIN copies[r]
      <4>1. i = Len(seq) + 1
        BY <1>6, <3>1, <3>2, <3>3, <3>4, <3>6
      <4>2. QED
        BY <3>1, <3>3, <3>6, <4>1 DEF fresh
    <3>7. QED
      BY <3>5, <3>6
  <2>3. QED
    BY <2>1, <2>2
<1>7. QED
  BY <1>4, <1>5, <1>6

\* A letter that is there stays the only one where no other entry is one.
LEMMA LetteredKept ==
    ASSUME Inv, Kept, NEW r \in Registered, NEW i \in DOMAIN copies[r],
           policy[r] # None, Lettered(r, i),
           \A l \in DOMAIN log'[policy[r].topic] :
             \/ l \in DOMAIN log[policy[r].topic]
             \/ ~IsLetter(log'[policy[r].topic][l], r, i)
    PROVE  Lettered(r, i)'
<1>1. policy[r].topic \in Topic
  BY RegisteredFacts DEF Inv
<1>2. policy' = policy /\ MessageOf(r, i)' = MessageOf(r, i)
  BY KeptPlaces DEF Kept
<1>3. Letter(r, i)' = Letter(r, i)
  BY <1>2 DEF Letter
<1>4. PICK k \in DOMAIN log[policy[r].topic] :
        /\ log[policy[r].topic][k] = Letter(r, i)
        /\ \A l \in DOMAIN log[policy[r].topic] :
             IsLetter(log[policy[r].topic][l], r, i) => l = k
  BY DEF Lettered
<1>5. \A l \in DOMAIN log[policy[r].topic] :
        /\ l \in DOMAIN log'[policy[r].topic]
        /\ log'[policy[r].topic][l] = log[policy[r].topic][l]
  BY <1>1 DEF Kept
<1>6. k \in DOMAIN log'[policy[r].topic] /\ log'[policy[r].topic][k] = Letter(r, i)'
  BY <1>3, <1>4, <1>5
<1>7. \A l \in DOMAIN log'[policy[r].topic] :
        IsLetter(log'[policy[r].topic][l], r, i) => l = k
  BY <1>4, <1>5
<1>8. QED
  BY <1>2, <1>6, <1>7 DEF Lettered

LEMMA PlacesOfCopies ==
    ASSUME Inv, NEW r \in Registered, NEW i \in DOMAIN copies[r]
    PROVE  r \in Reg /\ i \in Nat \ {0}
<1>1. r \in Reg /\ IsSeq(copies[r])
  BY RegisteredFacts, CopiesAsTheyAre DEF Inv
<1>2. Len(copies[r]) \in Nat /\ DOMAIN copies[r] = 1..Len(copies[r])
  BY <1>1, Sequences
<1>3. QED
  BY <1>1, <1>2

LEMMA DeadQuiet ==
    ASSUME DeadInv, UNCHANGED <<service, transport>>
    PROVE  Letters' /\ Origins'
<1>1. UNCHANGED <<service, topicOf, policy, log, copies>>
  BY DEF transport
<1>2. Letters'
  BY <1>1 DEF DeadInv, Letters, Lettered, Letter, IsLetter, MessageOf, Registered
<1>3. Origins'
  BY <1>1 DEF DeadInv, Origins, IsLetter, Registered
<1>4. QED
  BY <1>2, <1>3

\* What arrives is no dead letter of a copy.
LEMMA DeadArrival ==
    ASSUME DeadInv, UNCHANGED <<service, topicOf, policy>>, starting' \subseteq service.announce,
           NEW t \in Topic, NEW entry, Contract!Fanout(t, entry, copies),
           \A r \in Registered, i \in Nat \ {0} : ~IsLetter(entry, r, i)
    PROVE  Letters' /\ Origins'
<1> USE DEF DeadInv
<1>1. Kept
  BY CopiesAsTheyAre, FanoutKeeps
<1>2. /\ \A u \in Topic : \A k \in DOMAIN log'[u] :
           \/ k \in DOMAIN log[u] /\ log'[u][k] = log[u][k]
           \/ log'[u][k] = entry
      /\ \A r \in Reg : \A i \in DOMAIN copies'[r] :
           IF i \in DOMAIN copies[r]
           THEN copies'[r][i] = copies[r][i]
           ELSE copies'[r][i] = Contract!Live(1)
  BY CopiesAsTheyAre, FanoutEffect
<1>3. Registered' = Registered /\ policy' = policy
  BY DEF Registered
<1>4. ASSUME NEW u \in Topic, NEW k \in DOMAIN log'[u], NEW r \in Registered,
             NEW i \in Nat \ {0}, IsLetter(log'[u][k], r, i)
      PROVE  i \in DOMAIN copies'[r] /\ copies'[r][i].state = "dead"
  <2>1. k \in DOMAIN log[u] /\ log'[u][k] = log[u][k]
    BY <1>2, <1>4
  <2>2. i \in DOMAIN copies[r] /\ copies[r][i].state = "dead"
    BY <1>4, <2>1 DEF Origins
  <2>3. r \in Reg
    BY <2>2, PlacesOfCopies
  <2>4. i \in DOMAIN copies'[r]
    BY <1>1, <2>2, <2>3 DEF Kept
  <2>5. QED
    BY <1>2, <2>2, <2>3, <2>4
<1>5. Origins'
  BY <1>3, <1>4 DEF Origins, IsLetter
<1>6. ASSUME NEW r \in Registered, NEW i \in DOMAIN copies'[r]
      PROVE  /\ copies'[r][i].state = "spent" =>
                  policy[r] # None /\ copies'[r][i].to = policy[r].topic
             /\ copies'[r][i].state = "dead" => policy[r] # None /\ Lettered(r, i)'
  <2>1. r \in Reg
    BY RegisteredFacts DEF Inv
  <2>2. CASE i \notin DOMAIN copies[r]
    BY <1>2, <1>6, <2>1, <2>2 DEF Contract!Live
  <2>3. CASE i \in DOMAIN copies[r]
    <3>1. copies'[r][i] = copies[r][i]
      BY <1>2, <1>6, <2>1, <2>3
    <3>2. ASSUME copies[r][i].state = "dead"
          PROVE  policy[r] # None /\ Lettered(r, i)'
      <4>1. policy[r] # None /\ Lettered(r, i)
        BY <2>3, <3>2 DEF Letters
      <4>2. policy[r].topic \in Topic
        BY <4>1, RegisteredFacts DEF Inv
      <4>3. i \in Nat \ {0}
        BY <2>3, PlacesOfCopies
      <4>4. \A l \in DOMAIN log'[policy[r].topic] :
              \/ l \in DOMAIN log[policy[r].topic]
              \/ ~IsLetter(log'[policy[r].topic][l], r, i)
        BY <1>2, <4>2, <4>3
      <4>5. QED
        BY <1>1, <2>3, <4>1, <4>4, LetteredKept
    <3>3. QED
      BY <2>3, <3>1, <3>2 DEF Letters
  <2>4. QED
    BY <2>2, <2>3
<1>7. Letters'
  BY <1>3, <1>6 DEF Letters
<1>8. QED
  BY <1>5, <1>7

\* A live copy is settled, comes back, or is spent under its policy.
LEMMA DeadMove ==
    ASSUME DeadInv, UNCHANGED service, starting' \subseteq service.announce,
           NEW r \in Registered, NEW i \in DOMAIN copies[r], NEW copy,
           Contract!Become(r, i, copy), Contract!IsLive(r, i), copy.state # "dead",
           copy.state = "spent" => policy[r] # None /\ copy.to = policy[r].topic
    PROVE  Letters' /\ Origins'
<1> USE DEF DeadInv
<1>1. /\ UNCHANGED <<topicOf, policy, log>>
      /\ copies' = [copies EXCEPT ![r][i] = copy]
  BY DEF Contract!Become
<1>2. DOMAIN copies = Reg /\ r \in Reg
  BY CopiesAsTheyAre, RegisteredFacts DEF Inv
<1>3. /\ \A q \in Reg : DOMAIN copies'[q] = DOMAIN copies[q]
      /\ \A q \in Reg : \A j \in DOMAIN copies[q] :
           copies'[q][j] = IF q = r /\ j = i THEN copy ELSE copies[q][j]
  BY <1>1, <1>2
<1>4. Registered' = Registered
  BY DEF Registered
<1>5. \A q \in Registered : q \in Reg
  BY RegisteredFacts DEF Inv
<1>6. copies[r][i].state = "live"
  BY DEF Contract!IsLive
<1>7. Origins'
  BY <1>1, <1>3, <1>4, <1>5, <1>6 DEF Origins, IsLetter
<1>8. ASSUME NEW q \in Registered, NEW j, Lettered(q, j)
      PROVE  Lettered(q, j)'
  BY <1>1, <1>8 DEF Lettered, Letter, IsLetter, MessageOf
<1>9. Letters'
  BY <1>1, <1>3, <1>4, <1>5, <1>8 DEF Letters
<1>10. QED
  BY <1>7, <1>9

\* The letter of a spent copy is the first and only one from it: until now no
\* entry of any log came from it.
LEMMA DeadBurial ==
    ASSUME DeadInv, NEW r \in Registered, NEW i \in DOMAIN copies[r], NEW now,
           UNCHANGED <<service, topicOf, policy>>, starting' \subseteq service.announce,
           Kept, policy[r] # None, copies[r][i].state = "spent",
           Contract!Fanout(policy[r].topic, Letter(r, i), now),
           DOMAIN now = Reg,
           \A q \in Reg : IsSeq(now[q]) /\ DOMAIN now[q] = DOMAIN copies[q],
           \A q \in Reg : \A j \in DOMAIN copies[q] :
             now[q][j] = IF q = r /\ j = i THEN Contract!Dead ELSE copies[q][j]
    PROVE  Letters' /\ Origins'
<1> USE DEF DeadInv
<1> DEFINE t == policy[r].topic
<1> DEFINE letter == Letter(r, i)
<1> DEFINE last == Len(log[t]) + 1
<1>0. /\ t \in Topic /\ r \in Reg /\ Contract!Fanout(t, letter, now)
      /\ \A q \in Registered : q \in Reg
  BY RegisteredFacts DEF Inv
<1>1. /\ \A u \in Topic : \A k \in DOMAIN log'[u] :
           \/ k \in DOMAIN log[u] /\ log'[u][k] = log[u][k]
           \/ u = t /\ k = last /\ log'[u][k] = letter
      /\ last \in DOMAIN log'[t] /\ log'[t][last] = letter
      /\ \A q \in Reg : \A j \in DOMAIN copies'[q] :
           IF j \in DOMAIN copies[q]
           THEN copies'[q][j] = now[q][j]
           ELSE copies'[q][j] = Contract!Live(1)
  <2> HIDE DEF t, letter
  <2>1. QED
    BY <1>0, FanoutEffect
<1>2. \A q \in Reg : DOMAIN copies[q] \subseteq DOMAIN copies'[q]
  BY DEF Kept
<1>3. Contract!Dead.state = "dead" /\ Contract!Live(1).state = "live"
  BY DEF Contract!Dead, Contract!Live
<1>4. ASSUME NEW q \in Registered, NEW j \in DOMAIN copies[q]
      PROVE  /\ j \in DOMAIN copies'[q]
             /\ copies'[q][j] = IF q = r /\ j = i THEN Contract!Dead ELSE copies[q][j]
  BY <1>0, <1>1, <1>2
<1>5. letter.from = From(r, i, 0)
  BY DEF Letter, Entry
<1>6. ASSUME NEW q \in Registered, NEW j \in Nat \ {0}, IsLetter(letter, q, j)
      PROVE  q = r /\ j = i
  <2>1. From(r, i, 0) = From(q, j, 0)
    BY <1>5, <1>6 DEF IsLetter
  <2>2. QED
    BY <2>1 DEF From
<1>7. Registered' = Registered /\ policy' = policy
  BY DEF Registered
<1> HIDE DEF letter, last, t
<1>8. ASSUME NEW u \in Topic, NEW k \in DOMAIN log'[u], NEW q \in Registered,
             NEW j \in Nat \ {0}, IsLetter(log'[u][k], q, j)
      PROVE  j \in DOMAIN copies'[q] /\ copies'[q][j].state = "dead"
  <2>1. CASE k \in DOMAIN log[u] /\ log'[u][k] = log[u][k]
    <3>1. j \in DOMAIN copies[q] /\ copies[q][j].state = "dead"
      BY <1>8, <2>1 DEF Origins
    <3>2. QED
      BY <1>3, <1>4, <3>1
  <2>2. CASE log'[u][k] = letter
    <3>1. q = r /\ j = i
      BY <1>6, <1>8, <2>2
    <3>2. QED
      BY <1>3, <1>4, <3>1
  <2>3. QED
    BY <1>1, <1>8, <2>1, <2>2
<1>9. Origins'
  BY <1>7, <1>8 DEF Origins, IsLetter
<1>10. Lettered(r, i)'
  <2>1. letter = Letter(r, i)'
    BY KeptPlaces DEF letter, Letter
  <2>2. ASSUME NEW l \in DOMAIN log'[t], IsLetter(log'[t][l], r, i)
        PROVE  l = last
    <3>1. CASE l \in DOMAIN log[t] /\ log'[t][l] = log[t][l]
      <4>1. i \in Nat \ {0}
        BY PlacesOfCopies
      <4>2. copies[r][i].state = "dead"
        BY <1>0, <2>2, <3>1, <4>1 DEF Origins
      <4>3. QED
        BY <4>2
    <3>2. QED
      BY <1>0, <1>1, <2>2, <3>1
  <2>3. policy'[r].topic = t
    BY DEF t
  <2>4. QED
    BY <1>1, <2>1, <2>2, <2>3 DEF Lettered, IsLetter
<1>11. ASSUME NEW q \in Registered, NEW j \in DOMAIN copies'[q]
       PROVE  /\ copies'[q][j].state = "spent" =>
                   policy[q] # None /\ copies'[q][j].to = policy[q].topic
              /\ copies'[q][j].state = "dead" => policy[q] # None /\ Lettered(q, j)'
  <2>1. CASE j \notin DOMAIN copies[q]
    BY <1>0, <1>1, <1>3, <1>11, <2>1
  <2>2. CASE q = r /\ j = i
    BY <1>3, <1>4, <1>10, <2>2
  <2>3. CASE j \in DOMAIN copies[q] /\ ~(q = r /\ j = i)
    <3>1. copies'[q][j] = copies[q][j]
      BY <1>4, <2>3
    <3>2. ASSUME copies[q][j].state = "dead"
          PROVE  policy[q] # None /\ Lettered(q, j)'
      <4>1. policy[q] # None /\ Lettered(q, j)
        BY <2>3, <3>2 DEF Letters
      <4>2. policy[q].topic \in Topic
        BY <4>1, RegisteredFacts DEF Inv
      <4>3. j \in Nat \ {0}
        BY <2>3, PlacesOfCopies
      <4>4. ~IsLetter(letter, q, j)
        BY <1>6, <2>3, <4>3
      <4>5. \A l \in DOMAIN log'[policy[q].topic] :
              \/ l \in DOMAIN log[policy[q].topic]
              \/ ~IsLetter(log'[policy[q].topic][l], q, j)
        BY <1>1, <4>2, <4>4
      <4>6. QED
        BY <2>3, <4>1, <4>5, LetteredKept
    <3>3. QED
      BY <2>3, <3>1, <3>2 DEF Letters
  <2>4. QED
    BY <2>1, <2>2, <2>3
<1>12. Letters'
  BY <1>7, <1>11 DEF Letters
<1>13. QED
  BY <1>9, <1>12

LEMMA DeadLetterBuries ==
    ASSUME DeadInv, NEW r \in Reg, NEW i \in DOMAIN copies[r], DeadLetter(r, i)
    PROVE  Letters' /\ Origins'
<1> DEFINE now == [copies EXCEPT ![r][i] = Contract!Dead]
<1>1. /\ Inv /\ DOMAIN copies = Reg
      /\ \A q \in Reg : IsSeq(copies[q]) /\ \A j \in DOMAIN copies[q] : CopyOK(copies[q][j])
  BY CopiesAsTheyAre DEF DeadInv
<1>2. r \in Registered /\ copies[r][i].state = "spent"
  BY <1>1, CopiesOfRegistered DEF DeadLetter, Inv
<1>3. policy[r] # None /\ copies[r][i].to = policy[r].topic
  BY <1>2 DEF DeadInv, Letters
<1>4. /\ Contract!Fanout(policy[r].topic, Letter(r, i), now)
      /\ UNCHANGED <<service, topicOf, policy, starting>>
  BY <1>3 DEF DeadLetter, Letter
<1>5. starting' \subseteq service.announce /\ policy[r].topic \in Topic
  BY <1>1, <1>2, <1>3, <1>4, RegisteredFacts DEF Inv, Shape, Announced
<1>6. CopyOK(Contract!Dead) /\ Contract!Dead.state = "dead"
  BY ServicesAssumption DEF CopyOK, Contract!Dead
<1>7. ASSUME NEW q \in Reg
      PROVE  /\ IsSeq(now[q])
             /\ DOMAIN now[q] = DOMAIN copies[q]
             /\ \A j \in DOMAIN copies[q] :
                  now[q][j] = IF q = r /\ j = i THEN Contract!Dead ELSE copies[q][j]
  <2>1. CASE q = r
    <3> DEFINE seq == copies[r]
    <3> DEFINE dead == Contract!Dead
    <3>1. IsSeq(seq) /\ i \in DOMAIN seq
      BY <1>1
    <3>2. now[q] = [seq EXCEPT ![i] = dead]
      BY <1>1, <2>1
    <3> HIDE DEF seq, dead, now
    <3>3. /\ IsSeq([seq EXCEPT ![i] = dead])
          /\ DOMAIN [seq EXCEPT ![i] = dead] = DOMAIN seq
          /\ \A j \in DOMAIN seq : [seq EXCEPT ![i] = dead][j] = IF j = i THEN dead ELSE seq[j]
      BY <3>1, Replaced
    <3>4. QED
      BY <2>1, <3>2, <3>3 DEF seq, dead
  <2>2. CASE q # r
    BY <1>1, <2>2
  <2>3. QED
    BY <2>1, <2>2
<1>8. DOMAIN now = Reg
  BY <1>1
<1> HIDE DEF now
<1>9. \A q \in Reg : \A j \in DOMAIN now[q] :
        /\ CopyOK(now[q][j])
        /\ now[q][j].state = "acked" => copies[q][j].state = "acked"
  BY <1>1, <1>6, <1>7
<1>10. Kept
  <2> DEFINE letter == Letter(r, i)
  <2> DEFINE to == policy[r].topic
  <2>1. Contract!Fanout(to, letter, now)
    BY <1>4
  <2>2. to \in Topic
    BY <1>5
  <2> HIDE DEF letter, to
  <2>3. QED
    BY <1>1, <1>4, <1>5, <1>7, <1>8, <1>9, <2>1, <2>2, FanoutKeeps
<1>11. QED
  BY <1>2, <1>3, <1>4, <1>5, <1>7, <1>8, <1>10, DeadBurial

\* What a handler sends is a numbered step, what comes from outside has no copy.
LEMMA StoreArrives ==
    ASSUME DeadInv, NEW run \in runs, Working(run), Store(run),
           UNCHANGED <<service, topicOf, policy, starting>>
    PROVE  Letters' /\ Origins'
<1> DEFINE to == NextSend(run).to
<1> DEFINE entry == Entry(Wired(run), From(run.reg, run.copy, run.sent + 1))
<1>1. to \in Topic /\ run.sent \in Nat
  BY NextSendFacts DEF DeadInv
<1>2. Contract!Fanout(to, entry, copies)
  BY DEF Store
<1>3. starting' \subseteq service.announce
  BY DEF DeadInv, Inv, Shape, Announced
<1>4. ASSUME NEW r \in Registered, NEW i \in Nat \ {0}
      PROVE  ~IsLetter(entry, r, i)
  <2>1. entry.from.step = run.sent + 1 /\ From(r, i, 0).step = 0
    BY DEF Entry, From
  <2>2. run.sent + 1 # 0
    BY <1>1
  <2>3. QED
    BY <2>1, <2>2 DEF IsLetter
<1> HIDE DEF to, entry
<1>5. QED
  BY <1>1, <1>2, <1>3, <1>4, DeadArrival

LEMMA OutsideArrives ==
    ASSUME DeadInv, NEW to \in Topic, NEW message,
           Contract!Fanout(to, Entry(message, Outside), copies),
           UNCHANGED <<service, topicOf, policy>>, starting' \subseteq service.announce
    PROVE  Letters' /\ Origins'
<1> DEFINE entry == Entry(message, Outside)
<1>1. Contract!Fanout(to, entry, copies)
  OBVIOUS
<1>2. ASSUME NEW r \in Registered, NEW i \in Nat \ {0}
      PROVE  ~IsLetter(entry, r, i)
  <2>1. entry.from.copy = 0 /\ From(r, i, 0).copy = i
    BY DEF Entry, Outside, From
  <2>2. QED
    BY <2>1 DEF IsLetter
<1> HIDE DEF entry
<1>3. QED
  BY <1>1, <1>2, DeadArrival

LEMMA DeadComeBack ==
    ASSUME DeadInv, NEW r \in Registered, NEW i \in DOMAIN copies[r], ComeBack(r, i),
           UNCHANGED <<service, starting>>
    PROVE  Letters' /\ Origins'
<1>1. starting' \subseteq service.announce
  BY DEF DeadInv, Inv, Shape, Announced
<1>2. CASE Contract!Redeliver(r, i)
  <2> DEFINE a == copies[r][i].attempt
  <2> DEFINE copy == Contract!Live(IF a = AttemptMax THEN a ELSE a + 1)
  <2>1. Contract!Become(r, i, copy) /\ Contract!IsLive(r, i)
    BY <1>2 DEF Contract!Redeliver
  <2>2. copy.state = "live"
    BY DEF Contract!Live
  <2> HIDE DEF copy
  <2>3. QED
    BY <1>1, <2>1, <2>2, DeadMove
<1>3. CASE Contract!Spend(r, i)
  <2> DEFINE copy == Contract!Spent(policy[r].topic)
  <2>1. Contract!Become(r, i, copy) /\ Contract!IsLive(r, i) /\ policy[r] # None
    BY <1>3 DEF Contract!Spend, Contract!AtCap
  <2>2. copy.state = "spent" /\ copy.to = policy[r].topic
    BY DEF Contract!Spent
  <2> HIDE DEF copy
  <2>3. QED
    BY <1>1, <2>1, <2>2, DeadMove
<1>4. QED
  BY <1>2, <1>3 DEF ComeBack

LEMMA DeadAcknowledge ==
    ASSUME DeadInv, NEW r \in Registered, NEW i \in DOMAIN copies[r],
           Contract!Acknowledge(r, i), UNCHANGED <<service, starting>>
    PROVE  Letters' /\ Origins'
<1> DEFINE copy == Contract!Acked
<1>1. Contract!Become(r, i, copy) /\ Contract!IsLive(r, i)
  BY DEF Contract!Acknowledge
<1>2. copy.state = "acked"
  BY DEF Contract!Acked
<1>3. starting' \subseteq service.announce
  BY DEF DeadInv, Inv, Shape, Announced
<1> HIDE DEF copy
<1>4. QED
  BY <1>1, <1>2, <1>3, DeadMove

LEMMA DeadSettle ==
    ASSUME DeadInv, NEW run \in runs, Settle(run)
    PROVE  Letters' /\ Origins'
<1>1. run.reg \in Registered /\ run.copy \in DOMAIN copies[run.reg]
  BY DEF DeadInv, Inv, RunOK
<1>2. UNCHANGED <<service, starting>>
  BY DEF Settle
<1>3. CASE ~run.leased
  BY <1>2, <1>3, DeadQuiet DEF Settle
<1>4. CASE run.leased
  <2>1. Settled(run.reg, run.copy, run.outcome)
    BY <1>4 DEF Settle
  <2>2. CASE Contract!Acknowledge(run.reg, run.copy)
    BY <1>1, <1>2, <2>2, DeadAcknowledge
  <2>3. CASE ComeBack(run.reg, run.copy)
    BY <1>1, <1>2, <2>3, DeadComeBack
  <2>4. QED
    BY <2>1, <2>2, <2>3 DEF Settled, Drop, ComeBack
<1>5. QED
  BY <1>3, <1>4

LEMMA InitDeadInv == Init => DeadInv
<1> SUFFICES ASSUME Init PROVE DeadInv
  OBVIOUS
<1>1. Inv
  BY InitInv
<1>2. \A r \in Registered : r \in Reg
  BY <1>1, RegisteredFacts DEF Inv
<1>3. DOMAIN <<>> = {}
  OBVIOUS
<1>4. Letters /\ Origins
  BY <1>2, <1>3 DEF Init, Letters, Origins
<1>5. QED
  BY <1>1, <1>4 DEF DeadInv

LEMMA NextDeadInv == DeadInv /\ [Next]_vars => DeadInv'
<1> SUFFICES ASSUME DeadInv, [Next]_vars PROVE DeadInv'
  OBVIOUS
<1>1. Inv /\ Inv'
  BY NextInv DEF DeadInv
<1>2. /\ \A input \in service.inputs \cup service.announce : input.topic \in Topic
      /\ starting \subseteq service.announce
  BY <1>1, ServicesAssumption DEF Inv, Shape, Mounted, Announced
<1>3. ASSUME NEW input \in service.inputs, Produce(input) PROVE Letters' /\ Origins'
  <2> DEFINE message == Inject(input.data, input.headers)
  <2>1. Contract!Fanout(input.topic, Entry(message, Outside), copies)
    BY <1>3 DEF Produce
  <2>2. UNCHANGED <<service, topicOf, policy>> /\ starting' \subseteq service.announce
    BY <1>2, <1>3 DEF Produce
  <2> HIDE DEF message
  <2>3. QED
    BY <1>2, <2>1, <2>2, OutsideArrives
<1>4. ASSUME NEW input \in starting, Announce(input) PROVE Letters' /\ Origins'
  <2> DEFINE message == Inject(input.data, input.headers)
  <2>1. Contract!Fanout(input.topic, Entry(message, Outside), copies)
    BY <1>4 DEF Announce
  <2>2. UNCHANGED <<service, topicOf, policy>> /\ starting' \subseteq service.announce
    BY <1>2, <1>4 DEF Announce
  <2> HIDE DEF message
  <2>3. QED
    BY <1>2, <2>1, <2>2, OutsideArrives
<1>5. ASSUME NEW r \in Reg, NEW i \in DOMAIN copies[r], Expire(r, i)
      PROVE  Letters' /\ Origins'
  BY <1>1, <1>5, CopiesOfRegistered, DeadComeBack DEF Expire, Inv
<1>6. ASSUME NEW run \in runs, Publish(run) PROVE Letters' /\ Origins'
  BY <1>6, StoreArrives DEF Publish
<1>7. ASSUME NEW run \in runs, PublishFails(run) PROVE Letters' /\ Origins'
  <2>1. CASE Store(run)
    BY <1>7, <2>1, StoreArrives DEF PublishFails
  <2>2. CASE UNCHANGED <<log, copies>>
    BY <1>7, <2>2, DeadQuiet DEF PublishFails, transport
  <2>3. QED
    BY <1>7, <2>1, <2>2 DEF PublishFails
<1>8. ASSUME UNCHANGED <<service, transport>> PROVE Letters' /\ Origins'
  BY <1>8, DeadQuiet
<1>9. Letters' /\ Origins'
  <2>1. CASE \E r \in Reg : \E i \in DOMAIN copies[r] :
               Begin(r, i) \/ DeadLetter(r, i) \/ Expire(r, i)
    BY <1>5, <1>8, <2>1, DeadLetterBuries DEF Begin
  <2>2. CASE \E run \in runs :
               \/ Publish(run) \/ PublishFails(run) \/ Settle(run)
               \/ LoseLease(run) \/ LoseSettlement(run)
    BY <1>6, <1>7, <1>8, <2>2, DeadSettle DEF LoseLease, LoseSettlement
  <2>3. CASE Crash \/ UNCHANGED vars
    BY <1>8, <2>3 DEF Crash, vars
  <2>4. QED
    BY <1>3, <1>4, <2>1, <2>2, <2>3 DEF Next
<1>10. QED
  BY <1>1, <1>9 DEF DeadInv

LEMMA LettersMean == DeadInv => DeadLettersArrive
<1> SUFFICES ASSUME DeadInv, NEW r \in Registered, NEW i \in DOMAIN copies[r],
                    copies[r][i].state = "dead"
             PROVE  /\ policy[r] # None
                    /\ Cardinality({k \in DOMAIN log[policy[r].topic] :
                         log[policy[r].topic][k] = Letter(r, i)}) = 1
  BY DEF DeadLettersArrive, Letter
<1>1. policy[r] # None /\ Lettered(r, i)
  BY DEF DeadInv, Letters
<1>2. PICK k \in DOMAIN log[policy[r].topic] :
        /\ log[policy[r].topic][k] = Letter(r, i)
        /\ \A l \in DOMAIN log[policy[r].topic] :
             IsLetter(log[policy[r].topic][l], r, i) => l = k
  BY <1>1 DEF Lettered
<1>3. IsLetter(Letter(r, i), r, i)
  BY DEF IsLetter, Letter, Entry
<1>4. {l \in DOMAIN log[policy[r].topic] : log[policy[r].topic][l] = Letter(r, i)} = {k}
  BY <1>2, <1>3
<1>5. Cardinality({k}) = 1
  BY FS_Singleton
<1>6. QED
  BY <1>1, <1>4, <1>5

\* A message that ran out of attempts stands in the topic its policy names, as
\* it was published and once for each subscription it ran out in, whatever else
\* is published there, comes back, fails or crashes (the dead-letter transfer
\* behind settle.rs, and the service's own).
THEOREM DeadLettersAreKept == Spec => []DeadLettersArrive
<1>1. QED
  BY InitDeadInv, NextDeadInv, LettersMean, PTL DEF Spec

-----------------------------------------------------------------------------
(* Keys: every message of a promised topic went out under what the topic    *)
(* promises, and what is handed on or buried keeps it.                      *)

MessageKeyed(t, message) ==
    /\ IsKey(message.data.of)
    /\ PartitionKey \notin DOMAIN message.attributes
    /\ t \in DOMAIN service.keys => message.key = Promised(service, t, message.data)

LogsKeyed == \A t \in Topic : \A k \in DOMAIN log[t] : MessageKeyed(t, log[t][k].message)

KeyInv == DeadInv /\ LogsKeyed

LEMMA KeysOfService ==
    ASSUME Shape
    PROVE  KeysAssumed(service)
BY ServicesAssumption DEF Shape, Mounted

\* What the service promises can be told from no key at all.
LEMMA PromisesAreKeys ==
    ASSUME Shape, NEW t \in DOMAIN service.keys, NEW data, IsKey(data.of)
    PROVE  IsKey(Promised(service, t, data))
BY KeysOfService DEF KeysAssumed, Promised

\* What is on the wire of a publish that is not refused.
LEMMA OnTheWire ==
    ASSUME NEW data, NEW headers, NEW option, NEW under,
           Outgoing(data, headers, option, under) # Refused
    PROVE  LET key == ResolveOrderingKey(headers, option, under)
               message == Outgoing(data, headers, option, under)
           IN /\ message.data = data
              /\ PartitionKey \notin DOMAIN message.attributes
              /\ key # None => message.key = key
<1> DEFINE key == ResolveOrderingKey(headers, option, under)
<1> DEFINE message == Outgoing(data, headers, option, under)
<1>1. message = [data |-> data,
                 attributes |-> [n \in Attributed(headers) |-> headers[n]],
                 key |-> IF key = None THEN NoKey ELSE key]
  BY DEF Outgoing, ToGcpMessage
<1>2. PartitionKey \notin Attributed(headers)
  BY DEF Attributed
<1> HIDE DEF key, message
<1>3. /\ message.data = data
      /\ PartitionKey \notin DOMAIN message.attributes
      /\ key # None => message.key = key
  BY <1>1, <1>2
<1>4. QED
  BY <1>3 DEF key, message

\* A message from outside goes under the key of its header.
LEMMA InputIsKeyed ==
    ASSUME Shape, NEW input \in service.inputs \cup service.announce,
           Inject(input.data, input.headers) # Refused
    PROVE  MessageKeyed(input.topic, Inject(input.data, input.headers))
<1> DEFINE message == Inject(input.data, input.headers)
<1> DEFINE key == ResolveOrderingKey(input.headers, None, None)
<1>1. InputAssumed(service, input)
  BY KeysOfService DEF KeysAssumed
<1>2. /\ message.data = input.data
      /\ PartitionKey \notin DOMAIN message.attributes
      /\ key # None => message.key = key
  BY OnTheWire DEF Inject
<1>3. ASSUME input.topic \in DOMAIN service.keys
      PROVE  key = Promised(service, input.topic, input.data) /\ key # None
  <2>1. IsKey(Promised(service, input.topic, input.data))
    BY <1>1, <1>3, PromisesAreKeys DEF InputAssumed
  <2>2. /\ PartitionKey \in DOMAIN input.headers
        /\ input.headers[PartitionKey] = Promised(service, input.topic, input.data)
    BY <1>1, <1>3 DEF InputAssumed
  <2>3. QED
    BY <2>1, <2>2 DEF ResolveOrderingKey, HeaderText, IsKey
<1>4. IsKey(input.data.of)
  BY <1>1 DEF InputAssumed
<1> HIDE DEF message, key
<1>5. MessageKeyed(input.topic, message)
  BY <1>2, <1>3, <1>4 DEF MessageKeyed
<1>6. QED
  BY <1>5 DEF message

\* What a source named by a send comes to, on every attempt.
LEMMA SourceMeans ==
    ASSUME Shape, NEW from, NEW to \in DOMAIN service.keys, NEW source, NEW message, NEW attempt,
           MessageKeyed(from, message), SourceAssumed(service, from, to, source)
    PROVE  LET delivered == Delivered(message, attempt)
           IN /\ source = "own" => message.data.of = Promised(service, to, message.data)
              /\ source # "own" =>
                   /\ source = "delivered"
                   /\ PartitionKey \in DOMAIN delivered
                   /\ delivered[PartitionKey] = Promised(service, to, message.data)
<1>1. CASE source = "own" /\ service.keys[to] = "own"
  BY <1>1 DEF Promised
<1>2. CASE source = "delivered" /\ HandsOn(service, from, to)
  <2>1. message.key = Promised(service, to, message.data)
    BY <1>2 DEF HandsOn, MessageKeyed, Promised
  <2>2. IsKey(message.key)
    BY <2>1, PromisesAreKeys DEF MessageKeyed
  <2>3. /\ PartitionKey \in DOMAIN Delivered(message, attempt)
        /\ Delivered(message, attempt)[PartitionKey] = message.key
    BY <2>2, Reported DEF MessageKeyed, IsKey
  <2>4. QED
    BY <1>2, <2>1, <2>3
<1>3. QED
  BY <1>1, <1>2 DEF SourceAssumed

\* What a handler sends for a message under its promised key goes out under the
\* key that the topic it goes to promises.
LEMMA SentIsKeyed ==
    ASSUME Shape, NEW from, NEW send, NEW message, NEW attempt,
           MessageKeyed(from, message), SendAssumed(service, from, send),
           Sent(send, message, attempt) # Refused
    PROVE  MessageKeyed(send.to, Sent(send, message, attempt))
<1> DEFINE delivered == Delivered(message, attempt)
<1> DEFINE data == [kind |-> send.kind, of |-> message.data.of]
<1> DEFINE headers == HeadersFrom(send.headers, delivered, message.data)
<1> DEFINE option == KeyFrom(send.option, delivered, message.data)
<1> DEFINE key == ResolveOrderingKey(headers, option, send.policy)
<1> DEFINE wire == Sent(send, message, attempt)
<1>1. /\ wire.data = data
      /\ PartitionKey \notin DOMAIN wire.attributes
      /\ key # None => wire.key = key
  BY OnTheWire DEF Sent
<1>2. ASSUME send.to \in DOMAIN service.keys
      PROVE  key = Promised(service, send.to, message.data) /\ key # None
  <2> DEFINE promise == Promised(service, send.to, message.data)
  <2>1. IsKey(promise)
    BY <1>2, PromisesAreKeys DEF MessageKeyed
  <2> HIDE DEF delivered
  <2>2. CASE SourceAssumed(service, from, send.to, send.option)
    <3>1. /\ send.option = "own" => message.data.of = promise
          /\ send.option # "own" =>
               /\ send.option = "delivered"
               /\ PartitionKey \in DOMAIN delivered /\ delivered[PartitionKey] = promise
      BY <1>2, <2>2, SourceMeans DEF delivered
    <3>2. option = promise
      BY <3>1 DEF KeyFrom
    <3>3. QED
      BY <2>1, <3>2 DEF ResolveOrderingKey, IsKey
  <2>3. CASE send.option = "none" /\ PartitionKey \in DOMAIN send.headers
             /\ SourceAssumed(service, from, send.to, send.headers[PartitionKey])
    <3> DEFINE source == send.headers[PartitionKey]
    <3>1. /\ source = "own" => message.data.of = promise
          /\ source # "own" =>
               PartitionKey \in DOMAIN delivered /\ delivered[PartitionKey] = promise
      BY <1>2, <2>3, SourceMeans DEF delivered
    <3>2. option = None
      BY <2>3 DEF KeyFrom
    <3>3. PartitionKey \in DOMAIN headers /\ headers[PartitionKey] = promise
      BY <2>3, <3>1 DEF HeadersFrom
    <3> HIDE DEF headers, option, promise
    <3>4. QED
      BY <2>1, <3>2, <3>3 DEF ResolveOrderingKey, HeaderText, IsKey, promise
  <2>4. CASE /\ send.option = "none" /\ PartitionKey \notin DOMAIN send.headers
             /\ service.keys[send.to] # "own" /\ send.policy = service.keys[send.to]
    <3>1. option = None
      BY <2>4 DEF KeyFrom
    <3>2. PartitionKey \notin DOMAIN headers
      BY <2>4 DEF HeadersFrom
    <3>3. send.policy = promise
      BY <2>4 DEF Promised
    <3> HIDE DEF headers, option, promise
    <3>4. QED
      BY <2>1, <3>1, <3>2, <3>3 DEF ResolveOrderingKey, IsKey, promise
  <2>5. QED
    BY <1>2, <2>2, <2>3, <2>4 DEF SendAssumed
<1>3. data.of = message.data.of /\ IsKey(data.of)
  BY DEF MessageKeyed
<1>4. ASSUME send.to \in DOMAIN service.keys
      PROVE  wire.key = Promised(service, send.to, wire.data)
  BY <1>1, <1>2, <1>3, <1>4 DEF Promised
<1> HIDE DEF wire, data
<1>5. MessageKeyed(send.to, wire)
  BY <1>1, <1>3, <1>4 DEF MessageKeyed
<1>6. QED
  BY <1>5 DEF wire

-----------------------------------------------------------------------------
(* Every log stays keyed, step by step. *)

LEMMA KeyedQuiet ==
    ASSUME LogsKeyed, UNCHANGED <<service, log>>
    PROVE  LogsKeyed'
BY DEF LogsKeyed, MessageKeyed

LEMMA KeyedArrival ==
    ASSUME Inv, LogsKeyed, service' = service, NEW t \in Topic, NEW entry, NEW now,
           Contract!Fanout(t, entry, now),
           DOMAIN now = Reg,
           \A r \in Reg : IsSeq(now[r]) /\ DOMAIN now[r] = DOMAIN copies[r],
           MessageKeyed(t, entry.message)
    PROVE  LogsKeyed'
<1>1. \A u \in Topic : \A k \in DOMAIN log'[u] :
        \/ k \in DOMAIN log[u] /\ log'[u][k] = log[u][k]
        \/ u = t /\ log'[u][k] = entry
  BY FanoutEffect
<1>2. \A u \in Topic : \A k \in DOMAIN log'[u] : MessageKeyed(u, log'[u][k].message)
  BY <1>1 DEF LogsKeyed
<1>3. QED
  BY <1>2 DEF LogsKeyed, MessageKeyed

\* The message of a copy is one of its topic's log.
LEMMA CopyIsKeyed ==
    ASSUME Inv, LogsKeyed, NEW r \in Registered, NEW i \in DOMAIN copies[r]
    PROVE  MessageKeyed(topicOf[r], MessageOf(r, i))
BY RegisteredFacts DEF Inv, LogsKeyed, MessageOf

\* What a handler at work sends next is a send of its service.
LEMMA NextSendAssumed ==
    ASSUME Inv, NEW run \in runs, Working(run)
    PROVE  SendAssumed(service, topicOf[run.reg], NextSend(run))
<1> DEFINE r == run.reg
<1> DEFINE kind == MessageOf(r, run.copy).data.kind
<1>1. RunOK(run) /\ Shape
  BY DEF Inv
<1>2. r \in Registered /\ run.work \in Works(r, run.copy)
  BY <1>1 DEF RunOK
<1>3. topicOf[r] = service.regs[r].topic
  <2> HIDE DEF r
  <2>1. r \in Reg
    BY <1>1, <1>2, RegisteredFacts
  <2>2. QED
    BY <1>1, <1>2, <2>1 DEF Shape, Mounted
<1>4. run.sent + 1 \in DOMAIN run.work.sends
  BY NextSendFacts
<1>5. PICK a \in DOMAIN WorksOn(r, kind) : run.work = WorksOn(r, kind)[a]
  BY <1>2 DEF Works
<1>6. kind \in DOMAIN service.regs[r].body
  <2>1. SUFFICES ASSUME kind \notin DOMAIN service.regs[r].body PROVE FALSE
    OBVIOUS
  <2> DEFINE dropped == [sends |-> <<>>, settle |-> "drop"]
  <2>2. WorksOn(r, kind) = <<dropped>>
    BY <2>1 DEF WorksOn, Undecodable
  <2>3. DOMAIN dropped.sends = {}
    OBVIOUS
  <2> HIDE DEF dropped
  <2>4. run.work = dropped
    BY <1>5, <2>2
  <2>5. QED
    BY <1>4, <2>3, <2>4
<1>7. a \in DOMAIN service.regs[r].body[kind] /\ run.work = service.regs[r].body[kind][a]
  BY <1>5, <1>6 DEF WorksOn
<1> HIDE DEF r, kind
<1>8. SendAssumed(service, service.regs[r].topic, run.work.sends[run.sent + 1])
  BY <1>1, <1>2, <1>4, <1>6, <1>7, KeysOfService DEF KeysAssumed, Registered
<1>9. QED
  BY <1>3, <1>8 DEF NextSend, r

LEMMA StoreIsKeyed ==
    ASSUME Inv, LogsKeyed, NEW run \in runs, Working(run), Store(run), service' = service
    PROVE  LogsKeyed'
<1> DEFINE to == NextSend(run).to
<1> DEFINE entry == Entry(Wired(run), From(run.reg, run.copy, run.sent + 1))
<1>1. to \in Topic /\ Contract!Fanout(to, entry, copies)
  BY NextSendFacts DEF Store
<1>2. run.reg \in Registered /\ run.copy \in DOMAIN copies[run.reg]
  BY DEF Inv, RunOK
<1>3. MessageKeyed(topicOf[run.reg], MessageOf(run.reg, run.copy))
  BY <1>2, CopyIsKeyed
<1>4. SendAssumed(service, topicOf[run.reg], NextSend(run))
  BY NextSendAssumed
<1>5. Wired(run) # Refused
  BY DEF Store, Accepted
<1>6. MessageKeyed(to, Wired(run))
  BY <1>3, <1>4, <1>5, SentIsKeyed DEF Wired, Inv
<1>7. entry.message = Wired(run)
  BY DEF Entry
<1> HIDE DEF to, entry
<1>8. QED
  BY <1>1, <1>6, <1>7, CopiesAsTheyAre, KeyedArrival

LEMMA OutsideIsKeyed ==
    ASSUME Inv, LogsKeyed, NEW input \in service.inputs \cup service.announce,
           Inject(input.data, input.headers) # Refused, input.topic \in Topic,
           Contract!Fanout(input.topic, Entry(Inject(input.data, input.headers), Outside), copies),
           service' = service
    PROVE  LogsKeyed'
<1> DEFINE entry == Entry(Inject(input.data, input.headers), Outside)
<1>1. Contract!Fanout(input.topic, entry, copies)
  OBVIOUS
<1>2. MessageKeyed(input.topic, entry.message)
  BY InputIsKeyed DEF Inv, Entry
<1> HIDE DEF entry
<1>3. QED
  BY <1>1, <1>2, CopiesAsTheyAre, KeyedArrival

\* A dead letter goes under the key it was published under, which is what the
\* dead-letter topic promises if it promises any.
LEMMA LetterIsKeyed ==
    ASSUME DeadInv, LogsKeyed, NEW r \in Reg, NEW i \in DOMAIN copies[r], DeadLetter(r, i)
    PROVE  LogsKeyed'
<1> DEFINE now == [copies EXCEPT ![r][i] = Contract!Dead]
<1> DEFINE to == policy[r].topic
<1> DEFINE letter == Letter(r, i)
<1>1. /\ Inv /\ Shape /\ DOMAIN copies = Reg
      /\ \A q \in Reg : IsSeq(copies[q])
  BY CopiesAsTheyAre DEF DeadInv, Inv
<1>2. r \in Registered /\ copies[r][i].state = "spent"
  BY <1>1, CopiesOfRegistered DEF DeadLetter
<1>3. policy[r] # None /\ copies[r][i].to = to
  BY <1>2 DEF DeadInv, Letters
<1>4. Contract!Fanout(to, letter, now) /\ service' = service
  BY <1>3 DEF DeadLetter, Letter
<1>5. to \in Topic
  BY <1>1, <1>2, <1>3, RegisteredFacts
<1>6. /\ policy[r] = service.regs[r].policy /\ topicOf[r] = service.regs[r].topic
  BY <1>1, <1>2 DEF Shape, Mounted
<1>7. to \in DOMAIN service.keys => HandsOn(service, topicOf[r], to)
  BY <1>1, <1>2, <1>3, <1>6, KeysOfService DEF KeysAssumed, Registered
<1>8. MessageKeyed(to, letter.message)
  <2>1. MessageKeyed(topicOf[r], MessageOf(r, i))
    BY <1>1, <1>2, CopyIsKeyed
  <2>2. letter.message = MessageOf(r, i)
    BY DEF Letter, Entry
  <2> HIDE DEF to, letter
  <2>3. QED
    BY <1>7, <2>1, <2>2 DEF MessageKeyed, HandsOn, Promised
<1>9. ASSUME NEW q \in Reg
      PROVE  IsSeq(now[q]) /\ DOMAIN now[q] = DOMAIN copies[q]
  <2>1. CASE q = r
    <3> DEFINE seq == copies[r]
    <3> DEFINE dead == Contract!Dead
    <3>1. now[q] = [seq EXCEPT ![i] = dead] /\ IsSeq(seq) /\ i \in DOMAIN seq
      BY <1>1, <2>1
    <3> HIDE DEF seq, dead, now
    <3>2. IsSeq([seq EXCEPT ![i] = dead]) /\ DOMAIN [seq EXCEPT ![i] = dead] = DOMAIN seq
      BY <3>1, Replaced
    <3>3. QED
      BY <2>1, <3>1, <3>2 DEF seq
  <2>2. CASE q # r
    BY <1>1, <2>2
  <2>3. QED
    BY <2>1, <2>2
<1>10. DOMAIN now = Reg
  BY <1>1
<1> HIDE DEF now, to, letter
<1>11. QED
  BY <1>1, <1>4, <1>5, <1>8, <1>9, <1>10, KeyedArrival

\* What settles, expires or is redelivered leaves the logs as they are.
LEMMA LogsStay ==
    ASSUME Inv, NEW r, NEW i, ComeBack(r, i) \/ Drop(r, i) \/ Contract!Acknowledge(r, i)
    PROVE  log' = log
BY DEF ComeBack, Drop, Contract!Redeliver, Contract!Spend, Contract!Acknowledge, Contract!Become

LEMMA InitKeyInv == Init => KeyInv
<1> SUFFICES ASSUME Init PROVE LogsKeyed
  BY InitDeadInv DEF KeyInv
<1>1. DOMAIN <<>> = {}
  OBVIOUS
<1>2. QED
  BY <1>1 DEF Init, LogsKeyed

LEMMA NextKeyInv == KeyInv /\ [Next]_vars => KeyInv'
<1> SUFFICES ASSUME KeyInv, [Next]_vars PROVE LogsKeyed'
  BY NextDeadInv DEF KeyInv
<1>1. Inv /\ DeadInv /\ LogsKeyed
  BY DEF KeyInv, DeadInv
<1>2. /\ \A input \in service.inputs \cup service.announce : input.topic \in Topic
      /\ starting \subseteq service.announce
  BY <1>1, ServicesAssumption DEF Inv, Shape, Mounted, Announced
<1>3. ASSUME NEW input \in service.inputs, Produce(input) PROVE LogsKeyed'
  BY <1>1, <1>2, <1>3, OutsideIsKeyed DEF Produce, Accepted
<1>4. ASSUME NEW input \in starting, Announce(input) PROVE LogsKeyed'
  <2>1. input \in service.announce /\ Inject(input.data, input.headers) # Refused
    BY <1>1, <1>2, KeysOfService DEF KeysAssumed, Inv
  <2>2. QED
    BY <1>1, <1>2, <1>4, <2>1, OutsideIsKeyed DEF Announce
<1>5. ASSUME NEW r \in Reg, NEW i \in DOMAIN copies[r], Expire(r, i) PROVE LogsKeyed'
  BY <1>1, <1>5, LogsStay, KeyedQuiet DEF Expire
<1>6. ASSUME NEW run \in runs, Publish(run) PROVE LogsKeyed'
  BY <1>1, <1>6, StoreIsKeyed DEF Publish
<1>7. ASSUME NEW run \in runs, PublishFails(run) PROVE LogsKeyed'
  <2>1. CASE Store(run)
    BY <1>1, <1>7, <2>1, StoreIsKeyed DEF PublishFails
  <2>2. CASE UNCHANGED <<log, copies>>
    BY <1>1, <1>7, <2>2, KeyedQuiet DEF PublishFails
  <2>3. QED
    BY <1>7, <2>1, <2>2 DEF PublishFails
<1>8. ASSUME NEW run \in runs, Settle(run) PROVE LogsKeyed'
  <2>1. CASE run.leased
    BY <1>1, <1>8, <2>1, LogsStay, KeyedQuiet DEF Settle, Settled
  <2>2. CASE ~run.leased
    BY <1>1, <1>8, <2>2, KeyedQuiet DEF Settle, transport
  <2>3. QED
    BY <2>1, <2>2
<1>9. ASSUME UNCHANGED <<service, transport>> PROVE LogsKeyed'
  BY <1>1, <1>9, KeyedQuiet DEF transport
<1>10. CASE \E r \in Reg : \E i \in DOMAIN copies[r] :
              Begin(r, i) \/ DeadLetter(r, i) \/ Expire(r, i)
  BY <1>1, <1>5, <1>9, <1>10, LetterIsKeyed DEF Begin
<1>11. CASE \E run \in runs :
              \/ Publish(run) \/ PublishFails(run) \/ Settle(run)
              \/ LoseLease(run) \/ LoseSettlement(run)
  BY <1>6, <1>7, <1>8, <1>9, <1>11 DEF LoseLease, LoseSettlement
<1>12. CASE Crash \/ UNCHANGED vars
  BY <1>9, <1>12 DEF Crash, vars
<1>13. QED
  BY <1>3, <1>4, <1>10, <1>11, <1>12 DEF Next

\* Two messages of one entity never lose their order to a key: every message of
\* a topic that is promised to be ordered has the key of its entity, or of its
\* mount site, through handlers that name it, transforms that read it off the
\* delivery, redeliveries, faults and dead letters (publisher.rs, message.rs),
\* in every service that names the key at each of its sends.
THEOREM KeysSurvive == Spec => []KeysKept
<1>1. KeyInv => KeysKept
  <2> SUFFICES ASSUME KeyInv, NEW t \in DOMAIN service.keys, NEW k \in DOMAIN log[t]
               PROVE  LET message == log[t][k].message
                      IN message.key = Promised(service, t, message.data)
    BY DEF KeysKept
  <2>1. t \in Topic
    BY KeysOfService DEF KeyInv, DeadInv, Inv, KeysAssumed
  <2>2. QED
    BY <2>1 DEF KeyInv, LogsKeyed, MessageKeyed
<1>2. QED
  BY InitKeyInv, NextKeyInv, <1>1, PTL DEF Spec
================================================================================
