--------------------------- MODULE GatewayProofs ---------------------------
(***************************************************************************)
(* Proofs about Gateway, for every number of instances, connections and    *)
(* events, every queue size and every combination of faults.               *)
(*                                                                         *)
(* GateInv is inductive.  PlaceInv says where a connection is on its way   *)
(* through HandleWS, WorkInv what a consuming goroutine has done for the   *)
(* message it handles, NoticeInv what a connection has been sent.          *)
(***************************************************************************)
EXTENDS Gateway, TLAPS

\* A goroutine begins every message with the save, and acknowledges what the
\* hash holds.
WorkInv ==
  \A w \in Worker :
    /\ todo[w] = {} => wpc[w] = "save"
    /\ \A e \in Event : wpc[w] = "ack" /\ Handling(w, e) => e \in delivery \cup settled

PlaceInv ==
  /\ \A c \in Conn :
       /\ hs[c] = "new" <=> inst[c] = NoInst
       /\ hs[c] \in {"new", "register"} => link[c] = "none"
       /\ Running(c) \/ hs[c] = "displace" => link[c] # "none"
       /\ hs[c] = "displace" =>
            prev[c] \in Conn /\ inst[prev[c]] = inst[c] /\ link[prev[c]] # "none"
  /\ \A i \in Inst : hub[i] # NoConn => inst[hub[i]] = i /\ link[hub[i]] # "none"

\* The group of the instance has acknowledged the event, and no goroutine is
\* about to deliver it.
Acked(i, e) == e <= pos[i] /\ e \notin pel[i]
Delivering(i, e) == \E w \in Worker : w[1] = i /\ wpc[w] = "deliver" /\ Handling(w, e)

Queued(c, e) == \E k \in DOMAIN queue[c] : queue[c][k] = e

\* The routed connection has been sent the event or is about to: this goes
\* through every step between the replay and the answer, and does not depend on
\* which of the two goroutines acknowledged the event.
Sent(c, e) ==
  \/ Queued(c, e)
  \/ e \in inbox[c] \cup settled
  \/ hs[c] = "resend" /\ e \in replay[c]

Noticed(c) ==
  Routed(c) /\ hs[c] \in {"resend", "served"} =>
    \A e \in Event : Acked(inst[c], e) /\ ~Delivering(inst[c], e) => Sent(c, e)

NoticeInv == \A c \in Conn : Noticed(c)

GateInv ==
  /\ GatewayTypeOK
  /\ WorkInv
  /\ ConfirmedIsKept
  /\ PlaceInv
  /\ OpenIsRouted
  /\ NoticeInv

-----------------------------------------------------------------------------
\* The initial state satisfies the invariant.
LEMMA GateInitInv == GateInit => GateInv
<1> SUFFICES ASSUME GateInit PROVE GateInv
  OBVIOUS
<1> USE GatewayAssumption DEF GateInit
<1>1. RedisTypeOK /\ WorkerTypeOK
  BY DEF RedisTypeOK, WorkerTypeOK, Event, Worker
<1>2. ShakeTypeOK /\ LinkTypeOK /\ QueueTypeOK
  BY DEF ShakeTypeOK, LinkTypeOK, QueueTypeOK, Handshake, Link
<1>3. WorkInv /\ ConfirmedIsKept
  BY DEF WorkInv, Handling, ConfirmedIsKept, Event, Worker
<1>4. PlaceInv /\ OpenIsRouted
  BY DEF PlaceInv, OpenIsRouted, Routed, Running
<1>5. NoticeInv
  BY DEF NoticeInv, Noticed
<1> QED
  BY <1>1, <1>2, <1>3, <1>4, <1>5 DEF GateInv, GatewayTypeOK

\* A send to a queue that has room keeps it a queue of events and within its
\* size.
LEMMA SendKeepsQueue ==
  ASSUME QueueTypeOK, NEW c \in Conn, NEW e \in Event, Enqueue(c, e), ~Full(c)
  PROVE  QueueTypeOK'
<1> USE GatewayAssumption DEF QueueTypeOK
<1>1. /\ Append(queue[c], e) \in Seq(Event)
      /\ Len(Append(queue[c], e)) <= QueueSize
  BY DEF Full
<1> QED
  BY <1>1 DEF Enqueue

\* So does the removal of its first element, or of all.
LEMMA ReceiveKeepsQueue ==
  ASSUME QueueTypeOK, NEW c \in Conn, queue[c] # <<>>, queue' = [queue EXCEPT ![c] = Tail(@)]
  PROVE  QueueTypeOK' /\ Head(queue[c]) \in Event
<1> USE GatewayAssumption DEF QueueTypeOK
<1>1. /\ Head(queue[c]) \in Event
      /\ Tail(queue[c]) \in Seq(Event)
      /\ Len(Tail(queue[c])) <= QueueSize
  <2>1. queue[c] \in Seq(Event) /\ queue[c] # <<>> /\ Len(queue[c]) <= QueueSize
    OBVIOUS
  <2> QED
    BY <2>1
<1> QED
  BY <1>1

LEMMA ClearKeepsQueue ==
  ASSUME QueueTypeOK, NEW C \in SUBSET Conn,
         queue' = [c \in Conn |-> IF c \in C THEN <<>> ELSE queue[c]]
  PROVE  QueueTypeOK'
<1>1. <<>> \in Seq(Event) /\ Len(<<>>) <= QueueSize
  BY GatewayAssumption
<1> QED
  BY <1>1 DEF QueueTypeOK

LEMMA BatchTyped ==
  ASSUME WorkerTypeOK, NEW w, NEW batch \in SUBSET Event
  PROVE  [todo EXCEPT ![w] = batch] \in [Worker -> SUBSET Event]
BY DEF WorkerTypeOK

\* Every step keeps the types.
LEMMA TypeNext ==
  ASSUME GateInv, [GateNext]_gateVars
  PROVE  GatewayTypeOK'
<1>1. GatewayTypeOK
  BY DEF GateInv
<1>2. UNCHANGED queue => QueueTypeOK'
  BY <1>1 DEF GatewayTypeOK, QueueTypeOK
<1> USE GatewayAssumption, <1>1, <1>2 DEF GatewayTypeOK, RedisTypeOK, WorkerTypeOK,
        ShakeTypeOK, LinkTypeOK, redis, workers, shake, conns
<1>3. CASE SessionEnds
  BY <1>3 DEF SessionEnds
<1>4. CASE DeliveryExpires
  BY <1>4 DEF DeliveryExpires
<1>5. ASSUME NEW c \in Conn, Connection(c) PROVE GatewayTypeOK'
  <2>1. CASE Unregister(c)
    <3>1. queue' = [d \in Conn |-> IF d \in {c} THEN <<>> ELSE queue[d]]
      BY <2>1 DEF Unregister, QueueTypeOK
    <3>2. QueueTypeOK'
      <4>1. {c} \in SUBSET Conn
        OBVIOUS
      <4> QED
        BY <3>1, <4>1, ClearKeepsQueue
    <3> QED
      BY <2>1, <3>2 DEF Unregister, Link
  <2>2. CASE Hangup(c)
    BY <2>2 DEF Hangup, StartClose, Link
  <2>3. CASE WriteMessage(c)
    <3>1. QueueTypeOK' /\ Head(queue[c]) \in Event
      BY <2>3, ReceiveKeepsQueue DEF WriteMessage
    <3> QED
      BY <2>3, <3>1 DEF WriteMessage
  <2>4. ASSUME NEW e \in Event, ClientAck(c, e) PROVE GatewayTypeOK'
    BY <2>4 DEF ClientAck
  <2>5. CASE CloseAfterGrace(c)
    BY <2>5 DEF CloseAfterGrace, StartClose, Link
  <2> QED
    BY <1>5, <2>1, <2>2, <2>3, <2>4, <2>5 DEF Connection
<1>6. ASSUME NEW c \in Conn, HandleWS(c) PROVE GatewayTypeOK'
  <2>1. ASSUME NEW i \in Inst, Introspect(c, i) PROVE GatewayTypeOK'
    BY <2>1 DEF Introspect, Handshake
  <2>2. CASE RegisterConn(c)
    <3>1. inst[c] \in Inst
      BY <2>2 DEF RegisterConn, GateInv, PlaceInv
    <3> QED
      BY <2>2, <3>1 DEF RegisterConn, Handshake, Link
  <2>3. CASE Displace(c)
    BY <2>3 DEF Displace, StartClose, Handshake, Link
  <2>4. CASE ReplayRead(c)
    BY <2>4 DEF ReplayRead, Succeeds, Fails, May, Handshake
  <2>5. CASE ReplaySend(c)
    <3>1. QueueTypeOK'
      BY <2>5, SendKeepsQueue DEF ReplaySend
    <3> QED
      BY <2>5, <3>1 DEF ReplaySend, StartClose, Handshake, Link
  <2> QED
    BY <1>6, <2>1, <2>2, <2>3, <2>4, <2>5 DEF HandleWS
<1>7. ASSUME NEW i \in Inst, Consume(i) PROVE GatewayTypeOK'
  <2>1. CASE ReadGroup(i)
    <3>1. PICK last \in pos[i] + 1 .. written :
            /\ pos' = [pos EXCEPT ![i] = last]
            /\ pel' = [pel EXCEPT ![i] = @ \cup (pos[i] + 1 .. last)]
            /\ \/ Succeeds /\ todo' = [todo EXCEPT ![<<i, "run">>] = pos[i] + 1 .. last]
               \/ Fails /\ UNCHANGED todo
      BY <2>1 DEF ReadGroup
    <3>2. last \in 0 .. MaxEvents /\ pos[i] + 1 .. last \subseteq Event
      BY <3>1 DEF Event
    <3>3. RedisTypeOK'
      BY <2>1, <3>1, <3>2 DEF ReadGroup, Succeeds, Fails, May
    <3>4. WorkerTypeOK'
      <4>1. pos[i] + 1 .. last \in SUBSET Event /\ UNCHANGED wpc
        BY <2>1, <3>2 DEF ReadGroup
      <4>2. [todo EXCEPT ![<<i, "run">>] = pos[i] + 1 .. last] \in [Worker -> SUBSET Event]
        BY <4>1, BatchTyped
      <4> QED
        BY <3>1, <4>1, <4>2
    <3> QED
      BY <2>1, <3>3, <3>4 DEF ReadGroup
  <2>2. CASE Claim(i)
    <3>1. PICK batch \in SUBSET pel[i] : todo' = [todo EXCEPT ![<<i, "claim">>] = batch]
      BY <2>2 DEF Claim
    <3>2. batch \in SUBSET Event
      BY <3>1
    <3>3. WorkerTypeOK'
      BY <2>2, <3>1, <3>2, BatchTyped DEF Claim
    <3> QED
      BY <2>2, <3>3 DEF Claim
  <2>3. ASSUME NEW w \in Worker, NEW e \in Event, Save(w, e) PROVE GatewayTypeOK'
    <3>1. RedisTypeOK'
      BY <2>3 DEF Save, Succeeds, Fails, May
    <3>2. WorkerTypeOK'
      BY <2>3 DEF Save
    <3> QED
      BY <2>3, <3>1, <3>2 DEF Save
  <2>4. ASSUME NEW w \in Worker, NEW e \in Event, Ack(w, e) PROVE GatewayTypeOK'
    <3>1. pel' \in [Inst -> SUBSET Event] /\ UNCHANGED <<written, delivery, settled, pos>>
      BY <2>4 DEF Ack, Worker
    <3>2. RedisTypeOK'
      BY <2>4, <3>1 DEF Ack, Succeeds, Fails, May
    <3> QED
      BY <2>4, <3>2 DEF Ack
  <2>5. ASSUME NEW w \in Worker, NEW e \in Event, Deliver(w, e) PROVE GatewayTypeOK'
    <3>1. QueueTypeOK'
      BY <2>5, SendKeepsQueue DEF Deliver, Reachable, Worker
    <3>2. LinkTypeOK'
      BY <2>5 DEF Deliver, Reachable, StartClose, Link, Worker
    <3>3. WorkerTypeOK'
      BY <2>5 DEF Deliver
    <3> QED
      BY <2>5, <3>1, <3>2, <3>3 DEF Deliver
  <2> QED
    BY <1>7, <2>1, <2>2, <2>3, <2>4, <2>5 DEF Consume
<1>8. ASSUME NEW i \in Inst, Crash(i) PROVE GatewayTypeOK'
  <2>1. queue' = [d \in Conn |-> IF d \in {x \in Conn : inst[x] = i} THEN <<>> ELSE queue[d]]
    BY <1>8 DEF Crash
  <2>2. QueueTypeOK'
    <3>1. {x \in Conn : inst[x] = i} \in SUBSET Conn
      OBVIOUS
    <3> QED
      BY <2>1, <3>1, ClearKeepsQueue
  <2>3. WorkerTypeOK'
    BY <1>8 DEF Crash
  <2>4. ShakeTypeOK' /\ LinkTypeOK'
    BY <1>8 DEF Crash, Handshake, Link
  <2> QED
    BY <1>8, <2>2, <2>3, <2>4 DEF Crash, May
<1>9. CASE UNCHANGED gateVars
  BY <1>9 DEF gateVars
<1> QED
  BY <1>3, <1>4, <1>5, <1>6, <1>7, <1>8, <1>9 DEF GateNext

-----------------------------------------------------------------------------
\* What the group has acknowledged is in the hash.

\* A goroutine handles one message at a time.
LEMMA HandlesOne ==
  ASSUME NEW w, NEW d \in Event, NEW e \in Event, Handling(w, d), Handling(w, e)
  PROVE  d = e
BY GatewayAssumption DEF Handling, Event

\* Connections and HandleWS leave the consumer groups alone and take from the
\* hash only what they settle.
LEMMA CalmKeepsWork ==
  ASSUME WorkInv, ConfirmedIsKept, UNCHANGED <<pos, pel, workers>>,
         delivery \cup settled \subseteq delivery' \cup settled'
  PROVE  WorkInv' /\ ConfirmedIsKept'
BY DEF WorkInv, ConfirmedIsKept, Handling, workers

LEMMA WorkNext ==
  ASSUME GateInv, [GateNext]_gateVars
  PROVE  WorkInv' /\ ConfirmedIsKept'
<1>1. GatewayTypeOK /\ WorkInv /\ ConfirmedIsKept
  BY DEF GateInv
<1> DEFINE Calm == /\ UNCHANGED <<pos, pel, workers>>
                   /\ delivery \cup settled \subseteq delivery' \cup settled'
<1>2. ASSUME Calm PROVE WorkInv' /\ ConfirmedIsKept'
  BY <1>1, <1>2, CalmKeepsWork
<1>3. CASE SessionEnds \/ DeliveryExpires
  <2>1. Calm
    BY <1>3 DEF SessionEnds, DeliveryExpires
  <2> QED
    BY <1>2, <2>1
<1>4. ASSUME NEW c \in Conn, Connection(c) PROVE Calm
  BY <1>4 DEF Connection, Unregister, Hangup, WriteMessage, ClientAck, CloseAfterGrace, redis
<1>5. ASSUME NEW c \in Conn, HandleWS(c) PROVE Calm
  BY <1>5 DEF HandleWS, Introspect, RegisterConn, Displace, ReplayRead, ReplaySend, redis
<1>6. ASSUME NEW i \in Inst, Consume(i) PROVE WorkInv' /\ ConfirmedIsKept'
  <2>1. CASE ReadGroup(i)
    <3>1. PICK last \in pos[i] + 1 .. written :
            /\ pos' = [pos EXCEPT ![i] = last]
            /\ pel' = [pel EXCEPT ![i] = @ \cup (pos[i] + 1 .. last)]
            /\ \/ Succeeds /\ todo' = [todo EXCEPT ![<<i, "run">>] = pos[i] + 1 .. last]
               \/ Fails /\ UNCHANGED todo
      BY <2>1 DEF ReadGroup
    <3>2. UNCHANGED <<delivery, settled, wpc>> /\ Idle(<<i, "run">>)
      BY <2>1 DEF ReadGroup
    <3>3. pos[i] \in Nat /\ last \in Nat /\ last > pos[i]
      BY <1>1, <3>1 DEF GatewayTypeOK, RedisTypeOK
    <3>4. ASSUME NEW j \in Inst, NEW e \in Event, e <= pos'[j], e \notin pel'[j]
          PROVE  e <= pos[j] /\ e \notin pel[j]
      BY <1>1, <3>1, <3>3, <3>4, GatewayAssumption DEF GatewayTypeOK, RedisTypeOK, Event
    <3>5. ConfirmedIsKept'
      BY <1>1, <3>2, <3>4 DEF ConfirmedIsKept
    <3>6. ASSUME NEW w \in Worker
          PROVE  \/ todo'[w] = todo[w]
                 \/ todo'[w] # {} /\ wpc[w] = "save"
      <4>1. last \in pos[i] + 1 .. last
        BY <3>3
      <4>2. wpc[<<i, "run">>] = "save"
        BY <1>1, <3>2 DEF WorkInv, Idle, Worker
      <4> QED
        BY <1>1, <3>1, <4>1, <4>2 DEF GatewayTypeOK, WorkerTypeOK
    <3>7. WorkInv'
      BY <1>1, <3>2, <3>6 DEF WorkInv, Handling
    <3> QED
      BY <3>5, <3>7
  <2>2. CASE Claim(i)
    <3>1. PICK batch \in (SUBSET pel[i]) \ {{}} : todo' = [todo EXCEPT ![<<i, "claim">>] = batch]
      BY <2>2 DEF Claim
    <3>2. wpc[<<i, "claim">>] = "save"
      BY <1>1, <2>2 DEF WorkInv, Claim, Idle, Worker
    <3>3. \A w \in Worker : todo'[w] = todo[w] \/ (todo'[w] # {} /\ wpc[w] = "save")
      <4>1. todo \in [Worker -> SUBSET Event] /\ batch # {}
        BY <1>1, <3>1 DEF GatewayTypeOK, WorkerTypeOK
      <4>2. ASSUME NEW w \in Worker, w # <<i, "claim">> PROVE todo'[w] = todo[w]
        BY <3>1, <4>1, <4>2
      <4>3. <<i, "claim">> \in Worker
        BY DEF Worker
      <4>4. todo'[<<i, "claim">>] # {}
        BY <3>1, <4>1, <4>3
      <4> QED
        BY <3>2, <4>2, <4>4
    <3>4. UNCHANGED <<wpc, delivery, settled, pos, pel>>
      BY <2>2 DEF Claim, redis
    <3> QED
      BY <1>1, <3>3, <3>4 DEF WorkInv, Handling, ConfirmedIsKept
  <2>3. ASSUME NEW w \in Worker, NEW e \in Event, Save(w, e) PROVE WorkInv' /\ ConfirmedIsKept'
    <3>1. /\ UNCHANGED <<settled, pos, pel>>
          /\ delivery \subseteq delivery'
          /\ wpc[w] = "save" /\ Handling(w, e)
          /\ \/ e \in delivery' /\ wpc' = [wpc EXCEPT ![w] = "ack"] /\ UNCHANGED todo
             \/ todo' = [todo EXCEPT ![w] = @ \ {e}] /\ UNCHANGED wpc
      BY <2>3 DEF Save
    <3>2. ConfirmedIsKept'
      BY <1>1, <3>1 DEF ConfirmedIsKept
    <3>3. ASSUME NEW v \in Worker
          PROVE  /\ todo'[v] = {} => wpc'[v] = "save"
                 /\ \A d \in Event : wpc'[v] = "ack" /\ Handling(v, d)' => d \in delivery' \cup settled'
      <4>1. CASE v # w
        BY <1>1, <3>1, <4>1 DEF GatewayTypeOK, WorkerTypeOK, WorkInv, Handling
      <4>2. CASE v = w /\ UNCHANGED wpc
        BY <1>1, <3>1, <4>2 DEF GatewayTypeOK, WorkerTypeOK
      <4>3. CASE v = w /\ e \in delivery' /\ wpc' = [wpc EXCEPT ![w] = "ack"] /\ UNCHANGED todo
        <5>1. todo'[v] # {}
          BY <3>1, <4>3 DEF Handling
        <5>2. ASSUME NEW d \in Event, Handling(v, d)' PROVE d = e
          <6>1. Handling(w, d)
            BY <4>3, <5>2 DEF Handling
          <6> QED
            BY <3>1, <6>1, HandlesOne
        <5> QED
          BY <4>3, <5>1, <5>2
      <4> QED
        BY <3>1, <4>1, <4>2, <4>3
    <3>4. WorkInv'
      BY <3>3 DEF WorkInv
    <3> QED
      BY <3>2, <3>4
  <2>4. ASSUME NEW w \in Worker, NEW e \in Event, Ack(w, e) PROVE WorkInv' /\ ConfirmedIsKept'
    <3>1. /\ UNCHANGED <<delivery, settled, pos, todo>>
          /\ wpc[w] = "ack" /\ Handling(w, e)
          /\ wpc' = [wpc EXCEPT ![w] = "deliver"]
          /\ pel' \in {pel, [pel EXCEPT ![w[1]] = @ \ {e}]}
      BY <2>4 DEF Ack
    <3>2. e \in delivery \cup settled
      BY <1>1, <3>1 DEF WorkInv
    <3>3. \A j \in Inst, d \in Event : d \notin pel'[j] => d \notin pel[j] \/ d = e
      BY <1>1, <3>1 DEF GatewayTypeOK, RedisTypeOK
    <3>4. ConfirmedIsKept'
      BY <1>1, <3>1, <3>2, <3>3 DEF ConfirmedIsKept
    <3>5. todo[w] # {}
      BY <3>1 DEF Handling
    <3>6. WorkInv'
      BY <1>1, <3>1, <3>5 DEF WorkInv, Handling, GatewayTypeOK, WorkerTypeOK
    <3> QED
      BY <3>4, <3>6
  <2>5. ASSUME NEW w \in Worker, NEW e \in Event, Deliver(w, e) PROVE WorkInv' /\ ConfirmedIsKept'
    <3>1. /\ UNCHANGED <<delivery, settled, pos, pel>>
          /\ wpc' = [wpc EXCEPT ![w] = "save"]
          /\ todo' = [todo EXCEPT ![w] = @ \ {e}]
      BY <2>5 DEF Deliver, redis
    <3> QED
      BY <1>1, <3>1 DEF WorkInv, Handling, ConfirmedIsKept, GatewayTypeOK, WorkerTypeOK
  <2> QED
    BY <1>6, <2>1, <2>2, <2>3, <2>4, <2>5 DEF Consume
<1>7. ASSUME NEW i \in Inst, Crash(i) PROVE WorkInv' /\ ConfirmedIsKept'
  <2>1. /\ UNCHANGED <<delivery, settled, pos, pel>>
        /\ \A w \in Worker : \/ todo'[w] = {} /\ wpc'[w] = "save"
                             \/ todo'[w] = todo[w] /\ wpc'[w] = wpc[w]
    BY <1>7 DEF Crash, redis
  <2> QED
    BY <1>1, <2>1 DEF WorkInv, Handling, ConfirmedIsKept
<1>8. CASE UNCHANGED gateVars
  BY <1>1, <1>8, CalmKeepsWork DEF gateVars, redis
<1> QED
  BY <1>2, <1>3, <1>4, <1>5, <1>6, <1>7, <1>8 DEF GateNext

-----------------------------------------------------------------------------
\* An open connection is in the hub, or about to be closed by its successor.

\* What everything but a registration, an unregistration and a crash does to
\* the hub and the links: at most it begins to close connections, and moves
\* HandleWS on once the connection serves.
Closes ==
  /\ UNCHANGED <<hub, inst, prev>>
  /\ \A c \in Conn :
       /\ link'[c] = link[c] \/ (link[c] = "open" /\ link'[c] = "closing")
       /\ hs'[c] = hs[c] \/ (Running(c) /\ Running(c)')

LEMMA ClosesKeepsPlace ==
  ASSUME GatewayTypeOK, PlaceInv, OpenIsRouted, Closes
  PROVE  PlaceInv' /\ OpenIsRouted'
<1>1. PlaceInv'
  BY DEF GatewayTypeOK, ShakeTypeOK, PlaceInv, Closes, Running
<1>2. OpenIsRouted'
  BY DEF OpenIsRouted, Routed, Closes, Running
<1> QED
  BY <1>1, <1>2

LEMMA PlaceNext ==
  ASSUME GateInv, [GateNext]_gateVars
  PROVE  PlaceInv' /\ OpenIsRouted'
<1>1. GatewayTypeOK /\ PlaceInv /\ OpenIsRouted
  BY DEF GateInv
<1>2. Closes => PlaceInv' /\ OpenIsRouted'
  BY <1>1, ClosesKeepsPlace
<1> USE DEF ShakeTypeOK, LinkTypeOK, shake, conns
<1>9. ShakeTypeOK /\ LinkTypeOK
  BY <1>1 DEF GatewayTypeOK
<1>3. CASE SessionEnds \/ DeliveryExpires \/ UNCHANGED gateVars
  <2>1. Closes
    BY <1>3 DEF SessionEnds, DeliveryExpires, gateVars, Closes, Running
  <2> QED
    BY <1>2, <2>1
<1>4. ASSUME NEW c \in Conn, Connection(c) PROVE PlaceInv' /\ OpenIsRouted'
  <2>1. CASE Unregister(c)
    <3>1. /\ UNCHANGED <<inst, hs, prev>>
          /\ link[c] = "closing" /\ link' = [link EXCEPT ![c] = "closed"]
          /\ hub' = [hub EXCEPT ![inst[c]] = IF @ = c THEN NoConn ELSE @]
      BY <2>1 DEF Unregister
    <3>2. PlaceInv'
      BY <1>1, <1>9, <3>1, GatewayAssumption DEF PlaceInv, Running
    <3>3. OpenIsRouted'
      BY <1>1, <1>9, <3>1, GatewayAssumption DEF OpenIsRouted, Routed, PlaceInv
    <3> QED
      BY <3>2, <3>3
  <2>2. CASE Hangup(c)
    <3>1. Closes
      BY <1>9, <2>2 DEF Hangup, StartClose, Closes, Running
    <3> QED
      BY <1>2, <3>1
  <2>3. CASE WriteMessage(c)
    <3>1. Closes
      BY <2>3 DEF WriteMessage, Closes, Running
    <3> QED
      BY <1>2, <3>1
  <2>4. ASSUME NEW e \in Event, ClientAck(c, e) PROVE PlaceInv' /\ OpenIsRouted'
    <3>1. Closes
      BY <2>4 DEF ClientAck, Closes, Running
    <3> QED
      BY <1>2, <3>1
  <2>5. CASE CloseAfterGrace(c)
    <3>1. Closes
      BY <1>9, <2>5 DEF CloseAfterGrace, StartClose, Closes, Running
    <3> QED
      BY <1>2, <3>1
  <2> QED
    BY <1>4, <2>1, <2>2, <2>3, <2>4, <2>5 DEF Connection
<1>5. ASSUME NEW c \in Conn, HandleWS(c) PROVE PlaceInv' /\ OpenIsRouted'
  <2>1. ASSUME NEW i \in Inst, Introspect(c, i) PROVE PlaceInv' /\ OpenIsRouted'
    <3>1. /\ UNCHANGED <<hub, prev, link>>
          /\ hs[c] = "new" /\ hs' = [hs EXCEPT ![c] = "register"]
          /\ inst' = [inst EXCEPT ![c] = i] /\ i # NoInst
      BY <2>1, GatewayAssumption DEF Introspect
    <3>2. link[c] = "none"
      BY <1>1, <1>9, <3>1 DEF PlaceInv
    <3>3. PlaceInv'
      BY <1>1, <1>9, <3>1, <3>2 DEF PlaceInv, Running
    <3>4. OpenIsRouted'
      BY <1>1, <1>9, <3>1, <3>2 DEF OpenIsRouted, Routed
    <3> QED
      BY <3>3, <3>4
  <2>2. CASE RegisterConn(c)
    <3>1. /\ UNCHANGED inst
          /\ hs[c] = "register" /\ link[c] = "none" /\ inst[c] \in Inst
          /\ hub' = [hub EXCEPT ![inst[c]] = c]
          /\ prev' = [prev EXCEPT ![c] = hub[inst[c]]]
          /\ hs' = [hs EXCEPT ![c] = IF hub[inst[c]] = NoConn THEN "replay" ELSE "displace"]
          /\ link' = [link EXCEPT ![c] = "open"]
      BY <1>1, <1>9, <2>2 DEF RegisterConn, PlaceInv
    <3>2. PlaceInv'
      BY <1>1, <1>9, <3>1 DEF PlaceInv, Running
    <3>3. ASSUME NEW d \in Conn, link'[d] = "open"
          PROVE  Routed(d)' \/ \E x \in Conn : hs'[x] = "displace" /\ prev'[x] = d
      <4>1. CASE d = c
        BY <1>9, <3>1, <4>1 DEF Routed
      <4>2. CASE d # c /\ Routed(d) /\ inst[d] = inst[c]
        <5>1. hs'[c] = "displace" /\ prev'[c] = d
          BY <1>9, <3>1, <4>2, GatewayAssumption DEF Routed
        <5> QED
          BY <5>1
      <4>3. CASE d # c /\ Routed(d) /\ inst[d] # inst[c]
        BY <1>9, <3>1, <4>3 DEF Routed
      <4>4. CASE d # c /\ \E x \in Conn : hs[x] = "displace" /\ prev[x] = d
        BY <3>1, <4>4
      <4> QED
        BY <1>1, <3>1, <3>3, <4>1, <4>2, <4>3, <4>4 DEF OpenIsRouted
    <3> QED
      BY <3>2, <3>3 DEF OpenIsRouted
  <2>3. CASE Displace(c)
    <3>1. CASE link[prev[c]] = "open" /\ StartClose(prev[c]) /\ UNCHANGED <<hs, prev>>
      <4>1. Closes
        BY <1>9, <2>3, <3>1 DEF Displace, StartClose, Closes, Running
      <4> QED
        BY <1>2, <4>1
    <3>2. CASE /\ link[prev[c]] = "closed"
               /\ hs' = [hs EXCEPT ![c] = "replay"]
               /\ prev' = [prev EXCEPT ![c] = NoConn]
               /\ UNCHANGED link
      <4>1. UNCHANGED <<hub, inst>> /\ hs[c] = "displace"
        BY <2>3 DEF Displace
      <4>2. PlaceInv'
        BY <1>1, <1>9, <3>2, <4>1 DEF PlaceInv, Running
      <4>3. OpenIsRouted'
        BY <1>1, <1>9, <3>2, <4>1 DEF OpenIsRouted, Routed
      <4> QED
        BY <4>2, <4>3
    <3> QED
      BY <2>3, <3>1, <3>2 DEF Displace
  <2>4. CASE ReplayRead(c)
    <3>1. Closes
      BY <1>9, <2>4 DEF ReplayRead, Closes, Running
    <3> QED
      BY <1>2, <3>1
  <2>5. CASE ReplaySend(c)
    <3>1. Closes
      BY <1>9, <2>5 DEF ReplaySend, StartClose, Closes, Running
    <3> QED
      BY <1>2, <3>1
  <2> QED
    BY <1>5, <2>1, <2>2, <2>3, <2>4, <2>5 DEF HandleWS
<1>6. ASSUME NEW i \in Inst, Consume(i) PROVE PlaceInv' /\ OpenIsRouted'
  <2>1. CASE ReadGroup(i) \/ Claim(i)
    <3>1. Closes
      BY <2>1 DEF ReadGroup, Claim, Closes, Running
    <3> QED
      BY <1>2, <3>1
  <2>2. ASSUME NEW w \in Worker, NEW e \in Event, Save(w, e) \/ Ack(w, e)
        PROVE  PlaceInv' /\ OpenIsRouted'
    <3>1. Closes
      BY <2>2 DEF Save, Ack, Closes, Running
    <3> QED
      BY <1>2, <3>1
  <2>3. ASSUME NEW w \in Worker, NEW e \in Event, Deliver(w, e)
        PROVE  PlaceInv' /\ OpenIsRouted'
    <3>1. Closes
      BY <1>9, <2>3 DEF Deliver, StartClose, Closes, Running
    <3> QED
      BY <1>2, <3>1
  <2> QED
    BY <1>6, <2>1, <2>2, <2>3 DEF Consume
<1>7. ASSUME NEW i \in Inst, Crash(i) PROVE PlaceInv' /\ OpenIsRouted'
  <2>1. /\ UNCHANGED inst
        /\ hub' = [hub EXCEPT ![i] = NoConn]
        /\ hs' = [c \in Conn |-> IF inst[c] = i THEN "lost" ELSE hs[c]]
        /\ prev' = [c \in Conn |-> IF inst[c] = i THEN NoConn ELSE prev[c]]
        /\ link' = [c \in Conn |-> IF inst[c] = i /\ link[c] # "none" THEN "closed" ELSE link[c]]
    BY <1>7 DEF Crash
  <2>2. i # NoInst
    BY GatewayAssumption
  <2>3. PlaceInv'
    BY <1>1, <1>9, <2>1, <2>2 DEF PlaceInv, Running
  <2>4. ASSUME NEW c \in Conn, link'[c] = "open"
        PROVE  Routed(c)' \/ \E d \in Conn : hs'[d] = "displace" /\ prev'[d] = c
    <3>1. inst[c] # i /\ link[c] = "open"
      BY <2>1, <2>4
    <3>2. CASE Routed(c)
      BY <2>1, <3>1, <3>2 DEF Routed
    <3>3. ASSUME NEW d \in Conn, hs[d] = "displace", prev[d] = c
          PROVE  hs'[d] = "displace" /\ prev'[d] = c
      BY <1>1, <2>1, <3>1, <3>3 DEF PlaceInv
    <3> QED
      BY <1>1, <3>1, <3>2, <3>3 DEF OpenIsRouted
  <2> QED
    BY <2>3, <2>4 DEF OpenIsRouted
<1> QED
  BY <1>3, <1>4, <1>5, <1>6, <1>7 DEF GateNext

-----------------------------------------------------------------------------
\* The routed connection is sent what its instance has acknowledged.

\* The event waits for nobody but the connection.
Due(c, e) == Acked(inst[c], e) /\ ~Delivering(inst[c], e)

Awaits(c) == Routed(c) /\ hs[c] \in {"resend", "served"}

\* A step that neither begins to serve the connection nor makes an event due,
\* and loses nothing that was sent to it.
LEMMA NoticeKept ==
  ASSUME NEW c \in Conn, Noticed(c),
         Awaits(c)' => Awaits(c),
         \A e \in Event : Due(c, e)' => Due(c, e),
         Awaits(c)' => \A e \in Event : Sent(c, e) => Sent(c, e)'
  PROVE  Noticed(c)'
BY DEF Noticed, Awaits, Due

\* What is in the queue, in the inbox or to be replayed stays there.
LEMMA SentKept ==
  ASSUME NEW c \in Conn, UNCHANGED queue[c], inbox[c] \subseteq inbox'[c],
         settled \subseteq settled', UNCHANGED <<hs[c], replay[c]>>
  PROVE  \A e \in Event : Sent(c, e) => Sent(c, e)'
BY DEF Sent, Queued

\* Sending adds to the queue, receiving moves its head to the inbox.
LEMMA SendQueues ==
  ASSUME QueueTypeOK, NEW c \in Conn, NEW d \in Event, Enqueue(c, d)
  PROVE  /\ Queued(c, d)'
         /\ \A e \in Event : Queued(c, e) => Queued(c, e)'
         /\ \A x \in Conn : x # c => queue'[x] = queue[x]
<1>1. queue[c] \in Seq(Event) /\ queue'[c] = Append(queue[c], d)
  BY DEF QueueTypeOK, Enqueue
<1>2. \A x \in Conn : x # c => queue'[x] = queue[x]
  BY DEF QueueTypeOK, Enqueue
<1>3. Len(queue[c]) + 1 \in DOMAIN queue'[c] /\ queue'[c][Len(queue[c]) + 1] = d
  BY <1>1
<1>4. \A k \in DOMAIN queue[c] : k \in DOMAIN queue'[c] /\ queue'[c][k] = queue[c][k]
  BY <1>1
<1> QED
  BY <1>2, <1>3, <1>4 DEF Queued

LEMMA HeadOrTail ==
  ASSUME NEW S, NEW q \in Seq(S), q # <<>>, NEW k \in DOMAIN q
  PROVE  q[k] = Head(q) \/ \E j \in DOMAIN Tail(q) : Tail(q)[j] = q[k]
<1>1. CASE k = 1
  BY <1>1
<1>2. CASE k # 1
  <2>1. k - 1 \in DOMAIN Tail(q) /\ Tail(q)[k - 1] = q[k]
    BY <1>2
  <2> QED
    BY <2>1
<1> QED
  BY <1>1, <1>2

LEMMA NoticeNext ==
  ASSUME GateInv, [GateNext]_gateVars
  PROVE  NoticeInv'
<1>1. /\ WorkInv /\ ConfirmedIsKept /\ PlaceInv /\ NoticeInv
      /\ RedisTypeOK /\ WorkerTypeOK /\ ShakeTypeOK /\ LinkTypeOK /\ QueueTypeOK
  BY DEF GateInv, GatewayTypeOK
<1> SUFFICES ASSUME NEW c \in Conn PROVE Noticed(c)'
  BY DEF NoticeInv
<1>2. Noticed(c)
  BY <1>1 DEF NoticeInv
<1> DEFINE SameWork == UNCHANGED <<pos, pel, todo, wpc, inst[c]>>
           SameSent == \A e \in Event : Sent(c, e) => Sent(c, e)'
<1>3. SameWork => \A e \in Event : Due(c, e)' => Due(c, e)
  BY DEF Due, Acked, Delivering, Handling
<1>4. UNCHANGED <<link[c], inst, hub, hs[c]>> => (Awaits(c)' => Awaits(c))
  BY DEF Awaits, Routed
<1>5. ASSUME (Awaits(c)' => Awaits(c)), SameWork, (Awaits(c)' => SameSent) PROVE Noticed(c)'
  BY <1>2, <1>3, <1>5, NoticeKept
<1> USE DEF redis, workers, shake, conns
<1>6. CASE SessionEnds \/ DeliveryExpires \/ UNCHANGED gateVars
  <2>1. SameWork /\ (Awaits(c)' => Awaits(c))
    BY <1>4, <1>6 DEF SessionEnds, DeliveryExpires, gateVars
  <2>2. SameSent
    BY <1>6, SentKept DEF SessionEnds, DeliveryExpires, gateVars
  <2> QED
    BY <1>5, <2>1, <2>2
<1>7. ASSUME NEW x \in Conn, Connection(x) PROVE Noticed(c)'
  <2>1. SameWork
    BY <1>7 DEF Connection, Unregister, Hangup, WriteMessage, ClientAck, CloseAfterGrace
  <2>2. CASE Unregister(x)
    <3>1. Awaits(c)' => Awaits(c) /\ c # x
      BY <1>1, <2>2, GatewayAssumption DEF Unregister, Awaits, Routed, ShakeTypeOK, LinkTypeOK, PlaceInv
    <3>2. c # x => SameSent
      BY <1>1, <2>2, SentKept DEF Unregister, QueueTypeOK
    <3> QED
      BY <1>5, <2>1, <3>1, <3>2
  <2>3. CASE Hangup(x) \/ CloseAfterGrace(x)
    <3>1. Awaits(c)' => Awaits(c)
      BY <1>1, <2>3 DEF Hangup, CloseAfterGrace, StartClose, Awaits, Routed, LinkTypeOK
    <3>2. SameSent
      BY <2>3, SentKept DEF Hangup, CloseAfterGrace
    <3> QED
      BY <1>5, <2>1, <3>1, <3>2
  <2>4. CASE WriteMessage(x)
    <3>1. Awaits(c)' => Awaits(c)
      BY <1>4, <2>4 DEF WriteMessage
    <3>2. CASE x # c
      <4>1. SameSent
        BY <1>1, <2>4, <3>2, SentKept DEF WriteMessage, QueueTypeOK, LinkTypeOK
      <4> QED
        BY <1>5, <2>1, <3>1, <4>1
    <3>3. CASE x = c
      <4>1. /\ queue[c] \in Seq(Event) /\ queue[c] # <<>>
            /\ queue'[c] = Tail(queue[c])
            /\ inbox'[c] = inbox[c] \cup {Head(queue[c])}
            /\ UNCHANGED <<settled, hs, replay>>
        BY <1>1, <2>4, <3>3 DEF WriteMessage, QueueTypeOK, LinkTypeOK
      <4>2. ASSUME NEW e \in Event, Queued(c, e) PROVE Sent(c, e)'
        <5>1. PICK k \in DOMAIN queue[c] : queue[c][k] = e
          BY <4>2 DEF Queued
        <5>2. e = Head(queue[c]) \/ \E j \in DOMAIN Tail(queue[c]) : Tail(queue[c])[j] = e
          BY <4>1, <5>1, HeadOrTail
        <5> QED
          BY <4>1, <5>2 DEF Queued, Sent
      <4>3. SameSent
        BY <4>1, <4>2 DEF Sent
      <4> QED
        BY <1>5, <2>1, <3>1, <4>3
    <3> QED
      BY <3>2, <3>3
  <2>5. ASSUME NEW e \in Event, ClientAck(x, e) PROVE Noticed(c)'
    <3>1. Awaits(c)' => Awaits(c)
      BY <1>4, <2>5 DEF ClientAck
    <3>2. SameSent
      BY <2>5, SentKept DEF ClientAck
    <3> QED
      BY <1>5, <2>1, <3>1, <3>2
  <2> QED
    BY <1>7, <2>2, <2>3, <2>4, <2>5 DEF Connection
<1>8. ASSUME NEW x \in Conn, HandleWS(x) PROVE Noticed(c)'
  <2>1. UNCHANGED <<pos, pel, todo, wpc, delivery, settled>>
    BY <1>8 DEF HandleWS, Introspect, RegisterConn, Displace, ReplayRead, ReplaySend
  <2>2. ASSUME NEW i \in Inst, Introspect(x, i) PROVE Noticed(c)'
    <3>1. CASE c = x
      BY <1>1, <2>2, <3>1 DEF Introspect, Noticed, ShakeTypeOK
    <3>2. CASE c # x
      <4>1. SameWork /\ (Awaits(c)' => Awaits(c))
        BY <1>1, <2>1, <2>2, <3>2 DEF Introspect, ShakeTypeOK, Awaits, Routed
      <4>2. SameSent
        BY <1>1, <2>2, <3>2, SentKept DEF Introspect, ShakeTypeOK
      <4> QED
        BY <1>5, <4>1, <4>2
    <3> QED
      BY <3>1, <3>2
  <2>3. CASE RegisterConn(x)
    <3>1. CASE c = x
      BY <1>1, <2>3, <3>1 DEF RegisterConn, Noticed, ShakeTypeOK
    <3>2. CASE c # x
      <4>1. SameWork /\ (Awaits(c)' => Awaits(c))
        BY <1>1, <2>1, <2>3, <3>2 DEF RegisterConn, ShakeTypeOK, LinkTypeOK, Awaits, Routed
      <4>2. SameSent
        BY <1>1, <2>3, <3>2, SentKept DEF RegisterConn, ShakeTypeOK
      <4> QED
        BY <1>5, <4>1, <4>2
    <3> QED
      BY <3>1, <3>2
  <2>4. CASE Displace(x)
    <3>1. CASE c = x /\ hs'[c] # hs[c]
      BY <1>1, <2>4, <3>1 DEF Displace, Noticed, ShakeTypeOK
    <3>2. CASE UNCHANGED hs[c]
      <4>1. SameWork /\ (Awaits(c)' => Awaits(c))
        BY <1>1, <2>1, <2>4, <3>2 DEF Displace, StartClose, LinkTypeOK, Awaits, Routed
      <4>2. SameSent
        BY <2>4, <3>2, SentKept DEF Displace
      <4> QED
        BY <1>5, <4>1, <4>2
    <3>3. c # x => UNCHANGED hs[c]
      BY <1>1, <2>4 DEF Displace, ShakeTypeOK
    <3> QED
      BY <3>1, <3>2, <3>3
  <2>5. CASE ReplayRead(x)
    <3>1. CASE c # x
      <4>1. SameWork /\ (Awaits(c)' => Awaits(c))
        BY <1>1, <2>1, <2>5, <3>1 DEF ReplayRead, ShakeTypeOK, Awaits, Routed
      <4>2. SameSent
        BY <1>1, <2>5, <3>1, SentKept DEF ReplayRead, ShakeTypeOK
      <4> QED
        BY <1>5, <4>1, <4>2
    <3>2. CASE c = x /\ hs'[c] = "resend"
      <4>1. replay'[c] = delivery /\ UNCHANGED <<inst, pos, pel, delivery, settled>>
        BY <1>1, <2>1, <2>5, <3>2 DEF ReplayRead, ShakeTypeOK
      <4>2. inst[c] \in Inst
        BY <1>1, <2>5, <3>2 DEF ReplayRead, ShakeTypeOK, PlaceInv
      <4>3. \A e \in Event : Acked(inst[c], e)' => Sent(c, e)'
        BY <1>1, <3>2, <4>1, <4>2 DEF ConfirmedIsKept, Acked, Sent
      <4> QED
        BY <4>3 DEF Noticed
    <3>3. CASE c = x /\ hs'[c] = "unserved"
      BY <3>3 DEF Noticed
    <3> QED
      BY <1>1, <2>5, <3>1, <3>2, <3>3 DEF ReplayRead, ShakeTypeOK
  <2>6. CASE ReplaySend(x)
    <3>1. SameWork /\ (Awaits(c)' => Awaits(c))
      BY <1>1, <2>1, <2>6 DEF ReplaySend, StartClose, ShakeTypeOK, LinkTypeOK, Awaits, Routed
    <3>2. CASE c # x
      <4>1. UNCHANGED <<queue[c], hs[c], replay[c], inbox>>
        BY <1>1, <2>6, <3>2 DEF ReplaySend, Enqueue, ShakeTypeOK, QueueTypeOK
      <4>2. SameSent
        BY <2>1, <4>1, SentKept
      <4> QED
        BY <1>5, <3>1, <4>2
    <3>3. CASE c = x
      <4>1. CASE replay[c] = {} /\ UNCHANGED <<queue, inbox, settled>>
        <5>1. SameSent
          BY <4>1 DEF Sent, Queued
        <5> QED
          BY <1>5, <3>1, <5>1
      <4>2. ASSUME NEW e \in Event, replay' = [replay EXCEPT ![c] = @ \ {e}], UNCHANGED hs,
                   IF link[c] = "open" THEN Enqueue(c, e) ELSE UNCHANGED queue,
                   UNCHANGED <<link, inbox, settled>>
            PROVE  Noticed(c)'
        <5>1. CASE link[c] = "open"
          <6>1. /\ Queued(c, e)'
                /\ \A d \in Event : Queued(c, d) => Queued(c, d)'
            BY <1>1, <4>2, <5>1, SendQueues
          <6>2. \A d \in Event : d \in replay[c] => d = e \/ d \in replay'[c]
            BY <1>1, <4>2 DEF ShakeTypeOK
          <6>3. SameSent
            BY <4>2, <6>1, <6>2 DEF Sent
          <6> QED
            BY <1>5, <3>1, <6>3
        <5>2. CASE link[c] # "open"
          BY <4>2, <5>2 DEF Noticed, Routed
        <5> QED
          BY <5>1, <5>2
      <4>3. CASE link[c] = "open" /\ StartClose(c)
        <5>1. link'[c] # "open"
          BY <1>1, <4>3 DEF StartClose, LinkTypeOK
        <5> QED
          BY <5>1 DEF Noticed, Routed
      <4> QED
        BY <1>1, <2>1, <2>6, <3>3, <4>1, <4>2, <4>3 DEF ReplaySend, ShakeTypeOK
    <3> QED
      BY <3>2, <3>3
  <2> QED
    BY <1>8, <2>2, <2>3, <2>4, <2>5, <2>6 DEF HandleWS
<1> DEFINE SameConn == UNCHANGED <<settled, hub, inst, hs, replay, link, queue, inbox>>
<1>9. ASSUME SameConn, \A e \in Event : Due(c, e)' => Due(c, e) PROVE Noticed(c)'
  <2>1. SameSent /\ (Awaits(c)' => Awaits(c))
    BY <1>9 DEF Sent, Queued, Awaits, Routed
  <2> QED
    BY <1>2, <1>9, <2>1, NoticeKept
<1>10. ASSUME NEW i \in Inst, Consume(i) PROVE Noticed(c)'
  <2>1. CASE ReadGroup(i)
    <3>1. PICK last \in pos[i] + 1 .. written :
            /\ pos' = [pos EXCEPT ![i] = last]
            /\ pel' = [pel EXCEPT ![i] = @ \cup (pos[i] + 1 .. last)]
            /\ \/ Succeeds /\ todo' = [todo EXCEPT ![<<i, "run">>] = pos[i] + 1 .. last]
               \/ Fails /\ UNCHANGED todo
      BY <2>1 DEF ReadGroup
    <3>2. SameConn /\ UNCHANGED wpc /\ Idle(<<i, "run">>)
      BY <2>1 DEF ReadGroup
    <3>3. pos[i] \in Nat /\ last \in Nat /\ last > pos[i]
      BY <1>1, <3>1 DEF RedisTypeOK
    <3>4. ASSUME NEW j, NEW e \in Event, Acked(j, e)' PROVE Acked(j, e)
      BY <1>1, <3>1, <3>3, <3>4, GatewayAssumption DEF Acked, RedisTypeOK, Event
    <3>5. ASSUME NEW w \in Worker, todo[w] # {} PROVE todo'[w] = todo[w]
      BY <1>1, <3>1, <3>2, <3>5 DEF Idle, WorkerTypeOK
    <3>6. \A j : \A e \in Event : Delivering(j, e) => Delivering(j, e)'
      BY <3>2, <3>5 DEF Delivering, Handling
    <3> QED
      BY <1>9, <3>2, <3>4, <3>6 DEF Due
  <2>2. CASE Claim(i)
    <3>1. SameConn /\ UNCHANGED <<pos, pel, wpc>> /\ Idle(<<i, "claim">>)
      BY <2>2 DEF Claim
    <3>2. ASSUME NEW w \in Worker, todo[w] # {} PROVE todo'[w] = todo[w]
      BY <1>1, <2>2, <3>2 DEF Claim, Idle, WorkerTypeOK
    <3>3. \A j : \A e \in Event : Delivering(j, e) => Delivering(j, e)'
      BY <3>1, <3>2 DEF Delivering, Handling
    <3> QED
      BY <1>9, <3>1, <3>3 DEF Due, Acked
  <2>3. ASSUME NEW w \in Worker, NEW e \in Event, Save(w, e) PROVE Noticed(c)'
    <3>1. SameConn /\ UNCHANGED <<pos, pel>> /\ wpc[w] = "save"
      BY <2>3 DEF Save
    <3>2. \A v \in Worker : v # w => todo'[v] = todo[v] /\ wpc'[v] = wpc[v]
      BY <1>1, <2>3 DEF Save, WorkerTypeOK
    <3>3. \A j : \A d \in Event : Delivering(j, d) => Delivering(j, d)'
      BY <3>1, <3>2 DEF Delivering, Handling
    <3> QED
      BY <1>9, <3>1, <3>3 DEF Due, Acked
  <2>4. ASSUME NEW w \in Worker, NEW e \in Event, Ack(w, e) PROVE Noticed(c)'
    <3>1. /\ SameConn /\ UNCHANGED <<pos, todo>>
          /\ wpc[w] = "ack" /\ Handling(w, e)
          /\ wpc' = [wpc EXCEPT ![w] = "deliver"]
          /\ pel' \in {pel, [pel EXCEPT ![w[1]] = @ \ {e}]}
      BY <2>4 DEF Ack
    <3>2. \A j : \A d \in Event : Delivering(j, d) => Delivering(j, d)'
      BY <1>1, <3>1 DEF Delivering, Handling, WorkerTypeOK
    <3>3. Delivering(w[1], e)'
      BY <1>1, <3>1 DEF Delivering, Handling, WorkerTypeOK
    <3>4. CASE hs[c] = "new"
      BY <3>1, <3>4 DEF Noticed
    <3>5. CASE hs[c] # "new"
      <4>1. inst[c] \in Inst
        BY <1>1, <3>5 DEF PlaceInv, ShakeTypeOK
      <4>2. \A d \in Event : Acked(inst[c], d)' => Acked(inst[c], d) \/ (inst[c] = w[1] /\ d = e)
        BY <1>1, <3>1, <4>1 DEF Acked, RedisTypeOK
      <4>3. \A d \in Event : Due(c, d)' => Due(c, d)
        BY <3>1, <3>2, <3>3, <4>2 DEF Due
      <4> QED
        BY <1>9, <3>1, <4>3
    <3> QED
      BY <3>4, <3>5
  <2>5. ASSUME NEW w \in Worker, NEW e \in Event, Deliver(w, e) PROVE Noticed(c)'
    <3>1. /\ UNCHANGED <<settled, pos, pel, hub, inst, hs, replay, inbox>>
          /\ wpc[w] = "deliver" /\ Handling(w, e)
      BY <2>5 DEF Deliver
    <3>2. \A v \in Worker : v # w => todo'[v] = todo[v] /\ wpc'[v] = wpc[v]
      BY <1>1, <2>5 DEF Deliver, WorkerTypeOK
    <3>3. Awaits(c)' => Awaits(c)
      BY <1>1, <2>5 DEF Deliver, StartClose, LinkTypeOK, Awaits, Routed
    <3>4. ASSUME NEW d \in Event, Due(c, d)', ~Due(c, d) PROVE d = e /\ inst[c] = w[1]
      <4>1. Acked(inst[c], d) /\ Delivering(inst[c], d)
        BY <3>1, <3>4 DEF Due, Acked
      <4>2. PICK v \in Worker : v[1] = inst[c] /\ wpc[v] = "deliver" /\ Handling(v, d)
        BY <4>1 DEF Delivering
      <4>3. v = w
        BY <3>1, <3>2, <3>4, <4>2 DEF Due, Delivering, Handling
      <4> QED
        BY <3>1, <4>2, <4>3, HandlesOne
    <3>5. CASE inst[c] = w[1] /\ Awaits(c)'
      <4>1. Enqueue(c, e)
        <5>1. hub[w[1]] = c /\ link[c] = "open" /\ link'[c] = "open"
          BY <3>1, <3>3, <3>5 DEF Awaits, Routed
        <5>2. ~StartClose(c)
          BY <1>1, <5>1 DEF StartClose, LinkTypeOK
        <5> QED
          BY <2>5, <5>1, <5>2, GatewayAssumption DEF Deliver, Reachable
      <4>2. Queued(c, e)' /\ \A d \in Event : Queued(c, d) => Queued(c, d)'
        BY <1>1, <4>1, SendQueues
      <4>3. Sent(c, e)' /\ \A d \in Event : Sent(c, d) => Sent(c, d)'
        BY <3>1, <4>2 DEF Sent
      <4> QED
        BY <1>2, <3>1, <3>3, <3>4, <4>3 DEF Noticed, Awaits, Due
    <3>6. CASE inst[c] # w[1]
      <4>1. Awaits(c)' => UNCHANGED queue[c]
        <5>1. CASE Reachable(w[1]) /\ Enqueue(hub[w[1]], e)
          <6>1. hub[w[1]] \in Conn /\ inst[hub[w[1]]] = w[1]
            BY <1>1, <5>1 DEF Reachable, ShakeTypeOK, PlaceInv, Worker
          <6> QED
            BY <1>1, <3>6, <5>1, <6>1, SendQueues
        <5>2. CASE UNCHANGED queue
          BY <5>2
        <5> QED
          BY <2>5, <5>1, <5>2 DEF Deliver
      <4>2. Awaits(c)' => \A d \in Event : Sent(c, d) => Sent(c, d)'
        BY <3>1, <4>1 DEF Sent, Queued
      <4> QED
        BY <1>2, <3>3, <3>4, <3>6, <4>2, NoticeKept
    <3> QED
      BY <3>5, <3>6 DEF Noticed, Awaits
  <2> QED
    BY <1>10, <2>1, <2>2, <2>3, <2>4, <2>5 DEF Consume
<1>11. ASSUME NEW i \in Inst, Crash(i) PROVE Noticed(c)'
  <2>1. CASE inst[c] = i
    BY <1>11, <2>1 DEF Crash, Noticed, Routed
  <2>2. CASE inst[c] # i
    <3>1. /\ UNCHANGED <<pos, pel, settled, inst, inbox, hs[c], link[c], queue[c], replay[c]>>
          /\ hub' = [hub EXCEPT ![i] = NoConn]
          /\ \A w \in Worker : w[1] # i => todo'[w] = todo[w] /\ wpc'[w] = wpc[w]
      BY <1>11, <2>2 DEF Crash
    <3>2. Awaits(c)' => Awaits(c)
      BY <1>1, <2>2, <3>1 DEF Awaits, Routed, ShakeTypeOK
    <3>3. \A e \in Event : Delivering(inst[c], e) => Delivering(inst[c], e)'
      BY <2>2, <3>1 DEF Delivering, Handling
    <3>4. \A e \in Event : Due(c, e)' => Due(c, e)
      BY <3>1, <3>3 DEF Due, Acked
    <3>5. SameSent
      BY <3>1, SentKept
    <3> QED
      BY <1>2, <3>2, <3>4, <3>5, NoticeKept
  <2> QED
    BY <2>1, <2>2
<1> QED
  BY <1>6, <1>7, <1>8, <1>10, <1>11 DEF GateNext

-----------------------------------------------------------------------------
\* The theorems.

\* GateInv is an invariant.
THEOREM GateInvariance == GateSpec => []GateInv
<1>1. GateInit => GateInv
  BY GateInitInv
<1>2. GateInv /\ [GateNext]_gateVars => GateInv'
  BY TypeNext, WorkNext, PlaceNext, NoticeNext DEF GateInv
<1> QED
  BY <1>1, <1>2, PTL DEF GateSpec

\* Every variable keeps its type, and no write queue overflows.
THEOREM GatewayTypeCorrect == GateSpec => []GatewayTypeOK
<1>1. GateInv => GatewayTypeOK
  BY DEF GateInv
<1> QED
  BY <1>1, GateInvariance, PTL

\* An event that a group has acknowledged is in the delivery hash until a client
\* acks it or the hash expires: nothing is lost between the stream and the hash,
\* whatever fails or crashes, with two goroutines handling the same message.
THEOREM NothingIsLost == GateSpec => []ConfirmedIsKept
<1>1. GateInv => ConfirmedIsKept
  BY DEF GateInv
<1> QED
  BY <1>1, GateInvariance, PTL

\* An open connection is the one its instance delivers to, or its successor is
\* about to close it.
THEOREM OpenConnectionsAreRouted == GateSpec => []OpenIsRouted
<1>1. GateInv => OpenIsRouted
  BY DEF GateInv
<1> QED
  BY <1>1, GateInvariance, PTL

\* The connection its instance delivers to has been sent every event that the
\* instance is done with, in whatever order it registered, was replaced, and the
\* event was saved, acknowledged, claimed again and delivered.
THEOREM NoticeReachesConnection == GateSpec => []NoticeReaches
<1>1. GateInv => NoticeReaches
  <2> SUFFICES ASSUME GateInv, NEW c \in Conn, NEW e \in Event,
                      Routed(c), hs[c] = "served",
                      e <= pos[inst[c]], e \notin pel[inst[c]],
                      \A w \in Worker : w[1] = inst[c] => e \notin todo[w]
               PROVE  (\E k \in DOMAIN queue[c] : queue[c][k] = e) \/ e \in inbox[c] \cup settled
    BY DEF NoticeReaches
  <2>1. Acked(inst[c], e) /\ ~Delivering(inst[c], e)
    BY DEF Acked, Delivering, Handling
  <2>2. Sent(c, e)
    BY <2>1 DEF GateInv, NoticeInv, Noticed
  <2> QED
    BY <2>2 DEF Sent, Queued
<1> QED
  BY <1>1, GateInvariance, PTL

=============================================================================
