------------------------------ MODULE Gateway ------------------------------
(***************************************************************************)
(* The WebSocket gateway (src/ws_gateway): it tells the connections of a   *)
(* session that the session has ended, and closes them.                    *)
(*                                                                         *)
(* The SSO writes the events to a Redis stream.  Every gateway instance    *)
(* consumes the stream with a consumer group of its own, saves an event in *)
(* the delivery hash of its session, acknowledges it, and sends it to the  *)
(* session's connection if it has one.  A new connection is sent what the  *)
(* hash holds.  The client's ack removes an event from the hash.           *)
(*                                                                         *)
(* Hub entries, delivery hash and events all belong to one session, so one *)
(* session is modelled: Conn are its connections (tabs, reloads,           *)
(* reconnects), each used once.                                            *)
(*                                                                         *)
(* Simplifications:                                                        *)
(*  - all events are session_replaced or session_terminated events, the    *)
(*    only types there are, and well formed;                               *)
(*  - the introspection call says "active" until the first event about the *)
(*    session is in the stream (SsoAccess: NoAcceptAfterEnd);              *)
(*  - a hub look-up and the send that follows it are one step: in between  *)
(*    the connection found can only be closed, and a send that finds its   *)
(*    connection closed is one of the cases of the step;                   *)
(*  - a graceful shutdown is the end of its connections (Hangup), then the *)
(*    exit of the process (Crash);                                         *)
(*  - the limit on the number of connections is left out, and the presence *)
(*    key, which only decides what is logged.                              *)
(***************************************************************************)
EXTENDS Naturals, Sequences, FiniteSets

CONSTANTS
  Inst,        \* gateway instances
  Conn,        \* connections
  NoInst,      \* a connection that was not attempted yet
  NoConn,      \* an absent hub entry
  QueueSize,   \* write_queue_size
  Faults,      \* what may go wrong: see the actions
  MaxEvents,   \* bound on the events about the session
  MaxFaults    \* bound on the number of faults

ASSUME GatewayAssumption ==
  /\ NoInst \notin Inst
  /\ NoConn \notin Conn
  /\ QueueSize \in Nat \ {0}
  /\ Faults \subseteq {"fail", "crash", "expiry"}
  /\ MaxEvents \in Nat \ {0}
  /\ MaxFaults \in Nat

VARIABLES
  written,     \* number of events about the session in the stream
  delivery,    \* eventIds in sso:delivery:{sid}
  settled,     \* history: events that left it by an ack or by expiry
  pos,         \* last-delivered-id of each instance's consumer group
  pel,         \* pending entries list of each group
  todo,        \* the messages each consuming goroutine has still to handle
  wpc,         \* what it does next with the first of them
  hub,         \* the session's entry in the hub of each instance
  inst,        \* the instance of each connection
  hs,          \* handshake: the call HandleWS makes next
  prev,        \* the connection it replaced in the hub
  replay,      \* the pending events it has still to send
  link,        \* how far Close has got
  queue,       \* the write queue
  grace,       \* connections that closeAfterGrace is waiting to close
  inbox,       \* events each connection's client has received
  faults       \* number of faults so far

redis    == <<written, delivery, settled, pos, pel>>
workers  == <<todo, wpc>>
shake    == <<inst, hs, prev, replay>>
conns    == <<link, queue, grace, inbox>>
gateVars == <<redis, workers, hub, shake, conns, faults>>

Event == 1 .. MaxEvents

\* The goroutines Run and claimLoop of each instance.
Worker == Inst \X {"run", "claim"}

Handshake == {"new", "register", "displace", "replay", "resend",
              "served", "unserved", "lost"}

Link == {"none", "open", "closing", "closed"}

RedisTypeOK ==
  /\ written \in 0 .. MaxEvents
  /\ delivery \in SUBSET Event
  /\ settled \in SUBSET Event
  /\ pos \in [Inst -> 0 .. MaxEvents]
  /\ pel \in [Inst -> SUBSET Event]
  /\ faults \in 0 .. MaxFaults

WorkerTypeOK ==
  /\ todo \in [Worker -> SUBSET Event]
  /\ wpc \in [Worker -> {"save", "ack", "deliver"}]

ShakeTypeOK ==
  /\ hub \in [Inst -> Conn \cup {NoConn}]
  /\ inst \in [Conn -> Inst \cup {NoInst}]
  /\ hs \in [Conn -> Handshake]
  /\ prev \in [Conn -> Conn \cup {NoConn}]
  /\ replay \in [Conn -> SUBSET Event]

LinkTypeOK ==
  /\ link \in [Conn -> Link]
  /\ grace \in SUBSET Conn
  /\ inbox \in [Conn -> SUBSET Event]

QueueTypeOK ==
  /\ queue \in [Conn -> Seq(Event)]
  /\ \A c \in Conn : Len(queue[c]) <= QueueSize

\* Every variable holds a value of its type; no write queue overflows, whoever
\* sends (connection.go:116).
GatewayTypeOK ==
  RedisTypeOK /\ WorkerTypeOK /\ ShakeTypeOK /\ LinkTypeOK /\ QueueTypeOK

GateInit ==
  /\ written = 0
  /\ delivery = {}
  /\ settled = {}
  /\ pos = [i \in Inst |-> 0]
  /\ pel = [i \in Inst |-> {}]
  /\ todo = [w \in Worker |-> {}]
  /\ wpc = [w \in Worker |-> "save"]
  /\ hub = [i \in Inst |-> NoConn]
  /\ inst = [c \in Conn |-> NoInst]
  /\ hs = [c \in Conn |-> "new"]
  /\ prev = [c \in Conn |-> NoConn]
  /\ replay = [c \in Conn |-> {}]
  /\ link = [c \in Conn |-> "none"]
  /\ queue = [c \in Conn |-> <<>>]
  /\ grace = {}
  /\ inbox = [c \in Conn |-> {}]
  /\ faults = 0

May(fault) == fault \in Faults /\ faults < MaxFaults

\* A call that may fail, before or after Redis did what it asks: faults counts
\* the failures.
Succeeds == UNCHANGED faults
Fails    == May("fail") /\ faults' = faults + 1

\* The scripts of the SSO write the event in the step that ends the session.
SessionEnds ==
  /\ written < MaxEvents
  /\ written' = written + 1
  /\ UNCHANGED <<delivery, settled, pos, pel, workers, hub, shake, conns, faults>>

-----------------------------------------------------------------------------
\* Connections.

\* The whole of Connection.Send but its result.
Enqueue(c, e) == queue' = [queue EXCEPT ![c] = Append(@, e)]

Full(c) == Len(queue[c]) = QueueSize

\* Close runs once, in two steps: the socket, then the hub entry. Nobody reads
\* the queue any more.
StartClose(c) == link' = [link EXCEPT ![c] = IF @ = "open" THEN "closing" ELSE @]

\* Mutant: the entry is deleted whichever connection it names.
UnregisterAny(c) ==
  /\ link[c] = "closing"
  /\ link' = [link EXCEPT ![c] = "closed"]
  /\ hub' = [hub EXCEPT ![inst[c]] = NoConn]
  /\ queue' = [queue EXCEPT ![c] = <<>>]
  /\ UNCHANGED <<redis, workers, shake, grace, inbox, faults>>

Unregister(c) ==
  /\ link[c] = "closing"
  /\ link' = [link EXCEPT ![c] = "closed"]
  /\ hub' = [hub EXCEPT ![inst[c]] = IF @ = c THEN NoConn ELSE @]
  /\ queue' = [queue EXCEPT ![c] = <<>>]
  /\ UNCHANGED <<redis, workers, shake, grace, inbox, faults>>

Running(c) == hs[c] \in {"replay", "resend", "served", "unserved"}

\* The read loop ends, or a write or a pong is late: the client left or is stuck.
Hangup(c) ==
  /\ Running(c) /\ link[c] = "open"
  /\ StartClose(c)
  /\ UNCHANGED <<redis, workers, hub, shake, queue, grace, inbox, faults>>

WriteMessage(c) ==
  /\ Running(c) /\ link[c] = "open" /\ queue[c] # <<>>
  /\ inbox' = [inbox EXCEPT ![c] = @ \cup {Head(queue[c])}]
  /\ queue' = [queue EXCEPT ![c] = Tail(@)]
  /\ UNCHANGED <<redis, workers, hub, shake, link, grace, faults>>

\* The read loop may have read the ack before the connection was closed.
ClientAck(c, e) ==
  /\ Running(c) /\ e \in inbox[c] /\ e \in delivery
  /\ delivery' = delivery \ {e}
  /\ settled' = settled \cup {e}
  /\ UNCHANGED <<written, pos, pel, workers, hub, shake, conns, faults>>

CloseAfterGrace(c) ==
  /\ c \in grace
  /\ grace' = grace \ {c}
  /\ StartClose(c)
  /\ UNCHANGED <<redis, workers, hub, shake, queue, inbox, faults>>

-----------------------------------------------------------------------------
\* HandleWS.

\* The SSO says that the session is active.
Introspect(c, i) ==
  /\ hs[c] = "new"
  /\ written = 0
  /\ inst' = [inst EXCEPT ![c] = i]
  /\ hs' = [hs EXCEPT ![c] = "register"]
  /\ UNCHANGED <<redis, workers, hub, prev, replay, conns, faults>>

RegisterConn(c) ==
  /\ hs[c] = "register"
  /\ hub' = [hub EXCEPT ![inst[c]] = c]
  /\ prev' = [prev EXCEPT ![c] = hub[inst[c]]]
  /\ hs' = [hs EXCEPT ![c] = IF hub[inst[c]] = NoConn THEN "replay" ELSE "displace"]
  /\ link' = [link EXCEPT ![c] = "open"]
  /\ UNCHANGED <<redis, workers, inst, replay, queue, grace, inbox, faults>>

\* Mutant: a connection that replaced another is not sent what is pending.
DisplaceServes(c) ==
  /\ hs[c] = "displace"
  /\ \/ link[prev[c]] = "open" /\ StartClose(prev[c]) /\ UNCHANGED <<hs, prev>>
     \/ /\ link[prev[c]] = "closed"
        /\ hs' = [hs EXCEPT ![c] = "served"]
        /\ prev' = [prev EXCEPT ![c] = NoConn]
        /\ UNCHANGED link
  /\ UNCHANGED <<redis, workers, hub, inst, replay, queue, grace, inbox, faults>>

\* previous.Close, which waits for a Close that is already running.
Displace(c) ==
  /\ hs[c] = "displace"
  /\ \/ link[prev[c]] = "open" /\ StartClose(prev[c]) /\ UNCHANGED <<hs, prev>>
     \/ /\ link[prev[c]] = "closed"
        /\ hs' = [hs EXCEPT ![c] = "replay"]
        /\ prev' = [prev EXCEPT ![c] = NoConn]
        /\ UNCHANGED link
  /\ UNCHANGED <<redis, workers, hub, inst, replay, queue, grace, inbox, faults>>

ReplayRead(c) ==
  /\ hs[c] = "replay"
  /\ \/ Succeeds /\ replay' = [replay EXCEPT ![c] = delivery] /\ hs' = [hs EXCEPT ![c] = "resend"]
     \/ Fails /\ UNCHANGED replay /\ hs' = [hs EXCEPT ![c] = "unserved"]
  /\ UNCHANGED <<redis, workers, hub, inst, prev, conns>>

\* Mutant: a replay does not stop at a full queue.
ReplaySendUnbounded(c) ==
  /\ hs[c] = "resend"
  /\ \/ /\ replay[c] = {}
        /\ hs' = [hs EXCEPT ![c] = "served"]
        /\ UNCHANGED <<replay, queue>>
     \/ \E e \in replay[c] :
          /\ IF link[c] = "open" THEN Enqueue(c, e) ELSE UNCHANGED queue
          /\ replay' = [replay EXCEPT ![c] = @ \ {e}]
          /\ UNCHANGED hs
  /\ UNCHANGED <<redis, workers, hub, inst, prev, link, grace, inbox, faults>>

\* Only a full queue ends the loop: a closed connection is sent the rest too.
ReplaySend(c) ==
  /\ hs[c] = "resend"
  /\ \/ /\ replay[c] = {}
        /\ hs' = [hs EXCEPT ![c] = "served"]
        /\ UNCHANGED <<replay, link, queue>>
     \/ \E e \in replay[c] :
          \/ /\ link[c] = "open" /\ Full(c)
             /\ StartClose(c)
             /\ hs' = [hs EXCEPT ![c] = "served"]
             /\ replay' = [replay EXCEPT ![c] = {}]
             /\ UNCHANGED queue
          \/ /\ ~(link[c] = "open" /\ Full(c))
             /\ IF link[c] = "open" THEN Enqueue(c, e) ELSE UNCHANGED queue
             /\ replay' = [replay EXCEPT ![c] = @ \ {e}]
             /\ UNCHANGED <<hs, link>>
  /\ UNCHANGED <<redis, workers, hub, inst, prev, grace, inbox, faults>>

-----------------------------------------------------------------------------
\* The consumers.

Idle(w) == todo[w] = {}

\* XREADGROUP: a batch of new messages enters the pending entries list. If the
\* reply is lost, nobody handles them until they are claimed.
ReadGroup(i) ==
  /\ Idle(<<i, "run">>)
  /\ \E last \in pos[i] + 1 .. written :
       /\ pos' = [pos EXCEPT ![i] = last]
       /\ pel' = [pel EXCEPT ![i] = @ \cup (pos[i] + 1 .. last)]
       /\ \/ Succeeds /\ todo' = [todo EXCEPT ![<<i, "run">>] = pos[i] + 1 .. last]
          \/ Fails /\ UNCHANGED todo
  /\ UNCHANGED <<written, delivery, settled, wpc, hub, shake, conns>>

\* Mutant: only messages of other consumers are claimed, and the group has none.
ClaimOthers(i) ==
  /\ Idle(<<i, "claim">>)
  /\ FALSE
  /\ UNCHANGED gateVars

\* XAUTOCLAIM: messages that have not been acknowledged for long enough; the
\* group has one consumer, so they are its own.
Claim(i) ==
  /\ Idle(<<i, "claim">>)
  /\ pel[i] # {}
  /\ \E batch \in (SUBSET pel[i]) \ {{}} : todo' = [todo EXCEPT ![<<i, "claim">>] = batch]
  /\ UNCHANGED <<redis, wpc, hub, shake, conns, faults>>

\* The message a goroutine is handling: the oldest of its batch.
Handling(w, e) == e \in todo[w] /\ \A x \in todo[w] : e <= x

\* Mutant: the result of Save is not looked at.
SaveIgnored(w, e) ==
  /\ wpc[w] = "save" /\ Handling(w, e)
  /\ wpc' = [wpc EXCEPT ![w] = "ack"]
  /\ \/ Succeeds /\ delivery' = delivery \cup {e}
     \/ Fails /\ UNCHANGED delivery
  /\ UNCHANGED <<written, settled, pos, pel, todo, hub, shake, conns>>

Save(w, e) ==
  /\ wpc[w] = "save" /\ Handling(w, e)
  /\ \/ /\ Succeeds
        /\ delivery' = delivery \cup {e}
        /\ wpc' = [wpc EXCEPT ![w] = "ack"]
        /\ UNCHANGED todo
     \/ /\ Fails
        /\ delivery' \in {delivery, delivery \cup {e}}
        /\ todo' = [todo EXCEPT ![w] = @ \ {e}]
        /\ UNCHANGED wpc
  /\ UNCHANGED <<written, settled, pos, pel, hub, shake, conns>>

\* XACK; its error is logged and the message is delivered all the same.
Ack(w, e) ==
  /\ wpc[w] = "ack" /\ Handling(w, e)
  /\ wpc' = [wpc EXCEPT ![w] = "deliver"]
  /\ \/ Succeeds /\ pel' = [pel EXCEPT ![w[1]] = @ \ {e}]
     \/ Fails /\ pel' \in {pel, [pel EXCEPT ![w[1]] = @ \ {e}]}
  /\ UNCHANGED <<written, delivery, settled, pos, todo, hub, shake, conns>>

\* The session has a connection in the hub, and Close has not begun.
Reachable(i) == hub[i] # NoConn /\ link[hub[i]] = "open"

Deliver(w, e) ==
  /\ wpc[w] = "deliver" /\ Handling(w, e)
  /\ wpc' = [wpc EXCEPT ![w] = "save"]
  /\ todo' = [todo EXCEPT ![w] = @ \ {e}]
  /\ LET c == hub[w[1]] IN
       \/ /\ ~Reachable(w[1])
          /\ UNCHANGED <<link, queue, grace>>
       \/ /\ Reachable(w[1]) /\ Full(c)
          /\ StartClose(c)
          /\ UNCHANGED <<queue, grace>>
       \/ /\ Reachable(w[1]) /\ ~Full(c)
          /\ Enqueue(c, e)
          /\ grace' = grace \cup {c}
          /\ UNCHANGED link
  /\ UNCHANGED <<redis, hub, shake, inbox, faults>>

-----------------------------------------------------------------------------
\* Faults.

\* The process dies with its goroutines and sockets and is started again.
Crash(i) ==
  /\ May("crash") /\ faults' = faults + 1
  /\ hub' = [hub EXCEPT ![i] = NoConn]
  /\ todo' = [w \in Worker |-> IF w[1] = i THEN {} ELSE todo[w]]
  /\ wpc' = [w \in Worker |-> IF w[1] = i THEN "save" ELSE wpc[w]]
  /\ hs' = [c \in Conn |-> IF inst[c] = i THEN "lost" ELSE hs[c]]
  /\ prev' = [c \in Conn |-> IF inst[c] = i THEN NoConn ELSE prev[c]]
  /\ replay' = [c \in Conn |-> IF inst[c] = i THEN {} ELSE replay[c]]
  /\ link' = [c \in Conn |-> IF inst[c] = i /\ link[c] # "none" THEN "closed" ELSE link[c]]
  /\ queue' = [c \in Conn |-> IF inst[c] = i THEN <<>> ELSE queue[c]]
  /\ grace' = {c \in grace : inst[c] # i}
  /\ UNCHANGED <<redis, inst, inbox>>

\* The TTL of the delivery hash, which every save renews.
DeliveryExpires ==
  /\ "expiry" \in Faults
  /\ delivery # {}
  /\ delivery' = {}
  /\ settled' = settled \cup delivery
  /\ UNCHANGED <<written, pos, pel, workers, hub, shake, conns, faults>>

-----------------------------------------------------------------------------

Connection(c) ==
  \/ Unregister(c)
  \/ Hangup(c) \/ WriteMessage(c) \/ CloseAfterGrace(c)
  \/ \E e \in Event : ClientAck(c, e)

HandleWS(c) ==
  \/ \E i \in Inst : Introspect(c, i)
  \/ RegisterConn(c) \/ Displace(c) \/ ReplayRead(c) \/ ReplaySend(c)

Consume(i) ==
  \/ ReadGroup(i) \/ Claim(i)
  \/ \E w \in Worker, e \in Event : w[1] = i /\ (Save(w, e) \/ Ack(w, e) \/ Deliver(w, e))

GateNext ==
  \/ SessionEnds \/ DeliveryExpires
  \/ \E c \in Conn : Connection(c) \/ HandleWS(c)
  \/ \E i \in Inst : Consume(i) \/ Crash(i)

GateSpec == GateInit /\ [][GateNext]_gateVars

\* Goroutines run on, timers fire and keys expire. Nothing is assumed of
\* clients, of the SSO, or of the write loop of a slow connection.
GateFairness ==
  /\ \A c \in Conn :
       /\ WF_gateVars(Unregister(c))
       /\ WF_gateVars(CloseAfterGrace(c))
       /\ WF_gateVars(RegisterConn(c) \/ Displace(c) \/ ReplayRead(c) \/ ReplaySend(c))
  /\ \A i \in Inst :
       /\ WF_gateVars(ReadGroup(i))
       /\ WF_gateVars(Claim(i))
       /\ \A kind \in {"run", "claim"} :
            WF_gateVars(\E e \in Event : LET w == <<i, kind>> IN Save(w, e) \/ Ack(w, e) \/ Deliver(w, e))

FairGateSpec == GateSpec /\ GateFairness

-----------------------------------------------------------------------------
\* Properties.

\* The connection that the consumer of its instance finds.
Routed(c) == link[c] = "open" /\ hub[inst[c]] = c

\* An event that a group has acknowledged is still in the delivery hash, unless
\* a client acked it or the hash expired (consumer.go:7).
ConfirmedIsKept ==
  \A i \in Inst, e \in Event : e <= pos[i] /\ e \notin pel[i] => e \in delivery \cup settled

\* The connection the consumer would find is the open one: an open connection
\* is missing from its hub only while the one that took its place is about to
\* close it (hub.go:45).
OpenIsRouted ==
  \A c \in Conn : link[c] = "open" =>
    Routed(c) \/ \E d \in Conn : hs[d] = "displace" /\ prev[d] = c

\* At least once: the routed connection has been sent every event that its
\* instance is done with, from the stream or from the hash, whichever of
\* registration, save and delivery came first; unless a client of the session
\* had acked the event, or Redis failed the read of the hash.
NoticeReaches ==
  \A c \in Conn, e \in Event :
    /\ Routed(c) /\ hs[c] = "served"
    /\ e <= pos[inst[c]] /\ e \notin pel[inst[c]]
    /\ \A w \in Worker : w[1] = inst[c] => e \notin todo[w]
    => (\E k \in DOMAIN queue[c] : queue[c][k] = e) \/ e \in inbox[c] \cup settled

\* A connection that was in the hub when an event about its session reached
\* its instance is closed in the end, whatever its client does.
EndClosesConnection ==
  \A c \in Conn :
    (Routed(c) /\ pos[inst[c]] < written) ~> link[c] # "open"

\* consumer.go:213: no connection stays open after its session has ended, even
\* if the client ignores the event.
NoneOutlivesSession == \A c \in Conn : (link[c] = "open" /\ written > 0) ~> link[c] # "open"

=============================================================================
