----------------------------- MODULE EventMesh -----------------------------
(***************************************************************************)
(* Nodes that exchange bus events through the durable broker: event_mesh.py *)
(* (LocalEventMesh over one EventBus, as build_event_mesh makes it),       *)
(* event_bus.py and the SQLite tables of event_mesh_broker.py.             *)
(*                                                                         *)
(* A node is a process.  Its threads publish on the bus or ingest what the *)
(* broker holds (mesh.poll()); a handler that publishes while an event is  *)
(* being emitted is one more publisher, running while the ingesting thread *)
(* waits for it.  Each step is one table transaction or the code up to the *)
(* next access to something threads share.                                 *)
(*                                                                         *)
(* Data abstraction: an event is its number in the order of publication;   *)
(* topics, payloads, heartbeats and peers are left out; rows are numbered  *)
(* in created_at order.                                                    *)
(***************************************************************************)
EXTENDS Integers, Sequences, FiniteSets

CONSTANTS
  Nodes,
  Publishers,     \* threads that call publish()
  Ingesters,      \* threads that call poll()
  NodeOf,         \* the node of each thread
  Limit,          \* poll(limit)
  SeenLimit,      \* 5000: ids remembered before the oldest half is dropped
  MaxEvents,      \* bound: events published
  MaxFaults       \* bound: crashes and failing transactions

Threads == Publishers \cup Ingesters

ASSUME ThreadsAssumption ==
  NodeOf \in [Threads -> Nodes] /\ Publishers \cap Ingesters = {}
ASSUME MeshBounds ==
  Limit \in Nat \ {0} /\ SeenLimit \in Nat \ {0} /\ MaxEvents \in Nat /\ MaxFaults \in Nat

VARIABLES
  origin,         \* the node of each event published so far
  rows,           \* mesh_messages: event ids in created_at order
  acked,          \* mesh_acks: node -> event ids
  seen,           \* node -> _seen
  forwarders,     \* node -> how often the forwarder is subscribed to "*"
  thread,         \* thread -> program counter, rows drained, event in hand
  handled,        \* history: node -> events its handlers got in this life
  received,       \* history: node -> events its handlers ever got
  faults

vars == <<origin, rows, acked, seen, forwarders, thread, handled, received, faults>>

Ids == 1..Len(origin)
InHand(label, batch, e) == [pc |-> label, batch |-> batch, event |-> e]
Idle == InHand("idle", {}, 0)
ThreadState ==
  [pc : {"idle", "next", "remember", "detach", "emit", "attach", "ack", "send"},
   batch : SUBSET Nat, event : Nat]

\* Types; ids in use are those of published events.
TypeOK ==
  /\ origin \in Seq(Nodes)
  /\ rows \in Seq(Ids)
  /\ acked \in [Nodes -> SUBSET Ids]
  /\ seen \in [Nodes -> SUBSET Ids]
  /\ forwarders \in [Nodes -> Nat]
  /\ thread \in [Threads -> ThreadState]
  /\ \A t \in Threads : thread[t].pc \notin {"idle", "next"} => thread[t].event \in Ids
  /\ handled \in [Nodes -> SUBSET Ids]
  /\ received \in [Nodes -> SUBSET Ids]
  /\ faults \in Nat

At(t, label) == thread[t].pc = label
Goto(t, label) == thread' = [thread EXCEPT ![t].pc = label]
Fault == faults < MaxFaults /\ faults' = faults + 1

\* The handlers of node n get event e.
Handle(n, e) ==
  /\ handled' = [handled EXCEPT ![n] = @ \cup {e}]
  /\ received' = [received EXCEPT ![n] = @ \cup {e}]

-----------------------------------------------------------------------------
(* Slips a maintainer could make in the definitions that follow.           *)

\* The ids are never remembered.
SlipForgets(n, e, now) == now = seen[n]

\* drain_pending without origin_node != ?.
SlipOwnToo(n) == {i \in DOMAIN rows : rows[i] \notin acked[n]}

\* LIMIT applied before the acked rows are taken out.
SlipFirstRows(n) ==
  {i \in DOMAIN rows : i <= Limit /\ origin[rows[i]] # n /\ rows[i] \notin acked[n]}

\* poll() acks each event before it ingests it.
SlipAckFirst(t) ==
  LET n == NodeOf[t] IN
  /\ At(t, "remember")
  /\ acked' = [acked EXCEPT ![n] = @ \cup {thread[t].event}]
  /\ seen' = [seen EXCEPT ![n] = @ \cup {thread[t].event}]
  /\ Goto(t, "detach")
  /\ UNCHANGED <<origin, rows, forwarders, handled, received, faults>>

\* While another thread polls, the forwarder is left for that one to subscribe.
SlipLeftToOther(t) ==
  LET others == {s \in Ingesters \ {t} : NodeOf[s] = NodeOf[t] /\ ~At(s, "idle")} IN
  /\ At(t, "attach")
  /\ forwarders' = IF others # {} THEN forwarders
                   ELSE [forwarders EXCEPT ![NodeOf[t]] = @ + 1]
  /\ Goto(t, "ack")
  /\ UNCHANGED <<origin, rows, acked, seen, handled, received, faults>>

\* The event in hand is taken for a row number.
SlipRowNumber(t) ==
  \E i \in thread[t].batch :
    /\ At(t, "next")
    /\ thread' = [thread EXCEPT ![t] =
                    InHand("remember", thread[t].batch \ {i}, i + 1)]
    /\ UNCHANGED <<origin, rows, acked, seen, forwarders, handled, received, faults>>

-----------------------------------------------------------------------------
\* _seen.add(e); beyond the limit an arbitrary half of the set is kept.
Remember(n, e, now) ==
  LET all == seen[n] \cup {e} IN
  IF Cardinality(all) <= SeenLimit THEN now = all
  ELSE now \in SUBSET all /\ Cardinality(now) = SeenLimit \div 2

\* bus.publish(): the handlers run; the forwarder is among them unless an
\* ingest has unsubscribed it for the moment.
Publish(p) ==
  LET n == NodeOf[p]  e == Len(origin) + 1 IN
  /\ At(p, "idle") /\ e <= MaxEvents
  /\ origin' = Append(origin, n)
  /\ Handle(n, e)
  /\ IF forwarders[n] > 0
     THEN /\ \E now \in SUBSET (seen[n] \cup {e}) :
               Remember(n, e, now) /\ seen' = [seen EXCEPT ![n] = now]
          /\ thread' = [thread EXCEPT ![p] = InHand("send", {}, e)]
     ELSE UNCHANGED <<seen, thread>>
  /\ UNCHANGED <<rows, acked, forwarders, faults>>

\* transport.send: the insert commits, or raises and is swallowed.
Send(p) ==
  /\ At(p, "send")
  /\ \/ rows' = Append(rows, thread[p].event) /\ UNCHANGED faults
     \/ Fault /\ UNCHANGED rows
  /\ thread' = [thread EXCEPT ![p] = Idle]
  /\ UNCHANGED <<origin, acked, seen, forwarders, handled, received>>

\* drain_pending: the rows of other nodes that this one has not acked.
Pending(n) == {i \in DOMAIN rows : origin[rows[i]] # n /\ rows[i] \notin acked[n]}

\* poll(): the oldest pending rows are drained.
Drain(t) ==
  LET pending == Pending(NodeOf[t]) IN
  /\ At(t, "idle") /\ pending # {}
  /\ thread' = [thread EXCEPT ![t] =
       InHand("next", {i \in pending : Cardinality({j \in pending : j < i}) < Limit}, 0)]
  /\ UNCHANGED <<origin, rows, acked, seen, forwarders, handled, received, faults>>

\* ingest: an event already seen goes straight to its ack.
NextEvent(t) ==
  \E i \in thread[t].batch :
    /\ At(t, "next")
    /\ \A j \in thread[t].batch : i <= j
    /\ thread' = [thread EXCEPT ![t] =
         InHand(IF rows[i] \in seen[NodeOf[t]] THEN "ack" ELSE "remember",
                thread[t].batch \ {i}, rows[i])]
    /\ UNCHANGED <<origin, rows, acked, seen, forwarders, handled, received, faults>>

PollEnds(t) ==
  /\ At(t, "next") /\ thread[t].batch = {}
  /\ thread' = [thread EXCEPT ![t] = Idle]
  /\ UNCHANGED <<origin, rows, acked, seen, forwarders, handled, received, faults>>

AddSeen(t) ==
  LET n == NodeOf[t]  e == thread[t].event IN
  /\ At(t, "remember")
  /\ \E now \in SUBSET (seen[n] \cup {e}) :
       Remember(n, e, now) /\ seen' = [seen EXCEPT ![n] = now]
  /\ Goto(t, "detach")
  /\ UNCHANGED <<origin, rows, acked, forwarders, handled, received, faults>>

\* _fanout: the forwarder leaves the bus ...
Unsubscribe(t) ==
  /\ At(t, "detach")
  /\ forwarders' = [forwarders EXCEPT ![NodeOf[t]] = IF @ > 0 THEN @ - 1 ELSE 0]
  /\ Goto(t, "emit")
  /\ UNCHANGED <<origin, rows, acked, seen, handled, received, faults>>

\* ... the handlers run ...
Emit(t) ==
  /\ At(t, "emit")
  /\ Handle(NodeOf[t], thread[t].event)
  /\ Goto(t, "attach")
  /\ UNCHANGED <<origin, rows, acked, seen, forwarders, faults>>

\* ... and the forwarder comes back.
Subscribe(t) ==
  /\ At(t, "attach")
  /\ forwarders' = [forwarders EXCEPT ![NodeOf[t]] = @ + 1]
  /\ Goto(t, "ack")
  /\ UNCHANGED <<origin, rows, acked, seen, handled, received, faults>>

\* ack: the insert commits, or raises and is swallowed.
Ack(t) ==
  /\ At(t, "ack")
  /\ \/ /\ acked' = [acked EXCEPT ![NodeOf[t]] = @ \cup {thread[t].event}]
        /\ UNCHANGED faults
     \/ Fault /\ UNCHANGED acked
  /\ Goto(t, "next")
  /\ UNCHANGED <<origin, rows, seen, forwarders, handled, received>>

\* The process dies and is started again: attach() subscribes a forwarder.
Crash(n) ==
  /\ Fault
  /\ seen' = [seen EXCEPT ![n] = {}]
  /\ handled' = [handled EXCEPT ![n] = {}]
  /\ forwarders' = [forwarders EXCEPT ![n] = 1]
  /\ thread' = [t \in Threads |-> IF NodeOf[t] = n THEN Idle ELSE thread[t]]
  /\ UNCHANGED <<origin, rows, acked, received>>

Poll(t) ==
  \/ Drain(t) \/ NextEvent(t) \/ PollEnds(t) \/ AddSeen(t)
  \/ Unsubscribe(t) \/ Emit(t) \/ Subscribe(t) \/ Ack(t)

Init ==
  /\ origin = <<>> /\ rows = <<>>
  /\ acked = [n \in Nodes |-> {}]
  /\ seen = [n \in Nodes |-> {}]
  /\ forwarders = [n \in Nodes |-> 1]
  /\ thread = [t \in Threads |-> Idle]
  /\ handled = [n \in Nodes |-> {}] /\ received = [n \in Nodes |-> {}]
  /\ faults = 0

Next ==
  \/ \E p \in Publishers : Publish(p) \/ Send(p)
  \/ \E t \in Ingesters : Poll(t)
  \/ \E n \in Nodes : Crash(n)

Spec == Init /\ [][Next]_vars

\* Every node keeps polling; nothing else has to happen.  The loop belongs to
\* whoever embeds the mesh: the code has poll() and no caller of it.
FairSpec == Spec /\ \A t \in Ingesters : WF_vars(Poll(t))

-----------------------------------------------------------------------------
(* Properties.                                                             *)

\* The nodes of one ingesting thread.  Of two, one can find in _seen and ack what
\* the other has not emitted, or emit what the other has.
Sole == {n \in Nodes : \A s, t \in Ingesters : NodeOf[s] = n /\ NodeOf[t] = n => s = t}

\* An event is acked only for a node whose handlers got it, whenever the
\* process died between ingest and ack (poll_durable_transport).
AckedWasHandled == \A n \in Sole : acked[n] \subseteq received[n]

\* In one life of a process its handlers get an ingested event at most once,
\* although failing acks let the broker deliver it again and again (_fanout).
OncePerLife ==
  [][\A t \in Ingesters :
       (NodeOf[t] \in Sole /\ At(t, "emit") /\ thread'[t].pc = "attach") =>
         thread[t].event \notin handled[NodeOf[t]]]_vars

\* An event never comes back to the node that published it, not even after
\* a restart with an empty _seen (drain_pending).
NoEcho ==
  [][\A e \in Ids : e \in handled'[origin[e]] => e \in handled[origin[e]]]_vars

\* The forwarder is away from the bus only while an ingest is emitting: however
\* the ingests of the threads of a node cross, each unsubscribing what another
\* subscribed, they never leave a node that forwards nothing (_fanout).
ForwarderBack ==
  \A n \in Nodes :
    forwarders[n] > 0 \/ \E t \in Ingesters : NodeOf[t] = n /\ (At(t, "emit") \/ At(t, "attach"))

\* An event published on a bus that belongs to a mesh is forwarded.
PublishedIsForwarded ==
  \A e \in Ids :
    \/ \E i \in DOMAIN rows : rows[i] = e
    \/ \E p \in Publishers : At(p, "send") /\ thread[p].event = e

\* At-least-once delivery: an event in the table reaches the handlers of
\* every other node that keeps polling, across crashes and failing acks.
AtLeastOnce ==
  \A n \in Sole : \A e \in 1..MaxEvents :
    (\E i \in DOMAIN rows : rows[i] = e /\ origin[e] # n) ~> e \in received[n]
=============================================================================
