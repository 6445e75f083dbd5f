-------------------------- MODULE EventMeshProofs --------------------------
(***************************************************************************)
(* Proofs about EventMesh for any nodes, threads, bounds and faults.  What *)
(* is delivered and acked is about nodes with one ingesting thread (Sole), *)
(* whatever the others do; the rest is about nodes with any number.        *)
(***************************************************************************)
EXTENDS EventMesh, TLAPS, FiniteSetTheorems

(* Publishers only publish and send; an ingester holds rows and events of  *)
(* other nodes.                                                            *)
Foreign(x, n) ==
  /\ x \in ThreadState /\ x.pc # "send"
  /\ \A i \in x.batch : i \in DOMAIN rows /\ origin[rows[i]] # n
  /\ x.pc \notin {"idle", "next"} => x.event \in Ids /\ origin[x.event] # n

Roles ==
  /\ \A p \in Publishers : thread[p].pc \in {"idle", "send"}
  /\ \A t \in Ingesters : Foreign(thread[t], NodeOf[t])

Inv == TypeOK /\ Roles

-----------------------------------------------------------------------------
(* Pieces of a step.                                                       *)

LEMMA IdleIs == /\ Idle \in ThreadState /\ Idle.pc = "idle" /\ Idle.batch = {}
BY DEF Idle, InHand, ThreadState

LEMMA InHandIs ==
  ASSUME NEW label, NEW batch, NEW e
  PROVE  LET x == InHand(label, batch, e)
         IN  x.pc = label /\ x.batch = batch /\ x.event = e
BY DEF InHand

LEMMA InHandType ==
  ASSUME NEW label \in {"next", "remember", "ack", "send"},
         NEW batch \in SUBSET Nat, NEW e \in Nat
  PROVE  InHand(label, batch, e) \in ThreadState
BY DEF InHand, ThreadState

LEMMA TypeParts ==
  ASSUME Inv
  PROVE  /\ origin \in Seq(Nodes) /\ rows \in Seq(Ids)
         /\ acked \in [Nodes -> SUBSET Ids] /\ seen \in [Nodes -> SUBSET Ids]
         /\ forwarders \in [Nodes -> Nat] /\ thread \in [Threads -> ThreadState]
         /\ handled \in [Nodes -> SUBSET Ids] /\ received \in [Nodes -> SUBSET Ids]
         /\ faults \in Nat /\ Len(origin) \in Nat
         /\ \A t \in Threads : NodeOf[t] \in Nodes /\ thread[t] \in ThreadState
         /\ \A i \in DOMAIN rows : i \in Nat /\ rows[i] \in Ids
BY ThreadsAssumption DEF Inv, TypeOK

LEMMA ThreadKinds ==
  /\ Publishers \subseteq Threads /\ Ingesters \subseteq Threads
  /\ \A p \in Publishers, t \in Ingesters : p # t
BY ThreadsAssumption DEF Threads

(* A step of one thread that publishes nothing and adds no row.            *)
LEMMA ThreadStep ==
  ASSUME Inv, NEW t \in Threads, NEW x \in ThreadState,
         thread' = [thread EXCEPT ![t] = x],
         t \in Publishers => x.pc = "idle",
         t \in Ingesters => Foreign(x, NodeOf[t]),
         UNCHANGED <<origin, rows>>,
         acked' \in [Nodes -> SUBSET Ids], seen' \in [Nodes -> SUBSET Ids],
         forwarders' \in [Nodes -> Nat],
         handled' \in [Nodes -> SUBSET Ids], received' \in [Nodes -> SUBSET Ids],
         faults' \in Nat
  PROVE  Inv'
<1>1. \A s \in Threads : thread'[s] = IF s = t THEN x ELSE thread[s]
  BY TypeParts
<1>2. thread' \in [Threads -> ThreadState] /\ Ids' = Ids
  BY TypeParts DEF Ids
<1>3. \A s \in Threads : thread'[s].pc \notin {"idle", "next"} => thread'[s].event \in Ids
  <2>1. x.pc \notin {"idle", "next"} => x.event \in Ids
    BY DEF Threads, Foreign
  <2>2. QED
    BY <1>1, <2>1 DEF Inv, TypeOK
<1>4. TypeOK'
  BY <1>2, <1>3 DEF Inv, TypeOK
<1>5. Roles'
  <2>1. \A p \in Publishers : thread'[p].pc \in {"idle", "send"}
    BY <1>1, ThreadKinds DEF Inv, Roles
  <2>2. ASSUME NEW s \in Ingesters PROVE Foreign(thread'[s], NodeOf[s])
    BY <1>1, ThreadKinds DEF Inv, Roles
  <2>3. \A y, n : Foreign(y, n) => Foreign(y, n)'
    BY <1>2 DEF Foreign
  <2>4. QED
    BY <2>1, <2>2, <2>3 DEF Roles
<1>6. QED
  BY <1>4, <1>5 DEF Inv

-----------------------------------------------------------------------------
(* Types and roles are kept by every step.                                 *)

LEMMA SetGrows ==
  ASSUME NEW S, NEW f \in [Nodes -> SUBSET S], NEW n \in Nodes, NEW e \in S
  PROVE  [f EXCEPT ![n] = @ \cup {e}] \in [Nodes -> SUBSET S]
OBVIOUS

LEMMA DrainStep ==
  ASSUME Inv, NEW t \in Ingesters, Drain(t)
  PROVE  Inv'
<1> DEFINE batch == {i \in Pending(NodeOf[t]) :
                       Cardinality({j \in Pending(NodeOf[t]) : j < i}) < Limit}
           x == InHand("next", batch, 0)
<1>1. /\ thread' = [thread EXCEPT ![t] = x]
      /\ UNCHANGED <<origin, rows, acked, seen, forwarders, handled, received, faults>>
  BY DEF Drain
<1>2. \A i \in batch : i \in DOMAIN rows /\ origin[rows[i]] # NodeOf[t]
  BY DEF Pending
<1>3. batch \in SUBSET Nat
  BY <1>2, TypeParts
<1> HIDE DEF batch
<1>4. x \in ThreadState /\ x.pc = "next" /\ x.batch = batch
  BY <1>3, InHandType, InHandIs
<1> HIDE DEF x
<1>5. Foreign(x, NodeOf[t])
  BY <1>2, <1>4 DEF Foreign
<1>6. QED
  BY <1>1, <1>4, <1>5, TypeParts, ThreadKinds, ThreadStep

LEMMA NextEventStep ==
  ASSUME Inv, NEW t \in Ingesters, NextEvent(t)
  PROVE  Inv'
<1>1. PICK i \in thread[t].batch :
        /\ thread' = [thread EXCEPT ![t] =
             InHand(IF rows[i] \in seen[NodeOf[t]] THEN "ack" ELSE "remember",
                    thread[t].batch \ {i}, rows[i])]
        /\ UNCHANGED <<origin, rows, acked, seen, forwarders, handled, received, faults>>
  BY DEF NextEvent
<1> DEFINE label == IF rows[i] \in seen[NodeOf[t]] THEN "ack" ELSE "remember"
           x == InHand(label, thread[t].batch \ {i}, rows[i])
<1>2. Foreign(thread[t], NodeOf[t])
  BY DEF Inv, Roles
<1>3. /\ rows[i] \in Ids /\ rows[i] \in Nat /\ origin[rows[i]] # NodeOf[t]
      /\ thread[t].batch \in SUBSET Nat
  BY <1>2, TypeParts, ThreadKinds DEF Foreign, Ids, ThreadState
<1>4. label \in {"ack", "remember"}
  OBVIOUS
<1> HIDE DEF label
<1>5. /\ x \in ThreadState /\ x.pc = label /\ x.event = rows[i]
      /\ x.batch = thread[t].batch \ {i}
  BY <1>3, <1>4, InHandType, InHandIs
<1>6. thread' = [thread EXCEPT ![t] = x]
  BY <1>1 DEF label
<1> HIDE DEF x
<1>7. Foreign(x, NodeOf[t])
  BY <1>2, <1>3, <1>4, <1>5 DEF Foreign
<1>8. QED
  BY <1>1, <1>5, <1>6, <1>7, TypeParts, ThreadKinds, ThreadStep

LEMMA PollEndsStep ==
  ASSUME Inv, NEW t \in Ingesters, PollEnds(t)
  PROVE  Inv'
<1>1. /\ thread' = [thread EXCEPT ![t] = Idle]
      /\ UNCHANGED <<origin, rows, acked, seen, forwarders, handled, received, faults>>
  BY DEF PollEnds
<1>2. Foreign(Idle, NodeOf[t])
  BY IdleIs DEF Foreign
<1>3. QED
  BY <1>1, <1>2, IdleIs, TypeParts, ThreadKinds, ThreadStep

(* The steps that keep the event in hand and move on.                      *)
LEMMA Moved ==
  ASSUME Inv, NEW t \in Ingesters, thread[t].pc \notin {"idle", "next"},
         NEW label \in {"next", "detach", "emit", "attach", "ack"}, Goto(t, label)
  PROVE  /\ thread' = [thread EXCEPT ![t] = [thread[t] EXCEPT !.pc = label]]
         /\ [thread[t] EXCEPT !.pc = label] \in ThreadState
         /\ Foreign([thread[t] EXCEPT !.pc = label], NodeOf[t])
         /\ thread[t].event \in Ids
         /\ NodeOf[t] \in Nodes
<1> DEFINE x == [thread[t] EXCEPT !.pc = label]
<1>1. thread[t] \in ThreadState /\ Foreign(thread[t], NodeOf[t])
  BY TypeParts, ThreadKinds DEF Inv, Roles
<1>2. /\ x \in ThreadState /\ x.pc = label
      /\ x.batch = thread[t].batch /\ x.event = thread[t].event
  BY <1>1 DEF ThreadState
<1>3. thread' = [thread EXCEPT ![t] = x]
  BY TypeParts DEF Goto
<1> HIDE DEF x
<1>4. Foreign(x, NodeOf[t]) /\ thread[t].event \in Ids
  BY <1>1, <1>2 DEF Foreign
<1>5. QED
  BY <1>2, <1>3, <1>4, TypeParts, ThreadKinds DEF x

LEMMA MovedStep ==
  ASSUME Inv, NEW t \in Ingesters, thread[t].pc \notin {"idle", "next"},
         NEW label \in {"next", "detach", "emit", "attach", "ack"}, Goto(t, label),
         UNCHANGED <<origin, rows>>,
         acked' \in [Nodes -> SUBSET Ids], seen' \in [Nodes -> SUBSET Ids],
         forwarders' \in [Nodes -> Nat],
         handled' \in [Nodes -> SUBSET Ids], received' \in [Nodes -> SUBSET Ids],
         faults' \in Nat
  PROVE  Inv'
<1> DEFINE x == [thread[t] EXCEPT !.pc = label]
<1>1. /\ thread' = [thread EXCEPT ![t] = x] /\ x \in ThreadState
      /\ Foreign(x, NodeOf[t])
  BY Moved
<1> HIDE DEF x
<1>2. t \in Threads /\ t \notin Publishers
  BY ThreadKinds
<1>3. QED
  BY <1>1, <1>2, ThreadStep

LEMMA AddSeenStep ==
  ASSUME Inv, NEW t \in Ingesters, AddSeen(t)
  PROVE  Inv'
<1> DEFINE n == NodeOf[t]  e == thread[t].event
<1>1. /\ thread[t].pc = "remember" /\ Goto(t, "detach")
      /\ UNCHANGED <<origin, rows, acked, forwarders, handled, received, faults>>
  BY DEF AddSeen, At
<1>2. PICK now \in SUBSET (seen[n] \cup {e}) : seen' = [seen EXCEPT ![n] = now]
  BY DEF AddSeen
<1>3. seen' \in [Nodes -> SUBSET Ids]
  BY <1>1, <1>2, Moved, TypeParts
<1>4. QED
  BY <1>1, <1>3, MovedStep, TypeParts

LEMMA SubscriptionStep ==
  ASSUME Inv, NEW t \in Ingesters, Unsubscribe(t) \/ Subscribe(t)
  PROVE  Inv'
<1>1. /\ thread[t].pc \in {"detach", "attach"}
      /\ Goto(t, "emit") \/ Goto(t, "ack")
      /\ UNCHANGED <<origin, rows, acked, seen, handled, received, faults>>
  BY DEF Unsubscribe, Subscribe, At
<1>2. forwarders' \in [Nodes -> Nat]
  <2>1. NodeOf[t] \in Nodes /\ forwarders[NodeOf[t]] \in Nat
    BY TypeParts, ThreadKinds
  <2>2. \A k \in Nat : [forwarders EXCEPT ![NodeOf[t]] = k] \in [Nodes -> Nat]
    BY <2>1, TypeParts
  <2>3. /\ (IF forwarders[NodeOf[t]] > 0 THEN forwarders[NodeOf[t]] - 1 ELSE 0) \in Nat
        /\ forwarders[NodeOf[t]] + 1 \in Nat
    BY <2>1
  <2>4. QED
    BY <2>2, <2>3 DEF Unsubscribe, Subscribe
<1>3. QED
  BY <1>1, <1>2, MovedStep, TypeParts

LEMMA EmitStep ==
  ASSUME Inv, NEW t \in Ingesters, Emit(t)
  PROVE  Inv'
<1>1. /\ thread[t].pc = "emit" /\ Goto(t, "attach")
      /\ handled' = [handled EXCEPT ![NodeOf[t]] = @ \cup {thread[t].event}]
      /\ received' = [received EXCEPT ![NodeOf[t]] = @ \cup {thread[t].event}]
      /\ UNCHANGED <<origin, rows, acked, seen, forwarders, faults>>
  BY DEF Emit, At, Handle
<1>2. thread[t].event \in Ids /\ NodeOf[t] \in Nodes
  BY <1>1, Moved
<1>3. handled' \in [Nodes -> SUBSET Ids] /\ received' \in [Nodes -> SUBSET Ids]
  BY <1>1, <1>2, TypeParts, SetGrows
<1>4. QED
  BY <1>1, <1>3, MovedStep, TypeParts

LEMMA AckStep ==
  ASSUME Inv, NEW t \in Ingesters, Ack(t)
  PROVE  Inv'
<1>1. /\ thread[t].pc = "ack" /\ Goto(t, "next")
      /\ UNCHANGED <<origin, rows, seen, forwarders, handled, received>>
      /\ \/ acked' = [acked EXCEPT ![NodeOf[t]] = @ \cup {thread[t].event}]
         \/ acked' = acked
  BY DEF Ack, At
<1>2. thread[t].event \in Ids /\ NodeOf[t] \in Nodes
  BY <1>1, Moved
<1>3. acked' \in [Nodes -> SUBSET Ids]
  <2>1. [acked EXCEPT ![NodeOf[t]] = @ \cup {thread[t].event}] \in [Nodes -> SUBSET Ids]
    BY <1>2, TypeParts, SetGrows
  <2>2. QED
    BY <1>1, <2>1, TypeParts
<1>4. faults' \in Nat
  BY TypeParts DEF Ack, Fault
<1>5. QED
  BY <1>1, <1>3, <1>4, MovedStep, TypeParts

LEMMA CrashStep ==
  ASSUME Inv, NEW n \in Nodes, Crash(n)
  PROVE  Inv'
<1>1. /\ UNCHANGED <<origin, rows, acked, received>>
      /\ thread' = [t \in Threads |-> IF NodeOf[t] = n THEN Idle ELSE thread[t]]
      /\ Ids' = Ids
  BY DEF Crash, Ids
<1>2. /\ seen' \in [Nodes -> SUBSET Ids] /\ handled' \in [Nodes -> SUBSET Ids]
      /\ forwarders' \in [Nodes -> Nat] /\ faults' \in Nat
  BY TypeParts DEF Crash, Fault
<1>3. \A t \in Threads : thread'[t] = Idle \/ thread'[t] = thread[t]
  BY <1>1
<1>4. /\ thread' \in [Threads -> ThreadState]
      /\ \A t \in Threads : thread'[t].pc \notin {"idle", "next"} => thread'[t].event \in Ids
  <2>1. \A t \in Threads : thread'[t] \in ThreadState
    BY <1>3, TypeParts, IdleIs
  <2>2. QED
    BY <1>1, <1>3, <2>1, IdleIs DEF Inv, TypeOK
<1>5. TypeOK'
  BY <1>1, <1>2, <1>4 DEF Inv, TypeOK
<1>6. Roles'
  <2>1. \A p \in Publishers : thread'[p].pc \in {"idle", "send"}
    BY <1>3, IdleIs, ThreadKinds DEF Inv, Roles
  <2>2. ASSUME NEW t \in Ingesters PROVE Foreign(thread'[t], NodeOf[t])
    <3>1. Foreign(Idle, NodeOf[t]) /\ Foreign(thread[t], NodeOf[t])
      BY IdleIs DEF Foreign, Inv, Roles
    <3>2. QED
      BY <3>1, <1>3, ThreadKinds
  <2>3. \A y, m : Foreign(y, m) => Foreign(y, m)'
    BY <1>1 DEF Foreign
  <2>4. QED
    BY <2>1, <2>2, <2>3 DEF Roles
<1>7. QED
  BY <1>5, <1>6 DEF Inv
(* Published events keep their number and their origin.                    *)
LEMMA Published ==
  ASSUME Inv, NEW n \in Nodes, origin' = Append(origin, n)
  PROVE  /\ origin' \in Seq(Nodes) /\ Len(origin) + 1 \in Ids' /\ Ids \subseteq Ids'
         /\ Len(origin) + 1 \notin Ids /\ Len(origin) + 1 \in Nat
         /\ origin'[Len(origin) + 1] = n
         /\ \A e \in Ids : origin'[e] = origin[e]
         /\ Ids' = Ids \cup {Len(origin) + 1}
<1>1. origin \in Seq(Nodes) /\ Len(origin) \in Nat
  BY TypeParts
<1>2. /\ origin' \in Seq(Nodes) /\ Len(origin') = Len(origin) + 1
      /\ origin'[Len(origin) + 1] = n
      /\ \A e \in 1..Len(origin) : origin'[e] = origin[e]
  BY <1>1
<1>3. QED
  BY <1>1, <1>2 DEF Ids

LEMMA PublishStep ==
  ASSUME Inv, NEW p \in Publishers, Publish(p)
  PROVE  Inv'
<1> DEFINE n == NodeOf[p]  e == Len(origin) + 1
<1>1. /\ origin' = Append(origin, n) /\ n \in Nodes
      /\ UNCHANGED <<rows, acked, forwarders, faults>>
  BY TypeParts, ThreadKinds DEF Publish
<1>2. /\ origin' \in Seq(Nodes) /\ e \in Ids' /\ Ids \subseteq Ids' /\ e \in Nat
      /\ \A i \in Ids : origin'[i] = origin[i]
  BY <1>1, Published
<1>3. /\ handled' = [handled EXCEPT ![n] = @ \cup {e}]
      /\ received' = [received EXCEPT ![n] = @ \cup {e}]
  BY DEF Publish, Handle
<1>4. \/ \E now \in SUBSET (seen[n] \cup {e}) :
           /\ seen' = [seen EXCEPT ![n] = now]
           /\ thread' = [thread EXCEPT ![p] = InHand("send", {}, e)]
      \/ UNCHANGED <<seen, thread>>
  BY DEF Publish
<1> HIDE DEF n, e
<1>5. /\ rows' \in Seq(Ids') /\ acked' \in [Nodes -> SUBSET Ids']
      /\ handled' \in [Nodes -> SUBSET Ids'] /\ received' \in [Nodes -> SUBSET Ids']
      /\ seen' \in [Nodes -> SUBSET Ids'] /\ forwarders' \in [Nodes -> Nat]
      /\ faults' \in Nat
  <2>1. rows \in Seq(Ids')
    <3>1. rows \in Seq(Ids) /\ Ids \subseteq Ids'
      BY <1>2, TypeParts
    <3>2. QED
      BY <3>1
  <2>2. \A f \in [Nodes -> SUBSET Ids] : f \in [Nodes -> SUBSET Ids']
    BY <1>2
  <2>3. handled' \in [Nodes -> SUBSET Ids'] /\ received' \in [Nodes -> SUBSET Ids']
    BY <1>1, <1>2, <1>3, <2>2, TypeParts
  <2>4. seen' \in [Nodes -> SUBSET Ids']
    <3>1. \A now \in SUBSET (seen[n] \cup {e}) :
            [seen EXCEPT ![n] = now] \in [Nodes -> SUBSET Ids']
      BY <1>1, <1>2, <2>2, TypeParts
    <3>2. seen \in [Nodes -> SUBSET Ids']
      BY <2>2, TypeParts
    <3>3. QED
      BY <1>4, <3>1, <3>2
  <2>5. QED
    BY <1>1, <2>1, <2>2, <2>3, <2>4, TypeParts
<1> DEFINE x == InHand("send", {}, e)
<1>6. x \in ThreadState /\ x.pc = "send" /\ x.event = e
  BY <1>2, InHandType, InHandIs
<1> HIDE DEF x
<1>7. \A t \in Threads : thread'[t] = thread[t] \/ (t = p /\ thread'[t] = x)
  BY <1>4, TypeParts DEF x
<1>8. /\ thread' \in [Threads -> ThreadState]
      /\ \A t \in Threads : thread'[t].pc \notin {"idle", "next"} => thread'[t].event \in Ids'
  <2>1. thread' \in [Threads -> ThreadState]
    BY <1>4, <1>6, TypeParts, ThreadKinds DEF x
  <2>2. QED
    BY <1>2, <1>6, <1>7, <2>1 DEF Inv, TypeOK
<1>9. TypeOK'
  BY <1>2, <1>5, <1>8 DEF TypeOK
<1>10. Roles'
  <2>1. \A q \in Publishers : thread'[q].pc \in {"idle", "send"}
    BY <1>6, <1>7, ThreadKinds DEF Inv, Roles
  <2>2. ASSUME NEW t \in Ingesters PROVE Foreign(thread[t], NodeOf[t])'
    <3>1. thread'[t] = thread[t] /\ Foreign(thread[t], NodeOf[t])
      BY <1>7, ThreadKinds DEF Inv, Roles
    <3>2. \A i \in DOMAIN rows : rows[i] \in Ids
      BY TypeParts
    <3>3. QED
      BY <1>1, <1>2, <3>1, <3>2 DEF Foreign
  <2>3. QED
    BY <2>1, <2>2 DEF Roles
<1>11. QED
  BY <1>9, <1>10 DEF Inv

LEMMA SendStep ==
  ASSUME Inv, NEW p \in Publishers, Send(p)
  PROVE  Inv'
<1>1. /\ UNCHANGED <<origin, acked, seen, forwarders, handled, received>>
      /\ thread' = [thread EXCEPT ![p] = Idle] /\ thread[p].pc = "send"
      /\ rows' = Append(rows, thread[p].event) \/ rows' = rows
  BY DEF Send, At
<1>2. thread[p].event \in Ids /\ Ids' = Ids /\ faults' \in Nat
  <2>1. p \in Threads
    BY ThreadKinds
  <2>2. thread[p].event \in Ids
    BY <1>1, <2>1 DEF Inv, TypeOK
  <2>3. QED
    BY <1>1, <2>2, TypeParts DEF Ids, Send, Fault
<1>3. /\ rows' \in Seq(Ids) /\ DOMAIN rows \subseteq DOMAIN rows'
      /\ \A i \in DOMAIN rows : rows'[i] = rows[i]
  <2>1. rows \in Seq(Ids) /\ DOMAIN rows = 1..Len(rows) /\ Len(rows) \in Nat
    BY TypeParts
  <2>2. QED
    BY <1>1, <1>2, <2>1
<1>4. \A t \in Threads : thread'[t] = IF t = p THEN Idle ELSE thread[t]
  BY <1>1, TypeParts
<1>5. thread' \in [Threads -> ThreadState]
  BY <1>1, IdleIs, TypeParts
<1>6. TypeOK'
  <2>1. \A t \in Threads : thread'[t].pc \notin {"idle", "next"} => thread'[t].event \in Ids
    BY <1>4, IdleIs DEF Inv, TypeOK
  <2>2. QED
    BY <1>1, <1>2, <1>3, <1>5, <2>1, TypeParts DEF TypeOK
<1>7. Roles'
  <2>1. \A q \in Publishers : thread'[q].pc \in {"idle", "send"}
    BY <1>4, IdleIs, ThreadKinds DEF Inv, Roles
  <2>2. ASSUME NEW t \in Ingesters PROVE Foreign(thread[t], NodeOf[t])'
    <3>1. thread'[t] = thread[t] /\ Foreign(thread[t], NodeOf[t])
      BY <1>4, ThreadKinds DEF Inv, Roles
    <3>2. QED
      BY <1>1, <1>2, <1>3, <3>1 DEF Foreign
  <2>3. QED
    BY <2>1, <2>2 DEF Roles
<1>8. QED
  BY <1>6, <1>7 DEF Inv

LEMMA InitInv == Init => Inv
<1> SUFFICES ASSUME Init PROVE Inv
  OBVIOUS
<1>1. Len(origin) = 0 /\ Ids = {} /\ rows = <<>>
  BY DEF Init, Ids
<1>2. /\ \A t \in Threads : thread[t] = Idle
      /\ thread \in [Threads -> ThreadState]
  BY IdleIs DEF Init
<1>3. rows \in Seq(Ids) /\ origin \in Seq(Nodes)
  BY <1>1 DEF Init
<1>4. TypeOK
  BY <1>1, <1>2, <1>3, IdleIs DEF Init, TypeOK
<1>5. Roles
  BY <1>2, IdleIs, ThreadKinds DEF Roles, Foreign
<1>6. QED
  BY <1>4, <1>5 DEF Inv

LEMMA NextInv == Inv /\ [Next]_vars => Inv'
<1> SUFFICES ASSUME Inv, [Next]_vars PROVE Inv'
  OBVIOUS
<1>1. ASSUME NEW t \in Ingesters, Poll(t) PROVE Inv'
  BY <1>1, DrainStep, NextEventStep, PollEndsStep, AddSeenStep, SubscriptionStep,
     EmitStep, AckStep DEF Poll
<1>2. CASE UNCHANGED vars
  BY <1>2 DEF vars, Inv, TypeOK, Roles, Foreign, Ids
<1>3. QED
  BY <1>1, <1>2, PublishStep, SendStep, CrashStep DEF Next

(* In every reachable state ids are those of published events and a thread *)
(* that ingests holds events of other nodes only.                          *)
THEOREM MeshInvariant == Spec => []Inv
BY InitInv, NextInv, PTL DEF Spec

(* The types of the tables, the nodes and the threads (TypeOK).            *)
THEOREM MeshTypeCorrect == Spec => []TypeOK
<1>1. Inv => TypeOK
  BY DEF Inv
<1>2. QED
  BY <1>1, MeshInvariant, PTL

-----------------------------------------------------------------------------
(* What a step of an ingester does to its own node, and that it leaves the *)
(* others alone.                                                           *)

LEMMA Gone ==
  ASSUME Inv, NEW t \in Ingesters, NEW label, Goto(t, label)
  PROVE  thread'[t].pc = label /\ thread'[t].event = thread[t].event
BY TypeParts, ThreadKinds DEF Goto, ThreadState

LEMMA Effects ==
  ASSUME Inv, NEW t \in Ingesters
  PROVE  LET n == NodeOf[t] IN
    /\ Drain(t) =>
         thread'[t].pc = "next" /\ UNCHANGED <<acked, seen, handled, received, forwarders>>
    /\ PollEnds(t) =>
         thread'[t].pc = "idle" /\ UNCHANGED <<acked, seen, handled, received, forwarders>>
    /\ NextEvent(t) =>
         /\ thread[t].pc = "next"
         /\ \E i \in thread[t].batch :
              /\ thread'[t].event = rows[i]
              /\ thread'[t].pc = IF rows[i] \in seen[n] THEN "ack" ELSE "remember"
         /\ UNCHANGED <<acked, seen, handled, received, forwarders>>
    /\ AddSeen(t) =>
         /\ thread[t].pc = "remember" /\ thread'[t].pc = "detach"
         /\ thread'[t].event = thread[t].event
         /\ seen'[n] \in SUBSET (seen[n] \cup {thread[t].event})
         /\ Remember(n, thread[t].event, seen'[n])
         /\ UNCHANGED <<acked, handled, received, forwarders>>
    /\ Unsubscribe(t) =>
         /\ thread[t].pc = "detach" /\ thread'[t].pc = "emit"
         /\ thread'[t].event = thread[t].event
         /\ UNCHANGED <<acked, seen, handled, received>>
    /\ Emit(t) =>
         /\ thread[t].pc = "emit" /\ thread'[t].pc = "attach"
         /\ thread'[t].event = thread[t].event
         /\ handled'[n] = handled[n] \cup {thread[t].event}
         /\ received'[n] = received[n] \cup {thread[t].event}
         /\ UNCHANGED <<acked, seen, forwarders>>
    /\ Subscribe(t) =>
         /\ thread[t].pc = "attach" /\ thread'[t].pc = "ack"
         /\ thread'[t].event = thread[t].event
         /\ forwarders'[n] > 0
         /\ UNCHANGED <<acked, seen, handled, received>>
    /\ Ack(t) =>
         /\ thread[t].pc = "ack" /\ thread'[t].pc = "next"
         /\ acked'[n] \subseteq acked[n] \cup {thread[t].event}
         /\ UNCHANGED <<seen, handled, received, forwarders>>
<1> DEFINE n == NodeOf[t]
<1>1. n \in Nodes /\ t \in Threads
  BY TypeParts, ThreadKinds
<1>2. Drain(t) => thread'[t].pc = "next"
  BY <1>1, TypeParts, InHandIs DEF Drain
<1>3. PollEnds(t) => thread'[t].pc = "idle"
  BY <1>1, TypeParts, IdleIs DEF PollEnds
<1>4. ASSUME NextEvent(t)
      PROVE  \E i \in thread[t].batch :
               /\ thread'[t].event = rows[i]
               /\ thread'[t].pc = IF rows[i] \in seen[n] THEN "ack" ELSE "remember"
  <2>1. PICK i \in thread[t].batch :
          thread' = [thread EXCEPT ![t] =
            InHand(IF rows[i] \in seen[n] THEN "ack" ELSE "remember",
                   thread[t].batch \ {i}, rows[i])]
    BY <1>4 DEF NextEvent
  <2>2. thread'[t] = InHand(IF rows[i] \in seen[n] THEN "ack" ELSE "remember",
                            thread[t].batch \ {i}, rows[i])
    BY <1>1, <2>1, TypeParts
  <2>3. QED
    BY <2>2, InHandIs
<1>5. AddSeen(t) =>
         /\ seen'[n] \in SUBSET (seen[n] \cup {thread[t].event})
         /\ Remember(n, thread[t].event, seen'[n])
  BY <1>1, TypeParts DEF AddSeen
<1>6. Emit(t) => /\ handled'[n] = handled[n] \cup {thread[t].event}
                 /\ received'[n] = received[n] \cup {thread[t].event}
  BY <1>1, TypeParts DEF Emit, Handle
<1>7. Subscribe(t) => forwarders'[n] > 0
  BY <1>1, TypeParts DEF Subscribe
<1>8. Ack(t) => acked'[n] \subseteq acked[n] \cup {thread[t].event}
  BY <1>1, TypeParts DEF Ack
<1>9. \A label : Goto(t, label) =>
        thread'[t].pc = label /\ thread'[t].event = thread[t].event
  BY Gone
<1>10. Drain(t) =>
          thread'[t].pc = "next" /\ UNCHANGED <<acked, seen, handled, received, forwarders>>
  BY <1>2 DEF Drain
<1>11. PollEnds(t) =>
          thread'[t].pc = "idle" /\ UNCHANGED <<acked, seen, handled, received, forwarders>>
  BY <1>3 DEF PollEnds
<1>12. NextEvent(t) =>
          /\ thread[t].pc = "next"
          /\ \E i \in thread[t].batch :
               /\ thread'[t].event = rows[i]
               /\ thread'[t].pc = IF rows[i] \in seen[n] THEN "ack" ELSE "remember"
          /\ UNCHANGED <<acked, seen, handled, received, forwarders>>
  <2>1. NextEvent(t) =>
          thread[t].pc = "next" /\ UNCHANGED <<acked, seen, handled, received, forwarders>>
    BY DEF NextEvent, At
  <2>2. QED
    BY <1>4, <2>1
<1>13. AddSeen(t) =>
          /\ thread[t].pc = "remember" /\ thread'[t].pc = "detach"
          /\ thread'[t].event = thread[t].event
          /\ UNCHANGED <<acked, handled, received, forwarders>>
  BY <1>9 DEF AddSeen, At
<1>14. Unsubscribe(t) =>
          /\ thread[t].pc = "detach" /\ thread'[t].pc = "emit"
          /\ thread'[t].event = thread[t].event
          /\ UNCHANGED <<acked, seen, handled, received>>
  BY <1>9 DEF Unsubscribe, At
<1>15. Emit(t) =>
          /\ thread[t].pc = "emit" /\ thread'[t].pc = "attach"
          /\ thread'[t].event = thread[t].event
          /\ UNCHANGED <<acked, seen, forwarders>>
  BY <1>9 DEF Emit, At
<1>16. Subscribe(t) =>
          /\ thread[t].pc = "attach" /\ thread'[t].pc = "ack"
          /\ thread'[t].event = thread[t].event
          /\ UNCHANGED <<acked, seen, handled, received>>
  BY <1>9 DEF Subscribe, At
<1>17. Ack(t) =>
          /\ thread[t].pc = "ack" /\ thread'[t].pc = "next"
          /\ UNCHANGED <<seen, handled, received, forwarders>>
  BY <1>9 DEF Ack, At
<1>18. QED
  BY <1>5, <1>6, <1>7, <1>8, <1>10, <1>11, <1>12, <1>13, <1>14, <1>15, <1>16, <1>17

LEMMA OthersStay ==
  ASSUME Inv, NEW t \in Ingesters, Poll(t)
  PROVE  /\ \A s \in Threads \ {t} : thread'[s] = thread[s]
         /\ \A m \in Nodes \ {NodeOf[t]} :
              /\ acked'[m] = acked[m] /\ seen'[m] = seen[m]
              /\ handled'[m] = handled[m] /\ received'[m] = received[m]
              /\ forwarders'[m] = forwarders[m]
         /\ origin' = origin
<1>1. thread \in [Threads -> ThreadState] /\ t \in Threads
  BY TypeParts, ThreadKinds
<1>2. \A s \in Threads \ {t} : thread'[s] = thread[s]
  <2>1. \A label : Goto(t, label) => \A s \in Threads \ {t} : thread'[s] = thread[s]
    BY <1>1 DEF Goto
  <2>2. Drain(t) \/ NextEvent(t) \/ PollEnds(t) =>
          \A s \in Threads \ {t} : thread'[s] = thread[s]
    BY <1>1 DEF Drain, NextEvent, PollEnds
  <2>3. QED
    BY <2>1, <2>2 DEF Poll, AddSeen, Unsubscribe, Emit, Subscribe, Ack
<1>3. \A m \in Nodes \ {NodeOf[t]} :
        seen'[m] = seen[m] /\ forwarders'[m] = forwarders[m]
  BY TypeParts DEF Poll, Drain, NextEvent, PollEnds, AddSeen, Unsubscribe, Emit, Subscribe, Ack
<1>4. \A m \in Nodes \ {NodeOf[t]} :
        acked'[m] = acked[m] /\ handled'[m] = handled[m] /\ received'[m] = received[m]
  BY TypeParts DEF Poll, Drain, NextEvent, PollEnds, AddSeen, Unsubscribe, Emit, Handle, Subscribe, Ack
<1>5. origin' = origin
  BY DEF Poll, Drain, NextEvent, PollEnds, AddSeen, Unsubscribe, Emit, Subscribe, Ack
<1>6. QED
  BY <1>2, <1>3, <1>4, <1>5

(* What publishing, sending and a crash do.                                *)
LEMMA PublishIs ==
  ASSUME Inv, NEW p \in Publishers, Publish(p)
  PROVE  LET n == NodeOf[p]  e == Len(origin) + 1 IN
    /\ n \in Nodes /\ origin' = Append(origin, n) /\ e <= MaxEvents
    /\ \A t \in Ingesters : thread'[t] = thread[t]
    /\ UNCHANGED <<acked, forwarders>>
    /\ handled'[n] = handled[n] \cup {e} /\ received'[n] = received[n] \cup {e}
    /\ \/ seen' = seen
       \/ /\ seen'[n] \in SUBSET (seen[n] \cup {e}) /\ Remember(n, e, seen'[n])
    /\ \A m \in Nodes \ {n} : /\ handled'[m] = handled[m] /\ received'[m] = received[m]
                              /\ seen'[m] = seen[m]
<1> DEFINE n == NodeOf[p]  e == Len(origin) + 1
<1>1. n \in Nodes
  BY TypeParts, ThreadKinds
<1>2. /\ origin' = Append(origin, n) /\ e <= MaxEvents /\ UNCHANGED <<acked, forwarders>>
      /\ handled' = [handled EXCEPT ![n] = @ \cup {e}]
      /\ received' = [received EXCEPT ![n] = @ \cup {e}]
      /\ \/ /\ \E now \in SUBSET (seen[n] \cup {e}) :
                  Remember(n, e, now) /\ seen' = [seen EXCEPT ![n] = now]
            /\ thread' = [thread EXCEPT ![p] = InHand("send", {}, e)]
         \/ UNCHANGED <<seen, thread>>
  BY DEF Publish, Handle
<1> HIDE DEF n, e
<1>3. \A t \in Ingesters : thread'[t] = thread[t]
  BY <1>2, TypeParts, ThreadKinds
<1>4. /\ handled'[n] = handled[n] \cup {e} /\ received'[n] = received[n] \cup {e}
      /\ \A m \in Nodes \ {n} : handled'[m] = handled[m] /\ received'[m] = received[m]
  BY <1>1, <1>2, TypeParts
<1>5. /\ \/ seen' = seen
         \/ /\ seen'[n] \in SUBSET (seen[n] \cup {e}) /\ Remember(n, e, seen'[n])
      /\ \A m \in Nodes \ {n} : seen'[m] = seen[m]
  BY <1>1, <1>2, TypeParts
<1>6. QED
  BY <1>1, <1>2, <1>3, <1>4, <1>5 DEF n, e

LEMMA SendIs ==
  ASSUME Inv, NEW p \in Publishers, Send(p)
  PROVE  /\ \A t \in Ingesters : thread'[t] = thread[t]
         /\ UNCHANGED <<origin, acked, seen, forwarders, handled, received>>
BY TypeParts, ThreadKinds DEF Send

LEMMA CrashIs ==
  ASSUME Inv, NEW n \in Nodes, Crash(n)
  PROVE  /\ UNCHANGED <<origin, acked, received>>
         /\ \A t \in Ingesters : NodeOf[t] = n => thread'[t].pc = "idle"
         /\ \A t \in Ingesters : NodeOf[t] # n => thread'[t] = thread[t]
         /\ seen'[n] = {} /\ handled'[n] = {} /\ forwarders'[n] = 1
         /\ \A m \in Nodes \ {n} : /\ seen'[m] = seen[m] /\ handled'[m] = handled[m]
                                   /\ forwarders'[m] = forwarders[m]
BY TypeParts, ThreadKinds, IdleIs DEF Crash

-----------------------------------------------------------------------------
(* Properties that need nothing more.                                      *)

(* _fanout: however many ingests interleave, a node's forwarder is off the *)
(* bus only while one of them emits.                                       *)
THEOREM ForwarderBackHolds == Spec => []ForwarderBack
<1>1. Init => ForwarderBack
  BY DEF Init, ForwarderBack
<1>2. ASSUME Inv, ForwarderBack, [Next]_vars PROVE ForwarderBack'
  <2>1. SUFFICES ASSUME NEW n \in Nodes
                 PROVE  \/ forwarders'[n] > 0
                        \/ \E t \in Ingesters :
                             NodeOf[t] = n /\ thread'[t].pc \in {"emit", "attach"}
    BY DEF ForwarderBack, At
  <2>2. \/ forwarders[n] > 0
        \/ \E t \in Ingesters : NodeOf[t] = n /\ thread[t].pc \in {"emit", "attach"}
    BY <1>2 DEF ForwarderBack, At
  <2>3. ASSUME NEW t \in Ingesters, Poll(t), NodeOf[t] = n
        PROVE  \/ forwarders'[n] > 0
               \/ \E s \in Ingesters :
                    NodeOf[s] = n /\ thread'[s].pc \in {"emit", "attach"}
    <3>1. CASE Unsubscribe(t) \/ Emit(t) \/ Subscribe(t)
      BY <1>2, <2>3, <3>1, Effects
    <3>2. CASE Drain(t) \/ PollEnds(t) \/ NextEvent(t) \/ AddSeen(t) \/ Ack(t)
      <4>1. forwarders' = forwarders
        BY <1>2, <3>2, Effects
      <4>2. thread[t].pc \notin {"emit", "attach"}
        BY <3>2 DEF Drain, PollEnds, NextEvent, AddSeen, Ack, At
      <4>3. \A s \in Ingesters : s # t => thread'[s] = thread[s]
        BY <1>2, <2>3, OthersStay, ThreadKinds
      <4>4. QED
        BY <2>2, <4>1, <4>2, <4>3
    <3>3. QED
      BY <2>3, <3>1, <3>2 DEF Poll
  <2>4. ASSUME NEW t \in Ingesters, Poll(t), NodeOf[t] # n
        PROVE  \/ forwarders'[n] > 0
               \/ \E s \in Ingesters :
                    NodeOf[s] = n /\ thread'[s].pc \in {"emit", "attach"}
    BY <1>2, <2>2, <2>4, OthersStay, ThreadKinds
  <2>5. ASSUME NEW p \in Publishers, Publish(p) \/ Send(p)
        PROVE  forwarders' = forwarders /\ \A s \in Ingesters : thread'[s] = thread[s]
    BY <1>2, <2>5, PublishIs, SendIs
  <2>6. ASSUME NEW m \in Nodes, Crash(m)
        PROVE  \/ forwarders'[n] > 0
               \/ \E s \in Ingesters :
                    NodeOf[s] = n /\ thread'[s].pc \in {"emit", "attach"}
    BY <1>2, <2>2, <2>6, CrashIs
  <2>7. CASE UNCHANGED vars
    BY <2>2, <2>7 DEF vars
  <2>8. QED
    BY <1>2, <2>2, <2>3, <2>4, <2>5, <2>6, <2>7 DEF Next
<1>3. QED
  BY <1>1, <1>2, MeshInvariant, PTL DEF Spec

(* drain_pending: handlers never get an event of their own node back.      *)
THEOREM NoEchoHolds == Spec => NoEcho
<1>1. ASSUME Inv, [Next]_vars, NEW e \in Ids, e \in handled'[origin[e]]
      PROVE  e \in handled[origin[e]]
  <2>1. origin[e] \in Nodes
    BY <1>1, TypeParts DEF Ids
  <2>2. CASE \E t \in Ingesters : Poll(t)
    <3>1. PICK t \in Ingesters : Poll(t)
      BY <2>2
    <3>2. CASE NodeOf[t] # origin[e]
      BY <1>1, <2>1, <3>1, <3>2, OthersStay
    <3>3. CASE NodeOf[t] = origin[e] /\ Emit(t)
      <4>1. thread[t].pc = "emit" /\ handled'[NodeOf[t]] = handled[NodeOf[t]] \cup {thread[t].event}
        BY <1>1, <3>3, Effects
      <4>2. origin[thread[t].event] # NodeOf[t]
        BY <1>1, <4>1 DEF Inv, Roles, Foreign
      <4>3. QED
        BY <1>1, <3>3, <4>1, <4>2
    <3>4. CASE ~ Emit(t)
      <4>1. handled' = handled
        BY <1>1, <3>1, <3>4, Effects DEF Poll
      <4>2. QED
        BY <1>1, <4>1
    <3>5. QED
      BY <3>2, <3>3, <3>4
  <2>3. CASE \E p \in Publishers : Publish(p)
    <3>1. PICK p \in Publishers : Publish(p)
      BY <2>3
    <3>2. /\ handled'[NodeOf[p]] = handled[NodeOf[p]] \cup {Len(origin) + 1}
          /\ \A m \in Nodes \ {NodeOf[p]} : handled'[m] = handled[m]
      BY <1>1, <3>1, PublishIs
    <3>3. e # Len(origin) + 1
      BY <1>1, TypeParts DEF Ids
    <3>4. QED
      BY <1>1, <2>1, <3>2, <3>3
  <2>4. CASE \E n \in Nodes : Crash(n)
    BY <1>1, <2>1, <2>4, CrashIs
  <2>5. CASE (\E p \in Publishers : Send(p)) \/ UNCHANGED vars
    BY <1>1, <2>5, SendIs DEF vars
  <2>6. QED
    BY <1>1, <2>2, <2>3, <2>4, <2>5 DEF Next
<1>2. Inv /\ [Next]_vars =>
        [\A e \in Ids : e \in handled'[origin[e]] => e \in handled[origin[e]]]_vars
  BY <1>1
<1>3. QED
  BY <1>2, MeshInvariant, PTL DEF Spec, NoEcho

-----------------------------------------------------------------------------
(* What is true of the nodes with one ingesting thread.  An event in _seen *)
(* or about to be acked is received, or in the hands of the ingest that    *)
(* has yet to emit it.                                                     *)
Delivery ==
  /\ AckedWasHandled
  /\ \A n \in Sole : \A e \in seen[n] :
       \/ e \in received[n]
       \/ \E t \in Ingesters :
            NodeOf[t] = n /\ thread[t].pc \in {"detach", "emit"} /\ thread[t].event = e
  /\ \A t \in Ingesters :
       NodeOf[t] \in Sole /\ thread[t].pc \in {"attach", "ack"} =>
         thread[t].event \in received[NodeOf[t]]

LEMMA PollDelivers ==
  ASSUME Inv, Delivery, NEW t \in Ingesters, Poll(t)
  PROVE  Delivery'
<1> DEFINE n == NodeOf[t]
           e == thread[t].event
<1>1. n \in Nodes /\ t \in Threads
  BY TypeParts, ThreadKinds
<1>2. /\ \A s \in Ingesters \ {t} : thread'[s] = thread[s]
      /\ n \in Sole => \A s \in Ingesters \ {t} : NodeOf[s] # n
      /\ \A m \in Nodes \ {n} :
           acked'[m] = acked[m] /\ seen'[m] = seen[m] /\ received'[m] = received[m]
  BY OthersStay, ThreadKinds DEF Sole
<1>3. ASSUME n \in Sole
      PROVE  /\ acked[n] \subseteq received[n]
             /\ \A i \in seen[n] :
                  i \in received[n] \/ (thread[t].pc \in {"detach", "emit"} /\ e = i)
             /\ thread[t].pc \in {"attach", "ack"} => e \in received[n]
  BY <1>1, <1>2, <1>3 DEF Delivery, AckedWasHandled
<1>4. ASSUME n \in Sole
      PROVE  /\ acked'[n] \subseteq received'[n]
             /\ \A i \in seen'[n] :
                  i \in received'[n]
                    \/ (thread'[t].pc \in {"detach", "emit"} /\ thread'[t].event = i)
             /\ thread'[t].pc \in {"attach", "ack"} => thread'[t].event \in received'[n]
  <2>0. /\ acked[n] \subseteq received[n]
        /\ \A i \in seen[n] :
             i \in received[n] \/ (thread[t].pc \in {"detach", "emit"} /\ e = i)
        /\ thread[t].pc \in {"attach", "ack"} => e \in received[n]
    BY <1>3, <1>4
  <2>1. CASE Drain(t) \/ PollEnds(t)
    <3>1. /\ thread[t].pc \notin {"detach", "emit"} /\ thread'[t].pc \in {"next", "idle"}
          /\ UNCHANGED <<acked, seen, received>>
      BY <2>1, Effects DEF Drain, PollEnds, At
    <3>2. QED
      BY <2>0, <3>1
  <2>2. CASE NextEvent(t)
    <3>1. PICK i \in thread[t].batch :
            /\ thread[t].pc = "next" /\ thread'[t].event = rows[i]
            /\ thread'[t].pc = IF rows[i] \in seen[n] THEN "ack" ELSE "remember"
            /\ UNCHANGED <<acked, seen, received>>
      BY <2>2, Effects
    <3>2. QED
      BY <2>0, <3>1
  <2>3. CASE AddSeen(t)
    BY <2>0, <2>3, Effects
  <2>4. CASE Unsubscribe(t)
    BY <2>0, <2>4, Effects
  <2>5. CASE Emit(t)
    BY <2>0, <2>5, Effects
  <2>6. CASE Subscribe(t)
    BY <2>0, <2>6, Effects
  <2>7. CASE Ack(t)
    BY <2>0, <2>7, Effects
  <2>8. QED
    BY <2>1, <2>2, <2>3, <2>4, <2>5, <2>6, <2>7 DEF Poll
<1>5. AckedWasHandled'
  <2>1. ASSUME NEW m \in Sole PROVE acked'[m] \subseteq received'[m]
    <3>1. m \in Nodes
      BY DEF Sole
    <3>2. m # n => acked'[m] \subseteq received'[m]
      BY <1>2, <3>1 DEF Delivery, AckedWasHandled
    <3>3. QED
      BY <1>4, <3>2
  <2>2. QED
    BY <2>1 DEF AckedWasHandled, Sole
<1>6. ASSUME NEW m \in Sole, NEW i \in seen'[m]
      PROVE  \/ i \in received'[m]
             \/ \E s \in Ingesters : /\ NodeOf[s] = m /\ thread'[s].event = i
                                     /\ thread'[s].pc \in {"detach", "emit"}
  <2>1. CASE m = n
    BY <1>4, <1>6, <2>1
  <2>2. CASE m # n
    <3>1. i \in seen[m] /\ received'[m] = received[m]
      BY <1>2, <1>6, <2>2 DEF Sole
    <3>2. \/ i \in received[m]
          \/ \E s \in Ingesters : /\ NodeOf[s] = m /\ thread[s].event = i
                                  /\ thread[s].pc \in {"detach", "emit"}
      BY <3>1 DEF Delivery
    <3>3. QED
      BY <1>2, <2>2, <3>1, <3>2
  <2>3. QED
    BY <2>1, <2>2
<1>7. ASSUME NEW s \in Ingesters, NodeOf[s] \in Sole, thread'[s].pc \in {"attach", "ack"}
      PROVE  thread'[s].event \in received'[NodeOf[s]]
  <2>1. CASE s = t
    BY <1>4, <1>7, <2>1
  <2>2. CASE s # t
    <3>1. NodeOf[s] \in Nodes
      BY TypeParts, ThreadKinds
    <3>2. QED
      BY <1>2, <1>7, <2>2, <3>1 DEF Delivery
  <2>3. QED
    BY <2>1, <2>2
<1>8. QED
  BY <1>5, <1>6, <1>7 DEF Delivery

LEMMA NextDelivers ==
  ASSUME Inv, Delivery, [Next]_vars
  PROVE  Delivery'
<1>0. \A t \in Ingesters : NodeOf[t] \in Nodes
  BY TypeParts, ThreadKinds
<1>1. ASSUME NEW p \in Publishers, Publish(p) PROVE Delivery'
  <2> DEFINE n == NodeOf[p]
             i == Len(origin) + 1
  <2>1. /\ \A t \in Ingesters : thread'[t] = thread[t]
        /\ acked' = acked /\ received'[n] = received[n] \cup {i}
        /\ seen'[n] \subseteq seen[n] \cup {i}
        /\ \A m \in Nodes \ {n} : received'[m] = received[m] /\ seen'[m] = seen[m]
    BY <1>1, PublishIs
  <2> HIDE DEF n, i
  <2>2. \A m \in Nodes : received[m] \subseteq received'[m]
    BY <2>1
  <2>3. \A m \in Nodes : \A e \in seen'[m] : e \in seen[m] \/ e \in received'[m]
    BY <2>1
  <2>4. QED
    <3>1. \A m \in Sole : m \in Nodes
      BY DEF Sole
    <3>2. AckedWasHandled'
      BY <2>1, <2>2, <3>1 DEF Delivery, AckedWasHandled, Sole
    <3>3. \A m \in Sole : \A e \in seen'[m] :
            \/ e \in received'[m]
            \/ \E t \in Ingesters : /\ NodeOf[t] = m /\ thread'[t].event = e
                                    /\ thread'[t].pc \in {"detach", "emit"}
      BY <2>1, <2>2, <2>3, <3>1 DEF Delivery
    <3>4. \A t \in Ingesters :
            NodeOf[t] \in Sole /\ thread'[t].pc \in {"attach", "ack"} =>
              thread'[t].event \in received'[NodeOf[t]]
      BY <1>0, <2>1, <2>2 DEF Delivery
    <3>5. QED
      BY <3>2, <3>3, <3>4 DEF Delivery
<1>2. ASSUME NEW p \in Publishers, Send(p) PROVE Delivery'
  BY <1>2, SendIs DEF Delivery, AckedWasHandled
<1>3. ASSUME NEW n \in Nodes, Crash(n) PROVE Delivery'
  <2>1. /\ UNCHANGED <<acked, received>> /\ seen'[n] = {}
        /\ \A m \in Nodes \ {n} : seen'[m] = seen[m]
        /\ \A t \in Ingesters : NodeOf[t] = n => thread'[t].pc = "idle"
        /\ \A t \in Ingesters : NodeOf[t] # n => thread'[t] = thread[t]
    BY <1>3, CrashIs
  <2>2. AckedWasHandled'
    BY <2>1 DEF Delivery, AckedWasHandled
  <2>3. \A m \in Sole : \A e \in seen'[m] :
          \/ e \in received'[m]
          \/ \E t \in Ingesters : /\ NodeOf[t] = m /\ thread'[t].pc \in {"detach", "emit"}
                                  /\ thread'[t].event = e
    BY <2>1 DEF Delivery, Sole
  <2>4. \A t \in Ingesters :
          NodeOf[t] \in Sole /\ thread'[t].pc \in {"attach", "ack"} =>
            thread'[t].event \in received'[NodeOf[t]]
    BY <2>1 DEF Delivery
  <2>5. QED
    BY <2>2, <2>3, <2>4 DEF Delivery
<1>4. CASE UNCHANGED vars
  BY <1>4 DEF vars, Delivery, AckedWasHandled
<1>5. QED
  BY <1>1, <1>2, <1>3, <1>4, PollDelivers DEF Next

(* poll_durable_transport: where one thread ingests, an event is acked     *)
(* only for a node whose handlers got it, wherever the process dies.       *)
THEOREM AckedWasHandledHolds == Spec => []AckedWasHandled
<1>1. Init => Delivery
  BY IdleIs, ThreadKinds DEF Init, Delivery, AckedWasHandled
<1>2. Inv /\ Delivery /\ [Next]_vars => Delivery'
  BY NextDelivers
<1>3. Delivery => AckedWasHandled
  BY DEF Delivery
<1>4. QED
  BY <1>1, <1>2, <1>3, MeshInvariant, PTL DEF Spec

-----------------------------------------------------------------------------
(* While no id has been dropped from _seen, it holds every ingested event  *)
(* the handlers got, and an ingest that found an event new still knows it  *)
(* has not been handled when it emits it.                                  *)
NothingDropped == MaxEvents <= SeenLimit

Fresh ==
  /\ Len(origin) <= MaxEvents
  /\ \A n \in Sole : \A e \in handled[n] : origin[e] = n \/ e \in seen[n]
  /\ \A t \in Ingesters : NodeOf[t] \in Sole =>
       /\ thread[t].pc \in {"remember", "detach", "emit"} =>
            thread[t].event \notin handled[NodeOf[t]]
       /\ thread[t].pc \in {"detach", "emit"} => thread[t].event \in seen[NodeOf[t]]

(* No more than SeenLimit ids: all of them are remembered.                 *)
LEMMA AllRemembered ==
  ASSUME Inv, NothingDropped, NEW n \in Nodes, NEW k \in Nat, k <= MaxEvents,
         NEW e, NEW now, seen[n] \cup {e} \subseteq 1..k, Remember(n, e, now)
  PROVE  now = seen[n] \cup {e}
<1> DEFINE all == seen[n] \cup {e}
<1>1. IsFiniteSet(1..k) /\ Cardinality(1..k) = k
  <2>1. IsFiniteSet(1..k) /\ Cardinality(1..k) = IF 1 > k THEN 0 ELSE k - 1 + 1
    BY FS_Interval
  <2>2. QED
    BY <2>1
<1>2. Cardinality(all) <= Cardinality(1..k) /\ Cardinality(all) \in Nat
  BY <1>1, FS_Subset, FS_CardinalityType
<1>3. Cardinality(all) <= SeenLimit
  BY <1>1, <1>2, MeshBounds DEF NothingDropped
<1>4. QED
  BY <1>3 DEF Remember

LEMMA PollFresh ==
  ASSUME NothingDropped, Inv, Fresh, NEW t \in Ingesters, Poll(t)
  PROVE  Fresh'
<1> DEFINE n == NodeOf[t]
           e == thread[t].event
<1>1. n \in Nodes /\ t \in Threads
  BY TypeParts, ThreadKinds
<1>2. /\ \A s \in Ingesters \ {t} : thread'[s] = thread[s]
      /\ n \in Sole => \A s \in Ingesters \ {t} : NodeOf[s] # n
      /\ \A m \in Nodes \ {n} : handled'[m] = handled[m] /\ seen'[m] = seen[m]
      /\ origin' = origin
  BY OthersStay, ThreadKinds DEF Sole
<1>3. ASSUME n \in Sole
      PROVE  /\ \A i \in handled[n] : origin[i] = n \/ i \in seen[n]
             /\ thread[t].pc \in {"remember", "detach", "emit"} => e \notin handled[n]
             /\ thread[t].pc \in {"detach", "emit"} => e \in seen[n]
  BY <1>1, <1>3 DEF Fresh
<1>4. ASSUME n \in Sole
      PROVE  /\ \A i \in handled'[n] : origin[i] = n \/ i \in seen'[n]
             /\ thread'[t].pc \in {"remember", "detach", "emit"} =>
                  thread'[t].event \notin handled'[n]
             /\ thread'[t].pc \in {"detach", "emit"} => thread'[t].event \in seen'[n]
  <2>0. /\ \A i \in handled[n] : origin[i] = n \/ i \in seen[n]
        /\ thread[t].pc \in {"remember", "detach", "emit"} => e \notin handled[n]
        /\ thread[t].pc \in {"detach", "emit"} => e \in seen[n]
    BY <1>3, <1>4
  <2>1. CASE Drain(t) \/ PollEnds(t)
    BY <2>0, <2>1, Effects
  <2>2. CASE NextEvent(t)
    <3>1. PICK i \in thread[t].batch :
            /\ thread'[t].event = rows[i]
            /\ thread'[t].pc = IF rows[i] \in seen[n] THEN "ack" ELSE "remember"
            /\ UNCHANGED <<seen, handled>>
      BY <2>2, Effects
    <3>2. origin[rows[i]] # n
      BY DEF Inv, Roles, Foreign
    <3>3. QED
      BY <2>0, <3>1, <3>2
  <2>3. CASE AddSeen(t)
    <3>1. /\ thread[t].pc = "remember" /\ thread'[t].pc = "detach"
          /\ thread'[t].event = e /\ handled' = handled
          /\ Remember(n, e, seen'[n])
      BY <2>3, Effects
    <3>2. e \in Ids /\ seen[n] \subseteq Ids
      BY <1>1, <3>1, TypeParts DEF Inv, Roles, Foreign
    <3>3. seen'[n] = seen[n] \cup {e}
      <4>1. Len(origin) \in Nat /\ Len(origin) <= MaxEvents
        BY TypeParts DEF Fresh
      <4>2. seen[n] \cup {e} \subseteq 1..Len(origin)
        BY <3>2 DEF Ids
      <4>3. QED
        BY <1>1, <3>1, <4>1, <4>2, AllRemembered
    <3>4. QED
      BY <2>0, <3>1, <3>3
  <2>4. CASE Unsubscribe(t)
    BY <2>0, <2>4, Effects
  <2>5. CASE Emit(t)
    BY <2>0, <2>5, Effects
  <2>6. CASE Subscribe(t)
    BY <2>0, <2>6, Effects
  <2>7. CASE Ack(t)
    BY <2>0, <2>7, Effects
  <2>8. QED
    BY <2>1, <2>2, <2>3, <2>4, <2>5, <2>6, <2>7 DEF Poll
<1>5. \A m \in Sole : \A i \in handled'[m] : origin'[i] = m \/ i \in seen'[m]
  BY <1>2, <1>4 DEF Fresh, Sole
<1>6. ASSUME NEW s \in Ingesters, NodeOf[s] \in Sole
      PROVE  /\ thread'[s].pc \in {"remember", "detach", "emit"} =>
                  thread'[s].event \notin handled'[NodeOf[s]]
             /\ thread'[s].pc \in {"detach", "emit"} =>
                  thread'[s].event \in seen'[NodeOf[s]]
  <2>1. CASE s = t
    <3>1. n \in Sole
      BY <1>6, <2>1
    <3>2. QED
      BY <1>4, <2>1, <3>1
  <2>2. CASE s # t
    <3>1. NodeOf[s] \in Nodes
      BY TypeParts, ThreadKinds
    <3>2. QED
      <4>1. /\ thread'[s] = thread[s] /\ NodeOf[s] # n
        BY <1>2, <1>6, <2>2
      <4>2. handled'[NodeOf[s]] = handled[NodeOf[s]] /\ seen'[NodeOf[s]] = seen[NodeOf[s]]
        BY <1>2, <3>1, <4>1
      <4>3. QED
        BY <1>6, <4>1, <4>2 DEF Fresh
  <2>3. QED
    BY <2>1, <2>2
<1>7. QED
  BY <1>2, <1>5, <1>6 DEF Fresh

LEMMA NextFresh ==
  ASSUME NothingDropped, Inv, Fresh, [Next]_vars
  PROVE  Fresh'
<1>0. \A t \in Ingesters : /\ NodeOf[t] \in Nodes
                           /\ thread[t].pc \notin {"idle", "next"} => thread[t].event \in Ids
  BY TypeParts, ThreadKinds DEF Inv, Roles, Foreign
<1>1. ASSUME NEW p \in Publishers, Publish(p) PROVE Fresh'
  <2> DEFINE n == NodeOf[p]
             i == Len(origin) + 1
  <2>1. /\ \A t \in Ingesters : thread'[t] = thread[t]
        /\ n \in Nodes /\ i <= MaxEvents /\ origin' = Append(origin, n)
        /\ handled'[n] = handled[n] \cup {i}
        /\ seen' = seen \/ Remember(n, i, seen'[n])
        /\ \A m \in Nodes \ {n} : handled'[m] = handled[m] /\ seen'[m] = seen[m]
    BY <1>1, PublishIs
  <2>2. /\ i \in Ids' /\ Ids \subseteq Ids' /\ i \notin Ids /\ i \in Nat
        /\ origin'[i] = n /\ \A e \in Ids : origin'[e] = origin[e]
        /\ Ids' = 1..i
    <3>1. Len(origin') = i
      BY <2>1, TypeParts
    <3>2. QED
      BY <2>1, <3>1, Published DEF Ids
  <2>3. seen[n] \subseteq seen'[n]
    <3>1. seen[n] \cup {i} \subseteq 1..i
      BY <2>1, <2>2, TypeParts
    <3>2. Remember(n, i, seen'[n]) => seen'[n] = seen[n] \cup {i}
      BY <2>1, <2>2, <3>1, AllRemembered
    <3>3. QED
      BY <2>1, <3>2
  <2>4. Len(origin') <= MaxEvents
    BY <2>1, TypeParts
  <2> HIDE DEF n, i
  <2>5. ASSUME NEW m \in Sole, NEW e \in handled'[m]
        PROVE  origin'[e] = m \/ e \in seen'[m]
    <3>0. m \in Nodes
      BY DEF Sole
    <3>1. CASE e \in handled[m]
      <4>1. e \in Ids
        BY <3>0, <3>1, TypeParts
      <4>2. origin[e] = m \/ e \in seen[m]
        BY <3>1 DEF Fresh
      <4>3. QED
        BY <2>1, <2>2, <2>3, <3>0, <4>1, <4>2
    <3>2. CASE e \notin handled[m]
      BY <2>1, <2>2, <2>5, <3>0, <3>2
    <3>3. QED
      BY <3>1, <3>2
  <2>6. ASSUME NEW t \in Ingesters, NodeOf[t] \in Sole
        PROVE  /\ thread'[t].pc \in {"remember", "detach", "emit"} =>
                    thread'[t].event \notin handled'[NodeOf[t]]
               /\ thread'[t].pc \in {"detach", "emit"} =>
                    thread'[t].event \in seen'[NodeOf[t]]
    <3>1. thread'[t] = thread[t] /\ NodeOf[t] \in Nodes
      BY <1>0, <2>1
    <3>2. thread[t].pc \in {"remember", "detach", "emit"} => thread[t].event # i
      BY <1>0, <2>2
    <3>3. /\ \A e \in handled'[NodeOf[t]] : e \in handled[NodeOf[t]] \/ e = i
          /\ seen[NodeOf[t]] \subseteq seen'[NodeOf[t]]
      BY <2>1, <2>3, <3>1
    <3>4. QED
      BY <2>6, <3>1, <3>2, <3>3 DEF Fresh
  <2>7. QED
    BY <2>4, <2>5, <2>6 DEF Fresh
<1>2. ASSUME NEW p \in Publishers, Send(p) PROVE Fresh'
  BY <1>2, SendIs DEF Fresh
<1>3. ASSUME NEW n \in Nodes, Crash(n) PROVE Fresh'
  <2>1. /\ origin' = origin /\ seen'[n] = {} /\ handled'[n] = {}
        /\ \A m \in Nodes \ {n} : seen'[m] = seen[m] /\ handled'[m] = handled[m]
        /\ \A t \in Ingesters : NodeOf[t] = n => thread'[t].pc = "idle"
        /\ \A t \in Ingesters : NodeOf[t] # n => thread'[t] = thread[t]
    BY <1>3, CrashIs
  <2>2. \A m \in Sole : \A e \in handled'[m] : origin'[e] = m \/ e \in seen'[m]
    BY <2>1 DEF Fresh, Sole
  <2>3. QED
    BY <1>0, <2>1, <2>2 DEF Fresh
<1>4. CASE UNCHANGED vars
  BY <1>4 DEF vars, Fresh
<1>5. QED
  BY <1>1, <1>2, <1>3, <1>4, PollFresh DEF Next

(* _fanout: where one thread ingests, and as long as _seen has not been    *)
(* trimmed, no event is emitted twice in one life of a process.            *)
THEOREM OncePerLifeHolds ==
  ASSUME NothingDropped PROVE Spec => OncePerLife
<1>1. Init => Fresh
  BY IdleIs, ThreadKinds, MeshBounds DEF Init, Fresh
<1>2. Inv /\ Fresh /\ [Next]_vars => Fresh'
  BY NextFresh
<1>3. Fresh =>
        [\A t \in Ingesters :
           (NodeOf[t] \in Sole /\ At(t, "emit") /\ thread'[t].pc = "attach") =>
             thread[t].event \notin handled[NodeOf[t]]]_vars
  BY DEF Fresh, At
<1>4. QED
  BY <1>1, <1>2, <1>3, MeshInvariant, PTL DEF Spec, OncePerLife
=============================================================================
