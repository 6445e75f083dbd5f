------------------------------ MODULE ActorMesh ------------------------------
(***************************************************************************)
(* Remote actors: request and reply between nodes over the TCP backend     *)
(* (runtime/actor_mesh.py).  Every node has one receive thread, and it runs *)
(* the handlers itself; a handler may make a request of its own.  A frame  *)
(* travels once over every connection, so two nodes that dial each other   *)
(* see it twice.                                                           *)
(***************************************************************************)
EXTENDS Integers, Sequences, FiniteSets

CONSTANTS
  Nodes,       \* ActorMesh instances; a node also names its receive thread
  Callers,     \* other threads of the nodes that call request() or publish()
  HomeOf,      \* [Callers -> Nodes]
  Actors,      \* named actors
  HostOf,      \* [Actors -> Nodes], the routes every node has
  Calls,       \* [Actors -> Actors \cup {None}], whom a handler itself requests
  Links,       \* TCP connections between nodes
  Ends,        \* [Links -> SUBSET Nodes], the two ends of each
  MaxIds,      \* bound: requests and publications
  MaxFaults,   \* bound: garbled frames, unregistered actors, detached nodes and
               \* trimmings of _seen
  None

Threads == Nodes \cup Callers
Ids     == 1..MaxIds
Kinds   == {"req", "rep", "pub"}

ASSUME ConstantsAssumption ==
  /\ HomeOf \in [Callers -> Nodes]
  /\ HostOf \in [Actors -> Nodes]
  /\ Calls \in [Actors -> Actors \cup {None}]
  /\ \A a \in Actors : Calls[a] # None => Calls[Calls[a]] = None
  /\ Ends \in [Links -> SUBSET Nodes]
  /\ \A l \in Links, n \in Nodes : \E p \in Nodes : n \in Ends[l] => p # n /\ Ends[l] = {n, p}
  /\ MaxIds \in Nat /\ MaxFaults \in Nat
  /\ Nodes \cap Callers = {} /\ None \notin Nodes \cup Actors

VARIABLES
  last,      \* ids handed out (uuid4)
  conns,     \* SocketActorBackend._conns of each node
  wire,      \* frames on their way to a node over a link, its _inbox included
  garbled,   \* <<link, node>>: the node's reader lost the frame boundary
  seen,      \* ActorMesh._seen
  pending,   \* ActorMesh._pending, its keys
  box,       \* what the box of each request holds: a reply's payload, or an error
  thread,    \* what each thread is doing
  life,      \* "up", "closing" inside detach(), "down"
  served,    \* actors with a registered handler
  faults,
  runs,      \* history: deliveries of each message at each node
  results,   \* history: what handlers made of each request
  outcome,   \* history: how request() ended
  forgot     \* history: ids dropped from _seen

net   == <<conns, wire, garbled>>
hist  == <<runs, results, outcome, forgot>>
vars  == <<last, net, seen, pending, box, thread, life, served, faults, hist>>

Message == [id : 1..(2 * MaxIds), kind : Kinds, from : Nodes, to : Nodes \cup {None},
            actor : Actors \cup {None}, re : 0..MaxIds, ok : BOOLEAN]

NodeOf(t) == IF t \in Nodes THEN t ELSE HomeOf[t]
Peer(l, n) == CHOOSE p \in Nodes : Ends[l] = {n, p}

Request(id, n, a) == [id |-> id, kind |-> "req", from |-> n, to |-> HostOf[a],
                      actor |-> a, re |-> 0, ok |-> TRUE]
Reply(m, n, good) == [id |-> MaxIds + m.id, kind |-> "rep", from |-> n, to |-> m.from,
                      actor |-> m.actor, re |-> m.id, ok |-> good]
Pub(id, n)        == [id |-> id, kind |-> "pub", from |-> n, to |-> None,
                      actor |-> None, re |-> 0, ok |-> TRUE]

\* A thread is idle, runs the handler of serves, waits for the reply to
\* waits, or has seen the wait expire.  called: the handler made its request.
Thread(at, serves, called, waits) ==
  [at |-> at, serves |-> serves, called |-> called, waits |-> waits]
Idle == Thread("idle", None, FALSE, 0)

TypeOK ==
  /\ last \in 0..MaxIds
  /\ conns \in [Nodes -> SUBSET Links]
  /\ wire \in [Links -> [Nodes -> Seq(Message)]]
  /\ garbled \subseteq Links \X Nodes
  /\ seen \in [Nodes -> SUBSET (1..(2 * MaxIds))]
  /\ pending \in [Nodes -> SUBSET Ids]
  /\ box \in [Ids -> {"empty", "ok", "failed", "detached"}]
  /\ thread \in [Threads -> [at : {"idle", "running", "waiting", "expired"},
                             serves : Message \cup {None}, called : BOOLEAN,
                             waits : 0..MaxIds]]
  /\ life \in [Nodes -> {"up", "closing", "down"}]
  /\ served \subseteq Actors
  /\ faults \in 0..MaxFaults
  /\ runs \in [Nodes -> [Ids -> Nat]]
  /\ results \in [Ids -> SUBSET BOOLEAN]
  /\ outcome \in [Ids -> {"none", "ok", "failed", "timeout", "detached"}]
  /\ forgot \in [Nodes -> SUBSET (1..(2 * MaxIds))]

Init ==
  /\ last = 0
  /\ conns = [n \in Nodes |-> {l \in Links : n \in Ends[l]}]
  /\ wire = [l \in Links |-> [n \in Nodes |-> <<>>]]
  /\ garbled = {}
  /\ seen = [n \in Nodes |-> {}]
  /\ pending = [n \in Nodes |-> {}]
  /\ box = [i \in Ids |-> "empty"]
  /\ thread = [t \in Threads |-> Idle]
  /\ life = [n \in Nodes |-> "up"]
  /\ served = Actors
  /\ faults = 0
  /\ runs = [n \in Nodes |-> [i \in Ids |-> 0]]
  /\ results = [i \in Ids |-> {}]
  /\ outcome = [i \in Ids |-> "none"]
  /\ forgot = [n \in Nodes |-> {}]
-----------------------------------------------------------------------------
(* The TCP backend.  The readers and the queue they fill are one with the  *)
(* connections: wire[l][n] starts with the frames already in n's inbox.    *)

\* send(): a copy over every connection.  One whose other end is closed, or
\* reads nonsense, takes the bytes and loses them.
Sent(w, n, m) ==
  [l \in Links |->
    LET p == Peer(l, n) IN
    IF l \in conns[n] /\ l \in conns[p] /\ <<l, p>> \notin garbled
    THEN [w[l] EXCEPT ![p] = Append(@, m)]
    ELSE w[l]]
Transmit(n, m) == wire' = Sent(wire, n, m)

\* _reader_loop(): the socket times out inside a frame, or the sends of two
\* threads interleave.  The bytes read so far are thrown away, the rest is
\* taken for a header, and what follows is swallowed by a bogus length.  The
\* first k frames are in the inbox already.
LoseBoundary(n, l) ==
  /\ l \in conns[n] /\ <<l, n>> \notin garbled
  /\ faults < MaxFaults /\ faults' = faults + 1
  /\ garbled' = garbled \cup {<<l, n>>}
  /\ \E k \in 0..Len(wire[l][n]) : wire' = [wire EXCEPT ![l][n] = SubSeq(@, 1, k)]
  /\ UNCHANGED <<last, conns, seen, pending, box, thread, life, served, hist>>

\* The bogus length is over 8 MB, or the other end is closed and drained: the
\* reader leaves its loop and closes the connection.  Nothing redials.
ReaderEnds(n, l) ==
  /\ l \in conns[n] /\ (<<l, n>> \in garbled \/ l \notin conns[Peer(l, n)])
  /\ conns' = [conns EXCEPT ![n] = @ \ {l}]
  /\ garbled' = garbled \ {<<l, n>>}
  /\ UNCHANGED <<last, wire, seen, pending, box, thread, life, served, faults, hist>>

\* add_peer(): dial again, once both ends are rid of the old connection.
AddPeer(l) ==
  /\ \A n \in Ends[l] : life[n] = "up" /\ l \notin conns[n]
  /\ conns' = [n \in Nodes |-> IF n \in Ends[l] THEN conns[n] \cup {l} ELSE conns[n]]
  /\ UNCHANGED <<last, wire, garbled, seen, pending, box, thread, life, served, faults, hist>>
-----------------------------------------------------------------------------
(* The mesh.                                                               *)

\* As a bug: sends and receptions leave no mark.
RememberSlip(n, ids) == UNCHANGED <<seen, forgot, faults>>

\* _mark_seen(): over the limit, an arbitrary half of the set survives.  The
\* ids of other traffic fill _seen as well, so that it may be any reception
\* that goes over the limit, and any of these ids that survive.
Remember(n, ids) ==
  LET now == seen[n] \cup ids IN
  \/ seen' = [seen EXCEPT ![n] = now] /\ UNCHANGED <<forgot, faults>>
  \/ /\ faults < MaxFaults /\ faults' = faults + 1
     /\ \E kept \in (SUBSET now) \ {now} :
          /\ seen' = [seen EXCEPT ![n] = kept]
          /\ forgot' = [forgot EXCEPT ![n] = @ \cup (now \ kept)]

Count(n, id) == runs' = [runs EXCEPT ![n][id] = @ + 1]

\* publish(): delivered here, then sent to every peer.
Publish(t) ==
  LET n == NodeOf(t) IN
  /\ t \in Callers /\ thread[t].at = "idle" /\ last < MaxIds
  /\ last' = last + 1
  /\ Remember(n, {last'})
  /\ Count(n, last')
  /\ Transmit(n, Pub(last', n))
  /\ UNCHANGED <<conns, garbled, pending, box, thread, life, served, results, outcome>>

\* request() of an actor this node hosts: its handler runs in the caller's
\* thread.  One a handler requests runs to its end within this step.
AskLocal(t, a, serving) ==
  LET n == NodeOf(t) IN
  /\ HostOf[a] = n /\ a \in served
  /\ Count(n, last')
  /\ thread' = [thread EXCEPT ![t] = IF serving = None
                  THEN Thread("running", Request(last', n, a), FALSE, 0)
                  ELSE Thread("running", serving, TRUE, 0)]
  /\ UNCHANGED <<wire, seen, forgot, faults, pending>>

\* request() of any other: registered, marked seen, sent, waited for.  With
\* no handler here for an actor routed here, it goes out all the same.
AskRemote(t, a, serving) ==
  LET n == NodeOf(t) IN
  /\ ~(HostOf[a] = n /\ a \in served)
  /\ pending' = [pending EXCEPT ![n] = @ \cup {last'}]
  /\ Remember(n, {last'})
  /\ Transmit(n, Request(last', n, a))
  /\ thread' = [thread EXCEPT ![t] = Thread("waiting", serving, TRUE, last')]
  /\ UNCHANGED runs

Ask(t, a, serving) ==
  /\ last < MaxIds /\ last' = last + 1
  /\ AskLocal(t, a, serving) \/ AskRemote(t, a, serving)
  /\ UNCHANGED <<conns, garbled, box, life, served, results, outcome>>

CallerAsks(t) ==
  /\ t \in Callers /\ thread[t].at = "idle"
  /\ \E a \in Actors : Ask(t, a, None)

MustAsk(t) == thread[t].at = "running" /\ Calls[thread[t].serves.actor] # None /\ ~thread[t].called

HandlerAsks(t) ==
  /\ MustAsk(t)
  /\ Ask(t, Calls[thread[t].serves.actor], thread[t].serves)

\* The request is over for the thread: a caller returns, a handler goes on.
Resume(t, how) ==
  IF thread[t].serves = None
  THEN /\ outcome' = [outcome EXCEPT ![thread[t].waits] = how]
       /\ thread' = [thread EXCEPT ![t] = Idle]
  ELSE /\ thread' = [thread EXCEPT ![t] = Thread("running", @.serves, TRUE, 0)]
       /\ UNCHANGED outcome

\* event.wait() returned true: an error, or the reply's payload.
WakeUp(t) ==
  /\ thread[t].at = "waiting" /\ box[thread[t].waits] # "empty"
  /\ Resume(t, box[thread[t].waits])
  /\ UNCHANGED <<last, net, seen, pending, box, life, served, faults, runs, results, forgot>>

\* As a bug: only callers bound their wait, handlers wait for ever.
WaitExpiresSlip(t) ==
  /\ t \in Callers /\ thread[t].at = "waiting" /\ box[thread[t].waits] = "empty"
  /\ thread' = [thread EXCEPT ![t] = Thread("expired", @.serves, TRUE, @.waits)]
  /\ UNCHANGED <<last, net, seen, pending, box, life, served, faults, hist>>

\* event.wait() returned false; a reply may still slip in before the pop.
WaitExpires(t) ==
  /\ thread[t].at = "waiting" /\ box[thread[t].waits] = "empty"
  /\ thread' = [thread EXCEPT ![t] = Thread("expired", @.serves, TRUE, @.waits)]
  /\ UNCHANGED <<last, net, seen, pending, box, life, served, faults, hist>>

\* As a bug: without the pop.
RaiseTimeoutSlip(t) ==
  /\ thread[t].at = "expired"
  /\ Resume(t, "timeout")
  /\ UNCHANGED <<last, net, seen, pending, box, life, served, faults, runs, results, forgot>>

RaiseTimeout(t) ==
  /\ thread[t].at = "expired"
  /\ pending' = [pending EXCEPT ![NodeOf(t)] = @ \ {thread[t].waits}]
  /\ Resume(t, "timeout")
  /\ UNCHANGED <<last, net, seen, box, life, served, faults, runs, results, forgot>>

\* A handler returns, or raises, perhaps before its own request: its caller
\* gets the result, a remote one over reply().
HandlerEnds(t, good) ==
  LET m == thread[t].serves IN
  /\ thread[t].at = "running" /\ (MustAsk(t) => ~good)
  /\ results' = [results EXCEPT ![m.id] = @ \cup {good}]
  /\ thread' = [thread EXCEPT ![t] = Idle]
  /\ IF t \in Nodes
     THEN /\ Remember(t, {MaxIds + m.id})
          /\ Transmit(t, Reply(m, t, good))
          /\ UNCHANGED outcome
     ELSE /\ outcome' = [outcome EXCEPT ![m.id] = IF good THEN "ok" ELSE "failed"]
          /\ UNCHANGED <<wire, seen, forgot, faults>>
  /\ UNCHANGED <<last, conns, garbled, pending, box, life, served, runs>>

\* As a bug: a second thread takes frames while a handler runs or waits.
TakesFramesSlip(n) == life[n] = "up"

\* The receive thread takes frames only between two handlers.
TakesFrames(n) == life[n] = "up" /\ thread[n].at = "idle"

\* _recv_loop() drops its own messages, repeated ones and, once they are
\* marked seen, those for another node.
Drop(n, m) ==
  /\ \/ (m.from = n \/ m.id \in seen[n]) /\ UNCHANGED <<seen, forgot, faults>>
     \/ /\ m.from # n /\ m.id \notin seen[n] /\ m.to \notin {None, n}
        /\ Remember(n, {m.id})
  /\ UNCHANGED <<pending, box, thread, runs, results>>

\* As a bug: whichever request is pending gets the reply.
TakeReplySlip(n, m) ==
  /\ m.kind = "rep" /\ Remember(n, {m.id})
  /\ pending' = [pending EXCEPT ![n] = {}]
  /\ box' = [i \in Ids |-> IF i \in pending[n] THEN IF m.ok THEN "ok" ELSE "failed" ELSE box[i]]
  /\ UNCHANGED <<thread, runs, results>>

\* _complete_pending(): the entry goes, its waiter is woken; a reply nobody
\* waits for any more changes nothing.
TakeReply(n, m) ==
  /\ m.kind = "rep" /\ Remember(n, {m.id})
  /\ IF m.re \in pending[n]
     THEN /\ pending' = [pending EXCEPT ![n] = @ \ {m.re}]
          /\ box' = [box EXCEPT ![m.re] = IF m.ok THEN "ok" ELSE "failed"]
     ELSE UNCHANGED <<pending, box>>
  /\ UNCHANGED <<thread, runs, results>>

\* _handle_request(): the handler starts, in this very thread ...
TakeRequest(n, m) ==
  /\ m.kind = "req" /\ m.actor \in served /\ HostOf[m.actor] = n
  /\ Remember(n, {m.id})
  /\ Count(n, m.id)
  /\ thread' = [thread EXCEPT ![n] = Thread("running", m, FALSE, 0)]
  /\ UNCHANGED <<pending, box, results>>

\* ... or there is none, and the reply says so.
Refuse(n, m, w) ==
  /\ m.kind = "req" /\ ~(m.actor \in served /\ HostOf[m.actor] = n)
  /\ Remember(n, {m.id, MaxIds + m.id})
  /\ results' = [results EXCEPT ![m.id] = @ \cup {FALSE}]
  /\ wire' = Sent(w, n, Reply(m, n, FALSE))
  /\ UNCHANGED <<pending, box, thread, runs>>

TakePub(n, m) ==
  /\ m.kind = "pub" /\ Remember(n, {m.id}) /\ Count(n, m.id)
  /\ UNCHANGED <<pending, box, thread, results>>

Take(n, m, w) ==
  \/ Drop(n, m) /\ wire' = w
  \/ /\ m.from # n /\ m.id \notin seen[n] /\ m.to \in {None, n}
     /\ \/ (TakeReply(n, m) \/ TakeRequest(n, m) \/ TakePub(n, m)) /\ wire' = w
        \/ Refuse(n, m, w)

Receive(n, l) ==
  /\ TakesFrames(n) /\ wire[l][n] # <<>>
  /\ Take(n, Head(wire[l][n]), [wire EXCEPT ![l][n] = Tail(@)])
  /\ UNCHANGED <<last, conns, garbled, life, served, outcome>>

\* unregister() of an actor that is gone, register() of one that is back.
Unregister(a) ==
  /\ faults < MaxFaults /\ faults' = faults + 1
  /\ a \in served /\ served' = served \ {a}
  /\ UNCHANGED <<last, net, seen, pending, box, thread, life, hist>>

Register(a) ==
  /\ a \notin served /\ served' = served \cup {a}
  /\ UNCHANGED <<last, net, seen, pending, box, thread, life, faults, hist>>

\* detach(): stop, close every connection, wait two seconds for the receive
\* thread, which may be in a handler still ...
BeginDetach(n) ==
  /\ life[n] = "up" /\ life' = [life EXCEPT ![n] = "closing"]
  /\ faults < MaxFaults /\ faults' = faults + 1
  /\ conns' = [conns EXCEPT ![n] = {}]
  /\ wire' = [l \in Links |-> [wire[l] EXCEPT ![n] = <<>>]]
  /\ garbled' = {g \in garbled : g[2] # n}
  /\ UNCHANGED <<last, seen, pending, box, thread, served, hist>>

\* ... then fail whatever is pending.
EndDetach(n) ==
  /\ life[n] = "closing" /\ life' = [life EXCEPT ![n] = "down"]
  /\ box' = [i \in Ids |-> IF i \in pending[n] THEN "detached" ELSE box[i]]
  /\ pending' = [pending EXCEPT ![n] = {}]
  /\ UNCHANGED <<last, net, seen, thread, served, faults, hist>>

Work(t) ==
  \/ HandlerAsks(t) \/ WakeUp(t) \/ WaitExpires(t) \/ RaiseTimeout(t)
  \/ \E good \in BOOLEAN : HandlerEnds(t, good)
Trouble ==
  \/ \E n \in Nodes : \E l \in conns[n] :
       LoseBoundary(n, l) \/ ReaderEnds(n, l)
  \/ \E l \in Links : AddPeer(l)
  \/ \E a \in Actors : Unregister(a) \/ Register(a)
  \/ \E n \in Nodes : BeginDetach(n) \/ EndDetach(n)

Next ==
  \/ \E t \in Callers : Publish(t) \/ CallerAsks(t)
  \/ \E t \in Threads : Work(t)
  \/ \E n \in Nodes, l \in Links : Receive(n, l)
  \/ Trouble

Spec == Init /\ [][Next]_vars
\* A thread that can go on does, and a wait ends when its time is up.  Nobody
\* has to call, and nothing is owed by the network.
FairSpec == Spec /\ \A t \in Threads : WF_vars(Work(t))
-----------------------------------------------------------------------------
\* What request() returns is what a handler made of this very request.
OwnReply ==
  \A i \in Ids : outcome[i] \in {"ok", "failed"} => (outcome[i] = "ok") \in results[i]

\* An entry of _pending belongs to a thread that is still waiting for it: no
\* way out of request() leaks one.
PendingIsAwaited ==
  \A n \in Nodes : \A i \in pending[n] :
    \E t \in Threads : NodeOf(t) = n /\ thread[t].at \in {"waiting", "expired"} /\ thread[t].waits = i

\* However many connections carry it, a message is handled once at a node,
\* unless _seen has dropped its id.
OnceUnlessForgotten ==
  \A n \in Nodes, i \in Ids : runs[n][i] > 1 => i \in forgot[n]

\* A request made by a handler on the receive thread is never answered: the
\* thread that would take the reply is the one that waits for it.
NestedNeverAnswered ==
  \A n \in Nodes : thread[n].at \in {"waiting", "expired"} => box[thread[n].waits] \in {"empty", "detached"}

\* Every request ends, and the receive thread gets back to its loop, whatever
\* the network loses and whoever waits for whom.
RequestsEnd ==
  \A t \in Threads : thread[t].at # "idle" ~> thread[t].at = "idle"
=============================================================================
