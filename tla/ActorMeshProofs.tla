--------------------------- MODULE ActorMeshProofs ---------------------------
(***************************************************************************)
(* Proofs about ActorMesh, for any nodes, links, actors and bounds.  The   *)
(* argument follows a request: ids are new when they are given out, so     *)
(* every frame carries what some thread asked or some handler made (Flow); *)
(* an entry of _pending has one thread that waits for it and a box that is *)
(* still empty (Await); and an id that was handled is marked, forgotten or *)
(* on no wire (Once).                                                      *)
(***************************************************************************)
EXTENDS ActorMesh, TLAPS, SequenceTheorems

WireType == [Links -> [Nodes -> Seq(Message)]]

\* The frames on a wire.
Frames(w) ==
  {m \in Message : \E l \in Links, q \in Nodes :
                     \E i \in DOMAIN w[l][q] : m = w[l][q][i]}

\* A message that request(), reply() or publish() made: a reply carries what
\* its handler ended with.
SoundRequest(m, k) == m.kind = "req" /\ m.id \in 1 .. k /\ m.actor \in Actors
SoundReply(m, k, made) ==
  m.kind = "rep" /\ m.re \in 1 .. k /\ m.id = MaxIds + m.re /\ m.ok \in made[m.re]
SoundPub(m, k) == m.kind = "pub" /\ m.id \in 1 .. k
Sound(m, k, made) == SoundRequest(m, k) \/ SoundReply(m, k, made) \/ SoundPub(m, k)

Waits(t) == thread[t].at \in {"waiting", "expired"}

WireSound == \A m \in Frames(wire) : Sound(m, last, results)
ThreadSound(t) ==
  /\ thread[t].serves # None \/ thread[t].at = "running" =>
       thread[t].serves \in Message /\ SoundRequest(thread[t].serves, last)
  /\ Waits(t) => thread[t].waits \in 1 .. last
ThreadsSound == \A t \in Threads : ThreadSound(t)
BoxTrue ==
  \A i \in Ids : /\ box[i] \in {"ok", "failed"} => (box[i] = "ok") \in results[i]
                 /\ i > last => box[i] = "empty"
Flow == WireSound /\ ThreadsSound /\ BoxTrue /\ OwnReply

\* No two threads wait for one request, and no entry of _pending is answered.
OneWaits ==
  \A t, u \in Threads :
    Waits(t) /\ Waits(u) /\ thread[t].waits = thread[u].waits => t = u
PendingOpen == \A n \in Nodes : \A i \in pending[n] : box[i] = "empty"
Await == PendingIsAwaited /\ PendingOpen /\ OneWaits /\ NestedNeverAnswered

\* What was handled here is marked, forgotten, or never left its node.
Unsent(i, w) == \A m \in Frames(w) : m.id # i
Counted ==
  \A n \in Nodes, i \in Ids :
    /\ i > last => runs[n][i] = 0
    /\ runs[n][i] > 0 => i \in seen[n] \cup forgot[n] \/ Unsent(i, wire)
Once == Counted /\ OnceUnlessForgotten

Inv == TypeOK /\ Flow /\ Await /\ Once

-----------------------------------------------------------------------------
(* The constants and the messages.                                         *)

LEMMA MeshFacts ==
  /\ MaxIds \in Nat /\ MaxFaults \in Nat
  /\ \A i \in Ids : i \in Nat /\ i >= 1 /\ i <= MaxIds /\ i \in 1 .. (2 * MaxIds)
  /\ \A i \in Ids : MaxIds + i \in 1 .. (2 * MaxIds) /\ MaxIds + i \notin Ids
  /\ \A a \in Actors : HostOf[a] \in Nodes /\ Calls[a] \in Actors \cup {None}
  /\ Nodes \subseteq Threads /\ \A t \in Threads : NodeOf(t) \in Nodes
  /\ \A n \in Nodes : NodeOf(n) = n
BY ConstantsAssumption DEF Ids, Threads, NodeOf

\* What the nodes send is a message.
LEMMA MessagesMade ==
  ASSUME NEW n \in Nodes
  PROVE  /\ \A i \in Ids : Pub(i, n) \in Message
         /\ \A i \in Ids, a \in Actors : Request(i, n, a) \in Message
         /\ \A m \in Message, good \in BOOLEAN :
              m.id \in Ids => Reply(m, n, good) \in Message
<1>1. \A i \in Ids : Pub(i, n) \in Message
  BY MeshFacts DEF Pub, Message, Kinds
<1>2. \A i \in Ids, a \in Actors : Request(i, n, a) \in Message
  BY MeshFacts DEF Request, Message, Kinds
<1>3. ASSUME NEW m \in Message, NEW good \in BOOLEAN, m.id \in Ids
      PROVE  Reply(m, n, good) \in Message
  <2>1. m.from \in Nodes /\ m.actor \in Actors \cup {None} /\ m.id \in 0 .. MaxIds
    BY <1>3, MeshFacts DEF Message
  <2>2. MaxIds + m.id \in 1 .. (2 * MaxIds)
    BY <1>3, MeshFacts
  <2> QED BY <2>1, <2>2 DEF Reply, Message, Kinds
<1> QED BY <1>1, <1>2, <1>3

\* send() adds one frame to some of the connections.
LEMMA SentFrames ==
  ASSUME NEW w \in WireType, NEW n, NEW m \in Message
  PROVE  /\ Sent(w, n, m) \in WireType
         /\ Frames(Sent(w, n, m)) \subseteq Frames(w) \cup {m}
<1> DEFINE v == Sent(w, n, m)
<1>1. ASSUME NEW l \in Links
      PROVE  /\ v[l] \in [Nodes -> Seq(Message)]
             /\ \A q \in Nodes : v[l][q] = w[l][q] \/ v[l][q] = Append(w[l][q], m)
  <2>1. w[l] \in [Nodes -> Seq(Message)]
    BY DEF WireType
  <2> DEFINE p == Peer(l, n)
             longer == [w[l] EXCEPT ![p] = Append(@, m)]
  <2> HIDE DEF p
  <2>2. /\ longer \in [Nodes -> Seq(Message)]
        /\ \A q \in Nodes : longer[q] = w[l][q] \/ longer[q] = Append(w[l][q], m)
    <3>1. ASSUME NEW q \in Nodes
          PROVE  /\ longer[q] = IF q = p THEN Append(w[l][q], m) ELSE w[l][q]
                 /\ longer[q] \in Seq(Message)
      <4>1. w[l][q] \in Seq(Message) /\ Append(w[l][q], m) \in Seq(Message)
        BY <2>1
      <4>2. longer[q] = IF q = p THEN Append(w[l][q], m) ELSE w[l][q]
        BY <2>1
      <4> QED BY <4>1, <4>2
    <3>2. longer = [q \in Nodes |-> longer[q]]
      BY <2>1
    <3> QED BY <3>1, <3>2
  <2>3. v[l] = w[l] \/ v[l] = longer
    BY DEF Sent, p
  <2> QED BY <2>1, <2>2, <2>3
<1>2. v = [l \in Links |-> v[l]]
  BY DEF Sent
<1>3. v \in WireType
  BY <1>1, <1>2 DEF WireType
<1>4. ASSUME NEW x \in Frames(v) PROVE x \in Frames(w) \cup {m}
  <2>1. PICK l \in Links, q \in Nodes : \E i \in DOMAIN v[l][q] : x = v[l][q][i]
    BY <1>4 DEF Frames
  <2>2. PICK i \in DOMAIN v[l][q] : x = v[l][q][i]
    BY <2>1
  <2>3. w[l][q] \in Seq(Message) /\ x \in Message
    BY <1>4 DEF WireType, Frames
  <2>4. CASE v[l][q] = w[l][q]
    BY <2>2, <2>3, <2>4 DEF Frames
  <2>5. CASE v[l][q] = Append(w[l][q], m)
    <3>1. (i \in DOMAIN w[l][q] /\ x = w[l][q][i]) \/ x = m
      BY <2>2, <2>3, <2>5
    <3> QED BY <2>3, <3>1 DEF Frames
  <2> QED BY <1>1, <2>4, <2>5
<1> QED BY <1>3, <1>4

\* A wire that holds less.
LEMMA FewerFrames ==
  ASSUME NEW w \in WireType, NEW v \in WireType,
         \A l \in Links, q \in Nodes : \A i \in DOMAIN v[l][q] :
           \E j \in DOMAIN w[l][q] : v[l][q][i] = w[l][q][j]
  PROVE  Frames(v) \subseteq Frames(w)
<1>1. ASSUME NEW x \in Frames(v) PROVE x \in Frames(w)
  <2>1. PICK l \in Links, q \in Nodes : \E i \in DOMAIN v[l][q] : x = v[l][q][i]
    BY <1>1 DEF Frames
  <2>2. \E j \in DOMAIN w[l][q] : x = w[l][q][j]
    BY <2>1
  <2> QED BY <1>1, <2>2 DEF Frames
<1> QED BY <1>1

\* The frame a node takes, and the wire it leaves.
LEMMA HeadFrame ==
  ASSUME NEW w \in WireType, NEW l \in Links, NEW n \in Nodes, w[l][n] # <<>>,
         NEW v, v = [w EXCEPT ![l][n] = Tail(@)]
  PROVE  /\ Head(w[l][n]) \in Frames(w) /\ Head(w[l][n]) \in Message
         /\ v \in WireType /\ Frames(v) \subseteq Frames(w)
<1>1. w[l][n] \in Seq(Message) /\ w[l] \in [Nodes -> Seq(Message)]
  BY DEF WireType
<1>2. /\ Head(w[l][n]) \in Message /\ 1 \in DOMAIN w[l][n]
      /\ Head(w[l][n]) = w[l][n][1] /\ Tail(w[l][n]) \in Seq(Message)
  BY <1>1
<1>3. Head(w[l][n]) \in Frames(w)
  BY <1>2 DEF Frames
<1>4. v \in WireType
  BY <1>2 DEF WireType
<1>5. ASSUME NEW k \in Links, NEW q \in Nodes, NEW i \in DOMAIN v[k][q]
      PROVE  \E j \in DOMAIN w[k][q] : v[k][q][i] = w[k][q][j]
  <2>1. CASE k = l /\ q = n
    <3> DEFINE s == w[k][q]
    <3>1. v[k][q] = Tail(s) /\ s \in Seq(Message) /\ s # <<>>
      BY <2>1, <1>1 DEF WireType
    <3> HIDE DEF s
    <3>2. /\ Tail(s) \in Seq(Message) /\ Len(Tail(s)) = Len(s) - 1
          /\ \A j \in 1 .. Len(Tail(s)) : Tail(s)[j] = s[j + 1]
      BY <3>1, HeadTailProperties
    <3>3. i \in 1 .. Len(Tail(s)) /\ Len(s) \in Nat
      BY <3>1, <3>2, <1>5
    <3>4. i + 1 \in DOMAIN s /\ v[k][q][i] = s[i + 1]
      BY <3>1, <3>2, <3>3
    <3> QED BY <3>4 DEF s
  <2>2. CASE ~(k = l /\ q = n)
    BY <2>2 DEF WireType
  <2> QED BY <2>1, <2>2
<1> QED BY <1>2, <1>3, <1>4, <1>5, FewerFrames

-----------------------------------------------------------------------------
(* What an action may do to each part of the invariant.                    *)

\* Ids and results only grow.
Grown == last' \in Nat /\ last <= last' /\ \A i \in Ids : results[i] \subseteq results'[i]

\* A sound message stays sound.
LEMMA SoundStays ==
  ASSUME TypeOK, Grown
  PROVE  /\ \A m : SoundRequest(m, last) => SoundRequest(m, last')
         /\ \A m : Sound(m, last, results) => Sound(m, last', results')
         /\ last \in Nat /\ last \in 0 .. MaxIds
         /\ 1 .. last \subseteq 1 .. last' /\ 1 .. last \subseteq Ids
<1>1. /\ last \in Nat /\ last \in 0 .. MaxIds
      /\ 1 .. last \subseteq 1 .. last' /\ 1 .. last \subseteq Ids
  BY MeshFacts DEF TypeOK, Grown, Ids
<1>2. \A m : SoundRequest(m, last) => SoundRequest(m, last')
  BY <1>1 DEF SoundRequest
<1>3. \A m : SoundReply(m, last, results) => SoundReply(m, last', results')
  BY <1>1 DEF SoundReply, Grown
<1>4. \A m : SoundPub(m, last) => SoundPub(m, last')
  BY <1>1 DEF SoundPub
<1> QED BY <1>1, <1>2, <1>3, <1>4 DEF Sound

LEMMA WireKeeps ==
  ASSUME TypeOK, WireSound, Grown,
         \A m \in Frames(wire') : m \in Frames(wire) \/ Sound(m, last', results')
  PROVE  WireSound'
BY SoundStays DEF WireSound

LEMMA ThreadsKeep ==
  ASSUME TypeOK, ThreadsSound, Grown,
         \A t \in Threads : thread'[t] = thread[t] \/ ThreadSound(t)'
  PROVE  ThreadsSound'
<1>1. ASSUME NEW t \in Threads, thread'[t] = thread[t] PROVE ThreadSound(t)'
  BY <1>1, SoundStays DEF ThreadsSound, ThreadSound, Waits
<1> QED BY <1>1 DEF ThreadsSound

LEMMA BoxKeeps ==
  ASSUME TypeOK, BoxTrue, Grown,
         \A i \in Ids : \/ box'[i] = box[i]
                        \/ i <= last' /\ box'[i] = "detached"
                        \/ /\ i <= last' /\ box'[i] \in {"ok", "failed"}
                           /\ (box'[i] = "ok") \in results'[i]
  PROVE  BoxTrue'
<1>1. \A i \in Ids : i > last' => i > last
  BY SoundStays, MeshFacts DEF Grown
<1>2. \A i \in Ids : i > last' => ~(i <= last')
  BY MeshFacts DEF Grown
<1> QED BY <1>1, <1>2 DEF BoxTrue, Grown

LEMMA OutcomeKeeps ==
  ASSUME OwnReply, Grown,
         \A i \in Ids : \/ outcome'[i] = outcome[i]
                        \/ outcome'[i] \notin {"ok", "failed"}
                        \/ (outcome'[i] = "ok") \in results'[i]
  PROVE  OwnReply'
BY DEF OwnReply, Grown

\* Threads that stop waiting had no entry left, and none starts to wait.
LEMMA AwaitKeeps ==
  ASSUME TypeOK, Await, box' = box,
         \A n \in Nodes : pending'[n] \subseteq pending[n],
         \A t \in Threads :
           Waits(t)' => Waits(t) /\ thread'[t].waits = thread[t].waits,
         \A t \in Threads :
           Waits(t) /\ thread[t].waits \in pending'[NodeOf(t)]
             => Waits(t)' /\ thread'[t].waits = thread[t].waits
  PROVE  Await'
<1>1. PendingIsAwaited'
  <2> SUFFICES ASSUME NEW n \in Nodes, NEW i \in pending'[n]
               PROVE  \E t \in Threads : /\ NodeOf(t) = n /\ Waits(t)'
                                         /\ thread'[t].waits = i
    BY DEF PendingIsAwaited, Waits
  <2>1. PICK t \in Threads : NodeOf(t) = n /\ Waits(t) /\ thread[t].waits = i
    BY DEF Await, PendingIsAwaited, Waits
  <2> QED BY <2>1
<1>2. PendingOpen'
  BY DEF Await, PendingOpen
<1>3. OneWaits'
  BY DEF Await, OneWaits
<1>4. NestedNeverAnswered'
  BY MeshFacts DEF Await, NestedNeverAnswered, Waits
<1> QED BY <1>1, <1>2, <1>3, <1>4 DEF Await

\* A delivery that counts is the first, unless the id was forgotten, and what
\* is put on a wire has an id that was never counted.
LEMMA OnceKeeps ==
  ASSUME TypeOK, Once, Grown,
         \A m \in Frames(wire') : m \in Frames(wire) \/ m.id \notin 1 .. last,
         \A n \in Nodes : /\ seen[n] \cup forgot[n] \subseteq seen'[n] \cup forgot'[n]
                          /\ forgot[n] \subseteq forgot'[n],
         \A n \in Nodes, i \in Ids :
           \/ runs'[n][i] = runs[n][i]
           \/ /\ i <= last'
              /\ i \in seen'[n] \cup forgot'[n] \/ Unsent(i, wire')
              /\ runs[n][i] > 0 => i \in forgot'[n]
              /\ runs'[n][i] = runs[n][i] + 1
  PROVE  Once'
<1> SUFFICES ASSUME NEW n \in Nodes, NEW i \in Ids
             PROVE  /\ i > last' => runs'[n][i] = 0
                    /\ runs'[n][i] > 0 => i \in seen'[n] \cup forgot'[n] \/ Unsent(i, wire')
                    /\ runs'[n][i] > 1 => i \in forgot'[n]
  BY DEF Once, Counted, OnceUnlessForgotten
<1>1. i \in Nat /\ runs[n][i] \in Nat /\ last \in Nat /\ last' \in Nat /\ last <= last'
  BY MeshFacts, SoundStays DEF TypeOK, Grown
<1>2. CASE runs'[n][i] = runs[n][i]
  <2>1. i > last' => i > last
    BY <1>1
  <2>2. runs[n][i] > 0 /\ Unsent(i, wire) => Unsent(i, wire')
    <3>1. runs[n][i] > 0 => i \in 1 .. last
      BY <1>1, MeshFacts DEF Once, Counted
    <3> QED BY <3>1 DEF Unsent
  <2> QED BY <1>2, <2>1, <2>2 DEF Once, Counted, OnceUnlessForgotten
<1>3. CASE runs'[n][i] # runs[n][i]
  BY <1>1, <1>3
<1> QED BY <1>2, <1>3

\* _mark_seen(): an id is marked or forgotten, and what was either stays so.
LEMMA Remembered ==
  ASSUME TypeOK, NEW n \in Nodes, NEW ids \in SUBSET (1 .. (2 * MaxIds)),
         Remember(n, ids)
  PROVE  /\ seen' \in [Nodes -> SUBSET (1 .. (2 * MaxIds))]
         /\ forgot' \in [Nodes -> SUBSET (1 .. (2 * MaxIds))]
         /\ faults' \in 0 .. MaxFaults
         /\ \A p \in Nodes : /\ seen[p] \cup forgot[p] \subseteq seen'[p] \cup forgot'[p]
                             /\ forgot[p] \subseteq forgot'[p]
         /\ ids \subseteq seen'[n] \cup forgot'[n]
<1> DEFINE now == seen[n] \cup ids
<1>1. now \subseteq 1 .. (2 * MaxIds)
  BY DEF TypeOK
<1>2. CASE seen' = [seen EXCEPT ![n] = now] /\ UNCHANGED <<forgot, faults>>
  BY <1>1, <1>2 DEF TypeOK
<1>3. CASE /\ faults < MaxFaults /\ faults' = faults + 1
           /\ \E kept \in (SUBSET now) \ {now} :
                /\ seen' = [seen EXCEPT ![n] = kept]
                /\ forgot' = [forgot EXCEPT ![n] = @ \cup (now \ kept)]
  <2>1. faults' \in 0 .. MaxFaults
    BY <1>3, MeshFacts DEF TypeOK
  <2>2. PICK kept \in SUBSET now :
          /\ seen' = [seen EXCEPT ![n] = kept]
          /\ forgot' = [forgot EXCEPT ![n] = @ \cup (now \ kept)]
    BY <1>3
  <2> HIDE DEF now
  <2>3. /\ seen'[n] = kept /\ forgot'[n] = forgot[n] \cup (now \ kept)
        /\ \A p \in Nodes \ {n} : seen'[p] = seen[p] /\ forgot'[p] = forgot[p]
        /\ seen' \in [Nodes -> SUBSET (1 .. (2 * MaxIds))]
        /\ forgot' \in [Nodes -> SUBSET (1 .. (2 * MaxIds))]
    BY <1>1, <2>2 DEF TypeOK
  <2>4. seen[n] \subseteq now /\ ids \subseteq now
    BY DEF now
  <2> QED BY <2>1, <2>3, <2>4
<1> QED BY <1>2, <1>3 DEF Remember

LEMMA CountEffect ==
  ASSUME TypeOK, NEW n \in Nodes, NEW id \in Ids, Count(n, id)
  PROVE  /\ runs' \in [Nodes -> [Ids -> Nat]]
         /\ \A p \in Nodes, i \in Ids :
              runs'[p][i] = IF p = n /\ i = id THEN runs[p][i] + 1 ELSE runs[p][i]
BY DEF TypeOK, Count

-----------------------------------------------------------------------------
(* The steps.                                                              *)

\* The network, the registry and the beginning of a detach: only frames go.
LEMMA QuietKeeps ==
  ASSUME Inv, TypeOK', Frames(wire') \subseteq Frames(wire),
         UNCHANGED <<last, seen, pending, box, thread, hist>>
  PROVE  Inv'
<1>1. TypeOK /\ Flow /\ Await /\ Once /\ Grown
  BY DEF Inv, TypeOK, Grown, Ids, hist
<1>2. /\ WireSound'
      /\ ThreadsSound'
  BY <1>1, WireKeeps, ThreadsKeep DEF Flow
<1>3. BoxTrue'
  BY <1>1, BoxKeeps DEF Flow
<1>4. OwnReply'
  BY <1>1, OutcomeKeeps DEF Flow, hist
<1>5. Await'
  BY <1>1, AwaitKeeps DEF Waits
<1>6. Once'
  BY <1>1, OnceKeeps DEF hist
<1> QED BY <1>2, <1>3, <1>4, <1>5, <1>6 DEF Inv, Flow

\* detach() ends: whoever is waiting here is told.
LEMMA EndDetachKeeps ==
  ASSUME Inv, NEW n \in Nodes, EndDetach(n)
  PROVE  Inv'
<1>1. TypeOK /\ Flow /\ Await /\ Once /\ Grown
  BY DEF Inv, TypeOK, Grown, Ids, hist, EndDetach
<1>2. /\ pending' = [pending EXCEPT ![n] = {}]
      /\ box' = [i \in Ids |-> IF i \in pending[n] THEN "detached" ELSE box[i]]
      /\ UNCHANGED <<last, wire, seen, thread, runs, results, outcome, forgot>>
  BY DEF EndDetach, net, hist
<1>3. TypeOK'
  <2>1. box' \in [Ids -> {"empty", "ok", "failed", "detached"}]
    BY <1>1, <1>2 DEF TypeOK
  <2>2. pending' \in [Nodes -> SUBSET Ids]
    BY <1>1, <1>2 DEF TypeOK
  <2> QED BY <1>1, <1>2, <2>1, <2>2 DEF EndDetach, TypeOK, net
<1>4. \A i \in pending[n] : i \in 1 .. last /\ i <= last
  BY <1>1, SoundStays DEF Await, PendingIsAwaited, Flow, ThreadsSound, ThreadSound, Waits
<1>5. BoxTrue'
  <2>1. \A i \in Ids : \/ box'[i] = box[i]
                       \/ i <= last' /\ box'[i] = "detached"
    <3>1. ASSUME NEW i \in Ids, i \in pending[n]
          PROVE  i <= last' /\ box'[i] = "detached"
      BY <1>2, <1>4, <3>1
    <3>2. ASSUME NEW i \in Ids, i \notin pending[n]
          PROVE  box'[i] = box[i]
      BY <1>2, <3>2
    <3> QED BY <3>1, <3>2
  <2> QED BY <1>1, <2>1, BoxKeeps DEF Flow
<1>6. WireSound' /\ ThreadsSound' /\ OwnReply'
  <2>1. WireSound'
    BY <1>1, <1>2, WireKeeps DEF Flow
  <2>2. ThreadsSound'
    BY <1>1, <1>2, ThreadsKeep DEF Flow
  <2>3. OwnReply'
    BY <1>1, <1>2, OutcomeKeeps DEF Flow
  <2> QED BY <2>1, <2>2, <2>3
<1>7. PendingIsAwaited' /\ OneWaits'
  BY <1>1, <1>2 DEF Await, PendingIsAwaited, OneWaits, Waits, TypeOK
<1>8. PendingOpen'
  <2> SUFFICES ASSUME NEW p \in Nodes, NEW i \in pending'[p] PROVE box'[i] = "empty"
    BY DEF PendingOpen
  <2>1. p # n /\ i \in pending[p] /\ i \in Ids /\ box[i] = "empty"
    BY <1>1, <1>2 DEF TypeOK, Await, PendingOpen
  <2>2. i \notin pending[n]
    <3> SUFFICES ASSUME i \in pending[n] PROVE FALSE
      OBVIOUS
    <3>1. PICK t \in Threads : NodeOf(t) = p /\ Waits(t) /\ thread[t].waits = i
      BY <1>1, <2>1 DEF Await, PendingIsAwaited, Waits
    <3>2. PICK u \in Threads : NodeOf(u) = n /\ Waits(u) /\ thread[u].waits = i
      BY <1>1 DEF Await, PendingIsAwaited, Waits
    <3> QED BY <1>1, <2>1, <3>1, <3>2 DEF Await, OneWaits
  <2> QED BY <1>2, <2>1, <2>2
<1>9. NestedNeverAnswered'
  <2>1. \A p \in Nodes : Waits(p) => thread[p].waits \in Ids
    BY <1>1, SoundStays, MeshFacts DEF Flow, ThreadsSound, ThreadSound
  <2> QED BY <1>1, <1>2, <2>1 DEF Await, NestedNeverAnswered, Waits
<1>10. Once'
  BY <1>1, <1>2, OnceKeeps
<1> QED BY <1>3, <1>5, <1>6, <1>7, <1>8, <1>9, <1>10 DEF Inv, Flow, Await

LEMMA TroubleKeeps ==
  ASSUME Inv, Trouble
  PROVE  Inv'
<1>1. TypeOK /\ wire \in WireType
  BY DEF Inv, TypeOK, WireType
<1>2. ASSUME NEW n \in Nodes, NEW l \in Links, LoseBoundary(n, l) PROVE Inv'
  <2>1. wire[l] \in [Nodes -> Seq(Message)] /\ wire[l][n] \in Seq(Message)
    BY <1>1 DEF WireType
  <2>2. PICK k \in 0 .. Len(wire[l][n]) :
          wire' = [wire EXCEPT ![l][n] = SubSeq(@, 1, k)]
    BY <1>2 DEF LoseBoundary
  <2> DEFINE s == wire[l][n]
             u == SubSeq(s, 1, k)
  <2>3. u \in Seq(Message) /\ \A i \in DOMAIN u : i \in DOMAIN s /\ u[i] = s[i]
    <3> HIDE DEF s
    <3>1. s \in Seq(Message) /\ k \in 0 .. Len(s)
      BY <2>1 DEF s
    <3> QED BY <3>1
  <2>4. wire' \in WireType
    BY <1>1, <2>2, <2>3 DEF WireType
  <2>5. \A m \in Links, q \in Nodes : \A i \in DOMAIN wire'[m][q] :
          \E j \in DOMAIN wire[m][q] : wire'[m][q][i] = wire[m][q][j]
    <3>1. ASSUME NEW m \in Links, NEW q \in Nodes
          PROVE  wire'[m][q] = IF m = l /\ q = n THEN u ELSE wire[m][q]
      BY <1>1, <2>2 DEF WireType
    <3> QED BY <2>3, <3>1
  <2>6. Frames(wire') \subseteq Frames(wire)
    BY <1>1, <2>4, <2>5, FewerFrames
  <2>7. faults' \in 0 .. MaxFaults
    BY <1>1, <1>2, MeshFacts DEF LoseBoundary, TypeOK
  <2>8. TypeOK'
    BY <1>1, <1>2, <2>4, <2>7 DEF LoseBoundary, TypeOK, WireType, hist
  <2> QED BY <1>2, <2>6, <2>8, QuietKeeps DEF LoseBoundary, hist
<1>3. ASSUME NEW n \in Nodes, NEW l \in Links, ReaderEnds(n, l) PROVE Inv'
  <2>1. TypeOK'
    BY <1>1, <1>3 DEF ReaderEnds, TypeOK, hist
  <2> QED BY <1>3, <2>1, QuietKeeps DEF ReaderEnds, hist
<1>4. ASSUME NEW l \in Links, AddPeer(l) PROVE Inv'
  <2>1. TypeOK'
    BY <1>1, <1>4 DEF AddPeer, TypeOK, hist
  <2> QED BY <1>4, <2>1, QuietKeeps DEF AddPeer, hist
<1>5. ASSUME NEW n \in Nodes, BeginDetach(n) PROVE Inv'
  <2>1. wire' = [m \in Links |-> [wire[m] EXCEPT ![n] = <<>>]]
    BY <1>5 DEF BeginDetach
  <2>2. \A m \in Links : /\ wire'[m] \in [Nodes -> Seq(Message)]
                         /\ \A q \in Nodes : wire'[m][q] = IF q = n THEN <<>> ELSE wire[m][q]
    <3> SUFFICES ASSUME NEW m \in Links
                 PROVE  /\ wire'[m] \in [Nodes -> Seq(Message)]
                        /\ \A q \in Nodes :
                             wire'[m][q] = IF q = n THEN <<>> ELSE wire[m][q]
      OBVIOUS
    <3>1. wire'[m] = [wire[m] EXCEPT ![n] = <<>>] /\ wire[m] \in [Nodes -> Seq(Message)]
      BY <1>1, <2>1 DEF WireType
    <3> QED BY <3>1
  <2>3. wire' \in WireType
    BY <2>1, <2>2 DEF WireType
  <2>4. \A m \in Links, q \in Nodes : \A i \in DOMAIN wire'[m][q] :
          \E j \in DOMAIN wire[m][q] : wire'[m][q][i] = wire[m][q][j]
    <3> SUFFICES ASSUME NEW m \in Links, NEW q \in Nodes, NEW i \in DOMAIN wire'[m][q]
                 PROVE  \E j \in DOMAIN wire[m][q] : wire'[m][q][i] = wire[m][q][j]
      OBVIOUS
    <3>1. wire'[m][q] = <<>> \/ wire'[m][q] = wire[m][q]
      BY <2>2
    <3>2. DOMAIN <<>> = {}
      OBVIOUS
    <3> QED BY <3>1, <3>2
  <2>5. Frames(wire') \subseteq Frames(wire)
    BY <1>1, <2>3, <2>4, FewerFrames
  <2>6. faults' \in 0 .. MaxFaults
    BY <1>1, <1>5, MeshFacts DEF BeginDetach, TypeOK
  <2>7. TypeOK'
    BY <1>1, <1>5, <2>3, <2>6 DEF BeginDetach, TypeOK, WireType, hist
  <2> QED BY <1>5, <2>5, <2>7, QuietKeeps DEF BeginDetach, hist
<1>6. ASSUME NEW a \in Actors, Unregister(a) \/ Register(a) PROVE Inv'
  <2>1. faults' \in 0 .. MaxFaults
    BY <1>1, <1>6, MeshFacts DEF Unregister, Register, TypeOK
  <2>2. TypeOK'
    BY <1>1, <1>6, <2>1 DEF Unregister, Register, TypeOK, net, hist
  <2> QED BY <1>6, <2>2, QuietKeeps DEF Unregister, Register, net, hist
<1>7. ASSUME NEW n \in Nodes, NEW l \in conns[n] PROVE l \in Links
  BY <1>1, <1>7 DEF TypeOK
<1> QED BY <1>2, <1>3, <1>4, <1>5, <1>6, <1>7, EndDetachKeeps DEF Trouble

\* What a thread's state is made of.
ThreadStates ==
  [at : {"idle", "running", "waiting", "expired"}, serves : Message \cup {None},
   called : BOOLEAN, waits : 0 .. MaxIds]

LEMMA ThreadUpdate ==
  ASSUME TypeOK, NEW t \in Threads, NEW x \in ThreadStates,
         thread' = [thread EXCEPT ![t] = x]
  PROVE  /\ thread' \in [Threads -> ThreadStates]
         /\ thread'[t] = x
         /\ \A u \in Threads \ {t} : thread'[u] = thread[u]
BY DEF TypeOK, ThreadStates

\* request() ends for its thread, answered or not: nothing is pending for it.
LEMMA ResumeKeeps ==
  ASSUME Inv, NEW t \in Threads, Waits(t),
         NEW how \in {"ok", "failed", "timeout", "detached"}, Resume(t, how),
         how \in {"ok", "failed"} => (how = "ok") \in results[thread[t].waits],
         \A n \in Nodes : pending'[n] \subseteq pending[n],
         pending' \in [Nodes -> SUBSET Ids],
         thread[t].waits \notin pending'[NodeOf(t)],
         \A u \in Threads \ {t} :
           thread[u].waits \in pending[NodeOf(u)] /\ Waits(u)
             => thread[u].waits \in pending'[NodeOf(u)],
         UNCHANGED <<last, net, seen, box, life, served, faults, runs, results, forgot>>
  PROVE  Inv'
<1>1. TypeOK /\ Flow /\ Await /\ Once /\ Grown
  BY DEF Inv, TypeOK, Grown, Ids
<1>2. /\ thread[t].waits \in 1 .. last /\ thread[t].waits \in Ids
      /\ thread[t].serves # None =>
           thread[t].serves \in Message /\ SoundRequest(thread[t].serves, last)
  BY <1>1, SoundStays DEF Flow, ThreadsSound, ThreadSound
<1>3. /\ thread' \in [Threads -> ThreadStates]
      /\ ~Waits(t)' /\ ThreadSound(t)'
      /\ \A u \in Threads \ {t} : thread'[u] = thread[u]
  <2>1. CASE thread[t].serves = None
    <3>1. thread' = [thread EXCEPT ![t] = Idle] /\ Idle \in ThreadStates
      BY <2>1, MeshFacts DEF Resume, Idle, Thread, ThreadStates
    <3> QED BY <1>1, <3>1, ThreadUpdate DEF Waits, ThreadSound, Idle, Thread
  <2>2. CASE thread[t].serves # None
    <3> DEFINE x == Thread("running", thread[t].serves, TRUE, 0)
    <3>1. thread' = [thread EXCEPT ![t] = x] /\ x \in ThreadStates
      BY <1>1, <1>2, <2>2, MeshFacts DEF Resume, Thread, ThreadStates, TypeOK
    <3>2. /\ thread'[t] = x
          /\ x.serves = thread[t].serves /\ x.at = "running"
      BY <1>1, <3>1, ThreadUpdate DEF Thread
    <3>3. SoundRequest(thread[t].serves, last)'
      BY <1>1, <1>2, <2>2, <3>2, SoundStays DEF SoundRequest
    <3>4. ~Waits(t)' /\ ThreadSound(t)'
      BY <1>2, <2>2, <3>2, <3>3 DEF Waits, ThreadSound, SoundRequest
    <3> QED BY <1>1, <3>1, <3>4, ThreadUpdate
  <2> QED BY <2>1, <2>2
<1>4. /\ outcome' \in [Ids -> {"none", "ok", "failed", "timeout", "detached"}]
      /\ \A i \in Ids : \/ outcome'[i] = outcome[i]
                        \/ outcome'[i] \notin {"ok", "failed"}
                        \/ (outcome'[i] = "ok") \in results'[i]
  <2>1. CASE outcome' = outcome
    BY <1>1, <2>1 DEF TypeOK
  <2>2. CASE outcome' = [outcome EXCEPT ![thread[t].waits] = how]
    <3> DEFINE k == thread[t].waits
    <3> HIDE DEF k
    <3>1. k \in Ids /\ outcome' = [outcome EXCEPT ![k] = how]
      BY <1>2, <2>2 DEF k
    <3>2. outcome \in [Ids -> {"none", "ok", "failed", "timeout", "detached"}]
      BY <1>1 DEF TypeOK
    <3>3. /\ outcome' \in [Ids -> {"none", "ok", "failed", "timeout", "detached"}]
          /\ outcome'[k] = how
          /\ \A i \in Ids \ {k} : outcome'[i] = outcome[i]
      BY <3>1, <3>2
    <3>4. how \in {"ok", "failed"} => (how = "ok") \in results'[k]
      BY DEF k
    <3> QED BY <3>3, <3>4
  <2> QED BY <2>1, <2>2 DEF Resume
<1>5. TypeOK'
  BY <1>1, <1>3, <1>4 DEF TypeOK, ThreadStates, net
<1>6. WireSound' /\ ThreadsSound'
  BY <1>1, <1>3, WireKeeps, ThreadsKeep DEF Flow, net
<1>7. BoxTrue' /\ OwnReply'
  BY <1>1, <1>4, BoxKeeps, OutcomeKeeps DEF Flow
<1>8. Await'
  <2>1. \A u \in Threads :
          Waits(u)' => Waits(u) /\ thread'[u].waits = thread[u].waits
    BY <1>3 DEF Waits
  <2>2. \A u \in Threads :
          Waits(u) /\ thread[u].waits \in pending'[NodeOf(u)]
            => Waits(u)' /\ thread'[u].waits = thread[u].waits
    BY <1>3 DEF Waits
  <2> QED BY <1>1, <2>1, <2>2, AwaitKeeps
<1>9. Once'
  BY <1>1, OnceKeeps DEF net
<1> QED BY <1>5, <1>6, <1>7, <1>8, <1>9 DEF Inv, Flow

LEMMA WaitingKeeps ==
  ASSUME Inv, NEW t \in Threads, WakeUp(t) \/ WaitExpires(t) \/ RaiseTimeout(t)
  PROVE  Inv'
<1>1. TypeOK /\ Flow /\ Await /\ Once
  BY DEF Inv
<1>2. Waits(t) /\ NodeOf(t) \in Nodes
  BY MeshFacts DEF Waits, WakeUp, WaitExpires, RaiseTimeout
<1>3. thread[t].waits \in 1 .. last /\ thread[t].waits \in Ids
  BY <1>1, <1>2, MeshFacts DEF Flow, ThreadsSound, ThreadSound, TypeOK, Ids
<1>4. CASE WakeUp(t)
  <2> DEFINE how == box[thread[t].waits]
  <2>1. how \in {"ok", "failed", "detached"}
    BY <1>1, <1>3, <1>4 DEF WakeUp, TypeOK
  <2>2. how \in {"ok", "failed"} => (how = "ok") \in results[thread[t].waits]
    BY <1>1, <1>3 DEF Flow, BoxTrue
  <2>3. thread[t].waits \notin pending[NodeOf(t)]
    BY <1>1, <1>2, <2>1 DEF Await, PendingOpen
  <2>4. /\ Resume(t, how)
        /\ UNCHANGED <<last, net, seen, pending, box, life, served, faults, runs,
                       results, forgot>>
    BY <1>4 DEF WakeUp
  <2>5. pending' = pending /\ pending \in [Nodes -> SUBSET Ids]
    BY <1>1, <2>4 DEF TypeOK
  <2> HIDE DEF how
  <2> QED BY <1>2, <2>1, <2>2, <2>3, <2>4, <2>5, ResumeKeeps
<1>5. CASE WaitExpires(t)
  <2> DEFINE x == Thread("expired", thread[t].serves, TRUE, thread[t].waits)
  <2>1. /\ thread' = [thread EXCEPT ![t] = x] /\ x \in ThreadStates
        /\ UNCHANGED <<last, net, seen, pending, box, life, served, faults, hist>>
    BY <1>1, <1>5 DEF WaitExpires, Thread, ThreadStates, TypeOK
  <2>2. /\ thread' \in [Threads -> ThreadStates]
        /\ thread'[t] = x
        /\ \A u \in Threads \ {t} : thread'[u] = thread[u]
    BY <1>1, <2>1, ThreadUpdate
  <2>3. /\ x.at = "expired" /\ x.serves = thread[t].serves
        /\ x.waits = thread[t].waits
    BY DEF Thread
  <2> HIDE DEF x
  <2>4. Grown
    BY <1>1, <2>1 DEF Grown, TypeOK, Ids, hist
  <2>5. TypeOK'
    BY <1>1, <2>1, <2>2 DEF TypeOK, ThreadStates, net, hist
  <2>6. ThreadSound(t)'
    BY <1>1, <1>3, <2>1, <2>2, <2>3, <2>4, SoundStays
       DEF ThreadSound, Flow, ThreadsSound, Waits
  <2>7. WireSound' /\ ThreadsSound'
    BY <1>1, <2>1, <2>2, <2>4, <2>6, WireKeeps, ThreadsKeep DEF Flow, net
  <2>8. BoxTrue' /\ OwnReply'
    BY <1>1, <2>1, <2>4, BoxKeeps, OutcomeKeeps DEF Flow, hist
  <2>9. Await'
    <3>1. \A u \in Threads : Waits(u)' <=> Waits(u)
      BY <1>2, <2>2, <2>3 DEF Waits
    <3>2. \A u \in Threads : thread'[u].waits = thread[u].waits
      BY <2>2, <2>3
    <3> QED BY <1>1, <2>1, <3>1, <3>2, AwaitKeeps
  <2>10. Once'
    BY <1>1, <2>1, <2>4, OnceKeeps DEF net, hist
  <2> QED BY <2>5, <2>7, <2>8, <2>9, <2>10 DEF Inv, Flow
<1>6. CASE RaiseTimeout(t)
  <2>1. /\ Resume(t, "timeout")
        /\ pending' = [pending EXCEPT ![NodeOf(t)] = @ \ {thread[t].waits}]
        /\ UNCHANGED <<last, net, seen, box, life, served, faults, runs, results, forgot>>
    BY <1>6 DEF RaiseTimeout
  <2>2. /\ pending' \in [Nodes -> SUBSET Ids]
        /\ \A n \in Nodes : pending'[n] \subseteq pending[n]
        /\ thread[t].waits \notin pending'[NodeOf(t)]
        /\ \A n \in Nodes : pending[n] \subseteq pending'[n] \cup {thread[t].waits}
    BY <1>1, <1>2, <2>1 DEF TypeOK
  <2>3. ASSUME NEW u \in Threads \ {t}, Waits(u), thread[u].waits \in pending[NodeOf(u)]
        PROVE  thread[u].waits \in pending'[NodeOf(u)]
    BY <1>1, <1>2, <2>2, <2>3, MeshFacts DEF Await, OneWaits
  <2> QED BY <1>2, <2>1, <2>2, <2>3, ResumeKeeps
<1> QED BY <1>4, <1>5, <1>6

\* The ids of frames were handed out, or are those of replies.
LEMMA FrameIds ==
  ASSUME TypeOK, WireSound, NEW m \in Frames(wire)
  PROVE  m.id \in 1 .. last \/ m.id \notin Ids
<1>1. m \in Message /\ Sound(m, last, results) /\ last \in 0 .. MaxIds
  BY DEF Frames, WireSound, TypeOK
<1>2. 1 .. last \subseteq Ids
  BY <1>1, MeshFacts DEF Ids
<1>3. SoundReply(m, last, results) => m.id \notin Ids
  BY <1>2, MeshFacts DEF SoundReply
<1> QED BY <1>1, <1>3 DEF Sound, SoundRequest, SoundPub

\* An id that is given out now was never used.
LEMMA NewId ==
  ASSUME Inv, last < MaxIds, last' = last + 1
  PROVE  /\ last' \in Ids /\ last' \in 1 .. last' /\ last' \in 0 .. MaxIds
         /\ last' \notin 1 .. last /\ last' > last /\ last \in Nat /\ last' \in Nat
         /\ box[last'] = "empty"
         /\ \A n \in Nodes : runs[n][last'] = 0
         /\ Unsent(last', wire)
<1>1. /\ last' \in Ids /\ last' \in 1 .. last' /\ last' \in 0 .. MaxIds
      /\ last' \notin 1 .. last /\ last' > last /\ last \in Nat /\ last' \in Nat
  BY MeshFacts DEF Inv, TypeOK, Ids
<1>2. box[last'] = "empty" /\ \A n \in Nodes : runs[n][last'] = 0
  BY <1>1 DEF Inv, Flow, BoxTrue, Once, Counted
<1>3. Unsent(last', wire)
  BY <1>1, FrameIds DEF Inv, Flow, Unsent
<1> QED BY <1>1, <1>2, <1>3

LEMMA PublishKeeps ==
  ASSUME Inv, NEW t \in Threads, Publish(t)
  PROVE  Inv'
<1> DEFINE n == NodeOf(t)
           m == Pub(last', n)
<1>1. TypeOK /\ Flow /\ Await /\ Once /\ wire \in WireType
  BY DEF Inv, TypeOK, WireType
<1>2. /\ n \in Nodes /\ last < MaxIds /\ last' = last + 1
      /\ Remember(n, {last'}) /\ Count(n, last') /\ wire' = Sent(wire, n, m)
      /\ UNCHANGED <<conns, garbled, pending, box, thread, life, served, results, outcome>>
  BY MeshFacts DEF Publish, Transmit
<1> HIDE DEF n, m
<1>3. /\ last' \in Ids /\ last' \in 1 .. last' /\ last' \in 0 .. MaxIds
      /\ last' \notin 1 .. last /\ last' > last /\ last \in Nat /\ last' \in Nat
      /\ \A p \in Nodes : runs[p][last'] = 0
  BY <1>2, NewId
<1>4. Grown
  BY <1>2, <1>3 DEF Grown
<1>5. m \in Message /\ m.id = last' /\ Sound(m, last', results')
  <2>1. m \in Message
    BY <1>2, <1>3, MessagesMade DEF m
  <2>2. m.id = last' /\ m.kind = "pub"
    BY DEF m, Pub
  <2>3. m.id \in 1 .. last'
    BY <1>3, <2>2
  <2> QED BY <2>1, <2>2, <2>3 DEF Sound, SoundPub
<1>6. wire' \in WireType /\ Frames(wire') \subseteq Frames(wire) \cup {m}
  BY <1>1, <1>2, <1>5, SentFrames
<1>7. {last'} \in SUBSET (1 .. (2 * MaxIds))
  BY <1>3, MeshFacts
<1>8. /\ seen' \in [Nodes -> SUBSET (1 .. (2 * MaxIds))]
      /\ forgot' \in [Nodes -> SUBSET (1 .. (2 * MaxIds))]
      /\ faults' \in 0 .. MaxFaults
      /\ \A p \in Nodes : /\ seen[p] \cup forgot[p] \subseteq seen'[p] \cup forgot'[p]
                          /\ forgot[p] \subseteq forgot'[p]
      /\ {last'} \subseteq seen'[n] \cup forgot'[n]
  BY <1>1, <1>2, <1>7, Remembered
<1>9. /\ runs' \in [Nodes -> [Ids -> Nat]]
      /\ \A p \in Nodes, i \in Ids :
           runs'[p][i] = IF p = n /\ i = last' THEN runs[p][i] + 1 ELSE runs[p][i]
  BY <1>1, <1>2, <1>3, CountEffect
<1>10. TypeOK'
  BY <1>1, <1>2, <1>3, <1>6, <1>8, <1>9 DEF TypeOK, WireType
<1>11. WireSound'
  BY <1>1, <1>4, <1>5, <1>6, WireKeeps DEF Flow
<1>12. ThreadsSound'
  BY <1>1, <1>2, <1>4, ThreadsKeep DEF Flow
<1>13. BoxTrue'
  BY <1>1, <1>2, <1>4, BoxKeeps DEF Flow
<1>14. OwnReply'
  BY <1>1, <1>2, <1>4, OutcomeKeeps DEF Flow
<1>15. Await'
  BY <1>1, <1>2, AwaitKeeps DEF Waits
<1>16. Once'
  <2>1. \A x \in Frames(wire') : x \in Frames(wire) \/ x.id \notin 1 .. last
    BY <1>3, <1>5, <1>6
  <2>2. \A p \in Nodes, i \in Ids :
           \/ runs'[p][i] = runs[p][i]
           \/ /\ i <= last'
              /\ i \in seen'[p] \cup forgot'[p] \/ Unsent(i, wire')
              /\ runs[p][i] > 0 => i \in forgot'[p]
              /\ runs'[p][i] = runs[p][i] + 1
    BY <1>3, <1>8, <1>9
  <2> QED BY <1>1, <1>4, <1>8, <2>1, <2>2, OnceKeeps
<1> QED BY <1>10, <1>11, <1>12, <1>13, <1>14, <1>15, <1>16 DEF Inv, Flow

LEMMA AskLocalKeeps ==
  ASSUME Inv, NEW t \in Threads, ~Waits(t), NEW a \in Actors, NEW serving,
         serving = None \/ (serving \in Message /\ SoundRequest(serving, last)),
         last < MaxIds, last' = last + 1, AskLocal(t, a, serving),
         UNCHANGED <<conns, garbled, box, life, served, results, outcome>>
  PROVE  Inv'
<1> DEFINE n == NodeOf(t)
           x == IF serving = None THEN Thread("running", Request(last', n, a), FALSE, 0)
                                  ELSE Thread("running", serving, TRUE, 0)
<1>1. TypeOK /\ Flow /\ Await /\ Once /\ n \in Nodes
  BY MeshFacts DEF Inv
<1>2. /\ Count(n, last') /\ thread' = [thread EXCEPT ![t] = x]
      /\ UNCHANGED <<wire, seen, forgot, faults, pending>>
  BY DEF AskLocal
<1>3. /\ last' \in Ids /\ last' \in 1 .. last' /\ last' \in 0 .. MaxIds
      /\ last' > last /\ last \in Nat /\ last' \in Nat
      /\ \A p \in Nodes : runs[p][last'] = 0
      /\ Unsent(last', wire)
  BY NewId
<1>4. Grown
  BY <1>3 DEF Grown
<1>5. /\ x \in ThreadStates /\ x.at = "running"
      /\ x.serves \in Message /\ SoundRequest(x.serves, last')
  <2>1. CASE serving = None
    <3> DEFINE r == Request(last', n, a)
    <3>1. r \in Message /\ r.kind = "req" /\ r.id = last' /\ r.actor = a
      BY <1>1, <1>3, MessagesMade DEF Request
    <3>2. r.id \in 1 .. last'
      BY <1>3, <3>1
    <3>3. x = Thread("running", r, FALSE, 0)
      BY <2>1
    <3> HIDE DEF r, x
    <3>4. /\ x \in ThreadStates /\ x.at = "running" /\ x.serves = r
      BY <3>1, <3>3, MeshFacts DEF Thread, ThreadStates
    <3>5. r.kind = "req" /\ r.id \in 1 .. last' /\ r.actor \in Actors
      BY <3>1, <3>2
    <3> QED BY <3>1, <3>4, <3>5 DEF SoundRequest
  <2>2. CASE serving # None
    <3>1. serving \in Message /\ SoundRequest(serving, last')
      BY <1>1, <1>4, <2>2, SoundStays
    <3>2. x = Thread("running", serving, TRUE, 0)
      BY <2>2
    <3>3. /\ x \in ThreadStates /\ x.at = "running" /\ x.serves = serving
      BY <3>1, <3>2, MeshFacts DEF Thread, ThreadStates
    <3> QED BY <3>1, <3>3
  <2> QED BY <2>1, <2>2
<1> HIDE DEF n, x
<1>7. /\ thread' \in [Threads -> ThreadStates]
      /\ thread'[t] = x
      /\ \A u \in Threads \ {t} : thread'[u] = thread[u]
  BY <1>1, <1>2, <1>5, ThreadUpdate
<1>8. /\ runs' \in [Nodes -> [Ids -> Nat]]
      /\ \A p \in Nodes, i \in Ids :
           runs'[p][i] = IF p = n /\ i = last' THEN runs[p][i] + 1 ELSE runs[p][i]
  BY <1>1, <1>2, <1>3, CountEffect
<1>9. TypeOK'
  BY <1>1, <1>2, <1>3, <1>7, <1>8 DEF TypeOK, ThreadStates
<1>10. ~Waits(t)' /\ ThreadSound(t)'
  BY <1>5, <1>7 DEF Waits, ThreadSound
<1>11. WireSound'
  BY <1>1, <1>2, <1>4, WireKeeps DEF Flow
<1>12. ThreadsSound'
  BY <1>1, <1>4, <1>7, <1>10, ThreadsKeep DEF Flow
<1>13. BoxTrue' /\ OwnReply'
  BY <1>1, <1>4, BoxKeeps, OutcomeKeeps DEF Flow
<1>14. Await'
  BY <1>1, <1>2, <1>7, <1>10, AwaitKeeps DEF Waits
<1>15. Once'
  <2>1. Unsent(last', wire')
    BY <1>2, <1>3 DEF Unsent
  <2>2. \A p \in Nodes, i \in Ids :
           \/ runs'[p][i] = runs[p][i]
           \/ /\ i <= last'
              /\ i \in seen'[p] \cup forgot'[p] \/ Unsent(i, wire')
              /\ runs[p][i] > 0 => i \in forgot'[p]
              /\ runs'[p][i] = runs[p][i] + 1
    BY <1>2, <1>3, <1>8 DEF Unsent
  <2> QED BY <1>1, <1>2, <1>4, <2>2, OnceKeeps
<1> QED BY <1>9, <1>11, <1>12, <1>13, <1>14, <1>15 DEF Inv, Flow

LEMMA AskRemoteKeeps ==
  ASSUME Inv, NEW t \in Threads, ~Waits(t), NEW a \in Actors, NEW serving,
         serving = None \/ (serving \in Message /\ SoundRequest(serving, last)),
         last < MaxIds, last' = last + 1, AskRemote(t, a, serving),
         UNCHANGED <<conns, garbled, box, life, served, results, outcome>>
  PROVE  Inv'
<1> DEFINE n == NodeOf(t)
           m == Request(last', n, a)
           x == Thread("waiting", serving, TRUE, last')
<1>1. TypeOK /\ Flow /\ Await /\ Once /\ n \in Nodes /\ wire \in WireType
  BY MeshFacts DEF Inv, TypeOK, WireType
<1>2. /\ pending' = [pending EXCEPT ![n] = @ \cup {last'}]
      /\ Remember(n, {last'}) /\ wire' = Sent(wire, n, m)
      /\ thread' = [thread EXCEPT ![t] = x] /\ runs' = runs
  BY DEF AskRemote, Transmit
<1>3. /\ last' \in Ids /\ last' \in 1 .. last' /\ last' \in 0 .. MaxIds
      /\ last' \notin 1 .. last /\ last' > last /\ last \in Nat /\ last' \in Nat
      /\ box[last'] = "empty"
  BY NewId
<1>4. Grown
  BY <1>3 DEF Grown
<1>5. m \in Message /\ m.id = last' /\ Sound(m, last', results')
  <2>1. m \in Message /\ m.id = last' /\ m.kind = "req" /\ m.actor = a
    BY <1>1, <1>3, MessagesMade DEF Request
  <2> HIDE DEF m
  <2> QED BY <1>3, <2>1 DEF Sound, SoundRequest
<1>6. /\ x \in ThreadStates /\ x.at = "waiting" /\ x.waits = last' /\ x.serves = serving
      /\ x.serves # None => x.serves \in Message /\ SoundRequest(x.serves, last')
  <2>1. serving # None => serving \in Message /\ SoundRequest(serving, last')
    BY <1>1, <1>4, SoundStays
  <2> QED BY <1>3, <2>1 DEF Thread, ThreadStates
<1>. NodeOf(t) = n
  OBVIOUS
<1> HIDE DEF n, m, x
<1>7. wire' \in WireType /\ Frames(wire') \subseteq Frames(wire) \cup {m}
  BY <1>1, <1>2, <1>5, SentFrames
<1>8. {last'} \in SUBSET (1 .. (2 * MaxIds))
  BY <1>3, MeshFacts
<1>9. /\ seen' \in [Nodes -> SUBSET (1 .. (2 * MaxIds))]
      /\ forgot' \in [Nodes -> SUBSET (1 .. (2 * MaxIds))]
      /\ faults' \in 0 .. MaxFaults
      /\ \A p \in Nodes : /\ seen[p] \cup forgot[p] \subseteq seen'[p] \cup forgot'[p]
                          /\ forgot[p] \subseteq forgot'[p]
  BY <1>1, <1>2, <1>8, Remembered
<1>10. /\ thread' \in [Threads -> ThreadStates]
       /\ thread'[t] = x
       /\ \A u \in Threads \ {t} : thread'[u] = thread[u]
  BY <1>1, <1>2, <1>6, ThreadUpdate
<1>11. /\ pending' \in [Nodes -> SUBSET Ids]
       /\ pending'[n] = pending[n] \cup {last'}
       /\ \A p \in Nodes \ {n} : pending'[p] = pending[p]
  BY <1>1, <1>2, <1>3 DEF TypeOK
<1>12. TypeOK'
  BY <1>1, <1>2, <1>3, <1>7, <1>9, <1>10, <1>11 DEF TypeOK, WireType, ThreadStates
<1>13. WireSound'
  BY <1>1, <1>4, <1>5, <1>7, WireKeeps DEF Flow
<1>14. ThreadsSound'
  <2>1. ThreadSound(t)'
    BY <1>3, <1>6, <1>10 DEF ThreadSound, Waits
  <2> QED BY <1>1, <1>4, <1>10, <2>1, ThreadsKeep DEF Flow
<1>15. BoxTrue' /\ OwnReply'
  BY <1>1, <1>4, BoxKeeps, OutcomeKeeps DEF Flow
<1>16. \A u \in Threads \ {t} : /\ Waits(u)' <=> Waits(u)
                                /\ Waits(u) => thread[u].waits # last'
  BY <1>1, <1>3, <1>10 DEF Flow, ThreadsSound, ThreadSound, Waits
<1>17. Waits(t)' /\ thread'[t].waits = last'
  BY <1>6, <1>10 DEF Waits
<1>18. PendingIsAwaited'
  <2> SUFFICES ASSUME NEW p \in Nodes, NEW i \in pending'[p]
               PROVE  \E u \in Threads : NodeOf(u) = p /\ Waits(u)' /\ thread'[u].waits = i
    BY DEF PendingIsAwaited, Waits
  <2>1. CASE p = n /\ i = last'
    BY <1>17, <2>1
  <2>2. CASE ~(p = n /\ i = last')
    <3>1. i \in pending[p]
      BY <1>11, <2>2
    <3>2. PICK u \in Threads : NodeOf(u) = p /\ Waits(u) /\ thread[u].waits = i
      BY <1>1, <3>1 DEF Await, PendingIsAwaited, Waits
    <3> QED BY <1>10, <1>16, <3>2
  <2> QED BY <2>1, <2>2
<1>19. PendingOpen'
  BY <1>1, <1>3, <1>11 DEF Await, PendingOpen
<1>20. OneWaits'
  <2> SUFFICES ASSUME NEW u \in Threads, NEW v \in Threads, Waits(u)', Waits(v)',
                      thread'[u].waits = thread'[v].waits
               PROVE  u = v
    BY DEF OneWaits
  <2>1. CASE u # t /\ v # t
    BY <1>1, <1>10, <1>16, <2>1 DEF Await, OneWaits
  <2>2. CASE u = t \/ v = t
    BY <1>10, <1>16, <1>17, <2>2
  <2> QED BY <2>1, <2>2
<1>21. NestedNeverAnswered'
  <2> SUFFICES ASSUME NEW p \in Nodes, Waits(p)'
               PROVE  box'[thread'[p].waits] \in {"empty", "detached"}
    BY DEF NestedNeverAnswered, Waits
  <2>1. CASE p = t
    BY <1>3, <1>17, <2>1
  <2>2. CASE p # t
    BY <1>1, <1>10, <1>16, <2>2, MeshFacts DEF Await, NestedNeverAnswered, Waits
  <2> QED BY <2>1, <2>2
<1>22. Once'
  <2>1. \A y \in Frames(wire') : y \in Frames(wire) \/ y.id \notin 1 .. last
    BY <1>3, <1>5, <1>7
  <2> QED BY <1>1, <1>2, <1>4, <1>9, <2>1, OnceKeeps
<1> QED BY <1>12, <1>13, <1>14, <1>15, <1>18, <1>19, <1>20, <1>21, <1>22
    DEF Inv, Flow, Await

LEMMA AsksKeep ==
  ASSUME Inv, NEW t \in Threads, CallerAsks(t) \/ HandlerAsks(t)
  PROVE  Inv'
<1>1. ASSUME NEW a \in Actors, NEW serving, Ask(t, a, serving), ~Waits(t),
             serving = None \/ (serving \in Message /\ SoundRequest(serving, last))
      PROVE  Inv'
  BY <1>1, AskLocalKeeps, AskRemoteKeeps DEF Ask
<1>2. CASE CallerAsks(t)
  <2>1. ~Waits(t) /\ \E a \in Actors : Ask(t, a, None)
    BY <1>2 DEF CallerAsks, Waits
  <2> QED BY <1>1, <2>1
<1>3. CASE HandlerAsks(t)
  <2> DEFINE m == thread[t].serves
  <2>1. ~Waits(t) /\ thread[t].at = "running" /\ Calls[m.actor] # None
    BY <1>3 DEF HandlerAsks, MustAsk, Waits
  <2>2. m \in Message /\ SoundRequest(m, last)
    BY <2>1 DEF Inv, Flow, ThreadsSound, ThreadSound
  <2>3. Calls[m.actor] \in Actors
    BY <2>1, <2>2, MeshFacts DEF SoundRequest
  <2>4. Ask(t, Calls[m.actor], m)
    BY <1>3 DEF HandlerAsks
  <2> HIDE DEF m
  <2> QED BY <1>1, <2>1, <2>2, <2>3, <2>4
<1> QED BY <1>2, <1>3

\* A handler ends: its result is made before the reply that carries it.
LEMMA HandlerEndsKeeps ==
  ASSUME Inv, NEW t \in Threads, NEW good \in BOOLEAN, HandlerEnds(t, good)
  PROVE  Inv'
<1> DEFINE m == thread[t].serves
           r == Reply(m, t, good)
<1>1. TypeOK /\ Flow /\ Await /\ Once /\ wire \in WireType
  BY DEF Inv, TypeOK, WireType
<1>2. /\ thread[t].at = "running"
      /\ results' = [results EXCEPT ![m.id] = @ \cup {good}]
      /\ thread' = [thread EXCEPT ![t] = Idle]
      /\ \/ /\ t \in Nodes /\ Remember(t, {MaxIds + m.id}) /\ wire' = Sent(wire, t, r)
            /\ outcome' = outcome
         \/ /\ outcome' = [outcome EXCEPT ![m.id] = IF good THEN "ok" ELSE "failed"]
            /\ UNCHANGED <<wire, seen, forgot, faults>>
      /\ UNCHANGED <<last, conns, garbled, pending, box, life, served, runs>>
  BY DEF HandlerEnds, Transmit
<1>3. m \in Message /\ SoundRequest(m, last)
  BY <1>1, <1>2 DEF Flow, ThreadsSound, ThreadSound
<1>4. /\ m.id \in Ids /\ m.id \in 1 .. last /\ last \in Nat
      /\ MaxIds + m.id \in 1 .. (2 * MaxIds) /\ MaxIds + m.id \notin 1 .. last
  BY <1>1, <1>3, MeshFacts DEF SoundRequest, TypeOK, Ids
<1>5. t \in Nodes => r \in Message /\ r.kind = "rep" /\ r.re = m.id
                     /\ r.id = MaxIds + m.id /\ r.ok = good
  BY <1>3, <1>4, MessagesMade DEF Reply
<1> DEFINE id == m.id
<1> HIDE DEF m, r, id
<1>6. /\ results' \in [Ids -> SUBSET BOOLEAN] /\ good \in results'[id]
      /\ \A i \in Ids : results[i] \subseteq results'[i]
  <2>1. results' = [results EXCEPT ![id] = @ \cup {good}] /\ id \in Ids
    BY <1>2, <1>4 DEF id
  <2> QED BY <1>1, <2>1 DEF TypeOK
<1>7. Grown
  BY <1>2, <1>4, <1>6 DEF Grown
<1>8. /\ thread' \in [Threads -> ThreadStates]
      /\ thread'[t] = Idle /\ Idle.at = "idle" /\ Idle.serves = None
      /\ \A u \in Threads \ {t} : thread'[u] = thread[u]
  <2>1. Idle \in ThreadStates /\ Idle.at = "idle" /\ Idle.serves = None
    BY MeshFacts DEF Idle, Thread, ThreadStates
  <2> QED BY <1>1, <1>2, <2>1, ThreadUpdate
<1>9. /\ wire' \in WireType
      /\ \A y \in Frames(wire') :
           \/ y \in Frames(wire)
           \/ Sound(y, last', results') /\ y.id \notin 1 .. last
  <2>1. CASE t \in Nodes /\ wire' = Sent(wire, t, r)
    <3>1. wire' \in WireType /\ Frames(wire') \subseteq Frames(wire) \cup {r}
      BY <1>1, <1>5, <2>1, SentFrames
    <3>2. Sound(r, last', results') /\ r.id \notin 1 .. last
      BY <1>2, <1>4, <1>5, <1>6, <2>1 DEF Sound, SoundReply, id
    <3> QED BY <3>1, <3>2
  <2>2. CASE wire' = wire
    BY <1>1, <2>2
  <2> QED BY <1>2, <2>1, <2>2
<1>10. /\ seen' \in [Nodes -> SUBSET (1 .. (2 * MaxIds))]
       /\ forgot' \in [Nodes -> SUBSET (1 .. (2 * MaxIds))]
       /\ faults' \in 0 .. MaxFaults
       /\ \A p \in Nodes : /\ seen[p] \cup forgot[p] \subseteq seen'[p] \cup forgot'[p]
                           /\ forgot[p] \subseteq forgot'[p]
  <2>1. CASE t \in Nodes /\ Remember(t, {MaxIds + m.id})
    <3>1. {MaxIds + m.id} \in SUBSET (1 .. (2 * MaxIds))
      BY <1>4
    <3> QED BY <1>1, <2>1, <3>1, Remembered
  <2>2. CASE UNCHANGED <<seen, forgot, faults>>
    BY <1>1, <2>2 DEF TypeOK
  <2> QED BY <1>2, <2>1, <2>2
<1>11. /\ outcome' \in [Ids -> {"none", "ok", "failed", "timeout", "detached"}]
       /\ \A i \in Ids : \/ outcome'[i] = outcome[i]
                         \/ (outcome'[i] = "ok") \in results'[i]
  <2>1. CASE outcome' = outcome
    BY <1>1, <2>1 DEF TypeOK
  <2>2. CASE outcome' = [outcome EXCEPT ![id] = IF good THEN "ok" ELSE "failed"]
    <3>1. id \in Ids
      BY <1>4 DEF id
    <3>2. /\ outcome' \in [Ids -> {"none", "ok", "failed", "timeout", "detached"}]
          /\ outcome'[id] = IF good THEN "ok" ELSE "failed"
          /\ \A i \in Ids \ {id} : outcome'[i] = outcome[i]
      BY <1>1, <2>2, <3>1 DEF TypeOK
    <3>3. (outcome'[id] = "ok") \in results'[id]
      <4>1. CASE good = TRUE
        <5>1. outcome'[id] = "ok"
          BY <3>2, <4>1
        <5> QED BY <1>6, <4>1, <5>1
      <4>2. CASE good = FALSE
        <5>1. outcome'[id] = "failed"
          BY <3>2, <4>2
        <5>2. (outcome'[id] = "ok") = FALSE
          BY <5>1
        <5> QED BY <1>6, <4>2, <5>2
      <4> QED BY <4>1, <4>2
    <3> QED BY <3>2, <3>3
  <2> QED BY <1>2, <2>1, <2>2 DEF id
<1>12. TypeOK'
  BY <1>1, <1>2, <1>6, <1>8, <1>9, <1>10, <1>11 DEF TypeOK, WireType, ThreadStates
<1>13. WireSound'
  BY <1>1, <1>7, <1>9, WireKeeps DEF Flow
<1>14. ~Waits(t) /\ ~Waits(t)' /\ ThreadSound(t)'
  BY <1>2, <1>8 DEF Waits, ThreadSound
<1>15. ThreadsSound'
  BY <1>1, <1>7, <1>8, <1>14, ThreadsKeep DEF Flow
<1>16. BoxTrue'
  BY <1>1, <1>2, <1>7, BoxKeeps DEF Flow
<1>17. OwnReply'
  BY <1>1, <1>7, <1>11, OutcomeKeeps DEF Flow
<1>18. Await'
  BY <1>1, <1>2, <1>8, <1>14, AwaitKeeps DEF Waits
<1>19. Once'
  BY <1>1, <1>2, <1>7, <1>9, <1>10, OnceKeeps
<1> QED BY <1>12, <1>13, <1>15, <1>16, <1>17, <1>18, <1>19 DEF Inv, Flow

\* What a reception leaves alone, and what every frame it takes is.
LEMMA ReceiveFacts ==
  ASSUME Inv, NEW n \in Nodes, NEW l \in Links, Receive(n, l),
         NEW m, m = Head(wire[l][n]),
         NEW w, w = [wire EXCEPT ![l][n] = Tail(@)]
  PROVE  /\ Take(n, m, w)
         /\ m \in Message /\ m \in Frames(wire) /\ Sound(m, last, results)
         /\ w \in WireType /\ Frames(w) \subseteq Frames(wire)
         /\ ~Waits(n) /\ n \in Threads /\ NodeOf(n) = n
         /\ UNCHANGED <<last, conns, garbled, life, served, outcome>>
<1>1. wire \in WireType /\ WireSound
  BY DEF Inv, TypeOK, WireType, Flow
<1>2. /\ wire[l][n] # <<>> /\ Take(n, m, w) /\ ~Waits(n)
      /\ UNCHANGED <<last, conns, garbled, life, served, outcome>>
  BY DEF Receive, TakesFrames, Waits
<1>3. /\ m \in Message /\ m \in Frames(wire)
      /\ w \in WireType /\ Frames(w) \subseteq Frames(wire)
  BY <1>1, <1>2, HeadFrame
<1> QED BY <1>1, <1>2, <1>3, MeshFacts DEF WireSound

\* A frame that is dropped, a publication that is delivered.
LEMMA TakenKeeps ==
  ASSUME Inv, NEW n \in Nodes, NEW m \in Frames(wire), ~Waits(n),
         NEW w \in WireType, Frames(w) \subseteq Frames(wire), wire' = w,
         Drop(n, m) \/ (m.id \notin seen[n] /\ TakePub(n, m)),
         UNCHANGED <<last, conns, garbled, life, served, outcome>>
  PROVE  Inv'
<1>1. TypeOK /\ Flow /\ Await /\ Once
  BY DEF Inv
<1>2. UNCHANGED <<pending, box, thread, results>> /\ Grown
  <2>1. UNCHANGED <<pending, box, thread, results>>
    BY DEF Drop, TakePub
  <2>2. last' = last /\ last \in Nat
    BY <1>1, MeshFacts DEF TypeOK
  <2> QED BY <2>1, <2>2 DEF Grown
<1>3. m \in Message /\ m.id \in 1 .. (2 * MaxIds)
  BY DEF Frames, Message
<1>4. TakePub(n, m) => m.id \in 1 .. last /\ m.id \in Ids /\ last \in Nat
  BY <1>1, MeshFacts DEF TakePub, Flow, WireSound, Sound, SoundRequest, SoundReply, SoundPub,
     TypeOK, Ids
<1>5. /\ seen' \in [Nodes -> SUBSET (1 .. (2 * MaxIds))]
      /\ forgot' \in [Nodes -> SUBSET (1 .. (2 * MaxIds))]
      /\ faults' \in 0 .. MaxFaults
      /\ \A p \in Nodes : /\ seen[p] \cup forgot[p] \subseteq seen'[p] \cup forgot'[p]
                          /\ forgot[p] \subseteq forgot'[p]
      /\ TakePub(n, m) => m.id \in seen'[n] \cup forgot'[n]
  <2>1. CASE Remember(n, {m.id})
    <3>1. {m.id} \in SUBSET (1 .. (2 * MaxIds))
      BY <1>3
    <3> QED BY <1>1, <2>1, <3>1, Remembered
  <2>2. CASE UNCHANGED <<seen, forgot, faults>> /\ ~TakePub(n, m)
    BY <1>1, <2>2 DEF TypeOK
  <2>3. TakePub(n, m) => Remember(n, {m.id})
    BY DEF TakePub
  <2> QED BY <2>1, <2>2, <2>3 DEF Drop
<1>6. /\ runs' \in [Nodes -> [Ids -> Nat]]
      /\ \A p \in Nodes, i \in Ids :
           \/ runs'[p][i] = runs[p][i]
           \/ /\ i <= last'
              /\ i \in seen'[p] \cup forgot'[p]
              /\ runs[p][i] > 0 => i \in forgot'[p]
              /\ runs'[p][i] = runs[p][i] + 1
  <2>1. CASE runs' = runs
    BY <1>1, <2>1 DEF TypeOK
  <2>2. CASE m.id \notin seen[n] /\ TakePub(n, m)
    <3>1. /\ runs' \in [Nodes -> [Ids -> Nat]]
          /\ \A p \in Nodes, i \in Ids :
               runs'[p][i] = IF p = n /\ i = m.id THEN runs[p][i] + 1 ELSE runs[p][i]
      BY <1>1, <1>4, <2>2, CountEffect DEF TakePub
    <3>2. runs[n][m.id] > 0 => m.id \in forgot'[n]
      BY <1>1, <1>4, <1>5, <2>2 DEF Once, Counted, Unsent
    <3>3. m.id <= last'
      BY <1>4, <2>2
    <3> QED BY <1>5, <2>2, <3>1, <3>2, <3>3
  <2> QED BY <2>1, <2>2 DEF Drop
<1>7. TypeOK'
  BY <1>1, <1>2, <1>5, <1>6 DEF TypeOK, WireType
<1>8. WireSound' /\ ThreadsSound'
  BY <1>1, <1>2, WireKeeps, ThreadsKeep DEF Flow
<1>9. BoxTrue'
  BY <1>1, <1>2, BoxKeeps DEF Flow
<1>10. OwnReply'
  BY <1>1, <1>2, OutcomeKeeps DEF Flow
<1>11. Await'
  BY <1>1, <1>2, AwaitKeeps DEF Waits
<1>12. Once'
  BY <1>1, <1>2, <1>5, <1>6, OnceKeeps
<1> QED BY <1>7, <1>8, <1>9, <1>10, <1>11, <1>12 DEF Inv, Flow

\* A handler starts in the receive thread.
LEMMA TakeRequestKeeps ==
  ASSUME Inv, NEW n \in Nodes, NEW m \in Frames(wire), ~Waits(n),
         NEW w \in WireType, Frames(w) \subseteq Frames(wire), wire' = w,
         m.id \notin seen[n], TakeRequest(n, m),
         UNCHANGED <<last, conns, garbled, life, served, outcome>>
  PROVE  Inv'
<1> DEFINE x == Thread("running", m, FALSE, 0)
<1>1. TypeOK /\ Flow /\ Await /\ Once /\ n \in Threads
  BY MeshFacts DEF Inv
<1>2. /\ Remember(n, {m.id}) /\ Count(n, m.id)
      /\ thread' = [thread EXCEPT ![n] = x]
      /\ UNCHANGED <<pending, box, results>>
      /\ Grown
  BY <1>1 DEF TakeRequest, Grown, TypeOK, Ids
<1>3. /\ m \in Message /\ m.id \in 1 .. (2 * MaxIds) /\ {m.id} \in SUBSET (1 .. (2 * MaxIds))
  BY DEF Frames, Message
<1>4. SoundRequest(m, last) /\ m.id \in 1 .. last /\ m.id \in Ids /\ last \in Nat
  BY <1>1, MeshFacts DEF TakeRequest, Flow, WireSound, Sound, SoundRequest, SoundReply, SoundPub,
     TypeOK, Ids
<1>5. /\ seen' \in [Nodes -> SUBSET (1 .. (2 * MaxIds))]
      /\ forgot' \in [Nodes -> SUBSET (1 .. (2 * MaxIds))]
      /\ faults' \in 0 .. MaxFaults
      /\ \A p \in Nodes : /\ seen[p] \cup forgot[p] \subseteq seen'[p] \cup forgot'[p]
                          /\ forgot[p] \subseteq forgot'[p]
      /\ m.id \in seen'[n] \cup forgot'[n]
  BY <1>1, <1>2, <1>3, Remembered
<1>6. /\ runs' \in [Nodes -> [Ids -> Nat]]
      /\ \A p \in Nodes, i \in Ids :
           \/ runs'[p][i] = runs[p][i]
           \/ /\ i <= last'
              /\ i \in seen'[p] \cup forgot'[p]
              /\ runs[p][i] > 0 => i \in forgot'[p]
              /\ runs'[p][i] = runs[p][i] + 1
  <2>1. /\ runs' \in [Nodes -> [Ids -> Nat]]
        /\ \A p \in Nodes, i \in Ids :
             runs'[p][i] = IF p = n /\ i = m.id THEN runs[p][i] + 1 ELSE runs[p][i]
    BY <1>1, <1>2, <1>4, CountEffect
  <2>2. runs[n][m.id] > 0 => m.id \in forgot'[n]
    BY <1>1, <1>4, <1>5 DEF Once, Counted, Unsent
  <2>3. m.id <= last'
    BY <1>4
  <2> QED BY <1>5, <2>1, <2>2, <2>3
<1>7. /\ x \in ThreadStates /\ x.at = "running" /\ x.serves = m
  BY <1>3, MeshFacts DEF Thread, ThreadStates
<1> HIDE DEF x
<1>8. /\ thread' \in [Threads -> ThreadStates]
      /\ thread'[n] = x
      /\ \A u \in Threads \ {n} : thread'[u] = thread[u]
  BY <1>1, <1>2, <1>7, ThreadUpdate
<1>9. TypeOK'
  BY <1>1, <1>2, <1>5, <1>6, <1>8 DEF TypeOK, WireType, ThreadStates
<1>10. ~Waits(n)' /\ ThreadSound(n)'
  BY <1>3, <1>4, <1>7, <1>8 DEF Waits, ThreadSound
<1>11. WireSound' /\ ThreadsSound'
  BY <1>1, <1>2, <1>8, <1>10, WireKeeps, ThreadsKeep DEF Flow
<1>12. BoxTrue' /\ OwnReply'
  BY <1>1, <1>2, BoxKeeps, OutcomeKeeps DEF Flow
<1>13. Await'
  BY <1>1, <1>2, <1>8, <1>10, AwaitKeeps DEF Waits
<1>14. Once'
  BY <1>1, <1>2, <1>5, <1>6, OnceKeeps
<1> QED BY <1>9, <1>11, <1>12, <1>13, <1>14 DEF Inv, Flow

\* No handler: the result of the request is the refusal that the reply carries.
LEMMA RefuseKeeps ==
  ASSUME Inv, NEW n \in Nodes, NEW m \in Frames(wire), ~Waits(n),
         NEW w \in WireType, Frames(w) \subseteq Frames(wire), Refuse(n, m, w),
         UNCHANGED <<last, conns, garbled, life, served, outcome>>
  PROVE  Inv'
<1> DEFINE r == Reply(m, n, FALSE)
           ids == {m.id, MaxIds + m.id}
<1>1. TypeOK /\ Flow /\ Await /\ Once
  BY DEF Inv
<1>2. /\ Remember(n, ids)
      /\ results' = [results EXCEPT ![m.id] = @ \cup {FALSE}]
      /\ wire' = Sent(w, n, r)
      /\ UNCHANGED <<pending, box, thread, runs>>
  BY DEF Refuse
<1>3. /\ m \in Message /\ m.id \in 1 .. last /\ m.id \in Ids /\ last \in Nat
      /\ MaxIds + m.id \in 1 .. (2 * MaxIds) /\ MaxIds + m.id \notin 1 .. last
  <2>1. m \in Message /\ m.id \in 1 .. last
    BY <1>1 DEF Refuse, Frames, Flow, WireSound, Sound, SoundRequest, SoundReply, SoundPub
  <2> QED BY <1>1, <2>1, MeshFacts DEF TypeOK, Ids
<1>4. ids \in SUBSET (1 .. (2 * MaxIds))
  BY <1>3, MeshFacts
<1>5. r \in Message /\ r.kind = "rep" /\ r.re = m.id /\ r.id = MaxIds + m.id /\ r.ok = FALSE
  BY <1>3, MessagesMade DEF Reply
<1>6. /\ results' \in [Ids -> SUBSET BOOLEAN] /\ FALSE \in results'[m.id]
      /\ \A i \in Ids : results[i] \subseteq results'[i]
  BY <1>1, <1>2, <1>3 DEF TypeOK
<1> HIDE DEF r, ids
<1>7. Grown
  <2>1. last' = last
    OBVIOUS
  <2> QED BY <1>3, <1>6, <2>1 DEF Grown
<1>8. /\ wire' \in WireType
      /\ \A y \in Frames(wire') :
           \/ y \in Frames(wire)
           \/ Sound(y, last', results') /\ y.id \notin 1 .. last
  <2>1. wire' \in WireType /\ Frames(wire') \subseteq Frames(w) \cup {r}
    BY <1>2, <1>5, SentFrames
  <2>2. Sound(r, last', results') /\ r.id \notin 1 .. last
    BY <1>3, <1>5, <1>6 DEF Sound, SoundReply
  <2> QED BY <2>1, <2>2
<1>9. /\ seen' \in [Nodes -> SUBSET (1 .. (2 * MaxIds))]
      /\ forgot' \in [Nodes -> SUBSET (1 .. (2 * MaxIds))]
      /\ faults' \in 0 .. MaxFaults
      /\ \A p \in Nodes : /\ seen[p] \cup forgot[p] \subseteq seen'[p] \cup forgot'[p]
                          /\ forgot[p] \subseteq forgot'[p]
  BY <1>1, <1>2, <1>4, Remembered
<1>10. TypeOK'
  BY <1>1, <1>2, <1>6, <1>8, <1>9 DEF TypeOK, WireType
<1>11. WireSound'
  BY <1>1, <1>7, <1>8, WireKeeps DEF Flow
<1>12. ThreadsSound'
  BY <1>1, <1>2, <1>7, ThreadsKeep DEF Flow
<1>13. BoxTrue' /\ OwnReply'
  BY <1>1, <1>2, <1>7, BoxKeeps, OutcomeKeeps DEF Flow
<1>14. Await'
  BY <1>1, <1>2, AwaitKeeps DEF Waits
<1>15. Once'
  BY <1>1, <1>2, <1>7, <1>8, <1>9, OnceKeeps
<1> QED BY <1>10, <1>11, <1>12, <1>13, <1>14, <1>15 DEF Inv, Flow

\* A reply: its waiter is another thread than the receive thread, if there is
\* one, and its entry goes with the answer.
LEMMA TakeReplyKeeps ==
  ASSUME Inv, NEW n \in Nodes, NEW m \in Frames(wire), ~Waits(n),
         NEW w \in WireType, Frames(w) \subseteq Frames(wire), wire' = w,
         TakeReply(n, m),
         UNCHANGED <<last, conns, garbled, life, served, outcome>>
  PROVE  Inv'
<1> DEFINE how == IF m.ok THEN "ok" ELSE "failed"
           i0 == m.re
<1>1. TypeOK /\ Flow /\ Await /\ Once
  BY DEF Inv
<1>2. /\ Remember(n, {m.id}) /\ UNCHANGED <<thread, runs, results>>
      /\ \/ /\ i0 \in pending[n]
            /\ pending' = [pending EXCEPT ![n] = @ \ {i0}]
            /\ box' = [box EXCEPT ![i0] = how]
         \/ UNCHANGED <<pending, box>>
  BY DEF TakeReply
<1>3. /\ m \in Message /\ m.id \in 1 .. (2 * MaxIds) /\ {m.id} \in SUBSET (1 .. (2 * MaxIds))
      /\ m.ok \in BOOLEAN
  BY DEF Frames, Message
<1>4. /\ i0 \in 1 .. last /\ m.ok \in results[i0] /\ i0 \in Ids /\ i0 <= last
      /\ last \in Nat /\ last' = last
  <2>1. i0 \in 1 .. last /\ m.ok \in results[i0]
    BY <1>1 DEF TakeReply, Flow, WireSound, Sound, SoundRequest, SoundReply, SoundPub
  <2> QED BY <1>1, <2>1, MeshFacts DEF TypeOK, Ids
<1>5. how \in {"ok", "failed"} /\ (how = "ok") \in results[i0]
  BY <1>3, <1>4
<1>6. Grown
  BY <1>2, <1>4 DEF Grown
<1> HIDE DEF how, i0
<1>7. /\ seen' \in [Nodes -> SUBSET (1 .. (2 * MaxIds))]
      /\ forgot' \in [Nodes -> SUBSET (1 .. (2 * MaxIds))]
      /\ faults' \in 0 .. MaxFaults
      /\ \A p \in Nodes : /\ seen[p] \cup forgot[p] \subseteq seen'[p] \cup forgot'[p]
                          /\ forgot[p] \subseteq forgot'[p]
  BY <1>1, <1>2, <1>3, Remembered
<1>8. WireSound' /\ ThreadsSound'
  BY <1>1, <1>2, <1>6, WireKeeps, ThreadsKeep DEF Flow
<1>9. OwnReply' /\ Once'
  BY <1>1, <1>2, <1>6, <1>7, OutcomeKeeps, OnceKeeps DEF Flow
<1>10. CASE UNCHANGED <<pending, box>>
  <2>1. TypeOK'
    BY <1>1, <1>2, <1>7, <1>10 DEF TypeOK, WireType
  <2>2. BoxTrue'
    BY <1>1, <1>6, <1>10, BoxKeeps DEF Flow
  <2>3. Await'
    BY <1>1, <1>2, <1>10, AwaitKeeps DEF Waits
  <2> QED BY <1>8, <1>9, <2>1, <2>2, <2>3 DEF Inv, Flow
<1>11. CASE /\ i0 \in pending[n]
            /\ pending' = [pending EXCEPT ![n] = @ \ {i0}]
            /\ box' = [box EXCEPT ![i0] = how]
  <2>1. /\ pending' \in [Nodes -> SUBSET Ids]
        /\ pending'[n] = pending[n] \ {i0}
        /\ \A p \in Nodes \ {n} : pending'[p] = pending[p]
    BY <1>1, <1>11 DEF TypeOK
  <2>2. /\ box' \in [Ids -> {"empty", "ok", "failed", "detached"}]
        /\ box'[i0] = how
        /\ \A i \in Ids \ {i0} : box'[i] = box[i]
    BY <1>1, <1>4, <1>5, <1>11 DEF TypeOK
  <2>3. TypeOK'
    BY <1>1, <1>2, <1>7, <2>1, <2>2 DEF TypeOK, WireType
  <2>4. BoxTrue'
    BY <1>1, <1>2, <1>4, <1>5, <1>6, <2>2, BoxKeeps DEF Flow
  \* The one thread that waits for it.
  <2>5. PICK u \in Threads : NodeOf(u) = n /\ Waits(u) /\ thread[u].waits = i0
    BY <1>1, <1>11 DEF Await, PendingIsAwaited, Waits
  <2>6. ASSUME NEW v \in Threads, Waits(v), thread[v].waits = i0
        PROVE  v = u
    BY <1>1, <2>5, <2>6 DEF Await, OneWaits
  <2>7. PendingIsAwaited' /\ OneWaits'
    BY <1>1, <1>2, <2>1 DEF Await, PendingIsAwaited, OneWaits, Waits
  <2>8. PendingOpen'
    <3> SUFFICES ASSUME NEW p \in Nodes, NEW i \in pending'[p] PROVE box'[i] = "empty"
      BY DEF PendingOpen
    <3>1. i \in pending[p] /\ i \in Ids /\ box[i] = "empty"
      BY <1>1, <2>1 DEF TypeOK, Await, PendingOpen
    <3>2. i # i0
      <4> SUFFICES ASSUME i = i0 PROVE FALSE
        OBVIOUS
      <4>1. PICK v \in Threads : NodeOf(v) = p /\ Waits(v) /\ thread[v].waits = i0
        BY <1>1, <3>1 DEF Await, PendingIsAwaited, Waits
      <4>2. p = n
        BY <2>5, <2>6, <4>1
      <4> QED BY <2>1, <4>2
    <3> QED BY <2>2, <3>1, <3>2
  <2>9. NestedNeverAnswered'
    <3> SUFFICES ASSUME NEW p \in Nodes, Waits(p)
                 PROVE  box'[thread[p].waits] \in {"empty", "detached"}
      BY <1>2 DEF NestedNeverAnswered, Waits
    <3>1. thread[p].waits \in Ids /\ box[thread[p].waits] \in {"empty", "detached"}
      BY <1>1, <1>6, SoundStays, MeshFacts
         DEF Await, NestedNeverAnswered, Waits, Flow, ThreadsSound, ThreadSound
    <3>2. thread[p].waits # i0
      <4> SUFFICES ASSUME thread[p].waits = i0 PROVE FALSE
        OBVIOUS
      <4>1. p = u
        BY <2>6, MeshFacts
      <4>2. p = n
        BY <2>5, <4>1, MeshFacts
      <4> QED BY <4>2
    <3> QED BY <2>2, <3>1, <3>2
  <2> QED BY <1>8, <1>9, <2>3, <2>4, <2>7, <2>8, <2>9 DEF Inv, Flow, Await
<1> QED BY <1>2, <1>10, <1>11

LEMMA ReceiveKeeps ==
  ASSUME Inv, NEW n \in Nodes, NEW l \in Links, Receive(n, l)
  PROVE  Inv'
<1> DEFINE m == Head(wire[l][n])
           w == [wire EXCEPT ![l][n] = Tail(@)]
<1>1. /\ Take(n, m, w)
      /\ m \in Message /\ m \in Frames(wire) /\ Sound(m, last, results)
      /\ w \in WireType /\ Frames(w) \subseteq Frames(wire)
      /\ ~Waits(n) /\ n \in Threads /\ NodeOf(n) = n
      /\ UNCHANGED <<last, conns, garbled, life, served, outcome>>
  BY ReceiveFacts
<1> HIDE DEF m, w
<1>2. CASE wire' = w /\ (Drop(n, m) \/ (m.id \notin seen[n] /\ TakePub(n, m)))
  BY <1>1, <1>2, TakenKeeps
<1>3. CASE wire' = w /\ TakeReply(n, m)
  BY <1>1, <1>3, TakeReplyKeeps
<1>4. CASE wire' = w /\ m.id \notin seen[n] /\ TakeRequest(n, m)
  BY <1>1, <1>4, TakeRequestKeeps
<1>5. CASE Refuse(n, m, w)
  BY <1>1, <1>5, RefuseKeeps
<1> QED BY <1>1, <1>2, <1>3, <1>4, <1>5 DEF Take

LEMMA InvInit == Init => Inv
<1> SUFFICES ASSUME Init PROVE Inv
  OBVIOUS
<1>1. Idle \in ThreadStates /\ Idle.at = "idle" /\ Idle.serves = None
  BY MeshFacts DEF Idle, Thread, ThreadStates
<1>2. /\ wire = [l \in Links |-> [n \in Nodes |-> <<>>]] /\ wire \in WireType
      /\ Frames(wire) = {}
  <2>1. wire = [l \in Links |-> [n \in Nodes |-> <<>>]] /\ <<>> \in Seq(Message)
    BY DEF Init
  <2>2. wire \in WireType
    BY <2>1 DEF WireType
  <2>3. \A l \in Links, n \in Nodes : DOMAIN wire[l][n] = {}
    BY <2>1
  <2> QED BY <2>1, <2>2, <2>3 DEF Frames
<1>3. last = 0 /\ 0 \in 0 .. MaxIds /\ 0 \in 0 .. MaxFaults
  BY MeshFacts DEF Init
<1>4. TypeOK
  BY <1>1, <1>2, <1>3 DEF Init, TypeOK, WireType, ThreadStates
<1>5. Flow
  BY <1>1, <1>2 DEF Init, Flow, WireSound, ThreadsSound, ThreadSound, BoxTrue, OwnReply, Waits
<1>6. Await
  BY <1>1, MeshFacts
     DEF Init, Await, PendingIsAwaited, PendingOpen, OneWaits, NestedNeverAnswered, Waits
<1>7. Once
  BY DEF Init, Once, Counted, OnceUnlessForgotten
<1> QED BY <1>4, <1>5, <1>6, <1>7 DEF Inv

LEMMA InvNext == Inv /\ [Next]_vars => Inv'
<1> SUFFICES ASSUME Inv, [Next]_vars PROVE Inv'
  OBVIOUS
<1>1. ASSUME NEW t \in Callers, Publish(t) \/ CallerAsks(t) PROVE Inv'
  <2>1. t \in Threads
    BY DEF Threads
  <2> QED BY <1>1, <2>1, PublishKeeps, AsksKeep
<1>2. ASSUME NEW t \in Threads, Work(t) PROVE Inv'
  BY <1>2, AsksKeep, WaitingKeeps, HandlerEndsKeeps DEF Work
<1>3. ASSUME NEW n \in Nodes, NEW l \in Links, Receive(n, l) PROVE Inv'
  BY <1>3, ReceiveKeeps
<1>4. CASE Trouble
  BY <1>4, TroubleKeeps
<1>5. CASE UNCHANGED vars
  <2>1. UNCHANGED <<last, conns, wire, garbled, seen, pending, box, thread, life, served,
                    faults, hist>>
    BY <1>5 DEF vars, net
  <2>2. TypeOK'
    BY <2>1 DEF Inv, TypeOK, hist
  <2> QED BY <2>1, <2>2, QuietKeeps
<1> QED BY <1>1, <1>2, <1>3, <1>4, <1>5 DEF Next

LEMMA InvAlways == Spec => []Inv
BY InvInit, InvNext, PTL DEF Spec

-----------------------------------------------------------------------------
(* What request() and the receive thread promise.                          *)

\* Every variable of the mesh stays in its type (actor_mesh.py).
THEOREM MeshTypeCorrect == Spec => []TypeOK
<1>1. Inv => TypeOK
  BY DEF Inv
<1> QED BY <1>1, InvAlways, PTL

\* request() returns what a handler made of this very request, over however
\* many connections its reply came, and whichever thread ran the handler
\* (actor_mesh.py, request and _complete_pending).
THEOREM OwnReplyHolds == Spec => []OwnReply
<1>1. Inv => OwnReply
  BY DEF Inv, Flow
<1> QED BY <1>1, InvAlways, PTL

\* No way out of request() leaves an entry in _pending: each has a thread of
\* its node that is still waiting for it (actor_mesh.py, request and detach).
THEOREM PendingIsAwaitedHolds == Spec => []PendingIsAwaited
<1>1. Inv => PendingIsAwaited
  BY DEF Inv, Await
<1> QED BY <1>1, InvAlways, PTL

\* A message is handled once at a node unless _seen has dropped its id
\* (actor_mesh.py, _recv_loop and _mark_seen).
THEOREM OnceUnlessForgottenHolds == Spec => []OnceUnlessForgotten
<1>1. Inv => OnceUnlessForgotten
  BY DEF Inv, Once
<1> QED BY <1>1, InvAlways, PTL

\* A request that a handler makes on the receive thread gets no answer: only
\* a detach, or its timeout, ends that wait (actor_mesh.py, _handle_request).
THEOREM NestedNeverAnsweredHolds == Spec => []NestedNeverAnswered
<1>1. Inv => NestedNeverAnswered
  BY DEF Inv, Await
<1> QED BY <1>1, InvAlways, PTL
=============================================================================
