---------------------------- MODULE DaemonProofs ----------------------------
(***************************************************************************)
(* Proofs about Daemon, and with it about Kernel and Services, for any     *)
(* facets, services and bounds.  The kernel's half rests on two facts: the *)
(* configuration is registered first, so that a container without it is    *)
(* empty and a boot that gets past it meets no remains; and each thread is *)
(* held by what its boot put into the container, or is an orphan.  The     *)
(* services' half follows the one thread: what lives and is no stray is    *)
(* the process the manager holds, and a service is let go before it is     *)
(* passed by in the stop.                                                  *)
(***************************************************************************)
EXTENDS Daemon, TLAPS, FiniteSetTheorems

\* The stages after the configuration was registered.
Later == {"core", "runtime", "mesh", "events", "event_mesh", "scheduler", "ports"}

\* The container in its order: nothing without the configuration, and from
\* there on only objects of the present boot.
Ordered ==
  /\ container["config"] = 0 => \A s \in Services : container[s] = 0
  /\ step # "idle" => boot \in Boots
  /\ step \in Later => container["config"] = boot
  /\ step \in Later \/ phase = "ready" =>
       \A s \in Services : container[s] \in {0, boot}
  /\ step \in {"event_mesh", "scheduler", "ports"} => container["events"] = boot
  /\ step = "mesh" => facet \in 1 .. Len(Facets) + 1

\* Each thread is held by a name that shutdown() looks at, by the build it
\* belongs to, by nothing because detach has no call for it, or is an orphan
\* or one that shutdown() gave up on.
ThreadsHeld ==
  /\ orphans \subseteq MeshKinds \X Boots
  /\ \A t \in threads \ (orphans \cup unstopped) :
       /\ t[1] \in EventKinds => container["event_mesh"] = t[2]
       /\ t[1] = "scheduler" => container["events"] = t[2]
       /\ t[1] \in Detached =>
            container["actor_mesh"] = t[2] \/ (step = "mesh" /\ t[2] = boot)

KernelInv == KernelTypeOK /\ Ordered /\ ThreadsHeld

\* What the manager's one thread relies on, wherever it stands.
Placed ==
  /\ main # "out" => at >= 1
  /\ starting = "ping" => at \in DOMAIN Order /\ main \in {"autostart", "monitor"}
  /\ main = "stop" => \A i \in DOMAIN Order : i < at => proc[Order[i]] = NoWorker

ServicesInv == ServicesTypeOK /\ Placed /\ strays \subseteq Workers /\ OneWorker

-----------------------------------------------------------------------------
(* The kernel.                                                             *)

LEMMA KernelFacts ==
  /\ Kinds = MeshKinds \cup EventKinds \cup {"scheduler"}
  /\ \A k \in MeshKinds : k \notin EventKinds /\ k # "scheduler"
  /\ "scheduler" \notin EventKinds
  /\ Detached \subseteq MeshKinds
  /\ \A i \in 1 .. Len(Facets) : Facets[i] \in MeshKinds
  /\ Boots \subseteq Nat /\ 0 \notin Boots /\ \A b \in Boots : b \in 0 .. MaxBoots
  /\ Len(Facets) \in Nat /\ MaxBoots \in Nat
BY KernelAssumption DEF Kinds, MeshKinds, EventKinds, Boots

\* A name that is free is taken by the present boot; the others keep theirs.
LEMMA RegisteredValues ==
  ASSUME KernelTypeOK, NEW s \in Services, boot \in Boots,
         container' = Registered(s)
  PROVE  /\ container' \in [Services -> 0 .. MaxBoots]
         /\ container'[s] = boot
         /\ \A r \in Services \ {s} : container'[r] = container[r]
BY KernelFacts DEF KernelTypeOK, Registered

LEMMA KernelTypes ==
  ASSUME KernelInv, KernelNext
  PROVE  KernelTypeOK'
<1>1. KernelTypeOK /\ Ordered
  BY DEF KernelInv
<1>2. step # "idle" => boot \in Boots
  BY <1>1 DEF Ordered
<1>3. CASE Boot
  BY <1>1, <1>3, KernelFacts DEF Boot, KernelTypeOK
<1>4. CASE RegisterConfig
  BY <1>1, <1>2, <1>4, RegisteredValues DEF RegisterConfig, Raise, KernelTypeOK, Services
<1>5. CASE RegisterCore
  BY <1>1, <1>2, <1>5, RegisteredValues DEF RegisterCore, Raise, KernelTypeOK, Services
<1>6. CASE RegisterRuntime
  <2>1. facet' \in 0 .. Len(Facets) + 1
    BY <1>1, <1>6, KernelFacts DEF RegisterRuntime, KernelTypeOK
  <2>2. container' \in [Services -> 0 .. MaxBoots]
    BY <1>1, <1>2, <1>6, RegisteredValues DEF RegisterRuntime, Raise, KernelTypeOK, Services
  <2> QED BY <1>1, <1>6, <2>1, <2>2 DEF RegisterRuntime, Raise, KernelTypeOK
<1>7. CASE StartFacet
  <2>1. facet \in 1 .. Len(Facets) /\ Facets[facet] \in MeshKinds /\ boot \in Boots
    BY <1>1, <1>7, KernelFacts DEF StartFacet, Ordered
  <2>2. threads' \subseteq Kinds \X Boots /\ orphans' \subseteq Kinds \X Boots
    BY <1>1, <1>7, <2>1, KernelFacts DEF StartFacet, KernelTypeOK
  <2>3. facet' \in 0 .. Len(Facets) + 1
    BY <1>1, <1>7, <2>1, KernelFacts DEF StartFacet
  <2> QED BY <1>1, <1>7, <2>2, <2>3 DEF StartFacet, KernelTypeOK
<1>8. CASE MeshBuilt
  <2>1. orphans' \subseteq Kinds \X Boots
    BY <1>1, <1>8, KernelFacts DEF MeshBuilt, KernelTypeOK
  <2>2. container' \in [Services -> 0 .. MaxBoots]
    BY <1>1, <1>2, <1>8, RegisteredValues DEF MeshBuilt, KernelTypeOK, Services
  <2> QED BY <1>1, <1>8, <2>1, <2>2 DEF MeshBuilt, KernelTypeOK
<1>9. CASE BuildEvents
  BY <1>1, <1>2, <1>9, RegisteredValues DEF BuildEvents, Raise, KernelTypeOK, Services
<1>10. CASE BuildEventMesh
  <2>1. boot \in Boots /\ EventKinds \subseteq Kinds /\ "forwarder" \in Kinds
    BY <1>1, <1>2, <1>10, KernelFacts DEF BuildEventMesh, EventKinds
  <2>2. threads' \subseteq Kinds \X Boots
    BY <1>1, <1>10, <2>1 DEF BuildEventMesh, KernelTypeOK
  <2> QED BY <1>1, <1>10, <2>1, <2>2, RegisteredValues
      DEF BuildEventMesh, KernelTypeOK, Services
<1>11. CASE StartScheduler
  BY <1>1, <1>2, <1>11, KernelFacts DEF StartScheduler, KernelTypeOK
<1>12. CASE RegisterPorts
  BY <1>1, <1>2, <1>12, RegisteredValues DEF RegisterPorts, Raise, KernelTypeOK, Services
<1>13. CASE Shutdown
  BY <1>1, <1>13, KernelFacts DEF Shutdown, KernelTypeOK, Empty
<1>14. CASE ThreadEnds
  BY <1>1, <1>14 DEF ThreadEnds, KernelTypeOK
<1> QED BY <1>3, <1>4, <1>5, <1>6, <1>7, <1>8, <1>9, <1>10, <1>11, <1>12, <1>13, <1>14
    DEF KernelNext

\* A boot goes on with a container of its own, or starts and ends elsewhere.
LEMMA KernelOrder ==
  ASSUME KernelInv, KernelNext
  PROVE  Ordered'
<1>1. KernelTypeOK /\ Ordered
  BY DEF KernelInv
<1>2. step # "idle" => boot \in Boots
  BY <1>1 DEF Ordered
<1>3. CASE Boot
  BY <1>1, <1>3, KernelFacts DEF Boot, Ordered, Later, Boots, KernelTypeOK
<1>4. CASE RegisterConfig
  <2>1. CASE Raise
    BY <1>1, <1>4, <2>1 DEF RegisterConfig, Raise, Ordered, Later
  <2>2. CASE ~Raise
    <3>1. /\ Registrable("config") /\ container' = Registered("config")
          /\ step' = "core" /\ boot' = boot /\ boot \in Boots
          /\ \A s \in Services : container[s] = 0
      BY <1>1, <1>2, <1>4, <2>2 DEF RegisterConfig, Registrable, Ordered
    <3>2. /\ container'["config"] = boot
          /\ \A s \in Services : container'[s] \in {0, boot}
      BY <1>1, <3>1, RegisteredValues DEF Services
    <3> QED BY <3>1, <3>2, KernelFacts DEF Ordered, Later
  <2> QED BY <2>1, <2>2
<1>5. ASSUME NEW s \in Services \ {"config"}, step \in Later, boot' = boot,
             container' = container \/ container' = Registered(s),
             step' = "mesh" => facet' \in 1 .. Len(Facets) + 1,
             step' \in {"event_mesh", "scheduler", "ports"} => container'["events"] = boot,
             step' \in Later \cup {"idle"}
      PROVE  Ordered'
  <2>1. /\ boot \in Boots /\ container["config"] = boot
        /\ \A r \in Services : container[r] \in {0, boot}
    BY <1>1, <1>2, <1>5 DEF Ordered, Later
  <2>2. /\ container'["config"] = boot
        /\ \A r \in Services : container'[r] \in {0, boot}
    BY <1>1, <1>5, <2>1, RegisteredValues DEF Services
  <2> QED BY <1>5, <2>1, <2>2, KernelFacts DEF Ordered
<1>6. CASE RegisterCore
  <2>1. /\ step \in Later /\ boot' = boot /\ step' \in {"runtime", "idle"}
        /\ container' = container \/ container' = Registered("core")
    BY <1>6 DEF RegisterCore, Raise, Later
  <2>2. "core" \in Services \ {"config"} /\ step' \in Later \cup {"idle"}
    BY <2>1 DEF Services, Later
  <2> QED BY <1>5, <2>1, <2>2
<1>7. CASE RegisterRuntime
  <2>1. step' = "mesh" => facet' \in 1 .. Len(Facets) + 1
    BY <1>7, KernelFacts DEF RegisterRuntime, Raise
  <2> QED BY <1>5, <1>7, <2>1 DEF RegisterRuntime, Raise, Later, Services
<1>8. CASE StartFacet
  <2>1. step' = "mesh" => facet' \in 1 .. Len(Facets) + 1
    BY <1>1, <1>8, KernelFacts DEF StartFacet, Ordered
  <2> QED BY <1>5, <1>8, <2>1 DEF StartFacet, Later, Services
<1>9. CASE MeshBuilt
  BY <1>5, <1>9 DEF MeshBuilt, Later, Services
<1>10. CASE BuildEvents
  <2>1. step' = "event_mesh" => container'["events"] = boot
    BY <1>1, <1>2, <1>10, RegisteredValues DEF BuildEvents, Raise, Services
  <2> QED BY <1>5, <1>10, <2>1 DEF BuildEvents, Raise, Later, Services
<1>11. CASE BuildEventMesh
  <2>1. container'["events"] = boot
    BY <1>1, <1>2, <1>11, RegisteredValues DEF BuildEventMesh, Ordered, Services
  <2> QED BY <1>5, <1>11, <2>1 DEF BuildEventMesh, Later, Services
<1>12. CASE StartScheduler
  BY <1>1, <1>5, <1>12 DEF StartScheduler, Ordered, Later, Services
<1>13. CASE RegisterPorts
  <2>1. container'["events"] = boot
    BY <1>1, <1>2, <1>13, RegisteredValues DEF RegisterPorts, Raise, Ordered, Services
  <2> QED BY <1>5, <1>13, <2>1 DEF RegisterPorts, Raise, Later, Services
<1>14. CASE Shutdown
  BY <1>1, <1>14 DEF Shutdown, Empty, Ordered, Later
<1>15. CASE ThreadEnds
  BY <1>1, <1>15 DEF ThreadEnds, Ordered, Later
<1> QED BY <1>3, <1>4, <1>6, <1>7, <1>8, <1>9, <1>10, <1>11, <1>12, <1>13, <1>14, <1>15
    DEF KernelNext

\* Every thread stays held: by a name that was free a moment ago, or by one
\* that keeps its object until shutdown() has stopped its threads.
LEMMA KernelThreads ==
  ASSUME KernelInv, KernelNext
  PROVE  ThreadsHeld'
<1>1. KernelTypeOK /\ Ordered /\ ThreadsHeld
  BY DEF KernelInv
<1>2. step # "idle" => boot \in Boots
  BY <1>1 DEF Ordered
<1>3. \A t \in threads : t[1] \in Kinds /\ t[2] \in Boots /\ t = <<t[1], t[2]>>
  BY <1>1 DEF KernelTypeOK
<1>4. \A t \in threads : t[2] # 0
  BY <1>3, KernelFacts
\* What another name becomes, and what Raise leaves, changes nothing.
<1>5. ASSUME UNCHANGED <<threads, orphans, unstopped>>, step # "mesh",
             NEW s \in Services,
             container' = container
               \/ (container' = Registered(s) /\ container[s] = 0 /\ boot \in Boots)
      PROVE  ThreadsHeld'
  <2>1. \A r \in Services : container[r] # 0 => container'[r] = container[r]
    BY <1>1, <1>5, RegisteredValues
  <2> QED BY <1>1, <1>4, <1>5, <2>1 DEF ThreadsHeld, Services
<1>6. CASE Boot
  BY <1>1, <1>6 DEF Boot, ThreadsHeld
<1>7. CASE RegisterConfig
  BY <1>2, <1>5, <1>7 DEF RegisterConfig, Registrable, Raise, Services
<1>8. CASE RegisterCore
  BY <1>2, <1>5, <1>8 DEF RegisterCore, Registrable, Raise, Services
<1>9. CASE RegisterRuntime
  BY <1>2, <1>5, <1>9 DEF RegisterRuntime, Registrable, Raise, Services
<1>10. CASE StartFacet
  <2> DEFINE k == Facets[facet]
             mine == {<<m, boot>> : m \in MeshKinds} \cap threads
  <2>1. k \in MeshKinds /\ boot \in Boots
    BY <1>1, <1>2, <1>10, KernelFacts DEF StartFacet, Ordered
  <2>2. UNCHANGED <<container, boot, unstopped>> /\ step = "mesh"
    BY <1>10 DEF StartFacet
  <2>3. CASE threads' = threads \cup {<<k, boot>>} /\ UNCHANGED <<step, orphans>>
    BY <1>1, <2>1, <2>2, <2>3, KernelFacts DEF ThreadsHeld
  <2>4. CASE UNCHANGED <<step, threads, orphans, unstopped>>
    BY <1>1, <2>2, <2>4 DEF ThreadsHeld
  <2>5. CASE orphans' = orphans \cup mine /\ step' = "events" /\ UNCHANGED threads
    <3>1. ASSUME NEW t \in threads' \ (orphans' \cup unstopped'), t[1] \in Detached
          PROVE  container'["actor_mesh"] = t[2]
      <4>1. t \in threads \ (orphans \cup unstopped) /\ t \notin mine
        BY <2>2, <2>5, <3>1
      <4>2. t[2] # boot
        BY <1>3, <3>1, <4>1, KernelFacts
      <4> QED BY <1>1, <2>2, <3>1, <4>1, <4>2 DEF ThreadsHeld
    <3>2. mine \subseteq MeshKinds \X Boots
      BY <2>1
    <3> HIDE DEF mine
    <3> QED BY <1>1, <2>2, <2>5, <3>1, <3>2 DEF ThreadsHeld
  <2> QED BY <1>10, <2>3, <2>4, <2>5 DEF StartFacet
<1>11. CASE MeshBuilt
  <2> DEFINE mine == {<<m, boot>> : m \in MeshKinds} \cap threads
  <2>1. /\ boot \in Boots /\ step = "mesh" /\ step' = "events"
        /\ UNCHANGED <<boot, threads, unstopped>>
    BY <1>2, <1>11 DEF MeshBuilt
  <2>2. CASE container' = Registered("actor_mesh") /\ UNCHANGED orphans
             /\ container["actor_mesh"] = 0
    <3>1. /\ container'["actor_mesh"] = boot
          /\ container'["event_mesh"] = container["event_mesh"]
          /\ container'["events"] = container["events"]
      BY <1>1, <2>1, <2>2, RegisteredValues DEF Services
    <3> QED BY <1>1, <1>4, <2>1, <2>2, <3>1 DEF ThreadsHeld
  <2>3. CASE orphans' = orphans \cup mine /\ UNCHANGED container
    <3>1. ASSUME NEW t \in threads' \ (orphans' \cup unstopped'), t[1] \in Detached
          PROVE  container'["actor_mesh"] = t[2]
      <4>1. t \in threads \ (orphans \cup unstopped) /\ t \notin mine
        BY <2>1, <2>3, <3>1
      <4>2. t[2] # boot
        BY <1>3, <3>1, <4>1, KernelFacts
      <4> QED BY <1>1, <2>3, <3>1, <4>1, <4>2 DEF ThreadsHeld
    <3>2. mine \subseteq MeshKinds \X Boots
      BY <2>1
    <3> HIDE DEF mine
    <3> QED BY <1>1, <2>1, <2>3, <3>1, <3>2 DEF ThreadsHeld
  <2> QED BY <1>11, <2>2, <2>3 DEF MeshBuilt, Registrable
<1>12. CASE BuildEvents
  BY <1>2, <1>5, <1>12 DEF BuildEvents, Registrable, Raise, Services
<1>13. CASE BuildEventMesh
  <2>1. CASE UNCHANGED <<container, threads>>
    BY <1>5, <1>13, <2>1 DEF BuildEventMesh, Services
  <2>2. CASE Registrable("event_mesh") /\ container' = Registered("event_mesh")
    <3>1. /\ boot \in Boots /\ UNCHANGED <<boot, orphans, unstopped>> /\ step = "event_mesh"
          /\ container["event_mesh"] = 0
          /\ threads' \subseteq threads \cup {<<"forwarder", boot>>, <<"listener", boot>>}
      BY <1>2, <1>13, <2>2 DEF BuildEventMesh, Registrable, EventKinds
    <3>2. /\ container'["event_mesh"] = boot
          /\ container'["actor_mesh"] = container["actor_mesh"]
          /\ container'["events"] = container["events"]
      BY <1>1, <2>2, <3>1, RegisteredValues DEF Services
    <3>3. {"forwarder", "listener"} \subseteq EventKinds
      BY DEF EventKinds
    <3>4. "forwarder" \notin Detached /\ "listener" \notin Detached
      BY <3>3, KernelFacts
    <3> QED BY <1>1, <1>4, <3>1, <3>2, <3>3, <3>4 DEF ThreadsHeld
  <2> QED BY <1>13, <2>1, <2>2 DEF BuildEventMesh
<1>14. CASE StartScheduler
  <2>1. /\ container["events"] = boot /\ UNCHANGED <<container, orphans, boot, unstopped>>
        /\ threads' = threads \cup {<<"scheduler", boot>>} /\ step = "scheduler"
    BY <1>1, <1>14 DEF StartScheduler, Ordered
  <2>2. "scheduler" \notin EventKinds /\ "scheduler" \notin Detached
    BY KernelFacts
  <2> QED BY <1>1, <2>1, <2>2 DEF ThreadsHeld
<1>15. CASE RegisterPorts
  BY <1>2, <1>5, <1>15 DEF RegisterPorts, Registrable, Raise, Services
<1>16. CASE Shutdown
  <2>1. ASSUME NEW t \in threads' \ (orphans' \cup unstopped')
        PROVE  t[1] \notin EventKinds \cup {"scheduler"} \cup Detached
    <3>1. t \in threads \ (orphans \cup unstopped) /\ t \notin Stopped /\ step = "idle"
      BY <1>16 DEF Shutdown
    <3>2. t = <<t[1], t[2]>>
      BY <1>3, <3>1
    <3> QED BY <1>1, <3>1, <3>2 DEF ThreadsHeld, Stopped
  <2> QED BY <1>1, <1>16, <2>1 DEF Shutdown, ThreadsHeld
<1>17. CASE ThreadEnds
  BY <1>1, <1>17 DEF ThreadEnds, ThreadsHeld
<1> QED BY <1>6, <1>7, <1>8, <1>9, <1>10, <1>11, <1>12, <1>13, <1>14, <1>15, <1>16, <1>17
    DEF KernelNext


\* The promises of the kernel follow.
LEMMA KernelPromises ==
  ASSUME KernelInv
  PROVE  ReadyIsFresh /\ NothingLeftRunning
<1>1. KernelTypeOK /\ Ordered /\ ThreadsHeld
  BY DEF KernelInv
<1>2. \A t \in threads : t[1] \in Kinds /\ t[2] \in Boots /\ t = <<t[1], t[2]>>
  BY <1>1 DEF KernelTypeOK
<1>3. ReadyIsFresh
  BY <1>1 DEF Ordered, ReadyIsFresh
<1>4. ASSUME step = "idle", container = Empty, NEW t \in threads \ (orphans \cup unstopped)
      PROVE  t[1] \in MeshKinds \ Detached
  <2>1. t[2] # 0 /\ t[1] \in Kinds
    BY <1>2, KernelFacts
  <2>2. \A s \in Services : container[s] = 0
    BY <1>4 DEF Empty
  <2>3. /\ t[1] \in EventKinds => container["event_mesh"] = t[2]
        /\ t[1] = "scheduler" => container["events"] = t[2]
        /\ t[1] \in Detached => container["actor_mesh"] = t[2]
    BY <1>1, <1>4 DEF ThreadsHeld
  <2> QED BY <2>1, <2>2, <2>3, KernelFacts DEF Services
<1>5. Cardinality({t \in threads \ unstopped : t[1] = "scheduler"}) <= 1
  <2> DEFINE loops == {t \in threads \ unstopped : t[1] = "scheduler"}
             holder == <<"scheduler", container["events"]>>
  <2>1. ASSUME NEW t \in loops PROVE t = holder
    <3>1. t \notin orphans
      BY <1>1, KernelFacts DEF ThreadsHeld
    <3> QED BY <1>1, <1>2, <3>1 DEF ThreadsHeld
  <2>2. loops \subseteq {holder}
    BY <2>1
  <2>3. IsFiniteSet({holder}) /\ Cardinality({holder}) = 1
    BY FS_Singleton
  <2> HIDE DEF loops, holder
  <2>4. Cardinality(loops) <= Cardinality({holder})
    BY <2>2, <2>3, FS_Subset
  <2> QED BY <2>3, <2>4 DEF loops
<1> QED BY <1>3, <1>4, <1>5 DEF NothingLeftRunning

-----------------------------------------------------------------------------
(* The service manager.                                                    *)

LEMMA ServicesFacts ==
  /\ Len(Order) \in Nat /\ DOMAIN Order = 1 .. Len(Order)
  /\ \A i \in DOMAIN Order : Order[i] \in Names
  /\ \A n \in Names : \E i \in DOMAIN Order : n = Order[i]
  /\ \A i, j \in DOMAIN Order : Order[i] = Order[j] => i = j
  /\ MaxSpawns \in Nat
BY ServicesAssumption DEF Names

LEMMA WorkerFacts ==
  \A w \in Workers : /\ w[1] \in Names /\ w[2] \in 1 .. MaxSpawns
                     /\ w = <<w[1], w[2]>> /\ w[2] # NoWorker
BY ServicesFacts DEF Workers, NoWorker

\* A service in reach of the thread.
LEMMA CurrentIsName ==
  ASSUME ServicesInv, at <= Len(Order), main # "out"
  PROVE  at \in DOMAIN Order /\ Current \in Names
BY ServicesFacts DEF ServicesInv, ServicesTypeOK, Placed, Current

\* What a spawn does: a new worker of one service in place of the old one, or
\* none.
LEMMA SpawnEffects ==
  ASSUME ServicesInv, NEW n \in Names, n = Current, main \in {"autostart", "monitor"},
         at \in DOMAIN Order, starting = "no",
         Spawn(n), UNCHANGED <<main, running, strays>>
  PROVE  ServicesTypeOK' /\ Placed' /\ OneWorker'
<1>1. ServicesTypeOK /\ Placed /\ OneWorker
  BY DEF ServicesInv
<1>2. at \in 1 .. Len(Order) /\ at + 1 \in 0 .. Len(Order) + 1 /\ at + 1 >= 1
  BY ServicesFacts
<1>3. CASE /\ spawned[n] < MaxSpawns
           /\ spawned' = [spawned EXCEPT ![n] = @ + 1]
           /\ proc' = [proc EXCEPT ![n] = spawned[n] + 1]
           /\ alive' = Without(n) \cup {<<n, spawned[n] + 1>>}
           /\ hung' = hung \cap alive'
           /\ IF n \in Ipc
              THEN /\ state' = [state EXCEPT ![n] = "starting"]
                   /\ starting' = "ping"
                   /\ UNCHANGED at
              ELSE /\ state' = [state EXCEPT ![n] = "running"]
                   /\ at' = at + 1
                   /\ UNCHANGED starting
  <2>1. spawned[n] + 1 \in 1 .. MaxSpawns /\ spawned[n] + 1 \in 0 .. MaxSpawns
    BY <1>1, <1>3, ServicesFacts DEF ServicesTypeOK
  <2>2. alive' \subseteq Workers
    BY <1>1, <1>3, <2>1 DEF ServicesTypeOK, Without, Workers
  <2>3. /\ spawned' \in [Names -> 0 .. MaxSpawns]
        /\ proc' \in [Names -> 0 .. MaxSpawns]
        /\ state' \in [Names -> {"stopped", "starting", "running", "crashed"}]
    BY <1>1, <1>3, <2>1 DEF ServicesTypeOK
  <2>4. at' \in 0 .. Len(Order) + 1 /\ starting' \in {"no", "ping"}
    BY <1>1, <1>2, <1>3 DEF ServicesTypeOK
  <2>5. ServicesTypeOK'
    BY <1>1, <1>3, <2>2, <2>3, <2>4 DEF ServicesTypeOK
  <2>6. Placed'
    BY <1>1, <1>2, <1>3 DEF Placed
  <2>7. ASSUME NEW w \in alive' \ strays' PROVE w[2] = proc'[w[1]]
    <3>1. w \in Workers
      BY <2>2
    <3>2. CASE w = <<n, spawned[n] + 1>>
      BY <1>1, <1>3, <3>2 DEF ServicesTypeOK
    <3>3. CASE w # <<n, spawned[n] + 1>>
      <4>1. w \in alive \ strays /\ w # <<n, proc[n]>> /\ w[2] = proc[w[1]]
        BY <1>1, <1>3, <3>3 DEF Without, OneWorker
      <4>2. w[1] # n /\ w[1] \in Names
        BY <3>1, <4>1, WorkerFacts
      <4> QED BY <1>1, <1>3, <4>1, <4>2 DEF ServicesTypeOK
    <3> QED BY <3>2, <3>3
  <2> QED BY <2>5, <2>6, <2>7 DEF OneWorker
<1>4. CASE /\ alive' = Without(n)
           /\ hung' = hung \cap alive'
           /\ proc' = [proc EXCEPT ![n] = NoWorker]
           /\ state' = [state EXCEPT ![n] = "crashed"]
           /\ at' = at + 1
           /\ UNCHANGED <<spawned, starting>>
  <2>1. ServicesTypeOK'
    BY <1>1, <1>2, <1>4, ServicesFacts DEF ServicesTypeOK, Without, NoWorker
  <2>2. Placed'
    BY <1>1, <1>2, <1>4 DEF Placed
  <2>3. ASSUME NEW w \in alive' \ strays' PROVE w[2] = proc'[w[1]]
    <3>1. w \in alive \ strays /\ w # <<n, proc[n]>> /\ w[2] = proc[w[1]] /\ w \in Workers
      BY <1>1, <1>4 DEF Without, OneWorker, ServicesTypeOK
    <3>2. w[1] # n /\ w[1] \in Names
      BY <3>1, WorkerFacts
    <3> QED BY <1>1, <1>4, <3>1, <3>2 DEF ServicesTypeOK
  <2> QED BY <2>1, <2>2, <2>3 DEF OneWorker
<1> QED BY <1>3, <1>4 DEF Spawn

\* The step that lets go of a service: its process is ended and forgotten.
LEMMA LettingGo ==
  ASSUME ServicesInv, NEW n \in Names, main # "out",
         proc' = [proc EXCEPT ![n] = NoWorker],
         alive' = Without(n) \/ (alive' = alive /\ ~ProcAlive(n)),
         UNCHANGED <<main, strays>>
  PROVE  OneWorker' /\ proc' \in [Names -> 0 .. MaxSpawns] /\ alive' \subseteq alive
<1>1. ServicesTypeOK /\ OneWorker
  BY DEF ServicesInv
<1>2. proc' \in [Names -> 0 .. MaxSpawns] /\ alive' \subseteq alive
  BY <1>1, ServicesFacts DEF ServicesTypeOK, NoWorker, Without
<1>3. ASSUME NEW w \in alive' \ strays' PROVE w[2] = proc'[w[1]]
  <2>1. w \in alive \ strays /\ w # <<n, proc[n]>>
    <3>1. CASE alive' = Without(n)
      BY <1>3, <3>1 DEF Without
    <3>2. CASE alive' = alive /\ ~ProcAlive(n)
      BY <1>3, <3>2 DEF ProcAlive
    <3> QED BY <3>1, <3>2
  <2>3. w[2] = proc[w[1]] /\ w \in Workers
    BY <1>1, <2>1 DEF OneWorker, ServicesTypeOK
  <2>2. w[1] # n /\ w[1] \in Names
    BY <2>1, <2>3, WorkerFacts
  <2> QED BY <1>1, <2>2, <2>3 DEF ServicesTypeOK
<1> QED BY <1>2, <1>3 DEF OneWorker

LEMMA MainKeeps ==
  ASSUME ServicesInv, MainStep, UNCHANGED strays
  PROVE  ServicesInv'
<1>1. /\ ServicesTypeOK /\ Placed /\ OneWorker /\ strays \subseteq Workers
      /\ NoWorker \in 0 .. MaxSpawns
  BY ServicesFacts DEF ServicesInv, NoWorker
<1>2. CASE Pong
  <2>1. at \in DOMAIN Order /\ main \in {"autostart", "monitor"} /\ Current \in Names
    BY <1>1, <1>2, ServicesFacts DEF Pong, Placed, Current
  <2>2. at \in 1 .. Len(Order) /\ at + 1 \in 0 .. Len(Order) + 1 /\ at + 1 >= 1
    BY <2>1, ServicesFacts
  <2> QED BY <1>1, <1>2, <2>1, <2>2 DEF Pong, ServicesInv, ServicesTypeOK, Placed, OneWorker
<1>3. CASE PingFails
  <2>1. at \in DOMAIN Order /\ main \in {"autostart", "monitor"} /\ Current \in Names
    BY <1>1, <1>3, ServicesFacts DEF PingFails, Placed, Current
  <2>2. at \in 1 .. Len(Order) /\ at + 1 \in 0 .. Len(Order) + 1 /\ at + 1 >= 1
    BY <2>1, ServicesFacts
  <2>3. OneWorker' /\ proc' \in [Names -> 0 .. MaxSpawns] /\ alive' \subseteq alive
    BY <1>3, <2>1, LettingGo DEF PingFails
  <2> QED BY <1>1, <1>3, <2>1, <2>2, <2>3 DEF PingFails, ServicesInv, ServicesTypeOK, Placed
<1>4. CASE Autostart
  <2>1. at \in DOMAIN Order /\ Current \in Names
    BY <1>4, CurrentIsName DEF Autostart
  <2>2. at \in 1 .. Len(Order) /\ at + 1 \in 0 .. Len(Order) + 1 /\ at + 1 >= 1
    BY <2>1, ServicesFacts
  <2>3. CASE Spawn(Current)
    BY <1>1, <1>4, <2>1, <2>3, SpawnEffects DEF Autostart, ServicesInv
  <2>4. CASE at' = at + 1 /\ UNCHANGED <<state, proc, spawned, alive, hung, starting>>
    BY <1>1, <1>4, <2>2, <2>4 DEF Autostart, ServicesInv, ServicesTypeOK, Placed, OneWorker
  <2> QED BY <1>4, <2>3, <2>4 DEF Autostart
<1>5. CASE Autostarted
  BY <1>1, <1>5, ServicesFacts DEF Autostarted, ServicesInv, ServicesTypeOK, Placed, OneWorker
<1>6. CASE Monitor
  <2>1. at \in DOMAIN Order /\ Current \in Names
    BY <1>6, CurrentIsName DEF Monitor
  <2>2. at \in 1 .. Len(Order) /\ at + 1 \in 0 .. Len(Order) + 1 /\ at + 1 >= 1
    BY <2>1, ServicesFacts
  <2>3. CASE Spawn(Current)
    BY <1>1, <1>6, <2>1, <2>3, SpawnEffects DEF Monitor, ServicesInv
  <2>4. CASE at' = at + 1 /\ UNCHANGED <<state, proc, spawned, alive, hung, starting>>
    BY <1>1, <1>6, <2>2, <2>4 DEF Monitor, ServicesInv, ServicesTypeOK, Placed, OneWorker
  <2>5. CASE /\ ~ProcAlive(Current)
             /\ state' = [state EXCEPT ![Current] = "crashed"]
             /\ proc' = [proc EXCEPT ![Current] = NoWorker]
             /\ at' = at + 1
             /\ UNCHANGED <<spawned, alive, hung, starting>>
    <3>1. OneWorker' /\ proc' \in [Names -> 0 .. MaxSpawns]
      BY <1>6, <2>1, <2>5, LettingGo DEF Monitor
    <3> QED BY <1>1, <1>6, <2>1, <2>2, <2>5, <3>1 DEF Monitor, ServicesInv, ServicesTypeOK, Placed
  <2> QED BY <1>6, <2>3, <2>4, <2>5 DEF Monitor
<1>7. CASE NextRound
  BY <1>1, <1>7, ServicesFacts DEF NextRound, ServicesInv, ServicesTypeOK, Placed, OneWorker
<1>8. CASE StopOne
  <2>1. at \in DOMAIN Order /\ Current \in Names
    BY <1>8, CurrentIsName DEF StopOne
  <2>2. at \in 1 .. Len(Order) /\ at + 1 \in 0 .. Len(Order) + 1 /\ at + 1 >= 1
    BY <2>1, ServicesFacts
  <2>3. OneWorker' /\ proc' \in [Names -> 0 .. MaxSpawns] /\ alive' \subseteq alive
    BY <1>8, <2>1, LettingGo DEF StopOne
  <2>4. ASSUME NEW i \in DOMAIN Order, i < at + 1 PROVE proc'[Order[i]] = NoWorker
    <3>1. Order[i] \in Names
      BY ServicesFacts
    <3>2. i = at \/ i < at
      BY <2>2, <2>4, ServicesFacts
    <3> QED BY <1>1, <1>8, <3>1, <3>2 DEF StopOne, Placed, ServicesTypeOK, Current
  <2>5. ServicesTypeOK'
    BY <1>1, <1>8, <2>1, <2>2, <2>3 DEF StopOne, ServicesTypeOK
  <2>6. Placed'
    BY <1>1, <1>8, <2>2, <2>4 DEF StopOne, Placed
  <2> QED BY <1>1, <2>3, <2>5, <2>6 DEF ServicesInv
<1>9. CASE Leave
  <2>1. ASSUME NEW w \in alive \ strays PROVE FALSE
    <3>1. w \in Workers /\ w[2] = proc[w[1]]
      BY <1>1 DEF ServicesTypeOK, OneWorker
    <3>2. PICK i \in DOMAIN Order : w[1] = Order[i]
      BY <3>1, WorkerFacts, ServicesFacts
    <3>3. i < at
      BY <1>1, <1>9, ServicesFacts DEF Leave, ServicesTypeOK
    <3> QED BY <1>1, <1>9, <3>1, <3>2, <3>3, WorkerFacts DEF Leave, Placed
  <2> QED BY <1>1, <1>9, <2>1, ServicesFacts DEF Leave, ServicesInv, ServicesTypeOK, Placed, OneWorker
<1> QED BY <1>2, <1>3, <1>4, <1>5, <1>6, <1>7, <1>8, <1>9 DEF MainStep

-----------------------------------------------------------------------------
(* The process.                                                            *)

\* What holds of a kerrd process at any time.
Inv == KernelInv /\ ServicesInv

LEMMA InvInit == Init => Inv
<1> SUFFICES ASSUME Init PROVE Inv
  OBVIOUS
<1>1. KernelInv
  BY KernelFacts DEF Init, KernelInit, KernelInv, KernelTypeOK, Ordered, ThreadsHeld,
     Empty, Later
<1>2. ServicesInv
  <2>1. /\ 0 \in 0 .. Len(Order) + 1 /\ 0 \in 0 .. MaxSpawns
    BY ServicesFacts
  <2>2. ServicesTypeOK
    BY <2>1 DEF Init, ServicesInit, ServicesTypeOK, NoWorker
  <2>3. Placed /\ OneWorker /\ strays \subseteq Workers
    BY DEF Init, ServicesInit, Placed, OneWorker
  <2> QED BY <2>2, <2>3 DEF ServicesInv
<1> QED BY <1>1, <1>2 DEF Inv

LEMMA KernelStays ==
  ASSUME KernelInv, UNCHANGED kernelVars
  PROVE  KernelInv'
BY DEF kernelVars, KernelInv, KernelTypeOK, Ordered, ThreadsHeld

LEMMA ServicesStay ==
  ASSUME ServicesInv, UNCHANGED <<servicesVars, strays>>
  PROVE  ServicesInv'
BY DEF servicesVars, ServicesInv, ServicesTypeOK, Placed, OneWorker

LEMMA InvNext == Inv /\ [Next]_vars => Inv'
<1> SUFFICES ASSUME Inv, [Next]_vars PROVE Inv'
  OBVIOUS
<1>1. KernelInv /\ ServicesInv
  BY DEF Inv
<1>2. /\ ServicesTypeOK /\ Placed /\ OneWorker /\ strays \subseteq Workers
      /\ NoWorker \in 0 .. MaxSpawns
  BY ServicesFacts DEF Inv, ServicesInv, NoWorker
<1>3. CASE KernelStep
  <2>1. KernelInv'
    BY <1>1, <1>3, KernelTypes, KernelOrder, KernelThreads DEF KernelStep, KernelInv
  <2> QED BY <1>1, <1>3, <2>1, ServicesStay DEF KernelStep, Inv
<1>4. CASE Start
  <2>1. ServicesInv'
    BY <1>2, <1>4, ServicesFacts DEF Start, Enter, ServicesInv, ServicesTypeOK, Placed, OneWorker
  <2> QED BY <1>1, <1>4, <2>1, KernelStays DEF Start, Inv
<1>5. CASE ServiceStep
  BY <1>1, <1>5, MainKeeps, KernelStays DEF ServiceStep, Inv, vars, OneWorker
<1>6. CASE Interrupted
  <2>1. ServicesInv'
    <3>1. 1 \in 0 .. Len(Order) + 1 /\ \A i \in DOMAIN Order : ~(i < 1)
      BY ServicesFacts
    <3>2. ServicesTypeOK'
      BY <1>2, <1>6, <3>1 DEF Interrupted, Interrupt, ServicesTypeOK
    <3>3. Placed'
      BY <1>2, <1>6, <3>1 DEF Interrupted, Interrupt, Placed
    <3>4. OneWorker' /\ strays' \subseteq Workers
      BY <1>2, <1>6 DEF Interrupted, Interrupt, OneWorker
    <3> QED BY <3>2, <3>3, <3>4 DEF ServicesInv
  <2> QED BY <1>1, <1>6, <2>1, KernelStays DEF Interrupted, Inv
<1>7. CASE Killed
  <2>1. KernelInv'
    BY <1>1, <1>7, KernelFacts DEF Killed, KernelInv, KernelTypeOK, Ordered, ThreadsHeld,
       Empty, Later
  <2>2. ServicesInv'
    <3>1. 0 \in 0 .. Len(Order) + 1
      BY ServicesFacts
    <3>2. ServicesTypeOK'
      BY <1>2, <1>7, <3>1 DEF Killed, ServicesTypeOK
    <3>3. Placed' /\ OneWorker' /\ strays' \subseteq Workers
      BY <1>2, <1>7 DEF Killed, Placed, OneWorker, ServicesTypeOK
    <3> QED BY <3>2, <3>3 DEF ServicesInv
  <2> QED BY <2>1, <2>2 DEF Inv
<1>8. ASSUME NEW w \in Workers, Dies(w) \/ Hangs(w) PROVE Inv'
  <2>1. KernelInv'
    BY <1>1, <1>8, KernelStays DEF Dies, Hangs
  <2>2. ServicesInv'
    BY <1>2, <1>8 DEF Dies, Hangs, WorkerDies, WorkerHangs, ServicesInv, ServicesTypeOK,
       Placed, OneWorker
  <2> QED BY <2>1, <2>2 DEF Inv
<1>9. CASE UNCHANGED vars
  BY <1>1, <1>9, KernelStays, ServicesStay DEF vars, Inv
<1> QED BY <1>3, <1>4, <1>5, <1>6, <1>7, <1>8, <1>9 DEF Next

LEMMA InvAlways == Spec => []Inv
BY InvInit, InvNext, PTL DEF Spec

\* Every variable of the process stays in its type (boot.py, services.py,
\* kerrd.py).
THEOREM DaemonTypeCorrect == Spec => []TypeOK
<1>1. Inv => TypeOK
  BY DEF Inv, KernelInv, ServicesInv, TypeOK
<1> QED BY <1>1, InvAlways, PTL

\* A ready kernel resolves objects of one boot only, however many boots raised
\* before it and wherever (boot.py:83): the configuration is registered first,
\* and Container.register refuses a name that is taken.
THEOREM ReadyIsFreshHolds == Spec => []ReadyIsFresh
<1>1. Inv => ReadyIsFresh
  BY KernelPromises DEF Inv
<1> QED BY <1>1, InvAlways, PTL

\* With an empty container no thread runs that a boot started, except facets
\* detach does not know and orphans of a mesh that raised; and there is never
\* more than one scheduler loop (boot.py, shutdown).
THEOREM NothingLeftRunningHolds == Spec => []NothingLeftRunning
<1>1. Inv => NothingLeftRunning
  BY KernelPromises DEF Inv
<1> QED BY <1>1, InvAlways, PTL

\* The manager never has two live workers of a service and leaves none behind,
\* whatever dies, hangs or interrupts (services.py:129-180): each live worker is
\* the one it holds, or was left by a process that was killed.
THEOREM OneWorkerHolds == Spec => []OneWorker
<1>1. Inv => OneWorker
  BY DEF Inv, ServicesInv
<1> QED BY <1>1, InvAlways, PTL
=============================================================================
