------------------------------- MODULE Kernel -------------------------------
(***************************************************************************)
(* The boot and shutdown of the kernel (kernel/boot.py) over the container *)
(* of kernel/container.py, with the threads that the actor mesh, the event *)
(* mesh and the scheduler of a boot start on the way.  A registered object *)
(* is known by the number of the boot that made it, a background thread by *)
(* its kind and that number.  Boot and shutdown run on one thread, the     *)
(* caller's; what a boot leaves behind when it raises stays.               *)
(***************************************************************************)
EXTENDS Naturals, Sequences, FiniteSets

CONSTANTS Facets,       \* the threads build_actor_mesh starts, in its order
          Detached,     \* those of them that ActorMesh.detach stops
          Binding,      \* those that hold a port: one of a kind at a time
          Fatal,        \* those whose failed start makes the build raise
          MaxBoots      \* bound on the number of calls to boot that do work

MeshKinds == {Facets[i] : i \in DOMAIN Facets}
EventKinds == {"forwarder", "listener"}
Kinds == MeshKinds \cup EventKinds \cup {"scheduler"}
Services == {"config", "core", "runtime", "actor_mesh", "events",
             "event_mesh", "ports"}
Boots == 1 .. MaxBoots

\* The receiving thread is started last, by mesh.attach.
ASSUME KernelAssumption ==
         /\ MaxBoots \in Nat \ {0}
         /\ Facets \in Seq(STRING) /\ Len(Facets) > 0
         /\ MeshKinds \cap (EventKinds \cup {"scheduler"}) = {}
         /\ Detached \subseteq MeshKinds
         /\ Binding \subseteq MeshKinds
         /\ Fatal \subseteq MeshKinds

VARIABLES phase,        \* Kernel.phase
          step,         \* where boot stands, "idle" outside it
          facet,        \* the facet of build_actor_mesh that starts next
          boot,         \* the number of the latest boot
          container,    \* service name -> the boot that registered it, or 0
          threads,      \* the live background threads, <<kind, boot>>
          orphans,      \* history: those of builds that raised
          unstopped     \* history: those that shutdown gave up on
kernelVars == <<phase, step, facet, boot, container, threads, orphans, unstopped>>

KernelTypeOK ==
  /\ phase \in {"init", "config", "services", "ports", "ready"}
  /\ step \in {"idle", "config", "core", "runtime", "mesh", "events",
               "event_mesh", "scheduler", "ports"}
  /\ facet \in 0 .. Len(Facets) + 1
  /\ boot \in 0 .. MaxBoots
  /\ container \in [Services -> 0 .. MaxBoots]
  /\ threads \subseteq Kinds \X Boots
  /\ orphans \subseteq Kinds \X Boots
  /\ unstopped \subseteq threads

Empty == [s \in Services |-> 0]

KernelInit ==
  /\ phase = "init"
  /\ step = "idle"
  /\ facet = 0
  /\ boot = 0
  /\ container = Empty
  /\ threads = {}
  /\ orphans = {}
  /\ unstopped = {}

-----------------------------------------------------------------------------
(* Container.register refuses a name that is taken.                        *)

\* A slip: a name that is taken is registered again.
RegistrableSlip(s) == TRUE

Registrable(s) == container[s] = 0
Registered(s) == [container EXCEPT ![s] = boot]

\* boot's except clause: the phase goes back and KernelBootError is raised.
\* What was registered and started so far stays.
\* A slip: it empties the container as shutdown does.
RaiseSlip ==
  /\ phase' = "init"
  /\ step' = "idle"
  /\ container' = Empty

Raise ==
  /\ phase' = "init"
  /\ step' = "idle"
  /\ UNCHANGED container

\* A stop closes the port before it waits for the thread.
Running(k) == \E b \in Boots : <<k, b>> \in threads \ unstopped

-----------------------------------------------------------------------------
(* boot(), one action per stage.  A kernel that is ready is returned as it *)
(* is; each stage may raise, by itself or because a name is taken.         *)

Boot ==
  /\ step = "idle"
  /\ phase # "ready"
  /\ boot < MaxBoots
  /\ boot' = boot + 1
  /\ phase' = "config"
  /\ step' = "config"
  /\ UNCHANGED <<facet, container, threads, orphans, unstopped>>

RegisterConfig ==
  /\ step = "config"
  /\ \/ /\ Registrable("config")
        /\ container' = Registered("config")
        /\ phase' = "services"
        /\ step' = "core"
     \/ Raise
  /\ UNCHANGED <<facet, boot, threads, orphans, unstopped>>

\* The router and the decision log.
RegisterCore ==
  /\ step = "core"
  /\ \/ /\ Registrable("core")
        /\ container' = Registered("core")
        /\ step' = "runtime"
        /\ UNCHANGED phase
     \/ Raise
  /\ UNCHANGED <<facet, boot, threads, orphans, unstopped>>

\* The service bus, the service manager, health and capabilities; then the
\* actor mesh, when the configuration asks for one.
RegisterRuntime ==
  /\ step = "runtime"
  /\ \/ /\ Registrable("runtime")
        /\ container' = Registered("runtime")
        /\ \/ step' = "mesh" /\ facet' = 1
           \/ step' = "events" /\ UNCHANGED facet
        /\ UNCHANGED phase
     \/ Raise /\ UNCHANGED facet
  /\ UNCHANGED <<boot, threads, orphans, unstopped>>

\* build_actor_mesh leaves a facet out when it is off or when it cannot start
\* (its port is held, the peer is away); a fatal one raises.  The exception is
\* swallowed by the boot, which goes on without a mesh and with the threads
\* started so far.
StartFacet ==
  /\ step = "mesh"
  /\ facet <= Len(Facets)
  /\ LET k == Facets[facet]
         mine == {<<m, boot>> : m \in MeshKinds} \cap threads
     IN  \/ /\ k \in Binding => ~Running(k)
            /\ threads' = threads \cup {<<k, boot>>}
            /\ facet' = facet + 1
            /\ UNCHANGED <<step, orphans>>
         \/ /\ k \notin Fatal
            /\ facet' = facet + 1
            /\ UNCHANGED <<step, threads, orphans>>
         \/ /\ k \in Fatal
            /\ orphans' = orphans \cup mine
            /\ step' = "events"
            /\ facet' = 0
            /\ UNCHANGED threads
  /\ UNCHANGED <<phase, boot, container, unstopped>>

\* The name is taken: that raises inside the guarded part too.
MeshBuilt ==
  /\ step = "mesh"
  /\ facet > Len(Facets)
  /\ IF Registrable("actor_mesh")
     THEN container' = Registered("actor_mesh") /\ UNCHANGED orphans
     ELSE /\ orphans' = orphans \cup
                          ({<<m, boot>> : m \in MeshKinds} \cap threads)
          /\ UNCHANGED container
  /\ step' = "events"
  /\ facet' = 0
  /\ UNCHANGED <<phase, boot, threads, unstopped>>

\* The event bus, the scheduler (not started yet) and the workflow engine.
BuildEvents ==
  /\ step = "events"
  /\ \/ /\ Registrable("events")
        /\ container' = Registered("events")
        /\ step' = "event_mesh"
        /\ UNCHANGED phase
     \/ Raise
  /\ UNCHANGED <<facet, boot, threads, orphans, unstopped>>

\* build_event_mesh subscribes its forwarder to the bus and opens a listener
\* when one is asked for and its port is free.  It raises before either, which
\* the boot swallows as it does a mesh that is off.
BuildEventMesh ==
  /\ step = "event_mesh"
  /\ \/ UNCHANGED <<container, threads>>
     \/ /\ Registrable("event_mesh")
        /\ container' = Registered("event_mesh")
        /\ \/ threads' = threads \cup {<<"forwarder", boot>>}
           \/ /\ ~Running("listener")
              /\ threads' = threads \cup {<<k, boot>> : k \in EventKinds}
  /\ step' = "scheduler"
  /\ UNCHANGED <<phase, facet, boot, orphans, unstopped>>

StartScheduler ==
  /\ step = "scheduler"
  /\ threads' = threads \cup {<<"scheduler", boot>>}
  /\ step' = "ports"
  /\ phase' \in {"ports", "services"}      \* register_defaults, or not
  /\ UNCHANGED <<facet, boot, container, orphans, unstopped>>

RegisterPorts ==
  /\ step = "ports"
  /\ \/ /\ phase = "ports" => Registrable("ports")
        /\ container' = IF phase = "ports" THEN Registered("ports") ELSE container
        /\ phase' = "ready"
        /\ step' = "idle"
     \/ phase = "ports" /\ Raise
  /\ UNCHANGED <<facet, boot, threads, orphans, unstopped>>

-----------------------------------------------------------------------------
(* shutdown() detaches what the container names, stops its scheduler and   *)
(* empties the container.  Every stop that raises is swallowed, and every   *)
(* join gives up after two seconds: a thread amid a job or a handler stays, *)
(* and ends later or never.  The forwarder is a subscription, not a thread. *)

Stopped ==
  threads \cap
    (     {<<k, container["event_mesh"]>> : k \in EventKinds}
     \cup {<<k, container["actor_mesh"]>> : k \in Detached}
     \cup {<<"scheduler", container["events"]>>})

Shutdown ==
  /\ step = "idle"
  /\ \E late \in SUBSET {t \in Stopped : t[1] # "forwarder"} :
       /\ threads' = threads \ (Stopped \ late)
       /\ unstopped' = (unstopped \cup late) \cap threads'
  /\ container' = Empty
  /\ phase' = "init"
  /\ UNCHANGED <<step, facet, boot, orphans>>

ThreadEnds ==
  /\ \E t \in unstopped :
       /\ threads' = threads \ {t}
       /\ unstopped' = unstopped \ {t}
  /\ UNCHANGED <<phase, step, facet, boot, container, orphans>>

KernelNext ==
  \/ Boot
  \/ RegisterConfig
  \/ RegisterCore
  \/ RegisterRuntime
  \/ StartFacet
  \/ MeshBuilt
  \/ BuildEvents
  \/ BuildEventMesh
  \/ StartScheduler
  \/ RegisterPorts
  \/ Shutdown
  \/ ThreadEnds

-----------------------------------------------------------------------------
(* A ready kernel resolves only objects of the boot that made it ready: a   *)
(* boot after one that raised half-way never mixes the two (boot.py:83).   *)
ReadyIsFresh ==
  phase = "ready" => \A s \in Services : container[s] \in {0, boot}

\* A kernel with an empty container has told every thread its boots started
\* to stop, except the facets detach has no call for and the threads of a mesh
\* whose build raised, and what runs on is what shutdown gave up on; but for
\* those, one scheduler loop runs at a time, so that no job is run by two
\* kernels.
NothingLeftRunning ==
  /\ step = "idle" /\ container = Empty
       => \A t \in threads \ (orphans \cup unstopped) : t[1] \in MeshKinds \ Detached
  /\ Cardinality({t \in threads \ unstopped : t[1] = "scheduler"}) <= 1
=============================================================================
