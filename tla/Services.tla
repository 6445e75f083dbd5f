------------------------------ MODULE Services ------------------------------
(***************************************************************************)
(* The service manager of kerrd (runtime/services.py) on kerrd's one       *)
(* thread (runtime/kerrd.py): workers are started and pinged over their    *)
(* pipe (runtime/ipc.py), watched, restarted and stopped.  A worker is a   *)
(* child process; it may die or hang at any time.  The pipe is read with a *)
(* blocking readline: the timeout that call() takes is not used, so a ping *)
(* to a worker that hangs ends only when that worker does.                 *)
(***************************************************************************)
EXTENDS Naturals, Sequences

CONSTANTS Order,        \* the registered services, in the order of the dict
          AutoStart,    \* those with autostart
          Ipc,          \* those that speak the JSON-line protocol
          MaxSpawns,    \* bound on the workers made for one service
          MaxHangs      \* of those, how many may hang

Names == {Order[i] : i \in DOMAIN Order}
Workers == Names \X (1 .. MaxSpawns)
NoWorker == 0

ASSUME ServicesAssumption ==
         /\ Order \in Seq(Names)
         /\ \A i, j \in DOMAIN Order : Order[i] = Order[j] => i = j
         /\ AutoStart \subseteq Names
         /\ Ipc \subseteq Names
         /\ MaxSpawns \in Nat
         /\ MaxHangs \in Nat

VARIABLES state,        \* ManagedService.state
          proc,         \* ManagedService.proc: NoWorker or a number of a worker
          spawned,      \* how many workers a service has had
          alive,        \* the live worker processes
          hung,         \* those of them that answer nothing
          main,         \* where kerrd's thread stands
          at,           \* the service of Order it works on
          starting,     \* "ping" while start() waits for that service's pong
          running       \* Kerrd._running
servicesVars == <<state, proc, spawned, alive, hung, main, at, starting,
                  running>>

ServicesTypeOK ==
  /\ state \in [Names -> {"stopped", "starting", "running", "crashed"}]
  /\ proc \in [Names -> 0 .. MaxSpawns]
  /\ spawned \in [Names -> 0 .. MaxSpawns]
  /\ alive \subseteq Workers
  /\ hung \subseteq Workers
  /\ main \in {"out", "autostart", "monitor", "stop"}
  /\ at \in 0 .. Len(Order) + 1
  /\ starting \in {"no", "ping"}
  /\ running \in BOOLEAN

ServicesInit ==
  /\ state = [n \in Names |-> "stopped"]
  /\ proc = [n \in Names |-> NoWorker]
  /\ spawned = [n \in Names |-> 0]
  /\ alive = {}
  /\ hung = {}
  /\ main = "out"
  /\ at = 0
  /\ starting = "no"
  /\ running = FALSE

ProcAlive(n) == <<n, proc[n]>> \in alive
Current == Order[at]

\* _stop_process: terminate, wait and kill what is left.
Without(n) == alive \ {<<n, proc[n]>>}

-----------------------------------------------------------------------------
(* The workers.                                                            *)

WorkerDies(w) ==
  /\ w \in alive
  /\ alive' = alive \ {w}
  /\ hung' = hung \ {w}
  /\ UNCHANGED <<state, proc, spawned, main, at, starting, running>>

WorkerHangs(w) ==
  /\ w \in alive \ hung
  /\ w[2] <= MaxHangs
  /\ hung' = hung \cup {w}
  /\ UNCHANGED <<state, proc, spawned, alive, main, at, starting, running>>

-----------------------------------------------------------------------------
(* start(n), up to its ping.  Spawn is what it does to the manager when it *)
(* gets to spawn_worker; a spawn that raises leaves the service crashed.   *)

Spawn(n) ==
  \/ /\ spawned[n] < MaxSpawns
     /\ spawned' = [spawned EXCEPT ![n] = @ + 1]
     /\ proc' = [proc EXCEPT ![n] = spawned[n] + 1]
     /\ alive' = Without(n) \cup {<<n, spawned[n] + 1>>}
     /\ hung' = hung \cap alive'
     /\ IF n \in Ipc
        THEN /\ state' = [state EXCEPT ![n] = "starting"]
             /\ starting' = "ping"
             /\ UNCHANGED at
        ELSE /\ state' = [state EXCEPT ![n] = "running"]
             /\ at' = at + 1
             /\ UNCHANGED starting
  \/ /\ alive' = Without(n)
     /\ hung' = hung \cap alive'
     /\ proc' = [proc EXCEPT ![n] = NoWorker]
     /\ state' = [state EXCEPT ![n] = "crashed"]
     /\ at' = at + 1
     /\ UNCHANGED <<spawned, starting>>

\* The pong: start() returns.
Pong ==
  /\ starting = "ping"
  /\ <<Current, proc[Current]>> \in alive \ hung
  /\ state' = [state EXCEPT ![Current] = "running"]
  /\ starting' = "no"
  /\ at' = at + 1
  /\ UNCHANGED <<proc, spawned, alive, hung, main, running>>

\* The worker ended before it answered, or answered with an error: start()
\* ends it and gives up.
PingFails ==
  /\ starting = "ping"
  /\ <<Current, proc[Current]>> \notin hung
  /\ state' = [state EXCEPT ![Current] = "crashed"]
  /\ alive' = Without(Current)
  /\ proc' = [proc EXCEPT ![Current] = NoWorker]
  /\ starting' = "no"
  /\ at' = at + 1
  /\ UNCHANGED <<spawned, hung, main, running>>

-----------------------------------------------------------------------------
(* Kerrd.start: autostart, then the monitor loop until an interrupt.       *)

Enter ==
  /\ main = "out"
  /\ main' = "autostart"
  /\ at' = 1
  /\ UNCHANGED <<state, proc, spawned, alive, hung, starting, running>>

\* start() of an autostart service that runs is a no-op.
Autostart ==
  /\ main = "autostart"
  /\ starting = "no"
  /\ at <= Len(Order)
  /\ IF Current \in AutoStart /\ ~(state[Current] = "running" /\ ProcAlive(Current))
     THEN Spawn(Current)
     ELSE /\ at' = at + 1
          /\ UNCHANGED <<state, proc, spawned, alive, hung, starting>>
  /\ UNCHANGED <<main, running>>

Autostarted ==
  /\ main = "autostart"
  /\ at > Len(Order)
  /\ running' = TRUE
  /\ main' = "monitor"
  /\ at' = 1
  /\ UNCHANGED <<state, proc, spawned, alive, hung, starting>>

\* monitor() on one service: only a running one whose process has ended is
\* looked at.  It is marked crashed, and started again under autostart.
\* A slip: a service that was restarted as often as allowed is skipped before
\* it is marked.
MonitorSlip ==
  /\ main = "monitor"
  /\ starting = "no"
  /\ at <= Len(Order)
  /\ IF /\ state[Current] = "running"
        /\ ~ProcAlive(Current)
        /\ spawned[Current] < MaxSpawns
     THEN Spawn(Current)
     ELSE /\ at' = at + 1
          /\ UNCHANGED <<state, proc, spawned, alive, hung, starting>>
  /\ UNCHANGED <<main, running>>

Monitor ==
  /\ main = "monitor"
  /\ starting = "no"
  /\ at <= Len(Order)
  /\ IF state[Current] = "running" /\ ~ProcAlive(Current)
     THEN IF Current \in AutoStart
          THEN Spawn(Current)
          ELSE /\ state' = [state EXCEPT ![Current] = "crashed"]
               /\ proc' = [proc EXCEPT ![Current] = NoWorker]
               /\ at' = at + 1
               /\ UNCHANGED <<spawned, alive, hung, starting>>
     ELSE /\ at' = at + 1
          /\ UNCHANGED <<state, proc, spawned, alive, hung, starting>>
  /\ UNCHANGED <<main, running>>

\* The round is over: sleep, then the next one.
NextRound ==
  /\ main = "monitor"
  /\ at > Len(Order)
  /\ at' = 1
  /\ UNCHANGED <<state, proc, spawned, alive, hung, main, starting, running>>

\* An interrupt leaves the loop wherever it stands, the ping of a restart
\* included: no except clause of the manager catches it.
Interrupt ==
  /\ main = "monitor"
  /\ running' = FALSE
  /\ main' = "stop"
  /\ starting' = "no"
  /\ at' = 1
  /\ UNCHANGED <<state, proc, spawned, alive, hung>>

\* Kerrd.stop on one service.
\* A slip: only a service that runs is stopped.
StopOneSlip ==
  /\ main = "stop"
  /\ at <= Len(Order)
  /\ alive' = IF state[Current] = "running" THEN Without(Current) ELSE alive
  /\ hung' = hung \cap alive'
  /\ proc' = [proc EXCEPT ![Current] = NoWorker]
  /\ state' = [state EXCEPT ![Current] = "stopped"]
  /\ at' = at + 1
  /\ UNCHANGED <<spawned, main, starting, running>>

StopOne ==
  /\ main = "stop"
  /\ at <= Len(Order)
  /\ alive' = Without(Current)
  /\ hung' = hung \cap alive'
  /\ proc' = [proc EXCEPT ![Current] = NoWorker]
  /\ state' = [state EXCEPT ![Current] = "stopped"]
  /\ at' = at + 1
  /\ UNCHANGED <<spawned, main, starting, running>>

Leave ==
  /\ main = "stop"
  /\ at > Len(Order)
  /\ main' = "out"
  /\ at' = 0
  /\ UNCHANGED <<state, proc, spawned, alive, hung, starting, running>>

MainStep ==
  \/ Pong
  \/ PingFails
  \/ Autostart
  \/ Autostarted
  \/ Monitor
  \/ NextRound
  \/ StopOne
  \/ Leave
=============================================================================
