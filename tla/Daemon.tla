------------------------------- MODULE Daemon -------------------------------
(***************************************************************************)
(* The kerrd process (runtime/kerrd.py): one main thread that boots the    *)
(* kernel, runs the service manager and may shut the kernel down, and that *)
(* a signal or a crash can end at any point.  The workers of a process     *)
(* that ended outlive it until they read the end of their pipe; one that   *)
(* hangs never does.                                                       *)
(***************************************************************************)
EXTENDS Kernel, Services

VARIABLE strays         \* history: live workers of processes that were killed
vars == <<kernelVars, servicesVars, strays>>

TypeOK ==
  /\ KernelTypeOK
  /\ ServicesTypeOK
  /\ strays \subseteq Workers

Init == KernelInit /\ ServicesInit /\ strays = {}

\* The kernel's calls are made while kerrd's own loop does not run.
KernelStep == main = "out" /\ KernelNext /\ UNCHANGED <<servicesVars, strays>>

\* Kerrd.start boots first, and raises with the boot.
Start ==
  /\ step = "idle"
  /\ phase = "ready"
  /\ Enter
  /\ UNCHANGED <<kernelVars, strays>>

ServiceStep == MainStep /\ UNCHANGED <<kernelVars, strays>>
Interrupted == Interrupt /\ UNCHANGED <<kernelVars, strays>>

Dies(w) == WorkerDies(w) /\ strays' = strays \ {w} /\ UNCHANGED kernelVars
Hangs(w) == WorkerHangs(w) /\ UNCHANGED <<kernelVars, strays>>

\* `kerrd stop` sends a SIGTERM that nothing handles; a crash does the same:
\* the process ends with its threads, and the next one starts from nothing.
Killed ==
  /\ boot > 0
  /\ phase' = "init"
  /\ step' = "idle"
  /\ facet' = 0
  /\ container' = Empty
  /\ threads' = {}
  /\ orphans' = {}
  /\ unstopped' = {}
  /\ state' = [n \in Names |-> "stopped"]
  /\ proc' = [n \in Names |-> NoWorker]
  /\ main' = "out"
  /\ at' = 0
  /\ starting' = "no"
  /\ running' = FALSE
  /\ strays' = alive
  /\ UNCHANGED <<boot, spawned, alive, hung>>

Next ==
  \/ KernelStep
  \/ Start
  \/ ServiceStep
  \/ Interrupted
  \/ Killed
  \/ \E w \in Workers : Dies(w) \/ Hangs(w)

Spec == Init /\ [][Next]_vars

\* The main thread goes on once kerrd runs; a worker whose pipe was closed
\* ends, unless it hangs.  Nothing forces a boot, a fault or a signal.
FairSpec ==
  /\ Spec
  /\ WF_vars(ServiceStep)
  /\ \A w \in Workers : WF_vars(w \in strays \ hung /\ Dies(w))

-----------------------------------------------------------------------------
\* The manager never has two live workers of one service, and leaves none
\* when its loop ends, not even one whose ping an interrupt cut short
\* (services.py:177): every live worker is the one it holds while it runs, or
\* was left by a process that was killed.
OneWorker ==
  \A w \in alive \ strays : main # "out" /\ w[2] = proc[w[1]]

\* A running service whose worker died does not stay so: monitor() restarts it
\* or marks it crashed, however many deaths, restarts and signals come between,
\* unless the one thread is stuck in the ping of a worker that hangs
\* (ipc.py:68 reads without the timeout).
Stuck == starting = "ping" /\ <<Current, proc[Current]>> \in hung
DeathIsNoticed ==
  \A n \in Names :
    state[n] = "running" /\ ~ProcAlive(n)
      ~> state[n] # "running" \/ ProcAlive(n) \/ Stuck
=============================================================================
