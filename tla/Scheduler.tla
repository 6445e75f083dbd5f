------------------------------ MODULE Scheduler ------------------------------
(***************************************************************************)
(* The in-process job scheduler (runtime/scheduler.py) and the next run of *)
(* a cron expression (runtime/cron.py).  A loop thread collects the due    *)
(* jobs under the lock and runs them outside it, one after the other; other *)
(* threads schedule, cancel, stop and start meanwhile.  stop() waits two   *)
(* seconds for the loop and then forgets it, running or not.               *)
(***************************************************************************)
EXTENDS Integers, FiniteSets

CONSTANTS
  Jobs,        \* scheduled jobs; an id is never used twice
  KindOf,      \* [Jobs -> {"once", "interval", "cron"}]
  Interval,    \* interval_s of every interval job, in ticks
  Minute,      \* ticks to a minute
  Matching,    \* [Jobs -> SUBSET Nat], the minutes a cron expression matches
  Horizon,     \* minutes next_run() looks ahead (a year of them)
  Loops,       \* bound: loop threads created, 1..Loops in this order
  MaxTime,     \* bound: ticks of the clock
  None

Threads == 1..Loops

ASSUME ConstantsAssumption ==
  /\ KindOf \in [Jobs -> {"once", "interval", "cron"}]
  /\ Matching \in [Jobs -> SUBSET Nat]
  /\ Interval \in Nat \ {0} /\ Minute \in Nat \ {0} /\ Horizon \in Nat
  /\ Loops \in Nat /\ MaxTime \in Nat
  /\ None \notin Jobs \cup Nat

VARIABLES
  now,        \* time.time()
  jobs,       \* keys of _jobs
  runAt,      \* run_at of each job
  stopSet,    \* the _stop event
  thread,     \* _thread: the loop stop() joins, or None
  created,    \* loop threads created so far
  joining,    \* stop() is in join()
  loop,       \* each loop thread: dead, in or after its wait, in its batch
  due,        \* the jobs of its snapshot still to run
  running,    \* the job whose callback it is in, or None
  used,       \* history: jobs ever scheduled
  ran,        \* history: jobs whose callback has begun
  lastRun,    \* history: when it last began
  late,       \* history: callbacks begun after cancel() had removed the job
  overrun     \* history: stop() gave up on a loop that was not dead

queue   == <<jobs, runAt>>
control == <<stopSet, thread, created, joining>>
threads == <<loop, due, running>>
hist    == <<used, ran, lastRun, late, overrun>>
vars    == <<now, queue, control, threads, hist>>

TypeOK ==
  /\ now \in 0..MaxTime
  /\ used \subseteq Jobs /\ jobs \subseteq used
  /\ runAt \in [Jobs -> Nat]
  /\ stopSet \in BOOLEAN /\ joining \in BOOLEAN /\ overrun \in BOOLEAN
  /\ created \in 0..Loops /\ thread \in 1..created \cup {None}
  /\ loop \in [Threads -> {"dead", "top", "batch"}]
  /\ due \in [Threads -> SUBSET used]
  /\ running \in [Threads -> used \cup {None}]
  /\ ran \subseteq used /\ late \in [Jobs -> Nat]
  /\ lastRun \in [Jobs -> 0..MaxTime]

Init ==
  /\ now = 0
  /\ jobs = {} /\ used = {}
  /\ runAt = [j \in Jobs |-> 0]
  /\ stopSet = FALSE /\ joining = FALSE /\ overrun = FALSE
  /\ thread = None /\ created = 0
  /\ loop = [l \in Threads |-> "dead"]
  /\ due = [l \in Threads |-> {}] /\ running = [l \in Threads |-> None]
  /\ ran = {} /\ late = [j \in Jobs |-> 0]
  /\ lastRun = [j \in Jobs |-> 0]

Tick ==
  /\ now < MaxTime /\ now' = now + 1
  /\ UNCHANGED <<queue, control, threads, hist>>
-----------------------------------------------------------------------------
\* As a bug: the minute that has begun counts as well.
UpcomingSlip(j, t) == {m \in (t \div Minute)..(t \div Minute + Horizon) : m \in Matching[j]}

\* next_run(): the first matching minute after the one of t, within the
\* horizon; without one, CronError.
Upcoming(j, t) == {m \in (t \div Minute + 1)..(t \div Minute + Horizon) : m \in Matching[j]}
NextRun(j, t) == Minute * (CHOOSE m \in Upcoming(j, t) : \A k \in Upcoming(j, t) : m <= k)

\* schedule_once(), schedule_interval(), schedule_cron(): the first run.
FirstRuns(j) ==
  CASE KindOf[j] = "once"     -> {now + 1}
    [] KindOf[j] = "interval" -> {now + Interval}
    [] OTHER                  -> IF Upcoming(j, now) = {} THEN {} ELSE {NextRun(j, now)}

Schedule(j) ==
  /\ j \notin used /\ used' = used \cup {j}
  /\ \E at \in FirstRuns(j) : runAt' = [runAt EXCEPT ![j] = at]
  /\ jobs' = jobs \cup {j}
  /\ UNCHANGED <<now, control, threads, ran, lastRun, late, overrun>>

\* cancel(): gone from _jobs, though a loop's snapshot may hold it.
Cancel(j) ==
  /\ j \in jobs /\ jobs' = jobs \ {j}
  /\ UNCHANGED <<now, runAt, control, threads, hist>>

Alive(l) == l # None /\ loop[l] # "dead"

\* start(): nothing when the thread it knows of is alive.  One step: the code looks
\* and then starts without a lock, but a boot alone calls it, once on a new object.
Start ==
  /\ ~Alive(thread) /\ created < Loops
  /\ stopSet' = FALSE
  /\ created' = created + 1 /\ thread' = created'
  /\ loop' = [loop EXCEPT ![created'] = "top"]
  /\ UNCHANGED <<now, queue, joining, due, running, hist>>

\* stop(): the event is set, then the loop joined ...
Stop ==
  /\ ~joining /\ joining' = TRUE /\ stopSet' = TRUE
  /\ UNCHANGED <<now, queue, thread, created, threads, hist>>

\* ... which ends when it is dead or after two seconds.
Joined ==
  /\ joining /\ joining' = FALSE
  /\ thread' = None
  /\ overrun' = (overrun \/ Alive(thread))
  /\ UNCHANGED <<now, queue, stopSet, created, threads, used, ran, lastRun, late>>

\* stop() from a callback: a thread cannot join itself, the exception ends
\* the callback, and _thread stays what it was.
StopsItself(l) ==
  /\ running[l] # None /\ thread = l /\ ~stopSet
  /\ stopSet' = TRUE
  /\ UNCHANGED <<now, queue, thread, created, joining, threads, hist>>
-----------------------------------------------------------------------------
(* The loop thread.                                                        *)

DueNow == {j \in jobs : runAt[j] <= now}

\* _loop(): leave once _stop is set, else take a snapshot of what is due.
Check(l) ==
  /\ loop[l] = "top"
  /\ loop' = [loop EXCEPT ![l] = IF stopSet THEN "dead" ELSE "batch"]
  /\ due' = [due EXCEPT ![l] = IF stopSet THEN {} ELSE DueNow]
  /\ UNCHANGED <<now, queue, control, running, hist>>

\* As a bug: every pass over the snapshot starts it anew.
BeginSlip(l, j) ==
  /\ running[l] = None /\ j \in due[l]
  /\ running' = [running EXCEPT ![l] = j]
  /\ ran' = ran \cup {j}
  /\ late' = [late EXCEPT ![j] = IF j \in jobs THEN @ ELSE @ + 1]
  /\ lastRun' = [lastRun EXCEPT ![j] = now]
  /\ UNCHANGED <<now, queue, control, loop, due, used, overrun>>

\* The next job of the snapshot, whatever became of it since.  (The code
\* takes them in the order of _jobs.)
Begin(l, j) ==
  /\ running[l] = None /\ j \in due[l]
  /\ due' = [due EXCEPT ![l] = @ \ {j}]
  /\ running' = [running EXCEPT ![l] = j]
  /\ ran' = ran \cup {j}
  /\ late' = [late EXCEPT ![j] = IF j \in jobs THEN @ ELSE @ + 1]
  /\ lastRun' = [lastRun EXCEPT ![j] = now]
  /\ UNCHANGED <<now, queue, control, loop, used, overrun>>

\* As a bug: CronError escapes from the loop.
RescheduleSlip(l) ==
  LET j == running[l]
      lost == j # None /\ KindOf[j] = "cron" /\ Upcoming(j, now) = {} IN
  /\ j # None /\ running' = [running EXCEPT ![l] = None]
  /\ runAt' = [runAt EXCEPT ![j] = IF KindOf[j] = "interval" THEN now + Interval
                                   ELSE IF lost THEN @ ELSE NextRun(j, now)]
  /\ loop' = IF lost THEN [loop EXCEPT ![l] = "dead"] ELSE loop
  /\ UNCHANGED <<now, jobs, control, due, hist>>

\* _run_job() after the callback, which returned or raised: the next run, or
\* none.
Reschedule(l) ==
  LET j == running[l] IN
  /\ j # None /\ running' = [running EXCEPT ![l] = None]
  /\ CASE KindOf[j] = "interval" ->
            runAt' = [runAt EXCEPT ![j] = now + Interval] /\ UNCHANGED jobs
       [] KindOf[j] = "cron" /\ Upcoming(j, now) # {} ->
            runAt' = [runAt EXCEPT ![j] = NextRun(j, now)] /\ UNCHANGED jobs
       [] OTHER -> jobs' = jobs \ {j} /\ UNCHANGED runAt
  /\ UNCHANGED <<now, control, loop, due, hist>>

\* On to _stop.wait(tick_s), which the next Check ends.
BatchEnds(l) ==
  /\ loop[l] = "batch" /\ running[l] = None /\ due[l] = {}
  /\ loop' = [loop EXCEPT ![l] = "top"]
  /\ UNCHANGED <<now, queue, control, due, running, hist>>

Step(l) ==
  \/ Check(l) \/ Reschedule(l) \/ BatchEnds(l)
  \/ \E j \in due[l] : Begin(l, j)

Next ==
  \/ Tick
  \/ \E j \in Jobs : Schedule(j) \/ Cancel(j)
  \/ Start \/ Stop \/ Joined
  \/ \E l \in Threads : Step(l) \/ StopsItself(l)

Spec == Init /\ [][Next]_vars
\* The loop thread keeps running: callbacks return, and a wait is over when
\* its time is.
FairSpec == Spec /\ \A l \in Threads : WF_vars(Step(l))
-----------------------------------------------------------------------------
\* A second run of j may begin at t when the last began at s.
Spaced(j, s, t) ==
  CASE KindOf[j] = "once"     -> FALSE
    [] KindOf[j] = "interval" -> t >= s + Interval
    [] OTHER                  -> t \div Minute > s \div Minute

\* One-shot jobs run once, an interval lies between two runs of an interval
\* job and a cron job runs once in a minute, however long callbacks take and
\* however often the scheduler is stopped and started; unless a stop() left a
\* loop behind, which the next start() revives beside its own.
SpacedRuns ==
  [][\A l \in Threads, j \in ran :
       running[l] = None /\ running'[l] = j /\ ~overrun => Spaced(j, lastRun[j], now)]_vars

\* A job that cancel() removed begins at most once more, and only because a
\* snapshot held it already; it never comes back.
CancelledFadesOut ==
  \A j \in Jobs :
    /\ late[j] <= IF overrun THEN Loops ELSE 1
    /\ late[j] > 0 => j \notin jobs

\* What is due runs, or is cancelled, unless the scheduler is stopped; the
\* error of one job, or its cron expression having no next run, does not keep
\* the others from running.
DueRuns ==
  \A j \in Jobs :
    j \in jobs /\ runAt[j] <= now /\ created > 0 /\ ~stopSet
      ~> j \notin jobs \/ runAt[j] > now \/ stopSet
=============================================================================
