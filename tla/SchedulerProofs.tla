-------------------------- MODULE SchedulerProofs --------------------------
(***************************************************************************)
(* Proofs about Scheduler, for any jobs, intervals, cron expressions and   *)
(* number of loops.  Unless a stop() gave up on a loop, the one that lives *)
(* is the one the scheduler knows of: a job stands in one snapshot or is   *)
(* being run, and its next run lies apart from the last.  A job that was   *)
(* cancelled stands in the snapshots it stood in, and leaves each by one   *)
(* run.                                                                    *)
(***************************************************************************)
EXTENDS Scheduler, TLAPS, FiniteSetTheorems, WellFoundedInduction

Live(l) == loop[l] # "dead"

\* A loop holds jobs in its batch only; the loop that lives is _thread, unless
\* a stop() left it to itself.
Loopwise ==
  /\ \A l \in Threads : Live(l) => l <= created
  /\ \A l \in Threads : loop[l] # "batch" => due[l] = {} /\ running[l] = None
  /\ \A l \in Threads : running[l] \notin due[l]
  /\ ~overrun => \A l \in Threads : Live(l) => l = thread

\* The loops that have yet to run j, and those that did although it was gone.
Holding(j) == {l \in Threads : j \in due[l]}
Fading ==
  \A j \in Jobs :
    /\ late[j] > 0 => j \in used \ jobs
    /\ late[j] + Cardinality(Holding(j)) <= Loops
    /\ ~overrun /\ late[j] > 0 => Holding(j) = {} /\ late[j] = 1

\* A job that ran is being run, or will not run again, or its next run lies
\* apart; what stands in a snapshot is due.
NextApart(j) ==
  \/ \E l \in Threads : running[l] = j
  \/ j \notin jobs /\ Holding(j) = {}
  \/ Spaced(j, lastRun[j], runAt[j])
Apart ==
  /\ \A j \in ran : lastRun[j] <= now
  /\ ~overrun => \A j \in ran : NextApart(j)
  /\ ~overrun => \A l \in Threads : \A j \in due[l] : runAt[j] <= now

Inv == TypeOK /\ Loopwise /\ Fading /\ Apart

-----------------------------------------------------------------------------
(* Minutes and loops.                                                      *)

LEMMA DivFacts ==
  ASSUME NEW d \in Nat \ {0}
  PROVE  /\ \A t \in Nat : t \div d \in Nat
         /\ \A s, t \in Nat : s <= t => s \div d <= t \div d
         /\ \A m \in Nat : (d * m) \div d = m /\ d * m \in Nat
<1>1. \A t \in Nat : t \div d \in Nat
  OBVIOUS
<1>2. \A s, t \in Nat : s <= t => s \div d <= t \div d
  OBVIOUS
<1>3. \A m \in Nat : d * m \in Nat
  OBVIOUS
<1>4. \A m \in Nat : (d * m) \div d = m
  OBVIOUS
<1> QED BY <1>1, <1>2, <1>3, <1>4

LEMMA SchedulerFacts ==
  /\ Loops \in Nat /\ MaxTime \in Nat /\ Horizon \in Nat
  /\ Interval \in Nat \ {0} /\ Minute \in Nat \ {0}
  /\ Threads = 1 .. Loops /\ None \notin Jobs /\ None \notin Threads /\ None \notin Nat
  /\ IsFiniteSet(Threads) /\ Cardinality(Threads) = Loops
<1>1. Threads = 1 .. Loops /\ Loops \in Nat
  BY ConstantsAssumption DEF Threads
<1>2. IsFiniteSet(Threads) /\ Cardinality(Threads) = Loops
  BY <1>1, FS_Interval
<1> QED BY <1>1, <1>2, ConstantsAssumption

\* A run may begin later than it may.
LEMMA LaterIsSpaced ==
  ASSUME NEW j, NEW s \in Nat, NEW t \in Nat, NEW u \in Nat, t <= u, Spaced(j, s, t)
  PROVE  Spaced(j, s, u)
<1>1. t \div Minute <= u \div Minute /\ \A x \in Nat : x \div Minute \in Nat
  BY SchedulerFacts, DivFacts
<1> QED BY <1>1, SchedulerFacts DEF Spaced

\* next_run() is a minute after that of t.
LEMMA NextRunIsLater ==
  ASSUME NEW j \in Jobs, NEW t \in Nat, Upcoming(j, t) # {}
  PROVE  /\ NextRun(j, t) \in Nat
         /\ NextRun(j, t) \div Minute > t \div Minute
<1> DEFINE S == Upcoming(j, t)
           m == CHOOSE m \in S : \A k \in S : m <= k
<1>1. t \div Minute \in Nat
  BY SchedulerFacts, DivFacts
<1>2. S \subseteq Nat /\ \A k \in S : k > t \div Minute
  BY <1>1, SchedulerFacts DEF Upcoming
<1>3. \E k \in S : \A i \in S : k <= i
  <2> HIDE DEF S
  <2>1. PICK k \in S : \A i \in S : <<i, k>> \notin OpToRel(<, Nat)
    <3>1. S # {}
      BY DEF S
    <3> QED BY <1>2, <3>1, WFMin, NatLessThanWellFounded, Zenon
  <2>2. ASSUME NEW i \in S PROVE k <= i
    <3>1. i \in Nat /\ k \in Nat
      BY <1>2
    <3>2. ~(i < k)
      <4>1. <<i, k>> \notin OpToRel(<, Nat)
        BY <2>1
      <4> QED BY <4>1, <3>1, Zenon DEF OpToRel
    <3> QED BY <3>1, <3>2
  <2> QED BY <2>2
<1>4. m \in S
  BY <1>3
<1>5. NextRun(j, t) = Minute * m
  BY DEF NextRun
<1> HIDE DEF m, S
<1>6. m \in Nat /\ m > t \div Minute
  BY <1>2, <1>4
<1> QED BY <1>5, <1>6, SchedulerFacts, DivFacts

LEMMA HoldingFacts ==
  ASSUME NEW j
  PROVE  /\ Holding(j) \subseteq Threads /\ IsFiniteSet(Holding(j))
         /\ Cardinality(Holding(j)) \in Nat /\ Cardinality(Holding(j)) <= Loops
<1>1. Holding(j) \subseteq Threads
  BY DEF Holding
<1>2. IsFiniteSet(Holding(j)) /\ Cardinality(Holding(j)) <= Cardinality(Threads)
  BY <1>1, SchedulerFacts, FS_Subset
<1> QED BY <1>1, <1>2, SchedulerFacts, FS_CardinalityType

\* A batch that is over, or new, or shorter by the job that begins.
LEMMA NotAlive ==
  ASSUME TypeOK, Loopwise, ~overrun, ~Alive(thread), NEW l \in Threads
  PROVE  ~Live(l)
BY SchedulerFacts DEF Loopwise, Alive, Live

-----------------------------------------------------------------------------
(* The type invariant.                                                     *)

LEMMA TypeStays ==
  ASSUME Inv, [Next]_vars
  PROVE  TypeOK'
<1>1. TypeOK /\ Loopwise
  BY DEF Inv
<1>2. CASE Tick
  <2>1. now' \in 0 .. MaxTime
    BY <1>1, <1>2, SchedulerFacts DEF Tick, TypeOK
  <2> QED BY <1>1, <1>2, <2>1 DEF Tick, TypeOK, queue, control, threads, hist
<1>3. ASSUME NEW j \in Jobs, Schedule(j) PROVE TypeOK'
  <2>1. PICK at \in FirstRuns(j) : runAt' = [runAt EXCEPT ![j] = at]
    BY <1>3 DEF Schedule
  <2>2. now \in Nat /\ now + 1 \in Nat /\ now + Interval \in Nat
    BY <1>1, SchedulerFacts DEF TypeOK
  <2>3. at \in Nat
    <3>1. at = now + 1 \/ at = now + Interval
            \/ (Upcoming(j, now) # {} /\ at = NextRun(j, now))
      BY <2>1 DEF FirstRuns
    <3> QED BY <2>2, <3>1, NextRunIsLater
  <2>4. runAt' \in [Jobs -> Nat]
    BY <1>1, <2>1, <2>3 DEF TypeOK
  <2>5. /\ used \subseteq used' /\ used' \subseteq Jobs /\ jobs' \subseteq used'
        /\ UNCHANGED <<now, stopSet, thread, created, joining, loop, due, running,
                       ran, lastRun, late, overrun>>
    BY <1>1, <1>3 DEF Schedule, TypeOK, control, threads
  <2> QED BY <1>1, <2>4, <2>5 DEF TypeOK
<1>4. ASSUME NEW j \in Jobs, Cancel(j) PROVE TypeOK'
  BY <1>1, <1>4 DEF Cancel, TypeOK, control, threads, hist
<1>5. CASE Start
  <2>1. created' \in 0 .. Loops /\ created' \in Threads /\ thread' \in 1 .. created'
    BY <1>1, <1>5, SchedulerFacts DEF Start, TypeOK
  <2>2. loop' \in [Threads -> {"dead", "top", "batch"}]
    BY <1>1, <1>5, <2>1 DEF Start, TypeOK
  <2> QED BY <1>1, <1>5, <2>1, <2>2 DEF Start, TypeOK, queue, hist
<1>6. CASE Stop
  BY <1>1, <1>6 DEF Stop, TypeOK, queue, threads, hist
<1>7. CASE Joined
  BY <1>1, <1>7 DEF Joined, TypeOK, queue, threads, Alive
<1>8. ASSUME NEW l \in Threads, StopsItself(l) PROVE TypeOK'
  BY <1>1, <1>8 DEF StopsItself, TypeOK, queue, threads, hist
<1>9. ASSUME NEW l \in Threads, Check(l) PROVE TypeOK'
  <2>1. DueNow \subseteq used
    BY <1>1 DEF DueNow, TypeOK
  <2>2. due' \in [Threads -> SUBSET used]
    BY <1>1, <1>9, <2>1 DEF Check, TypeOK
  <2>3. loop' \in [Threads -> {"dead", "top", "batch"}]
    BY <1>1, <1>9 DEF Check, TypeOK
  <2> QED BY <1>1, <1>9, <2>2, <2>3 DEF Check, TypeOK, queue, control, hist
<1>10. ASSUME NEW l \in Threads, NEW j \in due[l], Begin(l, j) PROVE TypeOK'
  <2>1. j \in used /\ j \in Jobs
    BY <1>1 DEF TypeOK
  <2>2. due' \in [Threads -> SUBSET used] /\ running' \in [Threads -> used \cup {None}]
    BY <1>1, <1>10, <2>1 DEF Begin, TypeOK
  <2>3. late' \in [Jobs -> Nat] /\ lastRun' \in [Jobs -> 0 .. MaxTime]
    BY <1>1, <1>10, <2>1 DEF Begin, TypeOK
  <2> QED BY <1>1, <1>10, <2>1, <2>2, <2>3 DEF Begin, TypeOK, queue, control
<1>11. ASSUME NEW l \in Threads, Reschedule(l) PROVE TypeOK'
  <2>1. running[l] \in used /\ running[l] \in Jobs /\ now \in Nat /\ now + Interval \in Nat
    BY <1>1, <1>11, SchedulerFacts DEF Reschedule, TypeOK
  <2>2. running' \in [Threads -> used \cup {None}]
    BY <1>1, <1>11 DEF Reschedule, TypeOK
  <2>3. runAt' \in [Jobs -> Nat] /\ jobs' \subseteq jobs
    <3>1. \/ runAt' = [runAt EXCEPT ![running[l]] = now + Interval] /\ UNCHANGED jobs
          \/ /\ Upcoming(running[l], now) # {} /\ UNCHANGED jobs
             /\ runAt' = [runAt EXCEPT ![running[l]] = NextRun(running[l], now)]
          \/ jobs' = jobs \ {running[l]} /\ UNCHANGED runAt
      BY <1>11 DEF Reschedule
    <3> QED BY <1>1, <2>1, <3>1, NextRunIsLater DEF TypeOK
  <2> QED BY <1>1, <1>11, <2>2, <2>3 DEF Reschedule, TypeOK, control, hist
<1>12. ASSUME NEW l \in Threads, BatchEnds(l) PROVE TypeOK'
  BY <1>1, <1>12 DEF BatchEnds, TypeOK, queue, control, hist
<1>13. CASE UNCHANGED vars
  BY <1>1, <1>13 DEF vars, queue, control, threads, hist, TypeOK
<1> QED BY <1>2, <1>3, <1>4, <1>5, <1>6, <1>7, <1>8, <1>9, <1>10, <1>11, <1>12, <1>13
    DEF Next, Step

-----------------------------------------------------------------------------
(* The loops.                                                              *)

LEMMA LoopwiseStays ==
  ASSUME Inv, [Next]_vars, TypeOK'
  PROVE  Loopwise'
<1>1. TypeOK /\ Loopwise
  BY DEF Inv
<1>2. ASSUME UNCHANGED <<loop, due, running, created, thread, overrun>> PROVE Loopwise'
  BY <1>1, <1>2 DEF Loopwise, Live
<1>3. CASE Tick \/ Stop \/ UNCHANGED vars
  BY <1>2, <1>3 DEF Tick, Stop, vars, queue, control, threads, hist
<1>4. ASSUME NEW j \in Jobs, Schedule(j) \/ Cancel(j) PROVE Loopwise'
  BY <1>2, <1>4 DEF Schedule, Cancel, control, threads, hist
<1>5. ASSUME NEW l \in Threads, StopsItself(l) PROVE Loopwise'
  BY <1>2, <1>5 DEF StopsItself, queue, threads, hist
<1>6. CASE Start
  <2>1. /\ created \in Nat /\ created' = created + 1 /\ created' \in Threads
        /\ thread' = created' /\ loop' = [loop EXCEPT ![created'] = "top"]
        /\ UNCHANGED <<due, running, overrun>>
    BY <1>1, <1>6, SchedulerFacts DEF Start, TypeOK, hist
  <2>2. ~Live(created')
    BY <1>1, <2>1, SchedulerFacts DEF Loopwise
  <2>3. ASSUME NEW l \in Threads
        PROVE  /\ Live(l)' => l <= created'
               /\ loop'[l] # "batch" => due'[l] = {} /\ running'[l] = None
               /\ running'[l] \notin due'[l]
               /\ ~overrun' => (Live(l)' => l = thread')
    <3>1. CASE l = created'
      <4>1. due[l] = {} /\ running[l] = None
        BY <1>1, <2>2, <3>1 DEF Loopwise, Live
      <4> QED BY <2>1, <3>1, <4>1
    <3>2. CASE l # created'
      <4>1. loop'[l] = loop[l]
        BY <1>1, <2>1, <3>2 DEF TypeOK
      <4>2. ~overrun => ~Live(l)
        BY <1>1, <1>6, NotAlive DEF Start
      <4>3. Live(l) => l <= created'
        BY <1>1, <2>1, SchedulerFacts DEF Loopwise
      <4> QED BY <1>1, <2>1, <4>1, <4>2, <4>3 DEF Loopwise, Live
    <3> QED BY <3>1, <3>2
  <2> QED BY <2>3 DEF Loopwise
<1>7. CASE Joined
  <2>1. ASSUME ~overrun', NEW l \in Threads PROVE ~Live(l)
    BY <1>1, <1>7, <2>1, NotAlive DEF Joined
  <2> QED BY <1>1, <1>7, <2>1 DEF Joined, Loopwise, Live, threads
<1>8. ASSUME NEW l \in Threads, Check(l) PROVE Loopwise'
  BY <1>1, <1>8, SchedulerFacts DEF Check, Loopwise, Live, TypeOK, control, hist, DueNow
<1>9. ASSUME NEW l \in Threads, NEW j \in due[l], Begin(l, j) PROVE Loopwise'
  <2>1. loop[l] = "batch"
    BY <1>1, <1>9 DEF Loopwise
  <2> QED BY <1>1, <1>9, <2>1 DEF Begin, Loopwise, Live, TypeOK, control
<1>10. ASSUME NEW l \in Threads, Reschedule(l) PROVE Loopwise'
  <2>1. None \notin due[l]
    BY <1>1, SchedulerFacts DEF TypeOK
  <2> QED BY <1>1, <1>10, <2>1 DEF Reschedule, Loopwise, Live, TypeOK, control, hist
<1>11. ASSUME NEW l \in Threads, BatchEnds(l) PROVE Loopwise'
  BY <1>1, <1>11 DEF BatchEnds, Loopwise, Live, TypeOK, control, hist
<1> QED BY <1>3, <1>4, <1>5, <1>6, <1>7, <1>8, <1>9, <1>10, <1>11 DEF Next, Step

-----------------------------------------------------------------------------
(* Cancelled jobs.                                                         *)

\* Fading depends on the snapshots and on what the scheduler holds.
LEMMA FadingKeeps ==
  ASSUME TypeOK, Fading, UNCHANGED <<due, late>>, overrun => overrun',
         used \subseteq used',
         \A j \in used : j \in jobs' => j \in jobs
  PROVE  Fading'
<1>1. \A j \in Jobs : Holding(j)' = Holding(j)
  BY DEF Holding
<1> QED BY <1>1 DEF Fading

LEMMA FadingStays ==
  ASSUME Inv, [Next]_vars, TypeOK'
  PROVE  Fading'
<1>1. TypeOK /\ Loopwise /\ Fading
  BY DEF Inv
<1>2. CASE Tick \/ Start \/ Stop \/ Joined \/ UNCHANGED vars
  <2>1. CASE Tick
    BY <1>1, <2>1, FadingKeeps DEF Tick, queue, control, threads, hist
  <2>2. CASE Start
    BY <1>1, <2>2, FadingKeeps DEF Start, queue, hist
  <2>3. CASE Stop
    BY <1>1, <2>3, FadingKeeps DEF Stop, queue, threads, hist
  <2>4. CASE Joined
    BY <1>1, <2>4, FadingKeeps DEF Joined, queue, threads
  <2>5. CASE UNCHANGED vars
    BY <1>1, <2>5, FadingKeeps DEF vars, queue, control, threads, hist
  <2> QED BY <1>2, <2>1, <2>2, <2>3, <2>4, <2>5
<1>3. ASSUME NEW j \in Jobs, Schedule(j) \/ Cancel(j) PROVE Fading'
  BY <1>1, <1>3, FadingKeeps DEF Schedule, Cancel, control, threads, hist
<1>4. ASSUME NEW l \in Threads, StopsItself(l) \/ Reschedule(l) \/ BatchEnds(l)
      PROVE  Fading'
  BY <1>1, <1>4, FadingKeeps DEF StopsItself, Reschedule, BatchEnds, queue, control, threads, hist
<1>5. ASSUME NEW l \in Threads, Check(l) PROVE Fading'
  <2> SUFFICES ASSUME NEW j \in Jobs
               PROVE  /\ late[j] > 0 => j \in used \ jobs
                      /\ late[j] + Cardinality(Holding(j)') <= Loops
                      /\ ~overrun /\ late[j] > 0 => Holding(j)' = {} /\ late[j] = 1
    BY <1>5 DEF Check, Fading, queue, hist
  <2>1. late[j] \in Nat /\ (late[j] > 0 => j \in used \ jobs)
    BY <1>1 DEF TypeOK, Fading
  <2>2. due[l] = {} /\ due'[l] \subseteq jobs /\ \A k \in Threads \ {l} : due'[k] = due[k]
    BY <1>1, <1>5 DEF Check, Loopwise, TypeOK, DueNow
  <2>3. CASE j \in jobs
    <3>1. late[j] = 0
      BY <2>1, <2>3
    <3>2. Holding(j)' \subseteq Threads
      BY DEF Holding
    <3>3. Cardinality(Holding(j)') \in Nat /\ Cardinality(Holding(j)') <= Loops
      <4>1. IsFiniteSet(Holding(j)') /\ Cardinality(Holding(j)') <= Cardinality(Threads)
        BY <3>2, SchedulerFacts, FS_Subset
      <4> QED BY <4>1, SchedulerFacts, FS_CardinalityType
    <3> QED BY <2>1, <3>1, <3>3, SchedulerFacts
  <2>4. CASE j \notin jobs
    <3>1. Holding(j)' = Holding(j)
      BY <2>2, <2>4 DEF Holding
    <3> QED BY <1>1, <3>1 DEF Fading
  <2> QED BY <2>3, <2>4
<1>6. ASSUME NEW l \in Threads, NEW j \in due[l], Begin(l, j) PROVE Fading'
  <2>1. /\ due' = [due EXCEPT ![l] = @ \ {j}]
        /\ late' = [late EXCEPT ![j] = IF j \in jobs THEN @ ELSE @ + 1]
        /\ j \in Jobs /\ j \in used
        /\ UNCHANGED <<jobs, used, overrun>>
    BY <1>1, <1>6 DEF Begin, TypeOK, queue
  <2>2. /\ Holding(j)' = Holding(j) \ {l} /\ l \in Holding(j)
        /\ \A k \in Jobs \ {j} : Holding(k)' = Holding(k)
    BY <1>1, <2>1 DEF Holding, TypeOK
  <2>3. /\ late[j] \in Nat
        /\ late'[j] = IF j \in jobs THEN late[j] ELSE late[j] + 1
        /\ \A k \in Jobs \ {j} : late'[k] = late[k]
    BY <1>1, <2>1 DEF TypeOK
  <2>4. /\ Cardinality(Holding(j)') = Cardinality(Holding(j)) - 1
        /\ Cardinality(Holding(j)) \in Nat
    BY <2>2, HoldingFacts, FS_RemoveElement
  <2>5. late[j] + Cardinality(Holding(j)) <= Loops /\ (late[j] > 0 => j \in used \ jobs)
    BY <1>1, <2>1 DEF Fading
  <2>6. late'[j] > 0 => j \in used' \ jobs'
    BY <2>1, <2>3, <2>5
  <2>7. late'[j] + Cardinality(Holding(j)') <= Loops
    BY <2>3, <2>4, <2>5, SchedulerFacts
  <2>8. ~overrun' /\ late'[j] > 0 => Holding(j)' = {} /\ late'[j] = 1
    <3> SUFFICES ASSUME ~overrun, late'[j] > 0 PROVE Holding(j)' = {} /\ late'[j] = 1
      BY <2>1
    <3>1. late[j] = 0 /\ j \notin jobs
      BY <1>1, <2>1, <2>2, <2>3, <2>5 DEF Fading
    <3>2. \A k \in Holding(j) : k = l
      BY <1>1, <2>2 DEF Holding, Loopwise, Live
    <3> QED BY <2>2, <2>3, <3>1, <3>2
  <2>9. ASSUME NEW k \in Jobs \ {j}
        PROVE  /\ late'[k] > 0 => k \in used' \ jobs'
               /\ late'[k] + Cardinality(Holding(k)') <= Loops
               /\ ~overrun' /\ late'[k] > 0 => Holding(k)' = {} /\ late'[k] = 1
    BY <1>1, <2>1, <2>2, <2>3 DEF Fading
  <2> QED BY <2>6, <2>7, <2>8, <2>9 DEF Fading
<1> QED BY <1>2, <1>3, <1>4, <1>5, <1>6 DEF Next, Step

-----------------------------------------------------------------------------
(* Runs that lie apart.                                                    *)

LEMMA ApartKeeps ==
  ASSUME TypeOK, TypeOK', Apart, now <= now', UNCHANGED <<due, running, ran, lastRun>>,
         overrun => overrun',
         \A j \in ran : runAt'[j] = runAt[j] /\ (j \in jobs' => j \in jobs),
         \A l \in Threads : \A j \in due[l] : runAt'[j] = runAt[j]
  PROVE  Apart'
<1>1. \A j \in Jobs : Holding(j)' = Holding(j)
  BY DEF Holding
<1>2. now \in Nat /\ now' \in Nat /\ \A j \in Jobs : lastRun[j] \in Nat /\ runAt[j] \in Nat
  BY SchedulerFacts DEF TypeOK
<1>3. ran \subseteq Jobs /\ \A l \in Threads : due[l] \subseteq Jobs
  BY DEF TypeOK
<1>4. \A j \in ran : lastRun'[j] <= now'
  BY <1>2, <1>3 DEF Apart
<1>5. ASSUME ~overrun', NEW j \in ran PROVE NextApart(j)'
  <2>1. NextApart(j) /\ j \in Jobs
    BY <1>3, <1>5 DEF Apart
  <2> QED BY <1>1, <2>1 DEF NextApart, Spaced
<1>6. ASSUME ~overrun', NEW l \in Threads, NEW j \in due[l] PROVE runAt'[j] <= now'
  BY <1>2, <1>3, <1>6 DEF Apart
<1> QED BY <1>4, <1>5, <1>6 DEF Apart

LEMMA ApartStays ==
  ASSUME Inv, [Next]_vars, TypeOK'
  PROVE  Apart'
<1>1. TypeOK /\ Loopwise /\ Apart /\ now \in Nat
  BY SchedulerFacts DEF Inv, TypeOK
<1>2. CASE Tick \/ Start \/ Stop \/ Joined \/ UNCHANGED vars
  <2>1. CASE Tick
    BY <1>1, <2>1, ApartKeeps DEF Tick, queue, control, threads, hist
  <2>2. CASE Start
    BY <1>1, <2>2, ApartKeeps DEF Start, queue, hist
  <2>3. CASE Stop
    BY <1>1, <2>3, ApartKeeps DEF Stop, queue, threads, hist
  <2>4. CASE Joined
    <3>1. /\ UNCHANGED <<now, jobs, runAt, due, running, ran, lastRun>>
          /\ now <= now'
      BY <1>1, <2>4 DEF Joined, queue, threads
    <3>2. overrun => overrun'
      BY <2>4, Zenon DEF Joined
    <3> QED BY <1>1, <3>1, <3>2, ApartKeeps
  <2>5. CASE UNCHANGED vars
    BY <1>1, <2>5, ApartKeeps DEF vars, queue, control, threads, hist
  <2> QED BY <1>2, <2>1, <2>2, <2>3, <2>4, <2>5
<1>3. ASSUME NEW j \in Jobs, Schedule(j) PROVE Apart'
  <2>1. /\ j \notin used /\ \E at \in FirstRuns(j) : runAt' = [runAt EXCEPT ![j] = at]
        /\ jobs' = jobs \cup {j}
        /\ UNCHANGED <<now, due, running, ran, lastRun, overrun>>
    BY <1>3 DEF Schedule, threads
  <2>2. ran \subseteq used /\ \A l \in Threads : due[l] \subseteq used
    BY <1>1 DEF TypeOK
  <2>3. \A k \in used : runAt'[k] = runAt[k]
    BY <1>1, <2>1 DEF TypeOK
  <2> QED BY <1>1, <2>1, <2>2, <2>3, ApartKeeps
<1>4. ASSUME NEW j \in Jobs, Cancel(j) PROVE Apart'
  BY <1>1, <1>4, ApartKeeps DEF Cancel, control, threads, hist
<1>5. ASSUME NEW l \in Threads, StopsItself(l) \/ BatchEnds(l) PROVE Apart'
  BY <1>1, <1>5, ApartKeeps DEF StopsItself, BatchEnds, queue, control, threads, hist
<1>6. ASSUME NEW l \in Threads, Check(l) PROVE Apart'
  <2>1. /\ due'[l] \subseteq DueNow /\ \A k \in Threads \ {l} : due'[k] = due[k]
        /\ due[l] = {}
        /\ UNCHANGED <<now, jobs, runAt, running, ran, lastRun, overrun>>
    BY <1>1, <1>6 DEF Check, TypeOK, Loopwise, queue, hist
  <2>2. ASSUME ~overrun, NEW j \in ran PROVE NextApart(j)'
    <3>1. NextApart(j)
      BY <1>1, <2>2 DEF Apart
    <3>2. j \notin jobs /\ Holding(j) = {} => Holding(j)' = {}
      BY <2>1 DEF Holding, DueNow
    <3> QED BY <2>1, <3>1, <3>2 DEF NextApart, Spaced
  <2>3. ASSUME ~overrun, NEW k \in Threads, NEW j \in due'[k] PROVE runAt[j] <= now
    BY <1>1, <2>1, <2>3 DEF Apart, DueNow
  <2> QED BY <1>1, <2>1, <2>2, <2>3 DEF Apart
<1>7. ASSUME NEW l \in Threads, NEW j \in due[l], Begin(l, j) PROVE Apart'
  <2>1. /\ due' = [due EXCEPT ![l] = @ \ {j}] /\ running[l] = None
        /\ running' = [running EXCEPT ![l] = j]
        /\ ran' = ran \cup {j} /\ lastRun' = [lastRun EXCEPT ![j] = now]
        /\ j \in Jobs
        /\ UNCHANGED <<now, jobs, runAt, overrun>>
    BY <1>1, <1>7 DEF Begin, TypeOK, queue
  <2>2. /\ running'[l] = j /\ \A k \in Threads \ {l} : running'[k] = running[k]
        /\ lastRun'[j] = now /\ \A i \in Jobs \ {j} : lastRun'[i] = lastRun[i]
        /\ ran' \subseteq Jobs
        /\ \A k \in Threads : due'[k] \subseteq due[k]
    BY <1>1, <2>1 DEF TypeOK
  <2>3. ASSUME NEW i \in ran' PROVE lastRun'[i] <= now
    BY <1>1, <2>1, <2>2 DEF Apart
  <2>4. ASSUME ~overrun, NEW i \in ran' PROVE NextApart(i)'
    <3>1. CASE i = j
      BY <2>2, <3>1 DEF NextApart
    <3>2. CASE i # j
      <4>1. NextApart(i) /\ lastRun'[i] = lastRun[i]
        BY <1>1, <2>1, <2>2, <2>4, <3>2 DEF Apart
      <4>2. ASSUME NEW k \in Threads, running[k] = i PROVE running'[k] = i
        <5>1. i \in Jobs /\ i # None
          BY <2>2, SchedulerFacts
        <5> QED BY <2>1, <2>2, <4>2, <5>1
      <4>3. Holding(i) = {} => Holding(i)' = {}
        BY <2>2 DEF Holding
      <4> QED BY <2>1, <4>1, <4>2, <4>3 DEF NextApart, Spaced
    <3> QED BY <3>1, <3>2
  <2>5. ASSUME ~overrun, NEW k \in Threads, NEW i \in due'[k] PROVE runAt[i] <= now
    BY <1>1, <2>2, <2>5 DEF Apart
  <2> QED BY <2>1, <2>3, <2>4, <2>5 DEF Apart
<1>8. ASSUME NEW l \in Threads, Reschedule(l) PROVE Apart'
  <2>0. PICK j \in Jobs : j = running[l]
    BY <1>1, <1>8 DEF Reschedule, TypeOK
  <2>1. j # None /\ j \notin due[l]
    BY <1>1, <1>8, <2>0 DEF Reschedule, Loopwise
  <2>2. /\ running' = [running EXCEPT ![l] = None]
        /\ UNCHANGED <<now, due, ran, lastRun, overrun>>
        /\ \/ /\ KindOf[j] = "interval"
              /\ runAt' = [runAt EXCEPT ![j] = now + Interval] /\ UNCHANGED jobs
           \/ /\ KindOf[j] = "cron" /\ Upcoming(j, now) # {}
              /\ runAt' = [runAt EXCEPT ![j] = NextRun(j, now)] /\ UNCHANGED jobs
           \/ jobs' = jobs \ {j} /\ UNCHANGED runAt
    BY <1>8, <2>0 DEF Reschedule, hist
  <2>3. \A i \in Jobs : Holding(i)' = Holding(i)
    BY <2>2 DEF Holding
  <2>4. \A i \in Jobs \ {j} : runAt'[i] = runAt[i] /\ (i \in jobs' => i \in jobs)
    BY <1>1, <2>1, <2>2 DEF TypeOK
  <2>5. ASSUME ~overrun, NEW k \in Threads PROVE j \notin due[k]
    BY <1>1, <2>0, <2>1, <2>5 DEF Loopwise, Live
  <2>6. ran \subseteq Jobs /\ \A k \in Threads : due[k] \subseteq Jobs
    BY <1>1 DEF TypeOK
  <2>7. ASSUME ~overrun, NEW k \in Threads, NEW i \in due[k] PROVE runAt'[i] <= now
    <3>1. i # j /\ i \in Jobs
      BY <2>5, <2>6, <2>7
    <3> QED BY <1>1, <2>4, <2>7, <3>1 DEF Apart
  <2>8. ASSUME ~overrun, NEW i \in ran PROVE NextApart(i)'
    <3>1. CASE i = j
      <4>1. lastRun[j] <= now /\ lastRun[j] \in Nat
        BY <1>1, <2>1, <3>1, SchedulerFacts DEF Apart, TypeOK
      <4>2. CASE /\ KindOf[j] = "interval"
                 /\ runAt' = [runAt EXCEPT ![j] = now + Interval]
        <5>1. runAt'[j] >= lastRun[j] + Interval
          BY <1>1, <2>1, <4>1, <4>2, SchedulerFacts DEF TypeOK
        <5> QED BY <2>2, <3>1, <4>2, <5>1 DEF NextApart, Spaced
      <4>3. CASE /\ KindOf[j] = "cron" /\ Upcoming(j, now) # {}
                 /\ runAt' = [runAt EXCEPT ![j] = NextRun(j, now)]
        <5>1. runAt'[j] = NextRun(j, now)
          BY <1>1, <2>1, <4>3 DEF TypeOK
        <5>2. runAt'[j] \div Minute > now \div Minute /\ runAt'[j] \in Nat
          BY <1>1, <2>1, <4>3, <5>1, NextRunIsLater
        <5>3. /\ lastRun[j] \div Minute <= now \div Minute
              /\ \A x \in Nat : x \div Minute \in Nat
          BY <1>1, <4>1, SchedulerFacts, DivFacts
        <5>4. runAt'[j] \div Minute > lastRun[j] \div Minute
          BY <1>1, <4>1, <5>2, <5>3
        <5> QED BY <2>2, <3>1, <4>3, <5>4 DEF NextApart, Spaced
      <4>4. CASE jobs' = jobs \ {j}
        <5>1. Holding(j)' = {} /\ j \notin jobs'
          BY <2>1, <2>3, <2>5, <2>8, <4>4 DEF Holding
        <5> QED BY <3>1, <5>1 DEF NextApart
      <4> QED BY <2>2, <4>2, <4>3, <4>4
    <3>2. CASE i # j
      <4>1. NextApart(i) /\ i \in Jobs
        BY <1>1, <2>6, <2>8 DEF Apart
      <4>2. ASSUME NEW k \in Threads, running[k] = i PROVE running'[k] = i
        BY <1>1, <2>0, <2>2, <3>2, <4>2 DEF TypeOK
      <4> QED BY <2>2, <2>3, <2>4, <3>2, <4>1, <4>2 DEF NextApart, Spaced
    <3> QED BY <3>1, <3>2
  <2> QED BY <1>1, <2>2, <2>7, <2>8 DEF Apart
<1> QED BY <1>2, <1>3, <1>4, <1>5, <1>6, <1>7, <1>8 DEF Next, Step

-----------------------------------------------------------------------------
(* The theorems.                                                           *)

LEMMA InvInit == Init => Inv
<1> SUFFICES ASSUME Init PROVE Inv
  OBVIOUS
<1>1. TypeOK
  <2>1. 0 \in 0 .. MaxTime /\ 0 \in 0 .. Loops /\ 0 \in Nat
    BY SchedulerFacts
  <2> QED BY <2>1 DEF Init, TypeOK
<1>2. Loopwise /\ Apart
  BY DEF Init, Loopwise, Apart, Live
<1>3. Fading
  <2>1. \A j \in Jobs : late[j] = 0
    BY DEF Init
  <2> QED BY <2>1, HoldingFacts DEF Fading
<1> QED BY <1>1, <1>2, <1>3 DEF Inv

LEMMA InvNext == Inv /\ [Next]_vars => Inv'
BY TypeStays, LoopwiseStays, FadingStays, ApartStays DEF Inv

LEMMA InvAlways == Spec => []Inv
BY InvInit, InvNext, PTL DEF Spec

\* Every variable of the scheduler stays in its type (scheduler.py).
THEOREM SchedulerTypeCorrect == Spec => []TypeOK
<1>1. Inv => TypeOK
  BY DEF Inv
<1> QED BY <1>1, InvAlways, PTL

\* A job that cancel() removed begins at most once more, or once in each loop
\* after a stop() left one behind, and never comes back (scheduler.py, cancel
\* and _loop).
THEOREM CancelledFadesOutHolds == Spec => []CancelledFadesOut
<1>1. Inv => CancelledFadesOut
  <2> SUFFICES ASSUME Inv, NEW j \in Jobs
               PROVE  /\ late[j] <= IF overrun THEN Loops ELSE 1
                      /\ late[j] > 0 => j \notin jobs
    BY DEF CancelledFadesOut
  <2>1. late[j] \in Nat /\ Cardinality(Holding(j)) \in Nat
    BY HoldingFacts DEF Inv, TypeOK
  <2> QED BY <2>1, SchedulerFacts DEF Inv, Fading
<1> QED BY <1>1, InvAlways, PTL

\* A one-shot job runs once, an interval job not before its interval is over,
\* a cron job not twice in a minute, whoever stops and starts the scheduler
\* and however long callbacks take, unless a stop() left a loop behind
\* (scheduler.py, _loop, _run_job and stop).
THEOREM RunsAreSpaced == Spec => SpacedRuns
<1> DEFINE A == \A l \in Threads, j \in ran :
                  running[l] = None /\ running'[l] = j /\ ~overrun
                    => Spaced(j, lastRun[j], now)
<1>1. Inv /\ [Next]_vars => [A]_vars
  <2> SUFFICES ASSUME Inv, [Next]_vars, NEW l \in Threads, NEW j \in ran,
                      running[l] = None, running'[l] = j, ~overrun
               PROVE  Spaced(j, lastRun[j], now)
    OBVIOUS
  <2>1. /\ TypeOK /\ Loopwise /\ Apart /\ j \in Jobs /\ j # None
        /\ now \in Nat /\ lastRun[j] \in Nat /\ runAt[j] \in Nat
    BY SchedulerFacts DEF Inv, TypeOK
  <2>2. j \in due[l]
    <3>1. running' # running
      BY <2>1
    <3>2. \E k \in Threads : \/ Reschedule(k)
                             \/ \E i \in due[k] : Begin(k, i)
      BY <3>1 DEF Next, Step, Tick, Schedule, Cancel, Start, Stop, Joined, StopsItself, Check,
         BatchEnds, vars, threads
    <3>3. ASSUME NEW k \in Threads, Reschedule(k) PROVE FALSE
      BY <2>1, <3>3 DEF Reschedule, TypeOK
    <3>4. ASSUME NEW k \in Threads, NEW i \in due[k], Begin(k, i) PROVE j \in due[l]
      BY <2>1, <3>4 DEF Begin, TypeOK
    <3> QED BY <3>2, <3>3, <3>4
  <2>3. runAt[j] <= now /\ NextApart(j)
    BY <2>1, <2>2 DEF Apart
  <2>4. ~\E k \in Threads : running[k] = j
    <3> SUFFICES ASSUME NEW k \in Threads, running[k] = j PROVE FALSE
      OBVIOUS
    <3>1. Live(k) /\ Live(l)
      BY <2>1, <2>2 DEF Loopwise, Live
    <3>2. k = l
      BY <2>1, <3>1 DEF Loopwise
    <3> QED BY <2>1, <3>2
  <2>5. Spaced(j, lastRun[j], runAt[j])
    BY <2>2, <2>3, <2>4 DEF NextApart, Holding
  <2> QED BY <2>1, <2>3, <2>5, LaterIsSpaced
<1>2. [][A]_vars <=> SpacedRuns
  BY DEF SpacedRuns
<1> QED BY <1>1, <1>2, InvAlways, PTL DEF Spec
=============================================================================
