--------------------------- MODULE WorkflowEngine ---------------------------
(***************************************************************************)
(* One run of a workflow (runtime/workflows.py) and its row in the SQLite  *)
(* run table (runtime/workflow_store.py).                                  *)
(*                                                                         *)
(* A worker is a thread inside run() or resume(); it belongs to an engine, *)
(* a process with its own WorkflowRun object in _runs.  All engines share  *)
(* the table.  Each step below is one store transaction, one step action   *)
(* or the code up to the next published event, so that workers, crashes    *)
(* and store errors interleave wherever the code lets them.                *)
(*                                                                         *)
(* Data abstraction: a result is the fact that the step has one; the row's *)
(* results and completed_steps are the union resume() takes of them;       *)
(* timestamps, contexts and events are left out.                           *)
(***************************************************************************)
EXTENDS Integers, Sequences, FiniteSets

CONSTANTS
  Engines,        \* processes that opened the run table
  Workers,        \* threads inside run() or resume()
  EngineOf,       \* the engine of each worker
  Submitted,      \* definitions handed to register(): sequences of [id, deps]
  MaxFaults,      \* bound: step failures, store errors and crashes
  MaxReloads      \* bound: times the workflow is registered again, changed

Ids(d) == {d[i].id : i \in DOMAIN d}

-----------------------------------------------------------------------------
(* register(): _validate_definition and _topo_order.                       *)

\* A slip: _topo_order is not called.
SlipAnyDefinition(d) ==
  \A i, j \in DOMAIN d : d[i].id = d[j].id => i = j

\* Distinct ids, known dependencies, and no cycle: every set of steps has
\* one that depends on none of them.
Valid(d) ==
  /\ \A i, j \in DOMAIN d : d[i].id = d[j].id => i = j
  /\ \A i \in DOMAIN d : d[i].deps \subseteq Ids(d)
  /\ \A S \in SUBSET (DOMAIN d) :
       S # {} => \E i \in S : d[i].deps \cap {d[j].id : j \in S} = {}

StepIds == UNION {Ids(d) : d \in Submitted}

ASSUME EnginesAssumption == EngineOf \in [Workers -> Engines]
ASSUME SubmittedAssumption ==
  /\ IsFiniteSet(StepIds)
  /\ \A d \in Submitted : d \in Seq([id : StepIds, deps : SUBSET StepIds])
  /\ \E d \in Submitted : Valid(d)
ASSUME WorkflowBounds == MaxFaults \in Nat /\ MaxReloads \in Nat

VARIABLES
  definition,     \* the registered definition
  row,            \* the run's row: [state, steps]
  run,            \* engine -> its WorkflowRun object: [state, results]
  worker,         \* worker -> program counter and locals of run() / resume()
  ran,            \* history: steps whose action has returned a result
  faults, reloads \* faults and changed registrations so far

vars == <<definition, row, run, worker, ran, faults, reloads>>

States == {"absent", "pending", "running", "completed", "failed"}
Row == [state : States, steps : SUBSET StepIds]
Run == [state : States, results : SUBSET StepIds]
Entering(label, def, done) ==
  [pc |-> label, def |-> def, done |-> done, pos |-> 1, progressed |-> FALSE]
Idle == Entering("idle", <<>>, {})
WorkerState ==
  [pc : {"idle", "start", "merge", "restart", "pass", "scan", "act",
         "checkpoint", "complete", "final"},
   def : Submitted \cup {<<>>}, done : SUBSET StepIds, pos : Nat \ {0},
   progressed : BOOLEAN]

\* Types; a worker at a step stands inside its definition.
TypeOK ==
  /\ definition \in Submitted
  /\ row \in Row
  /\ run \in [Engines -> Run]
  /\ worker \in [Workers -> WorkerState]
  /\ \A w \in Workers :
       worker[w].pc \in {"act", "checkpoint"} =>
         worker[w].pos \in DOMAIN worker[w].def
  /\ ran \in SUBSET StepIds
  /\ faults \in Nat /\ reloads \in Nat

At(w, label) == worker[w].pc = label
Goto(w, label) == worker' = [worker EXCEPT ![w].pc = label]
Object(w) == run[EngineOf[w]]
Step(w) == worker[w].def[worker[w].pos]
SetObject(w, object) == run' = [run EXCEPT ![EngineOf[w]] = object]
Fault == faults < MaxFaults /\ faults' = faults + 1

-----------------------------------------------------------------------------
(* Slips a maintainer could make in the definitions that follow.           *)

\* resume() takes the completed steps to be those of the definition.
SlipAllStored(w) ==
  /\ At(w, "merge")
  /\ worker' = [worker EXCEPT ![w].pc = "restart", ![w].done = Ids(worker[w].def)]
  /\ UNCHANGED <<definition, row, run, ran, faults, reloads>>

\* The dependencies are not looked at.
SlipNoDependencies(w) ==
  {i \in DOMAIN worker[w].def :
     i >= worker[w].pos /\ worker[w].def[i].id \notin worker[w].done}

\* The steps already done are not skipped.
SlipNoSkip(w) ==
  {i \in DOMAIN worker[w].def :
     i >= worker[w].pos /\ worker[w].def[i].deps \subseteq worker[w].done}

\* The passes end one step early.
SlipOneStepShort(w) ==
  /\ At(w, "pass")
  /\ IF Cardinality(worker[w].done) + 1 < Len(worker[w].def)
     THEN worker' = [worker EXCEPT ![w].pc = "scan", ![w].pos = 1, ![w].progressed = FALSE]
     ELSE Goto(w, "complete")
  /\ UNCHANGED <<definition, row, run, ran, faults, reloads>>

\* A completed run is not refused.
SlipResumeCompleted(w) ==
  LET object == IF Object(w).state # "absent" THEN Object(w)
                ELSE [state |-> row.state, results |-> row.steps]
  IN  /\ At(w, "idle")
      /\ object.state # "absent"
      /\ SetObject(w, object)
      /\ worker' = [worker EXCEPT ![w] = Entering("merge", definition, object.results)]
      /\ UNCHANGED <<definition, row, ran, faults, reloads>>

\* Failed runs are refused like completed ones.
SlipResumeRunning(w) ==
  Object(w).state # "failed" /\ row.state # "failed" /\ SlipResumeCompleted(w)

\* The scan position runs one ahead.
SlipNextPosition(w) ==
  /\ At(w, "pass")
  /\ IF Cardinality(worker[w].done) <= Len(worker[w].def)
     THEN worker' = [worker EXCEPT ![w].pc = "act", ![w].progressed = TRUE,
                                   ![w].pos = Cardinality(worker[w].done) + 1]
     ELSE Goto(w, "complete")
  /\ UNCHANGED <<definition, row, run, ran, faults, reloads>>

-----------------------------------------------------------------------------
\* register() of a changed definition (/workflows reload).
Register ==
  /\ reloads < MaxReloads /\ reloads' = reloads + 1
  /\ \E d \in Submitted : Valid(d) /\ d # definition /\ definition' = d
  /\ UNCHANGED <<row, run, worker, ran, faults>>

\* _checkpoint: the upsert commits.
Upsert(w, state, steps) == row' = [state |-> state, steps |-> steps]

\* _checkpoint: the upsert raises, and the error is swallowed.
UpsertFails == Fault /\ UNCHANGED row

CheckpointRow(w, state, steps) ==
  \/ Upsert(w, state, steps) /\ UNCHANGED faults
  \/ UpsertFails

\* run(): a new run object, announced before it is stored.
StartRun(w) ==
  /\ At(w, "idle") /\ row.state = "absent" /\ Object(w).state = "absent"
  /\ \A v \in Workers : At(v, "idle")        \* the run id is fresh
  /\ SetObject(w, [state |-> "pending", results |-> {}])
  /\ worker' = [worker EXCEPT ![w] = Entering("start", definition, {})]
  /\ UNCHANGED <<definition, row, ran, faults, reloads>>

\* run(): RUNNING, and the first checkpoint.
FirstCheckpoint(w) ==
  /\ At(w, "start")
  /\ SetObject(w, [Object(w) EXCEPT !.state = "running"])
  /\ CheckpointRow(w, "running", Object(w).results)
  /\ Goto(w, "pass")
  /\ UNCHANGED <<definition, ran, reloads>>

\* resume(): the object in memory, or else the row, is loaded and refused
\* when it is completed.
Resume(w) ==
  LET object == IF Object(w).state # "absent" THEN Object(w)
                ELSE [state |-> row.state, results |-> row.steps]
  IN  /\ At(w, "idle")
      /\ object.state \notin {"absent", "completed"}
      /\ SetObject(w, object)
      /\ worker' = [worker EXCEPT ![w] = Entering("merge", definition, object.results)]
      /\ UNCHANGED <<definition, row, ran, faults, reloads>>

\* resume(): the stored completed_steps are added.
MergeStored(w) ==
  /\ At(w, "merge")
  /\ worker' = [worker EXCEPT ![w].pc = "restart", ![w].done = @ \cup row.steps]
  /\ UNCHANGED <<definition, row, run, ran, faults, reloads>>

\* resume(): the table cannot be read; the error reaches the caller.
ReadFails(w) ==
  /\ At(w, "merge") /\ Fault
  /\ worker' = [worker EXCEPT ![w] = Idle]
  /\ UNCHANGED <<definition, row, run, ran, reloads>>

\* resume(): RUNNING again, a checkpoint; _execute adds the missing results.
RestartCheckpoint(w) ==
  LET steps == Object(w).results \cup worker[w].done IN
  /\ At(w, "restart")
  /\ SetObject(w, [state |-> "running", results |-> steps])
  /\ CheckpointRow(w, "running", steps)
  /\ Goto(w, "pass")
  /\ UNCHANGED <<definition, ran, reloads>>

\* _execute: another pass over the steps, or all of them are counted done.
BeginPass(w) ==
  /\ At(w, "pass")
  /\ IF Cardinality(worker[w].done) < Len(worker[w].def)
     THEN worker' = [worker EXCEPT ![w].pc = "scan", ![w].pos = 1, ![w].progressed = FALSE]
     ELSE Goto(w, "complete")
  /\ UNCHANGED <<definition, row, run, ran, faults, reloads>>

\* The steps from the scan position on that are not done and may run.
Runnable(w) ==
  {i \in DOMAIN worker[w].def :
     /\ i >= worker[w].pos
     /\ worker[w].def[i].id \notin worker[w].done
     /\ worker[w].def[i].deps \subseteq worker[w].done}

\* _execute: the next step of this pass starts.
StartStep(w) ==
  /\ At(w, "scan")
  /\ \E i \in Runnable(w) :
       /\ \A j \in Runnable(w) : i <= j
       /\ worker' = [worker EXCEPT ![w].pc = "act", ![w].pos = i]
  /\ UNCHANGED <<definition, row, run, ran, faults, reloads>>

\* _execute: the pass is over; without progress it raises "deadlock".
EndPass(w) ==
  /\ At(w, "scan") /\ Runnable(w) = {}
  /\ IF worker[w].progressed
     THEN Goto(w, "pass") /\ UNCHANGED run
     ELSE Goto(w, "final") /\ SetObject(w, [Object(w) EXCEPT !.state = "failed"])
  /\ UNCHANGED <<definition, row, ran, faults, reloads>>

\* The action returns: the result is in memory, not yet in the table.
StepReturns(w) ==
  LET s == Step(w).id IN
  /\ At(w, "act")
  /\ ran' = ran \cup {s}
  /\ SetObject(w, [Object(w) EXCEPT !.results = @ \cup {s}])
  /\ worker' = [worker EXCEPT ![w].pc = "checkpoint", ![w].done = @ \cup {s},
                              ![w].progressed = TRUE]
  /\ UNCHANGED <<definition, row, faults, reloads>>

\* The action raises: FAILED.
StepRaises(w) ==
  /\ At(w, "act") /\ Fault
  /\ SetObject(w, [Object(w) EXCEPT !.state = "failed"])
  /\ Goto(w, "final")
  /\ UNCHANGED <<definition, row, ran, reloads>>

\* The checkpoint after a step.
StepCheckpoint(w) ==
  /\ At(w, "checkpoint")
  /\ CheckpointRow(w, Object(w).state, Object(w).results \cup worker[w].done)
  /\ Goto(w, "scan")
  /\ UNCHANGED <<definition, run, ran, reloads>>

\* COMPLETED in memory, and announced.
Complete(w) ==
  /\ At(w, "complete")
  /\ SetObject(w, [Object(w) EXCEPT !.state = "completed"])
  /\ Goto(w, "final")
  /\ UNCHANGED <<definition, row, ran, faults, reloads>>

\* finally: the last checkpoint.
FinalCheckpoint(w) ==
  /\ At(w, "final")
  /\ CheckpointRow(w, Object(w).state, Object(w).results)
  /\ worker' = [worker EXCEPT ![w] = Idle]
  /\ UNCHANGED <<definition, run, ran, reloads>>

\* The process ends: its objects and threads are gone, the table stays.
Crash(e) ==
  /\ Fault
  /\ run' = [run EXCEPT ![e] = [state |-> "absent", results |-> {}]]
  /\ worker' = [w \in Workers |-> IF EngineOf[w] = e THEN Idle ELSE worker[w]]
  /\ UNCHANGED <<definition, row, ran, reloads>>

Proceed(w) ==
  \/ FirstCheckpoint(w) \/ MergeStored(w) \/ ReadFails(w) \/ RestartCheckpoint(w)
  \/ BeginPass(w) \/ StartStep(w) \/ EndPass(w)
  \/ StepReturns(w) \/ StepRaises(w) \/ StepCheckpoint(w)
  \/ Complete(w) \/ FinalCheckpoint(w)

Init ==
  /\ definition \in {d \in Submitted : Valid(d)}
  /\ row = [state |-> "absent", steps |-> {}]
  /\ run = [e \in Engines |-> [state |-> "absent", results |-> {}]]
  /\ worker = [w \in Workers |-> Idle]
  /\ ran = {} /\ faults = 0 /\ reloads = 0

Next ==
  \/ \E w \in Workers : StartRun(w) \/ Resume(w) \/ Proceed(w)
  \/ \E e \in Engines : Crash(e)
  \/ Register

Spec == Init /\ [][Next]_vars

\* A worker goes on, and the operator resumes an unfinished run again and
\* again (/workflows resume; nothing in the code does it by itself).
FairSpec ==
  /\ Spec
  /\ \A w \in Workers : WF_vars(Proceed(w)) /\ WF_vars(Resume(w))

-----------------------------------------------------------------------------
(* Safety.                                                                 *)

\* The table never claims a step whose action has not returned, whoever
\* wrote it and whatever crashed (_checkpoint, resume).
CheckpointTruthful == row.steps \subseteq ran

\* A step starts only when everything it depends on has run, be it in this
\* process, in another or before a restart (_execute).
DependenciesFirst ==
  [][\A w \in Workers :
       (At(w, "scan") /\ worker'[w].pc = "act") =>
         worker[w].def[worker'[w].pos].deps \subseteq ran]_vars

\* A run that ends as COMPLETED has run every step of its definition.
NothingLeft ==
  \A w \in Workers :
    (At(w, "final") /\ Object(w).state = "completed") => Ids(worker[w].def) \subseteq ran

\* The run-time "workflow deadlock" error cannot happen to a definition that
\* register() accepted: every pass makes progress.
NeverDeadlocks ==
  \A w \in Workers :
    (At(w, "scan") /\ Runnable(w) = {}) => worker[w].progressed

\* A step recorded as completed is not run again: what resume() promises.
CompletedStepsAreSkipped ==
  [][\A w \in Workers :
       (At(w, "scan") /\ worker'[w].pc = "act") =>
         worker[w].def[worker'[w].pos].id \notin row.steps]_vars

\* A run recorded as completed is never reopened.  Stated, checked by no run:
\* it fails with a second process, whose resume() reads its copy in memory.
CompletedIsFinal == [][row.state = "completed" => UNCHANGED row]_vars

\* With a single valid definition and one worker, the row is a
\* WorkflowContract: steps only added, dependencies first, completed last.
TheDefinition == CHOOSE d \in Submitted : Valid(d)
DepsOf(s) == CHOOSE deps \in SUBSET StepIds :
               [id |-> s, deps |-> deps] \in {TheDefinition[i] : i \in DOMAIN TheDefinition}

Contract ==
  INSTANCE WorkflowContract
    WITH Steps <- Ids(TheDefinition),
         DependsOn <- [s \in Ids(TheDefinition) |-> DepsOf(s)],
         state <- row.state, recorded <- row.steps

ImplementsContract == Contract!Spec

-----------------------------------------------------------------------------
(* Liveness.                                                               *)

\* A run that reached the table is completed in the end, if unfinished runs
\* are resumed and failures, store errors and crashes are finite.
RunCompletes ==
  row.state # "absent" ~>
    (row.state = "completed" \/ \E e \in Engines : run[e].state = "completed")
=============================================================================
