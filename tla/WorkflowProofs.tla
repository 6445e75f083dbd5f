--------------------------- MODULE WorkflowProofs ---------------------------
(***************************************************************************)
(* Proofs about WorkflowEngine for any number of processes and threads,    *)
(* any definitions, and any crashes, store errors and step failures.       *)
(***************************************************************************)
EXTENDS WorkflowEngine, TLAPS, FiniteSetTheorems

(* One worker: it runs a valid definition, stands inside it, and begins a  *)
(* pass only while fewer steps are done than there are.                    *)
WorkerOK(x) ==
  /\ x \in WorkerState
  /\ x.pc # "idle" => x.def \in Submitted /\ Valid(x.def)
  /\ x.pc \in {"act", "checkpoint"} => x.pos \in DOMAIN x.def
  /\ x.pc = "checkpoint" => x.progressed
  /\ (x.pc = "scan" /\ ~ x.progressed) =>
       x.pos = 1 /\ Cardinality(x.done) < Len(x.def)

Base ==
  /\ definition \in Submitted /\ Valid(definition)
  /\ row \in Row
  /\ run \in [Engines -> Run]
  /\ worker \in [Workers -> WorkerState]
  /\ ran \in SUBSET StepIds
  /\ faults \in Nat /\ reloads \in Nat

(* Nobody claims a step that has not run: the table, no object in memory   *)
(* and no thread's local set.                                              *)
Truth ==
  /\ row.steps \subseteq ran
  /\ \A e \in Engines : run[e].results \subseteq ran
  /\ \A w \in Workers : worker[w].done \subseteq ran

Inv == Base /\ Truth /\ \A w \in Workers : WorkerOK(worker[w])

-----------------------------------------------------------------------------
(* Definitions and their steps.                                            *)

LEMMA StepTypes ==
  ASSUME NEW def \in Submitted, NEW i \in DOMAIN def
  PROVE  def[i] \in [id : StepIds, deps : SUBSET StepIds] /\ def[i].id \in StepIds
<1>1. def \in Seq([id : StepIds, deps : SUBSET StepIds])
  BY SubmittedAssumption
<1>2. DOMAIN def = 1..Len(def) /\ i \in 1..Len(def)
  BY <1>1
<1>3. \A S : def \in Seq(S) /\ i \in 1..Len(def) => def[i] \in S
  OBVIOUS
<1>4. def[i] \in [id : StepIds, deps : SUBSET StepIds]
  BY <1>1, <1>2, <1>3
<1>5. QED
  BY <1>4

(* A definition with distinct ids has as many ids as steps.                *)
LEMMA IdsCounted ==
  ASSUME NEW def \in Submitted, Valid(def)
  PROVE  IsFiniteSet(Ids(def)) /\ Cardinality(Ids(def)) = Len(def)
<1>1. def \in Seq([id : StepIds, deps : SUBSET StepIds])
  BY SubmittedAssumption
<1>2. Len(def) \in Nat /\ DOMAIN def = 1..Len(def)
  BY <1>1
<1> DEFINE f == [i \in 1..Len(def) |-> def[i].id]
<1>3. f \in Bijection(1..Len(def), Ids(def))
  <2>1. f \in [1..Len(def) -> Ids(def)]
    BY <1>2 DEF Ids
  <2>2. \A i, j \in 1..Len(def) : f[i] = f[j] => i = j
    BY <1>2 DEF Valid
  <2>3. \A s \in Ids(def) : \E i \in 1..Len(def) : f[i] = s
    BY <1>2 DEF Ids
  <2>4. QED
    BY <2>1, <2>2, <2>3 DEF Bijection, Injection, Surjection, IsInjective
<1>4. ExistsBijection(1..Len(def), Ids(def))
  BY <1>3 DEF ExistsBijection
<1>5. QED
  BY <1>2, <1>4, FS_NatBijection, FS_CountingElements

(* As long as fewer steps are counted done than there are, some step that  *)
(* is not done has all its dependencies done.                              *)
LEMMA SomethingIsRunnable ==
  ASSUME NEW def \in Submitted, Valid(def), NEW done \in SUBSET StepIds,
         Cardinality(done) < Len(def)
  PROVE  \E i \in DOMAIN def : def[i].id \notin done /\ def[i].deps \subseteq done
<1> DEFINE S == {i \in DOMAIN def : def[i].id \notin done}
<1>1. S # {}
  <2>1. SUFFICES ASSUME S = {} PROVE FALSE
    OBVIOUS
  <2>2. Ids(def) \subseteq done
    BY <2>1 DEF Ids
  <2>3. IsFiniteSet(done)
    BY SubmittedAssumption, FS_Subset
  <2>4. Cardinality(Ids(def)) <= Cardinality(done)
    BY <2>2, <2>3, FS_Subset
  <2>5. Cardinality(done) \in Nat /\ Len(def) \in Nat
    BY <2>3, FS_CardinalityType, SubmittedAssumption
  <2>6. QED
    BY <2>4, <2>5, IdsCounted
<1>2. PICK i \in S : def[i].deps \cap {def[j].id : j \in S} = {}
  <2>1. S \in SUBSET (DOMAIN def)
    OBVIOUS
  <2>2. QED
    BY <1>1, <2>1 DEF Valid
<1>3. def[i].deps \subseteq done
  <2>1. SUFFICES ASSUME NEW s \in def[i].deps, s \notin done PROVE FALSE
    OBVIOUS
  <2>2. PICK j \in DOMAIN def : def[j].id = s
    BY DEF Valid, Ids
  <2>3. s \in {def[k].id : k \in S}
    BY <2>1, <2>2
  <2>4. QED
    BY <2>3, <1>2
<1>4. QED
  BY <1>2, <1>3

-----------------------------------------------------------------------------
(* Pieces of a step.                                                       *)

(* A worker that has just entered run() or resume().                       *)
LEMMA EnteredOK ==
  ASSUME NEW def \in Submitted, Valid(def), NEW done \in SUBSET StepIds,
         NEW label \in {"start", "merge"}
  PROVE  LET x == Entering(label, def, done)
         IN  WorkerOK(x) /\ x.done = done
<1> DEFINE x == Entering(label, def, done)
<1>1. x \in WorkerState
  BY DEF WorkerState, Entering
<1>2. x.pc = label /\ x.def = def /\ x.done = done
  BY DEF Entering
<1> HIDE DEF x
<1>3. WorkerOK(x) /\ x.done = done
  BY <1>1, <1>2 DEF WorkerOK
<1>4. QED
  BY <1>3 DEF x

LEMMA IdleOK == WorkerOK(Idle) /\ Idle.done = {}
BY DEF WorkerOK, WorkerState, Idle, Entering

(* A step of one worker: its new record is sound, claims nothing that has  *)
(* not run, and neither do the row and the objects.                        *)
LEMMA WorkerStep ==
  ASSUME Inv, NEW w \in Workers, NEW x, WorkerOK(x), x.done \subseteq ran',
         worker' = [worker EXCEPT ![w] = x],
         ran \subseteq ran', ran' \subseteq StepIds,
         run' \in [Engines -> Run], \A e \in Engines : run'[e].results \subseteq ran',
         row' \in Row, row'.steps \subseteq ran',
         definition' = definition, faults' \in Nat, reloads' = reloads
  PROVE  Inv'
<1>1. /\ worker' \in [Workers -> WorkerState]
      /\ \A v \in Workers : WorkerOK(worker'[v])
      /\ \A v \in Workers : worker'[v].done \subseteq ran'
  BY DEF Inv, Base, Truth, WorkerOK
<1>2. Base' /\ Truth'
  BY <1>1 DEF Inv, Base, Truth
<1>3. QED
  BY <1>1, <1>2 DEF Inv

(* The object of the worker's engine is replaced.                          *)
LEMMA ObjectSet ==
  ASSUME Inv, NEW w \in Workers, NEW object \in Run, SetObject(w, object),
         NEW now, ran \subseteq now, object.results \subseteq now
  PROVE  run' \in [Engines -> Run] /\ \A e \in Engines : run'[e].results \subseteq now
<1>1. /\ run \in [Engines -> Run] /\ EngineOf[w] \in Engines
      /\ \A e \in Engines : run[e].results \subseteq ran
  BY EnginesAssumption DEF Inv, Base, Truth
<1>2. QED
  BY <1>1 DEF SetObject

LEMMA ObjectTypes ==
  ASSUME Inv, NEW w \in Workers
  PROVE  /\ Object(w) \in Run /\ Object(w).state \in States
         /\ Object(w).results \subseteq ran
         /\ Object(w).results \in SUBSET StepIds
BY EnginesAssumption DEF Inv, Base, Truth, Object, Run

(* A checkpoint of steps that have run, whether the upsert commits or not. *)
LEMMA CheckpointOK ==
  ASSUME Inv, NEW w, NEW st \in States, NEW steps \in SUBSET ran,
         CheckpointRow(w, st, steps)
  PROVE  row' \in Row /\ row'.steps \subseteq ran /\ faults' \in Nat
<1>1. row \in Row /\ row.steps \subseteq ran /\ faults \in Nat /\ steps \in SUBSET StepIds
  BY DEF Inv, Base, Truth
<1>2. [state |-> st, steps |-> steps] \in Row
  BY <1>1 DEF Row
<1>3. QED
  BY <1>1, <1>2 DEF CheckpointRow, Upsert, UpsertFails, Fault

(* Moving the program counter to a label that asks for nothing more.       *)
LEMMA GotoOK ==
  ASSUME Inv, NEW w \in Workers, worker[w].pc # "idle",
         NEW label \in {"merge", "restart", "pass", "complete", "final"}
  PROVE  LET x == [worker[w] EXCEPT !.pc = label]
         IN  WorkerOK(x) /\ x.done = worker[w].done
<1>1. worker[w] \in WorkerState /\ WorkerOK(worker[w])
  BY DEF Inv, Base
<1>2. QED
  BY <1>1 DEF WorkerOK, WorkerState

LEMMA GotoIs ==
  ASSUME Inv, NEW w \in Workers, NEW label, Goto(w, label)
  PROVE  worker' = [worker EXCEPT ![w] = [worker[w] EXCEPT !.pc = label]]
BY DEF Inv, Base, Goto

LEMMA SameParts ==
  ASSUME Inv
  PROVE  /\ ran \subseteq StepIds
         /\ run \in [Engines -> Run] /\ \A e \in Engines : run[e].results \subseteq ran
         /\ row \in Row /\ row.steps \subseteq ran
         /\ faults \in Nat
         /\ \A w \in Workers : WorkerOK(worker[w]) /\ worker[w].done \subseteq ran
BY DEF Inv, Base, Truth


-----------------------------------------------------------------------------
(* One lemma per action.                                                   *)

LEMMA StartRunStep ==
  ASSUME Inv, NEW w \in Workers, StartRun(w)
  PROVE  Inv'
<1> DEFINE x == Entering("start", definition, {})
           object == [state |-> "pending", results |-> {}]
<1>1. definition \in Submitted /\ Valid(definition)
  BY DEF Inv, Base
<1>2. WorkerOK(x) /\ x.done = {}
  BY <1>1, EnteredOK
<1>3. object \in Run /\ object.results = {}
  BY DEF Run, States
<1>4. /\ SetObject(w, object) /\ worker' = [worker EXCEPT ![w] = x]
      /\ UNCHANGED <<definition, row, ran, faults, reloads>>
  BY DEF StartRun
<1> HIDE DEF x, object
<1>5. run' \in [Engines -> Run] /\ \A e \in Engines : run'[e].results \subseteq ran
  BY <1>3, <1>4, ObjectSet
<1>6. QED
  BY <1>2, <1>4, <1>5, SameParts, WorkerStep

LEMMA FirstCheckpointStep ==
  ASSUME Inv, NEW w \in Workers, FirstCheckpoint(w)
  PROVE  Inv'
<1> DEFINE x == [worker[w] EXCEPT !.pc = "pass"]
           object == [Object(w) EXCEPT !.state = "running"]
<1>1. /\ worker[w].pc = "start" /\ SetObject(w, object) /\ Goto(w, "pass")
      /\ CheckpointRow(w, "running", Object(w).results)
      /\ UNCHANGED <<definition, ran, reloads>>
  BY DEF FirstCheckpoint, At
<1>2. object \in Run /\ object.results \subseteq ran
  BY ObjectTypes DEF Run, States
<1>3. WorkerOK(x) /\ x.done = worker[w].done /\ worker' = [worker EXCEPT ![w] = x]
  BY <1>1, GotoOK, GotoIs
<1> HIDE DEF x, object
<1>4. run' \in [Engines -> Run] /\ \A e \in Engines : run'[e].results \subseteq ran
  BY <1>1, <1>2, ObjectSet
<1>5. row' \in Row /\ row'.steps \subseteq ran /\ faults' \in Nat
  BY <1>1, ObjectTypes, CheckpointOK DEF States
<1>6. QED
  BY <1>1, <1>3, <1>4, <1>5, SameParts, WorkerStep

LEMMA ResumeStep ==
  ASSUME Inv, NEW w \in Workers, Resume(w)
  PROVE  Inv'
<1>1. PICK object :
        /\ object = IF Object(w).state # "absent" THEN Object(w)
                    ELSE [state |-> row.state, results |-> row.steps]
        /\ SetObject(w, object)
        /\ worker' = [worker EXCEPT ![w] =
                       Entering("merge", definition, object.results)]
        /\ UNCHANGED <<definition, row, ran, faults, reloads>>
  BY DEF Resume
<1>2. object \in Run /\ object.results \subseteq ran
  <2>1. /\ row.state \in States /\ row.steps \in SUBSET StepIds
        /\ row.steps \subseteq ran
    BY SameParts DEF Row
  <2>2. QED
    BY <1>1, <2>1, ObjectTypes DEF Run
<1> DEFINE x == Entering("merge", definition, object.results)
<1>3. definition \in Submitted /\ Valid(definition)
  BY DEF Inv, Base
<1>4. WorkerOK(x) /\ x.done = object.results
  <2>1. object.results \in SUBSET StepIds
    BY <1>2 DEF Run
  <2>2. QED
    BY <1>3, <2>1, EnteredOK
<1>5. worker' = [worker EXCEPT ![w] = x]
  BY <1>1
<1> HIDE DEF x
<1>6. run' \in [Engines -> Run] /\ \A e \in Engines : run'[e].results \subseteq ran
  BY <1>1, <1>2, ObjectSet
<1>7. QED
  BY <1>1, <1>2, <1>4, <1>5, <1>6, SameParts, WorkerStep

LEMMA MergeStep ==
  ASSUME Inv, NEW w \in Workers, MergeStored(w)
  PROVE  Inv'
<1> DEFINE x == [worker[w] EXCEPT !.pc = "restart", !.done = @ \cup row.steps]
<1>1. /\ worker[w].pc = "merge" /\ worker' = [worker EXCEPT ![w] = x]
      /\ UNCHANGED <<definition, row, run, ran, faults, reloads>>
  BY DEF MergeStored, At, Inv, Base
<1>2. /\ worker[w] \in WorkerState /\ WorkerOK(worker[w])
      /\ row.steps \subseteq ran /\ worker[w].done \subseteq ran /\ ran \subseteq StepIds
  BY DEF Inv, Base, Truth
<1>3. WorkerOK(x) /\ x.done \subseteq ran
  BY <1>1, <1>2 DEF WorkerOK, WorkerState
<1> HIDE DEF x
<1>4. QED
  BY <1>1, <1>3, SameParts, WorkerStep

LEMMA ReadFailsStep ==
  ASSUME Inv, NEW w \in Workers, ReadFails(w)
  PROVE  Inv'
<1>1. /\ worker' = [worker EXCEPT ![w] = Idle] /\ faults' \in Nat
      /\ UNCHANGED <<definition, row, run, ran, reloads>>
  BY SameParts DEF ReadFails, Fault
<1>2. QED
  BY <1>1, IdleOK, SameParts, WorkerStep

LEMMA RestartStep ==
  ASSUME Inv, NEW w \in Workers, RestartCheckpoint(w)
  PROVE  Inv'
<1> DEFINE steps == Object(w).results \cup worker[w].done
           x == [worker[w] EXCEPT !.pc = "pass"]
           object == [state |-> "running", results |-> steps]
<1>1. /\ worker[w].pc = "restart" /\ SetObject(w, object) /\ Goto(w, "pass")
      /\ CheckpointRow(w, "running", steps)
      /\ UNCHANGED <<definition, ran, reloads>>
  BY DEF RestartCheckpoint, At
<1>2. steps \in SUBSET ran /\ steps \subseteq StepIds
  BY ObjectTypes, SameParts
<1>3. object \in Run /\ object.results \subseteq ran
  BY <1>2 DEF Run, States
<1>4. WorkerOK(x) /\ x.done = worker[w].done /\ worker' = [worker EXCEPT ![w] = x]
  BY <1>1, GotoOK, GotoIs
<1> HIDE DEF x, object, steps
<1>5. run' \in [Engines -> Run] /\ \A e \in Engines : run'[e].results \subseteq ran
  BY <1>1, <1>3, ObjectSet
<1>6. row' \in Row /\ row'.steps \subseteq ran /\ faults' \in Nat
  BY <1>1, <1>2, CheckpointOK DEF States
<1>7. QED
  BY <1>1, <1>4, <1>5, <1>6, SameParts, WorkerStep

LEMMA BeginPassStep ==
  ASSUME Inv, NEW w \in Workers, BeginPass(w)
  PROVE  Inv'
<1>1. worker[w].pc = "pass" /\ UNCHANGED <<definition, row, run, ran, faults, reloads>>
  BY DEF BeginPass, At
<1>2. /\ worker[w] \in WorkerState /\ WorkerOK(worker[w])
      /\ worker[w].done \subseteq ran /\ worker \in [Workers -> WorkerState]
  BY DEF Inv, Base, Truth
<1>3. CASE Cardinality(worker[w].done) < Len(worker[w].def)
  <2> DEFINE x == [worker[w] EXCEPT !.pc = "scan", !.pos = 1, !.progressed = FALSE]
  <2>1. worker' = [worker EXCEPT ![w] = x]
    BY <1>2, <1>3 DEF BeginPass
  <2>2. WorkerOK(x) /\ x.done = worker[w].done
    <3>1. x \in WorkerState
      <4>1. \A n \in Nat \ {0}, b \in BOOLEAN :
              [worker[w] EXCEPT !.pc = "scan", !.pos = n, !.progressed = b] \in WorkerState
        BY <1>2 DEF WorkerState
      <4>2. 1 \in Nat \ {0} /\ FALSE \in BOOLEAN
        OBVIOUS
      <4>3. QED
        BY <4>1, <4>2, Zenon
    <3>2. x.pc = "scan" /\ x.def = worker[w].def /\ x.done = worker[w].done
      BY <1>2 DEF WorkerState
    <3>3. x.pos = 1
      BY <1>2 DEF WorkerState
    <3> HIDE DEF x
    <3>4. QED
      BY <1>1, <1>2, <1>3, <3>1, <3>2, <3>3 DEF WorkerOK
  <2> HIDE DEF x
  <2>3. QED
    BY <1>1, <2>1, <2>2, SameParts, WorkerStep
<1>4. CASE ~ Cardinality(worker[w].done) < Len(worker[w].def)
  <2> DEFINE x == [worker[w] EXCEPT !.pc = "complete"]
  <2>1. WorkerOK(x) /\ x.done = worker[w].done /\ worker' = [worker EXCEPT ![w] = x]
    BY <1>1, <1>4, GotoOK, GotoIs DEF BeginPass
  <2> HIDE DEF x
  <2>2. QED
    BY <1>1, <2>1, SameParts, WorkerStep
<1>5. QED
  BY <1>3, <1>4

LEMMA StartStepStep ==
  ASSUME Inv, NEW w \in Workers, StartStep(w)
  PROVE  Inv'
<1>1. /\ worker[w].pc = "scan"
      /\ UNCHANGED <<definition, row, run, ran, faults, reloads>>
  BY DEF StartStep, At
<1>2. PICK i \in Runnable(w) :
        worker' = [worker EXCEPT ![w].pc = "act", ![w].pos = i]
  BY DEF StartStep
<1> DEFINE x == [worker[w] EXCEPT !.pc = "act", !.pos = i]
<1>3. worker' = [worker EXCEPT ![w] = x]
  BY <1>2 DEF Inv, Base
<1>4. /\ worker[w] \in WorkerState /\ WorkerOK(worker[w])
      /\ worker[w].done \subseteq ran
  BY DEF Inv, Base, Truth
<1>5. i \in DOMAIN worker[w].def /\ i \in Nat \ {0}
  <2>1. worker[w].def \in Seq([id : StepIds, deps : SUBSET StepIds])
    BY <1>1, <1>4, SubmittedAssumption DEF WorkerOK
  <2>2. QED
    BY <2>1 DEF Runnable
<1>6. WorkerOK(x) /\ x.done = worker[w].done
  BY <1>1, <1>4, <1>5 DEF WorkerOK, WorkerState
<1> HIDE DEF x
<1>7. QED
  BY <1>1, <1>3, <1>4, <1>6, SameParts, WorkerStep

LEMMA EndPassStep ==
  ASSUME Inv, NEW w \in Workers, EndPass(w)
  PROVE  Inv'
<1>1. worker[w].pc = "scan" /\ UNCHANGED <<definition, row, ran, faults, reloads>>
  BY DEF EndPass, At
<1>2. CASE Goto(w, "pass") /\ UNCHANGED run
  <2> DEFINE x == [worker[w] EXCEPT !.pc = "pass"]
  <2>1. WorkerOK(x) /\ x.done = worker[w].done /\ worker' = [worker EXCEPT ![w] = x]
    BY <1>1, <1>2, GotoOK, GotoIs
  <2> HIDE DEF x
  <2>2. QED
    BY <1>1, <1>2, <2>1, SameParts, WorkerStep
<1>3. CASE Goto(w, "final") /\ SetObject(w, [Object(w) EXCEPT !.state = "failed"])
  <2> DEFINE x == [worker[w] EXCEPT !.pc = "final"]
  <2>1. WorkerOK(x) /\ x.done = worker[w].done /\ worker' = [worker EXCEPT ![w] = x]
    BY <1>1, <1>3, GotoOK, GotoIs
  <2>2. /\ [Object(w) EXCEPT !.state = "failed"] \in Run
        /\ [Object(w) EXCEPT !.state = "failed"].results \subseteq ran
    BY ObjectTypes DEF Run, States
  <2>3. run' \in [Engines -> Run] /\ \A e \in Engines : run'[e].results \subseteq ran
    BY <1>3, <2>2, ObjectSet
  <2> HIDE DEF x
  <2>4. QED
    BY <1>1, <2>1, <2>3, SameParts, WorkerStep
<1>4. QED
  BY <1>2, <1>3 DEF EndPass

LEMMA StepReturnsStep ==
  ASSUME Inv, NEW w \in Workers, StepReturns(w)
  PROVE  Inv'
<1> DEFINE s == Step(w).id
           x == [worker[w] EXCEPT !.pc = "checkpoint", !.done = @ \cup {s},
                                  !.progressed = TRUE]
           object == [Object(w) EXCEPT !.results = @ \cup {s}]
<1>1. /\ worker[w].pc = "act" /\ ran' = ran \cup {s} /\ SetObject(w, object)
      /\ UNCHANGED <<definition, row, faults, reloads>>
  BY DEF StepReturns, At
<1>2. worker' = [worker EXCEPT ![w] = x]
  BY DEF StepReturns, Inv, Base
<1>3. /\ worker[w] \in WorkerState /\ WorkerOK(worker[w])
      /\ worker[w].done \subseteq ran /\ ran \subseteq StepIds
  BY DEF Inv, Base, Truth
<1>4. s \in StepIds
  <2>1. worker[w].def \in Submitted /\ worker[w].pos \in DOMAIN worker[w].def
    BY <1>1, <1>3 DEF WorkerOK
  <2>2. QED
    BY <2>1, StepTypes DEF Step
<1> HIDE DEF s
<1>5. WorkerOK(x) /\ x.done \subseteq ran'
  BY <1>1, <1>3, <1>4 DEF WorkerOK, WorkerState
<1>6. object \in Run /\ object.results \subseteq ran'
  BY <1>1, <1>4, ObjectTypes DEF Run
<1> HIDE DEF x, object
<1>7. ran \subseteq ran' /\ ran' \subseteq StepIds
  BY <1>1, <1>3, <1>4
<1>8. run' \in [Engines -> Run] /\ \A e \in Engines : run'[e].results \subseteq ran'
  BY <1>1, <1>6, <1>7, ObjectSet
<1>9. row' \in Row /\ row'.steps \subseteq ran' /\ faults' \in Nat
  BY <1>1, <1>7, SameParts
<1>10. QED
  BY <1>1, <1>2, <1>5, <1>7, <1>8, <1>9, WorkerStep

LEMMA StepRaisesStep ==
  ASSUME Inv, NEW w \in Workers, StepRaises(w)
  PROVE  Inv'
<1> DEFINE x == [worker[w] EXCEPT !.pc = "final"]
           object == [Object(w) EXCEPT !.state = "failed"]
<1>1. /\ worker[w].pc = "act" /\ SetObject(w, object) /\ Goto(w, "final")
      /\ faults' \in Nat /\ UNCHANGED <<definition, row, ran, reloads>>
  BY SameParts DEF StepRaises, At, Fault
<1>2. WorkerOK(x) /\ x.done = worker[w].done /\ worker' = [worker EXCEPT ![w] = x]
  BY <1>1, GotoOK, GotoIs
<1>3. object \in Run /\ object.results \subseteq ran
  BY ObjectTypes DEF Run, States
<1> HIDE DEF x, object
<1>4. run' \in [Engines -> Run] /\ \A e \in Engines : run'[e].results \subseteq ran
  BY <1>1, <1>3, ObjectSet
<1>5. QED
  BY <1>1, <1>2, <1>4, SameParts, WorkerStep

LEMMA StepCheckpointStep ==
  ASSUME Inv, NEW w \in Workers, StepCheckpoint(w)
  PROVE  Inv'
<1> DEFINE x == [worker[w] EXCEPT !.pc = "scan"]
           steps == Object(w).results \cup worker[w].done
<1>1. /\ worker[w].pc = "checkpoint" /\ Goto(w, "scan")
      /\ CheckpointRow(w, Object(w).state, steps)
      /\ UNCHANGED <<definition, run, ran, reloads>>
  BY DEF StepCheckpoint, At
<1>2. steps \in SUBSET ran
  BY ObjectTypes, SameParts
<1>3. worker[w] \in WorkerState /\ WorkerOK(worker[w])
  BY DEF Inv, Base
<1>4. WorkerOK(x) /\ x.done = worker[w].done
  BY <1>1, <1>3 DEF WorkerOK, WorkerState
<1>5. worker' = [worker EXCEPT ![w] = x]
  BY <1>1, GotoIs
<1> HIDE DEF x, steps
<1>6. row' \in Row /\ row'.steps \subseteq ran /\ faults' \in Nat
  BY <1>1, <1>2, ObjectTypes, CheckpointOK
<1>7. QED
  BY <1>1, <1>4, <1>5, <1>6, SameParts, WorkerStep

LEMMA CompleteStep ==
  ASSUME Inv, NEW w \in Workers, Complete(w)
  PROVE  Inv'
<1> DEFINE x == [worker[w] EXCEPT !.pc = "final"]
           object == [Object(w) EXCEPT !.state = "completed"]
<1>1. /\ worker[w].pc = "complete" /\ SetObject(w, object) /\ Goto(w, "final")
      /\ UNCHANGED <<definition, row, ran, faults, reloads>>
  BY DEF Complete, At
<1>2. WorkerOK(x) /\ x.done = worker[w].done /\ worker' = [worker EXCEPT ![w] = x]
  BY <1>1, GotoOK, GotoIs
<1>3. object \in Run /\ object.results \subseteq ran
  BY ObjectTypes DEF Run, States
<1> HIDE DEF x, object
<1>4. run' \in [Engines -> Run] /\ \A e \in Engines : run'[e].results \subseteq ran
  BY <1>1, <1>3, ObjectSet
<1>5. QED
  BY <1>1, <1>2, <1>4, SameParts, WorkerStep

LEMMA FinalStep ==
  ASSUME Inv, NEW w \in Workers, FinalCheckpoint(w)
  PROVE  Inv'
<1>1. /\ CheckpointRow(w, Object(w).state, Object(w).results)
      /\ worker' = [worker EXCEPT ![w] = Idle]
      /\ UNCHANGED <<definition, run, ran, reloads>>
  BY DEF FinalCheckpoint
<1>2. row' \in Row /\ row'.steps \subseteq ran /\ faults' \in Nat
  BY <1>1, ObjectTypes, CheckpointOK
<1>3. QED
  BY <1>1, <1>2, IdleOK, SameParts, WorkerStep

(* A crash forgets the process; what is left in the table has run.         *)
LEMMA CrashStep ==
  ASSUME Inv, NEW e \in Engines, Crash(e)
  PROVE  Inv'
<1> DEFINE gone == [state |-> "absent", results |-> {}]
<1>1. /\ run' = [run EXCEPT ![e] = gone]
      /\ worker' = [w \in Workers |-> IF EngineOf[w] = e THEN Idle ELSE worker[w]]
      /\ faults' \in Nat /\ UNCHANGED <<definition, row, ran, reloads>>
  BY SameParts DEF Crash, Fault
<1>2. gone \in Run /\ gone.results = {}
  BY DEF Run, States
<1>3. /\ \A w \in Workers : WorkerOK(worker'[w])
      /\ \A w \in Workers : worker'[w].done \subseteq ran
      /\ worker' \in [Workers -> WorkerState]
  BY <1>1, IdleOK, SameParts DEF WorkerOK
<1> HIDE DEF gone
<1>4. /\ run' \in [Engines -> Run]
      /\ \A f \in Engines : run'[f].results \subseteq ran
  BY <1>1, <1>2, SameParts
<1>5. QED
  BY <1>1, <1>3, <1>4 DEF Inv, Base, Truth

LEMMA RegisterStep ==
  ASSUME Inv, Register
  PROVE  Inv'
BY DEF Inv, Base, Truth, Register

-----------------------------------------------------------------------------
(* The invariant, and what follows from it.                                *)

LEMMA InitInv == Init => Inv
<1> SUFFICES ASSUME Init PROVE Inv
  OBVIOUS
<1>1. \A w \in Workers : WorkerOK(worker[w]) /\ worker[w].done = {}
  BY IdleOK DEF Init
<1>2. Base
  BY IdleOK DEF Init, Base, Row, Run, States, WorkerOK
<1>3. Truth
  BY <1>1 DEF Init, Truth
<1>4. QED
  BY <1>1, <1>2, <1>3 DEF Inv

LEMMA NextInv == Inv /\ [Next]_vars => Inv'
<1> SUFFICES ASSUME Inv, [Next]_vars PROVE Inv'
  OBVIOUS
<1>1. ASSUME NEW w \in Workers, Proceed(w) PROVE Inv'
  BY <1>1, FirstCheckpointStep, MergeStep, ReadFailsStep, RestartStep,
     BeginPassStep, StartStepStep, EndPassStep, StepReturnsStep, StepRaisesStep,
     StepCheckpointStep, CompleteStep, FinalStep DEF Proceed
<1>2. ASSUME NEW w \in Workers, StartRun(w) \/ Resume(w) PROVE Inv'
  BY <1>2, StartRunStep, ResumeStep
<1>3. ASSUME NEW e \in Engines, Crash(e) PROVE Inv'
  BY <1>3, CrashStep
<1>4. CASE UNCHANGED vars
  BY <1>4 DEF vars, Inv, Base, Truth
<1>5. QED
  BY <1>1, <1>2, <1>3, <1>4, RegisterStep DEF Next

(* In every reachable state the definitions in use are valid, every worker *)
(* stands inside its own, and no claim of a completed step is false.       *)
THEOREM WorkflowInvariant == Spec => []Inv
BY InitInv, NextInv, PTL DEF Spec

(* The types of the run table, the run objects and the workers (TypeOK).   *)
THEOREM WorkflowTypeCorrect == Spec => []TypeOK
<1>1. Inv => TypeOK
  BY DEF Inv, Base, TypeOK, WorkerOK
<1>2. QED
  BY <1>1, WorkflowInvariant, PTL

(* _checkpoint and resume(): the table never claims a step whose action    *)
(* has not returned, for any number of processes, threads and crashes.     *)
THEOREM CheckpointTruthfulHolds == Spec => []CheckpointTruthful
<1>1. Inv => CheckpointTruthful
  BY DEF Inv, Truth, CheckpointTruthful
<1>2. QED
  BY <1>1, WorkflowInvariant, PTL

(* register() accepted the definition, so _execute never comes to its      *)
(* "workflow deadlock" error: a pass over the steps always starts one.     *)
THEOREM NeverDeadlocksHolds == Spec => []NeverDeadlocks
<1>1. ASSUME Inv, NEW w \in Workers, At(w, "scan"), ~ worker[w].progressed
      PROVE  Runnable(w) # {}
  <2>1. /\ worker[w].def \in Submitted /\ Valid(worker[w].def)
        /\ worker[w].pos = 1 /\ worker[w].done \in SUBSET StepIds
        /\ Cardinality(worker[w].done) < Len(worker[w].def)
    BY <1>1 DEF Inv, Base, WorkerOK, WorkerState, At
  <2>2. PICK i \in DOMAIN worker[w].def :
          worker[w].def[i].id \notin worker[w].done
          /\ worker[w].def[i].deps \subseteq worker[w].done
    BY <2>1, SomethingIsRunnable
  <2>3. i >= 1
    BY <2>1, SubmittedAssumption
  <2>4. QED
    BY <2>1, <2>2, <2>3 DEF Runnable
<1>2. Inv => NeverDeadlocks
  BY <1>1 DEF NeverDeadlocks
<1>3. QED
  BY <1>2, WorkflowInvariant, PTL

(* A worker's step moves no other worker.                                  *)
LEMMA OthersStay ==
  ASSUME Inv, NEW v \in Workers, NEW w \in Workers, v # w,
         StartRun(v) \/ Resume(v) \/ Proceed(v)
  PROVE  worker'[w] = worker[w]
<1>1. worker \in [Workers -> WorkerState]
  BY DEF Inv, Base
<1>2. \A label : Goto(v, label) => worker'[w] = worker[w]
  BY <1>1 DEF Goto
<1>3. CASE StartRun(v) \/ Resume(v)
  BY <1>1, <1>3 DEF StartRun, Resume
<1>4. CASE FirstCheckpoint(v) \/ RestartCheckpoint(v) \/ EndPass(v) \/ StepRaises(v)
           \/ StepCheckpoint(v) \/ Complete(v)
  BY <1>2, <1>4 DEF FirstCheckpoint, RestartCheckpoint, EndPass, StepRaises,
                    StepCheckpoint, Complete
<1>5. CASE MergeStored(v) \/ ReadFails(v) \/ FinalCheckpoint(v)
  BY <1>1, <1>5 DEF MergeStored, ReadFails, FinalCheckpoint
<1>6. CASE BeginPass(v)
  BY <1>1, <1>2, <1>6 DEF BeginPass
<1>7. CASE StartStep(v) \/ StepReturns(v)
  BY <1>1, <1>7 DEF StartStep, StepReturns
<1>8. QED
  BY <1>3, <1>4, <1>5, <1>6, <1>7 DEF Proceed

(* Only StartStep takes a scanning worker to an action.                    *)
LEMMA OnlyStartStepActs ==
  ASSUME Inv, [Next]_vars, NEW w \in Workers,
         worker[w].pc = "scan", worker'[w].pc = "act"
  PROVE  StartStep(w)
<1>1. worker \in [Workers -> WorkerState]
  BY DEF Inv, Base
<1>2. CASE StartRun(w) \/ Resume(w) \/ Proceed(w)
  <2>1. ~ EndPass(w)
    <3>1. \A label : Goto(w, label) => worker'[w].pc = label
      BY <1>1 DEF Goto, WorkerState
    <3>2. QED
      BY <3>1 DEF EndPass
  <2>2. QED
    BY <1>2, <2>1 DEF Proceed, At, StartRun, Resume, FirstCheckpoint, MergeStored,
      ReadFails, RestartCheckpoint, BeginPass, StepReturns, StepRaises,
      StepCheckpoint, Complete, FinalCheckpoint
<1>3. ASSUME NEW v \in Workers, v # w, StartRun(v) \/ Resume(v) \/ Proceed(v)
      PROVE  FALSE
  BY <1>3, OthersStay
<1>4. ASSUME NEW e \in Engines, Crash(e) PROVE FALSE
  BY <1>4 DEF Crash, Idle, Entering
<1>5. ~ Register /\ ~ UNCHANGED vars
  BY DEF Register, vars
<1>6. QED
  BY <1>2, <1>3, <1>4, <1>5 DEF Next

(* _execute: whatever a step depends on has run before the step starts, in *)
(* whichever process, thread or life of a process it ran.                  *)
THEOREM DependenciesFirstHolds == Spec => DependenciesFirst
<1>1. ASSUME Inv, [Next]_vars, NEW w \in Workers, At(w, "scan"), worker'[w].pc = "act"
      PROVE  worker[w].def[worker'[w].pos].deps \subseteq ran
  <2>1. /\ worker \in [Workers -> WorkerState] /\ worker[w].pc = "scan"
        /\ worker[w].done \subseteq ran
    BY <1>1 DEF Inv, Base, Truth, At
  <2>2. StartStep(w)
    BY <1>1, <2>1, OnlyStartStepActs
  <2>3. PICK i \in Runnable(w) :
          worker' = [worker EXCEPT ![w].pc = "act", ![w].pos = i]
    BY <2>2 DEF StartStep
  <2>4. worker'[w].pos = i
    BY <2>1, <2>3 DEF WorkerState
  <2>5. QED
    BY <2>1, <2>4 DEF Runnable
<1>2. Inv /\ [Next]_vars =>
        [\A w \in Workers :
           (At(w, "scan") /\ worker'[w].pc = "act") =>
             worker[w].def[worker'[w].pos].deps \subseteq ran]_vars
  BY <1>1
<1>3. QED
  BY <1>2, WorkflowInvariant, PTL DEF Spec, DependenciesFirst

-----------------------------------------------------------------------------
(* Completion, while the registered definition does not change.            *)

(* Everybody works on the registered definition and claims only steps of   *)
(* it, so that counting the claimed steps tells whether all of them ran.   *)
Whole ==
  /\ reloads = 0
  /\ row.steps \subseteq Ids(definition)
  /\ \A e \in Engines :
       /\ run[e].results \subseteq Ids(definition)
       /\ run[e].state = "completed" => Ids(definition) \subseteq ran
  /\ \A w \in Workers :
       /\ worker[w].done \subseteq Ids(definition)
       /\ worker[w].pc # "idle" => worker[w].def = definition
       /\ worker[w].pc = "complete" => Ids(definition) \subseteq worker[w].done

LEMMA WholeParts ==
  ASSUME Inv, Whole, NEW w \in Workers
  PROVE  /\ worker \in [Workers -> WorkerState] /\ worker[w] \in WorkerState
         /\ row.steps \subseteq Ids(definition)
         /\ Object(w).results \subseteq Ids(definition)
         /\ worker[w].done \subseteq Ids(definition)
         /\ worker[w].done \subseteq ran
         /\ worker[w].pc # "idle" => worker[w].def = definition
BY EnginesAssumption DEF Inv, Base, Truth, Whole, Object

(* A step of one worker that leaves the objects alone.                     *)
LEMMA WholeWorker ==
  ASSUME Inv, Whole, NEW w \in Workers, NEW x,
         worker' = [worker EXCEPT ![w] = x],
         x.done \subseteq Ids(definition),
         x.pc # "idle" => x.def = definition,
         x.pc = "complete" => Ids(definition) \subseteq x.done,
         run' = run, ran \subseteq ran', row'.steps \subseteq Ids(definition),
         definition' = definition, reloads' = reloads
  PROVE  Whole'
<1>1. \A v \in Workers : worker'[v] = IF v = w THEN x ELSE worker[v]
  BY DEF Inv, Base
<1>2. QED
  BY <1>1 DEF Whole

(* A step of one worker that replaces its object.                          *)
LEMMA WholeObject ==
  ASSUME Inv, Whole, NEW w \in Workers, NEW x,
         worker' = [worker EXCEPT ![w] = x],
         x.done \subseteq Ids(definition),
         x.pc # "idle" => x.def = definition,
         x.pc = "complete" => Ids(definition) \subseteq x.done,
         NEW object, SetObject(w, object), object.results \subseteq Ids(definition),
         object.state = "completed" => Ids(definition) \subseteq ran,
         ran \subseteq ran', row'.steps \subseteq Ids(definition),
         definition' = definition, reloads' = reloads
  PROVE  Whole'
<1>1. \A v \in Workers : worker'[v] = IF v = w THEN x ELSE worker[v]
  BY DEF Inv, Base
<1>2. \A e \in Engines : run'[e] = IF e = EngineOf[w] THEN object ELSE run[e]
  BY DEF Inv, Base, SetObject
<1>3. QED
  BY <1>1, <1>2 DEF Whole

LEMMA WholeRow ==
  ASSUME Inv, Whole, NEW w \in Workers, NEW st, NEW steps \in SUBSET Ids(definition),
         CheckpointRow(w, st, steps)
  PROVE  row'.steps \subseteq Ids(definition)
BY DEF Whole, CheckpointRow, Upsert, UpsertFails

LEMMA WholeGoto ==
  ASSUME Inv, Whole, NEW w \in Workers, worker[w].pc # "idle", NEW label,
         label # "complete", Goto(w, label)
  PROVE  \E x : /\ worker' = [worker EXCEPT ![w] = x]
                /\ x.done \subseteq Ids(definition)
                /\ x.pc # "idle" => x.def = definition
                /\ x.pc = "complete" => Ids(definition) \subseteq x.done
<1> DEFINE x == [worker[w] EXCEPT !.pc = label]
<1>1. worker' = [worker EXCEPT ![w] = x]
  BY GotoIs
<1>2. x.done = worker[w].done /\ x.def = worker[w].def /\ x.pc = label
  BY WholeParts DEF WorkerState
<1> HIDE DEF x
<1>3. QED
  BY <1>1, <1>2, WholeParts

(* When as many steps are done as the definition has, all of them are.     *)
LEMMA AllCounted ==
  ASSUME Inv, Whole, NEW done \in SUBSET Ids(definition),
         ~ Cardinality(done) < Len(definition)
  PROVE  done = Ids(definition)
<1>1. definition \in Submitted /\ Valid(definition)
  BY DEF Inv, Base
<1>2. IsFiniteSet(Ids(definition)) /\ Cardinality(Ids(definition)) = Len(definition)
  BY <1>1, IdsCounted
<1>3. /\ Cardinality(done) \in Nat /\ Cardinality(Ids(definition)) \in Nat
      /\ Cardinality(done) <= Cardinality(Ids(definition))
      /\ Cardinality(done) = Cardinality(Ids(definition)) => done = Ids(definition)
  BY <1>2, FS_Subset, FS_CardinalityType
<1>4. QED
  BY <1>2, <1>3

LEMMA WholeEnter ==
  ASSUME Inv, Whole, NEW w \in Workers, StartRun(w) \/ Resume(w)
  PROVE  Whole'
<1>1. UNCHANGED <<definition, row, ran, faults, reloads>>
  BY DEF StartRun, Resume
<1>2. PICK object, label :
        /\ SetObject(w, object) /\ object.results \subseteq Ids(definition)
        /\ object.state # "completed" /\ label # "complete"
        /\ worker' = [worker EXCEPT ![w] = Entering(label, definition, object.results)]
  <2>1. CASE StartRun(w)
    <3> DEFINE object == [state |-> "pending", results |-> {}]
    <3>1. object.results = {} /\ object.state # "completed"
      OBVIOUS
    <3>2. QED
      BY <2>1, <3>1 DEF StartRun
  <2>2. CASE Resume(w)
    <3>1. PICK object :
            /\ object = IF Object(w).state # "absent" THEN Object(w)
                        ELSE [state |-> row.state, results |-> row.steps]
            /\ object.state # "completed" /\ SetObject(w, object)
            /\ worker' = [worker EXCEPT ![w] =
                           Entering("merge", definition, object.results)]
      BY <2>2 DEF Resume
    <3>2. object.results \subseteq Ids(definition)
      BY <3>1, WholeParts
    <3>3. QED
      BY <3>1, <3>2
  <2>3. QED
    BY <2>1, <2>2
<1> DEFINE x == Entering(label, definition, object.results)
<1>3. x.done = object.results /\ x.def = definition /\ x.pc = label
  BY DEF Entering
<1>4. worker' = [worker EXCEPT ![w] = x]
  BY <1>2
<1> HIDE DEF x
<1>5. row'.steps \subseteq Ids(definition)
  BY <1>1, WholeParts
<1>6. QED
  BY <1>1, <1>2, <1>3, <1>4, <1>5, WholeObject

LEMMA WholeCheckpoint ==
  ASSUME Inv, Whole, NEW w \in Workers,
         \/ FirstCheckpoint(w) \/ RestartCheckpoint(w)
         \/ StepCheckpoint(w) \/ FinalCheckpoint(w)
  PROVE  Whole'
<1>1. CASE FirstCheckpoint(w)
  <2> DEFINE object == [Object(w) EXCEPT !.state = "running"]
  <2>1. /\ worker[w].pc = "start" /\ SetObject(w, object) /\ Goto(w, "pass")
        /\ CheckpointRow(w, "running", Object(w).results)
        /\ UNCHANGED <<definition, ran, reloads>>
    BY <1>1 DEF FirstCheckpoint, At
  <2>2. object.results = Object(w).results /\ object.state = "running"
    BY ObjectTypes DEF Run
  <2> HIDE DEF object
  <2>3. row'.steps \subseteq Ids(definition)
    BY <2>1, WholeParts, WholeRow
  <2>4. QED
    BY <2>1, <2>2, <2>3, WholeParts, WholeGoto, WholeObject
<1>2. CASE RestartCheckpoint(w)
  <2> DEFINE steps == Object(w).results \cup worker[w].done
             object == [state |-> "running", results |-> steps]
  <2>1. /\ worker[w].pc = "restart" /\ SetObject(w, object) /\ Goto(w, "pass")
        /\ CheckpointRow(w, "running", steps)
        /\ UNCHANGED <<definition, ran, reloads>>
    BY <1>2 DEF RestartCheckpoint, At
  <2>2. object.results = steps /\ object.state = "running"
        /\ steps \in SUBSET Ids(definition)
    BY WholeParts
  <2> HIDE DEF object, steps
  <2>3. row'.steps \subseteq Ids(definition)
    BY <2>1, <2>2, WholeRow
  <2>4. QED
    BY <2>1, <2>2, <2>3, WholeGoto, WholeObject
<1>3. CASE StepCheckpoint(w)
  <2> DEFINE steps == Object(w).results \cup worker[w].done
  <2>1. /\ worker[w].pc = "checkpoint" /\ Goto(w, "scan")
        /\ CheckpointRow(w, Object(w).state, steps)
        /\ UNCHANGED <<definition, run, ran, reloads>>
    BY <1>3 DEF StepCheckpoint, At
  <2>2. steps \in SUBSET Ids(definition)
    BY WholeParts
  <2> HIDE DEF steps
  <2>3. row'.steps \subseteq Ids(definition)
    BY <2>1, <2>2, WholeRow
  <2>4. QED
    BY <2>1, <2>3, WholeGoto, WholeWorker
<1>4. CASE FinalCheckpoint(w)
  <2>1. /\ worker' = [worker EXCEPT ![w] = Idle]
        /\ CheckpointRow(w, Object(w).state, Object(w).results)
        /\ UNCHANGED <<definition, run, ran, reloads>>
    BY <1>4 DEF FinalCheckpoint
  <2>2. row'.steps \subseteq Ids(definition)
    BY <2>1, WholeParts, WholeRow
  <2>3. Idle.done = {} /\ Idle.pc = "idle"
    BY DEF Idle, Entering
  <2>4. QED
    BY <2>1, <2>2, <2>3, WholeWorker
<1>5. QED
  BY <1>1, <1>2, <1>3, <1>4

LEMMA WholeLocal ==
  ASSUME Inv, Whole, NEW w \in Workers,
         MergeStored(w) \/ ReadFails(w) \/ BeginPass(w) \/ StartStep(w)
  PROVE  Whole'
<1>1. /\ UNCHANGED <<definition, row, run, ran, reloads>>
      /\ row'.steps \subseteq Ids(definition)
  BY WholeParts DEF MergeStored, ReadFails, BeginPass, StartStep
<1>2. \E x : /\ worker' = [worker EXCEPT ![w] = x]
             /\ x.done \subseteq Ids(definition)
             /\ x.pc # "idle" => x.def = definition
             /\ x.pc = "complete" => Ids(definition) \subseteq x.done
  <2>1. CASE MergeStored(w)
    <3> DEFINE x == [worker[w] EXCEPT !.pc = "restart", !.done = @ \cup row.steps]
    <3>1. worker' = [worker EXCEPT ![w] = x] /\ worker[w].pc = "merge"
      BY <2>1, WholeParts DEF MergeStored, At
    <3>2. /\ x.pc = "restart" /\ x.def = worker[w].def
          /\ x.done = worker[w].done \cup row.steps
      BY WholeParts DEF WorkerState
    <3> HIDE DEF x
    <3>3. QED
      BY <3>1, <3>2, WholeParts
  <2>2. CASE ReadFails(w)
    <3>1. worker' = [worker EXCEPT ![w] = Idle]
      BY <2>2 DEF ReadFails
    <3>2. Idle.done = {} /\ Idle.pc = "idle"
      BY DEF Idle, Entering
    <3>3. QED
      BY <3>1, <3>2
  <2>3. CASE BeginPass(w) /\ Cardinality(worker[w].done) < Len(worker[w].def)
    <3> DEFINE x == [worker[w] EXCEPT !.pc = "scan", !.pos = 1, !.progressed = FALSE]
    <3>1. worker' = [worker EXCEPT ![w] = x] /\ worker[w].pc = "pass"
      BY <2>3, WholeParts DEF BeginPass, At
    <3>2. x.pc = "scan" /\ x.def = worker[w].def /\ x.done = worker[w].done
      BY WholeParts DEF WorkerState
    <3> HIDE DEF x
    <3>3. QED
      BY <3>1, <3>2, WholeParts
  <2>4. CASE BeginPass(w) /\ ~ Cardinality(worker[w].done) < Len(worker[w].def)
    <3> DEFINE x == [worker[w] EXCEPT !.pc = "complete"]
    <3>1. worker' = [worker EXCEPT ![w] = x] /\ worker[w].pc = "pass"
      BY <2>4, GotoIs DEF BeginPass, At
    <3>2. x.pc = "complete" /\ x.def = worker[w].def /\ x.done = worker[w].done
      BY WholeParts DEF WorkerState
    <3>3. worker[w].def = definition /\ worker[w].done \in SUBSET Ids(definition)
      BY <3>1, WholeParts
    <3>4. worker[w].done = Ids(definition)
      BY <2>4, <3>3, AllCounted
    <3> HIDE DEF x
    <3>5. QED
      BY <3>1, <3>2, <3>3, <3>4
  <2>5. CASE StartStep(w)
    <3>1. PICK i : worker' = [worker EXCEPT ![w].pc = "act", ![w].pos = i]
      BY <2>5 DEF StartStep
    <3> DEFINE x == [worker[w] EXCEPT !.pc = "act", !.pos = i]
    <3>2. worker' = [worker EXCEPT ![w] = x] /\ worker[w].pc = "scan"
      BY <2>5, <3>1, WholeParts DEF StartStep, At
    <3>3. x.pc = "act" /\ x.def = worker[w].def /\ x.done = worker[w].done
      BY WholeParts DEF WorkerState
    <3> HIDE DEF x
    <3>4. QED
      BY <3>2, <3>3, WholeParts
  <2>6. QED
    BY <2>1, <2>2, <2>3, <2>4, <2>5
<1>3. QED
  BY <1>1, <1>2, WholeWorker

LEMMA WholeObjectSteps ==
  ASSUME Inv, Whole, NEW w \in Workers,
         EndPass(w) \/ StepReturns(w) \/ StepRaises(w) \/ Complete(w)
  PROVE  Whole'
<1>1. /\ UNCHANGED <<definition, row, reloads>>
      /\ row'.steps \subseteq Ids(definition)
  BY WholeParts DEF EndPass, StepReturns, StepRaises, Complete
<1>2. CASE EndPass(w) /\ Goto(w, "pass") /\ UNCHANGED run
  <2>1. worker[w].pc = "scan" /\ ran' = ran
    BY <1>2 DEF EndPass, At
  <2>2. QED
    BY <1>1, <1>2, <2>1, WholeGoto, WholeWorker
<1>3. ASSUME NEW st \in {"failed", "completed"}, Goto(w, "final"), ran' = ran,
             worker[w].pc # "idle", SetObject(w, [Object(w) EXCEPT !.state = st]),
             st = "completed" => worker[w].pc = "complete"
      PROVE  Whole'
  <2> DEFINE object == [Object(w) EXCEPT !.state = st]
  <2>1. object.results = Object(w).results /\ object.state = st
    BY ObjectTypes DEF Run
  <2>2. object.state = "completed" => Ids(definition) \subseteq ran
    BY <1>3, <2>1, WholeParts DEF Whole
  <2>3. SetObject(w, object)
    BY <1>3
  <2> HIDE DEF object
  <2>4. QED
    BY <1>1, <1>3, <2>1, <2>2, <2>3, WholeParts, WholeGoto, WholeObject
<1>4. CASE StepReturns(w)
  <2> DEFINE s == Step(w).id
             x == [worker[w] EXCEPT !.pc = "checkpoint", !.done = @ \cup {s},
                                    !.progressed = TRUE]
             object == [Object(w) EXCEPT !.results = @ \cup {s}]
  <2>1. /\ worker[w].pc = "act" /\ ran' = ran \cup {s} /\ SetObject(w, object)
        /\ worker' = [worker EXCEPT ![w] = x]
    BY <1>4, WholeParts DEF StepReturns, At
  <2>2. s \in Ids(definition)
    <3>1. worker[w].def = definition /\ worker[w].pos \in DOMAIN worker[w].def
      BY <2>1, WholeParts, SameParts DEF WorkerOK
    <3>2. QED
      BY <3>1 DEF Step, Ids
  <2> HIDE DEF s
  <2>3. /\ x.pc = "checkpoint" /\ x.def = worker[w].def
        /\ x.done = worker[w].done \cup {s}
    BY WholeParts DEF WorkerState
  <2>4. object.results = Object(w).results \cup {s} /\ object.state = Object(w).state
    BY ObjectTypes DEF Run
  <2>5. object.state = "completed" => Ids(definition) \subseteq ran
    BY <2>4, EnginesAssumption DEF Whole, Object
  <2> HIDE DEF x, object
  <2>6. QED
    BY <1>1, <2>1, <2>2, <2>3, <2>4, <2>5, WholeParts, WholeObject
<1>5. QED
  <2>1. ASSUME EndPass(w) \/ StepRaises(w), ~ (Goto(w, "pass") /\ UNCHANGED run)
        PROVE  /\ Goto(w, "final") /\ ran' = ran /\ worker[w].pc # "idle"
               /\ SetObject(w, [Object(w) EXCEPT !.state = "failed"])
    BY <2>1 DEF EndPass, StepRaises, At
  <2>2. Complete(w) =>
          /\ Goto(w, "final") /\ ran' = ran /\ worker[w].pc = "complete"
          /\ SetObject(w, [Object(w) EXCEPT !.state = "completed"])
    BY DEF Complete, At
  <2>3. ~ (StepRaises(w) /\ Goto(w, "pass"))
    BY WholeParts DEF StepRaises, Goto, WorkerState
  <2>4. QED
    BY <1>2, <1>3, <1>4, <2>1, <2>2, <2>3

(* The workflow is never registered again, or there is nothing else that   *)
(* register() would accept.                                                *)
OneDefinition == \A d1, d2 \in Submitted : Valid(d1) /\ Valid(d2) => d1 = d2
Settled == MaxReloads = 0 \/ OneDefinition

LEMMA WholeNext ==
  ASSUME Settled, Inv, Whole, [Next]_vars
  PROVE  Whole'
<1>1. ASSUME NEW w \in Workers, StartRun(w) \/ Resume(w) \/ Proceed(w) PROVE Whole'
  BY <1>1, WholeEnter, WholeCheckpoint, WholeLocal, WholeObjectSteps DEF Proceed
<1>2. ASSUME NEW e \in Engines, Crash(e) PROVE Whole'
  <2> DEFINE gone == [state |-> "absent", results |-> {}]
  <2>1. /\ run' = [run EXCEPT ![e] = gone]
        /\ worker' = [w \in Workers |-> IF EngineOf[w] = e THEN Idle ELSE worker[w]]
        /\ UNCHANGED <<definition, row, ran, reloads>>
    BY <1>2 DEF Crash
  <2>2. gone.results = {} /\ gone.state = "absent"
    OBVIOUS
  <2>3. Idle.done = {} /\ Idle.pc = "idle"
    BY DEF Idle, Entering
  <2> HIDE DEF gone
  <2>4. \A f \in Engines : run'[f] = IF f = e THEN gone ELSE run[f]
    BY <2>1 DEF Inv, Base
  <2>5. QED
    BY <2>1, <2>2, <2>3, <2>4 DEF Whole
<1>3. CASE UNCHANGED vars
  BY <1>3 DEF vars, Whole
<1>4. ~ Register
  BY WorkflowBounds DEF Register, Whole, Settled, OneDefinition, Inv, Base
<1>5. QED
  BY <1>1, <1>2, <1>3, <1>4 DEF Next

LEMMA WholeInvariant ==
  ASSUME Settled PROVE Spec => []Whole
<1>1. Init => Whole
  BY DEF Init, Whole, Idle, Entering
<1>2. Inv /\ Whole /\ [Next]_vars => Whole'
  BY WholeNext
<1>3. QED
  BY <1>1, <1>2, WorkflowInvariant, PTL DEF Spec

(* run() and resume(): while the registered definition does not change, a  *)
(* run that ends as COMPLETED has run every step, for any number of        *)
(* processes, threads and crashes.                                         *)
THEOREM NothingLeftHolds ==
  ASSUME Settled
  PROVE  Spec => []NothingLeft
<1>1. Whole => NothingLeft
  BY EnginesAssumption DEF Whole, NothingLeft, At, Object
<1>2. QED
  BY <1>1, WholeInvariant, PTL


-----------------------------------------------------------------------------
(* One worker.  A second one may write the row from an object or a local   *)
(* set that has missed the first one's steps, so what follows is stated    *)
(* for a run that one thread at a time works on, in any number of lives.   *)

OneWorker == \E w : Workers = {w}

(* The row r, the object o of its engine and the worker x agree: past      *)
(* resume()'s merge the worker knows every recorded step, past its first   *)
(* checkpoint the object has exactly the worker's steps, and nobody works  *)
(* on a run recorded as completed.                                         *)
Agree(r, o, x) ==
  /\ r.state = "absent" => r.steps = {}
  /\ r.state = "completed" => x.pc = "idle" /\ o.state \in {"absent", "completed"}
  /\ x.pc = "start" => r.state = "absent"
  /\ x.pc \notin {"idle", "merge"} => r.steps \subseteq x.done
  /\ x.pc # "idle" => o.results \subseteq x.done
  /\ x.pc \notin {"idle", "merge", "restart"} => x.done \subseteq o.results
  /\ x.pc \in {"pass", "scan", "act", "checkpoint", "complete"} => o.state = "running"
  /\ x.pc = "final" => o.state \in {"failed", "completed"}

Agreed(w) == Agree(row, Object(w), worker[w])

LEMMA ObjectIs ==
  ASSUME Inv, NEW w \in Workers, NEW object, SetObject(w, object)
  PROVE  Object(w)' = object
BY EnginesAssumption DEF Inv, Base, SetObject, Object

LEMMA GotoParts ==
  ASSUME Inv, NEW w \in Workers, NEW label, Goto(w, label)
  PROVE  worker'[w].pc = label /\ worker'[w].done = worker[w].done
BY DEF Inv, Base, Goto, WorkerState

LEMMA ObjectStateSet ==
  ASSUME Inv, NEW w \in Workers, NEW st,
         SetObject(w, [Object(w) EXCEPT !.state = st])
  PROVE  Object(w)'.state = st /\ Object(w)'.results = Object(w).results
BY ObjectIs, ObjectTypes DEF Run

(* The row after a checkpoint that may fail.                               *)
LEMMA RowIs ==
  ASSUME NEW w, NEW st, NEW steps, CheckpointRow(w, st, steps)
  PROVE  row' = row \/ (row'.state = st /\ row'.steps = steps)
BY DEF CheckpointRow, Upsert, UpsertFails

LEMMA AgreedEnter ==
  ASSUME Inv, NEW w \in Workers, Agreed(w), StartRun(w) \/ Resume(w)
  PROVE  Agreed(w)'
<1>1. CASE StartRun(w)
  <2>1. /\ worker'[w].pc = "start" /\ worker'[w].done = {}
        /\ Object(w)'.results = {} /\ row' = row /\ row.state = "absent"
    BY <1>1, ObjectIs DEF StartRun, Inv, Base, Entering
  <2>2. QED
    BY <2>1 DEF Agreed, Agree
<1>2. CASE Resume(w)
  <2>1. PICK object :
          /\ object = IF Object(w).state # "absent" THEN Object(w)
                      ELSE [state |-> row.state, results |-> row.steps]
          /\ object.state # "completed" /\ SetObject(w, object)
          /\ worker' = [worker EXCEPT ![w] =
                         Entering("merge", definition, object.results)]
          /\ row' = row
    BY <1>2 DEF Resume
  <2>2. worker'[w].pc = "merge" /\ worker'[w].done = object.results
    BY <2>1 DEF Inv, Base, Entering
  <2>3. Object(w)' = object
    BY <2>1, ObjectIs
  <2>4. row.state # "completed"
    BY <2>1 DEF Agreed, Agree
  <2>5. QED
    BY <2>1, <2>2, <2>3, <2>4 DEF Agreed, Agree
<1>3. QED
  BY <1>1, <1>2

LEMMA AgreedCheckpoint ==
  ASSUME Inv, NEW w \in Workers, Agreed(w),
         \/ FirstCheckpoint(w) \/ RestartCheckpoint(w)
         \/ StepCheckpoint(w) \/ FinalCheckpoint(w)
  PROVE  Agreed(w)'
<1>1. CASE FirstCheckpoint(w)
  <2>1. /\ worker[w].pc = "start"
        /\ worker'[w].pc = "pass" /\ worker'[w].done = worker[w].done
        /\ Object(w)'.state = "running" /\ Object(w)'.results = Object(w).results
    BY <1>1, GotoParts, ObjectStateSet DEF FirstCheckpoint, At
  <2>2. row' = row \/ (row'.state = "running" /\ row'.steps = Object(w).results)
    BY <1>1, RowIs DEF FirstCheckpoint
  <2>3. QED
    BY <2>1, <2>2 DEF Agreed, Agree
<1>2. CASE RestartCheckpoint(w)
  <2> DEFINE steps == Object(w).results \cup worker[w].done
  <2>1. /\ worker[w].pc = "restart"
        /\ worker'[w].pc = "pass" /\ worker'[w].done = worker[w].done
        /\ Object(w)'.state = "running" /\ Object(w)'.results = steps
    BY <1>2, GotoParts, ObjectIs DEF RestartCheckpoint, At
  <2>2. row' = row \/ (row'.state = "running" /\ row'.steps = steps)
    BY <1>2, RowIs DEF RestartCheckpoint
  <2>3. QED
    BY <2>1, <2>2 DEF Agreed, Agree
<1>3. CASE StepCheckpoint(w)
  <2> DEFINE steps == Object(w).results \cup worker[w].done
  <2>1. /\ worker[w].pc = "checkpoint"
        /\ worker'[w].pc = "scan" /\ worker'[w].done = worker[w].done
        /\ Object(w)' = Object(w)
    BY <1>3, GotoParts DEF StepCheckpoint, At, Object
  <2>2. row' = row \/ (row'.state = Object(w).state /\ row'.steps = steps)
    BY <1>3, RowIs DEF StepCheckpoint
  <2>3. QED
    BY <2>1, <2>2 DEF Agreed, Agree
<1>4. CASE FinalCheckpoint(w)
  <2>1. /\ worker[w].pc = "final" /\ worker'[w].pc = "idle"
        /\ Object(w)' = Object(w)
    BY <1>4 DEF FinalCheckpoint, At, Object, Inv, Base, Idle, Entering
  <2>2. row' = row \/ (row'.state = Object(w).state /\ row'.steps = Object(w).results)
    BY <1>4, RowIs DEF FinalCheckpoint
  <2>3. QED
    BY <2>1, <2>2 DEF Agreed, Agree
<1>5. QED
  BY <1>1, <1>2, <1>3, <1>4

LEMMA AgreedLocal ==
  ASSUME Inv, NEW w \in Workers, Agreed(w),
         MergeStored(w) \/ ReadFails(w) \/ BeginPass(w) \/ StartStep(w)
  PROVE  Agreed(w)'
<1>1. row' = row /\ Object(w)' = Object(w)
  BY DEF MergeStored, ReadFails, BeginPass, StartStep, Object
<1>2. worker \in [Workers -> WorkerState]
  BY DEF Inv, Base
<1>3. CASE MergeStored(w)
  <2>1. /\ worker[w].pc = "merge" /\ worker'[w].pc = "restart"
        /\ worker'[w].done = worker[w].done \cup row.steps
    BY <1>2, <1>3 DEF MergeStored, At, WorkerState
  <2>2. QED
    BY <1>1, <2>1 DEF Agreed, Agree
<1>4. CASE ReadFails(w)
  <2>1. worker[w].pc = "merge" /\ worker'[w].pc = "idle"
    BY <1>2, <1>4 DEF ReadFails, At, Idle, Entering
  <2>2. QED
    BY <1>1, <2>1 DEF Agreed, Agree
<1>5. CASE BeginPass(w) \/ StartStep(w)
  <2>1. /\ worker[w].pc \in {"pass", "scan"}
        /\ worker'[w].pc \in {"scan", "complete", "act"}
        /\ worker'[w].done = worker[w].done
    <3>1. CASE BeginPass(w)
      BY <1>2, <3>1, GotoParts DEF BeginPass, At, WorkerState
    <3>2. CASE StartStep(w)
      BY <1>2, <3>2 DEF StartStep, At, WorkerState
    <3>3. QED
      BY <1>5, <3>1, <3>2
  <2>2. QED
    BY <1>1, <2>1 DEF Agreed, Agree
<1>6. QED
  BY <1>3, <1>4, <1>5

LEMMA AgreedObjectSteps ==
  ASSUME Inv, NEW w \in Workers, Agreed(w),
         EndPass(w) \/ StepReturns(w) \/ StepRaises(w) \/ Complete(w)
  PROVE  Agreed(w)'
<1>1. row' = row
  BY DEF EndPass, StepReturns, StepRaises, Complete
<1>2. CASE EndPass(w) /\ Goto(w, "pass") /\ UNCHANGED run
  <2>1. /\ worker[w].pc = "scan" /\ worker'[w].pc = "pass"
        /\ worker'[w].done = worker[w].done /\ Object(w)' = Object(w)
    BY <1>2, GotoParts DEF EndPass, At, Object
  <2>2. QED
    BY <1>1, <2>1 DEF Agreed, Agree
<1>3. ASSUME NEW st \in {"failed", "completed"}, Goto(w, "final"),
             worker[w].pc \in {"scan", "act", "complete"},
             SetObject(w, [Object(w) EXCEPT !.state = st])
      PROVE  Agreed(w)'
  <2>1. /\ worker'[w].pc = "final" /\ worker'[w].done = worker[w].done
        /\ Object(w)'.state = st /\ Object(w)'.results = Object(w).results
    BY <1>3, GotoParts, ObjectStateSet
  <2>2. QED
    BY <1>1, <1>3, <2>1 DEF Agreed, Agree
<1>4. CASE StepReturns(w)
  <2> DEFINE s == Step(w).id
  <2>1. /\ worker[w].pc = "act" /\ worker'[w].pc = "checkpoint"
        /\ worker'[w].done = worker[w].done \cup {s}
    BY <1>4 DEF StepReturns, At, Inv, Base, WorkerState
  <2>2. Object(w)'.state = Object(w).state /\ Object(w)'.results = Object(w).results \cup {s}
    BY <1>4, ObjectIs, ObjectTypes DEF StepReturns, Run
  <2>3. QED
    BY <1>1, <2>1, <2>2 DEF Agreed, Agree
<1>5. QED
  <2>1. CASE EndPass(w)
    BY <1>2, <1>3, <2>1 DEF EndPass, At
  <2>2. CASE StepRaises(w)
    BY <1>3, <2>2 DEF StepRaises, At
  <2>3. CASE Complete(w)
    BY <1>3, <2>3 DEF Complete, At
  <2>4. QED
    BY <1>4, <2>1, <2>2, <2>3

LEMMA AgreedNext ==
  ASSUME OneWorker, Inv, \A w \in Workers : Agreed(w), [Next]_vars
  PROVE  \A w \in Workers : Agreed(w)'
<1>1. SUFFICES ASSUME NEW w \in Workers PROVE Agreed(w)'
  OBVIOUS
<1>2. \A v \in Workers : v = w
  BY DEF OneWorker
<1>3. CASE StartRun(w) \/ Resume(w) \/ Proceed(w)
  BY <1>3, AgreedEnter, AgreedCheckpoint, AgreedLocal, AgreedObjectSteps DEF Proceed
<1>4. ASSUME NEW e \in Engines, Crash(e) PROVE Agreed(w)'
  <2>1. CASE EngineOf[w] = e
    <3>1. worker'[w].pc = "idle" /\ Object(w)'.state = "absent" /\ row' = row
      BY <1>4, <2>1, EnginesAssumption DEF Crash, Idle, Entering, Object, Inv, Base
    <3>2. QED
      BY <3>1 DEF Agreed, Agree
  <2>2. CASE EngineOf[w] # e
    <3>1. worker'[w] = worker[w] /\ Object(w)' = Object(w) /\ row' = row
      BY <1>4, <2>2, EnginesAssumption DEF Crash, Object, Inv, Base
    <3>2. QED
      BY <3>1 DEF Agreed
  <2>3. QED
    BY <2>1, <2>2
<1>5. CASE Register \/ UNCHANGED vars
  <2>1. worker'[w] = worker[w] /\ Object(w)' = Object(w) /\ row' = row
    BY <1>5 DEF Register, vars, Object
  <2>2. QED
    BY <2>1 DEF Agreed
<1>6. QED
  BY <1>2, <1>3, <1>4, <1>5 DEF Next

LEMMA AgreedInvariant ==
  ASSUME OneWorker PROVE Spec => [](\A w \in Workers : Agreed(w))
<1>1. Init => \A w \in Workers : Agreed(w)
  BY EnginesAssumption DEF Init, Agreed, Agree, Object, Idle, Entering
<1>2. Inv /\ (\A w \in Workers : Agreed(w)) /\ [Next]_vars => (\A w \in Workers : Agreed(w))'
  BY AgreedNext
<1>3. QED
  BY <1>1, <1>2, WorkflowInvariant, PTL DEF Spec

(* resume(): a step recorded as completed is not run again, whatever       *)
(* crashed and however often the workflow was edited in between.           *)
THEOREM CompletedStepsAreSkippedHolds ==
  ASSUME OneWorker PROVE Spec => CompletedStepsAreSkipped
<1> DEFINE Skips ==
      \A w \in Workers :
        (At(w, "scan") /\ worker'[w].pc = "act") =>
          worker[w].def[worker'[w].pos].id \notin row.steps
<1>1. Inv /\ (\A w \in Workers : Agreed(w)) /\ [Next]_vars => Skips
  <2> SUFFICES ASSUME Inv, [Next]_vars, NEW w \in Workers, Agreed(w),
                      At(w, "scan"), worker'[w].pc = "act"
               PROVE  worker[w].def[worker'[w].pos].id \notin row.steps
    OBVIOUS
  <2>1. worker \in [Workers -> WorkerState] /\ worker[w].pc = "scan"
    BY DEF Inv, Base, At
  <2>2. PICK i \in Runnable(w) :
          worker' = [worker EXCEPT ![w].pc = "act", ![w].pos = i]
    BY <2>1, OnlyStartStepActs DEF StartStep
  <2>3. worker'[w].pos = i
    BY <2>1, <2>2 DEF WorkerState
  <2>4. row.steps \subseteq worker[w].done
    BY <2>1 DEF Agreed, Agree
  <2>5. QED
    BY <2>3, <2>4 DEF Runnable
<1>2. QED
  BY <1>1, AgreedInvariant, WorkflowInvariant, PTL DEF Spec, CompletedStepsAreSkipped


(* A run recorded as completed is never reopened while one worker at a     *)
(* time works on it (run, resume, _checkpoint), whatever is registered.    *)
THEOREM CompletedIsFinalHolds ==
  ASSUME OneWorker PROVE Spec => CompletedIsFinal
<1>1. ASSUME Inv, \A w \in Workers : Agreed(w), [Next]_vars, row.state = "completed"
      PROVE  UNCHANGED row
  <2>1. \A w \in Workers : worker[w].pc = "idle"
    BY <1>1 DEF Agreed, Agree
  <2>2. \A w \in Workers : ~ Proceed(w)
    BY <2>1 DEF Proceed, At, FirstCheckpoint, MergeStored, ReadFails,
       RestartCheckpoint, BeginPass, StartStep, EndPass, StepReturns, StepRaises,
       StepCheckpoint, Complete, FinalCheckpoint
  <2>3. QED
    BY <1>1, <2>2 DEF Next, StartRun, Resume, Crash, Register, vars
<1>2. Inv /\ (\A w \in Workers : Agreed(w)) /\ [Next]_vars =>
        (row.state = "completed" => UNCHANGED row)
  BY <1>1
<1>3. QED
  BY <1>2, AgreedInvariant, WorkflowInvariant, PTL DEF Spec, CompletedIsFinal

-----------------------------------------------------------------------------
(* Refinement: with one worker and one definition to register, the row is  *)
(* what WorkflowContract promises.                                         *)

(* A set of steps that respects the dependencies.                          *)
Closed(def, done) ==
  \A i \in DOMAIN def : def[i].id \in done => def[i].deps \subseteq done

(* All records of done steps are closed, a step that runs may run, and a   *)
(* run about to be recorded as completed has all of them.                  *)
Orderly(def, r, o, x) ==
  /\ Closed(def, r.steps) /\ Closed(def, o.results) /\ Closed(def, x.done)
  /\ x.pc = "act" => x.def[x.pos].deps \subseteq x.done
  /\ (x.pc = "final" /\ o.state = "completed") => Ids(def) \subseteq x.done

InOrder(w) == Orderly(definition, row, Object(w), worker[w])

LEMMA ClosedSets ==
  ASSUME NEW def
  PROVE  /\ Closed(def, {})
         /\ \A S, T : Closed(def, S) /\ Closed(def, T) => Closed(def, S \cup T)
BY DEF Closed

(* A step that may run keeps the set closed.                               *)
LEMMA ClosedStep ==
  ASSUME NEW def, Valid(def), NEW i \in DOMAIN def, NEW done,
         Closed(def, done), def[i].deps \subseteq done
  PROVE  Closed(def, done \cup {def[i].id})
<1>1. \A j \in DOMAIN def : def[j].id = def[i].id => j = i
  BY DEF Valid
<1>2. QED
  BY <1>1 DEF Closed

LEMMA InOrderEnter ==
  ASSUME Inv, NEW w \in Workers, InOrder(w), StartRun(w) \/ Resume(w)
  PROVE  InOrder(w)'
<1>1. definition' = definition /\ row' = row
  BY DEF StartRun, Resume
<1>2. CASE StartRun(w)
  <2>1. /\ worker'[w].pc = "start" /\ worker'[w].done = {} /\ Object(w)'.results = {}
    BY <1>2, ObjectIs DEF StartRun, Inv, Base, Entering
  <2>2. QED
    BY <1>1, <2>1, ClosedSets DEF InOrder, Orderly
<1>3. CASE Resume(w)
  <2>1. PICK object :
          /\ object = IF Object(w).state # "absent" THEN Object(w)
                      ELSE [state |-> row.state, results |-> row.steps]
          /\ SetObject(w, object)
          /\ worker' = [worker EXCEPT ![w] =
                         Entering("merge", definition, object.results)]
    BY <1>3 DEF Resume
  <2>2. worker'[w].pc = "merge" /\ worker'[w].done = object.results
    BY <2>1 DEF Inv, Base, Entering
  <2>3. Object(w)' = object /\ Closed(definition, object.results)
    BY <2>1, ObjectIs DEF InOrder, Orderly
  <2>4. QED
    BY <1>1, <2>2, <2>3 DEF InOrder, Orderly
<1>4. QED
  BY <1>2, <1>3

LEMMA InOrderCheckpoint ==
  ASSUME Inv, NEW w \in Workers, InOrder(w),
         \/ FirstCheckpoint(w) \/ RestartCheckpoint(w)
         \/ StepCheckpoint(w) \/ FinalCheckpoint(w)
  PROVE  InOrder(w)'
<1> DEFINE steps == Object(w).results \cup worker[w].done
<1>1. definition' = definition
  BY DEF FirstCheckpoint, RestartCheckpoint, StepCheckpoint, FinalCheckpoint
<1>2. Closed(definition, steps) /\ Closed(definition, {})
  BY ClosedSets DEF InOrder, Orderly
<1>3. CASE FirstCheckpoint(w)
  <2>1. /\ worker'[w].pc = "pass" /\ worker'[w].done = worker[w].done
        /\ Object(w)'.results = Object(w).results
    BY <1>3, GotoParts, ObjectStateSet DEF FirstCheckpoint
  <2>2. row' = row \/ row'.steps = Object(w).results
    BY <1>3, RowIs DEF FirstCheckpoint
  <2>3. QED
    BY <1>1, <2>1, <2>2 DEF InOrder, Orderly
<1>4. CASE RestartCheckpoint(w)
  <2>1. /\ worker'[w].pc = "pass" /\ worker'[w].done = worker[w].done
        /\ Object(w)'.results = steps
    BY <1>4, GotoParts, ObjectIs DEF RestartCheckpoint
  <2>2. row' = row \/ row'.steps = steps
    BY <1>4, RowIs DEF RestartCheckpoint
  <2> HIDE DEF steps
  <2>3. QED
    BY <1>1, <1>2, <2>1, <2>2 DEF InOrder, Orderly
<1>5. CASE StepCheckpoint(w)
  <2>1. /\ worker'[w].pc = "scan" /\ worker'[w].done = worker[w].done
        /\ Object(w)' = Object(w)
    BY <1>5, GotoParts DEF StepCheckpoint, Object
  <2>2. row' = row \/ row'.steps = steps
    BY <1>5, RowIs DEF StepCheckpoint
  <2> HIDE DEF steps
  <2>3. QED
    BY <1>1, <1>2, <2>1, <2>2 DEF InOrder, Orderly
<1>6. CASE FinalCheckpoint(w)
  <2>1. /\ worker'[w].pc = "idle" /\ worker'[w].done = {}
        /\ Object(w)' = Object(w)
    BY <1>6 DEF FinalCheckpoint, Object, Inv, Base, Idle, Entering
  <2>2. row' = row \/ row'.steps = Object(w).results
    BY <1>6, RowIs DEF FinalCheckpoint
  <2>3. QED
    BY <1>1, <1>2, <2>1, <2>2 DEF InOrder, Orderly
<1>7. QED
  BY <1>3, <1>4, <1>5, <1>6

LEMMA InOrderLocal ==
  ASSUME Inv, NEW w \in Workers, InOrder(w),
         MergeStored(w) \/ ReadFails(w) \/ BeginPass(w) \/ StartStep(w)
  PROVE  InOrder(w)'
<1>1. definition' = definition /\ row' = row /\ Object(w)' = Object(w)
  BY DEF MergeStored, ReadFails, BeginPass, StartStep, Object
<1>2. worker \in [Workers -> WorkerState]
  BY DEF Inv, Base
<1>3. CASE MergeStored(w)
  <2>1. /\ worker'[w].pc = "restart"
        /\ worker'[w].done = worker[w].done \cup row.steps
    BY <1>2, <1>3 DEF MergeStored, WorkerState
  <2>2. Closed(definition, worker'[w].done)
    BY <2>1, ClosedSets DEF InOrder, Orderly
  <2>3. QED
    BY <1>1, <2>1, <2>2 DEF InOrder, Orderly
<1>4. CASE ReadFails(w)
  <2>1. worker'[w].pc = "idle" /\ worker'[w].done = {}
    BY <1>2, <1>4 DEF ReadFails, Idle, Entering
  <2>2. QED
    BY <1>1, <2>1, ClosedSets DEF InOrder, Orderly
<1>5. CASE BeginPass(w)
  <2>1. worker'[w].pc \in {"scan", "complete"} /\ worker'[w].done = worker[w].done
    BY <1>2, <1>5, GotoParts DEF BeginPass, WorkerState
  <2>2. QED
    BY <1>1, <2>1 DEF InOrder, Orderly
<1>6. CASE StartStep(w)
  <2>1. PICK i \in Runnable(w) :
          worker' = [worker EXCEPT ![w].pc = "act", ![w].pos = i]
    BY <1>6 DEF StartStep
  <2>2. /\ worker'[w].pc = "act" /\ worker'[w].pos = i
        /\ worker'[w].done = worker[w].done /\ worker'[w].def = worker[w].def
    BY <1>2, <2>1 DEF WorkerState
  <2>3. worker'[w].def[worker'[w].pos].deps \subseteq worker'[w].done
    BY <2>1, <2>2 DEF Runnable
  <2>4. QED
    BY <1>1, <2>2, <2>3 DEF InOrder, Orderly
<1>7. QED
  BY <1>3, <1>4, <1>5, <1>6

LEMMA InOrderObjectSteps ==
  ASSUME Inv, Whole, NEW w \in Workers, Agreed(w), InOrder(w),
         EndPass(w) \/ StepReturns(w) \/ StepRaises(w) \/ Complete(w)
  PROVE  InOrder(w)'
<1>1. definition' = definition /\ row' = row
  BY DEF EndPass, StepReturns, StepRaises, Complete
<1>2. CASE EndPass(w) /\ Goto(w, "pass") /\ UNCHANGED run
  <2>1. /\ worker'[w].pc = "pass" /\ worker'[w].done = worker[w].done
        /\ Object(w)' = Object(w)
    BY <1>2, GotoParts DEF Object
  <2>2. QED
    BY <1>1, <2>1 DEF InOrder, Orderly
<1>3. ASSUME NEW st \in {"failed", "completed"}, Goto(w, "final"),
             SetObject(w, [Object(w) EXCEPT !.state = st]),
             st = "completed" => worker[w].pc = "complete"
      PROVE  InOrder(w)'
  <2>1. /\ worker'[w].pc = "final" /\ worker'[w].done = worker[w].done
        /\ Object(w)'.state = st /\ Object(w)'.results = Object(w).results
    BY <1>3, GotoParts, ObjectStateSet
  <2>2. st = "completed" => Ids(definition) \subseteq worker[w].done
    BY <1>3 DEF Whole
  <2>3. QED
    BY <1>1, <2>1, <2>2 DEF InOrder, Orderly
<1>4. CASE StepReturns(w)
  <2> DEFINE s == Step(w).id
  <2>1. /\ worker[w].pc = "act" /\ worker'[w].pc = "checkpoint"
        /\ worker'[w].done = worker[w].done \cup {s}
    BY <1>4 DEF StepReturns, At, Inv, Base, WorkerState
  <2>2. Object(w)'.results = Object(w).results \cup {s}
    BY <1>4, ObjectIs, ObjectTypes DEF StepReturns, Run
  <2>3. Object(w).results = worker[w].done
    BY <2>1 DEF Agreed, Agree
  <2>4. Closed(definition, worker[w].done \cup {s})
    <3>1. /\ worker[w].def = definition /\ worker[w].pos \in DOMAIN definition
          /\ Valid(definition)
      BY <2>1, SameParts DEF Whole, WorkerOK, Inv, Base
    <3>2. s = definition[worker[w].pos].id
      BY <3>1 DEF Step
    <3>3. definition[worker[w].pos].deps \subseteq worker[w].done
      BY <2>1, <3>1 DEF InOrder, Orderly
    <3>4. Closed(definition, worker[w].done)
      BY DEF InOrder, Orderly
    <3>5. QED
      BY <3>1, <3>2, <3>3, <3>4, ClosedStep
  <2> HIDE DEF s
  <2>5. QED
    BY <1>1, <2>1, <2>2, <2>3, <2>4 DEF InOrder, Orderly
<1>5. QED
  <2>1. CASE EndPass(w)
    BY <1>2, <1>3, <2>1 DEF EndPass
  <2>2. CASE StepRaises(w)
    BY <1>3, <2>2 DEF StepRaises
  <2>3. CASE Complete(w)
    BY <1>3, <2>3 DEF Complete, At
  <2>4. QED
    BY <1>4, <2>1, <2>2, <2>3

LEMMA InOrderNext ==
  ASSUME OneWorker, Settled, Inv, Whole, [Next]_vars,
         \A w \in Workers : Agreed(w) /\ InOrder(w)
  PROVE  \A w \in Workers : InOrder(w)'
<1>1. SUFFICES ASSUME NEW w \in Workers PROVE InOrder(w)'
  OBVIOUS
<1>2. \A v \in Workers : v = w
  BY DEF OneWorker
<1>3. CASE StartRun(w) \/ Resume(w) \/ Proceed(w)
  BY <1>3, InOrderEnter, InOrderCheckpoint, InOrderLocal, InOrderObjectSteps
     DEF Proceed
<1>4. ASSUME NEW e \in Engines, Crash(e) PROVE InOrder(w)'
  <2>1. CASE EngineOf[w] = e
    <3>1. /\ worker'[w].pc = "idle" /\ worker'[w].done = {}
          /\ Object(w)'.results = {} /\ row' = row /\ definition' = definition
      BY <1>4, <2>1, EnginesAssumption DEF Crash, Idle, Entering, Object, Inv, Base
    <3>2. QED
      BY <3>1, ClosedSets DEF InOrder, Orderly
  <2>2. CASE EngineOf[w] # e
    <3>1. /\ worker'[w] = worker[w] /\ Object(w)' = Object(w)
          /\ row' = row /\ definition' = definition
      BY <1>4, <2>2, EnginesAssumption DEF Crash, Object, Inv, Base
    <3>2. QED
      BY <3>1 DEF InOrder
  <2>3. QED
    BY <2>1, <2>2
<1>5. CASE UNCHANGED vars
  <2>1. /\ worker'[w] = worker[w] /\ Object(w)' = Object(w)
        /\ row' = row /\ definition' = definition
    BY <1>5 DEF vars, Object
  <2>2. QED
    BY <2>1 DEF InOrder
<1>6. ~ Register
  BY WorkflowBounds DEF Register, Whole, Settled, OneDefinition, Inv, Base
<1>7. QED
  BY <1>2, <1>3, <1>4, <1>5, <1>6 DEF Next

LEMMA InOrderInvariant ==
  ASSUME OneWorker, Settled PROVE Spec => [](\A w \in Workers : InOrder(w))
<1>1. Init => \A w \in Workers : InOrder(w)
  <2> SUFFICES ASSUME Init, NEW w \in Workers PROVE InOrder(w)
    OBVIOUS
  <2>1. /\ row.steps = {} /\ Object(w).results = {}
        /\ worker[w].done = {} /\ worker[w].pc = "idle"
    BY EnginesAssumption DEF Init, Object, Idle, Entering
  <2>2. Closed(definition, {})
    BY ClosedSets
  <2>3. QED
    BY <2>1, <2>2 DEF InOrder, Orderly
<1>2. Inv /\ Whole /\ (\A w \in Workers : Agreed(w)) /\ (\A w \in Workers : InOrder(w))
      /\ [Next]_vars => (\A w \in Workers : InOrder(w))'
  BY InOrderNext
<1>3. QED
  BY <1>1, <1>2, WorkflowInvariant, WholeInvariant, AgreedInvariant, PTL DEF Spec

-----------------------------------------------------------------------------
(* The abstract variables.                                                 *)

(* The only definition is the registered one, and the contract's           *)
(* dependencies are its dependencies.                                      *)
LEMMA TheOnlyDefinition ==
  ASSUME OneDefinition, Inv
  PROVE  /\ TheDefinition = definition
         /\ \A i \in DOMAIN definition : DepsOf(definition[i].id) = definition[i].deps
<1>1. definition \in Submitted /\ Valid(definition)
  BY DEF Inv, Base
<1>2. TheDefinition = definition
  <2>1. TheDefinition \in Submitted /\ Valid(TheDefinition)
    BY <1>1 DEF TheDefinition
  <2>2. QED
    BY <1>1, <2>1 DEF OneDefinition
<1>3. ASSUME NEW i \in DOMAIN definition
      PROVE  DepsOf(definition[i].id) = definition[i].deps
  <2> DEFINE Listed(deps) ==
        [id |-> definition[i].id, deps |-> deps] \in {definition[j] : j \in DOMAIN definition}
  <2>1. definition[i] \in [id : StepIds, deps : SUBSET StepIds]
    BY <1>1, StepTypes
  <2>2. definition[i].deps \in SUBSET StepIds /\ Listed(definition[i].deps)
    BY <2>1
  <2>3. ASSUME NEW deps, Listed(deps) PROVE deps = definition[i].deps
    <3>1. PICK j \in DOMAIN definition :
            definition[j] = [id |-> definition[i].id, deps |-> deps]
      BY <2>3
    <3>2. definition[j].id = definition[i].id /\ definition[j].deps = deps
      BY <3>1
    <3>3. QED
      BY <1>1, <3>2 DEF Valid
  <2>4. DepsOf(definition[i].id) = CHOOSE deps \in SUBSET StepIds : Listed(deps)
    BY <1>2 DEF DepsOf
  <2> HIDE DEF Listed
  <2>5. QED
    BY <2>2, <2>3, <2>4
<1>4. QED
  BY <1>2, <1>3

(* A checkpoint of the run, committed or not, is a step of the contract.   *)
LEMMA CheckpointImplements ==
  ASSUME OneDefinition, Inv, Whole, NEW w, NEW st, NEW steps,
         CheckpointRow(w, st, steps), row.state # "completed",
         st \in {"running", "failed", "completed"},
         row.steps \subseteq steps, steps \subseteq Ids(definition),
         Closed(definition, steps), st = "completed" => Ids(definition) \subseteq steps
  PROVE  [Contract!Checkpoint]_(Contract!Contract)
<1>1. CASE UNCHANGED row
  BY <1>1 DEF Contract!Contract
<1>2. CASE row' = [state |-> st, steps |-> steps]
  <2>1. row'.state = st /\ row'.steps = steps
    BY <1>2
  <2>2. TheDefinition = definition
    BY TheOnlyDefinition
  <2>3. ASSUME NEW s \in steps PROVE DepsOf(s) \subseteq steps
    <3>1. PICK i \in DOMAIN definition : definition[i].id = s
      BY <2>3 DEF Ids
    <3>2. QED
      BY <2>3, <3>1, TheOnlyDefinition DEF Closed
  <2>4. \A s \in steps : [t \in Ids(definition) |-> DepsOf(t)][s] \subseteq steps
    BY <2>3
  <2>5. Contract!Checkpoint
    BY <2>1, <2>2, <2>4 DEF Contract!Checkpoint
  <2>6. QED
    BY <2>5
<1>3. QED
  BY <1>1, <1>2 DEF CheckpointRow, Upsert, UpsertFails

LEMMA NextImplements ==
  ASSUME OneWorker, OneDefinition, Inv, Whole, [Next]_vars,
         \A w \in Workers : Agreed(w) /\ InOrder(w)
  PROVE  [Contract!Checkpoint]_(Contract!Contract)
<1>1. ASSUME NEW w \in Workers, FirstCheckpoint(w)
      PROVE  [Contract!Checkpoint]_(Contract!Contract)
  <2>1. worker[w].pc = "start" /\ CheckpointRow(w, "running", Object(w).results)
    BY <1>1 DEF FirstCheckpoint, At
  <2>2. row.state = "absent" /\ row.steps = {}
    BY <2>1 DEF Agreed, Agree
  <2>3. Closed(definition, Object(w).results) /\ Object(w).results \subseteq Ids(definition)
    BY WholeParts DEF InOrder, Orderly
  <2>4. QED
    BY <2>1, <2>2, <2>3, CheckpointImplements
<1>2. ASSUME NEW w \in Workers, RestartCheckpoint(w) \/ StepCheckpoint(w)
      PROVE  [Contract!Checkpoint]_(Contract!Contract)
  <2> DEFINE steps == Object(w).results \cup worker[w].done
  <2>1. /\ worker[w].pc \in {"restart", "checkpoint"}
        /\ \E st \in {"running"} : CheckpointRow(w, st, steps)
    BY <1>2 DEF RestartCheckpoint, StepCheckpoint, At, Agreed, Agree
  <2>2. row.state # "completed" /\ row.steps \subseteq steps
    BY <2>1 DEF Agreed, Agree
  <2>3. Closed(definition, steps)
    BY ClosedSets DEF InOrder, Orderly
  <2>4. steps \subseteq Ids(definition)
    BY WholeParts
  <2> HIDE DEF steps
  <2>5. QED
    BY <2>1, <2>2, <2>3, <2>4, CheckpointImplements
<1>3. ASSUME NEW w \in Workers, FinalCheckpoint(w)
      PROVE  [Contract!Checkpoint]_(Contract!Contract)
  <2>1. /\ worker[w].pc = "final"
        /\ CheckpointRow(w, Object(w).state, Object(w).results)
    BY <1>3 DEF FinalCheckpoint, At
  <2>2. /\ row.state # "completed" /\ Object(w).state \in {"failed", "completed"}
        /\ Object(w).results = worker[w].done
        /\ row.steps \subseteq Object(w).results
    BY <2>1 DEF Agreed, Agree
  <2>3. /\ Closed(definition, Object(w).results)
        /\ Object(w).state = "completed" => Ids(definition) \subseteq Object(w).results
    BY <2>1, <2>2 DEF InOrder, Orderly
  <2>4. Object(w).results \subseteq Ids(definition)
    BY WholeParts
  <2>5. QED
    BY <2>1, <2>2, <2>3, <2>4, CheckpointImplements
<1>4. CASE UNCHANGED row
  BY <1>4 DEF Contract!Contract
<1>5. QED
  BY <1>1, <1>2, <1>3, <1>4 DEF Next, Proceed, StartRun, Resume, MergeStored, ReadFails,
     BeginPass, StartStep, EndPass, StepReturns, StepRaises, Complete, Crash, Register, vars

(* The run table keeps its contract: for one worker in any number of       *)
(* lives, and any workflow, recorded steps are never taken back, respect   *)
(* the dependencies, and a run is completed once and for all.              *)
THEOREM EngineImplementsContract ==
  ASSUME OneWorker, OneDefinition PROVE Spec => ImplementsContract
<1>1. Init => Contract!Init
  BY DEF Init, Contract!Init
<1>2. /\ Inv /\ Whole /\ (\A w \in Workers : Agreed(w)) /\ (\A w \in Workers : InOrder(w))
      /\ [Next]_vars
      => [Contract!Checkpoint]_(Contract!Contract)
  BY NextImplements
<1>3. Settled
  BY DEF Settled
<1>4. Spec => [](\A w \in Workers : InOrder(w))
  BY <1>3, InOrderInvariant
<1>5. Spec => []Whole
  BY <1>3, WholeInvariant
<1>6. QED
  BY <1>1, <1>2, <1>4, <1>5, WorkflowInvariant, AgreedInvariant, PTL
     DEF Spec, ImplementsContract, Contract!Spec
=============================================================================
