# KerrOS: a TLA+ model of the runtime and its audit trail

This directory is a verification development for KerrOS. It holds TLA+ modules
that model the stateful parts of the program, TLC configurations that check
them on small instances, and TLAPS proofs of the properties that matter most.
The modules are translated from the Python source; the documents and tests were
read for what they promise, never for what the program does.

1. Inventory of the system
2. Plan
3. The audit archive
4. The LLM provider gate
5. The workflow engine
6. The event mesh
7. The actor mesh
8. The scheduler
9. The kerrd process: kernel and services
10. Evidence transfer
11. The SIEM queue
12. Runs and bounds
13. Proofs
14. What is known not to hold
15. What is not modelled

## 1. Inventory of the system

KerrOS is a Python "agent operating system". A kernel boots adapters into a
service container; a runtime keeps services, actors, jobs, workflows and an
event mesh going; a gateway sends messages and audit events outside; agents,
tools, memory and retrieval do the work on top. One machine runs several KerrOS
processes at a time (the daemon, the chat, cron scripts) over the same SQLite
files and directories, and inside a process several threads share singletons.
That is where its hard behaviour comes from.

| Component | State it keeps | Operations | Works with | What is hard | What makes it correct |
|---|---|---|---|---|---|
| **Audit archive**: `kernel/decision_log.py`, `adapters/audit/worm_store.py`, `retention.py` | hash-chained rows in SQLite; sealed segment files with manifests | record, delete_through, seal, archive, purge, verify | cron, CLI, every module that logs a decision | several archivers, a crash between two system calls, stale cutoffs, clocks that step back | no recorded row is lost; the hot chain and every segment verify; only aged rows leave, and they do leave |
| **LLM provider gate**: `adapters/llm/resilience.py`, `composite_adapter.py` | a circuit breaker per provider | allow, record_success, record_failure, reset, snapshot, complete | the event bus, provider adapters, every thread that asks a model | late answers, calls and events in the middle of an update, one probe slot for many callers | no slot leaked, one probe per half-open period but for the one the code lets slip in, no outage of the gate for ever |
| **Workflow engine**: `runtime/workflows.py`, `workflow_store.py` | run objects in memory, a row per run in SQLite | register, run, resume, checkpoint | step actions, event bus, the run table shared by processes | crashes between a step and its checkpoint, swallowed store errors, several resumes, edited definitions | the table never claims too much, dependencies run first, completed steps are skipped, runs complete |
| **Event bus and mesh**: `runtime/event_bus.py`, `event_mesh.py`, `event_mesh_broker.py` | subscribers, `_seen`, message and ack tables | publish, fan out, poll, ingest, ack | every publisher and handler; other KerrOS processes through the tables | crashes before an ack, failing acks, a forwarder that leaves the bus for a moment, trimming of `_seen` | at least once across nodes, at most once in a life, never back to the publisher |
| **Actor mesh**: `runtime/actor_mesh.py` and backends | pending requests, `_seen`, routes, connections | send, request, reply, attach, detach | handlers, other nodes, authentication | handlers on the receive thread, timeouts against late replies, torn frames | a reply reaches its request, nothing stays pending, a request is handled at most once |
| **Services** and supervision: `runtime/services.py`, `ipc.py`, `kerrd.py`, `actor_supervision*.py`, `kernel/watchdog.py` | liveness table, service processes, restart counts | start, ping, monitor, stop, beat, sweep, restart | worker processes, actor mesh, health report | workers that die or hang at any moment, a ping without a timeout, interrupts and kills | the dead are noticed, one live worker per service, none without an owner |
| **Scheduler**: `runtime/scheduler.py`, `cron.py`, `agent_jobs.py` | job table, one thread, a job file | schedule, cancel, tick, run | callbacks, event bus | cancel against a snapshot of due jobs, callbacks that hang | a job runs when due, not after its cancellation, and once per time |
| **SIEM queue** and rate limits: `gateway/channels/siem_push.py`, `siem_queue.py`, `rate_limit.py` | JSON-lines queue, shared hits | enqueue, flush, allow | audit forwarder, channels | in-place rewrites, writes that fail, several processes | a failed event is kept until delivered or counted as dropped |
| **Transfers** and erasure: `adapters/audit/transfer_*.py`, `erasure_ledger.py`, `crypto_shred.py` | ledgers in SQLite, an outbox of copied segments | record, execute, cancel, classify, review | the audit archive, an HTTP endpoint | retry after half a transfer, two executors, torn copies | what is shipped is whole, what is marked executed is complete |
| **Kernel**: `kernel/boot.py`, `container.py` | phase, named objects, background threads | boot, shutdown, resolve | everything | a boot that fails half way, stops that give up, failures that are swallowed | a ready kernel holds one boot's objects, a shutdown tells every thread to stop |
| Background processes: `tools/process_registry.py`, `goal_state.py` | process sessions, goal file | spawn, poll, kill, prune | reader threads | kill against the reader, the limit of processes | the final status is that of what happened |
| Task completion: `core/task_completion.py`, `persistent_task_runtime.py`, ... | tasks and checkpoints, a JSON file | create, checkpoint, fail, save, load | agents | in-place rewrite, status not refreshed | a completed task has no open checkpoint |
| Approval queue: `task_assistant/assistant.py` | approval rows in SQLite | propose, decide, execute | plugins | deciding twice | an action runs once, and only approved |
| Everything else (router, tools, memory, agents, CLI, adapters, compliance, infrastructure renderers) | text stores, caches | parsing, ranking, formatting, network calls | | little state between calls | |

The parts in bold are modelled. `PROJECT.json` lists all of them with their
sources, and under "hazards" the places where their code is hardest to test, at
their lines. The hazards of the code that is not modelled:

| Where | What |
|---|---|
| `runtime/actor_supervision.py:156` | the loop beats every name it knows and then sweeps: with heartbeats on, no local actor is ever found dead |
| `runtime/actor_supervision.py:235` | the on_dead hook runs after the lock is released, when the actor may have beaten again |
| `kernel/watchdog.py:64` | restarts are counted over the whole life |
| `gateway/channels/rate_limit.py:78` | read, change, write of a shared file without a lock between processes |
| `tools/process_registry.py:130` | the reader thread overwrites "killed" with "exited" |
| `adapters/audit/erasure_ledger.py:274` | "eligible" is decided from the segments listed at that moment |
| `runtime/event_mesh.py:91` | the file transport reads, then truncates: lines appended in between are lost |
| `runtime/event_mesh_http.py:144` | a thread per request: ingests of one node run concurrently |
| `core/persistent_task_runtime.py:72`, `core/task_completion.py:200`, `tools/goal_state.py:140` | state files rewritten in place, or through one shared .tmp name |
| `core/task_completion.py:77` | a completed task gets an open checkpoint and stays completed |
| `task_assistant/assistant.py:191` | `decide()` replaces any status by any other: an executed proposal can be approved again |

**How the parts interact.** The audit archive is called by everything that
records a decision, among them the workflow engine, the service manager and the
watchdog, always as one `record`. The LLM gate and the workflow engine publish
on the event bus in the middle of their updates; subscribers run in the
publishing thread, so every `publish` is a point where others may act, and the
models split their steps there; the LLM gate, which has no lock, is split at
every call. The mesh subscribes to the bus and forwards
what it sees to other processes. No component calls another while it holds a
lock the other needs, so the modules do not have to be composed to find the
interleavings of each; the composition inside a component (circuits with
callers, table with processes, nodes with the broker, executors with the
outbox) is explicit. `kerrd` is the exception: it boots the kernel and then runs
the service manager on the same thread, one may die with the other, and
`Daemon` composes the two. The kernel starts the scheduler and the meshes of
the other modules; `Kernel` knows them as threads that a boot starts and a
shutdown has to stop.

## 2. Plan

Order of modules, most important behaviour first:

| # | Module | State |
|---|---|---|
| 1 | `AuditArchive`, refining `EvidenceTrail` | modelled, checked, proved |
| 2 | `ProviderCircuit`, composed with callers in `CompositeLLM` | modelled, checked, proved |
| 3 | `WorkflowEngine`, refining `WorkflowContract` | modelled, checked, proved |
| 4 | `EventMesh` | modelled, checked, proved; transports other than the broker are left |
| 5 | `ActorMesh` | modelled, checked, proved |
| 6 | `Kernel` and `Services`, composed in `Daemon` | modelled, checked, proved |
| 7 | `Scheduler` | modelled, checked, proved |
| 8 | `Transfer`, after `AuditArchive` | modelled, checked, proved |
| 9 | `SiemQueue` | modelled, checked, proved |
| 10 | process registry, task completion, approval queue, file transport | left out, see section 15 |

Every safety property a run checks is stated by a theorem now (section 13).
Worth proving next: `SpacedRuns` for the loops that overrun each other, with the
distance they still keep; `CompletedIsFinal` and `CompletedStepsAreSkipped` for
several threads on different runs, once the engine is modelled with more than
one run id.

Every run asks its own question of the system, so there are few of them, and
what a theorem already says of every instance is checked in one run only.

## 3. The audit archive

`AuditArchive.tla` models `DecisionLog`, `WormStore.seal_from_log`,
`verify_segment`, `apply_retention` and the manual seal.

| Model | Code |
|---|---|
| `journal`, `hot` | every row ever inserted; the ids now in table `decisions` |
| `tmp`, `jsonl`, `manifest` | `NNNNNN.jsonl.tmp`, `NNNNNN.jsonl`, `NNNNNN.manifest.json`, each absent, torn, writable or read-only, with the rows it holds |
| `arch[p]` | program counter and locals (`cutoff`, `through_id`, rows, segment number) of one process inside retention or a seal |
| `Record` | `DecisionLog.record`, one step because of `BEGIN IMMEDIATE` |
| `StartRetention`, `StartSeal` | the reads that begin `apply_retention`; an operator's `/decisions seal N` |
| `ReadRows` ... `VerifySegment` | `seal_from_log`, one action per system call or query |
| `DeleteThrough`, `PurgeCheck`, `PurgeRows`, `RecordRetention` | the rest of `apply_retention` |
| `Crash`, `WriteFails` | death or an I/O error between any two steps; the `except` block that unlinks the .tmp file |

`EvidenceTrail.tla` is the promise behind it in four actions: a row is issued
live, copied to cold storage, released only when it is cold, purged only if
that is allowed and nothing is sealed. `ImplementsEvidenceTrail` is the
refinement: `live` is `hot`, `cold` is the union of the listed segments.

Abstractions. Hashes do not collide, so a `prev_hash` is the id of a row. A
manifest is the set of rows its fields were computed from. SIEM forwarding and
the object-lock mirror are best effort and change neither table nor segments;
a strict mirror failure is a `Crash` after the seal. RBAC decides whether a run
starts, which the model leaves to the environment. Timestamps are arbitrary,
because clocks step back and callers may pass one. `RunsAsRoot` says whether
opening a 0444 file for writing succeeds.

Properties: `HotChain`, `NoEvidenceLost`, `SegmentsIntact`, `FreshRowsStay`,
`ImplementsEvidenceTrail`, and the liveness property `AgedRowsLeave`. Fairness:
a process that is running goes on, and cron applies retention again and again
with a clock that has passed every row (`scripts/apply_retention.py` is made
for cron). Writers, operators and faults owe nothing.

## 4. The LLM provider gate

`ProviderCircuit.tla` is the breaker of one provider: what the registry methods
do to it, from one Python call to the next. `CompositeLLM.tla` composes one per
provider with the threads that walk their chain in `CompositeLLMAdapter.complete`.

| Model | Code |
|---|---|
| `circuit[q]` | `ProviderCircuit`: state, failures, open count, opened_at and locked_at as ticks elapsed, probe slot |
| `caller[p]` | where a thread stands in `complete()` or in a method of the registry; `to` is the state a `_transition` is about to set |
| `RefreshBegins`, `RefreshTurns` | `_refresh`, before and after it calls `_transition` |
| `AllowDecide` | the rest of `allow()`; a refused caller goes through `snapshot()`, a `_refresh` for each circuit |
| `CallFails`, `Open`, `Lock`, `Trip` | a failed call: `record_failure` up to `_open`, the dating of the opening, the dating of the lockout, the change of state |
| `CallSucceeds`, `Close`, `Clear` | an answer: `record_success` up to `_transition`, the change of state, the clearing of opened_at |
| `Status`, `Reset`, `ResetNext`, `Tick` | operator commands, circuit by circuit, and time |

Atomicity. Nothing locks the registry. The versions of the interpreter the
repository builds for (3.11 and 3.12) switch threads at calls and backward jumps
only, so a step is the code from one call to the next: `_open`, `_transition`,
`_now` and `publish` end one. Between the reading of the probe slot and its
taking (l.138-140) there is no call. A reading of the clock and its use are one
step, as is the body of a reset of one circuit, which calls nothing.

Abstractions. Elapsed times stop counting where the code stops comparing them.
`enabled = false`, where nothing is gated, is left out, as are error texts,
payloads and telemetry. A history variable `probing` holds the callers admitted
in the present half-open period, and `slot` says of a caller that it took the
slot for the call it is in.

Properties. For any number of threads: `SlotIsHeld`, a taken slot belongs to a
caller that still waits for its provider; `OneProbe`, one probe for a half-open
period unless somebody is recording an outcome, when the code has freed the slot
(l.160, l.149) and not yet left the state (l.90) and does admit a second one
(section 14). For one thread: `ClosedBelowThreshold`, `CoolingIsLeftAlone`,
`LockoutLasts` and `OutageEnds` (`LockedIsDated` is proved only); with two
threads each of them fails, section 14 says how. Fairness: time passes, and a
call that was started goes on, because every adapter has a request timeout.
Nobody is obliged to call, look at the status or reset.

## 5. The workflow engine

`WorkflowEngine.tla` follows one run id through any number of processes and
threads.

| Model | Code |
|---|---|
| `definition` | what `register()` last accepted; `Valid` is `_validate_definition` with `_topo_order` |
| `row` | the run's row; its steps are the union of results and completed_steps that `resume()` takes |
| `run[e]` | the `WorkflowRun` object in `_runs` of process e |
| `worker[w]` | a thread in `run()` or `resume()`: its definition, done set and scan position |
| `StartRun`, `FirstCheckpoint` | `run()` |
| `Resume`, `MergeStored`, `ReadFails`, `RestartCheckpoint` | `resume()` |
| `BeginPass`, `StartStep`, `StepReturns`, `StepRaises`, `StepCheckpoint`, `EndPass`, `Complete`, `FinalCheckpoint` | `_execute` and the `finally` of its callers |
| `Register`, `Crash` | `/workflows reload` of an edited file; the end of a process |

Every `_checkpoint` may also fail, which the code swallows (`UpsertFails`).
`WorkflowContract.tla` is what the table promises of a run: steps are only
added and respect the dependencies, and a run is completed once, with nothing
left. `ImplementsContract` is the refinement, for one worker and one definition.

Abstractions. A result is the fact that there is one. Contexts, timestamps,
events and listing queries are left out. A `KeyboardInterrupt` inside a step is
not modelled.

Properties: `CheckpointTruthful`, `DependenciesFirst`, `NothingLeft`,
`NeverDeadlocks`, `CompletedStepsAreSkipped`, `ImplementsContract`, and
`RunCompletes`. Fairness: workers go on, and an operator resumes an unfinished
run again and again. The second is an assumption about people: nothing in the
code resumes a run by itself.

## 6. The event mesh

`EventMesh.tla` has nodes that exchange bus events through the SQLite broker.

| Model | Code |
|---|---|
| `rows`, `acked` | tables `mesh_messages` in created_at order, `mesh_acks` |
| `seen`, `forwarders` | `_seen` of a node; how often its forwarder is subscribed to `"*"` |
| `thread[t]` | a thread in `publish()` or `poll()`: rows drained, event in hand |
| `Publish`, `Send` | `EventBus.publish` with its handlers, `DurableEventBroker.publish` |
| `Drain`, `NextEvent`, `AddSeen`, `Unsubscribe`, `Emit`, `Subscribe`, `Ack`, `PollEnds` | `poll_durable_transport`, `ingest` and `_fanout` |
| `Crash` | a process dies and attaches again with an empty `_seen` |

Abstractions. One bus per node, as `build_event_mesh` makes it. An event is its
number; topics and payloads are left out. Rows are in created_at order, which
is commit order here. `unsubscribe` is one step. Not modelled: file and HTTP
transports, meshes that join several buses, detach, heartbeats, event history.

Properties. For any number of ingesting threads per node: `NoEcho` and
`ForwarderBack`, that however their ingests cross, each taking the forwarder off
the bus and putting it back, they never leave it off. For the nodes with one
ingesting thread (`Sole`), whatever the other nodes do: `AckedWasHandled`,
`OncePerLife` and `AtLeastOnce`. `PublishedIsForwarded` does not hold (section 14). Fairness: every node keeps polling.
This is an assumption about the program that embeds the mesh: ADR-009 offers
`poll()` for ingest, but apart from the tests nothing in the repository calls
it (`scripts/mesh_node.py` only sleeps, since its HTTP transport is pushed to),
so with the durable transport alone events stay in the table until somebody
polls. Publishers owe nothing, and crashes are finite in number.

## 7. The actor mesh

`ActorMesh.tla` has nodes that request actors of one another over the TCP
backend.

| Model | Code |
|---|---|
| `conns`, `wire`, `garbled` | `SocketActorBackend._conns`; frames on a connection and in `_inbox`; a reader that has lost the frame boundary |
| `seen`, `pending`, `box` | `ActorMesh._seen`, `_pending` and the box an entry of it shares with its waiter |
| `thread[t]` | a caller, or the one receive thread of a node, which runs the handlers: idle, in a handler, waiting for a reply, past its wait |
| `Ask`, `WakeUp`, `WaitExpires`, `RaiseTimeout` | `request()`, its wait, and the pop of the entry in a step after it |
| `Receive` with `Drop`, `TakeReply`, `TakeRequest`, `Refuse`, `TakePub` | `_recv_loop` and what it calls |
| `HandlerAsks`, `HandlerEnds` | a handler that requests an actor itself; its result or exception, sent by `reply()` |
| `LoseBoundary`, `ReaderEnds`, `AddPeer` | `_reader_loop` after a timeout inside a frame, the end of a reader, a new dial |
| `BeginDetach`, `EndDetach` | `detach()`, before and after it has closed the connections |

Abstractions. A payload is whether the handler succeeded. `_seen` holds ids of
other traffic too, so it may go over its limit at any reception, and any of the
modelled ids may survive the trimming. The time a wait takes
is free: it may expire as soon as it begins, so a late reply needs no clock.
Tokens and TLS decide about one message alone; the NNG and NATS backends are
clients of external brokers. A handler requests at most one actor, and that one
none.

Properties: `OwnReply`, `PendingIsAwaited`, `OnceUnlessForgotten`,
`NestedNeverAnswered` and the liveness property `RequestsEnd`. Fairness: a
thread that can go on does, and a wait ends, because `event.wait()` has a
timeout. Nothing is owed by the network, which may lose everything.

## 8. The scheduler

`Scheduler.tla` models the job table, its loop thread and the next run of a cron
expression.

| Model | Code |
|---|---|
| `jobs`, `runAt` | `_jobs` and the `run_at` of each |
| `stopSet`, `thread`, `loop` | `_stop`, `_thread`, and every loop thread ever made, the forgotten ones included |
| `due`, `running` | the snapshot of due jobs a loop works through; the callback it is in |
| `Check`, `Begin`, `Reschedule`, `BatchEnds` | `_loop` and `_run_job`, split where the lock is released and around the callback |
| `Schedule`, `Cancel`, `Start`, `Stop`, `Joined`, `StopsItself` | the methods other threads, or a callback, call |
| `Upcoming`, `NextRun` | `next_run()`: the first matching minute after this one within the horizon |

Atomicity. The job table has a lock. `start()` looks at the thread and makes one
without a lock; it is one step here, since only `boot()` calls it, once on a
scheduler it has just made (`kernel/boot.py:255`).

Abstractions. The clock does not step back, as `time.time()` may. A cron expression is the set of minutes it matches; the parsing of
its five fields is left out. A year of minutes is `Horizon` of them. A callback
takes any time and may raise, which the code treats alike.

Properties: `SpacedRuns`, `CancelledFadesOut` and the liveness property
`DueRuns`. Fairness: a loop thread keeps running, which for `DueRuns` means that
callbacks return. The code does not bound them; one that hangs does stop every
job.

## 9. The kerrd process: kernel and services

`Kernel.tla` models `boot()` and `shutdown()`, `Services.tla` the service manager
under `kerrd`'s loop, and `Daemon.tla` the process that does first the one and
then the other, and that a signal can end anywhere.

| Model | Code |
|---|---|
| `phase`, `step`, `boot` | `Kernel.phase`; how far `boot()` is; which boot it is |
| `container` | for each name the boot whose object it holds (services that are registered together are one name) |
| `threads`, `orphans`, `unstopped` | the threads that boots started, by kind and boot; those of a mesh whose build raised; those on which a shutdown gave up |
| `RegisterConfig` ... `RegisterPorts`, `Raise` | the stages of `boot()` and its `except` clause |
| `StartFacet`, `MeshBuilt` | `build_actor_mesh`, facet by facet, with the failures the boot swallows |
| `Shutdown`, `ThreadEnds` | `shutdown()`, whose joins give up after two seconds and whose stages swallow what they raise: any of the threads it stops may stay, and end later or never |
| `state`, `proc`, `alive`, `hung` | `ManagedService.state` and `.proc`; the worker processes themselves |
| `Spawn`, `Pong`, `PingFails` | `start()`, its ping and its failures |
| `Autostart`, `Monitor`, `NextRound`, `Interrupt`, `StopOne`, `Leave` | `Kerrd.start`, `monitor()`, Ctrl-C, `Kerrd.stop` |
| `WorkerDies`, `WorkerHangs`, `Killed` | what happens to processes; `kerrd stop` is a SIGTERM that nothing handles, so it is a kill |

Abstractions. `build_actor_mesh` starts a dozen facets under one pattern: it may
be off, hold a port, be fatal when it fails, and be stopped by `detach()` or not.
`Facets` and the sets beside it give the pattern, and the instance has one facet
of each sort that behaves differently. `Spawn` is one step: a signal between the
fork inside `Popen` and the assignment of its result (`runtime/services.py:71-72`)
is not modelled. Workers end when their pipe is closed
unless they hang (`ipc.py` reads until end of file).

Properties: `ReadyIsFresh`, `NothingLeftRunning`, `OneWorker` and the liveness
property `DeathIsNoticed`. Fairness: `kerrd`'s thread goes on unless it is in the
ping of a worker that hangs, and a worker that can read the end of its pipe ends.
Nobody has to boot, and nothing has to fail or recover.

## 10. Evidence transfer

`Transfer.tla` follows the intents of the ledger and the processes that execute
them. Executions of the same transfer share its outbox directory and nothing
else.

| Model | Code |
|---|---|
| `status` | the ledger's status of a transfer |
| `outbox` | the files `NNNNNN.jsonl` and `NNNNNN.manifest.json` in `run_dir`: absent, being written, torn, whole |
| `executor[e]` | the locals of `execute_transfer` and `_copy_sealed_segments` |
| `Begin` | reading the intent and the configuration, listing the segments |
| `Skip`, `Found`, `Open`, `Copied`, `CopyFails` | one file of the copy loop; `exists()` and `copy2` are separate steps, and so are the two ends of `copy2` |
| `Gathered`, `Send`, `WriteManifest`, `Mark`, `MarkFailed` | the rest of `execute_transfer` and its `except` clause |
| `Crash` | a process ends anywhere; a file it was writing stays torn |

Abstractions. A sealed segment does not change (`SegmentsIntact` of
`AuditArchive`). The `export_jsonl` source is off by default and left out, as is
RBAC. `raced` notes the files that two executors opened, `owed` what the
execution that marked a transfer had to copy.

Properties: `ShippedIsWhole`, `ExecutedIsComplete`. The second says that the
files lie in the outbox, not that they are whole: one that an earlier execution
left torn is skipped and stays torn (section 14). Nothing is fair: operators
execute transfers, and nothing repeats them.

## 11. The SIEM queue

`SiemQueue.tla` models failed pushes, their file, and the flushes that rewrite
it, for threads of several processes.

| Model | Code |
|---|---|
| `file`, `tail` | the rows a load finds in the JSON-lines queue; whether its last line is whole, a row that lacks its newline, or a part of one |
| `lock` | the module's `_lock`, one in each process |
| `Push`, `Enqueue` | `push_trace` and, when its post failed, `enqueue_failed` |
| `EnqueueFails` | the append raises, which `push_trace` swallows |
| `Load`, `Later`, `Post`, `PostFails`, `Truncate`, `Save` | `flush_siem_queue` with `_load_rows` and `_save_rows` |
| `TruncateFails`, `SaveFails` | `_save_rows` raises, at its `open` or at its write, in a process that lives on |
| `EndProcess` | the process ends; an append or save that was under way breaks off |

A write can break off before its first byte, amid a line or before its newline
(`AppendBreaks`, `SaveBreaks`); the next line is then written behind what is
there, and a load reads neither of the two (`Appended`). A save of one process
writes over what another has put into the file since it was emptied
(`Overwrite`).

Abstractions. A row is due at any time: backoff is a free choice. The SIEM may
take a body and the answer may be lost, in a push as in a flush. A body that is
not valid base64 is no row this code has written.

Properties. `NothingForgotten`: a body whose push failed is queued, held by a
flush, delivered, given up after the last attempt - or lost (`gone`) in one of
these ways, and in no other: its append or the save that held it raised; the
process ended between the failed post and the end of the append, or in a save; it
stood in a line left without its newline, or was appended behind a broken one;
another process rewrote the file. `TwiceOnlyUnsure`: the SIEM gets a body twice
only if (`unsure`) an answer was lost, a process ended amid a flush, a flush
could not open the file after it had posted, or two processes flushed the same
rows. Nothing is fair: nobody has to flush. The names of the specification
(`QueueInit`, `QueueNext`, `QueueSpec`) differ from those of `Transfer` because
`ExportProofs` extends both.

## 12. Runs and bounds

Counters are bounded in the guards of actions and the bounds are constants, so
no state constraint cuts a behaviour and liveness is checked on complete
graphs. Every property of a passing run has a mutant in `PROJECT.json`: an
operator whose name begins or ends with `Slip`, a mistake a maintainer could
make, with which the same run fails. Types are proved, not checked by the runs.

| Run | States | Question and answer |
|---|---|---|
| `audit_one` | 118253 | One archiver, all three jobs, writers at any moment, two faults: is evidence ever lost? No; the archive implements `EvidenceTrail`. Three rows make a prefix, a cut and a fresh row; two timestamps make aged and fresh rows in any order; two segments make a number depend on an earlier seal. |
| `audit_live` | 14247 | Without faults, does every row leave the hot table? Yes. Four rows, so that retention's own record is among them, and a segment each. |
| `llm_one` | 13537 | One thread, a local provider and a cloud one, every kind of failure: are the counters right, cooldowns and lockouts respected, and does each outage end? Yes. Thresholds of 2 make the first failure differ from the deciding one, and a lockout longer than the cooldown tells the two apart. |
| `llm_three` | 1877332 | Three threads on one provider, each step as short as the interpreter allows: is the slot never leaked, and when is there a second probe? Never leaked; a second one only while an outcome is recorded. The third thread is one that takes the slot while one records and one resets or refreshes; three openings reach a lockout and one opening more. Threads are symmetric. |
| `workflow_one` | 1151 | One thread, a diamond of steps listed backwards (so that several passes are needed), a cyclic definition to refuse, four faults: do resumed runs finish what they should and nothing twice? Yes. |
| `workflow_two` | 195646 | Daemon and CLI on the same run, two faults and a reload: what survives? No false claim, dependencies first, no deadlock error. |
| `mesh_durable` | 79152 | Two nodes, two events, two faults, `Limit` 1 and `_seen` of size 2, two threads that ingest at once on the first node: is delivery right, and does the forwarder come back? Yes. The first node makes ingests cross, the second is one where delivery can be right; two events are enough for a head of the queue that is acked and one behind it; two faults for a crash after a failing ack. `_seen` never holds more than its limit here, so it is not trimmed (section 13, `NothingDropped`). |
| `actor_mesh` | 177840 | Two nodes joined by two connections, a caller, an actor on each node of which one requests the other, one fault: does every request end with its own answer or an error, once? Yes. Two connections make every frame a duplicate; two ids are a request and the one its handler makes, or two of the caller; the fault is a lost frame boundary, a lost actor, a detached node or a trimming of `_seen`, after which the second copy of a request is handled again. |
| `scheduler` | 425804 | An interval job and a cron job that runs out of minutes, two loop threads, four ticks: do jobs run when due and keep their distance through stop, start and cancel? Yes, but for a loop left behind by `stop()`. A second loop is the one a restart makes beside it; four ticks are two periods of each job. The same holds with a one-shot job (10.5 million states, not a listed run). |
| `daemon` | 442986 | Two boots, two services with autostart, two workers each of which the first may hang: is a ready kernel one boot's, does a shutdown tell everything to stop, does a service have one worker? Yes. Two boots are one that fails or is shut down, and one that meets its remains: orphans, threads on which the shutdown gave up, what a kill left. |
| `transfer` | 3028633 | Two executors, two segments, three executions of one transfer: is what is shipped whole and what is marked executed complete? Yes. Two segments are four files, so that an execution can stop between the files of a segment and between segments; the third execution is a repeat that races another. Executors are symmetric. |
| `siem_queue` | 1604735 | A process that pushes and flushes and one that flushes, two bodies, four flushes, one fault anywhere (a process ends, a write raises): is anything forgotten or sent twice? Only by the fault or by the other process. Two attempts (the code: 8) make the first failure differ from the last; one post per flush (the code: 20) leaves a row for the next; four flushes let each process flush before and after what the other did. |

In `audit_live` a bound on rows stands for a log that is not written to for ever;
in `llm_one` `MaxOpens` bounds the starts of calls, and
with it what happens before the fair end. A run with `CHECK_DEADLOCK FALSE`
says in its .cfg why the system may stop.

## 13. Proofs

Eight modules hold proofs, for any sets of processes, threads, nodes, providers
and any values of the bounds; 12085 obligations. The assumptions are those named
in the modules (`...Assumption`, `...Bounds`), which TLC evaluates in every
run, and those named below.

* **`AuditArchiveProofs`**, any number of archivers. `LogInv` adds to the types
  that the hot rows are a suffix of all rows issued (`HotIsSuffix`), that
  neighbours are linked (`HotIsLinked`), and that whatever an archiver may
  still delete was aged at its cutoff (`RetentionIsAged`). `HotChain` alone is
  not inductive: deleting is safe only because what remains is a suffix, and
  `FreshRowsStay` needs to know that rows recorded since the cutoff was read
  lie behind it. Theorems: `TypeCorrect`, `HotChainHolds`, `FreshRowsAreKept`.
  For one archiver at a time (`OneArchiver`) `EvidenceInv` follows the
  archived rows: they are the hot prefix as long as the run lasts, then also in the .tmp file, then in the jsonl, and the segment
  is not listed before its manifest is. With two archivers the middle part
  fails. Theorems: `EvidenceIsKept`, `SealedSegmentsVerify`,
  `ArchiveImplementsTrail` (initial states and steps of the refinement).
* **`CompositeLLMProofs`**. `GateInv`, for any number of threads: a taken slot
  belongs to a caller that took it and still waits (`SlotIsHeld`), and in a
  half-open period in which nobody records an outcome (`OneHeld`) those who were
  admitted are at most one, and none while the slot is free. Neither property is
  inductive without the types, which say where in a registry method a thread
  stands. Theorems: `LLMTypeCorrect`, `SlotIsHeldHolds`, `OneProbeHolds`. For
  one thread (`OneCaller`) `RestInv` adds what the fields of a circuit say of one
  another, apart from the circuit the thread is amid changing: a closed or
  half-open circuit has rested, a locked one knows since when, and its two clocks
  run together. Theorems: `ClosedBelowThresholdHolds`, `LockedIsDatedHolds`,
  `CoolingIsLeftAloneHolds`, `LockoutLastsHolds`. With two threads all four fail
  (section 14).
* **`WorkflowProofs`**, any definitions, processes and threads. `Inv` says that
  workers run valid definitions, that a pass without progress began with fewer
  steps done than there are, and that nobody (row, object or thread) claims a
  step that has not run. That a pass always finds a step rests on acyclicity,
  stated in `Valid` as "every set of steps has one that depends on none of
  them". `NothingLeftHolds` needs a definition that does not change (`Settled`:
  no reload, or one definition to load), which `MCWorkflowReload.cfg`
  shows to be necessary. Other theorems: `WorkflowTypeCorrect`,
  `CheckpointTruthfulHolds`, `NeverDeadlocksHolds`, `DependenciesFirstHolds`.
  For one worker (`OneWorker`) `Agreed` relates the three copies of a run: once
  resumed, the worker knows every step the row records; past its first
  checkpoint the object in memory has exactly the worker's steps; and nobody
  works on a run recorded as completed. From it follow
  `CompletedStepsAreSkippedHolds` and `CompletedIsFinalHolds`; and, with one definition (`OneDefinition`) and
  `Orderly` - what is recorded is closed under dependencies -,
  `EngineImplementsContract`, which maps every step of the engine to a step of
  `WorkflowContract` or a stutter. A second worker breaks `Agreed` (section 14).
* **`EventMeshProofs`**. `Inv` says that an ingesting thread holds events of
  other nodes only. Two further invariants are about the nodes with one ingesting
  thread (`Sole`): `Delivery`, that an id in `_seen` or about to be acked has been
  handled or is in the hands of the thread that will; and `Fresh`, that what
  was handled in this life is remembered, as long as `_seen` is not trimmed
  (`NothingDropped`). Theorems: `MeshTypeCorrect`, `NoEchoHolds`,
  `AckedWasHandledHolds`, `OncePerLifeHolds`, and `ForwarderBackHolds` for any
  number of threads that ingest at once.
* **`DaemonProofs`**, any services, workers, boots and signals. `KernelInv` says
  in which order a boot fills the container (`Ordered`: what was registered
  after the configuration belongs to the boot that registered the configuration)
  and that a thread belongs to what lies in it, unless it is an orphan or one on
  which a shutdown gave up (`ThreadsHeld`); a boot that raises half-way leaves
  both true, so the next one is refused at its first name.
  `ServicesInv` says where the main loop stands with the service it works on
  (`Placed`), and that live workers are its own or strays of a killed process.
  Theorems: `DaemonTypeCorrect`, `ReadyIsFreshHolds`, `NothingLeftRunningHolds`,
  `OneWorkerHolds`.
* **`ActorMeshProofs`**, any nodes, callers and connections. `Flow`: every frame
  under way carries what a thread asked or a handler made for that id, so no
  duplicate, delayed or cut frame can be another's answer. `Await`: a pending
  entry has an empty box and one thread of its node that waits for it, and no
  two threads wait for one request. `Once`: an id that was handled is marked as
  seen, was forgotten, or is on no wire to that node any more. Theorems:
  `MeshTypeCorrect`, `OwnReplyHolds`, `PendingIsAwaitedHolds`,
  `OnceUnlessForgottenHolds`, `NestedNeverAnsweredHolds`.
* **`SchedulerProofs`**, any jobs, loops and clocks. `Loopwise`: unless a stop
  left a loop behind, only the scheduler's own thread is in its loop. `Fading`:
  the late runs of a cancelled job and the snapshots that still hold it are no
  more than the loops together. `Apart`: a job that ran is being run, or gone, or its next run lies its interval away.
  Theorems: `SchedulerTypeCorrect`, `CancelledFadesOutHolds`, and `RunsAreSpaced`
  for the action property `SpacedRuns`.
* **`ExportProofs`**, the two ways audit data leaves the machine, which share no
  state. Of `Transfer`, for any number of transfers, executors, segments and
  executions: the core is `Kept`, what every step does to the outboxes: nothing
  leaves them, and a whole file stays whole or becomes `raced`. `ExecutorInv`
  says of each executor that its copies are whole, that its file is in its hands,
  and that each file it was asked for lies there or is still to do (`Covers`);
  neither property is inductive without it. Theorems: `TransferTypeCorrect`,
  `ShippedIsWholeHolds`, `ExecutedIsCompleteHolds`.
  Of `SiemQueue`, for any threads, processes and faults: `NothingForgotten` is
  not inductive, since a rewrite is safe only if the flush answers for what it
  erases. `Accounted` says so: all it loaded is still held, delivered or given
  up, and all its own process wrote into the file it has loaded, because the
  lock of the process keeps appends out meanwhile. What a fault or the rewrite of
  another process takes out of the file beyond that is noted in `gone`; for this
  every write, whole or broken off, is brought under one form (`Blend`: the front
  of what was to be written and the back of what was there). `Sure` says of a
  body that is not in `unsure` that there is one copy of it: one thread has it,
  it is one row, and once it was delivered nobody holds it and only the flush
  that delivered it leaves its row in the file. Theorems: `SiemTypeCorrect`,
  `NothingForgottenHolds`, `TwiceOnlyUnsureHolds`.

Model-checked only: the liveness properties (`AgedRowsLeave`, `OutageEnds`,
`RunCompletes`, `AtLeastOnce`, `RequestsEnd`, `DueRuns`, `DeathIsNoticed`), since
liveness under fairness is beyond the prover.

## 14. What is known not to hold

The runs of section 12 ask what does hold. An item that names a
configuration is shown by it: `tlc -config <file>.cfg <module>` ends with a
trace. The others were found in the same way and are told here.

* **Two archivers lose rows** (`MCAuditTwoLoss.cfg`, `MCAuditArchive`). Both
  pick the same segment number. The one with the longer prefix seals, verifies
  and is about to delete; the other renames its shorter file over the segment; the first
  deletes rows that are in no segment any more.
* **A crash wedges archiving** (`MCAuditWedge.cfg`, `MCAuditArchive`). After a
  crash between `os.replace` and the manifest, the next number is computed from the manifests
  and refused because of the jsonl file, in every later run.
* **A circuit stays open for ever** (`MCLlmStuck.cfg`, `MCCompositeLLM`).
  `record_success` publishes the close event and then clears `opened_at`. If another caller's
  failure opens the circuit during the publish, its `opened_at` is erased and
  the cooldown never ends. Two threads are enough, as for the next five.
* **A second probe in one half-open period** (`OneProbe` without `Recording`).
  `record_failure` frees the slot (`resilience.py:160`) and `_transition` ends the
  period (l.90); in between another caller is admitted. The same between l.149 and
  l.90 of `record_success`.
* **The slot stays taken outside the period** that second probe began in: the
  circuit is open, or closed, with `half_open_probe_inflight` still true until its
  answer comes. The slot has an owner (`SlotIsHeld`), and the next half-open
  period frees it.
* **A circuit stays locked for ever** (`LockedIsDated`). A reset falls between the
  dating of a lockout (l.174) and the change of state (l.90): the circuit is locked
  and has no `locked_at`, so no lockout ends. Only another reset helps.
* **A circuit is closed with `failure_threshold` failures**
  (`ClosedBelowThreshold`). Failures are counted between the zero of
  `record_success` (l.148) and its change of state.
* **A cooldown is cut short** (`CoolingIsLeftAlone`). One thread has dated the
  opening and not yet set the state, and another is admitted; or a snapshot that
  found the circuit cooled down sets it half-open (l.123, l.90) after a failure has
  opened it again.
* **A resumed run completes too early** (`MCWorkflowReload.cfg`,
  `MCWorkflowEngine`). The run fails after step a of (a, b); the file is edited
  to the single step c and reloaded; the resumed run counts one step done of one
  and is completed.
* **The mesh silently loses events** (`MCMeshSilent.cfg`, `MCEventMesh`). What
  is published while an ingested event is being emitted finds the forwarder off the bus.
* **Hot and cold do not form one chain** (`ChainSpansHotAndCold`, against
  ADR-019 "chain integrity remains verifiable across hot + cold"). Trace, with
  one archiver and no fault: row 1 is recorded; retention reads, seals,
  verifies and deletes it; the table is empty, so row 2 is chained to
  `GENESIS_HASH` and not to row 1 in the segment. It happens whenever
  everything is aged, normally with the retention's own record.
* **A listed segment can stop verifying with two archivers**
  (`SegmentsIntact`). Both write the shared .tmp name; the first to rename moves
  the rows of the other into place and writes a manifest of its own rows. Its
  own verification reports it, but the segment stays listed.
* **A late answer ends a lockout early** (`LockoutLasts` with two callers). Two
  callers are admitted while the circuit is closed; the failure of one locks
  it; the late success of the other closes it at once.
* **A completed step runs again with two processes**
  (`CompletedStepsAreSkipped`). The CLI resumes a run whose daemon thread is
  between the return of a step and its checkpoint; the CLI starts the step too.
* **A completed run is reopened** (`CompletedIsFinal` with two processes). The
  CLI has loaded the run, still running, into its memory; the daemon completes
  it; the CLI checks its own copy, finds it unfinished and writes "running"
  over "completed".
* **Acks and emissions with two ingesting threads per node**
  (`AckedWasHandled`, `OncePerLife` and `AtLeastOnce` for all nodes instead of
  `Sole`). The second thread finds the event in
  `_seen` and acks it while the handlers of the first have not run; if the
  process dies then, they never will. The first thread may also have emitted
  what the second, past the check at the same time, emits again.
* **A handler's own request is never answered** (stated as
  `NestedNeverAnswered`). The receive thread waits in the handler for a reply
  that only the receive thread could take. The request ends with its timeout,
  and so do those of everybody who waits for this node meanwhile.
* **Jobs run twice after a stop that gave up** (`SpacedRuns` and
  `CancelledFadesOut` without `overrun`). A callback outlasts the two seconds of
  `stop()`, which forgets the loop; the next `start()` clears `_stop` and makes
  a second loop, and the first goes on as well.
* **Threads outlive a shutdown** (`NothingLeftRunning` without `unstopped`).
  `Scheduler.stop()` and `ActorMesh.detach()` join for two seconds and give up
  (`runtime/scheduler.py:188-190`, `runtime/actor_mesh.py:591-593`), and
  `shutdown()` swallows what its stages raise (`kernel/boot.py:89-103`) and empties
  the container in any case. A new boot then starts a second scheduler loop, and
  the old one goes on until its callback returns and its list of due jobs is done.
* **Threads outlive a failed or finished boot** (`NothingLeftRunning` without
  `orphans` and `Detached`). When a fatal facet of `build_actor_mesh` fails, the
  boot goes on without a mesh, and nobody holds the facets already started; the
  certificate watcher is stopped by no `detach()` either.
* **A hanging worker stops `kerrd`** (`DeathIsNoticed` without `Stuck`). `call()`
  takes a timeout and reads the pipe without one; while the ping waits, no other
  death is noticed.
* **A transfer whose PUT failed cannot be repeated.** The files lie in the outbox,
  the next execution skips them all and fails with "no artifacts produced",
  unless a segment has been sealed in between.
* **A torn copy stays.** A copy cut short keeps its final name and is skipped from
  then on. `ShippedIsWhole` says that no manifest names it and no PUT sends it,
  `ExecutedIsComplete` no more than that a file of that name is there.
* **Two executors of one transfer may ship a file while it is rewritten**
  (`ShippedIsWhole` without `raced`). Both find the name free; the second opens,
  and so truncates, what the first has just copied and is about to send.
* **Two processes lose and repeat SIEM rows** (`NothingForgotten` without `gone`,
  `TwiceOnlyUnsure` without `unsure`). The lock is of one process: the rewrite of
  one drops what the other appended since the load, and both post what both
  loaded.
* **Failing writes lose and repeat SIEM rows in one process** (the same two, without
  a second process or a crash). An append that raises is swallowed
  (`siem_push.py:89`) and the body is gone. A `_save_rows` that raises at its write
  has emptied the file (`siem_queue.py:76`) and loses what it had yet to write; one
  that raises at its `open` leaves the rows that were just posted, and the next
  flush posts them again. A line cut short, by an error or by the end of the
  process, has no newline: the next row is appended to it and `_load_rows` skips
  both (`siem_queue.py:65-70`).

Seen while reading code that is not modelled:

* `kerrd restart-service` starts the worker in its own process and ends, and the
  worker with it; the daemon's worker is not touched (`runtime/kerrd.py:154`).
* `./kerrd start --watchdog` (`docs/PHASE2.md:22`) ends in a usage error: the
  parser knows no such option (`runtime/kerrd.py:108-119`).
* `apply_plan()` before `plan()` never returns: `plan()` takes the lock that
  `apply_plan()` holds, and it is not reentrant
  (`runtime/nats_supercluster_ops.py:165`).
* A certificate reload that raises is not tried again: the new modification times
  are recorded first (`runtime/acme_reload.py:210`).

## 15. What is not modelled

Of the modelled components:

* archive: hash and HMAC computation, RBAC, the SIEM forwarder and object-lock
  mirror behind it; LLM gate: `enabled = false`, error texts, telemetry;
  workflows: contexts, results, listing queries, YAML parsing and
  `KeyboardInterrupt`;
* event mesh: file, HTTP and NATS transports, several buses, detach, peers. The
  HTTP transport pushes into the `ingest` that is modelled; neither it nor the
  file transport has acks, so there is nothing they promise to relate to;
* actor mesh: the NNG and NATS backends, tokens, TLS, configuration;
* services: actor supervision with its tree and hook, which nothing can fire for a
  local actor (section 1); `restart()`, which only that hook and a process of its
  own call; `call()` apart from the ping; the health report and the watchdog;
* scheduler: the parsing of cron expressions; `agent_jobs`, a JSON list that
  nothing marks as run; unit files for systemd;
* SIEM: the rate limiter, which is counters under one lock;
* transfer: `export_jsonl`, the erasure ledger, crypto-shredding and residency
  rules, which are single transactions without retries.

The rest is left out as a whole:

* process registry, goal state: one lock and a reader thread per external program,
  whose output is the rest of the state;
* task completion: text heuristics and counters of one thread;
* approval queue: a sequential program without a protocol, since any status may
  replace any other (section 1);
* router, tools and gates, gateway channels, memory and retrieval, agents, CLI,
  provider adapters, identity and compliance, and the renderers for certificates,
  packages, clusters and inventory: parsing, formatting, ranking and calls to
  external systems, each decided from one call alone. They are most of the code by
  lines and hold next to none of its interleavings;
* the self-refactoring loop, a stub whose guard is never true.
