# TLA+ models of zkm-prover

zkm-prover is a parallel proving service: a *stage server* takes requests for
zero-knowledge proofs of MIPS programs, has each program split into segments, has
the segments proved and the proofs aggregated by a pool of *prover nodes*, and
reports a status per request. This directory holds TLA+ modules that model the
stage server and the prover processes, the TLC runs that check them on small instances, and TLAPS proofs
of its safety properties and refinements for every instance. `PROJECT.json` maps every
definition to the source lines it models.

All paths below are relative to the repository's root.

## The system

| Component | State | Operations | Interaction |
|---|---|---|---|
| Stage (`proof-service/src/stage/stage.rs`, `stage/tasks/`) | step, split task, prove tasks, aggregation tasks, snark task, `is_error`, `is_tasks_gen_done` | `dispatch`, `get_*_task`, `on_*_task`, `gen_*` | owned by one worker loop; polls the directory the splitter writes |
| Aggregation graph (`stage.rs: gen_agg_tasks`, `agg_task.rs`) | tasks with inputs and unfinished children | built once, when the split reports | children are cleared as results arrive |
| Worker loop (`stage/stage_worker.rs: run_stage_task`) | the Stage, a result channel, `cur_prover_num`, the remembered `check_at` | one turn: start calls, wait for a result or 200 ms, dispatch, update the row | spawns one tokio task per prover call |
| Prover client (`prover_client.rs`, `prover_node.rs`) | a global node table (Idle, Busy, OffLine since), cached channels, one `cur_prover_num` per job | `split`, `prove`, `aggregate`, `snark_proof`, `single_node` | shared by all calls of all jobs, no lock held across an await |
| Stage service and TaskManager (`stage/stage_service.rs`, `stage_worker.rs`) | task channel (256), semaphore | `generate_proof`, `get_status`, `process_tasks`, `load_incomplete_tasks_from_db` | gRPC handlers in parallel; rows survive a crash |
| Database (`database.rs`, `migrations/`) | one `stage_task` row per proof: status, step, `check_at` | insert (primary key), status update, compare-and-set on `check_at`, query of incomplete rows | the only state that survives |
| Splitter (`prover_v2/src/executor.rs`, `prover/src/executor`) | v2: a bounded channel of checkpoints, the turn, shard and segment numbers, deferred events; `segments.txt`, segment files, deferred proofs | a generator thread and trace workers; publishes a number, then writes files, in parallel | another process; talks to the stage through the directory and the answer of `split_elf` |
| Prover service and pipelines (`prover_service.rs`, `pipeline.rs`, `prover_v2/src/lib.rs`) | v1: a mutex per node; v2: caches of programs and keys, `SHARD_SIZE` in the environment | one blocking thread per RPC, which outlives a call that is given up; panics caught | answer Ok, Busy or InternalError |
| Provers (`prover/src/provers`, `prover_v2/src/*_prover.rs`) | none of their own | cryptography, under the caches' locks | called by the pipelines |
| Files (`common/src/file.rs`) | the elf cache, one directory per proof | create, then fill | shared by handlers, runs and provers |
| Configuration, TLS, metrics, proto, examples | none that matters to the protocol | | |

What is hard here: results of concurrent calls arrive in any order, some before
the graph they belong to exists; tasks are handed out before it is known how many
there are; the limit on provers is checked, dropped and checked again around
awaits; the node table is shared by jobs and outlives them; requests are stored
and queued in two steps and success is stored in two updates, with crashes and
cancelled handlers in between; rows are reloaded by a comparison of second-resolution
time stamps; files are created before they are filled, and checked by their existence; the
threads of a split wait for turns, guards and room in a channel, any of which a panic can take
away; a prover may still be at the work of a call nobody waits for. The list of these hazards, at their lines, is `hazards` in
`PROJECT.json`.

What makes each component correct:

* the graph: the final proof covers every segment once and in order, and every proof has exactly one consumer;
* the stage: nothing is aggregated that does not exist, nothing finished is lost or redone, no wake-up is lost, success means the promised proof exists, an error has a cause, the job ends;
* the client: a node serves one call at a time, is given back, the limit of a job is kept, every call returns;
* the splitter: segments are numbered in the order of the execution, an answer means that all is written, and it comes;
* a prover: one proof at a time (v1), the options of the task's own job (v2), no thread waits for ever;
* stage and client together: what a call hands back is what the stage can deal with, and a task that is offered again and again is computed;
* the lifecycle: a stored request is run once at a time and to a final status, through retries and crashes, and a final row is final.

## Modules

* **`AggGraph`** – `gen_agg_tasks` of both builds (`Feature`) as operators over a number
  of segments and deferred proofs. Tasks are named by their index instead of a uuid.
  The v1 placeholder task (`init_from_single_prove_task`) shares the id of its root proof;
  `LeafRef` is that identity.
* **`AggGrowth`** (extends `AggGraph`) – grows the graph one segment or deferred proof at a time and compares it
  with a reference definition of what each task proves (`Covered`) and with the parents of each proof.
* **`Stage`** (extends `AggGraph`) – one job. `pc` follows the loop of `run_stage_task`:
  `dispatch` → `top` (`ScheduleProve`, `ScheduleSnark`, `ScheduleNothing`) → `select`
  (`OnSplit`, `OnProve`, `OnAgg`, `OnSnark`, `Tick`) → `dispatch` (`Break` or the arms of
  `Stage::dispatch`) → `finish`. One action is the code between two awaits. A call in flight is an element of
  `calls`; it ends with any state of `Results`, which covers everything `ProverClient`
  hands back. A receipt is the sequence of root proofs it covers, so that order and
  completeness of the result can be stated. The splitter is two actions on the shared
  directory, and a resumed job finds an earlier run's files (`Init`).
* **`Splitter`** – what the stage relies on when it polls a directory: the number only grows, files
  are announced before they appear, and all are there when the split answers.
* **`SplitExecutor`** – one `Executor::split` of v2: `main` (load, join, save), the `generator`, and the
  workers with one `at` per stretch between waiting points. The guards of `state`, `deferred` and
  `segment_index` are taken in this order by the worker whose turn it is and live to the end of the
  loop's body, so they are one `lock`. A segment is its checkpoint, its shard number and the
  deferred events it commits to. A panic poisons the guards, and before `advance_turn` it takes the turn
  with it. Implements `Splitter` (`KeepsContract`).
* **`ProverNode`** – a prover process: a request occupies a thread (`Arrive`), which goes on when the
  client gives the call up (`GiveUp`). v1: `TryLock` and poisoning; v2: `SetVar`, `ReadOpts`, `RemoveVar`
  on the environment and `LockProgram`, `TraceCheckpoint`, `LockKey` on the caches. The client is the
  environment: it waits for at most one call per node, which is `NodeExclusive`, proved of `ProverClient`.
  Agg and Snark take the same path in either build; the instance has Agg.
* **`ProvingSystem`** (extends `Stage`, instantiates `ProverClient`) – one job whose spawned calls run
  through the client. `Deliver` is the client's `Collect` and the stage's `On...` in one step, with the state
  the client left the task in. Its property `ImplementsStage` is `Stage!Spec`: the composition refines
  the stage that was checked and proved with an arbitrary environment.
* **`ProverClient`** – the five calls of `prover_client.rs` over one node table, one action per
  stretch between awaits. `"Expired"` stands for OffLine for 180 s.
* **`TaskLifecycle`** – `generate_proof` with the files it writes (an elf or a set of inputs is
  none, torn or whole), the task channel, the semaphore, the row writes of
  `run_stage_task` (both kinds of task), crash and reload. What a run computes is left to
  `Stage`: here a run ends in success or error at any time, or it dies (`RunDies`): the `Doomed` proofs, unless an
  error comes first, by what was asked for, and others of inputs that another request with the same id has torn. Looking for the
  cached elf, creating it and filling it are three steps. `RestartDelay`,
  `ClientsLeave` and `IoErrors` switch the environment's faults. The history variable `dropped` remembers why nobody
  works at a proof any more; no action reads it.
* **`JobQueue`** – the abstract server: jobs wait, run (at most `MaxConcurrent`), are interrupted or
  finish, and never start again then. `TaskLifecycle` implements it (`ImplementsQueue`).
* **`MCAggGraph`, `MCStage`, `MCProverClient`, `MCProvingSystem`, `MCProverNode`, `MCSplitExecutor`,
  `MCTaskLifecycle`** – instances for TLC.
  `MCAggGraph` has `AggGrowth` once for each build.
* **`AggGraphProofs`, `AggGrowthProofs`, `StageProofs`, `ProverClientProofs`, `ProvingSystemProofs`,
  `ProverNodeProofs`, `SplitExecutorProofs`, `TaskLifecycleProofs`** – the theorems. `AggGrowthProofs` and
  `StageProofs` rest on `AggGraphProofs`, `ProvingSystemProofs` on `StageProofs`.

Operators with names such as `ForgetsSuccesses` or `IgnoresBusy` stand before the definition
they vary: each is a plausible mistake in that code, used to see that a property notices it
(`mutants` in `PROJECT.json`).

## Runs

`tlc -config <cfg> <module>` in this directory.

| Run | Shows |
|---|---|
| `agg_graph` | `FinalCoversExecution`, `OneParent` and `TaskCountBound`, the bound of the unit test, for 1–130 segments (v1); the first two also for 1–24 segments with 0–5 deferred proofs (v2, `GraphOfV2`) |
| `stage_v2` | all safety properties of a job, 3 segments + 1 deferred proof, 2 provers, every kind of request that gets to the loop (a `block_no` does not); `PanicHasCause`: the one on which the run dies |
| `stage_v1` | the same loop over the v1 graph of 3 segments: `AggInputsReady`, `SuccessMeansProof`, that the loop never waits without a call in flight (`WaitsForACall`) and that every job ends (`EventuallyReported`) |
| `client_snark` | `NodeExclusive`, `NoNodeLost`, `ProverCap` with calls of two jobs on two nodes |
| `client_live` | `CallReturns` beside a single-node call with a failing database |
| `node` | `OneProofPerNode` (v1), `OwnShardSize` (v2, on nodes where no call was given up), `NodeAnswers` |
| `split_exec` | `SegmentsInOrder`, `AnswerIsComplete`, `KeepsContract`, `SplitAnswers`: 3 workers, 3 checkpoints, a channel of 1, errors and panics |
| `system` | `ImplementsStage`, `JobReported`: a job, the client and two nodes |
| `lifecycle_restart` | `CheckAtKnown`, `EventuallyFinal` through a crash: an ordinary, a single-node and a doomed proof, in an environment without faults |
| `lifecycle_faults` | what holds with repeated requests, leaving clients, failing updates and files, a full channel, two crashes and an instant restart: `RunsAtMostOnce`, `ComputingIsProcessed`, `FinalStatusKept`, `FilesIntact`, `ImplementsQueue` |

Two runs state what the code says of itself and find that it does otherwise (`findings` in `PROJECT.json`):
`split_panic` (a panic of a trace worker is not answered with an error: another worker waits for a turn
that nobody passes on) and `system_starved` (a failed root proof that draws its old node keeps its place in
`cur_prover_num`; at `max_prover_num` = 1 it is never tried again).

### Where code and documents differ

Met while modelling; the models follow the code.

* A root proof is in error after its fourth failure, not when the "failure count reaches 3"
  (`stage.rs:74`): the count is compared before it is raised. `ErrorHasCause` has the code's limit,
  and a version that compares the raised count violates it.
* `docs/grpc-api.md:20-22` tells SPLIT_ERROR, PROVE_ERROR and AGG_ERROR apart by what failed. The status is
  derived from `stage.step` (`stage_worker.rs:297`), which is Prove from before the split to the end of the
  aggregation: all three are PROVE_ERROR.
* `docs/grpc-api.md:17` says of COMPUTING that "The task is currently being processed." A row can stay
  COMPUTING with nobody at work on it. `ComputingIsProcessed` says exactly when (`Excused`), and that
  there is no other way:
  * its run has died. A composite job with target Snark, the default, ends without a proof file and dies on
    reading it (`stage_worker.rs:311`, `PanicHasCause`); a job with a `block_no` above 0 dies at a `todo!()`
    (`generate_task.rs:42`); both die again after every restart. Others die if an update or a file
    access fails, or if a second request with their id has torn their inputs while they were being read;
  * a crash interrupted it and it is a single-node job: it is loaded, found begun and dropped
    (`stage_worker.rs:70`);
  * the reload passed it over: a row touched in the second of the reload is not loaded, since
    `check_at < now` is strict (`database.rs:54`), and the load stops at a full channel (`stage_worker.rs:419`);
  * its client went away while its handler waited for room in the channel (`stage_service.rs:563`).

Some assumptions of the passing runs are there because the property fails without them:

* `NoNodeLost` with `DbErrors = TRUE` and a single-node call: `single_node` leaves through `?`
  when its update of the row fails, and the node stays Busy (`prover_client.rs:512`).
* `CheckAtKnown` with `IoErrors = TRUE`: the first update of a run may fail unnoticed, and the run then remembers
  a `check_at` that is not in the row (`stage_worker.rs:153`).
* `EventuallyReported` and `WaitsForACall` with the result `Processing`, `EventuallyReported` also for a composite job with target Snark.
* `JobReported` without its exception for a failed root proof: `system_starved`.
* `OwnShardSize` on a node where a call was given up: the old thread may set or remove `SHARD_SIZE`
  between `set_var` and the reading of the options (`prover_v2/src/lib.rs:37`).
* `NodeAnswers` beside a split that hangs: it holds both caches for ever.
* `SplitAnswers` after a panic: `split_panic`.

### Bounds

* Stage: 3 segments and a deferred proof give the v2 graph four leaves, two inner tasks and a
  final one, so results cross layers; `Prealloc = 2` makes the vector grow (by
  `segments.txt` and by `total_segments`); `stage_v1` has 4 and truncates it. 3 segments are the smallest v1 graph with a placeholder; that one is
  carried over several rounds in larger graphs is part of `agg_graph`. `MaxProverNum = 2` lets two calls of each kind overlap
  and still blocks; `MaxFailures` is 3 as in the code in `stage_v2`, 1 in `stage_v1`.
* ProverClient: two nodes, because "the same node again" needs an alternative; one place,
  because the limit matters when it is reached; two jobs, because the node table is shared and
  the counter is not.
* TaskLifecycle: in `lifecycle_faults` two proofs, one requested twice, sharing an elf; two crashes, so that a reloaded
  task is interrupted again; two seconds of clock; a channel of one, so that handlers wait and a reload stops; one
  permit, so that a task waits in the hand of `process_tasks`. `lifecycle_restart` has three proofs of different kinds,
  asked for once each, two permits, a crash, and a channel that holds just as many as there are.
* SplitExecutor: three workers and three checkpoints, so that two wait for a turn while one has it; a
  channel of one, so that the generator blocks; up to two records of deferred events per checkpoint, so that
  events pass over checkpoints (`MaxRecords` is at least 1, or the events that wait at the last checkpoint
  would have no record to go to and the model would stop where the code does not). `split_panic` needs only two of each.
* ProverNode: two threads, the one the client waits for and an orphan; every kind of task that differs,
  one of them of a job with another segment size.
* ProvingSystem: one segment (prove, aggregate, snark), two nodes and two places; the same run
  with v1 and two segments on one node has been made once. Larger graphs are `stage_v2`'s, whose steps
  these runs refine.
* Deadlock is checked in `Stage`, `ProverClient` and `ProvingSystem`. The lifecycle may come to rest (all
  requests done, bounds used up), so may a node without requests and a split that is answered, and the
  graph enumeration stops at its bounds.

### Fairness

`Stage`: the loop is an async task that is always polled again (weak fairness of the loop's own
steps) and the splitter makes progress (weak). A call is answered strongly fairly with
something other than "not taken": a task that is offered again and again eventually gets a
node. `ProvingSystem` replaces that assumption by weaker ones about the client: spawned calls are
polled, 180 seconds pass, the loop does not prefer its timer to a result for ever, and of all connections and
all RPCs of the job together not every one fails for ever (strong fairness of *some* connection, *some* computed
answer and *some* delivery). `JobReported` then says that jobs end as long as no place has leaked. The live
run of `Stage` leaves out the outcome `Processing`, which `ImplementsStage` shows never to come from
this client, and composite jobs with target Snark, which die (`PanicHasCause`). `ProverClient`: a spawned call is polled until it returns and
its RPC is bounded by `TASK_TIMEOUT`. `TaskLifecycle`: handlers, receiver and runs are
polled; a run ends, by `EventuallyReported`, or dies, as a doomed one; a crashed server is restarted. `SplitExecutor`: every thread
is scheduled (weak). `ProverNode`: a thread runs on and its work ends unless it hangs (weak); a cache's
parking_lot mutex, whose unlocking is eventually fair, is had by a thread that waits for it while it is given
back again and again (strong). Nothing is assumed of clients.

## Proofs

`tlapm <module>.tla` for each of the eight modules below. The theorems hold for every value of the constants
that satisfies the assumptions of the module they are about (`FeatureAssumption`, `StageAssumption`,
`ClientAssumption` and `DbAssumption`, `NodeAssumption`, `LifecycleAssumption`, `ExecutorAssumption`): sizes are
natural numbers, non-zero where the code would not start otherwise, and the calls and the stored proofs are
finitely many. Each inductive invariant was checked with TLC on the instances of the runs before it was proved.

| Module | Theorems (and the property each one states) |
|---|---|
| `AggGraphProofs` | `GraphCoversExecution`, `OneParentEach`, `EveryProofCombined`, `AtMostOnePerSegment`, about the operators |
| `AggGrowthProofs` | `FinalCovers` (`FinalCoversExecution`), `EveryProofHasOneParent` (`OneParent`), `TasksBounded` (`TaskCountBound`): what the run `agg_graph` checks up to its bounds, for both builds (`GraphOfV2` is the first two of v2) |
| `StageProofs` | `TypeCorrect`, `AggregatesExistingProofs` (`AggInputsReady`), `CallsMatchTasks` (`OneCallPerTask`), `ProofsAreKept` (`FinishedProofsKept`), `ErrorsHaveCause` (`ErrorHasCause`), `PanicsHaveCause` (`PanicHasCause`), `WaitsExactly` (`WaitsForUnfinished`), `SuccessIsProved` (`SuccessMeansProof`), `NeverWaitsForNobody` (`WaitsForACall`, if `Processing` is not in `Results`) |
| `ProverClientProofs` | `TypeCorrect`, `NodesExclusive` (`NodeExclusive`), `CapRespected` (`ProverCap`), `NodesReturned` (`NoNodeLost`, if `DbErrors` is FALSE) |
| `ProvingSystemProofs` | `SystemImplementsStage` (`ImplementsStage`) and `SystemSuccessIsProved` (`SuccessMeansProof`), if `Results` holds `Unprocessed`, `Success` and `Failed`; `SystemNeverWaitsForNobody` (`WaitsForACall`), if it holds just these; `SystemImplementsClient` (`Client!Spec`) |
| `ProverNodeProofs` | `TypeCorrect`, `OneProofAtATime` (`OneProofPerNode`), `ShardSizeIsOwn` (`OwnShardSize`), `NoCircularWait` |
| `SplitExecutorProofs` | `TypeCorrect`, `NumbersFollowExecution` (`SegmentsInOrder`), `OkIsComplete` (`AnswerIsComplete`), `ContractKept` (`KeepsContract`), `SplitNeverStuck` |
| `TaskLifecycleProofs` | `TypeCorrect`, `OneRunAtATime` (`RunsAtMostOnce`), `FinalIsKept` (`FinalStatusKept`), `FilesAreIntact` (`FilesIntact`), `UpdatesHit` (`CheckAtKnown`, if `IoErrors` is FALSE), `NothingLeftLying` (`ComputingIsProcessed`), `QueueImplemented` (`ImplementsQueue`) |

The hypotheses of the conditional theorems are the ones under which the runs check the property; what goes
wrong without them is listed above. `NothingLeftLying` has none: what the environment can do to a row is in the
statement of `Excused`.

**`AggGraphProofs`.** `AggCount` and `AggInputs` follow the `while` loop of `gen_agg_tasks` through the function
`Rounds`. The induction principles of the library take an operator as a parameter, which the provers here
cannot instantiate; induction over a *set* of naturals needs none. `Least` and `SetInduction` get it from the
well-foundedness of `<` (`WFMin`, `NatLessThanWellFounded`), and `Recursion` shows with it that a function like
`Rounds` exists and satisfies its equation. Two facts are then carried from round to round. `Forest`: the list
still to be combined has no doubles, nothing in it has been combined, and no proof is in two tasks. `Tiled`:
there is an assignment of spans of the execution to tasks under which the list is a row of adjacent spans from
the first segment to the last deferred proof, and each task joins neighbours. When one reference is left it
spans everything. A third, `Placed`, says that each proof so far is in the list or combined by some task: with one
reference left, every other proof is combined (`EveryProofCombined`).

**`AggGrowthProofs`.** The invariant is that the state is the graph for `n` and `d`; the work is in `Covered`,
the recursive reference definition of what a task proves. The intervals of `GraphCoversExecution` satisfy its
equation (`JointIs`: joining adjacent intervals gives an interval), so that `Covered` has a solution,
and a first task on which it differed from them would have inputs on which it does not (`CoveredIs`).

**`StageProofs`.** The inductive invariant `IInv`:

* `TypeOK`, which also fixes each task's inputs to those of `AggGraph`;
* `CallsLive`: a call's task exists and is Processing – needed because a result is applied
  only then, and because the truncation must not meet a call: a prove task is only handed out
  when its segment file exists, and files exist only below `Segments`;
* `CallsUnique`: one call per task;
* `BeforeGraph`: before the split's report there is no graph and no call into it;
* `NotYetStarted`: what a job that has not left its first step looks like;
* `ChildsCoverInputs`: an unfinished input of an unstarted task is among its children. This is the
  half of `WaitsForUnfinished` that safety needs; together with the guard of `get_agg_task`
  it gives `AggInputsReady`.

The outcome of a job takes more, each part resting on the ones before:

* `ErrorLasts`: an error and its cause are there together and the loop is on its way out. Without it the first half of
  `ErrorHasCause` is not inductive: a failed task could be retried while `is_error` stays. The second half, about the result
  that makes the error, follows from it and the types step by step.
* `Course`: what a job must have done to be in its step, in its loop and with its status – among it that
  the step Snark of a job from Init comes after every root proof and every aggregation. `PanicHasCause`
  is a part.
* `GraphBuilt`: the vector `agg` is the graph of `AggGraph` for this job.
* `NoStaleChild`: nobody waits for a proof that exists, the other half of `WaitsForUnfinished`. It holds because
  a proof has one parent (`OneParentEach`): `clear_agg_child_task` stops at the first.
* `Receipts`: each finished proof and each call in flight covers the span that `GraphCoversExecution` gives its
  task; the snark's input is the whole execution or the client's receipt; the proof file has what the
  last task produced. With `Course` this is `SuccessMeansProof`.
* `Awake`, for `WaitsForACall`: every Processing task has its call (`HeldIsCalled`, the converse of `CallsLive`),
  a failure that is not retried is on its way out of the loop (`FailuresEnd`), what was generated is to be done
  (`Generated`), and `dispatch` leaves nothing undone that needs no result (`Dispatched`). Then, when the loop turns
  with nothing in flight, something is `Unprocessed` and may be started (`SomethingToStart`): a root proof, or
  the first unfinished aggregation, which by `NoStaleChild` and the order of the graph waits for nobody. It is the
  safety part of `EventuallyReported`: what is left to fairness is that calls are answered.

**`ProverClientProofs`.** The inductive
invariant adds `CountedPath` (single-node calls never enter the counted part, and counted calls
never the part that records). `ProverCap` needs finite-set lemmas: one more call in `Reserved` is one more in
`count`; the leak only makes `count` larger, so the cap is safe although places are lost.

**`ProvingSystemProofs`.** The steps of client and nodes leave the stage alone, and a delivery is a step of
`Stage` if the result is one that `Stage` allows without `Processing` in `Results`. So the theorem comes down to: the snark,
the only task that is handed back as it came in, is never refused at `max_prover_num`. `SysInv` says why, on
top of `IInv` and `Course`: `CallsBegun` (a call runs only for a task the loop has at the provers),
`ResultsKnown`, and `PlacesLeft`. A place is lost only when `prove` draws the node the proof failed on
(`LeakedKept`); then either places are left, or some root proof is `Starved`: not finished, without a
place, and unable to get one. At the snark every root proof is finished (`Course`), so places are left, and no other
call holds one (`SnarkHasPlace`). Two theorems of `Stage` are then drawn for the composition, without
hypotheses about what the provers answer. `SystemImplementsClient` says that, on the other side, the
composition is also a behaviour of `ProverClient` for the calls of this job, so that what `ProverClientProofs` proves for any
calls (exclusive nodes, none lost, the cap) holds of the ones the loop spawns.

**`ProverNodeProofs`.** `V1Threads` (whoever computes a proof has the mutex, also the thread of an orphaned call),
`OneCall` (the client has one call at a node; where none was given up, every thread works for it), `V2Threads`
and `VarRemoved` (on such a node the variable is set only between `SetVar` and `RemoveVar` of the one thread
there is). `NoCircularWait` is the safety half of `NodeAnswers`: whoever has `KEY_CACHE` is at work and whoever has
`PROGRAM_CACHE` is at work or waits for `KEY_CACHE` (`Holders`), so that each thread can go on or stands at most two
threads behind one that can, or behind a hung split (`CachesComeBack`).

**`SplitExecutorProofs`.** `MainInv`, `ChannelInv` (the channel holds the last checkpoints sent, in order),
`TracingInv` (each checkpoint received and not yet passed is with one worker, which may have died with it), `LockInv` (the guards
are with the worker whose turn it is), `NumbersInv` (each number below `segment_index` is given once, to a file or
to a segment one worker has still to write), `OrderInv` and `LastInv` (the last checkpoint leaves no event
behind). They give the refinement `ContractKept` step by step. `SplitNeverStuck` is the safety half of
`SplitAnswers`: as long as there is no answer and no panic, some thread can go on (`SomebodyCanGoOn`). If all workers with a
checkpoint wait for their turn, `TracingInv` gives one whose turn it is and `LockInv` frees the guards; if
all wait for the channel, it is not empty, or the generator is not blocked, or it is gone and they end.
The conditions `MainCan`, `GeneratorCan`, `WorkerCan` here and `ThreadCan` in `ProverNodeProofs` are written out, since the
prover has no ENABLED; TLC has compared them with ENABLED on the instances of `split_exec` (with two workers) and `node`.

**`TaskLifecycleProofs`.** `OneCustodian` (a proof is with one handler, place in the channel, hand or permit),
`HeldIsComputing` (and only while its row is Computing – so a reload, which takes Computing rows into an empty
server, makes no second one) and `DownIsEmpty`. On top of it `FilesInv`, `RowsKnown` (what a holder
knows of its row) and `Processed` each carry one theorem, and `QueueImplemented` maps rows and permits to jobs that wait,
run and finish. `Processed` rests on two more: `FirstLife` (before the first crash every task in memory is at the step
Init, so that a task set aside by `BeginSingle` has been through a crash) and `Asked` (a stored row has a request that stored
it, so that, with `FilesInv`, its inputs are torn only by a second one). Each step that lets a proof go then has its excuse
(`DropIsExcused`), and no step takes an excuse back while the row is Computing (`ExcuseKept`).

Only model-checked: the liveness properties (`EventuallyReported`, `CallReturns`, `NodeAnswers`, `SplitAnswers`,
`JobReported`, `EventuallyFinal`), since fairness and ENABLED are outside the prover's reach – of three of them the
safety half is proved, see above – and the two violations. Every invariant, action property and refinement that
a passing run checks is stated by a theorem; for `GraphOfV2` these are `FinalCovers` and `EveryProofHasOneParent`, whose
`Feature` is either build. That a theorem of `ProverClientProofs` may be read
through the instance `Client` of `ProvingSystem` is the usual meaning of INSTANCE; it is not restated there.

## Not modelled

* Contents of files and messages beyond none, torn and whole; metrics, logging, `prove_task` rows (statistics
  only); the branch for an unparsable context, which `generate_proof` never stores.
* Users and signatures beyond "rejected"; `get_status`, which only reads. Two sequential mistakes there are in the hazards:
  an unknown id is answered with status 0, which is SUCCESS, and a v1 job that started from an aggregation has no
  `output_stream` to read.
* The provers' cryptography and the external executor libraries (`zkm_emulator`, `zkm_core_machine`, the SDK).
* Two splits of one job at a time (after a timeout) in one directory: they write the same segments.
* The eviction of the caches (5 entries): whatever is evicted is computed again under the same lock.
* S3, configuration, TLS, generated code, the example client and build scripts: no protocol state.

## Plan

Done: `AggGraph`, `AggGrowth`, `Stage`, `ProverClient`, `TaskLifecycle`, `SplitExecutor`, `ProverNode`, `ProvingSystem` and the
abstract `Splitter` and `JobQueue`, with every safety invariant, action property and refinement of the runs
proved. What could follow:

1. Two jobs in one composition, which share the node table; so far `ProverClient` has them without their stages.
2. Two splits of one job in one directory after a timeout.
3. Shorter proofs where lemmas can be shared.
