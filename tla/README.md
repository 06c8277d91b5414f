# Formal model of the ATC task step and worker pool

This directory holds TLA+ models of the parts of the Concourse ATC found under
`src/`. It also holds the TLC configurations that model-check them and TLAPS
proofs of their main invariants.

## 1. The system (inventory)

| Part | Source | State | Operations | Status |
|---|---|---|---|---|
| Task step (`exec.TaskStep`) | `src/unnamed/part_004` | `container`, `process`, `exitStatus`, source repository; container properties `concourse:task-process`, `concourse:exit-status` | `Run` (recovery / re-attach / new session), `createContainer` (choose worker, output volumes, image, create, retry), `registerSource`, `Result`, `Release` | modelled (`TaskStep`) |
| Worker pool (`worker.pool`) | `src/worker/pool.go` | none of its own; reads the registry and the workers | `AllSatisfying`, `Satisfying`, `FindOrCreateBuildContainer`, `findWorkerNotRunningVTXTask`, `FindOrCreateResourceCheckContainer`, `CreateResourceGetContainer`, `FindContainerByHandle` | modelled (`WorkerPool`, contract `PoolPlacement`) |
| Worker registry (`db.DB.Workers`, `SaveWorker`) | `src/db/db.go` | live entries, each worker's reported `ActiveContainers` | expiry by TTL, heartbeat | modelled as the pool's environment (`WorkerPool`) |
| Workers, garden, baggageclaim | not under `src/` | containers, processes, volumes and their heartbeats, `max_containers` | create, run, exit, lose, release | environment of `TaskStep`, modelled from the spec |
| Job build trigger (`CreateJobBuild`) | `src/unnamed/part_000` | none | HTTP handler → `TriggerImmediately` | not modelled |
| Other database code (`db` interfaces, `dbng`, migrations) | `src/db/db.go`, `src/unnamed/part_002`, `src/db/migrations/…` | SQL | interfaces, connection wrapper, migrations | not modelled (I/O) |
| Auth and API types | `src/unnamed/part_001`, `part_003`, `part_005` | none | tests and data types | not modelled |

How the parts interact:
- Steps of many builds run `TaskStep.Run` concurrently, one goroutine each.
- They share the workers through the pool.
- A step first asks the pool for its run container (`FindContainerForIdentifier`). If it finds one, it recovers the result or re-attaches.
- Otherwise it asks `AllSatisfying` for the compatible workers. It picks the one holding most of its input volumes and creates output volumes there. When the worker is full, `CreateContainer` fails and the step retries on the remaining workers.
- The step then streams inputs, starts the script and records its process id as a container property.
- Finally it waits for the exit status, an abort signal or a wait error.
- A restart of the ATC loses everything a step holds in memory. The engine then calls `Run` again, and only what the containers carry (their properties and their process) survives.

The behaviours that make this hard:
- Crashes between two writes to a container.
- A lookup error that looks like "not found".
- The race between the abort signal and the exit in one `select`.
- Volume handles held across failing calls.
- Workers filled by other steps between the check and the use.
- The retry over a shrinking set of workers.

## 2. Modules

`TaskStep.tla` is the core module. Its constants are:
- `Steps`, `Workers`, `TeamWorkers`, `VolumeWorkers`;
- `Inputs`, `Outputs`, `ExitCodes`;
- `MaxContainers`;
- `MaxCrashes` and `MaxLookupErrors`, the bounds on environment faults;
- the model values `NoStep`, `NoWorker`, `NoStatus`, `NoSource`, `SourceName`.

Its state splits in two.
- Durable state, which survives a crash:
  - `containers`, one record per container id: owner, worker, process state and exit code, the two properties, whether output volumes are mounted, the TTL it was released with, whether it was stopped;
  - `nCont`, the container ids handed out;
  - `other`, the containers of other builds per worker;
  - the inputs present in the repository, and the workers on which each input has a volume;
  - the abort flags;
  - the fault counters.
- Per-step memory, which a crash loses:
  - `pc`, the step's place in `Run`;
  - `cand`, the compatible workers still to try;
  - `chosen`, the chosen worker;
  - `held`, the volume handles the step heartbeats;
  - `cont`, `step.container`;
  - `exitStatus`;
  - `reg`, what `registerSource` put in the repository.

Each action models one branch of the code, with its guard and error path:

| Action | Code |
|---|---|
| `NewSession` | `Run` 181–199: lookup found nothing **or failed**, then `AllSatisfying` |
| `Recover`, `Reattach`, `Rogue` | `Run` 150–180: exit-status property / process property / neither |
| `Choose`, `MissingInputs`, `ChooseFails` | `chooseWorkerWithMostVolumes`, `inputsOn`, and the volume and image errors of `createContainer` |
| `CreateContainer`, `CreateFails` | `createContainer` 343–384: success releases the handles; a full worker is dropped and the rest retried |
| `Setup`, `StartProcess`, `SetProcessProperty` | build dir / stream / outputs, `container.Run`, `SetProperty(task-process)` |
| `Interrupted`, `Exited`, `WaitFails` | the `select` of `Run` 255–279 |
| `Release` | `TaskStep.Release` 432–442 |
| `Signal`, `ProcessExit`, `ContainerLost`, `OtherLoad`, `Crash` | the environment: abort, script exit, container loss, other builds, ATC restart |

The whole of each handler is one action. For example, `Exited` registers the
sources, assigns `exitStatus` and writes the property in the code's order.

`MCTaskStep.tla` instantiates it for TLC: two workers, `w1` owned by the team and
`w2` general, one input and one output. Two exit codes, 0 and 1, tell success from
failure.

`TaskStepProofs.tla` holds the TLAPS proofs.

`TaskContainers.tla` is the task step's contract: what `Run`, `Release` and an
ATC restart promise about containers and results, with placement, volumes,
heartbeats and sources hidden. Its state is:
- `box`: per container id, its owner, process state, exit code and recorded `concourse:exit-status`;
- `from` and `reported`: per step, the container and status of the success it returned.

Its actions are `Create` (a free id is handed to a step), `Start` (the script of
a handed-out, unstarted container starts), `Exit` and `Lose`, `Succeed` (a step
returns the code of one of its exited containers and records it), `Forget`
(`Release`) and `Restart`. `TaskStep` instantiates it as `Contract`:
- `box` is the four durable fields of `containers`;
- `from[s]` and `reported[s]` are `cont[s]` and `exitStatus[s]` while `pc[s] = "succeeded"`, and nothing otherwise.

`TaskStepImplementsContract` is `Contract!Spec`. Every other part of `Run` is
a stutter of the contract, and so are the error branches of `container.Run`
and of the exit. `TaskStepRefinement.tla` proves the refinement.

### The worker pool

`PoolPlacement.tla` is the pool's contract (spec 4.3) with every lookup and
retry folded into one atomic step. Its variables are `conts` (the containers on
the workers, each with its caller, identity, kind and worker), `result` and
`got` (what each call returned). A call either finds a matching container
(`Found`), creates one on a worker with room (`Create`), or fails (`Fail`).
A container of a finished call may be destroyed at any time (`Destroy`).
The constant operator `Size` is the number of elements of a set; the pool
instantiates it with `Cardinality`.

`WorkerPool.tla` models `pool.go` as concurrent calls (`Reqs`), each a
sequence of the caller's steps between two remote calls:

| Action | Code |
|---|---|
| `FindBuildWorker` | `FindOrCreateBuildContainer` 141–162: the provider's lookup among live workers; found → delegate |
| `PlaceBuild` | 165–196: `AllSatisfying`, the input-volume count, the workers tied for most inputs |
| `TryWorker` | `findWorkerNotRunningVTXTask` 200–235: found, created, or max containers → skip; none left → error |
| `FindCheckWorker`, `CheckNotFound` | `FindOrCreateResourceCheckContainer` 281–298 |
| `StartGet`, `Satisfy` | `CreateResourceGetContainer` 237–253, `Satisfying` 122–129 |
| `Delegate` | the delegation to the chosen worker (152–161, 255–267, 300–310): a refusal is returned |
| `FindHandleWorker`, `LookupHandle` | `FindContainerByHandle` 313–327 |
| `CallFails` | every `if err != nil { return nil, err }` |
| `Expire`, `Heartbeat` | the registry: `Workers()` drops entries past their TTL; `SaveWorker` stores `ActiveContainers` |
| `Destroy` | a finished call's container reaches its TTL |

`reported` holds the count each worker last saved; `Satisfying` judges room by
it, so a call can pick a worker that others have filled since. The workers'
own find-or-create and their max-containers refusal are one atomic step each
(`CreateOn`, `FoundOn`, `WorkerFull`); their code is not under `src/`.
`TieLoop` is the `workersByCount` / `highestCount` loop, written as a recursive
function over the order in which the provider lists the workers. The action
uses `MostInputs`, the set it should compute, and the run `pool_build` checks
that the two agree for every order.

`Issued(r)` makes calls of one kind and identity run one after another: the
engine re-runs a step only after its previous run ended.

`MCWorkerPool.tla` instantiates it: workers `w1` and `w2` with room for one
container each, one build input, and three calls per run.

## 3. Runs

| Run | Config | Expect | What it shows |
|---|---|---|---|
| `taskstep_safety` | `MCTaskStep.cfg` | pass | 2 steps (symmetric), 1 crash, `max_containers` = 1. The exit-status property is always the real status (`ExitStatusRecordedFaithfully`). A successful step reports its script's status (`SucceededReportsProcessStatus`) and has registered every output (`SucceededImpliesOutputsRegistered`). About 1.3M distinct states. |
| `taskstep_cancel` | `MCTaskStepLive.cfg` | violation | `CancellationReturns` (spec 5: a cancellation during any remote call returns promptly). Fairness covers only the select of `Run` (see below). The step is signalled, the process crashes, and the restarted step sits before placement while other builds keep every worker full. No code path reads the abort there, so the step never returns. |
| `taskstep_unique` | `MCTaskStepUnique.cfg` | violation | `UniqueRunContainer`: create, crash, a lookup error, then a second container for the same step. |
| `taskstep_ttl` | `MCTaskStepTTL.cfg` | violation | `ReleasedTTLMatchesOutcome`: setup fails, then `Release` uses the zero `exitStatus` and gives the success TTL. |
| `taskstep_contract` | `MCTaskStepContract.cfg` | pass | The task step refines `TaskContainers` (`TaskStepImplementsContract`). The configuration is `taskstep_safety`'s without inputs: the mapping hides inputs and volumes, and with them the run takes far longer than five minutes. 2 steps, 1 crash, no lookup errors (`MaxLookupErrors` = 0); about 287k distinct states. A re-attach that starts the script again is caught. |
| `taskstep_leak` | `MCTaskStepLeak.cfg` | violation | `NoLeakedHeartbeats`: `createContainer` fails after choosing and returns without releasing its volume handles. |

| `pool_build` | `MCWorkerPoolBuild.cfg` | pass | Builds of two plans and a lookup by handle, on two general workers. The tie loop equals `MostInputs` in every order (`TieLoopIsMostInputs`). The pool refines `PoolPlacement` (`PoolImplementsPlacement`). Every call returns (`AllCallsReturn`). About 36k distinct states. |
| `pool_resource` | `MCWorkerPoolResource.cfg` | pass | Two checks of one resource and a get of another, with a team and a general worker: `TypeOK`, the refinement and `AllCallsReturn`. About 43k distinct states. |
| `pool_get_full` | `MCWorkerPoolGetFull.cfg` | violation | `GetFailsOnlyWhenAllFull`: a get fails with max containers only when every worker `AllSatisfying` offers is full. Both workers are general. A check fills `w1` before its count is saved, and the get picks `w1` by the stale count. It fails without trying `w2`, which is empty. |
| `pool_unique` | `MCWorkerPoolUnique.cfg` | violation | `BuildContainerUnique`: a build creates its container, its worker misses a heartbeat, and the re-run creates a second container on the other worker. |

Why these bounds are enough:
- With `max_containers` = 1, a second step or another build fills a worker, so the retry path runs.
- Two workers with different team ownership exercise the preference of `AllSatisfying`.
- One crash reaches every crash-between-two-writes case, because each step's progress is a single line.
- In the pool runs, `max_containers` = 1 and a saved count that lags the real one let a full worker pass `Satisfying`. So the skip in `findWorkerNotRunningVTXTask`, the refusal in `Delegate` and the fallback to general workers all happen. Two builds of different plans make the second meet the first one's worker full. Both workers are general in `pool_build`, so the tie loop sees two workers in both orders and with every input placement.
- In the two-step run, lookup errors are off to keep the run under a minute. The single-step runs turn them on.

Each passing property has a mutant: a plausible bug in the mapped code that TLC
catches (`PROJECT.json`, "mutants"). Examples:
- the status formatted before it is assigned;
- recovery without parsing or without `registerSource`;
- a retry that does not drop the full worker.

Fairness in the pool: each call's error-free steps (`ReqStep`) are weakly fair, because they run on the caller's goroutine. Remote failures (`CallFails`), registry expiry, heartbeats and TTL expiry get no fairness. `AllCallsReturn` therefore holds even if every worker stays expired or full forever.

Fairness in the task step: only `Interrupted` is weakly fair. Once an abort is
pending while the step waits in `Run`'s select (`part_004:255-260`), that case
is ready and the goroutine takes it. Every other action of a step is a remote
call (container lookup, create, stream, `Run`, `SetProperty`, `Attach`) with no
deadline and no cancel channel, so nothing makes it answer. An earlier version
made the whole step weakly fair. That assumed every remote call completes,
which the code does not guarantee, and it hid the divergence below. The
environment gets no fairness: scripts may never exit, builds may never be
aborted, other builds may keep workers full.

## 4. Findings

1. **Duplicate run container** (`part_004:150`). `err == nil && found` treats a lookup error like "no container". After a restart, the step creates a second container and runs the script again.
2. **Success TTL for failed steps** (`part_004:437`). `Release` tests `exitStatus == 0`. That is also the value when `Run` errored after creating the container, or was interrupted.
3. **Leaked volume heartbeats** (`part_004:303`, `364`). A failed `CreateVolume` or image fetch, or a retry on another worker, leaves the handles already taken unreleased. So does `MissingInputsError`: `inputsOn` has already looked up the volumes of the inputs that are present, and returns nil mounts.

4. **Get container placed on a full worker** (`pool.go:250`). `CreateResourceGetContainer` picks one random worker from `AllSatisfying`, which judges room by each worker's last saved count, and returns that worker's max-containers refusal. It never tries another compatible worker. Spec 4.3 calls resource placement analogous to build placement, and build placement does try the next worker (`findWorkerNotRunningVTXTask`, `pool.go:212`).
5. **Second build container after a missed heartbeat** (`pool.go:141`). The provider finds the worker hosting a (build, plan) container only among live registry entries. After that worker expires, a re-run of the step places a second container elsewhere.
6. **Cancellation is read only in `Run`'s select** (`part_004:255`). Spec 5 says every remote call is a suspension point and a cancellation during one must return promptly. The step reads `signals` only while it waits for the process. Before that, a step can stay in placement for ever while other builds keep the workers full, and the abort is never seen (`taskstep_cancel`).

## 5. Proofs

`TaskStepProofs.tla` proves, for every value of the constants that satisfies
`ConstantsAssumption` (a finite set of steps, `max_containers` ≥ 1, 0 among
the exit codes, distinct sentinel values):

- `IInvHolds`: `Spec => []IInv`.
- `TypeCorrect`: `Spec => []TypeOK`.
- `ExitStatusFaithful`: `Spec => []ExitStatusRecordedFaithfully`.
- `SucceededInvHolds`: `Spec => [](IInv /\ SucceededInv)`.
- `SucceededStatusCorrect`: `Spec => []SucceededReportsProcessStatus`. A step that returns success reports the exit code of the script in its own container. This holds whether the step waited for the process or recovered the status after any number of restarts.
- `SucceededOutputsRegistered`: `Spec => []SucceededImpliesOutputsRegistered`. Every declared output, or the source name when there are none, has a registered source that reads from the step's own container.

`ExitStatusRecordedFaithfully` is not inductive on its own. `Exited` writes
`containers[cont[s]].code`, so the proof must know that `cont[s]` is a
handed-out container of `s` whose process has exited. A fresh container written
by `CreateContainer` must also not carry an exit status already. The
strengthening `IInv` adds:
- `ChosenWhileCreating`;
- `ContainerOfRunningStep` and `ContainerOfStep`: step.container is a handed-out container owned by the step;
- `FreshContainerUnfinished`;
- `UnusedSlotsFree`: ids not yet handed out are free slots.

There is one lemma per action that `IInv` is preserved. `NextIInv` combines
them, and the theorems follow by `PTL`. TLC checked `IInv` as an invariant of
the safety configuration before the proof.

The two properties of a succeeded step are proved on top of `IInv`, with the
strengthening `SucceededInv` (`TaskStep.tla`, end of the module). It conjoins
the two properties with `MountedHaveOutputVolumes`: when the task declares
outputs, a container that mounts any volume also has the output volumes.

`MountedHaveOutputVolumes` is needed because of one branch of
`registerSource`. For a container that is mounted but has no output volume,
that branch keeps the repository's *old* entry, which may be missing. The
branch is never taken. An input has volumes only on workers with a
VolumeManager (`inputVols[i] \subseteq VolumeWorkers`), and on those
`createContainer` makes every output volume. Lemma `NewContainerMounts` states
this.

The rest of the argument:
- Recovery (`Recover`) parses the status from `concourse:exit-status`. By `ExitStatusRecordedFaithfully` this is the process's code.
- No later step changes a succeeded step's container process. `ProcessExit` and `ContainerLost` need a running process. `StartProcess` acts on a container owned by another step (`ContainerOfStep`). `CreateContainer` uses a fresh id.
- A crash sends every succeeded step back to `init`.

There is one lemma per group of actions, and `NextSucceeded` combines them.
The proof needs one more assumption, that the absent entry `NoSource` is no
source (`NoSource \notin [c: Nat, vol: ...]`, in `ConstantsAssumption`).
TLC checked `IInv /\ SucceededInv` before the proof on the safety
configuration, and again with one of the two workers lacking a VolumeManager,
where `MountedHaveOutputVolumes` is not trivial. That gave 1.3M and 632k
distinct states.

`TaskStepRefinement.tla` proves that the task step implements its contract:

- `TaskStepRefines`: `Spec => TaskStepImplementsContract`, for every value of the constants.

The invariant the refinement rests on is `RInv`, which is `IInv /\ SucceededInv`
plus one more conjunct, `FreshContainerNotStarted` (`TaskStep.tla`). It says that in
`setup` and `start` the step's container has not started its script. Without
it, `StartProcess` could not be shown to be the contract's `Start`, which needs
an unstarted process. TLC checked it on the safety configuration before the
proof. `NextFresh` proves it inductive relative to `IInv`.

The argument maps each action to a contract step:
- `CreateContainer` is `Create` of id `nCont + 1`, which is a free slot by `UnusedSlotsFree`.
- The success branch of `StartProcess` is `Start`.
- `ProcessExit` is `Exit`, and `ContainerLost` is `Lose`.
- `Recover` is `Succeed`. Here `ExitStatusRecordedFaithfully` makes the recorded status the process's code, so the contract's recording changes nothing.
- The success branch of `Exited` is also `Succeed`.
- `Release` of a succeeded step is `Forget`. `SucceededReportsProcessStatus` gives it a container.
- `Crash` is `Restart`.
- Every other step is a stutter (`MappedStutter`).

There is one lemma per kind of step. `RefineStep` combines them, and the
theorem follows by `PTL`.

`TaskContainers.tla` proves its own inductive invariant. The hypothesis is
`TaskContainersAssumption`: 0 is an exit code, and the "none" values are not
real ones.
- `ContractInvariant`: `Spec => []ContractInv`. A recorded status is the code of an exited process, and a success names an exited container the step owns, with that status recorded.
- `ContractRecordedImmutable`: `Spec => RecordedImmutable`.

`TaskStepRefinement.tla` proves the task step's constants satisfy that
hypothesis (`ContractConstants`). It then carries the two results to the task
step through the instance:
- `TaskStepReportsOwnExit`: `Spec => []Contract!ReportedOwnExit`;
- `TaskStepRecordedImmutable`: `Spec => Contract!RecordedImmutable`, meaning `concourse:exit-status` is never rewritten once set (spec 3).

`WorkerPoolProofs.tla` proves, for every set of workers, calls and keys, and
every `max_containers` ≥ 1 (`PoolAssumption`):

- `IInvHolds`: `Spec => []IInv`.
- `TypeCorrect`: `Spec => []TypeOK`.
- `PoolRefinement`: `Spec => PoolImplementsPlacement`, that is, `WorkerPool` implements `PoolPlacement` under the identity mapping of `conts`, `result` and `got`.
- `PoolReturnsOwnIdentity`: `Spec => []Placement!ReturnedOwnIdentity`. Every container a pool call returns carries the caller's key, and its kind unless the call looks a container up by handle. This is proved once for the contract (`ContractIdentity`, with the inductive `ContractInv`: `result` and `got` are indexed by the calls) and carried to the pool by `PoolRefinement`.

`IInv` adds to `TypeOK`:
- `conts` is finite, and no worker holds more than `max_containers` containers;
- a call that has not finished has returned nothing yet;
- a call in `place`, `try`, `satisfy` or `delegate` is of a kind that has a container;
- a delegating call names a registered worker.

The last three are what make each step map to a contract step. Every pool
step is one of four kinds, each with a lemma: a quiet step is an abstract
stutter (`QuietOK`); `FoundOn` is `Found`; `CreateOn` is `Create`; an error
return is `Fail`. For `CreateOn`, the guard `Count(w) < max_containers` and
`CountAdd` (adding a container adds at most one to a worker's count) keep the
capacity bound. `CountRemove` does the same for `Destroy`. One lemma per action
shows which kind its branches take, `NextOK` combines them, and the theorems
follow by `PTL`, as in the two-phase handshake refinement. TLC checked `IInv`
on both pool runs before the proof.

Two properties are checked only by TLC:
- `AllCallsReturn` is a liveness property under weak fairness. TLAPS does not handle fairness or `ENABLED`. `CancellationReturns` is liveness too; TLC finds it violated.
- `TieLoopIsMostInputs` says what the recursive tie loop of `chooseWorkerWithMostVolumes` computes for every input order. The loop is the recursive function `step` over the order. A proof needs induction over the loop index with the loop's invariant as the induction predicate. The library's induction theorems take that predicate as an operator parameter, and the installed provers cannot instantiate it.

## 6. Not modelled, and the plan

- The pool's volume stubs (`FindResourceTypeByPath`, `CreateVolumeForResourceCache`, `FindInitializedVolumeForResourceCache`, `LookupVolume`) return constants, and `resourcesDir` formats a path. Platform, tags and resource types in `Satisfying` are abstracted: every worker is compatible except for room.
- A composition of `TaskStep` with `WorkerPool`: `TaskStep` places its container through `AllSatisfying` on its own.
- Image fetching (`getContainerImage`) and its cache volume. Only its failure is modelled now (`ChooseFails`).
- `CreateJobBuild` and the scheduler: the scheduler's code is not under `src/`.
- The database interfaces other than the worker registry, `ConfigDB`'s compare-and-swap, `Lock`, the migrations (add `team_id` to builds, `attempts` to containers), auth tests and API types: they are I/O or data, with no state machine of their own, and nothing under `src/` implements them.
- Artifact streaming (`StreamFile`, `StreamTo`, `containerSource`), environment formatting and tag merging: these are pure data transformations, which no property here distinguishes.
