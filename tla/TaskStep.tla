------------------------------ MODULE TaskStep ------------------------------
(***************************************************************************)
(* The task step executor (exec.TaskStep.Run, createContainer,             *)
(* chooseWorkerWithMostVolumes, registerSource, Release) running a set of  *)
(* steps concurrently against a pool of workers (pool.AllSatisfying).      *)
(*                                                                         *)
(* Durable state: the containers on the workers, their two reserved        *)
(* properties (concourse:task-process, concourse:exit-status), the process *)
(* inside each, and the containers of other builds.  Everything a step     *)
(* keeps in memory (its place in Run, the chosen worker, the volume        *)
(* handles it heartbeats, the source repository) is lost when the ATC      *)
(* crashes; the engine then calls Run again for every unfinished step.     *)
(***************************************************************************)
EXTENDS Naturals, FiniteSets

CONSTANTS
    Steps,          \* step identities: one (build, plan) container identifier each
    Workers,        \* registered workers
    TeamWorkers,    \* workers owned by the steps' team (the others are general)
    VolumeWorkers,  \* workers whose VolumeManager() is found (baggageclaim)
    Inputs,         \* the task config's declared inputs
    Outputs,        \* the task config's declared outputs
    ExitCodes,      \* exit statuses a task script may produce
    MaxContainers,  \* a worker's max_containers
    MaxCrashes,     \* bound on ATC crashes in one behaviour
    MaxLookupErrors,\* bound on failed FindContainerForIdentifier calls
    SourceName,     \* the step's own source name (used when Outputs = {})
    NoStep, NoWorker, NoStatus, NoSource

ASSUME ConstantsAssumption ==
    /\ IsFiniteSet(Steps)
    /\ TeamWorkers \subseteq Workers
    /\ VolumeWorkers \subseteq Workers
    /\ 0 \in ExitCodes /\ ExitCodes \subseteq Nat
    /\ MaxContainers \in Nat \ {0}
    /\ MaxCrashes \in Nat /\ MaxLookupErrors \in Nat
    /\ NoStep \notin Steps /\ NoWorker \notin Workers
    /\ NoStatus \notin ExitCodes
    /\ SourceName \notin Outputs
    /\ NoSource \notin [c: Nat, vol: Workers \cup {NoWorker}]

(* Enough container ids for one successful CreateContainer per Run call.  *)
MaxIds == Cardinality(Steps) * (1 + MaxCrashes + MaxLookupErrors)
CIds == 1..MaxIds
NoC == 0

(* The names registerSource writes into the source repository.            *)
RegNames == IF Outputs = {} THEN {SourceName} ELSE Outputs

ProcStates == {"none", "running", "exited", "lost"}
TTLs == {"none", "success", "failed"}
Container == [owner: Steps \cup {NoStep}, worker: Workers \cup {NoWorker},
              proc: ProcStates, code: ExitCodes, procProp: BOOLEAN,
              exitProp: ExitCodes \cup {NoStatus},
              outVol: BOOLEAN, mounted: BOOLEAN, ttl: TTLs, stopped: BOOLEAN]
FreeSlot == [owner |-> NoStep, worker |-> NoWorker, proc |-> "none", code |-> 0,
             procProp |-> FALSE, exitProp |-> NoStatus, outVol |-> FALSE,
             mounted |-> FALSE, ttl |-> "none", stopped |-> FALSE]
Source == [c: CIds, vol: Workers \cup {NoWorker}]
Held == (Inputs \cup Outputs) \X Workers

(* A step's place in Run and its teardown.                                *)
Returned == {"succeeded", "errored", "interrupted"}
PCs == {"init", "choose", "create", "setup", "start", "setprop", "waiting",
        "released"} \cup Returned

VARIABLES
    containers,  \* CIds -> Container: the containers on the workers
    nCont,       \* number of container ids handed out
    other,       \* Workers -> containers of other builds on that worker
    present,     \* Steps -> inputs the source repository holds at step start
    inputVols,   \* Inputs -> workers on which that input has a volume
    signalled,   \* Steps -> abort requested (the signals channel fired)
    crashes, lookupErrs,
    pc, cand, chosen, held, cont, exitStatus, reg

durable == <<containers, nCont, other, present, inputVols, signalled,
             crashes, lookupErrs>>
local == <<pc, cand, chosen, held, cont, exitStatus, reg>>
vars == <<durable, local>>

TypeOK ==
    /\ containers \in [CIds -> Container]
    /\ nCont \in 0..MaxIds
    /\ other \in [Workers -> 0..MaxContainers]
    /\ present \in [Steps -> SUBSET Inputs]
    /\ inputVols \in [Inputs -> SUBSET VolumeWorkers]
    /\ signalled \in [Steps -> BOOLEAN]
    /\ crashes \in 0..MaxCrashes /\ lookupErrs \in 0..MaxLookupErrors
    /\ pc \in [Steps -> PCs]
    /\ cand \in [Steps -> SUBSET Workers]
    /\ chosen \in [Steps -> Workers \cup {NoWorker}]
    /\ held \in [Steps -> SUBSET Held]
    /\ cont \in [Steps -> CIds \cup {NoC}]
    /\ exitStatus \in [Steps -> ExitCodes]
    /\ reg \in [Steps -> [RegNames -> Source \cup {NoSource}]]

-----------------------------------------------------------------------------
(* Worker pool                                                            *)

(* active_containers of a worker, as the worker reports it.               *)
Active(w) == Cardinality({c \in 1..nCont : containers[c].worker = w}) + other[w]

(* worker.Satisfying: platform and tags are abstracted; the worker has    *)
(* room for a container (spec 4.2).                                       *)
Satisfying(w) == Active(w) < MaxContainers

(* pool.AllSatisfying: team-owned matches win over general ones; {} is    *)
(* ErrNoWorkers or NoCompatibleWorkersError.                              *)
AllSatisfying ==
    LET team == {w \in TeamWorkers : Satisfying(w)}
        general == {w \in Workers \ TeamWorkers : Satisfying(w)}
    IN IF team # {} THEN team ELSE general

-----------------------------------------------------------------------------
(* Helpers of TaskStep                                                    *)

(* inputsOn: the declared inputs whose source has a volume on w.          *)
InputMounts(w) == {i \in Inputs : w \in inputVols[i]}

(* The volumes chooseWorkerWithMostVolumes and the output loop of         *)
(* createContainer hold (heartbeat) for the chosen worker w.               *)
OutputVolumes(w) == IF w \in VolumeWorkers THEN Outputs ELSE {}
ChoiceHolds(w) == (InputMounts(w) \cup OutputVolumes(w)) \X {w}

(* registerSource(config) with step.container = c.                        *)
RegisterSource(s, c) ==
    reg' = [reg EXCEPT ![s] =
              [n \in RegNames |->
                 IF Outputs = {}
                   THEN [c |-> c, vol |-> NoWorker]
                 ELSE IF containers[c].mounted
                   THEN IF containers[c].outVol
                          THEN [c |-> c, vol |-> containers[c].worker]
                          ELSE reg[s][n]
                 ELSE [c |-> c, vol |-> NoWorker]]]

SetPc(s, p) == pc' = [pc EXCEPT ![s] = p]

-----------------------------------------------------------------------------
(* Run, phase A: FetchConfig and FindContainerForIdentifier.               *)

(* The lookup errs or finds nothing: a new session.  AllSatisfying fails  *)
(* when no worker is compatible.                                           *)
NewSession(s) ==
    /\ pc[s] = "init"
    /\ \/ /\ \A c \in 1..nCont : containers[c].owner # s
          /\ UNCHANGED lookupErrs
       \/ /\ lookupErrs < MaxLookupErrors
          /\ lookupErrs' = lookupErrs + 1
    /\ cand' = [cand EXCEPT ![s] = AllSatisfying]
    /\ SetPc(s, IF AllSatisfying = {} THEN "errored" ELSE "choose")
    /\ UNCHANGED <<containers, nCont, other, present, inputVols, signalled,
                   crashes, chosen, held, cont, exitStatus, reg>>

(* Mutant: the Property(exit-status) error is ignored and the absent     *)
(* value is parsed.                                                        *)
RecoverIgnoringPropertyError(s, c) ==
    /\ pc[s] = "init"
    /\ containers[c].owner = s
    /\ cont' = [cont EXCEPT ![s] = c]
    /\ exitStatus' = [exitStatus EXCEPT ![s] = containers[c].exitProp]
    /\ RegisterSource(s, c)
    /\ SetPc(s, "succeeded")
    /\ UNCHANGED <<durable, cand, chosen, held>>

(* Mutant: the recovered status is not parsed into step.exitStatus.        *)
RecoverWithoutParse(s, c) ==
    /\ pc[s] = "init"
    /\ containers[c].owner = s
    /\ containers[c].exitProp # NoStatus
    /\ cont' = [cont EXCEPT ![s] = c]
    /\ RegisterSource(s, c)
    /\ SetPc(s, "succeeded")
    /\ UNCHANGED <<durable, cand, chosen, held, exitStatus>>

(* Mutant: the recovery path returns without registerSource.               *)
RecoverWithoutRegister(s, c) ==
    /\ pc[s] = "init"
    /\ containers[c].owner = s
    /\ containers[c].exitProp # NoStatus
    /\ cont' = [cont EXCEPT ![s] = c]
    /\ exitStatus' = [exitStatus EXCEPT ![s] = containers[c].exitProp]
    /\ SetPc(s, "succeeded")
    /\ UNCHANGED <<durable, cand, chosen, held, reg>>

(* The container carries concourse:exit-status: recover the result.       *)
Recover(s, c) ==
    /\ pc[s] = "init"
    /\ containers[c].owner = s
    /\ containers[c].exitProp # NoStatus
    /\ cont' = [cont EXCEPT ![s] = c]
    /\ exitStatus' = [exitStatus EXCEPT ![s] = containers[c].exitProp]
    /\ RegisterSource(s, c)
    /\ SetPc(s, "succeeded")
    /\ UNCHANGED <<durable, cand, chosen, held>>

(* Mutant: a re-attached step runs the script again instead of waiting.  *)
ReattachRestart(s, c) ==
    /\ pc[s] = "init"
    /\ containers[c].owner = s
    /\ containers[c].exitProp = NoStatus
    /\ containers[c].procProp
    /\ cont' = [cont EXCEPT ![s] = c]
    /\ SetPc(s, IF containers[c].proc = "lost" THEN "errored" ELSE "start")
    /\ UNCHANGED <<durable, cand, chosen, held, exitStatus, reg>>

(* The container carries concourse:task-process: re-attach.  Attach fails *)
(* when the process is gone.                                               *)
Reattach(s, c) ==
    /\ pc[s] = "init"
    /\ containers[c].owner = s
    /\ containers[c].exitProp = NoStatus
    /\ containers[c].procProp
    /\ cont' = [cont EXCEPT ![s] = c]
    /\ SetPc(s, IF containers[c].proc = "lost" THEN "errored" ELSE "waiting")
    /\ UNCHANGED <<durable, cand, chosen, held, exitStatus, reg>>

(* A found container with neither property: "rogue container" error.      *)
Rogue(s, c) ==
    /\ pc[s] = "init"
    /\ containers[c].owner = s
    /\ containers[c].exitProp = NoStatus
    /\ ~containers[c].procProp
    /\ cont' = [cont EXCEPT ![s] = c]
    /\ SetPc(s, "errored")
    /\ UNCHANGED <<durable, cand, chosen, held, exitStatus, reg>>

-----------------------------------------------------------------------------
(* Run, phases B and C: createContainer over the compatible workers.       *)

(* chooseWorkerWithMostVolumes picks a worker with the most input mounts  *)
(* (ties go to whichever comes last in the pool's order), then the output *)
(* volumes are created on it.  Every volume handle stays held.             *)
Choose(s) ==
    /\ pc[s] = "choose"
    /\ present[s] = Inputs
    /\ \E w \in cand[s] :
         /\ \A v \in cand[s] : Cardinality(InputMounts(v)) <= Cardinality(InputMounts(w))
         /\ chosen' = [chosen EXCEPT ![s] = w]
         /\ held' = [held EXCEPT ![s] = held[s] \cup ChoiceHolds(w)]
    /\ SetPc(s, "create")
    /\ UNCHANGED <<durable, cand, cont, exitStatus, reg>>

(* inputsOn reports MissingInputsError on the first worker w of the loop. *)
(* Before returning it has looked up, with VolumeOn, the volumes on w of  *)
(* the inputs that are present; it returns nil mounts, so nobody releases *)
(* those handles.                                                          *)
MissingInputs(s) ==
    /\ pc[s] = "choose"
    /\ present[s] # Inputs
    /\ \E w \in cand[s] :
         held' = [held EXCEPT ![s] = held[s] \cup ((InputMounts(w) \cap present[s]) \X {w})]
    /\ SetPc(s, "errored")
    /\ UNCHANGED <<durable, cand, chosen, cont, exitStatus, reg>>

(* CreateVolume for an output, or the image fetch, fails after some       *)
(* volumes were taken: createContainer returns the error.                  *)
ChooseFails(s) ==
    /\ pc[s] = "choose"
    /\ present[s] = Inputs
    /\ \E w \in cand[s] : \E outs \in SUBSET OutputVolumes(w) :
         held' = [held EXCEPT ![s] = held[s] \cup ((InputMounts(w) \cup outs) \X {w})]
    /\ SetPc(s, "errored")
    /\ UNCHANGED <<durable, cand, chosen, cont, exitStatus, reg>>

(* chosenWorker.CreateContainer succeeds: the container adopts the volumes *)
(* and the step releases the handles of this choice.                      *)
CreateContainer(s) ==
    LET w == chosen[s]
        n == nCont + 1
    IN
    /\ pc[s] = "create"
    /\ Active(w) < MaxContainers
    /\ nCont < MaxIds
    /\ nCont' = n
    /\ containers' = [containers EXCEPT ![n] =
                        [FreeSlot EXCEPT !.owner = s, !.worker = w,
                           !.outVol = (OutputVolumes(w) # {}),
                           !.mounted = (InputMounts(w) \cup OutputVolumes(w) # {})]]
    /\ cont' = [cont EXCEPT ![s] = n]
    /\ held' = [held EXCEPT ![s] = {h \in held[s] : h[2] # w}]
    /\ SetPc(s, "setup")
    /\ UNCHANGED <<other, present, inputVols, signalled, crashes, lookupErrs,
                   cand, chosen, exitStatus, reg>>

(* CreateContainer fails ("max containers"): drop the worker and recurse, *)
(* or give up when none is left.                                           *)
CreateFails(s) ==
    LET w == chosen[s]
        rest == cand[s] \ {w}
    IN
    /\ pc[s] = "create"
    /\ Active(w) >= MaxContainers
    /\ cand' = [cand EXCEPT ![s] = rest]
    /\ SetPc(s, IF rest = {} THEN "errored" ELSE "choose")
    /\ UNCHANGED <<durable, chosen, held, cont, exitStatus, reg>>

-----------------------------------------------------------------------------
(* Run, phase C (rest) and D.                                              *)

(* ensureBuildDirExists, streamInputs and setupOutputs: each StreamIn may *)
(* fail.                                                                   *)
Setup(s) ==
    /\ pc[s] = "setup"
    /\ \E ok \in BOOLEAN : SetPc(s, IF ok THEN "start" ELSE "errored")
    /\ UNCHANGED <<durable, cand, chosen, held, cont, exitStatus, reg>>

(* container.Run starts the script, or fails.                              *)
StartProcess(s) ==
    LET c == cont[s] IN
    /\ pc[s] = "start"
    /\ \/ /\ containers' = [containers EXCEPT ![c].proc = "running"]
          /\ SetPc(s, "setprop")
       \/ /\ SetPc(s, "errored")
          /\ UNCHANGED containers
    /\ UNCHANGED <<nCont, other, present, inputVols, signalled, crashes,
                   lookupErrs, cand, chosen, held, cont, exitStatus, reg>>

(* SetProperty(task-process, id), then close(ready); or the SetProperty   *)
(* fails.                                                                  *)
SetProcessProperty(s) ==
    LET c == cont[s] IN
    /\ pc[s] = "setprop"
    /\ \/ /\ containers' = [containers EXCEPT ![c].procProp = TRUE]
          /\ SetPc(s, "waiting")
       \/ /\ SetPc(s, "errored")
          /\ UNCHANGED containers
    /\ UNCHANGED <<nCont, other, present, inputVols, signalled, crashes,
                   lookupErrs, cand, chosen, held, cont, exitStatus, reg>>

-----------------------------------------------------------------------------
(* Run, phase E: the select on signals, the exit status and a Wait error. *)

Interrupted(s) ==
    LET c == cont[s] IN
    /\ pc[s] = "waiting"
    /\ signalled[s]
    /\ RegisterSource(s, c)
    /\ containers' = [containers EXCEPT ![c].stopped = TRUE]
    /\ SetPc(s, "interrupted")
    /\ UNCHANGED <<nCont, other, present, inputVols, signalled, crashes,
                   lookupErrs, cand, chosen, held, cont, exitStatus>>

(* Mutant: the property is formatted from step.exitStatus before it is    *)
(* assigned the new status.                                                *)
ExitedStaleStatus(s) ==
    LET c == cont[s]
        status == containers[c].code
    IN
    /\ pc[s] = "waiting"
    /\ containers[c].proc = "exited"
    /\ RegisterSource(s, c)
    /\ exitStatus' = [exitStatus EXCEPT ![s] = status]
    /\ \/ /\ containers' = [containers EXCEPT ![c].exitProp = exitStatus[s]]
          /\ SetPc(s, "succeeded")
       \/ /\ SetPc(s, "errored")
          /\ UNCHANGED containers
    /\ UNCHANGED <<nCont, other, present, inputVols, signalled, crashes,
                   lookupErrs, cand, chosen, held, cont>>

(* The process exited: register outputs, record the status in the         *)
(* container, or fail on SetProperty.                                      *)
Exited(s) ==
    LET c == cont[s]
        status == containers[c].code
    IN
    /\ pc[s] = "waiting"
    /\ containers[c].proc = "exited"
    /\ RegisterSource(s, c)
    /\ exitStatus' = [exitStatus EXCEPT ![s] = status]
    /\ \/ /\ containers' = [containers EXCEPT ![c].exitProp = status]
          /\ SetPc(s, "succeeded")
       \/ /\ SetPc(s, "errored")
          /\ UNCHANGED containers
    /\ UNCHANGED <<nCont, other, present, inputVols, signalled, crashes,
                   lookupErrs, cand, chosen, held, cont>>

WaitFails(s) ==
    /\ pc[s] = "waiting"
    /\ containers[cont[s]].proc = "lost"
    /\ SetPc(s, "errored")
    /\ UNCHANGED <<durable, cand, chosen, held, cont, exitStatus, reg>>

(* Phase F, TaskStep.Release at teardown.                                 *)
Release(s) ==
    LET c == cont[s] IN
    /\ pc[s] \in Returned
    /\ IF c = NoC THEN UNCHANGED containers
       ELSE containers' = [containers EXCEPT ![c].ttl =
                              IF exitStatus[s] = 0 THEN "success" ELSE "failed"]
    /\ SetPc(s, "released")
    /\ UNCHANGED <<nCont, other, present, inputVols, signalled, crashes,
                   lookupErrs, cand, chosen, held, cont, exitStatus, reg>>

-----------------------------------------------------------------------------
(* The environment                                                        *)

(* The build is aborted: the step's signals channel fires.                *)
Signal(s) ==
    /\ ~signalled[s]
    /\ pc[s] # "released"
    /\ signalled' = [signalled EXCEPT ![s] = TRUE]
    /\ UNCHANGED <<containers, nCont, other, present, inputVols, crashes,
                   lookupErrs, local>>

(* A task script terminates with some exit status.                        *)
ProcessExit(c) ==
    /\ containers[c].proc = "running"
    /\ \E e \in ExitCodes :
         containers' = [containers EXCEPT ![c].proc = "exited", ![c].code = e]
    /\ UNCHANGED <<nCont, other, present, inputVols, signalled, crashes,
                   lookupErrs, local>>

(* The container dies under a running process.                             *)
ContainerLost(c) ==
    /\ containers[c].proc = "running"
    /\ containers' = [containers EXCEPT ![c].proc = "lost"]
    /\ UNCHANGED <<nCont, other, present, inputVols, signalled, crashes,
                   lookupErrs, local>>

(* Other builds create or remove containers on a worker.                  *)
OtherLoad(w) ==
    /\ \E k \in 0..MaxContainers : k # other[w] /\ other' = [other EXCEPT ![w] = k]
    /\ UNCHANGED <<containers, nCont, present, inputVols, signalled, crashes,
                   lookupErrs, local>>

(* The ATC crashes and restarts: every unfinished step loses its memory   *)
(* and is run again; every volume heartbeat stops with the process.       *)
Crash ==
    /\ crashes < MaxCrashes
    /\ crashes' = crashes + 1
    /\ LET live == {s \in Steps : pc[s] # "released"} IN
       /\ pc' = [s \in Steps |-> IF s \in live THEN "init" ELSE pc[s]]
       /\ cand' = [s \in Steps |-> IF s \in live THEN {} ELSE cand[s]]
       /\ chosen' = [s \in Steps |-> IF s \in live THEN NoWorker ELSE chosen[s]]
       /\ held' = [s \in Steps |-> {}]
       /\ cont' = [s \in Steps |-> IF s \in live THEN NoC ELSE cont[s]]
       /\ exitStatus' = [s \in Steps |-> IF s \in live THEN 0 ELSE exitStatus[s]]
       /\ reg' = [s \in Steps |-> IF s \in live
                                    THEN [n \in RegNames |-> NoSource]
                                    ELSE reg[s]]
    /\ UNCHANGED <<containers, nCont, other, present, inputVols, signalled,
                   lookupErrs>>

-----------------------------------------------------------------------------

Init ==
    /\ containers = [c \in CIds |-> FreeSlot]
    /\ nCont = 0
    /\ other = [w \in Workers |-> 0]
    /\ present \in [Steps -> SUBSET Inputs]
    /\ inputVols \in [Inputs -> SUBSET VolumeWorkers]
    /\ signalled = [s \in Steps |-> FALSE]
    /\ crashes = 0 /\ lookupErrs = 0
    /\ pc = [s \in Steps |-> "init"]
    /\ cand = [s \in Steps |-> {}]
    /\ chosen = [s \in Steps |-> NoWorker]
    /\ held = [s \in Steps |-> {}]
    /\ cont = [s \in Steps |-> NoC]
    /\ exitStatus = [s \in Steps |-> 0]
    /\ reg = [s \in Steps |-> [n \in RegNames |-> NoSource]]

(* Everything one step's goroutine does.                                  *)
StepNext(s) ==
    \/ NewSession(s)
    \/ \E c \in 1..nCont : Recover(s, c) \/ Reattach(s, c) \/ Rogue(s, c)
    \/ Choose(s) \/ MissingInputs(s) \/ ChooseFails(s)
    \/ CreateContainer(s) \/ CreateFails(s)
    \/ Setup(s) \/ StartProcess(s) \/ SetProcessProperty(s)
    \/ Interrupted(s) \/ Exited(s) \/ WaitFails(s)
    \/ Release(s)

Environment ==
    \/ \E s \in Steps : Signal(s)
    \/ \E c \in 1..nCont : ProcessExit(c) \/ ContainerLost(c)
    \/ \E w \in Workers : OtherLoad(w)
    \/ Crash

Next == (\E s \in Steps : StepNext(s)) \/ Environment

(* What the code's scheduling guarantees. Almost every action of a step   *)
(* is a remote call (container lookup, create, stream, Run, SetProperty,  *)
(* Attach) that has no deadline and no cancel channel, so nothing makes it *)
(* answer. The one step owed is the select of Run (255-260): once an abort *)
(* is pending while the step waits, the case is ready, and the goroutine   *)
(* takes it. The environment (aborts, scripts, other builds, crashes)     *)
(* owes nothing.                                                           *)
Fairness == \A s \in Steps : WF_vars(Interrupted(s))

Spec == Init /\ [][Next]_vars /\ Fairness

-----------------------------------------------------------------------------
(* Properties                                                             *)

(* The concourse:exit-status property of a container, once written, is   *)
(* the status its process really exited with, across restarts, re-attach *)
(* and the Exited / SetProperty path (TaskStep.Run, Phase E).             *)
ExitStatusRecordedFaithfully ==
    \A c \in CIds : containers[c].exitProp # NoStatus =>
                        /\ containers[c].proc = "exited"
                        /\ containers[c].code = containers[c].exitProp

(* A step that returns success reports the exit status of the script in  *)
(* the container it ran or recovered, whether it waited for the process  *)
(* itself or parsed concourse:exit-status after a restart (Result).       *)
SucceededReportsProcessStatus ==
    \A s \in Steps : pc[s] = "succeeded" =>
        /\ cont[s] # NoC
        /\ containers[cont[s]].proc = "exited"
        /\ containers[cont[s]].code = exitStatus[s]

(* After Run returns success, every declared output (or the working       *)
(* directory when none is declared) has a source in the repository that   *)
(* reads from the step's container (registerSource).                      *)
SucceededImpliesOutputsRegistered ==
    \A s \in Steps : pc[s] = "succeeded" =>
        \A n \in RegNames : reg[s][n] # NoSource /\ reg[s][n].c = cont[s]

(* A step whose build is aborted returns, whatever phase of Run it was in *)
(* (spec 5: every remote call is a suspension point, and a cancellation   *)
(* received during one must return promptly).                              *)
CancellationReturns ==
    \A s \in Steps : signalled[s] ~> (pc[s] \in Returned \cup {"released"})

(* The durable state of the containers and the result each step returned *)
(* (success, from which container, with which status), seen through the  *)
(* contract TaskContainers; everything else of Run is hidden.             *)
Contract == INSTANCE TaskContainers WITH
    Ids <- CIds, NoId <- NoC,
    box <- [c \in CIds |-> [owner |-> containers[c].owner,
                            proc |-> containers[c].proc,
                            code |-> containers[c].code,
                            recorded |-> containers[c].exitProp]],
    from <- [s \in Steps |-> IF pc[s] = "succeeded" THEN cont[s] ELSE NoC],
    reported <- [s \in Steps |-> IF pc[s] = "succeeded" THEN exitStatus[s]
                                                       ELSE NoStatus]

(* The task step implements its contract: across restarts, re-attaches,   *)
(* lost containers and concurrent steps, a container's script is started *)
(* at most once, concourse:exit-status is written only with the status   *)
(* the process exited with and never changed, and a step returns success *)
(* only with the exit status of one of its own containers (spec 3, 4.6, *)
(* 8).                                                                     *)
TaskStepImplementsContract == Contract!Spec

(* Spec 3 and 8: no two containers for one (build, plan, stage).         *)
UniqueRunContainer ==
    \A c1, c2 \in 1..nCont :
        containers[c1].owner = containers[c2].owner => c1 = c2

(* Spec 4.6 F and 8 (case 5): a container is released with               *)
(* SuccessfulStepTTL only when its script exited 0.                      *)
ReleasedTTLMatchesOutcome ==
    \A c \in CIds : containers[c].ttl = "success" =>
                        containers[c].proc = "exited" /\ containers[c].code = 0

(* Spec 5: the step heartbeats no volume once createContainer is over;   *)
(* the container owns what it mounts.                                    *)
NoLeakedHeartbeats ==
    \A s \in Steps : pc[s] \notin {"choose", "create"} => held[s] = {}

-----------------------------------------------------------------------------
(* The inductive strengthening used by the proofs (TaskStepProofs).        *)

(* While createContainer runs, step.chosenWorker is a worker.              *)
ChosenWhileCreating ==
    \A s \in Steps : pc[s] = "create" => chosen[s] \in Workers

(* From CreateContainer on, step.container is one of the step's own        *)
(* containers.                                                             *)
ContainerOfRunningStep ==
    \A s \in Steps : pc[s] \in {"setup", "start", "setprop", "waiting"} =>
        /\ cont[s] \in 1..nCont
        /\ containers[cont[s]].owner = s

(* Whatever step.container holds was handed out to this step.            *)
ContainerOfStep ==
    \A s \in Steps : cont[s] # NoC =>
        /\ cont[s] \in 1..nCont
        /\ containers[cont[s]].owner = s

(* Until its script is started, a fresh container has no exit status.     *)
FreshContainerUnfinished ==
    \A s \in Steps : pc[s] \in {"setup", "start"} =>
        containers[cont[s]].exitProp = NoStatus

(* Until container.Run, the script of a fresh container is not started.  *)
FreshContainerNotStarted ==
    \A s \in Steps : pc[s] \in {"setup", "start"} =>
        containers[cont[s]].proc = "none"

(* Slots not yet handed out are free.                                     *)
UnusedSlotsFree ==
    \A c \in CIds : c > nCont => containers[c] = FreeSlot

IInv ==
    /\ TypeOK
    /\ ExitStatusRecordedFaithfully
    /\ ChosenWhileCreating
    /\ ContainerOfRunningStep
    /\ ContainerOfStep
    /\ FreshContainerUnfinished
    /\ UnusedSlotsFree

(* A container that mounts any volume also mounts the output volumes when *)
(* the task declares outputs: input volumes only exist on workers with a  *)
(* VolumeManager, and there createContainer makes every output volume.    *)
MountedHaveOutputVolumes ==
    Outputs # {} => \A c \in CIds : containers[c].mounted => containers[c].outVol

(* The strengthening under which a succeeded step's result and sources    *)
(* are preserved (proved on top of IInv in TaskStepProofs).               *)
SucceededInv ==
    /\ MountedHaveOutputVolumes
    /\ SucceededReportsProcessStatus
    /\ SucceededImpliesOutputsRegistered
=============================================================================
