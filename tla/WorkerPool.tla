----------------------------- MODULE WorkerPool -----------------------------
(***************************************************************************)
(* The worker pool (src/worker/pool.go) serving concurrent callers:        *)
(* FindOrCreateBuildContainer with volume-affinity placement and           *)
(* findWorkerNotRunningVTXTask, FindOrCreateResourceCheckContainer,        *)
(* CreateResourceGetContainer, FindContainerByHandle, all reading the      *)
(* worker registry (db.DB Workers / SaveWorker: entries expire by TTL and  *)
(* carry the ActiveContainers the worker last reported).                   *)
(*                                                                         *)
(* The workers themselves (their find-or-create of a container, the        *)
(* max-containers check) and the provider's database lookups are not      *)
(* under src/ and are modelled from the spec, each as one atomic call.     *)
(***************************************************************************)
EXTENDS Naturals, FiniteSets, Functions

CONSTANTS
    Workers,        \* registered workers
    TeamWorkers,    \* workers owned by the callers' team
    Reqs,           \* pool calls, numbered in the order they are issued
    Keys,           \* container identities: (build, plan), resource user, handle
    ReqKind,        \* Reqs -> {"build", "check", "get", "handle"}
    ReqKey,         \* Reqs -> Keys
    Inputs,         \* spec.Inputs of the build containers
    MaxContainers,  \* a worker's max_containers
    NoReq, NoWorker, NoCont

ASSUME PoolAssumption ==
    /\ TeamWorkers \subseteq Workers
    /\ Reqs \subseteq Nat
    /\ ReqKind \in [Reqs -> {"build", "check", "get", "handle"}]
    /\ ReqKey \in [Reqs -> Keys]
    /\ MaxContainers \in Nat \ {0}
    /\ NoReq \notin Reqs /\ NoWorker \notin Workers

VARIABLES
    conts,      \* the containers on the workers (durable)
    running,    \* registry entries whose TTL has not lapsed
    reported,   \* Workers -> ActiveContainers of the last SaveWorker
    inputVols,  \* Inputs -> workers on which that input has a volume
    pc,         \* Reqs -> place of the call in the pool's code
    target,     \* Reqs -> the worker the call talks to
    cands,      \* Reqs -> the workers findWorkerNotRunningVTXTask still has to try
    result,     \* Reqs -> what the call returned
    got         \* Reqs -> the container it returned

vars == <<conts, running, reported, inputVols, pc, target, cands, result, got>>

Placement == INSTANCE PoolPlacement WITH Size <- Cardinality

Cont == Placement!Cont
Results == Placement!Results
(* The containers on w, what its ActiveContainers would report.           *)
Count(w) == Cardinality({c \in conts : c.w = w})
PCs == {"start", "satisfy", "place", "try", "delegate", "lookup", "done"}

TypeOK ==
    /\ conts \in SUBSET Cont
    /\ running \in SUBSET Workers
    /\ reported \in [Workers -> 0..MaxContainers]
    /\ inputVols \in [Inputs -> SUBSET Workers]
    /\ pc \in [Reqs -> PCs]
    /\ target \in [Reqs -> Workers \cup {NoWorker}]
    /\ cands \in [Reqs -> SUBSET Workers]
    /\ result \in [Reqs -> Results]
    /\ got \in [Reqs -> Cont \cup {NoCont}]

-----------------------------------------------------------------------------
(* Worker selection                                                       *)

(* worker.Satisfying: the worker has room by the count it last reported  *)
(* (platform, tags and resource types are abstracted).                    *)
Satisfying(w) == reported[w] < MaxContainers

(* pool.AllSatisfying over pool.RunningWorkers: team workers first; {} is *)
(* ErrNoWorkers or NoCompatibleWorkersError.                              *)
AllSatisfying ==
    LET team == {w \in running \cap TeamWorkers : Satisfying(w)}
        general == {w \in running \ TeamWorkers : Satisfying(w)}
    IN IF team # {} THEN team ELSE general

(* The number of spec.Inputs whose source has a volume on w (VolumeOn).    *)
InputCount(w) == Cardinality({i \in Inputs : w \in inputVols[i]})

(* The workers with the most input volumes among ws.                      *)
MostInputs(ws) == {w \in ws : \A v \in ws : InputCount(v) <= InputCount(w)}

(* Mutant: highestCount takes the count of the last worker listed.       *)
TieLoopLastCount(order) ==
    LET n == Cardinality(DOMAIN order)
        step[i \in 0..n] ==
            IF i = 0
            THEN [byCount |-> [k \in 0..Cardinality(Inputs) |-> {}], highest |-> 0]
            ELSE LET p == step[i - 1]
                     k == InputCount(order[i])
                 IN [byCount |-> [p.byCount EXCEPT ![k] = @ \cup {order[i]}],
                     highest |-> k]
    IN step[n].byCount[step[n].highest]

(* The loop of FindOrCreateBuildContainer over the compatible workers in  *)
(* the pool's order: workersByCount and highestCount, then                 *)
(* workersByCount[highestCount].                                          *)
TieLoop(order) ==
    LET n == Cardinality(DOMAIN order)
        step[i \in 0..n] ==
            IF i = 0
            THEN [byCount |-> [k \in 0..Cardinality(Inputs) |-> {}], highest |-> 0]
            ELSE LET p == step[i - 1]
                     w == order[i]
                     k == InputCount(w)
                 IN [byCount |-> [p.byCount EXCEPT ![k] = @ \cup {w}],
                     highest |-> IF k >= p.highest THEN k ELSE p.highest]
    IN step[n].byCount[step[n].highest]

(* Every order in which the provider may list the workers ws.             *)
Orderings(ws) == {f \in [1..Cardinality(ws) -> ws] : IsInjective(f)}

-----------------------------------------------------------------------------
(* Calls to a worker (spec 4.2): one atomic find-or-create each.          *)

Existing(r, w) ==
    {c \in conts : c.w = w /\ Placement!Matches(r, c)}

NewCont(r, w) == [by |-> r, key |-> ReqKey[r], kind |-> ReqKind[r], w |-> w]

Finish(r, res, c) ==
    /\ pc' = [pc EXCEPT ![r] = "done"]
    /\ Placement!Return(r, res, c)

(* worker.FindOrCreateBuildContainer / FindOrCreateResourceCheckContainer *)
(* / CreateResourceGetContainer on w, when w has no container for r: it   *)
(* creates one, or refuses with "worker already has the maximum number of  *)
(* active containers".                                                     *)
CreateOn(r, w) ==
    /\ Count(w) < MaxContainers
    /\ conts' = conts \cup {NewCont(r, w)}
    /\ Finish(r, "created", NewCont(r, w))

FoundOn(r, w) ==
    /\ \E c \in Existing(r, w) : Finish(r, "found", c)
    /\ UNCHANGED conts

WorkerFull(w) == Count(w) >= MaxContainers

-----------------------------------------------------------------------------
(* pool.FindOrCreateBuildContainer                                        *)

(* provider.FindWorkerForBuildContainer: the worker that hosts a         *)
(* container for this (build, plan), among the live registry entries.     *)
FindBuildWorker(r) ==
    /\ pc[r] = "start"
    /\ ReqKind[r] = "build"
    /\ \/ \E w \in running :
            /\ Existing(r, w) # {}
            /\ target' = [target EXCEPT ![r] = w]
            /\ pc' = [pc EXCEPT ![r] = "delegate"]
       \/ /\ \A w \in running : Existing(r, w) = {}
          /\ pc' = [pc EXCEPT ![r] = "place"]
          /\ UNCHANGED target
    /\ UNCHANGED <<conts, running, reported, inputVols, cands, result, got>>

(* AllSatisfying, then VolumeOn for every input on every compatible       *)
(* worker; the workers tied for the most inputs are tried in turn.        *)
PlaceBuild(r) ==
    /\ pc[r] = "place"
    /\ \/ /\ AllSatisfying = {}
          /\ Finish(r, "noworkers", NoCont)
          /\ UNCHANGED cands
       \/ /\ AllSatisfying # {}
          /\ cands' = [cands EXCEPT ![r] = MostInputs(AllSatisfying)]
          /\ pc' = [pc EXCEPT ![r] = "try"]
          /\ UNCHANGED <<result, got>>
    /\ UNCHANGED <<conts, running, reported, inputVols, target>>

(* Mutant: a worker at max containers is tried again instead of skipped. *)
TryWorkerNoSkip(r) ==
    /\ pc[r] = "try"
    /\ \/ /\ cands[r] = {}
          /\ Finish(r, "exhausted", NoCont)
          /\ UNCHANGED conts
       \/ \E w \in cands[r] :
            \/ FoundOn(r, w)
            \/ /\ Existing(r, w) = {}
               /\ CreateOn(r, w)
            \/ /\ Existing(r, w) = {}
               /\ WorkerFull(w)
               /\ UNCHANGED <<conts, pc, result, got>>
    /\ UNCHANGED <<running, reported, inputVols, target, cands>>

(* Mutant: the max-containers error is taken for success and the nil     *)
(* container returned.                                                     *)
TryWorkerFullAsSuccess(r) ==
    /\ pc[r] = "try"
    /\ \/ /\ cands[r] = {}
          /\ Finish(r, "exhausted", NoCont)
          /\ UNCHANGED <<conts, cands>>
       \/ \E w \in cands[r] :
            \/ /\ FoundOn(r, w)
               /\ UNCHANGED cands
            \/ /\ Existing(r, w) = {}
               /\ CreateOn(r, w)
               /\ UNCHANGED cands
            \/ /\ Existing(r, w) = {}
               /\ WorkerFull(w)
               /\ Finish(r, "created", NoCont)
               /\ UNCHANGED <<conts, cands>>
    /\ UNCHANGED <<running, reported, inputVols, target>>

(* One turn of findWorkerNotRunningVTXTask: a worker that is full is      *)
(* skipped (continue); any other error is returned.                        *)
TryWorker(r) ==
    /\ pc[r] = "try"
    /\ \/ /\ cands[r] = {}
          /\ Finish(r, "exhausted", NoCont)
          /\ UNCHANGED <<conts, cands>>
       \/ \E w \in cands[r] :
            \/ /\ FoundOn(r, w)
               /\ UNCHANGED cands
            \/ /\ Existing(r, w) = {}
               /\ CreateOn(r, w)
               /\ UNCHANGED cands
            \/ /\ Existing(r, w) = {}
               /\ WorkerFull(w)
               /\ cands' = [cands EXCEPT ![r] = @ \ {w}]
               /\ UNCHANGED <<conts, pc, result, got>>
    /\ UNCHANGED <<running, reported, inputVols, target>>

(* The delegation of FindOrCreateBuildContainer, of                       *)
(* FindOrCreateResourceCheckContainer and of CreateResourceGetContainer   *)
(* to the worker chosen: a refusal for max containers is returned as an   *)
(* error, nothing is retried.                                              *)
Delegate(r) ==
    LET w == target[r] IN
    /\ pc[r] = "delegate"
    /\ \/ FoundOn(r, w)
       \/ /\ Existing(r, w) = {}
          /\ CreateOn(r, w)
       \/ /\ Existing(r, w) = {}
          /\ WorkerFull(w)
          /\ Finish(r, "full", NoCont)
          /\ UNCHANGED conts
    /\ UNCHANGED <<running, reported, inputVols, target, cands>>

-----------------------------------------------------------------------------
(* pool.FindOrCreateResourceCheckContainer and CreateResourceGetContainer *)

(* provider.FindWorkerForResourceCheckContainer; when nothing is found    *)
(* the pool falls back to Satisfying.                                      *)
FindCheckWorker(r) ==
    /\ pc[r] = "start"
    /\ ReqKind[r] = "check"
    /\ \E w \in running :
         /\ Existing(r, w) # {}
         /\ target' = [target EXCEPT ![r] = w]
         /\ pc' = [pc EXCEPT ![r] = "delegate"]
    /\ UNCHANGED <<conts, running, reported, inputVols, cands, result, got>>

CheckNotFound(r) ==
    /\ pc[r] = "start"
    /\ ReqKind[r] = "check"
    /\ \A w \in running : Existing(r, w) = {}
    /\ pc' = [pc EXCEPT ![r] = "satisfy"]
    /\ UNCHANGED <<conts, running, reported, inputVols, target, cands, result, got>>

(* A get container is always placed by Satisfying.                        *)
StartGet(r) ==
    /\ pc[r] = "start"
    /\ ReqKind[r] = "get"
    /\ pc' = [pc EXCEPT ![r] = "satisfy"]
    /\ UNCHANGED <<conts, running, reported, inputVols, target, cands, result, got>>

(* Mutant: the error of AllSatisfying is not checked and the empty slice  *)
(* indexed; the call goes on with no worker.                               *)
SatisfyIgnoringError(r) ==
    /\ pc[r] = "satisfy"
    /\ \/ /\ AllSatisfying = {}
          /\ pc' = [pc EXCEPT ![r] = "delegate"]
          /\ UNCHANGED <<target, result, got>>
       \/ \E w \in AllSatisfying :
            /\ target' = [target EXCEPT ![r] = w]
            /\ pc' = [pc EXCEPT ![r] = "delegate"]
            /\ UNCHANGED <<result, got>>
    /\ UNCHANGED <<conts, running, reported, inputVols, cands>>

(* Mutant: in FindOrCreateResourceCheckContainer the fallback declares a  *)
(* new worker (:=) that shadows the one the provider returned (nil).       *)
SatisfyShadowedWorker(r) ==
    /\ pc[r] = "satisfy"
    /\ \/ /\ AllSatisfying = {}
          /\ Finish(r, "noworkers", NoCont)
          /\ UNCHANGED target
       \/ \E w \in AllSatisfying :
            /\ target' = [target EXCEPT ![r] = IF ReqKind[r] = "check" THEN @ ELSE w]
            /\ pc' = [pc EXCEPT ![r] = "delegate"]
            /\ UNCHANGED <<result, got>>
    /\ UNCHANGED <<conts, running, reported, inputVols, cands>>

(* Mutant: with no compatible worker the call waits for one instead of    *)
(* returning the error.                                                    *)
SatisfyWaitForWorker(r) ==
    /\ pc[r] = "satisfy"
    /\ \E w \in AllSatisfying :
         /\ target' = [target EXCEPT ![r] = w]
         /\ pc' = [pc EXCEPT ![r] = "delegate"]
    /\ UNCHANGED <<conts, running, reported, inputVols, cands, result, got>>

(* pool.Satisfying: a random one of AllSatisfying.                         *)
Satisfy(r) ==
    /\ pc[r] = "satisfy"
    /\ \/ /\ AllSatisfying = {}
          /\ Finish(r, "noworkers", NoCont)
          /\ UNCHANGED target
       \/ \E w \in AllSatisfying :
            /\ target' = [target EXCEPT ![r] = w]
            /\ pc' = [pc EXCEPT ![r] = "delegate"]
            /\ UNCHANGED <<result, got>>
    /\ UNCHANGED <<conts, running, reported, inputVols, cands>>

-----------------------------------------------------------------------------
(* pool.FindContainerByHandle                                             *)

(* provider.FindWorkerForContainer: not found is (nil, false, nil).        *)
FindHandleWorker(r) ==
    /\ pc[r] = "start"
    /\ ReqKind[r] = "handle"
    /\ \/ \E w \in running :
            /\ Existing(r, w) # {}
            /\ target' = [target EXCEPT ![r] = w]
            /\ pc' = [pc EXCEPT ![r] = "lookup"]
            /\ UNCHANGED <<result, got>>
       \/ /\ \A w \in running : Existing(r, w) = {}
          /\ Finish(r, "notfound", NoCont)
          /\ UNCHANGED target
    /\ UNCHANGED <<conts, running, reported, inputVols, cands>>

(* worker.FindContainerByHandle on the worker the provider named.          *)
LookupHandle(r) ==
    /\ pc[r] = "lookup"
    /\ \/ FoundOn(r, target[r])
       \/ /\ Existing(r, target[r]) = {}
          /\ Finish(r, "notfound", NoCont)
          /\ UNCHANGED conts
    /\ UNCHANGED <<running, reported, inputVols, target, cands>>

(* Any remote call of the pool (the provider's database lookups,          *)
(* RunningWorkers, VolumeOn, a worker call) may fail; the pool returns the *)
(* error.                                                                  *)
CallFails(r) ==
    /\ pc[r] \notin {"done"}
    /\ Finish(r, "error", NoCont)
    /\ UNCHANGED <<conts, running, reported, inputVols, target, cands>>

-----------------------------------------------------------------------------
(* The environment                                                        *)

(* A worker misses its heartbeat: Workers() no longer lists it.           *)
Expire(w) ==
    /\ w \in running
    /\ running' = running \ {w}
    /\ UNCHANGED <<conts, reported, inputVols, pc, target, cands, result, got>>

(* SaveWorker: the worker registers again with its current count.         *)
Heartbeat(w) ==
    /\ w \notin running \/ reported[w] # Count(w)
    /\ running' = running \cup {w}
    /\ reported' = [reported EXCEPT ![w] = Count(w)]
    /\ UNCHANGED <<conts, inputVols, pc, target, cands, result, got>>

(* A container of a finished call reaches its TTL and is destroyed.       *)
Destroy(c) ==
    /\ Placement!Destroy(c)
    /\ UNCHANGED <<running, reported, inputVols, pc, target, cands>>

-----------------------------------------------------------------------------

(* Calls of one kind for one identity are issued one after the other (a   *)
(* step is run again only after its previous run ended).                  *)
Issued(r) ==
    \A q \in Reqs :
        q < r /\ ReqKey[q] = ReqKey[r] /\ ReqKind[q] = ReqKind[r] => pc[q] = "done"

Init ==
    /\ conts = {}
    /\ result = [r \in Reqs |-> "pending"]
    /\ got = [r \in Reqs |-> NoCont]
    /\ running = Workers
    /\ reported = [w \in Workers |-> Count(w)]
    /\ inputVols \in [Inputs -> SUBSET Workers]
    /\ pc = [r \in Reqs |-> "start"]
    /\ target = [r \in Reqs |-> NoWorker]
    /\ cands = [r \in Reqs |-> {}]

(* The steps of call r that its caller's goroutine takes without any      *)
(* remote failure.                                                         *)
ReqStep(r) ==
    /\ Issued(r)
    /\ \/ FindBuildWorker(r) \/ PlaceBuild(r) \/ TryWorker(r) \/ Delegate(r)
       \/ FindCheckWorker(r) \/ CheckNotFound(r) \/ StartGet(r) \/ Satisfy(r)
       \/ FindHandleWorker(r) \/ LookupHandle(r)

Environment ==
    \/ \E w \in Workers : Expire(w) \/ Heartbeat(w)
    \/ \E c \in conts : Destroy(c)

Next ==
    \/ \E r \in Reqs : ReqStep(r) \/ (Issued(r) /\ CallFails(r))
    \/ Environment

(* Each call runs on its caller's goroutine; failures and the registry    *)
(* and container churn owe nothing.                                        *)
Spec == Init /\ [][Next]_vars /\ \A r \in Reqs : WF_vars(ReqStep(r))
-----------------------------------------------------------------------------
(* Properties                                                             *)

(* The inductive invariant of the proofs (WorkerPoolProofs): the          *)
(* container set stays finite and within every worker's max_containers,    *)
(* an unfinished call has returned nothing yet, and a call that is about   *)
(* to create a container is of a kind that has one and, when it delegates, *)
(* names a registered worker.                                              *)
IInv ==
    /\ TypeOK
    /\ IsFiniteSet(conts)
    /\ \A w \in Workers : Count(w) <= MaxContainers
    /\ \A r \in Reqs :
         /\ pc[r] # "done" => result[r] = "pending"
         /\ pc[r] \in {"place", "try", "satisfy", "delegate"} =>
                ReqKind[r] \in Placement!ContKinds
         /\ pc[r] = "delegate" => target[r] \in Workers

(* The workersByCount / highestCount loop of FindOrCreateBuildContainer    *)
(* hands findWorkerNotRunningVTXTask exactly the compatible workers with   *)
(* the most input volumes, whatever order the provider lists them in.     *)
TieLoopIsMostInputs ==
    \A order \in Orderings(AllSatisfying) :
        TieLoop(order) = MostInputs(AllSatisfying)

(* The pool implements its contract (PoolPlacement): across concurrent    *)
(* calls, registry expiry and stale ActiveContainers, every container it  *)
(* hands out carries the caller's identity and no worker is pushed past    *)
(* max_containers.                                                         *)
PoolImplementsPlacement == Placement!Spec

(* Every pool call returns: the retry over the tied workers ends even when *)
(* all of them are full (findWorkerNotRunningVTXTask skips, never spins).  *)
AllCallsReturn == \A r \in Reqs : <>(pc[r] = "done")

(* Spec 4.3 ("analogous" to build placement, whose                        *)
(* findWorkerNotRunningVTXTask skips a full worker and tries the next): a  *)
(* CreateResourceGetContainer call fails for max containers only when     *)
(* every worker AllSatisfying offers it is full.                           *)
GetFailsOnlyWhenAllFull ==
    [][\A r \in Reqs :
         (ReqKind[r] = "get" /\ result[r] = "pending" /\ result'[r] = "full")
            => \A w \in AllSatisfying : WorkerFull(w)]_vars

(* Spec 3 and 8: at most one build container per (build, plan).          *)
BuildContainerUnique ==
    \A c1, c2 \in conts :
        c1.kind = "build" /\ c2.kind = "build" /\ c1.key = c2.key => c1 = c2

=============================================================================
