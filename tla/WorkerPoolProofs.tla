-------------------------- MODULE WorkerPoolProofs --------------------------
(***************************************************************************)
(* Proofs about the worker pool (WorkerPool) for every set of workers,     *)
(* calls and keys and every max_containers allowed by PoolAssumption:     *)
(* IInv is inductive, hence TypeOK always holds, and the pool implements   *)
(* its contract PoolPlacement under the identity mapping of conts, result  *)
(* and got.                                                                *)
(*                                                                         *)
(* Every step of a call is one of four kinds: a quiet step that moves the *)
(* call on without touching conts, result or got (an abstract stutter), a  *)
(* FoundOn (abstract Found), a CreateOn (abstract Create) or a failure     *)
(* (abstract Fail).  The lemmas below prove IInv and the abstract step for *)
(* each kind once; the action lemmas only show which kind they take.       *)
(***************************************************************************)
EXTENDS WorkerPool, FiniteSetTheorems, TLAPS

pvars == <<conts, result, got>>

(* The step of call r that returns failure f, as every error path of the  *)
(* pool's code takes it.                                                   *)
FailStep(r, f) ==
    /\ Finish(r, f, NoCont)
    /\ UNCHANGED <<conts, running, reported, inputVols, target, cands>>

-----------------------------------------------------------------------------
(* Counting the containers of one worker                                  *)

(* The containers of w among a finite set are finitely many.              *)
LEMMA CountFinite ==
    ASSUME NEW S, IsFiniteSet(S), NEW w
    PROVE  IsFiniteSet({c \in S : c.w = w})
BY FS_Subset

(* The containers on worker w among the set S.                           *)
CountIn(S, w) == Cardinality({c \in S : c.w = w})

(* Adding a container adds at most one to any worker's count.             *)
LEMMA CountAdd ==
    ASSUME NEW S, IsFiniteSet(S), NEW x, NEW w
    PROVE  /\ CountIn(S, w) \in Nat
           /\ CountIn(S \cup {x}, w) \in Nat
           /\ CountIn(S \cup {x}, w) <= CountIn(S, w) + 1
<1> DEFINE T == {c \in S : c.w = w}
<1>1. IsFiniteSet(T) /\ Cardinality(T) \in Nat
  BY CountFinite, FS_CardinalityType
<1>2. /\ IsFiniteSet(T \cup {x})
      /\ Cardinality(T \cup {x}) = IF x \in T THEN Cardinality(T) ELSE Cardinality(T) + 1
  BY <1>1, FS_AddElement
<1>3. {c \in S \cup {x} : c.w = w} \subseteq T \cup {x}
  OBVIOUS
<1>4. IsFiniteSet({c \in S \cup {x} : c.w = w})
  BY CountFinite, FS_AddElement
<1> QED
  BY <1>1, <1>2, <1>3, <1>4, FS_Subset, FS_CardinalityType DEF CountIn

(* Removing a container never raises a worker's count.                     *)
LEMMA CountRemove ==
    ASSUME NEW S, IsFiniteSet(S), NEW x, NEW w
    PROVE  /\ CountIn(S, w) \in Nat
           /\ CountIn(S \ {x}, w) \in Nat
           /\ CountIn(S \ {x}, w) <= CountIn(S, w)
<1>1. IsFiniteSet({c \in S : c.w = w})
  BY CountFinite
<1>2. {c \in S \ {x} : c.w = w} \subseteq {c \in S : c.w = w}
  OBVIOUS
<1> QED
  BY <1>1, <1>2, FS_Subset, FS_CardinalityType DEF CountIn

(* The pool's count of a worker's containers is the contract's.          *)
LEMMA CountAgrees ==
    ASSUME NEW w
    PROVE  /\ Placement!Count(w) = Count(w)
           /\ Placement!Count(w)' = Count(w)'
BY DEF Placement!Count, Count

-----------------------------------------------------------------------------
(* The four kinds of step                                                 *)

(* A failure returned by an unfinished call.                               *)
LEMMA FailStepOK ==
    ASSUME IInv, NEW r \in Reqs, pc[r] # "done",
           NEW f \in Placement!Failures, FailStep(r, f)
    PROVE  IInv' /\ Placement!Fail(r)
<1>1. IInv'
  BY DEF IInv, TypeOK, FailStep, Finish, Placement!Return, PCs, Count,
         Results, Placement!Results
<1>2. Placement!Fail(r)
  BY DEF IInv, FailStep, Finish, Placement!Fail, Placement!Return
<1> QED
  BY <1>1, <1>2

(* A container of w that matches r is returned.                            *)
LEMMA FoundOnOK ==
    ASSUME IInv, NEW r \in Reqs, pc[r] # "done", NEW w, FoundOn(r, w),
           UNCHANGED <<running, reported, inputVols, target, cands>>
    PROVE  IInv' /\ Placement!Found(r)
<1>1. PICK c \in Existing(r, w) : Finish(r, "found", c)
  BY DEF FoundOn
<1>2. c \in conts /\ Placement!Matches(r, c)
  BY DEF Existing
<1>3. IInv'
  BY <1>1, <1>2 DEF FoundOn, IInv, TypeOK, Finish, Placement!Return, PCs,
                    Count, Results, Placement!Results
<1>4. Placement!Found(r)
  BY <1>1, <1>2 DEF IInv, FoundOn, Finish, Placement!Found
<1> QED
  BY <1>3, <1>4

(* A new container for r is put on a registered worker with room.          *)
LEMMA CreateOnOK ==
    ASSUME IInv, NEW r \in Reqs, pc[r] # "done",
           ReqKind[r] \in Placement!ContKinds, NEW w \in Workers, CreateOn(r, w),
           UNCHANGED <<running, reported, inputVols, target, cands>>
    PROVE  IInv' /\ Placement!Create(r)
<1> USE PoolAssumption
<1>1. NewCont(r, w) \in Cont
  BY DEF NewCont, Cont, Placement!Cont, Placement!ContKinds
<1>2. IsFiniteSet(conts')
  BY FS_AddElement DEF IInv, CreateOn
<1>3. ASSUME NEW v \in Workers PROVE Count(v)' <= MaxContainers
  <2>1. CASE v = w
    <3>1. conts' = conts \cup {NewCont(r, w)} /\ IsFiniteSet(conts)
      BY DEF IInv, CreateOn
    <3>2. /\ CountIn(conts, v) \in Nat
          /\ CountIn(conts \cup {NewCont(r, w)}, v) \in Nat
          /\ CountIn(conts \cup {NewCont(r, w)}, v) <= CountIn(conts, v) + 1
      BY <3>1, CountAdd
    <3>3. CountIn(conts, v) < MaxContainers
      BY <2>1 DEF CreateOn, Count, CountIn
    <3>4. Count(v)' = CountIn(conts \cup {NewCont(r, w)}, v)
      BY <3>1 DEF Count, CountIn
    <3> QED
      BY <3>2, <3>3, <3>4
  <2>2. CASE v # w
    <3>1. {c \in conts' : c.w = v} = {c \in conts : c.w = v}
      <4>1. conts' = conts \cup {NewCont(r, w)} /\ NewCont(r, w).w # v
        BY <2>2 DEF CreateOn, NewCont
      <4> QED
        BY <4>1, Zenon
    <3> QED
      BY <3>1 DEF IInv, Count
  <2> QED
    BY <2>1, <2>2
<1>4. TypeOK'
  BY <1>1 DEF IInv, TypeOK, CreateOn, Finish, Placement!Return, PCs,
              Results, Placement!Results
<1>5. ASSUME NEW q \in Reqs
      PROVE  /\ pc'[q] # "done" => result'[q] = "pending"
             /\ pc'[q] \in {"place", "try", "satisfy", "delegate"} => ReqKind[q] \in Placement!ContKinds
             /\ pc'[q] = "delegate" => target'[q] \in Workers
  BY DEF IInv, TypeOK, CreateOn, Finish, Placement!Return
<1>6. IInv'
  BY <1>2, <1>3, <1>4, <1>5 DEF IInv
<1>7. Placement!Create(r)
  BY CountAgrees DEF IInv, CreateOn, Finish, NewCont, Placement!Create, Placement!ContKinds
<1> QED
  BY <1>6, <1>7

(* A step of call r that moves it to p, with target t and candidates cs,  *)
(* without touching conts, result or got.                                  *)
Quiet(r, p, t, cs) ==
    /\ pc[r] # "done"
    /\ p \in PCs \ {"done"}
    /\ t \in Workers \cup {NoWorker}
    /\ cs \in SUBSET Workers
    /\ pc' = [pc EXCEPT ![r] = p]
    /\ target' = [target EXCEPT ![r] = t]
    /\ cands' = [cands EXCEPT ![r] = cs]
    /\ UNCHANGED <<conts, running, reported, inputVols, result, got>>
    /\ p \in {"place", "try", "satisfy", "delegate"} => ReqKind[r] \in Placement!ContKinds
    /\ p = "delegate" => t \in Workers

(* A quiet step keeps IInv and is an abstract stutter.                     *)
LEMMA QuietOK ==
    ASSUME IInv, NEW r \in Reqs, NEW p, NEW t, NEW cs, Quiet(r, p, t, cs)
    PROVE  IInv' /\ [Placement!Next]_pvars
<1>1. TypeOK'
  BY DEF IInv, TypeOK, Quiet
<1>2. ASSUME NEW q \in Reqs
      PROVE  /\ pc'[q] # "done" => result'[q] = "pending"
             /\ pc'[q] \in {"place", "try", "satisfy", "delegate"} => ReqKind[q] \in Placement!ContKinds
             /\ pc'[q] = "delegate" => target'[q] \in Workers
  BY DEF IInv, TypeOK, Quiet
<1>3. \A w \in Workers : Count(w)' <= MaxContainers
  BY DEF IInv, Count, Quiet
<1> QED
  BY <1>1, <1>2, <1>3 DEF IInv, pvars, Quiet

(* What a function of TypeOK is when call r leaves it alone.              *)
LEMMA Same ==
    ASSUME IInv, NEW r \in Reqs
    PROVE  /\ pc = [pc EXCEPT ![r] = pc[r]]
           /\ target = [target EXCEPT ![r] = target[r]]
           /\ cands = [cands EXCEPT ![r] = cands[r]]
           /\ target[r] \in Workers \cup {NoWorker}
           /\ cands[r] \in SUBSET Workers
BY DEF IInv, TypeOK

(* The compatible workers, and the most-inputs ones among them, are       *)
(* registered workers.                                                     *)
LEMMA SatisfyingWorkers ==
    ASSUME IInv
    PROVE  /\ AllSatisfying \subseteq Workers
           /\ MostInputs(AllSatisfying) \subseteq Workers
BY DEF IInv, TypeOK, AllSatisfying, MostInputs

-----------------------------------------------------------------------------
(* One lemma per action of a call: which kind of step each branch is.     *)

LEMMA FindBuildWorkerOK ==
    ASSUME IInv, NEW r \in Reqs, FindBuildWorker(r)
    PROVE  IInv' /\ [Placement!Next]_pvars
<1>0. pc[r] = "start" /\ ReqKind[r] \in Placement!ContKinds
  BY DEF FindBuildWorker, Placement!ContKinds
<1>1. CASE \E w \in running : /\ target' = [target EXCEPT ![r] = w]
                              /\ pc' = [pc EXCEPT ![r] = "delegate"]
  <2>1. PICK w \in running : /\ target' = [target EXCEPT ![r] = w]
                             /\ pc' = [pc EXCEPT ![r] = "delegate"]
    BY <1>1
  <2>2. Quiet(r, "delegate", w, cands[r])
    BY <1>0, <2>1, Same DEF FindBuildWorker, IInv, TypeOK, Quiet, PCs
  <2> QED
    BY <2>2, QuietOK
<1>2. CASE pc' = [pc EXCEPT ![r] = "place"] /\ UNCHANGED target
  <2>1. Quiet(r, "place", target[r], cands[r])
    BY <1>0, <1>2, Same DEF FindBuildWorker, Quiet, PCs
  <2> QED
    BY <2>1, QuietOK
<1>3. \/ \E w \in running : /\ target' = [target EXCEPT ![r] = w]
                            /\ pc' = [pc EXCEPT ![r] = "delegate"]
      \/ pc' = [pc EXCEPT ![r] = "place"] /\ UNCHANGED target
  BY DEF FindBuildWorker
<1> QED
  BY <1>1, <1>2, <1>3

LEMMA PlaceBuildOK ==
    ASSUME IInv, NEW r \in Reqs, PlaceBuild(r)
    PROVE  IInv' /\ [Placement!Next]_pvars
<1>0. pc[r] = "place" /\ ReqKind[r] \in Placement!ContKinds
  BY DEF PlaceBuild, IInv
<1>1. CASE Finish(r, "noworkers", NoCont) /\ UNCHANGED cands
  <2>1. FailStep(r, "noworkers") /\ pc[r] # "done"
    BY <1>0, <1>1 DEF PlaceBuild, FailStep
  <2> QED
    BY <2>1, FailStepOK DEF Placement!Failures, Placement!Next
<1>2. CASE /\ cands' = [cands EXCEPT ![r] = MostInputs(AllSatisfying)]
           /\ pc' = [pc EXCEPT ![r] = "try"]
           /\ UNCHANGED <<result, got>>
  <2>1. Quiet(r, "try", target[r], MostInputs(AllSatisfying))
    BY <1>0, <1>2, Same, SatisfyingWorkers DEF PlaceBuild, Quiet, PCs
  <2> QED
    BY <2>1, QuietOK
<1> QED
  BY <1>1, <1>2 DEF PlaceBuild

LEMMA TryWorkerOK ==
    ASSUME IInv, NEW r \in Reqs, TryWorker(r)
    PROVE  IInv' /\ [Placement!Next]_pvars
<1>0. pc[r] = "try" /\ ReqKind[r] \in Placement!ContKinds
      /\ UNCHANGED <<running, reported, inputVols, target>>
  BY DEF TryWorker, IInv
<1>1. CASE cands[r] = {} /\ Finish(r, "exhausted", NoCont) /\ UNCHANGED <<conts, cands>>
  <2>1. FailStep(r, "exhausted") /\ pc[r] # "done"
    BY <1>0, <1>1 DEF FailStep
  <2> QED
    BY <2>1, FailStepOK DEF Placement!Failures, Placement!Next
<1>2. CASE \E w \in cands[r] : FoundOn(r, w) /\ UNCHANGED cands
  <2>1. PICK w \in cands[r] : FoundOn(r, w) /\ UNCHANGED cands
    BY <1>2
  <2> QED
    BY <1>0, <2>1, FoundOnOK DEF Placement!Next
<1>3. CASE \E w \in cands[r] : Existing(r, w) = {} /\ CreateOn(r, w) /\ UNCHANGED cands
  <2>1. PICK w \in cands[r] : CreateOn(r, w) /\ UNCHANGED cands
    BY <1>3
  <2>2. w \in Workers
    BY Same
  <2> QED
    BY <1>0, <2>1, <2>2, CreateOnOK DEF Placement!Next
<1>4. CASE \E w \in cands[r] :
             /\ cands' = [cands EXCEPT ![r] = @ \ {w}]
             /\ UNCHANGED <<conts, pc, result, got>>
  <2>1. PICK w \in cands[r] : /\ cands' = [cands EXCEPT ![r] = cands[r] \ {w}]
                               /\ UNCHANGED <<conts, pc, result, got>>
    BY <1>4
  <2>2. Quiet(r, "try", target[r], cands[r] \ {w})
    BY <1>0, <2>1, Same DEF Quiet, PCs
  <2> QED
    BY <2>2, QuietOK
<1> QED
  BY <1>1, <1>2, <1>3, <1>4 DEF TryWorker

LEMMA DelegateOK ==
    ASSUME IInv, NEW r \in Reqs, Delegate(r)
    PROVE  IInv' /\ [Placement!Next]_pvars
<1>0. /\ pc[r] = "delegate" /\ ReqKind[r] \in Placement!ContKinds
      /\ target[r] \in Workers
      /\ UNCHANGED <<running, reported, inputVols, target, cands>>
  BY DEF Delegate, IInv
<1>1. CASE FoundOn(r, target[r])
  BY <1>0, <1>1, FoundOnOK DEF Placement!Next
<1>2. CASE CreateOn(r, target[r])
  BY <1>0, <1>2, CreateOnOK DEF Placement!Next
<1>3. CASE Finish(r, "full", NoCont) /\ UNCHANGED conts
  BY <1>0, <1>3, FailStepOK DEF FailStep, Placement!Failures, Placement!Next
<1> QED
  BY <1>1, <1>2, <1>3 DEF Delegate

LEMMA FindCheckWorkerOK ==
    ASSUME IInv, NEW r \in Reqs, FindCheckWorker(r)
    PROVE  IInv' /\ [Placement!Next]_pvars
<1>1. PICK w \in running : /\ target' = [target EXCEPT ![r] = w]
                           /\ pc' = [pc EXCEPT ![r] = "delegate"]
  BY DEF FindCheckWorker
<1>2. Quiet(r, "delegate", w, cands[r])
  BY <1>1, Same DEF FindCheckWorker, IInv, TypeOK, Quiet, PCs, Placement!ContKinds
<1> QED
  BY <1>2, QuietOK

LEMMA CheckNotFoundOK ==
    ASSUME IInv, NEW r \in Reqs, CheckNotFound(r)
    PROVE  IInv' /\ [Placement!Next]_pvars
<1>1. Quiet(r, "satisfy", target[r], cands[r])
  BY Same DEF CheckNotFound, Quiet, PCs, Placement!ContKinds
<1> QED
  BY <1>1, QuietOK

LEMMA StartGetOK ==
    ASSUME IInv, NEW r \in Reqs, StartGet(r)
    PROVE  IInv' /\ [Placement!Next]_pvars
<1>1. Quiet(r, "satisfy", target[r], cands[r])
  BY Same DEF StartGet, Quiet, PCs, Placement!ContKinds
<1> QED
  BY <1>1, QuietOK

LEMMA SatisfyOK ==
    ASSUME IInv, NEW r \in Reqs, Satisfy(r)
    PROVE  IInv' /\ [Placement!Next]_pvars
<1>0. pc[r] = "satisfy" /\ ReqKind[r] \in Placement!ContKinds
  BY DEF Satisfy, IInv
<1>1. CASE AllSatisfying = {} /\ Finish(r, "noworkers", NoCont) /\ UNCHANGED target
  <2>1. FailStep(r, "noworkers") /\ pc[r] # "done"
    BY <1>0, <1>1 DEF Satisfy, FailStep
  <2> QED
    BY <2>1, FailStepOK DEF Placement!Failures, Placement!Next
<1>2. CASE \E w \in AllSatisfying :
             /\ target' = [target EXCEPT ![r] = w]
             /\ pc' = [pc EXCEPT ![r] = "delegate"]
             /\ UNCHANGED <<result, got>>
  <2>1. PICK w \in AllSatisfying :
             /\ target' = [target EXCEPT ![r] = w]
             /\ pc' = [pc EXCEPT ![r] = "delegate"]
             /\ UNCHANGED <<result, got>>
    BY <1>2
  <2>2. Quiet(r, "delegate", w, cands[r])
    BY <1>0, <2>1, Same, SatisfyingWorkers DEF Satisfy, Quiet, PCs
  <2> QED
    BY <2>2, QuietOK
<1> QED
  BY <1>1, <1>2 DEF Satisfy

LEMMA FindHandleWorkerOK ==
    ASSUME IInv, NEW r \in Reqs, FindHandleWorker(r)
    PROVE  IInv' /\ [Placement!Next]_pvars
<1>0. pc[r] = "start"
  BY DEF FindHandleWorker
<1>1. CASE \E w \in running :
             /\ target' = [target EXCEPT ![r] = w]
             /\ pc' = [pc EXCEPT ![r] = "lookup"]
             /\ UNCHANGED <<result, got>>
  <2>1. PICK w \in running :
             /\ target' = [target EXCEPT ![r] = w]
             /\ pc' = [pc EXCEPT ![r] = "lookup"]
             /\ UNCHANGED <<result, got>>
    BY <1>1
  <2>2. Quiet(r, "lookup", w, cands[r])
    BY <1>0, <2>1, Same DEF FindHandleWorker, IInv, TypeOK, Quiet, PCs
  <2> QED
    BY <2>2, QuietOK
<1>2. CASE Finish(r, "notfound", NoCont) /\ UNCHANGED target
  <2>1. FailStep(r, "notfound") /\ pc[r] # "done"
    BY <1>0, <1>2 DEF FindHandleWorker, FailStep
  <2> QED
    BY <2>1, FailStepOK DEF Placement!Failures, Placement!Next
<1> QED
  BY <1>1, <1>2 DEF FindHandleWorker

LEMMA LookupHandleOK ==
    ASSUME IInv, NEW r \in Reqs, LookupHandle(r)
    PROVE  IInv' /\ [Placement!Next]_pvars
<1>0. pc[r] = "lookup" /\ UNCHANGED <<running, reported, inputVols, target, cands>>
  BY DEF LookupHandle
<1>1. CASE FoundOn(r, target[r])
  BY <1>0, <1>1, FoundOnOK DEF Placement!Next
<1>2. CASE Finish(r, "notfound", NoCont) /\ UNCHANGED conts
  BY <1>0, <1>2, FailStepOK DEF FailStep, Placement!Failures, Placement!Next
<1> QED
  BY <1>1, <1>2 DEF LookupHandle

LEMMA CallFailsOK ==
    ASSUME IInv, NEW r \in Reqs, CallFails(r)
    PROVE  IInv' /\ [Placement!Next]_pvars
BY FailStepOK DEF CallFails, FailStep, Placement!Failures, Placement!Next

-----------------------------------------------------------------------------
(* The environment                                                        *)

LEMMA ExpireOK ==
    ASSUME IInv, NEW w \in Workers, Expire(w)
    PROVE  IInv' /\ [Placement!Next]_pvars
<1>1. TypeOK'
  BY DEF IInv, TypeOK, Expire
<1> QED
  BY <1>1 DEF IInv, Expire, Count, pvars

LEMMA HeartbeatOK ==
    ASSUME IInv, NEW w \in Workers, Heartbeat(w)
    PROVE  IInv' /\ [Placement!Next]_pvars
<1>1. Count(w) \in 0..MaxContainers
  <2>1. IsFiniteSet({c \in conts : c.w = w})
    BY CountFinite DEF IInv
  <2> QED
    BY <2>1, FS_CardinalityType DEF IInv, Count
<1>2. TypeOK'
  BY <1>1 DEF IInv, TypeOK, Heartbeat
<1> QED
  BY <1>2 DEF IInv, Heartbeat, Count, pvars

LEMMA DestroyOK ==
    ASSUME IInv, NEW c \in conts, Destroy(c)
    PROVE  IInv' /\ [Placement!Next]_pvars
<1>1. conts' = conts \ {c} /\ IsFiniteSet(conts)
  BY DEF IInv, Destroy, Placement!Destroy
<1>2. IsFiniteSet(conts')
  BY <1>1, FS_RemoveElement
<1>3. ASSUME NEW v \in Workers PROVE Count(v)' <= MaxContainers
  <2>1. /\ CountIn(conts, v) \in Nat
        /\ CountIn(conts \ {c}, v) \in Nat
        /\ CountIn(conts \ {c}, v) <= CountIn(conts, v)
    BY <1>1, CountRemove
  <2>2. Count(v)' = CountIn(conts \ {c}, v) /\ Count(v) = CountIn(conts, v)
    BY <1>1 DEF Count, CountIn
  <2>3. Count(v) <= MaxContainers
    BY DEF IInv
  <2> QED
    BY <2>1, <2>2, <2>3, PoolAssumption
<1>4. TypeOK'
  BY DEF IInv, TypeOK, Destroy, Placement!Destroy
<1>5. IInv'
  BY <1>2, <1>3, <1>4 DEF IInv, Destroy, Placement!Destroy
<1> QED
  BY <1>5 DEF Destroy, Placement!Next

-----------------------------------------------------------------------------
(* The induction                                                          *)

(* The initial states satisfy IInv and are initial states of the         *)
(* contract: no containers, every call pending.                           *)
LEMMA InitOK == Init => IInv /\ Placement!Init
<1> SUFFICES ASSUME Init PROVE IInv /\ Placement!Init
  OBVIOUS
<1> USE PoolAssumption
<1>1. \A w : {c \in conts : c.w = w} = {}
  BY DEF Init
<1>2. \A w : Count(w) = 0 /\ Placement!Count(w) = 0
  BY <1>1, FS_EmptySet DEF Count, Placement!Count
<1>3. IsFiniteSet(conts)
  BY FS_EmptySet DEF Init
<1>4. TypeOK
  BY <1>2 DEF Init, TypeOK, PCs, Results, Placement!Results
<1>5. IInv
  BY <1>2, <1>3, <1>4 DEF Init, IInv
<1>6. Placement!Init
  BY <1>2 DEF Init, Placement!Init
<1> QED
  BY <1>5, <1>6

(* Every step keeps IInv and is a step of the contract or leaves conts,   *)
(* result and got alone.                                                   *)
LEMMA NextOK == IInv /\ [Next]_vars => IInv' /\ [Placement!Next]_pvars
<1> SUFFICES ASSUME IInv, [Next]_vars PROVE IInv' /\ [Placement!Next]_pvars
  OBVIOUS
<1>1. ASSUME NEW r \in Reqs, ReqStep(r) PROVE IInv' /\ [Placement!Next]_pvars
  BY <1>1, FindBuildWorkerOK, PlaceBuildOK, TryWorkerOK, DelegateOK,
     FindCheckWorkerOK, CheckNotFoundOK, StartGetOK, SatisfyOK,
     FindHandleWorkerOK, LookupHandleOK DEF ReqStep
<1>2. ASSUME NEW r \in Reqs, CallFails(r) PROVE IInv' /\ [Placement!Next]_pvars
  BY <1>2, CallFailsOK
<1>3. ASSUME Environment PROVE IInv' /\ [Placement!Next]_pvars
  BY <1>3, ExpireOK, HeartbeatOK, DestroyOK DEF Environment
<1>4. CASE UNCHANGED vars
  BY <1>4 DEF IInv, TypeOK, Count, vars, pvars
<1> QED
  BY <1>1, <1>2, <1>3, <1>4 DEF Next

(* IInv holds in every reachable state of the pool.                        *)
THEOREM IInvHolds == Spec => []IInv
BY InitOK, NextOK, PTL DEF Spec

(* Every variable of the pool keeps its type: in particular no container  *)
(* is ever placed on a worker that is not registered, and a worker's last *)
(* reported count never exceeds its max_containers.                        *)
THEOREM TypeCorrect == Spec => []TypeOK
BY IInvHolds, PTL DEF IInv

(* Refinement: every behaviour of the pool, with its concurrent calls,    *)
(* registry expiry and stale counts, is a behaviour of the contract       *)
(* PoolPlacement: a call returns a matching container that exists, a new  *)
(* one on a registered worker with room, or a failure, and only once.      *)
THEOREM PoolRefinement == Spec => PoolImplementsPlacement
<1>1. Spec => [][Placement!Next]_pvars
  BY InitOK, NextOK, PTL DEF Spec
<1> QED
  BY <1>1, InitOK, PTL DEF Spec, PoolImplementsPlacement, Placement!Spec, pvars
-----------------------------------------------------------------------------
(* What the contract guarantees, and so the pool                          *)

(* The contract's inductive invariant: result and got are indexed by the *)
(* calls, and every container a call returned carries its identity.      *)
ContractInv ==
    /\ DOMAIN result = Reqs
    /\ DOMAIN got = Reqs
    /\ Placement!ReturnedOwnIdentity

(* Every initial state of the contract satisfies ContractInv.             *)
LEMMA ContractInit == Placement!Init => ContractInv
BY DEF Placement!Init, ContractInv, Placement!ReturnedOwnIdentity

(* A Found or a Create hands call r a container matching r; a Fail hands  *)
(* it none; a Destroy hands nothing out.                                   *)
LEMMA ContractNext == ContractInv /\ [Placement!Next]_pvars => ContractInv'
<1> SUFFICES ASSUME ContractInv, [Placement!Next]_pvars PROVE ContractInv'
  OBVIOUS
<1>1. ASSUME NEW r \in Reqs, Placement!Found(r) PROVE ContractInv'
  BY <1>1 DEF Placement!Found, Placement!Return, ContractInv,
     Placement!ReturnedOwnIdentity
<1>2. ASSUME NEW r \in Reqs, Placement!Create(r) PROVE ContractInv'
  <2>1. PICK w \in Workers :
          Placement!Return(r, "created",
                           [by |-> r, key |-> ReqKey[r], kind |-> ReqKind[r], w |-> w])
    BY <1>2 DEF Placement!Create
  <2>2. Placement!Matches(r, [by |-> r, key |-> ReqKey[r], kind |-> ReqKind[r], w |-> w])
    BY DEF Placement!Matches
  <2>3. QED
    BY <2>1, <2>2 DEF Placement!Return, ContractInv, Placement!ReturnedOwnIdentity
<1>3. ASSUME NEW r \in Reqs, Placement!Fail(r) PROVE ContractInv'
  BY <1>3 DEF Placement!Fail, Placement!Return, Placement!Failures, ContractInv,
     Placement!ReturnedOwnIdentity
<1>4. ASSUME NEW c \in conts, Placement!Destroy(c) PROVE ContractInv'
  BY <1>4 DEF Placement!Destroy, ContractInv, Placement!ReturnedOwnIdentity
<1>5. CASE UNCHANGED pvars
  BY <1>5 DEF pvars, ContractInv, Placement!ReturnedOwnIdentity, Placement!Matches
<1>6. QED
  BY <1>1, <1>2, <1>3, <1>4, <1>5 DEF Placement!Next

(* Every behaviour of the contract keeps ContractInv.                     *)
LEMMA ContractIdentity == Placement!Spec => []ContractInv
BY ContractInit, ContractNext, PTL DEF Placement!Spec, pvars

(* Every container a pool call returns, found by identity, by handle or  *)
(* created on a chosen worker, carries the caller's identity (and its     *)
(* kind unless looked up by handle), across concurrent calls, registry    *)
(* expiry and the retries over tied workers: a consequence of the         *)
(* refinement.                                                              *)
THEOREM PoolReturnsOwnIdentity == Spec => []Placement!ReturnedOwnIdentity
<1>1. ContractInv => Placement!ReturnedOwnIdentity
  BY DEF ContractInv
<1>2. QED
  BY <1>1, ContractIdentity, PoolRefinement, PTL DEF PoolImplementsPlacement

=============================================================================
