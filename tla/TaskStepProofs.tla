--------------------------- MODULE TaskStepProofs ---------------------------
(***************************************************************************)
(* Proofs about TaskStep for every value of the constants: the type        *)
(* invariant and the faithfulness of concourse:exit-status, through the    *)
(* inductive invariant IInv.                                               *)
(***************************************************************************)
EXTENDS TaskStep, FiniteSetTheorems, TLAPS

USE ConstantsAssumption

(* The number of container ids is a natural number.                       *)
LEMMA MaxIdsNat == MaxIds \in Nat
BY FS_CardinalityType DEF MaxIds

(* A Init step preserves the inductive invariant.                                    *)
(* Every initial state satisfies the inductive invariant.                *)
LEMMA InitIInv == Init => IInv
BY MaxIdsNat DEF Init, IInv, TypeOK, Container, FreeSlot, CIds, ProcStates,
   TTLs, ExitStatusRecordedFaithfully, ChosenWhileCreating,
   ContainerOfRunningStep, ContainerOfStep, FreshContainerUnfinished, UnusedSlotsFree, PCs,
   Returned


(* pool.AllSatisfying returns workers.                                     *)
LEMMA AllSatisfyingType == AllSatisfying \subseteq Workers
BY DEF AllSatisfying

(* A NewSession step preserves the inductive invariant.                              *)
LEMMA NewSessionIInv ==
    ASSUME IInv, NEW s \in Steps, NewSession(s)
    PROVE  IInv'
<1>1. TypeOK'
  BY AllSatisfyingType DEF NewSession, SetPc, IInv, TypeOK, PCs, Returned
<1>2. (ExitStatusRecordedFaithfully /\ UnusedSlotsFree)'
  BY DEF NewSession, IInv, ExitStatusRecordedFaithfully, UnusedSlotsFree
<1>3. (ChosenWhileCreating /\ ContainerOfRunningStep /\ ContainerOfStep /\ FreshContainerUnfinished)'
  BY DEF NewSession, SetPc, IInv, TypeOK, ChosenWhileCreating,
     ContainerOfRunningStep, ContainerOfStep, FreshContainerUnfinished
<1>4. QED
  BY <1>1, <1>2, <1>3 DEF IInv

(* A Recover step preserves the inductive invariant.                                 *)
LEMMA RecoverIInv ==
    ASSUME IInv, NEW s \in Steps, NEW c \in 1..nCont, Recover(s, c)
    PROVE  IInv'
BY MaxIdsNat DEF Recover, SetPc, RegisterSource, IInv, TypeOK, Container,
   CIds, PCs, Returned, Source, ExitStatusRecordedFaithfully,
   ChosenWhileCreating, ContainerOfRunningStep, ContainerOfStep, FreshContainerUnfinished,
   UnusedSlotsFree, durable

(* A Reattach step preserves the inductive invariant.                                *)
LEMMA ReattachIInv ==
    ASSUME IInv, NEW s \in Steps, NEW c \in 1..nCont, Reattach(s, c)
    PROVE  IInv'
BY MaxIdsNat DEF Reattach, SetPc, durable, IInv, TypeOK, Container, CIds, PCs, Returned,
   ExitStatusRecordedFaithfully, ChosenWhileCreating, ContainerOfRunningStep, ContainerOfStep,
   FreshContainerUnfinished, UnusedSlotsFree

(* A Rogue step preserves the inductive invariant.                                   *)
LEMMA RogueIInv ==
    ASSUME IInv, NEW s \in Steps, NEW c \in 1..nCont, Rogue(s, c)
    PROVE  IInv'
BY MaxIdsNat DEF Rogue, SetPc, durable, IInv, TypeOK, Container, CIds, PCs, Returned,
   ExitStatusRecordedFaithfully, ChosenWhileCreating, ContainerOfRunningStep, ContainerOfStep,
   FreshContainerUnfinished, UnusedSlotsFree

(* A MissingInputs step preserves the inductive invariant.                           *)
LEMMA MissingInputsIInv ==
    ASSUME IInv, NEW s \in Steps, MissingInputs(s)
    PROVE  IInv'
BY MaxIdsNat DEF MissingInputs, SetPc, durable, Held, InputMounts, IInv, TypeOK, Container, CIds, PCs, Returned,
   ExitStatusRecordedFaithfully, ChosenWhileCreating, ContainerOfRunningStep, ContainerOfStep,
   FreshContainerUnfinished, UnusedSlotsFree

(* A Choose step preserves the inductive invariant.                                  *)
LEMMA ChooseIInv ==
    ASSUME IInv, NEW s \in Steps, Choose(s)
    PROVE  IInv'
BY MaxIdsNat DEF Choose, SetPc, durable, ChoiceHolds, Held, OutputVolumes, InputMounts, IInv, TypeOK, Container, CIds, PCs, Returned,
   ExitStatusRecordedFaithfully, ChosenWhileCreating, ContainerOfRunningStep, ContainerOfStep,
   FreshContainerUnfinished, UnusedSlotsFree

(* A ChooseFails step preserves the inductive invariant.                             *)
LEMMA ChooseFailsIInv ==
    ASSUME IInv, NEW s \in Steps, ChooseFails(s)
    PROVE  IInv'
BY MaxIdsNat DEF ChooseFails, SetPc, durable, Held, OutputVolumes, InputMounts, IInv, TypeOK, Container, CIds, PCs, Returned,
   ExitStatusRecordedFaithfully, ChosenWhileCreating, ContainerOfRunningStep, ContainerOfStep,
   FreshContainerUnfinished, UnusedSlotsFree

(* A CreateFails step preserves the inductive invariant.                             *)
LEMMA CreateFailsIInv ==
    ASSUME IInv, NEW s \in Steps, CreateFails(s)
    PROVE  IInv'
BY MaxIdsNat DEF CreateFails, SetPc, durable, IInv, TypeOK, Container, CIds, PCs, Returned,
   ExitStatusRecordedFaithfully, ChosenWhileCreating, ContainerOfRunningStep, ContainerOfStep,
   FreshContainerUnfinished, UnusedSlotsFree

(* A Setup step preserves the inductive invariant.                                   *)
LEMMA SetupIInv ==
    ASSUME IInv, NEW s \in Steps, Setup(s)
    PROVE  IInv'
BY MaxIdsNat DEF Setup, SetPc, durable, IInv, TypeOK, Container, CIds, PCs, Returned,
   ExitStatusRecordedFaithfully, ChosenWhileCreating, ContainerOfRunningStep, ContainerOfStep,
   FreshContainerUnfinished, UnusedSlotsFree

(* A WaitFails step preserves the inductive invariant.                               *)
LEMMA WaitFailsIInv ==
    ASSUME IInv, NEW s \in Steps, WaitFails(s)
    PROVE  IInv'
BY MaxIdsNat DEF WaitFails, SetPc, durable, IInv, TypeOK, Container, CIds, PCs, Returned,
   ExitStatusRecordedFaithfully, ChosenWhileCreating, ContainerOfRunningStep, ContainerOfStep,
   FreshContainerUnfinished, UnusedSlotsFree

(* A Signal step preserves the inductive invariant.                                  *)
LEMMA SignalIInv ==
    ASSUME IInv, NEW s \in Steps, Signal(s)
    PROVE  IInv'
BY MaxIdsNat DEF Signal, local, IInv, TypeOK, Container, CIds, PCs, Returned,
   ExitStatusRecordedFaithfully, ChosenWhileCreating, ContainerOfRunningStep, ContainerOfStep,
   FreshContainerUnfinished, UnusedSlotsFree

(* A OtherLoad step preserves the inductive invariant.                               *)
LEMMA OtherLoadIInv ==
    ASSUME IInv, NEW w \in Workers, OtherLoad(w)
    PROVE  IInv'
BY MaxIdsNat DEF OtherLoad, local, IInv, TypeOK, Container, CIds, PCs, Returned,
   ExitStatusRecordedFaithfully, ChosenWhileCreating, ContainerOfRunningStep, ContainerOfStep,
   FreshContainerUnfinished, UnusedSlotsFree

(* A StartProcess step preserves the inductive invariant.                            *)
LEMMA StartProcessIInv ==
    ASSUME IInv, NEW s \in Steps, StartProcess(s)
    PROVE  IInv'
<1> DEFINE c == cont[s]
<1>1. c \in 1..nCont /\ containers[c].owner = s /\ containers[c].exitProp = NoStatus
  BY DEF StartProcess, IInv, ContainerOfRunningStep, ContainerOfStep, FreshContainerUnfinished
<1>2. CASE /\ containers' = [containers EXCEPT ![c].proc = "running"]
           /\ SetPc(s, "setprop")
  <2>1. TypeOK'
    <3>1. containers[c] \in Container
      BY <1>1, MaxIdsNat DEF IInv, TypeOK, CIds
    <3>2. [containers[c] EXCEPT !.proc = "running"] \in Container
      BY <3>1 DEF Container, ProcStates
    <3>3. containers' \in [CIds -> Container]
      BY <1>1, <1>2, <3>2, MaxIdsNat DEF IInv, TypeOK, CIds
    <3>4. pc' \in [Steps -> PCs]
      BY <1>2 DEF SetPc, IInv, TypeOK, PCs
    <3>5. QED
      BY <3>3, <3>4 DEF StartProcess, IInv, TypeOK
  <2>2. ExitStatusRecordedFaithfully'
    BY <1>1, <1>2, MaxIdsNat DEF IInv, TypeOK, CIds, ExitStatusRecordedFaithfully
  <2>3. (ChosenWhileCreating /\ ContainerOfRunningStep /\ ContainerOfStep /\ FreshContainerUnfinished)'
    BY <1>1, <1>2, MaxIdsNat DEF StartProcess, SetPc, IInv, TypeOK, CIds,
       ChosenWhileCreating, ContainerOfRunningStep, ContainerOfStep, FreshContainerUnfinished
  <2>4. UnusedSlotsFree'
    BY <1>1, <1>2, MaxIdsNat DEF StartProcess, IInv, TypeOK, CIds, UnusedSlotsFree
  <2>5. QED
    BY <2>1, <2>2, <2>3, <2>4 DEF IInv
<1>3. CASE SetPc(s, "errored") /\ UNCHANGED containers
  BY <1>3, MaxIdsNat DEF StartProcess, SetPc, IInv, TypeOK, PCs, Returned,
     ExitStatusRecordedFaithfully, ChosenWhileCreating, ContainerOfRunningStep, ContainerOfStep,
     FreshContainerUnfinished, UnusedSlotsFree
<1>4. QED
  BY <1>2, <1>3 DEF StartProcess

(* A SetProcessProperty step preserves the inductive invariant.                      *)
LEMMA SetProcessPropertyIInv ==
    ASSUME IInv, NEW s \in Steps, SetProcessProperty(s)
    PROVE  IInv'
<1> DEFINE c == cont[s]
<1>1. c \in 1..nCont /\ containers[c].owner = s
  BY DEF SetProcessProperty, IInv, ContainerOfRunningStep, ContainerOfStep
<1>2. CASE /\ containers' = [containers EXCEPT ![c].procProp = TRUE]
           /\ SetPc(s, "waiting")
  <2>1. containers[c] \in Container
    BY <1>1, MaxIdsNat DEF IInv, TypeOK, CIds
  <2>2. [containers[c] EXCEPT !.procProp = TRUE] \in Container
    BY <2>1 DEF Container
  <2>3. TypeOK'
    BY <1>1, <1>2, <2>2, MaxIdsNat DEF SetProcessProperty, SetPc, IInv, TypeOK,
       CIds, PCs
  <2>4. (ExitStatusRecordedFaithfully /\ UnusedSlotsFree)'
    BY <1>1, <1>2, MaxIdsNat DEF SetProcessProperty, IInv, TypeOK, CIds,
       ExitStatusRecordedFaithfully, UnusedSlotsFree
  <2>5. (ChosenWhileCreating /\ ContainerOfRunningStep /\ ContainerOfStep /\ FreshContainerUnfinished)'
    BY <1>1, <1>2, MaxIdsNat DEF SetProcessProperty, SetPc, IInv, TypeOK, CIds,
       ChosenWhileCreating, ContainerOfRunningStep, ContainerOfStep, FreshContainerUnfinished
  <2>6. QED
    BY <2>3, <2>4, <2>5 DEF IInv
<1>3. CASE SetPc(s, "errored") /\ UNCHANGED containers
  BY <1>3, MaxIdsNat DEF SetProcessProperty, SetPc, IInv, TypeOK, PCs, Returned,
     ExitStatusRecordedFaithfully, ChosenWhileCreating, ContainerOfRunningStep, ContainerOfStep,
     FreshContainerUnfinished, UnusedSlotsFree
<1>4. QED
  BY <1>2, <1>3 DEF SetProcessProperty

(* A Release step preserves the inductive invariant.                                 *)
LEMMA ReleaseIInv ==
    ASSUME IInv, NEW s \in Steps, Release(s)
    PROVE  IInv'
<1> DEFINE c == cont[s]
<1>1. CASE c = NoC
  BY <1>1, MaxIdsNat DEF Release, SetPc, IInv, TypeOK, PCs, Returned, NoC,
     ExitStatusRecordedFaithfully, ChosenWhileCreating, ContainerOfRunningStep, ContainerOfStep,
     FreshContainerUnfinished, UnusedSlotsFree
<1>2. CASE c # NoC
  <2> DEFINE t == IF exitStatus[s] = 0 THEN "success" ELSE "failed"
  <2>1. c \in CIds /\ containers' = [containers EXCEPT ![c].ttl = t]
    BY <1>2 DEF Release, IInv, TypeOK
  <2>2. [containers[c] EXCEPT !.ttl = t] \in Container
    <3>1. containers[c] \in Container
      BY <2>1 DEF IInv, TypeOK
    <3>2. t \in TTLs
      BY DEF TTLs
    <3>3. QED
      BY <3>1, <3>2 DEF Container
  <2>8. \A d \in CIds : /\ containers'[d].exitProp = containers[d].exitProp
                      /\ containers'[d].proc = containers[d].proc
                      /\ containers'[d].code = containers[d].code
                      /\ containers'[d].owner = containers[d].owner
    BY <2>1 DEF IInv, TypeOK, Container
  <2>3. TypeOK'
    BY <2>1, <2>2 DEF Release, SetPc, IInv, TypeOK, PCs
  <2>4. (ExitStatusRecordedFaithfully /\ FreshContainerUnfinished)'
    BY <2>1, <2>8 DEF Release, SetPc, IInv, TypeOK, ExitStatusRecordedFaithfully,
       FreshContainerUnfinished, ContainerOfRunningStep, Returned
  <2>5. UnusedSlotsFree'
    BY <1>2, <2>1, MaxIdsNat DEF Release, IInv, TypeOK, ContainerOfStep,
       UnusedSlotsFree, CIds
  <2>6. (ChosenWhileCreating /\ ContainerOfRunningStep /\ ContainerOfStep)'
    BY <2>1, <2>8 DEF Release, SetPc, IInv, TypeOK, ChosenWhileCreating,
       ContainerOfRunningStep, ContainerOfStep, Returned
  <2>7. QED
    BY <2>3, <2>4, <2>5, <2>6 DEF IInv
<1>3. QED
  BY <1>1, <1>2

(* A ProcessExit step preserves the inductive invariant.                             *)
LEMMA ProcessExitIInv ==
    ASSUME IInv, NEW c \in 1..nCont, ProcessExit(c)
    PROVE  IInv'
<1>1. PICK e \in ExitCodes :
        containers' = [containers EXCEPT ![c].proc = "exited", ![c].code = e]
  BY DEF ProcessExit
<1>2. containers[c] \in Container /\ c \in CIds
  BY MaxIdsNat DEF IInv, TypeOK, CIds
<1>3. [[containers[c] EXCEPT !.proc = "exited"] EXCEPT !.code = e] \in Container
  BY <1>2 DEF Container, ProcStates
<1>4. TypeOK'
  BY <1>1, <1>2, <1>3 DEF ProcessExit, IInv, TypeOK, local
<1>5. ExitStatusRecordedFaithfully'
  BY <1>1, <1>2 DEF ProcessExit, IInv, TypeOK, ExitStatusRecordedFaithfully
<1>6. (ChosenWhileCreating /\ ContainerOfRunningStep /\ ContainerOfStep /\ FreshContainerUnfinished
       /\ UnusedSlotsFree)'
  BY <1>1, <1>2, MaxIdsNat DEF ProcessExit, IInv, TypeOK, local, CIds,
     ChosenWhileCreating, ContainerOfRunningStep, ContainerOfStep, FreshContainerUnfinished,
     UnusedSlotsFree
<1>7. QED
  BY <1>4, <1>5, <1>6 DEF IInv

(* A ContainerLost step preserves the inductive invariant.                           *)
LEMMA ContainerLostIInv ==
    ASSUME IInv, NEW c \in 1..nCont, ContainerLost(c)
    PROVE  IInv'
<1>1. containers[c] \in Container /\ c \in CIds
  BY MaxIdsNat DEF IInv, TypeOK, CIds
<1>2. [containers[c] EXCEPT !.proc = "lost"] \in Container
  BY <1>1 DEF Container, ProcStates
<1>3. TypeOK'
  BY <1>1, <1>2 DEF ContainerLost, IInv, TypeOK, local
<1>4. ExitStatusRecordedFaithfully'
  BY <1>1 DEF ContainerLost, IInv, TypeOK, ExitStatusRecordedFaithfully
<1>5. (ChosenWhileCreating /\ ContainerOfRunningStep /\ ContainerOfStep /\ FreshContainerUnfinished
       /\ UnusedSlotsFree)'
  BY <1>1, MaxIdsNat DEF ContainerLost, IInv, TypeOK, local, CIds,
     ChosenWhileCreating, ContainerOfRunningStep, ContainerOfStep, FreshContainerUnfinished,
     UnusedSlotsFree
<1>6. QED
  BY <1>3, <1>4, <1>5 DEF IInv

(* A Crash step preserves the inductive invariant.                                   *)
LEMMA CrashIInv ==
    ASSUME IInv, Crash
    PROVE  IInv'
BY MaxIdsNat DEF Crash, NoC, Source, IInv, TypeOK, Container, CIds, PCs, Returned,
   ExitStatusRecordedFaithfully, ChosenWhileCreating, ContainerOfRunningStep, ContainerOfStep,
   FreshContainerUnfinished, UnusedSlotsFree

(* registerSource writes a well-typed repository for a container id.      *)
LEMMA RegisterSourceType ==
    ASSUME TypeOK, NEW s \in Steps, NEW c \in CIds, RegisterSource(s, c)
    PROVE  reg' \in [Steps -> [RegNames -> Source \cup {NoSource}]]
<1>1. containers[c].worker \in Workers \cup {NoWorker}
  BY DEF TypeOK, Container
<1>2. QED
  BY <1>1 DEF RegisterSource, TypeOK, Source

(* A CreateContainer step preserves the inductive invariant.                         *)
LEMMA CreateContainerIInv ==
    ASSUME IInv, NEW s \in Steps, CreateContainer(s)
    PROVE  IInv'
<1> DEFINE w == chosen[s]
           n == nCont + 1
           r == [FreeSlot EXCEPT !.owner = s, !.worker = w,
                   !.outVol = (OutputVolumes(w) # {}),
                   !.mounted = (InputMounts(w) \cup OutputVolumes(w) # {})]
<1>1. w \in Workers /\ n \in CIds /\ nCont' = n
  BY MaxIdsNat DEF CreateContainer, IInv, TypeOK, ChosenWhileCreating, CIds
<1>2. containers' = [containers EXCEPT ![n] = r]
  BY DEF CreateContainer
<1>3. r \in Container
  BY <1>1 DEF FreeSlot, Container, ProcStates, TTLs
<1>4. TypeOK'
  BY <1>1, <1>2, <1>3, MaxIdsNat DEF CreateContainer, SetPc, IInv, TypeOK, CIds,
     PCs, Held
<1>5. ExitStatusRecordedFaithfully'
  BY <1>1, <1>2, <1>3 DEF IInv, TypeOK, ExitStatusRecordedFaithfully, FreeSlot
<1>6. UnusedSlotsFree'
  BY <1>1, <1>2, MaxIdsNat DEF IInv, TypeOK, UnusedSlotsFree, CIds
<1>7. (ContainerOfRunningStep /\ ContainerOfStep /\ FreshContainerUnfinished)'
  BY <1>1, <1>2, <1>3, MaxIdsNat DEF CreateContainer, SetPc, IInv, TypeOK, CIds,
     FreeSlot, ContainerOfRunningStep, ContainerOfStep, FreshContainerUnfinished
<1>8. ChosenWhileCreating'
  BY DEF CreateContainer, SetPc, IInv, TypeOK, ChosenWhileCreating
<1>9. QED
  BY <1>4, <1>5, <1>6, <1>7, <1>8 DEF IInv

(* A Interrupted step preserves the inductive invariant.                             *)
LEMMA InterruptedIInv ==
    ASSUME IInv, NEW s \in Steps, Interrupted(s)
    PROVE  IInv'
<1> DEFINE c == cont[s]
<1>1. c \in 1..nCont /\ c \in CIds /\ containers[c].owner = s
  BY MaxIdsNat DEF Interrupted, IInv, TypeOK, ContainerOfRunningStep, CIds
<1>2. containers' = [containers EXCEPT ![c].stopped = TRUE]
  BY DEF Interrupted
<1>3. [containers[c] EXCEPT !.stopped = TRUE] \in Container
  <2>1. containers[c] \in Container
    BY <1>1 DEF IInv, TypeOK
  <2>2. QED
    BY <2>1 DEF Container
<1>4. \A d \in CIds : /\ containers'[d].exitProp = containers[d].exitProp
                    /\ containers'[d].proc = containers[d].proc
                    /\ containers'[d].code = containers[d].code
                    /\ containers'[d].owner = containers[d].owner
  BY <1>1, <1>2 DEF IInv, TypeOK, Container
<1>5. TypeOK'
  BY <1>1, <1>2, <1>3, RegisterSourceType DEF Interrupted, SetPc, IInv, TypeOK,
     PCs, Returned
<1>6. (ExitStatusRecordedFaithfully /\ FreshContainerUnfinished)'
  BY <1>4 DEF Interrupted, SetPc, IInv, TypeOK, ExitStatusRecordedFaithfully,
     FreshContainerUnfinished, ContainerOfRunningStep
<1>7. (ChosenWhileCreating /\ ContainerOfRunningStep /\ ContainerOfStep)'
  BY <1>4 DEF Interrupted, SetPc, IInv, TypeOK, ChosenWhileCreating,
     ContainerOfRunningStep, ContainerOfStep
<1>8. UnusedSlotsFree'
  BY <1>1, <1>2, MaxIdsNat DEF Interrupted, IInv, TypeOK, UnusedSlotsFree, CIds
<1>9. QED
  BY <1>5, <1>6, <1>7, <1>8 DEF IInv

(* A Exited step preserves the inductive invariant.                                  *)
LEMMA ExitedIInv ==
    ASSUME IInv, NEW s \in Steps, Exited(s)
    PROVE  IInv'
<1> DEFINE c == cont[s]
           status == containers[c].code
<1>1. c \in 1..nCont /\ c \in CIds /\ containers[c].owner = s
  BY MaxIdsNat DEF Exited, IInv, TypeOK, ContainerOfRunningStep, CIds
<1>2. containers[c].proc = "exited" /\ status \in ExitCodes
  <2>1. containers[c] \in Container
    BY <1>1 DEF IInv, TypeOK
  <2>2. QED
    BY <2>1 DEF Exited, Container
<1>3. TypeOK /\ RegisterSource(s, c) /\ exitStatus' = [exitStatus EXCEPT ![s] = status]
  BY DEF Exited, IInv
<1>4. reg' \in [Steps -> [RegNames -> Source \cup {NoSource}]]
  BY <1>1, <1>3, RegisterSourceType
<1>5. CASE /\ containers' = [containers EXCEPT ![c].exitProp = status]
           /\ SetPc(s, "succeeded")
  <2>1. [containers[c] EXCEPT !.exitProp = status] \in Container
    <3>1. containers[c] \in Container
      BY <1>1 DEF IInv, TypeOK
    <3>2. QED
      BY <1>2, <3>1 DEF Container
  <2>2. \A e \in CIds : /\ containers'[e].proc = containers[e].proc
                      /\ containers'[e].code = containers[e].code
                      /\ containers'[e].owner = containers[e].owner
                      /\ e # c => containers'[e].exitProp = containers[e].exitProp
    BY <1>1, <1>5 DEF IInv, TypeOK, Container
  <2>3. containers'[c].exitProp = status
    BY <1>1, <1>5 DEF IInv, TypeOK
  <2>4. TypeOK'
    BY <1>1, <1>2, <1>3, <1>4, <1>5, <2>1 DEF Exited, SetPc, IInv, TypeOK, PCs,
       Returned
  <2>5. ExitStatusRecordedFaithfully'
    <3> SUFFICES ASSUME NEW d \in CIds, containers'[d].exitProp # NoStatus
                 PROVE  /\ containers'[d].proc = "exited"
                        /\ containers'[d].code = containers'[d].exitProp
      BY DEF ExitStatusRecordedFaithfully
    <3>1. CASE d = c
      <4>1. containers'[d].proc = containers[d].proc
            /\ containers'[d].code = containers[d].code
        BY <1>1, <1>5 DEF IInv, TypeOK
      <4>2. containers'[d].exitProp = containers[d].code
        BY <2>3, <3>1
      <4>3. QED
        BY <1>2, <3>1, <4>1, <4>2
    <3>2. CASE d # c
      <4>1. containers'[d] = containers[d]
        BY <1>1, <1>5, <3>2 DEF IInv, TypeOK
      <4>2. QED
        BY <4>1 DEF IInv, ExitStatusRecordedFaithfully
    <3>3. QED
      BY <3>1, <3>2
  <2>6. (ChosenWhileCreating /\ ContainerOfRunningStep /\ ContainerOfStep
         /\ FreshContainerUnfinished)'
    BY <1>1, <1>5, <2>2 DEF Exited, SetPc, IInv, TypeOK, ChosenWhileCreating,
       ContainerOfRunningStep, ContainerOfStep, FreshContainerUnfinished
  <2>7. UnusedSlotsFree'
    BY <1>1, <1>5, MaxIdsNat DEF Exited, IInv, TypeOK, UnusedSlotsFree, CIds
  <2>8. QED
    BY <2>4, <2>5, <2>6, <2>7 DEF IInv
<1>6. CASE SetPc(s, "errored") /\ UNCHANGED containers
  <2>1. TypeOK'
    BY <1>2, <1>3, <1>4, <1>6 DEF Exited, SetPc, IInv, TypeOK, PCs, Returned
  <2>2. (ExitStatusRecordedFaithfully /\ ChosenWhileCreating
         /\ ContainerOfRunningStep /\ ContainerOfStep
         /\ FreshContainerUnfinished /\ UnusedSlotsFree)'
    BY <1>6 DEF Exited, SetPc, IInv, TypeOK, ExitStatusRecordedFaithfully,
       ChosenWhileCreating, ContainerOfRunningStep, ContainerOfStep,
       FreshContainerUnfinished, UnusedSlotsFree
  <2>3. QED
    BY <2>1, <2>2 DEF IInv
<1>7. QED
  BY <1>5, <1>6 DEF Exited

(* Every step of the system, and every stutter, preserves the inductive  *)
(* invariant: one case per step-goroutine action and per environment event. *)
LEMMA NextIInv == IInv /\ [Next]_vars => IInv'
<1> SUFFICES ASSUME IInv, [Next]_vars PROVE IInv'
  OBVIOUS
<1>1. ASSUME NEW s \in Steps, StepNext(s) PROVE IInv'
  <2>1. CASE NewSession(s)           BY <2>1, NewSessionIInv
  <2>2. CASE \E c \in 1..nCont : Recover(s, c) \/ Reattach(s, c) \/ Rogue(s, c)
    BY <2>2, RecoverIInv, ReattachIInv, RogueIInv
  <2>3. CASE Choose(s)               BY <2>3, ChooseIInv
  <2>4. CASE MissingInputs(s)        BY <2>4, MissingInputsIInv
  <2>5. CASE ChooseFails(s)          BY <2>5, ChooseFailsIInv
  <2>6. CASE CreateContainer(s)      BY <2>6, CreateContainerIInv
  <2>7. CASE CreateFails(s)          BY <2>7, CreateFailsIInv
  <2>8. CASE Setup(s)                BY <2>8, SetupIInv
  <2>9. CASE StartProcess(s)         BY <2>9, StartProcessIInv
  <2>10. CASE SetProcessProperty(s)  BY <2>10, SetProcessPropertyIInv
  <2>11. CASE Interrupted(s)         BY <2>11, InterruptedIInv
  <2>12. CASE Exited(s)              BY <2>12, ExitedIInv
  <2>13. CASE WaitFails(s)           BY <2>13, WaitFailsIInv
  <2>14. CASE Release(s)             BY <2>14, ReleaseIInv
  <2>15. QED
    BY <1>1, <2>1, <2>2, <2>3, <2>4, <2>5, <2>6, <2>7, <2>8, <2>9, <2>10,
       <2>11, <2>12, <2>13, <2>14 DEF StepNext
<1>2. CASE Environment
  <2>1. CASE \E s \in Steps : Signal(s)  BY <2>1, SignalIInv
  <2>2. CASE \E c \in 1..nCont : ProcessExit(c) \/ ContainerLost(c)
    BY <2>2, ProcessExitIInv, ContainerLostIInv
  <2>3. CASE \E w \in Workers : OtherLoad(w)  BY <2>3, OtherLoadIInv
  <2>4. CASE Crash                        BY <2>4, CrashIInv
  <2>5. QED
    BY <1>2, <2>1, <2>2, <2>3, <2>4 DEF Environment
<1>3. CASE UNCHANGED vars
  BY <1>3 DEF IInv, TypeOK, ExitStatusRecordedFaithfully, ChosenWhileCreating,
     ContainerOfRunningStep, ContainerOfStep, FreshContainerUnfinished,
     UnusedSlotsFree, vars, durable, local
<1>4. QED
  BY <1>1, <1>2, <1>3 DEF Next

(* The inductive invariant holds in every reachable state of the task     *)
(* step model, for every number of steps, workers, inputs and outputs.    *)
THEOREM IInvHolds == Spec => []IInv
<1>1. Init => IInv
  BY InitIInv
<1>2. IInv /\ [Next]_vars => IInv'
  BY NextIInv
<1>3. QED
  BY <1>1, <1>2, PTL DEF Spec

(* Type correctness: containers, heartbeats, registered sources and the   *)
(* step's local state keep their types across every interleaving of step  *)
(* goroutines, process exits, lost containers and ATC restarts.           *)
THEOREM TypeCorrect == Spec => []TypeOK
<1>1. IInv => TypeOK
  BY DEF IInv
<1>2. QED
  BY <1>1, IInvHolds, PTL

(* A container's concourse:exit-status property, once written, always     *)
(* names the status its process really exited with, whatever restarts,    *)
(* re-attaches and concurrent steps happened (TaskStep.Run, Phase E).     *)
THEOREM ExitStatusFaithful == Spec => []ExitStatusRecordedFaithfully
<1>1. IInv => ExitStatusRecordedFaithfully
  BY DEF IInv
<1>2. QED
  BY <1>1, IInvHolds, PTL

-----------------------------------------------------------------------------
(* A succeeded step: its result and its registered sources.               *)

(* No registered source is the absent entry.                               *)
LEMMA SourceNotNone == NoSource \notin Source
BY DEF Source, CIds

(* registerSource(config) with a mounted container never keeps an old     *)
(* entry: every name gets a source reading from container c, and the      *)
(* repositories of the other steps are untouched.                         *)
LEMMA RegisterSourceOK ==
    ASSUME TypeOK, MountedHaveOutputVolumes,
           NEW s \in Steps, NEW c \in CIds, RegisterSource(s, c)
    PROVE  /\ \A n \in RegNames : reg'[s][n] \in Source /\ reg'[s][n].c = c
           /\ \A t \in Steps \ {s} : reg'[t] = reg[t]
<1>1. containers[c].worker \in Workers \cup {NoWorker}
  BY DEF TypeOK, Container
<1>2. Outputs # {} /\ containers[c].mounted => containers[c].outVol
  BY DEF MountedHaveOutputVolumes
<1>3. QED
  BY <1>1, <1>2 DEF RegisterSource, TypeOK, Source

(* A step that leaves containers, step.container, step.exitStatus and the *)
(* sources alone, and makes no step succeed, keeps SucceededInv.          *)
LEMMA SucceededFrame ==
    ASSUME SucceededInv,
           containers' = containers, cont' = cont, exitStatus' = exitStatus,
           reg' = reg,
           \A t \in Steps : pc'[t] = "succeeded" => pc[t] = "succeeded"
    PROVE  SucceededInv'
BY DEF SucceededInv, MountedHaveOutputVolumes, SucceededReportsProcessStatus,
   SucceededImpliesOutputsRegistered

(* Moving step s to any place but "succeeded" makes no step succeed.      *)
LEMMA SetPcOther ==
    ASSUME TypeOK, NEW s \in Steps, NEW p, p # "succeeded", SetPc(s, p)
    PROVE  \A t \in Steps : pc'[t] = "succeeded" => pc[t] = "succeeded"
BY DEF SetPc, TypeOK

(* The steps of Run before a container is found or created, the failures  *)
(* of those phases, and the environment's aborts and load changes, leave  *)
(* every succeeded step as it was.                                        *)
LEMMA EarlyStepsSucceeded ==
    ASSUME IInv, SucceededInv, NEW s \in Steps,
           \/ NewSession(s) \/ Choose(s) \/ MissingInputs(s) \/ ChooseFails(s)
           \/ CreateFails(s) \/ Setup(s) \/ WaitFails(s)
    PROVE  SucceededInv'
<1>1. \A t \in Steps : pc'[t] = "succeeded" => pc[t] = "succeeded"
  BY DEF NewSession, Choose, MissingInputs, ChooseFails, CreateFails, Setup,
     WaitFails, SetPc, IInv, TypeOK
<1>2. UNCHANGED <<containers, cont, exitStatus, reg>>
  BY DEF NewSession, Choose, MissingInputs, ChooseFails, CreateFails, Setup,
     WaitFails, durable
<1>3. QED
  BY <1>1, <1>2, SucceededFrame

(* Signal and OtherLoad touch neither containers nor any step.            *)
LEMMA EnvironmentLoadSucceeded ==
    ASSUME SucceededInv,
           \/ \E s \in Steps : Signal(s)
           \/ \E w \in Workers : OtherLoad(w)
    PROVE  SucceededInv'
BY SucceededFrame DEF Signal, OtherLoad, local

(* Re-attaching to, or rejecting, a found container sets step.container   *)
(* of a step that does not succeed in this step.                          *)
LEMMA AttachSucceeded ==
    ASSUME IInv, SucceededInv, NEW s \in Steps, NEW c \in 1..nCont,
           Reattach(s, c) \/ Rogue(s, c)
    PROVE  SucceededInv'
<1>1. pc'[s] # "succeeded" /\ \A t \in Steps \ {s} : pc'[t] = pc[t] /\ cont'[t] = cont[t]
  BY DEF Reattach, Rogue, SetPc, IInv, TypeOK
<1>2. UNCHANGED <<containers, exitStatus, reg>>
  BY DEF Reattach, Rogue, durable
<1>3. MountedHaveOutputVolumes'
  BY <1>2 DEF SucceededInv, MountedHaveOutputVolumes
<1>4. SucceededReportsProcessStatus'
  BY <1>1, <1>2 DEF SucceededInv, SucceededReportsProcessStatus
<1>5. SucceededImpliesOutputsRegistered'
  BY <1>1, <1>2 DEF SucceededInv, SucceededImpliesOutputsRegistered
<1>6. QED
  BY <1>3, <1>4, <1>5 DEF SucceededInv

(* SucceededInv is kept by a step that keeps mounts and output volumes    *)
(* consistent and under which every step succeeded afterwards had already *)
(* succeeded, with the same container, status, sources and process.       *)
LEMMA SucceededKept ==
    ASSUME SucceededInv, MountedHaveOutputVolumes',
           \A t \in Steps : pc'[t] = "succeeded" =>
               /\ pc[t] = "succeeded"
               /\ cont'[t] = cont[t] /\ exitStatus'[t] = exitStatus[t]
               /\ reg'[t] = reg[t]
               /\ containers'[cont[t]].proc = containers[cont[t]].proc
               /\ containers'[cont[t]].code = containers[cont[t]].code
    PROVE  SucceededInv'
<1>1. SucceededReportsProcessStatus'
  <2> SUFFICES ASSUME NEW t \in Steps, pc'[t] = "succeeded"
               PROVE  /\ cont'[t] # NoC
                      /\ containers'[cont'[t]].proc = "exited"
                      /\ containers'[cont'[t]].code = exitStatus'[t]
    BY DEF SucceededReportsProcessStatus
  <2>1. /\ cont[t] # NoC
        /\ containers[cont[t]].proc = "exited"
        /\ containers[cont[t]].code = exitStatus[t]
    BY DEF SucceededInv, SucceededReportsProcessStatus
  <2>2. QED
    BY <2>1
<1>2. SucceededImpliesOutputsRegistered'
  BY DEF SucceededInv, SucceededImpliesOutputsRegistered
<1>3. QED
  BY <1>1, <1>2 DEF SucceededInv

(* Changing only a field of one container other than mounted and outVol  *)
(* keeps MountedHaveOutputVolumes.                                        *)
LEMMA MountsKept ==
    ASSUME TypeOK, MountedHaveOutputVolumes, containers' \in [CIds -> Container],
           \A d \in CIds : /\ containers'[d].mounted = containers[d].mounted
                           /\ containers'[d].outVol = containers[d].outVol
    PROVE  MountedHaveOutputVolumes'
BY DEF MountedHaveOutputVolumes

(* container.Run sets the process of step s's own container running; no  *)
(* succeeded step shares that container.                                  *)
LEMMA StartProcessSucceeded ==
    ASSUME IInv, SucceededInv, NEW s \in Steps, StartProcess(s)
    PROVE  SucceededInv'
<1> DEFINE c == cont[s]
<1>1. c \in CIds /\ containers[c].owner = s
  BY MaxIdsNat DEF StartProcess, IInv, TypeOK, ContainerOfRunningStep, CIds
<1>2. \A d \in CIds : /\ containers'[d].mounted = containers[d].mounted
                      /\ containers'[d].outVol = containers[d].outVol
                      /\ d # c => containers'[d] = containers[d]
  <2>1. CASE containers' = [containers EXCEPT ![c].proc = "running"]
    BY <1>1, <2>1 DEF IInv, TypeOK, Container
  <2>2. CASE UNCHANGED containers
    BY <2>2
  <2>3. QED
    BY <2>1, <2>2 DEF StartProcess
<1>3. MountedHaveOutputVolumes'
  <2>1. containers' \in [CIds -> Container]
    BY StartProcessIInv DEF IInv, TypeOK
  <2>2. QED
    BY <1>2, <2>1, MountsKept DEF SucceededInv, IInv
<1>4. ASSUME NEW t \in Steps, pc'[t] = "succeeded"
      PROVE  /\ pc[t] = "succeeded" /\ t # s
             /\ cont'[t] = cont[t] /\ exitStatus'[t] = exitStatus[t]
             /\ reg'[t] = reg[t]
             /\ containers'[cont[t]] = containers[cont[t]]
  <2>1. pc[t] = "succeeded" /\ t # s
    BY <1>4 DEF StartProcess, SetPc, IInv, TypeOK
  <2>2. cont[t] \in CIds /\ containers[cont[t]].owner = t
    BY <2>1, MaxIdsNat DEF SucceededInv, SucceededReportsProcessStatus, IInv,
       TypeOK, ContainerOfStep, CIds
  <2>3. cont[t] # c
    BY <1>1, <2>1, <2>2
  <2>4. QED
    BY <1>2, <2>1, <2>2, <2>3 DEF StartProcess
<1>5. QED
  BY <1>3, <1>4, SucceededKept

(* Setting concourse:task-process, stopping a container on abort and     *)
(* setting its TTL at Release change no process, exit code or mount, and  *)
(* the acting step does not succeed in this step.                         *)
LEMMA OtherFieldSucceeded ==
    ASSUME IInv, SucceededInv, NEW s \in Steps,
           SetProcessProperty(s) \/ Interrupted(s) \/ Release(s)
    PROVE  SucceededInv'
<1>1. IInv'
  BY SetProcessPropertyIInv, InterruptedIInv, ReleaseIInv
<1>2. \A d \in CIds : /\ containers'[d].proc = containers[d].proc
                      /\ containers'[d].code = containers[d].code
                      /\ containers'[d].mounted = containers[d].mounted
                      /\ containers'[d].outVol = containers[d].outVol
  BY DEF SetProcessProperty, Interrupted, Release, IInv, TypeOK, Container
<1>3. MountedHaveOutputVolumes'
  BY <1>1, <1>2, MountsKept DEF SucceededInv, IInv, TypeOK
<1>4. ASSUME NEW t \in Steps, pc'[t] = "succeeded"
      PROVE  /\ pc[t] = "succeeded" /\ t # s
             /\ cont'[t] = cont[t] /\ exitStatus'[t] = exitStatus[t]
             /\ reg'[t] = reg[t]
  BY <1>4 DEF SetProcessProperty, Interrupted, Release, SetPc, RegisterSource,
     IInv, TypeOK
<1>5. \A t \in Steps : pc[t] = "succeeded" => cont[t] \in CIds
  BY MaxIdsNat DEF IInv, TypeOK, ContainerOfStep, SucceededInv,
     SucceededReportsProcessStatus, CIds
<1>6. QED
  BY <1>2, <1>3, <1>4, <1>5, SucceededKept

(* A script exits or its container is lost only while the process runs;  *)
(* the process of a succeeded step's container has already exited.        *)
LEMMA ProcessEventSucceeded ==
    ASSUME IInv, SucceededInv, NEW c \in 1..nCont,
           ProcessExit(c) \/ ContainerLost(c)
    PROVE  SucceededInv'
<1>1. IInv'
  BY ProcessExitIInv, ContainerLostIInv
<1>2. \A d \in CIds : /\ containers'[d].mounted = containers[d].mounted
                      /\ containers'[d].outVol = containers[d].outVol
                      /\ d # c => containers'[d] = containers[d]
  BY DEF ProcessExit, ContainerLost, IInv, TypeOK, Container
<1>3. MountedHaveOutputVolumes'
  BY <1>1, <1>2, MountsKept DEF SucceededInv, IInv, TypeOK
<1>4. ASSUME NEW t \in Steps, pc'[t] = "succeeded"
      PROVE  /\ pc[t] = "succeeded"
             /\ cont'[t] = cont[t] /\ exitStatus'[t] = exitStatus[t]
             /\ reg'[t] = reg[t]
             /\ containers'[cont[t]] = containers[cont[t]]
  <2>1. pc[t] = "succeeded" /\ UNCHANGED <<pc, cont, exitStatus, reg>>
    BY <1>4 DEF ProcessExit, ContainerLost, local
  <2>2. cont[t] \in CIds /\ containers[cont[t]].proc = "exited"
    BY <2>1, MaxIdsNat DEF IInv, TypeOK, ContainerOfStep, SucceededInv,
       SucceededReportsProcessStatus, CIds
  <2>3. cont[t] # c
    BY <2>2 DEF ProcessExit, ContainerLost
  <2>4. QED
    BY <1>2, <2>1, <2>2, <2>3
<1>5. QED
  BY <1>3, <1>4, SucceededKept

(* An ATC restart sends every step that is not released back to "init";  *)
(* no step is "succeeded" right after it.                                 *)
LEMMA CrashSucceeded ==
    ASSUME IInv, SucceededInv, Crash
    PROVE  SucceededInv'
<1>1. \A t \in Steps : pc'[t] # "succeeded"
  BY DEF Crash
<1>2. UNCHANGED containers
  BY DEF Crash
<1>3. MountedHaveOutputVolumes'
  BY <1>2 DEF SucceededInv, MountedHaveOutputVolumes
<1>4. SucceededReportsProcessStatus'
  BY <1>1, <1>2 DEF SucceededInv, SucceededReportsProcessStatus
<1>5. SucceededImpliesOutputsRegistered'
  BY <1>1, <1>2 DEF SucceededInv, SucceededImpliesOutputsRegistered
<1>6. QED
  BY <1>3, <1>4, <1>5 DEF SucceededInv

(* createContainer mounts something on worker w only where w has a        *)
(* VolumeManager (inputs have volumes only there), and there it creates   *)
(* every output volume: a new container with mounts has its outputs.      *)
LEMMA NewContainerMounts ==
    ASSUME TypeOK, NEW w \in Workers, Outputs # {},
           InputMounts(w) \cup OutputVolumes(w) # {}
    PROVE  OutputVolumes(w) # {}
<1>1. CASE w \in VolumeWorkers
  BY <1>1 DEF OutputVolumes
<1>2. CASE w \notin VolumeWorkers
  <2>1. InputMounts(w) = {}
    BY <1>2 DEF InputMounts, TypeOK
  <2>2. QED
    BY <2>1
<1>3. QED
  BY <1>1, <1>2

(* A new container takes a fresh id; no succeeded step's container or     *)
(* result changes.                                                         *)
LEMMA CreateContainerSucceeded ==
    ASSUME IInv, SucceededInv, NEW s \in Steps, CreateContainer(s)
    PROVE  SucceededInv'
<1> DEFINE w == chosen[s]
           n == nCont + 1
           r == [FreeSlot EXCEPT !.owner = s, !.worker = w,
                   !.outVol = (OutputVolumes(w) # {}),
                   !.mounted = (InputMounts(w) \cup OutputVolumes(w) # {})]
<1>1. w \in Workers /\ n \in CIds /\ containers' = [containers EXCEPT ![n] = r]
  BY MaxIdsNat DEF CreateContainer, IInv, TypeOK, ChosenWhileCreating, CIds
<1>2. Outputs # {} /\ r.mounted => r.outVol
  BY <1>1, NewContainerMounts DEF IInv, FreeSlot
<1>3. MountedHaveOutputVolumes'
  BY <1>1, <1>2 DEF SucceededInv, MountedHaveOutputVolumes, IInv, TypeOK
<1>4. ASSUME NEW t \in Steps, pc'[t] = "succeeded"
      PROVE  /\ pc[t] = "succeeded"
             /\ cont'[t] = cont[t] /\ exitStatus'[t] = exitStatus[t]
             /\ reg'[t] = reg[t]
             /\ containers'[cont[t]] = containers[cont[t]]
  <2>1. pc[t] = "succeeded" /\ t # s
    BY <1>4 DEF CreateContainer, SetPc, IInv, TypeOK
  <2>2. cont[t] \in 1..nCont
    BY <2>1 DEF IInv, ContainerOfStep, SucceededInv, SucceededReportsProcessStatus
  <2>3. cont[t] \in CIds /\ cont[t] # n
    BY <2>2, MaxIdsNat DEF IInv, TypeOK, CIds
  <2>4. QED
    BY <1>1, <2>1, <2>3 DEF CreateContainer, IInv, TypeOK
<1>5. QED
  BY <1>3, <1>4, SucceededKept

(* Recovery after a restart: the step succeeds with the status parsed     *)
(* from concourse:exit-status, which is the exit code of the container's  *)
(* process, and registers sources reading from that container.            *)
LEMMA RecoverSucceeded ==
    ASSUME IInv, SucceededInv, NEW s \in Steps, NEW c \in 1..nCont, Recover(s, c)
    PROVE  SucceededInv'
<1>1. c \in CIds /\ c # NoC
  BY MaxIdsNat DEF IInv, TypeOK, CIds, NoC
<1>2. containers[c].proc = "exited" /\ containers[c].code = containers[c].exitProp
  BY <1>1 DEF Recover, IInv, ExitStatusRecordedFaithfully
<1>3. /\ \A n \in RegNames : reg'[s][n] \in Source /\ reg'[s][n].c = c
      /\ \A t \in Steps \ {s} : reg'[t] = reg[t]
  BY <1>1, RegisterSourceOK DEF Recover, IInv, SucceededInv
<1>4. /\ cont'[s] = c /\ exitStatus'[s] = containers[c].exitProp
      /\ \A t \in Steps \ {s} : /\ cont'[t] = cont[t] /\ pc'[t] = pc[t]
                                /\ exitStatus'[t] = exitStatus[t]
  BY DEF Recover, SetPc, IInv, TypeOK
<1>5. UNCHANGED containers
  BY DEF Recover, durable
<1>6. MountedHaveOutputVolumes'
  BY <1>5 DEF SucceededInv, MountedHaveOutputVolumes
<1>7. SucceededReportsProcessStatus'
  BY <1>1, <1>2, <1>4, <1>5 DEF SucceededInv, SucceededReportsProcessStatus
<1>8. SucceededImpliesOutputsRegistered'
  BY <1>3, <1>4, SourceNotNone DEF SucceededInv, SucceededImpliesOutputsRegistered
<1>9. QED
  BY <1>6, <1>7, <1>8 DEF SucceededInv

(* The process exited while the step waited: the step registers sources  *)
(* reading from its container and, when SetProperty(exit-status)          *)
(* succeeds, returns success with the process's exit code.                *)
LEMMA ExitedSucceeded ==
    ASSUME IInv, SucceededInv, NEW s \in Steps, Exited(s)
    PROVE  SucceededInv'
<1> DEFINE c == cont[s]
           status == containers[c].code
<1>1. c \in CIds /\ c # NoC /\ containers[c].proc = "exited"
  BY MaxIdsNat DEF Exited, IInv, TypeOK, ContainerOfRunningStep, CIds, NoC
<1>2. /\ \A n \in RegNames : reg'[s][n] \in Source /\ reg'[s][n].c = c
      /\ \A t \in Steps \ {s} : reg'[t] = reg[t]
  BY <1>1, RegisterSourceOK DEF Exited, IInv, SucceededInv
<1>3. /\ cont' = cont /\ exitStatus'[s] = status
      /\ \A t \in Steps \ {s} : pc'[t] = pc[t] /\ exitStatus'[t] = exitStatus[t]
  BY DEF Exited, SetPc, IInv, TypeOK
<1>4. \A d \in CIds : /\ containers'[d].proc = containers[d].proc
                      /\ containers'[d].code = containers[d].code
                      /\ containers'[d].mounted = containers[d].mounted
                      /\ containers'[d].outVol = containers[d].outVol
  <2>1. CASE containers' = [containers EXCEPT ![c].exitProp = status]
    BY <1>1, <2>1 DEF IInv, TypeOK, Container
  <2>2. CASE UNCHANGED containers
    BY <2>2
  <2>3. QED
    BY <2>1, <2>2 DEF Exited
<1>5. MountedHaveOutputVolumes'
  <2>1. containers' \in [CIds -> Container]
    BY ExitedIInv DEF IInv, TypeOK
  <2>2. QED
    BY <1>4, <2>1, MountsKept DEF SucceededInv, IInv
<1>6. \A t \in Steps : pc[t] = "succeeded" => cont[t] \in CIds
  BY MaxIdsNat DEF IInv, TypeOK, ContainerOfStep, SucceededInv,
     SucceededReportsProcessStatus, CIds
<1>7. SucceededReportsProcessStatus'
  <2> SUFFICES ASSUME NEW t \in Steps, pc'[t] = "succeeded"
               PROVE  /\ cont'[t] # NoC
                      /\ containers'[cont'[t]].proc = "exited"
                      /\ containers'[cont'[t]].code = exitStatus'[t]
    BY DEF SucceededReportsProcessStatus
  <2>1. CASE t = s
    BY <1>1, <1>3, <1>4, <2>1
  <2>2. CASE t # s
    BY <1>3, <1>4, <1>6, <2>2 DEF SucceededInv, SucceededReportsProcessStatus
  <2>3. QED
    BY <2>1, <2>2
<1>8. SucceededImpliesOutputsRegistered'
  BY <1>2, <1>3, SourceNotNone DEF SucceededInv, SucceededImpliesOutputsRegistered
<1>9. QED
  BY <1>5, <1>7, <1>8 DEF SucceededInv

(* Initially no container mounts anything and no step has succeeded.     *)
LEMMA InitSucceeded == Init => SucceededInv
BY DEF Init, SucceededInv, MountedHaveOutputVolumes, FreeSlot,
   SucceededReportsProcessStatus, SucceededImpliesOutputsRegistered

(* Every step and every stutter preserves SucceededInv, given IInv.       *)
LEMMA NextSucceeded == IInv /\ SucceededInv /\ [Next]_vars => SucceededInv'
<1> SUFFICES ASSUME IInv, SucceededInv, [Next]_vars PROVE SucceededInv'
  OBVIOUS
<1>1. ASSUME NEW s \in Steps, StepNext(s) PROVE SucceededInv'
  <2>1. CASE \/ NewSession(s) \/ Choose(s) \/ MissingInputs(s) \/ ChooseFails(s)
             \/ CreateFails(s) \/ Setup(s) \/ WaitFails(s)
    BY <2>1, EarlyStepsSucceeded
  <2>2. CASE \E c \in 1..nCont : Recover(s, c)
    BY <2>2, RecoverSucceeded
  <2>3. CASE \E c \in 1..nCont : Reattach(s, c) \/ Rogue(s, c)
    BY <2>3, AttachSucceeded
  <2>4. CASE CreateContainer(s)  BY <2>4, CreateContainerSucceeded
  <2>5. CASE StartProcess(s)     BY <2>5, StartProcessSucceeded
  <2>6. CASE SetProcessProperty(s) \/ Interrupted(s) \/ Release(s)
    BY <2>6, OtherFieldSucceeded
  <2>7. CASE Exited(s)           BY <2>7, ExitedSucceeded
  <2>8. QED
    BY <1>1, <2>1, <2>2, <2>3, <2>4, <2>5, <2>6, <2>7 DEF StepNext
<1>2. CASE Environment
  <2>1. CASE (\E s \in Steps : Signal(s)) \/ (\E w \in Workers : OtherLoad(w))
    BY <2>1, EnvironmentLoadSucceeded
  <2>2. CASE \E c \in 1..nCont : ProcessExit(c) \/ ContainerLost(c)
    BY <2>2, ProcessEventSucceeded
  <2>3. CASE Crash               BY <2>3, CrashSucceeded
  <2>4. QED
    BY <1>2, <2>1, <2>2, <2>3 DEF Environment
<1>3. CASE UNCHANGED vars
  BY <1>3 DEF SucceededInv, MountedHaveOutputVolumes, SucceededReportsProcessStatus,
     SucceededImpliesOutputsRegistered, vars, durable, local
<1>4. QED
  BY <1>1, <1>2, <1>3 DEF Next

(* IInv and SucceededInv together hold in every reachable state, for     *)
(* every number of steps, workers, volume workers, inputs and outputs.    *)
THEOREM SucceededInvHolds == Spec => [](IInv /\ SucceededInv)
<1>1. Init => IInv /\ SucceededInv
  BY InitIInv, InitSucceeded
<1>2. IInv /\ SucceededInv /\ [Next]_vars => (IInv /\ SucceededInv)'
  BY NextIInv, NextSucceeded
<1>3. QED
  BY <1>1, <1>2, PTL DEF Spec

(* A step that returns success reports the exit code of the script in    *)
(* its own container, whether it saw the process exit or recovered the   *)
(* status from concourse:exit-status after any number of ATC restarts     *)
(* (TaskStep.Run, Phase A recovery and Phase E).                          *)
THEOREM SucceededStatusCorrect == Spec => []SucceededReportsProcessStatus
<1>1. IInv /\ SucceededInv => SucceededReportsProcessStatus
  BY DEF SucceededInv
<1>2. QED
  BY <1>1, SucceededInvHolds, PTL

(* A step that returns success has registered, for every declared output *)
(* (or its own source name), a source reading from its own container:    *)
(* registerSource never leaves a stale or missing entry on that path.    *)
THEOREM SucceededOutputsRegistered == Spec => []SucceededImpliesOutputsRegistered
<1>1. IInv /\ SucceededInv => SucceededImpliesOutputsRegistered
  BY DEF SucceededInv
<1>2. QED
  BY <1>1, SucceededInvHolds, PTL

=============================================================================
