------------------------- MODULE TaskStepRefinement -------------------------
(***************************************************************************)
(* The task step implements its contract TaskContainers (the property     *)
(* TaskStepImplementsContract), for every value of the constants, and so  *)
(* inherits the contract's guarantees: concourse:exit-status is immutable *)
(* once written, and a step's success carries the recorded exit status of *)
(* one of its own containers.                                              *)
(*                                                                         *)
(* Each step of TaskStep maps to one step of the contract or to a stutter *)
(* of it, under the invariants IInv and SucceededInv of TaskStepProofs    *)
(* and FreshContainerNotStarted, proved here.                              *)
(***************************************************************************)
EXTENDS TaskStepProofs

-----------------------------------------------------------------------------
(* A fresh container's script is not started before container.Run         *)

(* FreshContainerNotStarted is kept by a step under which every step in   *)
(* "setup" or "start" afterwards was there before, with the same          *)
(* container, whose process is left alone.                                 *)
LEMMA FreshKept ==
    ASSUME FreshContainerNotStarted,
           \A t \in Steps : pc'[t] \in {"setup", "start"} =>
               /\ pc[t] \in {"setup", "start"}
               /\ cont'[t] = cont[t]
               /\ containers'[cont[t]].proc = containers[cont[t]].proc
    PROVE  FreshContainerNotStarted'
BY DEF FreshContainerNotStarted

(* The container of a step in "setup" or "start" is its own, and its      *)
(* process has not started.                                                *)
LEMMA FreshOwned ==
    ASSUME IInv, FreshContainerNotStarted, NEW t \in Steps,
           pc[t] \in {"setup", "start"}
    PROVE  /\ cont[t] \in CIds /\ cont[t] \in 1..nCont
           /\ containers[cont[t]].owner = t
           /\ containers[cont[t]].proc = "none"
BY MaxIdsNat DEF IInv, TypeOK, ContainerOfRunningStep, FreshContainerNotStarted, CIds

(* Every step and every stutter keeps FreshContainerNotStarted.           *)
LEMMA NextFresh ==
    IInv /\ FreshContainerNotStarted /\ [Next]_vars => FreshContainerNotStarted'
<1> SUFFICES ASSUME IInv, FreshContainerNotStarted, [Next]_vars
             PROVE  FreshContainerNotStarted'
  OBVIOUS
<1> USE DEF IInv
<1>1. ASSUME NEW s \in Steps, CreateContainer(s) PROVE FreshContainerNotStarted'
  <2> DEFINE n == nCont + 1
  <2>1. n \in CIds /\ containers'[n].proc = "none" /\ cont'[s] = n
        /\ \A d \in CIds : d # n => containers'[d] = containers[d]
    BY <1>1, MaxIdsNat DEF CreateContainer, TypeOK, CIds, FreeSlot
  <2>2. \A t \in Steps \ {s} : pc'[t] = pc[t] /\ cont'[t] = cont[t]
    BY <1>1 DEF CreateContainer, SetPc, TypeOK
  <2>3. \A t \in Steps \ {s} : pc[t] \in {"setup", "start"} => cont[t] # n
    BY FreshOwned, MaxIdsNat DEF CIds, TypeOK
  <2>4. QED
    BY <2>1, <2>2, <2>3, FreshOwned DEF FreshContainerNotStarted
<1>2. ASSUME NEW s \in Steps, StartProcess(s) PROVE FreshContainerNotStarted'
  <2>1. pc'[s] \notin {"setup", "start"}
        /\ \A t \in Steps \ {s} : pc'[t] = pc[t] /\ cont'[t] = cont[t]
    BY <1>2 DEF StartProcess, SetPc, TypeOK
  <2>2. /\ cont[s] \in CIds /\ containers[cont[s]].owner = s
        /\ \A d \in CIds : d # cont[s] => containers'[d] = containers[d]
    BY <1>2, FreshOwned DEF StartProcess, TypeOK
  <2>3. \A t \in Steps \ {s} : pc[t] \in {"setup", "start"} => cont[t] # cont[s]
    BY <2>2, FreshOwned
  <2>4. QED
    BY <2>1, <2>2, <2>3, FreshOwned, FreshKept
<1>3. ASSUME NEW c \in 1..nCont, ProcessExit(c) \/ ContainerLost(c)
      PROVE  FreshContainerNotStarted'
  <2>1. c \in CIds /\ containers[c].proc = "running"
        /\ \A d \in CIds : d # c => containers'[d] = containers[d]
    BY <1>3, MaxIdsNat DEF ProcessExit, ContainerLost, TypeOK, CIds
  <2>2. UNCHANGED <<pc, cont>>
    BY <1>3 DEF ProcessExit, ContainerLost, local
  <2>3. QED
    BY <2>1, <2>2, FreshOwned, FreshKept
<1>4. ASSUME Crash PROVE FreshContainerNotStarted'
  BY <1>4 DEF Crash, FreshContainerNotStarted
<1>5. ASSUME NEW s \in Steps,
             \/ NewSession(s) \/ Choose(s) \/ MissingInputs(s) \/ ChooseFails(s)
             \/ CreateFails(s) \/ Setup(s) \/ WaitFails(s)
             \/ \E c \in 1..nCont : Recover(s, c) \/ Reattach(s, c) \/ Rogue(s, c)
      PROVE  FreshContainerNotStarted'
  <2>1. UNCHANGED containers /\ \A t \in Steps \ {s} : pc'[t] = pc[t] /\ cont'[t] = cont[t]
    BY <1>5 DEF NewSession, Choose, MissingInputs, ChooseFails, CreateFails, Setup,
       WaitFails, Recover, Reattach, Rogue, SetPc, durable, TypeOK
  <2>2. pc'[s] \in {"setup", "start"} => pc[s] \in {"setup", "start"} /\ cont'[s] = cont[s]
    BY <1>5 DEF NewSession, Choose, MissingInputs, ChooseFails, CreateFails, Setup,
       WaitFails, Recover, Reattach, Rogue, SetPc, TypeOK
  <2>3. QED
    BY <2>1, <2>2, FreshKept
<1>6. ASSUME NEW s \in Steps,
             SetProcessProperty(s) \/ Interrupted(s) \/ Exited(s) \/ Release(s)
      PROVE  FreshContainerNotStarted'
  <2>1. pc'[s] \notin {"setup", "start"}
        /\ \A t \in Steps \ {s} : pc'[t] = pc[t] /\ cont'[t] = cont[t]
    BY <1>6 DEF SetProcessProperty, Interrupted, Exited, Release, SetPc, TypeOK
  <2>2. \A d \in CIds : containers'[d].proc = containers[d].proc
    <3>1. CASE SetProcessProperty(s)
      <4>1. CASE containers' = [containers EXCEPT ![cont[s]].procProp = TRUE]
        BY <4>1 DEF TypeOK, Container
      <4>2. CASE UNCHANGED containers
        BY <4>2
      <4>3. QED
        BY <3>1, <4>1, <4>2 DEF SetProcessProperty
    <3>2. CASE Interrupted(s)
      BY <3>2 DEF Interrupted, TypeOK, Container
    <3>3. CASE Exited(s)
      <4>1. CASE containers' = [containers EXCEPT ![cont[s]].exitProp = containers[cont[s]].code]
        BY <4>1 DEF TypeOK, Container
      <4>2. CASE UNCHANGED containers
        BY <4>2
      <4>3. QED
        BY <3>3, <4>1, <4>2 DEF Exited
    <3>4. CASE Release(s)
      BY <3>4 DEF Release, TypeOK, Container
    <3>5. QED
      BY <1>6, <3>1, <3>2, <3>3, <3>4
  <2>3. QED
    BY <2>1, <2>2, FreshOwned, FreshKept
<1>7. ASSUME (\E s \in Steps : Signal(s)) \/ (\E w \in Workers : OtherLoad(w))
      PROVE  FreshContainerNotStarted'
  BY <1>7 DEF Signal, OtherLoad, local, FreshContainerNotStarted
<1>8. CASE UNCHANGED vars
  BY <1>8 DEF vars, durable, local, FreshContainerNotStarted
<1>9. QED
  BY <1>1, <1>2, <1>3, <1>4, <1>5, <1>6, <1>7, <1>8 DEF Next, StepNext, Environment

-----------------------------------------------------------------------------
(* The refinement mapping, and steps that the contract does not see       *)

(* The contract's variables, as the mapping in TaskStep computes them.    *)
mbox == [c \in CIds |-> [owner |-> containers[c].owner,
                         proc |-> containers[c].proc,
                         code |-> containers[c].code,
                         recorded |-> containers[c].exitProp]]
mfrom == [s \in Steps |-> IF pc[s] = "succeeded" THEN cont[s] ELSE NoC]
mrep == [s \in Steps |-> IF pc[s] = "succeeded" THEN exitStatus[s] ELSE NoStatus]

(* The invariant the refinement rests on.                                 *)
RInv == IInv /\ SucceededInv /\ FreshContainerNotStarted

(* A step that keeps the owner, process, code and exit-status property of *)
(* every container, makes no step succeed or stop being succeeded, and    *)
(* keeps the container and status of every succeeded step, is a stutter   *)
(* of the contract.                                                        *)
LEMMA MappedStutter ==
    ASSUME \A d \in CIds : /\ containers'[d].owner = containers[d].owner
                           /\ containers'[d].proc = containers[d].proc
                           /\ containers'[d].code = containers[d].code
                           /\ containers'[d].exitProp = containers[d].exitProp,
           \A t \in Steps : (pc'[t] = "succeeded") <=> (pc[t] = "succeeded"),
           \A t \in Steps : pc[t] = "succeeded" =>
                                cont'[t] = cont[t] /\ exitStatus'[t] = exitStatus[t]
    PROVE  UNCHANGED Contract!cvars
<1>1. mbox' = mbox
  BY DEF mbox
<1>2. mfrom' = mfrom /\ mrep' = mrep
  BY DEF mfrom, mrep
<1>3. QED
  BY <1>1, <1>2 DEF Contract!cvars, mbox, mfrom, mrep

(* The steps of Run that hand out no container, start no script and make *)
(* no step succeed are stutters of the contract.                          *)
LEMMA QuietStepsRefine ==
    ASSUME RInv, NEW s \in Steps,
           \/ NewSession(s) \/ Choose(s) \/ MissingInputs(s) \/ ChooseFails(s)
           \/ CreateFails(s) \/ Setup(s) \/ WaitFails(s)
           \/ \E c \in 1..nCont : Reattach(s, c) \/ Rogue(s, c)
    PROVE  UNCHANGED Contract!cvars
<1>1. UNCHANGED <<containers, exitStatus>>
  BY DEF NewSession, Choose, MissingInputs, ChooseFails, CreateFails, Setup,
     WaitFails, Reattach, Rogue, durable
<1>2. pc[s] # "succeeded" /\ pc'[s] # "succeeded"
      /\ \A t \in Steps \ {s} : pc'[t] = pc[t] /\ cont'[t] = cont[t]
  BY DEF NewSession, Choose, MissingInputs, ChooseFails, CreateFails, Setup,
     WaitFails, Reattach, Rogue, SetPc, RInv, IInv, TypeOK
<1>3. QED
  BY <1>1, <1>2, MappedStutter

(* Setting concourse:task-process, stopping on abort, and the error     *)
(* branches of container.Run and of the exit are stutters too.            *)
LEMMA SideStepsRefine ==
    ASSUME RInv, NEW s \in Steps,
           \/ SetProcessProperty(s) \/ Interrupted(s)
           \/ StartProcess(s) /\ pc'[s] = "errored"
           \/ Exited(s) /\ pc'[s] = "errored"
    PROVE  UNCHANGED Contract!cvars
<1> USE DEF RInv, IInv
<1>1. pc \in [Steps -> PCs] /\ cont \in [Steps -> CIds \cup {NoC}]
  BY DEF TypeOK
<1>2. CASE SetProcessProperty(s)
  <2>1. \A t \in Steps : (pc'[t] = "succeeded") <=> (pc[t] = "succeeded")
    BY <1>1, <1>2 DEF SetProcessProperty, SetPc
  <2>2. \A d \in CIds : /\ containers'[d].owner = containers[d].owner
                        /\ containers'[d].proc = containers[d].proc
                        /\ containers'[d].code = containers[d].code
                        /\ containers'[d].exitProp = containers[d].exitProp
    <3>1. CASE containers' = [containers EXCEPT ![cont[s]].procProp = TRUE]
      BY <3>1 DEF TypeOK, Container
    <3>2. CASE UNCHANGED containers
      BY <3>2
    <3>3. QED
      BY <1>2, <3>1, <3>2 DEF SetProcessProperty
  <2>3. QED
    BY <1>2, <2>1, <2>2, MappedStutter DEF SetProcessProperty
<1>3. CASE Interrupted(s)
  <2>1. \A t \in Steps : (pc'[t] = "succeeded") <=> (pc[t] = "succeeded")
    BY <1>1, <1>3 DEF Interrupted, SetPc
  <2>2. \A d \in CIds : /\ containers'[d].owner = containers[d].owner
                        /\ containers'[d].proc = containers[d].proc
                        /\ containers'[d].code = containers[d].code
                        /\ containers'[d].exitProp = containers[d].exitProp
    BY <1>3 DEF Interrupted, TypeOK, Container
  <2>3. QED
    BY <1>3, <2>1, <2>2, MappedStutter DEF Interrupted
<1>4. CASE StartProcess(s) /\ pc'[s] = "errored"
  <2>1. UNCHANGED containers
    BY <1>1, <1>4 DEF StartProcess, SetPc
  <2>2. \A t \in Steps : (pc'[t] = "succeeded") <=> (pc[t] = "succeeded")
    BY <1>1, <1>4 DEF StartProcess, SetPc
  <2>3. QED
    BY <1>4, <2>1, <2>2, MappedStutter DEF StartProcess
<1>5. CASE Exited(s) /\ pc'[s] = "errored"
  <2>1. UNCHANGED containers
    BY <1>1, <1>5 DEF Exited, SetPc
  <2>2. \A t \in Steps : (pc'[t] = "succeeded") <=> (pc[t] = "succeeded")
    BY <1>1, <1>5 DEF Exited, SetPc
  <2>3. \A t \in Steps : pc[t] = "succeeded" =>
                            cont'[t] = cont[t] /\ exitStatus'[t] = exitStatus[t]
    BY <1>1, <1>5 DEF Exited, TypeOK
  <2>4. QED
    BY <2>1, <2>2, <2>3, MappedStutter
<1>6. QED
  BY <1>2, <1>3, <1>4, <1>5

(* Signals and the load of other builds are stutters of the contract.    *)
LEMMA EnvironmentQuietRefine ==
    ASSUME (\E s \in Steps : Signal(s)) \/ (\E w \in Workers : OtherLoad(w))
    PROVE  UNCHANGED Contract!cvars
BY MappedStutter DEF Signal, OtherLoad, local

-----------------------------------------------------------------------------
(* The steps that the contract sees                                       *)

(* A step that changes no step's result leaves from and reported alone.   *)
LEMMA ResultsKept ==
    ASSUME \A t \in Steps : (pc'[t] = "succeeded") <=> (pc[t] = "succeeded"),
           \A t \in Steps : pc[t] = "succeeded" =>
                                cont'[t] = cont[t] /\ exitStatus'[t] = exitStatus[t]
    PROVE  mfrom' = mfrom /\ mrep' = mrep
BY DEF mfrom, mrep

(* mbox follows a change of one container's durable fields.              *)
LEMMA MboxOneChanged ==
    ASSUME containers \in [CIds -> Container], containers' \in [CIds -> Container],
           NEW c \in CIds, NEW b,
           \A d \in CIds \ {c} : containers'[d] = containers[d],
           [owner |-> containers'[c].owner, proc |-> containers'[c].proc,
            code |-> containers'[c].code, recorded |-> containers'[c].exitProp] = b
    PROVE  mbox' = [mbox EXCEPT ![c] = b]
BY DEF mbox

(* createContainer hands the next free id to the step: Create.           *)
LEMMA CreateContainerRefines ==
    ASSUME RInv, NEW s \in Steps, CreateContainer(s)
    PROVE  Contract!Next
<1> USE DEF RInv, IInv
<1> DEFINE n == nCont + 1
<1>1. n \in CIds /\ containers[n] = FreeSlot
  BY MaxIdsNat DEF CreateContainer, TypeOK, UnusedSlotsFree, CIds
<1>2. mbox[n].owner = NoStep
  BY <1>1 DEF mbox, FreeSlot
<1>3. mbox' = [mbox EXCEPT ![n].owner = s]
  BY <1>1 DEF mbox, CreateContainer, FreeSlot, TypeOK
<1>4. \A t \in Steps : (pc'[t] = "succeeded") <=> (pc[t] = "succeeded")
  BY DEF CreateContainer, SetPc, TypeOK
<1>5. \A t \in Steps : pc[t] = "succeeded" =>
                           cont'[t] = cont[t] /\ exitStatus'[t] = exitStatus[t]
  BY DEF CreateContainer, TypeOK
<1>6. Contract!Create(n, s)
  BY <1>2, <1>3, <1>4, <1>5, ResultsKept DEF Contract!Create, mbox, mfrom, mrep
<1>7. \E d \in CIds : \E t \in Steps : Contract!Create(d, t)
  BY <1>1, <1>6
<1>8. QED
  BY <1>7 DEF Contract!Next

(* container.Run starts the script of the step's fresh container: Start. *)
LEMMA StartProcessRefines ==
    ASSUME RInv, IInv', NEW s \in Steps, StartProcess(s), pc'[s] = "setprop"
    PROVE  Contract!Next
<1>0. PICK c \in CIds : c = cont[s]
  BY FreshOwned DEF StartProcess, RInv
<1>1. c \in CIds /\ containers[c].owner = s /\ containers[c].proc = "none"
  BY <1>0, FreshOwned DEF StartProcess, RInv
<1>2. containers' = [containers EXCEPT ![c].proc = "running"]
  BY <1>0 DEF StartProcess, SetPc, RInv, IInv, TypeOK
<1>3. mbox[c].owner # NoStep /\ mbox[c].proc = "none"
  BY <1>1, ConstantsAssumption DEF mbox
<1>4. mbox' = [mbox EXCEPT ![c].proc = "running"]
  <2>1. containers \in [CIds -> Container] /\ containers' \in [CIds -> Container]
    BY DEF RInv, IInv, TypeOK
  <2>2. \A d \in CIds \ {c} : containers'[d] = containers[d]
    BY <1>2, <2>1
  <2>3. [owner |-> containers'[c].owner, proc |-> containers'[c].proc,
         code |-> containers'[c].code, recorded |-> containers'[c].exitProp]
        = [mbox[c] EXCEPT !.proc = "running"]
    BY <1>1, <1>2, <2>1 DEF mbox
  <2>4. QED
    BY <1>1, <2>1, <2>2, <2>3, MboxOneChanged
<1>5. \A t \in Steps : (pc'[t] = "succeeded") <=> (pc[t] = "succeeded")
  BY DEF StartProcess, SetPc, RInv, IInv, TypeOK
<1>6. \A t \in Steps : pc[t] = "succeeded" =>
                           cont'[t] = cont[t] /\ exitStatus'[t] = exitStatus[t]
  BY DEF StartProcess
<1>7. Contract!Start(c)
  BY <1>3, <1>4, <1>5, <1>6, ResultsKept DEF Contract!Start, mbox, mfrom, mrep
<1>8. \E d \in CIds : Contract!Start(d)
  BY <1>1, <1>7
<1>9. QED
  BY <1>8 DEF Contract!Next

(* The script exits with some status: Exit.                               *)
LEMMA ProcessExitRefines ==
    ASSUME RInv, IInv', NEW c \in 1..nCont, ProcessExit(c)
    PROVE  Contract!Next
<1> USE DEF RInv, IInv
<1>1. c \in CIds
  BY MaxIdsNat DEF TypeOK, CIds
<1>2. PICK e \in ExitCodes :
        containers' = [containers EXCEPT ![c].proc = "exited", ![c].code = e]
  BY DEF ProcessExit
<1>3. mbox[c].proc = "running"
  BY <1>1 DEF ProcessExit, mbox
<1>4. mbox' = [mbox EXCEPT ![c].proc = "exited", ![c].code = e]
  <2> DEFINE U == Steps \cup {NoStep} \cup ProcStates \cup ExitCodes \cup {NoStatus}
             BoxU == [owner : U, proc : U, code : U, recorded : U]
             T == [mbox EXCEPT ![c].proc = "exited", ![c].code = e]
  <2>1. mbox \in [CIds -> BoxU] /\ mbox' \in [CIds -> BoxU]
    BY DEF mbox, TypeOK, Container
  <2>2. /\ T \in [CIds -> BoxU]
        /\ T[c].owner = mbox[c].owner /\ T[c].proc = "exited" /\ T[c].code = e
        /\ T[c].recorded = mbox[c].recorded
        /\ \A d \in CIds \ {c} : T[d] = mbox[d]
    BY <1>1, <2>1 DEF ProcStates
  <2>3. \A d \in CIds : /\ mbox'[d].owner = T[d].owner /\ mbox'[d].proc = T[d].proc
                       /\ mbox'[d].code = T[d].code /\ mbox'[d].recorded = T[d].recorded
    <3>1. /\ containers'[c].owner = containers[c].owner
          /\ containers'[c].proc = "exited" /\ containers'[c].code = e
          /\ containers'[c].exitProp = containers[c].exitProp
      BY <1>1, <1>2 DEF TypeOK
    <3>2. \A d \in CIds \ {c} : containers'[d] = containers[d]
      BY <1>2 DEF TypeOK
    <3>3. QED
      BY <1>1, <2>2, <3>1, <3>2 DEF mbox
  <2>4. PICK f, g : f = mbox' /\ g = T
    OBVIOUS
  <2>5. f \in [CIds -> BoxU] /\ g \in [CIds -> BoxU]
        /\ \A d \in CIds : /\ f[d].owner = g[d].owner /\ f[d].proc = g[d].proc
                          /\ f[d].code = g[d].code /\ f[d].recorded = g[d].recorded
    BY <2>1, <2>2, <2>3, <2>4
  <2>6. f = g
    BY <2>5 DEF BoxU
  <2>7. QED
    BY <2>4, <2>6
<1>5. mfrom' = mfrom /\ mrep' = mrep
  BY DEF ProcessExit, local, mfrom, mrep
<1>6. Contract!Exit(c, e)
  BY <1>3, <1>4, <1>5 DEF Contract!Exit, mbox, mfrom, mrep
<1>7. \E d \in CIds : \E x \in ExitCodes : Contract!Exit(d, x)
  BY <1>1, <1>6
<1>8. QED
  BY <1>7 DEF Contract!Next

(* The worker loses the container of a running script: Lose.             *)
LEMMA ContainerLostRefines ==
    ASSUME RInv, IInv', NEW c \in 1..nCont, ContainerLost(c)
    PROVE  Contract!Next
<1> USE DEF RInv, IInv
<1>1. c \in CIds
  BY MaxIdsNat DEF TypeOK, CIds
<1>2. mbox[c].proc = "running"
  BY <1>1 DEF ContainerLost, mbox
<1>3. mbox' = [mbox EXCEPT ![c].proc = "lost"]
  <2>1. containers \in [CIds -> Container] /\ containers' \in [CIds -> Container]
    BY DEF TypeOK
  <2>2. \A d \in CIds \ {c} : containers'[d] = containers[d]
    BY <2>1 DEF ContainerLost
  <2>3. [owner |-> containers'[c].owner, proc |-> containers'[c].proc,
         code |-> containers'[c].code, recorded |-> containers'[c].exitProp]
        = [mbox[c] EXCEPT !.proc = "lost"]
    BY <1>1, <2>1 DEF ContainerLost, mbox
  <2>4. QED
    BY <1>1, <2>1, <2>2, <2>3, MboxOneChanged
<1>4. mfrom' = mfrom /\ mrep' = mrep
  BY DEF ContainerLost, local, mfrom, mrep
<1>5. Contract!Lose(c)
  BY <1>2, <1>3, <1>4 DEF Contract!Lose, mbox, mfrom, mrep
<1>6. \E d \in CIds : Contract!Lose(d)
  BY <1>1, <1>5
<1>7. QED
  BY <1>6 DEF Contract!Next

(* The values the contract's box fields range over, and the boxes.        *)
BoxVals == Steps \cup {NoStep} \cup ProcStates \cup ExitCodes \cup {NoStatus}
BoxRec == [owner : BoxVals, proc : BoxVals, code : BoxVals, recorded : BoxVals]

(* Recording the exit status of container c, as Succeed does, changes the *)
(* box of c in its recorded field alone.                                  *)
LEMMA MboxRecorded ==
    ASSUME TypeOK, TypeOK', NEW c \in CIds,
           \A d \in CIds \ {c} : containers'[d] = containers[d],
           containers'[c].owner = containers[c].owner,
           containers'[c].proc = containers[c].proc,
           containers'[c].code = containers[c].code,
           containers'[c].exitProp = containers[c].code
    PROVE  mbox' = [mbox EXCEPT ![c].recorded = mbox[c].code]
<1> DEFINE T == [mbox EXCEPT ![c].recorded = mbox[c].code]
<1>1. mbox \in [CIds -> BoxRec] /\ mbox' \in [CIds -> BoxRec]
  BY DEF mbox, TypeOK, Container, BoxRec, BoxVals
<1>2. /\ T \in [CIds -> BoxRec]
      /\ T[c].owner = mbox[c].owner /\ T[c].proc = mbox[c].proc
      /\ T[c].code = mbox[c].code /\ T[c].recorded = mbox[c].code
      /\ \A d \in CIds \ {c} : T[d] = mbox[d]
  BY <1>1 DEF BoxRec
<1>3. \A d \in CIds : /\ mbox'[d].owner = T[d].owner /\ mbox'[d].proc = T[d].proc
                     /\ mbox'[d].code = T[d].code /\ mbox'[d].recorded = T[d].recorded
  BY <1>2 DEF mbox
<1>4. PICK f, g : f = mbox' /\ g = T
  OBVIOUS
<1>5. f \in [CIds -> BoxRec] /\ g \in [CIds -> BoxRec]
      /\ \A d \in CIds : /\ f[d].owner = g[d].owner /\ f[d].proc = g[d].proc
                        /\ f[d].code = g[d].code /\ f[d].recorded = g[d].recorded
  BY <1>1, <1>2, <1>3, <1>4
<1>6. f = g
  BY <1>5 DEF BoxRec
<1>7. QED
  BY <1>4, <1>6

(* After a restart, Run finds concourse:exit-status on its container and *)
(* returns that status without running anything: Succeed.                 *)
LEMMA RecoverRefines ==
    ASSUME RInv, IInv', NEW s \in Steps, NEW c \in 1..nCont, Recover(s, c)
    PROVE  Contract!Next
<1> USE DEF RInv, IInv
<1>1. c \in CIds /\ pc \in [Steps -> PCs]
  BY MaxIdsNat DEF TypeOK, CIds
<1>2. containers[c].proc = "exited" /\ containers[c].code = containers[c].exitProp
  BY <1>1 DEF Recover, ExitStatusRecordedFaithfully
<1>3. mfrom[s] = NoC /\ mbox[c].owner = s /\ mbox[c].proc = "exited"
  BY <1>1, <1>2 DEF Recover, mfrom, mbox
<1>4. mbox' = [mbox EXCEPT ![c].recorded = mbox[c].code]
  BY <1>1, <1>2, MboxRecorded DEF Recover, durable
<1>5. mfrom' = [mfrom EXCEPT ![s] = c]
  <2>1. pc'[s] = "succeeded" /\ cont'[s] = c
        /\ \A t \in Steps \ {s} : pc'[t] = pc[t] /\ cont'[t] = cont[t]
    BY <1>1 DEF Recover, SetPc, TypeOK
  <2>2. QED
    BY <2>1 DEF mfrom
<1>6. mrep' = [mrep EXCEPT ![s] = mbox[c].code]
  <2>1. pc'[s] = "succeeded" /\ exitStatus'[s] = containers[c].code
        /\ \A t \in Steps \ {s} : pc'[t] = pc[t] /\ exitStatus'[t] = exitStatus[t]
    BY <1>1, <1>2 DEF Recover, SetPc, TypeOK
  <2>2. QED
    BY <1>1, <2>1 DEF mrep, mbox
<1>7. Contract!Succeed(s, c)
  BY <1>3, <1>4, <1>5, <1>6 DEF Contract!Succeed, mbox, mfrom, mrep
<1>8. QED
  BY <1>1, <1>7 DEF Contract!Next


(* Run sees its process exit, writes concourse:exit-status and returns   *)
(* success with that status: Succeed.                                     *)
LEMMA ExitedRefines ==
    ASSUME RInv, IInv', NEW s \in Steps, Exited(s), pc'[s] = "succeeded"
    PROVE  Contract!Next
<1> USE DEF RInv, IInv
<1>0. PICK c \in CIds : c = cont[s]
  BY MaxIdsNat DEF Exited, ContainerOfRunningStep, TypeOK, CIds
<1>1. pc \in [Steps -> PCs] /\ containers[c].owner = s
      /\ containers[c].proc = "exited"
  BY <1>0 DEF Exited, ContainerOfRunningStep, TypeOK
<1>2. containers' = [containers EXCEPT ![c].exitProp = containers[c].code]
      /\ exitStatus'[s] = containers[c].code
  BY <1>0 DEF Exited, SetPc, TypeOK
<1>3. mfrom[s] = NoC /\ mbox[c].owner = s /\ mbox[c].proc = "exited"
  BY <1>1 DEF Exited, mfrom, mbox
<1>4. mbox' = [mbox EXCEPT ![c].recorded = mbox[c].code]
  BY <1>2, MboxRecorded DEF TypeOK, Container
<1>5. mfrom' = [mfrom EXCEPT ![s] = c]
  <2>1. \A t \in Steps \ {s} : pc'[t] = pc[t]
    BY <1>1 DEF Exited, SetPc
  <2>2. QED
    BY <1>0, <2>1 DEF Exited, mfrom
<1>6. mrep' = [mrep EXCEPT ![s] = mbox[c].code]
  <2>1. \A t \in Steps \ {s} : pc'[t] = pc[t] /\ exitStatus'[t] = exitStatus[t]
    BY <1>1 DEF Exited, SetPc, TypeOK
  <2>2. QED
    BY <1>2, <2>1 DEF mrep, mbox
<1>7. Contract!Succeed(s, c)
  BY <1>3, <1>4, <1>5, <1>6 DEF Contract!Succeed, mbox, mfrom, mrep
<1>8. QED
  BY <1>7 DEF Contract!Next

(* Release of a step that returned success forgets its result: Forget;  *)
(* the release of any other step is a stutter.                            *)
LEMMA ReleaseRefines ==
    ASSUME RInv, IInv', NEW s \in Steps, Release(s)
    PROVE  [Contract!Next]_Contract!cvars
<1> USE DEF RInv, IInv
<1>1. pc \in [Steps -> PCs] /\ pc'[s] = "released"
      /\ \A t \in Steps \ {s} : pc'[t] = pc[t]
  BY DEF Release, SetPc, TypeOK
<1>2. \A d \in CIds : /\ containers'[d].owner = containers[d].owner
                      /\ containers'[d].proc = containers[d].proc
                      /\ containers'[d].code = containers[d].code
                      /\ containers'[d].exitProp = containers[d].exitProp
  <2>1. CASE cont[s] = NoC
    BY <2>1 DEF Release
  <2>2. CASE cont[s] # NoC
    <3>1. cont[s] \in CIds
      BY <2>2 DEF TypeOK
    <3>2. PICK v : containers' = [containers EXCEPT ![cont[s]].ttl = v]
      BY <2>2 DEF Release
    <3>3. QED
      BY <3>1, <3>2 DEF TypeOK, Container
  <2>3. QED
    BY <2>1, <2>2
<1>3. mbox' = mbox
  BY <1>2 DEF mbox
<1>4. CASE pc[s] = "succeeded"
  <2>1. mfrom[s] # NoC
    BY <1>4 DEF mfrom, SucceededInv, SucceededReportsProcessStatus
  <2>2. mfrom' = [mfrom EXCEPT ![s] = NoC] /\ mrep' = [mrep EXCEPT ![s] = NoStatus]
    BY <1>1 DEF Release, mfrom, mrep
  <2>3. Contract!Forget(s)
    BY <1>3, <2>1, <2>2 DEF Contract!Forget, mbox, mfrom, mrep
  <2>4. QED
    BY <2>3 DEF Contract!Next
<1>5. CASE pc[s] # "succeeded"
  BY <1>1, <1>2, <1>5, MappedStutter DEF Release
<1>6. QED
  BY <1>4, <1>5

(* An ATC restart loses every step's result and leaves the containers:    *)
(* Restart.                                                               *)
LEMMA CrashRefines ==
    ASSUME RInv, Crash
    PROVE  Contract!Next
<1>1. \A t \in Steps : pc'[t] # "succeeded"
  BY DEF Crash, RInv, IInv, TypeOK
<1>2. mfrom' = [t \in Steps |-> NoC] /\ mrep' = [t \in Steps |-> NoStatus]
  BY <1>1 DEF mfrom, mrep
<1>3. mbox' = mbox
  BY DEF Crash, mbox
<1>4. Contract!Restart
  BY <1>2, <1>3 DEF Contract!Restart, mbox, mfrom, mrep
<1>5. QED
  BY <1>4 DEF Contract!Next


-----------------------------------------------------------------------------
(* The refinement theorem                                                 *)

(* The initial states of the task step map to the contract's.            *)
LEMMA InitRefines == Init => Contract!Init
<1> SUFFICES ASSUME Init PROVE Contract!Init
  OBVIOUS
<1>1. mbox = [c \in CIds |-> [owner |-> NoStep, proc |-> "none", code |-> 0,
                              recorded |-> NoStatus]]
  BY DEF Init, mbox, FreeSlot
<1>2. mfrom = [s \in Steps |-> NoC] /\ mrep = [s \in Steps |-> NoStatus]
  BY DEF Init, mfrom, mrep
<1>3. QED
  BY <1>1, <1>2 DEF Contract!Init, mbox, mfrom, mrep

(* Init establishes FreshContainerNotStarted: no step is in setup.       *)
LEMMA InitFresh == Init => FreshContainerNotStarted
BY DEF Init, FreshContainerNotStarted

(* Every step of the task step model, between two states of the          *)
(* invariant, is a step of the contract or leaves its variables alone.    *)
LEMMA RefineStep ==
    ASSUME RInv, IInv', [Next]_vars
    PROVE  [Contract!Next]_Contract!cvars
<1>1. ASSUME NEW s \in Steps, StepNext(s) PROVE [Contract!Next]_Contract!cvars
  <2>1. CASE \/ NewSession(s) \/ Choose(s) \/ MissingInputs(s) \/ ChooseFails(s)
             \/ CreateFails(s) \/ Setup(s) \/ WaitFails(s)
             \/ \E c \in 1..nCont : Reattach(s, c) \/ Rogue(s, c)
    BY <2>1, QuietStepsRefine
  <2>2. CASE \E c \in 1..nCont : Recover(s, c)
    BY <2>2, RecoverRefines
  <2>3. CASE CreateContainer(s)
    BY <2>3, CreateContainerRefines
  <2>4. CASE StartProcess(s)
    <3>1. pc'[s] \in {"setprop", "errored"}
      BY <2>4 DEF StartProcess, SetPc, RInv, IInv, TypeOK
    <3>2. QED
      BY <2>4, <3>1, StartProcessRefines, SideStepsRefine
  <2>5. CASE Exited(s)
    <3>1. pc'[s] \in {"succeeded", "errored"}
      BY <2>5 DEF Exited, SetPc, RInv, IInv, TypeOK
    <3>2. QED
      BY <2>5, <3>1, ExitedRefines, SideStepsRefine
  <2>6. CASE SetProcessProperty(s) \/ Interrupted(s)
    BY <2>6, SideStepsRefine
  <2>7. CASE Release(s)
    BY <2>7, ReleaseRefines
  <2>8. QED
    BY <1>1, <2>1, <2>2, <2>3, <2>4, <2>5, <2>6, <2>7 DEF StepNext
<1>2. CASE Environment
  <2>1. CASE (\E s \in Steps : Signal(s)) \/ (\E w \in Workers : OtherLoad(w))
    BY <2>1, EnvironmentQuietRefine
  <2>2. CASE \E c \in 1..nCont : ProcessExit(c) \/ ContainerLost(c)
    BY <2>2, ProcessExitRefines, ContainerLostRefines
  <2>3. CASE Crash
    BY <2>3, CrashRefines
  <2>4. QED
    BY <1>2, <2>1, <2>2, <2>3 DEF Environment
<1>3. CASE UNCHANGED vars
  BY <1>3, MappedStutter DEF vars, durable, local
<1>4. QED
  BY <1>1, <1>2, <1>3 DEF Next

(* FreshContainerNotStarted, with IInv and SucceededInv, holds in every  *)
(* reachable state.                                                       *)
LEMMA RInvHolds == Spec => []RInv
<1>1. Spec => [](IInv /\ SucceededInv)
  BY SucceededInvHolds
<1>2. Spec => []FreshContainerNotStarted
  <2>1. Init => FreshContainerNotStarted
    BY InitFresh
  <2>2. IInv /\ FreshContainerNotStarted /\ [Next]_vars => FreshContainerNotStarted'
    BY NextFresh
  <2>3. QED
    BY <1>1, <2>1, <2>2, PTL DEF Spec
<1>3. QED
  BY <1>1, <1>2, PTL DEF RInv

(* The task step implements its contract TaskContainers, for every number *)
(* of steps, workers, inputs, outputs, exit codes and crashes: whatever   *)
(* order the goroutines, the scripts, the workers and ATC restarts take,  *)
(* a container is handed to one step, its script is started at most     *)
(* once, concourse:exit-status is written once with the status the       *)
(* process exited with, and a step returns success only with the status  *)
(* of one of its own exited containers (spec 3, 4.6, 8).                  *)
THEOREM TaskStepRefines == Spec => TaskStepImplementsContract
<1>1. Init => Contract!Init
  BY InitRefines
<1>2. RInv /\ RInv' /\ [Next]_vars => [Contract!Next]_Contract!cvars
  BY RefineStep DEF RInv
<1>3. QED
  BY <1>1, <1>2, RInvHolds, PTL DEF Spec, TaskStepImplementsContract, Contract!Spec


-----------------------------------------------------------------------------
(* What the contract's theorems say of the task step                      *)

(* The task step's constants satisfy what the contract assumes of its     *)
(* own: exit code 0 exists, and NoStep, NoStatus and container id 0 are  *)
(* no step, exit code or container id.                                    *)
LEMMA ContractConstants == Contract!TaskContainersAssumption
BY ConstantsAssumption DEF Contract!TaskContainersAssumption, CIds, NoC

(* Whenever a task step has returned success, its result names a         *)
(* container the step owns, whose process exited with the status the     *)
(* step returned and whose concourse:exit-status records that status: a  *)
(* rerun after an ATC restart sees the outcome it reported (spec 8).      *)
THEOREM TaskStepReportsOwnExit == Spec => []Contract!ReportedOwnExit
<1>1. Contract!Spec => []Contract!ContractInv
  BY ContractConstants, Contract!ContractInvariant
<1>2. Contract!ContractInv => Contract!ReportedOwnExit
  BY DEF Contract!ContractInv
<1>3. QED
  BY <1>1, <1>2, TaskStepRefines, PTL DEF TaskStepImplementsContract

(* In every behaviour of the task step, a container's                    *)
(* concourse:exit-status, once written, is never changed: neither by a   *)
(* re-attach, nor by a recovery after a restart, nor by a second exit    *)
(* (spec 3).                                                              *)
THEOREM TaskStepRecordedImmutable == Spec => Contract!RecordedImmutable
<1>1. Contract!Spec => Contract!RecordedImmutable
  BY ContractConstants, Contract!ContractRecordedImmutable
<1>2. QED
  BY <1>1, TaskStepRefines DEF TaskStepImplementsContract

=============================================================================
