--------------------------- MODULE TaskContainers ---------------------------
(***************************************************************************)
(* What the task step promises about its containers and its result (spec  *)
(* 4.6 and 8), with placement, volumes, heartbeats and every in-memory     *)
(* detail of Run hidden:                                                   *)
(*   - a container is handed to one step, and its script is started at    *)
(*     most once;                                                          *)
(*   - the process exits once, with one status, or its container is lost; *)
(*   - concourse:exit-status is written only after the exit, with that     *)
(*     status, and never changes afterwards;                               *)
(*   - a step returns success only with the exit status of one of its own *)
(*     exited containers, recording it if it is not yet recorded;          *)
(*   - a step's result is forgotten at Release and on an ATC restart.      *)
(***************************************************************************)
EXTENDS Naturals, TLAPS

CONSTANTS
    Steps,      \* step identities
    Ids,        \* container ids
    ExitCodes,  \* exit statuses a task script may produce
    NoStep,     \* owner of a container not handed out
    NoStatus,   \* no exit status (recorded or reported)
    NoId        \* no container (a step that has not returned success)

(* What the contract needs of its constants: the initial exit code is an *)
(* exit code and the "none" values are distinct from real ones. The       *)
(* theorems below take it as hypothesis; TaskStepRefinement proves it of  *)
(* the task step's instance.                                               *)
TaskContainersAssumption ==
    /\ 0 \in ExitCodes
    /\ NoStep \notin Steps
    /\ NoStatus \notin ExitCodes
    /\ NoId \notin Ids

VARIABLES
    box,       \* Ids -> the durable state of a container
    from,      \* Steps -> the container whose status the step returned
    reported   \* Steps -> the exit status the step returned

cvars == <<box, from, reported>>

ProcStates == {"none", "running", "exited", "lost"}
Box == [owner: Steps \cup {NoStep}, proc: ProcStates, code: ExitCodes,
        recorded: ExitCodes \cup {NoStatus}]

TypeOK ==
    /\ box \in [Ids -> Box]
    /\ from \in [Steps -> Ids \cup {NoId}]
    /\ reported \in [Steps -> ExitCodes \cup {NoStatus}]

(* A free container id is handed to step s.                               *)
Create(c, s) ==
    /\ box[c].owner = NoStep
    /\ box' = [box EXCEPT ![c].owner = s]
    /\ UNCHANGED <<from, reported>>

(* The script of a handed-out container is started, once.                 *)
Start(c) ==
    /\ box[c].owner # NoStep
    /\ box[c].proc = "none"
    /\ box' = [box EXCEPT ![c].proc = "running"]
    /\ UNCHANGED <<from, reported>>

Exit(c, e) ==
    /\ box[c].proc = "running"
    /\ box' = [box EXCEPT ![c].proc = "exited", ![c].code = e]
    /\ UNCHANGED <<from, reported>>

Lose(c) ==
    /\ box[c].proc = "running"
    /\ box' = [box EXCEPT ![c].proc = "lost"]
    /\ UNCHANGED <<from, reported>>

(* Step s returns success with the exit status of its exited container c *)
(* and makes sure the status is recorded.                                 *)
Succeed(s, c) ==
    /\ from[s] = NoId
    /\ box[c].owner = s
    /\ box[c].proc = "exited"
    /\ box' = [box EXCEPT ![c].recorded = box[c].code]
    /\ from' = [from EXCEPT ![s] = c]
    /\ reported' = [reported EXCEPT ![s] = box[c].code]

(* TaskStep.Release: the step's result is no longer held.                 *)
Forget(s) ==
    /\ from[s] # NoId
    /\ from' = [from EXCEPT ![s] = NoId]
    /\ reported' = [reported EXCEPT ![s] = NoStatus]
    /\ UNCHANGED box

(* An ATC restart: every result held in memory is lost; containers stay. *)
Restart ==
    /\ from' = [s \in Steps |-> NoId]
    /\ reported' = [s \in Steps |-> NoStatus]
    /\ UNCHANGED box

Init ==
    /\ box = [c \in Ids |-> [owner |-> NoStep, proc |-> "none", code |-> 0,
                             recorded |-> NoStatus]]
    /\ from = [s \in Steps |-> NoId]
    /\ reported = [s \in Steps |-> NoStatus]

Next ==
    \/ \E c \in Ids : \/ \E s \in Steps : Create(c, s) \/ Succeed(s, c)
                      \/ Start(c) \/ Lose(c)
                      \/ \E e \in ExitCodes : Exit(c, e)
    \/ \E s \in Steps : Forget(s)
    \/ Restart

Spec == Init /\ [][Next]_cvars

-----------------------------------------------------------------------------
(* Properties of the contract                                             *)

(* concourse:exit-status, once recorded, is the status the process exited *)
(* with (spec 8: the property equals str(E) until the container's TTL).   *)
RecordedIsExitCode ==
    \A c \in Ids : box[c].recorded # NoStatus =>
        box[c].proc = "exited" /\ box[c].recorded = box[c].code

(* A step that returned success returned the recorded exit status of a   *)
(* container it owns: running it again against that container yields the *)
(* same outcome (spec 8, recovery via task-exit-status).                  *)
ReportedOwnExit ==
    \A s \in Steps : from[s] # NoId =>
        /\ from[s] \in Ids
        /\ box[from[s]].owner = s
        /\ box[from[s]].proc = "exited"
        /\ box[from[s]].code = reported[s]
        /\ box[from[s]].recorded = reported[s]

(* Spec 3: a container's task-exit-status property, once set, is         *)
(* immutable.                                                             *)
RecordedImmutable ==
    [][\A c \in Ids : box[c].recorded # NoStatus =>
                          box'[c].recorded = box[c].recorded]_cvars

-----------------------------------------------------------------------------
(* Proofs                                                                 *)

(* The contract's inductive invariant.                                    *)
ContractInv == TypeOK /\ RecordedIsExitCode /\ ReportedOwnExit

(* What an Exit step does to the boxes, field by field.                 *)
LEMMA ExitFields ==
    ASSUME TypeOK, NEW c \in Ids, NEW e \in ExitCodes, Exit(c, e)
    PROVE  /\ box' \in [Ids -> Box]
           /\ box'[c].owner = box[c].owner /\ box'[c].proc = "exited"
           /\ box'[c].code = e /\ box'[c].recorded = box[c].recorded
           /\ \A d \in Ids \ {c} : box'[d] = box[d]
BY DEF Exit, TypeOK, Box, ProcStates

(* Every step of the contract keeps ContractInv: a container is exited   *)
(* before its status is recorded or reported, its status never changes  *)
(* after the exit, and a container has one owner, so no other step's     *)
(* result can point at it.                                                 *)
LEMMA ContractNext ==
    ASSUME TaskContainersAssumption, ContractInv, [Next]_cvars
    PROVE  ContractInv'
<1> USE DEF TaskContainersAssumption, ContractInv, TypeOK, Box, ProcStates
<1>1. ASSUME NEW c \in Ids, NEW s \in Steps, Create(c, s) PROVE ContractInv'
  BY <1>1 DEF Create, RecordedIsExitCode, ReportedOwnExit
<1>2. ASSUME NEW c \in Ids, NEW s \in Steps, Succeed(s, c) PROVE ContractInv'
  BY <1>2 DEF Succeed, RecordedIsExitCode, ReportedOwnExit
<1>3. ASSUME NEW c \in Ids, Start(c) PROVE ContractInv'
  BY <1>3 DEF Start, RecordedIsExitCode, ReportedOwnExit
<1>4. ASSUME NEW c \in Ids, Lose(c) PROVE ContractInv'
  BY <1>4 DEF Lose, RecordedIsExitCode, ReportedOwnExit
<1>5. ASSUME NEW c \in Ids, NEW e \in ExitCodes, Exit(c, e) PROVE ContractInv'
  <2>1. /\ box' \in [Ids -> Box]
        /\ box'[c].owner = box[c].owner /\ box'[c].proc = "exited"
        /\ box'[c].code = e /\ box'[c].recorded = box[c].recorded
        /\ \A d \in Ids \ {c} : box'[d] = box[d]
    BY <1>5, ExitFields
  <2>2. box[c].recorded = NoStatus /\ \A s \in Steps : from[s] # c
    BY <1>5 DEF Exit, RecordedIsExitCode, ReportedOwnExit
  <2>3. QED
    BY <1>5, <2>1, <2>2 DEF Exit, RecordedIsExitCode, ReportedOwnExit
<1>6. ASSUME NEW s \in Steps, Forget(s) PROVE ContractInv'
  BY <1>6 DEF Forget, RecordedIsExitCode, ReportedOwnExit
<1>7. CASE Restart
  BY <1>7 DEF Restart, RecordedIsExitCode, ReportedOwnExit
<1>8. CASE UNCHANGED cvars
  BY <1>8 DEF cvars, RecordedIsExitCode, ReportedOwnExit
<1>9. QED
  BY <1>1, <1>2, <1>3, <1>4, <1>5, <1>6, <1>7, <1>8 DEF Next

(* Every behaviour of the contract keeps a recorded exit status equal to *)
(* the status the process exited with, and a step's success pointing at *)
(* an exited container it owns, whose recorded status it reported.       *)
THEOREM ContractInvariant ==
    ASSUME TaskContainersAssumption
    PROVE  Spec => []ContractInv
<1>1. Init => ContractInv
  BY DEF Init, ContractInv, TypeOK, Box, ProcStates, TaskContainersAssumption,
     RecordedIsExitCode, ReportedOwnExit
<1>2. ContractInv /\ [Next]_cvars => ContractInv'
  BY ContractNext
<1>3. QED
  BY <1>1, <1>2, PTL DEF Spec

(* Under the contract, concourse:exit-status once recorded never changes: *)
(* only Succeed writes it, with the code of an exited process, which is   *)
(* by RecordedIsExitCode the status already recorded (spec 3).            *)
THEOREM ContractRecordedImmutable ==
    ASSUME TaskContainersAssumption
    PROVE  Spec => RecordedImmutable
<1>1. ContractInv /\ [Next]_cvars =>
        [\A c \in Ids : box[c].recorded # NoStatus =>
                          box'[c].recorded = box[c].recorded]_cvars
  <2> SUFFICES ASSUME ContractInv, [Next]_cvars, NEW c \in Ids,
                      box[c].recorded # NoStatus
               PROVE  box'[c].recorded = box[c].recorded
    OBVIOUS
  <2> USE DEF ContractInv, TypeOK, Box
  <2>1. box[c].proc = "exited" /\ box[c].recorded = box[c].code
    BY DEF RecordedIsExitCode
  <2>2. ASSUME NEW d \in Ids, NEW e \in ExitCodes, Exit(d, e)
        PROVE  box'[c].recorded = box[c].recorded
    <3>1. d # c
      BY <2>1, <2>2 DEF Exit
    <3>2. QED
      BY <2>2, <3>1, ExitFields
  <2>3. ASSUME NEW d \in Ids, Start(d) \/ Lose(d)
        PROVE  box'[c].recorded = box[c].recorded
    BY <2>1, <2>3 DEF Start, Lose
  <2>4. ASSUME NEW d \in Ids, NEW s \in Steps, Create(d, s) \/ Succeed(s, d)
        PROVE  box'[c].recorded = box[c].recorded
    BY <2>1, <2>4 DEF Create, Succeed
  <2>5. QED
    BY <2>2, <2>3, <2>4 DEF Next, Forget, Restart, cvars
<1>2. QED
  BY <1>1, ContractInvariant, PTL DEF Spec, RecordedImmutable
=============================================================================
