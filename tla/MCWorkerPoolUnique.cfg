CONSTANTS
    Workers <- MCWorkers
    TeamWorkers <- MCTeamWorkers
    Inputs <- MCInputs
    Keys <- MCKeys
    Reqs <- MCRerunReqs
    ReqKind <- MCRerunKind
    ReqKey <- MCRerunKey
    MaxContainers = 1
    NoReq = NoReq
    NoWorker = NoWorker
    NoCont = NoCont

SPECIFICATION Spec
INVARIANT BuildContainerUnique
