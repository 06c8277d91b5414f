CONSTANTS
    Workers <- MCWorkers
    TeamWorkers <- MCNoTeam
    Inputs <- MCInputs
    Keys <- MCKeys
    Reqs <- MCResourceReqs
    ReqKind <- MCResourceKind
    ReqKey <- MCResourceKey
    MaxContainers = 1
    NoReq = NoReq
    NoWorker = NoWorker
    NoCont = NoCont

SPECIFICATION Spec
PROPERTY GetFailsOnlyWhenAllFull
