CONSTANTS
    Workers <- MCWorkers
    TeamWorkers <- MCTeamWorkers
    Inputs <- MCInputs
    Keys <- MCKeys
    Reqs <- MCResourceReqs
    ReqKind <- MCResourceKind
    ReqKey <- MCResourceKey
    MaxContainers = 1
    NoReq = NoReq
    NoWorker = NoWorker
    NoCont = NoCont

SPECIFICATION Spec
INVARIANT TypeOK
PROPERTY PoolImplementsPlacement
PROPERTY AllCallsReturn
