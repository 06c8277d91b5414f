CONSTANTS
    Workers <- MCWorkers
    TeamWorkers <- MCNoTeam
    Inputs <- MCInputs
    Keys <- MCKeys
    Reqs <- MCBuildReqs
    ReqKind <- MCBuildKind
    ReqKey <- MCBuildKey
    MaxContainers = 1
    NoReq = NoReq
    NoWorker = NoWorker
    NoCont = NoCont

SPECIFICATION Spec
INVARIANT TieLoopIsMostInputs
PROPERTY PoolImplementsPlacement
PROPERTY AllCallsReturn
