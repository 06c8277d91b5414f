CONSTANTS
    Steps = {s1}
    Workers <- MCWorkers
    TeamWorkers <- MCTeamWorkers
    VolumeWorkers <- MCWorkers
    Inputs <- MCInputs
    Outputs <- MCOutputs
    ExitCodes <- MCExitCodes
    MaxContainers = 1
    MaxCrashes = 1
    MaxLookupErrors = 1
    SourceName = SourceName
    NoStep = NoStep
    NoWorker = NoWorker
    NoStatus = NoStatus
    NoSource = NoSource

SPECIFICATION Spec
PROPERTY CancellationReturns
