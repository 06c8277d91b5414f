CONSTANTS
    Steps = {s1, s2}
    Workers <- MCWorkers
    TeamWorkers <- MCTeamWorkers
    VolumeWorkers <- MCWorkers
    Inputs <- MCInputs
    Outputs <- MCOutputs
    ExitCodes <- MCExitCodes
    MaxContainers = 1
    MaxCrashes = 1
    MaxLookupErrors = 0
    SourceName = SourceName
    NoStep = NoStep
    NoWorker = NoWorker
    NoStatus = NoStatus
    NoSource = NoSource

SYMMETRY StepSymmetry
SPECIFICATION Spec
INVARIANT TypeOK
INVARIANT ExitStatusRecordedFaithfully
INVARIANT SucceededReportsProcessStatus
INVARIANT SucceededImpliesOutputsRegistered
