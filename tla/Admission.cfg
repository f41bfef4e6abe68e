SPECIFICATION AdmissionSpec
CONSTANTS
    BotMin = 1
    BotMax = 2
    InitialTarget = 2
    Requests = {0, 1, 2}
    MaxEpoch = 6
INVARIANTS
    ReportedTargetIsNative
    FenceFollowsService
PROPERTIES
    TargetsFollowOwnership
    TargetSettles
    VerbsEnd
