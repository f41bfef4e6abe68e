SPECIFICATION Spec
CONSTANTS
    Devices = {"legacy"}
    Faults = {"cutcommit"}
    MaxFaults = 1
    MaxManifest = 1
    MaxUser = 1
    MaxSteps = 12
INVARIANTS
    UserStateSurvives
