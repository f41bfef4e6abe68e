SPECIFICATION Spec
CONSTANTS
    Devices = {"fresh", "legacy"}
    Faults = {"crash", "fail", "tear", "midupdate"}
    MaxFaults = 3
    MaxManifest = 3
    MaxUser = 3
    MaxSteps = 3
INVARIANTS
    UserStateSurvives
    SealsComeWhole
    PreparationIsBounded
PROPERTIES
    PreparationConverges
