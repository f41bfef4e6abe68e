SPECIFICATION MonitoredSpec
CONSTANTS
    Sessions = {s1, s2, s3, s4, s5, s6}
    Tokens = {t1, t2, t3, t4}
    NoSession = NoSession
    NoToken = NoToken
    NoOwner = NoOwner
    NoSnapshot = NoSnapshot
    TransferVerb = TransferVerb
    Modes = {"LOCAL", "LAN_JOIN"}
    Verbs = {"start", "stop", "recover", "relaunch", "companion", "monitor", "preflight"}
    Faults = {"boot", "project", "stop", "kill", "save", "die", "preflight", "journal", "observe", "companion"}
    MaxFaults = 2
    GraceTicks = 2
INVARIANTS
    CleanMeansAtRest
    CleanHoldsNoClaim
    LivePhaseIsBacked
    RelaunchFindsNoClaim
    SavedBeforeClean
PROPERTIES
    TeardownOrder
    OperationsEnd
    DeadWorldIsNoticed
    SessionsNeverMeet
    LaunchedWorldTicks
