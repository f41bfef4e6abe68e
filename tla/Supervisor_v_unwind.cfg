SPECIFICATION Spec
CONSTANTS
    Sessions = {s1, s2, s3, s4, s5, s6}
    Tokens = {t1, t2, t3, t4}
    NoSession = NoSession
    NoToken = NoToken
    NoOwner = NoOwner
    NoSnapshot = NoSnapshot
    TransferVerb = TransferVerb
    Modes = {"LOCAL"}
    Verbs = {"start"}
    Faults = {"boot", "unobserved"}
    MaxFaults = 2
    GraceTicks = 2
INVARIANTS
    CleanMeansAtRest
