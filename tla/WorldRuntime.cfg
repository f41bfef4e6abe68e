SPECIFICATION Spec
CONSTANT HardStallFailStreak = 2
INVARIANTS
    LiveWorldHasDatabases
    ReadyMeansTicked
    StoppedMeansOver
PROPERTIES
    BootSettles
    StopEndsWorker
    VerbsReturn
