SPECIFICATION Spec
CONSTANT StallLimit = 3
INVARIANTS
    RealmStoppedIsOver
PROPERTIES
    DeadListenerIsNoticed
    RealmStopEndsWorker
    RealmVerbsReturn
