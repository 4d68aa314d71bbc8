CONSTANTS
    i1 = i1
    i2 = i2
    e1 = e1
    e2 = e2
    cue = cue
    Instance <- MCInstance
    Event <- MCEvent
    Unfit <- MCUnfit
    BatchSize = 2
    MaxIds = 2
    Trim = 1
    MaxFailures = 0
SPECIFICATION Spec
CHECK_DEADLOCK FALSE
INVARIANTS EveryEventPersisted
