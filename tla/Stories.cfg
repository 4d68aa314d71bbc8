CONSTANTS
    s1 = s1
    s2 = s2
    owl = owl
    fox = fox
    None = None
    Story <- MCStory
    Companion <- MCCompanion
    Threshold <- MCThreshold
    Beats = 1
    MaxChunks = 1
SPECIFICATION Spec
SYMMETRY Symmetry
INVARIANTS TypeOK DueAreUnlocked NoDoubleReport
PROPERTY ImplementsPromise
CHECK_DEADLOCK FALSE
