CONSTANTS
    h1 = h1
    h2 = h2
    s1 = s1
    s2 = s2
    None = None
    NoSession = NoSession
    Handler <- MCHandler
    Suggestion <- MCSuggestion
    MaxAttempts = 2
    CriticalRate = 50
    MaxTurns = 2
SPECIFICATION Spec
SYMMETRY Symmetry
PROPERTIES SleepCueLeavesAsleep
