CONSTANTS
    u1 = u1
    u2 = u2
    r1 = r1
    r2 = r2
    t1 = t1
    t2 = t2
    t3 = t3
    None = None
    User <- MCUser
    Request <- MCRequest
    ToolId <- MCToolId
    Session = {"s1"}
    Watched <- MCWatched
    MaxProcessed = 2
    s1 = s1
    s2 = s2
    v1 = v1
    Opening <- MCOpening
    NoUser = NoUser
    NoLive = NoLive
    NoCue = NoCue
    Full = 20
    Threshold = 17
    Reset = 16
    Loud = 1
    Moving = 2
    Wake = 6
    Base = 1
    BonusStep = 1
    BonusCap = 1
    StableGain = 1
    StableAfter = 1
    BreathingGain = 1
    BreathingAfter = 2
    Cooldown = 1
    MaxSilence = 3
    MaxRest = 4
    Horizon = 3
    MaxCues = 2
SPECIFICATION ApiSpec
SYMMETRY Symmetry
INVARIANTS TypeOK RetryRefused DuplicateExplained
INVARIANTS SentinelTypeOK RestAfterWaking
PROPERTIES RecordsAtHome Survives
PROPERTIES CooldownBetweenLoneCues CueNamesAPair
