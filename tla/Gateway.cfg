CONSTANTS
    c1 = c1
    c2 = c2
    Call <- MCCall
    FailureThreshold = 2
    CostThreshold = 1
    TokenBudget = 3
    ResetTicks = 2
    MaxCalls = 3
SPECIFICATION FairSpec
INVARIANTS TypeOK OverrunBounded FreshStart
PROPERTY CallsEnd
CHECK_DEADLOCK FALSE
