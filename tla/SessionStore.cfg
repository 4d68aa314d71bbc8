CONSTANTS
    u1 = u1
    u2 = u2
    c1 = c1
    c2 = c2
    d1 = d1
    d2 = d2
    Nobody = Nobody
    User <- MCUser
    Client <- MCClient
    Data <- MCData
    Session = {s1}
    MaxHistory = 1
    TTL = 2
    MaxSteps = 2
SPECIFICATION Spec
SYMMETRY Symmetry
INVARIANTS TypeOK LookupBacked IndexCovers
PROPERTIES ImplementsVersions BornReachable
