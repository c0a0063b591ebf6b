SPECIFICATION Spec
CONSTANTS
    w1 = w1
    w2 = w2
    w3 = w3
    a1 = a1
    a2 = a2
    s1 = s1
    s2 = s2
    Workers = {w1, w2, w3}
    Attempts = {a1, a2}
    Scopes = {s1, s2}
    AttemptOf <- RetryAttempts
    ScopeOf <- OneScope
    Leased = {s1}
    Shadow = {}
    Nobody = Nobody
    Forever = Forever
    LeaseTTL = 1
    MaxNow = 1
PROPERTY
    ExpiredRollsBack
