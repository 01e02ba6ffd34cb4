SPECIFICATION FairSpec
CONSTANTS
    p1 = p1
    p2 = p2
    s1 = s1
    s2 = s2
    Profile = {p1}
    Service = {s1}
    State = {x1}
    Task = {t1, t2}
    Ops <- RenewalOps
    SeedSecrets <- OneConnection
    MaxProfiles = 1
    MaxConnections = 1
    AccessTtl = 1
    Margin = 1
    StateTtl = 1
    Lossy = FALSE
    None = None
    MaxTime = 0
    MaxTokens = 4
INVARIANTS
    RenewalsTakeTurns
    RotatedTokenNotReplayed
PROPERTIES
    RequestsEnd
