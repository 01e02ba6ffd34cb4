SPECIFICATION Spec
CONSTANTS
    p1 = p1
    p2 = p2
    s1 = s1
    s2 = s2
    Profile = {p1, p2}
    Service = {s1, s2}
    State = {x1}
    Task = {t1, t2}
    Ops <- VaultOps
    SeedSecrets <- EmptyVault
    MaxProfiles = 1
    MaxConnections = 1
    AccessTtl = 1
    Margin = 1
    StateTtl = 1
    Lossy = TRUE
    None = None
    MaxTime = 1
    MaxTokens = 2
SYMMETRY MCSymmetry
INVARIANTS
    TypeOK
    FormLoginsStayInForms
    StateRedeemedOnce
