SPECIFICATION Spec
CONSTANTS
    s1 = s1
    s2 = s2
    Service = {s1, s2}
    GrantId = {g1, g2}
    Task = {t1, t2}
    Configs <- MCConfigs
    AccessTtl = 1
    GrantTtl = 2
    Ttls = {3}
    Visited = {s1}
    Asked = {{s2}}
    MaxGrants = 1
    None = None
    MaxTime = 3
    MaxTokens = 2
SYMMETRY MCSymmetry
INVARIANTS
    TypeOK
    NoTokenExceedsItsSource
    WithdrawalTakesHold
