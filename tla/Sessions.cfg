SPECIFICATION Spec
CONSTANTS
    a1 = a1
    a2 = a2
    a3 = a3
    e1 = e1
    e2 = e2
    p1 = p1
    p2 = p2
    Account <- MCAccount
    Email <- MCEmail
    Password <- MCPassword
    OWNER = OWNER
    MEMBER = MEMBER
    Role = {OWNER, MEMBER}
    SessionId = {s1, s2, s3}
    GrantId = {g1}
    None = None
    Task = {t1, t2}
    Seed <- OwnerAndMember
    Prefs <- TwoPrefs
    Ops <- SessionOps
    Threshold = 2
    Lockout = 1
    InviteTtl = 2
    ResetTtl = 2
    MaxFailures = 0
    MaxTime = 3
SYMMETRY MCSymmetry
INVARIANTS
    TypeOK
    NoOrphanRows
    SessionLimitsHold
PROPERTIES
    EndedSessionsStayEnded
