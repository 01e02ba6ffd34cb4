SPECIFICATION Spec
CONSTANTS
    o = o
    a = a
    b = b
    OWNER = OWNER
    AUDITOR = AUDITOR
    MANAGER = MANAGER
    EDITOR = EDITOR
    Account = {o, a, b}
    RoleName = {OWNER, AUDITOR, MANAGER, EDITOR}
    Permission <- MCPermission
    Builtin <- MCBuiltin
    Staff = {a, b}
    SeedRoles <- MCRoles
    SeedHeld <- MCHeld
    Wanted <- MCWanted
    Task = {t1, t2}
    MaxHeld = 2
    MaxEntries = 1
SYMMETRY MCSymmetry
INVARIANTS
    TypeOK
    NoEscalation
    HeldRolesExist
    BuiltinsIntact
CHECK_DEADLOCK FALSE
