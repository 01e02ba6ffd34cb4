SPECIFICATION Spec
CONSTANTS
    Task = {t1, t2}
    Signing = {k1, k2}
    Invented = {x}
    None = None
    CacheSeconds = 3
    MinRefetchSeconds = 2
    StaleGraceSeconds = 1
    Timeout = 1
    MaxTime = 5
SYMMETRY Interchangeable
INVARIANTS
    TypeOK
    WithdrawnKeysStopWorking
    
    LockIsHeldByTheLiving
PROPERTIES
    UnknownKeysAreNew
