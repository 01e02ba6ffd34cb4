SPECIFICATION Spec
CONSTANTS
    Idle = 3
    Absolute = 6
    Cap = 2
    Day = 2
    IdleDaysMax = 4
    AbsoluteDaysMax = 4
    SessionsMax = 4
    Missing = Missing
    Garbage = Garbage
    Refused = Refused
    Unknown = Unknown
    Service = {s1}
    State = {x1}
    Task = {t1, t2}
    Choices <- MCChoices
    Damaged <- MCDamaged
    Threshold = 1
    MaxPending = 1
    MaxRequests = 3
SYMMETRY MCSymmetry
INVARIANTS
    
    StampWithinDeployment
PROPERTIES
    NoUnprovenChange
