SPECIFICATION FairSpec
CONSTANTS
    Scope <- MCScope
    Caller = {c1}
    Limit <- MCLimit
    Window <- MCWindow
    SweptScope = {"login"}
    ResetScope = {"login"}
    HistoryCap = 3
    MaxTime = 3
    MaxAttempts = 4
INVARIANTS
    TypeOK
    ExactVerdicts
PROPERTIES
    CallersAreForgotten
