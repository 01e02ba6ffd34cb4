SPECIFICATION Spec
CONSTANTS
    Request = {r1, r2}
    Migrations = 2
    Role = {owner, member}
    MaxPending = 1
    MaxBoots = 2
    MaxFaults = 2
INVARIANTS
    TypeOK
    SchemaIsWhatItSays
    AnswersAreTrue
    ClosedLast
    OneSigningKey
PROPERTIES
    ExpiredRowsGo
    ShutdownCompletes
