SPECIFICATION KpSpec
CONSTANTS
    Policies <- SmallPolicies
    Alerts <- SmallAlerts
    MAX_INCIDENTS = 2
    MAX_REPEAT = 2
    MAX_CHILDREN = 1
    TIMEOUT = 1
    GRACE = 1
    SLOTS = 2
    SEQ = 8
    FirstSeq = 7
    USE_NOTIFY = TRUE
    MaxAlerts = 3
    MaxAcks = 1
INVARIANTS EscalatesOnceWhenDue ForgedSteersNothing
PROPERTIES AckedStaysQuiet UnackedEscalates
