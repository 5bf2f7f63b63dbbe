SPECIFICATION WSpec
CONSTANTS
    Drv = {"a", "b", "c"}
    AtStart = {"b"}
    Digest <- DigestOf
    Setups <- ThreeSetups
    QUEUE_SIZE = 1
    MAX_BASELINE = 2
    MAX_HASHES = 1
    NoDrv = "nobody"
    Files <- SmallFiles
    CHECK = 1
    ENTRY = 2
    NoEntry = 0
    SLOTS = 2
    Thread = {t1, t2}
    MaxNotify = 3
    MaxRestarts = 1
    Nothing = Nothing
    Level = {0, 1}
    STORED_MAX = 2
    MaxAlerts = 3
    MaxClears = 1
    Cpu = {c1, c2}
    MaxTicks = 1
    Beginnings = {{"filter"}, {"text"}, {"crypto", "idt", "hook"}}
    Threats = {"vuln", "text"}
    MaxThreats = 1
    Kbd <- TwoKbds
    BaseOf <- Bases
    Filter = {"f1", "f2", "h"}
    DriverOf <- FilterDrivers
    Trusted = {"g"}
    WalkFrom = {"bottom", "top"}
    MAX_NEUTRALIZED = 2
    MAX_REPORTED = 1
    MaxAttach = 2
    MaxHeal = 1
    NoDev = "none"
    N = 3
    Machines <- SmallMachines
    ALERT_COUNT = 2
    MaxOverflows = 2
    None = None
INVARIANTS
    SemaphoreCountsQueue QueueThere DriversAnswered DigestCoversFile SerialChannelExact
     UnloadLeavesNothing StraysAreLateThreads 
    HandlersRestored  ProcessorsSetUp 
 
CHECK_DEADLOCK FALSE
