SPECIFICATION MCSpec
CONSTANTS
    Mod <- TwoMods
    ModName <- Names
    ModVersion <- Versions
    DenyParam <- Deny
    AllowParam <- Allow
    LIST_MAX = 2
    TEXT_MAX = 2
    MaxWrites = 1
    MaxLoads = 1
    NSLOT = 2
    Boot = {1}
    Id = {"x", "y"}
    Bridge = {}
    DmaAllow = {"y"}
    MAX_SUSPECT = 1
    HwEvents = 2
    Kbd = {"k"}
    Ptr = {"p", "q"}
    Name = {"evdev", "spy"}
    Stock = {"evdev"}
    MAX_HANDLES = 2
    MAX_BASE = 2
    MAX_REPORTED = 2
    KbdEvents = 3
INVARIANTS   VerifiesLoadedText  
PROPERTIES PersistentReported 
CHECK_DEADLOCK FALSE
