SPECIFICATION Spec
CONSTANTS
    Mod <- TwoMods
    ModName <- Names
    ModVersion <- Versions
    DenyParam <- Deny
    AllowParam <- Allow
    LIST_MAX = 2
    TEXT_MAX = 2
    MaxWrites = 1
    MaxLoads = 1
INVARIANT NoOrphanBaseline
