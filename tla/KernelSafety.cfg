SPECIFICATION FairLibSpec
CONSTANTS
    NENV = 3
    NCPU = 2
    BSP = 0
    GENINC = 3
    IDLIM = 6
    NBOOT = 1
    NULL = NULL
INVARIANTS
    TypeOK
    StatusMatchesCpu
    FreeListExact
    PgdirLive
    RecvBlocked
    MonitorOnlyWhenIdle
PROPERTIES
    ZombieFreedByItsCpu
    ImplementsCpuAssignment
    ZombieCollected
