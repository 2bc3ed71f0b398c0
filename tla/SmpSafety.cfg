SPECIFICATION Spec
CONSTANTS
    NCPU = 3
    MMIOPAGES = 3
    NULL = NULL
    Tables <- MCTables
INVARIANTS
    TypeOK
    NeverPanics
    StacksDistinct
    MmioDistinct
PROPERTIES
    BootFinishes
    LockReleased
    ImplementsBigLock
