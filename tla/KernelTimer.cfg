SPECIFICATION LibSpec
CONSTANTS
    NENV = 2
    NCPU = 2
    BSP = 0
    GENINC = 2
    IDLIM = 4
    NBOOT = 1
    NULL = NULL
INVARIANT
    TimerAcknowledged
