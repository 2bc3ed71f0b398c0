SPECIFICATION FairLibSpec
CONSTANTS
    NENV = 3
    NCPU = 1
    BSP = 0
    GENINC = 3
    IDLIM = 9
    NBOOT = 2
    NULL = NULL
PROPERTIES
    NewIdDiffers
    RunnableScheduled
