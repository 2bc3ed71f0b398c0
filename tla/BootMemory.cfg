SPECIFICATION Spec
CONSTANTS
    PGSIZE = 8
    NPTENTRIES = 32
    NPDENTRIES = 10
    KERNTABLES = 2
    IOPHYSMEM = 32
    EXTPHYSMEM = 48
    MPENTRY_PADDR = 16
    NCPU = 3
    KSTKSIZE = 8
    KSTKGAP = 8
    PAGEINFO = 1
    ENVS = 12
    Machines <- MCMachines
    KernelEnds <- MCKernelEnds
    Programs <- MCPrograms
INVARIANTS
    PagesAccounted
    AddressSpaces
    EarlyWritesMapped
CHECK_DEADLOCK FALSE
