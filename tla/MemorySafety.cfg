SPECIFICATION LibMemSpec
CONSTANTS
    e1 = e1
    e2 = e2
    Envs = {e1, e2}
    CPUs = {c1, c2}
    NULL = NULL
    Page0 = Page0
    Pages = {Page0, p1, p2, p3, p4, p5, p6}
    NVA = 2
    NPT = 2
    REFMOD = 16
    Manages <- MCManages
SYMMETRY MCSymmetry
INVARIANTS
    RefCountExact
    TlbCoherent
    FreeIffUnreferenced
    DeadHoldNothing
CHECK_DEADLOCK FALSE
