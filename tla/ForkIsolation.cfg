SPECIFICATION Spec
CONSTANTS
    Envs = {e1, e2, e3}
    Root = e1
    Pages = {p1, p2, p3, p4, p5}
    TextPage = p1
    DataPage = p2
    StackPage = p3
    MAXFORK = 2
    NULL = NULL
INVARIANTS
    ForkSafe
    CowHandled
PROPERTY ForkReturns
CHECK_DEADLOCK FALSE
