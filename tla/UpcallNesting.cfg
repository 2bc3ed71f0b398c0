SPECIFICATION Spec
CONSTANTS
    USTACKTOP = 4
    UXBASE = 10
    UXSTACKTOP = 32
INVARIANTS
    StackSafe
PROPERTIES
    ResumesWhereTrapped
CHECK_DEADLOCK FALSE
