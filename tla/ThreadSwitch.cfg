SPECIFICATION Spec
CONSTANTS
    Thread = {t1, t2}
    Null = null
    Depth = 30
    Data = {"zero", "one"}
CHECK_DEADLOCK FALSE
INVARIANTS
    NothingLeft
PROPERTIES
    ImplementsCoroutines
