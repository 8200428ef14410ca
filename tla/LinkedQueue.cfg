CONSTANTS
    Element = {t1, t2}
    NoElement = null
    FirstFrame = 10
    NodeSize = 2
    ObjectSizes = {3}
    MaxAddress = 26
SPECIFICATION QueueSpec
CHECK_DEADLOCK FALSE
INVARIANTS Linked
PROPERTIES ImplementsQueue
