SPECIFICATION QueueSpec
CONSTANTS
    Slots = 4
    Thread = {t1, t2}
    Null = Null
INVARIANTS SizeCounts
PROPERTY ImplementsFIFO
