SPECIFICATION Spec
CONSTANTS
    t1 = t1
    t2 = t2
    t3 = t3
    Thread = {t1, t2, t3}
    Null = Null
    First = t1
    Added <- AddedThreads
    Slots = 6
    Hz = 2
    Terminating = {}
    Preemptible = {"body", "yield"}
INVARIANT NoThreadLost
CHECK_DEADLOCK FALSE
