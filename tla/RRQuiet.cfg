SPECIFICATION CooperativeSpec
CONSTANTS
    t1 = t1
    t2 = t2
    t3 = t3
    Thread = {t1, t2, t3}
    Null = Null
    First = t1
    Added <- AddedThreads
    Slots = 4
    Hz = 2
    Terminating = {t1, t2}
    Preemptible = {"body"}
INVARIANTS EoiOwed NoAbort MaskedOnlyToStart
PROPERTIES ImplementsRoundRobin EveryThreadRuns TimerNeverDies
