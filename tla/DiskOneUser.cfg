SPECIFICATION FairSpec
CONSTANTS
    t1 = t1
    t2 = t2
    t3 = t3
    Thread = {t1, t2, t3}
    Null = Null
    First = t1
    Added <- AddedThreads
    Terminating = {t1, t3}
    Users = {t2}
    Quantum = 2
    Block = {b1, b2}
    NoBlock = NoBlock
    Words = 2
INVARIANTS EachThreadOnce OwnBlock
PROPERTIES ImplementsRoundRobin EveryThreadRuns OperationEnds
