SPECIFICATION Spec
CONSTANTS
    kernelPool = kernelPool
    processPool = processPool
    Pool = {kernelPool, processPool}
    NoPool = NoPool
    OwnInfo = {kernelPool}
    Base <- BaseOf
    Size <- SizeOf
    MaxRequest = 3
INVARIANTS FreeCount ChainComplete LoopsCompute
PROPERTY ImplementsAllocator
