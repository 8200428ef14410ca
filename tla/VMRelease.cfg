SPECIFICATION Spec
CONSTANTS
    code = code
    heap = heap
    Pool = {code, heap}
    Base <- Bases
    PageSize = 2
    Space = 64
    Size = {1, 2}
    MaxRegions = 4
CHECK_DEADLOCK FALSE
INVARIANTS HeldIsLegitimate SoundUntilRelease
PROPERTY ReleaseKeepsOthers HangsOnlyBehindFirst
