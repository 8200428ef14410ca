SPECIFICATION FairSpec
CONSTANTS
    Lines = {0, 8}
    Faults = {0, 14}
    Hz = 2
    MaxTicks = 4
    MaxNesting = 3
INVARIANTS
    BackInMain
    ClockReading
PROPERTIES
    TimerServed
