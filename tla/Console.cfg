SPECIFICATION ConsoleSpec
CONSTANTS
    Width = 3
    Height = 3
    Tab = 2
    Base = 3
    DigitCount = 2
    Largest = 8
    Letters = {65}
    Messages <- MessagesDef
    MaxSlip = 3
INVARIANTS
    NumbersRead
    WithinReach
PROPERTIES
    ShowsText
