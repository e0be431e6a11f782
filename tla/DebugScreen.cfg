SPECIFICATION ScrSpec
CONSTANTS
    MX = 5
    MY = 2
    Base = {b1}
    Default = b1
    MaxX = 9
INVARIANTS
    ScrTypeOK
    CursorOnScreen
    RestIsBlank
