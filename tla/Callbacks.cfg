SPECIFICATION CbSpec
CONSTANT
    MaxSetups = 3
INVARIANTS
    CbTypeOK
    KillCleans
    UserPair
    ExitHeard
PROPERTIES
    KillReturns
    ExitServed
CHECK_DEADLOCK FALSE
