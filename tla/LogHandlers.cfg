SPECIFICATION LogSpec
CONSTANTS
    LogMaxHandlers = 3
    Client = {c1, c2}
    NULL = NULL
INVARIANTS
    LogTypeOK
    CountMatches
    PrintReaches
    FlushReaches
    OwnArgument
PROPERTY
    LoopsEnd
