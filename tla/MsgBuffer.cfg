SPECIFICATION BufSpec
CONSTANTS
    MaxHandlers = 3
    BufSz = 3
    AutoNewline = TRUE
    WriteKprintf = TRUE
    WritePrintf = FALSE
INVARIANTS
    BufTypeOK
    OverrunIsNewline
    Terminated
    StdoutLines
