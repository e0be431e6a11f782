SPECIFICATION BufSpec
CONSTANTS
    MaxHandlers = 2
    BufSz = 3
    AutoNewline = TRUE
    WriteKprintf = TRUE
    WritePrintf = FALSE
INVARIANT
    InBuffer
