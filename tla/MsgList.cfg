SPECIFICATION MsgSpec
CONSTANTS
    Addr = {a1, a2, a3}
    Body = {b1, b2}
    NULL = NULL
    NoMsg = NoMsg
INVARIANTS
    MsgTypeOK
    MsgShape
    NoUseAfterFree
PROPERTY
    FifoQueue
