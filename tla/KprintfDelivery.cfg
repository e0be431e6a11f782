SPECIFICATION KSpec
CONSTANTS
    Thread = {ev, t1}
    EvThread = ev
    MaxHandlers = 2
    Callback = {c1}
    Arg = {x1}
    DefaultCb = DefaultCb
    Stdout = Stdout
    NoCb = NoCb
    NoArg = NoArg
    CallbackApi = FALSE
    SemaMayFail = FALSE
    Addr = {a1, a2}
    Body = {b1, b2}
    NULL = NULL
    NoMsg = NoMsg
    ModuleStops = FALSE
    OtherModules = TRUE
PROPERTIES
    FifoQueue
    KeepsService
CHECK_DEADLOCK FALSE
