SPECIFICATION KSpec
CONSTANTS
    Thread = {ev}
    EvThread = ev
    MaxHandlers = 1
    Callback = {c1}
    Arg = {x1}
    DefaultCb = DefaultCb
    Stdout = Stdout
    NoCb = NoCb
    NoArg = NoArg
    CallbackApi = FALSE
    SemaMayFail = FALSE
    Addr = {a1, a2}
    Body = {b1}
    NULL = NULL
    NoMsg = NoMsg
    ModuleStops = TRUE
    OtherModules = TRUE
INVARIANT
    HandlerUnregistered
CHECK_DEADLOCK FALSE
