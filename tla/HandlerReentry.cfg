SPECIFICATION TableSpec
CONSTANTS
    Thread = {ev, t1}
    EvThread = ev
    MaxHandlers = 1
    Callback = {c1}
    Arg = {x1}
    DefaultCb = DefaultCb
    Stdout = Stdout
    NoCb = NoCb
    NoArg = NoArg
    CallbackApi = TRUE
    SemaMayFail = FALSE
PROPERTY
    CallsReturn
CHECK_DEADLOCK FALSE
