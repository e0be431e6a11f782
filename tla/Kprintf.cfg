SPECIFICATION KSpec
CONSTANTS
    Thread = {ev, t1}
    EvThread = ev
    MaxHandlers = 2
    Callback = {c1}
    Arg = {x1}
    DefaultCb = DefaultCb
    Stdout = Stdout
    NoCb = NoCb
    NoArg = NoArg
    CallbackApi = TRUE
    SemaMayFail = TRUE
    Addr = {a1, a2, a3}
    Body = {b1}
    NULL = NULL
    NoMsg = NoMsg
    ModuleStops = TRUE
    OtherModules = FALSE
INVARIANTS
    KTypeOK
    NoLostWakeup
    StopDrained
    StopRequestKept
    ObjectsLive
PROPERTIES
    KeepsPort
    AnswerIsFinal
CHECK_DEADLOCK FALSE
