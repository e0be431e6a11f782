SPECIFICATION TableSpec
CONSTANTS
    Thread = {ev, t1, t2}
    EvThread = ev
    MaxHandlers = 2
    Callback = {c1}
    Arg = {x1, x2}
    DefaultCb = DefaultCb
    Stdout = Stdout
    NoCb = NoCb
    NoArg = NoArg
    CallbackApi = FALSE
    SemaMayFail = TRUE
INVARIANTS
    TableTypeOK
    TableConsistent
    ResultsHold
    RunningIsRegistered
    HolderRuns
PROPERTY
    TableRefinesRegistry
    CallsReturn
