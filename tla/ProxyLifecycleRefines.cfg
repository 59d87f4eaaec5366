\* The run state and session slot, as IsRunning and IsConnected show them,
\* against ServerLifecycle: two clients (replacement), one run that ends
\* by the inactivity timeout.
CONSTANTS
    Clients = {c1, c2}
    Injects = {i1}
    MaxSessions = 2
    MaxClientSends = 2
    MaxServerSends = 1
    MaxStarts = 1
    MaxStops = 0
    MaxScripts = 0
    LuaYields = FALSE
    LuaHooks = FALSE
    DialMayFail = TRUE
    Capture = FALSE
SPECIFICATION Spec
PROPERTY RefinesLifecycle
CHECK_DEADLOCK FALSE
