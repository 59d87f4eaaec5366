\* Server.Stop on a running server with a connected client.
CONSTANTS
    Clients = {c1}
    Injects = {i1}
    MaxSessions = 1
    MaxClientSends = 1
    MaxServerSends = 1
    MaxStarts = 1
    MaxStops = 1
    MaxScripts = 0
    LuaYields = FALSE
    LuaHooks = FALSE
    DialMayFail = FALSE
    Capture = FALSE
SPECIFICATION Spec
PROPERTY StopReturns
CHECK_DEADLOCK FALSE
