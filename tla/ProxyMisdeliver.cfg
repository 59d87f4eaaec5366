\* Two clients one after the other: where upstream replies are written.
CONSTANTS
    Clients = {c1, c2}
    Injects = {i1}
    MaxSessions = 2
    MaxClientSends = 2
    MaxServerSends = 2
    MaxStarts = 1
    MaxStops = 0
    MaxScripts = 0
    LuaYields = FALSE
    LuaHooks = FALSE
    DialMayFail = FALSE
    Capture = FALSE
INIT Init
NEXT Next
INVARIANT DeliveredToSessionClient
CHECK_DEADLOCK FALSE
