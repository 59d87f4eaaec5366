\* libproxy's packet capture on, no Lua hooks: one client, one run that
\* ends by the inactivity timeout while the upstream reader is forwarding.
CONSTANTS
    Clients = {c1}
    Injects = {i1}
    MaxSessions = 1
    MaxClientSends = 1
    MaxServerSends = 1
    MaxStarts = 1
    MaxStops = 0
    MaxScripts = 0
    LuaYields = FALSE
    LuaHooks = FALSE
    DialMayFail = FALSE
    Capture = TRUE
INIT Init
NEXT Next
INVARIANT CaptureNeverPanics
CHECK_DEADLOCK FALSE
