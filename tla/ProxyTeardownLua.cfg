\* The same teardown with Lua onSend/onRecv hooks installed.
CONSTANTS
    Clients = {c1}
    Injects = {i1}
    MaxSessions = 1
    MaxClientSends = 1
    MaxServerSends = 1
    MaxStarts = 1
    MaxStops = 0
    MaxScripts = 0
    LuaYields = FALSE
    LuaHooks = TRUE
    DialMayFail = FALSE
    Capture = FALSE
SPECIFICATION Spec
PROPERTY TeardownCompletes
CHECK_DEADLOCK FALSE
