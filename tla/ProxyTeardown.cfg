\* Liveness of the inactivity-timeout teardown, as libproxy drives the
\* server: one Start, no Stop, no Lua hooks, the session replaced once.
CONSTANTS
    Clients = {c1, c2}
    Injects = {i1}
    MaxSessions = 2
    MaxClientSends = 2
    MaxServerSends = 1
    MaxStarts = 1
    MaxStops = 0
    MaxScripts = 0
    LuaYields = FALSE
    LuaHooks = FALSE
    DialMayFail = TRUE
    Capture = FALSE
SPECIFICATION Spec
PROPERTY TeardownCompletes
PROPERTY RepliesRead
CHECK_DEADLOCK FALSE
