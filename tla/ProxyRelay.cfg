\* Safety of one run of the relay engine: two clients (so the session is
\* replaced), failing dials, Lua hooks on both directions, injection in
\* both directions.
CONSTANTS
    Clients = {c1, c2}
    Injects = {i1, i2}
    MaxSessions = 2
    MaxClientSends = 3
    MaxServerSends = 1
    MaxStarts = 1
    MaxStops = 0
    MaxScripts = 0
    LuaYields = FALSE
    LuaHooks = TRUE
    DialMayFail = TRUE
    Capture = FALSE
INIT Init
NEXT Next
INVARIANT TypeOK
INVARIANT UpstreamFromSessionClient
INVARIANT InjectSendInOrder
INVARIANT AtMostOneOpenSession
\* Traffic is bounded, so every behaviour ends with the loops polling.
CHECK_DEADLOCK FALSE
