-------------------------- MODULE ServerLifecycle --------------------------
(***************************************************************************)
(* What a proxy.Server promises about its run state and its session slot  *)
(* as the host sees them through IsRunning and IsConnected (spec 4.5 and   *)
(* 4.7): Idle -> Running -> Idle; while Running the slot holds at most    *)
(* one client and may be taken by a new one; teardown clears the run      *)
(* state, so an idle server holds no session and a new run starts empty.  *)
(***************************************************************************)
CONSTANTS
    Clients,  \* downstream client addresses
    None      \* the empty slot

VARIABLES
    state,   \* "idle" or "running"
    client   \* the client in the session slot, or None

vars == <<state, client>>

Init ==
    /\ state = "idle"
    /\ client = None

\* start from Idle.
Start ==
    /\ state = "idle"
    /\ state' = "running"
    /\ UNCHANGED client

\* A datagram from c takes the slot (a new session, replacing any other).
Connect(c) ==
    /\ state = "running"
    /\ client' = c
    /\ UNCHANGED state

\* The slot is emptied while running (replacement, failed session setup).
Vacate ==
    /\ state = "running"
    /\ client' = None
    /\ UNCHANGED state

\* Teardown (timeout or stop): back to Idle with the run state cleared.
Teardown ==
    /\ state = "running"
    /\ state' = "idle"
    /\ client' = None

Next == Start \/ (\E c \in Clients : Connect(c)) \/ Vacate \/ Teardown

Spec == Init /\ [][Next]_vars
=============================================================================
