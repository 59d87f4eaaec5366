----------------------------- MODULE UidSession -----------------------------
(***************************************************************************)
(* What the proxy promises about the 3-byte session UID of one client     *)
(* session (spec 4.4, invariant 2 and testable property 6): the UID is     *)
(* absent until it is confirmed, it is confirmed at most once, and the     *)
(* value confirmed is a non-sentinel UID that the downstream client sent   *)
(* and that the upstream server then echoed.  Nothing here says how the   *)
(* proxy remembers the candidate; UidTracker is the detailed version.      *)
(***************************************************************************)
CONSTANTS
    Uids,       \* the non-sentinel 3-byte UIDs, as model values
    Sentinel,   \* the UID 00 00 00, "no session yet"
    None        \* an absent []byte (nil)

VARIABLES
    confirmed,   \* the confirmed UID, or None
    fromClient,  \* UIDs seen in send-direction datagrams of this session
    fromServer   \* UIDs seen in recv-direction datagrams of this session

vars == <<confirmed, fromClient, fromServer>>

AllUids == Uids \cup {Sentinel}

Init ==
    /\ confirmed = None
    /\ fromClient = {}
    /\ fromServer = {}

\* The client sends a datagram carrying u: the confirmed UID never moves.
ClientSends(u) ==
    /\ fromClient' = fromClient \cup {u}
    /\ UNCHANGED <<confirmed, fromServer>>

\* The server sends a datagram carrying u; if no UID is confirmed yet and
\* the client already used u, the proxy may confirm u.
ServerSends(u) ==
    /\ fromServer' = fromServer \cup {u}
    /\ \/ confirmed' = confirmed
       \/ /\ confirmed = None
          /\ u \in fromClient \ {Sentinel}
          /\ confirmed' = u
    /\ UNCHANGED fromClient

Next == \E u \in AllUids : ClientSends(u) \/ ServerSends(u)

Spec == Init /\ [][Next]_vars
=============================================================================
