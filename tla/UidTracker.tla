----------------------------- MODULE UidTracker -----------------------------
(***************************************************************************)
(* Session-UID tracking of one clientSess (src/proxy/client_sess.go) and   *)
(* the two readers of it that the Lua runtime offers                       *)
(* (src/proxy/lua.go: ioannes.encode and ioannes.session.uid).            *)
(*                                                                         *)
(* processSendPkt runs on the listener loop (L1) and processRecvPkt on the *)
(* upstream reader loop (L2); both hold clientSess.mutex for their whole   *)
(* body, so each is one atomic step.  luaApiEncode runs on the Lua task   *)
(* runner and reads uid and pendingUid without the mutex, one field at a  *)
(* time: it is two steps, and L1/L2 steps may fall between them.          *)
(*                                                                         *)
(* A datagram is abstracted to the UID in its first three bytes; one whose *)
(* HMAC fails to verify makes DeserializeUNetPacket return an error and   *)
(* leaves the tracker unchanged, so it is a stuttering step and omitted.  *)
(***************************************************************************)
EXTENDS Naturals, FiniteSets

CONSTANTS
    Uids,          \* non-sentinel UIDs (model values)
    Sentinel,      \* the UID {0,0,0}
    None,          \* nil []byte
    MaxDatagrams,  \* bound on the datagrams of each direction
    MaxEncodes     \* bound on ioannes.encode calls

ASSUME Sentinel \notin Uids /\ None \notin Uids \cup {Sentinel}
ASSUME MaxDatagrams \in Nat /\ MaxEncodes \in Nat

VARIABLES
    uid,          \* clientSess.uid
    pendingUid,   \* clientSess.pendingUid
    nSend,        \* send-direction datagrams processed (bound)
    nRecv,        \* recv-direction datagrams processed (bound)
    clientSent,   \* history: UIDs the client sent
    serverSent,   \* history: UIDs the server sent
    encPc,        \* "idle" or "readUid": luaApiEncode between its two reads
    encUid,       \* the value luaApiEncode read from clientSess.uid
    nEnc,         \* ioannes.encode calls made (bound)
    encOut        \* the UID the last encode call chose, or None

vars == <<uid, pendingUid, nSend, nRecv, clientSent, serverSent,
          encPc, encUid, nEnc, encOut>>

AllUids == Uids \cup {Sentinel}

Init ==
    /\ uid = None
    /\ pendingUid = None
    /\ nSend = 0
    /\ nRecv = 0
    /\ clientSent = {}
    /\ serverSent = {}
    /\ encPc = "idle"
    /\ encUid = None
    /\ nEnc = 0
    /\ encOut = None

(***************************************************************************)
(* processSendPkt: a datagram from the client carrying u.  The first      *)
(* non-sentinel UID seen while nothing is known becomes the candidate.    *)
(***************************************************************************)
ProcessSendPkt(u) ==
    /\ nSend < MaxDatagrams
    /\ nSend' = nSend + 1
    /\ clientSent' = clientSent \cup {u}
    /\ pendingUid' = IF uid = None /\ pendingUid = None /\ u # Sentinel
                     THEN u ELSE pendingUid
    /\ UNCHANGED <<uid, nRecv, serverSent, encPc, encUid, nEnc, encOut>>

\* A processRecvPkt that promotes any non-sentinel UID, echoed or not.
ProcessRecvPktAnyUid(u) ==
    /\ nRecv < MaxDatagrams
    /\ nRecv' = nRecv + 1
    /\ serverSent' = serverSent \cup {u}
    /\ IF uid = None /\ pendingUid # None /\ u # Sentinel
       THEN /\ uid' = u
            /\ pendingUid' = None
       ELSE UNCHANGED <<uid, pendingUid>>
    /\ UNCHANGED <<nSend, clientSent, encPc, encUid, nEnc, encOut>>

(***************************************************************************)
(* processRecvPkt: a datagram from the server carrying u.  With a         *)
(* candidate pending and no confirmed UID, a non-sentinel u confirms the  *)
(* candidate when equal and rejects it otherwise; either way the          *)
(* candidate is cleared.                                                  *)
(***************************************************************************)
ProcessRecvPkt(u) ==
    /\ nRecv < MaxDatagrams
    /\ nRecv' = nRecv + 1
    /\ serverSent' = serverSent \cup {u}
    /\ IF uid = None /\ pendingUid # None /\ u # Sentinel
       THEN /\ uid' = IF u = pendingUid THEN u ELSE uid
            /\ pendingUid' = None
       ELSE UNCHANGED <<uid, pendingUid>>
    /\ UNCHANGED <<nSend, clientSent, encPc, encUid, nEnc, encOut>>

(***************************************************************************)
(* luaApiEncode with no "uid" field: first read of clientSess.uid ...     *)
(***************************************************************************)
EncodeReadUid ==
    /\ encPc = "idle"
    /\ nEnc < MaxEncodes
    /\ nEnc' = nEnc + 1
    /\ encPc' = "readUid"
    /\ encUid' = uid
    /\ UNCHANGED <<uid, pendingUid, nSend, nRecv, clientSent, serverSent,
                   encOut>>

(* ... then, if that was nil, a separate read of clientSess.pendingUid.   *)
EncodeReadPending ==
    /\ encPc = "readUid"
    /\ encPc' = "idle"
    /\ encOut' = IF encUid # None THEN encUid
                 ELSE IF pendingUid # None THEN pendingUid
                 ELSE Sentinel
    /\ UNCHANGED <<uid, pendingUid, nSend, nRecv, clientSent, serverSent,
                   encUid, nEnc>>

Next ==
    \/ \E u \in AllUids : ProcessSendPkt(u)
    \/ \E u \in AllUids : ProcessRecvPkt(u)
    \/ EncodeReadUid
    \/ EncodeReadPending

Spec == Init /\ [][Next]_vars

-----------------------------------------------------------------------------
(***************************************************************************)
(* The tracker implements UidSession: processSendPkt/processRecvPkt only  *)
(* ever confirm a non-sentinel UID the client sent and the server then    *)
(* echoed, confirm at most once, and never change a confirmed UID         *)
(* (spec invariant 2, testable property 6).                               *)
(***************************************************************************)
Abstract == INSTANCE UidSession
    WITH confirmed <- uid, fromClient <- clientSent, fromServer <- serverSent

UidRefinesSession == Abstract!Spec
=============================================================================
