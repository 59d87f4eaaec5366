------------------------------- MODULE Proxy -------------------------------
(***************************************************************************)
(* The relay engine and lifecycle of one proxy.Server                     *)
(* (src/proxy/proxy.go, with FifoQueue from src/proxy/misc.go and the Lua *)
(* task runner of src/proxy/lua.go).                                      *)
(*                                                                         *)
(* Goroutines: L1, the listener loop started by Start; one L2 per session, *)
(* the upstream reader started by L1 when it creates the session; Lua, the *)
(* LState thread that runs script callbacks one task at a time.  The host *)
(* calls Start, Stop and InjectSend/InjectRecv.  Each action is the code   *)
(* between two accesses to state another goroutine shares.                *)
(*                                                                         *)
(* Datagrams are abstract: a client datagram is named by the client that  *)
(* sent it, an upstream datagram by the session whose socket received it, *)
(* an injected datagram by a model value.  Whether one decrypts and has a *)
(* valid HMAC is a nondeterministic choice; UID tracking is UidTracker's. *)
(* Time is abstract: the 15 s inactivity timeout may fire on any read     *)
(* deadline while a session exists.                                       *)
(***************************************************************************)
EXTENDS Naturals, Sequences, SequencesExt, FiniteSets

CONSTANTS
    Clients,         \* downstream client addresses (model values)
    Injects,         \* payloads the host may inject (model values)
    MaxSessions,     \* bound on clientSess records L1 creates
    MaxClientSends,  \* bound on datagrams the clients send
    MaxServerSends,  \* bound on datagrams the upstream server sends
    MaxStarts,       \* bound on calls of Server.Start
    MaxStops,        \* bound on calls of Server.Stop
    LuaHooks,        \* TRUE: Conf.LuaAutoExecScript is set; a script may
                     \* install ioannes.onSend and ioannes.onRecv
    MaxScripts,      \* bound on the host's proxy_execute_script calls
    LuaYields,       \* TRUE: a script or callback may coroutine.yield
    DialMayFail,     \* TRUE: net.DialUDP to serverAddr may fail
    Capture          \* TRUE: the libproxy host may turn packet capture on

ASSUME MaxSessions \in Nat \ {0} /\ MaxStarts \in Nat \ {0}
ASSUME {MaxClientSends, MaxServerSends, MaxStops, MaxScripts} \subseteq Nat
ASSUME {LuaHooks, DialMayFail, Capture, LuaYields} \subseteq BOOLEAN
ASSUME MaxScripts \in 0..1   \* one HostScript task id suffices

Sessions == 1..MaxSessions
Runs     == 1..MaxStarts
NoSess   == 0                      \* server.clientSess == nil

\* Goroutine names.
L1     == <<"l1", 0>>
Lua    == <<"lua", 0>>
L2(s)  == <<"l2", s>>
Routines == {L1, Lua} \cup {L2(s) : s \in Sessions}
Callers  == {L1} \cup {L2(s) : s \in Sessions}   \* callers of luaOnPktCallback
Script     == <<"script", 0>>   \* the autoexec script's task
HostScript == <<"script", 1>>   \* a proxy_execute_script task
Scripts    == {Script, HostScript}
Tasks      == Callers \cup Scripts

VARIABLES
    running,     \* server.cancelFunc != nil
    runNo,       \* number of successful Starts; the current runCtx
    ctxDone,     \* ctxDone[r]: runCtx of run r is cancelled
    mutex,       \* holder of server.mutex: "free", "start", "stop", "l1"
    wg,          \* goroutines counted in server.wg
    nStarts,     \* Start calls made
    nStops,      \* Stop calls made
    stopPc,      \* "idle" or "wait": Stop blocked in wg.Wait
    pc,          \* pc[g]: where goroutine g is
    l1c,         \* clientAddr of the datagram L1 is handling
    l2run,       \* l2run[s]: the runCtx the L2 of session s watches
    l2to,        \* l2to[s]: the clientAddr the L2 of session s captured
    l2src,       \* l2src[s]: the session whose socket L2 of s read from
    luaFor,      \* the goroutine whose callback the Lua thread runs
    listener,    \* the listener socket: "open" or "closed"
    sess,        \* server.clientSess: a session number or NoSess
    nSess,       \* clientSess records created so far
    addr,        \* addr[s]: clientSess.Addr of session s
    sock,        \* sock[s]: clientSess.Socket: "none", "open", "closed"
    inbox,       \* inbox[s]: datagrams queued on the socket of s
    nSent,       \* datagrams the clients sent
    nResp,       \* datagrams the server sent
    sendQ,       \* injectSendQueue
    recvQ,       \* injectRecvQueue
    injected,    \* payloads pushed so far (each at most once)
    pushedSend,  \* history: InjectSend payloads in push order
    upInj,       \* history: injected payloads written upstream, in order
    upstream,    \* history: relayed writes upstream [sess, from]
    toClient,    \* history: writes to clients [src, to]
    crashed,     \* "none", or the panic that ended the process
    capturing,   \* libproxy's isCapturing
    hostServer,  \* the server captured by libproxy's callbacks: "server"/"nil"
    frameOk,     \* frameOk[g]: the pkt.Data g forwards is a valid UNet frame
    startPc,     \* the host thread: "idle"; in ExecuteScript from Start
                 \* ("exec", then "send") or from proxy_execute_script
    hooks,       \* server.luaOnSend/luaOnRecv are set
    nScripts,    \* proxy_execute_script calls made
    requeue      \* <<task, run>>: a yielded task a goroutine is re-sending
                 \* on that run's luaTaskChan

vars == <<running, runNo, ctxDone, mutex, wg, nStarts, nStops, stopPc, pc,
          l1c, l2run, l2to, l2src, luaFor, listener, sess, nSess, addr,
          sock, inbox, nSent, nResp, sendQ, recvQ, injected, pushedSend,
          upInj, upstream, toClient, crashed, capturing, hostServer,
          frameOk, startPc, hooks, nScripts, requeue>>

lifeVars == <<running, runNo, ctxDone, mutex, wg, nStarts, nStops, stopPc>>
l2Vars   == <<l2run, l2to, l2src>>
sessVars == <<sess, nSess, addr, sock, inbox>>
injVars  == <<sendQ, recvQ, injected, pushedSend>>
logVars  == <<upInj, upstream, toClient>>
hostVars == <<capturing, hostServer, frameOk>>
luaVars  == <<startPc, hooks, nScripts, requeue>>

Init ==
    /\ running = FALSE
    /\ runNo = 0
    /\ ctxDone = [r \in Runs |-> FALSE]
    /\ mutex = "free"
    /\ wg = {}
    /\ nStarts = 0
    /\ nStops = 0
    /\ stopPc = "idle"
    /\ pc = [g \in Routines |-> "none"]
    /\ l1c = CHOOSE c \in Clients : TRUE
    /\ l2run = [s \in Sessions |-> 1]
    /\ l2to = [s \in Sessions |-> CHOOSE c \in Clients : TRUE]
    /\ l2src = [s \in Sessions |-> NoSess]
    /\ luaFor = L1
    /\ listener = "closed"
    /\ sess = NoSess
    /\ nSess = 0
    /\ addr = [s \in Sessions |-> CHOOSE c \in Clients : TRUE]
    /\ sock = [s \in Sessions |-> "none"]
    /\ inbox = [s \in Sessions |-> 0]
    /\ nSent = 0
    /\ nResp = 0
    /\ sendQ = <<>>
    /\ recvQ = <<>>
    /\ injected = {}
    /\ pushedSend = <<>>
    /\ upInj = <<>>
    /\ upstream = {}
    /\ toClient = {}
    /\ crashed = "none"
    /\ capturing = FALSE
    /\ hostServer = "server"
    /\ frameOk = [g \in Callers |-> TRUE]
    /\ startPc = "idle"
    /\ hooks = FALSE
    /\ nScripts = 0
    /\ requeue = {}

(***************************************************************************)
(* FifoQueue.Pop: the head item and the rest (called only when Len > 0).  *)
(***************************************************************************)
PopLast(q) == <<Last(q), Front(q)>>

Pop(q) == <<Head(q), Tail(q)>>

\* socket.Close(): a nil socket is skipped, a closed one stays closed.
Close(st) == IF st = "open" THEN "closed" ELSE st

(***************************************************************************)
(* The libproxy host (libproxy/libproxy.go).  proxy_new_server installs   *)
(* OnDisconnect, OnSend and OnRecv closures over the local `server`.      *)
(***************************************************************************)

\* callbackAddPacketFromProxyPacket(server, pkt): server.DeserializeUNetPacket
\* dereferences server.Conf, and its error is dropped, so a nil uPkt is then
\* dereferenced: it returns only with a live server and a valid frame.
CallbackAddPacketOk(g) == hostServer = "server" /\ frameOk[g]

\* OnSend/OnRecv: when isCapturing, report the packet; return pkt.Data.
HostOnPacketOk(g) == ~capturing \/ CallbackAddPacketOk(g)

\* OnDisconnect: remove the server from `servers`, then server = nil.
HostOnDisconnect == hostServer' = "nil"

\* proxy_set_is_capturing: isCapturing.Store(val != 0), from any host thread.
SetCapturing(b) ==
    /\ capturing' = b
    /\ UNCHANGED <<running, runNo, ctxDone, mutex, wg, nStarts, nStops,
                   stopPc, pc, l1c, l2Vars, luaFor, listener, sessVars,
                   nSent, nResp, injVars, logVars, crashed, hostServer,
                   frameOk, luaVars>>

\* Server.IsRunning and Server.IsConnected, read under server.mutex:
\* cancelFunc != nil and clientSess != nil.
IsRunning   == running
IsConnected == sess # NoSess

\* A panic in a goroutine: PanicCheck calls libproxy's hook, which exits.
Crash(cause) ==
    /\ crashed' = cause
    /\ UNCHANGED <<running, runNo, ctxDone, mutex, wg, nStarts, nStops,
                   stopPc, pc, l1c, l2Vars, luaFor, listener, sessVars,
                   nSent, nResp, injVars, logVars, hostVars, luaVars>>

-----------------------------------------------------------------------------
(***************************************************************************)
(* Host calls                                                             *)
(***************************************************************************)

\* Server.Start: from Idle it opens the listener, creates runCtx, starts
\* the Lua thread (wg.Go) and unlocks; with an autoexec script it then
\* calls ExecuteScript before it spawns L1.  clientSess is not reset.
\* While running it returns "already running" without unlocking.
Start ==
    /\ startPc = "idle"
    /\ mutex = "free"
    /\ nStarts < MaxStarts
    /\ nStarts' = nStarts + 1
    /\ IF running
       THEN /\ mutex' = "start"
            /\ UNCHANGED <<running, runNo, wg, pc, listener, startPc>>
       ELSE /\ running' = TRUE
            /\ runNo' = runNo + 1
            /\ listener' = "open"
            /\ wg' = wg \cup {Lua}
            /\ pc' = [pc EXCEPT ![L1] = IF LuaHooks THEN @ ELSE "spawned",
                                ![Lua] = "idle"]
            /\ startPc' = IF LuaHooks THEN "exec" ELSE "idle"
            /\ UNCHANGED mutex
    /\ UNCHANGED <<ctxDone, nStops, stopPc, l1c, l2Vars, luaFor, sessVars,
                   nSent, nResp, injVars, logVars, crashed, hostVars, hooks, nScripts, requeue>>

(***************************************************************************)
(* proxy_execute_script (libproxy): for the server still in the servers  *)
(* list (OnDisconnect removes it), if IsConnected() -- which takes and    *)
(* releases server.mutex -- call ExecuteScript.  The host thread that     *)
(* calls Start makes these calls too.                                    *)
(***************************************************************************)
HostExecuteScript ==
    /\ startPc = "idle"
    /\ nScripts < MaxScripts
    /\ nScripts' = nScripts + 1
    /\ hostServer = "server"
    /\ mutex = "free"
    /\ startPc' = IF IsConnected THEN "hostExec" ELSE "idle"
    /\ UNCHANGED <<lifeVars, pc, l1c, l2Vars, luaFor, listener, sessVars,
                   nSent, nResp, injVars, logVars, crashed, hostVars, hooks, requeue>>

\* ExecuteScript was called by Start, which then spawns L1.
FromStart == startPc \in {"exec", "send"}
AfterExec == IF FromStart THEN [pc EXCEPT ![L1] = "spawned"] ELSE pc

(***************************************************************************)
(* ExecuteScript: lock server.mutex; return if ls.Dead or if Load fails   *)
(* (a syntax error); else send the loaded function on luaTaskChan,       *)
(* holding the mutex until the LState thread takes it.  The run may have  *)
(* been cancelled since the caller's last look (Stop between Start's      *)
(* unlock and this lock, teardown after IsConnected) and the thread may   *)
(* have closed the LState: whether LState.Close leaves Dead set is        *)
(* outside this repository, so a closed state either returns here or      *)
(* blocks in the send.                                                    *)
(***************************************************************************)
ExecLock ==
    /\ startPc \in {"exec", "hostExec"}
    /\ mutex = "free"
    /\ \E dead \in IF pc[Lua] = "dead" THEN BOOLEAN ELSE {FALSE},
          loads \in BOOLEAN :
         IF dead \/ ~loads
         THEN /\ startPc' = "idle"
              /\ pc' = AfterExec
              /\ UNCHANGED mutex
         ELSE /\ startPc' = IF FromStart THEN "send" ELSE "hostSend"
              /\ mutex' = "exec"
              /\ UNCHANGED pc
    /\ UNCHANGED <<running, runNo, ctxDone, wg, nStarts, nStops, stopPc, l1c,
                   l2Vars, luaFor, listener, sessVars, nSent, nResp, injVars,
                   logVars, crashed, hostVars, hooks, nScripts, requeue>>

\* The thread takes the script's task (luaTaskChan is unbuffered; a task
\* with no Thread gets ls.NewThread() and runs under a 12 s context); the
\* deferred unlock runs and the caller goes on.
ExecSend ==
    /\ startPc \in {"send", "hostSend"}
    /\ pc[Lua] = "idle"
    /\ pc' = [AfterExec EXCEPT ![Lua] = "busy"]
    /\ luaFor' = IF FromStart THEN Script ELSE HostScript
    /\ mutex' = "free"
    /\ startPc' = "idle"
    /\ UNCHANGED <<running, runNo, ctxDone, wg, nStarts, nStops, stopPc, l1c,
                   l2Vars, listener, sessVars, nSent, nResp, injVars,
                   logVars, crashed, hostVars, hooks, nScripts, requeue>>

\* Server.Stop: lock server.mutex; if running, cancel and wg.Wait().
StopLock ==
    /\ stopPc = "idle"
    /\ mutex = "free"
    /\ nStops < MaxStops
    /\ nStops' = nStops + 1
    /\ IF running
       THEN /\ mutex' = "stop"
            /\ ctxDone' = [ctxDone EXCEPT ![runNo] = TRUE]
            /\ stopPc' = "wait"
       ELSE UNCHANGED <<mutex, ctxDone, stopPc>>
    /\ UNCHANGED <<running, runNo, wg, nStarts, pc, l1c, l2Vars, luaFor,
                   listener, sessVars, nSent, nResp, injVars, logVars,
                   crashed, hostVars, luaVars>>

StopWait ==
    /\ stopPc = "wait"
    /\ wg = {}
    /\ stopPc' = "idle"
    /\ mutex' = "free"
    /\ UNCHANGED <<running, runNo, ctxDone, wg, nStarts, nStops, pc, l1c,
                   l2Vars, luaFor, listener, sessVars, nSent, nResp,
                   injVars, logVars, crashed, hostVars, luaVars>>

\* FifoQueue.Push: append under the queue's own mutex.
Push(q, x) == Append(q, x)

\* Server.InjectSend / InjectRecv: push if cancelFunc != nil.
InjectSend(i) ==
    /\ running
    /\ i \notin injected
    /\ injected' = injected \cup {i}
    /\ sendQ' = Push(sendQ, i)
    /\ pushedSend' = Append(pushedSend, i)
    /\ UNCHANGED <<lifeVars, pc, l1c, l2Vars, luaFor, listener, sessVars,
                   nSent, nResp, recvQ, logVars, crashed, hostVars, luaVars>>

InjectRecv(i) ==
    /\ running
    /\ i \notin injected
    /\ injected' = injected \cup {i}
    /\ recvQ' = Push(recvQ, i)
    /\ UNCHANGED <<lifeVars, pc, l1c, l2Vars, luaFor, listener, sessVars,
                   nSent, nResp, sendQ, pushedSend, logVars, crashed, hostVars, luaVars>>
-----------------------------------------------------------------------------
(***************************************************************************)
(* L1: the listener loop (the goroutine Start spawns)                    *)
(***************************************************************************)

\* The goroutine's first statement: server.wg.Add(1).
L1Add ==
    /\ pc[L1] = "spawned"
    /\ wg' = wg \cup {L1}
    /\ pc' = [pc EXCEPT ![L1] = "top"]
    /\ UNCHANGED <<running, runNo, ctxDone, mutex, nStarts, nStops, stopPc,
                   l1c, l2Vars, luaFor, listener, sessVars, nSent, nResp,
                   injVars, logVars, crashed, hostVars, luaVars>>

\* select on runCtx.Done(): leave the loop, run the deferred teardown.
L1Cancelled ==
    /\ pc[L1] = "top"
    /\ ctxDone[runNo]
    /\ pc' = [pc EXCEPT ![L1] = "tdLock"]
    /\ UNCHANGED <<lifeVars, l1c, l2Vars, luaFor, listener, sessVars, nSent,
                   nResp, injVars, logVars, crashed, hostVars, luaVars>>

\* Injection has priority over a read, but only with a session.
InjectPending == sendQ # <<>> /\ sess # NoSess

\* Pop one injected datagram, encrypt it, write it on the session socket.
L1Inject ==
    /\ pc[L1] = "top"
    /\ ~ctxDone[runNo]
    /\ InjectPending
    /\ LET p == Pop(sendQ) IN
         /\ sendQ' = p[2]
         /\ upInj' = IF sock[sess] = "open" THEN Append(upInj, p[1])
                     ELSE upInj
    /\ UNCHANGED <<lifeVars, pc, l1c, l2Vars, luaFor, listener, sessVars,
                   nSent, nResp, recvQ, injected, pushedSend, upstream,
                   toClient, crashed, hostVars, luaVars>>

\* The datagram from c needs a new clientSess (bounded by MaxSessions).
NeedsSession(c) == sess = NoSess \/ addr[sess] # c

\* A receive that never compares the source address with the session's.
L1ReceiveAnyAddr(c) ==
    /\ pc[L1] = "top"
    /\ ~ctxDone[runNo]
    /\ ~InjectPending
    /\ nSent < MaxClientSends
    /\ sess = NoSess => nSess < MaxSessions
    /\ nSent' = nSent + 1
    /\ l1c' = c
    /\ pc' = [pc EXCEPT ![L1] = IF sess = NoSess THEN "create" ELSE "proc"]
    /\ UNCHANGED <<lifeVars, l2Vars, luaFor, listener, sessVars, nResp,
                   injVars, logVars, crashed, hostVars, luaVars>>

\* A replacement that clears the slot but leaves the old socket open.
L1ReceiveNoClose(c) ==
    /\ pc[L1] = "top"
    /\ ~ctxDone[runNo]
    /\ ~InjectPending
    /\ nSent < MaxClientSends
    /\ NeedsSession(c) => nSess < MaxSessions
    /\ nSent' = nSent + 1
    /\ l1c' = c
    /\ IF sess # NoSess /\ addr[sess] # c
       THEN sess' = NoSess
       ELSE UNCHANGED sess
    /\ pc' = [pc EXCEPT ![L1] = IF NeedsSession(c) THEN "create" ELSE "proc"]
    /\ UNCHANGED <<lifeVars, l2Vars, luaFor, listener, nSess, addr, sock,
                   inbox, nResp, injVars, logVars, crashed, hostVars, luaVars>>

\* SetReadDeadline and ReadFromUDP returned a datagram from c.  A source
\* address other than clientSess.Addr closes the session's socket and
\* clears the slot; an empty slot leads to creating a session.
L1Receive(c) ==
    /\ pc[L1] = "top"
    /\ ~ctxDone[runNo]
    /\ ~InjectPending
    /\ nSent < MaxClientSends
    /\ NeedsSession(c) => nSess < MaxSessions
    /\ nSent' = nSent + 1
    /\ l1c' = c
    /\ IF sess # NoSess /\ addr[sess] # c
       THEN /\ sock' = [sock EXCEPT ![sess] = Close(@)]
            /\ sess' = NoSess
       ELSE UNCHANGED <<sock, sess>>
    /\ pc' = [pc EXCEPT ![L1] = IF NeedsSession(c) THEN "create" ELSE "proc"]
    /\ UNCHANGED <<lifeVars, l2Vars, luaFor, listener, nSess, addr, inbox,
                   nResp, injVars, logVars, crashed, hostVars, luaVars>>

\* Read deadline with a session and 15 s without client traffic: return.
\* 15 s is taken to exceed any scheduling delay: every L2 that L1 spawned
\* has run its first statement by then.
L1Timeout ==
    /\ pc[L1] = "top"
    /\ ~ctxDone[runNo]
    /\ ~InjectPending
    /\ sess # NoSess
    /\ \A s \in Sessions : pc[L2(s)] # "spawned"
    /\ pc' = [pc EXCEPT ![L1] = "tdLock"]
    /\ UNCHANGED <<lifeVars, l1c, l2Vars, luaFor, listener, sessVars, nSent,
                   nResp, injVars, logVars, crashed, hostVars, luaVars>>

\* A new clientSess for l1c is installed, then net.DialUDP: on success the
\* socket is set, L2 is spawned and OnConnect fires; on failure the
\* datagram is dropped and the socketless record stays in the slot.
L1Create ==
    /\ pc[L1] = "create"
    /\ LET s == nSess + 1 IN
         /\ nSess' = s
         /\ sess' = s
         /\ addr' = [addr EXCEPT ![s] = l1c]
         /\ \/ /\ sock' = [sock EXCEPT ![s] = "open"]
               /\ l2run' = [l2run EXCEPT ![s] = runNo]
               /\ l2to' = [l2to EXCEPT ![s] = l1c]
               /\ pc' = [pc EXCEPT ![L1] = "proc", ![L2(s)] = "spawned"]
            \/ /\ DialMayFail
               /\ pc' = [pc EXCEPT ![L1] = "top"]
               /\ UNCHANGED <<sock, l2run, l2to>>
    /\ UNCHANGED <<lifeVars, l1c, l2src, luaFor, listener, inbox, nSent,
                   nResp, injVars, logVars, crashed, hostVars, luaVars>>

\* LastPacketSent, aesCbcDecrypt and processSendPkt (DeserializeUNetPacket
\* verifies the HMAC): a failure drops the datagram.  Then the Lua onSend
\* hook if one is installed, else straight on to the host OnSend.
L1Process ==
    /\ pc[L1] = "proc"
    /\ \E ok \in BOOLEAN :
         pc' = [pc EXCEPT ![L1] = IF ~ok THEN "top"
                                  ELSE IF hooks THEN "luaSend" ELSE "fwd"]
    /\ frameOk' = [frameOk EXCEPT ![L1] = TRUE]
    /\ UNCHANGED <<lifeVars, l1c, l2Vars, luaFor, listener, sessVars, nSent,
                   nResp, injVars, logVars, crashed, capturing, hostServer, luaVars>>

\* Host OnSend (libproxy's: the capture callback, then pkt.Data),
\* aesCbcEncrypt, and the write on server.clientSess.Socket, which fails
\* unless the socket is open.
L1Forward ==
    /\ pc[L1] = "fwd"
    /\ IF ~HostOnPacketOk(L1)
       THEN Crash("capture")
       ELSE /\ pc' = [pc EXCEPT ![L1] = "top"]
            /\ upstream' = IF sock[sess] = "open"
                           THEN upstream \cup {[sess |-> sess, from |-> l1c]}
                           ELSE upstream
            /\ UNCHANGED <<lifeVars, l1c, l2Vars, luaFor, listener, sessVars,
                           nSent, nResp, injVars, upInj, toClient, crashed,
                           hostVars, luaVars>>

\* Teardown without cancelling runCtx.
L1TeardownLockNoCancel ==
    /\ pc[L1] = "tdLock"
    /\ mutex = "free"
    /\ mutex' = "l1"
    /\ listener' = "closed"
    /\ HostOnDisconnect
    /\ wg' = wg \ {L1}
    /\ pc' = [pc EXCEPT ![L1] = "tdWait"]
    /\ UNCHANGED <<running, runNo, ctxDone, nStarts, nStops, stopPc, l1c,
                   l2Vars, luaFor, sessVars, nSent, nResp, injVars, logVars,
                   crashed, capturing, frameOk, luaVars>>

\* The deferred teardown: lock server.mutex, OnDisconnect, close the
\* listener, cancel runCtx, wg.Done() ...
L1TeardownLock ==
    /\ pc[L1] = "tdLock"
    /\ mutex = "free"
    /\ mutex' = "l1"
    /\ listener' = "closed"
    /\ HostOnDisconnect
    /\ ctxDone' = [ctxDone EXCEPT ![runNo] = TRUE]
    /\ wg' = wg \ {L1}
    /\ pc' = [pc EXCEPT ![L1] = "tdWait"]
    /\ UNCHANGED <<running, runNo, nStarts, nStops, stopPc, l1c, l2Vars,
                   luaFor, sessVars, nSent, nResp, injVars, logVars, crashed,
                   capturing, frameOk, luaVars>>

\* Teardown that sets cancelFunc = nil without waiting for the wait group.
L1TeardownNoWait ==
    /\ pc[L1] = "tdWait"
    /\ running' = FALSE
    /\ mutex' = "free"
    /\ pc' = [pc EXCEPT ![L1] = "done"]
    /\ UNCHANGED <<runNo, ctxDone, wg, nStarts, nStops, stopPc, l1c, l2Vars,
                   luaFor, listener, sessVars, nSent, nResp, injVars,
                   logVars, crashed, hostVars, luaVars>>

\* ... wg.Wait(), cancelFunc = nil, unlock.
L1TeardownWait ==
    /\ pc[L1] = "tdWait"
    /\ wg = {}
    /\ running' = FALSE
    /\ mutex' = "free"
    /\ pc' = [pc EXCEPT ![L1] = "done"]
    /\ UNCHANGED <<runNo, ctxDone, wg, nStarts, nStops, stopPc, l1c, l2Vars,
                   luaFor, listener, sessVars, nSent, nResp, injVars,
                   logVars, crashed, hostVars, luaVars>>

-----------------------------------------------------------------------------
(***************************************************************************)
(* L2: the upstream reader of session s.  It captured clientAddr when     *)
(* spawned but reads server.clientSess afresh on every use: its socket,   *)
(* its timestamps and its UID state are those of the current session.    *)
(***************************************************************************)

L2Add(s) ==
    /\ pc[L2(s)] = "spawned"
    /\ wg' = wg \cup {L2(s)}
    /\ pc' = [pc EXCEPT ![L2(s)] = "top"]
    /\ UNCHANGED <<running, runNo, ctxDone, mutex, nStarts, nStops, stopPc,
                   l1c, l2Vars, luaFor, listener, sessVars, nSent, nResp,
                   injVars, logVars, crashed, hostVars, luaVars>>

\* runCtx done: the deferred server.clientSess.Socket.Close() and wg.Done().
L2Exit(s) ==
    /\ pc[L2(s)] = "top"
    /\ ctxDone[l2run[s]]
    /\ IF sess = NoSess
       THEN Crash("nilSession")
       ELSE /\ sock' = [sock EXCEPT ![sess] = Close(@)]
            /\ wg' = wg \ {L2(s)}
            /\ pc' = [pc EXCEPT ![L2(s)] = "done"]
            /\ UNCHANGED <<running, runNo, ctxDone, mutex, nStarts, nStops,
                           stopPc, l1c, l2Vars, luaFor, listener, sess,
                           nSess, addr, inbox, nSent, nResp, injVars,
                           logVars, crashed, hostVars, luaVars>>

\* L2Inject that writes the head of the queue without popping it.
L2InjectNoPop(s) ==
    /\ pc[L2(s)] = "top"
    /\ ~ctxDone[l2run[s]]
    /\ recvQ # <<>>
    /\ toClient' = IF listener = "open"
                   THEN toClient \cup {[src |-> sess, to |-> l2to[s]]}
                   ELSE toClient
    /\ UNCHANGED <<lifeVars, pc, l1c, l2Vars, luaFor, listener, sessVars,
                   nSent, nResp, injVars, upInj, upstream, crashed, hostVars,
                   luaVars>>

\* Pop an injected RECV datagram, encrypt it, WriteToUDP to clientAddr.
L2Inject(s) ==
    /\ pc[L2(s)] = "top"
    /\ ~ctxDone[l2run[s]]
    /\ recvQ # <<>>
    /\ recvQ' = Pop(recvQ)[2]
    /\ toClient' = IF listener = "open"
                   THEN toClient \cup {[src |-> sess, to |-> l2to[s]]}
                   ELSE toClient
    /\ UNCHANGED <<lifeVars, pc, l1c, l2Vars, luaFor, listener, sessVars,
                   nSent, nResp, sendQ, injected, pushedSend, upInj,
                   upstream, crashed, hostVars, luaVars>>

\* A read whose error is not checked: an expired deadline is handled as
\* a datagram.
L2ReceiveIgnoreErr(s) ==
    /\ pc[L2(s)] = "top"
    /\ ~ctxDone[l2run[s]]
    /\ recvQ = <<>>
    /\ IF sess = NoSess
       THEN Crash("nilSession")
       ELSE /\ inbox' = [inbox EXCEPT ![sess] = @ - 1]
            /\ l2src' = [l2src EXCEPT ![s] = sess]
            /\ pc' = [pc EXCEPT ![L2(s)] = "proc"]
            /\ UNCHANGED <<lifeVars, l1c, l2run, l2to, luaFor, listener,
                           sess, nSess, addr, sock, nSent, nResp, injVars,
                           logVars, crashed, hostVars, luaVars>>

\* SetReadDeadline and Read on server.clientSess.Socket: a datagram is
\* taken from the current session's socket.  (A nil or closed socket and
\* an expired deadline only loop.)
L2Receive(s) ==
    /\ pc[L2(s)] = "top"
    /\ ~ctxDone[l2run[s]]
    /\ recvQ = <<>>
    /\ sess # NoSess => sock[sess] = "open" /\ inbox[sess] > 0
    /\ IF sess = NoSess
       THEN Crash("nilSession")
       ELSE /\ inbox' = [inbox EXCEPT ![sess] = @ - 1]
            /\ l2src' = [l2src EXCEPT ![s] = sess]
            /\ pc' = [pc EXCEPT ![L2(s)] = "proc"]
            /\ UNCHANGED <<lifeVars, l1c, l2run, l2to, luaFor, listener,
                           sess, nSess, addr, sock, nSent, nResp, injVars,
                           logVars, crashed, hostVars, luaVars>>

\* LastPacketRecv, Packet.DstAddr, aesCbcDecrypt, processRecvPkt: all on
\* server.clientSess.  Then the Lua onRecv hook or the host OnRecv.
L2Process(s) ==
    /\ pc[L2(s)] = "proc"
    /\ IF sess = NoSess
       THEN Crash("nilSession")
       ELSE /\ \E ok \in BOOLEAN :
                 pc' = [pc EXCEPT ![L2(s)] =
                          IF ~ok THEN "top"
                          ELSE IF hooks THEN "luaSend" ELSE "fwd"]
            /\ frameOk' = [frameOk EXCEPT ![L2(s)] = TRUE]
            /\ UNCHANGED <<lifeVars, l1c, l2Vars, luaFor, listener,
                           sessVars, nSent, nResp, injVars, logVars,
                           crashed, capturing, hostServer, luaVars>>

\* Host OnRecv (the capture callback), aesCbcEncrypt, WriteToUDP to the
\* captured clientAddr.
L2Forward(s) ==
    /\ pc[L2(s)] = "fwd"
    /\ IF ~HostOnPacketOk(L2(s))
       THEN Crash("capture")
       ELSE /\ pc' = [pc EXCEPT ![L2(s)] = "top"]
            /\ toClient' = IF listener = "open"
                           THEN toClient \cup {[src |-> l2src[s], to |-> l2to[s]]}
                           ELSE toClient
            /\ UNCHANGED <<lifeVars, l1c, l2Vars, luaFor, listener, sessVars,
                           nSent, nResp, injVars, upInj, upstream, crashed,
                           hostVars, luaVars>>

-----------------------------------------------------------------------------
(***************************************************************************)
(* The Lua thread and luaOnPktCallback.  The caller sends a task on the   *)
(* unbuffered server.luaTaskChan and waits for it to finish.  The thread  *)
(* selects between a task and runCtx.Done(); with both ready Go picks     *)
(* either.                                                               *)
(***************************************************************************)

\* Rendezvous on luaTaskChan: the thread takes g's task.
LuaTakeTask(g) ==
    /\ pc[g] = "luaSend"
    /\ pc[Lua] = "idle"
    /\ pc' = [pc EXCEPT ![g] = "luaWait", ![Lua] = "busy"]
    /\ luaFor' = g
    /\ UNCHANGED <<lifeVars, l1c, l2Vars, listener, sessVars, nSent, nResp,
                   injVars, logVars, crashed, hostVars, luaVars>>

\* The callback returns: new bytes (forward) or nil, an error or the 12 s
\* task timeout (drop).  The new bytes are whatever the script returned,
\* a valid UNet frame or not (only told apart when capture may be on).
\* The caller resumes; the thread selects again.
LuaFinish ==
    /\ pc[Lua] = "busy"
    /\ luaFor \in Callers
    /\ \E keep \in BOOLEAN, valid \in IF Capture THEN BOOLEAN ELSE {TRUE} :
         /\ pc' = [pc EXCEPT ![luaFor] = IF keep THEN "fwd" ELSE "top",
                             ![Lua] = "idle"]
         /\ frameOk' = [frameOk EXCEPT ![luaFor] = valid]
    /\ UNCHANGED <<lifeVars, l1c, l2Vars, luaFor, listener, sessVars, nSent,
                   nResp, injVars, logVars, crashed, capturing, hostServer, luaVars>>

\* The autoexec script's top level returns.  Assigning ioannes.onSend or
\* ioannes.onRecv (luaApiNewindex) stores a function or nil in
\* server.luaOnSend/luaOnRecv; nothing resets them between runs.
LuaScriptDone ==
    /\ pc[Lua] = "busy"
    /\ luaFor \in Scripts
    /\ \E h \in BOOLEAN : hooks' = h
    /\ pc' = [pc EXCEPT ![Lua] = "idle"]
    /\ UNCHANGED <<lifeVars, l1c, l2Vars, luaFor, listener, sessVars, nSent,
                   nResp, injVars, logVars, crashed, hostVars, startPc, nScripts, requeue>>

\* A task calls ioannes.send or ioannes.recv (luaApiSend, luaApiRecv): the
\* same InjectSend or InjectRecv, from the LState thread.
LuaApiInject(i) ==
    /\ pc[Lua] = "busy"
    /\ InjectSend(i) \/ InjectRecv(i)

\* A task reads ioannes.session[key] (luaApiSessionIndex) or encodes a
\* packet (luaApiUnetEncode): server.clientSess.mutex.Lock() with
\* clientSess nil dereferences nil.  If the panic leaves ls.Resume it
\* reaches PanicCheck; if gopher-lua turns it into an error, the task just
\* fails, which LuaFinish already covers.
LuaSessionNil ==
    /\ pc[Lua] = "busy"
    /\ sess = NoSess
    /\ Crash("nilSession")

LuaYield ==
    /\ LuaYields
    /\ pc[Lua] = "busy"
    /\ requeue' = requeue \cup {<<luaFor, runNo>>}
    /\ pc' = [pc EXCEPT ![Lua] = "idle"]
    /\ UNCHANGED <<lifeVars, l1c, l2Vars, luaFor, listener, sessVars, nSent,
                   nResp, injVars, logVars, crashed, hostVars, startPc, hooks,
                   nScripts>>

\* The re-sending goroutine meets the thread: only the channel of the run
\* it was started in, which luaInit replaces on the next Start.
LuaTakeRequeued(t) ==
    /\ <<t, runNo>> \in requeue
    /\ pc[Lua] = "idle"
    /\ pc' = [pc EXCEPT ![Lua] = "busy"]
    /\ luaFor' = t
    /\ requeue' = requeue \ {<<t, runNo>>}
    /\ UNCHANGED <<lifeVars, l1c, l2Vars, listener, sessVars, nSent, nResp,
                   injVars, logVars, crashed, hostVars, startPc, hooks,
                   nScripts>>

\* runCtx.Done(): ls.Close() and the wg.Go goroutine returns.
LuaExit ==
    /\ pc[Lua] = "idle"
    /\ ctxDone[runNo]
    /\ pc' = [pc EXCEPT ![Lua] = "dead"]
    /\ wg' = wg \ {Lua}
    /\ UNCHANGED <<running, runNo, ctxDone, mutex, nStarts, nStops, stopPc,
                   l1c, l2Vars, luaFor, listener, sessVars, nSent, nResp,
                   injVars, logVars, crashed, hostVars, luaVars>>

-----------------------------------------------------------------------------
\* The upstream server sends a datagram to the socket of session s.
ServerSend(s) ==
    /\ sock[s] = "open"
    /\ nResp < MaxServerSends
    /\ nResp' = nResp + 1
    /\ inbox' = [inbox EXCEPT ![s] = @ + 1]
    /\ UNCHANGED <<lifeVars, pc, l1c, l2Vars, luaFor, listener, sess, nSess,
                   addr, sock, nSent, injVars, logVars, crashed, hostVars, luaVars>>

L1Step ==
    \/ L1Add \/ L1Cancelled \/ L1Inject \/ L1Create \/ L1Process
    \/ L1Forward \/ L1TeardownLock \/ L1TeardownWait

L2Step(s) ==
    \/ L2Add(s) \/ L2Exit(s) \/ L2Inject(s) \/ L2Receive(s)
    \/ L2Process(s) \/ L2Forward(s)

LuaStep ==
    \/ \E g \in Callers : LuaTakeTask(g)
    \/ LuaFinish \/ LuaScriptDone \/ LuaSessionNil \/ LuaExit
    \/ \E i \in Injects : LuaApiInject(i)
    \/ LuaYield \/ \E t \in Tasks : LuaTakeRequeued(t)

\* Start's call of ExecuteScript.
ExecStep == ExecLock \/ ExecSend

Environment ==
    \/ Start \/ StopLock \/ StopWait
    \/ \E i \in Injects : InjectSend(i) \/ InjectRecv(i)
    \/ \E c \in Clients : L1Receive(c)
    \/ L1Timeout
    \/ \E s \in Sessions : ServerSend(s)
    \/ \E b \in IF Capture THEN BOOLEAN ELSE {} : SetCapturing(b)
    \/ HostExecuteScript

Next ==
    /\ crashed = "none"
    /\ \/ Environment
       \/ L1Step
       \/ \E s \in Sessions : L2Step(s)
       \/ LuaStep
       \/ ExecStep

\* Runnable goroutines are scheduled (weak fairness per goroutine); the
\* host, the clients, the server and the passage of time are not.
Fairness ==
    /\ WF_vars(L1Step)
    /\ \A s \in Sessions : WF_vars(L2Step(s))
    /\ WF_vars(LuaStep)
    /\ WF_vars(StopWait)
    /\ WF_vars(ExecStep)

Spec == Init /\ [][Next]_vars /\ Fairness

-----------------------------------------------------------------------------
TypeOK ==
    /\ running \in BOOLEAN /\ runNo \in 0..MaxStarts
    /\ ctxDone \in [Runs -> BOOLEAN]
    /\ mutex \in {"free", "start", "stop", "l1", "exec"}
    /\ wg \subseteq Routines
    /\ stopPc \in {"idle", "wait"}
    /\ pc[L1] \in {"none", "spawned", "top", "create", "proc", "luaSend",
                   "luaWait", "fwd", "tdLock", "tdWait", "done"}
    /\ pc[Lua] \in {"none", "idle", "busy", "dead"}
    /\ \A s \in Sessions :
         pc[L2(s)] \in {"none", "spawned", "top", "proc", "luaSend",
                        "luaWait", "fwd", "done"}
    /\ l2src \in [Sessions -> Sessions \cup {NoSess}]
    /\ luaFor \in Tasks
    /\ requeue \subseteq Tasks \X Runs
    /\ startPc \in {"idle", "exec", "send", "hostExec", "hostSend"} /\ hooks \in BOOLEAN
    /\ sess \in Sessions \cup {NoSess} /\ nSess \in 0..MaxSessions
    /\ addr \in [Sessions -> Clients]
    /\ sock \in [Sessions -> {"none", "open", "closed"}]
    /\ inbox \in [Sessions -> 0..MaxServerSends]
    /\ crashed \in {"none", "nilSession", "capture"}
    /\ capturing \in BOOLEAN /\ hostServer \in {"server", "nil"}
    /\ frameOk \in [Callers -> BOOLEAN]
    /\ sendQ \in Seq(Injects) /\ recvQ \in Seq(Injects)
    /\ upstream \subseteq [sess : Sessions, from : Clients]
    /\ toClient \subseteq [src : Sessions \cup {NoSess}, to : Clients]

(***************************************************************************)
(* Every datagram L1 relays upstream goes out on the socket of the        *)
(* session whose client sent it: a new source address always gets a new   *)
(* session before its datagram is forwarded (spec invariant 1).           *)
(***************************************************************************)
UpstreamFromSessionClient ==
    \A w \in upstream : w.from = addr[w.sess]

(***************************************************************************)
(* Injected SEND datagrams reach the server in the order they were        *)
(* pushed (FifoQueue is FIFO and L1 is its only consumer), although       *)
(* some may be lost while no socket is open.                              *)
(***************************************************************************)
InjectSendInOrder ==
    upInj = SelectSeq(pushedSend, LAMBDA i : i \in ToSet(upInj))

(***************************************************************************)
(* At most one upstream socket is open at any time: the old session's    *)
(* socket is closed before L1 dials the new one.                          *)
(***************************************************************************)
AtMostOneOpenSession ==
    Cardinality({s \in Sessions : sock[s] = "open"}) <= 1

TeardownCompletes ==
    (pc[L1] = "tdLock") ~> (pc[L1] = "done")

(***************************************************************************)
(* Every datagram the upstream server sends to an open session socket is  *)
(* eventually read by an upstream reader, unless that socket is closed,   *)
(* the run is cancelled or the process has exited.  Injected RECVs go     *)
(* first (the "continue" after an injection skips the read), so this     *)
(* holds only because the injection queue is drained: a reader that kept  *)
(* injecting would starve the socket (spec 5: injection has priority but  *)
(* reads are not starved).                                                *)
(***************************************************************************)
RepliesRead ==
    \A s \in Sessions :
        (sock[s] = "open" /\ inbox[s] > 0)
            ~> \/ inbox[s] = 0 \/ sock[s] = "closed"
               \/ runNo > 0 /\ ctxDone[runNo]
               \/ crashed # "none"

(***************************************************************************)
(* A call of Stop returns (spec 4.7: stop trips the token and waits for   *)
(* the loops to join).                                                     *)
(***************************************************************************)
StopReturns ==
    (stopPc = "wait") ~> (stopPc = "idle")

(***************************************************************************)
(* Every datagram written to a downstream client (relayed or injected)    *)
(* goes to the client of the session it belongs to: a relayed one to the  *)
(* client of the session whose socket delivered it, an injected one to    *)
(* the current session's client (spec 4.5 L2 and invariant 1).            *)
(***************************************************************************)
DeliveredToSessionClient ==
    \A w \in toClient : w.src # NoSess /\ w.to = addr[w.src]

(***************************************************************************)
(* No goroutine dereferences an empty server.clientSess (the process      *)
(* would exit through PanicCheck).                                         *)
(***************************************************************************)
NoNilSessionDeref == crashed # "nilSession"

(***************************************************************************)
(* Packet capture never ends the process: with isCapturing on, libproxy's *)
(* OnSend/OnRecv callback (callbackAddPacketFromProxyPacket) never runs   *)
(* on the nil server OnDisconnect left behind, nor on a pkt.Data that is  *)
(* not a UNet frame.                                                       *)
(***************************************************************************)
CaptureNeverPanics == crashed # "capture"

(***************************************************************************)
(* The server implements its lifecycle as the host observes it: the run  *)
(* state is IsRunning (cancelFunc != nil), the slot is IsConnected and    *)
(* the session's client (spec 4.5 Teardown, 4.7).                         *)
(***************************************************************************)
Lifecycle == INSTANCE ServerLifecycle
    WITH state <- IF IsRunning THEN "running" ELSE "idle",
         client <- IF IsConnected THEN addr[sess] ELSE NoSess,
         None <- NoSess

RefinesLifecycle == Lifecycle!Spec
=============================================================================
