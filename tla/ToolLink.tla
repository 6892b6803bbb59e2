------------------------------ MODULE ToolLink ------------------------------
(***************************************************************************)
(* Requests and answers between the threads of an instrumented process and *)
(* the tool, with the tool's socket server (csrc/core/Communication.cpp,   *)
(* DomainSocket.cpp, RemoteProcess.cpp, the receiving half of              *)
(* LocalProcess.cpp, and csrc/runtime/inject_helpers/ConfigManager.cpp,    *)
(* InteractHelper.h, InteractHelper.cpp, ProfConfig.cpp).                  *)
(*                                                                         *)
(* Under the sanitizer every device has a connection of its own.  The tool *)
(* sends one configuration on it when it is accepted, a thread fetches it  *)
(* before its first request, and requests wait for their answer without a  *)
(* lock.  Under the profiler all requests use the general connection and   *)
(* communtionMx_ is held from the request to its answer.                   *)
(*                                                                         *)
(* A read returns everything that has arrived.  Messages carry no number   *)
(* that ties an answer to its request, so what a wait takes depends on     *)
(* what earlier waits left behind.  `of` in a message is history: which    *)
(* request it answers.  How a message gets into the socket whole is the    *)
(* subject of DeviceChannel; here one Notify is one step.                  *)
(***************************************************************************)
EXTENDS Naturals, Sequences

CONSTANTS
    Threads,       \* the threads of the instrumented process
    Devices,       \* the devices they use
    General,       \* the general connection
    MaxClients,    \* maxClientNum_
    Kinds,         \* the kinds of call the threads make
    MaxCalls,      \* bound on the calls of all threads together
    None           \* no holder, no client

Conns == Devices \cup {General}

ASSUME LinkAssumption ==
    /\ General \notin Devices
    /\ None \notin Threads /\ None \notin Conns
    /\ MaxClients \in Nat \ {0} /\ MaxCalls \in Nat

VARIABLES
    calls,         \* the calls made so far
    mode,          \* "sanitizer" or "profiler": the tool that started the process
    conn,          \* the sockets: their state and what is in flight each way
    thr,           \* the threads: where they are, their call, what it received
    configMutex,   \* the static mutex of GetConfig, its holder
    configMap,     \* the static configMap of GetConfig
    communtionMx,  \* ProfConfig::communtionMx_, its holder
    instance,      \* the static ProfConfig: "none", "making" or "made"
    server,        \* the tool's server: its life, acceptor, cfds_ size, readWorker_
    reader,        \* the server's reader threads, one per accepted client
    last,          \* history: the last finished call of each thread
    unmet,         \* history: requests that returned without their answer
    mixed,         \* history: requests in flight together on one device
    configOut      \* history: devices whose wait for the configuration ran out

vars == <<calls, mode, conn, thr, configMutex, configMap, communtionMx, instance,
          server, reader, last, unmet, mixed, configOut>>
processVars == <<calls, thr, configMutex, configMap, communtionMx, instance, last,
                 unmet, mixed, configOut>>
serverVars == <<server, reader>>

-----------------------------------------------------------------------------
(* Messages.                                                               *)

\* PacketType and ProfPacketType, as far as the calls differ: the answer each
\* kind of request gets, "none" for what is only sent.
QueryResponsePacketType(kind) ==
    CASE kind = "ipc" -> "ipcResponse"
      [] kind = "lastBlock" -> "kernelResponse"
      [] kind \in {"init", "ctrl"} -> "payload"
      [] kind \in {"collectStart", "profFinish"} -> "SUC"
      [] kind = "dataPath" -> "path"
      [] OTHER -> "none"

\* The two requests that go through InteractHelper::Interact: an IPC record and
\* the last block of a kernel's records; the other blocks are only sent.
Interacts == {"ipc", "lastBlock"}

SanitizerKinds == Kinds \cap (Interacts \cup {"getConfig", "block"})
ProfilerKinds == Kinds \cap {"collectStart", "profFinish", "dataPath", "ctrl", "data"}

\* The request of thread t's current call.
Request(t) == [kind |-> thr[t].kind, of |-> thr[t].n]
Config == [kind |-> "config", of |-> 0]
AnswerTo(m) == [kind |-> QueryResponsePacketType(m.kind), of |-> m.of]

Idle == [pc |-> "idle", kind |-> "none", c |-> None, n |-> 0, buf |-> <<>>]
NoCall == [c |-> None, of |-> 0, buf |-> <<>>]

Init ==
    /\ calls = 0
    /\ mode \in {"sanitizer", "profiler"}
    /\ conn = [c \in Conns |-> [state |-> "new", up |-> <<>>, down |-> <<>>]]
    /\ thr = [t \in Threads |-> Idle]
    /\ configMutex = None
    /\ configMap = [d \in Devices |-> "none"]
    /\ communtionMx = None
    /\ instance = "none"
    /\ server = [life |-> "off", acceptor |-> "none", client |-> None, num |-> 0,
                 readWorker |-> <<>>, joined |-> 0]
    /\ reader = [c \in Conns |-> [at |-> "none", got |-> <<>>]]
    /\ last = [t \in Threads |-> NoCall]
    /\ unmet = {}
    /\ mixed = {}
    /\ configOut = {}

-----------------------------------------------------------------------------
(* The instrumented process.                                               *)

Goto(t, l) == thr' = [thr EXCEPT ![t].pc = l]
Connected(c) == conn[c].state \in {"queued", "accepted", "leaked"}

\* The tool's socket is bound, so a connect succeeds.
Listening == server.acceptor # "none" /\ server.life # "gone"

\* conn after a message was written on c by the process, after one was written by
\* the server, after the process has read all there is, and after the server
\* has: neither side's read keeps two messages apart.
Written(c, m) == IF Connected(c) THEN [conn EXCEPT ![c].up = Append(@, m)] ELSE conn
ServerWritten(c, m) == [conn EXCEPT ![c].down = Append(@, m)]
Taken(c) == [conn EXCEPT ![c].down = <<>>]
ServerTaken(c) == [conn EXCEPT ![c].up = <<>>]

\* Once the connection exists: an Interact fetches the configuration first, a
\* profiler request locks communtionMx_ (InitProfConfig, which runs in the
\* constructor of the singleton, does not), a Notify just sends.
FirstStep(kind) ==
    CASE kind \in Interacts \cup {"getConfig"} -> "config"
      [] kind \in ProfilerKinds -> "lock"
      [] OTHER -> "send"

\* A hook makes a call.  The first profiler call constructs the ProfConfig
\* singleton, which asks for the configuration; other threads wait until then.
Begin(t) ==
    /\ thr[t].pc = "idle"
    /\ calls < MaxCalls
    /\ calls' = calls + 1
    /\ \E k \in SanitizerKinds \cup ProfilerKinds \cup {"init"}, c \in Devices \cup {General} :
         /\ IF mode = "sanitizer" THEN k \in SanitizerKinds /\ c \in Devices
            ELSE c = General /\ k \in IF instance = "made" THEN ProfilerKinds ELSE {"init"}
         /\ mode = "profiler" => instance # "making"
         /\ instance' = IF k = "init" THEN "making" ELSE instance
         /\ thr' = [thr EXCEPT ![t] = [pc |-> IF conn[c].state = "new" THEN "connect"
                                              ELSE FirstStep(k),
                                       kind |-> k, c |-> c, n |-> calls + 1, buf |-> <<>>]]
    /\ last' = [last EXCEPT ![t] = NoCall]
    /\ UNCHANGED <<mode, conn, configMutex, configMap, communtionMx, serverVars,
                   unmet, mixed, configOut>>

\* The constructor of LocalProcess: connect, or give up after retryLimit
\* attempts while the server does not listen.
Connect(t) ==
    LET c == thr[t].c IN
    /\ thr[t].pc = "connect"
    /\ \/ conn[c].state # "new" /\ UNCHANGED conn
       \/ /\ conn[c].state = "new"
          /\ conn' = [conn EXCEPT ![c].state =
                        IF Listening THEN "queued" ELSE "refused"]
    /\ Goto(t, FirstStep(thr[t].kind))
    /\ UNCHANGED <<calls, mode, configMutex, configMap, communtionMx, instance, serverVars,
                   last, unmet, mixed, configOut>>

\* The call is over.  The locks it holds are released and the history keeps what
\* its wait received.
Finish(t, buf) ==
    /\ thr' = [thr EXCEPT ![t] = Idle]
    /\ last' = [last EXCEPT ![t] = [c |-> thr[t].c, of |-> thr[t].n, buf |-> buf]]
    /\ unmet' = IF thr[t].pc = "wait" /\ \A i \in DOMAIN buf : buf[i].of # thr[t].n
                THEN unmet \cup {thr[t].n} ELSE unmet
    /\ communtionMx' = IF communtionMx = t THEN None ELSE communtionMx
    /\ instance' = IF thr[t].kind = "init" THEN "made" ELSE instance

\* GetConfig returns: an Interact goes on to send.
AfterConfig(t) ==
    IF thr[t].kind = "getConfig" THEN Finish(t, <<>>)
    ELSE Goto(t, "send") /\ UNCHANGED <<last, unmet, communtionMx, instance>>

\* GetConfig, after the lock: the device's configuration is known, or the thread
\* keeps the mutex and waits for it.
GetConfig(t) ==
    /\ thr[t].pc = "config"
    /\ configMutex = None
    /\ IF configMap[thr[t].c] # "none" THEN AfterConfig(t) /\ UNCHANGED configMutex
       ELSE /\ configMutex' = t
            /\ Goto(t, "configWait")
            /\ UNCHANGED <<last, unmet, communtionMx, instance>>
    /\ UNCHANGED <<calls, mode, conn, configMap, serverVars, mixed, configOut>>

\* GetConfig's Wait returns.  Anything but a message of exactly the size of a
\* SanitizerConfig, nothing after the 5 seconds included, leaves a default one.
ConfigWait(t) ==
    LET d == thr[t].c IN
    /\ thr[t].pc = "configWait"
    /\ configMap' = [configMap EXCEPT ![d] = IF conn[d].down = <<Config>> THEN "config"
                                             ELSE "default"]
    /\ conn' = Taken(d)
    /\ configMutex' = None
    /\ configOut' = IF conn[d].down = <<>> THEN configOut \cup {d} ELSE configOut
    /\ AfterConfig(t)
    /\ UNCHANGED <<calls, mode, serverVars, mixed>>

\* std::lock_guard<std::mutex> lock(communtionMx_).
\* Mutant: request and answer are not under the lock.
LockCommuntionNone(t) ==
    /\ thr[t].pc = "lock"
    /\ Goto(t, "send")
    /\ UNCHANGED <<calls, mode, conn, configMutex, configMap, communtionMx, instance, serverVars,
                   last, unmet, mixed, configOut>>
LockCommuntion(t) ==
    /\ thr[t].pc = "lock"
    /\ communtionMx = None
    /\ communtionMx' = t
    /\ Goto(t, "send")
    /\ UNCHANGED <<calls, mode, conn, configMutex, configMap, instance, serverVars,
                   last, unmet, mixed, configOut>>

\* Whether the call goes on to wait: it wants an answer, and was sent.  Interact
\* does not look at the result of Notify and waits all the same.
Awaits(t) ==
    /\ QueryResponsePacketType(thr[t].kind) # "none"
    /\ thr[t].kind \in Interacts \/ Connected(thr[t].c)

\* Notify.
Send(t) ==
    LET c == thr[t].c
        with == {u \in Threads \ {t} : thr[u].pc = "wait" /\ thr[u].c = c} IN
    /\ thr[t].pc = "send"
    /\ conn' = Written(c, Request(t))
    /\ mixed' = IF Awaits(t) /\ with # {} /\ c \in Devices
                THEN mixed \cup {thr[u].n : u \in with \cup {t}} ELSE mixed
    /\ IF Awaits(t)
       THEN Goto(t, "wait") /\ UNCHANGED <<last, unmet, communtionMx, instance>>
       ELSE Finish(t, <<>>)
    /\ UNCHANGED <<calls, mode, configMutex, configMap, serverVars, configOut>>

\* Whether what the wait of a `kind` request has received ends it: a path ends
\* with a line feed; the configuration and the one-byte answer to "ctrl" end
\* with enough bytes; WaitForReply and Interact take the first read.
Complete(kind, buf) ==
    CASE kind = "dataPath" -> buf[Len(buf)].kind = "path"
      [] kind = "init" -> \E i \in DOMAIN buf : buf[i].kind = "payload"
      [] OTHER -> TRUE

\* Wait: a read returns all that has arrived.
Read(t) ==
    LET c == thr[t].c
        buf == thr[t].buf \o conn[c].down IN
    /\ thr[t].pc = "wait"
    /\ conn[c].down # <<>>
    /\ conn' = Taken(c)
    /\ IF Complete(thr[t].kind, buf) THEN Finish(t, buf)
       ELSE /\ thr' = [thr EXCEPT ![t].buf = buf]
            /\ UNCHANGED <<last, unmet, communtionMx, instance>>
    /\ UNCHANGED <<calls, mode, configMutex, configMap, serverVars, mixed, configOut>>

\* The waits that end by themselves: 30 or 600 reads of one second for Interact,
\* 64 packets for WaitForPayload and the path.  WaitForReply allows UINT32_MAX
\* reads, which run out only on a socket whose reads fail or end at once.
\* Mutant: a time limit of 0, which Wait takes for none.
WaitEndsReplyOnly(t) ==
    /\ QueryResponsePacketType(thr[t].kind) = "SUC"
    /\ ~Connected(thr[t].c)
WaitEnds(t) ==
    QueryResponsePacketType(thr[t].kind) = "SUC" => ~Connected(thr[t].c)

Expire(t) ==
    /\ thr[t].pc = "wait"
    /\ conn[thr[t].c].down = <<>>
    /\ WaitEnds(t)
    /\ Finish(t, thr[t].buf)
    /\ UNCHANGED <<calls, mode, conn, configMutex, configMap, serverVars, mixed, configOut>>

-----------------------------------------------------------------------------
(* The tool's server.                                                      *)

\* ListenAndBind succeeds and the acceptor starts, or fails for good.
Start ==
    /\ server.life = "off"
    /\ \/ server' = [server EXCEPT !.life = "running", !.acceptor = "loop"]
       \/ server' = [server EXCEPT !.life = "failed"]
    /\ UNCHANGED <<mode, conn, reader, processVars>>

\* isRunning_: true from the constructor until the destructor clears it.
IsRunning == server.life = "running"

\* The acceptor tests its loop's condition.  From here on it is blocked in accept
\* for up to a second, whatever becomes of the flag; or it has had all the clients
\* it takes, or the server is being destroyed.
AcceptorLoop ==
    /\ server.acceptor = "loop"
    /\ server' = [server EXCEPT !.acceptor =
                    IF IsRunning /\ server.num < MaxClients THEN "accept" ELSE "done"]
    /\ UNCHANGED <<mode, conn, reader, processVars>>

\* Accept returns a client, whose number is the size of cfds_; its reader thread
\* starts and is kept in readWorker_ before the connect hook runs.  Or the client
\* is refused, its descriptor closed (wrong user, no timeout) or forgotten (no
\* credentials).
Accept(c) ==
    /\ server.acceptor = "accept"
    /\ conn[c].state = "queued"
    /\ \/ /\ conn' = [conn EXCEPT ![c].state = "accepted"]
          /\ server' = [server EXCEPT !.acceptor = "hook", !.client = c, !.num = @ + 1,
                                      !.readWorker = Append(@, c)]
          /\ reader' = [reader EXCEPT ![c].at = "loop"]
       \/ /\ \E s \in {"closed", "leaked"} : conn' = [conn EXCEPT ![c].state = s]
          /\ server' = [server EXCEPT !.acceptor = "loop"]
          /\ UNCHANGED reader
    /\ UNCHANGED <<mode, processVars>>

\* The client of another process under the same tool is accepted.  Its messages
\* are not followed: it only takes a place in cfds_.
AcceptOther ==
    /\ server.acceptor = "accept"
    /\ server' = [server EXCEPT !.acceptor = "loop", !.num = @ + 1]
    /\ UNCHANGED <<mode, conn, reader, processVars>>

\* Nobody connects within the second.
AcceptTimesOut ==
    /\ server.acceptor = "accept"
    /\ \A c \in Conns : conn[c].state # "queued"
    /\ server' = [server EXCEPT !.acceptor = "loop"]
    /\ UNCHANGED <<mode, conn, reader, processVars>>

\* clientConnectHook_, the tool's: it sends the sanitizer's configuration.
ConnectHook ==
    /\ server.acceptor = "hook"
    /\ conn' = IF mode = "sanitizer"
               THEN ServerWritten(server.client, Config) ELSE conn
    /\ server' = [server EXCEPT !.acceptor = "loop", !.client = None]
    /\ UNCHANGED <<mode, reader, processVars>>

\* Listen: the reader tests the flag; then it is blocked in read for up to a second.
ListenLoop(c) ==
    /\ reader[c].at = "loop"
    /\ reader' = [reader EXCEPT ![c].at = IF IsRunning THEN "read" ELSE "done"]
    /\ UNCHANGED <<mode, conn, server, processVars>>

\* One read, of all that has arrived; nothing arrived in time.
ListenRead(c) ==
    /\ reader[c].at = "read"
    /\ conn[c].up # <<>>
    /\ reader' = [reader EXCEPT ![c] = [at |-> "handle", got |-> conn[c].up]]
    /\ conn' = ServerTaken(c)
    /\ UNCHANGED <<mode, server, processVars>>

ListenTimesOut(c) ==
    /\ reader[c].at = "read"
    /\ conn[c].up = <<>>
    /\ reader' = [reader EXCEPT ![c].at = "loop"]
    /\ UNCHANGED <<mode, conn, server, processVars>>

\* clientMsgHandlerHook_, the tool's: it answers the requests that want one, in
\* their order, through RemoteProcess::Notify.
Handle(c) ==
    LET m == Head(reader[c].got)
        left == Tail(reader[c].got) IN
    /\ reader[c].at = "handle"
    /\ conn' = IF QueryResponsePacketType(m.kind) = "none" THEN conn
               ELSE ServerWritten(c, AnswerTo(m))
    /\ reader' = [reader EXCEPT ![c] = [at |-> IF left = <<>> THEN "loop" ELSE "handle",
                                        got |-> left]]
    /\ UNCHANGED <<mode, server, processVars>>

\* ~SocketServer: isRunning_ is cleared, ...
Stop ==
    /\ server.life \in {"running", "failed"}
    /\ server' = [server EXCEPT !.life = "stopping"]
    /\ UNCHANGED <<mode, conn, reader, processVars>>

\* ... the acceptor is joined, ...
\* Mutant: nobody waits for the acceptor.
JoinAcceptorNot ==
    /\ server.life = "stopping"
    /\ server' = [server EXCEPT !.life = "joined"]
    /\ UNCHANGED <<mode, conn, reader, processVars>>
JoinAcceptor ==
    /\ server.life = "stopping"
    /\ server.acceptor \in {"none", "done"}
    /\ server' = [server EXCEPT !.life = "joined"]
    /\ UNCHANGED <<mode, conn, reader, processVars>>

\* ~DomainSocketServer closes the sockets of the accepted clients and the bound
\* one with those that wait in it.  What was written can still be read.
ClosedSockets ==
    [c \in Conns |-> IF conn[c].state \in {"queued", "accepted"}
                     THEN [conn[c] EXCEPT !.state = "closed", !.up = <<>>] ELSE conn[c]]

\* ... then the readers, as they stand in readWorker_; ...
JoinReader ==
    /\ server.life = "joined"
    /\ server.joined < Len(server.readWorker)
    /\ reader[server.readWorker[server.joined + 1]].at = "done"
    /\ server' = [server EXCEPT !.joined = @ + 1]
    /\ UNCHANGED <<mode, conn, reader, processVars>>

\* ... and the members go, the sockets with them.
Destroyed ==
    /\ server.life = "joined"
    /\ server.joined = Len(server.readWorker)
    /\ server' = [server EXCEPT !.life = "gone"]
    /\ conn' = ClosedSockets
    /\ UNCHANGED <<mode, reader, processVars>>

-----------------------------------------------------------------------------
ThreadStep(t) == \/ Connect(t) \/ GetConfig(t) \/ ConfigWait(t)
                 \/ LockCommuntion(t) \/ Send(t) \/ Read(t) \/ Expire(t)
AcceptorStep == AcceptorLoop \/ AcceptTimesOut \/ ConnectHook \/ \E c \in Conns : Accept(c)
ReaderStep(c) == ListenLoop(c) \/ ListenRead(c) \/ ListenTimesOut(c) \/ Handle(c)
DestructorStep == JoinAcceptor \/ JoinReader \/ Destroyed

Next == \/ \E t \in Threads : Begin(t) \/ ThreadStep(t)
        \/ Start \/ AcceptOther \/ Stop
        \/ AcceptorStep \/ DestructorStep
        \/ \E c \in Conns : ReaderStep(c)

\* The threads on both sides are scheduled and reads time out.  Calls are finite
\* in number, so weak fairness also grants a mutex.
\* Nothing obliges an application to call, or a tool to start or to stop.
Spec == /\ Init /\ [][Next]_vars
        /\ \A t \in Threads : WF_vars(ThreadStep(t))
        /\ WF_vars(AcceptorStep) /\ WF_vars(DestructorStep)
        /\ \A c \in Conns : WF_vars(ReaderStep(c))

-----------------------------------------------------------------------------
(* Properties.                                                             *)

\* A message that a call of thread t on connection c may have received without
\* being its answer: the answer of a request that returned without it, or on a device
\* connection, where Interact holds no lock, of one that was waiting at the same
\* time, or the configuration of a device whose wait for it ran out.
Explained(m, c) ==
    \/ m.of \in unmet
    \/ c \in Devices /\ m.of \in mixed
    \/ m.kind = "config" /\ c \in configOut

\* A request receives its own answer and nothing else, except for what an
\* expired wait or another thread's unlocked Interact left on the connection: an
\* answer carries no number, so GetConfig before Interact and communtionMx_ are
\* all that keeps answers and requests together (InteractHelper.h Interact,
\* ProfConfig::GetOutputPathFromRemote, WaitForReply, WaitForPayload).
OwnAnswer ==
    \A t \in Threads : \A i \in DOMAIN last[t].buf :
        \/ last[t].buf[i].of = last[t].of
        \/ Explained(last[t].buf[i], last[t].c)

\* A device keeps the default configuration only if its own wait ran out, never
\* because the configuration came together with an answer or went to another
\* thread (ConfigManager<SanitizerConfig>::GetConfig).
ConfigReceived ==
    \A d \in Devices : configMap[d] = "default" => d \in configOut

\* Once the server's destructor has returned, no thread of it is left that could
\* use the destroyed socket or call a hook, and no client is left waiting on it.
\* A thread that tested isRunning_ just before the flag was cleared goes on for one
\* accept or one read, so that clients are accepted, readers started and requests
\* answered while the destructor runs: it joins the acceptor first, the only one
\* that adds to readWorker_, and walks readWorker_ after that (~SocketServer).
ServerQuiet ==
    server.life = "gone" =>
        /\ server.acceptor \in {"none", "done"}
        /\ \A c \in Conns : /\ reader[c].at \in {"none", "done"}
                             /\ conn[c].state \notin {"queued", "accepted"}

\* A client no reader will ever serve while the tool runs: its descriptor was
\* forgotten, or the acceptor has stopped after maxClientNum_ clients.
NeverServed(c) ==
    \/ conn[c].state = "leaked"
    \/ conn[c].state = "queued" /\ IsRunning /\ server.acceptor = "done"

\* Every call of the process returns, whatever the tool does, except a
\* WaitForReply on a connection that is never served.
CallsReturn ==
    \A t \in Threads : (thr[t].pc # "idle") ~>
        (thr[t].pc = "idle" \/ (mode = "profiler" /\ NeverServed(General)))

\* The destructor of the server returns (the readers and the acceptor leave
\* their loops within a second of isRunning_ being cleared).
ServerStops == (server.life = "stopping") ~> (server.life = "gone")

\* Requests and answers stay together, the configuration among them.
AnswersTogether == OwnAnswer /\ ConfigReceived

\* Neither side waits for the other for ever.
AllReturn == CallsReturn /\ ServerStops
=============================================================================
