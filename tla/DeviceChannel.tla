--------------------------- MODULE DeviceChannel ---------------------------
(***************************************************************************)
(* The sending half of the link between an instrumented process and the    *)
(* tool: LocalProcess, LocalDevice and the write path of Client and        *)
(* DomainSocketClient (csrc/core/LocalProcess.cpp, Communication.cpp,      *)
(* DomainSocket.cpp, csrc/runtime/inject_helpers/LocalDevice.cpp).         *)
(*                                                                         *)
(* Threads of one host process share one connection per device.  A device  *)
(* packet takes a process-wide order number while its connection's         *)
(* sendMutex_ is held and is then written in one or more write() calls.  A *)
(* fork may happen at any moment; the child has one thread and a copy of   *)
(* the parent's memory (locks, numbers, connection table) and shares the   *)
(* parent's sockets.                                                       *)
(*                                                                         *)
(* A message is a run of Chunks units.  One write() of several units is    *)
(* the same as several one-unit writes that nobody interrupts, so a        *)
(* successful write() step puts one unit on the wire.                      *)
(***************************************************************************)
EXTENDS Naturals, Sequences

CONSTANTS
    HostThreads,   \* the threads of the instrumented process
    ChildThread,   \* the only thread of the forked child
    Devices,       \* the device ids the threads use
    General,       \* the general connection, LocalProcess::GetInstance()
    Kinds,         \* the kinds of call the threads make
    Chunks,        \* the number of units of a message
    MaxOrderId,    \* numeric_limits<uint64_t>::max()
    MaxCalls,      \* bound on the calls of all threads together
    None           \* no holder, no owner, no connection

AllKinds == {"packet", "short", "binary", "text"}
Procs == {"host", "child"}
Threads == HostThreads \cup {ChildThread}
Endpoints == Devices \cup {General}

ASSUME ChannelAssumption ==
    /\ ChildThread \notin HostThreads
    /\ General \notin Devices
    /\ None \notin Threads
    /\ None \notin Procs
    /\ Kinds \subseteq AllKinds
    /\ Chunks \in Nat \ {0}
    /\ MaxOrderId \in Nat \ {0}
    /\ MaxCalls \in Nat

VARIABLES
    pc,            \* where each thread stands in its current call
    dev,           \* the endpoint of the current call
    kind,          \* what the current call sends
    next,          \* ReserveOrderId's local `next` (the CAS's expected value)
    orderId,       \* the number reserved by the current call, 0 if none
    sent,          \* units of the current message already written
    calls,         \* calls started so far by all threads
    ownerPid,      \* ProcessState::ownerPid, None until State() is first used
    nextOrderId,   \* ProcessState::nextOrderId
    devicesMutex,  \* ProcessState::devicesMutex, the thread that holds it
    conn,          \* ProcessState::devices: which process opened the socket
    sendMutex,     \* LocalProcess::sendMutex_, per connection object
    mux,           \* DomainSocketClient::mux_, per connection object
    link,          \* each socket: "none", "up" or "down"
    wire,          \* the units that entered each socket, in order
    reported       \* history: what the call that took a number returned

threadVars == <<pc, dev, kind, next, orderId, sent, calls>>
memoryVars == <<ownerPid, nextOrderId, devicesMutex, conn, sendMutex, mux>>
socketVars == <<link, wire, reported>>
vars == <<pc, dev, kind, next, orderId, sent, calls, ownerPid, nextOrderId,
          devicesMutex, conn, sendMutex, mux, link, wire, reported>>

Proc(t) == IF t = ChildThread THEN "child" ELSE "host"

\* One unit of a message in a socket: its number (0 for text, which has no
\* PacketHead), its place in the message, whether a memfd rides on it, and the
\* process that wrote it.
Unit == [id : Nat, idx : 1..Chunks, fd : BOOLEAN, by : Procs]

Locations == {"unborn", "idle", "exited", "getInstance", "lockDevices", "find",
              "enter", "lockSend", "load", "cas", "memfd", "muxFd", "sendmsg",
              "text", "mux", "write"}

Init ==
    /\ pc = [t \in Threads |-> IF t = ChildThread THEN "unborn" ELSE "idle"]
    /\ dev = [t \in Threads |-> General]
    /\ kind = [t \in Threads |-> "text"]
    /\ next = [t \in Threads |-> 0]
    /\ orderId = [t \in Threads |-> 0]
    /\ sent = [t \in Threads |-> 0]
    /\ calls = 0
    /\ ownerPid = [p \in Procs |-> None]
    /\ nextOrderId = [p \in Procs |-> 1]
    /\ devicesMutex = [p \in Procs |-> None]
    /\ conn = [p \in Procs |-> [e \in Endpoints |-> None]]
    /\ sendMutex = [p \in Procs |-> [e \in Endpoints |-> None]]
    /\ mux = [p \in Procs |-> [e \in Endpoints |-> None]]
    /\ link = [p \in Procs |-> [e \in Endpoints |-> "none"]]
    /\ wire = [p \in Procs |-> [e \in Endpoints |-> <<>>]]
    /\ reported = [p \in Procs |-> {}]

-----------------------------------------------------------------------------
(* Helpers shared by the actions.                                          *)

Goto(t, l) == pc' = [pc EXCEPT ![t] = l]

\* The call of thread t returns r: the lock_guard or unique_lock on sendMutex_,
\* if t holds it, is released, and the history records what became of the number.
Return(t, r) ==
    LET p == Proc(t) IN
    /\ Goto(t, "idle")
    /\ sendMutex' = [sendMutex EXCEPT ![p][dev[t]] = IF @ = t THEN None ELSE @]
    /\ reported' = IF orderId[t] = 0 THEN reported
                   ELSE [reported EXCEPT ![p] = @ \cup {[id |-> orderId[t], r |-> r]}]
    /\ orderId' = [orderId EXCEPT ![t] = 0]
    /\ sent' = [sent EXCEPT ![t] = 0]

\* State() creates the shared state on first use, with the pid of that moment.
OwnerOf(p) == IF ownerPid[p] = None THEN p ELSE ownerPid[p]

\* CheckProcessOwner: a process that is not the owner leaves with _exit.
CheckProcessOwner(t, ok) ==
    LET p == Proc(t) IN
    /\ ownerPid' = [ownerPid EXCEPT ![p] = OwnerOf(p)]
    /\ Goto(t, IF OwnerOf(p) = p THEN ok ELSE "exited")

-----------------------------------------------------------------------------
(* The calls.                                                              *)

\* A hook starts a call: LocalDevice::Local()/GetInstance(d) followed by Notify
\* or NotifyKernelBinary, the same through a reference it already has, or
\* Notify/Log on the general connection.
Call(t) ==
    LET p == Proc(t) IN
    /\ pc[t] = "idle"
    /\ calls < MaxCalls
    /\ calls' = calls + 1
    /\ \E k \in Kinds, e \in Endpoints :
          /\ (k = "text") <=> (e = General)
          /\ kind' = [kind EXCEPT ![t] = k]
          /\ dev' = [dev EXCEPT ![t] = e]
          /\ \/ e = General /\ Goto(t, "text")
             \/ e # General /\ Goto(t, "getInstance")
             \/ e # General /\ conn[p][e] # None /\ Goto(t, "enter")
    /\ UNCHANGED <<next, orderId, sent, memoryVars, socketVars>>

\* Mutant: GetInstance goes to the lock without looking at the pid.
GetInstanceLocksFirst(t) ==
    /\ pc[t] = "getInstance"
    /\ ownerPid' = [ownerPid EXCEPT ![Proc(t)] = OwnerOf(Proc(t))]
    /\ Goto(t, "lockDevices")
    /\ UNCHANGED <<dev, kind, next, orderId, sent, calls, nextOrderId,
                   devicesMutex, conn, sendMutex, mux, socketVars>>

\* LocalDevice::GetInstance looks at the pid before it takes devicesMutex.
GetInstance(t) ==
    /\ pc[t] = "getInstance"
    /\ CheckProcessOwner(t, "lockDevices")
    /\ UNCHANGED <<dev, kind, next, orderId, sent, calls, nextOrderId,
                   devicesMutex, conn, sendMutex, mux, socketVars>>

LockDevices(t) ==
    /\ pc[t] = "lockDevices"
    /\ devicesMutex[Proc(t)] = None
    /\ devicesMutex' = [devicesMutex EXCEPT ![Proc(t)] = t]
    /\ Goto(t, "find")
    /\ UNCHANGED <<dev, kind, next, orderId, sent, calls, ownerPid, nextOrderId,
                   conn, sendMutex, mux, socketVars>>

\* Under devicesMutex: reuse the connection of the table or construct one, whose
\* constructor retries Connect up to 50 times and keeps the object either way.
FindDevice(t) ==
    LET p == Proc(t) IN
    /\ pc[t] = "find"
    /\ \/ /\ conn[p][dev[t]] # None
          /\ UNCHANGED <<conn, link>>
       \/ /\ conn[p][dev[t]] = None
          /\ conn' = [conn EXCEPT ![p][dev[t]] = p]
          /\ \E s \in {"up", "down"} : link' = [link EXCEPT ![p][dev[t]] = s]
    /\ devicesMutex' = [devicesMutex EXCEPT ![p] = None]
    /\ Goto(t, "enter")
    /\ UNCHANGED <<dev, kind, next, orderId, sent, calls, ownerPid, nextOrderId,
                   sendMutex, mux, wire, reported>>

\* Mutant: Notify trusts that GetInstance has checked the pid.
EnterUnchecked(t) ==
    /\ pc[t] = "enter"
    /\ Goto(t, IF kind[t] = "short" THEN "idle" ELSE "lockSend")
    /\ UNCHANGED <<dev, kind, next, orderId, sent, calls, memoryVars, socketVars>>

\* The head of Notify and NotifyKernelBinary on a device connection: the pid is
\* checked before the lock, and a message shorter than a PacketHead is refused.
Enter(t) ==
    /\ pc[t] = "enter"
    /\ CheckProcessOwner(t, IF kind[t] = "short" THEN "idle" ELSE "lockSend")
    /\ UNCHANGED <<dev, kind, next, orderId, sent, calls, nextOrderId,
                   devicesMutex, conn, sendMutex, mux, socketVars>>

\* Mutant: sendMutex_ is not waited for.
LockSendSkipped(t) ==
    /\ pc[t] = "lockSend"
    /\ Goto(t, "load")
    /\ UNCHANGED <<dev, kind, next, orderId, sent, calls, memoryVars, socketVars>>

LockSend(t) ==
    LET p == Proc(t) IN
    /\ pc[t] = "lockSend"
    /\ sendMutex[p][dev[t]] = None
    /\ sendMutex' = [sendMutex EXCEPT ![p][dev[t]] = t]
    /\ Goto(t, "load")
    /\ UNCHANGED <<dev, kind, next, orderId, sent, calls, ownerPid, nextOrderId,
                   devicesMutex, conn, mux, socketVars>>

\* ReserveOrderId, first half: the relaxed load.  (Its own CheckProcessOwner
\* repeats the one Enter made: ownerPid is const once State() exists.)
ReserveLoad(t) ==
    /\ pc[t] = "load"
    /\ next' = [next EXCEPT ![t] = nextOrderId[Proc(t)]]
    /\ Goto(t, "cas")
    /\ UNCHANGED <<dev, kind, orderId, sent, calls, memoryVars, socketVars>>

\* Mutant: a plain store instead of the compare-and-exchange.
ReserveStore(t) ==
    LET p == Proc(t) IN
    /\ pc[t] = "cas"
    /\ next[t] < MaxOrderId
    /\ nextOrderId' = [nextOrderId EXCEPT ![p] = next[t] + 1]
    /\ orderId' = [orderId EXCEPT ![t] = next[t]]
    /\ Goto(t, IF kind[t] = "binary" THEN "memfd" ELSE "mux")
    /\ UNCHANGED <<next, sent, sendMutex, reported, dev, kind, calls, ownerPid,
                   devicesMutex, conn, mux, link, wire>>

\* Mutant: the end of the numbers is not tested.
ReserveUnbounded(t) ==
    LET p == Proc(t) IN
    /\ pc[t] = "cas"
    /\ next[t] = nextOrderId[p]
    /\ nextOrderId' = [nextOrderId EXCEPT ![p] = next[t] + 1]
    /\ orderId' = [orderId EXCEPT ![t] = next[t]]
    /\ Goto(t, IF kind[t] = "binary" THEN "memfd" ELSE "mux")
    /\ UNCHANGED <<next, sent, sendMutex, reported, dev, kind, calls, ownerPid,
                   devicesMutex, conn, mux, link, wire>>

\* ReserveOrderId, the loop: give up at the end of the numbers (the caller then
\* returns -1), take the number, or reload after a lost race.  A spurious failure
\* of compare_exchange_weak reloads the same value and changes nothing.
ReserveCas(t) ==
    LET p == Proc(t) IN
    /\ pc[t] = "cas"
    /\ \/ /\ next[t] \in {0, MaxOrderId}
          /\ Return(t, 0)
          /\ UNCHANGED <<next, nextOrderId>>
       \/ /\ next[t] \notin {0, MaxOrderId}
          /\ next[t] = nextOrderId[p]
          /\ nextOrderId' = [nextOrderId EXCEPT ![p] = next[t] + 1]
          /\ orderId' = [orderId EXCEPT ![t] = next[t]]
          /\ Goto(t, IF kind[t] = "binary" THEN "memfd" ELSE "mux")
          /\ UNCHANGED <<next, sent, sendMutex, reported>>
       \/ /\ next[t] \notin {0, MaxOrderId}
          /\ next[t] # nextOrderId[p]
          /\ next' = [next EXCEPT ![t] = nextOrderId[p]]
          /\ UNCHANGED <<pc, orderId, sent, nextOrderId, sendMutex, reported>>
    /\ UNCHANGED <<dev, kind, calls, ownerPid, devicesMutex, conn, mux, link,
                   wire>>

\* NotifyKernelBinary: put the image in a memfd, or fall back to the byte stream
\* when the memfd cannot be created or filled.
Memfd(t) ==
    /\ pc[t] = "memfd"
    /\ \E l \in {"muxFd", "mux"} : Goto(t, l)
    /\ UNCHANGED <<dev, kind, next, orderId, sent, calls, memoryVars, socketVars>>

\* The first use of LocalProcess::GetInstance() constructs the general connection;
\* it is a function-local static and no pid is checked on this path.
TextStart(t) ==
    LET p == Proc(t) IN
    /\ pc[t] = "text"
    /\ \/ conn[p][General] # None /\ UNCHANGED <<conn, link>>
       \/ /\ conn[p][General] = None
          /\ conn' = [conn EXCEPT ![p][General] = p]
          /\ \E s \in {"up", "down"} : link' = [link EXCEPT ![p][General] = s]
    /\ Goto(t, "mux")
    /\ UNCHANGED <<dev, kind, next, orderId, sent, calls, ownerPid, nextOrderId,
                   devicesMutex, sendMutex, mux, wire, reported>>

-----------------------------------------------------------------------------
(* The socket.                                                             *)

\* DomainSocketClient takes mux_ for one system call.
TakeMux(t) ==
    LET p == Proc(t) IN
    /\ pc[t] \in {"mux", "muxFd"}
    /\ mux[p][dev[t]] = None
    /\ mux' = [mux EXCEPT ![p][dev[t]] = t]
    /\ Goto(t, IF pc[t] = "mux" THEN "write" ELSE "sendmsg")
    /\ UNCHANGED <<dev, kind, next, orderId, sent, calls, ownerPid, nextOrderId,
                   devicesMutex, conn, sendMutex, socketVars>>

DropMux(t) == mux' = [mux EXCEPT ![Proc(t)][dev[t]] = None]

\* The socket of t's connection object takes one unit.
Put(t, unit) ==
    LET c == conn[Proc(t)][dev[t]] IN
    /\ link[c][dev[t]] = "up"
    /\ wire' = [wire EXCEPT ![c][dev[t]] = Append(@, unit)]

\* write() takes a unit; DomainSocketClient::Write loops until the message is
\* done, and SendBytes then returns the whole size.
WriteUnit(t) ==
    /\ pc[t] = "write"
    /\ Put(t, [id |-> orderId[t], idx |-> sent[t] + 1, fd |-> FALSE, by |-> Proc(t)])
    /\ DropMux(t)
    /\ \/ /\ sent[t] + 1 < Chunks
          /\ sent' = [sent EXCEPT ![t] = @ + 1]
          /\ Goto(t, "mux")
          /\ UNCHANGED <<orderId, sendMutex, reported>>
       \/ sent[t] + 1 = Chunks /\ Return(t, Chunks)
    /\ UNCHANGED <<dev, kind, next, calls, ownerPid, nextOrderId, devicesMutex,
                   conn, link>>

\* write() returns -1 (peer gone, interrupted, not connected).  The byte count of
\* DomainSocketClient::Write is dropped: SocketClient::Write returns -1 and
\* SendBytes, still in its first round, returns 0.
WriteFails(t) ==
    /\ pc[t] = "write"
    /\ DropMux(t)
    /\ Return(t, 0)
    /\ UNCHANGED <<dev, kind, next, calls, ownerPid, nextOrderId, devicesMutex,
                   conn, link, wire>>

\* sendmsg() passes the head and the memfd in one unit, the call returns > 0.
SendFd(t) ==
    /\ pc[t] = "sendmsg"
    /\ Put(t, [id |-> orderId[t], idx |-> 1, fd |-> TRUE, by |-> Proc(t)])
    /\ DropMux(t)
    /\ Return(t, 1)
    /\ UNCHANGED <<dev, kind, next, calls, ownerPid, nextOrderId, devicesMutex,
                   conn, link>>

\* Mutant: the fallback goes through Notify again and takes a second number.
SendFdFailsRenumbers(t) ==
    /\ pc[t] = "sendmsg"
    /\ DropMux(t)
    /\ Goto(t, "load")
    /\ UNCHANGED <<dev, kind, next, orderId, sent, calls, ownerPid, nextOrderId,
                   devicesMutex, conn, sendMutex, socketVars>>

\* sendmsg() fails: fall back to the byte stream with the number already taken.
SendFdFails(t) ==
    /\ pc[t] = "sendmsg"
    /\ DropMux(t)
    /\ Goto(t, "mux")
    /\ UNCHANGED <<dev, kind, next, orderId, sent, calls, ownerPid, nextOrderId,
                   devicesMutex, conn, sendMutex, socketVars>>

-----------------------------------------------------------------------------
(* The environment: the tool may go away, the application may fork and exec. *)

PeerCloses(p, e) ==
    /\ link[p][e] = "up"
    /\ link' = [link EXCEPT ![p][e] = "down"]
    /\ UNCHANGED <<threadVars, memoryVars, wire, reported>>

\* fork() in a host thread that is in no call: the child starts with a copy of the
\* memory as it is, locks held by the other threads included.
Fork(t) ==
    /\ pc[t] = "idle"
    /\ pc[ChildThread] = "unborn"
    /\ Goto(ChildThread, "idle")
    /\ ownerPid' = [ownerPid EXCEPT !["child"] = ownerPid["host"]]
    /\ nextOrderId' = [nextOrderId EXCEPT !["child"] = nextOrderId["host"]]
    /\ devicesMutex' = [devicesMutex EXCEPT !["child"] = devicesMutex["host"]]
    /\ conn' = [conn EXCEPT !["child"] = conn["host"]]
    /\ sendMutex' = [sendMutex EXCEPT !["child"] = sendMutex["host"]]
    /\ mux' = [mux EXCEPT !["child"] = mux["host"]]
    /\ UNCHANGED <<dev, kind, next, orderId, sent, calls, socketVars>>

\* exec() in a child that has not become an owner: a new image, all state afresh.
Exec ==
    /\ pc[ChildThread] = "idle"
    /\ ownerPid["child"] = "host"
    /\ ownerPid' = [ownerPid EXCEPT !["child"] = None]
    /\ nextOrderId' = [nextOrderId EXCEPT !["child"] = 1]
    /\ devicesMutex' = [devicesMutex EXCEPT !["child"] = None]
    /\ conn' = [conn EXCEPT !["child"] = [e \in Endpoints |-> None]]
    /\ sendMutex' = [sendMutex EXCEPT !["child"] = [e \in Endpoints |-> None]]
    /\ mux' = [mux EXCEPT !["child"] = [e \in Endpoints |-> None]]
    /\ UNCHANGED <<threadVars, socketVars>>

-----------------------------------------------------------------------------

\* A step of t inside a call.
Running(t) ==
    \/ GetInstance(t) \/ LockDevices(t) \/ FindDevice(t)
    \/ Enter(t) \/ LockSend(t) \/ ReserveLoad(t) \/ ReserveCas(t)
    \/ Memfd(t) \/ TextStart(t) \/ TakeMux(t)
    \/ WriteUnit(t) \/ WriteFails(t) \/ SendFd(t) \/ SendFdFails(t)

Next ==
    \/ \E t \in Threads : Call(t) \/ Running(t)
    \/ \E p \in Procs, e \in Endpoints : PeerCloses(p, e)
    \/ \E t \in HostThreads : Fork(t)
    \/ Exec

Spec == Init /\ [][Next]_vars

\* A thread that can go on in its call does so; nothing makes the application
\* call, fork or exec, or the tool close.
FairSpec == Spec /\ \A t \in Threads : WF_vars(Running(t))

-----------------------------------------------------------------------------
(* Properties.                                                             *)

ThreadTypes ==
    /\ pc \in [Threads -> Locations]
    /\ dev \in [Threads -> Endpoints]
    /\ kind \in [Threads -> AllKinds]
    /\ next \in [Threads -> 0..MaxOrderId]
    /\ orderId \in [Threads -> 0..MaxOrderId]
    /\ sent \in [Threads -> 0..Chunks]
    /\ calls \in 0..MaxCalls

MemoryTypes ==
    /\ ownerPid \in [Procs -> Procs \cup {None}]
    /\ nextOrderId \in [Procs -> 1..MaxOrderId]
    /\ devicesMutex \in [Procs -> Threads \cup {None}]
    /\ conn \in [Procs -> [Endpoints -> Procs \cup {None}]]
    /\ sendMutex \in [Procs -> [Endpoints -> Threads \cup {None}]]
    /\ mux \in [Procs -> [Endpoints -> Threads \cup {None}]]

SocketTypes ==
    /\ link \in [Procs -> [Endpoints -> {"none", "up", "down"}]]
    /\ wire \in [Procs -> [Endpoints -> Seq(Unit)]]
    /\ reported \in [Procs -> SUBSET [id : 1..MaxOrderId, r : 0..Chunks]]

TypeOK == ThreadTypes /\ MemoryTypes /\ SocketTypes

\* Unit b may come directly after unit a: it continues a's packet, or it starts a
\* packet with a larger number.
Follows(a, b) ==
    \/ b.id = a.id /\ b.idx = a.idx + 1 /\ ~a.fd /\ ~b.fd
    \/ b.id > a.id /\ b.idx = 1

\* "保护当前连接的完整设备包发送": on a device connection the units of a packet are
\* contiguous and in order, and packets appear in increasing order number, so a
\* packet is cut short only by a failed write and never resumed or repeated.
PacketsOrderedAndWhole ==
    \A p \in Procs, d \in Devices :
        /\ wire[p][d] # <<>> => wire[p][d][1].idx = 1 /\ wire[p][d][1].id > 0
        /\ \A i \in 1..(Len(wire[p][d]) - 1) :
              Follows(wire[p][d][i], wire[p][d][i + 1])

\* Numbers belong to the process, not to a connection: no number that was sent to
\* one device is ever sent to another, wrap-around included.
OrderIdsUnique ==
    \A p \in Procs : \A d1, d2 \in Devices :
        d1 # d2 =>
            \A i \in DOMAIN wire[p][d1], j \in DOMAIN wire[p][d2] :
                wire[p][d1][i].id # wire[p][d2][j].id

\* A forked child never puts a byte in a device connection of its parent.
DeviceLinksPrivate ==
    \A p \in Procs, d \in Devices :
        \A i \in DOMAIN wire[p][d] : wire[p][d][i].by = p

\* A whole packet with this number is in one of p's device sockets: all its units,
\* or its head with the memfd.
Complete(p, id) ==
    \E d \in Devices : \E i \in DOMAIN wire[p][d] :
        /\ wire[p][d][i].id = id
        /\ wire[p][d][i].idx = Chunks \/ wire[p][d][i].fd

\* Notify and NotifyKernelBinary report a sent packet exactly when the whole packet
\* is in the socket, by whichever of the two forms.
ReportedTruthfully ==
    \A p \in Procs : \A rec \in reported[p] :
        (rec.r > 0) <=> Complete(p, rec.id)

\* Every number the source handed out is the number of a call still under way or
\* of one that returned; in particular a binary that falls back keeps its number.
NoNumberLost ==
    \A p \in Procs : \A id \in 1..(nextOrderId[p] - 1) :
        \/ ownerPid[p] # p
        \/ \E rec \in reported[p] : rec.id = id
        \/ \E t \in Threads : Proc(t) = p /\ orderId[t] = id

\* Calls are accounted for: what a caller is told is what is in the socket, and
\* every number belongs to one call (Notify, NotifyKernelBinary, ReserveOrderId).
CallsAccounted == ReportedTruthfully /\ NoNumberLost

\* The packets whose first unit is in a device socket of each process.
Begun ==
    [p \in Procs |->
        {b \in Devices \X (1..MaxOrderId) :
            \E i \in DOMAIN wire[p][b[1]] : wire[p][b[1]][i].id = b[2]}]

Abstract == INSTANCE OrderedLinks
    WITH Processes <- Procs, Links <- Devices, Numbers <- 1..MaxOrderId,
         begun <- Begun

\* The numbering, locking and fork handling implement OrderedLinks.
ImplementsOrderedLinks == Abstract!Spec

\* A call on a device connection always ends, in the host and in a forked child,
\* whatever locks the child inherited.
DeviceCallsReturn ==
    \A t \in Threads :
        (pc[t] # "unborn" /\ kind[t] # "text") ~> (pc[t] \in {"idle", "exited"})

-----------------------------------------------------------------------------
(* The inductive invariant of the proofs (DeviceChannelProofs).            *)

\* t has a number, or holds its connection's sendMutex_ on the way to one.
HasNumber(t) ==
    \/ pc[t] \in {"memfd", "muxFd", "sendmsg"}
    \/ pc[t] \in {"mux", "write"} /\ kind[t] # "text"

InSend(t) == pc[t] \in {"load", "cas"} \/ HasNumber(t)

\* Text goes to the general connection and everything else to a device.
TextIsGeneral == \A t \in Threads : kind[t] = "text" <=> dev[t] = General

\* What a thread knows at each place of a device call: past the check its process
\* owns the state, past GetInstance the table has the connection, and in the send
\* it holds the connection's sendMutex_.
CallStages ==
    \A t \in Threads :
        /\ pc[t] \in {"lockDevices", "find", "lockSend"} \/ InSend(t)
              => ownerPid[Proc(t)] = Proc(t)
        /\ pc[t] \in {"enter", "lockSend"} \/ InSend(t)
              => conn[Proc(t)][dev[t]] # None
        /\ InSend(t) => sendMutex[Proc(t)][dev[t]] = t
        /\ (pc[t] \in {"getInstance", "lockDevices", "find", "enter", "lockSend"}
           \/ InSend(t)) => dev[t] # General
        /\ pc[t] = "text" => dev[t] = General

\* The connection table holds sockets opened by the owner of the state.
ConnOwner ==
    \A p \in Procs, d \in Devices :
        conn[p][d] # None => conn[p][d] = ownerPid[p]

\* A process that does not own its state has sent no device unit.
SilentUnlessOwner ==
    \A p \in Procs, d \in Devices : ownerPid[p] # p => wire[p][d] = <<>>

UnbornIsNobody == pc[ChildThread] = "unborn" => ownerPid["child"] = None

\* Numbers are held exactly inside a send, and lie below the source.
NumbersHeld ==
    \A t \in Threads :
        /\ HasNumber(t) <=> orderId[t] > 0
        /\ pc[t] \notin {"mux", "write"} => sent[t] = 0
        /\ pc[t] \in {"mux", "write"} => sent[t] < Chunks
        /\ orderId[t] > 0 => orderId[t] < nextOrderId[Proc(t)]

NumbersBelowSource ==
    \A p \in Procs, d \in Devices : \A i \in DOMAIN wire[p][d] :
        /\ wire[p][d][i].id > 0
        /\ wire[p][d][i].id < nextOrderId[p]

NumbersDistinct ==
    \A t1, t2 \in Threads :
        /\ t1 # t2
        /\ Proc(t1) = Proc(t2)
        /\ orderId[t1] > 0
        => orderId[t1] # orderId[t2]

\* A thread t that holds a number n: no other connection of its process has n ...
ElsewhereUnseen(t) ==
    \A d \in Devices \ {dev[t]} : \A i \in DOMAIN wire[Proc(t)][d] :
        wire[Proc(t)][d][i].id # orderId[t]

\* ... and w, its own, has only smaller numbers before the first unit and ends with
\* the thread's last unit afterwards.
LastUnitIsMine(t, w) ==
    /\ sent[t] = 0 => \A i \in DOMAIN w : w[i].id < orderId[t]
    /\ sent[t] > 0 => /\ w # <<>>
                      /\ w[Len(w)].id = orderId[t]
                      /\ w[Len(w)].idx = sent[t]
                      /\ ~w[Len(w)].fd

NumberInFlight ==
    \A t \in Threads :
        orderId[t] > 0 =>
            ElsewhereUnseen(t) /\ LastUnitIsMine(t, wire[Proc(t)][dev[t]])

ControlInv ==
    /\ TextIsGeneral
    /\ CallStages
    /\ ConnOwner
    /\ UnbornIsNobody
    /\ NumbersHeld

WireInv ==
    /\ SilentUnlessOwner
    /\ NumbersBelowSource
    /\ NumbersDistinct
    /\ NumberInFlight
    /\ PacketsOrderedAndWhole
    /\ OrderIdsUnique
    /\ DeviceLinksPrivate

ChannelInv == TypeOK /\ ControlInv /\ WireInv
=============================================================================
